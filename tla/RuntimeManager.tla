--------------------------- MODULE RuntimeManager ---------------------------
(***************************************************************************)
(* runtime.Manager for one session key: the registry of running rounds,    *)
(* their cancel functions and done channels, and the callers that start,   *)
(* finish, interrupt and close them concurrently.  Each action is one      *)
(* critical section of Manager.mu or one blocking step taken outside it.   *)
(*                                                                         *)
(* Rounds are the goroutines of dm/room round runners, Interrupters the    *)
(* calls of InterruptSession, Closers the calls of CloseSession.  A round  *)
(* id is used once, so that a done channel is named by its round: clients  *)
(* make their ids, and the one reuse is a queued input that is enqueued    *)
(* again after its dispatch failed, whose round is finished by then.       *)
(***************************************************************************)
CONSTANTS
    Rounds,        \* round ids, one runner goroutine each
    Interrupters,  \* calls of InterruptSession
    Closers,       \* calls of CloseSession
    Inputs,        \* guidance texts queued while a round runs
    Reasons,       \* reason texts a caller passes to InterruptSession
    NoReason       \* the empty reason, also read for an absent map entry

ASSUME NoReasonAssumption == NoReason \notin Reasons

VARIABLES
    present,        \* sessions[sessionKey] exists
    hasClient,      \* its Client is not nil
    running,        \* keys of RunningRounds
    cancels,        \* keys of RoundCancels
    done,           \* keys of RoundDone
    interruptions,  \* Interruptions, NoReason where there is no entry
    guided,         \* GuidedInputs (their order plays no role here)
    doneCh,         \* the done channel of each round: "none", "open", "closed"
    ctxDone,        \* rounds whose context has been cancelled
    rpc,            \* control point of each round's runner
    ipc,            \* control point of each InterruptSession call
    ids,            \* its roundIDs
    waits,          \* its doneSignals
    stops,          \* its cancels
    why,            \* its interruptReason
    cpc,            \* control point of each CloseSession call
    dropped,        \* the RoundCancels of the session it deleted
    detached        \* history: rounds whose registration CloseSession deleted

session == <<present, hasClient, running, cancels, done, interruptions, guided>>
roundVars == <<doneCh, ctxDone, rpc>>
callVars == <<ipc, ids, waits, stops, why>>
closeVars == <<cpc, dropped>>
history == <<detached>>
vars == <<session, roundVars, callVars, closeVars, history>>

RoundPCs == {"idle", "acquired", "executing", "ended", "finished"}
InterruptPCs ==
    {"idle", "mark", "interrupt", "cancel", "wait", "forced", "stopped", "failed"}
ClosePCs == {"idle", "cancel", "disconnect", "returned"}

TypeOK ==
    /\ present \in BOOLEAN
    /\ hasClient \in BOOLEAN
    /\ running \subseteq Rounds
    /\ cancels \subseteq Rounds
    /\ done \subseteq Rounds
    /\ interruptions \in [Rounds -> Reasons \cup {NoReason}]
    /\ guided \subseteq Inputs
    /\ doneCh \in [Rounds -> {"none", "open", "closed"}]
    /\ ctxDone \subseteq Rounds
    /\ rpc \in [Rounds -> RoundPCs]
    /\ ipc \in [Interrupters -> InterruptPCs]
    /\ ids \in [Interrupters -> SUBSET Rounds]
    /\ waits \in [Interrupters -> SUBSET Rounds]
    /\ stops \in [Interrupters -> SUBSET Rounds]
    /\ why \in [Interrupters -> Reasons \cup {NoReason}]
    /\ cpc \in [Closers -> ClosePCs]
    /\ dropped \in [Closers -> SUBSET Rounds]
    /\ detached \subseteq Rounds

Init ==
    /\ present = FALSE
    /\ hasClient = FALSE
    /\ running = {}
    /\ cancels = {}
    /\ done = {}
    /\ interruptions = [r \in Rounds |-> NoReason]
    /\ guided = {}
    /\ doneCh = [r \in Rounds |-> "none"]
    /\ ctxDone = {}
    /\ rpc = [r \in Rounds |-> "idle"]
    /\ ipc = [i \in Interrupters |-> "idle"]
    /\ ids = [i \in Interrupters |-> {}]
    /\ waits = [i \in Interrupters |-> {}]
    /\ stops = [i \in Interrupters |-> {}]
    /\ why = [i \in Interrupters |-> NoReason]
    /\ cpc = [c \in Closers |-> "idle"]
    /\ dropped = [c \in Closers |-> {}]
    /\ detached = {}

-----------------------------------------------------------------------------
(* The runner of a round.                                                  *)

RoundMoves(r, from, to) ==
    /\ rpc[r] = from
    /\ rpc' = [rpc EXCEPT ![r] = to]

\* GetOrCreate: ensureStateLocked, then a client if there is none.
GetOrCreate(r) ==
    /\ RoundMoves(r, "idle", "acquired")
    /\ present' = TRUE
    /\ hasClient' = TRUE
    /\ UNCHANGED <<running, cancels, done, interruptions, guided>>
    /\ UNCHANGED <<doneCh, ctxDone, callVars, closeVars, history>>

\* Fault: a round is not entered in RoundDone.
StartRoundNoDone(r) ==
    /\ RoundMoves(r, "acquired", "executing")
    /\ present' = TRUE
    /\ running' = running \cup {r}
    /\ cancels' = cancels \cup {r}
    /\ doneCh' = [doneCh EXCEPT ![r] = "open"]
    /\ UNCHANGED <<hasClient, done, interruptions, guided, ctxDone>>
    /\ UNCHANGED <<callVars, closeVars, history>>

\* StartRound.  The session may have been closed since GetOrCreate:
\* ensureStateLocked then makes a new one, which has no client.
StartRound(r) ==
    /\ RoundMoves(r, "acquired", "executing")
    /\ present' = TRUE
    /\ running' = running \cup {r}
    /\ interruptions' = [interruptions EXCEPT ![r] = NoReason]
    /\ cancels' = cancels \cup {r}
    /\ done' = done \cup {r}
    /\ doneCh' = [doneCh EXCEPT ![r] = IF r \in done THEN @ ELSE "open"]
    /\ UNCHANGED <<hasClient, guided, ctxDone, callVars, closeVars, history>>

\* ExecuteRound returns on the SDK's result, an error or the idle timeout.
RoundEnds(r) ==
    /\ RoundMoves(r, "executing", "ended")
    /\ UNCHANGED <<session, doneCh, ctxDone, callVars, closeVars, history>>

\* ExecuteRound sees ctx.Done and returns ErrRoundInterrupted.
RoundObservesCancel(r) ==
    /\ r \in ctxDone
    /\ RoundEnds(r)

\* Faults: guidance is kept, a channel is deleted unclosed, an entry of
\* Interruptions is cut out of the map.
MarkRoundFinishedWith(r, keptGuidance, ending, reasons) ==
    /\ RoundMoves(r, "ended", "finished")
    /\ present
    /\ running' = running \ {r}
    /\ cancels' = cancels \ {r}
    /\ interruptions' = reasons
    /\ guided' = IF running \ {r} = {} THEN keptGuidance ELSE guided
    /\ done' = done \ {r}
    /\ doneCh' = [doneCh EXCEPT ![r] = ending]
    /\ UNCHANGED <<present, hasClient, ctxDone, callVars, closeVars, history>>

MarkRoundFinishedKeepsGuidance(r) ==
    MarkRoundFinishedWith(r, guided, "closed", interruptions)
MarkRoundFinishedLeavesOpen(r) ==
    MarkRoundFinishedWith(r, {}, "open", interruptions)

\* MarkRoundFinished, called by the runner whatever way the round ended.
MarkRoundFinished(r) ==
    /\ RoundMoves(r, "ended", "finished")
    /\ IF present
       THEN /\ running' = running \ {r}
            /\ cancels' = cancels \ {r}
            /\ interruptions' = [interruptions EXCEPT ![r] = NoReason]
            /\ guided' = IF running \ {r} = {} THEN {} ELSE guided
            /\ done' = done \ {r}
            /\ doneCh' = [doneCh EXCEPT ![r] = IF r \in done THEN "closed" ELSE @]
       ELSE UNCHANGED <<running, cancels, interruptions, guided, done, doneCh>>
    /\ UNCHANGED <<present, hasClient, ctxDone, callVars, closeVars, history>>

-----------------------------------------------------------------------------
(* InterruptSession.                                                       *)

InterruptMoves(i, from, to) ==
    /\ ipc[i] = from
    /\ ipc' = [ipc EXCEPT ![i] = to]

\* First critical section (read lock): no session, or nothing running.
InterruptIdle(i) ==
    /\ running = {}
    /\ InterruptMoves(i, "idle", "stopped")
    /\ UNCHANGED <<session, roundVars, ids, waits, stops, why, closeVars, history>>

\* First critical section: the running rounds, their channels and cancels.
InterruptSnapshot(i) ==
    /\ running # {}
    /\ InterruptMoves(i, "idle", "mark")
    /\ ids' = [ids EXCEPT ![i] = running]
    /\ waits' = [waits EXCEPT ![i] = running \cap done]
    /\ stops' = [stops EXCEPT ![i] = running \cap cancels]
    /\ \E reason \in Reasons \cup {NoReason} : why' = [why EXCEPT ![i] = reason]
    /\ UNCHANGED <<session, roundVars, closeVars, history>>

\* Second critical section (write lock): ensureStateLocked may recreate a
\* session closed meanwhile; the client is read again.
InterruptMark(i) ==
    /\ InterruptMoves(i, "mark", IF hasClient THEN "interrupt" ELSE "cancel")
    /\ present' = TRUE
    /\ interruptions' =
          [r \in Rounds |-> IF r \in ids[i] THEN why[i] ELSE interruptions[r]]
    /\ UNCHANGED <<hasClient, running, cancels, done, guided, roundVars>>
    /\ UNCHANGED <<ids, waits, stops, why, closeVars, detached>>

\* Fault: nothing is cancelled.
InterruptCancelsNothing(i) ==
    /\ InterruptMoves(i, "cancel", "forced")
    /\ UNCHANGED <<session, roundVars, ids, waits, stops, why, closeVars, history>>

\* No client to ask: the contexts are cancelled at once.
InterruptCancels(i) ==
    /\ InterruptMoves(i, "cancel", "forced")
    /\ ctxDone' = ctxDone \cup stops[i]
    /\ UNCHANGED <<session, doneCh, rpc, ids, waits, stops, why, closeVars, history>>

\* client.Interrupt(ctx): the control request is accepted or fails.
InterruptClient(i) ==
    /\ \/ InterruptMoves(i, "interrupt", "wait")
       \/ InterruptMoves(i, "interrupt", "failed")
    /\ UNCHANGED <<session, roundVars, ids, waits, stops, why, closeVars, history>>

\* waitRoundDoneSignals: the 150 ms timer fires first and forceCancel runs.
ForceCancel(i) ==
    /\ InterruptMoves(i, "wait", "forced")
    /\ \E r \in waits[i] : doneCh[r] # "closed"
    /\ ctxDone' = ctxDone \cup stops[i]
    /\ UNCHANGED <<session, doneCh, rpc, ids, waits, stops, why, closeVars, history>>

\* Fault: the first closed channel ends the wait.
InterruptReturnOnFirst(i) ==
    /\ \/ InterruptMoves(i, "wait", "stopped")
       \/ InterruptMoves(i, "forced", "stopped")
    /\ \E r \in waits[i] : doneCh[r] = "closed"
    /\ UNCHANGED <<session, roundVars, ids, waits, stops, why, closeVars, history>>

\* waitRoundDoneSignals has received from every channel.
InterruptReturn(i) ==
    /\ \/ InterruptMoves(i, "wait", "stopped")
       \/ InterruptMoves(i, "forced", "stopped")
    /\ \A r \in waits[i] : doneCh[r] = "closed"
    /\ UNCHANGED <<session, roundVars, ids, waits, stops, why, closeVars, history>>

\* The caller's own context ends while a channel is still open.
InterruptGivesUp(i) ==
    /\ \/ InterruptMoves(i, "wait", "failed")
       \/ InterruptMoves(i, "forced", "failed")
    /\ waits[i] # {}
    /\ UNCHANGED <<session, roundVars, ids, waits, stops, why, closeVars, history>>

-----------------------------------------------------------------------------
(* CloseSession.                                                           *)

\* Critical section: the session leaves the map with all its registrations.
\* Without a client nothing is cancelled.
CloseSession(c) ==
    /\ cpc[c] = "idle"
    /\ cpc' = [cpc EXCEPT ![c] = IF hasClient THEN "cancel" ELSE "returned"]
    /\ dropped' = [dropped EXCEPT ![c] = IF hasClient THEN cancels ELSE {}]
    /\ detached' = detached \cup running
    /\ present' = FALSE
    /\ hasClient' = FALSE
    /\ running' = {}
    /\ cancels' = {}
    /\ done' = {}
    /\ interruptions' = [r \in Rounds |-> NoReason]
    /\ guided' = {}
    /\ UNCHANGED <<roundVars, callVars>>

\* Fault: the contexts stay alive.
CloseCancelsNothing(c) ==
    /\ cpc[c] = "cancel"
    /\ cpc' = [cpc EXCEPT ![c] = "disconnect"]
    /\ UNCHANGED <<session, roundVars, callVars, dropped, history>>

\* Outside the lock: the cancel functions of the deleted session.
CloseCancels(c) ==
    /\ cpc[c] = "cancel"
    /\ cpc' = [cpc EXCEPT ![c] = "disconnect"]
    /\ ctxDone' = ctxDone \cup dropped[c]
    /\ UNCHANGED <<session, doneCh, rpc, callVars, dropped, history>>

CloseDisconnects(c) ==
    /\ cpc[c] = "disconnect"
    /\ cpc' = [cpc EXCEPT ![c] = "returned"]
    /\ UNCHANGED <<session, roundVars, callVars, dropped, history>>

-----------------------------------------------------------------------------
(* Guidance for the running round.                                         *)

QueueGuidanceInput(input) ==
    /\ running # {}
    /\ input \notin guided
    /\ guided' = guided \cup {input}
    /\ UNCHANGED <<present, hasClient, running, cancels, done, interruptions>>
    /\ UNCHANGED <<roundVars, callVars, closeVars, history>>

\* The PostToolUse hook takes everything at once.  It runs inside the SDK
\* while a round executes, possibly a round of a session closed since.
drainGuidanceInputs ==
    /\ \E r \in Rounds : rpc[r] = "executing"
    /\ guided # {}
    /\ guided' = {}
    /\ UNCHANGED <<present, hasClient, running, cancels, done, interruptions>>
    /\ UNCHANGED <<roundVars, callVars, closeVars, history>>

-----------------------------------------------------------------------------
RoundStep(r) ==
    \/ GetOrCreate(r)
    \/ StartRound(r)
    \/ RoundEnds(r)
    \/ RoundObservesCancel(r)
    \/ MarkRoundFinished(r)

InterruptStep(i) ==
    \/ InterruptIdle(i)
    \/ InterruptSnapshot(i)
    \/ InterruptMark(i)
    \/ InterruptCancels(i)
    \/ InterruptClient(i)
    \/ ForceCancel(i)
    \/ InterruptReturn(i)
    \/ InterruptGivesUp(i)

CloseStep(c) ==
    \/ CloseSession(c)
    \/ CloseCancels(c)
    \/ CloseDisconnects(c)

Next ==
    \/ \E r \in Rounds : RoundStep(r)
    \/ \E i \in Interrupters : InterruptStep(i)
    \/ \E c \in Closers : CloseStep(c)
    \/ \E input \in Inputs : QueueGuidanceInput(input)
    \/ drainGuidanceInputs

Spec == Init /\ [][Next]_vars

(* Once a context is cancelled its round returns; a runner always reports  *)
(* its end; the steps of a call follow each other and its timer fires.     *)
(* Nothing is assumed of rounds whose context is live, of SDK results, or  *)
(* of callers giving up.                                                   *)
InterruptProceeds(i) ==
    \/ InterruptMark(i)
    \/ InterruptCancels(i)
    \/ InterruptClient(i)
    \/ ForceCancel(i)
    \/ InterruptReturn(i)

Fairness ==
    /\ \A r \in Rounds : WF_vars(RoundObservesCancel(r)) /\ WF_vars(MarkRoundFinished(r))
    /\ \A i \in Interrupters : WF_vars(InterruptProceeds(i))
    /\ \A c \in Closers : WF_vars(CloseCancels(c) \/ CloseDisconnects(c))

FairSpec == Spec /\ Fairness

-----------------------------------------------------------------------------
(* Properties.                                                             *)

\* Rounds whose runner has passed StartRound and not yet MarkRoundFinished.
Active == {r \in Rounds : rpc[r] \in {"executing", "ended"}}

\* The three per-round maps agree and hold exactly the active rounds that no
\* CloseSession dropped: a runner can be found by id, cancelled and waited
\* for, however StartRound, MarkRoundFinished, CloseSession and the session
\* recreated by InterruptSession interleave.
RegisteredUntilFinished ==
    /\ running = Active \ detached
    /\ cancels = running
    /\ done = running
    /\ \A r \in running : doneCh[r] = "open"

\* A channel somebody waits on and that is still open will be closed by the
\* MarkRoundFinished of a registered round, unless CloseSession dropped it.
WaitersHaveACloser ==
    \A i \in Interrupters : \A r \in waits[i] :
        ipc[i] \in {"wait", "forced"} /\ doneCh[r] # "closed" =>
            r \in done \/ r \in detached

\* Guidance accepted for a running round never survives the last running
\* round: the next round of the session cannot receive it.
GuidanceNeverOutlivesRounds == guided # {} => running # {}

\* The manager implements the registry: an InterruptSession that returns
\* without error leaves no round active of those active when it began.
Registry == INSTANCE RoundRegistry WITH
    active <- Active \ detached,
    begun <- {r \in Rounds : rpc[r] \in {"executing", "ended", "finished"}},
    call <- [i \in Interrupters |->
                IF ipc[i] \in {"idle", "stopped", "failed"} THEN ipc[i] ELSE "calling"],
    wanted <- ids

ImplementsRegistry == Registry!Spec

\* An InterruptSession call returns, by the client's interrupt or by the
\* forced cancellation, unless a round it waits for was dropped by a
\* CloseSession, whose done channel nobody closes any more.
InterruptReturns ==
    \A i \in Interrupters :
        ipc[i] \in {"mark", "interrupt", "cancel", "wait", "forced"} ~>
            \/ ipc[i] \in {"stopped", "failed"}
            \/ \E r \in waits[i] : r \in detached /\ doneCh[r] = "open"

\* CloseSession of a session with a client ends every round it drops.
CloseEndsRounds ==
    \A c \in Closers : \A r \in Rounds :
        (cpc[c] = "cancel" /\ r \in dropped[c]) ~> rpc[r] = "finished"
=============================================================================
