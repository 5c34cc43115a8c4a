------------------------------ MODULE DMSession ------------------------------
(***************************************************************************)
(* The DM session service for one session: users' messages with a delivery *)
(* policy, the queue of inputs typed ahead and the goroutines that         *)
(* dispatch it, the round runners, the guidance hooks and the edits of the *)
(* queue, over the promises of the runtime manager (RoundRegistry) and of  *)
(* the queue store (InputQueue).                                           *)
(*                                                                         *)
(* The input of HandleChat and the round it starts are one value: the id   *)
(* of the message, or of the queued item ("queue_" + item id).  Which      *)
(* ordinary item is the first of the queue is a matter of InputQueue and   *)
(* left open here.                                                         *)
(***************************************************************************)
EXTENDS Naturals

CONSTANTS
    Messages,     \* calls of HandleChat and HandleInterrupt by users
    Items,        \* inputs typed ahead
    Dispatchers,  \* dispatcher goroutines at work at the same time
    Choices,      \* what users choose: delivery policies, with the request "guide"
                  \* of the queue, and "stop" for HandleInterrupt
    MaxWake,      \* bound: dispatcher goroutines not yet begun
    NoInput       \* no input

ASSUME InputsAssumption ==
    /\ Messages \cap Items = {}
    /\ Messages \cap Dispatchers = {}
    /\ NoInput \notin Messages \cup Items

Policies == {"queue", "guide", "interrupt"}

ASSUME ChoicesAssumption == Choices \subseteq Policies \cup {"stop"}
ASSUME MaxWakeAssumption == MaxWake \in Nat \ {0}

Callers == Messages \cup Dispatchers
Inputs == Messages \cup Items

VARIABLES
    running,      \* RunningRounds of the session
    guided,       \* GuidedInputs of the session
    client,       \* the session has a client
    rpc,          \* the runner of each round: "none", "executing", "finished", "ended"
    queued,       \* ids in the input queue
    policy,       \* the delivery policy of each item
    pc,           \* control point of each HandleChat, with its dispatcher's
    input,        \* the input it handles
    chatPolicy,   \* its delivery policy
    wanted,       \* the rounds its InterruptSession waits for
    stranded,     \* callers that wait for a round a CloseSession has dropped:
                  \* nobody closes its done channel any more
    wake,         \* dispatcher goroutines not yet begun
    hook,         \* the queue's guidance hook: "idle", "looked"
    editing,      \* the item a "guide" request has selected, and its control point
    accepted,     \* history: items that were enqueued
    deleted,      \* history: items their owner deleted
    delivered,    \* history: how often an input reached the agent (2 and more: 2)
    unrecorded,   \* history: inputs sent to the agent and then reported as failed
    lost,         \* history: items taken out of the queue by a step that failed
    unserved      \* history: a HandleChat, a dispatch or an edit of the queue failed, and
                  \* nobody was woken since

registry == <<running, guided, client, rpc>>
queueVars == <<queued, policy>>
callVars == <<pc, input, chatPolicy, wanted, stranded>>
edits == <<hook, editing>>
items == <<accepted, deleted, lost>>
outcome == <<delivered, unrecorded>>
waking == <<wake, unserved>>
vars == <<registry, queueVars, callVars, edits, items, outcome, waking>>

PCs == {"idle", "look", "pop", "guide", "check", "send", "sent", "interrupt", "asked",
        "waiting", "failing", "client", "retry", "register", "started", "ok", "failed",
        "done"}

TypeOK ==
    /\ running \subseteq Inputs
    /\ guided \subseteq Messages
    /\ client \in BOOLEAN
    /\ rpc \in [Inputs -> {"none", "executing", "finished", "ended"}]
    /\ queued \subseteq Items
    /\ policy \in [Items -> Policies]
    /\ pc \in [Callers -> PCs]
    /\ input \in [Callers -> Inputs \cup {NoInput}]
    /\ chatPolicy \in [Callers -> Policies \cup {"stop"}]
    /\ wanted \in [Callers -> SUBSET Inputs]
    /\ stranded \subseteq Callers
    /\ wake \in 0 .. MaxWake
    /\ hook \in {"idle", "looked"}
    /\ editing \in [item : Items \cup {NoInput}, at : {"idle", "selected", "guide", "queue"}]
    /\ accepted \subseteq Items /\ deleted \subseteq Items /\ lost \subseteq Items
    /\ delivered \in [Inputs -> 0 .. 2]
    /\ unrecorded \subseteq Inputs
    /\ unserved \in BOOLEAN

NoEdit == [item |-> NoInput, at |-> "idle"]

Init ==
    /\ running = {} /\ guided = {}
    /\ client = FALSE
    /\ rpc = [r \in Inputs |-> "none"]
    /\ queued = {}
    /\ policy = [i \in Items |-> "queue"]
    /\ pc = [c \in Callers |-> "idle"]
    /\ input = [c \in Callers |-> IF c \in Messages THEN c ELSE NoInput]
    /\ chatPolicy = [c \in Callers |-> "queue"]
    /\ wanted = [c \in Callers |-> {}]
    /\ stranded = {}
    /\ wake = 0
    /\ hook = "idle"
    /\ editing = NoEdit
    /\ accepted = {} /\ deleted = {} /\ lost = {}
    /\ delivered = [i \in Inputs |-> 0]
    /\ unrecorded = {}
    /\ unserved = FALSE

-----------------------------------------------------------------------------
(* Steps shared by the actions.                                            *)

Moves(c, from, to) ==
    /\ pc[c] = from
    /\ pc' = [pc EXCEPT ![c] = to]

\* go dispatchNextInputQueueItemAtLocation.  Goroutines not yet begun are
\* alike: one more than MaxWake would find what the last of them finds.
Wake ==
    /\ wake' = IF wake < MaxWake THEN wake + 1 ELSE wake
    /\ unserved' = FALSE

Reaches(inputs) ==
    delivered' = [i \in Inputs |->
                    IF i \in inputs /\ delivered[i] < 2 THEN delivered[i] + 1 ELSE delivered[i]]

\* Manager.MarkRoundFinished.
MarkRoundFinished(r) ==
    /\ running' = running \ {r}
    /\ guided' = IF running \ {r} = {} THEN {} ELSE guided
    /\ wanted' = [c \in Callers |-> wanted[c] \ {r}]

\* Manager.CloseSession; callers that have given up wait for nothing.
CloseSession(gone) ==
    /\ running' = {}
    /\ stranded' = {c \in Callers \ gone : c \in stranded \/ wanted[c] \cap running # {}}
    /\ guided' = {}
    /\ client' = FALSE

-----------------------------------------------------------------------------
(* HandleChat and HandleInterrupt.                                         *)

Entry(p) == CASE p = "guide" -> "guide" [] p = "queue" -> "check" [] OTHER -> "interrupt"

\* A user's message, or an explicit interrupt.
Receive(m, p) ==
    /\ Moves(m, "idle", Entry(p))
    /\ chatPolicy' = [chatPolicy EXCEPT ![m] = p]
    /\ UNCHANGED <<registry, queueVars, input, wanted, stranded, edits, items, outcome, waking>>

\* The owner, the session's files or the rendering of the input fail.
PreparationFails(c) ==
    /\ \E from \in {"guide", "check", "interrupt"} : Moves(c, from, "failed")
    /\ chatPolicy[c] # "stop"
    /\ UNCHANGED <<registry, queueVars, input, chatPolicy, wanted, stranded>>
    /\ UNCHANGED <<edits, items, outcome, waking>>

\* guideRunningInput: QueueGuidanceInput, or the input becomes a queued one.
guideRunningInput(c) ==
    /\ Moves(c, "guide", IF running = {} THEN "check" ELSE "ok")
    /\ guided' = IF running = {} THEN guided ELSE guided \cup {input[c]}
    /\ UNCHANGED <<running, client, rpc, queueVars, input, chatPolicy, wanted, stranded>>
    /\ UNCHANGED <<edits, items, outcome, waking>>

\* queueRunningInput: GetRunningRoundIDs ...
queueRunningInput(c) ==
    /\ Moves(c, "check", IF running = {} THEN "client" ELSE "send")
    /\ UNCHANGED <<registry, queueVars, input, chatPolicy, wanted, stranded>>
    /\ UNCHANGED <<edits, items, outcome, waking>>

\* ... SendContentToRunningRound, which looks again; it or the rendering of
\* the input before it may fail ...
SendContentToRunningRound(c) ==
    /\ LET open == client /\ running # {} IN
       \/ ~open /\ Moves(c, "send", "client") /\ UNCHANGED delivered
       \/ open /\ Moves(c, "send", "sent") /\ Reaches({input[c]})
       \/ Moves(c, "send", "failed") /\ UNCHANGED delivered
    /\ UNCHANGED <<registry, queueVars, input, chatPolicy, wanted, stranded>>
    /\ UNCHANGED <<edits, items, unrecorded, waking>>

\* ... and the marker in the history, which may fail after the input was sent.
RecordSent(c) ==
    /\ \/ Moves(c, "sent", "ok") /\ UNCHANGED unrecorded
       \/ Moves(c, "sent", "failed") /\ unrecorded' = unrecorded \cup {input[c]}
    /\ UNCHANGED <<registry, queueVars, input, chatPolicy, wanted, stranded>>
    /\ UNCHANGED <<edits, items, delivered, waking>>

AfterInterrupt(c) == IF chatPolicy[c] = "stop" THEN "ok" ELSE "client"

\* interruptSession: InterruptSession notes the running rounds and asks the
\* client ...
interruptSession(c) ==
    /\ Moves(c, "interrupt", IF running = {} THEN AfterInterrupt(c) ELSE "asked")
    /\ wanted' = [wanted EXCEPT ![c] = running]
    /\ UNCHANGED <<registry, queueVars, input, chatPolicy, stranded>>
    /\ UNCHANGED <<edits, items, outcome, waking>>

\* ... if the session has one, which may refuse ...
InterruptAnswered(c) ==
    /\ \/ Moves(c, "asked", "waiting")
       \/ client /\ Moves(c, "asked", "failing")
    /\ UNCHANGED <<registry, queueVars, input, chatPolicy, wanted, stranded>>
    /\ UNCHANGED <<edits, items, outcome, waking>>

\* ... waits for the rounds ...
InterruptReturns(c) ==
    /\ Moves(c, "waiting", AfterInterrupt(c))
    /\ wanted[c] = {}
    /\ c \notin stranded
    /\ UNCHANGED <<registry, queueVars, input, chatPolicy, wanted, stranded>>
    /\ UNCHANGED <<edits, items, outcome, waking>>

\* ... as long as the user's connection lives; dispatchers wait for ever ...
InterruptGivesUp(c) ==
    /\ c \in Messages
    /\ Moves(c, "waiting", "failing")
    /\ UNCHANGED <<registry, queueVars, input, chatPolicy, wanted, stranded>>
    /\ UNCHANGED <<edits, items, outcome, waking>>

\* ... and a failure closes the session, after which the input goes on.
CleanUpStaleRuntime(c) ==
    /\ Moves(c, "failing", AfterInterrupt(c))
    /\ wanted' = [wanted EXCEPT ![c] = {}]
    /\ CloseSession({c})
    /\ UNCHANGED <<rpc, queueVars, input, chatPolicy>>
    /\ UNCHANGED <<edits, items, outcome, waking>>

\* ensureClient: a resume that fails closes the session before it tries once
\* more ...
RetryWithoutResume(c) ==
    /\ Moves(c, "client", "retry")
    /\ CloseSession({})
    /\ UNCHANGED <<rpc, queueVars, input, chatPolicy, wanted>>
    /\ UNCHANGED <<edits, items, outcome, waking>>

\* ... and the client may have been created although it does not connect.
ensureClient(c) ==
    /\ \E from \in {"client", "retry"} :
          \/ Moves(c, from, "register") /\ client' = TRUE
          \/ Moves(c, from, "failed") /\ client' \in {client, TRUE}
    /\ UNCHANGED <<running, guided, rpc, queueVars, input, chatPolicy, wanted, stranded>>
    /\ UNCHANGED <<edits, items, outcome, waking>>

StartRound(c) ==
    /\ Moves(c, "register", "started")
    /\ running' = running \cup {input[c]}
    /\ UNCHANGED <<guided, client, rpc, queueVars, input, chatPolicy, wanted, stranded>>
    /\ UNCHANGED <<edits, items, outcome, waking>>

\* Fault: the registration stays when the marker cannot be recorded.
RecordRoundMarkerLeaks(c) ==
    /\ \/ /\ Moves(c, "started", "ok")
          /\ rpc' = [rpc EXCEPT ![input[c]] = "executing"]
          /\ Reaches({input[c]})
       \/ /\ Moves(c, "started", "failed")
          /\ UNCHANGED <<rpc, delivered>>
    /\ UNCHANGED <<running, guided, client, queueVars, input, chatPolicy, wanted, stranded>>
    /\ UNCHANGED <<edits, items, unrecorded, waking>>

\* recordRoundMarker and the session's metadata: the runner starts, or the
\* round is finished again.
recordRoundMarker(c) ==
    /\ \/ /\ Moves(c, "started", "ok")
          /\ rpc' = [rpc EXCEPT ![input[c]] = "executing"]
          /\ Reaches({input[c]})
          /\ UNCHANGED <<running, guided, wanted>>
       \/ /\ Moves(c, "started", "failed")
          /\ MarkRoundFinished(input[c])
          /\ UNCHANGED <<rpc, delivered>>
    /\ UNCHANGED <<client, queueVars, input, chatPolicy, stranded>>
    /\ UNCHANGED <<edits, items, unrecorded, waking>>

\* A failed message is reported to the user and not tried again.
MessageEnds(m) ==
    /\ \/ Moves(m, "ok", "done") /\ UNCHANGED unserved
       \/ Moves(m, "failed", "done") /\ unserved' = TRUE
    /\ UNCHANGED <<registry, queueVars, input, chatPolicy, wanted, stranded>>
    /\ UNCHANGED <<edits, items, outcome, wake>>

-----------------------------------------------------------------------------
(* The runner of a round.                                                  *)

\* However the round ended, it is marked finished ...
RunnerEnds(r) ==
    /\ rpc[r] = "executing"
    /\ rpc' = [rpc EXCEPT ![r] = "finished"]
    /\ MarkRoundFinished(r)
    /\ UNCHANGED <<client, queueVars, pc, input, chatPolicy, stranded>>
    /\ UNCHANGED <<edits, items, outcome, waking>>

\* Fault: a round that ended does not look at the queue.
EndsQuietly(r) ==
    /\ rpc[r] = "finished"
    /\ rpc' = [rpc EXCEPT ![r] = "ended"]
    /\ UNCHANGED <<running, guided, client, queueVars, callVars>>
    /\ UNCHANGED <<edits, items, outcome, waking>>

\* ... and, when its result is recorded, the queue is looked at.
dispatchNextInputQueueItem(r) ==
    /\ rpc[r] = "finished"
    /\ rpc' = [rpc EXCEPT ![r] = "ended"]
    /\ Wake
    /\ UNCHANGED <<running, guided, client, queueVars, callVars>>
    /\ UNCHANGED <<edits, items, outcome>>

AgentWorks == \E r \in Inputs : rpc[r] = "executing"

\* PostToolUse, the manager's hook: everything in GuidedInputs is injected.
GuidanceHook ==
    /\ AgentWorks
    /\ guided # {}
    /\ Reaches(guided)
    /\ guided' = {}
    /\ UNCHANGED <<running, client, rpc, queueVars, callVars, edits, items>>
    /\ UNCHANGED <<unrecorded, waking>>

\* PostToolUse, the queue's hook: it looks whether a round is running ...
inputQueueGuidanceHook ==
    /\ hook = "idle"
    /\ AgentWorks
    /\ running # {}
    /\ hook' = "looked"
    /\ UNCHANGED <<registry, queueVars, callVars, editing, items, outcome, waking>>

Guidance == {i \in queued : policy[i] = "guide"}

\* ... takes every guide item (none has a target in a DM session), one row of
\* the file after the other, and renders them.  A row or the rendering may
\* fail, and the round may have ended meanwhile.
DispatchGuidance ==
    /\ hook = "looked"
    /\ hook' = "idle"
    /\ \/ /\ AgentWorks
          /\ queued' = queued \ Guidance
          /\ Reaches(Guidance)
          /\ UNCHANGED lost
       \/ \E taken \in SUBSET Guidance :
             /\ queued' = queued \ taken
             /\ lost' = lost \cup taken
             /\ UNCHANGED delivered
    /\ UNCHANGED <<registry, policy, callVars, editing, accepted, deleted>>
    /\ UNCHANGED <<unrecorded, waking>>

-----------------------------------------------------------------------------
(* dispatchNextInputQueueItemAtLocation.                                   *)

DispatcherBegins(d) ==
    /\ wake > 0
    /\ Moves(d, "idle", "look")
    /\ wake' = wake - 1
    /\ UNCHANGED <<registry, queueVars, input, chatPolicy, wanted, stranded>>
    /\ UNCHANGED <<edits, items, outcome, unserved>>

DispatcherLooks(d) ==
    /\ Moves(d, "look", IF running = {} THEN "pop" ELSE "idle")
    /\ UNCHANGED <<registry, queueVars, input, chatPolicy, wanted, stranded>>
    /\ UNCHANGED <<edits, items, outcome, waking>>

Ordinary == {i \in queued : policy[i] # "guide"}

\* Takes the item with HandleChat ahead.
Takes(d, i) ==
    /\ Moves(d, "pop", Entry(policy[i]))
    /\ input' = [input EXCEPT ![d] = i]
    /\ chatPolicy' = [chatPolicy EXCEPT ![d] = policy[i]]

\* DispatchFirstDispatchable, then HandleChat with the item's policy.
DispatchFirstDispatchable(d) ==
    /\ \/ Ordinary = {} /\ Moves(d, "pop", "idle") /\ UNCHANGED <<queued, input, chatPolicy>>
       \/ \E i \in Ordinary : Takes(d, i) /\ queued' = queued \ {i}
    /\ UNCHANGED <<registry, policy, wanted, stranded, edits, items, outcome, waking>>

\* The queue's file cannot be read or written, and the dispatcher gives up: an
\* item is taken all the same when only the read after its row has failed.
DispatchFails(d) ==
    /\ Moves(d, "pop", "idle")
    /\ \/ UNCHANGED <<queued, lost>>
       \/ \E i \in Ordinary : queued' = queued \ {i} /\ lost' = lost \cup {i}
    /\ unserved' = TRUE
    /\ UNCHANGED <<registry, policy, input, chatPolicy, wanted, stranded>>
    /\ UNCHANGED <<edits, accepted, deleted, outcome, wake>>

\* HandleChat succeeded: without a running round the next item is tried.
DispatchSucceeded(d) ==
    /\ Moves(d, "ok", "idle")
    /\ input' = [input EXCEPT ![d] = NoInput]
    /\ IF running = {} THEN Wake ELSE UNCHANGED waking
    /\ UNCHANGED <<registry, queueVars, chatPolicy, wanted, stranded, edits, items, outcome>>

\* It failed: the item goes back into the queue, if it can be written, and
\* nobody is woken.
DispatchRestores(d) ==
    /\ Moves(d, "failed", "idle")
    /\ input' = [input EXCEPT ![d] = NoInput]
    /\ \/ queued' = queued \cup {input[d]} /\ UNCHANGED lost
       \/ lost' = lost \cup {input[d]} /\ UNCHANGED queued
    /\ unserved' = TRUE
    /\ UNCHANGED <<registry, policy, chatPolicy, wanted, stranded, edits, accepted, deleted>>
    /\ UNCHANGED <<outcome, wake>>

-----------------------------------------------------------------------------
(* HandleInputQueue.                                                       *)

\* The queue's file cannot be read after a row was written: the caller gets an
\* error and wakes nobody.
WakesUnlessUnread ==
    \/ Wake
    \/ unserved' = TRUE /\ UNCHANGED wake

Enqueue(i, p) ==
    /\ i \notin accepted
    /\ accepted' = accepted \cup {i}
    /\ queued' = queued \cup {i}
    /\ policy' = [policy EXCEPT ![i] = p]
    /\ WakesUnlessUnread
    /\ UNCHANGED <<registry, callVars, edits, deleted, lost, outcome>>

Delete(i) ==
    /\ i \in queued
    /\ queued' = queued \ {i}
    /\ deleted' = deleted \cup {i}
    /\ UNCHANGED <<registry, policy, callVars, edits, accepted, lost, outcome, waking>>

\* A connection asks for the queue.
SendInputQueueSnapshot ==
    /\ Wake
    /\ UNCHANGED <<registry, queueVars, callVars, edits, items, outcome>>

\* guideInputQueueItem: it reads the item from a snapshot ...
guideInputQueueItem(i) ==
    /\ "guide" \in Choices
    /\ editing = NoEdit
    /\ i \in queued
    /\ editing' = [item |-> i, at |-> IF policy[i] = "guide" THEN "queue" ELSE "selected"]
    /\ UNCHANGED <<registry, queueVars, callVars, hook, items, outcome, waking>>

\* ... looks for a running round that could be guided ...
GuideLooks ==
    /\ editing.at = "selected"
    /\ editing' = IF running = {} THEN NoEdit ELSE [editing EXCEPT !.at = "guide"]
    /\ UNCHANGED <<registry, queueVars, callVars, hook, items, outcome, waking>>

\* Fault: an item that has left the queue is written back.
UpdateRestores(i) == queued' = queued \cup {i}

\* UpdateDeliveryPolicy looks for the item again.
UpdateKeeps(i) == queued' = queued

\* ... and makes the item guidance, or guidance an ordinary item again.
UpdateDeliveryPolicy ==
    /\ editing.at \in {"guide", "queue"}
    /\ UpdateKeeps(editing.item)
    /\ policy' = IF editing.item \in queued
                 THEN [policy EXCEPT ![editing.item] = editing.at] ELSE policy
    /\ IF editing.at = "queue" THEN WakesUnlessUnread ELSE UNCHANGED waking
    /\ editing' = NoEdit
    /\ UNCHANGED <<registry, callVars, hook, items, outcome>>

-----------------------------------------------------------------------------
ChatStep(c) ==
    \/ PreparationFails(c)
    \/ guideRunningInput(c)
    \/ queueRunningInput(c)
    \/ SendContentToRunningRound(c)
    \/ RecordSent(c)
    \/ interruptSession(c)
    \/ InterruptAnswered(c)
    \/ InterruptReturns(c)
    \/ CleanUpStaleRuntime(c)
    \/ RetryWithoutResume(c)
    \/ ensureClient(c)
    \/ StartRound(c)
    \/ recordRoundMarker(c)

DispatcherStep(d) ==
    \/ DispatcherBegins(d)
    \/ DispatcherLooks(d)
    \/ DispatchFirstDispatchable(d)
    \/ DispatchFails(d)
    \/ DispatchSucceeded(d)
    \/ DispatchRestores(d)

QueueStep ==
    \/ \E i \in Items :
          \/ \E p \in Choices \cap Policies : Enqueue(i, p)
          \/ Delete(i)
          \/ guideInputQueueItem(i)
    \/ SendInputQueueSnapshot
    \/ GuideLooks
    \/ UpdateDeliveryPolicy

\* The goroutine of a call.
CallStep(c) ==
    \/ ChatStep(c)
    \/ c \in Messages /\ MessageEnds(c)
    \/ c \in Dispatchers /\ DispatcherStep(c)

RunnerStep(r) == RunnerEnds(r) \/ dispatchNextInputQueueItem(r)

Next ==
    \/ \E m \in Messages : \E p \in Choices : Receive(m, p)
    \/ \E c \in Callers : CallStep(c) \/ InterruptGivesUp(c)
    \/ \E r \in Inputs : RunnerStep(r)
    \/ GuidanceHook \/ inputQueueGuidanceHook \/ DispatchGuidance
    \/ QueueStep

Spec == Init /\ [][Next]_vars

-----------------------------------------------------------------------------
(* Properties.                                                             *)

\* Control points of a dispatcher that holds its item: it is not delivered.
Holding == {"guide", "check", "send", "interrupt", "asked", "waiting", "failing",
            "client", "retry", "register", "started", "failed"}

HeldBy(i) == {d \in Dispatchers : input[d] = i /\ pc[d] \in Holding}

Places == {"queue", "dispatcher", "agent", "deleted", "lost"}

\* Where an item that was typed ahead is.
At(i, place) ==
    \/ place = "queue" /\ i \in queued
    \/ place = "dispatcher" /\ HeldBy(i) # {}
    \/ place = "agent" /\ delivered[i] > 0
    \/ place = "deleted" /\ i \in deleted
    \/ place = "lost" /\ i \in lost

\* An item that was typed ahead is in one place: in the queue, with one
\* dispatcher, with the agent, deleted, or lost by a step that failed.  It
\* reaches the agent once, however dispatchers, hooks, edits and failures
\* interleave, unless it was sent and then reported as failed.
EachItemOnce ==
    \A i \in accepted \ unrecorded :
        /\ \E place \in Places : \A p \in Places : At(i, p) <=> p = place
        /\ \A d, e \in HeldBy(i) : d = e
        /\ delivered[i] < 2

\* A registered round has a runner, or a HandleChat that starts it or
\* finishes it: nothing is registered for ever, which would stop the queue.
RegisteredRoundEnds ==
    \A r \in running :
        \/ rpc[r] = "executing"
        \/ \E c \in Callers : input[c] = r /\ pc[c] = "started"

\* While an ordinary item waits, a dispatcher or the runner of a round is still
\* to look at the queue, unless a HandleChat or an edit of the queue failed last:
\* the failing call wakes nobody.
SomebodyLooks ==
    Ordinary # {} =>
        \/ wake > 0
        \/ \E r \in Inputs : rpc[r] \in {"executing", "finished"}
        \/ \E d \in Dispatchers : pc[d] # "idle"
        \/ \E m \in Messages : pc[m] \in {"started", "failed"}
        \/ unserved
=============================================================================
