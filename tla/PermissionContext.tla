-------------------------- MODULE PermissionContext --------------------------
(***************************************************************************)
(* permission.Context: which connections (senders) are bound to which      *)
(* session, how a runtime session is routed to the session a frontend      *)
(* shows, and the life of a permission request: registered, broadcast by a *)
(* goroutine, replayed to senders that bind later, answered by a user,     *)
(* cancelled with its session, timed out, and resolved exactly once.       *)
(*                                                                         *)
(* Each action is one critical section of Context.mu, one channel          *)
(* operation, one select choice or one event sent.                         *)
(***************************************************************************)
CONSTANTS
    Sessions,    \* session keys, runtime and frontend ones
    AgentKeys,   \* the runtime keys of room agents, routed to RoomKey
    RoomKey,     \* the shared key a frontend shows for the room
    Senders,     \* WebSocket senders
    Requests,    \* calls of RequestPermission
    Answers,     \* calls of HandlePermissionResponse
    Cancellers,  \* calls of CancelRequestsForSession
    Binders,     \* calls of BindSession with their replay goroutine
    NoKey,       \* no session
    NoRequest,   \* no request
    NoSender     \* no sender

ASSUME KeysAssumption ==
    /\ AgentKeys \subseteq Sessions
    /\ RoomKey \in Sessions \ AgentKeys
    /\ NoKey \notin Sessions
ASSUME NullAssumption == NoRequest \notin Requests /\ NoSender \notin Senders

VARIABLES
    sessionBindings,  \* senders bound to each session
    senderSessions,   \* sessions each sender is bound to
    sessionRoutes,    \* DispatchSessionKey of each session, itself by default
    closed,           \* senders whose connection has ended (IsClosed)
    pendingRequests,  \* ids in the pending map
    of,               \* SessionKey of each request
    to,               \* its DispatchSessionKey, fixed when it was created
    responseCh,       \* its one-place channel: "empty" or a decision
    once,             \* finalizeOnce: "fresh", "cleanup", "resolve", "send", "done"
    status,           \* status its resolution carries, "none" before
    resolveTo,        \* senders the resolution has still to be sent to
    rpc,              \* control point of RequestPermission
    decision,         \* what it returns
    dpc,              \* control point of its dispatch goroutine
    dispatchTo,       \* senders that goroutine has still to send the prompt to
    apc, answer,      \* HandlePermissionResponse: control point, [req, decision]
    cpc, cancelTodo,  \* CancelRequestsForSession: control point, requests left
    cancelReq,        \* the request it is finalizing
    bpc, bind,        \* BindSession and replay: control point, [key, sender]
    replayTodo,       \* requests left to replay
    prompted          \* history: requests whose prompt was sent to each sender

bindVars == <<sessionBindings, senderSessions>>
resolveVars == <<once, status, resolveTo>>
requestVars == <<of, to, rpc, decision>>
dispatchVars == <<dpc, dispatchTo>>
answerVars == <<apc, answer>>
cancelVars == <<cpc, cancelTodo, cancelReq>>
replayVars == <<bpc, bind, replayTodo>>
connections == <<bindVars, sessionRoutes, closed>>
lifecycle == <<pendingRequests, responseCh, resolveVars, requestVars>>
delivery == <<dispatchVars, replayVars, prompted>>
callers == <<answerVars, cancelVars>>
vars == <<connections, lifecycle, delivery, callers>>

RequestPCs == {"idle", "created", "waiting", "answered", "cancelled", "expired",
               "finalizing", "returned"}
UserDecisions == {"allow", "deny"}
Decisions == UserDecisions \cup {"sessionCancelled"}
Statuses == {"answered", "cancelled", "expired"}

TypeOK ==
    /\ sessionBindings \in [Sessions -> SUBSET Senders]
    /\ senderSessions \in [Senders -> SUBSET Sessions]
    /\ sessionRoutes \in [Sessions -> Sessions]
    /\ closed \subseteq Senders
    /\ pendingRequests \subseteq Requests
    /\ of \in [Requests -> Sessions \cup {NoKey}]
    /\ to \in [Requests -> Sessions \cup {NoKey}]
    /\ responseCh \in [Requests -> Decisions \cup {"empty"}]
    /\ once \in [Requests -> {"fresh", "cleanup", "resolve", "send", "done"}]
    /\ status \in [Requests -> Statuses \cup {"none"}]
    /\ resolveTo \in [Requests -> SUBSET Senders]
    /\ rpc \in [Requests -> RequestPCs]
    /\ decision \in [Requests -> Decisions \cup {"none", "contextDone", "timeout"}]
    /\ dpc \in [Requests -> {"none", "spawned", "sending"}]
    /\ dispatchTo \in [Requests -> SUBSET Senders]
    /\ apc \in [Answers -> {"idle", "found", "sent", "finalizing"}]
    /\ answer \in [Answers -> [req : Requests \cup {NoRequest}, decision : UserDecisions]]
    /\ cpc \in [Cancellers -> {"idle", "cancelling", "sent", "finalizing"}]
    /\ cancelTodo \in [Cancellers -> SUBSET Requests]
    /\ cancelReq \in [Cancellers -> Requests \cup {NoRequest}]
    /\ bpc \in [Binders -> {"idle", "spawned", "resolved", "replaying"}]
    /\ bind \in [Binders -> [key : Sessions \cup {NoKey}, sender : Senders \cup {NoSender}]]
    /\ replayTodo \in [Binders -> SUBSET Requests]
    /\ prompted \in [Senders -> SUBSET Requests]

\* The locals of calls that have ended.
NoAnswer == [req |-> NoRequest, decision |-> "deny"]
NoBind == [key |-> NoKey, sender |-> NoSender]

Init ==
    /\ sessionBindings = [k \in Sessions |-> {}]
    /\ senderSessions = [s \in Senders |-> {}]
    /\ sessionRoutes = [k \in Sessions |-> k]
    /\ closed = {}
    /\ pendingRequests = {}
    /\ of = [q \in Requests |-> NoKey]
    /\ to = [q \in Requests |-> NoKey]
    /\ responseCh = [q \in Requests |-> "empty"]
    /\ once = [q \in Requests |-> "fresh"]
    /\ status = [q \in Requests |-> "none"]
    /\ resolveTo = [q \in Requests |-> {}]
    /\ rpc = [q \in Requests |-> "idle"]
    /\ decision = [q \in Requests |-> "none"]
    /\ dpc = [q \in Requests |-> "none"]
    /\ dispatchTo = [q \in Requests |-> {}]
    /\ apc = [a \in Answers |-> "idle"]
    /\ answer = [a \in Answers |-> NoAnswer]
    /\ cpc = [c \in Cancellers |-> "idle"]
    /\ cancelTodo = [c \in Cancellers |-> {}]
    /\ cancelReq = [c \in Cancellers |-> NoRequest]
    /\ bpc = [b \in Binders |-> "idle"]
    /\ bind = [b \in Binders |-> NoBind]
    /\ replayTodo = [b \in Binders |-> {}]
    /\ prompted = [s \in Senders |-> {}]
-----------------------------------------------------------------------------
(* Bindings.                                                               *)

\* Fault: the sender's own list of sessions is forgotten.
RemoveBindingsOneWay(gone) ==
    /\ sessionBindings' =
          [k \in Sessions |-> {s \in sessionBindings[k] : <<k, s>> \notin gone}]
    /\ UNCHANGED senderSessions

\* removeBindingLocked for every pair of gone: both maps lose it (an empty
\* entry is deleted, which reads the same).
RemoveBindings(gone) ==
    /\ sessionBindings' =
          [k \in Sessions |-> {s \in sessionBindings[k] : <<k, s>> \notin gone}]
    /\ senderSessions' =
          [s \in Senders |-> {k \in senderSessions[s] : <<k, s>> \notin gone}]

\* What pruneClosedBindingsLocked removes for these sessions.
ClosedBindings(keys) == {b \in keys \X closed : b[2] \in sessionBindings[b[1]]}

\* Fault: pending requests are not replayed to the new sender.
BindSessionNoReplay(b, k, s) ==
    /\ s \notin closed
    /\ sessionBindings' = [sessionBindings EXCEPT ![k] = @ \cup {s}]
    /\ senderSessions' = [senderSessions EXCEPT ![s] = @ \cup {k}]
    /\ UNCHANGED <<lifecycle, delivery, callers, sessionRoutes, closed>>

\* BindSession, with the goroutine it starts to replay pending requests.
BindSession(b, k, s) ==
    /\ bpc[b] = "idle"
    /\ s \notin closed
    /\ sessionBindings' = [sessionBindings EXCEPT ![k] = (@ \cup {s}) \ closed]
    /\ senderSessions' =
          [t \in Senders |->
              IF t = s THEN senderSessions[t] \cup {k}
              ELSE {j \in senderSessions[t] : <<j, t>> \notin ClosedBindings({k})}]
    /\ bpc' = [bpc EXCEPT ![b] = "spawned"]
    /\ bind' = [bind EXCEPT ![b] = [key |-> k, sender |-> s]]
    /\ UNCHANGED <<lifecycle, callers, dispatchVars, sessionRoutes, closed>>
    /\ UNCHANGED <<replayTodo, prompted>>

UnbindSession(k, s) ==
    /\ RemoveBindings({<<k, s>>} \cup ClosedBindings({k}))
    /\ UNCHANGED <<lifecycle, delivery, callers, sessionRoutes, closed>>

\* IsBound and BroadcastSessionStatus prune the session they read.
IsBound(k) ==
    /\ RemoveBindings(ClosedBindings({k}))
    /\ UNCHANGED <<lifecycle, delivery, callers, sessionRoutes, closed>>

UnregisterSender(s) ==
    /\ senderSessions[s] # {}
    /\ RemoveBindings((senderSessions[s] \X {s}) \cup ClosedBindings(senderSessions[s]))
    /\ UNCHANGED <<lifecycle, delivery, callers, sessionRoutes, closed>>

\* The connection behind a sender ends; its bindings stay until a prune or
\* its UnregisterSender.
SenderCloses(s) ==
    /\ s \notin closed
    /\ closed' = closed \cup {s}
    /\ UNCHANGED <<lifecycle, delivery, callers, bindVars, sessionRoutes>>

\* The services route a room agent's runtime key to the room and every other
\* key to itself.
BindSessionRoute(k) ==
    /\ sessionRoutes' =
          [sessionRoutes EXCEPT ![k] = IF k \in AgentKeys THEN RoomKey ELSE k]
    /\ UNCHANGED <<lifecycle, delivery, callers, bindVars, closed>>

\* Without an entry a session is its own dispatch session.
UnbindSessionRoute(k) ==
    /\ sessionRoutes' = [sessionRoutes EXCEPT ![k] = k]
    /\ UNCHANGED <<lifecycle, delivery, callers, bindVars, closed>>

-----------------------------------------------------------------------------
(* The resolution of a request: the body of finalizeOnce.                  *)

\* Fault: no sync.Once around the body.
FinalizeAgain(q, st) ==
    /\ once' = [once EXCEPT ![q] = "cleanup"]
    /\ status' = [status EXCEPT ![q] = st]

\* finalizeRequest: the first caller runs the body, the others wait for it.
Finalize(q, st) ==
    IF once[q] = "fresh"
    THEN /\ once' = [once EXCEPT ![q] = "cleanup"]
         /\ status' = [status EXCEPT ![q] = st]
    ELSE UNCHANGED <<once, status>>

\* Fault: the request stays in the pending map.
cleanupNothing(q) ==
    /\ once[q] = "cleanup"
    /\ once' = [once EXCEPT ![q] = "resolve"]
    /\ UNCHANGED <<delivery, callers, requestVars, connections, pendingRequests>>
    /\ UNCHANGED <<responseCh, status, resolveTo>>

cleanupRequest(q) ==
    /\ once[q] = "cleanup"
    /\ once' = [once EXCEPT ![q] = "resolve"]
    /\ pendingRequests' = pendingRequests \ {q}
    /\ UNCHANGED <<delivery, callers, requestVars, connections, responseCh, status>>
    /\ UNCHANGED <<resolveTo>>

\* BroadcastEvent resolves the senders of the dispatch session, pruned ...
ResolveSessionSenders(k) == sessionBindings[k] \ closed

dispatchPermissionResolution(q) ==
    /\ once[q] = "resolve"
    /\ once' = [once EXCEPT ![q] = "send"]
    /\ resolveTo' = [resolveTo EXCEPT ![q] = ResolveSessionSenders(to[q])]
    /\ RemoveBindings(ClosedBindings({to[q]}))
    /\ UNCHANGED <<delivery, callers, requestVars, sessionRoutes, closed>>
    /\ UNCHANGED <<pendingRequests, responseCh, status>>

\* ... and sends to them one after the other.
SendResolution(q) ==
    /\ once[q] = "send"
    /\ IF resolveTo[q] = {}
       THEN once' = [once EXCEPT ![q] = "done"] /\ UNCHANGED resolveTo
       ELSE /\ \E s \in resolveTo[q] : resolveTo' = [resolveTo EXCEPT ![q] = @ \ {s}]
            /\ UNCHANGED once
    /\ UNCHANGED <<delivery, callers, requestVars, connections, pendingRequests>>
    /\ UNCHANGED <<responseCh, status>>

-----------------------------------------------------------------------------
(* RequestPermission and its dispatch goroutine.                           *)

newPendingRequest(q, k) ==
    /\ rpc[q] = "idle"
    /\ rpc' = [rpc EXCEPT ![q] = "created"]
    /\ of' = [of EXCEPT ![q] = k]
    /\ to' = [to EXCEPT ![q] = sessionRoutes[k]]
    /\ UNCHANGED <<delivery, callers, connections, resolveVars, pendingRequests>>
    /\ UNCHANGED <<responseCh, decision>>

RegisterRequest(q) ==
    /\ rpc[q] = "created"
    /\ rpc' = [rpc EXCEPT ![q] = "waiting"]
    /\ pendingRequests' = pendingRequests \cup {q}
    /\ dpc' = [dpc EXCEPT ![q] = "spawned"]
    /\ UNCHANGED <<callers, connections, resolveVars, replayVars, responseCh, of>>
    /\ UNCHANGED <<to, decision, dispatchTo, prompted>>

\* The select: a decision has arrived.  Its place in the channel is free
\* again before the request is finalized.
ReceiveDecision(q) ==
    /\ rpc[q] = "waiting"
    /\ responseCh[q] # "empty"
    /\ rpc' = [rpc EXCEPT ![q] = "answered"]
    /\ decision' = [decision EXCEPT ![q] = responseCh[q]]
    /\ responseCh' = [responseCh EXCEPT ![q] = "empty"]
    /\ UNCHANGED <<delivery, callers, connections, resolveVars, pendingRequests>>
    /\ UNCHANGED <<of, to>>

\* The select: the caller's context, or the timer, whatever is in the channel.
StopWaiting(q, branch, denial) ==
    /\ rpc[q] = "waiting"
    /\ rpc' = [rpc EXCEPT ![q] = branch]
    /\ decision' = [decision EXCEPT ![q] = denial]
    /\ UNCHANGED <<delivery, callers, connections, resolveVars, pendingRequests>>
    /\ UNCHANGED <<responseCh, of, to>>

ContextDone(q) == StopWaiting(q, "cancelled", "contextDone")

\* Fault: the timer branch returns what it finds in the channel.
TimeOutTakesAnswer(q) ==
    StopWaiting(q, "expired",
                IF responseCh[q] = "empty" THEN "timeout" ELSE responseCh[q])

TimeOut(q) == StopWaiting(q, "expired", "timeout")

\* Fault: finalizeRequest expects to be the first.
RequestFinalizesFirst(q) ==
    /\ rpc[q] \in Statuses
    /\ once[q] = "fresh"
    /\ Finalize(q, rpc[q])
    /\ rpc' = [rpc EXCEPT ![q] = "finalizing"]
    /\ UNCHANGED <<delivery, callers, connections, pendingRequests, responseCh>>
    /\ UNCHANGED <<resolveTo, of, to, decision>>

RequestFinalizes(q) ==
    /\ rpc[q] \in Statuses
    /\ Finalize(q, rpc[q])
    /\ rpc' = [rpc EXCEPT ![q] = "finalizing"]
    /\ UNCHANGED <<delivery, callers, connections, pendingRequests, responseCh>>
    /\ UNCHANGED <<resolveTo, of, to, decision>>

RequestReturn(q) ==
    /\ rpc[q] = "finalizing"
    /\ once[q] = "done"
    /\ rpc' = [rpc EXCEPT ![q] = "returned"]
    /\ UNCHANGED <<delivery, callers, connections, resolveVars, pendingRequests>>
    /\ UNCHANGED <<responseCh, of, to, decision>>

\* dispatchPendingRequest never looks whether the request is still pending.
dispatchPendingRequest(q) ==
    /\ dpc[q] = "spawned"
    /\ dpc' = [dpc EXCEPT ![q] = "sending"]
    /\ dispatchTo' = [dispatchTo EXCEPT ![q] = ResolveSessionSenders(to[q])]
    /\ RemoveBindings(ClosedBindings({to[q]}))
    /\ UNCHANGED <<lifecycle, callers, replayVars, sessionRoutes, closed, prompted>>

\* A sender that has closed meanwhile returns an error, which is ignored.
SendPrompt(q, s) ==
    prompted' = [prompted EXCEPT ![s] = IF s \in closed THEN @ ELSE @ \cup {q}]

DispatchSends(q) ==
    /\ \E s \in dispatchTo[q] :
          /\ dispatchTo' = [dispatchTo EXCEPT ![q] = @ \ {s}]
          /\ SendPrompt(q, s)
    /\ UNCHANGED <<lifecycle, callers, connections, replayVars, dpc>>

-----------------------------------------------------------------------------
(* replayPendingRequestsToSender.                                          *)

\* A sender closed before the goroutine runs gets nothing; otherwise the
\* dispatch key of the bound session is resolved.
ReplayResolves(b) ==
    /\ bpc[b] = "spawned"
    /\ IF bind[b].sender \in closed
       THEN /\ bpc' = [bpc EXCEPT ![b] = "idle"]
            /\ bind' = [bind EXCEPT ![b] = NoBind]
       ELSE /\ bpc' = [bpc EXCEPT ![b] = "resolved"]
            /\ bind' = [bind EXCEPT ![b].key = sessionRoutes[@]]
    /\ UNCHANGED <<lifecycle, callers, connections, dispatchVars, replayTodo>>
    /\ UNCHANGED <<prompted>>

ReplayCollects(b) ==
    /\ bpc[b] = "resolved"
    /\ bpc' = [bpc EXCEPT ![b] = "replaying"]
    /\ replayTodo' =
          [replayTodo EXCEPT ![b] = {q \in pendingRequests : to[q] = bind[b].key}]
    /\ UNCHANGED <<lifecycle, callers, connections, dispatchVars, bind, prompted>>

dispatchPendingRequestToSender(b) ==
    /\ bpc[b] = "replaying"
    /\ \E q \in replayTodo[b] :
          /\ replayTodo' = [replayTodo EXCEPT ![b] = @ \ {q}]
          /\ SendPrompt(q, bind[b].sender)
    /\ UNCHANGED <<lifecycle, callers, connections, dispatchVars, bpc, bind>>

ReplayEnds(b) ==
    /\ bpc[b] = "replaying"
    /\ replayTodo[b] = {}
    /\ bpc' = [bpc EXCEPT ![b] = "idle"]
    /\ bind' = [bind EXCEPT ![b] = NoBind]
    /\ UNCHANGED <<lifecycle, callers, connections, dispatchVars, replayTodo>>
    /\ UNCHANGED <<prompted>>

-----------------------------------------------------------------------------
(* HandlePermissionResponse.                                               *)

AnswerEnds(a) ==
    /\ apc' = [apc EXCEPT ![a] = "idle"]
    /\ answer' = [answer EXCEPT ![a] = NoAnswer]

\* The lookup; an id that is not pending ends the call.
AnswerFinds(a, q, d) ==
    /\ apc[a] = "idle"
    /\ q \in pendingRequests
    /\ apc' = [apc EXCEPT ![a] = "found"]
    /\ answer' = [answer EXCEPT ![a] = [req |-> q, decision |-> d]]
    /\ UNCHANGED <<lifecycle, delivery, connections, cancelVars>>

\* The non-blocking send, then finalizeRequest; a full channel ends the call.
AnswerSends(a) ==
    LET q == answer[a].req IN
    /\ apc[a] = "found"
    /\ IF responseCh[q] = "empty"
       THEN /\ responseCh' = [responseCh EXCEPT ![q] = answer[a].decision]
            /\ apc' = [apc EXCEPT ![a] = "sent"]
            /\ UNCHANGED answer
       ELSE AnswerEnds(a) /\ UNCHANGED responseCh
    /\ UNCHANGED <<delivery, requestVars, connections, resolveVars, cancelVars>>
    /\ UNCHANGED <<pendingRequests>>

AnswerFinalizes(a) ==
    /\ apc[a] = "sent"
    /\ Finalize(answer[a].req, "answered")
    /\ apc' = [apc EXCEPT ![a] = "finalizing"]
    /\ UNCHANGED <<delivery, requestVars, connections, cancelVars, pendingRequests>>
    /\ UNCHANGED <<responseCh, resolveTo, answer>>

AnswerReturns(a) ==
    /\ apc[a] = "finalizing"
    /\ once[answer[a].req] = "done"
    /\ AnswerEnds(a)
    /\ UNCHANGED <<lifecycle, delivery, connections, cancelVars>>

-----------------------------------------------------------------------------
(* CancelRequestsForSession.                                               *)

CancelCollects(c, k) ==
    /\ cpc[c] = "idle"
    /\ cpc' = [cpc EXCEPT ![c] = "cancelling"]
    /\ cancelTodo' = [cancelTodo EXCEPT ![c] = {q \in pendingRequests : of[q] = k}]
    /\ UNCHANGED <<lifecycle, delivery, connections, answerVars, cancelReq>>

\* The non-blocking send of a denial; a full channel leaves the request be.
CancelSends(c) ==
    /\ cpc[c] = "cancelling"
    /\ \E q \in cancelTodo[c] :
          /\ cancelTodo' = [cancelTodo EXCEPT ![c] = @ \ {q}]
          /\ IF responseCh[q] = "empty"
             THEN /\ responseCh' = [responseCh EXCEPT ![q] = "sessionCancelled"]
                  /\ cpc' = [cpc EXCEPT ![c] = "sent"]
                  /\ cancelReq' = [cancelReq EXCEPT ![c] = q]
             ELSE UNCHANGED <<responseCh, cpc, cancelReq>>
    /\ UNCHANGED <<delivery, requestVars, connections, resolveVars, answerVars>>
    /\ UNCHANGED <<pendingRequests>>

CancelFinalizes(c) ==
    /\ cpc[c] = "sent"
    /\ Finalize(cancelReq[c], "cancelled")
    /\ cpc' = [cpc EXCEPT ![c] = "finalizing"]
    /\ UNCHANGED <<delivery, requestVars, connections, answerVars, pendingRequests>>
    /\ UNCHANGED <<responseCh, resolveTo, cancelTodo, cancelReq>>

CancelContinues(c) ==
    /\ \/ cpc[c] = "finalizing" /\ once[cancelReq[c]] = "done"
          /\ cpc' = [cpc EXCEPT ![c] = "cancelling"]
       \/ cpc[c] = "cancelling" /\ cancelTodo[c] = {}
          /\ cpc' = [cpc EXCEPT ![c] = "idle"]
    /\ cancelReq' = [cancelReq EXCEPT ![c] = NoRequest]
    /\ UNCHANGED <<lifecycle, delivery, connections, answerVars, cancelTodo>>

-----------------------------------------------------------------------------
BindingStep ==
    \/ \E k \in Sessions, s \in Senders :
          (\E b \in Binders : BindSession(b, k, s)) \/ UnbindSession(k, s)
    \/ \E s \in Senders : UnregisterSender(s) \/ SenderCloses(s)
    \/ \E k \in Sessions : IsBound(k) \/ BindSessionRoute(k) \/ UnbindSessionRoute(k)

ResolutionStep(q) ==
    \/ cleanupRequest(q)
    \/ dispatchPermissionResolution(q)
    \/ SendResolution(q)

RequestStep(q) ==
    \/ \E k \in Sessions : newPendingRequest(q, k)
    \/ RegisterRequest(q)
    \/ ReceiveDecision(q)
    \/ ContextDone(q)
    \/ TimeOut(q)
    \/ RequestFinalizes(q)
    \/ RequestReturn(q)

DispatchStep(q) == dispatchPendingRequest(q) \/ DispatchSends(q)

ReplayStep(b) ==
    \/ ReplayResolves(b)
    \/ ReplayCollects(b)
    \/ dispatchPendingRequestToSender(b)
    \/ ReplayEnds(b)

AnswerStep(a) == AnswerSends(a) \/ AnswerFinalizes(a) \/ AnswerReturns(a)

CancelStep(c) == CancelSends(c) \/ CancelFinalizes(c) \/ CancelContinues(c)

Next ==
    \/ BindingStep
    \/ \E q \in Requests : ResolutionStep(q) \/ RequestStep(q) \/ DispatchStep(q)
    \/ \E b \in Binders : ReplayStep(b)
    \/ \E a \in Answers :
          \/ \E q \in Requests, d \in UserDecisions : AnswerFinds(a, q, d)
          \/ AnswerStep(a)
    \/ \E c \in Cancellers :
          \/ \E k \in Sessions : CancelCollects(c, k)
          \/ CancelStep(c)

Spec == Init /\ [][Next]_vars

(* Goroutines that can run do run.  Users, connections, cancellations and  *)
(* the timer owe nothing.                                                  *)
Fairness ==
    /\ \A q \in Requests :
          /\ WF_vars(ResolutionStep(q))
          /\ WF_vars(RegisterRequest(q))
          /\ WF_vars(ReceiveDecision(q))
          /\ WF_vars(RequestFinalizes(q))
          /\ WF_vars(RequestReturn(q))
          /\ WF_vars(DispatchStep(q))
    /\ \A b \in Binders : WF_vars(ReplayStep(b))
    /\ \A a \in Answers : WF_vars(AnswerStep(a))
    /\ \A c \in Cancellers : WF_vars(CancelStep(c))

FairSpec == Spec /\ Fairness

-----------------------------------------------------------------------------
(* Properties.                                                             *)

\* The two binding maps are inverse to each other, through binds, unbinds,
\* unregistrations, closed connections and the prunes of every broadcast: a
\* sender is never left in a session it does not list, which its
\* UnregisterSender would then miss.
BindingsAreInverse ==
    \A k \in Sessions, s \in Senders :
        s \in sessionBindings[k] <=> k \in senderSessions[s]

\* A request leaves the pending map only when it is being resolved; closing,
\* unbinding or rebinding connections never takes one away.
PendingUntilResolved ==
    \A q \in Requests :
        rpc[q] \notin {"idle", "created"} =>
            (q \in pendingRequests <=> once[q] \in {"fresh", "cleanup"})

\* Finalizers race, but a request is resolved with one status for good, and
\* RequestPermission returns only after the resolution has been sent.
ResolvedOnce ==
    [][\A q \in Requests :
        /\ status[q] # "none" => status'[q] = status[q]
        /\ rpc'[q] = "returned" => once'[q] = "done" /\ q \notin pendingRequests']_vars

\* A tool is never allowed by a request reported as expired.
ExpiredMeansDenied ==
    \A q \in Requests : status[q] = "expired" => decision[q] # "allow"

\* A pending request reaches every sender bound to its dispatch session,
\* whether the binding or the request came first, unless the request is
\* resolved or the binding ends before.
PromptReachesSenders ==
    \A q \in Requests, s \in Senders :
        (q \in pendingRequests /\ to[q] \notin AgentKeys /\ s \in sessionBindings[to[q]])
        ~> \/ q \in prompted[s]
           \/ q \notin pendingRequests
           \/ s \in closed \/ s \notin sessionBindings[to[q]]

\* With a timer that fires, RequestPermission returns whatever users, other
\* finalizers and connections do.
RequestReturns ==
    (\A q \in Requests : WF_vars(TimeOut(q)))
        => \A q \in Requests : (rpc[q] = "waiting") ~> (rpc[q] = "returned")

=============================================================================
