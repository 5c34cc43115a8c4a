------------------------ MODULE PermissionContext_proofs ------------------------
(***************************************************************************)
(* Theorems about PermissionContext for any sets of sessions, senders,     *)
(* requests and callers.                                                   *)
(***************************************************************************)
EXTENDS PermissionContext, TLAPS

-----------------------------------------------------------------------------
LEMMA TypeInit == Init => TypeOK
<1> SUFFICES ASSUME Init PROVE TypeOK
  OBVIOUS
<1> USE KeysAssumption DEF Init
<1>1. /\ sessionBindings \in [Sessions -> SUBSET Senders]
      /\ senderSessions \in [Senders -> SUBSET Sessions]
      /\ sessionRoutes \in [Sessions -> Sessions]
      /\ prompted \in [Senders -> SUBSET Requests]
      /\ closed \subseteq Senders /\ pendingRequests \subseteq Requests
  OBVIOUS
<1>2. /\ of \in [Requests -> Sessions \cup {NoKey}]
      /\ to \in [Requests -> Sessions \cup {NoKey}]
      /\ responseCh \in [Requests -> Decisions \cup {"empty"}]
      /\ once \in [Requests -> {"fresh", "cleanup", "resolve", "send", "done"}]
      /\ status \in [Requests -> Statuses \cup {"none"}]
      /\ resolveTo \in [Requests -> SUBSET Senders]
  OBVIOUS
<1>3. /\ rpc \in [Requests -> RequestPCs]
      /\ decision \in [Requests -> Decisions \cup {"none", "contextDone", "timeout"}]
      /\ dpc \in [Requests -> {"none", "spawned", "sending"}]
      /\ dispatchTo \in [Requests -> SUBSET Senders]
  BY DEF RequestPCs
<1>4. /\ apc \in [Answers -> {"idle", "found", "sent", "finalizing"}]
      /\ answer \in [Answers -> [req : Requests \cup {NoRequest}, decision : UserDecisions]]
  BY DEF NoAnswer, UserDecisions
<1>5. /\ cpc \in [Cancellers -> {"idle", "cancelling", "sent", "finalizing"}]
      /\ cancelTodo \in [Cancellers -> SUBSET Requests]
      /\ cancelReq \in [Cancellers -> Requests \cup {NoRequest}]
  OBVIOUS
<1>6. /\ bpc \in [Binders -> {"idle", "spawned", "resolved", "replaying"}]
      /\ bind \in [Binders -> [key : Sessions \cup {NoKey}, sender : Senders \cup {NoSender}]]
      /\ replayTodo \in [Binders -> SUBSET Requests]
  BY DEF NoBind
<1>7. QED
  BY <1>1, <1>2, <1>3, <1>4, <1>5, <1>6 DEF TypeOK

\* What a call in progress refers to exists: a replay has a session, and a
\* request that can be dispatched, found, answered, cancelled or resolved
\* has been registered and has a dispatch session.
Begun(q) == rpc[q] \notin {"idle", "created"}

Known ==
    /\ \A b \in Binders : bpc[b] # "idle" => bind[b].key \in Sessions
    /\ \A q \in Requests : rpc[q] # "idle" => to[q] \in Sessions
    /\ \A q \in Requests :
          q \in pendingRequests \/ dpc[q] # "none" \/ once[q] # "fresh" => Begun(q)
    /\ \A a \in Answers :
          apc[a] # "idle" => answer[a].req \in Requests /\ Begun(answer[a].req)
    /\ \A c \in Cancellers :
          /\ \A q \in cancelTodo[c] : Begun(q)
          /\ cpc[c] \in {"sent", "finalizing"} =>
                cancelReq[c] \in Requests /\ Begun(cancelReq[c])

LEMMA RemoveBindingsType ==
  ASSUME TypeOK, NEW gone, RemoveBindings(gone)
  PROVE  /\ sessionBindings' \in [Sessions -> SUBSET Senders]
         /\ senderSessions' \in [Senders -> SUBSET Sessions]
  BY DEF TypeOK, RemoveBindings

LEMMA FinalizeType ==
  ASSUME TypeOK, NEW q \in Requests, NEW st \in Statuses, Finalize(q, st)
  PROVE  /\ once' \in [Requests -> {"fresh", "cleanup", "resolve", "send", "done"}]
         /\ status' \in [Requests -> Statuses \cup {"none"}]
<1>1. CASE once[q] = "fresh"
  <2>1. once' = [once EXCEPT ![q] = "cleanup"] /\ status' = [status EXCEPT ![q] = st]
    BY <1>1 DEF Finalize
  <2>2. QED
    BY <2>1 DEF TypeOK
<1>2. CASE once[q] # "fresh"
  BY <1>2 DEF TypeOK, Finalize
<1>3. QED
  BY <1>1, <1>2

LEMMA SendPromptType ==
  ASSUME TypeOK, NEW q \in Requests, NEW s, SendPrompt(q, s)
  PROVE  prompted' \in [Senders -> SUBSET Requests]
<1> DEFINE sent == IF s \in closed THEN prompted[s] ELSE prompted[s] \cup {q}
<1>1. prompted \in [Senders -> SUBSET Requests]
  BY DEF TypeOK
<1>2. prompted' = [prompted EXCEPT ![s] = sent]
  BY DEF SendPrompt
<1>3. ASSUME s \in Senders PROVE sent \in SUBSET Requests
  <2>1. prompted[s] \in SUBSET Requests
    BY <1>1, <1>3
  <2>2. QED
    BY <2>1
<1> HIDE DEF sent
<1>4. CASE s \in Senders
  BY <1>1, <1>2, <1>3, <1>4
<1>5. CASE s \notin Senders
  <2>1. prompted' = prompted
    BY <1>1, <1>2, <1>5
  <2>2. QED
    BY <1>1, <2>1
<1>6. QED
  BY <1>4, <1>5

LEMMA TypeBindingStep ==
  ASSUME TypeOK, Known, BindingStep
  PROVE  TypeOK'
<1> USE DEF TypeOK, connections, lifecycle, delivery, callers, bindVars,
            resolveVars, requestVars, dispatchVars, answerVars, cancelVars, replayVars
<1>1. ASSUME NEW k \in Sessions, NEW s \in Senders, NEW b \in Binders, BindSession(b, k, s)
      PROVE  TypeOK'
  <2>1. /\ sessionBindings' \in [Sessions -> SUBSET Senders]
        /\ senderSessions' \in [Senders -> SUBSET Sessions]
    BY <1>1 DEF BindSession
  <2>2. bind' \in [Binders -> [key : Sessions \cup {NoKey}, sender : Senders \cup {NoSender}]]
    BY <1>1 DEF BindSession
  <2>3. bpc' \in [Binders -> {"idle", "spawned", "resolved", "replaying"}]
    BY <1>1 DEF BindSession
  <2>4. QED
    BY <1>1, <2>1, <2>2, <2>3 DEF BindSession
<1>2. ASSUME NEW k \in Sessions, NEW s \in Senders, UnbindSession(k, s)
      PROVE  TypeOK'
  BY <1>2 DEF UnbindSession, RemoveBindings
<1>2a. ASSUME NEW k \in Sessions, IsBound(k) PROVE TypeOK'
  BY <1>2a DEF IsBound, RemoveBindings
<1>3. ASSUME NEW s \in Senders, UnregisterSender(s) PROVE TypeOK'
  BY <1>3 DEF UnregisterSender, RemoveBindings
<1>4. ASSUME NEW s \in Senders, SenderCloses(s) PROVE TypeOK'
  BY <1>4 DEF SenderCloses
<1>5. ASSUME NEW k \in Sessions, BindSessionRoute(k) \/ UnbindSessionRoute(k)
      PROVE  TypeOK'
  BY <1>5, KeysAssumption DEF BindSessionRoute, UnbindSessionRoute
<1>6. QED
  BY <1>1, <1>2, <1>2a, <1>3, <1>4, <1>5 DEF BindingStep

LEMMA TypeRequestStep ==
  ASSUME TypeOK, Known, NEW q \in Requests,
         ResolutionStep(q) \/ RequestStep(q) \/ DispatchStep(q)
  PROVE  TypeOK'
<1> USE DEF TypeOK, connections, lifecycle, delivery, callers, bindVars,
            resolveVars, requestVars, dispatchVars, answerVars, cancelVars, replayVars
<1>1. CASE cleanupRequest(q)
  BY <1>1 DEF cleanupRequest
<1>2. CASE dispatchPermissionResolution(q)
  <2>1. /\ sessionBindings' \in [Sessions -> SUBSET Senders]
        /\ senderSessions' \in [Senders -> SUBSET Sessions]
    BY <1>2, RemoveBindingsType DEF dispatchPermissionResolution
  <2>2. resolveTo' \in [Requests -> SUBSET Senders]
    <3>1. to[q] \in Sessions
      BY <1>2 DEF dispatchPermissionResolution, Known, Begun
    <3>2. ResolveSessionSenders(to[q]) \subseteq Senders
      BY <3>1 DEF ResolveSessionSenders
    <3>3. QED
      BY <1>2, <3>2 DEF dispatchPermissionResolution
  <2>3. once' \in [Requests -> {"fresh", "cleanup", "resolve", "send", "done"}]
    BY <1>2 DEF dispatchPermissionResolution
  <2>4. QED
    BY <1>2, <2>1, <2>2, <2>3 DEF dispatchPermissionResolution
<1>3. CASE SendResolution(q)
  <2>1. once' \in [Requests -> {"fresh", "cleanup", "resolve", "send", "done"}]
    BY <1>3 DEF SendResolution
  <2>2. resolveTo' \in [Requests -> SUBSET Senders]
    BY SMTT(30), <1>3 DEF SendResolution
  <2>3. QED
    BY <1>3, <2>1, <2>2 DEF SendResolution
<1>4. CASE \E k \in Sessions : newPendingRequest(q, k)
  BY <1>4 DEF newPendingRequest, RequestPCs
<1>5. CASE RegisterRequest(q)
  BY <1>5 DEF RegisterRequest, RequestPCs
<1>6. CASE ReceiveDecision(q)
  BY <1>6 DEF ReceiveDecision, RequestPCs
<1>7. CASE ContextDone(q) \/ TimeOut(q)
  <2>1. /\ rpc' \in [Requests -> RequestPCs]
        /\ decision' \in [Requests -> Decisions \cup {"none", "contextDone", "timeout"}]
    <3>1. CASE ContextDone(q)
      BY <3>1 DEF ContextDone, StopWaiting, RequestPCs
    <3>2. CASE TimeOut(q)
      BY <3>2 DEF TimeOut, StopWaiting, RequestPCs
    <3>3. QED
      BY <1>7, <3>1, <3>2
  <2>2. UNCHANGED <<delivery, callers, connections, resolveVars, pendingRequests,
                    responseCh, of, to>>
    BY <1>7 DEF ContextDone, TimeOut, StopWaiting
  <2>3. QED
    BY <2>1, <2>2
<1>8. CASE RequestFinalizes(q)
  <2>1. /\ once' \in [Requests -> {"fresh", "cleanup", "resolve", "send", "done"}]
        /\ status' \in [Requests -> Statuses \cup {"none"}]
    BY <1>8, FinalizeType DEF RequestFinalizes
  <2>2. rpc' \in [Requests -> RequestPCs]
    BY <1>8 DEF RequestFinalizes, RequestPCs
  <2>3. QED
    BY <1>8, <2>1, <2>2 DEF RequestFinalizes
<1>9. CASE RequestReturn(q)
  BY <1>9 DEF RequestReturn, RequestPCs
<1>10. CASE dispatchPendingRequest(q)
  <2>1. /\ sessionBindings' \in [Sessions -> SUBSET Senders]
        /\ senderSessions' \in [Senders -> SUBSET Sessions]
    BY <1>10, RemoveBindingsType DEF dispatchPendingRequest
  <2>2. ResolveSessionSenders(to[q]) \subseteq Senders
    <3>1. to[q] \in Sessions
      BY <1>10 DEF dispatchPendingRequest, Known, Begun
    <3>2. QED
      BY <3>1 DEF ResolveSessionSenders
  <2>3. /\ dispatchTo' \in [Requests -> SUBSET Senders]
        /\ dpc' \in [Requests -> {"none", "spawned", "sending"}]
    BY <1>10, <2>2 DEF dispatchPendingRequest
  <2>4. QED
    BY <1>10, <2>1, <2>3 DEF dispatchPendingRequest
<1>11. CASE DispatchSends(q)
  <2>1. prompted' \in [Senders -> SUBSET Requests]
    BY <1>11, SendPromptType DEF DispatchSends
  <2>2. dispatchTo' \in [Requests -> SUBSET Senders]
    BY <1>11 DEF DispatchSends
  <2>3. QED
    BY <1>11, <2>1, <2>2 DEF DispatchSends
<1>12. QED
  BY <1>1, <1>2, <1>3, <1>4, <1>5, <1>6, <1>7, <1>8, <1>9, <1>10, <1>11
     DEF ResolutionStep, RequestStep, DispatchStep

LEMMA TypeCallerStep ==
  ASSUME TypeOK, Known,
         \/ \E b \in Binders : ReplayStep(b)
         \/ \E a \in Answers :
               \/ \E q \in Requests, d \in UserDecisions : AnswerFinds(a, q, d)
               \/ AnswerStep(a)
         \/ \E c \in Cancellers : (\E k \in Sessions : CancelCollects(c, k)) \/ CancelStep(c)
  PROVE  TypeOK'
<1> USE DEF TypeOK, connections, lifecycle, delivery, callers, bindVars,
            resolveVars, requestVars, dispatchVars, answerVars, cancelVars, replayVars
<1>1. ASSUME NEW b \in Binders, ReplayResolves(b) PROVE TypeOK'
  <2>1. bind[b].key \in Sessions
    BY <1>1 DEF ReplayResolves, Known
  <2>2. sessionRoutes[bind[b].key] \in Sessions
    BY <2>1
  <2>3. bind' \in [Binders -> [key : Sessions \cup {NoKey}, sender : Senders \cup {NoSender}]]
    <3>1. NoBind \in [key : Sessions \cup {NoKey}, sender : Senders \cup {NoSender}]
      BY DEF NoBind
    <3>2. CASE bind' = [bind EXCEPT ![b] = NoBind]
      BY <3>1, <3>2
    <3>3. CASE bind' = [bind EXCEPT ![b].key = sessionRoutes[@]]
      <4>1. [bind[b] EXCEPT !.key = sessionRoutes[bind[b].key]]
                \in [key : Sessions \cup {NoKey}, sender : Senders \cup {NoSender}]
        BY SMTT(30), <2>2
      <4>2. bind' = [bind EXCEPT ![b] = [bind[b] EXCEPT !.key = sessionRoutes[bind[b].key]]]
        BY <3>3
      <4>3. QED
        BY <4>1, <4>2
    <3>4. QED
      BY <1>1, <3>2, <3>3 DEF ReplayResolves
  <2>4. bpc' \in [Binders -> {"idle", "spawned", "resolved", "replaying"}]
    BY SMTT(30), <1>1 DEF ReplayResolves
  <2>5. QED
    BY <1>1, <2>3, <2>4 DEF ReplayResolves
<1>2. ASSUME NEW b \in Binders, ReplayCollects(b) PROVE TypeOK'
  BY <1>2 DEF ReplayCollects
<1>3. ASSUME NEW b \in Binders, dispatchPendingRequestToSender(b)
      PROVE  TypeOK'
  <2>1. prompted' \in [Senders -> SUBSET Requests]
    BY <1>3, SendPromptType DEF dispatchPendingRequestToSender
  <2>2. replayTodo' \in [Binders -> SUBSET Requests]
    BY <1>3 DEF dispatchPendingRequestToSender
  <2>3. QED
    BY <1>3, <2>1, <2>2 DEF dispatchPendingRequestToSender
<1>4. ASSUME NEW b \in Binders, ReplayEnds(b) PROVE TypeOK'
  BY <1>4 DEF ReplayEnds, NoBind
<1>5. ASSUME NEW a \in Answers, NEW q \in Requests, NEW d \in UserDecisions,
             AnswerFinds(a, q, d)
      PROVE  TypeOK'
  BY <1>5 DEF AnswerFinds
<1>6. ASSUME NEW a \in Answers, AnswerSends(a) PROVE TypeOK'
  <2>1. answer[a].decision \in Decisions
    BY DEF Decisions
  <2>2. responseCh' \in [Requests -> Decisions \cup {"empty"}]
    BY <1>6, <2>1 DEF AnswerSends
  <2>3. /\ apc' \in [Answers -> {"idle", "found", "sent", "finalizing"}]
        /\ answer' \in [Answers -> [req : Requests \cup {NoRequest}, decision : UserDecisions]]
    <3>1. NoAnswer \in [req : Requests \cup {NoRequest}, decision : UserDecisions]
      BY DEF NoAnswer, UserDecisions
    <3>2. \/ apc' = [apc EXCEPT ![a] = "sent"] /\ answer' = answer
          \/ apc' = [apc EXCEPT ![a] = "idle"] /\ answer' = [answer EXCEPT ![a] = NoAnswer]
      BY <1>6 DEF AnswerSends, AnswerEnds
    <3>3. apc' \in [Answers -> {"idle", "found", "sent", "finalizing"}]
      BY ZenonT(40), <3>2
    <3>4. CASE answer' = [answer EXCEPT ![a] = NoAnswer]
      BY <3>1, <3>3, <3>4
    <3>5. CASE answer' = answer
      BY <3>3, <3>5
    <3>6. QED
      BY <3>2, <3>4, <3>5
  <2>4. QED
    BY <1>6, <2>2, <2>3 DEF AnswerSends
<1>7. ASSUME NEW a \in Answers, AnswerFinalizes(a) PROVE TypeOK'
  <2>1. /\ once' \in [Requests -> {"fresh", "cleanup", "resolve", "send", "done"}]
        /\ status' \in [Requests -> Statuses \cup {"none"}]
    <3>1. answer[a].req \in Requests
      BY <1>7 DEF AnswerFinalizes, Known
    <3>2. QED
      BY <1>7, <3>1, FinalizeType DEF AnswerFinalizes, Statuses
  <2>2. apc' \in [Answers -> {"idle", "found", "sent", "finalizing"}]
    BY <1>7 DEF AnswerFinalizes
  <2>3. QED
    BY <1>7, <2>1, <2>2 DEF AnswerFinalizes
<1>8. ASSUME NEW a \in Answers, AnswerReturns(a) PROVE TypeOK'
  BY <1>8 DEF AnswerReturns, AnswerEnds, NoAnswer, UserDecisions
<1>9. ASSUME NEW c \in Cancellers, NEW k \in Sessions, CancelCollects(c, k)
      PROVE  TypeOK'
  BY <1>9 DEF CancelCollects
<1>10. ASSUME NEW c \in Cancellers, CancelSends(c) PROVE TypeOK'
  <2> PICK q \in cancelTodo[c] :
          /\ cancelTodo' = [cancelTodo EXCEPT ![c] = @ \ {q}]
          /\ \/ /\ responseCh' = [responseCh EXCEPT ![q] = "sessionCancelled"]
                /\ cpc' = [cpc EXCEPT ![c] = "sent"]
                /\ cancelReq' = [cancelReq EXCEPT ![c] = q]
             \/ UNCHANGED <<responseCh, cpc, cancelReq>>
    BY <1>10 DEF CancelSends
  <2>1. responseCh' \in [Requests -> Decisions \cup {"empty"}]
    BY DEF Decisions
  <2>2. /\ cpc' \in [Cancellers -> {"idle", "cancelling", "sent", "finalizing"}]
        /\ cancelReq' \in [Cancellers -> Requests \cup {NoRequest}]
    <3>1. CASE /\ cpc' = [cpc EXCEPT ![c] = "sent"]
               /\ cancelReq' = [cancelReq EXCEPT ![c] = q]
      BY <3>1
    <3>2. CASE UNCHANGED <<cpc, cancelReq>>
      BY <3>2
    <3>3. QED
      BY <3>1, <3>2
  <2>3. cancelTodo' \in [Cancellers -> SUBSET Requests]
    OBVIOUS
  <2>4. QED
    BY <1>10, <2>1, <2>2, <2>3 DEF CancelSends
<1>11. ASSUME NEW c \in Cancellers, CancelFinalizes(c) PROVE TypeOK'
  BY <1>11 DEF CancelFinalizes, Finalize, Statuses
<1>12. ASSUME NEW c \in Cancellers, CancelContinues(c) PROVE TypeOK'
  BY SMTT(30), <1>12 DEF CancelContinues
<1>13. QED
  BY <1>1, <1>2, <1>3, <1>4, <1>5, <1>6, <1>7, <1>8, <1>9, <1>10, <1>11, <1>12
     DEF ReplayStep, AnswerStep, CancelStep

-----------------------------------------------------------------------------
LEMMA KnownInit == Init => Known
  BY DEF Init, Known, Begun

LEMMA KnownBindingStep ==
  ASSUME TypeOK, Known, BindingStep
  PROVE  Known'
<1> USE DEF TypeOK, Known, Begun, connections, lifecycle, delivery, callers, bindVars,
            resolveVars, requestVars, dispatchVars, answerVars, cancelVars, replayVars
<1>1. ASSUME NEW k \in Sessions, NEW s \in Senders, NEW b \in Binders, BindSession(b, k, s)
      PROVE  Known'
  <2>1. \A d \in Binders : bpc'[d] # "idle" => bind'[d].key \in Sessions
    BY <1>1 DEF BindSession
  <2>2. QED
    BY <1>1, <2>1 DEF BindSession
<1>2. ASSUME NEW k \in Sessions, NEW s \in Senders, UnbindSession(k, s) PROVE Known'
  BY <1>2 DEF UnbindSession
<1>2a. ASSUME NEW k \in Sessions, IsBound(k) PROVE Known'
  BY <1>2a DEF IsBound
<1>3. ASSUME NEW s \in Senders, UnregisterSender(s) \/ SenderCloses(s) PROVE Known'
  BY <1>3 DEF UnregisterSender, SenderCloses
<1>4. ASSUME NEW k \in Sessions, BindSessionRoute(k) \/ UnbindSessionRoute(k)
      PROVE  Known'
  BY <1>4 DEF BindSessionRoute, UnbindSessionRoute
<1>5. QED
  BY <1>1, <1>2, <1>2a, <1>3, <1>4 DEF BindingStep

LEMMA KnownRequestStep ==
  ASSUME TypeOK, Known, NEW q \in Requests,
         ResolutionStep(q) \/ RequestStep(q) \/ DispatchStep(q)
  PROVE  Known'
<1> USE DEF TypeOK, Known, Begun, connections, lifecycle, delivery, callers, bindVars,
            resolveVars, requestVars, dispatchVars, answerVars, cancelVars, replayVars
<1>1. CASE cleanupRequest(q)
  BY <1>1 DEF cleanupRequest
<1>2. CASE dispatchPermissionResolution(q)
  BY <1>2 DEF dispatchPermissionResolution
<1>3. CASE SendResolution(q)
  BY <1>3 DEF SendResolution
<1>4. CASE \E k \in Sessions : newPendingRequest(q, k)
  BY <1>4 DEF newPendingRequest
<1>5. CASE RegisterRequest(q)
  BY <1>5 DEF RegisterRequest
<1>6. CASE ReceiveDecision(q)
  BY <1>6 DEF ReceiveDecision
<1>7. CASE ContextDone(q) \/ TimeOut(q)
  BY <1>7 DEF ContextDone, TimeOut, StopWaiting
<1>8. CASE RequestFinalizes(q)
  BY <1>8 DEF RequestFinalizes, Finalize, Statuses
<1>9. CASE RequestReturn(q)
  BY <1>9 DEF RequestReturn
<1>10. CASE dispatchPendingRequest(q)
  BY <1>10 DEF dispatchPendingRequest
<1>11. CASE DispatchSends(q)
  BY <1>11 DEF DispatchSends
<1>12. QED
  BY <1>1, <1>2, <1>3, <1>4, <1>5, <1>6, <1>7, <1>8, <1>9, <1>10, <1>11
     DEF ResolutionStep, RequestStep, DispatchStep

LEMMA KnownCallerStep ==
  ASSUME TypeOK, Known,
         \/ \E b \in Binders : ReplayStep(b)
         \/ \E a \in Answers :
               \/ \E q \in Requests, d \in UserDecisions : AnswerFinds(a, q, d)
               \/ AnswerStep(a)
         \/ \E c \in Cancellers : (\E k \in Sessions : CancelCollects(c, k)) \/ CancelStep(c)
  PROVE  Known'
<1> USE DEF TypeOK, Known, Begun, connections, lifecycle, delivery, callers, bindVars,
            resolveVars, requestVars, dispatchVars, answerVars, cancelVars, replayVars
<1>1. ASSUME NEW b \in Binders, ReplayResolves(b) PROVE Known'
  <2>1. bind[b].key \in Sessions /\ sessionRoutes[bind[b].key] \in Sessions
    BY <1>1 DEF ReplayResolves
  <2>2. ASSUME NEW d \in Binders, bpc'[d] # "idle" PROVE bind'[d].key \in Sessions
    <3>1. CASE d = b
      <4>1. bind' = [bind EXCEPT ![b].key = sessionRoutes[@]]
        BY <1>1, <2>2, <3>1 DEF ReplayResolves
      <4>2. QED
        BY <2>1, <3>1, <4>1
    <3>2. CASE d # b
      BY <1>1, <2>2, <3>2 DEF ReplayResolves
    <3>3. QED
      BY <3>1, <3>2
  <2>3. QED
    BY <1>1, <2>2 DEF ReplayResolves
<1>2. ASSUME NEW b \in Binders, ReplayCollects(b) PROVE Known'
  BY <1>2 DEF ReplayCollects
<1>3. ASSUME NEW b \in Binders, dispatchPendingRequestToSender(b) \/ ReplayEnds(b)
      PROVE  Known'
  <2>1. CASE dispatchPendingRequestToSender(b)
    BY <2>1 DEF dispatchPendingRequestToSender
  <2>2. CASE ReplayEnds(b)
    <3>1. \A d \in Binders : bpc'[d] # "idle" => bind'[d].key \in Sessions
      BY <2>2 DEF ReplayEnds
    <3>2. QED
      BY <2>2, <3>1 DEF ReplayEnds
  <2>3. QED
    BY <1>3, <2>1, <2>2
<1>4. ASSUME NEW a \in Answers, NEW q \in Requests, NEW d \in UserDecisions,
             AnswerFinds(a, q, d)
      PROVE  Known'
  BY <1>4 DEF AnswerFinds
<1>5. ASSUME NEW a \in Answers, AnswerSends(a) PROVE Known'
  BY <1>5 DEF AnswerSends, AnswerEnds
<1>6. ASSUME NEW a \in Answers, AnswerFinalizes(a) PROVE Known'
  BY <1>6 DEF AnswerFinalizes, Finalize
<1>7. ASSUME NEW a \in Answers, AnswerReturns(a) PROVE Known'
  BY <1>7 DEF AnswerReturns, AnswerEnds
<1>8. ASSUME NEW c \in Cancellers, NEW k \in Sessions, CancelCollects(c, k) PROVE Known'
  BY <1>8 DEF CancelCollects
<1>9. ASSUME NEW c \in Cancellers, CancelSends(c) PROVE Known'
  BY <1>9 DEF CancelSends
<1>10. ASSUME NEW c \in Cancellers, CancelFinalizes(c) PROVE Known'
  BY <1>10 DEF CancelFinalizes, Finalize
<1>11. ASSUME NEW c \in Cancellers, CancelContinues(c) PROVE Known'
  BY <1>11 DEF CancelContinues
<1>12. QED
  BY <1>1, <1>2, <1>3, <1>4, <1>5, <1>6, <1>7, <1>8, <1>9, <1>10, <1>11
     DEF ReplayStep, AnswerStep, CancelStep

LEMMA TypeStep == TypeOK /\ Known /\ [Next]_vars => TypeOK' /\ Known'
<1> SUFFICES ASSUME TypeOK, Known, [Next]_vars PROVE TypeOK' /\ Known'
  OBVIOUS
<1>1. CASE UNCHANGED vars
  BY <1>1 DEF vars, TypeOK, Known, Begun, connections, lifecycle, delivery, callers,
     bindVars, resolveVars, requestVars, dispatchVars, answerVars, cancelVars, replayVars
<1>2. QED
  BY <1>1, TypeBindingStep, TypeRequestStep, TypeCallerStep,
     KnownBindingStep, KnownRequestStep, KnownCallerStep DEF Next

LEMMA TypeAndKnown == Spec => [](TypeOK /\ Known)
  BY TypeInit, KnownInit, TypeStep, PTL DEF Spec

\* Every variable of the permission context keeps its type.
THEOREM TypeCorrect == Spec => []TypeOK
  BY TypeAndKnown, PTL

-----------------------------------------------------------------------------
\* Removing the same pairs from both maps, and adding one to both, keeps them
\* inverse.
LEMMA RemoveKeepsInverse ==
  ASSUME TypeOK, BindingsAreInverse, NEW gone, RemoveBindings(gone)
  PROVE  BindingsAreInverse'
  BY DEF TypeOK, BindingsAreInverse, RemoveBindings

LEMMA BindKeepsInverse ==
  ASSUME TypeOK, BindingsAreInverse,
         NEW b \in Binders, NEW k \in Sessions, NEW s \in Senders, BindSession(b, k, s)
  PROVE  BindingsAreInverse'
<1> SUFFICES ASSUME NEW j \in Sessions, NEW t \in Senders
             PROVE  t \in sessionBindings'[j] <=> j \in senderSessions'[t]
  BY DEF BindingsAreInverse
<1> USE DEF TypeOK, BindingsAreInverse
<1>1. sessionBindings' = [sessionBindings EXCEPT ![k] = (@ \cup {s}) \ closed]
  BY DEF BindSession
<1>2. s \notin closed
  BY DEF BindSession
<1>3. CASE t = s
  <2>1. senderSessions'[t] = senderSessions[t] \cup {k}
    BY <1>3 DEF BindSession
  <2>2. QED
    BY <1>1, <1>2, <1>3, <2>1
<1>4. CASE t # s
  <2>1. senderSessions'[t] = {i \in senderSessions[t] : <<i, t>> \notin ClosedBindings({k})}
    BY <1>4 DEF BindSession
  <2>2. <<j, t>> \in ClosedBindings({k}) <=> j = k /\ t \in closed /\ t \in sessionBindings[k]
    BY DEF ClosedBindings
  <2>3. QED
    BY <1>1, <1>4, <2>1, <2>2
<1>5. QED
  BY <1>3, <1>4

LEMMA InverseStep ==
  ASSUME TypeOK, BindingsAreInverse, [Next]_vars
  PROVE  BindingsAreInverse'
<1>1. CASE UNCHANGED bindVars
  BY <1>1 DEF BindingsAreInverse, bindVars
<1>2. ASSUME NEW k \in Sessions, NEW s \in Senders, UnbindSession(k, s)
      PROVE  BindingsAreInverse'
  BY <1>2, RemoveKeepsInverse DEF UnbindSession
<1>2a. ASSUME NEW k \in Sessions, IsBound(k) PROVE BindingsAreInverse'
  BY <1>2a, RemoveKeepsInverse DEF IsBound
<1>3. ASSUME NEW s \in Senders, UnregisterSender(s) PROVE BindingsAreInverse'
  BY <1>3, RemoveKeepsInverse DEF UnregisterSender
<1>4. ASSUME NEW q \in Requests,
             dispatchPermissionResolution(q) \/ dispatchPendingRequest(q)
      PROVE  BindingsAreInverse'
  BY <1>4, RemoveKeepsInverse DEF dispatchPermissionResolution, dispatchPendingRequest
<1>5. CASE BindingStep
  <2>1. ASSUME NEW s \in Senders, SenderCloses(s) PROVE UNCHANGED bindVars
    BY <2>1 DEF SenderCloses
  <2>2. ASSUME NEW k \in Sessions, BindSessionRoute(k) \/ UnbindSessionRoute(k)
        PROVE  UNCHANGED bindVars
    BY <2>2 DEF BindSessionRoute, UnbindSessionRoute
  <2>3. QED
    BY <1>1, <1>2, <1>2a, <1>3, <1>5, <2>1, <2>2, BindKeepsInverse DEF BindingStep
<1>6. ASSUME NEW q \in Requests, ResolutionStep(q) \/ RequestStep(q) \/ DispatchStep(q)
      PROVE  BindingsAreInverse'
  <2>1. CASE cleanupRequest(q) \/ SendResolution(q) \/ DispatchSends(q)
    BY <1>1, <2>1 DEF cleanupRequest, SendResolution, DispatchSends, connections
  <2>2. CASE RequestStep(q)
    BY <1>1, <2>2 DEF RequestStep, newPendingRequest, RegisterRequest, ReceiveDecision,
       ContextDone, TimeOut, StopWaiting, RequestFinalizes, RequestReturn, connections
  <2>3. QED
    BY <1>4, <1>6, <2>1, <2>2 DEF ResolutionStep, DispatchStep
<1>7. ASSUME NEW b \in Binders, ReplayStep(b) PROVE UNCHANGED bindVars
  BY <1>7 DEF ReplayStep, ReplayResolves, ReplayCollects, dispatchPendingRequestToSender,
     ReplayEnds, connections
<1>8. ASSUME NEW a \in Answers,
             (\E q \in Requests, d \in UserDecisions : AnswerFinds(a, q, d)) \/ AnswerStep(a)
      PROVE  UNCHANGED bindVars
  BY <1>8 DEF AnswerFinds, AnswerStep, AnswerSends, AnswerFinalizes, AnswerReturns, connections
<1>9. ASSUME NEW c \in Cancellers, (\E k \in Sessions : CancelCollects(c, k)) \/ CancelStep(c)
      PROVE  UNCHANGED bindVars
  BY <1>9 DEF CancelCollects, CancelStep, CancelSends, CancelFinalizes, CancelContinues,
     connections
<1>10. CASE UNCHANGED vars
  BY <1>1, <1>10 DEF vars, connections
<1>11. QED
  BY <1>1, <1>5, <1>6, <1>7, <1>8, <1>9, <1>10 DEF Next

\* The two maps of bindings stay inverse to each other, so UnregisterSender
\* finds every session its sender is bound to.
THEOREM Inverse == Spec => []BindingsAreInverse
<1>1. Init => BindingsAreInverse
  BY DEF Init, BindingsAreInverse
<1>2. TypeOK /\ BindingsAreInverse /\ [Next]_vars => BindingsAreInverse'
  BY InverseStep
<1>3. QED
  BY TypeCorrect, <1>1, <1>2, PTL DEF Spec

-----------------------------------------------------------------------------
\* How status, decision and return of a request follow its resolution.
Resolution ==
    /\ PendingUntilResolved
    /\ \A q \in Requests :
          /\ status[q] # "none" => once[q] # "fresh"
          /\ rpc[q] = "expired" => decision[q] = "timeout"
          /\ status[q] = "expired" =>
                rpc[q] \in {"finalizing", "returned"} /\ decision[q] = "timeout"
          /\ rpc[q] = "returned" => once[q] = "done"

\* A caller other than RequestPermission finalizes with answered or cancelled.
LEMMA OthersFinalize ==
  ASSUME TypeOK, Resolution, NEW q \in Requests, Begun(q),
         NEW st \in {"answered", "cancelled"}, Finalize(q, st),
         UNCHANGED <<rpc, decision, pendingRequests>>
  PROVE  Resolution'
<1>1. CASE once[q] = "fresh"
  <2>1. once' = [once EXCEPT ![q] = "cleanup"] /\ status' = [status EXCEPT ![q] = st]
    BY <1>1 DEF Finalize
  <2>2. QED
    BY <1>1, <2>1 DEF TypeOK, Resolution, PendingUntilResolved
<1>2. CASE once[q] # "fresh"
  BY <1>2 DEF Finalize, Resolution, PendingUntilResolved
<1>3. QED
  BY <1>1, <1>2

LEMMA OwnFinalize ==
  ASSUME TypeOK, Resolution, NEW q \in Requests, RequestFinalizes(q)
  PROVE  Resolution'
<1> USE DEF RequestFinalizes, Statuses, lifecycle
<1>1. CASE once[q] = "fresh"
  <2>1. /\ once' = [once EXCEPT ![q] = "cleanup"]
        /\ status' = [status EXCEPT ![q] = rpc[q]]
        /\ rpc' = [rpc EXCEPT ![q] = "finalizing"]
        /\ UNCHANGED <<decision, pendingRequests>>
    BY <1>1 DEF Finalize
  <2>2. PendingUntilResolved'
    BY <1>1, <2>1 DEF TypeOK, Resolution, PendingUntilResolved
  <2>3. QED
    BY <1>1, <2>1, <2>2 DEF TypeOK, Resolution
<1>2. CASE once[q] # "fresh"
  <2>1. /\ rpc' = [rpc EXCEPT ![q] = "finalizing"]
        /\ UNCHANGED <<once, status, decision, pendingRequests>>
    BY <1>2 DEF Finalize
  <2>2. QED
    BY <2>1 DEF TypeOK, Resolution, PendingUntilResolved
<1>3. QED
  BY <1>1, <1>2

LEMMA ResolutionRequestStep ==
  ASSUME TypeOK, Known, Resolution, NEW q \in Requests,
         ResolutionStep(q) \/ RequestStep(q) \/ DispatchStep(q)
  PROVE  Resolution'
<1> USE DEF TypeOK, Resolution, PendingUntilResolved, requestVars, resolveVars, lifecycle
<1>1. CASE cleanupRequest(q)
  BY <1>1 DEF cleanupRequest
<1>2. CASE dispatchPermissionResolution(q)
  BY <1>2 DEF dispatchPermissionResolution
<1>3. CASE SendResolution(q)
  <2>1. /\ once[q] = "send"
        /\ UNCHANGED <<rpc, decision, pendingRequests, status>>
    BY <1>3 DEF SendResolution
  <2>2. once' = once \/ once' = [once EXCEPT ![q] = "done"]
    BY <1>3 DEF SendResolution
  <2>3. once' = once => Resolution'
    BY <2>1
  <2>4. ASSUME once' = [once EXCEPT ![q] = "done"] PROVE Resolution'
    BY <2>1, <2>4
  <2>5. QED
    BY <2>2, <2>3, <2>4
<1>4. CASE \E k \in Sessions : newPendingRequest(q, k)
  <2>1. status[q] = "none"
    BY <1>4 DEF newPendingRequest, Known, Begun
  <2>2. QED
    BY <1>4, <2>1 DEF newPendingRequest
<1>5. CASE RegisterRequest(q)
  <2>1. once[q] = "fresh" /\ status[q] = "none"
    BY <1>5 DEF RegisterRequest, Known, Begun
  <2>2. QED
    BY <1>5, <2>1 DEF RegisterRequest
<1>6. CASE ReceiveDecision(q)
  BY <1>6 DEF ReceiveDecision
<1>7. CASE ContextDone(q) \/ TimeOut(q)
  <2>1. /\ rpc[q] = "waiting"
        /\ UNCHANGED <<once, status, pendingRequests>>
    BY <1>7 DEF ContextDone, TimeOut, StopWaiting
  <2>2. CASE ContextDone(q)
    <3>1. /\ rpc' = [rpc EXCEPT ![q] = "cancelled"]
          /\ decision' = [decision EXCEPT ![q] = "contextDone"]
      BY <2>2 DEF ContextDone, StopWaiting
    <3>2. QED
      BY <2>1, <3>1
  <2>3. CASE TimeOut(q)
    <3>1. /\ rpc' = [rpc EXCEPT ![q] = "expired"]
          /\ decision' = [decision EXCEPT ![q] = "timeout"]
      BY <2>3 DEF TimeOut, StopWaiting
    <3>2. QED
      BY <2>1, <3>1
  <2>4. QED
    BY <1>7, <2>2, <2>3
<1>8. CASE RequestFinalizes(q)
  BY <1>8, OwnFinalize
<1>9. CASE RequestReturn(q)
  BY <1>9 DEF RequestReturn
<1>10. CASE DispatchStep(q)
  BY <1>10 DEF DispatchStep, dispatchPendingRequest, DispatchSends
<1>11. QED
  BY <1>1, <1>2, <1>3, <1>4, <1>5, <1>6, <1>7, <1>8, <1>9, <1>10
     DEF ResolutionStep, RequestStep

LEMMA ResolutionNextStep ==
  ASSUME TypeOK, Known, Resolution, [Next]_vars
  PROVE  Resolution'
<1> USE DEF requestVars, resolveVars, lifecycle
<1>1. ASSUME UNCHANGED <<rpc, decision, pendingRequests, once, status>>
      PROVE  Resolution'
  BY <1>1 DEF Resolution, PendingUntilResolved
<1>2. CASE BindingStep
  BY <1>1, <1>2 DEF BindingStep, BindSession, UnbindSession, IsBound, UnregisterSender,
     SenderCloses, BindSessionRoute, UnbindSessionRoute
<1>3. ASSUME NEW b \in Binders, ReplayStep(b) PROVE Resolution'
  BY <1>1, <1>3 DEF ReplayStep, ReplayResolves, ReplayCollects,
     dispatchPendingRequestToSender, ReplayEnds
<1>4. ASSUME NEW a \in Answers,
             (\E q \in Requests, d \in UserDecisions : AnswerFinds(a, q, d)) \/ AnswerStep(a)
      PROVE  Resolution'
  <2>1. CASE AnswerFinalizes(a)
    <3>1. answer[a].req \in Requests /\ Begun(answer[a].req)
      BY <2>1 DEF AnswerFinalizes, Known
    <3>2. QED
      BY <2>1, <3>1, OthersFinalize DEF AnswerFinalizes
  <2>2. QED
    BY <1>1, <1>4, <2>1 DEF AnswerFinds, AnswerStep, AnswerSends, AnswerReturns
<1>5. ASSUME NEW c \in Cancellers, (\E k \in Sessions : CancelCollects(c, k)) \/ CancelStep(c)
      PROVE  Resolution'
  <2>1. CASE CancelFinalizes(c)
    <3>1. cancelReq[c] \in Requests /\ Begun(cancelReq[c])
      BY <2>1 DEF CancelFinalizes, Known
    <3>2. QED
      BY <2>1, <3>1, OthersFinalize DEF CancelFinalizes
  <2>2. QED
    BY <1>1, <1>5, <2>1 DEF CancelCollects, CancelStep, CancelSends, CancelContinues
<1>6. CASE UNCHANGED vars
  BY <1>1, <1>6 DEF vars
<1>7. QED
  BY <1>2, <1>3, <1>4, <1>5, <1>6, ResolutionRequestStep DEF Next

LEMMA ResolutionCorrect == Spec => []Resolution
<1>1. Init => Resolution
  BY DEF Init, Resolution, PendingUntilResolved
<1>2. TypeOK /\ Known /\ Resolution /\ [Next]_vars => Resolution'
  BY ResolutionNextStep
<1>3. QED
  BY TypeAndKnown, <1>1, <1>2, PTL DEF Spec

\* A registered request stays pending until somebody resolves it, whatever
\* connections do.
THEOREM PendingStays == Spec => []PendingUntilResolved
<1>1. Resolution => PendingUntilResolved
  BY DEF Resolution
<1>2. QED
  BY ResolutionCorrect, <1>1, PTL

\* A request reported as expired is denied, however late an answer arrives.
THEOREM ExpiredDenies == Spec => []ExpiredMeansDenied
<1>1. Resolution => ExpiredMeansDenied
  BY DEF Resolution, ExpiredMeansDenied
<1>2. QED
  BY ResolutionCorrect, <1>1, PTL
\* Only the first call of finalizeRequest sets a status.
LEMMA StatusStays ==
  ASSUME TypeOK, Resolution, [Next]_vars, NEW q \in Requests, status[q] # "none"
  PROVE  status'[q] = status[q]
<1> USE DEF requestVars, resolveVars, lifecycle
<1>1. once[q] # "fresh"
  BY DEF Resolution
<1>2. ASSUME NEW p, NEW st, Finalize(p, st) PROVE status'[q] = status[q]
  <2>1. DOMAIN status = Requests
    BY DEF TypeOK
  <2>2. CASE once[p] = "fresh"
    <3>1. p # q
      BY <1>1, <2>2
    <3>2. status' = [status EXCEPT ![p] = st]
      BY <1>2, <2>2 DEF Finalize
    <3>3. QED
      BY <2>1, <3>1, <3>2
  <2>3. CASE once[p] # "fresh"
    BY <1>2, <2>3 DEF Finalize
  <2>4. QED
    BY <2>2, <2>3
<1>3. CASE BindingStep
  BY <1>3 DEF BindingStep, BindSession, UnbindSession, IsBound, UnregisterSender,
     SenderCloses, BindSessionRoute, UnbindSessionRoute
<1>4. ASSUME NEW p \in Requests, ResolutionStep(p) \/ RequestStep(p) \/ DispatchStep(p)
      PROVE  status'[q] = status[q]
  <2>1. CASE ResolutionStep(p)
    BY <2>1 DEF ResolutionStep, cleanupRequest, dispatchPermissionResolution, SendResolution
  <2>2. CASE RequestStep(p)
    BY <1>2, <2>2 DEF RequestStep, newPendingRequest, RegisterRequest, ReceiveDecision,
       ContextDone, TimeOut, StopWaiting, RequestFinalizes, RequestReturn
  <2>3. CASE DispatchStep(p)
    BY <2>3 DEF DispatchStep, dispatchPendingRequest, DispatchSends
  <2>4. QED
    BY <1>4, <2>1, <2>2, <2>3
<1>5. ASSUME NEW b \in Binders, ReplayStep(b) PROVE status'[q] = status[q]
  BY <1>5 DEF ReplayStep, ReplayResolves, ReplayCollects,
     dispatchPendingRequestToSender, ReplayEnds
<1>6. ASSUME NEW a \in Answers,
             (\E p \in Requests, d \in UserDecisions : AnswerFinds(a, p, d)) \/ AnswerStep(a)
      PROVE  status'[q] = status[q]
  BY <1>2, <1>6 DEF AnswerFinds, AnswerStep, AnswerSends, AnswerFinalizes, AnswerReturns
<1>7. ASSUME NEW c \in Cancellers, (\E k \in Sessions : CancelCollects(c, k)) \/ CancelStep(c)
      PROVE  status'[q] = status[q]
  BY <1>2, <1>7 DEF CancelCollects, CancelStep, CancelSends, CancelFinalizes, CancelContinues
<1>8. CASE UNCHANGED vars
  BY <1>8 DEF vars
<1>9. QED
  BY <1>3, <1>4, <1>5, <1>6, <1>7, <1>8 DEF Next

\* Whichever of RequestPermission, HandlePermissionResponse and
\* CancelRequestsForSession is first resolves the request, for good, and
\* RequestPermission returns after that.
THEOREM Once == Spec => ResolvedOnce
<1>1. ASSUME TypeOK, Resolution, Resolution', [Next]_vars
      PROVE  [\A q \in Requests :
                /\ status[q] # "none" => status'[q] = status[q]
                /\ rpc'[q] = "returned" => once'[q] = "done" /\ q \notin pendingRequests']_vars
  BY <1>1, StatusStays DEF Resolution, PendingUntilResolved
<1>2. TypeOK /\ Resolution /\ Resolution' /\ [Next]_vars
        => [\A q \in Requests :
                /\ status[q] # "none" => status'[q] = status[q]
                /\ rpc'[q] = "returned" => once'[q] = "done" /\ q \notin pendingRequests']_vars
  BY <1>1
<1>3. QED
  BY TypeCorrect, ResolutionCorrect, <1>2, PTL DEF Spec, ResolvedOnce
=============================================================================
