--------------------------- MODULE DMSession_proofs ---------------------------
(***************************************************************************)
(* Theorems about DMSession for any sets of messages, items and            *)
(* dispatchers.                                                            *)
(***************************************************************************)
EXTENDS DMSession, TLAPS

\* What a call handles: a message itself; a dispatcher nothing until it has
\* taken an item, and then that item.
OwnInput == \A m \in Messages : input[m] = m

DispatcherInput ==
    \A d \in Dispatchers :
        \/ pc[d] \in {"idle", "look", "pop"} /\ input[d] = NoInput
        \/ pc[d] \in (Holding \ {"guide"}) \cup {"sent", "ok"} /\ input[d] \in accepted

KnownItems == queued \subseteq accepted /\ deleted \subseteq accepted /\ lost \subseteq accepted

TypeInv == TypeOK /\ OwnInput /\ DispatcherInput /\ KnownItems

USE DEF Moves, Inputs, Callers

-----------------------------------------------------------------------------
LEMMA WakeTypes ==
    ASSUME TypeOK PROVE Wake => wake' \in 0 .. MaxWake /\ unserved' \in BOOLEAN
<1>1. Wake => wake' \in 0 .. MaxWake
  BY MaxWakeAssumption DEF Wake, TypeOK
<1>2. Wake => unserved' \in BOOLEAN
  BY Zenon DEF Wake
<1>3. QED
  BY <1>1, <1>2

\* The steps of HandleChat keep the types.
LEMMA TypeChat ==
    ASSUME TypeInv, NEW c \in Callers, ChatStep(c) PROVE TypeInv'
<1> USE InputsAssumption DEF TypeInv, OwnInput, DispatcherInput, KnownItems, PCs, Policies
<1>0. input[c] \in Inputs \/ pc[c] \in {"idle", "look", "pop"}
  BY DEF TypeOK
<1>1. CASE PreparationFails(c)
  BY <1>1 DEF PreparationFails, TypeOK, registry, queueVars, edits, items, outcome, waking, Holding
<1>2. CASE guideRunningInput(c)
  BY <1>2 DEF guideRunningInput, TypeOK, queueVars, edits, items, outcome, waking, Holding
<1>3. CASE queueRunningInput(c)
  BY <1>3 DEF queueRunningInput, TypeOK, registry, queueVars, edits, items, outcome, waking, Holding
<1>4. CASE SendContentToRunningRound(c)
  BY <1>4 DEF SendContentToRunningRound, Reaches, TypeOK, registry, queueVars, edits, items, waking, Holding
<1>5. CASE RecordSent(c)
  BY <1>0, <1>5 DEF RecordSent, TypeOK, registry, queueVars, edits, items, waking, Holding
<1>6. CASE interruptSession(c)
  BY <1>6 DEF interruptSession, AfterInterrupt, TypeOK, registry, queueVars, edits, items, outcome, waking, Holding
<1>7. CASE InterruptAnswered(c)
  BY <1>7 DEF InterruptAnswered, TypeOK, registry, queueVars, edits, items, outcome, waking, Holding
<1>8. CASE InterruptReturns(c)
  BY <1>8 DEF InterruptReturns, AfterInterrupt, TypeOK, registry, queueVars, edits, items, outcome, waking, Holding
<1>9. CASE CleanUpStaleRuntime(c)
  BY <1>9 DEF CleanUpStaleRuntime, CloseSession, AfterInterrupt, TypeOK, queueVars, edits, items, outcome, waking, Holding
<1>10. CASE RetryWithoutResume(c)
  BY <1>10 DEF RetryWithoutResume, CloseSession, TypeOK, queueVars, edits, items, outcome, waking, Holding
<1>11. CASE ensureClient(c)
  <2>1. client' \in BOOLEAN
    <3>1. client' = TRUE \/ client' \in {client, TRUE}
      BY <1>11 DEF ensureClient
    <3>2. client \in BOOLEAN
      BY DEF TypeOK
    <3>3. QED
      BY <3>1, <3>2, Zenon
  <2>2. \E from \in {"client", "retry"}, to \in {"register", "failed"} :
           pc[c] = from /\ pc' = [pc EXCEPT ![c] = to]
    BY <1>11 DEF ensureClient
  <2>3. QED
    BY <2>1, <2>2, <1>11 DEF ensureClient, TypeOK, queueVars, edits, items, outcome, waking, Holding
<1>12. CASE StartRound(c)
  BY <1>0, <1>12 DEF StartRound, TypeOK, queueVars, edits, items, outcome, waking, Holding
<1>13. CASE recordRoundMarker(c)
  BY <1>0, <1>13 DEF recordRoundMarker, Reaches, MarkRoundFinished, TypeOK, queueVars, edits, items, waking, Holding
<1>14. QED
  BY <1>1, <1>2, <1>3, <1>4, <1>5, <1>6, <1>7, <1>8, <1>9, <1>10, <1>11, <1>12, <1>13 DEF ChatStep

\* The steps of dispatchers keep the types.
LEMMA TypeDispatcher ==
    ASSUME TypeInv, NEW d \in Dispatchers, DispatcherStep(d) PROVE TypeInv'
<1> USE InputsAssumption DEF TypeInv, OwnInput, DispatcherInput, KnownItems, PCs
<1>0. d \in Callers /\ d \notin Messages
  OBVIOUS
<1>w. Wake => wake' \in 0 .. MaxWake /\ unserved' \in BOOLEAN
  BY WakeTypes
<1>1. CASE DispatcherBegins(d)
  <2>1. wake' \in 0 .. MaxWake
    BY <1>1, MaxWakeAssumption DEF DispatcherBegins, TypeOK
  <2>2. QED
    BY <2>1, <1>0, <1>1 DEF DispatcherBegins, TypeOK, registry, queueVars, edits, items, outcome, Holding
<1>2. CASE DispatcherLooks(d)
  BY <1>0, <1>2 DEF DispatcherLooks, TypeOK, registry, queueVars, edits, items, outcome, waking, Holding
<1>3. CASE DispatchFirstDispatchable(d)
  <2>1. CASE Ordinary = {} /\ Moves(d, "pop", "idle") /\ UNCHANGED <<queued, input, chatPolicy>>
    BY <2>1, <1>0, <1>3 DEF DispatchFirstDispatchable, TypeOK, registry, edits, items, outcome, waking, Holding
  <2>2. ASSUME NEW i \in Ordinary, Takes(d, i), queued' = queued \ {i}
        PROVE  TypeInv'
    <3>1. i \in Items /\ i \in queued /\ policy[i] \in Policies /\ policy[i] # "guide"
      BY DEF Ordinary, TypeOK
    <3>2. Entry(policy[i]) \in {"check", "interrupt"}
      BY <3>1 DEF Entry, Policies
    <3>3. i \in accepted
      BY <3>1
    <3>4. QED
      BY <2>2, <3>1, <3>2, <3>3, <1>0, <1>3 DEF DispatchFirstDispatchable, Takes, TypeOK, registry, edits, items, outcome, waking, Holding
  <2>3. QED
    BY <2>1, <2>2, <1>3 DEF DispatchFirstDispatchable
<1>4. CASE DispatchFails(d)
  <2>1. CASE UNCHANGED <<queued, lost>>
    BY <2>1, <1>0, <1>4 DEF DispatchFails, TypeOK, registry, edits, outcome, Holding
  <2>2. ASSUME NEW i \in Ordinary, queued' = queued \ {i}, lost' = lost \cup {i} PROVE TypeInv'
    BY <2>2, <1>0, <1>4 DEF DispatchFails, Ordinary, TypeOK, registry, edits, outcome, Holding
  <2>3. QED
    BY <2>1, <2>2, <1>4 DEF DispatchFails
<1>5. CASE DispatchSucceeded(d)
  <2>1. wake' \in 0 .. MaxWake /\ unserved' \in BOOLEAN
    BY <1>w, <1>5 DEF DispatchSucceeded, waking, TypeOK
  <2>2. QED
    BY <2>1, <1>0, <1>5 DEF DispatchSucceeded, TypeOK, registry, queueVars, edits, items, outcome, Holding
<1>6. CASE DispatchRestores(d)
  <2>1. input[d] \in Items
    BY <1>6 DEF DispatchRestores, TypeOK
  <2>2. QED
    BY <2>1, <1>0, <1>6 DEF DispatchRestores, TypeOK, registry, edits, outcome, Holding
<1>7. QED
  BY <1>1, <1>2, <1>3, <1>4, <1>5, <1>6 DEF DispatcherStep

\* The edits of the queue keep the types.
LEMMA TypeQueue ==
    ASSUME TypeInv, QueueStep PROVE TypeInv'
<1> USE DEF TypeInv, OwnInput, DispatcherInput, KnownItems, callVars
<1>w. Wake => wake' \in 0 .. MaxWake /\ unserved' \in BOOLEAN
  BY WakeTypes
<1>1. ASSUME NEW i \in Items, NEW p \in Choices \cap Policies, Enqueue(i, p) PROVE TypeInv'
  BY <1>1, <1>w DEF Enqueue, WakesUnlessUnread, TypeOK, registry, edits, outcome
<1>2. ASSUME NEW i \in Items, Delete(i) PROVE TypeInv'
  BY <1>2 DEF Delete, TypeOK, registry, edits, outcome, waking
<1>3. ASSUME NEW i \in Items, guideInputQueueItem(i) PROVE TypeInv'
  BY <1>3 DEF guideInputQueueItem, TypeOK, registry, queueVars, items, outcome, waking
<1>4. CASE SendInputQueueSnapshot
  BY <1>4, <1>w DEF SendInputQueueSnapshot, TypeOK, registry, queueVars, edits, items, outcome
<1>5. CASE GuideLooks
  BY <1>5 DEF GuideLooks, NoEdit, TypeOK, registry, queueVars, items, outcome, waking
<1>6. CASE UpdateDeliveryPolicy
  <2>1. wake' \in 0 .. MaxWake /\ unserved' \in BOOLEAN
    BY <1>w, <1>6 DEF UpdateDeliveryPolicy, WakesUnlessUnread, waking, TypeOK
  <2>2. policy' \in [Items -> Policies]
    BY <1>6 DEF UpdateDeliveryPolicy, TypeOK, Policies
  <2>3. QED
    BY <2>1, <2>2, <1>6 DEF UpdateDeliveryPolicy, UpdateKeeps, NoEdit, TypeOK, registry, items, outcome
<1>7. QED
  BY <1>1, <1>2, <1>3, <1>4, <1>5, <1>6 DEF QueueStep

\* Runners and hooks keep the types.
LEMMA TypeRound ==
    ASSUME TypeInv,
           \/ \E r \in Inputs : RunnerStep(r)
           \/ GuidanceHook \/ inputQueueGuidanceHook \/ DispatchGuidance
    PROVE  TypeInv'
<1> USE DEF TypeInv, OwnInput, DispatcherInput, KnownItems
<1>1. ASSUME NEW r \in Inputs, RunnerEnds(r) PROVE TypeInv'
  BY <1>1 DEF RunnerEnds, MarkRoundFinished, TypeOK, queueVars, edits, items, outcome, waking
<1>2. ASSUME NEW r \in Inputs, dispatchNextInputQueueItem(r) PROVE TypeInv'
  <2>1. wake' \in 0 .. MaxWake /\ unserved' \in BOOLEAN
    BY <1>2, WakeTypes DEF dispatchNextInputQueueItem
  <2>2. QED
    BY <2>1, <1>2 DEF dispatchNextInputQueueItem, TypeOK, queueVars, callVars, edits, items, outcome
<1>3. CASE GuidanceHook
  BY <1>3 DEF GuidanceHook, Reaches, TypeOK, queueVars, callVars, edits, items, waking
<1>4. CASE inputQueueGuidanceHook
  BY <1>4 DEF inputQueueGuidanceHook, TypeOK, registry, queueVars, callVars, items, outcome, waking
<1>5. CASE DispatchGuidance
  BY <1>5 DEF DispatchGuidance, Guidance, Reaches, TypeOK, registry, callVars, waking
<1>6. QED
  BY <1>1, <1>2, <1>3, <1>4, <1>5 DEF RunnerStep

LEMMA TypeNext == TypeInv /\ [Next]_vars => TypeInv'
<1> SUFFICES ASSUME TypeInv, [Next]_vars PROVE TypeInv'
  OBVIOUS
<1>1. ASSUME NEW m \in Messages, NEW p \in Choices, Receive(m, p) PROVE TypeInv'
  <2> USE InputsAssumption DEF TypeInv, OwnInput, DispatcherInput, KnownItems
  <2>1. p \in Policies \cup {"stop"} /\ Entry(p) \in PCs
    BY ChoicesAssumption DEF Entry, Policies, PCs
  <2>2. QED
    BY <1>1, <2>1 DEF Receive, TypeOK, registry, queueVars, edits, items, outcome, waking
<1>2. ASSUME NEW m \in Messages, MessageEnds(m) PROVE TypeInv'
  <2> USE InputsAssumption DEF TypeInv, OwnInput, DispatcherInput, KnownItems
  <2>1. unserved' \in BOOLEAN
    <3>1. unserved' = unserved \/ unserved' = TRUE
      BY <1>2 DEF MessageEnds
    <3>2. unserved \in BOOLEAN
      BY DEF TypeOK
    <3>3. QED
      BY <3>1, <3>2, Zenon
  <2>2. pc' = [pc EXCEPT ![m] = "done"]
    BY <1>2 DEF MessageEnds
  <2>3. QED
    BY <1>2, <2>1, <2>2 DEF MessageEnds, TypeOK, PCs, registry, queueVars, edits, items, outcome
<1>3. ASSUME NEW c \in Callers, InterruptGivesUp(c) PROVE TypeInv'
  BY <1>3, InputsAssumption
     DEF InterruptGivesUp, TypeInv, OwnInput, DispatcherInput, KnownItems, TypeOK, PCs,
         registry, queueVars, edits, items, outcome, waking, Holding
<1>4. CASE UNCHANGED vars
  BY <1>4 DEF vars, TypeInv, OwnInput, DispatcherInput, KnownItems, TypeOK,
              registry, queueVars, callVars, edits, items, outcome, waking
<1>5. QED
  BY <1>1, <1>2, <1>3, <1>4, TypeChat, TypeDispatcher, TypeQueue, TypeRound DEF Next, CallStep

LEMMA TypeInit == Init => TypeInv
<1> SUFFICES ASSUME Init PROVE TypeInv
  OBVIOUS
<1>1. TypeOK
  <2>1. input \in [Callers -> Inputs \cup {NoInput}] /\ pc \in [Callers -> PCs]
    BY DEF Init, PCs
  <2>2. client \in BOOLEAN /\ unserved \in BOOLEAN
    BY Zenon DEF Init
  <2>3. wake \in 0 .. MaxWake
    BY MaxWakeAssumption DEF Init
  <2>4. editing \in [item : Items \cup {NoInput}, at : {"idle", "selected", "guide", "queue"}]
    BY DEF Init, NoEdit
  <2>5. /\ policy \in [Items -> Policies] /\ rpc \in [Inputs -> {"none", "executing", "finished", "ended"}]
        /\ chatPolicy \in [Callers -> Policies \cup {"stop"}]
        /\ wanted \in [Callers -> SUBSET Inputs]
        /\ delivered \in [Inputs -> 0 .. 2]
    BY DEF Init, Policies
  <2>6. QED
    BY <2>1, <2>2, <2>3, <2>4, <2>5 DEF Init, TypeOK
<1>2. QED
  BY <1>1, InputsAssumption DEF Init, TypeInv, OwnInput, DispatcherInput, KnownItems

\* Type correctness of the session.
THEOREM TypeCorrect == Spec => []TypeOK
<1>1. TypeInv => TypeOK
  BY DEF TypeInv
<1>2. QED
  BY <1>1, TypeInit, TypeNext, PTL DEF Spec

-----------------------------------------------------------------------------
\* A step that neither registers a round, nor ends a runner, nor leaves
\* "started", keeps RegisteredRoundEnds.
LEMMA RoundsKept ==
    ASSUME RegisteredRoundEnds, running' \subseteq running, UNCHANGED rpc,
           \A c \in Callers : pc[c] = "started" => pc'[c] = "started" /\ input'[c] = input[c]
    PROVE  RegisteredRoundEnds'
BY DEF RegisteredRoundEnds

LEMMA RoundsChat ==
    ASSUME TypeInv, RegisteredRoundEnds, NEW c \in Callers, ChatStep(c)
    PROVE  RegisteredRoundEnds'
<1> USE DEF TypeInv
<1>0. pc \in [Callers -> PCs] /\ input \in [Callers -> Inputs \cup {NoInput}]
  BY DEF TypeOK
<1>1. CASE PreparationFails(c)
  BY <1>0, <1>1, RoundsKept DEF PreparationFails, registry
<1>2. CASE guideRunningInput(c)
  BY <1>0, <1>2, RoundsKept DEF guideRunningInput
<1>3. CASE queueRunningInput(c)
  BY <1>0, <1>3, RoundsKept DEF queueRunningInput, registry
<1>4. CASE SendContentToRunningRound(c)
  BY <1>0, <1>4, RoundsKept DEF SendContentToRunningRound, registry
<1>5. CASE RecordSent(c)
  BY <1>0, <1>5, RoundsKept DEF RecordSent, registry
<1>6. CASE interruptSession(c)
  BY <1>0, <1>6, RoundsKept DEF interruptSession, registry
<1>7. CASE InterruptAnswered(c)
  BY <1>0, <1>7, RoundsKept DEF InterruptAnswered, registry
<1>8. CASE InterruptReturns(c)
  BY <1>0, <1>8, RoundsKept DEF InterruptReturns, registry
<1>9. CASE CleanUpStaleRuntime(c)
  BY <1>0, <1>9, RoundsKept DEF CleanUpStaleRuntime, CloseSession
<1>10. CASE RetryWithoutResume(c)
  BY <1>0, <1>10, RoundsKept DEF RetryWithoutResume, CloseSession
<1>11. CASE ensureClient(c)
  BY <1>0, <1>11, RoundsKept DEF ensureClient
<1>12. CASE StartRound(c)
  BY <1>0, <1>12 DEF StartRound, RegisteredRoundEnds, PCs
<1>13. CASE recordRoundMarker(c)
  BY <1>0, <1>13 DEF recordRoundMarker, MarkRoundFinished, RegisteredRoundEnds, TypeOK
<1>14. QED
  BY <1>1, <1>2, <1>3, <1>4, <1>5, <1>6, <1>7, <1>8, <1>9, <1>10, <1>11, <1>12, <1>13 DEF ChatStep

LEMMA RoundsNext ==
    TypeInv /\ RegisteredRoundEnds /\ [Next]_vars => RegisteredRoundEnds'
<1> SUFFICES ASSUME TypeInv, RegisteredRoundEnds, [Next]_vars PROVE RegisteredRoundEnds'
  OBVIOUS
<1> USE DEF TypeInv
<1>0. pc \in [Callers -> PCs] /\ input \in [Callers -> Inputs \cup {NoInput}]
  BY DEF TypeOK
<1>1. ASSUME NEW m \in Messages, NEW p \in Choices, Receive(m, p) PROVE RegisteredRoundEnds'
  BY <1>0, <1>1, RoundsKept DEF Receive, registry
<1>2. ASSUME NEW m \in Messages, MessageEnds(m) PROVE RegisteredRoundEnds'
  BY <1>0, <1>2, RoundsKept DEF MessageEnds, registry
<1>3. ASSUME NEW c \in Callers, InterruptGivesUp(c) PROVE RegisteredRoundEnds'
  BY <1>0, <1>3, RoundsKept DEF InterruptGivesUp, registry
<1>4. ASSUME NEW d \in Dispatchers, DispatcherStep(d) PROVE RegisteredRoundEnds'
  BY <1>0, <1>4, RoundsKept
     DEF DispatcherStep, DispatcherBegins, DispatcherLooks, DispatchFirstDispatchable, Takes,
         DispatchFails, DispatchSucceeded, DispatchRestores, registry
<1>5. ASSUME NEW r \in Inputs, RunnerEnds(r) PROVE RegisteredRoundEnds'
  BY <1>5 DEF RunnerEnds, MarkRoundFinished, RegisteredRoundEnds, TypeOK
<1>6. ASSUME NEW r \in Inputs, dispatchNextInputQueueItem(r) PROVE RegisteredRoundEnds'
  BY <1>6 DEF dispatchNextInputQueueItem, RegisteredRoundEnds, TypeOK, callVars
<1>7. CASE GuidanceHook \/ inputQueueGuidanceHook \/ DispatchGuidance
  BY <1>7, RoundsKept DEF GuidanceHook, inputQueueGuidanceHook, DispatchGuidance, registry, callVars
<1>8. CASE QueueStep
  BY <1>8, RoundsKept
     DEF QueueStep, Enqueue, Delete, guideInputQueueItem, SendInputQueueSnapshot, GuideLooks,
         UpdateDeliveryPolicy, registry, callVars
<1>9. CASE UNCHANGED vars
  BY <1>9, RoundsKept DEF vars, registry, callVars
<1>10. QED
  BY <1>1, <1>2, <1>3, <1>4, <1>5, <1>6, <1>7, <1>8, <1>9, RoundsChat DEF Next, CallStep, RunnerStep

\* A registered round always has a runner, or a HandleChat about to start or to
\* finish it, whichever calls fail and whoever closes the session.
THEOREM RoundsEnd == Spec => []RegisteredRoundEnds
<1>1. Init => RegisteredRoundEnds
  BY DEF Init, RegisteredRoundEnds
<1>2. QED
  BY <1>1, TypeInit, TypeNext, RoundsNext, PTL DEF Spec

-----------------------------------------------------------------------------
\* Somebody is still to look at the queue.
Looker ==
    \/ wake > 0
    \/ \E r \in Inputs : rpc[r] \in {"executing", "finished"}
    \/ \E d \in Dispatchers : pc[d] # "idle"
    \/ \E m \in Messages : pc[m] \in {"started", "failed"}
    \/ unserved

LEMMA WakeLooks == TypeOK /\ Wake => wake' > 0
BY MaxWakeAssumption DEF TypeOK, Wake

\* While a round is registered somebody looks at the queue when it ends.
LEMMA RegisteredLooks ==
    ASSUME TypeInv, RegisteredRoundEnds, running # {}
    PROVE  \/ \E r \in Inputs : rpc[r] = "executing"
           \/ \E c \in Callers : pc[c] = "started"
BY DEF TypeInv, TypeOK, RegisteredRoundEnds

LEMMA LooksChat ==
    ASSUME TypeInv, SomebodyLooks, NEW c \in Callers, ChatStep(c)
    PROVE  SomebodyLooks'
<1> USE DEF TypeInv, SomebodyLooks, Ordinary
<1>0. pc \in [Callers -> PCs]
  BY DEF TypeOK
<1>1. CASE PreparationFails(c)
  BY <1>0, <1>1 DEF PreparationFails, registry, queueVars, waking
<1>2. CASE guideRunningInput(c)
  BY <1>0, <1>2 DEF guideRunningInput, queueVars, waking
<1>3. CASE queueRunningInput(c)
  BY <1>0, <1>3 DEF queueRunningInput, registry, queueVars, waking
<1>4. CASE SendContentToRunningRound(c)
  BY <1>0, <1>4 DEF SendContentToRunningRound, registry, queueVars, waking
<1>5. CASE RecordSent(c)
  BY <1>0, <1>5 DEF RecordSent, registry, queueVars, waking
<1>6. CASE interruptSession(c)
  BY <1>0, <1>6 DEF interruptSession, AfterInterrupt, registry, queueVars, waking
<1>7. CASE InterruptAnswered(c)
  BY <1>0, <1>7 DEF InterruptAnswered, registry, queueVars, waking
<1>8. CASE InterruptReturns(c)
  BY <1>0, <1>8 DEF InterruptReturns, AfterInterrupt, registry, queueVars, waking
<1>9. CASE CleanUpStaleRuntime(c)
  BY <1>0, <1>9 DEF CleanUpStaleRuntime, AfterInterrupt, queueVars, waking
<1>10. CASE RetryWithoutResume(c)
  BY <1>0, <1>10 DEF RetryWithoutResume, queueVars, waking
<1>11. CASE ensureClient(c)
  BY <1>0, <1>11 DEF ensureClient, queueVars, waking
<1>12. CASE StartRound(c)
  BY <1>0, <1>12 DEF StartRound, queueVars, waking
<1>13. CASE recordRoundMarker(c)
  <2>1. CASE pc'[c] = "ok"
    <3>1. input[c] \in Inputs /\ rpc'[input[c]] = "executing"
      BY <1>0, <1>13, <2>1 DEF recordRoundMarker, TypeOK, OwnInput, DispatcherInput, Holding
    <3>2. QED
      BY <3>1
  <2>2. CASE pc'[c] = "failed"
    BY <1>0, <1>13, <2>2
  <2>3. QED
    BY <1>0, <1>13, <2>1, <2>2 DEF recordRoundMarker
<1>14. QED
  BY <1>1, <1>2, <1>3, <1>4, <1>5, <1>6, <1>7, <1>8, <1>9, <1>10, <1>11, <1>12, <1>13 DEF ChatStep

LEMMA LooksDispatcher ==
    ASSUME TypeInv, RegisteredRoundEnds, SomebodyLooks, NEW d \in Dispatchers, DispatcherStep(d)
    PROVE  SomebodyLooks'
<1> USE DEF SomebodyLooks, Ordinary
<1>0. pc \in [Callers -> PCs] /\ TypeOK
  BY DEF TypeInv, TypeOK
\* A dispatcher that finds a round registered leaves the queue to it.
<1>a. ASSUME running # {}, pc[d] # "started", UNCHANGED rpc,
             \E x \in PCs : pc' = [pc EXCEPT ![d] = x]
      PROVE  Looker'
  <2>1. CASE \E r \in Inputs : rpc[r] = "executing"
    BY <1>a, <2>1 DEF Looker
  <2>2. CASE \E c \in Callers : pc[c] = "started"
    BY <1>0, <1>a, <2>2 DEF Looker
  <2>3. QED
    BY <1>a, <2>1, <2>2, RegisteredLooks
<1>1. CASE DispatcherBegins(d)
  BY <1>0, <1>1 DEF DispatcherBegins
<1>2. CASE DispatcherLooks(d)
  <2>1. CASE running = {}
    BY <1>0, <1>2, <2>1 DEF DispatcherLooks
  <2>2. CASE running # {}
    BY <1>0, <1>2, <2>2, <1>a DEF DispatcherLooks, Looker, registry, PCs
  <2>3. QED
    BY <2>1, <2>2
<1>3. CASE DispatchFirstDispatchable(d)
  <2>1. CASE Ordinary = {}
    BY <1>3, <2>1 DEF DispatchFirstDispatchable
  <2>2. ASSUME NEW i \in Ordinary, Takes(d, i) PROVE SomebodyLooks'
    BY <1>0, <2>2 DEF Takes, Entry
  <2>3. QED
    BY <1>3, <2>1, <2>2 DEF DispatchFirstDispatchable
<1>4. CASE DispatchFails(d)
  BY <1>4 DEF DispatchFails
<1>5. CASE DispatchSucceeded(d)
  <2>1. CASE running = {}
    BY <1>0, <1>5, <2>1, WakeLooks DEF DispatchSucceeded
  <2>2. CASE running # {}
    BY <1>0, <1>5, <2>2, <1>a DEF DispatchSucceeded, Looker, registry, PCs
  <2>3. QED
    BY <2>1, <2>2
<1>6. CASE DispatchRestores(d)
  BY <1>6 DEF DispatchRestores
<1>7. QED
  BY <1>1, <1>2, <1>3, <1>4, <1>5, <1>6 DEF DispatcherStep

LEMMA LooksQueue ==
    ASSUME TypeInv, SomebodyLooks, QueueStep PROVE SomebodyLooks'
<1> USE DEF SomebodyLooks, Ordinary
<1>0. TypeOK
  BY DEF TypeInv
<1>1. ASSUME NEW i \in Items, NEW p \in Choices \cap Policies, Enqueue(i, p) PROVE SomebodyLooks'
  BY <1>0, <1>1, WakeLooks DEF Enqueue, WakesUnlessUnread
<1>2. ASSUME NEW i \in Items, Delete(i) PROVE SomebodyLooks'
  BY <1>2 DEF Delete, registry, callVars, waking
<1>3. ASSUME NEW i \in Items, guideInputQueueItem(i) PROVE SomebodyLooks'
  BY <1>3 DEF guideInputQueueItem, registry, queueVars, callVars, waking
<1>4. CASE SendInputQueueSnapshot
  BY <1>0, <1>4, WakeLooks DEF SendInputQueueSnapshot
<1>5. CASE GuideLooks
  BY <1>5 DEF GuideLooks, registry, queueVars, callVars, waking
<1>6. CASE UpdateDeliveryPolicy
  <2>1. CASE editing.at = "queue"
    BY <1>0, <1>6, <2>1, WakeLooks DEF UpdateDeliveryPolicy, WakesUnlessUnread
  <2>2. CASE editing.at = "guide"
    <3>1. queued' = queued /\ (\A i \in queued : policy'[i] # "guide" => policy[i] # "guide")
      BY <1>0, <1>6, <2>2 DEF UpdateDeliveryPolicy, UpdateKeeps, TypeOK
    <3>2. UNCHANGED <<wake, unserved, rpc, pc>>
      BY <1>6, <2>2 DEF UpdateDeliveryPolicy, registry, callVars, waking
    <3>3. QED
      BY <3>1, <3>2
  <2>3. QED
    BY <1>6, <2>1, <2>2 DEF UpdateDeliveryPolicy
<1>7. QED
  BY <1>1, <1>2, <1>3, <1>4, <1>5, <1>6 DEF QueueStep

LEMMA LooksNext ==
    TypeInv /\ RegisteredRoundEnds /\ SomebodyLooks /\ [Next]_vars => SomebodyLooks'
<1> SUFFICES ASSUME TypeInv, RegisteredRoundEnds, SomebodyLooks, [Next]_vars
             PROVE  SomebodyLooks'
  OBVIOUS
<1> USE DEF SomebodyLooks, Ordinary
<1>0. pc \in [Callers -> PCs] /\ TypeOK
  BY DEF TypeInv, TypeOK
<1>1. ASSUME NEW m \in Messages, NEW p \in Choices, Receive(m, p) PROVE SomebodyLooks'
  BY <1>0, <1>1, InputsAssumption DEF Receive, registry, queueVars, waking
<1>2. ASSUME NEW m \in Messages, MessageEnds(m) PROVE SomebodyLooks'
  BY <1>0, <1>2, InputsAssumption DEF MessageEnds, registry, queueVars
<1>3. ASSUME NEW c \in Callers, InterruptGivesUp(c) PROVE SomebodyLooks'
  BY <1>0, <1>3 DEF InterruptGivesUp, registry, queueVars, waking
<1>4. ASSUME NEW r \in Inputs, RunnerEnds(r) PROVE SomebodyLooks'
  BY <1>0, <1>4 DEF RunnerEnds, TypeOK
<1>5. ASSUME NEW r \in Inputs, dispatchNextInputQueueItem(r) PROVE SomebodyLooks'
  BY <1>0, <1>5, WakeLooks DEF dispatchNextInputQueueItem
<1>6. CASE GuidanceHook
  BY <1>6 DEF GuidanceHook, queueVars, callVars, waking
<1>7. CASE inputQueueGuidanceHook
  BY <1>7 DEF inputQueueGuidanceHook, registry, queueVars, callVars, waking
<1>8. CASE DispatchGuidance
  BY <1>8 DEF DispatchGuidance, registry, callVars, waking
<1>9. CASE UNCHANGED vars
  BY <1>9 DEF vars, registry, queueVars, callVars, waking
<1>10. QED
  BY <1>1, <1>2, <1>3, <1>4, <1>5, <1>6, <1>7, <1>8, <1>9,
     LooksChat, LooksDispatcher, LooksQueue DEF Next, CallStep, RunnerStep

\* An input that waits is not forgotten: unless a call has failed, a dispatcher
\* or the runner of a round is still to look at the queue.
THEOREM QueueIsWatched == Spec => []SomebodyLooks
<1>1. Init => SomebodyLooks
  BY DEF Init, SomebodyLooks, Ordinary
<1>2. Init => RegisteredRoundEnds
  BY DEF Init, RegisteredRoundEnds
<1>3. QED
  BY <1>1, <1>2, TypeInit, TypeNext, RoundsNext, LooksNext, PTL DEF Spec

-----------------------------------------------------------------------------
\* The places of an item exclude each other, and one of them has it.
Held(d, i) == input[d] = i /\ pc[d] \in Holding

OnePlace(i) ==
    /\ i \in queued \/ delivered[i] > 0 \/ i \in deleted \/ i \in lost
          \/ \E d \in Dispatchers : Held(d, i)
    /\ i \in queued => delivered[i] = 0 /\ i \notin deleted /\ i \notin lost
    /\ delivered[i] > 0 => i \notin deleted /\ i \notin lost
    /\ i \in deleted => i \notin lost
    /\ \A d \in Dispatchers : Held(d, i) =>
          i \notin queued /\ delivered[i] = 0 /\ i \notin deleted /\ i \notin lost
    /\ \A d, e \in Dispatchers : Held(d, i) /\ Held(e, i) => d = e
    /\ delivered[i] < 2

ItemInv ==
    /\ \A d \in Dispatchers : chatPolicy[d] # "stop"
    /\ \A i \in Items : delivered[i] > 0 => i \in accepted
    /\ \A i \in accepted \ unrecorded : OnePlace(i)

LEMMA OnePlaceExact == TypeInv /\ ItemInv => EachItemOnce
<1> SUFFICES ASSUME TypeInv, ItemInv, NEW i \in accepted \ unrecorded
             PROVE  /\ \E place \in Places : \A p \in Places : At(i, p) <=> p = place
                    /\ \A d, e \in HeldBy(i) : d = e
                    /\ delivered[i] < 2
  BY DEF EachItemOnce
<1>1. OnePlace(i) /\ delivered[i] \in 0 .. 2
  BY DEF ItemInv, TypeInv, TypeOK
<1>2. /\ At(i, "queue") <=> i \in queued
      /\ At(i, "dispatcher") <=> \E d \in Dispatchers : Held(d, i)
      /\ At(i, "agent") <=> delivered[i] > 0
      /\ At(i, "deleted") <=> i \in deleted
      /\ At(i, "lost") <=> i \in lost
  BY DEF At, HeldBy, Held
<1>3. \E place \in Places : \A p \in Places : At(i, p) <=> p = place
  <2>1. CASE i \in queued
    BY <2>1, <1>1, <1>2 DEF OnePlace, Places
  <2>2. CASE delivered[i] > 0
    BY <2>2, <1>1, <1>2 DEF OnePlace, Places
  <2>3. CASE i \in deleted
    BY <2>3, <1>1, <1>2 DEF OnePlace, Places
  <2>4. CASE i \in lost
    BY <2>4, <1>1, <1>2 DEF OnePlace, Places
  <2>5. CASE \E d \in Dispatchers : Held(d, i)
    BY <2>5, <1>1, <1>2 DEF OnePlace, Places
  <2>6. QED
    BY <1>1, <2>1, <2>2, <2>3, <2>4, <2>5 DEF OnePlace
<1>4. QED
  BY <1>1, <1>3 DEF OnePlace, HeldBy, Held

\* A step that leaves the items where they are.
LEMMA ItemsKept ==
    ASSUME ItemInv, UNCHANGED <<queued, deleted, lost, delivered, accepted>>,
           unrecorded \subseteq unrecorded',
           \A d \in Dispatchers : chatPolicy'[d] # "stop",
           \A d \in Dispatchers, i \in accepted :
              (input'[d] = i /\ pc'[d] \in Holding) <=> (input[d] = i /\ pc[d] \in Holding)
    PROVE  ItemInv'
BY DEF ItemInv, OnePlace, Held

\* A step of HandleChat that does not reach the agent leaves its item with
\* its dispatcher.
LEMMA ItemsMoved ==
    ASSUME TypeInv, ItemInv, NEW c \in Callers, NEW x \in PCs,
           pc' = [pc EXCEPT ![c] = x], UNCHANGED <<input, chatPolicy>>,
           c \in Messages \/ (pc[c] \in Holding <=> x \in Holding),
           UNCHANGED <<queued, items, delivered>>,
           unrecorded \subseteq unrecorded'
    PROVE  ItemInv'
<1>1. \A d \in Dispatchers : pc'[d] \in Holding <=> pc[d] \in Holding
  BY InputsAssumption DEF TypeInv, TypeOK
<1>2. QED
  BY <1>1, ItemsKept DEF ItemInv, items

\* A dispatcher's input that reaches the agent was with nobody else.
LEMMA ItemsReach ==
    ASSUME TypeInv, ItemInv, NEW c \in Callers, NEW x \in {"sent", "ok"},
           pc[c] \in {"send", "started"},
           pc' = [pc EXCEPT ![c] = x], UNCHANGED <<input, chatPolicy>>,
           Reaches({input[c]}), UNCHANGED <<queued, items, unrecorded>>
    PROVE  ItemInv'
<1> USE DEF TypeInv, ItemInv
<1>0. pc \in [Callers -> PCs] /\ delivered \in [Inputs -> 0 .. 2]
  BY DEF TypeOK
<1>1. CASE c \in Messages
  <2>1. \A i \in Items : delivered'[i] = delivered[i]
    BY <1>0, <1>1, InputsAssumption DEF OwnInput, Reaches
  <2>2. \A d \in Dispatchers : pc'[d] = pc[d]
    BY <1>0, <1>1, InputsAssumption
  <2>3. accepted \subseteq Items
    BY DEF TypeOK
  <2>4. QED
    BY <2>1, <2>2, <2>3 DEF OnePlace, Held, items
<1>2. CASE c \in Dispatchers
  <2>1. input[c] \in accepted /\ accepted \subseteq Items
    BY <1>2 DEF DispatcherInput, Holding, TypeOK
  <2>2. /\ \A i \in Items \ {input[c]} : delivered'[i] = delivered[i]
        /\ delivered[input[c]] < 2 => delivered'[input[c]] = delivered[input[c]] + 1
        /\ delivered'[input[c]] > 0
    BY <1>0, <2>1 DEF Reaches
  <2>3. /\ \A d \in Dispatchers \ {c} : pc'[d] = pc[d]
        /\ pc'[c] \notin Holding /\ pc[c] \in Holding
    BY <1>0, <1>2 DEF Holding
  <2>4. ASSUME NEW i \in accepted \ unrecorded, i # input[c] PROVE OnePlace(i)'
    <3>1. OnePlace(i) /\ delivered'[i] = delivered[i]
      BY <2>1, <2>2, <2>4
    <3>2. \A d \in Dispatchers : Held(d, i)' <=> Held(d, i)
      BY <2>3, <2>4 DEF Held
    <3>3. QED
      BY <3>1, <3>2 DEF OnePlace, items
  <2>5. ASSUME input[c] \notin unrecorded PROVE OnePlace(input[c])'
    <3> DEFINE i == input[c]
    <3>1. OnePlace(i) /\ Held(c, i)
      BY <1>2, <2>1, <2>3, <2>5 DEF Held
    <3>2. ASSUME NEW d \in Dispatchers, Held(d, i)' PROVE FALSE
      <4>1. d # c
        BY <3>2, <2>3 DEF Held
      <4>2. Held(d, i)
        BY <3>2, <4>1, <2>3 DEF Held
      <4>3. QED
        BY <4>1, <4>2, <3>1, <1>2 DEF OnePlace
    <3>3. delivered[i] = 0 /\ delivered'[i] = 1
      BY <1>2, <3>1, <2>2 DEF OnePlace
    <3>4. i' = i
      OBVIOUS
    <3>5. QED
      BY <1>2, <3>1, <3>2, <3>3, <3>4 DEF OnePlace, items
  <2>6. \A i \in accepted \ unrecorded : OnePlace(i)'
    BY <2>4, <2>5
  <2>7. QED
    BY <2>1, <2>2, <2>6 DEF items
<1>3. QED
  BY <1>1, <1>2

LEMMA ItemsChat ==
    ASSUME TypeInv, ItemInv, NEW c \in Callers, ChatStep(c) PROVE ItemInv'
<1>0. \/ c \in Messages
      \/ c \in Dispatchers /\ chatPolicy[c] # "stop" /\ pc[c] # "guide"
  BY DEF ItemInv, TypeInv, DispatcherInput, Holding
<1>1. CASE PreparationFails(c)
  BY <1>1, ItemsMoved DEF PreparationFails, registry, queueVars, outcome, PCs, Holding
<1>2. CASE guideRunningInput(c)
  BY <1>0, <1>2, ItemsMoved DEF guideRunningInput, queueVars, outcome, PCs, Holding
<1>3. CASE queueRunningInput(c)
  BY <1>3, ItemsMoved DEF queueRunningInput, registry, queueVars, outcome, PCs, Holding
<1>4. CASE SendContentToRunningRound(c)
  <2>1. CASE pc' = [pc EXCEPT ![c] = "sent"] /\ Reaches({input[c]})
    BY <1>4, <2>1, ItemsReach DEF SendContentToRunningRound, queueVars
  <2>2. CASE pc' = [pc EXCEPT ![c] = "client"] /\ UNCHANGED delivered
    BY <1>4, <2>2, ItemsMoved DEF SendContentToRunningRound, queueVars, PCs, Holding
  <2>3. CASE pc' = [pc EXCEPT ![c] = "failed"] /\ UNCHANGED delivered
    BY <1>4, <2>3, ItemsMoved DEF SendContentToRunningRound, queueVars, PCs, Holding
  <2>4. QED
    BY <1>4, <2>1, <2>2, <2>3 DEF SendContentToRunningRound
<1>5. CASE RecordSent(c)
  <2>1. CASE pc' = [pc EXCEPT ![c] = "ok"] /\ UNCHANGED unrecorded
    BY <1>5, <2>1, ItemsMoved DEF RecordSent, queueVars, PCs, Holding
  <2>2. CASE pc' = [pc EXCEPT ![c] = "failed"] /\ unrecorded' = unrecorded \cup {input[c]}
    <3>1. UNCHANGED <<queued, items, delivered, input, chatPolicy>>
      BY <1>5 DEF RecordSent, queueVars
    <3>2. \A d \in Dispatchers, i \in accepted \ unrecorded' : Held(d, i)' <=> Held(d, i)
      BY <2>2, <3>1 DEF Held, TypeInv, TypeOK
    <3>3. QED
      BY <2>2, <3>1, <3>2 DEF ItemInv, OnePlace, items
  <2>3. QED
    BY <1>5, <2>1, <2>2 DEF RecordSent
<1>6. CASE interruptSession(c)
  BY <1>0, <1>6, ItemsMoved DEF interruptSession, AfterInterrupt, queueVars, outcome, PCs, Holding
<1>7. CASE InterruptAnswered(c)
  BY <1>7, ItemsMoved DEF InterruptAnswered, queueVars, outcome, PCs, Holding
<1>8. CASE InterruptReturns(c)
  BY <1>0, <1>8, ItemsMoved DEF InterruptReturns, AfterInterrupt, queueVars, outcome, PCs, Holding
<1>9. CASE CleanUpStaleRuntime(c)
  BY <1>0, <1>9, ItemsMoved DEF CleanUpStaleRuntime, AfterInterrupt, queueVars, outcome, PCs, Holding
<1>10. CASE RetryWithoutResume(c)
  BY <1>10, ItemsMoved DEF RetryWithoutResume, queueVars, outcome, PCs, Holding
<1>11. CASE ensureClient(c)
  BY <1>11, ItemsMoved DEF ensureClient, queueVars, outcome, PCs, Holding
<1>12. CASE StartRound(c)
  BY <1>12, ItemsMoved DEF StartRound, queueVars, outcome, PCs, Holding
<1>13. CASE recordRoundMarker(c)
  <2>1. CASE pc' = [pc EXCEPT ![c] = "ok"] /\ Reaches({input[c]})
    BY <1>13, <2>1, ItemsReach DEF recordRoundMarker, queueVars
  <2>2. CASE pc' = [pc EXCEPT ![c] = "failed"] /\ UNCHANGED delivered
    BY <1>13, <2>2, ItemsMoved DEF recordRoundMarker, queueVars, PCs, Holding
  <2>3. QED
    BY <1>13, <2>1, <2>2 DEF recordRoundMarker
<1>14. QED
  BY <1>1, <1>2, <1>3, <1>4, <1>5, <1>6, <1>7, <1>8, <1>9, <1>10, <1>11, <1>12, <1>13 DEF ChatStep

LEMMA ItemsDispatcher ==
    ASSUME TypeInv, ItemInv, NEW d \in Dispatchers, DispatcherStep(d) PROVE ItemInv'
<1>0. /\ pc \in [Callers -> PCs] /\ input \in [Callers -> Inputs \cup {NoInput}]
      /\ chatPolicy \in [Callers -> Policies \cup {"stop"}]
      /\ queued \subseteq Items /\ queued \subseteq accepted /\ accepted \subseteq Items
      /\ NoInput \notin Items
  BY InputsAssumption DEF TypeInv, TypeOK, KnownItems
<1>1. CASE DispatcherBegins(d)
  BY <1>1, ItemsMoved DEF DispatcherBegins, queueVars, outcome, PCs, Holding
<1>2. CASE DispatcherLooks(d)
  BY <1>2, ItemsMoved DEF DispatcherLooks, queueVars, outcome, PCs, Holding
<1>3. CASE DispatchFirstDispatchable(d)
  <2>1. CASE Moves(d, "pop", "idle") /\ UNCHANGED <<queued, input, chatPolicy>>
    BY <1>3, <2>1, ItemsMoved DEF DispatchFirstDispatchable, queueVars, outcome, PCs, Holding
  <2>2. ASSUME NEW i \in Ordinary, Takes(d, i), queued' = queued \ {i}
        PROVE  ItemInv'
    <3>1. i \in queued /\ policy[i] \in Policies /\ policy[i] # "guide"
      BY DEF Ordinary, TypeInv, TypeOK
    <3>2. Entry(policy[i]) \in Holding
      BY <3>1 DEF Entry, Policies, Holding
    <3>3. UNCHANGED <<accepted, deleted, lost, delivered, unrecorded>>
      BY <1>3 DEF DispatchFirstDispatchable, items, outcome
    <3>4. /\ pc[d] \notin Holding /\ pc'[d] \in Holding /\ input'[d] = i
          /\ \A e \in Dispatchers \ {d} : pc'[e] = pc[e] /\ input'[e] = input[e]
      BY <1>0, <2>2, <3>2 DEF Takes, Holding
    <3>5. \A e \in Dispatchers : chatPolicy'[e] # "stop"
      BY <1>0, <2>2, <3>1 DEF Takes, ItemInv, Policies
    <3>6. ASSUME NEW j \in accepted \ unrecorded, j # i PROVE OnePlace(j)'
      <4>1. OnePlace(j)
        BY DEF ItemInv
      <4>2. \A e \in Dispatchers : Held(e, j)' <=> Held(e, j)
        BY <3>4, <3>6 DEF Held
      <4>3. QED
        BY <2>2, <3>3, <3>6, <4>1, <4>2 DEF OnePlace
    <3>7. ASSUME i \notin unrecorded PROVE OnePlace(i)'
      <4>1. OnePlace(i)
        BY <1>0, <3>1, <3>7 DEF ItemInv
      <4>2. \A e \in Dispatchers : Held(e, i)' <=> e = d
        BY <3>1, <3>4, <4>1 DEF Held, OnePlace
      <4>3. QED
        BY <2>2, <3>1, <3>3, <4>1, <4>2 DEF OnePlace
    <3>8. QED
      BY <3>3, <3>5, <3>6, <3>7 DEF ItemInv
  <2>3. QED
    BY <1>3, <2>1, <2>2 DEF DispatchFirstDispatchable
<1>4. CASE DispatchFails(d)
  <2>1. CASE UNCHANGED <<queued, lost>>
    BY <1>4, <2>1, ItemsMoved DEF DispatchFails, items, outcome, PCs, Holding
  <2>2. ASSUME NEW i \in Ordinary, queued' = queued \ {i}, lost' = lost \cup {i}
        PROVE  ItemInv'
    <3>1. /\ UNCHANGED <<accepted, deleted, delivered, unrecorded, chatPolicy, input>>
          /\ pc[d] = "pop" /\ pc' = [pc EXCEPT ![d] = "idle"]
      BY <1>4 DEF DispatchFails, Moves, outcome
    <3>2. \A e \in Dispatchers, j \in Items : Held(e, j)' <=> Held(e, j)
      BY <1>0, <3>1 DEF Held, Holding
    <3>3. ASSUME NEW j \in accepted \ unrecorded PROVE OnePlace(j)'
      <4>1. OnePlace(j) /\ j \in Items /\ (i = j => j \in queued)
        BY <1>0 DEF ItemInv, Ordinary
      <4>2. \A e \in Dispatchers : Held(e, j)' <=> Held(e, j)
        BY <3>2, <4>1
      <4>3. QED
        BY <2>2, <3>1, <4>1, <4>2 DEF OnePlace
    <3>4. QED
      BY <3>1, <3>3 DEF ItemInv
  <2>3. QED
    BY <1>4, <2>1, <2>2 DEF DispatchFails
<1>5. CASE DispatchSucceeded(d)
  <2>1. /\ UNCHANGED <<queued, deleted, lost, delivered, accepted, unrecorded, chatPolicy>>
        /\ pc[d] = "ok" /\ pc' = [pc EXCEPT ![d] = "idle"]
        /\ input' = [input EXCEPT ![d] = NoInput]
    BY <1>5 DEF DispatchSucceeded, queueVars, items, outcome
  <2>2. \A e \in Dispatchers, i \in accepted :
           (input'[e] = i /\ pc'[e] \in Holding) <=> (input[e] = i /\ pc[e] \in Holding)
    BY <1>0, <2>1 DEF Holding
  <2>3. QED
    BY <2>1, <2>2, ItemsKept DEF ItemInv
<1>6. CASE DispatchRestores(d)
  <2>1. /\ UNCHANGED <<deleted, delivered, accepted, unrecorded, chatPolicy>>
        /\ pc[d] = "failed" /\ pc' = [pc EXCEPT ![d] = "idle"]
        /\ input' = [input EXCEPT ![d] = NoInput]
        /\ \/ queued' = queued \cup {input[d]} /\ lost' = lost
           \/ lost' = lost \cup {input[d]} /\ queued' = queued
    BY <1>6 DEF DispatchRestores, outcome
  <2>2. input[d] \in accepted /\ Held(d, input[d])
    BY <2>1 DEF TypeInv, DispatcherInput, Held, Holding
  <2>3. /\ ~ pc'[d] \in Holding
        /\ \A e \in Dispatchers \ {d} : pc'[e] = pc[e] /\ input'[e] = input[e]
    BY <1>0, <2>1 DEF Holding
  <2>4. ASSUME NEW i \in accepted \ unrecorded, i # input[d] PROVE OnePlace(i)'
    <3>1. OnePlace(i)
      BY DEF ItemInv
    <3>2. \A e \in Dispatchers : Held(e, i)' <=> Held(e, i)
      BY <2>3, <2>4 DEF Held
    <3>3. QED
      BY <2>1, <2>4, <3>1, <3>2 DEF OnePlace
  <2>5. ASSUME NEW i \in accepted \ unrecorded, i = input[d] PROVE OnePlace(i)'
    <3>1. OnePlace(i) /\ Held(d, i)
      BY <2>2, <2>5 DEF ItemInv
    <3>2. \A e \in Dispatchers : ~ Held(e, i)'
      BY <2>3, <3>1 DEF Held, OnePlace
    <3>3. QED
      BY <2>1, <2>5, <3>1, <3>2 DEF OnePlace
  <2>6. QED
    BY <2>1, <2>4, <2>5 DEF ItemInv
<1>7. QED
  BY <1>1, <1>2, <1>3, <1>4, <1>5, <1>6 DEF DispatcherStep

\* Delivery, edits, hooks, and what does not concern items.
LEMMA ItemsNext == TypeInv /\ ItemInv /\ [Next]_vars => ItemInv'
<1> SUFFICES ASSUME TypeInv, ItemInv, [Next]_vars PROVE ItemInv'
  OBVIOUS
<1>0. /\ pc \in [Callers -> PCs] /\ chatPolicy \in [Callers -> Policies \cup {"stop"}]
      /\ delivered \in [Inputs -> 0 .. 2]
      /\ queued \subseteq accepted /\ deleted \subseteq accepted /\ lost \subseteq accepted
      /\ accepted \subseteq Items
  BY DEF TypeInv, TypeOK, KnownItems
<1>1. ASSUME NEW m \in Messages, NEW p \in Choices, Receive(m, p) PROVE ItemInv'
  <2>1. \A d \in Dispatchers : pc'[d] = pc[d] /\ chatPolicy'[d] = chatPolicy[d]
    BY <1>0, <1>1, InputsAssumption DEF Receive
  <2>2. QED
    BY <1>1, <2>1, ItemsKept DEF Receive, queueVars, items, outcome, ItemInv
<1>2. ASSUME NEW m \in Messages, MessageEnds(m) PROVE ItemInv'
  BY <1>2, ItemsMoved DEF MessageEnds, queueVars, outcome, PCs
<1>3. ASSUME NEW c \in Callers, InterruptGivesUp(c) PROVE ItemInv'
  BY <1>3, ItemsMoved DEF InterruptGivesUp, queueVars, outcome, PCs
<1>4. ASSUME NEW r \in Inputs, RunnerStep(r) PROVE ItemInv'
  BY <1>4, ItemsKept
     DEF RunnerStep, RunnerEnds, dispatchNextInputQueueItem, queueVars, callVars, items, outcome, ItemInv
<1>5. CASE GuidanceHook
  <2>1. \A i \in Items : delivered'[i] = delivered[i]
    BY <1>0, <1>5, InputsAssumption DEF GuidanceHook, Reaches, TypeInv, TypeOK
  <2>2. UNCHANGED <<queued, deleted, lost, accepted, unrecorded, input, pc, chatPolicy>>
    BY <1>5 DEF GuidanceHook, queueVars, callVars, items
  <2>3. QED
    BY <1>0, <2>1, <2>2 DEF ItemInv, OnePlace, Held
<1>6. CASE inputQueueGuidanceHook
  BY <1>6, ItemsKept DEF inputQueueGuidanceHook, queueVars, callVars, items, outcome, ItemInv
<1>7. CASE DispatchGuidance
  <2>1. UNCHANGED <<accepted, deleted, unrecorded, input, pc, chatPolicy>>
    BY <1>7 DEF DispatchGuidance, callVars
  <2>3. CASE queued' = queued \ Guidance /\ Reaches(Guidance) /\ UNCHANGED lost
    <3>1. \A i \in Items :
             /\ i \notin Guidance => delivered'[i] = delivered[i]
             /\ (i \in Guidance /\ delivered[i] = 0) => delivered'[i] = 1
      BY <1>0, <2>3 DEF Reaches
    <3>2. ASSUME NEW i \in accepted \ unrecorded PROVE OnePlace(i)'
      <4>1. OnePlace(i) /\ i \in Items
        BY <1>0 DEF ItemInv
      <4>2. CASE i \in Guidance
        BY <2>1, <2>3, <3>1, <4>1, <4>2 DEF OnePlace, Held, Guidance
      <4>3. CASE i \notin Guidance
        <5>1. delivered'[i] = delivered[i]
          BY <3>1, <4>1, <4>3
        <5>2. i \in queued' <=> i \in queued
          BY <2>3, <4>3
        <5>3. \A d \in Dispatchers : Held(d, i)' <=> Held(d, i)
          BY <2>1 DEF Held
        <5>4. QED
          BY <2>1, <2>3, <4>1, <5>1, <5>2, <5>3 DEF OnePlace
      <4>4. QED
        BY <4>2, <4>3
    <3>3. ASSUME NEW i \in Items, delivered'[i] > 0 PROVE i \in accepted
      <4>1. CASE i \in Guidance
        BY <1>0, <4>1 DEF Guidance
      <4>2. CASE i \notin Guidance
        <5>1. delivered'[i] = delivered[i]
          BY <3>1, <4>2
        <5>2. QED
          BY <3>3, <5>1 DEF ItemInv
      <4>3. QED
        BY <4>1, <4>2
    <3>4. QED
      BY <2>1, <3>2, <3>3 DEF ItemInv
  <2>4. ASSUME NEW taken \in SUBSET Guidance, queued' = queued \ taken,
               lost' = lost \cup taken, UNCHANGED delivered
        PROVE  ItemInv'
    <3>1. ASSUME NEW i \in accepted \ unrecorded PROVE OnePlace(i)'
      <4>1. OnePlace(i) /\ (i \in taken => i \in queued)
        BY DEF ItemInv, Guidance
      <4>2. QED
        BY <2>1, <2>4, <4>1 DEF OnePlace, Held
    <3>2. QED
      BY <2>1, <2>4, <3>1 DEF ItemInv
  <2>5. QED
    BY <1>7, <2>3, <2>4 DEF DispatchGuidance
<1>8. ASSUME NEW i \in Items, NEW p \in Choices \cap Policies, Enqueue(i, p) PROVE ItemInv'
  <2>1. /\ UNCHANGED <<deleted, lost, delivered, unrecorded, input, pc, chatPolicy>>
        /\ accepted' = accepted \cup {i} /\ queued' = queued \cup {i} /\ i \notin accepted
    BY <1>8 DEF Enqueue, callVars, outcome
  <2>2. \A d \in Dispatchers : ~ Held(d, i)
    BY <2>1, <1>0 DEF Held, TypeInv, DispatcherInput, Holding
  <2>3. delivered[i] = 0
    BY <2>1, <1>0 DEF ItemInv, Inputs
  <2>4. OnePlace(i)'
    BY <1>0, <2>1, <2>2, <2>3 DEF OnePlace, Held
  <2>5. ASSUME NEW j \in accepted \ unrecorded PROVE OnePlace(j)'
    BY <2>1 DEF ItemInv, OnePlace, Held
  <2>6. QED
    BY <2>1, <2>4, <2>5 DEF ItemInv
<1>9. ASSUME NEW i \in Items, Delete(i) PROVE ItemInv'
  <2>1. /\ UNCHANGED <<accepted, lost, delivered, unrecorded, input, pc, chatPolicy>>
        /\ queued' = queued \ {i} /\ deleted' = deleted \cup {i} /\ i \in queued
    BY <1>9 DEF Delete, callVars, outcome
  <2>2. ASSUME NEW j \in accepted \ unrecorded PROVE OnePlace(j)'
    BY <2>1 DEF ItemInv, OnePlace, Held
  <2>3. QED
    BY <2>1, <2>2 DEF ItemInv
<1>10. CASE \/ \E i \in Items : guideInputQueueItem(i)
           \/ SendInputQueueSnapshot \/ GuideLooks \/ UpdateDeliveryPolicy
  BY <1>10, ItemsKept
     DEF guideInputQueueItem, SendInputQueueSnapshot, GuideLooks, UpdateDeliveryPolicy, UpdateKeeps,
         queueVars, callVars, items, outcome, ItemInv
<1>11. CASE UNCHANGED vars
  BY <1>11, ItemsKept DEF vars, queueVars, callVars, items, outcome, ItemInv
<1>12. QED
  BY <1>1, <1>2, <1>3, <1>4, <1>5, <1>6, <1>7, <1>8, <1>9, <1>10, <1>11,
     ItemsChat, ItemsDispatcher DEF Next, CallStep, QueueStep

\* Every input typed ahead is in one place and reaches the agent once, for any
\* number of messages, inputs and dispatchers.
THEOREM ItemsOnce == Spec => []EachItemOnce
<1>1. Init => ItemInv
  BY DEF Init, ItemInv, Inputs
<1>2. QED
  BY <1>1, TypeInit, TypeNext, ItemsNext, OnePlaceExact, PTL DEF Spec
===============================================================================
