-------------------------- MODULE RoomRounds_proofs --------------------------
(***************************************************************************)
(* Theorems about RoomRounds for any agents, messages, items, dispatchers, *)
(* rounds and bounds.                                                      *)
(***************************************************************************)
EXTENDS RoomRounds, TLAPS

USE CallersAssumption, BoundsAssumption

---------------------------------------------------------------------------
(* Types, in the groups of variables that the actions use.                 *)

RoundsType ==
    /\ activeRounds \in [Items \cup Rounds -> Rounds \cup {Nothing}]
    /\ key \in [Rounds -> Items \cup Rounds]
    /\ hop \in [Rounds -> Nat]
    /\ chain \in [Rounds -> Nat]
    /\ mentions \in [Rounds -> SUBSET Wakes]

SlotsType ==
    /\ at \in [Slots -> SlotPoints]
    /\ status \in [Slots -> {"active", "finished", "error", "cancelled"}]
    /\ cut \subseteq Slots
    /\ route \in [Agents -> Rounds \cup {Nothing}]
    /\ fresh \in [Callers -> SUBSET Rounds]
    /\ beside \subseteq Slots

QueueType ==
    /\ queued \subseteq used /\ used \subseteq Items
    /\ info \in [Items -> ItemInfo]

CallType ==
    /\ pc \in [Callers -> PCs]
    /\ wakes \in [Callers -> SUBSET Wakes]
    /\ busy \in [Callers -> SUBSET Wakes]
    /\ held \in [Dispatchers -> Items \cup {Nothing}]

InterruptType ==
    /\ todo \in [Senders -> SUBSET (Slots \cup Rounds)]
    /\ on \in [Senders -> Slots \cup Rounds \cup {Nothing}]
    /\ choice \in [Messages -> Kinds]

WakingType == wake \in 0 .. MaxWake /\ late \in BOOLEAN /\ unserved \in BOOLEAN

BoundsType == mentioned \in Nat /\ typed \in Nat /\ failures \in Nat

HistoryType == served \subseteq Wakes /\ twice \subseteq Wakes /\ repeated \subseteq Items

\* Control points at which a dispatcher has an item.
HoldingPoints ==
    {"pop", "look", "enqueue", "snapshot", "register", "collect", "next", "waiting", "forced",
     "ok", "failed"}

HeldType == \A d \in Dispatchers : pc[d] \in HoldingPoints => held[d] \in used

Types ==
    /\ RoundsType /\ SlotsType /\ QueueType /\ CallType
    /\ InterruptType /\ WakingType /\ BoundsType /\ HistoryType

LEMMA TypesAreTypeOK == Types <=> TypeOK
  BY DEF Types, TypeOK, RoundsType, SlotsType, QueueType, CallType, InterruptType, WakingType,
         BoundsType, HistoryType

LEMMA SameRounds == ASSUME Types, UNCHANGED rounds PROVE RoundsType'
  BY DEF Types, RoundsType, rounds

LEMMA SameSlots == ASSUME Types, UNCHANGED slots PROVE SlotsType'
  BY DEF Types, SlotsType, slots

LEMMA SameQueue == ASSUME Types, UNCHANGED queueVars PROVE QueueType'
  BY DEF Types, QueueType, queueVars

LEMMA SameCalls == ASSUME Types, HeldType, UNCHANGED callVars, used \subseteq used'
                   PROVE  CallType' /\ HeldType'
  BY DEF Types, CallType, callVars, HeldType

LEMMA SameInterrupts == ASSUME Types, UNCHANGED interrupts PROVE InterruptType'
  BY DEF Types, InterruptType, interrupts

LEMMA SameWaking == ASSUME Types, UNCHANGED waking PROVE WakingType'
  BY DEF Types, WakingType, waking

LEMMA SameBounds == ASSUME Types, UNCHANGED bounds PROVE BoundsType'
  BY DEF Types, BoundsType, bounds

LEMMA SameHistory == ASSUME Types, UNCHANGED history PROVE HistoryType'
  BY DEF Types, HistoryType, history

---------------------------------------------------------------------------
(* Types: the parts of actions.                                            *)

LEMMA Kinds2 ==
    /\ Messages \subseteq Callers /\ Dispatchers \subseteq Callers /\ Rounds \subseteq Callers
    /\ Messages \subseteq Senders /\ Dispatchers \subseteq Senders
    /\ \A c \in Senders : c \in Callers /\ c \notin Rounds
    /\ \A m \in Messages : m \notin Dispatchers /\ m \notin Rounds
    /\ \A d \in Dispatchers : d \notin Rounds
    /\ {"idle", "look", "enqueue", "snapshot", "register", "ok", "failed", "done", "collect",
        "next", "waiting", "forced", "scan", "pop", "running"} = PCs
    /\ {"none", "pending", "executing", "tail", "closing", "done"} = SlotPoints
  BY DEF Callers, Senders, PCs, SlotPoints

LEMMA MovesType ==
    ASSUME Types, HeldType, NEW c \in Callers, NEW from, NEW to \in PCs, Moves(c, from, to)
    PROVE  /\ pc' \in [Callers -> PCs]
           /\ \A d \in Callers : d # c => pc'[d] = pc[d]
           /\ pc[c] = from /\ pc'[c] = to
  BY DEF Moves, Types, CallType

\* A caller moves on and keeps its item, or is no dispatcher.
LEMMA MovesHeld ==
    ASSUME Types, HeldType, NEW c \in Callers, NEW from, NEW to \in PCs, Moves(c, from, to),
           UNCHANGED held, used \subseteq used',
           c \in Dispatchers /\ to \in HoldingPoints => from \in HoldingPoints
    PROVE  HeldType'
<1>1. \A d \in Callers : d # c => pc'[d] = pc[d]
  BY MovesType
<1>2. pc[c] = from /\ pc'[c] = to
  BY MovesType
<1>3. ASSUME NEW d \in Dispatchers, pc'[d] \in HoldingPoints PROVE pc[d] \in HoldingPoints
  BY <1>1, <1>2, <1>3, Kinds2
<1>4. QED
  BY <1>3 DEF HeldType

LEMMA WakeType == ASSUME Types, Wake PROVE WakingType'
<1>1. wake' \in 0 .. MaxWake
  BY DEF Wake, Types, WakingType
<1>2. QED
  BY <1>1 DEF Wake, WakingType

LEMMA FailsType == ASSUME Types, Fails PROVE failures' \in Nat
  BY DEF Fails, Types, BoundsType

LEMMA FreshIsNew == ASSUME Types, used # Items PROVE FreshItem \in Items \ used
  BY DEF FreshItem, Types, QueueType

LEMMA AudienceWakes ==
    ASSUME NEW m \in Messages \cup Items \cup Slots, NEW agents \in SUBSET Agents
    PROVE  {m} \X agents \subseteq Wakes
  BY DEF Wakes

LEMMA BusyType == ASSUME NEW ws \in SUBSET Wakes PROVE Busy(ws) \in SUBSET Wakes
  BY DEF Busy

\* What a caller knows of its parent round.
LEMMA ParentType ==
    ASSUME Types, HeldType, NEW c \in Callers, pc[c] \in HoldingPoints
    PROVE  ParentHop(c) \in Nat /\ ParentChain(c) \in Nat
<1>1. CASE c \in Rounds
  BY <1>1 DEF ParentHop, ParentChain, Types, RoundsType
<1>2. CASE c \notin Rounds /\ c \in Dispatchers
  <2>1. held[c] \in Items
    BY <1>2 DEF HeldType, Types, QueueType
  <2>2. info[held[c]] \in ItemInfo
    BY <2>1 DEF Types, QueueType
  <2>3. QED
    BY <1>2, <2>2 DEF ParentHop, ParentChain, ItemInfo
<1>3. CASE c \notin Rounds /\ c \notin Dispatchers
  BY <1>3 DEF ParentHop, ParentChain
<1>4. QED
  BY <1>1, <1>2, <1>3

---------------------------------------------------------------------------
(* Types: the actions.                                                     *)

LEMMA HandleChatType ==
    ASSUME Types, HeldType, NEW m \in Messages, NEW agents \in SUBSET Agents,
           NEW policy \in {"queue", "interrupt"}, HandleChat(m, agents, policy)
    PROVE  Types' /\ HeldType'
<1> USE DEF HandleChat
<1>1. RoundsType' /\ SlotsType' /\ QueueType' /\ WakingType' /\ BoundsType' /\ HistoryType'
  BY SameRounds, SameSlots, SameQueue, SameWaking, SameBounds, SameHistory
<1> DEFINE to == FirstPoint(policy)
<1>2. m \in Callers /\ m \notin Dispatchers /\ to \in PCs /\ Moves(m, "idle", to)
  BY Kinds2 DEF FirstPoint
<1>3. pc' \in [Callers -> PCs]
  <2> HIDE DEF to
  <2> QED BY <1>2, MovesType
<1>4. HeldType'
  <2>1. UNCHANGED held /\ used \subseteq used'
    BY DEF queueVars
  <2> HIDE DEF to, HandleChat
  <2> QED BY <1>2, <2>1, MovesHeld
<1>5. CallType'
  <2>1. {m} \X agents \subseteq Wakes
    BY AudienceWakes
  <2>2. wakes' \in [Callers -> SUBSET Wakes]
    BY <1>2, <2>1 DEF Types, CallType
  <2>3. QED
    BY <1>3, <2>2 DEF Types, CallType
<1>6. InterruptType'
  BY DEF Types, InterruptType, Kinds
<1>7. QED
  BY <1>1, <1>4, <1>5, <1>6 DEF Types

LEMMA HandleInterruptType ==
    ASSUME Types, HeldType, NEW m \in Messages, HandleInterrupt(m)
    PROVE  Types' /\ HeldType'
<1> USE DEF HandleInterrupt
<1>1. RoundsType' /\ SlotsType' /\ QueueType' /\ WakingType' /\ BoundsType' /\ HistoryType'
  BY SameRounds, SameSlots, SameQueue, SameWaking, SameBounds, SameHistory
<1>2. m \in Callers /\ m \notin Dispatchers /\ "collect" \in PCs /\ Moves(m, "idle", "collect")
  BY Kinds2
<1>3. pc' \in [Callers -> PCs]
  BY <1>2, MovesType
<1>4. HeldType'
  <2>1. UNCHANGED held /\ used \subseteq used'
    BY DEF queueVars
  <2> QED BY <1>2, <2>1, MovesHeld
<1>5. CallType'
  BY <1>3 DEF Types, CallType
<1>6. InterruptType'
  BY DEF Types, InterruptType, Kinds
<1>7. QED
  BY <1>1, <1>4, <1>5, <1>6 DEF Types

LEMMA HandleDirectedMessageType ==
    ASSUME Types, HeldType, NEW l \in Messages, NEW s \in Slots, NEW agents \in SUBSET Agents,
           HandleDirectedMessage(l, s, agents)
    PROVE  Types' /\ HeldType'
<1> USE DEF HandleDirectedMessage
<1>1. RoundsType' /\ SlotsType' /\ QueueType' /\ WakingType' /\ BoundsType' /\ HistoryType'
  BY SameRounds, SameSlots, SameQueue, SameWaking, SameBounds, SameHistory
<1>2. l \in Callers /\ l \notin Dispatchers /\ "look" \in PCs /\ Moves(l, "idle", "look")
  BY Kinds2
<1>3. pc' \in [Callers -> PCs]
  BY <1>2, MovesType
<1>4. HeldType'
  <2>1. UNCHANGED held /\ used \subseteq used'
    BY DEF queueVars
  <2> QED BY <1>2, <2>1, MovesHeld
<1>5. CallType'
  <2>1. {l} \X agents \subseteq Wakes
    BY AudienceWakes
  <2>2. wakes' \in [Callers -> SUBSET Wakes]
    BY <1>2, <2>1 DEF Types, CallType
  <2>3. QED
    BY <1>3, <2>2 DEF Types, CallType
<1>6. InterruptType'
  BY DEF Types, InterruptType, Kinds
<1>7. QED
  BY <1>1, <1>4, <1>5, <1>6 DEF Types

LEMMA LooksType ==
    ASSUME Types, HeldType, NEW c \in Callers, findActiveDeliverySlots(c)
    PROVE  Types' /\ HeldType'
<1> USE DEF findActiveDeliverySlots
<1>1. RoundsType' /\ QueueType' /\ InterruptType' /\ WakingType' /\ BoundsType' /\ HistoryType'
  BY SameRounds, SameQueue, SameInterrupts, SameWaking, SameBounds, SameHistory
<1> DEFINE to == IF Busy(wakes[c]) = {} THEN "register" ELSE "enqueue"
<1>2. to \in PCs /\ to \in HoldingPoints /\ "look" \in HoldingPoints /\ Moves(c, "look", to)
  BY Kinds2 DEF HoldingPoints
<1>3. pc' \in [Callers -> PCs] /\ HeldType'
  <2>1. UNCHANGED held /\ used \subseteq used'
    BY DEF queueVars
  <2> HIDE DEF to, findActiveDeliverySlots
  <2> QED BY <1>2, <2>1, MovesType, MovesHeld
<1>4. CallType'
  <2>1. Busy(wakes[c]) \in SUBSET Wakes
    BY BusyType DEF Types, CallType
  <2>2. busy' \in [Callers -> SUBSET Wakes]
    BY <2>1 DEF Types, CallType
  <2>3. QED
    BY <1>3, <2>2 DEF Types, CallType
<1>5. SlotsType'
  BY DEF Types, SlotsType
<1>6. QED
  BY <1>1, <1>3, <1>4, <1>5 DEF Types

\* What a queued wake becomes.
LEMMA QueueItemType ==
    ASSUME Types, HeldType, NEW c \in Callers, pc[c] \in HoldingPoints, NEW w \in Wakes,
           NEW i \in Items
    PROVE  QueueItem(c, w, i) \in [Items -> ItemInfo]
<1>1. ParentHop(c) \in Nat /\ ParentChain(c) \in Nat
  BY ParentType
<1> DEFINE h == IF IsChat(c) THEN 0 ELSE ParentHop(c)
           new == [chat |-> FALSE, policy |-> "queue", wakes |-> {w}, hop |-> h,
                   chain |-> ParentChain(c)]
<1>2. h \in Nat
  BY <1>1
<1>3. new \in ItemInfo
  <2> HIDE DEF h
  <2> QED BY <1>1, <1>2 DEF ItemInfo
<1>4. QueueItem(c, w, i) = [info EXCEPT ![i] = new]
  BY DEF QueueItem
<1> HIDE DEF new
<1>5. QED
  BY <1>3, <1>4 DEF Types, QueueType

LEMMA QueuesType ==
    ASSUME Types, HeldType, NEW c \in Callers, enqueueForActiveAgentSlots(c)
    PROVE  Types' /\ HeldType'
<1>1. RoundsType' /\ SlotsType' /\ InterruptType' /\ BoundsType' /\ HistoryType'
  BY SameRounds, SameSlots, SameInterrupts, SameBounds, SameHistory DEF enqueueForActiveAgentSlots
<1> DEFINE i == FreshItem
<1>2. PICK w \in busy[c] :
        LET next == IF busy[c] = {w} THEN "snapshot" ELSE "enqueue" IN
        /\ used # Items
        /\ Moves(c, "enqueue", next)
        /\ queued' = queued \cup {i} /\ used' = used \cup {i}
        /\ info' = QueueItem(c, w, i)
        /\ wakes' = [wakes EXCEPT ![c] = @ \ {w}]
        /\ busy' = [busy EXCEPT ![c] = @ \ {w}]
        /\ late' = (late \/ (busy[c] = {w} /\ wakes[c] = {w} /\ ~Watched))
        /\ UNCHANGED <<rounds, slots, held, interrupts, wake, unserved>>
  BY DEF enqueueForActiveAgentSlots
<1> DEFINE rest == wakes[c] \ {w}
           next == IF busy[c] = {w} THEN "snapshot" ELSE "enqueue"
<1>3. i \in Items \ used
  BY <1>2, FreshIsNew
<1>4. w \in Wakes /\ rest \in SUBSET Wakes
  BY <1>2 DEF Types, CallType
<1>5. next \in PCs /\ next \in HoldingPoints /\ "enqueue" \in HoldingPoints /\ Moves(c, "enqueue", next)
  BY <1>2, Kinds2 DEF HoldingPoints
<1>6. UNCHANGED held /\ used \subseteq used'
  BY <1>2
<1>7. pc' \in [Callers -> PCs] /\ HeldType' /\ pc[c] \in HoldingPoints
  <2> HIDE DEF next
  <2> QED BY <1>5, <1>6, MovesType, MovesHeld
<1>8. QueueType'
  <2>1. QueueItem(c, w, i) \in [Items -> ItemInfo]
    BY <1>3, <1>4, <1>7, QueueItemType
  <2> HIDE DEF i
  <2>2. queued' \subseteq used' /\ used' \subseteq Items
    BY <1>2, <1>3 DEF Types, QueueType
  <2>3. QED
    BY <1>2, <2>1, <2>2 DEF QueueType
<1>9. CallType'
  <2> HIDE DEF rest
  <2>1. wakes' \in [Callers -> SUBSET Wakes]
    BY <1>2, <1>4 DEF Types, CallType, rest
  <2>2. busy' \in [Callers -> SUBSET Wakes]
    BY <1>2 DEF Types, CallType
  <2>3. QED
    BY <1>6, <1>7, <2>1, <2>2 DEF Types, CallType
<1>10. WakingType'
  BY <1>2 DEF Types, WakingType
<1>11. QED
  BY <1>1, <1>7, <1>8, <1>9, <1>10 DEF Types

LEMMA SnapshotType ==
    ASSUME Types, HeldType, NEW c \in Callers, broadcastRoomInputQueueSnapshot(c)
    PROVE  Types' /\ HeldType'
<1> USE DEF broadcastRoomInputQueueSnapshot
<1>1. /\ RoundsType' /\ QueueType' /\ InterruptType' /\ WakingType' /\ BoundsType'
      /\ HistoryType'
  BY SameRounds, SameQueue, SameInterrupts, SameWaking, SameBounds, SameHistory
<1> DEFINE to == IF wakes[c] = {} THEN "ok" ELSE "register"
<1>2. /\ Moves(c, "snapshot", to) /\ UNCHANGED <<wakes, busy, held>> /\ used \subseteq used'
      /\ to \in PCs /\ "snapshot" \in HoldingPoints
  BY Kinds2 DEF queueVars, HoldingPoints
<1>3. SlotsType'
  BY DEF Types, SlotsType
<1> HIDE DEF to, broadcastRoomInputQueueSnapshot
<1>4. pc' \in [Callers -> PCs] /\ HeldType'
  BY <1>2, MovesType, MovesHeld
<1>5. CallType'
  BY <1>2, <1>4 DEF Types, CallType
<1>6. QED
  BY <1>1, <1>3, <1>4, <1>5 DEF Types

LEMMA CallFailsType ==
    ASSUME Types, HeldType, NEW c \in Callers, CallFails(c)
    PROVE  Types' /\ HeldType'
<1> USE DEF CallFails
<1>1. RoundsType' /\ QueueType' /\ InterruptType'
  BY SameRounds, SameQueue, SameInterrupts
<1>2. PICK from \in {"look", "enqueue", "snapshot", "register"} : Moves(c, from, "failed")
  OBVIOUS
<1>3. pc' \in [Callers -> PCs] /\ HeldType' /\ pc[c] \in HoldingPoints
  <2>1. UNCHANGED held /\ used \subseteq used' /\ "failed" \in PCs /\ from \in HoldingPoints
    BY Kinds2, <1>2 DEF queueVars, HoldingPoints
  <2> HIDE DEF CallFails
  <2> QED BY <1>2, <2>1, MovesType, MovesHeld
<1>4. CallType'
  BY <1>3 DEF Types, CallType
<1>5. SlotsType'
  BY DEF Types, SlotsType
<1>6. WakingType'
  BY DEF Types, WakingType
<1>7. BoundsType'
  BY FailsType DEF Types, BoundsType
<1>8. HistoryType'
  <2>1. c \in Dispatchers => held[c] \in Items
    BY <1>3 DEF HeldType, Types, QueueType
  <2>2. QED
    BY <2>1 DEF Types, HistoryType
<1>9. QED
  BY <1>1, <1>3, <1>4, <1>5, <1>6, <1>7, <1>8 DEF Types

LEMMA RegistersType ==
    ASSUME Types, HeldType, NEW c \in Callers, registerRound(c)
    PROVE  Types' /\ HeldType'
<1> USE DEF registerRound
<1> DEFINE r == CHOOSE free \in FreeRounds : TRUE
           targets == {w[2] : w \in wakes[c]}
           others == Overlooked(c, targets)
<1>1. r \in Rounds /\ pc[r] = "idle" /\ r \in Callers /\ r \notin Dispatchers
  BY Kinds2 DEF FreeRounds
<1>2. /\ pc[c] = "register" /\ pc[c] \in HoldingPoints
      /\ pc' = [pc EXCEPT ![c] = "ok", ![r] = "running"]
      /\ key' = [key EXCEPT ![r] = RoundKey(c, r)]
      /\ activeRounds' = [activeRounds EXCEPT ![RoundKey(c, r)] = r]
      /\ hop' = [hop EXCEPT ![r] = IF IsChat(c) THEN 0 ELSE ParentHop(c) + 1]
      /\ chain' = [chain EXCEPT ![r] = IF IsChat(c) THEN ParentChain(c) ELSE ParentChain(c) + 1]
      /\ at' = [s \in Slots |-> IF s[1] = r /\ s[2] \in targets THEN "pending" ELSE at[s]]
      /\ beside' = beside \cup others \cup ({r} \X {s[2] : s \in others})
      /\ fresh' = [d \in Callers |-> IF d # c /\ Looked(d) THEN fresh[d] \cup {r} ELSE {}]
      /\ \E first \in Triggers(wakes[c]) :
            served' = served \cup first /\ twice' = twice \cup (served \cap first)
      /\ wakes' = [wakes EXCEPT ![c] = {}]
      /\ UNCHANGED <<mentions, status, cut, route, queueVars, busy, held, interrupts>>
      /\ UNCHANGED <<waking, bounds, repeated>>
  BY DEF HoldingPoints
<1> HIDE DEF r, registerRound
<1>3. QueueType' /\ InterruptType' /\ WakingType' /\ BoundsType'
  BY <1>2, SameQueue, SameInterrupts, SameWaking, SameBounds
<1>4. wakes[c] \subseteq Wakes
  BY DEF Types, CallType
<1>5. RoundsType'
  <2>1. RoundKey(c, r) \in Items \cup Rounds
    BY <1>1, <1>2 DEF RoundKey, HeldType, Types, QueueType
  <2>2. ParentHop(c) \in Nat /\ ParentChain(c) \in Nat
    BY <1>2, ParentType
  <2>3. activeRounds' \in [Items \cup Rounds -> Rounds \cup {Nothing}]
    BY <1>1, <1>2, <2>1 DEF Types, RoundsType
  <2>4. key' \in [Rounds -> Items \cup Rounds]
    BY <1>1, <1>2, <2>1 DEF Types, RoundsType
  <2>5. hop' \in [Rounds -> Nat] /\ chain' \in [Rounds -> Nat]
    BY <1>1, <1>2, <2>2 DEF Types, RoundsType
  <2>6. QED
    BY <1>2, <2>3, <2>4, <2>5 DEF Types, RoundsType
<1>6. SlotsType'
  <2>1. others \subseteq Slots
    BY DEF Overlooked
  <2> HIDE DEF others
  <2>2. {r} \X {s[2] : s \in others} \subseteq Slots
    BY <1>1, <2>1 DEF Slots
  <2>3. at' \in [Slots -> SlotPoints]
    BY <1>2 DEF Types, SlotsType, SlotPoints
  <2>4. fresh' \in [Callers -> SUBSET Rounds]
    BY <1>1, <1>2 DEF Types, SlotsType
  <2>5. QED
    BY <1>2, <2>1, <2>2, <2>3, <2>4 DEF Types, SlotsType
<1>7. pc' \in [Callers -> PCs]
  BY <1>1, <1>2, Kinds2 DEF Types, CallType
<1>8. CallType'
  BY <1>2, <1>7 DEF Types, CallType
<1>9. HeldType'
  <2>1. ASSUME NEW d \in Dispatchers PROVE pc'[d] \in HoldingPoints => pc[d] \in HoldingPoints
    BY <1>1, <1>2, Kinds2 DEF Types, CallType
  <2>2. QED
    BY <1>2, <2>1 DEF HeldType, queueVars
<1>10. HistoryType'
  BY <1>2, <1>4 DEF Triggers, Types, HistoryType
<1>11. QED
  BY <1>3, <1>5, <1>6, <1>8, <1>9, <1>10 DEF Types

\* The interrupt of a message or of a dispatcher moves on.
LEMMA SenderMoves ==
    ASSUME Types, HeldType, NEW m \in Senders, NEW from \in HoldingPoints, NEW to \in PCs,
           Moves(m, from, to), UNCHANGED held, UNCHANGED used
    PROVE  HeldType' /\ pc' \in [Callers -> PCs]
  BY Kinds2, MovesType, MovesHeld

LEMMA CollectsType ==
    ASSUME Types, HeldType, NEW m \in Senders, collectTargets(m)
    PROVE  Types' /\ HeldType'
<1> USE DEF collectTargets
<1>1. RoundsType' /\ QueueType' /\ WakingType' /\ BoundsType' /\ HistoryType'
  BY SameRounds, SameQueue, SameWaking, SameBounds, SameHistory
<1>2. HeldType' /\ pc' \in [Callers -> PCs]
  BY Kinds2, SenderMoves DEF queueVars, HoldingPoints
<1>3. CallType'
  BY <1>2 DEF Types, CallType
<1>4. SlotsType'
  BY DEF Types, SlotsType
<1>5. InterruptType'
  <2> DEFINE new == IF Policy(m) = "stop" THEN {r \in Rounds : Registered(r)}
                    ELSE {s \in Slots : /\ Registered(s[1]) /\ at[s] # "none"
                                        /\ \E w \in wakes[m] : w[2] = s[2]}
  <2>1. new \in SUBSET (Slots \cup Rounds) /\ todo' = [todo EXCEPT ![m] = new]
    OBVIOUS
  <2> HIDE DEF new
  <2>2. QED
    BY <2>1 DEF Types, InterruptType
<1>6. QED
  BY <1>1, <1>2, <1>3, <1>4, <1>5 DEF Types

LEMMA TargetsType ==
    ASSUME Types, HeldType, NEW m \in Senders, interruptTarget(m)
    PROVE  Types' /\ HeldType'
<1>1. RoundsType' /\ SlotsType' /\ QueueType' /\ WakingType' /\ BoundsType' /\ HistoryType'
  BY SameRounds, SameSlots, SameQueue, SameWaking, SameBounds, SameHistory DEF interruptTarget
<1>2. PICK t \in todo[m] :
        /\ todo' = [todo EXCEPT ![m] = @ \ {t}]
        /\ \/ Moves(m, "next", "next") /\ UNCHANGED on
           \/ Moves(m, "next", "waiting") /\ on' = [on EXCEPT ![m] = t]
        /\ UNCHANGED <<queueVars, wakes, busy, held, choice>>
  BY DEF interruptTarget
<1>3. HeldType' /\ pc' \in [Callers -> PCs]
  BY <1>2, Kinds2, SenderMoves DEF queueVars, HoldingPoints
<1>4. CallType'
  BY <1>2, <1>3 DEF Types, CallType
<1>5. InterruptType'
  BY <1>2 DEF Types, InterruptType
<1>6. QED
  BY <1>1, <1>3, <1>4, <1>5 DEF Types

LEMMA ReturnsType ==
    ASSUME Types, HeldType, NEW m \in Senders, InterruptReturns(m)
    PROVE  Types' /\ HeldType'
<1> USE DEF InterruptReturns
<1>1. RoundsType' /\ SlotsType' /\ QueueType' /\ WakingType' /\ BoundsType' /\ HistoryType'
  BY SameRounds, SameSlots, SameQueue, SameWaking, SameBounds, SameHistory
<1>2. HeldType' /\ pc' \in [Callers -> PCs]
  BY Kinds2, SenderMoves DEF queueVars, HoldingPoints
<1>3. CallType' /\ InterruptType'
  BY <1>2 DEF Types, CallType, InterruptType
<1>4. QED
  BY <1>1, <1>2, <1>3 DEF Types

LEMMA ForceType ==
    ASSUME Types, HeldType, NEW m \in Senders, ForceCancel(m)
    PROVE  Types' /\ HeldType'
<1> USE DEF ForceCancel
<1>1. RoundsType' /\ QueueType' /\ InterruptType' /\ WakingType' /\ BoundsType' /\ HistoryType'
  BY SameRounds, SameQueue, SameInterrupts, SameWaking, SameBounds, SameHistory
<1>2. HeldType' /\ pc' \in [Callers -> PCs]
  BY Kinds2, SenderMoves DEF queueVars, HoldingPoints
<1>3. Cuts(on[m]) \subseteq Slots
  BY DEF Cuts
<1>4. SlotsType'
  BY <1>3 DEF Types, SlotsType
<1>5. CallType'
  BY <1>2 DEF Types, CallType
<1>6. QED
  BY <1>1, <1>2, <1>4, <1>5 DEF Types

LEMMA GivesUpType ==
    ASSUME Types, HeldType, NEW m \in Senders, InterruptGivesUp(m)
    PROVE  Types' /\ HeldType'
<1> USE DEF InterruptGivesUp
<1>1. RoundsType' /\ QueueType' /\ WakingType' /\ BoundsType' /\ HistoryType'
  BY SameRounds, SameQueue, SameWaking, SameBounds, SameHistory
<1>2. HeldType' /\ pc' \in [Callers -> PCs]
  BY Kinds2, SenderMoves DEF queueVars, HoldingPoints
<1>3. CallType' /\ InterruptType' /\ SlotsType'
  BY <1>2 DEF Types, CallType, InterruptType, SlotsType
<1>4. QED
  BY <1>1, <1>2, <1>3 DEF Types

LEMMA DoneType ==
    ASSUME Types, HeldType, NEW m \in Senders, InterruptDone(m)
    PROVE  Types' /\ HeldType'
<1> USE DEF InterruptDone
<1>1. /\ RoundsType' /\ SlotsType' /\ QueueType' /\ InterruptType' /\ WakingType'
      /\ BoundsType' /\ HistoryType'
  BY SameRounds, SameSlots, SameQueue, SameInterrupts, SameWaking, SameBounds, SameHistory
<1> DEFINE to == IF Policy(m) = "stop" THEN "ok" ELSE "register"
<1>2. HeldType' /\ pc' \in [Callers -> PCs]
  <2>1. to \in PCs /\ Moves(m, "next", to) /\ UNCHANGED held /\ UNCHANGED used
    BY Kinds2 DEF queueVars
  <2> HIDE DEF to, InterruptDone
  <2>2. QED
    BY <2>1, SenderMoves DEF HoldingPoints
<1>3. CallType'
  BY <1>2 DEF Types, CallType
<1>4. QED
  BY <1>1, <1>2, <1>3 DEF Types

---------------------------------------------------------------------------
(* Types: slots.                                                           *)

\* Every step of a slot's goroutine.
LEMMA SlotMovesType ==
    ASSUME Types, HeldType, NEW s \in Slots, NEW from, NEW to \in SlotPoints,
           SlotMoves(s, from, to), UNCHANGED fresh,
           mentions' \in [Rounds -> SUBSET Wakes],
           status' \in [Slots -> {"active", "finished", "error", "cancelled"}],
           route' \in [Agents -> Rounds \cup {Nothing}],
           cut' \subseteq cut, beside' \subseteq beside, mentioned' \in Nat
    PROVE  Types' /\ HeldType'
<1> USE DEF SlotMoves
<1>1. QueueType' /\ CallType' /\ HeldType' /\ InterruptType' /\ WakingType' /\ HistoryType'
  BY SameQueue, SameCalls, SameInterrupts, SameWaking, SameHistory DEF queueVars
<1>2. RoundsType'
  BY DEF Types, RoundsType
<1>3. SlotsType'
  BY DEF Types, SlotsType
<1>4. BoundsType'
  BY DEF Types, BoundsType
<1>5. QED
  BY <1>1, <1>2, <1>3, <1>4 DEF Types

LEMMA SlotStepsType ==
    ASSUME Types, HeldType, NEW s \in Slots, SlotStep(s) \/ AgentStep(s)
    PROVE  Types' /\ HeldType'
<1>0. s[1] \in Rounds /\ s[2] \in Agents
  BY DEF Slots
<1>1. /\ mentions \in [Rounds -> SUBSET Wakes] /\ mentioned \in Nat
      /\ status \in [Slots -> {"active", "finished", "error", "cancelled"}]
      /\ route \in [Agents -> Rounds \cup {Nothing}]
  BY DEF Types, RoundsType, SlotsType, BoundsType
<1>2. {"none", "pending", "executing", "tail", "closing", "done"} = SlotPoints
  BY DEF SlotPoints
<1>3. CASE SlotBegins(s)
  <2>1. route' \in [Agents -> Rounds \cup {Nothing}]
    BY <1>0, <1>1, <1>3 DEF SlotBegins
  <2>2. SlotMoves(s, "pending", "executing") /\ UNCHANGED <<status, cut, fresh, beside, mentions, mentioned>>
    BY <1>3 DEF SlotBegins
  <2>3. QED
    BY <1>1, <1>2, <2>1, <2>2, SlotMovesType
<1>4. CASE SlotCompletes(s)
  <2>1. /\ SlotMoves(s, "executing", "tail") /\ UNCHANGED <<cut, route, fresh, beside, mentions, mentioned>>
        /\ status' \in [Slots -> {"active", "finished", "error", "cancelled"}]
    BY <1>1, <1>4 DEF SlotCompletes
  <2>2. QED
    BY <1>1, <1>2, <2>1, SlotMovesType
<1>5. CASE SlotInterrupted(s)
  <2>1. /\ SlotMoves(s, "executing", "closing") /\ UNCHANGED <<cut, route, fresh, beside, mentions, mentioned>>
        /\ status' \in [Slots -> {"active", "finished", "error", "cancelled"}]
    BY <1>1, <1>5 DEF SlotInterrupted
  <2>2. QED
    BY <1>1, <1>2, <2>1, SlotMovesType
<1>6. CASE SlotFails(s)
  <2>1. PICK from \in {"executing", "tail"} : SlotMoves(s, from, "closing")
    BY <1>6 DEF SlotFails
  <2>2. /\ UNCHANGED <<cut, route, fresh, beside, mentions, mentioned>>
        /\ status' \in [Slots -> {"active", "finished", "error", "cancelled"}]
    BY <1>1, <1>6 DEF SlotFails
  <2>3. QED
    BY <1>1, <1>2, <2>1, <2>2, SlotMovesType
<1>7. CASE SlotEnds(s)
  <2>1. PICK agents \in SUBSET (Agents \ {s[2]}) :
          /\ \/ SlotMoves(s, "tail", "done")
             \/ SlotMoves(s, "closing", "done") /\ agents = {}
          /\ mentions' = [mentions EXCEPT ![s[1]] = @ \cup ({s} \X agents)]
          /\ mentioned' = IF agents = {} THEN mentioned ELSE mentioned + 1
          /\ route' = [route EXCEPT ![s[2]] = Nothing]
          /\ cut' = cut \ {s} /\ beside' = beside \ {s}
          /\ UNCHANGED <<status, fresh>>
    BY <1>7 DEF SlotEnds
  <2>2. PICK from : SlotMoves(s, from, "done")
    BY <2>1
  <2>3. {s} \X agents \subseteq Wakes
    BY AudienceWakes
  <2>4. mentions' \in [Rounds -> SUBSET Wakes]
    BY <1>0, <1>1, <2>1, <2>3
  <2>5. mentioned' \in Nat /\ route' \in [Agents -> Rounds \cup {Nothing}]
    BY <1>0, <1>1, <2>1
  <2>6. QED
    BY <1>1, <1>2, <2>1, <2>2, <2>4, <2>5, SlotMovesType
<1>8. QED
  BY <1>3, <1>4, <1>5, <1>6, <1>7 DEF SlotStep, AgentStep

---------------------------------------------------------------------------
(* Types: runners, dispatchers and users.                                  *)

LEMMA FinishesType ==
    ASSUME Types, HeldType, NEW r \in Rounds, finishRound(r)
    PROVE  Types' /\ HeldType'
<1> USE DEF finishRound
<1>1. QueueType' /\ InterruptType' /\ WakingType' /\ BoundsType' /\ HistoryType'
  BY SameQueue, SameInterrupts, SameWaking, SameBounds, SameHistory
<1> DEFINE to == IF StartsMentions(r) THEN "look" ELSE "ok"
           ws == IF StartsMentions(r) THEN mentions[r] ELSE {}
<1>2. r \in Callers /\ r \notin Dispatchers /\ to \in PCs /\ Moves(r, "running", to)
  BY Kinds2
<1>3. pc' \in [Callers -> PCs] /\ HeldType'
  <2>1. UNCHANGED held /\ used \subseteq used'
    BY DEF queueVars
  <2> HIDE DEF to, finishRound
  <2> QED BY <1>2, <2>1, MovesType, MovesHeld
<1>4. ws \in SUBSET Wakes /\ wakes' = [wakes EXCEPT ![r] = ws]
  BY DEF Types, RoundsType
<1>5. CallType'
  <2> HIDE DEF ws
  <2> QED BY <1>2, <1>3, <1>4 DEF Types, CallType
<1>6. RoundsType'
  BY DEF Types, RoundsType
<1>7. SlotsType'
  BY DEF Types, SlotsType
<1>8. QED
  BY <1>1, <1>3, <1>5, <1>6, <1>7 DEF Types

LEMMA RunnerEndsType ==
    ASSUME Types, HeldType, NEW r \in Rounds, RunnerEnds(r)
    PROVE  Types' /\ HeldType'
<1> USE DEF RunnerEnds, RunnerWakes
<1>1. SlotsType' /\ QueueType' /\ InterruptType' /\ BoundsType' /\ HistoryType'
  BY SameSlots, SameQueue, SameInterrupts, SameBounds, SameHistory
<1>2. WakingType'
  BY WakeType
<1>3. PICK from \in {"ok", "failed"} : Moves(r, from, "done")
  OBVIOUS
<1>4. r \in Callers /\ r \notin Dispatchers /\ "done" \in PCs
  BY Kinds2
<1>5. pc' \in [Callers -> PCs] /\ HeldType'
  <2>1. UNCHANGED held /\ used \subseteq used'
    BY DEF queueVars
  <2> HIDE DEF RunnerEnds, RunnerWakes
  <2> QED BY <1>3, <1>4, <2>1, MovesType, MovesHeld
<1>6. CallType'
  BY <1>5 DEF Types, CallType
<1>7. RoundsType'
  BY DEF Types, RoundsType
<1>8. QED
  BY <1>1, <1>2, <1>5, <1>6, <1>7 DEF Types

LEMMA BeginsType ==
    ASSUME Types, HeldType, NEW d \in Dispatchers, DispatcherBegins(d)
    PROVE  Types' /\ HeldType'
<1> USE DEF DispatcherBegins
<1>1. RoundsType' /\ SlotsType' /\ QueueType' /\ InterruptType' /\ BoundsType' /\ HistoryType'
  BY SameRounds, SameSlots, SameQueue, SameInterrupts, SameBounds, SameHistory
<1>2. WakingType'
  BY DEF Types, WakingType
<1>3. d \in Callers /\ "scan" \in PCs /\ "scan" \notin HoldingPoints
  BY Kinds2 DEF HoldingPoints
<1>4. pc' \in [Callers -> PCs] /\ HeldType'
  <2>1. UNCHANGED held /\ used \subseteq used' /\ Moves(d, "idle", "scan")
    BY DEF queueVars
  <2> HIDE DEF DispatcherBegins
  <2> QED BY <1>3, <2>1, MovesType, MovesHeld
<1>5. CallType'
  BY <1>4 DEF Types, CallType
<1>6. QED
  BY <1>1, <1>2, <1>4, <1>5 DEF Types

LEMMA FindsType ==
    ASSUME Types, HeldType, NEW d \in Dispatchers, findDispatchableInputQueueEntry(d)
    PROVE  Types' /\ HeldType'
<1> USE DEF findDispatchableInputQueueEntry
<1>1. /\ RoundsType' /\ SlotsType' /\ QueueType' /\ InterruptType' /\ WakingType' /\ BoundsType'
      /\ HistoryType'
  BY SameRounds, SameSlots, SameQueue, SameInterrupts, SameWaking, SameBounds, SameHistory
<1>2. d \in Callers /\ "idle" \in PCs /\ "pop" \in PCs /\ "idle" \notin HoldingPoints
  BY Kinds2 DEF HoldingPoints
<1>3. UNCHANGED <<used, wakes, busy>>
  BY DEF queueVars
<1>4. CASE Moves(d, "scan", "idle") /\ UNCHANGED held
  <2>1. pc' \in [Callers -> PCs] /\ HeldType'
    <3> HIDE DEF findDispatchableInputQueueEntry
    <3> QED BY <1>2, <1>3, <1>4, MovesType, MovesHeld
  <2>2. CallType'
    BY <1>3, <1>4, <2>1 DEF Types, CallType
  <2>3. QED
    BY <1>1, <2>1, <2>2 DEF Types
<1>5. CASE \E i \in queued : Moves(d, "scan", "pop") /\ held' = [held EXCEPT ![d] = i]
  <2>1. PICK i \in queued : Moves(d, "scan", "pop") /\ held' = [held EXCEPT ![d] = i]
    BY <1>5
  <2>2. pc' \in [Callers -> PCs] /\ \A e \in Callers : e # d => pc'[e] = pc[e]
    <3> HIDE DEF findDispatchableInputQueueEntry
    <3> QED BY <1>2, <2>1, MovesType
  <2>3. i \in used /\ i \in Items
    BY DEF Types, QueueType
  <2>4. CallType'
    BY <1>3, <2>1, <2>2, <2>3 DEF Types, CallType
  <2>5. HeldType'
    <3>1. held'[d] = i /\ \A e \in Dispatchers : e # d => held'[e] = held[e]
      BY <2>1 DEF Types, CallType
    <3>2. QED
      BY <1>3, <2>2, <2>3, <3>1, Kinds2 DEF HeldType
  <2>6. QED
    BY <1>1, <2>4, <2>5 DEF Types
<1>6. QED
  BY <1>4, <1>5

LEMMA DispatchType ==
    ASSUME Types, HeldType, NEW d \in Dispatchers, Dispatch(d)
    PROVE  Types' /\ HeldType'
<1> USE DEF Dispatch
<1>1. RoundsType' /\ SlotsType' /\ InterruptType' /\ WakingType' /\ BoundsType'
  BY SameRounds, SameSlots, SameInterrupts, SameWaking, SameBounds
<1> DEFINE first == FirstPoint(Policy(d))
<1>2. d \in Callers /\ first \in PCs /\ "pop" \in HoldingPoints
  BY Kinds2 DEF HoldingPoints, FirstPoint
<1>3. pc' \in [Callers -> PCs] /\ HeldType'
  <2>1. UNCHANGED held /\ used \subseteq used' /\ Moves(d, "pop", first)
    OBVIOUS
  <2> HIDE DEF Dispatch, first
  <2> QED BY <1>2, <2>1, MovesType, MovesHeld
<1>4. held[d] \in Items
  BY <1>2 DEF Moves, HeldType, Types, QueueType
<1>5. info[held[d]].wakes \in SUBSET Wakes
  BY <1>4 DEF Types, QueueType, ItemInfo
<1>6. CallType'
  BY <1>3, <1>5 DEF Types, CallType
<1>7. QueueType'
  BY DEF Types, QueueType
<1>8. HistoryType'
  BY <1>4 DEF Types, HistoryType
<1>9. QED
  BY <1>1, <1>3, <1>6, <1>7, <1>8 DEF Types

\* The dispatcher is done: it has no item any more.
LEMMA DispatcherStops ==
    ASSUME Types, HeldType, NEW d \in Dispatchers, NEW from, Moves(d, from, "idle"),
           held' = [held EXCEPT ![d] = Nothing], used \subseteq used',
           UNCHANGED <<wakes, busy>>
    PROVE  CallType' /\ HeldType'
<1>1. d \in Callers /\ "idle" \in PCs /\ "idle" \notin HoldingPoints
  BY Kinds2 DEF HoldingPoints
<1>2. pc' \in [Callers -> PCs] /\ pc'[d] = "idle" /\ \A e \in Callers : e # d => pc'[e] = pc[e]
  BY <1>1, MovesType
<1>3. \A e \in Dispatchers : e # d => held'[e] = held[e]
  BY DEF Types, CallType
<1>4. CallType'
  BY <1>2 DEF Types, CallType
<1>5. QED
  BY <1>1, <1>2, <1>3, <1>4, Kinds2 DEF HeldType

LEMMA DispatchFailsType ==
    ASSUME Types, HeldType, NEW d \in Dispatchers, DispatchFails(d)
    PROVE  Types' /\ HeldType'
<1> USE DEF DispatchFails
<1>1. RoundsType' /\ SlotsType' /\ QueueType' /\ InterruptType' /\ HistoryType'
  BY SameRounds, SameSlots, SameInterrupts, SameHistory DEF Types, QueueType
<1>2. CallType' /\ HeldType'
  BY DispatcherStops
<1>3. WakingType'
  BY DEF Types, WakingType
<1>4. BoundsType'
  BY FailsType DEF Types, BoundsType
<1>5. QED
  BY <1>1, <1>2, <1>3, <1>4 DEF Types

LEMMA SucceedsType ==
    ASSUME Types, HeldType, NEW d \in Dispatchers, DispatchSucceeded(d)
    PROVE  Types' /\ HeldType'
<1> USE DEF DispatchSucceeded
<1>1. RoundsType' /\ SlotsType' /\ QueueType' /\ InterruptType' /\ BoundsType' /\ HistoryType'
  BY SameRounds, SameSlots, SameQueue, SameInterrupts, SameBounds, SameHistory
<1>2. CallType' /\ HeldType'
  BY DispatcherStops DEF queueVars
<1>3. WakingType'
  BY WakeType, SameWaking
<1>4. QED
  BY <1>1, <1>2, <1>3 DEF Types

LEMMA RestoresType ==
    ASSUME Types, HeldType, NEW d \in Dispatchers, DispatchRestores(d)
    PROVE  Types' /\ HeldType'
<1> USE DEF DispatchRestores
<1>1. RoundsType' /\ SlotsType' /\ InterruptType' /\ HistoryType'
  BY SameRounds, SameSlots, SameInterrupts, SameHistory
<1>2. CallType' /\ HeldType'
  BY DispatcherStops
<1>3. held[d] \in used
  BY Kinds2 DEF Moves, HeldType, HoldingPoints
<1>4. QueueType'
  BY <1>3 DEF Types, QueueType
<1>5. WakingType'
  BY DEF Types, WakingType
<1>6. BoundsType'
  BY FailsType DEF Types, BoundsType
<1>7. QED
  BY <1>1, <1>2, <1>4, <1>5, <1>6 DEF Types

LEMMA EnqueueType ==
    ASSUME Types, HeldType, NEW agents \in SUBSET Agents, NEW policy \in {"queue", "interrupt"},
           Enqueue(agents, policy)
    PROVE  Types' /\ HeldType'
<1> DEFINE i == FreshItem
           new == [NoInfo EXCEPT !.chat = TRUE, !.policy = policy, !.wakes = {i} \X agents]
<1>1. /\ used # Items
      /\ used' = used \cup {i} /\ queued' = queued \cup {i}
      /\ info' = [info EXCEPT ![i] = new]
      /\ typed' = typed + 1
      /\ \/ Wake /\ UNCHANGED failures
         \/ Fails /\ unserved' = TRUE /\ UNCHANGED <<wake, late>>
      /\ UNCHANGED <<rounds, slots, callVars, interrupts, mentioned, history>>
  BY DEF Enqueue
<1>2. RoundsType' /\ SlotsType' /\ InterruptType' /\ HistoryType'
  BY <1>1, SameRounds, SameSlots, SameInterrupts, SameHistory
<1>3. CallType' /\ HeldType'
  BY <1>1, SameCalls
<1>4. i \in Items
  BY <1>1, FreshIsNew
<1>5. new \in ItemInfo
  <2> HIDE DEF i
  <2> QED BY <1>4, AudienceWakes DEF ItemInfo, NoInfo
<1> HIDE DEF i, new
<1>6. QueueType'
  BY <1>1, <1>4, <1>5 DEF Types, QueueType
<1>7. BoundsType'
  BY <1>1, FailsType DEF Types, BoundsType
<1>8. WakingType'
  BY <1>1, WakeType DEF Types, WakingType
<1>9. QED
  BY <1>2, <1>3, <1>6, <1>7, <1>8 DEF Types

LEMMA DeleteType ==
    ASSUME Types, HeldType, NEW i \in Items, Delete(i)
    PROVE  Types' /\ HeldType'
<1> USE DEF Delete
<1>1. RoundsType' /\ SlotsType' /\ InterruptType' /\ WakingType' /\ BoundsType' /\ HistoryType'
  BY SameRounds, SameSlots, SameInterrupts, SameWaking, SameBounds, SameHistory
<1>2. CallType' /\ HeldType'
  BY SameCalls
<1>3. QueueType'
  BY DEF Types, QueueType
<1>4. QED
  BY <1>1, <1>2, <1>3 DEF Types

LEMMA SubscribeType ==
    ASSUME Types, HeldType, Subscribe
    PROVE  Types' /\ HeldType'
<1> USE DEF Subscribe
<1>1. RoundsType' /\ SlotsType' /\ QueueType' /\ InterruptType' /\ BoundsType' /\ HistoryType'
  BY SameRounds, SameSlots, SameQueue, SameInterrupts, SameBounds, SameHistory
<1>2. CallType' /\ HeldType'
  BY SameCalls DEF queueVars
<1>3. WakingType'
  BY WakeType
<1>4. QED
  BY <1>1, <1>2, <1>3 DEF Types

---------------------------------------------------------------------------
(* Type correctness.                                                       *)

LEMMA TypeInit == Init => Types /\ HeldType
<1> SUFFICES ASSUME Init PROVE Types /\ HeldType
  OBVIOUS
<1> USE DEF Init
<1>1. RoundsType
  BY DEF RoundsType
<1>2. SlotsType
  BY DEF SlotsType, SlotPoints
<1>3. QueueType
  <2>1. NoInfo \in ItemInfo
    BY DEF ItemInfo, NoInfo
  <2>2. QED
    BY <2>1 DEF QueueType
<1>4. CallType
  BY DEF CallType, PCs
<1>5. InterruptType
  BY DEF InterruptType, Kinds
<1>6. WakingType /\ BoundsType /\ HistoryType
  <2>1. wake = 0 /\ late = FALSE /\ unserved = FALSE
    OBVIOUS
  <2>2. 0 \in 0 .. MaxWake
    OBVIOUS
  <2>3. WakingType
    BY <2>1, <2>2 DEF WakingType
  <2>4. QED
    BY <2>3 DEF BoundsType, HistoryType
<1>7. HeldType
  BY Kinds2 DEF HeldType, HoldingPoints
<1>8. QED
  BY <1>1, <1>2, <1>3, <1>4, <1>5, <1>6, <1>7 DEF Types

LEMMA CallStepType ==
    ASSUME Types, HeldType, NEW c \in Callers, CallStep(c)
    PROVE  Types' /\ HeldType'
<1>1. CASE StartStep(c)
  BY <1>1, LooksType, QueuesType, SnapshotType, CallFailsType, RegistersType DEF StartStep
<1>2. CASE c \in Senders /\ InterruptStep(c)
  BY <1>2, CollectsType, TargetsType, ReturnsType, ForceType, DoneType DEF InterruptStep
<1>3. CASE c \in Dispatchers /\ DispatcherStep(c)
  BY <1>3, BeginsType, FindsType, DispatchType, DispatchFailsType, SucceedsType, RestoresType
     DEF DispatcherStep
<1>4. CASE c \in Rounds /\ RunnerStep(c)
  BY <1>4, FinishesType, RunnerEndsType DEF RunnerStep
<1>5. QED
  BY <1>1, <1>2, <1>3, <1>4 DEF CallStep

LEMMA UserStepType == ASSUME Types, HeldType, UserStep PROVE Types' /\ HeldType'
<1>1. ASSUME NEW m \in Messages, NEW agents \in Audiences,
             NEW policy \in Choices \cap {"queue", "interrupt"}, HandleChat(m, agents, policy)
      PROVE  Types' /\ HeldType'
  <2>1. agents \in SUBSET Agents /\ policy \in {"queue", "interrupt"}
    OBVIOUS
  <2>2. QED
    BY <1>1, <2>1, HandleChatType
<1>2. ASSUME NEW agents \in Targets, NEW policy \in Policies, Enqueue(agents, policy)
      PROVE  Types' /\ HeldType'
  <2>1. agents \in SUBSET Agents /\ policy \in {"queue", "interrupt"}
    OBVIOUS
  <2>2. QED
    BY <1>2, <2>1, EnqueueType
<1>3. QED
  BY <1>1, <1>2, HandleInterruptType, GivesUpType, DeleteType, SubscribeType DEF UserStep

LEMMA TypeNext == ASSUME Types, HeldType, [Next]_vars PROVE Types' /\ HeldType'
<1>1. CASE UserStep
  BY <1>1, UserStepType
<1>2. CASE \E c \in Callers : CallStep(c)
  BY <1>2, CallStepType
<1>3. ASSUME NEW s \in Slots, SlotStep(s) \/ AgentStep(s) PROVE Types' /\ HeldType'
  BY <1>3, SlotStepsType
<1>4. ASSUME NEW s \in Slots, NEW l \in Messages, NEW agents \in Audiences,
             HandleDirectedMessage(l, s, agents)
      PROVE  Types' /\ HeldType'
  <2>1. agents \in SUBSET Agents
    OBVIOUS
  <2>2. QED
    BY <1>4, <2>1, HandleDirectedMessageType
<1>5. CASE UNCHANGED vars
  <2>1. /\ UNCHANGED rounds /\ UNCHANGED slots /\ UNCHANGED queueVars /\ UNCHANGED callVars
        /\ UNCHANGED interrupts /\ UNCHANGED waking /\ UNCHANGED bounds /\ UNCHANGED history
    BY <1>5 DEF vars
  <2>2. used \subseteq used'
    BY <2>1 DEF queueVars
  <2>3. QED
    BY <2>1, <2>2, SameRounds, SameSlots, SameQueue, SameCalls, SameInterrupts, SameWaking,
       SameBounds, SameHistory DEF Types
<1>6. QED
  BY <1>1, <1>2, <1>3, <1>4, <1>5 DEF Next

\* The state of a room keeps its types, and dispatchers have items that exist.
THEOREM TypesHold == Spec => [](Types /\ HeldType)
<1>1. Init => Types /\ HeldType
  BY TypeInit
<1>2. Types /\ HeldType /\ [Next]_vars => (Types /\ HeldType)'
  BY TypeNext
<1>3. QED
  BY <1>1, <1>2, PTL DEF Spec

\* Every variable of a room keeps its type, whatever the rounds, dispatchers
\* and messages do.
THEOREM TypeCorrect == Spec => []TypeOK
<1>1. Types <=> TypeOK
  BY TypesAreTypeOK
<1>2. QED
  BY <1>1, TypesHold, PTL

---------------------------------------------------------------------------
(* Chains of wakes.  A round counts its hops as the wakes behind it are    *)
(* counted; what it may still start, or has queued, has a hop left.        *)

\* Control points at which a call is to start a round or to queue a wake.
Starting == {"look", "enqueue", "snapshot", "register"}

RoundHops == \A r \in Rounds : chain[r] = hop[r] /\ hop[r] <= MaxHops

RunnerHops == \A r \in Rounds : pc[r] \in Starting => hop[r] < MaxHops

ItemHops ==
    \A i \in Items :
        /\ info[i].chain = info[i].hop /\ info[i].hop < MaxHops
        /\ info[i].chat => info[i].hop = 0

HopsCounted == RoundHops /\ RunnerHops /\ ItemHops

LEMMA SameHops ==
    ASSUME Types, HopsCounted, UNCHANGED <<hop, chain, info>>,
           \A r \in Rounds : pc'[r] \in Starting => pc[r] \in Starting
    PROVE  HopsCounted'
  BY DEF HopsCounted, RoundHops, RunnerHops, ItemHops

\* A step of a goroutine that is no runner, or of a runner that does not begin
\* to start a round.
LEMMA MoveSameHops ==
    ASSUME Types, HeldType, HopsCounted, UNCHANGED <<hop, chain, info>>,
           NEW c \in Callers, NEW from, NEW to \in PCs, Moves(c, from, to),
           c \in Rounds /\ to \in Starting => from \in Starting
    PROVE  HopsCounted'
<1>1. pc[c] = from /\ pc'[c] = to /\ \A d \in Callers : d # c => pc'[d] = pc[d]
  BY MovesType
<1>2. \A r \in Rounds : pc'[r] \in Starting => pc[r] \in Starting
  BY <1>1, Kinds2
<1>3. QED
  BY <1>2, SameHops

LEMMA ParentBounds ==
    ASSUME Types, HeldType, HopsCounted, NEW c \in Callers, pc[c] \in Starting
    PROVE  /\ ParentChain(c) = ParentHop(c) /\ ParentHop(c) < MaxHops
           /\ IsChat(c) => ParentChain(c) = 0
<1>1. CASE c \in Rounds
  BY <1>1, Kinds2 DEF HopsCounted, RoundHops, RunnerHops, ParentHop, ParentChain, IsChat
<1>2. CASE c \notin Rounds /\ c \in Dispatchers
  <2>1. held[c] \in Items
    BY <1>2 DEF HeldType, HoldingPoints, Starting, Types, QueueType
  <2>2. QED
    BY <1>2, <2>1, Kinds2 DEF HopsCounted, ItemHops, ParentHop, ParentChain, IsChat
<1>3. CASE c \notin Rounds /\ c \notin Dispatchers
  BY <1>3 DEF ParentHop, ParentChain
<1>4. QED
  BY <1>1, <1>2, <1>3

LEMMA RegistersHops ==
    ASSUME Types, HeldType, HopsCounted, NEW c \in Callers, registerRound(c)
    PROVE  HopsCounted'
<1> USE DEF registerRound
<1> DEFINE r == CHOOSE free \in FreeRounds : TRUE
<1>1. r \in Rounds /\ r \in Callers
  BY Kinds2 DEF FreeRounds
<1>2. /\ pc[c] = "register" /\ pc[c] \in Starting
      /\ pc' = [pc EXCEPT ![c] = "ok", ![r] = "running"]
      /\ hop' = [hop EXCEPT ![r] = IF IsChat(c) THEN 0 ELSE ParentHop(c) + 1]
      /\ chain' = [chain EXCEPT ![r] = IF IsChat(c) THEN ParentChain(c) ELSE ParentChain(c) + 1]
      /\ UNCHANGED info
  BY DEF Starting, queueVars
<1> HIDE DEF r, registerRound
<1>3. ParentHop(c) \in Nat /\ ParentChain(c) \in Nat
  BY <1>2, ParentType DEF HoldingPoints
<1>4. hop'[r] = chain'[r] /\ hop'[r] <= MaxHops
  BY <1>1, <1>2, <1>3, ParentBounds DEF Types, RoundsType
<1>5. \A o \in Rounds : o # r => hop'[o] = hop[o] /\ chain'[o] = chain[o]
  BY <1>2 DEF Types, RoundsType
<1>6. RoundHops'
  BY <1>4, <1>5 DEF HopsCounted, RoundHops
<1>7. pc'[r] = "running" /\ \A o \in Rounds : o # r => pc'[o] = pc[o] \/ pc'[o] = "ok"
  BY <1>1, <1>2, Kinds2 DEF Types, CallType
<1>8. RunnerHops'
  BY <1>5, <1>7 DEF HopsCounted, RunnerHops, Starting
<1>9. QED
  BY <1>2, <1>6, <1>8 DEF HopsCounted, ItemHops

LEMMA QueuesHops ==
    ASSUME Types, HeldType, HopsCounted, NEW c \in Callers, enqueueForActiveAgentSlots(c)
    PROVE  HopsCounted'
<1> DEFINE i == FreshItem
<1>1. PICK w \in busy[c], to \in Starting :
        /\ used # Items
        /\ Moves(c, "enqueue", to)
        /\ info' = QueueItem(c, w, i)
        /\ UNCHANGED <<hop, chain>>
  BY DEF enqueueForActiveAgentSlots, Starting, rounds
<1>2. i \in Items
  BY <1>1, FreshIsNew
<1>3. pc[c] = "enqueue" /\ pc[c] \in Starting
  BY <1>1 DEF Moves, Starting
<1> DEFINE h == IF IsChat(c) THEN 0 ELSE ParentHop(c)
           new == [chat |-> FALSE, policy |-> "queue", wakes |-> {w}, hop |-> h,
                   chain |-> ParentChain(c)]
<1>4. h = ParentChain(c) /\ h < MaxHops
  BY <1>3, ParentBounds
<1>5. info' = [info EXCEPT ![i] = new]
  BY <1>1 DEF QueueItem
<1>6. new.chain = new.hop /\ new.hop < MaxHops /\ ~new.chat
  <2> HIDE DEF h
  <2> QED BY <1>4
<1> HIDE DEF i, new
<1>7. ItemHops'
  BY <1>2, <1>5, <1>6 DEF HopsCounted, ItemHops, Types, QueueType
<1>8. to \in PCs /\ \A d \in Callers : d # c => pc'[d] = pc[d]
  BY <1>1, MovesType, Kinds2 DEF Starting
<1>9. \A r \in Rounds : pc'[r] \in Starting => pc[r] \in Starting
  BY <1>3, <1>8, Kinds2
<1>10. QED
  BY <1>1, <1>7, <1>9 DEF HopsCounted, RoundHops, RunnerHops

LEMMA EnqueueHops ==
    ASSUME Types, HeldType, HopsCounted, NEW agents, NEW policy, Enqueue(agents, policy)
    PROVE  HopsCounted'
<1> DEFINE i == FreshItem
           new == [NoInfo EXCEPT !.chat = TRUE, !.policy = policy, !.wakes = {i} \X agents]
<1>1. used # Items /\ info' = [info EXCEPT ![i] = new] /\ UNCHANGED <<hop, chain, pc>>
  BY DEF Enqueue, rounds, callVars
<1>2. i \in Items
  BY <1>1, FreshIsNew
<1>3. new.chain = new.hop /\ new.hop = 0 /\ new.hop < MaxHops
  <2> HIDE DEF i
  <2> QED BY DEF NoInfo
<1> HIDE DEF i, new
<1>4. ItemHops'
  BY <1>1, <1>2, <1>3 DEF HopsCounted, ItemHops, Types, QueueType
<1>5. QED
  BY <1>1, <1>4 DEF HopsCounted, RoundHops, RunnerHops

LEMMA FinishesHops ==
    ASSUME Types, HeldType, HopsCounted, NEW r \in Rounds, finishRound(r)
    PROVE  HopsCounted'
<1> DEFINE to == IF StartsMentions(r) THEN "look" ELSE "ok"
<1>1. Moves(r, "running", to) /\ UNCHANGED <<hop, chain, info>>
  BY DEF finishRound, queueVars
<1>2. r \in Callers /\ to \in PCs
  BY Kinds2
<1>3. pc'[r] = to /\ \A d \in Callers : d # r => pc'[d] = pc[d]
  <2> HIDE DEF to
  <2> QED BY <1>1, <1>2, MovesType
<1>4. to \in Starting => hop[r] < MaxHops
  BY DEF StartsMentions, Starting
<1> HIDE DEF to
<1>5. RunnerHops'
  BY <1>1, <1>3, <1>4, Kinds2 DEF HopsCounted, RunnerHops
<1>6. QED
  BY <1>1, <1>5 DEF HopsCounted, RoundHops, ItemHops

LEMMA RunnerEndsHops ==
    ASSUME Types, HeldType, HopsCounted, NEW r \in Rounds, RunnerEnds(r)
    PROVE  HopsCounted'
<1>1. PICK from : Moves(r, from, "done")
  BY DEF RunnerEnds, RunnerWakes
<1>2. r \in Callers /\ "done" \in PCs /\ "done" \notin Starting
  BY Kinds2 DEF Starting
<1>3. pc'[r] = "done" /\ \A d \in Callers : d # r => pc'[d] = pc[d]
  BY <1>1, <1>2, MovesType
<1>4. hop' = [hop EXCEPT ![r] = 0] /\ chain' = [chain EXCEPT ![r] = 0] /\ UNCHANGED info
  BY DEF RunnerEnds, queueVars
<1>5. \A o \in Rounds : o # r => hop'[o] = hop[o] /\ chain'[o] = chain[o] /\ pc'[o] = pc[o]
  BY <1>3, <1>4, Kinds2 DEF Types, RoundsType
<1>6. hop'[r] = 0 /\ chain'[r] = 0
  BY <1>4 DEF Types, RoundsType
<1>7. RoundHops'
  BY <1>5, <1>6 DEF HopsCounted, RoundHops
<1>8. RunnerHops'
  BY <1>2, <1>3, <1>5 DEF HopsCounted, RunnerHops
<1>9. QED
  BY <1>4, <1>7, <1>8 DEF HopsCounted, ItemHops

LEMMA LooksHops ==
    ASSUME Types, HeldType, HopsCounted, NEW c \in Callers, findActiveDeliverySlots(c) \/ CallFails(c)
           \/ broadcastRoomInputQueueSnapshot(c)
    PROVE  HopsCounted'
<1>1. UNCHANGED <<hop, chain, info>>
  BY DEF findActiveDeliverySlots, broadcastRoomInputQueueSnapshot, CallFails, rounds, queueVars
<1>2. PICK from \in Starting, to \in PCs : Moves(c, from, to)
  BY Kinds2 DEF findActiveDeliverySlots, broadcastRoomInputQueueSnapshot, CallFails, Starting
<1>3. QED
  BY <1>1, <1>2, MoveSameHops

LEMMA InterruptHops ==
    ASSUME Types, HeldType, HopsCounted, NEW m \in Senders, InterruptStep(m) \/ InterruptGivesUp(m)
    PROVE  HopsCounted'
<1> USE DEF InterruptStep, collectTargets, interruptTarget, InterruptReturns, ForceCancel,
            InterruptDone, InterruptGivesUp
<1>1. UNCHANGED <<hop, chain, info>>
  BY DEF rounds, queueVars
<1>2. PICK from, to \in PCs : Moves(m, from, to)
  BY Kinds2
<1>3. m \in Callers /\ m \notin Rounds
  BY Kinds2
<1>4. QED
  BY <1>1, <1>2, <1>3, MoveSameHops

LEMMA MessageHops ==
    ASSUME Types, HeldType, HopsCounted, NEW m \in Messages, NEW s, NEW agents, NEW policy,
           HandleChat(m, agents, policy) \/ HandleInterrupt(m) \/ HandleDirectedMessage(m, s, agents)
    PROVE  HopsCounted'
<1> USE DEF HandleChat, HandleInterrupt, HandleDirectedMessage
<1>1. UNCHANGED <<hop, chain, info>>
  BY DEF rounds, queueVars
<1>2. PICK from, to \in PCs : Moves(m, from, to)
  BY Kinds2 DEF FirstPoint
<1>3. m \in Callers /\ m \notin Rounds
  BY Kinds2
<1>4. QED
  BY <1>1, <1>2, <1>3, MoveSameHops

LEMMA DispatcherHops ==
    ASSUME Types, HeldType, HopsCounted, NEW d \in Dispatchers, DispatcherStep(d)
    PROVE  HopsCounted'
<1> USE DEF DispatcherStep, DispatcherBegins, findDispatchableInputQueueEntry, Dispatch,
            DispatchFails, DispatchSucceeded, DispatchRestores
<1>1. UNCHANGED <<hop, chain, info>>
  BY DEF rounds, queueVars
<1>2. PICK from, to \in PCs : Moves(d, from, to)
  BY Kinds2 DEF FirstPoint
<1>3. d \in Callers /\ d \notin Rounds
  BY Kinds2
<1>4. QED
  BY <1>1, <1>2, <1>3, MoveSameHops

LEMMA OtherHops ==
    ASSUME Types, HopsCounted,
           \/ \E s \in Slots : SlotStep(s) \/ AgentStep(s)
           \/ \E i \in Items : Delete(i)
           \/ Subscribe
           \/ UNCHANGED vars
    PROVE  HopsCounted'
<1>1. UNCHANGED <<hop, chain, info, pc>>
  <2>1. ASSUME NEW s \in Slots, SlotStep(s) \/ AgentStep(s) PROVE UNCHANGED <<hop, chain, info, pc>>
    BY <2>1 DEF SlotStep, AgentStep, SlotBegins, SlotEnds, SlotInterrupted, SlotCompletes,
       SlotFails, SlotMoves, queueVars, callVars
  <2>2. ASSUME NEW i \in Items, Delete(i) PROVE UNCHANGED <<hop, chain, info, pc>>
    BY <2>2 DEF Delete, rounds, callVars
  <2>3. CASE Subscribe
    BY <2>3 DEF Subscribe, rounds, queueVars, callVars
  <2>4. CASE UNCHANGED vars
    BY <2>4 DEF vars, rounds, queueVars, callVars
  <2>5. QED
    BY <2>1, <2>2, <2>3, <2>4
<1>2. QED
  BY <1>1, SameHops

LEMMA HopsInit == Init => HopsCounted
  BY DEF Init, NoInfo, HopsCounted, RoundHops, RunnerHops, ItemHops, Starting, Callers

LEMMA HopsNext == ASSUME Types, HeldType, HopsCounted, [Next]_vars PROVE HopsCounted'
<1>1. ASSUME NEW c \in Callers, CallStep(c) PROVE HopsCounted'
  BY <1>1, LooksHops, QueuesHops, RegistersHops, InterruptHops, DispatcherHops, FinishesHops,
     RunnerEndsHops DEF CallStep, StartStep, RunnerStep
<1>2. CASE UserStep
  <2>1. ASSUME NEW agents, NEW policy, Enqueue(agents, policy) PROVE HopsCounted'
    BY <2>1, EnqueueHops
  <2>2. QED
    BY <1>2, <2>1, MessageHops, InterruptHops, OtherHops DEF UserStep
<1>3. ASSUME NEW s \in Slots, NEW l \in Messages, NEW agents \in Audiences,
             HandleDirectedMessage(l, s, agents)
      PROVE  HopsCounted'
  BY <1>3, MessageHops
<1>4. QED
  BY <1>1, <1>2, <1>3, OtherHops DEF Next

\* A chain of mentions is at most MaxHops long, with any number of rounds,
\* queued wakes and dispatchers.
THEOREM ChainsAreBounded == Spec => []WakeChainBounded
<1>1. Init => HopsCounted
  BY HopsInit
<1>2. Types /\ HeldType /\ HopsCounted /\ [Next]_vars => HopsCounted'
  BY HopsNext
<1>3. HopsCounted => WakeChainBounded
  BY DEF HopsCounted, RoundHops, WakeChainBounded
<1>4. QED
  BY <1>1, <1>2, <1>3, TypesHold, PTL DEF Spec

---------------------------------------------------------------------------
(* Rounds that are found.  An item that was not dispatched twice is in one *)
(* place only: in the queue, with the dispatcher that took it out, or in   *)
(* the name of the round it was started as.                                *)

\* Control points at which a dispatcher has taken its item out of the queue.
Taken ==
    {"look", "enqueue", "snapshot", "register", "collect", "next", "waiting", "forced", "failed"}

Has(d, i) == pc[d] \in Taken /\ held[d] = i

QueuedOnly ==
    \A i \in queued \ repeated :
        (\A d \in Dispatchers : ~Has(d, i)) /\ \A r \in Rounds : key[r] # i

TakenOnly ==
    \A i \in Items \ repeated : \A d \in Dispatchers :
        Has(d, i) => /\ \A e \in Dispatchers : Has(e, i) => e = d
                     /\ \A r \in Rounds : key[r] # i

StartedOnly ==
    \A i \in Items \ repeated : \A r, o \in Rounds : key[r] = i /\ key[o] = i => r = o

KeysOwned == \A r \in Rounds : key[r] = r \/ key[r] \in used

Found == QueuedOnly /\ TakenOnly /\ StartedOnly /\ KeysOwned /\ RoundsAreFound

\* A step that takes nothing out of the queue and starts no round.
LEMMA SameFound ==
    ASSUME Types, Found, UNCHANGED <<activeRounds, key>>, queued' \subseteq queued,
           used \subseteq used', repeated \subseteq repeated',
           \A d \in Dispatchers : pc'[d] \in Taken => pc[d] \in Taken /\ held'[d] = held[d],
           \A r \in Rounds : pc'[r] = "running" => pc[r] = "running"
    PROVE  Found'
<1> USE DEF Found
<1>1. \A d \in Dispatchers, i \in Items : Has(d, i)' => Has(d, i)
  BY DEF Has
<1>2. queued' \subseteq Items
  BY DEF Types, QueueType
<1>3. QueuedOnly'
  BY <1>1, <1>2 DEF QueuedOnly
<1>4. TakenOnly'
  BY <1>1 DEF TakenOnly
<1>5. StartedOnly' /\ KeysOwned'
  BY DEF StartedOnly, KeysOwned
<1>6. RoundsAreFound'
  BY DEF RoundsAreFound, Registered
<1>7. QED
  BY <1>3, <1>4, <1>5, <1>6

LEMMA MoveSameFound ==
    ASSUME Types, HeldType, Found, UNCHANGED <<activeRounds, key>>, queued' \subseteq queued,
           used \subseteq used', repeated \subseteq repeated',
           NEW c \in Callers, NEW from, NEW to \in PCs, Moves(c, from, to),
           c \in Rounds => to # "running",
           c \in Dispatchers /\ to \in Taken => from \in Taken /\ UNCHANGED held,
           \A d \in Dispatchers : d # c => held'[d] = held[d]
    PROVE  Found'
<1>1. pc[c] = from /\ pc'[c] = to /\ \A d \in Callers : d # c => pc'[d] = pc[d]
  BY MovesType
<1>2. \A d \in Dispatchers : pc'[d] \in Taken => pc[d] \in Taken /\ held'[d] = held[d]
  BY <1>1, Kinds2
<1>3. \A r \in Rounds : pc'[r] = "running" => pc[r] = "running"
  BY <1>1, Kinds2
<1>4. QED
  BY <1>2, <1>3, SameFound

\* An item that has a new id is nowhere else.
LEMMA NewFound ==
    ASSUME Types, HeldType, Found, NEW i \in Items \ used, queued' = queued \cup {i},
           used' = used \cup {i}, UNCHANGED <<activeRounds, key, repeated>>,
           \A d \in Dispatchers : pc'[d] \in Taken => pc[d] \in Taken /\ held'[d] = held[d],
           \A r \in Rounds : pc'[r] = "running" => pc[r] = "running"
    PROVE  Found'
<1> USE DEF Found
<1>1. \A d \in Dispatchers, j \in Items : Has(d, j)' => Has(d, j)
  BY DEF Has
<1>2. \A d \in Dispatchers : ~Has(d, i)
  BY DEF Has, HeldType, Taken, HoldingPoints
<1>3. \A r \in Rounds : key[r] # i
  BY DEF KeysOwned
<1>4. queued \subseteq Items
  BY DEF Types, QueueType
<1>5. QueuedOnly'
  BY <1>1, <1>2, <1>3, <1>4 DEF QueuedOnly
<1>6. TakenOnly'
  BY <1>1 DEF TakenOnly
<1>7. StartedOnly' /\ KeysOwned'
  BY DEF StartedOnly, KeysOwned
<1>8. RoundsAreFound'
  BY DEF RoundsAreFound, Registered
<1>9. QED
  BY <1>5, <1>6, <1>7, <1>8

LEMMA DispatchFound ==
    ASSUME Types, HeldType, Found, NEW d \in Dispatchers, Dispatch(d)
    PROVE  Found'
<1> USE DEF Found
<1> DEFINE i == held[d]
           first == FirstPoint(Policy(d))
<1>1. /\ queued' = queued \ {i}
      /\ repeated' = IF i \in queued THEN repeated ELSE repeated \cup {i}
      /\ UNCHANGED <<activeRounds, key, used, held>>
      /\ Moves(d, "pop", first)
  BY DEF Dispatch, rounds
<1>2. d \in Callers /\ first \in PCs
  BY Kinds2 DEF FirstPoint
<1> HIDE DEF first
<1>3. pc'[d] = first /\ \A e \in Callers : e # d => pc'[e] = pc[e]
  BY <1>1, <1>2, MovesType
<1>4. \A e \in Dispatchers : e # d => pc'[e] = pc[e]
  BY <1>3, Kinds2
<1>5. \A r \in Rounds : pc'[r] = pc[r]
  BY <1>3, Kinds2
<1>6. \A j : \A e \in Dispatchers : j # i \/ e # d => (Has(e, j)' => Has(e, j))
  BY <1>1, <1>4 DEF Has
<1>7. i \notin repeated' => i \in queued /\ i \notin repeated
  BY <1>1
<1>8. repeated \subseteq repeated' /\ queued \subseteq Items
  BY <1>1 DEF Types, QueueType
<1> HIDE DEF i
<1>9. QueuedOnly'
  BY <1>1, <1>6, <1>8 DEF QueuedOnly
<1>10. TakenOnly'
  <2>1. ASSUME NEW j \in Items \ repeated', NEW e \in Dispatchers, Has(e, j)'
        PROVE  (\A f \in Dispatchers : Has(f, j)' => f = e) /\ \A r \in Rounds : key'[r] # j
    <3>1. CASE j # i
      BY <1>1, <1>6, <1>8, <2>1, <3>1 DEF TakenOnly
    <3>2. CASE j = i
      <4>1. (\A f \in Dispatchers : ~Has(f, i)) /\ \A r \in Rounds : key[r] # i
        BY <1>7, <2>1, <3>2 DEF QueuedOnly
      <4>2. \A f \in Dispatchers : Has(f, j)' => f = d
        BY <1>6, <3>2, <4>1
      <4>3. QED
        BY <1>1, <2>1, <3>2, <4>1, <4>2
    <3>3. QED
      BY <3>1, <3>2
  <2>2. QED
    BY <2>1 DEF TakenOnly
<1>11. StartedOnly' /\ KeysOwned'
  BY <1>1, <1>8 DEF StartedOnly, KeysOwned
<1>12. RoundsAreFound'
  BY <1>1, <1>5, <1>8 DEF RoundsAreFound, Registered
<1>13. QED
  BY <1>9, <1>10, <1>11, <1>12

LEMMA RestoresFound ==
    ASSUME Types, HeldType, Found, NEW d \in Dispatchers, DispatchRestores(d)
    PROVE  Found'
<1> USE DEF Found
<1> DEFINE i == held[d]
<1>1. /\ Moves(d, "failed", "idle")
      /\ held' = [held EXCEPT ![d] = Nothing]
      /\ queued' \subseteq queued \cup {i}
      /\ UNCHANGED <<activeRounds, key, used, repeated>>
  BY DEF DispatchRestores, rounds, history
<1>2. d \in Callers /\ "idle" \in PCs /\ "idle" \notin Taken /\ "failed" \in Taken
  BY Kinds2 DEF Taken
<1>3. pc[d] = "failed" /\ pc'[d] = "idle" /\ \A e \in Callers : e # d => pc'[e] = pc[e]
  BY <1>1, <1>2, MovesType
<1>4. \A e \in Dispatchers : e # d => pc'[e] = pc[e] /\ held'[e] = held[e]
  BY <1>1, <1>3, Kinds2 DEF Types, CallType
<1>5. \A r \in Rounds : pc'[r] = pc[r]
  BY <1>3, Kinds2
<1>6. \A j : \A e \in Dispatchers : Has(e, j)' => e # d /\ Has(e, j)
  BY <1>2, <1>3, <1>4 DEF Has
<1>7. Has(d, i) /\ i \in Items
  BY <1>2, <1>3 DEF Has, HeldType, HoldingPoints, Types, QueueType
<1>8. queued \subseteq Items
  BY DEF Types, QueueType
<1> HIDE DEF i
<1>9. QueuedOnly'
  BY <1>1, <1>6, <1>7, <1>8 DEF QueuedOnly, TakenOnly
<1>10. TakenOnly'
  BY <1>1, <1>6 DEF TakenOnly
<1>11. StartedOnly' /\ KeysOwned'
  BY <1>1 DEF StartedOnly, KeysOwned
<1>12. RoundsAreFound'
  BY <1>1, <1>5 DEF RoundsAreFound, Registered
<1>13. QED
  BY <1>9, <1>10, <1>11, <1>12

LEMMA RegistersFound ==
    ASSUME Types, HeldType, Found, NEW c \in Callers, registerRound(c)
    PROVE  Found'
<1> USE DEF Found
<1> DEFINE r == CHOOSE free \in FreeRounds : TRUE
           k == RoundKey(c, r)
<1>1. r \in Rounds /\ r \in Callers /\ r \notin Dispatchers /\ pc[r] = "idle"
  BY Kinds2 DEF FreeRounds, registerRound
<1>2. /\ pc[c] = "register"
      /\ pc' = [pc EXCEPT ![c] = "ok", ![r] = "running"]
      /\ key' = [key EXCEPT ![r] = k]
      /\ activeRounds' = [activeRounds EXCEPT ![k] = r]
      /\ UNCHANGED <<queued, used, held, repeated>>
  BY DEF registerRound, queueVars
<1> HIDE DEF r
<1>3. c # r
  BY <1>1, <1>2
<1>4. /\ pc'[r] = "running" /\ pc'[c] = "ok"
      /\ \A e \in Callers : e # c /\ e # r => pc'[e] = pc[e]
  BY <1>1, <1>2, <1>3 DEF Types, CallType
<1>5. \A j : \A e \in Dispatchers : Has(e, j)' => e # c /\ Has(e, j)
  BY <1>1, <1>2, <1>4, Kinds2 DEF Has, Taken
<1>6. k = r \/ (c \in Dispatchers /\ k = held[c] /\ Has(c, k) /\ k \in used /\ k \in Items)
  BY <1>2 DEF RoundKey, Has, Taken, HeldType, HoldingPoints, Types, QueueType
<1>7. key'[r] = k /\ \A o \in Rounds : o # r => key'[o] = key[o]
  BY <1>1, <1>2 DEF Types, RoundsType
<1>8. \A o \in Rounds : o # r => pc'[o] = pc[o] \/ pc'[o] = "ok"
  BY <1>4, Kinds2
<1>9. queued \subseteq Items /\ used \subseteq Items
  BY DEF Types, QueueType
<1>10. \A o \in Rounds : o # r /\ key[o] = k => k \in repeated
  BY <1>1, <1>6, <1>9 DEF KeysOwned, TakenOnly
<1> HIDE DEF k
<1>11. QueuedOnly'
  <2>1. \A j \in queued \ repeated : j # k
    BY <1>1, <1>6, <1>9 DEF QueuedOnly
  <2>2. QED
    BY <1>2, <1>5, <1>7, <2>1 DEF QueuedOnly
<1>12. TakenOnly'
  <2>1. ASSUME NEW j \in Items \ repeated, NEW e \in Dispatchers, Has(e, j)' PROVE j # k
    BY <1>1, <1>5, <1>6, <2>1 DEF TakenOnly
  <2>2. QED
    BY <1>2, <1>5, <1>7, <2>1 DEF TakenOnly
<1>13. StartedOnly'
  BY <1>2, <1>7, <1>10 DEF StartedOnly
<1>14. KeysOwned'
  BY <1>2, <1>6, <1>7 DEF KeysOwned
<1>15. RoundsAreFound'
  <2>1. ASSUME NEW o \in Rounds, pc'[o] = "running"
        PROVE  activeRounds'[key'[o]] = o \/ key'[o] \in repeated
    <3>1. CASE o = r
      <4>1. k \in Items \cup Rounds
        BY <1>1, <1>6
      <4>2. QED
        BY <1>2, <1>7, <3>1, <4>1 DEF Types, RoundsType
    <3>2. CASE o # r
      <4>1. pc[o] = "running" /\ key'[o] = key[o]
        BY <1>7, <1>8, <2>1, <3>2
      <4>2. CASE key[o] = k
        BY <1>10, <3>2, <4>1, <4>2
      <4>3. CASE key[o] # k
        BY <1>2, <4>1, <4>3 DEF RoundsAreFound, Registered, Types, RoundsType
      <4>4. QED
        BY <4>2, <4>3
    <3>3. QED
      BY <3>1, <3>2
  <2>2. QED
    BY <1>2, <2>1 DEF RoundsAreFound, Registered
<1>16. QED
  BY <1>11, <1>12, <1>13, <1>14, <1>15

LEMMA FinishesFound ==
    ASSUME Types, HeldType, Found, NEW r \in Rounds, finishRound(r)
    PROVE  Found'
<1> USE DEF Found
<1> DEFINE to == IF StartsMentions(r) THEN "look" ELSE "ok"
<1>1. /\ Moves(r, "running", to)
      /\ activeRounds' = [activeRounds EXCEPT ![key[r]] = Nothing]
      /\ UNCHANGED <<key, queued, used, held, repeated>>
  BY DEF finishRound, queueVars, history
<1>2. r \in Callers /\ to \in PCs /\ to # "running"
  BY Kinds2
<1>3. pc[r] = "running" /\ pc'[r] = to /\ \A e \in Callers : e # r => pc'[e] = pc[e]
  <2> HIDE DEF to
  <2> QED BY <1>1, <1>2, MovesType
<1> HIDE DEF to
<1>4. \A j : \A e \in Dispatchers : Has(e, j)' <=> Has(e, j)
  BY <1>1, <1>3, Kinds2 DEF Has
<1>5. QueuedOnly' /\ TakenOnly' /\ StartedOnly' /\ KeysOwned'
  BY <1>1, <1>4 DEF QueuedOnly, TakenOnly, StartedOnly, KeysOwned
<1>6. RoundsAreFound'
  <2>1. ASSUME NEW o \in Rounds, pc'[o] = "running"
        PROVE  activeRounds'[key[o]] = o \/ key[o] \in repeated
    <3>1. o # r /\ pc[o] = "running"
      BY <1>2, <1>3, <2>1, Kinds2
    <3>2. CASE key[o] = key[r]
      <4>1. key[o] \in Items
        BY <3>1, <3>2 DEF KeysOwned, Types, QueueType
      <4>2. QED
        BY <3>1, <3>2, <4>1 DEF StartedOnly
    <3>3. CASE key[o] # key[r]
      BY <1>1, <3>1, <3>3 DEF RoundsAreFound, Registered, Types, RoundsType
    <3>4. QED
      BY <3>2, <3>3
  <2>2. QED
    BY <1>1, <2>1 DEF RoundsAreFound, Registered
<1>7. QED
  BY <1>5, <1>6

LEMMA RunnerEndsFound ==
    ASSUME Types, HeldType, Found, NEW r \in Rounds, RunnerEnds(r)
    PROVE  Found'
<1> USE DEF Found
<1>1. PICK from : Moves(r, from, "done")
  BY DEF RunnerEnds, RunnerWakes
<1>2. r \in Callers /\ "done" \in PCs
  BY Kinds2
<1>3. pc'[r] = "done" /\ \A e \in Callers : e # r => pc'[e] = pc[e]
  BY <1>1, <1>2, MovesType
<1>4. key' = [key EXCEPT ![r] = r] /\ UNCHANGED <<activeRounds, queued, used, held, repeated>>
  BY DEF RunnerEnds, queueVars, history
<1>5. \A j : \A e \in Dispatchers : Has(e, j)' <=> Has(e, j)
  BY <1>3, <1>4, Kinds2 DEF Has
<1>6. key'[r] = r /\ \A o \in Rounds : o # r => key'[o] = key[o] /\ pc'[o] = pc[o]
  BY <1>3, <1>4, Kinds2 DEF Types, RoundsType
<1>7. r \notin Items /\ queued \subseteq Items
  BY DEF Types, QueueType
<1>8. QueuedOnly' /\ TakenOnly' /\ StartedOnly' /\ KeysOwned'
  BY <1>4, <1>5, <1>6, <1>7 DEF QueuedOnly, TakenOnly, StartedOnly, KeysOwned
<1>9. RoundsAreFound'
  BY <1>3, <1>4, <1>6 DEF RoundsAreFound, Registered
<1>10. QED
  BY <1>8, <1>9

LEMMA QueuesFound ==
    ASSUME Types, HeldType, Found, NEW c \in Callers, enqueueForActiveAgentSlots(c)
    PROVE  Found'
<1> DEFINE i == FreshItem
<1>1. PICK to \in {"enqueue", "snapshot"} :
        /\ used # Items
        /\ Moves(c, "enqueue", to)
        /\ queued' = queued \cup {i} /\ used' = used \cup {i}
        /\ UNCHANGED <<activeRounds, key, held, repeated>>
  BY DEF enqueueForActiveAgentSlots, rounds, history
<1>2. i \in Items \ used
  BY <1>1, FreshIsNew
<1>3. pc[c] = "enqueue" /\ pc'[c] = to /\ \A d \in Callers : d # c => pc'[d] = pc[d]
  BY <1>1, MovesType, Kinds2
<1>4. \A d \in Dispatchers : pc'[d] \in Taken => pc[d] \in Taken /\ held'[d] = held[d]
  BY <1>1, <1>3, Kinds2 DEF Taken
<1>5. \A r \in Rounds : pc'[r] = "running" => pc[r] = "running"
  BY <1>3, Kinds2
<1> HIDE DEF i
<1>6. QED
  BY <1>1, <1>2, <1>4, <1>5, NewFound

LEMMA EnqueueFound ==
    ASSUME Types, HeldType, Found, NEW agents, NEW policy, Enqueue(agents, policy)
    PROVE  Found'
<1> DEFINE i == FreshItem
<1>1. /\ used # Items /\ queued' = queued \cup {i} /\ used' = used \cup {i}
      /\ UNCHANGED <<activeRounds, key, held, pc, repeated>>
  BY DEF Enqueue, rounds, callVars, history
<1>2. i \in Items \ used
  BY <1>1, FreshIsNew
<1> HIDE DEF i
<1>3. QED
  BY <1>1, <1>2, NewFound

LEMMA LooksFound ==
    ASSUME Types, HeldType, Found, NEW c \in Callers,
           findActiveDeliverySlots(c) \/ broadcastRoomInputQueueSnapshot(c) \/ CallFails(c)
    PROVE  Found'
<1>1. UNCHANGED <<activeRounds, key, queued, used, held>> /\ repeated \subseteq repeated'
  BY DEF findActiveDeliverySlots, broadcastRoomInputQueueSnapshot, CallFails, rounds, queueVars,
     history
<1>2. PICK from \in Taken, to \in PCs \ {"running"} : Moves(c, from, to)
  BY Kinds2 DEF findActiveDeliverySlots, broadcastRoomInputQueueSnapshot, CallFails, Taken
<1>3. QED
  BY <1>1, <1>2, MoveSameFound

LEMMA InterruptFound ==
    ASSUME Types, HeldType, Found, NEW c \in Senders, InterruptStep(c) \/ InterruptGivesUp(c)
    PROVE  Found'
<1> USE DEF InterruptStep, collectTargets, interruptTarget, InterruptReturns, ForceCancel,
            InterruptDone, InterruptGivesUp
<1>1. UNCHANGED <<activeRounds, key, queued, used, held, repeated>>
  BY DEF rounds, queueVars, history
<1>2. PICK from \in Taken, to \in PCs : Moves(c, from, to)
  BY Kinds2 DEF Taken
<1>3. c \in Callers /\ c \notin Rounds
  BY Kinds2
<1>4. QED
  BY <1>1, <1>2, <1>3, MoveSameFound

LEMMA MessageFound ==
    ASSUME Types, HeldType, Found, NEW m \in Messages, NEW s, NEW agents, NEW policy,
           \/ HandleChat(m, agents, policy) \/ HandleInterrupt(m)
           \/ HandleDirectedMessage(m, s, agents)
    PROVE  Found'
<1> USE DEF HandleChat, HandleInterrupt, HandleDirectedMessage
<1>1. UNCHANGED <<activeRounds, key, queued, used, held, repeated>>
  BY DEF rounds, queueVars, history
<1>2. PICK from, to \in PCs : Moves(m, from, to)
  BY Kinds2 DEF FirstPoint
<1>3. m \in Callers /\ m \notin Rounds /\ m \notin Dispatchers
  BY Kinds2
<1>4. QED
  BY <1>1, <1>2, <1>3, MoveSameFound

LEMMA DispatcherFound ==
    ASSUME Types, HeldType, Found, NEW d \in Dispatchers, DispatcherStep(d)
    PROVE  Found'
<1>1. CASE Dispatch(d)
  BY <1>1, DispatchFound
<1>2. CASE DispatchRestores(d)
  BY <1>2, RestoresFound
<1>3. CASE \/ DispatcherBegins(d) \/ findDispatchableInputQueueEntry(d)
           \/ DispatchFails(d) \/ DispatchSucceeded(d)
  <2> USE DEF DispatcherBegins, findDispatchableInputQueueEntry, DispatchFails, DispatchSucceeded
  <2>1. UNCHANGED <<activeRounds, key, used, repeated>> /\ queued' \subseteq queued
    BY <1>3 DEF rounds, queueVars, history
  <2>2. PICK from \in PCs, to \in {"idle", "scan", "pop"} : Moves(d, from, to)
    BY <1>3, Kinds2
  <2>3. d \in Callers /\ d \notin Rounds /\ to \in PCs /\ to \notin Taken
    BY Kinds2 DEF Taken
  <2>4. \A e \in Dispatchers : e # d => held'[e] = held[e]
    BY <1>3 DEF Types, CallType
  <2>5. QED
    BY <2>1, <2>2, <2>3, <2>4, MoveSameFound
<1>4. QED
  BY <1>1, <1>2, <1>3 DEF DispatcherStep

LEMMA OtherFound ==
    ASSUME Types, Found,
           \/ \E s \in Slots : SlotStep(s) \/ AgentStep(s)
           \/ \E i \in Items : Delete(i)
           \/ Subscribe
           \/ UNCHANGED vars
    PROVE  Found'
<1> DEFINE Kept == UNCHANGED <<activeRounds, key, used, held, repeated, pc>> /\ queued' \subseteq queued
<1>1. Kept
  <2>1. ASSUME NEW s \in Slots, SlotStep(s) \/ AgentStep(s) PROVE Kept
    BY <2>1 DEF SlotStep, AgentStep, SlotBegins, SlotEnds, SlotInterrupted, SlotCompletes,
       SlotFails, SlotMoves, queueVars, callVars, history
  <2>2. ASSUME NEW i \in Items, Delete(i) PROVE Kept
    BY <2>2 DEF Delete, rounds, callVars, history
  <2>3. CASE Subscribe
    BY <2>3 DEF Subscribe, rounds, queueVars, callVars, history
  <2>4. CASE UNCHANGED vars
    BY <2>4 DEF vars, rounds, queueVars, callVars, history
  <2>5. QED
    BY <2>1, <2>2, <2>3, <2>4
<1>2. QED
  BY <1>1, SameFound

LEMMA FoundInit == Init => Found
<1> SUFFICES ASSUME Init PROVE Found
  OBVIOUS
<1>1. \A i : \A d \in Dispatchers : ~Has(d, i)
  BY DEF Init, Has, Taken, Callers
<1>2. \A r \in Rounds : key[r] = r /\ pc[r] = "idle"
  BY DEF Init, Callers
<1>3. QED
  BY <1>1, <1>2 DEF Init, Found, QueuedOnly, TakenOnly, StartedOnly, KeysOwned, RoundsAreFound

LEMMA FoundNext == ASSUME Types, HeldType, Found, [Next]_vars PROVE Found'
<1>1. ASSUME NEW c \in Callers, CallStep(c) PROVE Found'
  BY <1>1, LooksFound, QueuesFound, RegistersFound, InterruptFound, DispatcherFound,
     FinishesFound, RunnerEndsFound DEF CallStep, StartStep, RunnerStep
<1>2. CASE UserStep
  BY <1>2, MessageFound, InterruptFound, EnqueueFound, OtherFound DEF UserStep
<1>3. ASSUME NEW s \in Slots, NEW l \in Messages, NEW agents \in Audiences,
             HandleDirectedMessage(l, s, agents)
      PROVE  Found'
  BY <1>3, MessageFound
<1>4. QED
  BY <1>1, <1>2, <1>3, OtherFound DEF Next

\* A round with slots at work is in the registry under its id, so that
\* interrupts and new messages find it, unless its item was dispatched twice.
THEOREM RunningRoundsAreFound == Spec => []RoundsAreFound
<1>1. Init => Found
  BY FoundInit
<1>2. Types /\ HeldType /\ Found /\ [Next]_vars => Found'
  BY FoundNext
<1>3. Found => RoundsAreFound
  BY DEF Found
<1>4. QED
  BY <1>1, <1>2, <1>3, TypesHold, PTL DEF Spec

---------------------------------------------------------------------------
(* Wakes that get one slot.  A wake of no repeated item is in one place    *)
(* only: with a call, among the mentions of a round, in the queue, with a  *)
(* dispatcher that failed and will restore it, or served.                  *)

\* The wakes of items that were dispatched twice.
Repeated == UNION {info[i].wakes : i \in repeated}

PlaceKinds == {"call", "reply", "queue", "failed", "served"}
Owners == Callers \cup Items \cup {Nothing}

In(k, x, w) ==
    \/ k = "call" /\ x \in Callers /\ w \in wakes[x]
    \/ k = "reply" /\ x \in Rounds /\ w \in mentions[x]
    \/ k = "queue" /\ x \in queued /\ w \in info[x].wakes
    \/ k = "failed" /\ x \in Dispatchers /\ pc[x] = "failed" /\ w \in info[held[x]].wakes
    \/ k = "served" /\ x = Nothing /\ w \in served

OnePlace ==
    \A k, l \in PlaceKinds, x, y \in Owners, w \in Wakes \ Repeated :
        In(k, x, w) /\ In(l, y, w) => k = l /\ x = y

\* What a wake comes from is there before the wake.
Made(o) ==
    \/ o \in Messages /\ pc[o] # "idle"
    \/ o \in used
    \/ o \in Slots /\ at[o] = "done"

AllMade ==
    \A k \in PlaceKinds, x \in Owners, w \in Wakes \ Repeated : In(k, x, w) => Made(w[1])

RepeatedUsed == repeated \subseteq used

IdleIsEmpty == \A s \in Slots : pc[s[1]] = "idle" => at[s] = "none"

\* What a call is about to queue are wakes that it has.
BusyKept == \A c \in Callers : pc[c] = "enqueue" => busy[c] \subseteq wakes[c]

\* Control points of an interrupt.
Stopping == {"collect", "next", "waiting", "forced"}

\* A dispatcher that interrupts what its agents do still has all wakes of its item.
Intact == \A d \in Dispatchers : pc[d] \in Stopping => info[held[d]].wakes \subseteq wakes[d]

Once == OnePlace /\ AllMade /\ RepeatedUsed /\ IdleIsEmpty /\ WakesServedOnce

\* In a step, every wake of a place was there before, or has moved from one
\* place to another with the others that moved.
MoveOf(moved, from, a, to, b) ==
    \A k \in PlaceKinds, x \in Owners, w \in Wakes \ Repeated' :
        In(k, x, w)' =>
            \/ In(k, x, w) /\ ~(k = from /\ x = a /\ w \in moved)
            \/ k = to /\ x = b /\ w \in moved /\ In(from, a, w)

LEMMA MovesOnce ==
    ASSUME OnePlace, AllMade, Repeated \subseteq Repeated',
           \A w \in Wakes : Made(w[1]) => Made(w[1])',
           NEW moved, NEW from \in PlaceKinds, NEW a \in Owners, NEW to, NEW b,
           MoveOf(moved, from, a, to, b)
    PROVE  OnePlace' /\ AllMade'
<1> USE DEF MoveOf
<1>1. ASSUME NEW k \in PlaceKinds, NEW l \in PlaceKinds, NEW x \in Owners, NEW y \in Owners,
             NEW w \in Wakes \ Repeated', In(k, x, w)', In(l, y, w)'
      PROVE  k = l /\ x = y
  BY <1>1 DEF OnePlace
<1>2. OnePlace'
  BY <1>1 DEF OnePlace
<1>3. ASSUME NEW k \in PlaceKinds, NEW x \in Owners, NEW w \in Wakes \ Repeated', In(k, x, w)'
      PROVE  Made(w[1])'
  BY <1>3 DEF AllMade
<1>4. AllMade'
  BY <1>3 DEF AllMade
<1>5. QED
  BY <1>2, <1>4

\* In a step, no wake moves.
LEMMA StaysOnce ==
    ASSUME OnePlace, AllMade, Repeated \subseteq Repeated',
           \A w \in Wakes : Made(w[1]) => Made(w[1])',
           \A k \in PlaceKinds, x \in Owners, w \in Wakes \ Repeated' :
               In(k, x, w)' => In(k, x, w)
    PROVE  OnePlace' /\ AllMade'
<1>1. OnePlace'
  BY DEF OnePlace
<1>2. AllMade'
  BY DEF AllMade
<1>3. QED
  BY <1>1, <1>2

\* In a step, wakes are made of something new, in one place.
LEMMA NewOnce ==
    ASSUME OnePlace, AllMade, Repeated \subseteq Repeated',
           \A w \in Wakes : Made(w[1]) => Made(w[1])',
           NEW o, ~Made(o), Made(o)', NEW to, NEW b,
           \A k \in PlaceKinds, x \in Owners, w \in Wakes \ Repeated' :
               In(k, x, w)' => In(k, x, w) \/ (k = to /\ x = b /\ w[1] = o)
    PROVE  OnePlace' /\ AllMade'
<1>1. ASSUME NEW k \in PlaceKinds, NEW l \in PlaceKinds, NEW x \in Owners, NEW y \in Owners,
             NEW w \in Wakes \ Repeated', In(k, x, w)', In(l, y, w)'
      PROVE  k = l /\ x = y
  BY <1>1 DEF OnePlace, AllMade
<1>2. OnePlace'
  BY <1>1 DEF OnePlace
<1>3. ASSUME NEW k \in PlaceKinds, NEW x \in Owners, NEW w \in Wakes \ Repeated', In(k, x, w)'
      PROVE  Made(w[1])'
  <2>1. CASE In(k, x, w)
    BY <2>1 DEF AllMade
  <2>2. CASE w[1] = o
    BY <2>2
  <2>3. QED
    BY <1>3, <2>1, <2>2
<1>4. AllMade'
  BY <1>3 DEF AllMade
<1>5. QED
  BY <1>2, <1>4

LEMMA RepeatedGrows ==
    ASSUME Types, RepeatedUsed, repeated \subseteq repeated', \A i \in used : info'[i] = info[i]
    PROVE  Repeated \subseteq Repeated'
  BY DEF Repeated, RepeatedUsed

LEMMA MadeStays ==
    ASSUME Types, used \subseteq used',
           \A m \in Messages : pc'[m] = "idle" => pc[m] = "idle",
           \A s \in Slots : at[s] = "done" => at'[s] = "done"
    PROVE  \A w \in Wakes : Made(w[1]) => Made(w[1])'
  BY DEF Made

\* Messages and rounds do not become idle again.
LEMMA NeverIdle ==
    ASSUME Types, HeldType, NEW c \in Callers, NEW from, NEW to \in PCs, Moves(c, from, to),
           c \in Dispatchers \/ to # "idle"
    PROVE  /\ \A m \in Messages : pc'[m] = "idle" => pc[m] = "idle"
           /\ \A r \in Rounds : pc'[r] = "idle" => pc[r] = "idle"
<1>1. pc[c] = from /\ pc'[c] = to /\ \A d \in Callers : d # c => pc'[d] = pc[d]
  BY MovesType
<1>2. QED
  BY <1>1, Kinds2

LEMMA SameEmpty ==
    ASSUME IdleIsEmpty,
           \A r \in Rounds : pc'[r] = "idle" => pc[r] = "idle",
           \A s \in Slots : at'[s] = at[s] \/ at[s] # "none"
    PROVE  IdleIsEmpty'
  BY DEF IdleIsEmpty, Slots

\* A step that moves no wake.
LEMMA QuietOnce ==
    ASSUME Types, HeldType, Once,
           UNCHANGED <<mentions, info, used, served, twice, repeated>>,
           queued' \subseteq queued,
           \A c \in Callers : wakes'[c] \subseteq wakes[c],
           \A d \in Dispatchers : pc'[d] = "failed" => pc[d] = "failed" /\ held'[d] = held[d],
           \A m \in Messages : pc'[m] = "idle" => pc[m] = "idle",
           \A r \in Rounds : pc'[r] = "idle" => pc[r] = "idle",
           \A s \in Slots : at[s] = "done" => at'[s] = "done",
           \A s \in Slots : at'[s] = at[s] \/ at[s] # "none"
    PROVE  Once'
<1> USE DEF Once
<1>1. Repeated \subseteq Repeated'
  BY RepeatedGrows
<1>2. \A w \in Wakes : Made(w[1]) => Made(w[1])'
  BY MadeStays
<1>3. \A k \in PlaceKinds, x \in Owners, w \in Wakes \ Repeated' : In(k, x, w)' => In(k, x, w)
  BY DEF In
<1>4. OnePlace' /\ AllMade'
  BY <1>1, <1>2, <1>3, StaysOnce
<1>5. IdleIsEmpty'
  BY SameEmpty
<1>6. RepeatedUsed' /\ WakesServedOnce'
  BY DEF RepeatedUsed, WakesServedOnce
<1>7. QED
  BY <1>4, <1>5, <1>6

LEMMA QuietMoveOnce ==
    ASSUME Types, HeldType, Once,
           UNCHANGED <<mentions, info, used, served, twice, repeated, at>>, queued' \subseteq queued,
           \A c \in Callers : wakes'[c] \subseteq wakes[c],
           NEW c \in Callers, NEW from, NEW to \in PCs, Moves(c, from, to),
           c \in Dispatchers \/ to # "idle",
           c \in Dispatchers => to # "failed",
           \A d \in Dispatchers : d # c => held'[d] = held[d]
    PROVE  Once'
<1>1. pc[c] = from /\ pc'[c] = to /\ \A d \in Callers : d # c => pc'[d] = pc[d]
  BY MovesType
<1>2. \A d \in Dispatchers : pc'[d] = "failed" => pc[d] = "failed" /\ held'[d] = held[d]
  BY <1>1, Kinds2
<1>3. QED
  BY <1>2, NeverIdle, QuietOnce

LEMMA LooksOnce ==
    ASSUME Types, HeldType, Once, NEW c \in Callers,
           findActiveDeliverySlots(c) \/ broadcastRoomInputQueueSnapshot(c)
    PROVE  Once'
<1>1. UNCHANGED <<mentions, info, used, served, twice, repeated, at, queued, held, wakes>>
  BY DEF findActiveDeliverySlots, broadcastRoomInputQueueSnapshot, rounds, queueVars, history
<1>2. PICK from \in PCs, to \in PCs \ {"failed", "idle"} : Moves(c, from, to)
  BY Kinds2 DEF findActiveDeliverySlots, broadcastRoomInputQueueSnapshot
<1>3. QED
  BY <1>1, <1>2, QuietMoveOnce

LEMMA InterruptsOnce ==
    ASSUME Types, HeldType, Once, NEW c \in Senders,
           (c \in Messages /\ HandleInterrupt(c)) \/ InterruptStep(c)
    PROVE  Once'
<1> USE DEF HandleInterrupt, InterruptStep, collectTargets, interruptTarget, InterruptReturns,
            ForceCancel, InterruptDone
<1>1. UNCHANGED <<mentions, info, used, served, twice, repeated, at, queued, held, wakes>>
  BY DEF rounds, slots, queueVars, history
<1>2. PICK from \in PCs, to \in PCs \ {"idle", "failed"} : Moves(c, from, to)
  BY Kinds2
<1>3. c \in Callers
  BY Kinds2
<1>4. QED
  BY <1>1, <1>2, <1>3, QuietMoveOnce

LEMMA RunnerEndsOnce ==
    ASSUME Types, HeldType, Once, NEW r \in Rounds, RunnerEnds(r)
    PROVE  Once'
<1>1. UNCHANGED <<mentions, info, used, served, twice, repeated, at, queued, held, wakes>>
  BY DEF RunnerEnds, slots, queueVars, history
<1>2. PICK from \in {"ok", "failed"} : Moves(r, from, "done")
  BY DEF RunnerEnds, RunnerWakes
<1>3. r \in Callers /\ r \notin Dispatchers /\ "done" \in PCs
  BY Kinds2
<1>4. QED
  BY <1>1, <1>2, <1>3, QuietMoveOnce

LEMMA DispatchersOnce ==
    ASSUME Types, HeldType, Once, NEW d \in Dispatchers,
           \/ DispatcherBegins(d) \/ findDispatchableInputQueueEntry(d)
           \/ DispatchFails(d) \/ DispatchSucceeded(d)
    PROVE  Once'
<1> USE DEF DispatcherBegins, findDispatchableInputQueueEntry, DispatchFails, DispatchSucceeded
<1>1. UNCHANGED <<mentions, info, used, served, twice, repeated, at, wakes>> /\ queued' \subseteq queued
  BY DEF rounds, slots, queueVars, history
<1>2. PICK from \in PCs, to \in PCs \ {"failed"} : Moves(d, from, to)
  BY Kinds2
<1>3. \A e \in Dispatchers : e # d => held'[e] = held[e]
  BY DEF Types, CallType
<1>4. d \in Callers
  BY Kinds2
<1>5. QED
  BY <1>1, <1>2, <1>3, <1>4, QuietMoveOnce

LEMMA OtherOnce ==
    ASSUME Types, HeldType, Once,
           \/ \E s \in Slots : SlotBegins(s) \/ AgentStep(s)
           \/ \E i \in Items : Delete(i)
           \/ Subscribe
           \/ UNCHANGED vars
    PROVE  Once'
<1> DEFINE Same == UNCHANGED <<mentions, info, used, served, twice, repeated, held, wakes, pc>>
           Ats == \A s \in Slots : (at[s] = "done" => at'[s] = "done") /\ (at'[s] = at[s] \/ at[s] # "none")
<1>1. Same /\ Ats /\ queued' \subseteq queued
  <2>1. ASSUME NEW s \in Slots, SlotBegins(s) \/ AgentStep(s)
        PROVE  Same /\ Ats /\ queued' \subseteq queued
    <3>1. Same /\ queued' = queued
      BY <2>1 DEF AgentStep, SlotBegins, SlotInterrupted, SlotCompletes, SlotFails, SlotMoves,
         queueVars, callVars, history
    <3>2. PICK from \in {"pending", "executing", "tail"}, to \in SlotPoints : SlotMoves(s, from, to)
      BY <2>1 DEF AgentStep, SlotBegins, SlotInterrupted, SlotCompletes, SlotFails, SlotPoints
    <3>3. Ats
      BY <3>2 DEF SlotMoves, Types, SlotsType
    <3>4. QED
      BY <3>1, <3>3
  <2>2. ASSUME NEW i \in Items, Delete(i) PROVE Same /\ Ats /\ queued' \subseteq queued
    BY <2>2 DEF Delete, rounds, slots, callVars, history
  <2>3. CASE Subscribe
    BY <2>3 DEF Subscribe, rounds, slots, queueVars, callVars, history
  <2>4. CASE UNCHANGED vars
    BY <2>4 DEF vars, rounds, slots, queueVars, callVars, history
  <2>5. QED
    BY <2>1, <2>2, <2>3, <2>4
<1>2. QED
  BY <1>1, QuietOnce

---------------------------------------------------------------------------
(* Steps that make wakes.                                                  *)

LEMMA MessageOnce ==
    ASSUME Types, HeldType, Once, NEW m \in Messages, NEW s, NEW agents, NEW policy,
           HandleChat(m, agents, policy) \/ HandleDirectedMessage(m, s, agents)
    PROVE  Once'
<1> USE DEF Once, HandleChat, HandleDirectedMessage
<1>1. /\ UNCHANGED <<mentions, info, used, served, twice, repeated, at, queued, held>>
      /\ wakes' = [wakes EXCEPT ![m] = {m} \X agents]
  BY DEF rounds, slots, queueVars, history
<1>2. PICK to \in PCs \ {"idle", "failed"} : Moves(m, "idle", to)
  BY Kinds2 DEF FirstPoint
<1>3. m \in Callers /\ m \notin Dispatchers
  BY Kinds2
<1>4. pc[m] = "idle" /\ pc'[m] = to /\ \A d \in Callers : d # m => pc'[d] = pc[d]
  BY <1>2, <1>3, MovesType
<1> HIDE DEF HandleChat, HandleDirectedMessage
<1>5. /\ \A l \in Messages : pc'[l] = "idle" => pc[l] = "idle"
      /\ \A r \in Rounds : pc'[r] = "idle" => pc[r] = "idle"
  BY <1>2, <1>3, NeverIdle
<1>6. Repeated \subseteq Repeated' /\ \A w \in Wakes : Made(w[1]) => Made(w[1])'
  BY <1>1, <1>5, RepeatedGrows, MadeStays
<1>7. ~Made(m) /\ Made(m)'
  BY <1>4 DEF Made, Slots, Types, QueueType
<1>8. \A k \in PlaceKinds, x \in Owners, w \in Wakes \ Repeated' :
        In(k, x, w)' => In(k, x, w) \/ (k = "call" /\ x = m /\ w[1] = m)
  <2>1. \A c \in Callers : c # m => wakes'[c] = wakes[c]
    BY <1>1 DEF Types, CallType
  <2>2. \A w : w \in wakes'[m] => w[1] = m
    BY <1>1, <1>3 DEF Types, CallType
  <2>3. \A d \in Dispatchers : pc'[d] = pc[d]
    BY <1>3, <1>4, Kinds2
  <2>4. QED
    BY <1>1, <2>1, <2>2, <2>3 DEF In
<1>9. OnePlace' /\ AllMade'
  BY <1>6, <1>7, <1>8, NewOnce
<1>10. IdleIsEmpty'
  BY <1>1, <1>5, SameEmpty
<1>11. RepeatedUsed' /\ WakesServedOnce'
  BY <1>1 DEF RepeatedUsed, WakesServedOnce
<1>12. QED
  BY <1>9, <1>10, <1>11

LEMMA EnqueueOnce ==
    ASSUME Types, HeldType, Once, NEW agents, NEW policy, Enqueue(agents, policy)
    PROVE  Once'
<1> USE DEF Once
<1>0. PICK i \in Items \ used : i = FreshItem
  BY FreshIsNew DEF Enqueue
<1> DEFINE new == [NoInfo EXCEPT !.chat = TRUE, !.policy = policy, !.wakes = {i} \X agents]
<1>1. /\ queued' = queued \cup {i} /\ used' = used \cup {i}
      /\ info' = [info EXCEPT ![i] = new]
      /\ UNCHANGED <<mentions, served, twice, repeated, at, held, wakes, pc>>
  BY <1>0 DEF Enqueue, rounds, slots, callVars, history
<1>2. i \in Items \ used
  BY <1>0
<1>3. \A w : w \in new.wakes => w[1] = i
  BY DEF NoInfo
<1> HIDE DEF new
<1>4. info'[i] = new /\ \A j \in Items : j # i => info'[j] = info[j]
  BY <1>1, <1>2 DEF Types, QueueType
<1>5. queued \subseteq used /\ used \subseteq Items
  BY DEF Types, QueueType
<1>6. Repeated \subseteq Repeated' /\ \A w \in Wakes : Made(w[1]) => Made(w[1])'
  BY <1>1, <1>2, <1>4, <1>5, RepeatedGrows, MadeStays
<1>7. ~Made(i) /\ Made(i)'
  BY <1>1, <1>2 DEF Made, Slots
<1>8. \A k \in PlaceKinds, x \in Owners, w \in Wakes \ Repeated' :
        In(k, x, w)' => In(k, x, w) \/ (k = "queue" /\ x = i /\ w[1] = i)
  <2>1. \A d \in Dispatchers : pc[d] = "failed" => held[d] \in used
    BY DEF HeldType, HoldingPoints
  <2>2. QED
    BY <1>1, <1>2, <1>3, <1>4, <1>5, <2>1 DEF In
<1>9. OnePlace' /\ AllMade'
  BY <1>6, <1>7, <1>8, NewOnce
<1>10. IdleIsEmpty'
  BY <1>1, SameEmpty
<1>11. RepeatedUsed'
  BY <1>1 DEF RepeatedUsed
<1>12. WakesServedOnce'
  BY <1>1, <1>6 DEF WakesServedOnce, Repeated
<1>13. QED
  BY <1>9, <1>10, <1>11, <1>12

LEMMA SlotEndsOnce ==
    ASSUME Types, HeldType, Once, NEW s \in Slots, SlotEnds(s)
    PROVE  Once'
<1> USE DEF Once
<1>1. PICK agents \in SUBSET Agents, from \in {"tail", "closing"} :
        /\ SlotMoves(s, from, "done")
        /\ mentions' = [mentions EXCEPT ![s[1]] = @ \cup ({s} \X agents)]
  BY DEF SlotEnds
<1>2. UNCHANGED <<info, used, queued, served, twice, repeated, held, wakes, pc>>
  BY <1>1 DEF SlotMoves, queueVars, callVars, history
<1>3. at[s] = from /\ at'[s] = "done" /\ \A t \in Slots : t # s => at'[t] = at[t]
  BY <1>1 DEF SlotMoves, Types, SlotsType
<1>4. s[1] \in Rounds
  BY DEF Slots
<1>5. Repeated \subseteq Repeated' /\ \A w \in Wakes : Made(w[1]) => Made(w[1])'
  BY <1>2, <1>3, RepeatedGrows, MadeStays
<1>6. ~Made(s) /\ Made(s)'
  <2>1. s \notin Messages /\ s \notin used
    BY DEF Slots, Types, QueueType
  <2>2. QED
    BY <1>3, <2>1 DEF Made
<1>7. \A k \in PlaceKinds, x \in Owners, w \in Wakes \ Repeated' :
        In(k, x, w)' => In(k, x, w) \/ (k = "reply" /\ x = s[1] /\ w[1] = s)
  <2>1. \A r \in Rounds : r # s[1] => mentions'[r] = mentions[r]
    BY <1>1 DEF Types, RoundsType
  <2>2. mentions'[s[1]] = mentions[s[1]] \cup ({s} \X agents)
    BY <1>1, <1>4 DEF Types, RoundsType
  <2>3. \A w \in {s} \X agents : w[1] = s
    OBVIOUS
  <2>4. QED
    BY <1>2, <2>1, <2>2, <2>3 DEF In
<1>8. OnePlace' /\ AllMade'
  BY <1>5, <1>6, <1>7, NewOnce
<1>9. IdleIsEmpty'
  BY <1>2, <1>3, SameEmpty
<1>10. RepeatedUsed' /\ WakesServedOnce'
  BY <1>2 DEF RepeatedUsed, WakesServedOnce
<1>11. QED
  BY <1>8, <1>9, <1>10

---------------------------------------------------------------------------
(* Steps that move wakes.                                                  *)

LEMMA QueuesOnce ==
    ASSUME Types, HeldType, BusyKept, Once, NEW c \in Callers, enqueueForActiveAgentSlots(c)
    PROVE  Once'
<1> USE DEF Once
<1>0. PICK i \in Items \ used : i = FreshItem
  BY FreshIsNew DEF enqueueForActiveAgentSlots
<1>1. PICK w \in busy[c], to \in {"enqueue", "snapshot"} :
        /\ Moves(c, "enqueue", to)
        /\ queued' = queued \cup {i} /\ used' = used \cup {i}
        /\ info' = QueueItem(c, w, i)
        /\ wakes' = [wakes EXCEPT ![c] = wakes[c] \ {w}]
        /\ UNCHANGED <<mentions, served, twice, repeated, at, held>>
  BY <1>0 DEF enqueueForActiveAgentSlots, rounds, slots, history
<1>2. pc[c] = "enqueue" /\ pc'[c] = to /\ \A d \in Callers : d # c => pc'[d] = pc[d]
  BY <1>1, MovesType, Kinds2
<1>3. /\ \A m \in Messages : pc'[m] = "idle" => pc[m] = "idle"
      /\ \A r \in Rounds : pc'[r] = "idle" => pc[r] = "idle"
      /\ \A d \in Dispatchers : pc'[d] = "failed" => pc[d] = "failed"
  BY <1>2, Kinds2
<1>4. info'[i].wakes = {w} /\ \A j \in Items : j # i => info'[j] = info[j]
  <2> DEFINE new == [chat |-> FALSE, policy |-> "queue", wakes |-> {w},
                     hop |-> IF IsChat(c) THEN 0 ELSE ParentHop(c), chain |-> ParentChain(c)]
  <2>1. info' = [info EXCEPT ![i] = new] /\ new.wakes = {w}
    BY <1>1 DEF QueueItem
  <2> HIDE DEF new
  <2>2. QED
    BY <1>0, <2>1 DEF Types, QueueType
<1>5. queued \subseteq used /\ used \subseteq Items
  BY DEF Types, QueueType
<1>6. Repeated \subseteq Repeated' /\ \A v \in Wakes : Made(v[1]) => Made(v[1])'
  BY <1>0, <1>1, <1>3, <1>4, <1>5, RepeatedGrows, MadeStays
<1>7. wakes'[c] = wakes[c] \ {w} /\ \A d \in Callers : d # c => wakes'[d] = wakes[d]
  BY <1>1 DEF Types, CallType
<1>8. \A d \in Dispatchers : pc[d] = "failed" => held[d] \in used
  BY DEF HeldType, HoldingPoints
<1>9. w \in wakes[c]
  BY <1>1, <1>2 DEF BusyKept
<1>10. ASSUME NEW k \in PlaceKinds, NEW x \in Owners, NEW v \in Wakes \ Repeated', In(k, x, v)'
       PROVE  \/ In(k, x, v) /\ ~(k = "call" /\ x = c /\ v \in {w})
              \/ k = "queue" /\ x = i /\ v \in {w} /\ In("call", c, v)
  <2>1. CASE k = "call"
    BY <1>7, <1>10, <2>1 DEF In
  <2>2. CASE k = "queue" /\ x = i
    BY <1>4, <1>9, <1>10, <2>2 DEF In
  <2>3. CASE k = "queue" /\ x # i
    BY <1>1, <1>4, <1>5, <1>10, <2>3 DEF In
  <2>4. CASE k = "failed"
    BY <1>0, <1>1, <1>3, <1>4, <1>5, <1>8, <1>10, <2>4 DEF In
  <2>5. CASE k \in {"reply", "served"}
    BY <1>1, <1>10, <2>5 DEF In
  <2>6. QED
    BY <2>1, <2>2, <2>3, <2>4, <2>5 DEF PlaceKinds
<1>11. OnePlace' /\ AllMade'
  <2>1. "call" \in PlaceKinds /\ c \in Owners
    BY DEF PlaceKinds, Owners
  <2>2. PICK moved : moved = {w}
    OBVIOUS
  <2>3. MoveOf(moved, "call", c, "queue", i)
    BY <1>10, <2>2 DEF MoveOf
  <2>4. QED
    BY <1>6, <2>1, <2>3, MovesOnce
<1>12. IdleIsEmpty'
  BY <1>1, <1>3, SameEmpty
<1>13. RepeatedUsed'
  BY <1>1 DEF RepeatedUsed
<1>14. WakesServedOnce'
  BY <1>1, <1>6 DEF WakesServedOnce, Repeated
<1>15. QED
  BY <1>11, <1>12, <1>13, <1>14

LEMMA CallFailsOnce ==
    ASSUME Types, HeldType, Intact, Once, NEW c \in Callers,
           CallFails(c) \/ (c \in Senders /\ InterruptGivesUp(c))
    PROVE  Once'
<1> USE DEF Once
<1>1. PICK from \in HoldingPoints : Moves(c, from, "failed")
  BY DEF CallFails, InterruptGivesUp, HoldingPoints
<1>2. /\ UNCHANGED <<mentions, info, used, served, twice, at, queued, held>>
      /\ wakes' = [wakes EXCEPT ![c] = {}]
      /\ \/ repeated' = repeated
         \/ c \in Dispatchers /\ repeated' = repeated \cup {held[c]}
      /\ c \in Dispatchers =>
            held[c] \in repeated' \/ info[held[c]].wakes \subseteq wakes[c]
  <2>1. CASE CallFails(c)
    BY <2>1 DEF CallFails, rounds, queueVars
  <2>2. CASE c \in Senders /\ InterruptGivesUp(c)
    <3>1. pc[c] \in {"waiting", "forced"}
      BY <2>2 DEF InterruptGivesUp, Moves
    <3>2. c \in Dispatchers => info[held[c]].wakes \subseteq wakes[c]
      BY <3>1 DEF Intact, Stopping
    <3>3. QED
      BY <2>2, <3>2 DEF InterruptGivesUp, rounds, slots, queueVars, history
  <2>3. QED
    BY <2>1, <2>2
<1>3. pc[c] = from /\ pc'[c] = "failed" /\ \A d \in Callers : d # c => pc'[d] = pc[d]
  BY <1>1, MovesType, Kinds2
<1>4. /\ \A m \in Messages : pc'[m] = "idle" => pc[m] = "idle"
      /\ \A r \in Rounds : pc'[r] = "idle" => pc[r] = "idle"
  BY <1>3, Kinds2
<1>5. c \in Dispatchers => held[c] \in used
  BY <1>3 DEF HeldType
<1>6. Repeated \subseteq Repeated' /\ \A v \in Wakes : Made(v[1]) => Made(v[1])'
  BY <1>2, <1>4, RepeatedGrows, MadeStays
<1>7. wakes'[c] = {} /\ \A d \in Callers : d # c => wakes'[d] = wakes[d]
  BY <1>2 DEF Types, CallType
<1>8. c \in Dispatchers =>
        \A v \in Wakes \ Repeated' : v \in info[held[c]].wakes => v \in wakes[c]
  BY <1>2 DEF Repeated
<1>9. ASSUME NEW k \in PlaceKinds, NEW x \in Owners, NEW v \in Wakes \ Repeated', In(k, x, v)'
      PROVE  \/ In(k, x, v) /\ ~(k = "call" /\ x = c /\ v \in wakes[c])
             \/ k = "failed" /\ x = c /\ v \in wakes[c] /\ In("call", c, v)
  <2>1. CASE k = "call"
    BY <1>7, <1>9, <2>1 DEF In
  <2>2. CASE k = "failed" /\ x = c
    BY <1>2, <1>8, <1>9, <2>2 DEF In
  <2>3. CASE k = "failed" /\ x # c
    BY <1>2, <1>3, <1>9, <2>3, Kinds2 DEF In
  <2>4. CASE k \in {"queue", "reply", "served"}
    BY <1>2, <1>9, <2>4 DEF In
  <2>5. QED
    BY <2>1, <2>2, <2>3, <2>4 DEF PlaceKinds
<1>10. OnePlace' /\ AllMade'
  <2>1. "call" \in PlaceKinds /\ c \in Owners
    BY DEF PlaceKinds, Owners
  <2>2. PICK moved : moved = wakes[c]
    OBVIOUS
  <2>3. MoveOf(moved, "call", c, "failed", c)
    BY <1>9, <2>2 DEF MoveOf
  <2>4. QED
    BY <1>6, <2>1, <2>3, MovesOnce
<1>11. IdleIsEmpty'
  BY <1>2, <1>4, SameEmpty
<1>12. RepeatedUsed'
  BY <1>2, <1>5 DEF RepeatedUsed
<1>13. WakesServedOnce'
  BY <1>2, <1>6 DEF WakesServedOnce, Repeated
<1>14. QED
  BY <1>10, <1>11, <1>12, <1>13

LEMMA RegistersOnce ==
    ASSUME Types, HeldType, Once, NEW c \in Callers, registerRound(c)
    PROVE  Once'
<1> USE DEF Once
<1>0. PICK r \in Rounds : r = CHOOSE free \in FreeRounds : TRUE
  BY DEF registerRound, FreeRounds
<1> DEFINE targets == {w[2] : w \in wakes[c]}
<1>1. /\ pc[c] = "register"
      /\ pc' = [pc EXCEPT ![c] = "ok", ![r] = "running"]
      /\ at' = [s \in Slots |-> IF s[1] = r /\ s[2] \in targets THEN "pending" ELSE at[s]]
      /\ \E first \in Triggers(wakes[c]) :
            served' = served \cup first /\ twice' = twice \cup (served \cap first)
      /\ wakes' = [wakes EXCEPT ![c] = {}]
      /\ UNCHANGED <<mentions, info, used, queued, held, repeated>>
  BY <1>0 DEF registerRound, queueVars
<1>2. r \in Callers /\ r \notin Messages /\ r \notin Dispatchers /\ pc[r] = "idle"
  BY <1>0, Kinds2 DEF registerRound, FreeRounds
<1> HIDE DEF targets
<1> PICK first \in SUBSET wakes[c] :
        served' = served \cup first /\ twice' = twice \cup (served \cap first)
  BY <1>1 DEF Triggers
<1>3. pc'[r] = "running" /\ pc'[c] = "ok" /\ \A d \in Callers : d # c /\ d # r => pc'[d] = pc[d]
  BY <1>1, <1>2 DEF Types, CallType
<1>4. /\ \A m \in Messages : pc'[m] = "idle" => pc[m] = "idle"
      /\ \A o \in Rounds : pc'[o] = "idle" => pc[o] = "idle"
      /\ \A d \in Dispatchers : pc'[d] = "failed" => pc[d] = "failed"
  BY <1>3, Kinds2
<1>5. \A s \in Slots : s[1] = r => at[s] = "none"
  BY <1>2 DEF IdleIsEmpty
<1>6. \A s \in Slots : at[s] = "done" => at'[s] = "done"
  BY <1>1, <1>5
<1>7. Repeated \subseteq Repeated' /\ \A v \in Wakes : Made(v[1]) => Made(v[1])'
  BY <1>1, <1>4, <1>6, RepeatedGrows, MadeStays
<1>8. wakes'[c] = {} /\ \A d \in Callers : d # c => wakes'[d] = wakes[d]
  BY <1>1 DEF Types, CallType
<1>9. ASSUME NEW k \in PlaceKinds, NEW x \in Owners, NEW v \in Wakes \ Repeated', In(k, x, v)'
      PROVE  \/ In(k, x, v) /\ ~(k = "call" /\ x = c /\ v \in wakes[c])
             \/ k = "served" /\ x = Nothing /\ v \in wakes[c] /\ In("call", c, v)
  <2>1. CASE k = "call"
    BY <1>8, <1>9, <2>1 DEF In
  <2>2. CASE k = "served"
    BY <1>1, <1>9, <2>2 DEF In
  <2>3. CASE k = "failed"
    BY <1>1, <1>4, <1>9, <2>3 DEF In
  <2>4. CASE k \in {"queue", "reply"}
    BY <1>1, <1>9, <2>4 DEF In
  <2>5. QED
    BY <2>1, <2>2, <2>3, <2>4 DEF PlaceKinds
<1>10. OnePlace' /\ AllMade'
  <2>1. "call" \in PlaceKinds /\ c \in Owners
    BY DEF PlaceKinds, Owners
  <2>2. PICK moved : moved = wakes[c]
    OBVIOUS
  <2>3. MoveOf(moved, "call", c, "served", Nothing)
    BY <1>9, <2>2 DEF MoveOf
  <2>4. QED
    BY <1>7, <2>1, <2>3, MovesOnce
<1>11. IdleIsEmpty'
  BY <1>1, <1>3, <1>4 DEF IdleIsEmpty, Slots
<1>12. RepeatedUsed'
  BY <1>1 DEF RepeatedUsed
<1>13. WakesServedOnce'
  <2>1. served \cap wakes[c] \subseteq Repeated
    <3>1. ASSUME NEW w \in served \cap wakes[c], w \notin Repeated PROVE FALSE
      <4>1. w \in Wakes
        BY DEF Types, HistoryType
      <4>2. In("call", c, w) /\ In("served", Nothing, w)
        BY DEF In
      <4>3. "call" \in PlaceKinds /\ "served" \in PlaceKinds /\ c \in Owners /\ Nothing \in Owners
        BY DEF PlaceKinds, Owners
      <4>4. QED
        BY <3>1, <4>1, <4>2, <4>3 DEF OnePlace
    <3>2. QED
      BY <3>1
  <2>2. QED
    BY <1>1, <2>1 DEF WakesServedOnce, Repeated
<1>14. QED
  BY <1>10, <1>11, <1>12, <1>13

LEMMA FinishesOnce ==
    ASSUME Types, HeldType, Once, NEW r \in Rounds, finishRound(r)
    PROVE  Once'
<1> USE DEF Once
<1>1. /\ UNCHANGED <<info, used, served, twice, repeated, at, queued, held>>
      /\ mentions' = [mentions EXCEPT ![r] = {}]
      /\ wakes' = [wakes EXCEPT ![r] = IF StartsMentions(r) THEN mentions[r] ELSE {}]
  BY DEF finishRound, queueVars, history
<1>2. PICK to \in {"look", "ok"} : Moves(r, "running", to)
  BY DEF finishRound
<1>3. r \in Callers /\ r \notin Messages /\ r \notin Dispatchers /\ to \in PCs
  BY <1>2, Kinds2
<1>4. pc[r] = "running" /\ pc'[r] = to /\ \A d \in Callers : d # r => pc'[d] = pc[d]
  BY <1>2, <1>3, MovesType
<1>5. /\ \A m \in Messages : pc'[m] = "idle" => pc[m] = "idle"
      /\ \A o \in Rounds : pc'[o] = "idle" => pc[o] = "idle"
      /\ \A d \in Dispatchers : pc'[d] = "failed" => pc[d] = "failed"
  BY <1>4, Kinds2
<1>6. Repeated \subseteq Repeated' /\ \A v \in Wakes : Made(v[1]) => Made(v[1])'
  BY <1>1, <1>5, RepeatedGrows, MadeStays
<1>7. wakes'[r] \subseteq mentions[r] /\ \A d \in Callers : d # r => wakes'[d] = wakes[d]
  BY <1>1, <1>3 DEF Types, CallType
<1>8. mentions'[r] = {} /\ \A o \in Rounds : o # r => mentions'[o] = mentions[o]
  BY <1>1 DEF Types, RoundsType
<1>9. ASSUME NEW k \in PlaceKinds, NEW x \in Owners, NEW v \in Wakes \ Repeated', In(k, x, v)'
      PROVE  \/ In(k, x, v) /\ ~(k = "reply" /\ x = r /\ v \in mentions[r])
             \/ k = "call" /\ x = r /\ v \in mentions[r] /\ In("reply", r, v)
  <2>1. CASE k = "call"
    BY <1>7, <1>9, <2>1 DEF In
  <2>2. CASE k = "reply"
    BY <1>8, <1>9, <2>2 DEF In
  <2>3. CASE k = "failed"
    BY <1>1, <1>5, <1>9, <2>3 DEF In
  <2>4. CASE k \in {"queue", "served"}
    BY <1>1, <1>9, <2>4 DEF In
  <2>5. QED
    BY <2>1, <2>2, <2>3, <2>4 DEF PlaceKinds
<1>10. OnePlace' /\ AllMade'
  <2>1. "reply" \in PlaceKinds /\ r \in Owners
    BY <1>3 DEF PlaceKinds, Owners
  <2>2. PICK moved : moved = mentions[r]
    OBVIOUS
  <2>3. MoveOf(moved, "reply", r, "call", r)
    BY <1>9, <2>2 DEF MoveOf
  <2>4. QED
    BY <1>6, <2>1, <2>3, MovesOnce
<1>11. IdleIsEmpty'
  BY <1>1, <1>5, SameEmpty
<1>12. RepeatedUsed' /\ WakesServedOnce'
  BY <1>1 DEF RepeatedUsed, WakesServedOnce
<1>13. QED
  BY <1>10, <1>11, <1>12

LEMMA DispatchOnce ==
    ASSUME Types, HeldType, Once, NEW d \in Dispatchers, Dispatch(d)
    PROVE  Once'
<1> USE DEF Once
<1>0. PICK i : i = held[d]
  OBVIOUS
<1> DEFINE first == FirstPoint(Policy(d))
<1>1. /\ Moves(d, "pop", first)
      /\ queued' = queued \ {i}
      /\ wakes' = [wakes EXCEPT ![d] = info[i].wakes]
      /\ repeated' = IF i \in queued THEN repeated ELSE repeated \cup {i}
      /\ UNCHANGED <<mentions, info, used, held, served, twice, at>>
  BY <1>0 DEF Dispatch, rounds, slots
<1>2. d \in Callers /\ first \in PCs /\ first \notin {"idle", "failed"}
  BY Kinds2 DEF FirstPoint
<1> HIDE DEF first
<1>3. pc[d] = "pop" /\ pc'[d] = first /\ \A e \in Callers : e # d => pc'[e] = pc[e]
  BY <1>1, <1>2, MovesType
<1>4. /\ \A m \in Messages : pc'[m] = "idle" => pc[m] = "idle"
      /\ \A o \in Rounds : pc'[o] = "idle" => pc[o] = "idle"
      /\ \A e \in Dispatchers : pc'[e] = "failed" => pc[e] = "failed"
  BY <1>2, <1>3, Kinds2
<1>5. i \in used
  BY <1>0, <1>3 DEF HeldType, HoldingPoints
<1>6. Repeated \subseteq Repeated' /\ \A v \in Wakes : Made(v[1]) => Made(v[1])'
  BY <1>1, <1>4, RepeatedGrows, MadeStays
<1>7. wakes'[d] = info[i].wakes /\ \A c \in Callers : c # d => wakes'[c] = wakes[c]
  BY <1>1, <1>2 DEF Types, CallType
<1>8. \A v \in Wakes \ Repeated' : v \in info[i].wakes => i \in queued
  BY <1>1 DEF Repeated
<1>9. ASSUME NEW k \in PlaceKinds, NEW x \in Owners, NEW v \in Wakes \ Repeated', In(k, x, v)'
      PROVE  \/ In(k, x, v) /\ ~(k = "queue" /\ x = i /\ v \in info[i].wakes)
             \/ k = "call" /\ x = d /\ v \in info[i].wakes /\ In("queue", i, v)
  <2>1. CASE k = "call"
    BY <1>7, <1>8, <1>9, <2>1 DEF In
  <2>2. CASE k = "queue"
    BY <1>1, <1>9, <2>2 DEF In
  <2>3. CASE k = "failed"
    BY <1>1, <1>4, <1>9, <2>3 DEF In
  <2>4. CASE k \in {"reply", "served"}
    BY <1>1, <1>9, <2>4 DEF In
  <2>5. QED
    BY <2>1, <2>2, <2>3, <2>4 DEF PlaceKinds
<1>10. OnePlace' /\ AllMade'
  <2>1. "queue" \in PlaceKinds /\ i \in Owners
    BY <1>5 DEF PlaceKinds, Owners, Types, QueueType
  <2>2. PICK moved : moved = info[i].wakes
    OBVIOUS
  <2>3. MoveOf(moved, "queue", i, "call", d)
    BY <1>9, <2>2 DEF MoveOf
  <2>4. QED
    BY <1>6, <2>1, <2>3, MovesOnce
<1>11. IdleIsEmpty'
  BY <1>1, <1>4, SameEmpty
<1>12. RepeatedUsed'
  BY <1>1, <1>5 DEF RepeatedUsed
<1>13. WakesServedOnce'
  BY <1>1, <1>6 DEF WakesServedOnce, Repeated
<1>14. QED
  BY <1>10, <1>11, <1>12, <1>13

LEMMA RestoresOnce ==
    ASSUME Types, HeldType, Once, NEW d \in Dispatchers, DispatchRestores(d)
    PROVE  Once'
<1> USE DEF Once
<1>0. PICK i : i = held[d]
  OBVIOUS
<1>1. /\ Moves(d, "failed", "idle")
      /\ held' = [held EXCEPT ![d] = Nothing]
      /\ queued' \subseteq queued \cup {i}
      /\ UNCHANGED <<mentions, info, used, wakes, served, twice, repeated, at>>
  BY <1>0 DEF DispatchRestores, rounds, slots, history
<1>2. d \in Callers /\ "idle" \in PCs /\ d \notin Messages /\ d \notin Rounds
  BY Kinds2
<1>3. pc[d] = "failed" /\ pc'[d] = "idle" /\ \A e \in Callers : e # d => pc'[e] = pc[e]
  BY <1>1, <1>2, MovesType
<1>4. /\ \A m \in Messages : pc'[m] = "idle" => pc[m] = "idle"
      /\ \A o \in Rounds : pc'[o] = "idle" => pc[o] = "idle"
      /\ \A e \in Dispatchers : pc'[e] = "failed" => e # d /\ pc[e] = "failed" /\ held'[e] = held[e]
  BY <1>1, <1>2, <1>3, Kinds2 DEF Types, CallType
<1>5. Repeated \subseteq Repeated' /\ \A v \in Wakes : Made(v[1]) => Made(v[1])'
  BY <1>1, <1>4, RepeatedGrows, MadeStays
<1>6. ASSUME NEW k \in PlaceKinds, NEW x \in Owners, NEW v \in Wakes \ Repeated', In(k, x, v)'
      PROVE  \/ In(k, x, v) /\ ~(k = "failed" /\ x = d /\ v \in info[i].wakes)
             \/ k = "queue" /\ x = i /\ v \in info[i].wakes /\ In("failed", d, v)
  <2>1. CASE k = "queue"
    BY <1>0, <1>1, <1>3, <1>6, <2>1 DEF In
  <2>2. CASE k = "failed"
    BY <1>1, <1>4, <1>6, <2>2 DEF In
  <2>3. CASE k \in {"call", "reply", "served"}
    BY <1>1, <1>6, <2>3 DEF In
  <2>4. QED
    BY <2>1, <2>2, <2>3 DEF PlaceKinds
<1>7. OnePlace' /\ AllMade'
  <2>1. "failed" \in PlaceKinds /\ d \in Owners
    BY <1>2 DEF PlaceKinds, Owners
  <2>2. PICK moved : moved = info[i].wakes
    OBVIOUS
  <2>3. MoveOf(moved, "failed", d, "queue", i)
    BY <1>6, <2>2 DEF MoveOf
  <2>4. QED
    BY <1>5, <2>1, <2>3, MovesOnce
<1>8. IdleIsEmpty'
  BY <1>1, <1>4, SameEmpty
<1>9. RepeatedUsed' /\ WakesServedOnce'
  BY <1>1 DEF RepeatedUsed, WakesServedOnce
<1>10. QED
  BY <1>7, <1>8, <1>9

---------------------------------------------------------------------------

\* A step of one goroutine.
LEMMA MoveBusy ==
    ASSUME Types, HeldType, BusyKept, NEW c \in Callers, NEW from, NEW to \in PCs, Moves(c, from, to),
           \A d \in Callers : d # c => wakes'[d] = wakes[d] /\ busy'[d] = busy[d],
           to = "enqueue" => busy'[c] \subseteq wakes'[c]
    PROVE  BusyKept'
<1>1. pc'[c] = to /\ \A d \in Callers : d # c => pc'[d] = pc[d]
  BY MovesType
<1>2. QED
  BY <1>1 DEF BusyKept

LEMMA StartBusy ==
    ASSUME Types, HeldType, BusyKept, NEW c \in Callers, StartStep(c)
    PROVE  BusyKept'
<1>1. CASE findActiveDeliverySlots(c)
  <2>1. PICK to \in PCs : Moves(c, "look", to)
    BY <1>1, Kinds2 DEF findActiveDeliverySlots
  <2>2. UNCHANGED wakes /\ busy' = [busy EXCEPT ![c] = Busy(wakes[c])]
    BY <1>1 DEF findActiveDeliverySlots
  <2>3. Busy(wakes[c]) \subseteq wakes[c]
    BY DEF Busy
  <2>4. busy'[c] \subseteq wakes'[c] /\ \A d \in Callers : d # c => busy'[d] = busy[d]
    BY <2>2, <2>3 DEF Types, CallType
  <2>5. QED
    BY <2>1, <2>2, <2>4, MoveBusy
<1>2. CASE enqueueForActiveAgentSlots(c)
  <2>1. PICK w \in busy[c], to \in {"enqueue", "snapshot"} :
          /\ Moves(c, "enqueue", to)
          /\ wakes' = [wakes EXCEPT ![c] = wakes[c] \ {w}]
          /\ busy' = [busy EXCEPT ![c] = busy[c] \ {w}]
    BY <1>2 DEF enqueueForActiveAgentSlots
  <2>2. to \in PCs /\ pc[c] = "enqueue"
    BY <2>1, Kinds2 DEF Moves
  <2>3. /\ wakes'[c] = wakes[c] \ {w} /\ busy'[c] = busy[c] \ {w}
        /\ \A d \in Callers : d # c => wakes'[d] = wakes[d] /\ busy'[d] = busy[d]
    BY <2>1 DEF Types, CallType
  <2>4. busy'[c] \subseteq wakes'[c]
    BY <2>2, <2>3 DEF BusyKept
  <2>5. QED
    BY <2>1, <2>2, <2>3, <2>4, MoveBusy
<1>3. CASE CallFails(c)
  <2>1. PICK from \in PCs : Moves(c, from, "failed")
    BY <1>3, Kinds2 DEF CallFails
  <2>2. \A d \in Callers : d # c => wakes'[d] = wakes[d] /\ busy'[d] = busy[d]
    BY <1>3 DEF CallFails, Types, CallType
  <2>3. QED
    BY <2>1, <2>2, MoveBusy, Kinds2
<1>4. CASE registerRound(c)
  <2>1. PICK r \in Rounds : pc' = [pc EXCEPT ![c] = "ok", ![r] = "running"]
    BY <1>4 DEF registerRound, FreeRounds
  <2>2. wakes' = [wakes EXCEPT ![c] = {}] /\ UNCHANGED busy
    BY <1>4 DEF registerRound
  <2>3. \A d \in Callers : pc'[d] = "enqueue" => d # c /\ pc[d] = "enqueue"
    BY <2>1, Kinds2 DEF Types, CallType
  <2>4. QED
    BY <2>2, <2>3 DEF BusyKept, Types, CallType
<1>5. CASE broadcastRoomInputQueueSnapshot(c)
  <2>1. PICK to \in PCs \ {"enqueue"} : Moves(c, "snapshot", to)
    BY <1>5, Kinds2 DEF broadcastRoomInputQueueSnapshot
  <2>2. UNCHANGED <<wakes, busy>>
    BY <1>5 DEF broadcastRoomInputQueueSnapshot
  <2>3. QED
    BY <2>1, <2>2, MoveBusy
<1>6. QED
  BY <1>1, <1>2, <1>3, <1>4, <1>5 DEF StartStep

LEMMA MessageBusy ==
    ASSUME Types, HeldType, BusyKept, NEW m \in Senders, NEW s, NEW agents, NEW policy,
           \/ HandleChat(m, agents, policy) \/ HandleInterrupt(m)
           \/ HandleDirectedMessage(m, s, agents)
           \/ InterruptStep(m) \/ InterruptGivesUp(m)
    PROVE  BusyKept'
<1> USE DEF HandleChat, HandleInterrupt, HandleDirectedMessage, InterruptStep, collectTargets,
            interruptTarget, InterruptReturns, ForceCancel, InterruptDone, InterruptGivesUp
<1>1. UNCHANGED busy
  OBVIOUS
<1>2. \A d \in Callers : d # m => wakes'[d] = wakes[d]
  BY DEF Types, CallType
<1>3. PICK from \in PCs, to \in PCs \ {"enqueue"} : Moves(m, from, to)
  BY Kinds2 DEF FirstPoint
<1>4. m \in Callers
  BY Kinds2
<1>5. QED
  BY <1>1, <1>2, <1>3, <1>4, MoveBusy

LEMMA RunnerBusy ==
    ASSUME Types, HeldType, BusyKept, NEW c \in Callers, DispatcherStep(c) \/ RunnerStep(c)
    PROVE  BusyKept'
<1> USE DEF DispatcherStep, DispatcherBegins, findDispatchableInputQueueEntry, Dispatch,
            DispatchFails, DispatchSucceeded, DispatchRestores, RunnerStep, finishRound,
            RunnerEnds, RunnerWakes
<1>1. UNCHANGED busy
  OBVIOUS
<1>2. \A d \in Callers : d # c => wakes'[d] = wakes[d]
  BY DEF Types, CallType
<1>3. PICK from \in PCs, to \in PCs \ {"enqueue"} : Moves(c, from, to)
  BY Kinds2 DEF FirstPoint
<1>4. QED
  BY <1>1, <1>2, <1>3, MoveBusy

LEMMA BusyNext == ASSUME Types, HeldType, BusyKept, [Next]_vars PROVE BusyKept'
<1>1. ASSUME NEW c \in Callers, CallStep(c) PROVE BusyKept'
  BY <1>1, Kinds2, StartBusy, MessageBusy, RunnerBusy DEF CallStep
<1>2. ASSUME UNCHANGED <<pc, wakes, busy>> PROVE BusyKept'
  BY <1>2 DEF BusyKept
<1>3. CASE UserStep
  <2>1. ASSUME NEW agents, NEW policy, Enqueue(agents, policy) PROVE BusyKept'
    BY <1>2, <2>1 DEF Enqueue, callVars
  <2>2. ASSUME NEW i \in Items, Delete(i) PROVE BusyKept'
    BY <1>2, <2>2 DEF Delete, callVars
  <2>3. CASE Subscribe
    BY <1>2, <2>3 DEF Subscribe, callVars
  <2>4. QED
    BY <1>3, <2>1, <2>2, <2>3, Kinds2, MessageBusy DEF UserStep
<1>4. ASSUME NEW s \in Slots, SlotStep(s) \/ AgentStep(s) PROVE BusyKept'
  BY <1>2, <1>4 DEF SlotStep, AgentStep, SlotBegins, SlotEnds, SlotInterrupted, SlotCompletes,
     SlotFails, SlotMoves, callVars
<1>5. ASSUME NEW s \in Slots, NEW l \in Messages, NEW agents \in Audiences,
             HandleDirectedMessage(l, s, agents)
      PROVE  BusyKept'
  BY <1>5, Kinds2, MessageBusy
<1>6. CASE UNCHANGED vars
  BY <1>2, <1>6 DEF vars, callVars
<1>7. QED
  BY <1>1, <1>3, <1>4, <1>5, <1>6 DEF Next

\* A step of one goroutine.
LEMMA MoveIntact ==
    ASSUME Types, HeldType, Intact, NEW c \in Callers, NEW from, NEW to \in PCs, Moves(c, from, to),
           \A i \in used : info'[i] = info[i],
           \A d \in Callers : d # c => wakes'[d] = wakes[d],
           \A d \in Dispatchers : d # c => held'[d] = held[d],
           c \in Dispatchers /\ to \in Stopping => info'[held'[c]].wakes \subseteq wakes'[c]
    PROVE  Intact'
<1>1. pc'[c] = to /\ \A d \in Callers : d # c => pc'[d] = pc[d]
  BY MovesType
<1>2. ASSUME NEW d \in Dispatchers, d # c, pc'[d] \in Stopping
      PROVE  info'[held'[d]].wakes \subseteq wakes'[d]
  <2>1. d \in Callers /\ pc[d] \in Stopping
    BY <1>1, <1>2, Kinds2
  <2>2. held[d] \in used
    BY <2>1 DEF HeldType, HoldingPoints, Stopping
  <2>3. QED
    BY <1>2, <2>1, <2>2 DEF Intact
<1>3. QED
  BY <1>1, <1>2 DEF Intact

LEMMA InterruptIntact ==
    ASSUME Types, HeldType, Intact, NEW c \in Senders, InterruptStep(c) \/ InterruptGivesUp(c)
    PROVE  Intact'
<1> USE DEF InterruptStep, collectTargets, interruptTarget, InterruptReturns, ForceCancel,
            InterruptDone, InterruptGivesUp
<1>1. UNCHANGED <<info, held>>
  BY DEF queueVars
<1>2. PICK from \in Stopping, to \in PCs : Moves(c, from, to) /\ (UNCHANGED wakes \/ to = "failed")
  BY Kinds2 DEF Stopping
<1>3. \A d \in Callers : d # c => wakes'[d] = wakes[d]
  BY DEF Types, CallType
<1>4. c \in Callers /\ "failed" \notin Stopping
  BY Kinds2 DEF Stopping
<1>5. c \in Dispatchers => info[held[c]].wakes \subseteq wakes[c]
  BY <1>2 DEF Intact, Moves
<1>6. QED
  BY <1>1, <1>2, <1>3, <1>4, <1>5, MoveIntact

LEMMA StartIntact ==
    ASSUME Types, HeldType, Intact, NEW c \in Callers, StartStep(c)
    PROVE  Intact'
<1>1. UNCHANGED held
  BY DEF StartStep, findActiveDeliverySlots, enqueueForActiveAgentSlots,
     broadcastRoomInputQueueSnapshot, CallFails, registerRound
<1>2. \A d \in Callers : d # c => wakes'[d] = wakes[d]
  BY DEF StartStep, findActiveDeliverySlots, enqueueForActiveAgentSlots,
     broadcastRoomInputQueueSnapshot, CallFails, registerRound, Types, CallType
<1>3. \A i \in used : info'[i] = info[i]
  <2>1. CASE enqueueForActiveAgentSlots(c)
    <3>1. PICK w \in busy[c], i \in Items \ used : info' = QueueItem(c, w, i)
      BY <2>1, FreshIsNew DEF enqueueForActiveAgentSlots
    <3>2. QED
      BY <3>1 DEF QueueItem, Types, QueueType
  <2>2. CASE ~enqueueForActiveAgentSlots(c)
    BY <2>2 DEF StartStep, findActiveDeliverySlots, broadcastRoomInputQueueSnapshot, CallFails,
       registerRound, queueVars
  <2>3. QED
    BY <2>1, <2>2
<1>4. CASE registerRound(c)
  <2>1. PICK r \in Rounds : pc' = [pc EXCEPT ![c] = "ok", ![r] = "running"]
    BY <1>4 DEF registerRound, FreeRounds
  <2>2. \A d \in Dispatchers : pc'[d] \in Stopping => d # c /\ pc[d] \in Stopping
    BY <2>1, Kinds2 DEF Stopping, Types, CallType
  <2>3. \A d \in Dispatchers : pc[d] \in Stopping => held[d] \in used
    BY DEF HeldType, HoldingPoints, Stopping
  <2>4. QED
    BY <1>1, <1>2, <1>3, <2>2, <2>3, Kinds2 DEF Intact
<1>5. CASE ~registerRound(c)
  <2>1. PICK from, to \in PCs \ Stopping : Moves(c, from, to)
    BY <1>5, Kinds2 DEF StartStep, findActiveDeliverySlots, enqueueForActiveAgentSlots,
       broadcastRoomInputQueueSnapshot, CallFails, Stopping
  <2>2. QED
    BY <1>1, <1>2, <1>3, <2>1, MoveIntact
<1>6. QED
  BY <1>4, <1>5

LEMMA DispatcherIntact ==
    ASSUME Types, HeldType, Intact, NEW d \in Dispatchers, DispatcherStep(d)
    PROVE  Intact'
<1> USE DEF DispatcherStep, DispatcherBegins, findDispatchableInputQueueEntry, Dispatch,
            DispatchFails, DispatchSucceeded, DispatchRestores
<1>1. UNCHANGED info
  BY DEF queueVars
<1>2. d \in Callers
  BY Kinds2
<1>3. \A e \in Callers : e # d => wakes'[e] = wakes[e]
  BY DEF Types, CallType
<1>4. \A e \in Dispatchers : e # d => held'[e] = held[e]
  BY DEF Types, CallType
<1>5. PICK from \in PCs, to \in PCs :
        Moves(d, from, to) /\ (to \in Stopping => wakes'[d] = info[held[d]].wakes /\ UNCHANGED held)
  <2>1. CASE Dispatch(d)
    <3>1. Moves(d, "pop", FirstPoint(Policy(d))) /\ FirstPoint(Policy(d)) \in PCs /\ "pop" \in PCs
      BY <2>1, Kinds2 DEF FirstPoint
    <3>2. wakes'[d] = info[held[d]].wakes /\ UNCHANGED held
      BY <1>2, <2>1 DEF Types, CallType
    <3>3. QED
      BY <3>1, <3>2
  <2>2. CASE ~Dispatch(d)
    BY <2>2, Kinds2 DEF Stopping
  <2>3. QED
    BY <2>1, <2>2
<1>6. QED
  BY <1>1, <1>2, <1>3, <1>4, <1>5, MoveIntact

LEMMA OtherIntact ==
    ASSUME Types, HeldType, Intact, NEW c \in Messages \cup Rounds, NEW s, NEW agents, NEW policy,
           \/ c \in Messages /\ \/ HandleChat(c, agents, policy) \/ HandleInterrupt(c)
                                \/ HandleDirectedMessage(c, s, agents)
           \/ c \in Rounds /\ RunnerStep(c)
    PROVE  Intact'
<1> USE DEF HandleChat, HandleInterrupt, HandleDirectedMessage, RunnerStep, finishRound, RunnerEnds,
            RunnerWakes
<1>1. UNCHANGED <<info, held>>
  BY DEF queueVars
<1>2. c \in Callers /\ c \notin Dispatchers
  BY Kinds2
<1>3. \A d \in Callers : d # c => wakes'[d] = wakes[d]
  BY DEF Types, CallType
<1>4. PICK from, to \in PCs : Moves(c, from, to)
  BY Kinds2 DEF FirstPoint
<1>5. QED
  BY <1>1, <1>2, <1>3, <1>4, MoveIntact

LEMMA SameIntact ==
    ASSUME Types, HeldType, Intact, UNCHANGED <<pc, wakes, held>>, \A i \in used : info'[i] = info[i]
    PROVE  Intact'
<1>1. \A d \in Dispatchers : pc[d] \in Stopping => held[d] \in used
  BY DEF HeldType, HoldingPoints, Stopping
<1>2. QED
  BY <1>1 DEF Intact

LEMMA IntactNext == ASSUME Types, HeldType, Intact, [Next]_vars PROVE Intact'
<1>1. ASSUME NEW c \in Callers, CallStep(c) PROVE Intact'
  BY <1>1, StartIntact, InterruptIntact, DispatcherIntact, OtherIntact DEF CallStep
<1>2. CASE UserStep
  <2>1. ASSUME NEW agents, NEW policy, Enqueue(agents, policy) PROVE Intact'
    <3>1. PICK i \in Items \ used : \E new : info' = [info EXCEPT ![i] = new]
      BY <2>1, FreshIsNew DEF Enqueue
    <3>2. \A j \in used : info'[j] = info[j]
      BY <3>1 DEF Types, QueueType
    <3>3. QED
      BY <2>1, <3>2, SameIntact DEF Enqueue, callVars
  <2>2. ASSUME NEW i \in Items, Delete(i) PROVE Intact'
    BY <2>2, SameIntact DEF Delete, callVars
  <2>3. CASE Subscribe
    BY <2>3, SameIntact DEF Subscribe, callVars, queueVars
  <2>4. QED
    BY <1>2, <2>1, <2>2, <2>3, OtherIntact, InterruptIntact DEF UserStep
<1>3. ASSUME NEW s \in Slots, SlotStep(s) \/ AgentStep(s) PROVE Intact'
  BY <1>3, SameIntact DEF SlotStep, AgentStep, SlotBegins, SlotEnds, SlotInterrupted, SlotCompletes,
     SlotFails, SlotMoves, callVars, queueVars
<1>4. ASSUME NEW s \in Slots, NEW l \in Messages, NEW agents \in Audiences,
             HandleDirectedMessage(l, s, agents)
      PROVE  Intact'
  BY <1>4, OtherIntact
<1>5. CASE UNCHANGED vars
  BY <1>5, SameIntact DEF vars, callVars, queueVars
<1>6. QED
  BY <1>1, <1>2, <1>3, <1>4, <1>5 DEF Next

LEMMA OnceInit == Init => Once
<1> SUFFICES ASSUME Init PROVE Once
  OBVIOUS
<1> USE DEF Init
<1>1. \A k \in PlaceKinds, x \in Owners, w \in Wakes : ~In(k, x, w)
  BY Kinds2 DEF In
<1>2. OnePlace /\ AllMade
  BY <1>1 DEF OnePlace, AllMade
<1>3. RepeatedUsed /\ IdleIsEmpty /\ WakesServedOnce
  BY DEF RepeatedUsed, IdleIsEmpty, WakesServedOnce
<1>4. QED
  BY <1>2, <1>3 DEF Once

LEMMA OnceNext == ASSUME Types, HeldType, BusyKept, Intact, Once, [Next]_vars PROVE Once'
<1>1. ASSUME NEW c \in Callers, CallStep(c) PROVE Once'
  <2>1. CASE StartStep(c)
    BY <2>1, LooksOnce, QueuesOnce, CallFailsOnce, RegistersOnce DEF StartStep
  <2>2. CASE c \in Senders /\ InterruptStep(c)
    BY <2>2, InterruptsOnce
  <2>3. CASE c \in Dispatchers /\ DispatcherStep(c)
    BY <2>3, DispatchersOnce, DispatchOnce, RestoresOnce DEF DispatcherStep
  <2>4. CASE c \in Rounds /\ RunnerStep(c)
    BY <2>4, FinishesOnce, RunnerEndsOnce DEF RunnerStep
  <2>5. QED
    BY <1>1, <2>1, <2>2, <2>3, <2>4 DEF CallStep
<1>2. CASE UserStep
  BY <1>2, Kinds2, MessageOnce, InterruptsOnce, CallFailsOnce, EnqueueOnce, OtherOnce DEF UserStep
<1>3. ASSUME NEW s \in Slots, SlotStep(s) \/ AgentStep(s) PROVE Once'
  BY <1>3, SlotEndsOnce, OtherOnce DEF SlotStep, AgentStep
<1>4. ASSUME NEW s \in Slots, NEW l \in Messages, NEW agents \in Audiences,
             HandleDirectedMessage(l, s, agents)
      PROVE  Once'
  BY <1>4, MessageOnce
<1>5. QED
  BY <1>1, <1>2, <1>3, <1>4, OtherOnce DEF Next

Kept == BusyKept /\ Intact

LEMMA KeptInit == Init => Kept
<1>1. Init => BusyKept
  BY DEF Init, BusyKept
<1>2. Init => Intact
  BY Kinds2 DEF Init, Intact, Stopping
<1>3. QED
  BY <1>1, <1>2 DEF Kept

\* A wake gets one slot, through any number of queues, failures and restores,
\* unless its item was dispatched twice.
THEOREM WakesAreServedOnce == Spec => []WakesServedOnce
<1>1. Init => Kept /\ Once
  BY KeptInit, OnceInit
<1>2. Types /\ HeldType /\ Kept /\ Once /\ [Next]_vars => (Kept /\ Once)'
  BY BusyNext, IntactNext, OnceNext DEF Kept
<1>3. Once => WakesServedOnce
  BY DEF Once
<1>4. QED
  BY <1>1, <1>2, <1>3, TypesHold, PTL DEF Spec

---------------------------------------------------------------------------
(* Routes.  Slots of one agent that are at work side by side are known as  *)
(* such: a call that is to register a round knows the slots of its agents, *)
(* because it found none, because they came after its look, or because an  *)
(* interrupt still waits for them.                                         *)

Live(s) == at[s] \notin {"none", "done"}

SlotsRun == \A s \in Slots : Live(s) => pc[s[1]] = "running"

Alone == \A s, t \in Slots : Live(s) /\ Live(t) /\ s[2] = t[2] /\ s # t => s \in beside

Interrupting(c) == c \in Senders /\ Policy(c) = "interrupt"

\* The slot came after the look of the call, or nobody finds it.
Overlooks(c, t) == t[1] \in fresh[c] \/ key[t[1]] \in repeated

\* The call has looked for the agents of these wakes.
ClearFor(c, ws) ==
    \A t \in Slots :
        Live(t) /\ (\E w \in ws : w[2] = t[2]) =>
            Overlooks(c, t) \/ (status[t] # "active" /\ ~Interrupting(c))

CallClear(c) ==
    /\ pc[c] = "enqueue" => ClearFor(c, wakes[c] \ busy[c])
    /\ pc[c] \in {"snapshot", "register"} => ClearFor(c, wakes[c])

InterruptClear(c) ==
    Policy(c) = "interrupt" /\ pc[c] \in {"next", "waiting", "forced"} =>
        \A t \in Slots :
            Live(t) /\ (\E w \in wakes[c] : w[2] = t[2]) =>
                Overlooks(c, t) \/ t \in todo[c] \/ (pc[c] # "next" /\ on[c] = t)

Purpose(c) ==
    /\ pc[c] \in {"look", "enqueue", "snapshot"} => Policy(c) # "interrupt"
    /\ pc[c] \in {"collect", "next", "waiting", "forced"} => Policy(c) \in {"interrupt", "stop"}

Clear(c) == CallClear(c) /\ (c \in Senders => InterruptClear(c) /\ Purpose(c))

\* Control points at which a call knows nothing.
Unaware ==
    PCs \ {"look", "enqueue", "snapshot", "register", "collect", "next", "waiting", "forced"}

SlotsKept == SlotsRun /\ Alone /\ RouteKept

Routes == SlotsKept /\ \A c \in Callers : Clear(c)

\* No slot comes to work or is found again, and those nobody finds stay so.
EnvKept ==
    \A t \in Slots :
        Live(t)' => /\ Live(t)
                    /\ status'[t] = "active" => status[t] = "active"
                    /\ key[t[1]] \in repeated => key'[t[1]] \in repeated'

\* What a call has is the same, and it overlooks no less.
CallerKept(c) ==
    /\ pc'[c] = pc[c] /\ wakes'[c] = wakes[c] /\ busy'[c] = busy[c] /\ fresh[c] \subseteq fresh'[c]
    /\ c \in Senders => todo'[c] = todo[c] /\ on'[c] = on[c]
    /\ c \in Senders /\ pc[c] \notin Unaware => Policy(c)' = Policy(c)

LEMMA UnawareClear ==
    ASSUME NEW c \in Callers,
           \/ pc'[c] \in Unaware
           \/ pc'[c] = "look" /\ (c \in Senders => Policy(c)' # "interrupt")
           \/ pc'[c] = "collect" /\ Policy(c)' \in {"interrupt", "stop"}
    PROVE  Clear(c)'
  BY DEF Clear, CallClear, InterruptClear, Purpose, Unaware

\* The policy of a call is that of its message or of the item that it has.
LEMMA SamePolicy ==
    ASSUME Types, HeldType, NEW c \in Senders, pc[c] \notin Unaware,
           c \in Messages => choice'[c] = choice[c],
           c \in Dispatchers => held'[c] = held[c],
           \A i \in used : info'[i] = info[i]
    PROVE  Policy(c)' = Policy(c)
<1>1. CASE c \in Messages
  BY <1>1 DEF Policy
<1>2. CASE c \notin Messages
  <2>1. c \in Dispatchers /\ c \in Callers
    BY <1>2, Kinds2 DEF Senders
  <2>2. pc[c] \in HoldingPoints
    BY <2>1 DEF Unaware, HoldingPoints, Types, CallType
  <2>3. held[c] \in used
    BY <2>1, <2>2 DEF HeldType
  <2>4. QED
    BY <1>2, <2>1, <2>3 DEF Policy
<1>3. QED
  BY <1>1, <1>2

LEMMA SameClear == ASSUME EnvKept, NEW c \in Callers, Clear(c), CallerKept(c) PROVE Clear(c)'
<1>1. CASE pc[c] \in Unaware
  BY <1>1, UnawareClear DEF CallerKept
<1>2. CASE pc[c] \notin Unaware
  <2> USE DEF CallerKept
  <2>1. \A t \in Slots : Live(t)' /\ Overlooks(c, t) => Overlooks(c, t)'
    BY DEF EnvKept, Overlooks
  <2>2. c \in Senders => Policy(c)' = Policy(c)
    BY <1>2
  <2>3. Interrupting(c)' <=> Interrupting(c)
    BY <2>2 DEF Interrupting
  <2>4. ASSUME NEW ws, ClearFor(c, ws) PROVE ClearFor(c, ws)'
    BY <2>1, <2>3, <2>4 DEF ClearFor, EnvKept
  <2>5. CallClear(c)'
    <3>1. PICK rest, all : rest = wakes[c] \ busy[c] /\ all = wakes[c]
      OBVIOUS
    <3>2. rest = (wakes[c] \ busy[c])' /\ all = wakes'[c]
      BY <3>1
    <3>3. pc'[c] = "enqueue" => ClearFor(c, rest)
      BY <3>1 DEF Clear, CallClear
    <3>4. pc'[c] \in {"snapshot", "register"} => ClearFor(c, all)
      BY <3>1 DEF Clear, CallClear
    <3>5. pc'[c] = "enqueue" => ClearFor(c, rest)'
      BY <2>4, <3>3
    <3>6. pc'[c] \in {"snapshot", "register"} => ClearFor(c, all)'
      BY <2>4, <3>4
    <3>7. QED
      BY <3>2, <3>5, <3>6 DEF CallClear, ClearFor
  <2>6. c \in Senders => InterruptClear(c)'
    BY <2>1, <2>2 DEF Clear, InterruptClear, EnvKept
  <2>7. c \in Senders => Purpose(c)'
    BY <2>2 DEF Clear, Purpose
  <2>8. QED
    BY <2>5, <2>6, <2>7 DEF Clear
<1>3. QED
  BY <1>1, <1>2

\* A step that changes no slot and ends no round.
LEMMA SameSlotsKept ==
    ASSUME SlotsKept, UNCHANGED <<at, route, beside>>,
           \A r \in Rounds : pc[r] = "running" => pc'[r] = "running"
    PROVE  SlotsKept'
<1>1. SlotsRun'
  BY DEF SlotsKept, SlotsRun, Live, Slots
<1>2. Alone' /\ RouteKept'
  BY DEF SlotsKept, Alone, Live, RouteKept
<1>3. QED
  BY <1>1, <1>2 DEF SlotsKept

\* The slots of a round that is at work are found, unless its item was
\* dispatched twice.
LEMMA LiveIsFound ==
    ASSUME Found, Routes, NEW t \in Slots, Live(t), ~Registered(t[1])
    PROVE  key[t[1]] \in repeated
<1>1. t[1] \in Rounds /\ pc[t[1]] = "running"
  BY DEF Routes, SlotsKept, SlotsRun, Slots
<1>2. QED
  BY <1>1 DEF Found, RoundsAreFound

\* A step of one goroutine that changes no slot.
LEMMA MoveRoutes ==
    ASSUME Types, HeldType, Routes, NEW c \in Callers, NEW from, NEW to \in PCs, Moves(c, from, to),
           c \in Rounds => from # "running",
           UNCHANGED <<at, route, beside, status, key>>, repeated \subseteq repeated',
           \A d \in Callers : d # c =>
               wakes'[d] = wakes[d] /\ busy'[d] = busy[d] /\ fresh'[d] = fresh[d],
           \A m \in Messages : m # c => choice'[m] = choice[m],
           \A d \in Dispatchers : d # c => held'[d] = held[d],
           \A m \in Senders : m # c => todo'[m] = todo[m] /\ on'[m] = on[m],
           \A i \in used : info'[i] = info[i],
           Clear(c)'
    PROVE  Routes'
<1>1. pc[c] = from /\ pc'[c] = to /\ \A d \in Callers : d # c => pc'[d] = pc[d]
  BY MovesType
<1>2. SlotsKept'
  <2>1. \A r \in Rounds : pc[r] = "running" => pc'[r] = "running"
    BY <1>1, Kinds2
  <2>2. QED
    BY <2>1, SameSlotsKept DEF Routes
<1>3. EnvKept
  BY DEF EnvKept, Live
<1>4. ASSUME NEW d \in Callers, d # c PROVE Clear(d)'
  <2>1. d \in Senders /\ pc[d] \notin Unaware => Policy(d)' = Policy(d)
    BY <1>4, SamePolicy
  <2>2. CallerKept(d)
    BY <1>1, <1>4, <2>1 DEF CallerKept
  <2>3. QED
    BY <1>3, <2>2, SameClear DEF Routes
<1>5. QED
  BY <1>2, <1>4 DEF Routes

LEMMA MessageRoutes ==
    ASSUME Types, HeldType, Routes, NEW m \in Messages, NEW s, NEW agents,
           NEW policy \in {"queue", "interrupt"},
           HandleChat(m, agents, policy) \/ HandleInterrupt(m) \/ HandleDirectedMessage(m, s, agents)
    PROVE  Routes'
<1> USE DEF HandleChat, HandleInterrupt, HandleDirectedMessage
<1>0. m \in Callers /\ m \notin Rounds
  BY Kinds2
<1>1. UNCHANGED <<at, route, beside, status, key, repeated, fresh, busy, todo, on, held, info>>
  BY DEF rounds, slots, queueVars, history
<1>2. \A d \in Callers : d # m => wakes'[d] = wakes[d]
  BY DEF Types, CallType
<1>3. \A l \in Messages : l # m => choice'[l] = choice[l]
  BY DEF Types, InterruptType
<1>4. PICK to \in {"look", "collect"} :
        /\ Moves(m, "idle", to)
        /\ to = "look" => choice'[m] # "interrupt"
        /\ to = "collect" => choice'[m] \in {"interrupt", "stop"}
  <2>1. CASE HandleChat(m, agents, policy)
    BY <2>1 DEF FirstPoint, Types, InterruptType
  <2>2. CASE HandleInterrupt(m)
    BY <2>2 DEF Types, InterruptType
  <2>3. CASE HandleDirectedMessage(m, s, agents)
    BY <2>3 DEF Types, InterruptType
  <2>4. QED
    BY <2>1, <2>2, <2>3
<1>5. pc'[m] = to /\ to \in PCs
  BY <1>0, <1>4, MovesType, Kinds2
<1>6. Clear(m)'
  <2>1. Policy(m)' = choice'[m]
    BY DEF Policy
  <2>2. QED
    BY <1>0, <1>4, <1>5, <2>1, UnawareClear
<1>7. QED
  BY <1>0, <1>1, <1>2, <1>3, <1>4, <1>5, <1>6, MoveRoutes

LEMMA LooksRoutes ==
    ASSUME Types, HeldType, Found, Routes, NEW c \in Callers, findActiveDeliverySlots(c)
    PROVE  Routes'
<1>1. /\ UNCHANGED <<at, route, beside, status, key, repeated, wakes, todo, on, choice,
                      held, info>>
      /\ busy' = [busy EXCEPT ![c] = Busy(wakes[c])]
      /\ fresh' = [fresh EXCEPT ![c] = {}]
      /\ Moves(c, "look", IF Busy(wakes[c]) = {} THEN "register" ELSE "enqueue")
  BY DEF findActiveDeliverySlots, rounds, queueVars, history, interrupts
<1>2. PICK to \in {"register", "enqueue"} :
        to = (IF Busy(wakes[c]) = {} THEN "register" ELSE "enqueue") /\ Moves(c, "look", to)
  BY <1>1
<1>3. pc[c] = "look" /\ pc'[c] = to /\ to \in PCs
  BY <1>2, MovesType, Kinds2
<1>4. \A d \in Callers : d # c => busy'[d] = busy[d] /\ fresh'[d] = fresh[d]
  BY <1>1 DEF Types, CallType, SlotsType
<1>5. ~Interrupting(c) /\ ~Interrupting(c)'
  <2>1. Policy(c)' = Policy(c)
    BY <1>1 DEF Policy
  <2>2. QED
    BY <1>3, <2>1 DEF Routes, Clear, Purpose, Interrupting
<1>6. PICK free : free = wakes[c] \ Busy(wakes[c])
  OBVIOUS
<1>7. ClearFor(c, free)'
  <2>1. ASSUME NEW t \in Slots, Live(t), NEW w \in free, w[2] = t[2]
        PROVE  status[t] # "active" \/ key[t[1]] \in repeated
    <3>1. ~Active(t[2])
      BY <1>6, <2>1 DEF Busy
    <3>2. t = <<t[1], t[2]>> /\ t[1] \in Rounds
      BY DEF Slots
    <3>3. status[t] # "active" \/ ~Registered(t[1])
      BY <2>1, <3>1, <3>2 DEF Active, Live
    <3>4. QED
      BY <2>1, <3>3, LiveIsFound
  <2>2. QED
    BY <1>1, <1>5, <2>1 DEF ClearFor, Overlooks, Live
<1>8. busy'[c] = Busy(wakes[c])
  BY <1>1 DEF Types, CallType
<1>9. CallClear(c)'
  <2>1. free = (wakes[c] \ busy[c])'
    BY <1>1, <1>6, <1>8
  <2>2. to = "register" => free = wakes'[c]
    BY <1>1, <1>2, <1>6
  <2>3. QED
    BY <1>3, <1>7, <2>1, <2>2 DEF CallClear, ClearFor
<1>10. Clear(c)'
  BY <1>1, <1>3, <1>5, <1>9 DEF Clear, InterruptClear, Purpose, Interrupting
<1>11. QED
  BY <1>1, <1>2, <1>3, <1>4, <1>10, MoveRoutes

LEMMA QueuesRoutes ==
    ASSUME Types, HeldType, Routes, NEW c \in Callers, enqueueForActiveAgentSlots(c)
    PROVE  Routes'
<1>1. PICK w \in busy[c], i \in Items \ used :
        /\ Moves(c, "enqueue", IF busy[c] = {w} THEN "snapshot" ELSE "enqueue")
        /\ info' = QueueItem(c, w, i)
        /\ wakes' = [wakes EXCEPT ![c] = wakes[c] \ {w}]
        /\ busy' = [busy EXCEPT ![c] = busy[c] \ {w}]
        /\ UNCHANGED <<at, route, beside, status, key, repeated, todo, on, choice, held, fresh>>
  BY FreshIsNew DEF enqueueForActiveAgentSlots, rounds, slots, interrupts, history
<1>2. PICK to \in {"enqueue", "snapshot"} :
        /\ to = IF busy[c] = {w} THEN "snapshot" ELSE "enqueue"
        /\ Moves(c, "enqueue", to)
  BY <1>1
<1>3. pc[c] = "enqueue" /\ pc'[c] = to /\ to \in PCs
  BY <1>2, MovesType, Kinds2
<1>4. /\ wakes'[c] = wakes[c] \ {w} /\ busy'[c] = busy[c] \ {w}
      /\ \A d \in Callers : d # c => wakes'[d] = wakes[d] /\ busy'[d] = busy[d]
  BY <1>1 DEF Types, CallType
<1>5. \A j \in used : info'[j] = info[j]
  BY <1>1 DEF QueueItem, Types, QueueType
<1>6. Clear(c) /\ ClearFor(c, wakes[c] \ busy[c])
  BY <1>3 DEF Routes, Clear, CallClear
<1>7. PICK free : free = wakes[c] \ busy[c]
  OBVIOUS
<1>8. c \in Senders => Policy(c)' = Policy(c) /\ Policy(c) # "interrupt"
  BY <1>1, <1>3, <1>5, <1>6, SamePolicy DEF Unaware, Clear, Purpose
<1>9. ClearFor(c, free)'
  BY <1>1, <1>6, <1>7, <1>8 DEF ClearFor, Overlooks, Live, Interrupting
<1>10. (wakes'[c] \ busy'[c]) \subseteq free /\ (to = "snapshot" => wakes'[c] \subseteq free)
  BY <1>2, <1>4, <1>7
<1>11. CallClear(c)'
  BY <1>3, <1>9, <1>10 DEF CallClear, ClearFor
<1>12. Clear(c)'
  BY <1>3, <1>8, <1>11 DEF Clear, InterruptClear, Purpose
<1>13. QED
  BY <1>1, <1>2, <1>3, <1>4, <1>5, <1>12, MoveRoutes

LEMMA SnapshotRoutes ==
    ASSUME Types, HeldType, Routes, NEW c \in Callers, broadcastRoomInputQueueSnapshot(c)
    PROVE  Routes'
<1>1. PICK to \in {"ok", "register"} :
        Moves(c, "snapshot", to) /\ (to = "register" => UNCHANGED fresh)
  BY DEF broadcastRoomInputQueueSnapshot
<1>2. /\ UNCHANGED <<at, route, beside, status, key, repeated, wakes, busy, todo, on, choice, held,
                     info>>
      /\ \A d \in Callers : d # c => fresh'[d] = fresh[d]
  BY DEF broadcastRoomInputQueueSnapshot, rounds, queueVars, interrupts, history, Types, SlotsType
<1>3. pc[c] = "snapshot" /\ pc'[c] = to /\ to \in PCs
  BY <1>1, MovesType, Kinds2
<1>4. PICK ws : ws = wakes[c]
  OBVIOUS
<1>5. ClearFor(c, ws)
  BY <1>3, <1>4 DEF Routes, Clear, CallClear
<1>6. Policy(c)' = Policy(c)
  BY <1>2 DEF Policy
<1>7. to = "register" => ClearFor(c, ws)'
  BY <1>1, <1>2, <1>5, <1>6 DEF ClearFor, Overlooks, Live, Interrupting
<1>8. CallClear(c)'
  BY <1>2, <1>3, <1>4, <1>7 DEF CallClear, ClearFor
<1>9. Clear(c)'
  BY <1>3, <1>8 DEF Clear, InterruptClear, Purpose
<1>10. QED
  BY <1>1, <1>2, <1>3, <1>9, MoveRoutes

LEMMA CallFailsRoutes ==
    ASSUME Types, HeldType, Routes, NEW c \in Callers, CallFails(c)
    PROVE  Routes'
<1>1. PICK from \in {"look", "enqueue", "snapshot", "register"} : Moves(c, from, "failed")
  BY DEF CallFails
<1>2. /\ UNCHANGED <<at, route, beside, status, key, todo, on, choice, held, info>>
      /\ repeated \subseteq repeated'
      /\ \A d \in Callers : d # c =>
           wakes'[d] = wakes[d] /\ busy'[d] = busy[d] /\ fresh'[d] = fresh[d]
  BY DEF CallFails, rounds, queueVars, interrupts, Types, CallType, SlotsType
<1>3. pc'[c] = "failed" /\ "failed" \in PCs
  BY <1>1, MovesType, Kinds2
<1>4. Clear(c)'
  BY <1>3, UnawareClear DEF Unaware
<1>5. QED
  BY <1>1, <1>2, <1>3, <1>4, MoveRoutes

\* What is left to show of a step of an interrupt.
LEMMA InterruptMoveRoutes ==
    ASSUME Types, HeldType, Routes, NEW m \in Senders, NEW from, NEW to \in PCs, Moves(m, from, to),
           UNCHANGED <<at, route, beside, status, key, repeated, busy, choice, held, info>>,
           \A d \in Callers : d # m => wakes'[d] = wakes[d] /\ fresh'[d] = fresh[d],
           \A l \in Senders : l # m => todo'[l] = todo[l] /\ on'[l] = on[l],
           to \notin {"look", "enqueue", "snapshot"},
           to \in {"collect", "next", "waiting", "forced"} => Policy(m) \in {"interrupt", "stop"},
           to = "register" => ClearFor(m, wakes[m])',
           InterruptClear(m)'
    PROVE  Routes'
<1>1. m \in Callers /\ m \notin Rounds
  BY Kinds2
<1>2. pc'[m] = to /\ Policy(m)' = Policy(m)
  BY <1>1, MovesType DEF Policy
<1>3. Clear(m)'
  <2>1. to = "register" => CallClear(m)'
    BY <1>2 DEF CallClear, ClearFor
  <2>2. to # "register" => CallClear(m)'
    BY <1>2 DEF CallClear
  <2>3. Purpose(m)'
    BY <1>2 DEF Purpose
  <2>4. QED
    BY <2>1, <2>2, <2>3 DEF Clear
<1>4. QED
  BY <1>1, <1>3, MoveRoutes

LEMMA CollectsRoutes ==
    ASSUME Types, HeldType, Found, Routes, NEW m \in Senders, collectTargets(m)
    PROVE  Routes'
<1>1. /\ Moves(m, "collect", "next")
      /\ todo' = [todo EXCEPT ![m] =
                    IF Policy(m) = "stop" THEN {r \in Rounds : Registered(r)}
                    ELSE {s \in Slots : /\ Registered(s[1]) /\ at[s] # "none"
                                        /\ \E w \in wakes[m] : w[2] = s[2]}]
      /\ fresh' = [fresh EXCEPT ![m] = {}]
      /\ UNCHANGED <<at, route, beside, status, key, repeated, wakes, busy, choice, held, info, on>>
  BY DEF collectTargets, rounds, queueVars, history
<1>2. m \in Callers /\ pc[m] = "collect" /\ pc'[m] = "next" /\ "next" \in PCs
  BY <1>1, MovesType, Kinds2
<1>3. Policy(m) \in {"interrupt", "stop"}
  BY <1>2 DEF Routes, Clear, Purpose
<1>4. InterruptClear(m)'
  <2>1. ASSUME NEW t \in Slots, Live(t), \E w \in wakes[m] : w[2] = t[2], Policy(m) = "interrupt"
        PROVE  key[t[1]] \in repeated \/ t \in todo'[m]
    <3>1. CASE ~Registered(t[1])
      BY <2>1, <3>1, LiveIsFound
    <3>2. CASE Registered(t[1])
      BY <1>1, <2>1, <3>2 DEF Types, InterruptType, Live
    <3>3. QED
      BY <3>1, <3>2
  <2>2. QED
    BY <1>1, <1>2, <2>1 DEF InterruptClear, Policy, Overlooks, Live
<1>5. \A d \in Callers : d # m => wakes'[d] = wakes[d] /\ fresh'[d] = fresh[d]
  BY <1>1 DEF Types, SlotsType
<1>6. \A l \in Senders : l # m => todo'[l] = todo[l] /\ on'[l] = on[l]
  BY <1>1 DEF Types, InterruptType
<1>7. QED
  BY <1>1, <1>2, <1>3, <1>4, <1>5, <1>6, InterruptMoveRoutes

LEMMA TargetsRoutes ==
    ASSUME Types, HeldType, Found, Routes, NEW m \in Senders, interruptTarget(m)
    PROVE  Routes'
<1>1. PICK t \in todo[m] :
        /\ todo' = [todo EXCEPT ![m] = todo[m] \ {t}]
        /\ \/ t \in Slots /\ ~Registered(t[1]) /\ Moves(m, "next", "next") /\ UNCHANGED on
           \/ Moves(m, "next", "waiting") /\ on' = [on EXCEPT ![m] = t]
        /\ UNCHANGED <<at, route, beside, status, key, repeated, wakes, busy, choice, held, info, fresh>>
  BY DEF interruptTarget, rounds, slots, queueVars, history
<1>2. PICK to \in {"next", "waiting"} :
        /\ Moves(m, "next", to)
        /\ to = "next" => t \in Slots /\ ~Registered(t[1])
        /\ to = "waiting" => on' = [on EXCEPT ![m] = t]
        /\ to = "next" => UNCHANGED on
  BY <1>1
<1>3. m \in Callers /\ pc[m] = "next" /\ pc'[m] = to /\ to \in PCs
  BY <1>2, MovesType, Kinds2
<1>4. InterruptClear(m) /\ Policy(m) \in {"interrupt", "stop"}
  BY <1>3 DEF Routes, Clear, Purpose
<1>5. todo'[m] = todo[m] \ {t} /\ (to = "waiting" => on'[m] = t)
  BY <1>1, <1>2 DEF Types, InterruptType
<1>6. InterruptClear(m)'
  <2>1. ASSUME NEW u \in Slots, Live(u), \E w \in wakes[m] : w[2] = u[2], Policy(m) = "interrupt"
        PROVE  Overlooks(m, u) \/ u \in todo'[m] \/ (to # "next" /\ on'[m] = u)
    <3>1. Overlooks(m, u) \/ u \in todo[m]
      BY <1>3, <1>4, <2>1 DEF InterruptClear, Policy
    <3>2. CASE u # t
      BY <1>5, <3>1, <3>2
    <3>3. CASE u = t /\ to = "next"
      BY <1>2, <2>1, <3>3, LiveIsFound DEF Overlooks
    <3>4. CASE u = t /\ to # "next"
      BY <1>5, <3>4
    <3>5. QED
      BY <3>2, <3>3, <3>4
  <2>2. QED
    BY <1>1, <1>3, <2>1 DEF InterruptClear, Policy, Overlooks, Live
<1>7. \A l \in Senders : l # m => todo'[l] = todo[l] /\ on'[l] = on[l]
  BY <1>1, <1>2 DEF Types, InterruptType
<1>8. QED
  BY <1>1, <1>2, <1>3, <1>4, <1>6, <1>7, InterruptMoveRoutes

LEMMA ReturnsRoutes ==
    ASSUME Types, HeldType, Routes, NEW m \in Senders, InterruptReturns(m)
    PROVE  Routes'
<1>1. PICK from \in {"waiting", "forced"} : Moves(m, from, "next")
  BY DEF InterruptReturns
<1>2. /\ Ended(on[m]) /\ on' = [on EXCEPT ![m] = Nothing]
      /\ UNCHANGED <<at, route, beside, status, key, repeated, wakes, busy, choice, held, info, fresh, todo>>
  BY DEF InterruptReturns, rounds, slots, queueVars, history
<1>3. m \in Callers /\ pc[m] = from /\ pc'[m] = "next" /\ "next" \in PCs
  BY <1>1, MovesType, Kinds2
<1>4. InterruptClear(m) /\ Policy(m) \in {"interrupt", "stop"}
  BY <1>3 DEF Routes, Clear, Purpose
<1>5. \A t \in Slots : Live(t) => on[m] # t
  BY <1>2 DEF Ended, Live
<1>6. InterruptClear(m)'
  BY <1>2, <1>3, <1>4, <1>5 DEF InterruptClear, Policy, Overlooks, Live
<1>7. \A l \in Senders : l # m => on'[l] = on[l]
  BY <1>2 DEF Types, InterruptType
<1>8. QED
  BY <1>1, <1>2, <1>3, <1>4, <1>6, <1>7, InterruptMoveRoutes

LEMMA ForceRoutes ==
    ASSUME Types, HeldType, Routes, NEW m \in Senders, ForceCancel(m)
    PROVE  Routes'
<1>1. /\ Moves(m, "waiting", "forced")
      /\ UNCHANGED <<at, route, beside, status, key, repeated, wakes, busy, choice, held, info, fresh, todo, on>>
  BY DEF ForceCancel, rounds, queueVars, interrupts, history
<1>2. m \in Callers /\ pc[m] = "waiting" /\ pc'[m] = "forced" /\ "forced" \in PCs
  BY <1>1, MovesType, Kinds2
<1>3. InterruptClear(m) /\ Policy(m) \in {"interrupt", "stop"}
  BY <1>2 DEF Routes, Clear, Purpose
<1>4. InterruptClear(m)'
  BY <1>1, <1>2, <1>3 DEF InterruptClear, Policy, Overlooks, Live
<1>5. QED
  BY <1>1, <1>2, <1>3, <1>4, InterruptMoveRoutes

LEMMA GivesUpRoutes ==
    ASSUME Types, HeldType, Routes, NEW m \in Senders, InterruptGivesUp(m)
    PROVE  Routes'
<1>1. PICK from \in {"waiting", "forced"} : Moves(m, from, "failed")
  BY DEF InterruptGivesUp
<1>2. /\ UNCHANGED <<at, route, beside, status, key, repeated, busy, choice, held, info>>
      /\ \A d \in Callers : d # m => wakes'[d] = wakes[d] /\ fresh'[d] = fresh[d]
      /\ \A l \in Senders : l # m => todo'[l] = todo[l] /\ on'[l] = on[l]
  BY DEF InterruptGivesUp, rounds, queueVars, history, Types, CallType, SlotsType, InterruptType
<1>3. pc'[m] = "failed" /\ "failed" \in PCs
  BY <1>1, MovesType, Kinds2
<1>4. InterruptClear(m)'
  BY <1>3 DEF InterruptClear, Policy
<1>5. QED
  BY <1>1, <1>2, <1>3, <1>4, InterruptMoveRoutes

LEMMA DoneRoutes ==
    ASSUME Types, HeldType, Routes, NEW m \in Senders, InterruptDone(m)
    PROVE  Routes'
<1>1. PICK to \in {"ok", "register"} :
        to = (IF Policy(m) = "stop" THEN "ok" ELSE "register") /\ Moves(m, "next", to)
  BY DEF InterruptDone
<1>2. /\ todo[m] = {}
      /\ UNCHANGED <<at, route, beside, status, key, repeated, wakes, busy, choice, held, info, fresh, todo, on>>
  BY DEF InterruptDone, rounds, slots, queueVars, interrupts, history
<1>3. m \in Callers /\ pc[m] = "next" /\ pc'[m] = to /\ to \in PCs
  BY <1>1, MovesType, Kinds2
<1>4. InterruptClear(m) /\ Policy(m) \in {"interrupt", "stop"}
  BY <1>3 DEF Routes, Clear, Purpose
<1>5. to = "register" => ClearFor(m, wakes[m])'
  BY <1>1, <1>2, <1>3, <1>4 DEF InterruptClear, ClearFor, Policy, Overlooks, Live
<1>6. InterruptClear(m)'
  BY <1>3 DEF InterruptClear, Policy
<1>7. QED
  BY <1>1, <1>2, <1>3, <1>5, <1>6, InterruptMoveRoutes

LEMMA FinishesRoutes ==
    ASSUME Types, HeldType, Routes, NEW r \in Rounds, finishRound(r)
    PROVE  Routes'
<1>1. PICK to \in {"look", "ok"} : Moves(r, "running", to)
  BY DEF finishRound
<1>2. /\ \A s \in RoundSlots(r) : at[s] = "done"
      /\ status' = [s \in Slots |-> IF s[1] = r THEN "active" ELSE status[s]]
      /\ \A d \in Callers : d # r => wakes'[d] = wakes[d]
      /\ UNCHANGED <<at, route, beside, key, repeated, busy, fresh, choice, todo, on, held, info>>
  BY DEF finishRound, queueVars, interrupts, history, Types, CallType
<1>3. r \in Callers /\ r \notin Senders /\ to \in PCs
  BY Kinds2, CallersAssumption DEF Senders
<1>4. pc'[r] = to /\ \A d \in Callers : d # r => pc'[d] = pc[d]
  BY <1>1, <1>3, MovesType
<1>5. \A t \in Slots : Live(t) => t[1] # r
  BY <1>2 DEF RoundSlots, Live
<1>6. EnvKept
  BY <1>2, <1>5 DEF EnvKept, Live
<1>7. SlotsKept'
  <2>1. SlotsRun'
    <3>1. ASSUME NEW t \in Slots, Live(t) PROVE pc'[t[1]] = "running"
      <4>1. t[1] \in Rounds /\ t[1] # r /\ pc[t[1]] = "running"
        BY <1>5, <3>1 DEF Routes, SlotsKept, SlotsRun, Slots
      <4>2. QED
        BY <1>4, <4>1, Kinds2
    <3>2. QED
      BY <1>2, <3>1 DEF SlotsRun, Live
  <2>2. Alone' /\ RouteKept'
    BY <1>2 DEF Routes, SlotsKept, Alone, Live, RouteKept
  <2>3. QED
    BY <2>1, <2>2 DEF SlotsKept
<1>8. Clear(r)'
  <2>1. pc'[r] \in Unaware \/ pc'[r] = "look"
    BY <1>3, <1>4 DEF Unaware
  <2>2. QED
    BY <1>3, <2>1, UnawareClear
<1>9. ASSUME NEW d \in Callers, d # r PROVE Clear(d)'
  <2>1. CallerKept(d)
    BY <1>2, <1>4, <1>9 DEF CallerKept, Policy
  <2>2. QED
    BY <1>6, <2>1, SameClear DEF Routes
<1>10. QED
  BY <1>7, <1>8, <1>9 DEF Routes

LEMMA RunnerEndsRoutes ==
    ASSUME Types, HeldType, Routes, NEW r \in Rounds, RunnerEnds(r)
    PROVE  Routes'
<1>1. PICK from \in {"ok", "failed"} : Moves(r, from, "done")
  BY DEF RunnerEnds, RunnerWakes
<1>2. /\ \A o \in Rounds : o # r => key'[o] = key[o]
      /\ UNCHANGED <<at, status, route, beside, repeated, wakes, busy, fresh, choice, todo, on,
                     held, info>>
  BY DEF RunnerEnds, RunnerWakes, slots, queueVars, interrupts, history, Types, RoundsType
<1>3. r \in Callers /\ "done" \in PCs
  BY Kinds2
<1>4. pc[r] = from /\ pc'[r] = "done" /\ \A d \in Callers : d # r => pc'[d] = pc[d]
  BY <1>1, <1>3, MovesType
<1>5. EnvKept
  <2>1. ASSUME NEW t \in Slots, Live(t) PROVE key'[t[1]] = key[t[1]]
    <3>1. t[1] \in Rounds /\ pc[t[1]] = "running"
      BY <2>1 DEF Routes, SlotsKept, SlotsRun, Slots
    <3>2. QED
      BY <1>2, <1>4, <3>1
  <2>2. QED
    BY <1>2, <2>1 DEF EnvKept, Live
<1>6. SlotsKept'
  <2>1. \A o \in Rounds : pc[o] = "running" => pc'[o] = "running"
    BY <1>4, Kinds2
  <2>2. QED
    BY <1>2, <2>1, SameSlotsKept DEF Routes
<1>7. Clear(r)'
  BY <1>3, <1>4, UnawareClear DEF Unaware
<1>8. ASSUME NEW d \in Callers, d # r PROVE Clear(d)'
  <2>1. CallerKept(d)
    BY <1>2, <1>4, <1>8 DEF CallerKept, Policy
  <2>2. QED
    BY <1>5, <2>1, SameClear DEF Routes
<1>9. QED
  BY <1>6, <1>7, <1>8 DEF Routes

LEMMA DispatcherRoutes ==
    ASSUME Types, HeldType, Routes, NEW d \in Dispatchers, DispatcherStep(d)
    PROVE  Routes'
<1> USE DEF DispatcherStep, DispatcherBegins, findDispatchableInputQueueEntry, Dispatch,
            DispatchFails, DispatchSucceeded, DispatchRestores
<1>0. d \in Callers /\ d \notin Messages /\ d \notin Rounds
  BY Kinds2
<1>1. /\ UNCHANGED <<at, route, beside, status, key, fresh, busy, choice, todo, on, info>>
      /\ repeated \subseteq repeated'
      /\ \A c \in Callers : c # d => wakes'[c] = wakes[c]
      /\ \A e \in Dispatchers : e # d => held'[e] = held[e]
  BY DEF rounds, slots, queueVars, interrupts, history, Types, CallType
<1>2. PICK from \in PCs, to \in PCs :
        /\ Moves(d, from, to)
        /\ \/ to \in Unaware
           \/ from = "pop" /\ to = FirstPoint(Policy(d)) /\ UNCHANGED held
  BY Kinds2 DEF Unaware, FirstPoint
<1>3. pc[d] = from /\ pc'[d] = to
  BY <1>0, <1>2, MovesType
<1>4. Clear(d)'
  <2>1. CASE to \in Unaware
    BY <1>0, <1>3, <2>1, UnawareClear
  <2>2. CASE from = "pop" /\ to = FirstPoint(Policy(d)) /\ UNCHANGED held
    <3>1. held[d] \in Items
      BY <1>3, <2>2 DEF HeldType, HoldingPoints, Types, QueueType
    <3>2. Policy(d) \in {"queue", "interrupt"}
      BY <1>0, <3>1 DEF Policy, Types, QueueType, ItemInfo
    <3>3. Policy(d)' = Policy(d)
      BY <1>1, <2>2 DEF Policy
    <3>4. QED
      BY <1>0, <1>3, <2>2, <3>2, <3>3, UnawareClear DEF FirstPoint
  <2>3. QED
    BY <1>2, <2>1, <2>2
<1>5. QED
  BY <1>0, <1>1, <1>2, <1>4, MoveRoutes

LEMMA RegistersRoutes ==
    ASSUME Types, HeldType, IdleIsEmpty, Routes, NEW c \in Callers, registerRound(c)
    PROVE  Routes'
<1> DEFINE r == CHOOSE free \in FreeRounds : TRUE
           targets == {w[2] : w \in wakes[c]}
           others == Overlooked(c, targets)
<1>1. r \in Rounds /\ pc[r] = "idle" /\ r \in Callers
  BY Kinds2 DEF FreeRounds, registerRound
<1>2. /\ pc[c] = "register"
      /\ pc' = [pc EXCEPT ![c] = "ok", ![r] = "running"]
      /\ key' = [key EXCEPT ![r] = RoundKey(c, r)]
      /\ at' = [s \in Slots |-> IF s[1] = r /\ s[2] \in targets THEN "pending" ELSE at[s]]
      /\ beside' = beside \cup others \cup ({r} \X {s[2] : s \in others})
      /\ fresh' = [d \in Callers |-> IF d # c /\ Looked(d) THEN fresh[d] \cup {r} ELSE {}]
      /\ wakes' = [wakes EXCEPT ![c] = {}]
      /\ UNCHANGED <<status, route, busy, choice, todo, on, held, info, repeated>>
  BY DEF registerRound, queueVars, interrupts
<1> HIDE DEF r
<1>3. /\ pc'[c] = "ok" /\ pc'[r] = "running"
      /\ \A d \in Callers : d # c /\ d # r => pc'[d] = pc[d]
  BY <1>1, <1>2 DEF Types, CallType
<1>4. \A t \in Slots : t[1] = r => ~Live(t)
  BY <1>1 DEF IdleIsEmpty, Live
<1>5. \A t \in Slots : Live(t) /\ t[2] \in targets => t \in others
  <2>1. ClearFor(c, wakes[c])
    BY <1>2 DEF Routes, Clear, CallClear
  <2>2. ASSUME NEW t \in Slots, Live(t), t[2] \in targets PROVE t \in others
    <3>1. Overlooks(c, t) \/ (status[t] # "active" /\ ~Interrupting(c))
      BY <2>1, <2>2 DEF ClearFor
    <3>2. QED
      BY <2>2, <3>1 DEF Overlooked, Overlooks, Interrupting, Live
  <2>3. QED
    BY <2>2
<1>6. \A t \in Slots : Live(t)' => Live(t) \/ (t[1] = r /\ t[2] \in targets /\ at'[t] = "pending")
  BY <1>2 DEF Live
<1> HIDE DEF targets, others
<1>7. SlotsRun'
  <2>1. ASSUME NEW t \in Slots, Live(t) PROVE pc'[t[1]] = "running"
    <3>1. t[1] \in Rounds /\ pc[t[1]] = "running"
      BY <2>1 DEF Routes, SlotsKept, SlotsRun, Slots
    <3>2. t[1] \in Callers /\ t[1] # c /\ t[1] # r
      BY <1>1, <1>2, <3>1, Kinds2
    <3>3. QED
      BY <1>3, <3>1, <3>2
  <2>2. QED
    BY <1>3, <1>6, <2>1 DEF SlotsRun
<1>8. Alone'
  <2>1. ASSUME NEW s \in Slots, NEW t \in Slots, Live(s)', Live(t)', s[2] = t[2], s # t
        PROVE  s \in beside'
    <3>1. CASE Live(s) /\ Live(t)
      BY <1>2, <2>1, <3>1 DEF Routes, SlotsKept, Alone
    <3>2. CASE Live(s) /\ ~Live(t)
      BY <1>2, <1>5, <1>6, <2>1, <3>2
    <3>3. CASE ~Live(s) /\ Live(t)
      <4>1. s[1] = r /\ t \in others
        BY <1>5, <1>6, <2>1, <3>3
      <4>2. s = <<r, t[2]>>
        BY <2>1, <4>1 DEF Slots
      <4>3. QED
        BY <1>2, <4>1, <4>2
    <3>4. CASE ~Live(s) /\ ~Live(t)
      <4>1. s[1] = r /\ t[1] = r
        BY <1>6, <2>1, <3>4
      <4>2. s = t
        BY <2>1, <4>1 DEF Slots
      <4>3. QED
        BY <2>1, <4>2
    <3>5. QED
      BY <3>1, <3>2, <3>3, <3>4
  <2>2. QED
    BY <2>1 DEF Alone
<1>9. RouteKept'
  BY <1>2 DEF Routes, SlotsKept, RouteKept
<1>10. ASSUME NEW d \in Callers, d # c, d # r PROVE Clear(d)'
  <2>1. /\ pc'[d] = pc[d] /\ wakes'[d] = wakes[d] /\ busy'[d] = busy[d]
        /\ todo'[d] = todo[d] /\ on'[d] = on[d] /\ Policy(d)' = Policy(d)
    BY <1>2, <1>3, <1>10 DEF Types, CallType, Policy
  <2>2. Looked(d) => fresh'[d] = fresh[d] \cup {r}
    BY <1>2, <1>10
  <2>3. ASSUME NEW t \in Slots, Live(t), Overlooks(d, t), Looked(d) PROVE Overlooks(d, t)'
    <3>1. t[1] \in Rounds /\ t[1] # r
      BY <1>4, <2>3 DEF Slots
    <3>2. key'[t[1]] = key[t[1]]
      BY <1>2, <3>1 DEF Types, RoundsType
    <3>3. QED
      BY <1>2, <2>2, <2>3, <3>2 DEF Overlooks
  <2>4. ASSUME NEW t \in Slots, Live(t)', ~Live(t), Looked(d) PROVE Overlooks(d, t)'
    BY <1>6, <2>2, <2>4 DEF Overlooks
  <2>5. Interrupting(d)' <=> Interrupting(d)
    BY <2>1 DEF Interrupting
  <2>6. ASSUME NEW ws, ClearFor(d, ws), Looked(d) PROVE ClearFor(d, ws)'
    BY <1>2, <2>3, <2>4, <2>5, <2>6 DEF ClearFor
  <2>7. CallClear(d)'
    <3>1. PICK rest, all : rest = wakes[d] \ busy[d] /\ all = wakes[d]
      OBVIOUS
    <3>2. rest = (wakes[d] \ busy[d])' /\ all = wakes'[d]
      BY <2>1, <3>1
    <3>3. pc'[d] = "enqueue" => ClearFor(d, rest)'
      BY <2>1, <2>6, <3>1 DEF Routes, Clear, CallClear, Looked
    <3>4. pc'[d] \in {"snapshot", "register"} => ClearFor(d, all)'
      BY <2>1, <2>6, <3>1 DEF Routes, Clear, CallClear, Looked
    <3>5. QED
      BY <3>2, <3>3, <3>4 DEF CallClear, ClearFor
  <2>8. ASSUME d \in Senders PROVE InterruptClear(d)'
    <3>1. SUFFICES ASSUME Policy(d)' = "interrupt", pc'[d] \in {"next", "waiting", "forced"},
                          NEW t \in Slots, Live(t)', \E w \in wakes'[d] : w[2] = t[2]
                   PROVE  \/ Overlooks(d, t)'
                          \/ t \in todo'[d]
                          \/ pc'[d] # "next" /\ on'[d] = t
      BY DEF InterruptClear
    <3>2. Looked(d)
      BY <2>1, <3>1 DEF Looked
    <3>3. InterruptClear(d)
      BY <2>8 DEF Routes, Clear
    <3>4. CASE Live(t)
      <4>1. Overlooks(d, t) \/ t \in todo[d] \/ (pc[d] # "next" /\ on[d] = t)
        BY <2>1, <3>1, <3>3, <3>4 DEF InterruptClear
      <4>2. QED
        BY <2>1, <2>3, <3>2, <3>4, <4>1
    <3>5. CASE ~Live(t)
      BY <2>4, <3>1, <3>2, <3>5
    <3>6. QED
      BY <3>4, <3>5
  <2>9. d \in Senders => Purpose(d)'
    BY <2>1 DEF Routes, Clear, Purpose
  <2>10. QED
    BY <2>7, <2>8, <2>9 DEF Clear
<1>11. pc'[c] \in Unaware /\ pc'[r] \in Unaware
  BY <1>3 DEF Unaware, PCs
<1>12. \A d \in Callers : pc'[d] \in Unaware => Clear(d)'
  BY UnawareClear
<1>13. \A d \in Callers : Clear(d)'
  BY <1>10, <1>11, <1>12
<1>14. SlotsKept'
  BY <1>7, <1>8, <1>9 DEF SlotsKept
<1>15. QED
  BY <1>13, <1>14 DEF Routes

\* A step of a slot, which does not set its status back.
LEMMA SlotRoutes ==
    ASSUME Types, Routes, NEW s \in Slots, NEW from \in SlotPoints \ {"none", "done"},
           NEW to \in SlotPoints, SlotMoves(s, from, to), UNCHANGED fresh,
           \A t \in Slots : status'[t] = "active" => status[t] = "active",
           beside' = beside \/ (to = "done" /\ beside' = beside \ {s}),
           RouteKept'
    PROVE  Routes'
<1>1. /\ at[s] = from /\ at'[s] = to /\ \A t \in Slots : t # s => at'[t] = at[t]
      /\ UNCHANGED <<pc, wakes, busy, key, repeated, choice, todo, on, held, info>>
  BY DEF SlotMoves, callVars, queueVars, interrupts, history, Types, SlotsType
<1>2. \A t \in Slots : Live(t)' => Live(t) /\ (t = s => to # "done")
  BY <1>1 DEF Live
<1>3. EnvKept
  BY <1>1, <1>2 DEF EnvKept
<1>4. SlotsRun' /\ Alone'
  BY <1>1, <1>2 DEF Routes, SlotsKept, SlotsRun, Alone
<1>5. ASSUME NEW d \in Callers PROVE Clear(d)'
  <2>1. CallerKept(d)
    BY <1>1 DEF CallerKept, Policy
  <2>2. QED
    BY <1>3, <2>1, SameClear DEF Routes
<1>6. QED
  BY <1>4, <1>5 DEF Routes, SlotsKept

LEMMA SlotStepRoutes ==
    ASSUME Types, Routes, NEW s \in Slots, SlotStep(s) \/ AgentStep(s)
    PROVE  Routes'
<1>0. s = <<s[1], s[2]>> /\ s[1] \in Rounds /\ s[2] \in Agents
  BY DEF Slots
<1>1. ASSUME NEW t \in Slots, Live(s), at[t] = "executing", t[2] = s[2], t # s
      PROVE  t \in beside
  BY <1>1 DEF Routes, SlotsKept, Alone, Live
<1>2. CASE SlotBegins(s)
  <2>1. /\ SlotMoves(s, "pending", "executing") /\ UNCHANGED <<fresh, status, beside>>
        /\ route' = [route EXCEPT ![s[2]] = s[1]]
    BY <1>2 DEF SlotBegins
  <2>2. /\ at[s] = "pending" /\ route'[s[2]] = s[1]
        /\ \A t \in Slots : t # s => at'[t] = at[t]
    BY <1>0, <2>1 DEF SlotMoves, Types, SlotsType
  <2>3. ASSUME NEW t \in Slots, at'[t] = "executing" PROVE route'[t[2]] = t[1] \/ t \in beside'
    <3>1. CASE t = s
      BY <2>2, <3>1
    <3>2. CASE t # s /\ t[2] = s[2]
      BY <1>1, <2>1, <2>2, <2>3, <3>2 DEF Live
    <3>3. CASE t # s /\ t[2] # s[2]
      <4>1. t[2] \in Agents
        BY DEF Slots
      <4>2. route'[t[2]] = route[t[2]]
        BY <1>0, <2>1, <3>3, <4>1 DEF Types, SlotsType
      <4>3. QED
        BY <2>1, <2>2, <2>3, <3>3, <4>2 DEF Routes, SlotsKept, RouteKept
    <3>4. QED
      BY <3>1, <3>2, <3>3
  <2>4. QED
    BY <2>1, <2>3, SlotRoutes DEF RouteKept, SlotPoints
<1>3. CASE SlotEnds(s)
  <2>1. PICK from \in {"tail", "closing"} : SlotMoves(s, from, "done")
    BY <1>3 DEF SlotEnds
  <2>2. /\ route' = [route EXCEPT ![s[2]] = Nothing] /\ beside' = beside \ {s}
        /\ UNCHANGED <<fresh, status>>
    BY <1>3 DEF SlotEnds
  <2>3. at[s] = from /\ at'[s] = "done" /\ \A t \in Slots : t # s => at'[t] = at[t]
    BY <2>1 DEF SlotMoves, Types, SlotsType
  <2>4. ASSUME NEW t \in Slots, at'[t] = "executing" PROVE route'[t[2]] = t[1] \/ t \in beside'
    <3>1. t # s /\ at[t] = "executing"
      BY <2>3, <2>4
    <3>2. CASE t[2] = s[2]
      BY <1>1, <2>2, <2>3, <3>1, <3>2 DEF Live
    <3>3. CASE t[2] # s[2]
      <4>1. t[2] \in Agents
        BY DEF Slots
      <4>2. route'[t[2]] = route[t[2]]
        BY <1>0, <2>2, <3>3, <4>1 DEF Types, SlotsType
      <4>3. QED
        BY <2>2, <3>1, <4>2 DEF Routes, SlotsKept, RouteKept
    <3>4. QED
      BY <3>2, <3>3
  <2>5. QED
    BY <2>1, <2>2, <2>4, SlotRoutes DEF RouteKept, SlotPoints
<1>4. CASE AgentStep(s) \/ SlotInterrupted(s)
  <2>1. PICK from \in {"executing", "tail"}, to \in {"tail", "closing"} : SlotMoves(s, from, to)
    BY <1>4 DEF AgentStep, SlotCompletes, SlotInterrupted, SlotFails
  <2>2. UNCHANGED <<fresh, route, beside>>
    BY <1>4 DEF AgentStep, SlotCompletes, SlotInterrupted, SlotFails
  <2>3. \A t \in Slots : status'[t] = "active" => status[t] = "active"
    BY <1>4 DEF AgentStep, SlotCompletes, SlotInterrupted, SlotFails, Types, SlotsType
  <2>4. \A t \in Slots : at'[t] = "executing" => at[t] = "executing"
    BY <2>1 DEF SlotMoves, Types, SlotsType
  <2>5. RouteKept'
    BY <2>2, <2>4 DEF Routes, SlotsKept, RouteKept
  <2>6. QED
    BY <2>1, <2>2, <2>3, <2>5, SlotRoutes DEF SlotPoints
<1>5. QED
  BY <1>2, <1>3, <1>4 DEF SlotStep

LEMMA OtherRoutes ==
    ASSUME Types, HeldType, Routes, NEW i, NEW agents, NEW policy,
           Enqueue(agents, policy) \/ Delete(i) \/ Subscribe \/ UNCHANGED vars
    PROVE  Routes'
<1>1. UNCHANGED <<at, route, beside, status, key, fresh, repeated, pc, wakes, busy, choice, todo, on,
                  held>>
  BY DEF Enqueue, Delete, Subscribe, vars, rounds, slots, callVars, interrupts, history
<1>2. \A j \in used : info'[j] = info[j]
  <2>1. CASE Enqueue(agents, policy)
    <3>1. PICK n \in Items \ used : \E new : info' = [info EXCEPT ![n] = new]
      BY <2>1, FreshIsNew DEF Enqueue
    <3>2. QED
      BY <3>1 DEF Types, QueueType
  <2>2. CASE Delete(i) \/ Subscribe \/ UNCHANGED vars
    BY <2>2 DEF Delete, Subscribe, vars, queueVars
  <2>3. QED
    BY <2>1, <2>2
<1>3. EnvKept
  BY <1>1 DEF EnvKept, Live
<1>4. SlotsKept'
  BY <1>1, SameSlotsKept DEF Routes
<1>5. ASSUME NEW d \in Callers PROVE Clear(d)'
  <2>1. d \in Senders /\ pc[d] \notin Unaware => Policy(d)' = Policy(d)
    BY <1>1, <1>2, SamePolicy
  <2>2. CallerKept(d)
    BY <1>1, <2>1 DEF CallerKept
  <2>3. QED
    BY <1>3, <2>2, SameClear DEF Routes
<1>6. QED
  BY <1>4, <1>5 DEF Routes

LEMMA RoutesInit == Init => Routes
<1>1. ASSUME Init PROVE SlotsKept
  BY <1>1 DEF Init, SlotsKept, SlotsRun, Alone, RouteKept, Live
<1>2. ASSUME Init, NEW c \in Callers PROVE Clear(c)
  <2>1. pc[c] = "idle"
    BY <1>2 DEF Init
  <2>2. QED
    BY <2>1 DEF Clear, CallClear, InterruptClear, Purpose
<1>3. QED
  BY <1>1, <1>2 DEF Routes

LEMMA RoutesNext ==
    ASSUME Types, HeldType, Found, IdleIsEmpty, Routes, [Next]_vars
    PROVE  Routes'
<1>1. ASSUME NEW c \in Callers, CallStep(c) PROVE Routes'
  <2>1. CASE StartStep(c)
    BY <2>1, LooksRoutes, QueuesRoutes, SnapshotRoutes, CallFailsRoutes, RegistersRoutes
       DEF StartStep
  <2>2. CASE c \in Senders /\ InterruptStep(c)
    BY <2>2, CollectsRoutes, TargetsRoutes, ReturnsRoutes, ForceRoutes, DoneRoutes DEF InterruptStep
  <2>3. CASE c \in Dispatchers /\ DispatcherStep(c)
    BY <2>3, DispatcherRoutes
  <2>4. CASE c \in Rounds /\ RunnerStep(c)
    BY <2>4, FinishesRoutes, RunnerEndsRoutes DEF RunnerStep
  <2>5. QED
    BY <1>1, <2>1, <2>2, <2>3, <2>4 DEF CallStep
<1>2. CASE UserStep
  <2>1. ASSUME NEW m \in Messages, NEW agents \in Audiences,
               NEW policy \in Choices \cap {"queue", "interrupt"}, HandleChat(m, agents, policy)
        PROVE  Routes'
    BY <2>1, MessageRoutes
  <2>2. ASSUME NEW m \in Messages, HandleInterrupt(m) PROVE Routes'
    BY <2>2, MessageRoutes
  <2>3. QED
    BY <1>2, <2>1, <2>2, GivesUpRoutes, OtherRoutes DEF UserStep
<1>3. ASSUME NEW s \in Slots, SlotStep(s) \/ AgentStep(s) PROVE Routes'
  BY <1>3, SlotStepRoutes
<1>4. ASSUME NEW s \in Slots, NEW l \in Messages, NEW agents \in Audiences,
             HandleDirectedMessage(l, s, agents)
      PROVE  Routes'
  BY <1>4, MessageRoutes
<1>5. QED
  BY <1>1, <1>2, <1>3, <1>4, OtherRoutes DEF Next

\* The permission requests of an agent at work find their way to the room, and
\* no other slot of the agent works, unless a call overlooked one of them.
THEOREM RoutesAreKept == Spec => []RouteKept
<1>1. Init => Found /\ Kept /\ Once /\ Routes
  BY FoundInit, KeptInit, OnceInit, RoutesInit DEF Kept
<1>2. Types /\ HeldType /\ Found /\ Kept /\ Once /\ Routes /\ [Next]_vars
      => (Found /\ Kept /\ Once /\ Routes)'
  BY FoundNext, BusyNext, IntactNext, OnceNext, RoutesNext DEF Kept, Once
<1>3. Routes => RouteKept
  BY DEF Routes, SlotsKept
<1>4. QED
  BY <1>1, <1>2, <1>3, TypesHold, PTL DEF Spec

=============================================================================
