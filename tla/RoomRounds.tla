------------------------------ MODULE RoomRounds ------------------------------
(***************************************************************************)
(* The rounds of one room conversation: users' messages with a delivery    *)
(* policy, inputs typed ahead, agents that mention each other or write to  *)
(* each other, the slots in which the agents of a round run side by side,  *)
(* the queue of inputs for busy agents with its dispatchers, and the       *)
(* interrupts of slots and rounds.                                         *)
(*                                                                         *)
(* A wake <<origin, agent>> is a reason why an agent is to run: a user's   *)
(* message or input, a letter (directed message), or the public reply of   *)
(* another slot.  A round takes several wakes and has one slot per agent.  *)
(* All items have targets, so the registry of the runtime manager decides  *)
(* nothing here.                                                           *)
(***************************************************************************)
EXTENDS Naturals, FiniteSets

CONSTANTS
    Agents,       \* the agents of the room, each with a session
    Messages,     \* messages and interrupts of users, letters of agents
    Items,        \* ids of queue items
    Dispatchers,  \* dispatcher goroutines at work at the same time
    Rounds,       \* rounds that may be started; bound
    Audiences,    \* sets of agents that messages and letters address
    Targets,      \* sets of agents that inputs typed ahead address
    Choices,      \* what messages are: "queue", "interrupt", "stop" or "letter"
    Policies,     \* delivery policies of inputs typed ahead
    MaxHops,      \* roomMaxWakeHops
    MaxMentions,  \* bound: public replies that mention somebody
    MaxTyped,     \* bound: inputs typed ahead
    MaxFailures,  \* bound: operations on files that fail
    MaxWake,      \* bound: dispatcher goroutines not yet begun
    Nothing       \* no item, no round, no target

ASSUME CallersAssumption ==
    /\ Messages \cap Dispatchers = {} /\ Messages \cap Rounds = {}
    /\ Dispatchers \cap Rounds = {}
    /\ Items \cap Rounds = {}
    /\ Messages \cap Items = {} /\ (Messages \cup Items) \cap (Rounds \X Agents) = {}
    /\ Nothing \notin Items \cup Rounds \cup (Rounds \X Agents)

Kinds == {"queue", "interrupt", "stop", "letter"}

ASSUME BoundsAssumption ==
    /\ MaxHops \in Nat \ {0} /\ MaxMentions \in Nat
    /\ MaxTyped \in Nat /\ MaxFailures \in Nat /\ MaxWake \in Nat \ {0}
    /\ IsFiniteSet(Messages)
    /\ Choices \subseteq Kinds /\ Policies \subseteq {"queue", "interrupt"}
    /\ Audiences \subseteq (SUBSET Agents) \ {{}} /\ Targets \subseteq (SUBSET Agents) \ {{}}

Callers == Messages \cup Dispatchers \cup Rounds
Senders == Messages \cup Dispatchers
Slots == Rounds \X Agents
Wakes == (Messages \cup Items \cup Slots) \X Agents

VARIABLES
    activeRounds, \* the registered round of each round id
    key,          \* the id a round is registered under: its item's, or its own
    hop,          \* HopIndex of each round
    mentions,     \* PublicMentions of each round
    at,           \* control point of the goroutine of each slot
    status,       \* Status of each slot: "active" stands for pending and running
    cut,          \* slots whose context is cancelled
    route,        \* the round whose route an agent's runtime session has
    fresh,        \* history: rounds registered since a call looked for busy agents
    beside,       \* history: slots that may run beside another slot of their agent
    queued,       \* items in the queue
    info,         \* what each item holds
    pc,           \* control point of each call, and of the runner of each round
    wakes,        \* the wakes a call still has to serve
    busy,         \* those of them that it queues
    held,         \* the item a dispatcher has
    todo,         \* the slots or rounds the interrupt of a call still has to stop
    on,           \* the one it waits for
    choice,       \* what a message is
    wake,         \* dispatcher goroutines not yet begun
    mentioned,    \* history: replies that mentioned somebody
    typed,        \* history: inputs typed ahead
    failures,     \* history: operations that failed
    used,         \* history: ids of items given away
    chain,        \* history: wakes behind a round since a user's input or a letter
    served,       \* history: wakes that got a slot
    twice,        \* history: wakes that got two
    repeated,     \* history: items dispatched although another dispatcher had
                  \* them, or restored although they had been queued once more
    late,         \* history: an item was queued when nobody was left to look
                  \* at the queue, and nobody was woken since
    unserved      \* history: a dispatcher failed, and nobody was woken since

rounds == <<activeRounds, key, hop, mentions, chain>>
slots == <<at, status, cut, route, fresh, beside>>
queueVars == <<queued, info, used>>
callVars == <<pc, wakes, busy, held>>
interrupts == <<todo, on, choice>>
waking == <<wake, late, unserved>>
bounds == <<mentioned, typed, failures>>
history == <<served, twice, repeated>>
vars == <<rounds, slots, queueVars, callVars, interrupts, waking, bounds, history>>

PCs == {"idle", "look", "enqueue", "snapshot", "register", "ok", "failed", "done",
        "collect", "next", "waiting", "forced", "scan", "pop", "running"}

SlotPoints == {"none", "pending", "executing", "tail", "closing", "done"}

ItemInfo == [chat : BOOLEAN, policy : {"queue", "interrupt"}, wakes : SUBSET Wakes,
             hop : Nat, chain : Nat]

NoInfo == [chat |-> FALSE, policy |-> "queue", wakes |-> {}, hop |-> 0, chain |-> 0]

TypeOK ==
    /\ activeRounds \in [Items \cup Rounds -> Rounds \cup {Nothing}]
    /\ key \in [Rounds -> Items \cup Rounds]
    /\ hop \in [Rounds -> Nat]
    /\ chain \in [Rounds -> Nat]
    /\ mentions \in [Rounds -> SUBSET Wakes]
    /\ at \in [Slots -> SlotPoints]
    /\ status \in [Slots -> {"active", "finished", "error", "cancelled"}]
    /\ cut \subseteq Slots
    /\ route \in [Agents -> Rounds \cup {Nothing}]
    /\ fresh \in [Callers -> SUBSET Rounds]
    /\ beside \subseteq Slots
    /\ queued \subseteq used /\ used \subseteq Items
    /\ info \in [Items -> ItemInfo]
    /\ pc \in [Callers -> PCs]
    /\ wakes \in [Callers -> SUBSET Wakes]
    /\ busy \in [Callers -> SUBSET Wakes]
    /\ held \in [Dispatchers -> Items \cup {Nothing}]
    /\ todo \in [Senders -> SUBSET (Slots \cup Rounds)]
    /\ on \in [Senders -> Slots \cup Rounds \cup {Nothing}]
    /\ choice \in [Messages -> Kinds]
    /\ wake \in 0 .. MaxWake
    /\ mentioned \in Nat /\ typed \in Nat /\ failures \in Nat
    /\ served \subseteq Wakes /\ twice \subseteq Wakes
    /\ repeated \subseteq Items
    /\ late \in BOOLEAN /\ unserved \in BOOLEAN

Init ==
    /\ activeRounds = [k \in Items \cup Rounds |-> Nothing]
    /\ key = [r \in Rounds |-> r]
    /\ hop = [r \in Rounds |-> 0]
    /\ chain = [r \in Rounds |-> 0]
    /\ mentions = [r \in Rounds |-> {}]
    /\ at = [s \in Slots |-> "none"]
    /\ status = [s \in Slots |-> "active"]
    /\ cut = {}
    /\ route = [a \in Agents |-> Nothing]
    /\ fresh = [c \in Callers |-> {}]
    /\ beside = {}
    /\ queued = {} /\ used = {}
    /\ info = [i \in Items |-> NoInfo]
    /\ pc = [c \in Callers |-> "idle"]
    /\ wakes = [c \in Callers |-> {}]
    /\ busy = [c \in Callers |-> {}]
    /\ held = [d \in Dispatchers |-> Nothing]
    /\ todo = [c \in Senders |-> {}]
    /\ on = [c \in Senders |-> Nothing]
    /\ choice = [m \in Messages |-> "queue"]
    /\ wake = 0
    /\ mentioned = 0 /\ typed = 0 /\ failures = 0
    /\ served = {} /\ twice = {} /\ repeated = {}
    /\ late = FALSE /\ unserved = FALSE

-----------------------------------------------------------------------------
(* Steps shared by the actions.                                            *)

Moves(c, from, to) ==
    /\ pc[c] = from
    /\ pc' = [pc EXCEPT ![c] = to]

\* An operation on a file fails.
Fails ==
    /\ failures < MaxFailures
    /\ failures' = failures + 1

\* go dispatchNextInputQueueItem.  Goroutines not yet begun are alike: one
\* more than MaxWake would find what the last of them finds.
Wake ==
    /\ wake' = IF wake < MaxWake THEN wake + 1 ELSE wake
    /\ late' = FALSE /\ unserved' = FALSE

\* randomHex.
FreshItem == CHOOSE i \in Items : i \notin used

Registered(r) == activeRounds[key[r]] = r

\* The goroutine of a slot is at work.
Running(s) == at[s] \notin {"none", "pending", "done"}

\* findActiveDeliverySlots: a slot of a registered round whose status is not
\* a final one.
Active(a) == \E r \in Rounds : Registered(r) /\ at[<<r, a>>] # "none" /\ status[<<r, a>>] = "active"

Busy(ws) == {w \in ws : Active(w[2])}

\* canDispatchInputQueueItem.
Dispatchable(i) == Busy(info[i].wakes) = {}

\* Somebody is still to look at the queue: a dispatcher, or the runner of a
\* round, which wakes one when the round has ended.
Watched ==
    \/ wake > 0
    \/ \E d \in Dispatchers : pc[d] # "idle"
    \/ \E r \in Rounds : pc[r] \notin {"idle", "done"}

-----------------------------------------------------------------------------
(* HandleChat and startPublicMentionRound, by messages, dispatchers         *)
(* and the runners of rounds that ended.                                   *)

IsLetter(m) == choice[m] = "letter"

\* A dispatcher with an input typed ahead calls HandleChat, like a user's
\* message; every other call is startPublicMentionRound.
IsChat(c) == (c \in Messages /\ ~IsLetter(c)) \/ (c \in Dispatchers /\ info[held[c]].chat)

\* The delivery policy of a message or of the item a dispatcher has.
Policy(c) == IF c \in Messages THEN choice[c] ELSE info[held[c]].policy

\* "queue" looks which agents are busy, "interrupt" stops what they do.
FirstPoint(policy) == IF policy = "queue" THEN "look" ELSE "collect"

\* HopIndex of the parent round of a call, and the chain behind it.
ParentHop(c) ==
    IF c \in Rounds THEN hop[c] ELSE IF c \in Dispatchers THEN info[held[c]].hop ELSE 0

ParentChain(c) ==
    IF c \in Rounds THEN chain[c] ELSE IF c \in Dispatchers THEN info[held[c]].chain ELSE 0

\* A user's message to some agents.
HandleChat(m, agents, policy) ==
    /\ Moves(m, "idle", FirstPoint(policy))
    /\ wakes' = [wakes EXCEPT ![m] = {m} \X agents]
    /\ choice' = [choice EXCEPT ![m] = policy]
    /\ UNCHANGED <<rounds, slots, queueVars, busy, held, todo, on, waking>>
    /\ UNCHANGED <<bounds, history>>

\* HandleInterrupt, InterruptConversation, InterruptRoom.
HandleInterrupt(m) ==
    /\ Moves(m, "idle", "collect")
    /\ choice' = [choice EXCEPT ![m] = "stop"]
    /\ UNCHANGED <<rounds, slots, queueVars, wakes, busy, held, todo, on, waking>>
    /\ UNCHANGED <<bounds, history>>

\* Which of the agents are busy ...
findActiveDeliverySlots(c) ==
    /\ Moves(c, "look", IF Busy(wakes[c]) = {} THEN "register" ELSE "enqueue")
    /\ busy' = [busy EXCEPT ![c] = Busy(wakes[c])]
    /\ fresh' = [fresh EXCEPT ![c] = {}]
    /\ UNCHANGED <<rounds, at, status, cut, route, beside, queueVars, wakes, held, interrupts, waking>>
    /\ UNCHANGED <<bounds, history>>

\* The item of a wake whose agent is busy.
QueueItem(c, w, i) ==
    [info EXCEPT ![i] = [chat |-> FALSE, policy |-> "queue", wakes |-> {w},
                         hop |-> IF IsChat(c) THEN 0 ELSE ParentHop(c),
                         chain |-> ParentChain(c)]]

\* ... their wakes are queued, one after the other ...
enqueueForActiveAgentSlots(c) ==
    \E w \in busy[c] :
        LET i == FreshItem
            last == busy[c] = {w} IN
        /\ used # Items
        /\ Moves(c, "enqueue", IF last THEN "snapshot" ELSE "enqueue")
        /\ queued' = queued \cup {i} /\ used' = used \cup {i}
        /\ info' = QueueItem(c, w, i)
        /\ wakes' = [wakes EXCEPT ![c] = @ \ {w}]
        /\ busy' = [busy EXCEPT ![c] = @ \ {w}]
        /\ late' = (late \/ (last /\ wakes[c] = {w} /\ ~Watched))
        /\ UNCHANGED <<rounds, slots, held, interrupts, wake, unserved>>
        /\ UNCHANGED <<bounds, history>>

\* ... and the queue is shown to the users; nobody is woken ...
broadcastRoomInputQueueSnapshot(c) ==
    /\ Moves(c, "snapshot", IF wakes[c] = {} THEN "ok" ELSE "register")
    /\ fresh' = IF wakes[c] = {} THEN [fresh EXCEPT ![c] = {}] ELSE fresh
    /\ UNCHANGED <<rounds, at, status, cut, route, beside, queueVars, wakes, busy, held>>
    /\ UNCHANGED <<interrupts, waking, bounds, history>>

\* A file or a directory cannot be read or written, be it to show a queue that has
\* all the wakes; a dispatcher's item, of which some may be queued again, goes back.
CallFails(c) ==
    /\ \E from \in {"look", "enqueue", "snapshot", "register"} : Moves(c, from, "failed")
    /\ repeated' = IF c \in Dispatchers /\ wakes[c] # info[held[c]].wakes
                   THEN repeated \cup {held[c]} ELSE repeated
    /\ wakes' = [wakes EXCEPT ![c] = {}]
    /\ busy' = [busy EXCEPT ![c] = {}]
    /\ unserved' = TRUE
    /\ Fails
    /\ fresh' = [fresh EXCEPT ![c] = {}]
    /\ UNCHANGED <<rounds, at, status, cut, route, beside, queueVars, held, interrupts>>
    /\ UNCHANGED <<wake, late, mentioned, typed, served, twice>>

\* A call that gives agents a new slot overlooks the slots of rounds that were
\* registered since it looked, those that nobody finds any more, and, unless it
\* has interrupted them all, those that have a final status already.
Overlooked(c, agents) ==
    {s \in Slots : /\ s[2] \in agents /\ at[s] \notin {"none", "done"}
                   /\ \/ s[1] \in fresh[c] \/ key[s[1]] \in repeated
                      \/ status[s] # "active" /\ ~(c \in Senders /\ Policy(c) = "interrupt")}

\* Calls that have looked and not yet registered their round.
Looked(c) ==
    \/ pc[c] \in {"enqueue", "snapshot", "register"}
    \/ pc[c] \in {"next", "waiting", "forced"} /\ Policy(c) = "interrupt"

FreeRounds == {r \in Rounds : pc[r] = "idle"}

\* Fault: a conversation has one entry in the registry.
KeyOfConversation(c, r) == CHOOSE first \in Rounds : TRUE

\* "queue_" + item id for an input typed ahead, otherwise a fresh id: one that
\* the client made for a user's message, or roomWakeRoundID.
RoundKey(c, r) == IF IsChat(c) /\ c \in Dispatchers THEN held[c] ELSE r

\* Sets of wakes with one wake for each agent of ws: the first of an agent's
\* wakes becomes its slot's trigger, and the others are dropped.
Triggers(ws) ==
    {first \in SUBSET ws : \A w \in ws : Cardinality({x \in first : x[2] = w[2]}) = 1}

\* ... and the others get a round: registerRound, and one pending slot for
\* each agent.
registerRound(c) ==
    /\ FreeRounds # {}
    /\ LET r == CHOOSE free \in FreeRounds : TRUE
           targets == {w[2] : w \in wakes[c]}
           others == Overlooked(c, targets) IN
       /\ pc[c] = "register"
       /\ pc' = [pc EXCEPT ![c] = "ok", ![r] = "running"]
       /\ key' = [key EXCEPT ![r] = RoundKey(c, r)]
       /\ activeRounds' = [activeRounds EXCEPT ![RoundKey(c, r)] = r]
       /\ hop' = [hop EXCEPT ![r] = IF IsChat(c) THEN 0 ELSE ParentHop(c) + 1]
       /\ chain' = [chain EXCEPT ![r] = IF IsChat(c) THEN ParentChain(c) ELSE ParentChain(c) + 1]
       /\ at' = [s \in Slots |-> IF s[1] = r /\ s[2] \in targets THEN "pending" ELSE at[s]]
       /\ beside' = beside \cup others \cup ({r} \X {s[2] : s \in others})
       /\ fresh' = [d \in Callers |-> IF d # c /\ Looked(d) THEN fresh[d] \cup {r} ELSE {}]
    /\ \E first \in Triggers(wakes[c]) :
          /\ served' = served \cup first
          /\ twice' = twice \cup (served \cap first)
    /\ wakes' = [wakes EXCEPT ![c] = {}]
    /\ UNCHANGED <<mentions, status, cut, route, queueVars, busy, held, interrupts>>
    /\ UNCHANGED <<waking, bounds, repeated>>

\* HandleDirectedMessage by a running agent, or the private reply of a slot:
\* the wake is immediate or waits for a timer.  Its parent round has no hops.
HandleDirectedMessage(l, s, agents) ==
    /\ at[s] \in {"executing", "tail"}
    /\ Moves(l, "idle", "look")
    /\ choice' = [choice EXCEPT ![l] = "letter"]
    /\ wakes' = [wakes EXCEPT ![l] = {l} \X agents]
    /\ UNCHANGED <<rounds, slots, queueVars, busy, held, todo, on, waking, bounds, history>>

-----------------------------------------------------------------------------
(* Interrupts: collect the slots or rounds, then stop them one by one.     *)

\* interruptAgentSlots collects slots of the call's agents, "stop" the rounds of
\* the conversation.
collectTargets(c) ==
    /\ Moves(c, "collect", "next")
    /\ todo' = [todo EXCEPT ![c] =
                  IF Policy(c) = "stop" THEN {r \in Rounds : Registered(r)}
                  ELSE {s \in Slots : /\ Registered(s[1]) /\ at[s] # "none"
                                      /\ \E w \in wakes[c] : w[2] = s[2]}]
    /\ fresh' = [fresh EXCEPT ![c] = {}]
    /\ UNCHANGED <<rounds, at, status, cut, route, beside, queueVars, wakes, busy, held, on>>
    /\ UNCHANGED <<choice, waking>>
    /\ UNCHANGED <<bounds, history>>

\* findActiveSlot looks for a slot again; its client is interrupted, if it
\* has one.
interruptTarget(c) ==
    \E t \in todo[c] :
        /\ todo' = [todo EXCEPT ![c] = @ \ {t}]
        /\ \/ /\ t \in Slots /\ ~Registered(t[1])
              /\ Moves(c, "next", "next")
              /\ UNCHANGED on
           \/ /\ t \in Slots => Registered(t[1])
              /\ Moves(c, "next", "waiting")
              /\ on' = [on EXCEPT ![c] = t]
        /\ UNCHANGED <<rounds, slots, queueVars, wakes, busy, held, choice, waking>>
        /\ UNCHANGED <<bounds, history>>

\* Fault: Done is closed before the deferred calls of the slot are over.
EndedEarly(t) ==
    IF t \in Slots THEN at[t] \in {"closing", "done"} ELSE pc[t] \notin {"idle", "running"}

\* Done of a slot or a round is closed.
Ended(t) == IF t \in Slots THEN at[t] = "done" ELSE pc[t] \notin {"idle", "running"}

InterruptReturns(c) ==
    /\ \E from \in {"waiting", "forced"} : Moves(c, from, "next")
    /\ Ended(on[c])
    /\ on' = [on EXCEPT ![c] = Nothing]
    /\ UNCHANGED <<rounds, slots, queueVars, wakes, busy, held, todo, choice, waking>>
    /\ UNCHANGED <<bounds, history>>

\* Fault: the context of a slot is not cancelled, only that of a whole round.
CutsRound(t) == {s \in Slots : s[1] = t /\ at[s] \notin {"none", "done"}}

\* A slot has a Cancel once its goroutine has begun, a round always.
Cuts(t) == {s \in Slots : \/ s = t /\ Running(s)
                          \/ s[1] = t /\ at[s] \notin {"none", "done"}}

\* interruptForceCancelDelay is over.
ForceCancel(c) ==
    /\ Moves(c, "waiting", "forced")
    /\ cut' = cut \cup Cuts(on[c])
    /\ UNCHANGED <<rounds, at, status, route, fresh, beside, queueVars, wakes, busy, held, interrupts, waking>>
    /\ UNCHANGED <<bounds, history>>

\* The connection of the user, or of the subscriber who woke the dispatcher, is gone.
InterruptGivesUp(c) ==
    /\ \E from \in {"waiting", "forced"} : Moves(c, from, "failed")
    /\ wakes' = [wakes EXCEPT ![c] = {}]
    /\ todo' = [todo EXCEPT ![c] = {}]
    /\ on' = [on EXCEPT ![c] = Nothing]
    /\ fresh' = [fresh EXCEPT ![c] = {}]
    /\ UNCHANGED <<rounds, at, status, cut, route, beside, queueVars, busy, held, choice, waking>>
    /\ UNCHANGED <<bounds, history>>

\* Everything is stopped: the call gets its round.
InterruptDone(c) ==
    /\ todo[c] = {}
    /\ Moves(c, "next", IF Policy(c) = "stop" THEN "ok" ELSE "register")
    /\ UNCHANGED <<rounds, slots, queueVars, wakes, busy, held, interrupts, waking>>
    /\ UNCHANGED <<bounds, history>>

-----------------------------------------------------------------------------
(* The goroutine of a slot.                                                *)

SlotMoves(s, from, to) ==
    /\ at[s] = from
    /\ at' = [at EXCEPT ![s] = to]
    /\ UNCHANGED <<activeRounds, key, hop, chain, queueVars, callVars, interrupts, waking>>
    /\ UNCHANGED <<typed, failures, history>>

\* Cancel, status running, BindSessionRoute; then the client is set up and the
\* agent works.
SlotBegins(s) ==
    /\ SlotMoves(s, "pending", "executing")
    /\ route' = [route EXCEPT ![s[2]] = s[1]]
    /\ UNCHANGED <<status, cut, fresh, beside, mentions, mentioned>>

\* HandleDurableMessage sets the final status with the result, or ExecuteRound
\* ends with the assistant's last message and no result.
SlotCompletes(s) ==
    /\ SlotMoves(s, "executing", "tail")
    /\ \E final \in {"finished", "cancelled"} : status' = [status EXCEPT ![s] = final]
    /\ UNCHANGED <<cut, route, fresh, beside, mentions, mentioned>>

\* handleSlotCancelled, after ErrRoundInterrupted.
SlotInterrupted(s) ==
    /\ SlotMoves(s, "executing", "closing")
    /\ status' = [status EXCEPT ![s] = "cancelled"]
    /\ UNCHANGED <<cut, route, fresh, beside, mentions, mentioned>>

\* handleSlotFailure, at any time before the slot is done, and results that
\* report an error.
SlotFails(s) ==
    /\ \E from \in {"executing", "tail"} : SlotMoves(s, from, "closing")
    /\ status' = [status EXCEPT ![s] = "error"]
    /\ UNCHANGED <<cut, route, fresh, beside, mentions, mentioned>>

\* collectPublicMentionWakes of a reply, then the deferred calls: Disconnect,
\* UnbindSessionRoute, and Done is closed.
SlotEnds(s) ==
    \E agents \in SUBSET (Agents \ {s[2]}) :
        /\ \/ SlotMoves(s, "tail", "done")
           \/ SlotMoves(s, "closing", "done") /\ agents = {}
        /\ mentions' = [mentions EXCEPT ![s[1]] = @ \cup ({s} \X agents)]
        /\ mentioned < MaxMentions \/ agents = {}
        /\ mentioned' = IF agents = {} THEN mentioned ELSE mentioned + 1
        /\ route' = [route EXCEPT ![s[2]] = Nothing]
        /\ cut' = cut \ {s} /\ beside' = beside \ {s}
        /\ UNCHANGED <<status, fresh>>

-----------------------------------------------------------------------------
(* The runner of a round.                                                  *)

RoundSlots(r) == {s \in Slots : s[1] = r /\ at[s] # "none"}

FinishedWell(r) ==
    /\ \A s \in RoundSlots(r) : status[s] # "error"
    /\ \E s \in RoundSlots(r) : status[s] # "cancelled"

\* Fault: the hops are compared one too late.
StartsOneMore(r) == FinishedWell(r) /\ mentions[r] # {} /\ hop[r] <= MaxHops

\* startQueuedPublicMentionWakes starts the mentions of a round that finished
\* well and has hops left.
StartsMentions(r) == FinishedWell(r) /\ mentions[r] # {} /\ hop[r] < MaxHops

\* All slots are done: the round leaves the registry, and its mentions are
\* taken.  Nobody reads its statuses any more.
finishRound(r) ==
    /\ \A s \in RoundSlots(r) : at[s] = "done"
    /\ Moves(r, "running", IF StartsMentions(r) THEN "look" ELSE "ok")
    /\ activeRounds' = [activeRounds EXCEPT ![key[r]] = Nothing]
    /\ wakes' = [wakes EXCEPT ![r] = IF StartsMentions(r) THEN mentions[r] ELSE {}]
    /\ mentions' = [mentions EXCEPT ![r] = {}]
    /\ status' = [s \in Slots |-> IF s[1] = r THEN "active" ELSE status[s]]
    /\ UNCHANGED <<key, hop, chain, at, cut, route, fresh, beside, queueVars, busy, held, interrupts>>
    /\ UNCHANGED <<waking, bounds, history>>

\* Fault: only rounds of queued inputs go on with the queue.
RunnerOfItemWakes(r) ==
    /\ \E from \in {"ok", "failed"} : Moves(r, from, "done")
    /\ IF key[r] \in Items THEN Wake ELSE UNCHANGED waking

\* However that ends, a dispatcher is woken, and the round is forgotten.
RunnerWakes(r) ==
    /\ \E from \in {"ok", "failed"} : Moves(r, from, "done")
    /\ Wake

RunnerEnds(r) ==
    /\ RunnerWakes(r)
    /\ key' = [key EXCEPT ![r] = r]
    /\ hop' = [hop EXCEPT ![r] = 0] /\ chain' = [chain EXCEPT ![r] = 0]
    /\ UNCHANGED <<activeRounds, mentions, slots, queueVars, wakes, busy, held, interrupts>>
    /\ UNCHANGED <<bounds, history>>

-----------------------------------------------------------------------------
(* The queue: dispatchNextInputQueueItem and HandleInputQueue.             *)

\* Goroutines are alike: the names are given in order.
DispatcherBegins(d) ==
    /\ wake > 0
    /\ Moves(d, "idle", "scan")
    /\ d = CHOOSE free \in Dispatchers : pc[free] = "idle"
    /\ wake' = wake - 1
    /\ UNCHANGED <<rounds, slots, queueVars, wakes, busy, held, interrupts>>
    /\ UNCHANGED <<late, unserved, bounds, history>>

\* findDispatchableInputQueueEntry: an item of which no agent is busy ...
findDispatchableInputQueueEntry(d) ==
    /\ \/ /\ \A i \in queued : ~Dispatchable(i)
          /\ Moves(d, "scan", "idle")
          /\ UNCHANGED held
       \/ \E i \in queued :
             /\ Dispatchable(i)
             /\ Moves(d, "scan", "pop")
             /\ held' = [held EXCEPT ![d] = i]
    /\ UNCHANGED <<rounds, slots, queueVars, wakes, busy, interrupts, waking>>
    /\ UNCHANGED <<bounds, history>>

\* Fault: the item stays in the queue until its round is over.
DispatchKeeps(d) ==
    /\ Moves(d, "pop", FirstPoint(Policy(d)))
    /\ wakes' = [wakes EXCEPT ![d] = info[held[d]].wakes]
    /\ repeated' = IF held[d] \in queued THEN repeated ELSE repeated \cup {held[d]}
    /\ UNCHANGED <<rounds, slots, queueVars, busy, held, interrupts, waking>>
    /\ UNCHANGED <<bounds, served, twice>>

\* ... leaves the queue, if nobody else has taken it meanwhile; whether it
\* was still there is not asked.
Dispatch(d) ==
    /\ Moves(d, "pop", FirstPoint(Policy(d)))
    /\ queued' = queued \ {held[d]}
    /\ wakes' = [wakes EXCEPT ![d] = info[held[d]].wakes]
    /\ repeated' = IF held[d] \in queued THEN repeated ELSE repeated \cup {held[d]}
    /\ UNCHANGED <<rounds, slots, info, used, busy, held, interrupts, waking>>
    /\ UNCHANGED <<bounds, served, twice>>

\* The queue or the room cannot be read, or the item not taken out.  When the
\* queue cannot be read after the item was taken out, the item is lost.
DispatchFails(d) ==
    /\ \/ \E from \in {"scan", "pop"} : Moves(d, from, "idle") /\ UNCHANGED queued
       \/ Moves(d, "pop", "idle") /\ queued' = queued \ {held[d]}
    /\ held' = [held EXCEPT ![d] = Nothing]
    /\ unserved' = TRUE
    /\ Fails
    /\ UNCHANGED <<rounds, slots, info, used, wakes, busy, interrupts, wake, late>>
    /\ UNCHANGED <<mentioned, typed, history>>

\* The item has got its round or was queued again: canDispatchMoreInputQueueItems.
DispatchSucceeded(d) ==
    /\ Moves(d, "ok", "idle")
    /\ held' = [held EXCEPT ![d] = Nothing]
    /\ IF \E i \in queued : Dispatchable(i) THEN Wake ELSE UNCHANGED waking
    /\ UNCHANGED <<rounds, slots, queueVars, wakes, busy, interrupts>>
    /\ UNCHANGED <<bounds, history>>

\* The item goes back into the queue, if that can be written; nobody is woken.
DispatchRestores(d) ==
    /\ Moves(d, "failed", "idle")
    /\ held' = [held EXCEPT ![d] = Nothing]
    /\ unserved' = TRUE
    /\ \/ queued' = queued \cup {held[d]} /\ UNCHANGED failures
       \/ Fails /\ UNCHANGED queued
    /\ UNCHANGED <<rounds, slots, info, used, wakes, busy, interrupts, wake, late>>
    /\ UNCHANGED <<mentioned, typed, history>>

\* HandleInputQueue, "enqueue": an input typed ahead for some agents.  When the
\* queue cannot be read after it was written, nobody is woken.
Enqueue(agents, policy) ==
    LET i == FreshItem IN
    /\ typed < MaxTyped
    /\ typed' = typed + 1
    /\ used # Items
    /\ used' = used \cup {i}
    /\ queued' = queued \cup {i}
    /\ info' = [info EXCEPT ![i] = [NoInfo EXCEPT !.chat = TRUE, !.policy = policy,
                                                 !.wakes = {i} \X agents]]
    /\ \/ Wake /\ UNCHANGED failures
       \/ Fails /\ unserved' = TRUE /\ UNCHANGED <<wake, late>>
    /\ UNCHANGED <<rounds, slots, callVars, interrupts, mentioned, history>>

\* HandleInputQueue, "delete".
Delete(i) ==
    /\ i \in queued
    /\ queued' = queued \ {i}
    /\ UNCHANGED <<rounds, slots, info, used, callVars, interrupts, waking>>
    /\ UNCHANGED <<bounds, history>>

\* InputQueueSnapshotEvent, for a connection that subscribes to the room.
Subscribe ==
    /\ queued # {}
    /\ Wake
    /\ UNCHANGED <<rounds, slots, queueVars, callVars, interrupts, bounds, history>>

-----------------------------------------------------------------------------
StartStep(c) ==
    \/ findActiveDeliverySlots(c)
    \/ enqueueForActiveAgentSlots(c)
    \/ broadcastRoomInputQueueSnapshot(c)
    \/ CallFails(c)
    \/ registerRound(c)

InterruptStep(c) ==
    \/ collectTargets(c)
    \/ interruptTarget(c)
    \/ InterruptReturns(c)
    \/ ForceCancel(c)
    \/ InterruptDone(c)

DispatcherStep(d) ==
    \/ DispatcherBegins(d)
    \/ findDispatchableInputQueueEntry(d)
    \/ Dispatch(d)
    \/ DispatchFails(d)
    \/ DispatchSucceeded(d)
    \/ DispatchRestores(d)

RunnerStep(r) == finishRound(r) \/ RunnerEnds(r)

\* The goroutine of a call.
CallStep(c) ==
    \/ StartStep(c)
    \/ c \in Senders /\ InterruptStep(c)
    \/ c \in Dispatchers /\ DispatcherStep(c)
    \/ c \in Rounds /\ RunnerStep(c)

\* What a slot does whether or not its agent comes to an end.
SlotStep(s) ==
    \/ SlotBegins(s)
    \/ SlotEnds(s)
    \/ s \in cut /\ SlotInterrupted(s)

AgentStep(s) ==
    \/ SlotCompletes(s)
    \/ SlotInterrupted(s)
    \/ SlotFails(s)

UserStep ==
    \/ \E m \in Messages :
          \/ \E agents \in Audiences, policy \in Choices \cap {"queue", "interrupt"} :
                HandleChat(m, agents, policy)
          \/ "stop" \in Choices /\ HandleInterrupt(m)
    \/ \E c \in Senders : InterruptGivesUp(c)
    \/ \E agents \in Targets, policy \in Policies : Enqueue(agents, policy)
    \/ \E i \in Items : Delete(i)
    \/ Subscribe

Next ==
    \/ UserStep
    \/ \E c \in Callers : CallStep(c)
    \/ \E s \in Slots :
          \/ SlotStep(s)
          \/ AgentStep(s)
          \/ "letter" \in Choices
             /\ \E l \in Messages, agents \in Audiences : HandleDirectedMessage(l, s, agents)

Spec == Init /\ [][Next]_vars

(* Goroutines go on.  Agents may work for ever unless their context is     *)
(* cancelled; users and connections owe nothing.                           *)
Fairness ==
    /\ \A c \in Callers : WF_vars(CallStep(c))
    /\ \A s \in Slots : WF_vars(SlotStep(s))

FairSpec == Spec /\ Fairness

-----------------------------------------------------------------------------
(* Properties.                                                             *)

\* A chain of mentions is at most MaxHops long, also where they were queued for
\* busy agents and dispatched later.  Each letter starts to count anew.
WakeChainBounded == \A r \in Rounds : chain[r] <= MaxHops

\* While an agent works, its permission requests find their way to the room and
\* no other slot of the agent works: each slot binds the route of the agent's
\* runtime session and removes it at its end, whoever has bound it.  Only slots
\* that the call of one of them overlooked disturb each other; an interrupt
\* overlooks none but those of rounds registered meanwhile.
RouteKept ==
    \A s \in Slots : at[s] = "executing" => route[s[2]] = s[1] \/ s \in beside

\* A wake gets one slot, however often it is queued and dispatched, unless two
\* dispatchers took its item or the item was restored after it had been
\* queued once more.
WakesServedOnce ==
    twice \subseteq UNION {info[i].wakes : i \in repeated}

\* A round with a slot at work is found by those who interrupt or look for busy
\* agents, unless its item was dispatched twice: the two rounds have one id.
RoundsAreFound ==
    \A r \in Rounds :
        pc[r] = "running" => Registered(r) \/ key[r] \in repeated

\* The queue does not keep an item while no agent works, unless the item was
\* queued too late to be seen or the last dispatcher failed.
QueueServed ==
    \A i \in Items :
        []<>(i \notin queued \/ late \/ unserved \/ \E s \in Slots : at[s] = "executing")

\* What the specification of rooms says of the policy "queue": the input is
\* handled when its target is idle.
QueuedIsHandled ==
    \A i \in Items : []<>(i \notin queued \/ \E s \in Slots : at[s] = "executing")

\* The wait of a user's interrupt for a slot that has begun, or for a round, comes
\* to an end although the agents do not stop: their contexts are cancelled when the
\* delay is over.  A delay that is over before the slot has begun cancels nothing.
InterruptsEnd ==
    \A m \in Messages :
        pc[m] = "waiting" /\ (on[m] \in Slots => at[on[m]] # "pending")
            ~> pc[m] \notin {"waiting", "forced"}
=============================================================================
