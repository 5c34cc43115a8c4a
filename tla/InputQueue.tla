------------------------------ MODULE InputQueue ------------------------------
(***************************************************************************)
(* What InputQueueStore promises for one location: a queue of inputs that  *)
(* users and agents have typed ahead, from which the dispatcher takes the  *)
(* first ordinary item, the guidance hook the items meant for its rounds,  *)
(* and which its owner may edit.  How the queue is stored, and what a      *)
(* restart makes of it, is InputQueueLog.                                  *)
(*                                                                         *)
(* An item is its id (its text never changes), its delivery policy and the *)
(* round it is meant for.  "auto" and "interrupt" items are, here, like    *)
(* "queue" ones.                                                           *)
(***************************************************************************)
EXTENDS Naturals, Sequences, FiniteSets

CONSTANTS
    Ids,      \* ids of queued inputs
    Targets,  \* rounds that guidance may be meant for
    NoTarget  \* an empty root_round_id: any round

Policies == {"queue", "guide"}
Items == [id : Ids, policy : Policies, root : Targets \cup {NoTarget}]

VARIABLES
    queue,     \* the queue, first item first
    out,       \* the items the last operation hands to its caller
    failed,    \* it reported an error
    taking,    \* guidance of out that has still to leave the queue
    broken,    \* the last write failed half-way
    fallback   \* the queue without the failed write

vars == <<queue, out, failed, taking, broken, fallback>>

Init ==
    /\ queue = <<>>
    /\ out = <<>>
    /\ failed = FALSE
    /\ taking = <<>>
    /\ broken = FALSE
    /\ fallback = <<>>

-----------------------------------------------------------------------------
IdsOf(s) == {s[n].id : n \in DOMAIN s}

Without(s, ids) == SelectSeq(s, LAMBDA item : item.id \notin ids)

\* An id that is queued already keeps its place.
WithItem(s, item) ==
    IF item.id \in IdsOf(s)
    THEN [n \in DOMAIN s |-> IF s[n].id = item.id THEN item ELSE s[n]]
    ELSE Append(s, item)

Guides(item) == item.policy = "guide"

\* An item without a target is for any round, and no rounds are any rounds.
IsFor(item, rounds) ==
    rounds = {} \/ item.root = NoTarget \/ item.root \in rounds

GuidanceFor(s, rounds) ==
    SelectSeq(s, LAMBDA item : Guides(item) /\ IsFor(item, rounds))

\* The queue after a list of ids, unknown ones among them, is put first.
Reordered(s, ids) ==
    LET known == SelectSeq(ids, LAMBDA id : id \in IdsOf(s))
        place(id) == CHOOSE n \in DOMAIN s : s[n].id = id
    IN  [n \in DOMAIN known |-> s[place(known[n])]]
        \o Without(s, {known[n] : n \in DOMAIN known})

\* Lists of ids without repetition.
Orders == {ids \in UNION {[1 .. n -> Ids] : n \in 0 .. Cardinality(Ids)} :
              \A m, n \in DOMAIN ids : ids[m] = ids[n] => m = n}

-----------------------------------------------------------------------------
\* A change of the queue to s is written; after a failed write it is lost,
\* and with it whatever the failed write had achieved.
Written(s) ==
    /\ queue' = IF broken THEN fallback ELSE s
    /\ broken' = FALSE
    /\ fallback' = <<>>

\* The write fails half-way: without any effect, or with an effect that only
\* lasts until the next write.
Fails(s) ==
    /\ broken' = TRUE
    /\ \/ /\ fallback' = IF broken THEN fallback ELSE queue
          /\ queue' = fallback'
       \/ /\ ~broken
          /\ fallback' = queue
          /\ queue' = s

\* What the caller gets: the items, or an error instead of them.
Answers(items) == out' = items /\ failed' = FALSE
Errs == out' = <<>> /\ failed' = TRUE

\* An operation that makes the queue s and hands items over.  It may report an
\* error although it has done all of it: the items have then left the queue and
\* nobody has them.
Perform(s, items) ==
    /\ taking = <<>>
    /\ \/ Written(s) /\ (Answers(items) \/ Errs)
       \/ Fails(s) /\ Errs
    /\ UNCHANGED taking

Enqueue(item) == Perform(WithItem(queue, item), <<>>)

\* Delete, and Dispatch of an item the caller has chosen.
Remove(id) == Perform(Without(queue, {id}), <<>>)

UpdateDeliveryPolicy(item) ==
    /\ item.id \in IdsOf(queue)
    /\ Perform(WithItem(queue, item), <<>>)

Reorder(ids) == Perform(Reordered(queue, ids), <<>>)

TakeFirst(items) ==
    /\ items # <<>>
    /\ Perform(Without(queue, {Head(items).id}), <<Head(items)>>)

DispatchNext == TakeFirst(queue)

DispatchFirstDispatchable == TakeFirst(SelectSeq(queue, LAMBDA item : ~Guides(item)))

\* All guidance for the rounds is handed over; it leaves the queue item by
\* item before any other operation.
DispatchGuidance(rounds) ==
    /\ taking = <<>>
    /\ GuidanceFor(queue, rounds) # <<>>
    /\ taking' = GuidanceFor(queue, rounds)
    /\ Answers(taking')
    /\ UNCHANGED <<queue, broken, fallback>>

GuidanceLeaves ==
    /\ taking # <<>>
    /\ Written(Without(queue, {Head(taking).id}))
    /\ taking' = Tail(taking)
    /\ \/ UNCHANGED <<out, failed>>
       \/ taking' = <<>> /\ Errs

\* The operation fails, or the process stops, in between: nobody receives
\* the items, and those that have left are lost.
GuidanceLost ==
    /\ taking # <<>>
    /\ \/ Fails(Without(queue, {Head(taking).id}))
       \/ UNCHANGED <<queue, broken, fallback>>
    /\ taking' = <<>>
    /\ Errs

Next ==
    \/ \E item \in Items : Enqueue(item) \/ UpdateDeliveryPolicy(item)
    \/ \E id \in Ids : Remove(id)
    \/ \E ids \in Orders : Reorder(ids)
    \/ DispatchNext
    \/ DispatchFirstDispatchable
    \/ \E rounds \in SUBSET Targets : DispatchGuidance(rounds)
    \/ GuidanceLeaves
    \/ GuidanceLost

Spec == Init /\ [][Next]_vars
=============================================================================
