---------------------------- MODULE InputQueueLog ----------------------------
(***************************************************************************)
(* InputQueueStore for one location: an append-only JSONL file of actions, *)
(* read and replayed from its first row by every operation.  Operations    *)
(* hold the store's mutex, so one is one action, except DispatchGuidance,  *)
(* which writes a row per item and may fail between two of them.  Each     *)
(* ends by reading the file again, and when that fails its caller gets an  *)
(* error and nothing else, although the row is written.                    *)
(*                                                                         *)
(* A write that fails, or a process that stops in it, leaves the file with *)
(* a last line that has no end of line.  readJSONL skips a line it cannot  *)
(* decode, and the next row is written behind the same line.               *)
(***************************************************************************)
EXTENDS Naturals, Sequences, SequencesExt

CONSTANTS
    Ids, Targets, NoTarget,  \* as in InputQueue
    Lists                    \* the id lists callers of Reorder pass

ASSUME NoTargetAssumption == NoTarget \notin Targets

VARIABLES
    file,    \* what replaying the rows readJSONL can decode yields
    prior,   \* the same without the last of them, while it has no end of line
    tail,    \* the last line: "ended", "part" of a row, "whole" but not ended
    todo,    \* items DispatchGuidance has still to write a row for
    out,     \* the items the last operation returns
    failed   \* it returned an error

vars == <<file, prior, tail, todo, out, failed>>

Policies == {"queue", "guide"}
Items == [id : Ids, policy : Policies, root : Targets \cup {NoTarget}]

\* replayInputQueueRows builds a map from id to item and the order of ids.
NoItems == [itemsByID |-> <<>>, order |-> <<>>]

Init ==
    /\ file = NoItems
    /\ prior = NoItems
    /\ tail = "ended"
    /\ todo = <<>>
    /\ out = <<>>
    /\ failed = FALSE

-----------------------------------------------------------------------------
(* replayInputQueueRows, one row.  It goes through the rows from first to   *)
(* last, so that the state of its loop after all of them is kept in file   *)
(* and a row that is appended takes the loop one step further.             *)

SetItem(st, item) ==
    [k \in DOMAIN st.itemsByID \cup {item.id} |->
        IF k = item.id THEN item ELSE st.itemsByID[k]]

removeInputQueueOrderID(order, id) == SelectSeq(order, LAMBDA k : k # id)

\* Fault: ids that are not listed are forgotten.
reorderInputQueueIDsOnly(order, known, ids) ==
    SelectSeq(ids, LAMBDA k : k \in known)

reorderInputQueueIDs(order, known, ids) ==
    SelectSeq(ids, LAMBDA k : k \in known)
    \o SelectSeq(order, LAMBDA k : k \in known \ Range(ids))

\* Fault: an id that is queued already moves behind the others.
EnqueueOrderLast(st, id) == Append(removeInputQueueOrderID(st.order, id), id)

\* An id that is queued already keeps its place.
EnqueueOrder(st, id) ==
    IF id \in DOMAIN st.itemsByID THEN st.order ELSE Append(st.order, id)

ReplayRow(st, row) ==
    CASE row.action = "enqueue" ->
            [itemsByID |-> SetItem(st, row.item),
             order |-> EnqueueOrder(st, row.item.id)]
      [] row.action \in {"delete", "dispatch"} ->
            [itemsByID |-> [k \in DOMAIN st.itemsByID \ {row.id} |-> st.itemsByID[k]],
             order |-> removeInputQueueOrderID(st.order, row.id)]
      [] row.action = "reorder" ->
            [st EXCEPT !.order = reorderInputQueueIDs(@, DOMAIN st.itemsByID, row.ids)]
      [] row.action = "update" /\ row.item.id \in DOMAIN st.itemsByID ->
            [st EXCEPT !.itemsByID = SetItem(st, row.item)]
      [] OTHER -> st

\* The result of the replay.
replayInputQueueRows(st) ==
    LET live == SelectSeq(st.order, LAMBDA k : k \in DOMAIN st.itemsByID)
    IN  [n \in DOMAIN live |-> st.itemsByID[live[n]]]

Snapshot == replayInputQueueRows(file)

-----------------------------------------------------------------------------
(* appendJSONL.                                                            *)

\* The row gets an end of line: a line of its own, unless the line before
\* has none; the two are then one line that cannot be decoded.
AppendRow(row) ==
    /\ file' = CASE tail = "ended" -> ReplayRow(file, row)
                 [] tail = "whole" -> prior
                 [] OTHER -> file
    /\ prior' = NoItems
    /\ tail' = "ended"

\* A write that fails half-way: a part of the row, or all but its end.
TearRow(row) ==
    /\ \/ /\ tail' = "part"
          /\ file' = IF tail = "whole" THEN prior ELSE file
          /\ prior' = NoItems
       \/ /\ tail = "ended"
          /\ tail' = "whole"
          /\ file' = ReplayRow(file, row)
          /\ prior' = file

\* No operation holds the mutex.
Free == todo = <<>>

Returns(items) == out' = items /\ failed' = FALSE
Fails == out' = <<>> /\ failed' = TRUE

\* An operation that writes one row, reads the snapshot it returns with the items,
\* and hands them over.
Write(row, items) ==
    /\ Free
    /\ \/ AppendRow(row) /\ (Returns(items) \/ Fails)
       \/ TearRow(row) /\ Fails
    /\ UNCHANGED todo

-----------------------------------------------------------------------------
Enqueue(item) == Write([action |-> "enqueue", item |-> item], <<>>)

Delete(id) == Write([action |-> "delete", id |-> id], <<>>)

Dispatch(id) == Write([action |-> "dispatch", id |-> id], <<>>)

\* An item that is not queued writes nothing.
UpdateDeliveryPolicy(item) ==
    /\ \E n \in DOMAIN Snapshot : Snapshot[n].id = item.id
    /\ Write([action |-> "update", item |-> item], <<>>)

\* cleanIDs: the list without repetitions.
cleanIDs(ids) ==
    FoldLeft(LAMBDA s, id : IF id \in Range(s) THEN s ELSE Append(s, id), <<>>, ids)

Reorder(ids) == Write([action |-> "reorder", ids |-> cleanIDs(ids)], <<>>)

Guides(item) == item.policy = "guide"

DispatchItem(item) == Write([action |-> "dispatch", id |-> item.id], <<item>>)

DispatchNext == Snapshot # <<>> /\ DispatchItem(Head(Snapshot))

DispatchFirstDispatchable ==
    LET ordinary == SelectSeq(Snapshot, LAMBDA item : ~Guides(item))
    IN  ordinary # <<>> /\ DispatchItem(Head(ordinary))

matchesInputQueueGuidanceTarget(item, rounds) ==
    rounds = {} \/ item.root = NoTarget \/ item.root \in rounds

\* The items are chosen, then a row is written for each, then the file is read
\* again and they are returned.
DispatchGuidance(rounds) ==
    LET guidanceItems == SelectSeq(Snapshot, LAMBDA item :
            Guides(item) /\ matchesInputQueueGuidanceTarget(item, rounds))
    IN  /\ Free
        /\ guidanceItems # <<>>
        /\ todo' = guidanceItems
        /\ Returns(guidanceItems)
        /\ UNCHANGED <<file, prior, tail>>

DispatchGuidanceRow ==
    /\ ~Free
    /\ AppendRow([action |-> "dispatch", id |-> Head(todo).id])
    /\ todo' = Tail(todo)
    /\ \/ UNCHANGED <<out, failed>>
       \/ todo' = <<>> /\ Fails

\* A write fails, or the process stops, before the last row is written: nothing
\* is returned.
DispatchGuidanceFails ==
    /\ ~Free
    /\ \/ TearRow([action |-> "dispatch", id |-> Head(todo).id])
       \/ UNCHANGED <<file, prior, tail>>
    /\ todo' = <<>>
    /\ Fails

Next ==
    \/ \E item \in Items : Enqueue(item) \/ UpdateDeliveryPolicy(item)
    \/ \E id \in Ids : Delete(id) \/ Dispatch(id)
    \/ \E ids \in Lists : Reorder(ids)
    \/ DispatchNext
    \/ DispatchFirstDispatchable
    \/ \E rounds \in SUBSET Targets : DispatchGuidance(rounds)
    \/ DispatchGuidanceRow
    \/ DispatchGuidanceFails

Spec == Init /\ [][Next]_vars

-----------------------------------------------------------------------------
(* Properties.                                                             *)

Replays ==
    [itemsByID : UNION {[ids -> Items] : ids \in SUBSET Ids}, order : Seq(Ids)]

TypeOK ==
    /\ file \in Replays /\ prior \in Replays
    /\ tail \in {"ended", "part", "whole"}
    /\ todo \in Seq(Items) /\ out \in Seq(Items) /\ failed \in BOOLEAN

\* Replaying the file, as every operation and every restart does, yields the
\* queue that the operations describe.  A write that fails half-way costs its
\* own operation and the next one; a dispatch that reports an error may have
\* taken its item, and a DispatchGuidance those it has written rows for.  An
\* operation that reports none hands over what has left the queue, and nothing
\* else is ever lost, changed or handed over again.
Queue == INSTANCE InputQueue WITH
    queue <- Snapshot,
    taking <- todo,
    broken <- tail # "ended",
    fallback <- CASE tail = "ended" -> <<>>
                  [] tail = "whole" -> replayInputQueueRows(prior)
                  [] OTHER -> Snapshot

ImplementsQueue == Queue!Spec

\* Two items that stay in the queue change their order only by a Reorder, or
\* by the loss of one whose row had no end of line.
OrderKept ==
    [][\A m, n \in DOMAIN Snapshot : \A k, l \in DOMAIN Snapshot' :
        (m < n /\ Snapshot[m].id = Snapshot'[l].id /\ Snapshot[n].id = Snapshot'[k].id
         /\ tail # "whole" /\ ~\E ids \in Lists : Reorder(ids)) => l < k]_vars

=============================================================================
