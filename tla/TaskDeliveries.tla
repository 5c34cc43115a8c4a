--------------------------- MODULE TaskDeliveries ---------------------------
(***************************************************************************)
(* How the results of one task's runs are delivered: the first attempt of  *)
(* the goroutine that observes a run, the batches that retry what failed   *)
(* until a run has used up its attempts, and the administrators who retry  *)
(* a run themselves, update or delete the task, beside cancelled runs,     *)
(* failing writes and stops of the server.                                 *)
(*                                                                         *)
(* When a retry is due is left out: a batch finds any of the runs that     *)
(* have attempts left.  What runs exclude one another and how they end is  *)
(* AutomationJobs'.                                                        *)
(***************************************************************************)
EXTENDS Naturals

CONSTANTS
    Runs,          \* runs of the task
    Batches,       \* goroutines of retryDueDeliveries
    Requests,      \* administrators' requests to retry or delete, each made once
    Nothing,       \* no run
    MaxAttempts,   \* maxAutoDeliveryAttempts
    Backoffs,      \* the number of deliveryRetryBackoffs
    MaxEvents      \* bound: failed operations of the database and stops, together

ASSUME NothingAssumption == Nothing \notin Runs
ASSUME CallersAssumption == Batches \cap Requests = {}
ASSUME BoundsAssumption ==
    MaxAttempts \in Nat /\ Backoffs \in Nat /\ MaxEvents \in Nat

Callers == Batches \cup Requests

VARIABLES
    task,        \* database: the task is enabled, disabled or deleted
    run,         \* database: each run, open or not, and the record of its delivery
    observer,    \* the goroutine that observes each run: what it has to record
    retrying,    \* deliveryRetryRunning
    call,        \* each batch and each request
    events,      \* how many failures and stops there were
    sent,        \* external: how often the channel got the result of each run
    unrecorded,  \* history: runs whose result was sent and not recorded as delivered
    together     \* history: runs on which a request and another caller worked at a time

vars == <<task, run, observer, retrying, call, events, sent, unrecorded, together>>

Outcomes == {"succeeded", "failed", "other"}     \* other: nothing to be sent
NoCall == [pc |-> "idle", run |-> Nothing, attempts |-> 0, outcome |-> "other", todo |-> {}]

\* The places of a call that works on a run, has read it, and has sent its result.
OnRun == {"finding", "reading", "sending", "recording", "burying"}
CallPCs == OnRun \cup {"idle", "listing", "picking", "deleting", "row", "done"}

TypeOK ==
    /\ task \in {"enabled", "disabled", "deleted"}
    /\ run \in [Runs -> [open: BOOLEAN, delivery: Outcomes, attempts: Nat, dead: BOOLEAN]]
    /\ observer \in [Runs -> Outcomes \cup {"running", "ended"}]
    /\ retrying \in BOOLEAN
    /\ call \in [Callers -> [pc: CallPCs, run: Runs \cup {Nothing}, attempts: Nat,
                             outcome: Outcomes, todo: SUBSET Runs]]
    /\ \A c \in Callers : call[c].pc \in OnRun => call[c].run \in Runs
    /\ events \in 0 .. MaxEvents
    /\ sent \in [Runs -> Nat]
    /\ unrecorded \subseteq Runs
    /\ together \subseteq Runs

Init ==
    /\ task = "enabled"
    /\ run = [r \in Runs |-> [open |-> TRUE, delivery |-> "other", attempts |-> 0, dead |-> FALSE]]
    /\ observer = [r \in Runs |-> "running"]
    /\ retrying = FALSE
    /\ call = [c \in Callers |-> NoCall]
    /\ events = 0
    /\ sent = [r \in Runs |-> 0]
    /\ unrecorded = {}
    /\ together = {}

Event == events < MaxEvents /\ events' = events + 1
NoEvent == UNCHANGED events

---------------------------------------------------------------------------
(* A delivery and its record *)

\* deliverJobObservation: the result is sent, or not, or nothing is to be
\* sent; DeliverText also fails when it cannot remember the route of what it
\* has sent.
Deliver(r, outcome) ==
    \/ /\ outcome = "succeeded"
       /\ sent' = [sent EXCEPT ![r] = @ + 1]
       /\ UNCHANGED unrecorded
    \/ /\ outcome \in {"failed", "other"}
       /\ UNCHANGED <<sent, unrecorded>>
    \/ /\ outcome = "failed"
       /\ sent' = [sent EXCEPT ![r] = @ + 1]
       /\ unrecorded' = unrecorded \cup {r}

\* deliveryAttempted
Attempted(outcome) == IF outcome = "other" THEN 0 ELSE 1

\* deliveryRetrySchedule: is that the last attempt?  Otherwise the wait
\* number attempts is over at some time.
DeadLetter(outcome, attempts) ==
    outcome = "failed" /\ (attempts >= MaxAttempts \/ attempts \notin 1 .. Backoffs)

\* A row after an attempt: the database counts up its own number of attempts,
\* and the schedule comes from the number that the caller has read.
Attempt(row, outcome, read) ==
    [row EXCEPT !.delivery = outcome,
                !.attempts = @ + Attempted(outcome),
                !.dead = DeadLetter(outcome, read + Attempted(outcome))]

---------------------------------------------------------------------------
(* The observer of a run *)

ObserveEnd(r) ==
    /\ observer[r] = "running"
    /\ \E outcome \in Outcomes :
        /\ Deliver(r, outcome)
        /\ observer' = [observer EXCEPT ![r] = outcome]
    /\ UNCHANGED <<task, run, retrying, call, events, together>>

\* MarkRunFinishedIfActive
FinishRun(r) ==
    LET outcome == observer[r] IN
    /\ outcome \in Outcomes
    /\ observer' = [observer EXCEPT ![r] = "ended"]
    /\ \/ /\ run[r].open
          /\ run' = [run EXCEPT ![r] = [Attempt(@, outcome, 0) EXCEPT !.open = FALSE]]
          /\ NoEvent
          /\ UNCHANGED unrecorded
       \/ /\ IF run[r].open THEN Event ELSE NoEvent
          /\ unrecorded' = IF outcome = "succeeded" THEN unrecorded \cup {r} ELSE unrecorded
          /\ UNCHANGED run
    /\ UNCHANGED <<task, retrying, call, sent, together>>

\* A run is cancelled by a recovery, a restart or the deletion of its task,
\* whatever its observer is doing.
CancelRun(r) ==
    /\ run[r].open
    /\ run' = [run EXCEPT ![r].open = FALSE, ![r].delivery = "other", ![r].dead = FALSE]
    /\ UNCHANGED <<task, observer, retrying, call, events, sent, unrecorded, together>>

---------------------------------------------------------------------------
(* Batches *)

Failed(r) == ~run[r].open /\ run[r].delivery = "failed"

\* Caller c has the run on its list, or has read it and not recorded it yet.
Holds(c, r) ==
    r \in call[c].todo \/ (call[c].run = r /\ call[c].pc \in OnRun)

\* Caller c turns to some runs: which of them does another one hold, if one of
\* the two is an administrator's request?
Meets(c, rs) ==
    {r \in rs : \E d \in Callers \ {c} : Holds(d, r) /\ (c \in Requests \/ d \in Requests)}

Goto(c, label) == call' = [call EXCEPT ![c].pc = label]

\* The call has done with its run: a batch turns to the next one.
Return(c) ==
    call' = [call EXCEPT ![c] =
        [NoCall EXCEPT !.pc = IF c \in Batches THEN "picking" ELSE "done", !.todo = call[c].todo]]

\* Fault: a batch begins beside another one.
FaultBeginBatch(b) ==
    /\ call[b].pc = "idle"
    /\ retrying' = TRUE
    /\ Goto(b, "listing")
    /\ UNCHANGED <<task, run, observer, events, sent, unrecorded, together>>

\* beginDeliveryRetryBatch, at every tick of the scheduler.
BeginBatch(b) ==
    /\ call[b].pc = "idle"
    /\ ~retrying
    /\ retrying' = TRUE
    /\ Goto(b, "listing")
    /\ UNCHANGED <<task, run, observer, events, sent, unrecorded, together>>

\* Failed runs with attempts left: the schedule makes all of them due in time.
Due == {r \in Runs : run[r].delivery = "failed" /\ ~run[r].dead /\ run[r].attempts < MaxAttempts}

\* Fault: the batch ends without finishDeliveryRetryBatch.
FaultListDue(b) ==
    /\ call[b].pc = "listing"
    /\ UNCHANGED retrying
    /\ \/ /\ NoEvent
          /\ \E due \in SUBSET Due :
              /\ call' = [call EXCEPT ![b].pc = "picking", ![b].todo = due]
              /\ together' = together \cup Meets(b, due)
       \/ /\ Event
          /\ call' = [call EXCEPT ![b] = NoCall]
          /\ UNCHANGED together
    /\ UNCHANGED <<task, run, observer, sent, unrecorded>>

\* ListDueDeliveryRetries: the runs whose time has come.
ListDue(b) ==
    /\ call[b].pc = "listing"
    /\ \/ /\ NoEvent
          /\ \E due \in SUBSET Due :
              /\ call' = [call EXCEPT ![b].pc = "picking", ![b].todo = due]
              /\ together' = together \cup Meets(b, due)
          /\ UNCHANGED retrying
       \/ /\ Event
          /\ call' = [call EXCEPT ![b] = NoCall]
          /\ retrying' = FALSE
          /\ UNCHANGED together
    /\ UNCHANGED <<task, run, observer, sent, unrecorded>>

EndBatch(b) ==
    /\ call[b].pc = "picking"
    /\ call[b].todo = {}
    /\ call' = [call EXCEPT ![b] = NoCall]
    /\ retrying' = FALSE
    /\ UNCHANGED <<task, run, observer, events, sent, unrecorded, together>>

\* retryDueRunDelivery reads the task of the next run; an error passes the run over.
PickRun(b) ==
    /\ call[b].pc = "picking"
    /\ \E r \in call[b].todo :
        \/ /\ NoEvent
           /\ call' = [call EXCEPT ![b].pc = IF task = "enabled" THEN "finding" ELSE "burying",
                                  ![b].run = r, ![b].todo = @ \ {r}]
        \/ /\ Event
           /\ call' = [call EXCEPT ![b].todo = @ \ {r}]
    /\ UNCHANGED <<task, run, observer, retrying, sent, unrecorded, together>>

\* The task is disabled or gone: MarkRunDelivery makes the run a dead letter,
\* whatever its record says by now.
BuryRun(b) ==
    LET r == call[b].run IN
    /\ call[b].pc = "burying"
    /\ Return(b)
    /\ \/ NoEvent /\ run' = [run EXCEPT ![r].delivery = "failed", ![r].dead = TRUE]
       \/ Event /\ UNCHANGED run
    /\ UNCHANGED <<task, observer, retrying, sent, unrecorded, together>>

---------------------------------------------------------------------------
(* retryRunDelivery, of a batch or of an administrator *)

RequestRetry(q, r) ==
    /\ call[q].pc = "idle"
    /\ call' = [call EXCEPT ![q].pc = "finding", ![q].run = r]
    /\ together' = together \cup Meets(q, {r})
    /\ UNCHANGED <<task, run, observer, retrying, events, sent, unrecorded>>

\* GetCronJob
FindTask(c) ==
    /\ call[c].pc = "finding"
    /\ \/ NoEvent /\ task # "deleted" /\ Goto(c, "reading")
       \/ NoEvent /\ task = "deleted" /\ Return(c)
       \/ Event /\ Return(c)
    /\ UNCHANGED <<task, run, observer, retrying, sent, unrecorded, together>>

\* Fault: a run that was delivered is delivered again.
FaultReadRun(c) ==
    LET r == call[c].run IN
    /\ call[c].pc = "reading"
    /\ \/ NoEvent /\ ~run[r].open
          /\ call' = [call EXCEPT ![c].pc = "sending", ![c].attempts = run[r].attempts]
       \/ NoEvent /\ run[r].open /\ Return(c)
       \/ Event /\ Return(c)
    /\ UNCHANGED <<task, run, observer, retrying, sent, unrecorded, together>>

\* GetRun: the run must have ended and its delivery must have failed.
ReadRun(c) ==
    LET r == call[c].run IN
    /\ call[c].pc = "reading"
    /\ \/ NoEvent /\ Failed(r)
          /\ call' = [call EXCEPT ![c].pc = "sending", ![c].attempts = run[r].attempts]
       \/ NoEvent /\ ~Failed(r) /\ Return(c)
       \/ Event /\ Return(c)
    /\ UNCHANGED <<task, run, observer, retrying, sent, unrecorded, together>>

Send(c) ==
    /\ call[c].pc = "sending"
    /\ \E outcome \in Outcomes :
        /\ Deliver(call[c].run, outcome)
        /\ call' = [call EXCEPT ![c].pc = "recording", ![c].outcome = outcome]
    /\ UNCHANGED <<task, run, observer, retrying, events, together>>

\* Fault: the attempt that was just made is not counted in the schedule.
FaultRecord(c) ==
    LET r == call[c].run
        outcome == call[c].outcome
    IN  /\ call[c].pc = "recording"
        /\ Return(c)
        /\ \/ /\ NoEvent
              /\ run' = [run EXCEPT ![r] =
                    [Attempt(@, outcome, 0) EXCEPT !.dead = DeadLetter(outcome, call[c].attempts)]]
              /\ UNCHANGED unrecorded
           \/ /\ Event
              /\ unrecorded' = IF outcome = "succeeded" THEN unrecorded \cup {r} ELSE unrecorded
              /\ UNCHANGED run
        /\ UNCHANGED <<task, observer, retrying, sent, together>>

\* MarkRunDelivery, whatever the record says by now.
Record(c) ==
    LET r == call[c].run
        outcome == call[c].outcome
    IN  /\ call[c].pc = "recording"
        /\ Return(c)
        /\ \/ /\ NoEvent
              /\ run' = [run EXCEPT ![r] = Attempt(@, outcome, call[c].attempts)]
              /\ UNCHANGED unrecorded
           \/ /\ Event
              /\ unrecorded' = IF outcome = "succeeded" THEN unrecorded \cup {r} ELSE unrecorded
              /\ UNCHANGED run
        /\ UNCHANGED <<task, observer, retrying, sent, together>>

Retry(c) == FindTask(c) \/ ReadRun(c) \/ Send(c) \/ Record(c)
BatchSteps(b) ==
    BeginBatch(b) \/ ListDue(b) \/ PickRun(b) \/ BuryRun(b) \/ Retry(b) \/ EndBatch(b)

---------------------------------------------------------------------------
(* The task is updated or deleted *)

\* UpdateTask; one that read the task before its deletion writes it back.
UpdateTask ==
    /\ task' \in {"enabled", "disabled"} \ {task}
    /\ UNCHANGED <<run, observer, retrying, call, events, sent, unrecorded, together>>

RequestDelete(q) ==
    /\ call[q].pc = "idle"
    /\ task # "deleted"
    /\ Goto(q, "deleting")
    /\ UNCHANGED <<task, run, observer, retrying, events, sent, unrecorded, together>>

\* deadLetterDeletedTaskPendingDeliveries: ListRunsByJob, then one write for
\* each failed run; an error ends the deletion.
ListPending(q) ==
    LET pending == {r \in Runs : Failed(r) /\ ~run[r].dead} IN
    /\ call[q].pc = "deleting"
    /\ \/ /\ NoEvent
          /\ call' = [call EXCEPT ![q].pc = "row", ![q].todo = pending]
          /\ together' = together \cup Meets(q, pending)
       \/ /\ Event
          /\ Goto(q, "done")
          /\ UNCHANGED together
    /\ UNCHANGED <<task, run, observer, retrying, sent, unrecorded>>

BuryPending(q) ==
    /\ call[q].pc = "row"
    /\ \E r \in call[q].todo :
        \/ /\ NoEvent
           /\ run' = [run EXCEPT ![r].delivery = "failed", ![r].dead = TRUE]
           /\ call' = [call EXCEPT ![q].todo = @ \ {r}]
        \/ /\ Event
           /\ call' = [call EXCEPT ![q] = [NoCall EXCEPT !.pc = "done"]]
           /\ UNCHANGED run
    /\ UNCHANGED <<task, observer, retrying, sent, unrecorded, together>>

\* DeleteCronJob
DeleteRow(q) ==
    /\ call[q].pc = "row"
    /\ call[q].todo = {}
    /\ Goto(q, "done")
    /\ \/ NoEvent /\ task' = "deleted"
       \/ Event /\ UNCHANGED task
    /\ UNCHANGED <<run, observer, retrying, sent, unrecorded, together>>

RequestSteps(q) == Retry(q) \/ ListPending(q) \/ BuryPending(q) \/ DeleteRow(q)

---------------------------------------------------------------------------
(* The server stops without notice and starts again. *)

Crash ==
    /\ Event
    /\ retrying' = FALSE
    /\ call' = [c \in Callers |->
                  IF c \in Requests /\ call[c].pc # "idle" THEN [NoCall EXCEPT !.pc = "done"]
                  ELSE NoCall]
    /\ observer' = [r \in Runs |-> "ended"]
    /\ unrecorded' = unrecorded
          \cup {r \in Runs : observer[r] = "succeeded"}
          \cup {r \in Runs : \E c \in Callers : /\ call[c].pc = "recording"
                                                /\ call[c].run = r
                                                /\ call[c].outcome = "succeeded"}
    /\ UNCHANGED <<task, run, sent, together>>

Next ==
    \/ \E r \in Runs : ObserveEnd(r) \/ FinishRun(r) \/ CancelRun(r)
    \/ \E b \in Batches : BatchSteps(b)
    \/ \E q \in Requests : RequestDelete(q) \/ RequestSteps(q) \/ \E r \in Runs : RequestRetry(q, r)
    \/ UpdateTask
    \/ Crash

\* The goroutines of batches go on, the scheduler ticks, and the wait of every run
\* that has attempts left is over at some tick.
Fairness ==
    /\ WF_vars(\E b \in Batches : BatchSteps(b))
    /\ \A r \in Runs : SF_vars(\E b \in Batches : ListDue(b) /\ r \in call'[b].todo)

Spec == Init /\ [][Next]_vars
FairSpec == Spec /\ Fairness

---------------------------------------------------------------------------
(* Properties *)

\* The result of a run is sent once, unless it was sent and that could not be
\* recorded, or an administrator's request met another call at the run.
DeliveredOnce ==
    \A r \in Runs : sent[r] > 1 => r \in unrecorded \cup together

\* A run whose delivery failed is a dead letter or has attempts left, so that
\* some batch will find it, unless two calls counted its attempts together.
DeadOrDue ==
    \A r \in Runs : Failed(r) => run[r].dead \/ r \in Due \cup together

\* A delivery on record stays, unless an administrator's request met another
\* call at the run: a retry that came late, a batch that made a dead letter of
\* what was on its list.
DeliveredStays ==
    [][\A r \in Runs : ~run[r].open /\ run[r].delivery = "succeeded" =>
          run'[r].delivery = "succeeded" \/ r \in together]_vars

\* A failed delivery is made up for or given up in the end, in spite of
\* failures and stops.
FailedDeliveriesEnd ==
    \A r \in Runs :
        Failed(r) /\ ~run[r].dead ~> ~Failed(r) \/ run[r].dead \/ r \in together

=============================================================================
