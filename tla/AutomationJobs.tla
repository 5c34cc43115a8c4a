--------------------------- MODULE AutomationJobs ---------------------------
(***************************************************************************)
(* The scheduler of one scheduled task: how its due ticks and manual       *)
(* triggers claim the task in the database, run it, close the run and      *)
(* release the task, beside recovery, updates, the deletion of the task    *)
(* and restarts of the server.                                             *)
(*                                                                         *)
(* A run is named by the call of startJobExecution that makes it; a call   *)
(* that is skipped or refused uses its name up.  The task repeats: it is   *)
(* due at any moment while it is enabled, and time is left out.  Its last  *)
(* status, failure streak and error are left out too.                      *)
(***************************************************************************)
EXTENDS Naturals

CONSTANTS
    Runs,        \* calls of startJobExecution, and the runs they make
    NoRun,       \* an empty running_run_id
    MaxEvents    \* bound: stops of the server, failed operations of the database and
                 \* of what a call depends on, and requests of users, together

ASSUME RunsAssumption == NoRun \notin Runs
ASSUME MaxEventsAssumption == MaxEvents \in Nat

VARIABLES
    row,         \* database: the task's row, of which enabled, overlap_policy and
                 \* running_run_id
    status,      \* database: the status of each run's row
    up,          \* the server is up
    state,       \* memory: jobStates[job]; Running is count > 0
    pc,          \* control point of each call of startJobExecution, and of its observer
    trigger,     \* "cron" or "manual"
    copy,        \* the copy of the task the call works on, or the snapshot it writes
    admin,       \* a recovery, an edit or a delivery of the task: its control
                 \* point, run, enabled flag and overlap policy
    events,      \* how many stops, failures and requests of users there were
    overtaken,   \* history: runs whose claim a late snapshot removed from the row
    displaced,   \* history: runs whose claim gave way to that of a call whose copy of
                 \* the task allowed it
    allowed,     \* history: the task's row has said "allow"
    released,    \* history: runs whose claim a recovery or a deletion removed
    unrecorded   \* history: runs whose end was not recorded, or recorded and undone

database == <<row, status>>
memory == <<up, state>>
calls == <<pc, trigger, copy>>
taken == <<displaced, allowed>>
history == <<overtaken, taken, released, unrecorded>>
vars == <<database, memory, calls, admin, events, history>>

RunOrNone == Runs \cup {NoRun}
Active == {"pending", "running"}
Final == {"succeeded", "cancelled", "skipped"}   \* failed is one with succeeded

\* A call that holds a claim and has not closed its run.
Working == {"claimed", "recording", "starting", "dispatching", "observing"}
PCs == Working \cup {"idle", "entered", "ensured", "skipping", "advancing", "claiming",
                     "refused", "external", "finishing", "persisting", "done"}

AdminPCs == {"idle", "collected", "marked", "replaced", "read", "upserted",
             "persisting", "deleting", "cancelled", "deleted"}

Policies == {"skip", "allow"}
JobCopies == [enabled: BOOLEAN, policy: Policies, run: RunOrNone]
NoCopy == [enabled |-> FALSE, policy |-> "skip", run |-> NoRun]
NoState == [present |-> FALSE, job |-> NoCopy, count |-> 0, run |-> NoRun]
NoAdmin == [pc |-> "idle", run |-> NoRun, enabled |-> FALSE, policy |-> "skip"]

TypeOK ==
    /\ row \in [exists: BOOLEAN, enabled: BOOLEAN, policy: Policies, run: RunOrNone]
    /\ status \in [Runs -> {"none"} \cup Active \cup Final]
    /\ up \in BOOLEAN
    /\ state \in [present: BOOLEAN, job: JobCopies, count: Nat, run: RunOrNone]
    /\ pc \in [Runs -> PCs]
    /\ trigger \in [Runs -> {"cron", "manual"}]
    /\ copy \in [Runs -> JobCopies]
    /\ admin \in [pc: AdminPCs, run: RunOrNone, enabled: BOOLEAN, policy: Policies]
    /\ events \in 0 .. MaxEvents
    /\ overtaken \subseteq Runs
    /\ displaced \subseteq Runs
    /\ allowed \in BOOLEAN
    /\ released \subseteq Runs
    /\ unrecorded \subseteq Runs

Snapshot(run) == [NoCopy EXCEPT !.run = run]
\* One more event, or none.
Event == events < MaxEvents /\ events' = events + 1
NoEvent == UNCHANGED events

TheCopy(enabled, policy, run) == [enabled |-> enabled, policy |-> policy, run |-> run]
RowCopy == TheCopy(row.enabled, row.policy, row.run)
Running == state.count > 0

Init ==
    /\ \E policy \in Policies :
        row = [exists |-> TRUE, enabled |-> TRUE, policy |-> policy, run |-> NoRun]
    /\ status = [r \in Runs |-> "none"]
    /\ up = TRUE
    /\ state = [present |-> TRUE, job |-> RowCopy, count |-> 0, run |-> NoRun]
    /\ pc = [r \in Runs |-> "idle"]
    /\ trigger = [r \in Runs |-> "cron"]
    /\ copy = [r \in Runs |-> NoCopy]
    /\ admin = NoAdmin
    /\ events = 0
    /\ overtaken = {}
    /\ displaced = {}
    /\ allowed = (row.policy = "allow")
    /\ released = {}
    /\ unrecorded = {}

---------------------------------------------------------------------------
(* The runtime state in memory and the writes to the row. *)

\* ensureJobState(job): the entry, made from the copy when there is none.
Ensured(job) ==
    IF state.present
    THEN [state EXCEPT !.job = job]
    ELSE [present |-> TRUE, job |-> job,
          count |-> IF job.run = NoRun THEN 0 ELSE 1, run |-> job.run]

\* Fault: the count of running calls stays.
FaultReplaced(job) ==
    [present |-> TRUE, job |-> job, run |-> job.run,
     count |-> IF job.run # NoRun /\ state.count = 0 THEN 1 ELSE state.count]

\* replaceJobRuntimeState(job)
Replaced(job) ==
    [present |-> TRUE, job |-> job, run |-> job.run,
     count |-> IF job.run = NoRun THEN 0
               ELSE IF state.count = 0 THEN 1 ELSE state.count]

\* Runs whose claim is in the row, and lost when the row gets another one.
Claimant == {r \in Runs : row.run = r /\ (pc[r] \in Working \/ status[r] \in Active)}

\* UpdateCronJobRuntime: the row gets the snapshot's running_run_id, if it
\* still exists; a failure is logged.  keep: a run the writer has dealt with.
WriteRuntime(run, keep) ==
    IF row.exists
    THEN /\ row' = [row EXCEPT !.run = run]
         /\ overtaken' = overtaken \cup (Claimant \ {run, keep})
    ELSE UNCHANGED <<row, overtaken>>
UpdateRuntime(run, keep) ==
    \/ NoEvent /\ WriteRuntime(run, keep)
    \/ Event /\ UNCHANGED <<row, overtaken>>

\* Fault: the end of a run is recorded whatever its status is.
FaultFinishIfActive(run, final) ==
    status' = [r \in Runs |-> IF r = run /\ status[r] # "none" THEN final ELSE status[r]]

\* MarkRunFinishedIfActive
FinishIfActive(run, final) ==
    status' = [r \in Runs |-> IF r = run /\ status[r] \in Active THEN final ELSE status[r]]

\* MarkRunFinishedIfActive(run, cancelled) by somebody else than the run's own
\* call: it finds nothing to close when the run is not inserted yet.
CancelRun(run) ==
    /\ FinishIfActive(run, "cancelled")
    /\ unrecorded' = unrecorded \cup {r \in Runs : r = run /\ status[r] = "none"}

\* The same, when it fails.
CancelFails(run) ==
    /\ unrecorded' = unrecorded \cup {r \in Runs : r = run /\ status[r] \notin Final}
    /\ UNCHANGED status

\* The call goes on, with a copy of the task or without one.
Hold(r, label, job) ==
    /\ pc' = [pc EXCEPT ![r] = label]
    /\ copy' = [copy EXCEPT ![r] = job]
Goto(r, label) == Hold(r, label, NoCopy)

\* The call does not need its trigger any more.
Forget(r) == trigger' = [trigger EXCEPT ![r] = "cron"]

---------------------------------------------------------------------------
(* startJobExecution *)

\* runDueOnce finds the task due and starts a goroutine for it.
CollectDue(r) ==
    /\ up
    /\ pc[r] = "idle"
    /\ state.present
    /\ state.job.enabled
    /\ ~(Running /\ state.job.policy = "skip")
    /\ trigger' = [trigger EXCEPT ![r] = "cron"]
    /\ Hold(r, "entered", state.job)
    /\ UNCHANGED <<database, memory, admin, events, history>>

\* RunTaskNow reads the task.
RunTaskNow(r) ==
    /\ up
    /\ pc[r] = "idle"
    /\ row.exists
    /\ trigger' = [trigger EXCEPT ![r] = "manual"]
    /\ Hold(r, "entered", RowCopy)
    /\ UNCHANGED <<database, memory, admin, events, history>>

EnsureJobState(r) ==
    /\ pc[r] = "entered"
    /\ state' = Ensured(copy[r])
    /\ Hold(r, "ensured", copy[r])
    /\ UNCHANGED <<database, up, trigger, admin, events, history>>

\* The overlap check, by the policy of the copy.  When the entry was deleted
\* since, the call looks at an entry that nobody else sees, as it was when it was
\* deleted.
CheckOverlap(r) ==
    /\ pc[r] = "ensured"
    /\ \/ /\ copy[r].policy = "skip"
          /\ Running \/ ~state.present
          /\ Goto(r, "skipping")
       \/ /\ copy[r].policy = "allow" \/ ~Running
          /\ Hold(r, "claiming", copy[r])
    /\ UNCHANGED <<database, memory, trigger, admin, events, history>>

\* recordSkippedOverlap inserts the run as skipped; an error ends the call.
RecordSkippedOverlap(r) ==
    /\ pc[r] = "skipping"
    /\ \/ /\ NoEvent
          /\ status' = [status EXCEPT ![r] = "skipped"]
          /\ Goto(r, IF trigger[r] = "cron" THEN "advancing" ELSE "done")
       \/ /\ Event
          /\ Goto(r, "done")
          /\ UNCHANGED status
    /\ Forget(r)
    /\ UNCHANGED <<row, memory, admin, history>>

\* advanceJobRuntimeAfterTrigger takes a snapshot under the lock.
AdvanceJobRuntime(r) ==
    /\ pc[r] = "advancing"
    /\ IF state.present
       THEN Hold(r, "persisting", Snapshot(state.run))
       ELSE Goto(r, "done")
    /\ UNCHANGED <<database, memory, trigger, admin, events, history>>

\* Fault: a task with overlap_policy=skip is claimed whoever holds the claim.
FaultClaimIgnoresHolder(r) ==
    /\ row.exists
    /\ row.enabled \/ trigger[r] = "manual"

CanClaim(r) ==
    /\ row.exists
    /\ row.enabled \/ trigger[r] = "manual"
    /\ copy[r].policy = "skip" => row.run = NoRun

\* ClaimCronJobRuntime, one conditional UPDATE with the policy of the copy; an error
\* of it ends the call.
ClaimCronJobRuntime(r) ==
    /\ pc[r] = "claiming"
    /\ \/ /\ CanClaim(r)
          /\ NoEvent
          /\ row' = [row EXCEPT !.run = r]
          /\ displaced' =
                IF copy[r].policy = "allow" THEN displaced \cup Claimant ELSE displaced
          /\ Hold(r, "claimed", copy[r])
       \/ /\ ~CanClaim(r)
          /\ NoEvent
          /\ Goto(r, "refused")
          /\ UNCHANGED <<row, displaced>>
       \/ /\ Event
          /\ Goto(r, "done")
          /\ UNCHANGED <<row, displaced>>
    /\ Forget(r)
    /\ UNCHANGED <<status, memory, admin, overtaken, allowed, released, unrecorded>>

\* resultForExternallyClaimedJob reads the task, which may be gone.
ReadClaimedJob(r) ==
    /\ pc[r] = "refused"
    /\ \/ /\ row.exists
          /\ NoEvent
          /\ Hold(r, "external", RowCopy)
       \/ /\ IF row.exists THEN Event ELSE NoEvent
          /\ Goto(r, "done")
    /\ UNCHANGED <<database, memory, trigger, admin, history>>

ReplaceByClaimedJob(r) ==
    /\ pc[r] = "external"
    /\ state' = Replaced(copy[r])
    /\ Hold(r, "persisting", Snapshot(copy[r].run))
    /\ UNCHANGED <<database, up, trigger, admin, events, history>>

\* The claim enters the memory.
CountRun(r) ==
    /\ pc[r] = "claimed"
    /\ state' = [present |-> TRUE,
                 job |-> IF state.present THEN state.job ELSE copy[r],
                 count |-> state.count + 1,
                 run |-> r]
    /\ Goto(r, "recording")
    /\ UNCHANGED <<database, up, trigger, admin, events, history>>

InsertRunPending(r) ==
    /\ pc[r] = "recording"
    /\ \/ /\ NoEvent
          /\ status' = [status EXCEPT ![r] = "pending"]
          /\ Goto(r, "starting")
       \/ /\ Event
          /\ Goto(r, "finishing")
          /\ UNCHANGED status
    /\ UNCHANGED <<row, memory, trigger, admin, history>>

\* MarkRunRunning has no condition on the status; when it fails the task is
\* released and the run stays pending.
MarkRunRunning(r) ==
    /\ pc[r] = "starting"
    /\ \/ /\ NoEvent
          /\ status' = [status EXCEPT ![r] = "running"]
          /\ unrecorded' = IF status[r] \in Final THEN unrecorded \cup {r} ELSE unrecorded
          /\ Goto(r, "dispatching")
       \/ /\ Event
          /\ unrecorded' = unrecorded \cup {r}
          /\ Goto(r, "finishing")
          /\ UNCHANGED status
    /\ UNCHANGED <<row, memory, trigger, admin, overtaken, taken, released>>

\* dispatchJobToSession; its failure is recorded by MarkRunFinished, which has
\* no condition and whose own error is dropped.  A script has no dispatch.
DispatchJob(r) ==
    /\ pc[r] = "dispatching"
    /\ \/ /\ NoEvent
          /\ Goto(r, "observing")
          /\ UNCHANGED <<status, unrecorded>>
       \/ /\ Event
          /\ Goto(r, "finishing")
          /\ \/ /\ status' = [status EXCEPT ![r] = "succeeded"]
                /\ UNCHANGED unrecorded
             \/ /\ unrecorded' = unrecorded \cup {r}
                /\ UNCHANGED status
    /\ UNCHANGED <<row, memory, trigger, admin, overtaken, taken, released>>

\* observeJobRun, observeScriptJob: the observation ends, at the latest by its
\* timeout, and closes the run if it is still active.
CloseRun(r) ==
    /\ pc[r] = "observing"
    /\ \/ /\ NoEvent
          /\ \E final \in {"succeeded", "cancelled"} : FinishIfActive(r, final)
       \/ Event /\ UNCHANGED status
    /\ Goto(r, IF status'[r] # status[r] THEN "finishing" ELSE "done")
    /\ UNCHANGED <<row, memory, trigger, admin, history>>

\* finishJobRuntime; the snapshot is taken under the lock and written after it.
FinishJobRuntime(r) ==
    /\ pc[r] = "finishing"
    /\ IF state.present
       THEN LET count == IF state.count > 0 THEN state.count - 1 ELSE 0
                run == IF count > 0 THEN state.run ELSE NoRun
            IN  /\ state' = [state EXCEPT !.count = count, !.run = run]
                /\ Hold(r, "persisting", Snapshot(run))
       ELSE /\ Goto(r, "done")
            /\ UNCHANGED state
    /\ UNCHANGED <<database, up, trigger, admin, events, history>>

PersistJobRuntime(r) ==
    /\ pc[r] = "persisting"
    /\ UpdateRuntime(copy[r].run, NoRun)
    /\ Goto(r, "done")
    /\ UNCHANGED <<status, memory, trigger, admin, taken, released, unrecorded>>

Call(r) ==
    \/ CollectDue(r) \/ RunTaskNow(r) \/ EnsureJobState(r) \/ CheckOverlap(r)
    \/ RecordSkippedOverlap(r) \/ AdvanceJobRuntime(r) \/ ClaimCronJobRuntime(r)
    \/ ReadClaimedJob(r) \/ ReplaceByClaimedJob(r) \/ CountRun(r) \/ InsertRunPending(r)
    \/ MarkRunRunning(r) \/ DispatchJob(r) \/ CloseRun(r) \/ FinishJobRuntime(r)
    \/ PersistJobRuntime(r)

---------------------------------------------------------------------------
(* Recovery of a task whose run does not end, or whose user says so.  One  *)
(* recovery is at work at a time.                                          *)

\* recoverStaleRunningJobs, on a tick: RunningStartedAt is too long ago.  That
\* the run is still at work then is an event.
RecoverStaleRunningJobs ==
    /\ up
    /\ admin.pc = "idle"
    /\ state.present
    /\ state.run # NoRun
    /\ IF pc[state.run] \in Working THEN Event ELSE NoEvent
    /\ admin' = [pc |-> "collected", run |-> state.run,
                 enabled |-> state.job.enabled, policy |-> state.job.policy]
    /\ UNCHANGED <<database, memory, calls, history>>

\* RecoverTaskRunningRun: GetTask, and the interrupt of the run, which may fail.
RecoverTaskRunningRun ==
    /\ up
    /\ Event
    /\ admin.pc = "idle"
    /\ row.exists
    /\ state' = Ensured(RowCopy)
    /\ \/ /\ state'.run # NoRun
          /\ admin' = [pc |-> "collected", run |-> state'.run,
                       enabled |-> row.enabled, policy |-> row.policy]
       \/ UNCHANGED admin
    /\ UNCHANGED <<database, up, calls, history>>

\* Fault: the run of a stale task is not closed.
FaultRecoverMarkCancelled ==
    /\ admin.pc = "collected"
    /\ admin' = [admin EXCEPT !.pc = "marked"]
    /\ UNCHANGED <<database, memory, calls, events, history>>

\* recoverJobRuntimeAsCancelled; an error is logged.
RecoverMarkCancelled ==
    /\ admin.pc = "collected"
    /\ \/ NoEvent /\ CancelRun(admin.run)
       \/ Event /\ CancelFails(admin.run)
    /\ admin' = [admin EXCEPT !.pc = "marked"]
    /\ UNCHANGED <<row, memory, calls, overtaken, taken, released>>

RecoverReplace ==
    /\ admin.pc = "marked"
    /\ state' = Replaced(TheCopy(admin.enabled, admin.policy, NoRun))
    /\ admin' = [admin EXCEPT !.pc = "replaced"]
    /\ UNCHANGED <<database, up, calls, events, history>>

RecoverPersist ==
    /\ admin.pc = "replaced"
    /\ UpdateRuntime(NoRun, admin.run)
    /\ released' = released \cup ({admin.run} \cap Runs)
    /\ admin' = NoAdmin
    /\ UNCHANGED <<status, memory, calls, taken, unrecorded>>

Recover == RecoverMarkCancelled \/ RecoverReplace \/ RecoverPersist

---------------------------------------------------------------------------
(* UpdateTask, RetryRunDelivery and DeleteTask, one at a time; an error   *)
(* ends them.                                                              *)

UpdateRead ==
    /\ up
    /\ Event
    /\ admin.pc = "idle"
    /\ row.exists
    /\ \E enabled \in BOOLEAN, policy \in Policies :
        admin' = [pc |-> "read", run |-> NoRun, enabled |-> enabled, policy |-> policy]
    /\ UNCHANGED <<database, memory, calls, history>>

UpsertRow ==
    /\ row' = [row EXCEPT !.exists = TRUE, !.enabled = admin.enabled, !.policy = admin.policy]
    /\ allowed' = (allowed \/ admin.policy = "allow")

\* UpsertCronJob leaves the runtime columns alone and reads the row; when that
\* fails, the row has changed and the memory has not.
UpdateUpsert ==
    /\ admin.pc = "read"
    /\ \/ /\ NoEvent
          /\ UpsertRow
          /\ admin' = [admin EXCEPT !.pc = "upserted", !.run = row.run]
       \/ /\ Event
          /\ admin' = NoAdmin
          /\ UpsertRow \/ UNCHANGED <<row, allowed>>
    /\ UNCHANGED <<status, memory, calls, overtaken, displaced, released, unrecorded>>

\* ensureJobState, and the snapshot that is taken just after it.
UpdateEnsure ==
    /\ admin.pc = "upserted"
    /\ state' = Ensured(TheCopy(admin.enabled, admin.policy, admin.run))
    /\ admin' = [admin EXCEPT !.pc = "persisting", !.run = state'.run]
    /\ UNCHANGED <<database, up, calls, events, history>>

UpdatePersist ==
    /\ admin.pc = "persisting"
    /\ UpdateRuntime(admin.run, NoRun)
    /\ admin' = NoAdmin
    /\ UNCHANGED <<status, memory, calls, taken, released, unrecorded>>

\* RetryRunDelivery, manual or automatic: the task is read, the delivery is
\* tried, and updateJobLastDeliveryStatus goes on like an update.
RetryRunDelivery ==
    /\ up
    /\ Event
    /\ admin.pc = "idle"
    /\ row.exists
    /\ admin' = [pc |-> "upserted", run |-> row.run,
                 enabled |-> row.enabled, policy |-> row.policy]
    /\ UNCHANGED <<database, memory, calls, history>>

\* DeleteTask reads the task and interrupts its run; the interrupt may fail.
DeleteRead ==
    /\ up
    /\ Event
    /\ admin.pc = "idle"
    /\ row.exists
    /\ admin' = [NoAdmin EXCEPT !.pc = "deleting", !.run = row.run]
    /\ UNCHANGED <<database, memory, calls, history>>

\* cancelDeletedTaskActiveRun
DeleteCancelRun ==
    /\ admin.pc = "deleting"
    /\ \/ /\ NoEvent
          /\ CancelRun(admin.run)
          /\ admin' = [admin EXCEPT !.pc = "cancelled"]
       \/ /\ Event
          /\ admin' = NoAdmin
          /\ UNCHANGED <<status, unrecorded>>
    /\ UNCHANGED <<row, memory, calls, overtaken, taken, released>>

\* DeleteCronJob, after the failed deliveries were given up.
DeleteRow ==
    /\ admin.pc = "cancelled"
    /\ \/ /\ NoEvent
          /\ row' = [exists |-> FALSE, enabled |-> FALSE, policy |-> "skip", run |-> NoRun]
          /\ overtaken' = overtaken \cup (Claimant \ {admin.run})
          /\ released' = released \cup ({admin.run} \cap Runs)
          /\ admin' = [admin EXCEPT !.pc = "deleted"]
       \/ /\ Event
          /\ admin' = NoAdmin
          /\ UNCHANGED <<row, overtaken, released>>
    /\ UNCHANGED <<status, memory, calls, taken, unrecorded>>

\* The sessions are cleaned up, and the entry is deleted unless that failed.
DeleteState ==
    /\ admin.pc = "deleted"
    /\ \/ NoEvent /\ state' = NoState
       \/ Event /\ UNCHANGED state
    /\ admin' = NoAdmin
    /\ UNCHANGED <<database, up, calls, history>>

Edit ==
    \/ UpdateRead \/ UpdateUpsert \/ UpdateEnsure \/ UpdatePersist
    \/ RetryRunDelivery
    \/ DeleteRead \/ DeleteCancelRun \/ DeleteRow \/ DeleteState

---------------------------------------------------------------------------
(* The server stops without notice and starts again. *)

Crash ==
    /\ up
    /\ Event
    /\ up' = FALSE
    /\ state' = NoState
    /\ pc' = [r \in Runs |-> IF pc[r] = "idle" THEN "idle" ELSE "done"]
    /\ copy' = [r \in Runs |-> NoCopy]
    /\ admin' = NoAdmin
    /\ UNCHANGED <<database, trigger, history>>

\* Fault: the runs that were interrupted are left as they were.
FaultBootstrapRuntime ==
    /\ ~up
    /\ up' = TRUE
    /\ state' = IF row.exists
                THEN Ensured(TheCopy(row.enabled, row.policy, NoRun))
                ELSE state
    /\ WriteRuntime(NoRun, row.run)
    /\ UNCHANGED <<status, calls, admin, events, taken, released, unrecorded>>

\* bootstrapRuntime, before the loop and the handlers run.  Its writes may
\* fail, which is logged.
BootstrapRuntime ==
    /\ ~up
    /\ up' = TRUE
    /\ \/ NoEvent /\ CancelRun(row.run) /\ WriteRuntime(NoRun, row.run)
       \/ Event /\ CancelFails(row.run) /\ WriteRuntime(NoRun, row.run)
       \/ /\ Event
          /\ CancelRun(row.run) \/ CancelFails(row.run)
          /\ UNCHANGED <<row, overtaken>>
    /\ state' = IF row.exists
                THEN Ensured(TheCopy(row.enabled, row.policy, NoRun))
                ELSE state
    /\ UNCHANGED <<calls, admin, taken, released>>

---------------------------------------------------------------------------

Next ==
    \/ \E r \in Runs : Call(r)
    \/ RecoverStaleRunningJobs \/ RecoverTaskRunningRun \/ Recover
    \/ Edit
    \/ Crash \/ BootstrapRuntime

\* Goroutines go on, the loop ticks and a run that does not end becomes stale,
\* and a stopped server is started again.
Fairness ==
    /\ \A r \in Runs : WF_vars(pc[r] # "idle" /\ Call(r))
    /\ WF_vars(RecoverStaleRunningJobs)
    /\ WF_vars(admin.pc # "idle" /\ (Recover \/ Edit))
    /\ WF_vars(BootstrapRuntime)

Spec == Init /\ [][Next]_vars /\ Fairness

---------------------------------------------------------------------------
(* Properties *)

\* Two runs of the task are at work at the same time only when the claim of one
\* of them was removed from the row by a recovery or the deletion of the task that
\* closed it, or by a write that was late, or gave way to a call whose copy of the
\* task said overlap_policy=allow.  A task that has never said so is never
\* displaced, whatever copies of it are about; one that is changed to "skip" still
\* is, by calls that read it before.
SkipIsExclusive ==
    /\ \A r1, r2 \in Runs :
          pc[r1] \in Working /\ pc[r2] \in Working /\ r1 # r2
              => {r1, r2} \cap (overtaken \cup released \cup displaced) # {}
    /\ displaced # {} => allowed

\* A run whose row says pending or running has a goroutine that will close it
\* or is named by the task's row, where the next start or recovery finds it,
\* unless a write failed or came late or another run displaced it.
NoRunForgotten ==
    \A r \in Runs :
        status[r] \in Active =>
            pc[r] \in Working \/ row.run = r \/ r \in overtaken \cup displaced \cup unrecorded

\* The end of a run that a recovery, a restart or the deletion recorded stays,
\* whatever its own goroutine reports later; only a run that had not been
\* dispatched yet may record something else.
FinalStatusKept ==
    [][\A r \in Runs :
          status[r] \in Final /\ status'[r] # status[r]
              => pc[r] \in {"starting", "dispatching"}]_vars

\* Every run is closed, in spite of restarts and failed writes of its end, unless
\* its claim was removed by a late write, another run displaced it or its last write
\* failed.
RunsEnd ==
    \A r \in Runs :
        status[r] \in Active
            ~> status[r] \notin Active \/ r \in overtaken \cup displaced \cup unrecorded

\* The memory does not say for ever that the task is running, which would skip or
\* hold back every start under "skip": not when a refused call enters a run that has
\* ended since it read the row, nor when counts and recoveries of several runs mix.
TaskIsFreed == []<>(up /\ ~Running)

=============================================================================
