------------------------ MODULE AutomationJobs_proofs ------------------------
(***************************************************************************)
(* Theorems about AutomationJobs for any set of runs and any number of     *)
(* stops, failures and requests.                                           *)
(***************************************************************************)
EXTENDS AutomationJobs, TLAPS

USE RunsAssumption, MaxEventsAssumption

---------------------------------------------------------------------------
(* Types *)

Rows == [exists: BOOLEAN, enabled: BOOLEAN, policy: Policies, run: RunOrNone]
AdminStates == [pc: AdminPCs, run: RunOrNone, enabled: BOOLEAN, policy: Policies]

LEMMA EventType == ASSUME TypeOK, Event \/ NoEvent PROVE events' \in 0 .. MaxEvents
  BY DEF TypeOK, Event, NoEvent

LEMMA HoldType ==
    ASSUME TypeOK, NEW r \in Runs, NEW label \in PCs, NEW job \in JobCopies, Hold(r, label, job)
    PROVE  pc' \in [Runs -> PCs] /\ copy' \in [Runs -> JobCopies]
  BY DEF TypeOK, Hold

LEMMA CopyTypes ==
    /\ NoCopy \in JobCopies
    /\ \A run \in RunOrNone : Snapshot(run) \in JobCopies
    /\ TypeOK => RowCopy \in JobCopies
  BY DEF NoCopy, JobCopies, RunOrNone, Snapshot, TypeOK, RowCopy, TheCopy, Policies

LEMMA GotoType ==
    ASSUME TypeOK, NEW r \in Runs, NEW label \in PCs, Goto(r, label)
    PROVE  pc' \in [Runs -> PCs] /\ copy' \in [Runs -> JobCopies]
  BY CopyTypes, HoldType DEF Goto

LEMMA StateTypes ==
    ASSUME TypeOK, NEW job \in JobCopies
    PROVE  /\ Ensured(job) \in [present: BOOLEAN, job: JobCopies, count: Nat, run: RunOrNone]
           /\ Replaced(job) \in [present: BOOLEAN, job: JobCopies, count: Nat, run: RunOrNone]
<1>1. job.run \in RunOrNone
  BY DEF JobCopies
<1>2. CASE state.present
  BY <1>1, <1>2 DEF TypeOK, Ensured, Replaced
<1>3. CASE ~state.present
  BY <1>1, <1>3 DEF TypeOK, Ensured, Replaced
<1>4. QED
  BY <1>2, <1>3

LEMMA WriteType ==
    ASSUME TypeOK, NEW run \in RunOrNone, NEW keep, WriteRuntime(run, keep)
    PROVE  /\ row' \in Rows
           /\ overtaken' \subseteq Runs
  BY DEF TypeOK, WriteRuntime, Claimant, Rows

LEMMA UpdateType ==
    ASSUME TypeOK, NEW run \in RunOrNone, NEW keep, UpdateRuntime(run, keep)
    PROVE  /\ row' \in Rows
           /\ overtaken' \subseteq Runs
           /\ events' \in 0 .. MaxEvents
<1>1. events' \in 0 .. MaxEvents
  BY EventType DEF UpdateRuntime
<1>2. CASE WriteRuntime(run, keep)
  BY <1>1, <1>2, WriteType
<1>3. CASE UNCHANGED <<row, overtaken>>
  BY <1>1, <1>3 DEF TypeOK, Rows
<1>4. QED
  BY <1>2, <1>3 DEF UpdateRuntime

LEMMA FinishType ==
    ASSUME TypeOK, NEW run, NEW final \in Final, FinishIfActive(run, final)
    PROVE  status' \in [Runs -> {"none"} \cup Active \cup Final]
  BY DEF TypeOK, FinishIfActive

LEMMA CancelType ==
    ASSUME TypeOK, NEW run, CancelRun(run) \/ CancelFails(run)
    PROVE  /\ status' \in [Runs -> {"none"} \cup Active \cup Final]
           /\ unrecorded' \subseteq Runs
<1>1. CASE CancelRun(run)
  <2>1. "cancelled" \in Final
    BY DEF Final
  <2>2. QED
    BY <1>1, <2>1, FinishType DEF CancelRun, TypeOK
<1>2. CASE CancelFails(run)
  BY <1>2 DEF CancelFails, TypeOK
<1>3. QED
  BY <1>1, <1>2

\* A call of startJobExecution keeps the types.
LEMMA TypeCall ==
    ASSUME TypeOK, NEW r \in Runs, Call(r) PROVE TypeOK'
<1> USE DEF database, memory, calls, taken, history, PCs, Working, Rows
<1>c. copy[r] \in JobCopies /\ copy[r].run \in RunOrNone /\ state.run \in RunOrNone /\ state.job \in JobCopies
  BY DEF TypeOK, JobCopies
<1>1. CASE CollectDue(r)
  <2>1. pc' \in [Runs -> PCs] /\ copy' \in [Runs -> JobCopies]
    BY <1>1, <1>c, HoldType DEF CollectDue
  <2>2. QED
    BY <1>1, <2>1 DEF CollectDue, TypeOK
<1>2. CASE RunTaskNow(r)
  <2>1. pc' \in [Runs -> PCs] /\ copy' \in [Runs -> JobCopies]
    BY <1>2, CopyTypes, HoldType DEF RunTaskNow
  <2>2. QED
    BY <1>2, <2>1 DEF RunTaskNow, TypeOK
<1>3. CASE EnsureJobState(r)
  <2>1. pc' \in [Runs -> PCs] /\ copy' \in [Runs -> JobCopies]
    BY <1>3, <1>c, HoldType DEF EnsureJobState
  <2>2. QED
    BY <1>3, <1>c, <2>1, StateTypes DEF EnsureJobState, TypeOK
<1>4. CASE CheckOverlap(r)
  <2>1. pc' \in [Runs -> PCs] /\ copy' \in [Runs -> JobCopies]
    BY <1>4, <1>c, HoldType, GotoType DEF CheckOverlap
  <2>2. QED
    BY <1>4, <2>1 DEF CheckOverlap, TypeOK
<1>5. CASE RecordSkippedOverlap(r)
  <2>1. pc' \in [Runs -> PCs] /\ copy' \in [Runs -> JobCopies]
    BY <1>5, GotoType DEF RecordSkippedOverlap
  <2>2. events' \in 0 .. MaxEvents
    BY <1>5, EventType DEF RecordSkippedOverlap
  <2>3. QED
    BY <1>5, <2>1, <2>2 DEF RecordSkippedOverlap, Forget, Final, TypeOK
<1>6. CASE AdvanceJobRuntime(r)
  <2>1. pc' \in [Runs -> PCs] /\ copy' \in [Runs -> JobCopies]
    BY <1>6, <1>c, CopyTypes, HoldType, GotoType DEF AdvanceJobRuntime
  <2>2. QED
    BY <1>6, <2>1 DEF AdvanceJobRuntime, TypeOK
<1>7. CASE ClaimCronJobRuntime(r)
  <2>1. pc' \in [Runs -> PCs] /\ copy' \in [Runs -> JobCopies]
    BY <1>7, <1>c, HoldType, GotoType DEF ClaimCronJobRuntime
  <2>2. events' \in 0 .. MaxEvents
    BY <1>7, EventType DEF ClaimCronJobRuntime
  <2>3. displaced' \subseteq Runs
    BY <1>7 DEF ClaimCronJobRuntime, Claimant, TypeOK
  <2>4. QED
    BY <1>7, <2>1, <2>2, <2>3 DEF ClaimCronJobRuntime, Forget, RunOrNone, TypeOK
<1>8. CASE ReadClaimedJob(r)
  <2>1. pc' \in [Runs -> PCs] /\ copy' \in [Runs -> JobCopies]
    BY <1>8, CopyTypes, HoldType, GotoType DEF ReadClaimedJob
  <2>2. events' \in 0 .. MaxEvents
    BY <1>8, EventType DEF ReadClaimedJob
  <2>3. QED
    BY <1>8, <2>1, <2>2 DEF ReadClaimedJob, TypeOK
<1>9. CASE ReplaceByClaimedJob(r)
  <2>1. pc' \in [Runs -> PCs] /\ copy' \in [Runs -> JobCopies]
    BY <1>9, <1>c, CopyTypes, HoldType DEF ReplaceByClaimedJob
  <2>2. QED
    BY <1>9, <1>c, <2>1, StateTypes DEF ReplaceByClaimedJob, TypeOK
<1>10. CASE CountRun(r)
  <2>1. pc' \in [Runs -> PCs] /\ copy' \in [Runs -> JobCopies]
    BY <1>10, GotoType DEF CountRun
  <2>2. state' \in [present: BOOLEAN, job: JobCopies, count: Nat, run: RunOrNone]
    <3>1. (IF state.present THEN state.job ELSE copy[r]) \in JobCopies
      BY <1>c
    <3>2. state.count + 1 \in Nat /\ r \in RunOrNone
      BY DEF TypeOK, RunOrNone
    <3>3. QED
      BY <1>10, <3>1, <3>2 DEF CountRun
  <2>3. QED
    BY <1>10, <2>1, <2>2 DEF CountRun, TypeOK
<1>11. CASE InsertRunPending(r)
  <2>1. pc' \in [Runs -> PCs] /\ copy' \in [Runs -> JobCopies]
    BY <1>11, GotoType DEF InsertRunPending
  <2>2. events' \in 0 .. MaxEvents
    BY <1>11, EventType DEF InsertRunPending
  <2>3. QED
    BY <1>11, <2>1, <2>2 DEF InsertRunPending, Active, TypeOK
<1>12. CASE MarkRunRunning(r)
  <2>1. pc' \in [Runs -> PCs] /\ copy' \in [Runs -> JobCopies]
    BY <1>12, GotoType DEF MarkRunRunning
  <2>2. events' \in 0 .. MaxEvents
    BY <1>12, EventType DEF MarkRunRunning
  <2>3. QED
    BY <1>12, <2>1, <2>2 DEF MarkRunRunning, Active, TypeOK
<1>13. CASE DispatchJob(r)
  <2>1. pc' \in [Runs -> PCs] /\ copy' \in [Runs -> JobCopies]
    BY <1>13, GotoType DEF DispatchJob
  <2>2. events' \in 0 .. MaxEvents
    BY <1>13, EventType DEF DispatchJob
  <2>3. QED
    BY <1>13, <2>1, <2>2 DEF DispatchJob, Final, TypeOK
<1>14. CASE CloseRun(r)
  <2>1. pc' \in [Runs -> PCs] /\ copy' \in [Runs -> JobCopies]
    BY <1>14, GotoType DEF CloseRun
  <2>2. events' \in 0 .. MaxEvents
    BY <1>14, EventType DEF CloseRun
  <2>3. status' \in [Runs -> {"none"} \cup Active \cup Final]
    <3>1. CASE UNCHANGED status
      BY <3>1 DEF TypeOK
    <3>2. ASSUME NEW final \in {"succeeded", "cancelled"}, FinishIfActive(r, final)
          PROVE  status' \in [Runs -> {"none"} \cup Active \cup Final]
      BY <3>2, FinishType DEF Final
    <3>3. QED
      BY <1>14, <3>1, <3>2 DEF CloseRun
  <2>4. QED
    BY <1>14, <2>1, <2>2, <2>3 DEF CloseRun, TypeOK
<1>15. CASE FinishJobRuntime(r)
  <2>1. CASE state.present
    <3> DEFINE count == IF state.count > 0 THEN state.count - 1 ELSE 0
               run == IF count > 0 THEN state.run ELSE NoRun
    <3>1. count \in Nat /\ run \in RunOrNone
      BY <1>c DEF TypeOK, RunOrNone
    <3>2. state' = [state EXCEPT !.count = count, !.run = run] /\ Hold(r, "persisting", Snapshot(run))
      BY <1>15, <2>1 DEF FinishJobRuntime
    <3> HIDE DEF count, run
    <3>3. pc' \in [Runs -> PCs] /\ copy' \in [Runs -> JobCopies]
      BY <3>1, <3>2, CopyTypes, HoldType
    <3>4. QED
      BY <1>15, <3>1, <3>2, <3>3 DEF FinishJobRuntime, TypeOK
  <2>2. CASE ~state.present
    <3>1. pc' \in [Runs -> PCs] /\ copy' \in [Runs -> JobCopies]
      BY <1>15, <2>2, GotoType DEF FinishJobRuntime
    <3>2. QED
      BY <1>15, <2>2, <3>1 DEF FinishJobRuntime, TypeOK
  <2>3. QED
    BY <2>1, <2>2
<1>16. CASE PersistJobRuntime(r)
  <2>1. pc' \in [Runs -> PCs] /\ copy' \in [Runs -> JobCopies]
    BY <1>16, GotoType DEF PersistJobRuntime
  <2>2. QED
    BY <1>16, <1>c, <2>1, UpdateType DEF PersistJobRuntime, TypeOK
<1>17. QED
  BY <1>1, <1>2, <1>3, <1>4, <1>5, <1>6, <1>7, <1>8, <1>9, <1>10, <1>11, <1>12, <1>13, <1>14, <1>15, <1>16 DEF Call

\* Recovery, edits and restarts keep the types.
LEMMA TypeOther ==
    ASSUME TypeOK,
           \/ RecoverStaleRunningJobs \/ RecoverTaskRunningRun \/ Recover
           \/ Edit \/ Crash \/ BootstrapRuntime
    PROVE  TypeOK'
<1> USE DEF database, memory, calls, taken, history, AdminPCs, AdminStates, Rows
<1>a. /\ admin.run \in RunOrNone /\ admin.enabled \in BOOLEAN /\ admin.policy \in Policies
      /\ state.run \in RunOrNone
      /\ state.job.enabled \in BOOLEAN /\ state.job.policy \in Policies
      /\ row.run \in RunOrNone /\ row.enabled \in BOOLEAN /\ row.policy \in Policies
      /\ NoRun \in RunOrNone
  BY DEF TypeOK, JobCopies, RunOrNone
<1>n. NoAdmin \in AdminStates
  BY DEF NoAdmin, RunOrNone, Policies
<1>j. \A on \in BOOLEAN, policy \in Policies, run \in RunOrNone :
          LET job == TheCopy(on, policy, run)
          IN  /\ Ensured(job) \in [present: BOOLEAN, job: JobCopies, count: Nat, run: RunOrNone]
              /\ Replaced(job) \in [present: BOOLEAN, job: JobCopies, count: Nat, run: RunOrNone]
  BY StateTypes DEF JobCopies, TheCopy
<1>s. NoState \in [present: BOOLEAN, job: JobCopies, count: Nat, run: RunOrNone]
  BY CopyTypes DEF NoState, RunOrNone
<1>1. CASE RecoverStaleRunningJobs
  <2>1. events' \in 0 .. MaxEvents
    BY <1>1, EventType DEF RecoverStaleRunningJobs
  <2>2. admin' \in AdminStates
    BY <1>1, <1>a DEF RecoverStaleRunningJobs
  <2>3. QED
    BY <1>1, <2>1, <2>2 DEF RecoverStaleRunningJobs, TypeOK
<1>2. CASE RecoverTaskRunningRun
  <2>1. events' \in 0 .. MaxEvents
    BY <1>2, EventType DEF RecoverTaskRunningRun
  <2>2. state' \in [present: BOOLEAN, job: JobCopies, count: Nat, run: RunOrNone]
    BY <1>2, CopyTypes, StateTypes DEF RecoverTaskRunningRun
  <2>3. QED
    BY <1>2, <1>a, <2>1, <2>2 DEF RecoverTaskRunningRun, TypeOK
<1>3. CASE RecoverMarkCancelled
  <2>1. events' \in 0 .. MaxEvents
    BY <1>3, EventType DEF RecoverMarkCancelled
  <2>2. QED
    BY <1>3, <2>1, CancelType DEF RecoverMarkCancelled, TypeOK
<1>4. CASE RecoverReplace
  BY <1>4, <1>a, <1>j DEF RecoverReplace, TypeOK
<1>5. CASE RecoverPersist
  BY <1>5, <1>a, <1>n, UpdateType DEF RecoverPersist, TypeOK
<1>6. CASE UpdateRead
  <2>1. events' \in 0 .. MaxEvents
    BY <1>6, EventType DEF UpdateRead
  <2>2. QED
    BY <1>6, <1>a, <2>1 DEF UpdateRead, TypeOK
<1>7. CASE UpdateUpsert
  <2>1. events' \in 0 .. MaxEvents
    BY <1>7, EventType DEF UpdateUpsert
  <2>2. QED
    BY <1>7, <1>a, <1>n, <2>1 DEF UpdateUpsert, UpsertRow, TypeOK
<1>8. CASE UpdateEnsure
  <2>1. state' \in [present: BOOLEAN, job: JobCopies, count: Nat, run: RunOrNone]
    BY <1>8, <1>a, <1>j DEF UpdateEnsure
  <2>2. QED
    BY <1>8, <2>1 DEF UpdateEnsure, TypeOK
<1>9. CASE UpdatePersist
  BY <1>9, <1>a, <1>n, UpdateType DEF UpdatePersist, TypeOK
<1>10. CASE DeleteRead
  <2>1. events' \in 0 .. MaxEvents
    BY <1>10, EventType DEF DeleteRead
  <2>2. admin' \in AdminStates
    BY <1>10, <1>a, <1>n DEF DeleteRead
  <2>3. QED
    BY <1>10, <2>1, <2>2 DEF DeleteRead, TypeOK
<1>11. CASE DeleteCancelRun
  <2>1. events' \in 0 .. MaxEvents
    BY <1>11, EventType DEF DeleteCancelRun
  <2>2. status' \in [Runs -> {"none"} \cup Active \cup Final] /\ unrecorded' \subseteq Runs
    BY <1>11, CancelType DEF DeleteCancelRun, TypeOK
  <2>3. QED
    BY <1>11, <1>n, <2>1, <2>2 DEF DeleteCancelRun, TypeOK
<1>12. CASE DeleteRow
  <2>1. events' \in 0 .. MaxEvents
    BY <1>12, EventType DEF DeleteRow
  <2>2. overtaken' \subseteq Runs /\ released' \subseteq Runs
    <3>1. Claimant \subseteq Runs
      BY DEF Claimant
    <3>2. overtaken' \subseteq overtaken \cup Claimant /\ released' \subseteq released \cup Runs
      BY <1>12 DEF DeleteRow
    <3>3. QED
      BY <3>1, <3>2 DEF TypeOK
  <2>3. row' \in Rows
    <3>1. [exists |-> FALSE, enabled |-> FALSE, policy |-> "skip", run |-> NoRun]
              \in Rows
      BY <1>a DEF Policies
    <3>2. \/ row' = [exists |-> FALSE, enabled |-> FALSE, policy |-> "skip", run |-> NoRun]
          \/ row' = row
      BY <1>12 DEF DeleteRow
    <3>3. QED
      BY <3>1, <3>2 DEF TypeOK
  <2>4. admin' \in AdminStates
    BY <1>12, <1>n DEF DeleteRow, TypeOK
  <2>5. QED
    BY <1>12, <2>1, <2>2, <2>3, <2>4 DEF DeleteRow, TypeOK
<1>13. CASE DeleteState
  <2>1. events' \in 0 .. MaxEvents
    BY <1>13, EventType DEF DeleteState
  <2>2. QED
    BY <1>13, <1>n, <1>s, <2>1 DEF DeleteState, TypeOK
<1>14. CASE Crash
  <2>1. events' \in 0 .. MaxEvents
    BY <1>14, EventType DEF Crash
  <2>2. QED
    BY <1>14, <1>n, <1>s, <2>1, CopyTypes DEF Crash, PCs, TypeOK
<1>15. CASE BootstrapRuntime
  <2>1. events' \in 0 .. MaxEvents
    BY <1>15, EventType DEF BootstrapRuntime
  <2>2. row' \in Rows /\ overtaken' \subseteq Runs
    BY <1>15, <1>a, WriteType DEF BootstrapRuntime, TypeOK
  <2>3. status' \in [Runs -> {"none"} \cup Active \cup Final] /\ unrecorded' \subseteq Runs
    BY <1>15, CancelType DEF BootstrapRuntime
  <2>4. state' \in [present: BOOLEAN, job: JobCopies, count: Nat, run: RunOrNone]
    BY <1>15, <1>a, <1>j DEF BootstrapRuntime, TypeOK
  <2>5. QED
    BY <1>15, <2>1, <2>2, <2>3, <2>4 DEF BootstrapRuntime, TypeOK
<1>16. CASE RetryRunDelivery
  <2>1. events' \in 0 .. MaxEvents
    BY <1>16, EventType DEF RetryRunDelivery
  <2>2. QED
    BY <1>16, <1>a, <2>1 DEF RetryRunDelivery, TypeOK
<1>17. QED
  BY <1>1, <1>2, <1>3, <1>4, <1>5, <1>6, <1>7, <1>8, <1>9, <1>10, <1>11, <1>12, <1>13, <1>14, <1>15, <1>16 DEF Recover, Edit

LEMMA TypeInit == Init => TypeOK
  BY DEF Init, TypeOK, NoCopy, NoAdmin, AdminPCs, JobCopies, RunOrNone, PCs, Active, Final,
         RowCopy, TheCopy, Policies

LEMMA TypeNext == TypeOK /\ [Next]_vars => TypeOK'
<1>1. ASSUME TypeOK, UNCHANGED vars PROVE TypeOK'
  BY <1>1 DEF TypeOK, vars, database, memory, calls, taken, history
<1>2. QED
  BY <1>1, TypeCall, TypeOther DEF Next

\* The types of the scheduler's state hold; the count of running calls never
\* goes below zero.
THEOREM TypeCorrect == Spec => []TypeOK
  BY TypeInit, TypeNext, PTL DEF Spec

---------------------------------------------------------------------------
(* Claims *)

\* What the safety properties rest on.  A server that is down runs no call; a
\* call that is not past InsertRunPending has no row for its run; a call that
\* is at work holds the claim of the row, or the claim was taken from it; and a
\* run whose claim a recovery or a deletion removes, or is about to remove, is
\* closed or known not to be.
DownIsIdle == ~up => \A r \in Runs : pc[r] \in {"idle", "done"}

Fresh == {"idle", "entered", "ensured", "skipping", "claiming", "claimed", "recording"}
NotStarted == \A r \in Runs : pc[r] \in Fresh => status[r] = "none"

HoldsClaim ==
    \A r \in Runs : pc[r] \in Working =>
        row.run = r \/ r \in overtaken \cup released \cup displaced

Settled(r) == status[r] \in Final \/ r \in unrecorded
ReleasedIsSettled ==
    \A r \in Runs :
        \/ r \in released
        \/ admin.pc \in {"marked", "replaced", "cancelled"} /\ admin.run = r
        => Settled(r)

Inv == DownIsIdle /\ NotStarted /\ HoldsClaim /\ ReleasedIsSettled /\ NoRunForgotten

\* The row changes its run only at the expense of history.
LEMMA WriteClaim ==
    ASSUME TypeOK, NEW run, NEW keep, UpdateRuntime(run, keep) \/ WriteRuntime(run, keep)
    PROVE  /\ overtaken \subseteq overtaken'
           /\ \A r \in Claimant : row'.run = r \/ r \in overtaken' \/ r = keep
<1>1. CASE WriteRuntime(run, keep)
  <2>1. CASE row.exists
    <3>1. row' = [row EXCEPT !.run = run] /\ overtaken' = overtaken \cup (Claimant \ {run, keep})
      BY <1>1, <2>1 DEF WriteRuntime
    <3>2. row'.run = run
      BY <3>1 DEF TypeOK
    <3>3. QED
      BY <3>1, <3>2
  <2>2. CASE ~row.exists
    BY <1>1, <2>2 DEF WriteRuntime, Claimant
  <2>3. QED
    BY <2>1, <2>2
<1>2. CASE UNCHANGED <<row, overtaken>>
  BY <1>2 DEF Claimant
<1>3. QED
  BY <1>1, <1>2 DEF UpdateRuntime

\* A run that is cancelled by somebody else is settled after it.
Settles(run) ==
    /\ \A r \in Runs :
          /\ Settled(r) \/ r = run => Settled(r)'
          /\ status'[r] \in Active => status[r] \in Active
          /\ status[r] = "none" => status'[r] = "none"
    /\ unrecorded \subseteq unrecorded'

LEMMA CancelSettles ==
    ASSUME TypeOK, NEW run, CancelRun(run) \/ CancelFails(run) PROVE Settles(run)
<1> USE DEF Settles, Settled, Active, Final, TypeOK
<1>1. CASE CancelRun(run)
  BY <1>1 DEF CancelRun, FinishIfActive
<1>2. CASE CancelFails(run)
  BY <1>2 DEF CancelFails
<1>3. QED
  BY <1>1, <1>2

\* A call of startJobExecution keeps the invariant.
LEMMA InvCall ==
    ASSUME TypeOK, Inv, NEW r \in Runs, Call(r) PROVE Inv'
<1> USE DEF database, memory, calls, taken, history, Hold, Goto, TypeOK, Inv, DownIsIdle, NotStarted,
            HoldsClaim, ReleasedIsSettled, NoRunForgotten, Settled, Fresh, Working, Active, Final
<1>1. CASE CollectDue(r)
  BY <1>1 DEF CollectDue
<1>2. CASE RunTaskNow(r)
  BY <1>2 DEF RunTaskNow
<1>3. CASE EnsureJobState(r)
  BY <1>3 DEF EnsureJobState
<1>4. CASE CheckOverlap(r)
  BY <1>4 DEF CheckOverlap
<1>5. CASE RecordSkippedOverlap(r)
  BY <1>5 DEF RecordSkippedOverlap
<1>6. CASE AdvanceJobRuntime(r)
  BY <1>6 DEF AdvanceJobRuntime
<1>7. CASE ClaimCronJobRuntime(r)
  <2>1. row' = row \/ \A x \in Claimant : x \in displaced'
    <3>1. CASE row' = row
      BY <3>1
    <3>2. CASE /\ CanClaim(r)
               /\ displaced' = IF copy[r].policy = "allow"
                               THEN displaced \cup Claimant ELSE displaced
      BY <3>2 DEF CanClaim, Claimant, JobCopies, Policies
    <3>3. QED
      BY <1>7, <3>1, <3>2 DEF ClaimCronJobRuntime
  <2>2. displaced \subseteq displaced'
    BY <1>7 DEF ClaimCronJobRuntime
  <2>3. QED
    BY <1>7, <2>1, <2>2 DEF ClaimCronJobRuntime, Claimant
<1>8. CASE ReadClaimedJob(r)
  BY <1>8 DEF ReadClaimedJob
<1>9. CASE ReplaceByClaimedJob(r)
  BY <1>9 DEF ReplaceByClaimedJob
<1>10. CASE CountRun(r)
  BY <1>10 DEF CountRun
<1>11. CASE InsertRunPending(r)
  BY <1>11 DEF InsertRunPending
<1>12. CASE MarkRunRunning(r)
  BY <1>12 DEF MarkRunRunning
<1>13. CASE DispatchJob(r)
  BY <1>13 DEF DispatchJob
<1>14. CASE CloseRun(r)
  BY <1>14 DEF CloseRun, FinishIfActive
<1>15. CASE FinishJobRuntime(r)
  BY <1>15 DEF FinishJobRuntime
<1>16. CASE PersistJobRuntime(r)
  <2>1. /\ overtaken \subseteq overtaken'
        /\ \A x \in Claimant : row'.run = x \/ x \in overtaken' \/ x = NoRun
    BY <1>16, WriteClaim DEF PersistJobRuntime
  <2>2. QED
    BY <1>16, <2>1 DEF PersistJobRuntime, Claimant
<1>17. QED
  BY <1>1, <1>2, <1>3, <1>4, <1>5, <1>6, <1>7, <1>8, <1>9, <1>10, <1>11, <1>12, <1>13, <1>14, <1>15, <1>16 DEF Call

\* Recovery, edits and restarts keep the invariant.
LEMMA InvOther ==
    ASSUME TypeOK, Inv,
           \/ RecoverStaleRunningJobs \/ RecoverTaskRunningRun \/ Recover
           \/ Edit \/ Crash \/ BootstrapRuntime
    PROVE  Inv'
<1>c. \A run : CancelRun(run) \/ CancelFails(run) => Settles(run)
  BY CancelSettles
<1> USE DEF database, memory, calls, taken, history, TypeOK, Inv, DownIsIdle, NotStarted,
            HoldsClaim, ReleasedIsSettled, NoRunForgotten, Fresh, Working
<1>0. \A r \in Runs : pc[r] \in Working \/ status[r] \in Active => r \in Claimant \/ row.run # r
  BY DEF Claimant
<1>s. \A r \in Runs : Settled(r) => status[r] \notin Active \/ r \in unrecorded
  BY DEF Settled, Active, Final
<1>1. CASE RecoverStaleRunningJobs
  BY <1>1 DEF RecoverStaleRunningJobs, Settled
<1>2. CASE RecoverTaskRunningRun
  BY <1>2 DEF RecoverTaskRunningRun, Settled
<1>3. CASE RecoverMarkCancelled
  <2>1. Settles(admin.run)
    BY <1>3, <1>c DEF RecoverMarkCancelled
  <2>2. admin' = [admin EXCEPT !.pc = "marked"]
        /\ UNCHANGED <<row, up, pc, overtaken, taken, released>>
    BY <1>3 DEF RecoverMarkCancelled
  <2>3. QED
    BY <2>1, <2>2 DEF Settles
<1>4. CASE RecoverReplace
  BY <1>4 DEF RecoverReplace, Settled
<1>5. CASE RecoverPersist
  <2>1. /\ overtaken \subseteq overtaken'
        /\ \A x \in Claimant : row'.run = x \/ x \in overtaken' \/ x = admin.run
    BY <1>5, WriteClaim DEF RecoverPersist
  <2>2. admin.pc = "replaced" /\ admin'.pc = "idle" /\ released' = released \cup ({admin.run} \cap Runs)
        /\ UNCHANGED <<status, up, pc, taken, unrecorded>>
    BY <1>5 DEF RecoverPersist, NoAdmin
  <2>3. \A r \in Runs : Settled(r)' <=> Settled(r)
    BY <2>2 DEF Settled
  <2>4. QED
    BY <1>0, <1>s, <2>1, <2>2, <2>3
<1>6. CASE UpdateRead
  BY <1>6 DEF UpdateRead, Settled
<1>7. CASE UpdateUpsert
  <2>1. row'.run = row.run
    <3>1. \/ row' = row
          \/ row' = [row EXCEPT !.exists = TRUE, !.enabled = admin.enabled,
                                !.policy = admin.policy]
      BY <1>7 DEF UpdateUpsert, UpsertRow
    <3>2. row \in Rows
      BY DEF Rows
    <3>3. [row EXCEPT !.exists = TRUE, !.enabled = admin.enabled, !.policy = admin.policy].run
              = row.run
      BY <3>2 DEF Rows
    <3>4. QED
      BY <3>1, <3>3
  <2>2. admin'.pc \in {"upserted", "idle"}
    <3>1. admin' = NoAdmin \/ admin' = [admin EXCEPT !.pc = "upserted", !.run = row.run]
      BY <1>7 DEF UpdateUpsert
    <3>2. admin \in AdminStates
      BY DEF AdminStates
    <3>3. [admin EXCEPT !.pc = "upserted", !.run = row.run].pc = "upserted"
      BY <3>2 DEF AdminStates
    <3>4. NoAdmin.pc = "idle"
      BY DEF NoAdmin
    <3>5. QED
      BY <3>1, <3>3, <3>4, Zenon
  <2>3. UNCHANGED <<up, pc, status, overtaken, displaced, released, unrecorded>>
    BY <1>7 DEF UpdateUpsert
  <2>4. \A r \in Runs : Settled(r)' <=> Settled(r)
    BY <2>3 DEF Settled
  <2>5. QED
    BY <2>1, <2>2, <2>3, <2>4
<1>8. CASE UpdateEnsure
  BY <1>8 DEF UpdateEnsure, Settled
<1>9. CASE UpdatePersist
  <2>1. /\ overtaken \subseteq overtaken'
        /\ \A x \in Claimant : row'.run = x \/ x \in overtaken' \/ x = NoRun
    BY <1>9, WriteClaim DEF UpdatePersist
  <2>2. admin'.pc = "idle" /\ UNCHANGED <<status, up, pc, taken, released, unrecorded>>
    BY <1>9 DEF UpdatePersist, NoAdmin
  <2>3. \A r \in Runs : Settled(r)' <=> Settled(r)
    BY <2>2 DEF Settled
  <2>4. QED
    BY <1>0, <2>1, <2>2, <2>3
<1>10. CASE DeleteRead
  BY <1>10 DEF DeleteRead, Settled
<1>11. CASE DeleteCancelRun
  <2>1. CASE CancelRun(admin.run)
    <3>1. Settles(admin.run)
      BY <2>1, <1>c
    <3>2. admin'.run = admin.run \/ admin'.pc = "idle"
      BY <1>11 DEF DeleteCancelRun, NoAdmin
    <3>3. UNCHANGED <<row, up, pc, overtaken, taken, released>>
      BY <1>11 DEF DeleteCancelRun
    <3>4. QED
      BY <3>1, <3>2, <3>3 DEF Settles
  <2>2. CASE admin' = NoAdmin /\ UNCHANGED <<status, unrecorded>>
    BY <1>11, <2>2 DEF DeleteCancelRun, NoAdmin, Settled
  <2>3. QED
    BY <1>11, <2>1, <2>2 DEF DeleteCancelRun
<1>12. CASE DeleteRow
  <2>1. CASE UNCHANGED <<row, overtaken, released>>
    BY <1>12, <2>1 DEF DeleteRow, NoAdmin, Settled
  <2>2. CASE /\ overtaken' = overtaken \cup (Claimant \ {admin.run})
             /\ released' = released \cup ({admin.run} \cap Runs)
             /\ admin' = [admin EXCEPT !.pc = "deleted"]
    <3>1. admin.pc = "cancelled" /\ admin'.pc = "deleted" /\ UNCHANGED <<status, up, pc, taken, unrecorded>>
      BY <1>12, <2>2 DEF DeleteRow
    <3>2. \A r \in Runs : Settled(r)' <=> Settled(r)
      BY <3>1 DEF Settled
    <3>3. QED
      BY <1>0, <1>s, <2>2, <3>1, <3>2
  <2>3. QED
    BY <1>12, <2>1, <2>2 DEF DeleteRow
<1>13. CASE DeleteState
  BY <1>13 DEF DeleteState, NoAdmin, Settled
<1>14. CASE Crash
  <2>1. admin'.pc = "idle" /\ UNCHANGED <<row, status, overtaken, taken, released, unrecorded>>
        /\ pc' = [x \in Runs |-> IF pc[x] = "idle" THEN "idle" ELSE "done"]
    BY <1>14 DEF Crash, NoAdmin
  <2>2. \A r \in Runs : Settled(r)' <=> Settled(r)
    BY <2>1 DEF Settled
  <2>3. QED
    BY <1>s, <2>1, <2>2
<1>15. CASE BootstrapRuntime
  <2>1. CancelRun(row.run) \/ CancelFails(row.run)
    BY <1>15 DEF BootstrapRuntime
  <2>2. Settles(row.run)
    BY <2>1, <1>c
  <2>3. overtaken \subseteq overtaken'
    BY <1>15, WriteClaim DEF BootstrapRuntime
  <2>4. \A r \in Runs : Settled(r)' => status'[r] \notin Active \/ r \in unrecorded'
    BY DEF Settled, Active, Final
  <2>5. \A r \in Runs : pc[r] \notin Working
    BY <1>15 DEF BootstrapRuntime
  <2>6. up' /\ UNCHANGED <<pc, admin, taken, released>>
    BY <1>15 DEF BootstrapRuntime
  <2>7. QED
    BY <2>2, <2>3, <2>4, <2>5, <2>6 DEF Settles
<1>16. CASE RetryRunDelivery
  BY <1>16 DEF RetryRunDelivery, Settled
<1>17. QED
  BY <1>1, <1>2, <1>3, <1>4, <1>5, <1>6, <1>7, <1>8, <1>9, <1>10, <1>11, <1>12, <1>13, <1>14, <1>15, <1>16 DEF Recover, Edit

LEMMA InvInit == Init => Inv
  BY DEF Init, Inv, DownIsIdle, NotStarted, HoldsClaim, ReleasedIsSettled, NoRunForgotten,
         NoAdmin, Fresh, Working, Active

LEMMA InvNext == TypeOK /\ Inv /\ [Next]_vars => Inv'
<1>1. ASSUME Inv, UNCHANGED vars PROVE Inv'
  BY <1>1 DEF vars, database, memory, calls, taken, history, Inv, DownIsIdle, NotStarted, HoldsClaim,
              ReleasedIsSettled, NoRunForgotten, Settled
<1>2. QED
  BY <1>1, InvCall, InvOther DEF Next

---------------------------------------------------------------------------
(* Policies *)

\* Whoever acts by overlap_policy=allow has it from the task's row, which has
\* said so: the row itself, the memory, the copies of the calls, and a recovery
\* or an edit, once the edit is in the row.
Known ==
    /\ row.policy = "allow" => allowed
    /\ state.job.policy = "allow" => allowed
    /\ \A r \in Runs : copy[r].policy = "allow" => allowed
    /\ admin.pc # "read" /\ admin.policy = "allow" => allowed
    /\ displaced # {} => allowed

LEMMA PoliciesOfCopies ==
    ASSUME TypeOK
    PROVE  /\ NoCopy.policy = "skip" /\ NoState.job.policy = "skip"
           /\ NoAdmin.policy = "skip" /\ NoAdmin.pc = "idle"
           /\ \A run : Snapshot(run).policy = "skip"
           /\ RowCopy.policy = row.policy
           /\ \A on, policy, run : TheCopy(on, policy, run).policy = policy
           /\ \A job : Ensured(job).job = job /\ Replaced(job).job = job
  BY DEF NoCopy, NoState, NoAdmin, Snapshot, RowCopy, TheCopy, Ensured, Replaced, TypeOK

LEMMA KnownCall ==
    ASSUME TypeOK, Known, NEW r \in Runs, Call(r) PROVE Known'
<1> USE PoliciesOfCopies
<1> USE DEF database, memory, calls, taken, history, Hold, Goto, TypeOK, Known
<1>1. CASE CollectDue(r)
  BY <1>1 DEF CollectDue
<1>2. CASE RunTaskNow(r)
  BY <1>2 DEF RunTaskNow
<1>3. CASE EnsureJobState(r)
  BY <1>3 DEF EnsureJobState
<1>4. CASE CheckOverlap(r)
  BY <1>4 DEF CheckOverlap
<1>5. CASE RecordSkippedOverlap(r)
  BY <1>5 DEF RecordSkippedOverlap
<1>6. CASE AdvanceJobRuntime(r)
  BY <1>6 DEF AdvanceJobRuntime
<1>7. CASE ClaimCronJobRuntime(r)
  BY <1>7 DEF ClaimCronJobRuntime
<1>8. CASE ReadClaimedJob(r)
  BY <1>8 DEF ReadClaimedJob
<1>9. CASE ReplaceByClaimedJob(r)
  BY <1>9 DEF ReplaceByClaimedJob
<1>10. CASE CountRun(r)
  BY <1>10 DEF CountRun
<1>11. CASE InsertRunPending(r)
  BY <1>11 DEF InsertRunPending
<1>12. CASE MarkRunRunning(r)
  BY <1>12 DEF MarkRunRunning
<1>13. CASE DispatchJob(r)
  BY <1>13 DEF DispatchJob
<1>14. CASE CloseRun(r)
  BY <1>14 DEF CloseRun
<1>15. CASE FinishJobRuntime(r)
  <2>1. state'.job = state.job
    BY <1>15 DEF FinishJobRuntime
  <2>2. UNCHANGED <<row, admin, displaced, allowed>>
    BY <1>15 DEF FinishJobRuntime
  <2>3. \A x \in Runs : copy'[x].policy = "allow" => copy[x].policy = "allow"
    BY <1>15 DEF FinishJobRuntime
  <2>4. QED
    BY <2>1, <2>2, <2>3
<1>16. CASE PersistJobRuntime(r)
  BY <1>16 DEF PersistJobRuntime, UpdateRuntime, WriteRuntime
<1>17. QED
  BY <1>1, <1>2, <1>3, <1>4, <1>5, <1>6, <1>7, <1>8, <1>9, <1>10, <1>11, <1>12, <1>13, <1>14, <1>15, <1>16 DEF Call

LEMMA KnownOther ==
    ASSUME TypeOK, Known,
           \/ RecoverStaleRunningJobs \/ RecoverTaskRunningRun \/ Recover
           \/ Edit \/ Crash \/ BootstrapRuntime
    PROVE  Known'
<1> USE PoliciesOfCopies
<1> USE DEF database, memory, calls, taken, history, TypeOK, Known, UpdateRuntime, WriteRuntime
<1>1. CASE RecoverStaleRunningJobs
  BY <1>1 DEF RecoverStaleRunningJobs
<1>2. CASE RecoverTaskRunningRun
  BY <1>2 DEF RecoverTaskRunningRun
<1>3. CASE RecoverMarkCancelled
  BY <1>3 DEF RecoverMarkCancelled
<1>4. CASE RecoverReplace
  BY <1>4 DEF RecoverReplace
<1>5. CASE RecoverPersist
  BY <1>5 DEF RecoverPersist
<1>6. CASE UpdateRead
  BY <1>6 DEF UpdateRead
<1>7. CASE UpdateUpsert
  BY <1>7 DEF UpdateUpsert, UpsertRow
<1>8. CASE UpdateEnsure
  BY <1>8 DEF UpdateEnsure
<1>9. CASE UpdatePersist
  BY <1>9 DEF UpdatePersist
<1>10. CASE RetryRunDelivery
  BY <1>10 DEF RetryRunDelivery
<1>11. CASE DeleteRead
  BY <1>11 DEF DeleteRead
<1>12. CASE DeleteCancelRun
  BY <1>12 DEF DeleteCancelRun
<1>13. CASE DeleteRow
  BY <1>13 DEF DeleteRow
<1>14. CASE DeleteState
  BY <1>14 DEF DeleteState
<1>15. CASE Crash
  BY <1>15 DEF Crash
<1>16. CASE BootstrapRuntime
  BY <1>16 DEF BootstrapRuntime
<1>17. QED
  BY <1>1, <1>2, <1>3, <1>4, <1>5, <1>6, <1>7, <1>8, <1>9, <1>10, <1>11, <1>12, <1>13, <1>14, <1>15, <1>16 DEF Recover, Edit

LEMMA KnownInit == Init => Known
<1>1. ASSUME Init PROVE Known
  <2>1. TypeOK
    BY <1>1, TypeInit
  <2>2. QED
    BY <1>1, <2>1, PoliciesOfCopies DEF Init, Known
<1>2. QED
  BY <1>1

LEMMA KnownNext == TypeOK /\ Known /\ [Next]_vars => Known'
<1>1. ASSUME Known, UNCHANGED vars PROVE Known'
  BY <1>1 DEF vars, database, memory, calls, taken, history, Known
<1>2. QED
  BY <1>1, KnownCall, KnownOther DEF Next

THEOREM Invariant == Spec => [](TypeOK /\ Inv /\ Known)
  BY TypeInit, TypeNext, InvInit, InvNext, KnownInit, KnownNext, PTL DEF Spec

---------------------------------------------------------------------------
(* The properties *)

\* Two runs of a task work at the same time only when the claim of one was removed
\* by a recovery, a deletion or a late write, or gave way to a call whose copy of
\* the task allowed it; and no claim gives way while the task has always said
\* overlap_policy=skip, whatever edits are under way and however old the copies.
THEOREM RunsExclude == Spec => []SkipIsExclusive
<1>1. Inv /\ Known => SkipIsExclusive
  BY DEF Inv, Known, HoldsClaim, SkipIsExclusive
<1>2. QED
  BY Invariant, <1>1, PTL

\* A run that is open is being worked on or is found by the next start or
\* recovery through the row, unless a write failed or came late.
THEOREM NoneForgotten == Spec => []NoRunForgotten
<1>1. Inv => NoRunForgotten
  BY DEF Inv
<1>2. QED
  BY Invariant, <1>1, PTL

\* What was recorded as a run's end is not changed later, except by a call that
\* has not dispatched the run yet.
THEOREM EndKept == Spec => FinalStatusKept
<1> DEFINE Kept == \A r \in Runs : status[r] \in Final /\ status'[r] # status[r]
                                       => pc[r] \in {"starting", "dispatching"}
<1>1. ASSUME TypeOK, Inv, NEW x \in Runs, Call(x) PROVE Kept
  <2> USE DEF database, memory, calls, taken, history, Hold, Goto, TypeOK, Inv, NotStarted, Fresh, Active, Final
  <2>1. CASE UNCHANGED status
    BY <2>1
  <2>2. CASE RecordSkippedOverlap(x)
    BY <1>1, <2>2 DEF RecordSkippedOverlap
  <2>3. CASE InsertRunPending(x)
    BY <1>1, <2>3 DEF InsertRunPending
  <2>4. CASE MarkRunRunning(x)
    BY <1>1, <2>4 DEF MarkRunRunning
  <2>5. CASE DispatchJob(x)
    BY <1>1, <2>5 DEF DispatchJob
  <2>6. CASE CloseRun(x)
    BY <1>1, <2>6 DEF CloseRun, FinishIfActive
  <2>7. QED
    BY <1>1, <2>1, <2>2, <2>3, <2>4, <2>5, <2>6
       DEF Call, CollectDue, RunTaskNow, EnsureJobState, CheckOverlap, AdvanceJobRuntime,
           ClaimCronJobRuntime, ReadClaimedJob, ReplaceByClaimedJob, CountRun, FinishJobRuntime,
           PersistJobRuntime
<1>2. ASSUME TypeOK, RecoverMarkCancelled \/ DeleteCancelRun \/ BootstrapRuntime PROVE Kept
  BY <1>2 DEF RecoverMarkCancelled, DeleteCancelRun, BootstrapRuntime, CancelRun, CancelFails,
              FinishIfActive, TypeOK, Active, Final
<1>3. ASSUME UNCHANGED status PROVE Kept
  BY <1>3
<1>4. ASSUME TypeOK, Inv, Next PROVE Kept
  BY <1>1, <1>2, <1>3, <1>4
     DEF Next, Recover, Edit, database, RecoverStaleRunningJobs, RecoverTaskRunningRun, RecoverReplace,
         RecoverPersist, UpdateRead, UpdateUpsert, UpdateEnsure, UpdatePersist, RetryRunDelivery,
         DeleteRead, DeleteRow, DeleteState, Crash
<1>5. TypeOK /\ Inv /\ [Next]_vars => [Kept]_vars
  BY <1>4
<1>6. QED
  BY Invariant, <1>5, PTL DEF Spec, FinalStatusKept

=============================================================================
