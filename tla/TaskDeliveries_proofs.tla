------------------------ MODULE TaskDeliveries_proofs ------------------------
(***************************************************************************)
(* Theorems about TaskDeliveries for any runs, batches and requests, any   *)
(* number of attempts and waits, and any number of failures and stops.     *)
(***************************************************************************)
EXTENDS TaskDeliveries, TLAPS

USE NothingAssumption, CallersAssumption, BoundsAssumption

---------------------------------------------------------------------------
(* Types *)

Rows == [open: BOOLEAN, delivery: Outcomes, attempts: Nat, dead: BOOLEAN]
CallTypes == [pc: CallPCs, run: Runs \cup {Nothing}, attempts: Nat,
              outcome: Outcomes, todo: SUBSET Runs]
WithRun == \A c \in Callers : call[c].pc \in OnRun => call[c].run \in Runs

LEMMA EventType == ASSUME TypeOK, Event \/ NoEvent PROVE events' \in 0 .. MaxEvents
  BY DEF TypeOK, Event, NoEvent

LEMMA NoCallType == /\ NoCall \in CallTypes
                    /\ [NoCall EXCEPT !.pc = "done"] \in CallTypes
                    /\ [NoCall EXCEPT !.pc = "done"].pc = "done"
                    /\ [NoCall EXCEPT !.pc = "done"].todo = {}
  BY DEF NoCall, CallTypes, CallPCs, OnRun, Outcomes

\* What each change of a call changes.
LEMMA GotoFacts ==
    ASSUME TypeOK, NEW c \in Callers, NEW label \in CallPCs, Goto(c, label)
    PROVE  /\ call' \in [Callers -> CallTypes]
           /\ call'[c].pc = label
           /\ call'[c].run = call[c].run
           /\ call'[c].attempts = call[c].attempts
           /\ call'[c].outcome = call[c].outcome
           /\ call'[c].todo = call[c].todo
           /\ \A d \in Callers : d # c => call'[d] = call[d]
<1>1. call \in [Callers -> CallTypes]
  BY DEF TypeOK, CallTypes
<1>2. call' = [call EXCEPT ![c] = [call[c] EXCEPT !.pc = label]]
  BY DEF Goto
<1>3. QED
  BY <1>1, <1>2 DEF CallTypes

LEMMA ReturnFacts ==
    ASSUME TypeOK, NEW c \in Callers, Return(c)
    PROVE  /\ call' \in [Callers -> CallTypes]
           /\ call'[c].pc = (IF c \in Batches THEN "picking" ELSE "done")
           /\ call'[c].todo = call[c].todo
           /\ \A d \in Callers : d # c => call'[d] = call[d]
<1>1. call \in [Callers -> CallTypes]
  BY DEF TypeOK, CallTypes
<1>2. QED
  BY <1>1 DEF Return, NoCall, CallTypes, CallPCs, OnRun, Outcomes

LEMMA EndFacts ==
    ASSUME TypeOK, NEW c \in Callers, call' = [call EXCEPT ![c] = NoCall]
    PROVE  /\ call' \in [Callers -> CallTypes]
           /\ call'[c].pc = "idle" /\ call'[c].todo = {}
           /\ \A d \in Callers : d # c => call'[d] = call[d]
<1>1. call \in [Callers -> CallTypes]
  BY DEF TypeOK, CallTypes
<1>2. QED
  BY <1>1, NoCallType DEF NoCall

LEMMA ListFacts ==
    ASSUME TypeOK, NEW c \in Callers, NEW label \in CallPCs, NEW rs \in SUBSET Runs,
           call' = [call EXCEPT ![c].pc = label, ![c].todo = rs]
    PROVE  /\ call' \in [Callers -> CallTypes]
           /\ call'[c].pc = label /\ call'[c].todo = rs
           /\ call'[c].run = call[c].run
           /\ call'[c].attempts = call[c].attempts
           /\ call'[c].outcome = call[c].outcome
           /\ \A d \in Callers : d # c => call'[d] = call[d]
<1>1. call \in [Callers -> CallTypes]
  BY DEF TypeOK, CallTypes
<1>2. call' = [call EXCEPT ![c] = [call[c] EXCEPT !.pc = label, !.todo = rs]]
  BY <1>1
<1>3. [call[c] EXCEPT !.pc = label, !.todo = rs] \in CallTypes
  BY <1>1 DEF CallTypes
<1>4. QED
  BY <1>1, <1>2, <1>3 DEF CallTypes

LEMMA TodoFacts ==
    ASSUME TypeOK, NEW c \in Callers, NEW rs \in SUBSET Runs,
           call' = [call EXCEPT ![c].todo = rs]
    PROVE  /\ call' \in [Callers -> CallTypes]
           /\ call'[c].todo = rs
           /\ call'[c].pc = call[c].pc
           /\ call'[c].run = call[c].run
           /\ \A d \in Callers : d # c => call'[d] = call[d]
<1>1. call \in [Callers -> CallTypes]
  BY DEF TypeOK, CallTypes
<1>2. call' = [call EXCEPT ![c] = [call[c] EXCEPT !.todo = rs]]
  BY <1>1
<1>3. QED
  BY <1>1, <1>2 DEF CallTypes

LEMMA RequestFacts ==
    ASSUME TypeOK, NEW c \in Callers, NEW r \in Runs,
           call' = [call EXCEPT ![c].pc = "finding", ![c].run = r]
    PROVE  /\ call' \in [Callers -> CallTypes]
           /\ call'[c].pc = "finding" /\ call'[c].run = r /\ call'[c].todo = call[c].todo
           /\ \A d \in Callers : d # c => call'[d] = call[d]
<1>1. call \in [Callers -> CallTypes]
  BY DEF TypeOK, CallTypes
<1>2. call' = [call EXCEPT ![c] = [call[c] EXCEPT !.pc = "finding", !.run = r]]
  BY <1>1
<1>3. [call[c] EXCEPT !.pc = "finding", !.run = r] \in CallTypes
  BY <1>1 DEF CallTypes, CallPCs, OnRun
<1>4. QED
  BY <1>1, <1>2, <1>3 DEF CallTypes

LEMMA ReadFacts ==
    ASSUME TypeOK, NEW c \in Callers, NEW n \in Nat,
           call' = [call EXCEPT ![c].pc = "sending", ![c].attempts = n]
    PROVE  /\ call' \in [Callers -> CallTypes]
           /\ call'[c].pc = "sending" /\ call'[c].attempts = n
           /\ call'[c].run = call[c].run /\ call'[c].todo = call[c].todo
           /\ \A d \in Callers : d # c => call'[d] = call[d]
<1>1. call \in [Callers -> CallTypes]
  BY DEF TypeOK, CallTypes
<1>2. call' = [call EXCEPT ![c] = [call[c] EXCEPT !.pc = "sending", !.attempts = n]]
  BY <1>1
<1>3. [call[c] EXCEPT !.pc = "sending", !.attempts = n] \in CallTypes
  BY <1>1 DEF CallTypes, CallPCs, OnRun
<1>4. QED
  BY <1>1, <1>2, <1>3 DEF CallTypes

LEMMA SendFacts ==
    ASSUME TypeOK, NEW c \in Callers, NEW outcome \in Outcomes,
           call' = [call EXCEPT ![c].pc = "recording", ![c].outcome = outcome]
    PROVE  /\ call' \in [Callers -> CallTypes]
           /\ call'[c].pc = "recording" /\ call'[c].outcome = outcome
           /\ call'[c].attempts = call[c].attempts
           /\ call'[c].run = call[c].run /\ call'[c].todo = call[c].todo
           /\ \A d \in Callers : d # c => call'[d] = call[d]
<1>1. call \in [Callers -> CallTypes]
  BY DEF TypeOK, CallTypes
<1>2. call' = [call EXCEPT ![c] = [call[c] EXCEPT !.pc = "recording", !.outcome = outcome]]
  BY <1>1
<1>3. [call[c] EXCEPT !.pc = "recording", !.outcome = outcome] \in CallTypes
  BY <1>1 DEF CallTypes, CallPCs, OnRun
<1>4. QED
  BY <1>1, <1>2, <1>3 DEF CallTypes

\* What an attempt does to a row.
LEMMA AttemptFacts ==
    ASSUME NEW row \in Rows, NEW outcome \in Outcomes, NEW read \in Nat
    PROVE  /\ Attempt(row, outcome, read) \in Rows
           /\ Attempt(row, outcome, read).open = row.open
           /\ Attempt(row, outcome, read).delivery = outcome
           /\ outcome = "failed" => Attempt(row, outcome, read).attempts = row.attempts + 1
           /\ outcome = "failed" =>
                 Attempt(row, outcome, read).dead \/ read + 1 < MaxAttempts
<1>1. Attempted(outcome) \in Nat /\ (outcome = "failed" => Attempted(outcome) = 1)
  BY DEF Attempted
<1>2. DeadLetter(outcome, read + Attempted(outcome)) \in BOOLEAN
  BY DEF DeadLetter
<1>3. outcome = "failed" =>
         DeadLetter(outcome, read + Attempted(outcome)) \/ read + 1 < MaxAttempts
  BY <1>1 DEF DeadLetter
<1> DEFINE new == Attempt(row, outcome, read)
<1>4. new = [row EXCEPT !.delivery = outcome, !.attempts = row.attempts + Attempted(outcome),
                        !.dead = DeadLetter(outcome, read + Attempted(outcome))]
  BY DEF Attempt
<1>5. new \in Rows
  <2>1. \A n \in Nat, b \in BOOLEAN :
           [row EXCEPT !.delivery = outcome, !.attempts = n, !.dead = b] \in Rows
    BY DEF Rows
  <2>2. row.attempts + Attempted(outcome) \in Nat
    BY <1>1 DEF Rows
  <2>3. QED
    BY <1>2, <1>4, <2>1, <2>2
<1>6. /\ new.open = row.open /\ new.delivery = outcome
      /\ new.attempts = row.attempts + Attempted(outcome)
      /\ new.dead = DeadLetter(outcome, read + Attempted(outcome))
  BY <1>4 DEF Rows
<1> HIDE DEF new
<1>7. row.attempts \in Nat
  BY DEF Rows
<1>8. QED
  BY <1>1, <1>3, <1>5, <1>6, <1>7 DEF new

\* The row of a run that ends.
LEMMA ClosedFacts ==
    ASSUME NEW row \in Rows
    PROVE  /\ [row EXCEPT !.open = FALSE] \in Rows
           /\ [row EXCEPT !.open = FALSE].open = FALSE
           /\ [row EXCEPT !.open = FALSE].delivery = row.delivery
           /\ [row EXCEPT !.open = FALSE].attempts = row.attempts
           /\ [row EXCEPT !.open = FALSE].dead = row.dead
  BY DEF Rows

LEMMA BuryFacts ==
    ASSUME TypeOK, NEW r \in Runs, run' = [run EXCEPT ![r].delivery = "failed", ![r].dead = TRUE]
    PROVE  /\ run' \in [Runs -> Rows]
           /\ run'[r].open = run[r].open /\ run'[r].attempts = run[r].attempts
           /\ run'[r].delivery = "failed" /\ run'[r].dead = TRUE
           /\ \A n \in Runs : n # r => run'[n] = run[n]
<1>1. run \in [Runs -> Rows]
  BY DEF TypeOK, Rows
<1>2. run' = [run EXCEPT ![r] = [run[r] EXCEPT !.delivery = "failed", !.dead = TRUE]]
  BY <1>1
<1>3. [run[r] EXCEPT !.delivery = "failed", !.dead = TRUE] \in Rows
  BY <1>1 DEF Rows, Outcomes
<1>4. QED
  BY <1>1, <1>2, <1>3 DEF Rows

LEMMA CancelFacts ==
    ASSUME TypeOK, NEW r \in Runs, CancelRun(r)
    PROVE  /\ run' \in [Runs -> Rows]
           /\ run'[r].open = FALSE /\ run'[r].delivery = "other"
           /\ \A n \in Runs : n # r => run'[n] = run[n]
<1>1. run \in [Runs -> Rows]
  BY DEF TypeOK, Rows
<1>2. run' = [run EXCEPT ![r] = [run[r] EXCEPT !.open = FALSE, !.delivery = "other", !.dead = FALSE]]
  BY <1>1 DEF CancelRun
<1>3. [run[r] EXCEPT !.open = FALSE, !.delivery = "other", !.dead = FALSE] \in Rows
  BY <1>1 DEF Rows, Outcomes
<1>4. QED
  BY <1>1, <1>2, <1>3 DEF Rows

LEMMA DeliverFacts ==
    ASSUME TypeOK, NEW r \in Runs, NEW outcome \in Outcomes, Deliver(r, outcome)
    PROVE  /\ sent' \in [Runs -> Nat] /\ unrecorded' \subseteq Runs
           /\ unrecorded \subseteq unrecorded'
           /\ \A n \in Runs : n # r => sent'[n] = sent[n]
           /\ sent'[r] = sent[r] \/ sent'[r] = sent[r] + 1
           /\ sent'[r] = sent[r] \/ r \in unrecorded' \/ outcome = "succeeded"
  BY DEF TypeOK, Deliver

\* A batch turns to a run of its list, or passes it over.
LEMMA PickCases ==
    ASSUME TypeOK, NEW b \in Callers, PickRun(b)
    PROVE  \E r \in call[b].todo :
              /\ call' \in [Callers -> CallTypes]
              /\ call'[b].todo = call[b].todo \ {r}
              /\ \A d \in Callers : d # b => call'[d] = call[d]
              /\ \/ call'[b].pc \in {"finding", "burying"} /\ call'[b].run = r
                 \/ call'[b].pc = "picking" /\ call'[b].run = call[b].run
<1>1. PICK r \in call[b].todo :
        \/ call' = [call EXCEPT ![b].pc = IF task = "enabled" THEN "finding" ELSE "burying",
                               ![b].run = r, ![b].todo = @ \ {r}]
        \/ call' = [call EXCEPT ![b].todo = @ \ {r}]
  BY DEF PickRun
<1> DEFINE label == IF task = "enabled" THEN "finding" ELSE "burying"
           rs == call[b].todo \ {r}
<1>2. label \in {"finding", "burying"} /\ label \in CallPCs
  BY DEF CallPCs, OnRun
<1>3. r \in Runs /\ rs \in SUBSET Runs /\ call[b].pc = "picking"
  BY DEF TypeOK, PickRun
<1>4. \/ call' = [call EXCEPT ![b].pc = label, ![b].run = r, ![b].todo = rs]
      \/ call' = [call EXCEPT ![b].todo = rs]
  BY <1>1
<1> HIDE DEF label, rs
<1>5. CASE call' = [call EXCEPT ![b].pc = label, ![b].run = r, ![b].todo = rs]
  <2>1. call \in [Callers -> CallTypes]
    BY DEF TypeOK, CallTypes
  <2>2. call' = [call EXCEPT ![b] = [call[b] EXCEPT !.pc = label, !.run = r, !.todo = rs]]
    BY <1>5, <2>1
  <2>3. [call[b] EXCEPT !.pc = label, !.run = r, !.todo = rs] \in CallTypes
    BY <1>2, <1>3, <2>1 DEF CallTypes
  <2>4. QED
    BY <1>2, <1>3, <2>1, <2>2, <2>3 DEF CallTypes, rs
<1>6. CASE call' = [call EXCEPT ![b].todo = rs]
  BY <1>3, <1>6, TodoFacts DEF rs
<1>7. QED
  BY <1>4, <1>5, <1>6

\* A step that changes one call leaves the other calls their runs.
LEMMA WithRunKept ==
    ASSUME TypeOK, NEW c \in Callers,
           call'[c].pc \in OnRun => call'[c].run \in Runs,
           \A d \in Callers : d # c => call'[d] = call[d]
    PROVE  WithRun'
  BY DEF WithRun, TypeOK

LEMMA BatchType == ASSUME TypeOK, NEW b \in Batches,
                          BeginBatch(b) \/ ListDue(b) \/ PickRun(b) \/ BuryRun(b) \/ EndBatch(b)
                   PROVE  TypeOK'
<1> USE DEF CallPCs, OnRun
<1>1. b \in Callers /\ Due \subseteq Runs /\ events' \in 0 .. MaxEvents
  BY EventType DEF Callers, Due, BeginBatch, ListDue, PickRun, BuryRun, EndBatch, Event, NoEvent
<1>2. call' \in [Callers -> CallTypes] /\ WithRun'
  <2>1. CASE BeginBatch(b)
    BY <1>1, <2>1, GotoFacts DEF BeginBatch, TypeOK, WithRun
  <2>2. CASE ListDue(b) \/ EndBatch(b)
    <3>1. CASE \E due \in SUBSET Due :
                  call' = [call EXCEPT ![b].pc = "picking", ![b].todo = due]
      <4>1. PICK due \in SUBSET Runs :
              call' = [call EXCEPT ![b].pc = "picking", ![b].todo = due]
        BY <1>1, <3>1
      <4>0. "picking" \in CallPCs
        OBVIOUS
      <4>2. /\ call' \in [Callers -> CallTypes] /\ call'[b].pc = "picking"
            /\ \A d \in Callers : d # b => call'[d] = call[d]
        BY <1>1, <4>0, <4>1, ListFacts
      <4>3. QED
        BY <1>1, <4>2, WithRunKept
    <3>2. CASE call' = [call EXCEPT ![b] = NoCall]
      BY <1>1, <3>2, EndFacts DEF TypeOK, WithRun
    <3>3. QED
      BY <2>2, <3>1, <3>2 DEF ListDue, EndBatch
  <2>3. CASE PickRun(b)
    <3>1. PICK r \in call[b].todo :
            /\ call' \in [Callers -> CallTypes]
            /\ \A d \in Callers : d # b => call'[d] = call[d]
            /\ call'[b].pc \in OnRun => call'[b].run = r
      BY <1>1, <2>3, PickCases
    <3>2. r \in Runs
      BY <1>1 DEF TypeOK
    <3>3. QED
      BY <1>1, <3>1, <3>2, WithRunKept
  <2>4. CASE BuryRun(b)
    BY <1>1, <2>4, ReturnFacts DEF BuryRun, TypeOK, WithRun
  <2>5. QED
    BY <2>1, <2>2, <2>3, <2>4
<1>3. run' \in [Runs -> Rows]
  <2>1. CASE BuryRun(b) /\ run' # run
    BY <1>1, <2>1, BuryFacts DEF BuryRun, TypeOK
  <2>2. QED
    BY <2>1 DEF TypeOK, Rows, BeginBatch, ListDue, PickRun, BuryRun, EndBatch
<1>4. together' \subseteq Runs
  BY <1>1 DEF TypeOK, Meets, BeginBatch, ListDue, PickRun, BuryRun, EndBatch
<1>5. retrying' \in BOOLEAN /\ UNCHANGED <<task, observer, sent, unrecorded>>
  BY DEF TypeOK, BeginBatch, ListDue, PickRun, BuryRun, EndBatch
<1>6. QED
  BY <1>1, <1>2, <1>3, <1>4, <1>5 DEF TypeOK, Rows, CallTypes, WithRun

LEMMA RetryType == ASSUME TypeOK, NEW c \in Callers, Retry(c) PROVE TypeOK'
<1> USE DEF CallPCs, OnRun
<1>1. events' \in 0 .. MaxEvents /\ call[c].run \in Runs
  BY EventType DEF Retry, FindTask, ReadRun, Send, Record, TypeOK
<1>2. call' \in [Callers -> CallTypes] /\ WithRun'
  <2>1. CASE Return(c)
    BY <2>1, ReturnFacts DEF TypeOK, WithRun
  <2>2. CASE Goto(c, "reading")
    BY <1>1, <2>2, GotoFacts DEF TypeOK, WithRun
  <2>3. CASE call' = [call EXCEPT ![c].pc = "sending", ![c].attempts = run[call[c].run].attempts]
    BY ZenonT(40), <1>1, <2>3, ReadFacts DEF TypeOK, WithRun
  <2>4. CASE Send(c)
    BY <1>1, <2>4, SendFacts DEF Send, TypeOK, WithRun
  <2>5. QED
    BY <2>1, <2>2, <2>3, <2>4 DEF Retry, FindTask, ReadRun, Record
<1>3. run' \in [Runs -> Rows]
  <2>1. CASE run' = [run EXCEPT ![call[c].run] = Attempt(@, call[c].outcome, call[c].attempts)]
    <3>1. run \in [Runs -> Rows] /\ call[c].outcome \in Outcomes /\ call[c].attempts \in Nat
      BY DEF TypeOK, Rows
    <3>2. Attempt(run[call[c].run], call[c].outcome, call[c].attempts) \in Rows
      BY <1>1, <3>1, AttemptFacts
    <3>3. QED
      BY <2>1, <3>1, <3>2
  <2>2. QED
    BY <2>1 DEF TypeOK, Rows, Retry, FindTask, ReadRun, Send, Record
<1>4. sent' \in [Runs -> Nat] /\ unrecorded' \subseteq Runs
  <2>1. CASE Send(c)
    BY <1>1, <2>1, DeliverFacts DEF Send
  <2>2. QED
    BY <1>1, <2>1 DEF TypeOK, Retry, FindTask, ReadRun, Record
<1>5. UNCHANGED <<task, observer, retrying, together>>
  BY DEF Retry, FindTask, ReadRun, Send, Record
<1>6. QED
  BY <1>1, <1>2, <1>3, <1>4, <1>5 DEF TypeOK, Rows, CallTypes, WithRun

LEMMA RequestType ==
    ASSUME TypeOK, NEW q \in Requests,
           \/ RequestDelete(q) \/ ListPending(q) \/ BuryPending(q) \/ DeleteRow(q)
           \/ \E r \in Runs : RequestRetry(q, r)
    PROVE  TypeOK'
<1> USE DEF CallPCs, OnRun
<1>1. q \in Callers /\ events' \in 0 .. MaxEvents
  BY EventType DEF Callers, RequestDelete, ListPending, BuryPending, DeleteRow, RequestRetry,
     TypeOK, Event, NoEvent
<1>2. call' \in [Callers -> CallTypes] /\ WithRun'
  <2>1. CASE RequestDelete(q) \/ DeleteRow(q) \/ Goto(q, "done")
    <3>1. PICK label \in CallPCs : Goto(q, label) /\ label \notin OnRun
      BY <2>1 DEF RequestDelete, DeleteRow
    <3>2. QED
      BY <1>1, <3>1, GotoFacts DEF TypeOK, WithRun
  <2>2. CASE ListPending(q) /\ ~Goto(q, "done")
    <3>1. PICK rs \in SUBSET Runs : call' = [call EXCEPT ![q].pc = "row", ![q].todo = rs]
      BY <2>2 DEF ListPending
    <3>2. /\ call' \in [Callers -> CallTypes] /\ call'[q].pc = "row"
          /\ \A d \in Callers : d # q => call'[d] = call[d]
      BY <1>1, <3>1, ListFacts
    <3>3. QED
      BY <1>1, <3>2, WithRunKept
  <2>3. CASE BuryPending(q)
    <3>1. PICK r \in call[q].todo :
            \/ call' = [call EXCEPT ![q].todo = call[q].todo \ {r}]
            \/ call' = [call EXCEPT ![q] = [NoCall EXCEPT !.pc = "done"]]
      BY <2>3 DEF BuryPending
    <3>2. call[q].todo \ {r} \in SUBSET Runs
      BY <1>1 DEF TypeOK
    <3>3. CASE call' = [call EXCEPT ![q].todo = call[q].todo \ {r}]
      BY <1>1, <3>2, <3>3, TodoFacts DEF TypeOK, WithRun
    <3>4. CASE call' = [call EXCEPT ![q] = [NoCall EXCEPT !.pc = "done"]]
      BY <1>1, <3>4, NoCallType DEF TypeOK, WithRun, CallTypes
    <3>5. QED
      BY <3>1, <3>3, <3>4
  <2>4. ASSUME NEW r \in Runs, RequestRetry(q, r)
        PROVE  call' \in [Callers -> CallTypes] /\ WithRun'
    <3>1. /\ call' \in [Callers -> CallTypes] /\ call'[q].run = r
          /\ \A d \in Callers : d # q => call'[d] = call[d]
      BY <1>1, <2>4, RequestFacts DEF RequestRetry
    <3>2. QED
      BY <1>1, <3>1, WithRunKept
  <2>5. QED
    BY <2>1, <2>2, <2>3, <2>4
<1>3. run' \in [Runs -> Rows]
  <2>1. ASSUME NEW r \in call[q].todo,
               run' = [run EXCEPT ![r].delivery = "failed", ![r].dead = TRUE]
        PROVE  run' \in [Runs -> Rows]
    BY <1>1, <2>1, BuryFacts DEF TypeOK
  <2>2. QED
    BY <2>1 DEF TypeOK, Rows, RequestDelete, ListPending, BuryPending, DeleteRow, RequestRetry
<1>4. together' \subseteq Runs
  BY <1>1 DEF TypeOK, Meets, RequestDelete, ListPending, BuryPending, DeleteRow, RequestRetry
<1>5. task' \in {"enabled", "disabled", "deleted"}
      /\ UNCHANGED <<observer, retrying, sent, unrecorded>>
  BY DEF TypeOK, RequestDelete, ListPending, BuryPending, DeleteRow, RequestRetry
<1>6. QED
  BY <1>1, <1>2, <1>3, <1>4, <1>5 DEF TypeOK, Rows, CallTypes, WithRun

LEMMA FinishFacts ==
    ASSUME TypeOK, NEW r \in Runs, FinishRun(r)
    PROVE  /\ observer[r] \in Outcomes
           /\ run' \in [Runs -> Rows]
           /\ \A n \in Runs : n # r => run'[n] = run[n]
           /\ \/ /\ run[r].open /\ ~run'[r].open
                 /\ run'[r].delivery = observer[r]
                 /\ observer[r] = "failed" =>
                       /\ run'[r].attempts = run[r].attempts + 1
                       /\ run'[r].dead \/ 1 < MaxAttempts
                 /\ UNCHANGED unrecorded
              \/ /\ UNCHANGED run
                 /\ unrecorded' = IF observer[r] = "succeeded" THEN unrecorded \cup {r}
                                  ELSE unrecorded
<1>1. run \in [Runs -> Rows] /\ observer[r] \in Outcomes
  BY DEF TypeOK, Rows, FinishRun
<1> DEFINE made == Attempt(run[r], observer[r], 0)
           new == [made EXCEPT !.open = FALSE]
<1>2. /\ new \in Rows /\ new.open = FALSE /\ new.delivery = observer[r]
      /\ observer[r] = "failed" =>
            /\ new.attempts = run[r].attempts + 1
            /\ new.dead \/ 1 < MaxAttempts
  <2>1. PICK row \in Rows, outcome \in Outcomes, read \in Nat :
           row = run[r] /\ outcome = observer[r] /\ read = 0
    BY <1>1
  <2>2. /\ Attempt(row, outcome, read) \in Rows
        /\ Attempt(row, outcome, read).delivery = outcome
        /\ outcome = "failed" => Attempt(row, outcome, read).attempts = row.attempts + 1
        /\ outcome = "failed" =>
               Attempt(row, outcome, read).dead \/ read + 1 < MaxAttempts
    BY AttemptFacts, Zenon
  <2>3. made = Attempt(row, outcome, read)
    BY <2>1
  <2> HIDE DEF made
  <2>4. /\ made \in Rows /\ made.delivery = outcome
        /\ outcome = "failed" => made.attempts = row.attempts + 1
        /\ outcome = "failed" => made.dead \/ read + 1 < MaxAttempts
    BY <2>2, <2>3
  <2>5. QED
    BY <2>1, <2>4, ClosedFacts
<1> HIDE DEF new
<1>3. CASE run[r].open /\ run' = [run EXCEPT ![r] = new] /\ UNCHANGED unrecorded
  BY <1>1, <1>2, <1>3
<1>4. CASE UNCHANGED run
  BY <1>1, <1>3, <1>4 DEF FinishRun, new
<1>5. QED
  BY <1>3, <1>4 DEF FinishRun, new

LEMMA RunType ==
    ASSUME TypeOK, NEW r \in Runs, ObserveEnd(r) \/ FinishRun(r) \/ CancelRun(r) PROVE TypeOK'
<1>1. CASE ObserveEnd(r)
  BY <1>1, DeliverFacts DEF ObserveEnd, TypeOK, Outcomes
<1>2. CASE FinishRun(r)
  <2>1. events' \in 0 .. MaxEvents
    BY <1>2, EventType DEF FinishRun
  <2>2. unrecorded' \subseteq Runs
    BY <1>2 DEF FinishRun, TypeOK
  <2>3. observer' \in [Runs -> Outcomes \cup {"running", "ended"}]
    BY <1>2 DEF FinishRun, TypeOK
  <2>4. QED
    BY <1>2, <2>1, <2>2, <2>3, FinishFacts DEF FinishRun, TypeOK, Rows
<1>3. CASE CancelRun(r)
  BY <1>3, CancelFacts DEF CancelRun, TypeOK, Rows
<1>4. QED
  BY <1>1, <1>2, <1>3

LEMMA CrashFacts ==
    ASSUME TypeOK, Crash
    PROVE  /\ call' \in [Callers -> CallTypes]
           /\ \A c \in Callers : call'[c].pc \in {"idle", "done"} /\ call'[c].todo = {}
           /\ \A b \in Batches : call'[b].pc = "idle"
<1>1. NoCall.pc = "idle" /\ NoCall.todo = {}
  BY DEF NoCall
<1>2. QED
  BY <1>1, NoCallType DEF Crash, Callers

LEMMA TypeNext == ASSUME TypeOK, [Next]_vars PROVE TypeOK'
<1>1. CASE UNCHANGED vars
  BY <1>1 DEF TypeOK, vars
<1>2. CASE UpdateTask
  BY <1>2 DEF TypeOK, UpdateTask
<1>3. CASE Crash
  BY <1>3, CrashFacts, EventType DEF Crash, TypeOK, CallTypes, OnRun
<1>4. CASE \E r \in Runs : ObserveEnd(r) \/ FinishRun(r) \/ CancelRun(r)
  BY <1>4, RunType
<1>5. CASE \E b \in Batches : BatchSteps(b)
  BY <1>5, BatchType, RetryType DEF BatchSteps, Callers
<1>6. CASE \E q \in Requests : RequestDelete(q) \/ RequestSteps(q) \/ \E r \in Runs : RequestRetry(q, r)
  BY <1>6, RequestType, RetryType DEF RequestSteps, Callers
<1>7. QED
  BY <1>1, <1>2, <1>3, <1>4, <1>5, <1>6 DEF Next

LEMMA TypeInit == ASSUME Init PROVE TypeOK
<1>1. [open |-> TRUE, delivery |-> "other", attempts |-> 0, dead |-> FALSE] \in Rows
  BY DEF Rows, Outcomes
<1>2. call \in [Callers -> CallTypes] /\ WithRun
  BY NoCallType DEF Init, WithRun, NoCall, OnRun
<1>3. run \in [Runs -> Rows]
  BY <1>1 DEF Init
<1>4. QED
  <2>1. events \in 0 .. MaxEvents /\ sent \in [Runs -> Nat]
    BY DEF Init
  <2>2. observer \in [Runs -> Outcomes \cup {"running", "ended"}]
    BY DEF Init
  <2>3. /\ task \in {"enabled", "disabled", "deleted"} /\ retrying \in BOOLEAN
        /\ unrecorded \subseteq Runs /\ together \subseteq Runs
    BY DEF Init
  <2>4. QED
    BY <1>2, <1>3, <2>1, <2>2, <2>3 DEF TypeOK, Rows, CallTypes, WithRun

\* The task, the runs, their observers and the calls keep their types; a call
\* that works on a run has one.
THEOREM TypeCorrect == Spec => []TypeOK
  BY TypeInit, TypeNext, PTL DEF Spec

---------------------------------------------------------------------------
(* The inductive invariant *)

\* One batch at a time, and retryDueDeliveries knows of it.
OneBatch ==
    \A b, c \in Batches :
        call[b].pc # "idle" => retrying /\ (c # b => call[c].pc = "idle")

\* Where batches and requests are, and what they have on their lists.
TidyCall(c) ==
    /\ call[c].pc \in {"idle", "listing", "deleting", "done"} => call[c].todo = {}
    /\ call[c].pc \in OnRun => call[c].run \notin call[c].todo
    /\ c \in Batches => call[c].pc \notin {"deleting", "row", "done"}
    /\ c \in Requests => /\ call[c].pc \notin {"listing", "picking", "burying"}
                         /\ call[c].pc \in OnRun => call[c].todo = {}
Tidy == \A c \in Callers : TidyCall(c)

\* Two callers that hold one run are known to have met there.
Alone ==
    \A c, d \in Callers, r \in Runs : c # d /\ Holds(c, r) /\ Holds(d, r) => r \in together

\* Caller c has seen that the run failed and is going to write its delivery.
Writes(c, r) ==
    r \in call[c].todo \/ (call[c].run = r /\ call[c].pc \in {"burying", "sending", "recording"})
Sends(c, r) == call[c].run = r /\ call[c].pc \in {"sending", "recording"}
Succeeds(c, r) == call[c].run = r /\ call[c].pc = "recording" /\ call[c].outcome = "succeeded"

\* What was sent is on record, or on its way there.
Told(r) ==
    observer[r] = "succeeded" \/ run[r].delivery = "succeeded" \/ \E c \in Callers : Succeeds(c, r)

\* The row of a run, and what its observer and the callers make of it.
RowOk(r) ==
    /\ run[r].open => run[r].delivery = "other" /\ run[r].attempts = 0
    /\ run[r].delivery # "other" => observer[r] = "ended"
    /\ Failed(r) => run[r].dead \/ run[r].attempts < MaxAttempts \/ r \in together
    /\ observer[r] = "running" => sent[r] = 0
    /\ r \notin unrecorded \cup together => sent[r] = 0 \/ (sent[r] = 1 /\ Told(r))
CallersOk(r) ==
    \A c \in Callers :
        /\ Writes(c, r) => ~run[r].open /\ observer[r] = "ended" /\ (r \in together \/ Failed(r))
        /\ Sends(c, r) => r \in together \/ call[c].attempts = run[r].attempts

IInv == TypeOK /\ OneBatch /\ Tidy /\ Alone /\ \A r \in Runs : RowOk(r) /\ CallersOk(r)

LEMMA InvInit == ASSUME Init PROVE IInv
<1>1. \A c \in Callers : call[c] = NoCall
  BY DEF Init
<1>2. NoCall.pc = "idle" /\ NoCall.todo = {}
  BY DEF NoCall
<1>3. OneBatch /\ Tidy
  BY <1>1, <1>2 DEF OneBatch, Tidy, TidyCall, OnRun, Callers
<1>4. Alone
  BY <1>1, <1>2 DEF Alone, Holds, OnRun
<1>5. \A r \in Runs : RowOk(r) /\ CallersOk(r)
  BY <1>1, <1>2 DEF Init, RowOk, CallersOk, Failed, Writes, Sends
<1>6. QED
  BY <1>3, <1>4, <1>5, TypeInit DEF IInv

\* A call that ends begins no batch.
LEMMA OneBatchKept ==
    ASSUME OneBatch, NEW c \in Callers, UNCHANGED retrying,
           c \in Batches => call[c].pc # "idle",
           \A d \in Callers : d # c => call'[d] = call[d]
    PROVE  OneBatch'
  BY DEF OneBatch, Callers

LEMMA AloneKept ==
    ASSUME Alone, OneBatch', Tidy', NEW c \in Callers,
           \A d \in Callers : d # c => call'[d] = call[d],
           together \subseteq together',
           \A r \in Runs : Holds(c, r)' => Holds(c, r) \/ Meets(c, {r}) \subseteq together'
    PROVE  Alone'
<1>1. ASSUME NEW d \in Callers, d # c, NEW r \in Runs, Holds(c, r)', Holds(d, r)
      PROVE  r \in together'
  <2>1. CASE Holds(c, r)
    BY <1>1, <2>1 DEF Alone
  <2>2. CASE c \in Requests \/ d \in Requests
    BY <1>1, <2>2 DEF Alone, Meets
  <2>3. CASE c \in Batches /\ d \in Batches
    <3>1. Holds(d, r)'
      BY <1>1 DEF Holds
    <3>2. call'[c].pc # "idle" /\ call'[d].pc # "idle"
      BY <1>1, <3>1 DEF Tidy, TidyCall, Holds, OnRun
    <3>3. QED
      BY <1>1, <2>3, <3>2 DEF OneBatch
  <2>4. QED
    BY <2>1, <2>2, <2>3 DEF Callers
<1>2. ASSUME NEW d \in Callers, NEW e \in Callers, NEW r \in Runs,
             d # e, Holds(d, r)', Holds(e, r)'
      PROVE  r \in together'
  <2>1. \A x \in Callers : x # c => (Holds(x, r)' <=> Holds(x, r))
    BY DEF Holds
  <2>2. CASE d = c \/ e = c
    BY <1>1, <1>2, <2>1, <2>2
  <2>3. CASE d # c /\ e # c
    BY <1>2, <2>1, <2>3 DEF Alone
  <2>4. QED
    BY <2>2, <2>3
<1>3. QED
  BY <1>2 DEF Alone

\* A step that leaves the row, the observer and the sendings of a run.
LEMMA RunKept ==
    ASSUME TypeOK, NEW r \in Runs, RowOk(r), CallersOk(r),
           run'[r] = run[r], observer'[r] = observer[r], sent'[r] = sent[r],
           unrecorded \subseteq unrecorded', together \subseteq together',
           \A d \in Callers :
               /\ Writes(d, r)' => Writes(d, r) \/ run[r].delivery = "failed"
               /\ Sends(d, r)' => \/ Sends(d, r) /\ call'[d].attempts = call[d].attempts
                                  \/ call'[d].attempts = run[r].attempts
               /\ Succeeds(d, r) => Succeeds(d, r)' \/ r \in unrecorded'
    PROVE  RowOk(r)' /\ CallersOk(r)'
<1>1. Failed(r)' <=> Failed(r)
  BY DEF Failed
<1>2. Told(r) => Told(r)' \/ r \in unrecorded'
  BY DEF Told
<1>3. RowOk(r)'
  BY <1>1, <1>2 DEF RowOk
<1>4. run[r].delivery = "failed" => Failed(r) /\ observer[r] = "ended"
  BY DEF Failed, RowOk, TypeOK
<1>5. ASSUME NEW d \in Callers, Writes(d, r)'
      PROVE  ~run[r].open /\ observer[r] = "ended" /\ (r \in together' \/ Failed(r))
  BY <1>4, <1>5 DEF CallersOk, Failed
<1>6. ASSUME NEW d \in Callers, Sends(d, r)'
      PROVE  r \in together' \/ call'[d].attempts = run[r].attempts
  BY <1>6 DEF CallersOk
<1>7. QED
  BY <1>1, <1>3, <1>5, <1>6 DEF CallersOk

\* A step of one call that leaves the rows, the observers and the sendings.
LEMMA CallerKept ==
    ASSUME IInv, TypeOK', OneBatch', NEW c \in Callers, TidyCall(c)',
           \A d \in Callers : d # c => call'[d] = call[d],
           UNCHANGED <<run, observer, sent>>,
           unrecorded \subseteq unrecorded', together \subseteq together',
           \A r \in Runs :
               /\ Holds(c, r)' => Holds(c, r) \/ Meets(c, {r}) \subseteq together'
               /\ Writes(c, r)' => Writes(c, r) \/ run[r].delivery = "failed"
               /\ Sends(c, r)' => \/ Sends(c, r) /\ call'[c].attempts = call[c].attempts
                                  \/ call'[c].attempts = run[r].attempts
               /\ Succeeds(c, r) => Succeeds(c, r)' \/ r \in unrecorded'
    PROVE  IInv'
<1>1. Tidy'
  BY DEF IInv, Tidy, TidyCall
<1>2. Alone'
  BY <1>1, AloneKept DEF IInv
<1>3. ASSUME NEW r \in Runs PROVE RowOk(r)' /\ CallersOk(r)'
  <2>1. ASSUME NEW d \in Callers, d # c
        PROVE  /\ Writes(d, r)' <=> Writes(d, r)
               /\ Sends(d, r)' <=> Sends(d, r)
               /\ Succeeds(d, r)' <=> Succeeds(d, r)
               /\ call'[d].attempts = call[d].attempts
    BY <2>1 DEF Writes, Sends, Succeeds
  <2>2. RowOk(r) /\ CallersOk(r) /\ TypeOK
    BY DEF IInv
  <2>3. QED
    BY <2>1, <2>2, RunKept
<1>4. QED
  BY <1>1, <1>2, <1>3 DEF IInv

\* A caller that writes a run no more than any other has seen it fail alone.
LEMMA OnlyWriter ==
    ASSUME IInv, NEW c \in Callers, NEW r \in Runs, Writes(c, r), r \notin together
    PROVE  /\ Failed(r) /\ observer[r] = "ended"
           /\ \A d \in Callers : d # c => ~Holds(d, r)
<1>1. Holds(c, r)
  BY DEF Writes, Holds, OnRun
<1>2. Failed(r) /\ observer[r] = "ended"
  BY DEF IInv, CallersOk
<1>3. QED
  BY <1>1, <1>2 DEF IInv, Alone

\* A step that writes the delivery of a run, and lets go of it.
LEMMA WriteKept ==
    ASSUME IInv, TypeOK', OneBatch', NEW c \in Callers, TidyCall(c)', NEW r \in Runs,
           \A d \in Callers : d # c => call'[d] = call[d],
           UNCHANGED <<observer, sent, unrecorded, together>>,
           Writes(c, r), ~Holds(c, r)', \A n \in Runs : Holds(c, n)' => Holds(c, n),
           \A n \in Runs : Writes(c, n)' => Writes(c, n),
           \A n \in Runs : ~Sends(c, n)',
           \A n \in Runs : n # r => run'[n] = run[n] /\ ~Succeeds(c, n),
           run'[r].open = run[r].open,
           Failed(r)' => run'[r].dead \/ run'[r].attempts < MaxAttempts \/ r \in together,
           Succeeds(c, r) => run'[r].delivery = "succeeded"
    PROVE  IInv'
<1>1. Tidy'
  BY DEF IInv, Tidy, TidyCall
<1>2. Alone'
  BY <1>1, AloneKept DEF IInv
<1>3. ASSUME NEW d \in Callers, d # c, NEW n \in Runs
      PROVE  /\ Writes(d, n)' <=> Writes(d, n)
             /\ Sends(d, n)' <=> Sends(d, n)
             /\ Succeeds(d, n)' <=> Succeeds(d, n)
             /\ call'[d].attempts = call[d].attempts
  BY <1>3 DEF Writes, Sends, Succeeds
<1>4. ASSUME NEW n \in Runs, n # r PROVE RowOk(n)' /\ CallersOk(n)'
  <2>1. RowOk(n) /\ CallersOk(n) /\ TypeOK
    BY DEF IInv
  <2>2. \A d \in Callers :
           /\ Writes(d, n)' => Writes(d, n) \/ run[n].delivery = "failed"
           /\ Sends(d, n)' => Sends(d, n) /\ call'[d].attempts = call[d].attempts
           /\ Succeeds(d, n) => Succeeds(d, n)'
    BY <1>3, <1>4
  <2>3. run'[n] = run[n] /\ observer'[n] = observer[n] /\ sent'[n] = sent[n]
    BY <1>4
  <2>4. QED
    BY <2>1, <2>2, <2>3, RunKept
<1>5. ~run[r].open /\ observer[r] = "ended" /\ RowOk(r)
  BY DEF IInv, CallersOk
<1>6. r \notin unrecorded \cup together => sent[r] = 0 \/ (sent[r] = 1 /\ Told(r)')
  <2>1. SUFFICES ASSUME r \notin unrecorded \cup together, sent[r] # 0
                 PROVE  sent[r] = 1 /\ Told(r)'
    OBVIOUS
  <2>2. sent[r] = 1 /\ Told(r)
    BY <1>5, <2>1 DEF RowOk
  <2>3. Failed(r) /\ \A d \in Callers : d # c => ~Succeeds(d, r)
    BY <2>1, OnlyWriter DEF Succeeds, Holds, OnRun
  <2>4. Succeeds(c, r)
    BY <1>5, <2>2, <2>3 DEF Told, Failed
  <2>5. QED
    BY <2>2, <2>4 DEF Told
<1>7. RowOk(r)'
  BY <1>5, <1>6 DEF RowOk, Failed
<1>8. CallersOk(r)'
  <2>1. \A d \in Callers : Writes(d, r)' \/ Sends(d, r)' => r \in together
    <3>1. ASSUME NEW d \in Callers, Writes(d, r)' \/ Sends(d, r)' PROVE r \in together
      <4>1. Holds(d, r)'
        BY <3>1 DEF Writes, Sends, Holds, OnRun
      <4>2. d # c
        BY <4>1
      <4>3. Holds(d, r)
        BY <4>1, <4>2 DEF Holds
      <4>4. QED
        BY <4>2, <4>3, OnlyWriter
    <3>2. QED
      BY <3>1
  <2>2. QED
    BY <1>5, <2>1 DEF CallersOk
<1>9. QED
  BY <1>1, <1>2, <1>4, <1>7, <1>8 DEF IInv

LEMMA SendInv == ASSUME IInv, TypeOK', NEW c \in Callers, Send(c) PROVE IInv'
<1>0. PICK r \in Runs : r = call[c].run
  BY DEF IInv, TypeOK, OnRun, Send
<1>1. TypeOK /\ r \in Runs /\ call[c].pc = "sending"
  BY DEF IInv, Send
<1>2. PICK outcome \in Outcomes :
        /\ Deliver(r, outcome)
        /\ call' = [call EXCEPT ![c].pc = "recording", ![c].outcome = outcome]
  BY <1>0 DEF Send
<1>3. /\ call'[c].pc = "recording" /\ call'[c].outcome = outcome
      /\ call'[c].attempts = call[c].attempts
      /\ call'[c].run = r /\ call'[c].todo = call[c].todo
      /\ \A d \in Callers : d # c => call'[d] = call[d]
  BY <1>0, <1>1, <1>2, SendFacts
<1>4. UNCHANGED <<task, run, observer, retrying, events, together>>
  BY DEF Send
<1>5. OneBatch'
  BY <1>1, <1>3, <1>4, OneBatchKept DEF IInv
<1>6. TidyCall(c) /\ TidyCall(c)'
  BY <1>0, <1>1, <1>3 DEF IInv, Tidy, TidyCall, OnRun
<1>7. Tidy'
  BY <1>3, <1>6 DEF IInv, Tidy, TidyCall
<1>8. \A d \in Callers, n \in Runs : /\ Holds(d, n)' <=> Holds(d, n)
                                     /\ Writes(d, n)' <=> Writes(d, n)
                                     /\ Sends(d, n)' <=> Sends(d, n)
                                     /\ Succeeds(d, n) => Succeeds(d, n)'
                                     /\ call'[d].attempts = call[d].attempts
  BY <1>0, <1>1, <1>3 DEF Holds, Writes, Sends, Succeeds, OnRun
<1>9. Alone'
  BY <1>4, <1>8 DEF IInv, Alone
<1>10. /\ unrecorded \subseteq unrecorded'
       /\ \A n \in Runs : n # r => sent'[n] = sent[n]
       /\ sent'[r] = sent[r] \/ sent'[r] = sent[r] + 1
       /\ sent'[r] = sent[r] \/ r \in unrecorded' \/ outcome = "succeeded"
  BY <1>1, <1>2, DeliverFacts
<1>11. ASSUME NEW n \in Runs, n # r PROVE RowOk(n)' /\ CallersOk(n)'
  <2>1. RowOk(n) /\ CallersOk(n)
    BY DEF IInv
  <2>2. run'[n] = run[n] /\ observer'[n] = observer[n] /\ sent'[n] = sent[n]
    BY <1>4, <1>10, <1>11
  <2>3. QED
    BY <1>1, <1>4, <1>8, <1>10, <2>1, <2>2, RunKept
<1>12. Writes(c, r) /\ observer[r] = "ended" /\ RowOk(r) /\ CallersOk(r)
  BY <1>0, <1>1 DEF IInv, CallersOk, Writes
<1>13. r \notin unrecorded' \cup together => sent'[r] = 0 \/ (sent'[r] = 1 /\ Told(r)')
  <2>1. SUFFICES ASSUME r \notin unrecorded', r \notin together
                 PROVE  sent'[r] = 0 \/ (sent'[r] = 1 /\ Told(r)')
    OBVIOUS
  <2>2. Failed(r) /\ \A d \in Callers : d # c => ~Succeeds(d, r)
    BY <1>1, <1>12, <2>1, OnlyWriter DEF Succeeds, Holds, OnRun
  <2>3. ~Told(r)
    BY <1>1, <1>12, <2>2 DEF Told, Failed, Succeeds
  <2>4. sent[r] = 0
    BY <1>10, <1>12, <2>1, <2>3 DEF RowOk
  <2>5. outcome = "succeeded" => Told(r)'
    BY <1>3 DEF Told, Succeeds
  <2>6. QED
    BY <1>10, <2>1, <2>4, <2>5
<1>14. RowOk(r)' /\ CallersOk(r)'
  BY <1>4, <1>8, <1>12, <1>13 DEF RowOk, CallersOk, Failed
<1>15. QED
  BY <1>5, <1>7, <1>9, <1>11, <1>14 DEF IInv

\* The observer of a run, or who cancels the run, leaves the calls.
LEMMA ObserverKept ==
    ASSUME IInv, TypeOK', NEW r \in Runs,
           UNCHANGED <<retrying, call, together>>, unrecorded \subseteq unrecorded',
           \A n \in Runs : n # r => run'[n] = run[n] /\ observer'[n] = observer[n] /\ sent'[n] = sent[n],
           RowOk(r)' /\ CallersOk(r)'
    PROVE  IInv'
<1>1. OneBatch' /\ Tidy' /\ Alone'
  BY DEF IInv, OneBatch, Tidy, TidyCall, Alone, Holds
<1>2. ASSUME NEW n \in Runs, n # r PROVE RowOk(n)' /\ CallersOk(n)'
  <2>1. RowOk(n) /\ CallersOk(n) /\ TypeOK
    BY DEF IInv
  <2>2. \A d \in Callers : /\ Writes(d, n)' => Writes(d, n)
                           /\ Sends(d, n)' => Sends(d, n) /\ call'[d].attempts = call[d].attempts
                           /\ Succeeds(d, n) => Succeeds(d, n)'
    BY DEF Writes, Sends, Succeeds
  <2>3. run'[n] = run[n] /\ observer'[n] = observer[n] /\ sent'[n] = sent[n]
    BY <1>2
  <2>4. QED
    BY <2>1, <2>2, <2>3, RunKept
<1>3. QED
  BY <1>1, <1>2 DEF IInv

\* No caller writes a run that is open or observed, or sends its result.
LEMMA NoWriter ==
    ASSUME IInv, NEW r \in Runs, run[r].open \/ observer[r] # "ended"
    PROVE  \A c \in Callers : ~Writes(c, r) /\ ~Sends(c, r) /\ ~Succeeds(c, r)
  BY DEF IInv, CallersOk, Writes, Sends, Succeeds

LEMMA ObserveInv == ASSUME IInv, TypeOK', NEW r \in Runs, ObserveEnd(r) PROVE IInv'
<1>1. /\ TypeOK /\ RowOk(r) /\ observer[r] = "running"
      /\ UNCHANGED <<run, retrying, call, together>>
  BY DEF IInv, ObserveEnd
<1>2. PICK outcome \in Outcomes :
        Deliver(r, outcome) /\ observer' = [observer EXCEPT ![r] = outcome]
  BY DEF ObserveEnd
<1>3. /\ observer'[r] = outcome /\ outcome # "running"
      /\ \A n \in Runs : n # r => observer'[n] = observer[n]
  BY <1>1, <1>2 DEF TypeOK, Outcomes
<1>4. /\ unrecorded \subseteq unrecorded'
      /\ \A n \in Runs : n # r => sent'[n] = sent[n]
      /\ sent'[r] = sent[r] \/ sent'[r] = sent[r] + 1
      /\ sent'[r] = sent[r] \/ r \in unrecorded' \/ outcome = "succeeded"
  BY <1>1, <1>2, DeliverFacts
<1>5. sent[r] = 0 /\ run[r].delivery = "other"
  BY <1>1 DEF RowOk
<1>6. RowOk(r)'
  BY <1>1, <1>3, <1>4, <1>5 DEF RowOk, Told, Failed
<1>7. CallersOk(r)'
  BY <1>1, NoWriter DEF CallersOk, Writes, Sends
<1>8. QED
  BY <1>1, <1>3, <1>4, <1>6, <1>7, ObserverKept

LEMMA FinishInv == ASSUME IInv, TypeOK', NEW r \in Runs, FinishRun(r) PROVE IInv'
<1>1. /\ TypeOK /\ RowOk(r) /\ UNCHANGED <<retrying, call, sent, together>>
  BY DEF IInv, FinishRun
<1>2. observer'[r] = "ended" /\ \A n \in Runs : n # r => observer'[n] = observer[n]
  BY <1>1 DEF FinishRun, TypeOK
<1>3. /\ observer[r] \in Outcomes
      /\ \A n \in Runs : n # r => run'[n] = run[n]
      /\ \/ /\ run[r].open /\ ~run'[r].open
            /\ run'[r].delivery = observer[r]
            /\ observer[r] = "failed" =>
                  /\ run'[r].attempts = run[r].attempts + 1
                  /\ run'[r].dead \/ 1 < MaxAttempts
            /\ UNCHANGED unrecorded
         \/ /\ UNCHANGED run
            /\ unrecorded' = IF observer[r] = "succeeded" THEN unrecorded \cup {r} ELSE unrecorded
  BY <1>1, FinishFacts
<1>4. observer[r] # "ended" /\ observer[r] # "running"
  BY <1>3 DEF Outcomes
<1>5. \A c \in Callers : ~Writes(c, r) /\ ~Sends(c, r) /\ ~Succeeds(c, r)
  BY <1>4, NoWriter
<1>6. CallersOk(r)'
  BY <1>1, <1>5 DEF CallersOk, Writes, Sends
<1>7. run[r].delivery = "other"
  BY <1>1, <1>4 DEF RowOk
<1>8. Told(r) <=> observer[r] = "succeeded"
  BY <1>5, <1>7 DEF Told
<1>9. RowOk(r)'
  <2>1. CASE run[r].open /\ ~run'[r].open /\ run'[r].delivery = observer[r] /\ UNCHANGED unrecorded
    <3>1. Told(r) => Told(r)'
      BY <1>8, <2>1 DEF Told
    <3>2. run[r].attempts = 0
      BY <1>1, <2>1 DEF RowOk
    <3>3. Failed(r)' => run'[r].dead \/ run'[r].attempts < MaxAttempts
      BY <1>3, <2>1, <3>2 DEF Failed
    <3>4. QED
      BY <1>1, <1>2, <2>1, <3>1, <3>3 DEF RowOk
  <2>2. CASE /\ UNCHANGED run
             /\ unrecorded' = IF observer[r] = "succeeded" THEN unrecorded \cup {r} ELSE unrecorded
    BY <1>1, <1>2, <1>7, <1>8, <2>2 DEF RowOk, Failed
  <2>3. QED
    BY <1>3, <2>1, <2>2
<1>10. unrecorded \subseteq unrecorded'
  BY <1>3
<1>11. QED
  BY <1>1, <1>2, <1>3, <1>6, <1>9, <1>10, ObserverKept

LEMMA CancelInv == ASSUME IInv, TypeOK', NEW r \in Runs, CancelRun(r) PROVE IInv'
<1>1. /\ TypeOK /\ RowOk(r) /\ run[r].open
      /\ UNCHANGED <<observer, retrying, call, sent, unrecorded, together>>
  BY DEF IInv, CancelRun
<1>2. /\ run'[r].open = FALSE /\ run'[r].delivery = "other"
      /\ \A n \in Runs : n # r => run'[n] = run[n]
  BY <1>1, CancelFacts
<1>3. \A c \in Callers : ~Writes(c, r) /\ ~Sends(c, r) /\ ~Succeeds(c, r)
  BY <1>1, NoWriter
<1>4. CallersOk(r)'
  BY <1>1, <1>3 DEF CallersOk, Writes, Sends
<1>5. Told(r) => Told(r)'
  BY <1>1, <1>2, <1>3 DEF Told, RowOk
<1>6. RowOk(r)'
  BY <1>1, <1>2, <1>5 DEF RowOk, Failed
<1>7. QED
  BY <1>1, <1>2, <1>4, <1>6, ObserverKept

LEMMA CrashInv == ASSUME IInv, TypeOK', Crash PROVE IInv'
<1>1. /\ TypeOK /\ UNCHANGED <<run, sent, together>> /\ unrecorded \subseteq unrecorded'
      /\ \A r \in Runs : observer'[r] = "ended"
      /\ \A c \in Callers : call'[c].pc \in {"idle", "done"} /\ call'[c].todo = {}
      /\ \A b \in Batches : call'[b].pc = "idle"
  BY CrashFacts DEF IInv, Crash
<1>2. OneBatch' /\ Tidy' /\ Alone'
  BY <1>1 DEF OneBatch, Tidy, TidyCall, Alone, Holds, OnRun
<1>3. ASSUME NEW r \in Runs PROVE RowOk(r)' /\ CallersOk(r)'
  <2>1. CallersOk(r)'
    BY <1>1 DEF CallersOk, Writes, Sends
  <2>2. Told(r) => Told(r)' \/ r \in unrecorded'
    BY <1>1 DEF Told, Succeeds, Crash
  <2>3. RowOk(r)
    BY DEF IInv
  <2>4. QED
    BY <1>1, <2>1, <2>2, <2>3 DEF RowOk, Failed
<1>4. QED
  BY <1>2, <1>3 DEF IInv

\* A call that holds nothing any more.
LEMMA LetGo ==
    ASSUME IInv, TypeOK', OneBatch', NEW c \in Callers, TidyCall(c)',
           \A d \in Callers : d # c => call'[d] = call[d],
           UNCHANGED <<run, observer, sent>>,
           unrecorded \subseteq unrecorded', UNCHANGED together,
           call'[c].pc \notin OnRun, call'[c].todo \subseteq call[c].todo,
           \A r \in Runs : Succeeds(c, r) => r \in unrecorded'
    PROVE  IInv'
<1>1. \A r \in Runs : /\ Holds(c, r)' => Holds(c, r)
                      /\ Writes(c, r)' => Writes(c, r)
                      /\ ~Sends(c, r)'
  BY DEF Holds, Writes, Sends, OnRun
<1>2. QED
  BY <1>1, CallerKept

LEMMA BeginInv == ASSUME IInv, TypeOK', NEW b \in Batches, BeginBatch(b) PROVE IInv'
<1>1. /\ TypeOK /\ b \in Callers /\ "listing" \in CallPCs /\ call[b].pc = "idle" /\ ~retrying
      /\ retrying' /\ Goto(b, "listing")
      /\ UNCHANGED <<run, observer, sent, unrecorded, together>>
  BY DEF IInv, Callers, CallPCs, BeginBatch
<1>2. /\ call'[b].pc = "listing" /\ call'[b].todo = call[b].todo
      /\ \A d \in Callers : d # b => call'[d] = call[d]
  BY <1>1, GotoFacts
<1>3. call'[b].todo = {} /\ b \notin Requests
  BY <1>1, <1>2, CallersAssumption DEF IInv, Tidy, TidyCall
<1>4. TidyCall(b)'
  BY <1>2, <1>3 DEF TidyCall, OnRun
<1>5. OneBatch'
  BY <1>1, <1>2 DEF IInv, OneBatch, Callers
<1>6. QED
  BY <1>1, <1>2, <1>3, <1>4, <1>5, LetGo DEF OnRun, Succeeds

\* The batch ends: another one may begin.
LEMMA EndInv ==
    ASSUME IInv, TypeOK', NEW b \in Batches, call[b].pc \in {"listing", "picking"},
           call' = [call EXCEPT ![b] = NoCall], retrying' = FALSE,
           UNCHANGED <<run, observer, sent, unrecorded, together>>
    PROVE  IInv'
<1>1. /\ TypeOK /\ b \in Callers /\ b \notin Requests
      /\ call'[b].pc = "idle" /\ call'[b].todo = {}
      /\ \A d \in Callers : d # b => call'[d] = call[d]
  BY EndFacts, CallersAssumption DEF IInv, Callers
<1>2. TidyCall(b)'
  BY <1>1 DEF TidyCall, OnRun
<1>3. OneBatch'
  BY <1>1 DEF IInv, OneBatch, Callers
<1>4. QED
  BY <1>1, <1>2, <1>3, LetGo DEF OnRun, Succeeds

\* A call takes a list of failed runs.
LEMMA ListInv ==
    ASSUME IInv, TypeOK', NEW c \in Callers, NEW label \in CallPCs, NEW rs \in SUBSET Runs,
           label \notin OnRun, call[c].pc \in {"listing", "deleting"},
           label = (IF c \in Batches THEN "picking" ELSE "row"),
           call' = [call EXCEPT ![c].pc = label, ![c].todo = rs],
           together' = together \cup Meets(c, rs),
           \A r \in rs : run[r].delivery = "failed",
           UNCHANGED <<retrying, run, observer, sent, unrecorded>>
    PROVE  IInv'
<1>1. /\ TypeOK /\ call'[c].pc = label /\ call'[c].todo = rs
      /\ \A d \in Callers : d # c => call'[d] = call[d]
  BY ZenonT(40), ListFacts DEF IInv
<1>2. TidyCall(c)'
  BY <1>1, CallersAssumption DEF TidyCall, OnRun, Callers
<1>3. OneBatch'
  BY <1>1, OneBatchKept DEF IInv
<1>4. \A r \in Runs : /\ Holds(c, r)' => Meets(c, {r}) \subseteq together'
                      /\ Writes(c, r)' => run[r].delivery = "failed"
                      /\ ~Sends(c, r)' /\ ~Succeeds(c, r)
  BY <1>1 DEF Holds, Writes, Sends, Succeeds, OnRun, Meets
<1>5. QED
  BY <1>1, <1>2, <1>3, <1>4, CallerKept

LEMMA PickInv == ASSUME IInv, TypeOK', NEW b \in Batches, PickRun(b) PROVE IInv'
<1>1. /\ TypeOK /\ b \in Callers /\ b \notin Requests /\ call[b].pc = "picking"
      /\ UNCHANGED <<retrying, run, observer, sent, unrecorded, together>>
  BY CallersAssumption DEF IInv, Callers, PickRun
<1>2. PICK r \in call[b].todo :
        /\ call'[b].todo = call[b].todo \ {r}
        /\ \A d \in Callers : d # b => call'[d] = call[d]
        /\ \/ call'[b].pc \in {"finding", "burying"} /\ call'[b].run = r
           \/ call'[b].pc = "picking" /\ call'[b].run = call[b].run
  BY <1>1, PickCases
<1>3. TidyCall(b)'
  BY <1>1, <1>2 DEF TidyCall, OnRun
<1>4. OneBatch'
  BY <1>1, <1>2, OneBatchKept DEF IInv
<1>5. \A n \in Runs : /\ Holds(b, n)' => Holds(b, n)
                      /\ Writes(b, n)' => Writes(b, n)
                      /\ ~Sends(b, n)' /\ ~Succeeds(b, n)
  BY <1>1, <1>2 DEF Holds, Writes, Sends, Succeeds, OnRun
<1>6. QED
  BY <1>1, <1>2, <1>3, <1>4, <1>5, CallerKept

\* A call is done with its run.
LEMMA ReturnInv ==
    ASSUME IInv, TypeOK', NEW c \in Callers, call[c].pc \in OnRun, Return(c),
           UNCHANGED <<retrying, run, observer, sent, together>>,
           unrecorded \subseteq unrecorded',
           \A r \in Runs : Succeeds(c, r) => r \in unrecorded'
    PROVE  IInv'
<1>1. /\ TypeOK /\ call'[c].pc = (IF c \in Batches THEN "picking" ELSE "done")
      /\ call'[c].todo = call[c].todo
      /\ \A d \in Callers : d # c => call'[d] = call[d]
  BY ReturnFacts DEF IInv
<1>2. TidyCall(c)'
  BY <1>1, CallersAssumption DEF IInv, Tidy, TidyCall, OnRun, Callers
<1>3. OneBatch'
  BY <1>1, OneBatchKept DEF IInv, OnRun
<1>4. QED
  BY <1>1, <1>2, <1>3, LetGo DEF OnRun

LEMMA WriteReturnInv ==
    ASSUME IInv, TypeOK', NEW c \in Callers, NEW r \in Runs, call[c].run = r,
           call[c].pc \in {"burying", "recording"}, Return(c),
           UNCHANGED <<retrying, observer, sent, unrecorded, together>>,
           \A n \in Runs : n # r => run'[n] = run[n],
           run'[r].open = run[r].open,
           Failed(r)' => run'[r].dead \/ run'[r].attempts < MaxAttempts \/ r \in together,
           call[c].pc = "recording" => run'[r].delivery = call[c].outcome
    PROVE  IInv'
<1>1. /\ TypeOK /\ call'[c].pc = (IF c \in Batches THEN "picking" ELSE "done")
      /\ call'[c].todo = call[c].todo /\ r \notin call[c].todo
      /\ \A d \in Callers : d # c => call'[d] = call[d]
  BY ReturnFacts DEF IInv, Tidy, TidyCall, OnRun
<1>2. TidyCall(c)'
  BY <1>1, CallersAssumption DEF IInv, Tidy, TidyCall, OnRun, Callers
<1>3. OneBatch'
  BY <1>1, OneBatchKept DEF IInv
<1>4. /\ Writes(c, r) /\ ~Holds(c, r)'
      /\ \A n \in Runs : /\ Holds(c, n)' => Holds(c, n)
                         /\ Writes(c, n)' => Writes(c, n)
                         /\ ~Sends(c, n)'
                         /\ n # r => ~Succeeds(c, n)
      /\ Succeeds(c, r) => run'[r].delivery = "succeeded"
  BY <1>1 DEF Holds, Writes, Sends, Succeeds, OnRun
<1>5. QED
  BY <1>1, <1>2, <1>3, <1>4, WriteKept

LEMMA BuryInv == ASSUME IInv, TypeOK', NEW b \in Batches, BuryRun(b) PROVE IInv'
<1>0. PICK r \in Runs : r = call[b].run
  BY DEF IInv, TypeOK, OnRun, BuryRun, Callers
<1>1. /\ TypeOK /\ b \in Callers /\ call[b].pc = "burying" /\ Return(b)
      /\ UNCHANGED <<retrying, observer, sent, unrecorded, together>>
  BY DEF IInv, Callers, BuryRun
<1>2. CASE UNCHANGED run
  BY <1>1, <1>2, ReturnInv DEF OnRun, Succeeds
<1>3. CASE run' = [run EXCEPT ![r].delivery = "failed", ![r].dead = TRUE]
  <2>1. /\ run'[r].open = run[r].open /\ run'[r].dead = TRUE
        /\ \A n \in Runs : n # r => run'[n] = run[n]
    BY <1>1, <1>3, BuryFacts
  <2>2. QED
    BY <1>0, <1>1, <2>1, WriteReturnInv
<1>4. QED
  BY <1>0, <1>2, <1>3 DEF BuryRun

LEMMA FindInv == ASSUME IInv, TypeOK', NEW c \in Callers, FindTask(c) PROVE IInv'
<1>1. /\ TypeOK /\ call[c].pc = "finding" /\ "reading" \in CallPCs
      /\ UNCHANGED <<retrying, run, observer, sent, unrecorded, together>>
  BY DEF IInv, FindTask, CallPCs, OnRun
<1>2. CASE Return(c)
  BY <1>1, <1>2, ReturnInv DEF OnRun, Succeeds
<1>3. CASE Goto(c, "reading")
  <2>1. /\ call'[c].pc = "reading" /\ call'[c].run = call[c].run /\ call'[c].todo = call[c].todo
        /\ \A d \in Callers : d # c => call'[d] = call[d]
    BY <1>1, <1>3, GotoFacts
  <2>2. TidyCall(c)'
    BY <1>1, <2>1 DEF IInv, Tidy, TidyCall, OnRun
  <2>3. OneBatch'
    BY <1>1, <2>1, OneBatchKept DEF IInv
  <2>4. \A r \in Runs : /\ Holds(c, r)' => Holds(c, r)
                        /\ Writes(c, r)' => Writes(c, r)
                        /\ ~Sends(c, r)' /\ ~Succeeds(c, r)
    BY <1>1, <2>1 DEF Holds, Writes, Sends, Succeeds, OnRun
  <2>5. QED
    BY <1>1, <2>1, <2>2, <2>3, <2>4, CallerKept
<1>4. QED
  BY <1>2, <1>3 DEF FindTask

LEMMA ReadInv == ASSUME IInv, TypeOK', NEW c \in Callers, ReadRun(c) PROVE IInv'
<1>0. PICK r \in Runs : r = call[c].run
  BY DEF IInv, TypeOK, OnRun, ReadRun
<1>1. /\ TypeOK /\ call[c].pc = "reading"
      /\ UNCHANGED <<retrying, run, observer, sent, unrecorded, together>>
  BY DEF IInv, ReadRun
<1>2. CASE Return(c)
  BY <1>1, <1>2, ReturnInv DEF OnRun, Succeeds
<1>3. CASE Failed(r) /\ call' = [call EXCEPT ![c].pc = "sending", ![c].attempts = run[r].attempts]
  <2>1. run[r].attempts \in Nat
    BY <1>1 DEF TypeOK
  <2>2. /\ call'[c].pc = "sending" /\ call'[c].attempts = run[r].attempts
        /\ call'[c].run = call[c].run /\ call'[c].todo = call[c].todo
        /\ \A d \in Callers : d # c => call'[d] = call[d]
    BY <1>1, <1>3, <2>1, ReadFacts
  <2>3. TidyCall(c)'
    BY <1>1, <2>2 DEF IInv, Tidy, TidyCall, OnRun
  <2>4. OneBatch'
    BY <1>1, <2>2, OneBatchKept DEF IInv
  <2>5. \A n \in Runs : /\ Holds(c, n)' => Holds(c, n)
                        /\ Writes(c, n)' => Writes(c, n) \/ run[n].delivery = "failed"
                        /\ Sends(c, n)' => call'[c].attempts = run[n].attempts
                        /\ ~Succeeds(c, n)
    BY <1>0, <1>1, <1>3, <2>2 DEF Holds, Writes, Sends, Succeeds, OnRun, Failed
  <2>6. QED
    BY <1>1, <2>2, <2>3, <2>4, <2>5, CallerKept
<1>4. QED
  BY <1>0, <1>2, <1>3 DEF ReadRun

\* The number of attempts is the one the caller has read, or another caller
\* was at the run too.
LEMMA RecordInv == ASSUME IInv, TypeOK', NEW c \in Callers, Record(c) PROVE IInv'
<1>0. PICK r \in Runs : r = call[c].run
  BY DEF IInv, TypeOK, OnRun, Record
<1>1. /\ TypeOK /\ call[c].pc = "recording" /\ Return(c)
      /\ UNCHANGED <<retrying, observer, sent, together>>
      /\ run \in [Runs -> Rows] /\ call[c].outcome \in Outcomes /\ call[c].attempts \in Nat
  BY DEF IInv, Record, TypeOK, Rows
<1>2. CASE /\ UNCHANGED run
           /\ unrecorded' = IF call[c].outcome = "succeeded" THEN unrecorded \cup {r} ELSE unrecorded
  <2>1. /\ unrecorded \subseteq unrecorded'
        /\ \A n \in Runs : Succeeds(c, n) => n \in unrecorded'
    BY <1>0, <1>2 DEF Succeeds
  <2>2. QED
    BY <1>1, <1>2, <2>1, ReturnInv DEF OnRun
<1>3. CASE /\ run' = [run EXCEPT ![r] = Attempt(run[r], call[c].outcome, call[c].attempts)]
           /\ UNCHANGED unrecorded
  <2> DEFINE new == Attempt(run[r], call[c].outcome, call[c].attempts)
  <2>1. /\ new \in Rows /\ new.open = run[r].open /\ new.delivery = call[c].outcome
        /\ call[c].outcome = "failed" =>
              /\ new.attempts = run[r].attempts + 1
              /\ new.dead \/ call[c].attempts + 1 < MaxAttempts
    <3>1. PICK row \in Rows, outcome \in Outcomes, read \in Nat :
             row = run[r] /\ outcome = call[c].outcome /\ read = call[c].attempts
      BY <1>1
    <3>2. /\ Attempt(row, outcome, read) \in Rows
          /\ Attempt(row, outcome, read).open = row.open
          /\ Attempt(row, outcome, read).delivery = outcome
          /\ outcome = "failed" => Attempt(row, outcome, read).attempts = row.attempts + 1
          /\ outcome = "failed" =>
                 Attempt(row, outcome, read).dead \/ read + 1 < MaxAttempts
      BY AttemptFacts, Zenon
    <3>3. QED
      BY <3>1, <3>2
  <2>2. run'[r] = new /\ \A n \in Runs : n # r => run'[n] = run[n]
    BY <1>1, <1>3
  <2> HIDE DEF new
  <2>3. r \in together \/ call[c].attempts = run[r].attempts
    BY <1>0, <1>1 DEF IInv, CallersOk, Sends
  <2>4. Failed(r)' => run'[r].dead \/ run'[r].attempts < MaxAttempts \/ r \in together
    BY <2>1, <2>2, <2>3 DEF Failed
  <2>5. run'[r].open = run[r].open /\ run'[r].delivery = call[c].outcome
    BY <2>1, <2>2
  <2>6. QED
    BY <1>0, <1>1, <1>3, <2>2, <2>4, <2>5, WriteReturnInv
<1>4. QED
  BY <1>0, <1>2, <1>3 DEF Record

LEMMA RequestRetryInv ==
    ASSUME IInv, TypeOK', NEW q \in Requests, NEW r \in Runs, RequestRetry(q, r) PROVE IInv'
<1>1. /\ TypeOK /\ q \in Callers /\ q \notin Batches /\ call[q].pc = "idle"
      /\ together' = together \cup Meets(q, {r})
      /\ UNCHANGED <<retrying, run, observer, sent, unrecorded>>
  BY CallersAssumption DEF IInv, Callers, RequestRetry
<1>2. /\ call'[q].pc = "finding" /\ call'[q].run = r /\ call'[q].todo = call[q].todo
      /\ \A d \in Callers : d # q => call'[d] = call[d]
  BY <1>1, RequestFacts DEF RequestRetry
<1>3. call'[q].todo = {}
  BY <1>1, <1>2 DEF IInv, Tidy, TidyCall
<1>4. TidyCall(q)'
  BY <1>1, <1>2, <1>3 DEF TidyCall
<1>5. OneBatch'
  BY <1>1, <1>2, OneBatchKept DEF IInv
<1>6. \A n \in Runs : /\ Holds(q, n)' => Meets(q, {n}) \subseteq together'
                      /\ ~Writes(q, n)' /\ ~Sends(q, n)' /\ ~Succeeds(q, n)
  BY <1>1, <1>2, <1>3 DEF Holds, Writes, Sends, Succeeds, OnRun
<1>7. QED
  BY <1>1, <1>2, <1>4, <1>5, <1>6, CallerKept

\* A request that waits for nothing or is over, without a list.
LEMMA GotoInv ==
    ASSUME IInv, TypeOK', NEW q \in Requests, NEW label \in {"deleting", "done"}, Goto(q, label),
           call[q].pc \in {"idle", "deleting", "row"}, call[q].todo = {},
           UNCHANGED <<retrying, run, observer, sent, unrecorded, together>>
    PROVE  IInv'
<1>1. TypeOK /\ q \in Callers /\ q \notin Batches /\ label \in CallPCs
  BY CallersAssumption DEF IInv, Callers, CallPCs
<1>2. /\ call'[q].pc = label /\ call'[q].todo = call[q].todo
      /\ \A d \in Callers : d # q => call'[d] = call[d]
  BY <1>1, GotoFacts
<1>3. TidyCall(q)'
  BY <1>1, <1>2 DEF TidyCall, OnRun
<1>4. OneBatch'
  BY <1>1, <1>2, OneBatchKept DEF IInv
<1>5. QED
  BY <1>1, <1>2, <1>3, <1>4, LetGo DEF OnRun, Succeeds

LEMMA BuryPendingInv == ASSUME IInv, TypeOK', NEW q \in Requests, BuryPending(q) PROVE IInv'
<1>1. /\ TypeOK /\ q \in Callers /\ q \notin Batches /\ call[q].pc = "row"
      /\ UNCHANGED <<retrying, observer, sent, unrecorded, together>>
  BY CallersAssumption DEF IInv, Callers, BuryPending
<1>2. PICK r \in call[q].todo :
        \/ /\ run' = [run EXCEPT ![r].delivery = "failed", ![r].dead = TRUE]
           /\ call' = [call EXCEPT ![q].todo = call[q].todo \ {r}]
        \/ /\ call' = [call EXCEPT ![q] = [NoCall EXCEPT !.pc = "done"]]
           /\ UNCHANGED run
  BY DEF BuryPending
<1>3. r \in Runs
  BY <1>1 DEF TypeOK
<1>4. CASE /\ run' = [run EXCEPT ![r].delivery = "failed", ![r].dead = TRUE]
           /\ call' = [call EXCEPT ![q].todo = call[q].todo \ {r}]
  <2>1. call[q].todo \ {r} \in SUBSET Runs
    BY <1>1 DEF TypeOK
  <2>2. /\ call'[q].todo = call[q].todo \ {r} /\ call'[q].pc = "row"
        /\ \A d \in Callers : d # q => call'[d] = call[d]
    BY <1>1, <1>4, <2>1, TodoFacts
  <2>3. /\ run'[r].open = run[r].open /\ run'[r].dead = TRUE
        /\ \A n \in Runs : n # r => run'[n] = run[n]
    BY <1>1, <1>3, <1>4, BuryFacts
  <2>4. TidyCall(q)'
    BY <1>1, <2>2 DEF TidyCall, OnRun
  <2>5. OneBatch'
    BY <1>1, <2>2, OneBatchKept DEF IInv
  <2>6. /\ Writes(q, r) /\ ~Holds(q, r)'
        /\ \A n \in Runs : /\ Holds(q, n)' => Holds(q, n)
                           /\ Writes(q, n)' => Writes(q, n)
                           /\ ~Sends(q, n)' /\ ~Succeeds(q, n)
    BY <1>1, <2>2 DEF Holds, Writes, Sends, Succeeds, OnRun
  <2>7. QED
    BY <1>1, <1>3, <2>2, <2>3, <2>4, <2>5, <2>6, WriteKept
<1>5. CASE call' = [call EXCEPT ![q] = [NoCall EXCEPT !.pc = "done"]] /\ UNCHANGED run
  <2>1. /\ call'[q].pc = "done" /\ call'[q].todo = {}
        /\ \A d \in Callers : d # q => call'[d] = call[d]
    BY <1>1, <1>5, NoCallType DEF TypeOK
  <2>2. TidyCall(q)'
    BY <1>1, <2>1 DEF TidyCall, OnRun
  <2>3. OneBatch'
    BY <1>1, <2>1, OneBatchKept DEF IInv
  <2>4. QED
    BY <1>1, <1>5, <2>1, <2>2, <2>3, LetGo DEF OnRun, Succeeds
<1>6. QED
  BY <1>2, <1>4, <1>5

LEMMA BatchInv == ASSUME IInv, TypeOK', NEW b \in Batches, BatchSteps(b) PROVE IInv'
<1>1. TypeOK /\ b \in Callers /\ Due \in SUBSET Runs /\ "picking" \in CallPCs
  BY DEF IInv, Callers, Due, CallPCs
<1>2. CASE BeginBatch(b)
  BY <1>2, BeginInv
<1>3. CASE ListDue(b)
  <2>1. ASSUME NEW due \in SUBSET Due,
               call' = [call EXCEPT ![b].pc = "picking", ![b].todo = due],
               together' = together \cup Meets(b, due), UNCHANGED retrying
        PROVE  IInv'
    <3>1. /\ "picking" \notin OnRun /\ due \in SUBSET Runs
          /\ \A r \in due : run[r].delivery = "failed"
      BY <1>1 DEF OnRun, Due
    <3>2. QED
      BY <1>1, <1>3, <2>1, <3>1, ListInv DEF ListDue
  <2>2. CASE call' = [call EXCEPT ![b] = NoCall] /\ retrying' = FALSE /\ UNCHANGED together
    BY <1>1, <1>3, <2>2, EndInv DEF ListDue
  <2>3. QED
    BY <1>3, <2>1, <2>2 DEF ListDue
<1>4. CASE PickRun(b)
  BY <1>4, PickInv
<1>5. CASE BuryRun(b)
  BY <1>5, BuryInv
<1>6. CASE Retry(b)
  BY <1>1, <1>6, FindInv, ReadInv, SendInv, RecordInv DEF Retry
<1>7. CASE EndBatch(b)
  BY <1>7, EndInv DEF EndBatch
<1>8. QED
  BY <1>2, <1>3, <1>4, <1>5, <1>6, <1>7 DEF BatchSteps

LEMMA RequestInv ==
    ASSUME IInv, TypeOK', NEW q \in Requests,
           RequestDelete(q) \/ RequestSteps(q) \/ \E r \in Runs : RequestRetry(q, r)
    PROVE  IInv'
<1>1. TypeOK /\ q \in Callers /\ q \notin Batches /\ Tidy /\ TidyCall(q)
  BY CallersAssumption DEF IInv, Callers, Tidy
<1>2. CASE RequestDelete(q)
  BY <1>1, <1>2, GotoInv DEF RequestDelete, TidyCall
<1>3. CASE ListPending(q)
  <2>1. CASE Goto(q, "done") /\ UNCHANGED together
    BY <1>1, <1>3, <2>1, GotoInv DEF ListPending, TidyCall
  <2>2. PICK pending \in SUBSET Runs : pending = {r \in Runs : Failed(r) /\ ~run[r].dead}
    OBVIOUS
  <2>3. CASE /\ call' = [call EXCEPT ![q].pc = "row", ![q].todo = pending]
             /\ together' = together \cup Meets(q, pending)
    <3>1. "row" \in CallPCs /\ "row" \notin OnRun /\ \A r \in pending : run[r].delivery = "failed"
      BY <2>2 DEF CallPCs, OnRun, Failed
    <3>2. QED
      BY <1>1, <1>3, <2>3, <3>1, ListInv DEF ListPending
  <2>4. QED
    BY <1>3, <2>1, <2>2, <2>3 DEF ListPending
<1>4. CASE BuryPending(q)
  BY <1>4, BuryPendingInv
<1>5. CASE DeleteRow(q)
  BY <1>1, <1>5, GotoInv DEF DeleteRow
<1>6. CASE Retry(q)
  BY <1>1, <1>6, FindInv, ReadInv, SendInv, RecordInv DEF Retry
<1>7. CASE \E r \in Runs : RequestRetry(q, r)
  BY <1>7, RequestRetryInv
<1>8. QED
  BY <1>2, <1>3, <1>4, <1>5, <1>6, <1>7 DEF RequestSteps

LEMMA InvNext == ASSUME IInv, [Next]_vars PROVE IInv'
<1>1. TypeOK'
  BY TypeNext DEF IInv
<1>2. CASE UNCHANGED vars
  BY <1>1, <1>2 DEF vars, IInv, OneBatch, Tidy, TidyCall, Alone, Holds, RowOk, CallersOk, Failed,
     Told, Writes, Sends, Succeeds
<1>3. CASE UpdateTask
  BY <1>1, <1>3 DEF UpdateTask, IInv, OneBatch, Tidy, TidyCall, Alone, Holds, RowOk, CallersOk,
     Failed, Told, Writes, Sends, Succeeds
<1>4. CASE Crash
  BY <1>1, <1>4, CrashInv
<1>5. CASE \E r \in Runs : ObserveEnd(r) \/ FinishRun(r) \/ CancelRun(r)
  BY <1>1, <1>5, ObserveInv, FinishInv, CancelInv
<1>6. CASE \E b \in Batches : BatchSteps(b)
  BY <1>1, <1>6, BatchInv
<1>7. CASE \E q \in Requests : RequestDelete(q) \/ RequestSteps(q) \/ \E r \in Runs : RequestRetry(q, r)
  BY <1>1, <1>7, RequestInv
<1>8. QED
  BY <1>2, <1>3, <1>4, <1>5, <1>6, <1>7 DEF Next

\* Batches exclude one another, and where a request meets another call at a
\* run, that is known; whoever writes a delivery has seen it fail.
THEOREM CallersExclude == Spec => []IInv
  BY InvInit, InvNext, PTL DEF Spec

---------------------------------------------------------------------------
(* The properties *)

\* The result of a run is sent once, unless it was sent and that could not be
\* recorded, or an administrator's request met another call at the run.
THEOREM ResultsAreSentOnce == Spec => []DeliveredOnce
<1>1. IInv => DeliveredOnce
  BY DEF IInv, RowOk, DeliveredOnce
<1>2. QED
  BY <1>1, CallersExclude, PTL

\* A run whose delivery failed is a dead letter, or some batch will find it,
\* unless two calls counted its attempts together.
THEOREM FailuresAreFound == Spec => []DeadOrDue
<1>1. IInv => DeadOrDue
  BY DEF IInv, RowOk, DeadOrDue, Due, Failed
<1>2. QED
  BY <1>1, CallersExclude, PTL

\* The row of a run that has ended is written only by callers that hold it.
LEMMA EndedRows ==
    ASSUME IInv, [Next]_vars, NEW r \in Runs, ~run[r].open, \A c \in Callers : ~Writes(c, r)
    PROVE  run'[r] = run[r]
<1>1. TypeOK
  BY DEF IInv
<1>2. CASE UNCHANGED vars
  BY <1>2 DEF vars
<1>3. CASE UpdateTask \/ Crash
  BY <1>3 DEF UpdateTask, Crash
<1>4. ASSUME NEW n \in Runs, ObserveEnd(n) \/ FinishRun(n) \/ CancelRun(n)
      PROVE  run'[r] = run[r]
  <2>1. CASE ObserveEnd(n)
    BY <2>1 DEF ObserveEnd
  <2>2. CASE FinishRun(n)
    BY <1>1, <2>2, FinishFacts
  <2>3. CASE CancelRun(n)
    BY <1>1, <2>3, CancelFacts DEF CancelRun
  <2>4. QED
    BY <1>4, <2>1, <2>2, <2>3
<1>5. ASSUME NEW c \in Callers, Retry(c) PROVE run'[r] = run[r]
  <2>1. CASE Record(c)
    BY <1>1, <2>1 DEF Record, Writes, TypeOK
  <2>2. QED
    BY <1>5, <2>1 DEF Retry, FindTask, ReadRun, Send
<1>6. ASSUME NEW b \in Batches, BatchSteps(b) PROVE run'[r] = run[r]
  <2>1. b \in Callers
    BY DEF Callers
  <2>2. CASE BuryRun(b)
    BY <1>1, <2>1, <2>2 DEF BuryRun, Writes, TypeOK
  <2>3. QED
    BY <1>5, <1>6, <2>1, <2>2 DEF BatchSteps, BeginBatch, ListDue, PickRun, EndBatch
<1>7. ASSUME NEW q \in Requests,
             RequestDelete(q) \/ RequestSteps(q) \/ \E n \in Runs : RequestRetry(q, n)
      PROVE  run'[r] = run[r]
  <2>1. q \in Callers
    BY DEF Callers
  <2>2. CASE BuryPending(q)
    <3>1. r \notin call[q].todo
      BY <2>1 DEF Writes
    <3>2. QED
      BY <1>1, <2>2, <3>1 DEF BuryPending, TypeOK
  <2>3. QED
    BY <1>5, <1>7, <2>1, <2>2 DEF RequestSteps, RequestDelete, ListPending, DeleteRow, RequestRetry
<1>8. QED
  BY <1>2, <1>3, <1>4, <1>6, <1>7 DEF Next

\* A delivery on record stays, unless an administrator's request met another
\* call at the run.
THEOREM DeliveriesStay == Spec => DeliveredStays
<1>1. ASSUME IInv, [Next]_vars, NEW r \in Runs, ~run[r].open, run[r].delivery = "succeeded"
      PROVE  run'[r].delivery = "succeeded" \/ r \in together
  <2>1. CASE \E c \in Callers : Writes(c, r)
    BY <1>1, <2>1 DEF IInv, CallersOk, Failed
  <2>2. CASE \A c \in Callers : ~Writes(c, r)
    BY <1>1, <2>2, EndedRows
  <2>3. QED
    BY <2>1, <2>2
<1>2. IInv /\ [Next]_vars =>
        [\A r \in Runs : ~run[r].open /\ run[r].delivery = "succeeded" =>
            run'[r].delivery = "succeeded" \/ r \in together]_vars
  BY <1>1
<1>3. QED
  BY <1>2, CallersExclude, PTL DEF Spec, DeliveredStays

=============================================================================
