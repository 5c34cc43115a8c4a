------------------------ MODULE RuntimeManager_proofs ------------------------
(***************************************************************************)
(* Theorems about RuntimeManager for any number of rounds, interrupts,     *)
(* closes and guidance inputs.  Registration and the done channels form    *)
(* the inductive invariant; the safety properties and the refinement of    *)
(* RoundRegistry follow from it.                                           *)
(***************************************************************************)
EXTENDS RuntimeManager, TLAPS

\* A done channel follows its round: made by StartRound, open while the
\* round is active, closed by its MarkRoundFinished, and left open for ever
\* when the round was dropped before.
ChannelFollowsRound ==
    \A r \in Rounds :
        /\ rpc[r] \in {"idle", "acquired"} => doneCh[r] = "none" /\ r \notin detached
        /\ rpc[r] \in {"executing", "ended"} => doneCh[r] = "open"
        /\ rpc[r] = "finished" => \/ doneCh[r] = "closed"
                                  \/ doneCh[r] = "open" /\ r \in detached

\* A session that is not in the map holds nothing.
AbsentIsEmpty == ~present => running = {} /\ guided = {} /\ ~hasClient

\* An interrupt waits for every round it names, and each has been started.
CallsWaitForTheirRounds ==
    \A i \in Interrupters :
        /\ waits[i] = ids[i]
        /\ \A r \in ids[i] : doneCh[r] # "none"

IInv ==
    /\ TypeOK
    /\ RegisteredUntilFinished
    /\ ChannelFollowsRound
    /\ AbsentIsEmpty
    /\ CallsWaitForTheirRounds
    /\ GuidanceNeverOutlivesRounds

-----------------------------------------------------------------------------
\* Type correctness needs no strengthening: every step keeps it.
LEMMA TypeInit == Init => TypeOK
<1> SUFFICES ASSUME Init PROVE TypeOK
  OBVIOUS
<1>1. /\ interruptions \in [Rounds -> Reasons \cup {NoReason}]
      /\ doneCh \in [Rounds -> {"none", "open", "closed"}]
      /\ rpc \in [Rounds -> RoundPCs]
  BY DEF Init, RoundPCs
<1>2. /\ ipc \in [Interrupters -> InterruptPCs]
      /\ ids \in [Interrupters -> SUBSET Rounds]
      /\ waits \in [Interrupters -> SUBSET Rounds]
      /\ stops \in [Interrupters -> SUBSET Rounds]
      /\ why \in [Interrupters -> Reasons \cup {NoReason}]
  BY DEF Init, InterruptPCs
<1>3. cpc \in [Closers -> ClosePCs] /\ dropped \in [Closers -> SUBSET Rounds]
  BY DEF Init, ClosePCs
<1>4. QED
  BY <1>1, <1>2, <1>3 DEF Init, TypeOK

LEMMA TypeStep == TypeOK /\ [Next]_vars => TypeOK'
<1> SUFFICES ASSUME TypeOK, [Next]_vars PROVE TypeOK'
  OBVIOUS
<1> USE DEF TypeOK, RoundPCs, InterruptPCs, ClosePCs,
            session, roundVars, callVars, closeVars, history,
            RoundMoves, InterruptMoves
<1>1. ASSUME NEW r \in Rounds, GetOrCreate(r) PROVE TypeOK'
  BY <1>1 DEF GetOrCreate
<1>2. ASSUME NEW r \in Rounds, StartRound(r) PROVE TypeOK'
  BY <1>2 DEF StartRound
<1>3. ASSUME NEW r \in Rounds, RoundEnds(r) PROVE TypeOK'
  BY <1>3 DEF RoundEnds
<1>4. ASSUME NEW r \in Rounds, MarkRoundFinished(r) PROVE TypeOK'
  BY <1>4 DEF MarkRoundFinished
<1>5. ASSUME NEW i \in Interrupters, InterruptIdle(i) PROVE TypeOK'
  BY <1>5 DEF InterruptIdle
<1>6. ASSUME NEW i \in Interrupters, InterruptSnapshot(i) PROVE TypeOK'
  BY <1>6 DEF InterruptSnapshot
<1>7. ASSUME NEW i \in Interrupters, InterruptMark(i) PROVE TypeOK'
  BY <1>7 DEF InterruptMark
<1>8. ASSUME NEW i \in Interrupters, InterruptCancels(i) PROVE TypeOK'
  BY <1>8 DEF InterruptCancels
<1>9. ASSUME NEW i \in Interrupters, InterruptClient(i) PROVE TypeOK'
  BY <1>9 DEF InterruptClient
<1>10. ASSUME NEW i \in Interrupters, ForceCancel(i) PROVE TypeOK'
  BY <1>10 DEF ForceCancel
<1>11. ASSUME NEW i \in Interrupters, InterruptReturn(i) PROVE TypeOK'
  BY <1>11 DEF InterruptReturn
<1>12. ASSUME NEW i \in Interrupters, InterruptGivesUp(i) PROVE TypeOK'
  BY <1>12 DEF InterruptGivesUp
<1>13. ASSUME NEW c \in Closers, CloseSession(c) PROVE TypeOK'
  BY <1>13 DEF CloseSession
<1>14. ASSUME NEW c \in Closers, CloseCancels(c) PROVE TypeOK'
  BY <1>14 DEF CloseCancels
<1>15. ASSUME NEW c \in Closers, CloseDisconnects(c) PROVE TypeOK'
  BY <1>15 DEF CloseDisconnects
<1>16. ASSUME NEW input \in Inputs, QueueGuidanceInput(input) PROVE TypeOK'
  BY <1>16 DEF QueueGuidanceInput
<1>17. CASE drainGuidanceInputs
  BY <1>17 DEF drainGuidanceInputs
<1>18. CASE UNCHANGED vars
  BY <1>18 DEF vars
<1>19. QED
  BY <1>1, <1>2, <1>3, <1>4, <1>5, <1>6, <1>7, <1>8, <1>9, <1>10, <1>11, <1>12,
     <1>13, <1>14, <1>15, <1>16, <1>17, <1>18
     DEF Next, RoundStep, InterruptStep, CloseStep, RoundObservesCancel

\* Every variable of the manager keeps its type.
THEOREM TypeCorrect == Spec => []TypeOK
  BY TypeInit, TypeStep, PTL DEF Spec

-----------------------------------------------------------------------------
\* The conjuncts that do not come from the types.
Registration ==
    /\ RegisteredUntilFinished
    /\ ChannelFollowsRound
    /\ AbsentIsEmpty
    /\ CallsWaitForTheirRounds
    /\ GuidanceNeverOutlivesRounds

LEMMA RegistrationInit == Init => Registration
  BY DEF Init, Registration, RegisteredUntilFinished, Active, ChannelFollowsRound,
         AbsentIsEmpty, CallsWaitForTheirRounds, GuidanceNeverOutlivesRounds

\* Steps that leave the registry, the channels and the runners alone.
LEMMA QuietStep ==
  ASSUME IInv,
         UNCHANGED <<session, doneCh, rpc, ids, waits, detached>>
  PROVE  Registration'
  BY DEF IInv, Registration, RegisteredUntilFinished, Active, ChannelFollowsRound,
         AbsentIsEmpty, CallsWaitForTheirRounds, GuidanceNeverOutlivesRounds, session

LEMMA GetOrCreateStep ==
  ASSUME IInv, NEW r \in Rounds, GetOrCreate(r)
  PROVE  Registration'
<1> USE DEF GetOrCreate, RoundMoves, callVars, history
<1>1. Active' = Active
  BY DEF IInv, TypeOK, Active
<1>2. RegisteredUntilFinished' /\ AbsentIsEmpty' /\ GuidanceNeverOutlivesRounds'
  BY <1>1 DEF IInv, RegisteredUntilFinished, AbsentIsEmpty, GuidanceNeverOutlivesRounds
<1>3. ChannelFollowsRound'
  BY DEF IInv, TypeOK, ChannelFollowsRound
<1>4. CallsWaitForTheirRounds'
  BY DEF IInv, CallsWaitForTheirRounds
<1>5. QED
  BY <1>2, <1>3, <1>4 DEF Registration

LEMMA StartRoundStep ==
  ASSUME IInv, NEW r \in Rounds, StartRound(r)
  PROVE  Registration'
<1> USE DEF StartRound, RoundMoves, callVars, history
<1>1. r \notin detached /\ r \notin done /\ doneCh[r] = "none"
  BY DEF IInv, TypeOK, ChannelFollowsRound, RegisteredUntilFinished
<1>2. doneCh' = [doneCh EXCEPT ![r] = "open"]
  BY <1>1
<1>3. Active' = Active \cup {r}
  BY DEF IInv, TypeOK, Active
<1>4. RegisteredUntilFinished'
  BY <1>1, <1>2, <1>3 DEF IInv, TypeOK, RegisteredUntilFinished
<1>5. ChannelFollowsRound'
  BY <1>2 DEF IInv, TypeOK, ChannelFollowsRound
<1>6. CallsWaitForTheirRounds'
  BY <1>2 DEF IInv, TypeOK, CallsWaitForTheirRounds
<1>7. AbsentIsEmpty' /\ GuidanceNeverOutlivesRounds'
  BY DEF IInv, AbsentIsEmpty, GuidanceNeverOutlivesRounds
<1>8. QED
  BY <1>4, <1>5, <1>6, <1>7 DEF Registration

LEMMA RoundEndsStep ==
  ASSUME IInv, NEW r \in Rounds, RoundEnds(r)
  PROVE  Registration'
<1> USE DEF RoundEnds, RoundMoves, session, callVars, history
<1>1. Active' = Active
  BY DEF IInv, TypeOK, Active
<1>2. RegisteredUntilFinished' /\ AbsentIsEmpty' /\ GuidanceNeverOutlivesRounds'
  BY <1>1 DEF IInv, RegisteredUntilFinished, AbsentIsEmpty, GuidanceNeverOutlivesRounds
<1>3. ChannelFollowsRound'
  BY DEF IInv, TypeOK, ChannelFollowsRound
<1>4. CallsWaitForTheirRounds'
  BY DEF IInv, CallsWaitForTheirRounds
<1>5. QED
  BY <1>2, <1>3, <1>4 DEF Registration

\* The session may be absent (dropped), recreated without the round, or the
\* one the round registered in.
LEMMA MarkRoundFinishedStep ==
  ASSUME IInv, NEW r \in Rounds, MarkRoundFinished(r)
  PROVE  Registration'
<1> USE DEF MarkRoundFinished, RoundMoves, callVars, history
<1>1. r \in Active /\ doneCh[r] = "open"
  BY DEF IInv, TypeOK, Active, ChannelFollowsRound
<1>2. Active' = Active \ {r}
  BY DEF IInv, TypeOK, Active
<1>3. CASE r \in running
  <2>1. present /\ r \in done /\ r \notin detached
    BY <1>3 DEF IInv, AbsentIsEmpty, RegisteredUntilFinished
  <2>2. /\ running' = running \ {r}
        /\ cancels' = cancels \ {r}
        /\ done' = done \ {r}
        /\ doneCh' = [doneCh EXCEPT ![r] = "closed"]
        /\ guided' = IF running \ {r} = {} THEN {} ELSE guided
    BY <2>1
  <2>3. RegisteredUntilFinished'
    BY <1>2, <2>1, <2>2 DEF IInv, TypeOK, RegisteredUntilFinished
  <2>4. ChannelFollowsRound'
    BY <2>2 DEF IInv, TypeOK, ChannelFollowsRound
  <2>5. AbsentIsEmpty' /\ GuidanceNeverOutlivesRounds'
    BY <2>1, <2>2 DEF IInv, AbsentIsEmpty, GuidanceNeverOutlivesRounds
  <2>6. CallsWaitForTheirRounds'
    BY <2>2 DEF IInv, TypeOK, CallsWaitForTheirRounds
  <2>7. QED
    BY <2>3, <2>4, <2>5, <2>6 DEF Registration
<1>4. CASE r \notin running
  <2>1. r \in detached /\ r \notin done /\ r \notin cancels
    BY <1>1, <1>4 DEF IInv, RegisteredUntilFinished
  <2>2. UNCHANGED <<running, cancels, done, doneCh>>
    <3>1. running \ {r} = running /\ cancels \ {r} = cancels /\ done \ {r} = done
      BY <1>4, <2>1
    <3>2. [doneCh EXCEPT ![r] = doneCh[r]] = doneCh
      BY DEF IInv, TypeOK
    <3>3. QED
      BY <2>1, <3>1, <3>2
  <2>3. guided' = guided \/ (running = {} /\ guided' = {})
    BY <1>4
  <2>4. RegisteredUntilFinished'
    BY <1>2, <2>1, <2>2 DEF IInv, RegisteredUntilFinished
  <2>5. ChannelFollowsRound'
    BY <1>1, <2>1, <2>2 DEF IInv, TypeOK, ChannelFollowsRound
  <2>6. AbsentIsEmpty' /\ GuidanceNeverOutlivesRounds'
    BY <2>2, <2>3 DEF IInv, AbsentIsEmpty, GuidanceNeverOutlivesRounds
  <2>7. CallsWaitForTheirRounds'
    BY <2>2 DEF IInv, CallsWaitForTheirRounds
  <2>8. QED
    BY <2>4, <2>5, <2>6, <2>7 DEF Registration
<1>5. QED
  BY <1>3, <1>4

LEMMA InterruptSnapshotStep ==
  ASSUME IInv, NEW i \in Interrupters, InterruptSnapshot(i)
  PROVE  Registration'
<1> USE DEF InterruptSnapshot, InterruptMoves, session, roundVars, history
<1>1. /\ waits' = [waits EXCEPT ![i] = running]
      /\ ids' = [ids EXCEPT ![i] = running]
  BY DEF IInv, RegisteredUntilFinished
<1>2. \A r \in running : doneCh'[r] # "none"
  BY DEF IInv, RegisteredUntilFinished
<1>3. ASSUME NEW j \in Interrupters
      PROVE  waits'[j] = ids'[j] /\ \A r \in ids'[j] : doneCh'[r] # "none"
  <2>1. CASE j = i
    BY <1>1, <1>2, <2>1 DEF IInv, TypeOK
  <2>2. CASE j # i
    BY <1>1, <2>2 DEF IInv, TypeOK, CallsWaitForTheirRounds
  <2>3. QED
    BY <2>1, <2>2
<1>4. CallsWaitForTheirRounds'
  BY <1>3 DEF CallsWaitForTheirRounds
<1>5. QED
  BY <1>4 DEF IInv, Registration, RegisteredUntilFinished, Active,
     ChannelFollowsRound, AbsentIsEmpty, GuidanceNeverOutlivesRounds

LEMMA InterruptMarkStep ==
  ASSUME IInv, NEW i \in Interrupters, InterruptMark(i)
  PROVE  Registration'
  BY DEF InterruptMark, InterruptMoves, roundVars, IInv, Registration,
         RegisteredUntilFinished, Active, ChannelFollowsRound, AbsentIsEmpty,
         CallsWaitForTheirRounds, GuidanceNeverOutlivesRounds

LEMMA CloseSessionStep ==
  ASSUME IInv, NEW c \in Closers, CloseSession(c)
  PROVE  Registration'
<1> USE DEF CloseSession, roundVars, callVars
<1>1. Active' = Active /\ Active \ (detached \cup running) = {}
  BY DEF Active, IInv, RegisteredUntilFinished
<1>2. RegisteredUntilFinished'
  BY <1>1 DEF RegisteredUntilFinished
<1>3. \A r \in running : rpc[r] \in {"executing", "ended"}
  BY DEF IInv, RegisteredUntilFinished, Active
<1>4. ChannelFollowsRound'
  BY <1>3 DEF IInv, ChannelFollowsRound
<1>5. CallsWaitForTheirRounds'
  BY DEF IInv, CallsWaitForTheirRounds
<1>6. AbsentIsEmpty' /\ GuidanceNeverOutlivesRounds'
  BY DEF AbsentIsEmpty, GuidanceNeverOutlivesRounds
<1>7. QED
  BY <1>2, <1>4, <1>5, <1>6 DEF Registration

\* Guidance is accepted only while a round runs; draining empties it.
LEMMA GuidanceStep ==
  ASSUME IInv,
         (\E input \in Inputs : QueueGuidanceInput(input)) \/ drainGuidanceInputs
  PROVE  Registration'
  BY DEF QueueGuidanceInput, drainGuidanceInputs, roundVars, callVars, history,
         IInv, Registration, RegisteredUntilFinished, Active, ChannelFollowsRound,
         AbsentIsEmpty, CallsWaitForTheirRounds, GuidanceNeverOutlivesRounds

LEMMA IInvInit == Init => IInv
  BY TypeInit, RegistrationInit DEF IInv, Registration

LEMMA IInvStep == IInv /\ [Next]_vars => IInv'
<1> SUFFICES ASSUME IInv, [Next]_vars PROVE IInv'
  OBVIOUS
<1>1. TypeOK'
  BY TypeStep DEF IInv
<1>2. ASSUME NEW r \in Rounds, RoundStep(r) PROVE Registration'
  BY <1>2, GetOrCreateStep, StartRoundStep, RoundEndsStep, MarkRoundFinishedStep
     DEF RoundStep, RoundObservesCancel
<1>3. ASSUME NEW i \in Interrupters, InterruptStep(i) PROVE Registration'
  <2>1. CASE InterruptSnapshot(i) \/ InterruptMark(i)
    BY <2>1, InterruptSnapshotStep, InterruptMarkStep
  <2>2. CASE InterruptIdle(i) \/ InterruptCancels(i) \/ InterruptClient(i)
             \/ ForceCancel(i) \/ InterruptReturn(i) \/ InterruptGivesUp(i)
    BY <2>2, QuietStep
       DEF InterruptIdle, InterruptCancels, InterruptClient, ForceCancel,
           InterruptReturn, InterruptGivesUp, roundVars, history
  <2>3. QED
    BY <1>3, <2>1, <2>2 DEF InterruptStep
<1>4. ASSUME NEW c \in Closers, CloseStep(c) PROVE Registration'
  <2>1. CASE CloseSession(c)
    BY <2>1, CloseSessionStep
  <2>2. CASE CloseCancels(c) \/ CloseDisconnects(c)
    BY <2>2, QuietStep
       DEF CloseCancels, CloseDisconnects, roundVars, callVars, history
  <2>3. QED
    BY <1>4, <2>1, <2>2 DEF CloseStep
<1>5. ASSUME UNCHANGED vars PROVE Registration'
  BY <1>5, QuietStep DEF vars, roundVars, callVars, history
<1>6. Registration'
  BY <1>2, <1>3, <1>4, <1>5, GuidanceStep DEF Next
<1>7. QED
  BY <1>1, <1>6 DEF IInv, Registration

LEMMA IInvCorrect == Spec => []IInv
  BY IInvInit, IInvStep, PTL DEF Spec

-----------------------------------------------------------------------------
\* A running round that was not dropped is in all three maps of the session,
\* with its done channel open, and nothing else is in them.
THEOREM Registered == Spec => []RegisteredUntilFinished
<1>1. IInv => RegisteredUntilFinished
  BY DEF IInv
<1>2. QED
  BY IInvCorrect, <1>1, PTL

\* An interrupt never waits for a channel that no registered round will
\* close, except for rounds a CloseSession dropped.
THEOREM WaitersAreServed == Spec => []WaitersHaveACloser
<1>1. IInv => WaitersHaveACloser
  <2> SUFFICES ASSUME IInv, NEW i \in Interrupters, NEW r \in waits[i],
                      doneCh[r] # "closed", r \notin detached
               PROVE  r \in done
    BY DEF WaitersHaveACloser
  <2>1. r \in Rounds /\ doneCh[r] # "none"
    BY DEF IInv, TypeOK, CallsWaitForTheirRounds
  <2>2. r \in Active
    BY <2>1 DEF IInv, TypeOK, RoundPCs, ChannelFollowsRound, Active
  <2>3. QED
    BY <2>2 DEF IInv, RegisteredUntilFinished
<1>2. QED
  BY IInvCorrect, <1>1, PTL

\* Guidance acknowledged for one round cannot reach a round started later
\* in an idle session.
THEOREM GuidanceStaysWithRounds == Spec => []GuidanceNeverOutlivesRounds
<1>1. IInv => GuidanceNeverOutlivesRounds
  BY DEF IInv
<1>2. QED
  BY IInvCorrect, <1>1, PTL

-----------------------------------------------------------------------------
\* The refinement mapping of Registry, named for the step proofs.
active == Active \ detached
begun == {r \in Rounds : rpc[r] \in {"executing", "ended", "finished"}}
callOf(pc) == IF pc \in {"idle", "stopped", "failed"} THEN pc ELSE "calling"
call == [i \in Interrupters |-> callOf(ipc[i])]

LEMMA RegistryInit == Init => Registry!Init
  BY DEF Init, Registry!Init, Active

\* A step of the manager that leaves the registry's view of it unchanged.
LEMMA Stutter ==
  ASSUME UNCHANGED <<rpc, ipc, ids, detached>>
  PROVE  UNCHANGED Registry!vars
  BY DEF Registry!vars, Active

\* Steps of a call inside the interval between its begin and its return.
LEMMA CallStutters ==
  ASSUME TypeOK, NEW i \in Interrupters, NEW to \in InterruptPCs,
         ipc' = [ipc EXCEPT ![i] = to],
         callOf(ipc[i]) = callOf(to),
         UNCHANGED <<rpc, ids, detached>>
  PROVE  UNCHANGED Registry!vars
<1>1. call' = call
  BY DEF call, TypeOK, callOf
<1>2. active' = active /\ begun' = begun
  BY DEF active, begun, Active
<1>3. QED
  BY <1>1, <1>2 DEF Registry!vars, active, begun, call, callOf

\* Steps of a call that end it.
LEMMA CallEnds ==
  ASSUME TypeOK, NEW i \in Interrupters, NEW to \in {"stopped", "failed"},
         ipc' = [ipc EXCEPT ![i] = to],
         UNCHANGED <<rpc, ids, detached>>
  PROVE  /\ call' = [call EXCEPT ![i] = to]
         /\ UNCHANGED <<active, begun, ids>>
<1>1. call' = [call EXCEPT ![i] = to]
  BY DEF call, TypeOK, callOf
<1>2. active' = active /\ begun' = begun
  BY DEF active, begun, Active
<1>3. QED
  BY <1>1, <1>2

LEMMA RoundRefines ==
  ASSUME IInv, NEW r \in Rounds, RoundStep(r)
  PROVE  [Registry!Next]_(Registry!vars)
<1> USE DEF RoundMoves, callVars, history
<1>1. CASE GetOrCreate(r)
  <2>1. Active' = Active /\ begun' = begun
    BY <1>1 DEF GetOrCreate, IInv, TypeOK, Active, begun
  <2>2. QED
    BY <1>1, <2>1 DEF GetOrCreate, Registry!vars, begun
<1>2. CASE StartRound(r)
  <2>1. r \notin begun /\ r \notin detached
    BY <1>2 DEF StartRound, IInv, TypeOK, begun, ChannelFollowsRound
  <2>2. Active' = Active \cup {r} /\ begun' = begun \cup {r}
    BY <1>2 DEF StartRound, IInv, TypeOK, Active, begun
  <2>3. active' = active \cup {r}
    BY <1>2, <2>1, <2>2 DEF StartRound, active
  <2>4. call' = call /\ ids' = ids
    BY <1>2 DEF StartRound, call
  <2>5. Registry!Start(r)
    BY <2>1, <2>2, <2>3, <2>4 DEF Registry!Start, active, begun, call, callOf
  <2>6. QED
    BY <2>5 DEF Registry!Next
<1>3. CASE RoundEnds(r)
  <2>1. Active' = Active /\ begun' = begun
    BY <1>3 DEF RoundEnds, IInv, TypeOK, Active, begun
  <2>2. QED
    BY <1>3, <2>1 DEF RoundEnds, Registry!vars, begun
<1>4. CASE MarkRoundFinished(r)
  <2>1. Active' = Active \ {r} /\ begun' = begun
    BY <1>4 DEF MarkRoundFinished, IInv, TypeOK, Active, begun
  <2>2. active' = active \ {r}
    BY <1>4, <2>1 DEF MarkRoundFinished, active
  <2>3. call' = call /\ ids' = ids
    BY <1>4 DEF MarkRoundFinished, call
  <2>4. CASE r \in active
    <3>1. Registry!Finish(r)
      BY <2>1, <2>2, <2>3, <2>4 DEF Registry!Finish, active, begun, call, callOf
    <3>2. QED
      BY <3>1 DEF Registry!Next
  <2>5. CASE r \notin active
    <3>1. active' = active
      BY <2>2, <2>5
    <3>2. QED
      BY <2>1, <2>3, <3>1 DEF Registry!vars, active, begun, call, callOf
  <2>6. QED
    BY <2>4, <2>5
<1>5. QED
  BY <1>1, <1>2, <1>3, <1>4 DEF RoundStep, RoundObservesCancel, RoundEnds

LEMMA InterruptRefines ==
  ASSUME IInv, NEW i \in Interrupters, InterruptStep(i)
  PROVE  [Registry!Next]_(Registry!vars)
<1> USE DEF InterruptMoves, session, roundVars, history
<1>1. active = running
  BY DEF IInv, RegisteredUntilFinished, active
<1>2. TypeOK
  BY DEF IInv
<1>3. CASE InterruptIdle(i)
  <2>1. ipc' = [ipc EXCEPT ![i] = "stopped"] /\ UNCHANGED <<rpc, ids, detached>>
    BY <1>3 DEF InterruptIdle
  <2>2. call' = [call EXCEPT ![i] = "stopped"] /\ UNCHANGED <<active, begun, ids>>
    BY <1>2, <2>1, CallEnds
  <2>3. call[i] = "idle" /\ active = {}
    BY <1>1, <1>3 DEF InterruptIdle, call, callOf
  <2>4. Registry!CallOnIdle(i)
    BY <2>2, <2>3 DEF Registry!CallOnIdle, active, begun, call, callOf
  <2>5. QED
    BY <2>4 DEF Registry!Next
<1>4. CASE InterruptSnapshot(i)
  <2>1. active' = active /\ begun' = begun
    BY <1>4 DEF InterruptSnapshot, active, begun, Active
  <2>2. call' = [call EXCEPT ![i] = "calling"]
    BY <1>2, <1>4 DEF InterruptSnapshot, call, callOf, TypeOK
  <2>3. call[i] = "idle" /\ active # {} /\ ids' = [ids EXCEPT ![i] = active]
    BY <1>1, <1>4 DEF InterruptSnapshot, call, callOf
  <2>4. Registry!Call(i)
    BY <2>1, <2>2, <2>3 DEF Registry!Call, active, begun, call, callOf
  <2>5. QED
    BY <2>4 DEF Registry!Next
<1>5. CASE InterruptMark(i)
  <2>1. \E to \in {"interrupt", "cancel"} : ipc' = [ipc EXCEPT ![i] = to]
    BY <1>5 DEF InterruptMark
  <2>2. ipc[i] = "mark" /\ UNCHANGED <<rpc, ids, detached>>
    BY <1>5 DEF InterruptMark
  <2>3. UNCHANGED Registry!vars
    BY <1>2, <2>1, <2>2, CallStutters DEF callOf, InterruptPCs
  <2>4. QED
    BY <2>3
<1>6. CASE InterruptCancels(i) \/ ForceCancel(i)
  <2>1. /\ ipc[i] \in {"cancel", "wait"}
        /\ ipc' = [ipc EXCEPT ![i] = "forced"]
        /\ UNCHANGED <<rpc, ids, detached>>
    BY <1>6 DEF InterruptCancels, ForceCancel
  <2>2. UNCHANGED Registry!vars
    BY <1>2, <2>1, CallStutters DEF callOf, InterruptPCs
  <2>3. QED
    BY <2>2
<1>7. CASE InterruptClient(i) /\ ipc' = [ipc EXCEPT ![i] = "wait"]
  <2>1. ipc[i] = "interrupt" /\ UNCHANGED <<rpc, ids, detached>>
    BY <1>7 DEF InterruptClient
  <2>2. UNCHANGED Registry!vars
    BY <1>2, <1>7, <2>1, CallStutters DEF callOf, InterruptPCs
  <2>3. QED
    BY <2>2
<1>8. CASE \/ InterruptClient(i) /\ ipc' = [ipc EXCEPT ![i] = "failed"]
           \/ InterruptGivesUp(i)
  <2>1. /\ ipc[i] \in {"interrupt", "wait", "forced"}
        /\ ipc' = [ipc EXCEPT ![i] = "failed"]
        /\ UNCHANGED <<rpc, ids, detached>>
    BY <1>8 DEF InterruptClient, InterruptGivesUp
  <2>2. call' = [call EXCEPT ![i] = "failed"] /\ UNCHANGED <<active, begun, ids>>
    BY <1>2, <2>1, CallEnds
  <2>3. call[i] = "calling"
    BY <2>1 DEF call, callOf
  <2>4. Registry!Fail(i)
    BY <2>2, <2>3 DEF Registry!Fail, active, begun, call, callOf
  <2>5. QED
    BY <2>4 DEF Registry!Next
<1>9. CASE InterruptReturn(i)
  <2>1. /\ ipc[i] \in {"wait", "forced"}
        /\ ipc' = [ipc EXCEPT ![i] = "stopped"]
        /\ UNCHANGED <<rpc, ids, detached>>
    BY <1>9 DEF InterruptReturn
  <2>2. call' = [call EXCEPT ![i] = "stopped"] /\ UNCHANGED <<active, begun, ids>>
    BY <1>2, <2>1, CallEnds
  <2>3. call[i] = "calling"
    BY <2>1 DEF call, callOf
  <2>4. \A r \in ids[i] : r \in Rounds /\ doneCh[r] = "closed"
    BY <1>9 DEF InterruptReturn, IInv, CallsWaitForTheirRounds, TypeOK
  <2>5. ids[i] \cap active = {}
    BY <1>1, <2>4 DEF IInv, RegisteredUntilFinished
  <2>6. Registry!Return(i)
    BY <2>2, <2>3, <2>5 DEF Registry!Return, active, begun, call, callOf
  <2>7. QED
    BY <2>6 DEF Registry!Next
<1>10. QED
  BY <1>3, <1>4, <1>5, <1>6, <1>7, <1>8, <1>9 DEF InterruptStep, InterruptClient

LEMMA CloseRefines ==
  ASSUME IInv, NEW c \in Closers, CloseStep(c)
  PROVE  [Registry!Next]_(Registry!vars)
<1>1. CASE CloseSession(c)
  <2>1. UNCHANGED <<rpc, ipc, ids>> /\ detached' = detached \cup running
    BY <1>1 DEF CloseSession, roundVars, callVars
  <2>2. Active' = Active /\ begun' = begun /\ call' = call
    BY <2>1 DEF Active, begun, call
  <2>3. active = running /\ active' = {}
    BY <2>1, <2>2 DEF IInv, RegisteredUntilFinished, active
  <2>4. CASE active = {}
    BY <2>1, <2>2, <2>3, <2>4 DEF Registry!vars, active, begun, call, callOf
  <2>5. CASE active # {}
    <3>1. Registry!Drop
      BY <2>1, <2>2, <2>3, <2>5 DEF Registry!Drop, active, begun, call, callOf
    <3>2. QED
      BY <3>1 DEF Registry!Next
  <2>6. QED
    BY <2>4, <2>5
<1>2. CASE CloseCancels(c) \/ CloseDisconnects(c)
  BY <1>2, Stutter DEF CloseCancels, CloseDisconnects, roundVars, callVars, history
<1>3. QED
  BY <1>1, <1>2 DEF CloseStep

LEMMA StepRefines == IInv /\ [Next]_vars => [Registry!Next]_(Registry!vars)
<1> SUFFICES ASSUME IInv, [Next]_vars PROVE [Registry!Next]_(Registry!vars)
  OBVIOUS
<1>1. CASE \E input \in Inputs : QueueGuidanceInput(input)
  BY <1>1, Stutter DEF QueueGuidanceInput, roundVars, callVars, history
<1>2. CASE drainGuidanceInputs
  BY <1>2, Stutter DEF drainGuidanceInputs, roundVars, callVars, history
<1>3. CASE UNCHANGED vars
  BY <1>3, Stutter DEF vars, roundVars, callVars, history
<1>4. QED
  BY <1>1, <1>2, <1>3, RoundRefines, InterruptRefines, CloseRefines DEF Next

\* The manager implements RoundRegistry: when InterruptSession returns without
\* error, every round active when it began has finished, or was dropped by a
\* CloseSession, whatever else happened in between.
THEOREM Refinement == Spec => ImplementsRegistry
<1>1. Spec => []IInv
  BY IInvCorrect
<1>2. QED
  BY <1>1, RegistryInit, StepRefines, PTL DEF Spec, ImplementsRegistry, Registry!Spec
=============================================================================
