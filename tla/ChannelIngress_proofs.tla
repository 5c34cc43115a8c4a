------------------------ MODULE ChannelIngress_proofs ------------------------
(***************************************************************************)
(* Theorems about ChannelIngress for any messages, calls and edits, and    *)
(* any number of failures, hang-ups and stops.                             *)
(***************************************************************************)
EXTENDS ChannelIngress, TLAPS

USE NothingAssumption, MaxEventsAssumption, WritersAssumption

---------------------------------------------------------------------------
(* Types *)

CallTypes == [pc: CallPCs, msg: Messages \cup {Nothing}, gone: BOOLEAN]
EditTypes == [pc: {"idle", "read"}, copy: Pairings, ask: Decided \cup {Nothing}]

LEMMA EventType == ASSUME TypeOK, Event \/ NoEvent PROVE events' \in 0 .. MaxEvents
  BY DEF TypeOK, Event, NoEvent

LEMMA WorkType ==
    ASSUME TypeOK, NEW c \in Calls, Works(c) \/ Fails(c) PROVE events' \in 0 .. MaxEvents
  BY EventType DEF Works, Fails

\* A call that goes on keeps its message; the other calls stay as they are.
LEMMA GotoFacts ==
    ASSUME TypeOK, NEW c \in Calls, NEW label \in CallPCs, Goto(c, label)
    PROVE  /\ call' \in [Calls -> CallTypes]
           /\ call'[c].pc = label
           /\ call'[c].msg = call[c].msg
           /\ \A d \in Calls : d # c => call'[d] = call[d]
  BY DEF TypeOK, Goto, CallTypes

LEMMA EndFacts ==
    ASSUME TypeOK, NEW c \in Calls, End(c)
    PROVE  /\ call' \in [Calls -> CallTypes]
           /\ call'[c].pc = "idle"
           /\ \A d \in Calls : d # c => call'[d] = call[d]
  BY DEF TypeOK, End, NoCall, CallTypes, CallPCs

\* Whatever Accept does, the call goes on or ends.
Moves(c) == (\E label \in CallPCs : Goto(c, label)) \/ End(c)

LEMMA AcceptMoves == ASSUME TypeOK, NEW c \in Calls, Accept(c) PROVE Moves(c)
  BY DEF Accept, FindPairing, UpsertPending, InsertClaim, ReclaimFailed, ReadClaim,
         HandleChat, FinishAccepted, RememberRoute, MarkFailed, Moves, CallPCs, Claiming,
         ClaimFails

LEMMA MovesType ==
    ASSUME TypeOK, NEW c \in Calls, call[c].pc # "idle", Moves(c)
    PROVE  /\ call' \in [Calls -> CallTypes]
           /\ \A d \in Calls : call'[d].pc # "idle" => call'[d].msg \in Messages
<1>1. CASE \E label \in CallPCs : Goto(c, label)
  <2>1. PICK label \in CallPCs : Goto(c, label)
    BY <1>1
  <2>2. QED
    BY <2>1, GotoFacts DEF TypeOK
<1>2. CASE End(c)
  BY <1>2, EndFacts DEF TypeOK
<1>3. QED
  BY <1>1, <1>2 DEF Moves

LEMMA AcceptType == ASSUME TypeOK, NEW c \in Calls, Accept(c) PROVE TypeOK'
<1>1. call[c].pc # "idle"
  BY DEF Accept, FindPairing, UpsertPending, InsertClaim, ReclaimFailed, ReadClaim,
         HandleChat, FinishAccepted, RememberRoute, MarkFailed
<1>2. /\ call' \in [Calls -> CallTypes]
      /\ \A d \in Calls : call'[d].pc # "idle" => call'[d].msg \in Messages
  BY <1>1, AcceptMoves, MovesType
<1>3. call[c].msg \in Messages
  BY <1>1 DEF TypeOK
<1>4. events' \in 0 .. MaxEvents
  BY WorkType, EventType DEF Accept, FindPairing, UpsertPending, InsertClaim, ReclaimFailed,
     ReadClaim, HandleChat, FinishAccepted, RememberRoute, MarkFailed, ClaimFails
<1>5. CASE FindPairing(c) \/ ReadClaim(c) \/ RememberRoute(c)
  BY <1>2, <1>3, <1>4, <1>5
     DEF TypeOK, CallTypes, FindPairing, ReadClaim, RememberRoute, Answer, history, verdicts
<1>6. CASE UpsertPending(c)
  <2>1. pairing' \in Pairings /\ before' \subseteq before /\ overtaken' \subseteq overtaken \cup {"message"}
    BY <1>6 DEF TypeOK, UpsertPending, Overtakes, Pairings, Decided
  <2>2. answered' \subseteq Messages /\ refused' \subseteq Messages
    BY <1>3, <1>6 DEF TypeOK, UpsertPending, Answer
  <2>3. QED
    BY <1>2, <1>4, <1>6, <2>1, <2>2 DEF TypeOK, CallTypes, UpsertPending
<1>7. CASE InsertClaim(c) \/ ReclaimFailed(c) \/ FinishAccepted(c)
  BY <1>2, <1>3, <1>4, <1>7
     DEF TypeOK, CallTypes, InsertClaim, ReclaimFailed, FinishAccepted, ClaimFails, TakesClaim,
         history, verdicts
<1>8. CASE HandleChat(c)
  BY <1>2, <1>3, <1>4, <1>8 DEF TypeOK, CallTypes, HandleChat, verdicts
<1>9. CASE MarkFailed(c)
  BY <1>2, <1>3, <1>4, <1>9 DEF TypeOK, CallTypes, MarkFailed, verdicts
<1>10. QED
  BY <1>5, <1>6, <1>7, <1>8, <1>9 DEF Accept

LEMMA EditType == ASSUME TypeOK, Edit PROVE TypeOK'
<1>1. CASE CreatePairing \/ DeletePairing
  BY <1>1 DEF TypeOK, CreatePairing, DeletePairing, Decide, Looking, Pairings
<1>2. ASSUME NEW e \in Edits, UpdateRead(e) PROVE TypeOK'
  BY <1>2 DEF TypeOK, UpdateRead, history, verdicts
<1>3. ASSUME NEW e \in Edits, UpdateWrite(e) PROVE TypeOK'
  <2>1. edit[e] \in EditTypes
    BY DEF TypeOK, EditTypes
  <2>2. edit' \in [Edits -> EditTypes]
    <3>1. NoEdit \in EditTypes
      BY DEF NoEdit, EditTypes, Pairings
    <3>2. edit' = [edit EXCEPT ![e] = NoEdit]
      BY <1>3 DEF UpdateWrite
    <3>3. QED
      BY <3>1, <3>2 DEF TypeOK, EditTypes
  <2>3. /\ pairing' \in Pairings /\ verdict' \in Pairings /\ approved' \in BOOLEAN
        /\ before' \subseteq Calls \cup Edits /\ overtaken' \subseteq {"message", "update"}
    BY <1>3, <2>1 DEF TypeOK, EditTypes, UpdateWrite, Decide, Looking, Overtakes, Pairings
  <2>4. QED
    BY <1>3, <2>2, <2>3 DEF TypeOK, EditTypes, UpdateWrite
<1>4. QED
  BY <1>1, <1>2, <1>3 DEF Edit

LEMMA DeliverType ==
    ASSUME TypeOK, NEW c \in Calls, NEW m \in Messages, Deliver(c, m) PROVE TypeOK'
  BY DEF TypeOK, Deliver, history, verdicts, CallPCs

LEMMA HangUpFacts ==
    ASSUME TypeOK, NEW c \in Calls, HangUp(c)
    PROVE  /\ call' \in [Calls -> CallTypes]
           /\ \A d \in Calls : call'[d].pc = call[d].pc /\ call'[d].msg = call[d].msg
<1>1. call' = [call EXCEPT ![c] = [call[c] EXCEPT !.gone = TRUE]]
  BY DEF TypeOK, HangUp
<1>2. call \in [Calls -> CallTypes]
  BY DEF TypeOK, CallTypes
<1>3. /\ [call[c] EXCEPT !.gone = TRUE] \in CallTypes
      /\ [call[c] EXCEPT !.gone = TRUE].pc = call[c].pc
      /\ [call[c] EXCEPT !.gone = TRUE].msg = call[c].msg
  BY <1>2 DEF CallTypes
<1>4. QED
  BY <1>1, <1>2, <1>3

LEMMA HangUpType == ASSUME TypeOK, NEW c \in Calls, HangUp(c) PROVE TypeOK'
<1>1. events' \in 0 .. MaxEvents
  BY EventType DEF HangUp
<1>2. \A d \in Calls : call'[d].pc # "idle" => call'[d].msg \in Messages
  BY HangUpFacts DEF TypeOK
<1>3. QED
  BY <1>1, <1>2, HangUpFacts DEF TypeOK, CallTypes, HangUp, history, verdicts

LEMMA CrashType == ASSUME TypeOK, Crash PROVE TypeOK'
<1>1. stranded' \subseteq Messages
  BY DEF TypeOK, Crash, Claiming
<1>2. QED
  BY <1>1, EventType DEF TypeOK, Crash, NoCall, NoEdit, CallPCs, Pairings

LEMMA TypeNext == ASSUME TypeOK, [Next]_vars PROVE TypeOK'
<1>1. CASE UNCHANGED vars
  BY <1>1 DEF TypeOK, vars, history, verdicts
<1>2. CASE Next
  BY <1>2, AcceptType, EditType, DeliverType, HangUpType, CrashType DEF Next
<1>3. QED
  BY <1>1, <1>2

LEMMA TypeInit == ASSUME Init PROVE TypeOK
<1>1. call \in [Calls -> CallTypes] /\ \A c \in Calls : call[c].pc = "idle"
  BY DEF Init, NoCall, CallTypes, CallPCs
<1>2. edit \in [Edits -> EditTypes]
  BY DEF Init, NoEdit, EditTypes, Pairings
<1>3. events \in 0 .. MaxEvents
  BY DEF Init
<1>4. /\ pairing \in Pairings /\ verdict \in Pairings /\ approved \in BOOLEAN
      /\ before \subseteq Calls \cup Edits /\ overtaken \subseteq {"message", "update"}
  BY DEF Init, Pairings
<1>5. /\ ledger \in [Messages -> {"none", "processing", "accepted", "failed"}]
      /\ taken \in [Messages -> Nat]
  BY DEF Init
<1>6. answered \subseteq Messages /\ refused \subseteq Messages
      /\ halfway \subseteq Messages /\ stranded \subseteq Messages
  BY DEF Init
<1>7. QED
  BY <1>1, <1>2, <1>3, <1>4, <1>5, <1>6 DEF TypeOK, CallTypes, EditTypes

\* The pairing, the ledger, the calls and the edits keep their types; a call
\* at work has a message.
THEOREM TypeCorrect == Spec => []TypeOK
  BY TypeInit, TypeNext, PTL DEF Spec

---------------------------------------------------------------------------
(* The claim *)

Holding == Claiming \cup {"finishing"}

\* A call that holds the claim of a message is the only one, and the message's
\* row says so.
OneHolder ==
    /\ \A c, d \in Calls :
          call[c].pc \in Holding /\ call[d].pc \in Holding /\ call[c].msg = call[d].msg => c = d
    /\ \A c \in Calls : call[c].pc \in Holding => ledger[call[c].msg] = "processing"

\* A claim is still of use as long as the message was not taken.
Unclaimed(m) ==
    \/ ledger[m] \in {"none", "failed"}
    \/ \E c \in Calls : call[c].msg = m /\ call[c].pc \in Claiming
TakenOnce ==
    \A m \in Messages \ halfway : taken[m] <= 1 /\ (Unclaimed(m) => taken[m] = 0)

\* A row that says processing or accepted tells of a message that was taken, is
\* in a call's hand, or is lost.
RowsTell ==
    /\ \A c \in Calls : call[c].pc = "finishing" => taken[call[c].msg] > 0
    /\ \A c \in Calls :
          call[c].pc \in {"conflict", "reading", "remembering"} => ledger[call[c].msg] # "none"
    /\ \A m \in Messages :
          ledger[m] \in {"processing", "accepted"} =>
              \/ m \in stranded
              \/ taken[m] > 0
              \/ \E c \in Calls : call[c].msg = m /\ call[c].pc \in Claiming
    /\ \A m \in answered : m \in refused \/ ledger[m] # "none"

Claims == OneHolder /\ TakenOnce /\ RowsTell

LEMMA ClaimsInit == ASSUME Init PROVE Claims
<1>1. \A c \in Calls : call[c].pc = "idle"
  BY DEF Init, NoCall
<1>2. QED
  BY <1>1 DEF Init, Claims, OneHolder, TakenOnce, Unclaimed, RowsTell, Holding, Claiming

\* A step that leaves the rows and what was taken alone, and in which no call
\* gets the claim, hands it over or gives it up.
Aside(c) ==
    /\ UNCHANGED <<ledger, taken, halfway, stranded>>
    /\ \A d \in Calls : d # c => call'[d].pc = call[d].pc /\ call'[d].msg = call[d].msg
    /\ call[c].pc \notin Claiming
    /\ \/ call'[c].pc \notin Holding \cup {"conflict", "reading", "remembering"}
       \/ call'[c].pc \in {"conflict", "reading"} /\ ledger[call'[c].msg] # "none"
    /\ \A m \in answered' : m \in answered \cup refused' \/ ledger[m] # "none"
    /\ refused \subseteq refused'

LEMMA ClaimsKept == ASSUME TypeOK, Claims, NEW c \in Calls, Aside(c) PROVE Claims'
<1> USE DEF Holding, Claiming
<1>1. \A d \in Calls : /\ call'[d].pc \in Holding =>
                             call'[d].pc = call[d].pc /\ call'[d].msg = call[d].msg
                       /\ call[d].pc \in Claiming =>
                             call'[d].pc = call[d].pc /\ call'[d].msg = call[d].msg
  BY DEF Aside
<1>2. OneHolder'
  BY <1>1 DEF Aside, Claims, OneHolder
<1>3. TakenOnce'
  BY <1>1 DEF Aside, Claims, TakenOnce, Unclaimed
<1>4. RowsTell'
  BY <1>1 DEF Aside, Claims, RowsTell
<1>5. QED
  BY <1>2, <1>3, <1>4 DEF Claims

\* The row of a call's message is there, or the call has no claim to tell of.
LEMMA KeptByFind ==
    ASSUME TypeOK, Claims, NEW c \in Calls, FindPairing(c) PROVE Claims'
<1>1. /\ \A d \in Calls : d # c => call'[d].pc = call[d].pc /\ call'[d].msg = call[d].msg
      /\ call'[c].pc \in {"claiming", "unpaired", "idle"}
  BY GotoFacts, EndFacts DEF FindPairing, CallPCs
<1>2. Aside(c)
  BY <1>1 DEF Aside, FindPairing, history, Holding, Claiming
<1>3. QED
  BY <1>2, ClaimsKept

LEMMA KeptByUpsert ==
    ASSUME TypeOK, Claims, NEW c \in Calls, UpsertPending(c) PROVE Claims'
<1>1. /\ \A d \in Calls : d # c => call'[d].pc = call[d].pc /\ call'[d].msg = call[d].msg
      /\ call'[c].pc = "idle"
  BY EndFacts DEF UpsertPending
<1>2. answered' \subseteq answered \cup refused' /\ refused \subseteq refused'
  BY DEF UpsertPending, Answer
<1>3. Aside(c)
  BY <1>1, <1>2 DEF Aside, UpsertPending, Holding, Claiming
<1>4. QED
  BY <1>3, ClaimsKept

\* A call that answers after it found the row of its message.
LEMMA KeptByAnswer ==
    ASSUME TypeOK, Claims, NEW c \in Calls, ReadClaim(c) \/ RememberRoute(c) PROVE Claims'
<1>1. /\ \A d \in Calls : d # c => call'[d].pc = call[d].pc /\ call'[d].msg = call[d].msg
      /\ call'[c].pc = "idle"
  BY EndFacts DEF ReadClaim, RememberRoute
<1>2. call[c].pc \in {"reading", "remembering"} /\ call[c].msg \in Messages
  BY DEF ReadClaim, RememberRoute, TypeOK
<1>3. ledger[call[c].msg] # "none"
  BY <1>2 DEF Claims, RowsTell
<1>4. \A m \in answered' : m \in answered \/ ledger[m] # "none"
  BY <1>2, <1>3 DEF ReadClaim, RememberRoute, Answer
<1>5. Aside(c)
  BY <1>1, <1>2, <1>4 DEF Aside, ReadClaim, RememberRoute, history, Holding, Claiming
<1>6. QED
  BY <1>5, ClaimsKept

\* The claim is taken: there was no row, or it said failed, so that no call
\* held it and the message was not taken, unless halfway.
LEMMA KeptByClaim ==
    ASSUME TypeOK, Claims, NEW c \in Calls, Goto(c, "claimed"),
           call[c].pc \in {"claiming", "conflict"},
           ledger[call[c].msg] \in {"none", "failed"},
           ledger' = [ledger EXCEPT ![call[c].msg] = "processing"],
           UNCHANGED <<taken, halfway, stranded, answered, refused>>
    PROVE  Claims'
<1> DEFINE m == call[c].msg
<1> USE DEF Holding, Claiming
<1>1. /\ call'[c].pc = "claimed" /\ call'[c].msg = m
      /\ \A d \in Calls : d # c => call'[d] = call[d]
  BY GotoFacts DEF CallPCs
<1>2. m \in Messages
  BY DEF TypeOK
<1>3. ledger'[m] = "processing" /\ \A n \in Messages : n # m => ledger'[n] = ledger[n]
  BY <1>2 DEF TypeOK
<1>4. \A d \in Calls : call[d].pc \in Holding => call[d].msg # m /\ call[d].msg \in Messages
  BY DEF Claims, OneHolder, TypeOK
<1>5. OneHolder'
  <2>1. \A d \in Calls : call'[d].pc \in Holding => ledger'[call'[d].msg] = "processing"
    BY <1>1, <1>3, <1>4 DEF Claims, OneHolder
  <2>2. \A d, e \in Calls :
           call'[d].pc \in Holding /\ call'[e].pc \in Holding /\ call'[d].msg = call'[e].msg
               => d = e
    BY <1>1, <1>4 DEF Claims, OneHolder
  <2>3. QED
    BY <2>1, <2>2 DEF OneHolder
<1>6. TakenOnce'
  <2>1. Unclaimed(m)
    BY DEF Unclaimed
  <2>2. \A n \in Messages : n # m => (Unclaimed(n)' => Unclaimed(n))
    BY <1>1, <1>3 DEF Unclaimed
  <2>3. QED
    BY <1>2, <2>1, <2>2 DEF Claims, TakenOnce
<1>7. RowsTell'
  <2>1. \A d \in Calls : call'[d].pc = "finishing" => taken'[call'[d].msg] > 0
    BY <1>1 DEF Claims, RowsTell
  <2>2. \A d \in Calls : call'[d].pc \in {"conflict", "reading", "remembering"}
            => ledger'[call'[d].msg] # "none"
    <3>1. \A d \in Calls : call[d].pc # "idle" => call[d].msg \in Messages
      BY DEF TypeOK
    <3>2. QED
      BY <1>1, <1>3, <3>1 DEF Claims, RowsTell
  <2>3. \A n \in Messages :
          ledger'[n] \in {"processing", "accepted"} =>
              \/ n \in stranded' \/ taken'[n] > 0
              \/ \E d \in Calls : call'[d].msg = n /\ call'[d].pc \in Claiming
    <3>1. ASSUME NEW n \in Messages, ledger'[n] \in {"processing", "accepted"}, n # m
          PROVE  \/ n \in stranded' \/ taken'[n] > 0
                 \/ \E d \in Calls : call'[d].msg = n /\ call'[d].pc \in Claiming
      BY <1>1, <1>3, <3>1 DEF Claims, RowsTell
    <3>2. QED
      BY <1>1, <3>1
  <2>4. \A n \in answered' : n \in refused' \/ ledger'[n] # "none"
    BY <1>3 DEF Claims, RowsTell, TypeOK
  <2>5. QED
    BY <2>1, <2>2, <2>3, <2>4 DEF RowsTell
<1>8. QED
  BY <1>5, <1>6, <1>7 DEF Claims

\* The row says processing, but the call ended with an error: nobody has the claim.
LEMMA KeptByLoss ==
    ASSUME TypeOK, Claims, NEW c \in Calls, End(c),
           call[c].pc \in {"claiming", "conflict"},
           ledger[call[c].msg] \in {"none", "failed"},
           ledger' = [ledger EXCEPT ![call[c].msg] = "processing"],
           stranded' = stranded \cup {call[c].msg},
           UNCHANGED <<taken, halfway, answered, refused>>
    PROVE  Claims'
<1> DEFINE m == call[c].msg
<1> USE DEF Holding, Claiming
<1>1. call'[c].pc = "idle" /\ \A d \in Calls : d # c => call'[d] = call[d]
  BY EndFacts
<1>2. m \in Messages /\ \A d \in Calls : call[d].pc # "idle" => call[d].msg \in Messages
  BY DEF TypeOK
<1>3. ledger'[m] = "processing" /\ \A n \in Messages : n # m => ledger'[n] = ledger[n]
  BY <1>2 DEF TypeOK
<1>4. OneHolder'
  <2>1. \A d \in Calls : call'[d].pc \in Holding => d # c /\ call[d].pc \in Holding
    BY <1>1
  <2>2. QED
    BY <1>1, <1>2, <1>3, <2>1 DEF Claims, OneHolder
<1>5. TakenOnce'
  <2>1. \A n \in Messages : Unclaimed(n)' => Unclaimed(n)
    BY <1>1, <1>3 DEF Unclaimed
  <2>2. QED
    BY <2>1 DEF Claims, TakenOnce
<1>6. RowsTell'
  <2>1. \A d \in Calls : call'[d].pc = "finishing" => taken'[call'[d].msg] > 0
    BY <1>1 DEF Claims, RowsTell
  <2>2. \A d \in Calls : call'[d].pc \in {"conflict", "reading", "remembering"}
            => ledger'[call'[d].msg] # "none"
    BY <1>1, <1>2, <1>3 DEF Claims, RowsTell
  <2>3. ASSUME NEW n \in Messages, ledger'[n] \in {"processing", "accepted"}
        PROVE  \/ n \in stranded' \/ taken'[n] > 0
               \/ \E d \in Calls : call'[d].msg = n /\ call'[d].pc \in Claiming
    BY <1>1, <1>3, <2>3 DEF Claims, RowsTell
  <2>4. \A n \in answered' : n \in refused' \/ ledger'[n] # "none"
    BY <1>3 DEF Claims, RowsTell, TypeOK
  <2>5. QED
    BY <2>1, <2>2, <2>3, <2>4 DEF RowsTell
<1>7. QED
  BY <1>4, <1>5, <1>6 DEF Claims

LEMMA KeptByInsert ==
    ASSUME TypeOK, Claims, NEW c \in Calls, InsertClaim(c) \/ ReclaimFailed(c) PROVE Claims'
<1>1. call[c].pc \in {"claiming", "conflict"} /\ UNCHANGED <<taken, halfway, answered, refused>>
  BY DEF InsertClaim, ReclaimFailed
<1>2. CASE Goto(c, "claimed") /\ ledger[call[c].msg] \in {"none", "failed"}
           /\ TakesClaim(call[c].msg) /\ UNCHANGED stranded
  BY <1>1, <1>2, KeptByClaim DEF TakesClaim
<1>3. CASE UNCHANGED <<ledger, stranded>> /\ End(c)
  <2>1. Aside(c)
    BY <1>1, <1>3, EndFacts DEF Aside, Holding, Claiming
  <2>2. QED
    BY <2>1, ClaimsKept
<1>4. CASE UNCHANGED <<ledger, stranded>> /\ ledger[call[c].msg] # "none"
           /\ (Goto(c, "conflict") \/ Goto(c, "reading"))
  <2>1. /\ \A d \in Calls : d # c => call'[d].pc = call[d].pc /\ call'[d].msg = call[d].msg
        /\ call'[c].pc \in {"conflict", "reading"} /\ call'[c].msg = call[c].msg
    BY <1>4, GotoFacts DEF CallPCs
  <2>2. Aside(c)
    BY <1>1, <1>4, <2>1 DEF Aside, Holding, Claiming
  <2>3. QED
    BY <2>2, ClaimsKept
<1>5. CASE End(c) /\ ledger[call[c].msg] \in {"none", "failed"} /\ TakesClaim(call[c].msg)
           /\ stranded' = stranded \cup {call[c].msg}
  BY <1>1, <1>5, KeptByLoss DEF TakesClaim
<1>6. CASE InsertClaim(c)
  BY <1>2, <1>3, <1>4, <1>5, <1>6 DEF InsertClaim, ClaimFails
<1>7. CASE ReclaimFailed(c)
  <2>1. ledger[call[c].msg] # "none"
    BY <1>7 DEF Claims, RowsTell, ReclaimFailed
  <2>2. QED
    BY <1>2, <1>3, <1>4, <1>5, <1>7, <2>1 DEF ReclaimFailed, ClaimFails
<1>8. QED
  BY <1>6, <1>7

\* The message is handed over, or HandleChat fails.
LEMMA KeptByHandle ==
    ASSUME TypeOK, Claims, NEW c \in Calls, HandleChat(c) PROVE Claims'
<1> DEFINE m == call[c].msg
<1> USE DEF Holding, Claiming
<1>1. /\ call[c].pc = "claimed" /\ m \in Messages
      /\ UNCHANGED <<ledger, stranded, answered, refused>>
  BY DEF HandleChat, TypeOK
<1>2. /\ call'[c].pc \in {"finishing", "failing"} /\ call'[c].msg = m
      /\ \A d \in Calls : d # c => call'[d] = call[d]
  BY GotoFacts DEF HandleChat, CallPCs
<1>3. /\ \A d \in Calls : call'[d].msg = call[d].msg
      /\ \A d \in Calls : call'[d].pc \in Holding <=> call[d].pc \in Holding
      /\ \A d \in Calls : call'[d].pc \in Claiming => call[d].pc \in Claiming
  BY <1>1, <1>2
<1>4. \A d \in Calls : call[d].pc \in Holding /\ call[d].msg = m => d = c
  BY <1>1 DEF Claims, OneHolder
<1>5. Unclaimed(m) /\ ledger[m] = "processing"
  BY <1>1 DEF Claims, OneHolder, Unclaimed
<1>6. /\ \A n \in Messages : n # m => taken'[n] = taken[n]
      /\ \A n \in Messages : taken[n] \in Nat /\ taken'[n] \in Nat /\ taken'[n] >= taken[n]
      /\ halfway \subseteq halfway'
      /\ \/ taken' = taken /\ call'[c].pc = "failing" /\ halfway' = halfway
         \/ m \in halfway' /\ call'[c].pc = "failing" /\ taken'[m] = taken[m] + 1
         \/ call'[c].pc = "finishing" /\ taken'[m] = taken[m] + 1 /\ halfway' = halfway
  <2>1. CASE taken' = taken
    BY <1>1, <2>1, GotoFacts DEF HandleChat, TypeOK, CallPCs
  <2>2. CASE taken' = [taken EXCEPT ![m] = @ + 1]
    BY <1>1, <2>2, GotoFacts DEF HandleChat, TypeOK, CallPCs
  <2>3. QED
    BY <2>1, <2>2 DEF HandleChat
<1>7. OneHolder'
  BY <1>1, <1>3 DEF Claims, OneHolder
<1>8. TakenOnce'
  <2>1. ASSUME NEW n \in Messages, n \notin halfway', n # m
        PROVE  taken'[n] <= 1 /\ (Unclaimed(n)' => taken'[n] = 0)
    BY <1>1, <1>3, <1>6, <2>1 DEF Claims, TakenOnce, Unclaimed
  <2>2. CASE taken' = taken /\ call'[c].pc = "failing" /\ halfway' = halfway
    BY <1>5, <2>1, <2>2 DEF Claims, TakenOnce
  <2>3. CASE m \in halfway'
    BY <2>1, <2>3 DEF TakenOnce
  <2>4. CASE call'[c].pc = "finishing" /\ taken'[m] = taken[m] + 1 /\ halfway' = halfway
    <3>1. \A n \in Messages : n = m => ~ Unclaimed(n)'
      BY <1>1, <1>3, <1>4, <1>5, <2>4 DEF Unclaimed
    <3>2. m \notin halfway => taken'[m] <= 1
      BY <1>1, <1>5, <1>6, <2>4 DEF Claims, TakenOnce
    <3>3. ASSUME NEW n \in Messages \ halfway'
          PROVE  taken'[n] <= 1 /\ (Unclaimed(n)' => taken'[n] = 0)
      BY <2>1, <2>4, <3>1, <3>2
    <3>4. QED
      BY <3>3 DEF TakenOnce
  <2>5. QED
    BY <1>6, <2>2, <2>3, <2>4
<1>9. RowsTell'
  <2>1. \A d \in Calls : call'[d].pc = "finishing" => taken'[call'[d].msg] > 0
    <3>1. \A d \in Calls : call[d].pc # "idle" => call[d].msg \in Messages
      BY DEF TypeOK
    <3>2. call'[c].pc = "finishing" => taken'[m] > 0
      BY <1>1, <1>6
    <3>3. ASSUME NEW d \in Calls, d # c, call'[d].pc = "finishing"
          PROVE  taken'[call'[d].msg] > 0
      BY <1>2, <1>4, <1>6, <3>1, <3>3 DEF Claims, RowsTell
    <3>4. QED
      BY <1>2, <3>2, <3>3
  <2>2. \A d \in Calls : call'[d].pc \in {"conflict", "reading", "remembering"}
            => ledger'[call'[d].msg] # "none"
    BY <1>1, <1>2 DEF Claims, RowsTell
  <2>3. ASSUME NEW n \in Messages, ledger'[n] \in {"processing", "accepted"}
        PROVE  \/ n \in stranded' \/ taken'[n] > 0
               \/ \E d \in Calls : call'[d].msg = n /\ call'[d].pc \in Claiming
    <3>1. CASE n = m
      <4>1. call'[c].pc = "finishing" => taken'[m] > 0
        BY <1>1, <1>6
      <4>2. QED
        BY <1>2, <3>1, <4>1
    <3>2. CASE n # m
      BY <1>1, <1>2, <1>6, <2>3, <3>2 DEF Claims, RowsTell
    <3>3. QED
      BY <3>1, <3>2
  <2>4. \A n \in answered' : n \in refused' \/ ledger'[n] # "none"
    BY <1>1 DEF Claims, RowsTell
  <2>5. QED
    BY <2>1, <2>2, <2>3, <2>4 DEF RowsTell
<1>10. QED
  BY <1>7, <1>8, <1>9 DEF Claims

\* The claim ends: the row says that the message was accepted, or that it
\* failed, or nobody can write it any more.
LEMMA KeptByRelease ==
    ASSUME TypeOK, Claims, NEW c \in Calls, FinishAccepted(c) \/ MarkFailed(c) PROVE Claims'
<1> DEFINE m == call[c].msg
<1> USE DEF Holding, Claiming
<1>1. /\ call[c].pc \in {"finishing", "failing"} /\ m \in Messages
      /\ UNCHANGED <<taken, halfway, answered, refused>>
      /\ stranded \subseteq stranded'
  BY DEF FinishAccepted, MarkFailed, TypeOK, history
<1>2. /\ \A d \in Calls : d # c => call'[d] = call[d]
      /\ call'[c].pc \in {"idle", "remembering"}
      /\ call'[c].pc = "remembering" => call'[c].msg = m /\ ledger'[m] # "none"
  <2>1. CASE Goto(c, "remembering") /\ ledger' = [ledger EXCEPT ![m] = "accepted"]
    BY <1>1, <2>1, GotoFacts DEF TypeOK, CallPCs
  <2>2. CASE End(c)
    BY <2>2, EndFacts
  <2>3. QED
    BY <2>1, <2>2 DEF FinishAccepted, MarkFailed
<1>3. \A d \in Calls : call[d].pc # "idle" => call[d].msg \in Messages
  BY DEF TypeOK
<1>4. \A d \in Calls : call[d].pc \in Holding /\ call[d].msg = m => d = c
  BY <1>1 DEF Claims, OneHolder
<1>5. /\ \A n \in Messages : n # m => ledger'[n] = ledger[n]
      /\ ledger[m] = "processing" /\ ledger'[m] # "none"
      /\ ledger'[m] = "failed" => call[c].pc = "failing"
      /\ ledger'[m] = "processing" => m \in stranded' \/ taken[m] > 0
      /\ ledger'[m] = "accepted" => taken[m] > 0
  <2>1. ledger[m] = "processing" /\ (call[c].pc = "finishing" => taken[m] > 0)
    BY <1>1 DEF Claims, OneHolder, RowsTell
  <2>2. CASE FinishAccepted(c)
    BY <1>1, <2>1, <2>2 DEF FinishAccepted, TypeOK
  <2>3. CASE MarkFailed(c)
    BY <1>1, <2>1, <2>3 DEF MarkFailed, TypeOK
  <2>4. QED
    BY <2>2, <2>3
<1>6. OneHolder'
  <2>1. \A d \in Calls : call'[d].pc \in Holding =>
            d # c /\ call[d].pc \in Holding /\ call'[d].msg = call[d].msg /\ call[d].msg # m
    BY <1>2, <1>4
  <2>2. QED
    BY <1>3, <1>5, <2>1 DEF Claims, OneHolder
<1>7. TakenOnce'
  <2>1. \A n \in Messages : Unclaimed(n)' => Unclaimed(n)
    BY <1>1, <1>2, <1>5 DEF Unclaimed
  <2>2. QED
    BY <1>1, <2>1 DEF Claims, TakenOnce
<1>8. RowsTell'
  <2>1. \A d \in Calls : call'[d].pc = "finishing" => taken'[call'[d].msg] > 0
    BY <1>1, <1>2 DEF Claims, RowsTell
  <2>2. \A d \in Calls : call'[d].pc \in {"conflict", "reading", "remembering"}
            => ledger'[call'[d].msg] # "none"
    BY <1>2, <1>3, <1>5 DEF Claims, RowsTell
  <2>3. ASSUME NEW n \in Messages, ledger'[n] \in {"processing", "accepted"}
        PROVE  \/ n \in stranded' \/ taken'[n] > 0
               \/ \E d \in Calls : call'[d].msg = n /\ call'[d].pc \in Claiming
    <3>1. CASE n = m
      BY <1>1, <1>5, <2>3, <3>1
    <3>2. CASE n # m
      BY <1>1, <1>2, <1>5, <2>3, <3>2 DEF Claims, RowsTell
    <3>3. QED
      BY <3>1, <3>2
  <2>4. \A n \in answered' : n \in refused' \/ ledger'[n] # "none"
    BY <1>1, <1>5 DEF Claims, RowsTell, TypeOK
  <2>5. QED
    BY <2>1, <2>2, <2>3, <2>4 DEF RowsTell
<1>9. QED
  BY <1>6, <1>7, <1>8 DEF Claims

LEMMA KeptByDeliver ==
    ASSUME TypeOK, Claims, NEW c \in Calls, NEW m \in Messages, Deliver(c, m) PROVE Claims'
<1>1. /\ \A d \in Calls : d # c => call'[d] = call[d]
      /\ call[c].pc = "idle" /\ call'[c].pc = "resolving"
  BY DEF Deliver, TypeOK
<1>2. Aside(c)
  BY <1>1 DEF Aside, Deliver, history, Holding, Claiming
<1>3. QED
  BY <1>2, ClaimsKept

\* The steps of the messenger and of the administrators do not touch a claim.
LEMMA KeptElsewhere ==
    ASSUME TypeOK, Claims,
           UNCHANGED <<ledger, answered, refused, taken, halfway, stranded>>,
           \A d \in Calls : call'[d].pc = call[d].pc /\ call'[d].msg = call[d].msg
    PROVE  Claims'
<1>1. OneHolder'
  BY DEF Claims, OneHolder
<1>2. TakenOnce'
  BY DEF Claims, TakenOnce, Unclaimed
<1>3. RowsTell'
  BY DEF Claims, RowsTell
<1>4. QED
  BY <1>1, <1>2, <1>3 DEF Claims

LEMMA KeptByCrash == ASSUME TypeOK, Claims, Crash PROVE Claims'
<1> USE DEF Holding, Claiming
<1>1. /\ \A d \in Calls : call'[d].pc = "idle"
      /\ UNCHANGED <<ledger, answered, refused, taken, halfway>>
      /\ \A d \in Calls : call[d].pc \in Claiming => call[d].msg \in stranded'
      /\ stranded \subseteq stranded'
  BY DEF Crash, NoCall
<1>2. OneHolder'
  BY <1>1 DEF OneHolder
<1>3. TakenOnce'
  BY <1>1 DEF Claims, TakenOnce, Unclaimed
<1>4. RowsTell'
  BY <1>1 DEF Claims, RowsTell
<1>5. QED
  BY <1>2, <1>3, <1>4 DEF Claims

LEMMA ClaimsNext == ASSUME TypeOK, Claims, [Next]_vars PROVE Claims'
<1>1. ASSUME NEW c \in Calls, Accept(c) PROVE Claims'
  BY <1>1, KeptByFind, KeptByUpsert, KeptByInsert, KeptByAnswer, KeptByHandle, KeptByRelease
     DEF Accept
<1>2. ASSUME NEW c \in Calls, HangUp(c) PROVE Claims'
  BY <1>2, HangUpFacts, KeptElsewhere DEF HangUp, history
<1>3. CASE Edit
  BY <1>3, KeptElsewhere DEF Edit, CreatePairing, DeletePairing, UpdateRead, UpdateWrite, history
<1>4. CASE UNCHANGED vars
  BY <1>4, KeptElsewhere DEF vars, history
<1>5. QED
  BY <1>1, <1>2, <1>3, <1>4, KeptByDeliver, KeptByCrash DEF Next

THEOREM ClaimsHold == Spec => []Claims
<1>1. Init => Claims
  BY ClaimsInit
<1>2. TypeOK /\ Claims /\ [Next]_vars => Claims'
  BY ClaimsNext
<1>3. QED
  BY <1>1, <1>2, TypeCorrect, PTL DEF Spec

\* A message that is delivered again and again, also while an earlier call
\* is at work, reaches the DM service once, unless HandleChat passed it on
\* and failed.
THEOREM MessagesAreHandledOnce == Spec => []HandledOnce
<1>1. Claims => HandledOnce
  BY DEF Claims, TakenOnce, HandledOnce
<1>2. QED
  BY <1>1, ClaimsHold, PTL

LEMMA RowsAnswer == ASSUME TypeOK, Claims PROVE AnsweredIsHandled
<1>1. ASSUME NEW m \in answered
      PROVE  \/ m \in refused \cup stranded
             \/ ledger[m] = "failed"
             \/ taken[m] > 0
             \/ \E c \in Calls : call[c].msg = m /\ call[c].pc \in Claiming
  <2>1. ledger[m] \in {"none", "processing", "accepted", "failed"} /\ m \in Messages
    BY DEF TypeOK
  <2>2. QED
    BY <2>1 DEF Claims, RowsTell
<1>2. QED
  BY <1>1 DEF AnsweredIsHandled

\* A message the messenger will not repeat was handled, is in a call's hand,
\* waits for a pairing, or is on record as failed, unless its claim was lost.
THEOREM AnswersAreTrue == Spec => []AnsweredIsHandled
<1>1. TypeOK /\ Claims => AnsweredIsHandled
  BY RowsAnswer
<1>2. QED
  BY <1>1, TypeCorrect, ClaimsHold, PTL

---------------------------------------------------------------------------
(* The pairing *)

\* What was read after the last verdict agrees with it as far as the pairing does,
\* and an update that read an open chat read one that was approved.
Agrees ==
    /\ before \subseteq Looking
    /\ \A c \in Calls : call[c].pc = "unpaired" /\ c \notin before /\ overtaken = {} =>
           verdict # "active"
    /\ \A e \in Edits : edit[e].pc = "read" /\ e \notin before =>
           /\ overtaken = {} => (edit[e].copy = "active" <=> verdict = "active")
           /\ "update" \notin overtaken /\ edit[e].copy = "active" => verdict = "active"
    /\ \A e \in Edits : edit[e].pc = "read" /\ edit[e].copy = "active" => approved

Verdicts == VerdictKept /\ Agrees

\* A call takes a step that does not look at the pairing and not write it.
LEMMA CallAgrees ==
    ASSUME TypeOK, Verdicts, NEW c \in Calls, Moves(c),
           call[c].pc # "unpaired", call'[c].pc # "unpaired",
           UNCHANGED <<pairing, edit, verdicts>>
    PROVE  Verdicts'
<1>1. \A d \in Calls : d # c => call'[d] = call[d]
  BY GotoFacts, EndFacts DEF Moves
<1>2. Looking' = Looking
  BY <1>1 DEF Looking
<1>3. \A d \in Calls : call'[d].pc = "unpaired" => call[d].pc = "unpaired"
  BY <1>1
<1>4. QED
  BY <1>2, <1>3 DEF Verdicts, VerdictKept, Agrees, verdicts

LEMMA FindAgrees ==
    ASSUME TypeOK, Verdicts, NEW c \in Calls, FindPairing(c) PROVE Verdicts'
<1>1. UNCHANGED <<pairing, edit, verdicts>> /\ call[c].pc # "unpaired" /\ Moves(c)
  BY DEF FindPairing, history, Moves, CallPCs
<1>2. CASE Goto(c, "unpaired") /\ pairing # "active"
  <2>1. call'[c].pc = "unpaired" /\ \A d \in Calls : d # c => call'[d] = call[d]
    BY <1>2, GotoFacts DEF CallPCs
  <2>2. Looking \subseteq Looking'
    BY <1>1, <2>1 DEF Looking
  <2>3. QED
    BY <1>1, <1>2, <2>1, <2>2 DEF Verdicts, VerdictKept, Agrees, verdicts
<1>3. CASE Goto(c, "claiming") \/ End(c)
  <2>1. call'[c].pc # "unpaired"
    BY <1>3, GotoFacts, EndFacts DEF CallPCs
  <2>2. QED
    BY <1>1, <2>1, CallAgrees
<1>4. QED
  BY <1>2, <1>3 DEF FindPairing

\* A message that found no active pairing closes the chat.
LEMMA UpsertAgrees ==
    ASSUME TypeOK, Verdicts, NEW c \in Calls, UpsertPending(c) PROVE Verdicts'
<1>1. /\ call[c].pc = "unpaired" /\ call'[c].pc = "idle"
      /\ \A d \in Calls : d # c => call'[d] = call[d]
      /\ UNCHANGED <<edit, verdict, approved>>
  BY EndFacts DEF UpsertPending
<1>2. before' = before \ {c} /\ c \notin Edits
  BY DEF UpsertPending, Overtakes
<1>3. \/ pairing' = "pending" /\ overtaken' = IF c \in before THEN overtaken \cup {"message"}
                                                          ELSE overtaken
      \/ pairing' = pairing /\ overtaken' = overtaken
  BY DEF UpsertPending, Overtakes
<1>4. overtaken \subseteq overtaken' /\ ("update" \in overtaken' => "update" \in overtaken)
  BY <1>3
<1>5. overtaken' = {} => overtaken = {} /\ (pairing' = pairing \/ c \notin before)
  BY <1>3
<1>6. VerdictKept'
  <2>1. overtaken' = {} => (pairing' = "active" <=> verdict' = "active")
    BY <1>1, <1>3, <1>5 DEF Verdicts, VerdictKept, Agrees
  <2>2. pairing' = "active" => pairing = "active"
    BY <1>3
  <2>3. QED
    BY <1>1, <1>4, <2>1, <2>2 DEF Verdicts, VerdictKept
<1>7. Agrees'
  <2>1. before' \subseteq Looking'
    BY <1>1, <1>2 DEF Verdicts, Agrees, Looking
  <2>2. \A d \in Calls : call'[d].pc = "unpaired" => call[d].pc = "unpaired" /\ d # c
    BY <1>1
  <2>3. \A d \in Calls : call'[d].pc = "unpaired" /\ d \notin before' /\ overtaken' = {} =>
            verdict' # "active"
    BY <1>1, <1>2, <1>5, <2>2 DEF Verdicts, Agrees
  <2>4. \A e \in Edits : edit'[e].pc = "read" /\ e \notin before' =>
           /\ overtaken' = {} => (edit'[e].copy = "active" <=> verdict' = "active")
           /\ "update" \notin overtaken' /\ edit'[e].copy = "active" => verdict' = "active"
    BY <1>1, <1>2, <1>4, <1>5 DEF Verdicts, Agrees
  <2>5. QED
    BY <1>1, <2>1, <2>3, <2>4 DEF Verdicts, Agrees
<1>8. QED
  BY <1>6, <1>7 DEF Verdicts

LEMMA AcceptAgrees == ASSUME TypeOK, Verdicts, NEW c \in Calls, Accept(c) PROVE Verdicts'
<1>1. CASE FindPairing(c) \/ UpsertPending(c)
  BY <1>1, FindAgrees, UpsertAgrees
<1>2. CASE ~FindPairing(c) /\ ~UpsertPending(c)
  <2>1. call[c].pc # "unpaired" /\ UNCHANGED <<pairing, edit, verdicts>>
    BY <1>2 DEF Accept, InsertClaim, ReclaimFailed, ReadClaim, HandleChat, FinishAccepted,
       RememberRoute, MarkFailed, history
  <2>2. End(c) \/ \E label \in CallPCs \ {"unpaired"} : Goto(c, label)
    BY <1>2 DEF Accept, InsertClaim, ReclaimFailed, ReadClaim, HandleChat, FinishAccepted,
       RememberRoute, MarkFailed, ClaimFails, CallPCs, Claiming
  <2>3. call'[c].pc # "unpaired" /\ Moves(c)
    BY <2>2, GotoFacts, EndFacts DEF Moves
  <2>4. QED
    BY <2>1, <2>3, CallAgrees
<1>3. QED
  BY <1>1, <1>2

\* An administrator's own decision: all who look at the pairing did before it.
LEMMA DecisionAgrees ==
    ASSUME TypeOK, Verdicts, NEW status, NEW writers \in SUBSET Edits, Decide(status, writers),
           UNCHANGED call,
           \A e \in Edits \ writers : edit'[e] = edit[e],
           \A e \in writers : edit'[e].pc = "idle"
    PROVE  Verdicts'
<1>1. /\ pairing' = status /\ verdict' = status /\ overtaken' = {}
      /\ approved' = (approved \/ status = "active") /\ before' = Looking \ writers
  BY DEF Decide
<1>2. VerdictKept'
  BY <1>1 DEF VerdictKept
<1>3. \A c \in Calls : call'[c].pc = "unpaired" => c \in before'
  BY <1>1 DEF Looking
<1>4. \A e \in Edits : edit'[e].pc = "read" => e \in before' /\ edit'[e] = edit[e]
  BY <1>1 DEF Looking
<1>5. before' \subseteq Looking'
  BY <1>1 DEF Looking
<1>6. Agrees'
  BY <1>1, <1>3, <1>4, <1>5 DEF Verdicts, Agrees
<1>7. QED
  BY <1>2, <1>6 DEF Verdicts

LEMMA ReadAgrees ==
    ASSUME TypeOK, Verdicts, NEW e \in Edits, UpdateRead(e) PROVE Verdicts'
<1>1. /\ edit[e].pc = "idle" /\ edit'[e].pc = "read" /\ edit'[e].copy = pairing
      /\ \A f \in Edits : f # e => edit'[f] = edit[f]
      /\ UNCHANGED <<pairing, call, verdicts>>
  BY DEF UpdateRead, TypeOK, history
<1>2. Looking \subseteq Looking'
  BY <1>1 DEF Looking
<1>3. QED
  BY <1>1, <1>2 DEF Verdicts, VerdictKept, Agrees, verdicts

\* An update that asked for no status writes the one it has read.
LEMMA CopyAgrees ==
    ASSUME TypeOK, Verdicts, NEW e \in Edits, edit[e].pc = "read",
           pairing' = edit[e].copy, Overtakes(e, "update"),
           edit' = [edit EXCEPT ![e] = NoEdit],
           UNCHANGED <<call, verdict, approved>>
    PROVE  Verdicts'
<1>1. /\ edit'[e].pc = "idle" /\ \A f \in Edits : f # e => edit'[f] = edit[f]
      /\ e \notin Calls
  BY DEF TypeOK, NoEdit
<1>2. before' = before \ {e} /\ overtaken \subseteq overtaken'
  BY DEF Overtakes
<1>3. "update" \notin overtaken' => overtaken' = overtaken /\ e \notin before
  BY DEF Overtakes
<1>4. VerdictKept'
  BY <1>3 DEF Verdicts, VerdictKept, Agrees
<1>5. \A f \in Edits : edit'[f].pc = "read" => f # e /\ edit[f].pc = "read" /\ edit'[f] = edit[f]
  BY <1>1
<1>6. before' \subseteq Looking'
  BY <1>1, <1>2 DEF Verdicts, Agrees, Looking
<1>7. \A c \in Calls : call'[c].pc = "unpaired" /\ c \notin before' /\ overtaken' = {} =>
          verdict' # "active"
  BY <1>1, <1>2 DEF Verdicts, Agrees
<1>8. \A f \in Edits : edit'[f].pc = "read" /\ f \notin before' =>
          /\ overtaken' = {} => (edit'[f].copy = "active" <=> verdict' = "active")
          /\ "update" \notin overtaken' /\ edit'[f].copy = "active" => verdict' = "active"
  BY <1>2, <1>3, <1>5 DEF Verdicts, Agrees
<1>9. \A f \in Edits : edit'[f].pc = "read" /\ edit'[f].copy = "active" => approved'
  BY <1>5 DEF Verdicts, Agrees
<1>10. Agrees'
  BY <1>6, <1>7, <1>8, <1>9 DEF Agrees
<1>11. QED
  BY <1>4, <1>10 DEF Verdicts

LEMMA EditAgrees == ASSUME TypeOK, Verdicts, Edit PROVE Verdicts'
<1>1. ASSUME CreatePairing \/ DeletePairing PROVE Verdicts'
  <2>1. PICK status : Decide(status, {})
    BY <1>1 DEF CreatePairing, DeletePairing
  <2>2. UNCHANGED <<call, edit>>
    BY <1>1 DEF CreatePairing, DeletePairing
  <2>3. QED
    BY <2>1, <2>2, DecisionAgrees
<1>2. ASSUME NEW e \in Edits, UpdateWrite(e) PROVE Verdicts'
  <2>1. edit[e].pc = "read" /\ UNCHANGED call /\ edit' = [edit EXCEPT ![e] = NoEdit]
    BY <1>2 DEF UpdateWrite
  <2>2. CASE Decide(edit[e].ask, {e})
    <3>1. edit'[e].pc = "idle" /\ \A f \in Edits \ {e} : edit'[f] = edit[f]
      BY <2>1 DEF TypeOK, NoEdit
    <3>2. QED
      BY <2>1, <2>2, <3>1, DecisionAgrees
  <2>3. CASE ~Decide(edit[e].ask, {e})
    <3>1. pairing' = edit[e].copy /\ Overtakes(e, "update") /\ UNCHANGED <<verdict, approved>>
      BY <1>2, <2>3 DEF UpdateWrite
    <3>2. QED
      BY <2>1, <3>1, CopyAgrees
  <2>4. QED
    BY <2>2, <2>3
<1>3. QED
  BY <1>1, <1>2, ReadAgrees DEF Edit

\* The messenger's steps change no call that looks at the pairing.
LEMMA MessengerAgrees ==
    ASSUME TypeOK, Verdicts, UNCHANGED <<pairing, edit, verdicts>>,
           \A c \in Calls : call'[c].pc = "unpaired" <=> call[c].pc = "unpaired"
    PROVE  Verdicts'
<1>1. Looking' = Looking
  BY DEF Looking
<1>2. QED
  BY <1>1 DEF Verdicts, VerdictKept, Agrees, verdicts

LEMMA CrashAgrees == ASSUME TypeOK, Verdicts, Crash PROVE Verdicts'
<1>1. \A c \in Calls : call'[c].pc = "idle"
  BY DEF Crash, NoCall
<1>2. \A e \in Edits : edit'[e].pc = "idle"
  BY DEF Crash, NoEdit
<1>3. before' = {} /\ UNCHANGED <<pairing, verdict, approved, overtaken>>
  BY DEF Crash
<1>4. QED
  BY <1>1, <1>2, <1>3 DEF Verdicts, VerdictKept, Agrees

LEMMA VerdictNext == ASSUME TypeOK, Verdicts, [Next]_vars PROVE Verdicts'
<1>1. ASSUME NEW c \in Calls, NEW m \in Messages, Deliver(c, m) PROVE Verdicts'
  <2>1. /\ UNCHANGED <<pairing, edit, verdicts>>
        /\ \A d \in Calls : call'[d].pc = "unpaired" <=> call[d].pc = "unpaired"
    BY <1>1 DEF Deliver, TypeOK, history
  <2>2. QED
    BY <2>1, MessengerAgrees
<1>2. ASSUME NEW c \in Calls, HangUp(c) PROVE Verdicts'
  <2>1. UNCHANGED <<pairing, edit, verdicts>>
    BY <1>2 DEF HangUp, history
  <2>2. QED
    BY <1>2, <2>1, HangUpFacts, MessengerAgrees
<1>3. CASE UNCHANGED vars
  BY <1>3, MessengerAgrees DEF vars, history
<1>4. QED
  BY <1>1, <1>2, <1>3, AcceptAgrees, EditAgrees, CrashAgrees DEF Next

\* The chat is open to its agent exactly when the last administrator who decided
\* says so, until one who had looked before that decision writes; only an update
\* can then open a chat, and only one that was approved once.
THEOREM VerdictsAreKept == Spec => []VerdictKept
<1>1. Init => Verdicts
  BY DEF Init, NoCall, NoEdit, Verdicts, VerdictKept, Agrees
<1>2. TypeOK /\ Verdicts /\ [Next]_vars => Verdicts'
  BY VerdictNext
<1>3. Verdicts => VerdictKept
  BY DEF Verdicts
<1>4. QED
  BY <1>1, <1>2, <1>3, TypeCorrect, PTL DEF Spec

=============================================================================
