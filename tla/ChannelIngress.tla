--------------------------- MODULE ChannelIngress ---------------------------
(***************************************************************************)
(* How messages of one external chat come in: the pairing of the chat with *)
(* an agent, the ledger that makes a message count once, and the hand-over *)
(* to the DM service, beside the administrators who edit the pairing, a    *)
(* messenger that repeats what was not answered, and stops of the server.  *)
(*                                                                         *)
(* A call is a request of the messenger at work and carries a message with *)
(* a request id, as Feishu's callbacks do; what comes from Telegram and    *)
(* Discord gets an id of its own each time, so that nothing is repeated.   *)
(* The agents, the session, the delivery route and the tools a message may *)
(* use are left out.                                                       *)
(***************************************************************************)
EXTENDS Naturals

CONSTANTS
    Messages,      \* messages, by request id
    Calls,         \* requests of the messenger that may be at work together
    Edits,         \* updates of the pairing that may be at work together
    Nothing,       \* no message, or no status asked for
    MaxEvents      \* bound: failed operations, hang-ups and stops, together

ASSUME NothingAssumption ==
    Nothing \notin Messages \cup {"pending", "active", "disabled"}
ASSUME MaxEventsAssumption == MaxEvents \in Nat
ASSUME WritersAssumption == Calls \cap Edits = {}

VARIABLES
    pairing,    \* database: the status of the chat's row of im_pairings, or "none"
    ledger,     \* database: the status of each message in im_ingress_messages
    call,       \* each call of Accept
    edit,       \* each edit of the pairing
    events,     \* how many failures, hang-ups and stops there were
    answered,   \* external: messages the messenger got a success for
    verdict,    \* history: the last status an administrator asked for
    approved,   \* history: an administrator has asked for "active" once
    before,     \* history: calls and edits that looked at the pairing before the verdict
    overtaken,  \* history: which of them wrote it afterwards: a "message", an "update"
    refused,    \* history: messages answered with "pairing required"
    taken,      \* history: how often the DM service took each message
    halfway,    \* history: messages it took although HandleChat failed
    stranded    \* history: messages whose claim nobody will give back

verdicts == <<verdict, approved, before, overtaken>>
history == <<verdicts, refused, taken, halfway, stranded>>
vars == <<pairing, ledger, call, edit, events, answered, history>>

Decided == {"pending", "active", "disabled"}     \* rejected is one with disabled
Pairings == {"none"} \cup Decided
NoCall == [pc |-> "idle", msg |-> Nothing, gone |-> FALSE]
NoEdit == [pc |-> "idle", copy |-> "none", ask |-> Nothing]

\* A call that holds the claim of its message and has not handed it over.
Claiming == {"claimed", "failing"}
CallPCs == Claiming \cup {"idle", "resolving", "unpaired", "claiming", "conflict",
                          "reading", "finishing", "remembering"}

TypeOK ==
    /\ pairing \in Pairings
    /\ ledger \in [Messages -> {"none", "processing", "accepted", "failed"}]
    /\ call \in [Calls -> [pc: CallPCs, msg: Messages \cup {Nothing}, gone: BOOLEAN]]
    /\ \A c \in Calls : call[c].pc # "idle" => call[c].msg \in Messages
    /\ edit \in [Edits -> [pc: {"idle", "read"}, copy: Pairings,
                       ask: Decided \cup {Nothing}]]
    /\ events \in 0 .. MaxEvents
    /\ answered \subseteq Messages
    /\ verdict \in Pairings
    /\ approved \in BOOLEAN
    /\ before \subseteq Calls \cup Edits
    /\ overtaken \subseteq {"message", "update"}
    /\ refused \subseteq Messages
    /\ taken \in [Messages -> Nat]
    /\ halfway \subseteq Messages
    /\ stranded \subseteq Messages

Init ==
    /\ pairing = "none"
    /\ ledger = [m \in Messages |-> "none"]
    /\ call = [c \in Calls |-> NoCall]
    /\ edit = [e \in Edits |-> NoEdit]
    /\ events = 0
    /\ answered = {}
    /\ verdict = "none"
    /\ approved = FALSE /\ before = {} /\ overtaken = {}
    /\ refused = {}
    /\ taken = [m \in Messages |-> 0]
    /\ halfway = {}
    /\ stranded = {}

\* One more event, or none.
Event == events < MaxEvents /\ events' = events + 1
NoEvent == UNCHANGED events

Goto(c, label) == call' = [call EXCEPT ![c].pc = label]
End(c) == call' = [call EXCEPT ![c] = NoCall]

\* An operation of the call works, or fails: by an event, or because the
\* messenger hung up, which cancels the request's context.  A statement that
\* fails may have had its effect.
Works(c) == ~call[c].gone /\ NoEvent
Fails(c) == IF call[c].gone THEN NoEvent ELSE Event

---------------------------------------------------------------------------
(* The messenger: it repeats a message until it gets a success, and may    *)
(* not wait for an earlier attempt to end.                                 *)

Deliver(c, m) ==
    /\ call[c].pc = "idle"
    /\ m \notin answered
    /\ call' = [call EXCEPT ![c] = [pc |-> "resolving", msg |-> m, gone |-> FALSE]]
    /\ UNCHANGED <<pairing, ledger, edit, events, answered, history>>

HangUp(c) ==
    /\ call[c].pc # "idle"
    /\ ~call[c].gone
    /\ Event
    /\ call' = [call EXCEPT ![c].gone = TRUE]
    /\ UNCHANGED <<pairing, ledger, edit, answered, history>>

\* A success reaches the messenger, which still waits for it.
Answer(c) == answered' = answered \cup {call[c].msg}

---------------------------------------------------------------------------
(* Accept *)

\* ResolveIngressAgent looks for an active pairing; touchPairing writes times.
FindPairing(c) ==
    /\ call[c].pc = "resolving"
    /\ \/ Works(c) /\ Goto(c, IF pairing = "active" THEN "claiming" ELSE "unpaired")
       \/ Fails(c) /\ End(c)
    /\ UNCHANGED <<pairing, ledger, edit, answered, history>>

\* A call or an edit writes the pairing that it has looked at.
Overtakes(writer, kind) ==
    /\ overtaken' = IF writer \in before THEN overtaken \cup {kind} ELSE overtaken
    /\ before' = before \ {writer}

\* No active pairing was found: the row becomes a request for approval,
\* whatever it is by now, and the messenger is told so, as a success.
UpsertPending(c) ==
    /\ call[c].pc = "unpaired"
    /\ End(c)
    /\ \/ /\ Works(c)
          /\ pairing' = "pending" /\ Overtakes(c, "message")
          /\ refused' = refused \cup {call[c].msg}
          /\ Answer(c)
       \/ /\ Fails(c)
          /\ \/ pairing' = "pending" /\ Overtakes(c, "message")
             \/ before' = before \ {c} /\ UNCHANGED <<pairing, overtaken>>
          /\ UNCHANGED <<refused, answered>>
    /\ UNCHANGED <<ledger, edit, verdict, approved, taken, halfway, stranded>>

\* The row of a message says processing.
TakesClaim(m) == ledger' = [ledger EXCEPT ![m] = "processing"]

\* claimIngressMessage makes three statements; each may fail and end the call,
\* which then has not got the claim although the row may say so.
ClaimFails(c, free) ==
    LET m == call[c].msg IN
    /\ Fails(c)
    /\ End(c)
    /\ \/ UNCHANGED <<ledger, stranded>>
       \/ ledger[m] \in free /\ TakesClaim(m) /\ stranded' = stranded \cup {m}

InsertClaim(c) ==
    LET m == call[c].msg IN
    /\ call[c].pc = "claiming"
    /\ \/ /\ Works(c)
          /\ IF ledger[m] = "none" THEN TakesClaim(m) /\ Goto(c, "claimed")
                                   ELSE UNCHANGED ledger /\ Goto(c, "conflict")
          /\ UNCHANGED stranded
       \/ ClaimFails(c, {"none"})
    /\ UNCHANGED <<pairing, edit, answered, verdicts, refused, taken, halfway>>

\* Fault: a claim is taken over while its call is still at work.
FaultReclaimFailed(c) ==
    LET m == call[c].msg IN
    /\ call[c].pc = "conflict"
    /\ \/ /\ Works(c)
          /\ IF ledger[m] # "accepted" THEN TakesClaim(m) /\ Goto(c, "claimed")
                                       ELSE UNCHANGED ledger /\ Goto(c, "reading")
          /\ UNCHANGED stranded
       \/ ClaimFails(c, {"processing", "failed"})
    /\ UNCHANGED <<pairing, edit, answered, verdicts, refused, taken, halfway>>

ReclaimFailed(c) ==
    LET m == call[c].msg IN
    /\ call[c].pc = "conflict"
    /\ \/ /\ Works(c)
          /\ IF ledger[m] = "failed" THEN TakesClaim(m) /\ Goto(c, "claimed")
                                     ELSE UNCHANGED ledger /\ Goto(c, "reading")
          /\ UNCHANGED stranded
       \/ ClaimFails(c, {"failed"})
    /\ UNCHANGED <<pairing, edit, answered, verdicts, refused, taken, halfway>>

\* Fault: a message in work is no duplicate but an error.
FaultReadClaim(c) ==
    /\ call[c].pc = "reading"
    /\ End(c)
    /\ \/ Works(c) /\ ledger[call[c].msg] = "accepted" /\ Answer(c)
       \/ Works(c) /\ ledger[call[c].msg] # "accepted" /\ UNCHANGED answered
       \/ Fails(c) /\ UNCHANGED answered
    /\ UNCHANGED <<pairing, ledger, edit, history>>

\* The row is there, whatever its status: the message is a duplicate, which
\* is a success too.
ReadClaim(c) ==
    /\ call[c].pc = "reading"
    /\ End(c)
    /\ \/ Works(c) /\ Answer(c)
       \/ Fails(c) /\ UNCHANGED answered
    /\ UNCHANGED <<pairing, ledger, edit, history>>

\* GetAgent and HandleChat.  HandleChat does not look at the context
\* everywhere; it may fail after the round or the running one got the message.
HandleChat(c) ==
    /\ call[c].pc = "claimed"
    /\ \/ /\ NoEvent
          /\ taken' = [taken EXCEPT ![call[c].msg] = @ + 1]
          /\ Goto(c, "finishing")
          /\ UNCHANGED halfway
       \/ /\ Fails(c)
          /\ Goto(c, "failing")
          /\ \/ UNCHANGED <<taken, halfway>>
             \/ /\ taken' = [taken EXCEPT ![call[c].msg] = @ + 1]
                /\ halfway' = halfway \cup {call[c].msg}
    /\ UNCHANGED <<pairing, ledger, edit, answered, verdicts, refused, stranded>>

\* finishIngressMessage(accepted); an error of it is the call's.
FinishAccepted(c) ==
    /\ call[c].pc = "finishing"
    /\ \/ /\ Works(c)
          /\ ledger' = [ledger EXCEPT ![call[c].msg] = "accepted"]
          /\ Goto(c, "remembering")
       \/ /\ Fails(c)
          /\ End(c)
          /\ UNCHANGED ledger \/ ledger' = [ledger EXCEPT ![call[c].msg] = "accepted"]
    /\ UNCHANGED <<pairing, edit, answered, history>>

\* RememberRoute, whose error is the call's too.
RememberRoute(c) ==
    /\ call[c].pc = "remembering"
    /\ End(c)
    /\ \/ Works(c) /\ Answer(c)
       \/ Fails(c) /\ UNCHANGED answered
    /\ UNCHANGED <<pairing, ledger, edit, history>>

\* Fault: an empty status means accepted.
FaultMarkFailed(c) ==
    /\ call[c].pc = "failing"
    /\ End(c)
    /\ \/ /\ Works(c)
          /\ ledger' = [ledger EXCEPT ![call[c].msg] = "accepted"]
          /\ UNCHANGED stranded
       \/ /\ Fails(c)
          /\ stranded' = stranded \cup {call[c].msg}
          /\ UNCHANGED ledger
    /\ UNCHANGED <<pairing, edit, answered, verdicts, refused, taken, halfway>>

\* markIngressMessageFailed gives the claim back, with the request's own
\* context; an error is logged, and the row may say processing for good.
MarkFailed(c) ==
    /\ call[c].pc = "failing"
    /\ End(c)
    /\ \/ /\ Works(c) \/ Fails(c)
          /\ ledger' = [ledger EXCEPT ![call[c].msg] = "failed"]
          /\ UNCHANGED stranded
       \/ /\ Fails(c)
          /\ stranded' = stranded \cup {call[c].msg}
          /\ UNCHANGED ledger
    /\ UNCHANGED <<pairing, edit, answered, verdicts, refused, taken, halfway>>

Accept(c) ==
    \/ FindPairing(c) \/ UpsertPending(c)
    \/ InsertClaim(c) \/ ReclaimFailed(c) \/ ReadClaim(c)
    \/ HandleChat(c) \/ FinishAccepted(c) \/ RememberRoute(c) \/ MarkFailed(c)

---------------------------------------------------------------------------
(* The administrators.  An error ends an edit: it was made, or it is as if  *)
(* it had not been made.                                                   *)

\* Calls and edits that have looked at the pairing and will write it.
Looking ==
    {c \in Calls : call[c].pc = "unpaired"} \cup {e \in Edits : edit[e].pc = "read"}

\* An administrator's own decision: it is in force from now on.
Decide(status, writers) ==
    /\ pairing' = status
    /\ verdict' = status
    /\ approved' = (approved \/ status = "active")
    /\ before' = Looking \ writers
    /\ overtaken' = {}

CreatePairing ==
    /\ \E status \in Decided : Decide(status, {})
    /\ UNCHANGED <<ledger, call, edit, events, answered, refused, taken, halfway, stranded>>

\* UpdatePairing reads the row; the status, the agent and the name asked for
\* are merged into the copy.
UpdateRead(e) ==
    /\ edit[e].pc = "idle"
    /\ pairing # "none"
    /\ \E ask \in Decided \cup {Nothing} :
        edit' = [edit EXCEPT ![e] = [pc |-> "read", copy |-> pairing, ask |-> ask]]
    /\ UNCHANGED <<pairing, ledger, call, events, answered, history>>

\* Fault: an update without a status writes the default one.
FaultUpdateWrite(e) ==
    /\ edit[e].pc = "read"
    /\ \/ edit[e].ask # Nothing /\ Decide(edit[e].ask, {e})
       \/ /\ edit[e].ask = Nothing
          /\ pairing' = "active" /\ Overtakes(e, "update")
          /\ UNCHANGED <<verdict, approved>>
    /\ edit' = [edit EXCEPT ![e] = NoEdit]
    /\ UNCHANGED <<ledger, call, events, answered, refused, taken, halfway, stranded>>

\* The write is an upsert of all the columns, the status that was read among
\* them; a row that was deleted since is back.
UpdateWrite(e) ==
    /\ edit[e].pc = "read"
    /\ \/ edit[e].ask # Nothing /\ Decide(edit[e].ask, {e})
       \/ /\ edit[e].ask = Nothing
          /\ pairing' = edit[e].copy /\ Overtakes(e, "update")
          /\ UNCHANGED <<verdict, approved>>
    /\ edit' = [edit EXCEPT ![e] = NoEdit]
    /\ UNCHANGED <<ledger, call, events, answered, refused, taken, halfway, stranded>>

DeletePairing ==
    /\ pairing # "none"
    /\ Decide("none", {})
    /\ UNCHANGED <<ledger, call, edit, events, answered, refused, taken, halfway, stranded>>

Edit == CreatePairing \/ DeletePairing \/ \E e \in Edits : UpdateRead(e) \/ UpdateWrite(e)

---------------------------------------------------------------------------
(* The server stops without notice and starts again; it has no memory.     *)

Crash ==
    /\ Event
    /\ call' = [c \in Calls |-> NoCall]
    /\ edit' = [e \in Edits |-> NoEdit]
    /\ stranded' = stranded \cup {call[c].msg : c \in {d \in Calls : call[d].pc \in Claiming}}
    /\ before' = {}
    /\ UNCHANGED <<pairing, ledger, answered, verdict, approved, overtaken, refused, taken, halfway>>

Next ==
    \/ \E c \in Calls, m \in Messages : Deliver(c, m)
    \/ \E c \in Calls : HangUp(c) \/ Accept(c)
    \/ Edit
    \/ Crash

\* Goroutines go on; that the messenger repeats is assumed of it.
Fairness ==
    /\ \A c \in Calls : WF_vars(Accept(c))
    /\ \A m \in Messages : WF_vars(\E c \in Calls : Deliver(c, m))

Spec == Init /\ [][Next]_vars
FairSpec == Spec /\ Fairness

---------------------------------------------------------------------------
(* Properties *)

\* A message that is delivered again and again, also while an earlier call
\* is still at work, reaches the DM service once, unless HandleChat said that
\* it failed after it had passed the message on.
HandledOnce ==
    \A m \in Messages \ halfway : taken[m] <= 1

\* A message the messenger will not repeat was handled, is in a call's hand,
\* waits for a pairing, or is on record as failed; only a claim that nobody
\* holds or could give back, after a stop or a failed write, hides that it was lost.
AnsweredIsHandled ==
    \A m \in answered :
        \/ m \in refused \cup stranded
        \/ ledger[m] = "failed"
        \/ taken[m] > 0
        \/ \E c \in Calls : call[c].msg = m /\ call[c].pc \in Claiming

\* The chat is open to its agent exactly when the last administrator who
\* decided says so, as long as nobody who had looked at the pairing before that
\* decision has written it since.  A message that does so may close the chat but
\* not open it; only an update can, and never a chat that nobody has approved.
VerdictKept ==
    /\ overtaken = {} => (pairing = "active" <=> verdict = "active")
    /\ "update" \notin overtaken /\ pairing = "active" => verdict = "active"
    /\ pairing = "active" => approved

\* In spite of failures, hang-ups and stops, a messenger that repeats gets its
\* answer.
MessagesAreAnswered == \A m \in Messages : <>(m \in answered)

=============================================================================
