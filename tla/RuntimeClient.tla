---------------------------- MODULE RuntimeClient ----------------------------
(***************************************************************************)
(* The client adapter of one session key: rounds that get it from the      *)
(* manager, connect it, send their input and read its stream until a       *)
(* result, a timer, a cancellation or the end of the stream; further       *)
(* inputs, which belong to no round, sent to the session that is running;  *)
(* the pump of each SDK session, and those who disconnect the adapter      *)
(* meanwhile.                                                              *)
(*                                                                         *)
(* A round makes at most one adapter and opens at most one SDK session:    *)
(* both have the name of that round.                                       *)
(***************************************************************************)
EXTENDS Naturals, Sequences

CONSTANTS
    Rounds,     \* rounds, from their GetOrCreate to the end of ExecuteRound
    Closers,    \* calls of CloseSession
    Sends,      \* further inputs: calls of SendContentToRunningRound
    Capacity,   \* of the channel of messages (64)
    MaxEvents,  \* bound: SDK sessions that end by themselves, and further inputs
    First,      \* a round that is over when the others begin, or Nothing
    Nothing     \* no client, no session, no round

ASSUME NothingAssumption == Nothing \notin Rounds \cup Sends
ASSUME SendsAssumption == Rounds \cap Sends = {}
ASSUME FirstAssumption == First \in Rounds \cup {Nothing}
ASSUME BoundsAssumption == Capacity \in Nat \ {0} /\ MaxEvents \in Nat

VARIABLES
    client,       \* sessionState.Client
    closing,      \* calls of CloseSession, and the client they took
    sending,      \* the client a call of SendContentToRunningRound has taken
    sent,         \* further inputs that got a turn of their own
    session,      \* session, messages and cancel of each adapter
    process,      \* SDK sessions: "none", "open", "over"
    inputs,       \* inputs an SDK session has to answer
    pump,         \* pumpMessages of each SDK session
    hand,         \* the input whose result it has received and not yet sent on
    messages,     \* the channel it sends to: results, by the input they answer
    stopped,      \* SDK sessions whose pump's context is cancelled
    pc,           \* control point of each round
    adapter,      \* the client it has
    using,        \* the session it reconfigures
    channel,      \* the channel it reads
    endedBy,      \* history: the input whose result ended it, a round's or a further one
    awaited,      \* history: rounds whose results were still to be read when it was sent
    forgotten,    \* history: sessions dropped without the cancel of their pump
    stray,        \* history: adapters connected when the manager had dropped them
    beside,       \* history: rounds that were at work on one client at a time
    events        \* sessions that have ended by themselves, inputs that have been sent

sends == <<sending, sent, awaited>>
manager == <<client, closing, sends>>
sdk == <<session, process, inputs>>
pumps == <<pump, hand, messages, stopped>>
locals == <<adapter, using, channel>>
history == <<endedBy, forgotten, stray, beside, events>>
vars == <<manager, sdk, pumps, pc, locals, history>>

\* The input of a round has the name of that round.
Inputs == Rounds \cup Sends
Maybe == Rounds \cup {Nothing}
MaybeInput == Inputs \cup {Nothing}
PCs == {"idle", "reconfigure", "controls", "replace", "drop", "connect", "open", "install",
        "query", "receive", "reading", "abort", "done"}

TypeOK ==
    /\ client \in Maybe
    /\ closing \in [Closers -> [at : {"idle", "disconnect", "done"}, client : Maybe]]
    /\ \A x \in Closers : closing[x].at = "disconnect" => closing[x].client # Nothing
    /\ sending \in [Sends -> Maybe] /\ sent \subseteq Sends
    /\ awaited \in [Sends -> SUBSET Rounds]
    /\ session \in [Rounds -> Maybe]
    /\ process \in [Rounds -> {"none", "open", "over"}]
    /\ inputs \in [Rounds -> Seq(Inputs)]
    /\ pump \in [Rounds -> {"none", "recv", "send", "ended"}]
    /\ hand \in [Rounds -> MaybeInput]
    /\ \A s \in Rounds : pump[s] = "send" => hand[s] # Nothing
    /\ messages \in [Rounds -> Seq(Inputs)]
    /\ stopped \subseteq Rounds
    /\ pc \in [Rounds -> PCs]
    /\ adapter \in [Rounds -> Maybe]
    /\ \A r \in Rounds : pc[r] \notin {"idle", "done"} => adapter[r] # Nothing
    /\ using \in [Rounds -> Maybe] /\ channel \in [Rounds -> Maybe]
    /\ endedBy \in [Rounds -> MaybeInput] /\ forgotten \subseteq Rounds
    /\ stray \subseteq Rounds /\ beside \subseteq Rounds
    /\ events \in 0 .. MaxEvents

\* The first round, if there is one, has left its client connected.
Init ==
    /\ client = First
    /\ closing = [x \in Closers |-> [at |-> "idle", client |-> Nothing]]
    /\ sending = [x \in Sends |-> Nothing]
    /\ sent = {}
    /\ awaited = [x \in Sends |-> {}]
    /\ session = [c \in Rounds |-> IF c = First THEN First ELSE Nothing]
    /\ process = [s \in Rounds |-> IF s = First THEN "open" ELSE "none"]
    /\ inputs = [s \in Rounds |-> <<>>]
    /\ pump = [s \in Rounds |-> IF s = First THEN "recv" ELSE "none"]
    /\ hand = [s \in Rounds |-> Nothing]
    /\ messages = [s \in Rounds |-> <<>>]
    /\ stopped = {}
    /\ pc = [r \in Rounds |-> IF r = First THEN "done" ELSE "idle"]
    /\ adapter = [r \in Rounds |-> IF r = First THEN First ELSE Nothing]
    /\ using = [r \in Rounds |-> Nothing]
    /\ channel = [r \in Rounds |-> Nothing]
    /\ endedBy = [r \in Rounds |-> IF r = First THEN First ELSE Nothing]
    /\ forgotten = {} /\ stray = {} /\ beside = {}
    /\ events = 0

-----------------------------------------------------------------------------
(* The adapter.                                                            *)

\* An SDK session ends; what it still had to do is of no interest.
Over(s) ==
    /\ process' = [x \in Rounds |-> IF x = s THEN "over" ELSE process[x]]
    /\ inputs' = [x \in Rounds |-> IF x = s THEN <<>> ELSE inputs[x]]

\* Fault: the pump of an older session clears a newer one.
MarkAnyDisconnected(c, s) ==
    /\ session' = [session EXCEPT ![c] = Nothing]
    /\ Over(s)

\* markDisconnected, and closeSDKSession when it returns true.
markDisconnected(c, s) ==
    IF session[c] = s THEN session' = [session EXCEPT ![c] = Nothing] /\ Over(s)
    ELSE UNCHANGED sdk

\* Fault: the pump's context stays alive.
DisconnectKeepsPump(c) ==
    /\ session' = [session EXCEPT ![c] = Nothing]
    /\ Over(session[c])
    /\ UNCHANGED stopped

\* Disconnect: the pump's context is cancelled, the session closed.
Disconnect(c) ==
    /\ session' = [session EXCEPT ![c] = Nothing]
    /\ Over(session[c])
    /\ stopped' = stopped \cup ({session[c]} \ {Nothing})

-----------------------------------------------------------------------------
(* A round gets its client: GetOrCreate and Connect.                       *)

Moves(r, from, to) == pc[r] = from /\ pc' = [pc EXCEPT ![r] = to]

\* A round is over, by the result of an input or without one.
Ends(r, by) ==
    /\ pc' = [pc EXCEPT ![r] = "done"]
    /\ endedBy' = [endedBy EXCEPT ![r] = by]
    /\ using' = [using EXCEPT ![r] = Nothing]
    /\ channel' = [channel EXCEPT ![r] = Nothing]
    /\ UNCHANGED <<manager, adapter, forgotten, stray, beside, events>>

GetOrCreate(r) ==
    /\ Moves(r, "idle", IF client = Nothing THEN "connect" ELSE "reconfigure")
    /\ client' = IF client = Nothing THEN r ELSE client
    /\ adapter' = [adapter EXCEPT ![r] = client']
    /\ UNCHANGED <<closing, sends, sdk, pumps, using, channel, history>>

\* Reconfigure of a client without a session has nothing to send.
Reconfigure(r) ==
    LET s == session[adapter[r]] IN
    /\ Moves(r, "reconfigure", IF s = Nothing THEN "connect" ELSE "controls")
    /\ using' = [using EXCEPT ![r] = s]
    /\ UNCHANGED <<manager, sdk, pumps, adapter, channel, history>>

\* applyRuntimeControls.
ReconfigureSucceeds(r) ==
    /\ Moves(r, "controls", "connect")
    /\ using' = [using EXCEPT ![r] = Nothing]
    /\ UNCHANGED <<manager, sdk, pumps, adapter, channel, history>>

\* The transport is closed.
ReconfigureDisconnected(r) ==
    /\ Moves(r, "controls", "replace")
    /\ process[using[r]] = "over"
    /\ markDisconnected(adapter[r], using[r])
    /\ forgotten' = forgotten \cup ({session[adapter[r]]} \cap {using[r]})
    /\ using' = [using EXCEPT ![r] = Nothing]
    /\ UNCHANGED <<manager, pumps, adapter, channel, endedBy, stray, beside, events>>

\* replaceDisconnectedClient: somebody else has replaced the client ...
TakeReplaced(r) ==
    /\ client \notin {adapter[r], Nothing}
    /\ Moves(r, "replace", "connect")
    /\ adapter' = [adapter EXCEPT ![r] = client]
    /\ UNCHANGED <<manager, sdk, pumps, using, channel, history>>

\* ... or this round does ...
replaceDisconnectedClient(r) ==
    /\ client = adapter[r]
    /\ Moves(r, "replace", "drop")
    /\ client' = r
    /\ UNCHANGED <<closing, sends, sdk, pumps, locals, history>>

\* ... and disconnects the stale one.
DisconnectStale(r) ==
    /\ Moves(r, "drop", "connect")
    /\ Disconnect(adapter[r])
    /\ adapter' = [adapter EXCEPT ![r] = r]
    /\ UNCHANGED <<manager, pump, hand, messages, using, channel, history>>

\* Connect looks whether there is a session ...
Connect(r) ==
    /\ Moves(r, "connect", IF session[adapter[r]] = Nothing THEN "open" ELSE "query")
    /\ UNCHANGED <<manager, sdk, pumps, locals, history>>

\* ... opens one, without the lock ...
NewSession(r) ==
    /\ Moves(r, "open", "install")
    /\ process' = [process EXCEPT ![r] = "open"]
    /\ UNCHANGED <<manager, session, inputs, pumps, locals, history>>

\* ... and keeps it, whatever the adapter has by now.
ConnectInstalls(r) ==
    LET c == adapter[r] IN
    /\ Moves(r, "install", "query")
    /\ session' = [session EXCEPT ![c] = r]
    /\ pump' = [pump EXCEPT ![r] = "recv"]
    /\ forgotten' = forgotten \cup ({session[c]} \ {Nothing})
    /\ stray' = IF c = client THEN stray ELSE stray \cup {c}
    /\ UNCHANGED <<manager, process, inputs, hand, messages, stopped, locals, endedBy, beside, events>>

\* A control, the new session, or the close of the stale client fails; the session
\* was closed meanwhile and has no client, or this round met the disconnected
\* client only at its second look, under the lock.
AcquireFails(r) ==
    /\ \/ pc[r] \in {"controls", "replace", "open"} /\ UNCHANGED <<sdk, stopped>>
       \/ pc[r] = "drop" /\ Disconnect(adapter[r])
    /\ Ends(r, Nothing)
    /\ UNCHANGED <<pump, hand, messages>>

-----------------------------------------------------------------------------
(* ExecuteRound.                                                           *)

\* Rounds between their input and their end that share a client.
AtWork(c) == {q \in Rounds : adapter[q] = c /\ pc[q] \in {"receive", "reading", "abort"}}

\* Fault: the input is sent a second time.
QueryTwice(r) ==
    LET s == session[adapter[r]]
        others == AtWork(adapter[r]) IN
    /\ Moves(r, "query", "receive")
    /\ s # Nothing
    /\ process[s] = "open"
    /\ inputs' = [inputs EXCEPT ![s] = @ \o <<r, r>>]
    /\ beside' = IF others = {} THEN beside ELSE beside \cup others \cup {r}
    /\ UNCHANGED <<manager, session, process, pumps, locals, endedBy, forgotten, stray, events>>

Query(r) ==
    LET s == session[adapter[r]]
        others == AtWork(adapter[r]) IN
    /\ Moves(r, "query", "receive")
    /\ s # Nothing
    /\ process[s] = "open"
    /\ inputs' = [inputs EXCEPT ![s] = Append(@, r)]
    /\ beside' = IF others = {} THEN beside ELSE beside \cup others \cup {r}
    /\ UNCHANGED <<manager, session, process, pumps, locals, endedBy, forgotten, stray, events>>

\* There is no session, it cannot be written to, or the context is cancelled.
QueryFails(r) ==
    /\ pc[r] = "query"
    /\ Ends(r, Nothing)
    /\ UNCHANGED <<sdk, pumps>>

\* The channel of the adapter's session of now; without one, a closed one.
ReceiveMessages(r) ==
    /\ Moves(r, "receive", "reading")
    /\ channel' = [channel EXCEPT ![r] = session[adapter[r]]]
    /\ UNCHANGED <<manager, sdk, pumps, adapter, using, history>>

Reads(r) ==
    /\ pc[r] = "reading" /\ channel[r] # Nothing
    /\ messages[channel[r]] # <<>>
    /\ messages' = [messages EXCEPT ![channel[r]] = Tail(@)]
    /\ UNCHANGED <<sdk, pump, hand, stopped>>

\* A result ends the round.
ReadResult(r) ==
    /\ Reads(r)
    /\ Ends(r, Head(messages[channel[r]]))

\* A message cannot be mapped, recorded or sent.
ReadFails(r) ==
    /\ Reads(r)
    /\ Ends(r, Nothing)

\* AfterQuery or a message that is no result fails, the context is cancelled, the
\* time of grace after the assistant's last words is over, or the idle timer
\* meets a round that was interrupted.
LeavesStream(r) ==
    /\ pc[r] \in {"receive", "reading"}
    /\ Ends(r, Nothing)
    /\ UNCHANGED <<sdk, pumps>>

\* The idle timer of another round, which interrupts and disconnects its client.
IdleTimeout(r) ==
    /\ Moves(r, "reading", "abort")
    /\ UNCHANGED <<manager, sdk, pumps, locals, history>>

abortRoundClientAfterIdleTimeout(r) ==
    /\ pc[r] = "abort"
    /\ Disconnect(adapter[r])
    /\ Ends(r, Nothing)
    /\ UNCHANGED <<pump, hand, messages>>

\* Channels that are closed and empty.
Drained == {Nothing} \cup {s \in Rounds : pump[s] = "ended" /\ messages[s] = <<>>}

StreamClosed(r) ==
    /\ pc[r] = "reading"
    /\ channel[r] \in Drained
    /\ Ends(r, Nothing)
    /\ UNCHANGED <<sdk, pumps>>

-----------------------------------------------------------------------------
(* pumpMessages and the SDK session it reads.                              *)

\* The SDK session sends the result of an input.
SdkAnswers(s) ==
    /\ process[s] = "open" /\ pump[s] = "recv" /\ inputs[s] # <<>>
    /\ pump' = [pump EXCEPT ![s] = "send"]
    /\ hand' = [hand EXCEPT ![s] = Head(inputs[s])]
    /\ inputs' = [inputs EXCEPT ![s] = Tail(@)]
    /\ UNCHANGED <<manager, session, process, messages, stopped, pc, locals, history>>

\* Its process ends by itself.
SdkEnds(s) ==
    /\ process[s] = "open"
    /\ events < MaxEvents
    /\ events' = events + 1
    /\ Over(s)
    /\ UNCHANGED <<manager, session, pumps, pc, locals, endedBy, forgotten, stray, beside>>

PumpSends(s) ==
    /\ pump[s] = "send"
    /\ Len(messages[s]) < Capacity
    /\ pump' = [pump EXCEPT ![s] = "recv"]
    /\ messages' = [messages EXCEPT ![s] = Append(@, hand[s])]
    /\ hand' = [hand EXCEPT ![s] = Nothing]
    /\ UNCHANGED <<manager, sdk, stopped, pc, locals, history>>

\* Recv fails, or the context of the pump is cancelled.
PumpStops(s) ==
    \/ pump[s] = "recv" /\ (s \in stopped \/ process[s] = "over")
    \/ pump[s] = "send" /\ s \in stopped

\* Fault: the channel is closed only while its session is the adapter's.
PumpLeavesOpen(s) ==
    /\ PumpStops(s)
    /\ pump' = [pump EXCEPT ![s] = IF session[adapter[s]] = s THEN "ended" ELSE "none"]
    /\ hand' = [hand EXCEPT ![s] = Nothing]
    /\ markDisconnected(adapter[s], s)
    /\ stopped' = stopped \ {s}
    /\ UNCHANGED <<manager, messages, pc, locals, history>>

\* The adapter that opened the session is told, and the channel is closed.
PumpEnds(s) ==
    /\ PumpStops(s)
    /\ pump' = [pump EXCEPT ![s] = "ended"]
    /\ hand' = [hand EXCEPT ![s] = Nothing]
    /\ markDisconnected(adapter[s], s)
    /\ stopped' = stopped \ {s}
    /\ UNCHANGED <<manager, messages, pc, locals, history>>

-----------------------------------------------------------------------------
(* SendContentToRunningRound.                                              *)

Elements(q) == {q[i] : i \in 1 .. Len(q)}

\* Rounds an SDK session still has to answer, or whose result waits in its channel.
Owed(s) == Rounds \cap (Elements(inputs[s]) \cup Elements(messages[s]) \cup {hand[s]})

\* Rounds that StartRound may have registered: it comes after Connect, and a round
\* that is over stays registered until somebody marks it finished.
MayRun == {r \in Rounds \ {First} : pc[r] \in {"query", "receive", "reading", "abort", "done"}}

\* The call takes the client, if there is one and a round runs ...
SendTakes(x) ==
    /\ sending[x] = Nothing /\ x \notin sent
    /\ client # Nothing /\ MayRun # {}
    /\ sending' = [sending EXCEPT ![x] = client]
    /\ UNCHANGED <<client, closing, sent, awaited, sdk, pumps, pc, locals, history>>

\* ... and sends it to the session the client has by then, which gives it a turn of
\* its own and so a result that belongs to no round ...
SendContent(x) ==
    LET s == session[sending[x]] IN
    /\ sending[x] # Nothing /\ s # Nothing
    /\ process[s] = "open"
    /\ events < MaxEvents
    /\ events' = events + 1
    /\ sending' = [sending EXCEPT ![x] = Nothing]
    /\ sent' = sent \cup {x}
    /\ awaited' = [awaited EXCEPT ![x] = Owed(s)]
    /\ inputs' = [inputs EXCEPT ![s] = Append(@, x)]
    /\ UNCHANGED <<client, closing, session, process, pumps, pc, locals, endedBy, forgotten>>
    /\ UNCHANGED <<stray, beside>>

\* ... or takes it into the turn at work; without a session, or when the write
\* fails, it is not sent.  Another such call may follow.
SendIsNoTurn(x) ==
    /\ sending[x] # Nothing
    /\ sending' = [sending EXCEPT ![x] = Nothing]
    /\ UNCHANGED <<client, closing, sent, awaited, sdk, pumps, pc, locals, history>>

-----------------------------------------------------------------------------
(* CloseSession.                                                           *)

\* The rounds it cancels may leave the stream at any time anyway.  A session
\* without a client is dropped, and nothing else happens.
CloseSession(x) ==
    /\ closing[x].at = "idle"
    /\ closing' = [closing EXCEPT ![x] =
           [at |-> IF client = Nothing THEN "done" ELSE "disconnect", client |-> client]]
    /\ client' = Nothing
    /\ UNCHANGED <<sends, sdk, pumps, pc, locals, history>>

CloseDisconnects(x) ==
    /\ closing[x].at = "disconnect"
    /\ closing' = [closing EXCEPT ![x] = [at |-> "done", client |-> Nothing]]
    /\ Disconnect(closing[x].client)
    /\ UNCHANGED <<client, sends, pump, hand, messages, pc, locals, history>>

-----------------------------------------------------------------------------
AcquireStep(r) ==
    \/ GetOrCreate(r)
    \/ Reconfigure(r)
    \/ ReconfigureSucceeds(r)
    \/ ReconfigureDisconnected(r)
    \/ TakeReplaced(r)
    \/ replaceDisconnectedClient(r)
    \/ DisconnectStale(r)
    \/ Connect(r)
    \/ NewSession(r)
    \/ ConnectInstalls(r)
    \/ AcquireFails(r)

ExecuteStep(r) ==
    \/ Query(r)
    \/ QueryFails(r)
    \/ ReceiveMessages(r)
    \/ ReadResult(r)
    \/ ReadFails(r)
    \/ abortRoundClientAfterIdleTimeout(r)
    \/ StreamClosed(r)

PumpStep(s) == PumpSends(s) \/ PumpEnds(s)

SdkStep(s) == SdkAnswers(s) \/ SdkEnds(s)

Next ==
    \/ \E r \in Rounds :
          \/ AcquireStep(r) \/ ExecuteStep(r) \/ LeavesStream(r) \/ IdleTimeout(r)
          \/ PumpStep(r) \/ SdkStep(r)
    \/ \E x \in Closers : CloseSession(x) \/ CloseDisconnects(x)
    \/ \E x \in Sends : SendTakes(x) \/ SendContent(x) \/ SendIsNoTurn(x)

Spec == Init /\ [][Next]_vars

(* Goroutines go on; the SDK, timers and users owe nothing.                *)
Fairness ==
    /\ \A r \in Rounds : WF_vars(pc[r] \notin {"idle", "done"} /\ (AcquireStep(r) \/ ExecuteStep(r)))
    /\ \A s \in Rounds : WF_vars(PumpStep(s))
    /\ \A x \in Closers : WF_vars(CloseDisconnects(x))

FairSpec == Spec /\ Fairness

-----------------------------------------------------------------------------
(* Properties.                                                             *)

\* Results do not name the input they answer.  Unless two rounds were at work on a
\* client at the same time, a round is ended by the result of another one only if
\* that one ended without its own, and by that of a further input only if it asked
\* after it: an input that joins a running round never ends it early, but leaves a
\* result behind that the next round takes for its own.
ResultsAreOwn ==
    \A r \in Rounds \ beside :
        /\ endedBy[r] \in Rounds \ {r} =>
              pc[endedBy[r]] = "done" /\ endedBy[endedBy[r]] # endedBy[r]
        /\ endedBy[r] \in Sends => r \notin awaited[endedBy[r]]

\* Those who are about to disconnect an adapter.
WillDisconnect(c) ==
    \/ \E x \in Closers : closing[x].at = "disconnect" /\ closing[x].client = c
    \/ \E r \in Rounds : pc[r] = "drop" /\ adapter[r] = c

\* Every SDK session that runs can be closed: it belongs to the client of the
\* manager, or somebody is about to disconnect its adapter or to install it.  Two
\* races escape: a second Connect of the adapter forgets the session, and a round
\* connects an adapter that was closed or replaced meanwhile.
SessionsAreReachable ==
    \A s \in Rounds : process[s] = "open" =>
        \/ pc[s] = "install"
        \/ s \in forgotten
        \/ \E c \in Rounds : session[c] = s /\ (c = client \/ WillDisconnect(c) \/ c \in stray)

\* A pump that is at work has been cancelled, or its session is still that of an
\* adapter, whose Disconnect cancels it; else it could wait for ever with a full
\* channel that nobody reads.  Two calls drop the cancel without calling it: a
\* second Connect, and a Reconfigure that finds the transport closed.
PumpsAreWoken ==
    \A s \in Rounds : pump[s] \in {"recv", "send"} =>
        s \in stopped \cup forgotten \/ \E c \in Rounds : session[c] = s

\* It reads, or aborts, although its SDK session is over.
ReadsDeadStream(r) ==
    /\ pc[r] \in {"reading", "abort"}
    /\ \A s \in Rounds : channel[r] = s => process[s] = "over"

\* No round outlives its stream: when the SDK session ends, is closed or
\* disconnected, by whomever, the rounds that read from it end.  A session that is
\* over stays over, and a round that has ended does not come back.
RoundsEndWithStream == []<>(\A r \in Rounds : ~ReadsDeadStream(r))
=============================================================================
