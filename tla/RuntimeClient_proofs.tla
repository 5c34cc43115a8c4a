------------------------ MODULE RuntimeClient_proofs ------------------------
(***************************************************************************)
(* Theorems about RuntimeClient for any rounds, closes and capacity.       *)
(***************************************************************************)
EXTENDS RuntimeClient, TLAPS

USE NothingAssumption, SendsAssumption, FirstAssumption, BoundsAssumption

---------------------------------------------------------------------------
(* Types, in the groups that a step leaves alone or changes together.      *)

SendType ==
    /\ sending \in [Sends -> Maybe] /\ sent \subseteq Sends
    /\ awaited \in [Sends -> SUBSET Rounds]

ManagerType ==
    /\ client \in Maybe
    /\ closing \in [Closers -> [at : {"idle", "disconnect", "done"}, client : Maybe]]
    /\ \A x \in Closers : closing[x].at = "disconnect" => closing[x].client # Nothing
    /\ SendType

SdkType ==
    /\ session \in [Rounds -> Maybe]
    /\ process \in [Rounds -> {"none", "open", "over"}]
    /\ inputs \in [Rounds -> Seq(Inputs)]

PumpType ==
    /\ pump \in [Rounds -> {"none", "recv", "send", "ended"}]
    /\ hand \in [Rounds -> MaybeInput]
    /\ \A s \in Rounds : pump[s] = "send" => hand[s] # Nothing
    /\ messages \in [Rounds -> Seq(Inputs)]
    /\ stopped \subseteq Rounds

RoundType ==
    /\ pc \in [Rounds -> PCs]
    /\ adapter \in [Rounds -> Maybe]
    /\ \A r \in Rounds : pc[r] \notin {"idle", "done"} => adapter[r] # Nothing
    /\ using \in [Rounds -> Maybe] /\ channel \in [Rounds -> Maybe]

HistoryType ==
    /\ endedBy \in [Rounds -> MaybeInput] /\ forgotten \subseteq Rounds
    /\ stray \subseteq Rounds /\ beside \subseteq Rounds /\ events \in 0 .. MaxEvents

Types == ManagerType /\ SdkType /\ PumpType /\ RoundType /\ HistoryType

LEMMA TypesAreTypeOK == Types <=> TypeOK
  BY DEF Types, TypeOK, ManagerType, SendType, SdkType, PumpType, RoundType, HistoryType

LEMMA ManagerUnchanged == ASSUME Types, UNCHANGED manager PROVE ManagerType'
  BY DEF Types, ManagerType, SendType, manager, sends

LEMMA SendUnchanged == ASSUME Types, UNCHANGED sends PROVE SendType'
  BY DEF Types, ManagerType, SendType, sends

LEMMA InputTypes ==
    /\ Rounds \subseteq Inputs /\ Sends \subseteq Inputs /\ Maybe \subseteq MaybeInput
    /\ Nothing \in Maybe /\ Nothing \in MaybeInput /\ Nothing \notin Inputs
    /\ MaybeInput = Inputs \cup {Nothing} /\ Rounds \cap Sends = {}
  BY DEF Inputs, Maybe, MaybeInput

LEMMA SdkUnchanged == ASSUME Types, UNCHANGED sdk PROVE SdkType'
  BY DEF Types, SdkType, sdk

LEMMA PumpUnchanged == ASSUME Types, UNCHANGED pumps PROVE PumpType'
  BY DEF Types, PumpType, pumps

LEMMA RoundUnchanged == ASSUME Types, UNCHANGED <<pc, locals>> PROVE RoundType'
  BY DEF Types, RoundType, locals

LEMMA HistoryUnchanged == ASSUME Types, UNCHANGED history PROVE HistoryType'
  BY DEF Types, HistoryType, history

---------------------------------------------------------------------------
(* Types: the parts of actions.                                            *)

LEMMA OverTypes ==
    ASSUME SdkType, NEW s, Over(s)
    PROVE  /\ process' \in [Rounds -> {"none", "open", "over"}]
           /\ inputs' \in [Rounds -> Seq(Inputs)]
<1>1. <<>> \in Seq(Inputs)
  OBVIOUS
<1>2. process' \in [Rounds -> {"none", "open", "over"}]
  BY DEF Over, SdkType
<1>3. inputs' \in [Rounds -> Seq(Inputs)]
  BY <1>1 DEF Over, SdkType
<1>4. QED
  BY <1>2, <1>3

LEMMA MarkTypes ==
    ASSUME Types, NEW c \in Rounds, NEW s, markDisconnected(c, s)
    PROVE  SdkType'
<1>1. CASE session[c] = s
  <2>1. session' = [session EXCEPT ![c] = Nothing] /\ Over(s)
    BY <1>1 DEF markDisconnected
  <2>2. session' \in [Rounds -> Maybe]
    BY <2>1 DEF Types, SdkType, Maybe
  <2>3. QED
    BY <2>1, <2>2, OverTypes DEF Types, SdkType
<1>2. CASE session[c] # s
  BY <1>2, SdkUnchanged DEF markDisconnected
<1>3. QED
  BY <1>1, <1>2

\* A round that has no client yet has no session.
LEMMA MarkNothing ==
    ASSUME Types, NEW s, markDisconnected(Nothing, s)
    PROVE  SdkType'
<1>1. session' = session \/ UNCHANGED sdk
  <2>1. [session EXCEPT ![Nothing] = Nothing] = session
    BY DEF Types, SdkType
  <2>2. QED
    BY <2>1 DEF markDisconnected
<1>2. CASE UNCHANGED sdk
  BY <1>2, SdkUnchanged
<1>3. CASE session' = session /\ Over(s)
  BY <1>3, OverTypes DEF Types, SdkType
<1>4. QED
  BY <1>1, <1>2, <1>3 DEF markDisconnected

LEMMA DisconnectTypes ==
    ASSUME Types, NEW c \in Rounds, Disconnect(c)
    PROVE  SdkType' /\ stopped' \subseteq Rounds
<1>1. session' \in [Rounds -> Maybe]
  BY DEF Disconnect, Types, SdkType, Maybe
<1>2. SdkType'
  BY <1>1, OverTypes DEF Disconnect, Types, SdkType
<1>3. session[c] \in Maybe
  BY DEF Types, SdkType
<1>4. stopped' \subseteq Rounds
  BY <1>3 DEF Disconnect, Types, PumpType, Maybe
<1>5. QED
  BY <1>2, <1>4

\* Disconnect beside the pumps' own state.
LEMMA DisconnectPumps ==
    ASSUME Types, NEW c \in Rounds, Disconnect(c), UNCHANGED <<pump, hand, messages>>
    PROVE  SdkType' /\ PumpType'
  BY DisconnectTypes DEF Types, PumpType

LEMMA MovesTypes ==
    ASSUME Types, NEW r \in Rounds, NEW from, NEW to \in PCs, Moves(r, from, to),
           from # "idle", from # "done", UNCHANGED adapter,
           using' \in [Rounds -> Maybe], channel' \in [Rounds -> Maybe]
    PROVE  RoundType'
<1>1. pc' \in [Rounds -> PCs]
  BY DEF Moves, Types, RoundType
<1>2. \A q \in Rounds : pc'[q] \notin {"idle", "done"} => adapter'[q] # Nothing
  BY DEF Moves, Types, RoundType
<1>3. QED
  BY <1>1, <1>2 DEF Types, RoundType

LEMMA EndsTypes ==
    ASSUME Types, NEW r \in Rounds, NEW by \in MaybeInput, Ends(r, by)
    PROVE  ManagerType' /\ RoundType' /\ HistoryType'
<1>1. ManagerType'
  BY ManagerUnchanged DEF Ends
<1>2. "done" \in PCs /\ Nothing \in Maybe /\ Maybe \subseteq MaybeInput
  BY InputTypes DEF PCs
<1>3. /\ pc' = [pc EXCEPT ![r] = "done"]
      /\ endedBy' = [endedBy EXCEPT ![r] = by]
      /\ using' = [using EXCEPT ![r] = Nothing]
      /\ channel' = [channel EXCEPT ![r] = Nothing]
      /\ UNCHANGED <<adapter, forgotten, stray, beside, events>>
  BY DEF Ends
<1>4. pc' \in [Rounds -> PCs]
  BY <1>2, <1>3 DEF Types, RoundType
<1>5. \A q \in Rounds : pc'[q] \notin {"idle", "done"} => adapter'[q] # Nothing
  BY <1>3 DEF Types, RoundType
<1>6. using' \in [Rounds -> Maybe] /\ channel' \in [Rounds -> Maybe]
  BY <1>2, <1>3 DEF Types, RoundType
<1>7. RoundType'
  BY <1>3, <1>4, <1>5, <1>6 DEF Types, RoundType
<1>8. HistoryType'
  BY <1>3 DEF Types, HistoryType
<1>9. QED
  BY <1>1, <1>7, <1>8

LEMMA AdapterType ==
    ASSUME Types, NEW r \in Rounds, pc[r] \notin {"idle", "done"}
    PROVE  adapter[r] \in Rounds
  BY DEF Types, RoundType, Maybe

\* Steps that only move a round on.
LEMMA OnlyMoves ==
    ASSUME Types, NEW r \in Rounds, NEW from, NEW to \in PCs, Moves(r, from, to),
           from # "idle", from # "done", UNCHANGED <<manager, sdk, pumps, locals, history>>
    PROVE  Types'
<1>1. UNCHANGED adapter /\ using' \in [Rounds -> Maybe] /\ channel' \in [Rounds -> Maybe]
  BY DEF locals, Types, RoundType
<1>2. RoundType'
  BY <1>1, MovesTypes
<1>3. QED
  BY <1>2, ManagerUnchanged, SdkUnchanged, PumpUnchanged, HistoryUnchanged DEF Types

---------------------------------------------------------------------------
(* Types: a round gets its client.                                         *)

LEMMA AcquireTypes == ASSUME Types, NEW r \in Rounds, AcquireStep(r) PROVE Types'
<1>0. /\ {"connect", "reconfigure", "controls", "replace", "drop", "open", "install", "query"} \subseteq PCs
      /\ Nothing \in Maybe /\ Nothing \in MaybeInput /\ r \in Maybe
  BY InputTypes DEF PCs, Maybe
<1>1. CASE GetOrCreate(r)
  <2>1. client' \in Rounds
    BY <1>1 DEF GetOrCreate, Types, ManagerType, Maybe
  <2>2. ManagerType'
    BY <1>1, <2>1, SendUnchanged DEF GetOrCreate, Types, ManagerType, Maybe
  <2>3. pc' \in [Rounds -> PCs]
    BY <1>0, <1>1 DEF GetOrCreate, Moves, Types, RoundType
  <2>4. adapter' = [adapter EXCEPT ![r] = client'] /\ UNCHANGED <<using, channel>>
    BY <1>1 DEF GetOrCreate
  <2>5. adapter' \in [Rounds -> Maybe]
    BY <2>1, <2>4 DEF Types, RoundType, Maybe
  <2>6. \A q \in Rounds : pc'[q] \notin {"idle", "done"} => adapter'[q] # Nothing
    BY <1>1, <2>1, <2>4 DEF GetOrCreate, Moves, Types, RoundType
  <2>7. RoundType'
    BY <2>3, <2>4, <2>5, <2>6 DEF Types, RoundType
  <2>8. QED
    BY <1>1, <2>2, <2>7, SdkUnchanged, PumpUnchanged, HistoryUnchanged DEF GetOrCreate, Types
<1>2. CASE Reconfigure(r)
  <2>1. session[adapter[r]] \in Maybe
    BY <1>2, AdapterType DEF Reconfigure, Moves, Types, SdkType
  <2>2. using' \in [Rounds -> Maybe] /\ channel' \in [Rounds -> Maybe] /\ UNCHANGED adapter
    BY <1>2, <2>1 DEF Reconfigure, Types, RoundType
  <2>3. RoundType'
    BY <1>0, <1>2, <2>2, MovesTypes DEF Reconfigure
  <2>4. QED
    BY <1>2, <2>3, ManagerUnchanged, SdkUnchanged, PumpUnchanged, HistoryUnchanged
    DEF Reconfigure, Types
<1>3. CASE ReconfigureSucceeds(r)
  <2>1. using' \in [Rounds -> Maybe] /\ channel' \in [Rounds -> Maybe] /\ UNCHANGED adapter
    BY <1>0, <1>3 DEF ReconfigureSucceeds, Types, RoundType
  <2>2. RoundType'
    BY <1>0, <1>3, <2>1, MovesTypes DEF ReconfigureSucceeds
  <2>3. QED
    BY <1>3, <2>2, ManagerUnchanged, SdkUnchanged, PumpUnchanged, HistoryUnchanged
    DEF ReconfigureSucceeds, Types
<1>4. CASE ReconfigureDisconnected(r)
  <2>1. adapter[r] \in Rounds
    BY <1>4, AdapterType DEF ReconfigureDisconnected, Moves
  <2>2. SdkType'
    BY <1>4, <2>1, MarkTypes DEF ReconfigureDisconnected
  <2>3. using' \in [Rounds -> Maybe] /\ channel' \in [Rounds -> Maybe] /\ UNCHANGED adapter
    BY <1>0, <1>4 DEF ReconfigureDisconnected, Types, RoundType
  <2>4. RoundType'
    BY <1>0, <1>4, <2>3, MovesTypes DEF ReconfigureDisconnected
  <2>5. process[using[r]] # "none" => using[r] \in Maybe
    BY DEF Types, RoundType
  <2>6. session[adapter[r]] \in Maybe /\ (using[r] = Nothing \/ using[r] \in Rounds)
    BY <2>1 DEF Types, SdkType, RoundType, Maybe
  <2>7. HistoryType'
    BY <1>4, <2>6 DEF ReconfigureDisconnected, Types, HistoryType
  <2>8. QED
    BY <1>4, <2>2, <2>4, <2>7, ManagerUnchanged, PumpUnchanged DEF ReconfigureDisconnected, Types
<1>5. CASE TakeReplaced(r)
  <2>1. client \in Rounds
    BY <1>5 DEF TakeReplaced, Types, ManagerType, Maybe
  <2>2. pc' \in [Rounds -> PCs]
    BY <1>0, <1>5 DEF TakeReplaced, Moves, Types, RoundType
  <2>3. adapter' = [adapter EXCEPT ![r] = client] /\ UNCHANGED <<using, channel>>
    BY <1>5 DEF TakeReplaced
  <2>4. adapter' \in [Rounds -> Maybe]
    BY <2>1, <2>3 DEF Types, RoundType, Maybe
  <2>5. \A q \in Rounds : pc'[q] \notin {"idle", "done"} => adapter'[q] # Nothing
    BY <1>5, <2>1, <2>3 DEF TakeReplaced, Moves, Types, RoundType
  <2>6. RoundType'
    BY <2>2, <2>3, <2>4, <2>5 DEF Types, RoundType
  <2>7. QED
    BY <1>5, <2>6, ManagerUnchanged, SdkUnchanged, PumpUnchanged, HistoryUnchanged
    DEF TakeReplaced, Types
<1>6. CASE replaceDisconnectedClient(r)
  <2>1. ManagerType'
    BY <1>0, <1>6, SendUnchanged DEF replaceDisconnectedClient, Types, ManagerType
  <2>2. UNCHANGED adapter /\ using' \in [Rounds -> Maybe] /\ channel' \in [Rounds -> Maybe]
    BY <1>6 DEF replaceDisconnectedClient, locals, Types, RoundType
  <2>3. RoundType'
    BY <1>0, <1>6, <2>2, MovesTypes DEF replaceDisconnectedClient
  <2>4. QED
    BY <1>6, <2>1, <2>3, SdkUnchanged, PumpUnchanged, HistoryUnchanged
    DEF replaceDisconnectedClient, Types
<1>7. CASE DisconnectStale(r)
  <2>1. adapter[r] \in Rounds
    BY <1>7, AdapterType DEF DisconnectStale, Moves
  <2>2. SdkType' /\ PumpType'
    BY <1>7, <2>1, DisconnectPumps DEF DisconnectStale
  <2>3. pc' \in [Rounds -> PCs]
    BY <1>0, <1>7 DEF DisconnectStale, Moves, Types, RoundType
  <2>4. adapter' = [adapter EXCEPT ![r] = r] /\ UNCHANGED <<using, channel>>
    BY <1>7 DEF DisconnectStale
  <2>5. adapter' \in [Rounds -> Maybe]
    BY <1>0, <2>4 DEF Types, RoundType
  <2>6. \A q \in Rounds : pc'[q] \notin {"idle", "done"} => adapter'[q] # Nothing
    BY <1>7, <2>4 DEF DisconnectStale, Moves, Types, RoundType
  <2>7. RoundType'
    BY <2>3, <2>4, <2>5, <2>6 DEF Types, RoundType
  <2>8. QED
    BY <1>7, <2>2, <2>7, ManagerUnchanged, HistoryUnchanged DEF DisconnectStale, Types
<1>8. CASE Connect(r)
  BY <1>0, <1>8, OnlyMoves DEF Connect
<1>9. CASE NewSession(r)
  <2>1. SdkType'
    BY <1>9 DEF NewSession, Types, SdkType
  <2>2. UNCHANGED adapter /\ using' \in [Rounds -> Maybe] /\ channel' \in [Rounds -> Maybe]
    BY <1>9 DEF NewSession, locals, Types, RoundType
  <2>3. RoundType'
    BY <1>0, <1>9, <2>2, MovesTypes DEF NewSession
  <2>4. QED
    BY <1>9, <2>1, <2>3, ManagerUnchanged, PumpUnchanged, HistoryUnchanged DEF NewSession, Types
<1>10. CASE ConnectInstalls(r)
  <2>1. adapter[r] \in Rounds
    BY <1>10, AdapterType DEF ConnectInstalls, Moves
  <2>2. SdkType'
    BY <1>0, <1>10 DEF ConnectInstalls, Types, SdkType
  <2>3. PumpType'
    BY <1>10 DEF ConnectInstalls, Types, PumpType
  <2>4. UNCHANGED adapter /\ using' \in [Rounds -> Maybe] /\ channel' \in [Rounds -> Maybe]
    BY <1>10 DEF ConnectInstalls, locals, Types, RoundType
  <2>5. RoundType'
    BY <1>0, <1>10, <2>4, MovesTypes DEF ConnectInstalls
  <2>6. session[adapter[r]] \in Maybe
    BY <2>1 DEF Types, SdkType
  <2>7. HistoryType'
    BY <1>10, <2>1, <2>6 DEF ConnectInstalls, Types, HistoryType, Maybe
  <2>8. QED
    BY <1>10, <2>2, <2>3, <2>5, <2>7, ManagerUnchanged DEF ConnectInstalls, Types
<1>11. CASE AcquireFails(r)
  <2>1. Ends(r, Nothing) /\ UNCHANGED <<pump, hand, messages>>
    BY <1>11 DEF AcquireFails
  <2>3. ManagerType' /\ RoundType' /\ HistoryType'
    BY <1>0, <2>1, EndsTypes
  <2>4. CASE UNCHANGED <<sdk, stopped>>
    BY <2>1, <2>3, <2>4, SdkUnchanged, PumpUnchanged DEF pumps, Types
  <2>5. CASE pc[r] = "drop" /\ Disconnect(adapter[r])
    <3>1. adapter[r] \in Rounds
      BY <2>5, AdapterType
    <3>2. SdkType' /\ PumpType'
      BY <2>1, <2>5, <3>1, DisconnectPumps
    <3>3. QED
      BY <2>3, <3>2 DEF Types
  <2>6. QED
    BY <1>11, <2>4, <2>5 DEF AcquireFails
<1>12. QED
  BY <1>1, <1>2, <1>3, <1>4, <1>5, <1>6, <1>7, <1>8, <1>9, <1>10, <1>11 DEF AcquireStep

---------------------------------------------------------------------------
(* Types: ExecuteRound, the pump and the SDK, CloseSession.                *)

\* A round that ends and leaves the SDK and the pumps alone.
LEMMA OnlyEnds ==
    ASSUME Types, NEW r \in Rounds, Ends(r, Nothing), UNCHANGED <<sdk, pumps>>
    PROVE  Types'
<1>1. Nothing \in MaybeInput
  BY InputTypes
<1>2. QED
  BY <1>1, EndsTypes, SdkUnchanged, PumpUnchanged DEF Types

LEMMA ReadsTypes ==
    ASSUME Types, NEW r \in Rounds, Reads(r)
    PROVE  Head(messages[channel[r]]) \in MaybeInput /\ SdkType' /\ PumpType'
<1>1. channel[r] \in Rounds /\ messages[channel[r]] \in Seq(Inputs) /\ messages[channel[r]] # <<>>
  BY DEF Reads, Types, RoundType, PumpType, Maybe
<1>2. Head(messages[channel[r]]) \in Inputs /\ Tail(messages[channel[r]]) \in Seq(Inputs)
  BY <1>1
<1>3. messages' \in [Rounds -> Seq(Inputs)]
  BY <1>1, <1>2 DEF Reads, Types, PumpType
<1>4. PumpType'
  BY <1>3 DEF Reads, Types, PumpType
<1>5. QED
  BY <1>2, <1>4, SdkUnchanged DEF Reads, MaybeInput

LEMMA ExecuteTypes ==
    ASSUME Types, NEW r \in Rounds, ExecuteStep(r) \/ LeavesStream(r) \/ IdleTimeout(r)
    PROVE  Types'
<1>0. {"query", "receive", "reading", "abort"} \subseteq PCs /\ Nothing \in MaybeInput
  BY InputTypes DEF PCs
<1>1. CASE Query(r)
  <2>1. session[adapter[r]] \in Rounds
    BY <1>1, AdapterType DEF Query, Moves, Types, SdkType, Maybe
  <2>2. inputs' \in [Rounds -> Seq(Inputs)]
    BY <1>1, <2>1, InputTypes DEF Query, Types, SdkType
  <2>3. SdkType'
    BY <1>1, <2>2 DEF Query, Types, SdkType
  <2>4. UNCHANGED adapter /\ using' \in [Rounds -> Maybe] /\ channel' \in [Rounds -> Maybe]
    BY <1>1 DEF Query, locals, Types, RoundType
  <2>5. RoundType'
    BY <1>0, <1>1, <2>4, MovesTypes DEF Query
  <2>6. beside' \subseteq Rounds
    BY <1>1 DEF Query, AtWork, Types, HistoryType
  <2>7. HistoryType'
    BY <1>1, <2>6 DEF Query, Types, HistoryType
  <2>8. QED
    BY <1>1, <2>3, <2>5, <2>7, ManagerUnchanged, PumpUnchanged DEF Query, Types
<1>2. CASE QueryFails(r)
  BY <1>2, OnlyEnds DEF QueryFails
<1>3. CASE ReceiveMessages(r)
  <2>1. session[adapter[r]] \in Maybe
    BY <1>3, AdapterType DEF ReceiveMessages, Moves, Types, SdkType
  <2>2. UNCHANGED adapter /\ using' \in [Rounds -> Maybe] /\ channel' \in [Rounds -> Maybe]
    BY <1>3, <2>1 DEF ReceiveMessages, Types, RoundType
  <2>3. RoundType'
    BY <1>0, <1>3, <2>2, MovesTypes DEF ReceiveMessages
  <2>4. QED
    BY <1>3, <2>3, ManagerUnchanged, SdkUnchanged, PumpUnchanged, HistoryUnchanged
    DEF ReceiveMessages, Types
<1>4. CASE ReadResult(r)
  BY <1>4, ReadsTypes, EndsTypes DEF ReadResult, Types
<1>5. CASE ReadFails(r)
  BY <1>0, <1>5, ReadsTypes, EndsTypes DEF ReadFails, Types
<1>6. CASE abortRoundClientAfterIdleTimeout(r)
  <2>1. adapter[r] \in Rounds
    BY <1>6, AdapterType DEF abortRoundClientAfterIdleTimeout
  <2>2. SdkType' /\ PumpType'
    BY <1>6, <2>1, DisconnectPumps DEF abortRoundClientAfterIdleTimeout
  <2>3. QED
    BY <1>0, <1>6, <2>2, EndsTypes DEF abortRoundClientAfterIdleTimeout, Types
<1>7. CASE StreamClosed(r)
  BY <1>7, OnlyEnds DEF StreamClosed
<1>8. CASE LeavesStream(r)
  BY <1>8, OnlyEnds DEF LeavesStream
<1>9. CASE IdleTimeout(r)
  BY <1>0, <1>9, OnlyMoves DEF IdleTimeout
<1>10. QED
  BY <1>1, <1>2, <1>3, <1>4, <1>5, <1>6, <1>7, <1>8, <1>9 DEF ExecuteStep

LEMMA PumpTypes == ASSUME Types, NEW s \in Rounds, PumpStep(s) \/ SdkStep(s) PROVE Types'
<1>0. Nothing \in MaybeInput
  BY InputTypes
<1>1. CASE PumpSends(s)
  <2>1. hand[s] \in Inputs /\ messages[s] \in Seq(Inputs)
    BY <1>1 DEF PumpSends, Types, PumpType, MaybeInput
  <2>2. Append(messages[s], hand[s]) \in Seq(Inputs)
    BY <2>1
  <2>3. messages' \in [Rounds -> Seq(Inputs)]
    BY <1>1, <2>2 DEF PumpSends, Types, PumpType
  <2>4. PumpType'
    BY <1>0, <1>1, <2>3 DEF PumpSends, Types, PumpType
  <2>5. UNCHANGED <<pc, locals>>
    BY <1>1 DEF PumpSends
  <2>6. QED
    BY <1>1, <2>4, <2>5, ManagerUnchanged, SdkUnchanged, RoundUnchanged, HistoryUnchanged
    DEF PumpSends, Types
<1>2. CASE PumpEnds(s)
  <2>1. CASE adapter[s] \in Rounds
    <3>1. SdkType'
      BY <1>2, <2>1, MarkTypes DEF PumpEnds
    <3>2. PumpType'
      BY <1>0, <1>2 DEF PumpEnds, Types, PumpType
    <3>3. QED
      BY <1>2, <3>1, <3>2, ManagerUnchanged, RoundUnchanged, HistoryUnchanged DEF PumpEnds, Types
  <2>2. CASE adapter[s] = Nothing
    <3>1. SdkType'
      BY <1>2, <2>2, MarkNothing DEF PumpEnds
    <3>2. PumpType'
      BY <1>0, <1>2 DEF PumpEnds, Types, PumpType
    <3>3. QED
      BY <1>2, <3>1, <3>2, ManagerUnchanged, RoundUnchanged, HistoryUnchanged DEF PumpEnds, Types
  <2>3. QED
    BY <2>1, <2>2 DEF Types, RoundType, Maybe
<1>3. CASE SdkAnswers(s)
  <2>1. inputs[s] \in Seq(Inputs) /\ inputs[s] # <<>>
    BY <1>3 DEF SdkAnswers, Types, SdkType
  <2>2. Head(inputs[s]) \in Inputs /\ Tail(inputs[s]) \in Seq(Inputs)
    BY <2>1
  <2>3. SdkType'
    BY <1>3, <2>2 DEF SdkAnswers, Types, SdkType
  <2>4. PumpType'
    BY <1>3, <2>2, InputTypes DEF SdkAnswers, Types, PumpType
  <2>5. QED
    BY <1>3, <2>3, <2>4, ManagerUnchanged, RoundUnchanged, HistoryUnchanged DEF SdkAnswers, Types
<1>4. CASE SdkEnds(s)
  <2>1. SdkType'
    BY <1>4, OverTypes DEF SdkEnds, Types, SdkType
  <2>2. HistoryType'
    BY <1>4 DEF SdkEnds, Types, HistoryType
  <2>3. QED
    BY <1>4, <2>1, <2>2, ManagerUnchanged, PumpUnchanged, RoundUnchanged DEF SdkEnds, Types
<1>5. QED
  BY <1>1, <1>2, <1>3, <1>4 DEF PumpStep, SdkStep

LEMMA CloseTypes ==
    ASSUME Types, NEW x \in Closers, CloseSession(x) \/ CloseDisconnects(x)
    PROVE  Types'
<1>0. Nothing \in Maybe
  BY DEF Maybe
<1>1. CASE CloseSession(x)
  <2>1. ManagerType'
    BY <1>0, <1>1, SendUnchanged DEF CloseSession, Types, ManagerType
  <2>2. QED
    BY <1>1, <2>1, SdkUnchanged, PumpUnchanged, RoundUnchanged, HistoryUnchanged
    DEF CloseSession, Types
<1>2. CASE CloseDisconnects(x)
  <2>1. closing[x].client \in Rounds
    BY <1>2 DEF CloseDisconnects, Types, ManagerType, Maybe
  <2>2. SdkType' /\ PumpType'
    BY <1>2, <2>1, DisconnectPumps DEF CloseDisconnects
  <2>3. ManagerType'
    BY <1>0, <1>2, SendUnchanged DEF CloseDisconnects, Types, ManagerType
  <2>4. QED
    BY <1>2, <2>2, <2>3, RoundUnchanged, HistoryUnchanged DEF CloseDisconnects, Types
<1>3. QED
  BY <1>1, <1>2

SendStep(x) == SendTakes(x) \/ SendContent(x) \/ SendIsNoTurn(x)

LEMMA SendTypes == ASSUME Types, NEW x \in Sends, SendStep(x) PROVE Types'
<1>1. CASE SendTakes(x) \/ SendIsNoTurn(x)
  <2>1. ManagerType'
    BY <1>1, InputTypes DEF SendTakes, SendIsNoTurn, Types, ManagerType, SendType
  <2>2. QED
    BY <1>1, <2>1, SdkUnchanged, PumpUnchanged, RoundUnchanged, HistoryUnchanged
    DEF SendTakes, SendIsNoTurn, Types
<1>2. CASE SendContent(x)
  <2>1. PICK s \in Rounds : s = session[sending[x]]
    BY <1>2 DEF SendContent, Types, ManagerType, SendType, SdkType, Maybe
  <2>2. Owed(s) \subseteq Rounds
    BY DEF Owed
  <2>3. SendType'
    BY <1>2, <2>1, <2>2, InputTypes DEF SendContent, Types, ManagerType, SendType
  <2>4. ManagerType'
    BY <1>2, <2>3 DEF SendContent, Types, ManagerType
  <2>5. SdkType'
    <3>1. Append(inputs[s], x) \in Seq(Inputs)
      BY InputTypes DEF Types, SdkType
    <3>2. QED
      BY <1>2, <2>1, <3>1 DEF SendContent, Types, SdkType
  <2>6. HistoryType'
    BY <1>2 DEF SendContent, Types, HistoryType
  <2>7. QED
    BY <1>2, <2>4, <2>5, <2>6, PumpUnchanged, RoundUnchanged DEF SendContent, Types
<1>3. QED
  BY <1>1, <1>2 DEF SendStep

LEMMA TypeInit == Init => TypeOK
<1> SUFFICES ASSUME Init PROVE Types
  BY TypesAreTypeOK
<1>0. /\ Nothing \in Maybe /\ First \in Maybe /\ {"idle", "done"} \subseteq PCs
      /\ <<>> \in Seq(Inputs) /\ Maybe \subseteq MaybeInput
  BY InputTypes DEF Maybe, PCs
<1>1. ManagerType
  BY <1>0 DEF Init, ManagerType, SendType
<1>2. SdkType
  BY <1>0 DEF Init, SdkType
<1>3. PumpType
  BY <1>0 DEF Init, PumpType
<1>4. RoundType
  BY <1>0 DEF Init, RoundType
<1>5. HistoryType
  BY <1>0 DEF Init, HistoryType
<1>6. QED
  BY <1>1, <1>2, <1>3, <1>4, <1>5 DEF Types

LEMMA TypeNext == TypeOK /\ [Next]_vars => TypeOK'
<1> SUFFICES ASSUME Types, [Next]_vars PROVE Types'
  <2>1. Types' <=> TypeOK'
    BY DEF Types, TypeOK, ManagerType, SendType, SdkType, PumpType, RoundType, HistoryType
  <2>2. QED
    BY <2>1, TypesAreTypeOK
<1>1. CASE UNCHANGED vars
  BY <1>1, ManagerUnchanged, SdkUnchanged, PumpUnchanged, RoundUnchanged, HistoryUnchanged
  DEF vars, Types
<1>2. CASE Next
  BY <1>2, AcquireTypes, ExecuteTypes, PumpTypes, CloseTypes, SendTypes DEF Next, SendStep
<1>3. QED
  BY <1>1, <1>2

\* Every reachable state of the adapters, pumps and rounds has its types: a round
\* that is past GetOrCreate has a client, a pump that sends has a message in hand,
\* and a CloseSession that disconnects has the client it took.
THEOREM TypeCorrect == Spec => []TypeOK
<1>1. QED
  BY TypeInit, TypeNext, PTL DEF Spec

---------------------------------------------------------------------------
(* SDK sessions that run can be closed.                                    *)

\* An adapter that somebody disconnects, may disconnect, or that is a known stray.
Held(c) == c = client \/ WillDisconnect(c) \/ c \in stray

Owned(s, c) == session[c] = s /\ Held(c)

Reachable(s) ==
    \/ pc[s] = "install"
    \/ s \in forgotten
    \/ \E c \in Rounds : Owned(s, c)

LEMMA ReachableDef ==
    SessionsAreReachable <=> \A s \in Rounds : process[s] = "open" => Reachable(s)
  BY DEF SessionsAreReachable, Reachable, Owned, Held

\* What a step must keep that opens no session.
LEMMA StayReachable ==
    ASSUME SessionsAreReachable,
           \A s \in Rounds : process'[s] = "open" =>
               process[s] = "open" /\ (pc[s] = "install" => pc'[s] = "install"),
           forgotten \subseteq forgotten',
           \A s, c \in Rounds : process'[s] = "open" /\ Owned(s, c) => Owned(s, c)'
    PROVE  SessionsAreReachable'
<1>1. ASSUME NEW s \in Rounds, process'[s] = "open" PROVE Reachable(s)'
  <2>1. Reachable(s)
    BY <1>1, ReachableDef
  <2>2. QED
    BY <1>1, <2>1 DEF Reachable
<1>2. QED
  BY <1>1 DEF SessionsAreReachable, Reachable, Owned, Held

LEMMA HeldStays ==
    ASSUME UNCHANGED <<client, closing>>, stray \subseteq stray',
           \A q \in Rounds : pc[q] = "drop" => pc'[q] = "drop" /\ adapter'[q] = adapter[q],
           NEW c, Held(c)
    PROVE  Held(c)'
  BY DEF Held, WillDisconnect

\* Nobody leaves the control points that the invariant looks at.
Steady ==
    \A q \in Rounds :
        /\ pc[q] = "install" => pc'[q] = "install"
        /\ pc[q] = "drop" => pc'[q] = "drop" /\ adapter'[q] = adapter[q]

LEMMA MovesSteady ==
    ASSUME Types, NEW r \in Rounds, NEW from, NEW to, Moves(r, from, to),
           from \notin {"install", "drop"},
           \A q \in Rounds \ {r} : adapter'[q] = adapter[q]
    PROVE  Steady
  BY DEF Moves, Types, RoundType, Steady

LEMMA EndsSteady ==
    ASSUME Types, NEW r \in Rounds, NEW by, Ends(r, by), pc[r] \notin {"install", "drop"}
    PROVE  Steady
  BY DEF Ends, Types, RoundType, Steady

LEMMA UnchangedSteady == ASSUME UNCHANGED <<pc, adapter>> PROVE Steady
  BY DEF Steady

\* A step that changes no session.
LEMMA SameSessions ==
    ASSUME SessionsAreReachable, Steady, UNCHANGED <<client, closing, session, process>>,
           UNCHANGED <<forgotten, stray>>
    PROVE  SessionsAreReachable'
<1>1. \A s, c \in Rounds : Owned(s, c) => Owned(s, c)'
  BY HeldStays DEF Owned, Steady
<1>2. QED
  BY <1>1, StayReachable DEF Steady

LEMMA OverClosed ==
    ASSUME Types, NEW s, Over(s), NEW q \in Rounds, process'[q] = "open"
    PROVE  process[q] = "open" /\ q # s
  BY DEF Over, Types, SdkType

\* A step that ends one session.
LEMMA LosesSession ==
    ASSUME Types, SessionsAreReachable, NEW c, NEW s,
           Over(s), session' = session \/ session' = [session EXCEPT ![c] = Nothing],
           session' # session => session[c] = s,
           \A q \in Rounds : pc[q] = "install" => pc'[q] = "install",
           forgotten \subseteq forgotten',
           \A d \in Rounds : Held(d) => Held(d)' \/ session[d] \in {s, Nothing}
    PROVE  SessionsAreReachable'
<1>1. \A q \in Rounds : process'[q] = "open" => process[q] = "open" /\ q # s
  BY OverClosed
<1>2. ASSUME NEW q \in Rounds, NEW d \in Rounds, process'[q] = "open", Owned(q, d)
      PROVE  Owned(q, d)'
  <2>1. q # s /\ q # Nothing /\ session[d] = q
    BY <1>1, <1>2 DEF Owned
  <2>2. session'[d] = q
    BY <2>1 DEF Types, SdkType
  <2>3. Held(d)'
    BY <1>2, <2>1 DEF Owned
  <2>4. QED
    BY <2>2, <2>3 DEF Owned
<1>3. QED
  BY <1>1, <1>2, StayReachable

LEMMA MarkReachable ==
    ASSUME Types, SessionsAreReachable, NEW c, NEW s, markDisconnected(c, s), Steady,
           UNCHANGED <<client, closing, stray>>, forgotten \subseteq forgotten'
    PROVE  SessionsAreReachable'
<1>1. \A d \in Rounds : Held(d) => Held(d)'
  BY HeldStays DEF Steady
<1>2. CASE session[c] = s
  BY <1>1, <1>2, LosesSession DEF markDisconnected, Steady
<1>3. CASE session[c] # s
  <2>1. UNCHANGED <<session, process>>
    BY <1>3 DEF markDisconnected, sdk
  <2>2. \A q, d \in Rounds : Owned(q, d) => Owned(q, d)'
    BY <1>1, <2>1 DEF Owned
  <2>3. QED
    BY <2>1, <2>2, StayReachable DEF Steady
<1>4. QED
  BY <1>2, <1>3

\* The adapter that is disconnected need not be held any longer.
LEMMA DisconnectReachable ==
    ASSUME Types, SessionsAreReachable, NEW c \in Rounds, Disconnect(c),
           \A q \in Rounds : pc[q] = "install" => pc'[q] = "install",
           UNCHANGED forgotten,
           \A d \in Rounds \ {c} : Held(d) => Held(d)'
    PROVE  SessionsAreReachable'
<1>1. Over(session[c]) /\ session' = [session EXCEPT ![c] = Nothing]
  BY DEF Disconnect
<1>2. \A d \in Rounds : Held(d) => Held(d)' \/ session[d] \in {session[c], Nothing}
  OBVIOUS
<1>3. QED
  BY <1>1, <1>2, LosesSession

LEMMA AcquireReachable ==
    ASSUME Types, SessionsAreReachable, NEW r \in Rounds, AcquireStep(r)
    PROVE  SessionsAreReachable'
<1>1. CASE GetOrCreate(r)
  <2>1. Steady
    BY <1>1, MovesSteady DEF GetOrCreate, Types, RoundType
  <2>2. \A c \in Rounds : Held(c) => Held(c)'
    BY <1>1, <2>1 DEF GetOrCreate, Held, WillDisconnect, Steady, history
  <2>3. UNCHANGED <<session, process, forgotten>>
    BY <1>1 DEF GetOrCreate, sdk, history
  <2>4. \A s, c \in Rounds : Owned(s, c) => Owned(s, c)'
    BY <2>2, <2>3 DEF Owned
  <2>5. QED
    BY <2>1, <2>3, <2>4, StayReachable DEF Steady
<1>2. CASE Reconfigure(r)
  <2>1. Steady
    BY <1>2, MovesSteady DEF Reconfigure
  <2>2. QED
    BY <1>2, <2>1, SameSessions DEF Reconfigure, manager, sdk, history
<1>3. CASE ReconfigureSucceeds(r)
  <2>1. Steady
    BY <1>3, MovesSteady DEF ReconfigureSucceeds
  <2>2. QED
    BY <1>3, <2>1, SameSessions DEF ReconfigureSucceeds, manager, sdk, history
<1>4. CASE ReconfigureDisconnected(r)
  <2>1. Steady
    BY <1>4, MovesSteady DEF ReconfigureDisconnected
  <2>2. forgotten \subseteq forgotten' /\ markDisconnected(adapter[r], using[r])
    BY <1>4 DEF ReconfigureDisconnected
  <2>3. UNCHANGED <<client, closing, stray>>
    BY <1>4 DEF ReconfigureDisconnected, manager
  <2>4. QED
    BY <2>1, <2>2, <2>3, MarkReachable
<1>5. CASE TakeReplaced(r)
  <2>1. Steady
    BY <1>5, MovesSteady DEF TakeReplaced, Types, RoundType
  <2>2. QED
    BY <1>5, <2>1, SameSessions DEF TakeReplaced, manager, sdk, history
<1>6. CASE replaceDisconnectedClient(r)
  <2>1. Steady
    BY <1>6, MovesSteady DEF replaceDisconnectedClient, locals
  <2>2. ASSUME NEW c \in Rounds, c = adapter[r] PROVE WillDisconnect(c)'
    BY <1>6, <2>2 DEF replaceDisconnectedClient, Moves, locals, WillDisconnect, Types, RoundType
  <2>3. \A c \in Rounds : Held(c) => Held(c)'
    <3>1. client = adapter[r] /\ UNCHANGED <<closing, stray>>
      BY <1>6 DEF replaceDisconnectedClient, history
    <3>2. \A c \in Rounds : WillDisconnect(c) => WillDisconnect(c)'
      BY <2>1, <3>1 DEF WillDisconnect, Steady
    <3>3. QED
      BY <2>2, <3>1, <3>2 DEF Held
  <2>4. UNCHANGED <<session, process, forgotten>>
    BY <1>6 DEF replaceDisconnectedClient, sdk, history
  <2>5. \A s, c \in Rounds : Owned(s, c) => Owned(s, c)'
    BY <2>3, <2>4 DEF Owned
  <2>6. QED
    BY <2>1, <2>4, <2>5, StayReachable DEF Steady
<1>7. CASE DisconnectStale(r)
  <2>1. adapter[r] \in Rounds
    BY <1>7, AdapterType DEF DisconnectStale, Moves
  <2>2. \A q \in Rounds : pc[q] = "install" => pc'[q] = "install"
    BY <1>7 DEF DisconnectStale, Moves, Types, RoundType
  <2>3. \A d \in Rounds \ {adapter[r]} : WillDisconnect(d) => WillDisconnect(d)'
    BY <1>7 DEF DisconnectStale, Moves, manager, WillDisconnect, Types, RoundType
  <2>4. \A d \in Rounds \ {adapter[r]} : Held(d) => Held(d)'
    BY <1>7, <2>3 DEF DisconnectStale, Held, manager, history
  <2>5. QED
    BY <1>7, <2>1, <2>2, <2>4, DisconnectReachable DEF DisconnectStale, history
<1>8. CASE Connect(r)
  <2>1. Steady
    BY <1>8, MovesSteady DEF Connect, locals
  <2>2. QED
    BY <1>8, <2>1, SameSessions DEF Connect, manager, sdk, history
<1>9. CASE NewSession(r)
  <2>1. Steady
    BY <1>9, MovesSteady DEF NewSession, locals
  <2>2. pc'[r] = "install" /\ \A s \in Rounds \ {r} : process'[s] = process[s]
    BY <1>9 DEF NewSession, Moves, Types, RoundType, SdkType
  <2>3. \A s, c \in Rounds : Owned(s, c) => Owned(s, c)'
    BY <1>9, <2>1, HeldStays DEF NewSession, Owned, Steady, manager, history
  <2>4. \A s \in Rounds \ {r} : process'[s] = "open" => Reachable(s)'
    BY <1>9, <2>1, <2>2, <2>3, ReachableDef DEF NewSession, Reachable, Steady, history
  <2>5. \A s \in Rounds : process'[s] = "open" => Reachable(s)'
    BY <2>2, <2>4 DEF Reachable
  <2>6. QED
    BY <2>5 DEF SessionsAreReachable, Reachable, Owned, Held
<1>10. CASE ConnectInstalls(r)
  <2>1. adapter[r] \in Rounds
    BY <1>10, AdapterType DEF ConnectInstalls, Moves
  <2>2. /\ session' = [session EXCEPT ![adapter[r]] = r]
        /\ forgotten' = forgotten \cup ({session[adapter[r]]} \ {Nothing})
        /\ stray' = IF adapter[r] = client THEN stray ELSE stray \cup {adapter[r]}
        /\ UNCHANGED <<client, closing, process, adapter>>
    BY <1>10 DEF ConnectInstalls, manager, locals
  <2>3. \A q \in Rounds \ {r} : pc'[q] = pc[q]
    BY <1>10 DEF ConnectInstalls, Moves, Types, RoundType
  <2>4. pc[r] = "install"
    BY <1>10 DEF ConnectInstalls, Moves
  <2>5. \A c \in Rounds : Held(c) => Held(c)'
    BY <2>2, <2>3, <2>4, HeldStays
  <2>6. Owned(r, adapter[r])'
    BY <2>1, <2>2 DEF Owned, Held, Types, SdkType
  <2>7. ASSUME NEW s \in Rounds \ {r}, process'[s] = "open" PROVE Reachable(s)'
    <3>1. Reachable(s)
      BY <2>2, <2>7, ReachableDef
    <3>2. CASE pc[s] = "install"
      BY <2>3, <3>2 DEF Reachable
    <3>3. CASE s \in forgotten
      BY <2>2, <3>3 DEF Reachable
    <3>4. ASSUME NEW c \in Rounds, Owned(s, c) PROVE Reachable(s)'
      <4>1. CASE c = adapter[r]
        BY <2>2, <3>4, <4>1 DEF Owned, Reachable
      <4>2. CASE c # adapter[r]
        <5>1. session'[c] = s
          BY <2>2, <3>4, <4>2 DEF Owned, Types, SdkType
        <5>2. QED
          BY <2>5, <3>4, <5>1 DEF Owned, Reachable
      <4>3. QED
        BY <4>1, <4>2
    <3>5. QED
      BY <3>1, <3>2, <3>3, <3>4 DEF Reachable
  <2>8. Reachable(r)'
    BY <2>1, <2>2, <2>6 DEF Reachable
  <2>9. QED
    BY <2>7, <2>8 DEF SessionsAreReachable, Reachable, Owned, Held
<1>11. CASE AcquireFails(r)
  <2>1. Ends(r, Nothing)
    BY <1>11 DEF AcquireFails
  <2>2. CASE pc[r] \in {"controls", "replace", "open"} /\ UNCHANGED <<sdk, stopped>>
    <3>1. Steady
      BY <2>1, <2>2, EndsSteady
    <3>2. QED
      BY <2>1, <2>2, <3>1, SameSessions DEF Ends, manager, sdk
  <2>3. CASE pc[r] = "drop" /\ Disconnect(adapter[r])
    <3>1. adapter[r] \in Rounds
      BY <2>3, AdapterType
    <3>2. \A q \in Rounds : pc[q] = "install" => pc'[q] = "install"
      BY <2>1, <2>3 DEF Ends, Types, RoundType
    <3>3. \A d \in Rounds \ {adapter[r]} : WillDisconnect(d) => WillDisconnect(d)'
      BY <2>1, <2>3 DEF Ends, manager, WillDisconnect, Types, RoundType
    <3>4. \A d \in Rounds \ {adapter[r]} : Held(d) => Held(d)'
      BY <2>1, <3>3 DEF Ends, Held, manager
    <3>5. QED
      BY <2>1, <2>3, <3>1, <3>2, <3>4, DisconnectReachable DEF Ends
  <2>4. QED
    BY <1>11, <2>2, <2>3 DEF AcquireFails
<1>12. QED
  BY <1>1, <1>2, <1>3, <1>4, <1>5, <1>6, <1>7, <1>8, <1>9, <1>10, <1>11 DEF AcquireStep

LEMMA ExecuteReachable ==
    ASSUME Types, SessionsAreReachable, NEW r \in Rounds,
           ExecuteStep(r) \/ LeavesStream(r) \/ IdleTimeout(r)
    PROVE  SessionsAreReachable'
<1>1. CASE Query(r)
  <2>1. Steady
    BY <1>1, MovesSteady DEF Query, locals
  <2>2. QED
    BY <1>1, <2>1, SameSessions DEF Query, manager
<1>2. CASE QueryFails(r)
  <2>1. Steady
    BY <1>2, EndsSteady DEF QueryFails
  <2>2. QED
    BY <1>2, <2>1, SameSessions DEF QueryFails, Ends, manager, sdk
<1>3. CASE ReceiveMessages(r)
  <2>1. Steady
    BY <1>3, MovesSteady DEF ReceiveMessages
  <2>2. QED
    BY <1>3, <2>1, SameSessions DEF ReceiveMessages, manager, sdk, history
<1>4. CASE ReadResult(r) \/ ReadFails(r)
  <2>1. PICK by : Reads(r) /\ Ends(r, by)
    BY <1>4 DEF ReadResult, ReadFails
  <2>2. Steady
    BY <2>1, EndsSteady DEF Reads
  <2>3. QED
    BY <2>1, <2>2, SameSessions DEF Reads, Ends, manager, sdk
<1>5. CASE abortRoundClientAfterIdleTimeout(r)
  <2>1. adapter[r] \in Rounds /\ Disconnect(adapter[r]) /\ Ends(r, Nothing)
    BY <1>5, AdapterType DEF abortRoundClientAfterIdleTimeout
  <2>2. Steady
    BY <1>5, EndsSteady DEF abortRoundClientAfterIdleTimeout
  <2>3. \A d \in Rounds : Held(d) => Held(d)'
    BY <2>1, <2>2, HeldStays DEF Ends, Steady, manager
  <2>4. QED
    BY <2>1, <2>2, <2>3, DisconnectReachable DEF Ends, Steady
<1>6. CASE StreamClosed(r) \/ LeavesStream(r)
  <2>1. Ends(r, Nothing) /\ UNCHANGED sdk /\ pc[r] \notin {"install", "drop"}
    BY <1>6 DEF StreamClosed, LeavesStream
  <2>2. Steady
    BY <2>1, EndsSteady
  <2>3. QED
    BY <2>1, <2>2, SameSessions DEF Ends, manager, sdk
<1>7. CASE IdleTimeout(r)
  <2>1. Steady
    BY <1>7, MovesSteady DEF IdleTimeout, locals
  <2>2. QED
    BY <1>7, <2>1, SameSessions DEF IdleTimeout, manager, sdk, history
<1>8. QED
  BY <1>1, <1>2, <1>3, <1>4, <1>5, <1>6, <1>7 DEF ExecuteStep

LEMMA PumpReachable ==
    ASSUME Types, SessionsAreReachable, NEW s \in Rounds, PumpStep(s) \/ SdkStep(s)
    PROVE  SessionsAreReachable'
<1>1. UNCHANGED <<pc, adapter, client, closing>>
  BY DEF PumpStep, SdkStep, PumpSends, PumpEnds, SdkAnswers, SdkEnds, locals, manager
<1>2. Steady
  BY <1>1, UnchangedSteady
<1>3. CASE PumpSends(s)
  BY <1>1, <1>2, <1>3, SameSessions DEF PumpSends, sdk, history
<1>4. CASE PumpEnds(s)
  BY <1>1, <1>2, <1>4, MarkReachable DEF PumpEnds, history
<1>5. CASE SdkAnswers(s)
  BY <1>1, <1>2, <1>5, SameSessions DEF SdkAnswers, history
<1>6. CASE SdkEnds(s)
  <2>1. Over(s) /\ UNCHANGED <<session, forgotten, stray>>
    BY <1>6 DEF SdkEnds
  <2>2. \A d \in Rounds : Held(d) => Held(d)'
    BY <1>1, <1>2, <2>1, HeldStays DEF Steady
  <2>3. QED
    BY <1>2, <2>1, <2>2, LosesSession DEF Steady
<1>7. QED
  BY <1>3, <1>4, <1>5, <1>6 DEF PumpStep, SdkStep

LEMMA CloseReachable ==
    ASSUME Types, SessionsAreReachable, NEW x \in Closers, CloseSession(x) \/ CloseDisconnects(x)
    PROVE  SessionsAreReachable'
<1>1. CASE CloseSession(x)
  <2>1. UNCHANGED <<session, process, pc, adapter, forgotten, stray>>
    BY <1>1 DEF CloseSession, sdk, locals, history
  <2>2. \A c \in Rounds : WillDisconnect(c) => WillDisconnect(c)'
    BY <1>1, <2>1 DEF CloseSession, WillDisconnect, Types, ManagerType
  <2>3. ASSUME NEW c \in Rounds, c = client PROVE WillDisconnect(c)'
    <3>1. closing'[x].at = "disconnect" /\ closing'[x].client = c
      BY <1>1, <2>3 DEF CloseSession, Types, ManagerType
    <3>2. QED
      BY <3>1 DEF WillDisconnect
  <2>4. \A c \in Rounds : Held(c) => Held(c)'
    BY <2>1, <2>2, <2>3 DEF Held
  <2>5. \A s, c \in Rounds : Owned(s, c) => Owned(s, c)'
    BY <2>1, <2>4 DEF Owned
  <2>6. QED
    BY <2>1, <2>5, StayReachable
<1>2. CASE CloseDisconnects(x)
  <2>1. closing[x].client \in Rounds /\ Disconnect(closing[x].client)
    BY <1>2 DEF CloseDisconnects, Types, ManagerType, Maybe
  <2>2. UNCHANGED <<client, pc, adapter, forgotten, stray>>
    BY <1>2 DEF CloseDisconnects, locals, history
  <2>3. \A y \in Closers \ {x} : closing'[y] = closing[y]
    BY <1>2 DEF CloseDisconnects, Types, ManagerType
  <2>4. \A d \in Rounds \ {closing[x].client} : WillDisconnect(d) => WillDisconnect(d)'
    BY <2>2, <2>3 DEF WillDisconnect
  <2>5. \A d \in Rounds \ {closing[x].client} : Held(d) => Held(d)'
    BY <2>2, <2>4 DEF Held
  <2>6. QED
    BY <2>1, <2>2, <2>5, DisconnectReachable
<1>3. QED
  BY <1>1, <1>2

LEMMA SendReachable ==
    ASSUME Types, SessionsAreReachable, NEW x \in Sends, SendStep(x)
    PROVE  SessionsAreReachable'
<1>1. UNCHANGED <<pc, adapter, client, closing, session, process, forgotten, stray>>
  BY DEF SendStep, SendTakes, SendContent, SendIsNoTurn, locals, sdk, history
<1>2. QED
  BY <1>1, UnchangedSteady, SameSessions

LEMMA ReachableInit == Init => SessionsAreReachable
<1> SUFFICES ASSUME Init PROVE SessionsAreReachable
  OBVIOUS
<1>1. ASSUME NEW s \in Rounds, process[s] = "open" PROVE Owned(s, s)
  BY <1>1 DEF Init, Owned, Held
<1>2. QED
  BY <1>1 DEF SessionsAreReachable, Owned, Held

LEMMA ReachableNext == TypeOK /\ SessionsAreReachable /\ [Next]_vars => SessionsAreReachable'
<1> SUFFICES ASSUME Types, SessionsAreReachable, [Next]_vars PROVE SessionsAreReachable'
  BY TypesAreTypeOK
<1>1. CASE UNCHANGED vars
  <2>1. UNCHANGED <<client, closing, session, process, forgotten, stray, pc, adapter>>
    BY <1>1 DEF vars, manager, sdk, locals, history
  <2>2. QED
    BY <2>1, UnchangedSteady, SameSessions
<1>2. CASE Next
  BY <1>2, AcquireReachable, ExecuteReachable, PumpReachable, CloseReachable, SendReachable
  DEF Next, SendStep
<1>3. QED
  BY <1>1, <1>2

\* An SDK session that runs can always be closed by somebody, whichever rounds
\* replace, abort, close or connect its client, but for a session that a second
\* Connect has overwritten and those of adapters connected too late.
THEOREM SessionsCanBeClosed == Spec => []SessionsAreReachable
<1>1. TypeOK /\ SessionsAreReachable /\ [Next]_vars => (TypeOK /\ SessionsAreReachable)'
  BY TypeNext, ReachableNext
<1>2. QED
  BY <1>1, TypeInit, ReachableInit, PTL DEF Spec

---------------------------------------------------------------------------
(* Pumps can be woken.                                                     *)

PumpWorks(s) == pump[s] \in {"recv", "send"}

\* What a step must keep that starts no pump.
LEMMA StayWoken ==
    ASSUME PumpsAreWoken,
           \A s \in Rounds : PumpWorks(s)' =>
               /\ PumpWorks(s)
               /\ s \in stopped \cup forgotten => s \in stopped' \cup forgotten'
               /\ \A c \in Rounds : session[c] = s => session'[c] = s \/ s \in stopped' \cup forgotten'
    PROVE  PumpsAreWoken'
  BY DEF PumpsAreWoken, PumpWorks

LEMMA SamePumps ==
    ASSUME PumpsAreWoken, UNCHANGED <<session, pump, stopped, forgotten>>
    PROVE  PumpsAreWoken'
  BY StayWoken DEF PumpWorks

LEMMA DisconnectWakes ==
    ASSUME Types, PumpsAreWoken, NEW c \in Rounds, Disconnect(c), UNCHANGED <<pump, forgotten>>
    PROVE  PumpsAreWoken'
<1>1. ASSUME NEW s \in Rounds, NEW d \in Rounds, session[d] = s
      PROVE  session'[d] = s \/ s \in stopped'
  <2>1. CASE d = c
    BY <1>1, <2>1 DEF Disconnect
  <2>2. CASE d # c
    BY <1>1, <2>2 DEF Disconnect, Types, SdkType
  <2>3. QED
    BY <2>1, <2>2
<1>2. stopped \subseteq stopped'
  BY DEF Disconnect
<1>3. QED
  BY <1>1, <1>2, StayWoken DEF PumpWorks

LEMMA AcquireWakes ==
    ASSUME Types, PumpsAreWoken, NEW r \in Rounds, AcquireStep(r)
    PROVE  PumpsAreWoken'
<1>1. CASE \/ GetOrCreate(r) \/ Reconfigure(r) \/ ReconfigureSucceeds(r) \/ TakeReplaced(r)
           \/ replaceDisconnectedClient(r) \/ Connect(r) \/ NewSession(r)
  <2>1. UNCHANGED <<session, pump, stopped, forgotten>>
    BY <1>1 DEF GetOrCreate, Reconfigure, ReconfigureSucceeds, TakeReplaced,
                replaceDisconnectedClient, Connect, NewSession, sdk, pumps, history
  <2>2. QED
    BY <2>1, SamePumps
<1>2. CASE ReconfigureDisconnected(r)
  <2>1. adapter[r] \in Rounds
    BY <1>2, AdapterType DEF ReconfigureDisconnected, Moves
  <2>2. /\ forgotten' = forgotten \cup ({session[adapter[r]]} \cap {using[r]})
        /\ UNCHANGED <<pump, stopped>>
    BY <1>2 DEF ReconfigureDisconnected, pumps
  <2>3. CASE session[adapter[r]] = using[r]
    <3>1. session' = [session EXCEPT ![adapter[r]] = Nothing]
      BY <1>2, <2>3 DEF ReconfigureDisconnected, markDisconnected
    <3>2. ASSUME NEW s \in Rounds, NEW c \in Rounds, session[c] = s
          PROVE  session'[c] = s \/ s \in forgotten'
      BY <2>2, <2>3, <3>1, <3>2 DEF Types, SdkType
    <3>3. QED
      BY <2>2, <3>2, StayWoken DEF PumpWorks
  <2>4. CASE session[adapter[r]] # using[r]
    <3>1. UNCHANGED session
      BY <1>2, <2>4 DEF ReconfigureDisconnected, markDisconnected, sdk
    <3>2. QED
      BY <2>2, <3>1, StayWoken DEF PumpWorks
  <2>5. QED
    BY <2>3, <2>4
<1>3. CASE DisconnectStale(r)
  BY <1>3, AdapterType, DisconnectWakes DEF DisconnectStale, Moves, history
<1>4. CASE ConnectInstalls(r)
  <2>1. adapter[r] \in Rounds
    BY <1>4, AdapterType DEF ConnectInstalls, Moves
  <2>2. /\ session' = [session EXCEPT ![adapter[r]] = r]
        /\ forgotten' = forgotten \cup ({session[adapter[r]]} \ {Nothing})
        /\ pump' = [pump EXCEPT ![r] = "recv"]
        /\ UNCHANGED stopped
    BY <1>4 DEF ConnectInstalls
  <2>3. session'[adapter[r]] = r
    BY <2>1, <2>2 DEF Types, SdkType
  <2>4. ASSUME NEW s \in Rounds \ {r}, PumpWorks(s)'
        PROVE  s \in stopped' \cup forgotten' \/ \E c \in Rounds : session'[c] = s
    <3>1. pump[s] \in {"recv", "send"}
      BY <2>2, <2>4 DEF PumpWorks, Types, PumpType
    <3>2. s \in stopped \cup forgotten \/ \E c \in Rounds : session[c] = s
      BY <3>1 DEF PumpsAreWoken
    <3>3. ASSUME NEW c \in Rounds, session[c] = s PROVE session'[c] = s \/ s \in forgotten'
      <4>1. CASE c = adapter[r]
        BY <2>2, <3>3, <4>1
      <4>2. CASE c # adapter[r]
        BY <2>2, <3>3, <4>2 DEF Types, SdkType
      <4>3. QED
        BY <4>1, <4>2
    <3>4. QED
      BY <2>2, <3>2, <3>3
  <2>5. QED
    BY <2>1, <2>3, <2>4 DEF PumpsAreWoken, PumpWorks
<1>5. CASE AcquireFails(r)
  <2>1. UNCHANGED <<pump, forgotten>>
    BY <1>5 DEF AcquireFails, Ends
  <2>2. CASE UNCHANGED <<sdk, stopped>>
    BY <2>1, <2>2, SamePumps DEF sdk
  <2>3. CASE pc[r] = "drop" /\ Disconnect(adapter[r])
    BY <2>1, <2>3, AdapterType, DisconnectWakes
  <2>4. QED
    BY <1>5, <2>2, <2>3 DEF AcquireFails
<1>6. QED
  BY <1>1, <1>2, <1>3, <1>4, <1>5 DEF AcquireStep

LEMMA ExecuteWakes ==
    ASSUME Types, PumpsAreWoken, NEW r \in Rounds,
           ExecuteStep(r) \/ LeavesStream(r) \/ IdleTimeout(r)
    PROVE  PumpsAreWoken'
<1>1. CASE abortRoundClientAfterIdleTimeout(r)
  BY <1>1, AdapterType, DisconnectWakes DEF abortRoundClientAfterIdleTimeout, Ends
<1>2. CASE ReadResult(r) \/ ReadFails(r)
  <2>1. UNCHANGED <<session, pump, stopped, forgotten>>
    BY <1>2 DEF ReadResult, ReadFails, Reads, Ends, sdk
  <2>2. QED
    BY <2>1, SamePumps
<1>3. CASE \/ Query(r) \/ QueryFails(r) \/ ReceiveMessages(r) \/ StreamClosed(r)
           \/ LeavesStream(r) \/ IdleTimeout(r)
  <2>1. UNCHANGED <<session, pump, stopped, forgotten>>
    BY <1>3 DEF Query, QueryFails, ReceiveMessages, StreamClosed, LeavesStream, IdleTimeout,
                Ends, sdk, pumps, history
  <2>2. QED
    BY <2>1, SamePumps
<1>4. QED
  BY <1>1, <1>2, <1>3 DEF ExecuteStep

LEMMA PumpWakes ==
    ASSUME Types, PumpsAreWoken, NEW s \in Rounds, PumpStep(s) \/ SdkStep(s)
    PROVE  PumpsAreWoken'
<1>1. CASE PumpSends(s) \/ SdkAnswers(s)
  <2>1. UNCHANGED <<session, stopped, forgotten>> /\ pump[s] \in {"recv", "send"}
    BY <1>1 DEF PumpSends, SdkAnswers, sdk, history
  <2>2. \A q \in Rounds : PumpWorks(q)' => PumpWorks(q)
    BY <1>1, <2>1 DEF PumpSends, SdkAnswers, PumpWorks, Types, PumpType
  <2>3. QED
    BY <2>1, <2>2, StayWoken
<1>2. CASE PumpEnds(s)
  <2>1. /\ pump' = [pump EXCEPT ![s] = "ended"] /\ stopped' = stopped \ {s}
        /\ UNCHANGED forgotten /\ markDisconnected(adapter[s], s)
    BY <1>2 DEF PumpEnds, history
  <2>2. \A q \in Rounds : PumpWorks(q)' => PumpWorks(q) /\ q # s
    BY <2>1 DEF PumpWorks, Types, PumpType
  <2>3. ASSUME NEW q \in Rounds, q # s, NEW c \in Rounds, session[c] = q
        PROVE  session'[c] = q
    BY <2>1, <2>3 DEF markDisconnected, sdk, Types, SdkType
  <2>4. QED
    BY <2>1, <2>2, <2>3, StayWoken
<1>3. CASE SdkEnds(s)
  BY <1>3, SamePumps DEF SdkEnds, pumps
<1>4. QED
  BY <1>1, <1>2, <1>3 DEF PumpStep, SdkStep

LEMMA CloseWakes ==
    ASSUME Types, PumpsAreWoken, NEW x \in Closers, CloseSession(x) \/ CloseDisconnects(x)
    PROVE  PumpsAreWoken'
<1>1. CASE CloseSession(x)
  BY <1>1, SamePumps DEF CloseSession, sdk, pumps, history
<1>2. CASE CloseDisconnects(x)
  <2>1. closing[x].client \in Rounds
    BY <1>2 DEF CloseDisconnects, Types, ManagerType, Maybe
  <2>2. QED
    BY <1>2, <2>1, DisconnectWakes DEF CloseDisconnects, history
<1>3. QED
  BY <1>1, <1>2

LEMMA SendWakes ==
    ASSUME Types, PumpsAreWoken, NEW x \in Sends, SendStep(x)
    PROVE  PumpsAreWoken'
<1>1. UNCHANGED <<session, pump, stopped, forgotten>>
  BY DEF SendStep, SendTakes, SendContent, SendIsNoTurn, sdk, pumps, history
<1>2. QED
  BY <1>1, SamePumps

LEMMA WokenInit == Init => PumpsAreWoken
<1> SUFFICES ASSUME Init PROVE PumpsAreWoken
  OBVIOUS
<1>1. ASSUME NEW s \in Rounds, pump[s] \in {"recv", "send"} PROVE session[s] = s
  BY <1>1 DEF Init
<1>2. QED
  BY <1>1 DEF PumpsAreWoken

LEMMA WokenNext == TypeOK /\ PumpsAreWoken /\ [Next]_vars => PumpsAreWoken'
<1> SUFFICES ASSUME Types, PumpsAreWoken, [Next]_vars PROVE PumpsAreWoken'
  BY TypesAreTypeOK
<1>1. CASE UNCHANGED vars
  BY <1>1, SamePumps DEF vars, sdk, pumps, history
<1>2. CASE Next
  BY <1>2, AcquireWakes, ExecuteWakes, PumpWakes, CloseWakes, SendWakes DEF Next, SendStep
<1>3. QED
  BY <1>1, <1>2

\* A pump at work has been cancelled or has an adapter that can cancel it, unless a
\* second Connect or a failed Reconfigure has dropped its cancel.
THEOREM PumpsCanBeWoken == Spec => []PumpsAreWoken
<1>1. TypeOK /\ PumpsAreWoken /\ [Next]_vars => (TypeOK /\ PumpsAreWoken)'
  BY TypeNext, WokenNext
<1>2. QED
  BY <1>1, TypeInit, WokenInit, PTL DEF Spec

---------------------------------------------------------------------------
(* Results end the rounds they answer.  A session belongs to the adapter   *)
(* that installed it, its results answer inputs of rounds of that adapter, *)
(* each input is answered once, and rounds at work on one adapter know of  *)
(* each other: so a round that reads a foreign result either shares the    *)
(* adapter with a round at work, or finds what an ended round left behind. *)
(* A further input is answered after the rounds that were waiting before   *)
(* it, because inputs, the pump and the channel keep their order.          *)

Busy == {"receive", "reading", "abort"}

\* A round that has its client for good.
Settled(s) == pc[s] \in {"query", "done"} \cup Busy

Distinct(q) == \A i, j \in 1 .. Len(q) : q[i] = q[j] => i = j

\* Inputs an SDK session, its pump and their channel have something of.
Holds(s) == Elements(inputs[s]) \cup Elements(messages[s]) \cup ({hand[s]} \ {Nothing})

\* An input is answered once.
Once(s) ==
    /\ Distinct(inputs[s]) /\ Distinct(messages[s])
    /\ Elements(inputs[s]) \cap Elements(messages[s]) = {}
    /\ hand[s] \notin Elements(inputs[s]) \cup Elements(messages[s])

Homes == \A c, s \in Rounds : session[c] = s => adapter[s] = c /\ Settled(s)

Channels == \A r, s \in Rounds : channel[r] = s =>
    /\ pc[r] \in {"reading", "abort"}
    /\ adapter[s] = adapter[r] /\ Settled(s)

Results == \A s, q \in Rounds : q \in Holds(s) =>
    /\ pc[q] \in Busy \cup {"done"} /\ endedBy[q] # q
    /\ adapter[s] = adapter[q] /\ Settled(s)

OneResult ==
    /\ \A s \in Rounds : Once(s)
    /\ \A s, t \in Rounds : s # t => Holds(s) \cap Holds(t) = {}

Together == \A q, r \in Rounds :
    q # r /\ pc[q] \in Busy /\ pc[r] \in Busy /\ adapter[q] = adapter[r] => r \in beside

Endings == \A q \in Rounds : endedBy[q] # Nothing => pc[q] = "done"

Precedes(q, r, x) == \A j \in 1 .. Len(q) : q[j] = x => \E i \in 1 .. j - 1 : q[i] = r

\* In session s, the result of r is read before that of x.
InOrder(s, r, x) ==
    /\ Precedes(messages[s], r, x)
    /\ hand[s] = x => r \in Elements(messages[s])
    /\ Precedes(inputs[s], r, x) \/ hand[s] = r \/ r \in Elements(messages[s])

Order == \A x \in Sends, s \in Rounds : \A r \in awaited[x] \ beside :
    pc[r] \in Busy /\ x \in Holds(s) => InOrder(s, r, x)

\* What is known of further inputs that were sent, and of those that were not.
Known == \A x \in Sends :
    /\ \A r \in awaited[x] : pc[r] \in Busy \cup {"done"}
    /\ sending[x] # Nothing => x \notin sent
    /\ x \notin sent =>
          /\ \A s \in Rounds : x \notin Holds(s)
          /\ \A q \in Rounds : endedBy[q] # x

OwnInv ==
    /\ Homes /\ Channels /\ Results /\ OneResult /\ Together /\ Endings
    /\ Order /\ Known /\ ResultsAreOwn

\* Sessions, pumps and their inputs: a pump that is cancelled has a session that is
\* over, a session that is over has no inputs, and a pump has a result in hand only
\* while it sends it.
Running == \A s \in Rounds :
    /\ (s \in stopped \/ pump[s] # "none" \/ \E c \in Rounds : session[c] = s) => Settled(s)
    /\ s \in stopped => process[s] = "over"
    /\ process[s] # "open" => inputs[s] = <<>>
    /\ hand[s] # Nothing => pump[s] = "send"

---------------------------------------------------------------------------
(* Results: sequences without repetition.                                  *)

LEMMA EmptyElements == Elements(<<>>) = {} /\ Distinct(<<>>)
  BY DEF Elements, Distinct

LEMMA ElementsType == ASSUME NEW S, NEW q \in Seq(S) PROVE Elements(q) \subseteq S
  BY DEF Elements

LEMMA TailElements ==
    ASSUME NEW S, NEW q \in Seq(S), q # <<>>, Distinct(q)
    PROVE  /\ Head(q) \in Elements(q)
           /\ Elements(Tail(q)) = Elements(q) \ {Head(q)}
           /\ Distinct(Tail(q))
<1>1. Len(q) \in Nat \ {0} /\ Head(q) = q[1]
  OBVIOUS
<1>2. Len(Tail(q)) = Len(q) - 1 /\ \A i \in 1 .. Len(q) - 1 : Tail(q)[i] = q[i + 1]
  OBVIOUS
<1>3. Head(q) \in Elements(q)
  BY <1>1 DEF Elements
<1>4. ASSUME NEW x \in Elements(Tail(q)) PROVE x \in Elements(q) \ {Head(q)}
  <2>1. PICK i \in 1 .. Len(q) - 1 : x = q[i + 1]
    BY <1>2 DEF Elements
  <2>2. i + 1 \in 1 .. Len(q) /\ i + 1 # 1 /\ 1 \in 1 .. Len(q)
    BY <1>1
  <2>3. q[i + 1] # q[1]
    BY <2>2 DEF Distinct
  <2>4. QED
    BY <1>1, <2>1, <2>2, <2>3 DEF Elements
<1>5. ASSUME NEW i \in 1 .. Len(Tail(q)), NEW j \in 1 .. Len(Tail(q)), Tail(q)[i] = Tail(q)[j]
      PROVE  i = j
  <2>1. i + 1 \in 1 .. Len(q) /\ j + 1 \in 1 .. Len(q) /\ q[i + 1] = q[j + 1]
    BY <1>1, <1>2, <1>5
  <2>2. i + 1 = j + 1
    BY <2>1 DEF Distinct
  <2>3. QED
    BY <1>1, <1>2, <2>2
<1>6. ASSUME NEW x \in Elements(q), x # Head(q) PROVE x \in Elements(Tail(q))
  <2>1. PICK i \in 1 .. Len(q) : x = q[i]
    BY DEF Elements
  <2>2. i - 1 \in 1 .. Len(q) - 1 /\ (i - 1) + 1 = i
    BY <1>1, <1>6, <2>1
  <2>3. Tail(q)[i - 1] = x
    BY <1>2, <2>1, <2>2
  <2>4. QED
    BY <1>2, <2>2, <2>3 DEF Elements
<1>7. QED
  BY <1>3, <1>4, <1>5, <1>6 DEF Distinct

LEMMA AppendElements ==
    ASSUME NEW S, NEW q \in Seq(S), NEW x \in S
    PROVE  /\ Elements(Append(q, x)) = Elements(q) \cup {x}
           /\ Distinct(q) /\ x \notin Elements(q) => Distinct(Append(q, x))
<1>1. /\ Len(q) \in Nat
      /\ Len(Append(q, x)) = Len(q) + 1 /\ Append(q, x)[Len(q) + 1] = x
      /\ \A i \in 1 .. Len(q) : Append(q, x)[i] = q[i]
  OBVIOUS
<1>2. 1 .. Len(q) + 1 = (1 .. Len(q)) \cup {Len(q) + 1}
  BY <1>1
<1>3. Elements(Append(q, x)) = Elements(q) \cup {x}
  BY <1>1, <1>2 DEF Elements
<1>4. ASSUME Distinct(q), x \notin Elements(q),
             NEW i \in 1 .. Len(q) + 1, NEW j \in 1 .. Len(q) + 1,
             Append(q, x)[i] = Append(q, x)[j]
      PROVE  i = j
  <2>1. \A k \in 1 .. Len(q) : q[k] # x
    BY <1>4 DEF Elements
  <2>2. QED
    BY <1>1, <1>2, <1>4, <2>1 DEF Distinct
<1>5. QED
  BY <1>1, <1>3, <1>4 DEF Distinct

LEMMA EmptyPrecedes == ASSUME NEW r, NEW x PROVE Precedes(<<>>, r, x)
  BY DEF Precedes

LEMMA HeadPrecedes ==
    ASSUME NEW S, NEW q \in Seq(S), q # <<>>, NEW r, NEW x, Precedes(q, r, x)
    PROVE  Head(q) # x
<1>1. 1 \in 1 .. Len(q) /\ Head(q) = q[1] /\ 1 .. 1 - 1 = {}
  OBVIOUS
<1>2. QED
  BY <1>1 DEF Precedes

LEMMA TailPrecedes ==
    ASSUME NEW S, NEW q \in Seq(S), q # <<>>, NEW r, NEW x, Precedes(q, r, x), Head(q) # r
    PROVE  Precedes(Tail(q), r, x)
<1>1. Len(q) \in Nat \ {0} /\ Head(q) = q[1]
  OBVIOUS
<1>2. Len(Tail(q)) = Len(q) - 1 /\ \A i \in 1 .. Len(q) - 1 : Tail(q)[i] = q[i + 1]
  OBVIOUS
<1>3. ASSUME NEW j \in 1 .. Len(Tail(q)), Tail(q)[j] = x
      PROVE  \E i \in 1 .. j - 1 : Tail(q)[i] = r
  <2>1. j + 1 \in 1 .. Len(q) /\ q[j + 1] = x
    BY <1>1, <1>2, <1>3
  <2>2. PICK i \in 1 .. (j + 1) - 1 : q[i] = r
    BY <2>1 DEF Precedes
  <2>3. i # 1
    BY <1>1, <2>2
  <2>4. i - 1 \in 1 .. j - 1 /\ i - 1 \in 1 .. Len(q) - 1 /\ (i - 1) + 1 = i
    BY <1>1, <1>2, <1>3, <2>2, <2>3
  <2>5. Tail(q)[i - 1] = r
    BY <1>2, <2>2, <2>4
  <2>6. QED
    BY <2>4, <2>5
<1>4. QED
  BY <1>3 DEF Precedes

\* An element that is appended comes after those that are there.
LEMMA AppendPrecedes ==
    ASSUME NEW S, NEW q \in Seq(S), NEW y \in S, NEW r, NEW x, Precedes(q, r, x),
           y = x => r \in Elements(q)
    PROVE  Precedes(Append(q, y), r, x)
<1>1. /\ Len(q) \in Nat
      /\ Len(Append(q, y)) = Len(q) + 1 /\ Append(q, y)[Len(q) + 1] = y
      /\ \A i \in 1 .. Len(q) : Append(q, y)[i] = q[i]
  OBVIOUS
<1>2. ASSUME NEW j \in 1 .. Len(q) + 1, Append(q, y)[j] = x
      PROVE  \E i \in 1 .. j - 1 : Append(q, y)[i] = r
  <2>1. CASE j = Len(q) + 1
    <3>1. PICK i \in 1 .. Len(q) : q[i] = r
      BY <1>1, <1>2, <2>1 DEF Elements
    <3>2. QED
      BY <1>1, <2>1, <3>1
  <2>2. CASE j # Len(q) + 1
    <3>1. j \in 1 .. Len(q) /\ q[j] = x
      BY <1>1, <1>2, <2>2
    <3>2. PICK i \in 1 .. j - 1 : q[i] = r
      BY <3>1 DEF Precedes
    <3>3. i \in 1 .. Len(q)
      BY <1>1, <3>1, <3>2
    <3>4. QED
      BY <1>1, <3>2, <3>3
  <2>3. QED
    BY <2>1, <2>2
<1>3. QED
  BY <1>1, <1>2 DEF Precedes

LEMMA AbsentPrecedes ==
    ASSUME NEW q, NEW r, NEW x, x \notin Elements(q)
    PROVE  Precedes(q, r, x)
  BY DEF Precedes, Elements

---------------------------------------------------------------------------
(* Results: steps that bring nothing new.                                  *)

Ahead == \A s \in Rounds : Settled(s) => Settled(s)' /\ adapter'[s] = adapter[s]

\* Rounds go on or end without a result.
Calm ==
    /\ Ahead
    /\ \A r, s \in Rounds : channel'[r] = s => channel[r] = s /\ pc'[r] \in {"reading", "abort"}
    /\ \A q \in Rounds :
          /\ pc'[q] \in Busy => pc[q] \in Busy
          /\ pc[q] \in Busy => pc'[q] \in Busy \cup {"done"}
          /\ pc[q] = "done" => pc'[q] = "done" /\ endedBy'[q] = endedBy[q]
          /\ endedBy'[q] \in {endedBy[q], Nothing}
    /\ beside' = beside /\ UNCHANGED sends

\* No adapter gets a session.
NoNewHome == \A c, s \in Rounds : session'[c] = s => session[c] = s

\* Rounds that still want their own result.
Wants(r) == pc[r] \in Busy /\ r \notin beside

\* No session gets an input, none is answered twice, and the order stays.
Fewer == \A s \in Rounds :
    /\ Holds(s)' \subseteq Holds(s) /\ Once(s)'
    /\ \A r \in Rounds, x \in Sends :
          Wants(r)' /\ x \in Holds(s)' /\ InOrder(s, r, x) => InOrder(s, r, x)'

LEMMA CalmOthers ==
    ASSUME Types, OwnInv, Calm, Fewer
    PROVE  /\ Channels' /\ Results' /\ OneResult' /\ Together' /\ Endings'
           /\ Order' /\ Known' /\ ResultsAreOwn'
<1>1. Channels'
  <2>1. ASSUME NEW r \in Rounds, NEW s \in Rounds, channel'[r] = s
        PROVE  pc'[r] \in {"reading", "abort"} /\ adapter'[s] = adapter'[r] /\ Settled(s)'
    <3>1. channel[r] = s /\ pc'[r] \in {"reading", "abort"}
      BY <2>1 DEF Calm
    <3>2. pc[r] \in {"reading", "abort"} /\ adapter[s] = adapter[r] /\ Settled(s)
      BY <3>1 DEF OwnInv, Channels
    <3>3. Settled(r)
      BY <3>2 DEF Settled, Busy
    <3>4. QED
      BY <3>1, <3>2, <3>3 DEF Calm, Ahead
  <2>2. QED
    BY <2>1 DEF Channels
<1>2. Results'
  <2>1. ASSUME NEW s \in Rounds, NEW q \in Rounds, q \in Holds(s)'
        PROVE  /\ pc'[q] \in Busy \cup {"done"} /\ endedBy'[q] # q
               /\ adapter'[s] = adapter'[q] /\ Settled(s)'
    <3>1. q \in Holds(s)
      BY <2>1 DEF Fewer
    <3>2. pc[q] \in Busy \cup {"done"} /\ endedBy[q] # q /\ adapter[s] = adapter[q] /\ Settled(s)
      BY <3>1 DEF OwnInv, Results
    <3>3. Settled(q)
      BY <3>2 DEF Settled
    <3>4. QED
      BY <3>2, <3>3 DEF Calm, Ahead
  <2>2. QED
    BY <2>1 DEF Results
<1>3. OneResult'
  BY DEF OwnInv, OneResult, Fewer
<1>4. Together'
  <2>1. ASSUME NEW q \in Rounds, NEW r \in Rounds, q # r, pc'[q] \in Busy, pc'[r] \in Busy,
               adapter'[q] = adapter'[r]
        PROVE  r \in beside'
    <3>1. pc[q] \in Busy /\ pc[r] \in Busy
      BY <2>1 DEF Calm
    <3>2. adapter[q] = adapter[r]
      BY <2>1, <3>1 DEF Calm, Ahead, Settled
    <3>3. QED
      BY <2>1, <3>1, <3>2 DEF Calm, OwnInv, Together
  <2>2. QED
    BY <2>1 DEF Together
<1>5. Endings'
  BY DEF OwnInv, Endings, Calm
<1>6. ResultsAreOwn'
  BY InputTypes DEF OwnInv, ResultsAreOwn, Calm, sends
<1>7. Order'
  <2>1. ASSUME NEW x \in Sends, NEW s \in Rounds, NEW r \in awaited'[x] \ beside',
               pc'[r] \in Busy, x \in Holds(s)'
        PROVE  InOrder(s, r, x)'
    <3>1. r \in Rounds /\ r \in awaited[x] \ beside /\ pc[r] \in Busy
      BY <2>1 DEF Calm, sends, Types, ManagerType, SendType
    <3>2. x \in Holds(s)
      BY <2>1 DEF Fewer
    <3>3. InOrder(s, r, x)
      BY <3>1, <3>2 DEF OwnInv, Order
    <3>4. QED
      BY <2>1, <3>1, <3>3 DEF Fewer, Wants
  <2>2. QED
    BY <2>1 DEF Order
<1>8. Known'
  BY InputTypes DEF OwnInv, Known, Calm, Fewer, sends, Types, ManagerType, SendType, Busy
<1>9. QED
  BY <1>1, <1>2, <1>3, <1>4, <1>5, <1>6, <1>7, <1>8

LEMMA CalmKeeps ==
    ASSUME Types, OwnInv, Calm, NoNewHome, Fewer
    PROVE  OwnInv'
<1>1. Homes'
  BY DEF OwnInv, Homes, Calm, Ahead, NoNewHome
<1>2. QED
  BY <1>1, CalmOthers DEF OwnInv

\* A round on the way to its client.
LEMMA MovesCalm ==
    ASSUME Types, OwnInv, NEW r \in Rounds, NEW from, NEW to, Moves(r, from, to),
           from \notin {"query", "done"} \cup Busy, to \notin {"done"} \cup Busy,
           \A q \in Rounds \ {r} : adapter'[q] = adapter[q],
           UNCHANGED <<channel, endedBy, beside, sends>>
    PROVE  Calm
<1>1. /\ pc[r] = from /\ ~Settled(r)
      /\ pc'[r] = to /\ \A q \in Rounds : q # r => pc'[q] = pc[q]
  BY DEF Moves, Types, RoundType, Settled
<1>2. Ahead
  BY <1>1 DEF Ahead, Settled
<1>3. \A q, s \in Rounds : channel'[q] = s => channel[q] = s /\ pc'[q] \in {"reading", "abort"}
  BY <1>1 DEF OwnInv, Channels, Settled, Busy
<1>4. QED
  BY <1>1, <1>2, <1>3 DEF Calm

LEMMA EndsCalm ==
    ASSUME Types, OwnInv, NEW r \in Rounds, Ends(r, Nothing), pc[r] # "done"
    PROVE  Calm
<1>1. /\ pc'[r] = "done" /\ endedBy'[r] = Nothing /\ channel'[r] = Nothing
      /\ \A q \in Rounds : q # r =>
            pc'[q] = pc[q] /\ endedBy'[q] = endedBy[q] /\ channel'[q] = channel[q]
      /\ UNCHANGED <<adapter, beside, sends>>
  BY DEF Ends, manager, Types, RoundType, HistoryType
<1>2. Ahead
  BY <1>1 DEF Ahead, Settled
<1>3. \A q, s \in Rounds : channel'[q] = s => channel[q] = s /\ pc'[q] \in {"reading", "abort"}
  BY <1>1 DEF OwnInv, Channels
<1>4. QED
  BY <1>1, <1>2, <1>3 DEF Calm, Busy

LEMMA SameCalm ==
    ASSUME OwnInv, UNCHANGED <<pc, adapter, channel, endedBy, beside, sends>>
    PROVE  Calm
<1>1. \A q, s \in Rounds : channel'[q] = s => channel[q] = s /\ pc'[q] \in {"reading", "abort"}
  BY DEF OwnInv, Channels
<1>2. QED
  BY <1>1 DEF Calm, Ahead, Settled

---------------------------------------------------------------------------
(* Results: sessions, pumps and channels.                                  *)

LEMMA SameFewer == ASSUME OwnInv, UNCHANGED <<inputs, hand, messages>> PROVE Fewer
  BY DEF OwnInv, OneResult, Fewer, Once, Holds, InOrder

LEMMA OverFewer ==
    ASSUME Types, OwnInv, NEW s, Over(s), UNCHANGED <<hand, messages>>
    PROVE  Fewer
<1>1. ASSUME NEW q \in Rounds
      PROVE  /\ Holds(q)' \subseteq Holds(q) /\ Once(q)'
             /\ \A r, x : InOrder(q, r, x) => InOrder(q, r, x)'
  <2>1. inputs'[q] = <<>> \/ inputs'[q] = inputs[q]
    BY DEF Over, Types, SdkType
  <2>2. Elements(inputs'[q]) \subseteq Elements(inputs[q]) /\ Distinct(inputs'[q])
    BY <2>1, EmptyElements DEF OwnInv, OneResult, Once
  <2>3. Holds(q)' \subseteq Holds(q) /\ Once(q)'
    BY <2>2 DEF OwnInv, OneResult, Once, Holds
  <2>4. \A r, x : InOrder(q, r, x) => InOrder(q, r, x)'
    BY <2>1, EmptyPrecedes DEF InOrder
  <2>5. QED
    BY <2>3, <2>4
<1>2. QED
  BY <1>1 DEF Fewer

LEMMA MarkFewer ==
    ASSUME Types, OwnInv, NEW c, NEW s, markDisconnected(c, s), UNCHANGED <<hand, messages>>
    PROVE  Fewer /\ NoNewHome
<1>1. CASE UNCHANGED sdk
  BY <1>1, SameFewer DEF sdk, NoNewHome
<1>2. CASE session' = [session EXCEPT ![c] = Nothing] /\ Over(s)
  BY <1>2, OverFewer DEF NoNewHome, Types, SdkType
<1>3. QED
  BY <1>1, <1>2 DEF markDisconnected

LEMMA DisconnectFewer ==
    ASSUME Types, OwnInv, NEW c, Disconnect(c), UNCHANGED <<hand, messages>>
    PROVE  Fewer /\ NoNewHome
<1>1. session' = [session EXCEPT ![c] = Nothing] /\ Over(session[c])
  BY DEF Disconnect
<1>2. QED
  BY <1>1, OverFewer DEF NoNewHome, Types, SdkType

\* Only the queues of one session change.
LEMMA OneFewer ==
    ASSUME OwnInv, NEW s \in Rounds, Holds(s)' \subseteq Holds(s), Once(s)',
           \A r \in Rounds, x \in Sends :
              Wants(r)' /\ x \in Holds(s)' /\ InOrder(s, r, x) => InOrder(s, r, x)',
           \A q \in Rounds \ {s} :
              inputs'[q] = inputs[q] /\ hand'[q] = hand[q] /\ messages'[q] = messages[q]
    PROVE  Fewer
<1>1. ASSUME NEW q \in Rounds, q # s
      PROVE  /\ Holds(q)' = Holds(q) /\ Once(q)'
             /\ \A r, x : InOrder(q, r, x) => InOrder(q, r, x)'
  BY <1>1 DEF OwnInv, OneResult, Once, Holds, InOrder
<1>2. QED
  BY <1>1 DEF Fewer

\* The round that reads takes the answer away from the channel.  The answer is its
\* own, or that of a round that has ended or knows of the reader.
LEMMA ReadsFewer ==
    ASSUME Types, OwnInv, NEW r \in Rounds, Reads(r), NEW by, Ends(r, by)
    PROVE  /\ Fewer /\ channel[r] \in Rounds
           /\ Head(messages[channel[r]]) \in Holds(channel[r]) \cap Inputs
           /\ \A q \in Rounds : Head(messages[channel[r]]) \notin Holds(q)'
<1>1. PICK s \in Rounds : s = channel[r] /\ messages[s] \in Seq(Inputs) /\ messages[s] # <<>>
  BY DEF Reads, Types, RoundType, PumpType, Maybe
<1>2. PICK h \in Inputs : h = Head(messages[s])
  BY <1>1
<1>3. /\ messages'[s] = Tail(messages[s]) /\ \A q \in Rounds \ {s} : messages'[q] = messages[q]
      /\ UNCHANGED <<inputs, hand>>
  BY <1>1 DEF Reads, Types, PumpType, sdk
<1>4. Once(s)
  BY DEF OwnInv, OneResult
<1>5. /\ h \in Elements(messages[s])
      /\ Elements(messages'[s]) = Elements(messages[s]) \ {h}
      /\ Distinct(messages'[s])
  BY <1>1, <1>2, <1>3, <1>4, TailElements DEF Once
<1>6. h \in Holds(s) /\ Holds(s)' \subseteq Holds(s) \ {h}
  BY <1>2, <1>3, <1>4, <1>5, InputTypes DEF Holds, Once
<1>7. Once(s)'
  BY <1>3, <1>4, <1>5 DEF Once
<1>8. \A q \in Rounds : Wants(q)' => q # h
  <2>1. ASSUME NEW q \in Rounds, Wants(q)', q = h PROVE FALSE
    <3>1. pc'[r] = "done" /\ (q = r \/ pc'[q] = pc[q])
      BY DEF Ends, Types, RoundType
    <3>2. q # r /\ pc[q] \in Busy /\ q \notin beside
      BY <2>1, <3>1 DEF Wants, Busy, Ends, Types, RoundType
    <3>3. adapter[s] = adapter[q]
      BY <1>6, <2>1 DEF OwnInv, Results
    <3>4. adapter[s] = adapter[r] /\ pc[r] \in Busy
      BY <1>1 DEF OwnInv, Channels, Reads, Busy
    <3>5. QED
      BY <3>2, <3>3, <3>4 DEF OwnInv, Together
  <2>2. QED
    BY <2>1
<1>9. ASSUME NEW q \in Rounds, NEW x \in Sends, Wants(q)', InOrder(s, q, x)
      PROVE  InOrder(s, q, x)'
  <2>1. Head(messages[s]) # q
    BY <1>2, <1>8, <1>9
  <2>2. Precedes(messages'[s], q, x)
    BY <1>1, <1>3, <1>9, <2>1, TailPrecedes DEF InOrder
  <2>3. q \in Elements(messages[s]) => q \in Elements(messages'[s])
    BY <1>2, <1>5, <2>1
  <2>4. QED
    BY <1>3, <1>9, <2>2, <2>3 DEF InOrder
<1>10. Fewer
  BY <1>3, <1>6, <1>7, <1>9, OneFewer
<1>11. \A q \in Rounds : h \notin Holds(q)'
  BY <1>6, <1>10 DEF OwnInv, OneResult, Fewer
<1>12. QED
  BY <1>1, <1>2, <1>6, <1>10, <1>11

---------------------------------------------------------------------------
(* Results: sessions and pumps that run.                                   *)

\* What a step must keep that starts no session and no pump.
LEMMA StayRunning ==
    ASSUME Running,
           \A s \in Rounds : Settled(s) => Settled(s)',
           \A c, s \in Rounds : session'[c] = s => session[c] = s,
           \A s \in Rounds :
              /\ s \in stopped' =>
                    \/ s \in stopped
                    \/ process'[s] = "over" /\ \E c \in Rounds : session[c] = s
              /\ process[s] = "over" => process'[s] = "over"
              /\ inputs'[s] = <<>> \/ (inputs'[s] = inputs[s] /\ process'[s] = process[s])
              /\ hand'[s] = hand[s] /\ pump'[s] = pump[s]
    PROVE  Running'
  BY DEF Running

LEMMA OverStops ==
    ASSUME Types, NEW s, Over(s)
    PROVE  /\ \A q \in Rounds :
                 /\ process[q] = "over" => process'[q] = "over"
                 /\ inputs'[q] = <<>> \/ (inputs'[q] = inputs[q] /\ process'[q] = process[q])
           /\ s \in Rounds => process'[s] = "over" /\ inputs'[s] = <<>>
  BY DEF Over, Types, SdkType

LEMMA DisconnectRunning ==
    ASSUME Types, Running, NEW c \in Rounds, Disconnect(c), UNCHANGED <<pump, hand>>,
           \A s \in Rounds : Settled(s) => Settled(s)'
    PROVE  Running'
<1>1. Over(session[c]) /\ session' = [session EXCEPT ![c] = Nothing]
      /\ stopped' = stopped \cup ({session[c]} \ {Nothing})
  BY DEF Disconnect
<1>2. \A d, s \in Rounds : session'[d] = s => session[d] = s
  BY <1>1 DEF Types, SdkType
<1>3. QED
  BY <1>1, <1>2, OverStops, StayRunning

LEMMA SettledStays ==
    ASSUME Types, NEW r \in Rounds, NEW from, NEW to, Moves(r, from, to),
           from \notin {"query", "done"} \cup Busy \/ to \in {"query", "done"} \cup Busy
    PROVE  \A s \in Rounds : Settled(s) => Settled(s)'
  BY DEF Moves, Settled, Types, RoundType

LEMMA SettledEnds ==
    ASSUME Types, NEW r \in Rounds, NEW by, Ends(r, by)
    PROVE  \A s \in Rounds : Settled(s) => Settled(s)'
  BY DEF Ends, Settled, Types, RoundType

\* Nothing of it changes.
LEMMA SameRunning ==
    ASSUME Running, \A s \in Rounds : Settled(s) => Settled(s)',
           UNCHANGED <<session, process, inputs, pump, hand, stopped>>
    PROVE  Running'
  BY StayRunning

LEMMA MarkRunning ==
    ASSUME Types, NEW c, NEW s, markDisconnected(c, s)
    PROVE  /\ \A d, q \in Rounds : session'[d] = q => session[d] = q
           /\ \A q \in Rounds :
                 /\ process[q] = "over" => process'[q] = "over"
                 /\ inputs'[q] = <<>> \/ (inputs'[q] = inputs[q] /\ process'[q] = process[q])
<1>1. CASE UNCHANGED sdk
  BY <1>1 DEF sdk
<1>2. CASE session' = [session EXCEPT ![c] = Nothing] /\ Over(s)
  <2>1. \A d, q \in Rounds : session'[d] = q => session[d] = q
    BY <1>2 DEF Types, SdkType
  <2>2. QED
    BY <1>2, <2>1, OverStops
<1>3. QED
  BY <1>1, <1>2 DEF markDisconnected

LEMMA AcquireRunning ==
    ASSUME Types, Running, NEW r \in Rounds, AcquireStep(r)
    PROVE  Running'
<1>1. CASE \/ GetOrCreate(r) \/ Reconfigure(r) \/ ReconfigureSucceeds(r) \/ TakeReplaced(r)
           \/ replaceDisconnectedClient(r) \/ Connect(r)
  <2>1. \A s \in Rounds : Settled(s) => Settled(s)'
    BY <1>1, SettledStays DEF GetOrCreate, Reconfigure, ReconfigureSucceeds, TakeReplaced,
                replaceDisconnectedClient, Connect, Busy
  <2>2. UNCHANGED <<session, process, inputs, pump, hand, stopped>>
    BY <1>1 DEF GetOrCreate, Reconfigure, ReconfigureSucceeds, TakeReplaced,
                replaceDisconnectedClient, Connect, sdk, pumps
  <2>3. QED
    BY <2>1, <2>2, SameRunning
<1>2. CASE ReconfigureDisconnected(r)
  <2>1. \A s \in Rounds : Settled(s) => Settled(s)'
    BY <1>2, SettledStays DEF ReconfigureDisconnected, Busy
  <2>2. markDisconnected(adapter[r], using[r]) /\ UNCHANGED <<pump, hand, stopped>>
    BY <1>2 DEF ReconfigureDisconnected, pumps
  <2>3. QED
    BY <2>1, <2>2, MarkRunning, StayRunning
<1>3. CASE DisconnectStale(r)
  <2>1. \A s \in Rounds : Settled(s) => Settled(s)'
    BY <1>3, SettledStays DEF DisconnectStale, Busy
  <2>2. adapter[r] \in Rounds /\ Disconnect(adapter[r]) /\ UNCHANGED <<pump, hand>>
    BY <1>3, AdapterType DEF DisconnectStale, Moves
  <2>3. QED
    BY <2>1, <2>2, DisconnectRunning
<1>4. CASE NewSession(r)
  <2>1. \A s \in Rounds : Settled(s) => Settled(s)'
    BY <1>4, SettledStays DEF NewSession, Busy
  <2>2. ~Settled(r)
    BY <1>4 DEF NewSession, Moves, Settled, Busy
  <2>3. /\ UNCHANGED <<session, inputs, pump, hand, stopped>>
        /\ \A s \in Rounds \ {r} : process'[s] = process[s]
    BY <1>4 DEF NewSession, pumps, Types, SdkType
  <2>4. process'[r] = "open"
    BY <1>4 DEF NewSession, Types, SdkType
  <2>5. QED
    BY <2>1, <2>2, <2>3, <2>4 DEF Running
<1>5. CASE ConnectInstalls(r)
  <2>1. \A s \in Rounds : Settled(s) => Settled(s)'
    BY <1>5, SettledStays DEF ConnectInstalls, Busy
  <2>2. ~Settled(r) /\ Settled(r)'
    BY <1>5 DEF ConnectInstalls, Moves, Settled, Busy, Types, RoundType
  <2>3. /\ session' = [session EXCEPT ![adapter[r]] = r]
        /\ UNCHANGED <<process, inputs, hand, stopped>>
        /\ pump' = [pump EXCEPT ![r] = "recv"]
    BY <1>5 DEF ConnectInstalls
  <2>4. hand[r] = Nothing
    BY <2>2 DEF Running
  <2>5. \A c, s \in Rounds : session'[c] = s => session[c] = s \/ s = r
    BY <2>3 DEF Types, SdkType
  <2>6. \A s \in Rounds : s # r => pump'[s] = pump[s]
    BY <2>3 DEF Types, PumpType
  <2>7. QED
    BY <2>1, <2>2, <2>3, <2>4, <2>5, <2>6 DEF Running
<1>6. CASE AcquireFails(r)
  <2>1. \A s \in Rounds : Settled(s) => Settled(s)'
    BY <1>6, SettledEnds DEF AcquireFails
  <2>2. UNCHANGED <<pump, hand>>
    BY <1>6 DEF AcquireFails
  <2>3. CASE UNCHANGED <<sdk, stopped>>
    BY <2>1, <2>2, <2>3, SameRunning DEF sdk
  <2>4. CASE pc[r] = "drop" /\ Disconnect(adapter[r])
    BY <2>1, <2>2, <2>4, AdapterType, DisconnectRunning
  <2>5. QED
    BY <1>6, <2>3, <2>4 DEF AcquireFails
<1>7. QED
  BY <1>1, <1>2, <1>3, <1>4, <1>5, <1>6 DEF AcquireStep

LEMMA ExecuteRunning ==
    ASSUME Types, Running, NEW r \in Rounds, ExecuteStep(r) \/ LeavesStream(r) \/ IdleTimeout(r)
    PROVE  Running'
<1>1. CASE Query(r)
  <2>1. \A s \in Rounds : Settled(s) => Settled(s)'
    BY <1>1, SettledStays DEF Query, Busy
  <2>2. /\ UNCHANGED <<session, process, pump, hand, stopped>>
        /\ \A s \in Rounds : process[s] # "open" => inputs'[s] = inputs[s]
    BY <1>1 DEF Query, pumps, Types, SdkType
  <2>3. QED
    BY <2>1, <2>2 DEF Running
<1>2. CASE abortRoundClientAfterIdleTimeout(r)
  <2>1. \A s \in Rounds : Settled(s) => Settled(s)'
    BY <1>2, SettledEnds DEF abortRoundClientAfterIdleTimeout
  <2>2. adapter[r] \in Rounds /\ Disconnect(adapter[r]) /\ UNCHANGED <<pump, hand>>
    BY <1>2, AdapterType DEF abortRoundClientAfterIdleTimeout
  <2>3. QED
    BY <2>1, <2>2, DisconnectRunning
<1>3. CASE ReceiveMessages(r) \/ IdleTimeout(r)
  <2>1. \A s \in Rounds : Settled(s) => Settled(s)'
    BY <1>3, SettledStays DEF ReceiveMessages, IdleTimeout, Busy
  <2>2. QED
    BY <1>3, <2>1, SameRunning DEF ReceiveMessages, IdleTimeout, sdk, pumps
<1>4. CASE \/ QueryFails(r) \/ ReadResult(r) \/ ReadFails(r) \/ StreamClosed(r)
           \/ LeavesStream(r)
  <2>1. \A s \in Rounds : Settled(s) => Settled(s)'
    BY <1>4, SettledEnds DEF QueryFails, ReadResult, ReadFails, StreamClosed, LeavesStream
  <2>2. UNCHANGED <<session, process, inputs, pump, hand, stopped>>
    BY <1>4 DEF QueryFails, ReadResult, ReadFails, Reads, StreamClosed, LeavesStream, sdk, pumps
  <2>3. QED
    BY <2>1, <2>2, SameRunning
<1>5. QED
  BY <1>1, <1>2, <1>3, <1>4 DEF ExecuteStep

LEMMA PumpRunning ==
    ASSUME Types, Running, NEW s \in Rounds, PumpStep(s) \/ SdkStep(s)
    PROVE  Running'
<1>1. \A q \in Rounds : Settled(q) => Settled(q)'
  BY DEF PumpStep, SdkStep, PumpSends, PumpEnds, SdkAnswers, SdkEnds, Settled
<1>2. CASE SdkAnswers(s)
  <2>1. /\ UNCHANGED <<session, process, stopped>> /\ process[s] = "open"
        /\ pump'[s] = "send" /\ pump[s] = "recv"
        /\ \A q \in Rounds \ {s} : pump'[q] = pump[q] /\ hand'[q] = hand[q] /\ inputs'[q] = inputs[q]
    BY <1>2 DEF SdkAnswers, Types, SdkType, PumpType
  <2>2. QED
    BY <1>1, <2>1 DEF Running
<1>3. CASE PumpSends(s)
  <2>1. /\ UNCHANGED <<session, process, inputs, stopped>>
        /\ pump'[s] = "recv" /\ pump[s] = "send" /\ hand'[s] = Nothing
        /\ \A q \in Rounds \ {s} : pump'[q] = pump[q] /\ hand'[q] = hand[q]
    BY <1>3 DEF PumpSends, sdk, Types, PumpType
  <2>2. QED
    BY <1>1, <2>1 DEF Running
<1>4. CASE PumpEnds(s)
  <2>1. /\ pump'[s] = "ended" /\ pump[s] # "none" /\ hand'[s] = Nothing
        /\ \A q \in Rounds \ {s} : pump'[q] = pump[q] /\ hand'[q] = hand[q]
        /\ stopped' = stopped \ {s} /\ markDisconnected(adapter[s], s)
    BY <1>4 DEF PumpEnds, PumpStops, Types, PumpType
  <2>2. QED
    BY <1>1, <2>1, MarkRunning DEF Running
<1>5. CASE SdkEnds(s)
  <2>1. Over(s) /\ UNCHANGED <<session, pump, hand, stopped>>
    BY <1>5 DEF SdkEnds, pumps
  <2>2. QED
    BY <1>1, <2>1, OverStops, StayRunning
<1>6. QED
  BY <1>2, <1>3, <1>4, <1>5 DEF PumpStep, SdkStep

LEMMA CloseRunning ==
    ASSUME Types, Running, NEW x \in Closers, CloseSession(x) \/ CloseDisconnects(x)
    PROVE  Running'
<1>1. \A q \in Rounds : Settled(q) => Settled(q)'
  BY DEF CloseSession, CloseDisconnects, Settled
<1>2. CASE CloseSession(x)
  BY <1>1, <1>2, SameRunning DEF CloseSession, sdk, pumps
<1>3. CASE CloseDisconnects(x)
  <2>1. closing[x].client \in Rounds
    BY <1>3 DEF CloseDisconnects, Types, ManagerType, Maybe
  <2>2. QED
    BY <1>1, <1>3, <2>1, DisconnectRunning DEF CloseDisconnects
<1>4. QED
  BY <1>2, <1>3

LEMMA SendRunning ==
    ASSUME Types, Running, NEW x \in Sends, SendStep(x)
    PROVE  Running'
<1>1. \A q \in Rounds : Settled(q) => Settled(q)'
  BY DEF SendStep, SendTakes, SendContent, SendIsNoTurn, Settled
<1>2. CASE SendTakes(x) \/ SendIsNoTurn(x)
  BY <1>1, <1>2, SameRunning DEF SendTakes, SendIsNoTurn, sdk, pumps
<1>3. CASE SendContent(x)
  <2>1. /\ UNCHANGED <<session, process, pump, hand, stopped>>
        /\ \A s \in Rounds : process[s] # "open" => inputs'[s] = inputs[s]
    BY <1>3 DEF SendContent, pumps, Types, SdkType
  <2>2. QED
    BY <1>1, <2>1 DEF Running
<1>4. QED
  BY <1>2, <1>3 DEF SendStep

LEMMA RunningInit == Init => Running
<1> SUFFICES ASSUME Init PROVE Running
  OBVIOUS
<1>1. ASSUME NEW s \in Rounds, pump[s] # "none" \/ \E c \in Rounds : session[c] = s
      PROVE  Settled(s)
  <2>1. s = First
    BY <1>1 DEF Init
  <2>2. pc[s] = "done"
    BY <2>1 DEF Init
  <2>3. QED
    BY <2>2 DEF Settled
<1>2. /\ stopped = {} /\ inputs = [s \in Rounds |-> <<>>]
      /\ hand = [s \in Rounds |-> Nothing]
  BY DEF Init
<1>3. ASSUME NEW s \in Rounds PROVE s \notin stopped /\ inputs[s] = <<>> /\ hand[s] = Nothing
  BY <1>2
<1>4. \A s \in Rounds : (pump[s] # "none" \/ \E c \in Rounds : session[c] = s) => Settled(s)
  BY <1>1
<1>5. QED
  BY <1>3, <1>4 DEF Running

LEMMA RunningNext == TypeOK /\ Running /\ [Next]_vars => Running'
<1> SUFFICES ASSUME Types, Running, [Next]_vars PROVE Running'
  BY TypesAreTypeOK
<1>1. CASE UNCHANGED vars
  <2>1. UNCHANGED <<pc, session, process, inputs, pump, hand, stopped>>
    BY <1>1 DEF vars, sdk, pumps
  <2>2. QED
    BY <2>1, SameRunning DEF Settled
<1>2. CASE Next
  BY <1>2, AcquireRunning, ExecuteRunning, PumpRunning, CloseRunning, SendRunning DEF Next, SendStep
<1>3. QED
  BY <1>1, <1>2

---------------------------------------------------------------------------
(* Results: sessions, pumps and channels, steps of the pump.               *)

LEMMA PumpOwn ==
    ASSUME Types, OwnInv, Running, NEW s \in Rounds, PumpStep(s) \/ SdkStep(s)
    PROVE  OwnInv'
<1>1. Calm
  BY SameCalm DEF PumpStep, SdkStep, PumpSends, PumpEnds, SdkAnswers, SdkEnds, locals, history,
                  manager
<1>2. Once(s) /\ inputs[s] \in Seq(Inputs) /\ messages[s] \in Seq(Inputs)
  BY DEF OwnInv, OneResult, Types, SdkType, PumpType
<1>3. CASE SdkAnswers(s)
  <2>1. PICK h \in Inputs : h = Head(inputs[s])
    BY <1>2, <1>3 DEF SdkAnswers
  <2>2. /\ inputs'[s] = Tail(inputs[s]) /\ hand'[s] = h /\ UNCHANGED messages
        /\ \A q \in Rounds \ {s} : inputs'[q] = inputs[q] /\ hand'[q] = hand[q]
        /\ inputs[s] # <<>>
    BY <1>3, <2>1 DEF SdkAnswers, Types, SdkType, PumpType
  <2>3. /\ h \in Elements(inputs[s])
        /\ Elements(inputs'[s]) = Elements(inputs[s]) \ {h}
        /\ Distinct(inputs'[s])
    BY <1>2, <2>1, <2>2, TailElements DEF Once
  <2>4. Holds(s)' \subseteq Holds(s) /\ Once(s)'
    BY <1>2, <2>2, <2>3 DEF Holds, Once
  <2>5. NoNewHome
    BY <1>3 DEF SdkAnswers, NoNewHome
  <2>6. hand[s] = Nothing
    BY <1>3 DEF SdkAnswers, Running
  <2>7. ASSUME NEW r \in Rounds, NEW x \in Sends, InOrder(s, r, x) PROVE InOrder(s, r, x)'
    <3>1. hand[s] # r
      BY <2>6
    <3>2. Precedes(inputs[s], r, x) \/ r \in Elements(messages[s])
      BY <2>7, <3>1 DEF InOrder
    <3>3. h = x => r \in Elements(messages[s])
      BY <1>2, <2>1, <2>2, <3>2, HeadPrecedes
    <3>4. Precedes(inputs'[s], r, x) \/ h = r \/ r \in Elements(messages[s])
      BY <1>2, <2>1, <2>2, <3>2, TailPrecedes
    <3>5. QED
      BY <2>2, <2>7, <3>3, <3>4 DEF InOrder
  <2>8. QED
    BY <1>1, <2>2, <2>4, <2>5, <2>7, OneFewer, CalmKeeps
<1>4. CASE PumpSends(s)
  <2>1. PICK h \in Inputs : h = hand[s]
    BY <1>4 DEF PumpSends, Types, PumpType, MaybeInput
  <2>2. /\ messages'[s] = Append(messages[s], h) /\ hand'[s] = Nothing /\ UNCHANGED inputs
        /\ \A q \in Rounds \ {s} : messages'[q] = messages[q] /\ hand'[q] = hand[q]
    BY <1>4, <2>1 DEF PumpSends, Types, PumpType, sdk
  <2>3. h \notin Elements(inputs[s]) \cup Elements(messages[s])
    BY <1>2, <2>1 DEF Once
  <2>4. Elements(messages'[s]) = Elements(messages[s]) \cup {h} /\ Distinct(messages'[s])
    BY <1>2, <2>2, <2>3, AppendElements DEF Once
  <2>5. Nothing \notin Elements(inputs[s]) \cup Elements(messages'[s])
    BY <1>2, <2>4, ElementsType, InputTypes
  <2>6. Holds(s)' \subseteq Holds(s) /\ Once(s)'
    BY <1>2, <2>1, <2>2, <2>3, <2>4, <2>5 DEF Holds, Once
  <2>7. NoNewHome
    BY <1>4 DEF PumpSends, NoNewHome, sdk
  <2>8. ASSUME NEW r \in Rounds, NEW x \in Sends, InOrder(s, r, x) PROVE InOrder(s, r, x)'
    <3>1. Precedes(messages'[s], r, x)
      BY <1>2, <2>1, <2>2, <2>8, AppendPrecedes DEF InOrder
    <3>2. hand[s] = r \/ r \in Elements(messages[s]) => r \in Elements(messages'[s])
      BY <2>1, <2>4
    <3>3. hand'[s] # x
      BY <2>2, InputTypes
    <3>4. QED
      BY <2>2, <2>8, <3>1, <3>2, <3>3 DEF InOrder
  <2>9. QED
    BY <1>1, <2>2, <2>6, <2>7, <2>8, OneFewer, CalmKeeps
<1>5. CASE PumpEnds(s)
  <2>1. /\ hand'[s] = Nothing /\ UNCHANGED messages /\ markDisconnected(adapter[s], s)
        /\ \A q \in Rounds \ {s} : hand'[q] = hand[q]
    BY <1>5 DEF PumpEnds, Types, PumpType
  <2>2. ASSUME NEW q \in Rounds PROVE inputs'[q] = inputs[q] \/ (q = s /\ inputs'[q] = <<>>)
    <3>1. UNCHANGED inputs \/ inputs' = [y \in Rounds |-> IF y = s THEN <<>> ELSE inputs[y]]
      BY <2>1 DEF markDisconnected, Over, sdk
    <3>2. QED
      BY <3>1
  <2>3. Elements(inputs'[s]) \subseteq Elements(inputs[s]) /\ Distinct(inputs'[s])
    BY <1>2, <2>2, EmptyElements DEF Once
  <2>4. Nothing \notin Elements(inputs[s]) \cup Elements(messages[s])
    BY <1>2, ElementsType, InputTypes
  <2>5. Holds(s)' \subseteq Holds(s) /\ Once(s)'
    BY <1>2, <2>1, <2>3, <2>4 DEF Holds, Once
  <2>6. NoNewHome
    BY <2>1 DEF markDisconnected, NoNewHome, sdk, Types, SdkType
  <2>7. hand[s] = Nothing \/ inputs[s] = <<>>
    BY <1>5 DEF PumpEnds, PumpStops, Running
  <2>8. ASSUME NEW r \in Rounds, NEW x \in Sends, InOrder(s, r, x) PROVE InOrder(s, r, x)'
    <3>1. Precedes(messages[s], r, x)
      BY <2>8 DEF InOrder
    <3>2. Precedes(inputs'[s], r, x) \/ r \in Elements(messages[s])
      <4>1. CASE inputs'[s] = <<>>
        BY <4>1, EmptyPrecedes
      <4>2. CASE inputs'[s] = inputs[s] /\ inputs[s] # <<>>
        <5>1. hand[s] # r
          BY <2>7, <4>2
        <5>2. QED
          BY <2>8, <4>2, <5>1 DEF InOrder
      <4>3. QED
        BY <2>2, <4>1, <4>2
    <3>3. hand'[s] # x
      BY <2>1, InputTypes
    <3>4. QED
      BY <2>1, <3>1, <3>2, <3>3 DEF InOrder
  <2>9. QED
    BY <1>1, <2>1, <2>2, <2>5, <2>6, <2>8, OneFewer, CalmKeeps
<1>6. CASE SdkEnds(s)
  <2>1. Over(s) /\ UNCHANGED <<session, hand, messages>>
    BY <1>6 DEF SdkEnds, pumps
  <2>2. QED
    BY <1>1, <2>1, OverFewer, CalmKeeps DEF NoNewHome
<1>7. QED
  BY <1>3, <1>4, <1>5, <1>6 DEF PumpStep, SdkStep

LEMMA CloseOwn ==
    ASSUME Types, OwnInv, NEW x \in Closers, CloseSession(x) \/ CloseDisconnects(x)
    PROVE  OwnInv'
<1>1. Calm
  BY SameCalm DEF CloseSession, CloseDisconnects, locals, history
<1>2. CASE CloseSession(x)
  BY <1>1, <1>2, SameFewer, CalmKeeps DEF CloseSession, NoNewHome, sdk, pumps
<1>3. CASE CloseDisconnects(x)
  BY <1>1, <1>3, DisconnectFewer, CalmKeeps DEF CloseDisconnects
<1>4. QED
  BY <1>2, <1>3

---------------------------------------------------------------------------
(* Results: rounds.                                                        *)

LEMMA AcquireOwn ==
    ASSUME Types, OwnInv, NEW r \in Rounds, AcquireStep(r)
    PROVE  OwnInv'
<1>1. CASE \/ GetOrCreate(r) \/ Reconfigure(r) \/ ReconfigureSucceeds(r) \/ TakeReplaced(r)
           \/ replaceDisconnectedClient(r) \/ Connect(r) \/ NewSession(r)
  <2>1. /\ UNCHANGED <<session, inputs, hand, messages, channel, endedBy, beside, sends>>
        /\ \A q \in Rounds \ {r} : adapter'[q] = adapter[q]
    BY <1>1 DEF GetOrCreate, Reconfigure, ReconfigureSucceeds, TakeReplaced,
                replaceDisconnectedClient, Connect, NewSession, sdk, pumps, history, locals,
                manager, Types, RoundType
  <2>2. \E from \in {"idle", "reconfigure", "controls", "replace", "connect", "open"},
           to \in {"connect", "reconfigure", "controls", "drop", "open", "query", "install"} :
               Moves(r, from, to)
    BY <1>1 DEF GetOrCreate, Reconfigure, ReconfigureSucceeds, TakeReplaced,
                replaceDisconnectedClient, Connect, NewSession
  <2>3. Calm
    BY <2>1, <2>2, MovesCalm DEF Busy
  <2>4. QED
    BY <2>1, <2>3, SameFewer, CalmKeeps DEF NoNewHome
<1>2. CASE ReconfigureDisconnected(r)
  <2>1. Calm
    BY <1>2, MovesCalm DEF ReconfigureDisconnected, Busy, manager
  <2>2. QED
    BY <1>2, <2>1, MarkFewer, CalmKeeps DEF ReconfigureDisconnected, pumps
<1>3. CASE DisconnectStale(r)
  <2>1. \A q \in Rounds \ {r} : adapter'[q] = adapter[q]
    BY <1>3 DEF DisconnectStale, Types, RoundType
  <2>2. Calm
    BY <1>3, <2>1, MovesCalm DEF DisconnectStale, Busy, history, manager
  <2>3. QED
    BY <1>3, <2>2, DisconnectFewer, CalmKeeps DEF DisconnectStale
<1>4. CASE ConnectInstalls(r)
  <2>1. PICK c \in Rounds : c = adapter[r]
    BY <1>4, AdapterType DEF ConnectInstalls, Moves
  <2>2. /\ Moves(r, "install", "query") /\ session' = [session EXCEPT ![c] = r]
        /\ UNCHANGED <<inputs, hand, messages, adapter, channel, endedBy, beside, sends>>
    BY <1>4, <2>1 DEF ConnectInstalls, locals, manager
  <2>3. Calm
    BY <2>2, MovesCalm DEF Busy
  <2>4. Fewer
    BY <2>2, SameFewer
  <2>5. Homes'
    <3>1. ASSUME NEW d \in Rounds, NEW s \in Rounds, session'[d] = s
          PROVE  adapter'[s] = d /\ Settled(s)'
      <4>1. CASE d = c
        <5>1. s = r
          BY <2>2, <3>1, <4>1 DEF Types, SdkType
        <5>2. pc'[r] = "query"
          BY <2>2 DEF Moves, Types, RoundType
        <5>3. QED
          BY <2>1, <2>2, <4>1, <5>1, <5>2 DEF Settled
      <4>2. CASE d # c
        <5>1. session[d] = s
          BY <2>2, <3>1, <4>2
        <5>2. QED
          BY <2>3, <5>1 DEF OwnInv, Homes, Calm, Ahead
      <4>3. QED
        BY <4>1, <4>2
    <3>2. QED
      BY <3>1 DEF Homes
  <2>6. QED
    BY <2>3, <2>4, <2>5, CalmOthers DEF OwnInv
<1>5. CASE AcquireFails(r)
  <2>1. Calm
    BY <1>5, EndsCalm DEF AcquireFails
  <2>2. Fewer /\ NoNewHome
    BY <1>5, SameFewer, DisconnectFewer DEF AcquireFails, sdk, NoNewHome
  <2>3. QED
    BY <2>1, <2>2, CalmKeeps
<1>6. QED
  BY <1>1, <1>2, <1>3, <1>4, <1>5 DEF AcquireStep

LEMMA QueryOwn ==
    ASSUME Types, OwnInv, NEW r \in Rounds, Query(r)
    PROVE  OwnInv'
<1>1. PICK c \in Rounds, s \in Rounds : c = adapter[r] /\ s = session[c]
  BY AdapterType DEF Query, Moves, Types, SdkType, Maybe
<1>2. /\ pc[r] = "query" /\ pc'[r] = "receive"
      /\ \A q \in Rounds : q # r => pc'[q] = pc[q]
      /\ UNCHANGED <<session, hand, messages, adapter, channel, endedBy, sends>>
      /\ inputs'[s] = Append(inputs[s], r)
      /\ \A q \in Rounds : q # s => inputs'[q] = inputs[q]
  BY <1>1 DEF Query, Moves, Types, RoundType, SdkType, pumps, locals, manager
<1>3. inputs[s] \in Seq(Inputs) /\ messages[s] \in Seq(Inputs)
  BY DEF Types, SdkType, PumpType
<1>4. adapter[s] = c /\ Settled(s)
  BY <1>1 DEF OwnInv, Homes
<1>5. Ahead
  BY <1>2 DEF Ahead, Settled, Busy
<1>6. endedBy[r] = Nothing /\ \A q \in Rounds : r \notin Holds(q)
  <2>1. endedBy[r] = Nothing
    BY <1>2 DEF OwnInv, Endings
  <2>2. \A q \in Rounds : r \notin Holds(q)
    BY <1>2 DEF OwnInv, Results, Busy
  <2>3. QED
    BY <2>1, <2>2
<1>7. /\ Elements(inputs'[s]) = Elements(inputs[s]) \cup {r}
      /\ Distinct(inputs'[s])
  BY <1>2, <1>3, <1>6, AppendElements, InputTypes DEF OwnInv, OneResult, Once, Holds
<1>8. Holds(s)' = Holds(s) \cup {r} /\ \A q \in Rounds : q # s => Holds(q)' = Holds(q)
  BY <1>2, <1>7 DEF Holds
<1>9. \A q \in Rounds : Once(q)'
  <2>1. Once(s)'
    BY <1>2, <1>6, <1>7 DEF OwnInv, OneResult, Once, Holds
  <2>2. QED
    BY <1>2, <2>1 DEF OwnInv, OneResult, Once
<1>10. Homes'
  BY <1>2, <1>5 DEF OwnInv, Homes, Ahead
<1>11. Channels'
  <2>1. \A q, t \in Rounds : channel[q] = t => q # r /\ Settled(q)
    BY <1>2 DEF OwnInv, Channels, Settled, Busy
  <2>2. QED
    BY <1>2, <1>5, <2>1 DEF OwnInv, Channels, Ahead
<1>12. Results'
  <2>1. ASSUME NEW t \in Rounds, NEW q \in Rounds, q \in Holds(t)'
        PROVE  /\ pc'[q] \in Busy \cup {"done"} /\ endedBy'[q] # q
               /\ adapter'[t] = adapter'[q] /\ Settled(t)'
    <3>1. CASE q = r
      BY <1>1, <1>2, <1>4, <1>5, <1>6, <1>8, <2>1, <3>1 DEF Ahead, Busy
    <3>2. CASE q # r
      <4>1. q \in Holds(t)
        BY <1>8, <2>1, <3>2
      <4>2. QED
        BY <1>2, <1>5, <3>2, <4>1 DEF OwnInv, Results, Ahead
    <3>3. QED
      BY <3>1, <3>2
  <2>2. QED
    BY <2>1 DEF Results
<1>13. OneResult'
  <2>1. \A q, t \in Rounds : q # t => Holds(q)' \cap Holds(t)' = {}
    BY <1>6, <1>8 DEF OwnInv, OneResult
  <2>2. QED
    BY <1>9, <2>1 DEF OneResult
<1>14. Together' /\ beside \subseteq beside'
  <2>1. \A q \in Rounds : q \in AtWork(c) <=> adapter[q] = c /\ pc[q] \in Busy
    BY DEF AtWork, Busy
  <2>2. beside' = IF AtWork(c) = {} THEN beside ELSE beside \cup AtWork(c) \cup {r}
    BY <1>1 DEF Query
  <2>3. ASSUME NEW q \in Rounds, NEW t \in Rounds, q # t, pc'[q] \in Busy, pc'[t] \in Busy,
               adapter'[q] = adapter'[t]
        PROVE  t \in beside'
    <3>1. CASE q # r /\ t # r
      BY <1>2, <2>2, <2>3, <3>1 DEF OwnInv, Together
    <3>2. CASE q = r
      BY <1>1, <1>2, <2>1, <2>2, <2>3, <3>2
    <3>3. CASE t = r
      BY <1>1, <1>2, <2>1, <2>2, <2>3, <3>3
    <3>4. QED
      BY <3>1, <3>2, <3>3
  <2>4. QED
    BY <2>2, <2>3 DEF Together
<1>15. Endings'
  BY <1>2 DEF OwnInv, Endings
<1>16. ResultsAreOwn'
  BY <1>2, <1>14, InputTypes DEF OwnInv, ResultsAreOwn, sends
<1>17. Known'
  <2>1. \A x \in Sends : x # r
    BY InputTypes
  <2>2. QED
    BY <1>2, <1>8, <2>1 DEF OwnInv, Known, Busy, sends, Types, ManagerType, SendType
<1>18. Order'
  <2>1. ASSUME NEW x \in Sends, NEW t \in Rounds, NEW q \in awaited'[x] \ beside',
               pc'[q] \in Busy, x \in Holds(t)'
        PROVE  InOrder(t, q, x)'
    <3>1. q \in Rounds /\ q \in awaited[x] \ beside
      BY <1>2, <1>14, <2>1 DEF sends, Types, ManagerType, SendType
    <3>2. x # r /\ q # r
      BY <1>2, <3>1, InputTypes DEF OwnInv, Known, Busy
    <3>3. InOrder(t, q, x)
      BY <1>2, <1>8, <2>1, <3>1, <3>2 DEF OwnInv, Order
    <3>4. CASE t = s
      <4>1. Precedes(inputs[s], q, x) => Precedes(inputs'[s], q, x)
        BY <1>2, <1>3, <3>2, AppendPrecedes, InputTypes
      <4>2. QED
        BY <1>2, <3>3, <3>4, <4>1 DEF InOrder
    <3>5. CASE t # s
      BY <1>2, <3>3, <3>5 DEF InOrder
    <3>6. QED
      BY <3>4, <3>5
  <2>2. QED
    BY <2>1 DEF Order
<1>19. QED
  BY <1>10, <1>11, <1>12, <1>13, <1>14, <1>15, <1>16, <1>17, <1>18 DEF OwnInv

\* The round that reads a foreign result: its owner is at work on the same adapter,
\* or has ended without it.
LEMMA ReadResultOwn ==
    ASSUME Types, OwnInv, NEW r \in Rounds, ReadResult(r)
    PROVE  OwnInv'
<1>1. /\ Fewer /\ channel[r] \in Rounds
      /\ Head(messages[channel[r]]) \in Holds(channel[r]) \cap Inputs
      /\ \A q \in Rounds : Head(messages[channel[r]]) \notin Holds(q)'
  BY ReadsFewer DEF ReadResult
<1>2. PICK s \in Rounds, h \in Inputs : s = channel[r] /\ h = Head(messages[s])
  BY <1>1
<1>3. h \in Holds(s) /\ \A q \in Rounds : h \notin Holds(q)'
  BY <1>1, <1>2
<1>4. /\ pc[r] = "reading" /\ pc'[r] = "done" /\ endedBy'[r] = h /\ channel'[r] = Nothing
      /\ \A q \in Rounds : q # r =>
            pc'[q] = pc[q] /\ endedBy'[q] = endedBy[q] /\ channel'[q] = channel[q]
      /\ UNCHANGED <<session, adapter, beside, sends>>
  BY <1>2 DEF ReadResult, Reads, Ends, sdk, manager, Types, RoundType, HistoryType
<1>5. Ahead
  BY <1>4 DEF Ahead, Settled
<1>6. adapter[s] = adapter[r]
  BY <1>2 DEF OwnInv, Channels
<1>7. h \in Rounds => pc[h] \in Busy \cup {"done"} /\ endedBy[h] # h /\ adapter[s] = adapter[h]
  BY <1>3 DEF OwnInv, Results
<1>8. Homes'
  BY <1>4, <1>5 DEF OwnInv, Homes, Ahead
<1>9. Channels'
  <2>1. ASSUME NEW q \in Rounds, NEW t \in Rounds, channel'[q] = t
        PROVE  pc'[q] \in {"reading", "abort"} /\ adapter'[t] = adapter'[q] /\ Settled(t)'
    <3>1. q # r /\ channel[q] = t
      BY <1>4, <2>1
    <3>2. pc[q] \in {"reading", "abort"} /\ adapter[t] = adapter[q] /\ Settled(t)
      BY <3>1 DEF OwnInv, Channels
    <3>3. QED
      BY <1>4, <1>5, <3>1, <3>2 DEF Ahead
  <2>2. QED
    BY <2>1 DEF Channels
<1>10. Results'
  <2>1. ASSUME NEW t \in Rounds, NEW q \in Rounds, q \in Holds(t)'
        PROVE  /\ pc'[q] \in Busy \cup {"done"} /\ endedBy'[q] # q
               /\ adapter'[t] = adapter'[q] /\ Settled(t)'
    <3>1. q \in Holds(t) /\ q # h
      BY <1>1, <1>3, <2>1 DEF Fewer
    <3>2. pc[q] \in Busy \cup {"done"} /\ endedBy[q] # q /\ adapter[t] = adapter[q] /\ Settled(t)
      BY <3>1 DEF OwnInv, Results
    <3>3. pc'[q] \in Busy \cup {"done"} /\ endedBy'[q] # q
      BY <1>4, <3>1, <3>2
    <3>4. QED
      BY <1>4, <1>5, <3>2, <3>3 DEF Ahead
  <2>2. QED
    BY <2>1 DEF Results
<1>11. OneResult'
  BY <1>1 DEF OwnInv, OneResult, Fewer
<1>12. Together'
  BY <1>4 DEF OwnInv, Together, Busy
<1>13. Endings'
  BY <1>4 DEF OwnInv, Endings
<1>14. ResultsAreOwn'
  <2>1. ASSUME NEW q \in Rounds \ beside', endedBy'[q] \in Rounds \ {q}
        PROVE  pc'[endedBy'[q]] = "done" /\ endedBy'[endedBy'[q]] # endedBy'[q]
    <3>1. CASE q = r
      <4>1. pc[h] \notin Busy
        BY <1>4, <1>6, <1>7, <2>1, <3>1 DEF OwnInv, Together, Busy
      <4>2. QED
        BY <1>4, <1>7, <2>1, <3>1, <4>1
    <3>2. CASE q # r
      <4>1. PICK e \in Rounds : e = endedBy[q] /\ e = endedBy'[q] /\ e # q
        BY <1>4, <2>1, <3>2
      <4>2. pc[e] = "done" /\ endedBy[e] # e
        <5>1. q \in Rounds \ beside /\ endedBy[q] \in Rounds \ {q}
          BY <1>4, <2>1, <4>1
        <5>2. pc[endedBy[q]] = "done" /\ endedBy[endedBy[q]] # endedBy[q]
          BY <5>1 DEF OwnInv, ResultsAreOwn
        <5>3. QED
          BY <4>1, <5>2
      <4>3. QED
        BY <1>4, <4>1, <4>2
    <3>3. QED
      BY <3>1, <3>2
  <2>2. ASSUME NEW q \in Rounds \ beside', endedBy'[q] \in Sends
        PROVE  q \notin awaited'[endedBy'[q]]
    <3>1. CASE q = r
      <4>1. h \in Sends
        BY <1>4, <2>2, <3>1
      <4>2. ASSUME r \in awaited[h] PROVE FALSE
        <5>1. Precedes(messages[s], r, h)
          BY <1>3, <1>4, <2>2, <3>1, <4>1, <4>2 DEF OwnInv, Order, InOrder, Busy
        <5>2. messages[s] \in Seq(Inputs) /\ messages[s] # <<>>
          BY <1>2 DEF ReadResult, Reads, Types, PumpType
        <5>3. QED
          BY <1>2, <5>1, <5>2, HeadPrecedes
      <4>3. QED
        BY <1>4, <3>1, <4>2 DEF sends
    <3>2. CASE q # r
      BY <1>4, <2>2, <3>2 DEF OwnInv, ResultsAreOwn, sends
    <3>3. QED
      BY <3>1, <3>2
  <2>3. QED
    BY <2>1, <2>2 DEF ResultsAreOwn
<1>15. Known'
  <2>1. ASSUME NEW x \in Sends, x \notin sent', NEW q \in Rounds PROVE endedBy'[q] # x
    BY <1>3, <1>4, <2>1 DEF OwnInv, Known, sends
  <2>2. QED
    BY <1>1, <1>4, <2>1 DEF OwnInv, Known, Fewer, sends, Types, ManagerType, SendType
<1>16. Order'
  <2>1. ASSUME NEW x \in Sends, NEW t \in Rounds, NEW q \in awaited'[x] \ beside',
               pc'[q] \in Busy, x \in Holds(t)'
        PROVE  InOrder(t, q, x)'
    <3>1. q \in Rounds /\ q \in awaited[x] \ beside /\ x \in Holds(t)
      BY <1>1, <1>4, <2>1 DEF Fewer, sends, Types, ManagerType, SendType
    <3>2. q # r /\ pc[q] \in Busy
      BY <1>4, <2>1, <3>1 DEF Busy
    <3>3. InOrder(t, q, x)
      BY <3>1, <3>2 DEF OwnInv, Order
    <3>4. QED
      BY <1>1, <2>1, <3>1, <3>3 DEF Fewer, Wants
  <2>2. QED
    BY <2>1 DEF Order
<1>17. QED
  BY <1>8, <1>9, <1>10, <1>11, <1>12, <1>13, <1>14, <1>15, <1>16 DEF OwnInv

LEMMA ExecuteOwn ==
    ASSUME Types, OwnInv, NEW r \in Rounds, ExecuteStep(r) \/ LeavesStream(r) \/ IdleTimeout(r)
    PROVE  OwnInv'
<1>1. CASE QueryFails(r) \/ StreamClosed(r) \/ LeavesStream(r)
  <2>1. Ends(r, Nothing) /\ pc[r] # "done" /\ UNCHANGED <<sdk, pumps>>
    BY <1>1 DEF QueryFails, StreamClosed, LeavesStream
  <2>2. QED
    BY <2>1, EndsCalm, SameFewer, CalmKeeps DEF sdk, pumps, NoNewHome
<1>2. CASE ReadFails(r)
  <2>1. Ends(r, Nothing) /\ pc[r] # "done" /\ Fewer /\ UNCHANGED session
    BY <1>2, ReadsFewer DEF ReadFails, Reads, sdk
  <2>2. QED
    BY <2>1, EndsCalm, CalmKeeps DEF NoNewHome
<1>3. CASE abortRoundClientAfterIdleTimeout(r)
  <2>1. /\ Ends(r, Nothing) /\ pc[r] # "done" /\ Disconnect(adapter[r])
        /\ UNCHANGED <<hand, messages>>
    BY <1>3 DEF abortRoundClientAfterIdleTimeout
  <2>2. QED
    BY <2>1, EndsCalm, DisconnectFewer, CalmKeeps
<1>4. CASE ReceiveMessages(r) \/ IdleTimeout(r)
  <2>1. /\ pc[r] \in Busy /\ pc'[r] \in {"reading", "abort"}
        /\ \A q \in Rounds : q # r => pc'[q] = pc[q] /\ channel'[q] = channel[q]
        /\ channel'[r] = session[adapter[r]] \/ (pc[r] = "reading" /\ channel'[r] = channel[r])
        /\ UNCHANGED <<session, inputs, hand, messages, adapter, endedBy, beside, sends>>
    BY <1>4 DEF ReceiveMessages, IdleTimeout, Moves, Busy, sdk, pumps, history, locals,
                manager, Types, RoundType
  <2>2. Ahead
    BY <2>1 DEF Ahead, Settled, Busy
  <2>3. Channels'
    <3>1. ASSUME NEW q \in Rounds, NEW t \in Rounds, channel'[q] = t
          PROVE  /\ pc'[q] \in {"reading", "abort"}
                 /\ adapter[t] = adapter[q] /\ Settled(t)
      <4>1. CASE q = r /\ t = session[adapter[r]]
        BY <2>1, <4>1, AdapterType DEF Busy, OwnInv, Homes
      <4>2. CASE channel[q] = t
        BY <2>1, <4>2 DEF OwnInv, Channels
      <4>3. QED
        BY <2>1, <3>1, <4>1, <4>2
    <3>2. QED
      BY <2>1, <2>2, <3>1 DEF Channels, Ahead
  <2>4. Homes' /\ Results' /\ OneResult'
    <3>1. Fewer
      BY <2>1, SameFewer
    <3>2. Homes'
      BY <2>1, <2>2 DEF OwnInv, Homes, Ahead
    <3>3. Results'
      BY <2>1, <2>2, <3>1 DEF OwnInv, Results, Fewer, Ahead, Busy
    <3>4. QED
      BY <3>1, <3>2, <3>3 DEF OwnInv, OneResult, Fewer
  <2>5. Together' /\ Endings'
    BY <2>1 DEF OwnInv, Together, Endings, Busy
  <2>6. ResultsAreOwn'
    <3>1. \A q \in Rounds : pc[q] = "done" => pc'[q] = "done"
      BY <2>1 DEF Busy
    <3>2. QED
      BY <2>1, <3>1, InputTypes DEF OwnInv, ResultsAreOwn, sends
  <2>7. Known' /\ Order'
    <3>1. \A q \in Rounds : (pc'[q] \in Busy <=> pc[q] \in Busy) /\ (pc[q] = "done" => pc'[q] = "done")
      BY <2>1 DEF Busy
    <3>2. \A q \in Rounds : Holds(q)' = Holds(q)
      BY <2>1 DEF Holds
    <3>3. \A q \in Rounds : \A t, x : InOrder(q, t, x) => InOrder(q, t, x)'
      BY <2>1 DEF InOrder
    <3>4. Known'
      BY <2>1, <3>1, <3>2 DEF OwnInv, Known, sends, Types, ManagerType, SendType
    <3>5. Order'
      BY <2>1, <3>1, <3>2, <3>3 DEF OwnInv, Order, sends, Types, ManagerType, SendType
    <3>6. QED
      BY <3>4, <3>5
  <2>8. QED
    BY <2>3, <2>4, <2>5, <2>6, <2>7 DEF OwnInv
<1>5. QED
  BY <1>1, <1>2, <1>3, <1>4, QueryOwn, ReadResultOwn DEF ExecuteStep

---------------------------------------------------------------------------
(* Results: further inputs.                                                *)

LEMMA SendOwn ==
    ASSUME Types, OwnInv, NEW x \in Sends, SendStep(x)
    PROVE  OwnInv'
<1>1. CASE SendTakes(x) \/ SendIsNoTurn(x)
  <2>1. UNCHANGED <<session, inputs, hand, messages, pc, adapter, channel, endedBy, beside>>
        /\ UNCHANGED <<sent, awaited>>
    BY <1>1 DEF SendTakes, SendIsNoTurn, sdk, pumps, locals, history
  <2>2. \A s \in Rounds : Holds(s)' = Holds(s) /\ (Settled(s) <=> Settled(s)')
    BY <2>1 DEF Holds, Settled
  <2>3. Homes' /\ Channels' /\ Results' /\ Together' /\ Endings' /\ ResultsAreOwn'
    BY <2>1, <2>2 DEF OwnInv, Homes, Channels, Results, Together, Endings, ResultsAreOwn
  <2>4. OneResult'
    BY <2>1, <2>2 DEF OwnInv, OneResult, Once
  <2>5. Order'
    BY <2>1, <2>2 DEF OwnInv, Order, InOrder
  <2>6. \A y \in Sends : sending'[y] # Nothing => y \notin sent
    BY <1>1 DEF SendTakes, SendIsNoTurn, OwnInv, Known, Types, ManagerType, SendType
  <2>7. Known'
    BY <2>1, <2>2, <2>6 DEF OwnInv, Known
  <2>8. QED
    BY <2>3, <2>4, <2>5, <2>7 DEF OwnInv
<1>2. CASE SendContent(x)
  <2>1. PICK s \in Rounds : s = session[sending[x]]
    BY <1>2 DEF SendContent, Types, ManagerType, SendType, SdkType, Maybe
  <2>2. /\ UNCHANGED <<session, hand, messages, pc, adapter, channel, endedBy, beside>>
        /\ inputs'[s] = Append(inputs[s], x) /\ x \notin sent /\ sent' = sent \cup {x}
        /\ \A q \in Rounds : q # s => inputs'[q] = inputs[q]
        /\ awaited'[x] = Owed(s) /\ \A y \in Sends : y # x => awaited'[y] = awaited[y]
    <3>1. /\ UNCHANGED <<session, hand, messages, pc, adapter, channel, endedBy, beside>>
          /\ inputs' = [inputs EXCEPT ![s] = Append(@, x)]
          /\ sent' = sent \cup {x} /\ awaited' = [awaited EXCEPT ![x] = Owed(s)]
      BY <1>2, <2>1 DEF SendContent, pumps, locals
    <3>2. inputs \in [Rounds -> Seq(Inputs)] /\ awaited \in [Sends -> SUBSET Rounds]
      BY DEF Types, ManagerType, SendType, SdkType
    <3>3. inputs'[s] = Append(inputs[s], x) /\ \A q \in Rounds : q # s => inputs'[q] = inputs[q]
      BY <3>1, <3>2
    <3>4. awaited'[x] = Owed(s) /\ \A y \in Sends : y # x => awaited'[y] = awaited[y]
      BY <3>1, <3>2
    <3>5. x \notin sent
      BY <1>2 DEF SendContent, OwnInv, Known
    <3>6. QED
      BY <3>1, <3>3, <3>4, <3>5
  <2>3. inputs[s] \in Seq(Inputs) /\ x \in Inputs /\ x \notin Rounds /\ x # Nothing
    BY InputTypes DEF Types, SdkType
  <2>4. \A q \in Rounds : x \notin Holds(q) /\ endedBy[q] # x
    BY <2>2 DEF OwnInv, Known
  <2>5. /\ Elements(inputs'[s]) = Elements(inputs[s]) \cup {x}
        /\ Distinct(inputs'[s])
    BY <2>2, <2>3, <2>4, AppendElements DEF OwnInv, OneResult, Once, Holds
  <2>6. Holds(s)' = Holds(s) \cup {x} /\ \A q \in Rounds : q # s => Holds(q)' = Holds(q)
    BY <2>2, <2>5 DEF Holds
  <2>7. \A q \in Rounds : Settled(q) <=> Settled(q)'
    BY <2>2 DEF Settled
  <2>8. Homes' /\ Channels' /\ Together' /\ Endings'
    BY <2>2, <2>7 DEF OwnInv, Homes, Channels, Together, Endings
  <2>9. Results'
    BY <2>2, <2>3, <2>6, <2>7 DEF OwnInv, Results
  <2>10. OneResult'
    <3>1. Once(s)'
      BY <2>2, <2>3, <2>4, <2>5 DEF OwnInv, OneResult, Once, Holds
    <3>2. \A q \in Rounds : Once(q)'
      BY <2>2, <3>1 DEF OwnInv, OneResult, Once
    <3>3. QED
      BY <2>4, <2>6, <3>2 DEF OwnInv, OneResult
  <2>11. ResultsAreOwn'
    <3>1. \A q \in Rounds : endedBy[q] \in Sends => awaited'[endedBy[q]] = awaited[endedBy[q]]
      BY <2>2, <2>4
    <3>2. QED
      BY <2>2, <3>1 DEF OwnInv, ResultsAreOwn
  <2>12. Known'
    <3>1. \A r \in Owed(s) : pc[r] \in Busy \cup {"done"}
      BY DEF Owed, OwnInv, Results, Holds
    <3>2. \A y \in Sends : sending'[y] # Nothing => y \notin sent'
      BY <1>2, <2>2 DEF SendContent, OwnInv, Known, Types, ManagerType, SendType
    <3>3. QED
      BY <2>2, <2>6, <3>1, <3>2 DEF OwnInv, Known
  <2>13. Order'
    <3>1. ASSUME NEW y \in Sends, NEW t \in Rounds, NEW r \in awaited'[y] \ beside',
                 pc'[r] \in Busy, y \in Holds(t)'
          PROVE  InOrder(t, r, y)'
      <4>1. CASE y = x
        <5>1. t = s /\ r \in Owed(s)
          BY <2>2, <2>4, <2>6, <3>1, <4>1
        <5>2. x \notin Elements(messages[s]) /\ hand[s] # x /\ x \notin Elements(inputs[s])
          BY <2>3, <2>4 DEF Holds
        <5>3. Precedes(messages[s], r, x) /\ Precedes(inputs[s], r, x)
          BY <5>2, AbsentPrecedes
        <5>4. r \in Elements(inputs[s]) => Precedes(inputs'[s], r, x)
          BY <2>2, <2>3, <5>3, AppendPrecedes
        <5>5. r \in Elements(inputs[s]) \/ hand[s] = r \/ r \in Elements(messages[s])
          BY <5>1 DEF Owed
        <5>6. QED
          BY <2>2, <4>1, <5>1, <5>2, <5>3, <5>4, <5>5 DEF InOrder
      <4>2. CASE y # x
        <5>1. InOrder(t, r, y)
          BY <2>2, <2>6, <3>1, <4>2 DEF OwnInv, Order
        <5>2. Precedes(inputs[s], r, y) => Precedes(inputs'[s], r, y)
          BY <2>2, <2>3, <4>2, AppendPrecedes
        <5>3. QED
          BY <2>2, <5>1, <5>2 DEF InOrder
      <4>3. QED
        BY <4>1, <4>2
    <3>2. QED
      BY <3>1 DEF Order
  <2>14. QED
    BY <2>8, <2>9, <2>10, <2>11, <2>12, <2>13 DEF OwnInv
<1>3. QED
  BY <1>1, <1>2 DEF SendStep

LEMMA OwnInit == Init => OwnInv
<1> SUFFICES ASSUME Init PROVE OwnInv
  OBVIOUS
<1>0. \A s \in Rounds : inputs[s] = <<>> /\ messages[s] = <<>> /\ hand[s] = Nothing
  <2>1. /\ inputs = [s \in Rounds |-> <<>>] /\ messages = [s \in Rounds |-> <<>>]
        /\ hand = [s \in Rounds |-> Nothing]
    BY DEF Init
  <2>2. QED
    BY <2>1
<1>1. \A s \in Rounds : Holds(s) = {} /\ Once(s)
  BY <1>0, EmptyElements DEF Holds, Once
<1>2. Homes /\ Channels /\ Together /\ Endings
  BY DEF Init, Homes, Channels, Together, Endings, Settled, Busy
<1>3. \A q \in Rounds : endedBy[q] \in {q, Nothing}
  BY DEF Init
<1>4. \A x \in Sends : awaited[x] = {}
  BY DEF Init
<1>5. \A x \in Sends : sending[x] = Nothing
  BY DEF Init
<1>6. ResultsAreOwn /\ Order /\ Known
  BY <1>1, <1>3, <1>4, <1>5, InputTypes DEF ResultsAreOwn, Order, Known
<1>7. QED
  BY <1>1, <1>2, <1>6 DEF OwnInv, Results, OneResult

LEMMA OwnNext == TypeOK /\ Running /\ OwnInv /\ [Next]_vars => OwnInv'
<1> SUFFICES ASSUME Types, Running, OwnInv, [Next]_vars PROVE OwnInv'
  BY TypesAreTypeOK
<1>1. CASE UNCHANGED vars
  <2>1. Calm /\ Fewer /\ NoNewHome
    BY <1>1, SameCalm, SameFewer DEF vars, sdk, pumps, locals, history, manager, NoNewHome
  <2>2. QED
    BY <2>1, CalmKeeps
<1>2. CASE Next
  BY <1>2, AcquireOwn, ExecuteOwn, PumpOwn, CloseOwn, SendOwn DEF Next, SendStep
<1>3. QED
  BY <1>1, <1>2

\* A round ends with its own result, with one that the round it belongs to can no
\* longer want, or with that of a further input that was there before its own input,
\* unless two rounds were at work on its client at a time.
THEOREM RoundsEndWithTheirResult == Spec => []ResultsAreOwn
<1>1. TypeOK /\ Running /\ OwnInv /\ [Next]_vars => (TypeOK /\ Running /\ OwnInv)'
  BY TypeNext, RunningNext, OwnNext
<1>2. OwnInv => ResultsAreOwn
  BY DEF OwnInv
<1>3. QED
  BY <1>1, <1>2, TypeInit, RunningInit, OwnInit, PTL DEF Spec

=============================================================================
