# TLA+ models of nexus-core

nexus-core is a server that runs conversations between users and coding agents:
it keeps sessions, starts *rounds* of an agent SDK in them, streams what the
agent does to WebSocket connections, asks users for permissions, queues what
they type meanwhile and runs scheduled jobs. This directory holds TLA+ models
of its concurrent core, TLC runs that check them on small instances and TLAPS
proofs for every instance. `PROJECT.json` lists the components, runs, mutants,
findings, hazards and theorems, and maps every definition to the source lines
it translates.

## 1. Inventory of the system

All paths are under `src/internal/`.

| component | state it keeps | operations | hard behaviour | what makes it correct |
|---|---|---|---|---|
| **Runtime manager** `runtime/manager.go`, `guidance.go` | per session key: the SDK client, `RunningRounds`, `RoundCancels`, `RoundDone`, `Interruptions`, `GuidedInputs`, under one mutex | GetOrCreate, StartRound, MarkRoundFinished, InterruptSession, CloseSession, QueueGuidanceInput, the PostToolUse drain | InterruptSession takes two critical sections, asks the client and waits outside the lock, with a 150 ms timer that forces the cancellation; a close may delete what it waits for; StartRound and the interrupt recreate a deleted session | the per-round maps agree; an interrupt that succeeds has seen its rounds end; waiters have somebody to wake them; guidance belongs to running rounds |
| **Permission context** `runtime/permission/` | senders bound to sessions (two maps), routes of runtime sessions to frontend sessions, pending requests with a one-place channel and a `sync.Once` | BindSession (with a replay goroutine), Unbind, Unregister, routes, RequestPermission (with a dispatch goroutine), HandlePermissionResponse, CancelRequestsForSession | answers, cancellations, the caller's context and the timer race; senders close at any time; a prompt is sent by two kinds of goroutines | one resolution per request, sent before the tool goes on; expiry never allows; the prompt reaches who is bound; maps are inverse |
| **Round execution and SDK client adapter** `runtime/executor_round.go`, `manager.go` | a message channel per SDK session, its pump, the adapter's session and cancel, idle and grace timers | GetOrCreate, Reconfigure, Connect, Query, SendContent, ReceiveMessages, ExecuteRound, AbortRoundClient, Disconnect | results do not name the round they answer; further inputs that belong to no round; two connects of one adapter; a close between GetOrCreate and Connect; a pump blocked on a full channel | a round reads its own result; every SDK session can be closed and every pump woken; a round ends with its stream |
| **Input queue store** `storage/workspace/store_input_queue.go` | an append-only log of actions, replayed on every read | Enqueue, Delete, UpdateDeliveryPolicy, Reorder, DispatchNext, DispatchFirstDispatchable, Dispatch, DispatchGuidance | a partial write at the end of the log; several rows in one operation; a read that fails after the rows are written; two stores with a mutex each (section 6) | no accepted item lost, none handed out twice, order kept |
| **DM session service** `service/dm/` | none of its own: the manager's rounds and the queue | HandleChat with delivery policies queue, guide and interrupt, the round runner, the dispatcher of queued inputs, the guidance hook | check of the running rounds and StartRound are far apart; dispatchers run beside new messages; the hook pops before it renders | a queued input is in one place and reaches the agent once; no round stays registered without a runner; somebody always looks at a waiting queue |
| **Room conversations** `service/room/` | active rounds with one slot per agent, routes of agents' runtime sessions, queued wakes, wake timers | HandleChat with policies, slot execution, interrupt of a round or of slots, public mentions with a hop limit, directed messages, queue and dispatcher | a call looks for busy agents long before it registers its round or queues its wake; slots end, are interrupted and are woken concurrently; dispatchers read, decide and delete separately | a wake gets one slot; an agent at work keeps its route; running rounds are found; hops are bounded through the queue; interrupts end; a waiting wake is served |
| **Automation: runs** `service/automation/`, `storage/automation/` | jobs and runs in the database; `jobStates` in memory | due tick, manual run, claim, dispatch, close, recovery of stale runs, restart, update, delivery retry, delete | copies of the task, its overlap policy among them, read before a claim and used or written after it; writes that fail one by one; a restart between two writes; a recovery beside a run that still works | runs exclude one another under `skip`; no open run is forgotten; a recorded end stays; every run is closed; the task is not held as running for ever |
| **Automation: deliveries** `service/automation/service_delivery_retry.go`, `runtime_delivery.go` | each run's delivery status, attempts, next attempt and dead letter in the database; the flag of the running batch | first delivery by the run's observer, batches of retries, retry by hand, dead letters of disabled and deleted tasks | a retry by hand beside a batch; rows listed before and written after; a message sent and not recorded; a stop in between | a result is sent once; a failed delivery is found again or given up; a delivery on record stays |
| **Channels: ingress** `service/channels/ingress.go`, `service_ingress_ledger.go`, `service_control.go` | pairings of external chats with agents, the ledger of messages, both in the database | Accept (pairing, claim, hand-over to the DM service, finish), create, update and delete a pairing | a messenger that repeats a message before its first call has ended and may hang up; statements that fail one by one; pairings edited beside messages | a message is handled once; a success hides no lost message; an administrator's decision stays; the messenger gets an answer |
| **Message projection** `message/` | the round's assembled segments | Process | - (pure conversion) | terminal status follows the result |
| **WebSocket handler** `handler/websocket/` | a connection's subscriptions | reads messages, calls services inline | its connections close while others send to them | senders are unregistered |
| **Session and history files** `storage/workspace/` | transcripts, overlays | append, read, compact | torn lines | - |
| **Channel adapters, CRUD services, providers, connectors, skills, SQL storage, MCP tools, memory, CLI/HTTP, frontends** | database rows, files, external services | CRUD and I/O | third parties | - |

How they interact: the WebSocket handler binds its sender in the permission
context and calls the DM or the room service. The service acquires a client
from the manager (GetOrCreate), registers the round (StartRound) and starts a
runner goroutine, which executes the round on the client, reports its end
(MarkRoundFinished) and wakes the queue's dispatcher. Inside a round the SDK
calls back: into the permission context when a tool needs a permission
(RequestPermission blocks the tool) and into the guidance hook after each tool.
A second message to a running session is queued, offered as guidance, or
interrupts the session (InterruptSession, then a new round). Rooms route the
runtime session of each agent to the room's shared session, so that permission
prompts reach the connections bound to the room. Messages of external chats come
in by the channels' ingress, which claims each of them in its ledger and calls the
DM service; results of scheduled runs leave by the channels' router.

Everything in this code that is hard to test is listed, at its line, under
`hazards` in `PROJECT.json`, with the properties that cover it.

## 2. Modules and their correspondence to the code

**`RoundRegistry`**: what the manager promises for a session, without locks,
channels and timers: a set of active rounds, and interrupt calls that may report
success only when every round active at their beginning is no longer active. A
close withdraws that promise for the rounds it drops, as the code does.

**`RuntimeManager`**: one session key of `runtime.Manager`. The variables are the
fields of `sessionState` (`running`, `cancels`, `done`, `interruptions`,
`guided`, with `present` for the map entry itself), the done channels and
contexts of rounds, and a control point with its locals for each goroutine
inside a call. Rounds go `idle -> acquired -> executing -> ended -> finished`
(GetOrCreate, StartRound, ExecuteRound's return, MarkRoundFinished). Each
critical section of `Manager.mu` is one action, and so is each blocking step
outside it: the client's interrupt, the timer, the receive from the channels,
the caller giving up. A round id is used once, so a done channel is named by its
round. What the SDK says in a round is left out.
`GetOrCreate` leaves out the reconfiguration of a client that exists.

**`PermissionContext`**: `permission.Context`. The actions are the critical
sections, the channel operations, the choice of the `select` and each single
send of a broadcast, because bindings change between the sends. `finalizeOnce`
is a small state machine (`fresh -> cleanup -> resolve -> send -> done`) that
the first finalizer starts and every finalizer waits for, as `sync.Once` does.
Senders are closed at any moment. `Answers`, `Cancellers` and `Binders` are
callers that start again when they end: they bound how many calls run at
once, not how many there are. Requests and their ids are used once. The
services' routes are the two they make: an agent's runtime key to the room, any
other key to itself.

**`InputQueue`**: the queue as its callers see it: a sequence of items with
unique ids, and the operations `Enqueue`, `Delete`, `UpdateDeliveryPolicy`,
`Reorder`, `DispatchNext`, `DispatchFirstDispatchable`, `Dispatch` and
`DispatchGuidance`. After a write that failed half-way (`broken`) the next write
is lost, and `DispatchGuidance` is one step for each item it takes. An operation
that has done all of it may still report an error instead of its items (`failed`).

**`InputQueueLog`**: the store. Every operation reads the file, decides and appends
rows of actions; the next one replays the file. The module keeps the state of the
replay loop (the map of items and the list of their order) instead of the rows, so
that a file may have any length; `tail` says whether the file ends inside a row,
after which the next row is glued to it and skipped. `out` and `failed` are what the
caller gets: the operations read the file once more after their rows are written,
and when that read fails they return an error and no item, although the item has
left the queue. The refinement of `InputQueue` is an INSTANCE with the queue
replayed from the file.

**`DMSession`**: `service/dm` for one session. The manager and the queue appear
by what they promise: the registered rounds, which `MarkRoundFinished` and
`CloseSession` remove, and a set of queued ids with policies
(their order is `InputQueue`'s). `pc` is the control point of each call of
HandleChat, a user's or a dispatcher's, between the places where it looks at
shared state or changes it: the check of the running rounds, the send to the
running round, the marker, the snapshot, answer and wait of InterruptSession,
the client, StartRound, and the records that may fail after it. A runner marks
its round finished and wakes the queue in two steps. Every error path is there:
preparation, send, record after the send, interrupt, resume, client, marker, the
queue's file, the hook's rendering, the return of an item to the queue.
`stranded` are callers that wait for a done channel that a CloseSession has
dropped. The id of an input and the round it starts are one value, as in the
code. `accepted`, `deleted`, `delivered`, `lost`, `unrecorded` and `unserved` are
history variables. `Choices` are the policies users choose.
One PostToolUse hook of the queue is at work at a time: a second one would take
what the first one left, which a later hook does too.

**`RuntimeClient`**: the client adapter of one session key, from GetOrCreate to
the end of ExecuteRound. A round makes at most one adapter and opens at most one
SDK session, and both have its name. `session`, `stopped` and `messages` are the
adapter's session, the cancelled contexts of pumps and the channels; `process`
and `inputs` stand for the SDK process, which answers inputs in order or ends.
The pump is there with its two blocking points, because a pump that waits on a
full channel is what Disconnect must wake. `Sends` are calls of
`SendContentToRunningRound` (`dm/service_request.go:214`): one takes the client while
a round is registered and sends its input later to the session the client has by
then. The SDK either takes it into the turn at work or gives it a turn of its own,
whose result belongs to no round. Messages other than results matter
only when they end the round: the assistant grace timer, a cancelled context, a
stream that reports an error and the idle timer of an interrupted round are all
`LeavesStream`, which may happen at any time and owes nothing. Cancellation,
registration and interrupts are `RuntimeManager`'s. The two modules meet in
GetOrCreate and CloseSession, of which each has the part that concerns its state.

**`RoomRounds`**: one room conversation of `service/room`. A *wake* `<<origin,
agent>>` is a reason why an agent is to run: a user's message, an input typed ahead,
a letter (directed message) or the public reply of a slot. A caller is a message, a
dispatcher, or the runner of a round that ended and starts its mentions; all three
go through the same steps: look for busy agents (`findActiveDeliverySlots`), queue
the wakes of those one by one, show the queue (which may fail when all wakes are
queued already), register a round for the others. A message or an input typed ahead
with the policy "interrupt" stops the slots of its agents first, instead of looking.
Of several wakes of one agent the first becomes the slot's trigger and the others
are dropped (`Triggers`). A slot goes `pending -> executing -> tail` (its result has
come) or `closing` (interrupted, failed) `-> done`. `choice` is the policy of a
message, or "stop" (an interrupt of the conversation) or "letter"; an item has its
policy in `info`. All items have targets, as all wakes of agents do; the queue is a
set, its order is `InputQueue`'s. Delayed wakes are letters that come later.

**`AutomationJobs`**: one repeating task of the scheduler. `row` and `status` are
what the database holds of the task and of its runs, `state` is the entry of
`jobStates`, `copy` the copy of the task a call of `startJobExecution` works on, and
`admin` one operation of a user or of the recovery at a time. The overlap policy is
a column of the row that an edit may change; the overlap check and the claim go by
the policy of the call's copy, as in the code, which may be the one before the edit.
Every write of a row is a step, may fail, and is followed by what the code does
then. A stop of the server clears the memory and the goroutines and leaves the
database.

**`TaskDeliveries`**: how the results of one task's runs are delivered. `run` is
the part of each row that deliveries write (`Attempt` is `MarkRunDelivery`, which
counts the row's own attempts while the schedule comes from the number the caller
read). The observer of a run delivers first and records it with the run's end. A
*caller* is a batch of `retryDueDeliveries`, of which `retrying` admits one at a
time, or a request of an administrator: a retry of a run, or a deletion of the
task, which makes dead letters of what is pending. Both kinds go through
`retryRunDelivery` (task, run, sending, record), every read and write of which may
fail. A list is read once and worked through one by one, as in the code. Waits are
left out: a batch finds any of the runs that have attempts left. `unrecorded` are
runs whose result was sent and not recorded as delivered, `together` those at
which a request met another caller. What `AutomationJobs` says of runs (who starts
and who cancels them) appears here as `CancelRun`, at any moment.

**`ChannelIngress`**: the messages of one external chat. `pairing` is the status
of the chat's row, `ledger` the status of each message's row, `call` the control
point of each request of the messenger that is at work. `Accept` is nine steps,
one per statement of the database or call of another service: pairing, request for
approval, insertion of the claim, reclaim of a failed one, read of the row,
HandleChat, finish, route, and the return of the claim. Each may fail; after the
messenger hung up (`gone`) each operation that takes the request's context fails,
so that no claim can be given back; a statement that reports an error may have had its
effect. `edit` are calls of UpdatePairing between
their read and their write of the whole row. A messenger that repeats messages and
a server that stops are external. `taken`, `halfway`, `stranded`, `refused`,
`verdict`, `approved`, `before` and `overtaken` are history variables: `before` are
the calls and edits that had looked at the pairing when an administrator last decided,
`overtaken` says which kind of them has written it since.

`RuntimeManagerMC`, `PermissionContextMC`, `InputQueueLogMC`, `DMSessionMC` and
`RoomRoundsMC` hold the symmetry set, the ids and the audiences of the
instances; symmetry is used only in `dm_session`, which has no liveness property.
The modules named `..._proofs` hold the theorems.

Definitions preceded by a comment "Fault:" are not part of any specification:
each is the form a mapped definition would take with a plausible bug, and is
used to see that the properties notice it.

## 3. Runs

| run | instance | checks |
|---|---|---|
| `manager` | 2 rounds, 1 interrupt, 2 closes, 1 guidance text, 1 reason | `RegisteredUntilFinished`, `WaitersHaveACloser`, `GuidanceNeverOutlivesRounds`, refinement of `RoundRegistry`, `InterruptReturns`, `CloseEndsRounds` |
| `client` | 3 rounds, of which one is over and left its client connected, 1 close, channel of 1, 1 event: an SDK process that dies or a further input | `ResultsAreOwn`, `SessionsAreReachable`, `PumpsAreWoken`, `RoundsEndWithStream` |
| `permission_answers` | 1 request, 2 answers, 1 cancellation, 2 sessions, no sender | `PendingUntilResolved`, `ExpiredMeansDenied`, `ResolvedOnce`, `RequestReturns` |
| `permission_connections` | 1 request, 2 binders, 1 sender, 2 sessions | `BindingsAreInverse`, `PromptReachesSenders` |
| `queue_log` | 3 items, 1 guidance target, files of any length, torn writes, failing reads | refinement of `InputQueue`, `OrderKept` |
| `dm_session` | 1 message, 1 queued input, 2 dispatchers, all policies | `EachItemOnce`, `RegisteredRoundEnds`, `SomebodyLooks` |
| `automation` | 2 runs of a task, both overlap policies and changes of them, 1 stop, failure or request of a user | `SkipIsExclusive`, `NoRunForgotten`, `FinalStatusKept`, `TaskIsFreed`, `RunsEnd` |
| `deliveries` | 1 run, 2 batches, 2 requests, 3 attempts with 2 waits, 2 failures or stops | `DeliveredOnce`, `DeadOrDue`, `DeliveredStays`, `FailedDeliveriesEnd` |
| `ingress` | 1 message, 2 requests of the messenger, 1 update beside other edits, 3 failures, hang-ups or stops | `HandledOnce`, `AnsweredIsHandled`, `VerdictKept`, `MessagesAreAnswered` |
| `room` | 2 agents, 1 message that interrupts or letter, 2 items, of which 1 typed ahead with the policy "interrupt", 1 dispatcher, 3 rounds, hop limit 1, 1 failure | `WakeChainBounded`, `RouteKept`, `WakesServedOnce` |
| `room_served` | 1 agent, 1 message ("queue" or "interrupt") or stop, 1 input typed ahead, 2 dispatchers, 2 rounds | `RoundsAreFound`, `QueueServed`, `InterruptsEnd` |
| `room_unserved` (violation) | 1 agent, 2 messages with the policy "queue" | `QueuedIsHandled` |

Each module's `TypeOK` is proved for every instance (the theorems `TypeCorrect`), but
for `InputQueueLog`'s, which TLC finds invariant in the instance of `queue_log`.

Why the bounds are enough. *Manager:* its calls interact only through one
session's maps: two rounds are what the unlocked check before `StartRound` can
produce, one interrupt is compared with rounds that start before, during and
after it, and two closes let a waiter meet a dropped round, then a session
recreated by `StartRound` or `InterruptSession`, then a second drop. *Permission
context:* requests share nothing but the binding maps, so that one request,
raced by two answers, a cancellation, its context and its timer, shows every
order of finalizers; one sender that binds twice at a time and closes shows every
order of replay, dispatch and prune. What is safety in these runs is also proved
for all sets (section 5). The manager's run does not check deadlock: when all
rounds and calls have ended the model stops, and a waiter on a channel of a
dropped round may wait for ever; `InterruptReturns` states exactly that
exception. The permission runs check deadlock; the others stop when their
bounded rounds, runs or messages are used up.

*Client:* a channel of one makes the full channel, which 64 messages make in the
code, happen at once. Two rounds that find the connected client of an earlier one
(`First`) both reconfigure, connect, replace and abort it; that is the least in
which a second Connect or a stale `markDisconnected` meets a session somebody uses.
One further input meets both rounds before, between and after their inputs and
results; `MaxEvents` bounds it together with the deaths of SDK processes, and
section 5 lifts the three invariants to any number of both. *Queue:* three ids show
every relation of a row to its neighbours in the list (before, between, after), and
the replay state makes the file's length no bound. *DM:* one message and one input
are two rounds that meet in every order, and the second dispatcher looks while the
first one holds the input; the theorems of section 5 lift the invariants to any
number. `MaxWake = 1` (also in rooms) bounds dispatcher goroutines that have not
begun: they are alike, and more of them than the bound find what the last of them
finds.

*Automation:* two runs are what exclusion and takeover need; one event is one
fault at every point of them, also as a second actor: a recovery that reads the
row, a user's request (an edit of the policy among them), a write that fails, a stop
of the server. *Deliveries:* runs
share only the batch's flag and the lists, which the theorems cover for any
number, so that one run with two requests and a batch shows every order of reads,
sendings and records at one row; three attempts with two waits stand for the
code's five with four: a first one, one between and a last one. *Ingress:*
messages share only the pairing; two calls are a first delivery and its
repetition, and a third begins when one of them has ended; three events let a call
fail, its claim fail to be given back, and the next call fail. *Room:* three
rounds with a hop limit of one are a round, the mention of its reply and one that
must not be started; two items are the input typed ahead and the queued wake of it
or of a mention. The failure lets a call fail after it has queued its wakes, which is
how a wake comes into two items. The second dispatcher, which `room` leaves out, is in
`room_served`, where the two can take one item twice; there every interrupt meets a
slot or a round at each of its points. The theorems put all of this together for any
numbers. `MaxMentions`,
`MaxTyped` and `MaxFailures` bound replies that mention somebody, inputs and
failed operations, and `Rounds` bounds the rounds: a round runs once.

### Fairness

*Manager.* A round whose context is cancelled returns (ExecuteRound selects on
`ctx.Done`), a runner always reports its end (`defer`s and error paths of
`roundRunner.run`), the steps inside a call follow each other and the timer of
`waitRoundDoneSignals` fires. Nothing is assumed about rounds with a live
context, results of the SDK, new calls or callers giving up.

*Permission context.* A goroutine that can take a step takes it: dispatch,
replay, the steps of the resolution, of answers and of cancellations once they
have begun, and the receipt of a decision. Users answer or not, connections and
cancellations come or not; the request's timer is assumed to fire only where a
property needs it (`RequestReturns` states it as its hypothesis).

*Client.* The goroutines of rounds, pumps and closes go on. The SDK need not
answer, timers need not fire and users owe nothing: `RoundsEndWithStream` holds
without them.

*Automation.* A call that has begun goes on, and so do an edit and a recovery; the
recovery and the bootstrap are run again and again (a ticker, and the start of the
server after a stop). `RunsEnd` and `TaskIsFreed` rest on this. A run may take any
time and its end comes from the observer, from the recovery or from a restart. That
the recovery ends runs rests on `AUTOMATION_RUN_TIMEOUT_SECONDS` being positive
(21 600 by default, `config/config.go`).

*Deliveries.* The scheduler ticks again and again, a batch goes on, and the wait of
every run that has attempts left is over at some tick: its `next_attempt_at` is a time,
and the batch's limit of rows takes the oldest first. Requests owe nothing.

*Ingress.* The goroutines of calls go on. That the messenger repeats a message it got
no success for is assumed of it; `MessagesAreAnswered` says that it then gets its
answer, which a ledger that told it to come back later would not give.

*Room.* The goroutines of calls, runners and dispatchers go on, and so do a slot's
own steps: it begins, reacts to its cancelled context and runs its deferred calls.
An agent may work for ever; users and connections owe nothing.

The queue, the DM session and the room's `room` run state no liveness and need no
fairness.

## 4. What the violation run shows, and what else the code does

`room_unserved`: a message with the policy "queue" looks for busy agents and
writes its wake later, without waking anybody; when the agent's round ends in
between, its dispatcher finds nothing and the wake stays although its target is
idle, against `docs/specs/room-collaboration-spec.md:283`. `QueueServed` holds
with that case named (`late`).

What the properties that hold name as exceptions is also what the code does, and
worth a reader's attention:

* `ResolvedOnce`: after RequestPermission received an allow and before it
  finalizes, its one-place channel is free and the request still pending, so that
  a cancellation of the session resolves it as "cancelled" while the tool runs.
  There is one resolution, and it does not agree with the decision; the test
  `runtime/permission/request_test.go:177` expects a cancelled request to deny.
* `ImplementsQueue`: after a write that reached the disk in part the next row
  continues its line, which the replay skips: that `Enqueue` returns no error and
  its item is not in the queue (`storage/workspace/store_input_queue.go:65`). An
  operation reads the file again after its rows are written
  (`store_input_queue.go:163`, `:185`, `:236`); when that read fails, a dispatch
  reports an error and hands nothing out, and the item has left the queue for good.
* `AnsweredIsHandled`: a claim whose call was stopped, or whose messenger hung up
  before the claim could be given back with the request's context, says
  "processing" for good, and every repetition is answered as a duplicate; a
  duplicate is also answered while the call that holds the claim may still fail.
* `VerdictKept`: a message that found no active pairing writes "pending" over an
  approval given in between; an update that changes something else writes back the
  status it had read, also over a rejection, and brings a deleted pairing back. Those
  who looked before the last decision are named (`overtaken`); the others do no harm,
  a message opens no chat, and no chat is open that nobody has approved.
* `DeliveredOnce`, `DeadOrDue`, `DeliveredStays`: a retry by hand is not excluded
  by a batch. The two send a result twice; count two attempts of which the
  schedule knows one, after which a failed run may be neither due nor a dead
  letter; or record as failed, or bury, what the other one has delivered.
* `ResultsAreOwn`: results carry no round; a round that stops before its result
  leaves it in the channel for the next one. A further input that the SDK gives a turn
  of its own does the same: the round ends with its own, earlier result
  (`runtime/executor_round.go:234`), and the further one is left to the next round of
  the session, which takes it for the answer to its own input.
* `SessionsAreReachable`, `PumpsAreWoken`: a second Connect of an adapter
  overwrites its SDK session, a Connect after a close opens one that nobody
  closes, and a Reconfigure that finds the transport closed drops the pump's
  cancel.
* `RouteKept`, `RoundsAreFound`, `WakesServedOnce`: a slot unbinds the route of
  its agent whoever bound it; two dispatchers that read the queue before one of
  them deletes the item start two rounds with one id. A dispatcher that has queued all
  wakes of its item for busy agents and then cannot show the queue (`room/chat.go:165`,
  `room/public_mentions.go:340`) restores the item, whose wakes are then in two items.
* `WakeChainBounded`: each letter restarts the count, while
  `docs/specs/room-collaboration-spec.md:596` speaks of the hops of a root round.
* `InterruptsEnd`: a slot that has no Cancel yet when the force delay is over
  (`at = "pending"`) is not cancelled, and the interrupt waits for its agent. The
  property is about slots that have begun and about rounds.
* `SkipIsExclusive`, `NoRunForgotten`, `FinalStatusKept`: `MarkRunRunning` has no
  condition on the status and can undo a cancellation; the snapshot that
  `finishJobRuntime` took before the lock was free again may overwrite a newer
  claim. A call that read the task under "allow" (`automation/service_execution.go:120`)
  claims over a working run although an edit has changed the policy to "skip" meanwhile
  (`automation/service_task.go:178`): two runs are at work under "skip". Runs that lose
  their claim so are `displaced`, and only a task that has said "allow" has any.
* An interrupt without a reason is stored like none (`runtime/manager.go:607`),
  and prompts are broadcast to every bound sender, controller or not
  (`docs/specs/permission-runtime-spec.md:111`): each is one assignment, and no
  run is spent on it.

## 5. Proofs

Assumptions: constants that stand for "none" are no values (`NoReasonAssumption`,
`NullAssumption`, `NothingAssumption`, `RunsAssumption`); kinds of callers and
ids are told apart (`KeysAssumption`, `InputsAssumption`, `SendsAssumption`,
`WritersAssumption`, `CallersAssumption`);
bounds are numbers, and at least one dispatcher can be waiting to begin
(`MaxWakeAssumption`, `MaxEventsAssumption`, `BoundsAssumption`, `FirstAssumption`,
`ChoicesAssumption`). All sets of rounds, runs, calls, sessions, senders,
requests, agents and items are arbitrary.

*`RuntimeManager_proofs`.* The inductive invariant is `TypeOK`,
`RegisteredUntilFinished`, and four facts it needs: the state of a round's done
channel follows the round's control point (else `doneCh` could be open before
StartRound or closed under a running round); an absent session has empty maps
(`present` is only read by MarkRoundFinished); what a call of InterruptSession
holds in `waits` are rounds that have started, and those still open are
registered or dropped; guidance never outlives the rounds. From it follow
`TypeCorrect`, `Registered`, `WaitersAreServed`, `GuidanceStaysWithRounds`, and
`Refinement`: every step of the manager maps to a step of the registry or a
stutter. The step that needs the invariant is `InterruptReturn`: closed channels
must mean rounds that are no longer active, although the call looks at channels
and the registry at rounds.

*`PermissionContext_proofs`.* `TypeCorrect`; `Inverse`, inductive with `TypeOK`
for every action that binds or prunes; and an invariant of the resolution
(a request's phase of `finalizeOnce` agrees with the pending map, with its status
and with the control points of its finalizers, and all requests that callers
hold are registered), from which `PendingStays`, `ExpiredDenies` and `Once`, the
action property that a status is never changed and that the request returns
only after its resolution has been sent.

*`DMSession_proofs`.* `TypeCorrect` with what a call handles (`OwnInput`,
`DispatcherInput`: a dispatcher has no input until it takes one, and then an
accepted one). `RoundsEnd` is inductive with it. `QueueIsWatched` rests on
`RoundsEnd`: a dispatcher that gives up because a round is registered leaves the
queue to a runner or to a call that will start one or fail. `ItemsOnce` is proved
from `OnePlace`, which says pairwise that the places of an item exclude each other:
a step that takes an item from one place must know that no other place has it.

*`RuntimeClient_proofs`.* `TypeCorrect`; and `SessionsCanBeClosed` and
`PumpsCanBeWoken`, which are inductive with the types: no step but a second
Connect, a failed Reconfigure and a Connect after a close separates a running
session or pump from the adapter that can end it. `RoundsEndWithTheirResult` needs
the largest invariant of the module (`OwnInv`), because a result carries no name:
the adapter of a session is settled when it is installed (`Homes`), a round reads
only a channel of its own adapter (`Channels`), what a session, its pump and its
channel hold are inputs of rounds of that adapter that have not ended with their
own result (`Results`), each once and in one session (`OneResult`, over sequences
without repetition), and rounds at work on one adapter are in `beside`
(`Together`). A round that reads another round's result then shares its adapter with
a round at work, or finds what a round that has ended left behind. For further inputs
the invariant says that what a session, its pump and its channel hold of them comes
after the results of the rounds they joined (`Order`), that `awaited` names rounds that
have begun, and that an input that was not sent is nowhere (`Known`).

*`AutomationJobs_proofs`.* `TypeCorrect` with `DownIsIdle` (no call survives a stop)
and `NotStarted` (a run that was not recorded has no row). `RunsExclude` rests on
`HoldsClaim` (a working run is the one the row names, unless its claim was removed or
displaced) and on `Known` (whoever acts by "allow" has it from the row, which has said
so: the memory, the copies of the calls, a recovery, and an edit once it is written);
`NoneForgotten` on `NoRunForgotten` itself with `ReleasedIsSettled`
(who removed a claim has closed the run). `EndKept` is an action property that
follows from these.

*`TaskDeliveries_proofs`.* The inductive invariant `IInv` is `TypeOK` with
`OneBatch` (the flag admits one batch), `Tidy` (what a call has on its list at
each of its places), `Alone` (two callers that hold one run have met, as
`together` records) and, for every run, `RowOk` and `CallersOk`: a caller that has
seen the run fail is the only one that writes its row, and has read its number of
attempts, unless callers met there; and what was sent is on record or on its way
there. `ResultsAreSentOnce` and `FailuresAreFound` follow from it, and so does
`DeliveriesStay`, an action property: a step that writes a row in which a delivery
is on record is made by a caller that has met another one. They hold for any runs,
batches, requests, attempts and waits: `DeadOrDue` does not need the schedule to
have as many waits as attempts.

*`ChannelIngress_proofs`.* `TypeCorrect`; `ClaimsHold`, the invariant of the
ledger: a claim has one holder, whose row says "processing" (`OneHolder`); a
message whose claim can still be had was not taken (`TakenOnce`, the strengthening
without which `HandledOnce` is not inductive: a failed row may be claimed again);
a row that says "processing" or "accepted" tells of a message taken, in hand or
stranded (`RowsTell`). `MessagesAreHandledOnce` and `AnswersAreTrue` follow.
`VerdictsAreKept` rests on `Agrees`: an edit that read the pairing, or a call that found
it not open, after the last decision agrees with that decision as far as the pairing
itself did then, and every open status that an edit has read was approved once.

*`RoomRounds_proofs`.* `TypeCorrect` with `HeldType` (a dispatcher past its look
at the queue has an item that exists). `ChainsAreBounded` rests on `HopsCounted`:
a round's HopIndex counts the wakes behind it, a runner about to start mentions
has a hop left, and so has every item, which is where a queued wake could have
escaped the limit. `RunningRoundsAreFound` rests on `Found`: an item that was not
dispatched twice is in the queue, or with one dispatcher, or in the name of one
round, never in two of them, so that no other round takes its entry in the
registry or clears it. `WakesAreServedOnce` rests on `Once`: a wake that is of no
repeated item is in one place (a call, the mentions of a round, one queued item,
or served), and what a wake comes from is made before it; a call's busy wakes are
among those it has to serve (`BusyKept`), so that a wake it queues leaves it.
It also needs `Intact`: a dispatcher that still interrupts has all wakes of its item, so
that none of them is queued again when the interrupt fails and the item goes back.
`RoutesAreKept` rests on both and on `Routes`: what a call knows of the slots of
its agents at each of its control points. A slot at work is one that the call
overlooks (`Overlooks`), one with a final status, or, for an interrupt, one that
it is still to stop or waits for; a slot that was registered later is in `fresh`.
When the call registers its round, no other slot is left, so two slots of one
agent are at work only if both are in `beside`.

Every safety property of the runs is proved but two. Only model-checked: the
refinement of `InputQueue` and `OrderKept`, because what `SelectSeq` and the replay
loop compute is an induction over sequences (and the provers know no fact of
`SelectSeq`); and liveness (`InterruptReturns`, `CloseEndsRounds`,
`RoundsEndWithStream`, `PromptReachesSenders`, `RequestReturns`, `RunsEnd`,
`TaskIsFreed`, `FailedDeliveriesEnd`, `MessagesAreAnswered`, `QueueServed`, `InterruptsEnd`), which
the prover does not reach under fairness.

## 6. Not modelled

* Message payloads, histories and their projection: conversions of data. In rooms
  also the cursors and broadcasts.
* Clocks: request ids are nanosecond readings and assumed distinct; idle timeouts
  and due times are events that may happen. The loss of delayed wakes by a restart
  (`service/room/directed_message_wake.go:70`,
  `docs/specs/room-collaboration-spec.md:527`) is certain rather than a race, and
  has no property.
* Automation: one-shot tasks that disable themselves, the main-session target and
  the heartbeat with its delivery; the times of retries.
* Channels: the adapters of messengers and their configuration, the router's
  memory of routes, the choice of a message's agent and session. Messages of Telegram
  and Discord get a generated id each time they come in
  (`service/channels/ingress.go:290`, `:300`), so each has a row in the ledger that is
  never met again. `CreatePairing` and `UpdatePairing` read the row back by an id that
  the upsert may not have kept; what they then answer is left out, the row is as
  modelled.
* Two input queue stores: the DM and the room service have one each, with a mutex of
  its own. They meet in one file only where a room of the type "dm" is addressed by its
  shared key (room service) as well as by its agent's key (DM service); the web client
  uses the agent's key alone (`handler/websocket/handler.go:378`,
  `protocol/model_session_key.go:232`). Two stores could hand one item out twice;
  `InputQueueLog` is one store.
* Room inputs of `QueuedInputs` that `service/room/execution.go:284` sends to the
  running session: `enqueueQueuedInput` (`service/room/round_state.go:389`), which
  would put something there, is called by tests only. The round ids of users'
  messages are made by the client (`src/web/src/hooks/agent/conversation-actions.ts:58`)
  and taken as fresh.
* DM and room: edits of the queue other than delete (they are `InputQueue`'s), the
  policy "guide" of rooms and its hooks, InterruptAgentTasks.
* Providers, connectors, skills, memory, CRUD services, the SQL repositories, MCP
  tools, CLI, HTTP handlers and the frontends. They are most of the repository's
  lines: statements of SQL, requests to third parties, conversions and forms, each
  call of which reads, writes and returns. There is no state machine in them to
  translate, and a model of one would restate its assignments. So the map covers
  the concurrent core closely and a small share of the whole.

## 7. Plan

What would come next, in order of weight:

1. The registry and the queue inside `DMSession` and `RoomRounds` as refinements of
   `RoundRegistry` and of `InputQueue` without its order.
2. The queue's refinement without `SelectSeq`: the order as a relation on ids, of
   which the replay of a row can be proved step by step.
3. The WebSocket registry of room subscriptions, whose senders close while others
   broadcast to them.
