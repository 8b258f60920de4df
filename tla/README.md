# A TLA+ specification of NexDefend

NexDefend collects security events on hosts, carries them over Kafka to an API server,
stores and correlates them, and shows them live in a browser.  This directory
specifies the path of an event through that system, the registries of hosts and
incidents, the worker that learns the behaviour of users, and the user interface; it
model-checks small instances with TLC and proves their safety properties, for
instances of any size, with TLAPS.

    tlc -config agent_delivery.cfg MCAgentDelivery.tla     # model-check a run
    tlapm AgentDeliveryProofs.tla                          # check a proof module

Contents: 1 inventory, 2 how the parts interact, 3 plan, 4 modules and code,
5 runs and bounds, 6 fairness, 7 proofs, 8 disagreements found, 9 what is left out.

## 1. Inventory

| Component | State | Operations | Hard part | Correct when |
|---|---|---|---|---|
| Agent, offline queue (`nexdefend-agent/internal/queue`) | a directory of sealed files, a key in memory | Enqueue, Dequeue | file names from the clock, half-written files, a key that a restart loses | each event in one file, oldest first, leaves the queue in the end |
| Agent, delivery (`nexdefend-agent/main.go`, watchers) | the producer pointer, librdkafka's buffer, delivery reports, the event in the drain loop's hand | capture loops, processQueue, report handler, reconnect | five goroutines move events between four places; every hand-over can fail | an accepted event is kept until stored, doubled only after a failed report, delivered in the end |
| Agent, monitors, heartbeat, commands | seen processes and connections, flow table | polling loops, flow expiry, kill commands | a packet against the expiry of its flow | every packet is counted in one flow |
| API, websocket hub (`internal/handlers/websocket.go`) | client set, a bounded channel and two pumps per client | register, unregister, broadcast, pumps | channel closed from two places, counted batches, slow and lost clients | no panic, no gap, no blocked worker, everything cleaned up |
| API, ingestor, normalizer, correlation (`internal/ingestor`, ...) | consumer position, internal channel, job queue, workers; tables and index behind them | consume, forward, ProcessEvent | two sources on one queue, offsets committed by reading, early return in the middle | each copy accounted for, incidents saved before anything may fail, nothing skipped |
| API, collectors in the process (`internal/ndr`, `internal/autoscaling`, `internal/metrics`) | cool-down of the auto-scaler | send or drop an event | full channel | at most one scale-up a minute |
| UI, live feed (`useWebSocket.ts`, `DashboardPage.tsx`) | socket, timer, last message, list of 50 events | dial, close, reconnect, onmessage, render, first fetch | close events after the cleanup, batched frames, coalesced renders, a late answer | one connection for each visit, each event sent to the page listed once (a visit that is over keeps its connection) |
| API, asset registry (`asset_handler.go`, `agent_collector.go`) | table of hosts | heartbeat, create, edit, delete, sweep | three owners of a row (agent, users, collector), read-modify-save without transaction or version, no unique hostname | each field holds until its next writer, deleted stays deleted, a reporting host is online, few rows for a host |
| API, incident registry (`incident_handler.go`) | table of incidents with notes | create, update | the same | every note and the last status are kept |
| AI, UEBA worker (`nexdefend-ai/background_worker.py`) | TTL cache of behaviour models, table `ueba_models`, executor's queue, suspicious processes | consume, load, detect, update, evict, expire, save, post | expiry between two reads, failed saves and loads, restarts | no count is lost unnoticed, the first event of a type is reported once |
| AI, REST service | none of its own | predictions, scans, language model | numeric code | - |
| API, cache, limiter, compliance, scores | items with expiry, visitors | Get, Set, Check | time | nothing expired is returned |
| API, accounts, routes, settings, database | tables | one statement a request | - | - |
| API, search, topology, statistics, proxies | none | read and forward | - | - |
| Scans, uploads, forensics | files, a Kafka topic | hand a task to a worker | the file against the task | a queued task finds its file |
| HyperSeek (C++) | none | pattern matching | - | - |
| SOAR, policy engine | firewall rules | trigger, evaluate | repeated triggers | one address is blocked once |
| Cloud connector | none | forward logs | - | - |
| UI, session, router, axios client (`store`, `routes.tsx`, `api/client.ts`) | token in local storage, its image in the redux store | login, logout, 401, reload | two copies, answers to earlier pages and sessions | both copies agree; without a session nothing of the API is shown |
| UI, pages (`ui/src/pages`) | lists, flags, forms, one page's worth at a time | mount, requests, buttons | answers in any order, failures, leaving and coming back | every flag taken back, no double submission, no secret lost |
| UI, static pages, chat, widgets | - | - | - | - |
| `internal/websocket/hub.go` | - | - | dead code | - |

## 2. How the parts interact

    process loop --\                                    +--> asset tables, incidents
    flow monitor ---+-> librdkafka -> Kafka -> consumer -+-> job queue -> workers -+--> search index
    watchers ------/        |                collectors -> channel -> forwarder    +--> hub -> clients -> browser
         \-> offline queue <- failed reports        |
                  \-> drain loop -> librdkafka       (collectors: NetFlow, Suricata, auto-scaler, demo)

* The agent's goroutines share one producer and one mutex-protected queue; each
  watches the producer pointer by itself.
* The ingestor's workers call the hub synchronously: `BroadcastEvent` blocks on an
  unbuffered channel.  A hub that stalls would stop the ingestor; this is why
  `BroadcastIsTaken` (module WebsocketHub) is what the action `Broadcast` of module
  Ingestor relies on.
* The hub gives frames to the browser, whose hook takes each for one message:
  LiveFeed is the composition of the hub and the page.
* The AI worker consumes the same topic in its own group and posts incidents to
  the API, which refuses them: the incident routes ask for a user's token
  (`routes.go:94`), and the disposition the worker sends is not one the handler's
  validation allows.  Module Backend puts the worker and the registries together;
  as they are, they share nothing.
* Heartbeats go by HTTP to the asset registry, past Kafka.  Heartbeats, edits and
  the collector's sweep meet in one table; each handler reads a row, changes its
  copy and saves all of it.
* Every page talks to the API through one axios client, whose interceptor takes the
  token from local storage and, on a 401, throws it away and loads `/login`.  The
  store keeps its own image of the session.  The live feed uses neither.

## 3. Plan

| | Module | Models | Abstract specification | State |
|---|---|---|---|---|
| 1 | SecureQueue, AgentDelivery | the agent's delivery | EventRelay | done, proved |
| 2 | WebsocketHub | the hub and its pumps | - | done, proved |
| 3 | LiveFeed | hub and dashboard composed | - | done, proved |
| 4 | Ingestor | consumer to ProcessEvent | - | done, proved |
| 5 | RowHandlers, AssetRegistry, IncidentRegistry, Registry | heartbeat, edit, delete, sweep, incidents, at the grain of SQL statements | - | done, proved |
| 6 | UiShell, UiAccount, UiMonitor, UiInvestigate, UiEdit, UiApp | session, router, client and the pages that ask the API | - | done, proved |
| 7 | UebaWorker, Backend | model cache with expiry, eviction, saves; executor; with the registries | - | done, proved |
| 8 | AgentMonitors | process and connection polling, flow table, commands | each occurrence reported once | to do |
| 9 | Scores | risk scores, compliance, cache expiry | reference definitions over bounded inputs | to do |

Every invariant and every refinement that a passing run checks is a theorem now
(section 7).  What the plan has left is modules 8 and 9, each with its own theorems.

## 4. Modules and code

**SecureQueue** (`secure_queue.go`).  `dir` is the directory as the sequence of its
files: names are `UnixNano()` and `ReadDir` sorts, so only their order matters.  A
file holds an event or, torn by a failed write, `NoEvent`, and the number of the run
(`key`) whose random key sealed it.  Both methods hold the mutex throughout, so
`Enqueue` and `Dequeue` are single steps; `DequeueNothing` is the empty directory
and the file that does not decrypt, `DequeueFails` a disk error.

**AgentDelivery** (`main.go`, `linux_watchers.go`, `internal/kubernetes`).  The
capture loops differ in what they do when the producer is absent or refuses, so
there are three kinds of event: the process loop looks at the producer only, the
flow monitor also at Produce's error, the watchers at neither and have no queue.  The
process loop may look before the producer comes and queue its event after that.
`DrainTick`, `DrainBreak`, `DrainReadFails`, `DrainDequeue`, `DrainProduce`,
`DrainRequeue` are the steps of `processQueue`; between them the event is in `hand`.
Produce may refuse for any immediate error, not only a full buffer, and the event goes
back.  `HandleReport` is the handler of failed reports.  `buffer`, `reports`, `Produce`,
`Deliver` and `FailDelivery` stand for librdkafka and the broker.  `captured`,
`accepted`, `stored`, `failures` are history.  `Flush` changes nothing here: it
waits for deliveries that the model allows at any time.

**EventRelay** is what that path promises, in five variables: what was taken, what
is held, what Kafka stored, which reports failed, whether a fault has happened.
AgentDelivery implements it with `held <- Custody`, the union of the four places.

**WebsocketHub** (`websocket.go`).  Broadcasts are numbered as the hub takes them.
The hub's select is one step for register, unregister and the start of a fan-out;
the fan-out takes one step for each client (`FanOut`, in any order, as Go ranges
over a map), so that pumps run in between.  The write pump is split where another
goroutine can interfere: take a message, count the queue, take one of the batch,
flush.  A send on a closed channel and a second close set `panicked`.

**LiveFeed** (`useWebSocket.ts`, `DashboardPage.tsx`) adds the page with its hook.
Visits of the page are numbered: each mounting makes a hook with refs of its own, and
`hook` says whose connection is whose.  `Mount` and `Reconnect` dial a connection,
`OnClose` starts the timer of the next, `Unmount` is the effect's cleanup: it closes the
socket and clears the timer, and the close event comes later, so that the hook of a
visit that is over goes on dialling (`timers`) beside that of the next visit.  `current`
is the socketRef of the page that is there.  `OnMessage` parses a frame, `Render` is
React's later rendering with the page's effect, `FetchReturns` the answer to the
page's first requests.  The API's side is WebsocketHub's `Next`, which upgrades what
the browser has dialled.

**RowHandlers** is what the handlers of a row have in common: `Read` copies a row into
the handler's struct and changes it, `Save` writes all its fields, or inserts the row
again when it was deleted.  `torn` is history: the rows saved from a copy that another
handler had overtaken.

**AssetRegistry** (`asset_handler.go`, `agent_collector.go`, `models/asset.go`).  The
rows of the table, several of which may bear the hostname of one agent: the table is
made from the struct, whose index is not unique.  `CreateAsset` and `UpdateAsset`
decode a user's whole body over the row, whichever of its fields the body has: the
hostname, what the agent reports (`address`), status and last heartbeat, the
criticality.  The constant `Bodies` names the bodies; the theorems hold for all.  A
heartbeat finds the first row or none (`HeartbeatReads`), creates one
(`HeartbeatRegisters`) or saves its copy (`HeartbeatSaves`); an edit is
`UpdateAssetReads` and `UpdateAssetSaves`.  `age` counts the collector's ticks since
the last heartbeat.  History is in `agreed`, what users were told of each field and
nobody has taken back since (`Said`, `Released`), and in `nameBy` and `statusBy`, who
wrote the hostname, and status or last heartbeat.

**IncidentRegistry** (`incident_handler.go`).  One incident, whose notes are one column
of its row.  **Registry** puts both and the collector together.

**UebaWorker** (`background_worker.py`, `behavior_model.py`).  `step` is where
`process_event` is: between `TakeEvent` (poll, and load a model that is not cached),
`Detect` and `Update` the cache is read anew, and an entry may have expired
(`Expire`): `MissingKey` ends the worker.  `Load` includes the eviction, which saves
the model that has to go; `PeriodicSave` is the loop of each minute, in which any save
may fail, or be stored and reported as failed.  `pending` is the executor's queue.
`StartAgain` loses memory and resumes at any earlier offset.  `forgot` is history: the
users of whom counts were lost.

**Backend** puts Registry and UebaWorker side by side.

**UiShell** holds what all pages use: `storage` and `auth`, the two copies of the
session, the router (`location`) and React (`mounted`), and `net`, the requests under
way with the token they were sent with.  An answer finds its page (`live`) or not
(`Forgotten`: the code after the await still runs).  `DeniedAway` and `DeniedHere` are
the interceptor on a 401.  The state `ui` of the mounted page is one record, of which
each page uses some fields.  The `...Opens` operator of a page is its mounting, the
`...Answer` operators what its code does with an answer, the `...Shows` operators what
it has on the screen; a button is an action guarded by what is shown.

**UiAccount** (login, register, profile), **UiMonitor** (dashboard, agents, alerts,
vulnerabilities, network, cloud, topology, playbooks), **UiInvestigate** (host,
explorer, incidents, console, forensics) and **UiEdit** (settings with the API's
handlers behind them, playbook editor) are the pages; **UiApp** is the router over
all of them.

**Ingestor** (`ingestor.go`, `normalize.go`, `correlation.go`, the collectors).
`position` and `hand` are the consumer, `committed` its group's offset, `channel` and
`forward` the internal channel and its forwarder, `jobs` the queue, `job` and `stage`
the workers in ProcessEvent.  Each call of a service is a step of its own, with its
failure.  The rows of the asset tables are kept by name; the correlation rules look
at `auth` and `fim` events, which is the constant `Suspicious`.  A restart empties
all memory and resumes at `committed`: `gracefulShutdown` drains nothing either.

**MC modules** define the sets of values the .cfg files name.

Some modules contain an operator named after a bug (`DequeueKeepsFile`,
`SkipMessage`, `WorkerEnds`, ...) that no action uses: put in the place of the
definition that follows it, it breaks a property.  PROJECT.json lists the pairs;
they show that each property depends on the code.

## 5. Runs and bounds

| Run | Checks | Bounds, and why they are enough |
|---|---|---|
| agent_delivery | TypeOK, SingleCustody, NothingAcceptedIsLost, NoUnreportedDuplicate, RelayRefined, AcceptedIsDelivered | one event of each kind, buffer of 1: a second event finds it full; one restart, failed write, shared tick, and one failed report an event: each fault alone and all together.  68,545 states |
| agent_stuck_queue | QueueDrains: violated | two events, one restart |
| websocket_hub | TypeOK, NoPanic, BatchIsQueued, NoGap | 2 clients, channel of 1, 2 workers, 3 broadcasts: one message in the frame, one in the channel, one too many.  232,035 states |
| websocket_hub_live | BroadcastIsTaken, GoneIsCleanedUp | 1 client, channel of 2, 5 broadcasts: enough to fill frame and channel and drop the client while a worker waits.  6,261 states |
| live_feed | EverySentEventIsListed: violated | 1 page, 2 broadcasts |
| live_feed_order | NewestFirst, OneForEachVisit | 1 page with room for 2 events, 2 connections, channel of 1, 2 broadcasts: a drop, a reconnection in one visit, or leaving the page and coming back, with the connection of the first visit beside that of the second.  The connections are symmetric.  2,066,604 states; a third connection is beyond the run's time, and in the theorems |
| ingestor | TypeOK, EveryCopyIsAccounted, IncidentSurvives, NothingIsSkipped | a topic of a pod, a message that is not JSON and a suspicious event; a collector with 2 events for a channel of 1; queue of 1, 2 workers, 1 restart.  1,005,016 states |
| ingestor_live | PipelineRunsEmpty | the same with one event of the collector.  105,900 states |
| pod_rows | EachAssetHasItsRow: violated | 2 pods, 1 worker |
| registry | TypeOK, DuplicatesAreBounded, EditsAreKept, ReportingHostIsOnline, NotesAreKept, BaselineIsComplete, AlertedOnce | 2 requests at a time, which is what overtaking needs; 3 rows ever, as duplicates need one more than there are requests; a host is silent after the collector's third tick; users write twice (`MaxWrites`), with a body of one field (the criticality), one that renames, or a whole asset as it was some time ago.  The worker has 4 events of 2 users and a cache for 1, so each load evicts; 1 restart.  A behaviour is about assets, one incident, or the worker, which share nothing.  831,553 states, up to the symmetry of the requests |
| ui_app | TypeOK, GuestHasNoToken, GuestSeesNothing, EmptyNoticeIsTrue, SubmittedOnce, FlagHasItsRequest, SecretsSurvive, ConsoleInOrder | 2 requests at a time: one of an earlier page and one of this, or both halves of a sync; 4 console lines: two commands with their answers; two incidents, queries, hosts; three tokens: none, good, expired.  Every call has a route here.  758,671 states |
| ui_app_live | FlagsAreTakenBack, ExpiredSessionEnds | 1 request at a time, the calls that have a route.  31,403 states |

What the passing runs show:

* *SingleCustody*, *NothingAcceptedIsLost*, *NoUnreportedDuplicate*: the hand-overs
  between the capture loops, the drain loop and the report handler compose.  The
  second holds until a fault; the other two through every fault.
* *AcceptedIsDelivered*: no accepted event is stranded by re-queueing behind younger
  files or by a producer that appears late.
* *NoPanic*, *BatchIsQueued*: the hub may close a channel from two places and the
  write pump may count and then receive, because the hub alone closes and only the
  pump receives.
* *NoGap*: the drop of a slow client is what keeps the sequence of each client whole.
* *BroadcastIsTaken*, *GoneIsCleanedUp*: no client can hold up the ingestor; whichever
  of hub, reader and writer notices the end first, the others follow.
* *NewestFirst*: what the page lists is in the hub's order and listed once, although
  frames, renders and the first fetch come when they like.
* *EveryCopyIsAccounted*: the only way an event leaves the pipeline unprocessed is a
  restart; this is at-most-once after reading, since offsets follow reading.
* *IncidentSurvives*: the correlation precedes the early return.
* *OneForEachVisit*: a connection that fails, closes, is dropped or cleaned up is
  followed by one other of the same visit, never by two.  It does not say that the
  browser has one connection: of several visits several go on (section 8).
* *EditsAreKept*: a field that a user wrote and was told is stored holds until its next
  writer.  For the hostname and the criticality that is a user; what the agent reports
  lasts until the next heartbeat, and the status also until the collector finds the host
  silent.  A deleted asset stays deleted.  Rows saved from an overtaken copy (`torn`) are
  excused: there reads and saves without a transaction do lose edits.
* *ReportingHostIsOnline*: a row whose status and last heartbeat come from its agent is
  online within the threshold, wherever the sweep falls and whatever overtakes what.  A
  user who puts the status, or a whole asset that is out of date, makes a host offline
  until its next heartbeat; such rows are the user's (`statusBy`).
* *DuplicatesAreBounded*: the rows that bear the agent's hostname, and not by a user's
  hand, are as many as its simultaneous requests, although users delete and rename rows
  and late saves bring them back.
* *NotesAreKept*: updates of an incident that do not overtake each other keep every note.
* *BaselineIsComplete*, *AlertedOnce*: evictions, saves that fail or are not known to
  have succeeded, loads and restarts keep the worker's counts, except in the three
  cases `forgot` names: an unsaved model expires, a load fails, a process ends.
* *GuestHasNoToken*, *GuestSeesNothing*, *ExpiredSessionEnds*: thunk, reducer,
  interceptor and reload keep the two copies of the session together, also when a 401
  answers a request of an earlier page.
* *EmptyNoticeIsTrue*: on the agents and the playbooks page a failure does not look like
  an empty list.  The alerts, vulnerabilities, network and cloud pages do not make the
  difference, and are not in the property.
* *SubmittedOnce*: of the nine calls that change something, the eight whose buttons wait
  for the answer are not sent twice.  The ninth, savePlaybook, can be (section 8).
* *FlagHasItsRequest*, *FlagsAreTakenBack*: no flag that shows a spinner or disables a
  button is set without the request that takes it back, and it is taken back.  They speak
  of the flags: the host page shows its spinner without one (section 8).
* *ConsoleInOrder*, *SecretsSurvive*: a console line stands under its command; a mask
  sent back replaces no secret.  (The page's PUT has no route as the router is: the
  property is about the handlers that are there for it.)
* *NothingIsSkipped*, *PipelineRunsEmpty*: a restart may repeat but not skip, and no
  failed service stops a worker.

Deadlock is checked where the system never stops by itself (agent, user interface);
the hub and the ingestor may run out of bounded inputs, and the worker may end, which
their .cfg files say.

## 6. Fairness

* AgentDelivery: weak fairness of the reconnect loop (the broker is reachable in the
  end), the drain loop, the report handler and of Deliver for each message
  (librdkafka reports on each); strong fairness of `DrainDequeue` and `DrainProduce`,
  because a disk error or a refusal may come between but does not come for ever.  That is
  an assumption about the messages: one that librdkafka always refuses would go round the
  queue for ever, behind the younger files each time, and end each round.  None for the capture loops,
  failed reports, restarts.
* WebsocketHub: weak fairness of goroutines; strong fairness of what the hub's select
  takes, because Go's select chooses at random among ready cases and serves blocked
  senders in order.  None for peers leaving, pings failing, clients registering.
  A write to a peer that does not read ends by `writeWait`, so the writer's steps
  are fair although each may fail.
* Ingestor: weak fairness of consumer, forwarder and workers (each service answers or
  fails: an assumption, since the index request runs under `context.Background()`
  without a time limit, `ingestor.go:57`, and only the network ends one that hangs),
  strong fairness of the two sends on the job queue, which are served in order.  None
  for the automatic commit, the collectors or restarts.
* UiApp: weak fairness of rendering and of the answer to each request (every request
  ends, by an answer or by the time limit of a proxy or the browser) and of the
  dashboard's interval; strong fairness of the 401 to an expired token, because the
  request may fail otherwise, but not each time.  None for what the user does.
* LiveFeed, Registry and UebaWorker are checked for invariants, without fairness.

## 7. Proofs

All theorems are for every value of the constants under the named assumptions of
the modules, which TLC also evaluates on each run: `QueueAssumption` and
`DeliveryAssumption`, `HubAssumption`, `FeedAssumption`, `IngestorAssumption`,
`RegistryAssumption`, `UebaAssumption`, `ShellAssumption` and `InvestigateAssumption`.
They say that capacities are positive, that the sets of workers, requests and slots are
finite, and that the inputs have the shape the code gives them; no bound of a run
(`MaxCrashes`, `MaxLines`, `MaxAssets`, `MaxWrites`, `MaxStarts`) is given a value.

**AgentDeliveryProofs.**  The inductive invariant is

    IInv == TypeOK /\ SingleCustody /\ Relay!RelayInv

SingleCustody says where an event is; the invariant of EventRelay, what became of
it.  Neither is inductive alone: that a hand-over loses nothing needs that the place
it empties held one copy, and that taking a new event makes no second copy needs
that it left no trace before.  The argument goes through the abstract specification:
each action is shown to be a step of EventRelay or to change none of its variables
(lemmas `CaptureStep` to `IdleStep`, joined in `NextStep`), the relay's invariants are
shown inductive once (`RelayInductive`), and they hold of the agent by the mapping.

* `TypeCorrect`, `CustodyIsSingle`, `AcceptedIsNeverLost`, `DuplicatesAreReported`: the
  four invariants of run agent_delivery.
* `AgentRefinesRelay`: the refinement of that run.
* `StaleHeadStays`: a file of an earlier run at the head of the queue is never removed.
  It explains why agent_stuck_queue is not an accident of its bounds.

**WebsocketHubProofs.**  The inductive invariant is

    IInv == TypeOK /\ NoPanic /\ CountInv /\ \A c \in Conns : ConnInv(c)

`ConnInv` has three parts: `Lifecycle` (a registered client's channel is open, pumps
run only after registration), `InPlace` (what the client was given is `Run(joined)`, the
numbers from its registration on, split between wire, frame and channel) and
`BatchHere`.  `CountInv` bounds the broadcasts by the workers still waiting.  The lemmas
`RunAppend`, `RunTail`, `RunConcat`, `RunEmpty` say how such a run grows, shrinks and is
put together; there is one step lemma for each group of actions.

* `TypeCorrect`, `HubNeverPanics`, `BatchesAreWhole`, `NoClientMissesOne`: the four
  invariants of run websocket_hub.

**LiveFeedProofs** builds on these: the invariant of the feed is the hub's and

    FInv == IInv /\ NotAhead /\ FeedTypes /\ Sockets /\ Streams /\ Lists /\ NewestFirst

`HubEffect` reduces every step of the hub to what one browser can tell (it is accepted,
registered, sent a frame, or nothing).  `Streams` is the heart: the frames in a browser's
inbox go on from what it has handled, without a gap, up to the end of the wire.  `Lists`
says that the page has nothing the hub has not sent, and nothing that the connection of
its visit is still to bring: a new connection is registered at the broadcasts that came
before, so an event listed from the old one cannot come again.  Without it a
reconnection could double an event and `NewestFirst` is not inductive.  `Sockets` ties
hooks, timers and connections together: each is of a visit that was, and a visit has one
connection or its timer.

* `FeedIsInOrder`, `OneConnectionForEachVisit`: the two invariants of run
  live_feed_order, for any number of connections and visits.
* `HubRuns`: the hub in the composition takes only steps of WebsocketHub, so its
  theorems hold there (that run does not check them again).

**IngestorProofs.**  The inductive invariant is

    IInv == TypeOK /\ EveryCopyIsAccounted /\ Correlated /\ NothingIsSkipped

`EveryCopyIsAccounted` is a sum over the places of the pipeline, so the first lemmas
count: what appending, taking from the front and moving a worker do to the number of
copies.  `Correlated` strengthens `IncidentSurvives`, which is not inductive: it also
counts the copies of a suspicious event whose worker is past the correlation
(`Past`).  Those and the finished ones have an incident or a logged failure, and
no incident belongs to any other copy but a lost one.

* `TypeCorrect`, `NothingDropsOrDoubles`, `IncidentsSurvive`, `NothingSkipped`: the four
  invariants of run ingestor.

**RegistryProofs.**  Under `RegistryAssumption` (finitely many handlers, some number
of rows, and bodies that make a row of an empty one), for any number and any such
bodies.  The inductive invariant is

    IInv == Types /\ Unused /\ (\A h \in Handlers : Holding(h))
            /\ EditsAreKept /\ ReportingHostIsOnline /\ NotesAreKept
            /\ (~Exists(IncidentId) => noted = {})

The three properties speak of rows; a save makes a row of what a handler holds.
`Holding(h)` carries them over to the copies: one that is not stale keeps (`Keeps`) what
users will have been told when it is saved (`WillSay`), so each change of a row goes with
the change of what is said of it (`ChangesKeep`).  A tick of the collector takes promises
back while copies are under way: it makes them weaker (`Weaker`), which a copy still
keeps.  `Unused` says that ids not given out yet have no row
and no copy.  There is one lemma for each action, and two more for the steps that only
give or take a handler's copy.

* `TypeCorrect`, `EditsSurvive`, `ReportingIsOnline`, `NotesSurvive`: four of the
  invariants of run registry.
* `FewDuplicates`: `DuplicatesAreBounded`.  It needs the invariant `Bounded` besides: the
  rows of the agent, those included that are deleted while a request still holds them
  and could save them back, and the requests that are about to insert one are together
  no more than the requests there can be at a time.  Counting the live rows alone is
  not inductive, because a late save brings a deleted row back.

**UebaWorkerProofs.**  The inductive invariant is

    UInv == WhereTypes /\ ModelTypes /\ AlertTypes /\ BaselineIsComplete /\ Raised /\ Queued

`Raised` says that a type was raised exactly once when it has been counted or stands
between its alert and its count, for a user of whom nothing was lost; `Queued`, that
what is posted or waits was raised.  `AlertedOnce` follows from the two.

* `NothingIsForgotten`, `AlertsComeOnce`: the two invariants of the worker in run
  registry.

**BackendProofs.**  `ComponentsRun`: a behaviour of the composition that run registry
checks is a behaviour of Registry and of UebaWorker, so the theorems of both hold of it.

**UiAppProofs.**  For any number of requests under way and any length of the console.
The inductive invariant is

    UiInv == UiTypes /\ Belongs /\ GuestHasNoToken /\ LoginInv /\ LoadingInv /\ BusyInv
             /\ ToldInv /\ SettingsInv /\ ConsoleInv /\ GuestInv

`Belongs` says that an answer somebody waits for belongs to the mounted page; the pages
share the fields of `ui`, so nothing else is inductive without it.  `LoadingInv` and
`BusyInv` say in both directions which requests a flag stands for, and that the ones a
button waits for are alone: an answer could take back the flag of another request
otherwise.  `LoginInv` does the same for the store's flag, whose request outlives its
page.  `ConsoleInv` keeps the room for the answer to the last command.  `GuestInv` is
`GuestSeesNothing` and what it needs: a guest's page waits for nothing that was
asked with a token.

The application has some seventy steps, which do few things to what the invariant
speaks of.  Each is shown to have one effect (`Receives`, `Vanishes`, `Follows`, `Sends`,
`Works`), and the invariant is shown to survive each effect once; the steps of the
session and the mounting of a page have lemmas of their own.

* `TypeCorrect`, `NoTokenWithoutUser`, `NothingForGuests`, `EmptyIsTold`,
  `WaitingButtonsSendOnce`, `NoFlagAlone`, `SecretsAreKept`, `AnswersFollowCommands`:
  the eight invariants of run ui_app.

Only model-checked: liveness (AcceptedIsDelivered, BroadcastIsTaken, GoneIsCleanedUp,
PipelineRunsEmpty, FlagsAreTakenBack, ExpiredSessionEnds), whose fairness the prover
does not reach.  The properties of the three runs that expect a violation
(QueueDrains, EverySentEventIsListed, EachAssetHasItsRow) are false of the code;
`StaleHeadStays` proves the cause of the first.

## 8. Disagreements found

Three runs show a property that a comment of the code states and the code breaks:

* *agent_stuck_queue*: the encryption key is drawn anew at each start and the old
  files are kept; the first of them blocks the queue for good.
* *live_feed*: queued messages are written into one frame without a separator; the
  browser drops a frame that is not one JSON document.  (Even single frames are lost
  when React renders once for two of them.)
* *pod_rows*: the normalizer leaves `Data` empty, and the asset upserts read `Data`.

PROJECT.json lists them with the quoted lines, and some that need no run:

* events: the list the dashboard's first fetch empties; the index that is written
  under one name and searched under another; the flow that changes its topic in the
  offline queue; a counter of sent events that counts refused ones; a consumer the
  SOAR service does not have; the hook that reconnects after its page has gone, so that a
  user who comes back has two connections, and the hub sends each event to both.
* registries: `database/init.sql:60` declares the hostname unique, the struct from which
  AutoMigrate makes the table does not.  The program does not run init.sql, so the
  registry is modelled without the constraint; with it, the second of two first
  heartbeats, or a renaming to a hostname that is there, would fail instead.
* AI worker: a key that expires between two reads ends it, and nothing starts it
  again; expired models are not saved; a model that cannot be loaded starts empty and
  overwrites its row; the incidents it posts are refused, for their
  disposition and for the worker's token.
* user interface: an analysis shown under another incident; "Upload started!" for a
  refused upload; a logout link without a route; GET /events and PUT /settings that
  the router does not have; hosts counted as "active" that are set "online"; incidents
  whose fields the API spells in another case, so that selecting one throws.

Some behaviours contradict no line and are recorded by the models: of two searches
the later answer wins; two clicks save a playbook twice; after a failed load the
editor saves a new playbook; refreshed settings replace edits; the timer of an
earlier error hides a later one; the host page keeps its spinner after a failure (it shows
one whenever it has no host, `HostDetailsPage.tsx:78`); a host's second row is never
refreshed; an edit of what the agent reports is undone by the next heartbeat; an asset
that is put back whole, as it was read some time ago, makes a reporting host offline.

## 9. What is left out

* Data: payloads, timestamps, severities and names are model values; encryption is
  "sealed under the key of this run".
* Several brokers, partitions, rebalances and several API replicas: the code has one
  consumer per group and reads one topic.
* Concurrency with an administrator who edits the queue's directory.
* Registries: an `id` in the body of a PUT or POST (UpdateAsset would save another row
  than the one of the path, CreateAsset choose its own number); the handlers that only
  read, the alert sent to TheHive, package `internal/incident` (nothing calls it).
  That a silent host is marked offline in the end is not stated: with fairness the run
  would not fit its time.
* UEBA worker: the rules that look at one event only, the table of suspicious
  processes, the order of use in the cache (any model may be the one that has to go),
  a start without a database.
* User interface: a second tab of the browser, which shares the local storage; the time
  between the interceptor's removal of the token and the login page's load, in which the
  old page is still on the screen (`client.ts:31-36`; `DeniedAway` is one step); pages
  that show constants, the chat and menus, tabs and filters that
  stay in a page, a host page whose id changes while it is mounted, the points of the
  charts, React's double effects in a development build.
* Liveness of the auto-scaler and its cool-down: one goroutine reads and sets the time.
* The components of section 1 that the plan does not name: handlers of a single
  statement, read-only proxies, numeric code (scikit-learn, the language model, the
  C++ scanner), rendering, deployment.  PROJECT.json gives the reason for each.
