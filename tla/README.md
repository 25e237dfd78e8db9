# MSFS Logger MCDU: specifications, model checking and proofs

TLA+ modules for the stateful parts of this repository, the TLC configurations
that check them on small instances and the TLAPS proofs of their main
properties for every instance. `PROJECT.json` maps every definition to the
lines of `src/` it translates.

## 1. The system

A Windows desktop app shaped like an aircraft MCDU. It reads Microsoft Flight
Simulator over SimConnect, posts what it reads to a logging server, and lets
the pilot use that server's datalink (messages, SimBrief prefile, clearances).
Three programs cooperate.

| Part | Code | State | Operations | Talks to |
|---|---|---|---|---|
| Shell: supervisor | `src-tauri/src/supervisor.rs`, `restart.rs` | child process and its generation, stdin and output queues, desired state, restart budget, crash latch, snapshot shown to the window | `request` (START, STOP, RESTART, RELOAD), `datalink`, `shutdown`; worker loop: lines, exits, respawn, terminate | sidecar over stdin/stdout lines, webview through events |
| Shell: datalink relay | `datalink.rs`, `supervisor.rs` 60-330 | correlation table, single-flight flags, a reply channel per call | gate, guards, register, enqueue, bind, complete, fail, abandon | supervisor's worker, sidecar |
| Shell: config file | `config.rs`, `main.rs` | `config.json`, the secrets to keep out of what is passed on | read, merge, write whole or not at all | webview, disk; other copies of the app |
| Shell: lines | `framing.rs`, `protocol.rs`, `datalink.rs` | the line being put together | cut chunks into lines; check requests and answers | sidecar |
| Sidecar runtime | `sidecar/src/index.ts`, `uplink.ts`, `status.ts`, `config.ts`, `protocol.ts` | config in force, running flag and run generation, app / server / sim axes, probe and status timers, open HTTP requests | boot, START, STOP, config, shutdown, post, probe, status line | shell, logging server, SimConnect link |
| SimConnect link | `simconnect.ts` | handle, reconnect ladder and its timer, sim and pause axes | start, stop, setConfig, tryConnect, events | simulator; lends its handle to traffic and navdata |
| Datalink service | `datalink-service.ts`, `-scope`, `-classify`, `-client`, models | watch lease, poll timer, cycle in flight, latch, scope, thread cache, prefiled leg, single-flight flags | watch, refresh, prefile-clear, writes, searches; cycle; config applied; shutdown | server, shell |
| Navdata: service and demand | `navdata-service.ts`, `-demand` | store and facility session in use, three lanes, one item in flight, parked items, poll timer | start, stop, link up and down, reload; poll, enqueue, fetch, park | server, sessions, store |
| Navdata: acquisition | `navdata-facilities.ts`, `-bulk`, `-detail`, `-fixes`, `-navaids`, `-keys` | slots, requests and their buffers, definitions accepted, records being put together | request, retry, list, definition pass, close; decode, key, write | simulator, store |
| Navdata: store and sync | `navdata-store.ts`, `-export`, `-sync` | rows by rev, epoch, stamp, a cursor per server; the request in flight | write, mint, export; snapshot, batch, answer | disk, server |
| Webview | `ui/src/*.js`, `ui/src/pages/*.js` | page shown, thread cache, lease, forms, what is kept of answers, CFG draft | keys, states told, calls to the host and their answers | shell |
| Tools | `inspect-*.ts`, `gauge/dev`, `tools`, `ui/tools` | none that lasts | one-shot diagnostics, browser preview | - |

**What is hard.** The shell is multi-threaded: bridge threads block inside
`Supervisor::datalink` while the worker, a stdout reader and a stdin writer run
beside them, and the process at the other end crashes and is replaced. The
sidecar is single-threaded, but every `await` is a place where START, STOP, a
saved config, a timer, another request or a shutdown runs first. What goes
wrong is therefore an order: an answer that outlives the run, connection,
configuration or deadline it was asked under. `PROJECT.json` lists each such
place under `hazards`, with the properties that watch it or why none does.

**What makes each part correct.**

- *Supervisor*: never two sidecars and none left behind but one that could not be
  killed, to which no call is bound; the crash latch holds; the user's intent survives crashes; the window is told the truth; a shutdown
  always completes.
- *Relay*: a call is executed at most once, is told "ok" only if it was, never
  waits on a sidecar that is gone, and leaves no slot or flag behind.
- *Config file*: the file is always one somebody finished; a save changes what
  the user edited; what is shown is what is in force.
- *Lines*: they come out as they went in; both sides judge a request alike; each
  call is told what became of it.
- *SimConnect link*: while it runs it is served, opening or about to retry, by
  one retry at a time; what is lent is live; what is shown is true.
- *Sidecar runtime*: the server axis is this run's; an invalid file never
  disturbs a run; every change is reported; a shutdown ends.
- *Datalink service*: the poll neither stalls nor runs unwatched; the thread is
  the shown scope's; after a refused token only the
  cycle in flight goes on, to its end; no write is doubled.
- *Writes*: what the pilot reads about a write, done, not done or possibly done,
  is true of the server.
- *Demand*: no wake-up is lost, an item is tried only so often, what the server
  wants is served in the end.
- *Acquisition*: answers of two attempts never mix, no slot leaks, every request
  ends; what is stored of an airport or a station is what the simulator has.
- *Store and sync*: what a cursor says a server holds it holds; the replica
  becomes the store once faults are over and is never emptied.
- *Webview*: a sequence number names one message; what a confirm page shows is
  what is sent, once, to the server in force; pages stop saying LOADING.

## 2. Modules

| Module | Models | Composed with |
|---|---|---|
| `Supervisor` | the worker thread of `supervisor.rs`, the callers inside `relay_datalink` with `datalink.rs`, `restart.rs`, and the process as the shell sees it | instantiates `RelaySpec` |
| `RelaySpec` | what the relay promises a caller (abstract) | refined by `Supervisor` |
| `SimLink` | `SimConnectLink` and the connections node-simconnect hands out | seen by `Sidecar` through its callbacks |
| `Sidecar` | `SidecarRuntime` (`index.ts`) with `Uplink` (`uplink.ts`) | |
| `DatalinkService` | `DatalinkService` | |
| `ConfigFile` | `config.json`: the shell's save, the loader of `config.ts`, the CFG pages, hand edits, several apps | |
| `Wire` | the two pipes, the framers at their ends, the rules both sides check requests by, the answer of each call | |
| `WriteOutcome` | one write from SEND to the pilot's words: host, shell, sidecar, server, classifiers, vocabularies | |
| `NavDemand`, `NavService` | the demand queue; the service that owns its store and session, and the bulk pass's hold on both | `NavService` extends `NavDemand` |
| `NavStore`, `NavSync` | the store with everything that writes to it; the upload loop, the servers, crashes | `NavSync` extends `NavStore` |
| `FacilitySession` | requests, retries, lists and definitions over one SimConnect handle | |
| `AirportDetail` | decoder, keys, fetch and write of one airport's detail | takes what a call of `FacilitySession` may end in |
| `StationFetch` | the fetches of fixes, VORs and NDBs that share an ident | likewise |
| `ThreadView` | the panel's thread cache and lease with the sidecar's thread and a server | |
| `Panel` | the pages that send, what they keep, and CFG's save | |
| `MC*` | each of them with the sets and symmetries TLC uses. `MCSimLink` (link, wire), `MCSidecar` (sidecar, config file), `MCDatalinkService` (service, words), `MCFacilitySession` and `MCUi` explore parts that share no state, one with the others at rest | |
| `Supervisor_proofs`, `SimLink_proofs`, `Sidecar_proofs`, `DatalinkService_proofs`, `NavSync_proofs`, `NavService_proofs` | theorems | extend their module; `SimLink_proofs` also `Wire`, `Sidecar_proofs` also `ConfigFile`, `DatalinkService_proofs` also `WriteOutcome` |
| `Ui_proofs`, `FacilitySession_proofs` | theorems | the first extends `Panel` and `ThreadView`, the second `FacilitySession`, `StationFetch` and `AirportDetail` |

### How state and actions correspond

Variables keep the source's names where they exist. A step is the code between
two points at which something else may run: in the shell, a lock or a channel
operation; in the sidecar, an `await`, a timer or an event. Whatever a handler
calls is inside its action.

*Supervisor.* A caller goes through `Gate`, `Acquire`, `Register`, `Enqueue`,
then `Receive` or `Timeout` and `Abandon`: its `pc` is the line it is at. The
worker is at `boot`, `loop`, `bind` (between sending a request to stdin and
binding it to the generation), `grace` (waiting in `terminate`), `drain`,
`closing` or `done`; `after` is what the caller of `terminate` does next. The
process has its own stdin, its announcements (`said`) and the requests it has
taken on (`work`). A kill may fail (`LeaveBehind`): the process then goes to
`strays` with what its stdin still holds (`todo`) and goes on reading, answering and
talking under its old generation until it ends by itself; the worker goes on
as if it were gone, which is what `terminate` does. The 16-, 64- and 128-slot channels are sequences with a
capacity. Deadlines may pass at any moment at which they are waited for.
The properties follow what only both sides together can break: `TableIsExact`
relates slots, bindings, callers and the answers on their way; `OneProcessHeld`
the process, the worker's hold on it and the crash latch.

*SimLink.* Each connection is a slot, because nothing in the class ties an open
that has succeeded to the `start()` that asked for it. `overlap` is a history
variable: the link's guarantees about its handle (`HandlesAgree`) hold until two
opens have been in flight at once; what happens after is under Findings.

*Sidecar.* Each HTTP request is a slot holding the run it was sent in and
whether it goes over a certificate's dispatcher (`ours`), the only one
`Uplink.close` waits for. `basis` (the run the server axis speaks of) and
`stale` (something shown has changed since the last line) are history
variables. The link is seen through the callbacks it makes while it runs.

*DatalinkService.* `cycle.at` is the await a poll cycle is suspended in, with
the scope it resolved before; `ops` are the webview's requests in flight.
`owed` (a write was answered and no cycle has begun since) is history. Answers
are the classes the code tells apart: landed, refused, gone, failed, malformed.

*ConfigFile.* A value stands for a class of values the code tells apart, and a
rule says which it accepts, what it makes of the others and of a missing one: the
loader has one set of rules, the pages another. A save is open, write, rename and
reload, each of which may fail or be the last thing the app does. `apart` is
history: what an app, its page or its sidecar holds although the file was changed
under it, by hand or by another app; the properties are about the rest.

*Wire.* A pipe carries cells, a part of a line or a newline, and a read returns
any number of them up to `ChunkMax`. The two framers are translated separately
since they differ: the shell's reports an oversized line, the sidecar's drops it.
The rules of both sides are written out, so that they can disagree. `heard` (the
lines a framer has passed on) and `said` (what the service answered) are history.
Deadlines belong to `Supervisor`.

*WriteOutcome.* Each press is at a place on the page, in the shell, in the sidecar
and at the server. A reply is what the classifiers look at: status, code, scope,
body. The words are done, not done and maybe; the three forms never say "not
done". `cut` marks a press a stopping sidecar answered for. About the server it is
assumed that a failure it names by a code has had no effect, that a 401 or 403
comes before anything is done and a 2xx that names what was asked after, and that
a failed handshake has sent nothing. The code rests on all of these; that a PDC
whose upstream timed out has had no effect is the one a server can hardly promise.

*NavDemand, NavService.* Handlers call one another within one turn of the event
loop, so each is an operator on the whole state `d` of the queue, given the link
`c` it sees through its dependencies; an action applies one of them. `pump` is
the await the pump is at. An ident may be shared by a fix and a navaid, because
the server is told idents only. `tries` is history.

*NavStore, NavSync.* A row is the rev of the transaction that last changed it, so
two copies are equal exactly when their revs are. The store outlives a crash, the
pass, the fetch and the loop do not. The server applies what reaches it, also
when nobody waits for the answer any more; `misled` collects the servers whose
cursor was moved by another's answer.

*FacilitySession.* A request is at the line it waits on (gate, slot, answer), its
rows carry the attempt they answer, and the simulator may send rows, ends and
refusals for either attempt at any time. `Close` settles what is out, wakes what
waits and drains the slots in one step, as `close` does.

*AirportDetail.* A record hangs off another and has the columns that decide its
key. Records come in any order in which parents precede children and the legs of
a list keep theirs. `decoder` has the code's parts: nodes by record id, drafts in
order of arrival, lists with their legs, the count of what was not read. The keys
are assigned when the answer is whole. What is stored is a map from keys to rows,
merged as `mergeRow` does. `history` keeps the versions the airport had and which
of them were fetched whole.

*StationFetch.* `asking` is the call that is out, the second and third of a VOR
decided by what the store holds after the one before. The simulator has one of
several skies: stations apart in region, in kind, or in neither.

*ThreadView.* The server's thread, the sidecar's copy with its epoch and the
panel's cache are three sequences of messages, so that a sequence number can be
looked up on both sides. Watch calls are served on threads of their own.

*Panel.* `out` is the set of requests that are out, each with what it was asked
for and, once served, the configuration it was served under; every await ends in
`Answer`. A tour bounds what the user does and which pages are open to it.

## 3. Runs

| Run | Question | Properties |
|---|---|---|
| `relay` | two callers, a crashing sidecar, a worker at its limits: is every call executed at most once, told the truth, and off the books when it returns? | `BoundIsLive`, `TableIsExact`, `RelayRefined` |
| `life` | launches, crashes, failures, buttons, shutdown: one process at most, a true window, the user's intent kept? | `OneProcessHeld`, `ShownStateIsTrue`, live: `ShutdownCompletes`, `IntentSurvivesCrashes` |
| `simlink` | START, STOP, saved configs and drops with opens in flight; lines cut into chunks, too long, from a dying sidecar: is the link carried, is a call told what became of it? | `LinkIsCarried`, `HandlesAgree`, `WireIsTransparent`, live: `Reconnects`, `EveryCallIsTold` |
| `datalink` | cycle, requests, reloads, prefiles, refused tokens; a write cut off, refused or answered anywhere on its way: is the thread the scope's, are the words true? | `PollsWhileWatched`, `ScopeLineIsTrue`, `WordsAreTrue`, `RequestsAreWanted` |
| `sidecar` | runs, reloads, posts, probes, shutdown; saves of two apps that fail, overlap or are cut off: is the status line true, the file whole? | `AxisIsOfThisRun`, `StatusLineIsTrue`, `DiskIsWhole`, `ShownIsInForce`, `OnlyEditsAreSaved`, live: `NeverLeftPending` |
| `navdata` | the demand queue under reconnects, passes, reloads and moved stores: is a wake-up lost, an item doubled, a mint met by a fetch? | `OneTryPerCycle`, `NothingSleeps`, `MintFindsNoFetch` |
| `navlive` | is what the server wants served on a link that stays up? | live: `Served`, with the exceptions it names |
| `sync` | passes, fetches and uploads under lost, late and refused answers, a crash and a config change: is what the cursor claims true? | `AckedRowsAreHeld`, `StoreTellsTheTruth`, `NeverResetToEmpty` |
| `synclive` | does the replica become the store? | live: `Converges` |
| `sync_misled` | is a cursor moved only by its own server? | violated: `CursorIsItsServers` |
| `facility` | late, partial and missing answers, records in any order, refusals, lost writes: is an answer whole, a slot held, the stored airport or station the simulator's? | `AttemptsAreApart`, `LostIsReported`, `AirportIsAsFetched`, `StoredIsSo`, live: `EverythingSettles` |
| `ui` | moves of the scope, deletions, deaths and saves under open pages and requests: does a number name one message, is what is shown what is sent? | `SeqNamesItsMessage`, `KeptIsOfThisConfig`, `OneRequestOut`, `SendsWhatIsShown`, live: `PagesAreServed` |

All hold but the one that is said to be violated. Some properties are conjunctions of
what belongs together: `HandlesAgree` has `ConfigInForce` and the three about the
handle, `PollsWhileWatched` that a write is followed up, `StatusLineIsTrue` the config
and app axes and `ReportsEveryChange`, `PagesAreServed` the panel's liveness. Deadlock is not
checked where the parts may stop: everything settled, all budgets used up.

### Findings

`findings` quotes the sentence each is about. One has a run, `sync_misled`: a
config saved while a snapshot is exported sends it to the new server and moves the
old server's cursor. The others are stated beside the properties that hold, as a
definition TLC finds violated when it is added to the run of its module:

| Definition | Module | What the code does instead |
|---|---|---|
| `OnlyAnnounced` | `Supervisor` | a dead sidecar's hello opens the gate for its successor |
| `DeadlineIsEnforced` | `Supervisor` | a kill that fails is logged and the sidecar left running, beside the next one or behind a shell that has ended |
| `StopClosesTheLink`, `PauseIsLive` | `SimLink` | an open of an earlier session takes the handle; a cycled link keeps its pause |
| `RefusalStopsEverything` | `DatalinkService` | a cycle in flight when an op's token is refused sends its next GETs under that token |
| `LatchSaysWhy`, `PrefileIsOfThisConfig` | `DatalinkService` | a second request overwrites the reason; a leg filed on the old server is kept |
| `ShutdownEnds` | `Sidecar` | the close of a certificate's dispatcher waits for requests without a deadline |
| `UnjudgedIsNotShown` | `ConfigFile` | a line written before the reload shows the configuration of before the save |
| `EditsSurviveASave` | `ConfigFile` | what is typed while a save is out is overwritten by what was sent |
| `BlindDraftsSaveNothing` | `ConfigFile` | a draft made before the panel is told anything writes the defaults |
| `VersionIsKept` | `ConfigFile` | a save makes a file of an unknown version one of version 1 |
| `EveryCallIsTold` with a call in `Spoiled` | `Wire` | a token that occurs in a call's id is taken out of the line, and the answer is nobody's |
| `RefusalsAreFinal` | `WriteOutcome` | a sidecar told to stop answers what it was asking with "sidecar-unavailable", which the pages read as not sent |
| `VanishedRowsAreLost` | `NavSync` | a minted epoch still carries the vanished airports |
| `AbsenceIsAFact` | `AirportDetail` | an airport that answered an attempt and not the retry is recorded absent |
| `NothingOutlivesAnUpdate`, `RowsAreOfOneVersion` | `AirportDetail` | rows of an earlier version stay, or fill the columns of a later one |
| `SharedKeyHasNoPlace` | `StationFetch` | a key found to be shared keeps the position it was given before |
| `ShownThreadIsTheSidecars` | `ThreadView` | a new sidecar's first epoch is taken for the one held |
| `KeptIsOfTheFile` | `Panel` | a file the sidecar refuses leaves the old server answering; what it gives is kept, also after the save that mends the file |
| `KeptIsOfThisConfig` with "unheard" in `SaveAnswers`; `SheetsAreOfThisConfig`, `LinkShownIsCurrent` | `Panel` | a save told as failed forgets nothing; load sheets survive a new server; a link state read before the action is shown after it |

### Bounds

- *Supervisor*: two callers are enough for one to hold a flag, a table slot or
  a queue place against the other; `PendingMax = 1` and `InputCap = 2` make every
  limit reachable, `RequestCap = 2` and `LineCap = 2` let lines of a dead
  generation meet its successor. `MaxGen = 3` allows a crash and a restart with
  calls in flight; `life`, without calls, goes to five launches with a
  budget of one restart, so the latch is reached and left. One sidecar may be left
  behind at a time (`MaxStrays`); in `life` it still says one line (`StrayWords`), in
  `relay` it reads and answers what it was given. `life` has `InputCap = 4` for three
  presses, so none of its STARTs is dropped: with a full stdin queue one can be ("Cannot
  queue sidecar control; input is busy or closed"), and `IntentSurvivesCrashes` is then
  made good only at the next launch.
- *SimLink*: two connections give two overlapping opens; the ladder is counted
  to two, after which only a delay would change.
- *Sidecar*: two requests let an old run's answer meet a new run's; two STOPs
  allow three runs; two configs, one with a certificate.
- *DatalinkService*: two configs and two legs, so that each can be the wrong
  one; two requests beside a cycle, of the three kinds of write that hold a flag
  or drive a cycle.
- *ConfigFile*: five scenes, each with the budgets one question needs: files of
  every kind under one save; an edit by hand; a death with a relaunch; two saves; two
  apps of which one dies. One status line may wait in the pipe.
- *Wire*: every operation with parameters that are taken and that are not, as one
  call; two calls with controls, lines at, below and above the limits, a death. Lines
  have up to three cells and a read returns up to three: a newline may come first,
  last or alone, and a line may span reads.
- *WriteOutcome*: two presses of one family, since families share nothing; every
  reply is of one field each at the values the classifiers tell apart.
- *NavDemand, NavService*: one airport and two points of one ident, a page of one
  entry, a queue of two and parking after two faults make every limit reachable;
  two sessions and two stores let a result come back to another one than it was
  asked on. `navlive` has three points, so that one may hide another.
- *NavSync*: two airports, so that one can vanish while another stays, a fix, two
  servers, batches of one row; two faults and a crash are what it takes to answer
  late and forget. `MaxSpent` bounds all mishaps together.
- *FacilitySession*: two requests over one slot, two attempts of one row each (one
  is enough to be of the wrong attempt; `AttemptsAreAlwaysApart` is for any number of
  rows and slots), a list of two chunks, a definition four
  entries deep that opens one entry at two places; its refusals are nothing, a
  spelling, a group, and an entry with what is below it. The probe and the
  rebuild may each be refused any of these; that is explored with the requests at rest,
  and the requests with a definition that is refused nothing.
- *AirportDetail*: eight airports of up to eight records, each about one thing
  that may go wrong (its comment says which), and none at all; two fetches, an
  update between them, one record unread, one write lost.
- *StationFetch*: seven skies, two regions, four fetches: enough for a list, a
  fetch under each region and one more in any order. The sky does not change in a run.
- *ThreadView*: pages of two rows, a window of two, a cache of two, three messages,
  so that every page change evicts; three budgets of mishaps and keys.
- *Panel*: eight tours, each the pages of one family with two sends at most; in two
  of them the sidecar refuses the file once.

Every bound is a CONSTANT named for it, used in a guard of the action it
limits.

### Fairness

- *Supervisor*: weak fairness of the worker (a thread that is always runnable,
  each of whose waits has a timeout) and of a living sidecar's reading and
  answering; nothing is asked of one left behind. Crashes, a failing `try_wait`, presses and callers are not fair, so
  liveness never rests on something going wrong.
- *SimLink*: weak fairness of its timer, of the events of a lost connection
  and of the end of an open; strong fairness of an open's success, because a
  simulator that refuses for ever is never connected to. `Reconnects` excepts
  the case that leaked connections have used up the slots.
- *Sidecar*: weak fairness of its timers and, in `sidecar`, of answers: the
  HTTP client gives a request up after some minutes, in whatever way. The
  probe is strongly fair because the bound on open requests, which the code does
  not have, may hold it back in between.
- *Wire*: weak fairness of both readers, of the service's answer, of the exit of a
  sidecar that is stopping and of the shell's noticing it. Deaths and requests are
  not fair.
- *DatalinkService*, *WriteOutcome*, *ConfigFile*: none; their properties are safety. That a
  cycle ends rests on the HTTP client's own deadline.
- *NavService* (`navlive`): weak fairness of timers, of prepared and yielded turns,
  of the end of an item and of a pass, since each has a timer over it; strong
  fairness of a page's arrival, because a network that fails every time serves
  nothing.
- *NavSync* (`synclive`): weak fairness of ticks, exports, answers, the interval and
  a server's catching up. Faults, crashes and writes are bounded, never fair.
- *FacilitySession*: weak fairness of what its timers and promises do. The
  simulator is not fair: everything settles although it may never answer.
- *ThreadView*: weak fairness of the poll, the lease's end, events, the panel's
  timers and answers. Keys and mishaps are not fair; `ThreadGetsLoaded` and
  `LeaseFollowsThePages` are about a page that stays or is left for good.

## 4. Proofs

TLAPS proves the following for every value of the constants. The assumptions
are the named `ASSUME`s of the modules (None is nobody's value, callers are
finitely many, capacities are positive, certificates belong to configs, airports and
fixes are finitely many and none is called none, the first thread has a length and
somebody it belongs to, what an answer lists is listed once, a file that holds an object has each field or is known to lack
it, a spelling is of one entry and of one group, the groups of an entry share none, no
line is empty, a request is no longer than a line, and with a chunk after it no longer than
what the sidecar's reader bears), evaluated by the runs.

| Theorem | Says | Strengthening |
|---|---|---|
| `Supervisor_proofs!TypeCorrect` | types, capacities of the queues | `Named`: a caller that waits has an id; `Room`: ids are left for the callers on their way to register |
| `LatchIsKept`, `NoneIsOrphaned`, `OneProcessIsHeld`, `WindowIsTrue` | the latch holds; the process of the latest launch is held or waited for, and one that could not be killed has no call and an old generation; both (`OneProcessHeld`); the window is true | `LifeInv`, below |
| `StoppingLaunchesNothing` | action property: no launch once stopping | - |
| `CallsAreBoundToTheLiving` | a bound call is bound to the live sidecar | `TableInv`: what is not in the table is unbound |
| `FlagsAreHeldByOne` | one call per flag, the part of `TableIsExact` about writes | `FlagInv`: the same without counting |
| `TableIsAlwaysExact` | `TableIsExact`: the relay's books agree on both sides of the worker | `CallInv`, below |
| `CallsAreToldTheTruth` | `RelayRefined`: the supervisor implements `RelaySpec` | `CallInv`: every step maps to `Issue`, `Execute`, `Succeed`, `GiveUp` or a stutter |
| `DatalinkService_proofs!TypeCorrect` | types, and what each stage of a cycle holds | - |
| `ScheduleIsKept` | the poll never stalls, runs only watched, follows up writes | `PollInv`: nothing is owed after a shutdown |
| `WritesAreSingle` | one write of each kind in flight | - |
| `ShownAgrees` | a prefile scope is held, the thread is the scope's | `ShownInv`: what the thread await was asked for is still the scope's |
| `PollsAreLeased`, `RefusalIsObeyed`, `RequestsAreAlwaysWanted` | action properties: no cycle without a lease; from a refusal on no op sends, no cycle starts, the one in flight only goes forward; both (`RequestsAreWanted`) | `Licensed`: why a step may begin a cycle |
| `SimLink_proofs!TypeCorrect`, `RetryIsSingle`, `LinkIsNeverStranded`, `LinkIsAlwaysCarried` | one retry; a running link is served, opening or about to retry; both (`LinkIsCarried`) | types |
| `HandlesAlwaysAgree` | `HandlesAgree`: until two opens overlap, everybody who knows a handle knows the link's, opened under the saved config | `Agreed`: one open at a time, a link that is after a connection serves and lends none, what is listened to is the open handle or a lost connection; `Heeded`: a lost connection with events to come is still listened to |
| `TheWireIsTransparent` (of `Wire`) | `WireIsTransparent`, for any lines, any way to cut them up and any number of calls | `WireInv`, below |
| `Sidecar_proofs!TypeCorrect` | types under the bound on generations | `Bounded`: room for the STOP of a shutdown |
| `ClaimsAreOfThisRun` | the server axis is this run's | types |
| `ChangesAreReported` | every change has a line on its way | - |
| `StatusIsHonest` | that, and a run is on its config, the app axis is true (`StatusLineIsTrue`) | `Held`, `Ended` |
| `DatalinkService_proofs!WordsAreAlwaysTrue` | what the page says of a write is true of the server (`WordsAreTrue`), for any number of presses | `Standing`: whoever lets go of a press answers it with a code that fits what the server may have done, unless a stopping sidecar cut it off; it rests on lemmas about the classifiers |
| `Sidecar_proofs!DiskIsAlwaysWhole` | `DiskIsWhole`, for any number of apps on one file | `Owned`: who writes created the temporary file, and it is whole once written |
| `ShownIsAlwaysInForce` | `ShownIsInForce` | `Known`: the shell knows the tokens of what it reads and saves; `Latest`: the last line on its way tells what is in force |
| `OnlyEditsAreEverSaved` | action property `OnlyEditsAreSaved`: a save changes for the loader what was entered and nothing else | `DraftInv`, below |
| `NavSync_proofs!TypesAlwaysHold` | types; no row is newer than the store | - |
| `AckedRowsAlwaysHeld` | `AckedRowsAreHeld`: what a cursor says a server holds it holds | `CursorInv`, below |
| `StoreAlwaysTellsTheTruth` | `StoreTellsTheTruth`: the stamp and the states of airports are true | `Indexed`: while a pass runs there is no stamp, and what it has read of its list is stored; `Answered`: what a fetch would put back is not "pending" |
| `NeverEmptied` | action property `NeverResetToEmpty` | `Drawable`: a snapshot that is out or overdue has a facility in it |
| `NavService_proofs!NothingEverSleeps` | `NothingSleeps`: the pump never rests over an item it could fetch | `Rests`, `InOnePlace`, `Pumping`, below |
| `OneTryPerCycleAlways` | `OneTryPerCycle`, where the link announces no handle over one it has (`~Overlap`) | `Counted`, below |
| `MintNeverFindsAFetch` | action property `MintFindsNoFetch`, likewise | `Alone`, below |
| `OneRequestAlwaysOut` (`Ui_proofs`, like the next two) | `OneRequestOut`: one request of a family is out | `PanelInv`, below |
| `PanelSendsWhatIsShown` | action property `SendsWhatIsShown` | `Staged`: an action is staged on the page of its kind only |
| `KeptIsAlwaysOfThisConfig` | `KeptIsOfThisConfig`: what is kept is of the file's server and token, or of those a refused file left in force, where no save that reached the file is told as failed (`HonestSaves`) | `Current`, below |
| `SeqAlwaysNamesItsMessage` (`Ui_proofs`) | `SeqNamesItsMessage`, for threads, windows and caches of any size, any number of deaths | `ThreadInv`, below |
| `FacilitySession_proofs!AttemptsAreAlwaysApart` | `AttemptsAreApart`, for any number of requests, slots, rows and lists | `SessionInv`, below |
| `LostIsAlwaysReported` | `LostIsReported`, for any tree of entries and any refusals of the probe and of the rebuild | `PassInv`: a definition that was built is one of `Prunings` rebuilt under some refusals, and goes with what was refused in both |
| `StoredIsAlwaysSo` (of `StationFetch`) | `StoredIsSo`, under any sky | `StationInv`: a fix, a navaid and an absence are each true of the sky, and a call out is of a kind there is |
| `StateIsAlwaysEarned` (of `AirportDetail`) | `StateIsEarned`, the part of `AirportIsAsFetched` about the airport's state | `Earned`: what a fetch that stores nothing puts back was earned before it |
| `AirportIsAlwaysAsFetched` (likewise) | `AirportIsAsFetched`, for any versions of the airport and any order of arrival | `Gathered` and `AsFetched`, below |

Each proof has one lemma per group of actions and a `Next` lemma that puts them
together; the theorem adds the initial states and the temporal rule. Types are
split into parts that one step seldom touches together, so that an action needs
only the parts it changes.

The life of the process needs the most. That the latch holds is not inductive:
a launch would break it if the worker could reach one while latched, so
`Latches` says of every place from which one may be reached (boot, a grace that
ends in a restart, a respawn that is due) that the latch is down, and that no
respawn is due while there is a child. That the window is true needs `Olds`: a
line in the pipe is never newer than the generation, and older without a child,
so `ReadLine` passes over it. `Holds` ties the child to the place of the worker
and the process to the generation. `Outlived` says of a sidecar left behind that its
generation is below the worker's, so that no line of it is read and, with
`CallsAreBoundToTheLiving`, no call is bound to it.

A relayed call needs six invariants at once (`CallInv`). `Claims`: whoever is
inside the relay has an id of its own, with a slot or an answer, and a slot has
its caller. `Journey`: a request is in one place at a time, with its caller, in the
worker's queue, in the sidecar's, or read, and what has been read is in no queue;
this is what makes "executed at most once" inductive. `Truth`: whatever is
answered, in the pipe or in a reply channel, was read. `Carried`: an unbound call
is before the worker or in its hands. `Handed`: what the live sidecar has been
given or has answered is bound to it, except the one request the worker is about
to bind; a line of an older generation says nothing. `Strayed`: what a sidecar left behind still has to
read is in its stdin alone (`Adrift`: in no queue, with no caller on his way, not read
before), no two of them have the same request, and what they work on was read. The
refinement follows from `Claims`, `Journey`, `Truth` and `Strayed`: a register is an `Issue` under an id above all others, a read is an
`Execute` because nobody ran it before, and a return with "answer" is a `Succeed`.

What a cursor says needs `CursorInv`. `AllBehind`: no cursor is ahead of the store.
`Sent`: what is out carries, of the epoch in force, what the store holds up to the
request's rev, and a batch continues the cursor it is for without a gap. `Overdue`:
the same of a request nobody waits for, and its server's cursor is not past it, so
that a server that catches up loses nothing it is said to hold. Then every row at or
below the cursor is on the server (`AllHonest`), or changed since and above the
cursor. That a batch leaves no gap is a lemma about the operator (`BatchIsWhole`:
every row above the cursor and not above the batch's rev is in the batch, however
the tables were clipped); it rests on facts about finite sets that would be proved by
induction (a greatest member, a lowest part of a given size), had here from the
well-foundedness of strict inclusion: a smallest counterexample is not one.

What the demand queue promises rests on the invariant of `NavService_proofs`. `InOnePlace`:
an item is in one lane once, in flight, parked or none of these. `Pumping`: what the pump
works on is of a session and a store the queue has noticed, which is what tells it, after
its fetch, that the service has moved on. `Rests` is `NothingSleeps` said for one state
after another: whatever makes an item fetchable (a page, a session, a store, an export
whose definitions are there) wakes a pump that is idle. `Counted` ties the tries of the
property to the faults the queue counts: on the session and store in use they are at least
as many, or the queue has yet to notice the two and nothing has been tried on them.
`Alone`: a pass has the connection to itself, and a fetch excludes a pass and is on the last
session. The last two hold only where the link announces no handle over one it has, nor before the
pass on the last one has ended (`~Overlap`): the pass's requests are rejected with its
handle, and the next open waits for the link's retry. `SimLink` shows that a handle replaces none until two opens overlap (`HandlesAgree`);
with `Overlap` TLC finds a pass, begun on a handle since replaced, that mints an epoch
while the queue fetches on the new one. The lemmas about lists that come first (what a
list keeps of a set, in one place and in order) are had from a least counterexample.

What the panel promises rests on `PanelInv`. `Single` ties every flag to the requests
of its family: while one is out it is the only one and the flag is up; the flag is put
down only by its own answer, never by a page change or by what a save makes the panel
forget. `Current` says what a save may leave behind: either all that is kept, and all
that a live answer may still add, is of a configuration in `Of` (`Agreed`: a live
request that is not behind a reload is out only while the sidecar runs under one of
these, and the cached server is the file's unless its reading is on the way), or the
answer that makes the panel forget it all is about to be handled (`Forgetting`). `Of` is
the file's configuration and `outlived`, those that stayed in force over a file the
sidecar refused since the panel last forgot; what is in force is none of them only while
a reload is queued (`InForce`), and a save that makes the panel forget then empties
`outlived`. So a configuration no refusal left in force is never answered for unnoticed;
that one so left is not the file's is a finding.
`HonestSaves` is a hypothesis about `SaveAnswers` that the run satisfies; without it
the property is false (Findings).

That a number names its message rests on `ThreadInv`. `Behind`: an epoch the panel
holds or is about to hear is of a sidecar that is or was, and not above the epochs that
one has given out, so a thread that begins anew has an epoch nobody has yet. `Fits`: what
the panel holds of the thread in force agrees with the sidecar wherever the sidecar holds
it, and holds nothing at or above the total; this second half is what lets a thread grow
under one epoch. An answer fits in the same way, if the cache it was asked for is still
there when it comes (`Awaits`). `Windowed`: a sidecar holds the newest `KeptMax` messages,
so the comparison `storeThread` makes reaches every row it will still hold. The steps of
the session come down to four kinds, each shown to keep this: it moves (pages, lease,
fetch loop), trims its rows, starts anew, or merges an answer.

That a save changes only what was entered rests on `DraftInv`, which follows the values
from the file to the file. A draft of the file that is there agrees with it in every field
that was not entered (`Drafted`): what the pages' rule would send for it the loader reads as
it reads the file, or the rule refuses it and no save leaves. What is sent agrees in the
same way (`Sending`) and holds every field but a token that was not shown, so that a draft
made of what was sent, after the save, agrees with the new file again. The merged text has
what is sent and the rest of the file (`Merged`). All of it is said only while nobody else
has changed the file. What makes it true is a lemma for each field, `Harmless`: the pages'
rule applied twice is the rule, and applied to what is shown of any value, whatever a hand
wrote there, it is refused or does not change what the loader makes of the value. The
default of an absent field, the clamp of a radius, the slash of an address and the words
for "off" each come down to this.

What a session keeps apart rests on `SessionInv`. `SlotsHold` adds to the property that
nobody waits twice; with it, taking the leader out of the list (`OthersWait`, about
`Without`) makes exactly one waiter a holder. That there is a leader at all is a lemma on
the priorities and ages of a list (`SomebodyLeads`), had from a least counterexample.
`Answered` says of a request that is out that its buffer is what it has heard of its own
attempt, and that nothing has been heard of a later one: without the second half the
first is not inductive, since an attempt begins with an empty buffer.

That nothing is lost in silence is a fact about `Pruned` alone. An entry that is not left
was not visited, and then the highest refused entry above it was visited and cannot stay
(`LostAboveTheRest`); or it was visited, and is itself reported. A group that is left has
its first spelling reported, if all are refused, or else the first of the others built, and no
other group can contribute one, since groups are disjoint (`OneOfEachGroup`).

That what is stored of an airport is the airport rests on `Gathered` and `AsFetched`. While
nothing that arrived was missed, the decoder `Follows` the records: drafts and the procedures
that have arrived correspond one to one; each list of a draft is the procedure's own, for one
role, or that of one of its transitions, and holds (`Lined`) the legs that have arrived under
it, in order; a runway has its ends by the position of its thresholds. It says nothing once
a record was missed, since then the fetch stores nothing. The simulator may send
the procedures interleaved in any order; what it keeps is that a record comes after its parent
and its elder siblings (`Timely`), and that is what makes a list's legs come in order. What
is stored when the last record has arrived (`HoldsTheTree`) then needs the keys: the order
`ComesFirst` puts on drafts of one name is total on columns of one length (`SortsBefore`), so the
drafts ahead of one are strictly fewer than those ahead of the next (`RankFollows`), no
two share a key (`KeysApart`), and a draft's number is decided by its columns, not by the order
of arrival. That the store holds nothing else after a first fetch (`HoldsNothingElse`)
counts: the leg rows and the records of legs are in bijection (`AsManyLegs`), as the
procedures are (`AsManyProcedures`).

The theorem assumes of the simulator's data what `VersionsAssumption` (`AirportDetail`) says:
records of the types asked for, as many columns for each record of a type, a procedure
declaring only the legs of its kind, and that a runway sent twice is the same row and has
thresholds in one place only. The last is what the code assumes (`navdata-detail.ts` 1309-1314,
"a duplicate row with no children to lose"); were it false, thresholds under the second would
overwrite the first one's, since the dropped row still registers its node (902). The order of arrival, the misread layouts, the refusals and
the updates are not assumed.

That the wire adds nothing and takes nothing away rests on `WireInv`. Both pipes are read
against a `Ladder`: the position in the whole stream at which each line begins, so that
what is in the pipe, in a chunk and in a reader's buffer are pieces of one stream (`Shown`),
one after the other, and a reader's place is a line and a number of cells into it
(`Place`). `Down` says that the sidecar's buffer is what has been taken of the next line;
that it is never thrown away follows from its size (`NeverOver`: less than a request is
kept, and with a chunk it stays under the limit). `Up` says the same of the shell, or that
the line is known to be too long and all of it is skipped. When the process ends, the pipe
up loses its end and nothing else (`CutOff`); what the last reading makes of it is the line
or a fragment (`LastMark`). `BooksInv` goes along with the lines: a request is asked once,
a call whose request is on the way or in hand has not been answered in any line, and an
answer in a line is what the service said, or the refusal of a sidecar that is stopping.
That the sidecar refuses none as malformed is `TakesIsTaken`: its rules are the shell's.

**Model-checked only.** Liveness: `ShutdownCompletes`, `IntentSurvivesCrashes`,
`Reconnects`, `EveryCallIsTold`, `NeverLeftPending`, `Served`, `Converges`,
`EverythingSettles`, `PagesAreServed`; it needs ENABLED, which is out of the
prover's reach. Every invariant and every action property that a passing run checks
is a theorem, some under the hypotheses the table names (`~Overlap`, `HonestSaves`),
which the runs satisfy.

## 5. Not modelled, and the plan

Left out of the modelled parts: wording, logging and the log ring; the clock
(the restart window, backoff delays, deadlines: each may pass at any moment);
the contents of payloads and byte layouts; SQL, of which `NavStore` has the effect;
geometry (which fixes of an airport are near); the order in which events reach the
window; where the config file lies.

Not modelled at all: the traffic collector's filtering, the inspection tools, the
preview harness and its stub bridge, the read-only answers' models. `components` in
`PROJECT.json` has the reason for each.

The order of the work, and where it stands:

1. Done: `Supervisor` with `RelaySpec`, `SimLink`, `DatalinkService`, `Sidecar`, and the
   proofs of section 4.
2. Done: the navigation data from demand to replica: `NavDemand`, `NavService`,
   `NavStore`, `NavSync`, `FacilitySession`, `AirportDetail`, `StationFetch`.
3. Done: the webview, the file and the wire: `ThreadView`, `Panel`, `ConfigFile`,
   `Wire`, `WriteOutcome`.
4. Done: the theorems of section 4 for every invariant and action property of the runs.
5. To model next: how the legs of an airway are decoded and keyed
   (`navdata-fixes.ts`, `navdata-keys.ts`); `StationFetch` takes them as read.
