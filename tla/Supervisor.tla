----------------------------- MODULE Supervisor -----------------------------
(***************************************************************************)
(* The Rust shell's sidecar supervisor: the worker thread that owns the    *)
(* sidecar process, its restart budget and its pipes (supervisor.rs), and  *)
(* the relay that correlates the webview's datalink calls with the         *)
(* sidecar's answers (datalink.rs).                                        *)
(*                                                                         *)
(* Three kinds of actor interleave.  CALLERS are the bridge threads inside *)
(* Supervisor::datalink, each blocked on its own one-slot reply channel.   *)
(* The WORKER is the single thread of Worker::run.  The PROCESS is the     *)
(* sidecar of the current generation with its stdin writer and its stdout  *)
(* reader; only what the shell can observe of it is kept.  STRAYS are      *)
(* sidecars that outlived the end of theirs, because killing them failed.  *)
(* Durations are left out: a deadline may pass at any moment at which it   *)
(* is being waited for.                                                    *)
(***************************************************************************)
EXTENDS Naturals, Sequences, FiniteSets

CONSTANTS
  Callers,     \* bridge threads that may call Supervisor::datalink
  CallOps,     \* the ops they call with
  Builds,      \* the feature sets a sidecar's hello may announce
  PressKinds,  \* the buttons that are pressed
  MaxCalls,    \* bound: ids handed out by the relay
  MaxGen,      \* bound: no launch once the generation counter is here
  MaxPresses,  \* bound: START / STOP / RESTART / RELOAD presses
  MaxStrays,   \* bound: sidecars left behind that are still running
  StrayWords,  \* bound: lines one of them still says, answers aside
  PendingMax,  \* datalink.rs PENDING_MAX (8)
  RequestCap,  \* capacity of the worker's request channel (64)
  InputCap,    \* capacity of the stdin writer's channel (16)
  LineCap,     \* capacity of the output line channel (128)
  Budget       \* unexpected exits restarted within the window (5)

ASSUME CallersAssumption == IsFiniteSet(Callers)
ASSUME BoundsAssumption ==
  /\ {MaxCalls, MaxGen, MaxPresses, MaxStrays, StrayWords} \subseteq Nat
  /\ {PendingMax, RequestCap, InputCap, LineCap, Budget} \subseteq Nat \ {0}

Ids == 1..MaxCalls
Unbound == 0
NoId == 0

\* The single-flight flag an op takes before it may be sent, "none" if it takes none.
GuardOf(op) ==
  CASE op = "simbrief-prefile" -> "prefile"
    [] op = "clearance" -> "clearance"
    [] op \in {"si-link", "si-unlink", "si-import", "si-pdc"} -> "sayintentions"
    [] OTHER -> "none"

\* The features a sidecar must have announced before an op is sent to it.
NeedsOf(op) ==
  {"datalink"} \cup
  CASE op \in {"simbrief-settings", "simbrief-prefile", "prefile-clear"} -> {"simbrief-prefile"}
    [] op = "clearance" -> {"pdc-clearance"}
    [] op \in {"si-status", "si-link", "si-unlink", "si-import", "si-pdc"} -> {"sayintentions"}
    [] OTHER -> {}

ASSUME BuildsAssumption ==
  Builds \subseteq SUBSET {"datalink", "simbrief-prefile", "pdc-clearance", "sayintentions"}

Controls == {"start", "stop", "restart", "reload"}
ASSUME PressAssumption == PressKinds \subseteq Controls
Guards == {"prefile", "clearance", "sayintentions"}
Outcomes == {"none", "answer", "sidecar-exited", "sidecar-unavailable", "sidecar-outdated",
             "busy", "in-progress", "bad-request", "shell-timeout"}

VARIABLES
  \* callers
  pc,          \* pc[c] : where caller c is inside relay_datalink
  callOp,      \* callOp[c] : the op of its current call
  callId,      \* callId[c] : the id it registered, NoId before that
  told,        \* the ids whose caller got the sidecar's own answer (history)
  held,        \* the single-flight flags that are set
  \* relay (DatalinkRelay)
  nextId,      \* next id to hand out
  opOf,        \* opOf[i] : the op registered under id i
  pending,     \* ids still in the correlation table
  bound,       \* bound[i] : generation a pending id was handed to, or Unbound
  reply,       \* reply[i] : content of i's one-slot reply channel
  \* worker
  stopping,    \* the shutdown flag
  worker,      \* where the worker thread is
  after,       \* what it does once the terminated process is gone
  binding,     \* the id it has just queued to the sidecar
  requests,    \* the request channel
  lines,       \* the output line channel
  child,       \* the worker holds a child handle (and its input queue)
  generation,  \* bumped at every launch, exit and termination
  desired,     \* desired_running
  restartAt,   \* a respawn is scheduled
  attempts,    \* restarts counted in the rolling window
  latched,     \* crash_latched
  hello,       \* latest hello: {} if none, else {"hello"} and its features
  dl,          \* snapshot.datalink
  status,      \* snapshot.status app state
  presses,     \* bound counter: user presses so far
  \* the sidecar process of the latest launch
  proc,        \* "running" or "exited"
  procGen,     \* the generation it was launched under
  build,       \* its features
  said,        \* 0: silent, 1: hello sent, 2: datalink-state sent too
  uplink,      \* it has been told to run the uplink
  stdin,       \* items queued to it and not read yet
  work,        \* requests it has read and not answered
  runs,        \* runs[i] : how many times a sidecar has read request i (history)
  strays       \* the sidecars of earlier launches that could not be killed

callerVars  == <<pc, callOp, callId, told, held>>
relayVars   == <<nextId, opOf, pending, bound, reply>>
childVars   == <<child, generation, stdin>>
statusVars  == <<hello, dl, status>>
workerVars  == <<worker, after, binding>>
controlVars == <<desired, restartAt, attempts, latched>>
procVars    == <<proc, procGen, build, said, uplink, work, runs, strays>>
vars == <<callerVars, relayVars, childVars, statusVars, workerVars, controlVars, procVars,
          stopping, requests, lines, presses>>

Init ==
  /\ pc = [c \in Callers |-> "idle"]
  /\ callOp = [c \in Callers |-> "none"]
  /\ callId = [c \in Callers |-> NoId]
  /\ told = {}
  /\ held = {}
  /\ nextId = 1
  /\ opOf = [i \in Ids |-> "none"]
  /\ pending = {}
  /\ bound = [i \in Ids |-> Unbound]
  /\ reply = [i \in Ids |-> "none"]
  /\ stopping = FALSE
  /\ worker = "boot" /\ after = "none" /\ binding = NoId
  /\ requests = <<>> /\ lines = <<>>
  /\ child = FALSE /\ generation = 0
  /\ desired \in BOOLEAN          \* autoUplink of the config file
  /\ restartAt = FALSE /\ attempts = 0 /\ latched = FALSE
  /\ hello = {} /\ dl = "none" /\ status = "starting"
  /\ presses = 0
  /\ proc = "exited" /\ procGen = 0 /\ build = {} /\ said = 0 /\ uplink = FALSE
  /\ stdin = <<>> /\ work = {} /\ runs = [i \in Ids |-> 0] /\ strays = {}

-----------------------------------------------------------------------------
(* Callers: Supervisor::relay_datalink, one action per critical section.   *)

\* The call ends with this outcome: its flag is dropped with the guard.
Return(c, outcome) ==
  /\ pc' = [pc EXCEPT ![c] = "idle"]
  /\ callOp' = [callOp EXCEPT ![c] = "none"]
  /\ callId' = [callId EXCEPT ![c] = NoId]
  /\ told' = IF outcome = "answer" THEN told \cup {callId[c]} ELSE told
  /\ held' = IF pc[c] \in {"gated", "idle"} THEN held ELSE held \ {GuardOf(callOp[c])}

\* Entries leave the correlation table.
Remove(ids) ==
  /\ pending' = pending \ ids
  /\ bound' = [i \in Ids |-> IF i \in ids THEN Unbound ELSE bound[i]]

\* Bound: an id stays available to every caller on its way to register.
IdsLeft ==
  nextId + Cardinality({c \in Callers : pc[c] \in {"gated", "guarded"}}) <= MaxCalls

\* The stopping flag, the hello and its features, and the parameters are
\* checked; a missing or outdated hello also rewrites the datalink state.
Gate(c, op, valid) ==
  /\ pc[c] = "idle"
  /\ IdsLeft
  /\ \/ /\ stopping
        /\ Return(c, "sidecar-unavailable")
        /\ UNCHANGED dl
     \/ /\ ~stopping /\ hello = {}
        /\ dl' = "unavailable"
        /\ Return(c, "sidecar-unavailable")
     \/ /\ ~stopping /\ hello # {} /\ "datalink" \notin hello
        /\ dl' = "outdated"
        /\ Return(c, "sidecar-outdated")
     \/ /\ ~stopping /\ "datalink" \in hello /\ ~(NeedsOf(op) \subseteq hello)
        /\ Return(c, "sidecar-outdated")
        /\ UNCHANGED dl
     \/ /\ ~stopping /\ NeedsOf(op) \subseteq hello /\ ~valid
        /\ Return(c, "bad-request")
        /\ UNCHANGED dl
     \/ /\ ~stopping /\ NeedsOf(op) \subseteq hello /\ valid
        /\ pc' = [pc EXCEPT ![c] = "gated"]
        /\ callOp' = [callOp EXCEPT ![c] = op]
        /\ UNCHANGED <<callId, told, held, dl>>
  /\ UNCHANGED <<relayVars, childVars, hello, status, workerVars, controlVars, procVars,
                 stopping, requests, lines, presses>>

\* InFlightGuard::acquire, for the ops that take a flag.
FlagTakenUnchecked(op) == FALSE
FlagTaken(op) == GuardOf(op) \in held
Acquire(c) ==
  /\ pc[c] = "gated"
  /\ IF FlagTaken(callOp[c])
     THEN Return(c, "in-progress")
     ELSE /\ pc' = [pc EXCEPT ![c] = "guarded"]
          /\ held' = held \cup ({GuardOf(callOp[c])} \ {"none"})
          /\ UNCHANGED <<callOp, callId, told>>
  /\ UNCHANGED <<relayVars, childVars, statusVars, workerVars, controlVars, procVars,
                 stopping, requests, lines, presses>>

\* DatalinkRelay::register: a fresh id, or busy when the table is full.
Register(c) ==
  /\ pc[c] = "guarded"
  /\ IF Cardinality(pending) >= PendingMax
     THEN /\ Return(c, "busy")
          /\ UNCHANGED relayVars
     ELSE /\ pc' = [pc EXCEPT ![c] = "registered"]
          /\ callId' = [callId EXCEPT ![c] = nextId]
          /\ nextId' = nextId + 1
          /\ opOf' = [opOf EXCEPT ![nextId] = callOp[c]]
          /\ pending' = pending \cup {nextId}
          /\ UNCHANGED <<callOp, told, held, bound, reply>>
  /\ UNCHANGED <<childVars, statusVars, workerVars, controlVars, procVars,
                 stopping, requests, lines, presses>>

\* requests.try_send; the entry is taken back when the queue refuses it, or
\* when the request makes no line (one too long for the sidecar).
Enqueue(c) ==
  /\ pc[c] = "registered"
  /\ \/ /\ Remove({callId[c]})
        /\ \/ Return(c, "bad-request")
           \/ (Len(requests) >= RequestCap \/ worker = "done") /\ Return(c, "busy")
        /\ UNCHANGED requests
     \/ /\ Len(requests) < RequestCap /\ worker # "done"
        /\ requests' = Append(requests, [kind |-> "datalink", id |-> callId[c]])
        /\ pc' = [pc EXCEPT ![c] = "waiting"]
        /\ UNCHANGED <<callOp, callId, told, held, pending, bound>>
  /\ UNCHANGED <<nextId, opOf, reply, childVars, statusVars, workerVars, controlVars,
                 procVars, stopping, lines, presses>>

\* reply.recv_timeout returns an envelope.
Receive(c) ==
  /\ pc[c] = "waiting"
  /\ reply[callId[c]] # "none"
  /\ Return(c, reply[callId[c]])
  /\ reply' = [reply EXCEPT ![callId[c]] = "none"]
  /\ UNCHANGED <<nextId, opOf, pending, bound, childVars, statusVars, workerVars, controlVars, procVars,
                 stopping, requests, lines, presses>>

\* reply.recv_timeout runs out: the entry is abandoned.
Timeout(c) ==
  /\ pc[c] = "waiting"
  /\ reply[callId[c]] = "none"
  /\ pc' = [pc EXCEPT ![c] = "abandoning"]
  /\ UNCHANGED <<callOp, callId, told, held, relayVars, childVars, statusVars, workerVars,
                 controlVars, procVars, stopping, requests, lines, presses>>

\* relay.abandon and the try_recv after it: an answer that landed in between counts.
LateOutcomeOptimistic(i) == IF reply[i] # "none" THEN reply[i] ELSE "answer"
LateOutcome(i) == IF reply[i] # "none" THEN reply[i] ELSE "shell-timeout"
GiveBackForgotten(i) == UNCHANGED <<pending, bound>>
GiveBack(i) == Remove({i})
Abandon(c) ==
  /\ pc[c] = "abandoning"
  /\ GiveBack(callId[c])
  /\ Return(c, LateOutcome(callId[c]))
  /\ reply' = [reply EXCEPT ![callId[c]] = "none"]
  /\ UNCHANGED <<nextId, opOf, childVars, statusVars, workerVars, controlVars,
                 procVars, stopping, requests, lines, presses>>

\* Supervisor::request: a button press is queued, or refused when there is no room.
Press(kind) ==
  /\ ~stopping
  /\ presses < MaxPresses
  /\ presses' = presses + 1
  /\ requests' = IF Len(requests) < RequestCap /\ worker # "done"
                 THEN Append(requests, [kind |-> kind, id |-> NoId]) ELSE requests
  /\ UNCHANGED <<callerVars, relayVars, childVars, statusVars, workerVars, controlVars,
                 procVars, stopping, lines>>

\* WorkerHandle::shutdown: the flag goes up, whatever is queued.
Shutdown ==
  /\ ~stopping
  /\ stopping' = TRUE
  /\ UNCHANGED <<callerVars, relayVars, childVars, statusVars, workerVars, controlVars,
                 procVars, requests, lines, presses>>

-----------------------------------------------------------------------------
(* Pieces of the worker's handlers.                                        *)

\* Worker::control and the datalink send: try_send on the input queue.  The
\* queue of a process that has exited may be closed already; what it still
\* accepts is lost with it.
AcceptsUnbounded == {TRUE}
Accepts == IF proc = "running" THEN {Len(stdin) < InputCap} ELSE BOOLEAN

Queue(item, accepted) ==
  stdin' = IF accepted /\ proc = "running" THEN Append(stdin, item) ELSE stdin

Control(kind) ==
  \E accepted \in Accepts : Queue([kind |-> kind, id |-> NoId], accepted)

FailGenerationAfterBump(g) ==
  LET dead == {i \in pending : bound[i] = g + 1} IN
  /\ Remove(dead)
  /\ reply' = [i \in Ids |-> IF i \in dead THEN "sidecar-exited" ELSE reply[i]]
  /\ UNCHANGED <<nextId, opOf>>

\* DatalinkRelay::fail_generation: everything bound to g is answered and forgotten.
FailGeneration(g) ==
  LET dead == {i \in pending : bound[i] = g} IN
  /\ Remove(dead)
  /\ reply' = [i \in Ids |-> IF i \in dead THEN "sidecar-exited" ELSE reply[i]]
  /\ UNCHANGED <<nextId, opOf>>

\* DatalinkRelay::fail_unbound: one entry no sidecar has been given yet.
FailUnbound(i, code) ==
  /\ IF i \in pending /\ bound[i] = Unbound
     THEN Remove({i}) /\ reply' = [reply EXCEPT ![i] = code]
     ELSE UNCHANGED <<pending, bound, reply>>
  /\ UNCHANGED <<nextId, opOf>>

\* Worker::terminate with a child: shutdown is queued if there is room, the
\* generation is over, and the worker waits for the process in "grace".
Terminate(then) ==
  /\ child' = FALSE
  /\ generation' = generation + 1
  /\ \E accepted \in Accepts : Queue([kind |-> "shutdown", id |-> NoId], accepted)
  /\ FailGeneration(generation)
  /\ dl' = "unavailable"
  /\ worker' = "grace" /\ after' = then

\* The process of the latest launch is no more: what it had not read, and what it
\* had not answered, is lost with it.
Gone ==
  /\ proc' = "exited" /\ said' = 0 /\ uplink' = FALSE
  /\ stdin' = <<>> /\ work' = {}

\* terminate()'s wait: over when the process has exited or, at the deadline,
\* when it has been killed or killing it has failed; it has no other end.
GraceOverOnExitOnly == proc = "exited"
GraceOver == TRUE
KillForgotten == UNCHANGED <<proc, said, uplink, stdin, work>>
Kill == Gone

\* Killing it failed ("Could not terminate sidecar process"): the worker goes on
\* without it, and it with what its stdin holds.
LeaveBehind ==
  /\ proc = "running"
  /\ Cardinality(strays) < MaxStrays
  /\ LET left == {n \in DOMAIN stdin : stdin[n].kind = "datalink"}
     IN  strays' = strays \cup
           {[gen |-> procGen, build |-> build, says |-> StrayWords,
             todo |-> {stdin[n].id : n \in left}, work |-> work]}

\* The first thing a fresh sidecar is told.
FirstInputDropsIntent(want) == <<>>
FirstInput(want) == IF want THEN <<[kind |-> "start", id |-> NoId]>> ELSE <<>>

\* Worker::spawn.  A launch tells the fresh sidecar to start when that is
\* desired; a failed one latches, but for an entry in no directory; one whose
\* pipes cannot be served is terminated again.
Launch(want) ==
  /\ generation < MaxGen
  /\ child' = TRUE
  /\ generation' = generation + 1
  /\ proc' = "running" /\ said' = 0 /\ uplink' = FALSE /\ work' = {}
  /\ procGen' = generation + 1 /\ build' \in Builds
  /\ stdin' = FirstInput(want)
  /\ worker' = "loop" /\ after' = "none"
  /\ UNCHANGED dl

LaunchFails ==
  /\ Gone
  /\ worker' = "loop" /\ after' = "none"
  /\ UNCHANGED <<child, generation, procGen, build, dl>>

HalfLaunch ==
  /\ generation < MaxGen
  /\ generation' = generation + 2
  /\ proc' = "running" /\ said' = 0 /\ uplink' = FALSE /\ work' = {}
  /\ procGen' = generation + 1 /\ build' \in Builds
  /\ stdin' = <<[kind |-> "shutdown", id |-> NoId]>>
  /\ dl' = "unavailable"
  /\ worker' = "grace" /\ after' = "crashed"
  /\ UNCHANGED child

\* spawn() as called with no child: nothing once stopping.  `shown` and
\* `latch` are the app state and the crash latch at the call.
MaySpawnUnchecked == TRUE
MaySpawn == ~stopping
Spawn(want, shown, latch) ==
  \/ /\ ~MaySpawn
     /\ Gone
     /\ worker' = "loop" /\ after' = "none"
     /\ status' = shown /\ latched' = latch
     /\ UNCHANGED <<child, generation, procGen, build, dl>>
  \/ MaySpawn /\ (Launch(want) \/ HalfLaunch) /\ status' = shown /\ latched' = latch
  \/ MaySpawn /\ LaunchFails /\ status' = "crashed" /\ latched' \in {TRUE, latch}

-----------------------------------------------------------------------------
(* The worker thread: Worker::run.                                         *)

\* The thread starts by spawning the sidecar.
Boot ==
  /\ worker = "boot"
  /\ Spawn(desired, status, latched)
  /\ UNCHANGED <<callerVars, relayVars, hello, binding, desired, restartAt, attempts, runs, strays,
                 stopping, requests, lines, presses>>

\* The operation at the head of the request queue is of this kind.
Takes(kind) ==
  /\ worker = "loop"
  /\ requests # <<>>
  /\ Head(requests).kind = kind
  /\ requests' = Tail(requests)

\* START cannot bypass an exhausted crash budget, nor hurry a respawn that is due.
StartMaySpawnLatched == ~restartAt
StartMaySpawn == ~latched /\ ~restartAt

ApplyStart ==
  /\ Takes("start")
  /\ desired' = TRUE
  /\ \/ /\ child
        /\ Control("start")
        /\ UNCHANGED <<child, generation, status, latched, dl, worker, after, procVars>>
     \/ /\ ~child /\ ~StartMaySpawn
        /\ UNCHANGED <<childVars, status, latched, dl, worker, after, procVars>>
     \/ /\ ~child /\ StartMaySpawn
        /\ Spawn(TRUE, status, latched)
        /\ UNCHANGED <<runs, strays>>
  /\ UNCHANGED <<callerVars, relayVars, hello, binding, restartAt, attempts,
                 stopping, lines, presses>>

ApplyStop ==
  /\ Takes("stop")
  /\ desired' = FALSE
  /\ restartAt' = FALSE
  /\ IF child THEN Control("stop") /\ UNCHANGED status
              ELSE status' = "crashed" /\ UNCHANGED stdin
  /\ UNCHANGED <<callerVars, relayVars, child, generation, hello, dl, workerVars, attempts,
                 latched, procVars, stopping, lines, presses>>

ApplyRestart ==
  /\ Takes("restart")
  /\ restartAt' = FALSE
  /\ attempts' = 0
  /\ \/ /\ child
        /\ latched' = FALSE
        /\ Terminate("restart")
        /\ UNCHANGED <<status, procVars>>
     \/ /\ ~child
        /\ Spawn(desired, "restarting", FALSE)
        /\ UNCHANGED <<relayVars, runs, strays>>
  /\ UNCHANGED <<callerVars, hello, binding, desired, stopping, lines, presses>>

\* RELOAD: the sidecar re-reads its file; without one there is nothing to tell.
ApplyReload ==
  /\ Takes("reload")
  /\ \/ child /\ Control("config") /\ UNCHANGED status
     \/ ~child /\ ~restartAt /\ status' = "crashed" /\ UNCHANGED stdin
     \/ ~child /\ restartAt /\ UNCHANGED <<status, stdin>>
  /\ UNCHANGED <<callerVars, relayVars, child, generation, hello, dl, workerVars, controlVars,
                 procVars, stopping, lines, presses>>

\* A relayed request: refused without a sidecar or room, else queued to it and
\* bound to its generation in the next step.
ApplyDatalink ==
  /\ Takes("datalink")
  /\ LET item == Head(requests) IN
     \/ /\ ~child
        /\ FailUnbound(item.id, "sidecar-unavailable")
        /\ UNCHANGED <<stdin, worker, binding>>
     \/ /\ child /\ FALSE \in Accepts
        /\ FailUnbound(item.id, "busy")
        /\ UNCHANGED <<stdin, worker, binding>>
     \/ /\ child /\ TRUE \in Accepts
        /\ Queue(item, TRUE)
        /\ worker' = "bind" /\ binding' = item.id
        /\ UNCHANGED relayVars
  /\ UNCHANGED <<callerVars, child, generation, statusVars, after, controlVars, procVars,
                 stopping, lines, presses>>

BindForgotten ==
  /\ worker = "bind"
  /\ worker' = "loop" /\ binding' = NoId
  /\ UNCHANGED <<callerVars, relayVars, childVars, statusVars, after,
                 controlVars, procVars, stopping, requests, lines, presses>>

\* DatalinkRelay::bind_generation, if the entry is still there.
Bind ==
  /\ worker = "bind"
  /\ bound' = IF binding \in pending THEN [bound EXCEPT ![binding] = generation] ELSE bound
  /\ worker' = "loop" /\ binding' = NoId
  /\ UNCHANGED <<callerVars, nextId, opOf, pending, reply, childVars, statusVars, after,
                 controlVars, procVars, stopping, requests, lines, presses>>

\* A line of the sidecar the worker holds now, not of one that is gone.
CurrentUnchecked(line) == TRUE
Current(line) == line.gen = generation

\* Worker::read_output.  Only a response is looked at when its generation is over.
ReadLine ==
  /\ worker = "loop"
  /\ lines # <<>>
  /\ lines' = Tail(lines)
  /\ LET line == Head(lines)
         current == Current(line)
         known == line.id \in pending /\ bound[line.id] = line.gen
     IN
     \/ /\ line.kind = "hello" /\ current
        /\ hello' = {"hello"} \cup build
        /\ dl' = IF "datalink" \in build THEN "none" ELSE "outdated"
        /\ UNCHANGED <<status, pending, bound, reply>>
     \/ /\ line.kind = "state" /\ current
        /\ dl' = "reported"
        /\ UNCHANGED <<hello, status, pending, bound, reply>>
     \/ /\ line.kind = "status" /\ current
        /\ status' = "reported"
        /\ UNCHANGED <<hello, dl, pending, bound, reply>>
     \/ /\ line.kind = "response" /\ known
        /\ Remove({line.id})
        /\ reply' = [reply EXCEPT ![line.id] = "answer"]
        /\ UNCHANGED statusVars
     \/ /\ IF line.kind = "response" THEN ~known ELSE ~current
        /\ UNCHANGED <<statusVars, pending, bound, reply>>
  /\ UNCHANGED <<callerVars, nextId, opOf, childVars, workerVars, controlVars, procVars,
                 stopping, requests, presses>>

\* try_wait finds the process gone.  The budget forgets the attempts that have
\* left its window, then grants a respawn or latches.
NoticeExit ==
  /\ worker = "loop"
  /\ child /\ proc = "exited"
  /\ child' = FALSE
  /\ generation' = generation + 1
  /\ stdin' = <<>>
  /\ FailGeneration(generation)
  /\ dl' = "unavailable"
  /\ \E counted \in 0..attempts :
       IF counted = Budget
       THEN /\ attempts' = counted
            /\ latched' = TRUE
            /\ status' = "crashed"
            /\ UNCHANGED restartAt
       ELSE /\ attempts' = counted + 1
            /\ restartAt' = TRUE
            /\ status' = "restarting"
            /\ UNCHANGED latched
  /\ UNCHANGED <<callerVars, hello, workerVars, desired, procVars, stopping, requests, lines,
                 presses>>

\* try_wait itself fails: the process is stopped and left down.
InspectFails ==
  /\ worker = "loop"
  /\ child
  /\ Terminate("crashed")
  /\ UNCHANGED <<callerVars, hello, status, binding, controlVars, procVars, stopping, requests,
                 lines, presses>>

\* The restart delay is over.
Respawn ==
  /\ worker = "loop"
  /\ restartAt /\ ~stopping
  /\ restartAt' = FALSE
  /\ Spawn(desired, status, latched)
  /\ UNCHANGED <<callerVars, relayVars, hello, binding, desired, attempts, runs, strays,
                 stopping, requests, lines, presses>>

\* terminate() returns: the process has exited, has been killed or is left behind.
GraceEnd ==
  /\ worker = "grace"
  /\ GraceOver
  /\ UNCHANGED strays \/ LeaveBehind
  /\ \/ /\ after = "restart"
        /\ Spawn(desired, "restarting", latched)
     \/ /\ after # "restart"
        /\ Kill
        /\ worker' = IF after = "quit" THEN "drain" ELSE "loop"
        /\ after' = "none"
        /\ status' = IF after = "crashed" THEN "crashed" ELSE status
        /\ UNCHANGED <<child, generation, latched, dl, procGen, build>>
  /\ UNCHANGED <<callerVars, relayVars, hello, binding, desired, restartAt, attempts, runs,
                 stopping, requests, lines, presses>>

\* The loop sees the stopping flag: the sidecar is terminated first.
StopSeen ==
  /\ worker = "loop"
  /\ stopping
  /\ restartAt' = FALSE
  /\ \/ child /\ Terminate("quit")
     \/ /\ ~child
        /\ worker' = "drain"
        /\ UNCHANGED <<relayVars, childVars, dl, after>>
  /\ UNCHANGED <<callerVars, hello, status, binding, desired, attempts, latched, procVars,
                 stopping, requests, lines, presses>>

\* The requests still queued behind the stop are answered; the receiver itself
\* goes away one step after the queue was found empty.
Drain ==
  /\ worker = "drain"
  /\ \/ /\ requests # <<>>
        /\ requests' = Tail(requests)
        /\ FailUnbound(Head(requests).id, "sidecar-unavailable")
        /\ UNCHANGED worker
     \/ /\ requests = <<>>
        /\ worker' = "closing"
        /\ UNCHANGED <<requests, relayVars>>
  /\ UNCHANGED <<callerVars, childVars, statusVars, after, binding, controlVars, procVars,
                 stopping, lines, presses>>

Close ==
  /\ worker = "closing"
  /\ worker' = "done"
  /\ requests' = <<>>
  /\ UNCHANGED <<callerVars, relayVars, childVars, statusVars, after, binding, controlVars,
                 procVars, stopping, lines, presses>>

-----------------------------------------------------------------------------
(* The sidecar process, as far as the shell sees it.                       *)

\* A line reaches the worker's channel when there is room for it, under the
\* generation its reader was started with.
Send(gen, kind, id) ==
  /\ Len(lines) < LineCap
  /\ lines' = Append(lines, [gen |-> gen, kind |-> kind, id |-> id])
Emit(kind, id) == Send(procGen, kind, id)

\* hello first, its datalink state after it.
Announce ==
  /\ proc = "running"
  /\ said < 2
  /\ said' = said + 1
  /\ Emit(IF said = 0 THEN "hello" ELSE "state", NoId)
  /\ UNCHANGED <<proc, procGen, build, uplink, work, runs, stdin>>

\* The next item on stdin: a control that changes what it does and is reported
\* as a status, the graceful shutdown, or a request it knows the op of.
ReadStdin ==
  /\ proc = "running" /\ said > 0
  /\ stdin # <<>>
  /\ LET item == Head(stdin) IN
     \/ /\ item.kind \in {"start", "stop"}
        /\ uplink' = (item.kind = "start")
        /\ Emit("status", NoId)
        /\ stdin' = Tail(stdin)
        /\ UNCHANGED <<proc, said, work, runs>>
     \/ /\ item.kind = "config"
        /\ stdin' = Tail(stdin)
        /\ UNCHANGED <<proc, said, uplink, work, runs, lines>>
     \/ /\ item.kind = "shutdown"
        /\ Gone
        /\ UNCHANGED <<runs, lines>>
     \/ /\ item.kind = "datalink"
        /\ stdin' = Tail(stdin)
        /\ work' = IF NeedsOf(opOf[item.id]) \subseteq build THEN work \cup {item.id} ELSE work
        /\ runs' = [runs EXCEPT ![item.id] = @ + 1]
        /\ UNCHANGED <<proc, said, uplink, lines>>
  /\ UNCHANGED <<procGen, build>>

Answer(i) ==
  /\ proc = "running"
  /\ i \in work
  /\ work' = work \ {i}
  /\ Emit("response", i)
  /\ UNCHANGED <<proc, procGen, build, said, uplink, runs, stdin>>

\* It dies.
Crash ==
  /\ proc = "running"
  /\ Gone
  /\ UNCHANGED <<procGen, build, runs, lines>>

Process ==
  /\ Announce \/ ReadStdin \/ Crash \/ \E i \in Ids : Answer(i)
  /\ UNCHANGED <<callerVars, relayVars, child, generation, statusVars, workerVars, controlVars,
                 strays, stopping, requests, presses>>

\* A sidecar left behind reads no more than its stdin holds, in an order that is
\* left out.  A status stands for all it says but answers: only its generation is
\* looked at.
Turns(p, q) == strays' = (strays \ {p}) \cup {q}

StraySays(p) ==
  /\ p.says > 0
  /\ Send(p.gen, "status", NoId)
  /\ Turns(p, [p EXCEPT !.says = @ - 1])
  /\ UNCHANGED runs

StrayReads(p, i) ==
  /\ i \in p.todo
  /\ Turns(p, [p EXCEPT !.todo = @ \ {i},
                        !.work = IF NeedsOf(opOf[i]) \subseteq p.build THEN @ \cup {i} ELSE @])
  /\ runs' = [runs EXCEPT ![i] = @ + 1]
  /\ UNCHANGED lines

StrayAnswers(p, i) ==
  /\ i \in p.work
  /\ Send(p.gen, "response", i)
  /\ Turns(p, [p EXCEPT !.work = @ \ {i}])
  /\ UNCHANGED runs

StrayEnds(p) ==
  /\ strays' = strays \ {p}
  /\ UNCHANGED <<runs, lines>>

Stray ==
  /\ \E p \in strays :
       \/ StraySays(p) \/ StrayEnds(p)
       \/ \E i \in Ids : StrayReads(p, i) \/ StrayAnswers(p, i)
  /\ UNCHANGED <<callerVars, relayVars, childVars, statusVars, workerVars, controlVars,
                 proc, procGen, build, said, uplink, work, stopping, requests, presses>>

-----------------------------------------------------------------------------
CallerReturns(c) == Acquire(c) \/ Register(c) \/ Enqueue(c) \/ Receive(c) \/ Timeout(c) \/ Abandon(c)

Webview ==
  \/ \E c \in Callers : CallerReturns(c)
  \/ \E c \in Callers, op \in CallOps, valid \in BOOLEAN : Gate(c, op, valid)
  \/ \E kind \in PressKinds : Press(kind)
  \/ Shutdown

Worker ==
  \/ Boot \/ ApplyStart \/ ApplyStop \/ ApplyRestart \/ ApplyReload \/ ApplyDatalink \/ Bind
  \/ ReadLine \/ NoticeExit \/ Respawn \/ GraceEnd \/ StopSeen \/ Drain \/ Close

Next == Webview \/ Worker \/ InspectFails \/ Process \/ Stray

Spec == Init /\ [][Next]_vars

\* The worker thread keeps running and the sidecar keeps reading its stdin;
\* nothing has to fail, and nothing is asked of a sidecar left behind.
FairSpec == Spec /\ WF_vars(Worker) /\ WF_vars(Process /\ proc' = "running")

-----------------------------------------------------------------------------
(* Properties                                                              *)

\* What the three channels carry: controls have no id, the rest is about a request.
Requests == [kind : Controls, id : {NoId}] \cup [kind : {"datalink"}, id : Ids]
Inputs == [kind : {"start", "stop", "config", "shutdown"}, id : {NoId}] \cup [kind : {"datalink"}, id : Ids]
Lines == [gen : Nat, kind : {"hello", "state", "status"}, id : {NoId}]
         \cup [gen : Nat, kind : {"response"}, id : Ids]
Features == {"datalink", "simbrief-prefile", "pdc-clearance", "sayintentions"}
Strays == [gen : Nat, build : SUBSET Features, says : Nat, todo : SUBSET Ids, work : SUBSET Ids]

\* Every variable has its type; the channels respect their capacities.
TypeOK ==
  /\ pc \in [Callers -> {"idle", "gated", "guarded", "registered", "waiting", "abandoning"}]
  /\ callOp \in [Callers -> CallOps \cup {"none"}]
  /\ callId \in [Callers -> Ids \cup {NoId}]
  /\ told \subseteq Ids
  /\ held \subseteq Guards
  /\ nextId \in 1..(MaxCalls + 1)
  /\ opOf \in [Ids -> CallOps \cup {"none"}]
  /\ pending \subseteq Ids
  /\ bound \in [Ids -> Nat]
  /\ reply \in [Ids -> Outcomes]
  /\ stopping \in BOOLEAN
  /\ worker \in {"boot", "loop", "bind", "grace", "drain", "closing", "done"}
  /\ after \in {"none", "restart", "crashed", "quit"}
  /\ binding \in Ids \cup {NoId}
  /\ requests \in Seq(Requests) /\ Len(requests) <= RequestCap
  /\ lines \in Seq(Lines) /\ Len(lines) <= LineCap
  /\ stdin \in Seq(Inputs) /\ Len(stdin) <= InputCap
  /\ child \in BOOLEAN /\ generation \in Nat
  /\ desired \in BOOLEAN /\ restartAt \in BOOLEAN /\ latched \in BOOLEAN
  /\ attempts \in 0..Budget
  /\ hello \subseteq {"hello"} \cup Features
  /\ dl \in {"none", "unavailable", "outdated", "reported"}
  /\ status \in {"starting", "crashed", "restarting", "reported"}
  /\ presses \in 0..MaxPresses
  /\ proc \in {"running", "exited"} /\ procGen \in Nat
  /\ build \subseteq Features
  /\ said \in 0..2 /\ uplink \in BOOLEAN
  /\ work \subseteq Ids
  /\ runs \in [Ids -> Nat]
  /\ strays \subseteq Strays

\* No call waits on a sidecar that is gone: what is bound is bound to the
\* sidecar the worker holds now (fail_generation on every way out of one).
BoundIsLive ==
  \A i \in pending : bound[i] # Unbound => child /\ bound[i] = generation

\* A call no sidecar has been given is on its way to the worker: its caller is
\* about to queue it, it is in the queue, or the worker has it in its hands.
UnboundIsCarried ==
  worker \notin {"closing", "done"} =>
    \A i \in pending : bound[i] = Unbound =>
      \/ \E c \in Callers : callId[c] = i /\ pc[c] = "registered"
      \/ \E n \in DOMAIN requests : requests[n].kind = "datalink" /\ requests[n].id = i
      \/ worker = "bind" /\ binding = i

\* A slot of the correlation table always belongs to a call that is still
\* inside the relay, so slots are not leaked, and a waiting call has a slot or
\* an answer.
SlotsMatchCalls ==
  /\ \A i \in pending : \E c \in Callers :
       callId[c] = i /\ pc[c] \in {"registered", "waiting", "abandoning"}
  /\ \A c \in Callers : pc[c] \in {"waiting", "abandoning"} =>
       callId[c] \in pending \/ reply[callId[c]] # "none"

\* An answer of the live sidecar to a call still in the table is recognised
\* when it is read: binding after the send never loses a quick answer.
AnswersAreKnown ==
  worker # "bind" =>
    \A n \in DOMAIN lines :
      (lines[n].kind = "response" /\ lines[n].gen = generation /\ lines[n].id \in pending)
        => bound[lines[n].id] = generation

\* A single-flight flag is up exactly while one call that takes it is inside
\* the relay: no two prefiles, clearances or SayIntentions writes at once, and
\* no flag left up by a call that has returned.
OneWriteAtATime ==
  \A g \in Guards :
    LET inside == {c \in Callers : pc[c] \notin {"idle", "gated"} /\ GuardOf(callOp[c]) = g} IN
    /\ Cardinality(inside) <= 1
    /\ g \in held <=> inside # {}

\* The relay's books agree on both sides of the worker: no slot without its call,
\* no call without its slot or its answer, no unbound call that nobody carries,
\* no quick answer of the live sidecar that finds its slot unbound, and no write
\* inside beside another of its kind (supervisor.rs 261-327, 513-520).
TableIsExact == SlotsMatchCalls /\ UnboundIsCarried /\ AnswersAreKnown /\ OneWriteAtATime

\* Nothing is queued to a sidecar that has not said hello yet ("the shell only
\* talks to one that announced the feature in its hello", datalink.rs).
OnlyAnnounced ==
  \A n \in DOMAIN stdin : stdin[n].kind = "datalink" => said > 0

\* With no sidecar, what the window shows is a synthetic state that is true:
\* RESTARTING exactly while a respawn is due, CRASHED otherwise, and never a
\* status or datalink state the dead sidecar left in the pipe.
ShownStateIsTrue ==
  (worker = "loop" /\ ~child) =>
    /\ dl # "reported"
    /\ ~stopping => status = (IF restartAt THEN "restarting" ELSE "crashed")

\* The crash latch holds the sidecar down: no child, no respawn due, until RESTART.
LatchHolds == latched => ~child /\ ~restartAt

\* The process of the latest launch is the one the worker holds, or waits for.
ProcessIsHeld ==
  proc = "running" => (child /\ procGen = generation) \/ (worker = "grace" /\ ~child)

\* The generation of a sidecar left behind is over, and no call is bound to it.
StraysAreOver ==
  \A p \in strays :
    p.gen < generation /\ \A i \in pending : bound[i] # Unbound => bound[i] # p.gen

\* The sidecar process never outlives the worker's hold on it, unless killing it
\* failed; one left behind so is of a generation that is over and has no call.
NoOrphanProcess == ProcessIsHeld /\ StraysAreOver

\* At most one sidecar process that the worker did not fail to kill, and only
\* while the worker holds it or waits for it to end; a latched crash budget
\* leaves none and lets none be launched (supervisor.rs 527-560, 830-889).
OneProcessHeld == NoOrphanProcess /\ LatchHolds

\* As terminate has it, a "two-second kill deadline" enforced on every sidecar
\* (supervisor.rs 864-866).  It does not hold: kill() may fail, and what is then
\* only logged leaves two of them, or one behind a shell that has ended.
DeadlineIsEnforced == strays = {}

\* Once the shutdown flag is up nothing is launched any more.
NothingLaunchedWhenStopping == [][stopping => procGen' = procGen]_vars

\* A shutdown always completes: the thread ends whatever the sidecar does.
ShutdownCompletes == stopping ~> worker = "done"

\* The uplink the user or autoUplink asked for is running again after any
\* number of crashes, unless STOP, a shutdown or a sidecar left down by a
\* failure came in between.
IntentSurvivesCrashes ==
  desired ~> (uplink /\ proc = "running") \/ ~desired \/ stopping \/ (~child /\ ~restartAt)

\* The relay's promise to a caller.
Relay == INSTANCE RelaySpec WITH
  open <- [c \in Callers |-> IF pc[c] \in {"registered", "waiting", "abandoning"}
                             THEN callId[c] ELSE NoId],
  issued <- 1..(nextId - 1),
  runs <- runs,
  told <- told

\* Every relayed call is executed at most once and told the truth about it.
RelayRefined == Relay!Spec
=============================================================================
