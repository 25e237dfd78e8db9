------------------------------- MODULE SimLink -------------------------------
(***************************************************************************)
(* SimConnectLink (sidecar/src/simconnect.ts): the sidecar's connection to *)
(* the simulator, its reconnect ladder and its pause axis.                 *)
(*                                                                         *)
(* The code is single threaded, but open() is awaited: START, STOP and a   *)
(* saved config run while an open is in flight, and the simulator's events *)
(* arrive whenever they like.  Every connection the library hands out is a *)
(* slot of its own, because nothing in the class ties an open that has     *)
(* just succeeded to the call of start() that asked for it.                *)
(***************************************************************************)
EXTENDS Naturals, FiniteSets

CONSTANTS
  Slots,       \* connections that may exist at once
  None,        \* no connection
  Sims,        \* simulator protocols the config may name
  MaxAttempt   \* bound: the ladder is not counted further (its delay is capped)

ASSUME SlotsAssumption == None \notin Slots
ASSUME AttemptAssumption == MaxAttempt \in Nat \ {0}

VARIABLES
  running,    \* between start() and stop()
  config,     \* [sim, traffic]: the part of the config the link reads
  handle,     \* this.handle
  attempt,    \* reconnectAttempt
  scheduled,  \* reconnectScheduled
  timer,      \* reconnectTimer is set
  state,      \* the published sim state
  ex1,        \* usingPauseEx1
  pause,      \* the published pause state: "off" or "on"
  conn,       \* conn[s] : "free", "opening", "open" or "lost"
  proto,      \* proto[s] : the protocol s was opened with
  reg,        \* reg[s] : traffic definitions were registered on s
  listening,  \* listening[s] : our handlers are attached to s
  events,     \* events[s] : quit / close / error events still to fire on a lost s
  attached,   \* the connection the onConnected observer holds
  overlap     \* two opens have been in flight at once (history)

linkVars  == <<running, config, handle, attempt, scheduled, timer>>
shownVars == <<state, ex1, pause>>
connVars  == <<conn, proto, reg, listening, events>>
vars == <<linkVars, shownVars, connVars, attached, overlap>>

Configs == [sim : Sims, traffic : BOOLEAN]

Init ==
  /\ running = FALSE
  /\ config \in Configs
  /\ handle = None
  /\ attempt = 0 /\ scheduled = FALSE /\ timer = FALSE
  /\ state = "sim.idle" /\ ex1 = FALSE /\ pause = "off"
  /\ conn = [s \in Slots |-> "free"]
  /\ proto = [s \in Slots |-> config.sim]
  /\ reg = [s \in Slots |-> FALSE]
  /\ listening = [s \in Slots |-> FALSE]
  /\ events = [s \in Slots |-> 0]
  /\ attached = None
  /\ overlap = FALSE

-----------------------------------------------------------------------------
(* Pieces of the methods.                                                  *)

Opening == {s \in Slots : conn[s] = "opening"}

\* A slot the library may use for the next open.
Unused(s) ==
  \/ conn[s] = "free"
  \/ conn[s] = "lost" /\ events[s] = 0 /\ handle # s

\* The synchronous head of tryConnect, `live` being the connections after
\* whatever the caller has closed: an open is started with the config's protocol.
BeginOpen(live, cfg) ==
  /\ \E s \in Slots :
       /\ Unused(s)
       /\ conn' = [live EXCEPT ![s] = "opening"]
       /\ proto' = [proto EXCEPT ![s] = cfg.sim]
       /\ events' = [events EXCEPT ![s] = 0]
  /\ overlap' = (overlap \/ Opening # {})
  /\ state' = "sim.connecting"

\* closeHandle: the observers are told, every handler is removed, the
\* connection is closed.  Says what `conn` becomes.
Closed == IF handle = None THEN conn ELSE [conn EXCEPT ![handle] = "free"]
DeafenedForgotten == listening
Deafened == IF handle = None THEN listening ELSE [listening EXCEPT ![handle] = FALSE]
DetachedForgotten == attached
Detached == IF handle = None THEN attached ELSE None

\* scheduleReconnect: one pending reconnect at a time.
MayScheduleLimited == running /\ ~scheduled /\ attempt < MaxAttempt
MaySchedule == running /\ ~scheduled

ScheduleReconnect ==
  IF MaySchedule
  THEN /\ scheduled' = TRUE /\ timer' = TRUE
       /\ attempt' = IF attempt < MaxAttempt THEN attempt + 1 ELSE attempt
       /\ state' = "sim.retry"
  ELSE UNCHANGED <<scheduled, timer, attempt, state>>

\* A deliberate close cancels the pending reconnect.
CancelRetryTimerOnly == timer' = FALSE /\ UNCHANGED scheduled
CancelRetry == timer' = FALSE /\ scheduled' = FALSE

\* A successful open ends the episode: the next ladder starts from its base.
LadderKept == attempt
LadderAfterOpen == 0

\* Both settings only take effect at connect time, so either change cycles.
NeedsCycleForSimOnly(new) == running /\ new.sim # config.sim
NeedsCycle(new) == running /\ new # config

-----------------------------------------------------------------------------
(* The methods the sidecar calls.                                          *)

Start ==
  /\ ~running
  /\ running' = TRUE
  /\ attempt' = 0
  /\ scheduled' = FALSE
  /\ BeginOpen(conn, config)
  /\ UNCHANGED <<config, handle, timer, ex1, pause, reg, listening, attached>>

\* stop() may be called whether or not the link runs.
Stop ==
  /\ running' = FALSE
  /\ CancelRetry
  /\ conn' = Closed /\ listening' = Deafened /\ attached' = Detached
  /\ handle' = None
  /\ attempt' = 0
  /\ state' = "sim.idle" /\ ex1' = FALSE /\ pause' = "off"
  /\ UNCHANGED <<config, proto, reg, events, overlap>>

\* setConfig: a changed protocol or traffic flag cycles a running link, the
\* protocol change also starting the ladder over.
SetConfig(new) ==
  /\ new # config
  /\ config' = new
  /\ IF ~NeedsCycle(new)
     THEN UNCHANGED <<running, handle, attempt, scheduled, timer, shownVars, connVars,
                      attached, overlap>>
     ELSE /\ CancelRetry
          /\ attempt' = IF new.sim # config.sim THEN 0 ELSE attempt
          /\ handle' = None
          /\ attached' = Detached
          /\ listening' = Deafened
          /\ BeginOpen(Closed, new)
          /\ UNCHANGED <<running, ex1, pause, reg>>

-----------------------------------------------------------------------------
(* What happens later.                                                     *)

\* open() resolves.  A link stopped meanwhile closes the connection again;
\* otherwise it becomes the handle, its definitions are registered under the
\* config of this moment, its handlers attached and the observers told.
OpenSucceeds(s) ==
  /\ conn[s] = "opening"
  /\ \/ /\ ~running
        /\ conn' = [conn EXCEPT ![s] = "free"]
        /\ UNCHANGED <<handle, attempt, state, reg, listening, attached>>
     \/ /\ running
        /\ conn' = [conn EXCEPT ![s] = "open"]
        /\ handle' = s
        /\ attempt' = LadderAfterOpen
        /\ state' = "sim.connected"
        /\ reg' = [reg EXCEPT ![s] = config.traffic]
        /\ listening' = [listening EXCEPT ![s] = TRUE]
        /\ attached' = s
  /\ UNCHANGED <<running, config, scheduled, timer, ex1, pause, proto, events, overlap>>

\* open() resolves but a registration throws: the handle is kept, nothing
\* listens to it, and a reconnect is scheduled.
RegisterThrows(s) ==
  /\ conn[s] = "opening"
  /\ running
  /\ conn' = [conn EXCEPT ![s] = "open"]
  /\ handle' = s
  /\ IF scheduled
     THEN attempt' = 0 /\ state' = "sim.connected" /\ UNCHANGED <<scheduled, timer>>
     ELSE attempt' = 1 /\ state' = "sim.retry" /\ scheduled' = TRUE /\ timer' = TRUE
  /\ UNCHANGED <<running, config, ex1, pause, proto, reg, listening, events, attached, overlap>>

\* open() rejects.
OpenFails(s) ==
  /\ conn[s] = "opening"
  /\ conn' = [conn EXCEPT ![s] = "free"]
  /\ ScheduleReconnect
  /\ UNCHANGED <<running, config, handle, ex1, pause, proto, reg, listening, events,
                 attached, overlap>>

\* The reconnect timer fires.
TimerFires ==
  /\ timer
  /\ timer' = FALSE
  /\ scheduled' = FALSE
  /\ IF running
     THEN BeginOpen(conn, config)
     ELSE UNCHANGED <<conn, proto, events, overlap, state>>
  /\ UNCHANGED <<running, config, handle, attempt, ex1, pause, reg, listening, attached>>

\* The simulator goes away: up to two of quit, close and error will fire.
SimDrops(s) ==
  /\ conn[s] = "open"
  /\ conn' = [conn EXCEPT ![s] = "lost"]
  /\ events' = [events EXCEPT ![s] = IF listening[s] THEN 2 ELSE 0]
  /\ UNCHANGED <<linkVars, shownVars, proto, reg, listening, attached, overlap>>

\* One of those events: handleDisconnect, which only the current handle passes.
DisconnectEvent(s) ==
  /\ conn[s] = "lost" /\ events[s] > 0
  /\ events' = [events EXCEPT ![s] = @ - 1]
  /\ listening' = [listening EXCEPT ![s] = events[s] > 1]
  /\ IF handle = s
     THEN /\ handle' = None
          /\ attached' = None
          /\ ex1' = FALSE /\ pause' = "off"
          /\ ScheduleReconnect
     ELSE UNCHANGED <<handle, attached, ex1, pause, scheduled, timer, attempt, state>>
  /\ UNCHANGED <<running, config, conn, proto, reg, overlap>>

\* A pause event of a connection we listen to: Pause_EX1, or one of the legacy
\* pair, which counts only until Pause_EX1 has been seen.
PauseEvent(s) ==
  /\ conn[s] = "open" /\ listening[s]
  /\ \/ /\ ex1' = TRUE
        /\ pause' \in {"off", "on"}
     \/ /\ ~ex1
        /\ pause' \in {"off", "on"}
        /\ UNCHANGED ex1
  /\ UNCHANGED <<linkVars, state, connVars, attached, overlap>>

-----------------------------------------------------------------------------
Commands ==
  \/ Start
  \/ Stop
  \/ \E new \in Configs : SetConfig(new)

Simulator ==
  \E s \in Slots :
    OpenSucceeds(s) \/ RegisterThrows(s) \/ OpenFails(s) \/ SimDrops(s)
      \/ DisconnectEvent(s) \/ PauseEvent(s)

Next == Commands \/ Simulator \/ TimerFires

Spec == Init /\ [][Next]_vars

\* Timers fire and the events of a lost connection arrive; a simulator that is
\* asked again and again does not refuse for ever.
LinkFairness ==
  /\ WF_vars(TimerFires)
  /\ WF_vars(\E s \in Slots : DisconnectEvent(s))
  /\ WF_vars(\E s \in Slots : OpenSucceeds(s) \/ RegisterThrows(s) \/ OpenFails(s))
  /\ SF_vars(\E s \in Slots : OpenSucceeds(s))
FairSpec == Spec /\ LinkFairness

-----------------------------------------------------------------------------
(* Properties                                                              *)

TypeOK ==
  /\ running \in BOOLEAN
  /\ config \in Configs
  /\ handle \in Slots \cup {None}
  /\ attempt \in 0..MaxAttempt
  /\ scheduled \in BOOLEAN /\ timer \in BOOLEAN
  /\ state \in {"sim.idle", "sim.connecting", "sim.connected", "sim.retry"}
  /\ ex1 \in BOOLEAN /\ pause \in {"off", "on"}
  /\ conn \in [Slots -> {"free", "opening", "open", "lost"}]
  /\ proto \in [Slots -> Sims]
  /\ reg \in [Slots -> BOOLEAN]
  /\ listening \in [Slots -> BOOLEAN]
  /\ events \in [Slots -> 0..2]
  /\ attached \in Slots \cup {None}
  /\ overlap \in BOOLEAN

Listening == {s \in Slots : listening[s]}

\* A running link is never stranded: it is served by a live handle, a drop of
\* its handle is about to be noticed, an open is in flight, or a retry is due.
NeverStranded ==
  running =>
    \/ handle # None /\ handle \in Listening
    \/ Opening # {}
    \/ timer

\* The guard against a second pending reconnect is up exactly while a retry
\* timer is, and a stopped link has none ("cancels every timer").
OneRetryPending ==
  /\ scheduled <=> timer
  /\ timer => running

\* Whatever mixes of STOP, START, saved configs, failed opens and drops come, a
\* running link is on its way with exactly one retry pending when it needs one,
\* and a stopped link has none (simconnect.ts 284-300, 330-372).
LinkIsCarried == NeverStranded /\ OneRetryPending

\* As long as no two opens have overlapped, the link listens to its handle and
\* to nothing else, bar the tail of events of a connection already given up.
ListensToItsHandle ==
  ~overlap => \A s \in Listening : handle = s \/ conn[s] = "lost"

\* As long as no two opens have overlapped, the definitions in force are those
\* of the saved config: a change is never silently deferred.
ConfigInForce ==
  (~overlap /\ handle # None /\ handle \in Listening) =>
      proto[handle] = config.sim /\ reg[handle] = config.traffic

\* As long as no two opens have overlapped, whoever borrows the connection
\* holds the link's own live handle or nothing.
BorrowedHandleIsLive ==
  (~overlap /\ attached # None) => attached = handle /\ attached \in Listening

\* All three together: everybody who knows a handle knows the link's, and it
\* serves the saved config (simconnect.ts 215-259, 330-476).
HandlesAgree == ListensToItsHandle /\ ConfigInForce /\ BorrowedHandleIsLive

\* As long as no two opens have overlapped, the window says CONNECTED only of a
\* link with a handle, and a served link starts the next drop's ladder afresh.
ShownStateIsTrue ==
  ~overlap =>
    /\ state = "sim.connected" => handle # None
    /\ state = "sim.idle" <=> ~running
    /\ (handle # None /\ handle \in Listening) => attempt = 0 /\ state = "sim.connected"

\* stop() "closes the link" (simconnect.ts): nothing is listened to after it.
StopClosesTheLink == ~running => \A s \in Slots : ~(listening[s] /\ conn[s] = "open")

\* "A stale ACTIVE PAUSE on a dead link is a lie" (simconnect.ts).
PauseIsLive == handle = None => pause = "off"

\* A link that keeps running is served again and again, whatever drops and
\* failures come in between (unless leaked connections have used up the slots).
Reconnects ==
  running ~> \/ ~running
             \/ handle # None /\ handle \in Listening
             \/ \A s \in Slots : ~Unused(s)
=============================================================================
