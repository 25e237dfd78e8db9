------------------------------- MODULE Sidecar -------------------------------
(***************************************************************************)
(* The sidecar process (sidecar/src/index.ts) and its HTTP half            *)
(* (sidecar/src/uplink.ts): START, STOP, config reloads, the reachability  *)
(* probe, the answers of posts and probes that come back whenever they     *)
(* like, the coalesced status line and the shutdown sequence.              *)
(*                                                                         *)
(* One step is what runs between two awaits.  The SimConnect link is seen  *)
(* from outside, by the callbacks it makes while it runs; SimLink models   *)
(* it.  The datalink and navdata services are told of the same reloads and *)
(* never touch what is modelled here.  An answer is one of the classes     *)
(* status.ts tells apart, TLS and transport failures as one.               *)
(***************************************************************************)
EXTENDS Naturals

CONSTANTS
  Configs,   \* the valid configs a file may hold
  Certs,     \* those with a certificate of their own
  Slots,     \* requests that may be open at once (the code has no limit)
  MaxGen,    \* bound on STOPs
  None

ASSUME CertsAssumption == Certs \subseteq Configs
ASSUME NoneAssumption == None \notin Configs \cup Nat
ASSUME MaxGenAssumption == MaxGen \in Nat

VARIABLES
  phase,        \* "starting", "up", then the stages of shutdown: "racing", "closing", "done"
  config,       \* the config in force, None without one
  problems,     \* the last file read was missing or invalid
  appState,
  running,
  gen,          \* runGeneration
  backend,      \* the backend axis
  basis,        \* the run whose request the backend axis speaks of, None before any (history)
  uplink,       \* the config the Uplink object holds, None before it is made
  link,         \* the SimConnectLink: "none" made, "off", "down" (opening or retrying), "up"
  pause,        \* a pause is shown
  fresh,        \* an ingest answer came less than PROBE_INTERVAL_MS ago
  probeTimer,
  statusTimer,
  stale,        \* the shell has not been told of what is shown now (history)
  reqs          \* the HTTP requests in flight

axisVars == <<backend, basis, fresh>>
lineVars == <<statusTimer, stale>>
confVars == <<config, problems, uplink>>
runVars  == <<running, gen, probeTimer, appState>>
simVars  == <<link, pause>>
vars == <<phase, confVars, runVars, axisVars, simVars, lineVars, reqs>>

\* A request: what it is, the run it was made in, and whether the dispatcher
\* the uplink holds now carries it.
Free == [kind |-> "free", gen |-> 0, ours |-> FALSE]

Init ==
  /\ phase = "starting" /\ config = None /\ problems = FALSE /\ uplink = None
  /\ appState = "starting" /\ running = FALSE /\ gen = 0
  /\ backend = "idle" /\ basis = None /\ fresh = FALSE /\ probeTimer = FALSE
  /\ link = "none" /\ pause = FALSE
  /\ statusTimer = FALSE /\ stale = TRUE
  /\ reqs = [s \in Slots |-> Free]

-----------------------------------------------------------------------------
(* The status line.                                                        *)

\* What a status line says of the axes modelled here.
Sim == IF link \in {"none", "off"} THEN "idle" ELSE link
Shown == <<appState, problems, config, Sim, backend, pause>>

Noted == stale' = (stale \/ Shown' # Shown)

\* touch: a status line follows within the coalescing window.
Touched == statusTimer' = TRUE /\ Noted

\* emitStatusNow, at the end of a handler.
Emitted == statusTimer' = FALSE /\ stale' = FALSE

StatusFires ==
  /\ statusTimer /\ Emitted
  /\ UNCHANGED <<phase, confVars, runVars, axisVars, simVars, reqs>>

Heartbeat ==
  /\ phase = "up" /\ Emitted
  /\ UNCHANGED <<phase, confVars, runVars, axisVars, simVars, reqs>>

-----------------------------------------------------------------------------
(* Requests.                                                               *)

\* A request of the given kind goes out on the config the uplink holds after
\* this step, in the run of this step.
Sent(open, kind) ==
  \E s \in Slots :
    /\ open[s] = Free
    /\ reqs' = [open EXCEPT ![s] = [kind |-> kind, gen |-> gen, ours |-> uplink' \in Certs]]

\* rebuildDispatcher: a new certificate leaves what is open to the old agent.
CertOf(c) == IF c \in Certs THEN c ELSE None
Open(new) ==
  IF uplink # None /\ CertOf(new) # CertOf(uplink)
  THEN [s \in Slots |-> [reqs[s] EXCEPT !.ours = FALSE]]
  ELSE reqs

\* probeOnce's guard: ingest traffic is evidence enough.
MayProbe == running' /\ ~fresh

Answers(s, kind) ==
  /\ reqs[s].kind = kind
  /\ reqs' = [reqs EXCEPT ![s] = Free]
  /\ UNCHANGED <<phase, confVars, runVars, simVars>>

\* An answer counts in the run that asked.
CountsInAnyRun(s) == running
Counts(s) == running /\ reqs[s].gen = gen

\* postIngest after the await.
IngestAnswer(s) ==
  /\ Answers(s, "ingest")
  /\ IF Counts(s)
     THEN /\ backend' \in {"ok", "unauthorized", "http-error", "unreachable"}
          /\ basis' = reqs[s].gen /\ fresh' = TRUE
          /\ Touched
     ELSE UNCHANGED <<axisVars, lineVars>>

\* probeOnce after the await.
ProbeAnswer(s) ==
  /\ Answers(s, "probe")
  /\ IF Counts(s)
     THEN /\ backend' \in {"standby", "unreachable"}
          /\ basis' = reqs[s].gen /\ UNCHANGED fresh
          /\ Touched
     ELSE UNCHANGED <<axisVars, lineVars>>

\* postTraffic after the await: the traffic counters, never the backend axis.
TrafficAnswer(s) ==
  /\ Answers(s, "traffic")
  /\ UNCHANGED axisVars
  /\ Touched

\* stopUplink's farewell: only a shutdown waits for it.
GoodbyeAnswer(s) ==
  /\ Answers(s, "goodbye")
  /\ UNCHANGED <<axisVars, lineVars>>

Answer(s) == IngestAnswer(s) \/ ProbeAnswer(s) \/ TrafficAnswer(s) \/ GoodbyeAnswer(s)

\* The probe timer: probeOnce.
ProbeTick ==
  /\ probeTimer
  /\ UNCHANGED <<phase, confVars, runVars, axisVars, simVars, lineVars>>
  /\ MayProbe
  /\ Sent(reqs, "probe")

\* Time passes since the last ingest answer.
Age ==
  /\ fresh /\ fresh' = FALSE
  /\ UNCHANGED <<phase, confVars, runVars, backend, basis, simVars, lineVars, reqs>>

-----------------------------------------------------------------------------
(* The callbacks of the SimConnect link, made while it runs.               *)

\* onFrame, onIngestEvent and onTraffic.
Frame ==
  /\ link = "up"
  /\ UNCHANGED <<phase, confVars, runVars, axisVars, simVars, lineVars>>
  /\ \E kind \in {"ingest", "traffic"} : Sent(reqs, kind)

\* onSimState and onPause.
LinkChanges ==
  /\ link \in {"down", "up"} /\ link' \in {"down", "up"} \ {link}
  /\ UNCHANGED <<phase, confVars, runVars, axisVars, pause, reqs>>
  /\ Touched

PauseChanges ==
  /\ link = "up" /\ pause' = ~pause
  /\ UNCHANGED <<phase, confVars, runVars, axisVars, link, reqs>>
  /\ Touched

-----------------------------------------------------------------------------
(* startUplink and stopUplink.                                             *)

\* startUplink on the config in force after this step, `open` being the
\* requests open by then: the probe starts with the first of a run.
ProbeOnFirstStart == link = "none"
ProbeOnStart == TRUE
StartUplink(open) ==
  /\ running' = TRUE
  /\ appState' = IF problems' THEN appState ELSE "running"
  /\ backend' = IF backend = "idle" THEN "pending" ELSE backend
  /\ probeTimer' = (probeTimer \/ ProbeOnStart)
  /\ IF ~probeTimer /\ ProbeOnStart /\ MayProbe THEN Sent(open, "probe") ELSE reqs' = open
  /\ UNCHANGED <<gen, basis, fresh>>

\* stopUplink.  The axes go back to what a stopped uplink shows.
StoppedAppAlways == "stopped"
StoppedApp == IF config # None /\ ~problems THEN "stopped" ELSE appState
StopUplink ==
  /\ UNCHANGED <<confVars, fresh>>
  /\ running' = FALSE /\ gen' = gen + 1 /\ probeTimer' = FALSE
  /\ link' = IF link = "none" THEN "none" ELSE "off"
  /\ IF running THEN Sent(reqs, "goodbye") ELSE reqs' = reqs
  /\ backend' = "idle" /\ basis' = None /\ pause' = FALSE
  /\ appState' = StoppedApp

\* A START without a config is answered with a status line and nothing else.
Start ==
  /\ phase = "up" /\ ~running
  /\ UNCHANGED <<phase, confVars, pause>>
  /\ Emitted
  /\ IF config # None
     THEN /\ StartUplink(reqs)
          /\ link' = "down"
     ELSE UNCHANGED <<runVars, axisVars, link, reqs>>

Stop ==
  /\ phase = "up" /\ gen < MaxGen
  /\ StopUplink /\ Emitted
  /\ UNCHANGED phase

-----------------------------------------------------------------------------
(* applyConfig.                                                            *)

\* The file is missing or invalid.  A running uplink keeps the config it has.
KeepsNothing == FALSE
KeepsConfig == running
Rejected ==
  /\ problems' = TRUE
  /\ appState' \in {"no-config", "error-config"}
  /\ config' = IF KeepsConfig THEN config ELSE None
  /\ UNCHANGED <<uplink, running, gen, probeTimer, axisVars, simVars, reqs>>

\* The file holds `new`; `auto` when its first load starts the uplink.  A
\* running link may have to reconnect for it.
Applied(new, auto) ==
  /\ problems' = FALSE /\ config' = new /\ uplink' = new
  /\ IF running \/ auto
     THEN /\ StartUplink(Open(new))
          /\ link' \in {"down"} \cup ({link} \cap {"up"})
     ELSE /\ appState' = "stopped" /\ reqs' = Open(new)
          /\ UNCHANGED <<running, gen, probeTimer, axisVars, link>>
  /\ UNCHANGED pause

\* start(): the first load, after hello.
Boot ==
  /\ phase = "starting" /\ phase' = "up"
  /\ Emitted
  /\ \/ Rejected
     \/ \E new \in Configs, auto \in BOOLEAN : Applied(new, auto)

\* The config line: CFG SAVE in the window.
Config ==
  /\ phase = "up" /\ UNCHANGED phase
  /\ Emitted
  /\ Rejected \/ \E new \in Configs : Applied(new, FALSE)

-----------------------------------------------------------------------------
(* shutdown: a shutdown line, the end of stdin, or a signal.               *)

\* The first call does it; any later one returns.
MayShutDownAgain == phase # "starting"
MayShutDown == phase = "up"

Shutdown ==
  /\ MayShutDown
  /\ phase' = IF running THEN "racing" ELSE "closing"
  /\ StopUplink
  /\ statusTimer' = FALSE /\ Noted

\* Promise.race: the farewell is answered, or half the grace has passed.
RaceOver ==
  /\ phase = "racing" /\ phase' = "closing"
  /\ UNCHANGED <<confVars, runVars, axisVars, simVars, lineVars, reqs>>

\* Uplink.close waits for the agent, and the agent for its open requests; the
\* last status line follows.
Closed == \A s \in Slots : ~reqs[s].ours
LastLine ==
  /\ phase = "closing" /\ Closed
  /\ phase' = "done"
  /\ appState' = StoppedApp
  /\ Emitted
  /\ UNCHANGED <<confVars, running, gen, probeTimer, axisVars, simVars, reqs>>

-----------------------------------------------------------------------------
Next ==
  \/ Boot \/ Start \/ Stop \/ Config \/ Shutdown \/ RaceOver \/ LastLine
  \/ \E s \in Slots : Answer(s)
  \/ ProbeTick \/ Age \/ Frame \/ LinkChanges \/ PauseChanges
  \/ StatusFires \/ Heartbeat

Spec == Init /\ [][Next]_vars

\* Timers fire and promises continue.  The probe's fairness is strong because
\* the bound on open requests may hold it back, which nothing in the code does.
TimerFairness ==
  /\ WF_vars(RaceOver) /\ WF_vars(LastLine) /\ WF_vars(Age) /\ SF_vars(ProbeTick)

\* The HTTP client gives a request up after some minutes, so each ends.
AnswerFairness == \A s \in Slots : WF_vars(Answer(s))

\* No request need end: the sidecar is killed two seconds into its shutdown,
\* long before the HTTP client gives up.
GraceSpec == Spec /\ TimerFairness
FairSpec == Spec /\ TimerFairness /\ AnswerFairness

-----------------------------------------------------------------------------
(* Properties                                                              *)

TypeOK ==
  /\ phase \in {"starting", "up", "racing", "closing", "done"}
  /\ config \in Configs \cup {None} /\ uplink \in Configs \cup {None}
  /\ problems \in BOOLEAN /\ running \in BOOLEAN /\ probeTimer \in BOOLEAN
  /\ appState \in {"starting", "no-config", "error-config", "stopped", "running"}
  /\ gen \in 0..MaxGen + 1
  /\ backend \in {"idle", "pending", "ok", "standby", "unauthorized", "http-error", "unreachable"}
  /\ basis \in 0..MaxGen + 1 \cup {None}
  /\ fresh \in BOOLEAN /\ pause \in BOOLEAN /\ statusTimer \in BOOLEAN /\ stale \in BOOLEAN
  /\ link \in {"none", "off", "down", "up"}
  /\ reqs \in [Slots -> [kind : {"free", "ingest", "probe", "traffic", "goodbye"},
                         gen : 0..MaxGen + 1, ours : BOOLEAN]]

\* The backend axis speaks of this run only: nothing asked before a STOP is
\* ever shown after it, and a stopped uplink claims nothing.
AxisIsOfThisRun ==
  IF running THEN backend # "idle" /\ basis \in {None, gen}
             ELSE backend = "idle" /\ basis = None

\* "A typo in the UI must not stop a flight being logged": the uplink runs on a
\* config, and every request on the one the status line names.
RunsOnItsConfig == running => config # None /\ uplink = config

\* The app axis tells the truth to the last line: a rejected file stays
\* reported until a valid one is read, through STOP, START and shutdown, and
\* otherwise the line says whether the uplink runs.
AppTellsTheTruth ==
  phase # "starting" =>
    IF problems THEN appState \in {"no-config", "error-config"}
                ELSE config # None /\ appState = (IF running THEN "running" ELSE "stopped")

\* Every change of what is shown is on its way to the shell: nobody waits for
\* the heartbeat.
ReportsEveryChange == phase = "up" /\ stale => statusTimer

\* Together: the status line names the config in force, and is not left behind.
StatusLineIsTrue == RunsOnItsConfig /\ AppTellsTheTruth /\ ReportsEveryChange

\* A run does not stay "connecting": without frames the probe says something
\* of the server, whatever an earlier run left behind.
NeverLeftPending == backend = "pending" ~> backend # "pending"

\* Shutdown "races a best-effort disconnected event against half of that grace
\* window, and exits cleanly" (architecture.md).
ShutdownEnds == phase = "racing" ~> phase = "done"
=============================================================================
