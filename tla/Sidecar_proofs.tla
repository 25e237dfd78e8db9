---------------------------- MODULE Sidecar_proofs ----------------------------
(***************************************************************************)
(* What Sidecar promises, for every set of configs, any number of requests *)
(* in flight and any bound on STOPs; and, in the second part, ConfigFile.  *)
(* Each invariant is preserved action by action; some of them need a       *)
(* little more than they say:                                              *)
(*                                                                         *)
(*   Bounded  the room a shutdown needs under the bound on generations;    *)
(*   Held     a config in force is the uplink's even while nothing runs,   *)
(*            so that the next START begins on it;                         *)
(*   Ended    nothing runs any more when the last line is written.         *)
(***************************************************************************)
EXTENDS Sidecar, ConfigFile, TLAPS

Bounded == phase \in {"starting", "up"} => gen <= MaxGen
Held == (config # None => uplink = config) /\ (running => config # None)

Kinds == {"free", "ingest", "probe", "traffic", "goodbye"}
Phases == {"starting", "up", "racing", "closing", "done"}
AppStates == {"starting", "no-config", "error-config", "stopped", "running"}
Backends == {"idle", "pending", "ok", "standby", "unauthorized", "http-error", "unreachable"}
Links == {"none", "off", "down", "up"}
Gens == 0..MaxGen + 1
Requests == [Slots -> [kind : Kinds, gen : Gens, ours : BOOLEAN]]

-----------------------------------------------------------------------------
(* Types, in parts that one step seldom touches together.                  *)

ConfTypes ==
  phase \in Phases /\ config \in Configs \cup {None} /\ uplink \in Configs \cup {None}
  /\ problems \in BOOLEAN
RunTypes == running \in BOOLEAN /\ probeTimer \in BOOLEAN /\ appState \in AppStates /\ gen \in Gens
AxisTypes == backend \in Backends /\ basis \in Gens \cup {None} /\ fresh \in BOOLEAN
SimTypes == link \in Links /\ pause \in BOOLEAN
LineTypes == statusTimer \in BOOLEAN /\ stale \in BOOLEAN
Parts == ConfTypes /\ RunTypes /\ AxisTypes /\ SimTypes /\ LineTypes /\ reqs \in Requests

LEMMA TypeParts == TypeOK <=> Parts
  BY DEF TypeOK, Parts, ConfTypes, RunTypes, AxisTypes, SimTypes, LineTypes, Requests, Kinds,
         Phases, AppStates, Backends, Links, Gens

\* A generation in use leaves room for the next, as long as one may come.
LEMMA GenRoom == 0 \in Gens /\ \A g \in Gens : g <= MaxGen => g + 1 \in Gens
  BY MaxGenAssumption DEF Gens

-----------------------------------------------------------------------------
(* The table of requests.                                                  *)

\* A request that goes out, in the run of this step, keeps the table a table.
LEMMA SentTyped ==
  ASSUME NEW open \in Requests, NEW kind \in Kinds, gen \in Gens, Sent(open, kind)
  PROVE  reqs' \in Requests
  BY DEF Sent, Requests

\* So does a new certificate, and an answer.
LEMMA OpenTyped ==
  ASSUME reqs \in Requests, NEW new \in Configs
  PROVE  Open(new) \in Requests
  BY DEF Open, Requests

LEMMA AnswersTyped ==
  ASSUME reqs \in Requests, NEW s \in Slots, NEW kind \in Kinds, Answers(s, kind)
  PROVE  reqs' \in Requests
  BY GenRoom DEF Answers, Requests, Kinds, Free

-----------------------------------------------------------------------------
(* Type correctness                                                        *)

LEMMA InitTypes == Init => Parts /\ Bounded
  <1> SUFFICES ASSUME Init PROVE Parts /\ Bounded
    OBVIOUS
  <1>1. reqs \in Requests
    BY GenRoom DEF Init, Requests, Free, Kinds
  <1>2. Bounded
    BY MaxGenAssumption DEF Init, Bounded
  <1> QED
    BY <1>1, <1>2, GenRoom DEF Init, Parts, ConfTypes, RunTypes, AxisTypes, SimTypes, LineTypes,
                               Phases, AppStates, Backends, Links

\* startUplink, whatever is open by then.
LEMMA StartTypes ==
  ASSUME Parts, NEW open \in Requests, StartUplink(open)
  PROVE  RunTypes' /\ AxisTypes' /\ gen' = gen /\ reqs' \in Requests
  <1>1. reqs' \in Requests
    BY SentTyped DEF StartUplink, Parts, RunTypes, Kinds
  <1>2. RunTypes' /\ gen' = gen
    BY DEF StartUplink, Parts, RunTypes, ProbeOnStart, AppStates
  <1>3. AxisTypes'
    BY DEF StartUplink, Parts, AxisTypes, Backends
  <1> QED BY <1>1, <1>2, <1>3

\* stopUplink, while there is room for another generation.
LEMMA StopTypes ==
  ASSUME Parts, gen <= MaxGen, StopUplink
  PROVE  /\ RunTypes' /\ AxisTypes' /\ SimTypes' /\ UNCHANGED confVars
         /\ reqs' \in Requests
  <1>1. reqs' \in Requests
    BY SentTyped DEF StopUplink, Parts, RunTypes, Kinds
  <1>2. RunTypes'
    BY GenRoom DEF StopUplink, Parts, RunTypes, StoppedApp, AppStates
  <1>3. AxisTypes' /\ SimTypes' /\ UNCHANGED confVars
    BY DEF StopUplink, Parts, AxisTypes, SimTypes, Backends, Links
  <1> QED BY <1>1, <1>2, <1>3

\* applyConfig, whatever the file holds and whoever asks.
LEMMA LoadTypes ==
  ASSUME Parts, \/ Rejected
                \/ \E new \in Configs, auto \in BOOLEAN : Applied(new, auto),
         phase' \in Phases
  PROVE  ConfTypes' /\ RunTypes' /\ AxisTypes' /\ SimTypes' /\ gen' = gen /\ reqs' \in Requests
  <1>1. CASE Rejected
    BY <1>1 DEF Rejected, Parts, ConfTypes, RunTypes, AxisTypes, SimTypes, axisVars, simVars,
                KeepsConfig, AppStates
  <1>2. ASSUME NEW new \in Configs, NEW auto \in BOOLEAN, Applied(new, auto)
        PROVE  ConfTypes' /\ RunTypes' /\ AxisTypes' /\ SimTypes' /\ gen' = gen /\ reqs' \in Requests
    <2>1. Open(new) \in Requests
      BY OpenTyped DEF Parts
    <2>2. ConfTypes' /\ SimTypes'
      BY <1>2 DEF Applied, Parts, ConfTypes, SimTypes, Links
    <2>3. CASE running \/ auto
      BY <1>2, <2>1, <2>2, <2>3, StartTypes DEF Applied
    <2>4. CASE ~(running \/ auto)
      BY <1>2, <2>1, <2>2, <2>4 DEF Applied, Parts, RunTypes, AxisTypes, axisVars, AppStates
    <2> QED BY <2>3, <2>4
  <1> QED BY <1>1, <1>2

LEMMA AnswerTypes ==
  ASSUME Parts, NEW s \in Slots, Answer(s)
  PROVE  AxisTypes' /\ LineTypes' /\ reqs' \in Requests /\ UNCHANGED <<phase, confVars, runVars, simVars>>
  <1>1. reqs' \in Requests /\ UNCHANGED <<phase, confVars, runVars, simVars>>
    BY AnswersTyped
    DEF Parts, Answer, IngestAnswer, ProbeAnswer, TrafficAnswer, GoodbyeAnswer, Answers, Kinds
  <1>2. reqs[s].gen \in Gens
    BY DEF Parts, Requests
  <1>3. AxisTypes'
    BY <1>2 DEF Answer, IngestAnswer, ProbeAnswer, TrafficAnswer, GoodbyeAnswer, Parts, AxisTypes,
                axisVars, Backends
  <1>4. LineTypes'
    BY DEF Answer, IngestAnswer, ProbeAnswer, TrafficAnswer, GoodbyeAnswer, Parts, LineTypes,
           lineVars, Touched, Noted
  <1> QED BY <1>1, <1>3, <1>4

LEMMA NextTypes ==
  ASSUME Parts, Bounded, [Next]_vars
  PROVE  Parts' /\ Bounded'
  <1> DEFINE Same == UNCHANGED <<phase, gen>>
  <1>0. Same => Bounded'
    BY DEF Bounded
  <1>l. Emitted => LineTypes'
    BY DEF Emitted, LineTypes
  <1>c. ASSUME UNCHANGED <<phase, confVars>> PROVE ConfTypes'
    BY <1>c DEF Parts, ConfTypes, confVars
  <1>u. ASSUME UNCHANGED runVars PROVE RunTypes' /\ gen' = gen
    BY <1>u DEF Parts, RunTypes, runVars
  <1>a. ASSUME UNCHANGED axisVars PROVE AxisTypes'
    BY <1>a DEF Parts, AxisTypes, axisVars
  <1>s. ASSUME UNCHANGED simVars PROVE SimTypes'
    BY <1>s DEF Parts, SimTypes, simVars
  <1>n. ASSUME UNCHANGED lineVars PROVE LineTypes'
    BY <1>n DEF Parts, LineTypes, lineVars
  <1>t. Touched => LineTypes'
    BY DEF Touched, Noted, LineTypes, Parts
  <1>1. CASE Boot
    <2>1. phase' \in Phases
      BY <1>1 DEF Boot, Phases
    <2>2. ConfTypes' /\ RunTypes' /\ AxisTypes' /\ SimTypes' /\ gen' = gen /\ reqs' \in Requests
      BY <1>1, <2>1, LoadTypes DEF Boot
    <2>3. Bounded'
      BY <1>1, <2>2 DEF Boot, Bounded
    <2> QED BY <1>1, <1>l, <2>2, <2>3 DEF Boot, Parts
  <1>2. CASE Config
    <2>1. phase' \in Phases
      BY <1>2 DEF Config, Parts, ConfTypes
    <2>2. ConfTypes' /\ RunTypes' /\ AxisTypes' /\ SimTypes' /\ gen' = gen /\ reqs' \in Requests
      BY <1>2, <2>1, LoadTypes DEF Config
    <2> QED BY <1>2, <1>0, <1>l, <2>2 DEF Config, Parts
  <1>3. CASE Start
    <2>1. RunTypes' /\ AxisTypes' /\ gen' = gen /\ reqs' \in Requests
      BY <1>3, <1>u, <1>a, StartTypes DEF Start, Parts
    <2>2. SimTypes'
      BY <1>3 DEF Start, Parts, SimTypes, Links
    <2> QED BY <1>3, <1>0, <1>c, <1>l, <2>1, <2>2 DEF Start, Parts
  <1>4. CASE Stop
    <2>1. gen <= MaxGen
      BY <1>4 DEF Stop, Bounded
    <2>2. Bounded'
      BY <1>4, MaxGenAssumption DEF Stop, StopUplink, Bounded, Parts, RunTypes, Gens
    <2> QED BY <1>4, <1>c, <1>l, <2>1, <2>2, StopTypes DEF Stop, Parts
  <1>5. CASE Shutdown
    <2>1. gen <= MaxGen
      BY <1>5 DEF Shutdown, MayShutDown, Bounded
    <2>2. RunTypes' /\ AxisTypes' /\ SimTypes' /\ UNCHANGED confVars /\ reqs' \in Requests
      BY <1>5, <2>1, StopTypes DEF Shutdown
    <2>3. ConfTypes' /\ LineTypes'
      BY <1>5, <2>2 DEF Shutdown, Parts, ConfTypes, LineTypes, Noted, Phases, confVars
    <2> QED BY <1>5, <2>2, <2>3 DEF Shutdown, Parts, Bounded
  <1>6. CASE RaceOver
    <2>1. ConfTypes' /\ Bounded'
      BY <1>6 DEF RaceOver, Parts, ConfTypes, confVars, Phases, Bounded
    <2> QED BY <1>6, <1>u, <1>a, <1>s, <1>n, <2>1 DEF RaceOver, Parts
  <1>7. CASE LastLine
    <2>1. ConfTypes' /\ Bounded'
      BY <1>7 DEF LastLine, Parts, ConfTypes, confVars, Phases, Bounded
    <2>2. RunTypes'
      BY <1>7 DEF LastLine, Parts, RunTypes, StoppedApp, AppStates
    <2> QED BY <1>7, <1>l, <1>a, <1>s, <2>1, <2>2 DEF LastLine, Parts
  <1>8. ASSUME NEW s \in Slots, Answer(s) PROVE Parts' /\ Bounded'
    BY <1>0, <1>c, <1>u, <1>s, <1>8, AnswerTypes DEF Parts
  <1>9. CASE ProbeTick \/ Frame
    <2>1. reqs' \in Requests
      BY <1>9, SentTyped DEF ProbeTick, Frame, Parts, RunTypes, Kinds
    <2> QED BY <1>9, <1>0, <1>c, <1>u, <1>a, <1>s, <1>n, <2>1 DEF ProbeTick, Frame, Parts
  <1>10. CASE Age
    <2>1. AxisTypes'
      BY <1>10 DEF Age, Parts, AxisTypes
    <2> QED BY <1>10, <1>0, <1>c, <1>u, <1>s, <1>n, <2>1 DEF Age, Parts
  <1>11. CASE LinkChanges \/ PauseChanges
    <2>1. SimTypes'
      BY <1>11 DEF LinkChanges, PauseChanges, Parts, SimTypes, Links
    <2> QED BY <1>11, <1>0, <1>c, <1>u, <1>a, <1>t, <2>1 DEF LinkChanges, PauseChanges, Parts
  <1>12. CASE StatusFires \/ Heartbeat
    BY <1>12, <1>0, <1>c, <1>u, <1>a, <1>s, <1>l DEF StatusFires, Heartbeat, Parts
  <1>13. CASE UNCHANGED vars
    BY <1>13, <1>0, <1>c, <1>u, <1>a, <1>s, <1>n DEF vars, Parts
  <1> QED
    BY <1>1, <1>2, <1>3, <1>4, <1>5, <1>6, <1>7, <1>8, <1>9, <1>10, <1>11, <1>12, <1>13 DEF Next

\* Every variable keeps its type, and the generation its bound.
THEOREM TypeCorrect == Spec => []TypeOK
  <1>1. Parts /\ Bounded /\ [Next]_vars => Parts' /\ Bounded' BY NextTypes
  <1> QED BY InitTypes, TypeParts, <1>1, PTL DEF Spec

-----------------------------------------------------------------------------
(* What the backend axis claims                                            *)

\* A step that leaves the run and the axis alone keeps the claim.
LEMMA AxisKept ==
  ASSUME AxisIsOfThisRun, UNCHANGED <<running, gen, backend, basis>>
  PROVE  AxisIsOfThisRun'
  BY DEF AxisIsOfThisRun

\* A run starts, or goes on, with no claim or with its own.
LEMMA AxisStarts ==
  ASSUME AxisIsOfThisRun, NEW open, StartUplink(open)
  PROVE  AxisIsOfThisRun'
  BY DEF AxisIsOfThisRun, StartUplink

LEMMA AxisStops ==
  ASSUME StopUplink
  PROVE  AxisIsOfThisRun'
  BY DEF AxisIsOfThisRun, StopUplink

LEMMA AxisLoads ==
  ASSUME AxisIsOfThisRun, \/ Rejected
                          \/ \E new \in Configs, auto \in BOOLEAN : Applied(new, auto)
  PROVE  AxisIsOfThisRun'
  <1>1. CASE Rejected
    BY <1>1, AxisKept DEF Rejected, axisVars
  <1>2. ASSUME NEW new \in Configs, NEW auto \in BOOLEAN, Applied(new, auto)
        PROVE  AxisIsOfThisRun'
    <2>1. CASE running \/ auto
      BY <1>2, <2>1, AxisStarts DEF Applied
    <2>2. CASE ~(running \/ auto)
      BY <1>2, <2>2, AxisKept DEF Applied, axisVars
    <2> QED BY <2>1, <2>2
  <1> QED BY <1>1, <1>2

\* Only an answer of this run is believed.
LEMMA AxisAnswers ==
  ASSUME AxisIsOfThisRun, NEW s \in Slots, Answer(s)
  PROVE  AxisIsOfThisRun'
  <1>1. CASE UNCHANGED <<backend, basis>>
    BY <1>1, AxisKept DEF Answer, IngestAnswer, ProbeAnswer, TrafficAnswer, GoodbyeAnswer,
                          Answers, runVars
  <1>2. CASE (IngestAnswer(s) \/ ProbeAnswer(s)) /\ Counts(s)
    BY <1>2 DEF IngestAnswer, ProbeAnswer, Answers, Counts, AxisIsOfThisRun, runVars
  <1> QED
    BY <1>1, <1>2 DEF Answer, IngestAnswer, ProbeAnswer, TrafficAnswer, GoodbyeAnswer, axisVars

LEMMA AxisNext ==
  ASSUME AxisIsOfThisRun, [Next]_vars
  PROVE  AxisIsOfThisRun'
  <1>1. CASE Boot \/ Config
    BY <1>1, AxisLoads DEF Boot, Config
  <1>2. CASE Start
    BY <1>2, AxisStarts, AxisKept DEF Start, runVars, axisVars
  <1>3. CASE Stop \/ Shutdown
    BY <1>3, AxisStops DEF Stop, Shutdown
  <1>4. ASSUME NEW s \in Slots, Answer(s) PROVE AxisIsOfThisRun'
    BY <1>4, AxisAnswers
  <1>5. CASE RaceOver \/ LastLine \/ ProbeTick \/ Age \/ Frame
    BY <1>5, AxisKept DEF RaceOver, LastLine, ProbeTick, Age, Frame, runVars, axisVars
  <1>6. CASE LinkChanges \/ PauseChanges \/ StatusFires \/ Heartbeat \/ UNCHANGED vars
    BY <1>6, AxisKept DEF LinkChanges, PauseChanges, StatusFires, Heartbeat, vars, runVars, axisVars
  <1> QED BY <1>1, <1>2, <1>3, <1>4, <1>5, <1>6 DEF Next

\* No answer to a request of an earlier run is ever shown in a later one, and a
\* stopped uplink claims nothing of the server.
THEOREM ClaimsAreOfThisRun == Spec => []AxisIsOfThisRun
  <1>1. Init => AxisIsOfThisRun BY DEF Init, AxisIsOfThisRun
  <1>2. AxisIsOfThisRun /\ [Next]_vars => AxisIsOfThisRun' BY AxisNext
  <1> QED BY <1>1, <1>2, PTL DEF Spec

-----------------------------------------------------------------------------
(* The config a run is on, and what the app axis says                      *)

\* Nothing runs once a shutdown has begun.
Ended == phase \in {"racing", "closing", "done"} => ~running
Honest == Held /\ AppTellsTheTruth /\ Ended

LEMMA HonestKept ==
  ASSUME Honest, UNCHANGED <<confVars, runVars>>,
         phase' = phase \/ (phase = "racing" /\ phase' = "closing")
  PROVE  Honest'
  BY DEF Honest, Held, AppTellsTheTruth, Ended, confVars, runVars

\* A load leaves the problem reported, or the app axis on what runs.
LEMMA HonestLoads ==
  ASSUME Honest, phase' = "up",
         \/ Rejected
         \/ \E new \in Configs, auto \in BOOLEAN : Applied(new, auto)
  PROVE  Honest'
  <1>1. CASE Rejected
    BY <1>1 DEF Rejected, Honest, Held, AppTellsTheTruth, Ended, KeepsConfig
  <1>2. ASSUME NEW new \in Configs, NEW auto \in BOOLEAN, Applied(new, auto)
        PROVE  Honest'
    <2>1. new # None
      BY NoneAssumption
    <2>2. CASE running \/ auto
      BY <1>2, <2>1, <2>2 DEF Applied, StartUplink, Honest, Held, AppTellsTheTruth, Ended
    <2>3. CASE ~(running \/ auto)
      BY <1>2, <2>1, <2>3 DEF Applied, Honest, Held, AppTellsTheTruth, Ended
    <2> QED BY <2>2, <2>3
  <1> QED BY <1>1, <1>2

\* A stop says "stopped" only over a file that was accepted.
LEMMA HonestStops ==
  ASSUME Honest, phase # "starting", StopUplink
  PROVE  Honest'
  BY DEF StopUplink, StoppedApp, Honest, Held, AppTellsTheTruth, Ended, confVars

LEMMA HonestNext ==
  ASSUME Honest, [Next]_vars
  PROVE  Honest'
  <1>1. CASE Boot \/ Config
    BY <1>1, HonestLoads DEF Boot, Config
  <1>2. CASE Start
    <2>1. CASE config # None
      BY <1>2, <2>1 DEF Start, StartUplink, Honest, Held, AppTellsTheTruth, Ended, confVars
    <2>2. CASE config = None
      BY <1>2, <2>2, HonestKept DEF Start
    <2> QED BY <2>1, <2>2
  <1>3. CASE Stop \/ Shutdown
    BY <1>3, HonestStops DEF Stop, Shutdown, MayShutDown
  <1>4. ASSUME NEW s \in Slots, Answer(s) PROVE Honest'
    BY <1>4, HonestKept DEF Answer, IngestAnswer, ProbeAnswer, TrafficAnswer, GoodbyeAnswer, Answers
  <1>5. CASE LastLine
    BY <1>5 DEF LastLine, StoppedApp, Honest, Held, AppTellsTheTruth, Ended, confVars
  <1>6. CASE RaceOver \/ ProbeTick \/ Age \/ Frame
    BY <1>6, HonestKept DEF RaceOver, ProbeTick, Age, Frame
  <1>7. CASE LinkChanges \/ PauseChanges \/ StatusFires \/ Heartbeat \/ UNCHANGED vars
    BY <1>7, HonestKept DEF LinkChanges, PauseChanges, StatusFires, Heartbeat, vars
  <1> QED BY <1>1, <1>2, <1>3, <1>4, <1>5, <1>6, <1>7 DEF Next

-----------------------------------------------------------------------------
(* The status line                                                         *)

LEMMA ReportNext ==
  ASSUME ReportsEveryChange, [Next]_vars
  PROVE  ReportsEveryChange'
  <1>e. Emitted => ReportsEveryChange'
    BY DEF Emitted, ReportsEveryChange
  <1>t. Touched => ReportsEveryChange'
    BY DEF Touched, ReportsEveryChange
  <1>n. UNCHANGED <<phase, lineVars>> => ReportsEveryChange'
    BY DEF ReportsEveryChange, lineVars
  <1>d. phase' # "up" => ReportsEveryChange'
    BY DEF ReportsEveryChange
  <1>1. CASE Boot \/ Config \/ Start \/ Stop \/ LastLine \/ StatusFires \/ Heartbeat
    BY <1>1, <1>e DEF Boot, Config, Start, Stop, LastLine, StatusFires, Heartbeat
  <1>2. CASE Shutdown \/ RaceOver
    BY <1>2, <1>d DEF Shutdown, RaceOver
  <1>3. ASSUME NEW s \in Slots, Answer(s) PROVE ReportsEveryChange'
    BY <1>3, <1>t, <1>n DEF Answer, IngestAnswer, ProbeAnswer, TrafficAnswer, GoodbyeAnswer, Answers
  <1>4. CASE LinkChanges \/ PauseChanges
    BY <1>4, <1>t DEF LinkChanges, PauseChanges
  <1>5. CASE ProbeTick \/ Age \/ Frame \/ UNCHANGED vars
    BY <1>5, <1>n DEF ProbeTick, Age, Frame, vars
  <1> QED BY <1>1, <1>2, <1>3, <1>4, <1>5 DEF Next

\* Whatever changes on the axes is on its way to the shell.
THEOREM ChangesAreReported == Spec => []ReportsEveryChange
  <1>1. Init => ReportsEveryChange BY DEF Init, ReportsEveryChange
  <1>2. ReportsEveryChange /\ [Next]_vars => ReportsEveryChange' BY ReportNext
  <1> QED BY <1>1, <1>2, PTL DEF Spec

\* A running uplink is on the config the status line names, whatever files were
\* rejected since, the app axis says what is so to the last line, and what
\* changes is on its way.
THEOREM StatusIsHonest == Spec => []StatusLineIsTrue
  <1>1. Init => Honest BY DEF Init, Honest, Held, AppTellsTheTruth, Ended
  <1>2. Honest /\ [Next]_vars => Honest' BY HonestNext
  <1>3. Honest /\ ReportsEveryChange => StatusLineIsTrue
    BY DEF Honest, Held, RunsOnItsConfig, StatusLineIsTrue
  <1> QED BY <1>1, <1>2, <1>3, ChangesAreReported, PTL DEF Spec

(***************************************************************************)
(* What ConfigFile promises of the file, of the configuration shown and of *)
(* the token, for any number of apps that share one file and whatever is   *)
(* written into it.                                                        *)
(*                                                                         *)
(* Four invariants, of which each needs a little more than it says:        *)
(*                                                                         *)
(*   Owned    who writes has created the temporary file, it is there, and  *)
(*            whole once written;                                          *)
(*   Known    the tokens of a text are known from the merge on, and those  *)
(*            of the file whenever the app has read it since it changed;   *)
(*   Latest   the last of the lines on their way tells what is in force;   *)
(*   DraftInv a draft means to the loader what the file does, but for what *)
(*            was entered, and so do what is sent and the merged text.     *)
(***************************************************************************)

Budgets ==
  [apps : SUBSET Apps, files : SUBSET Hands, hands : Nat, saves : Nat, deaths : Nat,
   launches : Nat, entries : Nat, words : Nat]

(* The shape of the state: records with these fields, of whatever values. *)
IsTemp(t) == t = [by |-> t.by, there |-> t.there, whole |-> t.whole, raw |-> t.raw]
IsDisk(d) == d = [file |-> d.file, temp |-> d.temp] /\ IsTemp(d.temp)
IsShell(s) ==
  s = [at |-> s.at, text |-> s.text, shown |-> s.shown, reload |-> s.reload, secrets |-> s.secrets]
IsSide(s) ==
  /\ s = [at |-> s.at, force |-> s.force, running |-> s.running, lines |-> s.lines]
  /\ \E S : s.lines \in Seq(S)
IsApart(r) == r = [draft |-> r.draft, text |-> r.text, tokens |-> r.tokens, force |-> r.force]
IsMap(f) == f = [a \in Apps |-> f[a]]
Shape ==
  /\ allowed \in Budgets /\ IsDisk(disk)
  /\ IsMap(shell) /\ IsMap(side) /\ IsMap(apart)
  /\ \A a \in Apps : IsShell(shell[a]) /\ IsSide(side[a]) /\ IsApart(apart[a])

Owned ==
  /\ disk.file.is # "torn"
  /\ disk.temp.there /\ disk.temp.by # NoApp =>
       disk.temp.by \in Apps /\ shell[disk.temp.by].at \in {"writing", "written"}
  /\ \A a \in Apps : shell[a].at \in {"writing", "written"} =>
       /\ disk.temp.by = a /\ disk.temp.there /\ disk.temp.raw = shell[a].text
       /\ shell[a].at = "written" => disk.temp.whole

Known(a) ==
  /\ shell[a].at \in {"merged", "writing", "written"} => Tokens(shell[a].text) \subseteq shell[a].secrets
  /\ ~apart[a].tokens => TokensOf(disk.file) \subseteq shell[a].secrets
  /\ side[a].at = "up" /\ side[a].force # NoConfig /\ ~apart[a].force =>
       side[a].force["ingestToken"] \in shell[a].secrets

Latest(a) ==
  /\ side[a].at # "up" => side[a].lines = <<>>
  /\ side[a].at = "up" =>
       IF side[a].lines = <<>> THEN shell[a].shown \in {NoConfig, side[a].force}
       ELSE side[a].lines[Len(side[a].lines)] = side[a].force

Inv == Shape /\ Owned /\ \A a \in Apps : Known(a) /\ Latest(a)

-----------------------------------------------------------------------------
(* What the loader makes of a token.                                       *)

LEMMA TokenRead ==
  ASSUME NEW value, Read("ingestToken", value) # Wrong
  PROVE  Read("ingestToken", value) = value /\ value \notin {Absent, Null, ""}
<1>1. LoaderRules["ingestToken"] = Rule({"t1", "t2", " t1"}, <<>>, Wrong)
  BY DEF LoaderRules
<1>2. Read("ingestToken", value) = Obey(Rule({"t1", "t2", " t1"}, <<>>, Wrong), value)
  BY <1>1 DEF Read
<1>3. DOMAIN <<>> = {}
  OBVIOUS
<1> QED
  BY <1>2, <1>3 DEF Obey, Rule, Wrong, Absent, Null

LEMMA TokenLoaded ==
  ASSUME NEW file, Load(file) # NoConfig
  PROVE  Load(file)["ingestToken"] \in TokensOf(file)
<1>1. file.is = "object" /\ Load(file) = Validate(file.raw)
  BY DEF Load
<1>2. "ingestToken" \in DOMAIN LoaderRules /\ "ingestToken" \in Fields
  BY DEF LoaderRules, Fields
<1>3. \A f \in Fields : Read(f, file.raw[f]) # Wrong
  BY <1>1 DEF Validate
<1>4. Validate(file.raw) = [f \in DOMAIN LoaderRules |-> Read(f, file.raw[f])]
  BY <1>3 DEF Validate
<1>5. Load(file)["ingestToken"] = Read("ingestToken", file.raw["ingestToken"])
  BY <1>1, <1>2, <1>4
<1>6. Load(file)["ingestToken"] = file.raw["ingestToken"] /\ file.raw["ingestToken"] \notin {Absent, Null, ""}
  BY <1>2, <1>3, <1>5, TokenRead
<1> QED
  BY <1>1, <1>6 DEF TokensOf, Tokens

-----------------------------------------------------------------------------
(* Lines.                                                                  *)

LEMMA LineAdded ==
  ASSUME NEW s, IsSide(s)
  PROVE  /\ IsSide(Line(s))
         /\ Line(s).at = s.at /\ Line(s).force = s.force
         /\ Line(s).lines # <<>> /\ Line(s).lines[Len(Line(s).lines)] = s.force
<1>1. PICK S : s.lines \in Seq(S)
  BY DEF IsSide
<1> DEFINE T == S \cup {s.force}
           longer == Append(s.lines, s.force)
<1>2. s.lines \in Seq(T)
  BY <1>1
<1>3. longer \in Seq(T) /\ Len(longer) = Len(s.lines) + 1 /\ longer[Len(s.lines) + 1] = s.force
  BY <1>2
<1>4. Line(s) = [at |-> s.at, force |-> s.force, running |-> s.running, lines |-> longer]
  BY DEF Line, IsSide
<1>5. longer # <<>>
  BY <1>2, <1>3
<1> HIDE DEF longer, T
<1> QED
  BY <1>3, <1>4, <1>5 DEF IsSide

-----------------------------------------------------------------------------
(* Steps.                                                                  *)

LEMMA Spent ==
  ASSUME allowed \in Budgets
  PROVE  /\ Spend("hands") => allowed' \in Budgets
         /\ Spend("saves") => allowed' \in Budgets
         /\ Spend("deaths") => allowed' \in Budgets
         /\ Spend("launches") => allowed' \in Budgets
         /\ Spend("entries") => allowed' \in Budgets
         /\ Spend("words") => allowed' \in Budgets
  BY DEF Spend, Budgets

(* A step of one app that leaves the file as it is.                        *)
Others(a) ==
  \A b \in Apps : b # a => shell'[b] = shell[b] /\ side'[b] = side[b] /\ apart'[b] = apart[b]
StepOf(a) ==
  /\ IsDisk(disk') /\ disk'.file = disk.file /\ allowed' \in Budgets
  /\ IsMap(shell') /\ IsMap(side') /\ IsMap(apart') /\ Others(a)
  /\ IsShell(shell'[a]) /\ IsSide(side'[a]) /\ IsApart(apart'[a])

LEMMA StepKeeps ==
  ASSUME Inv, NEW a \in Apps, StepOf(a), Owned', Known(a)', Latest(a)'
  PROVE  Inv'
<1>1. Shape'
  BY DEF StepOf, Others, Inv, Shape
<1>2. ASSUME NEW b \in Apps, b # a PROVE Known(b)' /\ Latest(b)'
  BY <1>2 DEF StepOf, Others, Inv, Known, Latest
<1> QED
  BY <1>1, <1>2 DEF Inv

\* One that only lets the app know more.
Learnt(a, secrets) ==
  /\ StepOf(a) /\ disk' = disk /\ side' = side
  /\ shell'[a].at = shell[a].at /\ shell'[a].text = shell[a].text /\ shell'[a].shown = shell[a].shown
  /\ shell'[a].secrets = shell[a].secrets \cup secrets
  /\ apart'[a].force = apart[a].force
  /\ ~apart'[a].tokens => ~apart[a].tokens \/ TokensOf(disk.file) \subseteq secrets

LEMMA LearntKeeps == ASSUME Inv, NEW a \in Apps, NEW secrets, Learnt(a, secrets) PROVE Inv'
<1>1. Owned'
  BY DEF Learnt, StepOf, Others, Inv, Owned
<1>2. Known(a)'
  BY DEF Learnt, Inv, Known
<1>3. Latest(a)'
  BY DEF Learnt, Inv, Latest
<1> QED
  BY <1>1, <1>2, <1>3, StepKeeps DEF Learnt

\* What a step on one app starts from.
LEMMA Shaped ==
  ASSUME Inv, NEW a \in Apps
  PROVE  /\ allowed \in Budgets /\ IsDisk(disk)
         /\ IsMap(shell) /\ IsMap(side) /\ IsMap(apart)
         /\ IsShell(shell[a]) /\ IsSide(side[a]) /\ IsApart(apart[a])
  BY DEF Inv, Shape

\* Nothing is said of records but their fields.
LEMMA Records ==
  /\ \A at, text, shown, reload, secrets :
       IsShell([at |-> at, text |-> text, shown |-> shown, reload |-> reload, secrets |-> secrets])
  /\ \A draft, text, tokens, force :
       IsApart([draft |-> draft, text |-> text, tokens |-> tokens, force |-> force])
  BY DEF IsShell, IsApart

LEMMA ReadKeeps == ASSUME Inv, NEW a \in Apps, ReadConfig(a) PROVE Inv'
<1> DEFINE draft == IF page[a].draft # NoConfig THEN apart[a].draft
                    ELSE IF page'[a].told = shell[a].shown /\ shell[a].shown # NoConfig THEN "moved" ELSE "no"
           tokens == shell[a].secrets \cup TokensOf(disk.file)
<1>1. /\ apart' = [apart EXCEPT ![a].tokens = FALSE, ![a].draft = draft]
      /\ shell' = [shell EXCEPT ![a].secrets = tokens]
      /\ disk' = disk /\ side' = side /\ allowed' = allowed
  BY DEF ReadConfig
<1> HIDE DEF draft, tokens
<1>2. /\ IsMap(shell) /\ IsMap(apart) /\ IsShell(shell[a]) /\ IsApart(apart[a]) /\ allowed \in Budgets
  BY Shaped
<1>3. shell'[a] = [at |-> shell[a].at, text |-> shell[a].text, shown |-> shell[a].shown,
                   reload |-> shell[a].reload, secrets |-> tokens]
  BY <1>1, <1>2 DEF IsMap, IsShell
<1>4. apart'[a] = [draft |-> draft, text |-> apart[a].text, tokens |-> FALSE, force |-> apart[a].force]
  BY <1>1, <1>2 DEF IsMap, IsApart
<1>5. IsMap(shell') /\ IsMap(apart') /\ \A b \in Apps : b # a => shell'[b] = shell[b] /\ apart'[b] = apart[b]
  BY <1>1, <1>2 DEF IsMap
<1>6. Learnt(a, TokensOf(disk.file))
  <2>1. IsShell(shell'[a]) /\ IsApart(apart'[a])
    BY <1>3, <1>4, Records
  <2>2. /\ shell'[a].at = shell[a].at /\ shell'[a].text = shell[a].text /\ shell'[a].shown = shell[a].shown
        /\ shell'[a].secrets = tokens /\ apart'[a].force = apart[a].force
    BY <1>3, <1>4
  <2>3. StepOf(a)
    BY <1>1, <1>2, <1>5, <2>1, Shaped DEF StepOf, Others
  <2> QED
    BY <1>1, <2>2, <2>3 DEF Learnt, tokens
<1> QED
  BY <1>6, LearntKeeps

LEMMA PageKeeps ==
  ASSUME Inv, NEW a \in Apps, OpenPages(a) \/ EnterField(a) \/ PressSave(a) \/ SaveAnswered(a)
  PROVE  Inv'
<1>1. disk' = disk /\ side' = side /\ shell' = shell /\ allowed' \in Budgets
  BY Shaped, Spent DEF OpenPages, EnterField, PressSave, SaveAnswered
<1>2. IsMap(shell) /\ IsMap(apart) /\ IsShell(shell[a]) /\ IsApart(apart[a])
  BY Shaped
<1>3. IsMap(apart') /\ IsApart(apart'[a]) /\ (\A b \in Apps : b # a => apart'[b] = apart[b])
      /\ apart'[a].force = apart[a].force /\ apart'[a].tokens = apart[a].tokens
  <2>1. CASE apart' = apart
    BY <2>1, <1>2
  <2>2. CASE OpenPages(a)
    <3> DEFINE draft == IF page[a].toRead THEN "blind" ELSE apart[a].draft
    <3>1. apart' = [apart EXCEPT ![a].draft = draft]
      BY <2>2 DEF OpenPages
    <3> HIDE DEF draft
    <3>2. apart'[a] = [draft |-> draft, text |-> apart[a].text, tokens |-> apart[a].tokens, force |-> apart[a].force]
      BY <1>2, <3>1 DEF IsMap, IsApart
    <3>3. IsMap(apart') /\ \A b \in Apps : b # a => apart'[b] = apart[b]
      BY <1>2, <3>1 DEF IsMap
    <3> QED
      BY <3>2, <3>3, Records
  <2> QED
    BY <2>1, <2>2 DEF EnterField, PressSave, SaveAnswered
<1>4. Learnt(a, {})
  <2>1. StepOf(a)
    BY <1>1, <1>2, <1>3, Shaped DEF StepOf, Others
  <2> QED
    BY <1>1, <1>3, <2>1 DEF Learnt
<1> QED
  BY <1>4, LearntKeeps

LEMMA EditKeeps == ASSUME FileAssumption, Inv, EditByHand PROVE Inv'
<1>1. PICK file \in Hands : disk' = [disk EXCEPT !.file = file]
  BY DEF EditByHand
<1>2. allowed' \in Budgets /\ shell' = shell /\ side' = side
  BY Spent DEF EditByHand, Inv, Shape
<1>3. IsDisk(disk') /\ disk'.temp = disk.temp /\ disk'.file.is # "torn"
  <2>1. disk = [file |-> disk.file, temp |-> disk.temp] /\ IsTemp(disk.temp)
    BY DEF Inv, Shape, IsDisk
  <2>2. disk' = [file |-> file, temp |-> disk.temp]
    BY <1>1, <2>1
  <2>3. disk'.file = file /\ disk'.temp = disk.temp
    BY <2>2
  <2> QED
    BY <2>1, <2>2, <2>3 DEF IsDisk, FileAssumption
<1>4. IsMap(apart')
  BY DEF EditByHand, ApartBut, IsMap
<1>5. ASSUME NEW a \in Apps
      PROVE  IsApart(apart'[a]) /\ apart'[a].tokens /\ apart'[a].force = apart[a].force
  <2>1. apart'[a] = [draft |-> "moved", text |-> TRUE, tokens |-> TRUE, force |-> apart[a].force]
    BY DEF EditByHand, ApartBut
  <2> QED
    BY <2>1, Records
<1>6. Shape'
  BY <1>2, <1>3, <1>4, <1>5 DEF Inv, Shape
<1>7. Owned'
  BY <1>2, <1>3 DEF Inv, Owned
<1>8. ASSUME NEW a \in Apps PROVE Known(a)' /\ Latest(a)'
  BY <1>2, <1>5 DEF Inv, Known, Latest
<1> QED
  BY <1>6, <1>7, <1>8 DEF Inv

(* The save.                                                               *)

LEMMA MergeKeeps == ASSUME Inv, NEW a \in Apps, ReadAndMerge(a) PROVE Inv'
<1>1. /\ IsMap(shell) /\ IsMap(apart) /\ IsMap(side) /\ IsDisk(disk) /\ IsShell(shell[a]) /\ IsApart(apart[a])
      /\ IsSide(side[a]) /\ allowed \in Budgets
  BY Shaped
<1>2. disk' = disk /\ side' = side /\ allowed' = allowed
  BY DEF ReadAndMerge
<1>3. CASE shell' = shell /\ apart' = apart
  <2>1. Learnt(a, {})
    BY <1>1, <1>2, <1>3 DEF Learnt, StepOf, Others
  <2> QED
    BY <2>1, LearntKeeps
<1>4. CASE disk.file.is # "broken"
  <2> DEFINE text == Merge(disk.file, page[a].sent)
             known == shell[a].secrets \cup TokensOf(disk.file) \cup Tokens(text)
  <2>1. /\ shell' = [shell EXCEPT ![a].at = "merged", ![a].text = text, ![a].secrets = known]
        /\ apart' = [apart EXCEPT ![a].text = FALSE, ![a].tokens = FALSE]
        /\ shell[a].at = "idle"
    BY <1>4 DEF ReadAndMerge
  <2> HIDE DEF text, known
  <2>2. shell'[a] = [at |-> "merged", text |-> text, shown |-> shell[a].shown, reload |-> shell[a].reload,
                     secrets |-> known]
    BY <1>1, <2>1 DEF IsMap, IsShell
  <2>3. apart'[a] = [draft |-> apart[a].draft, text |-> FALSE, tokens |-> FALSE, force |-> apart[a].force]
    BY <1>1, <2>1 DEF IsMap, IsApart
  <2>4. IsMap(shell') /\ IsMap(apart') /\ \A b \in Apps : b # a => shell'[b] = shell[b] /\ apart'[b] = apart[b]
    BY <1>1, <2>1 DEF IsMap
  <2>5. StepOf(a)
    <3>1. IsShell(shell'[a]) /\ IsApart(apart'[a])
      BY <2>2, <2>3, Records
    <3> QED
      BY <1>1, <1>2, <2>4, <3>1 DEF StepOf, Others
  <2>6. /\ shell'[a].at = "merged" /\ shell'[a].text = text /\ shell'[a].shown = shell[a].shown
        /\ shell'[a].secrets = known /\ apart'[a].force = apart[a].force
    BY <2>2, <2>3
  <2>7. Owned'
    <3>1. shell[a].at = "idle"
      BY <2>1
    <3> QED
      BY <1>2, <2>4, <2>6, <3>1 DEF Inv, Owned
  <2>8. Known(a)'
    BY <1>2, <2>6 DEF Inv, Known, known
  <2>9. Latest(a)'
    BY <1>2, <2>6 DEF Inv, Latest
  <2> QED
    BY <2>5, <2>7, <2>8, <2>9, StepKeeps
<1> QED
  BY <1>3, <1>4 DEF ReadAndMerge

(* A step of the save after the merge: it ends or goes on, and changes only the temporary file. *)
Saves(a, at, text) ==
  /\ IsDisk(disk') /\ disk'.file = disk.file
  /\ side' = side /\ apart' = apart /\ allowed' = allowed
  /\ \/ shell' = [shell EXCEPT ![a].at = at]
     \/ shell' = [shell EXCEPT ![a].at = at, ![a].text = text]
  /\ text = shell[a].text \/ at = "idle"
  /\ shell[a].at \in {"merged", "writing", "written"}

LEMMA SavesKeep ==
  ASSUME Inv, NEW a \in Apps, NEW at, NEW text, Saves(a, at, text),
         IsMap(shell') /\ shell'[a].at = at /\ (\A b \in Apps : b # a => shell'[b] = shell[b]) => Owned'
  PROVE  Inv'
<1>1. /\ IsMap(shell) /\ IsMap(apart) /\ IsMap(side) /\ IsShell(shell[a]) /\ IsApart(apart[a])
      /\ IsSide(side[a]) /\ allowed \in Budgets
  BY Shaped
<1>2. IsMap(shell') /\ \A b \in Apps : b # a => shell'[b] = shell[b]
  BY <1>1 DEF IsMap, Saves
<1>3. PICK kept : /\ shell'[a] = [at |-> at, text |-> kept, shown |-> shell[a].shown, reload |-> shell[a].reload,
                                 secrets |-> shell[a].secrets]
                  /\ kept = shell[a].text \/ at = "idle"
  <2>1. CASE shell' = [shell EXCEPT ![a].at = at]
    <3>1. shell'[a] = [at |-> at, text |-> shell[a].text, shown |-> shell[a].shown, reload |-> shell[a].reload,
                       secrets |-> shell[a].secrets]
      BY <1>1, <2>1 DEF IsMap, IsShell
    <3> QED
      BY <3>1
  <2>2. CASE shell' = [shell EXCEPT ![a].at = at, ![a].text = text]
    <3>1. shell'[a] = [at |-> at, text |-> text, shown |-> shell[a].shown, reload |-> shell[a].reload,
                       secrets |-> shell[a].secrets]
      BY <1>1, <2>2 DEF IsMap, IsShell
    <3> QED
      BY <3>1 DEF Saves
  <2> QED
    BY <2>1, <2>2 DEF Saves
<1>4. /\ shell'[a].at = at /\ shell'[a].shown = shell[a].shown /\ shell'[a].secrets = shell[a].secrets
      /\ shell'[a].text = shell[a].text \/ at = "idle"
  BY <1>3
<1>5. StepOf(a)
  <2>1. IsShell(shell'[a])
    BY <1>3, Records
  <2> QED
    BY <1>1, <1>2, <2>1 DEF StepOf, Others, Saves
<1>6. Known(a)'
  BY <1>4 DEF Inv, Known, Saves
<1>7. Latest(a)'
  BY <1>4 DEF Inv, Latest, Saves
<1> QED
  BY <1>2, <1>4, <1>5, <1>6, <1>7, StepKeeps

\* The disk after each kind of step on the temporary file.
LEMMA Disks ==
  ASSUME IsDisk(disk), NEW t, IsTemp(t)
  PROVE  /\ disk' = [disk EXCEPT !.temp = t] => IsDisk(disk') /\ disk'.file = disk.file /\ disk'.temp = t
         /\ \A v : disk' = [disk EXCEPT !.temp.by = v] =>
              /\ IsDisk(disk') /\ disk'.file = disk.file
              /\ disk'.temp = [by |-> v, there |-> disk.temp.there, whole |-> disk.temp.whole, raw |-> disk.temp.raw]
         /\ \A v : disk' = [disk EXCEPT !.temp.whole = v] =>
              /\ IsDisk(disk') /\ disk'.file = disk.file
              /\ disk'.temp = [by |-> disk.temp.by, there |-> disk.temp.there, whole |-> v, raw |-> disk.temp.raw]
  BY DEF IsDisk, IsTemp

LEMMA CreateKeeps == ASSUME Inv, NEW a \in Apps, CreateTemp(a) PROVE Inv'
<1>1. IsDisk(disk) /\ shell[a].at = "merged" /\ side' = side /\ apart' = apart /\ allowed' = allowed
  BY Shaped DEF CreateTemp
<1>2. CASE disk.temp.there
  <2>1. disk' = disk /\ shell' = [shell EXCEPT ![a].at = "idle", ![a].text = NoConfig]
    BY <1>2 DEF CreateTemp, MayCreate, SaveFails
  <2>2. Saves(a, "idle", NoConfig)
    BY <1>1, <2>1 DEF Saves
  <2>3. shell'[a].at = "idle" /\ (\A b \in Apps : b # a => shell'[b] = shell[b]) => Owned'
    BY <1>1, <2>1 DEF Inv, Owned
  <2> QED
    BY <2>2, <2>3, SavesKeep
<1>3. CASE ~disk.temp.there
  <2> DEFINE temp == [by |-> a, there |-> TRUE, whole |-> FALSE, raw |-> shell[a].text]
  <2>1. disk' = [disk EXCEPT !.temp = temp] /\ shell' = [shell EXCEPT ![a].at = "writing"]
    BY <1>3 DEF CreateTemp, MayCreate
  <2>2. IsTemp(temp) /\ temp.by = a /\ temp.there /\ temp.raw = shell[a].text
    BY DEF IsTemp
  <2> HIDE DEF temp
  <2>3. IsDisk(disk') /\ disk'.file = disk.file /\ disk'.temp = temp
    BY <1>1, <2>1, <2>2, Disks
  <2>4. Saves(a, "writing", shell[a].text)
    BY <1>1, <2>1, <2>3 DEF Saves
  <2>5. ASSUME IsMap(shell'), shell'[a].at = "writing", \A b \in Apps : b # a => shell'[b] = shell[b]
        PROVE  Owned'
    <3>1. shell'[a].text = shell[a].text
      BY <2>1, Shaped DEF IsMap
    <3> QED
      BY <1>3, <2>2, <2>3, <2>5, <3>1 DEF Inv, Owned
  <2> QED
    BY <2>4, <2>5, SavesKeep
<1> QED
  BY <1>2, <1>3

LEMMA FailKeeps == ASSUME Inv, NEW a \in Apps, WriteFails(a) PROVE Inv'
<1>1. /\ IsDisk(disk) /\ shell[a].at \in {"writing", "written"} /\ side' = side /\ apart' = apart /\ allowed' = allowed
      /\ shell' = [shell EXCEPT ![a].at = "idle", ![a].text = NoConfig]
  BY Shaped DEF WriteFails, SaveFails
<1>2. IsTemp(NoTemp) /\ ~NoTemp.there
  BY DEF IsTemp, NoTemp
<1>3. IsDisk(disk') /\ disk'.file = disk.file /\ (~disk'.temp.there \/ disk'.temp.by = NoApp)
  <2>1. CASE disk' = [disk EXCEPT !.temp = NoTemp]
    BY <1>1, <1>2, <2>1, Disks
  <2>2. CASE disk' = [disk EXCEPT !.temp.by = NoApp]
    BY <1>1, <1>2, <2>2, Disks
  <2> QED
    BY <2>1, <2>2 DEF WriteFails
<1>4. Saves(a, "idle", NoConfig)
  BY <1>1, <1>3 DEF Saves
<1>5. shell'[a].at = "idle" /\ (\A b \in Apps : b # a => shell'[b] = shell[b]) => Owned'
  BY <1>1, <1>3 DEF Inv, Owned
<1> QED
  BY <1>4, <1>5, SavesKeep

LEMMA WriteKeeps == ASSUME Inv, NEW a \in Apps, WriteTemp(a) PROVE Inv'
<1>1. /\ IsDisk(disk) /\ shell[a].at = "writing" /\ side' = side /\ apart' = apart /\ allowed' = allowed
      /\ shell' = [shell EXCEPT ![a].at = "written"] /\ disk' = [disk EXCEPT !.temp.whole = TRUE]
  BY Shaped DEF WriteTemp
<1>2. IsDisk(disk') /\ disk'.file = disk.file
      /\ disk'.temp = [by |-> disk.temp.by, there |-> disk.temp.there, whole |-> TRUE, raw |-> disk.temp.raw]
  <2>1. IsTemp(NoTemp)
    BY DEF IsTemp, NoTemp
  <2> QED
    BY <1>1, <2>1, Disks
<1>3. Saves(a, "written", shell[a].text)
  BY <1>1, <1>2 DEF Saves
<1>4. ASSUME IsMap(shell'), shell'[a].at = "written", \A b \in Apps : b # a => shell'[b] = shell[b]
      PROVE  Owned'
  <2>1. shell'[a].text = shell[a].text
    BY <1>1, Shaped DEF IsMap
  <2>2. /\ disk'.temp.by = disk.temp.by /\ disk'.temp.there = disk.temp.there
        /\ disk'.temp.whole /\ disk'.temp.raw = disk.temp.raw
    BY <1>2
  <2> QED
    BY <1>1, <1>2, <1>4, <2>1, <2>2 DEF Inv, Owned
<1> QED
  BY <1>3, <1>4, SavesKeep

LEMMA RenameKeeps == ASSUME FileAssumption, Inv, NEW a \in Apps, Rename(a) PROVE Inv'
<1>1. /\ IsMap(shell) /\ IsMap(apart) /\ IsMap(side) /\ IsShell(shell[a]) /\ allowed \in Budgets
      /\ shell[a].at = "written" /\ side' = side /\ allowed' = allowed
  BY Shaped DEF Rename
<1>2. /\ disk.temp.by = a /\ disk.temp.whole /\ disk.temp.raw = shell[a].text
      /\ \A b \in Apps : b # a => shell[b].at \notin {"writing", "written"}
  BY <1>1 DEF Inv, Owned
<1> DEFINE saved == Object(disk.temp.raw)
<1>3. disk' = [file |-> saved, temp |-> NoTemp]
  BY <1>2 DEF Rename
<1>4. IsDisk(disk') /\ disk'.file = saved /\ disk'.temp = NoTemp
  <2>1. IsTemp(NoTemp)
    BY DEF IsTemp, NoTemp
  <2> QED
    BY <1>3, <2>1 DEF IsDisk
<1>5. saved.is = "object" /\ TokensOf(saved) = Tokens(shell[a].text)
  BY <1>2 DEF Object, TokensOf
<1> HIDE DEF saved
<1>6. PICK reload : shell' = [shell EXCEPT ![a].at = "idle", ![a].text = NoConfig, ![a].shown = NoConfig,
                                           ![a].reload = reload]
  BY DEF Rename
<1>7. shell'[a] = [at |-> "idle", text |-> NoConfig, shown |-> NoConfig, reload |-> reload,
                   secrets |-> shell[a].secrets]
  BY <1>1, <1>6 DEF IsMap, IsShell
<1>8. /\ shell'[a].at = "idle" /\ shell'[a].shown = NoConfig /\ shell'[a].secrets = shell[a].secrets
      /\ IsShell(shell'[a])
  BY <1>7, Records
<1>9. IsMap(shell') /\ \A b \in Apps : b # a => shell'[b] = shell[b]
  BY <1>1, <1>6 DEF IsMap
<1>10. IsMap(apart')
  BY DEF Rename, ApartBut, IsMap
<1>11. ASSUME NEW b \in Apps
       PROVE  IsApart(apart'[b]) /\ apart'[b].force = apart[b].force /\ (b # a => apart'[b].tokens)
  <2>1. CASE b = a
    <3>1. apart'[b] = [AtOne EXCEPT !.force = apart[b].force]
      BY <2>1 DEF Rename, ApartBut
    <3>2. apart'[b] = [draft |-> "no", text |-> FALSE, tokens |-> FALSE, force |-> apart[b].force]
      BY <3>1 DEF AtOne
    <3> QED
      BY <2>1, <3>2, Records
  <2>2. CASE b # a
    <3>1. apart'[b] = [draft |-> "moved", text |-> TRUE, tokens |-> TRUE, force |-> apart[b].force]
      BY <2>2 DEF Rename, ApartBut
    <3> QED
      BY <3>1, Records
  <2> QED
    BY <2>1, <2>2
<1>12. Shape'
  BY <1>1, <1>4, <1>8, <1>9, <1>10, <1>11 DEF Inv, Shape
<1>13. Owned'
  BY <1>2, <1>4, <1>5, <1>8, <1>9 DEF Owned, NoTemp
<1>14. Known(a)' /\ Latest(a)'
  BY <1>1, <1>4, <1>5, <1>8, <1>11 DEF Inv, Known, Latest
<1>15. ASSUME NEW b \in Apps, b # a PROVE Known(b)' /\ Latest(b)'
  BY <1>1, <1>9, <1>11, <1>15 DEF Inv, Known, Latest
<1> QED
  BY <1>12, <1>13, <1>14, <1>15 DEF Inv

(* The sidecar.                                                            *)

\* What the file says may be put in force, and whether the shell knows its token.
LEMMA JudgedApart ==
  ASSUME Inv, NEW a \in Apps, Judged(a)
  PROVE  /\ IsMap(apart') /\ (\A b \in Apps : b # a => apart'[b] = apart[b]) /\ IsApart(apart'[a])
         /\ apart'[a].tokens = apart[a].tokens
         /\ Load(disk.file) = NoConfig => apart'[a].force = apart[a].force
         /\ Load(disk.file) # NoConfig /\ ~apart'[a].force => Load(disk.file)["ingestToken"] \in shell[a].secrets
<1> DEFINE force == IF Load(disk.file) = NoConfig THEN apart[a].force ELSE apart[a].tokens
<1>1. IsMap(apart) /\ IsApart(apart[a])
  BY Shaped
<1>2. apart' = [apart EXCEPT ![a].force = force]
  BY DEF Judged
<1>3. ~apart[a].tokens => TokensOf(disk.file) \subseteq shell[a].secrets
  BY DEF Inv, Known
<1>4. Load(disk.file) # NoConfig => Load(disk.file)["ingestToken"] \in TokensOf(disk.file)
  BY TokenLoaded
<1>5. /\ Load(disk.file) = NoConfig => force = apart[a].force
      /\ Load(disk.file) # NoConfig => force = apart[a].tokens
  OBVIOUS
<1> HIDE DEF force
<1>6. apart'[a] = [draft |-> apart[a].draft, text |-> apart[a].text, tokens |-> apart[a].tokens, force |-> force]
  BY <1>1, <1>2 DEF IsMap, IsApart
<1>7. IsMap(apart') /\ \A b \in Apps : b # a => apart'[b] = apart[b]
  BY <1>1, <1>2 DEF IsMap
<1>8. IsApart(apart'[a]) /\ apart'[a].tokens = apart[a].tokens /\ apart'[a].force = force
  BY <1>6, Records
<1> QED
  BY <1>3, <1>4, <1>5, <1>7, <1>8

(* A step in which the sidecar writes a line, or a step on it that leaves the shell's knowledge be. *)
LEMMA SideKeeps ==
  ASSUME Inv, NEW a \in Apps, NEW s, IsSide(s), side' = [side EXCEPT ![a] = s],
         disk' = disk, allowed' \in Budgets, IsMap(shell'), IsMap(apart'),
         \A b \in Apps : b # a => shell'[b] = shell[b] /\ apart'[b] = apart[b],
         IsShell(shell'[a]), IsApart(apart'[a]),
         shell'[a].at = shell[a].at, shell'[a].text = shell[a].text,
         shell[a].secrets \subseteq shell'[a].secrets,
         ~apart'[a].tokens => ~apart[a].tokens \/ TokensOf(disk.file) \subseteq shell'[a].secrets,
         s.at = "up" /\ s.force # NoConfig /\ ~apart'[a].force => s.force["ingestToken"] \in shell'[a].secrets,
         s.at # "up" => s.lines = <<>>,
         s.at = "up" => IF s.lines = <<>> THEN shell'[a].shown \in {NoConfig, s.force}
                        ELSE s.lines[Len(s.lines)] = s.force
  PROVE  Inv'
<1>1. IsMap(side) /\ IsDisk(disk)
  BY Shaped
<1>2. IsMap(side') /\ side'[a] = s /\ \A b \in Apps : b # a => side'[b] = side[b]
  BY <1>1 DEF IsMap
<1>3. StepOf(a)
  BY <1>1, <1>2 DEF StepOf, Others
<1>4. Owned'
  BY DEF Inv, Owned
<1>5. Known(a)'
  BY <1>2 DEF Inv, Known
<1>6. Latest(a)'
  BY <1>2 DEF Inv, Latest
<1> QED
  BY <1>3, <1>4, <1>5, <1>6, StepKeeps

\* A sidecar's record with other fields, and the same lines.
LEMMA SideRecord ==
  ASSUME NEW s, IsSide(s), NEW at, NEW force, NEW runs, NEW t,
         t = [at |-> at, force |-> force, running |-> runs, lines |-> s.lines]
  PROVE  IsSide(t) /\ t.at = at /\ t.force = force /\ t.lines = s.lines
<1>1. t.at = at /\ t.force = force /\ t.running = runs /\ t.lines = s.lines
  OBVIOUS
<1>2. \E S : t.lines \in Seq(S)
  BY <1>1 DEF IsSide
<1> QED
  BY <1>1, <1>2 DEF IsSide

LEMMA SideForm ==
  ASSUME NEW s, IsSide(s)
  PROVE  s = [at |-> s.at, force |-> s.force, running |-> s.running, lines |-> s.lines]
  BY DEF IsSide

LEMMA SideBooted ==
  ASSUME NEW s, IsSide(s), NEW at, NEW force, NEW runs, NEW t,
         t = [s EXCEPT !.at = at, !.force = force, !.running = runs]
  PROVE  t = [at |-> at, force |-> force, running |-> runs, lines |-> s.lines]
<1>1. s = [at |-> s.at, force |-> s.force, running |-> s.running, lines |-> s.lines]
  BY DEF IsSide
<1> QED
  BY <1>1

LEMMA LaunchKeeps == ASSUME Inv, NEW a \in Apps, Launch(a) PROVE Inv'
<1> DEFINE s == [side[a] EXCEPT !.at = "booting"]
           known == shell[a].secrets \cup TokensOf(disk.file)
<1>1. /\ side[a].at = "down" /\ side[a].lines = <<>> /\ side' = [side EXCEPT ![a] = s] /\ disk' = disk
      /\ allowed' \in Budgets /\ shell' = [shell EXCEPT ![a].secrets = known]
      /\ apart' = [apart EXCEPT ![a].tokens = FALSE]
  BY Shaped, Spent DEF Launch, Inv, Latest
<1>2. IsSide(s) /\ s.at = "booting" /\ s.lines = <<>>
  <2>1. s = [at |-> "booting", force |-> side[a].force, running |-> side[a].running, lines |-> side[a].lines]
    BY Shaped, SideForm
  <2> QED
    BY <1>1, <2>1, Shaped, SideRecord
<1>3. /\ IsMap(shell) /\ IsMap(apart) /\ IsShell(shell[a]) /\ IsApart(apart[a])
  BY Shaped
<1>4. TokensOf(disk.file) \subseteq known /\ shell[a].secrets \subseteq known
  OBVIOUS
<1> HIDE DEF s, known
<1>5. shell'[a] = [at |-> shell[a].at, text |-> shell[a].text, shown |-> shell[a].shown,
                   reload |-> shell[a].reload, secrets |-> known]
  BY <1>1, <1>3 DEF IsMap, IsShell
<1>6. apart'[a] = [draft |-> apart[a].draft, text |-> apart[a].text, tokens |-> FALSE, force |-> apart[a].force]
  BY <1>1, <1>3 DEF IsMap, IsApart
<1>7. IsMap(shell') /\ IsMap(apart') /\ \A b \in Apps : b # a => shell'[b] = shell[b] /\ apart'[b] = apart[b]
  BY <1>1, <1>3 DEF IsMap
<1>8. /\ IsShell(shell'[a]) /\ IsApart(apart'[a]) /\ shell'[a].at = shell[a].at
      /\ shell'[a].text = shell[a].text /\ shell'[a].secrets = known
  BY <1>5, <1>6, Records
<1> QED
  BY <1>1, <1>2, <1>4, <1>7, <1>8, SideKeeps

\* The sidecar judges the file, or goes on with what it has, and writes a line.
LEMMA SpeakKeeps ==
  ASSUME Inv, NEW a \in Apps, NEW t, IsSide(t), side' = [side EXCEPT ![a] = Line(t)],
         disk' = disk, allowed' \in Budgets, IsMap(shell'), IsMap(apart'),
         \A b \in Apps : b # a => shell'[b] = shell[b] /\ apart'[b] = apart[b],
         IsShell(shell'[a]), IsApart(apart'[a]),
         shell'[a].at = shell[a].at, shell'[a].text = shell[a].text, shell'[a].secrets = shell[a].secrets,
         apart'[a].tokens = apart[a].tokens, t.at = "up",
         t.force # NoConfig /\ ~apart'[a].force => t.force["ingestToken"] \in shell[a].secrets
  PROVE  Inv'
<1> DEFINE s == Line(t)
<1>1. IsSide(s) /\ s.at = t.at /\ s.force = t.force /\ s.lines # <<>> /\ s.lines[Len(s.lines)] = s.force
  BY LineAdded
<1>2. side' = [side EXCEPT ![a] = s]
  OBVIOUS
<1> HIDE DEF s
<1> QED
  BY <1>1, <1>2, SideKeeps

LEMMA BootKeeps == ASSUME Inv, NEW a \in Apps, SidecarBoots(a) PROVE Inv'
<1> DEFINE found == Load(disk.file)
           runs == side[a].running /\ found # NoConfig
           t == [side[a] EXCEPT !.at = "up", !.force = found, !.running = runs]
<1>1. side' = [side EXCEPT ![a] = Line(t)] /\ shell' = shell /\ disk' = disk /\ allowed' = allowed /\ Judged(a)
  BY DEF SidecarBoots
<1>2. IsSide(t) /\ t.at = "up" /\ t.force = found
  <2> HIDE DEF runs, found
  <2>1. IsSide(side[a])
    BY Shaped
  <2>2. t = [at |-> "up", force |-> found, running |-> runs, lines |-> side[a].lines]
    BY <2>1, SideBooted
  <2> QED
    BY <2>1, <2>2, SideRecord
<1> HIDE DEF t
<1>3. found # NoConfig /\ ~apart'[a].force => found["ingestToken"] \in shell[a].secrets
  BY <1>1, JudgedApart
<1> HIDE DEF found
<1> QED
  BY <1>1, <1>2, <1>3, Shaped, JudgedApart, SpeakKeeps

LEMMA ReloadKeeps == ASSUME Inv, NEW a \in Apps, Reload(a) PROVE Inv'
<1>1. /\ IsMap(shell) /\ IsMap(side) /\ IsMap(apart) /\ IsShell(shell[a]) /\ IsSide(side[a]) /\ IsApart(apart[a])
      /\ allowed \in Budgets
  BY Shaped
<1>2. shell' = [shell EXCEPT ![a].reload = FALSE] /\ disk' = disk /\ allowed' = allowed
  BY DEF Reload
<1>3. shell'[a] = [at |-> shell[a].at, text |-> shell[a].text, shown |-> shell[a].shown,
                   reload |-> FALSE, secrets |-> shell[a].secrets]
  BY <1>1, <1>2 DEF IsMap, IsShell
<1>4. IsMap(shell') /\ \A b \in Apps : b # a => shell'[b] = shell[b]
  BY <1>1, <1>2 DEF IsMap
<1>5. /\ IsShell(shell'[a]) /\ shell'[a].at = shell[a].at /\ shell'[a].text = shell[a].text
      /\ shell'[a].shown = shell[a].shown /\ shell'[a].secrets = shell[a].secrets
  BY <1>3, Records
<1>6. CASE side' = side /\ apart' = apart
  <2>1. StepOf(a)
    BY <1>1, <1>2, <1>4, <1>5, <1>6, Shaped DEF StepOf, Others
  <2>2. Learnt(a, {})
    BY <1>2, <1>5, <1>6, <2>1 DEF Learnt
  <2> QED
    BY <2>2, LearntKeeps
<1>7. CASE side[a].at = "up" /\ Judged(a) /\ side' = [side EXCEPT ![a] = Line(InForce(side[a], disk.file))]
  <2> DEFINE found == Load(disk.file)
             force == IF found # NoConfig THEN found ELSE IF side[a].running THEN side[a].force ELSE NoConfig
             t == [side[a] EXCEPT !.force = force]
  <2>1. side' = [side EXCEPT ![a] = Line(t)]
    BY <1>7 DEF InForce
  <2>2. IsSide(t) /\ t.at = "up" /\ t.force = force
    <3>1. t = [at |-> side[a].at, force |-> force, running |-> side[a].running, lines |-> side[a].lines]
      <4> HIDE DEF force
      <4> QED
        BY <1>1, SideForm
    <3> QED
      BY <1>1, <1>7, <3>1, SideRecord
  <2> HIDE DEF t
  <2>3. force # NoConfig /\ ~apart'[a].force => force["ingestToken"] \in shell[a].secrets
    <3>1. CASE found # NoConfig
      BY <1>7, <3>1, JudgedApart
    <3>2. CASE found = NoConfig
      <4>1. apart'[a].force = apart[a].force
        BY <1>7, <3>2, JudgedApart
      <4>2. force \in {side[a].force, NoConfig}
        BY <3>2
      <4> HIDE DEF force, found
      <4> QED
        BY <1>7, <4>1, <4>2 DEF Inv, Known
    <3> QED
      BY <3>1, <3>2
  <2> HIDE DEF force, found
  <2>4. /\ IsMap(apart') /\ IsApart(apart'[a]) /\ apart'[a].tokens = apart[a].tokens
        /\ \A b \in Apps : b # a => apart'[b] = apart[b]
    BY <1>7, JudgedApart
  <2> QED
    BY <1>1, <1>2, <1>4, <1>5, <2>1, <2>2, <2>3, <2>4, SpeakKeeps
<1> QED
  BY <1>6, <1>7 DEF Reload

LEMMA WordKeeps == ASSUME Inv, NEW a \in Apps, Speak(a) PROVE Inv'
<1>1. /\ side[a].at = "up" /\ shell' = shell /\ disk' = disk /\ apart' = apart /\ allowed' \in Budgets
      /\ IsSide(side[a])
  BY Shaped, Spent DEF Speak
<1>2. PICK runs : side' = [side EXCEPT ![a] = Line([side[a] EXCEPT !.running = runs])]
  <2>1. PICK r \in BOOLEAN :
          side' = [side EXCEPT ![a] = Line([side[a] EXCEPT !.running = r /\ side[a].force # NoConfig])]
    BY DEF Speak
  <2> QED
    BY <2>1
<1> DEFINE t == [side[a] EXCEPT !.running = runs]
<1>3. IsSide(t) /\ t.at = "up" /\ t.force = side[a].force
  <2>1. t = [at |-> side[a].at, force |-> side[a].force, running |-> runs, lines |-> side[a].lines]
    BY <1>1, SideForm
  <2> QED
    BY <1>1, <2>1, SideRecord
<1>4. t.force # NoConfig /\ ~apart[a].force => t.force["ingestToken"] \in shell[a].secrets
  BY <1>1, <1>3 DEF Inv, Known
<1>5. side' = [side EXCEPT ![a] = Line(t)]
  BY <1>2
<1> HIDE DEF t
<1> QED
  BY <1>1, <1>3, <1>4, <1>5, Shaped, SpeakKeeps

\* What is left when the first line is heard ends as it did.
LEMMA TailEnds ==
  ASSUME NEW S, NEW q \in Seq(S), q # <<>>
  PROVE  /\ Tail(q) \in Seq(S)
         /\ Tail(q) = <<>> => Head(q) = q[Len(q)]
         /\ Tail(q) # <<>> => Tail(q)[Len(Tail(q))] = q[Len(q)]
<1>1. /\ Tail(q) \in Seq(S) /\ Len(q) \in Nat /\ Len(q) > 0 /\ Len(Tail(q)) = Len(q) - 1
      /\ Head(q) = q[1]
  OBVIOUS
<1>2. \A i \in 1..Len(q) - 1 : Tail(q)[i] = q[i + 1]
  OBVIOUS
<1>3. Tail(q) = <<>> => Len(q) = 1
  <2> SUFFICES ASSUME Tail(q) = <<>> PROVE Len(q) = 1
    OBVIOUS
  <2>1. Len(<<>>) = 0
    OBVIOUS
  <2>2. Len(Tail(q)) = 0
    BY <2>1, Zenon
  <2>3. Len(Tail(q)) = Len(q) - 1 /\ Len(q) \in Nat
    BY <1>1
  <2> QED
    BY ONLY <2>2, <2>3
<1>4. Tail(q) # <<>> => Len(q) - 1 \in 1..Len(q) - 1
  BY <1>1
<1> QED
  BY <1>1, <1>2, <1>3, <1>4

LEMMA SideCut ==
  ASSUME NEW s, IsSide(s), NEW lines, NEW t, t = [s EXCEPT !.lines = lines]
  PROVE  t = [at |-> s.at, force |-> s.force, running |-> s.running, lines |-> lines]
<1>1. s = [at |-> s.at, force |-> s.force, running |-> s.running, lines |-> s.lines]
  BY DEF IsSide
<1> QED
  BY <1>1

LEMMA HearKeeps == ASSUME Inv, NEW a \in Apps, Hear(a) PROVE Inv'
<1> DEFINE s == [side[a] EXCEPT !.lines = Tail(side[a].lines)]
           head == Head(side[a].lines)
<1>1. /\ side[a].at = "up" /\ side[a].lines # <<>> /\ disk' = disk /\ apart' = apart /\ allowed' = allowed
      /\ shell' = [shell EXCEPT ![a].shown = head] /\ side' = [side EXCEPT ![a] = s]
  BY DEF Hear
<1>2. IsMap(shell) /\ IsShell(shell[a]) /\ IsSide(side[a])
  BY Shaped
<1>3. PICK S : side[a].lines \in Seq(S)
  BY <1>2 DEF IsSide
<1>4. s = [at |-> side[a].at, force |-> side[a].force, running |-> side[a].running, lines |-> Tail(side[a].lines)]
  BY <1>2, SideCut
<1> DEFINE rest == Tail(side[a].lines)
<1>5. /\ rest \in Seq(S)
      /\ rest = <<>> => head = side[a].lines[Len(side[a].lines)]
      /\ rest # <<>> => rest[Len(rest)] = side[a].lines[Len(side[a].lines)]
  BY <1>1, <1>3, TailEnds
<1> HIDE DEF s, head, rest
<1>6. IsSide(s) /\ s.at = "up" /\ s.force = side[a].force /\ s.lines = rest
  <2>1. s.at = side[a].at /\ s.force = side[a].force /\ s.running = side[a].running /\ s.lines = rest
    BY <1>4 DEF rest
  <2> QED
    BY <1>1, <1>4, <1>5, <2>1 DEF IsSide, rest
<1>7. shell'[a] = [at |-> shell[a].at, text |-> shell[a].text, shown |-> head, reload |-> shell[a].reload,
                   secrets |-> shell[a].secrets]
  BY <1>1, <1>2 DEF IsMap, IsShell
<1>8. /\ IsMap(shell') /\ \A b \in Apps : b # a => shell'[b] = shell[b]
  BY <1>1, <1>2 DEF IsMap
<1>9. /\ IsShell(shell'[a]) /\ shell'[a].at = shell[a].at /\ shell'[a].text = shell[a].text
      /\ shell'[a].shown = head /\ shell'[a].secrets = shell[a].secrets
  BY <1>7, Records
<1>10. side[a].lines[Len(side[a].lines)] = side[a].force
  BY <1>1 DEF Inv, Latest
<1>11. s.force # NoConfig /\ ~apart[a].force => s.force["ingestToken"] \in shell[a].secrets
  BY <1>1, <1>6 DEF Inv, Known
<1>12. IF s.lines = <<>> THEN shell'[a].shown \in {NoConfig, s.force} ELSE s.lines[Len(s.lines)] = s.force
  BY <1>5, <1>6, <1>9, <1>10
<1> QED
  BY <1>1, <1>6, <1>8, <1>9, <1>11, <1>12, Shaped, SideKeeps

LEMMA DeathKeeps == ASSUME Inv, NEW a \in Apps, SidecarDies(a) PROVE Inv'
<1> DEFINE s == [side[a] EXCEPT !.at = "down", !.lines = <<>>, !.force = NoConfig]
<1>1. /\ side' = [side EXCEPT ![a] = s] /\ disk' = disk /\ shell' = shell /\ apart' = apart
      /\ allowed' \in Budgets /\ IsSide(side[a])
  BY Shaped, Spent, SideForm DEF SidecarDies, IsMap
<1>2. s = [at |-> "down", force |-> NoConfig, running |-> side[a].running, lines |-> <<>>]
  <2> DEFINE none == <<>>
             off == NoConfig
             was == side[a]
  <2>1. IsSide(was) /\ s = [was EXCEPT !.at = "down", !.lines = none, !.force = off]
    BY <1>1
  <2> HIDE DEF s, none, off, was
  <2>2. s = [at |-> "down", force |-> off, running |-> was.running, lines |-> none]
    <3>1. was = [at |-> was.at, force |-> was.force, running |-> was.running, lines |-> was.lines]
      BY <2>1 DEF IsSide
    <3>2. s = [was EXCEPT !.at = "down", !.lines = none, !.force = off]
      BY <2>1
    <3> QED
      BY ONLY <3>1, <3>2
  <2> QED
    BY <2>2 DEF none, off, was
<1> HIDE DEF s
<1>3. IsSide(s) /\ s.at = "down" /\ s.lines = <<>>
  <2>1. s.at = "down" /\ s.force = NoConfig /\ s.running = side[a].running /\ s.lines = <<>>
    BY <1>2
  <2>2. <<>> \in Seq({})
    OBVIOUS
  <2> QED
    BY <1>2, <2>1, <2>2 DEF IsSide
<1> QED
  BY <1>1, <1>3, Shaped, SideKeeps

LEMMA BootedForm ==
  ASSUME NEW file
  PROVE  LET b == Booted(file)
         IN  /\ IsShell(b.shell) /\ b.shell.at = "idle" /\ b.shell.secrets = TokensOf(file)
             /\ IsSide(b.side) /\ b.side.at = "down" /\ b.side.lines = <<>>
             /\ IsApart(AtOne)
<1> DEFINE b == Booted(file)
<1>1. /\ b.shell = [at |-> "idle", text |-> NoConfig, shown |-> NoConfig, reload |-> FALSE, secrets |-> TokensOf(file)]
      /\ b.side = [at |-> "down", force |-> NoConfig, running |-> AutoUplink(file), lines |-> <<>>]
  BY Zenon DEF Booted
<1> HIDE DEF b
<1>2. IsShell(b.shell) /\ b.shell.at = "idle" /\ b.shell.secrets = TokensOf(file)
  BY <1>1, Records
<1>3. IsSide(b.side) /\ b.side.at = "down" /\ b.side.lines = <<>>
  <2> DEFINE runs == AutoUplink(file)
  <2>1. b.side = [at |-> "down", force |-> NoConfig, running |-> runs, lines |-> <<>>]
    BY <1>1
  <2> HIDE DEF runs
  <2>2. b.side.at = "down" /\ b.side.force = NoConfig /\ b.side.running = runs /\ b.side.lines = <<>>
    BY <2>1
  <2>3. <<>> \in Seq({})
    OBVIOUS
  <2> QED
    BY <2>1, <2>2, <2>3 DEF IsSide
<1>4. IsApart(AtOne)
  BY Records DEF AtOne
<1> QED
  BY <1>2, <1>3, <1>4 DEF b

LEMMA AppDeathKeeps == ASSUME FileAssumption, Inv, NEW a \in Apps, AppDies(a) PROVE Inv'
<1> DEFINE b == Booted(disk.file)
           by == IF disk.temp.by = a THEN NoApp ELSE disk.temp.by
<1>1. /\ disk' = [disk EXCEPT !.temp.by = by] /\ allowed' \in Budgets
      /\ shell' = [shell EXCEPT ![a] = b.shell] /\ side' = [side EXCEPT ![a] = b.side]
      /\ apart' = [apart EXCEPT ![a] = AtOne]
  BY Shaped, Spent DEF AppDies
<1>2. /\ IsShell(b.shell) /\ b.shell.at = "idle" /\ b.shell.secrets = TokensOf(disk.file)
      /\ IsSide(b.side) /\ b.side.at = "down" /\ b.side.lines = <<>> /\ IsApart(AtOne)
  BY BootedForm
<1>3. /\ by = NoApp \/ by = disk.temp.by
      /\ by # a \/ by = NoApp
      /\ disk.temp.by # a => by = disk.temp.by
  OBVIOUS
<1> HIDE DEF b, by
<1>4. IsMap(shell) /\ IsMap(side) /\ IsMap(apart) /\ IsDisk(disk)
  BY Shaped
<1>5. /\ IsDisk(disk') /\ disk'.file = disk.file
      /\ disk'.temp = [by |-> by, there |-> disk.temp.there, whole |-> disk.temp.whole, raw |-> disk.temp.raw]
  BY <1>1, <1>4, Disks DEF IsDisk
<1>6. /\ disk'.temp.by = by /\ disk'.temp.there = disk.temp.there
      /\ disk'.temp.whole = disk.temp.whole /\ disk'.temp.raw = disk.temp.raw
  BY <1>5
<1>7. /\ IsMap(shell') /\ IsMap(side') /\ IsMap(apart')
      /\ shell'[a] = b.shell /\ side'[a] = b.side /\ apart'[a] = AtOne
  BY <1>1, <1>4 DEF IsMap
<1>8. Others(a)
  BY <1>1, <1>4 DEF IsMap, Others
<1>9. StepOf(a)
  BY <1>1, <1>2, <1>5, <1>7, <1>8 DEF StepOf
<1>10. Owned'
  BY <1>2, <1>3, <1>5, <1>6, <1>7, <1>8 DEF Inv, Owned, Others, FileAssumption
<1>11. Known(a)' /\ Latest(a)'
  BY <1>2, <1>5, <1>7 DEF Known, Latest
<1> QED
  BY <1>9, <1>10, <1>11, StepKeeps

-----------------------------------------------------------------------------
(* The whole.                                                              *)

LEMMA InitHolds == ASSUME FileAssumption, InitFile PROVE Inv
<1>1. /\ allowed \in Budgets /\ disk.file \in Hands /\ disk.temp = NoTemp /\ IsDisk(disk)
  <2>1. allowed \in Budgets
    BY DEF InitFile, FileAssumption, Budgets
  <2>2. PICK file \in Hands : disk = [file |-> file, temp |-> NoTemp]
    BY <2>1 DEF InitFile, Budgets
  <2>3. disk.file = file /\ disk.temp = NoTemp
    BY <2>2
  <2> QED
    BY <2>1, <2>2, <2>3 DEF IsDisk, IsTemp, NoTemp
<1> DEFINE b == Booted(disk.file)
<1>2. /\ IsShell(b.shell) /\ b.shell.at = "idle" /\ b.shell.secrets = TokensOf(disk.file)
      /\ IsSide(b.side) /\ b.side.at = "down" /\ b.side.lines = <<>> /\ IsApart(AtOne)
  BY BootedForm
<1>3. shell = [a \in Apps |-> b.shell] /\ side = [a \in Apps |-> b.side] /\ apart = [a \in Apps |-> AtOne]
  BY DEF InitFile
<1> HIDE DEF b
<1>4. Shape
  BY <1>1, <1>2, <1>3 DEF Shape, IsMap
<1>5. Owned
  BY <1>1, <1>2, <1>3 DEF Owned, NoTemp, FileAssumption
<1>6. \A a \in Apps : Known(a) /\ Latest(a)
  BY <1>2, <1>3 DEF Known, Latest
<1> QED
  BY <1>4, <1>5, <1>6 DEF Inv

LEMMA NextHolds == ASSUME FileAssumption, Inv, [NextFile]_fileVars PROVE Inv'
<1>1. ASSUME NEW a \in allowed.apps, PageSteps(a) \/ SaveSteps(a) \/ SideSteps(a) PROVE Inv'
  <2>1. a \in Apps
    BY DEF Inv, Shape, Budgets
  <2>2. CASE PageSteps(a)
    BY <2>1, <2>2, ReadKeeps, PageKeeps DEF PageSteps
  <2>3. CASE SaveSteps(a)
    BY <2>1, <2>3, MergeKeeps, CreateKeeps, FailKeeps, WriteKeeps, RenameKeeps DEF SaveSteps
  <2>4. CASE SideSteps(a)
    BY <2>1, <2>4, LaunchKeeps, BootKeeps, ReloadKeeps, WordKeeps, HearKeeps, DeathKeeps, AppDeathKeeps
       DEF SideSteps
  <2> QED
    BY <1>1, <2>2, <2>3, <2>4
<1>2. CASE UNCHANGED fileVars
  BY <1>2 DEF fileVars, Inv, Shape, Owned, Known, Latest
<1> QED
  BY <1>1, <1>2, EditKeeps DEF NextFile

LEMMA InvHolds == ASSUME FileAssumption PROVE FileSpec => []Inv
<1>1. InitFile => Inv
  BY InitHolds
<1>2. Inv /\ [NextFile]_fileVars => Inv'
  BY NextHolds
<1> QED
  BY <1>1, <1>2, PTL DEF FileSpec

(* However many apps share config.json, and however their saves overlap,   *)
(* fail or are cut off, it is a file somebody finished (config.rs 169-197).*)
THEOREM DiskIsAlwaysWhole == FileSpec => []DiskIsWhole
<1>1. Inv => DiskIsWhole
  BY DEF Inv, Owned, DiskIsWhole
<1> QED
  BY <1>1, FileAssumption, InvHolds, PTL

(* The window shows what is in force once every line is heard, and the     *)
(* shell knows the token in force, so that it keeps it out of what it      *)
(* passes on (main.rs, supervisor.rs 220-250).                             *)
THEOREM ShownIsAlwaysInForce == FileSpec => []ShownIsInForce
<1>1. Inv => ShownIsInForce
  BY DEF Inv, Known, Latest, ShownIsInForce
<1> QED
  BY <1>1, FileAssumption, InvHolds, PTL

-----------------------------------------------------------------------------
(* What the pages make of a value, and the loader of that.                 *)

\* What is shown agrees with the file if saving it changes nothing for the loader.
Agrees(f, value, file) ==
  value # Kept =>
    LET x == Obey(PageRules[f], value) IN x = Wrong \/ Read(f, x) = Means(file, f)
Raw(file, f) == IF file.is = "object" THEN file.raw[f] ELSE Absent
\* What the pages show of a field that is there, or not.
Shows(f, value) ==
  IF f = "ingestToken" THEN IF value \in {Absent, Null, ""} THEN Absent ELSE Kept
  ELSE IF value = Absent THEN Defaults[f]
  ELSE IF f = "trafficEnabled" THEN Obey(Traffic, value) ELSE value
\* The pages' rule may be obeyed twice, and between what a file holds and what the
\* loader makes of it.
Harmless(f) ==
  \A v : LET x == Obey(PageRules[f], v)
             y == Obey(PageRules[f], Shows(f, v))
         IN  /\ Obey(PageRules[f], x) = x
             /\ Shows(f, v) # Kept => y = Wrong \/ Read(f, y) = Read(f, v)
             /\ f # "ingestToken" /\ v = Kept => x = Wrong

LEMMA ObeyIs ==
  ASSUME NEW good, NEW becomes, NEW missing, NEW v
  PROVE  Obey(Rule(good, becomes, missing), v) =
           IF v \in good THEN v ELSE IF v \in DOMAIN becomes THEN becomes[v]
           ELSE IF v \in {Absent, Null} THEN missing ELSE Wrong
BY DEF Obey, Rule

LEMMA AutoUplinkHarmless == Harmless("autoUplink")
<1> DEFINE f == "autoUplink"
<1>1. PageRules[f] = Rule({"true", "false"}, <<>>, Wrong) /\ LoaderRules[f] = Rule({"true", "false"}, <<>>, "false")
      /\ Defaults[f] = "false"
  BY DEF PageRules, LoaderRules, Defaults
<1>2. \A v : Obey(PageRules[f], v) = IF v \in {"true", "false"} THEN v ELSE Wrong
  BY <1>1, ObeyIs DEF Wrong, Absent, Null
<1>3. \A v : Read(f, v) = IF v \in {"true", "false"} THEN v ELSE IF v \in {Absent, Null} THEN "false" ELSE Wrong
  BY <1>1, ObeyIs DEF Read
<1>4. \A v : Shows(f, v) = IF v = Absent THEN "false" ELSE v
  BY <1>1 DEF Shows
<1> QED BY <1>2, <1>3, <1>4 DEF Harmless, Wrong, Absent, Null, Kept

LEMMA TrafficHarmless == Harmless("trafficEnabled")
<1> DEFINE f == "trafficEnabled"
<1>1. PageRules[f] = Traffic /\ LoaderRules[f] = Traffic /\ Defaults[f] = "true"
  BY DEF PageRules, LoaderRules, Defaults
<1>2. \A v : Obey(Traffic, v) = IF v \in {"true", "false"} THEN v ELSE IF v = "off" THEN "false"
                                ELSE IF v \in {"maybe", Absent, Null} THEN "true" ELSE Wrong
  BY DEF Traffic, Obey, Rule, Absent, Null
<1>3. \A v : Obey(PageRules[f], v) = Obey(Traffic, v) /\ Read(f, v) = Obey(Traffic, v)
  BY <1>1 DEF Read
<1>4. \A v : Shows(f, v) = IF v = Absent THEN "true" ELSE Obey(Traffic, v)
  BY <1>1 DEF Shows
<1> QED BY <1>2, <1>3, <1>4 DEF Harmless, Wrong, Absent, Null, Kept

\* A rule that keeps two values, trims a third into one of them and refuses the rest,
\* on a field that a file may leave out.
LEMMA TrimHarmless ==
  ASSUME NEW f, f \notin {"ingestToken", "trafficEnabled"}, NEW one, NEW two, NEW loose,
         \A x \in {one, two, loose} : x \notin {Absent, Null, Kept, Wrong}, loose \notin {one, two},
         \A v : Obey(PageRules[f], v) = IF v \in {one, two} THEN v ELSE IF v = loose THEN two ELSE Wrong,
         \A v : Read(f, v) = IF v \in {one, two} THEN v ELSE IF v = loose THEN two
                             ELSE IF v \in {Absent, Null} THEN one ELSE Wrong,
         \A v : Shows(f, v) = IF v = Absent THEN one ELSE v
  PROVE  Harmless(f)
BY DEF Harmless, Wrong, Absent, Null, Kept

LEMMA SimHarmless == Harmless("sim")
<1> DEFINE f == "sim"
           one == "2020"
           two == "fsx"
           loose == "FSX "
           rest == [v \in {loose} |-> two]
<1>1. PageRules[f] = Rule({one, two}, rest, Wrong) /\ LoaderRules[f] = Rule({one, two}, rest, one)
      /\ Defaults[f] = one
  BY Zenon DEF PageRules, LoaderRules, Defaults
<1>2. (\A x \in {one, two, loose} : x \notin {Absent, Null, Kept, Wrong}) /\ loose \notin {one, two}
  BY Zenon DEF Absent, Null, Kept, Wrong
<1>3. f \notin {"ingestToken", "trafficEnabled", "unknown"}
  OBVIOUS
<1> HIDE DEF one, two, loose, f
<1>4. DOMAIN rest = {loose} /\ rest[loose] = two
  OBVIOUS
<1> HIDE DEF rest
<1>5. \A v : Obey(PageRules[f], v) = IF v \in {one, two} THEN v ELSE IF v = loose THEN two ELSE Wrong
  BY <1>1, <1>2, <1>4, ObeyIs
<1>6. \A v : Read(f, v) = IF v \in {one, two} THEN v ELSE IF v = loose THEN two
                          ELSE IF v \in {Absent, Null} THEN one ELSE Wrong
  BY <1>1, <1>2, <1>3, <1>4, ObeyIs DEF Read
<1>7. \A v : Shows(f, v) = IF v = Absent THEN one ELSE v
  BY <1>1, <1>3, Zenon DEF Shows
<1>8. Harmless(f)
  BY <1>2, <1>3, <1>5, <1>6, <1>7, TrimHarmless
<1> QED BY <1>8 DEF f

LEMMA RadiusHarmless == Harmless("trafficRadiusM")
<1> DEFINE f == "trafficRadiusM"
           good == {"1000", "40000", "200000"}
<1>1. /\ PageRules[f] = Rule(good, [far |-> "40000"], "40000")
      /\ LoaderRules[f] = Rule(good, Radius, "40000")
      /\ Defaults[f] = "40000"
  BY DEF PageRules, LoaderRules, Defaults
<1>2. \A v : Obey(PageRules[f], v) = IF v \in good THEN v ELSE IF v \in {"far", Absent, Null} THEN "40000"
                                     ELSE Wrong
  BY <1>1, ObeyIs DEF Absent, Null
<1>3. \A v : v \in good \cup {"far", Absent, Null} => Read(f, v) = IF v \in good THEN v ELSE "40000"
  BY <1>1, ObeyIs DEF Read, Radius, Absent, Null
<1>4. \A v : Shows(f, v) = IF v = Absent THEN "40000" ELSE v
  BY <1>1 DEF Shows
<1> QED BY <1>2, <1>3, <1>4 DEF Harmless, Wrong, Absent, Null, Kept

LEMMA UrlHarmless == Harmless("serverUrl")
<1> DEFINE f == "serverUrl"
<1>1. /\ PageRules[f] = Rule({"s1", "s2"}, [v \in {"s1/"} |-> "s1"], Wrong)
      /\ LoaderRules[f] = Rule({"s1", "s2"}, [v \in {"s1/"} |-> "s1"], Wrong)
  BY DEF PageRules, LoaderRules
<1>2. \A v : Obey(PageRules[f], v) = IF v \in {"s1", "s2"} THEN v ELSE IF v = "s1/" THEN "s1" ELSE Wrong
  BY <1>1, ObeyIs DEF Absent, Null, Wrong
<1>3. \A v : Read(f, v) = Obey(PageRules[f], v)
  BY <1>1 DEF Read
<1>4. \A v : Shows(f, v) = IF v = Absent THEN Defaults[f] ELSE v
  BY DEF Shows
<1>5. Defaults[f] \notin {"s1", "s2", "s1/"}
  BY DEF Defaults
<1> QED BY <1>2, <1>3, <1>4, <1>5 DEF Harmless, Wrong, Absent, Null, Kept

LEMMA TokenHarmless == Harmless("ingestToken")
<1> DEFINE f == "ingestToken"
           one == "t1"
           two == "t2"
           loose == " t1"
           rest == [v \in {loose} |-> one]
<1>1. PageRules[f] = Rule({Kept, one, two}, rest, Wrong)
  BY Zenon DEF PageRules
<1>2. /\ \A x \in {one, two, loose} : x \notin {Absent, Null, Kept, Wrong}
      /\ loose \notin {one, two} /\ one # two
  BY Zenon DEF Absent, Null, Kept, Wrong
<1>3. \A v : Shows(f, v) \in {Absent, Kept}
  BY Zenon DEF Shows
<1>4. Absent # Kept /\ Wrong # Kept /\ Absent # Wrong /\ Null # Kept
  BY DEF Absent, Kept, Wrong, Null
<1> HIDE DEF one, two, loose, f
<1>5. DOMAIN rest = {loose} /\ rest[loose] = one
  OBVIOUS
<1> HIDE DEF rest
<1>6. \A v : Obey(PageRules[f], v) = IF v \in {Kept, one, two} THEN v ELSE IF v = loose THEN one ELSE Wrong
  BY <1>1, <1>2, <1>4, <1>5, ObeyIs
<1>7. Harmless(f)
  BY <1>2, <1>3, <1>4, <1>6 DEF Harmless, f
<1> QED BY <1>7 DEF f

LEMMA CertHarmless == Harmless("certPath")
<1> DEFINE f == "certPath"
           pem == "pem"
           gone == "gone"
           loose == " pem"
           empty == ""
<1>1. /\ PageRules[f] = Rule({pem, gone}, CertPath, Null) /\ LoaderRules[f] = Rule({pem}, CertPath, Null)
      /\ Defaults[f] = Null
  BY Zenon DEF PageRules, LoaderRules, Defaults
<1>2. CertPath = [v \in {loose, empty} |-> IF v = empty THEN Null ELSE pem] /\ loose # empty
  BY Zenon DEF CertPath
<1>3. /\ \A x \in {pem, gone, loose, empty} : x \notin {Absent, Null, Kept, Wrong}
      /\ pem \notin {gone, loose, empty} /\ gone \notin {loose, empty}
  BY Zenon DEF Absent, Null, Kept, Wrong
<1>4. f \notin {"ingestToken", "trafficEnabled", "unknown"}
  OBVIOUS
<1>5. Absent # Kept /\ Wrong # Kept /\ Absent # Wrong /\ Null # Kept /\ Null # Wrong /\ Absent # Null
  BY DEF Absent, Kept, Wrong, Null
<1> HIDE DEF pem, gone, loose, empty, f
<1>6. DOMAIN CertPath = {loose, empty} /\ CertPath[loose] = pem /\ CertPath[empty] = Null
  BY <1>2
<1>7. \A v : Obey(PageRules[f], v) = IF v \in {pem, gone} THEN v ELSE IF v = loose THEN pem
                                     ELSE IF v \in {empty, Absent, Null} THEN Null ELSE Wrong
  BY <1>1, <1>3, <1>6, ObeyIs
<1>8. \A v : Read(f, v) = IF v \in {pem, loose} THEN pem
                          ELSE IF v \in {empty, Absent, Null} THEN Null ELSE Wrong
  BY <1>1, <1>3, <1>4, <1>6, ObeyIs DEF Read
<1>9. \A v : Shows(f, v) = IF v = Absent THEN Null ELSE v
  BY <1>1, <1>4, Zenon DEF Shows
<1>10. Harmless(f)
  BY <1>3, <1>5, <1>7, <1>8, <1>9 DEF Harmless
<1> QED BY <1>10 DEF f

LEMMA PagesAreHarmless == \A f \in PageFields : Harmless(f)
<1>1. PageFields = {"serverUrl", "ingestToken", "certPath", "trafficEnabled", "trafficRadiusM", "sim", "autoUplink"}
  BY DEF PageFields, PageRules
<1> QED BY <1>1, UrlHarmless, TokenHarmless, CertHarmless, TrafficHarmless, RadiusHarmless, SimHarmless,
           AutoUplinkHarmless

-----------------------------------------------------------------------------
(* What a draft, a save and a merged text say of the file.                 *)

PageRecord == {"told", "toRead", "draft", "edits", "faults", "out", "sent", "edited"}
Sound(file) ==
  /\ file.is \in {"missing", "broken", "object"}
  /\ file.is = "object" => DOMAIN file.raw = Fields
\* What was told, if no draft was made of it yet.
Told(p, c, file) ==
  p.draft = NoConfig /\ ~p.toRead /\ c.draft = "no" =>
    p.told = IF file.is = "object" THEN file.raw ELSE NoConfig
\* A draft of this file means the same, but for what was entered.
Drafted(p, c, file) ==
  /\ p.draft # NoConfig => DOMAIN p.draft = PageFields
  /\ p.draft # NoConfig /\ c.draft = "no" =>
       \A f \in PageFields \ p.edits : Agrees(f, p.draft[f], file)
\* A save carries all but a token that was not shown, as the pages have it.
Whole(sent) ==
  /\ PageFields \ {"ingestToken"} \subseteq DOMAIN sent /\ "version" \in DOMAIN sent
  /\ DOMAIN sent \subseteq PageFields \cup {"version"}
  /\ \A f \in DOMAIN sent \cap PageFields : Obey(PageRules[f], sent[f]) = sent[f]
MeansSent(f, sent, file) == Read(f, sent[f]) = Means(file, f)
Sending(p, c, file) ==
  /\ p.out # "no" => p.draft # NoConfig
  /\ p.out \in {"asked", "saved"} => Whole(p.sent)
  /\ p.out = "asked" =>
       /\ \A f \in PageFields \ p.edits : p.draft[f] # Kept =>
            f \in DOMAIN p.sent /\ p.sent[f] = Obey(PageRules[f], p.draft[f])
       /\ c.draft = "no" =>
            \A f \in (DOMAIN p.sent \cap PageFields) \ p.edited : MeansSent(f, p.sent, file)
  /\ p.out = "saved" /\ c.draft = "no" =>
       \A f \in DOMAIN p.sent \cap PageFields : MeansSent(f, p.sent, file)
\* What is about to be written has what is sent, and the rest of the file.
Merged(p, s, c, file) ==
  s.at # "idle" =>
    /\ p.out = "asked" /\ DOMAIN s.text = Fields
    /\ \A f \in DOMAIN p.sent : s.text[f] = p.sent[f]
    /\ ~c.text => \A f \in Fields \ DOMAIN p.sent : s.text[f] = Raw(file, f)
Drafts(p, s, c, file) ==
  DOMAIN p = PageRecord /\ Told(p, c, file) /\ Drafted(p, c, file) /\ Sending(p, c, file)
  /\ Merged(p, s, c, file)
DraftInv ==
  /\ Sound(disk.file) /\ IsMap(page)
  /\ \A a \in Apps : Drafts(page[a], shell[a], apart[a], disk.file)

\* What the pages show of a file agrees with it.
LEMMA DraftAgrees ==
  ASSUME NEW file, Sound(file), NEW told, told = IF file.is = "object" THEN file.raw ELSE NoConfig
  PROVE  /\ DOMAIN Draft(told) = PageFields
         /\ \A f \in PageFields : Agrees(f, Draft(told)[f], file)
<1>1. PageFields \subseteq Fields /\ "sim" \in Fields /\ DOMAIN Defaults = PageFields /\ DOMAIN NoConfig = {}
  BY DEF PageFields, Fields, PageRules, LoaderRules, Defaults, NoConfig
<1>2. told # NoConfig => file.is = "object" /\ told = file.raw
  OBVIOUS
<1>3. told = NoConfig => file.is # "object"
  BY <1>1 DEF Sound
<1>4. Defaults["ingestToken"] = Absent
  BY Zenon DEF Defaults
<1>5. DOMAIN Draft(told) = PageFields
  BY <1>1 DEF Draft
<1>6. ASSUME NEW f \in PageFields PROVE Draft(told)[f] = Shows(f, Raw(file, f))
  <2>1. CASE told = NoConfig
    <3>1. Draft(told)[f] = Defaults[f] /\ Raw(file, f) = Absent
      BY <1>3, <2>1, Zenon DEF Draft, Raw
    <3> QED BY <1>4, <3>1, Zenon DEF Shows
  <2>2. CASE told # NoConfig
    <3>1. Raw(file, f) = told[f]
      BY <1>2, <2>2 DEF Raw
    <3>2. Draft(told)[f] = IF f = "ingestToken" THEN IF told[f] \in {Absent, Null, ""} THEN Absent ELSE Kept
                           ELSE IF told[f] = Absent THEN Defaults[f]
                           ELSE IF f = "trafficEnabled" THEN Obey(Traffic, told[f]) ELSE told[f]
      BY <2>2, Zenon DEF Draft
    <3> QED BY <3>1, <3>2, Zenon DEF Shows
  <2> QED BY <2>1, <2>2
<1>7. \A f \in PageFields : Means(file, f) = Read(f, Raw(file, f))
  BY DEF Means, Raw
<1>8. ASSUME NEW f \in PageFields PROVE Agrees(f, Draft(told)[f], file)
  BY <1>6, <1>7, PagesAreHarmless DEF Harmless, Agrees
<1> QED BY <1>5, <1>8

\* What was sent agrees with a file that means the same.
LEMMA SentAgrees ==
  ASSUME NEW file, NEW sent, Whole(sent), NEW f \in DOMAIN sent \cap PageFields, MeansSent(f, sent, file)
  PROVE  Agrees(f, sent[f], file)
BY DEF Whole, MeansSent, Agrees

\* Nothing is said of a file that moved.
LEMMA MovedDrafts ==
  ASSUME NEW p, NEW s, NEW c, NEW file, Drafts(p, s, c, file), NEW d, d.draft = "moved", d.text, NEW other
  PROVE  Drafts(p, s, d, other)
BY DEF Drafts, Told, Drafted, Sending, Merged

LEMMA StepDrafts ==
  ASSUME DraftInv, NEW a \in Apps, IsMap(page'), disk'.file = disk.file,
         \A b \in Apps : b # a => page'[b] = page[b] /\ shell'[b] = shell[b] /\ apart'[b] = apart[b],
         Drafts(page'[a], shell'[a], apart'[a], disk.file)
  PROVE  DraftInv'
BY DEF DraftInv

(* The page's steps.                                                       *)

LEMMA ReadDrafts == ASSUME Inv, DraftInv, NEW a \in Apps, ReadConfig(a) PROVE DraftInv'
<1> DEFINE p == page[a]
           c == apart[a]
           told == CASE disk.file.is = "object" -> disk.file.raw
                     [] disk.file.is = "missing" -> shell[a].shown
                     [] OTHER -> NoConfig
           out == IF p.out = "reread" THEN "no" ELSE p.out
           q == [p EXCEPT !.toRead = FALSE, !.out = out, !.told = told]
           draft == IF p.draft # NoConfig THEN c.draft
                    ELSE IF q.told = shell[a].shown /\ shell[a].shown # NoConfig THEN "moved" ELSE "no"
           d == [c EXCEPT !.tokens = FALSE, !.draft = draft]
<1>1. /\ IsMap(shell) /\ IsMap(apart) /\ IsApart(c) /\ IsShell(shell[a]) /\ Drafts(p, shell[a], c, disk.file)
      /\ IsMap(page) /\ DOMAIN p = PageRecord /\ Sound(disk.file)
  BY Shaped DEF DraftInv, Drafts
<1>2. page' = [page EXCEPT ![a] = q] /\ disk' = disk
  BY <1>1 DEF ReadConfig, IsMap
<1>3. page'[a] = q
  BY <1>1, <1>2 DEF IsMap
<1>4. apart' = [apart EXCEPT ![a] = d]
  BY <1>1, <1>3 DEF ReadConfig, IsMap
<1>5. shell'[a].at = shell[a].at /\ shell'[a].text = shell[a].text
  BY <1>1 DEF ReadConfig, IsMap, IsShell
<1>6. \A b \in Apps : b # a => page'[b] = page[b] /\ shell'[b] = shell[b] /\ apart'[b] = apart[b]
  BY <1>1, <1>2, <1>4 DEF ReadConfig, IsMap
<1>7. IsMap(page') /\ apart'[a] = d
  BY <1>1, <1>2, <1>4 DEF IsMap
<1> HIDE DEF told, out, draft
<1>8. /\ DOMAIN q = PageRecord /\ ~q.toRead /\ q.out = out /\ q.told = told /\ q.draft = p.draft
      /\ q.edits = p.edits /\ q.sent = p.sent /\ q.edited = p.edited
  BY <1>1 DEF PageRecord
<1>9. d.draft = draft /\ d.text = c.text
  BY <1>1 DEF IsApart
<1>10. p.draft # NoConfig => draft = c.draft
  BY DEF draft
<1>11. p.draft = NoConfig /\ draft = "no" => told = IF disk.file.is = "object" THEN disk.file.raw ELSE NoConfig
  <2>1. SUFFICES ASSUME p.draft = NoConfig, draft = "no"
                 PROVE  told = IF disk.file.is = "object" THEN disk.file.raw ELSE NoConfig
    OBVIOUS
  <2>2. ~(told = shell[a].shown /\ shell[a].shown # NoConfig)
    BY <1>8, <2>1, Zenon DEF draft
  <2>3. CASE disk.file.is = "object"
    BY <2>3 DEF told
  <2>4. CASE disk.file.is = "missing"
    BY <2>2, <2>4 DEF told
  <2>5. CASE disk.file.is = "broken"
    BY <2>5 DEF told
  <2> QED BY <1>1, <2>3, <2>4, <2>5 DEF Sound
<1>12. out # "no" => out = p.out /\ out # "reread"
  BY DEF out
<1>13. out \in {"no", p.out} /\ (p.out # "reread" => out = p.out)
  BY DEF out
<1> HIDE DEF q, d, p, c
<1>14. Told(q, d, disk.file)
  BY <1>8, <1>9, <1>11 DEF Told
<1>15. Drafted(q, d, disk.file)
  BY <1>1, <1>8, <1>9, <1>10 DEF Drafts, Drafted
<1>16. Sending(q, d, disk.file)
  BY <1>1, <1>8, <1>9, <1>10, <1>12 DEF Drafts, Sending
<1>17. Merged(q, shell'[a], d, disk.file)
  BY <1>1, <1>5, <1>8, <1>9, <1>13 DEF Drafts, Merged
<1> QED BY <1>2, <1>3, <1>6, <1>7, <1>8, <1>14, <1>15, <1>16, <1>17, StepDrafts DEF Drafts

LEMMA OpenDrafts == ASSUME Inv, DraftInv, NEW a \in Apps, OpenPages(a) PROVE DraftInv'
<1> DEFINE p == page[a]
           c == apart[a]
           made == Draft(p.told)
           q == [p EXCEPT !.draft = made]
           draft == IF p.toRead THEN "blind" ELSE c.draft
           d == [c EXCEPT !.draft = draft]
<1>1. /\ IsMap(apart) /\ IsApart(c) /\ Drafts(p, shell[a], c, disk.file) /\ IsMap(page)
      /\ DOMAIN p = PageRecord /\ Sound(disk.file) /\ p.draft = NoConfig
  BY Shaped DEF DraftInv, Drafts, OpenPages
<1>2. page' = [page EXCEPT ![a] = q] /\ disk' = disk /\ shell' = shell /\ apart' = [apart EXCEPT ![a] = d]
  BY <1>1 DEF OpenPages, IsMap
<1>3. /\ page'[a] = q /\ apart'[a] = d /\ IsMap(page')
      /\ \A b \in Apps : b # a => page'[b] = page[b] /\ apart'[b] = apart[b]
  BY <1>1, <1>2 DEF IsMap
<1> HIDE DEF made, draft
<1>4. /\ DOMAIN q = PageRecord /\ q.toRead = p.toRead /\ q.out = p.out /\ q.draft = made
      /\ q.edits = p.edits /\ q.sent = p.sent /\ q.edited = p.edited
  BY <1>1 DEF PageRecord
<1>5. d.draft = draft /\ d.text = c.text
  BY <1>1 DEF IsApart
<1>6. draft = "no" => c.draft = "no" /\ ~p.toRead
  BY DEF draft
<1>7. DOMAIN made = PageFields /\ made # NoConfig
  <2>1. DOMAIN made = PageFields
    BY DEF made, Draft, Defaults, PageFields, PageRules
  <2> QED BY <2>1 DEF PageFields, PageRules, NoConfig
<1>8. p.out = "no" /\ shell[a].at = "idle"
  BY <1>1 DEF Drafts, Sending, Merged
<1> HIDE DEF q, d, p, c
<1>9. ASSUME draft = "no" PROVE \A f \in PageFields : Agrees(f, made[f], disk.file)
  BY <1>1, <1>6, <1>9, DraftAgrees DEF Drafts, Told, made
<1>10. Told(q, d, disk.file) /\ Drafted(q, d, disk.file)
  BY <1>4, <1>5, <1>7, <1>9 DEF Told, Drafted
<1>11. Sending(q, d, disk.file) /\ Merged(q, shell[a], d, disk.file)
  BY <1>4, <1>5, <1>7, <1>8 DEF Sending, Merged
<1> QED BY <1>2, <1>3, <1>4, <1>10, <1>11, StepDrafts DEF Drafts

LEMMA EnterDrafts == ASSUME Inv, DraftInv, NEW a \in Apps, EnterField(a) PROVE DraftInv'
<1> DEFINE p == page[a]
           c == apart[a]
<1>1. /\ Drafts(p, shell[a], c, disk.file) /\ IsMap(page) /\ DOMAIN p = PageRecord /\ p.draft # NoConfig
      /\ disk' = disk /\ shell' = shell /\ apart' = apart
  BY DEF DraftInv, Drafts, EnterField
<1>2. PICK field, value :
        \/ page' = [page EXCEPT ![a].faults = p.faults \cup {field}]
        \/ page' = [page EXCEPT ![a].draft[field] = value, ![a].edits = p.edits \cup {field},
                                ![a].faults = p.faults \ {field}]
  <2>1. PICK e \in Entries :
          \/ page' = [page EXCEPT ![a].faults = page[a].faults \cup {e.field}]
          \/ page' = [page EXCEPT ![a].draft[e.field] = Obey(PageRules[e.field], e.value),
                                  ![a].edits = page[a].edits \cup {e.field},
                                  ![a].faults = page[a].faults \ {e.field}]
    BY Zenon DEF EnterField
  <2> QED BY <2>1, Zenon
<1> DEFINE q == [p EXCEPT !.faults = p.faults \cup {field}]
           made == [p.draft EXCEPT ![field] = value]
           r == [p EXCEPT !.draft = made, !.edits = p.edits \cup {field}, !.faults = p.faults \ {field}]
<1>3. page' = [page EXCEPT ![a] = q] \/ page' = [page EXCEPT ![a] = r]
  <2> DEFINE edits == p.edits \cup {field}
             faults == p.faults \ {field}
             more == p.faults \cup {field}
  <2>1. \/ page' = [page EXCEPT ![a].faults = more]
        \/ page' = [page EXCEPT ![a].draft[field] = value, ![a].edits = edits, ![a].faults = faults]
    BY <1>2
  <2> HIDE DEF edits, faults, more
  <2>2. [page EXCEPT ![a].faults = more] = [page EXCEPT ![a] = [page[a] EXCEPT !.faults = more]]
    BY Zenon
  <2>3. [page EXCEPT ![a].draft[field] = value, ![a].edits = edits, ![a].faults = faults] =
        [page EXCEPT ![a] = [page[a] EXCEPT !.draft = [page[a].draft EXCEPT ![field] = value],
                                            !.edits = edits, !.faults = faults]]
    BY <1>1 DEF IsMap, PageRecord
  <2> QED BY <2>1, <2>2, <2>3, Zenon DEF edits, faults, more
<1>4. /\ IsMap(page') /\ page'[a] \in {q, r}
      /\ \A b \in Apps : b # a => page'[b] = page[b]
  BY <1>1, <1>3 DEF IsMap
<1>5. /\ DOMAIN q = PageRecord /\ q.told = p.told /\ q.toRead = p.toRead /\ q.draft = p.draft /\ q.edits = p.edits
      /\ q.out = p.out /\ q.sent = p.sent /\ q.edited = p.edited
  BY <1>1 DEF PageRecord
<1>6. DOMAIN made = PageFields /\ made # NoConfig
      /\ \A f \in PageFields \ (p.edits \cup {field}) : made[f] = p.draft[f] /\ f \in PageFields \ p.edits
  <2>1. DOMAIN p.draft = PageFields
    BY <1>1 DEF Drafts, Drafted
  <2>2. DOMAIN made = PageFields
    BY <2>1
  <2>3. made # NoConfig
    BY <2>2 DEF PageFields, PageRules, NoConfig
  <2> QED BY <2>1, <2>2, <2>3
<1> HIDE DEF made
<1>7. /\ DOMAIN r = PageRecord /\ r.toRead = p.toRead /\ r.draft = made /\ r.edits = p.edits \cup {field}
      /\ r.out = p.out /\ r.sent = p.sent /\ r.edited = p.edited
  BY <1>1 DEF PageRecord
<1> HIDE DEF p, q, r, c
<1>8. Drafts(q, shell[a], c, disk.file)
  BY <1>1, <1>5 DEF Drafts, Told, Drafted, Sending, Merged
<1>9. Told(r, c, disk.file) /\ Drafted(r, c, disk.file)
  BY <1>1, <1>6, <1>7 DEF Drafts, Told, Drafted
<1>10. Sending(r, c, disk.file)
  BY <1>1, <1>6, <1>7 DEF Drafts, Sending
<1>11. Merged(r, shell[a], c, disk.file)
  BY <1>1, <1>7 DEF Drafts, Merged
<1>12. Drafts(page'[a], shell'[a], apart'[a], disk.file)
  BY <1>1, <1>4, <1>7, <1>8, <1>9, <1>10, <1>11 DEF Drafts, c
<1> QED BY <1>1, <1>4, <1>12, StepDrafts

LEMMA PatchWhole ==
  ASSUME NEW draft, DOMAIN draft = PageFields, Faulty(draft) = {}
  PROVE  /\ Whole(Patch(draft))
         /\ \A f \in PageFields : f \in DOMAIN Patch(draft) <=> draft[f] # Kept
         /\ \A f \in PageFields : draft[f] # Kept => Patch(draft)[f] = Obey(PageRules[f], draft[f])
<1>1. "version" \notin PageFields
  BY DEF PageFields, PageRules
<1>2. DOMAIN Patch(draft) = {"version"} \cup {g \in PageFields : draft[g] # Kept}
  BY DEF Patch
<1>3. \A f \in PageFields : draft[f] # Kept => Patch(draft)[f] = Obey(PageRules[f], draft[f])
  BY <1>1 DEF Patch
<1>4. \A f \in PageFields : Obey(PageRules[f], draft[f]) # Wrong
  BY DEF Faulty
<1>5. \A f \in PageFields \ {"ingestToken"} : draft[f] # Kept
  BY <1>4, PagesAreHarmless DEF Harmless
<1>6. \A f \in DOMAIN Patch(draft) \cap PageFields : Obey(PageRules[f], Patch(draft)[f]) = Patch(draft)[f]
  BY <1>1, <1>2, <1>3, PagesAreHarmless DEF Harmless
<1>7. Whole(Patch(draft))
  BY <1>2, <1>5, <1>6 DEF Whole
<1>8. \A f \in PageFields : f \in DOMAIN Patch(draft) <=> draft[f] # Kept
  BY <1>1, <1>2
<1> QED BY <1>3, <1>7, <1>8

LEMMA PressDrafts == ASSUME Inv, DraftInv, NEW a \in Apps, PressSave(a) PROVE DraftInv'
<1> DEFINE p == page[a]
           c == apart[a]
           sent == Patch(p.draft)
<1>1. /\ Drafts(p, shell[a], c, disk.file) /\ IsMap(page) /\ DOMAIN p = PageRecord /\ p.draft # NoConfig
      /\ p.out = "no" /\ shell[a].at = "idle" /\ DOMAIN p.draft = PageFields
      /\ disk' = disk /\ shell' = shell /\ apart' = apart
  BY DEF DraftInv, Drafts, Drafted, Merged, PressSave
<1>2. CASE Faulty(p.draft) # {}
  <2>1. PICK faults : page' = [page EXCEPT ![a].faults = faults]
    BY <1>2 DEF PressSave
  <2> DEFINE q == [p EXCEPT !.faults = faults]
  <2>2. IsMap(page') /\ page'[a] = q /\ \A b \in Apps : b # a => page'[b] = page[b]
    BY <1>1, <2>1 DEF IsMap
  <2>3. /\ DOMAIN q = PageRecord /\ q.told = p.told /\ q.toRead = p.toRead /\ q.draft = p.draft /\ q.edits = p.edits
        /\ q.out = p.out /\ q.sent = p.sent /\ q.edited = p.edited
    BY <1>1 DEF PageRecord
  <2> HIDE DEF p, q, c
  <2>4. Drafts(q, shell[a], c, disk.file)
    BY <1>1, <2>3 DEF Drafts, Told, Drafted, Sending, Merged
  <2> QED BY <1>1, <2>2, <2>4, StepDrafts DEF c
<1>3. CASE Faulty(p.draft) = {}
  <2>1. page' = [page EXCEPT ![a].out = "asked", ![a].sent = sent, ![a].edited = p.edits]
    BY <1>3 DEF PressSave
  <2>2. /\ Whole(sent) /\ \A f \in PageFields : f \in DOMAIN sent <=> p.draft[f] # Kept
        /\ \A f \in PageFields : p.draft[f] # Kept => sent[f] = Obey(PageRules[f], p.draft[f])
    BY <1>1, <1>3, PatchWhole
  <2>3. \A f \in PageFields : Obey(PageRules[f], p.draft[f]) # Wrong
    BY <1>3 DEF Faulty
  <2> HIDE DEF sent
  <2> DEFINE q == [p EXCEPT !.out = "asked", !.sent = sent, !.edited = p.edits]
  <2>4. IsMap(page') /\ page'[a] = q /\ \A b \in Apps : b # a => page'[b] = page[b]
    BY <1>1, <2>1 DEF IsMap
  <2>5. /\ DOMAIN q = PageRecord /\ q.toRead = p.toRead /\ q.draft = p.draft /\ q.edits = p.edits
        /\ q.out = "asked" /\ q.sent = sent /\ q.edited = p.edits
    BY <1>1 DEF PageRecord
  <2> HIDE DEF p, q, c
  <2>6. Told(q, c, disk.file) /\ Drafted(q, c, disk.file) /\ Merged(q, shell[a], c, disk.file)
    BY <1>1, <2>5 DEF Drafts, Told, Drafted, Merged
  <2>7. ASSUME c.draft = "no", NEW f \in (DOMAIN sent \cap PageFields) \ p.edits
        PROVE  MeansSent(f, sent, disk.file)
    <3>1. Agrees(f, p.draft[f], disk.file)
      BY <1>1, <2>7 DEF Drafts, Drafted
    <3>2. p.draft[f] # Kept /\ sent[f] = Obey(PageRules[f], p.draft[f]) /\ sent[f] # Wrong
      BY <2>2, <2>3, <2>7
    <3> QED BY <3>1, <3>2 DEF Agrees, MeansSent
  <2>8. Sending(q, c, disk.file)
    BY <1>1, <2>2, <2>5, <2>7 DEF Sending
  <2> QED BY <1>1, <2>4, <2>5, <2>6, <2>8, StepDrafts DEF Drafts, c
<1> QED BY <1>2, <1>3

LEMMA TokenAbsent == Obey(PageRules["ingestToken"], Absent) = Wrong
<1> DEFINE one == "t1"
           two == "t2"
           loose == " t1"
           rest == [v \in {loose} |-> one]
<1>1. PageRules["ingestToken"] = Rule({Kept, one, two}, rest, Wrong)
  BY Zenon DEF PageRules
<1>2. Absent \notin {Kept, one, two, loose}
  BY Zenon DEF Absent, Kept
<1> HIDE DEF one, two, loose
<1>3. Absent \notin DOMAIN rest
  BY <1>2
<1> HIDE DEF rest
<1> QED BY <1>1, <1>2, <1>3, ObeyIs

LEMMA AnswerDrafts == ASSUME Inv, DraftInv, NEW a \in Apps, SaveAnswered(a) PROVE DraftInv'
<1> DEFINE p == page[a]
           c == apart[a]
           made == [f \in PageFields |->
                     IF f = "ingestToken" THEN IF f \in DOMAIN p.sent \/ p.draft[f] # Absent THEN Kept ELSE Absent
                     ELSE p.sent[f]]
           r == [p EXCEPT !.out = "no", !.sent = NoConfig, !.edited = {}]
           q == [p EXCEPT !.out = "reread", !.sent = NoConfig, !.edited = {}, !.edits = {}, !.toRead = TRUE,
                          !.draft = made]
<1>1. /\ Drafts(p, shell[a], c, disk.file) /\ IsMap(page) /\ DOMAIN p = PageRecord
      /\ p.out \in {"saved", "failed"} /\ shell[a].at = "idle"
      /\ disk' = disk /\ shell' = shell /\ apart' = apart
  BY DEF DraftInv, Drafts, Merged, SaveAnswered
<1> DEFINE new == IF p.out = "failed" THEN r ELSE q
<1>2. page' = [page EXCEPT ![a] = new]
  BY DEF SaveAnswered
<1> HIDE DEF new
<1>3. /\ IsMap(page') /\ page'[a] = new
      /\ \A b \in Apps : b # a => page'[b] = page[b]
  BY <1>1, <1>2 DEF IsMap
<1>4. DOMAIN made = PageFields /\ made # NoConfig
  <2>1. DOMAIN made = PageFields
    OBVIOUS
  <2> HIDE DEF made
  <2> QED BY <2>1 DEF PageFields, PageRules, NoConfig
<1>5. ASSUME p.out = "saved", c.draft = "no", NEW f \in PageFields PROVE Agrees(f, made[f], disk.file)
  <2>1. CASE f = "ingestToken"
    <3>1. made[f] \in {Kept, Absent}
      BY <2>1, Zenon
    <3> HIDE DEF made
    <3> QED BY <2>1, <3>1, TokenAbsent DEF Agrees
  <2>2. CASE f # "ingestToken"
    <3>1. Whole(p.sent) /\ \A g \in DOMAIN p.sent \cap PageFields : MeansSent(g, p.sent, disk.file)
      BY <1>1, <1>5 DEF Drafts, Sending
    <3>2. f \in DOMAIN p.sent \cap PageFields
      BY <2>2, <3>1 DEF Whole
    <3>3. made[f] = p.sent[f]
      BY <2>2, Zenon
    <3> QED BY <3>1, <3>2, <3>3, SentAgrees
  <2> QED BY <2>1, <2>2
<1> HIDE DEF made
<1>6. /\ DOMAIN r = PageRecord /\ r.told = p.told /\ r.toRead = p.toRead /\ r.draft = p.draft
      /\ r.edits = p.edits /\ r.out = "no"
  BY <1>1 DEF PageRecord
<1>7. /\ DOMAIN q = PageRecord /\ q.toRead /\ q.draft = made /\ q.edits = {} /\ q.out = "reread"
  BY <1>1 DEF PageRecord
<1> HIDE DEF p, q, r, c
<1>8. Drafts(r, shell[a], c, disk.file)
  BY <1>1, <1>6 DEF Drafts, Told, Drafted, Sending, Merged
<1>9. p.out = "saved" => Drafts(q, shell[a], c, disk.file)
  BY <1>1, <1>4, <1>5, <1>7 DEF Drafts, Told, Drafted, Sending, Merged
<1>10. Drafts(page'[a], shell'[a], apart'[a], disk.file)
  <2>1. page'[a] = r \/ (p.out = "saved" /\ page'[a] = q)
    BY <1>1, <1>3 DEF new
  <2>2. shell'[a] = shell[a] /\ apart'[a] = c
    BY <1>1 DEF c
  <2> QED BY <1>8, <1>9, <2>1, <2>2
<1> QED BY <1>1, <1>3, <1>10, StepDrafts

(* The save's steps.                                                       *)

LEMMA MergeDrafts == ASSUME Inv, DraftInv, NEW a \in Apps, ReadAndMerge(a) PROVE DraftInv'
<1> DEFINE p == page[a]
           c == apart[a]
<1>1. /\ Drafts(p, shell[a], c, disk.file) /\ IsMap(page) /\ DOMAIN p = PageRecord
      /\ p.out = "asked" /\ shell[a].at = "idle" /\ disk' = disk
      /\ IsMap(shell) /\ IsShell(shell[a]) /\ IsMap(apart) /\ IsApart(c)
  BY Shaped DEF DraftInv, Drafts, ReadAndMerge
<1>2. CASE disk.file.is = "broken"
  <2>1. page' = [page EXCEPT ![a].out = "failed"] /\ shell' = shell /\ apart' = apart
    BY <1>2 DEF ReadAndMerge, SaveEnds
  <2> DEFINE q == [p EXCEPT !.out = "failed"]
  <2>2. IsMap(page') /\ page'[a] = q /\ \A b \in Apps : b # a => page'[b] = page[b]
    BY <1>1, <2>1 DEF IsMap
  <2>3. /\ DOMAIN q = PageRecord /\ q.told = p.told /\ q.toRead = p.toRead /\ q.draft = p.draft /\ q.edits = p.edits
        /\ q.out = "failed"
    BY <1>1 DEF PageRecord
  <2> HIDE DEF p, q, c
  <2>4. Drafts(q, shell[a], c, disk.file)
    BY <1>1, <2>3 DEF Drafts, Told, Drafted, Sending, Merged
  <2> QED BY <1>1, <2>1, <2>2, <2>4, StepDrafts DEF c
<1>3. CASE disk.file.is # "broken"
  <2> DEFINE text == Merge(disk.file, p.sent)
             known == shell[a].secrets \cup TokensOf(disk.file) \cup Tokens(text)
             d == [c EXCEPT !.text = FALSE, !.tokens = FALSE]
  <2>1. /\ shell' = [shell EXCEPT ![a].at = "merged", ![a].text = text, ![a].secrets = known]
        /\ apart' = [apart EXCEPT ![a].text = FALSE, ![a].tokens = FALSE] /\ page' = page
    BY <1>3 DEF ReadAndMerge
  <2>2. /\ DOMAIN text = Fields /\ \A f \in Fields : f \in DOMAIN p.sent => text[f] = p.sent[f]
        /\ \A f \in Fields \ DOMAIN p.sent : text[f] = Raw(disk.file, f)
    BY DEF Merge, Raw
  <2>3. DOMAIN p.sent \subseteq Fields
    <3>1. Whole(p.sent)
      BY <1>1 DEF Drafts, Sending
    <3>2. PageFields \subseteq Fields /\ "version" \in Fields
      BY DEF PageFields, PageRules, Fields, LoaderRules
    <3> QED BY <3>1, <3>2 DEF Whole
  <2> HIDE DEF text, known
  <2>4. shell'[a].at = "merged" /\ shell'[a].text = text
    BY <1>1, <2>1 DEF IsMap, IsShell
  <2>5. apart'[a] = d
    BY <1>1, <2>1 DEF IsMap
  <2>6. d.draft = c.draft /\ d.text = FALSE
    BY <1>1 DEF IsApart
  <2>7. \A b \in Apps : b # a => shell'[b] = shell[b] /\ apart'[b] = apart[b]
    BY <1>1, <2>1 DEF IsMap
  <2> HIDE DEF d, p, c
  <2>8. Told(p, d, disk.file) /\ Drafted(p, d, disk.file) /\ Sending(p, d, disk.file)
    BY <1>1, <2>6 DEF Drafts, Told, Drafted, Sending
  <2>9. Merged(p, shell'[a], d, disk.file)
    BY <1>1, <2>2, <2>3, <2>4, <2>6 DEF Merged
  <2> QED BY <1>1, <2>1, <2>5, <2>7, <2>8, <2>9, StepDrafts DEF Drafts, p
<1> QED BY <1>2, <1>3

\* A save that ends badly says no more of the file.
LEMMA FailedDrafts ==
  ASSUME Inv, DraftInv, NEW a \in Apps, shell[a].at # "idle", SaveFails(a), disk'.file = disk.file, apart' = apart
  PROVE  DraftInv'
<1> DEFINE p == page[a]
           q == [p EXCEPT !.out = "failed"]
           none == NoConfig
<1>1. /\ Drafts(p, shell[a], apart[a], disk.file) /\ IsMap(page) /\ DOMAIN p = PageRecord
      /\ IsMap(shell) /\ IsShell(shell[a])
  BY Shaped DEF DraftInv, Drafts
<1>2. page' = [page EXCEPT ![a] = q] /\ shell' = [shell EXCEPT ![a].at = "idle", ![a].text = none]
  BY <1>1 DEF SaveFails, SaveEnds, IsMap
<1> HIDE DEF none
<1>3. /\ IsMap(page') /\ page'[a] = q /\ shell'[a].at = "idle"
      /\ \A b \in Apps : b # a => page'[b] = page[b] /\ shell'[b] = shell[b]
  BY <1>1, <1>2 DEF IsMap, IsShell
<1>4. /\ DOMAIN q = PageRecord /\ q.told = p.told /\ q.toRead = p.toRead /\ q.draft = p.draft /\ q.edits = p.edits
      /\ q.out = "failed"
  BY <1>1 DEF PageRecord
<1> HIDE DEF p, q
<1>5. Drafts(q, shell'[a], apart[a], disk.file)
  BY <1>1, <1>3, <1>4 DEF Drafts, Told, Drafted, Sending, Merged
<1> QED BY <1>3, <1>5, StepDrafts

LEMMA TempDrafts ==
  ASSUME Inv, DraftInv, NEW a \in Apps, CreateTemp(a) \/ WriteFails(a) \/ WriteTemp(a)
  PROVE  DraftInv'
<1>1. /\ IsMap(shell) /\ IsShell(shell[a]) /\ IsDisk(disk) /\ shell[a].at # "idle" /\ apart' = apart
      /\ Drafts(page[a], shell[a], apart[a], disk.file) /\ IsMap(page)
  BY Shaped DEF CreateTemp, WriteFails, WriteTemp, DraftInv
<1>2. disk'.file = disk.file
  BY <1>1 DEF CreateTemp, WriteFails, WriteTemp, IsDisk
<1>3. CASE SaveFails(a)
  BY <1>1, <1>2, <1>3, FailedDrafts
<1>4. ASSUME NEW at, shell' = [shell EXCEPT ![a].at = at], page' = page, at # "idle"
      PROVE  DraftInv'
  <2>1. /\ shell'[a].at = at /\ shell'[a].text = shell[a].text
        /\ \A b \in Apps : b # a => shell'[b] = shell[b]
    BY <1>1, <1>4 DEF IsMap, IsShell
  <2>2. Drafts(page[a], shell'[a], apart[a], disk.file)
    BY <1>1, <1>4, <2>1 DEF Drafts, Merged
  <2> QED BY <1>1, <1>2, <1>4, <2>1, <2>2, StepDrafts
<1>5. CASE shell' = [shell EXCEPT ![a].at = "writing"] /\ page' = page
  BY <1>4, <1>5
<1>6. CASE shell' = [shell EXCEPT ![a].at = "written"] /\ page' = page
  BY <1>4, <1>6
<1> QED BY <1>3, <1>5, <1>6 DEF CreateTemp, WriteFails, WriteTemp

\* What the rename leaves: the merged text, and every other draft of another file.
LEMMA Renamed ==
  ASSUME FileAssumption, Inv, DraftInv, NEW a \in Apps, Rename(a)
  PROVE  /\ disk'.file.is = "object" /\ disk'.file.raw = shell[a].text
         /\ apart'[a].draft = "no"
         /\ \A b \in Apps : b # a => apart'[b].draft = "moved" /\ apart'[b].text
         /\ \A b \in Apps : b # a => page'[b] = page[b] /\ shell'[b] = shell[b]
         /\ shell'[a].at = "idle" /\ IsMap(page')
         /\ \E word \in {"saved", "failed"} : page'[a] = [page[a] EXCEPT !.out = word]
<1> DEFINE none == NoConfig
<1>1. /\ IsMap(shell) /\ IsShell(shell[a]) /\ IsMap(page) /\ shell[a].at = "written"
  BY Shaped DEF Rename, DraftInv
<1>2. disk.temp.whole /\ disk.temp.raw = shell[a].text
  BY <1>1 DEF Inv, Owned
<1>3. disk'.file = Object(shell[a].text)
  BY <1>2 DEF Rename
<1>4. disk'.file.is = "object" /\ disk'.file.raw = shell[a].text
  BY <1>3 DEF Object
<1>5. PICK word \in {"saved", "failed"} : \E reload :
        /\ page' = [page EXCEPT ![a].out = word]
        /\ shell' = [shell EXCEPT ![a].at = "idle", ![a].text = none, ![a].shown = none, ![a].reload = reload]
  BY Zenon DEF Rename, SaveEnds
<1> HIDE DEF none
<1>6. /\ page'[a] = [page[a] EXCEPT !.out = word] /\ IsMap(page') /\ shell'[a].at = "idle"
      /\ \A b \in Apps : b # a => page'[b] = page[b] /\ shell'[b] = shell[b]
  BY <1>1, <1>5 DEF IsMap, IsShell
<1>7. apart' = ApartBut({a})
  BY DEF Rename
<1>8. apart'[a].draft = "no"
  BY <1>7 DEF ApartBut, AtOne
<1>9. ASSUME NEW b \in Apps, b # a PROVE apart'[b].draft = "moved" /\ apart'[b].text
  BY <1>7, <1>9 DEF ApartBut
<1> QED BY <1>4, <1>5, <1>6, <1>8, <1>9

LEMMA RenameDrafts == ASSUME FileAssumption, Inv, DraftInv, NEW a \in Apps, Rename(a) PROVE DraftInv'
<1> DEFINE p == page[a]
           text == shell[a].text
<1>1. /\ Drafts(p, shell[a], apart[a], disk.file) /\ DOMAIN p = PageRecord /\ shell[a].at = "written"
  BY DEF DraftInv, Drafts, Rename
<1>2. /\ p.out = "asked" /\ p.draft # NoConfig /\ DOMAIN text = Fields
      /\ Whole(p.sent) /\ \A f \in DOMAIN p.sent : text[f] = p.sent[f]
  BY <1>1 DEF Drafts, Merged, Sending
<1>3. PICK word \in {"saved", "failed"} : page'[a] = [p EXCEPT !.out = word]
  BY Renamed
<1> DEFINE q == [p EXCEPT !.out = word]
<1>4. /\ DOMAIN q = PageRecord /\ q.draft = p.draft /\ q.edits = p.edits /\ q.sent = p.sent
      /\ q.out = word
  BY <1>1 DEF PageRecord
<1>5. Sound(disk'.file)
  BY <1>2, Renamed DEF Sound
<1>6. \A f : Means(disk'.file, f) = Read(f, text[f])
  BY Renamed DEF Means
<1>7. ASSUME NEW f \in PageFields \ p.edits PROVE Agrees(f, p.draft[f], disk'.file)
  <2>1. CASE p.draft[f] # Kept
    <3>1. f \in DOMAIN p.sent /\ p.sent[f] = Obey(PageRules[f], p.draft[f])
      BY <1>1, <1>2, <2>1 DEF Drafts, Sending
    <3>2. text[f] = Obey(PageRules[f], p.draft[f])
      BY <1>2, <3>1
    <3> QED BY <1>6, <3>2 DEF Agrees
  <2> QED BY <2>1 DEF Agrees
<1>8. ASSUME NEW f \in DOMAIN p.sent PROVE MeansSent(f, p.sent, disk'.file)
  BY <1>2, <1>6 DEF MeansSent
<1>9. DOMAIN p.draft = PageFields
  BY <1>1, <1>2 DEF Drafts, Drafted
<1>10. page'[a] = q
  BY <1>3
<1>11. shell'[a].at = "idle"
  BY Renamed
<1> HIDE DEF q, p, text
<1>12. Told(q, apart'[a], disk'.file) /\ Drafted(q, apart'[a], disk'.file)
  BY <1>2, <1>4, <1>7, <1>9 DEF Told, Drafted
<1>13. Sending(q, apart'[a], disk'.file) /\ Merged(q, shell'[a], apart'[a], disk'.file)
  BY <1>2, <1>4, <1>8, <1>11 DEF Sending, Merged
<1>14. Drafts(page'[a], shell'[a], apart'[a], disk'.file)
  BY <1>4, <1>10, <1>12, <1>13 DEF Drafts
<1>15. ASSUME NEW b \in Apps, b # a PROVE Drafts(page'[b], shell'[b], apart'[b], disk'.file)
  <2>1. Drafts(page[b], shell[b], apart[b], disk.file)
    BY DEF DraftInv
  <2>2. page'[b] = page[b] /\ shell'[b] = shell[b] /\ apart'[b].draft = "moved" /\ apart'[b].text
    BY <1>15, Renamed
  <2> QED BY <2>1, <2>2, MovedDrafts
<1>16. IsMap(page')
  BY Renamed
<1> QED BY <1>5, <1>14, <1>15, <1>16 DEF DraftInv

LEMMA HandDrafts ==
  ASSUME FileAssumption, RawAssumption, Inv, DraftInv, EditByHand
  PROVE  DraftInv'
<1>1. PICK file \in Hands : disk' = [disk EXCEPT !.file = file]
  BY DEF EditByHand
<1>2. disk'.file = file
  BY <1>1 DEF Inv, Shape, IsDisk
<1>3. Sound(disk'.file)
  BY <1>2 DEF FileAssumption, RawAssumption, Sound
<1>4. page' = page /\ shell' = shell
  BY DEF EditByHand
<1>5. ASSUME NEW b \in Apps PROVE Drafts(page'[b], shell'[b], apart'[b], disk'.file)
  <2>1. apart'[b].draft = "moved" /\ apart'[b].text
    BY DEF EditByHand, ApartBut
  <2>2. Drafts(page[b], shell[b], apart[b], disk.file)
    BY DEF DraftInv
  <2> QED BY <1>4, <2>1, <2>2, MovedDrafts
<1> QED BY <1>3, <1>4, <1>5 DEF DraftInv

(* What the sidecar does, and a start afresh.                              *)

LEMMA BootedDrafts == ASSUME NEW file, NEW f PROVE Drafts(Booted(f).page, Booted(f).shell, AtOne, file)
<1> DEFINE p == Booted(f).page
           s == Booted(f).shell
<1>1. p = [told |-> NoConfig, toRead |-> TRUE, draft |-> NoConfig, edits |-> {}, faults |-> {},
           out |-> "no", sent |-> NoConfig, edited |-> {}]
  BY Zenon DEF Booted
<1>2. DOMAIN p = PageRecord /\ p.toRead /\ p.draft = NoConfig /\ p.out = "no"
  <2> DEFINE none == NoConfig
             empty == {}
  <2>1. p = [told |-> none, toRead |-> TRUE, draft |-> none, edits |-> empty, faults |-> empty,
             out |-> "no", sent |-> none, edited |-> empty]
    BY <1>1
  <2> HIDE DEF p, none, empty
  <2>2. p.draft = none
    BY <2>1
  <2> QED BY <2>1, <2>2 DEF PageRecord, none
<1>3. s.at = "idle"
  BY BootedForm
<1> HIDE DEF p, s
<1>4. Drafts(p, s, AtOne, file)
  BY <1>2, <1>3 DEF Drafts, Told, Drafted, Sending, Merged
<1> QED BY <1>4 DEF p, s

LEMMA DeathDrafts == ASSUME Inv, DraftInv, NEW a \in Apps, AppDies(a) PROVE DraftInv'
<1> DEFINE b == Booted(disk.file)
<1>1. IsMap(shell) /\ IsMap(apart) /\ IsMap(page) /\ IsDisk(disk)
  BY Shaped DEF DraftInv
<1>2. /\ page' = [page EXCEPT ![a] = b.page] /\ shell' = [shell EXCEPT ![a] = b.shell]
      /\ apart' = [apart EXCEPT ![a] = AtOne]
  BY DEF AppDies
<1>3. disk'.file = disk.file
  BY <1>1 DEF AppDies, IsDisk
<1> HIDE DEF b
<1>4. /\ page'[a] = b.page /\ shell'[a] = b.shell /\ apart'[a] = AtOne /\ IsMap(page')
      /\ \A c \in Apps : c # a => page'[c] = page[c] /\ shell'[c] = shell[c] /\ apart'[c] = apart[c]
  BY <1>1, <1>2 DEF IsMap
<1>5. Drafts(b.page, b.shell, AtOne, disk.file)
  BY BootedDrafts DEF b
<1> QED BY <1>3, <1>4, <1>5, StepDrafts

\* Nothing else that happens has to do with drafts.
LEMMA SideDrafts ==
  ASSUME Inv, DraftInv, NEW a \in Apps,
         Launch(a) \/ SidecarBoots(a) \/ Reload(a) \/ Speak(a) \/ Hear(a) \/ SidecarDies(a)
  PROVE  DraftInv'
<1>1. page' = page /\ disk' = disk /\ IsMap(page)
  BY DEF Launch, SidecarBoots, Reload, Speak, Hear, SidecarDies, DraftInv
<1>2. IsMap(shell) /\ IsMap(apart) /\ IsShell(shell[a]) /\ IsApart(apart[a])
  BY Shaped
<1> DEFINE SameShell ==
             /\ shell'[a].at = shell[a].at /\ shell'[a].text = shell[a].text
             /\ \A b \in Apps : b # a => shell'[b] = shell[b]
           SameDraft ==
             /\ apart'[a].draft = apart[a].draft /\ apart'[a].text = apart[a].text
             /\ \A b \in Apps : b # a => apart'[b] = apart[b]
<1>3. SameShell
  <2>1. CASE shell' = shell
    BY <2>1
  <2>2. ASSUME NEW secrets, shell' = [shell EXCEPT ![a].secrets = secrets]
        PROVE  SameShell
    BY <1>2, <2>2 DEF IsMap, IsShell
  <2>3. ASSUME NEW reload, shell' = [shell EXCEPT ![a].reload = reload]
        PROVE  SameShell
    BY <1>2, <2>3 DEF IsMap, IsShell
  <2>4. ASSUME NEW shown, shell' = [shell EXCEPT ![a].shown = shown]
        PROVE  SameShell
    BY <1>2, <2>4 DEF IsMap, IsShell
  <2> QED BY <2>1, <2>2, <2>3, <2>4 DEF Launch, SidecarBoots, Reload, Speak, Hear, SidecarDies
<1>4. SameDraft
  <2>1. CASE apart' = apart
    BY <2>1
  <2>2. ASSUME NEW tokens, apart' = [apart EXCEPT ![a].tokens = tokens]
        PROVE  SameDraft
    BY <1>2, <2>2 DEF IsMap, IsApart
  <2>3. ASSUME NEW force, apart' = [apart EXCEPT ![a].force = force]
        PROVE  SameDraft
    BY <1>2, <2>3 DEF IsMap, IsApart
  <2>4. Judged(a) => \E force : apart' = [apart EXCEPT ![a].force = force]
    BY Zenon DEF Judged
  <2> QED BY <2>1, <2>2, <2>3, <2>4 DEF Launch, SidecarBoots, Reload, Speak, Hear, SidecarDies
<1>5. Drafts(page[a], shell'[a], apart'[a], disk.file)
  <2>1. Drafts(page[a], shell[a], apart[a], disk.file)
    BY DEF DraftInv
  <2> QED BY <1>3, <1>4, <2>1 DEF Drafts, Told, Drafted, Sending, Merged
<1> QED BY <1>1, <1>3, <1>4, <1>5, StepDrafts

LEMMA DraftsStart == ASSUME FileAssumption, RawAssumption, InitFile PROVE DraftInv
<1>1. disk.file \in Hands
  <2>1. PICK files \in SUBSET Hands : disk \in [file : files, temp : {NoTemp}]
    BY DEF InitFile, FileAssumption
  <2> QED BY <2>1
<1>2. Sound(disk.file)
  BY <1>1 DEF FileAssumption, RawAssumption, Sound
<1> DEFINE b == Booted(disk.file)
<1>3. page = [a \in Apps |-> b.page] /\ shell = [a \in Apps |-> b.shell] /\ apart = [a \in Apps |-> AtOne]
  BY DEF InitFile
<1>4. Drafts(b.page, b.shell, AtOne, disk.file)
  BY BootedDrafts
<1> HIDE DEF b
<1> QED BY <1>2, <1>3, <1>4 DEF DraftInv, IsMap

LEMMA DraftsHold ==
  ASSUME FileAssumption, RawAssumption, Inv, DraftInv, [NextFile]_fileVars
  PROVE  DraftInv'
<1>1. ASSUME NEW a \in allowed.apps, PageSteps(a) \/ SaveSteps(a) \/ SideSteps(a) PROVE DraftInv'
  <2>1. a \in Apps
    BY DEF Inv, Shape, Budgets
  <2>2. CASE PageSteps(a)
    BY <2>1, <2>2, ReadDrafts, OpenDrafts, EnterDrafts, PressDrafts, AnswerDrafts DEF PageSteps
  <2>3. CASE SaveSteps(a)
    BY <2>1, <2>3, MergeDrafts, TempDrafts, RenameDrafts DEF SaveSteps
  <2>4. CASE SideSteps(a)
    BY <2>1, <2>4, SideDrafts, DeathDrafts DEF SideSteps
  <2> QED BY <1>1, <2>2, <2>3, <2>4
<1>2. CASE UNCHANGED fileVars
  BY <1>2 DEF fileVars, DraftInv
<1> QED BY <1>1, <1>2, HandDrafts DEF NextFile

\* The one step that can be a rename.
LEMMA OnlyRenameRenames ==
  ASSUME FileAssumption, Inv, NextFile, NEW a \in Apps, Renames(a)
  PROVE  Rename(a)
<1>1. shell[a].at = "written" /\ shell'[a].at = "idle" /\ disk'.file # disk.file
  BY DEF Renames
<1>2. ~EditByHand
  BY <1>1 DEF EditByHand
<1>3. ASSUME NEW b \in allowed.apps, PageSteps(b) \/ SaveSteps(b) \/ SideSteps(b) PROVE Rename(a)
  <2>1. b \in Apps /\ IsDisk(disk) /\ IsMap(shell)
    BY DEF Inv, Shape, Budgets
  <2>2. disk' = disk \/ (\E t : disk' = [disk EXCEPT !.temp = t]) \/ Rename(b)
        \/ (\E v : disk' = [disk EXCEPT !.temp.by = v]) \/ (\E v : disk' = [disk EXCEPT !.temp.whole = v])
    BY <1>3, Zenon DEF PageSteps, SaveSteps, SideSteps, ReadConfig, OpenPages, EnterField, PressSave, SaveAnswered,
       ReadAndMerge, CreateTemp, WriteFails, WriteTemp, Launch, SidecarBoots, Reload, Speak, Hear, SidecarDies,
       AppDies, SaveFails
  <2>3. Rename(b)
    BY <1>1, <2>1, <2>2 DEF IsDisk
  <2>4. b = a
    <3>1. shell'[a] = shell[a] \/ a = b
      BY <2>1, <2>3 DEF Rename, IsMap
    <3> QED BY <1>1, <3>1
  <2> QED BY <2>3, <2>4
<1> QED BY <1>2, <1>3 DEF NextFile

(* A save changes for the loader what the user entered and nothing else:   *)
(* the defaults, trimmings and clamps of the pages and of the loader agree *)
(* on every value a file can hold, and what the pages do not show is left  *)
(* as it was, whoever else saves or edits, provided that the draft and the *)
(* merge were of the file that is there (index.js 32-82, config.ts 218-385,*)
(* config.rs 153-166).                                                     *)
THEOREM OnlyEditsAreEverSaved == FileSpec => OnlyEditsAreSaved
<1>1. ASSUME FileAssumption, Inv, DraftInv, [NextFile]_fileVars
      PROVE  [\A a \in Apps : Renames(a) /\ ~apart[a].text =>
                \A f \in Fields \ (page[a].edited \cup {"version"}) :
                  f \notin PageFields \/ apart[a].draft = "no" =>
                    Means(disk'.file, f) = Means(disk.file, f)]_fileVars
  <2>1. SUFFICES ASSUME NextFile, NEW a \in Apps, Renames(a), ~apart[a].text,
                        NEW f \in Fields \ (page[a].edited \cup {"version"}),
                        f \notin PageFields \/ apart[a].draft = "no"
                 PROVE  Means(disk'.file, f) = Means(disk.file, f)
    BY <1>1
  <2>2. Rename(a)
    BY <1>1, <2>1, OnlyRenameRenames
  <2> DEFINE p == page[a]
             text == shell[a].text
  <2>3. /\ p.out = "asked" /\ DOMAIN p.sent \subseteq PageFields \cup {"version"}
        /\ \A g \in DOMAIN p.sent : text[g] = p.sent[g]
        /\ \A g \in Fields \ DOMAIN p.sent : text[g] = Raw(disk.file, g)
    BY <1>1, <2>1, <2>2 DEF DraftInv, Drafts, Sending, Merged, Whole, Rename
  <2>4. Means(disk'.file, f) = Read(f, text[f])
    BY <1>1, <2>2, Renamed DEF Means
  <2>5. CASE f \notin DOMAIN p.sent
    BY <2>1, <2>3, <2>4, <2>5 DEF Means, Raw
  <2>6. CASE f \in DOMAIN p.sent
    <3>1. f \in (DOMAIN p.sent \cap PageFields) \ p.edited /\ apart[a].draft = "no"
      BY <2>1, <2>3, <2>6
    <3>2. MeansSent(f, p.sent, disk.file)
      BY <1>1, <2>3, <3>1 DEF DraftInv, Drafts, Sending
    <3> QED BY <2>3, <2>4, <2>6, <3>2 DEF MeansSent
  <2> QED BY <2>5, <2>6
<1>2. ASSUME FileAssumption, RawAssumption PROVE FileSpec => []DraftInv
  <2>1. InitFile => Inv /\ DraftInv
    BY <1>2, InitHolds, DraftsStart
  <2>2. Inv /\ DraftInv /\ [NextFile]_fileVars => Inv' /\ DraftInv'
    BY <1>2, NextHolds, DraftsHold
  <2> QED BY <2>1, <2>2, PTL DEF FileSpec
<1> QED BY <1>1, <1>2, FileAssumption, RawAssumption, InvHolds, PTL DEF FileSpec, OnlyEditsAreSaved
=============================================================================
