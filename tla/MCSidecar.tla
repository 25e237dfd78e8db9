------------------------------ MODULE MCSidecar ------------------------------
(***************************************************************************)
(* The sidecar (Sidecar) and the file it is configured by (ConfigFile).    *)
(* To the one every file is possible at any time, to the other a sidecar   *)
(* only reads and reports, so each is explored with the other at rest.     *)
(***************************************************************************)
EXTENDS Sidecar, ConfigFile

VARIABLE explored

\* A file of the app's own, the same as a person may have left it, one with what
\* may be left out left out, and files with one thing about them.
Plain ==
  [version |-> "1", serverUrl |-> "s1", ingestToken |-> "t1", certPath |-> "pem",
   trafficEnabled |-> "false", trafficRadiusM |-> "1000", sim |-> "fsx", autoUplink |-> "true",
   nodePath |-> "node20", unknown |-> "x"]
Sloppy ==
  [version |-> Null, serverUrl |-> "s1/", ingestToken |-> " t1", certPath |-> " pem",
   trafficEnabled |-> "maybe", trafficRadiusM |-> "far", sim |-> "FSX ", autoUplink |-> Absent,
   nodePath |-> "", unknown |-> "x"]
Sparse ==
  [f \in DOMAIN Plain |-> CASE f = "serverUrl" -> "s2" [] f = "ingestToken" -> "t2"
                            [] f = "certPath" -> "" [] OTHER -> Absent]
Mine == Object(Plain)
With(field, value) == Object([Plain EXCEPT ![field] = value])
Files ==
  {Mine, Object(Sloppy), Object(Sparse), With("trafficRadiusM", "250000"), With("sim", Null),
   With("certPath", "gone"), With("version", "2"), Missing, [is |-> "broken", raw |-> NoConfig]}

Entry(field, value) == [field |-> field, value |-> value]
Typed == {Entry("serverUrl", "s2"), Entry("sim", "FSX "), Entry("ingestToken", "t2"), Entry("trafficRadiusM", "900")}

Scene(apps, files, hands, saves, deaths, launches, entries, words) ==
  [apps |-> apps, files |-> files, hands |-> hands, saves |-> saves, deaths |-> deaths,
   launches |-> launches, entries |-> entries, words |-> words]
FileScenes ==
  {Scene({"one"}, Files, 0, 1, 0, 0, 1, 0),
   Scene({"one"}, {Mine}, 1, 1, 0, 1, 1, 1),
   Scene({"one"}, {Mine}, 0, 1, 1, 2, 1, 1),
   Scene({"one"}, {Mine}, 0, 2, 0, 1, 2, 0),
   Scene({"one", "two"}, {Mine}, 0, 2, 1, 0, 1, 0)}

MCInit ==
  /\ Init /\ InitFile
  /\ \/ /\ explored = "sidecar"
        /\ allowed = CHOOSE s \in Scenes : TRUE
        /\ disk.file = CHOOSE f \in allowed.files : TRUE
     \/ explored = "file"

MCNext ==
  /\ UNCHANGED explored
  /\ \/ explored = "sidecar" /\ Next /\ UNCHANGED fileVars
     \/ explored = "file" /\ NextFile /\ UNCHANGED vars

MCSpec == MCInit /\ [][MCNext]_<<vars, fileVars, explored>> /\ TimerFairness /\ AnswerFairness
=============================================================================
