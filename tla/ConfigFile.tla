----------------------------- MODULE ConfigFile -----------------------------
(***************************************************************************)
(* config.json and everything that reads or writes it: the shell           *)
(* (src-tauri/src/config.rs, main.rs), which saves it whole or not at all, *)
(* the sidecar (sidecar/src/config.ts), which alone judges it, and the CFG *)
(* pages (ui/src/pages/index.js), which write back all the fields they     *)
(* show.  Several apps may share one file, and people edit it by hand.     *)
(*                                                                         *)
(* A value stands for the values the code tells apart: "s1/" is "s1" with a*)
(* slash to strip, "FSX " is "fsx" to trim, "far" is no number, "yes" is a *)
(* string where a boolean belongs.                                         *)
(***************************************************************************)
EXTENDS Integers, FiniteSets, Sequences

CONSTANTS
  Apps, NoApp,   \* the running copies of the app
  Hands,         \* the files a person may leave behind,
  Entries,       \* the [field, value] a user may type on a CFG page
  Scenes,        \* bounds, of which one set is taken at the start: the apps that run, the files
                 \* that may be there, how many edits by hand, saves, deaths of an app or a
                 \* sidecar, launches, entries, and lines a sidecar writes unasked;
  MaxLines       \* and the status lines in a pipe

ASSUME FileAssumption ==
  /\ NoApp \notin Apps /\ MaxLines \in Nat
  /\ \A f \in Hands : f.is \in {"missing", "broken", "object"}
  /\ Scenes \subseteq [apps : SUBSET Apps, files : SUBSET Hands, hands : Nat, saves : Nat,
                      deaths : Nat, launches : Nat, entries : Nat, words : Nat]

Absent == "absent"
Null == "null"
Wrong == "wrong"         \* what a rule makes of a value it refuses
Kept == "kept"           \* the token the panel is never shown
NoConfig == <<>>

(***************************************************************************)
(* What the loader makes of a value.                                       *)
(***************************************************************************)
Rule(good, becomes, missing) == [good |-> good, becomes |-> becomes, missing |-> missing]
Obey(rule, value) ==
  IF value \in rule.good THEN value
  ELSE IF value \in DOMAIN rule.becomes THEN rule.becomes[value]
  ELSE IF value \in {Absent, Null} THEN rule.missing
  ELSE Wrong

Traffic == Rule({"true", "false"}, [off |-> "false", maybe |-> "true"], "true")
CertPath == [v \in {" pem", ""} |-> IF v = "" THEN Null ELSE "pem"]
Radius ==
  [v \in {"900", "250000", "far"} |-> CASE v = "900" -> "1000" [] v = "250000" -> "200000" [] OTHER -> "40000"]
LoaderRules ==
  [version |-> Rule({"1"}, <<>>, "1"),
   serverUrl |-> Rule({"s1", "s2"}, [v \in {"s1/"} |-> "s1"], Wrong),
   ingestToken |-> Rule({"t1", "t2", " t1"}, <<>>, Wrong),
   certPath |-> Rule({"pem"}, CertPath, Null),
   trafficEnabled |-> Traffic,
   trafficRadiusM |-> Rule({"1000", "40000", "200000"}, Radius, "40000"),
   sim |-> Rule({"2020", "fsx"}, [v \in {"FSX "} |-> "fsx"], "2020"),
   autoUplink |-> Rule({"true", "false"}, <<>>, "false"),
   nodePath |-> Rule({"node20", " "}, [v \in {""} |-> Null], Null)]
Fields == DOMAIN LoaderRules \cup {"unknown"}

(* A file that holds an object has every field, or Absent in its place. *)
ASSUME RawAssumption == \A f \in Hands : f.is = "object" => DOMAIN f.raw = Fields

Read(field, value) ==
  IF field = "unknown" THEN value ELSE Obey(LoaderRules[field], value)

(* The configuration of a file, or none if any field is at fault. *)
Validate(raw) ==
  IF \E f \in Fields : Read(f, raw[f]) = Wrong THEN NoConfig
  ELSE [f \in DOMAIN LoaderRules |-> Read(f, raw[f])]
Load(file) == IF file.is = "object" THEN Validate(file.raw) ELSE NoConfig

(***************************************************************************)
(* What the CFG pages make of an entry, and of what they are told is there.*)
(***************************************************************************)
PageRules ==
  [serverUrl |-> Rule({"s1", "s2"}, [v \in {"s1/"} |-> "s1"], Wrong),
   ingestToken |-> Rule({Kept, "t1", "t2"}, [v \in {" t1"} |-> "t1"], Wrong),
   certPath |-> Rule({"pem", "gone"}, CertPath, Null),
   trafficEnabled |-> Traffic,
   trafficRadiusM |-> Rule({"1000", "40000", "200000"}, [far |-> "40000"], "40000"),
   sim |-> Rule({"2020", "fsx"}, [v \in {"FSX "} |-> "fsx"], Wrong),
   autoUplink |-> Rule({"true", "false"}, <<>>, Wrong)]
PageFields == DOMAIN PageRules
Defaults ==
  [serverUrl |-> "", ingestToken |-> Absent, certPath |-> Null, trafficEnabled |-> "true",
   trafficRadiusM |-> "40000", sim |-> "2020", autoUplink |-> "false"]

(* The token is told as a flag; what the file does not have takes the default. *)
Draft(told) ==
  IF told = NoConfig THEN Defaults
  ELSE [f \in PageFields |->
          IF f = "ingestToken" THEN IF told[f] \in {Absent, Null, ""} THEN Absent ELSE Kept
          ELSE IF told[f] = Absent THEN Defaults[f]
          ELSE IF f = "trafficEnabled" THEN Obey(Traffic, told[f]) ELSE told[f]]

Faulty(draft) == {f \in PageFields : Obey(PageRules[f], draft[f]) = Wrong}
Patch(draft) ==
  [f \in {"version"} \cup {g \in PageFields : draft[g] # Kept} |->
     IF f = "version" THEN "1" ELSE Obey(PageRules[f], draft[f])]

(***************************************************************************)
(* State.                                                                  *)
(***************************************************************************)
VARIABLES
  disk,    \* the file, and config.json.tmp: who has it open, and whether it is all there
  shell,   \* by app: the save under way, the status the window is shown, the tokens known
  side,    \* by app: the sidecar's configuration in force and its lines on their way
  page,    \* by app: what the panel was told, the draft, its edits, the save that is out
  allowed, \* what is left of each bound
  apart    \* by app, what was made of a file that is no longer there: the draft (or it was
           \* made of none), the merged text, the tokens known, the configuration in force

fileVars == <<disk, shell, side, page, allowed, apart>>

NoTemp == [by |-> NoApp, there |-> FALSE, whole |-> FALSE, raw |-> NoConfig]
Missing == [is |-> "missing", raw |-> NoConfig]
Object(raw) == [is |-> "object", raw |-> raw]

Tokens(raw) == {raw["ingestToken"]} \ {Absent, Null, ""}
TokensOf(file) == IF file.is = "object" THEN Tokens(file.raw) ELSE {}
(* The shell reads one field of its own: a boolean, or it is false. *)
AutoUplink(file) == file.is = "object" /\ file.raw["autoUplink"] = "true"

AtOne == [draft |-> "no", text |-> FALSE, tokens |-> FALSE, force |-> FALSE]
Booted(file) ==
  [shell |-> [at |-> "idle", text |-> NoConfig, shown |-> NoConfig, reload |-> FALSE,
              secrets |-> TokensOf(file)],
   side |-> [at |-> "down", force |-> NoConfig, running |-> AutoUplink(file), lines |-> <<>>],
   page |-> [told |-> NoConfig, toRead |-> TRUE, draft |-> NoConfig, edits |-> {}, faults |-> {},
             out |-> "no", sent |-> NoConfig, edited |-> {}]]

InitFile ==
  /\ allowed \in Scenes
  /\ disk \in [file : allowed.files, temp : {NoTemp}]
  /\ shell = [a \in Apps |-> Booted(disk.file).shell]
  /\ side = [a \in Apps |-> Booted(disk.file).side]
  /\ page = [a \in Apps |-> Booted(disk.file).page]
  /\ apart = [a \in Apps |-> AtOne]

(* The file changed under every app but the one that wrote it, whose draft it now is. *)
ApartBut(writers) ==
  [a \in Apps |-> IF a \in writers THEN [AtOne EXCEPT !.force = apart[a].force]
                  ELSE [draft |-> "moved", text |-> TRUE, tokens |-> TRUE, force |-> apart[a].force]]
Spend(what) == allowed[what] > 0 /\ allowed' = [allowed EXCEPT ![what] = @ - 1]

EditByHand ==
  /\ Spend("hands")
  /\ \E f \in Hands \ {disk.file} : disk' = [disk EXCEPT !.file = f]
  /\ apart' = ApartBut({})
  /\ UNCHANGED <<shell, side, page>>

(***************************************************************************)
(* The page.                                                               *)
(***************************************************************************)
(* config_get: the file's fields, or without a file the configuration in force. *)
ReadConfig(a) ==
  /\ page[a].toRead
  /\ page' = [page EXCEPT ![a].toRead = FALSE, ![a].out = IF @ = "reread" THEN "no" ELSE @,
       ![a].told = CASE disk.file.is = "object" -> disk.file.raw
                     [] disk.file.is = "missing" -> shell[a].shown
                     [] OTHER -> NoConfig]
  /\ shell' = [shell EXCEPT ![a].secrets = @ \cup TokensOf(disk.file)]
  /\ apart' = [apart EXCEPT ![a].tokens = FALSE,
       ![a].draft = IF page[a].draft # NoConfig THEN @
                    ELSE IF page'[a].told = shell[a].shown /\ shell[a].shown # NoConfig THEN "moved" ELSE "no"]
  /\ UNCHANGED <<disk, side, allowed>>

(* The draft is made once, of what the panel has been told by then. *)
OpenPages(a) ==
  /\ page[a].draft = NoConfig
  /\ page' = [page EXCEPT ![a].draft = Draft(page[a].told)]
  /\ apart' = [apart EXCEPT ![a].draft = IF page[a].toRead THEN "blind" ELSE @]
  /\ UNCHANGED <<disk, shell, side, allowed>>

EnterField(a) ==
  /\ page[a].draft # NoConfig /\ Spend("entries")
  /\ \E e \in Entries :
       LET value == Obey(PageRules[e.field], e.value)
       IN page' = IF value = Wrong THEN [page EXCEPT ![a].faults = @ \cup {e.field}]
                  ELSE [page EXCEPT ![a].draft[e.field] = value, ![a].edits = @ \cup {e.field},
                                    ![a].faults = @ \ {e.field}]
  /\ UNCHANGED <<disk, shell, side, apart>>

PressSave(a) ==
  LET p == page[a] IN
  /\ p.out = "no" /\ p.draft # NoConfig /\ p.faults = {}
  /\ IF Faulty(p.draft) # {}
     THEN \* the first field at fault is shown, and blocks until it is entered
          /\ \E f \in Faulty(p.draft) : page' = [page EXCEPT ![a].faults = {f}]
          /\ UNCHANGED allowed
     ELSE /\ Spend("saves")
          /\ page' = [page EXCEPT ![a].out = "asked", ![a].sent = Patch(p.draft),
                                  ![a].edited = p.edits]
  /\ UNCHANGED <<disk, shell, side, apart>>

(* What was entered while the save was out goes the way of what was saved. *)
SaveAnswered(a) ==
  LET p == page[a] IN
  /\ p.out \in {"saved", "failed"}
  /\ page' = [page EXCEPT ![a] =
       IF p.out = "failed" THEN [p EXCEPT !.out = "no", !.sent = NoConfig, !.edited = {}]
       ELSE [p EXCEPT !.out = "reread", !.sent = NoConfig, !.edited = {}, !.edits = {}, !.toRead = TRUE,
              !.draft = [f \in PageFields |->
                 IF f = "ingestToken" THEN IF f \in DOMAIN p.sent \/ p.draft[f] # Absent THEN Kept ELSE Absent
                 ELSE p.sent[f]]]]
  /\ UNCHANGED <<disk, shell, side, allowed, apart>>

(***************************************************************************)
(* The shell's save, under its own lock.                                   *)
(***************************************************************************)
SaveEnds(a, word) == page' = [page EXCEPT ![a].out = word]

(* A file that cannot be read is refused; of one that can, what the patch does not name stays. *)
MergePatchOnly(file, patch) == [f \in Fields |-> IF f \in DOMAIN patch THEN patch[f] ELSE Absent]
Merge(file, patch) ==
  [f \in Fields |-> IF f \in DOMAIN patch THEN patch[f]
                    ELSE IF file.is = "object" THEN file.raw[f] ELSE Absent]

ReadAndMerge(a) ==
  /\ page[a].out = "asked" /\ shell[a].at = "idle"
  /\ IF disk.file.is = "broken"
     THEN SaveEnds(a, "failed") /\ UNCHANGED <<shell, apart>>
     ELSE LET text == Merge(disk.file, page[a].sent) IN
          /\ shell' = [shell EXCEPT ![a].at = "merged", ![a].text = text,
                         ![a].secrets = @ \cup TokensOf(disk.file) \cup Tokens(text)]
          /\ apart' = [apart EXCEPT ![a].text = FALSE, ![a].tokens = FALSE]
          /\ UNCHANGED page
  /\ UNCHANGED <<disk, side, allowed>>

SaveFails(a) ==
  /\ SaveEnds(a, "failed")
  /\ shell' = [shell EXCEPT ![a].at = "idle", ![a].text = NoConfig]

(* Created exclusively, or not at all. *)
MayCreateOver == TRUE
MayCreate == ~disk.temp.there
CreateTemp(a) ==
  /\ shell[a].at = "merged"
  /\ IF ~MayCreate
     THEN SaveFails(a) /\ UNCHANGED disk
     ELSE /\ disk' = [disk EXCEPT !.temp = [by |-> a, there |-> TRUE, whole |-> FALSE, raw |-> shell[a].text]]
          /\ shell' = [shell EXCEPT ![a].at = "writing"]
          /\ UNCHANGED page
  /\ UNCHANGED <<side, allowed, apart>>

(* A temporary file that cannot be removed either is left. *)
WriteFails(a) ==
  /\ shell[a].at \in {"writing", "written"}
  /\ SaveFails(a)
  /\ disk' \in {[disk EXCEPT !.temp = NoTemp], [disk EXCEPT !.temp.by = NoApp]}
  /\ UNCHANGED <<side, allowed, apart>>

WriteTemp(a) ==
  /\ shell[a].at = "writing"
  /\ disk' = [disk EXCEPT !.temp.whole = TRUE]
  /\ shell' = [shell EXCEPT ![a].at = "written"]
  /\ UNCHANGED <<side, page, allowed, apart>>

(* The rename, and what config_set does next: the status loses its configuration until
   the sidecar has judged the new one, and a reload is asked for, which may be refused. *)
Rename(a) ==
  /\ shell[a].at = "written"
  /\ disk' = [file |-> IF disk.temp.whole THEN Object(disk.temp.raw) ELSE [is |-> "torn", raw |-> NoConfig],
              temp |-> NoTemp]
  /\ \E word \in {"saved", "failed"} :
       /\ SaveEnds(a, word)
       /\ shell' = [shell EXCEPT ![a].at = "idle", ![a].text = NoConfig, ![a].shown = NoConfig,
                                 ![a].reload = @ \/ word = "saved"]
  /\ apart' = ApartBut({a})
  /\ UNCHANGED <<side, allowed>>

(***************************************************************************)
(* The sidecar and its lines.                                              *)
(***************************************************************************)
Room(a) == Len(side[a].lines) < MaxLines
LineOfARun(s) == IF s.running THEN [s EXCEPT !.lines = Append(@, s.force)] ELSE s
Line(s) == [s EXCEPT !.lines = Append(@, s.force)]

(* An invalid file leaves a running uplink its configuration, and an idle one none. *)
InForce(s, file) ==
  LET found == Load(file)
  IN [s EXCEPT !.force = IF found # NoConfig THEN found ELSE IF s.running THEN @ ELSE NoConfig]

(* The worker reads the file for the path of node, and the sidecar then for itself. *)
Launch(a) ==
  /\ side[a].at = "down" /\ Spend("launches")
  /\ side' = [side EXCEPT ![a].at = "booting"]
  /\ shell' = [shell EXCEPT ![a].secrets = @ \cup TokensOf(disk.file)]
  /\ apart' = [apart EXCEPT ![a].tokens = FALSE]
  /\ UNCHANGED <<disk, page>>

(* What is put in force is of a file the shell may not have seen. *)
Judged(a) ==
  apart' = [apart EXCEPT ![a].force = IF Load(disk.file) = NoConfig THEN @ ELSE apart[a].tokens]

SidecarBoots(a) ==
  /\ side[a].at = "booting"
  /\ LET found == Load(disk.file)
         runs == side[a].running /\ found # NoConfig
     IN side' = [side EXCEPT ![a] = Line([@ EXCEPT !.at = "up", !.force = found, !.running = runs])]
  /\ Judged(a)
  /\ UNCHANGED <<disk, shell, page, allowed>>

(* The control is dropped when the sidecar's input is full. *)
Reload(a) ==
  /\ shell[a].reload
  /\ shell' = [shell EXCEPT ![a].reload = FALSE]
  /\ \/ UNCHANGED <<side, apart>>
     \/ /\ side[a].at = "up" /\ Room(a) /\ Judged(a)
        /\ side' = [side EXCEPT ![a] = Line(InForce(@, disk.file))]
  /\ UNCHANGED <<disk, page, allowed>>

(* START and STOP, and the heartbeat: each writes a line. *)
Speak(a) ==
  /\ side[a].at = "up" /\ Room(a) /\ Spend("words")
  /\ \E r \in BOOLEAN :
       side' = [side EXCEPT ![a] = Line([@ EXCEPT !.running = r /\ side[a].force # NoConfig])]
  /\ UNCHANGED <<disk, shell, page, apart>>

Hear(a) ==
  /\ side[a].at = "up" /\ side[a].lines # <<>>
  /\ shell' = [shell EXCEPT ![a].shown = Head(side[a].lines)]
  /\ side' = [side EXCEPT ![a].lines = Tail(@)]
  /\ UNCHANGED <<disk, page, allowed, apart>>

(* The sidecar dies; a synthetic status keeps the configuration last shown. *)
SidecarDies(a) ==
  /\ side[a].at = "up" /\ Spend("deaths")
  /\ side' = [side EXCEPT ![a].at = "down", ![a].lines = <<>>, ![a].force = NoConfig]
  /\ UNCHANGED <<disk, shell, page, apart>>

(* The app is killed and started again: what it had open on the disk stays. *)
AppDies(a) ==
  /\ Spend("deaths")
  /\ disk' = [disk EXCEPT !.temp.by = IF @ = a THEN NoApp ELSE @]
  /\ shell' = [shell EXCEPT ![a] = Booted(disk.file).shell]
  /\ side' = [side EXCEPT ![a] = Booted(disk.file).side]
  /\ page' = [page EXCEPT ![a] = Booted(disk.file).page]
  /\ apart' = [apart EXCEPT ![a] = AtOne]

PageSteps(a) == ReadConfig(a) \/ OpenPages(a) \/ EnterField(a) \/ PressSave(a) \/ SaveAnswered(a)
SaveSteps(a) == ReadAndMerge(a) \/ CreateTemp(a) \/ WriteFails(a) \/ WriteTemp(a) \/ Rename(a)
SideSteps(a) == Launch(a) \/ SidecarBoots(a) \/ Reload(a) \/ Speak(a) \/ Hear(a) \/ SidecarDies(a) \/ AppDies(a)

NextFile == EditByHand \/ \E a \in allowed.apps : PageSteps(a) \/ SaveSteps(a) \/ SideSteps(a)

FileSpec == InitFile /\ [][NextFile]_fileVars

(***************************************************************************)
(* Properties.                                                             *)
(***************************************************************************)
(* config.json is always a file somebody finished: whoever has the temporary file open is
   alone with it and it holds that save, however saves of two apps interleave, fail at a
   write or a rename, or are cut off by a death (config.rs 169-197). *)
DiskIsWhole ==
  /\ disk.file.is # "torn"
  /\ disk.temp.there /\ disk.temp.by # NoApp =>
       shell[disk.temp.by].at \in {"writing", "written"} /\ disk.temp.raw = shell[disk.temp.by].text
  /\ \A a \in Apps : shell[a].at \in {"writing", "written"} => disk.temp.by = a

Renames(a) == shell[a].at = "written" /\ shell'[a].at = "idle" /\ disk'.file # disk.file
Means(file, field) == Read(field, IF file.is = "object" THEN file.raw[field] ELSE Absent)

(* What a save changes for the loader is what the user edited: defaults, trimmings and
   clamps that the pages and the loader each apply to what they find agree, and what the
   pages do not show stays as it is (index.js 32-82, config.ts 218-385, config.rs 153-166).
   The draft must be of the file that is there, and so must what the patch is merged into. *)
OnlyEditsAreSaved ==
  [][\A a \in Apps : Renames(a) /\ ~apart[a].text =>
       \A f \in Fields \ (page[a].edited \cup {"version"}) :
         f \notin PageFields \/ apart[a].draft = "no" => Means(disk'.file, f) = Means(disk.file, f)]_fileVars

(* Once every line is heard the window is shown the sidecar's configuration, or none while
   a new file waits to be judged; and the token in force is one the shell takes out of what
   it passes on, unless the file was changed between the shell's reading and the sidecar's. *)
ShownIsInForce ==
  \A a \in Apps : side[a].at = "up" =>
    /\ side[a].lines = <<>> => shell[a].shown \in {NoConfig, side[a].force}
    /\ side[a].force # NoConfig /\ ~apart[a].force => side[a].force["ingestToken"] \in shell[a].secrets

(* Found violated.  "Read newly saved raw fields until the sidecar validates them": a line
   written before the reload brings the old configuration back. *)
UnjudgedIsNotShown ==
  \A a \in Apps : side[a].at = "up" /\ shell[a].reload => shell[a].shown = NoConfig

(* Found violated.  "A shared draft keeps CFG edits": one entered while a save is out is
   overwritten by what was sent. *)
EditsSurviveASave ==
  [][\A a \in Apps : page[a].out = "saved" /\ page'[a].out = "reread" =>
       \A f \in page[a].edits \ {"ingestToken"} : page'[a].draft[f] = page[a].draft[f]]_fileVars

(* Found violated.  A draft made before the panel was told anything is of the defaults, and
   its save writes them over the optional fields of the file. *)
BlindDraftsSaveNothing ==
  [][\A a \in Apps : Renames(a) /\ ~apart[a].text /\ apart[a].draft = "blind" =>
       \A f \in PageFields \ page[a].edited : Means(disk'.file, f) = Means(disk.file, f)]_fileVars

(* Found violated.  A file of a version this build does not understand becomes one it does. *)
VersionIsKept ==
  [][\A a \in Apps : Renames(a) /\ disk.file.is = "object" /\ ~apart[a].text =>
       Means(disk'.file, "version") = Means(disk.file, "version")]_fileVars
=============================================================================
