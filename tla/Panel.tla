------------------------------- MODULE Panel --------------------------------
(***************************************************************************)
(* The panel's pages that send, and what they keep: the confirm pages of   *)
(* the forms, the clearance, SayIntentions and PREFILE, the reads their    *)
(* pages make, and CFG's save, which changes the server under all of them  *)
(* (pages/*.js).                                                           *)
(*                                                                         *)
(* The panel is one thread of control; every request it makes is an await, *)
(* so pages, scope and configuration move while it is out.  A request is   *)
(* served, under the configuration in force then, and its answer is        *)
(* handled later, in any order.  The datalink state the panel is told is   *)
(* given from outside: it may name any scope at any time, one of the       *)
(* server before the last save included.                                   *)
(***************************************************************************)
EXTENDS Integers, SequencesExt

CONSTANTS
  FirstUrl,       \* the server of the first configuration
  ResultsKept,    \* RESULTS_KEPT, SENT_TEXTS_KEPT, SHEETS_KEPT
  SaveAnswers,    \* how config_set may answer: "saved", "failed", and "unheard" when
                  \* the file was written but no reload could be queued
  Tours           \* bound: the pages of a behaviour, the datalink states told and the
                  \* servers entered in it, and how many writes, reads at a time, saves, new
                  \* states and refusals of the file by the sidecar it has

ASSUME PanelSizes == ResultsKept \in Nat \ {0}
ASSUME PanelAnswers == SaveAnswers \subseteq {"saved", "failed", "unheard"}

VARIABLES
  scope,     \* the datalink state the panel was told last
  conf,      \* the file, the configuration the sidecar runs under, and whether a reload
             \* that differs is queued
  panel,     \* the memory of the pages
  spare      \* what remains of the tour

panelVars == <<scope, conf, panel, spare>>

NoLeg == "no leg"
NoAction == [kind |-> "none", on |-> "", id |-> ""]
NoConfig == [url |-> "", token |-> 0]
NoStatus == [id |-> "", cfg |-> NoConfig, stale |-> FALSE]

\* The kinds of the actions each confirm page sends.
Forms == {"canned", "wx", "loadsheet"}
Acts == {"link", "unlink", "import"}
Writes == Forms \cup Acts \cup {"clearance", "pdc", "prefile", "clear"}

ConfirmPage(kind) ==
  CASE kind \in Forms -> "DL-CONFIRM"
    [] kind = "clearance" -> "DL-CLEARANCE-CONFIRM"
    [] kind \in Acts -> "DL-SI-CONFIRM"
    [] kind = "pdc" -> "DL-SI-PDC"
    [] kind = "prefile" -> "FPLN-CONFIRM"

Origin(kind) ==
  CASE kind = "canned" -> "DL-CANNED" [] kind = "wx" -> "DL-WX"
    [] kind = "loadsheet" -> "DL-LOADSHEET" [] OTHER -> "DL-INDEX"

-----------------------------------------------------------------------------
(* What the datalink state names. *)

\* writeTarget
WriteTarget(s) == [on |-> s.kind, id |-> IF s.kind = "none" THEN "" ELSE s.id]

\* loadsheetLeg
LoadsheetLeg(s) == IF s.kind = "none" THEN NoLeg ELSE s.leg

\* clearanceLeg: while a held prefiled leg and the scope disagree, none.
ClearanceLeg(s) ==
  LET pending == s.held # NoLeg \/ s.prefile
      agreed == s.held # NoLeg /\ s.prefile /\ s.leg = s.held
  IN  IF ~s.able \/ (s.kind # "flight" /\ pending /\ ~agreed) THEN NoLeg ELSE LoadsheetLeg(s)

\* sayIntentionsFlight, scopeKey
SayIntentionsFlight(s) == IF s.able /\ s.kind = "flight" THEN s.id ELSE "none"

-----------------------------------------------------------------------------
(* Requests.  One is live until a later read supersedes it or its answer    *)
(* belongs to a configuration that has gone.                                *)

Outstanding(w, kinds) == {r \in w.out : r.kind \in kinds}

\* A save is answered when its reload is queued, so a request made after that
\* stands behind the reload; the file itself is read at once.
Request(w, action, n) ==
  [w EXCEPT !.out = @ \cup
     {[kind |-> action.kind, on |-> action.on, id |-> action.id, n |-> n, live |-> TRUE,
       at |-> "out", behind |-> action.kind # "config" /\ w.queued,
       cfg |-> NoConfig, good |-> FALSE, stale |-> FALSE]}]

Supersede(w, kinds) ==
  [w EXCEPT !.out = {IF r.kind \in kinds THEN [r EXCEPT !.live = FALSE] ELSE r : r \in @}]

Read(w, kind, on, id) ==
  Request(Supersede(w, {kind}), [kind |-> kind, on |-> on, id |-> id], 0)
ReadsFit(w) ==
  \A kind \in {"list", "status"} : Cardinality(Outstanding(w, {kind})) <= spare.reads

\* keepResult, keepSentText, storeSheet: most recent last.
Keep(kept, r) ==
  LET at == {i \in DOMAIN kept : kept[i].id = r.id}
      others == IF at = {} THEN kept ELSE RemoveAt(kept, CHOOSE i \in at : TRUE)
      all == Append(others, [id |-> r.id, cfg |-> r.cfg])
  IN  IF Len(all) > ResultsKept THEN Tail(all) ELSE all
Has(kept, id) == \E i \in DOMAIN kept : kept[i].id = id

-----------------------------------------------------------------------------
(* Pages. *)

\* loadCanned
LoadCanned(w) == Read([w EXCEPT !.list = "loading"], "list", "", "")

\* readStatus
ReadStatus(w, s) ==
  Read([w EXCEPT !.key = SayIntentionsFlight(s), !.status = NoStatus, !.reading = TRUE],
       "status", "flight", SayIntentionsFlight(s))
FollowScope(w, s) == IF w.key = SayIntentionsFlight(s) THEN w ELSE ReadStatus(w, s)
EnsureStatus(w, s) ==
  IF w.key # SayIntentionsFlight(s) \/ (w.status = NoStatus /\ ~w.reading)
  THEN ReadStatus(w, s) ELSE w

\* loadSettings
LoadSettings(w) ==
  IF Outstanding(w, {"settings"}) # {} THEN w
  ELSE Read([w EXCEPT !.settings = "loading"], "settings", "", "")

\* showPage and the page's onRender
Visit(w, p) ==
  LET there == [w EXCEPT !.shown = p]
  IN  CASE p = "DL-CANNED" -> LoadCanned(there)
        [] p = "DL-SI" -> EnsureStatus(there, scope)
        [] p = "FPLN" -> LoadSettings(there)
        [] OTHER -> there

\* Painting DL-SI looks at the scope again.
Repaint(w) == IF w.shown = "DL-SI" THEN FollowScope(w, scope) ELSE w

\* conclude: the answer moves the page only while the one it was sent from is up.
Conclude(w, from, p) == IF w.shown = from THEN Visit(w, p) ELSE Repaint(w)

On(p) == panel.shown = p
Do(w) ==
  /\ w.shown \in spare.pages /\ ReadsFit(w)
  /\ panel' = w
  /\ UNCHANGED <<scope, conf>>
Free == UNCHANGED spare
Send(w, action) ==
  /\ spare.sends > 0
  /\ Do(Request(w, action, spare.sends))
  /\ spare' = [spare EXCEPT !.sends = @ - 1]

\* The prompts that only open a page.
Links ==
  {<<"MENU", p>> : p \in {"NETWORK", "DL-INDEX", "FPLN"}}
  \cup {<<"DL-INDEX", "DL-SI">>, <<"DL-WX-RESULT", "DL-WX">>, <<"FPLN-RESULT", "FPLN">>}
  \cup {<<p, "DL-INDEX">> : p \in {"DL-CANNED", "DL-WX", "DL-LOADSHEET", "DL-CLEARANCE", "DL-SI"}}
FollowLink == \E l \in Links : On(l[1]) /\ Do(Visit(panel, l[2])) /\ Free
MenuKey == ~On("MENU") /\ Do(Visit(panel, "MENU")) /\ Free

\* withTarget, and the load sheet's own rule
OpenForm(kind) ==
  /\ On("DL-INDEX")
  /\ IF kind = "loadsheet" THEN LoadsheetLeg(scope) # NoLeg ELSE scope.kind # "none"
  /\ Do(Visit(panel, Origin(kind))) /\ Free

-----------------------------------------------------------------------------
(* DL-CANNED, DL-WX, DL-LOADSHEET and DL-CONFIRM *)

SelectForm(kind) ==
  /\ On(Origin(kind)) /\ ~panel.forming
  /\ kind = "canned" => panel.list = "ready"
  /\ LET target == IF kind = "loadsheet" THEN [on |-> "leg", id |-> LoadsheetLeg(scope)]
                   ELSE WriteTarget(scope)
     IN  /\ target.id \notin {"", NoLeg}
         /\ Do(Visit([panel EXCEPT !.form = [kind |-> kind, on |-> target.on, id |-> target.id]],
                     "DL-CONFIRM"))
  /\ Free

SendPending ==
  /\ On("DL-CONFIRM") /\ panel.form # NoAction /\ ~panel.forming
  /\ Send([panel EXCEPT !.forming = TRUE], panel.form)

CancelForm ==
  /\ On("DL-CONFIRM") /\ ~panel.forming
  /\ Do(Visit([panel EXCEPT !.form = NoAction], Origin(panel.form.kind))) /\ Free

ConcludeForm(w, r) ==
  IF ~r.good THEN Conclude(w, "DL-CONFIRM", Origin(r.kind))
  ELSE CASE r.kind = "canned" -> Conclude(w, "DL-CONFIRM", "DL-INDEX")   \* its thread page
         [] r.kind = "wx" -> Conclude(w, "DL-CONFIRM", "DL-WX-RESULT")
         [] r.kind = "loadsheet" ->
              Conclude([w EXCEPT !.sheets = Keep(@, r)], "DL-CONFIRM", "DL-LOADSHEET")

FormAnswered(w, r) == ConcludeForm([w EXCEPT !.form = NoAction, !.forming = FALSE], r)

-----------------------------------------------------------------------------
(* DL-CLEARANCE-CONFIRM and DL-CLEARANCE *)

OpenClearance ==
  /\ On("DL-INDEX") /\ Free
  /\ LET leg == ClearanceLeg(scope)
     IN  IF panel.asking THEN Do(Visit(panel, "DL-CLEARANCE-CONFIRM"))
         ELSE /\ leg # NoLeg
              /\ IF Has(panel.results, leg)
                 THEN Do(Visit([panel EXCEPT !.shownLeg = leg], "DL-CLEARANCE"))
                 ELSE Do(Visit([panel EXCEPT !.leg = leg], "DL-CLEARANCE-CONFIRM"))

SendClearanceUnchecked ==
  /\ On("DL-CLEARANCE-CONFIRM") /\ ~panel.asking /\ panel.leg # NoLeg
  /\ Send([panel EXCEPT !.asking = TRUE, !.askedLeg = panel.leg],
          [kind |-> "clearance", on |-> "leg", id |-> panel.leg])
SendClearance ==
  /\ On("DL-CLEARANCE-CONFIRM") /\ ~panel.asking /\ panel.leg # NoLeg
  /\ IF ClearanceLeg(scope) # panel.leg
     THEN Do(Visit([panel EXCEPT !.leg = NoLeg], "DL-INDEX")) /\ Free
     ELSE Send([panel EXCEPT !.asking = TRUE, !.askedLeg = panel.leg],
               [kind |-> "clearance", on |-> "leg", id |-> panel.leg])

CancelClearance ==
  /\ On("DL-CLEARANCE-CONFIRM") /\ ~panel.asking
  /\ Do(Visit([panel EXCEPT !.leg = NoLeg], "DL-INDEX")) /\ Free

ClearanceAnswered(w, r) ==
  LET done == [w EXCEPT !.asking = FALSE, !.leg = NoLeg]
  IN  IF r.good /\ r.live
      THEN Conclude([done EXCEPT !.results = Keep(@, r), !.shownLeg = r.id],
                    "DL-CLEARANCE-CONFIRM", "DL-CLEARANCE")
      ELSE Conclude(done, "DL-CLEARANCE-CONFIRM", "DL-INDEX")

-----------------------------------------------------------------------------
(* DL-SI, DL-SI-CONFIRM and DL-SI-PDC *)

Refresh == On("DL-SI") /\ Do(ReadStatus(panel, scope)) /\ Free

StatusAnswered(w, r) ==
  IF ~r.live THEN w
  ELSE Repaint([w EXCEPT !.reading = FALSE,
         !.status = IF r.good THEN [id |-> r.id, cfg |-> r.cfg, stale |-> r.stale] ELSE @])

ListAnswered(w, r) ==
  IF ~r.live THEN w ELSE Repaint([w EXCEPT !.list = IF r.good THEN "ready" ELSE "error"])

Stage(kind) ==
  /\ On("DL-SI") /\ Free
  /\ LET flight == SayIntentionsFlight(scope)
     IN  IF panel.sending THEN Do(Visit(panel, "DL-SI-CONFIRM"))
         ELSE /\ flight # "none"
              /\ Do(Visit([panel EXCEPT !.act = [kind |-> kind, on |-> "flight", id |-> flight]],
                          "DL-SI-CONFIRM"))

SendStaged ==
  /\ On("DL-SI-CONFIRM") /\ ~panel.sending /\ panel.act # NoAction
  /\ IF SayIntentionsFlight(scope) # panel.act.id
     THEN Do(Visit([panel EXCEPT !.act = NoAction], "DL-SI")) /\ Free
     ELSE Send([panel EXCEPT !.sending = TRUE, !.sendingAction = panel.act], panel.act)

CancelStaged ==
  /\ On("DL-SI-CONFIRM") /\ ~panel.sending
  /\ Do(Visit([panel EXCEPT !.act = NoAction], "DL-SI")) /\ Free

\* A failure leaves the action staged and the page up.
ActionAnswered(w, r) ==
  LET done == [w EXCEPT !.sending = FALSE, !.sendingAction = NoAction]
  IN  IF ~r.good THEN Repaint(done)
      ELSE Conclude([done EXCEPT !.act = NoAction, !.status = IF r.live THEN NoStatus ELSE @],
                    "DL-SI-CONFIRM", "DL-SI")

StagePdc ==
  /\ On("DL-CLEARANCE") /\ Has(panel.results, panel.shownLeg) /\ Free
  /\ IF panel.sending /\ panel.sendingLeg # NoLeg THEN Do(Visit(panel, "DL-SI-PDC"))
     ELSE /\ ClearanceLeg(scope) = panel.shownLeg
          /\ Do(Visit([panel EXCEPT !.pdc = panel.shownLeg], "DL-SI-PDC"))

SendPdc ==
  /\ On("DL-SI-PDC") /\ ~panel.sending /\ panel.pdc # NoLeg
  /\ IF ClearanceLeg(scope) # panel.pdc
     THEN Do(Visit([panel EXCEPT !.pdc = NoLeg], "DL-CLEARANCE")) /\ Free
     ELSE Send([panel EXCEPT !.sending = TRUE, !.sendingLeg = panel.pdc],
               [kind |-> "pdc", on |-> "leg", id |-> panel.pdc])

CancelPdc ==
  /\ On("DL-SI-PDC") /\ ~panel.sending
  /\ Do(Visit([panel EXCEPT !.pdc = NoLeg], "DL-CLEARANCE")) /\ Free

PdcAnswered(w, r) ==
  LET done == [w EXCEPT !.sending = FALSE, !.sendingLeg = NoLeg]
  IN  IF ~r.good THEN Repaint(done)
      ELSE Conclude([done EXCEPT !.pdc = NoLeg, !.texts = IF r.live THEN Keep(@, r) ELSE @],
                    "DL-SI-PDC", "DL-CLEARANCE")

-----------------------------------------------------------------------------
(* FPLN, FPLN-CONFIRM and FPLN-RESULT *)

\* prefileOffered
OpenPrefile ==
  /\ On("FPLN") /\ (panel.filing \/ panel.settings = "configured")
  /\ Do(Visit(panel, "FPLN-CONFIRM")) /\ Free

SendPrefile ==
  /\ On("FPLN-CONFIRM") /\ ~panel.filing
  /\ Send([panel EXCEPT !.filing = TRUE], [kind |-> "prefile", on |-> "", id |-> ""])

CancelPrefile == On("FPLN-CONFIRM") /\ ~panel.filing /\ Do(Visit(panel, "FPLN")) /\ Free

\* The refusal that names a missing Pilot ID withdraws the offer.
PrefileAnswered(w, r) ==
  LET done == [w EXCEPT !.filing = FALSE]
  IN  IF r.good THEN {Conclude([done EXCEPT !.filed = TRUE], "FPLN-CONFIRM", "FPLN-RESULT")}
      ELSE {Conclude([done EXCEPT !.settings = s], "FPLN-CONFIRM", "FPLN") :
              s \in {"not set", panel.settings}}

SettingsAnswered(w, r) ==
  {[w EXCEPT !.settings = s] : s \in IF r.good THEN {"configured", "not set"} ELSE {"error"}}

ResultToDatalink == On("FPLN-RESULT") /\ panel.filed /\ Do(Visit(panel, "DL-INDEX")) /\ Free

\* clearPrefile, which FPLN and DL-INDEX each have with a flag of its own
ClearPrefile(p) ==
  /\ On(p) /\ scope.held # NoLeg /\ p \notin panel.clearing
  /\ Send([panel EXCEPT !.clearing = @ \cup {p}], [kind |-> "clear", on |-> p, id |-> ""])

ClearAnswered(w, r) == [w EXCEPT !.clearing = @ \ {r.on}]

-----------------------------------------------------------------------------
(* CFG NETWORK: the draft and its save. *)

\* enterField
EnterUrl(u) == On("NETWORK") /\ spare.saves > 0 /\ Do([panel EXCEPT !.url = u]) /\ Free
EnterToken == On("NETWORK") /\ spare.saves > 0 /\ Do([panel EXCEPT !.token = "entered"]) /\ Free

Save ==
  /\ On("NETWORK") /\ ~panel.saving /\ spare.saves > 0
  /\ Do(Request([panel EXCEPT !.saving = TRUE],
                [kind |-> "save", on |-> panel.url, id |-> panel.token], 0))
  /\ spare' = [spare EXCEPT !.saves = @ - 1]

ForgetResetsTheFlag(w) ==
  [Supersede(w, {"clearance"}) EXCEPT !.results = << >>, !.shownLeg = NoLeg, !.asking = FALSE]
\* forgetClearances
ForgetClearances(w) ==
  [Supersede(w, {"clearance"}) EXCEPT !.results = << >>, !.shownLeg = NoLeg]

ForgetKeepsReads(w) ==
  [Supersede(w, Acts \cup {"pdc"}) EXCEPT
     !.key = "", !.status = NoStatus, !.reading = FALSE, !.texts = << >>,
     !.act = NoAction, !.pdc = NoLeg]
\* forgetSayIntentions
ForgetSayIntentions(w) ==
  [Supersede(w, Acts \cup {"pdc", "status"}) EXCEPT
     !.key = "", !.status = NoStatus, !.reading = FALSE, !.texts = << >>,
     !.act = NoAction, !.pdc = NoLeg]

Forget(w) == ForgetSayIntentions(ForgetClearances(w))

\* The cache is null when the file could not be read.
Changes(w, r) == r.id = "entered" \/ w.cache = "" \/ w.cache # r.on

\* outlived (history): the configurations that stayed in force over a file the
\* sidecar refused, since the panel last forgot; a reload still queued ends them.
Outlived(w, r) ==
  IF ~Changes(w, r) THEN w.outlived ELSE IF conf.pending THEN {} ELSE w.outlived \cap {conf.force}

SaveAnswered(w, r) ==
  IF ~r.good THEN [w EXCEPT !.saving = FALSE]
  ELSE LET known == IF Changes(w, r) THEN Forget(w) ELSE w
       IN  Request([known EXCEPT !.url = r.on, !.token = "", !.queued = conf.pending,
                                 !.outlived = Outlived(w, r)],
                   [kind |-> "config", on |-> "", id |-> ""], 0)

ConfigRead(w, r) ==
  [w EXCEPT !.saving = FALSE, !.cache = IF r.good THEN r.cfg.url ELSE ""]

-----------------------------------------------------------------------------
(* Outside the panel. *)

\* A datalink state arrives; DL-SI follows it as it repaints.
ToldScope(s) ==
  /\ spare.moves > 0
  /\ scope' = s
  /\ panel' = IF On("DL-SI") THEN FollowScope(panel, s) ELSE panel
  /\ ReadsFit(panel')
  /\ spare' = [spare EXCEPT !.moves = @ - 1]
  /\ UNCHANGED conf

\* The reload, or a sidecar that starts, reads the file: applyConfig.
Unblocked == {[r EXCEPT !.behind = FALSE] : r \in panel.out}
Reloaded ==
  /\ conf.force # conf.file
  /\ conf' = [conf EXCEPT !.force = conf.file, !.pending = FALSE]
  /\ panel' = [panel EXCEPT !.queued = FALSE, !.out = Unblocked]
  /\ UNCHANGED <<scope, spare>>

\* It refuses what it reads, a certificate it cannot open for one: a run in
\* progress goes on under the configuration it has, else there is none.
Rejected ==
  /\ spare.refusals > 0
  /\ \E left \in {conf.force, NoConfig} :
       /\ conf' = [conf EXCEPT !.force = left, !.pending = FALSE]
       /\ panel' = [panel EXCEPT !.queued = FALSE, !.out = Unblocked,
                                 !.outlived = @ \cup ({left} \ {NoConfig, conf.file})]
  /\ spare' = [spare EXCEPT !.refusals = @ - 1]
  /\ UNCHANGED scope

\* Without a configuration the sidecar serves nothing; the file is read without it.
ServeRequest(r, good) ==
  /\ r.at = "out" /\ ~r.behind /\ r.kind # "save"
  /\ good => r.kind = "config" \/ conf.force # NoConfig
  /\ LET served == [r EXCEPT !.at = "answered", !.good = good,
                             !.cfg = IF r.kind = "config" THEN conf.file ELSE conf.force]
         moved == good /\ r.kind \in {"link", "unlink"}
         Aged(q) == IF q.kind = "status" /\ q.at = "answered" THEN [q EXCEPT !.stale = @ \/ moved] ELSE q
     IN  panel' = [panel EXCEPT !.out = {Aged(q) : q \in @ \ {r}} \cup {served},
                                !.status.stale = @ \/ (moved /\ panel.status # NoStatus)]
  /\ UNCHANGED <<scope, conf, spare>>

\* config_set: the file is written, then the reload is queued.
ServeSave(r, how) ==
  /\ r.kind = "save" /\ r.at = "out"
  /\ LET file == [url |-> r.on,
                   token |-> IF r.id = "entered" THEN conf.file.token + 1 ELSE conf.file.token]
     IN  conf' = CASE how = "saved" -> [conf EXCEPT !.file = file, !.pending = file # conf.force]
                   [] how = "unheard" -> [conf EXCEPT !.file = file]
                   [] how = "failed" -> conf
  /\ panel' = [panel EXCEPT !.out = (@ \ {r}) \cup
                 {[r EXCEPT !.at = "answered", !.good = how = "saved"]}]
  /\ UNCHANGED <<scope, spare>>

Handled(w, r) ==
  CASE r.kind \in Forms -> {FormAnswered(w, r)}
    [] r.kind = "clearance" -> {ClearanceAnswered(w, r)}
    [] r.kind \in Acts -> {ActionAnswered(w, r)}
    [] r.kind = "pdc" -> {PdcAnswered(w, r)}
    [] r.kind = "status" -> {StatusAnswered(w, r)}
    [] r.kind = "list" -> {ListAnswered(w, r)}
    [] r.kind = "prefile" -> PrefileAnswered(w, r)
    [] r.kind = "settings" -> SettingsAnswered(w, r)
    [] r.kind = "clear" -> {ClearAnswered(w, r)}
    [] r.kind = "save" -> {SaveAnswered(w, r)}
    [] r.kind = "config" -> {ConfigRead(w, r)}

Answer(r) ==
  /\ r.at = "answered"
  /\ \E w \in Handled([panel EXCEPT !.out = @ \ {r}], r) : Do(w)
  /\ Free

-----------------------------------------------------------------------------
(* Properties. *)

\* What is kept and shown again was given under the file's configuration, or
\* under one that a refused file left in force since the panel last forgot: no
\* clearance, pushed text or link state survives the save that changes server
\* or token, however late the answer that carried it, and none asked for after
\* it is lost (datalink-clearance-pages.js 266-280,
\* datalink-sayintentions-pages.js 527-547).
Writing == \E r \in Outstanding(panel, {"save"}) : r.at = "answered"
Owners == {conf.file} \cup panel.outlived
KeptIsOfThisConfig ==
  ~Writing =>
    /\ \A kept \in {panel.results, panel.texts} : \A i \in DOMAIN kept : kept[i].cfg \in Owners
    /\ panel.status # NoStatus => panel.status.cfg \in Owners /\ panel.status.id = panel.key

\* As the comments there have it, without the exception, and not kept: what was
\* given by the old server, left running over a refused file, is kept beside the
\* new one, and still is when a later save, of the certificate alone, mends the file.
KeptIsOfTheFile ==
  ~Writing => \A kept \in {panel.results, panel.texts} :
                 \A i \in DOMAIN kept : kept[i].cfg = conf.file

\* No double press, page change, save or failure puts a second request of a
\* family on its way: the four SayIntentions actions are one family, since a
\* repeat files a second row upstream (datalink-session.js 306-309,
\* datalink-sayintentions-pages.js 14-18, fpln-pages.js 11-15).
Families == {Forms, Acts \cup {"pdc"}, {"clearance"}, {"prefile"}, {"settings"}, {"save", "config"}}
OneRequestOut ==
  /\ \A f \in Families : Cardinality(Outstanding(panel, f)) <= 1
  /\ \A r, q \in Outstanding(panel, {"clear"}) : r.on = q.on => r = q

\* What a confirm page shows, as it paints it.
Shows(kind) ==
  CASE kind \in Forms -> panel.form
    [] kind = "clearance" ->
         [kind |-> kind, on |-> "leg", id |-> IF panel.asking THEN panel.askedLeg ELSE panel.leg]
    [] kind \in Acts -> IF panel.sending /\ panel.sendingAction # NoAction THEN panel.sendingAction ELSE panel.act
    [] kind = "pdc" ->
         [kind |-> kind, on |-> "leg",
          id |-> IF panel.sending /\ panel.sendingLeg # NoLeg THEN panel.sendingLeg ELSE panel.pdc]
    [] OTHER -> [kind |-> kind, on |-> "", id |-> ""]

\* The flight or leg the state names when SEND is pressed.
Named(kind) ==
  CASE kind \in {"clearance", "pdc"} -> {ClearanceLeg(scope)}
    [] kind \in Acts -> {SayIntentionsFlight(scope)}
    [] OTHER -> {Shows(kind).id}

\* A write leaves from the page that shows it, to the target that page shows
\* and, for a clearance, a PDC or a SayIntentions action, that the datalink
\* state names at that moment: a scope that moved while the page was open
\* refuses rather than retargets (datalink-clearance-pages.js 8-12,
\* datalink-sayintentions-pages.js 12-18, datalink-write-pages.js 8-12).
Leaves(r) == r.kind \in Writes \ {"clear"} /\ \A q \in panel.out : q.n # r.n
SendsWhatIsShown ==
  [][\A r \in panel'.out :
       Leaves(r) =>
         /\ On(ConfirmPage(r.kind))
         /\ Shows(r.kind) = [kind |-> r.kind, on |-> r.on, id |-> r.id]
         /\ r.id \in Named(r.kind)]_panelVars

\* Stated as the code's comments have them, and not kept: a load sheet is one
\* of the server in force, and the link state on DL-SI is never older than the
\* link or unlink whose answer has been shown.
SheetsAreOfThisConfig ==
  ~Writing => \A i \in DOMAIN panel.sheets : panel.sheets[i].cfg = conf.file
LinkShownIsCurrent ==
  On("DL-SI") /\ Outstanding(panel, Acts \cup {"status"}) = {} => ~panel.status.stale

-----------------------------------------------------------------------------
InitPanel ==
  /\ spare \in Tours
  /\ scope \in spare.scopes
  /\ LET set == [url |-> FirstUrl, token |-> 0]
     IN  /\ conf = [file |-> set, force |-> set, pending |-> FALSE]
         /\ panel = [shown |-> "MENU", out |-> {}, list |-> "loading",
                       form |-> NoAction, forming |-> FALSE, sheets |-> << >>,
                       leg |-> NoLeg, asking |-> FALSE, askedLeg |-> NoLeg,
                       results |-> << >>, shownLeg |-> NoLeg,
                       key |-> "", status |-> NoStatus, reading |-> FALSE, act |-> NoAction,
                       sending |-> FALSE, sendingAction |-> NoAction, sendingLeg |-> NoLeg,
                       pdc |-> NoLeg, texts |-> << >>,
                       settings |-> "idle", filing |-> FALSE, filed |-> FALSE, clearing |-> {},
                       url |-> FirstUrl, token |-> "", cache |-> FirstUrl, saving |-> FALSE,
                     queued |-> FALSE, outlived |-> {}]

FormSteps == \E kind \in Forms : OpenForm(kind) \/ SelectForm(kind)
ConfirmSteps ==
  \/ SendPending \/ CancelForm \/ SendClearance \/ CancelClearance
  \/ SendStaged \/ CancelStaged \/ SendPdc \/ CancelPdc \/ SendPrefile \/ CancelPrefile
OpenSteps ==
  \/ OpenClearance \/ Refresh \/ (\E kind \in Acts : Stage(kind)) \/ StagePdc
  \/ OpenPrefile \/ ResultToDatalink \/ \E p \in {"FPLN", "DL-INDEX"} : ClearPrefile(p)
ConfigSteps == (\E u \in spare.urls : EnterUrl(u)) \/ EnterToken \/ Save
OutsideSteps ==
  \/ Reloaded \/ Rejected \/ \E s \in spare.scopes : ToldScope(s)
  \/ \E r \in panel.out :
       \/ Answer(r)
       \/ \E good \in BOOLEAN : ServeRequest(r, good)
       \/ \E how \in SaveAnswers : ServeSave(r, how)

NextPanel ==
  FollowLink \/ MenuKey \/ FormSteps \/ ConfirmSteps \/ OpenSteps \/ ConfigSteps \/ OutsideSteps

PanelSpec == InitPanel /\ [][NextPanel]_panelVars

=============================================================================
