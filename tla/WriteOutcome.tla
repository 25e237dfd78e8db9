---------------------------- MODULE WriteOutcome ----------------------------
(***************************************************************************)
(* A write, from SEND on the panel to the words the pilot reads about it:  *)
(* the host (ui/src/bridge.js), the shell (src-tauri/src/supervisor.rs),   *)
(* the sidecar's datalink service, HTTP client and classifiers, the server,*)
(* and the pages' vocabularies.  What each does besides is in Panel,       *)
(* Supervisor, Wire and DatalinkService; here it is what becomes of the    *)
(* write, and what is said of it.                                          *)
(*                                                                         *)
(* The server is external.  A failure it gives a code to, it vouches for:  *)
(* nothing took effect.  A 2xx that names what was asked, it has done.     *)
(***************************************************************************)
EXTENDS Naturals, FiniteSets

CONSTANT Presses   \* the presses of SEND

SiKinds == {"link", "unlink", "import", "pdc"}
Forms == {"canned", "wx", "loadsheet"}
Kinds == {"clearance", "prefile"} \cup SiKinds \cup Forms
Named == SiKinds \cup {"clearance"}   \* those whose answer has to name what was asked about
Family(kind) == IF kind \in SiKinds THEN "si" ELSE IF kind \in Forms THEN "form" ELSE kind

VARIABLES
  host,     \* who the panel found to talk to: the shell, another host, or one that lacks the method
  build,    \* the sidecar has the feature, or predates it
  kinds,    \* kinds[p] : what press p asks for
  sidecar,  \* "up", "stopping" or "gone"
  token,    \* the sidecar's config: none, in force, or refused (the latch)
  writes    \* writes[p] : where press p is, and what is said of it
outcomeVars == <<host, build, kinds, sidecar, token, writes>>

Write ==
  [page : {"idle", "waiting", "left", "done", "not done", "maybe"},  \* "left": the panel was reloaded
   shell : {"none", "waiting", "over"},
   side : {"none", "queued", "piped", "asking", "over"},
   server : {"unsent", "away", "done", "refused", "lost"},
   cut : BOOLEAN]   \* answered for by a sidecar told to stop while it was asking (history)

InitOutcome ==
  /\ host \in {"shell", "other", "lacking"} /\ build \in {"new", "old"}
  /\ kinds \in [Presses -> Kinds]
  /\ \A p, q \in Presses : Family(kinds[p]) = Family(kinds[q])
  /\ sidecar = "up" /\ token = "good"
  /\ writes = [p \in Presses |->
       [page |-> "idle", shell |-> "none", side |-> "none", server |-> "unsent", cut |-> FALSE]]

(***************************************************************************)
(* What one exchange with the server can come to.  A response with a code  *)
(* the family documents carries it on the status it is documented with;    *)
(* "stray" is every other code, and none.                                  *)
(***************************************************************************)
ClearanceCodes == {"leg-not-found", "clearance-no-flight-plan"}
PrefileCodes ==
  {"simbrief-no-user-id", "simbrief-unknown-user", "simbrief-no-plan", "simbrief-timeout",
   "simbrief-network", "simbrief-bad-status", "simbrief-bad-body", "simbrief-db-error"}
SiCodes ==
  {"invalid-id", "flight-not-found", "leg-not-found", "si-no-api-key", "si-bad-api-key", "si-not-linked",
   "si-session-changed", "si-no-comms", "si-no-session", "si-no-clearance", "si-upstream-unreachable",
   "si-upstream-error", "si-upstream-bad-body", "si-upstream-timeout"}
FormCodes ==
  {"not-a-canned-message", "unknown-canned-message", "invalid-id", "no-dispatch-data",
   "flight-not-found", "leg-not-found"}

Response(statuses, codes, scopes, bodies) ==
  [status : statuses, code : codes, scope : scopes, body : bodies]
AnyCode == {"bad token", "stray"} \cup ClearanceCodes \cup PrefileCodes \cup SiCodes \cup FormCodes
\* "foreign": well formed, but of another flight or leg than the one asked about
Replies(kind, server) ==
  CASE server = "done" ->
         Response({"2xx"}, {"stray"}, {FALSE}, {"whole", "unfit", "broken", "huge"})
           \cup Response({"other"}, {"stray"}, {FALSE}, {"whole", "huge"})
    [] server = "refused" ->
         Response({"401", "403", "other"}, AnyCode, BOOLEAN, {"whole", "broken", "huge"})
           \cup (IF kind \in Named THEN Response({"2xx"}, {"stray"}, {FALSE}, {"foreign"}) ELSE {})
    [] OTHER -> {}
\* A handshake that fails has sent nothing; any other failure may come at any time.
Failures(server) ==
  {"timeout", "unreachable"} \cup (IF server = "lost" THEN {"tls-error"} ELSE {})

(***************************************************************************)
(* The classifiers: the body is too large, then the status, then the code, *)
(* then the scope the 401 names.  All of them are of one form.             *)
(***************************************************************************)
\* What is not JSON has no code.
CodeOf(reply) == IF reply.body = "broken" THEN "stray" ELSE reply.code

Judged(reply, codes, unavailable, tooLarge) ==
  CASE reply.body = "huge" -> tooLarge
    [] reply.body # "huge" /\ reply.status = "2xx" -> IF reply.body = "broken" THEN "bad-response" ELSE "ok"
    [] reply.body # "huge" /\ reply.status = "401" ->
         IF CodeOf(reply) = "bad token" THEN "token-invalid"
         ELSE IF reply.scope THEN "token-missing" ELSE unavailable
    [] reply.body # "huge" /\ reply.status = "403" -> "rejected"
    [] OTHER -> IF CodeOf(reply) \in codes THEN CodeOf(reply) ELSE "http-error"

ClassifiedForm(reply) == Judged(reply, FormCodes, "unavailable", "bad-response")
ClassifiedPrefile(reply) == Judged(reply, PrefileCodes, "simbrief-unavailable", "bad-response")
ClassifiedClearance(reply) == Judged(reply, ClearanceCodes, "clearance-unavailable", "bad-response")
ClassifiedSi(reply) == Judged(reply, SiCodes, "sayintentions-unavailable", "too-large")

\* A success has to be a result of the kind, and where the kind says so, of what was asked about.
PlainProjects(reply) == reply.body \in {"whole", "foreign"}
ClearanceProjects(reply) == reply.body = "whole"
SiProjects(reply) == reply.body = "whole"
Projected(code, projects) == IF code = "ok" /\ ~projects THEN "bad-response" ELSE code

Classified(kind, reply) ==
  CASE kind = "canned" /\ reply.status = "2xx" -> "ok"
    [] kind = "canned" /\ reply.status # "2xx" -> ClassifiedForm(reply)
    [] kind \in {"wx", "loadsheet"} -> Projected(ClassifiedForm(reply), PlainProjects(reply))
    [] kind = "prefile" -> Projected(ClassifiedPrefile(reply), PlainProjects(reply))
    [] kind = "clearance" -> Projected(ClassifiedClearance(reply), ClearanceProjects(reply))
    [] kind \in SiKinds -> Projected(ClassifiedSi(reply), SiProjects(reply))

Codes(kind, server) == {Classified(kind, reply) : reply \in Replies(kind, server)} \cup Failures(server)

(***************************************************************************)
(* The words.  Of the codes a page knows, these leave it open what became  *)
(* of the write; a code it does not know does so too.  The three forms     *)
(* only say what went wrong, never that nothing was sent.                  *)
(***************************************************************************)
InProgress == [clearance |-> "clearance-in-progress", prefile |-> "prefile-in-progress",
               si |-> "sayintentions-in-progress"]
UnknownOutcome ==
  {"http-error", "bad-response", "too-large", "unreachable", "timeout", "shell-timeout", "sidecar-exited", "host-error"}
SharedErrors ==
  UnknownOutcome \cup {"token-invalid", "token-missing", "rejected", "tls-error", "no-config", "bad-request",
                       "busy", "sidecar-unavailable", "sidecar-outdated", "host-unsupported"}
PrefileErrors == SharedErrors \cup PrefileCodes \cup {"simbrief-unavailable", "prefile-in-progress"}
ClearanceErrors == SharedErrors \cup ClearanceCodes \cup {"clearance-unavailable", "clearance-in-progress"}
SiErrors == SharedErrors \cup SiCodes \cup {"sayintentions-unavailable", "sayintentions-in-progress"}
Errors == [prefile |-> PrefileErrors, clearance |-> ClearanceErrors, si |-> SiErrors]

IsUnknownButExit(family, code) ==
  code \notin Errors[family] \/ code \in UnknownOutcome \ {"sidecar-exited"}
IsUnknownOutcome(family, code) == code \notin Errors[family] \/ code \in UnknownOutcome

Word(kind, code) ==
  IF code = "ok" THEN "done"
  ELSE IF kind \in Forms \/ IsUnknownOutcome(Family(kind), code) THEN "maybe" ELSE "not done"

\* What the page hears: an envelope it cannot read is the host's fault, a result it cannot draw is bad data.
Heard(envelope) ==
  IF envelope = "none" THEN "host-error"
  ELSE IF envelope \in {"foreign", "broken"} THEN "bad-response" ELSE envelope

(***************************************************************************)
(* Steps.                                                                  *)
(***************************************************************************)
At(p, field, value) == writes[p][field] = value
Guarded(p, q) == kinds[p] \notin Forms /\ q # p

\* The envelope reaches the page, if it still waits.
Tell(write, kind, code) ==
  [write EXCEPT !.page = IF write.page = "waiting" THEN Word(kind, code) ELSE @]
\* The shell answers the call, if it still waits for one.
Answered(write, kind, code) ==
  IF write.shell = "waiting" THEN Tell([write EXCEPT !.shell = "over"], kind, code) ELSE write
Told(p, code) == writes' = [writes EXCEPT ![p] = Answered(@, kinds[p], code)]
Ends(p, code) == writes' = [writes EXCEPT ![p] = Answered([@ EXCEPT !.side = "over"], kinds[p], code)]
Rest == UNCHANGED <<host, build, kinds, sidecar, token>>

\* What the shell refuses a press with before it is given to the worker; at any time the table may be full.
RefusedAtOnce(p) ==
  IF build = "old" THEN {"sidecar-outdated"}
  ELSE IF \E q \in Presses : Guarded(p, q) /\ At(q, "shell", "waiting") THEN {InProgress[Family(kinds[p])]}
  ELSE {"busy"}
MustRefuse(p) ==
  build = "old" \/ \E q \in Presses : Guarded(p, q) /\ At(q, "shell", "waiting")

Press(p) ==
  /\ At(p, "page", "idle") /\ \A q \in Presses : ~At(q, "page", "waiting")
  /\ Rest
  /\ LET pressed == [writes[p] EXCEPT !.page = "waiting"]
         is(write) == writes' = [writes EXCEPT ![p] = write]
     IN  CASE host = "other" -> is(pressed)
           [] host = "lacking" -> is(Tell(pressed, kinds[p], "host-unsupported"))
           [] OTHER ->
                \/ ~MustRefuse(p) /\ is([pressed EXCEPT !.shell = "waiting", !.side = "queued"])
                \/ \E code \in RefusedAtOnce(p) \cup (IF sidecar = "up" THEN {} ELSE {"sidecar-unavailable"}) :
                     is(Tell(pressed, kinds[p], code))

\* The worker writes the line; it does so even for a call nobody waits for any more.
Relay(p) ==
  /\ At(p, "side", "queued") /\ Rest
  /\ \/ sidecar = "up" /\ writes' = [writes EXCEPT ![p].side = "piped"]
     \/ sidecar = "up" /\ Ends(p, "busy")
     \/ sidecar = "gone" /\ Ends(p, "sidecar-unavailable")

Asks(p) == writes' = [writes EXCEPT ![p].side = "asking", ![p].server = "away"]
Take(p) ==
  /\ At(p, "side", "piped") /\ Rest
  /\ CASE sidecar = "stopping" -> Ends(p, "sidecar-unavailable")
       [] sidecar = "up" /\ (\E q \in Presses : Guarded(p, q) /\ At(q, "side", "asking")) ->
            Ends(p, InProgress[Family(kinds[p])])
       [] OTHER -> CASE token = "none" -> Ends(p, "no-config")
                     [] token = "refused" -> Ends(p, "token-invalid")
                     [] token = "good" -> Asks(p)

ServerAnswers(p) ==
  /\ At(p, "server", "away") /\ Rest
  /\ \E fate \in {"done", "refused", "lost"} : writes' = [writes EXCEPT ![p].server = fate]

\* The exchange ends while the sidecar runs: its code is the answer, and a refused token is kept in mind.
Concludes(p) ==
  /\ At(p, "side", "asking") /\ sidecar = "up"
  /\ \E code \in Codes(kinds[p], writes[p].server) :
       /\ Ends(p, code)
       /\ token' = IF code = "token-invalid" THEN "refused" ELSE token
  /\ UNCHANGED <<host, build, kinds, sidecar>>

(* The exchange ends, by itself or by the abort, while the sidecar stops: what came of it is not looked at. *)
CutOff(p) ==
  /\ At(p, "side", "asking") /\ sidecar = "stopping" /\ Rest
  /\ writes' = [writes EXCEPT ![p] = Answered([@ EXCEPT !.side = "over", !.cut = TRUE], kinds[p], "sidecar-unavailable")]

ShellTimesOut(p) == At(p, "shell", "waiting") /\ Rest /\ Told(p, "shell-timeout")

\* The invocation itself fails; the shell and the sidecar go on.
HostFails(p) ==
  /\ At(p, "page", "waiting") /\ Rest
  /\ writes' = [writes EXCEPT ![p] = Tell(@, kinds[p], Heard("none"))]

\* Another host answers by itself; it is taken to tell the truth, or to answer what was not asked.
OtherHostAnswers(p) ==
  /\ host = "other" /\ At(p, "page", "waiting") /\ Rest
  /\ \E fate \in {"done", "refused"} :
       \E envelope \in {"broken", "a code of its own"} \cup (IF kinds[p] \in Named THEN {"foreign"} ELSE {})
                       \cup (IF fate = "done" THEN {"ok"} ELSE {"busy", "rejected"}) :
         writes' = [writes EXCEPT ![p] = Tell([@ EXCEPT !.server = fate], kinds[p], Heard(envelope))]

PanelReloads ==
  /\ \E p \in Presses : At(p, "page", "waiting")
  /\ writes' = [p \in Presses |-> [writes[p] EXCEPT !.page = IF @ = "idle" THEN @ ELSE "left"]]
  /\ Rest

StopSidecar == sidecar = "up" /\ sidecar' = "stopping" /\ UNCHANGED <<host, build, kinds, token, writes>>

\* The process ends, told to or not: every call bound to it is answered for.
SidecarExits ==
  /\ sidecar # "gone" /\ sidecar' = "gone"
  /\ writes' = [p \in Presses |->
       IF writes[p].side \in {"piped", "asking"}
       THEN Answered([writes[p] EXCEPT !.side = "over"], kinds[p], "sidecar-exited")
       ELSE writes[p]]
  /\ UNCHANGED <<host, build, kinds, token>>

SidecarStarts ==
  /\ sidecar = "gone" /\ sidecar' = "up" /\ token' \in {"good", "none"}
  /\ UNCHANGED <<host, build, kinds, writes>>

Reconfigured ==
  /\ sidecar = "up" /\ token' \in {"good", "none"} /\ token' # token
  /\ UNCHANGED <<host, build, kinds, sidecar, writes>>

NextOutcome ==
  \/ \E p \in Presses :
       \/ Press(p) \/ Relay(p) \/ Take(p) \/ ServerAnswers(p) \/ Concludes(p) \/ CutOff(p)
       \/ ShellTimesOut(p) \/ HostFails(p) \/ OtherHostAnswers(p)
  \/ PanelReloads \/ StopSidecar \/ SidecarExits \/ SidecarStarts \/ Reconfigured

SpecOutcome == InitOutcome /\ [][NextOutcome]_outcomeVars

(***************************************************************************)
(* Properties.                                                             *)
(***************************************************************************)
(* What the pilot is told was done, the server has done.  What he is told  *)
(* was not done is not done, and nothing of it is on its way any more: the *)
(* next press would be the first the server carries out.                   *)
Vouched(p) == ~At(p, "server", "done") /\ ~At(p, "server", "away")
DoneIsDone == \A p \in Presses : At(p, "page", "done") => At(p, "server", "done")
WordsAreTrue ==
  /\ writes \in [Presses -> Write]
  /\ DoneIsDone
  /\ \A p \in Presses : At(p, "page", "not done") /\ ~writes[p].cut => Vouched(p)

(* The same without exception.  A sidecar that is told to stop answers what*)
(* it was asking about with "sidecar-unavailable", though the server may   *)
(* have done it: the page takes the code for "nothing was sent".           *)
RefusalsAreFinal == DoneIsDone /\ \A p \in Presses : At(p, "page", "not done") => Vouched(p)
=============================================================================
