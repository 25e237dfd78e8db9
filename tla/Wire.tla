-------------------------------- MODULE Wire --------------------------------
(***************************************************************************)
(* The two pipes between the shell and its sidecar: lines cut into chunks  *)
(* and put together again on both sides (src-tauri/src/framing.rs,         *)
(* sidecar/src/index.ts), judged on both sides (src-tauri/src/datalink.rs, *)
(* protocol.rs, sidecar/src/protocol.ts), and the answer each call gets.   *)
(*                                                                         *)
(* A pipe carries cells: n for a part of the n-th line written to it, 0 for*)
(* a newline.  A line's size is counted in cells without its newline.  What*)
(* the worker does with an answer is Supervisor's; here a call waits until *)
(* it is told one or the sidecar is gone.  Deadlines are left out.         *)
(***************************************************************************)
EXTENDS Integers, FiniteSets, Sequences

CONSTANTS
  Calls,
  Spoiled,     \* calls in whose id the token to be kept secret occurs
  MaxLine,     \* MAX_LINE_BYTES
  RequestMax,  \* REQUEST_LINE_MAX
  ChunkMax,    \* what a read may return at once
  Verdicts,    \* what the datalink service may say, and the size of its line
  Quotas       \* bounds, of which one set is taken at the start: the requests that may be made
               \* and how many, controls, lines of other kinds with their sizes, and deaths

ASSUME WireAssumption ==
  /\ {MaxLine, RequestMax, ChunkMax} \subseteq Nat \ {0}
  /\ MaxLine > 1   \* a refusal fits, with its newline
  /\ RequestMax <= MaxLine /\ RequestMax + ChunkMax <= 2 * MaxLine

\* No line is empty.
ASSUME SizesAssumption ==
  /\ \A v \in Verdicts : v.size \in Nat \ {0}
  /\ \A q \in Quotas :
       /\ DOMAIN q = {"requests", "asks", "controls", "sizes", "deaths"}
       /\ \A r \in q.requests : r.size \in Nat \ {0}
       /\ q.sizes \subseteq Nat \ {0}

(***************************************************************************)
(* Requests as both sides judge them.                                      *)
(***************************************************************************)
Whole1 == {"1", "max"}
Whole0 == {"0"} \cup Whole1
Words == {"true", "false"}
Targets == {"flight-1", "leg-max"}

(* By operation, the keys its parameters have, and what may stand under each. *)
Leg(ids) == [plannedLegId |-> ids]
ShellRules ==
  [watch |-> [on |-> Words],
   thread |-> [epoch |-> Whole1, endSeq |-> Whole0],
   send_canned |-> [target |-> Targets, cannedId |-> {"ack", "a.b_c-d"}],
   wx |-> [target |-> Targets, icao |-> {"EGLL", "K1G4"}],
   loadsheet |-> Leg(Whole1), clearance |-> Leg(Whole1), si_pdc |-> Leg(Whole1),
   si_status |-> [flightId |-> Whole1 \cup {"null"}],
   si_link |-> [flightId |-> Whole1, from |-> {"now", "session-start"}],
   si_unlink |-> [flightId |-> Whole1], si_import |-> [flightId |-> Whole1]]
Bare == {"refresh", "canned_list", "simbrief_settings", "simbrief_prefile", "prefile_clear"}

RulesWithoutNull == [ShellRules EXCEPT !.si_status = [flightId |-> Whole1]]
SidecarRules ==
  [op \in {"watch", "thread", "send_canned", "wx", "loadsheet", "clearance", "si_pdc",
           "si_status", "si_link", "si_unlink", "si_import"} |->
     CASE op = "watch" -> [on |-> {"true", "false"}]
       [] op = "thread" -> [epoch |-> {"1", "max"}, endSeq |-> {"0", "1", "max"}]
       [] op = "send_canned" -> [target |-> {"flight-1", "leg-max"}, cannedId |-> {"ack", "a.b_c-d"}]
       [] op = "wx" -> [target |-> {"flight-1", "leg-max"}, icao |-> {"EGLL", "K1G4"}]
       [] op = "si_status" -> [flightId |-> {"null", "1", "max"}]
       [] op = "si_link" -> [flightId |-> {"1", "max"}, from |-> {"now", "session-start"}]
       [] op \in {"si_unlink", "si_import"} -> [flightId |-> {"1", "max"}]
       [] OTHER -> [plannedLegId |-> {"1", "max"}]]

Obeys(rules, request) ==
  IF request.op \in DOMAIN rules
  THEN /\ DOMAIN request.params = DOMAIN rules[request.op]
       /\ \A key \in DOMAIN request.params : request.params[key] \in rules[request.op][key]
  ELSE request.op \in Bare /\ DOMAIN request.params = {}

LineFits(size) == size <= RequestMax
ShellTakes(request) == Obeys(ShellRules, request) /\ LineFits(request.size)
SidecarTakes(request) == Obeys(SidecarRules, request)

(***************************************************************************)
(* State.                                                                  *)
(***************************************************************************)
VARIABLES
  toSidecar, toShell,  \* each pipe: its cells, and the lines written to it (history)
  sidecar,  \* stdinBuffer, the calls being served, shuttingDown, whether the process is there
  reader,   \* the stdout reader: what is left of a chunk, the line so far, oversize, at its end
  calls,    \* what the shell knows of each call, and what the service said (history)
  heard,    \* by side, the lines its framer has passed on (history)
  quota

wireVars == <<toSidecar, toShell, sidecar, reader, calls, heard, quota>>

Empty == [cells |-> <<>>, lines |-> <<>>]
Unmade == [at |-> "idle", request |-> [op |-> "none", params |-> <<>>, size |-> 0], told |-> "nothing", said |-> "nothing"]

InitWire ==
  /\ quota \in Quotas
  /\ toSidecar = Empty /\ toShell = Empty
  /\ sidecar = [buffer |-> <<>>, serving |-> {}, stopping |-> FALSE, there |-> TRUE]
  /\ reader = [chunk |-> <<>>, line |-> <<>>, oversize |-> FALSE, ended |-> FALSE]
  /\ calls = [c \in Calls |-> Unmade]
  /\ heard = [sidecar |-> <<>>, shell |-> <<>>]

Cells(n, size) == [i \in 1..size |-> n]
Wrote(pipe, line) ==
  [lines |-> Append(pipe.lines, line),
   cells |-> pipe.cells \o Cells(Len(pipe.lines) + 1, line.size) \o <<0>>]

(* The number of the line these cells are, or what they are instead. *)
Oversize == -1
Fragment == -2
Decoded(pipe, cells) ==
  IF cells # <<>> /\ cells = Cells(cells[1], pipe.lines[cells[1]].size) THEN cells[1] ELSE Fragment

Quota(what) == quota[what] > 0 /\ quota' = [quota EXCEPT ![what] = @ - 1]

(***************************************************************************)
(* The shell asks.                                                         *)
(***************************************************************************)
(* The writer ends with the shutdown line. *)
WriterIsDone == \E i \in DOMAIN toSidecar.lines : toSidecar.lines[i].kind = "shutdown"
Written(line) ==
  toSidecar' = IF WriterIsDone \/ ~sidecar.there THEN toSidecar ELSE Wrote(toSidecar, line)

Call(c) ==
  /\ calls[c].at = "idle" /\ Quota("asks")
  /\ \E r \in quota.requests :
       IF ShellTakes(r)
       THEN /\ calls' = [calls EXCEPT ![c].at = "waiting", ![c].request = r]
            /\ Written([kind |-> "request", call |-> c, request |-> r, size |-> r.size])
       ELSE /\ calls' = [calls EXCEPT ![c].at = "told", ![c].request = r, ![c].told = "bad-request"]
            /\ UNCHANGED toSidecar
  /\ UNCHANGED <<toShell, sidecar, reader, heard>>

ControlLine ==
  /\ Quota("controls")
  /\ \E kind \in {"config", "shutdown"} : Written([kind |-> kind, size |-> 1])
  /\ UNCHANGED <<toShell, sidecar, reader, calls, heard>>

(***************************************************************************)
(* The sidecar reads and answers.                                          *)
(***************************************************************************)
(* encodeDatalinkResponse: the newline counts. *)
EncodedAsIs(call, code, size) == [kind |-> "response", call |-> call, code |-> code, size |-> size]
Encoded(call, code, size) ==
  IF size + 1 <= MaxLine THEN [kind |-> "response", call |-> call, code |-> code, size |-> size]
  ELSE [kind |-> "response", call |-> call, code |-> "too-large", size |-> 1]

StatusLine == [kind |-> "status", size |-> 1]

(* handleLine, on s: the pipe up, the sidecar, the lines it has heard. *)
HandleLine(s, cells) ==
  IF cells = <<>> THEN s
  ELSE LET n == Decoded(toSidecar, cells)
           line == IF n = Fragment THEN [kind |-> "fragment"] ELSE toSidecar.lines[n]
           Refuse(code) == [s EXCEPT !.up = Wrote(@, Encoded(line.call, code, 1)), !.heard = Append(@, n)]
           took == line.kind = "request" /\ SidecarTakes(line.request)
       IN CASE took /\ s.stopping -> Refuse("sidecar-unavailable")
            [] took /\ ~s.stopping -> [s EXCEPT !.serving = @ \cup {line.call}, !.heard = Append(@, n)]
            [] line.kind = "request" /\ ~took /\ ~s.stopping -> Refuse("bad-request")
            [] line.kind = "config" /\ ~s.stopping -> [s EXCEPT !.up = Wrote(@, StatusLine), !.heard = Append(@, n)]
            [] line.kind = "shutdown" -> [s EXCEPT !.stopping = TRUE, !.heard = Append(@, n)]
            [] OTHER -> [s EXCEPT !.heard = Append(@, n)]

HandleCell(acc, cell) ==
  IF cell = 0 THEN [line |-> <<>>, s |-> HandleLine(acc.s, acc.line)]
  ELSE [acc EXCEPT !.line = Append(@, cell)]

(* The cells of a chunk, one after the other. *)
Handled(start, chunk) ==
  LET after[i \in 0..Len(chunk)] == IF i = 0 THEN start ELSE HandleCell(after[i - 1], chunk[i])
  IN  after[Len(chunk)]

(* onStdinChunk: every complete line is handled before anything else runs. *)
StdinChunk ==
  /\ sidecar.there
  /\ \E k \in 1..ChunkMax :
       /\ k <= Len(toSidecar.cells)
       /\ toSidecar' = [toSidecar EXCEPT !.cells = SubSeq(@, k + 1, Len(@))]
       /\ LET chunk == SubSeq(toSidecar.cells, 1, k)
              over == Len(sidecar.buffer) + k > MaxLine * 2
              before == [up |-> toShell, serving |-> sidecar.serving, stopping |-> sidecar.stopping,
                         heard |-> heard.sidecar]
              after == IF over THEN [line |-> <<>>, s |-> before]
                       ELSE Handled([line |-> sidecar.buffer, s |-> before], chunk)
          IN /\ sidecar' = [sidecar EXCEPT !.buffer = after.line, !.serving = after.s.serving,
                                           !.stopping = after.s.stopping]
             /\ toShell' = after.s.up
             /\ heard' = [heard EXCEPT !.sidecar = after.s.heard]
  /\ UNCHANGED <<reader, calls, quota>>

(* handleDatalink after its await: what the service said, or that it threw. *)
Serve(c) ==
  /\ sidecar.there /\ c \in sidecar.serving
  /\ sidecar' = [sidecar EXCEPT !.serving = @ \ {c}]
  /\ \E v \in Verdicts \cup {[code |-> "bad-response", size |-> 1]} :
       /\ toShell' = Wrote(toShell, Encoded(c, v.code, v.size))
       /\ calls' = [calls EXCEPT ![c].said = IF v.size + 1 > MaxLine THEN "too-large" ELSE v.code]
  /\ UNCHANGED <<toSidecar, reader, heard, quota>>

(* Status lines, states and log lines: nothing bounds their size. *)
SpeakUnasked ==
  /\ sidecar.there /\ quota.sizes # {}
  /\ \E size \in quota.sizes :
       /\ toShell' = Wrote(toShell, [kind |-> "other", size |-> size])
       /\ quota' = [quota EXCEPT !.sizes = @ \ {size}]
  /\ UNCHANGED <<toSidecar, sidecar, reader, calls, heard>>

(* The process ends, by itself once told to or by a crash: what it had not got
   rid of is cut off anywhere. *)
ProcessEnds ==
  /\ sidecar.there
  /\ IF sidecar.stopping THEN UNCHANGED quota ELSE Quota("deaths")
  /\ sidecar' = [sidecar EXCEPT !.there = FALSE, !.serving = {}, !.buffer = <<>>]
  /\ \E k \in 0..Len(toShell.cells) : toShell' = [toShell EXCEPT !.cells = SubSeq(@, 1, k)]
  /\ toSidecar' = [toSidecar EXCEPT !.cells = <<>>]
  /\ UNCHANGED <<reader, calls, heard>>

(***************************************************************************)
(* The shell reads.                                                        *)
(***************************************************************************)
(* read_output on a decoded line: an answer is for a call that still waits, if its id
   comes through the redaction. *)
Deliver(n) ==
  /\ heard' = [heard EXCEPT !.shell = Append(@, n)]
  /\ calls' =
       IF n > 0 /\ toShell.lines[n].kind = "response"
       THEN LET c == toShell.lines[n].call
            IN IF calls[c].at = "waiting" /\ c \notin Spoiled
               THEN [calls EXCEPT ![c].at = "told", ![c].told = toShell.lines[n].code] ELSE calls
       ELSE calls

(* One turn of read_line's loop on what fill_buf returns. *)
Consume(bytes) ==
  LET newlines == {i \in DOMAIN bytes : bytes[i] = 0}
      length == IF newlines = {} THEN Len(bytes) ELSE (CHOOSE i \in newlines : \A j \in newlines : i <= j) - 1
      over == reader.oversize \/ Len(reader.line) + length > MaxLine
      line == IF over THEN <<>> ELSE reader.line \o SubSeq(bytes, 1, length)
  IN IF newlines = {}
     THEN /\ reader' = [reader EXCEPT !.chunk = <<>>, !.line = line, !.oversize = over]
          /\ UNCHANGED <<heard, calls>>
     ELSE /\ reader' = [reader EXCEPT !.chunk = SubSeq(bytes, length + 2, Len(bytes)),
                                      !.line = <<>>, !.oversize = FALSE]
          /\ Deliver(IF over THEN Oversize ELSE Decoded(toShell, line))

ReadChunk ==
  /\ \/ /\ reader.chunk # <<>>
        /\ Consume(reader.chunk) /\ UNCHANGED toShell
     \/ /\ reader.chunk = <<>>
        /\ \E k \in 1..ChunkMax :
             /\ k <= Len(toShell.cells)
             /\ Consume(SubSeq(toShell.cells, 1, k))
             /\ toShell' = [toShell EXCEPT !.cells = SubSeq(@, k + 1, Len(@))]
  /\ UNCHANGED <<toSidecar, sidecar, quota>>

(* The end of the pipe: what there is of a line is passed on. *)
ReadEnd ==
  /\ ~sidecar.there /\ ~reader.ended /\ reader.chunk = <<>> /\ toShell.cells = <<>>
  /\ reader' = [reader EXCEPT !.ended = TRUE, !.line = <<>>, !.oversize = FALSE]
  /\ IF reader.oversize THEN Deliver(Oversize)
     ELSE IF reader.line # <<>> THEN Deliver(Decoded(toShell, reader.line))
     ELSE UNCHANGED <<heard, calls>>
  /\ UNCHANGED <<toSidecar, toShell, sidecar, quota>>

(* The worker notices the exit, maybe before the last lines are read. *)
NoticeGone ==
  /\ ~sidecar.there /\ \E c \in Calls : calls[c].at = "waiting"
  /\ calls' = [c \in Calls |-> IF calls[c].at = "waiting"
                               THEN [calls[c] EXCEPT !.at = "told", !.told = "sidecar-exited"] ELSE calls[c]]
  /\ UNCHANGED <<toSidecar, toShell, sidecar, reader, heard, quota>>

NextWire ==
  \/ \E c \in Calls : Call(c) \/ Serve(c)
  \/ ControlLine \/ StdinChunk \/ SpeakUnasked \/ ProcessEnds
  \/ ReadChunk \/ ReadEnd \/ NoticeGone

SpecWire == InitWire /\ [][NextWire]_wireVars

(* Both readers run, a call that is served is answered, a process told to end ends or
   is killed, and an exit is noticed. *)
FairWire ==
  /\ WF_wireVars(StdinChunk) /\ WF_wireVars(ReadChunk) /\ WF_wireVars(ReadEnd) /\ WF_wireVars(NoticeGone)
  /\ WF_wireVars(sidecar.stopping /\ ProcessEnds)
  /\ \A c \in Calls : WF_wireVars(Serve(c))

(***************************************************************************)
(* Properties.                                                             *)
(***************************************************************************)
(* However the pipes cut them up, lines come out as they went in, once and in order: an
   oversized one is reported in its place and the next survives, and only the last before
   the end of a pipe may be a fragment (framing.rs 14-47, index.ts 438-451). *)
InOrder(passed, lines) ==
  \A i \in DOMAIN passed :
    /\ i \in DOMAIN lines
    /\ \/ passed[i] = IF lines[i].size > MaxLine THEN Oversize ELSE i
       \/ reader.ended /\ i = Len(passed) /\ passed[i] = Fragment
LinesArriveWhole == InOrder(heard.sidecar, toSidecar.lines) /\ InOrder(heard.shell, toShell.lines)

(* What a call is told is what became of it: the service's own word or that it does not
   fit; refused as malformed only by the shell or by the service, for the sidecar's rules
   are the shell's; and otherwise that the sidecar is going or gone (datalink.rs 188-246,
   protocol.ts 640-722). *)
AnswersAreTrue ==
  \A c \in Calls : calls[c].at = "told" =>
    \/ calls[c].told = calls[c].said
    \/ calls[c].told = "bad-request" /\ calls[c].said = "nothing" /\ ~ShellTakes(calls[c].request)
    \/ calls[c].told = "sidecar-unavailable" /\ sidecar.stopping
    \/ calls[c].told = "sidecar-exited" /\ ~sidecar.there

(* Both together: the wire adds nothing to what is said and takes nothing away. *)
WireIsTransparent == LinesArriveWhole /\ AnswersAreTrue

(* "Exactly one response per request id" (index.ts 528): no call is left to its deadline
   by a line that got lost, was too long or came from a sidecar on its way out. *)
EveryCallIsTold == \A c \in Calls : calls[c].at = "waiting" ~> calls[c].at = "told"
=============================================================================
