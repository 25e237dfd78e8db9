------------------------------ MODULE MCSimLink ------------------------------
(***************************************************************************)
(* What the sidecar has to its two sides: the link to the simulator        *)
(* (SimLink) and the pipes to the shell (Wire).  They share nothing, so    *)
(* each is explored with the other at rest.                                *)
(***************************************************************************)
EXTENDS SimLink, Wire, TLC

VARIABLE explored

\* Every operation with parameters that both sides take, and with ones they do not.
Ask(op, params) == [op |-> op, params |-> params, size |-> 1]
SomeOf(values) == values \cup {"-1", "over", "text"}
Bad == [extra |-> "1"]
Asked ==
  {Ask("watch", [on |-> v]) : v \in SomeOf(Words)} \cup
  {Ask("thread", [epoch |-> v, endSeq |-> w]) : v \in SomeOf(Whole1), w \in {"0", "max", "-1"}} \cup
  {Ask("send_canned", [target |-> t, cannedId |-> v]) : t \in SomeOf(Targets), v \in {"ack", ".dot"}} \cup
  {Ask("wx", [target |-> t, icao |-> v]) : t \in SomeOf(Targets), v \in {"K1G4", "egll"}} \cup
  {Ask(op, [plannedLegId |-> v]) : op \in {"loadsheet", "clearance", "si_pdc"}, v \in SomeOf(Whole1)} \cup
  {Ask(op, [flightId |-> v]) : op \in {"si_status", "si_unlink", "si_import"}, v \in SomeOf(Whole0 \cup {"null"})} \cup
  {Ask("si_link", [flightId |-> v, from |-> w]) : v \in SomeOf(Whole1), w \in {"now", "session-start", "later"}} \cup
  {Ask(op, <<>>) : op \in Bare \cup {"si_status", "no such op"}} \cup
  {Ask(op, Bad) : op \in Bare \cup {"loadsheet"}}

Refresh(size) == [Ask("refresh", <<>>) EXCEPT !.size = size]
Use(requests, asks, controls, sizes, deaths) ==
  [requests |-> requests, asks |-> asks, controls |-> controls, sizes |-> sizes, deaths |-> deaths]
WireQuotas ==
  {Use({r}, 1, 0, {}, 0) : r \in Asked} \cup
  {Use({Refresh(1), Ask("refresh", Bad)}, 2, 0, {}, 1),
   Use({Refresh(RequestMax), Refresh(MaxLine + 1)}, 2, 0, {}, 0),
   Use({Refresh(1)}, 2, 1, {}, 1),
   Use({Refresh(RequestMax)}, 1, 0, {MaxLine, MaxLine + 1}, 1)}

WireVerdicts ==
  {[code |-> "ok", size |-> size] : size \in {1, MaxLine - 1, MaxLine, MaxLine + 1}} \cup
  {[code |-> code, size |-> 1] : code \in {"failed", "bad-request"}}

MCInit ==
  /\ Init /\ InitWire
  /\ \/ explored = "link" /\ quota = CHOOSE q \in Quotas : TRUE
     \/ explored = "wire" /\ config = CHOOSE c \in Configs : TRUE

MCNext ==
  /\ UNCHANGED explored
  /\ \/ explored = "link" /\ Next /\ UNCHANGED wireVars
     \/ explored = "wire" /\ NextWire /\ UNCHANGED vars

MCSpec ==
  /\ MCInit /\ [][MCNext]_<<vars, wireVars, explored>>
  /\ LinkFairness /\ FairWire
=============================================================================
