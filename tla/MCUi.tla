-------------------------------- MODULE MCUi --------------------------------
(***************************************************************************)
(* The panel: the thread pages (ThreadView) and the pages that send        *)
(* (Panel).  They share nothing but the screen, so each is explored with   *)
(* the other at rest.                                                      *)
(***************************************************************************)
EXTENDS ThreadView, Panel

VARIABLE explored

Budget(mishaps, keys) == [mishaps |-> mishaps, keys |-> keys]
ThreadBudgets == {Budget(2, 2), Budget(1, 3), Budget(0, 5)}

Told(kind, id, leg, held, prefile) ==
  [kind |-> kind, id |-> id, leg |-> leg, held |-> held, prefile |-> prefile, able |-> TRUE]
Nowhere == Told("none", "", NoLeg, NoLeg, FALSE)
Planned == Told("leg", "L1", "L1", NoLeg, FALSE)
Held == Told("leg", "L1", "L1", "L2", FALSE)
Prefiled == Told("leg", "L2", "L2", "L2", TRUE)
Flying == Told("flight", "F1", "L1", NoLeg, FALSE)
FlyingUnplanned == Told("flight", "F2", NoLeg, NoLeg, FALSE)
Refused == [Flying EXCEPT !.able = FALSE]

Tour(pages, scopes, urls, sends, reads, saves, moves, refusals) ==
  [urls |-> urls, pages |-> pages \cup {"MENU", "NETWORK", "DL-INDEX"}, scopes |-> scopes,
   sends |-> sends, reads |-> reads, saves |-> saves, moves |-> moves, refusals |-> refusals]
SiPages == {"DL-SI", "DL-SI-CONFIRM"}
ClearancePages == {"DL-CLEARANCE-CONFIRM", "DL-CLEARANCE", "DL-SI-PDC"}
FormPages == {"DL-CANNED", "DL-WX", "DL-WX-RESULT", "DL-LOADSHEET", "DL-CONFIRM"}
FplnPages == {"FPLN", "FPLN-CONFIRM", "FPLN-RESULT"}
PanelTours ==
  {Tour(SiPages, {Flying}, {}, 1, 1, 1, 0, 1),
   Tour(SiPages, {Flying, FlyingUnplanned, Refused}, {}, 1, 2, 0, 1, 0),
   Tour(ClearancePages, {Planned, Prefiled}, {"url b"}, 1, 1, 1, 1, 0),
   Tour(ClearancePages, {Planned, Held, Prefiled}, {}, 2, 1, 0, 2, 0),
   Tour(ClearancePages, {Planned}, {"url a", "url b"}, 2, 1, 1, 0, 0),
   Tour(ClearancePages, {Planned}, {"url b"}, 1, 1, 1, 0, 1),
   Tour(FormPages, {Planned, FlyingUnplanned}, {}, 2, 1, 0, 1, 0),
   Tour(FplnPages, {Prefiled, Nowhere}, {}, 2, 1, 0, 1, 0)}

Init ==
  /\ InitThread /\ InitPanel
  /\ \/ /\ explored = "thread"
        /\ spare = CHOOSE t \in PanelTours : TRUE
        /\ scope = CHOOSE s \in spare.scopes : TRUE
     \/ explored = "panel" /\ left = CHOOSE b \in ThreadBudgets : TRUE

Next ==
  /\ UNCHANGED explored
  /\ \/ explored = "thread" /\ NextThread /\ UNCHANGED panelVars
     \/ explored = "panel" /\ NextPanel /\ UNCHANGED threadVars

Spec == Init /\ [][Next]_<<threadVars, panelVars, explored>> /\ FairThread
=============================================================================
