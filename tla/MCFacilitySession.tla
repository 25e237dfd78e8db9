--------------------------- MODULE MCFacilitySession ---------------------------
(***************************************************************************)
(* What goes over a facility session, in four parts that are explored with *)
(* the others at rest: the session itself, its definition refused nothing, *)
(* and what may be refused of the definition (FacilitySession), the detail *)
(* of an airport (AirportDetail) and of a fix or navaid (StationFetch).    *)
(* The last two take from the first what one call of fetch may end in.     *)
(***************************************************************************)
EXTENDS FacilitySession, AirportDetail, StationFetch, TLC

CONSTANTS r1, r2, l1

VARIABLE explored

(***************************************************************************)
(* Two requests of different priority over one slot, one list of two       *)
(* chunks, and a definition with one entry at two places, four deep.       *)
(***************************************************************************)
MCPriority == (r1 :> 0) @@ (r2 :> 1)

MCRoot == <<"APT">>
MCNodes ==
  {MCRoot, <<"APT", "RWY">>, <<"APT", "DEP">>, <<"APT", "DEP", "TRN">>,
   <<"APT", "DEP", "TRN", "LEG">>, <<"APT", "DEP", "LEG">>}

One(e) == {{<<e, 1>>}}
MCGroups ==
  ("APT" :> {{<<"APT", 1>>, <<"APT", 2>>}}) @@ ("RWY" :> {{<<"RWY", 1>>}, {<<"RWY", 2>>, <<"RWY", 3>>}})
  @@ ("DEP" :> One("DEP")) @@ ("TRN" :> One("TRN")) @@ ("LEG" :> One("LEG"))

\* Nothing; a first spelling, a whole group and an entry that has below it what
\* is open elsewhere; an entry with two levels below, and all of another; and all
\* the members of an entry and of what is below it.
Refused(entries, members) == [entries |-> entries, members |-> members]
MCRefusals ==
  {Refused({}, {}),
   Refused({"TRN"}, {<<"APT", 1>>, <<"RWY", 2>>, <<"RWY", 3>>}),
   Refused({"DEP"}, {<<"RWY", 1>>, <<"RWY", 2>>, <<"RWY", 3>>}),
   Refused({}, {<<"APT", 1>>, <<"DEP", 1>>, <<"TRN", 1>>, <<"LEG", 1>>})}

(***************************************************************************)
(* Airports, each about one thing that may go wrong in the decoder.        *)
(***************************************************************************)
Rec(type, up, name, values) ==
  [type |-> type, up |-> up, name |-> name, values |-> values, legs |-> [role \in Roles |-> Absent]]
WithLegs(rec, role, n) == [rec EXCEPT !.legs[role] = n]
Apt == Rec("AIRPORT", 0, "", <<1>>)
Runway(name) == Rec("RUNWAY", 1, name, <<1>>)
End(up, v) == Rec("THRESHOLD", up, "", <<v>>)
Approach(values) == Rec("APPROACH", 1, "ILS09", values)
LegOf(type, up, v) == Rec(type, up, "", <<v>>)

\* Three approaches of one name, told apart by their columns.
Alike ==
  <<Apt, WithLegs(Approach(<<2, 1>>), "final", 1), Approach(<<2, 0>>), Approach(<<Absent, 1>>),
    LegOf("FINAL_LEG", 2, 3), LegOf("MISSED_LEG", 3, 4), Rec("approach", 4, "x", <<>>),
    LegOf("LEG", 7, 1)>>
\* Legs of a transition and of the procedure, two each.
Branch ==
  <<Apt, Approach(<<2, 1>>), Rec("approach", 2, "x", <<>>), LegOf("LEG", 3, 1), LegOf("LEG", 3, 2),
    LegOf("FINAL_LEG", 2, 3), LegOf("FINAL_LEG", 2, 4)>>
\* A runway sent twice, its thresholds once; and one with a single threshold.
Field ==
  <<Apt, Runway("09"), Runway("09"), End(2, 7), End(2, 8), Runway("18"), End(6, 0),
    Rec("FREQUENCY", 1, "twr", <<>>)>>
\* A departure with legs of its own and two transitions.
Sid ==
  <<Apt, WithLegs(Rec("DEPARTURE", 1, "s", <<>>), "common", 1), LegOf("LEG", 2, 1),
    LegOf("LEG", 2, 2), Rec("runway", 2, "09", <<>>), LegOf("LEG", 5, 3),
    Rec("runway", 2, "18", <<>>), LegOf("LEG", 7, 5)>>
\* Two departures of one name that nothing tells apart.
Pair ==
  <<Apt, Rec("DEPARTURE", 1, "s", <<>>), Rec("enroute", 2, "e", <<>>), LegOf("LEG", 3, 4),
    Rec("DEPARTURE", 1, "s", <<>>), LegOf("LEG", 5, 6)>>
\* Two transitions of one name; three thresholds.
Twice ==
  <<Apt, Rec("ARRIVAL", 1, "s", <<>>), Rec("enroute", 2, "e", <<>>), LegOf("LEG", 3, 4),
    Rec("enroute", 2, "e", <<>>)>>
Thrice == <<Apt, Runway("18"), End(2, 1), End(2, 2), End(2, 3)>>
Fewer == <<Apt, Approach(<<Absent, 3>>)>>

MCVersions == {Alike, Branch, Field, Sid, Pair, Twice, Thrice, Fewer, Nothing}
MCUpdates == {<<Alike, Fewer>>, <<Branch, Nothing>>, <<Nothing, Fewer>>, <<Sid, Pair>>}
MCUnreadable == {"approach", "RUNWAY", "DEPARTURE", "LEG"}

(***************************************************************************)
(* Stations of one ident: apart in region, in kind, and in neither.        *)
(***************************************************************************)
Station(type, region, place, legs) ==
  [type |-> type, region |-> region, place |-> place, ils |-> FALSE, legs |-> legs]
Vor1 == Station("V", "r1", "p1", {"a"})
Vor2 == Station("V", "r2", "p2", {})
Twin == Station("V", "r1", "p3", {})
Ils == [Station("V", "r1", "p4", {}) EXCEPT !.ils = TRUE]
Fix1 == Station("W", "r1", "p5", {"a", "b"})
Fix2 == Station("W", "r1", "p6", {"c"})
Fix3 == Station("W", "r2", "p7", {})
Ndb1 == Station("N", "r1", "p8", {})
Ndb2 == Station("N", "r2", "p9", {})

MCStations == {Vor1, Vor2, Twin, Ils, Fix1, Fix2, Fix3, Ndb1, Ndb2}
MCSkies ==
  {{}, {Vor1, Ndb1}, {Vor1, Vor2, Fix1}, {Vor1, Twin, Vor2}, {Vor2, Ils, Fix1, Fix2},
   {Ndb1, Ndb2, Fix1, Fix3}, {Ils, Fix3}}

(***************************************************************************)
(* The parts together.                                                     *)
(***************************************************************************)
MCInit ==
  /\ Init /\ InitDetail /\ InitStations
  /\ explored \in {"session", "definition", "detail", "stations"}
  /\ explored # "detail" => world = Nothing
  /\ explored # "stations" => sky = {}

MCNext ==
  /\ UNCHANGED explored
  /\ \/ /\ explored \in {"session", "definition"} /\ Next /\ UNCHANGED <<detailVars, stationVars>>
        /\ explored = "session" => pass'.refused = {} /\ pass'.pruned.definition.lost = NotLost
        /\ explored = "definition" => UNCHANGED <<req, list>>
     \/ explored = "detail" /\ NextDetail /\ UNCHANGED <<vars, stationVars>>
     \/ explored = "stations" /\ NextStation /\ UNCHANGED <<vars, detailVars>>

MCSpec == MCInit /\ [][MCNext]_<<vars, detailVars, stationVars, explored>> /\ Liveness
================================================================================
