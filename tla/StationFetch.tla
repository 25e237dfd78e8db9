----------------------------- MODULE StationFetch -----------------------------
(***************************************************************************)
(* The fetches of one fix or navaid (sidecar/src/navdata-fixes.ts and      *)
(* navdata-navaids.ts): a fix and its airways in one call, an NDB in one,  *)
(* a VOR in up to three, since its own record has no position.             *)
(*                                                                         *)
(* All stations here share an ident.  The simulator tells what is so: a    *)
(* missing one is refused at once with exception 1, an ident several share *)
(* gets candidates when no region is named, and a waypoint asked for under *)
(* a region may be that of another region.  It may also refuse, be cut off *)
(* or keep silent whatever it has.                                         *)
(***************************************************************************)
EXTENDS Integers, FiniteSets

CONSTANTS
  Stations,  \* what the simulator may have: [type, region, place, ils, legs]
  Skies,     \* which of them it has together
  Regions,
  MaxAsked   \* bound on the fetches

ASSUME StationAssumption == Skies \subseteq SUBSET Stations /\ MaxAsked \in Nat

Kinds == {"W", "V", "N"}
AnyRegion == "any"     \* a request, or an absence, that names no region
Nowhere == "nowhere"

VARIABLES
  sky,       \* the stations the simulator has
  asking,    \* the fetch under way: its kind, region and which call is out
  navaids,   \* the navaid rows
  fixes,     \* the waypoint rows: where and how far they are known
  airways,   \* the airway legs stored
  missing,   \* the absences recorded
  asked

stationVars == <<sky, asking, navaids, fixes, airways, missing, asked>>

NoRow == [detail |-> "none", place |-> Nowhere, source |-> 0, ambiguous |-> FALSE]
NotAsking == [call |-> "none", kind |-> "W", region |-> AnyRegion, ils |-> FALSE]

InitStations ==
  /\ sky \in Skies
  /\ asking = NotAsking
  /\ navaids = [k \in (Kinds \ {"W"}) \X Regions |-> NoRow]
  /\ fixes = {} /\ airways = {} /\ missing = {} /\ asked = 0

(***************************************************************************)
(* The simulator.                                                          *)
(***************************************************************************)
\* Its waypoint database has the fixes, and the VORs that are not localizers.
Database(kind) ==
  {s \in sky : s.type = kind \/ (kind = "W" /\ s.type = "V" /\ ~s.ils)}

Named(kind, region) == {s \in Database(kind) : region \in {AnyRegion, s.region}}

\* Which of the stations asked for answers is arbitrary.
MayAnswer(kind, region) ==
  IF kind = "W" /\ region # AnyRegion THEN Database("W")
  ELSE IF region = AnyRegion /\ Cardinality(Named(kind, region)) > 1 THEN {}
  ELSE Named(kind, region)

MayList(kind, region) == Cardinality(Named(kind, region)) > 1

MayRefuse(kind, region, code) == code = 1 => Named(kind, region) = {}

(***************************************************************************)
(* What is stored.                                                         *)
(***************************************************************************)
\* A position yields to one of the same rank or a better one.
Placed(row, place, source) ==
  IF row.place # Nowhere /\ source < row.source THEN row
  ELSE [row EXCEPT !.place = place, !.source = source]

Minimal == 1
Facility == 3

\* Two candidates in one region: the key is not theirs alone.
StoreCandidates(rows, kind) ==
  LET in(region) == {s \in Named(kind, AnyRegion) : s.type = kind /\ s.region = region}
  IN [k \in DOMAIN rows |->
        CASE k[1] # kind \/ in(k[2]) = {} -> rows[k]
          [] k[1] = kind /\ Cardinality(in(k[2])) > 1 -> [rows[k] EXCEPT !.ambiguous = TRUE]
          [] OTHER -> Placed(rows[k], (CHOOSE s \in in(k[2]) : TRUE).place, Minimal)]

\* The candidates of a region-qualified list are of that region.
ListIn(rows, kind, region) ==
  LET stored == StoreCandidates(rows, kind)
  IN [k \in DOMAIN rows |-> IF region \in {AnyRegion, k[2]} THEN stored[k] ELSE rows[k]]

FixRow(s, state, source) == [region |-> s.region, place |-> s.place, state |-> state, source |-> source]

At(rows, s) == {f \in rows : f.region = s.region /\ f.place = s.place}

\* A candidate is placed; what is known better of it stays.
CandidateFixes(rows, stations) ==
  rows \cup {FixRow(s, "unknown", Minimal) : s \in {c \in stations : c.type = "W" /\ At(rows, c) = {}}}

(***************************************************************************)
(* A fix.                                                                  *)
(***************************************************************************)
AskOver == asking' = NotAsking

AskFor(kind, region) ==
  /\ asking.call = "none" /\ asked < MaxAsked
  /\ asked' = asked + 1
  /\ asking' = [call |-> "first", kind |-> kind, region |-> region, ils |-> FALSE]
  /\ UNCHANGED <<sky, navaids, fixes, airways, missing>>

FixCall == asking.call = "first" /\ asking.kind = "W"

IsTheStation(s) == asking.region \in {AnyRegion, s.region}

\* Every record was read, and as many routes came as were declared.
FixFetched(s, sound) ==
  /\ FixCall /\ s \in MayAnswer("W", asking.region)
  /\ IF sound /\ IsTheStation(s)
     THEN /\ fixes' = (fixes \ At(fixes, s)) \cup {FixRow(s, "fetched", Facility)}
          /\ airways' = airways \cup s.legs
     ELSE UNCHANGED <<fixes, airways>>
  /\ AskOver
  /\ UNCHANGED <<sky, navaids, missing, asked>>

FixListed ==
  /\ FixCall /\ MayList("W", asking.region)
  /\ fixes' = CandidateFixes(fixes, Named("W", asking.region))
  /\ AskOver
  /\ UNCHANGED <<sky, navaids, airways, missing, asked>>

\* Refused at once, with nothing received, and for the reason a missing
\* station is refused for; 0 is silence.
IsMissing(code) == code = 1

Absence == [kind |-> asking.kind, region |-> asking.region]

\* A refusal or silence.  A request without a region marks no row.
FixRefused(code) ==
  /\ FixCall /\ MayRefuse("W", asking.region, code)
  /\ IF IsMissing(code)
     THEN /\ missing' = missing \cup {Absence}
          /\ fixes' = {IF f.region = asking.region THEN [f EXCEPT !.state = "absent"] ELSE f : f \in fixes}
     ELSE UNCHANGED <<missing, fixes>>
  /\ AskOver
  /\ UNCHANGED <<sky, navaids, airways, asked>>

(***************************************************************************)
(* A navaid.                                                               *)
(***************************************************************************)
NavaidCall == asking.call = "first" /\ asking.kind # "W"

\* The call that follows, with the rows as the last one left them.
NextCall(rows, region, done, ils) ==
  LET row == rows[<<"V", region>>] IN
  IF row.place # Nowhere THEN NotAsking
  ELSE IF done = "first" /\ asking.region # AnyRegion
  THEN [asking EXCEPT !.call = "second", !.ils = ils]
  ELSE IF ~ils /\ ~row.ambiguous
  THEN [asking EXCEPT !.call = "third", !.region = region, !.ils = ils]
  ELSE NotAsking

Detailed(row, s) ==
  IF s.type = "N" THEN [Placed(row, s.place, Facility) EXCEPT !.detail = "detail"]
  ELSE [row EXCEPT !.detail = "detail"]

NavaidFetched(s, sound) ==
  LET key == <<asking.kind, IF asking.region = AnyRegion THEN s.region ELSE asking.region>>
      rows == [navaids EXCEPT ![key] = Detailed(@, s)]
  IN /\ NavaidCall /\ s \in MayAnswer(asking.kind, asking.region)
     /\ IF sound
        THEN /\ navaids' = rows
             /\ asking' = IF asking.kind = "V" THEN NextCall(rows, key[2], "first", s.ils) ELSE NotAsking
        ELSE AskOver /\ UNCHANGED navaids
     /\ UNCHANGED <<sky, fixes, airways, missing, asked>>

NavaidListed ==
  /\ NavaidCall /\ MayList(asking.kind, asking.region)
  /\ navaids' = ListIn(navaids, asking.kind, asking.region)
  /\ AskOver
  /\ UNCHANGED <<sky, fixes, airways, missing, asked>>

NavaidRefused(code) ==
  LET key == <<asking.kind, asking.region>> IN
  /\ NavaidCall /\ MayRefuse(asking.kind, asking.region, code)
  /\ IF IsMissing(code)
     THEN /\ missing' = missing \cup {Absence}
          /\ navaids' = IF asking.region # AnyRegion /\ navaids[key] # NoRow
                        THEN [navaids EXCEPT ![key].detail = "absent"] ELSE navaids
     ELSE UNCHANGED <<missing, navaids>>
  /\ AskOver
  /\ UNCHANGED <<sky, fixes, airways, asked>>

\* The VOR without its region: candidates or nothing of use.
SecondAnswered(listed) ==
  /\ asking.call = "second" /\ (listed => MayList("V", AnyRegion))
  /\ navaids' = IF listed THEN StoreCandidates(navaids, "V") ELSE navaids
  /\ asking' = NextCall(navaids', asking.region, "second", asking.ils)
  /\ UNCHANGED <<sky, fixes, airways, missing, asked>>

\* Mutant: a waypoint of the region will do.
AnyWaypoint(s) == s.region = asking.region

\* The VOR as a waypoint: taken only from the station itself.
IsTheVor(s) == s.region = asking.region /\ s.type = "V"

ThirdAnswered(s, sound) ==
  /\ asking.call = "third" /\ s \in MayAnswer("W", asking.region)
  /\ navaids' = IF sound /\ IsTheVor(s)
                THEN [navaids EXCEPT ![<<"V", asking.region>>] = Placed(@, s.place, Facility)]
                ELSE navaids
  /\ AskOver
  /\ UNCHANGED <<sky, fixes, airways, missing, asked>>

\* A dropped link, a request that cannot be sent, a fix definition that is not
\* usable; after the second call it is the third's turn all the same.
Dropped ==
  /\ asking.call \in {"first", "third"}
  /\ AskOver
  /\ UNCHANGED <<sky, navaids, fixes, airways, missing, asked>>

NextStation ==
  \/ \E kind \in Kinds, region \in Regions \cup {AnyRegion} : AskFor(kind, region)
  \/ \E s \in Stations, sound \in BOOLEAN :
       FixFetched(s, sound) \/ NavaidFetched(s, sound) \/ ThirdAnswered(s, sound)
  \/ \E code \in 0..2 : FixRefused(code) \/ NavaidRefused(code)
  \/ \E listed \in BOOLEAN : SecondAnswered(listed)
  \/ FixListed \/ NavaidListed \/ Dropped

SpecStations == InitStations /\ [][NextStation]_stationVars

(***************************************************************************)
(* Properties.                                                             *)
(***************************************************************************)
\* What the store says of a station is so: it is where a station of that kind
\* and region is and never where another is that shares its ident, a fix that
\* counts as fetched has all its airways, and an absence names nothing the
\* simulator has.
StoredIsSo ==
  /\ \A k \in DOMAIN navaids : navaids[k].place # Nowhere =>
       \E s \in sky : s.type = k[1] /\ s.region = k[2] /\ s.place = navaids[k].place
  /\ \A f \in fixes :
       /\ At({FixRow(s, f.state, f.source) : s \in Database("W")}, f) # {}
       /\ f.state = "fetched" => \E s \in Database("W") :
            s.region = f.region /\ s.place = f.place /\ s.legs \subseteq airways
  /\ \A absence \in missing : Named(absence.kind, absence.region) = {}

\* Not so: after a second call that failed, the third places a key two VORs
\* share, and the list that shows it is shared takes nothing back.
SharedKeyHasNoPlace == \A k \in DOMAIN navaids : navaids[k].ambiguous => navaids[k].place = Nowhere
===============================================================================
