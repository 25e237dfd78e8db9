------------------------ MODULE FacilitySession_proofs ------------------------
(***************************************************************************)
(* The fetching side of the sidecar (sidecar/src/navdata-facilities.ts,    *)
(* sidecar/src/navdata-detail.ts): what the store says of a station is what*)
(* the simulator answered for it; the requests of a session keep their     *)
(* attempts and their slots apart; a definition that was pruned says what  *)
(* it lost; and what is stored of an airport is the airport as it was last *)
(* fetched whole, its state what its fetches showed.                       *)
(*                                                                         *)
(* The components share nothing, so each has an invariant of its own:      *)
(* StationInv, SessionInv, PassInv, and for the airport Earned, Gathered   *)
(* and AsFetched.                                                          *)
(***************************************************************************)
EXTENDS FacilitySession, StationFetch, AirportDetail, FiniteSetTheorems, SequenceTheorems, WellFoundedInduction, TLAPS

-----------------------------------------------------------------------------
(* What the store says of a station.                                       *)

Keys == (Kinds \ {"W"}) \X Regions

IsRow(row) ==
  row = [detail |-> row.detail, place |-> row.place, source |-> row.source, ambiguous |-> row.ambiguous]
IsFix(f) == f = [region |-> f.region, place |-> f.place, state |-> f.state, source |-> f.source]

\* A row of this key has no place, or that of a station of its kind and region.
Right(k, row) ==
  IsRow(row) /\ (row.place # Nowhere => \E s \in sky : s.type = k[1] /\ s.region = k[2] /\ s.place = row.place)

\* A row of a fix is where a station is, and has its legs once it is fetched.
There(f, legs) ==
  /\ IsFix(f)
  /\ \E s \in Database("W") : s.region = f.region /\ s.place = f.place
  /\ f.state = "fetched" =>
       \E s \in Database("W") : s.region = f.region /\ s.place = f.place /\ s.legs \subseteq legs

NavaidsAreSo == navaids = [k \in Keys |-> navaids[k]] /\ \A k \in Keys : Right(k, navaids[k])
FixesAreSo == \A f \in fixes : There(f, airways)
AbsencesAreSo == \A absence \in missing : Named(absence.kind, absence.region) = {}

IsCall(a) ==
  a = [call |-> a.call, kind |-> a.kind, region |-> a.region, ils |-> a.ils] /\ a.kind \in Kinds

StationInv == NavaidsAreSo /\ FixesAreSo /\ AbsencesAreSo /\ IsCall(asking)

LEMMA StationsAreSo ==
  ASSUME StationInv
  PROVE  StoredIsSo
<1>1. ASSUME NEW k \in DOMAIN navaids, navaids[k].place # Nowhere
      PROVE  \E s \in sky : s.type = k[1] /\ s.region = k[2] /\ s.place = navaids[k].place
  BY <1>1 DEF StationInv, NavaidsAreSo, Right
<1>2. ASSUME NEW f \in fixes
      PROVE  /\ At({FixRow(s, f.state, f.source) : s \in Database("W")}, f) # {}
             /\ f.state = "fetched" => \E s \in Database("W") :
                  s.region = f.region /\ s.place = f.place /\ s.legs \subseteq airways
  <2>1. There(f, airways)
    BY DEF StationInv, FixesAreSo
  <2>2. PICK s \in Database("W") : s.region = f.region /\ s.place = f.place
    BY <2>1 DEF There
  <2>3. FixRow(s, f.state, f.source) \in At({FixRow(t, f.state, f.source) : t \in Database("W")}, f)
    BY <2>2 DEF At, FixRow
  <2> QED BY <2>1, <2>3 DEF There
<1> QED BY <1>1, <1>2 DEF StoredIsSo, StationInv, AbsencesAreSo

LEMMA PlacedIsRight ==
  ASSUME NEW k, NEW row, Right(k, row), NEW s \in sky, s.type = k[1], s.region = k[2], NEW n
  PROVE  Right(k, Placed(row, s.place, n))
<1> DEFINE new == [row EXCEPT !.place = s.place, !.source = n]
<1>1. IsRow(new) /\ new.place = s.place
  <2> DEFINE d == row.detail p == row.place o == row.source a == row.ambiguous place == s.place
  <2>1. row = [detail |-> d, place |-> p, source |-> o, ambiguous |-> a]
    BY DEF Right, IsRow
  <2>2. new = [row EXCEPT !.place = place, !.source = n]
    OBVIOUS
  <2>3. place = s.place
    OBVIOUS
  <2> HIDE DEF new, d, p, o, a, place
  <2>4. new = [detail |-> d, place |-> place, source |-> n, ambiguous |-> a]
    BY <2>1, <2>2
  <2> QED BY <2>3, <2>4 DEF IsRow
<1>2. Right(k, new)
  BY <1>1 DEF Right
<1> QED BY <1>2 DEF Placed

LEMMA FieldIsRight ==
  ASSUME NEW k, NEW row, Right(k, row), NEW v
  PROVE  Right(k, [row EXCEPT !.detail = v]) /\ Right(k, [row EXCEPT !.ambiguous = v])
<1>1. IsRow([row EXCEPT !.detail = v]) /\ [row EXCEPT !.detail = v].place = row.place
  BY DEF Right, IsRow
<1>2. IsRow([row EXCEPT !.ambiguous = v]) /\ [row EXCEPT !.ambiguous = v].place = row.place
  BY DEF Right, IsRow
<1> QED BY <1>1, <1>2 DEF Right

RowsAreRight(rows) == rows = [k \in Keys |-> rows[k]] /\ \A k \in Keys : Right(k, rows[k])

LEMMA CandidatesAreRight ==
  ASSUME NEW rows, RowsAreRight(rows), NEW kind
  PROVE  RowsAreRight(StoreCandidates(rows, kind))
<1> DEFINE in(region) == {s \in Named(kind, AnyRegion) : s.type = kind /\ s.region = region}
           row(k) == CASE k[1] # kind \/ in(k[2]) = {} -> rows[k]
                       [] k[1] = kind /\ Cardinality(in(k[2])) > 1 -> [rows[k] EXCEPT !.ambiguous = TRUE]
                       [] OTHER -> Placed(rows[k], (CHOOSE s \in in(k[2]) : TRUE).place, Minimal)
<1>1. StoreCandidates(rows, kind) = [k \in Keys |-> row(k)]
  <2>1. DOMAIN rows = Keys
    BY DEF RowsAreRight
  <2> QED BY <2>1 DEF StoreCandidates
<1>2. ASSUME NEW k \in Keys PROVE Right(k, row(k))
  <2>1. Right(k, rows[k])
    BY DEF RowsAreRight
  <2> DEFINE here == in(k[2])
             s == CHOOSE t \in here : TRUE
             None2 == k[1] # kind \/ here = {}
             Several == k[1] = kind /\ Cardinality(here) > 1
             one == [rows[k] EXCEPT !.ambiguous = TRUE]
             other == Placed(rows[k], s.place, Minimal)
  <2>4. ~(None2 /\ Several)
    BY FS_EmptySet
  <2>5. row(k) = CASE None2 -> rows[k] [] Several -> one [] OTHER -> other
    <3> HIDE DEF one
    <3> QED OBVIOUS
  <2>2. CASE None2
    <3> HIDE DEF row, None2, Several, one, other
    <3>1. row(k) = rows[k]
      BY <2>2, <2>4, <2>5
    <3> QED BY <2>1, <3>1
  <2>3. CASE ~None2
    <3>1. s \in here
      BY <2>3
    <3>2. s \in sky /\ s.type = k[1] /\ s.region = k[2]
      BY <2>3, <3>1 DEF Named, Database
    <3>3. row(k) = one \/ row(k) = other
      <4> HIDE DEF row, None2, Several, one, other
      <4> QED BY <2>3, <2>5
    <3> HIDE DEF s, row
    <3>4. Right(k, Placed(rows[k], s.place, Minimal))
      BY <2>1, <3>2, PlacedIsRight
    <3>5. Right(k, [rows[k] EXCEPT !.ambiguous = TRUE])
      BY <2>1, FieldIsRight
    <3> QED BY <3>3, <3>4, <3>5
  <2> QED BY <2>2, <2>3
<1> HIDE DEF row
<1> QED BY <1>1, <1>2 DEF RowsAreRight

LEMMA ListIsRight ==
  ASSUME NEW rows, RowsAreRight(rows), NEW kind, NEW region
  PROVE  RowsAreRight(ListIn(rows, kind, region))
<1> DEFINE stored == StoreCandidates(rows, kind)
<1>1. RowsAreRight(stored)
  BY CandidatesAreRight
<1> HIDE DEF stored
<1>2. ListIn(rows, kind, region) = [k \in Keys |-> IF region \in {AnyRegion, k[2]} THEN stored[k] ELSE rows[k]]
  <2>1. DOMAIN rows = Keys
    BY DEF RowsAreRight
  <2> QED BY <2>1 DEF ListIn, stored
<1> QED BY <1>1, <1>2 DEF RowsAreRight

LEMMA SameSky ==
  ASSUME UNCHANGED sky, StationInv
  PROVE  /\ \A kind : Database(kind)' = Database(kind)
         /\ \A kind, region : Named(kind, region)' = Named(kind, region)
         /\ UNCHANGED navaids => NavaidsAreSo'
         /\ UNCHANGED <<fixes, airways>> => FixesAreSo'
         /\ UNCHANGED missing => AbsencesAreSo'
         /\ \A rows : navaids' = rows /\ RowsAreRight(rows) => NavaidsAreSo'
         /\ asking' = NotAsking => IsCall(asking')
         /\ asking' = asking => IsCall(asking')
<1>1. \A kind : Database(kind)' = Database(kind)
  BY DEF Database
<1>2. \A kind, region : Named(kind, region)' = Named(kind, region)
  BY <1>1 DEF Named
<1>3. \A k, row : Right(k, row)' = Right(k, row)
  BY DEF Right
<1>4. \A f, legs : There(f, legs)' = There(f, legs)
  BY <1>1 DEF There
<1>5. UNCHANGED navaids => NavaidsAreSo'
  BY <1>3 DEF StationInv, NavaidsAreSo
<1>6. UNCHANGED <<fixes, airways>> => FixesAreSo'
  BY <1>4 DEF StationInv, FixesAreSo
<1>7. UNCHANGED missing => AbsencesAreSo'
  BY <1>2 DEF StationInv, AbsencesAreSo
<1>8. \A rows : navaids' = rows /\ RowsAreRight(rows) => NavaidsAreSo'
  BY <1>3 DEF RowsAreRight, NavaidsAreSo
<1>9. IsCall(NotAsking)
  BY DEF NotAsking, Kinds, IsCall
<1> QED BY <1>1, <1>2, <1>5, <1>6, <1>7, <1>8, <1>9 DEF StationInv

LEMMA FixKeeps ==
  ASSUME StationInv,
         FixListed \/ (\E s \in Stations, sound \in BOOLEAN : FixFetched(s, sound))
         \/ (\E code \in 0..2 : FixRefused(code))
  PROVE  StationInv'
<1>1. UNCHANGED <<sky, navaids>> /\ asking' = NotAsking
  BY DEF FixListed, FixFetched, FixRefused, AskOver
<1>2. NavaidsAreSo' /\ IsCall(asking')
  BY <1>1, SameSky
<1>3. \A f, legs : There(f, legs)' = There(f, legs)
  <2>1. \A kind : Database(kind)' = Database(kind)
    BY <1>1, SameSky
  <2> QED BY <2>1 DEF There
<1>4. \A f, legs, more : There(f, legs) => There(f, legs \cup more)
  BY DEF There
<1>5. \A f \in fixes : There(f, airways)
  BY DEF StationInv, FixesAreSo
<1>6. CASE FixListed
  <2>1. ASSUME NEW f \in fixes' PROVE There(f, airways)
    <3>1. CASE f \in fixes
      BY <3>1, <1>5
    <3>2. CASE f \notin fixes
      <4>1. PICK s \in Named("W", asking.region) : s.type = "W" /\ f = FixRow(s, "unknown", Minimal)
        BY <1>6, <3>2 DEF FixListed, CandidateFixes
      <4>2. s \in Database("W")
        BY <4>1 DEF Named
      <4>3. IsFix(f) /\ f.region = s.region /\ f.place = s.place /\ f.state = "unknown"
        BY <4>1 DEF IsFix, FixRow
      <4> QED BY <4>2, <4>3 DEF There
    <3> QED BY <3>1, <3>2
  <2>2. airways' = airways /\ missing' = missing
    BY <1>6 DEF FixListed
  <2>3. FixesAreSo'
    BY <2>1, <2>2, <1>3 DEF FixesAreSo
  <2>4. AbsencesAreSo'
    BY <2>2, <1>1, SameSky
  <2> QED BY <1>2, <2>3, <2>4 DEF StationInv
<1>7. ASSUME NEW s \in Stations, NEW sound \in BOOLEAN, FixFetched(s, sound) PROVE StationInv'
  <2>1. AbsencesAreSo'
    BY <1>1, <1>7, SameSky DEF FixFetched
  <2>2. CASE sound /\ IsTheStation(s)
    <3>1. s \in Database("W")
      BY <1>7 DEF FixFetched, MayAnswer, Named
    <3> DEFINE row == FixRow(s, "fetched", Facility)
    <3>2. IsFix(row) /\ row.region = s.region /\ row.place = s.place
      BY DEF IsFix, FixRow
    <3> HIDE DEF row
    <3>3. fixes' \subseteq fixes \cup {row} /\ airways' = airways \cup s.legs
      BY <1>7, <2>2 DEF FixFetched, row
    <3>4. There(row, airways')
      BY <3>1, <3>2, <3>3 DEF There
    <3>5. \A f \in fixes' : There(f, airways')
      BY <3>3, <3>4, <1>4, <1>5
    <3>6. FixesAreSo'
      BY <3>5, <1>3 DEF FixesAreSo
    <3> QED BY <1>2, <2>1, <3>6 DEF StationInv
  <2>3. CASE ~(sound /\ IsTheStation(s))
    <3>1. FixesAreSo'
      BY <1>1, <1>7, <2>3, SameSky DEF FixFetched
    <3> QED BY <1>2, <2>1, <3>1 DEF StationInv
  <2> QED BY <2>2, <2>3
<1>8. ASSUME NEW code \in 0..2, FixRefused(code) PROVE StationInv'
  <2>1. CASE IsMissing(code)
    <3>1. Named("W", asking.region) = {} /\ asking.kind = "W"
      BY <1>8, <2>1 DEF FixRefused, IsMissing, MayRefuse, FixCall
    <3>2. \A absence \in missing' : Named(absence.kind, absence.region) = {}
      BY <1>8, <2>1, <3>1 DEF FixRefused, Absence, StationInv, AbsencesAreSo
    <3>3. AbsencesAreSo'
      BY <1>1, <3>2, SameSky DEF AbsencesAreSo
    <3>4. ASSUME NEW f \in fixes' PROVE There(f, airways)
      <4>1. PICK g \in fixes : f = IF g.region = asking.region THEN [g EXCEPT !.state = "absent"] ELSE g
        BY <1>8, <2>1 DEF FixRefused
      <4>2. There(g, airways)
        BY <1>5
      <4>3. CASE g.region # asking.region
        BY <4>1, <4>2, <4>3
      <4>4. CASE g.region = asking.region
        <5>1. f = [g EXCEPT !.state = "absent"]
          BY <4>1, <4>4
        <5>2. IsFix(f) /\ f.region = g.region /\ f.place = g.place /\ f.state = "absent"
          BY <5>1, <4>2 DEF IsFix, There
        <5> QED BY <5>2, <4>2 DEF There
      <4> QED BY <4>3, <4>4
    <3>5. FixesAreSo'
      BY <1>3, <1>8, <3>4 DEF FixesAreSo, FixRefused
    <3> QED BY <1>2, <3>3, <3>5 DEF StationInv
  <2>2. CASE ~IsMissing(code)
    <3>1. FixesAreSo' /\ AbsencesAreSo'
      BY <1>1, <1>8, <2>2, SameSky DEF FixRefused
    <3> QED BY <1>2, <3>1 DEF StationInv
  <2> QED BY <2>1, <2>2
<1> QED BY <1>6, <1>7, <1>8

LEMMA CallField ==
  ASSUME NEW a, IsCall(a), NEW v
  PROVE  /\ IsCall([a EXCEPT !.call = v]) /\ IsCall([a EXCEPT !.region = v])
         /\ IsCall([a EXCEPT !.ils = v])
<1>1. DOMAIN a = {"call", "kind", "region", "ils"}
  BY DEF IsCall
<1>2. IsCall([a EXCEPT !.call = v])
  BY <1>1 DEF IsCall
<1>3. IsCall([a EXCEPT !.region = v])
  BY <1>1 DEF IsCall
<1>4. IsCall([a EXCEPT !.ils = v])
  BY <1>1 DEF IsCall
<1> QED BY <1>2, <1>3, <1>4

LEMMA CallFollows ==
  ASSUME IsCall(asking)
  PROVE  \A rows, region, done, ils : IsCall(NextCall(rows, region, done, ils))
<1>1. TAKE rows, region, done, ils
<1> DEFINE two == [asking EXCEPT !.call = "second"]
           third == [asking EXCEPT !.call = "third"]
           three == [third EXCEPT !.region = region]
<1>2. IsCall(two) /\ IsCall(third)
  BY CallField
<1> HIDE DEF third
<1>3. IsCall(three)
  BY <1>2, CallField
<1> HIDE DEF two, three
<1>4. IsCall([two EXCEPT !.ils = ils]) /\ IsCall([three EXCEPT !.ils = ils])
  BY <1>2, <1>3, CallField
<1>5. IsCall(NotAsking)
  BY DEF IsCall, NotAsking, Kinds
<1>6. NextCall(rows, region, done, ils) \in {NotAsking, [two EXCEPT !.ils = ils], [three EXCEPT !.ils = ils]}
  BY DEF NextCall, two, three, third
<1> QED BY <1>4, <1>5, <1>6

LEMMA NavaidKeeps ==
  ASSUME StationInv,
         \/ NavaidListed
         \/ \E s \in Stations, sound \in BOOLEAN : NavaidFetched(s, sound) \/ ThirdAnswered(s, sound)
         \/ \E code \in 0..2 : NavaidRefused(code)
         \/ \E listed \in BOOLEAN : SecondAnswered(listed)
  PROVE  StationInv'
<1>0. /\ UNCHANGED <<sky, fixes, airways>>
      /\ asking' = NotAsking \/ \E rows, region, done, ils : asking' = NextCall(rows, region, done, ils)
  BY DEF NavaidListed, NavaidFetched, ThirdAnswered, NavaidRefused, SecondAnswered, AskOver
<1>1. IsCall(asking')
  BY <1>0, SameSky, CallFollows DEF StationInv
<1>2. FixesAreSo'
  BY <1>0, SameSky
<1>3. ASSUME UNCHANGED missing, NEW rows, navaids' = rows, RowsAreRight(rows) PROVE StationInv'
  <2>1. NavaidsAreSo' /\ AbsencesAreSo'
    BY <1>0, <1>3, SameSky
  <2> QED BY <1>1, <1>2, <2>1 DEF StationInv
<1>4. RowsAreRight(navaids)
  BY DEF StationInv, NavaidsAreSo, RowsAreRight
<1>5. ASSUME NEW key, NEW row, key \in Keys => Right(key, row)
      PROVE  RowsAreRight([navaids EXCEPT ![key] = row])
  BY <1>4, <1>5 DEF RowsAreRight
<1>6. CASE NavaidListed
  <2>1. navaids' = ListIn(navaids, asking.kind, asking.region) /\ UNCHANGED missing
    BY <1>6 DEF NavaidListed
  <2>2. RowsAreRight(ListIn(navaids, asking.kind, asking.region))
    BY <1>4, ListIsRight
  <2> QED BY <1>3, <2>1, <2>2
<1>7. ASSUME NEW s \in Stations, NEW sound \in BOOLEAN, NavaidFetched(s, sound) PROVE StationInv'
  <2> DEFINE key == <<asking.kind, IF asking.region = AnyRegion THEN s.region ELSE asking.region>>
             row == Detailed(navaids[key], s)
             rows == [navaids EXCEPT ![key] = row]
  <2>1. UNCHANGED missing /\ (UNCHANGED navaids \/ navaids' = rows)
    BY <1>7 DEF NavaidFetched
  <2>2. s \in sky /\ s.type = key[1] /\ s.region = key[2]
    <3>1. asking.kind # "W" /\ s \in MayAnswer(asking.kind, asking.region)
      BY <1>7 DEF NavaidFetched, NavaidCall
    <3>2. s \in Named(asking.kind, asking.region)
      BY <3>1 DEF MayAnswer
    <3>3. s \in sky /\ s.type = asking.kind /\ asking.region \in {AnyRegion, s.region}
      BY <3>1, <3>2 DEF Named, Database
    <3> QED BY <3>3
  <2>3. ASSUME key \in Keys PROVE Right(key, row)
    <3>1. Right(key, navaids[key])
      BY <2>3, <1>4 DEF RowsAreRight
    <3>2. Right(key, Placed(navaids[key], s.place, Facility))
      BY <2>2, <3>1, PlacedIsRight
    <3> HIDE DEF key
    <3> QED BY <3>1, <3>2, FieldIsRight DEF Detailed
  <2> HIDE DEF key, row
  <2>4. RowsAreRight(rows)
    BY <2>3, <1>5
  <2> QED BY <1>3, <1>4, <2>1, <2>4
<1>8. ASSUME NEW s \in Stations, NEW sound \in BOOLEAN, ThirdAnswered(s, sound) PROVE StationInv'
  <2> DEFINE key == <<"V", asking.region>>
             row == Placed(navaids[key], s.place, Facility)
             rows == [navaids EXCEPT ![key] = row]
  <2>1. UNCHANGED missing /\ (UNCHANGED navaids \/ (navaids' = rows /\ IsTheVor(s)))
    BY <1>8 DEF ThirdAnswered
  <2>2. CASE navaids' = rows /\ IsTheVor(s)
    <3>1. s \in sky
      BY <1>8 DEF ThirdAnswered, MayAnswer, Named, Database
    <3>2. s.type = key[1] /\ s.region = key[2]
      BY <2>2 DEF IsTheVor
    <3>3. ASSUME key \in Keys PROVE Right(key, row)
      BY <3>1, <3>2, <3>3, <1>4, PlacedIsRight DEF RowsAreRight
    <3> HIDE DEF key, row
    <3>4. RowsAreRight(rows)
      BY <3>3, <1>5
    <3> QED BY <1>3, <2>1, <2>2, <3>4
  <2>3. CASE UNCHANGED navaids
    BY <1>3, <1>4, <2>1, <2>3
  <2> QED BY <2>1, <2>2, <2>3
<1>9. ASSUME NEW listed \in BOOLEAN, SecondAnswered(listed) PROVE StationInv'
  <2>1. UNCHANGED missing /\ (UNCHANGED navaids \/ navaids' = StoreCandidates(navaids, "V"))
    BY <1>9 DEF SecondAnswered
  <2>2. RowsAreRight(StoreCandidates(navaids, "V"))
    BY <1>4, CandidatesAreRight
  <2> QED BY <1>3, <1>4, <2>1, <2>2
<1>10. ASSUME NEW code \in 0..2, NavaidRefused(code) PROVE StationInv'
  <2> DEFINE key == <<asking.kind, asking.region>>
             row == [navaids[key] EXCEPT !.detail = "absent"]
             rows == [navaids EXCEPT ![key] = row]
  <2>1. UNCHANGED navaids \/ navaids' = rows
    BY <1>10 DEF NavaidRefused
  <2>2. \A absence \in missing' : Named(absence.kind, absence.region) = {}
    BY <1>10 DEF NavaidRefused, IsMissing, MayRefuse, Absence, StationInv, AbsencesAreSo
  <2>3. AbsencesAreSo'
    BY <1>0, <2>2, SameSky DEF AbsencesAreSo
  <2>4. key \in Keys => Right(key, row)
    BY <1>4, FieldIsRight DEF RowsAreRight
  <2> HIDE DEF key, row
  <2>5. RowsAreRight(rows)
    BY <2>4, <1>5
  <2>6. NavaidsAreSo'
    BY <1>0, <1>4, <2>1, <2>5, SameSky
  <2> QED BY <1>1, <1>2, <2>3, <2>6 DEF StationInv
<1> QED BY <1>6, <1>7, <1>8, <1>9, <1>10

\* Whatever is asked for, in any order, and however the simulator answers: a
\* row is placed where a station of its kind and region is, a fix that counts as
\* fetched has its airways, and a recorded absence is one (navdata-fixes.ts and
\* navdata-navaids.ts: recordFix, recordNavaid and their candidates).
THEOREM StoredIsAlwaysSo == SpecStations => []StoredIsSo
<1>1. InitStations => StationInv
  <2> SUFFICES ASSUME InitStations PROVE StationInv
    OBVIOUS
  <2>1. IsRow(NoRow) /\ NoRow.place = Nowhere
    BY DEF IsRow, NoRow
  <2>2. NavaidsAreSo
    BY <2>1 DEF InitStations, NavaidsAreSo, Keys, Right
  <2> QED BY <2>2 DEF InitStations, StationInv, FixesAreSo, AbsencesAreSo, NotAsking, Kinds, IsCall
<1>2. StationInv /\ [NextStation]_stationVars => StationInv'
  <2> SUFFICES ASSUME StationInv, [NextStation]_stationVars PROVE StationInv'
    OBVIOUS
  <2>1. CASE UNCHANGED <<sky, navaids, fixes, airways, missing>> /\ IsCall(asking')
    BY <2>1, SameSky DEF StationInv
  <2>2. ASSUME NEW kind \in Kinds, NEW region \in Regions \cup {AnyRegion}, AskFor(kind, region)
        PROVE  StationInv'
    BY <2>1, <2>2 DEF AskFor, IsCall
  <2>3. CASE Dropped \/ UNCHANGED stationVars
    BY <2>1, <2>3, SameSky DEF Dropped, AskOver, stationVars
  <2> QED BY <2>2, <2>3, FixKeeps, NavaidKeeps DEF NextStation
<1> QED BY <1>1, <1>2, StationsAreSo, PTL DEF SpecStations

-----------------------------------------------------------------------------
(* The slots, and the rows of an attempt.                                  *)

InList(w, r) == \E i \in DOMAIN w : w[i] = r
IsInjectiveList(w) == \A i, j \in DOMAIN w : w[i] = w[j] => i = j

LEMMA LeastOf ==
  ASSUME NEW T \in SUBSET Nat, T # {}
  PROVE  \E n \in T : \A m \in T : n <= m
<1> DEFINE R == {pair \in Nat \X Nat : pair[1] < pair[2]}
<1>1. IsWellFoundedOn(R, Nat)
  BY NatLessThanWellFounded, Zenon DEF OpToRel
<1>2. \A m, n \in Nat : m < n => <<m, n>> \in R
  OBVIOUS
<1>3. T \subseteq Nat
  OBVIOUS
<1> HIDE DEF R
<1>4. PICK n \in T : \A m \in T : ~(<<m, n>> \in R)
  BY <1>1, <1>3, WFMin
<1>5. ASSUME NEW m \in T PROVE n <= m
  <2>1. m \in Nat /\ n \in Nat
    OBVIOUS
  <2>2. ~(m < n)
    BY <1>2, <1>4, <2>1, Zenon
  <2> QED BY <2>1, <2>2
<1> QED BY <1>5

\* The waiter at i goes before the one at j.
Before(w, i, j) ==
  \/ Priority[w[i]] > Priority[w[j]]
  \/ Priority[w[i]] = Priority[w[j]] /\ i < j

LEMMA SomebodyLeads ==
  ASSUME NEW w \in Seq(Requests), w # <<>>
  PROVE  \E i \in DOMAIN w : \A j \in DOMAIN w \ {i} : Before(w, i, j)
<1> DEFINE Leads(i, n) == i \in 1..n /\ \A j \in 1..n \ {i} : Before(w, i, j)
           Bad == {n \in 1..Len(w) : ~\E i \in 1..n : Leads(i, n)}
<1>1. DOMAIN w = 1..Len(w) /\ Len(w) \in Nat /\ Len(w) # 0
  OBVIOUS
<1>2. \A i \in 1..Len(w) : Priority[w[i]] \in Int
  BY SessionAssumption
<1>3. Bad = {}
  <2>1. SUFFICES ASSUME Bad # {} PROVE FALSE
    OBVIOUS
  <2>2. PICK n \in Bad : \A m \in Bad : n <= m
    <3>1. Bad \in SUBSET Nat
      BY <1>1
    <3> HIDE DEF Bad
    <3> QED BY <2>1, <3>1, LeastOf
  <2>3. CASE n = 1
    <3>1. Leads(1, 1)
      OBVIOUS
    <3> QED BY <2>3, <3>1
  <2>4. CASE n # 1
    <3>0. n \in 1..Len(w)
      OBVIOUS
    <3>a. n - 1 \in 1..Len(w)
      BY <1>1, <2>4, <3>0
    <3>1. n - 1 \notin Bad
      <4> HIDE DEF Bad
      <4> QED BY <1>1, <2>2, <3>0
    <3>2. PICK i \in 1..n - 1 : Leads(i, n - 1)
      BY <3>a, <3>1
    <3>3. i \in 1..n /\ n \in 1..n /\ \A j \in 1..n : j = n \/ j \in 1..n - 1
      BY <1>1, <3>0, <3>2
    <3>6. n \in 1..Len(w) /\ i \in 1..Len(w) /\ i < n
      BY <1>1, <3>0, <3>2
    <3>4. CASE Before(w, i, n)
      <4>1. Leads(i, n)
        BY <3>2, <3>3, <3>4
      <4> QED BY <3>3, <4>1
    <3>5. CASE ~Before(w, i, n)
      <4>1. Priority[w[n]] > Priority[w[i]]
        <5> DEFINE x == Priority[w[n]] y == Priority[w[i]]
        <5>1. x \in Int /\ y \in Int
          BY <1>2, <3>6
        <5>2. ~(y > x) /\ ~(y = x)
          BY <3>5, <3>6 DEF Before
        <5> HIDE DEF x, y
        <5>3. x > y
          BY <5>1, <5>2
        <5> QED BY <5>3 DEF x, y
      <4>2. ASSUME NEW j \in 1..n \ {n} PROVE Before(w, n, j)
        <5>1. j = i \/ Before(w, i, j)
          BY <3>2, <3>3
        <5> DEFINE x == Priority[w[n]] y == Priority[w[i]] z == Priority[w[j]]
        <5>2. j \in 1..Len(w)
          BY <1>1, <3>6
        <5>3. x \in Int /\ y \in Int /\ z \in Int /\ x > y
          BY <1>2, <3>6, <4>1, <5>2
        <5>4. y = z \/ y > z
          BY <5>1 DEF Before
        <5> HIDE DEF x, y, z
        <5>5. x > z
          BY <5>3, <5>4
        <5> QED BY <5>5 DEF x, z, Before
      <4>3. Leads(n, n)
        BY <3>3, <4>2
      <4> QED BY <3>3, <4>3
    <3> QED BY <3>4, <3>5
  <2> QED BY <2>3, <2>4
<1>4. PICK i \in 1..Len(w) : Leads(i, Len(w))
  BY <1>1, <1>3
<1> QED BY <1>1, <1>4

LEMMA LeaderWaits ==
  ASSUME NEW s, s.waiting \in Seq(Requests), s.waiting # <<>>
  PROVE  Leader(s) \in DOMAIN s.waiting
<1> DEFINE w == s.waiting
<1>1. \E i \in DOMAIN w : \A j \in DOMAIN w \ {i} : Before(w, i, j)
  BY SomebodyLeads
<1> QED BY <1>1 DEF Leader, Before

LEMMA PlaceInSecond ==
  ASSUME NEW m \in Nat, NEW i \in 1..m, NEW k \in 1..m - 1, ~(k < i), NEW p, p = i - 1, NEW q, q = m - i
  PROVE  k - p \in 1..m - i /\ ~(k <= p) /\ k \in 1..p + q /\ (k - p) + i = k + 1
  OBVIOUS

\* The list without its place i.
LEMMA OthersWait ==
  ASSUME NEW w \in Seq(Requests), NEW i \in DOMAIN w, IsInjectiveList(w)
  PROVE  /\ Without(w, i) \in Seq(Requests) /\ IsInjectiveList(Without(w, i))
         /\ \A r : InList(Without(w, i), r) <=> InList(w, r) /\ r # w[i]
<1> DEFINE a == SubSeq(w, 1, i - 1)
           b == SubSeq(w, i + 1, Len(w))
           v == a \o b
<1>1. i \in 1..Len(w) /\ Len(w) \in Nat /\ DOMAIN w = 1..Len(w)
  OBVIOUS
<1>2. a \in Seq(Requests) /\ Len(a) = i - 1 /\ \A k \in 1..i - 1 : a[k] = w[k]
  BY <1>1
<1>3. b \in Seq(Requests) /\ Len(b) = Len(w) - i /\ \A k \in 1..Len(w) - i : b[k] = w[k + i]
  BY <1>1
<1> HIDE DEF a, b
<1>4. /\ v \in Seq(Requests) /\ Len(v) = Len(w) - 1
      /\ \A k \in 1..Len(w) - 1 : v[k] = IF k < i THEN w[k] ELSE w[k + 1]
  <2>0. a \in Seq(Requests) /\ b \in Seq(Requests) /\ Len(a) = i - 1 /\ Len(b) = Len(w) - i
    BY <1>2, <1>3
  <2>1. v \in Seq(Requests) /\ Len(v) = Len(a) + Len(b)
    BY <2>0, ConcatProperties
  <2>2. \A k \in 1..Len(a) + Len(b) : v[k] = IF k <= Len(a) THEN a[k] ELSE b[k - Len(a)]
    BY <2>0, ConcatProperties
  <2>3. Len(a) + Len(b) = Len(w) - 1
    BY <1>1, <1>2, <1>3
  <2> HIDE DEF v
  <2>4. ASSUME NEW k \in 1..Len(w) - 1 PROVE v[k] = IF k < i THEN w[k] ELSE w[k + 1]
    <3>1. CASE k < i
      <4>1. k \in 1..i - 1 /\ k <= Len(a) /\ k \in 1..Len(a) + Len(b)
        BY <1>1, <1>2, <2>3, <3>1
      <4> QED BY <1>2, <2>2, <3>1, <4>1
    <3>2. CASE ~(k < i)
      <4>1. /\ k - Len(a) \in 1..Len(w) - i /\ ~(k <= Len(a)) /\ k \in 1..Len(a) + Len(b)
            /\ (k - Len(a)) + i = k + 1
        BY <1>1, <2>0, <3>2, PlaceInSecond
      <4>2. v[k] = b[k - Len(a)]
        BY <2>2, <4>1
      <4>3. b[k - Len(a)] = w[(k - Len(a)) + i]
        BY <1>3, <4>1
      <4> QED BY <3>2, <4>1, <4>2, <4>3
    <3> QED BY <3>1, <3>2
  <2> QED BY <2>1, <2>3, <2>4
<1>5. v = Without(w, i)
  BY DEF a, b, Without
<1> HIDE DEF v
<1>6. DOMAIN v = 1..Len(w) - 1
  BY <1>4, <1>1
<1>7. IsInjectiveList(v)
  BY <1>1, <1>4, <1>6 DEF IsInjectiveList
<1>8. ASSUME NEW r, InList(v, r) PROVE InList(w, r) /\ r # w[i]
  <2>1. PICK k \in 1..Len(w) - 1 : v[k] = r
    BY <1>6, <1>8 DEF InList
  <2>2. CASE k < i
    BY <1>1, <1>4, <2>1, <2>2 DEF InList, IsInjectiveList
  <2>3. CASE ~(k < i)
    <3>1. k + 1 \in 1..Len(w) /\ k + 1 # i /\ r = w[k + 1]
      BY <1>1, <1>4, <2>1, <2>3
    <3> QED BY <1>1, <3>1 DEF InList, IsInjectiveList
  <2> QED BY <2>2, <2>3
<1>9. ASSUME NEW r, InList(w, r), r # w[i] PROVE InList(v, r)
  <2>1. PICK k \in 1..Len(w) : w[k] = r
    BY <1>1, <1>9 DEF InList
  <2>2. CASE k < i
    <3>1. k \in 1..Len(w) - 1 /\ v[k] = r
      BY <1>1, <1>4, <2>1, <2>2
    <3> QED BY <1>6, <3>1 DEF InList
  <2>3. CASE ~(k < i)
    <3>1. k - 1 \in 1..Len(w) - 1 /\ ~(k - 1 < i) /\ v[k - 1] = r
      BY <1>1, <1>4, <1>9, <2>1, <2>3
    <3> QED BY <1>6, <3>1 DEF InList
  <2> QED BY <2>2, <2>3
<1> QED BY <1>4, <1>5, <1>7, <1>8, <1>9

-----------------------------------------------------------------------------
(* Requests and their slots.                                               *)

Stages == {"idle", "called", "waiting", "gate", "out", "done"}
Tries == 0..2

Req(at, n, rows, messages, outcome) ==
  [at |-> at, n |-> n, rows |-> rows, messages |-> messages, outcome |-> outcome]

IsReq(q) == q = Req(q.at, q.n, q.rows, q.messages, q.outcome) /\ q.at \in Stages /\ q.n \in Tries

\* The records the actions make of a request.
Moved(q, at) == [q EXCEPT !.at = at]
Abandoned(q, at, outcome) == [q EXCEPT !.at = at, !.outcome = outcome]
Finished(q, at, outcome, messages) == [q EXCEPT !.at = at, !.outcome = outcome, !.messages = messages]
Begun(q, at, n, rows, messages) == [q EXCEPT !.at = at, !.n = n, !.rows = rows, !.messages = messages]
Buffered(q, rows, messages) == [q EXCEPT !.rows = rows, !.messages = messages]

LEMMA ReqFields ==
  ASSUME NEW q, IsReq(q), NEW at, NEW n, NEW rows, NEW messages, NEW outcome
  PROVE  /\ Moved(q, at) = Req(at, q.n, q.rows, q.messages, q.outcome)
         /\ Abandoned(q, at, outcome) = Req(at, q.n, q.rows, q.messages, outcome)
         /\ Finished(q, at, outcome, messages) = Req(at, q.n, q.rows, messages, outcome)
         /\ Begun(q, at, n, rows, messages) = Req(at, n, rows, messages, q.outcome)
         /\ Buffered(q, rows, messages) = Req(q.at, q.n, rows, messages, q.outcome)
<1> DEFINE a == q.at b == q.n c == q.rows d == q.messages e == q.outcome
           q1 == Req(at, b, c, d, e)
           q2 == Req(at, b, c, d, outcome)
           q3 == Req(at, n, c, d, e)
           q4 == Req(at, n, rows, d, e)
           q5 == Req(a, b, rows, d, e)
<1>1. q = Req(a, b, c, d, e)
  BY DEF IsReq
<1> HIDE DEF a, b, c, d, e
<1>2. [q EXCEPT !.at = at] = q1
  BY <1>1 DEF Req
<1>3. [q1 EXCEPT !.outcome = outcome] = q2
  BY DEF Req
<1>4. [q2 EXCEPT !.messages = messages] = Req(at, b, c, messages, outcome)
  BY DEF Req
<1>5. [q1 EXCEPT !.n = n] = q3
  BY DEF Req
<1>6. [q3 EXCEPT !.rows = rows] = q4
  BY DEF Req
<1>7. [q4 EXCEPT !.messages = messages] = Req(at, n, rows, messages, e)
  BY DEF Req
<1>8. [q EXCEPT !.rows = rows] = q5
  BY <1>1 DEF Req
<1>9. [q5 EXCEPT !.messages = messages] = Req(a, b, rows, messages, e)
  BY DEF Req
<1> HIDE DEF q1, q2, q3, q4, q5
<1>10. [q EXCEPT !.at = at, !.outcome = outcome] = q2
  BY <1>2, <1>3
<1>11. [q EXCEPT !.at = at, !.outcome = outcome, !.messages = messages] = Req(at, b, c, messages, outcome)
  BY <1>4, <1>10
<1>12. [q EXCEPT !.at = at, !.n = n, !.rows = rows, !.messages = messages] = Req(at, n, rows, messages, e)
  BY <1>2, <1>5, <1>6, <1>7
<1>13. [q EXCEPT !.rows = rows, !.messages = messages] = Req(a, b, rows, messages, e)
  BY <1>8, <1>9
<1> QED
  BY <1>2, <1>10, <1>11, <1>12, <1>13 DEF Moved, Abandoned, Finished, Begun, Buffered, a, b, c, d, e, q1, q2

LEMMA ReqParts ==
  ASSUME NEW a, NEW b, NEW c, NEW d, NEW e
  PROVE  LET q == Req(a, b, c, d, e) IN
         /\ q = Req(q.at, q.n, q.rows, q.messages, q.outcome)
         /\ q.at = a /\ q.n = b /\ q.rows = c /\ q.messages = d /\ q.outcome = e
  BY DEF Req

Holding == {"gate", "out"}
HoldersOf(q) == {r \in Requests : q[r].at \in Holding}

\* The slots are those of the requests q; once the session is closed they are no
\* longer counted.
SlotsHold(q, t, w, c) ==
  /\ t \in Nat /\ w \in Seq(Requests)
  /\ t <= Limit
  /\ w # <<>> => t = Limit
  /\ IsInjectiveList(w)
  /\ \A r \in Requests : q[r].at = "waiting" <=> InList(w, r)
  /\ ~c => IsFiniteSet(HoldersOf(q)) /\ t = Cardinality(HoldersOf(q))

SlotsSo(q, s, c) ==
  s = [taken |-> s.taken, waiting |-> s.waiting] /\ SlotsHold(q, s.taken, s.waiting, c)

LEMMA SlotsAre ==
  ASSUME NEW q, NEW c, NEW t, NEW w, NEW s, s = [taken |-> t, waiting |-> w], SlotsHold(q, t, w, c)
  PROVE  SlotsSo(q, s, c)
<1>1. s.taken = t /\ s.waiting = w
  OBVIOUS
<1> QED BY <1>1 DEF SlotsSo

\* A request moves, but neither to or from the waiters nor the holders.
LEMMA StaysSo ==
  ASSUME NEW q, NEW s, NEW c, SlotsSo(q, s, c), NEW p,
         \A r \in Requests : /\ p[r].at = "waiting" <=> q[r].at = "waiting"
                             /\ p[r].at \in Holding <=> q[r].at \in Holding
  PROVE  SlotsSo(p, s, c)
<1>1. HoldersOf(p) = HoldersOf(q)
  BY DEF HoldersOf
<1> QED BY <1>1 DEF SlotsSo, SlotsHold

\* The holder r ends: its slot is given back, or handed to the leader.
LEMMA ReleaseIsSo ==
  ASSUME NEW q, NEW s, NEW c, SlotsSo(q, s, c), NEW r \in HoldersOf(q), NEW p,
         p[r].at = "done",
         \A x \in Requests \ {r} :
           p[x].at = IF s.waiting # <<>> /\ x = s.waiting[Leader(s)] THEN "gate" ELSE q[x].at
  PROVE  SlotsSo(p, Released(s), c)
<1> DEFINE w == s.waiting t == s.taken i == Leader(s) lead == w[i]
           left == HoldersOf(q) \ {r}
<1>1. /\ s = [taken |-> t, waiting |-> w] /\ t \in Nat /\ w \in Seq(Requests) /\ t <= Limit
      /\ w # <<>> => t = Limit
      /\ IsInjectiveList(w) /\ \A x \in Requests : q[x].at = "waiting" <=> InList(w, x)
      /\ Limit \in Nat \ {0}
  BY SessionAssumption DEF SlotsSo, SlotsHold
<1>2. ~c => /\ IsFiniteSet(left) /\ Cardinality(left) = t - 1 /\ t # 0
            /\ IsFiniteSet(HoldersOf(q)) /\ t = Cardinality(HoldersOf(q))
  <2>1. ASSUME ~c PROVE IsFiniteSet(HoldersOf(q)) /\ t = Cardinality(HoldersOf(q))
    BY <2>1 DEF SlotsSo, SlotsHold
  <2>2. ASSUME ~c PROVE t # 0
    BY <2>1, <2>2, FS_EmptySet
  <2>3. ASSUME ~c PROVE IsFiniteSet(left) /\ Cardinality(left) = t - 1
    BY <2>1, <2>3, FS_RemoveElement
  <2> QED BY <2>1, <2>2, <2>3
<1>3. r \in Requests /\ q[r].at \in Holding /\ ~InList(w, r)
  BY <1>1 DEF HoldersOf, Holding
<1>4. CASE w = <<>>
  <2> DEFINE t2 == IF t > 0 THEN t - 1 ELSE 0
  <2>1. Released(s) = [taken |-> t2, waiting |-> w]
    <3> HIDE DEF w, t
    <3>1. [s EXCEPT !.taken = IF t > 0 THEN t - 1 ELSE 0] = [taken |-> IF t > 0 THEN t - 1 ELSE 0, waiting |-> w]
      BY <1>1
    <3>2. s.waiting = <<>> /\ s.taken = t
      BY <1>4 DEF w, t
    <3> QED BY <3>1, <3>2 DEF Released
  <2>2. HoldersOf(p) = left
    BY <1>3, <1>4 DEF HoldersOf, Holding
  <2>3. t2 \in Nat /\ t2 <= Limit /\ (~c => t2 = Cardinality(left))
    BY <1>1, <1>2
  <2>4. \A x \in Requests : p[x].at = "waiting" <=> InList(w, x)
    BY <1>1, <1>3, <1>4
  <2> HIDE DEF t2, w, t, left
  <2>9. SlotsHold(p, t2, w, c)
    BY <1>1, <1>2, <1>4, <2>2, <2>3, <2>4 DEF SlotsHold
  <2> QED BY <2>1, <2>9, SlotsAre
<1>5. CASE w # <<>>
  <2>1. i \in DOMAIN w
    BY <1>1, <1>5, LeaderWaits
  <2> DEFINE v == Without(w, i)
  <2>2. v \in Seq(Requests) /\ IsInjectiveList(v) /\ \A x : InList(v, x) <=> InList(w, x) /\ x # lead
    BY <1>1, <2>1, OthersWait
  <2>3. Released(s) = [taken |-> t, waiting |-> v]
    <3> HIDE DEF w, t, i
    <3>1. [s EXCEPT !.waiting = Without(w, i)] = [taken |-> t, waiting |-> Without(w, i)]
      BY <1>1
    <3>2. s.waiting = w /\ Leader(s) = i
      BY DEF w, i
    <3> QED BY <1>5, <3>1, <3>2 DEF Released
  <2>4. lead \in Requests /\ InList(w, lead) /\ lead # r
    <3>1. InList(w, lead)
      BY <2>1 DEF InList
    <3>2. lead \in Requests
      BY <1>1, <2>1
    <3> QED BY <1>3, <3>1, <3>2
  <2> HIDE DEF i, v
  <2>5. \A x \in Requests : p[x].at = IF x = r THEN "done" ELSE IF x = lead THEN "gate" ELSE q[x].at
    BY <1>5 DEF i
  <2>6. \A x \in Requests : p[x].at = "waiting" <=> InList(v, x)
    BY <1>1, <1>3, <2>2, <2>4, <2>5
  <2>7. HoldersOf(p) = left \cup {lead} /\ lead \notin left
    <3>1. q[lead].at = "waiting"
      BY <1>1, <2>4
    <3> QED BY <2>4, <2>5, <3>1 DEF HoldersOf, Holding
  <2>8. ~c => IsFiniteSet(HoldersOf(p)) /\ Cardinality(HoldersOf(p)) = t
    <3> HIDE DEF w, t, left, lead
    <3>1. ASSUME ~c PROVE IsFiniteSet(left \cup {lead}) /\ Cardinality(left \cup {lead}) = Cardinality(left) + 1
      BY <1>2, <2>7, <3>1, FS_AddElement
    <3> QED BY <1>1, <1>2, <2>7, <3>1
  <2> HIDE DEF w, t, lead
  <2>9. SlotsHold(p, t, v, c)
    BY <1>1, <1>5, <2>2, <2>3, <2>6, <2>8 DEF SlotsHold
  <2> QED BY <2>3, <2>9, SlotsAre
<1> QED BY <1>4, <1>5

\* The request r takes a slot, or waits for one.
LEMMA AcquireIsSo ==
  ASSUME NEW q, NEW s, NEW c, SlotsSo(q, s, c), NEW r \in Requests, NEW p,
         q[r].at \notin Holding \cup {"waiting"},
         p[r].at = (IF s.taken < Limit THEN "gate" ELSE "waiting"),
         \A x \in Requests \ {r} : p[x].at = q[x].at
  PROVE  SlotsSo(p, Acquired(s, r), c)
<1> DEFINE w == s.waiting t == s.taken
<1>1. /\ s = [taken |-> t, waiting |-> w] /\ t \in Nat /\ w \in Seq(Requests) /\ t <= Limit
      /\ w # <<>> => t = Limit
      /\ IsInjectiveList(w) /\ \A x \in Requests : q[x].at = "waiting" <=> InList(w, x)
      /\ Limit \in Nat \ {0}
  BY SessionAssumption DEF SlotsSo, SlotsHold
<1>2. ~c => IsFiniteSet(HoldersOf(q)) /\ t = Cardinality(HoldersOf(q))
  BY DEF SlotsSo, SlotsHold
<1>3. ~InList(w, r) /\ r \notin HoldersOf(q)
  BY <1>1 DEF HoldersOf
<1>4. CASE t < Limit
  <2>1. Acquired(s, r) = [taken |-> t + 1, waiting |-> w]
    <3> HIDE DEF w, t
    <3>1. [s EXCEPT !.taken = t + 1] = [taken |-> t + 1, waiting |-> w]
      BY <1>1
    <3> QED BY <1>4, <3>1 DEF Acquired, t
  <2>2. w = <<>>
    BY <1>1, <1>4
  <2>3. HoldersOf(p) = HoldersOf(q) \cup {r}
    BY <1>4 DEF HoldersOf, Holding
  <2>4. ~c => IsFiniteSet(HoldersOf(p)) /\ Cardinality(HoldersOf(p)) = t + 1
    BY <1>2, <1>3, <2>3, FS_AddElement
  <2>5. \A x \in Requests : p[x].at = "waiting" <=> InList(w, x)
    BY <1>1, <1>3, <1>4
  <2>6. t + 1 \in Nat /\ t + 1 <= Limit
    BY <1>1, <1>4
  <2> HIDE DEF w, t
  <2>9. SlotsHold(p, t + 1, w, c)
    BY <1>1, <2>2, <2>4, <2>5, <2>6 DEF SlotsHold
  <2> QED BY <2>1, <2>9, SlotsAre
<1>5. CASE ~(t < Limit)
  <2> DEFINE v == Append(w, r)
  <2>1. Acquired(s, r) = [taken |-> t, waiting |-> v]
    <3> HIDE DEF w, t, v
    <3>1. [s EXCEPT !.waiting = v] = [taken |-> t, waiting |-> v]
      BY <1>1
    <3> QED BY <1>5, <3>1 DEF Acquired, t, w, v
  <2>2. t = Limit
    BY <1>1, <1>5
  <2>3. /\ v \in Seq(Requests) /\ DOMAIN v = 1..Len(w) + 1 /\ v[Len(w) + 1] = r
        /\ DOMAIN w = 1..Len(w) /\ Len(w) \in Nat /\ \A k \in 1..Len(w) : v[k] = w[k]
    BY <1>1
  <2> HIDE DEF v
  <2>4. \A x : InList(v, x) <=> InList(w, x) \/ x = r
    <3>1. \A k \in 1..Len(w) + 1 : k = Len(w) + 1 \/ k \in 1..Len(w)
      BY <2>3
    <3>2. Len(w) + 1 \in 1..Len(w) + 1 /\ \A k \in 1..Len(w) : k \in 1..Len(w) + 1
      BY <2>3
    <3> QED BY <2>3, <3>1, <3>2 DEF InList
  <2>5. IsInjectiveList(v)
    <3>1. \A k \in 1..Len(w) + 1 : k = Len(w) + 1 \/ k \in 1..Len(w)
      BY <2>3
    <3>2. \A k \in 1..Len(w) : v[k] # r
      BY <1>3, <2>3 DEF InList
    <3> QED BY <1>1, <2>3, <3>1, <3>2 DEF IsInjectiveList
  <2>6. HoldersOf(p) = HoldersOf(q)
    BY <1>5 DEF HoldersOf, Holding
  <2>7. \A x \in Requests : p[x].at = "waiting" <=> InList(v, x)
    BY <1>1, <1>5, <2>4
  <2> HIDE DEF w, t
  <2>9. SlotsHold(p, t, v, c)
    BY <1>1, <1>2, <2>2, <2>3, <2>5, <2>6, <2>7 DEF SlotsHold
  <2> QED BY <2>1, <2>9, SlotsAre
<1> QED BY <1>4, <1>5

\* Before its first attempt a request has no rows.
Early == {"idle", "called", "waiting", "gate"}

\* The buffer holds the whole answer to its attempt; later ones are unheard of.
Whole(q) == q.n \in Attempts /\ q.rows = {<<q.n, i>> : i \in 1..Rows}
LaterUnheard(q, h) == \A n \in Attempts : n > q.n => h[n].rows = 0

\* The request q has buffered what it heard, in h, of its own attempt.
Answered(q, h) ==
  /\ q.at \in Early => q.n = 0
  /\ q.at # "done" => q.outcome = None
  /\ LaterUnheard(q, h)
  /\ q.at = "out" => q.n \in Attempts /\ q.rows = {<<q.n, i>> : i \in 1..h[q.n].rows}
  /\ q.outcome = "ok" => Whole(q)

IsSo(q, h) == IsReq(q) /\ Answered(q, h)

LEMMA MovesSo ==
  ASSUME NEW q, NEW h, IsSo(q, h), q.at \in Early, NEW at \in Early
  PROVE  LET new == Req(at, q.n, q.rows, q.messages, q.outcome) IN IsSo(new, h) /\ new.at = at
<1> DEFINE new == Req(at, q.n, q.rows, q.messages, q.outcome)
<1>1. /\ new = Req(new.at, new.n, new.rows, new.messages, new.outcome)
      /\ new.at = at /\ new.n = q.n /\ new.rows = q.rows /\ new.outcome = q.outcome
  BY ReqParts
<1>2. q.n \in Tries /\ q.n = 0 /\ q.outcome = None /\ \A n \in Attempts : n > q.n => h[n].rows = 0
  BY DEF IsSo, IsReq, Answered, Whole, LaterUnheard, Early
<1>3. at \in Stages /\ at # "done" /\ at # "out" /\ None # "ok"
  BY DEF Early, Stages, None
<1> HIDE DEF new
<1>4. IsReq(new)
  BY <1>1, <1>2, <1>3 DEF IsReq
<1>5. Answered(new, h)
  BY <1>1, <1>2, <1>3 DEF Answered, Whole, LaterUnheard
<1> QED BY <1>1, <1>4, <1>5 DEF IsSo, new

LEMMA FinishesSo ==
  ASSUME NEW q, NEW h, IsReq(q), NEW messages, NEW outcome,
         LaterUnheard(q, h), outcome = "ok" => Whole(q)
  PROVE  LET new == Req("done", q.n, q.rows, messages, outcome) IN IsSo(new, h) /\ new.at = "done"
<1> DEFINE done == "done" new == Req(done, q.n, q.rows, messages, outcome)
<1>0. done \in Stages /\ done \notin Early /\ done # "out" /\ done = "done"
  BY DEF Stages, Early
<1> HIDE DEF done
<1>1. /\ new = Req(new.at, new.n, new.rows, new.messages, new.outcome)
      /\ new.at = done /\ new.n = q.n /\ new.rows = q.rows /\ new.outcome = outcome
  BY ReqParts
<1>2. q.n \in Tries
  BY DEF IsReq
<1> HIDE DEF new
<1>3. IsReq(new)
  BY <1>0, <1>1, <1>2 DEF IsReq
<1>4. Answered(new, h)
  BY <1>0, <1>1 DEF Answered, Whole, LaterUnheard
<1> QED BY <1>0, <1>1, <1>3, <1>4 DEF IsSo, new

LEMMA BeginsSo ==
  ASSUME NEW q, NEW h, IsSo(q, h), q.at # "done", NEW n \in Attempts, n > q.n
  PROVE  LET new == Req("out", n, {}, 0, q.outcome) IN IsSo(new, h) /\ new.at = "out"
<1> DEFINE out == "out" none == {} zero == 0 new == Req(out, n, none, zero, q.outcome)
<1>0. out \in Stages /\ out \notin Early /\ out = "out"
  BY DEF Stages, Early
<1>a. h[n].rows = 0 /\ q.outcome = None /\ q.n \in Tries
  BY DEF IsSo, IsReq, Answered, Whole, LaterUnheard
<1>b. none = {<<n, i>> : i \in 1..h[n].rows}
  BY <1>a
<1> HIDE DEF out, none, zero
<1>1. /\ new = Req(new.at, new.n, new.rows, new.messages, new.outcome)
      /\ new.at = out /\ new.n = n /\ new.rows = none /\ new.outcome = q.outcome
  BY ReqParts
<1> HIDE DEF new
<1>2. \A m \in Attempts : m > n => h[m].rows = 0
  <2>1. \A m \in Attempts : m > q.n => h[m].rows = 0
    BY DEF IsSo, Answered, Whole, LaterUnheard
  <2>2. \A m \in Attempts : m > n => m > q.n
    BY <1>a DEF Attempts, Tries
  <2> QED BY <2>1, <2>2
<1>3. IsReq(new)
  BY <1>0, <1>1 DEF IsReq, Tries, Attempts
<1>4. Answered(new, h)
  BY <1>0, <1>1, <1>2, <1>a, <1>b DEF Answered, Whole, LaterUnheard, None
<1> QED BY <1>0, <1>1, <1>3, <1>4 DEF IsSo, new, out, none, zero

LEMMA BuffersSo ==
  ASSUME NEW q, NEW h, IsSo(q, h), q.at = "out", NEW g, h[q.n].rows \in Nat,
         g[q.n].rows = h[q.n].rows + 1, \A n \in Attempts : n # q.n => g[n] = h[n], NEW messages
  PROVE  LET new == Req(q.at, q.n, q.rows \cup {<<q.n, h[q.n].rows + 1>>}, messages, q.outcome)
         IN  IsSo(new, g) /\ new.at = "out"
<1> DEFINE n == q.n k == h[n].rows rows == q.rows \cup {<<n, k + 1>>}
           new == Req(q.at, n, rows, messages, q.outcome)
<1>1. /\ new = Req(new.at, new.n, new.rows, new.messages, new.outcome)
      /\ new.at = q.at /\ new.n = n /\ new.rows = rows /\ new.outcome = q.outcome
  BY ReqParts
<1>2. n \in Attempts /\ q.rows = {<<n, i>> : i \in 1..k} /\ q.outcome = None /\ n \in Tries /\ k \in Nat
  BY DEF IsSo, IsReq, Answered, Whole, LaterUnheard
<1>3. rows = {<<n, i>> : i \in 1..g[n].rows}
  <2>1. g[n].rows = k + 1
    OBVIOUS
  <2>2. \A i : i \in 1..k + 1 <=> i \in 1..k \/ i = k + 1
    BY <1>2
  <2> HIDE DEF k
  <2>3. {<<n, i>> : i \in 1..k + 1} = {<<n, i>> : i \in 1..k} \cup {<<n, k + 1>>}
    BY <2>2
  <2> QED BY <1>2, <2>1, <2>3
<1>4. \A m \in Attempts : m > n => g[m].rows = 0
  <2>1. \A m \in Attempts : m > n => h[m].rows = 0 /\ m # n
    BY <1>2 DEF IsSo, Answered, Whole, LaterUnheard, Attempts
  <2> QED BY <2>1
<1>5. q.at = "out" /\ "out" \in Stages /\ "out" \notin Early /\ None # "ok"
  BY DEF Stages, Early, None
<1> HIDE DEF new, rows, n, k
<1>6. IsReq(new)
  BY <1>1, <1>2, <1>5 DEF IsReq
<1>7. Answered(new, g)
  BY <1>1, <1>2, <1>3, <1>4, <1>5 DEF Answered, Whole, LaterUnheard
<1> QED BY <1>1, <1>5, <1>6, <1>7 DEF IsSo, new, rows, n, k

\* What a request has heard of another attempt, or that its answer is over, does
\* not touch it.
LEMMA HearsSo ==
  ASSUME NEW q, NEW h, IsSo(q, h), NEW g,
         \A n \in Attempts : n > q.n => g[n].rows = h[n].rows,
         q.at = "out" => g[q.n].rows = h[q.n].rows
  PROVE  IsSo(q, g)
<1>1. \A n \in Attempts : n > q.n => g[n].rows = 0
  BY DEF IsSo, Answered, Whole, LaterUnheard
<1>2. q.at = "out" => q.rows = {<<q.n, i>> : i \in 1..g[q.n].rows}
  BY DEF IsSo, Answered, Whole, LaterUnheard
<1> QED BY <1>1, <1>2 DEF IsSo, Answered, Whole, LaterUnheard

TableSo(q, h) == q = [r \in Requests |-> q[r]] /\ \A r \in Requests : IsSo(q[r], h[r])

\* The table with one request changed.
LEMMA OneChanges ==
  ASSUME NEW q, q = [x \in Requests |-> q[x]], NEW r \in Requests, NEW new
  PROVE  LET p == [q EXCEPT ![r] = new] IN
         /\ p = [x \in Requests |-> p[x]]
         /\ p[r] = new /\ \A x \in Requests \ {r} : p[x] = q[x]
  OBVIOUS

WaitersWait(s, q) ==
  s.waiting \in Seq(Requests) /\ \A i \in DOMAIN s.waiting : q[s.waiting[i]].at = "waiting"

LEMMA WokenSo ==
  ASSUME NEW s, NEW q, NEW h, TableSo(q, h), WaitersWait(s, q)
  PROVE  /\ TableSo(Woken(s, q), h)
         /\ \A x \in Requests :
              Woken(s, q)[x].at = IF s.waiting # <<>> /\ x = s.waiting[Leader(s)] THEN "gate" ELSE q[x].at
<1>1. CASE s.waiting = <<>>
  BY <1>1 DEF Woken
<1>2. CASE s.waiting # <<>>
  <2> DEFINE r == s.waiting[Leader(s)]
             new == Moved(q[r], "gate")
             p == [q EXCEPT ![r] = new]
  <2>1. r \in Requests /\ q[r].at = "waiting"
    <3>1. Leader(s) \in DOMAIN s.waiting
      BY <1>2, LeaderWaits DEF WaitersWait
    <3> QED BY <3>1 DEF WaitersWait
  <2>2. new = Req("gate", q[r].n, q[r].rows, q[r].messages, q[r].outcome)
    BY <2>1, ReqFields DEF TableSo, IsSo
  <2>3. IsSo(new, h[r]) /\ new.at = "gate"
    BY <2>1, <2>2, MovesSo DEF TableSo, Early
  <2>4. Woken(s, q) = p
    BY <1>2 DEF Woken, Moved
  <2> HIDE DEF new, r
  <2>5. p = [x \in Requests |-> p[x]] /\ p[r] = new /\ \A x \in Requests \ {r} : p[x] = q[x]
    BY <2>1, OneChanges DEF TableSo
  <2> HIDE DEF p
  <2>6. TableSo(p, h)
    BY <2>3, <2>5 DEF TableSo
  <2>7. \A x \in Requests : p[x].at = IF x = r THEN "gate" ELSE q[x].at
    BY <2>3, <2>5
  <2> QED BY <1>2, <2>4, <2>6, <2>7 DEF r
<1> QED BY <1>1, <1>2

LEMMA EndsSo ==
  ASSUME TableSo(req, heard), SlotsSo(req, slots, closed), NEW r \in HoldersOf(req),
         NEW outcome, NEW messages, Ends(r, outcome, messages),
         outcome = "ok" => Whole(req[r]),
         NEW h, \A x \in Requests \ {r} : h[x] = heard[x],
         LaterUnheard(req[r], h[r])
  PROVE  TableSo(req', h) /\ SlotsSo(req', slots', closed)
<1> DEFINE new == Finished(req[r], "done", outcome, messages)
           p == [req EXCEPT ![r] = new]
<1>1. r \in Requests /\ req[r].at \in Holding /\ IsReq(req[r]) /\ req = [x \in Requests |-> req[x]]
  BY DEF HoldersOf, TableSo, IsSo
<1>2. req' = Woken(slots, p) /\ slots' = Released(slots)
  BY DEF Ends, Finished
<1>3. new = Req("done", req[r].n, req[r].rows, messages, outcome)
  BY <1>1, ReqFields
<1>4. IsSo(new, h[r]) /\ new.at = "done"
  <2> DEFINE q == req[r] g == h[r] done == Req("done", q.n, q.rows, messages, outcome)
  <2>1. IsReq(q) /\ LaterUnheard(q, g) /\ (outcome = "ok" => Whole(q)) /\ new = done
    BY <1>1, <1>3
  <2>2. IsSo(done, g) /\ done.at = "done"
    <3> HIDE DEF q, g
    <3> QED BY <2>1, FinishesSo
  <2> QED BY <2>1, <2>2
<1> HIDE DEF new
<1>5. p = [x \in Requests |-> p[x]] /\ p[r] = new /\ \A x \in Requests \ {r} : p[x] = req[x]
  BY <1>1, OneChanges
<1> HIDE DEF p
<1>6. TableSo(p, h)
  BY <1>4, <1>5 DEF TableSo
<1>7. /\ slots.waiting \in Seq(Requests)
      /\ \A x \in Requests : req[x].at = "waiting" <=> InList(slots.waiting, x)
  BY DEF SlotsSo, SlotsHold
<1>8. \A i \in DOMAIN slots.waiting : p[slots.waiting[i]].at = "waiting"
  <2>1. SUFFICES ASSUME NEW i \in DOMAIN slots.waiting PROVE p[slots.waiting[i]].at = "waiting"
    OBVIOUS
  <2>2. slots.waiting[i] \in Requests /\ InList(slots.waiting, slots.waiting[i])
    BY <1>7 DEF InList
  <2>3. slots.waiting[i] # r
    BY <1>1, <1>7, <2>2 DEF Holding
  <2> QED BY <1>5, <1>7, <2>2, <2>3
<1>b. WaitersWait(slots, p)
  BY <1>7, <1>8 DEF WaitersWait
<1>a. /\ TableSo(Woken(slots, p), h)
      /\ \A x \in Requests :
           Woken(slots, p)[x].at = IF slots.waiting # <<>> /\ x = slots.waiting[Leader(slots)] THEN "gate" ELSE p[x].at
  BY <1>6, <1>b, WokenSo
<1>9. /\ TableSo(req', h)
      /\ \A x \in Requests :
           req'[x].at = IF slots.waiting # <<>> /\ x = slots.waiting[Leader(slots)] THEN "gate" ELSE p[x].at
  BY <1>2, <1>a
<1>10. slots.waiting # <<>> => slots.waiting[Leader(slots)] # r
  BY <1>1, <1>4, <1>5, <1>7, <1>8, LeaderWaits DEF Holding
<1>11. req'[r].at = "done"
  BY <1>1, <1>4, <1>5, <1>9, <1>10
<1>12. \A x \in Requests \ {r} :
         req'[x].at = IF slots.waiting # <<>> /\ x = slots.waiting[Leader(slots)] THEN "gate" ELSE req[x].at
  BY <1>5, <1>9
<1> QED BY <1>2, <1>9, <1>11, <1>12, ReleaseIsSo

LEMMA OneChangesSo ==
  ASSUME NEW q, NEW h, TableSo(q, h), NEW r \in Requests, NEW new, NEW g,
         IsSo(new, g[r]), \A x \in Requests \ {r} : g[x] = h[x]
  PROVE  LET p == [q EXCEPT ![r] = new] IN
         TableSo(p, g) /\ p[r] = new /\ \A x \in Requests \ {r} : p[x] = q[x]
<1> DEFINE p == [q EXCEPT ![r] = new]
<1>1. p = [x \in Requests |-> p[x]] /\ p[r] = new /\ \A x \in Requests \ {r} : p[x] = q[x]
  BY OneChanges DEF TableSo
<1> HIDE DEF p
<1>2. TableSo(p, g)
  BY <1>1 DEF TableSo
<1> QED BY <1>1, <1>2 DEF p

\* A request changes and the slots do not.
LEMMA KeepsItsPlace ==
  ASSUME NEW q, NEW h, TableSo(q, h), NEW s, NEW c, SlotsSo(q, s, c), NEW r \in Requests, NEW new, NEW g,
         IsSo(new, g[r]), \A x \in Requests \ {r} : g[x] = h[x],
         new.at = "waiting" <=> q[r].at = "waiting", new.at \in Holding <=> q[r].at \in Holding
  PROVE  LET p == [q EXCEPT ![r] = new] IN TableSo(p, g) /\ SlotsSo(p, s, c)
<1> DEFINE p == [q EXCEPT ![r] = new]
<1>1. TableSo(p, g) /\ p[r] = new /\ \A x \in Requests \ {r} : p[x] = q[x]
  BY OneChangesSo
<1> HIDE DEF p
<1>2. SlotsSo(p, s, c)
  BY <1>1, StaysSo
<1> QED BY <1>1, <1>2 DEF p

LEMMA EnterSo ==
  ASSUME TableSo(req, heard), SlotsSo(req, slots, closed), NEW r \in Requests,
         req[r].at \in {"idle", "called"}, Enter(r)
  PROVE  TableSo(req', heard) /\ SlotsSo(req', slots', closed)
<1> DEFINE q == req[r]
<1>1. IsSo(q, heard[r]) /\ IsReq(q) /\ LaterUnheard(q, heard[r]) /\ q.at \in Early
  BY DEF TableSo, IsSo, Answered, Early
<1>2. q.at \notin Holding \cup {"waiting"}
  BY DEF Holding
<1>3. CASE closed
  <2> DEFINE new == Abandoned(q, "done", "aborted")
  <2>1. req' = [req EXCEPT ![r] = new] /\ slots' = slots
    BY <1>3 DEF Enter, Abandoned
  <2>2. new = Req("done", q.n, q.rows, q.messages, "aborted")
    BY <1>1, ReqFields
  <2> HIDE DEF q
  <2>3. IsSo(new, heard[r]) /\ new.at = "done"
    BY <1>1, <2>2, FinishesSo
  <2> HIDE DEF new
  <2>4. "done" # "waiting" /\ "done" \notin Holding
    BY DEF Holding
  <2> QED BY <1>2, <2>1, <2>3, <2>4, KeepsItsPlace DEF q
<1>4. CASE ~closed
  <2> DEFINE at == IF slots.taken < Limit THEN "gate" ELSE "waiting"
             new == Moved(q, at)
             p == [req EXCEPT ![r] = new]
  <2>1. req' = p /\ slots' = Acquired(slots, r)
    BY <1>4 DEF Enter, Moved
  <2>2. new = Req(at, q.n, q.rows, q.messages, q.outcome)
    BY <1>1, ReqFields
  <2>3. at \in Early
    BY DEF Early
  <2> HIDE DEF q, at
  <2>4. IsSo(new, heard[r]) /\ new.at = at
    BY <1>1, <2>2, <2>3, MovesSo
  <2> HIDE DEF new
  <2>5. TableSo(p, heard) /\ p[r] = new /\ \A x \in Requests \ {r} : p[x] = req[x]
    BY <2>4, OneChangesSo
  <2> HIDE DEF p
  <2>6. p[r].at = (IF slots.taken < Limit THEN "gate" ELSE "waiting")
    BY <2>4, <2>5 DEF at
  <2>7. SlotsSo(p, Acquired(slots, r), closed)
    BY <1>2, <2>5, <2>6, AcquireIsSo DEF q
  <2> QED BY <2>1, <2>5, <2>7
<1> QED BY <1>3, <1>4

\* An attempt that begins keeps the slot of the request.
LEMMA BeginSo ==
  ASSUME TableSo(req, heard), SlotsSo(req, slots, closed), NEW r \in HoldersOf(req),
         NEW n \in Attempts, n > req[r].n, req' = Begin(req, r, n), slots' = slots
  PROVE  TableSo(req', heard) /\ SlotsSo(req', slots', closed)
<1> DEFINE q == req[r] none == {} zero == 0 out == "out"
           new == Begun(q, out, n, none, zero)
<1>1. r \in Requests /\ q.at \in Holding
  BY DEF HoldersOf
<1>2. IsSo(q, heard[r]) /\ IsReq(q) /\ q.at # "done" /\ q.at # "waiting"
  BY <1>1 DEF TableSo, IsSo, Holding
<1>3. req' = [req EXCEPT ![r] = new]
  BY DEF Begin, Begun
<1>4. n > q.n
  OBVIOUS
<1>a. out = "out" /\ none = {} /\ zero = 0
  OBVIOUS
<1> HIDE DEF q, none, zero, out
<1>5. new = Req(out, n, none, zero, q.outcome)
  BY <1>2, ReqFields
<1> HIDE DEF new
<1>6. IsSo(new, heard[r]) /\ new.at = "out"
  BY <1>2, <1>4, <1>5, <1>a, BeginsSo
<1>7. "out" # "waiting" /\ "out" \in Holding
  BY DEF Holding
<1>8. /\ new.at = "waiting" <=> req[r].at = "waiting"
      /\ new.at \in Holding <=> req[r].at \in Holding
  BY <1>1, <1>2, <1>6, <1>7 DEF q
<1>9. LET p == [req EXCEPT ![r] = new] IN TableSo(p, heard) /\ SlotsSo(p, slots, closed)
  BY <1>1, <1>6, <1>8, KeepsItsPlace
<1> QED BY <1>3, <1>9

HeardSo ==
  /\ heard = [r \in Requests |-> [n \in Attempts |-> heard[r][n]]]
  /\ \A r \in Requests, n \in Attempts :
       heard[r][n] = [rows |-> heard[r][n].rows, over |-> heard[r][n].over] /\ heard[r][n].rows \in Nat

\* One more row is heard of an attempt, or the end of its answer.
LEMMA HeardGrows ==
  ASSUME HeardSo, NEW r \in Requests, NEW n \in Attempts,
         \/ heard' = [heard EXCEPT ![r][n].rows = @ + 1]
         \/ heard' = [heard EXCEPT ![r][n].over = TRUE]
  PROVE  /\ HeardSo'
         /\ \A x \in Requests \ {r} : heard'[x] = heard[x]
         /\ \A m \in Attempts \ {n} : heard'[r][m] = heard[r][m]
         /\ heard' = [heard EXCEPT ![r][n].rows = @ + 1] => heard'[r][n].rows = heard[r][n].rows + 1
         /\ heard' = [heard EXCEPT ![r][n].over = TRUE] => heard'[r][n].rows = heard[r][n].rows
<1> DEFINE h == heard[r] a == h[n] k == a.rows o == a.over
<1>1. /\ heard = [x \in Requests |-> heard[x]] /\ h = [m \in Attempts |-> h[m]]
      /\ a = [rows |-> k, over |-> o] /\ k \in Nat
  BY DEF HeardSo
<1>2. \A x \in Requests : heard[x] = [m \in Attempts |-> heard[x][m]]
  BY DEF HeardSo
<1>3. \A x \in Requests, m \in Attempts :
        heard[x][m] = [rows |-> heard[x][m].rows, over |-> heard[x][m].over] /\ heard[x][m].rows \in Nat
  BY DEF HeardSo
<1>4. ASSUME NEW b, b = [rows |-> b.rows, over |-> b.over], b.rows \in Nat,
             heard' = [heard EXCEPT ![r] = [h EXCEPT ![n] = b]]
      PROVE  /\ HeardSo' /\ heard'[r][n] = b
             /\ \A x \in Requests \ {r} : heard'[x] = heard[x]
             /\ \A m \in Attempts \ {n} : heard'[r][m] = heard[r][m]
  <2> DEFINE g == [h EXCEPT ![n] = b] f == heard'
  <2>1. g = [m \in Attempts |-> g[m]] /\ g[n] = b /\ \A m \in Attempts \ {n} : g[m] = h[m]
    BY <1>1
  <2>2. f = [heard EXCEPT ![r] = g]
    BY <1>4
  <2> HIDE DEF g, f, h
  <2>3. f = [x \in Requests |-> f[x]] /\ f[r] = g /\ \A x \in Requests \ {r} : f[x] = heard[x]
    BY <1>1, <2>2
  <2>4. \A x \in Requests : f[x] = [m \in Attempts |-> f[x][m]]
    BY <1>2, <2>1, <2>3
  <2>5. \A x \in Requests, m \in Attempts :
          f[x][m] = [rows |-> f[x][m].rows, over |-> f[x][m].over] /\ f[x][m].rows \in Nat
    BY <1>3, <1>4, <2>1, <2>3 DEF h
  <2>6. f = [x \in Requests |-> [m \in Attempts |-> f[x][m]]]
    BY <2>3, <2>4
  <2> QED BY <2>1, <2>3, <2>5, <2>6 DEF HeardSo, f, h
<1>5. CASE heard' = [heard EXCEPT ![r][n].rows = @ + 1]
  <2> DEFINE b == [a EXCEPT !.rows = k + 1]
  <2>1. heard' = [heard EXCEPT ![r] = [h EXCEPT ![n] = b]]
    BY <1>5
  <2> HIDE DEF a, k, o
  <2>2. b = [rows |-> b.rows, over |-> b.over] /\ b.rows = k + 1
    BY <1>1
  <2> HIDE DEF b
  <2>3. b.rows \in Nat /\ b.rows # k
    BY <1>1, <2>2
  <2>4. /\ HeardSo' /\ heard'[r][n] = b
        /\ \A x \in Requests \ {r} : heard'[x] = heard[x]
        /\ \A m \in Attempts \ {n} : heard'[r][m] = heard[r][m]
    BY <1>4, <2>1, <2>2, <2>3
  <2>5. heard' # [heard EXCEPT ![r][n].over = TRUE]
    <3>1. ASSUME heard' = [heard EXCEPT ![r][n].over = TRUE] PROVE heard'[r][n].rows = k
      BY <1>1, <3>1 DEF a, k, o, h
    <3> QED BY <2>3, <2>4, <3>1
  <2> QED BY <2>2, <2>4, <2>5 DEF a, k
<1>6. CASE heard' = [heard EXCEPT ![r][n].over = TRUE]
  <2> DEFINE yes == TRUE b == [a EXCEPT !.over = yes]
  <2>1. heard' = [heard EXCEPT ![r] = [h EXCEPT ![n] = b]]
    BY <1>6
  <2> HIDE DEF a, k, o, yes
  <2>2. b = [rows |-> b.rows, over |-> b.over] /\ b.rows = k
    BY <1>1
  <2> HIDE DEF b
  <2>4. /\ HeardSo' /\ heard'[r][n] = b
        /\ \A x \in Requests \ {r} : heard'[x] = heard[x]
        /\ \A m \in Attempts \ {n} : heard'[r][m] = heard[r][m]
    BY <1>1, <1>4, <2>1, <2>2
  <2>5. heard' # [heard EXCEPT ![r][n].rows = @ + 1]
    <3>1. ASSUME heard' = [heard EXCEPT ![r][n].rows = @ + 1] PROVE heard'[r][n].rows = k + 1
      BY <1>1, <3>1 DEF a, k, o, h
    <3> QED BY <1>1, <2>2, <2>4, <3>1
  <2> QED BY <2>2, <2>4, <2>5 DEF a, k
<1> QED BY <1>5, <1>6

RequestInv == TableSo(req, heard) /\ SlotsSo(req, slots, closed) /\ HeardSo

LEMMA HolderIsSo ==
  ASSUME RequestInv, NEW r \in Requests, req[r].at \in Holding
  PROVE  r \in HoldersOf(req) /\ IsSo(req[r], heard[r]) /\ LaterUnheard(req[r], heard[r])
  BY DEF RequestInv, HoldersOf, TableSo, IsSo, Answered

LEMMA CallKeeps ==
  ASSUME RequestInv, NEW r \in Requests, Fetch(r) \/ Queue(r)
  PROVE  RequestInv'
<1>0. heard' = heard /\ closed' = closed
  BY DEF Fetch, Queue
<1>1. HeardSo'
  BY <1>0 DEF RequestInv, HeardSo
<1>2. TableSo(req', heard) /\ SlotsSo(req', slots', closed)
  <2>1. CASE req[r].at \in {"idle", "called"} /\ Enter(r)
    BY <2>1, EnterSo DEF RequestInv
  <2>2. CASE req[r].at = "idle" /\ req' = [req EXCEPT ![r].at = "called"] /\ slots' = slots
    <3> DEFINE q == req[r] called == "called" new == Moved(q, called)
    <3>1. IsSo(q, heard[r]) /\ IsReq(q) /\ q.at \in Early
      BY <2>2 DEF RequestInv, TableSo, IsSo, Early
    <3>2. req' = [req EXCEPT ![r] = new]
      BY <2>2 DEF Moved
    <3>3. called \in Early /\ called # "waiting" /\ called \notin Holding
      BY DEF Early, Holding
    <3>4. q.at # "waiting" /\ q.at \notin Holding
      BY <2>2 DEF Holding
    <3> HIDE DEF q, called
    <3>5. new = Req(called, q.n, q.rows, q.messages, q.outcome)
      BY <3>1, ReqFields
    <3> HIDE DEF new
    <3>6. IsSo(new, heard[r]) /\ new.at = called
      BY <3>1, <3>3, <3>5, MovesSo
    <3>7. LET p == [req EXCEPT ![r] = new] IN TableSo(p, heard) /\ SlotsSo(p, slots, closed)
      BY <3>3, <3>4, <3>6, KeepsItsPlace DEF RequestInv, q
    <3> QED BY <2>2, <3>2, <3>7
  <2> QED BY <2>1, <2>2 DEF Fetch, Queue
<1> QED BY <1>0, <1>1, <1>2 DEF RequestInv

\* The same, for a request that goes out, or ends without having heard anything.
LEMMA GoesOrEnds ==
  ASSUME RequestInv, NEW r \in HoldersOf(req), heard' = heard, closed' = closed,
         \/ \E outcome, messages : Ends(r, outcome, messages) /\ outcome # "ok"
         \/ \E n \in Attempts : n > req[r].n /\ req' = Begin(req, r, n) /\ slots' = slots
  PROVE  RequestInv'
<1>1. HeardSo'
  BY DEF RequestInv, HeardSo
<1>2. CASE \E outcome, messages : Ends(r, outcome, messages) /\ outcome # "ok"
  <2>1. PICK outcome, messages : Ends(r, outcome, messages) /\ outcome # "ok"
    BY <1>2
  <2>2. LaterUnheard(req[r], heard[r])
    BY DEF RequestInv, HoldersOf, TableSo, IsSo, Answered
  <2>3. TableSo(req', heard) /\ SlotsSo(req', slots', closed)
    BY <2>1, <2>2, EndsSo DEF RequestInv
  <2> QED BY <1>1, <2>3 DEF RequestInv
<1>3. CASE \E n \in Attempts : n > req[r].n /\ req' = Begin(req, r, n) /\ slots' = slots
  BY <1>1, <1>3, BeginSo DEF RequestInv
<1> QED BY <1>2, <1>3

LEMMA SendKeeps ==
  ASSUME RequestInv, NEW r \in Requests, NEW how, Send(r, how)
  PROVE  RequestInv'
<1>1. r \in HoldersOf(req) /\ req[r].n = 0
  BY DEF Send, Holding, Early, HoldersOf, RequestInv, TableSo, IsSo, Answered
<1>2. heard' = heard /\ closed' = closed
  BY DEF Send
<1>3. \/ Ends(r, "aborted", 0)
      \/ Ends(r, "failed", 0)
      \/ req' = Begin(req, r, 1) /\ slots' = slots
  BY DEF Send
<1>4. 1 \in Attempts /\ 1 > req[r].n
  BY <1>1 DEF Attempts
<1> DEFINE aborted == "aborted" failed == "failed" zero == 0
<1>5. aborted # "ok" /\ failed # "ok"
  OBVIOUS
<1>6. \/ Ends(r, aborted, zero) \/ Ends(r, failed, zero)
      \/ req' = Begin(req, r, 1) /\ slots' = slots
  BY <1>3
<1> HIDE DEF aborted, failed, zero
<1> QED BY <1>1, <1>2, <1>4, <1>5, <1>6, GoesOrEnds

LEMMA TimesOutKeeps ==
  ASSUME RequestInv, NEW r \in Requests, NEW how, TimesOut(r, how)
  PROVE  RequestInv'
<1>1. r \in HoldersOf(req)
  BY DEF TimesOut, Holding, HoldersOf
<1>2. heard' = heard /\ closed' = closed
  BY DEF TimesOut
<1> DEFINE aborted == "aborted" failed == "failed" absent == "absent" zero == 0 messages == req[r].messages
<1>3. \/ Ends(r, absent, zero)
      \/ req[r].n = 1 /\ req' = Begin(req, r, 2) /\ slots' = slots
      \/ Ends(r, aborted, zero)
      \/ Ends(r, failed, messages)
  BY DEF TimesOut
<1>4. 2 \in Attempts /\ (req[r].n = 1 => 2 > req[r].n)
  BY DEF Attempts
<1>5. aborted # "ok" /\ failed # "ok" /\ absent # "ok"
  OBVIOUS
<1> HIDE DEF aborted, failed, absent, zero, messages
<1> QED BY <1>1, <1>2, <1>3, <1>4, <1>5, GoesOrEnds

LEMMA RowKeeps ==
  ASSUME RequestInv, NEW r \in Requests, NEW n \in Attempts, NEW decoded \in BOOLEAN, RowArrives(r, n, decoded)
  PROVE  RequestInv'
<1> DEFINE q == req[r] h == heard[r] g == heard'[r]
<1>1. heard' = [heard EXCEPT ![r][n].rows = @ + 1] /\ n <= q.n /\ closed' = closed
  BY DEF RowArrives, Asked
<1>2. /\ HeardSo' /\ \A x \in Requests \ {r} : heard'[x] = heard[x]
      /\ \A m \in Attempts \ {n} : g[m] = h[m]
      /\ g[n].rows = h[n].rows + 1
  BY <1>1, HeardGrows DEF RequestInv
<1>3. IsSo(q, h) /\ IsReq(q) /\ LaterUnheard(q, h) /\ q.n \in Tries
  BY DEF RequestInv, TableSo, IsSo, IsReq, Answered
<1>4. \A m \in Attempts : m > q.n => m # n
  BY <1>1, <1>3 DEF Attempts, Tries
<1>5. CASE ~Out(r, n)
  <2>1. req' = req /\ slots' = slots
    BY <1>5 DEF RowArrives
  <2>2. q.at = "out" => q.n # n /\ q.n \in Attempts
    BY <1>3, <1>5 DEF Out, IsSo, Answered
  <2>3. \A m \in Attempts : m > q.n => g[m].rows = h[m].rows
    BY <1>2, <1>4
  <2>4. q.at = "out" => g[q.n].rows = h[q.n].rows
    BY <1>2, <2>2
  <2>5. IsSo(q, g)
    <3> HIDE DEF q, h, g
    <3> QED BY <1>3, <2>3, <2>4, HearsSo
  <2>6. TableSo(req, heard')
    BY <1>2, <2>5 DEF RequestInv, TableSo
  <2> QED BY <1>1, <1>2, <2>1, <2>6 DEF RequestInv
<1>6. CASE Out(r, n) /\ decoded
  <2> DEFINE rows == q.rows \cup {<<q.n, h[q.n].rows + 1>>} messages == q.messages + 1
             new == Buffered(q, rows, messages)
  <2>1. req' = [req EXCEPT ![r] = new] /\ slots' = slots /\ q.n = n /\ q.at = "out"
    BY <1>6 DEF RowArrives, Out, Buffered
  <2>2. h[q.n].rows \in Nat
    BY <2>1 DEF RequestInv, HeardSo
  <2>3. g[q.n].rows = h[q.n].rows + 1 /\ \A m \in Attempts : m # q.n => g[m] = h[m]
    BY <1>2, <2>1
  <2>4. "out" # "waiting" /\ "out" \in Holding
    BY DEF Holding
  <2> HIDE DEF q, h, g, messages
  <2>5. new = Req(q.at, q.n, rows, messages, q.outcome)
    BY <1>3, ReqFields
  <2> HIDE DEF new
  <2>6. IsSo(new, g) /\ new.at = "out"
    BY <1>3, <2>1, <2>2, <2>3, <2>5, BuffersSo
  <2>7. LET p == [req EXCEPT ![r] = new] IN TableSo(p, heard') /\ SlotsSo(p, slots, closed)
    BY <1>2, <2>1, <2>4, <2>6, KeepsItsPlace DEF RequestInv, q, g
  <2> QED BY <1>1, <1>2, <2>1, <2>7 DEF RequestInv
<1>7. CASE Out(r, n) /\ ~decoded
  <2> DEFINE aborted == "aborted" messages == q.messages + 1
  <2>1. Ends(r, aborted, messages)
    BY <1>7 DEF RowArrives
  <2>2. r \in HoldersOf(req)
    BY <1>7 DEF HoldersOf, Out, Holding
  <2>3. LaterUnheard(q, g)
    BY <1>2, <1>3, <1>4 DEF LaterUnheard
  <2>4. aborted # "ok"
    OBVIOUS
  <2> HIDE DEF aborted, messages
  <2>5. TableSo(req', heard') /\ SlotsSo(req', slots', closed)
    BY <1>2, <2>1, <2>2, <2>3, <2>4, EndsSo DEF RequestInv
  <2> QED BY <1>1, <1>2, <2>5 DEF RequestInv
<1> QED BY <1>5, <1>6, <1>7

LEMMA AnswerKeeps ==
  ASSUME RequestInv, NEW r \in Requests, NEW n \in Attempts, NEW outcome, AnswerEnds(r, n, outcome)
  PROVE  RequestInv'
<1> DEFINE q == req[r] h == heard[r] g == heard'[r]
<1>1. heard' = [heard EXCEPT ![r][n].over = TRUE] /\ n <= q.n /\ closed' = closed
  BY DEF AnswerEnds, Asked
<1>2. /\ HeardSo' /\ \A x \in Requests \ {r} : heard'[x] = heard[x]
      /\ \A m \in Attempts \ {n} : g[m] = h[m]
      /\ g[n].rows = h[n].rows
  BY <1>1, HeardGrows DEF RequestInv
<1>3. IsSo(q, h) /\ IsReq(q) /\ LaterUnheard(q, h) /\ q.n \in Tries
  BY DEF RequestInv, TableSo, IsSo, IsReq, Answered
<1>4. \A m \in Attempts : g[m].rows = h[m].rows
  BY <1>2
<1>5. CASE ~Out(r, n)
  <2>1. req' = req /\ slots' = slots
    BY <1>5 DEF AnswerEnds
  <2>2. q.at = "out" => q.n \in Attempts
    BY <1>3 DEF IsSo, Answered
  <2>3. \A m \in Attempts : m > q.n => g[m].rows = h[m].rows
    BY <1>4
  <2>4. q.at = "out" => g[q.n].rows = h[q.n].rows
    BY <1>4, <2>2
  <2>5. IsSo(q, g)
    <3> HIDE DEF q, h, g
    <3> QED BY <1>3, <2>3, <2>4, HearsSo
  <2>6. TableSo(req, heard')
    BY <1>2, <2>5 DEF RequestInv, TableSo
  <2> QED BY <1>1, <1>2, <2>1, <2>6 DEF RequestInv
<1>6. CASE Out(r, n)
  <2>1. Ends(r, outcome, q.messages) /\ q.at = "out" /\ q.n = n
    BY <1>6 DEF AnswerEnds, Out
  <2>2. r \in HoldersOf(req)
    BY <2>1 DEF HoldersOf, Holding
  <2>3. LaterUnheard(q, g)
    BY <1>3, <1>4 DEF LaterUnheard
  <2>4. outcome = "ok" => Whole(q)
    <3>1. outcome = "ok" => h[n].rows = Rows
      BY DEF AnswerEnds
    <3>2. q.rows = {<<q.n, i>> : i \in 1..h[q.n].rows}
      BY <1>3, <2>1 DEF IsSo, Answered
    <3> QED BY <2>1, <3>1, <3>2 DEF Whole
  <2>5. TableSo(req', heard') /\ SlotsSo(req', slots', closed)
    BY <1>2, <2>1, <2>2, <2>3, <2>4, EndsSo DEF RequestInv
  <2> QED BY <1>1, <1>2, <2>5 DEF RequestInv
<1> QED BY <1>5, <1>6

LEMMA CloseKeeps ==
  ASSUME RequestInv, Close
  PROVE  RequestInv'
<1> DEFINE dropped(q) == [q EXCEPT !.at = "done", !.outcome = "aborted"]
           gate(q) == [q EXCEPT !.at = "gate"]
           new(r) == CASE req[r].at = "out"     -> dropped(req[r])
                       [] req[r].at = "waiting" -> gate(req[r])
                       [] OTHER -> req[r]
<1>a. req' = [r \in Requests |-> new(r)]
  BY Zenon DEF Close
<1>b. slots' = Drained /\ heard' = heard /\ closed' = TRUE
  BY Zenon DEF Close
<1>1. /\ req' = [r \in Requests |-> new(r)]
      /\ slots' = Drained /\ heard' = heard /\ closed' = TRUE
  <2> HIDE DEF new
  <2> QED BY <1>a, <1>b
<1>2. ASSUME NEW r \in Requests PROVE IsSo(new(r), heard[r]) /\ new(r).at # "waiting"
  <2> DEFINE q == req[r] h == heard[r]
  <2>1. IsSo(q, h) /\ IsReq(q) /\ LaterUnheard(q, h)
    BY DEF RequestInv, TableSo, IsSo, Answered
  <2>2. CASE q.at = "out"
    <3> DEFINE p == Req("done", q.n, q.rows, q.messages, "aborted")
    <3>1. new(r) = p
      <4>1. Abandoned(q, "done", "aborted") = p
        BY <2>1, ReqFields
      <4>2. dropped(q) = Abandoned(q, "done", "aborted")
        BY DEF Abandoned
      <4> HIDE DEF dropped, gate
      <4>3. new(r) = dropped(q)
        BY <2>2
      <4> QED BY <4>1, <4>2, <4>3
    <3> HIDE DEF q, h, new
    <3>2. IsSo(p, h) /\ p.at = "done"
      BY <2>1, FinishesSo
    <3> HIDE DEF p
    <3> QED BY <3>1, <3>2 DEF h
  <2>3. CASE q.at = "waiting"
    <3> DEFINE p == Req("gate", q.n, q.rows, q.messages, q.outcome)
    <3>1. new(r) = p
      <4>1. Moved(q, "gate") = p
        BY <2>1, ReqFields
      <4>2. gate(q) = Moved(q, "gate")
        BY DEF Moved
      <4> HIDE DEF dropped, gate
      <4>3. new(r) = gate(q)
        BY <2>3
      <4> QED BY <4>1, <4>2, <4>3
    <3>3. q.at \in Early /\ "gate" \in Early
      BY <2>3 DEF Early
    <3> HIDE DEF q, h, new
    <3>2. IsSo(p, h) /\ p.at = "gate"
      BY <2>1, <3>3, MovesSo
    <3> HIDE DEF p
    <3> QED BY <3>1, <3>2 DEF h
  <2>4. CASE q.at # "out" /\ q.at # "waiting"
    <3> HIDE DEF dropped, gate
    <3>1. new(r) = q
      BY <2>4
    <3> HIDE DEF new
    <3> QED BY <2>1, <2>4, <3>1
  <2> QED BY <2>2, <2>3, <2>4
<1> HIDE DEF new
<1>3. TableSo(req', heard') /\ \A r \in Requests : req'[r].at # "waiting"
  BY <1>1, <1>2 DEF TableSo
<1>4. HeardSo'
  BY <1>1 DEF RequestInv, HeardSo
<1>5. SlotsSo(req', slots', closed')
  <2> DEFINE none == <<>> zero == 0 yes == TRUE
  <2>1. slots' = [taken |-> zero, waiting |-> none] /\ closed' = yes
    BY <1>1 DEF Drained
  <2>2. none \in Seq(Requests) /\ DOMAIN none = {} /\ none = <<>> /\ zero \in Nat /\ zero <= Limit
    BY SessionAssumption
  <2>3. yes
    OBVIOUS
  <2> HIDE DEF none, zero, yes
  <2>4. SlotsHold(req', zero, none, yes)
    BY <1>3, <2>2, <2>3 DEF SlotsHold, IsInjectiveList, InList
  <2> QED BY <2>1, <2>4, SlotsAre
<1> QED BY <1>3, <1>4, <1>5 DEF RequestInv

-----------------------------------------------------------------------------
(* The airport list.                                                       *)

ListIs(at, chunks, outcome) == [at |-> at, chunks |-> chunks, outcome |-> outcome]

IsList(a) ==
  /\ a = ListIs(a.at, a.chunks, a.outcome) /\ a.chunks \in Nat
  /\ a.at # "done" => a.outcome = None
  /\ a.outcome = "ok" => a.chunks = Chunks

ListsSo == list = [l \in Lists |-> list[l]] /\ \A l \in Lists : IsList(list[l])

LEMMA ListParts ==
  ASSUME NEW at, NEW chunks \in Nat, NEW outcome,
         at # "done" => outcome = None, outcome = "ok" => chunks = Chunks
  PROVE  IsList(ListIs(at, chunks, outcome))
<1> DEFINE a == ListIs(at, chunks, outcome)
<1>1. a.at = at /\ a.chunks = chunks /\ a.outcome = outcome
  BY DEF ListIs
<1> HIDE DEF a
<1>2. a = ListIs(a.at, a.chunks, a.outcome)
  BY <1>1 DEF a
<1>3. IsList(a)
  BY <1>1, <1>2 DEF IsList
<1> QED BY <1>3 DEF a

ListMoved(a, at) == [a EXCEPT !.at = at]
ListEnded(a, at, outcome) == [a EXCEPT !.at = at, !.outcome = outcome]
ListGrown(a, chunks, at, outcome) == [a EXCEPT !.chunks = chunks, !.at = at, !.outcome = outcome]

LEMMA ListFields ==
  ASSUME NEW a, IsList(a), NEW at, NEW chunks, NEW outcome
  PROVE  /\ ListMoved(a, at) = ListIs(at, a.chunks, a.outcome)
         /\ ListEnded(a, at, outcome) = ListIs(at, a.chunks, outcome)
         /\ ListGrown(a, chunks, at, outcome) = ListIs(at, chunks, outcome)
<1> DEFINE x == a.at y == a.chunks z == a.outcome
           b == ListIs(at, y, z)
           c == ListIs(x, chunks, z)
           d == ListIs(at, chunks, z)
<1>1. a = ListIs(x, y, z)
  BY DEF IsList
<1> HIDE DEF x, y, z
<1>2. [a EXCEPT !.at = at] = b
  BY <1>1 DEF ListIs
<1>3. [b EXCEPT !.outcome = outcome] = ListIs(at, y, outcome)
  BY DEF ListIs
<1>4. [a EXCEPT !.chunks = chunks] = c
  BY <1>1 DEF ListIs
<1>5. [c EXCEPT !.at = at] = d
  BY DEF ListIs
<1>6. [d EXCEPT !.outcome = outcome] = ListIs(at, chunks, outcome)
  BY DEF ListIs
<1> HIDE DEF b, c, d
<1> QED BY <1>2, <1>3, <1>4, <1>5, <1>6 DEF b, y, z, ListMoved, ListEnded, ListGrown

LEMMA OneListChanges ==
  ASSUME ListsSo, NEW l \in Lists, NEW a, IsList(a), list' = [list EXCEPT ![l] = a]
  PROVE  ListsSo'
<1> DEFINE new == list'
<1>1. new = [list EXCEPT ![l] = a] /\ list = [m \in Lists |-> list[m]]
  BY DEF ListsSo
<1> HIDE DEF new
<1>2. new = [m \in Lists |-> new[m]] /\ new[l] = a /\ \A m \in Lists \ {l} : new[m] = list[m]
  BY <1>1
<1> QED BY <1>2 DEF ListsSo, new

LEMMA ListEndsSo ==
  ASSUME ListsSo, NEW l \in Lists, NEW outcome, outcome # "ok", ListEnds(l, outcome)
  PROVE  ListsSo'
<1> DEFINE a == list[l] done == "done" b == ListEnded(a, done, outcome)
<1>1. list' = [list EXCEPT ![l] = b]
  BY DEF ListEnds, ListsSo, ListEnded
<1>2. IsList(a) /\ a.chunks \in Nat
  BY DEF ListsSo, IsList
<1>3. IsList(b)
  <2>1. done = "done"
    OBVIOUS
  <2> HIDE DEF a, done
  <2>2. b = ListIs(done, a.chunks, outcome)
    BY <1>2, ListFields
  <2> HIDE DEF b
  <2> QED BY <1>2, <2>1, <2>2, ListParts
<1> HIDE DEF b
<1> QED BY <1>1, <1>3, OneListChanges

LEMMA ListMovesSo ==
  ASSUME ListsSo, NEW l \in Lists, NEW at, at # "done", list[l].at # "done",
         list' = [list EXCEPT ![l].at = at]
  PROVE  ListsSo'
<1> DEFINE a == list[l] b == ListMoved(a, at)
<1>1. list' = [list EXCEPT ![l] = b]
  BY DEF ListMoved
<1>2. IsList(a) /\ a.chunks \in Nat /\ a.outcome = None
  BY DEF ListsSo, IsList
<1>3. IsList(b)
  <2> HIDE DEF a
  <2>2. b = ListIs(at, a.chunks, a.outcome)
    BY <1>2, ListFields
  <2> HIDE DEF b
  <2> QED BY <1>2, <2>2, ListParts DEF None
<1> HIDE DEF b
<1> QED BY <1>1, <1>3, OneListChanges

LEMMA ListStepKeeps ==
  ASSUME ListsSo, NEW l \in Lists, NEW bad \in BOOLEAN, NEW outcome \in {"timeout", "failed"},
         AskList(l) \/ SendList(l, bad) \/ ChunkArrives(l, bad) \/ ListFails(l, outcome)
  PROVE  ListsSo'
<1>1. CASE AskList(l)
  BY <1>1, ListMovesSo DEF AskList
<1>2. CASE SendList(l, bad)
  BY <1>2, ListMovesSo, ListEndsSo DEF SendList
<1>3. CASE ListFails(l, outcome)
  BY <1>3, ListEndsSo DEF ListFails
<1>4. CASE ChunkArrives(l, bad) /\ ~bad
  BY <1>4, ListEndsSo DEF ChunkArrives
<1>5. CASE ChunkArrives(l, bad) /\ bad
  <2> DEFINE a == list[l] n == a.chunks + 1
             at == IF LastChunk(n) THEN "done" ELSE a.at
             end == IF LastChunk(n) THEN "ok" ELSE a.outcome
             b == ListGrown(a, n, at, end)
  <2>1. list' = [list EXCEPT ![l] = b] /\ a.at = "out" /\ n <= Chunks
    BY <1>5 DEF ChunkArrives, ListGrown
  <2>2. IsList(a) /\ a.chunks \in Nat /\ (a.at # "done" => a.outcome = None)
    BY DEF ListsSo, IsList
  <2>3. n \in Nat /\ (at # "done" => end = None) /\ (end = "ok" => n = Chunks)
    BY <2>1, <2>2, SessionAssumption DEF LastChunk, None
  <2> HIDE DEF a, n, at, end
  <2>4. b = ListIs(at, n, end)
    BY <2>2, ListFields
  <2> HIDE DEF b
  <2>5. IsList(b)
    BY <2>3, <2>4, ListParts
  <2> QED BY <2>1, <2>5, OneListChanges
<1> QED BY <1>1, <1>2, <1>3, <1>4, <1>5

LEMMA CloseLists ==
  ASSUME ListsSo, Close
  PROVE  ListsSo'
<1> DEFINE new(l) == IF list[l].at = "out" THEN [list[l] EXCEPT !.at = "done", !.outcome = "aborted"] ELSE list[l]
<1>1. list' = [l \in Lists |-> new(l)]
  BY Zenon DEF Close
<1>2. ASSUME NEW l \in Lists PROVE IsList(new(l))
  <2> DEFINE a == list[l] done == "done" aborted == "aborted" b == ListEnded(a, done, aborted)
  <2>1. IsList(a) /\ a.chunks \in Nat
    BY DEF ListsSo, IsList
  <2>2. done = "done" /\ aborted # "ok"
    OBVIOUS
  <2>3. new(l) = IF a.at = "out" THEN b ELSE a
    BY DEF ListEnded
  <2> HIDE DEF a, done, aborted
  <2>4. b = ListIs(done, a.chunks, aborted)
    BY <2>1, ListFields
  <2> HIDE DEF b
  <2>5. IsList(b)
    BY <2>1, <2>2, <2>4, ListParts
  <2> QED BY <2>1, <2>3, <2>5
<1> HIDE DEF new
<1> QED BY <1>1, <1>2 DEF ListsSo

-----------------------------------------------------------------------------
(* Both together.                                                          *)

SessionInv == RequestInv /\ ListsSo

LEMMA SessionInit ==
  ASSUME Init
  PROVE  SessionInv
<1>1. /\ req = [r \in Requests |-> Idle]
      /\ heard = [r \in Requests |-> [n \in Attempts |-> Silent]]
      /\ slots = [taken |-> 0, waiting |-> <<>>]
      /\ list = [l \in Lists |-> [at |-> "idle", chunks |-> 0, outcome |-> None]]
  BY DEF Init
<1>2. IsReq(Idle) /\ Idle.at = "idle" /\ Idle.n = 0 /\ Idle.outcome = None
  BY DEF IsReq, Idle, Req, Stages, Tries
<1>3. Silent.rows = 0 /\ Silent = [rows |-> Silent.rows, over |-> Silent.over]
  BY DEF Silent
<1>4. HeardSo
  <2> HIDE DEF Silent
  <2>1. \A r \in Requests : heard[r] = [n \in Attempts |-> Silent]
    BY <1>1
  <2>2. \A r \in Requests, n \in Attempts : heard[r][n] = Silent
    BY <2>1
  <2>3. heard = [r \in Requests |-> heard[r]]
    BY <1>1
  <2>4. \A r \in Requests : heard[r] = [n \in Attempts |-> heard[r][n]]
    BY <2>1, <2>2
  <2>5. heard = [r \in Requests |-> [n \in Attempts |-> heard[r][n]]]
    BY <2>3, <2>4
  <2> QED BY <1>3, <2>2, <2>5 DEF HeardSo
<1>5. TableSo(req, heard)
  <2>1. ASSUME NEW r \in Requests PROVE IsSo(req[r], heard[r])
    <3>1. req[r] = Idle
      BY <1>1
    <3>2. \A n \in Attempts : heard[r][n].rows = 0
      BY <1>1, <1>3
    <3>3. Answered(Idle, heard[r])
      BY <1>2, <3>2 DEF Answered, LaterUnheard, None
    <3> QED BY <1>2, <3>1, <3>3 DEF IsSo
  <2> QED BY <1>1, <2>1 DEF TableSo
<1>6. SlotsSo(req, slots, closed)
  <2> DEFINE none == <<>> zero == 0
  <2>1. slots = [taken |-> zero, waiting |-> none]
    BY <1>1
  <2>2. none \in Seq(Requests) /\ DOMAIN none = {} /\ none = <<>> /\ zero \in Nat /\ zero <= Limit
    BY SessionAssumption
  <2>3. \A r \in Requests : req[r].at = "idle"
    BY <1>1, <1>2
  <2>4. HoldersOf(req) = {}
    BY <2>3 DEF HoldersOf, Holding
  <2>5. IsFiniteSet(HoldersOf(req)) /\ zero = Cardinality(HoldersOf(req))
    BY <2>4, FS_EmptySet
  <2> HIDE DEF none, zero
  <2>6. SlotsHold(req, zero, none, closed)
    BY <2>2, <2>3, <2>5 DEF SlotsHold, IsInjectiveList, InList
  <2> QED BY <2>1, <2>6, SlotsAre
<1>7. ListsSo
  <2> DEFINE a == ListIs("idle", 0, None)
  <2>1. list = [l \in Lists |-> a]
    BY <1>1 DEF ListIs
  <2>2. IsList(a)
    BY ListParts DEF None
  <2> HIDE DEF a
  <2> QED BY <2>1, <2>2 DEF ListsSo
<1> QED BY <1>4, <1>5, <1>6, <1>7 DEF SessionInv, RequestInv

LEMMA SessionKeeps ==
  ASSUME SessionInv, [Next]_vars
  PROVE  SessionInv'
<1> USE DEF SessionInv
<1>1. ASSUME UNCHANGED <<req, heard, slots, closed>> PROVE RequestInv'
  BY <1>1 DEF RequestInv, HeardSo
<1>2. ASSUME UNCHANGED list PROVE ListsSo'
  BY <1>2 DEF ListsSo
<1>3. ASSUME NEW r \in Requests, Fetch(r) \/ Queue(r) PROVE SessionInv'
  <2>1. UNCHANGED list
    BY <1>3 DEF Fetch, Queue
  <2> QED BY <1>2, <1>3, <2>1, CallKeeps
<1>4. ASSUME NEW r \in Requests, NEW how, Send(r, how) PROVE SessionInv'
  <2>1. UNCHANGED list
    BY <1>4 DEF Send
  <2> QED BY <1>2, <1>4, <2>1, SendKeeps
<1>5. ASSUME NEW r \in Requests, NEW how, TimesOut(r, how) PROVE SessionInv'
  <2>1. UNCHANGED list
    BY <1>5 DEF TimesOut
  <2> QED BY <1>2, <1>5, <2>1, TimesOutKeeps
<1>6. ASSUME NEW r \in Requests, NEW n \in Attempts, NEW decoded \in BOOLEAN, RowArrives(r, n, decoded)
      PROVE  SessionInv'
  <2>1. UNCHANGED list
    BY <1>6 DEF RowArrives
  <2> QED BY <1>2, <1>6, <2>1, RowKeeps
<1>7. ASSUME NEW r \in Requests, NEW n \in Attempts, NEW outcome, AnswerEnds(r, n, outcome)
      PROVE  SessionInv'
  <2>1. UNCHANGED list
    BY <1>7 DEF AnswerEnds
  <2> QED BY <1>2, <1>7, <2>1, AnswerKeeps
<1>8. ASSUME NEW l \in Lists, NEW bad \in BOOLEAN, NEW outcome \in {"timeout", "failed"},
             AskList(l) \/ SendList(l, bad) \/ ChunkArrives(l, bad) \/ ListFails(l, outcome)
      PROVE  SessionInv'
  <2>1. UNCHANGED <<req, heard, slots, closed>>
    BY <1>8 DEF AskList, SendList, ChunkArrives, ListFails
  <2> QED BY <1>1, <1>8, <2>1, ListStepKeeps
<1>9. ASSUME \/ \E throws \in BOOLEAN :
                  Prepare(throws) \/ \E pruned \in Prunings : Probed(pruned, throws)
             \/ \E refused \in Refusals : Built(refused)
             \/ UNCHANGED vars
      PROVE  SessionInv'
  <2>1. UNCHANGED <<req, heard, slots, closed>> /\ UNCHANGED list
    BY <1>9 DEF Prepare, Probed, Built, vars
  <2> QED BY <1>1, <1>2, <2>1
<1>10. ASSUME Close PROVE SessionInv'
  BY <1>10, CloseKeeps, CloseLists
<1>11. ASSUME NEW l \in Lists, AskList(l) \/ (\E bad \in BOOLEAN : SendList(l, bad) \/ ChunkArrives(l, bad))
                               \/ \E outcome \in {"timeout", "failed"} : ListFails(l, outcome)
       PROVE  SessionInv'
  <2>1. TRUE \in BOOLEAN /\ "failed" \in {"timeout", "failed"}
    OBVIOUS
  <2> QED BY <1>8, <1>11, <2>1
<1> QED BY <1>3, <1>4, <1>5, <1>6, <1>7, <1>9, <1>10, <1>11 DEF Next, Proceeds

\* An attempt that timed out leaves nothing to the next, neither its rows nor its
\* slot (navdata-facilities.ts 640-790).
THEOREM AttemptsAreAlwaysApart == Spec => []AttemptsAreApart
<1>1. SessionInv => AttemptsAreApart
  <2>1. SUFFICES ASSUME SessionInv PROVE AttemptsAreApart
    OBVIOUS
  <2>2. WholeAnswers
    <3>1. \A r \in Requests : req[r].outcome = "ok" => req[r].rows = {<<req[r].n, i>> : i \in 1..Rows}
      BY <2>1 DEF SessionInv, RequestInv, TableSo, IsSo, Answered, Whole
    <3>2. \A l \in Lists : list[l].outcome = "ok" => list[l].chunks = Chunks
      BY <2>1 DEF SessionInv, ListsSo, IsList
    <3> QED BY <3>1, <3>2 DEF WholeAnswers
  <2>3. SlotsAreHeld
    <3>1. /\ slots.waiting \in Seq(Requests) /\ slots.taken <= Limit
          /\ slots.waiting # <<>> => slots.taken = Limit
          /\ \A r \in Requests : req[r].at = "waiting" <=> InList(slots.waiting, r)
          /\ ~closed => slots.taken = Cardinality(HoldersOf(req))
      BY <2>1 DEF SessionInv, RequestInv, SlotsSo, SlotsHold
    <3>2. HoldersOf(req) = Holders
      BY DEF HoldersOf, Holders, Holding
    <3>3. \A i \in DOMAIN slots.waiting : slots.waiting[i] \in Requests
      BY <3>1
    <3>4. {r \in Requests : req[r].at = "waiting"} = {slots.waiting[i] : i \in DOMAIN slots.waiting}
      BY <3>1, <3>3 DEF InList
    <3> QED BY <3>1, <3>2, <3>4 DEF SlotsAreHeld
  <2> QED BY <2>2, <2>3 DEF AttemptsAreApart
<1> QED BY <1>1, SessionInit, SessionKeeps, PTL DEF Spec

-----------------------------------------------------------------------------
(* The definition as it is pruned.                                         *)

Over(p, q) == Len(q) <= Len(p) /\ \A i \in 1..Len(q) : q[i] = p[i]

LEMMA UnderIsOver ==
  ASSUME NEW p \in Nodes, NEW q \in Nodes
  PROVE  <<p, q>> \in Under <=> Over(p, q)
<1>1. p \in Seq(Entries) /\ q \in Seq(Entries) /\ Len(p) \in Nat /\ Len(q) \in Nat
  BY DefinitionAssumption
<1>2. <<p, q>> \in Under <=> Len(q) <= Len(p) /\ SubSeq(p, 1, Len(q)) = q
  BY DEF Under
<1>3. ASSUME Len(q) <= Len(p) PROVE SubSeq(p, 1, Len(q)) = q <=> \A i \in 1..Len(q) : q[i] = p[i]
  <2> DEFINE s == SubSeq(p, 1, Len(q))
  <2>1. s \in Seq(Entries) /\ Len(s) = Len(q) /\ \A i \in 1..Len(q) : s[i] = p[i]
    BY <1>1, <1>3
  <2> HIDE DEF s
  <2>2. s = q => \A i \in 1..Len(q) : q[i] = p[i]
    BY <2>1
  <2>3. (\A i \in 1..Len(q) : q[i] = p[i]) => s = q
    BY <1>1, <2>1, SeqEqual
  <2> QED BY <2>2, <2>3 DEF s
<1> QED BY <1>2, <1>3 DEF Over

LEMMA UnderIsAnOrder ==
  ASSUME NEW p \in Nodes
  PROVE  /\ <<p, p>> \in Under
         /\ \A q, r \in Nodes : <<p, q>> \in Under /\ <<q, r>> \in Under => <<p, r>> \in Under
         /\ \A q \in Nodes \ {p} : <<p, q>> \in Under => Len(q) < Len(p)
<1>1. p \in Seq(Entries) /\ Len(p) \in Nat
  BY DefinitionAssumption
<1>2. <<p, p>> \in Under
  BY <1>1, UnderIsOver DEF Over
<1>3. ASSUME NEW q \in Nodes, NEW r \in Nodes, Over(p, q), Over(q, r) PROVE Over(p, r)
  <2>1. Len(q) \in Nat /\ Len(r) \in Nat
    BY DefinitionAssumption
  <2>2. Len(r) <= Len(p) /\ \A i \in 1..Len(r) : i \in 1..Len(q)
    BY <1>1, <1>3, <2>1 DEF Over
  <2> QED BY <1>3, <2>2 DEF Over
<1>4. ASSUME NEW q \in Nodes \ {p}, Over(p, q) PROVE Len(q) < Len(p)
  <2>1. q \in Seq(Entries) /\ Len(q) \in Nat
    BY DefinitionAssumption
  <2>2. Len(q) # Len(p)
    <3>1. ASSUME Len(q) = Len(p) PROVE q = p
      BY <1>1, <1>4, <2>1, <3>1, SeqEqual DEF Over
    <3> QED BY <3>1
  <2> QED BY <1>1, <1>4, <2>1, <2>2 DEF Over
<1> QED BY <1>2, <1>3, <1>4, UnderIsOver

\* The first of some spellings of a group is one of them.
LEMMA FirstIsOne ==
  ASSUME NEW e \in Entries, NEW g \in Groups[e], NEW some, some \subseteq g, some # {}
  PROVE  First(some) \in some
<1> DEFINE ranks == {m[2] : m \in some}
<1>1. \A m \in some : m \in {e} \X Nat
  BY DefinitionAssumption
<1>2. ranks \in SUBSET Nat /\ ranks # {}
  BY <1>1
<1> HIDE DEF ranks
<1>3. PICK k \in ranks : \A j \in ranks : k <= j
  BY <1>2, LeastOf
<1>4. \E m \in some : \A other \in some : m[2] <= other[2]
  BY <1>3 DEF ranks
<1> QED BY <1>4 DEF First

\* Two groups with a spelling in common are the same.
LEMMA GroupsAreApart ==
  ASSUME NEW e \in Entries, NEW g \in Groups[e], NEW f \in Entries, NEW other \in Groups[f],
         NEW m \in g, m \in other
  PROVE  g = other
<1>1. g \subseteq {e} \X Nat /\ other \subseteq {f} \X Nat
  BY DefinitionAssumption
<1>2. m[1] = e /\ m[1] = f
  BY <1>1
<1> QED BY <1>2, DefinitionAssumption

LEMMA LeftIsAGroup ==
  ASSUME NEW refused, NEW g \in GroupsLeft(refused)
  PROVE  \E e \in Entries : g \in Groups[e]
<1>1. PICK n \in Nodes : g \in Groups[Entry(n)]
  BY DEF GroupsLeft, Visited, Kept
<1>2. Entry(n) \in Entries
  <2>1. n \in Seq(Entries) /\ n # <<>>
    BY DefinitionAssumption
  <2>2. Len(n) \in 1..Len(n)
    BY <2>1
  <2> QED BY <2>1, <2>2 DEF Entry
<1> QED BY <1>1, <1>2

\* An entry that is not left hangs at or below one that is reported lost.
LEMMA LostAboveTheRest ==
  ASSUME NEW refused, NEW n \in Nodes, n \notin Visited(refused) \cap Kept(refused)
  PROVE  \E up \in Nodes : <<n, up>> \in Under /\ Entry(up) \in LostEntries(refused)
<1>1. CASE n \in Visited(refused)
  <2>1. Entry(n) \in LostEntries(refused)
    BY <1>1 DEF LostEntries
  <2> QED BY <2>1, UnderIsAnOrder
<1>2. CASE n \notin Visited(refused)
  <2> DEFINE above == {up \in Nodes \ {n} : <<n, up>> \in Under /\ Entry(up) \in refused.entries}
             heights == {Len(up) : up \in above}
  <2>1. above # {}
    BY <1>2 DEF Visited
  <2>2. \A up \in Nodes : Len(up) \in Nat
    BY DefinitionAssumption
  <2>3. heights \in SUBSET Nat /\ heights # {}
    BY <2>1, <2>2
  <2>4. PICK top \in above : \A up \in above : Len(top) <= Len(up)
    <3> HIDE DEF heights
    <3>1. PICK k \in heights : \A j \in heights : k <= j
      BY <2>3, LeastOf
    <3> QED BY <3>1 DEF heights
  <2>5. top \in Nodes /\ <<n, top>> \in Under /\ Entry(top) \in refused.entries /\ top # n
    OBVIOUS
  <2>6. top \in Visited(refused)
    <3>1. ASSUME NEW up \in Nodes \ {top}, <<top, up>> \in Under, Entry(up) \in refused.entries
          PROVE  FALSE
      <4>1. <<n, up>> \in Under /\ Len(up) < Len(top) /\ Len(top) < Len(n)
        BY <2>5, <3>1, UnderIsAnOrder
      <4>2. up # n
        BY <2>2, <2>5, <4>1
      <4>3. up \in above
        BY <3>1, <4>1, <4>2
      <4> QED BY <2>2, <2>4, <2>5, <4>1, <4>3
    <3> QED BY <2>5, <3>1 DEF Visited
  <2>7. top \notin Kept(refused)
    BY <2>5, UnderIsAnOrder DEF Kept
  <2>8. Entry(top) \in LostEntries(refused)
    BY <2>6, <2>7 DEF LostEntries
  <2> QED BY <2>5, <2>8
<1> QED BY <1>1, <1>2

LEMMA SurvivorsAreSound ==
  ASSUME NEW refused
  PROVE  Survivors(refused) \cap refused.members = {}
<1>1. ASSUME NEW g \in GroupsLeft(refused), ~ g \subseteq refused.members
      PROVE  First(g \ refused.members) \notin refused.members
  <2>1. PICK e \in Entries : g \in Groups[e]
    BY LeftIsAGroup
  <2>2. g \ refused.members # {} /\ g \ refused.members \subseteq g
    BY <1>1
  <2>3. First(g \ refused.members) \in g \ refused.members
    BY <2>1, <2>2, FirstIsOne
  <2> QED BY <2>3
<1> QED BY <1>1 DEF Survivors

\* Of a group that is left, one spelling survives or is reported.
LEMMA OneOfEachGroup ==
  ASSUME NEW refused, NEW g \in GroupsLeft(refused)
  PROVE  \E m : \/ g \cap Survivors(refused) = {} /\ g \cap Lost(refused).members = {m}
                \/ g \cap Survivors(refused) = {m} /\ g \cap Lost(refused).members = {}
<1> DEFINE no == refused.members
           left == GroupsLeft(refused)
           kept == Survivors(refused)
           lost == {First(o) : o \in {f \in left : f \subseteq no}}
<1>1. Lost(refused).members = lost
  BY DEF Lost
<1>2. PICK e \in Entries : g \in Groups[e]
  BY LeftIsAGroup
<1>3. g # {}
  BY <1>2, DefinitionAssumption
<1>4. \A o \in left : o \subseteq no => First(o) \in o
  <2>1. SUFFICES ASSUME NEW o \in left, o \subseteq no PROVE First(o) \in o
    OBVIOUS
  <2>2. PICK f \in Entries : o \in Groups[f]
    BY LeftIsAGroup
  <2>3. o # {}
    BY <2>2, DefinitionAssumption
  <2> QED BY <2>2, <2>3, FirstIsOne
<1>5. \A o \in left : ~ o \subseteq no => First(o \ no) \in o \ no
  <2>1. SUFFICES ASSUME NEW o \in left, ~ o \subseteq no PROVE First(o \ no) \in o \ no
    OBVIOUS
  <2>2. PICK f \in Entries : o \in Groups[f]
    BY LeftIsAGroup
  <2>3. o \ no # {} /\ o \ no \subseteq o
    BY <2>1
  <2> QED BY <2>2, <2>3, FirstIsOne
<1>6. ASSUME NEW o \in left, NEW m \in g, m \in o PROVE o = g
  <2>1. PICK f \in Entries : o \in Groups[f]
    BY LeftIsAGroup
  <2> QED BY <1>2, <1>6, <2>1, GroupsAreApart
<1>7. CASE g \subseteq no
  <2>1. g \cap kept = {}
    BY <1>7, SurvivorsAreSound
  <2>2. g \cap lost = {First(g)}
    BY <1>4, <1>6, <1>7
  <2> QED BY <1>1, <2>1, <2>2
<1>8. CASE ~ g \subseteq no
  <2>1. g \cap lost = {}
    BY <1>4, <1>6, <1>8
  <2>2. First(g \ no) \in g \cap kept
    BY <1>5, <1>8 DEF Survivors
  <2>3. ASSUME NEW m \in g \cap kept PROVE m = First(g \ no)
    <3>1. PICK o \in left : ~ o \subseteq no /\ m = First(o \ no)
      BY <2>3 DEF Survivors
    <3>2. m \in o
      BY <1>5, <3>1
    <3>3. o = g
      BY <1>6, <2>3, <3>2
    <3> QED BY <3>1, <3>3
  <2>4. g \cap kept = {First(g \ no)}
    BY <2>2, <2>3
  <2> QED BY <1>1, <2>1, <2>4
<1> QED BY <1>7, <1>8

PassInv ==
  /\ pass = [at |-> pass.at, pruned |-> pass.pruned, refused |-> pass.refused]
  /\ pass.at = "build" => pass.pruned \in Prunings /\ pass.refused = pass.pruned.refused
  /\ built # NotBuilt =>
       /\ pass.at = "done" /\ pass.pruned \in Prunings
       /\ \E refused \in Refusals :
            /\ built = Rebuilt(pass.pruned, refused)
            /\ pass.refused = pass.pruned.refused \cup (pass.pruned.definition.members \cap refused.members)

\* No member goes missing in silence (navdata-facilities.ts 554-567).
THEOREM LostIsAlwaysReported == Spec => []LostIsReported
<1>1. Init => PassInv
  BY DEF Init, PassInv, None
<1>2. PassInv /\ [Next]_vars => PassInv'
  <2> SUFFICES ASSUME PassInv, [Next]_vars PROVE PassInv'
    OBVIOUS
  <2>1. CASE UNCHANGED <<pass, built>>
    BY <2>1 DEF PassInv
  <2>2. ASSUME NEW throws \in BOOLEAN, Prepare(throws) PROVE PassInv'
    <3> DEFINE at == IF closed \/ throws THEN "done" ELSE "probe"
               new == pass'
    <3>1. new = [pass EXCEPT !.at = at] /\ built' = built /\ pass.at = None
      BY <2>2 DEF Prepare
    <3>2. at # "build"
      OBVIOUS
    <3>3. built = NotBuilt
      BY <3>1 DEF PassInv, None
    <3> HIDE DEF at, new
    <3>4. new = [at |-> at, pruned |-> pass.pruned, refused |-> pass.refused]
      BY <3>1 DEF PassInv
    <3> QED BY <3>1, <3>2, <3>3, <3>4 DEF PassInv, new
  <2>3. ASSUME NEW pruned \in Prunings, NEW throws \in BOOLEAN, Probed(pruned, throws) PROVE PassInv'
    <3>1. built = NotBuilt /\ built' = built
      BY <2>3 DEF Probed, PassInv
    <3>2. pass' = [at |-> IF throws THEN "done" ELSE "build", pruned |-> pruned, refused |-> pruned.refused]
      BY <2>3 DEF Probed
    <3> QED BY <3>1, <3>2 DEF PassInv
  <2>4. ASSUME NEW refused \in Refusals, Built(refused) PROVE PassInv'
    <3> DEFINE at == pass.at p == pass.pruned r == pass.refused
               all == r \cup (p.definition.members \cap refused.members)
    <3>1. /\ pass' = [pass EXCEPT !.at = "done", !.refused = all]
          /\ built' = NotBuilt \/ built' = Rebuilt(p, refused)
          /\ p \in Prunings /\ r = p.refused
      BY <2>4 DEF Built, PassInv
    <3>2. pass = [at |-> at, pruned |-> p, refused |-> r]
      BY DEF PassInv
    <3>3. all = p.refused \cup (p.definition.members \cap refused.members)
      BY <3>1
    <3> HIDE DEF at, p, r, all
    <3>4. pass' = [at |-> "done", pruned |-> p, refused |-> all]
      BY <3>1, <3>2
    <3>5. /\ pass' = [at |-> pass'.at, pruned |-> pass'.pruned, refused |-> pass'.refused]
          /\ pass'.at = "done" /\ pass'.pruned = p
          /\ pass'.refused = p.refused \cup (p.definition.members \cap refused.members)
      BY <3>3, <3>4
    <3>6. built' # NotBuilt => built' = Rebuilt(pass'.pruned, refused)
      BY <3>1, <3>5
    <3> QED BY <3>1, <3>5, <3>6 DEF PassInv
  <2>5. ASSUME NEW r \in Requests,
               \/ Fetch(r) \/ Proceeds(r)
               \/ \E n \in Attempts :
                    \/ \E decoded \in BOOLEAN : RowArrives(r, n, decoded)
                    \/ \E outcome \in {"ok", "resolved-ambiguous", "failed"} : AnswerEnds(r, n, outcome)
        PROVE  UNCHANGED <<pass, built>>
    <3>1. Fetch(r) \/ Queue(r) => UNCHANGED <<pass, built>>
      BY DEF Fetch, Queue
    <3>2. \A how : Send(r, how) \/ TimesOut(r, how) => UNCHANGED <<pass, built>>
      BY DEF Send, TimesOut
    <3>3. \A n, decoded : RowArrives(r, n, decoded) => UNCHANGED <<pass, built>>
      BY DEF RowArrives
    <3>4. \A n, outcome : AnswerEnds(r, n, outcome) => UNCHANGED <<pass, built>>
      BY DEF AnswerEnds
    <3> QED BY <2>5, <3>1, <3>2, <3>3, <3>4 DEF Proceeds
  <2>6. ASSUME NEW l \in Lists,
               \/ AskList(l)
               \/ \E bad \in BOOLEAN : SendList(l, bad) \/ ChunkArrives(l, bad)
               \/ \E outcome \in {"timeout", "failed"} : ListFails(l, outcome)
        PROVE  UNCHANGED <<pass, built>>
    BY <2>6 DEF AskList, SendList, ChunkArrives, ListFails
  <2>7. Close => UNCHANGED <<pass, built>>
    BY Zenon DEF Close
  <2>8. UNCHANGED vars => UNCHANGED <<pass, built>>
    BY DEF vars
  <2> QED BY <2>1, <2>2, <2>3, <2>4, <2>5, <2>6, <2>7, <2>8 DEF Next
<1>3. PassInv => LostIsReported
  <2> SUFFICES ASSUME PassInv, built # NotBuilt PROVE
        /\ built.members \cap pass.refused = {}
        /\ \A n \in Nodes :
             \/ \E up \in Nodes : <<n, up>> \in Under /\ Entry(up) \in built.lost.entries
             \/ \A g \in Groups[Entry(n)] :
                  Cardinality(g \cap built.members) + Cardinality(g \cap built.lost.members) = 1
    BY DEF LostIsReported
  <2>1. PICK probed \in Refusals : pass.pruned = Pruned(probed)
    BY DEF PassInv, Prunings
  <2>2. PICK more \in Refusals :
          /\ built = Rebuilt(pass.pruned, more)
          /\ pass.refused = pass.pruned.refused \cup (pass.pruned.definition.members \cap more.members)
    BY DEF PassInv
  <2> DEFINE kept == Survivors(probed)
             open == {Entry(n) : n \in Visited(probed) \cap Kept(probed)}
  <2>3. /\ pass.refused = probed.members \cup (kept \cap more.members)
        /\ built.members = {m \in kept : m \notin more.members /\ m[1] \notin more.entries}
        /\ built.lost.entries = LostEntries(probed) \cup (open \cap more.entries)
        /\ built.lost.members = Lost(probed).members \cup (kept \cap more.members)
    BY <2>1, <2>2 DEF Pruned, Rebuilt, Accepted, Lost
  <2> HIDE DEF kept
  <2>4. ASSUME NEW n \in Nodes, ~\E up \in Nodes : <<n, up>> \in Under /\ Entry(up) \in built.lost.entries,
               NEW g \in Groups[Entry(n)]
        PROVE  Cardinality(g \cap built.members) + Cardinality(g \cap built.lost.members) = 1
    <3>1. n \in Visited(probed) \cap Kept(probed)
      BY <2>3, <2>4, LostAboveTheRest
    <3>2. g \in GroupsLeft(probed)
      BY <3>1 DEF GroupsLeft
    <3>3. Entry(n) \notin more.entries
      BY <2>3, <2>4, <3>1, UnderIsAnOrder
    <3>4. \A m \in g : m[1] \notin more.entries
      <4>1. Entry(n) \in Entries
        BY DefinitionAssumption DEF Entry
      <4>2. g \subseteq {Entry(n)} \X Nat
        BY <4>1, DefinitionAssumption
      <4> QED BY <3>3, <4>2
    <3> DEFINE a == g \cap kept
               b == g \cap Lost(probed).members
    <3>5. /\ g \cap built.members = a \ more.members
          /\ g \cap built.lost.members = b \cup (a \cap more.members)
      BY <2>3, <3>4
    <3>6. PICK m : (a = {} /\ b = {m}) \/ (a = {m} /\ b = {})
      BY <3>2, OneOfEachGroup DEF kept
    <3> HIDE DEF a, b
    <3>7. \/ a \ more.members = {} /\ b \cup (a \cap more.members) = {m}
          \/ a \ more.members = {m} /\ b \cup (a \cap more.members) = {}
      BY <3>6
    <3>8. Cardinality({}) = 0 /\ Cardinality({m}) = 1
      BY FS_EmptySet, FS_Singleton
    <3>9. CASE a \ more.members = {} /\ b \cup (a \cap more.members) = {m}
      BY <3>5, <3>8, <3>9
    <3>10. CASE a \ more.members = {m} /\ b \cup (a \cap more.members) = {}
      BY <3>5, <3>8, <3>10
    <3> QED BY <3>7, <3>9, <3>10
  <2>5. built.members \cap pass.refused = {}
    BY <2>3, SurvivorsAreSound DEF kept
  <2> QED BY <2>4, <2>5
<1> QED BY <1>1, <1>2, <1>3, PTL DEF Spec

-----------------------------------------------------------------------------
(* The state of an airport.                                                *)

Fields == {"state", "place", "runways", "frequencies", "procedures", "lists", "legs", "absent"}
Parts == {"seen", "fetched", "last", "whole", "details", "lost"}

DetailTypes ==
  /\ DOMAIN known = Fields /\ DOMAIN history = Parts /\ history.lost \in Nat
  /\ call.at \in {"idle", "out"}

\* What a fetch that stores nothing puts back was earned before it, and what the
\* simulator holds has been seen.
Earned ==
  /\ StateIsEarned
  /\ call.at = "out" =>
       /\ call.prior = "detail" => history.last # Nothing
       /\ call.prior = "pending" => history.lost > 0
  /\ world \in history.seen

\* What a row says of the airport's state, and what the history says of its bounds.
KnownAs(k, state, absent) == DOMAIN k = Fields /\ k.state = state /\ k.absent = absent
HistoryAs(h, seen, last, lost) ==
  DOMAIN h = Parts /\ h.seen = seen /\ h.last = last /\ h.lost = lost

InState(k, s) == [k EXCEPT !.state = s]
WithAbsence(k, s, a) == [k EXCEPT !.state = s, !.absent = a]

LEMMA InStateIs ==
  ASSUME NEW k, DOMAIN k = Fields, NEW s
  PROVE  KnownAs(InState(k, s), s, k.absent)
BY DEF InState, KnownAs, Fields

LEMMA WithAbsenceIs ==
  ASSUME NEW k, DOMAIN k = Fields, NEW s, NEW a
  PROVE  KnownAs(WithAbsence(k, s, a), s, a)
<1> DEFINE k1 == [k EXCEPT !.state = s]
<1>1. DOMAIN k1 = Fields
  BY DEF Fields
<1>2. WithAbsence(k, s, a) = [k1 EXCEPT !.absent = a] /\ k1.state = s
  BY DEF WithAbsence, Fields
<1> HIDE DEF k1
<1> QED BY <1>1, <1>2 DEF KnownAs, Fields

LEMMA WrittenIs ==
  ASSUME NEW k, DOMAIN k = Fields, NEW dec
  PROVE  KnownAs(WriteDetail(k, dec), "detail", k.absent)
<1> PICK s, p, r, f, q, l, g :
      WriteDetail(k, dec) =
        [k EXCEPT !.state = s, !.place = p, !.runways = r, !.frequencies = f,
                  !.procedures = q, !.lists = l, !.legs = g]
      /\ s = "detail"
  BY Zenon DEF WriteDetail
<1> DEFINE k1 == [k EXCEPT !.state = s]
           k2 == [k1 EXCEPT !.place = p]
           k3 == [k2 EXCEPT !.runways = r]
           k4 == [k3 EXCEPT !.frequencies = f]
           k5 == [k4 EXCEPT !.procedures = q]
           k6 == [k5 EXCEPT !.lists = l]
           k7 == [k6 EXCEPT !.legs = g]
<1>0. WriteDetail(k, dec) = k7
  OBVIOUS
<1>1. DOMAIN k1 = Fields /\ k1.state = s /\ k1.absent = k.absent
  BY DEF Fields
<1> HIDE DEF k1
<1>2. DOMAIN k2 = Fields /\ k2.state = s /\ k2.absent = k.absent
  BY <1>1 DEF Fields
<1> HIDE DEF k2
<1>3. DOMAIN k3 = Fields /\ k3.state = s /\ k3.absent = k.absent
  BY <1>2 DEF Fields
<1> HIDE DEF k3
<1>4. DOMAIN k4 = Fields /\ k4.state = s /\ k4.absent = k.absent
  BY <1>3 DEF Fields
<1> HIDE DEF k4
<1>5. DOMAIN k5 = Fields /\ k5.state = s /\ k5.absent = k.absent
  BY <1>4 DEF Fields
<1> HIDE DEF k5
<1>6. DOMAIN k6 = Fields /\ k6.state = s /\ k6.absent = k.absent
  BY <1>5 DEF Fields
<1> HIDE DEF k6
<1>7. DOMAIN k7 = Fields /\ k7.state = s /\ k7.absent = k.absent
  BY <1>6 DEF Fields
<1> HIDE DEF k7
<1> QED BY <1>0, <1>7 DEF KnownAs

Spent(h, x) == [h EXCEPT !.details = x]
Losing(h) == [h EXCEPT !.lost = @ + 1]
Seeing(h, x) == [h EXCEPT !.seen = x]
Fetching(h, y, v, z) == [h EXCEPT !.fetched = y, !.last = v, !.whole = z]

LEMMA SpentIs ==
  ASSUME NEW h, DOMAIN h = Parts, NEW x PROVE HistoryAs(Spent(h, x), h.seen, h.last, h.lost)
BY DEF Spent, HistoryAs, Parts

LEMMA LosingIs ==
  ASSUME NEW h, DOMAIN h = Parts PROVE HistoryAs(Losing(h), h.seen, h.last, h.lost + 1)
BY DEF Losing, HistoryAs, Parts

LEMMA SeeingIs ==
  ASSUME NEW h, DOMAIN h = Parts, NEW x PROVE HistoryAs(Seeing(h, x), x, h.last, h.lost)
BY DEF Seeing, HistoryAs, Parts

LEMMA FetchingIs ==
  ASSUME NEW h, DOMAIN h = Parts, NEW y, NEW v, NEW z
  PROVE  HistoryAs(Fetching(h, y, v, z), h.seen, v, h.lost)
<1> DEFINE h1 == [h EXCEPT !.fetched = y]
           h2 == [h1 EXCEPT !.last = v]
           h3 == [h2 EXCEPT !.whole = z]
<1>1. Fetching(h, y, v, z) = h3
  BY DEF Fetching
<1>2. HistoryAs(h1, h.seen, h.last, h.lost)
  BY DEF HistoryAs, Parts
<1> HIDE DEF h1
<1>3. HistoryAs(h2, h.seen, v, h.lost)
  BY <1>2 DEF HistoryAs, Parts
<1> HIDE DEF h2
<1>4. HistoryAs(h3, h.seen, v, h.lost)
  BY <1>3 DEF HistoryAs, Parts
<1> HIDE DEF h3
<1> QED BY <1>1, <1>4

\* A fetch that is over, whatever the store made of what was written.
LEMMA EndKeeps ==
  ASSUME DetailTypes, Earned, call.at = "out", NEW after, EndsWith(after), NEW s, NEW a, KnownAs(after, s, a),
         s = "detail" => history.last # Nothing,
         s = "pending" => history.lost > 0,
         "exception" \in a => Nothing \in history.seen
  PROVE  DetailTypes' /\ Earned'
<1>1. call' = Unasked /\ UNCHANGED world
  BY DEF EndsWith, FetchOver
<1>2. call'.at = "idle"
  BY <1>1 DEF Unasked
<1>3. CASE known' = after /\ UNCHANGED history
  BY <1>1, <1>2, <1>3 DEF DetailTypes, Earned, StateIsEarned, KnownAs
<1>4. CASE history' = [history EXCEPT !.lost = @ + 1] /\ UNCHANGED known
  <2>1. HistoryAs(history', history.seen, history.last, history.lost + 1)
    BY <1>4, LosingIs DEF DetailTypes, Losing
  <2>2. history.lost + 1 \in Nat /\ history.lost + 1 > 0
    BY DEF DetailTypes
  <2> QED BY <1>1, <1>2, <1>4, <2>1, <2>2 DEF DetailTypes, Earned, StateIsEarned, HistoryAs
<1> QED BY <1>3, <1>4 DEF EndsWith

LEMMA RestoredKeeps == ASSUME DetailTypes, Earned, call.at = "out", EndsWith(Restored) PROVE DetailTypes' /\ Earned'
<1>1. KnownAs(Restored, call.prior, known.absent)
  BY InStateIs DEF Restored, DetailTypes, InState
<1> QED BY <1>1, EndKeeps DEF Earned, StateIsEarned

LEMMA EarnedStep ==
  ASSUME DetailTypes, Earned, [NextDetail]_detailVars
  PROVE  DetailTypes' /\ Earned'
<1>1. CASE FetchDetail
  <2>1. /\ call' = [at |-> "out", attempt |-> 1, arrived |-> {}, prior |-> known.state] /\ call.at = "idle"
        /\ known' = [known EXCEPT !.state = "pending"] /\ UNCHANGED world
        /\ history' = [history EXCEPT !.details = history.details + 1]
    BY <1>1 DEF FetchDetail
  <2>2. call'.at = "out" /\ call'.prior = known.state
    <3> DEFINE none == {}
    <3>1. call' = [at |-> "out", attempt |-> 1, arrived |-> none, prior |-> known.state]
      BY <2>1
    <3> HIDE DEF none
    <3> QED BY <3>1
  <2>3. KnownAs(known', "pending", known.absent)
    BY <2>1, InStateIs DEF DetailTypes, InState
  <2>4. HistoryAs(history', history.seen, history.last, history.lost)
    BY <2>1, SpentIs DEF DetailTypes, Spent
  <2> QED BY <2>1, <2>2, <2>3, <2>4 DEF DetailTypes, Earned, StateIsEarned, KnownAs, HistoryAs
<1>2. CASE RetryDetail \/ \E id \in Ids, readable \in BOOLEAN : RecordArrives(id, readable)
  <2>1. UNCHANGED <<world, known, history>> /\ call.at = "out" /\ call'.at = call.at /\ call'.prior = call.prior
    <3>1. CASE RetryDetail
      BY <3>1 DEF RetryDetail
    <3>2. ASSUME NEW id \in Ids, NEW readable \in BOOLEAN, RecordArrives(id, readable)
          PROVE  UNCHANGED <<world, known, history>> /\ call.at = "out" /\ call'.at = call.at /\ call'.prior = call.prior
      BY <3>2 DEF RecordArrives
    <3> QED BY <1>2, <3>1, <3>2
  <2> QED BY <2>1 DEF DetailTypes, Earned, StateIsEarned
<1>3. CASE DetailArrives
  <2>1. call.at = "out" /\ world # Nothing
    BY <1>3 DEF DetailArrives
  <2>2. CASE EndsWith(Restored)
    BY <2>1, <2>2, RestoredKeeps
  <2>3. CASE /\ known' = WriteDetail(known, decoder)
             /\ FetchOver
             /\ history' = [history EXCEPT !.fetched = @ \cup {world}, !.last = world, !.whole = @ + 1]
             /\ UNCHANGED world
    <3>1. KnownAs(known', "detail", known.absent)
      BY <2>3, WrittenIs DEF DetailTypes
    <3>2. HistoryAs(history', history.seen, world, history.lost)
      <4> DEFINE all == history.fetched \cup {world}
                 more == history.whole + 1
      <4>1. history' = Fetching(history, all, world, more)
        BY <2>3 DEF Fetching
      <4> HIDE DEF all, more
      <4> QED BY <4>1, FetchingIs DEF DetailTypes
    <3>3. call'.at = "idle"
      BY <2>3 DEF FetchOver, Unasked
    <3> QED BY <2>1, <2>3, <3>1, <3>2, <3>3 DEF DetailTypes, Earned, StateIsEarned, KnownAs, HistoryAs
  <2> QED BY <1>3, <2>2, <2>3 DEF DetailArrives
<1>4. CASE DetailAborted
  BY <1>4, RestoredKeeps DEF DetailAborted
<1>5. CASE DetailSilent
  <2> DEFINE absent == known.absent \cup {"silent"}
             after == WithAbsence(known, "absent", absent)
  <2>1. call.at = "out" /\ EndsWith(after)
    BY <1>5 DEF DetailSilent, WithAbsence
  <2>2. KnownAs(after, "absent", absent)
    <3> HIDE DEF absent
    <3> QED BY WithAbsenceIs DEF DetailTypes
  <2>3. "exception" \in absent => "exception" \in known.absent
    OBVIOUS
  <2> HIDE DEF after, absent
  <2> QED BY <2>1, <2>2, <2>3, EndKeeps DEF Earned, StateIsEarned
<1>6. ASSUME NEW code \in {1, 2}, DetailRefused(code) PROVE DetailTypes' /\ Earned'
  <2> DEFINE absent == known.absent \cup {"exception"}
             gone == WithAbsence(known, "absent", absent)
             failed == InState(known, "failed")
  <2>1. /\ call.at = "out" /\ (IsMissingFacility(code) => world = Nothing)
        /\ EndsWith(IF IsMissingFacility(code) THEN gone ELSE failed)
    BY <1>6 DEF DetailRefused, IsMissingFacility, InState, WithAbsence
  <2>2. KnownAs(gone, "absent", absent) /\ KnownAs(failed, "failed", known.absent)
    <3> HIDE DEF absent
    <3> QED BY InStateIs, WithAbsenceIs DEF DetailTypes
  <2> HIDE DEF gone, failed, absent
  <2>3. CASE IsMissingFacility(code)
    BY <2>1, <2>2, <2>3, EndKeeps DEF Earned
  <2>4. CASE ~IsMissingFacility(code)
    BY <2>1, <2>2, <2>4, EndKeeps DEF Earned, StateIsEarned
  <2> QED BY <2>3, <2>4
<1>7. ASSUME NEW v \in Versions, Update(v) PROVE DetailTypes' /\ Earned'
  <2>1. HistoryAs(history', history.seen \cup {v}, history.last, history.lost)
    BY <1>7, SeeingIs DEF Update, DetailTypes, Seeing
  <2>2. UNCHANGED <<call, known>> /\ world' = v /\ call.at = "idle"
    BY <1>7 DEF Update
  <2> QED BY <2>1, <2>2 DEF DetailTypes, Earned, StateIsEarned, HistoryAs
<1>8. CASE UNCHANGED detailVars
  BY <1>8 DEF detailVars, DetailTypes, Earned, StateIsEarned
<1> QED BY <1>1, <1>2, <1>3, <1>4, <1>5, <1>6, <1>7, <1>8 DEF NextDetail

LEMMA EarnedInit == InitDetail => DetailTypes /\ Earned
<1> SUFFICES ASSUME InitDetail PROVE DetailTypes /\ Earned
  OBVIOUS
<1> DEFINE none == {}
           at0 == Nothing
<1>1. /\ known = [state |-> "index", place |-> Absent, runways |-> at0, frequencies |-> none,
                  procedures |-> at0, lists |-> at0, legs |-> at0, absent |-> none]
      /\ history = [seen |-> {world}, fetched |-> none, last |-> at0, whole |-> 0, details |-> 0, lost |-> 0]
      /\ call = [at |-> "idle", attempt |-> 0, arrived |-> none, prior |-> "index"]
      /\ none = {}
  BY DEF InitDetail, Unasked
<1> HIDE DEF none, at0
<1>2. /\ DOMAIN known = Fields /\ known.state = "index" /\ known.absent = none
      /\ DOMAIN history = Parts /\ history.lost = 0 /\ history.seen = {world} /\ call.at = "idle"
  BY <1>1 DEF Fields, Parts
<1> QED BY <1>1, <1>2 DEF DetailTypes, Earned, StateIsEarned

(* For any versions of an airport, any updates, layouts misread and writes lost: the store
   says that it has the detail only if a whole answer was stored, leaves the airport pending
   only while a fetch is out or if a write was lost, and records as declared by the
   simulator only an absence that was one. *)
THEOREM StateIsAlwaysEarned == SpecDetail => []StateIsEarned
<1>1. InitDetail => DetailTypes /\ Earned
  BY EarnedInit
<1>2. DetailTypes /\ Earned /\ [NextDetail]_detailVars => DetailTypes' /\ Earned'
  BY EarnedStep
<1>3. Earned => StateIsEarned
  BY DEF Earned
<1> QED BY <1>1, <1>2, <1>3, PTL DEF SpecDetail

-----------------------------------------------------------------------------
(* What is stored of an airport.                                           *)

IsSeq(s) == s \in Seq({s[k] : k \in DOMAIN s})

\* The place of one of ids among them.
Position(ids, l) == Cardinality({o \in ids : o <= l})

\* A record came after the one it hangs off, and after its elder siblings if the
\* order of these means something.
Timely(v, A) ==
  \A id \in A, other \in DOMAIN v :
    /\ other = v[id].up => other \in A
    /\ v[other].type = v[id].type /\ v[other].up = v[id].up /\ other < id
         /\ v[id].type \in LegTypes \cup {"THRESHOLD"} => other \in A

\* The legs put together are those of ids, one after the other.
Lined(v, legs, ids) ==
  /\ IsSeq(legs) /\ Len(legs) = Cardinality(ids)
  /\ \A l \in ids : legs[Position(ids, l)] = v[l].values
  /\ \A n \in DOMAIN legs : \E l \in ids : Position(ids, l) = n

IsListRow(row) == DOMAIN row = {"role", "name", "n", "legs"}
IsDraft(draft) ==
  /\ DOMAIN draft = {"base", "values", "lists", "own"} /\ DOMAIN draft.own = Roles
  /\ IsSeq(draft.lists) /\ \A k \in DOMAIN draft.lists : IsListRow(draft.lists[k])
IsNode(node) ==
  /\ DOMAIN node = {"kind", "key", "ends", "draft", "list"}
  /\ node.ends \in Nat /\ node.draft \in Nat /\ node.list \in Nat
IsDecoder(dec) ==
  /\ DOMAIN dec = {"nodes", "place", "runways", "frequencies", "drafts", "missed"}
  /\ dec.missed \in Nat

\* A list of a draft is that of the arrived legs ids, and says whose it is.
ListFollows(v, row, role, name, ids) == row.role = role /\ row.name = name /\ Lined(v, row.legs, ids)

OwnFollows(v, A, p, draft, role) ==
  /\ draft.own[role] \in 0..Len(draft.lists)
  /\ draft.own[role] = 0 => LegsUnder(v, p, {role}) \cap A = {}
  /\ draft.own[role] # 0 =>
       ListFollows(v, draft.lists[draft.own[role]], role, Unnamed, LegsUnder(v, p, {role}) \cap A)

BranchFollows(v, A, draft, t, k) ==
  /\ k \in DOMAIN draft.lists
  /\ ListFollows(v, draft.lists[k], v[t].type, v[t].name, LegsUnder(v, t, Roles) \cap A)

\* A draft is that of procedure p as far as it arrived: every list is its own or
\* that of one of its transitions.
PutTogether(v, A, nodes, p, draft) ==
  /\ IsDraft(draft) /\ draft.base = BaseOf(v, p) /\ draft.values = v[p].values
  /\ \A role \in Roles : OwnFollows(v, A, p, draft, role)
  /\ \A t \in TransitionsOf(v, p) \cap A : BranchFollows(v, A, draft, t, nodes[t].list)
  /\ \A t \in TransitionsOf(v, p) \cap A : \A u \in TransitionsOf(v, p) \cap A :
       nodes[t].list = nodes[u].list => t = u
  /\ \A k \in DOMAIN draft.lists :
       \/ \E role \in Roles : draft.own[role] = k
       \/ \E t \in TransitionsOf(v, p) \cap A : nodes[t].list = k

DraftFollows(v, A, nodes, p, draft) ==
  /\ PutTogether(v, A, nodes, p, draft)
  /\ \A role \in Roles : v[p].legs[role] > 0 => draft.own[role] # 0

KindOf(type) ==
  IF type = "RUNWAY" THEN "runway"
  ELSE IF type \in Procedures THEN "procedure"
  ELSE IF type \in Transitions THEN "transition" ELSE "other"

NodesFollow(v, A, nodes) ==
  /\ DOMAIN nodes = Ids \cup {0}
  /\ \A i \in Ids \cup {0} : IsNode(nodes[i])
  /\ \A i \in Ids \cup {0} : nodes[i].kind = IF i \in A THEN KindOf(v[i].type) ELSE "other"
  /\ \A i \in Ids \cup {0} : i \notin A => nodes[i].ends = 0

DraftsFollow(v, A, nodes, drafts) ==
  /\ IsSeq(drafts)
  /\ \A p \in ProceduresOf(v) \cap A :
       nodes[p].draft \in DOMAIN drafts /\ DraftFollows(v, A, nodes, p, drafts[nodes[p].draft])
  /\ \A p \in ProceduresOf(v) \cap A : \A q \in ProceduresOf(v) \cap A :
       nodes[p].draft = nodes[q].draft => p = q
  /\ \A i \in DOMAIN drafts : \E p \in ProceduresOf(v) \cap A : nodes[p].draft = i

\* Transitions and legs hang off what has a place for them.
PlacesFollow(v, A, nodes) ==
  /\ \A t \in A : v[t].type \in Transitions =>
       v[t].up \in ProceduresOf(v) \cap A /\ nodes[t].draft = nodes[v[t].up].draft
  /\ \A l \in A : v[l].type \in LegTypes =>
       /\ v[l].up \in A
       /\ \/ v[v[l].up].type \in Procedures
          \/ v[v[l].up].type \in Transitions /\ v[l].type = "LEG"

RowFollows(v, A, i, row) ==
  /\ DOMAIN row = {"values", "ends"} /\ row.values = v[i].values
  /\ IsSeq(row.ends) /\ Len(row.ends) = 2
  /\ \A t \in ThresholdsOf(v, i) \cap A :
       row.ends[Position(ThresholdsOf(v, i) \cap A, t)] = v[t].values[1]

RunwayFollows(v, A, i, node, runways) ==
  /\ node.key = v[i].name /\ v[i].name \in DOMAIN runways
  /\ node.ends = Cardinality(ThresholdsOf(v, i) \cap A) /\ node.ends <= 2
  /\ RowFollows(v, A, i, runways[v[i].name])

RunwaysFollow(v, A, nodes, runways) ==
  /\ \A i \in A : v[i].type = "RUNWAY" => RunwayFollows(v, A, i, nodes[i], runways)
  /\ \A key \in DOMAIN runways : \E i \in A : v[i].type = "RUNWAY" /\ v[i].name = key

Follows(v, A, dec) ==
  /\ NodesFollow(v, A, dec.nodes) /\ DraftsFollow(v, A, dec.nodes, dec.drafts)
  /\ PlacesFollow(v, A, dec.nodes) /\ RunwaysFollow(v, A, dec.nodes, dec.runways)
  /\ \A i \in A : v[i].type = "FREQUENCY" => v[i].name \in dec.frequencies

\* The decoder and what is stored: nothing of a fetch outlives it but its rows.
DetailFollows ==
  /\ world \in Versions /\ call.arrived \subseteq DOMAIN world /\ Timely(world, call.arrived)
  /\ call.at = "idle" => decoder = Emptied /\ call.arrived = {}
  /\ IsDecoder(decoder)
  /\ decoder.missed = 0 => Follows(world, call.arrived, decoder)
  /\ history.whole \in Nat
  /\ history.whole = 0 => known.procedures = Nothing /\ known.lists = Nothing /\ known.legs = Nothing

-----------------------------------------------------------------------------
(* Sequences, and positions in them.                                       *)

LEMMA SeqIs ==
  ASSUME NEW s, IsSeq(s)
  PROVE  DOMAIN s = 1..Len(s) /\ Len(s) \in Nat
BY DEF IsSeq

LEMMA SeqOf == ASSUME NEW S, NEW s \in Seq(S) PROVE IsSeq(s)
<1>1. s = [k \in 1..Len(s) |-> s[k]] /\ Len(s) \in Nat /\ DOMAIN s = 1..Len(s)
  OBVIOUS
<1> DEFINE T == {s[k] : k \in DOMAIN s}
<1>2. \A k \in 1..Len(s) : s[k] \in T
  BY <1>1
<1> HIDE DEF T
<1>3. s \in Seq(T)
  BY <1>1, <1>2
<1> QED BY <1>3 DEF T, IsSeq

LEMMA AppendIs ==
  ASSUME NEW s, IsSeq(s), NEW e
  PROVE  /\ IsSeq(Append(s, e)) /\ DOMAIN Append(s, e) = 1..(Len(s) + 1) /\ Len(Append(s, e)) = Len(s) + 1
         /\ \A k \in DOMAIN s : Append(s, e)[k] = s[k]
         /\ Append(s, e)[Len(s) + 1] = e
<1> DEFINE T == {s[k] : k \in DOMAIN s} \cup {e}
<1>1. {s[k] : k \in DOMAIN s} \subseteq T /\ e \in T
  OBVIOUS
<1>2. s \in Seq({s[k] : k \in DOMAIN s})
  BY DEF IsSeq
<1>3. s \in Seq(T)
  <2> DEFINE R == {s[k] : k \in DOMAIN s}
  <2>1. s \in Seq(R) /\ R \subseteq T
    BY <1>1, <1>2
  <2> HIDE DEF R, T
  <2> QED BY <2>1
<1> HIDE DEF T
<1>4. Append(s, e) \in Seq(T)
  BY <1>1, <1>3
<1>5. IsSeq(Append(s, e))
  BY <1>4, SeqOf
<1> QED BY <1>1, <1>3, <1>4, <1>5

Replaced(s, k, e) == [s EXCEPT ![k] = e]

LEMMA ReplacedIs ==
  ASSUME NEW s, IsSeq(s), NEW e, NEW k \in DOMAIN s
  PROVE  /\ IsSeq(Replaced(s, k, e)) /\ DOMAIN Replaced(s, k, e) = DOMAIN s /\ Len(Replaced(s, k, e)) = Len(s)
         /\ Replaced(s, k, e)[k] = e /\ \A j \in DOMAIN s \ {k} : Replaced(s, k, e)[j] = s[j]
<1> DEFINE T == {s[j] : j \in DOMAIN s} \cup {e}
           R == {s[j] : j \in DOMAIN s}
           new == [s EXCEPT ![k] = e]
<1>1. s \in Seq(R) /\ R \subseteq T /\ e \in T
  BY DEF IsSeq
<1>2. new[k] = e /\ DOMAIN new = DOMAIN s /\ \A j \in DOMAIN s \ {k} : new[j] = s[j]
  OBVIOUS
<1> HIDE DEF R, T
<1>3. s \in Seq(T)
  BY <1>1
<1>4. new \in Seq(T) /\ Len(new) = Len(s)
  BY <1>1, <1>3
<1> HIDE DEF new
<1>5. IsSeq(new)
  BY <1>4, SeqOf
<1>6. Replaced(s, k, e) = new
  BY DEF new, Replaced
<1> QED BY <1>2, <1>4, <1>5, <1>6

LEMMA PositionIs ==
  ASSUME NEW ids, IsFiniteSet(ids), NEW l \in ids, l \in Int
  PROVE  Position(ids, l) \in 1..Cardinality(ids)
<1> DEFINE here == {o \in ids : o <= l}
<1>1. here \subseteq ids /\ l \in here
  OBVIOUS
<1> HIDE DEF here
<1>2. IsFiniteSet(here) /\ Cardinality(here) <= Cardinality(ids)
  BY <1>1, FS_Subset
<1>3. Cardinality(here) \in Nat /\ Cardinality(ids) \in Nat
  BY <1>2, FS_CardinalityType
<1>4. Cardinality(here) # 0
  BY <1>1, <1>2, FS_EmptySet
<1>5. Position(ids, l) = Cardinality(here)
  BY DEF Position, here
<1> QED BY <1>2, <1>3, <1>4, <1>5

LEMMA PositionLater ==
  ASSUME NEW ids, IsFiniteSet(ids), ids \subseteq Nat, NEW id \in Nat, \A o \in ids : o < id
  PROVE  /\ Cardinality(ids \cup {id}) = Cardinality(ids) + 1
         /\ Position(ids \cup {id}, id) = Cardinality(ids) + 1
         /\ \A l \in ids : Position(ids \cup {id}, l) = Position(ids, l)
<1>1. id \notin ids
  OBVIOUS
<1>2. Cardinality(ids \cup {id}) = Cardinality(ids) + 1
  BY <1>1, FS_AddElement
<1>3. {o \in ids \cup {id} : o <= id} = ids \cup {id}
  <2>1. \A o \in ids \cup {id} : o <= id
    OBVIOUS
  <2> QED BY <2>1
<1>4. ASSUME NEW l \in ids PROVE Position(ids \cup {id}, l) = Position(ids, l)
  <2>1. l < id /\ l \in Nat
    OBVIOUS
  <2>2. ~(id <= l)
    BY <2>1
  <2>3. {o \in ids \cup {id} : o <= l} = {o \in ids : o <= l}
    BY <2>2
  <2> QED BY <2>3 DEF Position
<1> QED BY <1>2, <1>3, <1>4 DEF Position

LEMMA LinedNone == ASSUME NEW v PROVE Lined(v, <<>>, {})
<1>1. IsSeq(<<>>) /\ Len(<<>>) = 0 /\ DOMAIN <<>> = {}
  BY DEF IsSeq
<1> QED BY <1>1, FS_EmptySet DEF Lined

LEMMA LinedMore ==
  ASSUME NEW v, NEW legs, NEW ids, Lined(v, legs, ids), IsFiniteSet(ids), ids \subseteq Nat,
         NEW id \in Nat, \A o \in ids : o < id
  PROVE  Lined(v, Append(legs, v[id].values), ids \cup {id})
<1> DEFINE e == v[id].values
           more == Append(legs, e)
           all == ids \cup {id}
<1>1. IsSeq(legs) /\ Len(legs) = Cardinality(ids) /\ DOMAIN legs = 1..Len(legs) /\ Len(legs) \in Nat
  BY SeqIs DEF Lined
<1>2. /\ IsSeq(more) /\ Len(more) = Len(legs) + 1 /\ DOMAIN more = 1..(Len(legs) + 1)
      /\ \A k \in DOMAIN legs : more[k] = legs[k]
      /\ more[Len(legs) + 1] = e
  BY <1>1, AppendIs
<1>3. /\ Cardinality(all) = Cardinality(ids) + 1 /\ Position(all, id) = Cardinality(ids) + 1
      /\ \A l \in ids : Position(all, l) = Position(ids, l)
  BY PositionLater
<1> HIDE DEF more
<1>4. ASSUME NEW l \in all PROVE more[Position(all, l)] = v[l].values
  <2>1. CASE l = id
    BY <2>1, <1>1, <1>2, <1>3
  <2>2. CASE l \in ids
    <3>1. Position(ids, l) \in DOMAIN legs
      BY <2>2, <1>1, PositionIs
    <3>2. legs[Position(ids, l)] = v[l].values
      BY <2>2 DEF Lined
    <3> QED BY <3>1, <3>2, <2>2, <1>2, <1>3
  <2> QED BY <2>1, <2>2
<1>5. ASSUME NEW n \in DOMAIN more PROVE \E l \in all : Position(all, l) = n
  <2>1. CASE n \in DOMAIN legs
    <3>1. PICK l \in ids : Position(ids, l) = n
      BY <2>1 DEF Lined
    <3> QED BY <3>1, <1>3
  <2>2. CASE n \notin DOMAIN legs
    <3>1. n = Cardinality(ids) + 1
      BY <2>2, <1>1, <1>2
    <3> QED BY <3>1, <1>3
  <2> QED BY <2>1, <2>2
<1> HIDE DEF all
<1>6. Lined(v, more, all)
  BY <1>1, <1>2, <1>3, <1>4, <1>5 DEF Lined
<1> QED BY <1>6 DEF more, all

-----------------------------------------------------------------------------
\* Record id of v comes after those of A.
Arriving(v, A, id) ==
  /\ v \in Versions /\ A \subseteq DOMAIN v /\ Timely(v, A)
  /\ id \in DOMAIN v \ A /\ Timely(v, A \cup {id}) /\ v[id].up # id

LEMMA VersionIs ==
  ASSUME NEW v \in Versions
  PROVE  IsFiniteSet(DOMAIN v) /\ DOMAIN v \subseteq Nat \ {0} /\ DOMAIN v \subseteq Ids
BY VersionsAssumption DEF Ids

LEMMA RecordIs ==
  ASSUME NEW v \in Versions, NEW id \in DOMAIN v
  PROVE  /\ id \in Nat \ {0} /\ id \in Ids
         /\ v[id].type \in Types /\ v[id].up \in DOMAIN v \cup {0}
         /\ v[id].values \in Seq(Int) /\ v[id].legs \in [Roles -> Int]
BY VersionsAssumption DEF Ids

\* What has arrived does not hang off what arrives.
LEMMA Childless ==
  ASSUME NEW v, NEW A, NEW id, Arriving(v, A, id), NEW c \in A PROVE v[c].up # id
BY DEF Arriving, Timely

LEMMA UpArrived ==
  ASSUME NEW v, NEW A, NEW id, Arriving(v, A, id) PROVE v[id].up \in A \cup {0}
<1>1. v[id].up \in DOMAIN v \cup {0}
  BY RecordIs DEF Arriving
<1>2. v[id].up \in DOMAIN v => v[id].up \in A \cup {id}
  BY DEF Arriving, Timely
<1>3. v[id].up # id
  BY DEF Arriving
<1> QED BY <1>1, <1>2, <1>3

\* Siblings whose order means something come in it.
LEMMA Elder ==
  ASSUME NEW v, NEW A, NEW id, Arriving(v, A, id), v[id].type \in LegTypes \cup {"THRESHOLD"},
         NEW S, \A o \in S : v[o].type = v[id].type /\ v[o].up = v[id].up
  PROVE  \A o \in S \cap A : o < id
<1> SUFFICES ASSUME NEW o \in S \cap A, ~(o < id) PROVE FALSE
  OBVIOUS
<1>1. o \in DOMAIN v /\ id \in DOMAIN v /\ id \notin A /\ v \in Versions
  BY DEF Arriving
<1>2. o \in Nat /\ id \in Nat /\ o # id
  BY <1>1, RecordIs
<1>3. id < o
  BY <1>2
<1> QED BY <1>1, <1>3 DEF Arriving, Timely

LEMMA Taken ==
  ASSUME NEW v, NEW A, NEW id, Arriving(v, A, id), NEW S
  PROVE  /\ id \in S => S \cap (A \cup {id}) = (S \cap A) \cup {id}
         /\ id \notin S => S \cap (A \cup {id}) = S \cap A
OBVIOUS

LEMMA FiniteArrived ==
  ASSUME NEW v, NEW A, NEW id, Arriving(v, A, id), NEW S
  PROVE  IsFiniteSet(S \cap A) /\ S \cap A \subseteq Nat /\ id \in Nat
<1>1. IsFiniteSet(DOMAIN v) /\ DOMAIN v \subseteq Nat /\ S \cap A \subseteq DOMAIN v /\ id \in DOMAIN v
  BY VersionIs DEF Arriving
<1> QED BY <1>1, FS_Subset

-----------------------------------------------------------------------------
(* Decoders and their parts.                                               *)

Decoder(n, p, r, f, d, m) ==
  [nodes |-> n, place |-> p, runways |-> r, frequencies |-> f, drafts |-> d, missed |-> m]

LEMMA DecoderIs ==
  ASSUME NEW dec, IsDecoder(dec)
  PROVE  dec.missed \in Nat
BY DEF IsDecoder

Node(kind, key, ends, draft, l) ==
  [kind |-> kind, key |-> key, ends |-> ends, draft |-> draft, list |-> l]

WithNode(nodes, id, node) == [nodes EXCEPT ![id] = node]

LEMMA NodesMore ==
  ASSUME NEW v, NEW A, NEW id, Arriving(v, A, id), NEW nodes, NodesFollow(v, A, nodes),
         NEW node, IsNode(node), node.kind = KindOf(v[id].type)
  PROVE  NodesFollow(v, A \cup {id}, WithNode(nodes, id, node))
<1> DEFINE new == WithNode(nodes, id, node)
<1>1. id \in Ids
  BY VersionIs DEF Arriving
<1>2. DOMAIN new = DOMAIN nodes /\ new[id] = node /\ \A i \in (Ids \cup {0}) \ {id} : new[i] = nodes[i]
  BY <1>1 DEF NodesFollow, WithNode
<1> HIDE DEF new
<1>3. \A i \in Ids \cup {0} : IsNode(new[i])
  BY <1>2 DEF NodesFollow
<1>4. \A i \in Ids \cup {0} : new[i].kind = IF i \in A \cup {id} THEN KindOf(v[i].type) ELSE "other"
  BY <1>2 DEF NodesFollow
<1>5. \A i \in Ids \cup {0} : i \notin A \cup {id} => new[i].ends = 0
  BY <1>2 DEF NodesFollow
<1>6. NodesFollow(v, A \cup {id}, new)
  BY <1>2, <1>3, <1>4, <1>5 DEF NodesFollow
<1> QED BY <1>6 DEF new

LEMMA NodesSame ==
  ASSUME NEW v, NEW A, NEW id, Arriving(v, A, id), NEW nodes, NodesFollow(v, A, nodes),
         KindOf(v[id].type) = "other"
  PROVE  NodesFollow(v, A \cup {id}, nodes)
BY DEF NodesFollow

\* The places of the nodes that have arrived are the same.
SamePlaces(A, nodes, new) ==
  \A i \in A : new[i].draft = nodes[i].draft /\ new[i].list = nodes[i].list
SameEnds(A, nodes, new) ==
  \A i \in A : new[i].key = nodes[i].key /\ new[i].ends = nodes[i].ends

LEMMA NodesMoreKeep ==
  ASSUME NEW v, NEW A, NEW id, Arriving(v, A, id), NEW nodes, NodesFollow(v, A, nodes), NEW node
  PROVE  /\ SamePlaces(A, nodes, WithNode(nodes, id, node)) /\ SameEnds(A, nodes, WithNode(nodes, id, node))
         /\ WithNode(nodes, id, node)[id] = node
<1>1. id \in Ids /\ A \subseteq Ids
  BY VersionIs DEF Arriving
<1>2. id \in DOMAIN nodes /\ id \notin A
  BY <1>1 DEF NodesFollow, Arriving
<1> QED BY <1>1, <1>2 DEF SamePlaces, SameEnds, WithNode, NodesFollow

\* Neither a transition under p nor a leg of any list of p.
Apart(v, A, p, id) ==
  /\ id \notin TransitionsOf(v, p) /\ id \notin LegsUnder(v, p, Roles)
  /\ \A t \in TransitionsOf(v, p) \cap A : id \notin LegsUnder(v, t, Roles)

LEMMA LegsWithin ==
  ASSUME NEW v, NEW up, NEW role \in Roles PROVE LegsUnder(v, up, {role}) \subseteq LegsUnder(v, up, Roles)
BY DEF LegsUnder

LEMMA OwnRoleIs == ASSUME NEW r PROVE OwnRole(r) \in Roles
BY DEF OwnRole, Roles

LEMMA TogetherSame ==
  ASSUME NEW v, NEW A, NEW id, Arriving(v, A, id), NEW nodes, NEW new, SamePlaces(A, nodes, new),
         NEW p, NEW draft, PutTogether(v, A, nodes, p, draft), Apart(v, A, p, id)
  PROVE  PutTogether(v, A \cup {id}, new, p, draft)
<1> DEFINE B == A \cup {id}
<1>1. TransitionsOf(v, p) \cap B = TransitionsOf(v, p) \cap A
  BY Taken DEF Apart
<1>2. ASSUME NEW role \in Roles PROVE LegsUnder(v, p, {role}) \cap B = LegsUnder(v, p, {role}) \cap A
  <2>1. id \notin LegsUnder(v, p, {role})
    BY LegsWithin DEF Apart
  <2> QED BY <2>1, Taken
<1>3. ASSUME NEW t \in TransitionsOf(v, p) \cap A
      PROVE LegsUnder(v, t, Roles) \cap B = LegsUnder(v, t, Roles) \cap A /\ new[t].list = nodes[t].list
  BY Taken DEF Apart, SamePlaces
<1> HIDE DEF B
<1>4. \A role \in Roles : OwnFollows(v, B, p, draft, role)
  BY <1>2 DEF PutTogether, OwnFollows
<1>5. \A t \in TransitionsOf(v, p) \cap B : BranchFollows(v, B, draft, t, new[t].list)
  BY <1>1, <1>3 DEF PutTogether, BranchFollows
<1>6. \A t \in TransitionsOf(v, p) \cap B : \A u \in TransitionsOf(v, p) \cap B :
        new[t].list = new[u].list => t = u
  BY <1>1, <1>3 DEF PutTogether
<1>7. \A k \in DOMAIN draft.lists :
        \/ \E role \in Roles : draft.own[role] = k
        \/ \E t \in TransitionsOf(v, p) \cap B : new[t].list = k
  BY <1>1, <1>3 DEF PutTogether
<1>8. PutTogether(v, B, new, p, draft)
  BY <1>4, <1>5, <1>6, <1>7 DEF PutTogether
<1> QED BY <1>8 DEF B

LEMMA DraftSame ==
  ASSUME NEW v, NEW A, NEW id, Arriving(v, A, id), NEW nodes, NEW new, SamePlaces(A, nodes, new),
         NEW p, NEW draft, DraftFollows(v, A, nodes, p, draft), Apart(v, A, p, id)
  PROVE  DraftFollows(v, A \cup {id}, new, p, draft)
BY TogetherSame DEF DraftFollows

LEMMA DraftsSame ==
  ASSUME NEW v, NEW A, NEW id, Arriving(v, A, id), NEW nodes, NEW new, SamePlaces(A, nodes, new),
         NEW drafts, DraftsFollow(v, A, nodes, drafts),
         v[id].type \notin Procedures \cup Transitions \cup LegTypes
  PROVE  DraftsFollow(v, A \cup {id}, new, drafts)
<1>1. ProceduresOf(v) \cap (A \cup {id}) = ProceduresOf(v) \cap A
  BY DEF ProceduresOf
<1>2. ASSUME NEW p \in ProceduresOf(v) \cap A
      PROVE new[p].draft \in DOMAIN drafts /\ DraftFollows(v, A \cup {id}, new, p, drafts[new[p].draft])
  <2>1. Apart(v, A, p, id)
    BY DEF Apart, TransitionsOf, LegsUnder, LegsOf
  <2>2. new[p].draft = nodes[p].draft
    BY DEF SamePlaces
  <2>3. nodes[p].draft \in DOMAIN drafts /\ DraftFollows(v, A, nodes, p, drafts[nodes[p].draft])
    BY DEF DraftsFollow
  <2> QED BY <2>1, <2>2, <2>3, DraftSame
<1>3. \A p \in ProceduresOf(v) \cap A : new[p].draft = nodes[p].draft
  BY DEF SamePlaces
<1> QED BY <1>1, <1>2, <1>3 DEF DraftsFollow

LEMMA PlacesSame ==
  ASSUME NEW v, NEW A, NEW id, Arriving(v, A, id), NEW nodes, NEW new, SamePlaces(A, nodes, new),
         PlacesFollow(v, A, nodes), v[id].type \notin Transitions \cup LegTypes
  PROVE  PlacesFollow(v, A \cup {id}, new)
<1>1. \A t \in A : v[t].type \in Transitions =>
        v[t].up \in ProceduresOf(v) \cap A /\ new[t].draft = new[v[t].up].draft
  BY DEF PlacesFollow, SamePlaces
<1> QED BY <1>1 DEF PlacesFollow

LEMMA RunwaysSame ==
  ASSUME NEW v, NEW A, NEW id, Arriving(v, A, id), NEW nodes, NEW new, SameEnds(A, nodes, new),
         NEW runways, RunwaysFollow(v, A, nodes, runways), v[id].type \notin {"RUNWAY", "THRESHOLD"}
  PROVE  RunwaysFollow(v, A \cup {id}, new, runways)
<1>1. \A i \in A : ThresholdsOf(v, i) \cap (A \cup {id}) = ThresholdsOf(v, i) \cap A
  BY DEF ThresholdsOf
<1>2. ASSUME NEW i \in A, v[i].type = "RUNWAY"
      PROVE  RunwayFollows(v, A \cup {id}, i, new[i], runways)
  <2>1. RunwayFollows(v, A, i, nodes[i], runways)
    BY <1>2 DEF RunwaysFollow
  <2>2. RowFollows(v, A \cup {id}, i, runways[v[i].name])
    BY <1>1, <2>1 DEF RowFollows, RunwayFollows
  <2> QED BY <1>1, <2>1, <2>2 DEF SameEnds, RunwayFollows
<1> QED BY <1>2 DEF RunwaysFollow

-----------------------------------------------------------------------------
\* The parts of a decoder that an operation changes.
LEMMA DecoderFields ==
  ASSUME NEW n, NEW p, NEW r, NEW f, NEW d, NEW m \in Nat
  PROVE  /\ IsDecoder(Decoder(n, p, r, f, d, m))
         /\ Decoder(n, p, r, f, d, m).nodes = n /\ Decoder(n, p, r, f, d, m).runways = r
         /\ Decoder(n, p, r, f, d, m).frequencies = f /\ Decoder(n, p, r, f, d, m).drafts = d
         /\ Decoder(n, p, r, f, d, m).missed = m
BY DEF Decoder, IsDecoder

DecoderAs(dec, n, r, f, d, m) ==
  /\ IsDecoder(dec) /\ dec.nodes = n /\ dec.runways = r /\ dec.frequencies = f /\ dec.drafts = d
  /\ dec.missed = m

LEMMA MissedIs ==
  ASSUME NEW dec, IsDecoder(dec)
  PROVE  DecoderAs(Missed(dec), dec.nodes, dec.runways, dec.frequencies, dec.drafts, dec.missed + 1)
BY DEF Missed, IsDecoder, DecoderAs

LEMMA AirportIs ==
  ASSUME NEW dec, IsDecoder(dec), NEW r
  PROVE  DecoderAs(AcceptAirport(dec, r), dec.nodes, dec.runways, dec.frequencies, dec.drafts, dec.missed)
<1> DEFINE x == r.values[1]
<1>1. AcceptAirport(dec, r) = [dec EXCEPT !.place = x]
  BY DEF AcceptAirport
<1> HIDE DEF x
<1> QED BY <1>1 DEF IsDecoder, DecoderAs

LEMMA FrequencyIs ==
  ASSUME NEW dec, IsDecoder(dec), NEW r
  PROVE  DecoderAs(AcceptFrequency(dec, r), dec.nodes, dec.runways, dec.frequencies \cup {r.name}, dec.drafts,
                   dec.missed)
<1> DEFINE x == dec.frequencies \cup {r.name}
<1>1. AcceptFrequency(dec, r) = [dec EXCEPT !.frequencies = x]
  BY DEF AcceptFrequency
<1> HIDE DEF x
<1>2. DecoderAs(AcceptFrequency(dec, r), dec.nodes, dec.runways, x, dec.drafts, dec.missed)
  BY <1>1 DEF IsDecoder, DecoderAs
<1> QED BY <1>2 DEF x

\* A decoder with two of its fields replaced.
WithRunways(dec, n, r) == [dec EXCEPT !.runways = r, !.nodes = n]
WithDrafts(dec, n, d) == [dec EXCEPT !.drafts = d, !.nodes = n]

LEMMA WithRunwaysIs ==
  ASSUME NEW dec, IsDecoder(dec), NEW n, NEW r
  PROVE  DecoderAs(WithRunways(dec, n, r), n, r, dec.frequencies, dec.drafts, dec.missed)
<1> DEFINE d1 == [dec EXCEPT !.runways = r]
<1>1. DecoderAs(d1, dec.nodes, r, dec.frequencies, dec.drafts, dec.missed)
  BY DEF IsDecoder, DecoderAs
<1>2. WithRunways(dec, n, r) = [d1 EXCEPT !.nodes = n]
  BY DEF WithRunways
<1> HIDE DEF d1
<1> QED BY <1>1, <1>2 DEF IsDecoder, DecoderAs

LEMMA WithDraftsIs ==
  ASSUME NEW dec, IsDecoder(dec), NEW n, NEW d
  PROVE  DecoderAs(WithDrafts(dec, n, d), n, dec.runways, dec.frequencies, d, dec.missed)
<1> DEFINE d1 == [dec EXCEPT !.drafts = d]
<1>1. DecoderAs(d1, dec.nodes, dec.runways, dec.frequencies, d, dec.missed)
  BY DEF IsDecoder, DecoderAs
<1>2. WithDrafts(dec, n, d) = [d1 EXCEPT !.nodes = n]
  BY DEF WithDrafts
<1> HIDE DEF d1
<1> QED BY <1>1, <1>2 DEF IsDecoder, DecoderAs

OfKind(kind, key, draft, l) == Node(kind, key, 0, draft, l)

LEMMA NodeIs ==
  ASSUME NEW kind, NEW key, NEW draft \in Nat, NEW l \in Nat
  PROVE  /\ IsNode(OfKind(kind, key, draft, l)) /\ OfKind(kind, key, draft, l).kind = kind
         /\ OfKind(kind, key, draft, l).key = key /\ OfKind(kind, key, draft, l).ends = 0
         /\ OfKind(kind, key, draft, l).draft = draft /\ OfKind(kind, key, draft, l).list = l
BY DEF OfKind, Node, IsNode

RunwayRow(values) == [values |-> values, ends |-> <<Absent, Absent>>]

LEMMA UnplacedIs == Unplaced = OfKind("other", Absent, 0, 0)
BY DEF Unplaced, OfKind, Node

LEMMA RunwayIs ==
  ASSUME NEW dec, IsDecoder(dec), NEW id, NEW r
  PROVE  DecoderAs(AcceptRunway(dec, id, r), WithNode(dec.nodes, id, OfKind("runway", r.name, 0, 0)),
                   Claimed(dec.runways, r.name, RunwayRow(r.values)), dec.frequencies, dec.drafts, dec.missed)
<1> DEFINE name == r.name
           u1 == [Unplaced EXCEPT !.kind = "runway"]
           u == [u1 EXCEPT !.key = name]
           n == [dec.nodes EXCEPT ![id] = u]
           w == Claimed(dec.runways, name, RunwayRow(r.values))
<1>1. AcceptRunway(dec, id, r) = WithRunways(dec, n, w)
  BY DEF AcceptRunway, RunwayRow, WithRunways
<1>2. u = OfKind("runway", name, 0, 0)
  <2> HIDE DEF name
  <2>1. u1 = OfKind("runway", Absent, 0, 0)
    BY UnplacedIs DEF OfKind, Node
  <2> HIDE DEF u1
  <2> QED BY <2>1 DEF OfKind, Node
<1>3. n = WithNode(dec.nodes, id, OfKind("runway", name, 0, 0))
  BY <1>2 DEF WithNode
<1> HIDE DEF n, w, u
<1>4. DecoderAs(AcceptRunway(dec, id, r), n, w, dec.frequencies, dec.drafts, dec.missed)
  BY <1>1, WithRunwaysIs
<1> QED BY <1>3, <1>4 DEF w, name

-----------------------------------------------------------------------------
(* The airport, its runways and its frequencies arrive.                    *)

LEMMA ClaimedIs ==
  ASSUME NEW runways, NEW key, NEW row
  PROVE  /\ DOMAIN Claimed(runways, key, row) = DOMAIN runways \cup {key}
         /\ \A k \in DOMAIN runways : Claimed(runways, key, row)[k] = runways[k]
         /\ key \notin DOMAIN runways => Claimed(runways, key, row)[key] = row
BY DEF Claimed

LEMMA RunwayRowIs ==
  ASSUME NEW values
  PROVE  /\ DOMAIN RunwayRow(values) = {"values", "ends"} /\ RunwayRow(values).values = values
         /\ IsSeq(RunwayRow(values).ends) /\ Len(RunwayRow(values).ends) = 2
<1>1. IsSeq(<<Absent, Absent>>) /\ Len(<<Absent, Absent>>) = 2
  <2>1. <<Absent, Absent>> \in Seq({Absent}) /\ Len(<<Absent, Absent>>) = 2
    OBVIOUS
  <2> QED BY <2>1, SeqOf
<1> DEFINE e == <<Absent, Absent>>
<1>2. RunwayRow(values) = [values |-> values, ends |-> e]
  BY DEF RunwayRow
<1> HIDE DEF e
<1>3. DOMAIN RunwayRow(values) = {"values", "ends"} /\ RunwayRow(values).values = values /\ RunwayRow(values).ends = e
  BY <1>2
<1> QED BY <1>1, <1>3 DEF e

LEMMA RunwayKeeps ==
  ASSUME NEW v, NEW A, NEW id, Arriving(v, A, id), v[id].type = "RUNWAY", NEW nodes, NEW new, NEW runways,
         RunwaysFollow(v, A, nodes, runways), SameEnds(A, nodes, new),
         new[id].key = v[id].name, new[id].ends = 0
  PROVE  RunwaysFollow(v, A \cup {id}, new, Claimed(runways, v[id].name, RunwayRow(v[id].values)))
<1> DEFINE B == A \cup {id}
           row == RunwayRow(v[id].values)
           more == Claimed(runways, v[id].name, row)
<1>1. /\ DOMAIN more = DOMAIN runways \cup {v[id].name}
      /\ \A k \in DOMAIN runways : more[k] = runways[k]
      /\ v[id].name \notin DOMAIN runways => more[v[id].name] = row
  BY ClaimedIs
<1>2. /\ DOMAIN row = {"values", "ends"} /\ row.values = v[id].values
      /\ IsSeq(row.ends) /\ Len(row.ends) = 2
  BY RunwayRowIs
<1>3. \A i \in A : ThresholdsOf(v, i) \cap B = ThresholdsOf(v, i) \cap A
  BY DEF ThresholdsOf
<1>4. ThresholdsOf(v, id) \cap B = {}
  BY Childless DEF ThresholdsOf
<1> HIDE DEF B, row, more
<1>5. ASSUME NEW i \in A, v[i].type = "RUNWAY" PROVE RunwayFollows(v, B, i, new[i], more)
  <2>1. RunwayFollows(v, A, i, nodes[i], runways)
    BY <1>5 DEF RunwaysFollow
  <2>2. more[v[i].name] = runways[v[i].name] /\ v[i].name \in DOMAIN more
    BY <1>1, <2>1 DEF RunwayFollows
  <2>3. RowFollows(v, B, i, more[v[i].name])
    BY <1>3, <2>1, <2>2 DEF RowFollows, RunwayFollows
  <2> QED BY <1>3, <2>1, <2>2, <2>3 DEF SameEnds, RunwayFollows
<1>6. RunwayFollows(v, B, id, new[id], more)
  <2>1. /\ DOMAIN more[v[id].name] = {"values", "ends"} /\ more[v[id].name].values = v[id].values
        /\ IsSeq(more[v[id].name].ends) /\ Len(more[v[id].name].ends) = 2
    <3>1. CASE v[id].name \notin DOMAIN runways
      BY <3>1, <1>1, <1>2
    <3>2. CASE v[id].name \in DOMAIN runways
      <4>1. PICK i \in A : v[i].type = "RUNWAY" /\ v[i].name = v[id].name
        BY <3>2 DEF RunwaysFollow
      <4>2. RunwayFollows(v, A, i, nodes[i], runways)
        BY <4>1 DEF RunwaysFollow
      <4>3. v[i].values = v[id].values
        BY <4>1, VersionsAssumption DEF Arriving
      <4> QED BY <3>2, <4>1, <4>2, <4>3, <1>1 DEF RunwayFollows, RowFollows
    <3> QED BY <3>1, <3>2
  <2>2. RowFollows(v, B, id, more[v[id].name])
    BY <1>4, <2>1 DEF RowFollows
  <2> QED BY <1>1, <1>4, <2>2, FS_EmptySet DEF RunwayFollows
<1>7. \A key \in DOMAIN more : \E i \in B : v[i].type = "RUNWAY" /\ v[i].name = key
  BY <1>1 DEF RunwaysFollow, B
<1>8. RunwaysFollow(v, B, new, more)
  BY <1>5, <1>6, <1>7 DEF RunwaysFollow, B
<1> QED BY <1>8 DEF B, more, row

MoreEnds(nodes, i) == [nodes EXCEPT ![i].ends = nodes[i].ends + 1]
WithEnd(runways, key, end, x) == [runways EXCEPT ![key].ends[end] = x]

LEMMA MoreEndsIs ==
  ASSUME NEW v, NEW A, NEW nodes, NodesFollow(v, A, nodes), NEW i \in A, A \subseteq Ids
  PROVE  /\ NodesFollow(v, A, MoreEnds(nodes, i)) /\ SamePlaces(A, nodes, MoreEnds(nodes, i))
         /\ MoreEnds(nodes, i)[i].ends = nodes[i].ends + 1 /\ MoreEnds(nodes, i)[i].key = nodes[i].key
         /\ \A j \in A \ {i} : MoreEnds(nodes, i)[j] = nodes[j]
<1> DEFINE e == nodes[i].ends + 1
           new == [nodes EXCEPT ![i].ends = e]
<1>1. MoreEnds(nodes, i) = new
  BY DEF MoreEnds
<1>2. IsNode(nodes[i]) /\ e \in Nat
  BY DEF NodesFollow, IsNode
<1> HIDE DEF e
<1>3. /\ DOMAIN new = DOMAIN nodes /\ new[i] = [nodes[i] EXCEPT !.ends = e]
      /\ \A j \in (Ids \cup {0}) \ {i} : new[j] = nodes[j]
  BY DEF NodesFollow
<1> HIDE DEF new
<1>4. IsNode(new[i]) /\ new[i].ends = e /\ new[i].key = nodes[i].key /\ new[i].kind = nodes[i].kind
      /\ new[i].draft = nodes[i].draft /\ new[i].list = nodes[i].list
  BY <1>2, <1>3 DEF IsNode
<1>5. NodesFollow(v, A, new)
  BY <1>3, <1>4 DEF NodesFollow
<1>6. SamePlaces(A, nodes, new)
  BY <1>3, <1>4 DEF SamePlaces
<1> QED BY <1>1, <1>3, <1>4, <1>5, <1>6 DEF e

EndPut(runways, more, key, ends) ==
  /\ DOMAIN more = DOMAIN runways
  /\ \A k \in DOMAIN runways \ {key} : more[k] = runways[k]
  /\ DOMAIN more[key] = {"values", "ends"}
  /\ more[key].values = runways[key].values
  /\ more[key].ends = ends

LEMMA WithEndIs ==
  ASSUME NEW runways, NEW key \in DOMAIN runways, DOMAIN runways[key] = {"values", "ends"}, NEW end, NEW x
  PROVE  EndPut(runways, WithEnd(runways, key, end, x), key, Replaced(runways[key].ends, end, x))
<1> DEFINE e == Replaced(runways[key].ends, end, x)
           row == [runways[key] EXCEPT !.ends = e]
<1>1. WithEnd(runways, key, end, x) = [runways EXCEPT ![key] = row]
  BY DEF WithEnd, Replaced
<1> HIDE DEF e
<1>2. DOMAIN row = {"values", "ends"} /\ row.values = runways[key].values /\ row.ends = e
  OBVIOUS
<1> HIDE DEF row
<1> QED BY <1>1, <1>2 DEF e, EndPut

LEMMA ThresholdKeeps ==
  ASSUME NEW v, NEW A, NEW id, Arriving(v, A, id), v[id].type = "THRESHOLD", NEW i \in A, i = v[id].up,
         v[i].type = "RUNWAY", NEW nodes, NodesFollow(v, A, nodes),
         NEW runways, RunwaysFollow(v, A, nodes, runways), nodes[i].ends + 1 <= 2, NEW x, x = v[id].values[1]
  PROVE  RunwaysFollow(v, A \cup {id}, MoreEnds(nodes, i), WithEnd(runways, nodes[i].key, nodes[i].ends + 1, x))
<1> DEFINE B == A \cup {id}
           new == MoreEnds(nodes, i)
           key == nodes[i].key
           end == nodes[i].ends + 1
           more == WithEnd(runways, key, end, x)
           ids == ThresholdsOf(v, i) \cap A
<1>1. RunwayFollows(v, A, i, nodes[i], runways)
  BY DEF RunwaysFollow
<1>2. A \subseteq Ids /\ A \subseteq DOMAIN v /\ id \in DOMAIN v /\ id \notin A
  BY VersionIs DEF Arriving
<1>3. /\ new[i].ends = end /\ new[i].key = key /\ \A j \in A \ {i} : new[j] = nodes[j]
      /\ SamePlaces(A, nodes, new)
  BY <1>2, MoreEndsIs
<1>4. IsFiniteSet(ids) /\ ids \subseteq Nat /\ id \in Nat
  BY FiniteArrived
<1>5. end = Cardinality(ids) + 1 /\ end \in 1..2 /\ Cardinality(ids) \in Nat
  BY <1>1, <1>4, FS_CardinalityType DEF RunwayFollows
<1>6. key = v[i].name /\ key \in DOMAIN runways /\ RowFollows(v, A, i, runways[key])
  BY <1>1 DEF RunwayFollows
<1>7. DOMAIN runways[key].ends = 1..2 /\ IsSeq(runways[key].ends) /\ Len(runways[key].ends) = 2
  BY <1>6, SeqIs DEF RowFollows
<1>8. /\ DOMAIN more = DOMAIN runways
      /\ \A k \in DOMAIN runways \ {key} : more[k] = runways[k]
      /\ DOMAIN more[key] = {"values", "ends"} /\ more[key].values = runways[key].values
      /\ more[key].ends = Replaced(runways[key].ends, end, x)
  <2> HIDE DEF key, end
  <2>1. DOMAIN runways[key] = {"values", "ends"}
    BY <1>6 DEF RowFollows
  <2>2. EndPut(runways, more, key, Replaced(runways[key].ends, end, x))
    BY <2>1, <1>6, WithEndIs
  <2> QED BY <2>2 DEF EndPut
<1>9. ThresholdsOf(v, i) \cap B = ids \cup {id}
  BY <1>2 DEF ThresholdsOf
<1>10. \A o \in ids : o < id
  BY Elder DEF ThresholdsOf
<1>11. /\ Cardinality(ids \cup {id}) = end /\ Position(ids \cup {id}, id) = end
       /\ \A t \in ids : Position(ids \cup {id}, t) = Position(ids, t)
  BY <1>4, <1>5, <1>10, PositionLater
<1>12. /\ IsSeq(more[key].ends) /\ Len(more[key].ends) = 2 /\ more[key].ends[end] = x
       /\ \A j \in (1..2) \ {end} : more[key].ends[j] = runways[key].ends[j]
  <2> DEFINE old == runways[key].ends
  <2>1. IsSeq(old) /\ end \in DOMAIN old /\ DOMAIN old = 1..2 /\ Len(old) = 2
    BY <1>5, <1>7
  <2> HIDE DEF key, end, more, old
  <2>2. /\ IsSeq(Replaced(old, end, x)) /\ Len(Replaced(old, end, x)) = Len(old)
        /\ Replaced(old, end, x)[end] = x /\ \A j \in DOMAIN old \ {end} : Replaced(old, end, x)[j] = old[j]
    BY <2>1, ReplacedIs
  <2> QED BY <1>8, <2>1, <2>2 DEF old
<1> HIDE DEF new, key, end, more, ids
<1>13. RunwayFollows(v, B, i, new[i], more)
  <2>1. ASSUME NEW t \in ids \cup {id} PROVE more[key].ends[Position(ids \cup {id}, t)] = v[t].values[1]
    <3>1. CASE t = id
      BY <3>1, <1>11, <1>12
    <3>2. CASE t \in ids
      <4>1. Position(ids, t) \in 1..Cardinality(ids)
        BY <3>2, <1>4, PositionIs
      <4>2. runways[key].ends[Position(ids, t)] = v[t].values[1]
        BY <3>2, <1>6, Zenon DEF RowFollows, ids
      <4> QED BY <3>2, <4>1, <4>2, <1>5, <1>11, <1>12
    <3> QED BY <3>1, <3>2
  <2>2. RowFollows(v, B, i, more[key])
    <3> HIDE DEF B
    <3> QED BY <2>1, <1>6, <1>8, <1>9, <1>12 DEF RowFollows
  <2> HIDE DEF B
  <2>3. new[i].key = v[i].name /\ v[i].name \in DOMAIN more
    BY <1>3, <1>6, <1>8
  <2>4. new[i].ends = Cardinality(ThresholdsOf(v, i) \cap B) /\ new[i].ends <= 2
    <3>1. Cardinality(ThresholdsOf(v, i) \cap B) = end
      BY <1>9, <1>11, Zenon
    <3>2. end <= 2
      BY <1>5
    <3> QED BY <1>3, <3>1, <3>2
  <2> QED BY <2>2, <2>3, <2>4, <1>6 DEF RunwayFollows
<1>14. ASSUME NEW j \in A \ {i}, v[j].type = "RUNWAY" PROVE RunwayFollows(v, B, j, new[j], more)
  <2>1. RunwayFollows(v, A, j, nodes[j], runways)
    BY <1>14 DEF RunwaysFollow
  <2>2. ThresholdsOf(v, j) \cap B = ThresholdsOf(v, j) \cap A
    BY DEF ThresholdsOf
  <2>3. CASE v[j].name # key
    <3>1. RowFollows(v, B, j, more[v[j].name])
      <4> DEFINE row == runways[v[j].name]
                 at == ThresholdsOf(v, j) \cap A
      <4>1. more[v[j].name] = row /\ RowFollows(v, A, j, row)
        BY <2>1, <2>3, <1>8 DEF RunwayFollows
      <4>2. /\ DOMAIN row = {"values", "ends"} /\ row.values = v[j].values
            /\ IsSeq(row.ends) /\ Len(row.ends) = 2
            /\ \A t \in at : row.ends[Position(at, t)] = v[t].values[1]
        BY <4>1 DEF RowFollows
      <4>3. ThresholdsOf(v, j) \cap B = at
        BY <2>2
      <4> HIDE DEF row, at, B
      <4>4. RowFollows(v, B, j, row)
        BY <4>2, <4>3, Zenon DEF RowFollows
      <4> QED BY <4>1, <4>4
    <3> QED BY <3>1, <2>1, <2>2, <1>3, <1>8 DEF RunwayFollows
  <2>4. CASE v[j].name = key
    <3>1. v[j].values = v[i].values
      BY <2>4, <1>2, <1>6, <1>14, VersionsAssumption DEF Arriving
    <3>2. ThresholdsOf(v, j) = {}
      <4>1. SUFFICES ASSUME NEW s \in ThresholdsOf(v, j) PROVE FALSE
        OBVIOUS
      <4>2. s \in DOMAIN v /\ v[s].type = "THRESHOLD" /\ v[s].up = j
        BY <4>1 DEF ThresholdsOf
      <4> QED BY <4>2, <2>4, <1>2, <1>6, <1>14, VersionsAssumption DEF Arriving
    <3>3. RowFollows(v, B, j, more[key])
      BY <3>1, <3>2, <1>6, <1>8, <1>12, Zenon DEF RowFollows
    <3> QED BY <3>3, <2>1, <2>2, <2>4, <1>3, <1>8 DEF RunwayFollows
  <2> QED BY <2>3, <2>4
<1>15. \A k \in DOMAIN more : \E j \in B : v[j].type = "RUNWAY" /\ v[j].name = k
  BY <1>8 DEF RunwaysFollow
<1>16. RunwaysFollow(v, B, new, more)
  BY <1>2, <1>13, <1>14, <1>15 DEF RunwaysFollow
<1> QED BY <1>16 DEF new, key, end, more

LEMMA ThresholdIs ==
  ASSUME NEW dec, IsDecoder(dec), NEW r, NEW readable \in BOOLEAN
  PROVE  LET i == r.up
             end == dec.nodes[i].ends + 1
             read == dec.nodes[i].kind = "runway" /\ readable = TRUE /\ end <= 2 IN
         /\ IsDecoder(AcceptThreshold(dec, r, readable))
         /\ AcceptThreshold(dec, r, readable).missed \in {dec.missed, dec.missed + 1}
         /\ end \in Nat /\ read => DecoderAs(AcceptThreshold(dec, r, readable), MoreEnds(dec.nodes, i),
                              WithEnd(dec.runways, dec.nodes[i].key, end, r.values[1]),
                              dec.frequencies, dec.drafts, dec.missed)
         /\ end \in Nat /\ ~read => AcceptThreshold(dec, r, readable).missed = dec.missed + 1
<1> DEFINE i == r.up
           end == dec.nodes[i].ends + 1
           n == MoreEnds(dec.nodes, i)
           w == WithEnd(dec.runways, dec.nodes[i].key, end, r.values[1])
           counted == [dec EXCEPT !.nodes = n]
           read == [counted EXCEPT !.runways = w]
           kind == dec.nodes[i].kind
<1>1. DecoderAs(counted, n, dec.runways, dec.frequencies, dec.drafts, dec.missed)
  <2> HIDE DEF n
  <2> QED BY DEF IsDecoder, DecoderAs
<1>2. DecoderAs(read, n, w, dec.frequencies, dec.drafts, dec.missed)
  <2> HIDE DEF n, w, counted
  <2> QED BY <1>1 DEF IsDecoder, DecoderAs
<1>3. [dec EXCEPT !.nodes[i].ends = end] = counted
  BY DEF MoreEnds
<1>4. [counted EXCEPT !.runways[dec.nodes[i].key].ends[end] = r.values[1]] = read
  <2>1. counted.runways = dec.runways
    BY <1>1 DEF DecoderAs
  <2> HIDE DEF counted, end
  <2> QED BY <2>1 DEF WithEnd
<1>5. AcceptThreshold(dec, r, readable) =
        IF kind # "runway" THEN Missed(dec)
        ELSE IF ~readable \/ end > 2 THEN Missed(counted)
        ELSE [counted EXCEPT !.runways[dec.nodes[i].key].ends[end] = r.values[1]]
  BY <1>3, Zenon DEF AcceptThreshold
<1>7. /\ IsDecoder(Missed(dec)) /\ Missed(dec).missed = dec.missed + 1
      /\ IsDecoder(Missed(counted)) /\ Missed(counted).missed = dec.missed + 1
  <2>1. IsDecoder(counted) /\ counted.missed = dec.missed
    BY <1>1 DEF DecoderAs
  <2> HIDE DEF counted
  <2> QED BY <2>1, MissedIs DEF DecoderAs
<1> HIDE DEF i, end, n, w, counted, read, kind
<1>8. AcceptThreshold(dec, r, readable) =
        IF kind # "runway" THEN Missed(dec) ELSE IF ~readable \/ end > 2 THEN Missed(counted) ELSE read
  BY <1>4, <1>5
<1>9. /\ AcceptThreshold(dec, r, readable) \in {Missed(dec), Missed(counted), read}
      /\ end \in Nat /\ kind = "runway" /\ readable = TRUE /\ end <= 2 => AcceptThreshold(dec, r, readable) = read
      /\ end \in Nat /\ ~(kind = "runway" /\ readable = TRUE /\ end <= 2) =>
            AcceptThreshold(dec, r, readable) \in {Missed(dec), Missed(counted)}
  BY <1>8
<1>10. IsDecoder(read) /\ read.missed = dec.missed
  BY <1>2 DEF DecoderAs
<1>11. /\ IsDecoder(AcceptThreshold(dec, r, readable))
       /\ AcceptThreshold(dec, r, readable).missed \in {dec.missed, dec.missed + 1}
       /\ end \in Nat /\ kind = "runway" /\ readable = TRUE /\ end <= 2 =>
            DecoderAs(AcceptThreshold(dec, r, readable), n, w, dec.frequencies, dec.drafts, dec.missed)
       /\ end \in Nat /\ ~(kind = "runway" /\ readable = TRUE /\ end <= 2) =>
            AcceptThreshold(dec, r, readable).missed = dec.missed + 1
  BY <1>2, <1>7, <1>9, <1>10
<1> QED BY <1>11 DEF i, end, n, w, kind

-----------------------------------------------------------------------------
\* The operations of a draft.
DraftAs(draft, base, values, rows, own) ==
  /\ IsDraft(draft) /\ draft.base = base /\ draft.values = values /\ draft.lists = rows /\ draft.own = own

ListOf(role, name, n) == [role |-> role, name |-> name, n |-> n, legs |-> <<>>]

LEMMA ListOfIs ==
  ASSUME NEW role, NEW name, NEW n
  PROVE  /\ IsListRow(ListOf(role, name, n)) /\ ListOf(role, name, n).role = role
         /\ ListOf(role, name, n).name = name /\ ListOf(role, name, n).legs = <<>>
BY DEF ListOf, IsListRow

LEMMA AppendedLists ==
  ASSUME NEW rows, IsSeq(rows), \A k \in DOMAIN rows : IsListRow(rows[k]), NEW row, IsListRow(row)
  PROVE  IsSeq(Append(rows, row)) /\ \A k \in DOMAIN Append(rows, row) : IsListRow(Append(rows, row)[k])
<1> DEFINE more == Append(rows, row)
<1>1. /\ IsSeq(more) /\ DOMAIN more = 1..(Len(rows) + 1) /\ DOMAIN rows = 1..Len(rows) /\ Len(rows) \in Nat
      /\ \A k \in DOMAIN rows : more[k] = rows[k]
      /\ more[Len(rows) + 1] = row
  BY AppendIs, SeqIs
<1> HIDE DEF more
<1>2. ASSUME NEW k \in DOMAIN more PROVE IsListRow(more[k])
  <2>1. k \in DOMAIN rows \/ k = Len(rows) + 1
    BY <1>1
  <2> QED BY <2>1, <1>1
<1>3. IsSeq(more) /\ \A k \in DOMAIN more : IsListRow(more[k])
  BY <1>1, <1>2
<1> QED BY <1>3 DEF more

LEMMA WithListIs ==
  ASSUME NEW draft, IsDraft(draft), NEW role, NEW name, NEW n
  PROVE  DraftAs(WithList(draft, role, name, n), draft.base, draft.values,
                 Append(draft.lists, ListOf(role, name, n)), draft.own)
<1> DEFINE x == Append(draft.lists, ListOf(role, name, n))
           new == [draft EXCEPT !.lists = x]
<1>1. WithList(draft, role, name, n) = new
  BY DEF WithList, ListOf
<1>2. IsSeq(x) /\ \A k \in DOMAIN x : IsListRow(x[k])
  BY AppendedLists, ListOfIs DEF IsDraft
<1> HIDE DEF x
<1>3. DraftAs(new, draft.base, draft.values, x, draft.own)
  BY <1>2 DEF IsDraft, DraftAs
<1> QED BY <1>1, <1>3 DEF x

OwnPut(own, role, k) == [own EXCEPT ![role] = k]

LEMMA OwnPutIs ==
  ASSUME NEW own, DOMAIN own = Roles, NEW role \in Roles, NEW k
  PROVE  /\ DOMAIN OwnPut(own, role, k) = Roles /\ OwnPut(own, role, k)[role] = k
         /\ \A other \in Roles \ {role} : OwnPut(own, role, k)[other] = own[other]
BY DEF OwnPut

LEMMA WithOwnListIs ==
  ASSUME NEW draft, IsDraft(draft), NEW role \in Roles, NEW n
  PROVE  DraftAs(WithOwnList(draft, role, n), draft.base, draft.values,
                 Append(draft.lists, ListOf(role, Unnamed, n)), OwnPut(draft.own, role, Len(draft.lists) + 1))
<1> DEFINE name == Unnamed
           k == Len(draft.lists) + 1
           d1 == WithList(draft, role, name, n)
           o == OwnPut(draft.own, role, k)
           x == Append(draft.lists, ListOf(role, name, n))
           new == [d1 EXCEPT !.own = o]
<1> HIDE DEF name
<1>1. DraftAs(d1, draft.base, draft.values, x, draft.own)
  BY WithListIs
<1>2. WithOwnList(draft, role, n) = [d1 EXCEPT !.own[role] = k]
  BY DEF WithOwnList, name
<1> HIDE DEF d1, k, x
<1>3. [d1 EXCEPT !.own[role] = k] = new
  BY <1>1 DEF OwnPut, DraftAs
<1>4. DOMAIN o = Roles
  BY OwnPutIs DEF IsDraft
<1> HIDE DEF o
<1>5. DraftAs(new, draft.base, draft.values, x, o)
  BY <1>1, <1>4 DEF IsDraft, DraftAs
<1> QED BY <1>2, <1>3, <1>5 DEF x, o, k, name

WithMore(row, leg) == [row EXCEPT !.legs = Append(@, leg)]

LEMMA WithMoreIs ==
  ASSUME NEW row, IsListRow(row), NEW leg
  PROVE  /\ IsListRow(WithMore(row, leg)) /\ WithMore(row, leg).role = row.role
         /\ WithMore(row, leg).name = row.name /\ WithMore(row, leg).legs = Append(row.legs, leg)
<1> DEFINE x == Append(row.legs, leg)
<1>1. WithMore(row, leg) = [row EXCEPT !.legs = x]
  BY DEF WithMore
<1> HIDE DEF x
<1>2. /\ IsListRow(WithMore(row, leg)) /\ WithMore(row, leg).role = row.role
      /\ WithMore(row, leg).name = row.name /\ WithMore(row, leg).legs = x
  BY <1>1 DEF IsListRow
<1> QED BY <1>2 DEF x

LEMMA WithLegIs ==
  ASSUME NEW draft, IsDraft(draft), NEW k \in DOMAIN draft.lists, NEW leg
  PROVE  DraftAs(WithLeg(draft, k, leg), draft.base, draft.values,
                 Replaced(draft.lists, k, WithMore(draft.lists[k], leg)), draft.own)
<1> DEFINE row == WithMore(draft.lists[k], leg)
           x == Replaced(draft.lists, k, row)
           new == [draft EXCEPT !.lists = x]
<1>1. WithLeg(draft, k, leg) = new
  BY DEF WithLeg, WithMore, Replaced
<1>2. IsListRow(row)
  BY WithMoreIs DEF IsDraft
<1> HIDE DEF row
<1>3. /\ IsSeq(x) /\ DOMAIN x = DOMAIN draft.lists /\ x[k] = row
      /\ \A j \in DOMAIN draft.lists \ {k} : x[j] = draft.lists[j]
  BY ReplacedIs DEF IsDraft
<1> HIDE DEF x
<1>4. \A j \in DOMAIN x : IsListRow(x[j])
  BY <1>2, <1>3 DEF IsDraft
<1>5. DraftAs(new, draft.base, draft.values, x, draft.own)
  BY <1>3, <1>4 DEF IsDraft, DraftAs
<1> QED BY <1>1, <1>5 DEF x, row

-----------------------------------------------------------------------------
\* A draft stays that of its procedure.
LEMMA RolesApart == Roles \cap Transitions = {} /\ Procedures \cap Transitions = {}
                    /\ Transitions \cap LegTypes = {} /\ Procedures \cap LegTypes = {}
BY DEF Roles, Transitions, Procedures, LegTypes

LEMMA ListKept ==
  ASSUME NEW v, NEW row, NEW role, NEW name, NEW ids, ListFollows(v, row, role, name, ids), IsListRow(row),
         IsFiniteSet(ids), ids \subseteq Nat, NEW id \in Nat, \A o \in ids : o < id
  PROVE  ListFollows(v, WithMore(row, v[id].values), role, name, ids \cup {id})
<1>1. Lined(v, Append(row.legs, v[id].values), ids \cup {id})
  BY LinedMore DEF ListFollows
<1> QED BY <1>1, WithMoreIs DEF ListFollows

\* A procedure that has just arrived has nothing under it.
LEMMA TogetherAtFirst ==
  ASSUME NEW v, NEW A, NEW id, Arriving(v, A, id), NEW nodes, NEW draft,
         DraftAs(draft, BaseOf(v, id), v[id].values, <<>>, [role \in Roles |-> 0])
  PROVE  PutTogether(v, A \cup {id}, nodes, id, draft)
<1> DEFINE B == A \cup {id}
<1>0. v[id].up # id
  BY DEF Arriving
<1>1. \A S : (\A c \in S : v[c].up = id) => S \cap B = {}
  BY <1>0, Childless
<1>2. TransitionsOf(v, id) \cap B = {}
  BY <1>1 DEF TransitionsOf
<1>3. \A role \in Roles : LegsUnder(v, id, {role}) \cap B = {}
  BY <1>1 DEF LegsUnder
<1> HIDE DEF B
<1>4. /\ IsDraft(draft) /\ draft.base = BaseOf(v, id) /\ draft.values = v[id].values
      /\ draft.lists = <<>> /\ \A role \in Roles : draft.own[role] = 0
  BY DEF DraftAs
<1>5. Len(draft.lists) = 0 /\ DOMAIN draft.lists = {}
  BY <1>4
<1>6. \A role \in Roles : OwnFollows(v, B, id, draft, role)
  BY <1>3, <1>4, <1>5 DEF OwnFollows
<1>7. PutTogether(v, B, nodes, id, draft)
  BY <1>2, <1>4, <1>5, <1>6 DEF PutTogether
<1> QED BY <1>7 DEF B

LEMMA TogetherOwn ==
  ASSUME NEW v, NEW A, NEW nodes, NEW p, NEW draft, PutTogether(v, A, nodes, p, draft),
         NEW role \in Roles, draft.own[role] = 0, NEW n
  PROVE  /\ PutTogether(v, A, nodes, p, WithOwnList(draft, role, n))
         /\ WithOwnList(draft, role, n).own[role] # 0
         /\ \A other \in Roles \ {role} : WithOwnList(draft, role, n).own[other] = draft.own[other]
<1> DEFINE new == WithOwnList(draft, role, n)
           row == ListOf(role, Unnamed, n)
           last == Len(draft.lists) + 1
<1>1. IsDraft(draft) /\ draft.base = BaseOf(v, p) /\ draft.values = v[p].values
  BY DEF PutTogether
<1>2. DraftAs(new, draft.base, draft.values, Append(draft.lists, row), OwnPut(draft.own, role, last))
  BY <1>1, WithOwnListIs
<1>3. /\ IsDraft(new) /\ new.base = BaseOf(v, p) /\ new.values = v[p].values
      /\ new.lists = Append(draft.lists, row) /\ new.own = OwnPut(draft.own, role, last)
  BY <1>1, <1>2 DEF DraftAs
<1>4. new.own[role] = last /\ \A other \in Roles \ {role} : new.own[other] = draft.own[other]
  BY <1>1, <1>3, OwnPutIs DEF IsDraft
<1> HIDE DEF row
<1>5. /\ IsSeq(new.lists) /\ Len(new.lists) = last /\ DOMAIN new.lists = 1..last
      /\ DOMAIN draft.lists = 1..Len(draft.lists) /\ Len(draft.lists) \in Nat
      /\ last = Len(draft.lists) + 1 /\ last \in Nat \ {0}
      /\ \A k \in DOMAIN draft.lists : new.lists[k] = draft.lists[k]
      /\ new.lists[last] = row
  BY <1>1, <1>3, AppendIs, SeqIs DEF IsDraft
<1>51. /\ DOMAIN draft.lists \subseteq DOMAIN new.lists /\ last \in DOMAIN new.lists
       /\ last \notin DOMAIN draft.lists /\ 0 \notin DOMAIN draft.lists
       /\ \A k \in DOMAIN new.lists : k = last \/ k \in DOMAIN draft.lists
       /\ 0..Len(draft.lists) \subseteq 0..Len(new.lists) /\ last \in 0..Len(new.lists)
  BY <1>5
<1>6. row.role = role /\ row.name = Unnamed /\ row.legs = <<>>
  BY ListOfIs DEF row
<1> HIDE DEF last, new
<1>7. ASSUME NEW other \in Roles PROVE OwnFollows(v, A, p, new, other)
  <2>1. OwnFollows(v, A, p, draft, other)
    BY DEF PutTogether
  <2>2. CASE other = role
    <3>1. LegsUnder(v, p, {role}) \cap A = {}
      BY <2>1, <2>2 DEF OwnFollows
    <3>2. ListFollows(v, row, role, Unnamed, LegsUnder(v, p, {role}) \cap A)
      BY <3>1, <1>6, LinedNone DEF ListFollows
    <3> QED BY <3>2, <2>2, <1>4, <1>5, <1>51 DEF OwnFollows
  <2>3. CASE other # role
    <3>1. draft.own[other] # 0 => draft.own[other] \in DOMAIN draft.lists
      BY <2>1, <1>5 DEF OwnFollows
    <3> QED BY <3>1, <2>1, <2>3, <1>4, <1>5, <1>51 DEF OwnFollows
  <2> QED BY <2>2, <2>3
<1>8. \A t \in TransitionsOf(v, p) \cap A : BranchFollows(v, A, new, t, nodes[t].list)
  BY <1>5, <1>51 DEF PutTogether, BranchFollows
<1>9. \A k \in DOMAIN new.lists :
        \/ \E other \in Roles : new.own[other] = k
        \/ \E t \in TransitionsOf(v, p) \cap A : nodes[t].list = k
  <2> SUFFICES ASSUME NEW k \in DOMAIN new.lists
               PROVE  \/ \E other \in Roles : new.own[other] = k
                      \/ \E t \in TransitionsOf(v, p) \cap A : nodes[t].list = k
    OBVIOUS
  <2>1. CASE k = last
    BY <2>1, <1>4
  <2>2. CASE k \in DOMAIN draft.lists
    <3>1. \/ \E other \in Roles : draft.own[other] = k
          \/ \E t \in TransitionsOf(v, p) \cap A : nodes[t].list = k
      BY <2>2 DEF PutTogether
    <3>2. k # 0
      BY <2>2, <1>51
    <3>3. CASE \E t \in TransitionsOf(v, p) \cap A : nodes[t].list = k
      BY <3>3
    <3>4. ASSUME NEW other \in Roles, draft.own[other] = k PROVE \E o \in Roles : new.own[o] = k
      <4>1. other # role
        BY <3>2, <3>4
      <4> QED BY <4>1, <3>4, <1>4
    <3> QED BY <3>1, <3>3, <3>4
  <2> QED BY <2>1, <2>2, <1>51
<1>10. PutTogether(v, A, nodes, p, new)
  BY <1>3, <1>7, <1>8, <1>9 DEF PutTogether
<1> QED BY <1>4, <1>5, <1>10 DEF new

\* A draft with one more list or leg, of the same lists of its own.
Grown(v, A, nodes, p, draft, more) == PutTogether(v, A, nodes, p, more) /\ more.own = draft.own

LEMMA TogetherBranch ==
  ASSUME NEW v, NEW A, NEW id, Arriving(v, A, id), NEW nodes, NEW new, SamePlaces(A, nodes, new),
         NEW p, NEW draft, PutTogether(v, A, nodes, p, draft), id \in TransitionsOf(v, p),
         new[id].list = Len(draft.lists) + 1, NEW n
  PROVE  Grown(v, A \cup {id}, new, p, draft, WithList(draft, v[id].type, v[id].name, n))
<1> DEFINE B == A \cup {id}
           role == v[id].type
           name == v[id].name
           more == WithList(draft, role, name, n)
           row == ListOf(role, name, n)
           last == Len(draft.lists) + 1
<1>1. IsDraft(draft) /\ draft.base = BaseOf(v, p) /\ draft.values = v[p].values
  BY DEF PutTogether
<1>2. DraftAs(more, draft.base, draft.values, Append(draft.lists, row), draft.own)
  BY <1>1, WithListIs
<1>3. /\ IsDraft(more) /\ more.base = BaseOf(v, p) /\ more.values = v[p].values
      /\ more.lists = Append(draft.lists, row) /\ more.own = draft.own
  BY <1>1, <1>2 DEF DraftAs
<1> HIDE DEF row
<1>5. /\ IsSeq(more.lists) /\ Len(more.lists) = last /\ DOMAIN more.lists = 1..last
      /\ DOMAIN draft.lists = 1..Len(draft.lists) /\ Len(draft.lists) \in Nat
      /\ last = Len(draft.lists) + 1 /\ last \in Nat \ {0}
      /\ \A k \in DOMAIN draft.lists : more.lists[k] = draft.lists[k]
      /\ more.lists[last] = row
  BY <1>1, <1>3, AppendIs, SeqIs DEF IsDraft
<1>51. /\ DOMAIN draft.lists \subseteq DOMAIN more.lists /\ last \in DOMAIN more.lists
       /\ last \notin DOMAIN draft.lists /\ 0 \notin DOMAIN draft.lists
       /\ \A k \in DOMAIN more.lists : k = last \/ k \in DOMAIN draft.lists
       /\ 0..Len(draft.lists) \subseteq 0..Len(more.lists) /\ last \in 0..Len(more.lists)
  BY <1>5
<1>6. row.role = role /\ row.name = name /\ row.legs = <<>>
  BY ListOfIs DEF row
<1>7. /\ TransitionsOf(v, p) \cap B = (TransitionsOf(v, p) \cap A) \cup {id}
      /\ id \notin A /\ v[id].type \in Transitions
  BY Taken DEF Arriving, TransitionsOf
<1>8. /\ \A role1 \in Roles : LegsUnder(v, p, {role1}) \cap B = LegsUnder(v, p, {role1}) \cap A
      /\ \A t : LegsUnder(v, t, Roles) \cap B = LegsUnder(v, t, Roles) \cap A
  BY <1>7, RolesApart DEF LegsUnder, LegsOf
<1>9. LegsUnder(v, id, Roles) \cap B = {}
  BY <1>8, Childless DEF LegsUnder
<1>10. \A t \in TransitionsOf(v, p) \cap A : new[t].list = nodes[t].list /\ nodes[t].list \in DOMAIN draft.lists
  BY DEF SamePlaces, PutTogether, BranchFollows
<1> HIDE DEF last, more, B, role, name
<1>11. ASSUME NEW other \in Roles PROVE OwnFollows(v, B, p, more, other)
  <2>1. OwnFollows(v, A, p, draft, other)
    BY DEF PutTogether
  <2>2. draft.own[other] # 0 => draft.own[other] \in DOMAIN draft.lists
    BY <2>1, <1>5 DEF OwnFollows
  <2> QED BY <2>1, <2>2, <1>3, <1>5, <1>51, <1>8 DEF OwnFollows
<1>12. ASSUME NEW t \in TransitionsOf(v, p) \cap B PROVE BranchFollows(v, B, more, t, new[t].list)
  <2>1. CASE t = id
    <3>1. ListFollows(v, row, role, name, LegsUnder(v, id, Roles) \cap B)
      BY <1>6, <1>9, LinedNone DEF ListFollows
    <3> QED BY <3>1, <2>1, <1>5 DEF BranchFollows, role, name, last
  <2>2. CASE t \in A
    <3>1. BranchFollows(v, A, draft, t, nodes[t].list)
      BY <2>2 DEF PutTogether
    <3> QED BY <3>1, <2>2, <1>5, <1>51, <1>8, <1>10 DEF BranchFollows
  <2> QED BY <2>1, <2>2, <1>7
<1>13. ASSUME NEW t \in TransitionsOf(v, p) \cap B, NEW u \in TransitionsOf(v, p) \cap B,
              new[t].list = new[u].list
       PROVE  t = u
  <2>1. \A s \in TransitionsOf(v, p) \cap A : new[s].list # last
    BY <1>51, <1>10
  <2>2. new[id].list = last
    BY DEF last
  <2>3. \A s \in TransitionsOf(v, p) \cap B : s = id \/ s \in TransitionsOf(v, p) \cap A
    BY <1>7
  <2> QED BY <1>13, <2>1, <2>2, <2>3, <1>10 DEF PutTogether
<1>14. ASSUME NEW k \in DOMAIN more.lists
       PROVE  \/ \E other \in Roles : more.own[other] = k
              \/ \E t \in TransitionsOf(v, p) \cap B : new[t].list = k
  <2>1. CASE k = last
    BY <2>1, <1>7 DEF last
  <2>2. CASE k \in DOMAIN draft.lists
    BY <2>2, <1>3, <1>7, <1>10 DEF PutTogether
  <2> QED BY <2>1, <2>2, <1>51
<1>15. PutTogether(v, B, new, p, more)
  BY <1>3, <1>11, <1>12, <1>13, <1>14 DEF PutTogether
<1> QED BY <1>3, <1>15 DEF B, more, role, name, Grown

LegPut(draft, more, k, leg) ==
  /\ IsDraft(more) /\ more.base = draft.base /\ more.values = draft.values /\ more.own = draft.own
  /\ DOMAIN more.lists = DOMAIN draft.lists /\ Len(more.lists) = Len(draft.lists)
  /\ more.lists[k] = WithMore(draft.lists[k], leg)
  /\ \A j \in DOMAIN draft.lists \ {k} : more.lists[j] = draft.lists[j]

LEMMA LegPutIs ==
  ASSUME NEW draft, IsDraft(draft), NEW k \in DOMAIN draft.lists, NEW leg
  PROVE  LegPut(draft, WithLeg(draft, k, leg), k, leg)
<1> DEFINE row == WithMore(draft.lists[k], leg)
           rows == draft.lists
           x == Replaced(rows, k, row)
           more == WithLeg(draft, k, leg)
<1>1. DraftAs(more, draft.base, draft.values, x, draft.own)
  BY WithLegIs
<1>2. IsSeq(rows) /\ k \in DOMAIN rows
  BY DEF IsDraft
<1> HIDE DEF row, rows, more
<1>3. /\ IsSeq(x) /\ DOMAIN x = DOMAIN rows /\ Len(x) = Len(rows)
      /\ x[k] = row /\ \A j \in DOMAIN rows \ {k} : x[j] = rows[j]
  BY <1>2, ReplacedIs
<1> HIDE DEF x
<1>4. LegPut(draft, more, k, leg)
  BY <1>1, <1>3 DEF LegPut, DraftAs, rows, row
<1> QED BY <1>4 DEF more

\* The lists of a draft say whose they are, so each is of one.
LEMMA ListsApart ==
  ASSUME NEW v, NEW A, NEW nodes, NEW p, NEW draft, PutTogether(v, A, nodes, p, draft)
  PROVE  /\ \A role \in Roles : \A other \in Roles :
              draft.own[role] # 0 /\ draft.own[role] = draft.own[other] => role = other
         /\ \A role \in Roles : \A t \in TransitionsOf(v, p) \cap A :
              draft.own[role] # 0 => draft.own[role] # nodes[t].list
<1>1. ASSUME NEW role \in Roles, draft.own[role] # 0
      PROVE  draft.lists[draft.own[role]].role = role
  BY <1>1 DEF PutTogether, OwnFollows, ListFollows
<1>2. ASSUME NEW t \in TransitionsOf(v, p) \cap A
      PROVE  draft.lists[nodes[t].list].role \in Transitions
  BY DEF PutTogether, BranchFollows, ListFollows, TransitionsOf
<1> QED BY <1>1, <1>2, RolesApart

LEMMA TogetherOwnLeg ==
  ASSUME NEW v, NEW A, NEW id, Arriving(v, A, id), NEW nodes, NEW p, p \in ProceduresOf(v), NEW draft,
         PutTogether(v, A, nodes, p, draft), NEW role \in Roles, draft.own[role] # 0,
         id \in LegsUnder(v, p, {role})
  PROVE  Grown(v, A \cup {id}, nodes, p, draft, WithLeg(draft, draft.own[role], v[id].values))
<1> DEFINE B == A \cup {id}
           k == draft.own[role]
           x == v[id].values
           more == WithLeg(draft, k, x)
           ids == LegsUnder(v, p, {role}) \cap A
<1>1. OwnFollows(v, A, p, draft, role)
  BY DEF PutTogether
<1>2. IsDraft(draft) /\ draft.base = BaseOf(v, p) /\ draft.values = v[p].values /\ DOMAIN draft.lists = 1..Len(draft.lists)
  BY SeqIs DEF PutTogether, IsDraft
<1>3. k \in DOMAIN draft.lists
  BY <1>1, <1>2 DEF OwnFollows
<1>4. LegPut(draft, more, k, x)
  BY <1>2, <1>3, LegPutIs
<1>5. /\ IsDraft(more) /\ more.base = draft.base /\ more.values = draft.values /\ more.own = draft.own
      /\ DOMAIN more.lists = DOMAIN draft.lists /\ Len(more.lists) = Len(draft.lists)
      /\ more.lists[k] = WithMore(draft.lists[k], x)
      /\ \A j \in DOMAIN draft.lists \ {k} : more.lists[j] = draft.lists[j]
  BY <1>4 DEF LegPut
<1>6. v[id].type \in LegTypes /\ v[id].up = p /\ OwnRole(v[id]) = role /\ v[p].type \in Procedures
  BY DEF LegsUnder, LegsOf, ProceduresOf
<1>7. TransitionsOf(v, p) \cap B = TransitionsOf(v, p) \cap A
  BY <1>6, RolesApart DEF TransitionsOf
<1>8. \A t \in TransitionsOf(v, p) : LegsUnder(v, t, Roles) \cap B = LegsUnder(v, t, Roles) \cap A
  <2>1. ASSUME NEW t \in TransitionsOf(v, p) PROVE id \notin LegsUnder(v, t, Roles)
    <3>1. v[t].type \in Transitions
      BY DEF TransitionsOf
    <3>2. t # p
      BY <3>1, <1>6, RolesApart
    <3> QED BY <3>2, <1>6 DEF LegsUnder
  <2> QED BY <2>1, Taken
<1>9. LegsUnder(v, p, {role}) \cap B = ids \cup {id}
  BY Taken
<1>10. \A other \in Roles \ {role} : LegsUnder(v, p, {other}) \cap B = LegsUnder(v, p, {other}) \cap A
  BY <1>6, Taken DEF LegsUnder
<1>11. ListFollows(v, more.lists[k], role, Unnamed, ids \cup {id})
  <2>1. IsFiniteSet(ids) /\ ids \subseteq Nat /\ id \in Nat
    BY FiniteArrived
  <2>2. \A o \in LegsUnder(v, p, {role}) : v[o].type = v[id].type /\ v[o].up = v[id].up
    BY <1>6 DEF LegsUnder, LegsOf, LegTypes, OwnRole
  <2>3. \A o \in ids : o < id
    BY <1>6, <2>2, Elder
  <2>4. ListFollows(v, draft.lists[k], role, Unnamed, ids) /\ IsListRow(draft.lists[k])
    BY <1>1, <1>2, <1>3 DEF OwnFollows, IsDraft
  <2> HIDE DEF more, k, ids
  <2> DEFINE row == draft.lists[k]
             all == ids \cup {id}
  <2>6. ListFollows(v, row, role, Unnamed, ids) /\ IsListRow(row)
    BY <2>4
  <2> HIDE DEF row
  <2>7. ListFollows(v, WithMore(row, v[id].values), role, Unnamed, all)
    BY <2>1, <2>3, <2>6, ListKept
  <2> HIDE DEF all
  <2>8. more.lists[k] = WithMore(row, v[id].values)
    BY <1>5 DEF x, row
  <2>9. ListFollows(v, more.lists[k], role, Unnamed, all)
    BY <2>7, <2>8
  <2> QED BY <2>9 DEF all
<1> HIDE DEF B, more, x, ids
<1>12. ASSUME NEW other \in Roles PROVE OwnFollows(v, B, p, more, other)
  <2>1. CASE other = role
    BY <2>1, <1>1, <1>5, <1>9, <1>11 DEF OwnFollows
  <2>2. CASE other # role
    <3>1. draft.own[other] # 0 => draft.own[other] \in DOMAIN draft.lists \ {k}
      <4>1. draft.own[other] \in 0..Len(draft.lists)
        BY DEF PutTogether, OwnFollows
      <4>2. draft.own[other] # 0 => draft.own[other] # k
        BY <2>2, ListsApart
      <4> QED BY <4>1, <4>2, <1>2
    <3>2. OwnFollows(v, A, p, draft, other)
      BY DEF PutTogether
    <3> QED BY <3>1, <3>2, <2>2, <1>5, <1>10 DEF OwnFollows
  <2> QED BY <2>1, <2>2
<1>13. ASSUME NEW t \in TransitionsOf(v, p) \cap B PROVE BranchFollows(v, B, more, t, nodes[t].list)
  <2>1. BranchFollows(v, A, draft, t, nodes[t].list)
    BY <1>7 DEF PutTogether
  <2>2. nodes[t].list # k
    BY <1>7, ListsApart
  <2> QED BY <2>1, <2>2, <1>5, <1>7, <1>8 DEF BranchFollows
<1>14. PutTogether(v, B, nodes, p, more)
  BY <1>2, <1>5, <1>7, <1>12, <1>13 DEF PutTogether
<1> QED BY <1>5, <1>14 DEF B, more, x, Grown

LEMMA TogetherBranchLeg ==
  ASSUME NEW v, NEW A, NEW id, Arriving(v, A, id), NEW nodes, NEW p, p \in ProceduresOf(v), NEW draft,
         PutTogether(v, A, nodes, p, draft), NEW t \in TransitionsOf(v, p) \cap A,
         v[id].type = "LEG", v[id].up = t, \A l \in A : v[l].type \in LegTypes /\ v[l].up = t => v[l].type = "LEG"
  PROVE  Grown(v, A \cup {id}, nodes, p, draft, WithLeg(draft, nodes[t].list, v[id].values))
<1> DEFINE B == A \cup {id}
           k == nodes[t].list
           x == v[id].values
           more == WithLeg(draft, k, x)
           ids == LegsUnder(v, t, Roles) \cap A
<1>1. BranchFollows(v, A, draft, t, k)
  BY DEF PutTogether
<1>2. IsDraft(draft) /\ draft.base = BaseOf(v, p) /\ draft.values = v[p].values /\ DOMAIN draft.lists = 1..Len(draft.lists)
  BY SeqIs DEF PutTogether, IsDraft
<1>3. k \in DOMAIN draft.lists
  BY <1>1 DEF BranchFollows
<1>4. LegPut(draft, more, k, x)
  BY <1>2, <1>3, LegPutIs
<1>5. /\ IsDraft(more) /\ more.base = draft.base /\ more.values = draft.values /\ more.own = draft.own
      /\ DOMAIN more.lists = DOMAIN draft.lists /\ Len(more.lists) = Len(draft.lists)
      /\ more.lists[k] = WithMore(draft.lists[k], x)
      /\ \A j \in DOMAIN draft.lists \ {k} : more.lists[j] = draft.lists[j]
  BY <1>4 DEF LegPut
<1>6. /\ v[id].type \in LegTypes /\ v[p].type \in Procedures /\ v[t].type \in Transitions
      /\ id \in DOMAIN v
  BY DEF LegTypes, ProceduresOf, TransitionsOf, Arriving
<1>61. t # p
  BY <1>6, RolesApart
<1>7. TransitionsOf(v, p) \cap B = TransitionsOf(v, p) \cap A
  BY <1>6, RolesApart DEF TransitionsOf
<1>8. \A u \in TransitionsOf(v, p) \ {t} : LegsUnder(v, u, Roles) \cap B = LegsUnder(v, u, Roles) \cap A
  BY Taken DEF LegsUnder
<1>9. LegsUnder(v, t, Roles) \cap B = ids \cup {id}
  <2>1. id \in LegsUnder(v, t, Roles)
    BY <1>6, OwnRoleIs DEF LegsUnder, LegsOf
  <2> QED BY <2>1, Taken
<1>10. \A other \in Roles : LegsUnder(v, p, {other}) \cap B = LegsUnder(v, p, {other}) \cap A
  BY <1>61, Taken DEF LegsUnder
<1>11. ListFollows(v, more.lists[k], v[t].type, v[t].name, ids \cup {id})
  <2>1. IsFiniteSet(ids) /\ ids \subseteq Nat /\ id \in Nat
    BY FiniteArrived
  <2>2. \A o \in ids : v[o].type = v[id].type /\ v[o].up = v[id].up
    BY DEF LegsUnder, LegsOf
  <2>3. \A o \in ids \cap A : o < id
    BY <1>6, <2>2, Elder
  <2>4. ListFollows(v, draft.lists[k], v[t].type, v[t].name, ids) /\ IsListRow(draft.lists[k])
    BY <1>1, <1>2, <1>3 DEF BranchFollows, IsDraft
  <2>5. \A o \in ids : o < id
    BY <2>3
  <2> HIDE DEF more, k, ids
  <2> DEFINE row == draft.lists[k]
             all == ids \cup {id}
  <2>6. ListFollows(v, row, v[t].type, v[t].name, ids) /\ IsListRow(row)
    BY <2>4
  <2> HIDE DEF row
  <2>7. ListFollows(v, WithMore(row, v[id].values), v[t].type, v[t].name, all)
    BY <2>1, <2>5, <2>6, ListKept
  <2> HIDE DEF all
  <2>8. more.lists[k] = WithMore(row, v[id].values)
    BY <1>5 DEF x, row
  <2>9. ListFollows(v, more.lists[k], v[t].type, v[t].name, all)
    BY <2>7, <2>8
  <2> QED BY <2>9 DEF all
<1> HIDE DEF B, more, x, ids
<1>12. ASSUME NEW other \in Roles PROVE OwnFollows(v, B, p, more, other)
  <2>1. draft.own[other] # 0 => draft.own[other] \in DOMAIN draft.lists \ {k}
    <3>1. draft.own[other] \in 0..Len(draft.lists)
      BY DEF PutTogether, OwnFollows
    <3>2. draft.own[other] # 0 => draft.own[other] # k
      BY ListsApart
    <3> QED BY <3>1, <3>2, <1>2
  <2>2. OwnFollows(v, A, p, draft, other)
    BY DEF PutTogether
  <2> QED BY <2>1, <2>2, <1>5, <1>10 DEF OwnFollows
<1>13. ASSUME NEW u \in TransitionsOf(v, p) \cap B PROVE BranchFollows(v, B, more, u, nodes[u].list)
  <2>1. CASE u = t
    BY <2>1, <1>3, <1>5, <1>9, <1>11 DEF BranchFollows
  <2>2. CASE u # t
    <3>1. BranchFollows(v, A, draft, u, nodes[u].list)
      BY <1>7 DEF PutTogether
    <3>2. nodes[u].list # k
      BY <2>2, <1>7 DEF PutTogether
    <3> QED BY <3>1, <3>2, <2>2, <1>5, <1>7, <1>8 DEF BranchFollows
  <2> QED BY <2>1, <2>2
<1>14. PutTogether(v, B, nodes, p, more)
  BY <1>2, <1>5, <1>7, <1>12, <1>13 DEF PutTogether
<1> QED BY <1>5, <1>14 DEF B, more, x, Grown

-----------------------------------------------------------------------------
\* The drafts, as a procedure, a transition or a leg arrives.
LEMMA DraftsReplaced ==
  ASSUME NEW v, NEW A, NEW id, Arriving(v, A, id), id \notin ProceduresOf(v), NEW nodes, NEW new,
         SamePlaces(A, nodes, new), NEW drafts, DraftsFollow(v, A, nodes, drafts),
         NEW p \in ProceduresOf(v) \cap A, NEW draft, DraftFollows(v, A \cup {id}, new, p, draft),
         \A q \in ProceduresOf(v) \cap A : q # p => Apart(v, A, q, id)
  PROVE  DraftsFollow(v, A \cup {id}, new, Replaced(drafts, nodes[p].draft, draft))
<1> DEFINE i == nodes[p].draft
           more == Replaced(drafts, i, draft)
<1>1. IsSeq(drafts) /\ i \in DOMAIN drafts
  BY DEF DraftsFollow
<1>2. /\ IsSeq(more) /\ DOMAIN more = DOMAIN drafts /\ more[i] = draft
      /\ \A j \in DOMAIN drafts \ {i} : more[j] = drafts[j]
  <2> HIDE DEF i
  <2> QED BY <1>1, ReplacedIs
<1>3. ProceduresOf(v) \cap (A \cup {id}) = ProceduresOf(v) \cap A
  OBVIOUS
<1>4. \A q \in ProceduresOf(v) \cap A : new[q].draft = nodes[q].draft
  BY DEF SamePlaces
<1> HIDE DEF more
<1>5. ASSUME NEW q \in ProceduresOf(v) \cap A
      PROVE  new[q].draft \in DOMAIN more /\ DraftFollows(v, A \cup {id}, new, q, more[new[q].draft])
  <2>1. nodes[q].draft \in DOMAIN drafts /\ DraftFollows(v, A, nodes, q, drafts[nodes[q].draft])
    BY DEF DraftsFollow
  <2>2. CASE q = p
    BY <2>1, <2>2, <1>2, <1>4
  <2>3. CASE q # p
    <3>1. nodes[q].draft # i
      BY <2>3 DEF DraftsFollow
    <3>2. more[nodes[q].draft] = drafts[nodes[q].draft]
      BY <3>1, <2>1, <1>2
    <3>3. DraftFollows(v, A \cup {id}, new, q, drafts[nodes[q].draft])
      BY <2>1, <2>3, DraftSame
    <3> QED BY <3>2, <3>3, <2>1, <1>2, <1>4
  <2> QED BY <2>2, <2>3
<1>6. DraftsFollow(v, A \cup {id}, new, more)
  BY <1>2, <1>3, <1>4, <1>5 DEF DraftsFollow
<1> QED BY <1>6 DEF more

LEMMA DraftsAppended ==
  ASSUME NEW v, NEW A, NEW id, Arriving(v, A, id), id \in ProceduresOf(v), NEW nodes, NEW new,
         SamePlaces(A, nodes, new), NEW drafts, DraftsFollow(v, A, nodes, drafts),
         new[id].draft = Len(drafts) + 1, NEW draft, DraftFollows(v, A \cup {id}, new, id, draft)
  PROVE  DraftsFollow(v, A \cup {id}, new, Append(drafts, draft))
<1> DEFINE more == Append(drafts, draft)
           last == Len(drafts) + 1
           Ps == ProceduresOf(v) \cap A
           Qs == ProceduresOf(v) \cap (A \cup {id})
<1>1. /\ IsSeq(more) /\ DOMAIN more = 1..last /\ DOMAIN drafts = 1..Len(drafts) /\ Len(drafts) \in Nat
      /\ \A k \in DOMAIN drafts : more[k] = drafts[k]
      /\ more[last] = draft
  BY AppendIs, SeqIs DEF DraftsFollow
<1>2. /\ DOMAIN drafts \subseteq DOMAIN more /\ last \in DOMAIN more /\ last \notin DOMAIN drafts
      /\ \A k \in DOMAIN more : k = last \/ k \in DOMAIN drafts
  BY <1>1
<1>3. Qs = Ps \cup {id} /\ id \notin Ps
  BY DEF Arriving
<1>4. \A q \in Ps : new[q].draft = nodes[q].draft /\ nodes[q].draft \in DOMAIN drafts
  BY DEF SamePlaces, DraftsFollow
<1> HIDE DEF more, last, Ps, Qs
<1>5. ASSUME NEW q \in Qs PROVE new[q].draft \in DOMAIN more /\ DraftFollows(v, A \cup {id}, new, q, more[new[q].draft])
  <2>1. CASE q = id
    BY <2>1, <1>1, <1>2 DEF last
  <2>2. CASE q \in Ps
    <3>1. DraftFollows(v, A, nodes, q, drafts[nodes[q].draft])
      BY <2>2 DEF DraftsFollow, Ps
    <3>2. Apart(v, A, q, id)
      BY RolesApart DEF Apart, TransitionsOf, LegsUnder, LegsOf, ProceduresOf
    <3>3. DraftFollows(v, A \cup {id}, new, q, drafts[nodes[q].draft])
      BY <3>1, <3>2, DraftSame
    <3> QED BY <3>3, <2>2, <1>1, <1>2, <1>4
  <2> QED BY <2>1, <2>2, <1>3
<1>6. ASSUME NEW q \in Qs, NEW s \in Qs, new[q].draft = new[s].draft PROVE q = s
  <2>1. \A t \in Ps : new[t].draft # last
    BY <1>2, <1>4
  <2>2. new[id].draft = last
    BY DEF last
  <2>3. CASE q \in Ps /\ s \in Ps
    BY <2>3, <1>4, <1>6 DEF DraftsFollow, Ps
  <2> QED BY <2>1, <2>2, <2>3, <1>3, <1>6
<1>7. ASSUME NEW k \in DOMAIN more PROVE \E q \in Qs : new[q].draft = k
  <2>1. CASE k = last
    BY <2>1, <1>3 DEF last
  <2>2. CASE k \in DOMAIN drafts
    <3>1. PICK q \in Ps : nodes[q].draft = k
      BY <2>2 DEF DraftsFollow, Ps
    <3> QED BY <3>1, <1>3, <1>4
  <2> QED BY <2>1, <2>2, <1>2
<1>8. DraftsFollow(v, A \cup {id}, new, more)
  BY <1>1, <1>5, <1>6, <1>7 DEF DraftsFollow, Qs
<1> QED BY <1>8 DEF more

LEMMA PlacesSameLeg ==
  ASSUME NEW v, NEW A, NEW id, Arriving(v, A, id), NEW nodes, PlacesFollow(v, A, nodes),
         v[id].type \in LegTypes, NEW up \in A, v[id].up = up,
         v[up].type \in Procedures \/ (v[up].type \in Transitions /\ v[id].type = "LEG")
  PROVE  PlacesFollow(v, A \cup {id}, nodes)
<1>1. v[id].type \notin Transitions
  BY RolesApart
<1>2. \A t \in A \cup {id} : v[t].type \in Transitions =>
        v[t].up \in ProceduresOf(v) \cap (A \cup {id}) /\ nodes[t].draft = nodes[v[t].up].draft
  BY <1>1 DEF PlacesFollow
<1>3. \A l \in A \cup {id} : v[l].type \in LegTypes =>
        /\ v[l].up \in A \cup {id}
        /\ v[v[l].up].type \in Procedures \/ (v[v[l].up].type \in Transitions /\ v[l].type = "LEG")
  BY DEF PlacesFollow
<1> QED BY <1>2, <1>3 DEF PlacesFollow

LEMMA PlacesMoreBranch ==
  ASSUME NEW v, NEW A, NEW id, Arriving(v, A, id), NEW nodes, NEW new, SamePlaces(A, nodes, new),
         PlacesFollow(v, A, nodes), v[id].type \in Transitions, v[id].up \in ProceduresOf(v) \cap A,
         new[id].draft = nodes[v[id].up].draft
  PROVE  PlacesFollow(v, A \cup {id}, new)
<1>1. v[id].type \notin LegTypes
  BY RolesApart
<1>2. \A t \in A \cup {id} : v[t].type \in Transitions =>
        v[t].up \in ProceduresOf(v) \cap (A \cup {id}) /\ new[t].draft = new[v[t].up].draft
  <2> SUFFICES ASSUME NEW t \in A \cup {id}, v[t].type \in Transitions
               PROVE  v[t].up \in ProceduresOf(v) \cap A /\ new[t].draft = new[v[t].up].draft
    OBVIOUS
  <2>1. CASE t \in A
    <3>1. v[t].up \in ProceduresOf(v) \cap A /\ nodes[t].draft = nodes[v[t].up].draft
      BY <2>1 DEF PlacesFollow
    <3> QED BY <3>1, <2>1 DEF SamePlaces
  <2>2. CASE t = id
    BY <2>2 DEF SamePlaces
  <2> QED BY <2>1, <2>2
<1>3. \A l \in A \cup {id} : v[l].type \in LegTypes =>
        /\ v[l].up \in A \cup {id}
        /\ v[v[l].up].type \in Procedures \/ (v[v[l].up].type \in Transitions /\ v[l].type = "LEG")
  BY <1>1 DEF PlacesFollow
<1> QED BY <1>2, <1>3 DEF PlacesFollow

-----------------------------------------------------------------------------
(* A procedure arrives.                                                    *)

FirstDraft(r) ==
  [base |-> <<r.type, r.name>>, values |-> r.values, lists |-> <<>>, own |-> [role \in Roles |-> 0]]
DeclaredDraft(r) ==
  IF r.type = "APPROACH"
  THEN Declared(Declared(FirstDraft(r), "final", r.legs.final), "missed", r.legs.missed)
  ELSE Declared(FirstDraft(r), "common", r.legs.common)

LEMMA ProcedureIs ==
  ASSUME NEW dec, IsDecoder(dec), NEW id, NEW r
  PROVE  DecoderAs(AcceptProcedure(dec, id, r),
                   WithNode(dec.nodes, id, OfKind("procedure", Absent, Len(dec.drafts) + 1, 0)),
                   dec.runways, dec.frequencies, Append(dec.drafts, DeclaredDraft(r)), dec.missed)
<1> DEFINE i == Len(dec.drafts) + 1
           u1 == [Unplaced EXCEPT !.kind = "procedure"]
           u == [u1 EXCEPT !.draft = i]
           n == [dec.nodes EXCEPT ![id] = u]
           d == Append(dec.drafts, DeclaredDraft(r))
<1>1. AcceptProcedure(dec, id, r) = WithDrafts(dec, n, d)
  BY DEF AcceptProcedure, FirstDraft, DeclaredDraft, WithDrafts
<1>2. u = OfKind("procedure", Absent, i, 0)
  <2> HIDE DEF i
  <2>1. u1 = OfKind("procedure", Absent, 0, 0)
    BY UnplacedIs DEF OfKind, Node
  <2> HIDE DEF u1
  <2> QED BY <2>1 DEF OfKind, Node
<1>3. n = WithNode(dec.nodes, id, OfKind("procedure", Absent, i, 0))
  BY <1>2 DEF WithNode
<1> HIDE DEF n, d, u
<1>4. DecoderAs(AcceptProcedure(dec, id, r), n, dec.runways, dec.frequencies, d, dec.missed)
  BY <1>1, WithDraftsIs
<1> QED BY <1>3, <1>4 DEF d, i

LEMMA TransitionIs ==
  ASSUME NEW dec, IsDecoder(dec), NEW id, NEW r, NEW i, i = dec.nodes[r.up].draft
  PROVE  /\ dec.nodes[r.up].kind # "procedure" => AcceptTransition(dec, id, r) = Missed(dec)
         /\ dec.nodes[r.up].kind = "procedure" =>
              DecoderAs(AcceptTransition(dec, id, r),
                   WithNode(dec.nodes, id, OfKind("transition", Absent, i, Len(dec.drafts[i].lists) + 1)),
                   dec.runways, dec.frequencies,
                   Replaced(dec.drafts, i, WithList(dec.drafts[i], r.type, r.name, r.legs.common)), dec.missed)
<1> DEFINE k == Len(dec.drafts[i].lists) + 1
           u1 == [Unplaced EXCEPT !.kind = "transition"]
           u2 == [u1 EXCEPT !.draft = i]
           u == [u2 EXCEPT !.list = k]
           n == [dec.nodes EXCEPT ![id] = u]
           d == Replaced(dec.drafts, i, WithList(dec.drafts[i], r.type, r.name, r.legs.common))
           kind == dec.nodes[r.up].kind
<1>1. AcceptTransition(dec, id, r) = IF kind # "procedure" THEN Missed(dec) ELSE WithDrafts(dec, n, d)
  BY DEF AcceptTransition, WithDrafts, Replaced
<1>2. u = OfKind("transition", Absent, i, k)
  <2> HIDE DEF k
  <2>1. u1 = OfKind("transition", Absent, 0, 0)
    BY UnplacedIs DEF OfKind, Node
  <2> HIDE DEF u1
  <2>2. u2 = OfKind("transition", Absent, i, 0)
    BY <2>1 DEF OfKind, Node
  <2> HIDE DEF u2
  <2> QED BY <2>2 DEF OfKind, Node
<1> HIDE DEF u
<1>3. n = WithNode(dec.nodes, id, OfKind("transition", Absent, i, k))
  BY <1>2 DEF WithNode
<1> HIDE DEF n, d, kind
<1>4. DecoderAs(WithDrafts(dec, n, d), n, dec.runways, dec.frequencies, d, dec.missed)
  BY WithDraftsIs
<1>5. /\ kind # "procedure" => AcceptTransition(dec, id, r) = Missed(dec)
      /\ kind = "procedure" =>
           DecoderAs(AcceptTransition(dec, id, r), n, dec.runways, dec.frequencies, d, dec.missed)
  BY <1>1, <1>4
<1> HIDE DEF k
<1>6. /\ kind # "procedure" => AcceptTransition(dec, id, r) = Missed(dec)
      /\ kind = "procedure" =>
           DecoderAs(AcceptTransition(dec, id, r), WithNode(dec.nodes, id, OfKind("transition", Absent, i, k)),
                     dec.runways, dec.frequencies, d, dec.missed)
  BY <1>3, <1>5
<1> QED BY <1>6 DEF d, k, kind

DraftsPut(dec, d) == [dec EXCEPT !.drafts = d]

LEMMA DraftsPutIs ==
  ASSUME NEW dec, IsDecoder(dec), NEW d
  PROVE  DecoderAs(DraftsPut(dec, d), dec.nodes, dec.runways, dec.frequencies, d, dec.missed)
BY SMTT(30) DEF DraftsPut, IsDecoder, DecoderAs

LEMMA LegIs ==
  ASSUME NEW dec, IsDecoder(dec), NEW r, NEW up, up = dec.nodes[r.up], NEW role, role = OwnRole(r),
         NEW draft, draft = HavingOwnList(dec.drafts[up.draft], role)
  PROVE  /\ up.kind = "transition" /\ r.type = "LEG" =>
              AcceptLeg(dec, r) =
                DraftsPut(dec, Replaced(dec.drafts, up.draft, WithLeg(dec.drafts[up.draft], up.list, r.values)))
         /\ up.kind = "procedure" =>
              AcceptLeg(dec, r) =
                DraftsPut(dec, Replaced(dec.drafts, up.draft, WithLeg(draft, draft.own[role], r.values)))
         /\ up.kind # "procedure" /\ ~(up.kind = "transition" /\ r.type = "LEG") =>
              AcceptLeg(dec, r) = Missed(dec)
<1> DEFINE inBranch == DraftsPut(dec, Replaced(dec.drafts, up.draft, WithLeg(dec.drafts[up.draft], up.list, r.values)))
           inOwn == DraftsPut(dec, Replaced(dec.drafts, up.draft, WithLeg(draft, draft.own[role], r.values)))
           kind == up.kind
<1>1. AcceptLeg(dec, r) =
        CASE kind = "transition" /\ r.type = "LEG" -> inBranch
          [] kind = "procedure" -> inOwn
          [] OTHER -> Missed(dec)
  BY Zenon DEF AcceptLeg, DraftsPut, Replaced
<1> HIDE DEF inBranch, inOwn, kind
<1>2. /\ kind = "transition" /\ r.type = "LEG" => AcceptLeg(dec, r) = inBranch
      /\ kind = "procedure" => AcceptLeg(dec, r) = inOwn
      /\ kind # "procedure" /\ ~(kind = "transition" /\ r.type = "LEG") => AcceptLeg(dec, r) = Missed(dec)
  BY <1>1
<1> QED BY <1>2 DEF inBranch, inOwn, kind

-----------------------------------------------------------------------------
\* The decoder still follows what has arrived when one more record is accepted.
Good(v, A, dec) == IsDecoder(dec) /\ (dec.missed = 0 => Follows(v, A, dec))

LEMMA FollowsAs ==
  ASSUME NEW v, NEW B, NEW dec, NEW n, NEW r, NEW f, NEW d, NEW m, DecoderAs(dec, n, r, f, d, m),
         NodesFollow(v, B, n), DraftsFollow(v, B, n, d), PlacesFollow(v, B, n), RunwaysFollow(v, B, n, r),
         \A i \in B : v[i].type = "FREQUENCY" => v[i].name \in f
  PROVE  Good(v, B, dec)
BY DEF Follows, DecoderAs, Good

LEMMA GoodWhenMissed ==
  ASSUME NEW v, NEW B, NEW dec, IsDecoder(dec), dec.missed # 0
  PROVE  Good(v, B, dec)
BY DEF Good

LEMMA MissedIsGood ==
  ASSUME NEW v, NEW B, NEW dec, IsDecoder(dec)
  PROVE  Good(v, B, Missed(dec))
<1>1. IsDecoder(Missed(dec)) /\ Missed(dec).missed = dec.missed + 1 /\ dec.missed \in Nat
  BY MissedIs DEF DecoderAs, IsDecoder
<1>2. Missed(dec).missed # 0
  BY <1>1
<1> QED BY <1>1, <1>2, GoodWhenMissed

LEMMA SameIsSame == ASSUME NEW A, NEW nodes PROVE SamePlaces(A, nodes, nodes) /\ SameEnds(A, nodes, nodes)
BY DEF SamePlaces, SameEnds

\* An operation that only changes fields the tree does not hang off.
LEMMA GoodSame ==
  ASSUME NEW v, NEW A, NEW id, Arriving(v, A, id), NEW dec, Good(v, A, dec), NEW new, NEW f,
         DecoderAs(new, dec.nodes, dec.runways, f, dec.drafts, dec.missed),
         dec.frequencies \subseteq f, v[id].type \in {"AIRPORT", "FREQUENCY"},
         v[id].type = "FREQUENCY" => v[id].name \in f
  PROVE  Good(v, A \cup {id}, new)
<1>0. v[id].type \notin Procedures \cup Transitions \cup LegTypes \cup {"RUNWAY", "THRESHOLD"}
  BY DEF Procedures, Transitions, LegTypes
<1>1. CASE dec.missed = 0
  <2>1. Follows(v, A, dec)
    BY <1>1 DEF Good
  <2>2. NodesFollow(v, A, dec.nodes) /\ DraftsFollow(v, A, dec.nodes, dec.drafts)
        /\ PlacesFollow(v, A, dec.nodes) /\ RunwaysFollow(v, A, dec.nodes, dec.runways)
    BY <2>1 DEF Follows
  <2>3. KindOf(v[id].type) = "other"
    BY <1>0 DEF KindOf
  <2>4. NodesFollow(v, A \cup {id}, dec.nodes)
    BY <2>2, <2>3, NodesSame
  <2>5. DraftsFollow(v, A \cup {id}, dec.nodes, dec.drafts)
    BY <2>2, <1>0, DraftsSame, SameIsSame
  <2>6. PlacesFollow(v, A \cup {id}, dec.nodes)
    BY <2>2, <1>0, PlacesSame, SameIsSame
  <2>7. RunwaysFollow(v, A \cup {id}, dec.nodes, dec.runways)
    BY <2>2, <1>0, RunwaysSame, SameIsSame
  <2>8. \A i \in A \cup {id} : v[i].type = "FREQUENCY" => v[i].name \in f
    BY <2>1 DEF Follows
  <2> QED BY <2>4, <2>5, <2>6, <2>7, <2>8, FollowsAs
<1>2. CASE dec.missed # 0
  BY <1>2, GoodWhenMissed DEF DecoderAs
<1> QED BY <1>1, <1>2

LEMMA GoodRunway ==
  ASSUME NEW v, NEW A, NEW id, Arriving(v, A, id), NEW dec, Good(v, A, dec), v[id].type = "RUNWAY"
  PROVE  Good(v, A \cup {id}, AcceptRunway(dec, id, v[id]))
<1> DEFINE new == AcceptRunway(dec, id, v[id])
           name == v[id].name
           node == OfKind("runway", name, 0, 0)
           n == WithNode(dec.nodes, id, node)
           w == Claimed(dec.runways, name, RunwayRow(v[id].values))
<1>0. v[id].type \notin Procedures \cup Transitions \cup LegTypes \cup {"FREQUENCY"}
  BY DEF Procedures, Transitions, LegTypes
<1>1. DecoderAs(new, n, w, dec.frequencies, dec.drafts, dec.missed)
  BY RunwayIs DEF Good
<1>2. IsNode(node) /\ node.kind = "runway" /\ node.key = name /\ node.ends = 0
  BY NodeIs
<1> HIDE DEF new, node
<1>3. CASE dec.missed = 0
  <2>1. Follows(v, A, dec)
    BY <1>3 DEF Good
  <2>2. NodesFollow(v, A, dec.nodes) /\ DraftsFollow(v, A, dec.nodes, dec.drafts)
        /\ PlacesFollow(v, A, dec.nodes) /\ RunwaysFollow(v, A, dec.nodes, dec.runways)
    BY <2>1 DEF Follows
  <2>3. KindOf(v[id].type) = "runway"
    BY DEF KindOf
  <2>4. NodesFollow(v, A \cup {id}, n)
    BY <1>2, <2>2, <2>3, NodesMore
  <2>5. SamePlaces(A, dec.nodes, n) /\ SameEnds(A, dec.nodes, n) /\ n[id] = node
    BY <2>2, NodesMoreKeep
  <2> HIDE DEF n
  <2>6. DraftsFollow(v, A \cup {id}, n, dec.drafts)
    BY <2>2, <2>5, <1>0, DraftsSame
  <2>7. PlacesFollow(v, A \cup {id}, n)
    BY <2>2, <2>5, <1>0, PlacesSame
  <2>8. RunwaysFollow(v, A \cup {id}, n, w)
    BY <2>2, <2>5, <1>2, RunwayKeeps
  <2>9. \A i \in A \cup {id} : v[i].type = "FREQUENCY" => v[i].name \in dec.frequencies
    BY <2>1 DEF Follows
  <2> QED BY <1>1, <2>4, <2>6, <2>7, <2>8, <2>9, FollowsAs DEF new
<1>4. CASE dec.missed # 0
  BY <1>1, <1>4, GoodWhenMissed DEF DecoderAs, new
<1> QED BY <1>3, <1>4

LEMMA GoodThreshold ==
  ASSUME NEW v, NEW A, NEW id, Arriving(v, A, id), NEW dec, Good(v, A, dec), v[id].type = "THRESHOLD",
         NEW readable \in BOOLEAN
  PROVE  Good(v, A \cup {id}, AcceptThreshold(dec, v[id], readable))
<1> DEFINE new == AcceptThreshold(dec, v[id], readable)
           i == v[id].up
           end == dec.nodes[i].ends + 1
           n == MoreEnds(dec.nodes, i)
           x == v[id].values[1]
           w == WithEnd(dec.runways, dec.nodes[i].key, end, x)
           read == dec.nodes[i].kind = "runway" /\ readable = TRUE /\ end <= 2
<1>0. v[id].type \notin Procedures \cup Transitions \cup LegTypes \cup {"FREQUENCY"}
  BY DEF Procedures, Transitions, LegTypes
<1>1. /\ IsDecoder(new) /\ new.missed \in {dec.missed, dec.missed + 1} /\ dec.missed \in Nat
      /\ end \in Nat /\ read => DecoderAs(new, n, w, dec.frequencies, dec.drafts, dec.missed)
      /\ end \in Nat /\ ~read => new.missed = dec.missed + 1
  BY ThresholdIs DEF Good, IsDecoder
<1> HIDE DEF new
<1>2. CASE dec.missed # 0 \/ new.missed # 0
  BY <1>1, <1>2, GoodWhenMissed DEF new
<1>3. CASE dec.missed = 0 /\ new.missed = 0
  <2>1. Follows(v, A, dec)
    BY <1>3 DEF Good
  <2>2. NodesFollow(v, A, dec.nodes) /\ DraftsFollow(v, A, dec.nodes, dec.drafts)
        /\ PlacesFollow(v, A, dec.nodes) /\ RunwaysFollow(v, A, dec.nodes, dec.runways)
    BY <2>1 DEF Follows
  <2>3. A \subseteq Ids /\ A \subseteq DOMAIN v
    BY VersionIs DEF Arriving
  <2>4. i \in A \cup {0} /\ i \in Ids \cup {0}
    BY <2>3, UpArrived
  <2>5. end \in Nat
    BY <2>2, <2>4 DEF NodesFollow, IsNode
  <2>6. read
    BY <1>1, <1>3, <2>5
  <2>7. i \in A /\ v[i].type = "RUNWAY"
    <3>1. dec.nodes[i].kind = "runway"
      BY <2>6
    <3>2. dec.nodes[i].kind = IF i \in A THEN KindOf(v[i].type) ELSE "other"
      BY <2>2, <2>4 DEF NodesFollow
    <3> QED BY <3>1, <3>2 DEF KindOf
  <2>8. DecoderAs(new, n, w, dec.frequencies, dec.drafts, dec.missed)
    BY <1>1, <2>5, <2>6
  <2>9. NodesFollow(v, A, n) /\ SamePlaces(A, dec.nodes, n)
    BY <2>2, <2>3, <2>7, MoreEndsIs
  <2>10. RunwaysFollow(v, A \cup {id}, n, w)
    BY <2>2, <2>6, <2>7, ThresholdKeeps
  <2> HIDE DEF n, w
  <2>11. NodesFollow(v, A \cup {id}, n)
    BY <1>0, <2>9, NodesSame DEF KindOf
  <2>12. DraftsFollow(v, A \cup {id}, n, dec.drafts)
    BY <2>2, <2>9, <1>0, DraftsSame
  <2>13. PlacesFollow(v, A \cup {id}, n)
    BY <2>2, <2>9, <1>0, PlacesSame
  <2>14. \A j \in A \cup {id} : v[j].type = "FREQUENCY" => v[j].name \in dec.frequencies
    BY <2>1, <1>0 DEF Follows
  <2> QED BY <2>8, <2>10, <2>11, <2>12, <2>13, <2>14, FollowsAs DEF new
<1> QED BY <1>2, <1>3

LEMMA DeclaredIs ==
  ASSUME NEW v, NEW A, NEW nodes, NEW p, NEW draft, PutTogether(v, A, nodes, p, draft),
         NEW role \in Roles, draft.own[role] = 0, NEW n \in Int
  PROVE  /\ PutTogether(v, A, nodes, p, Declared(draft, role, n))
         /\ n > 0 => Declared(draft, role, n).own[role] # 0
         /\ \A other \in Roles \ {role} : Declared(draft, role, n).own[other] = draft.own[other]
<1>1. CASE n > 0
  <2>1. Declared(draft, role, n) = WithOwnList(draft, role, n)
    BY <1>1 DEF Declared
  <2> QED BY <2>1, TogetherOwn
<1>2. CASE ~(n > 0)
  <2>1. Declared(draft, role, n) = draft
    BY <1>2 DEF Declared
  <2> QED BY <2>1, <1>2
<1> QED BY <1>1, <1>2

LEMMA DeclaredFollows ==
  ASSUME NEW v, NEW A, NEW id, Arriving(v, A, id), v[id].type \in Procedures, NEW nodes
  PROVE  DraftFollows(v, A \cup {id}, nodes, id, DeclaredDraft(v[id]))
<1> DEFINE r == v[id]
           B == A \cup {id}
           d0 == FirstDraft(r)
           d1 == Declared(d0, "final", r.legs.final)
           d2 == Declared(d1, "missed", r.legs.missed)
           d3 == Declared(d0, "common", r.legs.common)
<1>1. /\ r.legs.final \in Int /\ r.legs.missed \in Int /\ r.legs.common \in Int
      /\ r.type = "APPROACH" => r.legs.common <= 0
      /\ r.type # "APPROACH" => r.legs.final <= 0 /\ r.legs.missed <= 0
  <2>1. v \in Versions /\ id \in DOMAIN v
    BY DEF Arriving
  <2>2. r.legs \in [Roles -> Int]
    BY <2>1, RecordIs
  <2>3. r.type # "APPROACH" => r.type \in {"DEPARTURE", "ARRIVAL"}
    BY DEF Procedures
  <2> QED BY <2>1, <2>2, <2>3, VersionsAssumption DEF Roles
<1>2. "final" \in Roles /\ "missed" \in Roles /\ "common" \in Roles
  BY DEF Roles
<1>3. DraftAs(d0, BaseOf(v, id), r.values, <<>>, [role \in Roles |-> 0])
  <2> DEFINE none == <<>>
             own == [role \in Roles |-> 0]
             base == <<r.type, r.name>>
  <2>1. IsSeq(none) /\ DOMAIN none = {} /\ DOMAIN own = Roles
    BY DEF IsSeq
  <2>2. base = BaseOf(v, id)
    BY DEF BaseOf
  <2>3. d0 = [base |-> base, values |-> r.values, lists |-> none, own |-> own]
    BY DEF FirstDraft
  <2> HIDE DEF none, own, base, d0
  <2>4. DraftAs(d0, base, r.values, none, own)
    BY <2>1, <2>3 DEF DraftAs, IsDraft
  <2> QED BY <2>2, <2>4 DEF none, own
<1>4. PutTogether(v, B, nodes, id, d0)
  <2> HIDE DEF d0
  <2> QED BY <1>3, TogetherAtFirst
<1>5. \A role \in Roles : d0.own[role] = 0
  BY DEF FirstDraft
<1> HIDE DEF r, B, d0
<1>6. /\ PutTogether(v, B, nodes, id, d1) /\ (r.legs.final > 0 => d1.own["final"] # 0)
      /\ \A other \in Roles \ {"final"} : d1.own[other] = d0.own[other]
  BY <1>1, <1>2, <1>4, <1>5, DeclaredIs
<1> HIDE DEF d1
<1>7. /\ PutTogether(v, B, nodes, id, d2) /\ (r.legs.missed > 0 => d2.own["missed"] # 0)
      /\ \A other \in Roles \ {"missed"} : d2.own[other] = d1.own[other]
  <2>1. d1.own["missed"] = 0
    BY <1>2, <1>5, <1>6
  <2> QED BY <2>1, <1>1, <1>2, <1>6, DeclaredIs
<1>8. /\ PutTogether(v, B, nodes, id, d3) /\ (r.legs.common > 0 => d3.own["common"] # 0)
  BY <1>1, <1>2, <1>4, <1>5, DeclaredIs
<1> HIDE DEF d2, d3
<1>9. \A role \in Roles : role = "common" \/ role = "final" \/ role = "missed"
  BY DEF Roles
<1>10. CASE r.type = "APPROACH"
  <2>1. DeclaredDraft(r) = d2
    BY <1>10 DEF DeclaredDraft, d2, d1, d0
  <2>2. d2.own["final"] = d1.own["final"]
    BY <1>2, <1>7
  <2>3. \A role \in Roles : r.legs[role] > 0 => d2.own[role] # 0
    BY <2>2, <1>1, <1>6, <1>7, <1>9, <1>10
  <2>4. DraftFollows(v, B, nodes, id, d2)
    BY <2>3, <1>7 DEF DraftFollows, r
  <2> QED BY <2>1, <2>4 DEF r, B
<1>11. CASE r.type # "APPROACH"
  <2>1. DeclaredDraft(r) = d3
    BY <1>11 DEF DeclaredDraft, d3, d0
  <2>3. \A role \in Roles : r.legs[role] > 0 => d3.own[role] # 0
    BY <1>1, <1>8, <1>9, <1>11
  <2>4. DraftFollows(v, B, nodes, id, d3)
    BY <2>3, <1>8 DEF DraftFollows, r
  <2> QED BY <2>1, <2>4 DEF r, B
<1> QED BY <1>10, <1>11

LEMMA GoodProcedure ==
  ASSUME NEW v, NEW A, NEW id, Arriving(v, A, id), NEW dec, Good(v, A, dec), v[id].type \in Procedures
  PROVE  Good(v, A \cup {id}, AcceptProcedure(dec, id, v[id]))
<1> DEFINE new == AcceptProcedure(dec, id, v[id])
           last == Len(dec.drafts) + 1
           node == OfKind("procedure", Absent, last, 0)
           n == WithNode(dec.nodes, id, node)
           draft == DeclaredDraft(v[id])
           d == Append(dec.drafts, draft)
<1>0. v[id].type \notin Transitions \cup LegTypes \cup {"FREQUENCY", "RUNWAY", "THRESHOLD"}
  BY DEF Procedures, Transitions, LegTypes
<1>1. DecoderAs(new, n, dec.runways, dec.frequencies, d, dec.missed)
  BY ProcedureIs DEF Good
<1> HIDE DEF new, d
<1>3. CASE dec.missed = 0
  <2>1. Follows(v, A, dec)
    BY <1>3 DEF Good
  <2>2. NodesFollow(v, A, dec.nodes) /\ DraftsFollow(v, A, dec.nodes, dec.drafts)
        /\ PlacesFollow(v, A, dec.nodes) /\ RunwaysFollow(v, A, dec.nodes, dec.runways)
    BY <2>1 DEF Follows
  <2>3. KindOf(v[id].type) = "procedure"
    BY <1>0 DEF KindOf
  <2>4. last \in Nat
    BY <2>2, SeqIs DEF DraftsFollow
  <2> HIDE DEF last
  <2>5. IsNode(node) /\ node.kind = "procedure" /\ node.draft = last
    BY <2>4, NodeIs
  <2> HIDE DEF node
  <2>6. NodesFollow(v, A \cup {id}, n)
    BY <2>2, <2>3, <2>5, NodesMore
  <2>7. SamePlaces(A, dec.nodes, n) /\ SameEnds(A, dec.nodes, n) /\ n[id] = node
    BY <2>2, NodesMoreKeep
  <2> HIDE DEF n
  <2>8. DraftFollows(v, A \cup {id}, n, id, draft)
    BY DeclaredFollows
  <2> HIDE DEF draft
  <2>9. DraftsFollow(v, A \cup {id}, n, d)
    <3>1. id \in ProceduresOf(v) /\ n[id].draft = Len(dec.drafts) + 1
      BY <2>5, <2>7 DEF Arriving, ProceduresOf, last
    <3> QED BY <3>1, <2>2, <2>7, <2>8, DraftsAppended DEF d
  <2>10. PlacesFollow(v, A \cup {id}, n)
    BY <2>2, <2>7, <1>0, PlacesSame
  <2>11. RunwaysFollow(v, A \cup {id}, n, dec.runways)
    BY <2>2, <2>7, <1>0, RunwaysSame
  <2>12. \A i \in A \cup {id} : v[i].type = "FREQUENCY" => v[i].name \in dec.frequencies
    BY <2>1, <1>0 DEF Follows
  <2> QED BY <1>1, <2>6, <2>9, <2>10, <2>11, <2>12, FollowsAs DEF new
<1>4. CASE dec.missed # 0
  BY <1>1, <1>4, GoodWhenMissed DEF DecoderAs, new
<1> QED BY <1>3, <1>4

LEMMA GoodTransition ==
  ASSUME NEW v, NEW A, NEW id, Arriving(v, A, id), NEW dec, Good(v, A, dec), v[id].type \in Transitions
  PROVE  Good(v, A \cup {id}, AcceptTransition(dec, id, v[id]))
<1> DEFINE new == AcceptTransition(dec, id, v[id])
           up == v[id].up
           i == dec.nodes[up].draft
           old == dec.drafts[i]
           k == Len(old.lists) + 1
           node == OfKind("transition", Absent, i, k)
           n == WithNode(dec.nodes, id, node)
           count == v[id].legs.common
           grown == WithList(old, v[id].type, v[id].name, count)
           d == Replaced(dec.drafts, i, grown)
<1>0. v[id].type \notin Procedures \cup LegTypes \cup {"FREQUENCY", "RUNWAY", "THRESHOLD"}
  BY DEF Procedures, Transitions, LegTypes
<1>1. CASE dec.nodes[up].kind # "procedure"
  <2>1. new = Missed(dec)
    BY <1>1, TransitionIs DEF Good
  <2> QED BY <2>1, MissedIsGood DEF Good
<1>2. CASE dec.nodes[up].kind = "procedure"
  <2>0. DecoderAs(new, n, dec.runways, dec.frequencies, d, dec.missed)
    BY <1>2, TransitionIs DEF Good
  <2> HIDE DEF new, d
  <2>1. CASE dec.missed # 0
    BY <2>0, <2>1, GoodWhenMissed DEF DecoderAs, new
  <2>2. CASE dec.missed = 0
    <3>1. Follows(v, A, dec)
      BY <2>2 DEF Good
    <3>2. NodesFollow(v, A, dec.nodes) /\ DraftsFollow(v, A, dec.nodes, dec.drafts)
          /\ PlacesFollow(v, A, dec.nodes) /\ RunwaysFollow(v, A, dec.nodes, dec.runways)
      BY <3>1 DEF Follows
    <3>3. A \subseteq Ids /\ A \subseteq DOMAIN v /\ id \in DOMAIN v
      BY VersionIs DEF Arriving
    <3>4. up \in A /\ v[up].type \in Procedures
      <4>1. up \in A \cup {0} /\ up \in Ids \cup {0}
        BY <3>3, UpArrived
      <4>2. dec.nodes[up].kind = IF up \in A THEN KindOf(v[up].type) ELSE "other"
        BY <3>2, <4>1 DEF NodesFollow
      <4> QED BY <4>1, <4>2, <1>2 DEF KindOf
    <3>5. up \in ProceduresOf(v) \cap A /\ id \in TransitionsOf(v, up)
      BY <3>3, <3>4 DEF ProceduresOf, TransitionsOf
    <3> HIDE DEF old
    <3>6. i \in DOMAIN dec.drafts /\ DraftFollows(v, A, dec.nodes, up, old) /\ i \in Nat
      BY <3>2, <3>5, SeqIs, SMTT(30) DEF DraftsFollow, old
    <3>7. PutTogether(v, A, dec.nodes, up, old)
      BY <3>6 DEF DraftFollows
    <3>8. k \in Nat
      BY <3>7, SeqIs DEF PutTogether, IsDraft
    <3> HIDE DEF k, i, count
    <3>9. IsNode(node) /\ node.kind = "transition" /\ node.draft = i /\ node.list = k
      BY <3>6, <3>8, NodeIs
    <3> HIDE DEF node
    <3>10. KindOf(v[id].type) = "transition"
      BY <1>0 DEF KindOf
    <3>11. NodesFollow(v, A \cup {id}, n)
      BY <3>2, <3>9, <3>10, NodesMore
    <3>12. SamePlaces(A, dec.nodes, n) /\ SameEnds(A, dec.nodes, n) /\ n[id] = node
      BY <3>2, NodesMoreKeep
    <3> HIDE DEF n
    <3>13. PutTogether(v, A \cup {id}, n, up, grown) /\ grown.own = old.own
      <4>1. n[id].list = Len(old.lists) + 1
        BY <3>9, <3>12 DEF k
      <4>2. SamePlaces(A, dec.nodes, n) /\ id \in TransitionsOf(v, up)
        BY <3>5, <3>12
      <4> HIDE DEF up
      <4>3. Grown(v, A \cup {id}, n, up, old, grown)
        BY <4>1, <4>2, <3>7, TogetherBranch
      <4> QED BY <4>3 DEF Grown
    <3> HIDE DEF grown
    <3>14. DraftFollows(v, A \cup {id}, n, up, grown)
      BY <3>6, <3>13 DEF DraftFollows
    <3>15. \A q \in ProceduresOf(v) \cap A : q # up => Apart(v, A, q, id)
      BY <1>0 DEF Apart, TransitionsOf, LegsUnder, LegsOf
    <3>16. DraftsFollow(v, A \cup {id}, n, d)
      <4>1. id \notin ProceduresOf(v)
        BY <1>0 DEF ProceduresOf
      <4>2. DraftsFollow(v, A \cup {id}, n, Replaced(dec.drafts, dec.nodes[up].draft, grown))
        BY <4>1, <3>2, <3>5, <3>12, <3>14, <3>15, DraftsReplaced
      <4> QED BY <4>2 DEF d, i
    <3>17. PlacesFollow(v, A \cup {id}, n)
      <4>1. n[id].draft = dec.nodes[up].draft
        BY <3>9, <3>12 DEF i
      <4> QED BY <4>1, <3>2, <3>5, <3>12, PlacesMoreBranch
    <3>18. RunwaysFollow(v, A \cup {id}, n, dec.runways)
      BY <3>2, <3>12, <1>0, RunwaysSame
    <3>19. \A j \in A \cup {id} : v[j].type = "FREQUENCY" => v[j].name \in dec.frequencies
      BY <3>1, <1>0 DEF Follows
    <3> QED BY <2>0, <3>11, <3>16, <3>17, <3>18, <3>19, FollowsAs DEF new
  <2> QED BY <2>1, <2>2
<1> QED BY <1>1, <1>2

LEMMA GoodLeg ==
  ASSUME NEW v, NEW A, NEW id, Arriving(v, A, id), NEW dec, Good(v, A, dec), v[id].type \in LegTypes
  PROVE  Good(v, A \cup {id}, AcceptLeg(dec, v[id]))
<1> DEFINE r == v[id]
           new == AcceptLeg(dec, r)
           node == dec.nodes[r.up]
           role == OwnRole(r)
           i == node.draft
           old == dec.drafts[i]
           having == HavingOwnList(old, role)
           inBranch == WithLeg(old, node.list, r.values)
           inOwn == WithLeg(having, having.own[role], r.values)
<1>0. r.type \notin Procedures \cup Transitions \cup {"FREQUENCY", "RUNWAY", "THRESHOLD"}
  BY DEF Procedures, Transitions, LegTypes
<1>1. IsDecoder(dec) /\ role \in Roles
  BY OwnRoleIs DEF Good
<1>2. /\ node.kind = "transition" /\ r.type = "LEG" => new = DraftsPut(dec, Replaced(dec.drafts, i, inBranch))
      /\ node.kind = "procedure" => new = DraftsPut(dec, Replaced(dec.drafts, i, inOwn))
      /\ node.kind # "procedure" /\ ~(node.kind = "transition" /\ r.type = "LEG") => new = Missed(dec)
  BY <1>1, LegIs
<1>3. \A d : DecoderAs(DraftsPut(dec, d), dec.nodes, dec.runways, dec.frequencies, d, dec.missed)
  BY <1>1, DraftsPutIs
<1> HIDE DEF new, inBranch, inOwn, having, old
<1>4. CASE node.kind # "procedure" /\ ~(node.kind = "transition" /\ r.type = "LEG")
  BY <1>1, <1>2, <1>4, MissedIsGood DEF new, r
<1>5. CASE node.kind = "procedure" \/ (node.kind = "transition" /\ r.type = "LEG")
  <2>1. CASE dec.missed # 0
    <3>1. \A d : IsDecoder(DraftsPut(dec, d)) /\ DraftsPut(dec, d).missed # 0
      BY <1>3, <2>1 DEF DecoderAs
    <3>2. IsDecoder(new) /\ new.missed # 0
      BY <3>1, <1>2, <1>5
    <3> QED BY <3>2, GoodWhenMissed DEF new, r
  <2>2. CASE dec.missed = 0
    <3> DEFINE up == r.up
               B == A \cup {id}
    <3>1. Follows(v, A, dec)
      BY <2>2 DEF Good
    <3>2. NodesFollow(v, A, dec.nodes) /\ DraftsFollow(v, A, dec.nodes, dec.drafts)
          /\ PlacesFollow(v, A, dec.nodes) /\ RunwaysFollow(v, A, dec.nodes, dec.runways)
      BY <3>1 DEF Follows
    <3>3. A \subseteq Ids /\ A \subseteq DOMAIN v /\ id \in DOMAIN v /\ id \notin A
      BY VersionIs DEF Arriving
    <3>4. up \in A /\ node.kind = KindOf(v[up].type)
      <4>1. up \in A \cup {0} /\ up \in Ids \cup {0}
        BY <3>3, UpArrived
      <4>2. node.kind = IF up \in A THEN KindOf(v[up].type) ELSE "other"
        BY <3>2, <4>1 DEF NodesFollow
      <4> QED BY <4>1, <4>2, <1>5
    <3>5. NodesFollow(v, B, dec.nodes)
      <4>1. KindOf(r.type) = "other"
        BY <1>0 DEF KindOf
      <4> QED BY <4>1, <3>2, NodesSame
    <3>6. RunwaysFollow(v, B, dec.nodes, dec.runways)
      BY <3>2, <1>0, RunwaysSame, SameIsSame
    <3>7. \A j \in B : v[j].type = "FREQUENCY" => v[j].name \in dec.frequencies
      BY <3>1, <1>0 DEF Follows
    <3>8. id \notin ProceduresOf(v) /\ SamePlaces(A, dec.nodes, dec.nodes)
      BY <1>0, SameIsSame DEF ProceduresOf
    <3>9. CASE node.kind = "procedure"
      <4>1. v[up].type \in Procedures
        BY <3>4, <3>9 DEF KindOf
      <4>2. up \in ProceduresOf(v) \cap A
        BY <3>3, <3>4, <4>1 DEF ProceduresOf
      <4>3. DraftFollows(v, A, dec.nodes, up, old)
        BY <3>2, <4>2 DEF DraftsFollow, old
      <4>4. id \in LegsUnder(v, up, {role})
        BY <3>3 DEF LegsUnder, LegsOf
      <4>5. PutTogether(v, A, dec.nodes, up, having) /\ having.own[role] # 0
            /\ \A other \in Roles : old.own[other] # 0 => having.own[other] # 0
        <5>1. PutTogether(v, A, dec.nodes, up, old)
          BY <4>3 DEF DraftFollows
        <5>2. CASE old.own[role] = 0
          <6>1. having = WithOwnList(old, role, Absent)
            BY <5>2 DEF having, HavingOwnList
          <6> HIDE DEF role, node, up
          <6>2. /\ PutTogether(v, A, dec.nodes, up, having) /\ having.own[role] # 0
                /\ \A other \in Roles \ {role} : having.own[other] = old.own[other]
            BY <6>1, <5>1, <5>2, <1>1, TogetherOwn
          <6> QED BY <6>2, <5>2
        <5>3. CASE old.own[role] # 0
          <6>1. having = old
            BY <5>3 DEF having, HavingOwnList
          <6> QED BY <6>1, <5>1, <5>3
        <5> QED BY <5>2, <5>3
      <4>6. PutTogether(v, B, dec.nodes, up, inOwn) /\ inOwn.own = having.own
        <5> HIDE DEF role, up, node
        <5>1. up \in ProceduresOf(v)
          BY <4>2
        <5> DEFINE x == v[id].values
                   more == WithLeg(having, having.own[role], x)
        <5>2. PutTogether(v, A, dec.nodes, up, having) /\ having.own[role] # 0 /\ id \in LegsUnder(v, up, {role})
          BY <4>4, <4>5
        <5>3. Grown(v, A \cup {id}, dec.nodes, up, having, more)
          BY <5>1, <5>2, <1>1, TogetherOwnLeg
        <5> QED BY <5>3 DEF inOwn, r, Grown
      <4>7. DraftFollows(v, B, dec.nodes, up, inOwn)
        BY <4>3, <4>5, <4>6 DEF DraftFollows
      <4>8. \A q \in ProceduresOf(v) \cap A : q # up => Apart(v, A, q, id)
        <5> SUFFICES ASSUME NEW q \in ProceduresOf(v) \cap A, q # up PROVE Apart(v, A, q, id)
          OBVIOUS
        <5>1. id \notin TransitionsOf(v, q) /\ id \notin LegsUnder(v, q, Roles)
          BY <1>0 DEF TransitionsOf, LegsUnder
        <5>2. \A t \in TransitionsOf(v, q) : t # up
          BY <4>1, RolesApart DEF TransitionsOf
        <5> QED BY <5>1, <5>2 DEF Apart, LegsUnder
      <4>9. DraftsFollow(v, B, dec.nodes, Replaced(dec.drafts, i, inOwn))
        <5> HIDE DEF up
        <5>1. DraftsFollow(v, B, dec.nodes, Replaced(dec.drafts, dec.nodes[up].draft, inOwn))
          BY <3>2, <3>8, <4>2, <4>7, <4>8, DraftsReplaced
        <5> QED BY <5>1 DEF up
      <4>10. PlacesFollow(v, B, dec.nodes)
        BY <3>2, <3>4, <4>1, PlacesSameLeg
      <4>11. DecoderAs(new, dec.nodes, dec.runways, dec.frequencies, Replaced(dec.drafts, i, inOwn), dec.missed)
        BY <1>2, <1>3, <3>9
      <4> HIDE DEF i, B
      <4>12. Good(v, B, new)
        BY <3>5, <3>6, <3>7, <4>9, <4>10, <4>11, FollowsAs
      <4> QED BY <4>12 DEF new, r, B
    <3>10. CASE node.kind = "transition" /\ r.type = "LEG"
      <4> DEFINE p == v[up].up
      <4>1. v[up].type \in Transitions
        BY <3>4, <3>10 DEF KindOf
      <4>2. p \in ProceduresOf(v) \cap A /\ i = dec.nodes[p].draft
        BY <3>2, <3>4, <4>1 DEF PlacesFollow
      <4>3. up \in TransitionsOf(v, p) \cap A
        BY <3>3, <3>4, <4>1 DEF TransitionsOf
      <4>4. DraftFollows(v, A, dec.nodes, p, old)
        BY <3>2, <4>2 DEF DraftsFollow, old
      <4>5. PutTogether(v, A, dec.nodes, p, old)
        BY <4>4 DEF DraftFollows
      <4>6. \A l \in A : v[l].type \in LegTypes /\ v[l].up = up => v[l].type = "LEG"
        <5>1. \A l \in A : v[l].type \in LegTypes =>
                 v[v[l].up].type \in Procedures \/ (v[v[l].up].type \in Transitions /\ v[l].type = "LEG")
          BY <3>2 DEF PlacesFollow
        <5>2. v[up].type \notin Procedures
          BY <4>1, RolesApart
        <5> HIDE DEF up
        <5> QED BY <5>1, <5>2
      <4>7. PutTogether(v, B, dec.nodes, p, inBranch) /\ inBranch.own = old.own
        <5>1. node.list = dec.nodes[up].list /\ p \in ProceduresOf(v) /\ v[id].type = "LEG" /\ v[id].up = up
          BY <3>10, <4>2
        <5> HIDE DEF p, up, node
        <5>2. Grown(v, A \cup {id}, dec.nodes, p, old, WithLeg(old, dec.nodes[up].list, v[id].values))
          BY <5>1, <4>3, <4>5, <4>6, TogetherBranchLeg
        <5> QED BY <5>1, <5>2 DEF inBranch, r, Grown
      <4>8. DraftFollows(v, B, dec.nodes, p, inBranch)
        BY <4>4, <4>7 DEF DraftFollows
      <4>9. \A q \in ProceduresOf(v) \cap A : q # p => Apart(v, A, q, id)
        <5> SUFFICES ASSUME NEW q \in ProceduresOf(v) \cap A, q # p PROVE Apart(v, A, q, id)
          OBVIOUS
        <5>1. q # up
          BY <4>1, RolesApart DEF ProceduresOf
        <5>2. id \notin TransitionsOf(v, q) /\ id \notin LegsUnder(v, q, Roles)
          BY <1>0, <5>1 DEF TransitionsOf, LegsUnder
        <5>3. \A t \in TransitionsOf(v, q) : t # up
          BY DEF TransitionsOf
        <5> QED BY <5>2, <5>3 DEF Apart, LegsUnder
      <4>10. DraftsFollow(v, B, dec.nodes, Replaced(dec.drafts, i, inBranch))
        <5> HIDE DEF p
        <5>1. DraftsFollow(v, B, dec.nodes, Replaced(dec.drafts, dec.nodes[p].draft, inBranch))
          BY <3>2, <3>8, <4>2, <4>8, <4>9, DraftsReplaced
        <5> QED BY <5>1, <4>2
      <4>11. PlacesFollow(v, B, dec.nodes)
        BY <3>2, <3>4, <3>10, <4>1, PlacesSameLeg
      <4>12. DecoderAs(new, dec.nodes, dec.runways, dec.frequencies, Replaced(dec.drafts, i, inBranch), dec.missed)
        BY <1>2, <1>3, <3>10
      <4> HIDE DEF i, B
      <4>13. Good(v, B, new)
        BY <3>5, <3>6, <3>7, <4>10, <4>11, <4>12, FollowsAs
      <4> QED BY <4>13 DEF new, r, B
    <3> QED BY <1>5, <3>9, <3>10
  <2> QED BY <2>1, <2>2
<1> QED BY <1>4, <1>5

LEMMA AcceptIs ==
  ASSUME NEW dec, NEW id, NEW r, NEW readable \in BOOLEAN, r.type \in Types
  PROVE  \/ r.type = "THRESHOLD" /\ Accept(dec, id, r, readable) = AcceptThreshold(dec, r, readable)
         \/ Accept(dec, id, r, readable) = Missed(dec)
         \/ r.type = "AIRPORT" /\ Accept(dec, id, r, readable) = AcceptAirport(dec, r)
         \/ r.type = "RUNWAY" /\ Accept(dec, id, r, readable) = AcceptRunway(dec, id, r)
         \/ r.type = "FREQUENCY" /\ Accept(dec, id, r, readable) = AcceptFrequency(dec, r)
         \/ r.type \in Procedures /\ Accept(dec, id, r, readable) = AcceptProcedure(dec, id, r)
         \/ r.type \in Transitions /\ Accept(dec, id, r, readable) = AcceptTransition(dec, id, r)
         \/ r.type \in LegTypes /\ Accept(dec, id, r, readable) = AcceptLeg(dec, r)
<1> DEFINE type == r.type
           t == AcceptThreshold(dec, r, readable)
           m == Missed(dec)
           a == AcceptAirport(dec, r)
           w == AcceptRunway(dec, id, r)
           f == AcceptFrequency(dec, r)
           p == AcceptProcedure(dec, id, r)
           b == AcceptTransition(dec, id, r)
           l == AcceptLeg(dec, r)
           rest == CASE type = "AIRPORT" -> a
                     [] type = "RUNWAY" -> w
                     [] type = "FREQUENCY" -> f
                     [] type \in Procedures -> p
                     [] type \in Transitions -> b
                     [] OTHER -> l
           all == Accept(dec, id, r, readable)
<1>1. all = CASE type = "THRESHOLD" -> t
              [] type # "THRESHOLD" /\ ~readable -> m
              [] OTHER -> rest
  BY Zenon DEF Accept
<1>2. type \in Types
  OBVIOUS
<1> HIDE DEF type, t, m, a, w, f, p, b, l, all
<1>3. \/ type = "AIRPORT" /\ rest = a
      \/ type = "RUNWAY" /\ rest = w
      \/ type = "FREQUENCY" /\ rest = f
      \/ type \in Procedures /\ rest = p
      \/ type \in Transitions /\ rest = b
      \/ type \in LegTypes /\ rest = l
      \/ type = "THRESHOLD"
  BY <1>2 DEF Types, Procedures, Transitions, LegTypes
<1> HIDE DEF rest
<1>4. \/ type = "THRESHOLD" /\ all = t
      \/ all = m
      \/ type # "THRESHOLD" /\ all = rest
  BY <1>1
<1> QED BY <1>3, <1>4 DEF type, t, m, a, w, f, p, b, l, all

LEMMA AcceptIsGood ==
  ASSUME NEW v, NEW A, NEW id, Arriving(v, A, id), NEW dec, Good(v, A, dec), NEW readable \in BOOLEAN
  PROVE  Good(v, A \cup {id}, Accept(dec, id, v[id], readable))
<1> DEFINE new == Accept(dec, id, v[id], readable)
           r == v[id]
<1>1. r.type \in Types
  BY RecordIs DEF Arriving
<1>2. \/ r.type = "THRESHOLD" /\ new = AcceptThreshold(dec, r, readable)
      \/ new = Missed(dec)
      \/ r.type = "AIRPORT" /\ new = AcceptAirport(dec, r)
      \/ r.type = "RUNWAY" /\ new = AcceptRunway(dec, id, r)
      \/ r.type = "FREQUENCY" /\ new = AcceptFrequency(dec, r)
      \/ r.type \in Procedures /\ new = AcceptProcedure(dec, id, r)
      \/ r.type \in Transitions /\ new = AcceptTransition(dec, id, r)
      \/ r.type \in LegTypes /\ new = AcceptLeg(dec, r)
  BY <1>1, AcceptIs
<1>3. IsDecoder(dec)
  BY DEF Good
<1> HIDE DEF new
<1>4. CASE r.type = "THRESHOLD" /\ new = AcceptThreshold(dec, r, readable)
  BY <1>4, GoodThreshold DEF new
<1>5. CASE new = Missed(dec)
  BY <1>3, <1>5, MissedIsGood DEF new
<1>6. CASE r.type = "AIRPORT" /\ new = AcceptAirport(dec, r)
  <2>1. DecoderAs(new, dec.nodes, dec.runways, dec.frequencies, dec.drafts, dec.missed)
    BY <1>3, <1>6, AirportIs
  <2> QED BY <2>1, <1>6, GoodSame DEF new
<1>7. CASE r.type = "RUNWAY" /\ new = AcceptRunway(dec, id, r)
  BY <1>7, GoodRunway DEF new
<1>8. CASE r.type = "FREQUENCY" /\ new = AcceptFrequency(dec, r)
  <2> DEFINE f == dec.frequencies \cup {r.name}
  <2>1. DecoderAs(new, dec.nodes, dec.runways, f, dec.drafts, dec.missed)
    BY <1>3, <1>8, FrequencyIs
  <2>2. dec.frequencies \subseteq f /\ r.name \in f
    OBVIOUS
  <2> HIDE DEF f
  <2> QED BY <2>1, <2>2, <1>8, GoodSame DEF new
<1>9. CASE r.type \in Procedures /\ new = AcceptProcedure(dec, id, r)
  BY <1>9, GoodProcedure DEF new
<1>10. CASE r.type \in Transitions /\ new = AcceptTransition(dec, id, r)
  BY <1>10, GoodTransition DEF new
<1>11. CASE r.type \in LegTypes /\ new = AcceptLeg(dec, r)
  BY <1>11, GoodLeg DEF new
<1> QED BY <1>2, <1>4, <1>5, <1>6, <1>7, <1>8, <1>9, <1>10, <1>11

LEMMA EmptiedIsGood == ASSUME NEW v PROVE Good(v, {}, Emptied)
<1> DEFINE nodes == [i \in Ids \cup {0} |-> Unplaced]
           none == <<>>
           noRunways == Nothing
           noFrequencies == {}
<1>1. Emptied = Decoder(nodes, Absent, noRunways, noFrequencies, none, 0)
  BY DEF Emptied, Decoder
<1>2. IsNode(Unplaced) /\ Unplaced.kind = "other" /\ Unplaced.ends = 0
  BY NodeIs, UnplacedIs
<1>3. DOMAIN nodes = Ids \cup {0} /\ \A i \in Ids \cup {0} : nodes[i] = Unplaced
  OBVIOUS
<1>4. DOMAIN noRunways = {} /\ IsSeq(none) /\ DOMAIN none = {}
  BY DEF Nothing, IsSeq
<1> HIDE DEF nodes, none, noRunways, noFrequencies
<1>5. DecoderAs(Emptied, nodes, noRunways, noFrequencies, none, 0)
  BY <1>1, DecoderFields DEF DecoderAs
<1>6. NodesFollow(v, {}, nodes)
  BY <1>2, <1>3 DEF NodesFollow
<1>7. DraftsFollow(v, {}, nodes, none)
  BY <1>4 DEF DraftsFollow
<1>8. PlacesFollow(v, {}, nodes)
  BY DEF PlacesFollow
<1>9. RunwaysFollow(v, {}, nodes, noRunways)
  BY <1>4 DEF RunwaysFollow
<1> QED BY <1>5, <1>6, <1>7, <1>8, <1>9, FollowsAs

-----------------------------------------------------------------------------
(* The order of the procedures of one name.                                *)

Precedes(x, y) == x # y /\ x # Absent /\ (y = Absent \/ x < y)

\* Columns a and b differ first in column k.
Differ(a, b, k) == k \in DOMAIN a /\ a[k] # b[k] /\ \A l \in 1..(k - 1) : a[l] = b[l]

\* Columns of one type of record.
Alike(a, b) == a \in Seq(Int) /\ b \in Seq(Int) /\ Len(a) = Len(b)

LEMMA SortsIs ==
  ASSUME NEW a, NEW b
  PROVE  SortsBefore(a, b) <=> \E k : Differ(a, b, k) /\ Precedes(a[k], b[k])
BY DEF SortsBefore, Differ, Precedes

LEMMA AlikeIs ==
  ASSUME NEW a, NEW b, Alike(a, b)
  PROVE  /\ DOMAIN a = DOMAIN b /\ DOMAIN a \subseteq Nat \ {0} /\ DOMAIN a = 1..Len(a) /\ Len(a) \in Nat
         /\ \A k \in DOMAIN a : a[k] \in Int /\ b[k] \in Int
BY DEF Alike

LEMMA DifferSomewhere ==
  ASSUME NEW a, NEW b, Alike(a, b), a # b
  PROVE  \E k : Differ(a, b, k)
<1>1. /\ DOMAIN a = DOMAIN b /\ DOMAIN a \subseteq Nat /\ DOMAIN a = 1..Len(a) /\ Len(a) \in Nat
  BY AlikeIs
<1> DEFINE D == {k \in DOMAIN a : a[k] # b[k]}
<1>2. a = [k \in DOMAIN a |-> a[k]] /\ b = [k \in DOMAIN b |-> b[k]]
  BY DEF Alike
<1>3. D # {} /\ D \in SUBSET Nat
  BY <1>1, <1>2
<1>4. PICK k \in D : \A m \in D : k <= m
  <2> HIDE DEF D
  <2> QED BY <1>3, LeastOf
<1>5. ASSUME NEW l \in 1..(k - 1) PROVE a[l] = b[l]
  <2>1. l \in DOMAIN a /\ l \in Int /\ k \in Int /\ l < k
    BY <1>1, <1>4
  <2>2. l \notin D
    BY <1>4, <2>1
  <2> QED BY <2>1, <2>2
<1> QED BY <1>4, <1>5 DEF Differ

LEMMA DifferOnce ==
  ASSUME NEW a, NEW b, Alike(a, b), NEW k, NEW m, Differ(a, b, k), Differ(a, b, m)
  PROVE  k = m
<1>1. k \in Nat \ {0} /\ m \in Nat \ {0}
  BY AlikeIs DEF Differ
<1>2. ~(k < m) /\ ~(m < k)
  BY <1>1 DEF Differ
<1> QED BY <1>1, <1>2

LEMMA DifferBoth ==
  ASSUME NEW a, NEW b, Alike(a, b), NEW k, Differ(a, b, k)
  PROVE  Differ(b, a, k) /\ Alike(b, a)
BY AlikeIs DEF Differ, Alike

LEMMA SortsTotal ==
  ASSUME NEW a, NEW b, Alike(a, b), a # b
  PROVE  SortsBefore(a, b) \/ SortsBefore(b, a)
<1>1. PICK k : Differ(a, b, k)
  BY DifferSomewhere
<1>2. Differ(b, a, k) /\ a[k] \in Int /\ b[k] \in Int /\ a[k] # b[k]
  BY <1>1, DifferBoth, AlikeIs DEF Differ
<1>3. Precedes(a[k], b[k]) \/ Precedes(b[k], a[k])
  BY <1>2 DEF Precedes
<1> QED BY <1>1, <1>2, <1>3, SortsIs

LEMMA SortsOnce ==
  ASSUME NEW a, NEW b, Alike(a, b), SortsBefore(a, b)
  PROVE  a # b /\ ~SortsBefore(b, a)
<1>1. PICK k : Differ(a, b, k) /\ Precedes(a[k], b[k])
  BY SortsIs
<1>2. a # b
  BY <1>1 DEF Differ
<1>3. ASSUME SortsBefore(b, a) PROVE FALSE
  <2>1. PICK m : Differ(b, a, m) /\ Precedes(b[m], a[m])
    BY <1>3, SortsIs
  <2>2. k = m
    BY <1>1, <2>1, DifferBoth, DifferOnce
  <2>3. a[k] \in Int /\ b[k] \in Int
    BY <1>1, AlikeIs DEF Differ
  <2> QED BY <1>1, <2>1, <2>2, <2>3 DEF Precedes, Absent
<1> QED BY <1>2, <1>3

LEMMA SortsOn ==
  ASSUME NEW a, NEW b, NEW c, Alike(a, b), Alike(b, c), SortsBefore(a, b), SortsBefore(b, c)
  PROVE  SortsBefore(a, c)
<1>1. PICK k : Differ(a, b, k) /\ Precedes(a[k], b[k])
  BY SortsIs
<1>2. PICK m : Differ(b, c, m) /\ Precedes(b[m], c[m])
  BY SortsIs
<1>3. /\ k \in DOMAIN a /\ m \in DOMAIN a /\ k \in Nat \ {0} /\ m \in Nat \ {0}
      /\ a[k] \in Int /\ b[k] \in Int /\ c[k] \in Int /\ a[m] \in Int /\ b[m] \in Int /\ c[m] \in Int
  BY <1>1, <1>2, AlikeIs DEF Differ
<1>4. CASE k < m
  <2>1. b[k] = c[k] /\ \A l \in 1..(k - 1) : b[l] = c[l]
    BY <1>2, <1>3, <1>4 DEF Differ
  <2>2. Differ(a, c, k) /\ Precedes(a[k], c[k])
    BY <1>1, <2>1 DEF Differ
  <2> QED BY <2>2, SortsIs
<1>5. CASE m < k
  <2>1. a[m] = b[m] /\ \A l \in 1..(m - 1) : a[l] = b[l]
    BY <1>1, <1>3, <1>5 DEF Differ
  <2>2. Differ(a, c, m) /\ Precedes(a[m], c[m])
    BY <1>2, <1>3, <2>1 DEF Differ
  <2> QED BY <2>2, SortsIs
<1>6. CASE k = m
  <2>1. Precedes(a[k], c[k])
    BY <1>1, <1>2, <1>3, <1>6 DEF Precedes, Absent
  <2>2. Differ(a, c, k)
    BY <1>1, <1>2, <1>6, <2>1 DEF Differ, Precedes
  <2> QED BY <2>1, <2>2, SortsIs
<1> QED BY <1>3, <1>4, <1>5, <1>6
-----------------------------------------------------------------------------
\* Procedures of one name have columns of one type.
Drafted(dec) ==
  /\ IsSeq(dec.drafts)
  /\ \A i \in DOMAIN dec.drafts : dec.drafts[i].values \in Seq(Int)
  /\ \A i \in DOMAIN dec.drafts : \A j \in DOMAIN dec.drafts :
       dec.drafts[i].base = dec.drafts[j].base => Alike(dec.drafts[i].values, dec.drafts[j].values)

\* Columns a of the procedure put together as i-th, columns b of the j-th.
Leads(a, b, i, j) == SortsBefore(a, b) \/ (a = b /\ i < j)

LEMMA ByValueIs ==
  ASSUME NEW x \in Int, NEW y \in Int
  PROVE  (ByValue(x, y) = -1 <=> Precedes(x, y)) /\ (ByValue(x, y) = 0 <=> x = y)
BY DEF ByValue, Precedes, Absent

LEMMA ComesFirstIs ==
  ASSUME NEW dec, Drafted(dec), NEW i \in DOMAIN dec.drafts, NEW j \in DOMAIN dec.drafts,
         dec.drafts[i].base = dec.drafts[j].base
  PROVE  ComesFirst(dec, i, j) <=> Leads(dec.drafts[i].values, dec.drafts[j].values, i, j)
<1> DEFINE a == dec.drafts[i].values
           b == dec.drafts[j].values
           D == {k \in DOMAIN a : ByValue(a[k], b[k]) # 0}
           c == CHOOSE k \in D : \A l \in D : k <= l
<1>1. Alike(a, b)
  BY DEF Drafted
<1>2. ComesFirst(dec, i, j) <=> IF D = {} THEN i < j ELSE ByValue(a[c], b[c]) = -1
  BY Zenon DEF ComesFirst
<1> HIDE DEF a, b
<1>3. /\ DOMAIN a = DOMAIN b /\ DOMAIN a \subseteq Nat \ {0} /\ DOMAIN a = 1..Len(a) /\ Len(a) \in Nat
      /\ \A k \in DOMAIN a : a[k] \in Int /\ b[k] \in Int
  BY <1>1, AlikeIs
<1>4. \A k \in DOMAIN a : k \in D <=> a[k] # b[k]
  BY <1>3, ByValueIs
<1>5. CASE D = {}
  <2>1. a = [k \in DOMAIN a |-> a[k]] /\ b = [k \in DOMAIN b |-> b[k]]
    BY <1>1 DEF Alike
  <2>2. a = b
    BY <2>1, <1>3, <1>4, <1>5
  <2>3. ~SortsBefore(a, b)
    BY <2>2, <1>1, SortsOnce
  <2> QED BY <1>2, <1>5, <2>2, <2>3 DEF Leads, a, b
<1>6. CASE D # {}
  <2>1. D \in SUBSET Nat
    BY <1>3
  <2>2. \E k \in D : \A l \in D : k <= l
    <3> HIDE DEF D
    <3> QED BY <2>1, <1>6, LeastOf
  <2>3. c \in D /\ \A l \in D : c <= l
    <3> HIDE DEF D
    <3> QED BY <2>2, Zenon
  <2> HIDE DEF c
  <2>4. c \in DOMAIN a /\ a[c] # b[c] /\ a[c] \in Int /\ b[c] \in Int
    BY <2>3, <1>3, <1>4
  <2>5. ASSUME NEW l \in 1..(c - 1) PROVE a[l] = b[l]
    <3>1. l \in DOMAIN a /\ l \in Int /\ c \in Int /\ l < c
      BY <1>3, <2>4
    <3>2. l \notin D
      BY <2>3, <3>1
    <3> QED BY <3>1, <3>2, <1>4
  <2>6. Differ(a, b, c)
    BY <2>4, <2>5 DEF Differ
  <2> HIDE DEF D
  <2>7. ComesFirst(dec, i, j) <=> Precedes(a[c], b[c])
    BY <1>2, <1>6, <2>4, ByValueIs
  <2>8. Precedes(a[c], b[c]) <=> SortsBefore(a, b)
    BY <2>6, <1>1, SortsIs, DifferOnce
  <2> QED BY <2>4, <2>7, <2>8 DEF Leads, a, b
<1> QED BY <1>5, <1>6

\* The procedures that come before the i-th under its name.
Ahead(dec, i) ==
  {j \in DOMAIN dec.drafts \ {i} : dec.drafts[j].base = dec.drafts[i].base /\ ComesFirst(dec, j, i)}
Rank(dec, i) == Cardinality(Ahead(dec, i)) + 1

LEMMA KeyIs == ASSUME NEW dec, NEW i PROVE KeyOf(dec, i) = <<dec.drafts[i].base, Rank(dec, i)>>
BY Zenon DEF KeyOf, Rank, Ahead

LEMMA AheadFinite ==
  ASSUME NEW dec, Drafted(dec), NEW i \in DOMAIN dec.drafts
  PROVE  /\ IsFiniteSet(Ahead(dec, i)) /\ Cardinality(Ahead(dec, i)) \in Nat
         /\ Rank(dec, i) \in 1..Len(dec.drafts)
<1> DEFINE D == DOMAIN dec.drafts
           H == Ahead(dec, i)
<1>1. D = 1..Len(dec.drafts) /\ Len(dec.drafts) \in Nat
  BY SeqIs DEF Drafted
<1>2. IsFiniteSet(D) /\ Cardinality(D) = Len(dec.drafts)
  <2>1. IsFiniteSet(1..Len(dec.drafts)) /\ Cardinality(1..Len(dec.drafts)) = Len(dec.drafts)
    BY <1>1, FS_Interval
  <2> QED BY <1>1, <2>1
<1>3. H \subseteq D \ {i}
  BY DEF Ahead
<1> HIDE DEF D, H
<1>4. IsFiniteSet(D \ {i}) /\ Cardinality(D \ {i}) = Len(dec.drafts) - 1
  BY <1>2, FS_RemoveElement DEF D
<1>5. IsFiniteSet(H) /\ Cardinality(H) <= Cardinality(D \ {i})
  BY <1>3, <1>4, FS_Subset
<1>6. Cardinality(H) \in Nat
  BY <1>5, FS_CardinalityType
<1>7. Cardinality(H) + 1 \in 1..Len(dec.drafts)
  BY <1>1, <1>4, <1>5, <1>6
<1> QED BY <1>5, <1>6, <1>7 DEF H, Rank

LEMMA RankFollows ==
  ASSUME NEW dec, Drafted(dec), NEW i \in DOMAIN dec.drafts, NEW j \in DOMAIN dec.drafts, i # j,
         dec.drafts[i].base = dec.drafts[j].base,
         Leads(dec.drafts[i].values, dec.drafts[j].values, i, j)
  PROVE  Rank(dec, i) < Rank(dec, j)
<1>0. DOMAIN dec.drafts \subseteq Nat
  BY SeqIs DEF Drafted
<1>1. i \in Ahead(dec, j) /\ i \notin Ahead(dec, i)
  BY ComesFirstIs DEF Ahead
<1>2. ASSUME NEW k \in Ahead(dec, i) PROVE k \in Ahead(dec, j)
  <2>1. k \in DOMAIN dec.drafts /\ dec.drafts[k].base = dec.drafts[i].base /\ ComesFirst(dec, k, i)
    BY DEF Ahead
  <2>2. Leads(dec.drafts[k].values, dec.drafts[i].values, k, i)
    BY <2>1, ComesFirstIs
  <2> DEFINE a == dec.drafts[k].values
             b == dec.drafts[i].values
             c == dec.drafts[j].values
  <2>3. Alike(a, b) /\ Alike(b, c) /\ Alike(a, c)
    BY <2>1 DEF Drafted
  <2>4. Leads(a, b, k, i) /\ Leads(b, c, i, j)
    BY <2>2
  <2> HIDE DEF a, b, c
  <2>5. Leads(a, c, k, j)
    BY <2>1, <2>3, <2>4, <1>0, SortsOn DEF Leads
  <2>6. k # j
    <3>1. a = c => ~Leads(c, b, k, i) \/ ~Leads(b, c, i, k)
      <4>1. Leads(c, b, k, i) => SortsBefore(c, b) \/ (c = b /\ k < i)
        BY DEF Leads
      <4>2. Leads(b, c, i, k) => SortsBefore(b, c) \/ (b = c /\ i < k)
        BY DEF Leads
      <4>3. ~(SortsBefore(c, b) /\ SortsBefore(b, c)) /\ (SortsBefore(c, b) \/ SortsBefore(b, c) => b # c)
        BY <2>3, SortsOnce
      <4>4. ~(k < i /\ i < k)
        BY <2>1, <1>0
      <4> QED BY <4>1, <4>2, <4>3, <4>4
    <3> QED BY <2>4, <3>1 DEF a, c
  <2>7. ComesFirst(dec, k, j)
    BY <2>1, <2>5, ComesFirstIs DEF a, c
  <2> QED BY <2>1, <2>6, <2>7 DEF Ahead
<1> DEFINE H == Ahead(dec, i)
           J == Ahead(dec, j)
<1>3. H \subseteq J /\ H # J
  BY <1>1, <1>2
<1>4. IsFiniteSet(J) /\ Cardinality(J) \in Nat /\ Cardinality(H) \in Nat
  BY AheadFinite
<1> HIDE DEF H, J
<1>5. Cardinality(H) < Cardinality(J)
  <2>1. Cardinality(H) <= Cardinality(J) /\ (Cardinality(J) = Cardinality(H) => J = H)
    BY <1>3, <1>4, FS_Subset
  <2> QED BY <1>3, <1>4, <2>1
<1> QED BY <1>4, <1>5 DEF Rank, H, J

LEMMA LeadsTotal ==
  ASSUME NEW a, NEW b, Alike(a, b), NEW i \in Nat, NEW j \in Nat, i # j
  PROVE  Leads(a, b, i, j) \/ Leads(b, a, j, i)
<1>1. CASE a = b
  BY <1>1 DEF Leads
<1>2. CASE a # b
  BY <1>2, SortsTotal DEF Leads
<1> QED BY <1>1, <1>2

LEMMA KeysApart ==
  ASSUME NEW dec, Drafted(dec), NEW i \in DOMAIN dec.drafts, NEW j \in DOMAIN dec.drafts,
         KeyOf(dec, i) = KeyOf(dec, j)
  PROVE  i = j
<1> SUFFICES ASSUME i # j PROVE FALSE
  OBVIOUS
<1>1. dec.drafts[i].base = dec.drafts[j].base /\ Rank(dec, i) = Rank(dec, j)
  BY KeyIs
<1>2. i \in Nat /\ j \in Nat
  BY SeqIs DEF Drafted
<1>3. Leads(dec.drafts[i].values, dec.drafts[j].values, i, j) \/ Leads(dec.drafts[j].values, dec.drafts[i].values, j, i)
  BY <1>1, <1>2, LeadsTotal DEF Drafted
<1>4. Rank(dec, i) < Rank(dec, j) \/ Rank(dec, j) < Rank(dec, i)
  BY <1>1, <1>3, RankFollows
<1>5. Rank(dec, i) \in Nat /\ Rank(dec, j) \in Nat
  BY AheadFinite
<1> QED BY <1>1, <1>4, <1>5
-----------------------------------------------------------------------------
\* What is put together is the whole of airport v.
IsWhole(v, dec) == v \in Versions /\ Follows(v, DOMAIN v, dec)

DraftOf(dec, p) == dec.nodes[p].draft

LEMMA WholeDrafts ==
  ASSUME NEW v, NEW dec, IsWhole(v, dec), NEW p \in ProceduresOf(v)
  PROVE  /\ p \in DOMAIN v /\ DraftOf(dec, p) \in DOMAIN dec.drafts
         /\ DraftFollows(v, DOMAIN v, dec.nodes, p, dec.drafts[DraftOf(dec, p)])
         /\ dec.drafts[DraftOf(dec, p)].base = BaseOf(v, p) /\ dec.drafts[DraftOf(dec, p)].values = v[p].values
<1>1. p \in DOMAIN v
  BY DEF ProceduresOf
<1> QED BY <1>1 DEF IsWhole, Follows, DraftsFollow, DraftFollows, PutTogether, DraftOf

LEMMA WholeOwners ==
  ASSUME NEW v, NEW dec, IsWhole(v, dec)
  PROVE  /\ IsSeq(dec.drafts)
         /\ \A i \in DOMAIN dec.drafts : \E p \in ProceduresOf(v) : DraftOf(dec, p) = i
         /\ \A p \in ProceduresOf(v) : \A q \in ProceduresOf(v) : DraftOf(dec, p) = DraftOf(dec, q) => p = q
<1>1. ProceduresOf(v) \cap DOMAIN v = ProceduresOf(v)
  BY DEF ProceduresOf
<1> QED BY <1>1 DEF IsWhole, Follows, DraftsFollow, DraftOf

LEMMA WholeIsDrafted ==
  ASSUME NEW v, NEW dec, IsWhole(v, dec)
  PROVE  Drafted(dec)
<1>1. ASSUME NEW i \in DOMAIN dec.drafts, NEW j \in DOMAIN dec.drafts
      PROVE  /\ dec.drafts[i].values \in Seq(Int)
             /\ dec.drafts[i].base = dec.drafts[j].base => Alike(dec.drafts[i].values, dec.drafts[j].values)
  <2>1. PICK p \in ProceduresOf(v) : DraftOf(dec, p) = i
    BY WholeOwners
  <2>2. PICK q \in ProceduresOf(v) : DraftOf(dec, q) = j
    BY WholeOwners
  <2>3. /\ p \in DOMAIN v /\ dec.drafts[i].base = BaseOf(v, p) /\ dec.drafts[i].values = v[p].values
        /\ q \in DOMAIN v /\ dec.drafts[j].base = BaseOf(v, q) /\ dec.drafts[j].values = v[q].values
    BY <2>1, <2>2, WholeDrafts
  <2>4. v \in Versions /\ v[p].values \in Seq(Int) /\ v[q].values \in Seq(Int)
    BY <2>3, RecordIs DEF IsWhole
  <2>5. BaseOf(v, p) = BaseOf(v, q) => v[p].type = v[q].type
    BY DEF BaseOf
  <2>6. v[p].type = v[q].type => Len(v[p].values) = Len(v[q].values)
    BY <2>3, <2>4, VersionsAssumption
  <2> QED BY <2>3, <2>4, <2>5, <2>6 DEF Alike
<1> QED BY <1>1, WholeOwners DEF Drafted

\* As many drafts as procedures.
LEMMA AsManyDrafts ==
  ASSUME NEW v, NEW dec, IsWhole(v, dec)
  PROVE  /\ IsFiniteSet(ProceduresOf(v)) /\ Cardinality(ProceduresOf(v)) = Len(dec.drafts)
<1> DEFINE P == ProceduresOf(v)
           D == DOMAIN dec.drafts
           f == [p \in P |-> DraftOf(dec, p)]
<1>1. D = 1..Len(dec.drafts) /\ Len(dec.drafts) \in Nat
  BY WholeOwners, SeqIs
<1>2. IsFiniteSet(D) /\ Cardinality(D) = Len(dec.drafts)
  <2>1. IsFiniteSet(1..Len(dec.drafts)) /\ Cardinality(1..Len(dec.drafts)) = Len(dec.drafts)
    BY <1>1, FS_Interval
  <2> QED BY <1>1, <2>1
<1>3. IsFiniteSet(P)
  BY VersionIs, FS_Subset DEF IsWhole, ProceduresOf
<1>4. f \in [P -> D] /\ (\A p \in P : \A q \in P : f[p] = f[q] => p = q) /\ \A i \in D : \E p \in P : f[p] = i
  BY WholeDrafts, WholeOwners
<1> HIDE DEF P, D, f
<1>5. f \in Bijection(P, D)
  BY <1>4, Zenon DEF Bijection, Injection, Surjection, IsInjective
<1>6. Cardinality(D) = Cardinality(P)
  BY <1>3, <1>5, FS_Bijection DEF ExistsBijection
<1> QED BY <1>2, <1>3, <1>6 DEF P

-----------------------------------------------------------------------------
\* The lists of a draft have keys of their own.
Distinct(dec) ==
  \A i \in DOMAIN dec.drafts : \A k \in DOMAIN dec.drafts[i].lists : \A l \in DOMAIN dec.drafts[i].lists :
    dec.drafts[i].lists[k].role = dec.drafts[i].lists[l].role
      /\ dec.drafts[i].lists[k].name = dec.drafts[i].lists[l].name => k = l

LEMMA WholeLists ==
  ASSUME NEW v, NEW dec, IsWhole(v, dec), NEW i \in DOMAIN dec.drafts
  PROVE  /\ IsSeq(dec.drafts[i].lists) /\ Len(dec.drafts[i].lists) \in Nat
         /\ DOMAIN dec.drafts[i].lists = 1..Len(dec.drafts[i].lists)
<1>1. PICK p \in ProceduresOf(v) : DraftOf(dec, p) = i
  BY WholeOwners
<1>2. IsSeq(dec.drafts[i].lists)
  BY <1>1, WholeDrafts DEF DraftFollows, PutTogether, IsDraft
<1> QED BY <1>2, SeqIs

ClashesIn(lists, i) ==
  {<<i, k>> : k \in {n \in DOMAIN lists :
     \E l \in 1..(n - 1) : lists[l].role = lists[n].role /\ lists[l].name = lists[n].name}}

LEMMA NoClash ==
  ASSUME NEW v, NEW dec, IsWhole(v, dec), Clashes(dec) = {}
  PROVE  Distinct(dec)
<1>1. ASSUME NEW i \in DOMAIN dec.drafts, NEW k \in DOMAIN dec.drafts[i].lists, NEW l \in DOMAIN dec.drafts[i].lists,
             dec.drafts[i].lists[k].role = dec.drafts[i].lists[l].role,
             dec.drafts[i].lists[k].name = dec.drafts[i].lists[l].name, l < k
      PROVE  FALSE
  <2>1. l \in 1..(k - 1)
    BY <1>1, WholeLists
  <2>2. <<i, k>> \in ClashesIn(dec.drafts[i].lists, i)
    BY <2>1, <1>1 DEF ClashesIn
  <2>3. Clashes(dec) = UNION {ClashesIn(dec.drafts[j].lists, j) : j \in DOMAIN dec.drafts}
    BY Zenon DEF Clashes, ClashesIn
  <2> QED BY <2>2, <2>3
<1>2. \A i \in DOMAIN dec.drafts : DOMAIN dec.drafts[i].lists \subseteq Nat
  BY WholeLists
<1>3. \A i \in DOMAIN dec.drafts : \A k \in DOMAIN dec.drafts[i].lists : \A l \in DOMAIN dec.drafts[i].lists :
        k # l => k < l \/ l < k
  BY <1>2
<1> QED BY <1>1, <1>3, Zenon DEF Distinct

-----------------------------------------------------------------------------
(* The rows.                                                               *)

LEMMA MergedIs ==
  ASSUME NEW new, NEW old
  PROVE  /\ DOMAIN MergedRows(new, old) = DOMAIN new \cup DOMAIN old
         /\ \A key \in DOMAIN new : Agrees(MergedRows(new, old)[key], new[key])
<1> DEFINE rows == MergedRows(new, old)
<1>1. /\ DOMAIN rows = DOMAIN new \cup DOMAIN old
      /\ \A key \in DOMAIN new :
           rows[key] = IF key \in DOMAIN old THEN MergedValues(new[key], old[key]) ELSE new[key]
  BY DEF MergedRows
<1> HIDE DEF rows
<1>2. ASSUME NEW key \in DOMAIN new PROVE Agrees(rows[key], new[key])
  <2>1. CASE key \in DOMAIN old
    <3>1. rows[key] = MergedValues(new[key], old[key])
      BY <1>1, <2>1
    <3>2. \A k \in DOMAIN new[key] :
            new[key][k] # Absent => MergedValues(new[key], old[key])[k] = new[key][k]
      BY DEF MergedValues
    <3> QED BY <3>1, <3>2 DEF Agrees
  <2>2. CASE key \notin DOMAIN old
    BY <1>1, <2>2 DEF Agrees
  <2> QED BY <2>1, <2>2
<1> QED BY <1>1, <1>2 DEF rows

LEMMA MergedAt ==
  ASSUME NEW rows, NEW new, NEW old, rows = MergedRows(new, old), NEW key \in DOMAIN new
  PROVE  key \in DOMAIN rows /\ Agrees(rows[key], new[key])
BY Zenon, MergedIs

LEMMA MergedNone ==
  ASSUME NEW new PROVE DOMAIN MergedRows(new, Nothing) = DOMAIN new
<1>1. DOMAIN MergedRows(new, Nothing) = DOMAIN new \cup DOMAIN Nothing
  BY Zenon DEF MergedRows
<1>2. DOMAIN Nothing = {}
  BY DEF Nothing
<1> QED BY <1>1, <1>2

LEMMA ProcedureRowsAre ==
  ASSUME NEW dec, Drafted(dec)
  PROVE  /\ DOMAIN ProcedureRows(dec) = {KeyOf(dec, i) : i \in DOMAIN dec.drafts}
         /\ \A i \in DOMAIN dec.drafts : ProcedureRows(dec)[KeyOf(dec, i)] = dec.drafts[i].values
<1>1. ASSUME NEW i \in DOMAIN dec.drafts
      PROVE  (CHOOSE j \in DOMAIN dec.drafts : KeyOf(dec, j) = KeyOf(dec, i)) = i
  <2> DEFINE c == CHOOSE j \in DOMAIN dec.drafts : KeyOf(dec, j) = KeyOf(dec, i)
  <2>1. c \in DOMAIN dec.drafts /\ KeyOf(dec, c) = KeyOf(dec, i)
    OBVIOUS
  <2> HIDE DEF c
  <2>2. c = i
    BY <2>1, KeysApart
  <2> QED BY <2>2 DEF c
<1> QED BY <1>1 DEF ProcedureRows

LEMMA ListKeyIs ==
  ASSUME NEW dec, NEW i, NEW k
  PROVE  ListKey(dec, i, k) = <<KeyOf(dec, i), dec.drafts[i].lists[k].role, dec.drafts[i].lists[k].name>>
BY DEF ListKey

LEMMA ListKeysApart ==
  ASSUME NEW dec, Drafted(dec), Distinct(dec),
         NEW i \in DOMAIN dec.drafts, NEW k \in DOMAIN dec.drafts[i].lists,
         NEW j \in DOMAIN dec.drafts, NEW l \in DOMAIN dec.drafts[j].lists,
         ListKey(dec, i, k) = ListKey(dec, j, l)
  PROVE  i = j /\ k = l
<1>1. /\ KeyOf(dec, i) = KeyOf(dec, j)
      /\ dec.drafts[i].lists[k].role = dec.drafts[j].lists[l].role
      /\ dec.drafts[i].lists[k].name = dec.drafts[j].lists[l].name
  BY ListKeyIs
<1>2. i = j
  BY <1>1, KeysApart
<1> QED BY <1>1, <1>2 DEF Distinct

LEMMA ListsAre ==
  ASSUME NEW dec, NEW l
  PROVE  l \in ListsOf(dec) <=> \E i \in DOMAIN dec.drafts : \E k \in DOMAIN dec.drafts[i].lists : l = <<i, k>>
BY DEF ListsOf

LEMMA ListKeysAre ==
  ASSUME NEW dec, NEW key
  PROVE  key \in ListKeys(dec) <=>
           \E i \in DOMAIN dec.drafts : \E k \in DOMAIN dec.drafts[i].lists : key = ListKey(dec, i, k)
<1>1. key \in ListKeys(dec) <=> \E l \in ListsOf(dec) : key = ListKey(dec, l[1], l[2])
  BY DEF ListKeys
<1>2. ASSUME NEW i \in DOMAIN dec.drafts, NEW k \in DOMAIN dec.drafts[i].lists, key = ListKey(dec, i, k)
      PROVE  \E l \in ListsOf(dec) : key = ListKey(dec, l[1], l[2])
  <2>1. <<i, k>> \in ListsOf(dec) /\ <<i, k>>[1] = i /\ <<i, k>>[2] = k
    BY ListsAre
  <2> QED BY <1>2, <2>1
<1>3. ASSUME NEW l \in ListsOf(dec), key = ListKey(dec, l[1], l[2])
      PROVE  \E i \in DOMAIN dec.drafts : \E k \in DOMAIN dec.drafts[i].lists : key = ListKey(dec, i, k)
  <2>1. PICK i \in DOMAIN dec.drafts : \E k \in DOMAIN dec.drafts[i].lists : l = <<i, k>>
    BY ListsAre
  <2>2. PICK k \in DOMAIN dec.drafts[i].lists : l = <<i, k>>
    BY <2>1
  <2> QED BY <1>3, <2>2
<1> QED BY <1>1, <1>2, <1>3

LEMMA ListAtIs ==
  ASSUME NEW dec, Drafted(dec), Distinct(dec),
         NEW i \in DOMAIN dec.drafts, NEW k \in DOMAIN dec.drafts[i].lists
  PROVE  ListAt(dec, ListKey(dec, i, k)) = dec.drafts[i].lists[k]
<1> DEFINE c == CHOOSE l \in ListsOf(dec) : ListKey(dec, l[1], l[2]) = ListKey(dec, i, k)
<1>1. <<i, k>> \in ListsOf(dec) /\ <<i, k>>[1] = i /\ <<i, k>>[2] = k
  BY ListsAre
<1>2. c \in ListsOf(dec) /\ ListKey(dec, c[1], c[2]) = ListKey(dec, i, k)
  BY <1>1
<1>3. ListAt(dec, ListKey(dec, i, k)) = dec.drafts[c[1]].lists[c[2]]
  BY Zenon DEF ListAt
<1> HIDE DEF c
<1>4. PICK j \in DOMAIN dec.drafts : \E l \in DOMAIN dec.drafts[j].lists : c = <<j, l>>
  BY <1>2, ListsAre
<1>5. PICK l \in DOMAIN dec.drafts[j].lists : c = <<j, l>>
  BY <1>4
<1>6. i = j /\ k = l
  <2>1. ListKey(dec, j, l) = ListKey(dec, i, k)
    BY <1>2, <1>5
  <2> QED BY <2>1, ListKeysApart
<1> QED BY <1>3, <1>5, <1>6

LEMMA LegRowsAre ==
  ASSUME NEW dec
  PROVE  /\ DOMAIN LegRows(dec) = UNION {{<<key, seq>> : seq \in DOMAIN ListAt(dec, key).legs} : key \in ListKeys(dec)}
         /\ \A key \in ListKeys(dec) : \A seq \in DOMAIN ListAt(dec, key).legs :
              <<key, seq>> \in DOMAIN LegRows(dec) /\ LegRows(dec)[<<key, seq>>] = ListAt(dec, key).legs[seq]
<1> DEFINE D == UNION {{<<key, seq>> : seq \in DOMAIN ListAt(dec, key).legs} : key \in ListKeys(dec)}
<1>1. DOMAIN LegRows(dec) = D /\ \A row \in D : LegRows(dec)[row] = ListAt(dec, row[1]).legs[row[2]]
  BY DEF LegRows
<1>2. ASSUME NEW key \in ListKeys(dec), NEW seq \in DOMAIN ListAt(dec, key).legs
      PROVE  <<key, seq>> \in D /\ <<key, seq>>[1] = key /\ <<key, seq>>[2] = seq
  OBVIOUS
<1> HIDE DEF D
<1>3. ASSUME NEW key \in ListKeys(dec), NEW seq \in DOMAIN ListAt(dec, key).legs
      PROVE  <<key, seq>> \in D /\ LegRows(dec)[<<key, seq>>] = ListAt(dec, key).legs[seq]
  BY <1>1, <1>2
<1> QED BY <1>1, <1>3 DEF D
-----------------------------------------------------------------------------
\* The rows of dec are merged into those of old.
Stored(store, old, dec) ==
  /\ store.procedures = MergedRows(ProcedureRows(dec), old.procedures)
  /\ store.lists = MergedRows(ListRows(dec), old.lists)
  /\ store.legs = MergedRows(LegRows(dec), old.legs)
  /\ store.runways = MergedRows(RunwayRows(dec), old.runways)
  /\ store.frequencies = old.frequencies \cup dec.frequencies

LEMMA AllArrived ==
  ASSUME NEW v, NEW up, NEW roles
  PROVE  /\ LegsUnder(v, up, roles) \cap DOMAIN v = LegsUnder(v, up, roles)
         /\ TransitionsOf(v, up) \cap DOMAIN v = TransitionsOf(v, up)
BY DEF LegsUnder, TransitionsOf, LegsOf

LEMMA HoldsList ==
  ASSUME NEW v, NEW dec, IsWhole(v, dec), Distinct(dec), NEW store, NEW old, Stored(store, old, dec),
         NEW i \in DOMAIN dec.drafts, NEW k \in DOMAIN dec.drafts[i].lists, NEW role, NEW name,
         NEW ids \in SUBSET DOMAIN v, ListFollows(v, dec.drafts[i].lists[k], role, name, ids)
  PROVE  HoldsLegs(store, v, <<KeyOf(dec, i), role, name>>, ids)
<1> DEFINE key == <<KeyOf(dec, i), role, name>>
           legs == dec.drafts[i].lists[k].legs
<1>1. key = ListKey(dec, i, k) /\ key \in ListKeys(dec)
  BY ListKeyIs, ListKeysAre DEF ListFollows
<1>2. ListAt(dec, key).legs = legs
  BY <1>1, WholeIsDrafted, ListAtIs
<1>3. Lined(v, legs, ids)
  BY DEF ListFollows
<1>4. IsFiniteSet(ids) /\ ids \subseteq Nat
  BY VersionIs, FS_Subset DEF IsWhole
<1> HIDE DEF key, legs
<1>5. key \in DOMAIN store.lists
  <2>1. DOMAIN ListRows(dec) = ListKeys(dec)
    BY DEF ListRows
  <2>2. store.lists = MergedRows(ListRows(dec), old.lists)
    BY DEF Stored
  <2> QED BY <1>1, <2>1, <2>2, MergedAt
<1>6. ASSUME NEW id \in ids
      PROVE  /\ <<key, Position(ids, id)>> \in DOMAIN store.legs
             /\ Agrees(store.legs[<<key, Position(ids, id)>>], v[id].values)
  <2> DEFINE seq == Position(ids, id)
  <2>1. seq \in DOMAIN legs /\ legs[seq] = v[id].values
    BY <1>3, <1>4, PositionIs, SeqIs DEF Lined
  <2> HIDE DEF seq
  <2>2. <<key, seq>> \in DOMAIN LegRows(dec) /\ LegRows(dec)[<<key, seq>>] = legs[seq]
    BY <1>1, <1>2, <2>1, LegRowsAre
  <2>3. store.legs = MergedRows(LegRows(dec), old.legs)
    BY DEF Stored
  <2>4. <<key, seq>> \in DOMAIN store.legs /\ Agrees(store.legs[<<key, seq>>], legs[seq])
    BY <2>2, <2>3, MergedAt, Zenon
  <2> QED BY <2>1, <2>4 DEF seq
<1>7. HoldsLegs(store, v, key, ids)
  BY <1>5, <1>6, Zenon DEF HoldsLegs, Position
<1> QED BY <1>7 DEF key

LEMMA HoldsOne ==
  ASSUME NEW v, NEW dec, IsWhole(v, dec), Distinct(dec), NEW store, NEW old, Stored(store, old, dec),
         NEW p \in ProceduresOf(v)
  PROVE  HoldsProcedure(store, v, p, KeyOf(dec, DraftOf(dec, p)))
<1> DEFINE i == DraftOf(dec, p)
           key == KeyOf(dec, i)
           draft == dec.drafts[i]
           A == DOMAIN v
           places == dec.nodes
<1>1. i \in DOMAIN dec.drafts /\ DraftFollows(v, A, places, p, draft) /\ draft.values = v[p].values
  BY WholeDrafts
<1>0. A = DOMAIN v /\ places = dec.nodes /\ draft = dec.drafts[i]
  OBVIOUS
<1>2. IsSeq(draft.lists) /\ DOMAIN draft.lists = 1..Len(draft.lists) /\ Len(draft.lists) \in Nat
  BY <1>1, WholeLists
<1>3. key \in DOMAIN store.procedures /\ Agrees(store.procedures[key], v[p].values)
  <2>1. key \in DOMAIN ProcedureRows(dec) /\ ProcedureRows(dec)[key] = v[p].values
    BY <1>1, WholeIsDrafted, ProcedureRowsAre
  <2>2. store.procedures = MergedRows(ProcedureRows(dec), old.procedures)
    BY DEF Stored
  <2> HIDE DEF key
  <2> QED BY <2>1, <2>2, MergedAt, Zenon
<1>4. ASSUME NEW t \in TransitionsOf(v, p)
      PROVE  HoldsLegs(store, v, <<key, v[t].type, v[t].name>>, LegsUnder(v, t, Roles))
  <2> HIDE DEF key, draft, A, places, i
  <2>0. t \in TransitionsOf(v, p) \cap A
    BY <1>0, AllArrived
  <2>1. BranchFollows(v, A, draft, t, places[t].list)
    BY <1>1, <2>0 DEF DraftFollows, PutTogether
  <2>2. /\ places[t].list \in DOMAIN draft.lists
        /\ ListFollows(v, draft.lists[places[t].list], v[t].type, v[t].name, LegsUnder(v, t, Roles))
    BY <2>1, <1>0, AllArrived DEF BranchFollows
  <2>3. LegsUnder(v, t, Roles) \in SUBSET DOMAIN v
    BY DEF LegsUnder, LegsOf
  <2> QED BY <1>0, <1>1, <2>2, <2>3, HoldsList DEF key
<1>5. ASSUME NEW role \in OwnLists(v, p)
      PROVE  HoldsLegs(store, v, <<key, role, Unnamed>>, LegsUnder(v, p, {role}))
  <2>1. role \in Roles /\ (v[p].legs[role] > 0 \/ LegsUnder(v, p, {role}) # {})
    BY DEF OwnLists
  <2> HIDE DEF key, draft, A, places, i
  <2>2. OwnFollows(v, A, p, draft, role) /\ (v[p].legs[role] > 0 => draft.own[role] # 0)
    BY <1>1, <2>1 DEF DraftFollows, PutTogether
  <2>3. draft.own[role] # 0
    BY <2>1, <2>2, <1>0, AllArrived DEF OwnFollows
  <2>4. /\ draft.own[role] \in DOMAIN draft.lists
        /\ ListFollows(v, draft.lists[draft.own[role]], role, Unnamed, LegsUnder(v, p, {role}))
    <3> DEFINE own == LegsUnder(v, p, {role})
    <3>1. own \cap A = own
      BY <1>0 DEF LegsUnder, LegsOf
    <3>2. draft.own[role] \in 0..Len(draft.lists) /\ ListFollows(v, draft.lists[draft.own[role]], role, Unnamed, own \cap A)
      BY <2>2, <2>3 DEF OwnFollows
    <3> HIDE DEF own
    <3>3. ListFollows(v, draft.lists[draft.own[role]], role, Unnamed, own)
      BY <3>1, <3>2, Zenon
    <3>4. draft.own[role] \in DOMAIN draft.lists
      BY <1>2, <2>3, <3>2
    <3> QED BY <3>3, <3>4 DEF own
  <2>5. LegsUnder(v, p, {role}) \in SUBSET DOMAIN v
    BY DEF LegsUnder, LegsOf
  <2> QED BY <1>0, <1>1, <2>4, <2>5, HoldsList DEF key
<1> HIDE DEF key, i, draft, A
<1>6. HoldsProcedure(store, v, p, key)
  BY <1>3, <1>4, <1>5 DEF HoldsProcedure
<1> QED BY <1>6 DEF key, i

LEMMA HoldsAll ==
  ASSUME NEW v, NEW dec, IsWhole(v, dec), Distinct(dec), NEW store, NEW old, Stored(store, old, dec)
  PROVE  HoldsProcedures(store, v)
<1> DEFINE P == ProceduresOf(v)
           rank == [p \in P |-> Rank(dec, DraftOf(dec, p))]
<1>0. Drafted(dec)
  BY WholeIsDrafted
<1>1. \A p \in P : /\ DraftOf(dec, p) \in DOMAIN dec.drafts /\ rank[p] = Rank(dec, DraftOf(dec, p))
                   /\ dec.drafts[DraftOf(dec, p)].base = BaseOf(v, p)
                   /\ dec.drafts[DraftOf(dec, p)].values = v[p].values
  BY WholeDrafts
<1>2. rank \in [P -> 1..Cardinality(P)]
  <2>1. Cardinality(P) = Len(dec.drafts)
    BY AsManyDrafts
  <2>2. \A p \in P : Rank(dec, DraftOf(dec, p)) \in 1..Len(dec.drafts)
    BY <1>0, <1>1, AheadFinite
  <2> QED BY <2>1, <2>2
<1> HIDE DEF rank
<1>3. ASSUME NEW p \in P PROVE HoldsProcedure(store, v, p, <<BaseOf(v, p), rank[p]>>)
  <2>1. HoldsProcedure(store, v, p, KeyOf(dec, DraftOf(dec, p)))
    BY HoldsOne
  <2>2. KeyOf(dec, DraftOf(dec, p)) = <<BaseOf(v, p), rank[p]>>
    BY <1>1, KeyIs
  <2> QED BY <2>1, <2>2
<1>4. ASSUME NEW p \in P, NEW q \in P \ {p}, BaseOf(v, q) = BaseOf(v, p)
      PROVE  rank[p] # rank[q] /\ (SortsBefore(v[p].values, v[q].values) => rank[p] < rank[q])
  <2> DEFINE i == DraftOf(dec, p)
             j == DraftOf(dec, q)
  <2>1. i # j
    BY WholeOwners
  <2>2. /\ i \in DOMAIN dec.drafts /\ j \in DOMAIN dec.drafts /\ dec.drafts[i].base = dec.drafts[j].base
        /\ rank[p] = Rank(dec, i) /\ rank[q] = Rank(dec, j)
        /\ dec.drafts[i].values = v[p].values /\ dec.drafts[j].values = v[q].values
    BY <1>1, <1>4
  <2> HIDE DEF i, j
  <2>3. rank[p] # rank[q]
    BY <1>0, <2>1, <2>2, KeyIs, KeysApart
  <2>4. ASSUME SortsBefore(v[p].values, v[q].values) PROVE rank[p] < rank[q]
    BY <1>0, <2>1, <2>2, <2>4, RankFollows DEF Leads
  <2> QED BY <2>3, <2>4
<1> HIDE DEF P
<1>5. \E r \in [P -> 1..Cardinality(P)] : \A p \in P :
        /\ HoldsProcedure(store, v, p, <<BaseOf(v, p), r[p]>>)
        /\ \A q \in P \ {p} : BaseOf(v, q) = BaseOf(v, p) =>
             r[p] # r[q] /\ (SortsBefore(v[p].values, v[q].values) => r[p] < r[q])
  <2> WITNESS rank \in [P -> 1..Cardinality(P)]
  <2> QED BY <1>3, <1>4
<1> QED BY <1>5, Zenon DEF P, HoldsProcedures
-----------------------------------------------------------------------------
(* Each kind of row is stored, and nothing else.                           *)

LEMMA ConcatIs ==
  ASSUME NEW a, IsSeq(a), NEW b, IsSeq(b)
  PROVE  /\ DOMAIN (a \o b) = 1..(Len(a) + Len(b))
         /\ \A k \in DOMAIN a : (a \o b)[k] = a[k]
         /\ \A k \in DOMAIN b : (a \o b)[Len(a) + k] = b[k]
<1> DEFINE T == {a[k] : k \in DOMAIN a} \cup {b[k] : k \in DOMAIN b}
<1>1. a \in Seq(T) /\ b \in Seq(T)
  <2> DEFINE R == {a[k] : k \in DOMAIN a}
             S == {b[k] : k \in DOMAIN b}
  <2>1. a \in Seq(R) /\ b \in Seq(S) /\ R \subseteq T /\ S \subseteq T
    BY DEF IsSeq
  <2> HIDE DEF R, S, T
  <2> QED BY <2>1
<1> HIDE DEF T
<1> QED BY <1>1

\* Where the columns c say something, the columns b say the same.
LEMMA AgreesWithMore ==
  ASSUME NEW row, NEW a, IsSeq(a), NEW b, IsSeq(b), NEW c, IsSeq(c), Len(b) = Len(c),
         \A e \in DOMAIN c : c[e] # Absent => b[e] = c[e],
         Agrees(row, a \o b)
  PROVE  Agrees(row, a \o c)
<1>1. /\ DOMAIN a = 1..Len(a) /\ Len(a) \in Nat /\ DOMAIN c = 1..Len(c) /\ Len(c) \in Nat
      /\ DOMAIN b = DOMAIN c
  BY SeqIs
<1>2. /\ DOMAIN (a \o c) = 1..(Len(a) + Len(c))
      /\ \A k \in DOMAIN a : (a \o c)[k] = a[k]
      /\ \A k \in DOMAIN c : (a \o c)[Len(a) + k] = c[k]
  BY ConcatIs
<1>3. /\ DOMAIN (a \o b) = 1..(Len(a) + Len(c))
      /\ \A k \in DOMAIN a : (a \o b)[k] = a[k]
      /\ \A k \in DOMAIN c : (a \o b)[Len(a) + k] = b[k]
  BY <1>1, ConcatIs
<1> DEFINE x == a \o b
           y == a \o c
<1> HIDE DEF x, y
<1>4. ASSUME NEW k \in DOMAIN y, y[k] # Absent PROVE row[k] = y[k]
  <2>1. CASE k \in DOMAIN a
    BY <2>1, <1>1, <1>2, <1>3, <1>4 DEF Agrees, x, y
  <2>2. CASE k \notin DOMAIN a
    <3> DEFINE e == k - Len(a)
    <3>1. e \in DOMAIN c /\ k = Len(a) + e /\ k \in DOMAIN x
      BY <2>2, <1>1, <1>2, <1>3 DEF x, y
    <3> HIDE DEF e
    <3>2. y[k] = c[e] /\ x[k] = b[e]
      BY <3>1, <1>2, <1>3 DEF x, y
    <3>3. x[k] = y[k]
      BY <3>1, <3>2, <1>4
    <3>4. row[k] = x[k]
      BY <3>1, <3>3, <1>4 DEF Agrees, x
    <3> QED BY <3>3, <3>4
  <2> QED BY <2>1, <2>2
<1> QED BY <1>4 DEF Agrees, y

\* The ends that the row of runway i holds are those of its thresholds.
LEMMA EndsAre ==
  ASSUME NEW v, NEW i, NEW row, RowFollows(v, DOMAIN v, i, row), NEW end \in 1..2, EndOf(v, i, end) # Absent
  PROVE  row.ends[end] = EndOf(v, i, end)
<1> DEFINE T == ThresholdsOf(v, i)
           there == {t \in T : Cardinality({s \in T : s <= t}) = end}
           c == CHOOSE t \in there : TRUE
<1>1. EndOf(v, i, end) = IF there = {} THEN Absent ELSE v[c].values[1]
  BY Zenon DEF EndOf
<1>2. there # {} /\ EndOf(v, i, end) = v[c].values[1]
  BY <1>1
<1>3. c \in there
  <2> HIDE DEF there
  <2> QED BY <1>2
<1> HIDE DEF c
<1>4. c \in T /\ Position(T, c) = end
  BY <1>3 DEF Position
<1>5. T \cap DOMAIN v = T
  BY DEF ThresholdsOf
<1> HIDE DEF T, there
<1>6. row.ends[Position(T, c)] = v[c].values[1]
  BY <1>4, <1>5 DEF RowFollows, T
<1> QED BY <1>2, <1>4, <1>6

LEMMA HoldsEveryRunway ==
  ASSUME NEW v, NEW dec, IsWhole(v, dec), NEW store, NEW old, Stored(store, old, dec)
  PROVE  HoldsRunways(store, v)
<1> SUFFICES ASSUME NEW id \in DOMAIN v, v[id].type = "RUNWAY"
             PROVE  /\ v[id].name \in DOMAIN store.runways
                    /\ Agrees(store.runways[v[id].name], v[id].values \o [end \in 1..2 |-> EndOf(v, id, end)])
  BY DEF HoldsRunways
<1> DEFINE key == v[id].name
           row == dec.runways[key]
           a == v[id].values
           b == row.ends
           c == [end \in 1..2 |-> EndOf(v, id, end)]
<1>1. key \in DOMAIN dec.runways /\ RowFollows(v, DOMAIN v, id, row)
  BY DEF IsWhole, Follows, RunwaysFollow, RunwayFollows
<1>2. a \in Seq(Int)
  BY RecordIs DEF IsWhole
<1>3. IsSeq(a)
  BY <1>2, SeqOf
<1>4. IsSeq(b) /\ Len(b) = 2 /\ row.values = a
  BY <1>1 DEF RowFollows
<1>5. IsSeq(c) /\ Len(c) = 2 /\ DOMAIN c = 1..2
  <2> DEFINE S == {c[k] : k \in 1..2}
  <2>1. DOMAIN c = 1..2 /\ \A k \in 1..2 : c[k] \in S
    OBVIOUS
  <2>2. c = [k \in 1..2 |-> c[k]]
    OBVIOUS
  <2> HIDE DEF c, S
  <2>3. c \in Seq(S) /\ Len(c) = 2
    BY <2>1, <2>2
  <2> QED BY <2>1, <2>3, SeqOf
<1>6. \A e \in DOMAIN c : c[e] # Absent => b[e] = c[e]
  <2>1. \A e \in 1..2 : c[e] = EndOf(v, id, e)
    OBVIOUS
  <2> HIDE DEF c, row
  <2> QED BY <1>1, <1>5, <2>1, EndsAre
<1>7. key \in DOMAIN RunwayRows(dec) /\ RunwayRows(dec)[key] = a \o b
  BY <1>1, <1>4 DEF RunwayRows
<1>8. store.runways = MergedRows(RunwayRows(dec), old.runways)
  BY DEF Stored
<1> HIDE DEF key, row, a, b, c
<1>9. key \in DOMAIN store.runways /\ Agrees(store.runways[key], a \o b)
  BY <1>7, <1>8, MergedAt
<1>10. Agrees(store.runways[key], a \o c)
  BY <1>3, <1>4, <1>5, <1>6, <1>9, AgreesWithMore
<1> QED BY <1>9, <1>10 DEF key, a, c

LEMMA HoldsTheTree ==
  ASSUME NEW v, NEW dec, IsWhole(v, dec), Distinct(dec), NEW store, NEW old, Stored(store, old, dec)
  PROVE  HoldsTree(store, v)
<1>1. \A id \in DOMAIN v : v[id].type = "FREQUENCY" => v[id].name \in store.frequencies
  BY DEF IsWhole, Follows, Stored
<1> QED BY <1>1, HoldsAll, HoldsEveryRunway DEF HoldsTree
-----------------------------------------------------------------------------
(* As many legs as records of legs.                                        *)

LEMMA PositionApart ==
  ASSUME NEW ids, IsFiniteSet(ids), ids \subseteq Nat, NEW l \in ids, NEW m \in ids, Position(ids, l) = Position(ids, m)
  PROVE  l = m
<1>1. ASSUME NEW a \in ids, NEW b \in ids, a < b PROVE Position(ids, a) < Position(ids, b)
  <2> DEFINE S == {o \in ids : o <= a}
             T == {o \in ids : o <= b}
  <2>0. ids \subseteq Nat /\ a \in Nat /\ b \in Nat
    OBVIOUS
  <2>1. S \subseteq T /\ b \in T /\ b \notin S
    <3>1. \A o \in ids : o <= a => o <= b
      BY <2>0, <1>1
    <3>2. b <= b /\ ~(b <= a)
      BY <2>0, <1>1
    <3> QED BY <3>1, <3>2
  <2>2. T \subseteq ids
    OBVIOUS
  <2>3. Position(ids, a) = Cardinality(S) /\ Position(ids, b) = Cardinality(T)
    BY DEF Position
  <2> HIDE DEF S, T
  <2>4. IsFiniteSet(T) /\ Cardinality(T) \in Nat
    BY <2>2, FS_Subset, FS_CardinalityType
  <2>5. Cardinality(S) <= Cardinality(T) /\ (Cardinality(T) = Cardinality(S) => T = S)
    BY <2>1, <2>4, FS_Subset
  <2>6. Cardinality(S) \in Nat
    BY <2>1, <2>4, FS_Subset, FS_CardinalityType
  <2> QED BY <2>1, <2>3, <2>4, <2>5, <2>6
<1>2. Position(ids, l) \in Nat
  BY PositionIs
<1>3. ~(l < m) /\ ~(m < l)
  BY <1>1, <1>2
<1>4. l \in Nat /\ m \in Nat
  OBVIOUS
<1> QED BY <1>3, <1>4

\* Which list of which draft leg l is put in.
ListOfLeg(v, dec, l) ==
  IF v[v[l].up].type \in Procedures THEN dec.drafts[DraftOf(dec, v[l].up)].own[OwnRole(v[l])]
  ELSE dec.nodes[v[l].up].list
LegsIn(v, dec, i, k) == {l \in LegsOf(v) : DraftOf(dec, v[l].up) = i /\ ListOfLeg(v, dec, l) = k}

LEMMA LegIsUnder ==
  ASSUME NEW v, NEW dec, IsWhole(v, dec), NEW l \in LegsOf(v)
  PROVE  /\ v[l].up \in DOMAIN v
         /\ \/ v[v[l].up].type \in Procedures /\ v[l].up \in ProceduresOf(v)
            \/ /\ v[v[l].up].type \in Transitions /\ v[l].type = "LEG" /\ v[v[l].up].type \notin Procedures
               /\ v[v[l].up].up \in ProceduresOf(v)
               /\ v[l].up \in TransitionsOf(v, v[v[l].up].up)
               /\ DraftOf(dec, v[l].up) = DraftOf(dec, v[v[l].up].up)
<1>1. /\ l \in DOMAIN v /\ v[l].type \in LegTypes
  BY DEF LegsOf
<1>2. /\ v[l].up \in DOMAIN v
      /\ \/ v[v[l].up].type \in Procedures
         \/ v[v[l].up].type \in Transitions /\ v[l].type = "LEG"
  BY <1>1 DEF IsWhole, Follows, PlacesFollow
<1>3. v[v[l].up].type \in Procedures => v[l].up \in ProceduresOf(v)
  BY <1>2 DEF ProceduresOf
<1>4. ASSUME v[v[l].up].type \in Transitions
      PROVE  /\ v[v[l].up].up \in ProceduresOf(v) /\ v[l].up \in TransitionsOf(v, v[v[l].up].up)
             /\ DraftOf(dec, v[l].up) = DraftOf(dec, v[v[l].up].up)
             /\ v[v[l].up].type \notin Procedures
  <2>1. v[v[l].up].type \notin Procedures
    BY <1>4 DEF Transitions, Procedures
  <2>2. v[v[l].up].up \in ProceduresOf(v) /\ DraftOf(dec, v[l].up) = DraftOf(dec, v[v[l].up].up)
    BY <1>2, <1>4 DEF IsWhole, Follows, PlacesFollow, DraftOf
  <2>3. v[l].up \in TransitionsOf(v, v[v[l].up].up)
    BY <1>2, <1>4 DEF TransitionsOf
  <2> QED BY <2>1, <2>2, <2>3
<1> QED BY <1>2, <1>3, <1>4

\* What the whole of procedure p looks like.
LEMMA WholeOwn ==
  ASSUME NEW v, NEW dec, IsWhole(v, dec), NEW p \in ProceduresOf(v), NEW role \in Roles,
         NEW draft, draft = dec.drafts[DraftOf(dec, p)]
  PROVE  /\ draft.own[role] \in 0..Len(draft.lists)
         /\ draft.own[role] = 0 => LegsUnder(v, p, {role}) = {}
         /\ draft.own[role] # 0 =>
              ListFollows(v, draft.lists[draft.own[role]], role, Unnamed, LegsUnder(v, p, {role}))
<1> DEFINE own == LegsUnder(v, p, {role})
<1>1. OwnFollows(v, DOMAIN v, p, draft, role)
  BY WholeDrafts DEF DraftFollows, PutTogether
<1>2. own \cap DOMAIN v = own
  BY DEF LegsUnder, LegsOf
<1>3. /\ draft.own[role] \in 0..Len(draft.lists)
      /\ draft.own[role] = 0 => own \cap DOMAIN v = {}
      /\ draft.own[role] # 0 => ListFollows(v, draft.lists[draft.own[role]], role, Unnamed, own \cap DOMAIN v)
  BY <1>1 DEF OwnFollows
<1> HIDE DEF own
<1>4. /\ draft.own[role] \in 0..Len(draft.lists)
      /\ draft.own[role] = 0 => own = {}
      /\ draft.own[role] # 0 => ListFollows(v, draft.lists[draft.own[role]], role, Unnamed, own)
  BY <1>2, <1>3, Zenon
<1> QED BY <1>4 DEF own

LEMMA WholeBranch ==
  ASSUME NEW v, NEW dec, IsWhole(v, dec), NEW p \in ProceduresOf(v), NEW t \in TransitionsOf(v, p),
         NEW draft, draft = dec.drafts[DraftOf(dec, p)]
  PROVE  /\ dec.nodes[t].list \in DOMAIN draft.lists
         /\ ListFollows(v, draft.lists[dec.nodes[t].list], v[t].type, v[t].name, LegsUnder(v, t, Roles))
         /\ \A u \in TransitionsOf(v, p) : dec.nodes[t].list = dec.nodes[u].list => t = u
<1>1. PutTogether(v, DOMAIN v, dec.nodes, p, draft)
  BY WholeDrafts DEF DraftFollows
<1>0. \A u \in TransitionsOf(v, p) : u \in TransitionsOf(v, p) \cap DOMAIN v
  BY AllArrived
<1>2. BranchFollows(v, DOMAIN v, draft, t, dec.nodes[t].list)
  BY <1>0, <1>1 DEF PutTogether
<1>3. \A u \in TransitionsOf(v, p) : dec.nodes[t].list = dec.nodes[u].list => t = u
  BY <1>0, <1>1 DEF PutTogether
<1> QED BY <1>2, <1>3, AllArrived DEF BranchFollows
LEMMA OwnListIs ==
  ASSUME NEW v, NEW dec, IsWhole(v, dec), NEW p \in ProceduresOf(v), NEW role \in Roles,
         NEW draft, draft = dec.drafts[DraftOf(dec, p)], NEW k, draft.own[role] = k, k # 0
  PROVE  ListFollows(v, draft.lists[k], role, Unnamed, LegsUnder(v, p, {role}))
BY WholeOwn, Zenon

LEMMA OwnRoleListed ==
  ASSUME NEW v, NEW dec, IsWhole(v, dec), NEW p \in ProceduresOf(v), NEW role \in Roles,
         NEW draft, draft = dec.drafts[DraftOf(dec, p)], NEW k, draft.own[role] = k, k # 0
  PROVE  draft.lists[k].role = role
<1>1. ListFollows(v, draft.lists[k], role, Unnamed, LegsUnder(v, p, {role}))
  BY OwnListIs
<1> QED BY <1>1 DEF ListFollows

LEMMA BranchRoleListed ==
  ASSUME NEW v, NEW dec, IsWhole(v, dec), NEW p \in ProceduresOf(v), NEW t \in TransitionsOf(v, p),
         NEW draft, draft = dec.drafts[DraftOf(dec, p)], NEW k, dec.nodes[t].list = k
  PROVE  draft.lists[k].role = v[t].type
<1>1. ListFollows(v, draft.lists[k], v[t].type, v[t].name, LegsUnder(v, t, Roles))
  BY WholeBranch
<1> QED BY <1>1 DEF ListFollows

LEMMA OwnersApart ==
  ASSUME NEW v, NEW dec, IsWhole(v, dec), NEW p \in ProceduresOf(v), NEW q \in ProceduresOf(v),
         DraftOf(dec, p) = DraftOf(dec, q)
  PROVE  p = q
BY WholeOwners

LEMMA LegsInOwn ==
  ASSUME NEW v, NEW dec, IsWhole(v, dec), NEW p \in ProceduresOf(v), NEW role \in Roles,
         NEW draft, draft = dec.drafts[DraftOf(dec, p)], draft.own[role] # 0
  PROVE  LegsIn(v, dec, DraftOf(dec, p), draft.own[role]) = LegsUnder(v, p, {role})
<1> DEFINE k == draft.own[role]
           i == DraftOf(dec, p)
<1>1. draft.lists[k].role = role
  <2> HIDE DEF k
  <2>1. draft.own[role] = k /\ k # 0
    BY DEF k
  <2> QED BY <2>1, OwnRoleListed
<1>2. ASSUME NEW l \in LegsUnder(v, p, {role}) PROVE l \in LegsIn(v, dec, i, k)
  <2>1. l \in LegsOf(v) /\ v[l].up = p /\ OwnRole(v[l]) = role
    BY DEF LegsUnder
  <2>2. v[p].type \in Procedures
    BY DEF ProceduresOf
  <2> QED BY <2>1, <2>2 DEF LegsIn, ListOfLeg
<1>3. ASSUME NEW l \in LegsIn(v, dec, i, k) PROVE l \in LegsUnder(v, p, {role})
  <2> DEFINE u == v[l].up
             own == OwnRole(v[l])
  <2>1. l \in LegsOf(v) /\ DraftOf(dec, u) = i /\ ListOfLeg(v, dec, l) = k
    BY DEF LegsIn
  <2>2. own \in Roles
    BY OwnRoleIs
  <2>3. CASE v[u].type \in Procedures /\ u \in ProceduresOf(v)
    <3>1. u = p
      BY <2>1, <2>3, WholeOwners
    <3>2. draft.own[own] = k
      BY <2>1, <2>3, <3>1 DEF ListOfLeg
    <3>3. draft.lists[k].role = own
      <4>1. k # 0
        OBVIOUS
      <4> HIDE DEF own, k
      <4> QED BY <2>2, <3>2, <4>1, OwnRoleListed
    <3> QED BY <1>1, <2>1, <3>1, <3>3 DEF LegsUnder
  <2>4. CASE /\ v[u].type \in Transitions /\ v[l].type = "LEG" /\ v[u].type \notin Procedures
             /\ v[u].up \in ProceduresOf(v) /\ u \in TransitionsOf(v, v[u].up)
             /\ DraftOf(dec, u) = DraftOf(dec, v[u].up)
    <3>1. v[u].up = p
      <4> DEFINE q == v[u].up
      <4>1. q \in ProceduresOf(v) /\ DraftOf(dec, q) = DraftOf(dec, p)
        BY <2>1, <2>4
      <4> HIDE DEF q
      <4> QED BY <4>1, OwnersApart DEF q
    <3>2. dec.nodes[u].list = k
      BY <2>1, <2>4 DEF ListOfLeg
    <3>3. draft.lists[k].role = v[u].type
      <4> HIDE DEF u, k
      <4>1. u \in TransitionsOf(v, p)
        BY <2>4, <3>1
      <4> QED BY <3>2, <4>1, BranchRoleListed
    <3>4. role \in Transitions
      BY <1>1, <2>4, <3>3, Zenon
    <3> QED BY <3>4, RolesApart
  <2> QED BY <2>1, <2>3, <2>4, LegIsUnder
<1> QED BY <1>2, <1>3

LEMMA LegsInBranch ==
  ASSUME NEW v, NEW dec, IsWhole(v, dec), NEW p \in ProceduresOf(v), NEW t \in TransitionsOf(v, p),
         NEW draft, draft = dec.drafts[DraftOf(dec, p)]
  PROVE  LegsIn(v, dec, DraftOf(dec, p), dec.nodes[t].list) = LegsUnder(v, t, Roles)
<1> DEFINE k == dec.nodes[t].list
           i == DraftOf(dec, p)
<1>1. draft.lists[k].role = v[t].type /\ v[t].type \in Transitions /\ v[t].up = p /\ t \in DOMAIN v
  BY WholeBranch DEF ListFollows, TransitionsOf
<1>0. DraftOf(dec, t) = i
  BY <1>1 DEF IsWhole, Follows, PlacesFollow, DraftOf
<1>2. ASSUME NEW l \in LegsUnder(v, t, Roles) PROVE l \in LegsIn(v, dec, i, k)
  <2>1. l \in LegsOf(v) /\ v[l].up = t
    BY DEF LegsUnder
  <2>2. v[t].type \notin Procedures
    BY <1>1, RolesApart
  <2> QED BY <1>0, <2>1, <2>2 DEF LegsIn, ListOfLeg
<1>3. ASSUME NEW l \in LegsIn(v, dec, i, k) PROVE l \in LegsUnder(v, t, Roles)
  <2> DEFINE u == v[l].up
             own == OwnRole(v[l])
  <2>1. l \in LegsOf(v) /\ DraftOf(dec, u) = i /\ ListOfLeg(v, dec, l) = k
    BY DEF LegsIn
  <2>2. own \in Roles
    BY OwnRoleIs
  <2>3. CASE v[u].type \in Procedures /\ u \in ProceduresOf(v)
    <3>1. u = p
      BY <2>1, <2>3, WholeOwners
    <3>2. draft.own[own] = k
      BY <2>1, <2>3, <3>1 DEF ListOfLeg
    <3>3. k # 0
      <4>1. k \in DOMAIN draft.lists
        BY WholeBranch
      <4>2. i \in DOMAIN dec.drafts
        BY WholeDrafts
      <4>3. DOMAIN draft.lists = 1..Len(draft.lists) /\ Len(draft.lists) \in Nat
        BY <4>2, WholeLists
      <4> HIDE DEF k
      <4> QED BY <4>1, <4>3
    <3>4. draft.lists[k].role = own
      <4> HIDE DEF own, k
      <4> QED BY <2>2, <3>2, <3>3, OwnRoleListed
    <3> QED BY <1>1, <2>2, <3>4, RolesApart
  <2>4. CASE /\ v[u].type \in Transitions /\ v[l].type = "LEG" /\ v[u].type \notin Procedures
             /\ v[u].up \in ProceduresOf(v) /\ u \in TransitionsOf(v, v[u].up)
             /\ DraftOf(dec, u) = DraftOf(dec, v[u].up)
    <3>1. v[u].up = p
      <4> DEFINE q == v[u].up
      <4>1. q \in ProceduresOf(v) /\ DraftOf(dec, q) = DraftOf(dec, p)
        BY <2>1, <2>4
      <4> HIDE DEF q
      <4> QED BY <4>1, OwnersApart DEF q
    <3>2. dec.nodes[u].list = k
      BY <2>1, <2>4 DEF ListOfLeg
    <3>3. u = t
      <4> HIDE DEF u
      <4> QED BY <2>4, <3>1, <3>2, WholeBranch
    <3> QED BY <2>1, <2>2, <3>3 DEF LegsUnder
  <2> QED BY <2>1, <2>3, <2>4, LegIsUnder
<1> QED BY <1>2, <1>3

\* Every list has the legs that are put in it, one after the other.
LEMMA ListsLined ==
  ASSUME NEW v, NEW dec, IsWhole(v, dec), NEW i \in DOMAIN dec.drafts, NEW k \in DOMAIN dec.drafts[i].lists
  PROVE  Lined(v, dec.drafts[i].lists[k].legs, LegsIn(v, dec, i, k))
<1>1. PICK p \in ProceduresOf(v) : DraftOf(dec, p) = i
  BY WholeOwners
<1>2. PICK draft : draft = dec.drafts[i]
  OBVIOUS
<1>3. /\ \A t \in TransitionsOf(v, p) \cap DOMAIN v : t \in TransitionsOf(v, p)
      /\ \/ \E role \in Roles : draft.own[role] = k
         \/ \E t \in TransitionsOf(v, p) \cap DOMAIN v : dec.nodes[t].list = k
  BY <1>1, <1>2, WholeDrafts DEF DraftFollows, PutTogether
<1>4. k # 0
  <2>1. DOMAIN draft.lists = 1..Len(draft.lists) /\ Len(draft.lists) \in Nat
    BY <1>2, WholeLists
  <2> QED BY <1>2, <2>1
<1>5. ASSUME NEW role \in Roles, draft.own[role] = k PROVE Lined(v, draft.lists[k].legs, LegsIn(v, dec, i, k))
  <2>1. LegsIn(v, dec, i, k) = LegsUnder(v, p, {role})
    BY <1>1, <1>2, <1>4, <1>5, LegsInOwn
  <2>2. ListFollows(v, draft.lists[k], role, Unnamed, LegsUnder(v, p, {role}))
    BY <1>1, <1>2, <1>4, <1>5, WholeOwn
  <2>3. Lined(v, draft.lists[k].legs, LegsUnder(v, p, {role}))
    BY <2>2 DEF ListFollows
  <2> QED BY <2>1, <2>3, Zenon
<1>6. ASSUME NEW t \in TransitionsOf(v, p), dec.nodes[t].list = k
      PROVE Lined(v, draft.lists[k].legs, LegsIn(v, dec, i, k))
  <2>1. LegsIn(v, dec, i, k) = LegsUnder(v, t, Roles)
    BY <1>1, <1>2, <1>6, LegsInBranch
  <2>2. ListFollows(v, draft.lists[k], v[t].type, v[t].name, LegsUnder(v, t, Roles))
    BY <1>1, <1>2, <1>6, WholeBranch
  <2> QED BY <2>1, <2>2 DEF ListFollows
<1> QED BY <1>2, <1>3, <1>5, <1>6

\* Every leg has its list.
LEMMA LegsHaveLists ==
  ASSUME NEW v, NEW dec, IsWhole(v, dec), NEW l \in LegsOf(v)
  PROVE  /\ DraftOf(dec, v[l].up) \in DOMAIN dec.drafts
         /\ ListOfLeg(v, dec, l) \in DOMAIN dec.drafts[DraftOf(dec, v[l].up)].lists
         /\ l \in LegsIn(v, dec, DraftOf(dec, v[l].up), ListOfLeg(v, dec, l))
<1> DEFINE u == v[l].up
           role == OwnRole(v[l])
<1>1. l \in LegsIn(v, dec, DraftOf(dec, u), ListOfLeg(v, dec, l))
  BY DEF LegsIn
<1>2. role \in Roles
  BY OwnRoleIs
<1>3. CASE v[u].type \in Procedures /\ u \in ProceduresOf(v)
  <2>1. PICK draft : draft = dec.drafts[DraftOf(dec, u)]
    OBVIOUS
  <2>2. ListOfLeg(v, dec, l) = draft.own[role]
    BY <1>3, <2>1 DEF ListOfLeg
  <2>3. l \in LegsUnder(v, u, {role})
    BY DEF LegsUnder
  <2>4. DraftOf(dec, u) \in DOMAIN dec.drafts
    BY <1>3, WholeDrafts
  <2>5. DOMAIN draft.lists = 1..Len(draft.lists) /\ Len(draft.lists) \in Nat
    BY <2>1, <2>4, WholeLists
  <2>6. draft.own[role] \in 0..Len(draft.lists) /\ (draft.own[role] = 0 => LegsUnder(v, u, {role}) = {})
    <3> HIDE DEF u, role
    <3>1. u \in ProceduresOf(v)
      BY <1>3
    <3> QED BY <1>2, <3>1, <2>1, WholeOwn, Zenon
  <2>7. draft.own[role] \in DOMAIN draft.lists
    <3>1. LegsUnder(v, u, {role}) # {}
      BY <2>3
    <3>2. draft.own[role] # 0
      BY <2>6, <3>1
    <3>3. draft.own[role] \in 0..Len(draft.lists)
      BY <2>6
    <3> HIDE DEF u, role
    <3> QED BY <2>5, <3>2, <3>3
  <2> QED BY <1>1, <2>1, <2>2, <2>4, <2>7
<1>4. CASE /\ v[u].type \in Transitions /\ v[l].type = "LEG" /\ v[u].type \notin Procedures
           /\ v[u].up \in ProceduresOf(v) /\ u \in TransitionsOf(v, v[u].up)
           /\ DraftOf(dec, u) = DraftOf(dec, v[u].up)
  <2>1. DraftOf(dec, u) \in DOMAIN dec.drafts
    BY <1>4, WholeDrafts
  <2>2. ListOfLeg(v, dec, l) = dec.nodes[u].list
    BY <1>4 DEF ListOfLeg
  <2>3. dec.nodes[u].list \in DOMAIN dec.drafts[DraftOf(dec, u)].lists
    <3> HIDE DEF u
    <3> QED BY <1>4, WholeBranch
  <2> QED BY <1>1, <2>1, <2>2, <2>3
<1> QED BY <1>3, <1>4, LegIsUnder
-----------------------------------------------------------------------------
(* The leg rows are as many as the legs of the lists.                      *)

LEMMA ListsFinite ==
  ASSUME NEW v, NEW dec, IsWhole(v, dec), NEW i, NEW k
  PROVE  IsFiniteSet(LegsIn(v, dec, i, k)) /\ LegsIn(v, dec, i, k) \subseteq Nat
<1> DEFINE ids == LegsIn(v, dec, i, k)
<1>1. ids \subseteq DOMAIN v
  BY DEF LegsIn, LegsOf
<1>2. IsFiniteSet(DOMAIN v) /\ DOMAIN v \subseteq Nat
  BY VersionIs DEF IsWhole
<1> HIDE DEF ids
<1>3. IsFiniteSet(ids) /\ ids \subseteq Nat
  BY <1>1, <1>2, FS_Subset
<1> QED BY <1>3 DEF ids

\* The row of leg l.
LegKey(v, dec, l) == ListKey(dec, DraftOf(dec, v[l].up), ListOfLeg(v, dec, l))
LegSeq(v, dec, l) == Position(LegsIn(v, dec, DraftOf(dec, v[l].up), ListOfLeg(v, dec, l)), l)

LEMMA LegRowIs ==
  ASSUME NEW v, NEW dec, IsWhole(v, dec), Distinct(dec), NEW l \in LegsOf(v)
  PROVE  <<LegKey(v, dec, l), LegSeq(v, dec, l)>> \in DOMAIN LegRows(dec)
<1> DEFINE i == DraftOf(dec, v[l].up)
           k == ListOfLeg(v, dec, l)
           key == ListKey(dec, i, k)
           ids == LegsIn(v, dec, i, k)
<1>1. i \in DOMAIN dec.drafts /\ k \in DOMAIN dec.drafts[i].lists /\ l \in ids
  BY LegsHaveLists
<1>2. LegKey(v, dec, l) = key /\ LegSeq(v, dec, l) = Position(ids, l)
  BY DEF LegKey, LegSeq
<1>3. l \in Int
  BY <1>1, ListsFinite
<1> HIDE DEF i, k
<1>4. Lined(v, dec.drafts[i].lists[k].legs, ids) /\ IsFiniteSet(ids)
  BY <1>1, ListsLined, ListsFinite
<1>5. key \in ListKeys(dec) /\ ListAt(dec, key) = dec.drafts[i].lists[k]
  BY <1>1, WholeIsDrafted, ListAtIs, ListKeysAre
<1> HIDE DEF key, ids
<1>6. Position(ids, l) \in DOMAIN ListAt(dec, key).legs
  BY <1>1, <1>3, <1>4, <1>5, PositionIs, SeqIs DEF Lined
<1>7. <<key, Position(ids, l)>> \in DOMAIN LegRows(dec)
  BY <1>5, <1>6, LegRowsAre
<1> QED BY <1>2, <1>7

LEMMA LegRowsApart ==
  ASSUME NEW v, NEW dec, IsWhole(v, dec), Distinct(dec), NEW l \in LegsOf(v), NEW m \in LegsOf(v),
         LegKey(v, dec, l) = LegKey(v, dec, m), LegSeq(v, dec, l) = LegSeq(v, dec, m)
  PROVE  l = m
<1> DEFINE i == DraftOf(dec, v[l].up)
           k == ListOfLeg(v, dec, l)
           j == DraftOf(dec, v[m].up)
           n == ListOfLeg(v, dec, m)
<1>1. /\ i \in DOMAIN dec.drafts /\ k \in DOMAIN dec.drafts[i].lists /\ l \in LegsIn(v, dec, i, k)
      /\ j \in DOMAIN dec.drafts /\ n \in DOMAIN dec.drafts[j].lists /\ m \in LegsIn(v, dec, j, n)
  BY LegsHaveLists
<1>2. ListKey(dec, i, k) = ListKey(dec, j, n)
  BY DEF LegKey
<1>3. Position(LegsIn(v, dec, i, k), l) = Position(LegsIn(v, dec, j, n), m)
  BY DEF LegSeq
<1> HIDE DEF i, k, j, n
<1>4. i = j /\ k = n
  BY <1>1, <1>2, WholeIsDrafted, ListKeysApart
<1> DEFINE ids == LegsIn(v, dec, i, k)
<1>5. l \in ids /\ m \in ids /\ Position(ids, l) = Position(ids, m)
  BY <1>1, <1>3, <1>4
<1>6. IsFiniteSet(ids) /\ ids \subseteq Nat
  BY ListsFinite
<1> HIDE DEF ids
<1> QED BY <1>5, <1>6, PositionApart

LEMMA RowIsOfALeg ==
  ASSUME NEW v, NEW dec, IsWhole(v, dec), Distinct(dec), NEW row \in DOMAIN LegRows(dec)
  PROVE  \E l \in LegsOf(v) : row = <<LegKey(v, dec, l), LegSeq(v, dec, l)>>
<1>1. PICK key \in ListKeys(dec) : \E seq \in DOMAIN ListAt(dec, key).legs : row = <<key, seq>>
  <2>1. DOMAIN LegRows(dec) = UNION {{<<key, seq>> : seq \in DOMAIN ListAt(dec, key).legs} : key \in ListKeys(dec)}
    BY LegRowsAre, Zenon
  <2>2. row \in UNION {{<<key, seq>> : seq \in DOMAIN ListAt(dec, key).legs} : key \in ListKeys(dec)}
    BY <2>1, Zenon
  <2> QED BY <2>2
<1>2. PICK seq \in DOMAIN ListAt(dec, key).legs : row = <<key, seq>>
  BY <1>1
<1>3. PICK i \in DOMAIN dec.drafts : \E k \in DOMAIN dec.drafts[i].lists : key = ListKey(dec, i, k)
  BY ListKeysAre
<1>4. PICK k \in DOMAIN dec.drafts[i].lists : key = ListKey(dec, i, k)
  BY <1>3
<1>5. ListAt(dec, key) = dec.drafts[i].lists[k]
  BY <1>4, WholeIsDrafted, ListAtIs
<1>6. PICK l \in LegsIn(v, dec, i, k) : Position(LegsIn(v, dec, i, k), l) = seq
  BY <1>2, <1>5, ListsLined DEF Lined
<1>7. l \in LegsOf(v) /\ DraftOf(dec, v[l].up) = i /\ ListOfLeg(v, dec, l) = k
  BY <1>6 DEF LegsIn
<1>8. LegKey(v, dec, l) = key /\ LegSeq(v, dec, l) = seq
  BY <1>4, <1>6, <1>7 DEF LegKey, LegSeq
<1> QED BY <1>2, <1>7, <1>8

LEMMA AsManyLegs ==
  ASSUME NEW v, NEW dec, IsWhole(v, dec), Distinct(dec)
  PROVE  Counted(LegRows(dec), LegsOf(v))
<1> DEFINE S == LegsOf(v)
           T == DOMAIN LegRows(dec)
           f == [l \in S |-> <<LegKey(v, dec, l), LegSeq(v, dec, l)>>]
<1>1. f \in [S -> T]
  BY LegRowIs
<1>2. \A l \in S : \A m \in S : f[l] = f[m] => l = m
  BY LegRowsApart
<1>3. \A row \in T : \E l \in S : f[l] = row
  BY RowIsOfALeg
<1>4. IsFiniteSet(S)
  BY VersionIs, FS_Subset DEF IsWhole, LegsOf
<1>5. Counted(LegRows(dec), S) <=> Cardinality(T) = Cardinality(S)
  BY DEF Counted
<1> HIDE DEF S, T, f
<1>6. f \in Bijection(S, T)
  BY <1>1, <1>2, <1>3, Zenon DEF Bijection, Injection, Surjection, IsInjective
<1>7. Cardinality(T) = Cardinality(S)
  BY <1>4, <1>6, FS_Bijection DEF ExistsBijection
<1> QED BY <1>5, <1>7 DEF S

LEMMA AsManyProcedures ==
  ASSUME NEW v, NEW dec, IsWhole(v, dec)
  PROVE  Counted(ProcedureRows(dec), ProceduresOf(v))
<1> DEFINE S == ProceduresOf(v)
           T == DOMAIN ProcedureRows(dec)
           f == [p \in S |-> KeyOf(dec, DraftOf(dec, p))]
<1>0. Drafted(dec) /\ \A p \in S : DraftOf(dec, p) \in DOMAIN dec.drafts
  BY WholeIsDrafted, WholeDrafts
<1>1. T = {KeyOf(dec, i) : i \in DOMAIN dec.drafts}
  BY <1>0, ProcedureRowsAre
<1>2. f \in [S -> T]
  BY <1>0, <1>1
<1>3. \A p \in S : \A q \in S : f[p] = f[q] => p = q
  BY <1>0, KeysApart, WholeOwners
<1>4. \A key \in T : \E p \in S : f[p] = key
  BY <1>1, WholeOwners
<1>5. IsFiniteSet(S)
  BY AsManyDrafts
<1>6. Counted(ProcedureRows(dec), S) <=> Cardinality(T) = Cardinality(S)
  BY DEF Counted
<1> HIDE DEF S, T, f
<1>7. f \in Bijection(S, T)
  BY <1>2, <1>3, <1>4, Zenon DEF Bijection, Injection, Surjection, IsInjective
<1>8. Cardinality(T) = Cardinality(S)
  BY <1>5, <1>7, FS_Bijection DEF ExistsBijection
<1> QED BY <1>6, <1>8 DEF S

LEMMA HoldsNothingElse ==
  ASSUME NEW v, NEW dec, IsWhole(v, dec), Distinct(dec), NEW store, NEW old, Stored(store, old, dec),
         old.procedures = Nothing, old.legs = Nothing
  PROVE  HoldsNoMore(store, v)
<1>1. DOMAIN store.procedures = DOMAIN ProcedureRows(dec) /\ DOMAIN store.legs = DOMAIN LegRows(dec)
  BY MergedNone DEF Stored
<1> QED BY <1>1, AsManyLegs, AsManyProcedures DEF HoldsNoMore, Counted

-----------------------------------------------------------------------------
(* What is stored of an airport is what was fetched.                       *)

SameRows(a, b) ==
  /\ a.runways = b.runways /\ a.frequencies = b.frequencies
  /\ a.procedures = b.procedures /\ a.lists = b.lists /\ a.legs = b.legs

LEMMA HoldsSame ==
  ASSUME NEW a, NEW b, SameRows(a, b), NEW v
  PROVE  (HoldsTree(b, v) => HoldsTree(a, v)) /\ (HoldsNoMore(b, v) => HoldsNoMore(a, v))
<1>1. \A key, ids : HoldsLegs(a, v, key, ids) <=> HoldsLegs(b, v, key, ids)
  BY Zenon DEF SameRows, HoldsLegs
<1>2. \A p, key : HoldsProcedure(a, v, p, key) <=> HoldsProcedure(b, v, p, key)
  BY <1>1, Zenon DEF SameRows, HoldsProcedure
<1>3. HoldsProcedures(a, v) <=> HoldsProcedures(b, v)
  BY <1>2, Zenon DEF HoldsProcedures
<1>4. HoldsRunways(a, v) <=> HoldsRunways(b, v)
  BY Zenon DEF SameRows, HoldsRunways
<1>5. HoldsTree(b, v) => HoldsTree(a, v)
  BY <1>3, <1>4 DEF SameRows, HoldsTree
<1>6. HoldsNoMore(b, v) => HoldsNoMore(a, v)
  BY Zenon DEF SameRows, HoldsNoMore
<1> QED BY <1>5, <1>6

LEMMA InStateSame ==
  ASSUME NEW k, DOMAIN k = Fields, NEW s PROVE SameRows(InState(k, s), k)
BY DEF InState, SameRows, Fields

LEMMA WithAbsenceSame ==
  ASSUME NEW k, DOMAIN k = Fields, NEW s, NEW a PROVE SameRows(WithAbsence(k, s, a), k)
<1> DEFINE k1 == [k EXCEPT !.state = s]
<1>1. DOMAIN k1 = Fields /\ SameRows(k1, k)
  BY DEF Fields, SameRows
<1>2. WithAbsence(k, s, a) = [k1 EXCEPT !.absent = a]
  BY DEF WithAbsence, Fields
<1> HIDE DEF k1
<1> QED BY <1>1, <1>2 DEF SameRows, Fields

LEMMA WrittenRows ==
  ASSUME NEW k, DOMAIN k = Fields, NEW dec
  PROVE  Stored(WriteDetail(k, dec), k, dec)
<1> DEFINE r == MergedRows(RunwayRows(dec), k.runways)
           f == k.frequencies \cup dec.frequencies
           q == MergedRows(ProcedureRows(dec), k.procedures)
           l == MergedRows(ListRows(dec), k.lists)
           g == MergedRows(LegRows(dec), k.legs)
<1> PICK s, p : WriteDetail(k, dec) =
      [k EXCEPT !.state = s, !.place = p, !.runways = r, !.frequencies = f,
                !.procedures = q, !.lists = l, !.legs = g]
  BY Zenon DEF WriteDetail
<1> DEFINE k1 == [k EXCEPT !.state = s]
           k2 == [k1 EXCEPT !.place = p]
           k3 == [k2 EXCEPT !.runways = r]
           k4 == [k3 EXCEPT !.frequencies = f]
           k5 == [k4 EXCEPT !.procedures = q]
           k6 == [k5 EXCEPT !.lists = l]
           k7 == [k6 EXCEPT !.legs = g]
<1> HIDE DEF r, f, q, l, g
<1>0. WriteDetail(k, dec) = k7
  OBVIOUS
<1>1. DOMAIN k1 = Fields
  BY DEF Fields
<1> HIDE DEF k1
<1>2. DOMAIN k2 = Fields
  BY <1>1 DEF Fields
<1> HIDE DEF k2
<1>3. DOMAIN k3 = Fields /\ k3.runways = r
  BY <1>2 DEF Fields
<1> HIDE DEF k3
<1>4. DOMAIN k4 = Fields /\ k4.runways = r /\ k4.frequencies = f
  BY <1>3 DEF Fields
<1> HIDE DEF k4
<1>5. DOMAIN k5 = Fields /\ k5.runways = r /\ k5.frequencies = f /\ k5.procedures = q
  BY <1>4 DEF Fields
<1> HIDE DEF k5
<1>6. DOMAIN k6 = Fields /\ k6.runways = r /\ k6.frequencies = f /\ k6.procedures = q /\ k6.lists = l
  BY <1>5 DEF Fields
<1> HIDE DEF k6
<1>7. /\ k7.runways = r /\ k7.frequencies = f /\ k7.procedures = q /\ k7.lists = l /\ k7.legs = g
  BY <1>6 DEF Fields
<1> HIDE DEF k7
<1> QED BY <1>0, <1>7 DEF Stored, r, f, q, l, g

-----------------------------------------------------------------------------
\* The decoder has put together what arrived of the airport that is there, and
\* nothing of one fetch is left for the next.
CallParts == {"at", "attempt", "arrived", "prior"}
Gathered ==
  /\ DOMAIN call = CallParts
  /\ world \in Versions /\ call.arrived \subseteq DOMAIN world /\ Timely(world, call.arrived)
  /\ call.at = "idle" => decoder = Emptied /\ call.arrived = {}
  /\ Good(world, call.arrived, decoder)

\* Before the first fetch that stores something there is nothing.
AsFetched ==
  /\ history.whole \in Nat
  /\ history.whole = 0 => known.procedures = Nothing /\ known.legs = Nothing
  /\ TreeIsTheAirports

LEMMA NothingGathered ==
  ASSUME world' \in Versions, decoder' = Emptied, call'.arrived = {}, DOMAIN call' = CallParts
  PROVE  Gathered'
<1>1. Timely(world', {})
  BY DEF Timely
<1>2. Good(world', {}, Emptied)
  BY EmptiedIsGood
<1>3. call'.arrived = {} /\ decoder' = Emptied
  OBVIOUS
<1>4. Timely(world', call'.arrived) /\ Good(world', call'.arrived, decoder')
  BY <1>1, <1>2, <1>3, Zenon
<1> QED BY <1>3, <1>4 DEF Gathered

LEMMA RecordGathered ==
  ASSUME Gathered, NEW id \in Ids, NEW readable \in BOOLEAN, RecordArrives(id, readable), DetailTypes,
         call'.arrived = call.arrived \cup {id}, call'.at = "out", DOMAIN call' = CallParts
  PROVE  Gathered'
<1> DEFINE A == call.arrived
<1>1. /\ id \in DOMAIN world \ A /\ Turn(id)
      /\ decoder' = Accept(decoder, id, world[id], readable) /\ UNCHANGED world
  BY DEF RecordArrives
<1>2. ASSUME NEW other \in DOMAIN world
      PROVE  /\ other = world[id].up => other \in A
             /\ world[other].type = world[id].type /\ world[other].up = world[id].up /\ other < id
                  /\ world[id].type \in LegTypes \cup {"THRESHOLD"} => other \in A
  BY <1>1 DEF Turn
<1>3. world[id].up # id
  BY <1>1, <1>2
<1>4. Timely(world, A \cup {id})
  <2> SUFFICES ASSUME NEW a \in A \cup {id}, NEW other \in DOMAIN world
               PROVE  /\ other = world[a].up => other \in A \cup {id}
                      /\ world[other].type = world[a].type /\ world[other].up = world[a].up /\ other < a
                           /\ world[a].type \in LegTypes \cup {"THRESHOLD"} => other \in A \cup {id}
    BY DEF Timely
  <2>1. CASE a = id
    BY <2>1, <1>2
  <2>2. CASE a \in A
    BY <2>2 DEF Gathered, Timely
  <2> QED BY <2>1, <2>2
<1>5. Arriving(world, A, id) /\ Good(world, A, decoder)
  BY <1>1, <1>3, <1>4 DEF Gathered, Arriving
<1>6. Good(world, A \cup {id}, Accept(decoder, id, world[id], readable))
  BY <1>5, AcceptIsGood
<1>7. world' \in Versions /\ A \cup {id} \subseteq DOMAIN world'
  BY <1>1 DEF Gathered
<1> DEFINE B == A \cup {id}
<1>8. call'.arrived = B /\ Timely(world', B) /\ Good(world', B, decoder') /\ B \subseteq DOMAIN world'
  <2>1. world' = world /\ decoder' = Accept(decoder, id, world[id], readable) /\ call'.arrived = A \cup {id}
    BY <1>1
  <2> QED BY <2>1, <1>4, <1>6, <1>7, Zenon
<1> HIDE DEF A, B
<1>9. call'.at # "idle"
  OBVIOUS
<1> QED BY <1>7, <1>8, <1>9 DEF Gathered

LEMMA GatheredStep ==
  ASSUME DetailTypes, Gathered, [NextDetail]_detailVars
  PROVE  Gathered'
<1>0. world \in Versions
  BY DEF Gathered
<1>1. CASE FetchDetail
  <2>1. /\ call' = [at |-> "out", attempt |-> 1, arrived |-> {}, prior |-> known.state] /\ call.at = "idle"
        /\ UNCHANGED <<world, decoder>>
    BY <1>1 DEF FetchDetail
  <2>2. call'.arrived = {} /\ DOMAIN call' = CallParts
    <3> DEFINE none == {}
    <3>1. call' = [at |-> "out", attempt |-> 1, arrived |-> none, prior |-> known.state]
      BY <2>1
    <3> HIDE DEF none
    <3>2. call'.arrived = none /\ DOMAIN call' = CallParts
      BY <3>1 DEF CallParts
    <3> QED BY <3>2 DEF none
  <2> QED BY <1>0, <2>1, <2>2, NothingGathered DEF Gathered
<1>2. ASSUME NEW id \in Ids, NEW readable \in BOOLEAN, RecordArrives(id, readable) PROVE Gathered'
  <2>1. call' = [call EXCEPT !.arrived = call.arrived \cup {id}] /\ call.at = "out"
    BY <1>2 DEF RecordArrives
  <2>2. call'.at = "out" /\ call'.arrived = call.arrived \cup {id} /\ DOMAIN call' = CallParts
    <3> DEFINE all == call.arrived \cup {id}
    <3>0. DOMAIN call = {"at", "attempt", "arrived", "prior"}
      BY DEF Gathered, CallParts
    <3>1. call' = [call EXCEPT !.arrived = all]
      BY <2>1
    <3> HIDE DEF all
    <3>2. call'.at = "out" /\ call'.arrived = all /\ DOMAIN call' = CallParts
      BY <2>1, <3>0, <3>1 DEF CallParts
    <3> QED BY <3>2 DEF all
  <2> QED BY <1>2, <2>2, RecordGathered
<1>3. CASE RetryDetail
  <2>1. call' = [call EXCEPT !.attempt = 2, !.arrived = {}] /\ UNCHANGED world /\ decoder' = Emptied
    BY <1>3 DEF RetryDetail
  <2>2. call'.arrived = {} /\ DOMAIN call' = CallParts
    <3> DEFINE none == {}
               call1 == [call EXCEPT !.attempt = 2]
    <3>0. DOMAIN call = {"at", "attempt", "arrived", "prior"}
      BY DEF Gathered, CallParts
    <3>1. DOMAIN call1 = {"at", "attempt", "arrived", "prior"}
      BY <3>0
    <3>2. call' = [call1 EXCEPT !.arrived = none]
      BY <2>1, <3>0
    <3> HIDE DEF none, call1
    <3>3. call'.arrived = none /\ DOMAIN call' = CallParts
      BY <3>1, <3>2 DEF CallParts
    <3> QED BY <3>3 DEF none
  <2> QED BY <1>0, <2>1, <2>2, NothingGathered
<1>4. CASE DetailArrives \/ DetailAborted \/ DetailSilent \/ \E code \in {1, 2} : DetailRefused(code)
  <2>1. FetchOver /\ UNCHANGED world
    <3>1. \A after : EndsWith(after) => FetchOver /\ UNCHANGED world
      BY DEF EndsWith
    <3>2. CASE DetailArrives
      BY <3>1, <3>2, Zenon DEF DetailArrives
    <3>3. CASE DetailAborted \/ DetailSilent
      BY <3>1, <3>3, Zenon DEF DetailAborted, DetailSilent
    <3>4. ASSUME NEW code \in {1, 2}, DetailRefused(code) PROVE FetchOver /\ UNCHANGED world
      BY <3>1, <3>4, Zenon DEF DetailRefused
    <3> QED BY <1>4, <3>2, <3>3, <3>4
  <2>2. decoder' = Emptied /\ call'.arrived = {} /\ DOMAIN call' = CallParts
    <3> DEFINE none == {}
    <3>1. decoder' = Emptied /\ call' = [at |-> "idle", attempt |-> 0, arrived |-> none, prior |-> "index"]
      BY <2>1 DEF FetchOver, Unasked
    <3> HIDE DEF none
    <3>2. call'.arrived = none /\ DOMAIN call' = CallParts
      BY <3>1 DEF CallParts
    <3> QED BY <3>1, <3>2 DEF none
  <2> QED BY <1>0, <2>1, <2>2, NothingGathered
<1>5. ASSUME NEW v \in Versions, Update(v) PROVE Gathered'
  BY <1>5, NothingGathered DEF Update, Gathered
<1>6. CASE UNCHANGED detailVars
  BY <1>6 DEF detailVars, Gathered
<1> QED BY <1>1, <1>2, <1>3, <1>4, <1>5, <1>6 DEF NextDetail

-----------------------------------------------------------------------------
(* Every step keeps it.                                                    *)

LEMMA WholeIsCounted ==
  ASSUME NEW h, DOMAIN h = Parts, NEW x
  PROVE  Spent(h, x).whole = h.whole /\ Losing(h).whole = h.whole /\ Seeing(h, x).whole = h.whole
BY DEF Spent, Losing, Seeing, Parts

LEMMA FetchedIsCounted ==
  ASSUME NEW h, DOMAIN h = Parts, NEW y, NEW v, NEW z
  PROVE  Fetching(h, y, v, z).whole = z
<1> DEFINE h1 == [h EXCEPT !.fetched = y]
           h2 == [h1 EXCEPT !.last = v]
<1>1. Fetching(h, y, v, z) = [h2 EXCEPT !.whole = z]
  BY DEF Fetching
<1>2. DOMAIN h1 = Parts
  BY DEF Parts
<1> HIDE DEF h1
<1>3. DOMAIN h2 = Parts
  BY <1>2 DEF Parts
<1> HIDE DEF h2
<1> QED BY <1>1, <1>3 DEF Parts

LEMMA KeptSame ==
  ASSUME AsFetched, SameRows(known', known), history'.last = history.last, history'.whole = history.whole
  PROVE  AsFetched'
<1>1. known'.procedures = known.procedures /\ known'.legs = known.legs
  BY DEF SameRows
<1>2. TreeIsTheAirports'
  <2> SUFFICES ASSUME history'.last # Nothing
               PROVE  /\ HoldsTree(known', history'.last)
                      /\ history'.whole = 1 => HoldsNoMore(known', history'.last)
    BY DEF TreeIsTheAirports
  <2>1. /\ HoldsTree(known, history.last)
        /\ history.whole = 1 => HoldsNoMore(known, history.last)
    BY DEF AsFetched, TreeIsTheAirports
  <2> QED BY <2>1, HoldsSame
<1> QED BY <1>1, <1>2 DEF AsFetched

\* A fetch that is over and stored nothing of the airport.
LEMMA KeptEnd ==
  ASSUME DetailTypes, AsFetched, NEW after, EndsWith(after), SameRows(after, known)
  PROVE  AsFetched'
<1>1. CASE known' = after /\ UNCHANGED history
  BY <1>1, KeptSame
<1>2. CASE history' = [history EXCEPT !.lost = @ + 1] /\ UNCHANGED known
  <2>1. history' = Losing(history)
    BY <1>2 DEF Losing
  <2>2. history'.last = history.last /\ history'.whole = history.whole
    BY <2>1, LosingIs, WholeIsCounted DEF DetailTypes, HistoryAs
  <2>3. SameRows(known', known)
    BY <1>2 DEF SameRows
  <2> QED BY <2>2, <2>3, KeptSame
<1> QED BY <1>1, <1>2 DEF EndsWith

LEMMA KeptRestored == ASSUME DetailTypes, AsFetched, EndsWith(Restored) PROVE AsFetched'
<1>1. SameRows(Restored, known)
  BY InStateSame DEF Restored, DetailTypes, InState
<1> QED BY <1>1, KeptEnd

LEMMA KeptArrives == ASSUME DetailTypes, Gathered, AsFetched, DetailArrives PROVE AsFetched'
<1>1. call.arrived = DOMAIN world
  BY DEF DetailArrives
<1>2. CASE EndsWith(Restored)
  BY <1>2, KeptRestored
<1>3. CASE /\ ~Undecoded(decoder) /\ known' = WriteDetail(known, decoder)
           /\ history' = [history EXCEPT !.fetched = @ \cup {world}, !.last = world, !.whole = @ + 1]
           /\ UNCHANGED world
  <2>1. decoder.missed = 0 /\ Clashes(decoder) = {} /\ Good(world, DOMAIN world, decoder) /\ world \in Versions
    BY <1>1, <1>3 DEF Undecoded, Gathered, Good, IsDecoder
  <2>2. IsWhole(world, decoder)
    BY <2>1 DEF Good, IsWhole
  <2>3. Distinct(decoder)
    BY <2>1, <2>2, NoClash
  <2>4. Stored(known', known, decoder)
    BY <1>3, WrittenRows DEF DetailTypes
  <2>5. history'.last = world /\ history'.whole = history.whole + 1
    <3> DEFINE all == history.fetched \cup {world}
               more == history.whole + 1
    <3>1. history' = Fetching(history, all, world, more)
      BY <1>3 DEF Fetching
    <3> HIDE DEF all, more
    <3>2. history'.last = world /\ history'.whole = more
      BY <3>1, FetchingIs, FetchedIsCounted DEF DetailTypes, HistoryAs
    <3> QED BY <3>2 DEF more
  <2>6. HoldsTree(known', world)
    BY <2>2, <2>3, <2>4, HoldsTheTree
  <2>7. history.whole \in Nat
    BY DEF AsFetched
  <2>8. history'.whole = 1 => HoldsNoMore(known', world)
    <3> SUFFICES ASSUME history'.whole = 1 PROVE HoldsNoMore(known', world)
      OBVIOUS
    <3>1. known.procedures = Nothing /\ known.legs = Nothing
      BY <2>5, <2>7 DEF AsFetched
    <3> QED BY <2>2, <2>3, <2>4, <3>1, HoldsNothingElse
  <2>9. TreeIsTheAirports'
    BY <2>5, <2>6, <2>8 DEF TreeIsTheAirports
  <2>10. history'.whole \in Nat /\ history'.whole # 0
    BY <2>5, <2>7
  <2> QED BY <2>9, <2>10 DEF AsFetched
<1> QED BY <1>2, <1>3 DEF DetailArrives

LEMMA KeptStep ==
  ASSUME DetailTypes, Gathered, AsFetched, [NextDetail]_detailVars
  PROVE  AsFetched'
<1>0. DOMAIN known = Fields /\ DOMAIN history = Parts
  BY DEF DetailTypes
<1>1. CASE FetchDetail
  <2>1. known' = InState(known, "pending") /\ history' = Spent(history, history.details + 1)
    BY <1>1 DEF FetchDetail, InState, Spent
  <2>2. SameRows(known', known)
    BY <1>0, <2>1, InStateSame
  <2>3. history'.last = history.last /\ history'.whole = history.whole
    BY <1>0, <2>1, SpentIs, WholeIsCounted DEF HistoryAs
  <2> QED BY <2>2, <2>3, KeptSame
<1>2. CASE RetryDetail \/ (\E id \in Ids, readable \in BOOLEAN : RecordArrives(id, readable)) \/ UNCHANGED detailVars
  <2>1. UNCHANGED <<known, history>>
    BY <1>2 DEF RetryDetail, RecordArrives, detailVars
  <2>2. SameRows(known', known)
    BY <2>1 DEF SameRows
  <2> QED BY <2>1, <2>2, KeptSame
<1>3. CASE DetailArrives
  BY <1>3, KeptArrives
<1>4. CASE DetailAborted
  BY <1>4, KeptRestored DEF DetailAborted
<1>5. CASE DetailSilent
  <2> DEFINE absent == known.absent \cup {"silent"}
             after == WithAbsence(known, "absent", absent)
  <2>1. EndsWith(after)
    BY <1>5 DEF DetailSilent, WithAbsence
  <2>2. SameRows(after, known)
    <3> HIDE DEF absent
    <3> QED BY <1>0, WithAbsenceSame
  <2> HIDE DEF after, absent
  <2> QED BY <2>1, <2>2, KeptEnd
<1>6. ASSUME NEW code \in {1, 2}, DetailRefused(code) PROVE AsFetched'
  <2> DEFINE absent == known.absent \cup {"exception"}
             gone == WithAbsence(known, "absent", absent)
             failed == InState(known, "failed")
  <2>1. EndsWith(gone) \/ EndsWith(failed)
    BY <1>6 DEF DetailRefused, IsMissingFacility, InState, WithAbsence
  <2>2. SameRows(gone, known) /\ SameRows(failed, known)
    <3> HIDE DEF absent
    <3> QED BY <1>0, InStateSame, WithAbsenceSame
  <2> HIDE DEF gone, failed, absent
  <2> QED BY <2>1, <2>2, KeptEnd
<1>7. ASSUME NEW v \in Versions, Update(v) PROVE AsFetched'
  <2>1. history' = Seeing(history, history.seen \cup {v}) /\ UNCHANGED known
    BY <1>7 DEF Update, Seeing
  <2>2. history'.last = history.last /\ history'.whole = history.whole
    <3> DEFINE all == history.seen \cup {v}
    <3>1. history' = Seeing(history, all)
      BY <2>1
    <3> HIDE DEF all
    <3> QED BY <1>0, <3>1, SeeingIs, WholeIsCounted DEF HistoryAs
  <2>3. SameRows(known', known)
    BY <2>1 DEF SameRows
  <2> QED BY <2>2, <2>3, KeptSame
<1> QED BY <1>1, <1>2, <1>3, <1>4, <1>5, <1>6, <1>7 DEF NextDetail

LEMMA KeptInit == InitDetail => Gathered /\ AsFetched
<1> SUFFICES ASSUME InitDetail PROVE Gathered /\ AsFetched
  OBVIOUS
<1> DEFINE none == {}
           at0 == Nothing
<1>1. /\ known = [state |-> "index", place |-> Absent, runways |-> at0, frequencies |-> none,
                  procedures |-> at0, lists |-> at0, legs |-> at0, absent |-> none]
      /\ history = [seen |-> {world}, fetched |-> none, last |-> at0, whole |-> 0, details |-> 0, lost |-> 0]
      /\ call = [at |-> "idle", attempt |-> 0, arrived |-> none, prior |-> "index"]
      /\ none = {} /\ at0 = Nothing /\ world \in Versions /\ decoder = Emptied
  BY DEF InitDetail, Unasked
<1> HIDE DEF none, at0
<1>2. /\ history.whole = 0 /\ history.last = at0 /\ known.procedures = at0 /\ known.legs = at0
      /\ call.arrived = none /\ DOMAIN call = CallParts
  BY <1>1 DEF CallParts
<1>3. Timely(world, {}) /\ Good(world, {}, Emptied)
  BY EmptiedIsGood DEF Timely
<1>4. Timely(world, call.arrived) /\ Good(world, call.arrived, decoder)
  BY <1>1, <1>2, <1>3, Zenon
<1>5. Gathered
  BY <1>1, <1>2, <1>4 DEF Gathered
<1>6. AsFetched
  BY <1>1, <1>2 DEF AsFetched, TreeIsTheAirports
<1> QED BY <1>5, <1>6

(* For any versions of an airport whose records are as VersionsAssumption has them, in any
   order of arrival the simulator may choose, with any layouts misread, attempts repeated,
   fetches cut short and writes lost: what the store holds of an airport is the airport as
   it was last fetched whole, every procedure under a key of its own that its columns
   decide, with its lists and their legs in order, its runways and their ends; after the
   first fetch it holds nothing else; and its state is what the fetches showed. *)
THEOREM AirportIsAlwaysAsFetched == SpecDetail => []AirportIsAsFetched
<1> DEFINE Inv == DetailTypes /\ Earned /\ Gathered /\ AsFetched
<1>1. InitDetail => Inv
  BY EarnedInit, KeptInit
<1>2. Inv /\ [NextDetail]_detailVars => Inv'
  BY EarnedStep, GatheredStep, KeptStep
<1>3. Inv => AirportIsAsFetched
  BY DEF Earned, AsFetched, AirportIsAsFetched
<1> QED BY <1>1, <1>2, <1>3, PTL DEF SpecDetail
=============================================================================
