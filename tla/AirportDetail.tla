---------------------------- MODULE AirportDetail ----------------------------
(***************************************************************************)
(* The detail of an airport (sidecar/src/navdata-detail.ts): the decoder   *)
(* that puts the simulator's stream of records together as runways and     *)
(* procedures with their leg lists, the keys it gives them at the end, and *)
(* the fetch that stores the result as one transaction.                    *)
(*                                                                         *)
(* A record is [type, up, name, values, legs]: the record it hangs off, the*)
(* part of its name that goes into keys, the columns the model tells apart,*)
(* and the leg counts it declares.  Records come in any order in which each*)
(* follows the one it hangs off, the legs of a list theirs and the         *)
(* thresholds of a runway theirs.                                          *)
(***************************************************************************)
EXTENDS Integers, FiniteSets, Sequences

CONSTANTS
  Versions,     \* what the simulator may hold under the ident,
  Updates,      \* and which of it may follow which when its data is updated
  Unreadable,   \* types of record whose layout this build may get wrong
  MaxDetails,   \* bounds: on the fetches,
  MaxUnread,    \* on the records that cannot be read before another one can,
  MaxLost       \* and on the writes of the store that fail

ASSUME DetailAssumption ==
  /\ Updates \subseteq Versions \X Versions
  /\ {MaxDetails, MaxUnread, MaxLost} \subseteq Nat

Absent == -1                  \* a value a record or a row does not have
Ids == UNION {DOMAIN v : v \in Versions}
Procedures == {"APPROACH", "DEPARTURE", "ARRIVAL"}
Transitions == {"approach", "runway", "enroute"}
LegTypes == {"LEG", "FINAL_LEG", "MISSED_LEG"}
Types == {"AIRPORT", "RUNWAY", "THRESHOLD", "FREQUENCY"} \cup Procedures \cup Transitions \cup LegTypes
Roles == {"common", "final", "missed"}

\* What the simulator may hold: records of the types asked for, each type with its
\* columns, each hanging off another of them or off nothing, a procedure declaring
\* only legs of its kind.  A runway that is sent twice is the same row again, with
\* no thresholds to lose.
ASSUME VersionsAssumption ==
  \A v \in Versions :
    /\ IsFiniteSet(DOMAIN v) /\ DOMAIN v \subseteq Nat \ {0}
    /\ \A id \in DOMAIN v :
         /\ v[id].type \in Types /\ v[id].up \in DOMAIN v \cup {0}
         /\ v[id].values \in Seq(Int) /\ v[id].legs \in [Roles -> Int]
         /\ v[id].type = "APPROACH" => v[id].legs["common"] <= 0
         /\ v[id].type \in {"DEPARTURE", "ARRIVAL"} => v[id].legs["final"] <= 0 /\ v[id].legs["missed"] <= 0
    /\ \A a \in DOMAIN v, b \in DOMAIN v :
         v[a].type = v[b].type => Len(v[a].values) = Len(v[b].values)
    /\ \A a \in DOMAIN v, b \in DOMAIN v :
         a # b /\ v[a].type = "RUNWAY" /\ v[b].type = "RUNWAY" /\ v[a].name = v[b].name =>
           /\ v[a].values = v[b].values
           /\ ~\E s \in DOMAIN v, t \in DOMAIN v :
                 /\ v[s].type = "THRESHOLD" /\ v[s].up = a
                 /\ v[t].type = "THRESHOLD" /\ v[t].up = b

VARIABLES
  world,    \* what the simulator holds now
  decoder,  \* what the decoder has put together
  call,     \* the fetch: its stage, its attempt, what arrived in it
  known,    \* what the store holds of the airport
  history   \* the versions held, those fetched whole, and how much of each bound is used

detailVars == <<world, decoder, call, known, history>>

Nothing == <<>>
Unplaced == [kind |-> "other", key |-> Absent, ends |-> 0, draft |-> 0, list |-> 0]
Emptied == [nodes |-> [i \in Ids \cup {0} |-> Unplaced], place |-> Absent, runways |-> Nothing,
            frequencies |-> {}, drafts |-> <<>>, missed |-> 0]
Unasked == [at |-> "idle", attempt |-> 0, arrived |-> {}, prior |-> "index"]

InitDetail ==
  /\ world \in Versions
  /\ decoder = Emptied /\ call = Unasked
  /\ known = [state |-> "index", place |-> Absent, runways |-> Nothing, frequencies |-> {},
              procedures |-> Nothing, lists |-> Nothing, legs |-> Nothing, absent |-> {}]
  /\ history = [seen |-> {world}, fetched |-> {}, last |-> Nothing, whole |-> 0, details |-> 0, lost |-> 0]

(***************************************************************************)
(* The decoder.                                                            *)
(***************************************************************************)
Missed(dec) == [dec EXCEPT !.missed = @ + 1]

AcceptAirport(dec, r) == [dec EXCEPT !.place = r.values[1]]

\* A second runway of one key is dropped; what hangs off it is not.
Claimed(runways, key, row) ==
  [k \in DOMAIN runways \cup {key} |-> IF k \in DOMAIN runways THEN runways[k] ELSE row]

AcceptRunway(dec, id, r) ==
  [dec EXCEPT
     !.runways = Claimed(@, r.name, [values |-> r.values, ends |-> <<Absent, Absent>>]),
     !.nodes[id] = [Unplaced EXCEPT !.kind = "runway", !.key = r.name]]

\* The first threshold under a runway is its primary end, the second the other.
AcceptThreshold(dec, r, readable) ==
  LET up == dec.nodes[r.up]
      end == up.ends + 1
      counted == [dec EXCEPT !.nodes[r.up].ends = end]
  IN IF up.kind # "runway" THEN Missed(dec)
     ELSE IF ~readable \/ end > 2 THEN Missed(counted)
     ELSE [counted EXCEPT !.runways[up.key].ends[end] = r.values[1]]

AcceptFrequency(dec, r) == [dec EXCEPT !.frequencies = @ \cup {r.name}]

WithList(draft, role, name, n) ==
  [draft EXCEPT !.lists = Append(@, [role |-> role, name |-> name, n |-> n, legs |-> <<>>])]

\* The list of legs that hang off the procedure itself, which has no name.
Unnamed == "unnamed"
WithOwnList(draft, role, n) ==
  [WithList(draft, role, Unnamed, n) EXCEPT !.own[role] = Len(draft.lists) + 1]

Declared(draft, role, n) == IF n > 0 THEN WithOwnList(draft, role, n) ELSE draft

WithLeg(draft, k, leg) == [draft EXCEPT !.lists[k].legs = Append(@, leg)]

\* A list that was not declared is there from its first leg.
HavingOwnList(draft, role) ==
  IF draft.own[role] = 0 THEN WithOwnList(draft, role, Absent) ELSE draft

AcceptProcedure(dec, id, r) ==
  LET draft == [base |-> <<r.type, r.name>>, values |-> r.values, lists |-> <<>>,
                own |-> [role \in Roles |-> 0]]
      whole == IF r.type = "APPROACH"
               THEN Declared(Declared(draft, "final", r.legs.final), "missed", r.legs.missed)
               ELSE Declared(draft, "common", r.legs.common)
  IN [dec EXCEPT !.drafts = Append(@, whole),
                 !.nodes[id] = [Unplaced EXCEPT !.kind = "procedure",
                                                !.draft = Len(dec.drafts) + 1]]

AcceptTransition(dec, id, r) ==
  LET i == dec.nodes[r.up].draft IN
  IF dec.nodes[r.up].kind # "procedure" THEN Missed(dec)
  ELSE [dec EXCEPT !.drafts[i] = WithList(@, r.type, r.name, r.legs.common),
                   !.nodes[id] = [Unplaced EXCEPT !.kind = "transition", !.draft = i,
                                                  !.list = Len(dec.drafts[i].lists) + 1]]

OwnRole(r) == CASE r.type = "FINAL_LEG" -> "final"
                [] r.type = "MISSED_LEG" -> "missed"
                [] OTHER -> "common"

AcceptLeg(dec, r) ==
  LET up == dec.nodes[r.up]
      role == OwnRole(r)
      draft == HavingOwnList(dec.drafts[up.draft], role)
  IN CASE up.kind = "transition" /\ r.type = "LEG" ->
            [dec EXCEPT !.drafts[up.draft] = WithLeg(@, up.list, r.values)]
       [] up.kind = "procedure" ->
            [dec EXCEPT !.drafts[up.draft] = WithLeg(draft, draft.own[role], r.values)]
       [] OTHER -> Missed(dec)

Accept(dec, id, r, readable) ==
  CASE r.type = "THRESHOLD" -> AcceptThreshold(dec, r, readable)
    [] r.type # "THRESHOLD" /\ ~readable -> Missed(dec)
    [] OTHER ->
         CASE r.type = "AIRPORT" -> AcceptAirport(dec, r)
           [] r.type = "RUNWAY" -> AcceptRunway(dec, id, r)
           [] r.type = "FREQUENCY" -> AcceptFrequency(dec, r)
           [] r.type \in Procedures -> AcceptProcedure(dec, id, r)
           [] r.type \in Transitions -> AcceptTransition(dec, id, r)
           [] OTHER -> AcceptLeg(dec, r)

(***************************************************************************)
(* The keys.                                                               *)
(***************************************************************************)
\* One level of the order: -1, 0 or 1; what is absent comes last.
ByValue(a, b) ==
  IF a = b THEN 0
  ELSE IF a = Absent \/ (b # Absent /\ a > b) THEN 1 ELSE -1

\* Mutant: procedures take their keys as they arrive.
ArrivesFirst(dec, i, j) == i < j

\* The first column in which the two differ decides; arrival only if none does.
ComesFirst(dec, i, j) ==
  LET level(k) == ByValue(dec.drafts[i].values[k], dec.drafts[j].values[k])
      differing == {k \in DOMAIN dec.drafts[i].values : level(k) # 0}
  IN IF differing = {} THEN i < j
     ELSE level(CHOOSE k \in differing : \A l \in differing : k <= l) = -1

KeyOf(dec, i) ==
  LET ahead == {j \in DOMAIN dec.drafts \ {i} :
                  dec.drafts[j].base = dec.drafts[i].base /\ ComesFirst(dec, j, i)}
  IN <<dec.drafts[i].base, Cardinality(ahead) + 1>>

\* Two lists of one procedure with one key: the second has no place.
Clashes(dec) ==
  UNION {{<<i, k>> : k \in {n \in DOMAIN dec.drafts[i].lists :
            \E l \in 1..(n - 1) : /\ dec.drafts[i].lists[l].role = dec.drafts[i].lists[n].role
                                  /\ dec.drafts[i].lists[l].name = dec.drafts[i].lists[n].name}} :
         i \in DOMAIN dec.drafts}

\* Some record was not read or not put in its place, or some list has none.
Undecoded(dec) == dec.missed > 0 \/ Clashes(dec) # {}

(***************************************************************************)
(* The rows, and the transaction that merges them into the store.          *)
(***************************************************************************)
ListsOf(dec) == UNION {{<<i, k>> : k \in DOMAIN dec.drafts[i].lists} : i \in DOMAIN dec.drafts}

ListKey(dec, i, k) == <<KeyOf(dec, i), dec.drafts[i].lists[k].role, dec.drafts[i].lists[k].name>>

ProcedureRows(dec) ==
  [key \in {KeyOf(dec, i) : i \in DOMAIN dec.drafts} |->
     dec.drafts[CHOOSE i \in DOMAIN dec.drafts : KeyOf(dec, i) = key].values]

ListAt(dec, key) ==
  LET l == CHOOSE l \in ListsOf(dec) : ListKey(dec, l[1], l[2]) = key
  IN dec.drafts[l[1]].lists[l[2]]

ListKeys(dec) == {ListKey(dec, l[1], l[2]) : l \in ListsOf(dec)}

ListRows(dec) == [key \in ListKeys(dec) |-> <<ListAt(dec, key).n>>]

LegRows(dec) ==
  [row \in UNION {{<<key, seq>> : seq \in DOMAIN ListAt(dec, key).legs} : key \in ListKeys(dec)} |->
     ListAt(dec, row[1]).legs[row[2]]]

\* A value that is absent leaves the one that is stored.
MergedValues(new, old) == [k \in DOMAIN new |-> IF new[k] = Absent THEN old[k] ELSE new[k]]

MergedRows(new, old) ==
  [key \in DOMAIN new \cup DOMAIN old |->
     IF key \notin DOMAIN new THEN old[key]
     ELSE IF key \in DOMAIN old THEN MergedValues(new[key], old[key]) ELSE new[key]]

RunwayRows(dec) == [key \in DOMAIN dec.runways |-> dec.runways[key].values \o dec.runways[key].ends]

WriteDetail(store, dec) ==
  [store EXCEPT
     !.state = "detail",
     !.place = IF dec.place = Absent THEN @ ELSE dec.place,
     !.runways = MergedRows(RunwayRows(dec), @),
     !.frequencies = @ \cup dec.frequencies,
     !.procedures = MergedRows(ProcedureRows(dec), @),
     !.lists = MergedRows(ListRows(dec), @),
     !.legs = MergedRows(LegRows(dec), @)]

(***************************************************************************)
(* The fetch.                                                              *)
(***************************************************************************)
\* The mark goes out before the request; a store that does not take it throws.
FetchDetail ==
  /\ call.at = "idle" /\ history.details < MaxDetails
  /\ history' = [history EXCEPT !.details = @ + 1]
  /\ call' = [at |-> "out", attempt |-> 1, arrived |-> {}, prior |-> known.state]
  /\ known' = [known EXCEPT !.state = "pending"]
  /\ UNCHANGED <<world, decoder>>

\* Siblings whose order means something come in it.
Turn(id) ==
  \A other \in DOMAIN world :
    \/ world[other].type = world[id].type /\ world[other].up = world[id].up /\ other < id
         /\ world[id].type \in LegTypes \cup {"THRESHOLD"}
    \/ other = world[id].up
    => other \in call.arrived

RecordArrives(id, readable) ==
  /\ call.at = "out" /\ id \in DOMAIN world \ call.arrived /\ Turn(id)
  /\ readable \/ (world[id].type \in Unreadable /\ decoder.missed < MaxUnread)
  /\ call' = [call EXCEPT !.arrived = @ \cup {id}]
  /\ decoder' = Accept(decoder, id, world[id], readable)
  /\ UNCHANGED <<world, known, history>>

\* Rows with no end: once more, with the decoder emptied.
RetryDetail ==
  /\ call.at = "out" /\ call.attempt = 1 /\ call.arrived # {}
  /\ call' = [call EXCEPT !.attempt = 2, !.arrived = {}]
  /\ decoder' = Emptied
  /\ UNCHANGED <<world, known, history>>

\* The next fetch makes a decoder of its own.
FetchOver == call' = Unasked /\ decoder' = Emptied

\* The fetch is over and the store took what was written, or nothing of it.
EndsWith(after) ==
  /\ FetchOver
  /\ \/ known' = after /\ UNCHANGED history
     \/ /\ history.lost < MaxLost
        /\ history' = [history EXCEPT !.lost = @ + 1]
        /\ UNCHANGED known
  /\ UNCHANGED world

Restored == [known EXCEPT !.state = call.prior]

\* The answer is whole.  A record that was not read, or a write that fails,
\* puts the state back and stores nothing.
DetailArrives ==
  /\ call.at = "out" /\ world # Nothing /\ call.arrived = DOMAIN world
  /\ IF Undecoded(decoder) THEN EndsWith(Restored)
     ELSE \/ /\ known' = WriteDetail(known, decoder)
             /\ FetchOver
             /\ history' = [history EXCEPT !.fetched = @ \cup {world}, !.last = world,
                                          !.whole = @ + 1]
             /\ UNCHANGED world
          \/ history.lost < MaxLost /\ EndsWith(Restored)

\* The link drops, the request cannot be sent, or the ident is ambiguous.
DetailAborted == call.at = "out" /\ EndsWith(Restored)

\* Mutant: a refusal of any kind is an absence.
MissingWhenRefused(code) == TRUE

\* Refused at once, for the reason a missing airport is refused for.
IsMissingFacility(code) == call.arrived = {} /\ code = 1

DetailRefused(code) ==
  /\ call.at = "out"
  \* Measured: what is there is not refused so.
  /\ call.arrived = {} /\ code = 1 => world = Nothing
  /\ EndsWith(IF IsMissingFacility(code)
              THEN [known EXCEPT !.state = "absent", !.absent = @ \cup {"exception"}]
              ELSE [known EXCEPT !.state = "failed"])

\* Silence, of the first attempt or of the second.
DetailSilent ==
  /\ call.at = "out" /\ call.arrived = {}
  /\ EndsWith([known EXCEPT !.state = "absent", !.absent = @ \cup {"silent"}])

\* An update of the simulator's data.
Update(v) ==
  /\ call.at = "idle" /\ <<world, v>> \in Updates
  /\ world' = v
  /\ history' = [history EXCEPT !.seen = @ \cup {v}]
  /\ UNCHANGED <<decoder, call, known>>

NextDetail ==
  \/ FetchDetail \/ RetryDetail \/ DetailArrives \/ DetailAborted \/ DetailSilent
  \/ \E id \in Ids, readable \in BOOLEAN : RecordArrives(id, readable)
  \/ \E code \in {1, 2} : DetailRefused(code)
  \/ \E v \in Versions : Update(v)

SpecDetail == InitDetail /\ [][NextDetail]_detailVars

(***************************************************************************)
(* Properties.                                                             *)
(***************************************************************************)
\* The airport's own account of what a fetch has to store.
ProceduresOf(v) == {id \in DOMAIN v : v[id].type \in Procedures}
BaseOf(v, p) == <<v[p].type, v[p].name>>
LegsOf(v) == {id \in DOMAIN v : v[id].type \in LegTypes}
LegsUnder(v, up, roles) == {id \in LegsOf(v) : v[id].up = up /\ OwnRole(v[id]) \in roles}
TransitionsOf(v, p) == {id \in DOMAIN v : v[id].up = p /\ v[id].type \in Transitions}
OwnLists(v, p) == {role \in Roles : v[p].legs[role] > 0 \/ LegsUnder(v, p, {role}) # {}}

\* Columns in order of weight, what is absent after everything else.
SortsBefore(a, b) ==
  \E k \in DOMAIN a : /\ \A l \in 1..(k - 1) : a[l] = b[l]
                      /\ a[k] # b[k] /\ a[k] # Absent /\ (b[k] = Absent \/ a[k] < b[k])

Agrees(row, values) == \A k \in DOMAIN values : values[k] # Absent => row[k] = values[k]

\* The rows at key are the legs of ids, one after the other.
HoldsLegs(store, v, key, ids) ==
  /\ key \in DOMAIN store.lists
  /\ \A id \in ids : LET seq == Cardinality({other \in ids : other <= id}) IN
       <<key, seq>> \in DOMAIN store.legs /\ Agrees(store.legs[<<key, seq>>], v[id].values)

HoldsProcedure(store, v, p, key) ==
  /\ key \in DOMAIN store.procedures /\ Agrees(store.procedures[key], v[p].values)
  /\ \A t \in TransitionsOf(v, p) : HoldsLegs(store, v, <<key, v[t].type, v[t].name>>, LegsUnder(v, t, Roles))
  /\ \A role \in OwnLists(v, p) : HoldsLegs(store, v, <<key, role, Unnamed>>, LegsUnder(v, p, {role}))

\* Every procedure under a key of its own, and where their columns differ it is
\* the columns that say which key.
HoldsProcedures(store, v) ==
  \E rank \in [ProceduresOf(v) -> 1..Cardinality(ProceduresOf(v))] :
    \A p \in ProceduresOf(v) :
      /\ HoldsProcedure(store, v, p, <<BaseOf(v, p), rank[p]>>)
      /\ \A q \in ProceduresOf(v) \ {p} : BaseOf(v, q) = BaseOf(v, p) =>
           rank[p] # rank[q] /\ (SortsBefore(v[p].values, v[q].values) => rank[p] < rank[q])

\* The column of the first or second threshold under a runway.
ThresholdsOf(v, id) == {t \in DOMAIN v : v[t].type = "THRESHOLD" /\ v[t].up = id}
EndOf(v, id, end) ==
  LET ends == ThresholdsOf(v, id)
      at == {t \in ends : Cardinality({s \in ends : s <= t}) = end}
  IN IF at = {} THEN Absent ELSE v[CHOOSE t \in at : TRUE].values[1]

HoldsRunways(store, v) ==
  \A id \in DOMAIN v : v[id].type = "RUNWAY" =>
    /\ v[id].name \in DOMAIN store.runways
    /\ Agrees(store.runways[v[id].name],
              v[id].values \o [end \in 1..2 |-> EndOf(v, id, end)])

Counted(f, ids) == Cardinality(DOMAIN f) = Cardinality(ids)

HoldsTree(store, v) ==
  /\ HoldsProcedures(store, v) /\ HoldsRunways(store, v)
  /\ \A id \in DOMAIN v : v[id].type = "FREQUENCY" => v[id].name \in store.frequencies

HoldsNoMore(store, v) == Counted(store.procedures, ProceduresOf(v)) /\ Counted(store.legs, LegsOf(v))

\* What is stored is the airport as it was last fetched whole, in whichever
\* order its records came and whatever was tried before: every procedure apart,
\* with all its lists and their legs in order, and under keys that do not follow
\* the order of arrival.  A fetch that ends in any other way leaves that as it
\* was, and the first stores nothing else.
TreeIsTheAirports ==
  history.last # Nothing =>
    HoldsTree(known, history.last) /\ (history.whole = 1 => HoldsNoMore(known, history.last))

\* The state of an airport is what its fetches showed: it has its detail only
\* if that is stored, nothing is left pending unless a write was lost, and an
\* absence the simulator is said to have declared is one it did declare.
StateIsEarned ==
  /\ known.state = "detail" => history.last # Nothing
  /\ known.state = "pending" => call.at = "out" \/ history.lost > 0
  /\ "exception" \in known.absent => Nothing \in history.seen

\* Both together: what is stored of an airport is what its fetches brought.
AirportIsAsFetched == TreeIsTheAirports /\ StateIsEarned

\* Not so: the rows of the last version outlive an update that drops them.
NothingOutlivesAnUpdate == history.last # Nothing => HoldsNoMore(known, history.last)

\* Not so: a procedure that takes over a key keeps the columns it does not have.
RowsAreOfOneVersion ==
  history.last # Nothing /\ call.at = "idle" =>
    \A key \in DOMAIN known.procedures :
      \E v \in history.fetched : \E p \in ProceduresOf(v) : known.procedures[key] = v[p].values

\* Not so: the absence of an airport that was there and kept silent is recorded.
AbsenceIsAFact == known.absent # {} => Nothing \in history.seen
===============================================================================
