------------------------------- MODULE NavStore -------------------------------
(***************************************************************************)
(* The navdata store (sidecar/src/navdata-store.ts) and what writes to it: *)
(* the bulk airport pass (navdata-bulk.ts), the detail fetch of an airport *)
(* (navdata-detail.ts) and the writers of fixes and navaids.               *)
(*                                                                         *)
(* A row is known by the rev of the transaction that last changed it, 0    *)
(* when it is not there: two copies of a row are the same exactly when     *)
(* their revs are.  The store outlives the process; a crash loses the pass *)
(* and the fetch that were running.                                        *)
(***************************************************************************)
EXTENDS Integers, FiniteSets

CONSTANTS
  Airports, Fixes,        \* what the simulator may hold
  Servers,                \* the servers a config may name
  MaxPasses, MaxFetches,  \* bounds on bulk passes and on other writes,
  MaxSpent                \* and on passes, writes, faults, crashes and switches together

None == "none"

ASSUME StoreAssumption == {MaxPasses, MaxFetches, MaxSpent} \subseteq Nat
ASSUME WorldAssumption == IsFiniteSet(Airports) /\ IsFiniteSet(Fixes) /\ None \notin Airports

Keys == ({"airport"} \X Airports) \cup ({"waypoint"} \X Fixes) \cup ({"absent"} \X Airports)
Tables == {"airport", "waypoint", "absent"}
RowsOf(table) == {k \in Keys : k[1] = table}
Facilities == RowsOf("airport") \cup RowsOf("waypoint")

VARIABLES
  db,     \* the store: epoch, rev, row, detail, stamp, cursor
  pass,   \* the bulk pass
  fetch,  \* the detail fetch in flight
  spent   \* how much of each bound is used

storeVars == <<db, pass, fetch, spent>>

NoCursor == [epoch |-> 0, acked |-> 0, state |-> None]
NoPass == [on |-> FALSE, list |-> Airports, before |-> 0, todo |-> {}, rows |-> 0, matched |-> 0]
Ended == [NoPass EXCEPT !.list = pass.list]
NoFetch == [of |-> None, prior |-> None]

InitStore ==
  /\ db = [epoch |-> 1, rev |-> 0, row |-> [k \in Keys |-> 0],
           detail |-> [a \in Airports |-> None],
           stamp |-> FALSE, cursor |-> [s \in Servers |-> NoCursor]]
  /\ pass = NoPass /\ fetch = NoFetch
  /\ spent = [passes |-> 0, fetches |-> 0, faults |-> 0, crashes |-> 0, switches |-> 0]

Spend(what, bound) ==
  /\ spent[what] < bound
  /\ spent.passes + spent.fetches + spent.faults + spent.crashes + spent.switches < MaxSpent
  /\ spent' = [spent EXCEPT ![what] = @ + 1]

(***************************************************************************)
(* One transaction, one rev; one that changes no row bumps none.           *)
(***************************************************************************)
Write(s, keys) ==
  IF keys = {} THEN s
  ELSE [s EXCEPT !.rev = @ + 1,
                 !.row = [k \in Keys |-> IF k \in keys THEN s.rev + 1 ELSE @[k]]]

Stored(s) == {a \in Airports : s.row[<<"airport", a>>] # 0}

\* The cursor's row is no row of a snapshot, but its transaction is one.
SetCursor(s, server, cursor) == [s EXCEPT !.rev = @ + 1, !.cursor[server] = cursor]

Detail(s, a, state, alsoKeys) ==
  [Write(s, {<<"airport", a>>} \cup alsoKeys) EXCEPT !.detail[a] = state]

\* A new epoch wipes the absences and leaves every other row and the rev.
MintEpoch(s) ==
  [s EXCEPT !.epoch = @ + 1,
            !.row = [k \in Keys |-> IF k \in RowsOf("absent") THEN 0 ELSE @[k]]]

(***************************************************************************)
(* The bulk pass.                                                          *)
(***************************************************************************)
\* Mutant: a pass that begins leaves the stamp of the last.
PassBeginsStamped(list) ==
  /\ ~pass.on /\ fetch = NoFetch /\ Spend("passes", MaxPasses)
  /\ pass' = [on |-> TRUE, list |-> list, before |-> Cardinality(Stored(db)),
              todo |-> list, rows |-> 0, matched |-> 0]
  /\ UNCHANGED <<db, fetch>>

\* The list is the simulator's: scenery comes and goes between two passes.
PassBegins(list) ==
  /\ ~pass.on /\ fetch = NoFetch /\ Spend("passes", MaxPasses)
  /\ db' = [db EXCEPT !.stamp = FALSE]
  /\ pass' = [on |-> TRUE, list |-> list, before |-> Cardinality(Stored(db)),
              todo |-> list, rows |-> 0, matched |-> 0]
  /\ UNCHANGED fetch

\* A chunk of the list: rows that are new, and those of the others that moved.
ChunkWritten(chunk, moved) ==
  LET new == chunk \ Stored(db) IN
  /\ pass.on /\ chunk # {} /\ chunk \subseteq pass.todo /\ moved \subseteq chunk \ new
  /\ db' = [Write(db, {"airport"} \X (new \cup moved)) EXCEPT
              !.detail = [a \in Airports |-> IF a \in new THEN "index" ELSE @[a]]]
  /\ pass' = [pass EXCEPT !.todo = @ \ chunk, !.rows = @ + Cardinality(chunk),
                          !.matched = @ + Cardinality(chunk \ new)]
  /\ UNCHANGED <<fetch, spent>>

Missing == pass.before > 0 /\ pass.matched < pass.before

PassCompletes ==
  /\ pass.on /\ pass.todo = {}
  /\ pass' = Ended
  /\ db' = IF pass.rows = 0 THEN db
           ELSE [(IF Missing THEN MintEpoch(db) ELSE db) EXCEPT !.stamp = TRUE]
  /\ UNCHANGED <<fetch, spent>>

PassInterrupted ==
  /\ pass.on
  /\ pass' = Ended
  /\ UNCHANGED <<db, fetch, spent>>

(***************************************************************************)
(* The detail fetch of an airport, and the writers of fixes and navaids.   *)
(***************************************************************************)
FetchBegins(a) ==
  /\ ~pass.on /\ fetch = NoFetch /\ Spend("fetches", MaxFetches)
  /\ fetch' = [of |-> a, prior |-> IF a \in Stored(db) THEN db.detail[a] ELSE "index"]
  /\ db' = Detail(db, a, "pending", {})
  /\ UNCHANGED pass

\* A dropped link, an ambiguous ident and a record this build cannot read put
\* the state back as it was; only an absence records an absence.
FetchEnds(outcome) ==
  /\ fetch # NoFetch
  /\ outcome = "detail" => fetch.of \in pass.list
  /\ db' = CASE outcome = "restored" -> Detail(db, fetch.of, fetch.prior, {})
             [] outcome = "absent" -> Detail(db, fetch.of, "absent", {<<"absent", fetch.of>>})
             [] OTHER -> Detail(db, fetch.of, outcome, {})
  /\ fetch' = NoFetch
  /\ UNCHANGED <<pass, spent>>

FixWritten(f) ==
  /\ ~pass.on /\ fetch = NoFetch /\ Spend("fetches", MaxFetches)
  /\ db' = Write(db, {<<"waypoint", f>>})
  /\ UNCHANGED <<pass, fetch>>

\* Mutant: a store is opened as it was left.
ResetNothing(s) == s

\* Whatever a dead process left pending was never answered.
ResetPendingDetail(s) ==
  LET stale == {a \in Airports : s.detail[a] = "pending"}
  IN [Write(s, {"airport"} \X stale) EXCEPT
        !.detail = [a \in Airports |-> IF a \in stale THEN "index" ELSE @[a]]]

StoreSteps ==
  \/ \E list \in SUBSET Airports : PassBegins(list)
  \/ PassCompletes \/ PassInterrupted
  \/ \E chunk \in SUBSET Airports : \E moved \in {{}, chunk \cap Stored(db)} : ChunkWritten(chunk, moved)
  \/ \E a \in Airports : FetchBegins(a)
  \/ \E outcome \in {"detail", "absent", "failed", "restored"} : FetchEnds(outcome)
  \/ \E f \in Fixes : FixWritten(f)
================================================================================
