---------------------------- MODULE NavSync_proofs ----------------------------
(***************************************************************************)
(* Theorems of NavStore and NavSync: what a cursor says a server holds it  *)
(* holds, what the store says of itself is true, and no replica that can   *)
(* draw something is replaced by one that cannot.                          *)
(***************************************************************************)
EXTENDS NavSync, FiniteSetTheorems, TLAPS

-----------------------------------------------------------------------------
(* Types. *)

States == {None, "snapshot-required", "snapshot-sending", "resync-required", "incremental", "failed"}
Details == {"index", "pending", "detail", "absent", "failed", None}
Cursors == [epoch : Nat, acked : Nat, state : States]
Requests ==
  [kind : {None, "snapshot", "rows"}, for : Servers \cup {None}, at : Servers \cup {None},
   epoch : Nat, from : Nat, to : Nat, rows : [Keys -> Nat]]

Stores ==
  [epoch : Nat, rev : Nat, row : [Keys -> Nat], detail : [Airports -> Details],
   stamp : BOOLEAN, cursor : [Servers -> Cursors]]
Sound(s) == s \in Stores /\ \A k \in Keys : s.row[k] <= s.rev
StoreTypeOK == Sound(db)
PassTypeOK ==
  pass \in [on : BOOLEAN, list : SUBSET Airports, before : Nat, todo : SUBSET Airports,
            rows : Nat, matched : Nat]
FetchTypeOK == fetch = NoFetch \/ fetch \in [of : Airports, prior : Details]
Loops ==
  [running : BOOLEAN, timer : BOOLEAN, phase : {"idle", "exporting", "sending"},
   server : Servers, limited : BOOLEAN, scanned : Int, bound : Nat \ {0},
   latched : BOOLEAN, req : Requests]
LoopTypeOK ==
  /\ y \in Loops
  /\ y.phase # "idle" => y.req.kind # None /\ y.req.for \in Servers
  /\ y.phase = "exporting" => y.req.kind = "snapshot"
  /\ y.phase = "sending" => y.req.at \in Servers /\ (y.req.kind = "rows" => y.req.at = y.req.for)
Replicas == [epoch : Nat \cup {Foreign}, rows : [Keys -> Nat \cup {Foreign}]]
ServersTypeOK ==
  /\ srv \in [Servers -> Replicas]
  /\ late \in [Servers -> Requests] /\ \A s \in Servers : late[s] # NoReq => late[s].kind # None
  /\ misled \subseteq Servers /\ skipped \in [Servers -> SUBSET (Keys \X Nat)]
TypeOK == StoreTypeOK /\ PassTypeOK /\ FetchTypeOK /\ LoopTypeOK /\ ServersTypeOK

-----------------------------------------------------------------------------
(* The cursor. *)

\* A cursor is not ahead of the store.
Behind(st, cursor) == cursor.epoch <= st.epoch /\ cursor.acked <= st.rev

\* What a request of the epoch in force carries up to its rev is what the store
\* holds: a row that changed since has a higher rev.
Carries(st, r) ==
  /\ r.epoch <= st.epoch /\ r.to <= st.rev
  /\ r.epoch = st.epoch =>
       (\A k \in Keys :
          st.row[k] <= r.to /\ (r.kind = "snapshot" \/ r.rows[k] # 0) => r.rows[k] = st.row[k])

\* A batch that is out continues the cursor it is for.
Continues(st, r, cursor) ==
  /\ cursor.state = "incremental" /\ cursor.epoch = r.epoch /\ cursor.acked = r.from /\ r.from <= r.to
  /\ r.epoch = st.epoch =>
       (\A k \in Keys : r.from < st.row[k] /\ st.row[k] <= r.to => r.rows[k] = st.row[k])

\* What AckedRowsAreHeld says of one replica.
Honest(st, replica, stepped, cursor) ==
  cursor.state = "incremental" /\ cursor.epoch = st.epoch /\ replica.epoch = st.epoch =>
    (\A k \in Keys :
       0 < st.row[k] /\ st.row[k] <= cursor.acked /\ <<k, st.row[k]>> \notin stepped
         => replica.rows[k] = st.row[k])

Sent ==
  y.phase # "idle" =>
    /\ Carries(db, y.req)
    /\ y.req.kind = "snapshot" => (\A s \in Servers : db.cursor[s].acked <= y.req.to)
    /\ y.req.kind = "rows" => Continues(db, y.req, db.cursor[y.req.for])

\* A request nobody waits for is not below the cursor of its server.
Overdue ==
  \A s \in Servers : late[s] # NoReq =>
    Carries(db, late[s]) /\ (s \in misled \/ db.cursor[s].acked <= late[s].to)

AllBehind == \A s \in Servers : Behind(db, db.cursor[s])
AllHonest == \A s \in Servers \ misled : Honest(db, srv[s], skipped[s], db.cursor[s])
CursorInv == AllBehind /\ Sent /\ Overdue /\ AllHonest

-----------------------------------------------------------------------------
(* The store's own claims. *)
Indexed ==
  /\ pass.on => ~db.stamp /\ pass.list \ pass.todo \subseteq Stored(db)
  /\ IndexIsWhole
Answered == PendingIsInFlight /\ fetch.prior # "pending"

\* A snapshot on its way has something to draw.
Draws(r) == r.kind = "snapshot" => \E k \in Facilities : r.rows[k] # 0
Drawable == Draws(y.req) /\ \A s \in Servers : Draws(late[s])

-----------------------------------------------------------------------------
(* Finite sets.  What is needed of them by induction is had from a smallest *)
(* set that would be an exception.                                          *)

\* A nonempty finite set has a place at which a function into the integers is greatest.
LEMMA Greatest ==
  ASSUME NEW S, IsFiniteSet(S), S # {}, NEW f, \A x \in S : f[x] \in Int
  PROVE  \E x \in S : \A z \in S : f[z] <= f[x]
<1> DEFINE Bad == {U \in FiniteSubsetsOf(S) : U # {} /\ \A x \in U : \E z \in U : ~(f[z] <= f[x])}
<1>1. SUFFICES ASSUME Bad # {} PROVE FALSE
  BY DEF FiniteSubsetsOf
<1>2. PICK U \in Bad : \A V \in Bad : ~(<<V, U>> \in StrictSubsetOrdering(S))
  BY <1>1, WFMin, FS_StrictSubsetOrderingWellFounded
<1>3. U \subseteq S /\ IsFiniteSet(U) /\ U # {}
  BY DEF FiniteSubsetsOf
<1>4. PICK x \in U : TRUE
  BY <1>3
<1> DEFINE V == U \ {x}
<1>5. IsFiniteSet(V)
  BY <1>3, FS_RemoveElement
<1>6. V \notin Bad
  BY <1>2, <1>3, <1>4 DEF StrictSubsetOrdering
<1>7. CASE V = {}
  BY <1>3, <1>4, <1>7
<1>8. CASE V # {}
  <2>1. PICK m \in V : \A z \in V : f[z] <= f[m]
    BY <1>3, <1>5, <1>6, <1>8 DEF FiniteSubsetsOf
  <2>2. \E w \in {x, m} : \A z \in U : f[z] <= f[w]
    <3>1. f[x] \in Int /\ f[m] \in Int /\ \A z \in V : f[z] \in Int
      BY <1>3, <1>4, <2>1
    <3>2. CASE f[x] <= f[m]
      BY <2>1, <3>2
    <3>3. CASE ~(f[x] <= f[m])
      BY <2>1, <3>1, <3>3
    <3> QED
      BY <3>2, <3>3
  <2> QED
    BY <1>4, <2>1, <2>2
<1> QED
  BY <1>7, <1>8

\* A finite set has a part of any size it has room for that lies below the rest.
LEMMA LowerPart ==
  ASSUME NEW S, IsFiniteSet(S), NEW f, \A x \in S : f[x] \in Int, NEW n \in Nat, n <= Cardinality(S)
  PROVE  \E T \in SUBSET S : Cardinality(T) = n /\ \A x \in T, z \in S \ T : f[x] <= f[z]
<1> DEFINE Low(U) == \E T \in SUBSET U : Cardinality(T) = n /\ \A x \in T, z \in U \ T : f[x] <= f[z]
           Bad == {U \in FiniteSubsetsOf(S) : n <= Cardinality(U) /\ ~Low(U)}
<1>1. SUFFICES ASSUME Bad # {} PROVE FALSE
  <2>1. S \notin Bad
    BY <1>1
  <2> QED
    BY <2>1 DEF FiniteSubsetsOf
<1>2. PICK U \in Bad : \A V \in Bad : ~(<<V, U>> \in StrictSubsetOrdering(S))
  BY <1>1, WFMin, FS_StrictSubsetOrderingWellFounded
<1>3. U \subseteq S /\ IsFiniteSet(U) /\ Cardinality(U) \in Nat /\ n <= Cardinality(U) /\ ~Low(U)
  BY FS_CardinalityType DEF FiniteSubsetsOf
<1>4. n # Cardinality(U) /\ U # {}
  <2>1. CASE n = Cardinality(U)
    BY <1>3, <2>1
  <2>2. CASE U = {}
    BY <1>3, <2>1, <2>2, FS_EmptySet
  <2> QED
    BY <2>1, <2>2
<1>5. PICK m \in U : \A z \in U : f[z] <= f[m]
  BY <1>3, <1>4, Greatest
<1> DEFINE V == U \ {m}
<1>6. IsFiniteSet(V) /\ Cardinality(V) = Cardinality(U) - 1
  BY <1>3, <1>5, FS_RemoveElement
<1>7. V \notin Bad
  <2>1. <<V, U>> \in StrictSubsetOrdering(S)
    BY <1>3, <1>5 DEF StrictSubsetOrdering
  <2> HIDE DEF V, Bad
  <2> QED
    BY <1>2, <2>1
<1>8. Low(V)
  BY <1>3, <1>4, <1>6, <1>7 DEF FiniteSubsetsOf
<1>9. Low(U)
  BY <1>5, <1>8
<1> QED
  BY <1>3, <1>9

-----------------------------------------------------------------------------
(* The batch. *)

LEMMA KeysAreFinite == IsFiniteSet(Keys) /\ \A table : IsFiniteSet(RowsOf(table))
<1>1. \A x : IsFiniteSet({x})
  BY FS_Singleton
<1>2. IsFiniteSet({"airport"} \X Airports) /\ IsFiniteSet({"waypoint"} \X Fixes)
        /\ IsFiniteSet({"absent"} \X Airports)
  BY <1>1, FS_Product, WorldAssumption
<1>3. IsFiniteSet(Keys)
  BY <1>2, FS_Union DEF Keys
<1>4. ASSUME NEW table PROVE IsFiniteSet(RowsOf(table))
  BY <1>3, FS_Subset DEF RowsOf
<1> QED
  BY <1>3, <1>4

LEMMA EveryKeyHasItsTable == \A k \in Keys : k[1] \in Tables /\ k \in RowsOf(k[1])
BY DEF Keys, Tables, RowsOf

LEMMA HighestIsHighest ==
  ASSUME NEW s, NEW keys \in SUBSET Keys, keys # {}, \A k \in Keys : s.row[k] \in Nat
  PROVE  /\ Highest(RevsOf(s, keys)) \in RevsOf(s, keys)
         /\ \A k \in keys : s.row[k] <= Highest(RevsOf(s, keys))
<1>1. IsFiniteSet(keys)
  BY KeysAreFinite, FS_Subset
<1>2. PICK m \in keys : \A k \in keys : s.row[k] <= s.row[m]
  <2> DEFINE f == s.row
  <2>1. \A k \in keys : f[k] \in Int
    OBVIOUS
  <2> HIDE DEF f
  <2>2. \E m \in keys : \A k \in keys : f[k] <= f[m]
    BY <1>1, <2>1, Greatest
  <2> QED
    BY <2>2 DEF f
<1>3. \E r \in RevsOf(s, keys) : \A other \in RevsOf(s, keys) : r >= other
  BY <1>2 DEF RevsOf
<1> QED
  BY <1>3 DEF Highest, RevsOf

LEMMA LowestIsLowest ==
  ASSUME NEW s, NEW keys \in SUBSET Keys, keys # {}, \A k \in Keys : s.row[k] \in Nat
  PROVE  /\ Lowest(RevsOf(s, keys)) \in RevsOf(s, keys)
         /\ \A k \in keys : Lowest(RevsOf(s, keys)) <= s.row[k]
<1> DEFINE f == [k \in keys |-> 0 - s.row[k]]
<1>1. IsFiniteSet(keys)
  BY KeysAreFinite, FS_Subset
<1>2. \A k \in keys : f[k] \in Int
  OBVIOUS
<1>3. \E m \in keys : \A k \in keys : f[k] <= f[m]
  <2> HIDE DEF f
  <2> QED
    BY <1>1, <1>2, Greatest
<1>4. PICK m \in keys : \A k \in keys : s.row[m] <= s.row[k]
  BY <1>3
<1>5. \E r \in RevsOf(s, keys) : \A other \in RevsOf(s, keys) : r <= other
  BY <1>4 DEF RevsOf
<1> QED
  BY <1>5 DEF Lowest, RevsOf

\* A table is read whole, or up to a limit that leaves nothing lower behind.
LEMMA ReadIsLowest ==
  ASSUME NEW s, \A k \in Keys : s.row[k] \in Nat, NEW table, NEW from \in Nat, NEW limit \in Nat
  PROVE  LET above == {k \in RowsOf(table) : s.row[k] > from}
             read == Since(s, table, from, limit)
         IN  /\ read \subseteq above
             /\ \/ read = above
                \/ Cardinality(read) = limit /\ \A k \in read, other \in above \ read : s.row[k] <= s.row[other]
<1> DEFINE above == {k \in RowsOf(table) : s.row[k] > from}
<1>1. CASE Cardinality(above) <= limit
  BY <1>1 DEF Since
<1>2. CASE ~(Cardinality(above) <= limit)
  <2>1. IsFiniteSet(above) /\ Cardinality(above) \in Nat
    BY KeysAreFinite, FS_Subset, FS_CardinalityType
  <2>2. \A k \in above : s.row[k] \in Int
    BY DEF RowsOf
  <2>3. \E read \in SUBSET above : Cardinality(read) = limit
          /\ \A k \in read, other \in above \ read : s.row[k] <= s.row[other]
    <3> DEFINE f == s.row
    <3> HIDE DEF f, above
    <3>1. \A k \in above : f[k] \in Int
      BY <2>2 DEF f
    <3>2. \E read \in SUBSET above : Cardinality(read) = limit
            /\ \A k \in read, other \in above \ read : f[k] <= f[other]
      BY <1>2, <2>1, <3>1, LowerPart
    <3> QED
      BY <3>2 DEF f
  <2>4. Since(s, table, from, limit) =
          CHOOSE read \in SUBSET above : Cardinality(read) = limit
            /\ \A k \in read, other \in above \ read : s.row[k] <= s.row[other]
    BY <1>2 DEF Since
  <2> HIDE DEF above
  <2>5. LET read == Since(s, table, from, limit)
        IN  /\ read \in SUBSET above /\ Cardinality(read) = limit
            /\ \A k \in read, other \in above \ read : s.row[k] <= s.row[other]
    BY <2>3, <2>4
  <2> QED
    BY <2>5 DEF above
<1> QED
  BY <1>1, <1>2

\* Every row above the cursor and not above the rev the batch goes up to is in
\* the batch, and that rev is one of the store, not below the cursor.
LEMMA BatchIsWhole ==
  ASSUME NEW s, \A k \in Keys : s.row[k] \in Nat /\ s.row[k] <= s.rev, s.rev \in Nat,
         NEW from \in Nat, from <= s.rev, NEW bound \in Nat \ {0}
  PROVE  LET batch == BuildBatch(s, from, bound)
         IN  /\ batch.rows \subseteq Keys /\ batch.to \in Nat /\ from <= batch.to /\ batch.to <= s.rev
             /\ \A k \in Keys : from < s.row[k] /\ s.row[k] <= batch.to => k \in batch.rows
<1> DEFINE read(table) == Since(s, table, from, bound + 1)
           above(table) == {k \in RowsOf(table) : s.row[k] > from}
           candidates == UNION {read(table) : table \in Tables}
           clipped == {table \in Tables : Cardinality(read(table)) > bound}
           usable == {k \in candidates : \A table \in clipped : s.row[k] < Highest(RevsOf(s, read(table)))}
           upTo(rev) == {k \in usable : s.row[k] <= rev}
           fits == {rev \in RevsOf(s, usable) : Cardinality(upTo(rev)) <= bound}
           batch == BuildBatch(s, from, bound)
<1>0. batch = IF candidates = {} THEN [rows |-> {}, to |-> from]
              ELSE IF usable = {} THEN WholeRev(s, Lowest(RevsOf(s, candidates)))
              ELSE IF fits = {} THEN WholeRev(s, Lowest(RevsOf(s, usable)))
              ELSE [rows |-> upTo(Highest(fits)), to |-> Highest(fits)]
  BY DEF BuildBatch
<1>1. \A table : /\ read(table) \subseteq above(table) /\ above(table) \subseteq Keys
                 /\ \/ read(table) = above(table)
                    \/ /\ Cardinality(read(table)) = bound + 1
                       /\ \A k \in read(table), other \in above(table) \ read(table) : s.row[k] <= s.row[other]
  BY ReadIsLowest DEF RowsOf
<1>2. candidates \subseteq Keys /\ usable \subseteq candidates /\ \A k \in candidates : from < s.row[k]
  <2>1. ASSUME NEW k \in candidates PROVE k \in Keys /\ from < s.row[k]
    <3>1. PICK table \in Tables : k \in read(table)
      OBVIOUS
    <3>2. k \in above(table) /\ k \in Keys
      BY <1>1, <3>1
    <3> QED
      BY <3>2
  <2> QED
    BY <2>1
<1>3. ASSUME NEW table \in clipped
      PROVE  /\ read(table) \subseteq Keys /\ read(table) # {}
             /\ \A k \in read(table) : s.row[k] <= Highest(RevsOf(s, read(table)))
             /\ \E k \in read(table) : s.row[k] = Highest(RevsOf(s, read(table)))
  <2>1. Cardinality(read(table)) > bound /\ read(table) \subseteq Keys
    BY <1>1
  <2>2. read(table) # {}
    BY <2>1, FS_EmptySet
  <2> QED
    BY <2>1, <2>2, HighestIsHighest DEF RevsOf
\* What was left unread or is not usable is no lower than what a clipped table was read up to.
<1>4. ASSUME NEW k \in Keys, from < s.row[k], k \notin usable
      PROVE  \E table \in clipped : Highest(RevsOf(s, read(table))) <= s.row[k]
  <2>1. CASE k \in candidates
    <3>1. PICK table \in clipped : ~(s.row[k] < Highest(RevsOf(s, read(table))))
      BY <1>4, <2>1
    <3>2. Highest(RevsOf(s, read(table))) \in Nat
      BY <1>3
    <3> QED
      BY <3>1, <3>2
  <2>2. CASE k \notin candidates
    <3> DEFINE table == k[1]
    <3>1. table \in Tables /\ k \in above(table) /\ k \notin read(table)
      BY <1>4, <2>2, EveryKeyHasItsTable
    <3>2. Cardinality(read(table)) = bound + 1 /\ \A r \in read(table) : s.row[r] <= s.row[k]
      BY <1>1, <3>1
    <3>3. table \in clipped
      BY <3>1, <3>2
    <3> HIDE DEF table
    <3>4. PICK r \in read(table) : s.row[r] = Highest(RevsOf(s, read(table)))
      BY <1>3, <3>3
    <3> QED
      BY <3>2, <3>3, <3>4
  <2> QED
    BY <2>1, <2>2
<1>5. ASSUME NEW u \in usable, NEW k \in Keys, from < s.row[k], s.row[k] <= s.row[u] PROVE k \in usable
  <2>1. SUFFICES ASSUME k \notin usable PROVE FALSE
    OBVIOUS
  <2>2. PICK table \in clipped : Highest(RevsOf(s, read(table))) <= s.row[k]
    BY <1>4, <1>5, <2>1
  <2>3. s.row[u] < Highest(RevsOf(s, read(table))) /\ Highest(RevsOf(s, read(table))) \in Nat /\ u \in Keys
    BY <1>2, <1>3
  <2> QED
    BY <1>5, <2>2, <2>3
<1> DEFINE Whole(keys) ==
      /\ \A k \in Keys : from < s.row[k] /\ s.row[k] < Lowest(RevsOf(s, keys)) => FALSE
      /\ Lowest(RevsOf(s, keys)) \in Nat /\ from <= Lowest(RevsOf(s, keys)) /\ Lowest(RevsOf(s, keys)) <= s.rev
<1>6. ASSUME NEW keys, Whole(keys)
      PROVE  LET whole == WholeRev(s, Lowest(RevsOf(s, keys)))
             IN  /\ whole.rows \subseteq Keys /\ whole.to \in Nat /\ from <= whole.to /\ whole.to <= s.rev
                 /\ \A k \in Keys : from < s.row[k] /\ s.row[k] <= whole.to => k \in whole.rows
  BY <1>6 DEF WholeRev, AtRev
<1>7. ASSUME NEW keys \in SUBSET candidates, keys # {}
      PROVE  /\ Lowest(RevsOf(s, keys)) \in Nat /\ from <= Lowest(RevsOf(s, keys)) /\ Lowest(RevsOf(s, keys)) <= s.rev
             /\ \E u \in keys : Lowest(RevsOf(s, keys)) = s.row[u]
             /\ \A u \in keys : Lowest(RevsOf(s, keys)) <= s.row[u]
  <2>1. keys \in SUBSET Keys /\ \A k \in keys : s.row[k] \in Nat /\ s.row[k] <= s.rev /\ from < s.row[k]
    BY <1>2, <1>7
  <2> HIDE DEF candidates
  <2>2. /\ Lowest(RevsOf(s, keys)) \in RevsOf(s, keys)
        /\ \A k \in keys : Lowest(RevsOf(s, keys)) <= s.row[k]
    BY <1>7, <2>1, LowestIsLowest
  <2>3. PICK u \in keys : Lowest(RevsOf(s, keys)) = s.row[u]
    BY <2>2 DEF RevsOf
  <2> QED
    BY <2>1, <2>2, <2>3
<1>8. CASE candidates = {}
  BY <1>0, <1>8
<1>9. CASE candidates # {} /\ usable = {}
  <2>1. ASSUME NEW k \in Keys, from < s.row[k], s.row[k] < Lowest(RevsOf(s, candidates)) PROVE FALSE
    <3>1. PICK table \in clipped : Highest(RevsOf(s, read(table))) <= s.row[k]
      BY <1>4, <1>9, <2>1
    <3>2. PICK r \in read(table) : s.row[r] = Highest(RevsOf(s, read(table)))
      BY <1>3
    <3>3. r \in candidates
      OBVIOUS
    <3>4. Lowest(RevsOf(s, candidates)) <= s.row[r] /\ Lowest(RevsOf(s, candidates)) \in Nat
      BY <1>7, <1>9, <3>3
    <3> QED
      BY <1>2, <2>1, <3>1, <3>2, <3>3, <3>4
  <2>2. Whole(candidates)
    BY <1>7, <1>9, <2>1
  <2> HIDE DEF Whole, candidates, usable, fits, upTo
  <2> QED
    BY <1>0, <1>6, <1>9, <2>2
<1>10. CASE candidates # {} /\ usable # {} /\ fits = {}
  <2>1. ASSUME NEW k \in Keys, from < s.row[k], s.row[k] < Lowest(RevsOf(s, usable)) PROVE FALSE
    <3>1. PICK u \in usable : Lowest(RevsOf(s, usable)) = s.row[u]
      BY <1>7, <1>10
    <3>2. u \in Keys
      BY <1>2
    <3>3. k \in usable
      BY <1>5, <2>1, <3>1, <3>2
    <3>4. Lowest(RevsOf(s, usable)) <= s.row[k]
      BY <1>7, <1>10, <3>3
    <3> QED
      BY <2>1, <3>1, <3>2, <3>4
  <2>2. Whole(usable)
    BY <1>7, <1>10, <2>1
  <2> HIDE DEF Whole, candidates, usable, fits, upTo
  <2> QED
    BY <1>0, <1>6, <1>10, <2>2
<1>11. CASE candidates # {} /\ usable # {} /\ fits # {}
  <2> DEFINE keys == {k \in usable : s.row[k] \in fits}
  <2>1. keys \subseteq Keys /\ keys # {} /\ fits = RevsOf(s, keys)
    BY <1>2, <1>11 DEF RevsOf
  <2>2. Highest(fits) \in RevsOf(s, keys)
    <3> HIDE DEF keys, fits
    <3> QED
      BY <2>1, HighestIsHighest
  <2>3. PICK u \in usable : s.row[u] = Highest(fits)
    BY <2>2 DEF RevsOf
  <2>4. u \in Keys /\ from < s.row[u]
    BY <1>2
  <2>5. \A k \in Keys : from < s.row[k] /\ s.row[k] <= Highest(fits) => k \in upTo(Highest(fits))
    BY <1>5, <2>3
  <2>6. batch = [rows |-> upTo(Highest(fits)), to |-> Highest(fits)]
    <3> HIDE DEF candidates, usable, fits, upTo
    <3> QED
      BY <1>0, <1>11
  <2>7. upTo(Highest(fits)) \subseteq Keys
    BY <1>2
  <2> HIDE DEF candidates, usable, fits, upTo
  <2> QED
    BY <2>3, <2>4, <2>5, <2>6, <2>7
<1> QED
  BY <1>8, <1>9, <1>10, <1>11

-----------------------------------------------------------------------------
(* What a transaction does to the store. *)

\* Rows that change take a rev of their own, until an epoch begins.
Ages(s, t) ==
  /\ s.epoch <= t.epoch /\ s.rev <= t.rev
  /\ t.epoch = s.epoch => \A k \in Keys : t.row[k] = s.row[k] \/ s.rev < t.row[k]

\* A transaction of the store moves no cursor; one of the loop may put cursors
\* back, and changes no row.
Grows(s, t) == Ages(s, t) /\ t.cursor = s.cursor
Backs(s, t) ==
  \A g \in Servers :
    /\ t.cursor[g].epoch = s.cursor[g].epoch /\ t.cursor[g].acked <= s.cursor[g].acked
    /\ t.cursor[g].state = "incremental" => t.cursor[g] = s.cursor[g]
Rests(s, t) == Sound(t) /\ t.epoch = s.epoch /\ s.rev <= t.rev /\ t.row = s.row /\ t.detail = s.detail /\ t.stamp = s.stamp

\* No airport is lost by it.
Keeps(s, t) == \A a \in Airports : s.row[<<"airport", a>>] # 0 => t.row[<<"airport", a>>] # 0

LEMMA StoreHasFields ==
  ASSUME NEW s, Sound(s)
  PROVE  s = [epoch |-> s.epoch, rev |-> s.rev, row |-> s.row, detail |-> s.detail,
              stamp |-> s.stamp, cursor |-> s.cursor]
BY DEF Sound, Stores

LEMMA WriteGrows ==
  ASSUME NEW s, Sound(s), NEW keys \in SUBSET Keys
  PROVE  LET t == Write(s, keys)
         IN  /\ Sound(t) /\ Grows(s, t) /\ Keeps(s, t)
             /\ t.epoch = s.epoch /\ t.detail = s.detail /\ t.stamp = s.stamp
             /\ \A k \in keys : t.row[k] # 0
<1>1. CASE keys = {}
  BY <1>1 DEF Write, Grows, Ages, Keeps, Sound, Stores
<1>2. CASE keys # {}
  <2> DEFINE row == [k \in Keys |-> IF k \in keys THEN s.rev + 1 ELSE s.row[k]]
             t == [epoch |-> s.epoch, rev |-> s.rev + 1, row |-> row, detail |-> s.detail,
                   stamp |-> s.stamp, cursor |-> s.cursor]
  <2>1. Write(s, keys) = t
    BY <1>2 DEF Write, Sound, Stores
  <2>2. row \in [Keys -> Nat] /\ \A k \in Keys : row[k] <= s.rev + 1 /\ (row[k] = s.row[k] \/ s.rev < row[k])
    BY DEF Sound, Stores
  <2>3. \A k \in Keys : s.row[k] # 0 => row[k] # 0
    BY DEF Sound, Stores
  <2>4. \A a \in Airports : <<"airport", a>> \in Keys
    BY DEF Keys
  <2>5. \A k \in keys : row[k] # 0
    BY DEF Sound, Stores
  <2> HIDE DEF row
  <2>6. Sound(t)
    BY <2>2 DEF Sound, Stores
  <2>7. Grows(s, t) /\ Keeps(s, t)
    BY <2>2, <2>3, <2>4 DEF Grows, Ages, Keeps, Sound, Stores
  <2> QED
    BY <2>1, <2>5, <2>6, <2>7
<1> QED
  BY <1>1, <1>2

\* A transaction that also sets states of airports, or the stamp.
LEMMA SettingGrows ==
  ASSUME NEW s, NEW t, Sound(t), Grows(s, t), Keeps(s, t), NEW d \in [Airports -> Details]
  PROVE  LET u == [t EXCEPT !.detail = d]
         IN  /\ Sound(u) /\ Grows(s, u) /\ Keeps(s, u) /\ u.detail = d
             /\ u.row = t.row /\ u.epoch = t.epoch /\ u.stamp = t.stamp
<1>1. [t EXCEPT !.detail = d] = [epoch |-> t.epoch, rev |-> t.rev, row |-> t.row, detail |-> d,
                                 stamp |-> t.stamp, cursor |-> t.cursor]
  BY DEF Sound, Stores
<1> QED
  BY <1>1 DEF Sound, Stores, Grows, Ages, Keeps

LEMMA StampingGrows ==
  ASSUME NEW s, NEW t, Sound(t), Grows(s, t), Keeps(s, t), NEW b \in BOOLEAN
  PROVE  LET u == [t EXCEPT !.stamp = b]
         IN  /\ Sound(u) /\ Grows(s, u) /\ Keeps(s, u) /\ u.stamp = b
             /\ u.row = t.row /\ u.epoch = t.epoch /\ u.detail = t.detail
<1>1. [t EXCEPT !.stamp = b] = [epoch |-> t.epoch, rev |-> t.rev, row |-> t.row, detail |-> t.detail,
                                stamp |-> b, cursor |-> t.cursor]
  BY DEF Sound, Stores
<1> QED
  BY <1>1 DEF Sound, Stores, Grows, Ages, Keeps

LEMMA NothingGrows == ASSUME NEW s, Sound(s) PROVE Grows(s, s) /\ Keeps(s, s)
BY DEF Grows, Ages, Keeps, Sound, Stores

LEMMA DetailGrows ==
  ASSUME NEW s, Sound(s), NEW a \in Airports, NEW state \in Details, NEW keys \in SUBSET Keys
  PROVE  LET u == Detail(s, a, state, keys)
         IN  /\ Sound(u) /\ Grows(s, u) /\ Keeps(s, u) /\ u.detail = [s.detail EXCEPT ![a] = state]
             /\ u.stamp = s.stamp /\ u.epoch = s.epoch
<1> DEFINE t == Write(s, {<<"airport", a>>} \cup keys)
<1>1. {<<"airport", a>>} \cup keys \in SUBSET Keys
  BY DEF Keys
<1>2. Sound(t) /\ Grows(s, t) /\ Keeps(s, t) /\ t.epoch = s.epoch /\ t.detail = s.detail /\ t.stamp = s.stamp
  BY <1>1, WriteGrows
<1>3. Detail(s, a, state, keys) = [t EXCEPT !.detail = [t.detail EXCEPT ![a] = state]]
  BY DEF Detail
<1>4. [t.detail EXCEPT ![a] = state] \in [Airports -> Details]
  BY <1>2 DEF Sound, Stores
<1> DEFINE d == [t.detail EXCEPT ![a] = state]
           u == [t EXCEPT !.detail = d]
<1>5. Detail(s, a, state, keys) = u /\ d \in [Airports -> Details] /\ d = [s.detail EXCEPT ![a] = state]
  BY <1>2, <1>3, <1>4
<1> HIDE DEF t, d
<1>6. Sound(u) /\ Grows(s, u) /\ Keeps(s, u) /\ u.detail = d /\ u.stamp = t.stamp /\ u.epoch = t.epoch
  BY <1>2, <1>5, SettingGrows
<1> HIDE DEF u
<1> QED
  BY <1>2, <1>5, <1>6

LEMMA MintGrows ==
  ASSUME NEW s, Sound(s)
  PROVE  LET t == MintEpoch(s)
         IN  Sound(t) /\ Grows(s, t) /\ Keeps(s, t) /\ t.detail = s.detail /\ t.stamp = s.stamp
<1> DEFINE gone == RowsOf("absent")
           row == [k \in Keys |-> IF k \in gone THEN 0 ELSE s.row[k]]
           t == [epoch |-> s.epoch + 1, rev |-> s.rev, row |-> row, detail |-> s.detail,
                 stamp |-> s.stamp, cursor |-> s.cursor]
<1>1. MintEpoch(s) = t
  <2> DEFINE u == [s EXCEPT !.epoch = s.epoch + 1]
  <2>1. MintEpoch(s) = [u EXCEPT !.row = [k \in Keys |-> IF k \in gone THEN 0 ELSE u.row[k]]]
    BY Zenon DEF MintEpoch
  <2>2. u = [epoch |-> s.epoch + 1, rev |-> s.rev, row |-> s.row, detail |-> s.detail,
             stamp |-> s.stamp, cursor |-> s.cursor]
    BY DEF Sound, Stores
  <2> HIDE DEF u, gone
  <2> QED
    BY <2>1, <2>2
<1>2. row \in [Keys -> Nat] /\ \A k \in Keys : row[k] <= s.rev
  BY DEF Sound, Stores
<1>3. \A a \in Airports : <<"airport", a>> \in Keys /\ <<"airport", a>> \notin gone
  BY DEF Keys, RowsOf
<1> HIDE DEF gone
<1>4. ASSUME NEW a \in Airports PROVE row[<<"airport", a>>] = s.row[<<"airport", a>>]
  <2> DEFINE key == <<"airport", a>>
  <2>1. key \in Keys /\ key \notin gone
    BY <1>3
  <2> HIDE DEF key
  <2>2. row[key] = s.row[key]
    BY <2>1
  <2> QED
    BY <2>2 DEF key
<1> HIDE DEF row
<1> QED
  BY <1>1, <1>2, <1>4 DEF Sound, Stores, Grows, Ages, Keeps

\* The cursor of a server moves in a transaction that changes no row.
LEMMA CursorMoves ==
  ASSUME NEW s, Sound(s), NEW server \in Servers, NEW c \in Cursors
  PROVE  LET t == SetCursor(s, server, c)
         IN  /\ Sound(t) /\ t.epoch = s.epoch /\ t.rev = s.rev + 1 /\ t.row = s.row
             /\ t.detail = s.detail /\ t.stamp = s.stamp /\ t.cursor = [s.cursor EXCEPT ![server] = c]
<1>1. SetCursor(s, server, c) =
        [epoch |-> s.epoch, rev |-> s.rev + 1, row |-> s.row, detail |-> s.detail,
         stamp |-> s.stamp, cursor |-> [s.cursor EXCEPT ![server] = c]]
  <2> DEFINE u == [s EXCEPT !.rev = s.rev + 1]
  <2>1. SetCursor(s, server, c) = [u EXCEPT !.cursor = [u.cursor EXCEPT ![server] = c]]
    BY Zenon DEF SetCursor
  <2>2. u = [epoch |-> s.epoch, rev |-> s.rev + 1, row |-> s.row, detail |-> s.detail,
             stamp |-> s.stamp, cursor |-> s.cursor]
    BY DEF Sound, Stores
  <2> HIDE DEF u
  <2> QED
    BY <2>1, <2>2
<1> QED
  BY <1>1 DEF Sound, Stores

-----------------------------------------------------------------------------
(* The steps of the store. *)

StoreInv == StoreTypeOK /\ PassTypeOK /\ FetchTypeOK /\ Indexed /\ Answered
StoreMoves == StoreInv' /\ Grows(db, db')

LEMMA CountsAreNatural == \A S \in SUBSET Airports : Cardinality(S) \in Nat
BY FS_Subset, FS_CardinalityType, WorldAssumption

LEMMA KeysOfAirports ==
  /\ \A a \in Airports : <<"airport", a>> \in Keys
  /\ \A S \in SUBSET Airports : {"airport"} \X S \in SUBSET Keys
BY DEF Keys

LEMMA PassesBegin ==
  ASSUME NEW list \in SUBSET Airports, StoreInv, PassBegins(list) PROVE StoreMoves
<1>1. /\ db' = [db EXCEPT !.stamp = FALSE] /\ fetch' = fetch
      /\ pass' = [on |-> TRUE, list |-> list, before |-> Cardinality(Stored(db)),
                  todo |-> list, rows |-> 0, matched |-> 0]
  BY DEF PassBegins
<1>2. Sound(db') /\ Grows(db, db') /\ db'.stamp = FALSE /\ db'.detail = db.detail
  <2> DEFINE u == [db EXCEPT !.stamp = FALSE]
  <2>1. Sound(db) /\ Grows(db, db) /\ Keeps(db, db)
    BY NothingGrows DEF StoreInv, StoreTypeOK
  <2>2. Sound(u) /\ Grows(db, u) /\ u.stamp = FALSE /\ u.detail = db.detail
    BY <2>1, StampingGrows
  <2> QED
    BY <1>1, <2>2
<1>3. PassTypeOK'
  BY <1>1, CountsAreNatural DEF PassTypeOK, Stored
<1>4. Indexed'
  BY <1>1, <1>2 DEF Indexed, IndexIsWhole
<1>5. Answered' /\ FetchTypeOK'
  BY <1>1, <1>2 DEF StoreInv, Answered, PendingIsInFlight, FetchTypeOK
<1> QED
  BY <1>2, <1>3, <1>4, <1>5 DEF StoreMoves, StoreInv, StoreTypeOK

LEMMA ChunksAreWritten ==
  ASSUME NEW chunk \in SUBSET Airports, NEW moved \in SUBSET Airports, StoreInv, ChunkWritten(chunk, moved)
  PROVE  StoreMoves
<1> DEFINE new == chunk \ Stored(db)
           keys == {"airport"} \X (new \cup moved)
           t == Write(db, keys)
           d == [a \in Airports |-> IF a \in new THEN "index" ELSE t.detail[a]]
<1>1. /\ pass.on /\ chunk \subseteq pass.todo /\ fetch' = fetch /\ db' = [t EXCEPT !.detail = d]
      /\ pass' = [pass EXCEPT !.todo = @ \ chunk, !.rows = @ + Cardinality(chunk),
                              !.matched = @ + Cardinality(chunk \ new)]
  BY DEF ChunkWritten
<1>2. Sound(db)
  BY DEF StoreInv, StoreTypeOK
<1>3. keys \in SUBSET Keys
  BY KeysOfAirports
<1>4. /\ Sound(t) /\ Grows(db, t) /\ Keeps(db, t) /\ t.detail = db.detail /\ t.stamp = db.stamp
      /\ \A k \in keys : t.row[k] # 0
  BY <1>2, <1>3, WriteGrows
<1>5. d \in [Airports -> Details]
  BY <1>2, <1>4 DEF Sound, Stores, Details
<1>6. \A a \in Airports : d[a] = "pending" => db.detail[a] = "pending"
  BY <1>4
<1>7. \A a \in new : <<"airport", a>> \in keys
  OBVIOUS
<1> HIDE DEF t, d, keys
<1>8. Sound(db') /\ Grows(db, db') /\ Keeps(db, db') /\ db'.detail = d /\ db'.stamp = t.stamp /\ db'.row = t.row
  <2> DEFINE u == [t EXCEPT !.detail = d]
  <2>1. Sound(u) /\ Grows(db, u) /\ Keeps(db, u) /\ u.detail = d /\ u.stamp = t.stamp /\ u.row = t.row
    BY <1>4, <1>5, SettingGrows
  <2> QED
    BY <1>1, <2>1
<1>9. PassTypeOK' /\ pass'.on = pass.on /\ pass'.list = pass.list /\ pass'.todo = pass.todo \ chunk
  <2> DEFINE n == Cardinality(chunk)
             m == Cardinality(chunk \ new)
             todo == pass.todo \ chunk
  <2>1. n \in Nat /\ m \in Nat
    BY CountsAreNatural
  <2>2. pass' = [pass EXCEPT !.todo = todo, !.rows = @ + n, !.matched = @ + m]
    BY <1>1, Zenon
  <2>3. todo \in SUBSET Airports
    BY DEF StoreInv, PassTypeOK
  <2> HIDE DEF n, m, todo
  <2>4. pass' = [on |-> pass.on, list |-> pass.list, before |-> pass.before, todo |-> todo,
                 rows |-> pass.rows + n, matched |-> pass.matched + m]
    BY <2>2 DEF StoreInv, PassTypeOK
  <2>5. PassTypeOK'
    BY <2>1, <2>3, <2>4 DEF StoreInv, PassTypeOK
  <2> QED
    BY <2>4, <2>5 DEF todo
<1>10. ASSUME NEW a \in pass.list, a \notin pass.todo \ chunk PROVE a \in Stored(db')
  <2>1. a \in Airports
    BY DEF StoreInv, PassTypeOK
  <2>2. CASE a \in new
    <3>1. db'.row[<<"airport", a>>] # 0
      BY <1>4, <1>7, <1>8, <2>2
    <3> QED
      BY <2>1, <3>1 DEF Stored
  <2>3. CASE a \notin new
    <3>1. a \in Stored(db)
      BY <1>1, <1>10, <2>3 DEF StoreInv, Indexed
    <3> QED
      BY <1>8, <2>1, <3>1 DEF Stored, Keeps
  <2> QED
    BY <2>2, <2>3
<1>11. Indexed'
  <2>1. ~db.stamp
    BY <1>1 DEF StoreInv, Indexed
  <2>2. pass'.list \ pass'.todo \subseteq Stored(db')
    BY <1>9, <1>10
  <2> QED
    BY <1>4, <1>8, <2>1, <2>2 DEF Indexed, IndexIsWhole
<1>12. Answered' /\ FetchTypeOK'
  BY <1>1, <1>6, <1>8 DEF StoreInv, Answered, PendingIsInFlight, FetchTypeOK
<1> QED
  BY <1>8, <1>9, <1>11, <1>12 DEF StoreMoves, StoreInv, StoreTypeOK

LEMMA PassesEnd == StoreInv /\ (PassCompletes \/ PassInterrupted) => StoreMoves
<1> SUFFICES ASSUME StoreInv, PassCompletes \/ PassInterrupted PROVE StoreMoves
  OBVIOUS
<1>1. Sound(db)
  BY DEF StoreInv, StoreTypeOK
<1>2. pass' = Ended /\ fetch' = fetch
  BY DEF PassCompletes, PassInterrupted
<1>3. PassTypeOK' /\ ~pass'.on /\ pass'.list = pass.list
  BY <1>2 DEF Ended, NoPass, StoreInv, PassTypeOK
<1>4. \/ db' = db
      \/ /\ pass.on /\ pass.todo = {}
         /\ \E t \in {db, MintEpoch(db)} : db' = [t EXCEPT !.stamp = TRUE]
  BY DEF PassCompletes, PassInterrupted
<1>5. CASE db' = db
  <2>1. Grows(db, db')
    BY <1>1, <1>5, NothingGrows
  <2> QED
    BY <1>2, <1>3, <1>5, <2>1
    DEF StoreMoves, StoreInv, StoreTypeOK, FetchTypeOK, Indexed, IndexIsWhole, Answered, PendingIsInFlight, Stored
<1>6. ASSUME pass.on, pass.todo = {}, NEW t \in {db, MintEpoch(db)}, db' = [t EXCEPT !.stamp = TRUE]
      PROVE  StoreMoves
  <2>1. Sound(t) /\ Grows(db, t) /\ Keeps(db, t) /\ t.detail = db.detail
    BY <1>1, <1>6, NothingGrows, MintGrows
  <2>2. Sound(db') /\ Grows(db, db') /\ Keeps(db, db') /\ db'.detail = db.detail
    <3> DEFINE u == [t EXCEPT !.stamp = TRUE]
    <3>1. Sound(u) /\ Grows(db, u) /\ Keeps(db, u) /\ u.detail = db.detail
      BY <2>1, StampingGrows
    <3> QED
      BY <1>6, <3>1
  <2>3. pass.list \subseteq Stored(db)
    BY <1>6 DEF StoreInv, Indexed
  <2>4. Stored(db) \subseteq Stored(db')
    BY <2>2 DEF Stored, Keeps
  <2>5. Indexed'
    BY <1>3, <2>3, <2>4 DEF Indexed, IndexIsWhole
  <2> QED
    BY <1>2, <1>3, <2>2, <2>5 DEF StoreMoves, StoreInv, StoreTypeOK, FetchTypeOK, Answered, PendingIsInFlight
<1> QED
  BY <1>4, <1>5, <1>6

LEMMA FetchesBegin == ASSUME NEW a \in Airports, StoreInv, FetchBegins(a) PROVE StoreMoves
<1>1. /\ ~pass.on /\ fetch = NoFetch /\ pass' = pass /\ db' = Detail(db, a, "pending", {})
      /\ fetch' = [of |-> a, prior |-> IF a \in Stored(db) THEN db.detail[a] ELSE "index"]
  BY DEF FetchBegins
<1>2. Sound(db)
  BY DEF StoreInv, StoreTypeOK
<1>3. /\ Sound(db') /\ Grows(db, db') /\ Keeps(db, db') /\ db'.detail = [db.detail EXCEPT ![a] = "pending"]
      /\ db'.stamp = db.stamp
  <2>1. "pending" \in Details /\ {} \in SUBSET Keys
    BY DEF Details
  <2> QED
    BY <1>1, <1>2, <2>1, DetailGrows
<1>4. \A b \in Airports : db.detail[b] # "pending"
  BY <1>1, WorldAssumption DEF StoreInv, Answered, PendingIsInFlight, NoFetch
<1>5. Answered' /\ FetchTypeOK'
  BY <1>1, <1>2, <1>3, <1>4 DEF Answered, PendingIsInFlight, FetchTypeOK, Sound, Stores, Details
<1>6. Indexed' /\ PassTypeOK'
  BY <1>1, <1>3 DEF StoreInv, Indexed, IndexIsWhole, PassTypeOK, Stored, Keeps
<1> QED
  BY <1>3, <1>5, <1>6 DEF StoreMoves, StoreInv, StoreTypeOK

LEMMA FetchesEnd ==
  ASSUME NEW outcome \in {"detail", "absent", "failed", "restored"}, StoreInv, FetchEnds(outcome)
  PROVE  StoreMoves
<1> DEFINE a == fetch.of
<1>1. /\ fetch # NoFetch /\ fetch' = NoFetch /\ pass' = pass
      /\ \E state \in {"detail", "absent", "failed", fetch.prior}, keys \in {{}, {<<"absent", a>>}} :
           db' = Detail(db, a, state, keys)
  BY DEF FetchEnds
<1>2. a \in Airports /\ fetch.prior \in Details /\ fetch.prior # "pending"
  BY <1>1 DEF StoreInv, FetchTypeOK, Answered
<1> HIDE DEF a
<1>3. PICK state \in {"detail", "absent", "failed", fetch.prior}, keys \in {{}, {<<"absent", a>>}} :
        db' = Detail(db, a, state, keys)
  BY <1>1
<1>4. state \in Details /\ state # "pending" /\ keys \in SUBSET Keys
  BY <1>2 DEF Details, Keys
<1>5. Sound(db)
  BY DEF StoreInv, StoreTypeOK
<1>6. /\ Sound(db') /\ Grows(db, db') /\ Keeps(db, db') /\ db'.detail = [db.detail EXCEPT ![a] = state]
      /\ db'.stamp = db.stamp
  BY <1>2, <1>3, <1>4, <1>5, DetailGrows
<1>7. \A b \in Airports : db.detail[b] = "pending" => b = a
  BY DEF StoreInv, Answered, PendingIsInFlight, a
<1>8. \A b \in Airports : db'.detail[b] # "pending"
  BY <1>2, <1>4, <1>5, <1>6, <1>7 DEF Sound, Stores
<1>9. Answered' /\ FetchTypeOK'
  BY <1>1, <1>8 DEF Answered, PendingIsInFlight, FetchTypeOK, NoFetch, None
<1>10. Indexed' /\ PassTypeOK'
  BY <1>1, <1>6 DEF StoreInv, Indexed, IndexIsWhole, PassTypeOK, Stored, Keeps
<1> QED
  BY <1>6, <1>9, <1>10 DEF StoreMoves, StoreInv, StoreTypeOK

LEMMA FixesAreWritten == ASSUME NEW f \in Fixes, StoreInv, FixWritten(f) PROVE StoreMoves
<1>1. db' = Write(db, {<<"waypoint", f>>}) /\ pass' = pass /\ fetch' = fetch
  BY DEF FixWritten
<1>2. Sound(db) /\ {<<"waypoint", f>>} \in SUBSET Keys
  BY DEF StoreInv, StoreTypeOK, Keys
<1>3. Sound(db') /\ Grows(db, db') /\ Keeps(db, db') /\ db'.detail = db.detail /\ db'.stamp = db.stamp
  BY <1>1, <1>2, WriteGrows
<1> QED
  BY <1>1, <1>3 DEF StoreMoves, StoreInv, StoreTypeOK, Answered, PendingIsInFlight, FetchTypeOK, Indexed,
                    IndexIsWhole, PassTypeOK, Stored, Keeps

LEMMA StoreStepsMove == StoreInv /\ StoreSteps => StoreMoves
<1> SUFFICES ASSUME StoreInv, StoreSteps PROVE StoreMoves
  OBVIOUS
<1>1. ASSUME NEW list \in SUBSET Airports, PassBegins(list) PROVE StoreMoves
  BY <1>1, PassesBegin
<1>2. CASE PassCompletes \/ PassInterrupted
  BY <1>2, PassesEnd
<1>3. ASSUME NEW chunk \in SUBSET Airports, NEW moved \in {{}, chunk \cap Stored(db)}, ChunkWritten(chunk, moved)
      PROVE  StoreMoves
  <2>1. moved \in SUBSET Airports
    OBVIOUS
  <2> QED
    BY <1>3, <2>1, ChunksAreWritten
<1>4. ASSUME NEW a \in Airports, FetchBegins(a) PROVE StoreMoves
  BY <1>4, FetchesBegin
<1>5. ASSUME NEW outcome \in {"detail", "absent", "failed", "restored"}, FetchEnds(outcome) PROVE StoreMoves
  BY <1>5, FetchesEnd
<1>6. ASSUME NEW f \in Fixes, FixWritten(f) PROVE StoreMoves
  BY <1>6, FixesAreWritten
<1> QED
  BY <1>1, <1>2, <1>3, <1>4, <1>5, <1>6 DEF StoreSteps

\* A store that is opened resets what a dead process left pending.
LEMMA ResetsMove ==
  ASSUME StoreInv, db' = ResetPendingDetail(db), pass' = Ended, fetch' = NoFetch PROVE StoreMoves
<1> DEFINE stale == {a \in Airports : db.detail[a] = "pending"}
           keys == {"airport"} \X stale
           t == Write(db, keys)
           d == [a \in Airports |-> IF a \in stale THEN "index" ELSE t.detail[a]]
<1>1. db' = [t EXCEPT !.detail = d]
  BY DEF ResetPendingDetail
<1>2. Sound(db)
  BY DEF StoreInv, StoreTypeOK
<1>3. keys \in SUBSET Keys
  BY KeysOfAirports
<1>4. Sound(t) /\ Grows(db, t) /\ Keeps(db, t) /\ t.detail = db.detail /\ t.stamp = db.stamp
  BY <1>2, <1>3, WriteGrows
<1>5. d \in [Airports -> Details] /\ \A a \in Airports : d[a] # "pending"
  BY <1>2, <1>4 DEF Sound, Stores, Details
<1> HIDE DEF t, d, keys
<1>6. Sound(db') /\ Grows(db, db') /\ Keeps(db, db') /\ db'.detail = d /\ db'.stamp = db.stamp
  <2> DEFINE u == [t EXCEPT !.detail = d]
  <2>1. Sound(u) /\ Grows(db, u) /\ Keeps(db, u) /\ u.detail = d /\ u.stamp = t.stamp
    BY <1>4, <1>5, SettingGrows
  <2> QED
    BY <1>1, <1>4, <2>1
<1>7. PassTypeOK' /\ ~pass'.on /\ pass'.list = pass.list
  BY DEF Ended, NoPass, StoreInv, PassTypeOK
<1>8. Indexed'
  BY <1>6, <1>7 DEF StoreInv, PassTypeOK, Indexed, IndexIsWhole, Stored, Keeps
<1>9. Answered' /\ FetchTypeOK'
  BY <1>5, <1>6 DEF Answered, PendingIsInFlight, FetchTypeOK, NoFetch, None
<1> QED
  BY <1>6, <1>7, <1>8, <1>9 DEF StoreMoves, StoreInv, StoreTypeOK

-----------------------------------------------------------------------------
(* What a store that grows leaves true. *)

LEMMA CursorInvIsAgreement == StoreTypeOK /\ ServersTypeOK /\ CursorInv => AckedRowsAreHeld
<1> SUFFICES ASSUME StoreTypeOK, CursorInv, NEW s \in Servers \ misled,
                    db.cursor[s].state = "incremental", db.cursor[s].epoch = db.epoch, srv[s].epoch = db.epoch,
                    NEW k \in Keys, db.row[k] \in 1 .. db.cursor[s].acked, <<k, db.row[k]>> \notin skipped[s]
             PROVE  srv[s].rows[k] = db.row[k]
  BY DEF AckedRowsAreHeld, Held
<1>1. 0 < db.row[k] /\ db.row[k] <= db.cursor[s].acked
  BY DEF StoreTypeOK, Sound, Stores, Cursors
<1> QED
  BY <1>1 DEF CursorInv, AllHonest, Honest

LEMMA CarriesOn ==
  ASSUME NEW s, NEW t, Sound(s), Sound(t), Ages(s, t), NEW r \in Requests, Carries(s, r)
  PROVE  Carries(t, r)
BY DEF Sound, Stores, Ages, Requests, Carries

LEMMA ContinuesOn ==
  ASSUME NEW s, NEW t, Sound(s), Sound(t), Ages(s, t), NEW r \in Requests, Carries(s, r),
         NEW cursor, Continues(s, r, cursor)
  PROVE  Continues(t, r, cursor)
BY DEF Sound, Stores, Ages, Requests, Carries, Continues

LEMMA HonestStill ==
  ASSUME NEW s, NEW t, Sound(s), Sound(t), Ages(s, t), NEW cursor \in Cursors, Behind(s, cursor),
         NEW replica, NEW stepped, Honest(s, replica, stepped, cursor)
  PROVE  Honest(t, replica, stepped, cursor)
<1> SUFFICES ASSUME cursor.state = "incremental", cursor.epoch = t.epoch, replica.epoch = t.epoch,
                    NEW k \in Keys, 0 < t.row[k], t.row[k] <= cursor.acked, <<k, t.row[k]>> \notin stepped
             PROVE  replica.rows[k] = t.row[k]
  BY DEF Honest
<1>1. t.epoch = s.epoch
  <2>1. s.epoch \in Nat /\ t.epoch \in Nat
    BY DEF Sound, Stores
  <2>2. s.epoch <= t.epoch /\ cursor.epoch <= s.epoch
    BY DEF Ages, Behind
  <2> QED
    BY <2>1, <2>2
<1>2. t.row[k] = s.row[k]
  <2>1. s.rev \in Nat /\ t.row[k] \in Nat /\ cursor.acked \in Nat
    BY DEF Sound, Stores, Cursors
  <2>2. cursor.acked <= s.rev /\ (t.row[k] = s.row[k] \/ s.rev < t.row[k])
    BY <1>1 DEF Ages, Behind
  <2> QED
    BY <2>1, <2>2
<1> QED
  BY <1>1, <1>2 DEF Honest

\* The server applies what a request carries, and loses nothing it is said to hold.
LEMMA HonestWhenApplied ==
  ASSUME NEW st, Sound(st), NEW r \in Requests, Carries(st, r), NEW cursor \in Cursors, cursor.acked <= r.to,
         NEW replica \in Replicas, NEW stepped, Honest(st, replica, stepped, cursor)
  PROVE  Honest(st, Applied(replica, r), stepped, cursor)
<1>1. CASE r.kind = "snapshot"
  BY <1>1 DEF Sound, Stores, Cursors, Requests, Applied, Honest, Carries
<1>2. CASE r.kind # "snapshot" /\ replica.epoch # r.epoch
  BY <1>2 DEF Applied
<1>3. CASE r.kind # "snapshot" /\ replica.epoch = r.epoch
  <2> DEFINE rows == [k \in Keys |-> IF r.rows[k] # 0 THEN r.rows[k] ELSE replica.rows[k]]
  <2>1. Applied(replica, r) = [epoch |-> replica.epoch, rows |-> rows]
    BY <1>3 DEF Applied, Replicas
  <2> SUFFICES ASSUME cursor.state = "incremental", cursor.epoch = st.epoch, replica.epoch = st.epoch,
                      NEW k \in Keys, 0 < st.row[k], st.row[k] <= cursor.acked,
                      <<k, st.row[k]>> \notin stepped
               PROVE  rows[k] = st.row[k]
    BY <2>1 DEF Honest
  <2>2. replica.rows[k] = st.row[k]
    BY DEF Honest
  <2>3. r.rows[k] # 0 => r.rows[k] = st.row[k]
    BY <1>3 DEF Carries, Sound, Stores, Cursors, Requests
  <2> QED
    BY <2>2, <2>3
<1> QED
  BY <1>1, <1>2, <1>3

\* A snapshot that is acknowledged is all there is up to its rev.
LEMMA HonestAfterSnapshot ==
  ASSUME NEW st, Sound(st), NEW r \in Requests, Carries(st, r), r.kind = "snapshot", NEW replica, NEW stepped
  PROVE  Honest(st, Applied(replica, r), stepped, [epoch |-> r.epoch, acked |-> r.to, state |-> "incremental"])
BY DEF Sound, Stores, Requests, Applied, Honest, Carries

\* A batch that is acknowledged adds the rows between the cursor and its rev.
LEMMA HonestAfterBatch ==
  ASSUME NEW st, Sound(st), NEW r \in Requests, Carries(st, r), r.kind = "rows", NEW cursor \in Cursors,
         Continues(st, r, cursor), NEW replica \in Replicas, replica.epoch = r.epoch,
         NEW stepped, Honest(st, replica, stepped, cursor)
  PROVE  Honest(st, Applied(replica, r), stepped,
                [epoch |-> cursor.epoch, acked |-> r.to, state |-> "incremental"])
<1> DEFINE rows == [k \in Keys |-> IF r.rows[k] # 0 THEN r.rows[k] ELSE replica.rows[k]]
<1>1. Applied(replica, r) = [epoch |-> replica.epoch, rows |-> rows]
  BY DEF Applied, Replicas
<1> SUFFICES ASSUME cursor.epoch = st.epoch, replica.epoch = st.epoch, NEW k \in Keys,
                    0 < st.row[k], st.row[k] <= r.to, <<k, st.row[k]>> \notin stepped
             PROVE  rows[k] = st.row[k]
  BY <1>1 DEF Honest
<1>2. st.row[k] \in Nat /\ r.from \in Nat /\ r.to \in Nat
  BY DEF Sound, Stores, Requests
<1>3. r.rows[k] # 0 => r.rows[k] = st.row[k]
  BY DEF Carries
<1>4. CASE st.row[k] <= r.from
  BY <1>3, <1>4 DEF Honest, Continues
<1>5. CASE r.from < st.row[k]
  BY <1>5 DEF Continues
<1> QED
  BY <1>2, <1>4, <1>5

\* What a batch of one transaction carries is stepped over, and said to be.
LEMMA HonestAfterStep ==
  ASSUME NEW st, Sound(st), NEW r \in Requests, r.kind = "rows", NEW cursor \in Cursors,
         Continues(st, r, cursor), OneRev(r), NEW replica \in Replicas, replica.epoch = r.epoch,
         NEW stepped, Honest(st, replica, stepped, cursor)
  PROVE  Honest(st, replica, stepped \cup {<<k, r.to>> : k \in CarriedBy(r)},
                [epoch |-> cursor.epoch, acked |-> r.to, state |-> "incremental"])
<1> DEFINE more == stepped \cup {<<k, r.to>> : k \in CarriedBy(r)}
<1> SUFFICES ASSUME cursor.epoch = st.epoch, replica.epoch = st.epoch, NEW k \in Keys,
                    0 < st.row[k], st.row[k] <= r.to, <<k, st.row[k]>> \notin more
             PROVE  replica.rows[k] = st.row[k]
  BY DEF Honest
<1>2. st.row[k] \in Nat /\ r.from \in Nat /\ r.to \in Nat
  BY DEF Sound, Stores, Requests
<1>3. CASE st.row[k] <= r.from
  BY <1>3 DEF Honest, Continues
<1>4. CASE r.from < st.row[k]
  <2>1. r.rows[k] = st.row[k]
    BY <1>4 DEF Continues
  <2>2. r.rows[k] = r.to /\ k \in CarriedBy(r)
    BY <2>1, <1>2 DEF OneRev, CarriedBy
  <2> QED
    BY <2>1, <2>2
<1> QED
  BY <1>2, <1>3, <1>4

-----------------------------------------------------------------------------
(* The steps of the loop, part by part of the invariant. *)

Parts == StoreInv /\ LoopTypeOK /\ ServersTypeOK /\ CursorInv /\ Drawable

LEMMA CursorsAreTyped ==
  ASSUME NEW st, Sound(st), NEW s \in Servers
  PROVE  /\ st.cursor[s] \in Cursors /\ st.cursor[s].epoch \in Nat /\ st.cursor[s].acked \in Nat
         /\ st.cursor[s].state \in States /\ st.epoch \in Nat /\ st.rev \in Nat
         /\ st.cursor[s] = [epoch |-> st.cursor[s].epoch, acked |-> st.cursor[s].acked,
                            state |-> st.cursor[s].state]
BY DEF Sound, Stores, Cursors

\* The store's own claims are not about the loop.
LEMMA StoreRests ==
  ASSUME StoreInv, Rests(db, db'), UNCHANGED <<pass, fetch>> PROVE StoreInv'
BY DEF StoreInv, StoreTypeOK, Rests, PassTypeOK, FetchTypeOK, Indexed, IndexIsWhole, Answered,
       PendingIsInFlight, Stored

LEMMA RestingAges == ASSUME NEW s, NEW t, Sound(s), Rests(s, t) PROVE Ages(s, t) /\ Sound(t)
BY DEF Rests, Ages, Sound, Stores

LEMMA SameBacks == ASSUME NEW s, Sound(s) PROVE Rests(s, s) /\ Backs(s, s)
<1>1. s.rev \in Nat /\ \A g \in Servers : s.cursor[g].acked \in Nat
  BY CursorsAreTyped DEF Sound, Stores
<1> QED
  BY <1>1 DEF Rests, Backs

LEMMA GrowingBacks == ASSUME NEW s, NEW t, Sound(s), Grows(s, t) PROVE Ages(s, t) /\ Backs(s, t)
<1>1. \A g \in Servers : s.cursor[g].acked \in Nat
  BY CursorsAreTyped
<1> QED
  BY <1>1 DEF Grows, Backs

\* A cursor is set back.
LEMMA SetsBack ==
  ASSUME NEW s, Sound(s), NEW f \in Servers, NEW c \in Cursors,
         c.epoch = s.cursor[f].epoch, c.acked <= s.cursor[f].acked, c.state = "incremental" => c = s.cursor[f]
  PROVE  /\ Rests(s, SetCursor(s, f, c)) /\ Backs(s, SetCursor(s, f, c))
         /\ SetCursor(s, f, c).rev = s.rev + 1 /\ SetCursor(s, f, c).cursor[f] = c
<1> DEFINE t == SetCursor(s, f, c)
<1>1. /\ Sound(t) /\ t.epoch = s.epoch /\ t.rev = s.rev + 1 /\ t.row = s.row
      /\ t.detail = s.detail /\ t.stamp = s.stamp /\ t.cursor = [s.cursor EXCEPT ![f] = c]
  BY CursorMoves
<1> HIDE DEF t
<1>2. s.rev \in Nat /\ s.cursor \in [Servers -> Cursors]
  BY DEF Sound, Stores
<1>3. Rests(s, t)
  BY <1>1, <1>2 DEF Rests
<1>4. t.cursor[f] = c /\ \A g \in Servers : g # f => t.cursor[g] = s.cursor[g]
  BY <1>1, <1>2
<1>5. ASSUME NEW g \in Servers
      PROVE  /\ t.cursor[g].epoch = s.cursor[g].epoch /\ t.cursor[g].acked <= s.cursor[g].acked
             /\ t.cursor[g].state = "incremental" => t.cursor[g] = s.cursor[g]
  <2>1. CASE g = f
    BY <1>4, <2>1
  <2>2. CASE g # f
    <3>1. s.cursor[g].acked \in Nat
      BY CursorsAreTyped
    <3> QED
      BY <1>4, <2>2, <3>1
  <2> QED
    BY <2>1, <2>2
<1> QED
  BY <1>1, <1>3, <1>4, <1>5 DEF Backs, t

LEMMA AllStayBehind ==
  ASSUME Sound(db), Sound(db'), Ages(db, db'), Backs(db, db'), AllBehind PROVE AllBehind'
<1> SUFFICES ASSUME NEW s \in Servers PROVE Behind(db', db'.cursor[s])
  BY DEF AllBehind
<1>1. /\ db.cursor[s].epoch \in Nat /\ db.cursor[s].acked \in Nat /\ db.epoch \in Nat /\ db.rev \in Nat
      /\ db'.cursor[s].epoch \in Nat /\ db'.cursor[s].acked \in Nat /\ db'.epoch \in Nat /\ db'.rev \in Nat
  BY CursorsAreTyped
<1>2. /\ db.cursor[s].epoch <= db.epoch /\ db.cursor[s].acked <= db.rev
      /\ db.epoch <= db'.epoch /\ db.rev <= db'.rev
      /\ db'.cursor[s].epoch = db.cursor[s].epoch /\ db'.cursor[s].acked <= db.cursor[s].acked
  BY DEF AllBehind, Behind, Ages, Backs
<1> QED
  BY <1>1, <1>2 DEF Behind

\* A request that is out stays good while the store grows and the cursors are still.
LEMMA SentStays ==
  ASSUME Sound(db), Sound(db'), LoopTypeOK, Grows(db, db'), Sent,
         y'.phase = "idle" \/ (y'.phase # "idle" /\ y.phase # "idle"
                               /\ \E at \in Servers \cup {None} : y'.req = [y.req EXCEPT !.at = at])
  PROVE  Sent'
<1>1. CASE y'.phase = "idle"
  BY <1>1 DEF Sent
<1>2. ASSUME y'.phase # "idle", y.phase # "idle", NEW at \in Servers \cup {None},
             y'.req = [y.req EXCEPT !.at = at]
      PROVE  Sent'
  <2> DEFINE r == y.req
             q == y'.req
  <2>1. r \in Requests /\ r.for \in Servers
    BY <1>2 DEF LoopTypeOK, Loops
  <2>2. Ages(db, db') /\ db'.cursor = db.cursor
    BY DEF Grows
  <2>3. Carries(db', r)
    BY <1>2, <2>1, <2>2, CarriesOn DEF Sent
  <2>4. r.kind = "rows" => Continues(db', r, db'.cursor[r.for])
    BY <1>2, <2>1, <2>2, ContinuesOn DEF Sent
  <2>5. r.kind = "snapshot" => (\A s \in Servers : db'.cursor[s].acked <= r.to)
    BY <1>2, <2>2 DEF Sent
  <2>6. /\ q.kind = r.kind /\ q.for = r.for /\ q.epoch = r.epoch /\ q.from = r.from /\ q.to = r.to
        /\ q.rows = r.rows
    BY <1>2, <2>1 DEF Requests
  <2> HIDE DEF r, q
  <2>7. /\ Carries(db', q) /\ (q.kind = "rows" => Continues(db', q, db'.cursor[q.for]))
        /\ q.kind = "snapshot" => (\A s \in Servers : db'.cursor[s].acked <= q.to)
    BY <2>3, <2>4, <2>5, <2>6 DEF Carries, Continues
  <2> QED
    BY <2>7 DEF Sent, q
<1> QED
  BY <1>1, <1>2

LEMMA OverdueStays ==
  ASSUME Sound(db), Sound(db'), ServersTypeOK, Ages(db, db'), Backs(db, db'), Overdue, UNCHANGED <<late, misled>>
  PROVE  Overdue'
<1> SUFFICES ASSUME NEW s \in Servers, late[s] # NoReq
             PROVE  Carries(db', late[s]) /\ (s \in misled \/ db'.cursor[s].acked <= late[s].to)
  BY DEF Overdue
<1>1. late[s] \in Requests /\ Carries(db, late[s])
  BY DEF ServersTypeOK, Overdue
<1>2. Carries(db', late[s])
  BY <1>1, CarriesOn
<1>3. s \notin misled => db'.cursor[s].acked <= late[s].to
  <2>1. db'.cursor[s].acked \in Nat /\ db.cursor[s].acked \in Nat /\ late[s].to \in Nat
    BY <1>1, CursorsAreTyped DEF Requests
  <2>2. db'.cursor[s].acked <= db.cursor[s].acked
    BY DEF Backs
  <2>3. s \notin misled => db.cursor[s].acked <= late[s].to
    BY DEF Overdue
  <2> QED
    BY <2>1, <2>2, <2>3
<1> QED
  BY <1>2, <1>3

LEMMA HonestStays ==
  ASSUME NEW s \in Servers, Sound(db), Sound(db'), Ages(db, db'), Backs(db, db'), Behind(db, db.cursor[s]),
         NEW replica, NEW stepped, Honest(db, replica, stepped, db.cursor[s])
  PROVE  Honest(db', replica, stepped, db'.cursor[s])
<1>1. CASE db'.cursor[s] = db.cursor[s]
  BY <1>1, CursorsAreTyped, HonestStill
<1>2. CASE db'.cursor[s].state # "incremental"
  BY <1>2 DEF Honest
<1> QED
  BY <1>1, <1>2 DEF Backs

LEMMA AllStayHonest ==
  ASSUME Sound(db), Sound(db'), Ages(db, db'), Backs(db, db'), AllBehind, AllHonest, UNCHANGED <<srv, misled, skipped>>
  PROVE  AllHonest'
BY HonestStays DEF AllHonest, AllBehind

LEMMA NoReqIsNone == NoReq \in Requests /\ NoReq.kind = None /\ Draws(NoReq) /\ NoRows \in [Keys -> Nat]
BY DEF NoReq, NoRows, Requests, Draws, None

LEMMA IdleIsTyped ==
  ASSUME NEW l \in Loops
  PROVE  /\ Idle(l) \in Loops /\ Idle(l).phase = "idle" /\ Idle(l).req = NoReq
         /\ Idle(l).server = l.server
<1> DEFINE b == l.running /\ ~l.latched
           i == [running |-> l.running, timer |-> b, phase |-> "idle", server |-> l.server,
                 limited |-> l.limited, scanned |-> l.scanned, bound |-> l.bound,
                 latched |-> l.latched, req |-> NoReq]
<1>1. l.running \in BOOLEAN /\ l.latched \in BOOLEAN
  BY DEF Loops
<1>2. b \in BOOLEAN
  BY <1>1, Zenon
<1>3. Idle(l) = i
  <2> DEFINE u == [l EXCEPT !.phase = "idle", !.req = NoReq]
  <2>1. u = [running |-> l.running, timer |-> l.timer, phase |-> "idle", server |-> l.server,
             limited |-> l.limited, scanned |-> l.scanned, bound |-> l.bound,
             latched |-> l.latched, req |-> NoReq]
    <3> DEFINE p == [l EXCEPT !.phase = "idle"]
    <3>1. p = [running |-> l.running, timer |-> l.timer, phase |-> "idle", server |-> l.server,
               limited |-> l.limited, scanned |-> l.scanned, bound |-> l.bound,
               latched |-> l.latched, req |-> l.req]
      BY DEF Loops
    <3>2. u = [p EXCEPT !.req = NoReq]
      BY Zenon
    <3> HIDE DEF p, u
    <3> QED
      BY <3>1, <3>2
  <2>2. Idle(l) = [u EXCEPT !.timer = u.running /\ ~u.latched]
    BY Zenon DEF Idle, Schedule
  <2> HIDE DEF u
  <2> QED
    BY <2>1, <2>2
<1> HIDE DEF b
<1> QED
  BY <1>2, <1>3, NoReqIsNone DEF Loops

\* A step that leaves the loop idle has nothing more to say of a request.
LEMMA EndsIdle ==
  ASSUME NEW l \in Loops, y' = Idle(l)
  PROVE  LoopTypeOK' /\ Sent' /\ Draws(y'.req)
<1>1. y' \in Loops /\ y'.phase = "idle" /\ y'.req = NoReq
  BY IdleIsTyped
<1> QED
  BY <1>1, NoReqIsNone DEF LoopTypeOK, Sent

\* The loop sets cursors back, and its request is one that may be out.
LEMMA CursorsSetBack ==
  ASSUME Parts, Rests(db, db'), Backs(db, db'), LoopTypeOK', Sent', Draws(y'.req),
         UNCHANGED <<pass, fetch, srv, late, misled, skipped>>
  PROVE  Parts'
<1>1. Sound(db) /\ Sound(db') /\ Ages(db, db')
  BY RestingAges DEF Parts, StoreInv, StoreTypeOK
<1>2. StoreInv'
  BY StoreRests DEF Parts
<1>3. ServersTypeOK'
  BY DEF Parts, ServersTypeOK
<1>4. AllBehind' /\ Overdue' /\ AllHonest'
  BY <1>1, AllStayBehind, OverdueStays, AllStayHonest DEF Parts, CursorInv
<1>5. Drawable'
  BY DEF Parts, Drawable
<1> QED
  BY <1>2, <1>3, <1>4, <1>5 DEF Parts, CursorInv

\* A step of the loop that sets no cursor ahead and no replica, and leaves the loop idle.
LEMMA GivesUp ==
  ASSUME Parts, NEW l \in Loops, y' = Idle(l), Rests(db, db'), Backs(db, db'),
         UNCHANGED <<pass, fetch, srv, late, misled, skipped>>
  PROVE  Parts'
<1>1. LoopTypeOK' /\ Sent' /\ Draws(y'.req)
  BY EndsIdle
<1> QED
  BY <1>1, CursorsSetBack

LEMMA RecordsError ==
  ASSUME NEW s, Sound(s), NEW f \in Servers
  PROVE  Rests(s, RecordError(s, f)) /\ Backs(s, RecordError(s, f))
<1> DEFINE c == s.cursor[f]
<1>0. c \in Cursors /\ c.acked \in Nat
  BY CursorsAreTyped
<1>1. c.acked <= s.cursor[f].acked
  BY <1>0
<1> HIDE DEF c
<1>2. c = s.cursor[f]
  BY DEF c
<1>3. Rests(s, SetCursor(s, f, c)) /\ Backs(s, SetCursor(s, f, c))
  BY <1>0, <1>1, <1>2, SetsBack
<1> QED
  BY <1>3, <1>2 DEF RecordError

LEMMA LoopIsTyped == Parts => y \in Loops /\ Sound(db)
BY DEF Parts, LoopTypeOK, StoreInv, StoreTypeOK

\* Whoever is sending has a request for a server at a server.
LEMMA SendingIsTyped ==
  ASSUME Parts, y.phase = "sending"
  PROVE  /\ y.req \in Requests /\ y.req.for \in Servers /\ y.req.at \in Servers
         /\ y.req.kind \in {"snapshot", "rows"} /\ (y.req.kind = "rows" => y.req.at = y.req.for)
         /\ Carries(db, y.req)
         /\ y.req.kind = "snapshot" => (\A s \in Servers : db.cursor[s].acked <= y.req.to)
         /\ y.req.kind = "rows" => Continues(db, y.req, db.cursor[y.req.for])
BY DEF Parts, LoopTypeOK, Loops, Requests, CursorInv, Sent

LEMMA ExportsFail == Parts /\ ExportFails => Parts'
<1> SUFFICES ASSUME Parts, ExportFails PROVE Parts'
  OBVIOUS
<1>1. y.req.for \in Servers /\ y \in Loops /\ Sound(db)
  BY LoopIsTyped DEF Parts, LoopTypeOK, ExportFails
<1>2. Rests(db, db') /\ Backs(db, db')
  BY <1>1, RecordsError DEF ExportFails
<1> QED
  BY <1>1, <1>2, GivesUp DEF ExportFails

LEMMA Mismatches == Parts /\ Mismatch => Parts'
<1> SUFFICES ASSUME Parts, Mismatch PROVE Parts'
  OBVIOUS
<1>1. y.phase = "sending" /\ y \in Loops /\ Sound(db)
  BY LoopIsTyped DEF Mismatch, Asked
<1> DEFINE f == y.req.for
           c == [db.cursor[f] EXCEPT !.state = "resync-required", !.acked = 0]
<1>2. f \in Servers
  BY <1>1, SendingIsTyped
<1> HIDE DEF f
<1>3. /\ c \in Cursors /\ c.epoch = db.cursor[f].epoch /\ c.acked <= db.cursor[f].acked
      /\ c.state # "incremental"
  <2>1. /\ db.cursor[f].epoch \in Nat /\ db.cursor[f].acked \in Nat
        /\ db.cursor[f] = [epoch |-> db.cursor[f].epoch, acked |-> db.cursor[f].acked,
                           state |-> db.cursor[f].state]
    BY <1>1, <1>2, CursorsAreTyped
  <2>2. c = [epoch |-> db.cursor[f].epoch, acked |-> 0, state |-> "resync-required"]
    <3> DEFINE u == [db.cursor[f] EXCEPT !.state = "resync-required"]
    <3>1. u = [epoch |-> db.cursor[f].epoch, acked |-> db.cursor[f].acked, state |-> "resync-required"]
      BY <2>1
    <3>2. c = [u EXCEPT !.acked = 0]
      BY Zenon
    <3> HIDE DEF u, c
    <3> QED
      BY <3>1, <3>2
  <2> QED
    BY <2>1, <2>2 DEF Cursors, States
<1>4. db' = SetCursor(db, f, c)
  BY DEF Mismatch, f
<1> HIDE DEF c
<1>5. Rests(db, db') /\ Backs(db, db')
  BY <1>1, <1>2, <1>3, <1>4, SetsBack
<1> QED
  BY <1>1, <1>5, GivesUp DEF Mismatch, Elsewhere

LEMMA Unsupports == Parts /\ Unsupported => Parts'
<1> SUFFICES ASSUME Parts, Unsupported PROVE Parts'
  OBVIOUS
<1>1. y.phase = "sending" /\ y \in Loops /\ Sound(db)
  BY LoopIsTyped DEF Unsupported, Asked
<1> DEFINE f == y.req.for
           c == [db.cursor[f] EXCEPT !.state = "failed"]
           l == [y EXCEPT !.latched = TRUE]
<1>2. f \in Servers
  BY <1>1, SendingIsTyped
<1>3. l \in Loops
  BY <1>1 DEF Loops
<1> HIDE DEF f
<1>4. /\ c \in Cursors /\ c.epoch = db.cursor[f].epoch /\ c.acked <= db.cursor[f].acked
      /\ c.state # "incremental"
  <2>1. /\ db.cursor[f].epoch \in Nat /\ db.cursor[f].acked \in Nat
        /\ db.cursor[f] = [epoch |-> db.cursor[f].epoch, acked |-> db.cursor[f].acked,
                           state |-> db.cursor[f].state]
    BY <1>1, <1>2, CursorsAreTyped
  <2>2. c = [epoch |-> db.cursor[f].epoch, acked |-> db.cursor[f].acked, state |-> "failed"]
    BY <2>1
  <2> QED
    BY <2>1, <2>2 DEF Cursors, States
<1>5. db' = SetCursor(db, f, c) /\ y' = Idle(l)
  BY DEF Unsupported, f
<1> HIDE DEF c, l
<1>6. Rests(db, db') /\ Backs(db, db')
  BY <1>1, <1>2, <1>4, <1>5, SetsBack
<1> QED
  BY <1>3, <1>5, <1>6, GivesUp DEF Unsupported, Quiet

LEMMA Busies == Parts /\ Busy => Parts'
BY LoopIsTyped, SameBacks, GivesUp DEF Busy, Quiet

-----------------------------------------------------------------------------
(* Answers that change a replica or move a cursor. *)

\* A request the server at r.at applies is not below the cursor of that server.
LEMMA NoCursorIsAhead ==
  ASSUME Parts, y.phase = "sending"
  PROVE  db.cursor[y.req.at].acked <= y.req.to
<1>1. /\ y.req \in Requests /\ y.req.at \in Servers /\ y.req.kind \in {"snapshot", "rows"}
      /\ (y.req.kind = "rows" => y.req.at = y.req.for)
      /\ y.req.kind = "snapshot" => (\A s \in Servers : db.cursor[s].acked <= y.req.to)
      /\ y.req.kind = "rows" => Continues(db, y.req, db.cursor[y.req.for])
  BY SendingIsTyped
<1>2. CASE y.req.kind = "snapshot"
  BY <1>1, <1>2
<1>3. CASE y.req.kind = "rows"
  BY <1>1, <1>3 DEF Continues
<1> QED
  BY <1>1, <1>2, <1>3

LEMMA AppliedIsTyped ==
  ASSUME NEW replica \in Replicas, NEW r \in Requests PROVE Applied(replica, r) \in Replicas
<1>1. CASE r.kind = "snapshot"
  BY <1>1 DEF Applied, Replicas, Requests
<1>2. CASE r.kind # "snapshot" /\ replica.epoch # r.epoch
  BY <1>2 DEF Applied
<1>3. CASE r.kind # "snapshot" /\ replica.epoch = r.epoch
  <2> DEFINE rows == [k \in Keys |-> IF r.rows[k] # 0 THEN r.rows[k] ELSE replica.rows[k]]
  <2>1. Applied(replica, r) = [epoch |-> replica.epoch, rows |-> rows]
    BY <1>3 DEF Applied, Replicas
  <2>2. rows \in [Keys -> Nat \cup {Foreign}]
    BY DEF Replicas, Requests
  <2> HIDE DEF rows
  <2> QED
    BY <2>1, <2>2 DEF Replicas
<1> QED
  BY <1>1, <1>2, <1>3

LEMMA AnswersAreLost == ASSUME NEW arrived \in BOOLEAN, Parts, AnswerLost(arrived) PROVE Parts'
<1> DEFINE r == y.req
           f == r.for
           a == r.at
<1>1. /\ y.phase = "sending" /\ y \in Loops /\ Sound(db) /\ y' = Idle(y) /\ db' = RecordError(db, f)
      /\ UNCHANGED <<pass, fetch, late, misled, skipped>>
      /\ srv' = srv \/ srv' = [srv EXCEPT ![a] = Applied(@, r)]
  BY LoopIsTyped DEF AnswerLost, Asked, Quiet
<1>2. r \in Requests /\ f \in Servers /\ a \in Servers /\ Carries(db, r)
  BY <1>1, SendingIsTyped
<1>3. db.cursor[a].acked <= r.to
  BY <1>1, NoCursorIsAhead
<1> HIDE DEF r, f, a
<1>4. Rests(db, db') /\ Backs(db, db')
  BY <1>1, <1>2, RecordsError
<1>5. Sound(db') /\ Ages(db, db')
  BY <1>1, <1>4, RestingAges
<1>6. StoreInv'
  BY <1>1, <1>4, StoreRests DEF Parts
<1>7. LoopTypeOK' /\ Sent' /\ Draws(y'.req)
  BY <1>1, EndsIdle
<1>8. srv \in [Servers -> Replicas] /\ srv' \in [Servers -> Replicas]
  <2>1. srv \in [Servers -> Replicas]
    BY DEF Parts, ServersTypeOK
  <2>2. Applied(srv[a], r) \in Replicas
    BY <1>2, <2>1, AppliedIsTyped
  <2> QED
    BY <1>1, <2>1, <2>2
<1>9. ServersTypeOK'
  BY <1>1, <1>8 DEF Parts, ServersTypeOK
<1>10. AllBehind' /\ Overdue'
  BY <1>1, <1>4, <1>5, AllStayBehind, OverdueStays DEF Parts, CursorInv
<1>11. AllHonest'
  <2> SUFFICES ASSUME NEW s \in Servers \ misled
               PROVE  Honest(db', srv'[s], skipped[s], db'.cursor[s])
    BY <1>1 DEF AllHonest
  <2>1. Honest(db, srv[s], skipped[s], db.cursor[s]) /\ Behind(db, db.cursor[s])
    BY DEF Parts, CursorInv, AllHonest, AllBehind
  <2>2. Honest(db, srv'[s], skipped[s], db.cursor[s])
    <3>1. CASE srv'[s] = srv[s]
      BY <2>1, <3>1
    <3>2. CASE s = a /\ srv'[s] = Applied(srv[s], r)
      <4>1. srv[s] \in Replicas /\ db.cursor[s] \in Cursors /\ db.cursor[s].acked <= r.to
        BY <1>1, <1>3, <1>8, <3>2, CursorsAreTyped
      <4> QED
        BY <1>1, <1>2, <2>1, <3>2, <4>1, HonestWhenApplied
    <3> QED
      BY <1>1, <1>8, <3>1, <3>2
  <2> QED
    BY <1>1, <1>4, <1>5, <2>1, <2>2, HonestStays
<1>12. Drawable'
  BY <1>1, <1>7 DEF Parts, Drawable
<1> QED
  BY <1>6, <1>7, <1>9, <1>10, <1>11, <1>12 DEF Parts, CursorInv

\* A request that becomes overdue at its server: it was not below the cursor.
LEMMA BecomesOverdue ==
  ASSUME Parts, Sound(db'), Ages(db, db'), Backs(db, db'), y.phase = "sending",
         late' = [late EXCEPT ![y.req.at] = y.req], misled' = misled
  PROVE  Overdue' /\ late' \in [Servers -> Requests] /\ (\A s \in Servers : Draws(late'[s]))
         /\ (\A s \in Servers : late'[s] # NoReq => late'[s].kind # None)
<1> DEFINE r == y.req
           a == r.at
<1>0. Sound(db) /\ late \in [Servers -> Requests] /\ \A s \in Servers : late[s] # NoReq => late[s].kind # None
  BY LoopIsTyped DEF Parts, ServersTypeOK
<1>1. r \in Requests /\ a \in Servers /\ r.kind \in {"snapshot", "rows"} /\ Carries(db, r)
  BY SendingIsTyped
<1>2. db.cursor[a].acked <= r.to
  BY NoCursorIsAhead
<1>3. Draws(r) /\ \A s \in Servers : Draws(late[s])
  BY DEF Parts, Drawable
<1>4. late' = [late EXCEPT ![a] = r]
  OBVIOUS
<1> HIDE DEF r, a
<1>5. ASSUME NEW s \in Servers, late'[s] # NoReq
      PROVE  Carries(db', late'[s]) /\ (s \in misled \/ db'.cursor[s].acked <= late'[s].to)
  <2>1. late'[s] \in Requests /\ Carries(db, late'[s]) /\ (s \in misled \/ db.cursor[s].acked <= late'[s].to)
    <3>1. CASE s = a
      BY <1>0, <1>1, <1>2, <1>4, <3>1
    <3>2. CASE s # a
      BY <1>0, <1>4, <1>5, <3>2 DEF Parts, CursorInv, Overdue
    <3> QED
      BY <3>1, <3>2
  <2>2. Carries(db', late'[s])
    BY <1>0, <2>1, CarriesOn
  <2>3. db'.cursor[s].acked <= db.cursor[s].acked
    BY DEF Backs
  <2>4. db'.cursor[s].acked \in Nat /\ db.cursor[s].acked \in Nat /\ late'[s].to \in Nat
    BY <1>0, <2>1, CursorsAreTyped DEF Requests
  <2> QED
    BY <2>1, <2>2, <2>3, <2>4
<1>6. Overdue'
  BY <1>5 DEF Overdue
<1>7. late' \in [Servers -> Requests] /\ \A s \in Servers : Draws(late'[s])
  BY <1>0, <1>1, <1>3, <1>4
<1>8. r.kind # None
  BY <1>1 DEF None
<1> QED
  BY <1>0, <1>4, <1>6, <1>7, <1>8

LEMMA RequestsTimeOut == Parts /\ TimesOut => Parts'
<1> SUFFICES ASSUME Parts, TimesOut PROVE Parts'
  OBVIOUS
<1>1. /\ y.phase = "sending" /\ y \in Loops /\ Sound(db) /\ y' = Idle(y) /\ db' = RecordError(db, y.req.for)
      /\ UNCHANGED <<pass, fetch, srv, misled, skipped>> /\ late' = [late EXCEPT ![y.req.at] = y.req]
  BY LoopIsTyped DEF TimesOut, Asked, Quiet
<1>2. y.req.for \in Servers
  BY <1>1, SendingIsTyped
<1>3. Rests(db, db') /\ Backs(db, db')
  BY <1>1, <1>2, RecordsError
<1>4. Sound(db') /\ Ages(db, db')
  BY <1>1, <1>3, RestingAges
<1>5. StoreInv'
  BY <1>1, <1>3, StoreRests DEF Parts
<1>6. LoopTypeOK' /\ Sent' /\ Draws(y'.req)
  BY <1>1, EndsIdle
<1>7. Overdue' /\ late' \in [Servers -> Requests] /\ (\A s \in Servers : Draws(late'[s]))
      /\ (\A s \in Servers : late'[s] # NoReq => late'[s].kind # None)
  BY <1>1, <1>3, <1>4, BecomesOverdue
<1>8. ServersTypeOK'
  BY <1>1, <1>7 DEF Parts, ServersTypeOK
<1>9. AllBehind' /\ AllHonest'
  BY <1>1, <1>3, <1>4, AllStayBehind, AllStayHonest DEF Parts, CursorInv
<1>10. Drawable'
  BY <1>6, <1>7 DEF Drawable
<1> QED
  BY <1>5, <1>6, <1>7, <1>8, <1>9, <1>10 DEF Parts, CursorInv

-----------------------------------------------------------------------------
(* Answers that move the cursor ahead. *)

\* Whatever the answer, the cursor that moves to the rev of the request is of
\* the server that has none overdue, or of one that is misled by it.
LEMMA CursorAdvances ==
  ASSUME Parts, y.phase = "sending", late[y.req.at] = NoReq,
         NEW c \in Cursors, c.epoch <= db.epoch, c.acked = y.req.to, db' = SetCursor(db, y.req.for, c),
         NEW l \in Loops, y' = Idle(l), UNCHANGED <<pass, fetch, late>>,
         \A s \in misled : s # y.req.for => s \in misled',
         y.req.at # y.req.for => y.req.for \in misled'
  PROVE  /\ StoreInv' /\ LoopTypeOK' /\ AllBehind' /\ Sent' /\ Overdue' /\ Drawable'
         /\ Sound(db') /\ Ages(db, db') /\ db'.cursor[y.req.for] = c
         /\ \A s \in Servers : s # y.req.for => db'.cursor[s] = db.cursor[s]
<1> DEFINE f == y.req.for
           to == y.req.to
<1>0. /\ Sound(db) /\ f \in Servers /\ Carries(db, y.req) /\ y.req \in Requests /\ to \in Nat /\ c.acked = to
      /\ db' = SetCursor(db, f, c) /\ y.req.at \in Servers
  BY SendingIsTyped, LoopIsTyped DEF Requests
<1>1. to <= db.rev
  BY <1>0 DEF Carries
<1>2. \A s \in misled : s # f => s \in misled'
  OBVIOUS
<1> HIDE DEF f, to
<1>3. /\ Sound(db') /\ db'.epoch = db.epoch /\ db'.rev = db.rev + 1 /\ db'.row = db.row
      /\ db'.detail = db.detail /\ db'.stamp = db.stamp /\ db'.cursor = [db.cursor EXCEPT ![f] = c]
  BY <1>0, CursorMoves
<1>4. db.rev \in Nat /\ db.epoch \in Nat /\ db.cursor \in [Servers -> Cursors]
  BY <1>0 DEF Sound, Stores
<1>5. Rests(db, db')
  BY <1>3, <1>4 DEF Rests
<1>6. StoreInv' /\ Ages(db, db')
  BY <1>0, <1>5, RestingAges, StoreRests DEF Parts
<1>7. db'.cursor[f] = c /\ \A s \in Servers : s # f => db'.cursor[s] = db.cursor[s]
  BY <1>0, <1>3, <1>4
<1>8. AllBehind'
  <2> SUFFICES ASSUME NEW s \in Servers PROVE Behind(db', db'.cursor[s])
    BY DEF AllBehind
  <2>1. CASE s = f
    BY <1>0, <1>1, <1>3, <1>4, <1>7, <2>1 DEF Behind
  <2>2. CASE s # f
    <3>1. Behind(db, db.cursor[s]) /\ db.cursor[s].acked \in Nat
      BY <1>0, CursorsAreTyped DEF Parts, CursorInv, AllBehind
    <3> QED
      BY <1>3, <1>4, <1>7, <2>2, <3>1 DEF Behind
  <2> QED
    BY <2>1, <2>2
<1>9. LoopTypeOK' /\ Sent' /\ Draws(y'.req)
  BY EndsIdle
<1>10. Overdue'
  <2> SUFFICES ASSUME NEW s \in Servers, late[s] # NoReq
               PROVE  Carries(db', late[s]) /\ (s \in misled' \/ db'.cursor[s].acked <= late[s].to)
    BY DEF Overdue
  <2>1. late[s] \in Requests /\ Carries(db, late[s]) /\ (s \in misled \/ db.cursor[s].acked <= late[s].to)
    BY DEF Parts, ServersTypeOK, CursorInv, Overdue
  <2>2. Carries(db', late[s])
    BY <1>0, <1>3, <1>6, <2>1, CarriesOn
  <2>3. CASE s = f
    BY <2>2, <2>3 DEF f
  <2>4. CASE s # f
    BY <1>2, <1>7, <2>1, <2>2, <2>4
  <2> QED
    BY <2>3, <2>4
<1>11. Drawable'
  BY <1>9 DEF Parts, Drawable
<1> QED
  BY <1>3, <1>6, <1>7, <1>8, <1>9, <1>10, <1>11 DEF f

LEMMA Acknowledges == Parts /\ Acknowledged => Parts'
<1> SUFFICES ASSUME Parts, Acknowledged PROVE Parts'
  OBVIOUS
<1> DEFINE r == y.req
           f == r.for
           a == r.at
           c == [epoch |-> IF r.kind = "snapshot" THEN r.epoch ELSE db.cursor[f].epoch,
                 acked |-> r.to, state |-> "incremental"]
           l == [y EXCEPT !.bound = IF r.kind = "rows" THEN BatchMaxRows ELSE @]
<1>1. /\ y.phase = "sending" /\ late[a] = NoReq /\ y \in Loops /\ Sound(db) /\ Takes(r)
      /\ db' = SetCursor(db, f, c) /\ y' = Idle(l) /\ srv' = [srv EXCEPT ![a] = Applied(@, r)]
      /\ UNCHANGED <<pass, fetch, late>>
      /\ misled' = IF r.kind # "snapshot" THEN misled
                   ELSE IF a # f THEN misled \cup {f} ELSE misled \ {f}
      /\ skipped' = IF r.kind = "snapshot" THEN [skipped EXCEPT ![f] = {}] ELSE skipped
  BY LoopIsTyped DEF Acknowledged, Acked, Asked, Quiet
<1>2. /\ r \in Requests /\ f \in Servers /\ a \in Servers /\ r.kind \in {"snapshot", "rows"}
      /\ (r.kind = "rows" => a = f) /\ Carries(db, r)
      /\ (r.kind = "rows" => Continues(db, r, db.cursor[f]))
  BY <1>1, SendingIsTyped
<1>3. db.cursor[a].acked <= r.to
  BY <1>1, NoCursorIsAhead
<1>4. l \in Loops
  BY <1>1, SyncAssumption DEF Loops
<1>5. c \in Cursors /\ c.epoch <= db.epoch /\ c.acked = r.to
  <2>1. db.cursor[f].epoch \in Nat /\ db.cursor[f].epoch <= db.epoch
    BY <1>1, <1>2, CursorsAreTyped DEF Parts, CursorInv, AllBehind, Behind
  <2>2. r.epoch \in Nat /\ r.to \in Nat /\ r.epoch <= db.epoch
    BY <1>2 DEF Requests, Carries
  <2> QED
    BY <2>1, <2>2 DEF Cursors, States
<1>6. /\ \A s \in misled : s # f => s \in misled'
      /\ a # f => f \in misled'
      /\ misled' \subseteq Servers
  BY <1>1, <1>2 DEF Parts, ServersTypeOK
<1> HIDE DEF l, c
<1>7. /\ StoreInv' /\ LoopTypeOK' /\ AllBehind' /\ Sent' /\ Overdue' /\ Drawable'
      /\ Sound(db') /\ Ages(db, db') /\ db'.cursor[f] = c
      /\ \A s \in Servers : s # f => db'.cursor[s] = db.cursor[s]
  BY <1>1, <1>4, <1>5, <1>6, CursorAdvances
<1> HIDE DEF r, f, a
<1>8. /\ srv \in [Servers -> Replicas] /\ srv' \in [Servers -> Replicas]
      /\ srv'[a] = Applied(srv[a], r) /\ \A s \in Servers : s # a => srv'[s] = srv[s]
  <2>1. srv \in [Servers -> Replicas]
    BY DEF Parts, ServersTypeOK
  <2>2. Applied(srv[a], r) \in Replicas
    BY <1>2, <2>1, AppliedIsTyped
  <2> QED
    BY <1>1, <1>2, <2>1, <2>2
<1>9. skipped \in [Servers -> SUBSET (Keys \X Nat)] /\ skipped' \in [Servers -> SUBSET (Keys \X Nat)]
      /\ \A s \in Servers : s # f \/ r.kind # "snapshot" => skipped'[s] = skipped[s]
  BY <1>1, <1>2 DEF Parts, ServersTypeOK
<1>10. ServersTypeOK'
  BY <1>1, <1>6, <1>8, <1>9 DEF Parts, ServersTypeOK
<1>11. AllHonest'
  <2> SUFFICES ASSUME NEW s \in Servers, s \notin misled'
               PROVE  Honest(db', srv'[s], skipped'[s], db'.cursor[s])
    BY DEF AllHonest
  <2>1. db.cursor[s] \in Cursors /\ Behind(db, db.cursor[s]) /\ srv[s] \in Replicas
    BY <1>1, <1>8, CursorsAreTyped DEF Parts, CursorInv, AllBehind
  <2>2. Honest(db, srv'[s], skipped'[s], db'.cursor[s])
    <3>1. CASE s = f /\ r.kind = "snapshot"
      <4>1. a = f
        BY <1>6, <3>1
      <4>2. c = [epoch |-> r.epoch, acked |-> r.to, state |-> "incremental"]
        BY <3>1 DEF c, r
      <4>3. Honest(db, Applied(srv[s], r), skipped'[s], c)
        BY <1>1, <1>2, <3>1, <4>2, HonestAfterSnapshot
      <4> QED
        BY <1>7, <1>8, <3>1, <4>1, <4>3
    <3>2. CASE s = f /\ r.kind = "rows"
      <4>1. a = f /\ s \notin misled
        BY <1>1, <1>2, <3>2
      <4>2. srv[s].epoch = r.epoch
        BY <1>1, <3>2, <4>1 DEF Takes, a
      <4>3. c = [epoch |-> db.cursor[f].epoch, acked |-> r.to, state |-> "incremental"]
        BY <3>2 DEF c, r, f
      <4>4. Honest(db, srv[s], skipped[s], db.cursor[s])
        BY <4>1 DEF Parts, CursorInv, AllHonest
      <4>5. Honest(db, Applied(srv[s], r), skipped[s], c)
        BY <1>1, <1>2, <2>1, <3>2, <4>2, <4>3, <4>4, HonestAfterBatch
      <4> QED
        BY <1>7, <1>8, <1>9, <3>2, <4>1, <4>5
    <3>3. CASE s # f
      <4>1. s \notin misled
        BY <1>6, <3>3
      <4>2. Honest(db, srv[s], skipped[s], db.cursor[s])
        BY <4>1 DEF Parts, CursorInv, AllHonest
      <4>3. Honest(db, srv'[s], skipped[s], db.cursor[s])
        <5>1. CASE s = a
          BY <1>1, <1>2, <1>3, <1>8, <2>1, <4>2, <5>1, HonestWhenApplied DEF a, r
        <5>2. CASE s # a
          BY <1>8, <4>2, <5>2
        <5> QED
          BY <5>1, <5>2
      <4> QED
        BY <1>7, <1>9, <3>3, <4>3
    <3> QED
      BY <1>2, <3>1, <3>2, <3>3
  <2>3. db'.cursor[s] \in Cursors /\ Behind(db, db'.cursor[s])
    <3>1. CASE s = f
      <4>1. c.acked <= db.rev
        BY <1>2, <1>5 DEF Carries, r
      <4> QED
        BY <1>5, <1>7, <3>1, <4>1 DEF Behind
    <3>2. CASE s # f
      BY <1>7, <2>1, <3>2
    <3> QED
      BY <3>1, <3>2
  <2> QED
    BY <1>1, <1>7, <2>2, <2>3, HonestStill
<1> QED
  BY <1>7, <1>10, <1>11 DEF Parts, CursorInv

\* A batch that is too large is halved, or stepped over.
LEMMA Halves ==
  ASSUME NEW l \in Loops, NEW n \in Nat
  PROVE  [l EXCEPT !.bound = IF n < 4 THEN 1 ELSE n \div 2] \in Loops
<1> DEFINE m == IF n < 4 THEN 1 ELSE n \div 2
<1>1. m \in Nat \ {0}
  OBVIOUS
<1> HIDE DEF m
<1>2. [l EXCEPT !.bound = m] \in Loops
  BY <1>1 DEF Loops
<1> QED
  BY <1>2 DEF m

LEMMA BatchesAreTooLarge == Parts /\ TooLarge => Parts'
<1> SUFFICES ASSUME Parts, TooLarge PROVE Parts'
  OBVIOUS
<1> DEFINE r == y.req
           f == r.for
           c == [db.cursor[f] EXCEPT !.acked = r.to, !.state = "incremental"]
           more == skipped[f] \cup {<<k, r.to>> : k \in CarriedBy(r)}
<1>1. /\ y.phase = "sending" /\ late[r.at] = NoReq /\ y \in Loops /\ Sound(db) /\ r.kind = "rows"
      /\ Takes(r) /\ UNCHANGED <<pass, fetch, srv, late, misled>>
  BY LoopIsTyped DEF TooLarge, Asked, Quiet
<1>2. /\ r \in Requests /\ f \in Servers /\ r.at = f /\ Carries(db, r) /\ Continues(db, r, db.cursor[f])
  BY <1>1, SendingIsTyped
<1>3. CASE ~OneRev(r)
  <2> DEFINE n == SizeOfBatch(r)
             l == [y EXCEPT !.bound = IF n < 4 THEN 1 ELSE n \div 2]
  <2>1. n \in Nat
    BY KeysAreFinite, FS_Subset, FS_CardinalityType DEF SizeOfBatch, CarriedBy
  <2>2. y' = Idle(l) /\ UNCHANGED <<db, skipped>>
    BY <1>3 DEF TooLarge
  <2> HIDE DEF n, r
  <2>3. l \in Loops
    BY <1>1, <2>1, Halves
  <2> HIDE DEF l
  <2>4. Rests(db, db') /\ Backs(db, db')
    BY <1>1, <2>2, SameBacks
  <2> QED
    BY <1>1, <2>2, <2>3, <2>4, GivesUp
<1>4. CASE OneRev(r)
  <2>1. /\ db' = SetCursor(db, f, c) /\ y' = Idle(y)
        /\ skipped' = [skipped EXCEPT ![f] = more]
    BY <1>4 DEF TooLarge
  <2>2. c = [epoch |-> db.cursor[f].epoch, acked |-> r.to, state |-> "incremental"]
    <3> DEFINE u == [db.cursor[f] EXCEPT !.acked = r.to]
    <3>1. db.cursor[f] = [epoch |-> db.cursor[f].epoch, acked |-> db.cursor[f].acked,
                          state |-> db.cursor[f].state]
      BY <1>1, <1>2, CursorsAreTyped
    <3> HIDE DEF f, r
    <3>2. u = [epoch |-> db.cursor[f].epoch, acked |-> r.to, state |-> db.cursor[f].state]
      BY <3>1
    <3>3. c = [u EXCEPT !.state = "incremental"]
      BY Zenon
    <3> HIDE DEF u, c
    <3> QED
      BY <3>2, <3>3
  <2> HIDE DEF c
  <2>3. c \in Cursors /\ c.epoch <= db.epoch /\ c.acked = r.to
    <3>1. db.cursor[f].epoch \in Nat /\ db.cursor[f].epoch <= db.epoch
      BY <1>1, <1>2, CursorsAreTyped DEF Parts, CursorInv, AllBehind, Behind
    <3>2. r.to \in Nat
      BY <1>2 DEF Requests
    <3> QED
      BY <2>2, <3>1, <3>2 DEF Cursors, States
  <2>4. /\ StoreInv' /\ LoopTypeOK' /\ AllBehind' /\ Sent' /\ Overdue' /\ Drawable'
        /\ Sound(db') /\ Ages(db, db') /\ db'.cursor[f] = c
        /\ \A s \in Servers : s # f => db'.cursor[s] = db.cursor[s]
    BY <1>1, <1>2, <2>1, <2>3, CursorAdvances
  <2> HIDE DEF r, f
  <2>5. more \in SUBSET (Keys \X Nat) /\ skipped \in [Servers -> SUBSET (Keys \X Nat)]
    BY <1>2 DEF Parts, ServersTypeOK, CarriedBy, Requests
  <2>6. ServersTypeOK' /\ skipped'[f] = more /\ \A s \in Servers : s # f => skipped'[s] = skipped[s]
    <3> HIDE DEF more
    <3> QED
      BY <1>1, <1>2, <2>1, <2>5 DEF Parts, ServersTypeOK
  <2>7. AllHonest'
    <3> SUFFICES ASSUME NEW s \in Servers \ misled
                 PROVE  Honest(db', srv[s], skipped'[s], db'.cursor[s])
      BY <1>1 DEF AllHonest
    <3>1. /\ db.cursor[s] \in Cursors /\ Behind(db, db.cursor[s]) /\ srv[s] \in Replicas
          /\ Honest(db, srv[s], skipped[s], db.cursor[s])
      BY <1>1, CursorsAreTyped DEF Parts, ServersTypeOK, CursorInv, AllBehind, AllHonest
    <3>2. CASE s = f
      <4>1. srv[s].epoch = r.epoch
        BY <1>1, <1>2, <3>2 DEF Takes
      <4>2. Honest(db, srv[s], more, c)
        BY <1>1, <1>2, <1>4, <2>2, <3>1, <3>2, <4>1, HonestAfterStep
      <4>3. Behind(db, c)
        BY <1>2, <2>3 DEF Behind, Carries
      <4>4. Honest(db', srv[s], more, c)
        BY <1>1, <2>3, <2>4, <4>2, <4>3, HonestStill
      <4> QED
        BY <2>4, <2>6, <3>2, <4>4
    <3>3. CASE s # f
      BY <1>1, <2>4, <2>6, <3>1, <3>3, HonestStill
    <3> QED
      BY <3>2, <3>3
  <2> QED
    BY <2>4, <2>6, <2>7 DEF Parts, CursorInv
<1> QED
  BY <1>3, <1>4

-----------------------------------------------------------------------------
(* The servers' own steps. *)

LEMMA ServersCatchUp == ASSUME NEW a \in Servers, Parts, CatchesUp(a) PROVE Parts'
<1> DEFINE r == late[a]
<1>1. /\ r # NoReq /\ srv' = [srv EXCEPT ![a] = Applied(@, r)] /\ late' = [late EXCEPT ![a] = NoReq]
      /\ UNCHANGED <<db, y, pass, fetch, misled, skipped>>
  BY DEF CatchesUp, Quiet
<1>2. Sound(db) /\ srv \in [Servers -> Replicas] /\ late \in [Servers -> Requests] /\ r \in Requests
  BY LoopIsTyped DEF Parts, ServersTypeOK
<1>3. Carries(db, r) /\ (a \in misled \/ db.cursor[a].acked <= r.to)
  BY <1>1 DEF Parts, CursorInv, Overdue
<1>4. Applied(srv[a], r) \in Replicas
  BY <1>2, AppliedIsTyped
<1>5. /\ srv' \in [Servers -> Replicas] /\ srv'[a] = Applied(srv[a], r)
      /\ \A s \in Servers : s # a => srv'[s] = srv[s]
  BY <1>1, <1>2, <1>4
<1>6. late' \in [Servers -> Requests] /\ \A s \in Servers : late'[s] = IF s = a THEN NoReq ELSE late[s]
  BY <1>1, <1>2, NoReqIsNone
<1>7. ServersTypeOK'
  BY <1>1, <1>5, <1>6 DEF Parts, ServersTypeOK
<1>8. StoreInv' /\ LoopTypeOK'
  BY <1>1 DEF Parts, StoreInv, StoreTypeOK, PassTypeOK, FetchTypeOK, Indexed, IndexIsWhole, Answered,
              PendingIsInFlight, LoopTypeOK
<1>9. AllBehind' /\ Sent' /\ Overdue'
  BY <1>1, <1>6 DEF Parts, CursorInv, AllBehind, Sent, Overdue
<1> HIDE DEF r
<1>10. AllHonest'
  <2> SUFFICES ASSUME NEW s \in Servers \ misled PROVE Honest(db, srv'[s], skipped[s], db.cursor[s])
    BY <1>1 DEF AllHonest
  <2>1. Honest(db, srv[s], skipped[s], db.cursor[s]) /\ db.cursor[s] \in Cursors /\ srv[s] \in Replicas
    BY <1>2, CursorsAreTyped DEF Parts, CursorInv, AllHonest
  <2>2. CASE s = a
    BY <1>2, <1>3, <1>5, <2>1, <2>2, HonestWhenApplied
  <2>3. CASE s # a
    BY <1>5, <2>1, <2>3
  <2> QED
    BY <2>2, <2>3
<1>11. Drawable'
  BY <1>1, <1>6, NoReqIsNone DEF Parts, Drawable
<1> QED
  BY <1>7, <1>8, <1>9, <1>10, <1>11 DEF Parts, CursorInv

LEMMA ReplicasAreReplaced == ASSUME NEW a \in Servers, Parts, ReplicaReplaced(a) PROVE Parts'
<1> DEFINE rows == [k \in Keys |-> IF k \in Facilities THEN Foreign ELSE 0]
           other == [epoch |-> Foreign, rows |-> rows]
<1>1. /\ srv' = [srv EXCEPT ![a] = other] /\ UNCHANGED <<db, y, pass, fetch, late, misled, skipped>>
  BY DEF ReplicaReplaced, Quiet
<1>2. Sound(db) /\ srv \in [Servers -> Replicas]
  BY LoopIsTyped DEF Parts, ServersTypeOK
<1>3. other \in Replicas /\ other.epoch # db.epoch
  <2>1. rows \in [Keys -> Nat \cup {Foreign}]
    OBVIOUS
  <2> HIDE DEF rows
  <2> QED
    BY <1>2, <2>1 DEF Replicas, Foreign, Sound, Stores
<1> HIDE DEF other
<1>4. /\ srv' \in [Servers -> Replicas] /\ srv'[a] = other
      /\ \A s \in Servers : s # a => srv'[s] = srv[s]
  BY <1>1, <1>2, <1>3
<1>5. ServersTypeOK'
  BY <1>1, <1>4 DEF Parts, ServersTypeOK
<1>6. StoreInv' /\ LoopTypeOK' /\ AllBehind' /\ Sent' /\ Overdue' /\ Drawable'
  BY <1>1 DEF Parts, StoreInv, StoreTypeOK, PassTypeOK, FetchTypeOK, Indexed, IndexIsWhole, Answered,
              PendingIsInFlight, LoopTypeOK, CursorInv, AllBehind, Sent, Overdue, Drawable
<1>7. AllHonest'
  <2> SUFFICES ASSUME NEW s \in Servers \ misled PROVE Honest(db, srv'[s], skipped[s], db.cursor[s])
    BY <1>1 DEF AllHonest
  <2>1. CASE s = a
    BY <1>3, <1>4, <2>1 DEF Honest
  <2>2. CASE s # a
    BY <1>4, <2>2 DEF Parts, CursorInv, AllHonest
  <2> QED
    BY <2>1, <2>2
<1> QED
  BY <1>5, <1>6, <1>7 DEF Parts, CursorInv

-----------------------------------------------------------------------------
(* Steps that leave the request alone. *)

\* The store grows, no replica changes, and the loop's request stays, or is
\* addressed, or is gone.
LEMMA RequestStays ==
  ASSUME Parts, StoreInv', Grows(db, db'), LoopTypeOK', Draws(y'.req), UNCHANGED <<srv, late, misled, skipped>>,
         y'.phase = "idle" \/ (y'.phase # "idle" /\ y.phase # "idle"
                               /\ \E at \in Servers \cup {None} : y'.req = [y.req EXCEPT !.at = at])
  PROVE  Parts'
<1>1. Sound(db) /\ Sound(db') /\ Ages(db, db') /\ Backs(db, db')
  BY LoopIsTyped, GrowingBacks DEF StoreInv, StoreTypeOK
<1>2. Sent'
  BY <1>1, SentStays DEF Parts, CursorInv
<1>3. AllBehind' /\ Overdue' /\ AllHonest'
  BY <1>1, AllStayBehind, OverdueStays, AllStayHonest DEF Parts, CursorInv
<1>4. ServersTypeOK'
  BY DEF Parts, ServersTypeOK
<1>5. Drawable'
  BY DEF Parts, Drawable
<1> QED
  BY <1>2, <1>3, <1>4, <1>5 DEF Parts, CursorInv

LEMMA RequestIsKept ==
  ASSUME Parts, StoreInv', Grows(db, db'), y' \in Loops, y'.phase = y.phase, y'.req = y.req,
         UNCHANGED <<srv, late, misled, skipped>>
  PROVE  Parts'
<1>1. LoopTypeOK' /\ Draws(y'.req)
  BY DEF Parts, LoopTypeOK, Drawable
<1>2. CASE y.phase = "idle"
  BY <1>1, <1>2, RequestStays
<1>3. CASE y.phase # "idle"
  <2>1. y.req.at \in Servers \cup {None} /\ y.req = [y.req EXCEPT !.at = y.req.at]
    BY LoopIsTyped DEF Loops, Requests
  <2> QED
    BY <1>1, <1>3, <2>1, RequestStays
<1> QED
  BY <1>2, <1>3

LEMMA StoreMovesOn == Parts /\ StoreSteps /\ UNCHANGED <<y, srv, late, misled, skipped>> => Parts'
<1> SUFFICES ASSUME Parts, StoreSteps, UNCHANGED <<y, srv, late, misled, skipped>> PROVE Parts'
  OBVIOUS
<1>1. StoreInv' /\ Grows(db, db')
  BY StoreStepsMove DEF Parts, StoreMoves
<1>2. y' \in Loops /\ y'.phase = y.phase /\ y'.req = y.req
  BY LoopIsTyped
<1> QED
  BY <1>1, <1>2, RequestIsKept

LEMMA StoreIsAsItWas == Parts /\ UNCHANGED <<db, pass, fetch>> => StoreInv' /\ Grows(db, db')
<1> SUFFICES ASSUME Parts, UNCHANGED <<db, pass, fetch>> PROVE StoreInv' /\ Grows(db, db')
  OBVIOUS
<1>1. Sound(db)
  BY LoopIsTyped
<1>2. StoreInv'
  BY <1>1, SameBacks, StoreRests DEF Parts
<1> QED
  BY <1>1, <1>2, NothingGrows

LEMMA ScheduleIsTyped ==
  ASSUME NEW l \in Loops
  PROVE  Schedule(l) \in Loops /\ Schedule(l).phase = l.phase /\ Schedule(l).req = l.req
<1> DEFINE b == l.running /\ ~l.latched
<1>1. l.running \in BOOLEAN /\ l.latched \in BOOLEAN
  BY DEF Loops
<1>2. b \in BOOLEAN
  BY <1>1, Zenon
<1>3. Schedule(l) = [l EXCEPT !.timer = b]
  BY DEF Schedule
<1> HIDE DEF b
<1> QED
  BY <1>2, <1>3 DEF Loops

LEMMA OnlyTheLoop ==
  ASSUME Parts, UNCHANGED <<db, pass, fetch>>, UNCHANGED <<srv, late, misled, skipped>>,
         y' \in Loops, y'.phase = y.phase, y'.req = y.req
  PROVE  Parts'
BY StoreIsAsItWas, RequestIsKept

LEMMA IdleTicks == Parts /\ TickIsIdle => Parts'
<1> SUFFICES ASSUME Parts, TickIsIdle PROVE Parts'
  OBVIOUS
<1>1. y' = [y EXCEPT !.timer = FALSE] /\ UNCHANGED <<db, pass, fetch>> /\ UNCHANGED <<srv, late, misled, skipped>>
  BY DEF TickIsIdle, Elsewhere
<1>2. y' \in Loops /\ y'.phase = y.phase /\ y'.req = y.req
  BY <1>1, LoopIsTyped DEF Loops
<1> QED
  BY <1>1, <1>2, OnlyTheLoop

LEMMA Starts == Parts /\ Start => Parts'
<1> SUFFICES ASSUME Parts, Start PROVE Parts'
  OBVIOUS
<1> DEFINE l == [y EXCEPT !.running = TRUE]
<1>1. y' = Schedule(l) /\ UNCHANGED <<db, pass, fetch>> /\ UNCHANGED <<srv, late, misled, skipped>>
  BY DEF Start, Elsewhere
<1>2. l \in Loops /\ l.phase = y.phase /\ l.req = y.req
  BY LoopIsTyped DEF Loops
<1> HIDE DEF l
<1>3. y' \in Loops /\ y'.phase = y.phase /\ y'.req = y.req
  BY <1>1, <1>2, ScheduleIsTyped
<1> QED
  BY <1>1, <1>3, OnlyTheLoop

LEMMA Stops == Parts /\ Stop => Parts'
<1> SUFFICES ASSUME Parts, Stop PROVE Parts'
  OBVIOUS
<1>1. /\ y' = [y EXCEPT !.running = FALSE, !.timer = FALSE]
      /\ UNCHANGED <<db, pass, fetch>> /\ UNCHANGED <<srv, late, misled, skipped>>
  BY DEF Stop, Quiet
<1>2. y' \in Loops /\ y'.phase = y.phase /\ y'.req = y.req
  BY <1>1, LoopIsTyped DEF Loops
<1> QED
  BY <1>1, <1>2, OnlyTheLoop

LEMMA IntervalsPass == Parts /\ IntervalPasses => Parts'
<1> SUFFICES ASSUME Parts, IntervalPasses PROVE Parts'
  OBVIOUS
<1>1. y' = [y EXCEPT !.limited = FALSE] /\ UNCHANGED <<db, pass, fetch>> /\ UNCHANGED <<srv, late, misled, skipped>>
  BY DEF IntervalPasses, Elsewhere
<1>2. y' \in Loops /\ y'.phase = y.phase /\ y'.req = y.req
  BY <1>1, LoopIsTyped DEF Loops
<1> QED
  BY <1>1, <1>2, OnlyTheLoop

LEMMA ConfigsApply == ASSUME NEW s \in Servers, Parts, OnConfigApplied(s) PROVE Parts'
<1> DEFINE l == [y EXCEPT !.server = s, !.limited = FALSE, !.scanned = -1, !.bound = BatchMaxRows]
<1>1. y' = Schedule(l) \/ y' = l
  BY DEF OnConfigApplied
<1>2. UNCHANGED <<db, pass, fetch>> /\ UNCHANGED <<srv, late, misled, skipped>>
  BY DEF OnConfigApplied, Quiet
<1>3. l \in Loops /\ l.phase = y.phase /\ l.req = y.req
  <2> DEFINE l1 == [y EXCEPT !.server = s, !.limited = FALSE]
             l2 == [l1 EXCEPT !.scanned = -1]
             l3 == [l2 EXCEPT !.bound = BatchMaxRows]
  <2>1. l1 \in Loops /\ l1.phase = y.phase /\ l1.req = y.req
    BY LoopIsTyped DEF Loops
  <2>2. l = l3
    BY Zenon
  <2>3. -1 \in Int
    OBVIOUS
  <2> HIDE DEF l1, l
  <2>4. l2 \in Loops /\ l2.phase = l1.phase /\ l2.req = l1.req
    BY <2>1, <2>3 DEF Loops
  <2> HIDE DEF l2
  <2>5. l3 \in Loops /\ l3.phase = l2.phase /\ l3.req = l2.req
    BY <2>4, SyncAssumption DEF Loops
  <2> HIDE DEF l3
  <2> QED
    BY <2>1, <2>2, <2>4, <2>5
<1> HIDE DEF l
<1>4. y' \in Loops /\ y'.phase = y.phase /\ y'.req = y.req
  BY <1>1, <1>3, ScheduleIsTyped
<1> QED
  BY <1>2, <1>4, OnlyTheLoop

LEMMA ExportsAreSent == Parts /\ ExportSent => Parts'
<1> SUFFICES ASSUME Parts, ExportSent PROVE Parts'
  OBVIOUS
<1> DEFINE q == [y.req EXCEPT !.at = y.server]
<1>1. /\ y.phase = "exporting" /\ y' = [y EXCEPT !.phase = "sending", !.req.at = y.server]
      /\ UNCHANGED <<db, pass, fetch>> /\ UNCHANGED <<srv, late, misled, skipped>>
  BY DEF ExportSent, Elsewhere
<1>2. y \in Loops /\ y.req \in Requests /\ y.server \in Servers /\ y.req.for \in Servers /\ y.req.kind = "snapshot"
  BY <1>1, LoopIsTyped DEF Parts, LoopTypeOK, Loops
<1>3. y' = [[y EXCEPT !.phase = "sending"] EXCEPT !.req = q]
  <2> DEFINE u == [y EXCEPT !.phase = "sending"]
  <2>1. y' = [u EXCEPT !.req = [u.req EXCEPT !.at = y.server]]
    BY <1>1, Zenon
  <2>2. u.req = y.req
    BY <1>2 DEF Loops
  <2> HIDE DEF u
  <2>3. y' = [u EXCEPT !.req = q]
    BY <2>1, <2>2
  <2> QED
    BY <2>3 DEF u
<1>4. /\ q \in Requests /\ q.at = y.server /\ q.kind = "snapshot" /\ q.for = y.req.for /\ q.rows = y.req.rows
  BY <1>2 DEF Requests
<1>5. Draws(q)
  BY <1>2, <1>4 DEF Parts, Drawable, Draws
<1>6. q = [y.req EXCEPT !.at = y.server]
  OBVIOUS
<1> HIDE DEF q
<1>7. y' \in Loops /\ y'.phase = "sending" /\ y'.req = q
  BY <1>2, <1>3, <1>4 DEF Loops
<1>8. LoopTypeOK'
  BY <1>2, <1>4, <1>7 DEF LoopTypeOK, None
<1>9. \E at \in Servers \cup {None} : y'.req = [y.req EXCEPT !.at = at]
  BY <1>2, <1>6, <1>7
<1> QED
  BY <1>1, <1>5, <1>7, <1>8, <1>9, StoreIsAsItWas, RequestStays

-----------------------------------------------------------------------------
(* The ticks, the crash and the initial state. *)

LEMMA OpenedBacks ==
  ASSUME NEW s, Sound(s), NEW server \in Servers
  PROVE  Rests(s, Opened(s, server)) /\ Backs(s, Opened(s, server))
<1>1. CASE s.cursor[server] # NoCursor
  BY <1>1, SameBacks DEF Opened
<1>2. CASE s.cursor[server] = NoCursor
  <2> DEFINE c == [epoch |-> 0, acked |-> 0, state |-> "snapshot-required"]
  <2>1. Opened(s, server) = SetCursor(s, server, c)
    BY <1>2 DEF Opened, NoCursor
  <2>2. c \in Cursors
    BY DEF Cursors, States
  <2>3. c.epoch = s.cursor[server].epoch /\ c.acked <= s.cursor[server].acked /\ c.state # "incremental"
    BY <1>2 DEF NoCursor
  <2> HIDE DEF c
  <2> QED
    BY <2>1, <2>2, <2>3, SetsBack
<1> QED
  BY <1>1, <1>2

LEMMA BacksTwice ==
  ASSUME NEW s, Sound(s), NEW t, Rests(s, t), Backs(s, t), NEW u, Rests(t, u), Backs(t, u)
  PROVE  Rests(s, u) /\ Backs(s, u)
<1>1. Sound(t) /\ Sound(u)
  BY DEF Rests
<1>2. s.rev \in Nat /\ t.rev \in Nat /\ u.rev \in Nat
  BY <1>1 DEF Sound, Stores
<1>3. Rests(s, u)
  BY <1>2 DEF Rests
<1>4. \A g \in Servers : s.cursor[g].acked \in Nat /\ t.cursor[g].acked \in Nat /\ u.cursor[g].acked \in Nat
  BY <1>1, CursorsAreTyped
<1> QED
  BY <1>3, <1>4 DEF Backs

LEMMA TicksWait == Parts /\ TickWaits => Parts'
<1> SUFFICES ASSUME Parts, TickWaits PROVE Parts'
  OBVIOUS
<1>1. /\ db' = Opened(db, y.server) /\ y' = y /\ y.phase = "idle"
      /\ UNCHANGED <<pass, fetch, srv, late, misled, skipped>>
  BY DEF TickWaits, Due, Elsewhere
<1>2. Sound(db) /\ y.server \in Servers
  BY LoopIsTyped DEF Loops
<1>3. Rests(db, db') /\ Backs(db, db')
  BY <1>1, <1>2, OpenedBacks
<1>4. LoopTypeOK' /\ Sent' /\ Draws(y'.req)
  BY <1>1 DEF Parts, LoopTypeOK, Sent, Drawable
<1> QED
  BY <1>1, <1>3, <1>4, CursorsSetBack

\* The request of a snapshot, field by field.
LEMMA SnapshotRequest ==
  ASSUME NEW f, NEW e, NEW t, NEW rows
  PROVE  [NoReq EXCEPT !.kind = "snapshot", !.for = f, !.epoch = e, !.to = t, !.rows = rows]
           = [kind |-> "snapshot", for |-> f, at |-> None, epoch |-> e, from |-> 0, to |-> t, rows |-> rows]
<1> DEFINE p1 == [NoReq EXCEPT !.kind = "snapshot"]
           p2 == [p1 EXCEPT !.for = f]
           p3 == [p2 EXCEPT !.epoch = e]
           p4 == [p3 EXCEPT !.to = t]
           p5 == [p4 EXCEPT !.rows = rows]
<1>1. p1 = [kind |-> "snapshot", for |-> None, at |-> None, epoch |-> 0, from |-> 0, to |-> 0, rows |-> NoRows]
  BY DEF NoReq
<1> HIDE DEF p1
<1>2. p2 = [kind |-> "snapshot", for |-> f, at |-> None, epoch |-> 0, from |-> 0, to |-> 0, rows |-> NoRows]
  BY <1>1
<1> HIDE DEF p2
<1>3. p3 = [kind |-> "snapshot", for |-> f, at |-> None, epoch |-> e, from |-> 0, to |-> 0, rows |-> NoRows]
  BY <1>2
<1> HIDE DEF p3
<1>4. p4 = [kind |-> "snapshot", for |-> f, at |-> None, epoch |-> e, from |-> 0, to |-> t, rows |-> NoRows]
  BY <1>3
<1> HIDE DEF p4
<1>5. p5 = [kind |-> "snapshot", for |-> f, at |-> None, epoch |-> e, from |-> 0, to |-> t, rows |-> rows]
  BY <1>4
<1> QED
  BY <1>5, Zenon DEF p4, p3, p2, p1

LEMMA TicksExport == Parts /\ TickExports => Parts'
<1> SUFFICES ASSUME Parts, TickExports PROVE Parts'
  OBVIOUS
<1> DEFINE sv == y.server
           s == Opened(db, sv)
           resyncing == Resyncing(s, sv)
           c == [s.cursor[sv] EXCEPT !.state = "snapshot-sending"]
           sending == IF resyncing THEN s ELSE SetCursor(s, sv, c)
           b == y.limited \/ resyncing
           q == [NoReq EXCEPT !.kind = "snapshot", !.for = sv, !.epoch = sending.epoch,
                              !.to = sending.rev, !.rows = Snapshot(sending)]
<1>1. /\ MayExport(s) /\ db' = sending /\ UNCHANGED <<pass, fetch, srv, late, misled, skipped>>
      /\ y' = [y EXCEPT !.timer = FALSE, !.phase = "exporting", !.limited = b, !.req = q]
  BY DEF TickExports, Elsewhere
<1>2. Sound(db) /\ sv \in Servers /\ y \in Loops
  BY LoopIsTyped DEF Loops
<1> HIDE DEF sv
<1>3. Rests(db, s) /\ Backs(db, s) /\ Sound(s)
  BY <1>2, OpenedBacks DEF Rests
<1> HIDE DEF s
<1>4. Rests(s, sending) /\ Backs(s, sending)
  <2>1. CASE resyncing
    BY <1>3, <2>1, SameBacks
  <2>2. CASE ~resyncing
    <3>1. /\ s.cursor[sv].epoch \in Nat /\ s.cursor[sv].acked \in Nat
          /\ s.cursor[sv] = [epoch |-> s.cursor[sv].epoch, acked |-> s.cursor[sv].acked,
                             state |-> s.cursor[sv].state]
      BY <1>2, <1>3, CursorsAreTyped
    <3>2. c = [epoch |-> s.cursor[sv].epoch, acked |-> s.cursor[sv].acked, state |-> "snapshot-sending"]
      BY <3>1
    <3> HIDE DEF c
    <3>3. /\ c \in Cursors /\ c.epoch = s.cursor[sv].epoch /\ c.acked <= s.cursor[sv].acked
          /\ c.state # "incremental"
      BY <3>1, <3>2 DEF Cursors, States
    <3>4. Rests(s, SetCursor(s, sv, c)) /\ Backs(s, SetCursor(s, sv, c))
      BY <1>2, <1>3, <3>3, SetsBack
    <3> QED
      BY <2>2, <3>4
  <2> QED
    BY <2>1, <2>2
<1> HIDE DEF sending
<1>5. Rests(db, db') /\ Backs(db, db') /\ Sound(db')
  <2>1. Rests(db, sending) /\ Backs(db, sending)
    BY <1>2, <1>3, <1>4, BacksTwice
  <2> QED
    BY <1>1, <2>1 DEF Rests
<1>6. AllBehind'
  BY <1>2, <1>5, RestingAges, AllStayBehind DEF Parts, CursorInv
<1>7. q = [kind |-> "snapshot", for |-> sv, at |-> None, epoch |-> db'.epoch, from |-> 0,
           to |-> db'.rev, rows |-> Snapshot(db')]
  <2> DEFINE rows == Snapshot(sending)
  <2> HIDE DEF rows, sending, sv
  <2>1. [NoReq EXCEPT !.kind = "snapshot", !.for = sv, !.epoch = sending.epoch, !.to = sending.rev, !.rows = rows]
          = [kind |-> "snapshot", for |-> sv, at |-> None, epoch |-> sending.epoch, from |-> 0,
             to |-> sending.rev, rows |-> rows]
    BY SnapshotRequest, Zenon
  <2> QED
    BY <1>1, <2>1 DEF rows
<1>8. Snapshot(db') = db'.row /\ db'.row \in [Keys -> Nat] /\ db'.epoch \in Nat /\ db'.rev \in Nat
  BY <1>5 DEF Snapshot, Carried, Sound, Stores
<1> HIDE DEF q
<1>9. q \in Requests /\ q.at = None
  BY <1>2, <1>7, <1>8 DEF Requests
<1>10. Draws(q)
  <2>1. PICK k \in Facilities : s.row[k] # 0
    BY <1>1 DEF MayExport, HasFacilityRows
  <2>2. db'.row = s.row
    BY <1>1, <1>4 DEF Rests
  <2> QED
    BY <1>7, <1>8, <2>1, <2>2 DEF Draws
<1>11. Carries(db', q)
  <2>1. q.epoch = db'.epoch /\ q.to = db'.rev /\ q.rows = db'.row
    BY <1>7, <1>8
  <2> QED
    BY <1>8, <2>1 DEF Carries
<1>12. q.kind = "snapshot" /\ q.for = sv /\ q.to = db'.rev
  BY <1>7
<1>13. b \in BOOLEAN
  <2>1. y.limited \in BOOLEAN
    BY <1>2 DEF Loops
  <2> QED
    BY <2>1, Zenon DEF Resyncing
<1> HIDE DEF b
<1>14. y' \in Loops /\ y'.phase = "exporting" /\ y'.req = q
  <2> DEFINE u == [y EXCEPT !.timer = FALSE, !.phase = "exporting"]
             v == [u EXCEPT !.limited = b, !.req = q]
  <2>1. u \in Loops /\ u.phase = "exporting"
    BY <1>2 DEF Loops
  <2>2. y' = v
    BY <1>1, Zenon
  <2> HIDE DEF u
  <2>3. v \in Loops /\ v.phase = "exporting" /\ v.req = q
    BY <1>9, <1>13, <2>1 DEF Loops
  <2> QED
    BY <2>2, <2>3
<1>15. LoopTypeOK'
  BY <1>2, <1>12, <1>14 DEF LoopTypeOK, None
<1>16. Sent'
  BY <1>6, <1>11, <1>12, <1>14 DEF Sent, AllBehind, Behind
<1> QED
  BY <1>1, <1>5, <1>10, <1>14, <1>15, <1>16, CursorsSetBack

LEMMA TicksSend == Parts /\ TickSends => Parts'
<1> SUFFICES ASSUME Parts, TickSends PROVE Parts'
  OBVIOUS
<1> DEFINE sv == y.server
           from == db.cursor[sv].acked
           batch == BuildBatch(db, from, y.bound)
           q == [kind |-> "rows", for |-> sv, at |-> sv, epoch |-> db.epoch, from |-> from,
                 to |-> batch.to, rows |-> Carried(db, batch.rows)]
<1>1. /\ ~NeedsSnapshot(db, sv) /\ UNCHANGED <<db, pass, fetch>> /\ UNCHANGED <<srv, late, misled, skipped>>
      /\ y' = IF batch.rows = {} THEN [y EXCEPT !.scanned = db.rev]
              ELSE [y EXCEPT !.timer = FALSE, !.phase = "sending", !.req = q]
  BY DEF TickSends, Elsewhere
<1>2. Sound(db) /\ sv \in Servers /\ y \in Loops /\ y.bound \in Nat \ {0}
  BY LoopIsTyped DEF Loops
<1> HIDE DEF sv
<1>3. from \in Nat /\ from <= db.rev /\ db.rev \in Nat /\ db.epoch \in Nat
  BY <1>2, CursorsAreTyped DEF Parts, CursorInv, AllBehind, Behind
<1>4. \A k \in Keys : db.row[k] \in Nat /\ db.row[k] <= db.rev
  BY <1>2 DEF Sound, Stores
<1>5. db.cursor[sv].state = "incremental" /\ db.cursor[sv].epoch = db.epoch /\ db.cursor[sv].acked = from
  BY <1>1 DEF NeedsSnapshot
<1> HIDE DEF from
<1>6. /\ batch.rows \subseteq Keys /\ batch.to \in Nat /\ from <= batch.to /\ batch.to <= db.rev
      /\ \A k \in Keys : from < db.row[k] /\ db.row[k] <= batch.to => k \in batch.rows
  BY <1>2, <1>3, <1>4, BatchIsWhole
<1> HIDE DEF batch
<1>7. CASE batch.rows = {}
  <2>1. y' \in Loops /\ y'.phase = y.phase /\ y'.req = y.req
    BY <1>1, <1>2, <1>3, <1>7 DEF Loops
  <2> QED
    BY <1>1, <2>1, OnlyTheLoop
<1>8. CASE batch.rows # {}
  <2> DEFINE rows == Carried(db, batch.rows)
  <2>1. rows \in [Keys -> Nat] /\ \A k \in Keys : rows[k] = IF k \in batch.rows THEN db.row[k] ELSE 0
    BY <1>4 DEF Carried
  <2> HIDE DEF rows
  <2>2. q = [kind |-> "rows", for |-> sv, at |-> sv, epoch |-> db.epoch, from |-> from,
             to |-> batch.to, rows |-> rows]
    BY DEF rows
  <2>3. q \in Requests
    BY <1>2, <1>3, <1>6, <2>1, <2>2 DEF Requests
  <2>4. Carries(db, q)
    BY <1>3, <1>6, <2>1, <2>2 DEF Carries
  <2>5. Continues(db, q, db.cursor[sv])
    BY <1>5, <1>6, <2>1, <2>2 DEF Continues
  <2>6. q.kind = "rows" /\ q.for = sv /\ q.at = sv
    BY <2>2
  <2> HIDE DEF q
  <2>7. y' \in Loops /\ y'.phase = "sending" /\ y'.req = q
    BY <1>1, <1>2, <1>8, <2>3 DEF Loops
  <2>8. LoopTypeOK' /\ Sent' /\ Draws(y'.req)
    BY <1>1, <1>2, <2>4, <2>5, <2>6, <2>7 DEF LoopTypeOK, Sent, Draws, None
  <2>9. Rests(db, db') /\ Backs(db, db')
    BY <1>1, <1>2, SameBacks
  <2> QED
    BY <1>1, <2>8, <2>9, CursorsSetBack
<1> QED
  BY <1>7, <1>8

LEMMA InitLoopIsTyped ==
  ASSUME NEW s \in Servers
  PROVE  InitLoop(s) \in Loops /\ InitLoop(s).phase = "idle" /\ InitLoop(s).req = NoReq
BY SyncAssumption, NoReqIsNone DEF InitLoop, Loops

LEMMA Crashes == ASSUME NEW arrives \in BOOLEAN, Parts, Crash(arrives) PROVE Parts'
<1>1. /\ db' = ResetPendingDetail(db) /\ pass' = Ended /\ fetch' = NoFetch /\ y' = InitLoop(y.server)
      /\ UNCHANGED <<srv, misled, skipped>>
      /\ late' = late \/ (y.phase = "sending" /\ late' = [late EXCEPT ![y.req.at] = y.req])
  BY DEF Crash
<1>2. StoreInv' /\ Grows(db, db')
  BY <1>1, ResetsMove DEF Parts, StoreMoves
<1>3. Sound(db) /\ Sound(db') /\ Ages(db, db') /\ Backs(db, db') /\ y.server \in Servers
  BY <1>2, LoopIsTyped, GrowingBacks DEF StoreInv, StoreTypeOK, Loops
<1>4. LoopTypeOK' /\ Sent' /\ Draws(y'.req)
  BY <1>1, <1>3, InitLoopIsTyped, NoReqIsNone DEF LoopTypeOK, Sent
<1>5. AllBehind' /\ AllHonest'
  BY <1>1, <1>3, AllStayBehind, AllStayHonest DEF Parts, CursorInv
<1>6. Overdue' /\ ServersTypeOK' /\ \A s \in Servers : Draws(late'[s])
  <2>1. CASE late' = late
    <3>1. Overdue'
      BY <1>1, <1>3, <2>1, OverdueStays DEF Parts, CursorInv
    <3> QED
      BY <1>1, <2>1, <3>1 DEF Parts, ServersTypeOK, Drawable
  <2>2. CASE y.phase = "sending" /\ late' = [late EXCEPT ![y.req.at] = y.req]
    <3>1. /\ Overdue' /\ late' \in [Servers -> Requests] /\ (\A s \in Servers : Draws(late'[s]))
          /\ (\A s \in Servers : late'[s] # NoReq => late'[s].kind # None)
      BY <1>1, <1>3, <2>2, BecomesOverdue
    <3> QED
      BY <1>1, <3>1 DEF Parts, ServersTypeOK
  <2> QED
    BY <1>1, <2>1, <2>2
<1> QED
  BY <1>2, <1>4, <1>5, <1>6 DEF Parts, CursorInv, Drawable

LEMMA InitParts == Init => Parts
<1> SUFFICES ASSUME Init PROVE Parts
  OBVIOUS
<1>1. /\ db = [epoch |-> 1, rev |-> 0, row |-> [k \in Keys |-> 0], detail |-> [a \in Airports |-> None],
               stamp |-> FALSE, cursor |-> [s \in Servers |-> NoCursor]]
      /\ pass = NoPass /\ fetch = NoFetch
  BY DEF Init, InitStore
<1>2. NoCursor \in Cursors /\ NoCursor.epoch = 0 /\ NoCursor.acked = 0 /\ NoCursor.state # "incremental"
  BY DEF NoCursor, Cursors, States, None
<1>3. Sound(db)
  BY <1>1, <1>2 DEF Sound, Stores, Details
<1>4. StoreInv
  BY <1>1, <1>3 DEF StoreInv, StoreTypeOK, PassTypeOK, FetchTypeOK, Indexed, IndexIsWhole, Answered,
                    PendingIsInFlight, NoPass, NoFetch, None
<1>5. PICK here \in Servers : y = InitLoop(here)
  BY DEF Init
<1>6. y \in Loops /\ y.phase = "idle" /\ y.req = NoReq
  BY <1>5, InitLoopIsTyped
<1>7. LoopTypeOK
  BY <1>6 DEF LoopTypeOK
<1>8. late = [s \in Servers |-> NoReq] /\ srv = [s \in Servers |-> [epoch |-> 0, rows |-> NoRows]]
      /\ misled = {} /\ skipped = [s \in Servers |-> {}]
  BY DEF Init
<1>9. ServersTypeOK
  BY <1>8, NoReqIsNone DEF ServersTypeOK, Replicas
<1>10. \A g \in Servers : db.cursor[g] = NoCursor
  BY <1>1
<1>11. AllBehind /\ AllHonest
  BY <1>1, <1>2, <1>10 DEF AllBehind, Behind, AllHonest, Honest
<1>12. Sent /\ Overdue /\ Drawable
  BY <1>6, <1>8, NoReqIsNone DEF Sent, Overdue, Drawable
<1> QED
  BY <1>4, <1>7, <1>9, <1>11, <1>12 DEF Parts, CursorInv

LEMMA NextParts == Parts /\ [Next]_vars => Parts'
<1> SUFFICES ASSUME Parts, [Next]_vars PROVE Parts'
  OBVIOUS
<1>1. CASE StoreSteps /\ UNCHANGED <<y, srv, late, misled, skipped>>
  BY <1>1, StoreMovesOn
<1>2. CASE Ticks
  BY <1>2, IdleTicks, TicksWait, TicksExport, TicksSend DEF Ticks
<1>3. CASE ExportFails \/ ExportSent
  BY <1>3, ExportsFail, ExportsAreSent
<1>4. CASE Answers
  <2>1. ASSUME NEW b \in BOOLEAN, AnswerLost(b) PROVE Parts'
    BY <2>1, AnswersAreLost
  <2> QED
    BY <1>4, <2>1, Acknowledges, RequestsTimeOut, Busies, Mismatches, BatchesAreTooLarge, Unsupports DEF Answers
<1>5. ASSUME NEW s \in Servers, CatchesUp(s) \/ ReplicaReplaced(s) \/ OnConfigApplied(s) PROVE Parts'
  BY <1>5, ServersCatchUp, ReplicasAreReplaced, ConfigsApply
<1>6. CASE Start \/ Stop \/ IntervalPasses
  BY <1>6, Starts, Stops, IntervalsPass
<1>7. ASSUME NEW arrives \in BOOLEAN, Crash(arrives) PROVE Parts'
  BY <1>7, Crashes
<1>8. CASE UNCHANGED vars
  <2>1. UNCHANGED <<db, pass, fetch>> /\ UNCHANGED <<y, srv, late, misled, skipped>>
    BY <1>8 DEF vars, storeVars
  <2>2. y' \in Loops /\ y'.phase = y.phase /\ y'.req = y.req
    BY <2>1, LoopIsTyped
  <2> QED
    BY <2>1, <2>2, OnlyTheLoop
<1> QED
  BY <1>1, <1>2, <1>3, <1>4, <1>5, <1>6, <1>7, <1>8 DEF Next

-----------------------------------------------------------------------------
(* The theorems. *)

\* What is read of the store, the loop and the replicas has its type, whatever
\* is lost, late or crashed.
THEOREM TypesAlwaysHold == Spec => []TypeOK
<1>1. Parts => TypeOK
  BY DEF Parts, StoreInv, TypeOK
<1> QED
  BY <1>1, InitParts, NextParts, PTL DEF Spec

\* What a cursor says its server holds it holds, of every row and every server
\* that was not misled.
THEOREM AckedRowsAlwaysHeld == Spec => []AckedRowsAreHeld
<1>1. Parts => AckedRowsAreHeld
  BY CursorInvIsAgreement DEF Parts, StoreInv
<1> QED
  BY <1>1, InitParts, NextParts, PTL DEF Spec

\* The stamp and the states of airports are true whatever was interrupted.
THEOREM StoreAlwaysTellsTheTruth == Spec => []StoreTellsTheTruth
<1>1. Parts => StoreTellsTheTruth
  BY DEF Parts, StoreInv, Indexed, Answered, StoreTellsTheTruth
<1> QED
  BY <1>1, InitParts, NextParts, PTL DEF Spec

LEMMA AppliedDraws ==
  ASSUME NEW replica \in Replicas, NEW r \in Requests, Draws(r), NEW k \in Facilities, replica.rows[k] # 0
  PROVE  \E f \in Facilities : Applied(replica, r).rows[f] # 0
<1>1. CASE r.kind = "snapshot"
  BY <1>1 DEF Draws, Applied
<1>2. CASE r.kind # "snapshot" /\ replica.epoch # r.epoch
  BY <1>2 DEF Applied
<1>3. CASE r.kind # "snapshot" /\ replica.epoch = r.epoch
  <2> DEFINE rows == [j \in Keys |-> IF r.rows[j] # 0 THEN r.rows[j] ELSE replica.rows[j]]
  <2>1. Applied(replica, r) = [epoch |-> replica.epoch, rows |-> rows]
    BY <1>3 DEF Applied, Replicas
  <2>2. k \in Keys
    BY DEF Facilities, RowsOf
  <2>3. rows[k] # 0
    BY <2>2
  <2> HIDE DEF rows
  <2> QED
    BY <2>1, <2>3
<1> QED
  BY <1>1, <1>2, <1>3

\* No step empties a replica.
LEMMA NoStepEmpties ==
  ASSUME Parts, [Next]_vars, NEW s \in Servers, NEW k \in Facilities, srv[s].rows[k] # 0
  PROVE  \E f \in Facilities : srv'[s].rows[f] # 0
<1>1. srv \in [Servers -> Replicas] /\ late \in [Servers -> Requests]
  BY DEF Parts, ServersTypeOK
<1>2. CASE srv' = srv
  BY <1>2
<1>3. CASE y.phase = "sending" /\ srv' = [srv EXCEPT ![y.req.at] = Applied(@, y.req)]
  <2> DEFINE r == y.req
             a == r.at
  <2>1. r \in Requests /\ a \in Servers /\ Draws(r) /\ srv' = [srv EXCEPT ![a] = Applied(@, r)]
    BY <1>3, SendingIsTyped DEF Parts, Drawable
  <2> HIDE DEF r, a
  <2>2. CASE s = a
    <3>1. srv'[s] = Applied(srv[s], r) /\ srv[s] \in Replicas
      BY <1>1, <2>1, <2>2
    <3> QED
      BY <2>1, <3>1, AppliedDraws
  <2>3. CASE s # a
    BY <1>1, <2>1, <2>3
  <2> QED
    BY <2>2, <2>3
<1>4. ASSUME NEW a \in Servers, CatchesUp(a) PROVE \E f \in Facilities : srv'[s].rows[f] # 0
  <2>1. srv' = [srv EXCEPT ![a] = Applied(@, late[a])] /\ late[a] \in Requests /\ Draws(late[a])
    BY <1>1, <1>4 DEF CatchesUp, Parts, Drawable
  <2>2. CASE s = a
    <3>1. srv'[s] = Applied(srv[s], late[a]) /\ srv[s] \in Replicas
      BY <1>1, <2>1, <2>2
    <3> QED
      BY <2>1, <3>1, AppliedDraws
  <2>3. CASE s # a
    BY <1>1, <2>1, <2>3
  <2> QED
    BY <2>2, <2>3
<1>5. ASSUME NEW a \in Servers, ReplicaReplaced(a) PROVE \E f \in Facilities : srv'[s].rows[f] # 0
  <2> DEFINE rows == [j \in Keys |-> IF j \in Facilities THEN Foreign ELSE 0]
  <2>1. srv' = [srv EXCEPT ![a] = [epoch |-> Foreign, rows |-> rows]]
    BY <1>5 DEF ReplicaReplaced
  <2>2. rows[k] # 0
    BY DEF Facilities, RowsOf, Foreign
  <2> HIDE DEF rows
  <2>3. CASE s = a
    BY <1>1, <2>1, <2>2, <2>3
  <2>4. CASE s # a
    BY <1>1, <2>1, <2>4
  <2> QED
    BY <2>3, <2>4
<1>6. \/ srv' = srv
      \/ y.phase = "sending" /\ srv' = [srv EXCEPT ![y.req.at] = Applied(@, y.req)]
      \/ \E a \in Servers : CatchesUp(a) \/ ReplicaReplaced(a)
  <2>1. CASE Ticks
    BY <2>1 DEF Ticks, TickIsIdle, TickWaits, TickExports, TickSends, Elsewhere
  <2>2. CASE ExportFails \/ ExportSent
    BY <2>2 DEF ExportFails, ExportSent, Elsewhere
  <2>3. CASE Answers
    <3>1. CASE Acknowledged
      BY <3>1 DEF Acknowledged, Asked
    <3>2. ASSUME NEW b \in BOOLEAN, AnswerLost(b)
          PROVE  srv' = srv \/ (y.phase = "sending" /\ srv' = [srv EXCEPT ![y.req.at] = Applied(@, y.req)])
      BY <3>2 DEF AnswerLost, Asked
    <3>3. CASE TimesOut \/ Busy \/ Mismatch \/ TooLarge \/ Unsupported
      BY <3>3 DEF TimesOut, Busy, Mismatch, TooLarge, Unsupported, Elsewhere
    <3> QED
      BY <2>3, <3>1, <3>2, <3>3 DEF Answers
  <2>4. ASSUME NEW a \in Servers, OnConfigApplied(a) PROVE srv' = srv
    BY <2>4 DEF OnConfigApplied
  <2>5. CASE Start \/ Stop \/ IntervalPasses
    BY <2>5 DEF Start, Stop, IntervalPasses, Elsewhere
  <2>6. ASSUME NEW arrives \in BOOLEAN, Crash(arrives) PROVE srv' = srv
    BY <2>6 DEF Crash
  <2>7. CASE UNCHANGED vars
    BY <2>7 DEF vars
  <2> QED
    BY <2>1, <2>2, <2>3, <2>4, <2>5, <2>6, <2>7 DEF Next
<1> QED
  BY <1>2, <1>3, <1>4, <1>5, <1>6

\* A replica that can draw something is never replaced by one that cannot: a
\* snapshot on its way has a facility in it, a batch takes no row away.
THEOREM NeverEmptied == Spec => NeverResetToEmpty
<1>1. Parts /\ [Next]_vars
        => [\A s \in Servers :
              (\E k \in Facilities : srv[s].rows[k] # 0) /\ srv'[s].epoch # 0
                => \E k \in Facilities : srv'[s].rows[k] # 0]_vars
  BY NoStepEmpties
<1> QED
  BY <1>1, InitParts, NextParts, PTL DEF Spec, NeverResetToEmpty

=============================================================================
