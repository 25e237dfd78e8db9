--------------------------- MODULE NavService_proofs ---------------------------
(***************************************************************************)
(* Theorems of NavDemand and NavService, for any airports, fixes, stations *)
(* and any number of sessions, stores and faults: the queue never sleeps   *)
(* over work it can do, and what it counts against an item stands on the   *)
(* session and the store in use.                                           *)
(*                                                                         *)
(* First what is taken out of a list, then what the queue's handlers do to *)
(* the places of an item, each handler as a relation between the queue     *)
(* before and after; then one lemma per step of the service.               *)
(***************************************************************************)
EXTENDS NavService, FiniteSetTheorems, WellFoundedInduction, TLAPS

-----------------------------------------------------------------------------
(* What is taken out of a list.                                            *)

LEMMA LeastOf ==
  ASSUME NEW T \in SUBSET Nat, T # {}
  PROVE  \E n \in T : \A m \in T : n <= m
<1> DEFINE R == {pair \in Nat \X Nat : pair[1] < pair[2]}
<1>1. IsWellFoundedOn(R, Nat)
  BY NatLessThanWellFounded, Zenon DEF OpToRel
<1>2. \A m, n \in Nat : m < n => <<m, n>> \in R
  OBVIOUS
<1>3. T \subseteq Nat
  OBVIOUS
<1> HIDE DEF R
<1>4. PICK n \in T : \A m \in T : ~(<<m, n>> \in R)
  BY <1>1, <1>3, WFMin
<1>5. ASSUME NEW m \in T PROVE n <= m
  <2>1. m \in Nat /\ n \in Nat
    OBVIOUS
  <2>2. ~(m < n)
    BY <1>2, <1>4, <2>1, Zenon
  <2> QED BY <2>1, <2>2
<1> QED BY <1>5

\* What is kept of a list after n places, given what is kept after each before.
Next1(S, list, g, n) ==
  IF n = 0 THEN <<>> ELSE IF list[n] \in S THEN Append(g[n - 1], list[n]) ELSE g[n - 1]
Keeps(S, list, n, g) == g = [m \in 0..n |-> Next1(S, list, g, m)]

LEMMA KeepsExists ==
  ASSUME NEW S, NEW list \in Seq(Items), NEW n \in Nat
  PROVE  \E g : Keeps(S, list, n, g)
<1> DEFINE Bad == {m \in Nat : ~\E g : Keeps(S, list, m, g)}
<1>1. SUFFICES ASSUME Bad # {} PROVE FALSE
  OBVIOUS
<1>2. PICK m \in Bad : \A k \in Bad : m <= k
  BY <1>1, LeastOf
<1>3. CASE m = 0
  <2> DEFINE g == [k \in 0..0 |-> <<>>]
  <2>1. \A k \in 0..0 : Next1(S, list, g, k) = <<>>
    BY DEF Next1
  <2>2. Keeps(S, list, 0, g)
    BY <2>1 DEF Keeps
  <2> QED BY <1>2, <1>3, <2>2
<1>4. CASE m # 0
  <2>1. m - 1 \in Nat /\ ~(m <= m - 1)
    BY <1>4
  <2>2. PICK g : Keeps(S, list, m - 1, g)
    BY <1>2, <2>1
  <2> DEFINE last == Next1(S, list, g, m)
             h == [k \in 0..m |-> IF k = m THEN last ELSE g[k]]
  <2>3. \A k \in 0..m - 1 : h[k] = g[k]
    <3> HIDE DEF last
    <3> QED OBVIOUS
  <2>4. ASSUME NEW k \in 0..m PROVE h[k] = Next1(S, list, h, k)
    <3>1. CASE k = m
      <4>1. m - 1 \in 0..m - 1
        BY <2>1
      <4>2. h[m - 1] = g[m - 1]
        BY <2>3, <4>1
      <4>3. h[m] = Next1(S, list, g, m)
        <5> HIDE DEF last
        <5>1. h[m] = last
          OBVIOUS
        <5> QED BY <5>1 DEF last
      <4> HIDE DEF h
      <4> QED BY <3>1, <4>2, <4>3 DEF Next1
    <3>2. CASE k # m
      <4>1. k \in 0..m - 1 /\ (k # 0 => k - 1 \in 0..m - 1)
        BY <3>2
      <4>2. g[k] = Next1(S, list, g, k)
        BY <2>2, <4>1 DEF Keeps
      <4>3. h[k] = g[k] /\ (k # 0 => h[k - 1] = g[k - 1])
        BY <2>3, <4>1
      <4> HIDE DEF h
      <4> QED BY <4>2, <4>3 DEF Next1
    <3> QED BY <3>1, <3>2
  <2>5. h = [k \in 0..m |-> h[k]]
    <3> HIDE DEF last
    <3> QED OBVIOUS
  <2> HIDE DEF h
  <2>6. Keeps(S, list, m, h)
    BY <2>4, <2>5 DEF Keeps
  <2> QED BY <1>2, <2>6
<1> QED BY <1>3, <1>4

\* A list that is made longer.
LEMMA AppendIs ==
  ASSUME NEW X, NEW s \in Seq(X), NEW e \in X
  PROVE  LET t == Append(s, e)
         IN  /\ t \in Seq(X) /\ ToSet(t) = ToSet(s) \cup {e}
             /\ IsInjective(s) /\ e \notin ToSet(s) => IsInjective(t)
<1> DEFINE t == Append(s, e)
<1>1. /\ t \in Seq(X) /\ Len(t) = Len(s) + 1 /\ Len(s) \in Nat
      /\ \A i \in 1..Len(s) : t[i] = s[i]
      /\ t[Len(s) + 1] = e
  OBVIOUS
<1>2. DOMAIN t = 1..Len(s) + 1 /\ DOMAIN s = 1..Len(s)
  BY <1>1
<1> HIDE DEF t
<1>3. ToSet(t) = ToSet(s) \cup {e}
  <2>1. \A i \in DOMAIN t : i \in DOMAIN s \/ i = Len(s) + 1
    BY <1>1, <1>2
  <2>2. \A i \in DOMAIN s : i \in DOMAIN t
    BY <1>1, <1>2
  <2>3. Len(s) + 1 \in DOMAIN t
    BY <1>1, <1>2
  <2> QED BY <1>1, <1>2, <2>1, <2>2, <2>3 DEF ToSet
<1>4. IsInjective(s) /\ e \notin ToSet(s) => IsInjective(t)
  BY <1>1, <1>2 DEF ToSet, IsInjective
<1> QED BY <1>1, <1>3, <1>4 DEF t

Well(S, list, g, m) ==
  /\ g[m] \in Seq(Items)
  /\ ToSet(g[m]) = {list[i] : i \in 1..m} \cap S
  /\ IsInjective(list) => IsInjective(g[m])

LEMMA KeptOf ==
  ASSUME NEW S, NEW list \in Seq(Items), NEW g, Keeps(S, list, Len(list), g), NEW n \in 0..Len(list)
  PROVE  Well(S, list, g, n)
<1> DEFINE Bad == {m \in Nat : m <= Len(list) /\ ~Well(S, list, g, m)}
<1>1. SUFFICES ASSUME Bad # {} PROVE FALSE
  OBVIOUS
<1>2. PICK m \in Bad : \A k \in Bad : m <= k
  BY <1>1, LeastOf
<1>3. m \in 0..Len(list) /\ Len(list) \in Nat
  OBVIOUS
<1>4. g[m] = Next1(S, list, g, m)
  BY <1>3 DEF Keeps
<1>5. CASE m = 0
  <2>1. g[m] = <<>>
    BY <1>4, <1>5 DEF Next1
  <2>2. Well(S, list, g, m)
    BY <1>5, <2>1 DEF Well, ToSet, IsInjective
  <2> QED BY <2>2
<1>6. CASE m # 0
  <2>1. m - 1 \in Nat /\ ~(m <= m - 1) /\ m - 1 <= Len(list) /\ m \in 1..Len(list)
    BY <1>3, <1>6
  <2>2. Well(S, list, g, m - 1)
    BY <1>2, <2>1
  <2>3. 1..m = (1..m - 1) \cup {m} /\ m \notin 1..m - 1 /\ m \in DOMAIN list /\ \A k \in 1..m - 1 : k \in DOMAIN list
    BY <1>3, <1>6
  <2>4. {list[i] : i \in 1..m} = {list[i] : i \in 1..m - 1} \cup {list[m]}
    BY <2>3
  <2>5. CASE list[m] \notin S
    <3>1. g[m] = g[m - 1]
      BY <1>4, <1>6, <2>5 DEF Next1
    <3>2. Well(S, list, g, m)
      BY <2>2, <2>4, <2>5, <3>1 DEF Well
    <3> QED BY <3>2
  <2>6. CASE list[m] \in S
    <3> DEFINE s == g[m - 1]
               e == list[m]
               before == {list[i] : i \in 1..m - 1}
    <3>1. g[m] = Append(s, e)
      BY <1>4, <1>6, <2>6 DEF Next1
    <3>2. s \in Seq(Items) /\ e \in Items
      BY <2>1, <2>2 DEF Well
    <3>3. IsInjective(list) => e \notin before
      BY <2>3 DEF IsInjective
    <3>4. ToSet(s) = before \cap S /\ (IsInjective(list) => IsInjective(s))
      BY <2>2 DEF Well
    <3>5. {list[i] : i \in 1..m} = before \cup {e} /\ e \in S
      BY <2>4, <2>6
    <3> HIDE DEF e, s, before
    <3>6. /\ g[m] \in Seq(Items) /\ ToSet(g[m]) = ToSet(s) \cup {e}
          /\ IsInjective(s) /\ e \notin ToSet(s) => IsInjective(g[m])
      BY <3>1, <3>2, AppendIs
    <3>7. Well(S, list, g, m)
      BY <3>3, <3>4, <3>5, <3>6 DEF Well
    <3> QED BY <3>7
  <2> QED BY <2>5, <2>6
<1> QED BY <1>5, <1>6

LEMMA OnlyIs ==
  ASSUME NEW S \in SUBSET Items, NEW list \in Seq(Items)
  PROVE  /\ Only[S][list] \in Seq(S)
         /\ ToSet(Only[S][list]) = ToSet(list) \cap S
         /\ IsInjective(list) => IsInjective(Only[S][list])
<1> DEFINE kept == CHOOSE g : Keeps(S, list, Len(list), g)
<1>1. Only[S][list] = kept[Len(list)]
  BY Zenon DEF Only, Keeps, Next1
<1>2. Keeps(S, list, Len(list), kept)
  <2>1. \E g : Keeps(S, list, Len(list), g)
    <3>1. Len(list) \in Nat
      OBVIOUS
    <3> QED BY <3>1, KeepsExists
  <2> QED BY <2>1, Zenon
<1> HIDE DEF kept
<1> DEFINE all == kept[Len(list)]
<1>3. Len(list) \in 0..Len(list)
  OBVIOUS
<1>4. Well(S, list, kept, Len(list))
  BY <1>2, <1>3, KeptOf
<1>5. ToSet(list) = {list[i] : i \in 1..Len(list)}
  BY DEF ToSet
<1>6. /\ all \in Seq(Items) /\ ToSet(all) = ToSet(list) \cap S
      /\ IsInjective(list) => IsInjective(all)
  BY <1>4, <1>5 DEF Well
<1> HIDE DEF all
<1>7. all \in Seq(S)
  BY <1>6 DEF ToSet
<1> QED BY <1>1, <1>6, <1>7 DEF all

-----------------------------------------------------------------------------
(* The invariant.                                                          *)

DemandFields ==
  {"running", "down", "polling", "skip", "timer", "repoll", "more", "unanswered", "queue",
   "inFlight", "pump", "on", "into", "faults", "parked", "local", "faultSession", "faultStore"}
LinkFields ==
  {"running", "handle", "closed", "session", "made", "usable", "passing", "bulk", "listed",
   "bulkStore", "indexed", "store", "opened", "unavailable", "held", "absent", "told"}

InLane(l) == {i \in Items : LaneOf(i) = l}
Holds(q, i) == \E l \in Lanes : i \in ToSet(q.queue[l])

\* Every item is in one place, and in its lane.
InOnePlace(q) ==
  /\ DOMAIN q = DemandFields /\ DOMAIN q.queue = Lanes
  /\ \A l \in Lanes : q.queue[l] \in Seq(InLane(l)) /\ IsInjective(q.queue[l])
  /\ q.inFlight \in Items \cup {NoItem}
  /\ q.parked \subseteq Items /\ q.unanswered \subseteq Items
  /\ q.faults \in [Items -> 0..ParkAfter - 1]
  /\ \A i \in Items : Holds(q, i) => i \notin q.parked \cup q.unanswered \cup {q.inFlight}
  /\ q.inFlight \notin q.parked \cup q.unanswered

\* The timer of a queue that runs is set, or its request is out.
Timed(q) == q.running /\ ~q.down => q.timer \/ q.polling

\* What the pump holds is of a session and a store it has taken notice of.
Pumping(q) ==
  /\ q.pump \in {"idle", "preparing", "fetching", "yielding"}
  /\ q.inFlight # NoItem <=> q.pump = "fetching"
  /\ q.pump \in {"preparing", "fetching"} => q.on \in 1..q.faultSession /\ q.into \in 1..q.faultStore

LinkIs(k) ==
  /\ DOMAIN k = LinkFields
  /\ k.made \in Nat /\ k.opened \in Nat /\ k.session \in {0, k.made} /\ k.store \in {0, k.opened}
  /\ k.session # 0 => k.handle /\ k.running /\ k.store # 0
  /\ k.passing => k.bulk # 0
  /\ k.store = 0 => k.absent = {}
  /\ k.closed => ~k.running

\* A pump at rest has nothing to do.
Rests(q, k) ==
  q.pump = "idle" /\ ~q.down /\ Session(k) # 0 /\ k.store # 0 =>
    \A i \in Items : Holds(q, i) => i.kind \notin k.usable

Noted(q, k) == q.faultSession \in 0..k.made /\ q.faultStore \in 0..k.opened

Together(q, k) ==
  /\ q.down <=> k.closed
  /\ q.running <=> k.running
  /\ Noted(q, k)
  /\ q.pump = "fetching" /\ k.session = q.on => k.store = q.into
  /\ Rests(q, k)

\* The queue's own counts hold what was tried on the session and store in use.
Counted(q, k, t) ==
  /\ t \in [Items -> 0..ParkAfter]
  /\ k.session # 0 \/ q.pump = "fetching" =>
       IF q.faultSession = k.made /\ q.faultStore = k.opened
       THEN \A i \in Items : i \in q.parked \/ t[i] <= q.faults[i]
       ELSE \A i \in Items : t[i] = 0

\* A pass that runs has the connection to itself, and a fetch is on the last session.
Alone(q, k) ==
  /\ k.bulk # 0 <=> k.passing
  /\ q.pump = "fetching" => ~k.passing /\ q.on = k.made

Inv ==
  /\ InOnePlace(d) /\ Timed(d) /\ Pumping(d) /\ LinkIs(c) /\ Together(d, c)
  /\ ~Overlap => Counted(d, c, tries) /\ Alone(d, c)

-----------------------------------------------------------------------------
(* The moves that leave the queue's items where they are.                  *)

News(q, k) ==
  \/ Session(k) # 0 /\ Session(k) # q.faultSession
  \/ k.store # 0 /\ k.store # q.faultStore

\* What stands against each item is as it was, or forgiven on news.
SameFaults(q, r) ==
  /\ r.faults = q.faults /\ r.parked = q.parked
  /\ r.faultSession = q.faultSession /\ r.faultStore = q.faultStore
Forgiven(q, r, k) ==
  /\ News(q, k)
  /\ r.faults = [i \in Items |-> 0] /\ r.parked = {}
  /\ r.faultSession = IF Session(k) # 0 THEN Session(k) ELSE q.faultSession
  /\ r.faultStore = IF k.store # 0 THEN k.store ELSE q.faultStore

Moved(q, r, k) ==
  /\ DOMAIN r = DemandFields
  /\ r.queue = q.queue /\ r.inFlight = q.inFlight
  /\ r.running = q.running /\ r.down = q.down
  /\ r.unanswered \subseteq q.unanswered
  /\ SameFaults(q, r) \/ Forgiven(q, r, k)

SamePump(q, r) == r.pump = q.pump /\ r.on = q.on /\ r.into = q.into

LEMMA ParkAfterIs == ParkAfter \in Nat /\ ParkAfter >= 1 /\ HighWater \in Nat /\ HighWater >= 1
  BY BoundsAssumption

LEMMA KindsAre ==
  /\ \A i \in ToSet(AirportOrder) : i.kind = "A"
  /\ \A i \in ToSet(PointOrder) : i.kind \in {"W", "V", "N"}
<1>1. \A i \in ToSet(AirportOrder) : i.kind = "A"
  <2> DEFINE idents == {i.ident : i \in ToSet(AirportOrder)}
         keys == [kind : {"A"}, ident : idents]
  <2>1. AirportOrder \in Seq(keys)
    BY OrderAssumption
  <2> HIDE DEF keys
  <2>2. \A n \in DOMAIN AirportOrder : AirportOrder[n] \in keys
    BY <2>1
  <2> USE DEF keys
  <2> QED BY <2>2 DEF ToSet
<1>2. \A i \in ToSet(PointOrder) : i.kind \in {"W", "V", "N"}
  <2> DEFINE idents == {i.ident : i \in ToSet(PointOrder)}
         keys == [kind : {"W", "V", "N"}, ident : idents]
  <2>1. PointOrder \in Seq(keys)
    BY OrderAssumption
  <2> HIDE DEF keys
  <2>2. \A n \in DOMAIN PointOrder : PointOrder[n] \in keys
    BY <2>1
  <2> USE DEF keys
  <2> QED BY <2>2 DEF ToSet
<1> QED BY <1>1, <1>2

LEMMA OrdersApart == ToSet(AirportOrder) \cap ToSet(PointOrder) = {}
  BY KindsAre

LEMMA NoItemIsNone == NoItem \notin Items /\ \A i \in Items : LaneOf(i) \in Lanes
<1>1. NoItem.kind = "none"
  BY DEF NoItem
<1>2. NoItem \notin Items
  BY KindsAre, <1>1 DEF Items
<1>3. \A i \in Items : LaneOf(i) \in Lanes
  BY KindsAre DEF Items, LaneOf, Lanes
<1> QED BY <1>2, <1>3

LEMMA MovedKeepsPlaces ==
  ASSUME NEW q, NEW r, NEW k, InOnePlace(q), Moved(q, r, k)
  PROVE  InOnePlace(r) /\ \A i : Holds(r, i) <=> Holds(q, i)
<1>1. \A i : Holds(r, i) <=> Holds(q, i)
  BY DEF Moved, Holds
<1>2. r.parked \subseteq q.parked /\ r.faults \in [Items -> 0..ParkAfter - 1]
  <2>1. CASE SameFaults(q, r)
    BY <2>1 DEF SameFaults, InOnePlace
  <2>2. CASE Forgiven(q, r, k)
    <3>1. 0 \in 0..ParkAfter - 1
      BY ParkAfterIs
    <3> QED BY <2>2, <3>1 DEF Forgiven
  <2> QED BY <2>1, <2>2 DEF Moved
<1> QED BY <1>1, <1>2 DEF InOnePlace, Moved

LEMMA MovedKeepsCounts ==
  ASSUME NEW q, NEW r, NEW k, NEW t, InOnePlace(q), LinkIs(k), Noted(q, k), Moved(q, r, k)
  PROVE  /\ Noted(r, k)
         /\ \/ k.session # 0
            \/ r.pump # "fetching"
            \/ q.pump = "fetching" /\ SameFaults(q, r)
            => (Counted(q, k, t) => Counted(r, k, t))
<1>1. CASE SameFaults(q, r)
  BY <1>1 DEF SameFaults, Noted, Counted
<1>2. CASE Forgiven(q, r, k)
  <2>1. Session(k) \in {0, k.session}
    BY DEF Session
  <2>2. Noted(r, k)
    BY <1>2, <2>1 DEF Forgiven, Noted, LinkIs
  <2>3. ASSUME k.session # 0, Counted(q, k, t) PROVE Counted(r, k, t)
    <3>1. ~(q.faultSession = k.made /\ q.faultStore = k.opened)
      BY <1>2, <2>1 DEF Forgiven, News, LinkIs
    <3>2. \A i \in Items : t[i] = 0
      BY <2>3, <3>1 DEF Counted
    <3>3. \A i \in Items : r.faults[i] = 0
      BY <1>2 DEF Forgiven
    <3> QED BY <2>3, <3>2, <3>3 DEF Counted
  <2>4. ASSUME k.session = 0, r.pump # "fetching", Counted(q, k, t) PROVE Counted(r, k, t)
    BY <2>4 DEF Counted
  <2>5. SameFaults(q, r) => (Counted(q, k, t) /\ q.pump = "fetching" => Counted(r, k, t))
    BY DEF SameFaults, Counted
  <2> QED BY <2>2, <2>3, <2>4, <2>5
<1> QED BY <1>1, <1>2 DEF Moved

\* What is queued is what the lanes hold.
LEMMA QueuedIs == ASSUME NEW q PROVE \A i : i \in Queued(q) <=> Holds(q, i)
  BY DEF Queued, Holds

LEMMA NothingIsNone == ASSUME NEW q, NothingQueued(q) PROVE \A i : ~Holds(q, i)
  BY DEF NothingQueued, Holds, ToSet

LEMMA NoticedIs ==
  ASSUME NEW q, NEW k, DOMAIN q = DemandFields
  PROVE  LET r == Noticed(q, k)
         IN  /\ Moved(q, r, k) /\ SamePump(q, r)
             /\ r.timer = q.timer /\ r.polling = q.polling
             /\ Session(k) # 0 => r.faultSession = Session(k)
             /\ k.store # 0 => r.faultStore = k.store
<1> DEFINE r == Noticed(q, k)
<1>1. CASE ~News(q, k)
  <2>1. r = q
    BY <1>1, Zenon DEF Noticed, News
  <2> HIDE DEF r
  <2>2. Moved(q, r, k) /\ SamePump(q, r)
    BY <2>1 DEF Moved, SameFaults, SamePump
  <2> QED BY <1>1, <2>1, <2>2 DEF News, r
<1>2. CASE News(q, k)
  <2> DEFINE fs == IF Session(k) # 0 THEN Session(k) ELSE q.faultSession
             ft == IF k.store # 0 THEN k.store ELSE q.faultStore
             none == [i \in Items |-> 0]
  <2>1. r = [q EXCEPT !.faultSession = fs, !.faultStore = ft, !.parked = {}, !.local = {}, !.faults = none]
    BY <1>2, Zenon DEF Noticed, News
  <2> HIDE DEF none, r
  <2>2. /\ DOMAIN r = DemandFields /\ r.faultSession = fs /\ r.faultStore = ft
        /\ r.parked = {} /\ r.faults = none
        /\ r.queue = q.queue /\ r.inFlight = q.inFlight /\ r.running = q.running /\ r.down = q.down
        /\ r.unanswered = q.unanswered /\ SamePump(q, r) /\ r.timer = q.timer /\ r.polling = q.polling
    <3> HIDE DEF fs, ft
    <3> QED BY <2>1 DEF DemandFields, SamePump
  <2>3. Forgiven(q, r, k)
    BY <1>2, <2>2 DEF Forgiven, none
  <2>4. /\ Session(k) # 0 => r.faultSession = Session(k)
        /\ k.store # 0 => r.faultStore = k.store
    BY <2>2
  <2> QED BY <2>2, <2>3, <2>4 DEF Moved, r
<1> QED BY <1>1, <1>2

LEMMA ScheduleIs ==
  ASSUME NEW q, NEW k, NEW again, DOMAIN q = DemandFields
  PROVE  LET r == Schedule(q, again)
         IN  /\ Moved(q, r, k) /\ SamePump(q, r) /\ SameFaults(q, r)
             /\ r.polling = q.polling /\ Timed(r)
<1> DEFINE r == Schedule(q, again)
           set == q.running /\ ~q.down
<1>1. r = [q EXCEPT !.timer = set, !.repoll = again]
  BY Zenon DEF Schedule
<1> HIDE DEF r
<1>2. /\ DOMAIN r = DemandFields
      /\ r.faultSession = q.faultSession /\ r.faultStore = q.faultStore
      /\ r.parked = q.parked /\ r.faults = q.faults
      /\ r.queue = q.queue /\ r.inFlight = q.inFlight /\ r.running = q.running /\ r.down = q.down
      /\ r.unanswered = q.unanswered /\ SamePump(q, r) /\ r.polling = q.polling
  <2> HIDE DEF set
  <2> QED BY <1>1 DEF DemandFields, SamePump
<1>3. r.timer = set
  BY <1>1, Zenon DEF DemandFields
<1>4. Timed(r)
  BY <1>2, <1>3, Zenon DEF Timed
<1> QED BY <1>2, <1>4 DEF Moved, SameFaults, r

LEMMA UnscheduledIs ==
  ASSUME NEW q, NEW k, DOMAIN q = DemandFields
  PROVE  LET r == Unscheduled(q)
         IN  /\ Moved(q, r, k) /\ SamePump(q, r) /\ SameFaults(q, r) /\ r.polling = q.polling
  BY DEF Unscheduled, DemandFields, Moved, SamePump, SameFaults

LEMMA MovedOn ==
  ASSUME NEW q, NEW n, NEW r, NEW k, Moved(q, n, k), Moved(n, r, k), SameFaults(q, n) \/ SameFaults(n, r)
  PROVE  Moved(q, r, k)
<1>1. SameFaults(q, n) => (SameFaults(n, r) => SameFaults(q, r)) /\ (Forgiven(n, r, k) => Forgiven(q, r, k))
  BY DEF SameFaults, Forgiven, News
<1>2. SameFaults(n, r) => (Forgiven(q, n, k) => Forgiven(q, r, k))
  BY DEF SameFaults, Forgiven, News
<1> QED BY <1>1, <1>2 DEF Moved

LEMMA PumpEndsIs ==
  ASSUME NEW q, NEW k, DOMAIN q = DemandFields
  PROVE  LET r == PumpEnds(q)
         IN  /\ Moved(q, r, k) /\ SameFaults(q, r)
             /\ r.pump = "idle" /\ r.polling = q.polling /\ (Timed(q) => Timed(r))
<1> DEFINE r == PumpEnds(q)
           e == [q EXCEPT !.pump = "idle", !.on = 0, !.into = 0]
           f == [e EXCEPT !.more = FALSE]
<1>1. /\ Moved(q, e, k) /\ SameFaults(q, e) /\ e.pump = "idle" /\ e.polling = q.polling
      /\ e.timer = q.timer /\ DOMAIN e = DemandFields
  BY DEF DemandFields, Moved, SameFaults
<1>2. r = e \/ r = Schedule(f, TRUE)
  BY Zenon DEF PumpEnds
<1> HIDE DEF e, r
<1>3. Timed(q) => Timed(e)
  BY <1>1, Zenon DEF Timed, Moved
<1>4. /\ Moved(e, f, k) /\ SameFaults(e, f) /\ f.pump = "idle" /\ f.polling = e.polling
      /\ f.timer = e.timer /\ DOMAIN f = DemandFields
  BY <1>1 DEF DemandFields, Moved, SameFaults
<1> HIDE DEF f
<1>5. CASE r = e
  BY <1>1, <1>3, <1>5 DEF r
<1>6. CASE r = Schedule(f, TRUE)
  <2>1. /\ Moved(f, r, k) /\ SamePump(f, r) /\ SameFaults(f, r)
        /\ r.polling = f.polling /\ Timed(r)
    BY <1>4, <1>6, ScheduleIs, Zenon
  <2>2. Moved(q, r, k) /\ SameFaults(q, r)
    BY <1>1, <1>4, <2>1, MovedOn DEF SameFaults
  <2> QED BY <1>1, <1>4, <2>1, <2>2 DEF SamePump, r
<1> QED BY <1>2, <1>5, <1>6

\* A pump that goes round rests because there is nothing to do, or prepares the
\* session and the store it has just taken notice of.
LEMMA PumpTopIs ==
  ASSUME NEW q, NEW k, DOMAIN q = DemandFields
  PROVE  LET r == PumpTop(q, k)
         IN  /\ Moved(q, r, k) /\ r.polling = q.polling /\ (Timed(q) => Timed(r))
             /\ \/ r.pump = "idle" /\ (q.down \/ NothingQueued(q) \/ Session(k) = 0 \/ k.store = 0)
                \/ /\ r.pump = "preparing" /\ Session(k) # 0 /\ k.store # 0
                   /\ r.on = Session(k) /\ r.into = k.store
                   /\ r.faultSession = Session(k) /\ r.faultStore = k.store
<1> DEFINE r == PumpTop(q, k)
           n == Noticed(q, k)
           p == [n EXCEPT !.pump = "preparing", !.on = Session(k), !.into = k.store]
<1>1. \/ r = PumpEnds(q) /\ (q.down \/ NothingQueued(q))
      \/ r = PumpEnds(n) /\ (Session(k) = 0 \/ k.store = 0)
      \/ r = p /\ Session(k) # 0 /\ k.store # 0
  BY Zenon DEF PumpTop
<1>2. /\ Moved(q, n, k) /\ SamePump(q, n)
      /\ n.timer = q.timer /\ n.polling = q.polling
      /\ Session(k) # 0 => n.faultSession = Session(k)
      /\ k.store # 0 => n.faultStore = k.store
  BY NoticedIs
<1>3. DOMAIN n = DemandFields
  BY <1>2 DEF Moved
<1> HIDE DEF r, n
<1>4. Timed(q) => Timed(n)
  BY <1>2, Zenon DEF Timed, Moved
<1>5. CASE r = PumpEnds(q) /\ (q.down \/ NothingQueued(q))
  <2>1. Moved(q, r, k) /\ r.pump = "idle" /\ r.polling = q.polling /\ (Timed(q) => Timed(r))
    BY <1>5, PumpEndsIs, Zenon
  <2> QED BY <1>5, <2>1 DEF r
<1>6. CASE r = PumpEnds(n) /\ (Session(k) = 0 \/ k.store = 0)
  <2>1. Moved(n, r, k) /\ SameFaults(n, r) /\ r.pump = "idle" /\ r.polling = n.polling /\ (Timed(n) => Timed(r))
    BY <1>3, <1>6, PumpEndsIs, Zenon
  <2>2. Moved(q, r, k)
    BY <1>2, <2>1, MovedOn
  <2> QED BY <1>2, <1>4, <1>6, <2>1, <2>2 DEF r
<1>7. CASE r = p /\ Session(k) # 0 /\ k.store # 0
  <2>1. /\ Moved(n, p, k) /\ SameFaults(n, p) /\ p.polling = n.polling /\ p.timer = n.timer
        /\ p.pump = "preparing" /\ p.on = Session(k) /\ p.into = k.store
    BY <1>3 DEF DemandFields, Moved, SameFaults
  <2> HIDE DEF p
  <2>2. Moved(q, p, k)
    BY <1>2, <2>1, MovedOn
  <2>3. Timed(q) => Timed(p)
    BY <1>4, <2>1, Zenon DEF Timed, Moved
  <2> QED BY <1>2, <1>7, <2>1, <2>2, <2>3 DEF SameFaults, r
<1> QED BY <1>1, <1>5, <1>6, <1>7

-----------------------------------------------------------------------------
(* A queue that fits the link it looks at, and a step that leaves it so.   *)

Fit(q, k) == InOnePlace(q) /\ Pumping(q) /\ Noted(q, k)

Onward(q, r, k) ==
  /\ Fit(r, k)
  /\ r.running = q.running /\ r.down = q.down
  /\ r.pump = "fetching" => SamePump(q, r)
  /\ \A t : Counted(q, k, t) => Counted(r, k, t)

\* A fetch under way is not one that its session has already let go of.
Lent(q, k) == q.pump = "fetching" => k.session # 0

LEMMA OnwardOn ==
  ASSUME NEW q, NEW n, NEW r, NEW k, Onward(q, n, k), Onward(n, r, k)
  PROVE  Onward(q, r, k)
  BY DEF Onward, SamePump

LEMMA MovedIsOnward ==
  ASSUME NEW q, NEW r, NEW k, Fit(q, k), LinkIs(k), Moved(q, r, k), SamePump(q, r),
         Lent(q, k) \/ SameFaults(q, r)
  PROVE  Onward(q, r, k)
<1>1. InOnePlace(q) /\ Noted(q, k) /\ Pumping(q)
  BY DEF Fit
<1>2. InOnePlace(r) /\ Noted(r, k)
  BY <1>1, MovedKeepsPlaces, MovedKeepsCounts
<1>3. q.faultSession <= r.faultSession /\ q.faultStore <= r.faultStore
  <2>1. Session(k) \in {0, k.session}
    BY DEF Session
  <2>2. q.faultSession \in 0..k.made /\ q.faultStore \in 0..k.opened /\ k.made \in Nat /\ k.opened \in Nat
    BY <1>1 DEF Noted, LinkIs
  <2>3. CASE SameFaults(q, r)
    BY <2>2, <2>3 DEF SameFaults
  <2>4. CASE Forgiven(q, r, k)
    BY <2>1, <2>2, <2>4 DEF Forgiven, LinkIs
  <2> QED BY <2>3, <2>4 DEF Moved
<1>4. Pumping(r)
  <2>1. q.faultSession \in Nat /\ r.faultSession \in Nat /\ q.faultStore \in Nat /\ r.faultStore \in Nat
    BY <1>1, <1>2 DEF Noted, LinkIs
  <2> QED BY <1>1, <1>3, <2>1 DEF Pumping, SamePump, Moved
<1>5. \A t : Counted(q, k, t) => Counted(r, k, t)
  <2>1. k.session # 0 \/ r.pump # "fetching" \/ (q.pump = "fetching" /\ SameFaults(q, r))
    BY DEF Lent, SamePump
  <2> QED BY <1>1, <2>1, MovedKeepsCounts
<1> QED BY <1>2, <1>4, <1>5 DEF Onward, Fit, Moved

LEMMA TopIsOnward ==
  ASSUME NEW q, NEW k, InOnePlace(q), Noted(q, k), LinkIs(k), q.inFlight = NoItem
  PROVE  LET r == PumpTop(q, k)
         IN  /\ Onward(q, r, k) /\ Rests(r, k) /\ r.pump # "fetching"
             /\ r.polling = q.polling /\ (Timed(q) => Timed(r))
             /\ \A i : Holds(r, i) <=> Holds(q, i)
<1> DEFINE r == PumpTop(q, k)
<1>1. /\ Moved(q, r, k) /\ r.polling = q.polling /\ (Timed(q) => Timed(r))
      /\ \/ r.pump = "idle" /\ (q.down \/ NothingQueued(q) \/ Session(k) = 0 \/ k.store = 0)
         \/ /\ r.pump = "preparing" /\ Session(k) # 0 /\ k.store # 0
            /\ r.on = Session(k) /\ r.into = k.store
            /\ r.faultSession = Session(k) /\ r.faultStore = k.store
  BY PumpTopIs DEF InOnePlace
<1> HIDE DEF r
<1>2. InOnePlace(r) /\ Noted(r, k) /\ (\A i : Holds(r, i) <=> Holds(q, i))
  BY <1>1, MovedKeepsPlaces, MovedKeepsCounts
<1>3. r.pump # "fetching" /\ r.pump \in {"idle", "preparing"} /\ r.inFlight = NoItem
  BY <1>1 DEF Moved
<1>4. Session(k) \in {0, k.session}
  BY DEF Session
<1>5. Pumping(r)
  <2>1. CASE r.pump = "idle"
    BY <1>3, <2>1 DEF Pumping
  <2>2. CASE r.pump = "preparing"
    <3>1. r.on \in 1..r.faultSession /\ r.into \in 1..r.faultStore
      BY <1>1, <1>4, <2>2 DEF LinkIs
    <3> QED BY <1>3, <2>2, <3>1 DEF Pumping
  <2> QED BY <1>3, <2>1, <2>2
<1>6. Rests(r, k)
  <2>1. CASE r.pump = "idle"
    <3>1. q.down \/ NothingQueued(q) \/ Session(k) = 0 \/ k.store = 0
      BY <1>1, <2>1
    <3>2. NothingQueued(q) => \A i : ~Holds(r, i)
      BY <1>2, NothingIsNone
    <3>3. r.down = q.down
      BY <1>1 DEF Moved
    <3> QED BY <3>1, <3>2, <3>3 DEF Rests
  <2> QED BY <2>1 DEF Rests
<1>7. \A t : Counted(q, k, t) => Counted(r, k, t)
  BY <1>1, <1>3, MovedKeepsCounts
<1>8. Onward(q, r, k)
  BY <1>1, <1>2, <1>3, <1>5, <1>7 DEF Onward, Fit, Moved
<1> QED BY <1>1, <1>2, <1>3, <1>6, <1>8 DEF r

LEMMA WakeIsOnward ==
  ASSUME NEW q, NEW k, Fit(q, k), LinkIs(k)
  PROVE  LET r == Wake(q, k)
         IN  /\ Onward(q, r, k) /\ Rests(r, k)
             /\ r.polling = q.polling /\ (Timed(q) => Timed(r))
             /\ \A i : Holds(r, i) <=> Holds(q, i)
<1> DEFINE r == Wake(q, k)
<1>1. CASE q.pump # "idle" \/ q.down
  <2>1. r = q
    BY <1>1, Zenon DEF Wake
  <2> HIDE DEF r
  <2>2. Onward(q, r, k) /\ Rests(r, k)
    BY <1>1, <2>1 DEF Onward, SamePump, Rests
  <2> QED BY <2>1, <2>2 DEF r
<1>2. CASE ~(q.pump # "idle" \/ q.down)
  <2>1. r = PumpTop(q, k)
    BY <1>2, Zenon DEF Wake
  <2>2. q.inFlight = NoItem
    BY <1>2 DEF Fit, Pumping
  <2> HIDE DEF r
  <2> QED BY <2>1, <2>2, TopIsOnward DEF Fit, r
<1> QED BY <1>1, <1>2

-----------------------------------------------------------------------------
(* Lists put together and cut.                                             *)

LEMMA ConcatIs ==
  ASSUME NEW X, NEW s \in Seq(X), NEW t \in Seq(X)
  PROVE  /\ s \o t \in Seq(X) /\ ToSet(s \o t) = ToSet(s) \cup ToSet(t)
         /\ IsInjective(s) /\ IsInjective(t) /\ ToSet(s) \cap ToSet(t) = {} => IsInjective(s \o t)
<1> DEFINE u == s \o t
<1>1. /\ u \in Seq(X) /\ Len(u) = Len(s) + Len(t) /\ Len(s) \in Nat /\ Len(t) \in Nat
      /\ \A i \in 1..Len(s) : u[i] = s[i]
      /\ \A i \in Len(s) + 1..Len(s) + Len(t) : u[i] = t[i - Len(s)]
  OBVIOUS
<1>2. DOMAIN u = 1..Len(s) + Len(t) /\ DOMAIN s = 1..Len(s) /\ DOMAIN t = 1..Len(t)
  BY <1>1
<1> HIDE DEF u
<1>3. \A i \in DOMAIN u : \/ i \in DOMAIN s /\ u[i] = s[i]
                          \/ i - Len(s) \in DOMAIN t /\ u[i] = t[i - Len(s)] /\ i \in Nat
  BY <1>1, <1>2
<1>4. \A i \in DOMAIN s : i \in DOMAIN u /\ u[i] = s[i]
  BY <1>1, <1>2
<1>5. \A i \in DOMAIN t : i + Len(s) \in DOMAIN u /\ u[i + Len(s)] = t[i]
  <2>1. ASSUME NEW i \in DOMAIN t PROVE i + Len(s) \in DOMAIN u /\ u[i + Len(s)] = t[i]
    <3>1. i + Len(s) \in Len(s) + 1..Len(s) + Len(t) /\ i + Len(s) - Len(s) = i /\ i + Len(s) \in DOMAIN u
      BY <1>1, <1>2
    <3> QED BY <1>1, <3>1
  <2> QED BY <2>1
<1>6. ToSet(u) = ToSet(s) \cup ToSet(t)
  <2>1. \A i \in DOMAIN u : u[i] \in ToSet(s) \cup ToSet(t)
    BY <1>3 DEF ToSet
  <2>2. \A i \in DOMAIN s : s[i] \in ToSet(u)
    BY <1>4 DEF ToSet
  <2>3. \A i \in DOMAIN t : t[i] \in ToSet(u)
    BY <1>5 DEF ToSet
  <2> QED BY <2>1, <2>2, <2>3 DEF ToSet
<1>7. ASSUME IsInjective(s), IsInjective(t), ToSet(s) \cap ToSet(t) = {} PROVE IsInjective(u)
  <2>1. \A i \in DOMAIN s : \A j \in DOMAIN t : s[i] # t[j]
    BY <1>7 DEF ToSet
  <2>2. ASSUME NEW a \in DOMAIN u, NEW b \in DOMAIN u, u[a] = u[b] PROVE a = b
    <3>1. CASE a \in DOMAIN s /\ u[a] = s[a]
      BY <1>1, <1>3, <1>7, <2>1, <2>2, <3>1 DEF IsInjective
    <3>2. CASE a - Len(s) \in DOMAIN t /\ u[a] = t[a - Len(s)] /\ a \in Nat
      <4>1. b - Len(s) \in DOMAIN t /\ u[b] = t[b - Len(s)] /\ b \in Nat
        BY <1>3, <2>1, <2>2, <3>2
      <4>2. a - Len(s) = b - Len(s)
        BY <1>7, <2>2, <3>2, <4>1 DEF IsInjective
      <4> QED BY <1>1, <3>2, <4>1, <4>2
    <3> QED BY <1>3, <3>1, <3>2
  <2> QED BY <2>2 DEF IsInjective
<1> QED BY <1>1, <1>6, <1>7 DEF u

LEMMA FirstIs ==
  ASSUME NEW X, NEW s \in Seq(X), NEW n \in Int
  PROVE  /\ First(n, s) \in Seq(X) /\ ToSet(First(n, s)) \subseteq ToSet(s)
         /\ IsInjective(s) => IsInjective(First(n, s))
<1> DEFINE m == IF n < Len(s) THEN n ELSE Len(s)
           u == SubSeq(s, 1, m)
<1>1. m \in Int /\ m <= Len(s) /\ Len(s) \in Nat
  OBVIOUS
<1>2. First(n, s) = u
  BY DEF First
<1> HIDE DEF m
<1>3. /\ u = [i \in 1..m |-> s[i]]
  BY <1>1
<1>4. \A i \in 1..m : i \in DOMAIN s /\ s[i] \in X
  BY <1>1
<1> HIDE DEF u
<1>5. DOMAIN u = 1..m /\ \A i \in 1..m : u[i] = s[i]
  BY <1>3
<1>6. u \in Seq(X)
  BY <1>1, <1>3, <1>4
<1>7. ToSet(u) \subseteq ToSet(s) /\ (IsInjective(s) => IsInjective(u))
  BY <1>4, <1>5 DEF ToSet, IsInjective
<1> QED BY <1>2, <1>6, <1>7

\* The only member of a list.
LEMMA OneIs ==
  ASSUME NEW X, NEW e \in X
  PROVE  <<e>> \in Seq(X) /\ ToSet(<<e>>) = {e} /\ IsInjective(<<e>>)
  BY DEF ToSet, IsInjective

LEMMA HeadIs ==
  ASSUME NEW X, NEW s \in Seq(X)
  PROVE  IF s = <<>> THEN ToSet(s) = {} ELSE Head(s) \in ToSet(s)
<1>1. s = <<>> => ToSet(s) = {}
  BY DEF ToSet
<1>2. s # <<>> => 1 \in DOMAIN s /\ Head(s) = s[1]
  OBVIOUS
<1> QED BY <1>1, <1>2 DEF ToSet

-----------------------------------------------------------------------------
(* What a fetch takes out of the queue and what it puts back.              *)

LEMMA LaneHolds ==
  ASSUME NEW q, InOnePlace(q)
  PROVE  /\ \A l \in Lanes : /\ q.queue[l] \in Seq(Items) /\ Len(q.queue[l]) \in Nat
                             /\ \A i \in ToSet(q.queue[l]) : i \in Items /\ LaneOf(i) = l
         /\ \A i : Holds(q, i) <=> i \in Items /\ i \in ToSet(q.queue[LaneOf(i)])
<1>1. ASSUME NEW l \in Lanes
      PROVE  /\ q.queue[l] \in Seq(Items) /\ Len(q.queue[l]) \in Nat
             /\ \A i \in ToSet(q.queue[l]) : i \in Items /\ LaneOf(i) = l
  <2>1. InLane(l) \subseteq Items /\ \A i \in InLane(l) : LaneOf(i) = l
    BY DEF InLane
  <2>2. q.queue[l] \in Seq(InLane(l))
    BY DEF InOnePlace
  <2> DEFINE s == q.queue[l]
  <2> HIDE DEF s
  <2>3. s \in Seq(Items) /\ Len(s) \in Nat /\ \A n \in DOMAIN s : s[n] \in InLane(l)
    BY <2>1, <2>2 DEF s
  <2> QED BY <2>1, <2>3 DEF s, ToSet
<1>2. \A i \in Items : LaneOf(i) \in Lanes
  BY NoItemIsNone
<1> QED BY <1>1, <1>2 DEF Holds

LEMMA RunnableIs ==
  ASSUME NEW q, NEW k, InOnePlace(q)
  PROVE  LET item == Runnable(q, k)
         IN  IF item = NoItem THEN \A i \in Items : Holds(q, i) => i.kind \notin k.usable
             ELSE item \in Items /\ Holds(q, item) /\ item.kind \in k.usable
<1> DEFINE S == {i \in Items : i.kind \in k.usable}
           fits(l) == Only[S][q.queue[l]]
           all == fits("A") \o fits("W") \o fits("NAV")
           item == Runnable(q, k)
<1>1. S \in SUBSET Items
  OBVIOUS
<1>2. ASSUME NEW l \in Lanes PROVE fits(l) \in Seq(S) /\ ToSet(fits(l)) = ToSet(q.queue[l]) \cap S
  <2>1. q.queue[l] \in Seq(Items)
    BY LaneHolds
  <2> HIDE DEF S
  <2> QED BY <1>1, <2>1, OnlyIs
<1>3. "A" \in Lanes /\ "W" \in Lanes /\ "NAV" \in Lanes /\ Lanes = {"A", "W", "NAV"}
  BY DEF Lanes
<1>4. item = IF all = <<>> THEN NoItem ELSE Head(all)
  BY Zenon DEF Runnable
<1>5. \A i \in S : i \in Items /\ i.kind \in k.usable
  OBVIOUS
<1>6. \A i \in Items : i.kind \in k.usable => i \in S
  OBVIOUS
<1>7. \A i : Holds(q, i) <=> i \in ToSet(q.queue["A"]) \cup ToSet(q.queue["W"]) \cup ToSet(q.queue["NAV"])
  BY <1>3 DEF Holds
<1> HIDE DEF S, fits
<1>8. all \in Seq(S) /\ ToSet(all) = ToSet(fits("A")) \cup ToSet(fits("W")) \cup ToSet(fits("NAV"))
  <2>1. /\ fits("A") \o fits("W") \in Seq(S)
        /\ ToSet(fits("A") \o fits("W")) = ToSet(fits("A")) \cup ToSet(fits("W"))
    BY <1>2, <1>3, ConcatIs
  <2> DEFINE both == fits("A") \o fits("W")
             third == fits("NAV")
  <2> HIDE DEF both
  <2>2. third \in Seq(S)
    BY <1>2, <1>3
  <2> HIDE DEF third
  <2>3. both \in Seq(S)
    BY <2>1 DEF both
  <2>4. both \o third \in Seq(S) /\ ToSet(both \o third) = ToSet(both) \cup ToSet(third)
    BY <2>2, <2>3, ConcatIs
  <2> QED BY <2>1, <2>4 DEF both, third
<1>9. ToSet(all) = {i \in S : Holds(q, i)}
  <2>1. \A i \in ToSet(all) : i \in S /\ Holds(q, i)
    BY <1>2, <1>3, <1>7, <1>8
  <2>2. \A i \in S : Holds(q, i) => i \in ToSet(all)
    BY <1>2, <1>3, <1>7, <1>8
  <2> QED BY <2>1, <2>2
<1> HIDE DEF all, item
<1>10. IF all = <<>> THEN ToSet(all) = {} ELSE Head(all) \in ToSet(all)
  BY <1>8, HeadIs
<1>11. CASE all = <<>>
  BY <1>4, <1>6, <1>9, <1>10, <1>11 DEF item
<1>12. CASE all # <<>>
  BY <1>4, <1>5, <1>9, <1>10, <1>12, NoItemIsNone DEF item
<1> QED BY <1>11, <1>12

\* Everything but what is queued, in flight and asked of the pump.
SameRest(q, r) ==
  /\ DOMAIN r = DemandFields
  /\ r.running = q.running /\ r.down = q.down /\ r.timer = q.timer /\ r.polling = q.polling
  /\ SamePump(q, r) /\ r.inFlight = q.inFlight

LEMMA TakenIs ==
  ASSUME NEW q, InOnePlace(q), NEW item \in Items
  PROVE  LET r == [q EXCEPT !.queue[LaneOf(item)] = Only[Items \ {item}][@]]
         IN  /\ InOnePlace(r) /\ SameRest(q, r) /\ SameFaults(q, r) /\ r.unanswered = q.unanswered
             /\ \A i : Holds(r, i) <=> Holds(q, i) /\ i # item
<1> DEFINE here == LaneOf(item)
           rest == Only[Items \ {item}][q.queue[here]]
           Q == [q.queue EXCEPT ![here] = rest]
           r == [q EXCEPT !.queue = Q]
<1>1. here \in Lanes
  BY NoItemIsNone
<1>2. /\ rest \in Seq(Items \ {item}) /\ ToSet(rest) = ToSet(q.queue[here]) \cap (Items \ {item})
      /\ IsInjective(q.queue[here]) => IsInjective(rest)
  <2>1. q.queue[here] \in Seq(Items) /\ Items \ {item} \in SUBSET Items
    BY <1>1, LaneHolds
  <2> QED BY <2>1, OnlyIs
<1>3. ToSet(rest) = ToSet(q.queue[here]) \ {item}
  <2>1. \A i \in ToSet(q.queue[here]) : i \in Items
    BY <1>1, LaneHolds
  <2> QED BY <1>2, <2>1
<1>4. rest \in Seq(InLane(here))
  <2>1. \A i \in ToSet(q.queue[here]) : i \in InLane(here)
    BY <1>1, LaneHolds DEF InLane
  <2> DEFINE s == rest
  <2> HIDE DEF s
  <2>2. s \in Seq(Items \ {item}) /\ \A n \in DOMAIN s : s[n] \in ToSet(q.queue[here])
    BY <1>2, <1>3 DEF s, ToSet
  <2>3. s \in Seq(InLane(here))
    BY <2>1, <2>2
  <2> QED BY <2>3 DEF s
<1> HIDE DEF rest, here
<1>5. DOMAIN Q = Lanes /\ Q[here] = rest /\ \A l \in Lanes : l # here => Q[l] = q.queue[l]
  BY <1>1 DEF InOnePlace
<1> HIDE DEF Q
<1>6. SameRest(q, r) /\ SameFaults(q, r) /\ r.queue = Q /\ r.unanswered = q.unanswered
  BY DEF InOnePlace, DemandFields, SameRest, SameFaults, SamePump
<1> HIDE DEF r
<1>7. \A l \in Lanes : ToSet(r.queue[l]) = ToSet(q.queue[l]) \ {item}
  <2>1. \A l \in Lanes : l # here => item \notin ToSet(q.queue[l])
    BY LaneHolds DEF here
  <2> QED BY <1>3, <1>5, <1>6, <2>1
<1>8. \A i : Holds(r, i) <=> Holds(q, i) /\ i # item
  BY <1>7 DEF Holds
<1>9. \A l \in Lanes : r.queue[l] \in Seq(InLane(l)) /\ IsInjective(r.queue[l])
  BY <1>2, <1>4, <1>5, <1>6 DEF InOnePlace
<1>10. InOnePlace(r)
  BY <1>5, <1>6, <1>8, <1>9 DEF InOnePlace, SameRest, SameFaults
<1>11. [q EXCEPT !.queue[LaneOf(item)] = Only[Items \ {item}][@]] = r
  BY Zenon DEF r, Q, rest, here
<1> QED BY <1>6, <1>8, <1>10, <1>11

LEMMA RequeueIs ==
  ASSUME NEW q, NEW front, InOnePlace(q), NEW item \in Items, item \notin q.unanswered \cup {q.inFlight}
  PROVE  LET r == Requeue(q, item, front)
         IN  InOnePlace(r) /\ SameRest(q, r) /\ SameFaults(q, r)
<1> DEFINE r == Requeue(q, item, front)
<1>1. CASE item \in Queued(q) \cup q.parked
  <2>1. r = q
    BY <1>1, Zenon DEF Requeue
  <2> HIDE DEF r
  <2>2. SameRest(q, q) /\ SameFaults(q, q)
    BY DEF SameRest, SameFaults, SamePump, InOnePlace
  <2> QED BY <2>1, <2>2 DEF r
<1>2. CASE ~(item \in Queued(q) \cup q.parked)
  <2> DEFINE here == LaneOf(item)
             old == q.queue[here]
             new == IF front THEN <<item>> \o old ELSE Append(old, item)
             Q == [q.queue EXCEPT ![here] = new]
             s == [q EXCEPT !.queue = Q]
  <2>1. r = s
    BY <1>2, Zenon DEF Requeue
  <2>2. here \in Lanes /\ item \in InLane(here)
    BY NoItemIsNone DEF InLane
  <2>3. old \in Seq(InLane(here)) /\ IsInjective(old)
    BY <2>2 DEF InOnePlace
  <2>4. item \notin ToSet(old) /\ ~Holds(q, item) /\ item \notin q.parked
    BY <1>2, <2>2, QueuedIs DEF Holds
  <2> HIDE DEF old, here
  <2>5. new \in Seq(InLane(here)) /\ IsInjective(new) /\ ToSet(new) = ToSet(old) \cup {item}
    <3>1. CASE front
      <4> DEFINE one == <<item>>
      <4>1. one \in Seq(InLane(here)) /\ ToSet(one) = {item} /\ IsInjective(one)
        BY <2>2, OneIs
      <4>2. new = one \o old
        BY <3>1
      <4> HIDE DEF one, new
      <4>3. ToSet(one) \cap ToSet(old) = {}
        BY <2>4, <4>1
      <4>4. /\ one \o old \in Seq(InLane(here)) /\ ToSet(one \o old) = ToSet(one) \cup ToSet(old)
            /\ IsInjective(one) /\ IsInjective(old) /\ ToSet(one) \cap ToSet(old) = {} => IsInjective(one \o old)
        BY <2>3, <4>1, ConcatIs
      <4> QED BY <2>3, <4>1, <4>2, <4>3, <4>4
    <3>2. CASE ~front
      <4>1. new = Append(old, item)
        BY <3>2
      <4> HIDE DEF new
      <4> QED BY <2>2, <2>3, <2>4, <4>1, AppendIs
    <3> QED BY <3>1, <3>2
  <2> HIDE DEF new, r
  <2>6. DOMAIN Q = Lanes /\ Q[here] = new /\ \A l \in Lanes : l # here => Q[l] = q.queue[l]
    BY <2>2 DEF InOnePlace
  <2> HIDE DEF Q
  <2>7. SameRest(q, s) /\ SameFaults(q, s) /\ s.queue = Q /\ s.unanswered = q.unanswered
    BY DEF InOnePlace, DemandFields, SameRest, SameFaults, SamePump
  <2> HIDE DEF s
  <2>8. \A i : Holds(s, i) <=> Holds(q, i) \/ i = item
    <3>1. \A l \in Lanes : ToSet(s.queue[l]) = IF l = here THEN ToSet(q.queue[l]) \cup {item} ELSE ToSet(q.queue[l])
      BY <2>5, <2>6, <2>7 DEF old
    <3> QED BY <2>2, <3>1 DEF Holds
  <2>9. InOnePlace(s)
    BY <2>4, <2>5, <2>6, <2>7, <2>8 DEF InOnePlace, SameRest, SameFaults
  <2> QED BY <2>1, <2>7, <2>9 DEF r
<1> QED BY <1>1, <1>2

LEMMA ParkIs ==
  ASSUME NEW q, NEW here, InOnePlace(q), NEW item \in Items, ~Holds(q, item), q.inFlight # item
  PROVE  LET r == Park(q, item, here)
         IN  /\ InOnePlace(r) /\ SameRest(q, r)
             /\ r.faultSession = q.faultSession /\ r.faultStore = q.faultStore
             /\ r.parked = q.parked \cup {item}
             /\ \A i \in Items : i # item => r.faults[i] = q.faults[i]
<1> DEFINE r == Park(q, item, here)
           none == [q.faults EXCEPT ![item] = 0]
           loc == IF here THEN q.local \cup {item} ELSE q.local
<1>1. r = [q EXCEPT !.parked = q.parked \cup {item}, !.local = loc, !.faults = none]
  BY Zenon DEF Park
<1>2. none \in [Items -> 0..ParkAfter - 1] /\ \A i \in Items : i # item => none[i] = q.faults[i]
  <2>1. 0 \in 0..ParkAfter - 1
    BY ParkAfterIs
  <2> QED BY <2>1 DEF InOnePlace
<1> HIDE DEF r, none, loc
<1>3. /\ SameRest(q, r) /\ r.queue = q.queue /\ r.unanswered = q.unanswered
      /\ r.faultSession = q.faultSession /\ r.faultStore = q.faultStore
      /\ r.parked = q.parked \cup {item} /\ r.faults = none
  BY <1>1 DEF InOnePlace, DemandFields, SameRest, SamePump
<1>4. \A i : Holds(r, i) <=> Holds(q, i)
  BY <1>3 DEF Holds
<1>5. InOnePlace(r)
  BY <1>2, <1>3, <1>4 DEF InOnePlace, SameRest
<1> QED BY <1>2, <1>3, <1>5 DEF r

\* A failure is counted, or it was the last and the item is set aside.
LEMMA FaultIs ==
  ASSUME NEW q, NEW again \in BOOLEAN, InOnePlace(q), NEW item \in Items, ~Holds(q, item),
         item \notin q.parked \cup q.unanswered, q.inFlight = NoItem
  PROVE  LET r == Fault(q, item, again)
         IN  /\ InOnePlace(r) /\ SameRest(q, r)
             /\ r.faultSession = q.faultSession /\ r.faultStore = q.faultStore
             /\ q.parked \subseteq r.parked
             /\ \A i \in Items : i # item => r.faults[i] = q.faults[i]
             /\ item \in r.parked \/ r.faults[item] = q.faults[item] + 1
<1> DEFINE r == Fault(q, item, again)
           un == IF again THEN q.unanswered ELSE q.unanswered \cup {item}
           held == [q EXCEPT !.unanswered = un]
           count == q.faults[item] + 1
           counts == [held.faults EXCEPT ![item] = count]
           kept == [held EXCEPT !.faults = counts]
<1>1. r = IF count >= ParkAfter THEN Park(held, item, FALSE)
          ELSE IF again THEN Requeue(kept, item, FALSE) ELSE kept
  BY Zenon DEF Fault
<1>2. un \subseteq q.unanswered \cup {item} /\ q.unanswered \subseteq un /\ (again => un = q.unanswered)
  OBVIOUS
<1>3. item # NoItem /\ NoItem \notin Items
  BY NoItemIsNone
<1> HIDE DEF r, un
<1>4. /\ SameRest(q, held) /\ SameFaults(q, held) /\ held.queue = q.queue /\ held.unanswered = un
  BY DEF InOnePlace, DemandFields, SameRest, SameFaults, SamePump
<1> HIDE DEF held
<1>5. \A i : Holds(held, i) <=> Holds(q, i)
  BY <1>4 DEF Holds
<1>6. InOnePlace(held) /\ ~Holds(held, item) /\ held.inFlight = NoItem
  BY <1>2, <1>3, <1>4, <1>5 DEF InOnePlace, SameRest, SameFaults
<1>7. q.faults \in [Items -> 0..ParkAfter - 1] /\ held.faults = q.faults
  BY <1>4 DEF InOnePlace, SameFaults
<1>8. CASE count >= ParkAfter
  <2>1. r = Park(held, item, FALSE)
    BY <1>1, <1>8, Zenon
  <2>2. /\ InOnePlace(r) /\ SameRest(held, r)
        /\ r.faultSession = held.faultSession /\ r.faultStore = held.faultStore
        /\ r.parked = held.parked \cup {item}
        /\ \A i \in Items : i # item => r.faults[i] = held.faults[i]
    <3>1. held.inFlight # item
      BY <1>3, <1>6
    <3> DEFINE no == FALSE
               p == Park(held, item, no)
    <3>2. r = p
      BY <2>1, Zenon
    <3> HIDE DEF no
    <3>3. /\ InOnePlace(p) /\ SameRest(held, p)
          /\ p.faultSession = held.faultSession /\ p.faultStore = held.faultStore
          /\ p.parked = held.parked \cup {item}
          /\ \A i \in Items : i # item => p.faults[i] = held.faults[i]
      BY <1>6, <3>1, ParkIs
    <3> HIDE DEF p
    <3> QED BY <3>2, <3>3
  <2> QED BY <1>4, <2>2 DEF SameRest, SameFaults, SamePump, r
<1>9. CASE ~(count >= ParkAfter)
  <2>1. r = IF again THEN Requeue(kept, item, FALSE) ELSE kept
    BY <1>1, <1>9, Zenon
  <2>2. /\ counts \in [Items -> 0..ParkAfter - 1] /\ counts[item] = count
        /\ \A i \in Items : i # item => counts[i] = q.faults[i]
    <3>1. count \in 0..ParkAfter - 1
      BY <1>7, <1>9, ParkAfterIs
    <3> HIDE DEF count
    <3> QED BY <1>7, <3>1
  <2> HIDE DEF counts, count
  <2>3. /\ SameRest(held, kept) /\ kept.queue = held.queue /\ kept.unanswered = held.unanswered
        /\ kept.faultSession = held.faultSession /\ kept.faultStore = held.faultStore
        /\ kept.parked = held.parked /\ kept.faults = counts
    BY <1>6 DEF InOnePlace, DemandFields, SameRest, SamePump
  <2> HIDE DEF kept
  <2>4. \A i : Holds(kept, i) <=> Holds(held, i)
    BY <2>3 DEF Holds
  <2>5. InOnePlace(kept)
    BY <1>6, <2>2, <2>3, <2>4 DEF InOnePlace, SameRest
  <2>6. InOnePlace(r) /\ SameRest(kept, r) /\ SameFaults(kept, r)
    <3>1. CASE again
      <4>1. item \notin kept.unanswered \cup {kept.inFlight}
        BY <1>2, <1>3, <1>4, <1>6, <2>3, <3>1 DEF SameRest
      <4>2. r = Requeue(kept, item, FALSE)
        BY <2>1, <3>1, Zenon
      <4> QED BY <2>5, <4>1, <4>2, RequeueIs, Zenon
    <3>2. CASE ~again
      <4>1. r = kept
        BY <2>1, <3>2, Zenon
      <4> QED BY <2>5, <4>1 DEF InOnePlace, SameRest, SameFaults, SamePump
    <3> QED BY <3>1, <3>2
  <2> QED BY <1>4, <2>2, <2>3, <2>6 DEF SameRest, SameFaults, SamePump, count, r
<1> QED BY <1>8, <1>9

\* What a fetch of item ended as, told to the counts.
Reckoned(q, r, item, outcome, open) ==
  /\ r.faultSession = q.faultSession /\ r.faultStore = q.faultStore
  /\ q.parked \subseteq r.parked
  /\ \A i \in Items : i # item => r.faults[i] = q.faults[i]
  /\ \/ outcome \in {"answered", "absent"}
     \/ item \in r.parked
     \/ r.faults[item] = q.faults[item] + 1
     \/ outcome = "aborted" /\ ~open /\ r.faults[item] = q.faults[item]

LEMMA SettleIs ==
  ASSUME NEW q, NEW open \in BOOLEAN, NEW outcome \in Outcomes, InOnePlace(q), NEW item \in Items,
         ~Holds(q, item), item \notin q.parked \cup q.unanswered, q.inFlight = NoItem
  PROVE  LET r == Settle(q, item, outcome, open)
         IN  InOnePlace(r) /\ SameRest(q, r) /\ Reckoned(q, r, item, outcome, open)
<1> DEFINE r == Settle(q, item, outcome, open)
           none == [q.faults EXCEPT ![item] = 0]
           a == [q EXCEPT !.faults = none]
           no == FALSE
           yes == TRUE
<1>1. CASE outcome \in {"answered", "absent"}
  <2>1. r = a
    BY <1>1 DEF Settle
  <2>2. none \in [Items -> 0..ParkAfter - 1] /\ \A i \in Items : i # item => none[i] = q.faults[i]
    <3>1. 0 \in 0..ParkAfter - 1
      BY ParkAfterIs
    <3> QED BY <3>1 DEF InOnePlace
  <2> HIDE DEF none, r
  <2>3. /\ SameRest(q, a) /\ a.queue = q.queue /\ a.unanswered = q.unanswered
        /\ a.faultSession = q.faultSession /\ a.faultStore = q.faultStore
        /\ a.parked = q.parked /\ a.faults = none
    BY DEF InOnePlace, DemandFields, SameRest, SamePump
  <2> HIDE DEF a
  <2>4. \A i : Holds(a, i) <=> Holds(q, i)
    BY <2>3 DEF Holds
  <2>5. InOnePlace(a)
    BY <2>2, <2>3, <2>4 DEF InOnePlace, SameRest
  <2> QED BY <1>1, <2>1, <2>2, <2>3, <2>5 DEF Reckoned, r
<1>2. CASE outcome = "aborted" /\ ~open
  <2> DEFINE first == TRUE
  <2>1. r = Requeue(q, item, first)
    BY <1>2 DEF Settle
  <2> HIDE DEF first
  <2>2. item \notin q.unanswered \cup {q.inFlight}
    BY NoItemIsNone
  <2> DEFINE p == Requeue(q, item, first)
  <2>3. InOnePlace(p) /\ SameRest(q, p) /\ SameFaults(q, p)
    BY <2>2, RequeueIs
  <2> HIDE DEF p
  <2>4. r = p
    BY <2>1 DEF p
  <2> HIDE DEF r
  <2> QED BY <1>2, <2>3, <2>4 DEF Reckoned, SameFaults, r
<1>3. ASSUME NEW again \in BOOLEAN, r = Fault(q, item, again)
      PROVE  InOnePlace(r) /\ SameRest(q, r) /\ Reckoned(q, r, item, outcome, open)
  <2> DEFINE p == Fault(q, item, again)
  <2>1. /\ InOnePlace(p) /\ SameRest(q, p)
        /\ p.faultSession = q.faultSession /\ p.faultStore = q.faultStore
        /\ q.parked \subseteq p.parked
        /\ \A i \in Items : i # item => p.faults[i] = q.faults[i]
        /\ item \in p.parked \/ p.faults[item] = q.faults[item] + 1
    BY FaultIs
  <2> HIDE DEF p
  <2>2. r = p
    BY <1>3 DEF p
  <2> HIDE DEF r
  <2> QED BY <2>1, <2>2 DEF Reckoned
<1>4. ASSUME NEW here, r = Park(q, item, here)
      PROVE  InOnePlace(r) /\ SameRest(q, r) /\ Reckoned(q, r, item, outcome, open)
  <2> DEFINE p == Park(q, item, here)
  <2>1. /\ InOnePlace(p) /\ SameRest(q, p)
        /\ p.faultSession = q.faultSession /\ p.faultStore = q.faultStore
        /\ p.parked = q.parked \cup {item}
        /\ \A i \in Items : i # item => p.faults[i] = q.faults[i]
    <3>1. q.inFlight # item
      BY NoItemIsNone
    <3> QED BY <3>1, ParkIs
  <2> HIDE DEF p
  <2>2. r = p
    BY <1>4 DEF p
  <2> HIDE DEF r
  <2> QED BY <2>1, <2>2 DEF Reckoned
<1>5. CASE outcome = "aborted" /\ open
  <2>1. r = Fault(q, item, yes)
    BY <1>5 DEF Settle
  <2>2. yes \in BOOLEAN
    OBVIOUS
  <2> HIDE DEF yes, r
  <2> QED BY <1>3, <2>1, <2>2 DEF r
<1>6. CASE outcome = "ambiguous"
  <2>1. r = Park(q, item, no)
    BY <1>6 DEF Settle
  <2> HIDE DEF no, r
  <2> QED BY <1>4, <2>1 DEF r
<1>7. CASE outcome = "mismatched"
  <2>1. r = Park(q, item, yes)
    BY <1>7 DEF Settle
  <2> HIDE DEF yes, r
  <2> QED BY <1>4, <2>1 DEF r
<1>8. CASE outcome = "failed"
  <2>1. r = Fault(q, item, no)
    BY <1>8 DEF Settle
  <2>2. no \in BOOLEAN
    OBVIOUS
  <2> HIDE DEF no, r
  <2> QED BY <1>3, <2>1, <2>2 DEF r
<1>9. \/ outcome \in {"answered", "absent"} \/ outcome = "ambiguous"
      \/ outcome = "mismatched" \/ outcome = "failed"
      \/ (outcome = "aborted" /\ ~open) \/ (outcome = "aborted" /\ open)
  BY DEF Outcomes
<1> HIDE DEF r
<1> QED BY <1>1, <1>2, <1>5, <1>6, <1>7, <1>8, <1>9 DEF r

\* The item in flight is the queue's no longer, or is back in it.
LEMMA AfterFetchIs ==
  ASSUME NEW q, NEW k, NEW outcome \in Outcomes, Fit(q, k), LinkIs(k), q.pump = "fetching"
  PROVE  LET r == AfterFetch(q, k, outcome)
             open == k.session = q.on
         IN  /\ Fit(r, k) /\ r.running = q.running /\ r.down = q.down
             /\ r.polling = q.polling /\ (Timed(q) => Timed(r))
             /\ r.pump \in {"idle", "yielding"} /\ (r.pump = "idle" => q.down)
             /\ q.down \/ Reckoned(q, r, q.inFlight, outcome, open)
<1> DEFINE r == AfterFetch(q, k, outcome)
           open == k.session = q.on
           item == q.inFlight
           e == [q EXCEPT !.inFlight = NoItem]
           s == Settle(e, item, outcome, open)
           y == [s EXCEPT !.pump = "yielding"]
<1>1. r = IF q.down THEN PumpEnds(e) ELSE y
  BY Zenon DEF AfterFetch
<1>2. item \in Items /\ InOnePlace(q) /\ Noted(q, k) /\ Pumping(q)
  BY DEF Fit, Pumping, InOnePlace
<1> HIDE DEF item
<1>3. /\ e.inFlight = NoItem /\ e.queue = q.queue /\ e.running = q.running /\ e.down = q.down
      /\ e.timer = q.timer /\ e.polling = q.polling /\ SamePump(q, e)
      /\ e.unanswered = q.unanswered /\ SameFaults(q, e) /\ DOMAIN e = DemandFields
  BY <1>2 DEF InOnePlace, DemandFields, SameFaults, SamePump
<1> HIDE DEF e, r
<1>4. \A i : Holds(e, i) <=> Holds(q, i)
  BY <1>3 DEF Holds
<1>5. InOnePlace(e)
  <2>1. e.inFlight \notin e.parked \cup e.unanswered
    BY <1>2, <1>3, NoItemIsNone DEF InOnePlace, SameFaults
  <2>2. \A i \in Items : i # NoItem
    BY NoItemIsNone
  <2> QED BY <1>2, <1>3, <1>4, <2>1, <2>2 DEF InOnePlace, SameFaults
<1>6. Timed(q) => Timed(e)
  BY <1>3, Zenon DEF Timed
<1>7. Noted(e, k)
  BY <1>2, <1>3 DEF Noted, SameFaults
<1>8. CASE q.down
  <2>1. r = PumpEnds(e)
    BY <1>1, <1>8, Zenon
  <2>2. /\ Moved(e, r, k) /\ SameFaults(e, r)
        /\ r.pump = "idle" /\ r.polling = e.polling /\ (Timed(e) => Timed(r))
    BY <1>3, <2>1, PumpEndsIs, Zenon
  <2>3. InOnePlace(r) /\ Noted(r, k)
    BY <1>5, <1>7, <2>2, MovedKeepsPlaces, MovedKeepsCounts
  <2>4. Pumping(r)
    BY <1>3, <2>2 DEF Pumping, Moved
  <2> QED BY <1>3, <1>6, <1>8, <2>2, <2>3, <2>4 DEF Fit, Moved, r
<1>9. CASE ~q.down
  <2>1. r = y
    BY <1>1, <1>9, Zenon
  <2>2. ~Holds(e, item) /\ item \notin e.parked \cup e.unanswered
    BY <1>2, <1>3, <1>4 DEF InOnePlace, SameFaults, item
  <2>3. InOnePlace(s) /\ SameRest(e, s) /\ Reckoned(e, s, item, outcome, open)
    <3>1. open \in BOOLEAN
      OBVIOUS
    <3> HIDE DEF open
    <3> QED BY <1>2, <1>3, <1>5, <2>2, <3>1, SettleIs
  <2> HIDE DEF s
  <2>4. /\ y.pump = "yielding" /\ y.inFlight = s.inFlight /\ y.queue = s.queue /\ y.running = s.running
        /\ y.down = s.down /\ y.timer = s.timer /\ y.polling = s.polling
        /\ y.unanswered = s.unanswered /\ SameFaults(s, y) /\ DOMAIN y = DemandFields
    BY <2>3 DEF InOnePlace, DemandFields, SameFaults
  <2> HIDE DEF y
  <2>5. \A i : Holds(y, i) <=> Holds(s, i)
    BY <2>4 DEF Holds
  <2>6. InOnePlace(y)
    BY <2>3, <2>4, <2>5 DEF InOnePlace, SameFaults
  <2>7. y.inFlight = NoItem
    BY <1>3, <2>3, <2>4 DEF SameRest
  <2>8. Pumping(y)
    BY <2>4, <2>7 DEF Pumping
  <2>9. Noted(y, k) /\ Reckoned(q, y, item, outcome, open)
    BY <1>3, <1>7, <2>3, <2>4 DEF Reckoned, Noted, SameFaults
  <2>10. Timed(e) => Timed(y)
    BY <2>3, <2>4, Zenon DEF Timed, SameRest
  <2> QED BY <1>3, <1>6, <2>1, <2>3, <2>4, <2>6, <2>8, <2>9, <2>10 DEF Fit, SameRest, r, item
<1> QED BY <1>8, <1>9

\* What a step of the pump leaves behind.
Pumped(q, r, k) ==
  /\ Fit(r, k) /\ Rests(r, k)
  /\ r.running = q.running /\ r.down = q.down
  /\ r.polling = q.polling /\ (Timed(q) => Timed(r))
  /\ r.pump = "fetching" => Session(k) # 0 /\ r.on = Session(k) /\ r.into = k.store
  /\ \A t : Counted(q, k, t) => Counted(r, k, t)

LEMMA TopIsPumped ==
  ASSUME NEW q, NEW k, InOnePlace(q), Noted(q, k), LinkIs(k), q.inFlight = NoItem
  PROVE  Pumped(q, PumpTop(q, k), k)
<1> DEFINE r == PumpTop(q, k)
<1>1. /\ Onward(q, r, k) /\ Rests(r, k) /\ r.pump # "fetching"
      /\ r.polling = q.polling /\ (Timed(q) => Timed(r))
  BY TopIsOnward
<1> HIDE DEF r
<1>2. Pumped(q, r, k)
  BY <1>1 DEF Onward, Pumped
<1> QED BY <1>2 DEF r

LEMMA TakeIsPumped ==
  ASSUME NEW q, NEW k, Fit(q, k), LinkIs(k), q.pump = "preparing", Session(k) = q.on, k.store = q.into
  PROVE  Pumped(q, Take(q, k), k)
<1> DEFINE r == Take(q, k)
           item == Runnable(q, k)
           taken == [q EXCEPT !.queue[LaneOf(item)] = Only[Items \ {item}][@]]
           f == [taken EXCEPT !.inFlight = item, !.pump = "fetching"]
<1>1. r = IF item = NoItem THEN PumpEnds(q) ELSE IF item \in k.held THEN PumpTop(taken, k) ELSE f
  BY Zenon DEF Take
<1>2. InOnePlace(q) /\ Noted(q, k) /\ Pumping(q) /\ q.inFlight = NoItem
  BY DEF Fit, Pumping
<1>3. IF item = NoItem THEN \A i \in Items : Holds(q, i) => i.kind \notin k.usable
      ELSE item \in Items /\ Holds(q, item)
  BY <1>2, RunnableIs
<1>4. Session(k) # 0 /\ k.session # 0 /\ Session(k) = k.session
  <2>1. q.on \in 1..q.faultSession /\ q.faultSession \in 0..k.made /\ k.made \in Nat
    BY <1>2 DEF Pumping, Noted, LinkIs
  <2>2. q.on # 0
    BY <2>1
  <2> QED BY <2>2 DEF Session
<1> HIDE DEF r, item
<1>5. CASE item = NoItem
  <2>1. r = PumpEnds(q)
    BY <1>1, <1>5, Zenon
  <2>2. /\ Moved(q, r, k) /\ SameFaults(q, r)
        /\ r.pump = "idle" /\ r.polling = q.polling /\ (Timed(q) => Timed(r))
    BY <1>2, <2>1, PumpEndsIs DEF InOnePlace
  <2>3. InOnePlace(r) /\ (\A i : Holds(r, i) <=> Holds(q, i)) /\ Noted(r, k)
    BY <1>2, <2>2, MovedKeepsPlaces, MovedKeepsCounts
  <2>4. \A t : Counted(q, k, t) => Counted(r, k, t)
    BY <1>2, <1>4, <2>2, MovedKeepsCounts
  <2>5. Pumping(r) /\ Rests(r, k)
    BY <1>2, <1>3, <1>5, <2>2, <2>3 DEF Pumping, Rests, Moved
  <2> QED BY <2>2, <2>3, <2>4, <2>5 DEF Pumped, Fit, Moved, r
<1>6. CASE item # NoItem
  <2>1. item \in Items /\ Holds(q, item)
    BY <1>3, <1>6
  <2>2. /\ InOnePlace(taken) /\ SameRest(q, taken) /\ SameFaults(q, taken)
        /\ taken.unanswered = q.unanswered
        /\ \A i : Holds(taken, i) <=> Holds(q, i) /\ i # item
    BY <1>2, <2>1, TakenIs
  <2> HIDE DEF taken
  <2>3. Noted(taken, k) /\ (\A t : Counted(q, k, t) => Counted(taken, k, t)) /\ (Timed(q) => Timed(taken))
    <3>1. Timed(q) => Timed(taken)
      BY <2>2, Zenon DEF Timed, SameRest
    <3> QED BY <1>2, <2>2, <3>1 DEF Noted, Counted, SameRest, SameFaults, SamePump
  <2>4. CASE item \in k.held
    <3>1. r = PumpTop(taken, k)
      BY <1>1, <1>6, <2>4, Zenon
    <3>2. Pumped(taken, r, k)
      BY <1>2, <2>2, <2>3, <3>1, TopIsPumped DEF SameRest
    <3> QED BY <2>2, <2>3, <3>2 DEF Pumped, SameRest, r
  <2>5. CASE item \notin k.held
    <3>1. r = f
      BY <1>1, <1>6, <2>5, Zenon
    <3>2. /\ f.pump = "fetching" /\ f.inFlight = item /\ f.on = taken.on /\ f.into = taken.into
          /\ f.queue = taken.queue /\ f.running = taken.running /\ f.down = taken.down
          /\ f.timer = taken.timer /\ f.polling = taken.polling
          /\ f.unanswered = taken.unanswered /\ SameFaults(taken, f) /\ DOMAIN f = DemandFields
      BY <2>2 DEF InOnePlace, DemandFields, SameFaults
    <3> HIDE DEF f
    <3>3. \A i : Holds(f, i) <=> Holds(q, i) /\ i # item
      BY <2>2, <3>2 DEF Holds
    <3>4. item \notin q.parked \cup q.unanswered
      BY <1>2, <2>1 DEF InOnePlace
    <3>5. InOnePlace(f)
      BY <1>2, <2>1, <2>2, <3>2, <3>3, <3>4 DEF InOnePlace, SameFaults
    <3>6. Pumping(f)
      BY <1>2, <2>1, <2>2, <3>2, NoItemIsNone DEF Pumping, SameRest, SamePump, SameFaults
    <3>7. Noted(f, k) /\ Rests(f, k)
      BY <2>3, <3>2 DEF Noted, Rests, SameFaults
    <3>8. Timed(taken) => Timed(f)
      BY <3>2, Zenon DEF Timed
    <3>9. \A t : Counted(taken, k, t) => Counted(f, k, t)
      BY <1>4, <3>2 DEF Counted, SameFaults
    <3>10. f.on = Session(k) /\ f.into = k.store
      BY <2>2, <3>2 DEF SameRest, SamePump
    <3> QED BY <1>4, <2>2, <2>3, <3>1, <3>2, <3>5, <3>6, <3>7, <3>8, <3>9, <3>10
            DEF Pumped, Fit, SameRest, r
  <2> QED BY <2>4, <2>5
<1> QED BY <1>5, <1>6

LEMMA AfterPrepareIsPumped ==
  ASSUME NEW q, NEW k, Fit(q, k), LinkIs(k), q.pump = "preparing"
  PROVE  Pumped(q, AfterPrepare(q, k), k)
<1> DEFINE r == AfterPrepare(q, k)
           y == [q EXCEPT !.pump = "yielding"]
<1>1. r = IF q.down THEN PumpEnds(q)
          ELSE IF Session(k) # q.on \/ k.store # q.into THEN y ELSE Take(q, k)
  BY Zenon DEF AfterPrepare
<1>2. InOnePlace(q) /\ Noted(q, k) /\ Pumping(q) /\ q.inFlight = NoItem
  BY DEF Fit, Pumping
<1> HIDE DEF r
<1>3. CASE q.down
  <2>1. r = PumpEnds(q)
    BY <1>1, <1>3, Zenon
  <2>2. /\ Moved(q, r, k) /\ SameFaults(q, r)
        /\ r.pump = "idle" /\ r.polling = q.polling /\ (Timed(q) => Timed(r))
    BY <1>2, <2>1, PumpEndsIs DEF InOnePlace
  <2>3. InOnePlace(r) /\ Noted(r, k)
    BY <1>2, <2>2, MovedKeepsPlaces, MovedKeepsCounts
  <2>4. \A t : Counted(q, k, t) => Counted(r, k, t)
    <3>1. r.pump # "fetching"
      BY <2>2
    <3> QED BY <1>2, <2>2, <3>1, MovedKeepsCounts
  <2>5. Pumping(r) /\ Rests(r, k)
    BY <1>2, <1>3, <2>2 DEF Pumping, Rests, Moved
  <2> QED BY <2>2, <2>3, <2>4, <2>5 DEF Pumped, Fit, Moved, r
<1>4. CASE ~q.down /\ (Session(k) # q.on \/ k.store # q.into)
  <2>1. r = y
    BY <1>1, <1>4, Zenon
  <2>2. /\ y.pump = "yielding" /\ y.polling = q.polling /\ y.timer = q.timer
        /\ Moved(q, y, k) /\ SameFaults(q, y)
    BY <1>2 DEF InOnePlace, DemandFields, Moved, SameFaults
  <2> HIDE DEF y
  <2>3. InOnePlace(y) /\ Noted(y, k)
    BY <1>2, <2>2, MovedKeepsPlaces, MovedKeepsCounts
  <2>4. \A t : Counted(q, k, t) => Counted(y, k, t)
    <3>1. y.pump # "fetching"
      BY <2>2
    <3> QED BY <1>2, <2>2, <3>1, MovedKeepsCounts
  <2>5. Pumping(y) /\ Rests(y, k)
    BY <1>2, <2>2 DEF Pumping, Rests, Moved
  <2>6. Timed(q) => Timed(y)
    BY <2>2, Zenon DEF Timed, Moved
  <2> QED BY <2>1, <2>2, <2>3, <2>4, <2>5, <2>6 DEF Pumped, Fit, Moved, r
<1>5. CASE ~q.down /\ ~(Session(k) # q.on \/ k.store # q.into)
  <2>1. r = Take(q, k)
    BY <1>1, <1>5, Zenon
  <2> QED BY <1>5, <2>1, TakeIsPumped DEF r
<1> QED BY <1>3, <1>4, <1>5

-----------------------------------------------------------------------------
(* One poll.                                                               *)

\* What a turn of the timer or of a page leaves behind.
Turned(q, r, k) ==
  /\ Onward(q, r, k)
  /\ Rests(q, k) => Rests(r, k)
  /\ Timed(r)

LEMMA RestsStays ==
  ASSUME NEW q, NEW r, NEW k, Moved(q, r, k), SamePump(q, r), Rests(q, k)
  PROVE  Rests(r, k)
<1>1. \A i : Holds(r, i) <=> Holds(q, i)
  BY DEF Moved, Holds
<1> QED BY <1>1 DEF Rests, Moved, SamePump

LEMMA ScheduleIsTurned ==
  ASSUME NEW q, NEW k, NEW again, Fit(q, k), LinkIs(k)
  PROVE  Turned(q, Schedule(q, again), k)
<1> DEFINE r == Schedule(q, again)
<1>1. /\ Moved(q, r, k) /\ SamePump(q, r) /\ SameFaults(q, r) /\ Timed(r)
  BY ScheduleIs DEF Fit, InOnePlace
<1> HIDE DEF r
<1>2. Onward(q, r, k) /\ (Rests(q, k) => Rests(r, k))
  BY <1>1, MovedIsOnward, RestsStays
<1>3. Turned(q, r, k)
  BY <1>1, <1>2 DEF Turned
<1> QED BY <1>3 DEF r

LEMMA TickIsTurned ==
  ASSUME NEW q, NEW k, Fit(q, k), LinkIs(k), Lent(q, k)
  PROVE  Turned(q, Tick(q, k), k)
<1> DEFINE r == Tick(q, k)
           u == Unscheduled(q)
           un == IF q.repoll THEN u.unanswered ELSE {}
           begun == [u EXCEPT !.repoll = FALSE, !.unanswered = un]
           asked == Noticed(begun, k)
           skips == [A |-> SkipList(asked, AirportOrder), W |-> SkipList(asked, PointOrder)]
           p == [asked EXCEPT !.polling = TRUE, !.skip = skips]
           no == FALSE
<1>1. r = IF ~q.running \/ q.down \/ q.polling THEN u
          ELSE IF k.store = 0 THEN Schedule(begun, no) ELSE p
  BY Zenon DEF Tick
<1>2. DOMAIN q = DemandFields
  BY DEF Fit, InOnePlace
<1>3. Moved(q, u, k) /\ SamePump(q, u) /\ SameFaults(q, u) /\ u.polling = q.polling
  BY <1>2, UnscheduledIs
<1>4. un \subseteq u.unanswered
  OBVIOUS
<1> HIDE DEF r, un, u, no, skips
<1>5. Onward(q, u, k) /\ (Rests(q, k) => Rests(u, k))
  BY <1>3, MovedIsOnward, RestsStays
<1>6. CASE ~q.running \/ q.down \/ q.polling
  <2>1. r = u
    BY <1>1, <1>6, Zenon
  <2>2. Timed(u)
    BY <1>3, <1>6, Zenon DEF Timed, Moved
  <2>3. Turned(q, u, k)
    BY <1>5, <2>2 DEF Turned
  <2> QED BY <2>1, <2>3 DEF r
<1>7. CASE ~(~q.running \/ q.down \/ q.polling)
  <2>1. Moved(u, begun, k) /\ SamePump(u, begun) /\ SameFaults(u, begun)
    BY <1>3, <1>4 DEF DemandFields, Moved, SamePump, SameFaults
  <2> HIDE DEF begun
  <2>2. Onward(u, begun, k) /\ (Rests(u, k) => Rests(begun, k))
    BY <1>5, <2>1, MovedIsOnward, RestsStays DEF Onward
  <2>3. Onward(q, begun, k) /\ (Rests(q, k) => Rests(begun, k)) /\ Lent(begun, k)
    BY <1>3, <1>5, <2>1, <2>2, OnwardOn DEF Lent, SamePump
  <2>4. CASE k.store = 0
    <3>1. r = Schedule(begun, no)
      BY <1>1, <1>7, <2>4, Zenon
    <3>2. Turned(begun, r, k)
      BY <2>3, <3>1, ScheduleIsTurned DEF Onward
    <3> QED BY <2>3, <3>2, OnwardOn DEF Turned, r
  <2>5. CASE k.store # 0
    <3>1. r = p
      BY <1>1, <1>7, <2>5, Zenon
    <3>2. Moved(begun, asked, k) /\ SamePump(begun, asked)
      BY <2>1, NoticedIs DEF Moved
    <3> HIDE DEF asked
    <3>3. Onward(begun, asked, k) /\ (Rests(begun, k) => Rests(asked, k))
      BY <2>3, <3>2, MovedIsOnward, RestsStays DEF Onward
    <3>4. Moved(asked, p, k) /\ SamePump(asked, p) /\ SameFaults(asked, p) /\ p.polling = TRUE
      BY <3>2 DEF DemandFields, Moved, SamePump, SameFaults
    <3> HIDE DEF p
    <3>5. Onward(asked, p, k) /\ (Rests(asked, k) => Rests(p, k))
      BY <3>3, <3>4, MovedIsOnward, RestsStays DEF Onward
    <3>6. Timed(p)
      BY <3>4, Zenon DEF Timed
    <3> QED BY <2>3, <3>1, <3>3, <3>5, <3>6, OnwardOn DEF Turned, r
  <2> QED BY <2>4, <2>5
<1> QED BY <1>6, <1>7

LEMMA AfterRefusalIsTurned ==
  ASSUME NEW q, NEW k, Fit(q, k), LinkIs(k)
  PROVE  Turned(q, AfterRefusal(q), k)
<1> DEFINE e == [q EXCEPT !.polling = FALSE]
           no == FALSE
           r == Schedule(e, no)
<1>1. AfterRefusal(q) = r
  BY Zenon DEF AfterRefusal
<1>2. Moved(q, e, k) /\ SamePump(q, e) /\ SameFaults(q, e)
  BY DEF Fit, InOnePlace, DemandFields, Moved, SamePump, SameFaults
<1> HIDE DEF e, no
<1>3. Onward(q, e, k) /\ (Rests(q, k) => Rests(e, k))
  BY <1>2, MovedIsOnward, RestsStays
<1>4. Turned(e, r, k)
  BY <1>3, ScheduleIsTurned DEF Onward
<1> HIDE DEF r
<1>5. Turned(q, r, k)
  BY <1>3, <1>4, OnwardOn DEF Turned
<1> QED BY <1>1, <1>5

\* A page adds to each lane what is new there, as far as there is room.
LEMMA EnqueueIs ==
  ASSUME NEW q, NEW k, Fit(q, k), LinkIs(k), Lent(q, k), NEW list \in Seq(Items), IsInjective(list)
  PROVE  LET r == Enqueue(q, k, list)
         IN  Onward(q, r, k) /\ SamePump(q, r) /\ \A i : Holds(q, i) => Holds(r, i)
<1> DEFINE r == Enqueue(q, k, list)
           n == Noticed(q, k)
           S(l) == {i \in ToSet(list) : LaneOf(i) = l /\ Fresh(n, k, i)}
           new(l) == Only[S(l)][list]
           more(l) == First(HighWater - SizeOf(n, l), new(l))
           Q == [l \in Lanes |-> n.queue[l] \o more(l)]
           s == [n EXCEPT !.queue = Q]
<1>1. r = s
  BY Zenon DEF Enqueue
<1>2. Moved(q, n, k) /\ SamePump(q, n) /\ n.timer = q.timer /\ n.polling = q.polling
  BY NoticedIs DEF Fit, InOnePlace
<1> HIDE DEF n, r
<1>3. Onward(q, n, k) /\ InOnePlace(n) /\ (\A i : Holds(n, i) <=> Holds(q, i))
  BY <1>2, MovedIsOnward, MovedKeepsPlaces DEF Fit
<1>4. ASSUME NEW l \in Lanes
      PROVE  /\ more(l) \in Seq(InLane(l)) /\ IsInjective(more(l))
             /\ \A i \in ToSet(more(l)) : i \in Items /\ Fresh(n, k, i)
  <2>1. ToSet(list) \subseteq Items
    BY DEF ToSet
  <2>2. S(l) \in SUBSET Items /\ \A i \in S(l) : i \in InLane(l) /\ Fresh(n, k, i)
    BY <2>1 DEF InLane
  <2> HIDE DEF S
  <2>3. new(l) \in Seq(S(l)) /\ IsInjective(new(l))
    BY <2>2, OnlyIs
  <2>4. HighWater - SizeOf(n, l) \in Int
    <3>1. Len(n.queue[l]) \in Nat
      BY <1>3, LaneHolds
    <3> QED BY <3>1, ParkAfterIs DEF SizeOf
  <2> DEFINE room == HighWater - SizeOf(n, l)
             t == new(l)
             m == First(room, t)
  <2> HIDE DEF room, t
  <2>5. t \in Seq(S(l)) /\ IsInjective(t) /\ room \in Int
    BY <2>3, <2>4 DEF t, room
  <2>6. m \in Seq(S(l)) /\ IsInjective(m)
    BY <2>5, FirstIs
  <2> HIDE DEF m
  <2>7. m \in Seq(InLane(l)) /\ \A i \in ToSet(m) : i \in S(l)
    BY <2>2, <2>6 DEF ToSet
  <2>8. more(l) = m
    BY DEF m, room, t
  <2> QED BY <2>2, <2>6, <2>7, <2>8 DEF InLane
<1> HIDE DEF more
<1>5. \A i : Fresh(n, k, i) => ~Holds(n, i) /\ i \notin n.parked \cup n.unanswered \cup {n.inFlight}
  BY QueuedIs DEF Fresh
<1>6. ASSUME NEW l \in Lanes
      PROVE  /\ n.queue[l] \o more(l) \in Seq(InLane(l)) /\ IsInjective(n.queue[l] \o more(l))
             /\ ToSet(n.queue[l] \o more(l)) = ToSet(n.queue[l]) \cup ToSet(more(l))
  <2> DEFINE old == n.queue[l]
             add == more(l)
  <2>1. old \in Seq(InLane(l)) /\ IsInjective(old)
    BY <1>3 DEF InOnePlace
  <2>2. \A i \in ToSet(add) : i \notin ToSet(old)
    BY <1>4, <1>5 DEF Holds
  <2>3. add \in Seq(InLane(l)) /\ IsInjective(add)
    BY <1>4
  <2> HIDE DEF old, add
  <2>4. ToSet(old) \cap ToSet(add) = {}
    BY <2>2
  <2>5. /\ old \o add \in Seq(InLane(l)) /\ IsInjective(old \o add)
        /\ ToSet(old \o add) = ToSet(old) \cup ToSet(add)
    BY <2>1, <2>3, <2>4, ConcatIs
  <2> QED BY <2>5 DEF old, add
<1>7. DOMAIN Q = Lanes /\ \A l \in Lanes : Q[l] = n.queue[l] \o more(l)
  OBVIOUS
<1> HIDE DEF Q
<1>8. SameRest(n, s) /\ SameFaults(n, s) /\ s.queue = Q /\ s.unanswered = n.unanswered
  BY <1>3 DEF InOnePlace, DemandFields, SameRest, SameFaults, SamePump
<1> HIDE DEF s
<1>9. \A i : Holds(s, i) <=> Holds(n, i) \/ \E l \in Lanes : i \in ToSet(more(l))
  BY <1>6, <1>7, <1>8 DEF Holds
<1>10. InOnePlace(s)
  <2>1. \A i \in Items : Holds(s, i) => i \notin s.parked \cup s.unanswered \cup {s.inFlight}
    BY <1>3, <1>4, <1>5, <1>8, <1>9 DEF InOnePlace, SameRest, SameFaults
  <2> QED BY <1>3, <1>6, <1>7, <1>8, <2>1 DEF InOnePlace, SameRest, SameFaults
<1>11. Onward(n, s, k)
  BY <1>3, <1>8, <1>10 DEF Onward, Fit, Pumping, Noted, Counted, SameRest, SameFaults, SamePump
<1>12. Onward(q, s, k)
  BY <1>3, <1>11, OnwardOn
<1>13. SamePump(q, s)
  BY <1>2, <1>8 DEF SameRest, SamePump
<1> QED BY <1>1, <1>3, <1>9, <1>12, <1>13 DEF r

LEMMA AfterPageIsTurned ==
  ASSUME NEW q, NEW k, NEW cut, Fit(q, k), LinkIs(k), Lent(q, k), NEW list \in Seq(Items), IsInjective(list)
  PROVE  Turned(q, AfterPage(q, k, list, cut), k)
<1> DEFINE e == Enqueue(q, k, list)
           added == Queued(e) # Queued(q)
           w == IF added THEN Wake(e, k) ELSE e
           f == [w EXCEPT !.polling = FALSE]
           r == AfterPage(q, k, list, cut)
           idle == NothingQueued(f) /\ f.inFlight = NoItem
           room == \A l \in Lanes : SizeOf(f, l) < HighWater
           g(x) == [f EXCEPT !.more = x]
<1>1. \/ \E x, again : r = Schedule(g(x), again)
      \/ \E again : r = Schedule(f, again)
  <2>1. r = CASE ~cut                 -> Schedule(g(FALSE), FALSE)
              [] cut /\ added /\ room -> Schedule(f, TRUE)
              [] OTHER                -> Schedule(g(~idle), FALSE)
    BY Zenon DEF AfterPage
  <2> HIDE DEF r, f, g, room, idle, added
  <2>2. \/ r = Schedule(g(FALSE), FALSE) \/ r = Schedule(f, TRUE) \/ r = Schedule(g(~idle), FALSE)
    BY <2>1
  <2> QED BY <2>2, Zenon
<1>2. Onward(q, e, k) /\ SamePump(q, e) /\ \A i : Holds(q, i) => Holds(e, i)
  BY EnqueueIs
<1> HIDE DEF e
<1>3. Onward(q, w, k) /\ (Rests(q, k) => Rests(w, k))
  <2>1. CASE added
    <3>1. w = Wake(e, k)
      BY <2>1
    <3> HIDE DEF w
    <3>2. Onward(e, w, k) /\ Rests(w, k)
      BY <1>2, <3>1, WakeIsOnward DEF Onward
    <3> QED BY <1>2, <3>2, OnwardOn
  <2>2. CASE ~added
    <3>1. w = e
      BY <2>2
    <3>2. \A i : Holds(e, i) <=> Holds(q, i)
      BY <2>2, QueuedIs
    <3>3. Rests(q, k) => Rests(e, k)
      BY <1>2, <3>2 DEF Rests, SamePump, Onward
    <3> HIDE DEF w
    <3> QED BY <1>2, <3>1, <3>3
  <2> QED BY <2>1, <2>2
<1> HIDE DEF w
<1>4. Moved(w, f, k) /\ SamePump(w, f) /\ SameFaults(w, f)
  BY <1>3 DEF Onward, Fit, InOnePlace, DemandFields, Moved, SamePump, SameFaults
<1> HIDE DEF f, r
<1>5. Onward(w, f, k) /\ (Rests(w, k) => Rests(f, k))
  BY <1>3, <1>4, MovedIsOnward, RestsStays DEF Onward
<1>6. Onward(q, f, k) /\ (Rests(q, k) => Rests(f, k))
  BY <1>3, <1>5, OnwardOn
<1>7. ASSUME NEW again, r = Schedule(f, again) PROVE Turned(q, r, k)
  <2>1. Turned(f, r, k)
    BY <1>6, <1>7, ScheduleIsTurned DEF Onward
  <2> QED BY <1>6, <2>1, OnwardOn DEF Turned
<1>8. ASSUME NEW x, NEW again, r = Schedule(g(x), again) PROVE Turned(q, r, k)
  <2> DEFINE h == g(x)
  <2>1. Moved(f, h, k) /\ SamePump(f, h) /\ SameFaults(f, h)
    BY <1>4 DEF DemandFields, Moved, SamePump, SameFaults
  <2> HIDE DEF h
  <2>2. Onward(f, h, k) /\ (Rests(f, k) => Rests(h, k))
    BY <1>6, <2>1, MovedIsOnward, RestsStays DEF Onward
  <2>3. Turned(h, r, k)
    <3>1. r = Schedule(h, again)
      BY <1>8 DEF h
    <3> QED BY <2>2, <3>1, ScheduleIsTurned DEF Onward
  <2> QED BY <1>6, <2>2, <2>3, OnwardOn DEF Turned
<1>9. Turned(q, r, k)
  <2> HIDE DEF g
  <2> QED BY <1>1, <1>7, <1>8
<1> QED BY <1>9 DEF r

\* What the server's page holds, airports first.
LEMMA PageIs ==
  ASSUME NEW k, NEW a, NEW w
  PROVE  LET list == Page(AirportOrder, k, a) \o Page(PointOrder, k, w)
         IN  list \in Seq(Items) /\ IsInjective(list)
<1>1. ToSet(AirportOrder) \subseteq Items /\ ToSet(PointOrder) \subseteq Items
  BY DEF Items
<1>2. ASSUME NEW order \in Seq(Items), IsInjective(order), NEW skip
      PROVE  LET page == Page(order, k, skip)
             IN  page \in Seq(Items) /\ IsInjective(page) /\ ToSet(page) \subseteq ToSet(order)
  <2> DEFINE S == {i \in Items : i \notin k.told /\ i.ident \notin skip}
             all == Only[S][order]
             page == First(Cap, all)
  <2>1. S \in SUBSET Items
    OBVIOUS
  <2>2. Page(order, k, skip) = page
    BY Zenon DEF Page, Wanted
  <2> HIDE DEF S
  <2>3. all \in Seq(S) /\ IsInjective(all) /\ ToSet(all) \subseteq ToSet(order)
    BY <1>2, <2>1, OnlyIs
  <2>4. all \in Seq(Items) /\ Cap \in Int
    BY <2>1, <2>3, BoundsAssumption
  <2> HIDE DEF all
  <2>5. page \in Seq(Items) /\ ToSet(page) \subseteq ToSet(all) /\ IsInjective(page)
    BY <2>3, <2>4, FirstIs
  <2> QED BY <2>2, <2>3, <2>5
<1>3. AirportOrder \in Seq(Items) /\ IsInjective(AirportOrder) /\ PointOrder \in Seq(Items) /\ IsInjective(PointOrder)
  <2>1. ASSUME NEW X, NEW s \in Seq(X), ToSet(s) \subseteq Items PROVE s \in Seq(Items)
    <3>1. s = [i \in 1..Len(s) |-> s[i]] /\ Len(s) \in Nat /\ DOMAIN s = 1..Len(s)
      OBVIOUS
    <3>2. \A i \in 1..Len(s) : s[i] \in Items
      BY <2>1, <3>1 DEF ToSet
    <3> QED BY <3>1, <3>2
  <2> DEFINE X == [kind : {"A"}, ident : {i.ident : i \in ToSet(AirportOrder)}]
             Y == [kind : {"W", "V", "N"}, ident : {i.ident : i \in ToSet(PointOrder)}]
  <2>2. AirportOrder \in Seq(X) /\ PointOrder \in Seq(Y) /\ IsInjective(AirportOrder) /\ IsInjective(PointOrder)
    BY OrderAssumption
  <2> HIDE DEF X, Y
  <2> QED BY <1>1, <2>1, <2>2
<1>4. ToSet(AirportOrder) \cap ToSet(PointOrder) = {}
  BY OrdersApart
<1> DEFINE s == Page(AirportOrder, k, a)
           t == Page(PointOrder, k, w)
<1>5. /\ s \in Seq(Items) /\ IsInjective(s) /\ ToSet(s) \subseteq ToSet(AirportOrder)
      /\ t \in Seq(Items) /\ IsInjective(t) /\ ToSet(t) \subseteq ToSet(PointOrder)
  BY <1>2, <1>3
<1> HIDE DEF s, t
<1>6. ToSet(s) \cap ToSet(t) = {}
  BY <1>4, <1>5
<1>7. s \o t \in Seq(Items) /\ IsInjective(s \o t)
  BY <1>5, <1>6, ConcatIs
<1> QED BY <1>7 DEF s, t

-----------------------------------------------------------------------------
(* What the service tells its queue.                                       *)

\* The queue is told to start, to stop or to read its list again: no more.
Told(q, r) ==
  /\ DOMAIN r = DemandFields
  /\ r.queue = q.queue /\ r.inFlight = q.inFlight /\ r.unanswered = q.unanswered
  /\ SameFaults(q, r) /\ SamePump(q, r)

LEMMA ToldOn == ASSUME NEW q, NEW n, NEW r, Told(q, n), Told(n, r) PROVE Told(q, r)
  BY DEF Told, SameFaults, SamePump

LEMMA ToldKeeps ==
  ASSUME NEW q, NEW r, InOnePlace(q), Pumping(q), Told(q, r)
  PROVE  InOnePlace(r) /\ Pumping(r) /\ \A i : Holds(r, i) <=> Holds(q, i)
<1>1. \A i : Holds(r, i) <=> Holds(q, i)
  BY DEF Told, Holds
<1> QED BY <1>1 DEF Told, SameFaults, SamePump, InOnePlace, Pumping

LEMMA StartDemandIs ==
  ASSUME NEW q, InOnePlace(q)
  PROVE  LET r == StartDemand(q)
         IN  /\ Told(q, r) /\ r.down = q.down /\ (Timed(q) => Timed(r))
             /\ IF q.down THEN r.running = q.running ELSE r.running = TRUE
<1> DEFINE r == StartDemand(q)
           e == [q EXCEPT !.running = TRUE]
           no == FALSE
<1>1. r = IF q.down THEN q ELSE Schedule(e, no)
  BY Zenon DEF StartDemand
<1>2. Told(q, e) /\ e.down = q.down /\ e.running = TRUE
  BY DEF InOnePlace, DemandFields, Told, SameFaults, SamePump
<1> HIDE DEF r, e, no
<1>3. CASE q.down
  <2>1. r = q
    BY <1>1, <1>3, Zenon
  <2>2. Told(q, q)
    BY DEF Told, InOnePlace, SameFaults, SamePump
  <2> QED BY <1>3, <2>1, <2>2 DEF r
<1>4. CASE ~q.down
  <2>1. r = Schedule(e, no)
    BY <1>1, <1>4, Zenon
  <2>2. Moved(e, r, r) /\ SamePump(e, r) /\ SameFaults(e, r) /\ Timed(r)
    BY <1>2, <2>1, ScheduleIs DEF Told
  <2>3. r.unanswered = e.unanswered
    BY <1>2, <2>1 DEF Schedule, Told, DemandFields
  <2>4. Told(q, r)
    BY <1>2, <2>2, <2>3, ToldOn DEF Told, Moved
  <2> QED BY <1>2, <1>4, <2>2, <2>4 DEF Moved, r
<1> QED BY <1>3, <1>4

LEMMA StopDemandIs ==
  ASSUME NEW q, InOnePlace(q)
  PROVE  LET r == StopDemand(q)
         IN  Told(q, r) /\ r.down = q.down /\ r.running = FALSE /\ Timed(r)
  BY DEF InOnePlace, DemandFields, Told, SameFaults, SamePump, StopDemand, Unscheduled, Timed

LEMMA ShutDemandIs ==
  ASSUME NEW q, InOnePlace(q)
  PROVE  LET r == ShutDemand(q)
         IN  Told(q, r) /\ r.down = TRUE /\ r.running = FALSE /\ Timed(r)
  BY DEF InOnePlace, DemandFields, Told, SameFaults, SamePump, ShutDemand, StopDemand, Unscheduled, Timed

LEMMA ReloadDemandIs ==
  ASSUME NEW q, InOnePlace(q)
  PROVE  LET r == ReloadDemand(q)
         IN  Told(q, r) /\ r.down = q.down /\ r.running = q.running /\ (Timed(q) => Timed(r))
<1> DEFINE r == ReloadDemand(q)
           no == FALSE
<1>1. r = IF q.running THEN Schedule(q, no) ELSE q
  BY Zenon DEF ReloadDemand
<1> HIDE DEF r, no
<1>2. DOMAIN q = DemandFields
  BY DEF InOnePlace
<1>3. CASE q.running
  <2>1. r = Schedule(q, no)
    BY <1>1, <1>3, Zenon
  <2>2. Moved(q, r, r) /\ SamePump(q, r) /\ SameFaults(q, r) /\ Timed(r)
    BY <1>2, <2>1, ScheduleIs
  <2>3. r.unanswered = q.unanswered
    BY <1>2, <2>1 DEF Schedule, DemandFields
  <2> QED BY <2>2, <2>3 DEF Told, Moved, r
<1>4. CASE ~q.running
  <2>1. r = q
    BY <1>1, <1>4, Zenon
  <2>2. Told(q, q)
    BY <1>2 DEF Told, SameFaults, SamePump
  <2> QED BY <2>1, <2>2 DEF r
<1> QED BY <1>3, <1>4

-----------------------------------------------------------------------------
(* What the link does.                                                     *)

\* The session stays as it is or goes, and its store with it or not at all.
Unrouted(k, r) ==
  /\ r.session # 0 => /\ r.session = k.session /\ r.store = k.store
                      /\ r.passing = k.passing /\ r.usable = k.usable
  /\ r.made = k.made /\ r.bulk = k.bulk /\ r.passing = k.passing

\* Sessions and stores are numbered as they are made.
Numbered(k, r) ==
  /\ r.made \in {k.made, k.made + 1} /\ r.opened \in {k.opened, k.opened + 1}
  /\ r.made # k.made => r.session = r.made
  /\ r.opened # k.opened => r.store = r.opened

LEMMA EnsureStoreIs ==
  ASSUME NEW k, NEW opens, DOMAIN k = LinkFields
  PROVE  LET r == EnsureStore(k, opens)
         IN  /\ DOMAIN r = LinkFields
             /\ r.running = k.running /\ r.handle = k.handle /\ r.closed = k.closed
             /\ r.session = k.session /\ r.made = k.made /\ r.usable = k.usable
             /\ r.passing = k.passing /\ r.bulk = k.bulk
             /\ \/ r.store = k.store /\ r.opened = k.opened /\ r.absent = k.absent
                \/ k.store = 0 /\ r.opened = k.opened + 1 /\ r.store = r.opened /\ r.absent = {}
<1> DEFINE r == EnsureStore(k, opens)
           o == [k EXCEPT !.store = k.opened + 1, !.opened = k.opened + 1, !.indexed = FALSE,
                          !.held = {}, !.absent = {}, !.told = {}]
           u == [k EXCEPT !.unavailable = TRUE]
<1>1. r = k \/ (r = o /\ k.store = 0) \/ r = u
  BY Zenon DEF EnsureStore
<1> HIDE DEF r
<1>2. CASE r = k
  BY <1>2 DEF r
<1>3. CASE r = o /\ k.store = 0
  BY <1>3 DEF LinkFields, r
<1>4. CASE r = u
  BY <1>4 DEF LinkFields, r
<1> QED BY <1>1, <1>2, <1>3, <1>4

LEMMA ZeroCounts ==
  ASSUME NEW q, NEW k, NEW t, InOnePlace(q), t = [i \in Items |-> 0]
  PROVE  Counted(q, k, t)
<1>1. \A i \in Items : t[i] = 0 /\ 0 <= q.faults[i]
  BY ParkAfterIs DEF InOnePlace
<1>2. t \in [Items -> 0..ParkAfter]
  BY ParkAfterIs
<1> QED BY <1>1, <1>2 DEF Counted

\* What was tried is counted anew on a new session or a new store.
LEMMA RetriedCounts ==
  ASSUME NEW q, NEW r, NEW k, NEW l, NEW t, NEW u,
         InOnePlace(q), InOnePlace(r), SameFaults(q, r), SamePump(q, r),
         LinkIs(k), Numbered(k, l), Counted(q, k, t),
         u = IF l.session \in {0, k.session} /\ l.store \in {0, k.store} THEN t ELSE [i \in Items |-> 0]
  PROVE  Counted(r, l, u)
<1>1. CASE l.session \in {0, k.session} /\ l.store \in {0, k.store}
  <2>1. l.made = k.made /\ l.opened = k.opened
    BY <1>1 DEF Numbered, LinkIs
  <2>2. u = t /\ (l.session # 0 => k.session # 0)
    BY <1>1
  <2> QED BY <2>1, <2>2 DEF Counted, SameFaults, SamePump
<1>2. CASE ~(l.session \in {0, k.session} /\ l.store \in {0, k.store})
  BY <1>2, ZeroCounts
<1> QED BY <1>1, <1>2

-----------------------------------------------------------------------------
(* The steps.                                                              *)

\* What was tried before counts as long as session and store are the same.
Recalled ==
  \/ Retried
  \/ UNCHANGED tries /\ c'.session \in {0, c.session} /\ c'.store \in {0, c.store}

LEMMA RecalledCounts ==
  ASSUME Inv, ~Overlap, Recalled, Numbered(c, c'), InOnePlace(d'), SameFaults(d, d'), SamePump(d, d')
  PROVE  Counted(d', c', tries')
<1>1. InOnePlace(d) /\ LinkIs(c) /\ Counted(d, c, tries)
  BY DEF Inv
<1>2. tries \in [Items -> 0..ParkAfter]
  BY <1>1 DEF Counted
<1>3. tries' = IF c'.session \in {0, c.session} /\ c'.store \in {0, c.store}
               THEN tries ELSE [i \in Items |-> 0]
  <2>1. CASE Retried
    <3>1. CASE c'.session \in {0, c.session} /\ c'.store \in {0, c.store}
      <4>1. tries' = [i \in Items |-> tries[i]]
        BY <2>1, <3>1 DEF Retried
      <4> QED BY <1>2, <3>1, <4>1
    <3>2. CASE ~(c'.session \in {0, c.session} /\ c'.store \in {0, c.store})
      BY <2>1, <3>2 DEF Retried
    <3> QED BY <3>1, <3>2
  <2> QED BY <2>1 DEF Recalled
<1> QED BY <1>1, <1>3, RetriedCounts

LEMMA ToldStep ==
  ASSUME Inv, Told(d, d'), LinkIs(c'), Unrouted(c, c'), Numbered(c, c'), Recalled,
         Timed(d'), d'.down <=> c'.closed, d'.running <=> c'.running, d.down => d'.down
  PROVE  Inv'
<1>1. InOnePlace(d) /\ Pumping(d) /\ LinkIs(c) /\ Together(d, c)
  BY DEF Inv
<1>2. InOnePlace(d') /\ Pumping(d') /\ \A i : Holds(d', i) <=> Holds(d, i)
  BY <1>1, ToldKeeps
<1>3. SameFaults(d, d') /\ SamePump(d, d')
  BY DEF Told
<1>4. Noted(d', c')
  BY <1>1, <1>3 DEF Together, Noted, Numbered, SameFaults, LinkIs
<1>5. Rests(d', c')
  <2>1. Session(c') # 0 => /\ c'.session # 0 /\ Session(c) = Session(c')
    BY DEF Session, Unrouted
  <2>2. c'.session # 0 => c.store # 0 /\ c'.usable = c.usable
    BY <1>1 DEF Unrouted, LinkIs
  <2>3. Session(c') # 0 /\ ~d'.down /\ d'.pump = "idle" =>
          d.pump = "idle" /\ ~d.down /\ Session(c) # 0 /\ c.store # 0 /\ c'.usable = c.usable
    BY <1>3, <2>1, <2>2 DEF SamePump
  <2> QED BY <1>1, <1>2, <2>3 DEF Together, Rests
<1>6. d'.pump = "fetching" /\ c'.session = d'.on => c'.store = d'.into
  <2>1. d.pump = "fetching" => d.on # 0
    BY <1>1 DEF Pumping, Together, Noted, LinkIs
  <2> QED BY <1>1, <1>3, <2>1 DEF Together, SamePump, Unrouted
<1>7. Together(d', c')
  BY <1>4, <1>5, <1>6 DEF Together
<1>8. ~Overlap => Counted(d', c', tries') /\ Alone(d', c')
  <2>1. ASSUME ~Overlap PROVE Counted(d', c', tries') /\ Alone(d', c')
    <3>1. Alone(d, c)
      BY <2>1 DEF Inv
    <3>2. Alone(d', c')
      BY <1>3, <3>1 DEF Alone, SamePump, Unrouted
    <3> QED BY <1>2, <1>3, <2>1, <3>2, RecalledCounts
  <2> QED BY <2>1
<1> QED BY <1>2, <1>7, <1>8 DEF Inv

LEMMA StartStep ==
  ASSUME Inv, NEW opens, Start(opens)
  PROVE  Inv'
<1> DEFINE k == [c EXCEPT !.running = TRUE]
<1>1. InOnePlace(d) /\ LinkIs(c) /\ Together(d, c) /\ Timed(d)
  BY DEF Inv
<1>2. ~c.running /\ ~c.closed /\ c' = EnsureStore(k, opens) /\ d' = StartDemand(d) /\ Retried
  BY Zenon DEF Start
<1>3. /\ Told(d, d') /\ d'.down = d.down /\ (Timed(d) => Timed(d'))
      /\ IF d.down THEN d'.running = d.running ELSE d'.running = TRUE
  BY <1>1, <1>2, StartDemandIs
<1>4. /\ DOMAIN k = LinkFields /\ k.running = TRUE /\ k.handle = c.handle /\ k.closed = c.closed
      /\ k.session = c.session /\ k.made = c.made /\ k.usable = c.usable /\ k.passing = c.passing
      /\ k.bulk = c.bulk /\ k.store = c.store /\ k.opened = c.opened /\ k.absent = c.absent
  BY <1>1 DEF LinkIs, LinkFields
<1> HIDE DEF k
<1>5. /\ DOMAIN c' = LinkFields
      /\ c'.running = k.running /\ c'.handle = k.handle /\ c'.closed = k.closed
      /\ c'.session = k.session /\ c'.made = k.made /\ c'.usable = k.usable
      /\ c'.passing = k.passing /\ c'.bulk = k.bulk
      /\ \/ c'.store = k.store /\ c'.opened = k.opened /\ c'.absent = k.absent
         \/ k.store = 0 /\ c'.opened = k.opened + 1 /\ c'.store = c'.opened /\ c'.absent = {}
  BY <1>2, <1>4, EnsureStoreIs
<1>6. LinkIs(c') /\ Unrouted(c, c') /\ Numbered(c, c')
  BY <1>1, <1>2, <1>4, <1>5 DEF LinkIs, Unrouted, Numbered
<1>7. (d'.down <=> c'.closed) /\ (d'.running <=> c'.running)
  BY <1>1, <1>2, <1>3, <1>4, <1>5 DEF Together
<1>8. Recalled
  BY <1>2 DEF Recalled
<1> QED BY <1>1, <1>3, <1>6, <1>7, <1>8, ToldStep

LEMMA StopStep ==
  ASSUME Inv, Stop
  PROVE  Inv'
<1> DEFINE k == [c EXCEPT !.running = FALSE, !.handle = FALSE, !.session = 0]
<1>1. InOnePlace(d) /\ LinkIs(c) /\ Together(d, c)
  BY DEF Inv
<1>2. c' = k /\ d' = StopDemand(d) /\ Retried
  BY Zenon DEF Stop, CloseSession
<1>3. Told(d, d') /\ d'.down = d.down /\ d'.running = FALSE /\ Timed(d')
  BY <1>1, <1>2, StopDemandIs
<1>4. /\ DOMAIN k = LinkFields /\ k.running = FALSE /\ k.handle = FALSE /\ k.closed = c.closed
      /\ k.session = 0 /\ k.made = c.made /\ k.usable = c.usable /\ k.passing = c.passing
      /\ k.bulk = c.bulk /\ k.store = c.store /\ k.opened = c.opened /\ k.absent = c.absent
  BY <1>1 DEF LinkIs, LinkFields
<1> HIDE DEF k
<1>5. LinkIs(c') /\ Unrouted(c, c') /\ Numbered(c, c')
  BY <1>1, <1>2, <1>4 DEF LinkIs, Unrouted, Numbered
<1>6. (d'.down <=> c'.closed) /\ (d'.running <=> c'.running)
  BY <1>1, <1>2, <1>3, <1>4 DEF Together
<1>7. Recalled
  BY <1>2 DEF Recalled
<1> QED BY <1>3, <1>5, <1>6, <1>7, ToldStep

LEMMA DisconnectedStep ==
  ASSUME Inv, OnSimDisconnected
  PROVE  Inv'
<1> DEFINE k == [c EXCEPT !.handle = FALSE, !.session = 0]
<1>1. InOnePlace(d) /\ LinkIs(c) /\ Together(d, c) /\ Timed(d)
  BY DEF Inv
<1>2. c' = k /\ d' = d /\ tries' = tries
  BY Zenon DEF OnSimDisconnected, CloseSession
<1>3. Told(d, d')
  BY <1>1, <1>2 DEF InOnePlace, Told, SameFaults, SamePump
<1>4. /\ DOMAIN k = LinkFields /\ k.running = c.running /\ k.handle = FALSE /\ k.closed = c.closed
      /\ k.session = 0 /\ k.made = c.made /\ k.usable = c.usable /\ k.passing = c.passing
      /\ k.bulk = c.bulk /\ k.store = c.store /\ k.opened = c.opened /\ k.absent = c.absent
  BY <1>1 DEF LinkIs, LinkFields
<1> HIDE DEF k
<1>5. LinkIs(c') /\ Unrouted(c, c') /\ Numbered(c, c')
  BY <1>1, <1>2, <1>4 DEF LinkIs, Unrouted, Numbered
<1>6. (d'.down <=> c'.closed) /\ (d'.running <=> c'.running) /\ Timed(d') /\ (d.down => d'.down)
  BY <1>1, <1>2, <1>4 DEF Together
<1>7. Recalled
  BY <1>2, <1>4 DEF Recalled
<1> QED BY <1>3, <1>5, <1>6, <1>7, ToldStep

LEMMA ShutdownStep ==
  ASSUME Inv, Shutdown
  PROVE  Inv'
<1> DEFINE k == [c EXCEPT !.closed = TRUE, !.running = FALSE, !.handle = FALSE, !.session = 0,
                          !.store = 0, !.held = {}, !.absent = {}, !.told = {}]
<1>1. InOnePlace(d) /\ LinkIs(c)
  BY DEF Inv
<1>2. c' = k /\ d' = ShutDemand(d) /\ tries' = tries
  BY Zenon DEF Shutdown, CloseSession, CloseStore
<1>3. Told(d, d') /\ d'.down = TRUE /\ d'.running = FALSE /\ Timed(d')
  BY <1>1, <1>2, ShutDemandIs
<1>4. /\ DOMAIN k = LinkFields /\ k.running = FALSE /\ k.handle = FALSE /\ k.closed = TRUE
      /\ k.session = 0 /\ k.made = c.made /\ k.usable = c.usable /\ k.passing = c.passing
      /\ k.bulk = c.bulk /\ k.store = 0 /\ k.opened = c.opened /\ k.absent = {}
  BY <1>1 DEF LinkIs, LinkFields
<1> HIDE DEF k
<1>5. LinkIs(c') /\ Unrouted(c, c') /\ Numbered(c, c')
  BY <1>1, <1>2, <1>4 DEF LinkIs, Unrouted, Numbered
<1>6. (d'.down <=> c'.closed) /\ (d'.running <=> c'.running) /\ (d.down => d'.down)
  BY <1>2, <1>3, <1>4
<1>7. Recalled
  BY <1>2, <1>4 DEF Recalled
<1> QED BY <1>3, <1>5, <1>6, <1>7, ToldStep

LEMMA ConfigAppliedStep ==
  ASSUME Inv, NEW switched \in BOOLEAN, NEW opens, OnConfigApplied(switched, opens)
  PROVE  Inv'
<1> DEFINE gone == [c EXCEPT !.handle = FALSE, !.session = 0]
           cycled == IF switched THEN gone ELSE c
           shut == [cycled EXCEPT !.store = 0, !.held = {}, !.absent = {}, !.told = {},
                                  !.unavailable = FALSE]
           moved == IF switched /\ c.store # 0 THEN shut ELSE cycled
           e == IF c.running THEN StartDemand(d) ELSE d
<1>1. InOnePlace(d) /\ LinkIs(c) /\ Together(d, c) /\ Timed(d)
  BY DEF Inv
<1>2. /\ ~c.closed /\ Retried /\ d' = ReloadDemand(e)
      /\ c' = IF c.running THEN EnsureStore(moved, opens) ELSE moved
  BY Zenon DEF OnConfigApplied, CloseSession, CloseStore
<1>3. Told(d, d') /\ d'.down = d.down /\ (d'.running <=> d.running) /\ (Timed(d) => Timed(d'))
  <2>1. Told(d, e) /\ e.down = d.down /\ (e.running <=> d.running) /\ (Timed(d) => Timed(e)) /\ InOnePlace(e)
    <3>1. CASE c.running
      <4>1. e = StartDemand(d)
        BY <3>1
      <4> HIDE DEF e
      <4>2. /\ Told(d, e) /\ e.down = d.down /\ (Timed(d) => Timed(e))
            /\ IF d.down THEN e.running = d.running ELSE e.running = TRUE
        BY <1>1, <4>1, StartDemandIs
      <4>3. InOnePlace(e)
        BY <1>1, <4>2, ToldKeeps DEF Inv
      <4>4. d.running
        BY <1>1, <3>1 DEF Together
      <4> QED BY <4>2, <4>3, <4>4
    <3>2. CASE ~c.running
      <4>1. e = d
        BY <3>2
      <4> HIDE DEF e
      <4> QED BY <1>1, <4>1 DEF InOnePlace, Told, SameFaults, SamePump
    <3> QED BY <3>1, <3>2
  <2> HIDE DEF e
  <2>2. /\ Told(e, d') /\ d'.down = e.down /\ d'.running = e.running /\ (Timed(e) => Timed(d'))
    BY <1>2, <2>1, ReloadDemandIs
  <2> QED BY <2>1, <2>2, ToldOn
<1> HIDE DEF e
<1>4. /\ DOMAIN cycled = LinkFields /\ cycled.running = c.running /\ cycled.closed = c.closed
      /\ cycled.made = c.made /\ cycled.usable = c.usable /\ cycled.passing = c.passing
      /\ cycled.bulk = c.bulk /\ cycled.store = c.store /\ cycled.opened = c.opened
      /\ cycled.absent = c.absent
      /\ IF switched THEN cycled.session = 0 ELSE cycled.session = c.session /\ cycled.handle = c.handle
  <2>1. CASE switched
    <3>1. cycled = gone
      BY <2>1
    <3> HIDE DEF cycled
    <3> QED BY <1>1, <2>1, <3>1 DEF LinkIs, LinkFields
  <2>2. CASE ~switched
    BY <1>1, <2>2 DEF LinkIs
  <2> QED BY <2>1, <2>2
<1> HIDE DEF cycled, gone
<1>5. /\ DOMAIN moved = LinkFields /\ moved.running = c.running /\ moved.closed = c.closed
      /\ moved.made = c.made /\ moved.usable = c.usable /\ moved.passing = c.passing
      /\ moved.bulk = c.bulk /\ moved.opened = c.opened
      /\ moved.session = cycled.session /\ moved.handle = cycled.handle
      /\ \/ moved.store = c.store /\ moved.absent = c.absent
         \/ moved.store = 0 /\ moved.absent = {} /\ switched
  <2>1. CASE switched /\ c.store # 0
    <3>1. moved = shut
      BY <2>1
    <3> HIDE DEF moved
    <3> QED BY <1>4, <2>1, <3>1 DEF LinkFields
  <2>2. CASE ~(switched /\ c.store # 0)
    <3>1. moved = cycled
      BY <2>2
    <3> HIDE DEF moved
    <3> QED BY <1>4, <3>1
  <2> QED BY <2>1, <2>2
<1> HIDE DEF moved, shut
<1>6. /\ DOMAIN c' = LinkFields
      /\ c'.running = c.running /\ c'.handle = moved.handle /\ c'.closed = c.closed
      /\ c'.session = moved.session /\ c'.made = c.made /\ c'.usable = c.usable
      /\ c'.passing = c.passing /\ c'.bulk = c.bulk
      /\ \/ c'.store = moved.store /\ c'.opened = c.opened /\ c'.absent = moved.absent
         \/ moved.store = 0 /\ c'.opened = c.opened + 1 /\ c'.store = c'.opened /\ c'.absent = {}
  <2>1. CASE c.running
    <3>1. c' = EnsureStore(moved, opens)
      BY <1>2, <2>1
    <3>2. /\ DOMAIN c' = LinkFields
          /\ c'.running = moved.running /\ c'.handle = moved.handle /\ c'.closed = moved.closed
          /\ c'.session = moved.session /\ c'.made = moved.made /\ c'.usable = moved.usable
          /\ c'.passing = moved.passing /\ c'.bulk = moved.bulk
          /\ \/ c'.store = moved.store /\ c'.opened = moved.opened /\ c'.absent = moved.absent
             \/ moved.store = 0 /\ c'.opened = moved.opened + 1 /\ c'.store = c'.opened /\ c'.absent = {}
      BY <1>5, <3>1, EnsureStoreIs
    <3> QED BY <1>5, <3>2
  <2>2. CASE ~c.running
    BY <1>2, <1>5, <2>2
  <2> QED BY <2>1, <2>2
<1>7. LinkIs(c') /\ Unrouted(c, c') /\ Numbered(c, c')
  <2>1. CASE switched
    BY <1>1, <1>4, <1>5, <1>6, <2>1 DEF LinkIs, Unrouted, Numbered
  <2>2. CASE ~switched
    BY <1>1, <1>4, <1>5, <1>6, <2>2 DEF LinkIs, Unrouted, Numbered
  <2> QED BY <2>1, <2>2
<1>8. (d'.down <=> c'.closed) /\ (d'.running <=> c'.running)
  BY <1>1, <1>3, <1>6 DEF Together
<1>9. Recalled
  BY <1>2 DEF Recalled
<1> QED BY <1>1, <1>3, <1>7, <1>8, <1>9, ToldStep

\* A fetch under way before a step that is not the end of it.
LEMMA NotSettling ==
  ASSUME Inv, ~Settling
  PROVE  Lent(d, c) /\ (d.pump = "fetching" => c.session = d.on)
<1>1. d.pump = "fetching" => d.on # 0
  BY DEF Inv, Pumping, Together, Noted, LinkIs
<1> QED BY <1>1 DEF Settling, Lent

\* A new session, and with it a new pass or none but the one that runs.
Replaces(k, r, usable) ==
  /\ DOMAIN r = LinkFields
  /\ r.running = k.running /\ r.handle = k.handle /\ r.closed = k.closed
  /\ r.session = k.made + 1 /\ r.made = k.made + 1 /\ r.usable = usable
  /\ r.store = k.store /\ r.opened = k.opened /\ r.absent = k.absent
  /\ \/ r.passing = FALSE /\ r.bulk = k.bulk
     \/ r.passing = TRUE /\ r.bulk = k.made + 1

LEMMA StartPassIs ==
  ASSUME NEW k, NEW usable, NEW recent, DOMAIN k = LinkFields, k.made \in Nat
  PROVE  Replaces(k, StartPass(k, usable, recent), usable)
<1> DEFINE r == StartPass(k, usable, recent)
           s == k.made + 1
           f == [k EXCEPT !.session = s, !.made = s, !.usable = usable]
           a == [f EXCEPT !.passing = FALSE]
           b == [f EXCEPT !.passing = TRUE, !.bulk = s, !.listed = FALSE,
                          !.bulkStore = k.store, !.indexed = FALSE]
<1>1. f = [[k EXCEPT !.session = 0] EXCEPT !.session = s, !.made = s, !.usable = usable]
  BY DEF LinkFields
<1>2. r = a \/ r = b
  BY <1>1, Zenon DEF StartPass, CloseSession
<1>3. /\ DOMAIN f = LinkFields /\ f.running = k.running /\ f.handle = k.handle /\ f.closed = k.closed
      /\ f.session = s /\ f.made = s /\ f.usable = usable /\ f.bulk = k.bulk
      /\ f.store = k.store /\ f.opened = k.opened /\ f.absent = k.absent
  BY DEF LinkFields
<1> HIDE DEF r, f
<1>4. ASSUME r = a PROVE Replaces(k, r, usable)
  BY <1>3, <1>4 DEF LinkFields, Replaces
<1>5. ASSUME r = b PROVE Replaces(k, r, usable)
  BY <1>3, <1>5 DEF LinkFields, Replaces
<1>6. Replaces(k, r, usable)
  BY <1>2, <1>4, <1>5
<1> QED BY <1>6 DEF r

\* A link of another session, on the same queue.
LEMMA FitsNext ==
  ASSUME Inv, LinkIs(c'), Numbered(c, c')
  PROVE  Fit(d, c')
<1>1. Noted(d, c')
  BY DEF Inv, Together, Noted, Numbered, LinkIs
<1> QED BY <1>1 DEF Inv, Fit

LEMMA ConnectedStep ==
  ASSUME Inv, ~Settling, NEW readable, NEW opens, NEW usable, NEW recent,
         OnSimConnected(readable, opens, usable, recent)
  PROVE  Inv'
<1> DEFINE k == [c EXCEPT !.handle = TRUE]
           ready == EnsureStore(k, opens)
           shut == [ready EXCEPT !.session = 0]
           passed == StartPass(ready, usable, recent)
<1>1. InOnePlace(d) /\ LinkIs(c) /\ Together(d, c) /\ Timed(d) /\ Pumping(d) /\ Noted(d, c)
  BY DEF Inv, Together
<1>2. /\ c.running /\ (Overlap \/ (~c.handle /\ c.bulk = 0)) /\ Retried
      /\ c' = IF ready.store = 0 THEN ready ELSE IF ~readable THEN shut ELSE passed
      /\ d' = IF c'.session # c.session /\ c'.session # 0 /\ ~c'.passing THEN Wake(d, c') ELSE d
  BY Zenon DEF OnSimConnected, CloseSession
<1>3. /\ DOMAIN k = LinkFields /\ k.running = c.running /\ k.handle = TRUE /\ k.closed = c.closed
      /\ k.session = c.session /\ k.made = c.made /\ k.usable = c.usable /\ k.passing = c.passing
      /\ k.bulk = c.bulk /\ k.store = c.store /\ k.opened = c.opened /\ k.absent = c.absent
  BY <1>1 DEF LinkIs, LinkFields
<1> HIDE DEF k
<1>4. /\ DOMAIN ready = LinkFields
      /\ ready.running = c.running /\ ready.handle = TRUE /\ ready.closed = c.closed
      /\ ready.session = c.session /\ ready.made = c.made /\ ready.usable = c.usable
      /\ ready.passing = c.passing /\ ready.bulk = c.bulk
      /\ \/ ready.store = c.store /\ ready.opened = c.opened /\ ready.absent = c.absent
         \/ c.store = 0 /\ ready.opened = c.opened + 1 /\ ready.store = ready.opened /\ ready.absent = {}
  <2>1. /\ DOMAIN ready = LinkFields
        /\ ready.running = k.running /\ ready.handle = k.handle /\ ready.closed = k.closed
        /\ ready.session = k.session /\ ready.made = k.made /\ ready.usable = k.usable
        /\ ready.passing = k.passing /\ ready.bulk = k.bulk
        /\ \/ ready.store = k.store /\ ready.opened = k.opened /\ ready.absent = k.absent
           \/ k.store = 0 /\ ready.opened = k.opened + 1 /\ ready.store = ready.opened /\ ready.absent = {}
    BY <1>3, EnsureStoreIs
  <2> QED BY <1>3, <2>1
<1> HIDE DEF ready
<1>5. Recalled
  BY <1>2 DEF Recalled
<1>6. ASSUME d' = d PROVE Told(d, d') /\ Timed(d')
  BY <1>1, <1>6 DEF Told, SameFaults, SamePump, InOnePlace
<1>7. CASE ready.store = 0
  <2>1. c' = ready
    BY <1>2, <1>7
  <2>2. d' = d
    BY <1>2, <1>4, <2>1
  <2>3. LinkIs(c') /\ Unrouted(c, c') /\ Numbered(c, c')
    BY <1>1, <1>4, <2>1 DEF LinkIs, Unrouted, Numbered
  <2>4. (d'.down <=> c'.closed) /\ (d'.running <=> c'.running)
    BY <1>1, <1>4, <2>1, <2>2 DEF Together
  <2> QED BY <1>5, <1>6, <2>2, <2>3, <2>4, ToldStep
<1>8. CASE ready.store # 0 /\ ~readable
  <2>1. c' = shut
    BY <1>2, <1>8
  <2>2. /\ DOMAIN shut = LinkFields /\ shut.running = ready.running /\ shut.handle = TRUE
        /\ shut.closed = ready.closed /\ shut.session = 0 /\ shut.made = ready.made
        /\ shut.usable = ready.usable /\ shut.passing = ready.passing /\ shut.bulk = ready.bulk
        /\ shut.store = ready.store /\ shut.opened = ready.opened /\ shut.absent = ready.absent
    BY <1>4 DEF LinkFields
  <2> HIDE DEF shut
  <2>3. d' = d
    BY <1>2, <2>1, <2>2
  <2>4. LinkIs(c') /\ Unrouted(c, c') /\ Numbered(c, c')
    BY <1>1, <1>4, <2>1, <2>2 DEF LinkIs, Unrouted, Numbered
  <2>5. (d'.down <=> c'.closed) /\ (d'.running <=> c'.running)
    BY <1>1, <1>4, <2>1, <2>2, <2>3 DEF Together
  <2> QED BY <1>5, <1>6, <2>3, <2>4, <2>5, ToldStep
<1>9. CASE ready.store # 0 /\ readable
  <2>1. c' = passed
    BY <1>2, <1>9
  <2>2. /\ DOMAIN c' = LinkFields
        /\ c'.running = ready.running /\ c'.handle = ready.handle /\ c'.closed = ready.closed
        /\ c'.session = c.made + 1 /\ c'.made = c.made + 1 /\ c'.usable = usable
        /\ c'.store = ready.store /\ c'.opened = ready.opened /\ c'.absent = ready.absent
        /\ \/ c'.passing = FALSE /\ c'.bulk = ready.bulk
           \/ c'.passing = TRUE /\ c'.bulk = c.made + 1
    <3>1. ready.made \in Nat
      BY <1>1, <1>4 DEF LinkIs
    <3>2. Replaces(ready, passed, usable)
      BY <1>4, <3>1, StartPassIs
    <3> HIDE DEF passed
    <3> QED BY <1>4, <2>1, <3>2 DEF Replaces
  <2> HIDE DEF passed
  <2>3. LinkIs(c') /\ Numbered(c, c')
    <3>1. c'.handle = TRUE /\ c'.running = c.running /\ c'.closed = c.closed
      BY <1>4, <2>2
    <3>2. (c'.handle /\ c'.running) /\ (c'.closed => ~c'.running)
      BY <1>1, <1>2, <3>1 DEF LinkIs
    <3>3. c'.passing => c'.bulk # 0
      BY <1>1, <2>2 DEF LinkIs
    <3>4. /\ c'.made \in Nat /\ c'.opened \in Nat /\ c'.session \in {0, c'.made}
          /\ c'.store \in {0, c'.opened} /\ c'.store # 0
      BY <1>1, <1>4, <1>9, <2>2 DEF LinkIs
    <3>5. LinkIs(c')
      BY <2>2, <3>2, <3>3, <3>4 DEF LinkIs
    <3> QED BY <1>1, <1>4, <2>2, <3>5 DEF LinkIs, Numbered
  <2>4. Fit(d, c')
    BY <2>3, FitsNext
  <2>5. c'.session # c.session /\ c'.session # 0
    BY <1>1, <2>2 DEF LinkIs
  <2>6. /\ Fit(d', c') /\ Rests(d', c') /\ d'.running = d.running /\ d'.down = d.down
        /\ Timed(d') /\ (d'.pump = "fetching" => SamePump(d, d'))
    <3>1. CASE c'.passing
      <4>1. d' = d /\ Session(c') = 0
        BY <1>2, <3>1 DEF Session
      <4> QED BY <1>1, <2>4, <4>1 DEF Rests, SamePump
    <3>2. CASE ~c'.passing
      <4>1. d' = Wake(d, c')
        BY <1>2, <2>5, <3>2
      <4>2. Onward(d, d', c') /\ Rests(d', c') /\ (Timed(d) => Timed(d'))
        BY <2>3, <2>4, <4>1, WakeIsOnward
      <4> QED BY <1>1, <4>2 DEF Onward
    <3> QED BY <3>1, <3>2
  <2>7. ~(d'.pump = "fetching" /\ c'.session = d'.on)
    <3>1. d.pump = "fetching" => d.on <= d.faultSession /\ d.faultSession <= c.made /\ d.on \in Nat
                                 /\ d.faultSession \in Nat /\ c.made \in Nat
      BY <1>1 DEF Pumping, Noted, LinkIs
    <3> QED BY <2>2, <2>6, <3>1 DEF SamePump
  <2>8. Together(d', c')
    BY <1>1, <1>4, <2>2, <2>6, <2>7 DEF Together, Fit
  <2>9. ASSUME ~Overlap PROVE Counted(d', c', tries') /\ Alone(d', c')
    <3>1. ~c.handle /\ c.bulk = 0 /\ Alone(d, c)
      BY <1>2, <2>9 DEF Inv
    <3>2. c.session = 0
      BY <1>1, <3>1 DEF LinkIs
    <3>3. d.pump # "fetching"
      BY <3>2, NotSettling DEF Lent
    <3>4. Alone(d', c')
      BY <1>1, <1>4, <2>2, <2>6, <3>1, <3>3 DEF Alone, SamePump, LinkIs
    <3>5. tries' = [i \in Items |-> 0]
      BY <1>2, <2>5 DEF Retried
    <3> QED BY <2>6, <3>4, <3>5, ZeroCounts DEF Fit
  <2> QED BY <2>3, <2>6, <2>8, <2>9 DEF Inv, Fit
<1> QED BY <1>7, <1>8, <1>9

LEMMA PassStep ==
  ASSUME Inv, ~Settling, PassSteps
  PROVE  Inv'
<1>1. InOnePlace(d) /\ LinkIs(c) /\ Together(d, c) /\ Timed(d) /\ Pumping(d)
  BY DEF Inv
<1>2. CASE PassListed
  <2>1. c' = [c EXCEPT !.listed = TRUE] /\ d' = d /\ tries' = tries
    BY <1>2 DEF PassListed
  <2>2. /\ DOMAIN c' = LinkFields /\ c'.running = c.running /\ c'.handle = c.handle
        /\ c'.closed = c.closed /\ c'.session = c.session /\ c'.made = c.made
        /\ c'.usable = c.usable /\ c'.passing = c.passing /\ c'.bulk = c.bulk
        /\ c'.store = c.store /\ c'.opened = c.opened /\ c'.absent = c.absent
    BY <1>1, <2>1 DEF LinkIs, LinkFields
  <2>3. LinkIs(c') /\ Unrouted(c, c') /\ Numbered(c, c')
    BY <1>1, <2>2 DEF LinkIs, Unrouted, Numbered
  <2>4. Told(d, d') /\ Timed(d')
    BY <1>1, <2>1 DEF Told, SameFaults, SamePump, InOnePlace
  <2>5. (d'.down <=> c'.closed) /\ (d'.running <=> c'.running) /\ (d.down => d'.down) /\ Recalled
    BY <1>1, <2>1, <2>2 DEF Together, Recalled
  <2> QED BY <2>3, <2>4, <2>5, ToldStep
<1>3. ASSUME NEW result, PassEnds(result) PROVE Inv'
  <2> DEFINE on == c.indexed \/ result \in {"completed", "minted"}
             ended == [c EXCEPT !.bulk = 0, !.passing = FALSE, !.listed = FALSE, !.indexed = on]
             minted == [ended EXCEPT !.held = ended.held \ c.absent, !.told = ended.told \ c.absent,
                                     !.absent = {}]
  <2>1. /\ c' = ended \/ c' = minted
        /\ d' = Wake(d, c') /\ tries' = tries
    BY <1>3, Zenon DEF PassEnds
  <2> HIDE DEF on
  <2>2. /\ DOMAIN ended = LinkFields /\ ended.running = c.running /\ ended.handle = c.handle
        /\ ended.closed = c.closed /\ ended.session = c.session /\ ended.made = c.made
        /\ ended.usable = c.usable /\ ended.passing = FALSE /\ ended.bulk = 0
        /\ ended.store = c.store /\ ended.opened = c.opened /\ ended.absent = c.absent
    BY <1>1 DEF LinkIs, LinkFields
  <2> HIDE DEF ended
  <2>3. /\ DOMAIN c' = LinkFields /\ c'.running = c.running /\ c'.handle = c.handle
        /\ c'.closed = c.closed /\ c'.session = c.session /\ c'.made = c.made
        /\ c'.usable = c.usable /\ c'.passing = FALSE /\ c'.bulk = 0
        /\ c'.store = c.store /\ c'.opened = c.opened /\ c'.absent \in {c.absent, {}}
    <3>1. CASE c' = ended
      BY <2>2, <3>1
    <3>2. CASE c' = minted
      BY <2>2, <3>2 DEF LinkFields
    <3> QED BY <2>1, <3>1, <3>2
  <2>4. LinkIs(c') /\ Numbered(c, c')
    BY <1>1, <2>3 DEF LinkIs, Numbered
  <2>5. Onward(d, d', c') /\ Rests(d', c') /\ (Timed(d) => Timed(d'))
    BY <2>1, <2>4, FitsNext, WakeIsOnward
  <2>6. Together(d', c')
    BY <1>1, <2>3, <2>5 DEF Together, Onward, Fit, SamePump
  <2>7. ASSUME ~Overlap PROVE Counted(d', c', tries') /\ Alone(d', c')
    <3>1. Counted(d, c, tries) /\ Alone(d, c)
      BY <2>7 DEF Inv
    <3>2. Counted(d, c', tries)
      BY <2>3, <3>1 DEF Counted
    <3>3. Counted(d', c', tries')
      BY <2>1, <2>5, <3>2 DEF Onward
    <3>4. Alone(d', c')
      BY <2>3, <2>5, <3>1 DEF Alone, Onward, SamePump
    <3> QED BY <3>3, <3>4
  <2> QED BY <1>1, <2>4, <2>5, <2>6, <2>7 DEF Inv, Onward, Fit
<1> QED BY <1>2, <1>3 DEF PassSteps

LEMMA LearnsStep ==
  ASSUME Inv, NEW item, ServerLearns(item)
  PROVE  Inv'
<1> DEFINE more == c.told \cup {item}
<1>1. InOnePlace(d) /\ LinkIs(c) /\ Together(d, c) /\ Timed(d)
  BY DEF Inv
<1>2. c' = [c EXCEPT !.told = more] /\ d' = d /\ tries' = tries
  BY DEF ServerLearns
<1>3. /\ DOMAIN c' = LinkFields /\ c'.running = c.running /\ c'.handle = c.handle
      /\ c'.closed = c.closed /\ c'.session = c.session /\ c'.made = c.made
      /\ c'.usable = c.usable /\ c'.passing = c.passing /\ c'.bulk = c.bulk
      /\ c'.store = c.store /\ c'.opened = c.opened /\ c'.absent = c.absent
  <2> HIDE DEF more
  <2> QED BY <1>1, <1>2 DEF LinkIs, LinkFields
<1>4. LinkIs(c') /\ Unrouted(c, c') /\ Numbered(c, c')
  BY <1>1, <1>3 DEF LinkIs, Unrouted, Numbered
<1>5. Told(d, d') /\ Timed(d')
  BY <1>1, <1>2 DEF Told, SameFaults, SamePump, InOnePlace
<1>6. (d'.down <=> c'.closed) /\ (d'.running <=> c'.running) /\ (d.down => d'.down) /\ Recalled
  BY <1>1, <1>2, <1>3 DEF Together, Recalled
<1> QED BY <1>4, <1>5, <1>6, ToldStep

LEMMA PumpedStep ==
  ASSUME Inv, Pumped(d, d', c), UNCHANGED <<c, tries>>
  PROVE  Inv'
<1>1. LinkIs(c) /\ Together(d, c) /\ Timed(d)
  BY DEF Inv
<1>2. /\ Fit(d', c) /\ Rests(d', c) /\ d'.running = d.running /\ d'.down = d.down /\ Timed(d')
      /\ d'.pump = "fetching" => Session(c) # 0 /\ d'.on = Session(c) /\ d'.into = c.store
      /\ \A t : Counted(d, c, t) => Counted(d', c, t)
  BY <1>1 DEF Pumped
<1>3. Together(d', c)
  BY <1>1, <1>2 DEF Together, Fit
<1>4. ASSUME ~Overlap PROVE Counted(d', c, tries) /\ Alone(d', c)
  <2>1. Counted(d, c, tries) /\ Alone(d, c)
    BY <1>4 DEF Inv
  <2>2. Session(c) # 0 => ~c.passing /\ Session(c) = c.made
    BY <1>1 DEF Session, LinkIs
  <2> QED BY <1>2, <2>1, <2>2 DEF Alone
<1> QED BY <1>1, <1>2, <1>3, <1>4 DEF Inv, Fit

LEMMA TurnedStep ==
  ASSUME Inv, Turned(d, d', c), UNCHANGED <<c, tries>>
  PROVE  Inv'
<1>1. LinkIs(c) /\ Together(d, c)
  BY DEF Inv
<1>2. Rests(d', c) /\ Timed(d') /\ Onward(d, d', c)
  BY <1>1 DEF Turned, Together
<1>3. Together(d', c)
  BY <1>1, <1>2 DEF Together, Onward, Fit, SamePump
<1>4. ASSUME ~Overlap PROVE Counted(d', c, tries) /\ Alone(d', c)
  <2>1. Counted(d, c, tries) /\ Alone(d, c)
    BY <1>4 DEF Inv
  <2> QED BY <1>2, <2>1 DEF Onward, Alone, SamePump
<1> QED BY <1>1, <1>2, <1>3, <1>4 DEF Inv, Onward, Fit

LEMMA QueueStep ==
  ASSUME Inv, ~Settling, QueueSteps
  PROVE  Inv'
<1>1. Fit(d, c) /\ LinkIs(c) /\ Lent(d, c)
  BY NotSettling DEF Inv, Fit, Together
<1>2. UNCHANGED <<c, tries>>
  BY DEF QueueSteps, TimerFires, PageArrives, PollRefused, Prepared, Yielded
<1>3. CASE TimerFires
  BY <1>1, <1>2, <1>3, TickIsTurned, TurnedStep DEF TimerFires
<1>4. CASE PageArrives
  <2> DEFINE cut == Cut(AirportOrder, c, d.skip.A) \/ Cut(PointOrder, c, d.skip.W)
             list == Page(AirportOrder, c, d.skip.A) \o Page(PointOrder, c, d.skip.W)
  <2>1. d' = AfterPage(d, c, list, cut)
    BY <1>4, Zenon DEF PageArrives
  <2>2. list \in Seq(Items) /\ IsInjective(list)
    BY PageIs
  <2> HIDE DEF list, cut
  <2>3. Turned(d, d', c)
    BY <1>1, <2>1, <2>2, AfterPageIsTurned
  <2> QED BY <1>2, <2>3, TurnedStep
<1>5. CASE PollRefused
  BY <1>1, <1>2, <1>5, AfterRefusalIsTurned, TurnedStep DEF PollRefused
<1>6. CASE Prepared
  BY <1>1, <1>2, <1>6, AfterPrepareIsPumped, PumpedStep DEF Prepared
<1>7. CASE Yielded
  <2>1. d.inFlight = NoItem /\ d' = PumpTop(d, c)
    BY <1>1, <1>7 DEF Yielded, Fit, Pumping
  <2>2. Pumped(d, d', c)
    BY <1>1, <2>1, TopIsPumped DEF Fit
  <2> QED BY <1>2, <2>2, PumpedStep
<1> QED BY <1>3, <1>4, <1>5, <1>6, <1>7 DEF QueueSteps

LEMMA EndStep ==
  ASSUME Inv, ItemEnds
  PROVE  Inv'
<1> DEFINE item == d.inFlight
           open == c.session = d.on
<1>1. /\ Fit(d, c) /\ LinkIs(c) /\ Together(d, c) /\ Timed(d) /\ InOnePlace(d) /\ Pumping(d)
  BY DEF Inv, Fit, Together
<1>2. PICK outcome \in Outcomes :
        /\ d.pump = "fetching" /\ MayEnd(outcome) /\ d' = AfterFetch(d, c, outcome)
        /\ c' = [c EXCEPT !.held = IF outcome \in {"answered", "absent"} THEN @ \cup {item} ELSE @,
                          !.absent = IF outcome = "absent" THEN @ \cup {item} ELSE @]
        /\ tries' = CASE outcome \in {"answered", "absent"} -> [tries EXCEPT ![item] = 0]
                      [] outcome = "failed" \/ (outcome = "aborted" /\ open) ->
                           [tries EXCEPT ![item] = @ + 1]
                      [] OTHER -> tries
  BY Zenon DEF ItemEnds, FetchEnds
<1>3. item \in Items /\ item \notin d.parked
  BY <1>1, <1>2 DEF Pumping, InOnePlace
<1>4. /\ Fit(d', c) /\ d'.running = d.running /\ d'.down = d.down /\ Timed(d')
      /\ d'.pump \in {"idle", "yielding"} /\ (d'.pump = "idle" => d.down)
      /\ d.down \/ Reckoned(d, d', item, outcome, open)
  BY <1>1, <1>2, AfterFetchIs
<1>5. /\ DOMAIN c' = LinkFields /\ c'.running = c.running /\ c'.handle = c.handle
      /\ c'.closed = c.closed /\ c'.session = c.session /\ c'.made = c.made
      /\ c'.usable = c.usable /\ c'.passing = c.passing /\ c'.bulk = c.bulk
      /\ c'.store = c.store /\ c'.opened = c.opened
      /\ c'.absent = c.absent \/ outcome = "absent"
  <2> DEFINE held == IF outcome \in {"answered", "absent"} THEN c.held \cup {item} ELSE c.held
             absent == IF outcome = "absent" THEN c.absent \cup {item} ELSE c.absent
  <2>1. c' = [c EXCEPT !.held = held, !.absent = absent]
    BY <1>2, Zenon
  <2>2. absent = c.absent \/ outcome = "absent"
    OBVIOUS
  <2> HIDE DEF held, absent
  <2> QED BY <1>1, <2>1, <2>2 DEF LinkIs, LinkFields
<1>6. outcome = "absent" => c.store # 0
  <2>1. d.into # 0
    BY <1>1, <1>2 DEF Pumping, Fit, Noted, LinkIs
  <2> QED BY <1>2, <2>1 DEF MayEnd
<1>7. LinkIs(c')
  BY <1>1, <1>5, <1>6 DEF LinkIs
<1>8. Fit(d', c') /\ Together(d', c')
  <2>1. Noted(d', c') /\ Fit(d', c')
    BY <1>4, <1>5 DEF Fit, Noted
  <2>2. Rests(d', c') /\ d'.pump # "fetching"
    BY <1>4 DEF Rests
  <2> QED BY <1>1, <1>4, <1>5, <2>1, <2>2 DEF Together
<1> HIDE DEF item, open
<1>9. ASSUME ~Overlap PROVE Counted(d', c', tries') /\ Alone(d', c')
  <2>1. Counted(d, c, tries) /\ Alone(d, c)
    BY <1>9 DEF Inv
  <2>2. Alone(d', c')
    BY <1>4, <1>5, <2>1 DEF Alone
  <2>3. /\ tries \in [Items -> 0..ParkAfter]
        /\ IF d.faultSession = c.made /\ d.faultStore = c.opened
           THEN \A i \in Items : i \in d.parked \/ tries[i] <= d.faults[i]
           ELSE \A i \in Items : tries[i] = 0
    BY <1>2, <2>1 DEF Counted
  <2>4. d.faults \in [Items -> 0..ParkAfter - 1] /\ d'.faults \in [Items -> 0..ParkAfter - 1]
    BY <1>1, <1>8 DEF InOnePlace, Fit
  <2>5. /\ \A i \in Items : i # item => tries'[i] = tries[i]
        /\ tries' \in [Items -> 0..ParkAfter]
        /\ \/ outcome \in {"answered", "absent"} /\ tries'[item] = 0
           \/ (outcome = "failed" \/ (outcome = "aborted" /\ open)) /\ tries'[item] = tries[item] + 1
           \/ outcome \notin {"answered", "absent", "failed"} /\ ~(outcome = "aborted" /\ open)
              /\ tries'[item] = tries[item]
    <3> DEFINE zero == [tries EXCEPT ![item] = 0]
               one == [tries EXCEPT ![item] = tries[item] + 1]
               lost == outcome = "failed" \/ (outcome = "aborted" /\ open)
               good == outcome \in {"answered", "absent"}
    <3>1. \/ good /\ tries' = zero
          \/ lost /\ tries' = one
          \/ ~good /\ ~lost /\ tries' = tries
      <4>1. tries' = CASE good -> zero [] lost -> one [] OTHER -> tries
        BY <1>2, Zenon
      <4>2. ~(good /\ lost)
        OBVIOUS
      <4> HIDE DEF zero, one, lost, good
      <4> QED BY <4>1, <4>2
    <3>2. tries[item] + 1 \in 0..ParkAfter /\ 0 \in 0..ParkAfter
      BY <1>3, <2>3, <2>4, ParkAfterIs
    <3>3. CASE good /\ tries' = zero
      BY <1>3, <2>3, <3>2, <3>3
    <3>4. CASE lost /\ tries' = one
      <4> DEFINE n == tries[item] + 1
      <4> HIDE DEF n
      <4>1. one \in [Items -> 0..ParkAfter] /\ one[item] = n /\ \A i \in Items : i # item => one[i] = tries[i]
        BY <1>3, <2>3, <3>2 DEF n
      <4> HIDE DEF one
      <4> QED BY <3>4, <4>1 DEF n
    <3>5. CASE ~good /\ ~lost /\ tries' = tries
      BY <1>3, <2>3, <3>5
    <3> QED BY <3>1, <3>3, <3>4, <3>5
  <2>6. ASSUME c'.session # 0 \/ d'.pump = "fetching"
        PROVE  IF d'.faultSession = c'.made /\ d'.faultStore = c'.opened
               THEN \A i \in Items : i \in d'.parked \/ tries'[i] <= d'.faults[i]
               ELSE \A i \in Items : tries'[i] = 0
    <3>1. c.session # 0
      BY <1>4, <1>5, <2>6
    <3>2. c.session = c.made /\ d.on = c.made /\ open /\ c.store = c.opened /\ c.store = d.into
      BY <1>1, <1>2, <2>1, <3>1 DEF Alone, LinkIs, Together, open
    <3>3. d.faultSession = c.made /\ d.faultStore = c.opened
      BY <1>1, <1>2, <3>2 DEF Pumping, Fit, Noted, LinkIs
    <3>4. ~d.down /\ Reckoned(d, d', item, outcome, open)
      <4>1. ~d.down
        BY <1>1, <3>1 DEF LinkIs, Together
      <4> QED BY <1>4, <4>1
    <3>5. ASSUME NEW i \in Items PROVE i \in d'.parked \/ tries'[i] <= d'.faults[i]
      <4>1. CASE i # item
        BY <2>3, <2>5, <3>3, <3>4, <4>1 DEF Reckoned
      <4>2. CASE i = item
        <5>1. tries[item] <= d.faults[item] /\ tries[item] \in Nat /\ d.faults[item] \in Nat /\ d'.faults[item] \in Nat
          BY <1>3, <2>3, <2>4, <3>3
        <5> QED BY <2>5, <3>2, <3>4, <4>2, <5>1 DEF Reckoned
      <4> QED BY <4>1, <4>2
    <3> QED BY <1>5, <3>3, <3>4, <3>5 DEF Reckoned
  <2> QED BY <2>2, <2>5, <2>6 DEF Counted
<1> QED BY <1>4, <1>7, <1>8, <1>9 DEF Inv, Fit

-----------------------------------------------------------------------------
(* The theorems.                                                           *)

LEMMA InitHolds == Init => Inv
<1> SUFFICES ASSUME Init PROVE Inv
  OBVIOUS
<1>1. d = InitDemand /\ c = InitLink /\ tries = [i \in Items |-> 0]
  BY DEF Init
<1>2. /\ DOMAIN d = DemandFields /\ d.queue = [l \in Lanes |-> <<>>] /\ d.inFlight = NoItem
      /\ d.parked = {} /\ d.unanswered = {} /\ d.faults = [i \in Items |-> 0]
      /\ d.pump = "idle" /\ d.running = FALSE /\ d.down = FALSE
      /\ d.faultSession = 0 /\ d.faultStore = 0
  BY <1>1 DEF InitDemand, DemandFields
<1>3. /\ DOMAIN c = LinkFields /\ c.made = 0 /\ c.opened = 0 /\ c.session = 0 /\ c.store = 0
      /\ c.passing = FALSE /\ c.bulk = 0 /\ c.absent = {} /\ c.closed = FALSE /\ c.running = FALSE
  BY <1>1 DEF InitLink, LinkFields
<1>4. \A l \in Lanes : d.queue[l] = <<>> /\ ToSet(d.queue[l]) = {}
  BY <1>2 DEF ToSet
<1>5. \A i : ~Holds(d, i)
  BY <1>4 DEF Holds
<1>6. InOnePlace(d)
  <2>1. \A l \in Lanes : d.queue[l] \in Seq(InLane(l)) /\ IsInjective(d.queue[l])
    <3>1. IsInjective(<<>>) /\ \A l \in Lanes : <<>> \in Seq(InLane(l))
      BY DEF IsInjective
    <3> QED BY <1>4, <3>1, Zenon
  <2>2. d.faults \in [Items -> 0..ParkAfter - 1] /\ DOMAIN d.queue = Lanes
    BY <1>2, ParkAfterIs
  <2> QED BY <1>2, <1>5, <2>1, <2>2 DEF InOnePlace
<1>7. Pumping(d) /\ LinkIs(c)
  BY <1>2, <1>3 DEF Pumping, LinkIs
<1>8. Together(d, c) /\ Timed(d)
  BY <1>2, <1>3, <1>5 DEF Together, Noted, Rests, Timed
<1>9. Counted(d, c, tries) /\ Alone(d, c)
  BY <1>1, <1>2, <1>3, <1>6, ZeroCounts DEF Alone
<1> QED BY <1>6, <1>7, <1>8, <1>9 DEF Inv

LEMMA LinkStep ==
  ASSUME Inv, ~Settling, LinkSteps
  PROVE  Inv'
  BY StartStep, StopStep, ConfigAppliedStep, ConnectedStep, DisconnectedStep, ShutdownStep DEF LinkSteps

LEMMA NextHolds == Inv /\ [Next]_vars => Inv'
<1> SUFFICES ASSUME Inv, [Next]_vars PROVE Inv'
  OBVIOUS
<1>1. CASE UNCHANGED vars
  <2>1. d' = d /\ c' = c /\ tries' = tries
    BY <1>1 DEF vars
  <2>2. LinkIs(c') /\ Unrouted(c, c') /\ Numbered(c, c') /\ Told(d, d') /\ Recalled
    BY <2>1 DEF Inv, LinkIs, Unrouted, Numbered, Told, SameFaults, SamePump, InOnePlace, Recalled
  <2>3. Timed(d') /\ (d'.down <=> c'.closed) /\ (d'.running <=> c'.running) /\ (d.down => d'.down)
    BY <2>1 DEF Inv, Together
  <2> QED BY <2>2, <2>3, ToldStep
<1>2. CASE ItemEnds
  BY <1>2, EndStep
<1>3. CASE ~Settling /\ QueueSteps
  BY <1>3, QueueStep
<1>4. CASE ~Settling /\ LinkSteps
  BY <1>4, LinkStep
<1>5. CASE ~Settling /\ PassSteps
  BY <1>5, PassStep
<1>6. CASE \E item \in Items : ServerLearns(item)
  BY <1>6, LearnsStep
<1> QED BY <1>1, <1>2, <1>3, <1>4, <1>5, <1>6 DEF Next

LEMMA InvHolds == Spec => []Inv
<1> QED BY InitHolds, NextHolds, PTL DEF Spec

\* A list without repetitions is as long as what it holds.
LEMMA CountIs ==
  ASSUME NEW X, NEW s \in Seq(X), IsInjective(s)
  PROVE  Cardinality(ToSet(s)) = Len(s)
<1>1. Len(s) \in Nat /\ DOMAIN s = 1..Len(s) /\ s = [i \in 1..Len(s) |-> s[i]]
  OBVIOUS
<1>2. \A i \in 1..Len(s) : s[i] \in ToSet(s)
  BY <1>1 DEF ToSet
<1>3. s \in [1..Len(s) -> ToSet(s)]
  BY <1>1, <1>2
<1>4. \A e \in ToSet(s) : \E i \in 1..Len(s) : s[i] = e
  BY <1>1 DEF ToSet
<1>5. s \in Bijection(1..Len(s), ToSet(s))
  BY <1>3, <1>4 DEF Bijection, Injection, Surjection
<1>6. ExistsBijection(1..Len(s), ToSet(s))
  BY <1>5 DEF ExistsBijection
<1> QED BY <1>1, <1>6, FS_CountingElements

\* However polls, disconnects, passes, reloads and late answers fall, the timer
\* of a queue that runs is set or its request is out, and the pump never rests
\* while there is an item it could fetch (navdata-demand.ts 370-494, 583-760).
THEOREM NothingEverSleeps == Spec => []NothingSleeps
<1>1. Inv => NothingSleeps
  <2> SUFFICES ASSUME Inv PROVE NothingSleeps
    OBVIOUS
  <2>1. InOnePlace(d) /\ Timed(d) /\ Rests(d, c)
    BY DEF Inv, Together
  <2>2. IF Runnable(d, c) = NoItem THEN TRUE
        ELSE /\ Runnable(d, c) \in Items /\ Holds(d, Runnable(d, c))
             /\ Runnable(d, c).kind \in c.usable
    BY <2>1, RunnableIs
  <2>3. d.pump = "idle" /\ ~d.down /\ Session(c) # 0 /\ c.store # 0 => Runnable(d, c) = NoItem
    BY <2>1, <2>2 DEF Rests
  <2> QED BY <2>1, <2>3 DEF NothingSleeps, Timed
<1> QED BY <1>1, InvHolds, PTL

\* While the link announces no handle over one it has: an item is in one place,
\* what failed since the last timed poll is neither queued nor in flight, and
\* none is tried more than ParkAfter times on one session and store.
THEOREM OneTryPerCycleAlways ==
  ASSUME ~Overlap
  PROVE  Spec => []OneTryPerCycle
<1>1. Inv => OneTryPerCycle
  <2> SUFFICES ASSUME Inv PROVE OneTryPerCycle
    OBVIOUS
  <2>1. InOnePlace(d) /\ Counted(d, c, tries)
    BY DEF Inv
  <2>2. \A i : i \in Queued(d) <=> Holds(d, i)
    BY QueuedIs
  <2>3. \A i \in Queued(d) : i \in Items /\ i \notin d.parked \cup d.unanswered \cup {d.inFlight}
    BY <2>1, <2>2, LaneHolds DEF InOnePlace
  <2>4. \A l \in Lanes : Cardinality(ToSet(d.queue[l])) = Len(d.queue[l])
    BY <2>1, CountIs DEF InOnePlace
  <2>5. \A i \in Items : tries[i] <= ParkAfter
    BY <2>1, ParkAfterIs DEF Counted
  <2>6. d.inFlight \notin d.parked \cup d.unanswered
    BY <2>1 DEF InOnePlace
  <2> QED BY <2>3, <2>4, <2>5, <2>6 DEF OneTryPerCycle
<1> QED BY <1>1, InvHolds, PTL

\* While the link announces no handle over one it has, a pass that mints an
\* epoch wipes no absence that a fetch of the queue is about to count on: a pass
\* has the connection to itself, and whatever else empties the absences changes
\* the store (navdata-service.ts 139-150, navdata-bulk.ts 150-260).
THEOREM MintNeverFindsAFetch ==
  ASSUME ~Overlap
  PROVE  Spec => MintFindsNoFetch
<1> DEFINE Wiped == c.absent # {} /\ c'.absent = {} /\ c'.store = c.store
           Free == d.pump # "fetching" \/ d.into # c.store
<1>1. ASSUME Inv, [Next]_vars, Wiped PROVE Free
  <2>1. LinkIs(c) /\ Alone(d, c) /\ c.store # 0
    BY <1>1 DEF Inv, LinkIs
  <2>2. DOMAIN c = LinkFields /\ c.store = c.opened /\ c.opened \in Nat
    BY <2>1 DEF LinkIs
  <2>3. c'.absent # c.absent
    BY <1>1
  <2>4. \A k, opens : k.store # 0 /\ DOMAIN k = LinkFields => EnsureStore(k, opens).absent = k.absent
    BY EnsureStoreIs
  <2>5. ~UNCHANGED c
    BY <2>3
  <2>6. ~ItemEnds
    <3>1. SUFFICES ASSUME ItemEnds PROVE FALSE
      OBVIOUS
    <3>2. PICK outcome \in Outcomes :
            c' = [c EXCEPT !.held = IF outcome \in {"answered", "absent"} THEN @ \cup {d.inFlight} ELSE @,
                           !.absent = IF outcome = "absent" THEN @ \cup {d.inFlight} ELSE @]
      BY <3>1, Zenon DEF ItemEnds, FetchEnds
    <3> DEFINE held == IF outcome \in {"answered", "absent"} THEN c.held \cup {d.inFlight} ELSE c.held
               absent == IF outcome = "absent" THEN c.absent \cup {d.inFlight} ELSE c.absent
    <3>3. c' = [c EXCEPT !.held = held, !.absent = absent]
      BY <3>2, Zenon
    <3>4. c.absent \subseteq absent
      OBVIOUS
    <3> HIDE DEF held, absent
    <3>5. c'.absent = absent
      BY <2>2, <3>3 DEF LinkFields
    <3> QED BY <1>1, <3>4, <3>5
  <2>7. ~QueueSteps
    BY <2>5 DEF QueueSteps, TimerFires, PageArrives, PollRefused, Prepared, Yielded
  <2>8. ~LinkSteps
    <3>1. \A opens : ~Start(opens)
      <4>1. SUFFICES ASSUME NEW opens, Start(opens) PROVE FALSE
        OBVIOUS
      <4> DEFINE k == [c EXCEPT !.running = TRUE]
      <4>2. c' = EnsureStore(k, opens)
        BY <4>1, Zenon DEF Start
      <4>3. DOMAIN k = LinkFields /\ k.store = c.store /\ k.absent = c.absent
        BY <2>2 DEF LinkFields
      <4> HIDE DEF k
      <4> QED BY <2>1, <2>3, <2>4, <4>2, <4>3
    <3>2. ~Stop
      BY <2>2, <2>3 DEF Stop, CloseSession, LinkFields
    <3>3. \A switched, opens \in BOOLEAN : ~OnConfigApplied(switched, opens)
      <4>1. SUFFICES ASSUME NEW switched \in BOOLEAN, NEW opens \in BOOLEAN, OnConfigApplied(switched, opens) PROVE FALSE
        OBVIOUS
      <4> DEFINE gone == [c EXCEPT !.handle = FALSE, !.session = 0]
                 shut == [gone EXCEPT !.store = 0, !.held = {}, !.absent = {}, !.told = {}, !.unavailable = FALSE]
                 moved == IF switched THEN shut ELSE c
      <4>2. c' = IF c.running THEN EnsureStore(moved, opens) ELSE moved
        BY <2>1, <4>1, Zenon DEF OnConfigApplied, CloseSession, CloseStore
      <4>3. CASE switched
        <5>1. DOMAIN gone = LinkFields /\ gone.opened = c.opened
          BY <2>2 DEF LinkFields
        <5> HIDE DEF gone
        <5>2. DOMAIN shut = LinkFields /\ shut.store = 0 /\ shut.opened = c.opened
          BY <5>1 DEF LinkFields
        <5> HIDE DEF shut
        <5>3. EnsureStore(shut, opens).store \in {0, c.opened + 1}
          BY <5>2, EnsureStoreIs
        <5>4. c'.store \in {0, c.opened + 1}
          BY <4>2, <4>3, <5>2, <5>3
        <5> QED BY <1>1, <2>1, <2>2, <5>4
      <4>4. CASE ~switched
        <5>1. c' = IF c.running THEN EnsureStore(c, opens) ELSE c
          BY <4>2, <4>4
        <5> QED BY <2>1, <2>2, <2>3, <2>4, <5>1
      <4> QED BY <4>3, <4>4
    <3>4. \A readable, opens, usable, recent : ~OnSimConnected(readable, opens, usable, recent)
      <4>1. SUFFICES ASSUME NEW readable, NEW opens, NEW usable, NEW recent,
                            OnSimConnected(readable, opens, usable, recent)
                     PROVE FALSE
        OBVIOUS
      <4> DEFINE k == [c EXCEPT !.handle = TRUE]
                 ready == EnsureStore(k, opens)
                 shut == [ready EXCEPT !.session = 0]
                 passed == StartPass(ready, usable, recent)
      <4>2. c' = ready \/ c' = shut \/ c' = passed
        BY <4>1, Zenon DEF OnSimConnected, CloseSession
      <4>3. DOMAIN k = LinkFields /\ k.store = c.store /\ k.absent = c.absent /\ k.made = c.made
        BY <2>2 DEF LinkFields
      <4> HIDE DEF k
      <4>4. DOMAIN ready = LinkFields /\ ready.absent = c.absent /\ ready.made = c.made
        <5>1. DOMAIN ready = LinkFields /\ ready.made = k.made
          BY <4>3, EnsureStoreIs
        <5>2. ready.absent = k.absent
          BY <2>1, <2>4, <4>3
        <5> QED BY <4>3, <5>1, <5>2
      <4> HIDE DEF ready
      <4>5. shut.absent = c.absent
        BY <4>4 DEF LinkFields
      <4>6. passed.absent = c.absent
        <5>1. Replaces(ready, passed, usable)
          BY <2>1, <4>4, StartPassIs DEF LinkIs
        <5> QED BY <4>4, <5>1 DEF Replaces
      <4> HIDE DEF shut, passed
      <4> QED BY <2>3, <4>2, <4>4, <4>5, <4>6
    <3>5. ~OnSimDisconnected
      BY <2>2, <2>3 DEF OnSimDisconnected, CloseSession, LinkFields
    <3>6. ~Shutdown
      <4>1. SUFFICES ASSUME Shutdown PROVE c'.store = 0
        BY <1>1, <2>1
      <4>2. c' = [c EXCEPT !.closed = TRUE, !.running = FALSE, !.handle = FALSE, !.session = 0,
                           !.store = 0, !.held = {}, !.absent = {}, !.told = {}]
        BY <4>1, Zenon DEF Shutdown, CloseSession, CloseStore
      <4> QED BY <2>2, <4>2 DEF LinkFields
    <3> QED BY <3>1, <3>2, <3>3, <3>4, <3>5, <3>6 DEF LinkSteps
  <2>9. PassSteps => Free
    <3>1. ~PassListed
      BY <2>2, <2>3 DEF PassListed, LinkFields
    <3>2. \A result : PassEnds(result) => c.bulk # 0
      BY DEF PassEnds
    <3> QED BY <2>1, <3>1, <3>2 DEF PassSteps, Alone
  <2>10. \A item : ~ServerLearns(item)
    BY <2>2, <2>3 DEF ServerLearns, LinkFields
  <2>11. ~UNCHANGED vars
    BY <2>5 DEF vars
  <2> QED BY <1>1, <2>6, <2>7, <2>8, <2>9, <2>10, <2>11 DEF Next
<1>2. Inv /\ [Next]_vars => [Wiped => Free]_vars
  BY <1>1
<1>3. Spec => [][Wiped => Free]_vars
  BY <1>2, InvHolds, PTL DEF Spec
<1> QED BY <1>3 DEF MintFindsNoFetch
=============================================================================
