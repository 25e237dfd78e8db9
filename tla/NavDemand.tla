------------------------------- MODULE NavDemand -------------------------------
(***************************************************************************)
(* The demand queue of the sidecar (sidecar/src/navdata-demand.ts): the    *)
(* list of airports, fixes and navaids the server wants is polled, queued  *)
(* in three bounded lanes and fetched one item at a time over the facility *)
(* session; an item that keeps failing is parked.                          *)
(*                                                                         *)
(* The handlers of the code call one another (a poll's answer enqueues,    *)
(* wakes the pump and schedules the next poll in one turn of the event     *)
(* loop), so each is an operator on the whole state d of the queue, given  *)
(* the link c it looks at through deps.session() and deps.store().         *)
(* NavService owns that link.                                              *)
(***************************************************************************)
EXTENDS Integers, FiniteSets, SequencesExt

CONSTANTS
  AirportOrder,  \* the airports the server may want, in the order it lists them
  PointOrder,    \* the fixes, VORs and NDBs it may want, in that order
  Cap,           \* the server's cap on either list
  HighWater,     \* DEMAND_QUEUE_HIGH_WATER
  ParkAfter,     \* DEMAND_FAULT_PARK_AFTER
  SkipMax        \* DEMAND_SKIP_MAX

ASSUME BoundsAssumption == {Cap, HighWater, ParkAfter, SkipMax} \subseteq Nat \ {0}
ASSUME OrderAssumption ==
  /\ AirportOrder \in Seq([kind : {"A"}, ident : {i.ident : i \in ToSet(AirportOrder)}])
  /\ PointOrder \in Seq([kind : {"W", "V", "N"}, ident : {i.ident : i \in ToSet(PointOrder)}])
  /\ IsInjective(AirportOrder) /\ IsInjective(PointOrder)

\* An item is its key: [kind |-> "A", "W", "V" or "N", ident |-> ...].
Items == ToSet(AirportOrder) \cup ToSet(PointOrder)
NoItem == [kind |-> "none", ident |-> "none"]

Lanes == {"A", "W", "NAV"}
LaneOf(item) == IF item.kind \in {"A", "W"} THEN item.kind ELSE "NAV"
First(n, s) == SubSeq(s, 1, IF n < Len(s) THEN n ELSE Len(s))
\* The items of a list that are in S, in their order.
Only[S \in SUBSET Items] == [list \in Seq(Items) |->
  LET kept[n \in 0..Len(list)] ==
        IF n = 0 THEN <<>>
        ELSE IF list[n] \in S THEN Append(kept[n - 1], list[n]) ELSE kept[n - 1]
  IN kept[Len(list)]]

VARIABLES
  d,  \* the queue, see InitDemand
  c   \* the link: session, passing, store, usable, held, absent, told

InitDemand ==
  [running |-> FALSE, down |-> FALSE,
   polling |-> FALSE, skip |-> [A |-> {}, W |-> {}],    \* the request out, and its skip lists
   timer |-> FALSE, repoll |-> FALSE, more |-> FALSE,
   unanswered |-> {},
   queue |-> [l \in Lanes |-> <<>>],
   inFlight |-> NoItem,
   pump |-> "idle", on |-> 0, into |-> 0,               \* the pump's stage, session and store
   faults |-> [i \in Items |-> 0], parked |-> {}, local |-> {},
   faultSession |-> 0, faultStore |-> 0]

(***************************************************************************)
(* What is queued.                                                         *)
(***************************************************************************)
Queued(q) == UNION {ToSet(q.queue[l]) : l \in Lanes}
NothingQueued(q) == \A l \in Lanes : q.queue[l] = <<>>
SizeOf(q, l) ==
  Len(q.queue[l]) + (IF q.inFlight # NoItem /\ LaneOf(q.inFlight) = l THEN 1 ELSE 0)

\* Mutant: a pass in progress goes unnoticed.
SessionDuringPass(k) == k.session

\* deps.session(): none while a bulk pass has the connection to itself.
Session(k) == IF k.passing THEN 0 ELSE k.session

(***************************************************************************)
(* Parking, and the news that forgives it.                                 *)
(***************************************************************************)
Noticed(q, k) ==
  LET session == Session(k)
      news == \/ session # 0 /\ session # q.faultSession
              \/ k.store # 0 /\ k.store # q.faultStore
  IN IF ~news THEN q
     ELSE [q EXCEPT !.faultSession = IF session # 0 THEN session ELSE @,
                    !.faultStore = IF k.store # 0 THEN k.store ELSE @,
                    !.parked = {}, !.local = {}, !.faults = [i \in Items |-> 0]]

Park(q, item, here) ==
  [q EXCEPT !.parked = @ \cup {item}, !.local = IF here THEN @ \cup {item} ELSE @,
            !.faults[item] = 0]

Requeue(q, item, front) ==
  IF item \in Queued(q) \cup q.parked THEN q
  ELSE [q EXCEPT !.queue[LaneOf(item)] = IF front THEN <<item>> \o @ ELSE Append(@, item)]

Fault(q, item, again) ==
  LET held == [q EXCEPT !.unanswered = IF again THEN @ ELSE @ \cup {item}]
      count == q.faults[item] + 1
      kept == [held EXCEPT !.faults[item] = count]
  IN IF count >= ParkAfter THEN Park(held, item, FALSE)
     ELSE IF again THEN Requeue(kept, item, FALSE) ELSE kept

\* Mutant: the server is not told what was set aside.
SkipNothing(q, order) == {}

\* The airports, or the points, the server is asked to leave out: by ident
\* alone, and no more than the server accepts.
SkipList(q, order) ==
  LET idents == {item.ident : item \in (q.parked \ q.local) \cap ToSet(order)}
      place(i) == CHOOSE n \in DOMAIN order : order[n].ident = i
  IN {i \in idents : Cardinality({j \in idents : place(j) < place(i)}) < SkipMax}

(***************************************************************************)
(* The timer.                                                              *)
(***************************************************************************)
Schedule(q, again) == [q EXCEPT !.timer = q.running /\ ~q.down, !.repoll = again]
Unscheduled(q) == [q EXCEPT !.timer = FALSE]

(***************************************************************************)
(* The pump, from where it stands to its next await.                       *)
(***************************************************************************)
PumpEnds(q) ==
  LET e == [q EXCEPT !.pump = "idle", !.on = 0, !.into = 0]
  IN IF NothingQueued(e) /\ e.more /\ e.running /\ ~e.down
     THEN Schedule([e EXCEPT !.more = FALSE], TRUE) ELSE e

PumpTop(q, k) ==
  IF q.down \/ NothingQueued(q) THEN PumpEnds(q)
  ELSE LET n == Noticed(q, k)
       IN IF Session(k) = 0 \/ k.store = 0 THEN PumpEnds(n)
          ELSE [n EXCEPT !.pump = "preparing", !.on = Session(k), !.into = k.store]

Wake(q, k) == IF q.pump # "idle" \/ q.down THEN q ELSE PumpTop(q, k)

\* The first item, in lane order, whose definition the session has.
Runnable(q, k) ==
  LET fits(l) == Only[{i \in Items : i.kind \in k.usable}][q.queue[l]]
      all == fits("A") \o fits("W") \o fits("NAV")
  IN IF all = <<>> THEN NoItem ELSE Head(all)

Take(q, k) ==
  LET item == Runnable(q, k)
      taken == [q EXCEPT !.queue[LaneOf(item)] = Only[Items \ {item}][@]]
  IN IF item = NoItem THEN PumpEnds(q)
     ELSE IF item \in k.held THEN PumpTop(taken, k)
     ELSE [taken EXCEPT !.inFlight = item, !.pump = "fetching"]

\* Mutant: the pump ends where it should go round for the session that replaced its own.
AfterPrepareGivesUp(q, k) ==
  IF q.down \/ Session(k) # q.on \/ k.store # q.into THEN PumpEnds(q) ELSE Take(q, k)

AfterPrepare(q, k) ==
  IF q.down THEN PumpEnds(q)
  ELSE IF Session(k) # q.on \/ k.store # q.into THEN [q EXCEPT !.pump = "yielding"]
  ELSE Take(q, k)

Settle(q, item, outcome, open) ==
  CASE outcome \in {"answered", "absent"} -> [q EXCEPT !.faults[item] = 0]
    [] outcome = "aborted" /\ ~open -> Requeue(q, item, TRUE)
    [] outcome = "aborted" /\ open  -> Fault(q, item, TRUE)
    [] outcome = "ambiguous"        -> Park(q, item, FALSE)
    [] outcome = "mismatched"       -> Park(q, item, TRUE)
    [] OTHER                        -> Fault(q, item, FALSE)

AfterFetch(q, k, outcome) ==
  LET e == [q EXCEPT !.inFlight = NoItem]
  IN IF q.down THEN PumpEnds(e)
     ELSE [Settle(e, q.inFlight, outcome, k.session = q.on) EXCEPT !.pump = "yielding"]

(***************************************************************************)
(* One poll.                                                               *)
(***************************************************************************)
\* Mutant: what failed a moment ago is queued again.
FreshAgain(q, k, item) ==
  /\ item \notin Queued(q) \cup q.parked \cup {q.inFlight}
  /\ k.store # 0 => item \notin k.held

Fresh(q, k, item) ==
  /\ item \notin Queued(q) \cup q.parked \cup q.unanswered \cup {q.inFlight}
  /\ k.store # 0 => item \notin k.held

Enqueue(q, k, list) ==
  LET n == Noticed(q, k)
      new(l) == Only[{i \in ToSet(list) : LaneOf(i) = l /\ Fresh(n, k, i)}][list]
  IN [n EXCEPT !.queue = [l \in Lanes |-> @[l] \o First(HighWater - SizeOf(n, l), new(l))]]

Tick(q, k) ==
  IF ~q.running \/ q.down \/ q.polling THEN Unscheduled(q)
  ELSE LET begun == [Unscheduled(q) EXCEPT !.repoll = FALSE,
                       !.unanswered = IF q.repoll THEN @ ELSE {}]
           asked == Noticed(begun, k)
       IN IF k.store = 0 THEN Schedule(begun, FALSE)
          ELSE [asked EXCEPT !.polling = TRUE,
                  !.skip = [A |-> SkipList(asked, AirportOrder),
                            W |-> SkipList(asked, PointOrder)]]

\* The page of a server that forgets its clients: what it wants and was not
\* told of, less what it is asked to skip, cut at its cap.
Wanted(order, k, skip) == Only[{i \in Items : i \notin k.told /\ i.ident \notin skip}][order]
Page(order, k, skip) == First(Cap, Wanted(order, k, skip))
Cut(order, k, skip) == Len(Wanted(order, k, skip)) > Cap

AfterPage(q, k, list, cut) ==
  LET e == Enqueue(q, k, list)  \* fixes and navaids have lanes of their own
      added == Queued(e) # Queued(q)
      f == [(IF added THEN Wake(e, k) ELSE e) EXCEPT !.polling = FALSE]
      room == \A l \in Lanes : SizeOf(f, l) < HighWater
      idle == NothingQueued(f) /\ f.inFlight = NoItem
  IN CASE ~cut                 -> Schedule([f EXCEPT !.more = FALSE], FALSE)
       [] cut /\ added /\ room -> Schedule(f, TRUE)
       [] OTHER                -> Schedule([f EXCEPT !.more = ~idle], FALSE)

AfterRefusal(q) == Schedule([q EXCEPT !.polling = FALSE], FALSE)

(***************************************************************************)
(* What the service calls.                                                 *)
(***************************************************************************)
StartDemand(q) == IF q.down THEN q ELSE Schedule([q EXCEPT !.running = TRUE], FALSE)
StopDemand(q) == Unscheduled([q EXCEPT !.running = FALSE, !.more = FALSE])
ShutDemand(q) == StopDemand([q EXCEPT !.down = TRUE])
ReloadDemand(q) == IF q.running THEN Schedule(q, FALSE) ELSE q

(***************************************************************************)
(* The steps the queue takes by itself.                                    *)
(***************************************************************************)
TimerFires == d.timer /\ d' = Tick(d, c) /\ UNCHANGED c

PageArrives ==
  /\ d.polling
  /\ \E list \in {Page(AirportOrder, c, d.skip.A) \o Page(PointOrder, c, d.skip.W)} :
       d' = AfterPage(d, c, list, Cut(AirportOrder, c, d.skip.A) \/ Cut(PointOrder, c, d.skip.W))
  /\ UNCHANGED c

PollRefused == d.polling /\ d' = AfterRefusal(d) /\ UNCHANGED c

Prepared == d.pump = "preparing" /\ d' = AfterPrepare(d, c) /\ UNCHANGED c

Yielded == d.pump = "yielding" /\ d' = PumpTop(d, c) /\ UNCHANGED c

\* What a fetch may come to.  Only a store still open can take the answer, and
\* only an open session brings one, though a navaid answered by the first of its
\* three requests stays answered; a mismatch is a fix answered by a navaid.
MayEnd(outcome) ==
  CASE outcome \in {"answered", "absent"} ->
         c.store = d.into /\ (c.session = d.on \/ d.inFlight.kind \in {"V", "N"})
    [] outcome = "mismatched" -> d.inFlight.kind = "W" /\ c.session = d.on
    [] outcome = "ambiguous"  -> c.session = d.on
    [] OTHER -> TRUE

FetchEnds(outcome) ==
  /\ d.pump = "fetching" /\ MayEnd(outcome)
  /\ d' = AfterFetch(d, c, outcome)
  /\ c' = [c EXCEPT !.held = IF outcome \in {"answered", "absent"} THEN @ \cup {d.inFlight} ELSE @,
                    !.absent = IF outcome = "absent" THEN @ \cup {d.inFlight} ELSE @]

Outcomes == {"answered", "absent", "aborted", "failed", "ambiguous", "mismatched"}
================================================================================
