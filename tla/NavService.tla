------------------------------ MODULE NavService ------------------------------
(***************************************************************************)
(* The navdata service (sidecar/src/navdata-service.ts) over its demand    *)
(* queue (NavDemand) and its bulk airport pass (navdata-bulk.ts): which    *)
(* store and which facility session are in use, and who may use them.      *)
(* The sidecar calls it on START, STOP, a config reload and shutdown, the  *)
(* SimConnect link when a handle comes and goes.                           *)
(*                                                                         *)
(* Facility sessions and stores are numbered in the order they are made;   *)
(* a session is open exactly while it is the current one.  What the store  *)
(* holds is the set of items it answers for.                               *)
(***************************************************************************)
EXTENDS NavDemand

CONSTANTS
  MaxSessions, MaxStores,  \* bounds on connections and on store files
  Overlap                  \* the link may announce a handle while it has one

ASSUME ServiceAssumption == MaxSessions \in Nat /\ MaxStores \in Nat /\ Overlap \in BOOLEAN

VARIABLE tries  \* attempts that failed, by item, on the session and store in use (history)

vars == <<d, c, tries>>

Kinds == {item.kind : item \in Items}

InitLink ==
  [running |-> FALSE, handle |-> FALSE, closed |-> FALSE,
   session |-> 0, made |-> 0, usable |-> {},
   passing |-> FALSE, bulk |-> 0, listed |-> FALSE, bulkStore |-> 0, indexed |-> FALSE,
   store |-> 0, opened |-> 0, unavailable |-> FALSE,
   held |-> {}, absent |-> {}, told |-> {}]

Init == d = InitDemand /\ c = InitLink /\ tries = [i \in Items |-> 0]

(***************************************************************************)
(* The store and the session.                                              *)
(***************************************************************************)
\* A store that is opened is empty: one of another simulator is moved aside.
EnsureStore(k, opens) ==
  IF k.store # 0 \/ k.unavailable THEN k
  ELSE IF opens THEN [k EXCEPT !.store = k.opened + 1, !.opened = @ + 1, !.indexed = FALSE,
                               !.held = {}, !.absent = {}, !.told = {}]
  ELSE [k EXCEPT !.unavailable = TRUE]

CloseStore(k) == [k EXCEPT !.store = 0, !.held = {}, !.absent = {}, !.told = {}]
CloseSession(k) == [k EXCEPT !.session = 0]

\* A new session, and the bulk pass on it, unless one is running or the last
\* one finished within the hour: that pass ends where it began.
StartPass(k, usable, recent) ==
  LET s == k.made + 1
      fresh == [CloseSession(k) EXCEPT !.session = s, !.made = s, !.usable = usable]
  IN IF k.bulk # 0 \/ (k.indexed /\ recent) THEN [fresh EXCEPT !.passing = FALSE]
     ELSE [fresh EXCEPT !.passing = TRUE, !.bulk = s, !.listed = FALSE,
                        !.bulkStore = k.store, !.indexed = FALSE]

MayOpen(k, opens) == k.opened < MaxStores \/ ~opens
Retried == tries' = [i \in Items |-> IF c'.session \in {0, c.session} /\ c'.store \in {0, c.store}
                                     THEN tries[i] ELSE 0]

(***************************************************************************)
(* What the sidecar and the link call.                                     *)
(***************************************************************************)
Start(opens) ==
  /\ ~c.running /\ ~c.closed /\ MayOpen(c, opens)
  /\ c' = EnsureStore([c EXCEPT !.running = TRUE], opens)
  /\ d' = StartDemand(d)
  /\ Retried

Stop ==
  /\ c.running
  /\ c' = CloseSession([c EXCEPT !.running = FALSE, !.handle = FALSE])
  /\ d' = StopDemand(d)
  /\ Retried

\* A reload of a running sidecar calls start once more.  When the simulator
\* changed, the link has already let go of its handle.
OnConfigApplied(switched, opens) ==
  /\ ~c.closed /\ MayOpen(c, opens)
  /\ LET cycled == IF switched THEN CloseSession([c EXCEPT !.handle = FALSE]) ELSE c
         moved == IF switched /\ c.store # 0
                  THEN [CloseStore(cycled) EXCEPT !.unavailable = FALSE] ELSE cycled
     IN c' = IF c.running THEN EnsureStore(moved, opens) ELSE moved
  /\ d' = ReloadDemand(IF c.running THEN StartDemand(d) ELSE d)
  /\ Retried

\* A list can be read only when the simulator is the one configured.
OnSimConnected(readable, opens, usable, recent) ==
  /\ c.running /\ c.made < MaxSessions /\ MayOpen(c, opens)
  /\ Overlap \/ (~c.handle /\ c.bulk = 0)
  /\ LET ready == EnsureStore([c EXCEPT !.handle = TRUE], opens)
     IN c' = IF ready.store = 0 THEN ready
             ELSE IF ~readable THEN CloseSession(ready)
             ELSE StartPass(ready, usable, recent)
  /\ d' = IF c'.session # c.session /\ c'.session # 0 /\ ~c'.passing THEN Wake(d, c') ELSE d
  /\ Retried

OnSimDisconnected ==
  /\ c.handle
  /\ c' = CloseSession([c EXCEPT !.handle = FALSE])
  /\ UNCHANGED <<d, tries>>

Shutdown ==
  /\ ~c.closed
  /\ d' = ShutDemand(d)
  /\ c' = CloseStore(CloseSession([c EXCEPT !.closed = TRUE, !.running = FALSE, !.handle = FALSE]))
  /\ UNCHANGED tries

(***************************************************************************)
(* The bulk pass: the list arrives, its rows are written in turns.         *)
(***************************************************************************)
PassListed ==
  /\ c.bulk # 0 /\ ~c.listed /\ c.session = c.bulk
  /\ c' = [c EXCEPT !.listed = TRUE]
  /\ UNCHANGED <<d, tries>>

PassEnds(result) ==
  /\ c.bulk # 0
  /\ result \in {"completed", "minted"} => c.listed /\ c.store = c.bulkStore
  /\ LET ended == [c EXCEPT !.bulk = 0, !.passing = FALSE, !.listed = FALSE,
                            !.indexed = @ \/ result \in {"completed", "minted"}]
     IN c' = IF result = "minted"
             THEN [ended EXCEPT !.held = @ \ c.absent, !.told = @ \ c.absent, !.absent = {}]
             ELSE ended
  /\ d' = Wake(d, c')
  /\ UNCHANGED tries

\* The sync carries an answer to the server, which stops asking.
ServerLearns(item) ==
  /\ c.running /\ item \in c.held \ c.told
  /\ c' = [c EXCEPT !.told = @ \cup {item}]
  /\ UNCHANGED <<d, tries>>

\* Closing a session settles what was in flight before the loop turns again.
Settling == d.pump = "fetching" /\ c.session # d.on

QueueSteps == (TimerFires \/ PageArrives \/ PollRefused \/ Prepared \/ Yielded) /\ UNCHANGED tries

ItemEnds ==
  \E outcome \in Outcomes :
    /\ FetchEnds(outcome)
    /\ tries' = CASE outcome \in {"answered", "absent"} -> [tries EXCEPT ![d.inFlight] = 0]
                  [] outcome = "failed" \/ (outcome = "aborted" /\ c.session = d.on) ->
                       [tries EXCEPT ![d.inFlight] = @ + 1]
                  [] OTHER -> tries

LinkSteps ==
  \/ \E opens \in BOOLEAN : Start(opens)
  \/ Stop
  \/ \E switched, opens \in BOOLEAN : OnConfigApplied(switched, opens)
  \/ \E readable, opens, recent \in BOOLEAN, usable \in {Kinds, {"A"}} :
       OnSimConnected(readable, opens, usable, recent)
  \/ OnSimDisconnected
  \/ Shutdown

PassSteps ==
  PassListed \/ \E result \in {"completed", "minted", "interrupted", "failed"} : PassEnds(result)

Next ==
  \/ ItemEnds
  \/ ~Settling /\ QueueSteps
  \/ ~Settling /\ LinkSteps
  \/ ~Settling /\ PassSteps
  \/ ~Settling /\ \E item \in Items : ServerLearns(item)

Spec == Init /\ [][Next]_vars

\* Timers fire and promises settle.  The network brings a page again and again,
\* the simulator ends what it was asked, and what it can answer it answers at
\* times; the sync runs.
Liveness ==
  /\ WF_vars(TimerFires /\ UNCHANGED tries) /\ SF_vars(PageArrives /\ UNCHANGED tries)
  /\ WF_vars((Prepared \/ Yielded) /\ UNCHANGED tries)
  /\ WF_vars(ItemEnds) /\ WF_vars(PassSteps)
  /\ \A item \in Items : WF_vars(ServerLearns(item))

FairSpec == Spec /\ Liveness

(***************************************************************************)
(* Properties.                                                             *)
(***************************************************************************)
\* Every item is in one place: once in a queue, in flight, or parked; and what
\* failed since the last timed poll is in none of the first two, so a truncated
\* list that is read again at once does not try it again (the comment at
\* navdata-demand.ts:340).  One that only fails is tried ParkAfter times on one
\* session and store, however polls, disconnects and bulk passes fall between.
OneTryPerCycle ==
  /\ d.inFlight \notin Queued(d) \cup d.parked
  /\ Queued(d) \cap d.parked = {}
  /\ \A l \in Lanes : Cardinality(ToSet(d.queue[l])) = Len(d.queue[l])
  /\ (Queued(d) \cup {d.inFlight}) \cap d.unanswered = {}
  /\ \A item \in Items : tries[item] <= ParkAfter

\* No wake-up is lost, whatever stopped, restarted or answered meanwhile.  While
\* the uplink runs the list is going to be read: a request is out or the timer
\* is set; and the pump never rests while a session and a store are there for an
\* item it could fetch.
NothingSleeps ==
  /\ d.running /\ ~d.down => d.timer \/ d.polling
  /\ d.pump = "idle" /\ ~d.down /\ Session(c) # 0 /\ c.store # 0 => Runnable(d, c) = NoItem

\* A bulk pass that mints an epoch wipes no absence a fetch is about to count
\* on: it never does so while the queue is fetching into that store
\* (navdata-service.ts:141).
MintFindsNoFetch ==
  [][c.absent # {} /\ c'.absent = {} /\ c'.store = c.store
       => d.pump # "fetching" \/ d.into # c.store]_vars

\* The server's list is served.  On a link that stays up everything the server
\* wants is in the end answered or set aside on this side, unless the ident it
\* shares with a parked point hides it from the page, or as many points as the
\* page has room for stand before it that the session cannot fetch or that are
\* set aside without the server being told (navdata-demand.ts:353).
Hidden(item) ==
  \/ item.ident \in {p.ident : p \in d.parked \ d.local}
  \/ Cardinality({p \in ToSet(PointOrder) :
        p \in d.local \/ (p.kind \notin c.usable /\ p \notin c.told)}) >= Cap

Served ==
  \A item \in Items :
    []<>(\/ item \in c.held \cup d.parked \/ Hidden(item)
         \/ ~d.running \/ Session(c) = 0 \/ c.store = 0 \/ item.kind \notin c.usable)
================================================================================
