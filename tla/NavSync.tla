-------------------------------- MODULE NavSync --------------------------------
(***************************************************************************)
(* The navdata sync (sidecar/src/navdata-sync.ts): one loop that carries   *)
(* the store to a server, as a snapshot that replaces the replica and then *)
(* as batches of the rows above a cursor, one request at a time.           *)
(*                                                                         *)
(* The server is external.  It applies a snapshot wholesale and a batch by *)
(* row, refuses a batch of another epoch, and may answer late, twice over  *)
(* or not at all; while it works on a request nobody waits for any more it *)
(* says it is busy.                                                        *)
(***************************************************************************)
EXTENDS NavStore

CONSTANTS
  BatchMaxRows,  \* NAVDATA_BATCH_MAX_ROWS
  MaxFaults,     \* requests that fail
  MaxCrashes, MaxSwitches

ASSUME SyncAssumption ==
  /\ BatchMaxRows \in Nat \ {0}
  /\ MaxFaults \in Nat /\ MaxCrashes \in Nat /\ MaxSwitches \in Nat

VARIABLES
  y,        \* the loop, see InitSync
  srv,      \* each server's replica: its epoch and the rev of each row
  late,     \* the request a server still works on though the client gave up
  misled,   \* servers whose cursor was moved by another server's answer (history)
  skipped   \* rows given up as too large, by server (history)

vars == <<storeVars, y, srv, late, misled, skipped>>

NoRows == [k \in Keys |-> 0]
NoReq == [kind |-> None, for |-> None, at |-> None, epoch |-> 0, from |-> 0, to |-> 0, rows |-> NoRows]

InitLoop(server) ==
  [running |-> TRUE, timer |-> TRUE, phase |-> "idle", server |-> server,
   limited |-> FALSE, scanned |-> -1, bound |-> BatchMaxRows, latched |-> FALSE, req |-> NoReq]

Init ==
  /\ InitStore
  /\ \E s \in Servers : y = InitLoop(s)
  /\ srv = [s \in Servers |-> [epoch |-> 0, rows |-> NoRows]]
  /\ late = [s \in Servers |-> NoReq]
  /\ misled = {} /\ skipped = [s \in Servers |-> {}]

(***************************************************************************)
(* The batch: the rows above a rev, each table read up to one row past the *)
(* bound, cut where a transaction ends.                                    *)
(***************************************************************************)
Lowest(revs) == CHOOSE r \in revs : \A other \in revs : r <= other
Highest(revs) == CHOOSE r \in revs : \A other \in revs : r >= other
RevsOf(s, keys) == {s.row[k] : k \in keys}

Since(s, table, from, limit) ==
  LET above == {k \in RowsOf(table) : s.row[k] > from} IN
  IF Cardinality(above) <= limit THEN above
  ELSE CHOOSE read \in SUBSET above :
         /\ Cardinality(read) = limit
         /\ \A k \in read, other \in above \ read : s.row[k] <= s.row[other]

AtRev(s, rev) == {k \in Keys : s.row[k] = rev}
WholeRev(s, rev) == [rows |-> AtRev(s, rev), to |-> rev]

BuildBatch(s, from, bound) ==
  LET read(table) == Since(s, table, from, bound + 1)
      candidates == UNION {read(table) : table \in Tables}
      clipped == {table \in Tables : Cardinality(read(table)) > bound}
      usable == {k \in candidates :
                   \A table \in clipped : s.row[k] < Highest(RevsOf(s, read(table)))}
      upTo(rev) == {k \in usable : s.row[k] <= rev}
      fits == {rev \in RevsOf(s, usable) : Cardinality(upTo(rev)) <= bound}
  IN IF candidates = {} THEN [rows |-> {}, to |-> from]
     ELSE IF usable = {} THEN WholeRev(s, Lowest(RevsOf(s, candidates)))
     ELSE IF fits = {} THEN WholeRev(s, Lowest(RevsOf(s, usable)))
     ELSE [rows |-> upTo(Highest(fits)), to |-> Highest(fits)]

Carried(s, keys) == [k \in Keys |-> IF k \in keys THEN s.row[k] ELSE 0]

\* A snapshot carries every row, of one view of the store.
Snapshot(s) == Carried(s, Keys)

(***************************************************************************)
(* The loop.                                                               *)
(***************************************************************************)
Schedule(l) == [l EXCEPT !.timer = l.running /\ ~l.latched]
\* Mutant: the loop does not set its timer again.
IdleUntimed(l) == [l EXCEPT !.phase = "idle", !.req = NoReq]

Idle(l) == Schedule([l EXCEPT !.phase = "idle", !.req = NoReq])

\* A server met for the first time gets a cursor.
Opened(s, server) ==
  IF s.cursor[server] # NoCursor THEN s
  ELSE SetCursor(s, server, [NoCursor EXCEPT !.state = "snapshot-required"])

NeedsSnapshot(s, server) ==
  s.cursor[server].epoch # s.epoch \/ s.cursor[server].state # "incremental"
\* Mutant: whatever was written counts.
HasAnything(s) == s.rev > 0

HasFacilityRows(s) == \E k \in Facilities : s.row[k] # 0
Resyncing(s, server) == s.cursor[server].state = "resync-required"

Due == y.timer /\ y.running /\ ~y.latched /\ y.phase = "idle"
Elsewhere == UNCHANGED <<pass, fetch, spent, srv, late, misled, skipped>>

\* The timer of a loop that is busy, stopped or off does nothing.
TickIsIdle ==
  /\ y.timer /\ ~Due
  /\ y' = [y EXCEPT !.timer = FALSE]
  /\ UNCHANGED db /\ Elsewhere

MayExport(s) == HasFacilityRows(s) /\ ~(Resyncing(s, y.server) /\ y.limited)

TickWaits ==
  LET s == Opened(db, y.server) IN
  /\ Due /\ NeedsSnapshot(s, y.server) /\ ~MayExport(s)
  /\ db' = s /\ UNCHANGED y /\ Elsewhere

\* The export reads one view of the store, taken at once.
TickExports ==
  LET s == Opened(db, y.server)
      resyncing == Resyncing(s, y.server)
      sending == IF resyncing THEN s
                 ELSE SetCursor(s, y.server, [s.cursor[y.server] EXCEPT !.state = "snapshot-sending"])
  IN /\ Due /\ NeedsSnapshot(s, y.server) /\ MayExport(s)
     /\ db' = sending
     /\ y' = [y EXCEPT !.timer = FALSE, !.phase = "exporting", !.limited = @ \/ resyncing,
                       !.req = [NoReq EXCEPT !.kind = "snapshot", !.for = y.server,
                                  !.epoch = sending.epoch, !.to = sending.rev,
                                  !.rows = Snapshot(sending)]]
     /\ Elsewhere

TickSends ==
  LET from == db.cursor[y.server].acked
      batch == BuildBatch(db, from, y.bound)
  IN /\ Due /\ ~NeedsSnapshot(db, y.server)
     /\ db.rev > from /\ db.rev > y.scanned
     /\ y' = IF batch.rows = {} THEN [y EXCEPT !.scanned = db.rev]
             ELSE [y EXCEPT !.timer = FALSE, !.phase = "sending",
                            !.req = [kind |-> "rows", for |-> y.server, at |-> y.server,
                                     epoch |-> db.epoch, from |-> from, to |-> batch.to,
                                     rows |-> Carried(db, batch.rows)]]
     /\ UNCHANGED db /\ Elsewhere

RecordError(s, server) == SetCursor(s, server, s.cursor[server])
Failed == Spend("faults", MaxFaults)

ExportFails ==
  /\ y.phase = "exporting" /\ Failed
  /\ db' = RecordError(db, y.req.for)
  /\ y' = Idle(y)
  /\ UNCHANGED <<pass, fetch, srv, late, misled, skipped>>

\* The file is read back before it is sent, and sent to the server the config
\* names by then.
ExportSent ==
  /\ y.phase = "exporting"
  /\ y' = [y EXCEPT !.phase = "sending", !.req.at = y.server]
  /\ UNCHANGED db /\ Elsewhere

(***************************************************************************)
(* The server's side, and what the loop makes of its answer.               *)
(***************************************************************************)
Applied(replica, r) ==
  IF r.kind = "snapshot" THEN [epoch |-> r.epoch, rows |-> r.rows]
  ELSE IF replica.epoch # r.epoch THEN replica
  ELSE [replica EXCEPT !.rows = [k \in Keys |-> IF r.rows[k] # 0 THEN r.rows[k] ELSE @[k]]]

Takes(r) == r.kind = "snapshot" \/ srv[r.at].epoch = r.epoch
Asked == y.phase = "sending" /\ late[y.req.at] = NoReq
Quiet == UNCHANGED <<pass, fetch>>

\* Mutant: the cursor moves to where the store is when the answer comes.
AckedUpToNow(s, r) ==
  SetCursor(s, r.for, [epoch |-> IF r.kind = "snapshot" THEN r.epoch ELSE s.cursor[r.for].epoch,
                       acked |-> s.rev, state |-> "incremental"])

Acked(s, r) ==
  SetCursor(s, r.for, [epoch |-> IF r.kind = "snapshot" THEN r.epoch ELSE s.cursor[r.for].epoch,
                       acked |-> r.to, state |-> "incremental"])

Acknowledged ==
  LET r == y.req IN
  /\ Asked /\ Takes(r)
  /\ srv' = [srv EXCEPT ![r.at] = Applied(@, r)]
  /\ db' = Acked(db, r)
  /\ y' = Idle([y EXCEPT !.bound = IF r.kind = "rows" THEN BatchMaxRows ELSE @])
  /\ misled' = IF r.kind # "snapshot" THEN misled
               ELSE IF r.at # r.for THEN misled \cup {r.for} ELSE misled \ {r.for}
  /\ skipped' = IF r.kind = "snapshot" THEN [skipped EXCEPT ![r.for] = {}] ELSE skipped
  /\ UNCHANGED <<late, spent>> /\ Quiet

\* A refused connection, a lost answer, a 500: whatever became of the request,
\* the loop only knows it failed.
AnswerLost(arrived) ==
  LET r == y.req IN
  /\ Asked /\ Failed
  /\ srv' = IF arrived THEN [srv EXCEPT ![r.at] = Applied(@, r)] ELSE srv
  /\ db' = RecordError(db, r.for)
  /\ y' = Idle(y)
  /\ UNCHANGED <<late, misled, skipped>> /\ Quiet

TimesOut ==
  /\ Asked /\ Failed
  /\ late' = [late EXCEPT ![y.req.at] = y.req]
  /\ db' = RecordError(db, y.req.for)
  /\ y' = Idle(y)
  /\ UNCHANGED <<srv, misled, skipped>> /\ Quiet

\* The server catches up with a request nobody waits for.
CatchesUp(s) ==
  /\ late[s] # NoReq
  /\ srv' = [srv EXCEPT ![s] = Applied(@, late[s])]
  /\ late' = [late EXCEPT ![s] = NoReq]
  /\ UNCHANGED <<db, y, misled, skipped, spent>> /\ Quiet

\* NAVDATA_BUSY is no failure of the code and moves nothing.
Busy ==
  /\ y.phase = "sending" /\ late[y.req.at] # NoReq /\ Failed
  /\ y' = Idle(y)
  /\ UNCHANGED <<db, srv, late, misled, skipped>> /\ Quiet

Mismatch ==
  /\ Asked /\ ~Takes(y.req)
  /\ db' = SetCursor(db, y.req.for,
                     [db.cursor[y.req.for] EXCEPT !.state = "resync-required", !.acked = 0])
  /\ y' = Idle(y)
  /\ Elsewhere

OneRev(r) == \A k \in Keys : r.rows[k] \in {0, r.to}
CarriedBy(r) == {k \in Keys : r.rows[k] # 0}
SizeOfBatch(r) == Cardinality(CarriedBy(r))

\* A batch of one transaction cannot be halved and is stepped over.
TooLarge ==
  LET r == y.req IN
  /\ Asked /\ r.kind = "rows" /\ Takes(r) /\ Failed
  /\ IF OneRev(r)
     THEN /\ db' = SetCursor(db, r.for, [db.cursor[r.for] EXCEPT !.acked = r.to, !.state = "incremental"])
          /\ skipped' = [skipped EXCEPT ![r.for] = @ \cup {<<k, r.to>> : k \in CarriedBy(r)}]
          /\ y' = Idle(y)
     ELSE /\ y' = Idle([y EXCEPT !.bound = IF SizeOfBatch(r) < 4 THEN 1 ELSE SizeOfBatch(r) \div 2])
          /\ UNCHANGED <<db, skipped>>
  /\ UNCHANGED <<srv, late, misled>> /\ Quiet

\* Two versions of the schema need a human: the loop goes off for good.
Unsupported ==
  /\ Asked /\ Failed
  /\ db' = SetCursor(db, y.req.for, [db.cursor[y.req.for] EXCEPT !.state = "failed"])
  /\ y' = Idle([y EXCEPT !.latched = TRUE])
  /\ UNCHANGED <<srv, late, misled, skipped>> /\ Quiet

\* Another client uploads its own navdata, with airports and fixes in it.
Foreign == -1
ReplicaReplaced(s) ==
  /\ srv[s].epoch # Foreign /\ late[s] = NoReq /\ Failed
  /\ srv' = [srv EXCEPT ![s] = [epoch |-> Foreign,
                               rows |-> [k \in Keys |-> IF k \in Facilities THEN Foreign ELSE 0]]]
  /\ UNCHANGED <<db, y, late, misled, skipped>> /\ Quiet

(***************************************************************************)
(* What the service calls, the clock, and the process.                     *)
(***************************************************************************)
Start ==
  /\ ~y.running
  /\ y' = Schedule([y EXCEPT !.running = TRUE])
  /\ UNCHANGED db /\ Elsewhere

Stop ==
  /\ y.running /\ Spend("switches", MaxSwitches)
  /\ y' = [y EXCEPT !.running = FALSE, !.timer = FALSE]
  /\ UNCHANGED <<db, srv, late, misled, skipped>> /\ Quiet

OnConfigApplied(s) ==
  LET l == [y EXCEPT !.server = s, !.limited = FALSE, !.scanned = -1, !.bound = BatchMaxRows] IN
  /\ Spend("switches", MaxSwitches)
  /\ y' = IF y.running THEN Schedule(l) ELSE l
  /\ UNCHANGED <<db, srv, late, misled, skipped>> /\ Quiet

IntervalPasses ==
  /\ y.limited
  /\ y' = [y EXCEPT !.limited = FALSE]
  /\ UNCHANGED db /\ Elsewhere

\* The process dies, the pass and the fetch with it, and a request may still
\* arrive.  Its successor opens the same store.
Crash(arrives) ==
  /\ Spend("crashes", MaxCrashes)
  /\ db' = ResetPendingDetail(db)
  /\ pass' = Ended /\ fetch' = NoFetch
  /\ y' = InitLoop(y.server)
  /\ late' = IF y.phase = "sending" /\ arrives /\ late[y.req.at] = NoReq
             THEN [late EXCEPT ![y.req.at] = y.req] ELSE late
  /\ UNCHANGED <<srv, misled, skipped>>

Ticks == TickIsIdle \/ TickWaits \/ TickExports \/ TickSends
Answers ==
  Acknowledged \/ (\E b \in BOOLEAN : AnswerLost(b)) \/ TimesOut \/ Busy \/ Mismatch \/ TooLarge \/ Unsupported

Next ==
  \/ StoreSteps /\ UNCHANGED <<y, srv, late, misled, skipped>>
  \/ Ticks \/ ExportFails \/ ExportSent \/ Answers
  \/ \E s \in Servers : CatchesUp(s) \/ ReplicaReplaced(s) \/ OnConfigApplied(s)
  \/ Start \/ Stop \/ IntervalPasses
  \/ \E arrives \in BOOLEAN : Crash(arrives)

Spec == Init /\ [][Next]_vars

\* Timers fire, exports and requests end, servers catch up.
Liveness ==
  /\ WF_vars(Ticks) /\ WF_vars(ExportFails \/ ExportSent) /\ WF_vars(Answers)
  /\ WF_vars(IntervalPasses) /\ \A s \in Servers : WF_vars(CatchesUp(s))

FairSpec == Spec /\ Liveness

(***************************************************************************)
(* Properties.                                                             *)
(***************************************************************************)
Held(s, to) ==
  \A k \in Keys : db.row[k] \in 1..to /\ <<k, db.row[k]>> \notin skipped[s]
                    => srv[s].rows[k] = db.row[k]

\* What the cursor says a server holds it holds, row for row and in its current
\* version, through retries, late and lost answers, mints and crashes: a row
\* below the cursor is never sent again.  Rows stepped over as too large are
\* the exception the code names, and a server whose cursor was moved by
\* another's answer the one the run sync_misled is about.
AckedRowsAreHeld ==
  \A s \in Servers \ misled :
    LET cursor == db.cursor[s] IN
    cursor.state = "incremental" /\ cursor.epoch = db.epoch /\ srv[s].epoch = db.epoch
      => Held(s, cursor.acked)

\* The same of every server (navdata-sync.ts:18: the cursor is keyed by server
\* URL, and pointing the client elsewhere invalidates what was acknowledged).
CursorIsItsServers ==
  \A s \in Servers :
    LET cursor == db.cursor[s] IN
    cursor.state = "incremental" /\ cursor.epoch = db.epoch /\ srv[s].epoch = db.epoch
      => Held(s, cursor.acked)

\* A replica that can draw something is never replaced by one that cannot.
NeverResetToEmpty ==
  [][\A s \in Servers :
       (\E k \in Facilities : srv[s].rows[k] # 0) /\ srv'[s].epoch # 0
         => \E k \in Facilities : srv'[s].rows[k] # 0]_vars

\* The stamp a snapshot carries to say its airports are the whole world is true
\* of the list read last, whenever the snapshot is taken (navdata-export.ts:106).
IndexIsWhole == db.stamp => pass.list \subseteq Stored(db)

\* 'pending' means a request is out with the simulator right now
\* (navdata-store.ts): no path, and no crash, leaves a row that looks busy for
\* ever and is never fetched again.
PendingIsInFlight == \A a \in Airports : db.detail[a] = "pending" => fetch.of = a

\* What the store says of itself survives crashes and half-done passes: a stamp
\* that claims the whole index and a row that claims to be in flight are true.
StoreTellsTheTruth == IndexIsWhole /\ PendingIsInFlight

\* An epoch minted because airports vanished makes the replica lose their rows
\* (navdata-bulk.ts:268: the only way to make the replica lose a row is to mint
\* a new epoch and let a snapshot replace it wholesale).
VanishedRowsAreLost ==
  \A s \in Servers, a \in Airports :
    srv[s].epoch = db.epoch /\ db.epoch > 1 /\ db.stamp /\ srv[s].rows[<<"airport", a>>] # 0
      => a \in pass.list

\* A server in use ends up with everything: once writes, faults and config
\* changes are over the loop does not rest before its replica is the store.  That
\* a replica was replaced shows when the next row is refused, and not before.
UpToDate ==
  LET s == y.server IN
  \/ ~y.running \/ y.latched \/ ~HasFacilityRows(db) \/ s \in misled
  \/ srv[s].epoch = db.epoch /\ Held(s, db.rev)
  \/ srv[s].epoch \in {0, Foreign} /\ \A k \in Keys : db.row[k] <= db.cursor[s].acked

Converges == []<>UpToDate
================================================================================
