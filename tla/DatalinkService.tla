--------------------------- MODULE DatalinkService ---------------------------
(***************************************************************************)
(* DatalinkService (sidecar/src/datalink-service.ts): the watch lease, the *)
(* poll cycle, the invalid-token latch, the scope and the thread shown for *)
(* it, and the leg prefiled from SimBrief.                                 *)
(*                                                                         *)
(* The code is single threaded; what interleaves is everything awaited: up *)
(* to three requests in a row of the one poll cycle, the requests of the   *)
(* user's ops, config reloads, the poll timer and the lease running out.   *)
(* One step is the code between two awaits.  A request's answer is one of  *)
(* the classes the classifiers tell apart; durations, backoff delays and   *)
(* the rows of a thread (its epochs and windows) are left out.             *)
(***************************************************************************)
EXTENDS Naturals

CONSTANTS
  Configs,   \* a server and a token: what a valid config file may name
  Legs,      \* planned legs
  Slots,     \* requests of user ops that may be in flight at once
  OpKinds,   \* the kinds of op the user presses
  None       \* no leg, no config, no thread

ASSUME NoneAssumption == None \notin Configs \cup Legs \cup {"flight"}
ASSUME KindAssumption ==
  OpKinds \subseteq {"canned", "quiet", "write", "clearance", "si", "prefile"}

VARIABLES
  cfg,        \* the config the uplink holds, None before the first valid one
  hasConfig,  \* deps.hasConfig()
  watching,
  leased,     \* now < leaseUntil
  timer,      \* the poll timer is set
  cycle,      \* the poll cycle in flight: where it awaits and what it resolved
  rerun,      \* rerunAfterCycle
  state,      \* the availability axis; "fault" stands for every failure but the two named
  latched,
  scope,      \* the published scope, Unknown for null
  cache,      \* the key of the cached thread, or None
  prefiled,   \* the held leg and the config it was asked under
  ops,        \* ops[s] : the op request in flight in slot s
  busy,       \* the single-flight flags: prefile, clearance and si
  owed,       \* a write has been answered and no cycle has started since (history)
  down        \* shuttingDown

configVars == <<cfg, hasConfig>>
pollVars   == <<watching, timer, cycle, rerun, owed>>
shownVars  == <<scope, cache, prefiled>>
opVars     == <<ops, busy>>
vars == <<configVars, pollVars, leased, state, latched, shownVars, opVars, down>>

\* Scopes and selections.
Unknown == [kind |-> "unknown", leg |-> None, source |-> "none"]
NoScope == [kind |-> "none", leg |-> None, source |-> "none"]
Flight  == [kind |-> "flight", leg |-> None, source |-> "none"]
Leg(l, from) == [kind |-> "leg", leg |-> l, source |-> from]
LegScopes == {Leg(l, from) : l \in Legs, from \in {"status", "ground-session", "prefile"}}

\* scopeKey
Key(s) == IF s.kind = "flight" THEN "flight" ELSE s.leg

NoCycle == [at |-> "none", took |-> None, sel |-> Unknown]
Cycles ==
  [at : {"none", "status", "ground", "thread"}, took : Legs \cup {None},
   sel : {Unknown, Flight} \cup LegScopes]
InFlight == cycle.at # "none"

NoPrefile == [leg |-> None, cfg |-> None]
Free == [kind |-> "free", leg |-> None, cfg |-> None]
SingleFlight == {"prefile", "clearance", "si"}

Init ==
  /\ cfg = None /\ hasConfig = FALSE
  /\ watching = FALSE /\ leased = FALSE /\ timer = FALSE
  /\ cycle = NoCycle /\ rerun = FALSE
  /\ state = "idle" /\ latched = FALSE
  /\ scope = Unknown /\ cache = None /\ prefiled = NoPrefile
  /\ ops = [s \in Slots |-> Free] /\ busy = {}
  /\ owed = FALSE /\ down = FALSE

-----------------------------------------------------------------------------
(* Pieces of the methods.  They read primed variables the caller has set.  *)

LeaseOverUnchecked == FALSE
LeaseOver == ~leased'

\* startCycle, with the watching flag, the poll timer and the cycle as its
\* caller leaves them: nothing starts unless polling is on and the lease lasts.
StartableLatched(w, current) == w /\ current.at = "none"
Startable(w, current) == w /\ current.at = "none" /\ ~latched'
StartCycle(w, t, current) ==
  \/ /\ ~Startable(w, current)
     /\ watching' = w /\ timer' = t /\ cycle' = current
     /\ owed' = (owed /\ w /\ ~latched' /\ hasConfig')
  \/ /\ Startable(w, current) /\ LeaseOver
     /\ watching' = FALSE /\ timer' = FALSE /\ cycle' = NoCycle /\ owed' = FALSE
  \/ /\ Startable(w, current) /\ ~LeaseOver
     /\ watching' = w /\ timer' = FALSE /\ owed' = FALSE
     /\ cycle' = IF hasConfig' THEN [NoCycle EXCEPT !.at = "status", !.took = prefiled'.leg]
                               ELSE NoCycle

\* What startCycle leaves shown: without a config it says that instead.
Reported(w, current, shown) ==
  IF Startable(w, current) /\ ~LeaseOver /\ ~hasConfig' THEN "no-config" ELSE shown

\* No cycle is asked for; a latch takes the timer with it.
NoStart ==
  /\ timer' = (timer /\ ~latched')
  /\ owed' = (owed /\ ~latched')
  /\ UNCHANGED <<watching, cycle, rerun>>

\* cycleSoon: now, or right after the cycle in flight.  `write` when a write
\* that landed, or may have, asks for it.
RerunForgotten == rerun
RerunAsked == TRUE
CycleSoon(write) ==
  \/ /\ ~watching \/ latched'
     /\ NoStart
  \/ /\ watching /\ ~latched' /\ InFlight
     /\ rerun' = RerunAsked
     /\ owed' = (owed \/ (write /\ hasConfig'))
     /\ UNCHANGED <<watching, timer, cycle>>
  \/ /\ watching /\ ~latched' /\ ~InFlight
     /\ StartCycle(watching, timer, cycle)
     /\ UNCHANGED rerun

\* dropPrefiled, on a scope and a thread key: both go with a prefile scope.
DropsScopeNever(s) == FALSE
DropsScope(s) == s.source = "prefile"
Dropped(sc, ca) ==
  /\ prefiled' = NoPrefile
  /\ scope' = IF DropsScope(sc) THEN Unknown ELSE sc
  /\ cache' = IF DropsScope(sc) THEN None ELSE ca

\* setLatch after a refused token: polling stops and the prefiled leg ends.
Latch(sc, ca) == latched' = TRUE /\ Dropped(sc, ca)

\* The end of runCycle and finishCycle, with what the cycle leaves of the
\* scope, the thread key and the prefiled leg: the result is shown unless a
\* refused token is to stay shown, the next poll is scheduled, and a rerun
\* asked for meanwhile starts at once.
ScheduledNever == FALSE
ScheduledAlways == watching
Scheduled == watching /\ ~latched'
Finish(result, sc, ca, pf, again) ==
  LET shown == IF result = "refused" THEN "token-invalid"
               ELSE IF latched THEN state
               ELSE IF result = "ok" THEN "ok" ELSE "fault"
  IN
  /\ UNCHANGED <<configVars, leased, opVars, down>>
  /\ IF result = "refused"
     THEN Latch(sc, ca)
     ELSE latched' = latched /\ scope' = sc /\ cache' = ca /\ prefiled' = pf
  /\ rerun' = FALSE
  /\ IF rerun \/ again
     THEN /\ StartCycle(watching, Scheduled, NoCycle)
          /\ state' = Reported(watching, NoCycle, shown)
     ELSE /\ cycle' = NoCycle /\ timer' = Scheduled /\ state' = shown
          /\ owed' = (owed /\ ~latched')
          /\ UNCHANGED watching

-----------------------------------------------------------------------------
(* The poll cycle: runCycle, one action per answer awaited.                *)

\* A scope is resolved: a thread of another scope is forgotten before this
\* scope's thread is asked for.
KeepsOldThread(sel, ca) == ca
Kept(sel, ca) == IF ca = Key(sel) THEN ca ELSE None
Resolve(sel, sc, ca, pf) ==
  /\ scope' = sc /\ cache' = Kept(sel, ca) /\ prefiled' = pf
  /\ cycle' = [cycle EXCEPT !.at = "thread", !.sel = sel]
  /\ UNCHANGED <<configVars, watching, timer, rerun, owed, leased, state, latched, opVars, down>>

\* GET /api/status answers: a flight outranks the prefiled leg and ends it, the
\* prefiled leg outranks the ground session's.
StatusAnswer ==
  /\ ~down /\ cycle.at = "status"
  /\ \/ \E result \in {"failed", "refused"} : Finish(result, scope, cache, prefiled, FALSE)
     \/ LET ends == cycle.took # None /\ prefiled.leg = cycle.took
            drops == ends /\ DropsScope(scope) IN
        Resolve(Flight, IF drops THEN Unknown ELSE scope, IF drops THEN None ELSE cache,
                IF ends THEN NoPrefile ELSE prefiled)
     \/ cycle.took # None /\ Resolve(Leg(cycle.took, "prefile"), scope, cache, prefiled)
     \/ cycle.took = None /\ \E l \in Legs : Resolve(Leg(l, "status"), scope, cache, prefiled)
     \/ /\ cycle.took = None
        /\ cycle' = [cycle EXCEPT !.at = "ground"]
        /\ UNCHANGED <<configVars, watching, timer, rerun, owed, leased, state, latched,
                       shownVars, opVars, down>>

\* GET /api/ground-sessions/current answers: a leg, or no scope at all.
GroundAnswer ==
  /\ ~down /\ cycle.at = "ground"
  /\ \/ \E result \in {"failed", "refused"} : Finish(result, scope, cache, prefiled, FALSE)
     \/ Finish("ok", NoScope, None, prefiled, FALSE)
     \/ \E l \in Legs : Resolve(Leg(l, "ground-session"), scope, cache, prefiled)

\* isStalePrefile: the leg was dropped, or replaced, while the cycle ran.
StaleNever(sel) == FALSE
Stale(sel) == sel.source = "prefile" /\ prefiled.leg # sel.leg

\* The thread answers.  A prefiled leg the server no longer has is dropped and
\* the scope resolved again at once; a stale one is not published.
ThreadAnswer ==
  /\ ~down /\ cycle.at = "thread"
  /\ LET sel == cycle.sel IN
     \/ /\ sel.source = "prefile" /\ prefiled.leg = sel.leg
        /\ Finish("failed", Unknown, None, NoPrefile, TRUE)
     \/ /\ Stale(sel)
        /\ \E result \in {"ok", "failed", "refused"} : Finish(result, Unknown, None, prefiled, FALSE)
     \/ /\ ~Stale(sel)
        /\ \E result \in {"failed", "refused"} : Finish(result, sel, cache, prefiled, FALSE)
     \/ /\ ~Stale(sel)
        /\ Finish("ok", sel, Key(sel), prefiled, FALSE)

-----------------------------------------------------------------------------
(* The lease, the timer and the ops that contact nobody.                   *)

\* renewLease and what follows it in watch and refresh.
Renew(starts) ==
  /\ leased' = TRUE
  /\ UNCHANGED <<configVars, rerun, latched, shownVars, opVars, down>>
  /\ IF starts
     THEN /\ StartCycle(TRUE, timer, cycle)
          /\ state' = Reported(TRUE, cycle, IF ~watching /\ state = "idle" THEN "pending" ELSE state)
     ELSE UNCHANGED <<watching, timer, state, cycle, owed>>

WatchOn == ~down /\ Renew(~watching)

Refresh == ~down /\ Renew(~watching \/ (hasConfig /\ ~latched))

WatchOff ==
  /\ ~down
  /\ leased' = FALSE /\ timer' = FALSE /\ watching' = FALSE /\ owed' = FALSE
  /\ UNCHANGED <<configVars, cycle, rerun, state, latched, shownVars, opVars, down>>

\* The lease runs out; nothing happens until somebody looks.
LeaseLapses ==
  /\ leased
  /\ leased' = FALSE
  /\ UNCHANGED <<configVars, pollVars, state, latched, shownVars, opVars, down>>

OnTimer ==
  /\ timer /\ ~down
  /\ UNCHANGED <<configVars, leased, rerun, latched, shownVars, opVars, down>>
  /\ IF LeaseOver
     THEN watching' = FALSE /\ timer' = FALSE /\ owed' = FALSE /\ UNCHANGED <<state, cycle>>
     ELSE /\ StartCycle(watching, FALSE, cycle)
          /\ state' = Reported(watching, cycle, state)

PrefileClear ==
  /\ ~down
  /\ prefiled # NoPrefile
  /\ Dropped(scope, cache)
  /\ UNCHANGED <<configVars, leased, latched, opVars, down>>
  /\ CycleSoon(FALSE) /\ state' = Reported(watching, cycle, state)

-----------------------------------------------------------------------------
(* The ops that make a request.                                            *)

SendUnconfigured(kind) == ~latched /\ kind \notin busy
SendUnguarded(kind) == hasConfig /\ ~latched
MaySend(kind) == hasConfig /\ ~latched /\ kind \notin busy

\* The request goes out; refusals change nothing.  A prefile takes the config
\* of this moment along.
Send(s, kind, leg) ==
  /\ ~down
  /\ ops[s] = Free
  /\ MaySend(kind)
  /\ kind \in {"canned", "quiet", "prefile"} => leg = None
  /\ kind = "clearance" => leg # None
  /\ ops' = [ops EXCEPT ![s] = [kind |-> kind, leg |-> leg,
                                cfg |-> IF kind = "prefile" THEN cfg ELSE None]]
  /\ busy' = busy \cup ({kind} \cap SingleFlight)
  /\ UNCHANGED <<configVars, pollVars, leased, state, latched, shownVars, down>>

\* An answer arrives while the service lives: its slot and its flag are free again.
Answers(s, kinds) ==
  /\ ~down
  /\ ops[s].kind \in kinds
  /\ ops' = [ops EXCEPT ![s] = Free]
  /\ busy' = busy \ {ops[s].kind}
  /\ UNCHANGED <<configVars, leased, down>>

Unlatched == UNCHANGED latched
NotDropped == UNCHANGED shownVars

\* Any op: the token is refused.
OpRefused(s) ==
  /\ Answers(s, OpKinds)
  /\ Latch(scope, cache)
  /\ NoStart /\ state' = "token-invalid"

\* canned-list, simbrief-settings, si-status, or an answer that changes nothing.
OpChangesNothing(s) ==
  /\ Answers(s, OpKinds)
  /\ Unlatched /\ NotDropped
  /\ UNCHANGED <<pollVars, state>>

\* canned-list, send-canned, wx and loadsheet: a failure that says something
\* about the server is shown, latched or not.  No answer at all to a write, or
\* an unreadable one, is followed by a cycle too, before or after it is shown.
OpFails(s) ==
  /\ Answers(s, {"canned", "write"})
  /\ Unlatched /\ NotDropped
  /\ \/ NoStart /\ state' = "fault"
     \/ /\ ops[s].kind = "write"
        /\ CycleSoon(TRUE) /\ state' \in {"fault", Reported(watching, cycle, "fault")}

\* A write, a clearance or a SayIntentions action landed or may have: a cycle follows.
OpLands(s) ==
  /\ Answers(s, {"write", "clearance", "si"})
  /\ Unlatched /\ NotDropped
  /\ CycleSoon(TRUE) /\ state' = Reported(watching, cycle, state)

\* The flight or leg it was aimed at has gone, a prefiled leg with it.
OpTargetGone(s) ==
  /\ Answers(s, OpKinds \ {"prefile"})
  /\ Unlatched
  /\ IF ops[s].leg # None /\ ops[s].leg = prefiled.leg THEN Dropped(scope, cache) ELSE NotDropped
  /\ CycleSoon(FALSE) /\ state' = Reported(watching, cycle, state)

\* The prefile made, or found, a leg: held from now on.
PrefileLands(s, leg) ==
  /\ Answers(s, {"prefile"})
  /\ Unlatched
  /\ prefiled' = [leg |-> leg, cfg |-> ops[s].cfg]
  /\ UNCHANGED <<scope, cache>>
  /\ CycleSoon(FALSE) /\ state' = Reported(watching, cycle, state)

-----------------------------------------------------------------------------
(* The sidecar around it (index.ts applyConfig, shutdown).                 *)

\* A valid file is loaded: a leg of another server or token is dropped, the
\* latch is lifted and polling resumes.
Foreign(new) == prefiled # NoPrefile /\ prefiled.cfg # new
ConfigApplied(new) ==
  /\ ~down
  /\ cfg' = new /\ hasConfig' = TRUE /\ latched' = FALSE
  /\ IF Foreign(new) THEN Dropped(scope, cache) ELSE NotDropped
  /\ UNCHANGED <<leased, opVars, down>>
  /\ LET shown == IF state \in {"token-invalid", "no-config"}
                  THEN IF watching THEN "pending" ELSE "idle"
                  ELSE state IN
     IF watching /\ InFlight
     THEN rerun' = TRUE /\ state' = shown /\ UNCHANGED <<watching, timer, cycle, owed>>
     ELSE /\ StartCycle(watching, timer, cycle) /\ UNCHANGED rerun
          /\ state' = Reported(watching, cycle, shown)

\* An unusable file: with the uplink running the old config stays, else there is none.
ConfigRejected ==
  /\ ~down
  /\ hasConfig' \in {hasConfig, FALSE}
  /\ owed' = (owed /\ hasConfig')
  /\ UNCHANGED <<cfg, watching, timer, cycle, rerun, leased, state, latched, shownVars,
                 opVars, down>>

\* shutdown: the timer goes and every request is aborted.
Shutdown ==
  /\ ~down
  /\ down' = TRUE /\ timer' = FALSE /\ owed' = FALSE
  /\ UNCHANGED <<configVars, watching, cycle, rerun, leased, state, latched, shownVars, opVars>>

\* An aborted request returns and nothing is done with it.
Aborted ==
  /\ down
  /\ \/ InFlight /\ cycle' = NoCycle /\ UNCHANGED opVars
     \/ \E s \in Slots :
          /\ ops[s] # Free
          /\ ops' = [ops EXCEPT ![s] = Free] /\ busy' = busy \ {ops[s].kind}
          /\ UNCHANGED cycle
  /\ UNCHANGED <<configVars, watching, timer, rerun, owed, leased, state, latched, shownVars, down>>

-----------------------------------------------------------------------------
CycleAnswer == StatusAnswer \/ GroundAnswer \/ ThreadAnswer

OpAnswer(s) ==
  \/ OpRefused(s) \/ OpChangesNothing(s) \/ OpFails(s) \/ OpLands(s) \/ OpTargetGone(s)
  \/ \E leg \in Legs : PrefileLands(s, leg)

Next ==
  \/ CycleAnswer
  \/ \E s \in Slots : OpAnswer(s)
  \/ \E s \in Slots, kind \in OpKinds, leg \in Legs \cup {None} : Send(s, kind, leg)
  \/ WatchOn \/ WatchOff \/ Refresh \/ LeaseLapses \/ OnTimer \/ PrefileClear
  \/ \E new \in Configs : ConfigApplied(new)
  \/ ConfigRejected
  \/ Shutdown \/ Aborted

Spec == Init /\ [][Next]_vars

-----------------------------------------------------------------------------
(* Properties                                                              *)

States == {"idle", "pending", "ok", "no-config", "token-invalid", "fault"}

TypeOK ==
  /\ cfg \in Configs \cup {None} /\ hasConfig \in BOOLEAN /\ (hasConfig => cfg # None)
  /\ watching \in BOOLEAN /\ leased \in BOOLEAN /\ timer \in BOOLEAN
  /\ cycle \in Cycles /\ rerun \in BOOLEAN
  /\ state \in States /\ latched \in BOOLEAN
  /\ scope \in {Unknown, NoScope, Flight} \cup LegScopes
  /\ cache \in Legs \cup {None, "flight"}
  /\ prefiled \in [leg : Legs, cfg : Configs] \cup {NoPrefile}
  /\ ops \in [Slots -> [kind : OpKinds \cup {"free"}, leg : Legs \cup {None},
                        cfg : Configs \cup {None}]]
  /\ \A s \in Slots : ops[s].kind = "prefile" => ops[s].cfg # None
  /\ busy \subseteq SingleFlight
  /\ owed \in BOOLEAN /\ down \in BOOLEAN

\* Polling never stalls: while pages watch and nothing forbids it, a cycle is
\* in flight or the next one is scheduled, whatever reloads, ops and lapses of
\* the lease came in between.
NeverStalls == (watching /\ hasConfig /\ ~latched /\ ~down) => InFlight \/ timer

\* The poll timer never runs for nobody, on a refused token or beside a cycle.
PollsOnlyWatched == timer => watching /\ ~latched /\ ~InFlight /\ ~down

\* After a write that landed or may have, a cycle that started later is due.
WriteIsFollowedUp == owed => InFlight /\ rerun

\* All three together: the poll runs exactly while somebody watches, and what a
\* write changed is asked for (datalink-service.ts 342-380, 504-536).
PollsWhileWatched == NeverStalls /\ PollsOnlyWatched /\ WriteIsFollowedUp

\* A leg is shown as prefiled only while a prefiled leg is held: no write can
\* be aimed at a leg that was dropped.
PrefileScopeIsHeld == scope.source = "prefile" => prefiled # NoPrefile

\* "A thread from the old scope is never shown under a new scope line."
ThreadMatchesScope == cache # None => cache = Key(scope)

\* Both together: the scope line tells the truth of what stands under it.
ScopeLineIsTrue == PrefileScopeIsHeld /\ ThreadMatchesScope

\* At most one request of each guarded kind is open, and its flag is up as
\* long as it is: "a second press can never reach the server".
OneOfEachWrite ==
  \A kind \in SingleFlight :
    /\ \A s, t \in Slots : ops[s].kind = kind /\ ops[t].kind = kind => s = t
    /\ kind \in busy <=> \E s \in Slots : ops[s].kind = kind

\* What a cycle still awaits: each request that goes out brings it one closer
\* to its end.
AwaitsLeft == [thread |-> 1, ground |-> 2, status |-> 3, none |-> 0]

\* From the step that learns of a refused token until a valid config is loaded
\* no op sends anything and no cycle starts, the one an earlier write or reload
\* had asked for included.  Only the cycle in flight goes on, and only forward:
\* it has at most two GETs left to send (datalink-service.ts 391-438).
RefusalStopsRequests ==
  [][ latched' =>
        /\ cycle' \in {cycle, NoCycle} \/ AwaitsLeft[cycle'.at] < AwaitsLeft[cycle.at]
        /\ \A s \in Slots : ops[s] = Free => ops'[s] = Free ]_vars

\* "A wrong token stops every request until the config is reloaded"
\* (datalink-service.ts 12-13).  It does not: an op learns of the refusal while
\* a cycle is in flight, and the cycle sends its next GET under that token.
RefusalStopsEverything ==
  [][ latched /\ latched' => cycle'.at \in {cycle.at, "none"} ]_vars

\* "There is no background polling": whatever asks for it, a cycle starts only
\* while a page holds the lease.
NoBackgroundPolling ==
  [][ cycle'.at = "status" /\ cycle' # cycle => leased' ]_vars

\* Both together: whichever of the calls in flight brought the refusal, nothing
\* but the rest of the cycle in flight follows it, and there is no poll without
\* the lease (datalink-service.ts 265-300, 342-363).
RequestsAreWanted == RefusalStopsRequests /\ NoBackgroundPolling

\* While the latch holds, "the state must keep saying why" (datalink-service.ts).
LatchSaysWhy == (latched /\ ~down) => state = "token-invalid"

\* The prefiled leg is dropped on "a server/token change" (data-model.md).
PrefileIsOfThisConfig == prefiled # NoPrefile => prefiled.cfg = cfg
=============================================================================
