----------------------------- MODULE ThreadView -----------------------------
(***************************************************************************)
(* The ACARS thread as the panel reads it: the sidecar keeps the thread    *)
(* and hands it out in windows, the panel holds a cache of rows keyed by   *)
(* the sidecar's epoch, and the lease that lets the sidecar poll follows   *)
(* the pages (datalink-session.js, datalink-pages.js, app.js, and          *)
(* storeThread, thread and watch of datalink-service.ts).                  *)
(*                                                                         *)
(* Three parties run side by side.  The server's thread changes on its     *)
(* own.  The sidecar polls it and emits states, which reach the panel in   *)
(* order.  The panel is one thread of control: an action is what it does   *)
(* between two awaits.  Its watch calls run on threads of their own, so    *)
(* they are served in any order, and one that no sidecar had been given    *)
(* when it died is served by the next.                                     *)
(***************************************************************************)
EXTENDS Integers, SequencesExt

CONSTANTS
  Keys,           \* the scopes a thread may belong to
  PageSize,       \* THREAD_PAGE_SIZE
  Window,         \* the most messages an answer carries
  KeptMax,        \* THREAD_CACHE_MAX_MESSAGES: rows the sidecar keeps
  CacheMax,       \* THREAD_CACHE_MAX: rows the panel keeps
  Rounds,         \* FETCH_ROUNDS_MAX
  InitialRows,    \* the length of the first thread
  MaxEvents,      \* bound: states on their way to the panel
  Budgets         \* bound: how many mishaps (changes at the server, deaths, polls and
                  \* fetches that fail) and keys pressed a behaviour may have

ASSUME ThreadSizes ==
  /\ PageSize \in Nat \ {0} /\ Window \in Nat \ {0} /\ Rounds \in Nat \ {0}
  /\ KeptMax \in Nat \ {0} /\ CacheMax \in Nat /\ CacheMax >= PageSize
  /\ InitialRows \in Nat /\ Keys # {}

VARIABLES
  server,    \* the scope in force and the thread of each scope, by message id
  sc,        \* the sidecar: lease, poll cycle and the thread it keeps
  events,    \* the states it emitted that the panel has not heard
  calls,     \* the watch calls that are out: TRUE takes the lease, FALSE ends it
  page,      \* the page on screen
  v,         \* the panel's session: lease timer, cache, shown page, fetch loop
  left       \* what remains of the budget

threadVars == <<server, sc, events, calls, page, v, left>>

NoScope == "no flight plan"
DlPages == {"DL-INDEX", "DL-THREAD", "DL-MSG"}

-----------------------------------------------------------------------------
(* The sidecar's side. *)

NoThread == [epoch |-> 0, total |-> 0, first |-> 0]
NoCache == [key |-> NoScope, epoch |-> 0, total |-> 0, first |-> 0, rows |-> << >>, life |-> 0]
NoTarget == "not resolved"

\* Fresh: what a sidecar that has just started holds.
Fresh(life) ==
  [up |-> TRUE, watching |-> FALSE, cycle |-> "none", target |-> NoTarget, planned |-> TRUE,
   cache |-> NoCache, epochs |-> 0, life |-> life]

StateOf(s) ==
  [watching |-> s.watching, usable |-> s.up, planned |-> s.planned, life |-> s.life,
   thread |-> [epoch |-> s.cache.epoch, total |-> s.cache.total, first |-> s.cache.first]]

AppendedByLength(old, key, rows, first) ==
  old.epoch # 0 /\ old.key = key /\ Len(rows) >= old.total
\* storeThread: the epoch lives on only when the new thread is the old one
\* with rows appended, so that a sequence number still names its message.
Appended(old, key, rows, first) ==
  /\ old.epoch # 0 /\ old.key = key /\ Len(rows) >= old.total
  /\ \A s \in Max({old.first, first}) .. (old.total - 1) : old.rows[s] = rows[s + 1]

StoreThread(s, key, rows) ==
  LET first == Max({0, Len(rows) - KeptMax})
      epoch == IF Appended(s.cache, key, rows, first) THEN s.cache.epoch ELSE s.epochs + 1
  IN  [s EXCEPT !.epochs = Max({@, epoch}),
                !.cache = [key |-> key, epoch |-> epoch, total |-> Len(rows), first |-> first,
                           rows |-> [q \in first .. (Len(rows) - 1) |-> rows[q + 1]],
                           life |-> s.life]]

\* emit: a state leaves for the panel.
Emit(s) ==
  /\ Len(events) < MaxEvents
  /\ sc' = s
  /\ events' = Append(events, StateOf(s))

Mishap == left.mishaps > 0 /\ left' = [left EXCEPT !.mishaps = @ - 1]

\* The server: another client, the user's flight or its dispatcher.
Changed(key, rows) ==
  /\ Mishap
  /\ server' = [server EXCEPT !.rows[key] = rows, !.ids = @ + 1]
  /\ UNCHANGED <<sc, events, calls, page, v>>

MessageArrives(k) == Changed(k, Append(server.rows[k], server.ids + 1))
MessageDeleted(k) == \E i \in DOMAIN server.rows[k] : Changed(k, RemoveAt(server.rows[k], i))
ScopeMoves(k) ==
  /\ k # server.key /\ Mishap
  /\ server' = [server EXCEPT !.key = k]
  /\ UNCHANGED <<sc, events, calls, page, v>>

\* A poll is due: the timer, while the lease is held.  It is seconds away, a
\* state on its way to the panel is not.
PollDue ==
  /\ sc.up /\ sc.watching /\ sc.cycle = "none" /\ events = << >>
  /\ sc' = [sc EXCEPT !.cycle = "status"]
  /\ UNCHANGED <<server, events, calls, page, v, left>>

\* Three renewals fit in a lease: it runs out only when nobody renews it.
LeaseExpires ==
  /\ sc.up /\ sc.watching /\ ~v.renew
  /\ Emit([sc EXCEPT !.watching = FALSE])
  /\ UNCHANGED <<server, calls, page, v, left>>

\* The status answer names the scope; a thread of another scope is dropped
\* before the new one is asked for.
ScopeResolved ==
  /\ sc.cycle = "status" /\ server.key # NoScope
  /\ sc' = [sc EXCEPT !.cycle = "thread", !.target = server.key,
                      !.cache = IF @.key = server.key THEN @ ELSE NoCache]
  /\ UNCHANGED <<server, events, calls, page, v, left>>

CycleDone(s) == Emit([s EXCEPT !.cycle = "none", !.target = NoTarget])

NoFlightPlan ==
  /\ sc.cycle = "status" /\ server.key = NoScope
  /\ CycleDone([sc EXCEPT !.cache = NoCache, !.planned = FALSE])
  /\ UNCHANGED <<server, calls, page, v, left>>

ThreadStored ==
  /\ sc.cycle = "thread"
  /\ CycleDone([StoreThread(sc, sc.target, server.rows[sc.target]) EXCEPT !.planned = TRUE])
  /\ UNCHANGED <<server, calls, page, v, left>>

PollFails ==
  /\ sc.cycle # "none" /\ Mishap
  /\ CycleDone([sc EXCEPT !.planned = @ \/ sc.cycle = "thread"])
  /\ UNCHANGED <<server, calls, page, v>>

\* watch: taking the lease starts a cycle at once; ending it lets the cycle in
\* flight run on.
WatchServed(on) ==
  /\ on \in calls /\ sc.up
  /\ calls' = calls \ {on}
  /\ IF on /\ sc.watching THEN UNCHANGED <<sc, events>>
     ELSE Emit([sc EXCEPT !.watching = on,
                          !.cycle = IF on /\ @ = "none" THEN "status" ELSE @])
  /\ UNCHANGED <<server, page, v, left>>

WatchRefused(on) ==
  /\ on \in calls /\ ~sc.up
  /\ calls' = calls \ {on}
  /\ UNCHANGED <<server, sc, events, page, v, left>>

SidecarDies ==
  /\ sc.up /\ Mishap
  /\ Emit([Fresh(sc.life) EXCEPT !.up = FALSE])
  /\ UNCHANGED <<server, calls, page, v>>

SidecarStarts ==
  /\ ~sc.up
  /\ Emit(Fresh(sc.life + 1))
  /\ UNCHANGED <<server, calls, page, v, left>>

-----------------------------------------------------------------------------
(* The panel's side: operators on the session's record w. *)

Idle == [at |-> "idle", same |-> TRUE, round |-> 0, epoch |-> 0, end |-> 0]
NoReply == [kind |-> "none", first |-> 0, rows |-> << >>]

PageCount(w) == Max({1, (w.cache.total + PageSize - 1) \div PageSize})
Clamped(w) == [w EXCEPT !.at = Max({1, Min({@, PageCount(w)})})]
Newest(w) == [w EXCEPT !.at = PageCount(w), !.follow = TRUE]

\* clearCache; a fetch that is out no longer has its cache to come back to.
Cleared(w) ==
  [w EXCEPT !.cache = NoCache, !.at = 1, !.follow = TRUE, !.fetch.same = FALSE]

\* adoptThread
AdoptThread(w, t, life) ==
  IF t.epoch = 0 THEN Cleared(w)
  ELSE IF w.cache.epoch # t.epoch
  THEN Newest([Cleared(w) EXCEPT !.cache = [NoCache EXCEPT !.epoch = t.epoch, !.total = t.total,
                                                           !.first = t.first, !.life = life]])
  ELSE LET kept == [w EXCEPT !.cache.first = Max({@, t.first}), !.cache.total = t.total,
                             !.cache.rows = Restrict(@, {q \in DOMAIN @ : q < t.total})]
       IN  IF t.total = w.cache.total THEN kept
           ELSE IF w.follow THEN Newest(kept) ELSE Clamped(kept)

\* The rows of the visible range that are not held.
Missing(w) ==
  {q \in Max({w.lo, w.cache.first}) .. (Min({w.hi, w.cache.total}) - 1) : q \notin DOMAIN w.cache.rows}

Ask(w, round) ==
  [w EXCEPT !.fetch = [at |-> "out", same |-> TRUE, round |-> round, epoch |-> w.cache.epoch,
                       end |-> Max(Missing(w)) + 1]]

\* runRounds from its first round; loadRange runs it again when asked meanwhile.
RunRounds(w) ==
  IF w.cache.epoch # 0 /\ Missing(w) # {} THEN Ask(w, 1) ELSE [w EXCEPT !.fetch = Idle]
Finished(w) ==
  IF w.rerun THEN RunRounds([w EXCEPT !.rerun = FALSE]) ELSE [w EXCEPT !.fetch = Idle]
NextRound(w) ==
  IF w.fetch.round < Rounds /\ Missing(w) # {} THEN Ask(w, w.fetch.round + 1) ELSE Finished(w)

LoadRange(w, lo, hi) ==
  LET seen == [w EXCEPT !.lo = lo, !.hi = hi]
  IN  IF w.fetch.at = "idle" THEN RunRounds([seen EXCEPT !.rerun = FALSE])
      ELSE [seen EXCEPT !.rerun = TRUE]

LoadVisibleThread(w) ==
  LET c == Clamped(w)
      lo == (c.at - 1) * PageSize
  IN  LoadRange(c, lo, IF c.cache.epoch = 0 THEN lo ELSE Min({lo + PageSize, c.cache.total}))

\* afterThreadChange; DL-MSG opens only on a row that is held, so it never loads.
AfterThreadChange(w, p) == IF p = "DL-THREAD" THEN LoadVisibleThread(w) ELSE w

\* evict: what is farthest from the visible range goes, in no order among equals.
Distance(w, q) == IF q < w.lo THEN w.lo - q ELSE IF q >= w.hi THEN q - w.hi + 1 ELSE 0
Evictions(w) ==
  LET held == DOMAIN w.cache.rows
  IN  {kept \in SUBSET held :
         /\ Cardinality(kept) = Min({Cardinality(held), CacheMax})
         /\ \A q \in kept, g \in held \ kept : Distance(w, q) <= Distance(w, g)}

MergeOneShort(w, reply) ==
  LET first == Max({w.cache.first, Min({reply.first, w.cache.total})})
      held == {q \in DOMAIN w.cache.rows : q >= first}
      new == {q \in DOMAIN reply.rows : q \in first .. (w.cache.total - 2)}
  IN  [w EXCEPT !.cache.first = first,
                !.cache.rows = [q \in held \cup new |-> IF q \in new THEN reply.rows[q]
                                                        ELSE w.cache.rows[q]]]
\* merge: rows outside the thread's bounds are left out.
Merge(w, reply) ==
  LET first == Max({w.cache.first, Min({reply.first, w.cache.total})})
      held == {q \in DOMAIN w.cache.rows : q >= first}
      new == {q \in DOMAIN reply.rows : q \in first .. (w.cache.total - 1)}
  IN  [w EXCEPT !.cache.first = first,
                !.cache.rows = [q \in held \cup new |-> IF q \in new THEN reply.rows[q]
                                                        ELSE w.cache.rows[q]]]

Adds(w, merged) == ~(DOMAIN merged.cache.rows \subseteq DOMAIN w.cache.rows)

-----------------------------------------------------------------------------
(* The panel's steps. *)

\* applyState, told by the app; a sidecar that came back without its lease is
\* asked again, at most once in REWATCH_DEBOUNCE_MS.
Apply(w, state) == AdoptThread([w EXCEPT !.seen = TRUE], state.thread, state.life)
Rewatches(state) == ~state.watching /\ state.usable

Hear ==
  /\ events # << >>
  /\ LET state == Head(events)
         told == [v EXCEPT !.told = state, !.seen = FALSE]
     IN  IF page \in DlPages
         THEN /\ v' = AfterThreadChange(Apply(told, state), page)
              /\ \/ calls' = calls
                 \/ Rewatches(state) /\ calls' = calls \cup {TRUE}
         ELSE v' = told /\ calls' = calls
  /\ events' = Tail(events)
  /\ UNCHANGED <<server, sc, page, left>>

\* showPage: the old page is disposed of and the new one rendered in one tick,
\* so a release is deferred and skipped when a datalink page is back by then.
ShowPage(w, p) ==
  /\ page' = p
  /\ IF p \in DlPages
     THEN LET synced == IF w.seen THEN w ELSE Apply(w, w.told)
          IN  /\ v' = AfterThreadChange([synced EXCEPT !.renew = TRUE], p)
              /\ calls' = IF w.renew THEN calls ELSE calls \cup {TRUE}
     ELSE /\ v' = [w EXCEPT !.release = @ \/ page \in DlPages]
          /\ calls' = calls
  /\ UNCHANGED <<server, sc, events>>

Press == left.keys > 0 /\ left' = [left EXCEPT !.keys = @ - 1]

OpenIndex == page \in {"MENU", "DL-THREAD"} /\ Press /\ ShowPage(v, "DL-INDEX")
OpenThread == page = "DL-INDEX" /\ v.told.planned /\ Press /\ ShowPage(Newest(v), "DL-THREAD")
LeavePages == page \in DlPages /\ Press /\ ShowPage(v, "MENU")

OpenMessage ==
  /\ page = "DL-THREAD" /\ Press
  /\ \E q \in DOMAIN v.cache.rows :
       /\ q \in Max({v.cache.first, (v.at - 1) * PageSize}) .. (v.at * PageSize - 1)
       /\ ShowPage([v EXCEPT !.selected = v.at], "DL-MSG")

\* returnToThreadPage, setThreadPage
ReturnToThread ==
  /\ page = "DL-MSG" /\ Press
  /\ LET back == Clamped([v EXCEPT !.at = v.selected])
     IN  ShowPage([back EXCEPT !.follow = back.at = PageCount(back)], "DL-THREAD")

\* stepThreadPage: PREV and NEXT wrap.
StepThreadPage(delta) ==
  /\ page = "DL-THREAD" /\ PageCount(v) > 1 /\ Press
  /\ LET m == PageCount(v)
         at == ((Clamped(v).at - 1 + delta + m) % m) + 1
     IN  v' = LoadVisibleThread([v EXCEPT !.at = at, !.follow = at = m])
  /\ UNCHANGED <<server, sc, events, calls, page>>

ReleaseKeepsTimer ==
  /\ v.release
  /\ v' = [v EXCEPT !.release = FALSE]
  /\ calls' = IF page \in DlPages \/ ~v.renew THEN calls ELSE calls \cup {FALSE}
  /\ UNCHANGED <<server, sc, events, page, left>>
\* leaveDlPage's deferred half.
Release ==
  /\ v.release
  /\ IF page \in DlPages \/ ~v.renew THEN v' = [v EXCEPT !.release = FALSE] /\ calls' = calls
     ELSE v' = [v EXCEPT !.release = FALSE, !.renew = FALSE] /\ calls' = calls \cup {FALSE}
  /\ UNCHANGED <<server, sc, events, page, left>>

RenewTick ==
  /\ v.renew
  /\ calls' = calls \cup {TRUE}
  /\ UNCHANGED <<server, sc, events, page, v, left>>

\* thread(): the window that ends where the panel asked, of the epoch it named;
\* one message at least, and as many as the budget of bytes allows.
Served(end, n) ==
  [kind |-> "ok", first |-> sc.cache.first,
   rows |-> [q \in Max({sc.cache.first, end - n}) .. (end - 1) |-> sc.cache.rows[q]]]

Reply(reply) == v' = [v EXCEPT !.fetch.at = "answered", !.reply = reply]

FetchServed ==
  /\ v.fetch.at = "out" /\ sc.up /\ sc.cache.epoch # 0
  /\ IF v.fetch.epoch # sc.cache.epoch THEN Reply([NoReply EXCEPT !.kind = "stale"])
     ELSE /\ v.fetch.end <= sc.cache.total
          /\ \E n \in 1 .. Window : Reply(Served(v.fetch.end, n))
  /\ UNCHANGED <<server, sc, events, calls, page, left>>

\* no-thread, bad-request, a sidecar that is not there, or an answer lost.
FetchFails ==
  /\ v.fetch.at = "out"
  /\ \/ /\ ~sc.up \/ sc.cache.epoch = 0 \/ v.fetch.end > sc.cache.total
        /\ UNCHANGED left
     \/ Mishap
  /\ Reply([NoReply EXCEPT !.kind = "failed"])
  /\ UNCHANGED <<server, sc, events, calls, page>>

FetchHandled ==
  /\ v.fetch.at = "answered"
  /\ LET w == [v EXCEPT !.reply = NoReply]
         merged == Merge(w, v.reply)
     IN  IF ~w.fetch.same \/ v.reply.kind = "failed" THEN v' = Finished(w)
         ELSE IF v.reply.kind = "stale" THEN v' = Finished(Cleared(w))
         ELSE \E kept \in Evictions(merged) :
                LET nearest == [merged EXCEPT !.cache.rows = Restrict(@, kept)]
                IN  v' = IF Adds(w, merged) THEN NextRound(nearest) ELSE Finished(nearest)
  /\ UNCHANGED <<server, sc, events, calls, page, left>>

-----------------------------------------------------------------------------
(* Properties. *)

\* TypeOK: every variable keeps its type.
ThreadTypeOK ==
  /\ server.key \in Keys \cup {NoScope}
  /\ sc.cycle \in {"none", "status", "thread"} /\ sc.target \in Keys \cup {NoTarget}
  /\ Len(events) <= MaxEvents /\ calls \subseteq BOOLEAN
  /\ page \in DlPages \cup {"MENU"}
  /\ v.fetch.at \in {"idle", "out", "answered"} /\ v.fetch.round <= Rounds
  /\ Cardinality(DOMAIN v.cache.rows) <= CacheMax

\* A sequence number the panel holds names the message the sidecar has there,
\* as long as both hold the same epoch of the same sidecar: rows that moved,
\* were deleted or belong to another scope always come under a new epoch, and
\* an answer asked for before that never lands in the cache that follows
\* (datalink-service.ts 535-558, datalink-session.js 230-258).
SeqNamesItsMessage ==
  v.cache.epoch # 0 /\ v.cache.epoch = sc.cache.epoch /\ v.cache.life = sc.life =>
    \A q \in DOMAIN v.cache.rows \cap DOMAIN sc.cache.rows : v.cache.rows[q] = sc.cache.rows[q]

\* The rows on screen that are there to be loaded.
Loaded ==
  \/ v.told.thread.epoch = 0
  \/ /\ v.cache.epoch # 0
     /\ \A q \in Max({v.cache.first, (v.at - 1) * PageSize}) ..
                  (Min({v.at * PageSize, v.cache.total}) - 1) : q \in DOMAIN v.cache.rows

\* A thread page that stays up does not go on saying LOADING: whatever was
\* dropped, went stale, or failed to come is asked for again
\* (datalink-session.js 220-279, datalink-pages.js 256-262, 294-298).
ThreadGetsLoaded == <>[](page = "DL-THREAD") => []<>Loaded

\* The lease follows the pages: once the datalink pages are left for good the
\* sidecar stops polling, whatever order the watch calls were served in
\* (datalink-session.js 4-8, 70-85).
LeaseFollowsThePages == <>[](page \notin DlPages) => <>[](~sc.watching)

\* Both together: open pages are served, left ones are not
\* (datalink-session.js 4-8).
PagesAreServed == ThreadGetsLoaded /\ LeaseFollowsThePages

-----------------------------------------------------------------------------
\* Epochs count from one in every sidecar, so the panel takes the first thread
\* of a new sidecar for the one it holds when it heard no state in between:
\* stated as the module comment has it, and not kept.
ShownThreadIsTheSidecars ==
  page \in DlPages /\ events = << >> /\ v.cache.epoch # 0 => v.cache.life = sc.life

-----------------------------------------------------------------------------
InitThread ==
  /\ server = [key |-> CHOOSE k \in Keys : TRUE, ids |-> InitialRows,
               rows |-> [k \in Keys |-> IF k = CHOOSE x \in Keys : TRUE
                                        THEN [i \in 1 .. InitialRows |-> i] ELSE << >>]]
  /\ sc = Fresh(1)
  /\ events = << >> /\ calls = {} /\ page = "MENU"
  /\ v = [renew |-> FALSE, release |-> FALSE, told |-> StateOf(Fresh(1)), seen |-> FALSE,
          cache |-> NoCache, at |-> 1, follow |-> TRUE, lo |-> 0, hi |-> 0,
          fetch |-> Idle, reply |-> NoReply, rerun |-> FALSE, selected |-> 1]
  /\ left \in Budgets

ServerSteps ==
  \/ \E k \in Keys \cup {NoScope} : ScopeMoves(k)
  \/ \E k \in Keys \cap {server.key} : MessageArrives(k) \/ MessageDeleted(k)
CycleSteps == ScopeResolved \/ NoFlightPlan \/ ThreadStored
SidecarSteps ==
  \/ PollDue \/ LeaseExpires \/ CycleSteps \/ PollFails \/ SidecarDies \/ SidecarStarts
  \/ \E on \in BOOLEAN : WatchServed(on) \/ WatchRefused(on)
KeySteps ==
  \/ OpenIndex \/ OpenThread \/ LeavePages \/ OpenMessage \/ ReturnToThread
  \/ \E delta \in {-1, 1} : StepThreadPage(delta)
PanelSteps == Hear \/ Release \/ RenewTick \/ FetchServed \/ FetchFails \/ FetchHandled

NextThread == ServerSteps \/ SidecarSteps \/ KeySteps \/ PanelSteps

FairThread ==
  /\ WF_threadVars(PollDue) /\ WF_threadVars(CycleSteps) /\ WF_threadVars(LeaseExpires)
  /\ WF_threadVars(SidecarStarts) /\ WF_threadVars(Hear) /\ WF_threadVars(Release)
  /\ WF_threadVars(RenewTick) /\ WF_threadVars(FetchServed \/ FetchFails) /\ WF_threadVars(FetchHandled)
  /\ \A on \in BOOLEAN : WF_threadVars(WatchServed(on) \/ WatchRefused(on))

ThreadSpec == InitThread /\ [][NextThread]_threadVars /\ FairThread

=============================================================================
