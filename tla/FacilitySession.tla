---------------------------- MODULE FacilitySession ----------------------------
(***************************************************************************)
(* The facility session of the sidecar (sidecar/src/navdata-facilities.ts):*)
(* requests for facilities over one SimConnect handle, a few at a time,    *)
(* behind the pass that builds their definitions; the list of all          *)
(* airports; and the closing of the session under all of them.             *)
(*                                                                         *)
(* The simulator is external.  It answers a request with rows and an end   *)
(* marker, with candidates, with a refusal, with part of that or not at    *)
(* all, whenever it likes, also after the request was given up.            *)
(***************************************************************************)
EXTENDS Integers, FiniteSets, Sequences

CONSTANTS
  Requests, Priority,  \* the calls of fetch, and the priority of each
  Lists,               \* the calls of requestAirportList
  Limit,               \* FACILITY_CONCURRENCY
  Rows,                \* rows of a whole answer
  Chunks,              \* chunks of the airport list
  Entries,             \* the names of entry points,
  Groups,              \* the groups of spellings each has for its members,
  Nodes, Root,         \* the definition: a tree of entries, each the path that leads
                       \* to it (a name may be opened at several places),
  Refusals             \* and what the simulator may refuse of it

ASSUME SessionAssumption ==
  Priority \in [Requests -> Int] /\ {Limit, Rows, Chunks} \subseteq Nat \ {0}

\* A spelling is a pair of its entry and its rank, and of one group of its entry.
ASSUME DefinitionAssumption ==
  /\ Groups \in [Entries -> SUBSET SUBSET (Entries \X Nat)]
  /\ \A e \in Entries : \A g \in Groups[e] : g # {} /\ g \subseteq {e} \X Nat
  /\ \A e \in Entries : \A g, other \in Groups[e] : g # other => g \cap other = {}
  /\ Nodes \subseteq Seq(Entries) \ {<<>>} /\ Root \in Nodes

None == "none"
Attempts == 1..2

VARIABLES
  req,      \* each request: its stage, attempt, what it buffered, its outcome
  heard,    \* what the simulator has sent for each attempt
  slots,    \* the semaphore: how many are taken, and who waits in which order
  list,     \* each list: its stage, chunks and outcome
  chain,    \* the lists not yet settled, in the order they were asked for
  pass,     \* the definition pass: stage, the definition as it was pruned, and the
            \* spellings refused in either half
  built,    \* the definition it made, and what it reported lost
  closed

vars == <<req, heard, slots, list, chain, pass, built, closed>>

Idle == [at |-> "idle", n |-> 0, rows |-> {}, messages |-> 0, outcome |-> None]
Silent == [rows |-> 0, over |-> FALSE]
NotLost == [entries |-> {}, members |-> {}]
NotBuilt == [members |-> {}, lost |-> NotLost]
NotPruned == [stays |-> FALSE, entries |-> {}, refused |-> {}, definition |-> NotBuilt]

Init ==
  /\ req = [r \in Requests |-> Idle]
  /\ heard = [r \in Requests |-> [n \in Attempts |-> Silent]]
  /\ slots = [taken |-> 0, waiting |-> <<>>]
  /\ list = [l \in Lists |-> [at |-> "idle", chunks |-> 0, outcome |-> None]]
  /\ chain = <<>>
  /\ pass = [at |-> None, pruned |-> NotPruned, refused |-> {}]
  /\ built = NotBuilt /\ closed = FALSE

(***************************************************************************)
(* The semaphore: a slot goes to the highest priority, oldest first.       *)
(***************************************************************************)
Acquired(s, r) ==
  IF s.taken < Limit THEN [s EXCEPT !.taken = @ + 1] ELSE [s EXCEPT !.waiting = Append(@, r)]

Leader(s) ==
  CHOOSE i \in DOMAIN s.waiting : \A j \in DOMAIN s.waiting \ {i} :
    \/ Priority[s.waiting[i]] > Priority[s.waiting[j]]
    \/ Priority[s.waiting[i]] = Priority[s.waiting[j]] /\ i < j

Without(s, i) == SubSeq(s, 1, i - 1) \o SubSeq(s, i + 1, Len(s))

\* Mutant: the slot is handed over and given back as well.
ReleasedTwice(s) ==
  [s EXCEPT !.taken = IF @ > 0 THEN @ - 1 ELSE 0,
            !.waiting = IF @ = <<>> THEN @ ELSE Without(@, Leader(s))]

Released(s) ==
  IF s.waiting = <<>> THEN [s EXCEPT !.taken = IF @ > 0 THEN @ - 1 ELSE 0]
  ELSE [s EXCEPT !.waiting = Without(@, Leader(s))]

\* Mutant: nobody is woken.
WokenLater(s, q) == q

\* The waiter a release wakes: it goes on to read the gate again.
Woken(s, q) ==
  IF s.waiting = <<>> THEN q ELSE [q EXCEPT ![s.waiting[Leader(s)]].at = "gate"]

(***************************************************************************)
(* One request.                                                            *)
(***************************************************************************)
\* Every path that holds a slot gives it back when it ends.
Ends(r, outcome, messages) ==
  /\ req' = Woken(slots, [req EXCEPT ![r] =
              [@ EXCEPT !.at = "done", !.outcome = outcome, !.messages = messages]])
  /\ slots' = Released(slots)

Gated == pass.at \in {"probe", "build"}

\* Past the first reading of the gate: the wait for a slot, and with the slot
\* the second reading.
Enter(r) ==
  IF closed THEN req' = [req EXCEPT ![r] = [@ EXCEPT !.at = "done", !.outcome = "aborted"]]
                 /\ UNCHANGED slots
  ELSE /\ slots' = Acquired(slots, r)
       /\ req' = [req EXCEPT ![r].at = IF slots.taken < Limit THEN "gate" ELSE "waiting"]

Fetch(r) ==
  /\ req[r].at = "idle"
  /\ IF Gated THEN req' = [req EXCEPT ![r].at = "called"] /\ UNCHANGED slots ELSE Enter(r)
  /\ UNCHANGED <<heard, list, chain, pass, built, closed>>

Queue(r) ==
  /\ req[r].at = "called" /\ ~Gated
  /\ Enter(r)
  /\ UNCHANGED <<heard, list, chain, pass, built, closed>>

Begin(q, r, n) == [q EXCEPT ![r] = [@ EXCEPT !.at = "out", !.n = n, !.rows = {}, !.messages = 0]]

\* The second reading, then the attempt, unless the caller's buffer will not
\* clear or the request cannot be sent.
MaySend == ~Gated

Send(r, how) ==
  /\ req[r].at = "gate" /\ MaySend
  /\ CASE closed \/ how = "unprepared" -> Ends(r, "aborted", 0)
       [] ~closed /\ how = "throws"    -> Ends(r, "failed", 0)
       [] OTHER -> req' = Begin(req, r, 1) /\ UNCHANGED slots
  /\ UNCHANGED <<heard, list, chain, pass, built, closed>>

\* Mutant: an answer is taken for the request, whichever attempt it answers.
OutAtAll(r, n) == req[r].at = "out"

Out(r, n) == req[r].at = "out" /\ req[r].n = n
Asked(r, n) == n <= req[r].n /\ ~heard[r][n].over /\ ~closed

\* A row is decoded where it arrives, in the buffer of the attempt it answers;
\* one for an attempt that has settled is dropped.  A decoder that throws
\* aborts the request.
RowArrives(r, n, decoded) ==
  /\ Asked(r, n) /\ heard[r][n].rows < Rows
  /\ heard' = [heard EXCEPT ![r][n].rows = @ + 1]
  /\ IF ~Out(r, n) THEN UNCHANGED <<req, slots>>
     ELSE IF decoded
     THEN /\ req' = [req EXCEPT ![r] =
                       [@ EXCEPT !.rows = req[r].rows \cup {<<n, heard[r][n].rows + 1>>},
                                 !.messages = req[r].messages + 1]]
          /\ UNCHANGED slots
     ELSE Ends(r, "aborted", req[r].messages + 1)
  /\ UNCHANGED <<list, chain, pass, built, closed>>

\* The end marker, the candidates or a refusal.
AnswerEnds(r, n, outcome) ==
  /\ Asked(r, n)
  /\ outcome = "ok" => heard[r][n].rows = Rows
  /\ outcome = "resolved-ambiguous" => heard[r][n].rows = 0
  /\ heard' = [heard EXCEPT ![r][n].over = TRUE]
  /\ IF Out(r, n) THEN Ends(r, outcome, req[r].messages) ELSE UNCHANGED <<req, slots>>
  /\ UNCHANGED <<list, chain, pass, built, closed>>

\* The timer.  Silence is an absence; rows with no end are asked for once more.
TimesOut(r, how) ==
  /\ req[r].at = "out"
  /\ CASE req[r].messages = 0 -> Ends(r, "absent", 0)
       [] req[r].messages > 0 /\ req[r].n = 1 /\ how = "sends" ->
            req' = Begin(req, r, 2) /\ UNCHANGED slots
       [] req[r].messages > 0 /\ req[r].n = 1 /\ how = "unprepared" -> Ends(r, "aborted", 0)
       [] OTHER -> Ends(r, "failed", req[r].messages)
  /\ UNCHANGED <<heard, list, chain, pass, built, closed>>

(***************************************************************************)
(* The airport list: one at a time, in the order they were asked for.      *)
(***************************************************************************)
AskList(l) ==
  /\ list[l].at = "idle"
  /\ list' = [list EXCEPT ![l].at = "chained"]
  /\ chain' = Append(chain, l)
  /\ UNCHANGED <<req, heard, slots, pass, built, closed>>

ListEnds(l, outcome) ==
  /\ list' = [list EXCEPT ![l].at = "done", ![l].outcome = outcome]
  /\ chain' = Tail(chain)

SendList(l, throws) ==
  /\ chain # <<>> /\ Head(chain) = l /\ list[l].at = "chained"
  /\ IF closed \/ throws THEN ListEnds(l, IF closed THEN "aborted" ELSE "failed")
     ELSE list' = [list EXCEPT ![l].at = "out"] /\ UNCHANGED chain
  /\ UNCHANGED <<req, heard, slots, pass, built, closed>>

LastChunk(n) == n >= Chunks

ChunkArrives(l, collected) ==
  LET n == list[l].chunks + 1 IN
  /\ list[l].at = "out" /\ n <= Chunks
  /\ IF ~collected THEN ListEnds(l, "failed")
     ELSE /\ list' = [list EXCEPT ![l] =
                        [@ EXCEPT !.chunks = n, !.at = IF LastChunk(n) THEN "done" ELSE list[l].at,
                                  !.outcome = IF LastChunk(n) THEN "ok" ELSE list[l].outcome]]
          /\ chain' = IF LastChunk(n) THEN Tail(chain) ELSE chain
  /\ UNCHANGED <<req, heard, slots, pass, built, closed>>

\* The idle and the hard timer, and a refusal.
ListFails(l, outcome) ==
  /\ list[l].at = "out"
  /\ ListEnds(l, outcome)
  /\ UNCHANGED <<req, heard, slots, pass, built, closed>>

(***************************************************************************)
(* The definition pass: every spelling is probed, and what is accepted is  *)
(* built.                                                                  *)
(***************************************************************************)
Entry(n) == n[Len(n)]

\* The pairs of an entry and itself or one it hangs below.
Under == {p \in Nodes \X Nodes : Len(p[2]) <= Len(p[1]) /\ SubSeq(p[1], 1, Len(p[2])) = p[2]}

\* The first spelling of a group that is not refused.
First(g) == CHOOSE m \in g : \A other \in g : m[2] <= other[2]

\* Bottom up an entry goes that is refused, or is left with neither a member nor
\* a child: one stays if a member survives at or below it, and every entry from
\* the one to the other opened.
Kept(refused) ==
  {n \in Nodes : \E m \in Nodes :
     /\ <<m, n>> \in Under
     /\ \E g \in Groups[Entry(m)] : ~ g \subseteq refused.members
     /\ \A k \in Nodes : {<<m, k>>, <<k, n>>} \subseteq Under => Entry(k) \notin refused.entries}

\* An entry below one that is refused is not visited.
Visited(refused) ==
  {n \in Nodes : \A up \in Nodes \ {n} : <<n, up>> \in Under => Entry(up) \notin refused.entries}

\* The groups of what is left, and the names of what is not.
GroupsLeft(refused) == UNION {Groups[Entry(n)] : n \in Visited(refused) \cap Kept(refused)}
LostEntries(refused) == {Entry(n) : n \in Visited(refused) \ Kept(refused)}

Lost(refused) ==
  [entries |-> LostEntries(refused),
   members |-> {First(g) : g \in {left \in GroupsLeft(refused) : left \subseteq refused.members}}]

Survivors(refused) ==
  {First(g \ refused.members) : g \in {left \in GroupsLeft(refused) : ~ left \subseteq refused.members}}

\* What is left of the definition to build it again from.
Pruned(refused) ==
  [stays |-> Root \in Kept(refused), refused |-> refused.members,
   entries |-> {Entry(n) : n \in Visited(refused) \cap Kept(refused)},
   definition |-> [members |-> Survivors(refused), lost |-> Lost(refused)]]

Prunings == {Pruned(refused) : refused \in Refusals}

\* What the simulator has taken of it this time.
Accepted(pruned, refused) ==
  {m \in pruned.definition.members : m \notin refused.members /\ m[1] \notin refused.entries}

\* Mutant: only what the rebuild refuses is reported.
RebuiltAlone(pruned, refused) ==
  [members |-> Accepted(pruned, refused),
   lost |-> [entries |-> pruned.entries \cap refused.entries,
             members |-> pruned.definition.members \cap refused.members]]

\* The rebuild may be refused some more.
Rebuilt(pruned, refused) ==
  LET lost == pruned.definition.lost
  IN [members |-> Accepted(pruned, refused),
      lost |-> [entries |-> lost.entries \cup (pruned.entries \cap refused.entries),
                members |-> lost.members \cup (pruned.definition.members \cap refused.members)]]

\* A send that throws ends the pass and opens the gate again.
Prepare(throws) ==
  /\ pass.at = None
  /\ pass' = [pass EXCEPT !.at = IF closed \/ throws THEN "done" ELSE "probe"]
  /\ UNCHANGED <<req, heard, slots, list, chain, built, closed>>

\* The rejections that have arrived when the settling time is over.
Probed(pruned, throws) ==
  /\ pass.at = "probe"
  /\ pass' = [at |-> IF throws THEN "done" ELSE "build", pruned |-> pruned, refused |-> pruned.refused]
  /\ UNCHANGED <<req, heard, slots, list, chain, built, closed>>

Built(refused) ==
  /\ pass.at = "build"
  /\ pass' = [pass EXCEPT !.at = "done",
                          !.refused = @ \cup (pass.pruned.definition.members \cap refused.members)]
  /\ built' = IF closed \/ ~pass.pruned.stays THEN NotBuilt ELSE Rebuilt(pass.pruned, refused)
  /\ UNCHANGED <<req, heard, slots, list, chain, closed>>

(***************************************************************************)
(* The end of the session.                                                 *)
(***************************************************************************)
Drained == [taken |-> 0, waiting |-> <<>>]

Close ==
  /\ ~closed
  /\ closed' = TRUE
  /\ req' = [r \in Requests |->
               CASE req[r].at = "out"     -> [req[r] EXCEPT !.at = "done", !.outcome = "aborted"]
                 [] req[r].at = "waiting" -> [req[r] EXCEPT !.at = "gate"]
                 [] OTHER -> req[r]]
  /\ slots' = Drained
  /\ list' = [l \in Lists |-> IF list[l].at = "out"
                              THEN [list[l] EXCEPT !.at = "done", !.outcome = "aborted"] ELSE list[l]]
  /\ chain' = SelectSeq(chain, LAMBDA l : list[l].at = "chained")
  /\ UNCHANGED <<heard, pass, built>>

Proceeds(r) == Queue(r) \/ (\E how \in {"sends", "throws", "unprepared"} : Send(r, how))
               \/ (\E how \in {"sends", "throws", "unprepared"} : TimesOut(r, how))

Next ==
  \/ \E r \in Requests :
       \/ Fetch(r) \/ Proceeds(r)
       \/ \E n \in Attempts :
            \/ \E decoded \in BOOLEAN : RowArrives(r, n, decoded)
            \/ \E outcome \in {"ok", "resolved-ambiguous", "failed"} : AnswerEnds(r, n, outcome)
  \/ \E l \in Lists :
       \/ AskList(l)
       \/ \E bad \in BOOLEAN : SendList(l, bad) \/ ChunkArrives(l, bad)
       \/ \E outcome \in {"timeout", "failed"} : ListFails(l, outcome)
  \/ \E throws \in BOOLEAN : Prepare(throws) \/ (\E pruned \in Prunings : Probed(pruned, throws))
  \/ (\E refused \in Refusals : Built(refused)) \/ Close

Spec == Init /\ [][Next]_vars

\* Timers fire and promises settle.  A waiter is served when a slot is given
\* back, which the timers see to.
Liveness ==
  /\ \A r \in Requests : WF_vars(Proceeds(r))
  /\ \A l \in Lists : WF_vars(\E bad \in BOOLEAN : SendList(l, bad))
                      /\ WF_vars(ListFails(l, "timeout"))
  /\ WF_vars(\E pruned \in Prunings, throws \in BOOLEAN : Probed(pruned, throws))
  /\ WF_vars(\E refused \in Refusals : Built(refused))

FairSpec == Spec /\ Liveness

(***************************************************************************)
(* Properties.                                                             *)
(***************************************************************************)
\* A request that is ok has the whole answer in its buffer and nothing else: no
\* row of an attempt that timed out is mixed into the tree of its retry, and an
\* airport list that is ok has all its chunks.
WholeAnswers ==
  /\ \A r \in Requests : req[r].outcome = "ok" => req[r].rows = {<<req[r].n, i>> : i \in 1..Rows}
  /\ \A l \in Lists : list[l].outcome = "ok" => list[l].chunks = Chunks

\* Slots are neither leaked nor made: every one taken is held by a request that
\* will give it back, nobody waits while one is free, and no more than Limit
\* requests are out.
Holders == {r \in Requests : req[r].at \in {"gate", "out"}}

SlotsAreHeld ==
  /\ ~closed => slots.taken = Cardinality(Holders)
  /\ slots.taken <= Limit
  /\ slots.waiting # <<>> => slots.taken = Limit
  /\ {r \in Requests : req[r].at = "waiting"} = {slots.waiting[i] : i \in DOMAIN slots.waiting}

\* Both together: an attempt that timed out leaves nothing to the next, neither
\* its rows nor its slot (navdata-facilities.ts 640-790).
AttemptsAreApart == WholeAnswers /\ SlotsAreHeld

\* No member goes missing in silence: one spelling of each group is in the
\* definition or else reported lost, unless the group hangs at or below an entry
\* that is; a group is never both; and nothing that was refused, by the probe or
\* by the rebuild, is decoded (navdata-facilities.ts 554-588).
LostIsReported ==
  pass.at = "done" /\ built # NotBuilt =>
    /\ built.members \cap pass.refused = {}
    /\ \A n \in Nodes :
         \/ \E up \in Nodes : <<n, up>> \in Under /\ Entry(up) \in built.lost.entries
         \/ \A g \in Groups[Entry(n)] :
              Cardinality(g \cap built.members) + Cardinality(g \cap built.lost.members) = 1

\* Every request and every list comes to an end, whatever the simulator does
\* or fails to do.
EverythingSettles ==
  /\ \A r \in Requests : req[r].at # "idle" ~> req[r].at = "done"
  /\ \A l \in Lists : list[l].at = "chained" ~> list[l].at = "done"
================================================================================
