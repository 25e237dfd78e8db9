------------------------ MODULE DatalinkService_proofs ------------------------
(***************************************************************************)
(* Proofs about the datalink service for any number of configs, legs and   *)
(* requests in flight; and, in the second part, about the words a page     *)
(* finds for a write, for any number of presses.                           *)
(***************************************************************************)
EXTENDS DatalinkService, WriteOutcome, TLAPS

Scopes == {Unknown, NoScope, Flight} \cup LegScopes
Prefiles == [leg : Legs, cfg : Configs] \cup {NoPrefile}
Keys == Legs \cup {None, "flight"}
Ops == [kind : OpKinds \cup {"free"}, leg : Legs \cup {None}, cfg : Configs \cup {None}]

\* The part of TypeOK that startCycle and its callers write.
PollTypes ==
  /\ watching \in BOOLEAN /\ timer \in BOOLEAN /\ cycle \in Cycles
  /\ rerun \in BOOLEAN /\ owed \in BOOLEAN

\* The part of TypeOK that the scope, the thread and the prefiled leg make up.
ShownTypes == scope \in Scopes /\ cache \in Keys /\ prefiled \in Prefiles

OpTypes ==
  /\ ops \in [Slots -> Ops]
  /\ \A s \in Slots : ops[s].kind = "prefile" => ops[s].cfg # None
  /\ busy \subseteq SingleFlight

RestTypes ==
  /\ cfg \in Configs \cup {None} /\ hasConfig \in BOOLEAN /\ (hasConfig => cfg # None)
  /\ leased \in BOOLEAN /\ state \in States /\ latched \in BOOLEAN /\ down \in BOOLEAN

-----------------------------------------------------------------------------
(* Lemmas about the values and the pieces of the methods.                  *)

\* Where a cycle starts, and what it holds.
LEMMA CycleValues ==
  /\ NoCycle \in Cycles
  /\ \A l \in Legs \cup {None} : [NoCycle EXCEPT !.at = "status", !.took = l] \in Cycles
  /\ \A c \in Cycles : [c EXCEPT !.at = "ground"] \in Cycles
  /\ \A c \in Cycles, sel \in {Flight} \cup LegScopes :
       [c EXCEPT !.at = "thread", !.sel = sel] \in Cycles
BY DEF NoCycle, Cycles, Unknown

\* The key of a flight or leg scope can be a thread's key.
LEMMA KeyValues == \A sel \in {Unknown, Flight} \cup LegScopes : Key(sel) \in Keys
BY DEF Key, Keys, Unknown, Flight, LegScopes, Leg

\* A prefiled leg, or its absence, names a leg or none.
LEMMA PrefileLeg == \A p \in Prefiles : p.leg \in Legs \cup {None}
BY DEF Prefiles, NoPrefile

\* startCycle leaves what it writes well typed.
LEMMA StartCycleTypes ==
  ASSUME NEW w \in BOOLEAN, NEW t \in BOOLEAN, NEW current \in Cycles,
         owed \in BOOLEAN, latched' \in BOOLEAN, hasConfig' \in BOOLEAN, prefiled' \in Prefiles,
         StartCycle(w, t, current)
  PROVE  watching' \in BOOLEAN /\ timer' \in BOOLEAN /\ cycle' \in Cycles /\ owed' \in BOOLEAN
<1>1. CASE ~Startable(w, current)
  BY <1>1 DEF StartCycle
<1>2. CASE Startable(w, current)
  <2>1. prefiled'.leg \in Legs \cup {None}
    BY PrefileLeg
  <2>2. cycle' \in Cycles
    BY <1>2, <2>1, CycleValues DEF StartCycle
  <2>3. QED
    BY <1>2, <2>2 DEF StartCycle
<1>3. QED
  BY <1>1, <1>2

\* cycleSoon leaves what it writes well typed.
LEMMA CycleSoonTypes ==
  ASSUME NEW write \in BOOLEAN, PollTypes,
         latched' \in BOOLEAN, hasConfig' \in BOOLEAN, prefiled' \in Prefiles,
         CycleSoon(write)
  PROVE  PollTypes'
<1>1. CASE NoStart
  BY <1>1 DEF NoStart, PollTypes
<1>2. CASE rerun' = RerunAsked /\ owed' = (owed \/ (write /\ hasConfig'))
           /\ UNCHANGED <<watching, timer, cycle>>
  BY <1>2 DEF RerunAsked, PollTypes
<1>3. CASE StartCycle(watching, timer, cycle) /\ UNCHANGED rerun
  BY <1>3, StartCycleTypes DEF PollTypes
<1>4. QED
  BY <1>1, <1>2, <1>3 DEF CycleSoon

\* dropPrefiled leaves a scope and a thread key of the right kind.
LEMMA DroppedTypes ==
  ASSUME NEW sc \in Scopes, NEW ca \in Keys, Dropped(sc, ca)
  PROVE  ShownTypes'
BY DEF Dropped, ShownTypes, Scopes, Keys, Prefiles

\* The state startCycle leaves shown is one of the states.
LEMMA ReportedTypes ==
  ASSUME NEW w, NEW current, NEW shown \in States
  PROVE  Reported(w, current, shown) \in States
BY DEF Reported, States
-----------------------------------------------------------------------------
(* Types.                                                                  *)

LEMMA TypeParts ==
  /\ TypeOK <=> PollTypes /\ ShownTypes /\ OpTypes /\ RestTypes
  /\ TypeOK' <=> PollTypes' /\ ShownTypes' /\ OpTypes' /\ RestTypes'
BY DEF TypeOK, PollTypes, ShownTypes, OpTypes, RestTypes, Scopes, Keys, Prefiles, Ops

\* An answer leaves the slots and the flags well typed.
LEMMA AnswersTypes ==
  ASSUME TypeOK, NEW s \in Slots, NEW these, Answers(s, these)
  PROVE  /\ OpTypes'
         /\ cfg' = cfg /\ hasConfig' = hasConfig /\ leased' = leased /\ down' = down
<1>1. Free \in Ops
  BY DEF Free, Ops
<1>2. ops' \in [Slots -> Ops]
  BY <1>1, TypeParts DEF Answers, OpTypes
<1>3. \A t \in Slots : ops'[t].kind = "prefile" => ops'[t].cfg # None
  BY TypeParts DEF Answers, OpTypes, Free
<1>4. QED
  BY <1>2, <1>3, TypeParts DEF Answers, OpTypes, configVars

\* The end of a poll cycle keeps the types, given what it leaves.
LEMMA FinishTypes ==
  ASSUME TypeOK, NEW result, NEW sc \in Scopes, NEW ca \in Keys, NEW pf \in Prefiles,
         NEW again \in BOOLEAN, Finish(result, sc, ca, pf, again)
  PROVE  TypeOK'
<1> DEFINE shown == IF result = "refused" THEN "token-invalid"
                    ELSE IF latched THEN state
                    ELSE IF result = "ok" THEN "ok" ELSE "fault"
<1>1. shown \in States
  BY TypeParts DEF RestTypes, States
<1>2. latched' \in BOOLEAN /\ ShownTypes'
  <2>1. CASE result = "refused"
    BY <2>1, DroppedTypes DEF Finish, Latch
  <2>2. CASE result # "refused"
    BY <2>2, TypeParts DEF Finish, ShownTypes, RestTypes
  <2>3. QED
    BY <2>1, <2>2
<1>3. UNCHANGED <<cfg, hasConfig, leased, ops, busy, down>>
  BY DEF Finish, configVars, opVars
<1>4. PollTypes' /\ state' \in States
  <2>1. watching \in BOOLEAN /\ owed \in BOOLEAN /\ hasConfig' \in BOOLEAN /\ prefiled' \in Prefiles
    BY <1>2, <1>3, TypeParts DEF PollTypes, RestTypes, ShownTypes
  <2>2. Scheduled \in BOOLEAN
    BY <2>1, <1>2 DEF Scheduled
  <2>3. rerun' \in BOOLEAN
    BY DEF Finish
  <2>4. CASE rerun \/ again
    <3>1. StartCycle(watching, Scheduled, NoCycle) /\ state' = Reported(watching, NoCycle, shown)
      BY <2>4 DEF Finish
    <3>2. state' \in States
      BY <3>1, <1>1, ReportedTypes
    <3>3. watching' \in BOOLEAN /\ timer' \in BOOLEAN /\ cycle' \in Cycles /\ owed' \in BOOLEAN
      BY <3>1, <2>1, <2>2, <1>2, CycleValues, StartCycleTypes
    <3>4. QED
      BY <3>2, <3>3, <2>3 DEF PollTypes
  <2>5. CASE ~(rerun \/ again)
    <3>1. /\ cycle' = NoCycle /\ timer' = Scheduled /\ state' = shown
          /\ owed' = (owed /\ ~latched') /\ watching' = watching
      BY <2>5 DEF Finish
    <3>2. QED
      BY <3>1, <2>1, <2>2, <2>3, <1>1, <1>2, CycleValues DEF PollTypes
  <2>6. QED
    BY <2>4, <2>5
<1>5. QED
  BY <1>2, <1>3, <1>4, TypeParts DEF OpTypes, RestTypes

\* Resolving a scope keeps the types.
LEMMA ResolveTypes ==
  ASSUME TypeOK, NEW sel \in {Flight} \cup LegScopes, NEW sc \in Scopes, NEW ca \in Keys,
         NEW pf \in Prefiles, Resolve(sel, sc, ca, pf)
  PROVE  TypeOK'
<1>1. Kept(sel, ca) \in Keys
  BY DEF Kept, Keys
<1>2. ShownTypes'
  BY <1>1 DEF Resolve, ShownTypes
<1>3. cycle' \in Cycles
  BY CycleValues, TypeParts DEF Resolve, PollTypes
<1>4. QED
  BY <1>2, <1>3, TypeParts DEF Resolve, PollTypes, OpTypes, RestTypes, configVars, opVars
\* The types hold from the start.
LEMMA InitTypes == Init => TypeOK
<1> SUFFICES ASSUME Init PROVE TypeOK
  OBVIOUS
<1>1. PollTypes
  BY CycleValues DEF Init, PollTypes
<1>2. ShownTypes
  BY DEF Init, ShownTypes, Scopes, Keys, Prefiles
<1>3. OpTypes
  BY DEF Init, OpTypes, Ops, Free
<1>4. RestTypes
  BY DEF Init, RestTypes, States
<1>5. QED
  BY <1>1, <1>2, <1>3, <1>4, TypeParts

\* Every step of the poll cycle keeps the types.
LEMMA CycleAnswerTypes == TypeOK /\ CycleAnswer => TypeOK'
<1> SUFFICES ASSUME TypeOK, CycleAnswer PROVE TypeOK'
  OBVIOUS
<1> USE TypeParts
<1>1. /\ scope \in Scopes /\ cache \in Keys /\ prefiled \in Prefiles
      /\ Unknown \in Scopes /\ NoScope \in Scopes /\ Flight \in Scopes /\ LegScopes \subseteq Scopes
      /\ None \in Keys /\ NoPrefile \in Prefiles
  BY DEF ShownTypes, Scopes, Keys, Prefiles
<1>2. \A l \in Legs, from \in {"status", "ground-session", "prefile"} : Leg(l, from) \in LegScopes
  BY DEF LegScopes
<1>3. cycle \in Cycles
  BY DEF PollTypes
<1>4. CASE StatusAnswer
  <2>1. CASE \E result \in {"failed", "refused"} : Finish(result, scope, cache, prefiled, FALSE)
    BY <2>1, <1>1, FinishTypes
  <2>2. CASE \E sc \in {scope, Unknown}, ca \in {cache, None}, pf \in {prefiled, NoPrefile} :
               Resolve(Flight, sc, ca, pf)
    BY <2>2, <1>1, ResolveTypes
  <2>3. CASE cycle.took # None /\ Resolve(Leg(cycle.took, "prefile"), scope, cache, prefiled)
    <3>1. cycle.took \in Legs
      BY <2>3, <1>3 DEF Cycles
    <3>2. QED
      BY <3>1, <2>3, <1>1, <1>2, ResolveTypes
  <2>4. CASE \E l \in Legs : Resolve(Leg(l, "status"), scope, cache, prefiled)
    BY <2>4, <1>1, <1>2, ResolveTypes
  <2>5. CASE /\ cycle' = [cycle EXCEPT !.at = "ground"]
             /\ UNCHANGED <<configVars, watching, timer, rerun, owed, leased, state, latched,
                            shownVars, opVars, down>>
    <3>1. cycle' \in Cycles
      BY <2>5, <1>3, CycleValues
    <3>2. QED
      BY <3>1, <2>5 DEF PollTypes, ShownTypes, OpTypes, RestTypes, configVars, shownVars, opVars
  <2>6. QED
    BY <1>4, <2>1, <2>2, <2>3, <2>4, <2>5 DEF StatusAnswer
<1>5. CASE GroundAnswer
  <2>1. CASE \E result \in {"failed", "refused"} : Finish(result, scope, cache, prefiled, FALSE)
    BY <2>1, <1>1, FinishTypes
  <2>2. CASE Finish("ok", NoScope, None, prefiled, FALSE)
    BY <2>2, <1>1, FinishTypes
  <2>3. CASE \E l \in Legs : Resolve(Leg(l, "ground-session"), scope, cache, prefiled)
    BY <2>3, <1>1, <1>2, ResolveTypes
  <2>4. QED
    BY <1>5, <2>1, <2>2, <2>3 DEF GroundAnswer
<1>6. CASE ThreadAnswer
  <2>1. cycle.sel \in Scopes /\ Key(cycle.sel) \in Keys
    BY <1>3, KeyValues DEF Cycles, Scopes
  <2>2. CASE Finish("failed", Unknown, None, NoPrefile, TRUE)
    BY <2>2, <1>1, FinishTypes
  <2>3. CASE \E result \in {"ok", "failed", "refused"} : Finish(result, Unknown, None, prefiled, FALSE)
    BY <2>3, <1>1, FinishTypes
  <2>4. CASE \E result \in {"failed", "refused"} : Finish(result, cycle.sel, cache, prefiled, FALSE)
    BY <2>4, <2>1, <1>1, FinishTypes
  <2>5. CASE Finish("ok", cycle.sel, Key(cycle.sel), prefiled, FALSE)
    BY <2>5, <2>1, <1>1, FinishTypes
  <2>6. QED
    BY <1>6, <2>2, <2>3, <2>4, <2>5 DEF ThreadAnswer
<1>7. QED
  BY <1>4, <1>5, <1>6 DEF CycleAnswer
\* What follows a step that may ask for a cycle and drops nothing else.
LEMMA SoonTypes ==
  ASSUME TypeOK, OpTypes', ShownTypes', latched' \in BOOLEAN, NEW write \in BOOLEAN,
         NEW shown \in States,
         UNCHANGED <<cfg, hasConfig, leased, down>>, CycleSoon(write),
         state' \in {shown, Reported(watching, cycle, shown)}
  PROVE  TypeOK'
<1> USE TypeParts
<1>1. hasConfig' \in BOOLEAN /\ prefiled' \in Prefiles
  BY DEF RestTypes, ShownTypes
<1>2. PollTypes'
  BY <1>1, CycleSoonTypes
<1>3. state' \in States
  BY ReportedTypes
<1>4. QED
  BY <1>2, <1>3 DEF RestTypes

\* Every answer to an op keeps the types.
LEMMA OpAnswerTypes == ASSUME TypeOK, NEW s \in Slots, OpAnswer(s) PROVE TypeOK'
<1> USE TypeParts
<1>1. /\ OpTypes' /\ cfg' = cfg /\ hasConfig' = hasConfig /\ leased' = leased /\ down' = down
  BY AnswersTypes
  DEF OpAnswer, OpRefused, OpChangesNothing, OpFails, OpLands, OpTargetGone, PrefileLands
<1>2. /\ scope \in Scopes /\ cache \in Keys /\ latched \in BOOLEAN /\ state \in States
  BY DEF ShownTypes, RestTypes
<1>3. NotDropped => ShownTypes'
  BY DEF NotDropped, ShownTypes, shownVars
<1>4. Dropped(scope, cache) => ShownTypes'
  BY <1>2, DroppedTypes
<1>5. NoStart /\ latched' \in BOOLEAN => PollTypes'
  BY DEF NoStart, PollTypes
<1>6. CASE OpRefused(s)
  <2>1. ShownTypes' /\ latched' \in BOOLEAN /\ PollTypes'
    BY <1>6, <1>4, <1>5 DEF OpRefused, Latch
  <2>2. state' \in States
    BY <1>6 DEF OpRefused, States
  <2>3. QED
    BY <2>1, <2>2, <1>1 DEF RestTypes
<1>7. CASE OpChangesNothing(s)
  BY <1>7, <1>1, <1>3 DEF OpChangesNothing, Unlatched, PollTypes, pollVars, RestTypes
<1>8. CASE OpFails(s)
  <2>1. ShownTypes' /\ latched' \in BOOLEAN /\ "fault" \in States
    BY <1>8, <1>2, <1>3 DEF OpFails, Unlatched, States
  <2>2. CASE NoStart /\ state' = "fault"
    BY <2>1, <2>2, <1>1, <1>5 DEF RestTypes
  <2>3. CASE CycleSoon(TRUE) /\ state' \in {"fault", Reported(watching, cycle, "fault")}
    BY <2>1, <2>3, <1>1, SoonTypes
  <2>4. QED
    BY <1>8, <2>2, <2>3 DEF OpFails
<1>9. CASE OpLands(s)
  <2>1. ShownTypes' /\ latched' \in BOOLEAN
    BY <1>9, <1>2, <1>3 DEF OpLands, Unlatched
  <2>2. QED
    BY <2>1, <1>9, <1>1, <1>2, SoonTypes DEF OpLands
<1>10. CASE OpTargetGone(s)
  <2>1. ShownTypes' /\ latched' \in BOOLEAN
    BY <1>10, <1>2, <1>3, <1>4 DEF OpTargetGone, Unlatched
  <2>2. QED
    BY <2>1, <1>10, <1>1, <1>2, SoonTypes DEF OpTargetGone
<1>11. ASSUME NEW leg \in Legs, PrefileLands(s, leg) PROVE TypeOK'
  <2>1. ops[s].cfg \in Configs
    BY <1>11 DEF PrefileLands, Answers, OpTypes, Ops
  <2>2. ShownTypes' /\ latched' \in BOOLEAN
    BY <1>11, <1>2, <2>1 DEF PrefileLands, Unlatched, ShownTypes, Prefiles
  <2>3. QED
    BY <2>2, <1>11, <1>1, <1>2, SoonTypes DEF PrefileLands
<1>12. QED
  BY <1>6, <1>7, <1>8, <1>9, <1>10, <1>11 DEF OpAnswer

\* A lease renewed keeps the types.
LEMMA RenewTypes == ASSUME TypeOK, NEW starts \in BOOLEAN, Renew(starts) PROVE TypeOK'
<1> USE TypeParts
<1>1. /\ UNCHANGED <<cfg, hasConfig, rerun, latched, scope, cache, prefiled, ops, busy, down>>
      /\ leased' = TRUE
  BY DEF Renew, configVars, shownVars, opVars
<1>2. ShownTypes' /\ OpTypes'
  BY <1>1 DEF ShownTypes, OpTypes
<1>3. CASE starts
  <2> DEFINE shown == IF ~watching /\ state = "idle" THEN "pending" ELSE state
  <2>1. StartCycle(TRUE, timer, cycle) /\ state' = Reported(TRUE, cycle, shown)
    BY <1>3 DEF Renew
  <2>2. shown \in States
    BY DEF RestTypes, States
  <2>3. watching' \in BOOLEAN /\ timer' \in BOOLEAN /\ cycle' \in Cycles /\ owed' \in BOOLEAN
    BY <2>1, <1>1, StartCycleTypes DEF PollTypes, RestTypes, ShownTypes
  <2>4. QED
    BY <2>1, <2>2, <2>3, <1>1, <1>2, ReportedTypes DEF PollTypes, RestTypes
<1>4. CASE ~starts
  BY <1>4, <1>1, <1>2 DEF Renew, PollTypes, RestTypes
<1>5. QED
  BY <1>3, <1>4
\* Sending a request keeps the types; a prefile takes a real config along.
LEMMA SendTypes ==
  ASSUME TypeOK, NEW s \in Slots, NEW kind \in OpKinds, NEW leg \in Legs \cup {None},
         Send(s, kind, leg)
  PROVE  TypeOK'
<1> USE TypeParts
<1> DEFINE with == IF kind = "prefile" THEN cfg ELSE None
<1>1. cfg \in Configs /\ with \in Configs \cup {None}
  BY DEF Send, MaySend, RestTypes
<1>2. [kind |-> kind, leg |-> leg, cfg |-> with] \in Ops
  BY <1>1 DEF Ops
<1>3. ops' = [ops EXCEPT ![s] = [kind |-> kind, leg |-> leg, cfg |-> with]]
  BY DEF Send
<1>4. ops' \in [Slots -> Ops]
  BY <1>2, <1>3 DEF OpTypes
<1>5. \A t \in Slots : ops'[t].kind = "prefile" => ops'[t].cfg # None
  BY <1>1, <1>3, NoneAssumption DEF OpTypes
<1>6. busy' \subseteq SingleFlight
  BY DEF Send, OpTypes
<1>7. QED
  BY <1>4, <1>5, <1>6
  DEF Send, OpTypes, PollTypes, ShownTypes, RestTypes, configVars, pollVars, shownVars

\* A reload keeps the types.
LEMMA ConfigAppliedTypes ==
  ASSUME TypeOK, NEW new \in Configs, ConfigApplied(new) PROVE TypeOK'
<1> USE TypeParts
<1> DEFINE shown == IF state \in {"token-invalid", "no-config"}
                    THEN IF watching THEN "pending" ELSE "idle"
                    ELSE state
<1>1. /\ cfg' = new /\ hasConfig' = TRUE /\ latched' = FALSE
      /\ UNCHANGED <<leased, ops, busy, down>>
  BY DEF ConfigApplied, opVars
<1>2. ShownTypes'
  <2>1. scope \in Scopes /\ cache \in Keys
    BY DEF ShownTypes
  <2>2. CASE Dropped(scope, cache)
    BY <2>1, <2>2, DroppedTypes
  <2>3. CASE NotDropped
    BY <2>3 DEF NotDropped, shownVars, ShownTypes
  <2>4. QED
    BY <2>2, <2>3 DEF ConfigApplied
<1>3. shown \in States
  BY DEF States, RestTypes
<1>4. new # None
  BY NoneAssumption
<1>5. CASE watching /\ InFlight
  BY <1>1, <1>2, <1>3, <1>4, <1>5 DEF ConfigApplied, PollTypes, OpTypes, RestTypes
<1>6. CASE ~(watching /\ InFlight)
  <2>1. StartCycle(watching, timer, cycle) /\ rerun' = rerun
        /\ state' = Reported(watching, cycle, shown)
    BY <1>6 DEF ConfigApplied
  <2>2. watching' \in BOOLEAN /\ timer' \in BOOLEAN /\ cycle' \in Cycles /\ owed' \in BOOLEAN
    BY <2>1, <1>1, <1>2, StartCycleTypes DEF PollTypes, RestTypes, ShownTypes
  <2>3. QED
    BY <2>1, <2>2, <1>1, <1>2, <1>3, <1>4, ReportedTypes DEF PollTypes, OpTypes, RestTypes
<1>7. QED
  BY <1>5, <1>6

\* The steps that contact nobody keep the types.
LEMMA LocalTypes ==
  ASSUME TypeOK,
         WatchOn \/ WatchOff \/ Refresh \/ LeaseLapses \/ OnTimer \/ PrefileClear
           \/ ConfigRejected \/ Shutdown \/ Aborted \/ UNCHANGED vars
  PROVE  TypeOK'
<1> USE TypeParts
<1> USE DEF configVars, pollVars, shownVars, opVars
<1>1. CASE WatchOn \/ Refresh
  <2>1. (~watching) \in BOOLEAN /\ (~watching \/ (hasConfig /\ ~latched)) \in BOOLEAN
    OBVIOUS
  <2>2. CASE WatchOn
    <3>1. Renew(~watching)
      BY <2>2 DEF WatchOn
    <3>2. QED
      BY <2>1, <3>1, RenewTypes
  <2>3. CASE Refresh
    <3>1. Renew(~watching \/ (hasConfig /\ ~latched))
      BY <2>3 DEF Refresh
    <3>2. QED
      BY <2>1, <3>1, RenewTypes
  <2>4. QED
    BY <1>1, <2>2, <2>3
<1>2. CASE WatchOff \/ LeaseLapses
  BY <1>2 DEF WatchOff, LeaseLapses, PollTypes, ShownTypes, OpTypes, RestTypes
<1>3. CASE OnTimer
  <2>1. UNCHANGED <<cfg, hasConfig, leased, rerun, latched, scope, cache, prefiled, ops, busy, down>>
    BY <1>3 DEF OnTimer
  <2>2. ShownTypes' /\ OpTypes'
    BY <2>1 DEF ShownTypes, OpTypes
  <2>3. CASE LeaseOver
    <3>1. watching' = FALSE /\ timer' = FALSE /\ owed' = FALSE /\ state' = state /\ cycle' = cycle
      BY <1>3, <2>3 DEF OnTimer
    <3>2. QED
      BY <2>1, <2>2, <3>1 DEF PollTypes, RestTypes
  <2>4. CASE ~LeaseOver
    <3>1. StartCycle(watching, FALSE, cycle) /\ state' = Reported(watching, cycle, state)
      BY <1>3, <2>4 DEF OnTimer
    <3>2. watching' \in BOOLEAN /\ timer' \in BOOLEAN /\ cycle' \in Cycles /\ owed' \in BOOLEAN
      BY <3>1, <2>1, StartCycleTypes DEF PollTypes, RestTypes, ShownTypes
    <3>3. QED
      BY <3>1, <3>2, <2>1, <2>2, ReportedTypes DEF PollTypes, RestTypes
  <2>5. QED
    BY <2>3, <2>4
<1>4. CASE PrefileClear
  <2>1. ShownTypes'
    BY <1>4, DroppedTypes DEF PrefileClear, ShownTypes
  <2>2. OpTypes' /\ latched' \in BOOLEAN /\ state \in States
    BY <1>4 DEF PrefileClear, OpTypes, RestTypes
  <2>3. QED
    BY <1>4, <2>1, <2>2, SoonTypes DEF PrefileClear
<1>5. CASE ConfigRejected \/ Shutdown
  BY <1>5 DEF ConfigRejected, Shutdown, PollTypes, ShownTypes, OpTypes, RestTypes
<1>6. CASE Aborted
  <2>1. UNCHANGED <<cfg, hasConfig, watching, timer, rerun, owed, leased, state, latched,
                    scope, cache, prefiled, down>>
    BY <1>6 DEF Aborted
  <2>2. cycle' \in Cycles /\ OpTypes'
    <3>1. CASE cycle' = NoCycle /\ UNCHANGED <<ops, busy>>
      BY <3>1, CycleValues DEF OpTypes
    <3>2. CASE \E s \in Slots : /\ ops' = [ops EXCEPT ![s] = Free]
                                /\ busy' = busy \ {ops[s].kind} /\ UNCHANGED cycle
      <4>1. Free \in Ops
        BY DEF Free, Ops
      <4>2. QED
        BY <3>2, <4>1 DEF OpTypes, PollTypes, Free
    <3>3. QED
      BY <1>6, <3>1, <3>2 DEF Aborted
  <2>3. QED
    BY <2>1, <2>2 DEF PollTypes, ShownTypes, RestTypes
<1>7. CASE UNCHANGED vars
  BY <1>7 DEF vars, PollTypes, ShownTypes, OpTypes, RestTypes
<1>8. QED
  BY <1>1, <1>2, <1>3, <1>4, <1>5, <1>6, <1>7

LEMMA NextTypes == TypeOK /\ [Next]_vars => TypeOK'
BY CycleAnswerTypes, OpAnswerTypes, SendTypes, ConfigAppliedTypes, LocalTypes DEF Next

\* Every variable keeps the type TypeOK gives it; in particular a prefile
\* request always carries a real config.
THEOREM TypeCorrect == Spec => []TypeOK
<1>1. Init => TypeOK
  BY InitTypes
<1>2. TypeOK /\ [Next]_vars => TypeOK'
  BY NextTypes
<1>3. QED
  BY <1>1, <1>2, PTL DEF Spec
-----------------------------------------------------------------------------
(* The schedule: polling neither stalls nor runs for nobody, and a write is *)
(* followed by a cycle.                                                     *)

\* Shutdown owes nobody a cycle.
PollInv == NeverStalls /\ PollsOnlyWatched /\ WriteIsFollowedUp /\ (down => ~owed)

\* startCycle leaves the schedule in order if the timer it is given is, and a
\* write still owed its cycle has the rerun asked for.
LEMMA StartCyclePoll ==
  ASSUME NEW w \in BOOLEAN, NEW t \in BOOLEAN, NEW current \in Cycles,
         StartCycle(w, t, current), ~down',
         t => w /\ ~latched' /\ current.at = "none",
         owed /\ current.at # "none" => rerun'
  PROVE  PollInv'
<1>1. CASE ~Startable(w, current)
  BY <1>1 DEF StartCycle, Startable, PollInv, NeverStalls, PollsOnlyWatched, WriteIsFollowedUp, InFlight
<1>2. CASE Startable(w, current) /\ LeaseOver
  BY <1>2 DEF StartCycle, PollInv, NeverStalls, PollsOnlyWatched, WriteIsFollowedUp
<1>3. CASE Startable(w, current) /\ ~LeaseOver
  <2>1. watching' = w /\ timer' = FALSE /\ owed' = FALSE
        /\ cycle' = IF hasConfig' THEN [NoCycle EXCEPT !.at = "status", !.took = prefiled'.leg]
                                  ELSE NoCycle
    BY <1>3 DEF StartCycle
  <2>2. hasConfig' => InFlight'
    BY <2>1 DEF InFlight, NoCycle
  <2>3. QED
    BY <2>1, <2>2 DEF PollInv, NeverStalls, PollsOnlyWatched, WriteIsFollowedUp
<1>4. QED
  BY <1>1, <1>2, <1>3

LEMMA NoStartPoll ==
  ASSUME TypeOK, PollInv, NoStart, ~down', hasConfig' => hasConfig, ~latched' => ~latched, ~down
  PROVE  PollInv'
BY DEF NoStart, PollInv, NeverStalls, PollsOnlyWatched, WriteIsFollowedUp, InFlight, TypeOK

LEMMA CycleSoonPoll ==
  ASSUME TypeOK, PollInv, NEW write \in BOOLEAN, CycleSoon(write), ~down, ~down',
         hasConfig' => hasConfig, ~latched' => ~latched
  PROVE  PollInv'
<1>1. CASE NoStart
  BY <1>1, NoStartPoll
<1>2. CASE /\ watching /\ ~latched' /\ InFlight /\ rerun' = RerunAsked
           /\ owed' = (owed \/ (write /\ hasConfig'))
           /\ UNCHANGED <<watching, timer, cycle>>
  BY <1>2 DEF RerunAsked, PollInv, NeverStalls, PollsOnlyWatched, WriteIsFollowedUp, InFlight
<1>3. CASE watching /\ ~latched' /\ ~InFlight /\ StartCycle(watching, timer, cycle)
  <2>1. watching \in BOOLEAN /\ timer \in BOOLEAN /\ cycle \in Cycles
    BY DEF TypeOK
  <2>2. timer => watching /\ ~latched' /\ cycle.at = "none"
    BY <1>3 DEF InFlight
  <2>3. owed /\ cycle.at # "none" => rerun'
    BY <1>3 DEF InFlight
  <2>4. QED
    BY <1>3, <2>1, <2>2, <2>3, StartCyclePoll
<1>4. QED
  BY <1>1, <1>2, <1>3 DEF CycleSoon

LEMMA FinishPoll ==
  ASSUME TypeOK, PollInv, ~down, cycle.at # "none", NEW result, NEW sc, NEW ca, NEW pf,
         NEW again \in BOOLEAN, Finish(result, sc, ca, pf, again)
  PROVE  PollInv'
<1>1. down' = FALSE /\ (latched' = latched \/ latched' = TRUE) /\ rerun' = FALSE
  BY DEF Finish, Latch, TypeOK
<1>2. watching \in BOOLEAN /\ Scheduled \in BOOLEAN /\ (Scheduled <=> watching /\ ~latched')
  BY DEF TypeOK, Scheduled
<1>3. CASE rerun \/ again
  <2>1. StartCycle(watching, Scheduled, NoCycle)
    BY <1>3 DEF Finish
  <2>2. NoCycle.at = "none"
    BY DEF NoCycle
  <2>3. QED
    BY <2>1, <2>2, <1>1, <1>2, CycleValues, StartCyclePoll
<1>4. CASE ~(rerun \/ again)
  <2>1. cycle' = NoCycle /\ timer' = Scheduled /\ owed' = (owed /\ ~latched') /\ watching' = watching
    BY <1>4 DEF Finish
  <2>2. ~owed
    BY <1>4 DEF PollInv, WriteIsFollowedUp
  <2>3. ~InFlight'
    BY <2>1 DEF InFlight, NoCycle
  <2>4. QED
    BY <2>1, <2>2, <2>3, <1>1, <1>2 DEF PollInv, NeverStalls, PollsOnlyWatched, WriteIsFollowedUp
<1>5. QED
  BY <1>3, <1>4

LEMMA ResolvePoll ==
  ASSUME TypeOK, PollInv, cycle.at # "none", NEW sel, NEW sc, NEW ca, NEW pf,
         Resolve(sel, sc, ca, pf)
  PROVE  PollInv'
<1>1. cycle'.at = "thread"
  BY DEF Resolve, TypeOK, Cycles
<1>2. QED
  BY <1>1 DEF Resolve, configVars, PollInv, NeverStalls, PollsOnlyWatched, WriteIsFollowedUp, InFlight

\* Every step of the poll cycle is a finish, a resolve or the second request.
LEMMA CycleAnswerPoll == TypeOK /\ PollInv /\ CycleAnswer => PollInv'
<1> SUFFICES ASSUME TypeOK, PollInv, CycleAnswer PROVE PollInv'
  OBVIOUS
<1>1. ~down /\ cycle.at # "none"
  BY DEF CycleAnswer, StatusAnswer, GroundAnswer, ThreadAnswer
<1>2. ASSUME NEW sel, NEW sc, NEW ca, NEW pf, Resolve(sel, sc, ca, pf) PROVE PollInv'
  BY <1>1, <1>2, ResolvePoll
<1>3. CASE StatusAnswer
  <2>1. CASE \E result \in {"failed", "refused"} : Finish(result, scope, cache, prefiled, FALSE)
    BY <2>1, <1>1, FinishPoll
  <2>2. CASE /\ cycle' = [cycle EXCEPT !.at = "ground"]
             /\ UNCHANGED <<configVars, watching, timer, rerun, owed, leased, state, latched,
                            shownVars, opVars, down>>
    <3>1. cycle'.at = "ground"
      BY <2>2 DEF TypeOK, Cycles
    <3>2. QED
      BY <2>2, <1>1, <3>1
      DEF configVars, PollInv, NeverStalls, PollsOnlyWatched, WriteIsFollowedUp, InFlight
  <2>3. CASE \/ \E sc \in {scope, Unknown}, ca \in {cache, None}, pf \in {prefiled, NoPrefile} :
                  Resolve(Flight, sc, ca, pf)
             \/ Resolve(Leg(cycle.took, "prefile"), scope, cache, prefiled)
             \/ \E l \in Legs : Resolve(Leg(l, "status"), scope, cache, prefiled)
    BY <2>3, <1>2
  <2>4. QED
    BY <1>3, <2>1, <2>2, <2>3 DEF StatusAnswer
<1>4. CASE GroundAnswer
  <2>1. CASE \E result \in {"failed", "refused"} : Finish(result, scope, cache, prefiled, FALSE)
    BY <2>1, <1>1, FinishPoll
  <2>2. CASE Finish("ok", NoScope, None, prefiled, FALSE)
    BY <2>2, <1>1, FinishPoll
  <2>3. CASE \E l \in Legs : Resolve(Leg(l, "ground-session"), scope, cache, prefiled)
    BY <2>3, <1>2
  <2>4. QED
    BY <1>4, <2>1, <2>2, <2>3 DEF GroundAnswer
<1>5. CASE ThreadAnswer
  <2>1. CASE Finish("failed", Unknown, None, NoPrefile, TRUE)
    BY <2>1, <1>1, FinishPoll
  <2>2. CASE \E result \in {"ok", "failed", "refused"} : Finish(result, Unknown, None, prefiled, FALSE)
    BY <2>2, <1>1, FinishPoll
  <2>3. CASE \E result \in {"failed", "refused"} : Finish(result, cycle.sel, cache, prefiled, FALSE)
    BY <2>3, <1>1, FinishPoll
  <2>4. CASE Finish("ok", cycle.sel, Key(cycle.sel), prefiled, FALSE)
    BY <2>4, <1>1, FinishPoll
  <2>5. QED
    BY <1>5, <2>1, <2>2, <2>3, <2>4 DEF ThreadAnswer
<1>6. QED
  BY <1>3, <1>4, <1>5 DEF CycleAnswer

\* Every other step keeps the schedule in order.
LEMMA OpAnswerPoll ==
  ASSUME TypeOK, PollInv, NEW s \in Slots, OpAnswer(s) PROVE PollInv'
<1>1. \E these : Answers(s, these)
  BY DEF OpAnswer, OpRefused, OpChangesNothing, OpFails, OpLands, OpTargetGone, PrefileLands
<1>2. ~down /\ ~down' /\ hasConfig' = hasConfig /\ (hasConfig' => hasConfig)
  BY <1>1 DEF Answers, configVars
<1>3. ~latched' => ~latched
  BY DEF OpAnswer, OpRefused, OpChangesNothing, OpFails, OpLands, OpTargetGone, PrefileLands,
         Unlatched, Latch
<1>4. CASE OpRefused(s)
  BY <1>4, <1>2, <1>3, NoStartPoll DEF OpRefused
<1>5. CASE OpChangesNothing(s)
  BY <1>5, <1>2
  DEF OpChangesNothing, Unlatched, pollVars, PollInv, NeverStalls, PollsOnlyWatched,
      WriteIsFollowedUp, InFlight
<1>6. CASE OpFails(s)
  <2>1. NoStart \/ CycleSoon(TRUE)
    BY <1>6 DEF OpFails
  <2>2. QED
    BY <2>1, <1>2, <1>3, NoStartPoll, CycleSoonPoll
<1>7. CASE OpLands(s)
  BY <1>7, <1>2, <1>3, CycleSoonPoll DEF OpLands
<1>8. CASE OpTargetGone(s)
  BY <1>8, <1>2, <1>3, CycleSoonPoll DEF OpTargetGone
<1>9. CASE \E leg \in Legs : PrefileLands(s, leg)
  BY <1>9, <1>2, <1>3, CycleSoonPoll DEF PrefileLands
<1>10. QED
  BY <1>4, <1>5, <1>6, <1>7, <1>8, <1>9 DEF OpAnswer
LEMMA LocalPoll ==
  ASSUME TypeOK, PollInv,
         WatchOn \/ WatchOff \/ Refresh \/ LeaseLapses \/ OnTimer \/ PrefileClear
           \/ ConfigRejected \/ Shutdown \/ Aborted \/ UNCHANGED vars
           \/ (\E s \in Slots, kind \in OpKinds, leg \in Legs \cup {None} : Send(s, kind, leg))
  PROVE  PollInv'
<1> USE DEF configVars, pollVars
<1>1. /\ watching \in BOOLEAN /\ timer \in BOOLEAN /\ latched \in BOOLEAN /\ cycle \in Cycles
      /\ hasConfig \in BOOLEAN
  BY DEF TypeOK
<1>2. ASSUME NEW starts \in BOOLEAN, Renew(starts), ~down, ~watching => starts PROVE PollInv'
  <2>1. /\ UNCHANGED <<cfg, hasConfig, rerun, latched, down>>
    BY <1>2 DEF Renew
  <2>2. CASE starts
    <3>1. StartCycle(TRUE, timer, cycle)
      BY <1>2, <2>2 DEF Renew
    <3>2. timer => ~latched' /\ cycle.at = "none"
      BY <2>1 DEF PollInv, PollsOnlyWatched, InFlight
    <3>3. owed /\ cycle.at # "none" => rerun'
      BY <2>1 DEF PollInv, WriteIsFollowedUp
    <3>4. QED
      BY <1>1, <1>2, <2>1, <3>1, <3>2, <3>3, StartCyclePoll
  <2>3. CASE ~starts
    BY <1>2, <2>1, <2>3 DEF Renew, PollInv, NeverStalls, PollsOnlyWatched, WriteIsFollowedUp, InFlight
  <2>4. QED
    BY <2>2, <2>3
<1>3. CASE WatchOn
  <2>1. (~watching) \in BOOLEAN /\ Renew(~watching) /\ ~down
    BY <1>3 DEF WatchOn
  <2>2. QED
    BY <2>1, <1>2
<1>4. CASE Refresh
  <2>1. /\ (~watching \/ (hasConfig /\ ~latched)) \in BOOLEAN
        /\ Renew(~watching \/ (hasConfig /\ ~latched)) /\ ~down
    BY <1>4 DEF Refresh
  <2>2. QED
    BY <2>1, <1>2
<1>5. CASE WatchOff \/ LeaseLapses \/ Shutdown \/ UNCHANGED vars
  BY <1>5 DEF WatchOff, LeaseLapses, Shutdown, vars, PollInv, NeverStalls, PollsOnlyWatched,
              WriteIsFollowedUp, InFlight
<1>6. CASE OnTimer
  <2>1. ~down' /\ timer
    BY <1>6 DEF OnTimer
  <2>2. CASE LeaseOver
    BY <1>6, <2>2 DEF OnTimer, PollInv, NeverStalls, PollsOnlyWatched, WriteIsFollowedUp
  <2>3. CASE ~LeaseOver
    <3>1. StartCycle(watching, FALSE, cycle)
      BY <1>6, <2>3 DEF OnTimer
    <3>2. cycle.at = "none"
      BY <2>1 DEF PollInv, PollsOnlyWatched, InFlight
    <3>3. QED
      BY <1>1, <2>1, <3>1, <3>2, StartCyclePoll
  <2>4. QED
    BY <2>2, <2>3
<1>7. CASE PrefileClear
  <2>1. ~down /\ ~down' /\ (hasConfig' => hasConfig) /\ (~latched' => ~latched) /\ CycleSoon(FALSE)
    BY <1>7 DEF PrefileClear
  <2>2. QED
    BY <2>1, CycleSoonPoll
<1>8. CASE ConfigRejected
  <2>1. hasConfig' = hasConfig \/ hasConfig' = FALSE
    BY <1>8 DEF ConfigRejected
  <2>2. hasConfig' => hasConfig
    BY <2>1
  <2>3. owed' => owed
    BY <1>8 DEF ConfigRejected
  <2>4. UNCHANGED <<watching, timer, cycle, rerun, latched, down>>
    BY <1>8 DEF ConfigRejected
  <2>5. QED
    BY <2>2, <2>3, <2>4 DEF PollInv, NeverStalls, PollsOnlyWatched, WriteIsFollowedUp, InFlight
<1>9. CASE Aborted
  BY <1>9 DEF Aborted, PollInv, NeverStalls, PollsOnlyWatched, WriteIsFollowedUp, InFlight
<1>10. CASE \E s \in Slots, kind \in OpKinds, leg \in Legs \cup {None} : Send(s, kind, leg)
  BY <1>10 DEF Send, PollInv, NeverStalls, PollsOnlyWatched, WriteIsFollowedUp, InFlight
<1>11. QED
  BY <1>3, <1>4, <1>5, <1>6, <1>7, <1>8, <1>9, <1>10

LEMMA ConfigAppliedPoll ==
  ASSUME TypeOK, PollInv, NEW new \in Configs, ConfigApplied(new) PROVE PollInv'
<1>1. ~down' /\ hasConfig' = TRUE /\ latched' = FALSE
  BY DEF ConfigApplied
<1>2. /\ watching \in BOOLEAN /\ timer \in BOOLEAN /\ cycle \in Cycles
  BY DEF TypeOK
<1>3. CASE watching /\ InFlight
  BY <1>1, <1>3 DEF ConfigApplied, PollInv, NeverStalls, PollsOnlyWatched, WriteIsFollowedUp, InFlight
<1>4. CASE ~(watching /\ InFlight)
  <2>1. StartCycle(watching, timer, cycle) /\ rerun' = rerun
    BY <1>4 DEF ConfigApplied
  <2>2. timer => watching /\ ~latched' /\ cycle.at = "none"
    BY <1>1 DEF PollInv, PollsOnlyWatched, InFlight
  <2>3. owed /\ cycle.at # "none" => rerun'
    BY <2>1 DEF PollInv, WriteIsFollowedUp
  <2>4. QED
    BY <1>1, <1>2, <2>1, <2>2, <2>3, StartCyclePoll
<1>5. QED
  BY <1>3, <1>4

LEMMA InitPoll == Init => PollInv
BY DEF Init, PollInv, NeverStalls, PollsOnlyWatched, WriteIsFollowedUp

LEMMA NextPoll == TypeOK /\ PollInv /\ [Next]_vars => PollInv'
BY CycleAnswerPoll, OpAnswerPoll, ConfigAppliedPoll, LocalPoll DEF Next

\* While pages watch, the poll is in flight or scheduled, it is never scheduled
\* for nobody or beside a cycle, and the cycle a write asked for comes.
THEOREM ScheduleIsKept == Spec => []PollsWhileWatched
<1>1. Init => PollInv
  BY InitPoll
<1>2. TypeOK /\ PollInv /\ [Next]_vars => PollInv'
  BY NextPoll
<1>3. PollInv => PollsWhileWatched
  BY DEF PollInv, PollsWhileWatched
<1>4. QED
  BY <1>1, <1>2, <1>3, TypeCorrect, PTL DEF Spec
-----------------------------------------------------------------------------
(* The single-flight guards.                                               *)

\* An answer frees its slot and its flag together.
LEMMA AnswersOnce ==
  ASSUME TypeOK, OneOfEachWrite, NEW s \in Slots,
         ops' = [ops EXCEPT ![s] = Free], busy' = busy \ {ops[s].kind}
  PROVE  OneOfEachWrite'
<1>1. \A t \in Slots : ops'[t] = IF t = s THEN Free ELSE ops[t]
  BY DEF TypeOK
<1>2. Free.kind \notin SingleFlight
  BY DEF Free, SingleFlight
<1>3. ASSUME NEW kind \in SingleFlight
      PROVE  kind \in busy' <=> \E t \in Slots : ops'[t].kind = kind
  <2>1. CASE kind = ops[s].kind
    BY <1>1, <1>2, <2>1 DEF OneOfEachWrite
  <2>2. CASE kind # ops[s].kind
    BY <1>1, <1>2, <2>2 DEF OneOfEachWrite
  <2>3. QED
    BY <2>1, <2>2
<1>4. QED
  BY <1>1, <1>2, <1>3 DEF OneOfEachWrite

\* A request is sent only while its flag is down.
LEMMA SendOnce ==
  ASSUME TypeOK, OneOfEachWrite, NEW s \in Slots, NEW kind \in OpKinds,
         NEW leg \in Legs \cup {None}, Send(s, kind, leg)
  PROVE  OneOfEachWrite'
<1>1. \A t \in Slots : ops'[t].kind = IF t = s THEN kind ELSE ops[t].kind
  BY DEF Send, TypeOK
<1>2. ops[s].kind \notin SingleFlight /\ kind \notin busy
  BY DEF Send, MaySend, Free, SingleFlight
<1>3. busy' = busy \cup ({kind} \cap SingleFlight)
  BY DEF Send
<1>4. ASSUME NEW k \in SingleFlight
      PROVE  k \in busy' <=> \E t \in Slots : ops'[t].kind = k
  BY <1>1, <1>2, <1>3 DEF OneOfEachWrite
<1>5. ASSUME NEW k \in SingleFlight, NEW t \in Slots, NEW u \in Slots,
             ops'[t].kind = k, ops'[u].kind = k
      PROVE  t = u
  BY <1>1, <1>2, <1>5 DEF OneOfEachWrite
<1>6. QED
  BY <1>4, <1>5 DEF OneOfEachWrite

LEMMA NextOnce == TypeOK /\ OneOfEachWrite /\ [Next]_vars => OneOfEachWrite'
<1> SUFFICES ASSUME TypeOK, OneOfEachWrite, [Next]_vars PROVE OneOfEachWrite'
  OBVIOUS
<1>1. UNCHANGED opVars => OneOfEachWrite'
  BY DEF opVars, OneOfEachWrite
<1>2. ASSUME NEW result, NEW sc, NEW ca, NEW pf, NEW again, Finish(result, sc, ca, pf, again)
      PROVE  UNCHANGED opVars
  BY <1>2 DEF Finish
<1>3. ASSUME NEW sel, NEW sc, NEW ca, NEW pf, Resolve(sel, sc, ca, pf)
      PROVE  UNCHANGED opVars
  BY <1>3 DEF Resolve
<1>4. CASE CycleAnswer
  <2>1. CASE StatusAnswer
    BY <1>1, <1>2, <1>3, <2>1 DEF StatusAnswer
  <2>2. CASE GroundAnswer
    BY <1>1, <1>2, <1>3, <2>2 DEF GroundAnswer
  <2>3. CASE ThreadAnswer
    BY <1>1, <1>2, <2>3 DEF ThreadAnswer
  <2>4. QED
    BY <1>4, <2>1, <2>2, <2>3 DEF CycleAnswer
<1>5. ASSUME NEW s \in Slots, OpAnswer(s) PROVE OneOfEachWrite'
  <2>1. PICK these \in {OpKinds, OpKinds \ {"prefile"}, {"canned", "write"},
                        {"write", "clearance", "si"}, {"prefile"}} : Answers(s, these)
    BY <1>5
    DEF OpAnswer, OpRefused, OpChangesNothing, OpFails, OpLands, OpTargetGone, PrefileLands
  <2>2. QED
    BY <2>1, AnswersOnce DEF Answers
<1>6. CASE WatchOn \/ WatchOff \/ Refresh \/ LeaseLapses \/ OnTimer \/ PrefileClear
           \/ ConfigRejected \/ Shutdown \/ UNCHANGED vars
           \/ \E new \in Configs : ConfigApplied(new)
  BY <1>1, <1>6 DEF WatchOn, Refresh, Renew, WatchOff, LeaseLapses, OnTimer, PrefileClear,
                    ConfigRejected, Shutdown, ConfigApplied, vars
<1>7. CASE Aborted
  <2>1. CASE UNCHANGED opVars
    BY <1>1, <2>1
  <2>2. CASE \E s \in Slots : /\ ops' = [ops EXCEPT ![s] = Free]
                              /\ busy' = busy \ {ops[s].kind}
    BY <2>2, AnswersOnce
  <2>3. QED
    BY <1>7, <2>1, <2>2 DEF Aborted
<1>8. QED
  BY <1>4, <1>5, <1>6, <1>7, SendOnce DEF Next

\* At most one prefile, one clearance and one SayIntentions action is open at a
\* time, whatever else is in flight, reloaded, refused or aborted.
THEOREM WritesAreSingle == Spec => []OneOfEachWrite
<1>1. Init => OneOfEachWrite
  BY DEF Init, OneOfEachWrite, Free, SingleFlight
<1>2. TypeOK /\ OneOfEachWrite /\ [Next]_vars => OneOfEachWrite'
  BY NextOnce
<1>3. QED
  BY <1>1, <1>2, TypeCorrect, PTL DEF Spec
-----------------------------------------------------------------------------
(* The scope and the thread shown for it.                                  *)

\* What the published scope, thread key and prefiled leg must agree on.
Agree(sc, ca, pf) ==
  /\ sc.source = "prefile" => pf # NoPrefile
  /\ ca # None => ca = Key(sc)

\* While a thread is asked for, the cached one is that thread's or none.
ThreadAsked == cycle.at = "thread" => cache \in {None, Key(cycle.sel)}

ShownInv == Agree(scope, cache, prefiled) /\ ThreadAsked

LEMMA StartCycleAt ==
  ASSUME NEW w, NEW t, NEW current, StartCycle(w, t, current)
  PROVE  cycle' = current \/ cycle'.at # "thread"
<1>1. \A l : [NoCycle EXCEPT !.at = "status", !.took = l].at = "status"
  BY DEF NoCycle
<1>2. NoCycle.at = "none"
  BY DEF NoCycle
<1>3. \/ cycle' = current \/ cycle' = NoCycle
      \/ cycle' = [NoCycle EXCEPT !.at = "status", !.took = prefiled'.leg]
  BY DEF StartCycle
<1>4. QED
  BY <1>1, <1>2, <1>3

\* Whatever a step does to the schedule, it moves no cycle to its thread request.
LEMMA CycleSoonAt ==
  ASSUME NEW write, CycleSoon(write)
  PROVE  cycle' = cycle \/ cycle'.at # "thread"
BY StartCycleAt DEF CycleSoon, NoStart

LEMMA DroppedAgree ==
  ASSUME NEW sc, NEW ca, NEW pf, Agree(sc, ca, pf), Dropped(sc, ca)
  PROVE  Agree(scope', cache', prefiled') /\ cache' \in {None, ca}
BY DEF Agree, Dropped, DropsScope, Unknown

LEMMA FinishShown ==
  ASSUME NEW result, NEW sc, NEW ca, NEW pf, NEW again \in BOOLEAN, Agree(sc, ca, pf),
         Finish(result, sc, ca, pf, again)
  PROVE  ShownInv'
<1>1. Agree(scope', cache', prefiled')
  BY DroppedAgree DEF Finish, Latch
<1>2. cycle'.at # "thread"
  <2>1. NoCycle.at # "thread"
    BY DEF NoCycle
  <2>2. CASE rerun \/ again
    <3>1. StartCycle(watching, Scheduled, NoCycle)
      BY <2>2 DEF Finish
    <3>2. QED
      BY <2>1, <3>1, StartCycleAt
  <2>3. CASE ~(rerun \/ again)
    BY <2>1, <2>3 DEF Finish
  <2>4. QED
    BY <2>2, <2>3
<1>3. QED
  BY <1>1, <1>2 DEF ShownInv, ThreadAsked, Agree

LEMMA ResolveShown ==
  ASSUME TypeOK, NEW sel, NEW sc, NEW ca, NEW pf, Agree(sc, ca, pf), Resolve(sel, sc, ca, pf)
  PROVE  ShownInv'
<1>1. scope' = sc /\ prefiled' = pf /\ cache' = Kept(sel, ca)
  BY DEF Resolve
<1>2. cycle'.sel = sel
  BY DEF Resolve, TypeOK, Cycles
<1>3. QED
  BY <1>1, <1>2 DEF ShownInv, ThreadAsked, Agree, Kept

\* Nothing but the schedule moves, or the prefiled leg is dropped as well.
LEMMA QuietShown ==
  ASSUME ShownInv, cycle' = cycle \/ cycle'.at # "thread",
         UNCHANGED shownVars \/ Dropped(scope, cache)
  PROVE  ShownInv'
<1>1. Agree(scope', cache', prefiled') /\ cache' \in {None, cache}
  BY DroppedAgree DEF ShownInv, shownVars
<1>2. QED
  BY <1>1 DEF ShownInv, ThreadAsked, Agree
LEMMA CycleAnswerShown == TypeOK /\ ShownInv /\ CycleAnswer => ShownInv'
<1> SUFFICES ASSUME TypeOK, ShownInv, CycleAnswer PROVE ShownInv'
  OBVIOUS
<1>1. /\ Agree(scope, cache, prefiled)
      /\ Agree(Unknown, None, prefiled) /\ Agree(NoScope, None, prefiled)
      /\ Agree(Unknown, None, NoPrefile)
  BY DEF ShownInv, Agree, Unknown, NoScope
<1>2. CASE StatusAnswer
  <2>1. CASE \E result \in {"failed", "refused"} : Finish(result, scope, cache, prefiled, FALSE)
    BY <2>1, <1>1, FinishShown
  <2>2. CASE LET ends == cycle.took # None /\ prefiled.leg = cycle.took
                 drops == ends /\ DropsScope(scope) IN
             Resolve(Flight, IF drops THEN Unknown ELSE scope, IF drops THEN None ELSE cache,
                     IF ends THEN NoPrefile ELSE prefiled)
    <3> DEFINE ends == cycle.took # None /\ prefiled.leg = cycle.took
               drops == ends /\ DropsScope(scope)
               sc == IF drops THEN Unknown ELSE scope
               ca == IF drops THEN None ELSE cache
               pf == IF ends THEN NoPrefile ELSE prefiled
    <3>1. Agree(sc, ca, pf)
      BY <1>1 DEF Agree, DropsScope
    <3>2. Resolve(Flight, sc, ca, pf)
      BY <2>2
    <3> HIDE DEF sc, ca, pf
    <3>3. QED
      BY <3>1, <3>2, ResolveShown
  <2>3. CASE \/ Resolve(Leg(cycle.took, "prefile"), scope, cache, prefiled)
             \/ \E l \in Legs : Resolve(Leg(l, "status"), scope, cache, prefiled)
    BY <2>3, <1>1, ResolveShown
  <2>4. CASE cycle' = [cycle EXCEPT !.at = "ground"] /\ UNCHANGED shownVars
    <3>1. cycle'.at # "thread"
      BY <2>4 DEF TypeOK, Cycles
    <3>2. QED
      BY <2>4, <3>1, QuietShown
  <2>5. QED
    BY <1>2, <2>1, <2>2, <2>3, <2>4 DEF StatusAnswer
<1>3. CASE GroundAnswer
  <2>1. CASE \E result \in {"failed", "refused"} : Finish(result, scope, cache, prefiled, FALSE)
    BY <2>1, <1>1, FinishShown
  <2>2. CASE Finish("ok", NoScope, None, prefiled, FALSE)
    BY <2>2, <1>1, FinishShown
  <2>3. CASE \E l \in Legs : Resolve(Leg(l, "ground-session"), scope, cache, prefiled)
    BY <2>3, <1>1, ResolveShown
  <2>4. QED
    BY <1>3, <2>1, <2>2, <2>3 DEF GroundAnswer
<1>4. CASE ThreadAnswer
  <2>1. CASE Finish("failed", Unknown, None, NoPrefile, TRUE)
    BY <2>1, <1>1, FinishShown
  <2>2. CASE \E result \in {"ok", "failed", "refused"} : Finish(result, Unknown, None, prefiled, FALSE)
    BY <2>2, <1>1, FinishShown
  <2>3. ASSUME ~Stale(cycle.sel)
        PROVE  Agree(cycle.sel, cache, prefiled) /\ Agree(cycle.sel, Key(cycle.sel), prefiled)
    <3>1. cycle.sel.source = "prefile" => prefiled # NoPrefile
      <4>1. cycle.sel.source = "prefile" => cycle.sel.leg \in Legs
        BY DEF TypeOK, Cycles, LegScopes, Leg, Unknown, Flight
      <4>2. QED
        BY <2>3, <4>1, NoneAssumption DEF Stale, NoPrefile
    <3>2. cache \in {None, Key(cycle.sel)}
      BY <1>4 DEF ShownInv, ThreadAsked, ThreadAnswer
    <3>3. QED
      BY <3>1, <3>2 DEF Agree
  <2>4. CASE /\ ~Stale(cycle.sel)
             /\ \E result \in {"failed", "refused"} : Finish(result, cycle.sel, cache, prefiled, FALSE)
    BY <2>3, <2>4, FinishShown
  <2>5. CASE ~Stale(cycle.sel) /\ Finish("ok", cycle.sel, Key(cycle.sel), prefiled, FALSE)
    BY <2>3, <2>5, FinishShown
  <2>6. QED
    BY <1>4, <2>1, <2>2, <2>4, <2>5 DEF ThreadAnswer
<1>5. QED
  BY <1>2, <1>3, <1>4 DEF CycleAnswer

LEMMA OpAnswerShown == ASSUME TypeOK, ShownInv, NEW s \in Slots, OpAnswer(s) PROVE ShownInv'
<1>1. CASE OpRefused(s)
  BY <1>1, QuietShown DEF OpRefused, NoStart, Latch
<1>2. CASE OpChangesNothing(s)
  BY <1>2, QuietShown DEF OpChangesNothing, NotDropped, pollVars
<1>3. CASE OpFails(s)
  BY <1>3, QuietShown, CycleSoonAt DEF OpFails, NotDropped, NoStart
<1>4. CASE OpLands(s)
  BY <1>4, QuietShown, CycleSoonAt DEF OpLands, NotDropped
<1>5. CASE OpTargetGone(s)
  BY <1>5, QuietShown, CycleSoonAt DEF OpTargetGone, NotDropped
<1>6. ASSUME NEW leg \in Legs, PrefileLands(s, leg) PROVE ShownInv'
  <2>1. prefiled' # NoPrefile
    BY <1>6, NoneAssumption DEF PrefileLands, NoPrefile
  <2>2. Agree(scope', cache', prefiled') /\ cache' = cache
    BY <1>6, <2>1 DEF PrefileLands, ShownInv, Agree
  <2>3. cycle' = cycle \/ cycle'.at # "thread"
    BY <1>6, CycleSoonAt DEF PrefileLands
  <2>4. QED
    BY <2>2, <2>3 DEF ShownInv, ThreadAsked, Agree
<1>7. QED
  BY <1>1, <1>2, <1>3, <1>4, <1>5, <1>6 DEF OpAnswer

LEMMA LocalShown ==
  ASSUME TypeOK, ShownInv,
         WatchOn \/ WatchOff \/ Refresh \/ LeaseLapses \/ OnTimer \/ PrefileClear
           \/ ConfigRejected \/ Shutdown \/ Aborted \/ UNCHANGED vars
           \/ (\E s \in Slots, kind \in OpKinds, leg \in Legs \cup {None} : Send(s, kind, leg))
           \/ (\E new \in Configs : ConfigApplied(new))
  PROVE  ShownInv'
<1> USE DEF pollVars
<1>1. ASSUME NEW starts, Renew(starts) PROVE ShownInv'
  BY <1>1, StartCycleAt, QuietShown DEF Renew
<1>2. CASE WatchOn \/ Refresh
  BY <1>1, <1>2 DEF WatchOn, Refresh
<1>3. CASE WatchOff \/ LeaseLapses \/ ConfigRejected \/ Shutdown \/ UNCHANGED vars
  BY <1>3, QuietShown DEF WatchOff, LeaseLapses, ConfigRejected, Shutdown, vars
<1>4. CASE OnTimer
  BY <1>4, StartCycleAt, QuietShown DEF OnTimer
<1>5. CASE PrefileClear
  BY <1>5, CycleSoonAt, QuietShown DEF PrefileClear
<1>6. CASE Aborted
  <2>1. UNCHANGED shownVars /\ (cycle' = NoCycle \/ cycle' = cycle)
    BY <1>6 DEF Aborted
  <2>2. QED
    BY <2>1, QuietShown DEF NoCycle
<1>7. CASE \E s \in Slots, kind \in OpKinds, leg \in Legs \cup {None} : Send(s, kind, leg)
  BY <1>7, QuietShown DEF Send
<1>8. CASE \E new \in Configs : ConfigApplied(new)
  BY <1>8, StartCycleAt, QuietShown DEF ConfigApplied, NotDropped
<1>9. QED
  BY <1>2, <1>3, <1>4, <1>5, <1>6, <1>7, <1>8

LEMMA NextShown == TypeOK /\ ShownInv /\ [Next]_vars => ShownInv'
BY CycleAnswerShown, OpAnswerShown, LocalShown DEF Next

\* No prefiled leg is shown that nobody holds any more, and no thread is shown
\* under another scope's line.
THEOREM ShownAgrees == Spec => []ScopeLineIsTrue
<1>1. Init => ShownInv
  BY DEF Init, ShownInv, Agree, ThreadAsked, Unknown, NoCycle
<1>2. TypeOK /\ ShownInv /\ [Next]_vars => ShownInv'
  BY NextShown
<1>3. ShownInv => ScopeLineIsTrue
  BY DEF ShownInv, Agree, PrefileScopeIsHeld, ThreadMatchesScope, ScopeLineIsTrue
<1>4. QED
  BY <1>1, <1>2, <1>3, TypeCorrect, PTL DEF Spec
-----------------------------------------------------------------------------
(* What may start a cycle or a request.                                    *)

\* A step leaves the cycle alone, ends it or brings it forward; one that starts
\* a cycle has a lease and no refused token in front of it.
Onward == cycle' \in {cycle, NoCycle} \/ AwaitsLeft[cycle'.at] < AwaitsLeft[cycle.at]
Licensed == Onward \/ (leased' /\ ~latched')

LEMMA StartCycleLicensed ==
  ASSUME NEW w, NEW t, NEW current, StartCycle(w, t, current)
  PROVE  cycle' \in {current, NoCycle} \/ (leased' /\ ~latched')
BY DEF StartCycle, Startable, LeaseOver

LEMMA CycleSoonLicensed == ASSUME NEW write, CycleSoon(write) PROVE Licensed
BY StartCycleLicensed DEF CycleSoon, NoStart, Licensed, Onward

LEMMA FinishLicensed ==
  ASSUME NEW result, NEW sc, NEW ca, NEW pf, NEW again \in BOOLEAN,
         Finish(result, sc, ca, pf, again)
  PROVE  Licensed
<1>2. CASE rerun \/ again
  <2>1. StartCycle(watching, Scheduled, NoCycle)
    BY <1>2 DEF Finish
  <2>2. QED
    BY <2>1, StartCycleLicensed DEF Licensed, Onward
<1>3. CASE ~(rerun \/ again)
  BY <1>3 DEF Finish, Licensed, Onward
<1>4. QED
  BY <1>2, <1>3

LEMMA NextLicensed == TypeOK /\ [Next]_vars => Licensed
<1> SUFFICES ASSUME TypeOK, [Next]_vars PROVE Licensed
  OBVIOUS
<1> USE DEF pollVars
<1>1. ASSUME NEW sel, NEW sc, NEW ca, NEW pf, Resolve(sel, sc, ca, pf),
             cycle.at \in {"status", "ground"}
      PROVE  Licensed
  <2>1. cycle'.at = "thread"
    BY <1>1 DEF Resolve, TypeOK, Cycles
  <2>2. QED
    BY <1>1, <2>1 DEF Licensed, Onward, AwaitsLeft
<1>2. CASE StatusAnswer
  <2>1. CASE \E result \in {"failed", "refused"} : Finish(result, scope, cache, prefiled, FALSE)
    BY <2>1, FinishLicensed
  <2>2. CASE cycle' = [cycle EXCEPT !.at = "ground"]
    BY <1>2, <2>2 DEF StatusAnswer, TypeOK, Cycles, Licensed, Onward, AwaitsLeft
  <2>3. CASE \/ \E sc \in {scope, Unknown}, ca \in {cache, None}, pf \in {prefiled, NoPrefile} :
                  Resolve(Flight, sc, ca, pf)
             \/ Resolve(Leg(cycle.took, "prefile"), scope, cache, prefiled)
             \/ \E l \in Legs : Resolve(Leg(l, "status"), scope, cache, prefiled)
    BY <1>2, <2>3, <1>1 DEF StatusAnswer
  <2>4. QED
    BY <1>2, <2>1, <2>2, <2>3 DEF StatusAnswer
<1>3. CASE GroundAnswer
  <2>1. CASE \E result \in {"failed", "refused"} : Finish(result, scope, cache, prefiled, FALSE)
    BY <2>1, FinishLicensed
  <2>2. CASE Finish("ok", NoScope, None, prefiled, FALSE)
    BY <2>2, FinishLicensed
  <2>3. CASE \E l \in Legs : Resolve(Leg(l, "ground-session"), scope, cache, prefiled)
    BY <1>3, <2>3, <1>1 DEF GroundAnswer
  <2>4. QED
    BY <1>3, <2>1, <2>2, <2>3 DEF GroundAnswer
<1>4. CASE ThreadAnswer
  <2>1. CASE Finish("failed", Unknown, None, NoPrefile, TRUE)
    BY <2>1, FinishLicensed
  <2>2. CASE \E result \in {"ok", "failed", "refused"} : Finish(result, Unknown, None, prefiled, FALSE)
    BY <2>2, FinishLicensed
  <2>3. CASE \E result \in {"failed", "refused"} : Finish(result, cycle.sel, cache, prefiled, FALSE)
    BY <2>3, FinishLicensed
  <2>4. CASE Finish("ok", cycle.sel, Key(cycle.sel), prefiled, FALSE)
    BY <2>4, FinishLicensed
  <2>5. QED
    BY <1>4, <2>1, <2>2, <2>3, <2>4 DEF ThreadAnswer
<1>5. ASSUME NEW s \in Slots, OpAnswer(s) PROVE Licensed
  <2>1. CASE OpRefused(s) \/ OpChangesNothing(s)
    BY <2>1 DEF OpRefused, OpChangesNothing, NoStart, Licensed, Onward
  <2>2. CASE OpFails(s)
    BY <2>2, CycleSoonLicensed DEF OpFails, NoStart, Licensed, Onward
  <2>3. CASE OpLands(s) \/ OpTargetGone(s) \/ \E leg \in Legs : PrefileLands(s, leg)
    BY <2>3, CycleSoonLicensed DEF OpLands, OpTargetGone, PrefileLands
  <2>4. QED
    BY <1>5, <2>1, <2>2, <2>3 DEF OpAnswer
<1>6. CASE \E s \in Slots, kind \in OpKinds, leg \in Legs \cup {None} : Send(s, kind, leg)
  BY <1>6 DEF Send, Licensed, Onward
<1>7. ASSUME NEW starts, Renew(starts) PROVE Licensed
  BY <1>7, StartCycleLicensed DEF Renew, Licensed, Onward
<1>8. CASE WatchOn \/ Refresh
  BY <1>7, <1>8 DEF WatchOn, Refresh
<1>9. CASE WatchOff \/ LeaseLapses \/ ConfigRejected \/ Shutdown \/ UNCHANGED vars
  BY <1>9 DEF WatchOff, LeaseLapses, ConfigRejected, Shutdown, vars, Licensed, Onward
<1>10. CASE OnTimer
  BY <1>10, StartCycleLicensed DEF OnTimer, Licensed, Onward
<1>11. CASE PrefileClear
  BY <1>11, CycleSoonLicensed DEF PrefileClear
<1>12. CASE \E new \in Configs : ConfigApplied(new)
  BY <1>12, StartCycleLicensed DEF ConfigApplied, Licensed, Onward
<1>13. CASE Aborted
  BY <1>13 DEF Aborted, Licensed, Onward
<1>14. QED
  BY <1>2, <1>3, <1>4, <1>5, <1>6, <1>8, <1>9, <1>10, <1>11, <1>12, <1>13
  DEF Next, CycleAnswer

\* The server is polled only while a page holds the lease.
THEOREM PollsAreLeased == Spec => NoBackgroundPolling
<1>1. TypeOK /\ [Next]_vars => [cycle'.at = "status" /\ cycle' # cycle => leased']_vars
  <2> SUFFICES ASSUME TypeOK, [Next]_vars, cycle'.at = "status", cycle' # cycle
               PROVE  leased'
    OBVIOUS
  <2>1. cycle' # NoCycle
    BY DEF NoCycle
  <2>2. ~(AwaitsLeft[cycle'.at] < AwaitsLeft[cycle.at])
    BY DEF AwaitsLeft, TypeOK, Cycles
  <2>3. QED
    BY <2>1, <2>2, NextLicensed DEF Licensed, Onward
<1>2. QED
  BY <1>1, TypeCorrect, PTL DEF Spec, NoBackgroundPolling
\* Only Send fills a slot, and never on a refused token.
LEMMA NextSends ==
  TypeOK /\ latched' /\ [Next]_vars => \A t \in Slots : ops[t] = Free => ops'[t] = Free
<1> SUFFICES ASSUME TypeOK, latched', [Next]_vars, NEW t \in Slots, ops[t] = Free
             PROVE  ops'[t] = Free
  OBVIOUS
<1>1. ASSUME NEW result, NEW sc, NEW ca, NEW pf, NEW again, Finish(result, sc, ca, pf, again)
      PROVE  UNCHANGED ops
  BY <1>1 DEF Finish, opVars
<1>2. ASSUME NEW sel, NEW sc, NEW ca, NEW pf, Resolve(sel, sc, ca, pf)
      PROVE  UNCHANGED ops
  BY <1>2 DEF Resolve, opVars
<1>3. CASE CycleAnswer
  <2>1. CASE StatusAnswer
    BY <1>1, <1>2, <2>1 DEF StatusAnswer, opVars
  <2>2. CASE GroundAnswer
    BY <1>1, <1>2, <2>2 DEF GroundAnswer
  <2>3. CASE ThreadAnswer
    BY <1>1, <2>3 DEF ThreadAnswer
  <2>4. QED
    BY <1>3, <2>1, <2>2, <2>3 DEF CycleAnswer
<1>4. ASSUME NEW s \in Slots, OpAnswer(s) PROVE ops' = [ops EXCEPT ![s] = Free]
  BY <1>4 DEF OpAnswer, OpRefused, OpChangesNothing, OpFails, OpLands, OpTargetGone, PrefileLands,
              Answers
<1>5. CASE \E s \in Slots : OpAnswer(s)
  BY <1>4, <1>5 DEF TypeOK
<1>6. CASE WatchOn \/ WatchOff \/ Refresh \/ LeaseLapses \/ OnTimer \/ PrefileClear
           \/ ConfigRejected \/ Shutdown \/ UNCHANGED vars
           \/ \E new \in Configs : ConfigApplied(new)
  BY <1>6 DEF WatchOn, Refresh, Renew, WatchOff, LeaseLapses, OnTimer, PrefileClear,
              ConfigRejected, Shutdown, ConfigApplied, vars, opVars
<1>7. CASE Aborted
  BY <1>7 DEF Aborted, opVars, TypeOK
<1>8. CASE \E s \in Slots, kind \in OpKinds, leg \in Legs \cup {None} : Send(s, kind, leg)
  BY <1>8 DEF Send, MaySend
<1>9. QED
  BY <1>3, <1>5, <1>6, <1>7, <1>8 DEF Next

\* After a refused token no request is started, by a timer, a page, an op or a
\* rerun, in the step that learns of it or later: the rest of the cycle in flight
\* is all that still leaves, and it only goes forward.
THEOREM RefusalIsObeyed == Spec => RefusalStopsRequests
<1> DEFINE A == latched' =>
                  /\ cycle' \in {cycle, NoCycle} \/ AwaitsLeft[cycle'.at] < AwaitsLeft[cycle.at]
                  /\ \A s \in Slots : ops[s] = Free => ops'[s] = Free
<1>1. TypeOK /\ [Next]_vars => [A]_vars
  BY NextLicensed, NextSends DEF Licensed, Onward
<1>2. QED
  BY <1>1, TypeCorrect, PTL DEF Spec, RefusalStopsRequests

\* After a refusal, whichever call brought it, nothing leaves but at most the two
\* GETs the cycle in flight has left, and no poll starts without a lease.
THEOREM RequestsAreAlwaysWanted == Spec => RequestsAreWanted
  BY PollsAreLeased, RefusalIsObeyed DEF RequestsAreWanted

-----------------------------------------------------------------------------
(* The words about a write are true, for every number of presses.          *)
(*                                                                         *)
(* Two facts carry the proof.  The classifiers never make a refusal of an  *)
(* exchange the server carried out or may still carry out (WordOfCode).    *)
(* And whoever tells the page "not done" without having asked has let the  *)
(* write go before the server saw it (Standing).                           *)

Around ==
  /\ host \in {"shell", "other", "lacking"} /\ build \in {"new", "old"}
  /\ kinds \in [Presses -> Kinds]
  /\ sidecar \in {"up", "stopping", "gone"} /\ token \in {"none", "good", "refused"}

\* What holds of one press, w being its record.
Standing(w) ==
  /\ w \in Write
  /\ w.page = "idle" => w.side = "none" /\ w.shell = "none" /\ w.server = "unsent" /\ ~w.cut
  /\ w.side \in {"queued", "piped"} => w.server = "unsent"
  /\ w.page = "done" => w.server = "done"
  /\ w.page = "not done" /\ ~w.cut =>
       w.side \in {"none", "over"} /\ w.server \notin {"done", "away"}
Alone(w) == w.side = "none" /\ w.shell = "none"   \* no shell is involved
Inv ==
  /\ Around
  /\ \A p \in Presses : Standing(writes[p])
  /\ host # "shell" => \A p \in Presses : Alone(writes[p])
  /\ writes \in [Presses -> Write]

-----------------------------------------------------------------------------
(* What the classifiers make of a reply, and the pages of a code.          *)

\* None of the codes the families document is taken for success, and none is the stray one.
LEMMA CodesAreCodes ==
  \A codes \in {FormCodes, PrefileCodes, ClearanceCodes, SiCodes} : "ok" \notin codes /\ "stray" \notin codes
  BY DEF FormCodes, PrefileCodes, ClearanceCodes, SiCodes

LEMMA JudgedOk ==
  ASSUME NEW reply, NEW codes, "ok" \notin codes, NEW unavailable, unavailable # "ok",
         NEW tooLarge, tooLarge # "ok", Judged(reply, codes, unavailable, tooLarge) = "ok"
  PROVE  reply.status = "2xx"
<1> SUFFICES ASSUME reply.status # "2xx" PROVE FALSE
  OBVIOUS
<1>1. reply.body # "huge"
  BY DEF Judged
<1>2. reply.status # "401"
  BY <1>1 DEF Judged
<1>3. reply.status # "403"
  BY <1>1, <1>2 DEF Judged
<1> QED
  BY <1>1, <1>2, <1>3 DEF Judged

LEMMA OkIs2xx ==
  ASSUME NEW kind \in Kinds, NEW reply, Classified(kind, reply) = "ok"
  PROVE  reply.status = "2xx" /\ (kind \in Named => reply.body # "foreign")
<1>1. CASE kind = "canned"
  BY <1>1, CodesAreCodes, JudgedOk DEF Classified, ClassifiedForm, Named, SiKinds
<1>2. CASE kind \in {"wx", "loadsheet"}
  <2>1. ClassifiedForm(reply) = "ok"
    BY <1>2 DEF Classified, Projected, SiKinds
  <2> QED
    BY <1>2, <2>1, CodesAreCodes, JudgedOk DEF ClassifiedForm, Named, SiKinds
<1>3. CASE kind = "prefile"
  <2>1. ClassifiedPrefile(reply) = "ok"
    BY <1>3 DEF Classified, Projected, SiKinds
  <2> QED
    BY <1>3, <2>1, CodesAreCodes, JudgedOk DEF ClassifiedPrefile, Named, SiKinds
<1>4. CASE kind = "clearance"
  <2>1. ClassifiedClearance(reply) = "ok" /\ ClearanceProjects(reply)
    BY <1>4 DEF Classified, Projected, SiKinds
  <2> QED
    BY <2>1, CodesAreCodes, JudgedOk DEF ClassifiedClearance, ClearanceProjects
<1>5. CASE kind \in SiKinds
  <2>1. ClassifiedSi(reply) = "ok" /\ SiProjects(reply)
    BY <1>5 DEF Classified, Projected, SiKinds
  <2> QED
    BY <2>1, CodesAreCodes, JudgedOk DEF ClassifiedSi, SiProjects
<1> QED
  BY <1>1, <1>2, <1>3, <1>4, <1>5 DEF Kinds, Forms

LEMMA OnlyDoneIsOk ==
  ASSUME NEW kind \in Kinds, NEW server, NEW code \in Codes(kind, server), Word(kind, code) = "done"
  PROVE  server = "done"
<1>1. code = "ok"
  BY DEF Word
<1>2. code \notin Failures(server)
  BY <1>1 DEF Failures
<1>3. PICK reply \in Replies(kind, server) : code = Classified(kind, reply)
  BY <1>2 DEF Codes
<1>4. reply.status = "2xx" /\ (kind \in Named => reply.body # "foreign")
  BY <1>1, <1>3, OkIs2xx
<1>5. server \in {"done", "refused"}
  BY <1>3 DEF Replies
<1>6. ASSUME server = "refused" PROVE FALSE
  <2>1. reply \in Response({"401", "403", "other"}, AnyCode, BOOLEAN, {"whole", "broken", "huge"})
          \/ (kind \in Named /\ reply \in Response({"2xx"}, {"stray"}, {FALSE}, {"foreign"}))
    BY <1>3, <1>6 DEF Replies
  <2> QED
    BY <1>4, <2>1 DEF Response
<1> QED
  BY <1>5, <1>6

\* What a server that did it can be heard to say.
LEMMA DoneReply ==
  ASSUME NEW kind, NEW reply \in Replies(kind, "done")
  PROVE  reply.status \in {"2xx", "other"} /\ CodeOf(reply) = "stray"
  BY DEF Replies, Response, CodeOf

LEMMA JudgedDone ==
  ASSUME NEW reply, reply.status \in {"2xx", "other"}, CodeOf(reply) = "stray", NEW codes,
         "stray" \notin codes, NEW unavailable, NEW tooLarge
  PROVE  Judged(reply, codes, unavailable, tooLarge) \in {tooLarge, "bad-response", "ok", "http-error"}
  BY DEF Judged

LEMMA ClassifiedDone ==
  ASSUME NEW kind \in Kinds, NEW reply \in Replies(kind, "done")
  PROVE  Classified(kind, reply) \in {"ok", "too-large", "bad-response", "http-error"}
<1>1. /\ ClassifiedForm(reply) \in {"bad-response", "ok", "http-error"}
      /\ ClassifiedPrefile(reply) \in {"bad-response", "ok", "http-error"}
      /\ ClassifiedClearance(reply) \in {"bad-response", "ok", "http-error"}
      /\ ClassifiedSi(reply) \in {"too-large", "bad-response", "ok", "http-error"}
  BY DoneReply, JudgedDone, CodesAreCodes
     DEF ClassifiedForm, ClassifiedPrefile, ClassifiedClearance, ClassifiedSi
<1> QED
  BY <1>1 DEF Classified, Projected, Kinds, SiKinds, Forms

\* Of a write that was done, or may yet be, no page says that it was not.
LEMMA WordOfCode ==
  ASSUME NEW kind \in Kinds, NEW server \in {"done", "away"}, NEW code \in Codes(kind, server)
  PROVE  Word(kind, code) # "not done"
<1>1. Failures(server) = {"timeout", "unreachable"} /\ Replies(kind, "away") = {}
  BY DEF Failures, Replies
<1>2. code = "ok" \/ code \in UnknownOutcome
  BY <1>1, ClassifiedDone DEF Codes, UnknownOutcome
<1> QED
  BY <1>2 DEF Word, IsUnknownOutcome

-----------------------------------------------------------------------------
(* What telling the page does to a press that stands.                      *)

Fits(w, word) ==
  /\ word = "done" => w.server = "done"
  /\ word = "not done" => w.cut \/ (w.side \in {"none", "over"} /\ w.server \notin {"done", "away"})

LEMMA WordType == \A kind, code : Word(kind, code) \in {"done", "not done", "maybe"}
  BY DEF Word

LEMMA TellStands ==
  ASSUME NEW w, Standing(w), NEW kind, NEW code, Fits(w, Word(kind, code))
  PROVE  Standing(Tell(w, kind, code)) /\ (Alone(w) => Alone(Tell(w, kind, code)))
<1> DEFINE word == Word(kind, code)
<1>1. word \in {"done", "not done", "maybe"}
  BY WordType
<1> HIDE DEF word
<1>2. Tell(w, kind, code) = [w EXCEPT !.page = IF w.page = "waiting" THEN word ELSE w.page]
  BY DEF Tell, Standing, Write, word
<1>3. Fits(w, word)
  BY DEF word
<1> QED
  BY <1>1, <1>2, <1>3 DEF Standing, Fits, Alone, Write

LEMMA AnsweredStands ==
  ASSUME NEW w, Standing(w), NEW kind, NEW code, w.shell = "waiting" => Fits(w, Word(kind, code)),
         w.page # "idle"
  PROVE  Standing(Answered(w, kind, code)) /\ (Alone(w) => Alone(Answered(w, kind, code)))
<1>1. CASE w.shell = "waiting"
  <2> DEFINE v == [w EXCEPT !.shell = "over"]
  <2>1. Standing(v) /\ Fits(v, Word(kind, code))
    BY <1>1 DEF Standing, Fits, Write
  <2>2. ~Alone(w) /\ Answered(w, kind, code) = Tell(v, kind, code)
    BY <1>1 DEF Alone, Answered
  <2> HIDE DEF v
  <2> QED
    BY <2>1, <2>2, TellStands
<1>2. CASE w.shell # "waiting"
  BY <1>2 DEF Answered
<1> QED
  BY <1>1, <1>2

\* The sidecar lets go of a press and answers it.
LEMMA EndStands ==
  ASSUME NEW w, Standing(w), w.side # "none", NEW kind, NEW code, NEW v,
         v \in {[w EXCEPT !.side = "over"], [w EXCEPT !.side = "over", !.cut = TRUE]},
         Fits(v, Word(kind, code))
  PROVE  Standing(Answered(v, kind, code))
<1>1. Standing(v) /\ v.page # "idle"
  BY DEF Standing, Write
<1> QED
  BY <1>1, AnsweredStands

-----------------------------------------------------------------------------
(* Steps.                                                                  *)

\* A step that changes one press, and leaves it standing, keeps the invariant.
LEMMA OnePress ==
  ASSUME Inv, Around', host' = host, NEW p \in Presses, NEW w, Standing(w),
         host # "shell" => Alone(w), writes' = [writes EXCEPT ![p] = w]
  PROVE  Inv'
<1>1. \A q \in Presses : writes'[q] = IF q = p THEN w ELSE writes[q]
  BY DEF Inv
<1>2. writes' \in [Presses -> Write]
  BY DEF Inv, Standing
<1> QED
  BY <1>1, <1>2 DEF Inv

\* The families the single-flight guards are about, and their codes.
LEMMA Families == \A kind \in Kinds \ Forms : Family(kind) \in {"clearance", "prefile", "si"}
  BY DEF Kinds, Forms, Family

LEMMA Guards == \A kind \in Kinds \ Forms : InProgress[Family(kind)] # "ok"
<1>1. \A family \in {"clearance", "prefile", "si"} : InProgress[family] # "ok"
  BY DEF InProgress
<1> QED
  BY <1>1, Families

\* A code nobody knows leaves it open.
LEMMA Unheard == \A kind \in Kinds \ Forms : "a code of its own" \notin Errors[Family(kind)]
<1>1. "a code of its own" \notin SharedErrors
  BY DEF SharedErrors, UnknownOutcome
<1>2. /\ "a code of its own" \notin PrefileErrors
      /\ "a code of its own" \notin ClearanceErrors
      /\ "a code of its own" \notin SiErrors
  BY <1>1 DEF PrefileErrors, ClearanceErrors, SiErrors, PrefileCodes, ClearanceCodes, SiCodes
<1>3. \A family \in {"clearance", "prefile", "si"} : "a code of its own" \notin Errors[family]
  <2>1. /\ Errors["prefile"] = PrefileErrors
        /\ Errors["clearance"] = ClearanceErrors
        /\ Errors["si"] = SiErrors
    BY DEF Errors
  <2> QED
    BY <1>2, <2>1
<1> QED
  BY <1>3, Families

LEMMA PressStands == ASSUME Inv, NEW p \in Presses, Press(p) PROVE Inv'
<1> DEFINE pressed == [writes[p] EXCEPT !.page = "waiting"]
<1>1. Around' /\ host' = host /\ Standing(pressed) /\ Alone(pressed) /\ pressed.server = "unsent"
  BY DEF Press, Rest, Inv, Around, At, Standing, Alone, Write
<1>2. ASSUME NEW code, Word(kinds[p], code) # "done", writes' = [writes EXCEPT ![p] = Tell(pressed, kinds[p], code)]
      PROVE  Inv'
  <2>1. Fits(pressed, Word(kinds[p], code))
    BY <1>1, <1>2 DEF Fits, Alone
  <2>2. Standing(Tell(pressed, kinds[p], code)) /\ Alone(Tell(pressed, kinds[p], code))
    BY <1>1, <2>1, TellStands
  <2> QED
    BY <1>1, <1>2, <2>2, OnePress
<1>3. CASE host = "other"
  <2>1. writes' = [writes EXCEPT ![p] = pressed]
    BY <1>3 DEF Press
  <2> HIDE DEF pressed
  <2> QED
    BY <1>1, <2>1, OnePress
<1>4. CASE host = "lacking"
  BY <1>2, <1>4 DEF Press, Word
<1>5. CASE host \notin {"other", "lacking"}
  <2> DEFINE queued == [pressed EXCEPT !.shell = "waiting", !.side = "queued"]
  <2>1. CASE writes' = [writes EXCEPT ![p] = queued]
    <3>1. Standing(queued) /\ host = "shell"
      BY <1>1, <1>5 DEF Standing, Write, Inv, Around
    <3> HIDE DEF queued
    <3> QED
      BY <1>1, <2>1, <3>1, OnePress
  <2>2. ASSUME NEW code \in RefusedAtOnce(p) \cup (IF sidecar = "up" THEN {} ELSE {"sidecar-unavailable"}),
               writes' = [writes EXCEPT ![p] = Tell(pressed, kinds[p], code)]
        PROVE  Inv'
    <3>1. kinds[p] \in Kinds
      BY DEF Inv, Around
    <3>2. code # "ok"
      BY <3>1, Guards DEF RefusedAtOnce, Guarded
    <3> QED
      BY <1>2, <2>2, <3>2 DEF Word
  <2> QED
    BY <1>5, <2>1, <2>2 DEF Press
<1> QED
  BY <1>3, <1>4, <1>5

\* A press the sidecar has in hand, and lets go of with a code that fits.
LEMMA EndsStands ==
  ASSUME Inv, NEW p \in Presses, writes[p].side # "none", NEW code, Ends(p, code), Around', host' = host,
         Fits([writes[p] EXCEPT !.side = "over"], Word(kinds[p], code))
  PROVE  Inv'
<1> DEFINE w == Answered([writes[p] EXCEPT !.side = "over"], kinds[p], code)
<1>1. Standing(w)
  BY EndStands DEF Inv
<1>2. host = "shell"
  BY DEF Inv, Alone
<1>3. writes' = [writes EXCEPT ![p] = w]
  BY DEF Ends
<1> HIDE DEF w
<1> QED
  BY <1>1, <1>2, <1>3, OnePress

LEMMA RelayStands == ASSUME Inv, NEW p \in Presses, Relay(p) PROVE Inv'
<1>1. Around' /\ host' = host /\ writes[p].side = "queued" /\ writes[p].server = "unsent" /\ host = "shell"
  BY DEF Relay, Rest, Inv, Around, At, Standing, Alone
<1>2. CASE writes' = [writes EXCEPT ![p].side = "piped"]
  <2> DEFINE w == [writes[p] EXCEPT !.side = "piped"]
  <2>1. Standing(w) /\ writes' = [writes EXCEPT ![p] = w]
    BY <1>1, <1>2 DEF Standing, Inv, Write
  <2> HIDE DEF w
  <2> QED
    BY <1>1, <2>1, OnePress
<1>3. ASSUME NEW code \in {"busy", "sidecar-unavailable"}, Ends(p, code) PROVE Inv'
  <2>1. Fits([writes[p] EXCEPT !.side = "over"], Word(kinds[p], code))
    BY <1>1 DEF Fits, Word, Inv, Standing, Write
  <2> QED
    BY <1>1, <1>3, <2>1, EndsStands
<1> QED
  BY <1>2, <1>3 DEF Relay

LEMMA TakeStands == ASSUME Inv, NEW p \in Presses, Take(p) PROVE Inv'
<1>1. Around' /\ host' = host /\ writes[p].side = "piped" /\ writes[p].server = "unsent" /\ host = "shell"
  BY DEF Take, Rest, Inv, Around, At, Standing, Alone
<1>2. CASE Asks(p)
  <2> DEFINE w == [writes[p] EXCEPT !.side = "asking", !.server = "away"]
  <2>1. Standing(w) /\ writes' = [writes EXCEPT ![p] = w]
    BY <1>1, <1>2 DEF Standing, Inv, Write, Asks
  <2> HIDE DEF w
  <2> QED
    BY <1>1, <2>1, OnePress
<1>3. ASSUME NEW code, code # "ok", Ends(p, code) PROVE Inv'
  <2>1. Fits([writes[p] EXCEPT !.side = "over"], Word(kinds[p], code))
    BY <1>1, <1>3 DEF Fits, Word, Inv, Standing, Write
  <2> QED
    BY <1>1, <1>3, <2>1, EndsStands
<1>4. CASE sidecar = "stopping"
  BY <1>3, <1>4 DEF Take
<1>5. CASE sidecar = "up" /\ \E q \in Presses : Guarded(p, q) /\ At(q, "side", "asking")
  <2>1. kinds[p] \in Kinds \ Forms
    BY <1>5 DEF Inv, Around, Guarded
  <2>2. Ends(p, InProgress[Family(kinds[p])]) /\ InProgress[Family(kinds[p])] # "ok"
    BY <1>5, <2>1, Guards DEF Take
  <2> QED
    BY <1>3, <2>2
<1>6. CASE ~(sidecar = "stopping") /\ ~(sidecar = "up" /\ \E q \in Presses : Guarded(p, q) /\ At(q, "side", "asking"))
  <2>1. token \in {"none", "good", "refused"}
    BY DEF Inv, Around
  <2> QED
    BY <1>2, <1>3, <1>6, <2>1 DEF Take
<1> QED
  BY <1>4, <1>5, <1>6

LEMMA ServerStands == ASSUME Inv, NEW p \in Presses, ServerAnswers(p) PROVE Inv'
<1>1. PICK fate \in {"done", "refused", "lost"} : writes' = [writes EXCEPT ![p].server = fate]
  BY DEF ServerAnswers
<1> DEFINE w == [writes[p] EXCEPT !.server = fate]
<1>2. Around' /\ host' = host /\ writes[p].server = "away"
  BY DEF ServerAnswers, Rest, Inv, Around, At
<1>3. Standing(w) /\ (host # "shell" => Alone(w)) /\ writes' = [writes EXCEPT ![p] = w]
  BY <1>1, <1>2 DEF Standing, Inv, Write, Alone
<1> HIDE DEF w
<1> QED
  BY <1>2, <1>3, OnePress

LEMMA ConcludesStands == ASSUME Inv, NEW p \in Presses, Concludes(p) PROVE Inv'
<1>1. PICK code \in Codes(kinds[p], writes[p].server) :
        Ends(p, code) /\ token' = IF code = "token-invalid" THEN "refused" ELSE token
  BY DEF Concludes
<1>2. Around' /\ host' = host /\ writes[p].side = "asking" /\ kinds[p] \in Kinds
  BY <1>1 DEF Concludes, Inv, Around, At
<1>3. Fits([writes[p] EXCEPT !.side = "over"], Word(kinds[p], code))
  BY <1>1, <1>2, OnlyDoneIsOk, WordOfCode DEF Fits, Inv, Standing, Write
<1> QED
  BY <1>1, <1>2, <1>3, EndsStands

LEMMA CutOffStands == ASSUME Inv, NEW p \in Presses, CutOff(p) PROVE Inv'
<1> DEFINE v == [writes[p] EXCEPT !.side = "over", !.cut = TRUE]
           w == Answered(v, kinds[p], "sidecar-unavailable")
<1>1. Around' /\ host' = host /\ writes[p].side = "asking" /\ host = "shell" /\ Standing(writes[p])
  BY DEF CutOff, Rest, Inv, Around, At, Alone
<1>2. Fits(v, Word(kinds[p], "sidecar-unavailable"))
  BY <1>1 DEF Fits, Word, Standing, Write
<1>3. Standing(w)
  BY <1>1, <1>2, EndStands
<1>4. writes' = [writes EXCEPT ![p] = w]
  BY DEF CutOff
<1> HIDE DEF w
<1> QED
  BY <1>1, <1>3, <1>4, OnePress

\* What leaves it open is always fitting.
LEMMA OpenFits ==
  ASSUME NEW w, NEW kind, NEW code \in UnknownOutcome
  PROVE  Fits(w, Word(kind, code))
  BY DEF Fits, Word, IsUnknownOutcome, UnknownOutcome

LEMMA TimeoutStands == ASSUME Inv, NEW p \in Presses, ShellTimesOut(p) PROVE Inv'
<1> DEFINE w == Answered(writes[p], kinds[p], "shell-timeout")
<1>1. Around' /\ host' = host /\ Standing(writes[p]) /\ writes[p].page # "idle"
  BY DEF ShellTimesOut, Rest, Inv, Around, At, Standing
<1>2. Standing(w) /\ (host # "shell" => Alone(w))
  BY <1>1, OpenFits, AnsweredStands DEF UnknownOutcome, Inv
<1>3. writes' = [writes EXCEPT ![p] = w]
  BY DEF ShellTimesOut, Told
<1> HIDE DEF w
<1> QED
  BY <1>1, <1>2, <1>3, OnePress

LEMMA HostFailsStands == ASSUME Inv, NEW p \in Presses, HostFails(p) PROVE Inv'
<1> DEFINE w == Tell(writes[p], kinds[p], "host-error")
<1>1. Around' /\ host' = host /\ Standing(writes[p])
  BY DEF HostFails, Rest, Inv, Around
<1>2. Standing(w) /\ (host # "shell" => Alone(w))
  BY <1>1, OpenFits, TellStands DEF UnknownOutcome, Inv
<1>3. writes' = [writes EXCEPT ![p] = w]
  BY DEF HostFails, Heard
<1> HIDE DEF w
<1> QED
  BY <1>1, <1>2, <1>3, OnePress

LEMMA OtherHostStands == ASSUME Inv, NEW p \in Presses, OtherHostAnswers(p) PROVE Inv'
<1>1. PICK fate \in {"done", "refused"} :
        \E envelope : /\ fate = "refused" => envelope # "ok"
                      /\ fate = "done" => envelope \in {"broken", "a code of its own", "foreign", "ok"}
                      /\ writes' = [writes EXCEPT ![p] = Tell([@ EXCEPT !.server = fate], kinds[p], Heard(envelope))]
  BY DEF OtherHostAnswers
<1>2. PICK envelope : /\ fate = "refused" => envelope # "ok"
                      /\ fate = "done" => envelope \in {"broken", "a code of its own", "foreign", "ok"}
                      /\ writes' = [writes EXCEPT ![p] = Tell([@ EXCEPT !.server = fate], kinds[p], Heard(envelope))]
  BY <1>1
<1> DEFINE v == [writes[p] EXCEPT !.server = fate]
           w == Tell(v, kinds[p], Heard(envelope))
<1>3. Around' /\ host' = host /\ Alone(writes[p]) /\ Standing(writes[p]) /\ writes[p].page = "waiting"
  BY DEF OtherHostAnswers, Rest, Inv, Around, At
<1>4. Standing(v) /\ Alone(v) /\ v.server = fate
  BY <1>3 DEF Standing, Write, Alone
<1>5. Fits(v, Word(kinds[p], Heard(envelope)))
  <2>1. CASE fate = "refused"
    BY <1>2, <1>4, <2>1 DEF Fits, Word, Heard, Alone
  <2>2. CASE fate = "done"
    <3>1. Heard(envelope) \in {"bad-response", "a code of its own", "ok"}
      BY <1>2, <2>2 DEF Heard
    <3>2. kinds[p] \in Forms \/ "a code of its own" \notin Errors[Family(kinds[p])]
      BY Unheard DEF Inv, Around
    <3>3. Word(kinds[p], Heard(envelope)) # "not done"
      BY <3>1, <3>2 DEF Word, IsUnknownOutcome, UnknownOutcome
    <3> QED
      BY <1>4, <2>2, <3>3 DEF Fits
  <2> QED
    BY <2>1, <2>2
<1>6. Standing(w) /\ Alone(w)
  BY <1>4, <1>5, TellStands
<1>7. writes' = [writes EXCEPT ![p] = w]
  BY <1>2
<1> HIDE DEF w
<1> QED
  BY <1>3, <1>6, <1>7, OnePress

LEMMA ReloadStands == ASSUME Inv, PanelReloads PROVE Inv'
<1>1. Around' /\ host' = host
  BY DEF PanelReloads, Rest, Inv, Around
<1>2. \A p \in Presses :
        writes'[p] = [writes[p] EXCEPT !.page = IF writes[p].page = "idle" THEN writes[p].page ELSE "left"]
  BY DEF PanelReloads
<1>3. ASSUME NEW p \in Presses PROVE Standing(writes'[p]) /\ (Alone(writes[p]) => Alone(writes'[p]))
  <2>1. CASE writes[p].page = "idle"
    <3> DEFINE w == writes[p]
    <3>1. Standing(w) /\ w.page = "idle" /\ writes'[p] = [w EXCEPT !.page = "idle"]
      BY <1>2, <2>1 DEF Inv
    <3> HIDE DEF w
    <3>2. [w EXCEPT !.page = "idle"] = w
      BY <3>1 DEF Standing, Write
    <3> QED
      BY <3>1, <3>2 DEF w
  <2>2. CASE writes[p].page # "idle"
    <3> DEFINE w == writes[p]
    <3>1. Standing(w) /\ writes'[p] = [w EXCEPT !.page = "left"]
      BY <1>2, <2>2 DEF Inv
    <3> HIDE DEF w
    <3>2. Standing([w EXCEPT !.page = "left"]) /\ (Alone(w) => Alone([w EXCEPT !.page = "left"]))
      BY <3>1 DEF Standing, Write, Alone
    <3> QED
      BY <3>1, <3>2 DEF w
  <2> QED
    BY <2>1, <2>2
<1>4. writes' = [p \in Presses |-> writes'[p]]
  BY DEF PanelReloads
<1> QED
  BY <1>1, <1>3, <1>4 DEF Inv, Standing

LEMMA ExitStands == ASSUME Inv, SidecarExits PROVE Inv'
<1>1. Around' /\ host' = host
  BY DEF SidecarExits, Inv, Around
<1>2. ASSUME NEW p \in Presses PROVE Standing(writes'[p]) /\ (Alone(writes[p]) => Alone(writes'[p]))
  <2> DEFINE v == [writes[p] EXCEPT !.side = "over"]
  <2>1. CASE writes[p].side \in {"piped", "asking"}
    <3>1. writes'[p] = Answered(v, kinds[p], "sidecar-exited")
      BY <2>1 DEF SidecarExits
    <3>2. Standing(Answered(v, kinds[p], "sidecar-exited"))
      BY <2>1, OpenFits, EndStands DEF Inv, UnknownOutcome
    <3>3. ~Alone(writes[p])
      BY <2>1 DEF Alone
    <3> QED
      BY <3>1, <3>2, <3>3
  <2>2. CASE writes[p].side \notin {"piped", "asking"}
    BY <2>2 DEF SidecarExits, Inv
  <2> QED
    BY <2>1, <2>2
<1>3. writes' = [p \in Presses |-> writes'[p]]
  BY DEF SidecarExits
<1> QED
  BY <1>1, <1>2, <1>3 DEF Inv, Standing

LEMMA NextStands == ASSUME Inv, [NextOutcome]_outcomeVars PROVE Inv'
<1>1. ASSUME NEW p \in Presses,
             \/ Press(p) \/ Relay(p) \/ Take(p) \/ ServerAnswers(p) \/ Concludes(p) \/ CutOff(p)
             \/ ShellTimesOut(p) \/ HostFails(p) \/ OtherHostAnswers(p)
      PROVE  Inv'
  BY <1>1, PressStands, RelayStands, TakeStands, ServerStands, ConcludesStands, CutOffStands,
     TimeoutStands, HostFailsStands, OtherHostStands
<1>2. CASE StopSidecar \/ SidecarStarts \/ Reconfigured
  BY <1>2 DEF StopSidecar, SidecarStarts, Reconfigured, Inv, Around
<1>3. CASE UNCHANGED outcomeVars
  BY <1>3 DEF outcomeVars, Inv, Around
<1> QED
  BY <1>1, <1>2, <1>3, ReloadStands, ExitStands DEF NextOutcome

(* Whatever becomes of a write on its way, and for any number of presses:  *)
(* a pilot who reads that it was done can rely on it, and one who reads    *)
(* that it was not done may press again (isUnknownOutcome and the          *)
(* classifiers).                                                           *)
THEOREM WordsAreAlwaysTrue == SpecOutcome => []WordsAreTrue
<1>1. InitOutcome => Inv
  <2> DEFINE rest == [page |-> "idle", shell |-> "none", side |-> "none", server |-> "unsent", cut |-> FALSE]
  <2>1. Standing(rest) /\ Alone(rest)
    BY DEF Standing, Alone, Write
  <2>2. InitOutcome => Around /\ writes = [p \in Presses |-> rest]
    BY DEF InitOutcome, Around
  <2> HIDE DEF rest
  <2> QED
    BY <2>1, <2>2 DEF Inv, Standing
<1>2. Inv /\ [NextOutcome]_outcomeVars => Inv'
  BY NextStands
<1>3. Inv => WordsAreTrue
  BY DEF Inv, Standing, WordsAreTrue, DoneIsDone, Vouched, At
<1> QED
  BY <1>1, <1>2, <1>3, PTL DEF SpecOutcome
=============================================================================
