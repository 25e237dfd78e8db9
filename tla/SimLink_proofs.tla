---------------------------- MODULE SimLink_proofs ----------------------------
(***************************************************************************)
(* Proofs about the simulator link, for any number of connections, any     *)
(* protocols and any length of the reconnect ladder; and about the wire to *)
(* the shell, for any calls, any sizes of lines and any way to cut them.   *)
(***************************************************************************)
EXTENDS SimLink, Wire, SequenceTheorems, WellFoundedInduction, TLAPS

-----------------------------------------------------------------------------
(* Types.                                                                  *)

Conns == {"free", "opening", "open", "lost"}
States == {"sim.idle", "sim.connecting", "sim.connected", "sim.retry"}

LinkTypes ==
  /\ running \in BOOLEAN
  /\ config \in Configs
  /\ handle \in Slots \cup {None} /\ attached \in Slots \cup {None}
  /\ scheduled \in BOOLEAN /\ timer \in BOOLEAN
  /\ state \in States
  /\ ex1 \in BOOLEAN /\ pause \in {"off", "on"}
  /\ overlap \in BOOLEAN

LadderTypes == attempt \in 0..MaxAttempt

ConnTypes ==
  /\ conn \in [Slots -> Conns]
  /\ proto \in [Slots -> Sims]
  /\ reg \in [Slots -> BOOLEAN]
  /\ listening \in [Slots -> BOOLEAN]

EventTypes == events \in [Slots -> 0..2]

LEMMA TypeParts ==
  /\ TypeOK <=> LinkTypes /\ LadderTypes /\ ConnTypes /\ EventTypes
  /\ TypeOK' <=> LinkTypes' /\ LadderTypes' /\ ConnTypes' /\ EventTypes'
BY DEF TypeOK, LinkTypes, LadderTypes, ConnTypes, EventTypes, Conns, States

\* The ladder's base and its first rung are within the bound.
LEMMA Rungs == 0 \in 0..MaxAttempt /\ 1 \in 0..MaxAttempt
BY AttemptAssumption

\* closeHandle leaves what it writes well typed.
LEMMA CloseTypes ==
  ASSUME LinkTypes, ConnTypes
  PROVE  Closed \in [Slots -> Conns] /\ Deafened \in [Slots -> BOOLEAN] /\ Detached \in Slots \cup {None}
BY DEF LinkTypes, ConnTypes, Closed, Deafened, Detached, Conns

\* An open that is started has a slot of its own, with a protocol.
LEMMA BeginOpenTypes ==
  ASSUME LinkTypes, ConnTypes, EventTypes, NEW cfg \in Configs, NEW live \in [Slots -> Conns],
         BeginOpen(live, cfg)
  PROVE  /\ conn' \in [Slots -> Conns] /\ proto' \in [Slots -> Sims] /\ EventTypes'
         /\ overlap' \in BOOLEAN /\ state' = "sim.connecting"
         /\ Opening' # {}
<1>1. cfg.sim \in Sims
  BY DEF Configs
<1>2. PICK s \in Slots : /\ conn' = [live EXCEPT ![s] = "opening"]
                         /\ proto' = [proto EXCEPT ![s] = cfg.sim]
                         /\ events' = [events EXCEPT ![s] = 0]
  BY DEF BeginOpen
<1>3. overlap' \in BOOLEAN /\ state' = "sim.connecting"
  BY DEF BeginOpen
<1>4. conn' \in [Slots -> Conns] /\ proto' \in [Slots -> Sims] /\ conn'[s] = "opening"
  BY <1>1, <1>2 DEF ConnTypes, Conns
<1>5. EventTypes'
  BY <1>2 DEF EventTypes
<1>6. QED
  BY <1>3, <1>4, <1>5 DEF Opening

\* scheduleReconnect leaves the retry well typed; the ladder stays in its bound.
LEMMA ScheduleTypes ==
  ASSUME LinkTypes, LadderTypes, ScheduleReconnect
  PROVE  scheduled' \in BOOLEAN /\ timer' \in BOOLEAN /\ LadderTypes' /\ state' \in States
<1>1. CASE MaySchedule
  <2>1. LadderTypes'
    BY <1>1, AttemptAssumption DEF ScheduleReconnect, LadderTypes
  <2>2. QED
    BY <1>1, <2>1 DEF ScheduleReconnect, States
<1>2. CASE ~MaySchedule
  BY <1>2 DEF ScheduleReconnect, LinkTypes, LadderTypes
<1>3. QED
  BY <1>1, <1>2

LEMMA InitTypes == Init => TypeOK
<1> SUFFICES ASSUME Init PROVE TypeOK
  OBVIOUS
<1>1. LinkTypes
  BY DEF Init, LinkTypes, States
<1>2. config.sim \in Sims
  BY DEF Init, Configs
<1>3. ConnTypes
  BY <1>2 DEF Init, ConnTypes, Conns
<1>4. LadderTypes /\ EventTypes
  BY Rungs DEF Init, LadderTypes, EventTypes
<1>5. QED
  BY <1>1, <1>3, <1>4, TypeParts

LEMMA NextTypes == TypeOK /\ [Next]_vars => TypeOK'
<1> SUFFICES ASSUME LinkTypes, LadderTypes, ConnTypes, EventTypes, [Next]_vars
             PROVE  LinkTypes' /\ LadderTypes' /\ ConnTypes' /\ EventTypes'
  BY TypeParts
<1> DEFINE Goal == LinkTypes' /\ LadderTypes' /\ ConnTypes' /\ EventTypes'
<1> USE DEF linkVars, shownVars, connVars
<1>0. config \in Configs /\ conn \in [Slots -> Conns]
  BY DEF LinkTypes, ConnTypes
<1>1. CASE Start
  <2>1. BeginOpen(conn, config)
    BY <1>1 DEF Start
  <2>2. LadderTypes'
    BY <1>1, Rungs DEF Start, LadderTypes
  <2>3. QED
    BY <1>0, <1>1, <2>1, <2>2, BeginOpenTypes DEF Start, LinkTypes, ConnTypes, States
<1>2. CASE Stop
  <2>1. LadderTypes' /\ EventTypes'
    BY <1>2, Rungs DEF Stop, LadderTypes, EventTypes
  <2>2. QED
    BY <1>2, <2>1, CloseTypes DEF Stop, CancelRetry, LinkTypes, ConnTypes, States
<1>3. ASSUME NEW new \in Configs, SetConfig(new) PROVE Goal
  <2>1. CASE ~NeedsCycle(new)
    BY <1>3, <2>1 DEF SetConfig, LinkTypes, LadderTypes, ConnTypes, EventTypes
  <2>2. CASE NeedsCycle(new)
    <3>1. BeginOpen(Closed, new)
      BY <1>3, <2>2 DEF SetConfig
    <3>2. /\ config' = new /\ handle' = None /\ attached' = Detached /\ listening' = Deafened
          /\ timer' = FALSE /\ scheduled' = FALSE
          /\ UNCHANGED <<running, ex1, pause, reg>>
      BY <1>3, <2>2 DEF SetConfig, CancelRetry
    <3>3. LadderTypes'
      BY <1>3, <2>2, Rungs DEF SetConfig, LadderTypes
    <3>4. LinkTypes' /\ ConnTypes' /\ EventTypes'
      BY <3>1, <3>2, CloseTypes, BeginOpenTypes DEF LinkTypes, ConnTypes, States
    <3>5. QED
      BY <3>3, <3>4
  <2>3. QED
    BY <2>1, <2>2
<1>4. ASSUME NEW s \in Slots, OpenSucceeds(s) PROVE Goal
  <2>1. LadderTypes' /\ EventTypes'
    BY <1>4, Rungs DEF OpenSucceeds, LadderAfterOpen, LadderTypes, EventTypes
  <2>2. config.traffic \in BOOLEAN
    BY <1>0 DEF Configs
  <2>3. ConnTypes'
    BY <1>4, <2>2 DEF OpenSucceeds, ConnTypes, Conns
  <2>4. LinkTypes'
    BY <1>4 DEF OpenSucceeds, LinkTypes, States
  <2>5. QED
    BY <2>1, <2>3, <2>4
<1>5. ASSUME NEW s \in Slots, RegisterThrows(s) PROVE Goal
  <2>1. LadderTypes' /\ EventTypes'
    BY <1>5, Rungs DEF RegisterThrows, LadderTypes, EventTypes
  <2>2. ConnTypes'
    BY <1>5 DEF RegisterThrows, ConnTypes, Conns
  <2>3. LinkTypes'
    BY <1>5 DEF RegisterThrows, LinkTypes, States
  <2>4. QED
    BY <2>1, <2>2, <2>3
<1>6. ASSUME NEW s \in Slots, OpenFails(s) PROVE Goal
  <2>1. ConnTypes' /\ EventTypes'
    BY <1>6 DEF OpenFails, ConnTypes, Conns, EventTypes
  <2>2. LinkTypes' /\ LadderTypes'
    BY <1>6, ScheduleTypes DEF OpenFails, LinkTypes
  <2>3. QED
    BY <2>1, <2>2
<1>7. ASSUME NEW s \in Slots, SimDrops(s) PROVE Goal
  <2>1. EventTypes'
    BY <1>7 DEF SimDrops, EventTypes
  <2>2. QED
    BY <1>7, <2>1 DEF SimDrops, LinkTypes, LadderTypes, ConnTypes, Conns
<1>8. ASSUME NEW s \in Slots, DisconnectEvent(s) PROVE Goal
  <2>1. EventTypes'
    BY <1>8 DEF DisconnectEvent, EventTypes
  <2>2. ConnTypes'
    <3>1. (events[s] > 1) \in BOOLEAN
      OBVIOUS
    <3>2. QED
      BY <1>8, <3>1 DEF DisconnectEvent, ConnTypes
  <2>3. LinkTypes' /\ LadderTypes'
    <3>1. CASE handle = s
      BY <1>8, <3>1, ScheduleTypes DEF DisconnectEvent, LinkTypes
    <3>2. CASE handle # s
      BY <1>8, <3>2 DEF DisconnectEvent, LinkTypes, LadderTypes
    <3>3. QED
      BY <3>1, <3>2
  <2>4. QED
    BY <2>1, <2>2, <2>3
<1>9. ASSUME NEW s \in Slots, PauseEvent(s) PROVE Goal
  BY <1>9 DEF PauseEvent, LinkTypes, LadderTypes, ConnTypes, EventTypes
<1>10. CASE TimerFires
  <2>1. CASE running
    <3>1. BeginOpen(conn, config)
      BY <1>10, <2>1 DEF TimerFires
    <3>2. QED
      BY <1>0, <1>10, <3>1, BeginOpenTypes DEF TimerFires, LinkTypes, LadderTypes, ConnTypes, States
  <2>2. CASE ~running
    BY <1>10, <2>2 DEF TimerFires, LinkTypes, LadderTypes, ConnTypes, EventTypes
  <2>3. QED
    BY <2>1, <2>2
<1>11. CASE UNCHANGED vars
  BY <1>11 DEF vars, LinkTypes, LadderTypes, ConnTypes, EventTypes
<1>12. QED
  BY <1>1, <1>2, <1>3, <1>4, <1>5, <1>6, <1>7, <1>8, <1>9, <1>10, <1>11
  DEF Next, Commands, Simulator

\* Every variable keeps the type TypeOK gives it; the ladder stays in its bound.
THEOREM TypeCorrect == Spec => []TypeOK
<1>1. Init => TypeOK
  BY InitTypes
<1>2. TypeOK /\ [Next]_vars => TypeOK'
  BY NextTypes
<1>3. QED
  BY <1>1, <1>2, PTL DEF Spec
-----------------------------------------------------------------------------
(* The retry: never two pending, never none when one is needed.            *)

\* What scheduleReconnect does of a running link that has no retry pending, and
\* of any other.
LEMMA ScheduleRetry ==
  ASSUME OneRetryPending, ScheduleReconnect, running' = running
  PROVE  OneRetryPending' /\ (running => timer')
<1>1. CASE MaySchedule
  BY <1>1 DEF ScheduleReconnect, MaySchedule, OneRetryPending
<1>2. CASE ~MaySchedule
  BY <1>2 DEF ScheduleReconnect, MaySchedule, OneRetryPending
<1>3. QED
  BY <1>1, <1>2

LEMMA NextRetry == TypeOK /\ OneRetryPending /\ [Next]_vars => OneRetryPending'
<1> SUFFICES ASSUME LinkTypes, OneRetryPending, [Next]_vars PROVE OneRetryPending'
  BY TypeParts
<1> USE DEF linkVars
<1>1. CASE Start
  BY <1>1 DEF Start, OneRetryPending
<1>2. CASE Stop
  BY <1>2 DEF Stop, CancelRetry, OneRetryPending
<1>3. ASSUME NEW new \in Configs, SetConfig(new) PROVE OneRetryPending'
  <2>1. CASE ~NeedsCycle(new)
    BY <1>3, <2>1 DEF SetConfig, OneRetryPending
  <2>2. CASE NeedsCycle(new)
    BY <1>3, <2>2 DEF SetConfig, CancelRetry, OneRetryPending
  <2>3. QED
    BY <2>1, <2>2
<1>4. ASSUME NEW s \in Slots,
             OpenSucceeds(s) \/ SimDrops(s) \/ PauseEvent(s)
      PROVE  OneRetryPending'
  BY <1>4 DEF OpenSucceeds, SimDrops, PauseEvent, OneRetryPending
<1>5. ASSUME NEW s \in Slots, RegisterThrows(s) PROVE OneRetryPending'
  BY <1>5 DEF RegisterThrows, OneRetryPending
<1>6. ASSUME NEW s \in Slots, OpenFails(s) PROVE OneRetryPending'
  BY <1>6, ScheduleRetry DEF OpenFails
<1>7. ASSUME NEW s \in Slots, DisconnectEvent(s) PROVE OneRetryPending'
  <2>1. CASE handle = s
    BY <1>7, <2>1, ScheduleRetry DEF DisconnectEvent
  <2>2. CASE handle # s
    BY <1>7, <2>2 DEF DisconnectEvent, OneRetryPending
  <2>3. QED
    BY <2>1, <2>2
<1>8. CASE TimerFires
  BY <1>8 DEF TimerFires, OneRetryPending
<1>9. CASE UNCHANGED vars
  BY <1>9 DEF vars, OneRetryPending
<1>10. QED
  BY <1>1, <1>2, <1>3, <1>4, <1>5, <1>6, <1>7, <1>8, <1>9 DEF Next, Commands, Simulator

\* The guard of the retry timer is up exactly while the timer is, and a stopped
\* link has none: two reconnects are never pending at once.
THEOREM RetryIsSingle == Spec => []OneRetryPending
<1>1. Init => OneRetryPending
  BY DEF Init, OneRetryPending
<1>2. TypeOK /\ OneRetryPending /\ [Next]_vars => OneRetryPending'
  BY NextRetry
<1>3. QED
  BY <1>1, <1>2, TypeCorrect, PTL DEF Spec

LEMMA NextStranded ==
  TypeOK /\ OneRetryPending /\ NeverStranded /\ [Next]_vars => NeverStranded'
<1> SUFFICES ASSUME LinkTypes, LadderTypes, ConnTypes, EventTypes, OneRetryPending,
                    NeverStranded, [Next]_vars
             PROVE  NeverStranded'
  BY TypeParts
<1> USE DEF linkVars, connVars
<1>0. /\ config \in Configs /\ conn \in [Slots -> Conns] /\ listening \in [Slots -> BOOLEAN]
      /\ Closed \in [Slots -> Conns]
  BY CloseTypes DEF LinkTypes, ConnTypes
<1>1. CASE Start
  <2>1. BeginOpen(conn, config)
    BY <1>1 DEF Start
  <2>2. QED
    BY <1>0, <2>1, BeginOpenTypes DEF NeverStranded
<1>2. CASE Stop
  BY <1>2 DEF Stop, NeverStranded
<1>3. ASSUME NEW new \in Configs, SetConfig(new) PROVE NeverStranded'
  <2>1. CASE ~NeedsCycle(new)
    BY <1>3, <2>1 DEF SetConfig, NeverStranded, Listening, Opening
  <2>2. CASE NeedsCycle(new)
    <3>1. BeginOpen(Closed, new)
      BY <1>3, <2>2 DEF SetConfig
    <3>2. QED
      BY <1>0, <3>1, BeginOpenTypes DEF NeverStranded
  <2>3. QED
    BY <2>1, <2>2
<1>4. ASSUME NEW s \in Slots, OpenSucceeds(s) PROVE NeverStranded'
  <2>1. CASE ~running
    BY <1>4, <2>1 DEF OpenSucceeds, NeverStranded
  <2>2. CASE running
    BY <1>0, <1>4, <2>2, SlotsAssumption DEF OpenSucceeds, NeverStranded, Listening
  <2>3. QED
    BY <2>1, <2>2
<1>5. ASSUME NEW s \in Slots, RegisterThrows(s) PROVE NeverStranded'
  BY <1>5 DEF RegisterThrows, OneRetryPending, NeverStranded
<1>6. ASSUME NEW s \in Slots, OpenFails(s) PROVE NeverStranded'
  BY <1>6, ScheduleRetry DEF OpenFails, NeverStranded
<1>7. ASSUME NEW s \in Slots, SimDrops(s) \/ PauseEvent(s) PROVE NeverStranded'
  <2>1. Listening' = Listening /\ UNCHANGED <<running, handle, timer>>
    BY <1>7 DEF SimDrops, PauseEvent, Listening
  <2>2. Opening # {} => Opening' # {}
    BY <1>0, <1>7 DEF SimDrops, PauseEvent, Opening
  <2>3. QED
    BY <2>1, <2>2 DEF NeverStranded
<1>8. ASSUME NEW s \in Slots, DisconnectEvent(s) PROVE NeverStranded'
  <2>1. CASE handle = s
    BY <1>8, <2>1, ScheduleRetry DEF DisconnectEvent, NeverStranded
  <2>2. CASE handle # s
    <3>1. /\ listening' = [listening EXCEPT ![s] = events[s] > 1]
          /\ UNCHANGED <<running, handle, timer, conn>>
      BY <1>8, <2>2 DEF DisconnectEvent
    <3>2. handle \in Listening => handle \in Listening'
      BY <1>0, <2>2, <3>1 DEF Listening
    <3>3. Opening' = Opening
      BY <3>1 DEF Opening
    <3>4. QED
      BY <3>1, <3>2, <3>3 DEF NeverStranded
  <2>3. QED
    BY <2>1, <2>2
<1>9. CASE TimerFires
  <2>1. CASE running
    <3>1. BeginOpen(conn, config)
      BY <1>9, <2>1 DEF TimerFires
    <3>2. QED
      BY <1>0, <3>1, BeginOpenTypes DEF NeverStranded
  <2>2. CASE ~running
    BY <1>9, <2>2 DEF TimerFires, NeverStranded
  <2>3. QED
    BY <2>1, <2>2
<1>10. CASE UNCHANGED vars
  BY <1>10 DEF vars, NeverStranded, Listening, Opening
<1>11. QED
  BY <1>1, <1>2, <1>3, <1>4, <1>5, <1>6, <1>7, <1>8, <1>9, <1>10 DEF Next, Commands, Simulator

\* A link that runs always has something left to bring it back: a handle whose
\* loss will be noticed, an open in flight or a retry timer.
THEOREM LinkIsNeverStranded == Spec => []NeverStranded
<1>1. Init => NeverStranded
  BY DEF Init, NeverStranded
<1>2. TypeOK /\ OneRetryPending /\ NeverStranded /\ [Next]_vars => NeverStranded'
  BY NextStranded
<1>3. QED
  BY <1>1, <1>2, TypeCorrect, RetryIsSingle, PTL DEF Spec

\* A running link is on its way, with one retry pending when it needs one, and
\* a stopped link has none, through every mix of commands and failures.
THEOREM LinkIsAlwaysCarried == Spec => []LinkIsCarried
<1>1. NeverStranded /\ OneRetryPending => LinkIsCarried
  BY DEF LinkIsCarried
<1>2. QED
  BY <1>1, LinkIsNeverStranded, RetryIsSingle, PTL

-----------------------------------------------------------------------------
(* The handle: everybody who knows one knows the link's.                   *)

\* One open is in flight at a time, with no retry due, under the config's protocol.
OneOpen ==
  /\ \A s, t \in Slots : conn[s] = "opening" /\ conn[t] = "opening" => s = t
  /\ \A s \in Slots : conn[s] = "opening" => ~timer /\ (running => proto[s] = config.sim)

\* While the link is after a connection, it serves and lends none.
Unserved ==
  (timer \/ \E s \in Slots : conn[s] = "opening") =>
     attached = None /\ (handle # None => ~listening[handle])

\* What is listened to is the open handle or a lost connection with events to come.
Heard ==
  \A s \in Slots : listening[s] =>
    \/ conn[s] = "open" /\ handle = s
    \/ conn[s] = "lost" /\ events[s] > 0

\* The events of a lost connection still find their handlers.
Heeded == \A s \in Slots : conn[s] = "lost" /\ events[s] > 0 => listening[s]

Borrowed == attached # None => attached = handle /\ listening[attached]
InForce == handle # None /\ listening[handle] => proto[handle] = config.sim /\ reg[handle] = config.traffic

Agreed ==
  /\ ~running => handle = None
  /\ ~overlap => OneOpen /\ Unserved /\ Heard /\ Borrowed /\ InForce

LEMMA AgreedIsAgreement == TypeOK /\ Agreed => HandlesAgree
BY DEF TypeOK, Agreed, Heard, Borrowed, InForce, HandlesAgree, ListensToItsHandle, ConfigInForce,
   BorrowedHandleIsLive, Listening

\* A connection that may be used for the next open is not listened to.
LEMMA OpenBegins ==
  ASSUME LinkTypes, ConnTypes, EventTypes, Agreed, NEW cfg, NEW live \in [Slots -> Conns], BeginOpen(live, cfg),
         config' = cfg, timer' = FALSE, attached' = None, listening' \in [Slots -> BOOLEAN],
         handle' # None => handle' \in Slots /\ ~listening'[handle'],
         ~running' => handle' = None,
         \A s \in Slots : live[s] = "opening" => conn[s] = "opening",
         ~overlap => \A s \in Slots : listening'[s] => live[s] = "lost" /\ conn[s] = "lost" /\ events[s] > 0
  PROVE  Agreed'
<1>1. PICK s \in Slots : /\ Unused(s)
                         /\ conn' = [live EXCEPT ![s] = "opening"]
                         /\ proto' = [proto EXCEPT ![s] = cfg.sim]
                         /\ events' = [events EXCEPT ![s] = 0]
  BY DEF BeginOpen
<1>2. ~overlap' => ~overlap /\ \A t \in Slots : live[t] # "opening"
  BY DEF BeginOpen, Opening
<1>3. ~overlap => ~listening'[s]
  BY <1>1 DEF Unused
<1>4. ~overlap' => OneOpen'
  BY <1>1, <1>2 DEF OneOpen, ConnTypes
<1>5. ~overlap' => Heard'
  BY <1>1, <1>2, <1>3 DEF Heard, ConnTypes, EventTypes
<1>6. Unserved' /\ Borrowed' /\ InForce'
  BY DEF Unserved, Borrowed, InForce
<1> QED
  BY <1>4, <1>5, <1>6 DEF Agreed

LEMMA NextHeeded == TypeOK /\ Heeded /\ [Next]_vars => Heeded'
<1> SUFFICES ASSUME LinkTypes, ConnTypes, EventTypes, Heeded, [Next]_vars PROVE Heeded'
  BY TypeParts
<1> USE DEF linkVars, connVars
<1>0. /\ conn \in [Slots -> Conns] /\ listening \in [Slots -> BOOLEAN] /\ events \in [Slots -> 0..2]
      /\ Closed \in [Slots -> Conns] /\ handle \in Slots \cup {None} /\ None \notin Slots
  BY CloseTypes, SlotsAssumption DEF LinkTypes, ConnTypes, EventTypes
<1>c. \A t \in Slots : Closed[t] = "lost" => conn[t] = "lost" /\ Deafened[t] = listening[t]
  BY <1>0 DEF Closed, Deafened
<1>b. ASSUME NEW cfg, NEW live \in [Slots -> Conns], BeginOpen(live, cfg),
             \A t \in Slots : live[t] = "lost" => conn[t] = "lost" /\ listening'[t] = listening[t]
      PROVE  Heeded'
  BY <1>0, <1>b DEF BeginOpen, Heeded
<1>1. CASE Start \/ TimerFires
  BY <1>0, <1>1, <1>b DEF Start, TimerFires, Heeded
<1>2. CASE Stop
  BY <1>c, <1>2 DEF Stop, Heeded
<1>3. ASSUME NEW new \in Configs, SetConfig(new) PROVE Heeded'
  <2>1. CASE ~NeedsCycle(new)
    BY <1>3, <2>1 DEF SetConfig, Heeded
  <2>2. CASE NeedsCycle(new)
    BY <1>0, <1>b, <1>c, <1>3, <2>2 DEF SetConfig
  <2> QED
    BY <2>1, <2>2
<1>4. ASSUME NEW s \in Slots, OpenSucceeds(s) \/ RegisterThrows(s) \/ OpenFails(s) PROVE Heeded'
  BY <1>0, <1>4 DEF OpenSucceeds, RegisterThrows, OpenFails, Heeded
<1>5. ASSUME NEW s \in Slots, SimDrops(s) PROVE Heeded'
  BY <1>0, <1>5 DEF SimDrops, Heeded
<1>6. ASSUME NEW s \in Slots, DisconnectEvent(s) PROVE Heeded'
  <2>1. /\ events[s] \in 0..2 /\ events[s] > 0 /\ conn' = conn
        /\ \A t \in Slots : t # s => events'[t] = events[t] /\ listening'[t] = listening[t]
        /\ events'[s] = events[s] - 1 /\ listening'[s] = (events[s] > 1)
    BY <1>0, <1>6 DEF DisconnectEvent
  <2>2. events'[s] > 0 <=> events[s] > 1
    BY <2>1
  <2>3. events'[s] > 0 => listening'[s]
    BY <2>1, <2>2, Zenon
  <2> QED
    BY <2>1, <2>3 DEF Heeded
<1>7. ASSUME NEW s \in Slots, PauseEvent(s) PROVE Heeded'
  BY <1>7 DEF PauseEvent, Heeded
<1>8. CASE UNCHANGED vars
  BY <1>8 DEF vars, Heeded
<1> QED
  BY <1>1, <1>2, <1>3, <1>4, <1>5, <1>6, <1>7, <1>8 DEF Next, Commands, Simulator

LEMMA NextAgreed == TypeOK /\ OneRetryPending /\ Heeded /\ Agreed /\ [Next]_vars => Agreed'
<1> SUFFICES ASSUME LinkTypes, LadderTypes, ConnTypes, EventTypes, LinkTypes', ConnTypes',
                    OneRetryPending, Heeded, Agreed, [Next]_vars
             PROVE  Agreed'
  BY NextTypes, TypeParts
<1> USE DEF linkVars, connVars, shownVars
<1>0. /\ conn \in [Slots -> Conns] /\ listening \in [Slots -> BOOLEAN]
      /\ events \in [Slots -> 0..2] /\ proto \in [Slots -> Sims] /\ reg \in [Slots -> BOOLEAN]
      /\ Closed \in [Slots -> Conns] /\ handle \in Slots \cup {None} /\ None \notin Slots
      /\ listening' \in [Slots -> BOOLEAN]
  BY CloseTypes, SlotsAssumption DEF LinkTypes, ConnTypes, EventTypes
\* What closing the handle leaves to be listened to.
<1>c. /\ \A t \in Slots : Closed[t] = "opening" => conn[t] = "opening"
      /\ ~overlap => \A t \in Slots : Deafened[t] => Closed[t] = "lost" /\ conn[t] = "lost" /\ events[t] > 0
  BY <1>0 DEF Closed, Deafened, Agreed, Heard
<1>1. CASE Start
  <2>1. /\ BeginOpen(conn, config) /\ ~running /\ running' = TRUE
        /\ UNCHANGED <<config, handle, timer, listening, attached>>
    BY <1>1 DEF Start
  <2>2. handle = None /\ ~timer
    BY <2>1 DEF Agreed, OneRetryPending
  <2>3. ~overlap => attached = None /\ \A t \in Slots : listening[t] => conn[t] = "lost" /\ events[t] > 0
    BY <1>0, <2>2 DEF Agreed, Borrowed, Heard
  <2>4. CASE overlap
    BY <2>1, <2>4 DEF BeginOpen, Agreed
  <2>5. CASE ~overlap
    BY <1>0, <2>1, <2>2, <2>3, <2>5, OpenBegins DEF LinkTypes
  <2> QED
    BY <2>4, <2>5
<1>2. CASE Stop
  <2>1. /\ running' = FALSE /\ handle' = None /\ timer' = FALSE /\ conn' = Closed /\ listening' = Deafened
        /\ attached' = Detached /\ UNCHANGED <<config, proto, reg, events, overlap>>
    BY <1>2 DEF Stop, CancelRetry
  <2>2. ~overlap => attached' = None
    BY <1>0, <2>1 DEF Detached, Agreed, Borrowed
  <2>3. ~overlap => OneOpen' /\ Heard'
    BY <1>c, <2>1 DEF Agreed, OneOpen, Heard
  <2> QED
    BY <2>1, <2>2, <2>3 DEF Agreed, Unserved, Borrowed, InForce
<1>3. ASSUME NEW new \in Configs, SetConfig(new) PROVE Agreed'
  <2>1. CASE ~NeedsCycle(new)
    <3>1. ~running /\ UNCHANGED <<running, handle, timer, conn, proto, reg, listening, events, attached, overlap>>
      BY <1>3, <2>1 DEF SetConfig, NeedsCycle
    <3>2. handle = None
      BY <3>1 DEF Agreed
    <3> QED
      BY <3>1, <3>2 DEF Agreed, OneOpen, Unserved, Heard, Borrowed, InForce
  <2>2. CASE NeedsCycle(new)
    <3>1. /\ BeginOpen(Closed, new) /\ config' = new /\ timer' = FALSE /\ handle' = None
          /\ attached' = Detached /\ listening' = Deafened /\ UNCHANGED running
      BY <1>3, <2>2 DEF SetConfig, CancelRetry
    <3>2. CASE overlap
      BY <3>1, <3>2 DEF BeginOpen, Agreed
    <3>3. CASE ~overlap
      <4>1. attached' = None
        BY <1>0, <3>1, <3>3 DEF Detached, Agreed, Borrowed
      <4> QED
        BY <1>0, <1>c, <3>1, <3>3, <4>1, OpenBegins
    <3> QED
      BY <3>2, <3>3
  <2> QED
    BY <2>1, <2>2
<1>4. ASSUME NEW s \in Slots, OpenSucceeds(s) PROVE Agreed'
  <2>1. conn[s] = "opening" /\ UNCHANGED <<running, config, timer, proto, events, overlap>>
    BY <1>4 DEF OpenSucceeds
  <2>2. ~overlap => /\ ~timer /\ ~listening[s] /\ attached = None /\ (handle # None => ~listening[handle])
                    /\ \A t \in Slots : t # s => conn[t] # "opening"
    BY <1>0, <2>1 DEF Agreed, OneOpen, Unserved, Heard
  <2>3. CASE ~running
    <3>1. conn' = [conn EXCEPT ![s] = "free"] /\ UNCHANGED <<handle, reg, listening, attached>>
      BY <1>4, <2>3 DEF OpenSucceeds
    <3> QED
      BY <1>0, <2>1, <2>2, <2>3, <3>1 DEF Agreed, OneOpen, Unserved, Heard, Borrowed, InForce
  <2>4. CASE running
    <3>1. /\ conn' = [conn EXCEPT ![s] = "open"] /\ handle' = s /\ attached' = s
          /\ reg' = [reg EXCEPT ![s] = config.traffic] /\ listening' = [listening EXCEPT ![s] = TRUE]
      BY <1>4, <2>4 DEF OpenSucceeds
    <3>2. ~overlap => proto[s] = config.sim
      BY <2>1, <2>4 DEF Agreed, OneOpen
    <3>3. ~overlap => OneOpen' /\ Unserved'
      BY <1>0, <2>1, <2>2, <3>1 DEF OneOpen, Unserved
    <3>4. ~overlap => Heard'
      BY <1>0, <2>1, <2>2, <3>1 DEF Agreed, Heard
    <3>5. ~overlap => Borrowed' /\ InForce'
      BY <1>0, <2>1, <3>1, <3>2 DEF Borrowed, InForce
    <3> QED
      BY <2>1, <2>4, <3>3, <3>4, <3>5 DEF Agreed
  <2> QED
    BY <2>3, <2>4
<1>5. ASSUME NEW s \in Slots, RegisterThrows(s) PROVE Agreed'
  <2>1. /\ conn[s] = "opening" /\ running /\ conn' = [conn EXCEPT ![s] = "open"] /\ handle' = s
        /\ UNCHANGED <<running, config, proto, reg, listening, events, attached, overlap>>
    BY <1>5 DEF RegisterThrows
  <2>2. ~overlap => /\ ~listening[s] /\ attached = None /\ (handle # None => ~listening[handle])
                    /\ \A t \in Slots : t # s => conn[t] # "opening"
    BY <1>0, <2>1 DEF Agreed, OneOpen, Unserved, Heard
  <2>3. ~overlap => OneOpen' /\ Unserved' /\ Heard'
    BY <1>0, <2>1, <2>2 DEF Agreed, OneOpen, Unserved, Heard
  <2> QED
    BY <1>0, <2>1, <2>2, <2>3 DEF Agreed, Borrowed, InForce
<1>6. ASSUME NEW s \in Slots, OpenFails(s) PROVE Agreed'
  <2>1. /\ conn[s] = "opening" /\ conn' = [conn EXCEPT ![s] = "free"]
        /\ UNCHANGED <<running, config, handle, proto, reg, listening, events, attached, overlap>>
    BY <1>6 DEF OpenFails
  <2>2. ~overlap => /\ ~listening[s] /\ attached = None /\ (handle # None => ~listening[handle])
                    /\ \A t \in Slots : t # s => conn[t] # "opening"
    BY <1>0, <2>1 DEF Agreed, OneOpen, Unserved, Heard
  <2>3. ~overlap => OneOpen' /\ Unserved' /\ Heard'
    BY <1>0, <2>1, <2>2 DEF Agreed, OneOpen, Unserved, Heard
  <2> QED
    BY <2>1, <2>3 DEF Agreed, Borrowed, InForce
<1>7. ASSUME NEW s \in Slots, SimDrops(s) PROVE Agreed'
  <2>1. /\ conn[s] = "open" /\ conn' = [conn EXCEPT ![s] = "lost"]
        /\ events' = [events EXCEPT ![s] = IF listening[s] THEN 2 ELSE 0]
        /\ UNCHANGED <<running, config, handle, timer, proto, reg, listening, attached, overlap>>
    BY <1>7 DEF SimDrops
  <2>2. ~overlap => Heard' /\ OneOpen' /\ Unserved'
    BY <1>0, <2>1 DEF Agreed, Heard, OneOpen, Unserved
  <2> QED
    BY <2>1, <2>2 DEF Agreed, Borrowed, InForce
<1>8. ASSUME NEW s \in Slots, DisconnectEvent(s) PROVE Agreed'
  <2>1. /\ conn[s] = "lost" /\ events[s] > 0 /\ events' = [events EXCEPT ![s] = @ - 1]
        /\ listening' = [listening EXCEPT ![s] = events[s] > 1]
        /\ UNCHANGED <<running, config, conn, proto, reg, overlap>>
    BY <1>8 DEF DisconnectEvent
  <2>2. \A t \in Slots : listening'[t] => (t # s /\ listening[t] /\ events'[t] = events[t]) \/ (t = s /\ events'[s] > 0)
    <3>1. events[s] \in 0..2 /\ events'[s] = events[s] - 1 /\ listening'[s] = (events[s] > 1)
      BY <1>0, <2>1
    <3>2. events'[s] > 0 <=> events[s] > 1
      BY <3>1
    <3>3. listening'[s] => events'[s] > 0
      BY <3>1, <3>2, Zenon
    <3>4. \A t \in Slots : t # s => events'[t] = events[t] /\ listening'[t] = listening[t]
      BY <1>0, <2>1
    <3> QED
      BY <3>3, <3>4
  <2>3. CASE handle = s
    <3>1. handle' = None /\ attached' = None
      BY <1>8, <2>3 DEF DisconnectEvent
    <3>2. ~overlap => Heard'
      BY <2>1, <2>2, <2>3, <3>1 DEF Agreed, Heard
    <3>3. ~overlap => OneOpen' /\ Unserved'
      <4>1. listening[s]
        BY <2>1 DEF Heeded
      <4>2. ~overlap => \A t \in Slots : conn[t] # "opening"
        BY <1>0, <2>3, <4>1 DEF Agreed, Unserved
      <4> QED
        BY <2>1, <3>1, <4>2 DEF OneOpen, Unserved
    <3> QED
      BY <2>1, <3>1, <3>2, <3>3 DEF Agreed, Borrowed, InForce
  <2>4. CASE handle # s
    <3>1. UNCHANGED <<handle, attached, timer>>
      BY <1>8, <2>4 DEF DisconnectEvent
    <3>2. ~overlap => Heard' /\ OneOpen' /\ Unserved'
      BY <1>0, <2>1, <2>2, <2>4, <3>1 DEF Agreed, Heard, OneOpen, Unserved
    <3>3. handle # None => listening'[handle] = listening[handle]
      BY <1>0, <2>1, <2>4
    <3> QED
      BY <1>0, <2>1, <3>1, <3>2, <3>3 DEF Agreed, Borrowed, InForce
  <2> QED
    BY <2>3, <2>4
<1>9. CASE TimerFires
  <2>1. timer /\ running /\ BeginOpen(conn, config) /\ timer' = FALSE
        /\ UNCHANGED <<running, config, handle, listening, attached>>
    BY <1>9 DEF TimerFires, OneRetryPending
  <2>2. ~overlap => attached = None /\ (handle # None => ~listening[handle])
    BY <2>1 DEF Agreed, Unserved
  <2>3. ~overlap => \A t \in Slots : listening[t] => conn[t] = "lost" /\ events[t] > 0
    BY <1>0, <2>2 DEF Agreed, Heard
  <2>4. CASE overlap
    BY <2>1, <2>4 DEF BeginOpen, Agreed
  <2>5. CASE ~overlap
    BY <1>0, <2>1, <2>2, <2>3, <2>5, OpenBegins
  <2> QED
    BY <2>4, <2>5
<1>10. ASSUME NEW s \in Slots, PauseEvent(s) PROVE Agreed'
  BY <1>10 DEF PauseEvent, Agreed, OneOpen, Unserved, Heard, Borrowed, InForce
<1>11. CASE UNCHANGED vars
  BY <1>11 DEF vars, Agreed, OneOpen, Unserved, Heard, Borrowed, InForce
<1> QED
  BY <1>1, <1>2, <1>3, <1>4, <1>5, <1>6, <1>7, <1>8, <1>9, <1>10, <1>11 DEF Next, Commands, Simulator

\* As long as no two opens have overlapped: the link listens to its handle and to
\* nothing else that is alive, whoever borrows a connection holds that handle or
\* none, and it was opened and registered under the saved config.
THEOREM HandlesAlwaysAgree == Spec => []HandlesAgree
<1>1. Init => Agreed
  BY DEF Init, Agreed, OneOpen, Unserved, Heard, Borrowed, InForce
<1>2. Init => Heeded
  BY DEF Init, Heeded
<1> QED
  BY <1>1, <1>2, NextHeeded, NextAgreed, AgreedIsAgreement, TypeCorrect, RetryIsSingle, PTL DEF Spec

-----------------------------------------------------------------------------
(* The wire: where a stream's lines begin, and what a piece of it shows.   *)

\* Line n begins after position st[n] and ends with the newline at st[n + 1].
Ladder(st, N) ==
  /\ st \in [1..N + 1 -> Nat] /\ st[1] = 0
  /\ \A n \in 1..N : st[n] + 2 <= st[n + 1]
  /\ \A m, n \in 1..N + 1 : m <= n => st[m] <= st[n]

\* A piece of the stream, from after position at.
Shown(piece, at, st, N) ==
  /\ at + Len(piece) <= st[N + 1]
  /\ \A i \in 1..Len(piece), n \in 1..N :
       /\ st[n] < at + i /\ at + i < st[n + 1] => piece[i] = n
       /\ at + i = st[n + 1] => piece[i] = 0

\* Position at is d cells into the line after the h-th.
Place(st, N, h, d, at) ==
  /\ h \in 0..N /\ d \in Nat /\ at \in Nat /\ at = st[h + 1] + d
  /\ h = N => d = 0
  /\ h < N => at < st[h + 2]

Whole(pipe, st) ==
  /\ Ladder(st, Len(pipe.lines))
  /\ \A n \in 1..Len(pipe.lines) : st[n + 1] = st[n] + pipe.lines[n].size + 1

\* What the sidecar has heard: every line up to here, and a part of the next.
Numbers(passed) == \A i \in DOMAIN passed : passed[i] = i
Down(pipe, line, passed, st, at) ==
  LET N == Len(pipe.lines)
  IN  /\ Whole(pipe, st)
      /\ Shown(pipe.cells, at, st, N) /\ at + Len(pipe.cells) = st[N + 1]
      /\ Place(st, N, Len(passed), Len(line), at)
      /\ line = Cells(Len(passed) + 1, Len(line))

\* What the shell has heard of the pipe up, while it reads.
Mark(lines, i) == IF lines[i].size > MaxLine THEN Oversize ELSE i
Marks(passed, lines) == \A i \in DOMAIN passed : passed[i] = Mark(lines, i)
Up(pipe, r, there, passed, st, e, at) ==
  LET N == Len(pipe.lines)
  IN  /\ Whole(pipe, st)
      /\ Shown(r.chunk, at, st, N) /\ Shown(pipe.cells, at + Len(r.chunk), st, N)
      /\ there => at + Len(r.chunk) + Len(pipe.cells) = st[N + 1]
      /\ Place(st, N, Len(passed), e, at)
      /\ Marks(passed, pipe.lines)
      /\ IF r.oversize THEN e > MaxLine /\ r.line = <<>>
         ELSE e <= MaxLine /\ r.line = Cells(Len(passed) + 1, e)
Reads(pipe, r, there, passed) == \E st, e, at : Up(pipe, r, there, passed, st, e, at)

\* After the end of the pipe nothing comes, and the last may be a fragment.
Ended(pipe, r, passed) ==
  /\ pipe.cells = <<>> /\ r.chunk = <<>>
  /\ \A i \in DOMAIN passed :
       /\ i \in DOMAIN pipe.lines
       /\ passed[i] = Mark(pipe.lines, i) \/ (i = Len(passed) /\ passed[i] = Fragment)

\* The lines there may be.
AskedFor == UNION {q.requests : q \in Quotas}
Sizes == Nat \ {0}
DownLines ==
  [kind : {"request"}, call : Calls, request : AskedFor, size : 1..RequestMax] \cup
  [kind : {"config", "shutdown"}, size : {1}]
Codes == {v.code : v \in Verdicts} \cup {"bad-response", "too-large", "bad-request", "sidecar-unavailable"}
UpLines ==
  [kind : {"response"}, call : Calls, code : Codes, size : Sizes] \cup
  [kind : {"status", "other"}, size : Sizes]
PipeOf(lines) == [cells : Seq(Nat), lines : Seq(lines)]
Readers == [chunk : Seq(Nat), line : Seq(Nat), oversize : BOOLEAN, ended : BOOLEAN]

\* Calls and their lines.
Silent(c, lines) == \A j \in DOMAIN lines : lines[j].kind = "response" => lines[j].call # c
Untold(c, lines) == calls[c].at = "waiting" /\ calls[c].said = "nothing" /\ Silent(c, lines)
AskedOnce ==
  \A i \in DOMAIN toSidecar.lines : toSidecar.lines[i].kind = "request" =>
    LET c == toSidecar.lines[i].call
    IN  /\ calls[c].at # "idle" /\ calls[c].request = toSidecar.lines[i].request
        /\ ShellTakes(calls[c].request)
        /\ \A j \in DOMAIN toSidecar.lines :
             toSidecar.lines[j].kind = "request" /\ toSidecar.lines[j].call = c => j = i
InHand(lines, serving, n) ==
  \A c \in serving :
    /\ Untold(c, lines)
    /\ \E i \in 1..n : toSidecar.lines[i].kind = "request" /\ toSidecar.lines[i].call = c
Owed(lines, n) ==
  \A i \in n + 1..Len(toSidecar.lines) :
    toSidecar.lines[i].kind = "request" => Untold(toSidecar.lines[i].call, lines)
Answered(lines, stopping) ==
  \A j \in DOMAIN lines : lines[j].kind = "response" =>
    LET c == lines[j].call
    IN  /\ calls[c].at # "idle"
        /\ lines[j].code = calls[c].said \/ (lines[j].code = "sidecar-unavailable" /\ stopping)
Unsaid == \A c \in Calls : calls[c].at = "idle" => calls[c].said = "nothing"
Books(lines, serving, stopping, n) ==
  InHand(lines, serving, n) /\ Owed(lines, n) /\ Answered(lines, stopping)

-----------------------------------------------------------------------------
(* Streams.                                                                *)

LEMMA LongerList ==
  ASSUME NEW X, NEW L \in Seq(X), NEW l \in X
  PROVE  LET M == Append(L, l)
         IN  /\ M \in Seq(X) /\ Len(M) = Len(L) + 1 /\ Len(L) \in Nat
             /\ DOMAIN L = 1..Len(L) /\ DOMAIN M = 1..Len(L) + 1
             /\ \A i \in 1..Len(L) : M[i] = L[i] /\ L[i] \in X
             /\ M[Len(L) + 1] = l
OBVIOUS

LEMMA CellsAre ==
  ASSUME NEW n \in Nat, NEW d \in Nat
  PROVE  /\ Cells(n, d) \in Seq(Nat) /\ Len(Cells(n, d)) = d
         /\ \A i \in 1..d : Cells(n, d)[i] = n
<1>1. Cells(n, d) = [i \in 1..d |-> n] /\ Cells(n, d) \in [1..d -> Nat]
  BY DEF Cells
<1>2. Cells(n, d) \in Seq(Nat)
  BY <1>1
<1>3. DOMAIN Cells(n, d) = 1..d
  BY <1>1
<1> QED BY <1>1, <1>2, <1>3

LEMMA JoinedLists ==
  ASSUME NEW X, NEW s \in Seq(X), NEW t \in Seq(X)
  PROVE  /\ s \o t \in Seq(X) /\ Len(s \o t) = Len(s) + Len(t)
         /\ \A i \in 1..Len(s) : (s \o t)[i] = s[i]
         /\ \A i \in 1..Len(t) : (s \o t)[Len(s) + i] = t[i]
<1>1. Len(s) \in Nat /\ Len(t) \in Nat
  OBVIOUS
<1>2. /\ s \o t \in Seq(X) /\ Len(s \o t) = Len(s) + Len(t)
      /\ \A i \in 1..Len(s) + Len(t) : (s \o t)[i] = IF i <= Len(s) THEN s[i] ELSE t[i - Len(s)]
  BY ConcatProperties
<1> DEFINE u == s \o t
<1> HIDE DEF u
<1>3. /\ u \in Seq(X) /\ Len(u) = Len(s) + Len(t)
      /\ \A i \in 1..Len(s) + Len(t) : u[i] = IF i <= Len(s) THEN s[i] ELSE t[i - Len(s)]
  BY <1>2 DEF u
<1>4. \A i \in 1..Len(s) : u[i] = s[i]
  BY <1>1, <1>3
<1>5. ASSUME NEW i \in 1..Len(t) PROVE u[Len(s) + i] = t[i]
  <2>1. Len(s) + i \in 1..Len(s) + Len(t) /\ ~(Len(s) + i <= Len(s)) /\ Len(s) + i - Len(s) = i
    BY <1>1
  <2> QED BY <1>3, <2>1
<1> QED BY <1>3, <1>4, <1>5 DEF u

LEMMA Joined ==
  ASSUME NEW s \in Seq(Nat), NEW t \in Seq(Nat)
  PROVE  /\ s \o t \in Seq(Nat) /\ Len(s \o t) = Len(s) + Len(t)
         /\ \A i \in 1..Len(s) : (s \o t)[i] = s[i]
         /\ \A i \in 1..Len(t) : (s \o t)[Len(s) + i] = t[i]
<1> DEFINE X == Nat
<1>1. s \in Seq(X) /\ t \in Seq(X)
  OBVIOUS
<1> HIDE DEF X
<1>2. /\ s \o t \in Seq(X) /\ Len(s \o t) = Len(s) + Len(t)
      /\ \A i \in 1..Len(s) : (s \o t)[i] = s[i]
      /\ \A i \in 1..Len(t) : (s \o t)[Len(s) + i] = t[i]
  BY <1>1, JoinedLists
<1> QED BY <1>2 DEF X

LEMMA SameSeq ==
  ASSUME NEW X, NEW s \in Seq(X), NEW t \in Seq(X), Len(s) = Len(t), \A i \in 1..Len(s) : s[i] = t[i]
  PROVE  s = t
OBVIOUS

\* More of the same line.
LEMMA CellsGrow ==
  ASSUME NEW n \in Nat, NEW d \in Nat, NEW b \in Seq(Nat), \A i \in 1..Len(b) : b[i] = n
  PROVE  Cells(n, d) \o b = Cells(n, d + Len(b))
<1> DEFINE c == Cells(n, d)
           e == Cells(n, d + Len(b))
<1>1. /\ c \in Seq(Nat) /\ Len(c) = d /\ \A i \in 1..d : c[i] = n
      /\ e \in Seq(Nat) /\ Len(e) = d + Len(b) /\ \A i \in 1..d + Len(b) : e[i] = n
  <2>1. d + Len(b) \in Nat
    OBVIOUS
  <2> QED BY <2>1, CellsAre
<1> HIDE DEF c, e
<1> DEFINE u == c \o b
<1>0. c \in Seq(Nat)
  BY <1>1
<1>2. /\ u \in Seq(Nat) /\ Len(u) = Len(c) + Len(b)
      /\ \A i \in 1..Len(c) : u[i] = c[i]
      /\ \A i \in 1..Len(b) : u[Len(c) + i] = b[i]
  BY <1>0, Joined
<1> HIDE DEF u
<1>3. ASSUME NEW i \in 1..d + Len(b) PROVE u[i] = n
  <2>1. CASE i <= d
    BY <1>1, <1>2, <2>1
  <2>2. CASE ~(i <= d)
    <3>1. i - d \in 1..Len(b) /\ d + (i - d) = i
      BY <2>2
    <3>2. Len(c) = d /\ u[Len(c) + (i - d)] = b[i - d]
      BY <1>1, <1>2, <3>1
    <3> QED BY <3>1, <3>2
  <2> QED BY <2>1, <2>2
<1>4. u = e
  BY <1>1, <1>2, <1>3, SameSeq
<1> QED BY <1>4 DEF u, c, e

More(X, n, size) == X \o Cells(n, size) \o <<0>>

IsMore(Y, X, n, size) ==
  /\ Y \in Seq(Nat) /\ Len(Y) = Len(X) + size + 1
  /\ \A i \in 1..Len(X) : Y[i] = X[i]
  /\ \A i \in Len(X) + 1..Len(X) + size : Y[i] = n
  /\ Y[Len(X) + size + 1] = 0

LEMMA WroteCells ==
  ASSUME NEW X \in Seq(Nat), NEW n \in Nat, NEW size \in Nat
  PROVE  IsMore(More(X, n, size), X, n, size)
<1> DEFINE c == Cells(n, size)
           Z == X \o c
<1>1. c \in Seq(Nat) /\ Len(c) = size /\ \A i \in 1..size : c[i] = n
  BY CellsAre
<1> HIDE DEF c
<1>2. /\ Z \in Seq(Nat) /\ Len(Z) = Len(X) + size
      /\ \A i \in 1..Len(X) : Z[i] = X[i]
      /\ \A i \in Len(X) + 1..Len(X) + size : Z[i] = n
  <2>1. Z \in Seq(Nat) /\ Len(Z) = Len(X) + size
    BY <1>1, Joined
  <2>2. \A i \in 1..Len(X) : Z[i] = X[i]
    BY <1>1, Joined
  <2>3. ASSUME NEW i \in Len(X) + 1..Len(X) + size PROVE Z[i] = n
    <3>1. i - Len(X) \in 1..size /\ Len(X) + (i - Len(X)) = i
      BY <1>1
    <3>2. Z[Len(X) + (i - Len(X))] = c[i - Len(X)]
      BY <1>1, <3>1, Joined
    <3> QED BY <1>1, <3>1, <3>2
  <2> QED BY <2>1, <2>2, <2>3
<1> HIDE DEF Z
<1>3. /\ Z \o <<0>> \in Seq(Nat) /\ Len(Z \o <<0>>) = Len(Z) + 1
      /\ \A i \in 1..Len(Z) : (Z \o <<0>>)[i] = Z[i]
      /\ (Z \o <<0>>)[Len(Z) + 1] = 0
  <2>1. <<0>> \in Seq(Nat) /\ Len(<<0>>) = 1 /\ <<0>>[1] = 0
    OBVIOUS
  <2> DEFINE z == <<0>>
  <2> HIDE DEF z
  <2>2. 1 \in 1..Len(z) /\ z \in Seq(Nat) /\ Len(z) = 1 /\ z[1] = 0
    BY <2>1 DEF z
  <2> DEFINE u == Z \o z
  <2>3. /\ u \in Seq(Nat) /\ Len(u) = Len(Z) + Len(z)
        /\ \A i \in 1..Len(Z) : u[i] = Z[i]
        /\ \A i \in 1..Len(z) : u[Len(Z) + i] = z[i]
    <3>1. Z \in Seq(Nat) /\ z \in Seq(Nat)
      BY <1>2, <2>2
    <3> QED BY <3>1, Joined
  <2> HIDE DEF u
  <2>4. u[Len(Z) + 1] = z[1]
    BY <2>2, <2>3
  <2>5. Len(u) = Len(Z) + 1 /\ u[Len(Z) + 1] = 0
    BY <2>2, <2>3, <2>4
  <2> QED BY <2>3, <2>5 DEF u, z
<1>4. /\ Z \o <<0>> \in Seq(Nat) /\ Len(Z \o <<0>>) = Len(X) + size + 1
      /\ \A i \in 1..Len(X) : (Z \o <<0>>)[i] = X[i]
      /\ \A i \in Len(X) + 1..Len(X) + size : (Z \o <<0>>)[i] = n
      /\ (Z \o <<0>>)[Len(X) + size + 1] = 0
  BY <1>2, <1>3
<1> QED BY <1>4 DEF Z, c, More, IsMore

\* A line more.
Higher(st, N, size) == [n \in 1..N + 2 |-> IF n = N + 2 THEN st[N + 1] + size + 1 ELSE st[n]]

LEMMA HigherIs ==
  ASSUME NEW N \in Nat, NEW st, Ladder(st, N), NEW size
  PROVE  /\ \A n \in 1..N + 1 : Higher(st, N, size)[n] = st[n] /\ st[n] \in Nat
         /\ Higher(st, N, size)[N + 2] = st[N + 1] + size + 1
BY DEF Higher, Ladder

LEMMA LadderGrows ==
  ASSUME NEW N \in Nat, NEW st, Ladder(st, N), NEW size \in Nat \ {0}
  PROVE  LET t == Higher(st, N, size)
         IN  /\ Ladder(t, N + 1)
             /\ \A n \in 1..N + 1 : t[n] = st[n]
             /\ t[N + 2] = st[N + 1] + size + 1
<1> DEFINE t == Higher(st, N, size)
<1>1. /\ \A n \in 1..N + 1 : st[n] \in Nat
      /\ st[1] = 0
      /\ \A n \in 1..N : st[n] + 2 <= st[n + 1]
      /\ \A m, n \in 1..N + 1 : m <= n => st[m] <= st[n]
  BY DEF Ladder
<1>2. t = [n \in 1..N + 2 |-> t[n]]
  BY DEF Higher
<1>3. \A n \in 1..N + 1 : t[n] = st[n]
  BY DEF Higher
<1>4. t[N + 2] = st[N + 1] + size + 1
  BY DEF Higher
<1> HIDE DEF t
<1>5. 1 \in 1..N + 1 /\ N + 1 \in 1..N + 1
  OBVIOUS
<1>6. ASSUME NEW n \in 1..N + 2 PROVE t[n] \in Nat
  <2>1. CASE n = N + 2
    BY <1>1, <1>4, <1>5, <2>1
  <2>2. CASE n \in 1..N + 1
    BY <1>1, <1>3, <2>2
  <2> QED BY <2>1, <2>2
<1>7. t \in [1..N + 1 + 1 -> Nat]
  BY <1>2, <1>6
<1>8. ASSUME NEW n \in 1..N + 1 PROVE t[n] + 2 <= t[n + 1]
  <2>1. CASE n = N + 1
    <3>1. t[n] = st[N + 1] /\ t[n + 1] = st[N + 1] + size + 1 /\ st[N + 1] \in Nat
      BY <1>1, <1>3, <1>4, <1>5, <2>1
    <3> QED BY <3>1
  <2>2. CASE n \in 1..N
    <3>1. n + 1 \in 1..N + 1
      BY <2>2
    <3> QED BY <1>1, <1>3, <2>2, <3>1
  <2> QED BY <2>1, <2>2
<1>9. ASSUME NEW m \in 1..N + 2, NEW n \in 1..N + 2, m <= n PROVE t[m] <= t[n]
  <2>1. CASE n \in 1..N + 1
    <3>1. m \in 1..N + 1
      BY <1>9, <2>1
    <3> QED BY <1>1, <1>3, <1>9, <2>1, <3>1
  <2>2. CASE n = N + 2 /\ m \in 1..N + 1
    <3>1. st[m] <= st[N + 1] /\ st[m] \in Nat /\ st[N + 1] \in Nat
      BY <1>1, <1>5, <2>2
    <3>2. t[m] = st[m] /\ t[n] = st[N + 1] + size + 1
      BY <1>3, <1>4, <2>2
    <3> QED BY <3>1, <3>2
  <2>3. CASE n = N + 2 /\ m = N + 2
    BY <1>6, <2>3
  <2> QED BY <2>1, <2>2, <2>3
<1>10. t[1] = 0
  BY <1>1, <1>3, <1>5
<1>11. Ladder(t, N + 1)
  <2>1. N + 1 + 1 = N + 2
    OBVIOUS
  <2> QED BY <1>7, <1>8, <1>9, <1>10, <2>1 DEF Ladder
<1> QED BY <1>3, <1>4, <1>11 DEF t

\* What is there is where it was.
LEMMA ShownStays ==
  ASSUME NEW N \in Nat, NEW st, Ladder(st, N), NEW size \in Nat \ {0},
         NEW p \in Seq(Nat), NEW at \in Nat, Shown(p, at, st, N)
  PROVE  Shown(p, at, Higher(st, N, size), N + 1)
<1> DEFINE t == Higher(st, N, size)
<1>1. /\ \A n \in 1..N + 1 : t[n] = st[n] /\ st[n] \in Nat
      /\ t[N + 2] = st[N + 1] + size + 1
  BY HigherIs
<1> HIDE DEF t
<1>2. N + 1 \in 1..N + 1 /\ N + 1 + 1 = N + 2 /\ Len(p) \in Nat
  OBVIOUS
<1>3. st[N + 1] \in Nat /\ at + Len(p) <= st[N + 1]
  BY <1>1, <1>2 DEF Shown
<1>4. at + Len(p) <= t[N + 1 + 1]
  BY <1>1, <1>2, <1>3
<1>5. ASSUME NEW i \in 1..Len(p), NEW n \in 1..N + 1
      PROVE  /\ t[n] < at + i /\ at + i < t[n + 1] => p[i] = n
             /\ at + i = t[n + 1] => p[i] = 0
  <2>1. CASE n \in 1..N
    <3>1. n + 1 \in 1..N + 1 /\ n \in 1..N + 1
      BY <2>1
    <3>2. t[n] = st[n] /\ t[n + 1] = st[n + 1]
      BY <1>1, <3>1
    <3>3. /\ st[n] < at + i /\ at + i < st[n + 1] => p[i] = n
          /\ at + i = st[n + 1] => p[i] = 0
      BY <2>1 DEF Shown
    <3> QED BY <3>2, <3>3
  <2>2. CASE n = N + 1
    <3>1. t[n] = st[N + 1] /\ t[n + 1] = st[N + 1] + size + 1
      BY <1>1, <1>2, <2>2
    <3>2. at + i <= st[N + 1] /\ at + i \in Nat
      BY <1>3
    <3> DEFINE q == at + i
               e == st[N + 1]
    <3>3. q <= e /\ q \in Nat /\ e \in Nat /\ size \in Nat
      BY <1>3, <3>2
    <3> HIDE DEF q, e
    <3>4. ~(e < q) /\ q # e + size + 1
      BY <3>3
    <3> QED BY <3>1, <3>4 DEF q, e
  <2> QED BY <2>1, <2>2
<1> QED BY <1>4, <1>5 DEF Shown, t

LEMMA PlaceStays ==
  ASSUME NEW N \in Nat, NEW st, Ladder(st, N), NEW size \in Nat \ {0},
         NEW h, NEW e, NEW at, Place(st, N, h, e, at)
  PROVE  Place(Higher(st, N, size), N + 1, h, e, at)
<1> DEFINE t == Higher(st, N, size)
<1>1. /\ \A n \in 1..N + 1 : t[n] = st[n] /\ st[n] \in Nat
      /\ t[N + 2] = st[N + 1] + size + 1
  BY HigherIs
<1> HIDE DEF t
<1>2. /\ h \in 0..N /\ e \in Nat /\ at \in Nat /\ at = st[h + 1] + e
      /\ h = N => e = 0
      /\ h < N => at < st[h + 2]
  BY DEF Place
<1>3. h + 1 \in 1..N + 1 /\ N + 1 \in 1..N + 1
  BY <1>2
<1>4. t[h + 1] = st[h + 1] /\ h \in 0..N + 1 /\ h # N + 1
  BY <1>1, <1>2, <1>3
<1>5. at < t[h + 2]
  <2>1. CASE h = N
    BY <1>1, <1>2, <1>3, <2>1
  <2>2. CASE h # N
    <3>1. h < N /\ h + 2 \in 1..N + 1
      BY <1>2, <2>2
    <3> QED BY <1>1, <1>2, <3>1
  <2> QED BY <2>1, <2>2
<1>6. Place(t, N + 1, h, e, at)
  BY <1>2, <1>4, <1>5 DEF Place
<1> QED BY <1>6 DEF t

\* A stream that shows all there is shows the new line too.
LEMMA ShownGrows ==
  ASSUME NEW N \in Nat, NEW st, Ladder(st, N), NEW size \in Nat \ {0},
         NEW X \in Seq(Nat), NEW at \in Nat, Shown(X, at, st, N), at + Len(X) = st[N + 1]
  PROVE  LET Y == More(X, N + 1, size)
             t == Higher(st, N, size)
         IN  Shown(Y, at, t, N + 1) /\ at + Len(Y) = t[N + 2]
<1> DEFINE Y == More(X, N + 1, size)
           t == Higher(st, N, size)
<1>1. /\ Y \in Seq(Nat) /\ Len(Y) = Len(X) + size + 1
      /\ \A i \in 1..Len(X) : Y[i] = X[i]
      /\ \A i \in Len(X) + 1..Len(X) + size : Y[i] = N + 1
      /\ Y[Len(X) + size + 1] = 0
  <2>1. N + 1 \in Nat /\ size \in Nat
    OBVIOUS
  <2>2. IsMore(Y, X, N + 1, size)
    BY <2>1, WroteCells
  <2> QED BY <2>2 DEF IsMore
<1> HIDE DEF Y
<1>2. /\ \A n \in 1..N + 1 : t[n] = st[n] /\ st[n] \in Nat
      /\ t[N + 2] = st[N + 1] + size + 1
  BY HigherIs
<1>3. Shown(X, at, t, N + 1)
  BY ShownStays
<1> HIDE DEF t
<1>4. N + 1 \in 1..N + 1 /\ N + 1 + 1 = N + 2 /\ Len(X) \in Nat
  OBVIOUS
<1>5. st[N + 1] \in Nat /\ at + Len(Y) = t[N + 2]
  BY <1>1, <1>2, <1>4
<1>6. ASSUME NEW i \in 1..Len(Y), NEW n \in 1..N + 1
      PROVE  /\ t[n] < at + i /\ at + i < t[n + 1] => Y[i] = n
             /\ at + i = t[n + 1] => Y[i] = 0
  <2>1. CASE i \in 1..Len(X)
    BY <1>1, <1>3, <2>1 DEF Shown
  <2>2. CASE i \notin 1..Len(X) /\ n = N + 1
    <3>1. t[n] = at + Len(X) /\ t[n + 1] = at + Len(X) + size + 1
      BY <1>2, <1>4, <2>2
    <3>2. i \in Len(X) + 1..Len(X) + size + 1
      BY <1>1, <1>4, <2>2
    <3>3. CASE i = Len(X) + size + 1
      BY <1>1, <1>4, <3>1, <3>3
    <3>4. CASE i # Len(X) + size + 1
      <4>1. i \in Len(X) + 1..Len(X) + size
        BY <1>4, <3>2, <3>4
      <4> QED BY <1>1, <1>4, <2>2, <3>1, <4>1
    <3> QED BY <3>3, <3>4
  <2>3. CASE i \notin 1..Len(X) /\ n \in 1..N
    <3>1. n + 1 \in 1..N + 1 /\ n + 1 <= N + 1
      BY <2>3
    <3>2. st[n + 1] <= st[N + 1]
      BY <1>4, <3>1 DEF Ladder
    <3>3. t[n + 1] = st[n + 1] /\ st[n + 1] \in Nat
      BY <1>2, <3>1
    <3>4. i > Len(X)
      BY <1>1, <1>4, <2>3
    <3>5. at + i > t[n + 1]
      BY <1>4, <1>5, <3>2, <3>3, <3>4
    <3> QED BY <1>4, <3>3, <3>5
  <2> QED BY <2>1, <2>2, <2>3
<1>7. Shown(Y, at, t, N + 1)
  BY <1>4, <1>5, <1>6 DEF Shown
<1> QED BY <1>5, <1>7 DEF Y, t

\* A piece of a piece.
LEMMA PieceIs ==
  ASSUME NEW X \in Seq(Nat), NEW a \in Nat, NEW b \in Nat, a <= b, b <= Len(X)
  PROVE  LET Y == SubSeq(X, a + 1, b)
         IN  /\ Y \in Seq(Nat) /\ Len(Y) = b - a
             /\ \A i \in 1..Len(Y) : Y[i] = X[a + i] /\ a + i \in 1..Len(X)
<1> DEFINE Y == SubSeq(X, a + 1, b)
           m == a + 1
<1>1. m \in Int /\ b \in Int /\ Len(X) \in Nat /\ m <= b + 1 /\ m >= 1
  OBVIOUS
<1>2. \A i \in m..b : X[i] \in Nat
  OBVIOUS
<1>3. /\ SubSeq(X, m, b) \in Seq(Nat)
      /\ Len(SubSeq(X, m, b)) = IF m <= b THEN b - m + 1 ELSE 0
      /\ \A i \in 1..b - m + 1 : SubSeq(X, m, b)[i] = X[m + i - 1]
  <2> HIDE DEF m
  <2> QED BY <1>1, <1>2, SubSeqProperties
<1> HIDE DEF Y
<1>4. /\ Y \in Seq(Nat) /\ Len(Y) = b - a
      /\ \A i \in 1..b - a : Y[i] = X[a + 1 + i - 1]
  BY <1>1, <1>3 DEF Y
<1>5. \A i \in 1..b - a : a + 1 + i - 1 = a + i /\ a + i \in 1..Len(X)
  BY <1>1
<1> QED BY <1>4, <1>5 DEF Y

LEMMA ShownPiece ==
  ASSUME NEW N \in Nat, NEW st, Ladder(st, N), NEW at \in Nat,
         NEW X \in Seq(Nat), NEW a \in Nat, NEW b \in Nat, a <= b, b <= Len(X), Shown(X, at, st, N)
  PROVE  Shown(SubSeq(X, a + 1, b), at + a, st, N)
<1> DEFINE Y == SubSeq(X, a + 1, b)
<1>1. /\ Y \in Seq(Nat) /\ Len(Y) = b - a
      /\ \A i \in 1..Len(Y) : Y[i] = X[a + i] /\ a + i \in 1..Len(X)
  BY PieceIs
<1> HIDE DEF Y
<1>2. st[N + 1] \in Nat /\ Len(X) \in Nat /\ at + Len(X) <= st[N + 1]
  BY DEF Ladder, Shown
<1>3. at + a + Len(Y) <= st[N + 1]
  BY <1>1, <1>2
<1>4. ASSUME NEW i \in 1..Len(Y), NEW n \in 1..N
      PROVE  /\ st[n] < at + a + i /\ at + a + i < st[n + 1] => Y[i] = n
             /\ at + a + i = st[n + 1] => Y[i] = 0
  <2> DEFINE j == a + i
  <2>0. j \in 1..Len(X) /\ Y[i] = X[j] /\ i \in Nat
    <3>1. i \in 1..Len(Y) /\ Len(Y) \in Nat
      BY <1>1
    <3> HIDE DEF Y
    <3> QED BY <1>1, <3>1
  <2>a. at + a + i = at + j
    BY <2>0
  <2>1. j \in 1..Len(X) /\ Y[i] = X[j] /\ at + a + i = at + j
    BY <2>0, <2>a
  <2> HIDE DEF j
  <2>2. /\ st[n] < at + j /\ at + j < st[n + 1] => X[j] = n
        /\ at + j = st[n + 1] => X[j] = 0
    BY <2>1 DEF Shown
  <2> QED BY <2>1, <2>2
<1> QED BY <1>3, <1>4 DEF Shown, Y

\* The cell after a place is of the line the place is in, or its newline.
LEMMA CellAt ==
  ASSUME NEW N \in Nat, NEW st, Ladder(st, N),
         NEW h \in Nat, NEW e \in Nat, NEW at \in Nat, Place(st, N, h, e, at),
         NEW X \in Seq(Nat), NEW from \in Nat, Shown(X, from, st, N),
         NEW i \in 1..Len(X), from + i = at + 1
  PROVE  /\ h < N
         /\ \/ X[i] = 0 /\ at + 1 = st[h + 2] /\ Place(st, N, h + 1, 0, at + 1)
            \/ X[i] = h + 1 /\ at + 1 < st[h + 2] /\ Place(st, N, h, e + 1, at + 1)
<1>1. /\ h \in 0..N /\ e \in Nat /\ at \in Nat /\ at = st[h + 1] + e
      /\ h = N => e = 0
      /\ h < N => at < st[h + 2]
  BY DEF Place
<1>2. \A n \in 1..N + 1 : st[n] \in Nat
  BY DEF Ladder
<1>3. N + 1 \in 1..N + 1 /\ h + 1 \in 1..N + 1
  BY <1>1
<1>4. PICK top \in Nat : top = st[N + 1]
  BY <1>2, <1>3
<1>5. PICK base \in Nat : base = st[h + 1]
  BY <1>2, <1>3
<1>6. from + Len(X) <= top
  BY <1>4 DEF Shown
<1>7. Len(X) \in Nat /\ at + 1 <= top
  BY <1>6
<1>8. at = base + e /\ h <= N
  BY <1>1, <1>5
<1>9. h < N
  <2>1. h = N => top = base /\ e = 0
    BY <1>1, <1>4, <1>5
  <2>2. h # N
    BY <1>7, <1>8, <2>1
  <2> QED BY <1>8, <2>2
<1>10. h + 1 \in 1..N /\ h + 2 \in 1..N + 1 /\ h + 1 + 1 = h + 2
  BY <1>9
<1>11. PICK nl \in Nat : nl = st[h + 2]
  BY <1>2, <1>10
<1>12. at < nl
  BY <1>1, <1>9, <1>11
<1>13. /\ base < at + 1 /\ at + 1 < nl => X[i] = h + 1
       /\ at + 1 = nl => X[i] = 0
  <2> DEFINE n == h + 1
  <2>1. n \in 1..N /\ n + 1 = h + 2
    BY <1>10
  <2> HIDE DEF n
  <2>2. /\ st[n] < from + i /\ from + i < st[n + 1] => X[i] = n
        /\ from + i = st[n + 1] => X[i] = 0
    BY <2>1 DEF Shown
  <2>3. st[n] = base /\ st[n + 1] = nl
    BY <1>5, <1>11, <2>1 DEF n
  <2> QED BY <2>2, <2>3 DEF n
<1>14. CASE at + 1 = nl
  <2>1. X[i] = 0 /\ at + 1 = st[h + 2]
    BY <1>11, <1>13, <1>14
  <2>2. h + 1 < N => at + 1 < st[h + 3]
    <3>1. SUFFICES ASSUME h + 1 < N PROVE at + 1 < st[h + 3]
      OBVIOUS
    <3>2. h + 2 \in 1..N /\ h + 3 \in 1..N + 1 /\ h + 2 + 1 = h + 3
      BY <3>1
    <3>3. PICK after \in Nat : after = st[h + 3]
      BY <1>2, <3>2
    <3>4. nl + 2 <= after
      <4> DEFINE n == h + 2
      <4>1. n \in 1..N /\ n + 1 = h + 3
        BY <3>2
      <4> HIDE DEF n
      <4>2. st[n] + 2 <= st[n + 1]
        BY <4>1 DEF Ladder
      <4> QED BY <1>11, <3>3, <4>1, <4>2 DEF n
    <3>5. at + 1 < after
      BY <1>14, <3>4
    <3> QED BY <3>3, <3>5
  <2>3. Place(st, N, h + 1, 0, at + 1)
    <3>1. h + 1 \in 0..N /\ at + 1 \in Nat /\ 0 \in Nat /\ h + 1 + 2 = h + 3
      BY <1>9
    <3>2. at + 1 = st[h + 1 + 1] + 0
      BY <1>10, <1>11, <1>14
    <3>3. h + 1 < N => at + 1 < st[h + 1 + 2]
      BY <2>2, <3>1
    <3> QED BY <3>1, <3>2, <3>3 DEF Place
  <2> QED BY <1>9, <2>1, <2>3
<1>15. CASE at + 1 # nl
  <2>1. at + 1 < nl /\ base < at + 1
    BY <1>8, <1>12, <1>15
  <2>2. X[i] = h + 1 /\ at + 1 < st[h + 2]
    BY <1>11, <1>13, <2>1
  <2>3. Place(st, N, h, e + 1, at + 1)
    <3>1. at + 1 = base + (e + 1) /\ at + 1 \in Nat /\ e + 1 \in Nat /\ h # N
      BY <1>8, <1>9
    <3>2. at + 1 = st[h + 1] + (e + 1)
      BY <1>5, <3>1
    <3> QED BY <1>1, <2>2, <3>1, <3>2 DEF Place
  <2> QED BY <1>9, <2>2, <2>3
<1> QED BY <1>14, <1>15

\* What comes next is the rest of a line, or a part of it.
LEMMA BytesAt ==
  ASSUME NEW N \in Nat, NEW st, Ladder(st, N),
         NEW h \in Nat, NEW e \in Nat, NEW at \in Nat, Place(st, N, h, e, at),
         NEW X \in Seq(Nat), Shown(X, at, st, N), Len(X) > 0
  PROVE  /\ h < N
         /\ \E room \in Nat \ {0} :
              /\ at + room = st[h + 2]
              /\ \A i \in 1..Len(X) : i < room => X[i] = h + 1
              /\ room <= Len(X) => X[room] = 0 /\ Place(st, N, h + 1, 0, at + room)
              /\ room > Len(X) => Place(st, N, h, e + Len(X), at + Len(X))
<1>1. /\ h \in 0..N /\ e \in Nat /\ at \in Nat /\ at = st[h + 1] + e
      /\ h = N => e = 0
      /\ h < N => at < st[h + 2]
  BY DEF Place
<1>2. \A n \in 1..N + 1 : st[n] \in Nat
  BY DEF Ladder
<1>3. N + 1 \in 1..N + 1 /\ h + 1 \in 1..N + 1
  BY <1>1
<1>4. PICK top \in Nat : top = st[N + 1]
  BY <1>2, <1>3
<1>5. PICK base \in Nat : base = st[h + 1]
  BY <1>2, <1>3
<1>6. PICK size \in Nat : size = Len(X)
  OBVIOUS
<1>7. at + size <= top /\ size > 0
  BY <1>4, <1>6 DEF Shown
<1>8. at = base + e /\ h <= N
  BY <1>1, <1>5
<1>9. h < N
  <2>1. h = N => top = base /\ e = 0
    BY <1>1, <1>4, <1>5
  <2>2. h # N
    BY <1>7, <1>8, <2>1
  <2> QED BY <1>8, <2>2
<1>10. h + 1 \in 1..N /\ h + 2 \in 1..N + 1 /\ h + 1 + 1 = h + 2
  BY <1>9
<1>11. PICK nl \in Nat : nl = st[h + 2]
  BY <1>2, <1>10
<1>12. PICK room \in Nat \ {0} : at + room = nl
  <2>1. at < nl
    BY <1>1, <1>9, <1>11
  <2>2. nl - at \in Nat \ {0} /\ at + (nl - at) = nl
    BY <2>1
  <2> QED BY <2>2
<1>13. ASSUME NEW i \in 1..Len(X)
       PROVE  (i < room => X[i] = h + 1) /\ (i = room => X[i] = 0)
  <2> DEFINE n == h + 1
  <2>1. n \in 1..N /\ n + 1 = h + 2
    BY <1>10
  <2> HIDE DEF n
  <2>2. /\ st[n] < at + i /\ at + i < st[n + 1] => X[i] = n
        /\ at + i = st[n + 1] => X[i] = 0
    BY <2>1 DEF Shown
  <2>3. st[n] = base /\ st[n + 1] = nl
    BY <1>5, <1>11, <2>1 DEF n
  <2>4. i \in Nat /\ i > 0
    OBVIOUS
  <2>5. base < at + i /\ (i < room => at + i < nl) /\ (i = room => at + i = nl)
    BY <1>8, <1>12, <2>4
  <2> QED BY <2>2, <2>3, <2>5 DEF n
<1>14. \A i \in 1..Len(X) : i < room => X[i] = h + 1
  BY <1>13
<1>15. ASSUME room <= Len(X) PROVE X[room] = 0 /\ Place(st, N, h + 1, 0, at + room)
  <2>1. room \in 1..Len(X)
    BY <1>15
  <2>2. X[room] = 0
    BY <1>13, <2>1
  <2>3. h + 1 < N => at + room < st[h + 3]
    <3>1. SUFFICES ASSUME h + 1 < N PROVE at + room < st[h + 3]
      OBVIOUS
    <3>2. h + 2 \in 1..N /\ h + 3 \in 1..N + 1 /\ h + 2 + 1 = h + 3
      BY <3>1
    <3>3. PICK after \in Nat : after = st[h + 3]
      BY <1>2, <3>2
    <3>4. nl + 2 <= after
      <4> DEFINE n == h + 2
      <4>1. n \in 1..N /\ n + 1 = h + 3
        BY <3>2
      <4> HIDE DEF n
      <4>2. st[n] + 2 <= st[n + 1]
        BY <4>1 DEF Ladder
      <4> QED BY <1>11, <3>3, <4>1, <4>2 DEF n
    <3>5. at + room < after
      BY <1>12, <3>4
    <3> QED BY <3>3, <3>5
  <2>4. Place(st, N, h + 1, 0, at + room)
    <3>1. h + 1 \in 0..N /\ at + room \in Nat /\ 0 \in Nat /\ h + 1 + 2 = h + 3
      BY <1>9
    <3>2. at + room = st[h + 1 + 1] + 0
      BY <1>10, <1>11, <1>12
    <3>3. h + 1 < N => at + room < st[h + 1 + 2]
      BY <2>3, <3>1
    <3> QED BY <3>1, <3>2, <3>3 DEF Place
  <2> QED BY <2>2, <2>4
<1>16. ASSUME room > Len(X) PROVE Place(st, N, h, e + Len(X), at + Len(X))
  <2>1. at + size = base + (e + size) /\ at + size < nl /\ at + size \in Nat /\ e + size \in Nat /\ h # N
    BY <1>6, <1>8, <1>9, <1>12, <1>16
  <2>2. at + Len(X) = st[h + 1] + (e + Len(X)) /\ at + Len(X) < st[h + 2]
    BY <1>5, <1>6, <1>11, <2>1
  <2> QED BY <1>1, <1>6, <2>1, <2>2 DEF Place
<1>17. at + room = st[h + 2]
  BY <1>11, <1>12
<1> QED BY <1>9, <1>14, <1>15, <1>16, <1>17

-----------------------------------------------------------------------------
(* Lines.                                                                  *)

LEMMA LinesAre ==
  /\ \A l \in DownLines :
       /\ l.size \in Sizes /\ l.size <= RequestMax /\ l.kind \in {"request", "config", "shutdown"}
       /\ l.kind = "request" => l.call \in Calls /\ l.request \in AskedFor
  /\ \A l \in UpLines :
       /\ l.size \in Sizes /\ l.kind \in {"response", "status", "other"}
       /\ l.kind = "response" => l.call \in Calls /\ l.code \in Codes
BY WireAssumption DEF DownLines, UpLines, Sizes

\* A whole line is decoded as itself, less than a line as a fragment.
LEMMA DecodedIs ==
  ASSUME NEW pipe, NEW n \in Nat, NEW e \in Nat, pipe.lines[n].size \in Sizes, e > 0
  PROVE  Decoded(pipe, Cells(n, e)) = IF e = pipe.lines[n].size THEN n ELSE Fragment
<1> DEFINE c == Cells(n, e)
           w == Cells(n, pipe.lines[n].size)
<1>1. /\ c \in Seq(Nat) /\ Len(c) = e /\ \A i \in 1..e : c[i] = n
      /\ w \in Seq(Nat) /\ Len(w) = pipe.lines[n].size
  BY CellsAre DEF Sizes
<1>2. e = pipe.lines[n].size => c = w
  OBVIOUS
<1> HIDE DEF c, w
<1>3. c # <<>> /\ c[1] = n
  <2>1. 1 \in 1..e
    OBVIOUS
  <2> QED BY <1>1, <2>1
<1>4. c = w <=> e = pipe.lines[n].size
  BY <1>1, <1>2
<1>5. Decoded(pipe, c) = IF c # <<>> /\ c = Cells(c[1], pipe.lines[c[1]].size) THEN c[1] ELSE Fragment
  BY DEF Decoded
<1>6. Decoded(pipe, c) = IF c = w THEN n ELSE Fragment
  BY <1>3, <1>5 DEF w
<1> QED BY <1>4, <1>6 DEF c

LEMMA WroteIs ==
  ASSUME NEW S, NEW pipe \in PipeOf(S), NEW l \in S, l.size \in Sizes
  PROVE  LET N == Len(pipe.lines)
             after == Wrote(pipe, l)
         IN  /\ after \in PipeOf(S)
             /\ after.lines = Append(pipe.lines, l) /\ Len(after.lines) = N + 1
             /\ after.cells = More(pipe.cells, N + 1, l.size)
             /\ \A i \in 1..N : after.lines[i] = pipe.lines[i]
             /\ after.lines[N + 1] = l
<1> DEFINE N == Len(pipe.lines)
<1>1. pipe.cells \in Seq(Nat) /\ pipe.lines \in Seq(S) /\ N + 1 \in Nat /\ l.size \in Nat
  BY DEF PipeOf, Sizes
<1>2. /\ Append(pipe.lines, l) \in Seq(S) /\ Len(Append(pipe.lines, l)) = N + 1
      /\ \A i \in 1..N : Append(pipe.lines, l)[i] = pipe.lines[i]
      /\ Append(pipe.lines, l)[N + 1] = l
  BY <1>1, LongerList
<1>3. More(pipe.cells, N + 1, l.size) \in Seq(Nat)
  BY <1>1, WroteCells DEF IsMore
<1>4. Wrote(pipe, l) = [lines |-> Append(pipe.lines, l), cells |-> More(pipe.cells, N + 1, l.size)]
  BY DEF Wrote, More
<1> QED BY <1>2, <1>3, <1>4 DEF PipeOf

\* The stream with a line more.
LEMMA WroteWhole ==
  ASSUME NEW S, NEW pipe \in PipeOf(S), NEW l \in S, l.size \in Sizes, NEW st, Whole(pipe, st)
  PROVE  Whole(Wrote(pipe, l), Higher(st, Len(pipe.lines), l.size))
<1> DEFINE N == Len(pipe.lines)
           after == Wrote(pipe, l)
           t == Higher(st, N, l.size)
<1>1. N \in Nat /\ Ladder(st, N)
  BY DEF Whole, PipeOf
<1>2. Ladder(t, N + 1)
  BY <1>1, LadderGrows DEF Sizes
<1>3. /\ \A n \in 1..N + 1 : t[n] = st[n]
      /\ t[N + 2] = st[N + 1] + l.size + 1
  BY <1>1, HigherIs
<1>4. /\ Len(after.lines) = N + 1
      /\ \A i \in 1..N : after.lines[i] = pipe.lines[i]
      /\ after.lines[N + 1] = l
  BY WroteIs
<1>5. \A n \in 1..N : st[n + 1] = st[n] + pipe.lines[n].size + 1
  BY DEF Whole
<1> HIDE DEF t, after, N
<1>6. ASSUME NEW n \in 1..N + 1 PROVE t[n + 1] = t[n] + after.lines[n].size + 1
  <2>1. CASE n = N + 1
    <3>1. n \in 1..N + 1 /\ n + 1 = N + 2
      BY <1>1, <2>1
    <3> QED BY <1>3, <1>4, <2>1, <3>1
  <2>2. CASE n # N + 1
    <3>1. n \in 1..N /\ n \in 1..N + 1 /\ n + 1 \in 1..N + 1
      BY <1>1, <2>2
    <3> QED BY <1>3, <1>4, <1>5, <3>1
  <2> QED BY <2>1, <2>2
<1>7. Whole(after, t)
  BY <1>2, <1>4, <1>6 DEF Whole
<1> QED BY <1>7 DEF t, after, N

\* Either side is where it was when a line is written.
LEMMA DownWrote ==
  ASSUME NEW pipe \in PipeOf(DownLines), NEW l \in DownLines,
         NEW line \in Seq(Nat), NEW passed \in Seq(Int), NEW st, NEW at,
         Down(pipe, line, passed, st, at)
  PROVE  Down(Wrote(pipe, l), line, passed, Higher(st, Len(pipe.lines), l.size), at)
<1> DEFINE N == Len(pipe.lines)
           after == Wrote(pipe, l)
           t == Higher(st, N, l.size)
<1>1. /\ N \in Nat /\ Ladder(st, N) /\ pipe.cells \in Seq(Nat) /\ at \in Nat
      /\ l.size \in Nat \ {0} /\ l.size \in Sizes
  BY LinesAre DEF Down, Whole, Place, PipeOf, Sizes
<1>2. /\ Whole(pipe, st)
      /\ Shown(pipe.cells, at, st, N) /\ at + Len(pipe.cells) = st[N + 1]
      /\ Place(st, N, Len(passed), Len(line), at)
      /\ line = Cells(Len(passed) + 1, Len(line))
  BY DEF Down
<1>3. /\ Len(after.lines) = N + 1 /\ after.cells = More(pipe.cells, N + 1, l.size)
  BY <1>1, WroteIs
<1>4. Whole(after, t)
  BY <1>1, <1>2, WroteWhole
<1>5. Shown(after.cells, at, t, N + 1) /\ at + Len(after.cells) = t[N + 2]
  <2> DEFINE X == pipe.cells
             k == l.size
  <2>1. /\ N \in Nat /\ Ladder(st, N) /\ k \in Nat \ {0} /\ X \in Seq(Nat) /\ at \in Nat
        /\ Shown(X, at, st, N) /\ at + Len(X) = st[N + 1]
    BY <1>1, <1>2
  <2> HIDE DEF N, X, k
  <2>2. Shown(More(X, N + 1, k), at, Higher(st, N, k), N + 1) /\ at + Len(More(X, N + 1, k)) = Higher(st, N, k)[N + 2]
    BY <2>1, ShownGrows
  <2> QED BY <1>3, <2>2 DEF N, X, k
<1>6. Place(t, N + 1, Len(passed), Len(line), at)
  BY <1>1, <1>2, PlaceStays
<1>7. N + 1 + 1 = N + 2
  BY <1>1
<1> HIDE DEF N, after, t
<1>8. Down(after, line, passed, t, at)
  BY <1>2, <1>3, <1>4, <1>5, <1>6, <1>7 DEF Down
<1> QED BY <1>8 DEF N, after, t

LEMMA UpWrote ==
  ASSUME NEW pipe \in PipeOf(UpLines), NEW l \in UpLines,
         NEW r \in Readers, NEW passed \in Seq(Int), Reads(pipe, r, TRUE, passed)
  PROVE  Reads(Wrote(pipe, l), r, TRUE, passed)
<1> DEFINE N == Len(pipe.lines)
           after == Wrote(pipe, l)
<1>0. PICK st, e, at : Up(pipe, r, TRUE, passed, st, e, at)
  BY DEF Reads
<1> DEFINE t == Higher(st, N, l.size)
<1>1. /\ N \in Nat /\ Ladder(st, N) /\ pipe.cells \in Seq(Nat) /\ at \in Nat
      /\ l.size \in Nat \ {0} /\ l.size \in Sizes
      /\ r.chunk \in Seq(Nat) /\ at + Len(r.chunk) \in Nat
  BY <1>0, LinesAre DEF Up, Whole, Place, PipeOf, Sizes, Readers
<1>2. /\ Whole(pipe, st)
      /\ Shown(r.chunk, at, st, N) /\ Shown(pipe.cells, at + Len(r.chunk), st, N)
      /\ at + Len(r.chunk) + Len(pipe.cells) = st[N + 1]
      /\ Place(st, N, Len(passed), e, at)
      /\ Marks(passed, pipe.lines)
      /\ IF r.oversize THEN e > MaxLine /\ r.line = <<>>
         ELSE e <= MaxLine /\ r.line = Cells(Len(passed) + 1, e)
  BY <1>0 DEF Up
<1>3. /\ Len(after.lines) = N + 1 /\ after.cells = More(pipe.cells, N + 1, l.size)
      /\ \A i \in 1..N : after.lines[i] = pipe.lines[i]
  BY <1>1, WroteIs
<1>4. Whole(after, t)
  BY <1>1, <1>2, WroteWhole
<1>5. Shown(r.chunk, at, t, N + 1)
  BY <1>1, <1>2, ShownStays
<1>6. Shown(after.cells, at + Len(r.chunk), t, N + 1) /\ at + Len(r.chunk) + Len(after.cells) = t[N + 2]
  <2> DEFINE from == at + Len(r.chunk)
  <2>1. from \in Nat /\ Shown(pipe.cells, from, st, N) /\ from + Len(pipe.cells) = st[N + 1]
    BY <1>1, <1>2
  <2> DEFINE X == pipe.cells
             k == l.size
  <2>2. /\ N \in Nat /\ Ladder(st, N) /\ k \in Nat \ {0} /\ X \in Seq(Nat) /\ from \in Nat
        /\ Shown(X, from, st, N) /\ from + Len(X) = st[N + 1]
    BY <1>1, <2>1
  <2> HIDE DEF N, X, k, from
  <2>3. Shown(More(X, N + 1, k), from, Higher(st, N, k), N + 1) /\ from + Len(More(X, N + 1, k)) = Higher(st, N, k)[N + 2]
    BY <2>2, ShownGrows
  <2> QED BY <1>3, <2>3 DEF N, X, k, from
<1>7. Place(t, N + 1, Len(passed), e, at)
  BY <1>1, <1>2, PlaceStays
<1>8. Marks(passed, after.lines)
  <2> HIDE DEF N, after
  <2>1. Len(passed) <= N /\ Len(passed) \in Nat /\ DOMAIN passed = 1..Len(passed)
    BY <1>1, <1>2 DEF Place
  <2>2. ASSUME NEW i \in DOMAIN passed PROVE passed[i] = Mark(after.lines, i)
    <3>1. i \in 1..N
      BY <1>1, <2>1
    <3> QED BY <1>2, <1>3, <3>1 DEF Marks, Mark
  <2> QED BY <2>2 DEF Marks
<1>9. N + 1 + 1 = N + 2
  BY <1>1
<1> HIDE DEF N, after, t
<1>10. Up(after, r, TRUE, passed, t, e, at)
  BY <1>2, <1>3, <1>4, <1>5, <1>6, <1>7, <1>8, <1>9 DEF Up
<1> QED BY <1>10 DEF Reads, N, after, t

\* Nothing, and a list that is cut nowhere.
LEMMA NoCells == \A n : Cells(n, 0) = <<>>
BY DEF Cells

LEMMA ShownNothing ==
  ASSUME NEW N \in Nat, NEW st, Ladder(st, N), NEW at \in Nat, at <= st[N + 1]
  PROVE  Shown(<<>>, at, st, N)
BY DEF Shown

\* The first newline is found.
LEMMA FirstNewline ==
  ASSUME NEW S \in SUBSET Nat, NEW room \in S, \A i \in S : room <= i
  PROVE  (CHOOSE i \in S : \A j \in S : i <= j) = room
<1> DEFINE k == CHOOSE i \in S : \A j \in S : i <= j
<1>1. k \in S /\ \A j \in S : k <= j
  OBVIOUS
<1> HIDE DEF k
<1>2. k <= room /\ room <= k /\ k \in Nat /\ room \in Nat
  BY <1>1
<1>3. k = room
  BY <1>2
<1> QED BY <1>3 DEF k

\* The reader with a chunk, with a part of a line more, and after a line.
Loaded(r, bytes) == [r EXCEPT !.chunk = bytes]
PartRead(r, over, line) == [r EXCEPT !.chunk = <<>>, !.line = line, !.oversize = over]
LineRead(r, left) == [r EXCEPT !.chunk = left, !.line = <<>>, !.oversize = FALSE]

LEMMA LoadedIs ==
  ASSUME NEW r \in Readers, NEW bytes \in Seq(Nat)
  PROVE  LET s == Loaded(r, bytes)
         IN  /\ s \in Readers /\ s.chunk = bytes /\ s.line = r.line
             /\ s.oversize = r.oversize /\ s.ended = r.ended
BY DEF Loaded, Readers

ReaderIs(s, chunk, line, over, ended) ==
  /\ s \in Readers
  /\ s.chunk = chunk /\ s.line = line /\ s.oversize = over /\ s.ended = ended

LEMMA PartReadIs ==
  ASSUME NEW r \in Readers, NEW over \in BOOLEAN, NEW line \in Seq(Nat)
  PROVE  ReaderIs(PartRead(r, over, line), <<>>, line, over, r.ended)
<1> DEFINE none == <<>>
<1>1. none \in Seq(Nat)
  OBVIOUS
<1>2. PartRead(r, over, line) = [r EXCEPT !.chunk = none, !.line = line, !.oversize = over]
  BY DEF PartRead
<1> HIDE DEF none
<1>3. PartRead(r, over, line) = [chunk |-> none, line |-> line, oversize |-> over, ended |-> r.ended]
  BY <1>2 DEF Readers
<1>4. r.ended \in BOOLEAN
  BY DEF Readers
<1>5. LET s == PartRead(r, over, line)
      IN  /\ s \in Readers /\ s.chunk = none /\ s.line = line
          /\ s.oversize = over /\ s.ended = r.ended
  BY <1>1, <1>3, <1>4 DEF Readers
<1> QED BY <1>5 DEF none, ReaderIs

LEMMA LineReadIs ==
  ASSUME NEW r \in Readers, NEW left \in Seq(Nat)
  PROVE  LET s == LineRead(r, left)
         IN  /\ s \in Readers /\ s.chunk = left /\ s.line = <<>>
             /\ s.oversize = FALSE /\ s.ended = r.ended
<1> DEFINE none == <<>>
           no == FALSE
<1>1. none \in Seq(Nat) /\ no \in BOOLEAN
  OBVIOUS
<1>2. LineRead(r, left) = [r EXCEPT !.chunk = left, !.line = none, !.oversize = no]
  BY DEF LineRead
<1> HIDE DEF none, no
<1>3. LineRead(r, left) = [chunk |-> left, line |-> none, oversize |-> no, ended |-> r.ended]
  BY <1>2 DEF Readers
<1>4. r.ended \in BOOLEAN
  BY DEF Readers
<1>5. LET s == LineRead(r, left)
      IN  /\ s \in Readers /\ s.chunk = left /\ s.line = none
          /\ s.oversize = no /\ s.ended = r.ended
  BY <1>1, <1>3, <1>4 DEF Readers
<1> QED BY <1>5 DEF none, no

\* One turn of read_line: it has a part of the line more, or the line or its mark.
LEMMA NoNewline ==
  ASSUME NEW pipe \in PipeOf(UpLines), reader \in Readers, NEW passed \in Seq(Int), NEW there,
         NEW bytes \in Seq(Nat), NEW st, NEW e \in Nat, NEW at \in Nat, Len(bytes) > 0,
         Up(pipe, Loaded(reader, bytes), there, passed, st, e, at),
         \A i \in 1..Len(bytes) : bytes[i] = Len(passed) + 1,
         Place(st, Len(pipe.lines), Len(passed), e + Len(bytes), at + Len(bytes)),
         NEW over \in BOOLEAN, over <=> (reader.oversize \/ Len(reader.line) + Len(bytes) > MaxLine),
         NEW line, line = IF over THEN <<>> ELSE reader.line \o SubSeq(bytes, 1, Len(bytes))
  PROVE  /\ line \in Seq(Nat)
         /\ Up(pipe, PartRead(reader, over, line), there, passed, st, e + Len(bytes), at + Len(bytes))
<1> DEFINE N == Len(pipe.lines)
           h == Len(passed)
           r == PartRead(reader, over, line)
           q == Loaded(reader, bytes)
<1>1. /\ q.chunk = bytes /\ q.oversize = reader.oversize /\ q.line = reader.line
      /\ reader.oversize \in BOOLEAN /\ reader.line \in Seq(Nat)
      /\ N \in Nat /\ h \in Nat
  BY LoadedIs DEF Readers, PipeOf
<1>0. line \in Seq(Nat)
  <2>1. SubSeq(bytes, 1, Len(bytes)) = bytes
    BY SubSeqFull
  <2>2. reader.line \o bytes \in Seq(Nat)
    BY <1>1, Joined
  <2> DEFINE longer == reader.line \o SubSeq(bytes, 1, Len(bytes))
  <2>3. longer \in Seq(Nat) /\ <<>> \in Seq(Nat)
    <3>1. longer = reader.line \o bytes
      BY <2>1
    <3> HIDE DEF longer
    <3> QED BY <2>2, <3>1
  <2>4. line = IF over THEN <<>> ELSE longer
    OBVIOUS
  <2> HIDE DEF longer
  <2> QED BY <2>3, <2>4
<1>2. r.chunk = <<>> /\ r.oversize = over /\ r.line = line
  <2>1. reader \in Readers /\ over \in BOOLEAN
    OBVIOUS
  <2>2. ReaderIs(PartRead(reader, over, line), <<>>, line, over, reader.ended)
    BY <1>0, <2>1, PartReadIs
  <2> QED BY <2>2 DEF ReaderIs
<1> HIDE DEF q, r
<1>3. /\ Whole(pipe, st)
      /\ Shown(bytes, at, st, N) /\ Shown(pipe.cells, at + Len(bytes), st, N)
      /\ there => at + Len(bytes) + Len(pipe.cells) = st[N + 1]
      /\ Marks(passed, pipe.lines)
      /\ IF reader.oversize THEN e > MaxLine /\ reader.line = <<>>
         ELSE e <= MaxLine /\ reader.line = Cells(h + 1, e)
  BY <1>1 DEF Up, q
<1>4. PICK k \in Nat : k = Len(bytes)
  <2>1. Len(bytes) \in Nat
    OBVIOUS
  <2> QED BY <2>1, Zenon
<1>5. Ladder(st, N) /\ at + k \in Nat /\ at + k <= st[N + 1]
  BY <1>3, <1>4 DEF Whole, Shown
<1>6. Shown(<<>>, at + k, st, N)
  BY <1>1, <1>5, ShownNothing
<1>7. IF over THEN e + k > MaxLine /\ line = <<>> ELSE e + k <= MaxLine /\ line = Cells(h + 1, e + k)
  <2> DEFINE longer == reader.line \o SubSeq(bytes, 1, Len(bytes))
  <2>1. PICK M \in Nat : M = MaxLine
    BY WireAssumption
  <2>2. k > 0 /\ line = IF over THEN <<>> ELSE longer
    BY <1>4
  <2>3. over <=> (reader.oversize \/ Len(reader.line) + k > M)
    BY <1>4, <2>1
  <2>4. CASE reader.oversize
    <3>1. e > M
      BY <1>3, <2>1, <2>4
    <3>2. e + k > M
      BY <2>2, <3>1
    <3> QED BY <2>1, <2>2, <2>3, <2>4, <3>2, Zenon
  <2>5. CASE ~reader.oversize
    <3> DEFINE n == h + 1
    <3>0. n \in Nat /\ \A i \in 1..Len(bytes) : bytes[i] = n
      BY <1>1
    <3>1. reader.line = Cells(n, e)
      BY <1>3, <2>5
    <3> HIDE DEF n
    <3>2. Len(reader.line) = e
      BY <3>0, <3>1, CellsAre
    <3>3. over <=> e + k > M
      BY <2>3, <2>5, <3>2
    <3>4. longer = Cells(n, e + k)
      <4>1. SubSeq(bytes, 1, Len(bytes)) = bytes
        BY SubSeqFull
      <4>2. Cells(n, e) \o bytes = Cells(n, e + Len(bytes))
        BY <3>0, CellsGrow
      <4> QED BY <1>4, <3>1, <4>1, <4>2
    <3> HIDE DEF longer
    <3>5. CASE over
      BY <2>1, <2>2, <3>3, <3>5
    <3>6. CASE ~over
      <4>1. e + k <= M
        BY <3>3, <3>6
      <4> QED BY <2>1, <2>2, <3>4, <3>6, <4>1 DEF n
    <3> QED BY <3>5, <3>6
  <2> QED BY <1>1, <2>4, <2>5
<1>8. Len(<<>>) = 0 /\ at + k + Len(<<>>) = at + k
  BY <1>4
<1>9. Place(st, N, h, e + k, at + k)
  BY <1>4
<1>10. Shown(pipe.cells, at + k, st, N) /\ (there => at + k + Len(pipe.cells) = st[N + 1])
  BY <1>3, <1>4
<1> HIDE DEF N, h
<1>11. Up(pipe, r, there, passed, st, e + k, at + k)
  BY <1>2, <1>3, <1>6, <1>7, <1>8, <1>9, <1>10 DEF Up, N, h
<1> QED BY <1>0, <1>4, <1>11 DEF r

LEMMA ElementIs == ASSUME NEW S, NEW s \in Seq(S), NEW n \in 1..Len(s) PROVE s[n] \in S
OBVIOUS

LEMMA MarksGrow ==
  ASSUME NEW passed \in Seq(Int), NEW lines, Marks(passed, lines), NEW m \in Int,
         m = Mark(lines, Len(passed) + 1)
  PROVE  /\ Append(passed, m) \in Seq(Int) /\ Len(Append(passed, m)) = Len(passed) + 1
         /\ Marks(Append(passed, m), lines)
<1>1. /\ Append(passed, m) \in Seq(Int) /\ Len(Append(passed, m)) = Len(passed) + 1 /\ Len(passed) \in Nat
      /\ DOMAIN passed = 1..Len(passed) /\ DOMAIN Append(passed, m) = 1..Len(passed) + 1
      /\ \A i \in 1..Len(passed) : Append(passed, m)[i] = passed[i]
      /\ Append(passed, m)[Len(passed) + 1] = m
  BY LongerList
<1> DEFINE longer == Append(passed, m)
           h == Len(passed)
<1>2. /\ DOMAIN longer = 1..h + 1 /\ h \in Nat /\ DOMAIN passed = 1..h
      /\ \A i \in 1..h : longer[i] = passed[i]
      /\ longer[h + 1] = Mark(lines, h + 1)
  BY <1>1
<1> HIDE DEF longer, h
<1>3. \A i \in 1..h + 1 : i \in 1..h \/ i = h + 1
  BY <1>2
<1>4. Marks(longer, lines)
  BY <1>2, <1>3 DEF Marks
<1> QED BY <1>1, <1>4 DEF longer

LEMMA SizeSums ==
  \A at, base, e, room, size \in Nat :
    at = base + e /\ at + room = base + size + 1 => size = e + (room - 1)
OBVIOUS

LEMMA RoomAndLeft == \A at, room, k \in Nat : at + room + (k - room) = at + k
OBVIOUS

LEMMA SizeIsMore == \A e, room, size, M \in Nat : size = e + (room - 1) /\ room >= 1 /\ e > M => size > M
OBVIOUS

Before(bytes, room, n) == \A i \in 1..Len(bytes) : i < room => bytes[i] = n
Passes(pipe, passed, m, left, there, st, at) ==
  /\ m = Mark(pipe.lines, Len(passed) + 1) /\ m \in Int /\ left \in Seq(Nat)
  /\ Up(pipe, LineRead(reader, left), there, Append(passed, m), st, 0, at)

LEMMA WithNewline ==
  ASSUME NEW pipe \in PipeOf(UpLines), reader \in Readers, NEW passed \in Seq(Int), NEW there,
         NEW bytes \in Seq(Nat), NEW st, NEW e \in Nat, NEW at \in Nat,
         Up(pipe, Loaded(reader, bytes), there, passed, st, e, at),
         NEW room \in Nat, room \in 1..Len(bytes), at + room = st[Len(passed) + 2],
         Before(bytes, room, Len(passed) + 1),
         Len(passed) < Len(pipe.lines),
         Place(st, Len(pipe.lines), Len(passed) + 1, 0, at + room),
         NEW over \in BOOLEAN, over <=> (reader.oversize \/ Len(reader.line) + (room - 1) > MaxLine),
         NEW m, m = IF over THEN Oversize ELSE Decoded(pipe, reader.line \o SubSeq(bytes, 1, room - 1)),
         NEW left, left = SubSeq(bytes, room + 1, Len(bytes))
  PROVE  Passes(pipe, passed, m, left, there, st, at + room)
<1> DEFINE N == Len(pipe.lines)
           h == Len(passed)
           line == reader.line \o SubSeq(bytes, 1, room - 1)
           r == LineRead(reader, left)
           q == Loaded(reader, bytes)
<1>1. /\ q.chunk = bytes /\ q.oversize = reader.oversize /\ q.line = reader.line
      /\ reader.oversize \in BOOLEAN /\ reader.line \in Seq(Nat)
      /\ N \in Nat /\ h \in Nat /\ h < N
  BY LoadedIs DEF Readers, PipeOf
<1>0. m = IF over THEN Oversize ELSE Decoded(pipe, line)
  OBVIOUS
<1> HIDE DEF q, r, line
<1>3. /\ Whole(pipe, st)
      /\ Shown(bytes, at, st, N) /\ Shown(pipe.cells, at + Len(bytes), st, N)
      /\ there => at + Len(bytes) + Len(pipe.cells) = st[N + 1]
      /\ Place(st, N, h, e, at)
      /\ Marks(passed, pipe.lines)
      /\ IF reader.oversize THEN e > MaxLine /\ reader.line = <<>>
         ELSE e <= MaxLine /\ reader.line = Cells(h + 1, e)
  BY <1>1 DEF Up, q
<1>4. PICK k \in Nat : k = Len(bytes)
  <2>1. Len(bytes) \in Nat
    OBVIOUS
  <2> QED BY <2>1, Zenon
<1>5. room \in Nat /\ room >= 1 /\ room <= k /\ k - room \in Nat /\ room - 1 \in Nat
  BY <1>4
\* The size of the line.
<1>6. /\ h + 1 \in 1..N /\ pipe.lines[h + 1].size \in Sizes
  <2>1. h + 1 \in 1..N
    <3> HIDE DEF N, h
    <3> QED BY <1>1
  <2>2. pipe.lines \in Seq(UpLines)
    BY DEF PipeOf
  <2>3. pipe.lines[h + 1] \in UpLines
    <3> DEFINE n == h + 1
    <3>1. n \in 1..Len(pipe.lines)
      BY <2>1
    <3> HIDE DEF n
    <3>2. pipe.lines[n] \in UpLines
      BY <2>2, <3>1, ElementIs
    <3> QED BY <3>2 DEF n
  <2> QED BY <2>1, <2>3, LinesAre
<1>7. PICK size \in Nat : size = pipe.lines[h + 1].size /\ size > 0
  <2> DEFINE z == pipe.lines[h + 1].size
  <2>1. z \in Nat \ {0}
    BY <1>6 DEF Sizes
  <2> HIDE DEF z
  <2>2. z \in Nat /\ z > 0
    BY <2>1
  <2> QED BY <2>2, Zenon DEF z
<1>8. size = e + (room - 1)
  <2>1. \A n \in 1..N + 1 : st[n] \in Nat
    BY <1>3 DEF Whole, Ladder
  <2>2. h + 1 \in 1..N + 1 /\ h + 2 = h + 1 + 1
    <3> HIDE DEF h, N
    <3> QED BY <1>1
  <2>3. PICK base \in Nat : base = st[h + 1]
    BY <2>1, <2>2
  <2>4. at = base + e
    BY <1>3, <2>3 DEF Place
  <2>5. st[h + 2] = base + size + 1
    BY <1>3, <1>6, <1>7, <2>2, <2>3 DEF Whole
  <2>6. at + room = base + size + 1
    BY <2>5
  <2> QED BY <2>4, <2>6, SizeSums
<1>9. m = Mark(pipe.lines, h + 1)
  <2>1. PICK M \in Nat : M = MaxLine
    BY WireAssumption
  <2>2. over <=> (reader.oversize \/ Len(reader.line) + (room - 1) > M)
    BY <2>1
  <2>3. Mark(pipe.lines, h + 1) = IF size > M THEN Oversize ELSE h + 1
    BY <1>7, <2>1 DEF Mark
  <2>4. CASE reader.oversize
    <3>1. e > M
      BY <1>3, <2>1, <2>4
    <3>2. over /\ size > M
      <4>1. size > M
        BY <1>5, <1>8, <3>1, SizeIsMore
      <4> QED BY <2>2, <2>4, <4>1, Zenon
    <3> QED BY <1>0, <2>3, <3>2
  <2>5. CASE ~reader.oversize
    <3> DEFINE n == h + 1
               part == SubSeq(bytes, 1, room - 1)
    <3>1. n \in Nat /\ reader.line = Cells(n, e) /\ pipe.lines[n].size = size /\ size \in Sizes
      BY <1>1, <1>3, <1>6, <1>7, <2>5
    <3>2. part \in Seq(Nat) /\ Len(part) = room - 1 /\ \A i \in 1..Len(part) : part[i] = n
      <4> DEFINE b == room - 1
      <4>1. b \in Nat /\ 0 <= b /\ b <= Len(bytes) /\ 0 \in Nat
        BY <1>4, <1>5
      <4> HIDE DEF b
      <4>2. LET Y == SubSeq(bytes, 0 + 1, b)
            IN  /\ Y \in Seq(Nat) /\ Len(Y) = b - 0
                /\ \A i \in 1..Len(Y) : Y[i] = bytes[0 + i] /\ 0 + i \in 1..Len(bytes)
        BY <4>1, PieceIs
      <4>3. SubSeq(bytes, 0 + 1, b) = part
        BY DEF b
      <4> HIDE DEF part
      <4>6. /\ part \in Seq(Nat) /\ Len(part) = b - 0
            /\ \A i \in 1..Len(part) : part[i] = bytes[0 + i] /\ 0 + i \in 1..Len(bytes)
        BY <4>2, <4>3
      <4>7. b - 0 = b /\ \A i \in 1..Len(part) : 0 + i = i
        BY <4>1
      <4>4. /\ part \in Seq(Nat) /\ Len(part) = b
            /\ \A i \in 1..Len(part) : part[i] = bytes[i] /\ i \in 1..Len(bytes)
        BY <4>6, <4>7
      <4>5. \A i \in 1..Len(part) : i < room
        BY <1>5, <4>4 DEF b
      <4> QED BY <4>4, <4>5 DEF b, n, Before
    <3> HIDE DEF n, part
    <3>3. Len(reader.line) = e
      BY <3>1, CellsAre
    <3>4. over <=> size > M
      BY <1>8, <2>2, <2>5, <3>3
    <3>5. Cells(n, e) \o part = Cells(n, e + Len(part))
      BY <3>1, <3>2, CellsGrow
    <3>6. line = Cells(n, size)
      BY <1>8, <3>1, <3>2, <3>5 DEF part, line
    <3>7. Decoded(pipe, Cells(n, size)) = n
      BY <1>7, <3>1, DecodedIs
    <3> QED BY <1>0, <2>3, <3>4, <3>6, <3>7 DEF n
  <2> QED BY <1>1, <2>4, <2>5
<1>10. m \in Int
  BY <1>1, <1>9 DEF Mark, Oversize
<1>11. /\ Append(passed, m) \in Seq(Int) /\ Len(Append(passed, m)) = h + 1
       /\ Marks(Append(passed, m), pipe.lines)
  BY <1>3, <1>9, <1>10, MarksGrow
<1>12. left \in Seq(Nat) /\ Len(left) = k - room /\ Shown(left, at + room, st, N)
  <2>1. room \in Nat /\ k \in Nat /\ room <= k /\ k <= Len(bytes) /\ Ladder(st, N)
    BY <1>3, <1>4, <1>5 DEF Whole
  <2>2. Shown(SubSeq(bytes, room + 1, k), at + room, st, N)
    BY <1>1, <1>3, <2>1, ShownPiece
  <2>3. SubSeq(bytes, room + 1, k) \in Seq(Nat) /\ Len(SubSeq(bytes, room + 1, k)) = k - room
    BY <2>1, PieceIs
  <2> QED BY <1>4, <2>2, <2>3
<1>2. r.chunk = left /\ r.oversize = FALSE /\ r.line = <<>>
  BY <1>12, LineReadIs DEF r
<1>13. at + room + Len(left) = at + Len(bytes)
  <2>1. at + room + (k - room) = at + k
    BY <1>5, RoomAndLeft
  <2> QED BY <1>4, <1>12, <2>1
<1>14. /\ Shown(pipe.cells, at + room + Len(left), st, N)
       /\ there => at + room + Len(left) + Len(pipe.cells) = st[N + 1]
  BY <1>3, <1>13
<1>15. 0 <= MaxLine /\ <<>> = Cells(h + 1 + 1, 0)
  BY NoCells, WireAssumption
<1>16. Place(st, N, h + 1, 0, at + room)
  OBVIOUS
<1> HIDE DEF N, h
<1>17. Up(pipe, r, there, Append(passed, m), st, 0, at + room)
  BY <1>2, <1>3, <1>11, <1>12, <1>14, <1>15, <1>16 DEF Up, N
<1> QED BY <1>9, <1>10, <1>12, <1>17 DEF r, h, Passes

LEMMA Turn ==
  ASSUME NEW pipe \in PipeOf(UpLines), pipe.lines = toShell.lines, reader \in Readers, heard.shell \in Seq(Int),
         NEW there, NEW bytes \in Seq(Nat), Len(bytes) > 0,
         Reads(pipe, Loaded(reader, bytes), there, heard.shell), Consume(bytes)
  PROVE  LET n == Len(heard.shell) + 1
             m == Mark(toShell.lines, n)
         IN  /\ reader' \in Readers /\ reader'.ended = reader.ended
             /\ \/ UNCHANGED <<heard, calls>> /\ Reads(pipe, reader', there, heard.shell)
                \/ /\ n \in DOMAIN toShell.lines /\ m \in Int /\ Deliver(m)
                   /\ Reads(pipe, reader', there, Append(heard.shell, m))
<1> DEFINE passed == heard.shell
           h == Len(passed)
           N == Len(pipe.lines)
           newlines == {i \in DOMAIN bytes : bytes[i] = 0}
           length == IF newlines = {} THEN Len(bytes)
                     ELSE (CHOOSE i \in newlines : \A j \in newlines : i <= j) - 1
           over == reader.oversize \/ Len(reader.line) + length > MaxLine
           line == IF over THEN <<>> ELSE reader.line \o SubSeq(bytes, 1, length)
           left == SubSeq(bytes, length + 2, Len(bytes))
<1>1. IF newlines = {} THEN reader' = PartRead(reader, over, line) /\ UNCHANGED <<heard, calls>>
      ELSE reader' = LineRead(reader, left) /\ Deliver(IF over THEN Oversize ELSE Decoded(toShell, line))
  BY Zenon DEF Consume, PartRead, LineRead
<1>2. PICK st, e, at : Up(pipe, Loaded(reader, bytes), there, passed, st, e, at)
  BY DEF Reads
<1>3. /\ N \in Nat /\ h \in Nat /\ e \in Nat /\ at \in Nat /\ Ladder(st, N)
      /\ Place(st, N, h, e, at) /\ Shown(bytes, at, st, N)
  <2>1. Loaded(reader, bytes).chunk = bytes
    BY LoadedIs
  <2> QED BY <1>2, <2>1 DEF Up, Whole, Place, PipeOf
<1>4. /\ h < N
      /\ \E room \in Nat \ {0} :
           /\ at + room = st[h + 2]
           /\ \A i \in 1..Len(bytes) : i < room => bytes[i] = h + 1
           /\ room <= Len(bytes) => bytes[room] = 0 /\ Place(st, N, h + 1, 0, at + room)
           /\ room > Len(bytes) => Place(st, N, h, e + Len(bytes), at + Len(bytes))
  <2> HIDE DEF N, h
  <2> QED BY <1>3, BytesAt
<1>5. PICK room \in Nat \ {0} :
           /\ at + room = st[h + 2]
           /\ \A i \in 1..Len(bytes) : i < room => bytes[i] = h + 1
           /\ room <= Len(bytes) => bytes[room] = 0 /\ Place(st, N, h + 1, 0, at + room)
           /\ room > Len(bytes) => Place(st, N, h, e + Len(bytes), at + Len(bytes))
  BY <1>4
<1>6. over \in BOOLEAN /\ (over <=> (reader.oversize \/ Len(reader.line) + length > MaxLine))
  BY DEF Readers
<1>7. Len(bytes) \in Nat /\ DOMAIN bytes = 1..Len(bytes) /\ h + 1 \in Nat
  BY <1>3
<1>8. CASE room > Len(bytes)
  <2>1. \A i \in 1..Len(bytes) : bytes[i] = h + 1
    BY <1>5, <1>7, <1>8
  <2>2. newlines = {}
    BY <1>3, <1>7, <2>1
  <2>3. length = Len(bytes)
    BY <2>2
  <2>4. reader' = PartRead(reader, over, line) /\ UNCHANGED <<heard, calls>>
    BY <1>1, <2>2
  <2>5. line = IF over THEN <<>> ELSE reader.line \o SubSeq(bytes, 1, Len(bytes))
    <3> HIDE DEF length, over
    <3> QED BY <2>3
  <2> HIDE DEF length, newlines, over, line
  <2>6. line \in Seq(Nat) /\ Up(pipe, PartRead(reader, over, line), there, passed, st, e + Len(bytes), at + Len(bytes))
    <3>1. Place(st, N, h, e + Len(bytes), at + Len(bytes))
      BY <1>5, <1>8
    <3>2. over \in BOOLEAN /\ (over <=> (reader.oversize \/ Len(reader.line) + Len(bytes) > MaxLine))
      BY <1>6, <2>3
    <3> HIDE DEF passed
    <3> QED BY <1>2, <1>3, <2>1, <2>5, <3>1, <3>2, NoNewline DEF passed
  <2>7. Reads(pipe, reader', there, heard.shell)
    BY <2>4, <2>6 DEF Reads
  <2>8. reader' \in Readers /\ reader'.ended = reader.ended
    <3>1. ReaderIs(PartRead(reader, over, line), <<>>, line, over, reader.ended)
      BY <1>6, <2>6, PartReadIs
    <3> QED BY <2>4, <3>1 DEF ReaderIs
  <2> QED BY <2>4, <2>7, <2>8
<1>9. CASE room <= Len(bytes)
  <2>1. room \in 1..Len(bytes) /\ room \in newlines /\ room \in Nat
    BY <1>5, <1>7, <1>9
  <2>2. newlines \in SUBSET Nat /\ \A i \in newlines : room <= i
    <3>1. ASSUME NEW i \in newlines PROVE i \in Nat /\ ~(i < room)
      <4>1. i \in 1..Len(bytes) /\ bytes[i] = 0
        BY <1>7
      <4> QED BY <1>3, <1>5, <4>1
    <3>2. ASSUME NEW i \in newlines PROVE room <= i
      BY <2>1, <3>1
    <3> QED BY <3>1, <3>2
  <2>3. length = room - 1 /\ length + 2 = room + 1 /\ newlines # {}
    <3> HIDE DEF newlines
    <3>1. (CHOOSE i \in newlines : \A j \in newlines : i <= j) = room /\ newlines # {}
      BY <2>1, <2>2, FirstNewline
    <3>2. length = room - 1
      BY <3>1
    <3> HIDE DEF length
    <3> QED BY <2>1, <3>1, <3>2
  <2> DEFINE m == IF over THEN Oversize ELSE Decoded(toShell, reader.line \o SubSeq(bytes, 1, room - 1))
  <2>4. reader' = LineRead(reader, left) /\ Deliver(m)
    <3>1. reader' = LineRead(reader, left) /\ Deliver(IF over THEN Oversize ELSE Decoded(toShell, line))
      BY <1>1, <2>3
    <3> HIDE DEF over, newlines, left
    <3>2. (IF over THEN Oversize ELSE Decoded(toShell, line)) = m
      <4> HIDE DEF length
      <4> QED BY <2>3
    <3> QED BY <3>1, <3>2
  <2> HIDE DEF length, newlines, over
  <2>5. left = SubSeq(bytes, room + 1, Len(bytes))
    BY <2>3
  <2>6. m = IF over THEN Oversize ELSE Decoded(pipe, reader.line \o SubSeq(bytes, 1, room - 1))
    BY DEF Decoded
  <2> HIDE DEF m, left
  <2>7. /\ m = Mark(pipe.lines, h + 1) /\ m \in Int /\ left \in Seq(Nat)
        /\ Up(pipe, LineRead(reader, left), there, Append(passed, m), st, 0, at + room)
    <3>1. Place(st, N, h + 1, 0, at + room)
      BY <1>5, <1>9
    <3>2. over \in BOOLEAN /\ (over <=> (reader.oversize \/ Len(reader.line) + (room - 1) > MaxLine))
      BY <1>6, <2>3
    <3>3. passed \in Seq(Int)
      OBVIOUS
    <3> DEFINE longer == Append(passed, m)
    <3> HIDE DEF passed
    <3>4. at + room = st[Len(passed) + 2] /\ Len(passed) < Len(pipe.lines)
      BY <1>4, <1>5
    <3>5. Before(bytes, room, Len(passed) + 1)
      BY <1>5 DEF Before
    <3>6. Passes(pipe, passed, m, left, there, st, at + room)
      <4> HIDE DEF N, h
      <4>1. Place(st, Len(pipe.lines), Len(passed) + 1, 0, at + room)
        BY <3>1 DEF N, h
      <4> QED BY <1>2, <1>3, <2>1, <2>5, <2>6, <3>2, <3>3, <3>4, <3>5, <4>1, WithNewline
    <3> QED BY <3>6 DEF Passes
  <2>8. h + 1 \in DOMAIN toShell.lines
    BY <1>3, <1>4 DEF PipeOf
  <2>9. reader' \in Readers /\ reader'.ended = reader.ended
    BY <2>4, <2>7, LineReadIs
  <2> QED BY <2>4, <2>7, <2>8, <2>9 DEF Reads
<1>10. room > Len(bytes) \/ room <= Len(bytes)
  BY <1>7
<1> QED BY <1>8, <1>9, <1>10

RestOf(pipe, k) == [pipe EXCEPT !.cells = SubSeq(@, k + 1, Len(@))]
StartOf(pipe, k) == [pipe EXCEPT !.cells = SubSeq(@, 1, k)]
PipeIs(p, lines, cells, S) == p \in PipeOf(S) /\ p.lines = lines /\ p.cells = cells

LEMMA RestIs ==
  ASSUME NEW S, NEW pipe \in PipeOf(S), NEW k \in Nat, k <= Len(pipe.cells)
  PROVE  /\ PipeIs(RestOf(pipe, k), pipe.lines, SubSeq(pipe.cells, k + 1, Len(pipe.cells)), S)
         /\ PipeIs(StartOf(pipe, k), pipe.lines, SubSeq(pipe.cells, 1, k), S)
         /\ SubSeq(pipe.cells, 1, k) \in Seq(Nat) /\ Len(SubSeq(pipe.cells, 1, k)) = k
         /\ Len(SubSeq(pipe.cells, k + 1, Len(pipe.cells))) = Len(pipe.cells) - k
<1> DEFINE X == pipe.cells
           Y == SubSeq(X, k + 1, Len(X))
           Z == SubSeq(X, 1, k)
<1>1. X \in Seq(Nat) /\ Len(X) \in Nat /\ 0 \in Nat
  BY DEF PipeOf
<1>2. Y \in Seq(Nat) /\ Len(Y) = Len(X) - k
  BY <1>1, PieceIs
<1>3. Z \in Seq(Nat) /\ Len(Z) = k
  <2>1. LET W == SubSeq(X, 0 + 1, k) IN W \in Seq(Nat) /\ Len(W) = k - 0
    <3>1. 0 <= k /\ k <= Len(X)
      OBVIOUS
    <3> HIDE DEF X
    <3> QED BY <1>1, <3>1, PieceIs
  <2>2. k - 0 = k /\ SubSeq(X, 0 + 1, k) = Z
    OBVIOUS
  <2> QED BY <2>1, <2>2
<1>4. RestOf(pipe, k) = [pipe EXCEPT !.cells = Y] /\ StartOf(pipe, k) = [pipe EXCEPT !.cells = Z]
  BY DEF RestOf, StartOf
<1> HIDE DEF Y, Z
<1>5. PipeIs(RestOf(pipe, k), pipe.lines, Y, S)
  BY <1>2, <1>4 DEF PipeOf, PipeIs
<1>6. PipeIs(StartOf(pipe, k), pipe.lines, Z, S)
  BY <1>3, <1>4 DEF PipeOf, PipeIs
<1> QED BY <1>2, <1>3, <1>5, <1>6 DEF Y, Z

LEMMA TakesChunk ==
  ASSUME NEW pipe \in PipeOf(UpLines), NEW r \in Readers, r.chunk = <<>>,
         NEW there \in BOOLEAN, NEW passed \in Seq(Int), Reads(pipe, r, there, passed),
         NEW k \in Nat, k <= Len(pipe.cells)
  PROVE  Reads(RestOf(pipe, k), Loaded(r, SubSeq(pipe.cells, 1, k)), there, passed)
<1> DEFINE X == pipe.cells
           Y == SubSeq(X, k + 1, Len(X))
           Z == SubSeq(X, 1, k)
           N == Len(pipe.lines)
           p == RestOf(pipe, k)
           q == Loaded(r, Z)
<1>1. /\ p.lines = pipe.lines /\ p.cells = Y /\ p \in PipeOf(UpLines)
      /\ Z \in Seq(Nat) /\ Len(Z) = k /\ Len(Y) = Len(X) - k
  BY RestIs DEF PipeIs
<1> HIDE DEF Z
<1>2. q \in Readers /\ q.chunk = Z /\ q.line = r.line /\ q.oversize = r.oversize
  BY <1>1, LoadedIs
<1>3. PICK st, e, at : Up(pipe, r, there, passed, st, e, at)
  BY DEF Reads
<1>4. /\ Whole(pipe, st)
      /\ Shown(r.chunk, at, st, N) /\ Shown(X, at + Len(r.chunk), st, N)
      /\ there => at + Len(r.chunk) + Len(X) = st[N + 1]
      /\ Place(st, N, Len(passed), e, at)
      /\ Marks(passed, pipe.lines)
      /\ IF r.oversize THEN e > MaxLine /\ r.line = <<>>
         ELSE e <= MaxLine /\ r.line = Cells(Len(passed) + 1, e)
  BY <1>3 DEF Up
<1>5. N \in Nat /\ at \in Nat /\ Ladder(st, N) /\ X \in Seq(Nat) /\ Len(X) \in Nat /\ Len(r.chunk) = 0
  BY <1>4 DEF Whole, Place, PipeOf
<1>6. Shown(X, at, st, N) /\ (there => at + Len(X) = st[N + 1])
  <2> HIDE DEF X, N
  <2>1. at + Len(r.chunk) = at
    BY <1>5
  <2> QED BY <1>4, <2>1
<1>7. Shown(Z, at, st, N)
  <2>1. Shown(SubSeq(X, 0 + 1, k), at + 0, st, N)
    <3>1. 0 \in Nat /\ 0 <= k /\ k <= Len(X)
      OBVIOUS
    <3> HIDE DEF X, N
    <3> QED BY <1>5, <1>6, <3>1, ShownPiece
  <2>2. SubSeq(X, 0 + 1, k) = Z /\ at + 0 = at
    BY <1>5 DEF Z
  <2> QED BY <2>1, <2>2
<1>8. Shown(Y, at + k, st, N)
  <2>1. k <= Len(X) /\ Len(X) <= Len(X)
    BY <1>5
  <2> HIDE DEF X, N
  <2> QED BY <1>5, <1>6, <2>1, ShownPiece DEF X
<1>9. there => at + k + Len(Y) = st[N + 1]
  <2> HIDE DEF X, Y, N
  <2>1. at + k + (Len(X) - k) = at + Len(X)
    BY <1>5
  <2> QED BY <1>1, <1>6, <2>1
<1> HIDE DEF p, q, Y, X
<1>10. Up(p, q, there, passed, st, e, at)
  <2>1. Whole(p, st)
    BY <1>1, <1>4 DEF Whole
  <2> QED BY <1>1, <1>2, <1>4, <1>7, <1>8, <1>9, <2>1 DEF Up, N
<1> QED BY <1>10 DEF Reads, p, q, X, Z

LEMMA CutOff ==
  ASSUME NEW pipe \in PipeOf(UpLines), NEW r \in Readers,
         NEW passed \in Seq(Int), Reads(pipe, r, TRUE, passed),
         NEW k \in Nat, k <= Len(pipe.cells)
  PROVE  Reads(StartOf(pipe, k), r, FALSE, passed)
<1> DEFINE X == pipe.cells
           Z == SubSeq(X, 1, k)
           N == Len(pipe.lines)
           p == StartOf(pipe, k)
<1>1. p.lines = pipe.lines /\ p.cells = Z
  BY RestIs DEF PipeIs
<1>3. PICK st, e, at : Up(pipe, r, TRUE, passed, st, e, at)
  BY DEF Reads
<1>4. /\ Whole(pipe, st)
      /\ Shown(r.chunk, at, st, N) /\ Shown(X, at + Len(r.chunk), st, N)
      /\ Place(st, N, Len(passed), e, at)
      /\ Marks(passed, pipe.lines)
      /\ IF r.oversize THEN e > MaxLine /\ r.line = <<>>
         ELSE e <= MaxLine /\ r.line = Cells(Len(passed) + 1, e)
  BY <1>3 DEF Up
<1> DEFINE from == at + Len(r.chunk)
<1>5. N \in Nat /\ from \in Nat /\ Ladder(st, N) /\ X \in Seq(Nat)
  BY <1>4 DEF Whole, Place, PipeOf, Readers
<1> HIDE DEF from
<1>7. Shown(Z, from, st, N)
  <2>1. Shown(SubSeq(X, 0 + 1, k), from + 0, st, N)
    <3>1. 0 \in Nat /\ 0 <= k /\ k <= Len(X)
      OBVIOUS
    <3>2. Shown(X, from, st, N)
      BY <1>4 DEF from
    <3> HIDE DEF X, N
    <3> QED BY <1>5, <3>1, <3>2, ShownPiece
  <2>2. SubSeq(X, 0 + 1, k) = Z /\ from + 0 = from
    BY <1>5
  <2> QED BY <2>1, <2>2
<1> HIDE DEF p, Z, X
<1>10. Up(p, r, FALSE, passed, st, e, at)
  <2>1. Whole(p, st)
    BY <1>1, <1>4 DEF Whole
  <2> QED BY <1>1, <1>4, <1>7, <2>1 DEF Up, N, from
<1> QED BY <1>10 DEF Reads, p

EndsWell(lines, passed) ==
  \A i \in DOMAIN passed :
    /\ i \in DOMAIN lines
    /\ passed[i] = Mark(lines, i) \/ (i = Len(passed) /\ passed[i] = Fragment)

LEMMA AllMarked ==
  ASSUME NEW pipe \in PipeOf(UpLines), NEW r, NEW there, NEW passed \in Seq(Int), NEW st, NEW e, NEW at,
         Up(pipe, r, there, passed, st, e, at)
  PROVE  /\ Marks(passed, pipe.lines) /\ EndsWell(pipe.lines, passed)
         /\ Len(passed) <= Len(pipe.lines)
<1> DEFINE h == Len(passed)
           N == Len(pipe.lines)
<1>1. /\ Marks(passed, pipe.lines) /\ h \in 0..N /\ N \in Nat
      /\ DOMAIN passed = 1..h /\ DOMAIN pipe.lines = 1..N
  BY DEF Up, Place, PipeOf
<1>2. h \in Nat /\ h <= N
  BY <1>1
<1> HIDE DEF h, N
<1>3. \A i \in 1..h : i \in 1..N
  BY <1>1, <1>2
<1> QED BY <1>1, <1>2, <1>3 DEF EndsWell, Marks, h, N

\* What there is of a line when the pipe ends.
LEMMA LastMark ==
  ASSUME NEW pipe \in PipeOf(UpLines), NEW r \in Readers, NEW passed \in Seq(Int),
         NEW st, NEW e, NEW at, Up(pipe, r, FALSE, passed, st, e, at), NEW m,
         \/ r.oversize /\ m = Oversize
         \/ ~r.oversize /\ r.line # <<>> /\ m = Decoded(pipe, r.line)
  PROVE  LET n == Len(passed) + 1
         IN  /\ n \in DOMAIN pipe.lines /\ m \in Int /\ (m > 0 => m = n)
             /\ m = Mark(pipe.lines, n) \/ m = Fragment
<1> DEFINE h == Len(passed)
           n == h + 1
           N == Len(pipe.lines)
<1>1. /\ Whole(pipe, st) /\ Place(st, N, h, e, at)
      /\ IF r.oversize THEN e > MaxLine /\ r.line = <<>>
         ELSE e <= MaxLine /\ r.line = Cells(n, e)
  BY DEF Up
<1>2. /\ h \in Nat /\ N \in Nat /\ e \in Nat /\ at \in Nat /\ at = st[n] + e
      /\ (h = N => e = 0) /\ (h < N => at < st[h + 2]) /\ h <= N
  BY <1>1 DEF Place, PipeOf
<1>3. PICK M \in Nat : M = MaxLine
  BY WireAssumption
<1>4. e > 0
  <2>1. r.oversize => e > M
    BY <1>1, <1>3
  <2>2. ~r.oversize => e # 0
    BY <1>1, NoCells
  <2> QED BY <1>2, <1>3, <2>1, <2>2
<1> HIDE DEF N, h
<1>5. h < N /\ n \in 1..N /\ n \in Nat
  BY <1>2, <1>4
<1>6. n \in DOMAIN pipe.lines /\ pipe.lines[n].size \in Sizes
  <2>1. pipe.lines \in Seq(UpLines) /\ DOMAIN pipe.lines = 1..N
    BY DEF PipeOf, N
  <2>2. pipe.lines[n] \in UpLines
    <3> HIDE DEF n
    <3> QED BY <1>5, <2>1, ElementIs DEF N
  <2> QED BY <1>5, <2>1, <2>2, LinesAre
<1>7. PICK size \in Nat : size = pipe.lines[n].size /\ size > 0
  <2> DEFINE z == pipe.lines[n].size
  <2>1. z \in Nat \ {0}
    BY <1>6 DEF Sizes
  <2> HIDE DEF z
  <2>2. z \in Nat /\ z > 0
    BY <2>1
  <2> QED BY <2>2, Zenon DEF z
<1>8. e <= size
  <2>1. \A i \in 1..N + 1 : st[i] \in Nat
    BY <1>1 DEF Whole, Ladder, N
  <2>2. n \in 1..N + 1 /\ h + 2 = n + 1
    BY <1>2, <1>5
  <2>3. PICK base \in Nat : base = st[n]
    BY <2>1, <2>2
  <2>4. st[h + 2] = base + size + 1
    <3>1. st[n + 1] = st[n] + pipe.lines[n].size + 1
      BY <1>1, <1>5 DEF Whole, N
    <3> QED BY <1>7, <2>2, <2>3, <3>1
  <2>5. base + e < base + size + 1
    BY <1>2, <1>5, <2>3, <2>4
  <2>6. e \in Nat
    BY <1>2
  <2> QED BY <2>5, <2>6
<1>9. Mark(pipe.lines, n) = IF size > M THEN Oversize ELSE n
  BY <1>3, <1>7 DEF Mark
<1>10. CASE r.oversize
  <2>1. size > M
    <3>1. e > M
      BY <1>1, <1>3, <1>10
    <3> QED BY <1>2, <1>3, <1>7, <1>8, <3>1
  <2> QED BY <1>6, <1>9, <1>10, <2>1 DEF Oversize, h, n
<1>11. CASE ~r.oversize
  <2>1. r.line = Cells(n, e) /\ e <= M /\ m = Decoded(pipe, r.line)
    BY <1>1, <1>3, <1>11
  <2>2. Decoded(pipe, Cells(n, e)) = IF e = pipe.lines[n].size THEN n ELSE Fragment
    <3> HIDE DEF n
    <3> QED BY <1>2, <1>4, <1>5, <1>6, DecodedIs
  <2>3. m = IF e = size THEN n ELSE Fragment
    BY <1>7, <2>1, <2>2
  <2>4. CASE e = size
    <3>1. ~(size > M)
      BY <1>2, <1>3, <2>1, <2>4
    <3>2. m = n /\ m = Mark(pipe.lines, n)
      BY <1>9, <2>3, <2>4, <3>1
    <3> QED BY <1>5, <1>6, <3>2 DEF n, h
  <2>5. CASE e # size
    BY <1>6, <2>3, <2>5 DEF Fragment, n, h
  <2> QED BY <2>4, <2>5
<1> QED BY <1>10, <1>11

LEMMA EndsMore ==
  ASSUME NEW lines, NEW passed \in Seq(Int), Marks(passed, lines), EndsWell(lines, passed), NEW m \in Int,
         Len(passed) + 1 \in DOMAIN lines,
         m = Mark(lines, Len(passed) + 1) \/ m = Fragment
  PROVE  EndsWell(lines, Append(passed, m))
<1>1. /\ Append(passed, m) \in Seq(Int) /\ Len(Append(passed, m)) = Len(passed) + 1 /\ Len(passed) \in Nat
      /\ DOMAIN passed = 1..Len(passed) /\ DOMAIN Append(passed, m) = 1..Len(passed) + 1
      /\ \A i \in 1..Len(passed) : Append(passed, m)[i] = passed[i]
      /\ Append(passed, m)[Len(passed) + 1] = m
  BY LongerList
<1> DEFINE longer == Append(passed, m)
           h == Len(passed)
<1>2. /\ DOMAIN longer = 1..h + 1 /\ h \in Nat /\ DOMAIN passed = 1..h /\ Len(longer) = h + 1
      /\ \A i \in 1..h : longer[i] = passed[i]
      /\ longer[h + 1] = m
      /\ h + 1 \in DOMAIN lines /\ (m = Mark(lines, h + 1) \/ m = Fragment)
  BY <1>1
<1> HIDE DEF longer, h
<1>3. \A i \in 1..h + 1 : i \in 1..h \/ i = h + 1
  BY <1>2
<1>4. \A i \in 1..h : i \in DOMAIN lines /\ longer[i] = Mark(lines, i)
  BY <1>2 DEF Marks, EndsWell
<1>5. EndsWell(lines, longer)
  BY <1>2, <1>3, <1>4 DEF EndsWell
<1> QED BY <1>5 DEF longer

-----------------------------------------------------------------------------
(* The wire: the reader of the shell.                                      *)

QuotaOK ==
  /\ DOMAIN quota = {"requests", "asks", "controls", "sizes", "deaths"}
  /\ quota.requests \subseteq AskedFor /\ quota.sizes \subseteq Sizes
CallStates ==
  [at : {"idle", "waiting", "told"}, request : AskedFor \cup {Unmade.request},
   told : Codes \cup {"nothing", "sidecar-exited"}, said : Codes \cup {"nothing"}]
WireTypes ==
  /\ toSidecar \in PipeOf(DownLines) /\ toShell \in PipeOf(UpLines)
  /\ sidecar \in [buffer : Seq(Nat), serving : SUBSET Calls, stopping : BOOLEAN, there : BOOLEAN]
  /\ reader \in Readers
  /\ calls \in [Calls -> CallStates]
  /\ heard \in [sidecar : Seq(Int), shell : Seq(Int)]
  /\ QuotaOK

UpInv ==
  IF reader.ended THEN ~sidecar.there /\ Ended(toShell, reader, heard.shell)
  ELSE Reads(toShell, reader, sidecar.there, heard.shell)

\* What a turn of the reader does to the rest.
Passing(m) == m \in Int /\ (m > 0 => m \in DOMAIN toShell.lines) /\ Deliver(m)
Reading ==
  /\ reader' \in Readers /\ toShell' \in PipeOf(UpLines) /\ toShell'.lines = toShell.lines
  /\ UNCHANGED <<toSidecar, sidecar, quota>>
  /\ UNCHANGED <<heard, calls>> \/ \E m : Passing(m)

LEMMA HeardIs ==
  ASSUME heard \in [sidecar : Seq(Int), shell : Seq(Int)], NEW m \in Int, Deliver(m)
  PROVE  /\ heard' \in [sidecar : Seq(Int), shell : Seq(Int)]
         /\ heard'.shell = Append(heard.shell, m) /\ heard'.sidecar = heard.sidecar
<1> DEFINE X == Append(heard.shell, m)
<1>1. X \in Seq(Int)
  OBVIOUS
<1>2. heard' = [heard EXCEPT !.shell = X]
  BY DEF Deliver
<1> HIDE DEF X
<1> QED BY <1>1, <1>2 DEF X

LEMMA ReaderTurns ==
  ASSUME WireTypes, UpInv, NEW pipe \in PipeOf(UpLines), pipe.lines = toShell.lines,
         NEW bytes \in Seq(Nat), Len(bytes) > 0, ~reader.ended,
         Reads(pipe, Loaded(reader, bytes), sidecar.there, heard.shell), Consume(bytes),
         toShell' = pipe, UNCHANGED <<toSidecar, sidecar, quota>>
  PROVE  Reading /\ UpInv'
<1> DEFINE n == Len(heard.shell) + 1
           m == Mark(toShell.lines, n)
           there == sidecar.there
<1>1. reader \in Readers /\ heard.shell \in Seq(Int) /\ heard \in [sidecar : Seq(Int), shell : Seq(Int)]
  BY DEF WireTypes
<1> HIDE DEF m, there
<1>2. /\ reader' \in Readers /\ reader'.ended = reader.ended
      /\ \/ UNCHANGED <<heard, calls>> /\ Reads(pipe, reader', there, heard.shell)
         \/ /\ n \in DOMAIN toShell.lines /\ m \in Int /\ Deliver(m)
            /\ Reads(pipe, reader', there, Append(heard.shell, m))
  <2>1. Reads(pipe, Loaded(reader, bytes), there, heard.shell)
    BY DEF there
  <2> QED BY <1>1, <2>1, Turn DEF m
<1>3. sidecar'.there = there
  BY DEF there
<1>4. CASE UNCHANGED <<heard, calls>> /\ Reads(pipe, reader', there, heard.shell)
  BY <1>2, <1>3, <1>4 DEF Reading, UpInv
<1>5. CASE /\ n \in DOMAIN toShell.lines /\ m \in Int /\ Deliver(m)
           /\ Reads(pipe, reader', there, Append(heard.shell, m))
  <2>1. heard'.shell = Append(heard.shell, m)
    BY <1>1, <1>5, HeardIs
  <2>2. UpInv'
    BY <1>2, <1>3, <1>5, <2>1 DEF UpInv
  <2>3. m > 0 => m \in DOMAIN toShell.lines
    BY <1>5 DEF m, Mark, Oversize
  <2>4. Passing(m)
    BY <1>5, <2>3 DEF Passing
  <2> QED BY <1>2, <2>2, <2>4 DEF Reading
<1> QED BY <1>2, <1>4, <1>5

LEMMA ReadChunkReads == ASSUME WireTypes, UpInv, ReadChunk PROVE Reading /\ UpInv'
<1>0. /\ reader \in Readers /\ reader.chunk \in Seq(Nat) /\ toShell \in PipeOf(UpLines) /\ toShell.cells \in Seq(Nat)
      /\ heard.shell \in Seq(Int) /\ sidecar.there \in BOOLEAN
  BY DEF WireTypes, Readers, PipeOf
<1>1. CASE reader.chunk # <<>> /\ Consume(reader.chunk) /\ UNCHANGED toShell
  <2>1. ~reader.ended /\ Reads(toShell, reader, sidecar.there, heard.shell)
    BY <1>1 DEF UpInv, Ended
  <2>2. Loaded(reader, reader.chunk) = reader
    BY <1>0 DEF Loaded, Readers
  <2>3. Len(reader.chunk) > 0
    BY <1>0, <1>1
  <2> QED BY <1>0, <1>1, <2>1, <2>2, <2>3, ReaderTurns DEF ReadChunk
<1>2. CASE /\ reader.chunk = <<>>
           /\ \E k \in 1..ChunkMax :
                /\ k <= Len(toShell.cells)
                /\ Consume(SubSeq(toShell.cells, 1, k))
                /\ toShell' = [toShell EXCEPT !.cells = SubSeq(@, k + 1, Len(@))]
  <2>1. PICK k \in 1..ChunkMax :
          /\ k <= Len(toShell.cells)
          /\ Consume(SubSeq(toShell.cells, 1, k))
          /\ toShell' = RestOf(toShell, k)
    BY <1>2 DEF RestOf
  <2>2. k \in Nat /\ k > 0
    BY WireAssumption
  <2>3. ~reader.ended /\ Reads(toShell, reader, sidecar.there, heard.shell)
    <3>1. toShell.cells # <<>>
      BY <1>0, <2>1, <2>2
    <3> QED BY <3>1 DEF UpInv, Ended
  <2> DEFINE bytes == SubSeq(toShell.cells, 1, k)
  <2>4. /\ RestOf(toShell, k) \in PipeOf(UpLines) /\ RestOf(toShell, k).lines = toShell.lines
        /\ bytes \in Seq(Nat) /\ Len(bytes) = k
    BY <1>0, <2>1, <2>2, RestIs DEF PipeIs
  <2>5. Reads(RestOf(toShell, k), Loaded(reader, bytes), sidecar.there, heard.shell)
    BY <1>0, <1>2, <2>1, <2>2, <2>3, TakesChunk
  <2>6. Len(bytes) > 0 /\ Consume(bytes)
    BY <2>1, <2>2, <2>4
  <2> HIDE DEF bytes
  <2> QED BY <2>1, <2>3, <2>4, <2>5, <2>6, ReaderTurns DEF ReadChunk
<1> QED BY <1>1, <1>2 DEF ReadChunk

LEMMA ReadEndReads == ASSUME WireTypes, UpInv, ReadEnd PROVE Reading /\ UpInv'
<1> DEFINE passed == heard.shell
           n == Len(passed) + 1
<1>0. /\ reader \in Readers /\ toShell \in PipeOf(UpLines) /\ passed \in Seq(Int)
      /\ heard \in [sidecar : Seq(Int), shell : Seq(Int)]
      /\ toShell.cells = <<>> /\ reader.chunk = <<>> /\ ~sidecar.there /\ ~reader.ended
      /\ UNCHANGED <<toSidecar, toShell, sidecar, quota>>
  BY DEF WireTypes, ReadEnd
<1>1. PICK st, e, at : Up(toShell, reader, FALSE, passed, st, e, at)
  <2>1. Reads(toShell, reader, FALSE, passed)
    <3>1. sidecar.there = FALSE
      BY <1>0 DEF WireTypes
    <3> QED BY <1>0, <3>1 DEF UpInv
  <2> QED BY <2>1 DEF Reads
<1>2. Marks(passed, toShell.lines) /\ EndsWell(toShell.lines, passed)
  BY <1>0, <1>1, AllMarked
<1>3. reader' \in Readers /\ reader'.chunk = <<>> /\ reader'.ended
  <2> DEFINE none == <<>>
             no == FALSE
             yes == TRUE
  <2>1. reader' = [reader EXCEPT !.ended = yes, !.line = none, !.oversize = no]
    BY DEF ReadEnd
  <2>2. none \in Seq(Nat) /\ no \in BOOLEAN /\ yes \in BOOLEAN
    OBVIOUS
  <2> HIDE DEF none, no, yes
  <2>3. reader' = [chunk |-> reader.chunk, line |-> none, oversize |-> no, ended |-> yes]
    BY <1>0, <2>1 DEF Readers
  <2>4. reader' \in Readers /\ reader'.chunk = reader.chunk /\ reader'.ended = yes
    BY <1>0, <2>2, <2>3 DEF Readers
  <2> QED BY <1>0, <2>4 DEF yes
<1>4. CASE UNCHANGED <<heard, calls>>
  <2>1. Reading
    BY <1>0, <1>3, <1>4 DEF Reading
  <2>2. UpInv'
    BY <1>0, <1>2, <1>3, <1>4 DEF UpInv, Ended, EndsWell
  <2> QED BY <2>1, <2>2
<1>5. ASSUME NEW m, Deliver(m),
             \/ reader.oversize /\ m = Oversize
             \/ ~reader.oversize /\ reader.line # <<>> /\ m = Decoded(toShell, reader.line)
      PROVE  Reading /\ UpInv'
  <2>1. /\ n \in DOMAIN toShell.lines /\ m \in Int /\ (m > 0 => m = n)
        /\ m = Mark(toShell.lines, n) \/ m = Fragment
    <3> HIDE DEF passed
    <3> QED BY <1>0, <1>1, <1>5, LastMark
  <2>2. EndsWell(toShell.lines, Append(passed, m))
    <3> HIDE DEF passed
    <3> QED BY <1>0, <1>2, <2>1, EndsMore
  <2>3. heard'.shell = Append(passed, m)
    BY <1>0, <1>5, <2>1, HeardIs
  <2>4. UpInv'
    BY <1>0, <1>3, <2>2, <2>3 DEF UpInv, Ended, EndsWell
  <2>5. Passing(m)
    BY <1>5, <2>1 DEF Passing
  <2> QED BY <1>0, <1>3, <2>4, <2>5 DEF Reading
<1>6. CASE reader.oversize /\ Deliver(Oversize)
  BY <1>5, <1>6
<1>7. CASE ~reader.oversize /\ reader.line # <<>> /\ Deliver(Decoded(toShell, reader.line))
  BY <1>5, <1>7
<1> QED BY <1>4, <1>6, <1>7 DEF ReadEnd

-----------------------------------------------------------------------------
(* The wire: what becomes of a call.                                       *)

BooksInv ==
  /\ AskedOnce /\ Unsaid
  /\ Numbers(heard.sidecar) /\ Len(heard.sidecar) <= Len(toSidecar.lines)
  /\ IF sidecar.there
     THEN Books(toShell.lines, sidecar.serving, sidecar.stopping, Len(heard.sidecar))
     ELSE sidecar.serving = {} /\ Answered(toShell.lines, sidecar.stopping)

SameCalls ==
  \A c \in Calls :
    /\ calls'[c].request = calls[c].request /\ calls'[c].said = calls[c].said
    /\ calls'[c].at = "idle" <=> calls[c].at = "idle"
StillWait == \A c \in Calls : Untold(c, toShell.lines) => calls'[c].at = "waiting"

LEMMA LineOf ==
  ASSUME WireTypes
  PROVE  /\ \A i \in DOMAIN toSidecar.lines : toSidecar.lines[i] \in DownLines
         /\ \A i \in DOMAIN toSidecar.lines :
              toSidecar.lines[i].kind = "request" => toSidecar.lines[i].call \in Calls
         /\ \A j \in DOMAIN toShell.lines : toShell.lines[j] \in UpLines
         /\ \A j \in DOMAIN toShell.lines : toShell.lines[j].kind = "response" => toShell.lines[j].call \in Calls
         /\ DOMAIN toSidecar.lines = 1..Len(toSidecar.lines) /\ Len(toSidecar.lines) \in Nat
         /\ DOMAIN toShell.lines = 1..Len(toShell.lines) /\ Len(toShell.lines) \in Nat
<1>1. toSidecar.lines \in Seq(DownLines) /\ toShell.lines \in Seq(UpLines)
  BY DEF WireTypes, PipeOf
<1>2. \A i \in DOMAIN toSidecar.lines : toSidecar.lines[i] \in DownLines
  BY <1>1
<1>3. \A j \in DOMAIN toShell.lines : toShell.lines[j] \in UpLines
  BY <1>1
<1> QED BY <1>1, <1>2, <1>3, LinesAre

LEMMA BooksStay ==
  ASSUME WireTypes, BooksInv, SameCalls, sidecar.there => StillWait,
         toSidecar'.lines = toSidecar.lines, toShell'.lines = toShell.lines, UNCHANGED sidecar,
         heard'.sidecar = heard.sidecar
  PROVE  BooksInv'
<1> DEFINE n == Len(heard.sidecar)
           down == toSidecar.lines
           up == toShell.lines
<1>0. /\ \A i \in DOMAIN down : down[i].kind = "request" => down[i].call \in Calls
      /\ \A j \in DOMAIN up : up[j].kind = "response" => up[j].call \in Calls
      /\ DOMAIN down = 1..Len(down) /\ Len(down) \in Nat /\ n \in Nat
      /\ sidecar.serving \subseteq Calls
  <2>1. n \in Nat /\ sidecar.serving \subseteq Calls
    BY DEF WireTypes
  <2> QED BY <2>1, LineOf
<1>1. AskedOnce' /\ Unsaid'
  BY <1>0 DEF BooksInv, AskedOnce, Unsaid, SameCalls
<1>2. Answered(up, sidecar.stopping) => Answered(up, sidecar.stopping)'
  BY <1>0 DEF Answered, SameCalls
<1>3. ASSUME sidecar.there, NEW c \in Calls, Untold(c, up) PROVE Untold(c, up)'
  BY <1>3 DEF Untold, SameCalls, StillWait, Silent
<1>4. CASE sidecar.there
  <2>1. InHand(up, sidecar.serving, n) /\ Owed(up, n) /\ Answered(up, sidecar.stopping)
    BY <1>4 DEF BooksInv, Books
  <2>2. InHand(up, sidecar.serving, n)'
    BY <1>0, <1>3, <1>4, <2>1 DEF InHand
  <2>3. Owed(up, n)'
    <3>1. ASSUME NEW i \in n + 1..Len(down), down[i].kind = "request" PROVE Untold(down[i].call, up)'
      <4>1. i \in DOMAIN down
        <5> HIDE DEF down, n
        <5> QED BY <1>0
      <4>2. down[i].call \in Calls /\ Untold(down[i].call, up)
        BY <1>0, <2>1, <3>1, <4>1 DEF Owed
      <4> QED BY <1>3, <1>4, <4>2
    <3> QED BY <3>1 DEF Owed
  <2> QED BY <1>1, <1>2, <1>4, <2>1, <2>2, <2>3 DEF BooksInv, Books
<1>5. CASE ~sidecar.there
  BY <1>1, <1>2, <1>5 DEF BooksInv
<1> QED BY <1>4, <1>5

LEMMA PassingKeeps ==
  ASSUME WireTypes, BooksInv, AnswersAreTrue, Reading
  PROVE  WireTypes' /\ BooksInv' /\ AnswersAreTrue'
<1>0. /\ reader' \in Readers /\ toShell' \in PipeOf(UpLines) /\ toShell'.lines = toShell.lines
      /\ UNCHANGED <<toSidecar, sidecar, quota>>
  BY DEF Reading
<1>1. ASSUME calls' \in [Calls -> CallStates], heard' \in [sidecar : Seq(Int), shell : Seq(Int)],
             SameCalls, StillWait, heard'.sidecar = heard.sidecar
      PROVE  WireTypes' /\ BooksInv'
  <2>1. WireTypes'
    BY <1>0, <1>1 DEF WireTypes, QuotaOK
  <2>2. BooksInv'
    BY <1>0, <1>1, BooksStay
  <2> QED BY <2>1, <2>2
<1>2. CASE UNCHANGED calls /\ heard' \in [sidecar : Seq(Int), shell : Seq(Int)] /\ heard'.sidecar = heard.sidecar
  <2>1. SameCalls /\ StillWait /\ calls' \in [Calls -> CallStates]
    BY <1>2 DEF SameCalls, StillWait, Untold, WireTypes
  <2>2. AnswersAreTrue'
    BY <1>0, <1>2 DEF AnswersAreTrue
  <2> QED BY <1>1, <1>2, <2>1, <2>2
<1>3. CASE UNCHANGED <<heard, calls>>
  BY <1>2, <1>3 DEF WireTypes
<1>4. ASSUME NEW m, Passing(m) PROVE WireTypes' /\ BooksInv' /\ AnswersAreTrue'
  <2>1. m \in Int /\ (m > 0 => m \in DOMAIN toShell.lines) /\ Deliver(m)
    BY <1>4 DEF Passing
  <2>2. heard' \in [sidecar : Seq(Int), shell : Seq(Int)] /\ heard'.sidecar = heard.sidecar
    BY <2>1, HeardIs DEF WireTypes
  <2>3. CASE UNCHANGED calls
    BY <1>2, <2>2, <2>3
  <2>4. CASE calls' # calls
    <3> DEFINE line == toShell.lines[m]
               c == line.call
    <3>1. /\ m \in DOMAIN toShell.lines /\ line.kind = "response" /\ calls[c].at = "waiting"
          /\ calls' = [calls EXCEPT ![c].at = "told", ![c].told = line.code]
      BY <2>1, <2>4, Zenon DEF Deliver
    <3>2. line \in UpLines /\ c \in Calls /\ line.code \in Codes
      <4>1. line \in UpLines
        BY <3>1, LineOf
      <4> HIDE DEF line
      <4> QED BY <3>1, <4>1, LinesAre
    <3>3. /\ calls \in [Calls -> CallStates]
          /\ Answered(toShell.lines, sidecar.stopping)
      BY DEF WireTypes, BooksInv, Books
    <3>4. line.code = calls[c].said \/ (line.code = "sidecar-unavailable" /\ sidecar.stopping)
      BY <3>1, <3>3 DEF Answered
    <3>5. ~Silent(c, toShell.lines)
      BY <3>1 DEF Silent
    <3> HIDE DEF c, line
    <3>6. /\ calls' \in [Calls -> CallStates]
          /\ \A d \in Calls \ {c} : calls'[d] = calls[d]
          /\ calls'[c].at = "told" /\ calls'[c].told = line.code
          /\ calls'[c].request = calls[c].request /\ calls'[c].said = calls[c].said
      BY <3>1, <3>2, <3>3 DEF CallStates
    <3>7. SameCalls
      BY <3>1, <3>6 DEF SameCalls
    <3>8. StillWait
      BY <3>5, <3>6 DEF StillWait, Untold
    <3>9. AnswersAreTrue'
      BY <1>0, <3>4, <3>6 DEF AnswersAreTrue
    <3> QED BY <1>1, <2>2, <3>6, <3>7, <3>8, <3>9
  <2> QED BY <2>3, <2>4
<1> QED BY <1>3, <1>4 DEF Reading

Left(call) == [call EXCEPT !.at = "told", !.told = "sidecar-exited"]

LEMMA LeftIs ==
  ASSUME NEW call \in CallStates
  PROVE  /\ Left(call) \in CallStates
         /\ Left(call).at = "told" /\ Left(call).told = "sidecar-exited"
         /\ Left(call).request = call.request /\ Left(call).said = call.said
BY DEF Left, CallStates

LEMMA NoticeKeeps ==
  ASSUME WireTypes, BooksInv, AnswersAreTrue, NoticeGone
  PROVE  WireTypes' /\ BooksInv' /\ AnswersAreTrue'
<1>0. /\ UNCHANGED <<toSidecar, toShell, sidecar, reader, heard, quota>> /\ ~sidecar.there
      /\ calls \in [Calls -> CallStates]
  BY Zenon DEF NoticeGone, WireTypes
<1>a. calls' = [c \in Calls |-> IF calls[c].at = "waiting" THEN Left(calls[c]) ELSE calls[c]]
  BY Zenon DEF NoticeGone, Left
<1>1. ASSUME NEW c \in Calls
      PROVE  /\ calls'[c] \in CallStates
             /\ calls'[c].request = calls[c].request /\ calls'[c].said = calls[c].said
             /\ \/ calls'[c] = calls[c] /\ calls[c].at # "waiting"
                \/ calls[c].at = "waiting" /\ calls'[c].at = "told" /\ calls'[c].told = "sidecar-exited"
  <2>1. calls[c] \in CallStates /\ calls'[c] = IF calls[c].at = "waiting" THEN Left(calls[c]) ELSE calls[c]
    BY <1>0, <1>a
  <2> QED BY <2>1, LeftIs
<1>2. calls' \in [Calls -> CallStates]
  BY <1>a, <1>1
<1>3. SameCalls
  BY <1>1 DEF SameCalls
<1>4. WireTypes'
  BY <1>0, <1>2 DEF WireTypes, QuotaOK
<1>5. BooksInv'
  BY <1>0, <1>3, BooksStay
<1>6. AnswersAreTrue'
  BY <1>0, <1>1 DEF AnswersAreTrue
<1> QED BY <1>4, <1>5, <1>6

\* The sidecar takes what the shell takes.
LEMMA RulesAgree == SidecarRules = ShellRules
<1> DEFINE ops == {"watch", "thread", "send_canned", "wx", "loadsheet", "clearance", "si_pdc",
                   "si_status", "si_link", "si_unlink", "si_import"}
<1>1. DOMAIN SidecarRules = ops /\ DOMAIN ShellRules = ops
  BY DEF SidecarRules, ShellRules
<1> DEFINE whole == {"1", "max"}
           whole0 == {"0", "1", "max"}
           wholeN == {"null", "1", "max"}
           words == {"true", "false"}
           targets == {"flight-1", "leg-max"}
           canned == {"ack", "a.b_c-d"}
           icaos == {"EGLL", "K1G4"}
           froms == {"now", "session-start"}
<1>2. Whole1 = whole /\ Whole0 = whole0 /\ Whole1 \cup {"null"} = wholeN /\ Words = words /\ Targets = targets
  BY DEF Whole0, Whole1, Words, Targets
<1>3. SidecarRules = [op \in ops |->
        CASE op = "watch" -> [on |-> words]
          [] op = "thread" -> [epoch |-> whole, endSeq |-> whole0]
          [] op = "send_canned" -> [target |-> targets, cannedId |-> canned]
          [] op = "wx" -> [target |-> targets, icao |-> icaos]
          [] op = "si_status" -> [flightId |-> wholeN]
          [] op = "si_link" -> [flightId |-> whole, from |-> froms]
          [] op \in {"si_unlink", "si_import"} -> [flightId |-> whole]
          [] OTHER -> [plannedLegId |-> whole]]
  BY Zenon DEF SidecarRules
<1> DEFINE agreed == [
             watch |-> [on |-> words],
             thread |-> [epoch |-> whole, endSeq |-> whole0],
             send_canned |-> [target |-> targets, cannedId |-> canned],
             wx |-> [target |-> targets, icao |-> icaos],
             loadsheet |-> [plannedLegId |-> whole],
             clearance |-> [plannedLegId |-> whole],
             si_pdc |-> [plannedLegId |-> whole],
             si_status |-> [flightId |-> wholeN],
             si_link |-> [flightId |-> whole, from |-> froms],
             si_unlink |-> [flightId |-> whole],
             si_import |-> [flightId |-> whole]]
<1>4. ShellRules = agreed
  <2> HIDE DEF whole, whole0, wholeN, words, targets
  <2> QED BY <1>2 DEF ShellRules, Leg
<1> HIDE DEF whole, whole0, wholeN, words, targets, canned, icaos, froms
<1>5. SidecarRules["watch"] = agreed.watch
  BY <1>3
<1>6. SidecarRules["thread"] = agreed.thread
  BY <1>3
<1>7. SidecarRules["send_canned"] = agreed.send_canned
  BY <1>3
<1>8. SidecarRules["wx"] = agreed.wx
  BY <1>3
<1>9. SidecarRules["loadsheet"] = agreed.loadsheet
  BY <1>3
<1>10. SidecarRules["clearance"] = agreed.clearance
  BY <1>3
<1>11. SidecarRules["si_pdc"] = agreed.si_pdc
  BY <1>3
<1>12. SidecarRules["si_status"] = agreed.si_status
  BY <1>3
<1>13. SidecarRules["si_link"] = agreed.si_link
  BY <1>3
<1>14. SidecarRules["si_unlink"] = agreed.si_unlink
  BY <1>3
<1>15. SidecarRules["si_import"] = agreed.si_import
  BY <1>3
<1>16. \A op \in ops : SidecarRules[op] = agreed[op]
  BY <1>5, <1>6, <1>7, <1>8, <1>9, <1>10, <1>11, <1>12, <1>13, <1>14, <1>15
<1>17. SidecarRules = [op \in ops |-> SidecarRules[op]] /\ agreed = [op \in ops |-> agreed[op]]
  BY <1>3
<1> HIDE DEF agreed, ops
<1> QED BY <1>4, <1>16, <1>17

LEMMA TakesIsTaken == \A r : ShellTakes(r) => SidecarTakes(r)
BY RulesAgree DEF ShellTakes, SidecarTakes, Obeys

AnswerOK(l, stopping) ==
  l.kind = "response" =>
    /\ calls[l.call].at # "idle"
    /\ l.code = calls[l.call].said \/ (l.code = "sidecar-unavailable" /\ stopping)
NotFor(c, l) == l.kind = "response" => l.call # c

LEMMA MoreLines ==
  ASSUME NEW lines \in Seq(UpLines), NEW l \in UpLines
  PROVE  /\ \A c : Silent(c, lines) /\ NotFor(c, l) => Silent(c, Append(lines, l))
         /\ \A c : Untold(c, lines) /\ NotFor(c, l) => Untold(c, Append(lines, l))
         /\ \A stopping : Answered(lines, stopping) /\ AnswerOK(l, stopping) => Answered(Append(lines, l), stopping)
<1> DEFINE more == Append(lines, l)
           N == Len(lines)
<1>1. /\ N \in Nat /\ DOMAIN lines = 1..N /\ DOMAIN more = 1..N + 1
      /\ \A i \in 1..N : more[i] = lines[i]
      /\ more[N + 1] = l
  BY LongerList
<1> HIDE DEF more, N
<1>2. \A i \in 1..N + 1 : i \in 1..N \/ i = N + 1
  BY <1>1
<1>3. \A c : Silent(c, lines) /\ NotFor(c, l) => Silent(c, more)
  BY <1>1, <1>2 DEF Silent, NotFor
<1>4. \A c : Untold(c, lines) /\ NotFor(c, l) => Untold(c, more)
  BY <1>3 DEF Untold
<1>5. ASSUME NEW stopping, Answered(lines, stopping), AnswerOK(l, stopping) PROVE Answered(more, stopping)
  BY <1>1, <1>2, <1>5 DEF Answered, AnswerOK
<1> QED BY <1>3, <1>4, <1>5 DEF more

\* The next line down is heard.
Taken(serving, line) == IF line.kind = "request" THEN serving \cup {line.call} ELSE serving

LEMMA RefusedBooks ==
  ASSUME WireTypes, AskedOnce, NEW lines \in Seq(UpLines), NEW serving \in SUBSET Calls, NEW stopping,
         NEW n \in Nat, n + 1 \in DOMAIN toSidecar.lines, Books(lines, serving, stopping, n),
         toSidecar.lines[n + 1].kind = "request", stopping,
         NEW l \in UpLines, l.kind = "response", l.call = toSidecar.lines[n + 1].call,
         l.code = "sidecar-unavailable"
  PROVE  Books(Append(lines, l), serving, stopping, n + 1)
<1> DEFINE down == toSidecar.lines
           k == n + 1
           c == down[k].call
<1>0. /\ DOMAIN down = 1..Len(down) /\ Len(down) \in Nat /\ k \in Nat
      /\ \A i \in DOMAIN down : down[i].kind = "request" => down[i].call \in Calls
      /\ k \in DOMAIN down
  BY LineOf
<1>1. InHand(lines, serving, n) /\ Owed(lines, n) /\ Answered(lines, stopping)
  BY DEF Books
<1>2. Untold(c, lines) /\ calls[c].at # "idle"
  <2>1. k \in n + 1..Len(down)
    BY <1>0
  <2>2. Untold(down[k].call, lines)
    BY <1>1, <2>1 DEF Owed
  <2> QED BY <2>2 DEF Untold
<1>3. \A j \in DOMAIN down : down[j].kind = "request" /\ down[j].call = c => j = k
  BY <1>0 DEF AskedOnce
<1>4. Answered(Append(lines, l), stopping)
  BY <1>1, <1>2, MoreLines DEF AnswerOK
<1>5. InHand(Append(lines, l), serving, k)
  <2>1. ASSUME NEW d \in serving
        PROVE  /\ Untold(d, Append(lines, l))
               /\ \E i \in 1..k : down[i].kind = "request" /\ down[i].call = d
    <3>1. PICK i \in 1..n : down[i].kind = "request" /\ down[i].call = d
      BY <1>1 DEF InHand
    <3>2. i \in 1..k /\ i # k /\ i \in DOMAIN down
      <4> HIDE DEF down
      <4> QED BY <1>0
    <3>3. d # c
      BY <1>3, <3>1, <3>2
    <3>4. Untold(d, Append(lines, l))
      BY <1>1, <3>3, MoreLines DEF InHand, NotFor
    <3> QED BY <3>1, <3>2, <3>4
  <2> QED BY <2>1 DEF InHand
<1>6. Owed(Append(lines, l), k)
  <2>1. ASSUME NEW i \in k + 1..Len(down), down[i].kind = "request"
        PROVE  Untold(down[i].call, Append(lines, l))
    <3>1. i \in n + 1..Len(down) /\ i # k /\ i \in DOMAIN down
      <4> HIDE DEF down
      <4> QED BY <1>0
    <3>2. Untold(down[i].call, lines) /\ down[i].call # c
      BY <1>1, <1>3, <2>1, <3>1 DEF Owed
    <3> QED BY <3>2, MoreLines DEF NotFor
  <2> QED BY <2>1 DEF Owed
<1> QED BY <1>4, <1>5, <1>6 DEF Books

LEMMA HeardBooks ==
  ASSUME WireTypes, AskedOnce, NEW lines \in Seq(UpLines), NEW serving \in SUBSET Calls, NEW stopping,
         NEW n \in Nat, n + 1 \in DOMAIN toSidecar.lines, Books(lines, serving, stopping, n)
  PROVE  Books(lines, Taken(serving, toSidecar.lines[n + 1]), stopping, n + 1)
<1> DEFINE down == toSidecar.lines
           k == n + 1
           c == down[k].call
           more == Taken(serving, down[k])
<1>0. DOMAIN down = 1..Len(down) /\ Len(down) \in Nat /\ k \in Nat /\ k \in DOMAIN down
  BY LineOf
<1>1. InHand(lines, serving, n) /\ Owed(lines, n) /\ Answered(lines, stopping)
  BY DEF Books
<1>2. InHand(lines, more, k)
  <2>1. ASSUME NEW d \in more
        PROVE  Untold(d, lines) /\ \E i \in 1..k : down[i].kind = "request" /\ down[i].call = d
    <3>1. CASE d \in serving
      <4>1. PICK i \in 1..n : down[i].kind = "request" /\ down[i].call = d
        BY <1>1, <3>1 DEF InHand
      <4>2. i \in 1..k
        <5> HIDE DEF down
        <5> QED BY <1>0
      <4> QED BY <1>1, <3>1, <4>1, <4>2 DEF InHand
    <3>2. CASE d = c /\ down[k].kind = "request"
      <4>1. k \in n + 1..Len(down) /\ k \in 1..k
        <5> HIDE DEF down
        <5> QED BY <1>0
      <4>2. Untold(down[k].call, lines)
        BY <1>1, <3>2, <4>1 DEF Owed
      <4> QED BY <3>2, <4>1, <4>2
    <3> QED BY <3>1, <3>2 DEF Taken
  <2> QED BY <2>1 DEF InHand
<1>3. Owed(lines, k)
  <2>1. ASSUME NEW i \in k + 1..Len(down) PROVE i \in n + 1..Len(down)
    <3> HIDE DEF down
    <3> QED BY <1>0
  <2> QED BY <1>1, <2>1 DEF Owed
<1> QED BY <1>1, <1>2, <1>3 DEF Books

LEMMA SpokenBooks ==
  ASSUME NEW lines \in Seq(UpLines), NEW l \in UpLines, l.kind # "response",
         NEW serving, NEW stopping, NEW n, Books(lines, serving, stopping, n)
  PROVE  Books(Append(lines, l), serving, stopping, n)
BY MoreLines DEF Books, InHand, Owed, NotFor, AnswerOK

LEMMA StoppedBooks ==
  ASSUME NEW lines, NEW serving, NEW stopping, NEW n, Books(lines, serving, stopping, n)
  PROVE  Books(lines, serving, TRUE, n)
BY DEF Books, Answered

\* What the sidecar is after it has handled lines, and what is so of it.
Hearer(up, serving, stopping, passed) == [up |-> up, serving |-> serving, stopping |-> stopping, heard |-> passed]
Hears(s, up, serving, stopping, passed) ==
  /\ s = Hearer(up, serving, stopping, passed)
  /\ up \in PipeOf(UpLines) /\ serving \in SUBSET Calls /\ stopping \in BOOLEAN /\ passed \in Seq(Int)
  /\ Numbers(passed) /\ Books(up.lines, serving, stopping, Len(passed))
  /\ Reads(up, reader, TRUE, heard.shell)
  /\ sidecar.stopping => stopping
HearInv(s) == Hears(s, s.up, s.serving, s.stopping, s.heard)

HeedLine(s, n, line) ==
  LET Refuse(code) == [s EXCEPT !.up = Wrote(@, Encoded(line.call, code, 1)), !.heard = Append(@, n)]
      took == line.kind = "request" /\ SidecarTakes(line.request)
  IN CASE took /\ s.stopping -> Refuse("sidecar-unavailable")
       [] took /\ ~s.stopping -> [s EXCEPT !.serving = @ \cup {line.call}, !.heard = Append(@, n)]
       [] line.kind = "request" /\ ~took /\ ~s.stopping -> Refuse("bad-request")
       [] line.kind = "config" /\ ~s.stopping -> [s EXCEPT !.up = Wrote(@, StatusLine), !.heard = Append(@, n)]
       [] line.kind = "shutdown" -> [s EXCEPT !.stopping = TRUE, !.heard = Append(@, n)]
       [] OTHER -> [s EXCEPT !.heard = Append(@, n)]

LEMMA HandleIsHeed ==
  ASSUME NEW s, NEW cells, cells # <<>>, NEW n \in Nat, Decoded(toSidecar, cells) = n
  PROVE  HandleLine(s, cells) = HeedLine(s, n, toSidecar.lines[n])
<1> DEFINE d == Decoded(toSidecar, cells)
           line == IF d = Fragment THEN [kind |-> "fragment"] ELSE toSidecar.lines[d]
<1>1. HandleLine(s, cells) = HeedLine(s, d, line)
  BY Zenon DEF HandleLine, HeedLine
<1>2. d = n /\ d # Fragment
  BY DEF Fragment
<1>3. line = toSidecar.lines[n]
  BY <1>2
<1> HIDE DEF d, line
<1> QED BY <1>1, <1>2, <1>3

Gets(s, up, serving, stopping, more, x) ==
  /\ [s EXCEPT !.up = x, !.heard = more] = Hearer(x, serving, stopping, more)
  /\ [s EXCEPT !.serving = x, !.heard = more] = Hearer(up, x, stopping, more)
  /\ [s EXCEPT !.stopping = x, !.heard = more] = Hearer(up, serving, x, more)
  /\ [s EXCEPT !.heard = more] = Hearer(up, serving, stopping, more)

LEMMA HearerGets ==
  ASSUME NEW up, NEW serving, NEW stopping, NEW passed, NEW more, NEW x
  PROVE  Gets(Hearer(up, serving, stopping, passed), up, serving, stopping, more, x)
<1> DEFINE s == Hearer(up, serving, stopping, passed)
           s1 == [s EXCEPT !.up = x]
           s2 == [s EXCEPT !.serving = x]
           s3 == [s EXCEPT !.stopping = x]
<1>1. s1 = Hearer(x, serving, stopping, passed)
  BY DEF Hearer
<1>2. s2 = Hearer(up, x, stopping, passed)
  BY DEF Hearer
<1>3. s3 = Hearer(up, serving, x, passed)
  BY DEF Hearer
<1>4. \A u, v, w : [Hearer(u, v, w, passed) EXCEPT !.heard = more] = Hearer(u, v, w, more)
  BY DEF Hearer
<1>5. /\ [s EXCEPT !.up = x, !.heard = more] = [s1 EXCEPT !.heard = more]
      /\ [s EXCEPT !.serving = x, !.heard = more] = [s2 EXCEPT !.heard = more]
      /\ [s EXCEPT !.stopping = x, !.heard = more] = [s3 EXCEPT !.heard = more]
  OBVIOUS
<1> HIDE DEF s1, s2, s3
<1>6. /\ [s1 EXCEPT !.heard = more] = Hearer(x, serving, stopping, more)
      /\ [s2 EXCEPT !.heard = more] = Hearer(up, x, stopping, more)
      /\ [s3 EXCEPT !.heard = more] = Hearer(up, serving, x, more)
      /\ [s EXCEPT !.heard = more] = Hearer(up, serving, stopping, more)
  BY <1>1, <1>2, <1>3, <1>4, Zenon
<1> QED BY <1>5, <1>6, Zenon DEF Gets

\* The four things a line can do.
HeedsAs(t, up, serving, stopping, more, line) ==
  LET l == Encoded(line.call, "sidecar-unavailable", 1)
  IN  \/ line.kind = "request" /\ stopping /\ t = Hearer(Wrote(up, l), serving, stopping, more)
      \/ /\ line.kind # "request" \/ ~stopping
         /\ \/ t = Hearer(up, Taken(serving, line), stopping, more)
            \/ line.kind # "request" /\ t = Hearer(Wrote(up, StatusLine), serving, stopping, more)
            \/ line.kind # "request" /\ t = Hearer(up, serving, TRUE, more)

LEMMA HeedCases ==
  ASSUME NEW up, NEW serving, NEW stopping \in BOOLEAN, NEW passed, NEW n, NEW line \in DownLines,
         line.kind = "request" => SidecarTakes(line.request)
  PROVE  HeedsAs(HeedLine(Hearer(up, serving, stopping, passed), n, line), up, serving, stopping,
                 Append(passed, n), line)
<1> DEFINE s == Hearer(up, serving, stopping, passed)
           l == Encoded(line.call, "sidecar-unavailable", 1)
           t == HeedLine(s, n, line)
           more == Append(passed, n)
           yes == TRUE
<1>1. line.kind \in {"request", "config", "shutdown"}
  BY LinesAre
<1>2. /\ s.stopping = stopping /\ s.up = up /\ s.serving = serving /\ s.heard = passed
  BY DEF Hearer
<1>b. ASSUME NEW x PROVE Gets(s, up, serving, stopping, more, x)
  BY HearerGets
<1>a. /\ \A x : [s EXCEPT !.up = x, !.heard = more] = Hearer(x, serving, stopping, more)
      /\ \A x : [s EXCEPT !.serving = x, !.heard = more] = Hearer(up, x, stopping, more)
      /\ \A x : [s EXCEPT !.stopping = x, !.heard = more] = Hearer(up, serving, x, more)
      /\ [s EXCEPT !.heard = more] = Hearer(up, serving, stopping, more)
  <2> HIDE DEF more, s
  <2> QED BY <1>b, Zenon DEF Gets
<1> HIDE DEF s, t
<1>4. CASE line.kind = "request" /\ stopping
  <2>1. t = [s EXCEPT !.up = Wrote(s.up, l), !.heard = Append(s.heard, n)]
    BY <1>2, <1>4, Zenon DEF HeedLine, t
  <2>2. t = Hearer(Wrote(up, l), serving, stopping, more)
    BY <1>2, <1>a, <2>1, Zenon
  <2> QED BY <1>4, <2>2, Zenon DEF s, t, HeedsAs
<1>5. CASE line.kind = "request" /\ ~stopping
  <2>1. t = [s EXCEPT !.serving = s.serving \cup {line.call}, !.heard = Append(s.heard, n)]
    BY <1>2, <1>5, Zenon DEF HeedLine, t
  <2>2. t = Hearer(up, serving \cup {line.call}, stopping, more)
    BY <1>2, <1>a, <2>1, Zenon
  <2>3. serving \cup {line.call} = Taken(serving, line)
    BY <1>5 DEF Taken
  <2> QED BY <1>5, <2>2, <2>3, Zenon DEF s, t, HeedsAs
<1>6. CASE line.kind = "config" /\ ~stopping
  <2>1. t = [s EXCEPT !.up = Wrote(s.up, StatusLine), !.heard = Append(s.heard, n)]
    BY <1>2, <1>6 DEF HeedLine, t
  <2>2. t = Hearer(Wrote(up, StatusLine), serving, stopping, more)
    BY <1>2, <1>a, <2>1, Zenon
  <2>3. line.kind # "request"
    BY <1>6
  <2> QED BY <1>6, <2>2, <2>3, Zenon DEF s, t, HeedsAs
<1>7. CASE line.kind = "shutdown"
  <2>1. t = [s EXCEPT !.stopping = yes, !.heard = Append(s.heard, n)]
    BY <1>2, <1>7 DEF HeedLine, t
  <2>2. t = Hearer(up, serving, TRUE, more)
    BY <1>2, <1>a, <2>1, Zenon
  <2>3. line.kind # "request"
    BY <1>7
  <2> QED BY <1>7, <2>2, <2>3, Zenon DEF s, t, HeedsAs
<1>8. CASE line.kind = "config" /\ stopping
  <2>1. t = [s EXCEPT !.heard = Append(s.heard, n)]
    BY <1>2, <1>8 DEF HeedLine, t
  <2>2. t = Hearer(up, serving, stopping, more)
    BY <1>2, <1>a, <2>1, Zenon
  <2>3. line.kind # "request" /\ serving = Taken(serving, line)
    BY <1>8 DEF Taken
  <2> QED BY <1>8, <2>2, <2>3, Zenon DEF s, t, HeedsAs
<1> QED BY <1>1, <1>4, <1>5, <1>6, <1>7, <1>8

LEMMA HearsIs ==
  ASSUME NEW s, NEW up, NEW serving, NEW stopping, NEW passed, Hears(s, up, serving, stopping, passed)
  PROVE  HearInv(s) /\ s.heard = passed
<1>1. s.up = up /\ s.serving = serving /\ s.stopping = stopping /\ s.heard = passed
  BY DEF Hears, Hearer
<1> QED BY <1>1 DEF HearInv

LEMMA MoreNumbers ==
  ASSUME NEW passed \in Seq(Int), Numbers(passed), NEW n, n = Len(passed) + 1
  PROVE  /\ Append(passed, n) \in Seq(Int) /\ Len(Append(passed, n)) = n /\ Numbers(Append(passed, n))
         /\ n \in Nat /\ n > 0 /\ Len(passed) \in Nat
<1>0. Len(passed) \in Nat /\ n \in Nat /\ n > 0 /\ n \in Int
  OBVIOUS
<1>1. /\ Append(passed, n) \in Seq(Int) /\ Len(Append(passed, n)) = Len(passed) + 1
      /\ DOMAIN passed = 1..Len(passed) /\ DOMAIN Append(passed, n) = 1..Len(passed) + 1
      /\ \A i \in 1..Len(passed) : Append(passed, n)[i] = passed[i]
      /\ Append(passed, n)[Len(passed) + 1] = n
  BY <1>0, LongerList
<1> DEFINE longer == Append(passed, n)
           h == Len(passed)
<1>2. /\ DOMAIN longer = 1..h + 1 /\ DOMAIN passed = 1..h /\ h \in Nat
      /\ \A i \in 1..h : longer[i] = passed[i]
      /\ longer[h + 1] = h + 1
  BY <1>0, <1>1
<1> HIDE DEF longer, h
<1>3. \A i \in 1..h + 1 : i \in 1..h \/ i = h + 1
  BY <1>2
<1>4. Numbers(longer)
  BY <1>2, <1>3 DEF Numbers
<1> QED BY <1>0, <1>1, <1>4 DEF longer

LEMMA AnswerLines ==
  /\ StatusLine \in UpLines /\ StatusLine.kind # "response"
  /\ \A c \in Calls : LET l == Encoded(c, "sidecar-unavailable", 1)
                      IN  /\ l \in UpLines /\ l.kind = "response" /\ l.call = c
                          /\ l.code = "sidecar-unavailable"
<1>1. StatusLine \in UpLines /\ StatusLine.kind # "response"
  BY DEF StatusLine, UpLines, Sizes
<1>2. ASSUME NEW c \in Calls
      PROVE  LET l == Encoded(c, "sidecar-unavailable", 1)
             IN  l \in UpLines /\ l.kind = "response" /\ l.call = c /\ l.code = "sidecar-unavailable"
  <2>1. PICK M \in Nat : M = MaxLine /\ M > 1
    BY WireAssumption
  <2>2. Encoded(c, "sidecar-unavailable", 1) = [kind |-> "response", call |-> c, code |-> "sidecar-unavailable", size |-> 1]
    BY <2>1 DEF Encoded
  <2>3. "sidecar-unavailable" \in Codes /\ 1 \in Sizes
    BY DEF Codes, Sizes
  <2> QED BY <2>2, <2>3 DEF UpLines
<1> QED BY <1>1, <1>2

LEMMA HeedKeeps ==
  ASSUME WireTypes, AskedOnce,
         NEW s, NEW up, NEW serving, NEW stopping, NEW passed, Hears(s, up, serving, stopping, passed),
         NEW n, n = Len(passed) + 1, n \in DOMAIN toSidecar.lines
  PROVE  HearInv(HeedLine(s, n, toSidecar.lines[n])) /\ Len(HeedLine(s, n, toSidecar.lines[n]).heard) = n
<1> DEFINE line == toSidecar.lines[n]
           t == HeedLine(s, n, line)
           k == Len(passed)
           more == Append(passed, n)
           l == Encoded(line.call, "sidecar-unavailable", 1)
<1>1. /\ s = Hearer(up, serving, stopping, passed)
      /\ up \in PipeOf(UpLines) /\ serving \in SUBSET Calls /\ stopping \in BOOLEAN /\ passed \in Seq(Int)
      /\ Numbers(passed) /\ Books(up.lines, serving, stopping, k)
      /\ Reads(up, reader, TRUE, heard.shell)
      /\ sidecar.stopping => stopping
  BY DEF Hears
<1>2. more \in Seq(Int) /\ Len(more) = n /\ Numbers(more) /\ n \in Nat /\ k \in Nat
  BY <1>1, MoreNumbers
<1>3. /\ line \in DownLines /\ (line.kind = "request" => line.call \in Calls)
      /\ line.kind = "request" => SidecarTakes(line.request)
  <2>1. line \in DownLines /\ (line.kind = "request" => line.call \in Calls)
    BY LineOf
  <2>2. line.kind = "request" => ShellTakes(line.request)
    BY DEF AskedOnce
  <2> QED BY <2>1, <2>2, TakesIsTaken
<1> HIDE DEF line, more
<1>4. /\ up.lines \in Seq(UpLines) /\ reader \in Readers /\ heard.shell \in Seq(Int) /\ k + 1 = n
      /\ \A x \in UpLines : /\ Wrote(up, x) \in PipeOf(UpLines) /\ Wrote(up, x).lines = Append(up.lines, x)
                            /\ Reads(Wrote(up, x), reader, TRUE, heard.shell)
  <2>1. up.lines \in Seq(UpLines) /\ reader \in Readers /\ heard.shell \in Seq(Int)
    BY <1>1 DEF PipeOf, WireTypes
  <2>2. ASSUME NEW x \in UpLines
        PROVE  /\ Wrote(up, x) \in PipeOf(UpLines) /\ Wrote(up, x).lines = Append(up.lines, x)
               /\ Reads(Wrote(up, x), reader, TRUE, heard.shell)
    <3>1. x.size \in Sizes
      BY LinesAre
    <3>2. Wrote(up, x) \in PipeOf(UpLines) /\ Wrote(up, x).lines = Append(up.lines, x)
      BY <1>1, <3>1, WroteIs
    <3>3. Reads(Wrote(up, x), reader, TRUE, heard.shell)
      BY <1>1, <2>1, UpWrote
    <3> QED BY <3>2, <3>3
  <2> QED BY <2>1, <2>2
<1>5. k + 1 \in DOMAIN toSidecar.lines /\ toSidecar.lines[k + 1] = line
  BY <1>4 DEF line
<1>6. /\ \A p \in PipeOf(UpLines), c \in SUBSET Calls, b \in BOOLEAN :
           /\ t = Hearer(p, c, b, more)
           /\ Books(p.lines, c, b, n)
           /\ Reads(p, reader, TRUE, heard.shell)
           /\ sidecar.stopping => b
           => HearInv(t) /\ Len(t.heard) = n
  <2> HIDE DEF t
  <2>1. ASSUME NEW p \in PipeOf(UpLines), NEW c \in SUBSET Calls, NEW b \in BOOLEAN,
               t = Hearer(p, c, b, more), Books(p.lines, c, b, n),
               Reads(p, reader, TRUE, heard.shell), sidecar.stopping => b
        PROVE  HearInv(t) /\ Len(t.heard) = n
    <3>1. Hears(t, p, c, b, more)
      BY <1>2, <2>1 DEF Hears
    <3> QED BY <1>2, <3>1, HearsIs
  <2> QED BY <2>1
<1>a. HeedsAs(t, up, serving, stopping, more, line)
  BY <1>1, <1>3, HeedCases DEF more
<1> HIDE DEF t
<1>7. \/ line.kind = "request" /\ stopping /\ t = Hearer(Wrote(up, l), serving, stopping, more)
      \/ /\ line.kind # "request" \/ ~stopping
         /\ \/ t = Hearer(up, Taken(serving, line), stopping, more)
            \/ line.kind # "request" /\ t = Hearer(Wrote(up, StatusLine), serving, stopping, more)
            \/ line.kind # "request" /\ t = Hearer(up, serving, TRUE, more)
  BY <1>a, Zenon DEF HeedsAs
<1> HIDE DEF t, l, k
<1>8. Books(up.lines, Taken(serving, line), stopping, n) /\ Taken(serving, line) \in SUBSET Calls
  <2>1. Books(up.lines, Taken(serving, line), stopping, k + 1)
    BY <1>1, <1>2, <1>4, <1>5, HeardBooks
  <2> QED BY <1>1, <1>3, <1>4, <2>1 DEF Taken
<1>13. HearInv(t) /\ Len(t.heard) = n
  <2>1. CASE line.kind = "request" /\ stopping /\ t = Hearer(Wrote(up, l), serving, stopping, more)
    <3>1. l \in UpLines /\ l.kind = "response" /\ l.call = line.call /\ l.code = "sidecar-unavailable"
      BY <1>3, <2>1, AnswerLines DEF l
    <3>2. Books(Append(up.lines, l), serving, stopping, k + 1)
      BY <1>1, <1>2, <1>4, <1>5, <2>1, <3>1, RefusedBooks
    <3> QED BY <1>1, <1>4, <1>6, <2>1, <3>1, <3>2
  <2>2. CASE t = Hearer(up, Taken(serving, line), stopping, more)
    BY <1>1, <1>6, <1>8, <2>2
  <2>3. CASE line.kind # "request" /\ t = Hearer(Wrote(up, StatusLine), serving, stopping, more)
    <3>1. Books(up.lines, serving, stopping, n)
      BY <1>8, <2>3 DEF Taken
    <3>2. Books(Append(up.lines, StatusLine), serving, stopping, n)
      BY <1>4, <3>1, AnswerLines, SpokenBooks
    <3> QED BY <1>1, <1>4, <1>6, <2>3, <3>2, AnswerLines
  <2>4. CASE line.kind # "request" /\ t = Hearer(up, serving, TRUE, more)
    <3>1. Books(up.lines, serving, stopping, n)
      BY <1>8, <2>4 DEF Taken
    <3>2. Books(up.lines, serving, TRUE, n)
      BY <3>1, StoppedBooks
    <3> QED BY <1>1, <1>6, <2>4, <3>2
  <2> QED BY <1>7, <2>1, <2>2, <2>3, <2>4
<1> QED BY <1>13 DEF t, line

LEMMA LeastOf ==
  ASSUME NEW T \in SUBSET Nat, T # {}
  PROVE  \E n \in T : \A m \in T : n <= m
<1> DEFINE R == {pair \in Nat \X Nat : pair[1] < pair[2]}
<1>1. IsWellFoundedOn(R, Nat)
  BY NatLessThanWellFounded, Zenon DEF OpToRel
<1>2. \A m, n \in Nat : m < n => <<m, n>> \in R
  OBVIOUS
<1>3. T \subseteq Nat
  OBVIOUS
<1> HIDE DEF R
<1>4. PICK n \in T : \A m \in T : ~(<<m, n>> \in R)
  BY <1>1, <1>3, WFMin
<1>5. ASSUME NEW m \in T PROVE n <= m
  <2>1. m \in Nat /\ n \in Nat
    OBVIOUS
  <2>2. ~(m < n)
    BY <1>2, <1>4, <2>1, Zenon
  <2> QED BY <2>1, <2>2
<1> QED BY <1>5

-----------------------------------------------------------------------------
(* The wire: the sidecar handles a chunk.                                  *)

CellInv(acc, st, at) ==
  /\ DOMAIN acc = {"line", "s"} /\ acc = [line |-> acc.line, s |-> acc.s]
  /\ acc.line \in Seq(Nat) /\ HearInv(acc.s)
  /\ Place(st, Len(toSidecar.lines), Len(acc.s.heard), Len(acc.line), at)
  /\ acc.line = Cells(Len(acc.s.heard) + 1, Len(acc.line))

\* The cell after place at.
NextCell(cell, st, N, h, e, at) ==
  /\ h < N
  /\ \/ cell = 0 /\ at + 1 = st[h + 2] /\ Place(st, N, h + 1, 0, at + 1)
     \/ cell = h + 1 /\ at + 1 < st[h + 2] /\ Place(st, N, h, e + 1, at + 1)

LEMMA NextCellIs ==
  ASSUME NEW N \in Nat, NEW st, Ladder(st, N),
         NEW h \in Nat, NEW e \in Nat, NEW at \in Nat, Place(st, N, h, e, at),
         NEW X \in Seq(Nat), NEW from \in Nat, Shown(X, from, st, N),
         NEW i \in 1..Len(X), from + i = at + 1
  PROVE  NextCell(X[i], st, N, h, e, at)
BY CellAt DEF NextCell

LEMMA CellKept ==
  ASSUME WireTypes, AskedOnce, NEW st, Whole(toSidecar, st),
         NEW acc, NEW at, CellInv(acc, st, at),
         NEW X \in Seq(Nat), NEW from \in Nat, Shown(X, from, st, Len(toSidecar.lines)),
         NEW i \in 1..Len(X), from + i = at + 1
  PROVE  CellInv(HandleCell(acc, X[i]), st, at + 1)
<1> DEFINE N == Len(toSidecar.lines)
           s == acc.s
           h == Len(s.heard)
           e == Len(acc.line)
           n == h + 1
<1>1. /\ DOMAIN acc = {"line", "s"} /\ acc = [line |-> acc.line, s |-> s]
      /\ acc.line \in Seq(Nat) /\ HearInv(s) /\ Place(st, N, h, e, at) /\ acc.line = Cells(n, e)
  BY DEF CellInv
<1>2. /\ N \in Nat /\ h \in Nat /\ e \in Nat /\ at \in Nat /\ Ladder(st, N)
      /\ at = st[n] + e
      /\ DOMAIN toSidecar.lines = 1..N
  <2>1. N \in Nat /\ DOMAIN toSidecar.lines = 1..N
    BY LineOf
  <2>2. s.heard \in Seq(Int)
    BY <1>1 DEF HearInv, Hears
  <2> QED BY <1>1, <2>1, <2>2 DEF Place, Whole
<1>3. /\ h < N
      /\ \/ X[i] = 0 /\ at + 1 = st[h + 2] /\ Place(st, N, n, 0, at + 1)
         \/ X[i] = n /\ at + 1 < st[h + 2] /\ Place(st, N, h, e + 1, at + 1)
  <2>1. Shown(X, from, st, N) /\ from + i = at + 1 /\ Place(st, N, h, e, at)
    BY <1>1
  <2> HIDE DEF N, h, e
  <2>2. N \in Nat /\ h \in Nat /\ e \in Nat /\ at \in Nat /\ Ladder(st, N)
    BY <1>2
  <2>3. NextCell(X[i], st, N, h, e, at)
    BY <2>1, <2>2, NextCellIs
  <2> QED BY <2>3, Zenon DEF NextCell
<1> HIDE DEF N, s, h, e
<1>4. n \in Nat /\ n > 0 /\ n \in 1..N /\ n \in DOMAIN toSidecar.lines /\ toSidecar.lines[n].size \in Sizes
  <2>0. N \in Nat /\ h \in Nat /\ h < N
    BY <1>2, <1>3
  <2>1. n \in Nat /\ n > 0 /\ n \in 1..N
    BY <2>0
  <2>2. toSidecar.lines[n] \in DownLines
    BY <1>2, <2>1, LineOf
  <2> QED BY <1>2, <2>1, <2>2, LinesAre
<1>5. CASE X[i] = 0 /\ at + 1 = st[h + 2] /\ Place(st, N, n, 0, at + 1)
  <2>1. PICK size \in Nat : size = toSidecar.lines[n].size /\ size > 0
    <3> DEFINE z == toSidecar.lines[n].size
    <3>1. z \in Nat \ {0}
      BY <1>4 DEF Sizes
    <3> HIDE DEF z
    <3>2. z \in Nat /\ z > 0
      BY <3>1
    <3> QED BY <3>2, Zenon DEF z
  <2>2. e = size
    <3>1. \A j \in 1..N + 1 : st[j] \in Nat
      BY <1>2 DEF Ladder
    <3>2. n \in 1..N + 1 /\ h + 2 = n + 1
      BY <1>2, <1>4
    <3>3. PICK base \in Nat : base = st[n]
      BY <3>1, <3>2
    <3>4. st[h + 2] = base + size + 1
      <4>1. st[n + 1] = st[n] + toSidecar.lines[n].size + 1
        BY <1>4 DEF Whole, N
      <4> QED BY <2>1, <3>2, <3>3, <4>1
    <3>5. base + e + 1 = base + size + 1
      BY <1>2, <1>5, <3>3, <3>4
    <3>6. e \in Nat
      BY <1>2
    <3> QED BY <3>5, <3>6
  <2>3. Decoded(toSidecar, acc.line) = n /\ acc.line # <<>>
    <3>1. Decoded(toSidecar, Cells(n, e)) = IF e = toSidecar.lines[n].size THEN n ELSE Fragment
      <4> HIDE DEF n
      <4> QED BY <1>2, <1>4, <2>1, <2>2, DecodedIs
    <3>2. Len(acc.line) # 0
      <4>1. e # 0
        BY <2>1, <2>2
      <4> QED BY <4>1, Zenon DEF e
    <3> QED BY <1>1, <2>1, <2>2, <3>1, <3>2
  <2> DEFINE t == HeedLine(s, n, toSidecar.lines[n])
  <2>4. HandleLine(s, acc.line) = t
    <3> HIDE DEF n
    <3> QED BY <1>4, <2>3, HandleIsHeed
  <2>5. HearInv(t) /\ Len(t.heard) = n
    <3>1. Hears(s, s.up, s.serving, s.stopping, s.heard)
      BY <1>1 DEF HearInv
    <3>2. n = Len(s.heard) + 1
      BY DEF h
    <3> HIDE DEF n
    <3> QED BY <1>4, <3>1, <3>2, HeedKeeps
  <2>6. HandleCell(acc, X[i]) = [line |-> <<>>, s |-> t]
    BY <1>5, <2>4 DEF HandleCell, s
  <2> DEFINE none == <<>>
  <2>7. none \in Seq(Nat) /\ Len(none) = 0 /\ none = Cells(n + 1, Len(none))
    BY NoCells
  <2> DEFINE u == [line |-> none, s |-> t]
  <2> HIDE DEF none, t
  <2>8. DOMAIN u = {"line", "s"} /\ u.line = none /\ u.s = t
    OBVIOUS
  <2>9. u = [line |-> u.line, s |-> u.s]
    OBVIOUS
  <2>10. HandleCell(acc, X[i]) = u
    BY <2>6 DEF none
  <2> HIDE DEF u
  <2>11. CellInv(u, st, at + 1)
    <3>1. Place(st, N, Len(u.s.heard), Len(u.line), at + 1)
      BY <1>5, <2>5, <2>7, <2>8
    <3>2. u.line = Cells(Len(u.s.heard) + 1, Len(u.line))
      BY <2>5, <2>7, <2>8
    <3> QED BY <2>5, <2>7, <2>8, <2>9, <3>1, <3>2 DEF CellInv, N
  <2> QED BY <2>10, <2>11
<1>6. CASE X[i] = n /\ at + 1 < st[h + 2] /\ Place(st, N, h, e + 1, at + 1)
  <2> DEFINE longer == Append(acc.line, n)
             u == [line |-> longer, s |-> s]
  <2>1. longer \in Seq(Nat) /\ Len(longer) = e + 1
    <3>1. n \in Nat
      BY <1>4
    <3> HIDE DEF n
    <3> QED BY <1>1, <3>1 DEF e
  <2>2. longer = Cells(n, e + 1)
    <3> DEFINE whole == Cells(n, e + 1)
    <3>1. whole \in Seq(Nat) /\ Len(whole) = e + 1 /\ \A j \in 1..e + 1 : whole[j] = n
      <4>1. e + 1 \in Nat
        BY <1>2
      <4> HIDE DEF n
      <4> QED BY <1>4, <4>1, CellsAre
    <3>2. \A j \in 1..e + 1 : longer[j] = n
      <4>1. \A j \in 1..e : Cells(n, e)[j] = n
        <5> HIDE DEF n
        <5> QED BY <1>2, <1>4, CellsAre
      <4>2. /\ \A j \in 1..Len(acc.line) : longer[j] = acc.line[j]
            /\ longer[Len(acc.line) + 1] = n
        <5> HIDE DEF n
        <5> QED BY <1>1, <1>4, LongerList
      <4>3. \A j \in 1..e + 1 : j \in 1..e \/ j = e + 1
        BY <1>2
      <4>4. acc.line = Cells(n, e) /\ Len(acc.line) = e
        BY <1>1 DEF e
      <4> HIDE DEF longer, n
      <4> QED BY <4>1, <4>2, <4>3, <4>4
    <3> HIDE DEF longer, whole
    <3>3. longer = whole
      <4>1. \A j \in 1..Len(longer) : longer[j] = whole[j]
        BY <2>1, <3>1, <3>2
      <4>2. Len(longer) = Len(whole)
        BY <2>1, <3>1
      <4> DEFINE S == Nat
      <4>3. longer \in Seq(S) /\ whole \in Seq(S)
        BY <2>1, <3>1
      <4> HIDE DEF S
      <4> QED BY <4>1, <4>2, <4>3, SameSeq
    <3> QED BY <3>3 DEF whole
  <2>3. HandleCell(acc, X[i]) = [acc EXCEPT !.line = longer]
    BY <1>4, <1>6 DEF HandleCell
  <2> HIDE DEF longer
  <2>4. HandleCell(acc, X[i]) = u
    <3>1. PICK a, b : a = acc.line /\ b = s
      OBVIOUS
    <3>2. acc = [line |-> a, s |-> b]
      BY <1>1, <3>1, Zenon
    <3>3. [acc EXCEPT !.line = longer] = [line |-> longer, s |-> b]
      BY <3>2
    <3> QED BY <2>3, <3>1, <3>3, Zenon
  <2>8. DOMAIN u = {"line", "s"} /\ u.line = longer /\ u.s = s /\ u = [line |-> u.line, s |-> u.s]
    OBVIOUS
  <2> HIDE DEF u
  <2>11. CellInv(u, st, at + 1)
    <3>1. Place(st, N, Len(u.s.heard), Len(u.line), at + 1)
      BY <1>6, <2>1, <2>8 DEF h
    <3>2. u.line = Cells(Len(u.s.heard) + 1, Len(u.line))
      BY <2>1, <2>2, <2>8 DEF h
    <3> QED BY <1>1, <2>1, <2>8, <3>1, <3>2 DEF CellInv, N
  <2> QED BY <2>4, <2>11
<1> QED BY <1>3, <1>5, <1>6

\* What there is after n cells of a chunk, given what there is after each before.
AfterCell(start, chunk, g, n) == IF n = 0 THEN start ELSE HandleCell(g[n - 1], chunk[n])
Handles(start, chunk, n, g) == g = [m \in 0..n |-> AfterCell(start, chunk, g, m)]

LEMMA HandlesExists ==
  ASSUME NEW start, NEW chunk, NEW n \in Nat
  PROVE  \E g : Handles(start, chunk, n, g)
<1> DEFINE Bad == {m \in Nat : ~\E g : Handles(start, chunk, m, g)}
<1>1. SUFFICES ASSUME Bad # {} PROVE FALSE
  OBVIOUS
<1>2. PICK m \in Bad : \A k \in Bad : m <= k
  BY <1>1, LeastOf
<1>3. CASE m = 0
  <2> DEFINE g == [k \in 0..0 |-> start]
  <2>1. \A k \in 0..0 : AfterCell(start, chunk, g, k) = start
    BY DEF AfterCell
  <2>2. Handles(start, chunk, 0, g)
    BY <2>1 DEF Handles
  <2> QED BY <1>2, <1>3, <2>2
<1>4. CASE m # 0
  <2>1. m - 1 \in Nat /\ ~(m <= m - 1)
    BY <1>4
  <2>2. PICK g : Handles(start, chunk, m - 1, g)
    BY <1>2, <2>1
  <2> DEFINE last == AfterCell(start, chunk, g, m)
             h == [k \in 0..m |-> IF k = m THEN last ELSE g[k]]
  <2>3. \A k \in 0..m - 1 : h[k] = g[k]
    <3> HIDE DEF last
    <3> QED OBVIOUS
  <2>4. ASSUME NEW k \in 0..m PROVE h[k] = AfterCell(start, chunk, h, k)
    <3>1. CASE k = m
      <4>1. m - 1 \in 0..m - 1
        BY <2>1
      <4>2. h[m - 1] = g[m - 1]
        BY <2>3, <4>1
      <4>3. h[m] = AfterCell(start, chunk, g, m)
        <5> HIDE DEF last
        <5>1. h[m] = last
          OBVIOUS
        <5> QED BY <5>1 DEF last
      <4> HIDE DEF h
      <4> QED BY <3>1, <4>2, <4>3 DEF AfterCell
    <3>2. CASE k # m
      <4>1. k \in 0..m - 1 /\ (k # 0 => k - 1 \in 0..m - 1)
        BY <3>2
      <4>2. g[k] = AfterCell(start, chunk, g, k)
        BY <2>2, <4>1 DEF Handles
      <4>3. h[k] = g[k] /\ (k # 0 => h[k - 1] = g[k - 1])
        BY <2>3, <4>1
      <4> HIDE DEF h
      <4> QED BY <4>2, <4>3 DEF AfterCell
    <3> QED BY <3>1, <3>2
  <2>5. h = [k \in 0..m |-> h[k]]
    <3> HIDE DEF last
    <3> QED OBVIOUS
  <2> HIDE DEF h
  <2>6. Handles(start, chunk, m, h)
    BY <2>4, <2>5 DEF Handles
  <2> QED BY <1>2, <2>6
<1> QED BY <1>3, <1>4

LEMMA HandledIs ==
  ASSUME NEW start, NEW chunk, Len(chunk) \in Nat
  PROVE  \E g : Handles(start, chunk, Len(chunk), g) /\ Handled(start, chunk) = g[Len(chunk)]
<1> DEFINE kept == CHOOSE g : Handles(start, chunk, Len(chunk), g)
<1>1. Handled(start, chunk) = kept[Len(chunk)]
  BY Zenon DEF Handled, Handles, AfterCell
<1>2. Handles(start, chunk, Len(chunk), kept)
  <2>1. \E g : Handles(start, chunk, Len(chunk), g)
    BY HandlesExists
  <2> QED BY <2>1, Zenon
<1> QED BY <1>1, <1>2

LEMMA ChunkKept ==
  ASSUME WireTypes, AskedOnce, NEW st, Whole(toSidecar, st),
         NEW start, NEW at \in Nat, CellInv(start, st, at),
         NEW chunk \in Seq(Nat), Shown(chunk, at, st, Len(toSidecar.lines))
  PROVE  CellInv(Handled(start, chunk), st, at + Len(chunk))
<1> DEFINE k == Len(chunk)
<1>1. k \in Nat
  OBVIOUS
<1>2. PICK g : Handles(start, chunk, k, g) /\ Handled(start, chunk) = g[k]
  BY <1>1, HandledIs
<1> DEFINE Bad == {m \in 0..k : ~CellInv(g[m], st, at + m)}
<1> HIDE DEF k
<1>5. \A m \in 0..k : g[m] = AfterCell(start, chunk, g, m)
  BY <1>2, Zenon DEF Handles
<1>3. Bad = {}
  <2>1. SUFFICES ASSUME Bad # {} PROVE FALSE
    OBVIOUS
  <2>2. PICK m \in Bad : \A j \in Bad : m <= j
    <3>1. Bad \in SUBSET Nat
      OBVIOUS
    <3> HIDE DEF Bad
    <3> QED BY <2>1, <3>1, LeastOf
  <2>3. m \in 0..k /\ m \in Nat /\ g[m] = AfterCell(start, chunk, g, m)
    BY <1>1, <1>5
  <2>4. CASE m = 0
    <3>1. g[m] = start /\ at + m = at
      BY <2>3, <2>4 DEF AfterCell
    <3> QED BY <3>1
  <2>5. CASE m # 0
    <3>1. /\ m - 1 \in Nat /\ m - 1 \in 0..k /\ ~(m <= m - 1) /\ m \in 1..k
          /\ at + m = at + (m - 1) + 1 /\ at + (m - 1) \in Nat
      BY <1>1, <2>3, <2>5
    <3>2. CellInv(g[m - 1], st, at + (m - 1))
      BY <2>2, <3>1
    <3>3. g[m] = HandleCell(g[m - 1], chunk[m])
      BY <2>3, <2>5 DEF AfterCell
    <3> DEFINE before == g[m - 1]
               place == at + (m - 1)
    <3>4. CellInv(before, st, place) /\ at + m = place + 1 /\ m \in 1..Len(chunk)
      BY <3>1, <3>2 DEF k
    <3> HIDE DEF before, place
    <3>5. CellInv(HandleCell(before, chunk[m]), st, place + 1)
      BY <3>4, CellKept
    <3> QED BY <3>3, <3>4, <3>5 DEF before
  <2> QED BY <2>4, <2>5
<1>4. CellInv(g[k], st, at + k)
  BY <1>1, <1>3
<1> QED BY <1>2, <1>4 DEF k

DownInv == sidecar.there => \E st, at : Down(toSidecar, sidecar.buffer, heard.sidecar, st, at)
WireInv == WireTypes /\ DownInv /\ UpInv /\ BooksInv /\ AnswersAreTrue

Sidecars == [buffer : Seq(Nat), serving : SUBSET Calls, stopping : BOOLEAN, there : BOOLEAN]
SidecarIs(t, buffer, serving, stopping, there) ==
  /\ t \in Sidecars
  /\ t.buffer = buffer /\ t.serving = serving /\ t.stopping = stopping /\ t.there = there

SidecarWith(s, buffer, serving, stopping) ==
  [s EXCEPT !.buffer = buffer, !.serving = serving, !.stopping = stopping]

LEMMA SidecarGets ==
  ASSUME NEW s \in Sidecars, NEW buffer \in Seq(Nat), NEW serving \in SUBSET Calls, NEW stopping \in BOOLEAN
  PROVE  SidecarIs(SidecarWith(s, buffer, serving, stopping), buffer, serving, stopping, s.there)
<1> DEFINE t == SidecarWith(s, buffer, serving, stopping)
           s1 == [s EXCEPT !.buffer = buffer]
           s2 == [s1 EXCEPT !.serving = serving]
           s3 == [s2 EXCEPT !.stopping = stopping]
<1>1. PICK b, c, d, e : s = [buffer |-> b, serving |-> c, stopping |-> d, there |-> e]
  BY DEF Sidecars
<1>2. s.there = e /\ e \in BOOLEAN
  BY <1>1 DEF Sidecars
<1>3. s1 = [buffer |-> buffer, serving |-> c, stopping |-> d, there |-> e]
  BY <1>1
<1> HIDE DEF s1
<1>4. s2 = [buffer |-> buffer, serving |-> serving, stopping |-> d, there |-> e]
  BY <1>3
<1> HIDE DEF s2
<1>5. s3 = [buffer |-> buffer, serving |-> serving, stopping |-> stopping, there |-> e]
  BY <1>4
<1>6. t = s3
  BY DEF SidecarWith, s1, s2
<1> HIDE DEF t, s3
<1>7. t \in Sidecars /\ t.buffer = buffer /\ t.serving = serving /\ t.stopping = stopping /\ t.there = e
  BY <1>2, <1>5, <1>6 DEF Sidecars
<1> QED BY <1>2, <1>7 DEF SidecarIs, t

\* What the sidecar keeps between two chunks is less than a request.
LEMMA NeverOver ==
  ASSUME WireTypes, NEW st, NEW at, NEW line, NEW passed,
         Down(toSidecar, line, passed, st, at), NEW k \in 1..ChunkMax
  PROVE  ~(Len(line) + k > MaxLine * 2)
<1> DEFINE N == Len(toSidecar.lines)
           h == Len(passed)
           d == Len(line)
           n == h + 1
<1>1. /\ Whole(toSidecar, st) /\ Place(st, N, h, d, at) /\ N \in Nat
      /\ DOMAIN toSidecar.lines = 1..N
  BY LineOf DEF Down
<1>2. PICK M \in Nat, R \in Nat, C \in Nat :
        /\ M = MaxLine /\ R = RequestMax /\ C = ChunkMax
        /\ R + C <= 2 * M
  BY WireAssumption
<1> HIDE DEF N, h, d
<1>3. /\ h \in 0..N /\ d \in Nat /\ at \in Nat /\ at = st[n] + d
      /\ h = N => d = 0
      /\ h < N => at < st[h + 2]
  BY <1>1 DEF Place
<1>4. d <= R
  <2>1. CASE h = N
    <3>1. d = 0
      BY <1>3, <2>1
    <3> QED BY <3>1
  <2>2. CASE h # N
    <3>0. h < N /\ h \in Nat
      BY <1>1, <1>3, <2>2
    <3>1. n \in 1..N /\ n \in 1..N + 1 /\ h + 2 = n + 1
      BY <1>1, <3>0
    <3>2. toSidecar.lines[n] \in DownLines
      BY <1>1, <3>1, LineOf
    <3>3. PICK size \in Nat : size = toSidecar.lines[n].size /\ size <= R
      <4> DEFINE z == toSidecar.lines[n].size
      <4>1. z \in Nat /\ z <= R
        BY <1>2, <3>2, LinesAre DEF Sizes
      <4> HIDE DEF z
      <4> QED BY <4>1, Zenon DEF z
    <3>4. \A j \in 1..N + 1 : st[j] \in Nat
      BY <1>1 DEF Whole, Ladder, N
    <3>5. PICK base \in Nat : base = st[n]
      BY <3>1, <3>4
    <3>6. st[h + 2] = base + size + 1
      <4>1. st[n + 1] = st[n] + toSidecar.lines[n].size + 1
        BY <1>1, <3>1 DEF Whole, N
      <4> QED BY <3>1, <3>3, <3>5, <4>1
    <3>7. base + d < base + size + 1
      BY <1>3, <3>0, <3>5, <3>6
    <3>8. d \in Nat
      BY <1>3
    <3> QED BY <3>3, <3>7, <3>8
  <2> QED BY <2>1, <2>2
<1>5. k \in Nat /\ k <= C
  BY <1>2
<1>6. ~(d + k > M * 2)
  <2>1. d \in Nat
    BY <1>3
  <2> QED BY <1>2, <1>4, <1>5, <2>1
<1> QED BY <1>2, <1>6 DEF d

LEMMA StdinKeeps == ASSUME WireInv, StdinChunk PROVE WireInv'
<1> DEFINE N == Len(toSidecar.lines)
           h == Len(heard.sidecar)
           d == Len(sidecar.buffer)
           before == [up |-> toShell, serving |-> sidecar.serving, stopping |-> sidecar.stopping,
                      heard |-> heard.sidecar]
           start == [line |-> sidecar.buffer, s |-> before]
<1>1. /\ WireTypes /\ AskedOnce /\ Unsaid /\ Numbers(heard.sidecar) /\ AnswersAreTrue
      /\ UNCHANGED <<reader, calls, quota>> /\ sidecar.there = TRUE
      /\ Books(toShell.lines, sidecar.serving, sidecar.stopping, h)
  BY DEF WireInv, BooksInv, StdinChunk, WireTypes
<1>2. PICK k \in 1..ChunkMax :
        /\ k <= Len(toSidecar.cells)
        /\ toSidecar' = RestOf(toSidecar, k)
        /\ LET chunk == SubSeq(toSidecar.cells, 1, k)
               over == Len(sidecar.buffer) + k > MaxLine * 2
               after == IF over THEN [line |-> <<>>, s |-> before] ELSE Handled(start, chunk)
           IN /\ sidecar' = [sidecar EXCEPT !.buffer = after.line, !.serving = after.s.serving,
                                            !.stopping = after.s.stopping]
              /\ toShell' = after.s.up
              /\ heard' = [heard EXCEPT !.sidecar = after.s.heard]
  BY Zenon DEF StdinChunk, RestOf
<1>3. PICK st, at : Down(toSidecar, sidecar.buffer, heard.sidecar, st, at)
  BY <1>1 DEF WireInv, DownInv
<1>4. ~(Len(sidecar.buffer) + k > MaxLine * 2)
  BY <1>1, <1>3, NeverOver
<1> DEFINE chunk == SubSeq(toSidecar.cells, 1, k)
           after == Handled(start, chunk)
           t == after.s
<1>5. /\ sidecar' = SidecarWith(sidecar, after.line, t.serving, t.stopping)
      /\ toShell' = t.up
      /\ heard' = [heard EXCEPT !.sidecar = t.heard]
  <2> HIDE DEF after, start, before
  <2> QED BY <1>2, <1>4, Zenon DEF after, SidecarWith
<1>6. /\ Whole(toSidecar, st) /\ Shown(toSidecar.cells, at, st, N) /\ at + Len(toSidecar.cells) = st[N + 1]
      /\ Place(st, N, h, d, at) /\ sidecar.buffer = Cells(h + 1, d)
  BY <1>3 DEF Down
<1>7. /\ at \in Nat /\ N \in Nat /\ Ladder(st, N) /\ k \in Nat /\ toSidecar \in PipeOf(DownLines)
      /\ toSidecar.cells \in Seq(Nat) /\ Len(toSidecar.cells) \in Nat
  BY <1>1, <1>6 DEF Place, Whole, WireTypes, PipeOf
<1>8. /\ chunk \in Seq(Nat) /\ Len(chunk) = k
      /\ PipeIs(RestOf(toSidecar, k), toSidecar.lines,
                SubSeq(toSidecar.cells, k + 1, Len(toSidecar.cells)), DownLines)
      /\ Len(SubSeq(toSidecar.cells, k + 1, Len(toSidecar.cells))) = Len(toSidecar.cells) - k
  BY <1>2, <1>7, RestIs
<1>9. Shown(chunk, at, st, N)
  <2>1. Shown(SubSeq(toSidecar.cells, 0 + 1, k), at + 0, st, N)
    <3>1. 0 \in Nat /\ 0 <= k
      BY <1>7
    <3> HIDE DEF N
    <3> QED BY <1>2, <1>6, <1>7, <3>1, ShownPiece
  <2>2. at + 0 = at /\ SubSeq(toSidecar.cells, 0 + 1, k) = chunk
    BY <1>7
  <2> HIDE DEF chunk
  <2> QED BY <2>1, <2>2
<1>10. CellInv(start, st, at)
  <2>1. ~reader.ended /\ Reads(toShell, reader, TRUE, heard.shell)
    BY <1>1 DEF WireInv, UpInv
  <2>2. Hears(before, toShell, sidecar.serving, sidecar.stopping, heard.sidecar)
    <3>1. /\ toShell \in PipeOf(UpLines) /\ sidecar.serving \in SUBSET Calls
          /\ sidecar.stopping \in BOOLEAN /\ heard.sidecar \in Seq(Int)
      BY <1>1 DEF WireTypes
    <3> QED BY <1>1, <2>1, <3>1 DEF Hears, Hearer
  <2>3. HearInv(before) /\ before.heard = heard.sidecar
    <3> HIDE DEF before
    <3> QED BY <2>2, HearsIs
  <2>4. sidecar.buffer \in Seq(Nat)
    BY <1>1 DEF WireTypes
  <2>5. DOMAIN start = {"line", "s"} /\ start.line = sidecar.buffer /\ start.s = before
        /\ start = [line |-> start.line, s |-> start.s]
    <3> HIDE DEF before
    <3> QED OBVIOUS
  <2> HIDE DEF start, before
  <2> QED BY <1>6, <2>3, <2>4, <2>5 DEF CellInv
<1>11. CellInv(after, st, at + k)
  <2> HIDE DEF start, chunk
  <2>1. CellInv(Handled(start, chunk), st, at + Len(chunk))
    BY <1>1, <1>6, <1>7, <1>8, <1>9, <1>10, ChunkKept
  <2> QED BY <1>8, <2>1
<1> HIDE DEF before, start, chunk, after
<1>12. /\ after.line \in Seq(Nat) /\ after.line = Cells(Len(t.heard) + 1, Len(after.line))
       /\ Place(st, N, Len(t.heard), Len(after.line), at + k)
       /\ t.up \in PipeOf(UpLines) /\ t.serving \in SUBSET Calls /\ t.stopping \in BOOLEAN /\ t.heard \in Seq(Int)
       /\ Numbers(t.heard) /\ Books(t.up.lines, t.serving, t.stopping, Len(t.heard))
       /\ Reads(t.up, reader, TRUE, heard.shell)
       /\ sidecar.stopping => t.stopping
  BY <1>11 DEF CellInv, HearInv, Hears
<1> HIDE DEF t
<1>13. SidecarIs(sidecar', after.line, t.serving, t.stopping, sidecar.there)
  <2>1. sidecar \in Sidecars
    BY <1>1 DEF WireTypes, Sidecars
  <2> QED BY <1>5, <1>12, <2>1, SidecarGets
<1>14. /\ heard' \in [sidecar : Seq(Int), shell : Seq(Int)]
       /\ heard'.sidecar = t.heard /\ heard'.shell = heard.shell
  <2>1. heard \in [sidecar : Seq(Int), shell : Seq(Int)]
    BY <1>1 DEF WireTypes
  <2> QED BY <1>5, <1>12, <2>1
<1>15. /\ toSidecar' \in PipeOf(DownLines) /\ toSidecar'.lines = toSidecar.lines
       /\ toSidecar'.cells = SubSeq(toSidecar.cells, k + 1, Len(toSidecar.cells))
       /\ toShell' = t.up
       /\ sidecar' \in Sidecars /\ sidecar'.buffer = after.line /\ sidecar'.serving = t.serving
       /\ sidecar'.stopping = t.stopping /\ sidecar'.there = TRUE
  BY <1>1, <1>2, <1>5, <1>8, <1>13 DEF PipeIs, SidecarIs
<1>16. WireTypes'
  BY <1>1, <1>12, <1>14, <1>15 DEF WireTypes, QuotaOK, Sidecars
<1>17. DownInv'
  <2> DEFINE Y == SubSeq(toSidecar.cells, k + 1, Len(toSidecar.cells))
             L == Len(toSidecar.cells)
  <2>1. Shown(Y, at + k, st, N)
    <3>1. L <= L /\ k <= L /\ k \in Nat /\ L \in Nat
      BY <1>2, <1>7
    <3> HIDE DEF N
    <3> QED BY <1>6, <1>7, <3>1, ShownPiece
  <2>2. at + k + Len(Y) = st[N + 1]
    <3>1. Len(Y) = L - k /\ at + L = st[N + 1] /\ L \in Nat
      BY <1>6, <1>7, <1>8
    <3> HIDE DEF L, Y, N
    <3>2. at + k + (L - k) = at + L
      BY <1>7, <3>1
    <3> QED BY <3>1, <3>2
  <2> HIDE DEF Y
  <2>3. Down(toSidecar', sidecar'.buffer, heard'.sidecar, st, at + k)
    <3>1. Whole(toSidecar', st)
      BY <1>6, <1>15 DEF Whole
    <3> QED BY <1>12, <1>14, <1>15, <2>1, <2>2, <3>1 DEF Down, Y
  <2> QED BY <2>3 DEF DownInv
<1>18. UpInv'
  <2>1. ~reader.ended /\ UNCHANGED reader
    BY <1>1 DEF WireInv, UpInv
  <2> QED BY <1>12, <1>14, <1>15, <2>1 DEF UpInv
<1>19. BooksInv'
  <2>1. AskedOnce' /\ Unsaid'
    BY <1>1, <1>15 DEF AskedOnce, Unsaid
  <2>2. Len(t.heard) <= N
    <3>1. Len(t.heard) \in 0..N
      BY <1>12 DEF Place
    <3> HIDE DEF N
    <3> QED BY <1>7, <3>1
  <2>3. Books(toShell.lines, sidecar.serving, sidecar.stopping, Len(heard.sidecar))'
    <3>0. PICK lines, serving, stopping, n :
            /\ lines = t.up.lines /\ serving = t.serving /\ stopping = t.stopping /\ n = Len(t.heard)
      OBVIOUS
    <3>1. Books(lines, serving, stopping, n)
      BY <1>12, <3>0
    <3>2. /\ toShell'.lines = lines /\ sidecar'.serving = serving /\ sidecar'.stopping = stopping
          /\ Len(heard'.sidecar) = n /\ toSidecar'.lines = toSidecar.lines /\ calls' = calls
      BY <1>1, <1>14, <1>15, <3>0
    <3>3. InHand(toShell.lines, sidecar.serving, Len(heard.sidecar))'
      BY <3>1, <3>2 DEF Books, InHand, Untold, Silent
    <3>4. Owed(toShell.lines, Len(heard.sidecar))'
      BY <3>1, <3>2 DEF Books, Owed, Untold, Silent
    <3>5. Answered(toShell.lines, sidecar.stopping)'
      BY <3>1, <3>2 DEF Books, Answered
    <3> QED BY <3>3, <3>4, <3>5 DEF Books
  <2> QED BY <1>12, <1>14, <1>15, <2>1, <2>2, <2>3 DEF BooksInv
<1>20. AnswersAreTrue'
  BY <1>1, <1>12, <1>15 DEF AnswersAreTrue
<1> QED BY <1>16, <1>17, <1>18, <1>19, <1>20 DEF WireInv

-----------------------------------------------------------------------------
(* The wire: the other steps.                                              *)

LEMMA QuotaStays ==
  ASSUME QuotaOK, NEW what \in {"asks", "controls", "deaths"}, Quota(what)
  PROVE  QuotaOK'
BY DEF QuotaOK, Quota

LEMMA ReadingKeeps == ASSUME WireInv, Reading, UpInv' PROVE WireInv'
<1>1. WireTypes' /\ BooksInv' /\ AnswersAreTrue'
  BY PassingKeeps DEF WireInv
<1>2. UNCHANGED <<toSidecar, sidecar>> /\ heard'.sidecar = heard.sidecar
  <2>1. ASSUME NEW m, Passing(m) PROVE heard'.sidecar = heard.sidecar
    BY <2>1, HeardIs DEF Passing, WireInv, WireTypes
  <2> QED BY <2>1 DEF Reading
<1>3. DownInv'
  BY <1>2 DEF WireInv, DownInv, Down
<1> QED BY <1>1, <1>3 DEF WireInv

LEMMA NoticeGoneKeeps == ASSUME WireInv, NoticeGone PROVE WireInv'
<1>1. WireTypes' /\ BooksInv' /\ AnswersAreTrue'
  BY NoticeKeeps DEF WireInv
<1>2. UNCHANGED <<toSidecar, toShell, sidecar, reader, heard, quota>>
  BY Zenon DEF NoticeGone
<1>3. DownInv' /\ UpInv'
  BY <1>2 DEF WireInv, DownInv, Down, UpInv, Ended, Reads, Up
<1> QED BY <1>1, <1>3 DEF WireInv

\* A line that is written to the sidecar.
WrittenOr(l) ==
  \/ UNCHANGED toSidecar
  \/ sidecar.there /\ toSidecar' = Wrote(toSidecar, l)
KnownStay == \A c \in Calls : calls[c].at # "idle" => calls'[c] = calls[c]
NewCall(l) ==
  l.kind = "request" =>
    /\ calls[l.call].at = "idle" /\ calls'[l.call].at = "waiting" /\ calls'[l.call].said = "nothing"
    /\ calls'[l.call].request = l.request /\ ShellTakes(l.request)

LEMMA WrittenTo ==
  ASSUME WireTypes, NEW l \in DownLines, WrittenOr(l)
  PROVE  /\ toSidecar' \in PipeOf(DownLines)
         /\ \/ toSidecar'.lines = toSidecar.lines
            \/ sidecar.there /\ toSidecar'.lines = Append(toSidecar.lines, l)
<1>1. toSidecar \in PipeOf(DownLines) /\ l.size \in Sizes
  BY LinesAre DEF WireTypes
<1>2. Wrote(toSidecar, l) \in PipeOf(DownLines) /\ Wrote(toSidecar, l).lines = Append(toSidecar.lines, l)
  BY <1>1, WroteIs
<1> QED BY <1>1, <1>2 DEF WrittenOr

LEMMA WrittenDown ==
  ASSUME WireTypes, DownInv, NEW l \in DownLines, WrittenOr(l), UNCHANGED <<sidecar, heard>>
  PROVE  DownInv'
<1>1. CASE UNCHANGED toSidecar
  BY <1>1 DEF DownInv, Down
<1>2. CASE sidecar.there /\ toSidecar' = Wrote(toSidecar, l)
  <2>1. PICK st, at : Down(toSidecar, sidecar.buffer, heard.sidecar, st, at)
    BY <1>2 DEF DownInv
  <2>2. toSidecar \in PipeOf(DownLines) /\ sidecar.buffer \in Seq(Nat) /\ heard.sidecar \in Seq(Int)
    BY DEF WireTypes
  <2>3. Down(Wrote(toSidecar, l), sidecar.buffer, heard.sidecar, Higher(st, Len(toSidecar.lines), l.size), at)
    BY <2>1, <2>2, DownWrote
  <2> QED BY <1>2, <2>3 DEF DownInv
<1> QED BY <1>1, <1>2 DEF WrittenOr

LEMMA WrittenBooks ==
  ASSUME WireTypes, BooksInv, NEW l \in DownLines, WrittenOr(l), UNCHANGED <<toShell, sidecar, heard>>,
         KnownStay, Unsaid', sidecar.there => NewCall(l) \/ UNCHANGED toSidecar
  PROVE  BooksInv'
<1> DEFINE down == toSidecar.lines
           N == Len(down)
           n == Len(heard.sidecar)
           up == toShell.lines
           more == toSidecar'.lines
<1>1. /\ DOMAIN down = 1..N /\ N \in Nat /\ n \in Nat /\ n <= N
      /\ \A i \in DOMAIN down : down[i].kind = "request" => down[i].call \in Calls
      /\ \A j \in DOMAIN up : up[j].kind = "response" => up[j].call \in Calls
      /\ sidecar.serving \subseteq Calls
  <2>1. n \in Nat /\ n <= N /\ sidecar.serving \subseteq Calls
    BY DEF WireTypes, BooksInv
  <2> QED BY <2>1, LineOf
<1>2. \/ more = down
      \/ /\ sidecar.there /\ NewCall(l) /\ DOMAIN more = 1..N + 1 /\ Len(more) = N + 1
         /\ \A i \in 1..N : more[i] = down[i]
         /\ more[N + 1] = l
  <2>1. CASE more = down
    BY <2>1
  <2>2. CASE sidecar.there /\ more = Append(down, l) /\ more # down
    <3>1. down \in Seq(DownLines)
      BY DEF WireTypes, PipeOf
    <3>2. NewCall(l)
      BY <2>2
    <3> HIDE DEF down
    <3> QED BY <2>2, <3>1, <3>2, LongerList
  <2> QED BY <2>1, <2>2, WrittenTo
<1>3. AskedOnce /\ Unsaid /\ Numbers(heard.sidecar)
  BY DEF BooksInv
<1>4. \A i \in 1..N : down[i].kind = "request" => /\ calls[down[i].call].at # "idle"
                                                  /\ calls'[down[i].call] = calls[down[i].call]
  BY <1>1, <1>3 DEF AskedOnce, KnownStay
<1>5. l.kind = "request" => l.call \in Calls
  BY LinesAre
<1>6. Answered(up, sidecar.stopping)
  BY DEF BooksInv, Books
<1>7. Answered(up, sidecar.stopping)'
  BY <1>1, <1>6 DEF Answered, KnownStay
<1>8. \A c \in Calls : Untold(c, up) => Untold(c, up)'
  BY DEF Untold, KnownStay, Silent
<1>9. sidecar.there /\ NewCall(l) /\ l.kind = "request" => Untold(l.call, up)'
  <2>1. ASSUME NewCall(l), l.kind = "request" PROVE Silent(l.call, up)
    BY <1>6, <2>1 DEF Answered, Silent, NewCall
  <2> QED BY <2>1 DEF Untold, Silent, NewCall
<1>10. AskedOnce'
  <2>1. CASE more = down
    BY <1>1, <1>3, <1>4, <2>1 DEF AskedOnce
  <2>2. CASE /\ sidecar.there /\ NewCall(l) /\ DOMAIN more = 1..N + 1
             /\ \A i \in 1..N : more[i] = down[i]
             /\ more[N + 1] = l
    <3>1. \A i \in 1..N + 1 : i \in 1..N \/ i = N + 1
      BY <1>1
    <3>2. ASSUME NEW i \in 1..N + 1, more[i].kind = "request"
          PROVE  LET c == more[i].call
                 IN  /\ calls'[c].at # "idle" /\ calls'[c].request = more[i].request
                     /\ ShellTakes(calls'[c].request)
                     /\ \A j \in 1..N + 1 : more[j].kind = "request" /\ more[j].call = c => j = i
      <4> DEFINE c == more[i].call
      <4>1. CASE i \in 1..N
        <5>1. /\ calls[c].at # "idle" /\ calls'[c] = calls[c] /\ calls[c].request = more[i].request
              /\ ShellTakes(calls[c].request)
              /\ \A j \in 1..N : more[j].kind = "request" /\ more[j].call = c => j = i
          BY <1>1, <1>3, <1>4, <2>2, <3>2, <4>1 DEF AskedOnce
        <5>2. more[N + 1].kind = "request" => more[N + 1].call # c
          BY <2>2, <5>1 DEF NewCall
        <5> QED BY <3>1, <5>1, <5>2
      <4>2. CASE i = N + 1
        <5>1. /\ calls[c].at = "idle" /\ calls'[c].at = "waiting" /\ calls'[c].request = more[i].request
              /\ ShellTakes(calls'[c].request)
          BY <2>2, <3>2, <4>2 DEF NewCall
        <5>2. \A j \in 1..N : more[j].kind = "request" => more[j].call # c
          BY <1>4, <2>2, <5>1
        <5> QED BY <3>1, <4>2, <5>1, <5>2
      <4> QED BY <3>1, <4>1, <4>2
    <3> HIDE DEF more
    <3> QED BY <2>2, <3>2 DEF AskedOnce, more
  <2> QED BY <1>2, <2>1, <2>2
<1>11. n <= Len(more)
  BY <1>1, <1>2
<1>12. CASE sidecar.there
  <2>1. InHand(up, sidecar.serving, n) /\ Owed(up, n)
    BY <1>12 DEF BooksInv, Books
  <2>2. InHand(up, sidecar.serving, n)'
    <3>1. ASSUME NEW c \in sidecar.serving
          PROVE  Untold(c, up)' /\ \E i \in 1..n : more[i].kind = "request" /\ more[i].call = c
      <4>1. PICK i \in 1..n : down[i].kind = "request" /\ down[i].call = c
        BY <2>1 DEF InHand
      <4>2. more[i] = down[i]
        <5>1. i \in 1..N
          <6> HIDE DEF n, N
          <6> QED BY <1>1
        <5> QED BY <1>2, <5>1
      <4> QED BY <1>1, <1>8, <2>1, <4>1, <4>2 DEF InHand
    <3> QED BY <3>1 DEF InHand
  <2>3. Owed(up, n)'
    <3>1. ASSUME NEW i \in n + 1..Len(more), more[i].kind = "request", NEW c, c = more[i].call
          PROVE  Untold(c, up)'
      <4>1. CASE i \in 1..N /\ more[i] = down[i]
        <5>1. i \in n + 1..N
          <6> HIDE DEF n, N, more
          <6> QED BY <1>1, <4>1
        <5>2. down[i].kind = "request" /\ down[i].call = c
          BY <3>1, <4>1
        <5>3. Untold(c, up) /\ c \in Calls
          BY <1>1, <2>1, <4>1, <5>1, <5>2 DEF Owed
        <5> QED BY <1>8, <5>3
      <4>2. CASE more[i] = l /\ NewCall(l)
        <5>1. l.kind = "request" /\ l.call = c
          BY <3>1, <4>2
        <5> QED BY <1>9, <1>12, <4>2, <5>1
      <4>3. \/ i \in 1..N /\ more[i] = down[i]
            \/ more[i] = l /\ NewCall(l)
        <5>1. CASE more = down
          <6>1. i \in 1..N
            <7> HIDE DEF n, N, down
            <7> QED BY <1>1, <5>1 DEF N
          <6> QED BY <5>1, <6>1
        <5>2. CASE /\ NewCall(l) /\ Len(more) = N + 1
                   /\ \A k \in 1..N : more[k] = down[k]
                   /\ more[N + 1] = l
          <6>1. i \in 1..N \/ i = N + 1
            <7> HIDE DEF n, N, more
            <7> QED BY <1>1, <5>2
          <6> QED BY <5>2, <6>1
        <5> QED BY <1>2, <5>1, <5>2
      <4> QED BY <4>1, <4>2, <4>3
    <3>2. \A i \in n + 1..Len(more) : \A c : more[i].kind = "request" /\ c = more[i].call => Untold(c, up)'
      BY <3>1
    <3> QED BY <3>2 DEF Owed
  <2>4. Books(toShell.lines, sidecar.serving, sidecar.stopping, Len(heard.sidecar))'
    BY <1>7, <2>2, <2>3 DEF Books
  <2> QED BY <1>3, <1>10, <1>11, <1>12, <2>4 DEF BooksInv
<1>13. CASE ~sidecar.there
  <2>1. sidecar.serving = {}
    BY <1>13 DEF BooksInv
  <2> QED BY <1>3, <1>7, <1>10, <1>11, <1>13, <2>1 DEF BooksInv
<1> QED BY <1>12, <1>13

LEMMA UpSame ==
  ASSUME UpInv, UNCHANGED <<toShell, reader, sidecar, heard>>
  PROVE  UpInv'
BY DEF UpInv, Ended, Reads, Up

LEMMA CallKeeps == ASSUME WireInv, NEW c \in Calls, Call(c) PROVE WireInv'
<1>1. /\ WireTypes /\ DownInv /\ UpInv /\ BooksInv /\ AnswersAreTrue /\ calls \in [Calls -> CallStates]
      /\ calls[c].at = "idle" /\ Quota("asks") /\ UNCHANGED <<toShell, sidecar, reader, heard>>
  BY DEF WireInv, WireTypes, Call
<1>2. PICK r \in quota.requests :
        IF ShellTakes(r)
        THEN /\ calls' = [calls EXCEPT ![c].at = "waiting", ![c].request = r]
             /\ Written([kind |-> "request", call |-> c, request |-> r, size |-> r.size])
        ELSE /\ calls' = [calls EXCEPT ![c].at = "told", ![c].request = r, ![c].told = "bad-request"]
             /\ UNCHANGED toSidecar
  BY Zenon DEF Call
<1>3. r \in AskedFor /\ r.size \in Nat \ {0}
  <2>1. r \in AskedFor
    BY <1>1 DEF WireTypes, QuotaOK
  <2> QED BY <2>1, SizesAssumption DEF AskedFor
<1>4. QuotaOK'
  BY <1>1, QuotaStays DEF WireTypes
<1>5. calls[c].said = "nothing" /\ calls[c] \in CallStates
  BY <1>1 DEF BooksInv, Unsaid
<1>6. UpInv'
  BY <1>1, UpSame
<1>7. CASE ShellTakes(r)
  <2> DEFINE l == [kind |-> "request", call |-> c, request |-> r, size |-> r.size]
  <2>1. l \in DownLines /\ l.kind = "request" /\ l.call = c /\ l.request = r
    <3>1. r.size \in 1..RequestMax
      BY <1>3, <1>7, WireAssumption DEF ShellTakes, LineFits
    <3> QED BY <1>3, <3>1 DEF DownLines
  <2>2. WrittenOr(l)
    BY <1>2, <1>7 DEF Written, WrittenOr
  <2> HIDE DEF l
  <2>3. /\ calls' \in [Calls -> CallStates]
        /\ \A d \in Calls \ {c} : calls'[d] = calls[d]
        /\ calls'[c].at = "waiting" /\ calls'[c].request = r /\ calls'[c].said = "nothing"
    <3>1. calls' = [calls EXCEPT ![c].at = "waiting", ![c].request = r]
      BY <1>2, <1>7
    <3> QED BY <1>1, <1>3, <1>5, <3>1 DEF CallStates
  <2>4. KnownStay /\ Unsaid' /\ NewCall(l)
    BY <1>1, <1>7, <2>1, <2>3 DEF KnownStay, NewCall, BooksInv, Unsaid
  <2>5. toSidecar' \in PipeOf(DownLines)
    BY <1>1, <2>1, <2>2, WrittenTo
  <2>6. WireTypes'
    BY <1>1, <1>4, <2>3, <2>5 DEF WireTypes
  <2>7. DownInv' /\ BooksInv'
    BY <1>1, <2>1, <2>2, <2>4, WrittenDown, WrittenBooks
  <2>8. AnswersAreTrue'
    BY <1>1, <2>3 DEF AnswersAreTrue
  <2> QED BY <1>6, <2>6, <2>7, <2>8 DEF WireInv
<1>8. CASE ~ShellTakes(r)
  <2> DEFINE l == [kind |-> "config", size |-> 1]
  <2>1. l \in DownLines /\ WrittenOr(l) /\ UNCHANGED toSidecar
    BY <1>2, <1>8 DEF DownLines, WrittenOr
  <2> HIDE DEF l
  <2>3. /\ calls' \in [Calls -> CallStates]
        /\ \A d \in Calls \ {c} : calls'[d] = calls[d]
        /\ calls'[c].at = "told" /\ calls'[c].request = r /\ calls'[c].said = "nothing"
        /\ calls'[c].told = "bad-request"
    <3>1. calls' = [calls EXCEPT ![c].at = "told", ![c].request = r, ![c].told = "bad-request"]
      BY <1>2, <1>8
    <3>2. "bad-request" \in Codes
      BY DEF Codes
    <3> QED BY <1>1, <1>3, <1>5, <3>1, <3>2 DEF CallStates
  <2>4. KnownStay /\ Unsaid'
    BY <1>1, <2>3 DEF KnownStay, BooksInv, Unsaid
  <2>6. WireTypes'
    BY <1>1, <1>4, <2>1, <2>3 DEF WireTypes
  <2>7. DownInv' /\ BooksInv'
    BY <1>1, <2>1, <2>4, WrittenDown, WrittenBooks
  <2>8. AnswersAreTrue'
    BY <1>1, <1>8, <2>3 DEF AnswersAreTrue
  <2> QED BY <1>6, <2>6, <2>7, <2>8 DEF WireInv
<1> QED BY <1>7, <1>8

LEMMA ControlKeeps == ASSUME WireInv, ControlLine PROVE WireInv'
<1>1. /\ WireTypes /\ DownInv /\ UpInv /\ BooksInv /\ AnswersAreTrue
      /\ Quota("controls") /\ UNCHANGED <<toShell, sidecar, reader, calls, heard>>
  BY DEF WireInv, ControlLine
<1>2. PICK kind \in {"config", "shutdown"} : Written([kind |-> kind, size |-> 1])
  BY DEF ControlLine
<1> DEFINE l == [kind |-> kind, size |-> 1]
<1>3. l \in DownLines /\ l.kind # "request" /\ WrittenOr(l)
  BY <1>2 DEF DownLines, Written, WrittenOr
<1> HIDE DEF l
<1>4. KnownStay /\ Unsaid' /\ NewCall(l)
  BY <1>1, <1>3 DEF KnownStay, BooksInv, Unsaid, NewCall
<1>5. DownInv' /\ BooksInv'
  BY <1>1, <1>3, <1>4, WrittenDown, WrittenBooks
<1>6. UpInv' /\ AnswersAreTrue'
  BY <1>1, UpSame DEF AnswersAreTrue
<1>7. WireTypes'
  <2>1. QuotaOK'
    BY <1>1, QuotaStays DEF WireTypes
  <2>2. toSidecar' \in PipeOf(DownLines)
    BY <1>1, <1>3, WrittenTo
  <2> QED BY <1>1, <2>1, <2>2 DEF WireTypes
<1> QED BY <1>5, <1>6, <1>7 DEF WireInv

\* A line that is written to the shell.
LEMMA WrittenUp ==
  ASSUME WireTypes, UpInv, sidecar.there, NEW l \in UpLines, toShell' = Wrote(toShell, l),
         UNCHANGED <<reader, heard>>, sidecar'.there = TRUE
  PROVE  /\ toShell' \in PipeOf(UpLines) /\ toShell'.lines = Append(toShell.lines, l)
         /\ UpInv'
<1>1. toShell \in PipeOf(UpLines) /\ reader \in Readers /\ heard.shell \in Seq(Int) /\ sidecar.there = TRUE
      /\ l.size \in Sizes
  BY LinesAre DEF WireTypes
<1>2. ~reader.ended /\ Reads(toShell, reader, TRUE, heard.shell)
  BY <1>1 DEF UpInv
<1>3. Reads(Wrote(toShell, l), reader, TRUE, heard.shell)
  BY <1>1, <1>2, UpWrote
<1>4. Wrote(toShell, l) \in PipeOf(UpLines) /\ Wrote(toShell, l).lines = Append(toShell.lines, l)
  BY <1>1, WroteIs
<1> QED BY <1>2, <1>3, <1>4 DEF UpInv

LEMMA SpeakKeeps == ASSUME WireInv, SpeakUnasked PROVE WireInv'
<1>1. /\ WireTypes /\ DownInv /\ UpInv /\ BooksInv /\ AnswersAreTrue
      /\ sidecar.there /\ UNCHANGED <<toSidecar, sidecar, reader, calls, heard>>
  BY DEF WireInv, SpeakUnasked
<1>2. PICK size \in quota.sizes :
        /\ toShell' = Wrote(toShell, [kind |-> "other", size |-> size])
        /\ quota' = [quota EXCEPT !.sizes = @ \ {size}]
  BY DEF SpeakUnasked
<1> DEFINE l == [kind |-> "other", size |-> size]
<1>3. l \in UpLines /\ l.kind # "response"
  BY <1>1 DEF UpLines, WireTypes, QuotaOK
<1>4. QuotaOK'
  BY <1>1, <1>2 DEF WireTypes, QuotaOK
<1>5. toShell' = Wrote(toShell, l)
  BY <1>2
<1> HIDE DEF l
<1>6. /\ toShell' \in PipeOf(UpLines) /\ toShell'.lines = Append(toShell.lines, l)
      /\ UpInv'
  <2>1. sidecar'.there = TRUE
    BY <1>1 DEF WireTypes
  <2> QED BY <1>1, <1>3, <1>5, <2>1, WrittenUp
<1>7. BooksInv'
  <2>1. Books(toShell.lines, sidecar.serving, sidecar.stopping, Len(heard.sidecar)) /\ toShell.lines \in Seq(UpLines)
    BY <1>1 DEF BooksInv, WireTypes, PipeOf
  <2>2. Books(Append(toShell.lines, l), sidecar.serving, sidecar.stopping, Len(heard.sidecar))
    BY <1>3, <2>1, SpokenBooks
  <2>3. Books(toShell.lines, sidecar.serving, sidecar.stopping, Len(heard.sidecar))'
    BY <1>1, <1>6, <2>2 DEF Books, InHand, Owed, Answered, Untold, Silent
  <2>4. AskedOnce' /\ Unsaid'
    BY <1>1 DEF BooksInv, AskedOnce, Unsaid
  <2> QED BY <1>1, <2>3, <2>4 DEF BooksInv
<1>8. WireTypes' /\ DownInv' /\ AnswersAreTrue'
  BY <1>1, <1>4, <1>6 DEF WireTypes, DownInv, Down, AnswersAreTrue
<1> QED BY <1>6, <1>7, <1>8 DEF WireInv

LEMMA EndsKeeps == ASSUME WireInv, ProcessEnds PROVE WireInv'
<1>1. /\ WireTypes /\ DownInv /\ UpInv /\ BooksInv /\ AnswersAreTrue
      /\ sidecar.there = TRUE /\ UNCHANGED <<reader, calls, heard>>
      /\ toSidecar \in PipeOf(DownLines) /\ toShell \in PipeOf(UpLines) /\ sidecar \in Sidecars
      /\ reader \in Readers /\ heard.shell \in Seq(Int)
  BY DEF WireInv, WireTypes, Sidecars, ProcessEnds
<1>2. PICK k \in 0..Len(toShell.cells) : toShell' = StartOf(toShell, k)
  BY DEF ProcessEnds, StartOf
<1>3. k \in Nat /\ k <= Len(toShell.cells)
  <2>1. Len(toShell.cells) \in Nat
    BY <1>1 DEF PipeOf
  <2> QED BY <2>1
<1>4. toShell' \in PipeOf(UpLines) /\ toShell'.lines = toShell.lines
  BY <1>1, <1>2, <1>3, RestIs DEF PipeIs
<1>5. QuotaOK'
  <2>1. CASE UNCHANGED quota
    BY <1>1, <2>1 DEF WireTypes, QuotaOK
  <2>2. CASE Quota("deaths")
    BY <1>1, <2>2, QuotaStays DEF WireTypes
  <2> QED BY <2>1, <2>2 DEF ProcessEnds
<1>6. toSidecar' \in PipeOf(DownLines) /\ toSidecar'.lines = toSidecar.lines
  <2> DEFINE none == <<>>
  <2>1. toSidecar' = [toSidecar EXCEPT !.cells = none] /\ none \in Seq(Nat)
    BY DEF ProcessEnds
  <2> HIDE DEF none
  <2> QED BY <1>1, <2>1 DEF PipeOf
<1>7. /\ sidecar' \in Sidecars /\ sidecar'.there = FALSE /\ sidecar'.serving = {}
      /\ sidecar'.stopping = sidecar.stopping
  <2> DEFINE none == <<>>
             nobody == {}
             no == FALSE
  <2>1. sidecar' = [[[sidecar EXCEPT !.there = no] EXCEPT !.serving = nobody] EXCEPT !.buffer = none]
    BY DEF ProcessEnds
  <2>2. none \in Seq(Nat) /\ nobody \in SUBSET Calls /\ no \in BOOLEAN
    OBVIOUS
  <2>3. PICK b, c, d, e : sidecar = [buffer |-> b, serving |-> c, stopping |-> d, there |-> e]
    BY <1>1 DEF Sidecars
  <2>4. sidecar.stopping = d /\ d \in BOOLEAN
    BY <1>1, <2>3 DEF Sidecars
  <2> HIDE DEF none, nobody, no
  <2> DEFINE s1 == [sidecar EXCEPT !.there = no]
             s2 == [s1 EXCEPT !.serving = nobody]
  <2>5. s1 = [buffer |-> b, serving |-> c, stopping |-> d, there |-> no]
    BY <2>3
  <2>6. sidecar' = [s2 EXCEPT !.buffer = none]
    BY <2>1
  <2> HIDE DEF s1
  <2>7. s2 = [buffer |-> b, serving |-> nobody, stopping |-> d, there |-> no]
    BY <2>5
  <2> HIDE DEF s2
  <2>8. sidecar' = [buffer |-> none, serving |-> nobody, stopping |-> d, there |-> no]
    BY <2>6, <2>7
  <2>9. /\ sidecar' \in Sidecars /\ sidecar'.there = no /\ sidecar'.serving = nobody
        /\ sidecar'.stopping = d
    BY <2>2, <2>4, <2>8 DEF Sidecars
  <2> QED BY <2>4, <2>9 DEF no, nobody
<1>8. UpInv'
  <2>1. ~reader.ended /\ Reads(toShell, reader, TRUE, heard.shell)
    BY <1>1 DEF UpInv
  <2>2. Reads(StartOf(toShell, k), reader, FALSE, heard.shell)
    BY <1>1, <1>3, <2>1, CutOff
  <2> QED BY <1>1, <1>2, <1>7, <2>1, <2>2 DEF UpInv
<1>9. BooksInv'
  <2>1. AskedOnce' /\ Unsaid' /\ Answered(toShell.lines, sidecar.stopping)'
    BY <1>1, <1>4, <1>6, <1>7 DEF BooksInv, Books, AskedOnce, Unsaid, Answered
  <2> QED BY <1>1, <1>6, <1>7, <2>1 DEF BooksInv
<1>10. WireTypes' /\ DownInv'
  BY <1>1, <1>4, <1>5, <1>6, <1>7 DEF WireTypes, DownInv, Sidecars
<1>11. AnswersAreTrue'
  BY <1>1, <1>7 DEF AnswersAreTrue
<1> QED BY <1>8, <1>9, <1>10, <1>11 DEF WireInv

LEMMA ServeKeeps == ASSUME WireInv, NEW c \in Calls, Serve(c) PROVE WireInv'
<1> DEFINE up == toShell.lines
           down == toSidecar.lines
           n == Len(heard.sidecar)
           N == Len(up)
<1>1. /\ WireTypes /\ DownInv /\ UpInv /\ BooksInv /\ AnswersAreTrue /\ calls \in [Calls -> CallStates]
      /\ sidecar.there = TRUE /\ c \in sidecar.serving /\ UNCHANGED <<toSidecar, reader, heard, quota>>
      /\ sidecar' = [sidecar EXCEPT !.serving = @ \ {c}] /\ sidecar \in Sidecars
  BY DEF WireInv, WireTypes, Sidecars, Serve
<1>2. PICK v \in Verdicts \cup {[code |-> "bad-response", size |-> 1]} :
        /\ toShell' = Wrote(toShell, Encoded(c, v.code, v.size))
        /\ calls' = [calls EXCEPT ![c].said = IF v.size + 1 > MaxLine THEN "too-large" ELSE v.code]
  BY DEF Serve
<1> DEFINE l == Encoded(c, v.code, v.size)
           code == IF v.size + 1 > MaxLine THEN "too-large" ELSE v.code
<1>3. l \in UpLines /\ l.kind = "response" /\ l.call = c /\ l.code = code /\ code \in Codes
  <2>1. v.size \in Nat \ {0} /\ v.code \in Codes /\ "too-large" \in Codes
    BY SizesAssumption DEF Codes
  <2>2. PICK M \in Nat, size \in Nat \ {0} : M = MaxLine /\ size = v.size
    BY <2>1, WireAssumption
  <2>3. CASE size + 1 <= M
    <3>1. l = [kind |-> "response", call |-> c, code |-> v.code, size |-> v.size] /\ code = v.code
      BY <2>2, <2>3 DEF Encoded
    <3> HIDE DEF l, code
    <3> QED BY <2>1, <3>1 DEF UpLines, Sizes
  <2>4. CASE ~(size + 1 <= M)
    <3>1. l = [kind |-> "response", call |-> c, code |-> "too-large", size |-> 1] /\ code = "too-large"
      BY <2>2, <2>4 DEF Encoded
    <3> HIDE DEF l, code
    <3> QED BY <2>1, <3>1 DEF UpLines, Sizes
  <2> QED BY <2>3, <2>4
<1>4. toShell' = Wrote(toShell, l) /\ calls' = [calls EXCEPT ![c].said = code]
  BY <1>2
<1> HIDE DEF l, code
<1>5. /\ calls' \in [Calls -> CallStates]
      /\ \A d \in Calls \ {c} : calls'[d] = calls[d]
      /\ calls'[c].said = code /\ calls'[c].at = calls[c].at /\ calls'[c].request = calls[c].request
  BY <1>1, <1>3, <1>4 DEF CallStates
<1>6. /\ sidecar' \in Sidecars /\ sidecar'.there = TRUE /\ sidecar'.serving = sidecar.serving \ {c}
      /\ sidecar'.stopping = sidecar.stopping /\ sidecar'.buffer = sidecar.buffer
  BY <1>1 DEF Sidecars
<1>7. toShell' \in PipeOf(UpLines) /\ toShell'.lines = Append(up, l) /\ UpInv'
  BY <1>1, <1>3, <1>4, <1>6, WrittenUp
<1>a. PICK more : more = toShell'.lines
  OBVIOUS
<1>8. /\ AskedOnce /\ Unsaid /\ InHand(up, sidecar.serving, n) /\ Owed(up, n) /\ Answered(up, sidecar.stopping)
      /\ Numbers(heard.sidecar) /\ n <= Len(down)
  BY <1>1 DEF BooksInv, Books
<1>9. Untold(c, up) /\ \E i \in 1..n : down[i].kind = "request" /\ down[i].call = c
  BY <1>1, <1>8 DEF InHand
<1>10. /\ DOMAIN down = 1..Len(down) /\ Len(down) \in Nat /\ n \in Nat
       /\ \A i \in DOMAIN down : down[i].kind = "request" => down[i].call \in Calls
       /\ \A j \in DOMAIN up : up[j].kind = "response" => up[j].call \in Calls
       /\ DOMAIN up = 1..N /\ N \in Nat /\ sidecar.serving \subseteq Calls
  <2>1. n \in Nat /\ sidecar.serving \subseteq Calls
    BY <1>1 DEF WireTypes
  <2> QED BY <1>1, <2>1, LineOf
<1>11. /\ DOMAIN more = 1..N + 1 /\ \A j \in 1..N : more[j] = up[j]
       /\ more[N + 1] = l
  <2>1. up \in Seq(UpLines) /\ more = Append(up, l)
    BY <1>1, <1>7, <1>a DEF WireTypes, PipeOf
  <2> HIDE DEF up
  <2> QED BY <1>3, <2>1, LongerList DEF N
<1>12. \A j \in 1..N + 1 : j \in 1..N \/ j = N + 1
  BY <1>10
<1>b. \A d \in Calls : calls'[d].at = calls[d].at /\ calls'[d].request = calls[d].request
  BY <1>5
<1>13. ASSUME NEW d \in Calls \ {c}, Untold(d, toShell.lines) PROVE Untold(d, toShell.lines)'
  <2>1. Silent(d, up) /\ calls[d].at = "waiting" /\ calls[d].said = "nothing"
    BY <1>13 DEF Untold
  <2>2. Silent(d, more)
    BY <1>3, <1>10, <1>11, <1>12, <2>1 DEF Silent
  <2> QED BY <1>5, <1>a, <2>1, <2>2 DEF Untold, Silent
<1>14. Answered(toShell.lines, sidecar.stopping)'
  <2>1. ASSUME NEW j \in DOMAIN more, more[j].kind = "response", NEW d, d = more[j].call
        PROVE  /\ calls'[d].at # "idle"
               /\ more[j].code = calls'[d].said \/ (more[j].code = "sidecar-unavailable" /\ sidecar.stopping)
    <3>1. CASE j \in 1..N
      <4>1. up[j].kind = "response" /\ up[j].call = d /\ more[j].code = up[j].code /\ j \in DOMAIN up /\ d \in Calls
        BY <1>10, <1>11, <2>1, <3>1
      <4>2. d # c
        BY <1>9, <4>1 DEF Untold, Silent
      <4>3. /\ calls[d].at # "idle"
            /\ up[j].code = calls[d].said \/ (up[j].code = "sidecar-unavailable" /\ sidecar.stopping)
        BY <1>8, <4>1 DEF Answered
      <4> QED BY <1>5, <4>1, <4>2, <4>3
    <3>2. CASE j = N + 1
      <4>1. d = c /\ more[j].code = code /\ calls[c].at = "waiting"
        BY <1>3, <1>9, <1>11, <2>1, <3>2 DEF Untold
      <4> QED BY <1>5, <4>1
    <3> QED BY <1>11, <1>12, <3>1, <3>2
  <2>2. \A j \in DOMAIN more : \A d : more[j].kind = "response" /\ d = more[j].call =>
          /\ calls'[d].at # "idle"
          /\ more[j].code = calls'[d].said \/ (more[j].code = "sidecar-unavailable" /\ sidecar.stopping)
    BY <2>1
  <2> QED BY <1>6, <1>a, <2>2 DEF Answered
<1>15. AskedOnce' /\ Unsaid'
  <2>1. AskedOnce'
    BY <1>1, <1>8, <1>10, <1>b DEF AskedOnce
  <2>2. calls[c].at = "waiting"
    BY <1>9 DEF Untold
  <2> QED BY <1>5, <1>8, <2>1, <2>2 DEF Unsaid
<1>16. InHand(toShell.lines, sidecar.serving, Len(heard.sidecar))'
  <2>1. ASSUME NEW d \in sidecar.serving \ {c}
        PROVE  Untold(d, toShell.lines)' /\ \E i \in 1..n : down[i].kind = "request" /\ down[i].call = d
    <3>1. d \in Calls \ {c} /\ Untold(d, up)
      BY <1>8, <1>10 DEF InHand
    <3> QED BY <1>8, <1>13, <3>1 DEF InHand
  <2> QED BY <1>1, <1>6, <2>1 DEF InHand
<1>17. Owed(toShell.lines, Len(heard.sidecar))'
  <2>1. ASSUME NEW i \in n + 1..Len(down), down[i].kind = "request", NEW d, d = down[i].call
        PROVE  Untold(d, toShell.lines)'
    <3>1. PICK k \in 1..n : down[k].kind = "request" /\ down[k].call = c
      BY <1>9
    <3>2. i \in DOMAIN down /\ k \in DOMAIN down /\ k # i
      <4> HIDE DEF n, down
      <4> QED BY <1>8, <1>10
    <3>3. d # c
      BY <1>8, <2>1, <3>1, <3>2 DEF AskedOnce
    <3>4. d \in Calls /\ Untold(d, up)
      BY <1>8, <1>10, <2>1, <3>2 DEF Owed
    <3> QED BY <1>13, <3>3, <3>4
  <2>2. \A i \in n + 1..Len(down) : \A d : down[i].kind = "request" /\ d = down[i].call => Untold(d, toShell.lines)'
    BY <2>1
  <2> QED BY <1>1, <2>2 DEF Owed
<1>18. BooksInv'
  <2>1. Books(toShell.lines, sidecar.serving, sidecar.stopping, Len(heard.sidecar))'
    BY <1>14, <1>16, <1>17 DEF Books
  <2> QED BY <1>1, <1>6, <1>8, <1>15, <2>1 DEF BooksInv
<1>19. WireTypes' /\ DownInv'
  BY <1>1, <1>5, <1>6, <1>7 DEF WireTypes, QuotaOK, DownInv, Down, Sidecars
<1>20. AnswersAreTrue'
  <2>1. calls[c].at = "waiting"
    BY <1>9 DEF Untold
  <2> QED BY <1>1, <1>5, <1>6, <2>1 DEF AnswersAreTrue
<1> QED BY <1>7, <1>18, <1>19, <1>20 DEF WireInv

-----------------------------------------------------------------------------
(* The wire: from the start, and what it comes to.                         *)

LEMMA NothingYet ==
  ASSUME NEW none, none = <<>>, NEW pipe, pipe.cells = none, pipe.lines = none,
         NEW r, r.chunk = none, r.line = none, r.oversize = FALSE
  PROVE  /\ \E st, at : Down(pipe, none, none, st, at)
         /\ Reads(pipe, r, TRUE, none)
<1> DEFINE st == [i \in 1..1 |-> 0]
<1>1. Len(none) = 0 /\ none = Cells(1, 0) /\ DOMAIN none = 1..0 /\ none = Cells(Len(none) + 1, 0)
  BY NoCells
<1>2. Ladder(st, 0) /\ st[0 + 1] = 0 /\ st[1] = 0
  BY DEF Ladder
<1> HIDE DEF st
<1>3. Shown(none, 0, st, 0) /\ Place(st, 0, 0, 0, 0)
  BY <1>1, <1>2 DEF Shown, Place
<1>4. Whole(pipe, st)
  BY <1>1, <1>2 DEF Whole
<1>5. Down(pipe, none, none, st, 0)
  BY <1>1, <1>2, <1>3, <1>4 DEF Down
<1>6. MaxLine >= 0 /\ 0 + Len(none) = 0 /\ 0 + Len(none) + Len(none) = 0 /\ ~(1 \in DOMAIN none)
  BY <1>1, WireAssumption
<1>7. Marks(none, none)
  BY <1>1 DEF Marks
<1>8. Up(pipe, r, TRUE, none, st, 0, 0)
  BY <1>1, <1>2, <1>3, <1>4, <1>6, <1>7 DEF Up
<1> QED BY <1>5, <1>8 DEF Reads

LEMMA WireInit == InitWire => WireInv
<1> SUFFICES ASSUME InitWire PROVE WireInv
  OBVIOUS
<1> DEFINE none == <<>>
           nobody == {}
           no == FALSE
           yes == TRUE
<1>1. /\ toSidecar = [cells |-> none, lines |-> none] /\ toShell = [cells |-> none, lines |-> none]
      /\ sidecar = [buffer |-> none, serving |-> nobody, stopping |-> no, there |-> yes]
      /\ reader = [chunk |-> none, line |-> none, oversize |-> no, ended |-> no]
      /\ heard = [sidecar |-> none, shell |-> none]
  BY DEF InitWire, Empty
<1>2. /\ none \in Seq(Nat) /\ none \in Seq(Int) /\ none \in Seq(DownLines) /\ none \in Seq(UpLines)
      /\ nobody \in SUBSET Calls /\ no \in BOOLEAN /\ yes \in BOOLEAN /\ DOMAIN none = {} /\ Len(none) = 0
  OBVIOUS
<1>a. none = <<>> /\ nobody = {} /\ yes = TRUE /\ no = FALSE
  OBVIOUS
<1> HIDE DEF none, nobody, no, yes
<1>3. QuotaOK
  BY SizesAssumption DEF InitWire, QuotaOK, AskedFor, Sizes
<1>4. /\ toSidecar \in PipeOf(DownLines) /\ toShell \in PipeOf(UpLines) /\ sidecar \in Sidecars
      /\ reader \in Readers /\ heard \in [sidecar : Seq(Int), shell : Seq(Int)]
      /\ toSidecar.lines = none /\ toShell.lines = none /\ toSidecar.cells = none /\ toShell.cells = none
      /\ sidecar.buffer = none /\ sidecar.serving = nobody /\ sidecar.there = yes
      /\ reader.ended = no /\ reader.chunk = none /\ reader.line = none /\ reader.oversize = no
      /\ heard.sidecar = none /\ heard.shell = none
  BY <1>1, <1>2 DEF PipeOf, Sidecars, Readers
<1>5. /\ calls \in [Calls -> CallStates]
      /\ \A c \in Calls : calls[c].at = "idle" /\ calls[c].said = "nothing"
  <2> DEFINE first == Unmade
  <2>1. first \in CallStates /\ first.at = "idle" /\ first.said = "nothing"
    <3> DEFINE r == Unmade.request
    <3>1. Unmade = [at |-> "idle", request |-> r, told |-> "nothing", said |-> "nothing"]
      BY Zenon DEF Unmade
    <3> HIDE DEF r
    <3>2. r \in AskedFor \cup {Unmade.request}
      BY DEF r
    <3> DEFINE R == AskedFor \cup {Unmade.request}
    <3> HIDE DEF R
    <3>3. Unmade \in [at : {"idle", "waiting", "told"}, request : R,
                      told : Codes \cup {"nothing", "sidecar-exited"}, said : Codes \cup {"nothing"}]
      BY <3>1, <3>2 DEF R
    <3> QED BY <3>1, <3>3 DEF CallStates, R
  <2>2. calls = [c \in Calls |-> first]
    BY DEF InitWire
  <2> HIDE DEF first
  <2> QED BY <2>1, <2>2
<1>6. WireTypes
  BY <1>3, <1>4, <1>5 DEF WireTypes, Sidecars
<1>7. DownInv /\ UpInv
  <2>1. \E st, at : Down(toSidecar, none, none, st, at)
    BY <1>a, <1>4, NothingYet
  <2>2. Reads(toShell, reader, TRUE, none)
    BY <1>a, <1>4, NothingYet
  <2> QED BY <1>a, <1>4, <2>1, <2>2 DEF DownInv, UpInv
<1>8. BooksInv
  <2>1. AskedOnce /\ Unsaid /\ Numbers(heard.sidecar)
    BY <1>2, <1>4, <1>5 DEF AskedOnce, Unsaid, Numbers
  <2>2. Books(toShell.lines, sidecar.serving, sidecar.stopping, Len(heard.sidecar))
    BY <1>a, <1>2, <1>4 DEF Books, InHand, Owed, Answered
  <2> QED BY <1>a, <1>2, <1>4, <2>1, <2>2 DEF BooksInv
<1>9. AnswersAreTrue
  BY <1>5 DEF AnswersAreTrue
<1> QED BY <1>6, <1>7, <1>8, <1>9 DEF WireInv

LEMMA WireStep == WireInv /\ [NextWire]_wireVars => WireInv'
<1> SUFFICES ASSUME WireInv, [NextWire]_wireVars PROVE WireInv'
  OBVIOUS
<1>1. ASSUME Reading, UpInv' PROVE WireInv'
  BY <1>1, ReadingKeeps
<1>2. CASE ReadChunk
  BY <1>1, <1>2, ReadChunkReads DEF WireInv
<1>3. CASE ReadEnd
  BY <1>1, <1>3, ReadEndReads DEF WireInv
<1>4. CASE UNCHANGED wireVars
  <2>1. WireTypes' /\ DownInv' /\ UpInv'
    BY <1>4 DEF WireInv, wireVars, WireTypes, QuotaOK, DownInv, Down, UpInv, Ended, Reads, Up
  <2>2. BooksInv' /\ AnswersAreTrue'
    BY <1>4 DEF WireInv, wireVars, BooksInv, Books, AskedOnce, Unsaid, InHand, Owed, Answered, Untold, Silent,
                AnswersAreTrue
  <2> QED BY <2>1, <2>2 DEF WireInv
<1> QED BY <1>2, <1>3, <1>4, CallKeeps, ServeKeeps, ControlKeeps, StdinKeeps, SpeakKeeps, EndsKeeps,
           NoticeGoneKeeps DEF NextWire

LEMMA WireHolds == WireInv => WireIsTransparent
<1> SUFFICES ASSUME WireInv PROVE WireIsTransparent
  OBVIOUS
<1> DEFINE up == toShell.lines
           down == toSidecar.lines
           n == Len(heard.sidecar)
<1>1. /\ WireTypes /\ UpInv /\ AnswersAreTrue /\ Numbers(heard.sidecar) /\ n <= Len(down)
      /\ heard.sidecar \in Seq(Int) /\ DOMAIN heard.sidecar = 1..n /\ n \in Nat
      /\ heard.shell \in Seq(Int)
  BY DEF WireInv, BooksInv, WireTypes
<1>2. InOrder(heard.sidecar, down)
  <2>1. ASSUME NEW i \in DOMAIN heard.sidecar
        PROVE  i \in DOMAIN down /\ heard.sidecar[i] = IF down[i].size > MaxLine THEN Oversize ELSE i
    <3>1. i \in DOMAIN down /\ down[i] \in DownLines
      <4>1. i \in DOMAIN down
        <5>1. DOMAIN down = 1..Len(down) /\ Len(down) \in Nat
          BY <1>1, LineOf
        <5> HIDE DEF down, n
        <5> QED BY <1>1, <5>1
      <4> QED BY <1>1, <4>1, LineOf
    <3>2. PICK size \in Nat, R \in Nat, M \in Nat :
            size = down[i].size /\ R = RequestMax /\ M = MaxLine /\ size <= R /\ R <= M
      <4>1. down[i].size \in Nat /\ down[i].size <= RequestMax
        <5> HIDE DEF down
        <5> QED BY <3>1, LinesAre DEF Sizes
      <4> QED BY <4>1, WireAssumption
    <3>3. ~(size > M)
      BY <3>2
    <3> QED BY <1>1, <3>1, <3>2, <3>3 DEF Numbers
  <2> QED BY <2>1 DEF InOrder
<1>3. InOrder(heard.shell, up)
  <2>1. CASE reader.ended
    BY <1>1, <2>1 DEF UpInv, Ended, InOrder, Mark
  <2>2. CASE ~reader.ended
    <3>1. PICK st, e, at : Up(toShell, reader, sidecar.there, heard.shell, st, e, at)
      BY <1>1, <2>2 DEF UpInv, Reads
    <3>2. Marks(heard.shell, up) /\ Len(heard.shell) \in 0..Len(up)
      BY <3>1 DEF Up, Place
    <3>3. \A i \in DOMAIN heard.shell : i \in DOMAIN up
      <4>1. DOMAIN up = 1..Len(up) /\ Len(up) \in Nat /\ DOMAIN heard.shell = 1..Len(heard.shell)
        BY <1>1, LineOf
      <4> HIDE DEF up
      <4> QED BY <3>2, <4>1
    <3> QED BY <3>2, <3>3 DEF InOrder, Marks, Mark
  <2> QED BY <2>1, <2>2
<1> QED BY <1>1, <1>2, <1>3 DEF WireIsTransparent, LinesArriveWhole

(* However both pipes cut up what is written to them, and whatever the other side does,
   every line is passed on once, whole and in order - an oversized one reported in its place,
   only the last before the end of a pipe a fragment - and what a call is told is what the
   service said of it, or that it was malformed, or that the sidecar is going or gone. *)
THEOREM TheWireIsTransparent == SpecWire => []WireIsTransparent
<1>1. InitWire => WireInv
  BY WireInit
<1>2. WireInv /\ [NextWire]_wireVars => WireInv'
  BY WireStep
<1>3. WireInv => WireIsTransparent
  BY WireHolds
<1> QED BY <1>1, <1>2, <1>3, PTL DEF SpecWire
=============================================================================
