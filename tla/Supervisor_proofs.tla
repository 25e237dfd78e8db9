-------------------------- MODULE Supervisor_proofs --------------------------
(***************************************************************************)
(* Proofs about the sidecar supervisor and its relay, for any number of    *)
(* callers and any capacity of the queues, budget and number of launches.  *)
(*                                                                         *)
(* The types come first: with them goes the room that is left for the ids  *)
(* of callers on their way to register.  Then the life of the process,     *)
(* whose invariant says where the worker may be with and without a child,  *)
(* and the calls, which are bound to the process the worker holds.         *)
(***************************************************************************)
EXTENDS Supervisor, FiniteSetTheorems, SequenceTheorems, TLAPS

-----------------------------------------------------------------------------
(* Types, in parts that one step seldom touches together.                  *)

Places == {"idle", "gated", "guarded", "registered", "waiting", "abandoning"}
Holding == {"registered", "waiting", "abandoning"}
AppStates == {"starting", "crashed", "restarting", "reported"}
LinkStates == {"none", "unavailable", "outdated", "reported"}
Stations == {"boot", "loop", "bind", "grace", "drain", "closing", "done"}
Sequels == {"none", "restart", "crashed", "quit"}
Attempts == 0..Budget
Presses == 0..MaxPresses
Spoken == 0..2
NextIds == 1..(MaxCalls + 1)

CallerTypes ==
  /\ pc \in [Callers -> Places]
  /\ callOp \in [Callers -> CallOps \cup {"none"}]
  /\ callId \in [Callers -> Ids \cup {NoId}]
  /\ told \subseteq Ids /\ held \subseteq Guards
TableTypes ==
  /\ opOf \in [Ids -> CallOps \cup {"none"}]
  /\ pending \subseteq Ids
  /\ bound \in [Ids -> Nat]
  /\ reply \in [Ids -> Outcomes]
WorkerTypes ==
  /\ stopping \in BOOLEAN
  /\ worker \in Stations /\ after \in Sequels /\ binding \in Ids \cup {NoId}
RequestTypes == requests \in Seq(Requests) /\ Len(requests) <= RequestCap
LineTypes == lines \in Seq(Lines) /\ Len(lines) <= LineCap
StdinTypes == stdin \in Seq(Inputs) /\ Len(stdin) <= InputCap
ChildTypes == child \in BOOLEAN /\ generation \in Nat
ControlTypes ==
  /\ desired \in BOOLEAN /\ restartAt \in BOOLEAN /\ latched \in BOOLEAN
  /\ attempts \in Attempts
StatusTypes == hello \subseteq {"hello"} \cup Features /\ dl \in LinkStates /\ status \in AppStates
ProcTypes ==
  /\ proc \in {"running", "exited"} /\ procGen \in Nat
  /\ build \subseteq Features
  /\ said \in Spoken /\ uplink \in BOOLEAN
  /\ work \subseteq Ids
RunTypes == runs \in [Ids -> Nat]
StrayTypes == strays \subseteq Strays

\* All but the counters that are bounded.
Parts ==
  /\ CallerTypes /\ TableTypes /\ WorkerTypes /\ RequestTypes /\ LineTypes /\ StdinTypes
  /\ ChildTypes /\ ControlTypes /\ StatusTypes /\ ProcTypes /\ RunTypes /\ StrayTypes

\* A caller that has registered has an id, and the callers that are about to
\* register leave room for each of them.
Named == \A c \in Callers : pc[c] \in Holding => callId[c] \in Ids
Entering == {c \in Callers : pc[c] \in {"gated", "guarded"}}
Room == nextId \in Nat \ {0} /\ nextId + Cardinality(Entering) <= MaxCalls + 1
Counted == presses \in Presses

TypeInv == Parts /\ Named /\ Room /\ Counted

LEMMA EnteringFinite ==
  /\ IsFiniteSet(Entering) /\ Cardinality(Entering) \in Nat
  /\ IsFiniteSet(Entering') /\ Cardinality(Entering') \in Nat
<1>1. Entering \in SUBSET Callers /\ Entering' \in SUBSET Callers
  BY DEF Entering
<1>2. IsFiniteSet(Entering) /\ IsFiniteSet(Entering')
  BY <1>1, FS_Subset, CallersAssumption
<1> QED
  BY <1>2, FS_CardinalityType

LEMMA TypeParts == TypeInv => TypeOK
<1>1. ASSUME Room PROVE nextId \in NextIds
  BY <1>1, EnteringFinite, BoundsAssumption DEF Room, NextIds
<1> QED
  BY <1>1 DEF TypeInv, TypeOK, Parts, CallerTypes, TableTypes, WorkerTypes, RequestTypes, LineTypes,
      StdinTypes, ChildTypes, ControlTypes, StatusTypes, ProcTypes, RunTypes, StrayTypes, Counted, Places,
      AppStates, LinkStates, Stations, Sequels, Attempts, Presses, Spoken, NextIds

-----------------------------------------------------------------------------
(* Queues.                                                                 *)

LEMMA SeqAppend ==
  ASSUME NEW S, NEW q \in Seq(S), NEW x \in S
  PROVE  Append(q, x) \in Seq(S) /\ Len(Append(q, x)) = Len(q) + 1 /\ Len(q) \in Nat
OBVIOUS

LEMMA SeqTail ==
  ASSUME NEW S, NEW q \in Seq(S), q # <<>>
  PROVE  Head(q) \in S /\ Tail(q) \in Seq(S) /\ Len(Tail(q)) = Len(q) - 1 /\ Len(q) \in Nat
OBVIOUS

\* What a queue carries when it carries it.
LEMMA ControlRequests == \A k \in Controls : [kind |-> k, id |-> NoId] \in Requests
BY DEF Requests
LEMMA ControlInputs ==
  \A k \in {"start", "stop", "config", "shutdown"} : [kind |-> k, id |-> NoId] \in Inputs
BY DEF Inputs
LEMMA RequestInput ==
  \A item \in Requests : item.kind = "datalink" => item \in Inputs /\ item.id \in Ids
BY DEF Requests, Inputs, Controls

\* What is queued to the sidecar keeps to the queue's capacity.
LEMMA QueueTypes ==
  ASSUME StdinTypes, NEW item \in Inputs, NEW accepted \in Accepts, Queue(item, accepted)
  PROVE  StdinTypes'
<1>1. CASE accepted /\ proc = "running"
  <2>1. Len(stdin) < InputCap /\ stdin' = Append(stdin, item)
    BY <1>1 DEF Accepts, Queue
  <2> QED
    BY <2>1, SeqAppend, BoundsAssumption DEF StdinTypes
<1>2. CASE ~(accepted /\ proc = "running")
  BY <1>2 DEF Queue, StdinTypes
<1> QED
  BY <1>1, <1>2

LEMMA ControlQueued ==
  ASSUME StdinTypes, NEW kind \in {"start", "stop", "config", "shutdown"}, Control(kind)
  PROVE  StdinTypes'
BY ControlInputs, QueueTypes DEF Control

-----------------------------------------------------------------------------
(* Steps of the callers.                                                   *)

\* A call that returns: its id is told of only when it has one.
LEMMA ReturnTypes ==
  ASSUME CallerTypes, Named, NEW c \in Callers, NEW outcome, Return(c, outcome),
         outcome = "answer" => callId[c] \in Ids
  PROVE  CallerTypes' /\ Named' /\ Entering' = Entering \ {c}
<1>1. pc' \in [Callers -> Places] /\ callOp' \in [Callers -> CallOps \cup {"none"}]
      /\ callId' \in [Callers -> Ids \cup {NoId}]
  BY DEF Return, CallerTypes, Places
<1>2. told' \subseteq Ids /\ held' \subseteq Guards
  BY DEF Return, CallerTypes
<1>3. \A d \in Callers : d # c => pc'[d] = pc[d] /\ callId'[d] = callId[d]
  BY DEF Return, CallerTypes
<1>4. pc'[c] = "idle"
  BY DEF Return, CallerTypes
<1>5. Named'
  BY <1>3, <1>4 DEF Named, Holding
<1>6. Entering' = Entering \ {c}
  BY <1>3, <1>4 DEF Entering
<1> QED
  BY <1>1, <1>2, <1>5, <1>6 DEF CallerTypes

\* A caller that leaves the entrance leaves room behind.
LEMMA RoomLeft ==
  ASSUME Room, NEW c, Entering' = Entering \ {c}, nextId' = nextId
  PROVE  Room'
BY EnteringFinite, FS_RemoveElement, BoundsAssumption DEF Room

LEMMA RoomKept == ASSUME Room, Entering' = Entering, nextId' = nextId PROVE Room'
BY DEF Room

\* An entry that leaves the table leaves it well typed.
LEMMA RemoveTypes ==
  ASSUME TableTypes, NEW ids, Remove(ids)
  PROVE  pending' \subseteq Ids /\ bound' \in [Ids -> Nat] /\ pending' \subseteq pending
<1>1. 0 \in Nat
  OBVIOUS
<1> QED
  BY <1>1 DEF Remove, TableTypes, Unbound

LEMMA ReplyTypes ==
  ASSUME TableTypes, NEW i, NEW outcome \in Outcomes
  PROVE  [reply EXCEPT ![i] = outcome] \in [Ids -> Outcomes]
BY DEF TableTypes

\* What a step leaves alone stays typed.
LEMMA Kept ==
  ASSUME TypeInv
  PROVE  /\ UNCHANGED callerVars => CallerTypes' /\ Named' /\ Entering' = Entering
         /\ UNCHANGED <<opOf, pending, bound, reply>> => TableTypes'
         /\ UNCHANGED <<stopping, worker, after, binding>> => WorkerTypes'
         /\ UNCHANGED requests => RequestTypes'
         /\ UNCHANGED lines => LineTypes'
         /\ UNCHANGED stdin => StdinTypes'
         /\ UNCHANGED <<child, generation>> => ChildTypes'
         /\ UNCHANGED controlVars => ControlTypes'
         /\ UNCHANGED <<hello, dl, status>> => StatusTypes'
         /\ UNCHANGED <<proc, procGen, build, said, uplink, work>> => ProcTypes'
         /\ UNCHANGED runs => RunTypes'
         /\ UNCHANGED strays => StrayTypes'
         /\ UNCHANGED presses => Counted'
BY DEF TypeInv, Parts, CallerTypes, Named, Entering, TableTypes, WorkerTypes, RequestTypes, LineTypes,
    StdinTypes, ChildTypes, ControlTypes, StatusTypes, ProcTypes, RunTypes, StrayTypes, Counted, callerVars,
    controlVars

\* The parts no caller touches.
Elsewhere ==
  LineTypes /\ StdinTypes /\ ChildTypes /\ ControlTypes /\ ProcTypes /\ RunTypes /\ StrayTypes

LEMMA KeptElsewhere ==
  ASSUME TypeInv, UNCHANGED <<childVars, controlVars, procVars, lines>>
  PROVE  Elsewhere'
BY Kept DEF Elsewhere, childVars, procVars

LEMMA Together ==
  /\ CallerTypes' /\ TableTypes' /\ WorkerTypes' /\ RequestTypes' /\ StatusTypes' /\ Elsewhere'
     /\ Named' /\ Room' /\ Counted' => TypeInv'
BY DEF TypeInv, Parts, Elsewhere

LEMMA GateTypes ==
  ASSUME TypeInv, NEW c \in Callers, NEW op \in CallOps, NEW valid \in BOOLEAN, Gate(c, op, valid)
  PROVE  TypeInv'
<1>1. /\ UNCHANGED <<opOf, pending, bound, reply, nextId, stopping, worker, after, binding>>
      /\ UNCHANGED <<requests, presses, hello, status>>
      /\ UNCHANGED <<childVars, controlVars, procVars, lines>>
  BY DEF Gate, relayVars, workerVars
<1>2. TableTypes' /\ WorkerTypes' /\ RequestTypes' /\ Elsewhere' /\ Counted'
  BY <1>1, Kept, KeptElsewhere
<1>3. StatusTypes'
  BY <1>1 DEF Gate, StatusTypes, LinkStates, TypeInv, Parts
<1>4. CASE \E outcome : Return(c, outcome) /\ outcome # "answer"
  <2>1. CallerTypes' /\ Named' /\ Entering' = Entering \ {c}
    BY <1>4, ReturnTypes DEF TypeInv, Parts
  <2> QED
    BY <1>1, <1>2, <1>3, <2>1, RoomLeft, Together DEF TypeInv
<1>5. CASE /\ pc[c] = "idle" /\ IdsLeft
           /\ pc' = [pc EXCEPT ![c] = "gated"]
           /\ callOp' = [callOp EXCEPT ![c] = op]
           /\ UNCHANGED <<callId, told, held>>
  <2>1. CallerTypes'
    BY <1>5 DEF TypeInv, Parts, CallerTypes, Places
  <2>2. Named'
    BY <1>5 DEF TypeInv, Parts, CallerTypes, Named, Holding
  <2>3. Entering' = Entering \cup {c} /\ c \notin Entering
    BY <1>5 DEF TypeInv, Parts, CallerTypes, Entering
  <2>4. nextId + Cardinality(Entering) <= MaxCalls
    BY <1>5 DEF IdsLeft, Entering
  <2>5. Room'
    BY <1>1, <2>3, <2>4, EnteringFinite, FS_AddElement, BoundsAssumption DEF Room, TypeInv
  <2> QED
    BY <1>2, <1>3, <2>1, <2>2, <2>5, Together
<1> QED
  BY <1>4, <1>5 DEF Gate

LEMMA AcquireTypes == ASSUME TypeInv, NEW c \in Callers, Acquire(c) PROVE TypeInv'
<1>1. /\ UNCHANGED <<opOf, pending, bound, reply, nextId, stopping, worker, after, binding>>
      /\ UNCHANGED <<requests, presses, hello, dl, status>>
      /\ UNCHANGED <<childVars, controlVars, procVars, lines>>
  BY DEF Acquire, relayVars, workerVars, statusVars
<1>2. TableTypes' /\ WorkerTypes' /\ RequestTypes' /\ StatusTypes' /\ Elsewhere' /\ Counted'
  BY <1>1, Kept, KeptElsewhere
<1>3. CASE Return(c, "in-progress")
  <2>1. CallerTypes' /\ Named' /\ Entering' = Entering \ {c}
    BY <1>3, ReturnTypes DEF TypeInv, Parts
  <2> QED
    BY <1>1, <1>2, <2>1, RoomLeft, Together DEF TypeInv
<1>4. CASE /\ pc[c] = "gated"
           /\ pc' = [pc EXCEPT ![c] = "guarded"]
           /\ held' = held \cup ({GuardOf(callOp[c])} \ {"none"})
           /\ UNCHANGED <<callOp, callId, told>>
  <2>1. GuardOf(callOp[c]) \in Guards \cup {"none"}
    BY DEF GuardOf, Guards
  <2>2. CallerTypes'
    BY <1>4, <2>1 DEF TypeInv, Parts, CallerTypes, Places
  <2>3. Named' /\ Entering' = Entering
    BY <1>4 DEF TypeInv, Parts, CallerTypes, Named, Holding, Entering
  <2> QED
    BY <1>1, <1>2, <2>2, <2>3, RoomKept, Together DEF TypeInv
<1> QED
  BY <1>3, <1>4 DEF Acquire

LEMMA RegisterTypes == ASSUME TypeInv, NEW c \in Callers, Register(c) PROVE TypeInv'
<1>1. /\ UNCHANGED <<stopping, worker, after, binding>>
      /\ UNCHANGED <<requests, presses, hello, dl, status>>
      /\ UNCHANGED <<childVars, controlVars, procVars, lines>>
      /\ pc[c] = "guarded"
  BY DEF Register, workerVars, statusVars
<1>2. WorkerTypes' /\ RequestTypes' /\ StatusTypes' /\ Elsewhere' /\ Counted'
  BY <1>1, Kept, KeptElsewhere
<1>3. CASE Return(c, "busy") /\ UNCHANGED relayVars
  <2>1. CallerTypes' /\ Named' /\ Entering' = Entering \ {c}
    BY <1>3, ReturnTypes DEF TypeInv, Parts
  <2>2. TableTypes' /\ nextId' = nextId
    BY <1>3, Kept DEF relayVars
  <2> QED
    BY <1>2, <2>1, <2>2, RoomLeft, Together DEF TypeInv
<1>4. CASE /\ pc' = [pc EXCEPT ![c] = "registered"]
           /\ callId' = [callId EXCEPT ![c] = nextId]
           /\ nextId' = nextId + 1
           /\ opOf' = [opOf EXCEPT ![nextId] = callOp[c]]
           /\ pending' = pending \cup {nextId}
           /\ UNCHANGED <<callOp, told, held, bound, reply>>
  <2>1. Entering' = Entering \ {c} /\ c \in Entering
    BY <1>1, <1>4 DEF TypeInv, Parts, CallerTypes, Entering
  <2>2. Cardinality(Entering') = Cardinality(Entering) - 1
    BY <2>1, EnteringFinite, FS_RemoveElement
  <2>3. nextId \in Ids /\ Room'
    BY <1>4, <2>2, EnteringFinite, BoundsAssumption DEF TypeInv, Room, Ids
  <2>4. CallerTypes' /\ Named'
    BY <1>4, <2>3 DEF TypeInv, Parts, CallerTypes, Named, Places
  <2>5. TableTypes'
    BY <1>4, <2>3 DEF TypeInv, Parts, TableTypes, CallerTypes
  <2> QED
    BY <1>2, <2>3, <2>4, <2>5, Together
<1> QED
  BY <1>3, <1>4 DEF Register

LEMMA EnqueueTypes == ASSUME TypeInv, NEW c \in Callers, Enqueue(c) PROVE TypeInv'
<1>1. /\ UNCHANGED <<nextId, opOf, reply, stopping, worker, after, binding>>
      /\ UNCHANGED <<presses, hello, dl, status>>
      /\ UNCHANGED <<childVars, controlVars, procVars, lines>>
      /\ pc[c] = "registered"
  BY DEF Enqueue, workerVars, statusVars
<1>2. WorkerTypes' /\ StatusTypes' /\ Elsewhere' /\ Counted'
  BY <1>1, Kept, KeptElsewhere
<1>3. CASE /\ Remove({callId[c]}) /\ UNCHANGED requests
           /\ \E outcome \in {"bad-request", "busy"} : Return(c, outcome)
  <2>1. CallerTypes' /\ Named' /\ Entering' = Entering \ {c}
    BY <1>3, ReturnTypes DEF TypeInv, Parts
  <2>2. TableTypes'
    BY <1>1, <1>3, RemoveTypes DEF TypeInv, Parts, TableTypes
  <2> QED
    BY <1>1, <1>2, <1>3, <2>1, <2>2, Kept, RoomLeft, Together DEF TypeInv
<1>4. CASE /\ Len(requests) < RequestCap
           /\ requests' = Append(requests, [kind |-> "datalink", id |-> callId[c]])
           /\ pc' = [pc EXCEPT ![c] = "waiting"]
           /\ UNCHANGED <<callOp, callId, told, held, pending, bound>>
  <2>1. [kind |-> "datalink", id |-> callId[c]] \in Requests
    BY <1>1 DEF TypeInv, Named, Holding, Requests
  <2>2. RequestTypes'
    BY <1>4, <2>1, SeqAppend, BoundsAssumption DEF TypeInv, Parts, RequestTypes
  <2>3. CallerTypes' /\ Named' /\ Entering' = Entering
    BY <1>1, <1>4 DEF TypeInv, Parts, CallerTypes, Named, Entering, Places, Holding
  <2>4. TableTypes'
    BY <1>1, <1>4, Kept
  <2> QED
    BY <1>1, <1>2, <2>2, <2>3, <2>4, RoomKept, Together DEF TypeInv
<1>5. Len(requests) \in Nat /\ RequestCap \in Nat
  BY BoundsAssumption DEF TypeInv, Parts, RequestTypes
<1> QED
  BY <1>3, <1>4, <1>5 DEF Enqueue

\* The three ends of a wait.
LEMMA WaitTypes ==
  ASSUME TypeInv, NEW c \in Callers, Receive(c) \/ Timeout(c) \/ Abandon(c)
  PROVE  TypeInv'
<1>1. /\ UNCHANGED <<nextId, opOf, requests, stopping, worker, after, binding>>
      /\ UNCHANGED <<presses, hello, dl, status>>
      /\ UNCHANGED <<childVars, controlVars, procVars, lines>>
      /\ pc[c] \in Holding
  BY DEF Receive, Timeout, Abandon, workerVars, statusVars, relayVars, Holding
<1>2. WorkerTypes' /\ RequestTypes' /\ StatusTypes' /\ Elsewhere' /\ Counted'
  BY <1>1, Kept, KeptElsewhere
<1>3. "none" \in Outcomes /\ callId[c] \in Ids
  BY <1>1 DEF Outcomes, TypeInv, Named
<1>4. CASE Receive(c)
  <2>1. Return(c, reply[callId[c]]) /\ UNCHANGED <<pending, bound>>
        /\ reply' = [reply EXCEPT ![callId[c]] = "none"]
    BY <1>4 DEF Receive
  <2>2. CallerTypes' /\ Named' /\ Entering' = Entering \ {c}
    BY <1>3, <2>1, ReturnTypes DEF TypeInv, Parts
  <2>3. TableTypes'
    BY <1>1, <1>3, <2>1, ReplyTypes DEF TypeInv, Parts, TableTypes
  <2> QED
    BY <1>1, <1>2, <2>2, <2>3, RoomLeft, Together DEF TypeInv
<1>5. CASE Timeout(c)
  <2>1. CallerTypes' /\ Named' /\ Entering' = Entering
    BY <1>5 DEF Timeout, TypeInv, Parts, CallerTypes, Named, Entering, Places, Holding
  <2>2. TableTypes'
    BY <1>5, Kept DEF Timeout, relayVars
  <2> QED
    BY <1>1, <1>2, <2>1, <2>2, RoomKept, Together DEF TypeInv
<1>6. CASE Abandon(c)
  <2>1. Return(c, LateOutcome(callId[c])) /\ Remove({callId[c]})
        /\ reply' = [reply EXCEPT ![callId[c]] = "none"]
    BY <1>6 DEF Abandon, GiveBack
  <2>2. CallerTypes' /\ Named' /\ Entering' = Entering \ {c}
    BY <1>3, <2>1, ReturnTypes DEF TypeInv, Parts
  <2>3. TableTypes'
    BY <1>1, <1>3, <2>1, ReplyTypes, RemoveTypes DEF TypeInv, Parts, TableTypes
  <2> QED
    BY <1>1, <1>2, <2>2, <2>3, RoomLeft, Together DEF TypeInv
<1> QED
  BY <1>4, <1>5, <1>6

LEMMA PressTypes ==
  ASSUME TypeInv, (\E kind \in PressKinds : Press(kind)) \/ Shutdown
  PROVE  TypeInv'
<1>1. /\ UNCHANGED callerVars /\ UNCHANGED <<nextId, opOf, pending, bound, reply>>
      /\ UNCHANGED <<worker, after, binding, hello, dl, status>>
      /\ UNCHANGED <<childVars, controlVars, procVars, lines>>
  BY DEF Press, Shutdown, relayVars, workerVars, statusVars
<1>2. CallerTypes' /\ Named' /\ Room' /\ TableTypes' /\ StatusTypes' /\ Elsewhere'
  BY <1>1, Kept, KeptElsewhere, RoomKept DEF TypeInv
<1>3. CASE Shutdown
  <2>1. WorkerTypes' /\ RequestTypes' /\ Counted'
    BY <1>1, <1>3, Kept DEF Shutdown, WorkerTypes, TypeInv, Parts
  <2> QED
    BY <1>2, <2>1, Together
<1>4. CASE \E kind \in PressKinds : Press(kind)
  <2>1. PICK kind \in PressKinds : Press(kind)
    BY <1>4
  <2>2. [kind |-> kind, id |-> NoId] \in Requests
    BY ControlRequests, PressAssumption
  <2>3. RequestTypes'
    BY <2>1, <2>2, SeqAppend, BoundsAssumption DEF Press, TypeInv, Parts, RequestTypes
  <2>4. WorkerTypes' /\ Counted'
    BY <1>1, <2>1, Kept, BoundsAssumption DEF Press, TypeInv, Counted, Presses
  <2> QED
    BY <1>2, <2>3, <2>4, Together
<1> QED
  BY <1>3, <1>4

-----------------------------------------------------------------------------
(* Steps of the worker.                                                    *)

\* The parts the worker may touch; the callers' it never does.
WorkerParts ==
  /\ TableTypes /\ WorkerTypes /\ RequestTypes /\ LineTypes /\ StdinTypes
  /\ ChildTypes /\ ControlTypes /\ StatusTypes /\ ProcTypes /\ RunTypes /\ StrayTypes

LEMMA WorkerTogether ==
  ASSUME TypeInv, UNCHANGED <<callerVars, nextId, presses>>, WorkerParts'
  PROVE  TypeInv'
<1>1. CallerTypes' /\ Named' /\ Room' /\ Counted'
  BY Kept, RoomKept DEF TypeInv
<1> QED
  BY <1>1 DEF WorkerParts, TypeInv, Parts

LEMMA GoneTypes ==
  ASSUME TypeInv, Gone, UNCHANGED <<procGen, build>>
  PROVE  StdinTypes' /\ ProcTypes'
<1>1. <<>> \in Seq(Inputs) /\ Len(<<>>) <= InputCap
  BY BoundsAssumption
<1>2. ProcTypes
  BY DEF TypeInv, Parts
<1>3. {} \subseteq Ids /\ 0 \in Spoken
  BY DEF Spoken
<1>4. ProcTypes'
  BY <1>2, <1>3 DEF Gone, ProcTypes
<1>5. StdinTypes'
  BY <1>1 DEF Gone, StdinTypes
<1> QED
  BY <1>4, <1>5

LEMMA SpawnTypes ==
  ASSUME TypeInv, NEW want \in BOOLEAN, NEW shown \in AppStates, NEW latch \in BOOLEAN,
         Spawn(want, shown, latch)
  PROVE  /\ ChildTypes' /\ StdinTypes' /\ ProcTypes'
         /\ worker' \in Stations /\ after' \in Sequels
         /\ status' \in AppStates /\ dl' \in LinkStates /\ latched' \in BOOLEAN
<1>0. /\ ChildTypes /\ ProcTypes /\ StatusTypes
      /\ {} \subseteq Ids /\ 0 \in Spoken
      /\ \A g \in Nat : g + 1 \in Nat /\ g + 2 \in Nat
      /\ \A b \in Builds : b \subseteq Features
  BY BuildsAssumption DEF TypeInv, Parts, Features, Spoken
<1>1. \A k \in {"start", "shutdown"} :
        LET q == <<[kind |-> k, id |-> NoId]>> IN q \in Seq(Inputs) /\ Len(q) <= InputCap
  BY ControlInputs, BoundsAssumption
<1>2. <<>> \in Seq(Inputs) /\ Len(<<>>) <= InputCap
  BY BoundsAssumption
<1>3. CASE Gone /\ UNCHANGED <<child, generation, procGen, build, dl>>
           /\ worker' = "loop" /\ after' = "none"
           /\ status' \in {shown, "crashed"} /\ latched' \in {latch, TRUE}
  <2>1. StdinTypes' /\ ProcTypes' /\ ChildTypes'
    BY <1>3, GoneTypes, Kept
  <2> QED
    BY <1>3, <2>1 DEF TypeInv, Parts, StatusTypes, Stations, Sequels, AppStates
<1>4. CASE Launch(want) /\ status' = shown /\ latched' = latch
  <2>1. ChildTypes' /\ ProcTypes'
    BY <1>0, <1>4 DEF Launch, ChildTypes, ProcTypes
  <2>2. StdinTypes'
    BY <1>1, <1>2, <1>4 DEF Launch, FirstInput, StdinTypes
  <2> QED
    BY <1>4, <2>1, <2>2 DEF Launch, TypeInv, Parts, StatusTypes, Stations, Sequels
<1>5. CASE HalfLaunch /\ status' = shown /\ latched' = latch
  <2>1. ChildTypes' /\ ProcTypes'
    BY <1>0, <1>5 DEF HalfLaunch, ChildTypes, ProcTypes
  <2>2. StdinTypes'
    BY <1>1, <1>5 DEF HalfLaunch, StdinTypes
  <2> QED
    BY <1>5, <2>1, <2>2 DEF HalfLaunch, LinkStates, Stations, Sequels
<1> QED
  BY <1>3, <1>4, <1>5 DEF Spawn, LaunchFails

LEMMA FailGenerationTypes ==
  ASSUME TypeInv, NEW g, FailGeneration(g)
  PROVE  TableTypes' /\ nextId' = nextId
<1> DEFINE dead == {i \in pending : bound[i] = g}
<1>1. Remove(dead) /\ opOf' = opOf /\ nextId' = nextId
      /\ reply' = [i \in Ids |-> IF i \in dead THEN "sidecar-exited" ELSE reply[i]]
  BY DEF FailGeneration
<1>2. pending' \subseteq Ids /\ bound' \in [Ids -> Nat]
  BY <1>1, RemoveTypes DEF TypeInv, Parts
<1>3. reply' \in [Ids -> Outcomes]
  BY <1>1 DEF TypeInv, Parts, TableTypes, Outcomes
<1> QED
  BY <1>1, <1>2, <1>3 DEF TypeInv, Parts, TableTypes

LEMMA FailUnboundTypes ==
  ASSUME TypeInv, NEW i, NEW code \in Outcomes, FailUnbound(i, code)
  PROVE  TableTypes' /\ nextId' = nextId
<1>1. CASE UNCHANGED <<pending, bound, reply>>
  BY <1>1, Kept DEF FailUnbound
<1>2. CASE Remove({i}) /\ reply' = [reply EXCEPT ![i] = code]
  BY <1>2, RemoveTypes, ReplyTypes DEF FailUnbound, TypeInv, Parts, TableTypes
<1> QED
  BY <1>1, <1>2 DEF FailUnbound

LEMMA TerminateTypes ==
  ASSUME TypeInv, NEW then \in Sequels, Terminate(then)
  PROVE  /\ TableTypes' /\ nextId' = nextId /\ ChildTypes' /\ StdinTypes'
         /\ worker' \in Stations /\ after' \in Sequels /\ dl' \in LinkStates
<1>1. StdinTypes'
  BY ControlInputs, QueueTypes DEF Terminate, TypeInv, Parts
<1>2. TableTypes' /\ nextId' = nextId
  BY FailGenerationTypes DEF Terminate
<1>3. ChildTypes /\ generation + 1 \in Nat
  BY DEF TypeInv, Parts, ChildTypes
<1> QED
  BY <1>1, <1>2, <1>3 DEF Terminate, ChildTypes, Stations, LinkStates

\* The head of the request queue is taken off it.
LEMMA TakeTypes ==
  ASSUME TypeInv, requests # <<>>, requests' = Tail(requests)
  PROVE  RequestTypes' /\ Head(requests) \in Requests
BY SeqTail, BoundsAssumption DEF TypeInv, Parts, RequestTypes

LEMMA ButtonTypes ==
  ASSUME TypeInv, ApplyStart \/ ApplyStop \/ ApplyRestart \/ ApplyReload
  PROVE  TypeInv'
<1> USE DEF Takes
<1>1. RequestTypes'
  BY TakeTypes DEF ApplyStart, ApplyStop, ApplyRestart, ApplyReload
<1>2. LineTypes' /\ UNCHANGED <<callerVars, presses, stopping, binding, hello>>
  BY Kept DEF ApplyStart, ApplyStop, ApplyRestart, ApplyReload, workerVars
<1>3. CASE ApplyStart
  <2>1. UNCHANGED <<relayVars, runs, strays, restartAt, attempts>> /\ desired' = TRUE
    BY <1>3 DEF ApplyStart, procVars
  <2>2. /\ ChildTypes' /\ StdinTypes' /\ ProcTypes'
        /\ worker' \in Stations /\ after' \in Sequels
        /\ status' \in AppStates /\ dl' \in LinkStates /\ latched' \in BOOLEAN
    <3>1. CASE Control("start") /\ UNCHANGED <<child, generation, status, latched, dl, worker, after, procVars>>
      BY <3>1, ControlQueued, Kept DEF procVars, TypeInv, Parts, WorkerTypes, StatusTypes, ControlTypes
    <3>2. CASE UNCHANGED <<childVars, status, latched, dl, worker, after, procVars>>
      BY <3>2, Kept DEF childVars, procVars, TypeInv, Parts, WorkerTypes, StatusTypes, ControlTypes
    <3>3. CASE Spawn(TRUE, status, latched)
      BY <3>3, SpawnTypes DEF TypeInv, Parts, StatusTypes, ControlTypes
    <3> QED
      BY <1>3, <3>1, <3>2, <3>3 DEF ApplyStart
  <2>3. /\ TableTypes' /\ RunTypes' /\ StrayTypes' /\ WorkerTypes' /\ ControlTypes'
        /\ StatusTypes' /\ nextId' = nextId
    BY <1>2, <2>1, <2>2, Kept DEF relayVars, TypeInv, Parts, WorkerTypes, ControlTypes, StatusTypes
  <2> QED
    BY <1>1, <1>2, <2>2, <2>3, WorkerTogether DEF WorkerParts
<1>4. CASE ApplyStop
  <2>1. /\ UNCHANGED <<relayVars, child, generation, dl, workerVars, attempts, latched, procVars, stopping>>
        /\ desired' = FALSE /\ restartAt' = FALSE /\ status' \in {status, "crashed"}
    BY <1>4 DEF ApplyStop
  <2>2. StdinTypes'
    BY <1>4, ControlQueued, Kept DEF ApplyStop, TypeInv, Parts
  <2>3. /\ TableTypes' /\ nextId' = nextId /\ ChildTypes' /\ ProcTypes' /\ RunTypes' /\ WorkerTypes'
        /\ StrayTypes' /\ ControlTypes' /\ StatusTypes'
    BY <1>2, <2>1, Kept DEF relayVars, procVars, workerVars, TypeInv, Parts, ControlTypes, StatusTypes,
        AppStates
  <2> QED
    BY <1>1, <1>2, <2>2, <2>3, WorkerTogether DEF WorkerParts
<1>5. CASE ApplyRestart
  <2>1. restartAt' = FALSE /\ attempts' = 0 /\ desired' = desired /\ 0 \in Attempts
    BY <1>5, BoundsAssumption DEF ApplyRestart, Attempts
  <2>2. /\ TableTypes' /\ nextId' = nextId /\ ChildTypes' /\ StdinTypes' /\ ProcTypes' /\ RunTypes' /\ StrayTypes'
        /\ worker' \in Stations /\ after' \in Sequels
        /\ status' \in AppStates /\ dl' \in LinkStates /\ latched' \in BOOLEAN
    <3>1. CASE latched' = FALSE /\ Terminate("restart") /\ UNCHANGED <<status, procVars>>
      BY <3>1, TerminateTypes, Kept DEF procVars, TypeInv, Parts, StatusTypes, Sequels
    <3>2. CASE Spawn(desired, "restarting", FALSE) /\ UNCHANGED <<relayVars, runs, strays>>
      BY <3>2, SpawnTypes, Kept DEF relayVars, TypeInv, Parts, ControlTypes, AppStates
    <3> QED
      BY <1>5, <3>1, <3>2 DEF ApplyRestart
  <2>3. WorkerTypes' /\ ControlTypes' /\ StatusTypes'
    BY <1>2, <2>1, <2>2 DEF TypeInv, Parts, WorkerTypes, ControlTypes, StatusTypes
  <2> QED
    BY <1>1, <1>2, <2>2, <2>3, WorkerTogether DEF WorkerParts
<1>6. CASE ApplyReload
  <2>1. /\ UNCHANGED <<relayVars, child, generation, dl, workerVars, controlVars, procVars, stopping>>
        /\ status' \in {status, "crashed"}
    BY <1>6 DEF ApplyReload
  <2>2. StdinTypes'
    BY <1>6, ControlQueued, Kept DEF ApplyReload, TypeInv, Parts
  <2>3. /\ TableTypes' /\ nextId' = nextId /\ ChildTypes' /\ ProcTypes' /\ RunTypes' /\ WorkerTypes'
        /\ StrayTypes' /\ ControlTypes' /\ StatusTypes'
    BY <1>2, <2>1, Kept DEF relayVars, procVars, workerVars, TypeInv, Parts, StatusTypes, AppStates
  <2> QED
    BY <1>1, <1>2, <2>2, <2>3, WorkerTogether DEF WorkerParts
<1> QED
  BY <1>3, <1>4, <1>5, <1>6

LEMMA ApplyDatalinkTypes == ASSUME TypeInv, ApplyDatalink PROVE TypeInv'
<1> DEFINE item == Head(requests)
<1>1. RequestTypes' /\ item \in Requests
  BY TakeTypes DEF ApplyDatalink, Takes
<1>2. item \in Inputs /\ item.id \in Ids
  BY <1>1, RequestInput DEF ApplyDatalink, Takes
<1>3. /\ UNCHANGED <<callerVars, presses, child, generation, hello, dl, status, after, controlVars>>
      /\ UNCHANGED <<procVars, stopping, lines>>
  BY DEF ApplyDatalink, statusVars
<1>4. LineTypes' /\ ChildTypes' /\ ControlTypes' /\ StatusTypes' /\ ProcTypes' /\ RunTypes' /\ StrayTypes'
  BY <1>3, Kept DEF procVars
<1>5. CASE /\ \E code \in {"sidecar-unavailable", "busy"} : FailUnbound(item.id, code)
           /\ UNCHANGED <<stdin, worker, binding>>
  <2>1. TableTypes' /\ nextId' = nextId
    BY <1>5, FailUnboundTypes DEF Outcomes
  <2> QED
    BY <1>1, <1>3, <1>4, <1>5, <2>1, Kept, WorkerTogether DEF WorkerParts
<1>6. CASE /\ TRUE \in Accepts /\ Queue(item, TRUE)
           /\ worker' = "bind" /\ binding' = item.id /\ UNCHANGED relayVars
  <2>1. StdinTypes'
    BY <1>2, <1>6, QueueTypes DEF TypeInv, Parts
  <2>2. WorkerTypes'
    BY <1>2, <1>3, <1>6 DEF TypeInv, Parts, WorkerTypes, Stations
  <2>3. TableTypes' /\ nextId' = nextId
    BY <1>6, Kept DEF relayVars
  <2> QED
    BY <1>1, <1>3, <1>4, <2>1, <2>2, <2>3, WorkerTogether DEF WorkerParts
<1> QED
  BY <1>5, <1>6 DEF ApplyDatalink

LEMMA BindTypes == ASSUME TypeInv, Bind PROVE TypeInv'
<1>1. /\ UNCHANGED <<callerVars, presses, childVars, statusVars, after, controlVars, procVars>>
      /\ UNCHANGED <<stopping, requests, lines, nextId, opOf, pending, reply>>
      /\ worker' = "loop" /\ binding' = NoId
  BY DEF Bind
<1>2. bound' \in [Ids -> Nat]
  BY DEF Bind, TypeInv, Parts, TableTypes, ChildTypes
<1>3. TableTypes' /\ WorkerTypes'
  BY <1>1, <1>2 DEF TypeInv, Parts, TableTypes, WorkerTypes, Stations
<1> QED
  BY <1>1, <1>3, Kept, WorkerTogether DEF WorkerParts, childVars, statusVars, procVars

LEMMA ReadLineTypes == ASSUME TypeInv, ReadLine PROVE TypeInv'
<1> DEFINE line == Head(lines)
<1>1. /\ UNCHANGED <<callerVars, presses, childVars, workerVars, controlVars, procVars>>
      /\ UNCHANGED <<stopping, requests, nextId, opOf>>
      /\ lines # <<>> /\ lines' = Tail(lines)
  BY DEF ReadLine
<1>2. LineTypes'
  BY <1>1, SeqTail, BoundsAssumption DEF TypeInv, Parts, LineTypes
<1>3. StatusTypes'
  BY DEF ReadLine, statusVars, TypeInv, Parts, StatusTypes, ProcTypes, LinkStates, AppStates
<1>4. TableTypes'
  <2>1. CASE UNCHANGED <<pending, bound, reply>>
    BY <1>1, <2>1, Kept
  <2>2. CASE Remove({line.id}) /\ reply' = [reply EXCEPT ![line.id] = "answer"]
    <3>1. "answer" \in Outcomes
      BY DEF Outcomes
    <3> QED
      BY <1>1, <2>2, <3>1, RemoveTypes, ReplyTypes DEF TypeInv, Parts, TableTypes
  <2> QED
    BY <2>1, <2>2 DEF ReadLine
<1> QED
  BY <1>1, <1>2, <1>3, <1>4, Kept, WorkerTogether DEF WorkerParts, childVars, workerVars, procVars

LEMMA NoticeExitTypes == ASSUME TypeInv, NoticeExit PROVE TypeInv'
<1>1. /\ UNCHANGED <<callerVars, presses, hello, workerVars, desired, procVars>>
      /\ UNCHANGED <<stopping, requests, lines>>
      /\ child' = FALSE /\ generation' = generation + 1 /\ stdin' = <<>> /\ dl' = "unavailable"
  BY DEF NoticeExit
<1>2. TableTypes' /\ nextId' = nextId
  BY FailGenerationTypes DEF NoticeExit
<1>3. StdinTypes' /\ ChildTypes'
  <2>1. <<>> \in Seq(Inputs) /\ Len(<<>>) <= InputCap
    BY BoundsAssumption
  <2>2. generation + 1 \in Nat
    BY DEF TypeInv, Parts, ChildTypes
  <2> QED
    BY <1>1, <2>1, <2>2 DEF StdinTypes, ChildTypes
<1>4. status' \in AppStates /\ restartAt' \in BOOLEAN /\ latched' \in BOOLEAN
  BY DEF NoticeExit, TypeInv, Parts, ControlTypes, AppStates
<1>5. attempts' \in Attempts
  <2>1. PICK counted \in 0..attempts : attempts' = counted \/ (counted # Budget /\ attempts' = counted + 1)
    BY DEF NoticeExit
  <2> QED
    BY <2>1, BoundsAssumption DEF TypeInv, Parts, ControlTypes, Attempts
<1>6. ControlTypes' /\ StatusTypes'
  BY <1>1, <1>4, <1>5 DEF TypeInv, Parts, ControlTypes, StatusTypes, LinkStates
<1> QED
  BY <1>1, <1>2, <1>3, <1>6, Kept, WorkerTogether DEF WorkerParts, workerVars, procVars

LEMMA InspectFailsTypes == ASSUME TypeInv, InspectFails PROVE TypeInv'
<1>1. /\ UNCHANGED <<callerVars, presses, hello, status, binding, controlVars, procVars>>
      /\ UNCHANGED <<stopping, requests, lines>>
  BY DEF InspectFails
<1>2. /\ TableTypes' /\ nextId' = nextId /\ ChildTypes' /\ StdinTypes'
      /\ worker' \in Stations /\ after' \in Sequels /\ dl' \in LinkStates
  BY TerminateTypes DEF InspectFails, Sequels
<1>3. WorkerTypes' /\ StatusTypes'
  BY <1>1, <1>2 DEF TypeInv, Parts, WorkerTypes, StatusTypes
<1> QED
  BY <1>1, <1>2, <1>3, Kept, WorkerTogether DEF WorkerParts, procVars

\* The steps that may launch a sidecar on the worker's own account.
LEMMA LaunchTypes == ASSUME TypeInv, Boot \/ Respawn PROVE TypeInv'
<1>1. /\ UNCHANGED <<callerVars, presses, relayVars, hello, binding, desired, attempts, runs, strays>>
      /\ UNCHANGED <<stopping, requests, lines>>
      /\ restartAt' \in {restartAt, FALSE}
  BY DEF Boot, Respawn
<1>2. Spawn(desired, status, latched)
  BY DEF Boot, Respawn
<1>3. /\ ChildTypes' /\ StdinTypes' /\ ProcTypes'
      /\ worker' \in Stations /\ after' \in Sequels
      /\ status' \in AppStates /\ dl' \in LinkStates /\ latched' \in BOOLEAN
  BY <1>2, SpawnTypes DEF TypeInv, Parts, ControlTypes, StatusTypes
<1>4. WorkerTypes' /\ ControlTypes' /\ StatusTypes' /\ TableTypes' /\ nextId' = nextId
  BY <1>1, <1>3, Kept DEF relayVars, TypeInv, Parts, WorkerTypes, ControlTypes, StatusTypes
<1> QED
  BY <1>1, <1>3, <1>4, Kept, WorkerTogether DEF WorkerParts

\* What a sidecar that could not be killed takes along is what it had.
LEMMA BehindTypes == ASSUME TypeInv, UNCHANGED strays \/ LeaveBehind PROVE StrayTypes'
<1>1. StrayTypes /\ ProcTypes /\ stdin \in Seq(Inputs) /\ StrayWords \in Nat
  BY BoundsAssumption DEF TypeInv, Parts, StdinTypes
<1>2. CASE LeaveBehind
  <2> DEFINE left == {n \in DOMAIN stdin : stdin[n].kind = "datalink"}
             todo == {stdin[n].id : n \in left}
  <2>1. \A n \in left : stdin[n] \in Inputs
    BY <1>1
  <2>2. todo \subseteq Ids
    BY <2>1 DEF Inputs
  <2>3. [gen |-> procGen, build |-> build, says |-> StrayWords, todo |-> todo, work |-> work] \in Strays
    BY <1>1, <2>2 DEF ProcTypes, Strays
  <2> QED
    BY <1>1, <1>2, <2>3 DEF LeaveBehind, StrayTypes
<1> QED
  BY <1>2, Kept

LEMMA GraceEndTypes == ASSUME TypeInv, GraceEnd PROVE TypeInv'
<1>1. /\ UNCHANGED <<callerVars, presses, relayVars, hello, binding, desired, restartAt, attempts, runs>>
      /\ UNCHANGED <<stopping, requests, lines>>
  BY DEF GraceEnd
<1>2. /\ ChildTypes' /\ StdinTypes' /\ ProcTypes'
      /\ worker' \in Stations /\ after' \in Sequels
      /\ status' \in AppStates /\ dl' \in LinkStates /\ latched' \in BOOLEAN
  <2>1. CASE Spawn(desired, "restarting", latched)
    BY <2>1, SpawnTypes DEF TypeInv, Parts, ControlTypes, AppStates
  <2>2. CASE /\ Kill /\ worker' \in {"drain", "loop"} /\ after' = "none"
             /\ status' \in {"crashed", status}
             /\ UNCHANGED <<child, generation, latched, dl, procGen, build>>
    <3>1. StdinTypes' /\ ProcTypes' /\ ChildTypes'
      BY <2>2, GoneTypes, Kept DEF Kill
    <3> QED
      BY <2>2, <3>1 DEF TypeInv, Parts, StatusTypes, ControlTypes, Stations, Sequels, AppStates
  <2> QED
    BY <2>1, <2>2 DEF GraceEnd
<1>s. StrayTypes'
  BY BehindTypes DEF GraceEnd
<1>3. WorkerTypes' /\ ControlTypes' /\ StatusTypes' /\ TableTypes' /\ nextId' = nextId
  BY <1>1, <1>2, Kept DEF relayVars, TypeInv, Parts, WorkerTypes, ControlTypes, StatusTypes
<1> QED
  BY <1>1, <1>2, <1>3, <1>s, Kept, WorkerTogether DEF WorkerParts

LEMMA EndTypes == ASSUME TypeInv, StopSeen \/ Drain \/ Close PROVE TypeInv'
<1>1. CASE StopSeen
  <2>1. /\ UNCHANGED <<callerVars, presses, hello, status, binding, desired, attempts, latched>>
        /\ UNCHANGED <<procVars, stopping, requests, lines>>
        /\ restartAt' = FALSE
    BY <1>1 DEF StopSeen
  <2>2. /\ TableTypes' /\ nextId' = nextId /\ ChildTypes' /\ StdinTypes'
        /\ worker' \in Stations /\ after' \in Sequels /\ dl' \in LinkStates
    <3>1. CASE Terminate("quit")
      BY <3>1, TerminateTypes DEF Sequels
    <3>2. CASE worker' = "drain" /\ UNCHANGED <<relayVars, childVars, dl, after>>
      BY <3>2, Kept DEF relayVars, childVars, TypeInv, Parts, WorkerTypes, StatusTypes, Stations
    <3> QED
      BY <1>1, <3>1, <3>2 DEF StopSeen
  <2>3. WorkerTypes' /\ StatusTypes' /\ ControlTypes'
    BY <2>1, <2>2 DEF TypeInv, Parts, WorkerTypes, StatusTypes, ControlTypes
  <2> QED
    BY <2>1, <2>2, <2>3, Kept, WorkerTogether DEF WorkerParts, procVars
<1>2. CASE Drain \/ Close
  <2>1. /\ UNCHANGED <<callerVars, presses, childVars, statusVars, after, binding, controlVars>>
        /\ UNCHANGED <<procVars, stopping, lines>>
        /\ worker' \in {worker, "closing", "done"}
    BY <1>2 DEF Drain, Close
  <2>2. RequestTypes'
    <3>1. CASE requests # <<>> /\ requests' = Tail(requests)
      BY <3>1, TakeTypes
    <3>2. CASE UNCHANGED requests
      BY <3>2, Kept
    <3>3. CASE requests' = <<>>
      <4>1. <<>> \in Seq(Requests) /\ Len(<<>>) <= RequestCap
        BY BoundsAssumption
      <4> QED
        BY <3>3, <4>1 DEF RequestTypes
    <3> QED
      BY <1>2, <3>1, <3>2, <3>3 DEF Drain, Close
  <2>3. TableTypes' /\ nextId' = nextId
    <3>1. CASE \E i : FailUnbound(i, "sidecar-unavailable")
      BY <3>1, FailUnboundTypes DEF Outcomes
    <3>2. CASE UNCHANGED relayVars
      BY <3>2, Kept DEF relayVars
    <3> QED
      BY <1>2, <3>1, <3>2 DEF Drain, Close
  <2>4. WorkerTypes'
    BY <2>1 DEF TypeInv, Parts, WorkerTypes, Stations
  <2> QED
    BY <2>1, <2>2, <2>3, <2>4, Kept, WorkerTogether DEF WorkerParts, childVars, statusVars, procVars
<1> QED
  BY <1>1, <1>2

-----------------------------------------------------------------------------
(* Steps of the sidecar process.                                           *)

LEMMA LineAdded ==
  ASSUME TypeInv, NEW line \in Lines, Len(lines) < LineCap, lines' = Append(lines, line)
  PROVE  LineTypes'
<1>1. LineTypes /\ LineCap \in Nat
  BY BoundsAssumption DEF TypeInv, Parts
<1> QED
  BY <1>1, SeqAppend DEF LineTypes

\* News of the sidecar's own, and the answer to a call.
LEMMA NewsTypes ==
  ASSUME TypeInv, NEW kind \in {"hello", "state", "status"}, Emit(kind, NoId)
  PROVE  LineTypes'
<1>1. [gen |-> procGen, kind |-> kind, id |-> NoId] \in Lines
  BY DEF TypeInv, Parts, ProcTypes, Lines
<1> QED
  BY <1>1, LineAdded DEF Emit, Send

LEMMA ResponseTypes ==
  ASSUME TypeInv, NEW i \in Ids, Emit("response", i)
  PROVE  LineTypes'
<1>1. [gen |-> procGen, kind |-> "response", id |-> i] \in Lines
  BY DEF TypeInv, Parts, ProcTypes, Lines
<1> QED
  BY <1>1, LineAdded DEF Emit, Send

LEMMA ProcessTypes == ASSUME TypeInv, Process PROVE TypeInv'
<1>1. /\ UNCHANGED <<callerVars, relayVars, child, generation, statusVars, workerVars, controlVars>>
      /\ UNCHANGED <<strays, stopping, requests, presses>>
  BY DEF Process
<1>2. /\ TableTypes' /\ WorkerTypes' /\ RequestTypes' /\ ChildTypes' /\ ControlTypes' /\ StatusTypes'
      /\ StrayTypes' /\ UNCHANGED <<callerVars, nextId, presses>>
  BY <1>1, Kept DEF relayVars, workerVars, statusVars
<1>p. ProcTypes /\ RunTypes /\ {} \subseteq Ids /\ 0 \in Spoken
  BY DEF TypeInv, Parts, Spoken
<1>3. CASE Announce
  <2>1. LineTypes'
    BY <1>3, NewsTypes DEF Announce
  <2>2. said' \in Spoken
    BY <1>3, <1>p DEF Announce, ProcTypes, Spoken
  <2>3. ProcTypes' /\ RunTypes' /\ StdinTypes'
    BY <1>3, <1>p, <2>2, Kept DEF Announce, ProcTypes
  <2> QED
    BY <1>2, <2>1, <2>3, WorkerTogether DEF WorkerParts
<1>4. CASE ReadStdin
  <2> DEFINE item == Head(stdin)
  <2>1. stdin # <<>> /\ UNCHANGED <<procGen, build>>
    BY <1>4 DEF ReadStdin
  <2>2. item \in Inputs /\ (stdin' = Tail(stdin) => StdinTypes')
    <3>1. StdinTypes /\ InputCap \in Nat
      BY BoundsAssumption DEF TypeInv, Parts
    <3> QED
      BY <2>1, <3>1, SeqTail DEF StdinTypes
  <2>3. CASE /\ item.kind \in {"start", "stop"} /\ uplink' = (item.kind = "start")
             /\ Emit("status", NoId) /\ stdin' = Tail(stdin) /\ UNCHANGED <<proc, said, work, runs>>
    <3>1. LineTypes'
      BY <2>3, NewsTypes
    <3>2. uplink' \in BOOLEAN
      BY <2>3
    <3>3. ProcTypes' /\ RunTypes'
      BY <1>p, <2>1, <2>3, <3>2, Kept DEF ProcTypes
    <3> QED
      BY <1>2, <2>2, <2>3, <3>1, <3>3, WorkerTogether DEF WorkerParts
  <2>4. CASE stdin' = Tail(stdin) /\ UNCHANGED <<proc, said, uplink, work, runs, lines>>
    BY <1>2, <2>1, <2>2, <2>4, Kept, WorkerTogether DEF WorkerParts
  <2>5. CASE Gone /\ UNCHANGED <<runs, lines>>
    BY <1>2, <2>1, <2>5, GoneTypes, Kept, WorkerTogether DEF WorkerParts
  <2>6. CASE /\ item.kind = "datalink" /\ stdin' = Tail(stdin)
             /\ work' \in {work \cup {item.id}, work}
             /\ runs' = [runs EXCEPT ![item.id] = @ + 1]
             /\ UNCHANGED <<proc, said, uplink, lines>>
    <3>1. item.id \in Ids
      BY <2>2, <2>6 DEF Inputs
    <3>2. ProcTypes'
      BY <1>p, <2>1, <2>6, <3>1 DEF ProcTypes
    <3>3. RunTypes'
      BY <1>p, <2>6, <3>1 DEF RunTypes
    <3> QED
      BY <1>2, <2>2, <2>6, <3>2, <3>3, Kept, WorkerTogether DEF WorkerParts
  <2> QED
    BY <1>4, <2>3, <2>4, <2>5, <2>6 DEF ReadStdin
<1>5. CASE Crash
  BY <1>2, <1>5, GoneTypes, Kept, WorkerTogether DEF Crash, WorkerParts
<1>6. CASE \E i \in Ids : Answer(i)
  <2>1. PICK i \in Ids : Answer(i)
    BY <1>6
  <2>2. LineTypes'
    BY <2>1, ResponseTypes DEF Answer
  <2>3. ProcTypes' /\ RunTypes' /\ StdinTypes'
    BY <1>p, <2>1, Kept DEF Answer, ProcTypes
  <2> QED
    BY <1>2, <2>2, <2>3, WorkerTogether DEF WorkerParts
<1> QED
  BY <1>3, <1>4, <1>5, <1>6 DEF Process

-----------------------------------------------------------------------------
(* Steps of a sidecar left behind.                                         *)

\* What a turn of one of them, p before and q after it, does to the rest: it
\* adds a line of its generation, about a request it has read, or it reads one.
Says(p, q) ==
  /\ runs' = runs /\ q.work \subseteq p.work
  /\ \/ lines' = lines
     \/ \E line \in Lines : /\ line.gen = p.gen /\ (line.kind = "response" => line.id \in p.work)
                           /\ Len(lines) < LineCap /\ lines' = Append(lines, line)
Reads(p, q, i) ==
  /\ i \in p.todo /\ i \notin q.todo /\ q.work \subseteq p.work \cup {i}
  /\ runs' = [runs EXCEPT ![i] = @ + 1] /\ lines' = lines
Does(p, q) ==
  /\ q.gen = p.gen /\ q.todo \subseteq p.todo
  /\ strays' \subseteq (strays \ {p}) \cup {q}
  /\ Says(p, q) \/ \E i \in Ids : Reads(p, q, i)

LEMMA StrayDoes == ASSUME TypeInv, Stray PROVE \E p \in strays, q \in Strays : Does(p, q)
<1>1. PICK p \in strays : \/ StraySays(p) \/ StrayEnds(p)
                         \/ \E i \in Ids : StrayReads(p, i) \/ StrayAnswers(p, i)
  BY DEF Stray
<1>2. p \in Strays /\ p.gen \in Nat
  BY DEF TypeInv, Parts, StrayTypes, Strays
<1>3. CASE StraySays(p)
  <2> DEFINE q == [p EXCEPT !.says = @ - 1]
             line == [gen |-> p.gen, kind |-> "status", id |-> NoId]
  <2>1. q \in Strays /\ q.gen = p.gen /\ q.todo = p.todo /\ q.work = p.work
    BY <1>2, <1>3 DEF StraySays, Strays
  <2>2. line \in Lines /\ line.gen = p.gen /\ line.kind # "response"
    BY <1>2 DEF Lines
  <2>3. Says(p, q)
    BY <1>3, <2>1, <2>2 DEF StraySays, Send, Says
  <2> QED
    BY <1>3, <2>1, <2>3 DEF StraySays, Turns, Does
<1>4. CASE StrayEnds(p)
  BY <1>2, <1>4 DEF StrayEnds, Does, Says
<1>5. ASSUME NEW i \in Ids, StrayReads(p, i) PROVE \E q \in Strays : Does(p, q)
  <2> DEFINE q == [p EXCEPT !.todo = @ \ {i},
                            !.work = IF NeedsOf(opOf[i]) \subseteq p.build THEN @ \cup {i} ELSE @]
  <2>1. /\ q \in Strays /\ q.gen = p.gen /\ q.todo = p.todo \ {i} /\ q.work \subseteq p.work \cup {i}
        /\ strays' = (strays \ {p}) \cup {q}
    BY <1>2, <1>5 DEF Strays, StrayReads, Turns
  <2> HIDE DEF q
  <2>2. Reads(p, q, i)
    BY <1>5, <2>1 DEF StrayReads, Reads
  <2> QED
    BY <2>1, <2>2 DEF Does
<1>6. ASSUME NEW i \in Ids, StrayAnswers(p, i) PROVE \E q \in Strays : Does(p, q)
  <2> DEFINE q == [p EXCEPT !.work = @ \ {i}]
             line == [gen |-> p.gen, kind |-> "response", id |-> i]
  <2>1. q \in Strays /\ q.gen = p.gen /\ q.todo = p.todo /\ q.work \subseteq p.work
    BY <1>2 DEF Strays
  <2>2. line \in Lines /\ line.gen = p.gen /\ line.id = i
    BY <1>2 DEF Lines
  <2>3. Says(p, q)
    BY <1>6, <2>1, <2>2 DEF StrayAnswers, Send, Says
  <2> QED
    BY <1>6, <2>1, <2>3 DEF StrayAnswers, Turns, Does
<1> QED
  BY <1>1, <1>3, <1>4, <1>5, <1>6

LEMMA StrayStepTypes == ASSUME TypeInv, Stray PROVE TypeInv'
<1>1. /\ UNCHANGED <<callerVars, relayVars, childVars, statusVars, workerVars, controlVars>>
      /\ UNCHANGED <<proc, procGen, build, said, uplink, work, stopping, requests, presses>>
  BY DEF Stray
<1>2. /\ TableTypes' /\ WorkerTypes' /\ RequestTypes' /\ StdinTypes' /\ ChildTypes' /\ ControlTypes'
      /\ StatusTypes' /\ ProcTypes' /\ UNCHANGED <<callerVars, nextId, presses>>
  BY <1>1, Kept DEF relayVars, workerVars, statusVars, childVars
<1>3. PICK p \in strays, q \in Strays : Does(p, q)
  BY StrayDoes
<1>4. StrayTypes'
  BY <1>3 DEF Does, TypeInv, Parts, StrayTypes
<1>5. LineTypes'
  BY <1>3, LineAdded, Kept DEF Does, Says, Reads
<1>6. RunTypes'
  BY <1>3 DEF Does, Says, Reads, TypeInv, Parts, RunTypes
<1> QED
  BY <1>2, <1>4, <1>5, <1>6, WorkerTogether DEF WorkerParts

LEMMA InitTypes == Init => TypeInv
<1> SUFFICES ASSUME Init PROVE TypeInv
  OBVIOUS
<1>1. /\ 0 \in Nat /\ 1 \in Nat \ {0} /\ 0 \in Spoken /\ 0 \in Attempts /\ 0 \in Presses
      /\ MaxCalls + 1 >= 1
  BY BoundsAssumption DEF Spoken, Attempts, Presses
<1>2. /\ <<>> \in Seq(Requests) /\ <<>> \in Seq(Lines) /\ <<>> \in Seq(Inputs) /\ Len(<<>>) = 0
      /\ 0 <= RequestCap /\ 0 <= LineCap /\ 0 <= InputCap
  BY BoundsAssumption
<1>3. Entering = {}
  BY DEF Init, Entering
<1>4. Room
  BY <1>1, <1>3, FS_EmptySet, BoundsAssumption DEF Init, Room
<1>5. CallerTypes /\ Named
  BY DEF Init, CallerTypes, Named, Places, Holding
<1>6. TableTypes /\ RunTypes /\ StrayTypes
  BY <1>1 DEF Init, TableTypes, RunTypes, StrayTypes, Outcomes, Unbound
<1>7. RequestTypes /\ LineTypes /\ StdinTypes
  BY <1>2 DEF Init, RequestTypes, LineTypes, StdinTypes
<1>8. WorkerTypes /\ ChildTypes /\ ControlTypes /\ Counted
  BY <1>1 DEF Init, WorkerTypes, ChildTypes, ControlTypes, Counted, Stations, Sequels
<1>9. StatusTypes /\ ProcTypes
  BY <1>1 DEF Init, StatusTypes, ProcTypes, LinkStates, AppStates
<1> QED
  BY <1>4, <1>5, <1>6, <1>7, <1>8, <1>9 DEF TypeInv, Parts

LEMMA NextTypes == TypeInv /\ [Next]_vars => TypeInv'
<1> SUFFICES ASSUME TypeInv, [Next]_vars PROVE TypeInv'
  OBVIOUS
<1>1. CASE Webview
  BY <1>1, GateTypes, AcquireTypes, RegisterTypes, EnqueueTypes, WaitTypes, PressTypes
     DEF Webview, CallerReturns
<1>2. CASE Worker \/ InspectFails
  BY <1>2, ButtonTypes, ApplyDatalinkTypes, BindTypes, ReadLineTypes, NoticeExitTypes, InspectFailsTypes,
     LaunchTypes, GraceEndTypes, EndTypes DEF Worker
<1>3. CASE Process \/ Stray
  BY <1>3, ProcessTypes, StrayStepTypes
<1>4. CASE UNCHANGED vars
  <2>1. /\ UNCHANGED <<callerVars, nextId, presses, opOf, pending, bound, reply, stopping, worker, after>>
        /\ UNCHANGED <<binding, requests, lines, stdin, child, generation, controlVars, hello, dl>>
        /\ UNCHANGED <<status, proc, procGen, build, said, uplink, work, runs, strays>>
    BY <1>4 DEF vars, relayVars, childVars, statusVars, workerVars, procVars
  <2> QED
    BY <2>1, Kept, WorkerTogether DEF WorkerParts
<1> QED
  BY <1>1, <1>2, <1>3, <1>4 DEF Next

\* Every reachable state is well typed: the queues keep to their capacities,
\* requests and answers name calls, and the ids never run out under a caller
\* that has passed the gate.
THEOREM TypeCorrect == Spec => []TypeOK
<1>1. Spec => []TypeInv
  BY InitTypes, NextTypes, PTL DEF Spec
<1> QED
  BY <1>1, TypeParts, PTL

-----------------------------------------------------------------------------
(* The life of the sidecar process.                                        *)

\* Where the worker may be with a child, and what runs then.
Holds ==
  /\ child => worker \in {"loop", "bind"} /\ procGen = generation
  /\ worker = "bind" => child
  /\ ProcessIsHeld

\* No respawn is due while there is a child or one is being replaced, and
\* whoever is about to launch one is not latched.
Latches ==
  /\ LatchHolds
  /\ child \/ worker \in {"boot", "grace"} => ~restartAt
  /\ worker = "boot" \/ (worker = "grace" /\ after = "restart") => ~latched

\* Lines are of this generation or older; without a child, of an older one.
Olds ==
  /\ proc = "running" /\ ~child => procGen < generation
  /\ \A n \in 1..Len(lines) :
       lines[n].gen <= generation /\ (~child => lines[n].gen < generation)

Shows ==
  /\ ~child => dl # "reported"
  /\ worker = "grace" => after # "none" /\ (after = "quit" => stopping)
  /\ (worker = "loop" /\ ~child /\ ~stopping) =>
        status = (IF restartAt THEN "restarting" ELSE "crashed")

LifeInv == Holds /\ Latches /\ Olds /\ Shows

\* The lines that are there keep their age when the generation ends.
LEMMA OldLines ==
  ASSUME TypeInv, Olds, UNCHANGED lines, generation' \in Nat, generation' > generation
  PROVE  \A n \in 1..Len(lines') : lines'[n].gen < generation'
<1>1. lines \in Seq(Lines) /\ generation \in Nat
  BY DEF TypeInv, Parts, LineTypes, ChildTypes
<1>2. \A n \in 1..Len(lines) : lines[n] \in Lines /\ lines[n].gen \in Nat
  BY <1>1 DEF Lines
<1> QED
  BY <1>1, <1>2 DEF Olds

\* Only while nothing is held is a sidecar launched; the step says what it
\* shows and that no latch or respawn is in force.
LEMMA SpawnLife ==
  ASSUME TypeInv, LifeInv, ~child, NEW want, NEW shown, Spawn(want, shown, FALSE),
         restartAt' = FALSE, UNCHANGED <<stopping, lines>>
  PROVE  LifeInv'
<1>1. generation \in Nat /\ procGen \in Nat /\ child \in BOOLEAN
  BY DEF TypeInv, Parts, ChildTypes, ProcTypes
<1>2. CASE /\ Gone /\ UNCHANGED <<child, generation, dl>> /\ worker' = "loop"
           /\ status' = "crashed" \/ stopping
           /\ latched' \in BOOLEAN
  <2>1. ~child' /\ proc' = "exited" /\ worker' = "loop" /\ ~restartAt'
    BY <1>2 DEF Gone
  <2>2. Holds' /\ Latches'
    BY <2>1 DEF Holds, Latches, ProcessIsHeld, LatchHolds
  <2>3. Olds'
    BY <1>2, <2>1 DEF LifeInv, Olds
  <2>4. Shows'
    BY <1>2, <2>1 DEF LifeInv, Shows
  <2> QED
    BY <2>2, <2>3, <2>4 DEF LifeInv
<1>3. CASE Launch(want) /\ latched' = FALSE
  <2>1. generation' \in Nat /\ generation' > generation /\ child' = TRUE /\ worker' = "loop"
        /\ procGen' = generation'
    BY <1>1, <1>3 DEF Launch
  <2>2. Olds'
    BY <2>1, OldLines, <1>1 DEF Olds, LifeInv, TypeInv, Parts, LineTypes, Lines
  <2> QED
    BY <1>3, <2>1, <2>2 DEF LifeInv, Holds, Latches, Shows, ProcessIsHeld, LatchHolds
<1>4. CASE HalfLaunch /\ latched' = FALSE
  <2>1. /\ generation' \in Nat /\ generation' > generation /\ child' = FALSE /\ worker' = "grace"
        /\ after' = "crashed" /\ procGen' < generation' /\ dl' = "unavailable"
    BY <1>1, <1>4 DEF HalfLaunch
  <2>2. \A n \in 1..Len(lines') : lines'[n].gen < generation' /\ lines'[n].gen <= generation'
    BY <2>1, OldLines, <1>1 DEF LifeInv, TypeInv, Parts, LineTypes, Lines
  <2> QED
    BY <1>4, <2>1, <2>2 DEF LifeInv, Holds, Latches, Olds, Shows, ProcessIsHeld, LatchHolds
<1> QED
  BY <1>2, <1>3, <1>4 DEF Spawn, LaunchFails, MaySpawn

\* The child is let go of: its lines are old from now on, and the worker waits.
LEMMA TerminateLife ==
  ASSUME TypeInv, LifeInv, child, NEW then, Terminate(then), then # "none", then = "quit" => stopping,
         restartAt' \in {restartAt, FALSE}, latched' \in {latched, FALSE},
         UNCHANGED <<proc, procGen, stopping, lines>>
  PROVE  LifeInv'
<1>1. generation \in Nat /\ procGen \in Nat
  BY DEF TypeInv, Parts, ChildTypes, ProcTypes
<1>2. /\ generation' \in Nat /\ generation' > generation /\ child' = FALSE /\ worker' = "grace"
      /\ after' = then /\ procGen' < generation' /\ dl' = "unavailable"
  BY <1>1 DEF Terminate, LifeInv, Holds
<1>3. \A n \in 1..Len(lines') : lines'[n].gen < generation' /\ lines'[n].gen <= generation'
  BY <1>1, <1>2, OldLines DEF LifeInv, TypeInv, Parts, LineTypes, Lines
<1>4. latched' = FALSE /\ restartAt' = FALSE
  BY DEF LifeInv, Latches, LatchHolds, TypeInv, Parts, ControlTypes
<1> QED
  BY <1>2, <1>3, <1>4 DEF LifeInv, Holds, Latches, Olds, Shows, ProcessIsHeld, LatchHolds

\* What the callers, and the process while it keeps running, leave alone.
LEMMA LifeKept ==
  ASSUME LifeInv, UNCHANGED <<child, generation, worker, after, latched, restartAt, proc, procGen>>
  PROVE  /\ Holds' /\ Latches'
         /\ UNCHANGED lines => Olds'
         /\ stopping' \in {stopping, TRUE} /\ status' = status /\ dl' \in {dl, "unavailable", "outdated"}
              => Shows'
BY DEF LifeInv, Holds, Latches, Olds, Shows, ProcessIsHeld, LatchHolds

LEMMA WebviewLife == ASSUME LifeInv, Webview PROVE LifeInv'
<1>1. CASE \E c \in Callers, op \in CallOps, valid \in BOOLEAN : Gate(c, op, valid)
  BY <1>1, LifeKept DEF Gate, LifeInv, childVars, workerVars, controlVars, procVars
<1>2. CASE \E c \in Callers : CallerReturns(c)
  <2>1. UNCHANGED <<childVars, statusVars, workerVars, controlVars, procVars, stopping, lines>>
    BY <1>2 DEF CallerReturns, Acquire, Register, Enqueue, Receive, Timeout, Abandon
  <2> QED
    BY <2>1, LifeKept DEF LifeInv, childVars, statusVars, workerVars, controlVars, procVars
<1>3. CASE (\E kind \in PressKinds : Press(kind)) \/ Shutdown
  BY <1>3, LifeKept DEF Press, Shutdown, LifeInv, childVars, statusVars, workerVars, controlVars, procVars
<1> QED
  BY <1>1, <1>2, <1>3 DEF Webview

LEMMA ProcessLife == ASSUME TypeInv, LifeInv, Process PROVE LifeInv'
<1>1. UNCHANGED <<child, generation, statusVars, workerVars, controlVars, stopping, procGen>>
  BY DEF Process, Announce, ReadStdin, Crash, Answer
<1>2. generation \in Nat /\ procGen \in Nat /\ lines \in Seq(Lines)
  BY DEF TypeInv, Parts, ChildTypes, ProcTypes, LineTypes
<1>3. Shows'
  BY <1>1 DEF LifeInv, Shows, statusVars, workerVars, controlVars
<1>4. proc' = "exited" \/ proc' = proc
  BY DEF Process, Announce, ReadStdin, Crash, Answer, Gone
<1>5. Holds' /\ Latches'
  BY <1>1, <1>4 DEF LifeInv, Holds, Latches, ProcessIsHeld, LatchHolds, workerVars, controlVars
<1> DEFINE Said(line) == proc = "running" /\ line.gen = procGen /\ lines' = Append(lines, line)
<1>6. UNCHANGED lines \/ \E line \in Lines : Said(line)
  <2>1. ASSUME NEW kind \in {"hello", "state", "status"}, proc = "running", Emit(kind, NoId)
        PROVE  \E line \in Lines : Said(line)
    <3>1. [gen |-> procGen, kind |-> kind, id |-> NoId] \in Lines
      BY <1>2 DEF Lines
    <3> QED
      BY <2>1, <3>1 DEF Emit, Send
  <2>2. ASSUME NEW i \in Ids, proc = "running", Emit("response", i)
        PROVE  \E line \in Lines : Said(line)
    <3>1. [gen |-> procGen, kind |-> "response", id |-> i] \in Lines
      BY <1>2 DEF Lines
    <3> QED
      BY <2>2, <3>1 DEF Emit, Send
  <2>3. CASE Announce
    BY <2>1, <2>3 DEF Announce
  <2>4. CASE ReadStdin
    BY <2>1, <2>4 DEF ReadStdin
  <2>5. CASE Crash
    BY <2>5 DEF Crash
  <2>6. CASE \E i \in Ids : Answer(i)
    BY <2>2, <2>6 DEF Answer
  <2> QED
    BY <2>3, <2>4, <2>5, <2>6 DEF Process
<1>7. ASSUME UNCHANGED lines PROVE Olds'
  BY <1>1, <1>4, <1>7 DEF LifeInv, Olds
<1>8. ASSUME \E line \in Lines : Said(line) PROVE Olds'
  <2>1. PICK line \in Lines : Said(line)
    BY <1>8
  <2>2. procGen <= generation /\ (~child => procGen < generation)
    BY <1>2, <2>1 DEF LifeInv, Olds, Holds
  <2>3. /\ Len(lines') = Len(lines) + 1 /\ Len(lines) \in Nat
        /\ lines'[Len(lines) + 1] = line /\ \A n \in 1..Len(lines) : lines'[n] = lines[n]
    BY <1>2, <2>1
  <2>4. ASSUME NEW n \in 1..Len(lines')
        PROVE  lines'[n].gen <= generation' /\ (~child' => lines'[n].gen < generation')
    <3>1. CASE n = Len(lines) + 1
      BY <1>1, <2>1, <2>2, <2>3, <3>1
    <3>2. CASE n \in 1..Len(lines)
      BY <1>1, <2>3, <3>2 DEF LifeInv, Olds
    <3> QED
      BY <2>3, <3>1, <3>2
  <2>5. proc' = "running" /\ ~child' => procGen' < generation'
    BY <1>1, <1>4 DEF LifeInv, Olds
  <2> QED
    BY <2>4, <2>5 DEF Olds
<1> QED
  BY <1>3, <1>5, <1>6, <1>7, <1>8 DEF LifeInv

LEMMA WorkerLife == ASSUME TypeInv, LifeInv, Worker \/ InspectFails PROVE LifeInv'
<1> USE DEF Takes
<1>t. /\ child \in BOOLEAN /\ restartAt \in BOOLEAN /\ latched \in BOOLEAN /\ stopping \in BOOLEAN
      /\ generation \in Nat /\ lines \in Seq(Lines)
  BY DEF TypeInv, Parts, ChildTypes, ControlTypes, WorkerTypes, LineTypes
<1>1. CASE Boot
  <2>1. ~child /\ ~latched /\ ~restartAt
    BY <1>1 DEF Boot, LifeInv, Holds, Latches
  <2> QED
    BY <1>1, <1>t, <2>1, SpawnLife DEF Boot
<1>2. CASE ApplyStart
  <2>1. CASE child \/ ~StartMaySpawn
    BY <1>2, <2>1, LifeKept DEF ApplyStart, LifeInv, Control, childVars, workerVars, procVars
  <2>2. CASE ~child /\ StartMaySpawn
    <3>1. latched = FALSE /\ restartAt' = FALSE /\ UNCHANGED <<stopping, lines>>
      BY <1>2, <1>t, <2>2 DEF ApplyStart, StartMaySpawn
    <3> QED
      BY <1>2, <2>2, <3>1, SpawnLife DEF ApplyStart
  <2> QED
    BY <2>1, <2>2
<1>3. CASE ApplyStop
  <2>1. /\ UNCHANGED <<child, generation, worker, after, latched, procVars, stopping, lines, dl>>
        /\ restartAt' = FALSE
    BY <1>3 DEF ApplyStop, workerVars
  <2>2. Holds' /\ Latches' /\ Olds'
    BY <2>1 DEF LifeInv, Holds, Latches, Olds, ProcessIsHeld, LatchHolds, procVars
  <2>3. Shows'
    BY <1>3, <2>1 DEF ApplyStop, LifeInv, Shows
  <2> QED
    BY <2>2, <2>3 DEF LifeInv
<1>4. CASE ApplyRestart
  <2>1. restartAt' = FALSE /\ UNCHANGED <<stopping, lines>>
    BY <1>4 DEF ApplyRestart
  <2>2. CASE child /\ latched' = FALSE /\ Terminate("restart") /\ UNCHANGED procVars
    BY <2>1, <2>2, TerminateLife DEF procVars
  <2>3. CASE ~child /\ Spawn(desired, "restarting", FALSE)
    BY <2>1, <2>3, SpawnLife
  <2> QED
    BY <1>4, <2>2, <2>3 DEF ApplyRestart
<1>5. CASE ApplyReload
  <2>1. /\ UNCHANGED <<child, generation, worker, after, latched, restartAt, procVars, stopping, lines, dl>>
    BY <1>5 DEF ApplyReload, workerVars, controlVars
  <2>2. Holds' /\ Latches' /\ Olds'
    BY <2>1, LifeKept DEF LifeInv, procVars
  <2>3. Shows'
    BY <1>5, <2>1 DEF ApplyReload, LifeInv, Shows
  <2> QED
    BY <2>2, <2>3 DEF LifeInv
<1>6. CASE ApplyDatalink
  <2>1. /\ UNCHANGED <<child, generation, after, latched, restartAt, procVars, stopping, lines, dl, status>>
        /\ worker' = worker \/ (worker' = "bind" /\ child)
        /\ worker = "loop"
    BY <1>6 DEF ApplyDatalink, statusVars, controlVars
  <2> QED
    BY <2>1 DEF LifeInv, Holds, Latches, Olds, Shows, ProcessIsHeld, LatchHolds, procVars
<1>7. CASE Bind
  <2>1. /\ UNCHANGED <<child, generation, after, latched, restartAt, procVars, stopping, lines, dl, status>>
        /\ worker' = "loop" /\ worker = "bind"
    BY <1>7 DEF Bind, statusVars, controlVars, childVars
  <2> QED
    BY <2>1 DEF LifeInv, Holds, Latches, Olds, Shows, ProcessIsHeld, LatchHolds, procVars
<1>8. CASE ReadLine
  <2>1. /\ UNCHANGED <<child, generation, worker, after, latched, restartAt, procVars, stopping>>
        /\ lines # <<>> /\ lines' = Tail(lines)
    BY <1>8 DEF ReadLine, workerVars, controlVars, childVars
  <2>2. Len(lines) \in Nat \ {0} /\ Len(lines') = Len(lines) - 1
        /\ \A n \in 1..Len(lines') : n + 1 \in 1..Len(lines) /\ lines'[n] = lines[n + 1]
    BY <1>t, <2>1
  <2>3. Olds'
    BY <2>1, <2>2 DEF LifeInv, Olds, procVars
  <2>4. 1 \in 1..Len(lines) /\ Head(lines) = lines[1] /\ lines[1].gen \in Nat
    BY <1>t, <2>2 DEF Lines
  <2>5. ~child => ~Current(Head(lines))
    BY <1>t, <2>4 DEF LifeInv, Olds, Current
  <2>6. ~child => UNCHANGED <<status, dl>>
    BY <1>8, <2>5 DEF ReadLine, statusVars
  <2>7. Shows'
    BY <2>1, <2>6 DEF LifeInv, Shows
  <2> QED
    BY <2>1, <2>3, <2>7, LifeKept DEF LifeInv, procVars
<1>9. CASE NoticeExit
  <2>1. /\ UNCHANGED <<worker, after, procVars, stopping, lines>>
        /\ child /\ proc = "exited" /\ child' = FALSE /\ generation' = generation + 1 /\ dl' = "unavailable"
        /\ worker = "loop"
    BY <1>9 DEF NoticeExit, workerVars
  <2>2. \/ latched' = TRUE /\ status' = "crashed" /\ restartAt' = restartAt
        \/ latched' = latched /\ status' = "restarting" /\ restartAt' = TRUE
    BY <1>9 DEF NoticeExit
  <2>3. latched = FALSE /\ restartAt = FALSE
    BY <1>t, <2>1 DEF LifeInv, Latches, LatchHolds
  <2>4. \A n \in 1..Len(lines') : lines'[n].gen < generation' /\ lines'[n].gen <= generation'
    BY <1>t, <2>1, OldLines DEF LifeInv, Lines
  <2> QED
    BY <2>1, <2>2, <2>3, <2>4 DEF LifeInv, Holds, Latches, Olds, Shows, ProcessIsHeld, LatchHolds, procVars
<1>10. CASE InspectFails
  BY <1>10, TerminateLife DEF InspectFails, controlVars, procVars
<1>11. CASE Respawn
  <2>1. ~child /\ latched = FALSE /\ restartAt' = FALSE
    BY <1>11, <1>t DEF Respawn, LifeInv, Latches, LatchHolds
  <2> QED
    BY <1>11, <2>1, SpawnLife DEF Respawn
<1>12. CASE GraceEnd
  <2>1. ~child /\ restartAt' = FALSE /\ worker = "grace" /\ UNCHANGED <<stopping, lines>>
    BY <1>12, <1>t DEF GraceEnd, LifeInv, Holds, Latches
  <2>2. CASE after = "restart"
    <3>1. latched = FALSE
      BY <1>t, <2>1, <2>2 DEF LifeInv, Latches
    <3> QED
      BY <1>12, <2>1, <2>2, <3>1, SpawnLife DEF GraceEnd
  <2>3. CASE after # "restart"
    <3>1. /\ proc' = "exited" /\ UNCHANGED <<child, generation, latched, dl>>
          /\ worker' = (IF after = "quit" THEN "drain" ELSE "loop")
          /\ status' = (IF after = "crashed" THEN "crashed" ELSE status)
      BY <1>12, <2>3 DEF GraceEnd, Kill, Gone
    <3>2. after \in {"crashed", "quit"}
      BY <2>1, <2>3 DEF LifeInv, Shows, TypeInv, Parts, WorkerTypes, Sequels
    <3>3. ~child' /\ ~restartAt' /\ worker' \in {"drain", "loop"}
      BY <2>1, <3>1
    <3>4. Holds' /\ Latches'
      BY <3>1, <3>3 DEF Holds, Latches, ProcessIsHeld, LatchHolds
    <3>5. Olds'
      BY <2>1, <3>1 DEF LifeInv, Olds
    <3>6. Shows'
      BY <2>1, <3>1, <3>2, <3>3 DEF LifeInv, Shows
    <3> QED
      BY <3>4, <3>5, <3>6 DEF LifeInv
  <2> QED
    BY <2>2, <2>3
<1>13. CASE StopSeen
  <2>1. restartAt' = FALSE /\ stopping /\ UNCHANGED <<stopping, lines, latched, procVars, status>>
    BY <1>13 DEF StopSeen
  <2>2. CASE child /\ Terminate("quit")
    BY <2>1, <2>2, TerminateLife DEF procVars
  <2>3. CASE ~child /\ worker' = "drain" /\ UNCHANGED <<childVars, dl, after>>
    <3>1. ~child' /\ ~restartAt' /\ worker' = "drain" /\ UNCHANGED <<generation, dl, proc, procGen>>
      BY <2>1, <2>3 DEF childVars, procVars
    <3>2. proc # "running"
      BY <1>13, <2>3 DEF StopSeen, LifeInv, Holds, ProcessIsHeld
    <3> QED
      BY <2>1, <2>3, <3>1, <3>2 DEF LifeInv, Holds, Latches, Olds, Shows, ProcessIsHeld, LatchHolds
  <2> QED
    BY <1>13, <2>2, <2>3 DEF StopSeen
<1>14. CASE Drain \/ Close
  <2>1. /\ UNCHANGED <<child, generation, after, latched, restartAt, procVars, stopping, lines, dl, status>>
        /\ worker \in {"drain", "closing"} /\ worker' \in {"drain", "closing", "done"}
    BY <1>14 DEF Drain, Close, statusVars, controlVars, childVars
  <2> QED
    BY <2>1 DEF LifeInv, Holds, Latches, Olds, Shows, ProcessIsHeld, LatchHolds, procVars
<1> QED
  BY <1>1, <1>2, <1>3, <1>4, <1>5, <1>6, <1>7, <1>8, <1>9, <1>10, <1>11, <1>12, <1>13, <1>14 DEF Worker

\* The sidecars that were left behind are of generations that are over.
Outlived == \A p \in strays : p.gen < generation

\* A line of one of them is older than what the worker holds, and it touches nothing else.
LEMMA StrayLife == ASSUME TypeInv, LifeInv, Outlived, Stray PROVE LifeInv' /\ Outlived'
<1>1. /\ UNCHANGED <<child, generation, worker, after, latched, restartAt, proc, procGen>>
      /\ UNCHANGED <<stopping, status, dl>>
  BY DEF Stray, childVars, statusVars, workerVars, controlVars
<1>2. generation \in Nat /\ lines \in Seq(Lines) /\ strays \subseteq Strays
  BY DEF TypeInv, Parts, ChildTypes, LineTypes, StrayTypes
<1>3. PICK p \in strays, q \in Strays : Does(p, q)
  BY StrayDoes
<1>4. p.gen \in Nat /\ p.gen < generation
  BY <1>2 DEF Outlived, Strays
<1>5. Outlived'
  BY <1>1, <1>3, <1>4 DEF Does, Outlived
<1>6. CASE UNCHANGED lines
  BY <1>1, <1>5, <1>6, LifeKept DEF LifeInv
<1>7. CASE \E line : line.gen = p.gen /\ lines' = Append(lines, line)
  <2>1. PICK line : line.gen = p.gen /\ lines' = Append(lines, line)
    BY <1>7
  <2>2. /\ Len(lines') = Len(lines) + 1 /\ Len(lines) \in Nat
        /\ lines'[Len(lines) + 1] = line /\ \A n \in 1..Len(lines) : lines'[n] = lines[n]
    BY <1>2, <2>1
  <2>3. ASSUME NEW n \in 1..Len(lines')
        PROVE  lines'[n].gen <= generation' /\ (~child' => lines'[n].gen < generation')
    <3>1. CASE n = Len(lines) + 1
      BY <1>1, <1>2, <1>4, <2>1, <2>2, <3>1
    <3>2. CASE n \in 1..Len(lines)
      BY <1>1, <2>2, <3>2 DEF LifeInv, Olds
    <3> QED
      BY <2>2, <3>1, <3>2
  <2>4. Olds'
    BY <1>1, <2>3 DEF LifeInv, Olds
  <2> QED
    BY <1>1, <1>5, <2>4, LifeKept DEF LifeInv
<1> QED
  BY <1>3, <1>6, <1>7 DEF Does, Says, Reads

\* Generations only grow, and a sidecar is left behind when its own is over.
LEMMA WorkerOutlived ==
  ASSUME TypeInv, LifeInv, Outlived, Worker \/ InspectFails
  PROVE  Outlived'
<1>1. generation \in Nat /\ strays \subseteq Strays
  BY DEF TypeInv, Parts, ChildTypes, StrayTypes
<1>2. generation' \in Nat /\ generation' >= generation
  <2> DEFINE Later == {generation, generation + 1, generation + 2}
  <2>1. ASSUME NEW want, NEW shown, NEW latch, Spawn(want, shown, latch)
        PROVE  generation' \in Later
    BY <2>1 DEF Spawn, Launch, HalfLaunch, LaunchFails
  <2>2. ASSUME NEW then, Terminate(then) PROVE generation' \in Later
    BY <2>2 DEF Terminate
  <2>3. generation \in Later /\ generation + 1 \in Later
    OBVIOUS
  <2> HIDE DEF Later
  <2>4. generation' \in Later
    <3>1. CASE Boot \/ Respawn \/ GraceEnd
      BY <2>1, <2>3, <3>1 DEF Boot, Respawn, GraceEnd
    <3>2. CASE ApplyStart
      BY <2>1, <2>3, <3>2 DEF ApplyStart, childVars
    <3>3. CASE ApplyRestart
      BY <2>1, <2>2, <3>3 DEF ApplyRestart
    <3>4. CASE StopSeen \/ InspectFails
      BY <2>2, <2>3, <3>4 DEF StopSeen, InspectFails, childVars
    <3>5. CASE NoticeExit
      BY <2>3, <3>5 DEF NoticeExit
    <3>6. CASE ApplyStop \/ ApplyReload \/ ApplyDatalink \/ Bind \/ ReadLine \/ Drain \/ Close
      BY <2>3, <3>6 DEF ApplyStop, ApplyReload, ApplyDatalink, Bind, ReadLine, Drain, Close, childVars
    <3> QED
      BY <3>1, <3>2, <3>3, <3>4, <3>5, <3>6 DEF Worker
  <2> QED
    BY <1>1, <2>4 DEF Later
<1>3. CASE UNCHANGED strays
  BY <1>1, <1>2, <1>3 DEF Outlived, Strays
<1>4. CASE GraceEnd /\ LeaveBehind
  <2>1. procGen \in Nat /\ procGen < generation
    BY <1>4 DEF GraceEnd, LeaveBehind, LifeInv, Holds, Olds, TypeInv, Parts, ProcTypes, ChildTypes
  <2>2. \A p \in strays' : p \in strays \/ p.gen = procGen
    BY <1>4 DEF LeaveBehind
  <2> QED
    BY <1>1, <1>2, <2>1, <2>2 DEF Outlived, Strays
<1>5. UNCHANGED strays \/ (GraceEnd /\ LeaveBehind)
  BY DEF Worker, Boot, ApplyStart, ApplyStop, ApplyRestart, ApplyReload, ApplyDatalink, Bind, ReadLine,
      NoticeExit, InspectFails, Respawn, GraceEnd, StopSeen, Drain, Close, procVars
<1> QED
  BY <1>3, <1>4, <1>5

LEMMA InitLife == Init => LifeInv /\ Outlived
<1>1. Init => Len(lines) = 0
  BY DEF Init
<1> QED
  BY <1>1 DEF Init, LifeInv, Holds, Latches, Olds, Shows, ProcessIsHeld, LatchHolds, Outlived

LEMMA NextLife == TypeInv /\ LifeInv /\ Outlived /\ [Next]_vars => LifeInv' /\ Outlived'
<1> SUFFICES ASSUME TypeInv, LifeInv, Outlived, [Next]_vars PROVE LifeInv' /\ Outlived'
  OBVIOUS
<1>1. CASE UNCHANGED vars
  BY <1>1, LifeKept DEF LifeInv, Outlived, vars, childVars, statusVars, workerVars, controlVars, procVars
<1>2. CASE Webview \/ Process
  <2>1. UNCHANGED <<strays, generation>>
    BY <1>2 DEF Webview, CallerReturns, Gate, Acquire, Register, Enqueue, Receive, Timeout, Abandon, Press,
        Shutdown, Process, procVars, childVars
  <2> QED
    BY <1>2, <2>1, WebviewLife, ProcessLife DEF Outlived
<1>3. CASE Worker \/ InspectFails
  BY <1>3, WorkerLife, WorkerOutlived
<1> QED
  BY <1>1, <1>2, <1>3, StrayLife DEF Next

LEMMA TypesAndLife == Spec => [](TypeInv /\ LifeInv /\ Outlived)
BY InitTypes, NextTypes, InitLife, NextLife, PTL DEF Spec

\* The crash latch: a sidecar that keeps failing is not launched again, by
\* START, by a respawn or by the end of a grace, until RESTART.
THEOREM LatchIsKept == Spec => []LatchHolds
<1>1. LifeInv => LatchHolds
  BY DEF LifeInv, Latches
<1> QED
  BY <1>1, TypesAndLife, PTL

\* What the window shows of a sidecar that is gone is true: no line of it that
\* was still in the pipe is shown, and RESTARTING stands for a respawn that is due.
THEOREM WindowIsTrue == Spec => []ShownStateIsTrue
<1>1. LifeInv => ShownStateIsTrue
  BY DEF LifeInv, Shows, ShownStateIsTrue
<1> QED
  BY <1>1, TypesAndLife, PTL

\* After the shutdown flag is up nothing is launched, whatever was under way.
THEOREM StoppingLaunchesNothing == Spec => NothingLaunchedWhenStopping
<1>1. [Next]_vars => [stopping => procGen' = procGen]_vars
  <2> SUFFICES ASSUME stopping, Next PROVE procGen' = procGen
    OBVIOUS
  <2>1. ASSUME NEW want, NEW shown, NEW latch, Spawn(want, shown, latch) PROVE procGen' = procGen
    BY <2>1 DEF Spawn, MaySpawn, LaunchFails
  <2>2. CASE Webview
    BY <2>2 DEF Webview, CallerReturns, Gate, Acquire, Register, Enqueue, Receive, Timeout, Abandon, Press,
        Shutdown, procVars
  <2>3. CASE Process \/ Stray
    BY <2>3 DEF Process, Announce, ReadStdin, Crash, Answer, Stray
  <2>4. CASE Boot \/ ApplyStart \/ ApplyRestart \/ Respawn \/ GraceEnd
    BY <2>1, <2>4 DEF Boot, ApplyStart, ApplyRestart, Respawn, GraceEnd, procVars
  <2>5. CASE ApplyStop \/ ApplyReload \/ ApplyDatalink \/ Bind \/ ReadLine \/ NoticeExit \/ InspectFails
    BY <2>5 DEF ApplyStop, ApplyReload, ApplyDatalink, Bind, ReadLine, NoticeExit, InspectFails, procVars
  <2>6. CASE StopSeen \/ Drain \/ Close
    BY <2>6 DEF StopSeen, Drain, Close, procVars
  <2> QED
    BY <2>2, <2>3, <2>4, <2>5, <2>6 DEF Next, Worker
<1> QED
  BY <1>1, PTL DEF Spec, NothingLaunchedWhenStopping

-----------------------------------------------------------------------------
(* The calls: bound to the sidecar the worker holds.                       *)

\* An id that is not in the table is bound to nothing, so a call that registers
\* starts unbound.
TableInv ==
  /\ BoundIsLive
  /\ \A i \in Ids \ pending : bound[i] = Unbound

\* What leaves the table leaves nothing behind.
LEMMA RemoveTable ==
  ASSUME TypeInv, TableInv, NEW ids, Remove(ids), UNCHANGED <<child, generation>>
  PROVE  TableInv'
BY DEF TypeInv, Parts, TableTypes, TableInv, BoundIsLive, Remove

\* When its generation fails, every call the sidecar had is gone from the table.
LEMMA FailTable ==
  ASSUME TypeInv, TableInv, FailGeneration(generation)
  PROVE  TableInv'
BY DEF TypeInv, Parts, TableTypes, TableInv, BoundIsLive, Remove, FailGeneration

\* A sidecar that is launched has no calls yet.
LEMMA NoChildTable ==
  ASSUME TypeInv, TableInv, ~child, UNCHANGED <<pending, bound>>
  PROVE  TableInv'
BY DEF TypeInv, Parts, TableTypes, TableInv, BoundIsLive

LEMMA TableKept ==
  ASSUME TableInv, UNCHANGED <<pending, bound, child, generation>>
  PROVE  TableInv'
BY DEF TableInv, BoundIsLive

LEMMA WebviewTable == ASSUME TypeInv, TableInv, Webview PROVE TableInv'
<1>1. UNCHANGED childVars
  BY DEF Webview, CallerReturns, Gate, Acquire, Register, Enqueue, Receive, Timeout, Abandon, Press, Shutdown
<1>2. CASE UNCHANGED <<pending, bound>>
  BY <1>1, <1>2, TableKept DEF childVars
<1>3. CASE \E i \in Ids \cup {NoId} : Remove({i})
  BY <1>1, <1>3, RemoveTable DEF childVars
<1>4. CASE pending' = pending \cup {nextId} /\ bound' = bound
  <2>1. nextId \in Ids
    BY <1>4, NextTypes DEF Next, TypeInv, Parts, TableTypes
  <2>2. \A i \in pending' : i \in pending \/ i \in Ids \ pending
    BY <1>4, <2>1
  <2> QED
    BY <1>1, <1>4, <2>2 DEF TableInv, BoundIsLive, childVars
<1>5. ASSUME NEW c \in Callers, CallerReturns(c)
      PROVE  \/ UNCHANGED <<pending, bound>>
             \/ \E i \in Ids \cup {NoId} : Remove({i})
             \/ pending' = pending \cup {nextId} /\ bound' = bound
  <2>1. callId[c] \in Ids \cup {NoId}
    BY DEF TypeInv, Parts, CallerTypes
  <2> QED
    BY <1>5, <2>1 DEF CallerReturns, Acquire, Register, Enqueue, Receive, Timeout, Abandon, GiveBack, relayVars
<1>6. CASE \/ \E c \in Callers, op \in CallOps, valid \in BOOLEAN : Gate(c, op, valid)
           \/ \E kind \in PressKinds : Press(kind)
           \/ Shutdown
  BY <1>6, <1>2 DEF Gate, Press, Shutdown, relayVars
<1> QED
  BY <1>2, <1>3, <1>4, <1>5, <1>6 DEF Webview

LEMMA WorkerTable == ASSUME TypeInv, LifeInv, TableInv, Worker \/ InspectFails PROVE TableInv'
<1>1. CASE Boot \/ Respawn \/ GraceEnd
  <2>1. ~child
    BY <1>1 DEF Boot, Respawn, GraceEnd, LifeInv, Holds, Latches
  <2> QED
    BY <1>1, <2>1, NoChildTable DEF Boot, Respawn, GraceEnd, relayVars
<1>2. CASE ApplyStart
  BY <1>2, NoChildTable, TableKept DEF ApplyStart, Control, relayVars, childVars
<1>3. CASE ApplyRestart \/ StopSeen \/ InspectFails
  BY <1>3, FailTable, NoChildTable, TableKept DEF ApplyRestart, StopSeen, InspectFails, Terminate, relayVars, childVars
<1>4. CASE ApplyStop \/ ApplyReload \/ Close
  BY <1>4, TableKept DEF ApplyStop, ApplyReload, Close, relayVars, childVars
<1>5. CASE ApplyDatalink \/ Drain
  <2>1. UNCHANGED <<child, generation>>
    BY <1>5 DEF ApplyDatalink, Drain, childVars
  <2>2. ASSUME NEW i, NEW code, FailUnbound(i, code) PROVE TableInv'
    BY <2>1, <2>2, RemoveTable, TableKept DEF FailUnbound
  <2>3. CASE UNCHANGED relayVars
    BY <2>1, <2>3, TableKept DEF relayVars
  <2> QED
    BY <1>5, <2>2, <2>3 DEF ApplyDatalink, Drain
<1>6. CASE Bind
  <2>1. child /\ UNCHANGED <<child, generation, pending>>
    BY <1>6 DEF Bind, childVars, LifeInv, Holds
  <2>2. bound' = IF binding \in pending THEN [bound EXCEPT ![binding] = generation] ELSE bound
    BY <1>6 DEF Bind
  <2> QED
    BY <2>1, <2>2 DEF TypeInv, Parts, TableTypes, TableInv, BoundIsLive
<1>7. CASE ReadLine
  <2>1. UNCHANGED childVars /\ ((\E i : Remove({i})) \/ UNCHANGED <<pending, bound>>)
    BY <1>7 DEF ReadLine
  <2> QED
    BY <2>1, RemoveTable, TableKept DEF childVars
<1>8. CASE NoticeExit
  BY <1>8, FailTable DEF NoticeExit
<1> QED
  BY <1>1, <1>2, <1>3, <1>4, <1>5, <1>6, <1>7, <1>8 DEF Worker

LEMMA NextTable == TypeInv /\ LifeInv /\ TableInv /\ [Next]_vars => TableInv'
<1>1. ASSUME TableInv, Process \/ Stray \/ UNCHANGED vars PROVE TableInv'
  BY <1>1, TableKept DEF Process, Stray, vars, relayVars, childVars
<1> QED
  BY <1>1, WebviewTable, WorkerTable DEF Next

\* No call waits on a sidecar that is gone: whichever way the worker lets go of
\* one, the calls bound to it have been answered by the end of that step.
THEOREM CallsAreBoundToTheLiving == Spec => []BoundIsLive
<1>1. Init => TableInv
  BY DEF Init, TableInv, BoundIsLive
<1>2. TableInv => BoundIsLive
  BY DEF TableInv
<1> QED
  BY <1>1, <1>2, NextTable, TypesAndLife, PTL DEF Spec

\* The sidecar that runs is the one the worker holds or waits for; one it failed
\* to kill is of a generation that is over, for good, and no call is bound to it.
THEOREM NoneIsOrphaned == Spec => []NoOrphanProcess
<1>1. LifeInv => ProcessIsHeld
  BY DEF LifeInv, Holds
<1>2. TypeInv /\ Outlived /\ BoundIsLive => StraysAreOver
  BY DEF Outlived, BoundIsLive, StraysAreOver, TypeInv, Parts, ChildTypes, StrayTypes, Strays
<1>3. ProcessIsHeld /\ StraysAreOver => NoOrphanProcess
  BY DEF NoOrphanProcess
<1> QED
  BY <1>1, <1>2, <1>3, CallsAreBoundToTheLiving, TypesAndLife, PTL

\* Of the sidecars the worker did not fail to kill at most one runs, in its hold
\* or its grace, and a used-up restart budget leaves none and lets none be launched.
THEOREM OneProcessIsHeld == Spec => []OneProcessHeld
<1>1. NoOrphanProcess /\ LatchHolds => OneProcessHeld
  BY DEF OneProcessHeld
<1> QED
  BY <1>1, LatchIsKept, NoneIsOrphaned, PTL

-----------------------------------------------------------------------------
(* The single-flight flags.                                                *)

Inside(g) == {c \in Callers : pc[c] \notin {"idle", "gated"} /\ GuardOf(callOp[c]) = g}

\* OneWriteAtATime without counting.
FlagInv ==
  \A g \in Guards :
    /\ \A c, d \in Inside(g) : c = d
    /\ g \in held <=> Inside(g) # {}

\* A call that returns takes its flag down with it.
LEMMA ReturnFlag ==
  ASSUME TypeInv, FlagInv, NEW c \in Callers, NEW outcome, Return(c, outcome)
  PROVE  FlagInv'
<1> SUFFICES ASSUME NEW g \in Guards
             PROVE  (\A b, d \in Inside(g)' : b = d) /\ (g \in held' <=> Inside(g)' # {})
  BY DEF FlagInv
<1>1. Inside(g)' = Inside(g) \ {c}
  BY DEF Inside, Return, TypeInv, Parts, CallerTypes
<1>2. CASE c \in Inside(g)
  <2>1. Inside(g) = {c} /\ g \in held
    BY <1>2 DEF FlagInv
  <2>2. g \notin held'
    BY <1>2 DEF Inside, Return
  <2> QED
    BY <1>1, <2>1, <2>2
<1>3. CASE c \notin Inside(g)
  <2>1. g \in held' <=> g \in held
    BY <1>3 DEF Inside, Return
  <2> QED
    BY <1>1, <1>3, <2>1 DEF FlagInv
<1> QED
  BY <1>2, <1>3

\* A caller that moves on inside the relay keeps its flag.
LEMMA MoveFlag ==
  ASSUME TypeInv, FlagInv, NEW c \in Callers, NEW place, pc' = [pc EXCEPT ![c] = place],
         pc[c] \notin {"idle", "gated"} <=> place \notin {"idle", "gated"}, UNCHANGED <<callOp, held>>
  PROVE  FlagInv'
<1>1. \A g : Inside(g)' = Inside(g)
  BY DEF Inside, TypeInv, Parts, CallerTypes
<1> QED
  BY <1>1 DEF FlagInv

LEMMA GateFlag ==
  ASSUME TypeInv, FlagInv, NEW c \in Callers, NEW op \in CallOps, NEW valid, Gate(c, op, valid)
  PROVE  FlagInv'
<1>1. CASE \E outcome : Return(c, outcome)
  BY <1>1, ReturnFlag
<1>2. CASE /\ pc[c] = "idle" /\ pc' = [pc EXCEPT ![c] = "gated"]
           /\ callOp' = [callOp EXCEPT ![c] = op] /\ UNCHANGED held
  <2>1. \A g : Inside(g)' = Inside(g)
    BY <1>2 DEF Inside, TypeInv, Parts, CallerTypes
  <2> QED
    BY <1>2, <2>1 DEF FlagInv
<1> QED
  BY <1>1, <1>2 DEF Gate

LEMMA AcquireFlag == ASSUME TypeInv, FlagInv, NEW c \in Callers, Acquire(c) PROVE FlagInv'
<1>1. CASE Return(c, "in-progress")
  BY <1>1, ReturnFlag
<1>2. CASE /\ pc[c] = "gated" /\ GuardOf(callOp[c]) \notin held
           /\ pc' = [pc EXCEPT ![c] = "guarded"]
           /\ held' = held \cup ({GuardOf(callOp[c])} \ {"none"})
           /\ UNCHANGED callOp
  <2> SUFFICES ASSUME NEW g \in Guards
               PROVE  (\A b, d \in Inside(g)' : b = d) /\ (g \in held' <=> Inside(g)' # {})
    BY DEF FlagInv
  <2>1. CASE GuardOf(callOp[c]) = g
    <3>1. Inside(g) = {}
      BY <1>2, <2>1 DEF FlagInv
    <3>2. Inside(g)' = Inside(g) \cup {c}
      BY <1>2, <2>1 DEF Inside, TypeInv, Parts, CallerTypes
    <3>3. g \in held'
      BY <1>2, <2>1 DEF Guards
    <3> QED
      BY <3>1, <3>2, <3>3
  <2>2. CASE GuardOf(callOp[c]) # g
    <3>1. Inside(g)' = Inside(g) /\ (g \in held' <=> g \in held)
      BY <1>2, <2>2 DEF Inside, TypeInv, Parts, CallerTypes
    <3> QED
      BY <3>1 DEF FlagInv
  <2> QED
    BY <2>1, <2>2
<1> QED
  BY <1>1, <1>2 DEF Acquire, FlagTaken

LEMMA NextFlag == TypeInv /\ FlagInv /\ [Next]_vars => FlagInv'
<1> SUFFICES ASSUME TypeInv, FlagInv, [Next]_vars PROVE FlagInv'
  OBVIOUS
<1>1. CASE UNCHANGED callerVars
  BY <1>1 DEF FlagInv, Inside, callerVars
<1>2. ASSUME NEW c \in Callers, CallerReturns(c) PROVE FlagInv'
  <2>1. CASE Acquire(c)
    BY <2>1, AcquireFlag
  <2>2. CASE \E outcome : Return(c, outcome)
    BY <2>2, ReturnFlag
  <2>3. CASE \/ /\ pc[c] = "guarded" /\ pc' = [pc EXCEPT ![c] = "registered"]
                /\ UNCHANGED <<callOp, held>>
             \/ /\ pc[c] = "registered" /\ pc' = [pc EXCEPT ![c] = "waiting"]
                /\ UNCHANGED <<callOp, held>>
             \/ /\ pc[c] = "waiting" /\ pc' = [pc EXCEPT ![c] = "abandoning"]
                /\ UNCHANGED <<callOp, held>>
    BY <2>3, MoveFlag
  <2> QED
    BY <1>2, <2>1, <2>2, <2>3 DEF CallerReturns, Register, Enqueue, Receive, Timeout, Abandon
<1>3. CASE \E c \in Callers, op \in CallOps, valid \in BOOLEAN : Gate(c, op, valid)
  BY <1>3, GateFlag
<1>4. CASE (\E kind \in PressKinds : Press(kind)) \/ Shutdown \/ Process \/ Stray \/ UNCHANGED vars
  BY <1>1, <1>4 DEF Press, Shutdown, Process, Stray, vars
<1>5. CASE Worker \/ InspectFails
  BY <1>1, <1>5 DEF Worker, InspectFails, Boot, ApplyStart, ApplyStop, ApplyRestart, ApplyReload,
     ApplyDatalink, Bind, ReadLine, NoticeExit, Respawn, GraceEnd, StopSeen, Drain, Close
<1> QED
  BY <1>2, <1>3, <1>4, <1>5 DEF Next, Webview

\* One prefile, one clearance and one SayIntentions write at most is inside the
\* relay, and a flag is up exactly while one is, for any number of callers.
THEOREM FlagsAreHeldByOne == Spec => []OneWriteAtATime
<1>1. Init => FlagInv
  BY DEF Init, FlagInv, Inside
<1>2. ASSUME FlagInv PROVE OneWriteAtATime
  <2> SUFFICES ASSUME NEW g \in Guards
               PROVE  Cardinality(Inside(g)) <= 1 /\ (g \in held <=> Inside(g) # {})
    BY DEF OneWriteAtATime, Inside
  <2>1. CASE Inside(g) = {}
    BY <1>2, <2>1, FS_EmptySet DEF FlagInv
  <2>2. CASE Inside(g) # {}
    <3>1. PICK c : Inside(g) = {c}
      BY <1>2, <2>2 DEF FlagInv
    <3>2. Cardinality({c}) = 1
      BY FS_Singleton
    <3>3. Cardinality(Inside(g)) <= 1
      BY <3>1, <3>2
    <3> QED
      BY <1>2, <3>3 DEF FlagInv
  <2> QED
    BY <2>1, <2>2
<1>3. Spec => [](TypeInv /\ FlagInv)
  BY <1>1, InitTypes, NextTypes, NextFlag, PTL DEF Spec
<1> QED
  BY <1>2, <1>3, PTL

-----------------------------------------------------------------------------
(* What a queue carries of the calls.                                      *)

\* A request with this id is in the queue, and none is in it twice.
Carries(q, i) == \E n \in 1..Len(q) : q[n].kind = "datalink" /\ q[n].id = i
Once(q) ==
  \A m, n \in 1..Len(q) :
    q[m].kind = "datalink" /\ q[n].kind = "datalink" /\ q[m].id = q[n].id => m = n

\* After a step a queue carries nothing it did not carry before.
NoMore(p, q) == (\A i : Carries(q, i) => Carries(p, i)) /\ (Once(p) => Once(q))

LEMMA Appended ==
  ASSUME NEW S, NEW q \in Seq(S), NEW x \in S
  PROVE  /\ \A i : Carries(Append(q, x), i) <=> Carries(q, i) \/ (x.kind = "datalink" /\ x.id = i)
         /\ Once(q) /\ (x.kind = "datalink" => ~Carries(q, x.id)) => Once(Append(q, x))
<1> DEFINE r == Append(q, x)
<1>1. /\ Len(q) \in Nat /\ Len(r) = Len(q) + 1 /\ r[Len(q) + 1] = x
      /\ \A n \in 1..Len(q) : r[n] = q[n]
  OBVIOUS
<1>2. 1..Len(r) = 1..Len(q) \cup {Len(q) + 1} /\ Len(q) + 1 \notin 1..Len(q)
  BY <1>1
<1> HIDE DEF r
<1>3. \A i : Carries(r, i) <=> Carries(q, i) \/ (x.kind = "datalink" /\ x.id = i)
  BY <1>1, <1>2 DEF Carries
<1>4. ASSUME Once(q), x.kind = "datalink" => ~Carries(q, x.id) PROVE Once(r)
  <2>1. \A n \in 1..Len(q) : q[n].kind = "datalink" /\ x.kind = "datalink" => q[n].id # x.id
    BY <1>4 DEF Carries
  <2> QED
    BY <1>1, <1>2, <1>4, <2>1 DEF Once
<1> QED
  BY <1>3, <1>4 DEF r

LEMMA Taken ==
  ASSUME NEW S, NEW q \in Seq(S), q # <<>>
  PROVE  /\ NoMore(q, Tail(q))
         /\ \A i : Carries(q, i) <=> Carries(Tail(q), i) \/ (Head(q).kind = "datalink" /\ Head(q).id = i)
         /\ Once(q) /\ Head(q).kind = "datalink" => ~Carries(Tail(q), Head(q).id)
<1> DEFINE r == Tail(q)
           x == Head(q)
<1>1. /\ Len(q) \in Nat \ {0} /\ Len(r) = Len(q) - 1 /\ x = q[1]
      /\ \A n \in 1..Len(q) - 1 : r[n] = q[n + 1]
  OBVIOUS
<1>2. /\ 1 \in 1..Len(q) /\ \A n \in 1..Len(r) : n + 1 \in 1..Len(q) /\ n + 1 # 1 /\ r[n] = q[n + 1]
      /\ \A n \in 1..Len(q) : n = 1 \/ (n - 1 \in 1..Len(r) /\ r[n - 1] = q[n])
  BY <1>1
<1> HIDE DEF r, x
<1>3. \A i : Carries(q, i) <=> Carries(r, i) \/ (x.kind = "datalink" /\ x.id = i)
  BY <1>1, <1>2 DEF Carries
<1>4. ASSUME Once(q) PROVE Once(r)
  <2> SUFFICES ASSUME NEW m \in 1..Len(r), NEW n \in 1..Len(r), r[m].kind = "datalink",
                      r[n].kind = "datalink", r[m].id = r[n].id
               PROVE  m = n
    BY DEF Once
  <2>1. m + 1 = n + 1
    BY <1>2, <1>4 DEF Once
  <2> QED
    BY <1>1, <2>1
<1>5. ASSUME Once(q), x.kind = "datalink", Carries(r, x.id) PROVE FALSE
  <2>1. PICK n \in 1..Len(r) : r[n].kind = "datalink" /\ r[n].id = x.id
    BY <1>5 DEF Carries
  <2>2. n + 1 = 1
    BY <1>1, <1>2, <1>5, <2>1 DEF Once
  <2> QED
    BY <1>2, <2>2
<1> QED
  BY <1>3, <1>4, <1>5 DEF r, x, NoMore

LEMMA NothingCarried ==
  /\ \A p : NoMore(p, <<>>) /\ NoMore(p, p)
  /\ \A p, kind : kind # "datalink" => NoMore(p, <<[kind |-> kind, id |-> NoId]>>)
<1>1. \A i : ~Carries(<<>>, i)
  BY DEF Carries
<1>2. Once(<<>>)
  BY DEF Once
<1>3. ASSUME NEW kind, kind # "datalink"
      PROVE  Once(<<[kind |-> kind, id |-> NoId]>>) /\ \A i : ~Carries(<<[kind |-> kind, id |-> NoId]>>, i)
  <2> DEFINE q == <<[kind |-> kind, id |-> NoId]>>
  <2>1. \A n \in 1..Len(q) : q[n].kind # "datalink"
    BY <1>3
  <2> QED
    BY <2>1 DEF Carries, Once
<1> QED
  BY <1>1, <1>2, <1>3 DEF NoMore

\* A control that is queued, to the worker or to the sidecar, is none of the calls.
LEMMA ControlsCarryNothing ==
  ASSUME TypeInv
  PROVE  /\ \A accepted : \A kind \in {"start", "stop", "config", "shutdown"} :
              Queue([kind |-> kind, id |-> NoId], accepted) => NoMore(stdin, stdin')
         /\ \A kind \in Controls :
              requests' = Append(requests, [kind |-> kind, id |-> NoId]) => NoMore(requests, requests')
<1>1. stdin \in Seq(Inputs) /\ requests \in Seq(Requests)
  BY DEF TypeInv, Parts, StdinTypes, RequestTypes
<1>2. ASSUME NEW kind \in {"start", "stop", "config", "shutdown"}
      PROVE  NoMore(stdin, Append(stdin, [kind |-> kind, id |-> NoId]))
  BY <1>1, ControlInputs, Appended DEF NoMore
<1>3. ASSUME NEW kind \in Controls
      PROVE  NoMore(requests, Append(requests, [kind |-> kind, id |-> NoId]))
  BY <1>1, ControlRequests, Appended DEF NoMore, Controls
<1> QED
  BY <1>2, <1>3, NothingCarried DEF Queue

-----------------------------------------------------------------------------
(* The calls: every slot of the table has its caller.                      *)

\* Callers inside the relay have an id of their own, with a slot or an answer;
\* a slot has its caller, and only a call that gave up its slot has an answer.
Claims ==
  /\ \A c, d \in Callers : pc[c] \in Holding /\ pc[d] \in Holding /\ callId[c] = callId[d] => c = d
  /\ \A c \in Callers : pc[c] \in Holding =>
       callId[c] < nextId /\ (callId[c] \in pending \/ reply[callId[c]] # "none")
  /\ \A i \in pending : \E c \in Callers : callId[c] = i /\ pc[c] \in Holding
  /\ \A i \in Ids : reply[i] # "none" => i < nextId /\ i \notin pending

\* What the worker does to the table: whoever loses a slot has an answer.
Settles ==
  /\ pending' \subseteq pending
  /\ \A i \in Ids : reply'[i] # "none" <=> reply[i] # "none" \/ i \in pending \ pending'

LEMMA SettleClaims ==
  ASSUME TypeInv, Claims, UNCHANGED <<pc, callId, nextId>>, Settles
  PROVE  Claims'
<1>1. \A i \in pending : i \in Ids /\ i < nextId
  BY DEF Claims, TypeInv, Parts, TableTypes
<1>2. \A c \in Callers : pc[c] \in Holding => callId[c] \in Ids
  BY DEF TypeInv, Named
<1> QED
  BY <1>1, <1>2 DEF Claims, Settles

LEMMA TableSettled == ASSUME UNCHANGED <<pending, reply>> PROVE Settles
BY DEF Settles

LEMMA OneSettled ==
  ASSUME TypeInv, NEW i, NEW code, Remove({i}), i \in pending, code # "none",
         reply' = [reply EXCEPT ![i] = code]
  PROVE  Settles
BY DEF Settles, Remove, TypeInv, Parts, TableTypes

LEMMA UnboundSettled ==
  ASSUME TypeInv, NEW i, NEW code, FailUnbound(i, code), code # "none"
  PROVE  Settles
BY OneSettled, TableSettled DEF FailUnbound

LEMMA GenerationSettled == ASSUME TypeInv, NEW g, FailGeneration(g) PROVE Settles
<1> DEFINE dead == {i \in pending : bound[i] = g}
<1>1. /\ pending' = pending \ dead
      /\ reply' = [i \in Ids |-> IF i \in dead THEN "sidecar-exited" ELSE reply[i]]
  BY DEF FailGeneration, Remove
<1>2. dead \subseteq pending
  OBVIOUS
<1> HIDE DEF dead
<1> QED
  BY <1>1, <1>2 DEF Settles, TypeInv, Parts, TableTypes

LEMMA WorkerSettles == ASSUME TypeInv, Worker \/ InspectFails PROVE Settles
<1>1. CASE \/ Boot \/ ApplyStart \/ ApplyStop \/ ApplyReload \/ Bind \/ Respawn \/ GraceEnd \/ Close
  BY <1>1, TableSettled DEF Boot, ApplyStart, ApplyStop, ApplyReload, Bind, Respawn, GraceEnd, Close, relayVars
<1>2. CASE ApplyRestart \/ StopSeen \/ NoticeExit \/ InspectFails
  BY <1>2, TableSettled, GenerationSettled
     DEF ApplyRestart, StopSeen, NoticeExit, InspectFails, Terminate, relayVars
<1>3. CASE ApplyDatalink \/ Drain
  BY <1>3, TableSettled, UnboundSettled DEF ApplyDatalink, Drain, relayVars
<1>4. CASE ReadLine
  BY <1>4, TableSettled, OneSettled DEF ReadLine
<1> QED
  BY <1>1, <1>2, <1>3, <1>4 DEF Worker

\* A call that leaves takes its slot and its answer with it.
LEMMA ReturnClaims ==
  ASSUME TypeInv, Claims, NEW c \in Callers, NEW outcome, Return(c, outcome), nextId' = nextId,
         IF pc[c] \in Holding
         THEN /\ pending' = pending \ {callId[c]}
              /\ \A i \in Ids : i # callId[c] => reply'[i] = reply[i]
              /\ reply'[callId[c]] \in {reply[callId[c]], "none"}
         ELSE UNCHANGED <<pending, reply>>
  PROVE  Claims'
<1>1. /\ \A d \in Callers : d # c => pc'[d] = pc[d] /\ callId'[d] = callId[d]
      /\ pc'[c] = "idle" /\ pc'[c] \notin Holding
  BY DEF Return, TypeInv, Parts, CallerTypes, Holding
<1>2. \A d \in Callers : pc[d] \in Holding => callId[d] \in Ids
  BY DEF TypeInv, Named
<1>3. CASE pc[c] \in Holding
  BY <1>1, <1>2, <1>3 DEF Claims
<1>4. CASE pc[c] \notin Holding
  BY <1>1, <1>2, <1>4 DEF Claims
<1> QED
  BY <1>3, <1>4

LEMMA CallerClaims ==
  ASSUME TypeInv, TypeInv', Claims, NEW c \in Callers, CallerReturns(c)
  PROVE  Claims'
<1>t. /\ callId[c] \in Ids \cup {NoId} /\ (pc[c] \in Holding => callId[c] \in Ids)
      /\ pending \subseteq Ids /\ reply \in [Ids -> Outcomes] /\ nextId \in Nat
  BY DEF TypeInv, Parts, CallerTypes, TableTypes, Named, Room
<1>1. CASE Acquire(c)
  <2>1. UNCHANGED relayVars /\ pc[c] = "gated" /\ pc[c] \notin Holding
    BY <1>1 DEF Acquire, Holding
  <2>2. CASE Return(c, "in-progress")
    BY <2>1, <2>2, ReturnClaims DEF relayVars
  <2>3. CASE pc' = [pc EXCEPT ![c] = "guarded"] /\ UNCHANGED callId
    <3>1. \A d \in Callers : pc'[d] \in Holding <=> pc[d] \in Holding
      BY <2>1, <2>3 DEF TypeInv, Parts, CallerTypes, Holding
    <3> QED
      BY <2>1, <2>3, <3>1 DEF Claims, relayVars
  <2> QED
    BY <1>1, <2>2, <2>3 DEF Acquire
<1>2. CASE Register(c)
  <2>1. pc[c] = "guarded" /\ pc[c] \notin Holding
    BY <1>2 DEF Register, Holding
  <2>2. CASE Return(c, "busy") /\ UNCHANGED relayVars
    BY <2>1, <2>2, ReturnClaims DEF relayVars
  <2>3. CASE /\ pc' = [pc EXCEPT ![c] = "registered"]
             /\ callId' = [callId EXCEPT ![c] = nextId]
             /\ nextId' = nextId + 1 /\ pending' = pending \cup {nextId} /\ UNCHANGED reply
    <3>1. nextId \in Ids
      BY <2>3 DEF TypeInv, Parts, TableTypes
    <3>2. /\ \A d \in Callers : d # c => pc'[d] = pc[d] /\ callId'[d] = callId[d]
          /\ pc'[c] \in Holding /\ callId'[c] = nextId
      BY <2>3 DEF TypeInv, Parts, CallerTypes, Holding
    <3>3. /\ \A d \in Callers : pc[d] \in Holding => callId[d] \in Ids /\ callId[d] < nextId
          /\ \A i \in pending : i \in Ids /\ i < nextId
          /\ \A i \in Ids : i < nextId => i < nextId + 1 /\ i # nextId
      BY <1>t DEF Claims, TypeInv, Named, Ids
    <3>4. \A d \in Callers : d # c /\ pc'[d] \in Holding => pc[d] \in Holding /\ callId'[d] # nextId
      BY <3>2, <3>3
    <3>5. \A b, d \in Callers :
            pc'[b] \in Holding /\ pc'[d] \in Holding /\ callId'[b] = callId'[d] => b = d
      BY <3>2, <3>4 DEF Claims
    <3>6. \A d \in Callers : pc'[d] \in Holding =>
            callId'[d] < nextId' /\ (callId'[d] \in pending' \/ reply'[callId'[d]] # "none")
      BY <1>t, <2>3, <3>2, <3>3 DEF Claims
    <3>7. ASSUME NEW i \in pending' PROVE \E d \in Callers : callId'[d] = i /\ pc'[d] \in Holding
      <4>1. CASE i \in pending
        <5>1. PICK d \in Callers : callId[d] = i /\ pc[d] \in Holding
          BY <4>1 DEF Claims
        <5> QED
          BY <2>1, <3>2, <5>1
      <4> QED
        BY <2>3, <3>2, <4>1
    <3>8. \A i \in Ids : reply'[i] # "none" => i < nextId' /\ i \notin pending'
      BY <2>3, <3>3 DEF Claims
    <3> QED
      BY <3>5, <3>6, <3>7, <3>8 DEF Claims
  <2> QED
    BY <1>2, <2>2, <2>3 DEF Register
<1>3. CASE Enqueue(c)
  <2>1. pc[c] = "registered" /\ pc[c] \in Holding /\ UNCHANGED <<nextId, reply>>
    BY <1>3 DEF Enqueue, Holding
  <2>2. CASE Remove({callId[c]}) /\ \E outcome : Return(c, outcome)
    BY <2>1, <2>2, ReturnClaims DEF Remove
  <2>3. CASE pc' = [pc EXCEPT ![c] = "waiting"] /\ UNCHANGED <<callId, pending>>
    <3>1. \A d \in Callers : pc'[d] \in Holding <=> pc[d] \in Holding
      BY <2>1, <2>3 DEF TypeInv, Parts, CallerTypes, Holding
    <3> QED
      BY <2>1, <2>3, <3>1 DEF Claims
  <2> QED
    BY <1>3, <2>2, <2>3 DEF Enqueue
<1>4. CASE Receive(c)
  <2>1. /\ pc[c] \in Holding /\ Return(c, reply[callId[c]]) /\ UNCHANGED <<nextId, pending>>
        /\ reply[callId[c]] # "none" /\ reply' = [reply EXCEPT ![callId[c]] = "none"]
    BY <1>4 DEF Receive, Holding
  <2>2. pending' = pending \ {callId[c]}
    BY <1>t, <2>1 DEF Claims
  <2> QED
    BY <1>t, <2>1, <2>2, ReturnClaims
<1>5. CASE Timeout(c)
  <2>1. pc[c] \in Holding /\ pc' = [pc EXCEPT ![c] = "abandoning"] /\ UNCHANGED <<callId, relayVars>>
    BY <1>5 DEF Timeout, Holding
  <2>2. \A d \in Callers : pc'[d] \in Holding <=> pc[d] \in Holding
    BY <2>1 DEF TypeInv, Parts, CallerTypes, Holding
  <2> QED
    BY <2>1, <2>2 DEF Claims, relayVars
<1>6. CASE Abandon(c)
  <2>1. /\ pc[c] \in Holding /\ Return(c, LateOutcome(callId[c])) /\ UNCHANGED nextId
        /\ pending' = pending \ {callId[c]} /\ reply' = [reply EXCEPT ![callId[c]] = "none"]
    BY <1>6 DEF Abandon, Holding, GiveBack, Remove
  <2> QED
    BY <1>t, <2>1, ReturnClaims
<1> QED
  BY <1>1, <1>2, <1>3, <1>4, <1>5, <1>6 DEF CallerReturns

\* A call that is refused at the gate, or let in, has no id yet.
LEMMA GateClaims ==
  ASSUME TypeInv, Claims, NEW c \in Callers, NEW op, NEW valid, Gate(c, op, valid)
  PROVE  Claims'
<1>1. UNCHANGED relayVars /\ pc[c] = "idle" /\ pc[c] \notin Holding
  BY DEF Gate, Holding
<1>2. CASE \E outcome : Return(c, outcome)
  BY <1>1, <1>2, ReturnClaims DEF relayVars
<1>3. CASE pc' = [pc EXCEPT ![c] = "gated"] /\ UNCHANGED callId
  <2>1. \A d \in Callers : pc'[d] \in Holding <=> pc[d] \in Holding
    BY <1>1, <1>3 DEF TypeInv, Parts, CallerTypes, Holding
  <2> QED
    BY <1>1, <1>3, <2>1 DEF Claims, relayVars
<1> QED
  BY <1>2, <1>3 DEF Gate

LEMMA NextClaims == TypeInv /\ Claims /\ [Next]_vars => Claims'
<1> SUFFICES ASSUME TypeInv, TypeInv', Claims, [Next]_vars PROVE Claims'
  BY NextTypes
<1>1. CASE Worker \/ InspectFails
  <2>1. UNCHANGED callerVars /\ nextId' = nextId
    BY <1>1 DEF Worker, InspectFails, Boot, ApplyStart, ApplyStop, ApplyRestart, ApplyReload, ApplyDatalink,
       Bind, ReadLine, NoticeExit, Respawn, GraceEnd, StopSeen, Drain, Close, Terminate, FailGeneration,
       FailUnbound, relayVars
  <2> QED
    BY <1>1, <2>1, WorkerSettles, SettleClaims DEF callerVars
<1>2. CASE (\E kind \in PressKinds : Press(kind)) \/ Shutdown \/ Process \/ Stray \/ UNCHANGED vars
  <2>1. UNCHANGED <<callerVars, relayVars>>
    BY <1>2 DEF Press, Shutdown, Process, Stray, vars
  <2> QED
    BY <2>1, TableSettled, SettleClaims DEF callerVars, relayVars
<1>3. CASE \E c \in Callers : CallerReturns(c)
  BY <1>3, CallerClaims
<1>4. CASE \E c \in Callers, op \in CallOps, valid \in BOOLEAN : Gate(c, op, valid)
  BY <1>4, GateClaims
<1> QED
  BY <1>1, <1>2, <1>3, <1>4 DEF Next, Webview

-----------------------------------------------------------------------------
(* The calls: each makes its way to a sidecar once at most.                *)

\* No queue has a request with this id, and no sidecar has read it.
Unsent(i) == ~Carries(requests, i) /\ ~Carries(stdin, i) /\ runs[i] = 0

\* A request goes from its caller to the worker's queue, from there to the
\* sidecar's, and from there into the sidecar, and is in one place at a time.
Journey ==
  /\ \A i \in Ids : i >= nextId => Unsent(i)
  /\ \A c \in Callers : pc[c] = "registered" => Unsent(callId[c])
  /\ Once(requests) /\ Once(stdin)
  /\ \A i \in Ids : Carries(requests, i) => ~Carries(stdin, i) /\ runs[i] = 0
  /\ \A i \in Ids : Carries(stdin, i) => runs[i] = 0
  /\ \A i \in Ids : runs[i] \in {0, 1}

Registered(i) == \E c \in Callers : callId[c] = i /\ pc[c] = "registered"

\* What a sidecar left behind still has to read is nowhere else, and no other one
\* has it; what it has read, it has read once.
Adrift(i) == i \in Ids /\ i < nextId /\ Unsent(i) /\ ~Registered(i)
Strayed ==
  /\ \A p \in strays : \A i \in p.todo : Adrift(i)
  /\ \A p, q \in strays : p # q => p.todo \cap q.todo = {}
  /\ \A p \in strays : \A i \in p.work : runs[i] = 1

\* A step that only takes requests off the queues.
LEMMA LessJourney ==
  ASSUME TypeInv, Journey, NoMore(requests, requests'), NoMore(stdin, stdin'), UNCHANGED <<runs, nextId>>,
         \A c \in Callers : pc'[c] = "registered" => pc[c] = "registered" /\ callId'[c] = callId[c]
  PROVE  Journey'
BY DEF Journey, Unsent, NoMore

\* What a launch leaves in the sidecar's queue.
LEMMA SpawnCarries ==
  ASSUME NEW want, NEW shown, NEW latch, Spawn(want, shown, latch)
  PROVE  NoMore(stdin, stdin')
BY NothingCarried DEF Spawn, Launch, LaunchFails, HalfLaunch, Gone, FirstInput

LEMMA ControlCarries ==
  ASSUME TypeInv, NEW kind \in {"start", "stop", "config", "shutdown"}, Control(kind)
  PROVE  NoMore(stdin, stdin')
BY ControlsCarryNothing DEF Control, Accepts

\* The worker hands the request at the head of its queue to the sidecar.
Hands ==
  /\ ApplyDatalink
  /\ Queue(Head(requests), TRUE) /\ worker' = "bind" /\ binding' = Head(requests).id
  /\ UNCHANGED relayVars

LEMMA WorkerCarries ==
  ASSUME TypeInv, Worker \/ InspectFails
  PROVE  \/ Hands
         \/ NoMore(requests, requests') /\ NoMore(stdin, stdin')
<1>1. ASSUME requests # <<>>, requests' = Tail(requests) PROVE NoMore(requests, requests')
  BY <1>1, Taken DEF TypeInv, Parts, RequestTypes
<1>2. /\ UNCHANGED requests => NoMore(requests, requests')
      /\ UNCHANGED stdin => NoMore(stdin, stdin')
      /\ stdin' = <<>> => NoMore(stdin, stdin')
  BY NothingCarried
<1>3. ASSUME NEW then, Terminate(then) PROVE NoMore(stdin, stdin')
  BY <1>3, ControlsCarryNothing DEF Terminate, Accepts
<1>4. CASE Boot \/ Respawn
  BY <1>2, <1>4, SpawnCarries DEF Boot, Respawn
<1>5. CASE GraceEnd
  BY <1>2, <1>5, SpawnCarries DEF GraceEnd, Kill, Gone
<1>6. CASE ApplyStart
  BY <1>1, <1>2, <1>6, SpawnCarries, ControlCarries DEF ApplyStart, Takes, childVars
<1>7. CASE ApplyStop \/ ApplyReload
  BY <1>1, <1>2, <1>7, ControlCarries DEF ApplyStop, ApplyReload, Takes
<1>8. CASE ApplyRestart
  BY <1>1, <1>3, <1>8, SpawnCarries DEF ApplyRestart, Takes
<1>9. CASE ApplyDatalink
  BY <1>1, <1>2, <1>9 DEF ApplyDatalink, Takes, Hands
<1>10. CASE Bind \/ ReadLine \/ NoticeExit
  BY <1>2, <1>10 DEF Bind, ReadLine, NoticeExit, childVars
<1>11. CASE InspectFails \/ StopSeen
  BY <1>2, <1>3, <1>11 DEF InspectFails, StopSeen, childVars
<1>12. CASE Drain \/ Close
  <2>1. requests' = <<>> => NoMore(requests, requests')
    BY NothingCarried
  <2> QED
    BY <1>1, <1>2, <1>12, <2>1 DEF Drain, Close, childVars
<1> QED
  BY <1>4, <1>5, <1>6, <1>7, <1>8, <1>9, <1>10, <1>11, <1>12 DEF Worker

LEMMA HandsJourney == ASSUME TypeInv, Journey, Hands PROVE Journey'
<1> DEFINE item == Head(requests)
<1>1. /\ requests # <<>> /\ item.kind = "datalink" /\ requests' = Tail(requests)
      /\ UNCHANGED <<callerVars, nextId, runs>> /\ stdin' \in {stdin, Append(stdin, item)}
  BY DEF Hands, ApplyDatalink, Takes, Queue, relayVars, procVars
<1>2. requests \in Seq(Requests) /\ stdin \in Seq(Inputs) /\ item \in Inputs /\ item.id \in Ids
  BY <1>1, SeqTail, RequestInput DEF TypeInv, Parts, RequestTypes, StdinTypes
<1>3. /\ Once(requests') /\ ~Carries(requests', item.id)
      /\ \A i : Carries(requests, i) <=> Carries(requests', i) \/ i = item.id
  BY <1>1, <1>2, Taken DEF Journey, NoMore
<1>4. ~Carries(stdin, item.id) /\ runs[item.id] = 0
  BY <1>2, <1>3 DEF Journey
<1>5. Once(stdin') /\ \A i : Carries(stdin', i) => Carries(stdin, i) \/ i = item.id
  <2> HIDE DEF item
  <2>1. CASE stdin' = stdin
    BY <2>1 DEF Journey
  <2>2. CASE stdin' = Append(stdin, item)
    BY <1>2, <1>4, <2>2, Appended DEF Journey
  <2> QED
    BY <1>1, <2>1, <2>2
<1>6. ~(item.id >= nextId) /\ \A c \in Callers : pc[c] = "registered" => callId[c] # item.id
  BY <1>2, <1>3 DEF Journey, Unsent
<1> HIDE DEF item
<1> QED
  BY <1>1, <1>3, <1>4, <1>5, <1>6 DEF Journey, Unsent, callerVars

LEMMA ProcessJourney == ASSUME TypeInv, Journey, Process PROVE Journey'
<1>1. UNCHANGED <<callerVars, nextId, requests>> /\ stdin \in Seq(Inputs)
  BY DEF Process, relayVars, TypeInv, Parts, StdinTypes
<1>2. NoMore(requests, requests') /\ NoMore(stdin, stdin) /\ NoMore(stdin, <<>>)
  BY <1>1, NothingCarried
<1>3. CASE UNCHANGED runs
  <2>1. NoMore(stdin, stdin')
    BY <1>1, <1>2, <1>3, Taken DEF Process, Announce, ReadStdin, Answer, Crash, Gone
  <2> QED
    BY <1>1, <1>2, <1>3, <2>1, LessJourney DEF callerVars
<1>4. CASE ReadStdin /\ Head(stdin).kind = "datalink" /\ stdin' = Tail(stdin)
           /\ runs' = [runs EXCEPT ![Head(stdin).id] = @ + 1]
  <2> DEFINE item == Head(stdin)
  <2>1. item.id \in Ids /\ stdin # <<>>
    BY <1>1, <1>4, SeqTail DEF ReadStdin, Inputs
  <2>2. /\ Once(stdin') /\ ~Carries(stdin', item.id)
        /\ \A i : Carries(stdin, i) <=> Carries(stdin', i) \/ i = item.id
    BY <1>1, <1>4, <2>1, Taken DEF Journey, NoMore
  <2>3. ~Carries(requests, item.id) /\ runs[item.id] = 0 /\ ~(item.id >= nextId)
        /\ \A c \in Callers : pc[c] = "registered" => callId[c] # item.id
    BY <2>1, <2>2 DEF Journey, Unsent
  <2>4. runs'[item.id] = 1 /\ \A i \in Ids : i # item.id => runs'[i] = runs[i]
    BY <1>4, <2>1, <2>3 DEF TypeInv, Parts, RunTypes
  <2>5. \A c \in Callers : pc[c] = "registered" => callId[c] \in Ids
    BY DEF TypeInv, Named, Holding
  <2> HIDE DEF item
  <2> QED
    BY <1>1, <2>1, <2>2, <2>3, <2>4, <2>5 DEF Journey, Unsent, callerVars
<1> QED
  BY <1>3, <1>4 DEF Process, Announce, ReadStdin, Answer, Crash

LEMMA WebviewJourney ==
  ASSUME TypeInv, TypeInv', Claims, Journey, Webview
  PROVE  Journey'
<1>1. UNCHANGED <<stdin, runs>>
  BY DEF Webview, CallerReturns, Gate, Acquire, Register, Enqueue, Receive, Timeout, Abandon, Press, Shutdown,
     childVars, procVars
<1>2. NoMore(stdin, stdin') /\ (UNCHANGED requests => NoMore(requests, requests'))
  BY <1>1, NothingCarried
<1>3. CASE (\E kind \in PressKinds : Press(kind)) \/ Shutdown
  <2>1. UNCHANGED <<pc, callId, nextId>>
    BY <1>3 DEF Press, Shutdown, callerVars, relayVars
  <2>2. NoMore(requests, requests')
    BY <1>2, <1>3, ControlsCarryNothing, PressAssumption DEF Press, Shutdown
  <2> QED
    BY <1>1, <1>2, <2>1, <2>2, LessJourney
<1>4. ASSUME NEW c \in Callers, UNCHANGED <<requests, nextId>>,
             \/ \E outcome : Return(c, outcome)
             \/ \E place : place # "registered" /\ pc' = [pc EXCEPT ![c] = place] /\ UNCHANGED callId
      PROVE  Journey'
  <2>1. \A d \in Callers : pc'[d] = "registered" => pc[d] = "registered" /\ callId'[d] = callId[d]
    BY <1>4 DEF Return, TypeInv, Parts, CallerTypes
  <2> QED
    BY <1>1, <1>2, <1>4, <2>1, LessJourney
<1>5. ASSUME NEW c \in Callers, Register(c) PROVE Journey'
  <2>1. CASE Return(c, "busy") /\ UNCHANGED relayVars
    BY <1>4, <1>5, <2>1 DEF Register, relayVars
  <2>2. CASE /\ pc' = [pc EXCEPT ![c] = "registered"] /\ callId' = [callId EXCEPT ![c] = nextId]
             /\ nextId' = nextId + 1 /\ pending' = pending \cup {nextId}
    <3>1. nextId \in Ids /\ nextId \in Nat
      BY <2>2 DEF TypeInv, Parts, TableTypes, Room
    <3>2. Unsent(nextId) /\ \A i \in Ids : i >= nextId + 1 => i >= nextId
      BY <3>1 DEF Journey, Ids
    <3>3. \A d \in Callers : pc'[d] = "registered" => callId'[d] = nextId \/ (pc[d] = "registered" /\ callId'[d] = callId[d])
      BY <2>2 DEF TypeInv, Parts, CallerTypes
    <3>4. requests' = requests
      BY <1>5 DEF Register
    <3> QED
      BY <1>1, <2>2, <3>2, <3>3, <3>4 DEF Journey, Unsent
  <2> QED
    BY <1>5, <2>1, <2>2 DEF Register
<1>6. ASSUME NEW c \in Callers, Enqueue(c) PROVE Journey'
  <2> DEFINE item == [kind |-> "datalink", id |-> callId[c]]
  <2>1. CASE (\E outcome : Return(c, outcome)) /\ UNCHANGED requests
    BY <1>4, <1>6, <2>1 DEF Enqueue
  <2>2. CASE requests' = Append(requests, item) /\ pc' = [pc EXCEPT ![c] = "waiting"] /\ UNCHANGED callId
    <3>1. pc[c] = "registered" /\ nextId' = nextId /\ callId[c] \in Ids /\ callId[c] < nextId
      BY <1>6 DEF Enqueue, Claims, TypeInv, Named, Holding
    <3>2. Unsent(callId[c]) /\ item \in Requests /\ requests \in Seq(Requests)
      BY <3>1 DEF Journey, TypeInv, Parts, RequestTypes, Requests
    <3>3. /\ Once(requests')
          /\ \A i : Carries(requests', i) <=> Carries(requests, i) \/ i = callId[c]
      BY <2>2, <3>2, Appended DEF Journey, Unsent
    <3>4. \A d \in Callers : pc'[d] = "registered" => pc[d] = "registered" /\ callId[d] # callId[c]
      BY <2>2, <3>1 DEF Claims, Holding, TypeInv, Parts, CallerTypes
    <3>5. ~(callId[c] >= nextId)
      BY <3>1 DEF Ids, TypeInv, Room
    <3> QED
      BY <1>1, <2>2, <3>1, <3>2, <3>3, <3>4, <3>5 DEF Journey, Unsent
  <2> QED
    BY <1>6, <2>1, <2>2 DEF Enqueue
<1>7. ASSUME NEW c \in Callers, Acquire(c) \/ Receive(c) \/ Timeout(c) \/ Abandon(c) PROVE Journey'
  BY <1>4, <1>7 DEF Acquire, Receive, Timeout, Abandon, relayVars
<1>8. ASSUME NEW c \in Callers, NEW op, NEW valid, Gate(c, op, valid) PROVE Journey'
  BY <1>4, <1>8 DEF Gate, relayVars
<1> QED
  BY <1>3, <1>5, <1>6, <1>7, <1>8 DEF Webview, CallerReturns

\* Only a caller that has registered queues its request, and its id is a new one.
LEMMA WebviewQueues ==
  ASSUME TypeInv, Webview
  PROVE  /\ \A i : Carries(requests', i) => Carries(requests, i) \/ Registered(i)
         /\ \A i : i < nextId /\ Registered(i)' => Registered(i)
<1>1. /\ nextId \in Nat /\ requests \in Seq(Requests)
      /\ callId \in [Callers -> Nat] /\ pc \in [Callers -> Places]
  BY DEF TypeInv, Parts, Room, RequestTypes, CallerTypes, Ids, NoId
<1>2. \A i : Carries(requests', i) => Carries(requests, i) \/ Registered(i)
  <2>1. CASE requests' = requests
    BY <2>1
  <2>2. ASSUME NEW c \in Callers, pc[c] = "registered",
               requests' = Append(requests, [kind |-> "datalink", id |-> callId[c]])
        PROVE  \A i : Carries(requests', i) => Carries(requests, i) \/ Registered(i)
    <3> DEFINE item == [kind |-> "datalink", id |-> callId[c]]
    <3>1. item \in Requests /\ item.id = callId[c]
      BY <2>2 DEF Requests, TypeInv, Named, Holding
    <3> HIDE DEF item
    <3>2. requests' = Append(requests, item)
      BY <2>2 DEF item
    <3> QED
      BY <1>1, <2>2, <3>1, <3>2, Appended DEF Registered
  <2>3. ASSUME NEW kind \in PressKinds, requests' = Append(requests, [kind |-> kind, id |-> NoId])
        PROVE  \A i : Carries(requests', i) => Carries(requests, i)
    BY <2>3, PressAssumption, ControlsCarryNothing DEF NoMore
  <2> QED
    BY <2>1, <2>2, <2>3 DEF Webview, CallerReturns, Gate, Acquire, Register, Enqueue, Receive, Timeout, Abandon,
       Press, Shutdown
<1>3. \A i : i < nextId /\ Registered(i)' => Registered(i)
  <2>1. ASSUME NEW i, i < nextId, NEW d \in Callers, callId'[d] = i, pc'[d] = "registered"
        PROVE  callId[d] = i /\ pc[d] = "registered"
    <3>1. CASE UNCHANGED <<pc, callId>>
      BY <2>1, <3>1
    <3>2. ASSUME NEW c \in Callers, NEW outcome, Return(c, outcome)
          PROVE  callId[d] = i /\ pc[d] = "registered"
      BY <1>1, <2>1, <3>2 DEF Return
    <3>3. ASSUME NEW c \in Callers, NEW place, place # "registered", pc' = [pc EXCEPT ![c] = place], UNCHANGED callId
          PROVE  callId[d] = i /\ pc[d] = "registered"
      BY <1>1, <2>1, <3>3
    <3>4. ASSUME NEW c \in Callers, pc' = [pc EXCEPT ![c] = "registered"],
                 callId' = [callId EXCEPT ![c] = nextId]
          PROVE  callId[d] = i /\ pc[d] = "registered"
      BY <1>1, <2>1, <3>4
    <3> QED
      BY <3>1, <3>2, <3>3, <3>4 DEF Webview, CallerReturns, Gate, Acquire, Register, Enqueue, Receive, Timeout,
         Abandon, Press, Shutdown, callerVars
  <2> QED
    BY <2>1 DEF Registered
<1> QED
  BY <1>2, <1>3

\* A request that is adrift stays so while no sidecar reads it.
LEMMA StaysAdrift ==
  ASSUME TypeInv, NEW i \in Ids, Adrift(i), nextId' \in {nextId, nextId + 1}, runs'[i] = runs[i],
         Carries(requests', i) => Carries(requests, i) \/ Registered(i),
         Carries(stdin', i) => Carries(stdin, i) \/ Carries(requests, i),
         Registered(i)' => Registered(i)
  PROVE  Adrift(i)'
<1>1. nextId \in Nat /\ i \in Nat
  BY DEF TypeInv, Room, Ids
<1> QED
  BY <1>1 DEF Adrift, Unsent

LEMMA StrayKeeps ==
  ASSUME Stray
  PROVE  UNCHANGED <<callerVars, relayVars, pc, callId, told, nextId, reply, pending, bound, requests, stdin,
                     child, generation, procGen, work, worker, binding>>
BY DEF Stray, callerVars, relayVars, childVars, workerVars

LEMMA StrayJourney ==
  ASSUME TypeInv, Journey, Strayed, Stray
  PROVE  Journey'
<1>1. PICK p \in strays, q \in Strays : Does(p, q)
  BY StrayDoes
<1>2. UNCHANGED <<pc, callId, nextId, requests, stdin>>
  BY StrayKeeps
<1>3. CASE runs' = runs
  BY <1>2, <1>3, NothingCarried, LessJourney
<1>4. CASE \E i \in Ids : Reads(p, q, i)
  <2>1. PICK i \in Ids : Reads(p, q, i)
    BY <1>4
  <2>2. i < nextId /\ Unsent(i) /\ ~Registered(i)
    BY <2>1 DEF Strayed, Adrift, Reads
  <2>3. runs'[i] = 1 /\ \A j \in Ids : j # i => runs'[j] = runs[j]
    BY <2>1, <2>2 DEF Reads, Unsent, TypeInv, Parts, RunTypes
  <2>4. i \in Nat /\ nextId \in Nat /\ \A c \in Callers : pc[c] = "registered" => callId[c] \in Ids
    BY DEF Ids, TypeInv, Room, Named, Holding
  <2>5. \A j : Carries(requests', j) <=> Carries(requests, j)
    BY <1>2 DEF Carries
  <2>6. \A j : Carries(stdin', j) <=> Carries(stdin, j)
    BY <1>2 DEF Carries
  <2>7. ~Carries(requests, i) /\ ~Carries(stdin, i)
    BY <2>2 DEF Unsent
  <2>8. \A j \in Ids : Unsent(j) /\ j # i => ~Carries(requests', j) /\ ~Carries(stdin', j) /\ runs'[j] = 0
    BY <2>3, <2>5, <2>6 DEF Unsent
  <2>9. \A j \in Ids : j >= nextId' => ~Carries(requests', j) /\ ~Carries(stdin', j) /\ runs'[j] = 0
    <3> TAKE j \in Ids
    <3> HAVE j >= nextId'
    <3>1. j # i
      BY <1>2, <2>2, <2>4 DEF Ids
    <3> QED
      BY <1>2, <2>8, <3>1 DEF Journey
  <2>10. \A c \in Callers : pc'[c] = "registered" =>
           LET j == callId'[c] IN ~Carries(requests', j) /\ ~Carries(stdin', j) /\ runs'[j] = 0
    <3> TAKE c \in Callers
    <3> HAVE pc'[c] = "registered"
    <3>1. callId[c] \in Ids /\ callId[c] # i /\ Unsent(callId[c]) /\ callId' = callId
      BY <1>2, <2>2, <2>4 DEF Journey, Registered
    <3> QED
      BY <2>8, <3>1
  <2>11. Once(requests') /\ Once(stdin')
    BY <1>2 DEF Journey, Once
  <2>12. \A j \in Ids : (Carries(requests, j) \/ Carries(stdin, j)) => runs'[j] = 0
    BY <2>3, <2>7 DEF Journey
  <2>13. \A j \in Ids : runs'[j] \in {0, 1}
    BY <2>3 DEF Journey
  <2>14. \A j \in Ids : Carries(requests', j) => ~Carries(stdin', j) /\ runs'[j] = 0
    BY <2>5, <2>6, <2>12 DEF Journey
  <2>15. \A j \in Ids : Carries(stdin', j) => runs'[j] = 0
    BY <2>6, <2>12
  <2> QED
    BY <2>9, <2>10, <2>11, <2>13, <2>14, <2>15 DEF Journey, Unsent
<1> QED
  BY <1>1, <1>3, <1>4 DEF Does, Says

LEMMA NextJourney == TypeInv /\ Claims /\ Journey /\ Strayed /\ [Next]_vars => Journey'
<1> SUFFICES ASSUME TypeInv, TypeInv', Claims, Journey, Strayed, [Next]_vars PROVE Journey'
  BY NextTypes
<1>1. CASE Worker \/ InspectFails
  <2>1. UNCHANGED <<callerVars, nextId, runs>>
    BY <1>1 DEF Worker, InspectFails, Boot, ApplyStart, ApplyStop, ApplyRestart, ApplyReload, ApplyDatalink,
       Bind, ReadLine, NoticeExit, Respawn, GraceEnd, StopSeen, Drain, Close, Terminate, FailGeneration,
       FailUnbound, relayVars, procVars
  <2> QED
    BY <1>1, <2>1, WorkerCarries, LessJourney, HandsJourney DEF callerVars
<1>2. CASE UNCHANGED vars
  <2>1. UNCHANGED <<pc, callId, nextId, runs, requests, stdin>>
    BY <1>2 DEF vars, callerVars, relayVars, childVars, procVars
  <2> QED
    BY <2>1, NothingCarried, LessJourney
<1> QED
  BY <1>1, <1>2, WebviewJourney, ProcessJourney, StrayJourney DEF Next

-----------------------------------------------------------------------------
(* The calls: only what a sidecar has read is answered by one.             *)

Truth ==
  /\ \A i \in work : runs[i] = 1
  /\ \A n \in 1..Len(lines) : lines[n].kind = "response" => runs[lines[n].id] = 1
  /\ \A i \in Ids : reply[i] = "answer" => runs[i] = 1

LEMMA LessTruth ==
  ASSUME TypeInv, Truth, UNCHANGED runs, work' \subseteq work, lines' = lines \/ (lines # <<>> /\ lines' = Tail(lines)),
         \A i \in Ids : reply'[i] = "answer" =>
           reply[i] = "answer" \/ (lines # <<>> /\ Head(lines).kind = "response" /\ Head(lines).id = i)
  PROVE  Truth'
<1>1. lines \in Seq(Lines)
  BY DEF TypeInv, Parts, LineTypes
<1>2. ASSUME lines # <<>>
      PROVE  /\ Head(lines) = lines[1] /\ 1 \in 1..Len(lines)
             /\ \A n \in 1..Len(Tail(lines)) : n + 1 \in 1..Len(lines) /\ Tail(lines)[n] = lines[n + 1]
  BY <1>1, <1>2
<1>3. \A n \in 1..Len(lines') : lines'[n].kind = "response" => runs[lines'[n].id] = 1
  BY <1>2 DEF Truth
<1>4. \A i \in Ids : reply'[i] = "answer" => runs[i] = 1
  BY <1>2 DEF Truth
<1> QED
  BY <1>3, <1>4 DEF Truth

LEMMA WorkerTruth == ASSUME TypeInv, Truth, Worker \/ InspectFails PROVE Truth'
<1>1. runs' = runs /\ work' \subseteq work
  BY DEF Worker, InspectFails, Boot, ApplyStart, ApplyStop, ApplyRestart, ApplyReload, ApplyDatalink,
     Bind, ReadLine, NoticeExit, Respawn, GraceEnd, StopSeen, Drain, Close, procVars, Spawn, Launch,
     LaunchFails, HalfLaunch, Gone, Kill
<1>2. ASSUME NEW i, NEW code, FailUnbound(i, code), code # "answer"
      PROVE  \A j \in Ids : reply'[j] = "answer" => reply[j] = "answer"
  BY <1>2 DEF FailUnbound, TypeInv, Parts, TableTypes
<1>3. ASSUME NEW g, FailGeneration(g)
      PROVE  \A j \in Ids : reply'[j] = "answer" => reply[j] = "answer"
  BY <1>3 DEF FailGeneration
<1>4. CASE Boot \/ ApplyStart \/ ApplyStop \/ ApplyReload \/ Bind \/ Respawn \/ GraceEnd \/ Close
  BY <1>1, <1>4, LessTruth DEF Boot, ApplyStart, ApplyStop, ApplyReload, Bind, Respawn, GraceEnd, Close, relayVars
<1>5. CASE ApplyRestart \/ StopSeen \/ NoticeExit \/ InspectFails
  BY <1>1, <1>3, <1>5, LessTruth DEF ApplyRestart, StopSeen, NoticeExit, InspectFails, Terminate, relayVars
<1>6. CASE ApplyDatalink \/ Drain
  BY <1>1, <1>2, <1>6, LessTruth DEF ApplyDatalink, Drain, relayVars
<1>7. CASE ReadLine
  <2>1. lines # <<>> /\ lines' = Tail(lines)
    BY <1>7 DEF ReadLine
  <2>2. \A i \in Ids : reply'[i] = "answer" =>
           reply[i] = "answer" \/ (Head(lines).kind = "response" /\ Head(lines).id = i)
    BY <1>7 DEF ReadLine, TypeInv, Parts, TableTypes
  <2> QED
    BY <1>1, <2>1, <2>2, LessTruth
<1> QED
  BY <1>4, <1>5, <1>6, <1>7 DEF Worker

LEMMA ProcessTruth == ASSUME TypeInv, Journey, Truth, Process PROVE Truth'
<1>1. reply' = reply /\ lines \in Seq(Lines) /\ work \subseteq Ids /\ runs \in [Ids -> Nat]
  BY DEF Process, relayVars, TypeInv, Parts, LineTypes, ProcTypes, RunTypes
<1>2. ASSUME NEW i \in Ids \cup {NoId}, NEW kind, Emit(kind, i), UNCHANGED runs, work' \subseteq work,
             kind = "response" => runs[i] = 1
      PROVE  Truth'
  <2> DEFINE line == [gen |-> procGen, kind |-> kind, id |-> i]
  <2>1. lines' = Append(lines, line) /\ line.kind = kind /\ line.id = i
    BY <1>2 DEF Emit, Send
  <2> HIDE DEF line
  <2>2. \A n \in 1..Len(lines') : lines'[n] = line \/ (n \in 1..Len(lines) /\ lines'[n] = lines[n])
    BY <1>1, <2>1
  <2> QED
    BY <1>1, <1>2, <2>1, <2>2 DEF Truth
<1>3. CASE Announce
  BY <1>2, <1>3 DEF Announce
<1>4. CASE \E i \in Ids : Answer(i)
  BY <1>2, <1>4 DEF Answer, Truth
<1>5. CASE Crash
  BY <1>1, <1>5, LessTruth DEF Crash, Gone
<1>6. CASE ReadStdin
  <2> DEFINE item == Head(stdin)
  <2>1. CASE Emit("status", NoId) /\ UNCHANGED <<work, runs>>
    BY <1>2, <2>1
  <2>2. CASE work' \subseteq work /\ UNCHANGED <<runs, lines>>
    BY <1>1, <2>2, LessTruth
  <2>3. CASE /\ item.kind = "datalink" /\ stdin' = Tail(stdin) /\ work' \in {work \cup {item.id}, work}
             /\ runs' = [runs EXCEPT ![item.id] = @ + 1] /\ UNCHANGED lines
    <3>1. stdin \in Seq(Inputs) /\ stdin # <<>> /\ item.id \in Ids
      BY <1>6, <2>3, SeqTail DEF ReadStdin, TypeInv, Parts, StdinTypes, Inputs
    <3>2. Carries(stdin, item.id)
      BY <2>3, <3>1, Taken
    <3>3. runs'[item.id] = 1 /\ \A i \in Ids : i # item.id => runs'[i] = runs[i]
      BY <1>1, <2>3, <3>1, <3>2 DEF Journey
    <3>4. \A n \in 1..Len(lines) : lines[n].kind = "response" => lines[n].id \in Ids
      BY <1>1 DEF Lines
    <3> HIDE DEF item
    <3> QED
      BY <1>1, <2>3, <3>1, <3>3, <3>4 DEF Truth
  <2> QED
    BY <1>6, <2>1, <2>2, <2>3 DEF ReadStdin, Gone
<1> QED
  BY <1>3, <1>4, <1>5, <1>6 DEF Process

LEMMA StrayTruth == ASSUME TypeInv, Strayed, Truth, Stray PROVE Truth'
<1>1. PICK p \in strays, q \in Strays : Does(p, q)
  BY StrayDoes
<1>2. work' = work /\ reply' = reply /\ lines \in Seq(Lines) /\ work \subseteq Ids /\ runs \in [Ids -> Nat]
  BY StrayKeeps DEF TypeInv, Parts, LineTypes, ProcTypes, RunTypes
<1>3. CASE runs' = runs /\ lines' = lines
  BY <1>2, <1>3 DEF Truth
<1>4. CASE runs' = runs /\ \E line \in Lines : /\ line.kind = "response" => line.id \in p.work
                                               /\ lines' = Append(lines, line)
  <2>1. PICK line \in Lines : /\ line.kind = "response" => line.id \in p.work
                              /\ lines' = Append(lines, line)
    BY <1>4
  <2>2. \A n \in 1..Len(lines') : lines'[n] = line \/ (n \in 1..Len(lines) /\ lines'[n] = lines[n])
    BY <1>2, <2>1
  <2>3. line.kind = "response" => runs[line.id] = 1
    BY <2>1 DEF Strayed
  <2> QED
    BY <1>2, <1>4, <2>2, <2>3 DEF Truth
<1>5. CASE \E i \in Ids : Reads(p, q, i)
  <2>1. PICK i \in Ids : Reads(p, q, i)
    BY <1>5
  <2>2. runs'[i] = 1 /\ \A j \in Ids : j # i => runs'[j] = runs[j]
    BY <1>2, <2>1 DEF Strayed, Adrift, Unsent, Reads
  <2>3. lines' = lines /\ \A n \in 1..Len(lines) : lines[n].kind = "response" => lines[n].id \in Ids
    BY <1>2, <2>1 DEF Reads, Lines
  <2> QED
    BY <1>2, <2>2, <2>3 DEF Truth
<1> QED
  BY <1>1, <1>3, <1>4, <1>5 DEF Does, Says

LEMMA NextTruth == TypeInv /\ Journey /\ Strayed /\ Truth /\ [Next]_vars => Truth'
<1> SUFFICES ASSUME TypeInv, Journey, Strayed, Truth, [Next]_vars PROVE Truth'
  OBVIOUS
<1>1. CASE UNCHANGED vars
  BY <1>1 DEF Truth, vars, relayVars, procVars
<1>2. CASE Webview
  <2>1. UNCHANGED <<runs, work, lines>>
    BY <1>2 DEF Webview, CallerReturns, Gate, Acquire, Register, Enqueue, Receive, Timeout, Abandon, Press,
       Shutdown, procVars
  <2>2. \A i \in Ids : reply'[i] = "answer" => reply[i] = "answer"
    BY <1>2 DEF Webview, CallerReturns, Gate, Acquire, Register, Enqueue, Receive, Timeout, Abandon, Press,
       Shutdown, relayVars, TypeInv, Parts, TableTypes
  <2> QED
    BY <2>1, <2>2, LessTruth
<1> QED
  BY <1>1, <1>2, WorkerTruth, ProcessTruth, StrayTruth DEF Next

-----------------------------------------------------------------------------
(* The calls: what a sidecar left behind took with it.                     *)

\* A grace leaves no request in the queue of the next sidecar.
LEMMA GraceCarriesNothing == ASSUME GraceEnd PROVE \A i : ~Carries(stdin', i)
<1>1. \A i : ~Carries(<<>>, i) /\ \A kind : kind # "datalink" => ~Carries(<<[kind |-> kind, id |-> NoId]>>, i)
  BY NothingCarried DEF NoMore, Carries
<1> QED
  BY <1>1 DEF GraceEnd, Spawn, Launch, LaunchFails, HalfLaunch, Gone, Kill, FirstInput

LEMMA BehindStrayed ==
  ASSUME TypeInv, Journey, Strayed, Truth, GraceEnd, LeaveBehind
  PROVE  Strayed'
<1>1. UNCHANGED <<pc, callId, nextId, requests, runs>>
  BY DEF GraceEnd, callerVars, relayVars
<1>2. \A i : Registered(i)' <=> Registered(i)
  BY <1>1 DEF Registered
<1>3. stdin \in Seq(Inputs) /\ DOMAIN stdin = 1..Len(stdin) /\ nextId \in Nat
  BY DEF TypeInv, Parts, StdinTypes, Room
<1> DEFINE left == {n \in DOMAIN stdin : stdin[n].kind = "datalink"}
           r == [gen |-> procGen, build |-> build, says |-> StrayWords,
                 todo |-> {stdin[n].id : n \in left}, work |-> work]
<1>4. /\ strays' = strays \cup {r} /\ r.work = work
      /\ r.todo = {stdin[n].id : n \in left}
  BY DEF LeaveBehind
<1>0. \A n \in left : n \in DOMAIN stdin /\ stdin[n].kind = "datalink"
  OBVIOUS
<1> HIDE DEF r, left
<1>5. ASSUME NEW i \in r.todo PROVE Carries(stdin, i) /\ Adrift(i)'
  <2>1. Carries(stdin, i) /\ i \in Ids
    BY <1>3, <1>4, <1>5, <1>0 DEF Carries, Inputs
  <2>2. ~Carries(requests, i) /\ runs[i] = 0 /\ ~(i >= nextId) /\ ~Registered(i)
    BY <2>1 DEF Journey, Unsent, Registered
  <2> QED
    BY <1>1, <1>2, <1>3, <2>1, <2>2, GraceCarriesNothing DEF Adrift, Unsent, Ids
<1>6. ASSUME NEW p \in strays, NEW i \in p.todo PROVE ~Carries(stdin, i) /\ Adrift(i)'
  <2>1. i \in Ids /\ Adrift(i)
    BY DEF Strayed, Adrift
  <2> QED
    BY <1>1, <1>2, <2>1, GraceCarriesNothing, StaysAdrift DEF Adrift, Unsent
<1>7. \A p \in strays : p.todo \cap r.todo = {}
  BY <1>5, <1>6
<1>8. \A p, q \in strays' : p # q => p.todo \cap q.todo = {}
  BY <1>4, <1>7 DEF Strayed
<1>9. \A p \in strays' : \A i \in p.work : runs'[i] = 1
  BY <1>1, <1>4 DEF Strayed, Truth
<1> QED
  BY <1>4, <1>5, <1>6, <1>8, <1>9 DEF Strayed

\* A step that leaves the sidecars that were left behind alone.
LEMMA SameStrayed ==
  ASSUME Strayed, UNCHANGED strays,
         \A i : Adrift(i) => Adrift(i)', \A i \in Ids : runs[i] = 1 => runs'[i] = 1, TypeInv
  PROVE  Strayed'
<1>1. \A p \in strays : p.work \subseteq Ids
  BY DEF TypeInv, Parts, StrayTypes, Strays
<1> QED
  BY <1>1 DEF Strayed

LEMMA StrayStrayed ==
  ASSUME TypeInv, Strayed, Stray
  PROVE  Strayed'
<1>1. PICK p \in strays, q \in Strays : Does(p, q)
  BY StrayDoes
<1>2. UNCHANGED <<pc, callId, nextId, requests, stdin>>
  BY StrayKeeps
<1>3. \A i : Registered(i)' <=> Registered(i)
  BY <1>2 DEF Registered
<1>4. ASSUME NEW i \in Ids, Adrift(i), runs'[i] = runs[i] PROVE Adrift(i)'
  BY <1>2, <1>3, <1>4, StaysAdrift
<1>5. /\ q.todo \subseteq p.todo /\ \A r \in strays' : r = q \/ (r \in strays /\ r # p)
      /\ \A r \in strays : r # p => r.todo \cap p.todo = {}
  BY <1>1 DEF Does, Strayed
<1>6. \A r, t \in strays' : r # t => r.todo \cap t.todo = {}
  BY <1>5 DEF Strayed
<1>7. /\ \A r \in strays' : \A i \in r.todo : i \in Ids /\ Adrift(i)
      /\ \A r \in strays : \A i \in r.work : i \in Ids /\ runs[i] = 1
      /\ \A i \in q.work : i \in Ids
  BY <1>5 DEF Strayed, Adrift, TypeInv, Parts, StrayTypes, Strays
<1>8. CASE Says(p, q)
  <2>1. \A r \in strays' : \A i \in r.todo : Adrift(i)'
    BY <1>4, <1>7, <1>8 DEF Says
  <2>2. \A r \in strays' : \A i \in r.work : runs'[i] = 1
    BY <1>5, <1>7, <1>8 DEF Says
  <2> QED
    BY <1>6, <2>1, <2>2 DEF Strayed
<1>9. CASE \E i \in Ids : Reads(p, q, i)
  <2>1. PICK i \in Ids : Reads(p, q, i)
    BY <1>9
  <2>2. runs[i] = 0 /\ i \in p.todo /\ i \notin q.todo /\ q.work \subseteq p.work \cup {i}
    BY <2>1 DEF Reads, Strayed, Adrift, Unsent
  <2>3. runs'[i] = 1 /\ \A j \in Ids : j # i => runs'[j] = runs[j]
    BY <2>1, <2>2 DEF Reads, TypeInv, Parts, RunTypes
  <2>4. ASSUME NEW r \in strays', NEW j \in r.todo PROVE Adrift(j)'
    <3>1. j # i
      BY <1>5, <2>2
    <3> QED
      BY <1>4, <1>7, <2>3, <3>1
  <2>5. ASSUME NEW r \in strays', NEW j \in r.work PROVE runs'[j] = 1
    <3>1. j = i \/ (j \in Ids /\ runs[j] = 1 /\ j # i)
      BY <1>5, <1>7, <2>2
    <3> QED
      BY <2>3, <3>1
  <2> QED
    BY <1>6, <2>4, <2>5 DEF Strayed
<1> QED
  BY <1>1, <1>8, <1>9 DEF Does

LEMMA NextStrayed == TypeInv /\ Journey /\ Strayed /\ Truth /\ [Next]_vars => Strayed'
<1> SUFFICES ASSUME TypeInv, Journey, Strayed, Truth, [Next]_vars PROVE Strayed'
  OBVIOUS
<1>1. CASE UNCHANGED vars
  <2>1. UNCHANGED <<pc, callId, nextId, runs, requests, stdin, strays>>
    BY <1>1 DEF vars, callerVars, relayVars, childVars, procVars
  <2> QED
    BY <2>1, SameStrayed DEF Adrift, Unsent, Registered
<1>2. CASE Webview
  <2>1. UNCHANGED <<strays, stdin, runs>> /\ nextId' \in {nextId, nextId + 1}
    BY <1>2 DEF Webview, CallerReturns, Gate, Acquire, Register, Enqueue, Receive, Timeout, Abandon, Press,
       Shutdown, procVars, childVars, relayVars
  <2>2. ASSUME NEW i, Adrift(i) PROVE Adrift(i)'
    <3>1. i \in Ids /\ i < nextId
      BY <2>2 DEF Adrift
    <3> QED
      BY <1>2, <2>1, <2>2, <3>1, WebviewQueues, StaysAdrift
  <2> QED
    BY <2>1, <2>2, SameStrayed
<1>3. CASE Worker \/ InspectFails
  <2>1. UNCHANGED <<pc, callId, nextId, runs>> /\ (UNCHANGED strays \/ (GraceEnd /\ LeaveBehind))
    BY <1>3 DEF Worker, InspectFails, Boot, ApplyStart, ApplyStop, ApplyRestart, ApplyReload, ApplyDatalink,
       Bind, ReadLine, NoticeExit, Respawn, GraceEnd, StopSeen, Drain, Close, Terminate, FailGeneration,
       FailUnbound, relayVars, procVars, callerVars
  <2>2. \A i : Carries(requests', i) => Carries(requests, i)
    <3>1. CASE Hands
      <4>1. requests \in Seq(Requests) /\ requests # <<>> /\ requests' = Tail(requests)
        BY <3>1 DEF Hands, ApplyDatalink, Takes, TypeInv, Parts, RequestTypes
      <4> QED
        BY <4>1, Taken
    <3> QED
      BY <1>3, <3>1, WorkerCarries DEF NoMore
  <2>3. \A i : Carries(stdin', i) => Carries(stdin, i) \/ Carries(requests, i)
    <3>1. CASE Hands
      <4> DEFINE item == Head(requests)
      <4>1. /\ requests \in Seq(Requests) /\ requests # <<>> /\ stdin \in Seq(Inputs)
            /\ item.kind = "datalink" /\ stdin' \in {stdin, Append(stdin, item)}
        BY <3>1 DEF Hands, ApplyDatalink, Takes, Queue, TypeInv, Parts, RequestTypes, StdinTypes
      <4>2. item \in Inputs /\ Carries(requests, item.id)
        BY <4>1, SeqTail, RequestInput, Taken
      <4> HIDE DEF item
      <4> QED
        BY <4>1, <4>2, Appended
    <3> QED
      BY <1>3, <3>1, WorkerCarries DEF NoMore
  <2>4. ASSUME UNCHANGED strays PROVE Strayed'
    <3>1. ASSUME NEW i, Adrift(i) PROVE Adrift(i)'
      <4>1. i \in Ids /\ (Registered(i)' => Registered(i))
        BY <2>1, <3>1 DEF Adrift, Registered
      <4> QED
        BY <2>1, <2>2, <2>3, <3>1, <4>1, StaysAdrift
    <3> QED
      BY <2>1, <2>4, <3>1, SameStrayed
  <2> QED
    BY <2>1, <2>4, BehindStrayed
<1>4. CASE Process
  <2>1. UNCHANGED <<pc, callId, nextId, requests, strays>> /\ stdin \in Seq(Inputs)
    BY <1>4 DEF Process, callerVars, relayVars, TypeInv, Parts, StdinTypes
  <2>2. /\ \A i : Carries(stdin', i) => Carries(stdin, i)
        /\ runs' = runs \/ \E j \in Ids : Carries(stdin, j) /\ runs' = [runs EXCEPT ![j] = @ + 1]
    <3>1. CASE UNCHANGED <<stdin, runs>>
      BY <3>1
    <3>2. CASE stdin' = <<>> /\ runs' = runs
      BY <3>2 DEF Carries
    <3>3. CASE ReadStdin /\ stdin' = Tail(stdin)
      <4>1. stdin # <<>>
        BY <3>3 DEF ReadStdin
      <4>2. \A i : Carries(Tail(stdin), i) => Carries(stdin, i)
        BY <2>1, <4>1, Taken
      <4>3. Head(stdin).kind = "datalink" => Head(stdin).id \in Ids /\ Carries(stdin, Head(stdin).id)
        BY <2>1, <4>1, SeqTail, Taken DEF Inputs
      <4>4. \/ runs' = runs
            \/ Head(stdin).kind = "datalink" /\ runs' = [runs EXCEPT ![Head(stdin).id] = @ + 1]
        BY <3>3 DEF ReadStdin, Gone
      <4> QED
        BY <3>3, <4>2, <4>3, <4>4
    <3> QED
      BY <1>4, <3>1, <3>2, <3>3 DEF Process, Announce, ReadStdin, Answer, Crash, Gone
  <2>3. ASSUME NEW i \in Ids, ~Carries(stdin, i) PROVE runs'[i] = runs[i]
    BY <2>2, <2>3 DEF TypeInv, Parts, RunTypes
  <2>4. ASSUME NEW i, Adrift(i) PROVE Adrift(i)'
    <3>1. i \in Ids /\ ~Carries(stdin, i) /\ (Registered(i)' => Registered(i))
      BY <2>1, <2>4 DEF Adrift, Unsent, Registered
    <3> QED
      BY <2>1, <2>2, <2>3, <2>4, <3>1, StaysAdrift
  <2>5. ASSUME NEW i \in Ids, runs[i] = 1 PROVE runs'[i] = 1
    <3>1. ~Carries(stdin, i)
      BY <2>5 DEF Journey
    <3> QED
      BY <2>3, <2>5, <3>1
  <2> QED
    BY <2>1, <2>4, <2>5, SameStrayed
<1> QED
  BY <1>1, <1>2, <1>3, <1>4, StrayStrayed DEF Next

-----------------------------------------------------------------------------
(* The calls: whoever is bound to no sidecar is on his way to the worker.  *)

Carried ==
  /\ child => generation > 0
  /\ worker \notin {"closing", "done"} =>
       \A i \in pending : bound[i] = Unbound =>
         Registered(i) \/ Carries(requests, i) \/ (worker = "bind" /\ binding = i)

LEMMA CarriedIsCarried == ASSUME TypeInv, Carried PROVE UnboundIsCarried
<1>1. DOMAIN requests = 1..Len(requests)
  BY DEF TypeInv, Parts, RequestTypes
<1> QED
  BY <1>1 DEF Carried, UnboundIsCarried, Registered, Carries

\* A step that leaves the callers, the queue and the worker's place alone, and
\* unbinds nobody.
LEMMA SameCarried ==
  ASSUME Carried, UNCHANGED <<pc, callId, worker, binding>>, child' => generation' > 0,
         \A i : Carries(requests, i) => Carries(requests', i),
         pending' \subseteq pending, \A i \in pending' : bound'[i] = Unbound => bound[i] = Unbound
  PROVE  Carried'
BY DEF Carried, Registered

LEMMA WorkerCarried ==
  ASSUME TypeInv, LifeInv, Carried, Worker \/ InspectFails
  PROVE  Carried'
<1>a. UNCHANGED <<pc, callId>>
  BY DEF Worker, InspectFails, Boot, ApplyStart, ApplyStop, ApplyRestart, ApplyReload, ApplyDatalink,
     Bind, ReadLine, NoticeExit, Respawn, GraceEnd, StopSeen, Drain, Close, callerVars
<1>b. generation \in Nat /\ requests \in Seq(Requests) /\ pending \subseteq Ids /\ bound \in [Ids -> Nat]
  BY DEF TypeInv, Parts, ChildTypes, RequestTypes, TableTypes
<1>0. /\ UNCHANGED <<pc, callId>>
      /\ generation \in Nat /\ requests \in Seq(Requests)
      /\ pending \subseteq Ids /\ bound \in [Ids -> Nat]
  BY <1>a, <1>b
<1>1. \A i : Registered(i)' <=> Registered(i)
  BY <1>0 DEF Registered
<1>2. child' => generation' > 0
  <2>1. CASE UNCHANGED <<child, generation>>
    BY <2>1 DEF Carried
  <2>2. CASE ~child'
    BY <2>2
  <2>3. ASSUME NEW want, NEW shown, NEW latch, Spawn(want, shown, latch) PROVE child' => generation' > 0
    <3>1. CASE UNCHANGED <<child, generation>>
      BY <2>1, <3>1
    <3>2. CASE child' = TRUE /\ generation' = generation + 1
      BY <1>0, <3>2
    <3>3. CASE child' = child /\ generation' = generation + 2
      BY <1>0, <3>3
    <3> QED
      BY <2>3, <3>1, <3>2, <3>3 DEF Spawn, Launch, LaunchFails, HalfLaunch
  <2>4. CASE Boot \/ ApplyStart \/ Respawn
    BY <2>1, <2>3, <2>4 DEF Boot, ApplyStart, Respawn, childVars
  <2>5. CASE ApplyRestart \/ GraceEnd
    BY <2>1, <2>2, <2>3, <2>5 DEF ApplyRestart, GraceEnd, Terminate
  <2>6. CASE ApplyStop \/ ApplyReload \/ ApplyDatalink \/ Bind \/ ReadLine \/ Drain \/ Close
    BY <2>1, <2>6 DEF ApplyStop, ApplyReload, ApplyDatalink, Bind, ReadLine, Drain, Close, childVars
  <2>7. CASE NoticeExit \/ StopSeen \/ InspectFails
    BY <2>1, <2>2, <2>7 DEF NoticeExit, StopSeen, InspectFails, Terminate, childVars
  <2> QED
    BY <2>4, <2>5, <2>6, <2>7 DEF Worker
<1>3. ASSUME NEW ids, Remove(ids)
      PROVE  pending' \subseteq pending /\ \A i \in pending' : i \notin ids /\ bound'[i] = bound[i]
  BY <1>0, <1>3 DEF Remove
<1>4. /\ \A g : FailGeneration(g) => pending' \subseteq pending /\ \A i \in pending' : bound'[i] = bound[i]
      /\ \A j, code : FailUnbound(j, code) =>
           pending' \subseteq pending /\ \A i \in pending' : bound'[i] = bound[i] /\ (i = j => bound[i] # Unbound)
  BY <1>3 DEF FailGeneration, FailUnbound
<1>5. ASSUME requests # <<>>, requests' = Tail(requests)
      PROVE  \A i \in Ids : Carries(requests, i) =>
               Carries(requests', i) \/ (Head(requests).kind = "datalink" /\ Head(requests).id = i)
  BY <1>0, <1>5, Taken
\* Where the worker does not hold a request for binding before or after the step.
<1>6. ASSUME worker # "bind", worker' # "bind", worker \in {"closing", "done"} => worker' \in {"closing", "done"},
             pending' \subseteq pending, \A i \in pending' : bound'[i] = bound[i],
             \/ requests' = requests
             \/ /\ requests # <<>> /\ requests' = Tail(requests)
                /\ Head(requests).kind = "datalink" =>
                     \A i \in pending' : i = Head(requests).id => bound[i] # Unbound
      PROVE  Carried'
  BY <1>0, <1>1, <1>2, <1>5, <1>6 DEF Carried
<1>7. CASE \/ Boot \/ ApplyStart \/ ApplyStop \/ ApplyReload \/ Respawn \/ GraceEnd
  <2>1. worker # "bind" /\ worker' \in {"loop", "grace", "drain"} /\ UNCHANGED <<pending, bound>>
    BY <1>7 DEF Boot, ApplyStart, ApplyStop, ApplyReload, Respawn, GraceEnd, Takes, relayVars, workerVars,
       Spawn, Launch, LaunchFails, HalfLaunch
  <2>2. \/ requests' = requests
        \/ requests # <<>> /\ requests' = Tail(requests) /\ Head(requests).kind # "datalink"
    BY <1>7 DEF Boot, ApplyStart, ApplyStop, ApplyReload, Respawn, GraceEnd, Takes
  <2>3. worker \notin {"closing", "done"}
    BY <1>7 DEF Boot, ApplyStart, ApplyStop, ApplyReload, Respawn, GraceEnd, Takes
  <2> QED
    BY <1>6, <2>1, <2>2, <2>3
<1>8. CASE ApplyRestart \/ StopSeen \/ NoticeExit \/ InspectFails
  <2>1. /\ worker = "loop" /\ worker' \in {"loop", "grace", "drain"}
        /\ pending' \subseteq pending /\ \A i \in pending' : bound'[i] = bound[i]
    BY <1>4, <1>8 DEF ApplyRestart, StopSeen, NoticeExit, InspectFails, Terminate, Takes, relayVars, workerVars,
       Spawn, Launch, LaunchFails, HalfLaunch
  <2>2. \/ requests' = requests
        \/ requests # <<>> /\ requests' = Tail(requests) /\ Head(requests).kind # "datalink"
    BY <1>8 DEF ApplyRestart, StopSeen, NoticeExit, InspectFails, Takes
  <2> QED
    BY <1>6, <2>1, <2>2
<1>9. CASE ApplyDatalink
  <2> DEFINE item == Head(requests)
  <2>1. worker = "loop" /\ requests # <<>> /\ requests' = Tail(requests)
    BY <1>9 DEF ApplyDatalink, Takes
  <2>2. CASE (\E code : FailUnbound(item.id, code)) /\ worker' = worker
    BY <1>4, <1>6, <2>1, <2>2
  <2>3. CASE UNCHANGED relayVars /\ worker' = "bind" /\ binding' = item.id
    <3>1. UNCHANGED <<pending, bound>>
      BY <2>3 DEF relayVars
    <3> QED
      BY <1>0, <1>1, <1>2, <1>5, <2>1, <2>3, <3>1 DEF Carried
  <2> QED
    BY <1>9, <2>2, <2>3 DEF ApplyDatalink
<1>10. CASE Bind
  <2>1. /\ worker = "bind" /\ worker' = "loop" /\ UNCHANGED <<pending, requests>>
        /\ bound' = IF binding \in pending THEN [bound EXCEPT ![binding] = generation] ELSE bound
    BY <1>10 DEF Bind
  <2>2. generation # Unbound
    BY <1>0, <2>1 DEF LifeInv, Holds, Carried, Unbound
  <2> QED
    BY <1>0, <1>1, <1>2, <2>1, <2>2 DEF Carried
<1>11. CASE ReadLine
  <2>1. /\ worker = "loop" /\ UNCHANGED <<worker, requests>>
        /\ pending' \subseteq pending /\ \A i \in pending' : bound'[i] = bound[i]
    BY <1>3, <1>11 DEF ReadLine, workerVars
  <2> QED
    BY <1>6, <2>1
<1>12. CASE Drain \/ Close
  <2>1. CASE worker' \in {"closing", "done"}
    BY <1>2, <2>1 DEF Carried
  <2>2. CASE /\ worker = "drain" /\ requests # <<>> /\ requests' = Tail(requests) /\ worker' = worker
             /\ FailUnbound(Head(requests).id, "sidecar-unavailable")
    BY <1>4, <1>6, <2>2
  <2> QED
    BY <1>12, <2>1, <2>2 DEF Drain, Close
<1> QED
  BY <1>7, <1>8, <1>9, <1>10, <1>11, <1>12 DEF Worker

LEMMA WebviewCarried ==
  ASSUME TypeInv, TypeInv', Claims, Carried, Webview
  PROVE  Carried'
<1>1. UNCHANGED <<child, generation, worker, binding>> /\ requests \in Seq(Requests)
  BY DEF Webview, CallerReturns, Gate, Acquire, Register, Enqueue, Receive, Timeout, Abandon, Press, Shutdown,
     childVars, workerVars, TypeInv, Parts, RequestTypes
<1>2. CASE (\E kind \in PressKinds : Press(kind)) \/ Shutdown
  <2>1. UNCHANGED <<pc, callId, pending, bound>>
    BY <1>2 DEF Press, Shutdown, callerVars, relayVars
  <2>2. \A i : Carries(requests, i) => Carries(requests', i)
    <3>1. CASE requests' = requests
      BY <3>1
    <3>2. ASSUME NEW kind \in PressKinds, requests' = Append(requests, [kind |-> kind, id |-> NoId])
          PROVE  \A i : Carries(requests, i) => Carries(requests', i)
      <4>1. [kind |-> kind, id |-> NoId] \in Requests
        BY ControlRequests, PressAssumption
      <4> QED
        BY <1>1, <3>2, <4>1, Appended
    <3> QED
      BY <1>2, <3>1, <3>2 DEF Press, Shutdown
  <2> QED
    BY <1>1, <2>1, <2>2, SameCarried DEF Carried
\* A caller that was not about to queue its request, or takes it back.
<1>3. ASSUME NEW c \in Callers, requests' = requests,
             \/ \E outcome : Return(c, outcome)
             \/ \E place : pc' = [pc EXCEPT ![c] = place] /\ UNCHANGED callId,
             pc[c] = "registered" => callId[c] \notin pending',
             pending' \subseteq pending, \A i \in pending' : bound'[i] = bound[i]
      PROVE  Carried'
  <2>1. \A d \in Callers : d # c => pc'[d] = pc[d] /\ callId'[d] = callId[d]
    BY <1>3 DEF Return, TypeInv, Parts, CallerTypes
  <2>2. \A i \in pending' : Registered(i) => Registered(i)'
    BY <1>3, <2>1 DEF Registered
  <2> QED
    BY <1>1, <1>3, <2>2 DEF Carried
<1>4. ASSUME NEW c \in Callers, Register(c) PROVE Carried'
  <2>1. CASE Return(c, "busy") /\ UNCHANGED relayVars
    BY <1>3, <1>4, <2>1 DEF Register, relayVars
  <2>2. CASE /\ pc' = [pc EXCEPT ![c] = "registered"] /\ callId' = [callId EXCEPT ![c] = nextId]
             /\ pending' = pending \cup {nextId} /\ bound' = bound
    <3>1. /\ \A d \in Callers : d # c => pc'[d] = pc[d] /\ callId'[d] = callId[d]
          /\ pc'[c] = "registered" /\ callId'[c] = nextId /\ pc[c] = "guarded"
      BY <1>4, <2>2 DEF Register, TypeInv, Parts, CallerTypes
    <3>2. ASSUME NEW i, Registered(i) \/ i = nextId PROVE Registered(i)'
      <4>1. CASE i = nextId
        BY <3>1, <4>1 DEF Registered
      <4>2. CASE Registered(i)
        <5>1. PICK d \in Callers : callId[d] = i /\ pc[d] = "registered"
          BY <4>2 DEF Registered
        <5>2. pc'[d] = "registered" /\ callId'[d] = i
          BY <3>1, <5>1
        <5> QED
          BY <5>2 DEF Registered
      <4> QED
        BY <3>2, <4>1, <4>2
    <3>3. requests' = requests
      BY <1>4 DEF Register
    <3>4. ASSUME NEW i \in pending', bound'[i] = Unbound, worker \notin {"closing", "done"}
          PROVE  Registered(i)' \/ Carries(requests', i) \/ (worker = "bind" /\ binding = i)
      <4>1. i = nextId \/ (i \in pending /\ bound[i] = Unbound)
        BY <2>2, <3>4
      <4>2. i = nextId \/ Registered(i) \/ Carries(requests, i) \/ (worker = "bind" /\ binding = i)
        BY <3>4, <4>1 DEF Carried
      <4> QED
        BY <3>2, <3>3, <4>2
    <3> QED
      BY <1>1, <3>4 DEF Carried
  <2> QED
    BY <1>4, <2>1, <2>2 DEF Register
<1>5. ASSUME NEW c \in Callers, Enqueue(c) PROVE Carried'
  <2> DEFINE item == [kind |-> "datalink", id |-> callId[c]]
  <2>0. pc[c] = "registered" /\ callId[c] \in Ids
    BY <1>5 DEF Enqueue, TypeInv, Named, Holding
  <2>1. CASE (\E outcome : Return(c, outcome)) /\ Remove({callId[c]}) /\ UNCHANGED requests
    <3>1. pending' = pending \ {callId[c]} /\ \A i \in pending' : bound'[i] = bound[i]
      BY <2>1 DEF Remove, TypeInv, Parts, TableTypes
    <3> QED
      BY <1>3, <2>1, <3>1
  <2>2. CASE /\ requests' = Append(requests, item) /\ pc' = [pc EXCEPT ![c] = "waiting"]
             /\ UNCHANGED <<callId, pending, bound>>
    <3>1. item \in Requests /\ item.kind = "datalink" /\ item.id = callId[c]
      BY <2>0 DEF Requests
    <3>2. \A i : Carries(requests', i) <=> Carries(requests, i) \/ i = callId[c]
      BY <1>1, <2>2, <3>1, Appended
    <3>3. \A i : Registered(i) => Registered(i)' \/ i = callId[c]
      BY <2>2 DEF Registered, TypeInv, Parts, CallerTypes
    <3> QED
      BY <1>1, <2>2, <3>2, <3>3 DEF Carried
  <2> QED
    BY <1>5, <2>1, <2>2 DEF Enqueue
<1>6. ASSUME NEW c \in Callers, Acquire(c) \/ Receive(c) \/ Timeout(c)
      PROVE  Carried'
  BY <1>3, <1>6 DEF Acquire, Receive, Timeout, relayVars
<1>7. ASSUME NEW c \in Callers, Abandon(c) PROVE Carried'
  <2>1. /\ pc[c] = "abandoning" /\ requests' = requests /\ Return(c, LateOutcome(callId[c]))
        /\ pending' = pending \ {callId[c]} /\ \A i \in pending' : bound'[i] = bound[i]
    BY <1>7 DEF Abandon, GiveBack, Remove, TypeInv, Parts, TableTypes
  <2> QED
    BY <1>3, <2>1
<1>8. ASSUME NEW c \in Callers, NEW op, NEW valid, Gate(c, op, valid) PROVE Carried'
  BY <1>3, <1>8 DEF Gate, relayVars
<1> QED
  BY <1>2, <1>4, <1>5, <1>6, <1>7, <1>8 DEF Webview, CallerReturns

LEMMA NextCarried == TypeInv /\ LifeInv /\ Claims /\ Carried /\ [Next]_vars => Carried'
<1> SUFFICES ASSUME TypeInv, TypeInv', LifeInv, Claims, Carried, [Next]_vars PROVE Carried'
  BY NextTypes
<1>1. CASE Process \/ Stray \/ UNCHANGED vars
  <2>1. UNCHANGED <<pc, callId, worker, binding, child, generation, requests, pending, bound>>
    BY <1>1 DEF Process, Stray, vars, callerVars, workerVars, childVars, relayVars
  <2> QED
    BY <2>1, SameCarried DEF Carried
<1> QED
  BY <1>1, WorkerCarried, WebviewCarried DEF Next

-----------------------------------------------------------------------------
(* The calls: an answer of the live sidecar finds its slot bound to it.    *)

\* What the live sidecar has been given and what it has answered.
Given(i) == procGen = generation /\ (Carries(stdin, i) \/ i \in work)
Answered(i) ==
  \E n \in 1..Len(lines) : lines[n].kind = "response" /\ lines[n].gen = generation /\ lines[n].id = i
Live(i) == Given(i) \/ Answered(i)

\* Its slot, if it is still there, is bound to the live sidecar or is about to be.
Recognised(i) == i \in pending /\ ~(worker = "bind" /\ binding = i) => bound[i] = generation

Handed ==
  /\ \A i \in Ids : Live(i) => Recognised(i)
  /\ worker = "bind" => binding < nextId /\ ~Carries(requests, binding) /\ ~Registered(binding)

LEMMA HandedIsKnown == ASSUME TypeInv, Handed PROVE AnswersAreKnown
<1>1. DOMAIN lines = 1..Len(lines) /\ pending \subseteq Ids
  BY DEF TypeInv, Parts, LineTypes, TableTypes
<1> QED
  BY <1>1 DEF Handed, AnswersAreKnown, Live, Answered, Recognised

LEMMA LiveIsIssued == ASSUME TypeInv, Journey, Truth, NEW i \in Ids, Live(i) PROVE i < nextId
<1>1. i \in Nat /\ nextId \in Nat
  BY DEF Ids, TypeInv, Room
<1>2. i >= nextId => ~Carries(stdin, i) /\ runs[i] = 0
  BY DEF Journey, Unsent
<1>3. Carries(stdin, i) \/ runs[i] = 1
  BY DEF Live, Given, Answered, Truth
<1> QED
  BY <1>1, <1>2, <1>3

LEMMA SameHanded ==
  ASSUME Handed, UNCHANGED <<generation, worker, binding>>,
         \A i \in Ids : Live(i)' => Live(i),
         \A i \in Ids : Live(i) /\ i \in pending' => i \in pending /\ bound'[i] = bound[i],
         nextId' \in {nextId, nextId + 1}, nextId \in Nat, binding \in Nat,
         \A i : i < nextId /\ Carries(requests', i) => Carries(requests, i) \/ Registered(i),
         \A i : i < nextId /\ Registered(i)' => Registered(i)
  PROVE  Handed'
<1>1. ASSUME NEW i \in Ids, Live(i)' PROVE Recognised(i)'
  BY <1>1 DEF Handed, Recognised
<1>2. worker' = "bind" => binding' < nextId' /\ ~Carries(requests', binding')
  BY DEF Handed
<1>3. worker' = "bind" => ~Registered(binding)'
  BY DEF Handed, Registered
<1> QED
  BY <1>1, <1>2, <1>3 DEF Handed

\* What the worker does to a slot that stays: nothing, or it binds it.
LEMMA WorkerKeepsSlots ==
  ASSUME TypeInv, Worker \/ InspectFails, ~Bind
  PROVE  pending' \subseteq pending /\ \A i \in pending' : bound'[i] = bound[i]
<1>1. ASSUME NEW ids, Remove(ids)
      PROVE  pending' \subseteq pending /\ \A i \in pending' : bound'[i] = bound[i]
  BY <1>1 DEF Remove, TypeInv, Parts, TableTypes
<1>2. /\ \A g : FailGeneration(g) => pending' \subseteq pending /\ \A i \in pending' : bound'[i] = bound[i]
      /\ \A j, code : FailUnbound(j, code) => pending' \subseteq pending /\ \A i \in pending' : bound'[i] = bound[i]
  BY <1>1 DEF FailGeneration, FailUnbound
<1>3. CASE Boot \/ ApplyStart \/ ApplyStop \/ ApplyReload \/ Respawn \/ GraceEnd \/ Close
  BY <1>3 DEF Boot, ApplyStart, ApplyStop, ApplyReload, Respawn, GraceEnd, Close, relayVars
<1>4. CASE ApplyRestart \/ StopSeen \/ NoticeExit \/ InspectFails
  BY <1>2, <1>4 DEF ApplyRestart, StopSeen, NoticeExit, InspectFails, Terminate, relayVars
<1>5. CASE ApplyDatalink \/ Drain
  BY <1>2, <1>5 DEF ApplyDatalink, Drain, relayVars
<1>6. CASE ReadLine
  BY <1>1, <1>6 DEF ReadLine
<1> QED
  BY <1>3, <1>4, <1>5, <1>6 DEF Worker

\* A sidecar that is gone has nothing live: its number is over, and the lines it
\* left have it.
LEMMA NewGeneration ==
  ASSUME TypeInv, LifeInv, generation' \in Nat, generation' > generation, UNCHANGED lines,
         \/ procGen' = procGen /\ child
         \/ procGen' # generation'
         \/ work' = {} /\ \A i : ~Carries(stdin', i)
  PROVE  \A i : ~Live(i)'
<1>1. \A n \in 1..Len(lines') : lines'[n].gen # generation'
  BY OldLines DEF LifeInv, TypeInv, Parts, LineTypes, Lines
<1>2. procGen = generation \/ ~child
  BY DEF LifeInv, Holds
<1>3. procGen' # generation' \/ (work' = {} /\ \A i : ~Carries(stdin', i))
  BY <1>2 DEF TypeInv, Parts, ChildTypes
<1> QED
  BY <1>1, <1>3 DEF Live, Given, Answered

LEMMA SpawnLive ==
  ASSUME TypeInv, LifeInv, ~child, NEW want, NEW shown, NEW latch, Spawn(want, shown, latch), UNCHANGED lines
  PROVE  /\ worker' # "bind"
         /\ \/ \A i : ~Live(i)'
            \/ UNCHANGED <<generation, procGen>> /\ stdin' = <<>> /\ work' = {}
<1>1. worker' # "bind"
  BY DEF Spawn, Launch, LaunchFails, HalfLaunch
<1>2. generation \in Nat
  BY DEF TypeInv, Parts, ChildTypes
<1>3. CASE Launch(want)
  <2>1. generation' \in Nat /\ generation' > generation /\ work' = {} /\ stdin' = FirstInput(want)
    BY <1>2, <1>3 DEF Launch
  <2>2. \A i : ~Carries(stdin', i)
    BY <2>1, NothingCarried DEF FirstInput, NoMore, Carries
  <2> QED
    BY <1>1, <2>1, <2>2, NewGeneration
<1>4. CASE HalfLaunch
  <2>1. generation' \in Nat /\ generation' > generation /\ procGen' # generation'
    BY <1>2, <1>4 DEF HalfLaunch
  <2> QED
    BY <1>1, <2>1, NewGeneration
<1> QED
  BY <1>1, <1>3, <1>4 DEF Spawn, LaunchFails, Gone

LEMMA TerminateLive ==
  ASSUME TypeInv, LifeInv, child, NEW then, Terminate(then), UNCHANGED <<procGen, lines>>
  PROVE  worker' # "bind" /\ \A i : ~Live(i)'
<1>1. generation' \in Nat /\ generation' > generation
  BY DEF Terminate, TypeInv, Parts, ChildTypes
<1> QED
  BY <1>1, NewGeneration DEF Terminate

\* Unless it hands one over, the worker gives nothing to the sidecar.
LEMMA WorkerLive ==
  ASSUME TypeInv, LifeInv, Worker \/ InspectFails, ~Hands
  PROVE  \/ worker' # "bind" /\ \A i : ~Live(i)'
         \/ /\ generation' = generation
            /\ \A i : Live(i)' => Live(i)
            /\ worker' # "bind" \/ UNCHANGED <<worker, binding>>
<1>1. lines \in Seq(Lines)
  BY DEF TypeInv, Parts, LineTypes
<1>2. NoMore(stdin, stdin')
  BY WorkerCarries
<1>3. ASSUME UNCHANGED <<generation, procGen, lines>>, work' \subseteq work
      PROVE  \A i : Live(i)' => Live(i)
  BY <1>2, <1>3 DEF Live, Given, Answered, NoMore
<1>4. CASE Boot \/ Respawn \/ ApplyStart
  <2>1. CASE UNCHANGED <<generation, procGen, work, lines, worker, binding>>
    BY <1>3, <2>1
  <2>2. CASE ~child /\ (\E want, shown, latch : Spawn(want, shown, latch)) /\ UNCHANGED lines
    BY <1>3, <2>2, SpawnLive
  <2>3. CASE Boot \/ Respawn
    <3>1. ~child
      BY <2>3 DEF LifeInv, Holds, Latches, Boot, Respawn
    <3> QED
      BY <2>2, <2>3, <3>1 DEF Boot, Respawn
  <2>4. CASE ApplyStart
    <3>1. UNCHANGED <<lines, binding>>
      BY <2>4 DEF ApplyStart
    <3>2. CASE child \/ ~StartMaySpawn
      <4>1. UNCHANGED <<generation, procGen, work, worker>>
        BY <2>4, <3>2 DEF ApplyStart, Control, childVars, workerVars, procVars
      <4> QED
        BY <2>1, <3>1, <4>1
    <3>3. CASE ~child /\ StartMaySpawn
      BY <1>3, <2>4, <3>1, <3>3, SpawnLive DEF ApplyStart
    <3> QED
      BY <3>2, <3>3
  <2> QED
    BY <1>4, <2>3, <2>4
<1>5. CASE ApplyRestart \/ GraceEnd
  <2>1. CASE ~child /\ (\E want, shown, latch : Spawn(want, shown, latch)) /\ UNCHANGED lines
    BY <1>3, <2>1, SpawnLive
  <2>2. CASE child /\ (\E then : Terminate(then)) /\ UNCHANGED <<procGen, lines>>
    BY <2>2, TerminateLive
  <2>3. CASE UNCHANGED <<generation, procGen, lines>> /\ work' = {} /\ worker' # "bind"
    BY <1>3, <2>3
  <2>4. worker = "grace" => ~child
    BY DEF LifeInv, Holds
  <2> QED
    BY <1>5, <2>1, <2>2, <2>3, <2>4 DEF ApplyRestart, GraceEnd, Kill, Gone, procVars
<1>6. CASE ApplyStop \/ ApplyReload \/ ApplyDatalink \/ Bind \/ Drain \/ Close
  <2>1. UNCHANGED <<generation, procGen, lines, work>>
    BY <1>6 DEF ApplyStop, ApplyReload, ApplyDatalink, Bind, Drain, Close, childVars, procVars
  <2>2. worker' # "bind" \/ UNCHANGED <<worker, binding>>
    BY <1>6 DEF ApplyStop, ApplyReload, ApplyDatalink, Bind, Drain, Close, workerVars, Hands
  <2> QED
    BY <1>3, <2>1, <2>2
<1>7. CASE ReadLine
  <2>1. /\ UNCHANGED <<generation, procGen, work, stdin, worker, binding>>
        /\ lines # <<>> /\ lines' = Tail(lines)
    BY <1>7 DEF ReadLine, childVars, workerVars, procVars
  <2>2. \A n \in 1..Len(lines') : n + 1 \in 1..Len(lines) /\ lines'[n] = lines[n + 1]
    BY <1>1, <2>1
  <2> QED
    BY <2>1, <2>2 DEF Live, Given, Answered
<1>8. CASE NoticeExit
  <2>1. generation' \in Nat /\ generation' > generation /\ child /\ UNCHANGED <<procGen, lines, worker>> /\ worker = "loop"
    BY <1>8 DEF NoticeExit, TypeInv, Parts, ChildTypes, workerVars, procVars
  <2> QED
    BY <2>1, NewGeneration
<1>9. CASE InspectFails \/ StopSeen
  <2>1. CASE child /\ (\E then : Terminate(then)) /\ UNCHANGED <<procGen, lines>>
    BY <2>1, TerminateLive
  <2>2. CASE UNCHANGED <<generation, procGen, lines, work>> /\ worker' # "bind"
    BY <1>3, <2>2
  <2> QED
    BY <1>9, <2>1, <2>2 DEF InspectFails, StopSeen, childVars, procVars
<1> QED
  BY <1>4, <1>5, <1>6, <1>7, <1>8, <1>9 DEF Worker

LEMMA WorkerHanded ==
  ASSUME TypeInv, LifeInv, Journey, Truth, Handed, Worker \/ InspectFails
  PROVE  Handed'
<1>1. /\ generation \in Nat /\ nextId \in Nat /\ binding \in Nat /\ pending \subseteq Ids
      /\ bound \in [Ids -> Nat] /\ requests \in Seq(Requests) /\ stdin \in Seq(Inputs)
  BY DEF TypeInv, Parts, Room, ChildTypes, TableTypes, WorkerTypes, RequestTypes, StdinTypes, Ids, NoId
<1>2. UNCHANGED <<pc, callId, nextId>>
  BY DEF Worker, InspectFails, Boot, ApplyStart, ApplyStop, ApplyRestart, ApplyReload, ApplyDatalink,
     Bind, ReadLine, NoticeExit, Respawn, GraceEnd, StopSeen, Drain, Close, callerVars, relayVars,
     Terminate, FailGeneration, FailUnbound
<1>3. \A i : Registered(i)' <=> Registered(i)
  BY <1>2 DEF Registered
<1>4. CASE Hands
  <2> DEFINE item == Head(requests)
  <2>1. /\ requests # <<>> /\ item.kind = "datalink" /\ requests' = Tail(requests) /\ worker = "loop"
        /\ stdin' \in {stdin, Append(stdin, item)} /\ worker' = "bind" /\ binding' = item.id
        /\ UNCHANGED <<pending, bound, generation, procGen, work, lines>>
    BY <1>4 DEF Hands, ApplyDatalink, Takes, Queue, relayVars, procVars
  <2>2. item \in Inputs /\ item.id \in Ids
    BY <1>1, <2>1, SeqTail, RequestInput
  <2>3. ~Carries(requests', item.id) /\ Carries(requests, item.id)
    BY <1>1, <2>1, Taken DEF Journey
  <2>4. item.id < nextId /\ ~Registered(item.id)
    BY <1>1, <2>2, <2>3 DEF Journey, Unsent, Registered, Ids
  <2> HIDE DEF item
  <2>5. \A i : Carries(stdin', i) => Carries(stdin, i) \/ i = item.id
    BY <1>1, <2>1, <2>2, Appended
  <2>6. \A i : Live(i)' => Live(i) \/ i = item.id
    BY <2>1, <2>5 DEF Live, Given, Answered
  <2>7. \A i \in Ids : Live(i)' => Recognised(i)'
    BY <2>1, <2>6 DEF Handed, Recognised
  <2>8. binding' < nextId'
    BY <1>2, <2>1, <2>4
  <2>9. ~Carries(requests', binding') /\ ~(\E c \in Callers : callId'[c] = binding' /\ pc'[c] = "registered")
    BY <1>2, <2>1, <2>3, <2>4 DEF Registered
  <2> QED
    BY <2>7, <2>8, <2>9 DEF Handed, Registered
<1>5. CASE Bind
  <2>1. /\ worker = "bind" /\ worker' = "loop" /\ UNCHANGED <<pending, generation, procGen, stdin, work, lines>>
        /\ bound' = IF binding \in pending THEN [bound EXCEPT ![binding] = generation] ELSE bound
    BY <1>5 DEF Bind, childVars, procVars
  <2>2. \A i : Live(i)' => Live(i)
    BY <2>1 DEF Live, Given, Answered
  <2>3. ASSUME NEW i \in Ids, Live(i), i \in pending PROVE bound'[i] = generation
    BY <1>1, <2>1, <2>3 DEF Handed, Recognised
  <2> QED
    BY <2>1, <2>2, <2>3 DEF Handed, Recognised
<1>6. CASE ~Hands /\ ~Bind
  <2>1. pending' \subseteq pending /\ \A i \in pending' : bound'[i] = bound[i]
    BY <1>6, WorkerKeepsSlots
  <2>2. CASE worker' # "bind" /\ \A i : ~Live(i)'
    BY <2>2 DEF Handed
  <2>3. CASE generation' = generation /\ (\A i : Live(i)' => Live(i)) /\ worker' # "bind"
    <3>1. worker # "bind"
      BY <1>6 DEF Worker, InspectFails, Boot, ApplyStart, ApplyStop, ApplyRestart, ApplyReload, ApplyDatalink,
         Takes, ReadLine, NoticeExit, Respawn, GraceEnd, StopSeen, Drain, Close
    <3> QED
      BY <2>1, <2>3, <3>1 DEF Handed, Recognised
  <2>4. CASE generation' = generation /\ (\A i : Live(i)' => Live(i)) /\ UNCHANGED <<worker, binding>>
    <3>1. \A i : Carries(requests', i) => Carries(requests, i)
      BY <1>6, WorkerCarries DEF NoMore
    <3> QED
      BY <1>1, <1>2, <1>3, <2>1, <2>4, <3>1, SameHanded
  <2> QED
    BY <1>6, <2>2, <2>3, <2>4, WorkerLive
<1> QED
  BY <1>4, <1>5, <1>6

LEMMA WebviewHanded ==
  ASSUME TypeInv, TypeInv', Journey, Truth, Handed, Webview
  PROVE  Handed'
<1>1. /\ UNCHANGED <<generation, worker, binding, procGen, stdin, work, lines>>
      /\ nextId' \in {nextId, nextId + 1}
  BY DEF Webview, CallerReturns, Gate, Acquire, Register, Enqueue, Receive, Timeout, Abandon, Press, Shutdown,
     childVars, workerVars, procVars, relayVars
<1>2. /\ nextId \in Nat /\ binding \in Nat /\ requests \in Seq(Requests)
      /\ callId \in [Callers -> Nat] /\ pc \in [Callers -> Places]
  BY DEF TypeInv, Parts, Room, WorkerTypes, RequestTypes, CallerTypes, Ids, NoId
<1>3. \A i \in Ids : Live(i)' => Live(i)
  BY <1>1 DEF Live, Given, Answered
<1>4. \A i \in Ids : Live(i) => i < nextId
  BY LiveIsIssued
<1>5. \A i \in Ids : Live(i) /\ i \in pending' => i \in pending /\ bound'[i] = bound[i]
  <2>1. ASSUME NEW j, Remove({j}) PROVE pending' \subseteq pending /\ \A i \in pending' : bound'[i] = bound[i]
    BY <2>1 DEF Remove, TypeInv, Parts, TableTypes
  <2>2. CASE UNCHANGED <<pending, bound>>
    BY <2>2
  <2>3. CASE pending' = pending \cup {nextId} /\ UNCHANGED bound
    BY <1>2, <1>4, <2>3
  <2>4. CASE \E j : Remove({j})
    BY <2>1, <2>4
  <2> QED
    BY <2>2, <2>3, <2>4 DEF Webview, CallerReturns, Gate, Acquire, Register, Enqueue, Receive, Timeout,
       Abandon, GiveBack, Press, Shutdown, relayVars
<1>6. /\ \A i : Carries(requests', i) => Carries(requests, i) \/ Registered(i)
      /\ \A i : i < nextId /\ Registered(i)' => Registered(i)
  BY WebviewQueues
<1> QED
  BY <1>1, <1>2, <1>3, <1>5, <1>6, SameHanded

LEMMA ProcessHanded ==
  ASSUME TypeInv, Handed, Process
  PROVE  Handed'
<1>1. UNCHANGED <<pc, callId, nextId, pending, bound, generation, procGen, worker, binding, requests>>
  BY DEF Process, callerVars, relayVars, workerVars, Announce, ReadStdin, Answer, Crash
<1>2. /\ lines \in Seq(Lines) /\ stdin \in Seq(Inputs) /\ work \subseteq Ids
      /\ nextId \in Nat /\ binding \in Nat
  BY DEF TypeInv, Parts, Room, LineTypes, StdinTypes, ProcTypes, WorkerTypes, Ids, NoId
<1>3. ASSUME NEW kind, NEW i, Emit(kind, i)
      PROVE  \A j : Answered(j)' => Answered(j) \/ (kind = "response" /\ j = i /\ procGen = generation)
  <2> DEFINE line == [gen |-> procGen, kind |-> kind, id |-> i]
  <2>1. lines' = Append(lines, line) /\ line.gen = procGen /\ line.kind = kind /\ line.id = i
    BY <1>3 DEF Emit, Send
  <2> HIDE DEF line
  <2>2. /\ Len(lines') = Len(lines) + 1 /\ lines'[Len(lines) + 1] = line
        /\ \A n \in 1..Len(lines) : lines'[n] = lines[n]
    BY <1>2, <2>1
  <2>3. \A n \in 1..Len(lines') : n \in 1..Len(lines) \/ n = Len(lines) + 1
    BY <1>2, <2>2
  <2> QED
    BY <1>1, <2>1, <2>2, <2>3 DEF Answered
<1>4. \A j : UNCHANGED lines => (Answered(j)' <=> Answered(j))
  BY <1>1 DEF Answered
<1>5. \A i \in Ids : Live(i)' => Live(i)
  <2>1. CASE Announce
    <3>1. \A j : Answered(j)' => Answered(j)
      BY <1>3, <2>1 DEF Announce
    <3>2. UNCHANGED <<stdin, work, procGen>>
      BY <2>1 DEF Announce
    <3> QED
      BY <1>1, <3>1, <3>2 DEF Live, Given
  <2>2. CASE ReadStdin /\ Head(stdin).kind = "datalink"
    <3>1. /\ stdin # <<>> /\ stdin' = Tail(stdin) /\ work' \subseteq work \cup {Head(stdin).id} /\ UNCHANGED lines
      BY <2>2 DEF ReadStdin
    <3>2. \A i : Carries(stdin', i) \/ i = Head(stdin).id => Carries(stdin, i)
      BY <1>2, <2>2, <3>1, Taken
    <3> QED
      BY <1>1, <1>4, <3>1, <3>2 DEF Live, Given
  <2>3. CASE ReadStdin /\ Head(stdin).kind # "datalink"
    <3>1. stdin' \in {Tail(stdin), <<>>} /\ stdin # <<>> /\ work' \subseteq work
      BY <2>3 DEF ReadStdin, Gone
    <3>2. \A i : Carries(stdin', i) => Carries(stdin, i)
      <4>1. \A i : ~Carries(<<>>, i)
        BY DEF Carries
      <4>2. \A i : Carries(Tail(stdin), i) => Carries(stdin, i)
        BY <1>2, <3>1, Taken
      <4> QED
        BY <3>1, <4>1, <4>2
    <3>3. \A j : Answered(j)' => Answered(j)
      BY <1>3, <1>4, <2>3 DEF ReadStdin
    <3> QED
      BY <1>1, <3>1, <3>2, <3>3 DEF Live, Given
  <2>4. ASSUME NEW i \in Ids, Answer(i) PROVE \A j \in Ids : Live(j)' => Live(j)
    <3>1. i \in work /\ work' = work \ {i} /\ Emit("response", i) /\ stdin' = stdin
      BY <2>4 DEF Answer
    <3>2. \A j : Answered(j)' => Answered(j) \/ (j = i /\ procGen = generation)
      BY <1>3, <3>1
    <3> QED
      BY <1>1, <3>1, <3>2 DEF Live, Given
  <2>5. CASE Crash
    <3>1. stdin' = <<>> /\ work' = {} /\ UNCHANGED lines
      BY <2>5 DEF Crash, Gone
    <3>2. \A i : ~Carries(stdin', i)
      BY <3>1 DEF Carries
    <3> QED
      BY <1>1, <1>4, <3>1, <3>2 DEF Live, Given
  <2> QED
    BY <2>1, <2>2, <2>3, <2>4, <2>5 DEF Process
<1>6. \A i : Registered(i)' => Registered(i)
  BY <1>1 DEF Registered
<1> QED
  BY <1>1, <1>2, <1>5, <1>6, SameHanded

\* A sidecar left behind has no say in what is live: its generation is over.
LEMMA StrayHanded == ASSUME TypeInv, Outlived, Handed, Stray PROVE Handed'
<1>1. PICK p \in strays, q \in Strays : Does(p, q)
  BY StrayDoes
<1>2. UNCHANGED <<pc, callId, nextId, pending, bound, generation, procGen, worker, binding, requests, stdin, work>>
  BY StrayKeeps
<1>3. /\ lines \in Seq(Lines) /\ generation \in Nat /\ nextId \in Nat /\ binding \in Nat
      /\ p.gen \in Nat /\ p.gen < generation
  BY DEF TypeInv, Parts, Room, LineTypes, ChildTypes, WorkerTypes, StrayTypes, Strays, Outlived, Ids, NoId
<1>4. \A i : Answered(i)' => Answered(i)
  <2>1. CASE lines' = lines
    BY <1>2, <2>1 DEF Answered
  <2>2. CASE \E line : line.gen = p.gen /\ lines' = Append(lines, line)
    <3>1. PICK line : line.gen = p.gen /\ lines' = Append(lines, line)
      BY <2>2
    <3>2. \A n \in 1..Len(lines') : lines'[n] = line \/ (n \in 1..Len(lines) /\ lines'[n] = lines[n])
      BY <1>3, <3>1
    <3>3. line.gen # generation
      BY <1>3, <3>1
    <3> QED
      BY <1>2, <3>2, <3>3 DEF Answered
  <2> QED
    BY <1>1, <2>1, <2>2 DEF Does, Says, Reads
<1>5. \A i \in Ids : Live(i)' => Live(i)
  BY <1>2, <1>4 DEF Live, Given
<1>6. \A i : Registered(i)' => Registered(i)
  BY <1>2 DEF Registered
<1> QED
  BY <1>2, <1>3, <1>5, <1>6, SameHanded

LEMMA NextHanded ==
  TypeInv /\ LifeInv /\ Outlived /\ Journey /\ Truth /\ Handed /\ [Next]_vars => Handed'
<1> SUFFICES ASSUME TypeInv, TypeInv', LifeInv, Outlived, Journey, Truth, Handed, [Next]_vars PROVE Handed'
  BY NextTypes
<1>1. CASE UNCHANGED vars
  BY <1>1 DEF vars, callerVars, relayVars, childVars, workerVars, procVars, Handed, Live, Given, Answered,
     Recognised, Registered
<1> QED
  BY <1>1, WorkerHanded, WebviewHanded, ProcessHanded, StrayHanded DEF Next

-----------------------------------------------------------------------------
(* The calls: all of it together, and what it says of the table.           *)

CallInv == Claims /\ Journey /\ Strayed /\ Truth /\ Carried /\ Handed

LEMMA InitCalls == Init => CallInv
<1> SUFFICES ASSUME Init PROVE CallInv
  OBVIOUS
<1>1. /\ \A c \in Callers : pc[c] = "idle" /\ callId[c] = NoId
      /\ pending = {} /\ work = {} /\ lines = <<>> /\ requests = <<>> /\ stdin = <<>> /\ worker = "boot"
      /\ child = FALSE /\ procGen = 0 /\ generation = 0
      /\ strays = {} /\ \A i \in Ids : reply[i] = "none" /\ runs[i] = 0
  BY DEF Init
<1>2. /\ \A i : ~Carries(<<>>, i)
      /\ Once(<<>>)
      /\ \A n : n \notin 1..Len(<<>>)
  BY DEF Carries, Once
<1>3. Claims /\ Strayed /\ Truth /\ Carried
  BY <1>1, <1>2 DEF Claims, Strayed, Truth, Carried, Holding
<1>4. Journey
  BY <1>1, <1>2 DEF Journey, Unsent
<1>5. Handed
  BY <1>1, <1>2 DEF Handed, Live, Given, Answered
<1> QED
  BY <1>3, <1>4, <1>5 DEF CallInv

LEMMA CallsInvariant == Spec => [](TypeInv /\ LifeInv /\ Outlived /\ CallInv)
<1>1. TypeInv /\ LifeInv /\ Outlived /\ CallInv /\ [Next]_vars => CallInv'
  BY NextClaims, NextJourney, NextStrayed, NextTruth, NextCarried, NextHanded DEF CallInv
<1> QED
  BY <1>1, InitCalls, InitTypes, NextTypes, InitLife, NextLife, PTL DEF Spec

\* The relay's books agree on both sides of the worker, for any number of callers,
\* ids and sidecar generations and for any capacity of the queues: slots and calls
\* pair up, an unbound call is on its way to the worker, the live sidecar's answer
\* finds its slot bound, and no two writes of a kind are inside.
THEOREM TableIsAlwaysExact == Spec => []TableIsExact
<1>1. TypeInv /\ CallInv => SlotsMatchCalls /\ UnboundIsCarried /\ AnswersAreKnown
  BY CarriedIsCarried, HandedIsKnown DEF CallInv, Claims, Holding, SlotsMatchCalls
<1>2. TypeInv /\ CallInv /\ OneWriteAtATime => TableIsExact
  BY <1>1 DEF TableIsExact
<1> QED
  BY <1>2, CallsInvariant, FlagsAreHeldByOne, PTL

-----------------------------------------------------------------------------
(* The calls: the relay keeps the promise of RelaySpec.                    *)

\* The relay's variables as RelaySpec names them.
OpenCalls == [c \in Callers |-> IF pc[c] \in Holding THEN callId[c] ELSE NoId]
Issued == 1..(nextId - 1)

LEMMA InitRelay == Init => Relay!Init
BY DEF Init, Relay!Init, Ids

\* A step that neither opens nor closes a call, nor executes one.
LEMMA RelayStutters ==
  ASSUME \A c \in Callers : OpenCalls'[c] = OpenCalls[c], UNCHANGED <<nextId, runs, told>>
  PROVE  UNCHANGED Relay!relayVars
<1>1. OpenCalls' = OpenCalls
  BY DEF OpenCalls
<1> QED
  BY <1>1 DEF OpenCalls, Holding, Relay!relayVars

LEMMA OpenValues ==
  ASSUME TypeInv
  PROVE  \A c \in Callers : /\ OpenCalls[c] = IF pc[c] \in Holding THEN callId[c] ELSE NoId
                            /\ pc[c] \in Holding => callId[c] \in Ids /\ callId[c] # NoId
<1>1. NoId \notin Ids
  BY DEF NoId, Ids
<1> QED
  BY <1>1 DEF OpenCalls, TypeInv, Named

\* A caller returns: with the sidecar's answer only about what a sidecar has read.
LEMMA ReturnRelay ==
  ASSUME TypeInv, Truth, NEW c \in Callers, NEW outcome, Return(c, outcome), UNCHANGED <<nextId, runs>>,
         outcome = "answer" => pc[c] \in Holding /\ reply[callId[c]] = "answer"
  PROVE  [Relay!Next]_Relay!relayVars
<1>1. /\ \A d \in Callers : d # c => pc'[d] = pc[d] /\ callId'[d] = callId[d]
      /\ pc'[c] \notin Holding
      /\ told' = IF outcome = "answer" THEN told \cup {callId[c]} ELSE told
  BY DEF Return, TypeInv, Parts, CallerTypes, Holding
<1>2. OpenCalls' = [OpenCalls EXCEPT ![c] = NoId]
  BY <1>1 DEF OpenCalls
<1>3. CASE pc[c] \notin Holding
  <2>1. \A d \in Callers : OpenCalls'[d] = OpenCalls[d]
    BY <1>1, <1>3 DEF OpenCalls
  <2> QED
    BY <1>1, <1>3, <2>1, RelayStutters
<1>4. CASE pc[c] \in Holding
  <2>1. OpenCalls[c] = callId[c] /\ callId[c] # NoId /\ callId[c] \in Ids
    BY <1>4, OpenValues
  <2>2. CASE outcome = "answer"
    <3>1. runs[callId[c]] = 1 /\ told' = told \cup {callId[c]}
      BY <1>1, <2>1, <2>2 DEF Truth
    <3>2. Relay!Succeed(c)
      BY <1>2, <2>1, <3>1 DEF Relay!Succeed, OpenCalls, Holding
    <3> QED
      BY <3>2 DEF Relay!Next
  <2>3. CASE outcome # "answer"
    <3>1. Relay!GiveUp(c)
      BY <1>1, <1>2, <2>1, <2>3 DEF Relay!GiveUp, OpenCalls, Holding
    <3> QED
      BY <3>1 DEF Relay!Next
  <2> QED
    BY <2>2, <2>3
<1> QED
  BY <1>3, <1>4

\* A caller moves on without opening or closing its call.
LEMMA MoveRelay ==
  ASSUME TypeInv, NEW c \in Callers, NEW place, pc' = [pc EXCEPT ![c] = place],
         place \in Holding <=> pc[c] \in Holding, UNCHANGED <<callId, nextId, runs, told>>
  PROVE  UNCHANGED Relay!relayVars
<1>1. \A d \in Callers : OpenCalls'[d] = OpenCalls[d]
  BY DEF OpenCalls, TypeInv, Parts, CallerTypes
<1> QED
  BY <1>1, RelayStutters

LEMMA RegisterRelay ==
  ASSUME TypeInv, TypeInv', Truth, NEW c \in Callers, Register(c)
  PROVE  [Relay!Next]_Relay!relayVars
<1>1. runs' = runs
  BY DEF Register, procVars
<1>2. CASE Return(c, "busy") /\ UNCHANGED relayVars
  BY <1>1, <1>2, ReturnRelay DEF relayVars
<1>3. CASE /\ pc' = [pc EXCEPT ![c] = "registered"] /\ callId' = [callId EXCEPT ![c] = nextId]
           /\ nextId' = nextId + 1 /\ UNCHANGED told
  <2>1. nextId \in Ids /\ nextId \notin Issued /\ Issued' = Issued \cup {nextId}
    <3>1. nextId \in Nat \ {0} /\ MaxCalls \in Nat
      BY BoundsAssumption DEF TypeInv, Room
    <3>2. nextId \in Ids
      BY <1>3 DEF TypeInv, Parts, CallerTypes, Named, Holding
    <3> QED
      BY <1>3, <3>1, <3>2 DEF Issued
  <2>2. OpenCalls' = [OpenCalls EXCEPT ![c] = nextId]
    BY <1>3 DEF OpenCalls, TypeInv, Parts, CallerTypes, Holding
  <2>3. OpenCalls[c] = NoId
    BY OpenValues DEF Register, Holding
  <2>4. Relay!Issue(c)
    BY <1>1, <1>3, <2>1, <2>2, <2>3 DEF Relay!Issue, OpenCalls, Issued, Holding
  <2> QED
    BY <2>4 DEF Relay!Next
<1> QED
  BY <1>2, <1>3 DEF Register

LEMMA CallerRelay ==
  ASSUME TypeInv, TypeInv', Truth, NEW c \in Callers, CallerReturns(c)
  PROVE  [Relay!Next]_Relay!relayVars
<1>1. CASE Acquire(c)
  <2>1. UNCHANGED <<nextId, runs>> /\ pc[c] = "gated"
    BY <1>1 DEF Acquire, relayVars, procVars
  <2>2. CASE Return(c, "in-progress")
    BY <2>1, <2>2, ReturnRelay
  <2>3. CASE pc' = [pc EXCEPT ![c] = "guarded"] /\ UNCHANGED <<callId, told>>
    BY <2>1, <2>3, MoveRelay DEF Holding
  <2> QED
    BY <1>1, <2>2, <2>3 DEF Acquire
<1>2. CASE Enqueue(c)
  <2>1. UNCHANGED <<nextId, runs>> /\ pc[c] = "registered"
    BY <1>2 DEF Enqueue, procVars
  <2>2. CASE \E outcome \in {"bad-request", "busy"} : Return(c, outcome)
    BY <2>1, <2>2, ReturnRelay
  <2>3. CASE pc' = [pc EXCEPT ![c] = "waiting"] /\ UNCHANGED <<callId, told>>
    BY <2>1, <2>3, MoveRelay DEF Holding
  <2> QED
    BY <1>2, <2>2, <2>3 DEF Enqueue
<1>3. CASE Receive(c)
  <2>1. UNCHANGED <<nextId, runs>> /\ pc[c] \in Holding /\ Return(c, reply[callId[c]])
    BY <1>3 DEF Receive, procVars, Holding
  <2> QED
    BY <2>1, ReturnRelay
<1>4. CASE Timeout(c)
  <2>1. /\ pc[c] = "waiting" /\ pc' = [pc EXCEPT ![c] = "abandoning"]
        /\ UNCHANGED <<callId, nextId, runs, told>>
    BY <1>4 DEF Timeout, relayVars, procVars
  <2> QED
    BY <2>1, MoveRelay DEF Holding
<1>5. CASE Abandon(c)
  <2>1. UNCHANGED <<nextId, runs>> /\ pc[c] \in Holding /\ Return(c, LateOutcome(callId[c]))
    BY <1>5 DEF Abandon, procVars, Holding
  <2>2. LateOutcome(callId[c]) = "answer" => reply[callId[c]] = "answer"
    BY DEF LateOutcome
  <2> QED
    BY <2>1, <2>2, ReturnRelay
<1> QED
  BY <1>1, <1>2, <1>3, <1>4, <1>5, RegisterRelay DEF CallerReturns

\* The sidecar reads a request: it was issued, and nobody has run it.
LEMMA ProcessRelay ==
  ASSUME TypeInv, Journey, Process
  PROVE  [Relay!Next]_Relay!relayVars
<1>1. UNCHANGED <<pc, callId, told, nextId>>
  BY DEF Process, callerVars, relayVars
<1>2. \A c \in Callers : OpenCalls'[c] = OpenCalls[c]
  BY <1>1 DEF OpenCalls
<1>3. CASE runs' = runs
  BY <1>1, <1>2, <1>3, RelayStutters
<1>4. CASE /\ ReadStdin /\ stdin # <<>> /\ Head(stdin).kind = "datalink"
           /\ runs' = [runs EXCEPT ![Head(stdin).id] = @ + 1]
  <2> DEFINE i == Head(stdin).id
  <2>1. i \in Ids /\ Carries(stdin, i)
    <3>1. stdin \in Seq(Inputs)
      BY DEF TypeInv, Parts, StdinTypes
    <3> QED
      BY <1>4, <3>1, SeqTail, Taken DEF Inputs
  <2>2. runs[i] = 0 /\ i < nextId
    <3>1. i \in Nat /\ nextId \in Nat
      BY <2>1 DEF Ids, TypeInv, Room
    <3>2. runs[i] = 0 /\ ~(i >= nextId)
      BY <2>1 DEF Journey, Unsent
    <3> QED
      BY <3>1, <3>2
  <2>6. runs' = [runs EXCEPT ![i] = 1]
    BY <1>4, <2>1, <2>2 DEF TypeInv, Parts, RunTypes
  <2>3. i \in Issued
    BY <2>1, <2>2 DEF Issued, Ids, TypeInv, Room
  <2> HIDE DEF i
  <2>4. UNCHANGED OpenCalls /\ UNCHANGED Issued
    BY <1>1 DEF OpenCalls, Issued
  <2>5. Relay!Execute(i)
    BY <1>1, <2>2, <2>3, <2>4, <2>6 DEF Relay!Execute, OpenCalls, Issued, Holding
  <2> QED
    BY <2>1, <2>5 DEF Relay!Next
<1> QED
  BY <1>3, <1>4 DEF Process, Announce, ReadStdin, Answer, Crash

\* So does one that was left behind, of what it had taken with it.
LEMMA StrayRelay ==
  ASSUME TypeInv, Strayed, Stray
  PROVE  [Relay!Next]_Relay!relayVars
<1>1. PICK p \in strays, q \in Strays : Does(p, q)
  BY StrayDoes
<1>2. UNCHANGED <<pc, callId, told, nextId>>
  BY StrayKeeps
<1>3. \A c \in Callers : OpenCalls'[c] = OpenCalls[c]
  BY <1>2 DEF OpenCalls
<1>4. CASE runs' = runs
  BY <1>2, <1>3, <1>4, RelayStutters
<1>5. CASE \E i \in Ids : Reads(p, q, i)
  <2>1. PICK i \in Ids : Reads(p, q, i)
    BY <1>5
  <2>2. runs[i] = 0 /\ i < nextId
    BY <2>1 DEF Reads, Strayed, Adrift, Unsent
  <2>3. runs' = [runs EXCEPT ![i] = 1]
    BY <2>1, <2>2 DEF Reads, TypeInv, Parts, RunTypes
  <2>4. i \in Issued
    BY <2>2 DEF Issued, Ids, TypeInv, Room
  <2>5. UNCHANGED OpenCalls /\ UNCHANGED Issued
    BY <1>2 DEF OpenCalls, Issued
  <2>6. Relay!Execute(i)
    BY <1>2, <2>2, <2>3, <2>4, <2>5 DEF Relay!Execute, OpenCalls, Issued, Holding
  <2> QED
    BY <2>6 DEF Relay!Next
<1> QED
  BY <1>1, <1>4, <1>5 DEF Does, Says

LEMMA NextRelay == TypeInv /\ CallInv /\ [Next]_vars => [Relay!Next]_Relay!relayVars
<1> SUFFICES ASSUME TypeInv, TypeInv', CallInv, [Next]_vars PROVE [Relay!Next]_Relay!relayVars
  BY NextTypes
<1> USE DEF CallInv
<1>1. CASE UNCHANGED <<pc, callId, told, nextId, runs>>
  <2>1. \A c \in Callers : OpenCalls'[c] = OpenCalls[c]
    BY <1>1 DEF OpenCalls
  <2> QED
    BY <1>1, <2>1, RelayStutters
<1>2. CASE Worker \/ InspectFails
  <2>1. UNCHANGED <<pc, callId, told, nextId, runs>>
    BY <1>2 DEF Worker, InspectFails, Boot, ApplyStart, ApplyStop, ApplyRestart, ApplyReload, ApplyDatalink,
       Bind, ReadLine, NoticeExit, Respawn, GraceEnd, StopSeen, Drain, Close, callerVars, relayVars, procVars,
       Terminate, FailGeneration, FailUnbound
  <2> QED
    BY <1>1, <2>1
<1>3. CASE UNCHANGED vars \/ Shutdown \/ \E kind \in PressKinds : Press(kind)
  BY <1>1, <1>3 DEF vars, Shutdown, Press, callerVars, relayVars, procVars
<1>4. ASSUME NEW c \in Callers, NEW op, NEW valid, Gate(c, op, valid)
      PROVE  [Relay!Next]_Relay!relayVars
  <2>1. UNCHANGED <<nextId, runs>> /\ pc[c] = "idle"
    BY <1>4 DEF Gate, relayVars, procVars
  <2>2. ASSUME NEW outcome, Return(c, outcome), outcome # "answer" PROVE [Relay!Next]_Relay!relayVars
    BY <2>1, <2>2, ReturnRelay
  <2>3. CASE pc' = [pc EXCEPT ![c] = "gated"] /\ UNCHANGED <<callId, told>>
    BY <2>1, <2>3, MoveRelay DEF Holding
  <2> QED
    BY <1>4, <2>2, <2>3 DEF Gate
<1> QED
  BY <1>2, <1>3, <1>4, CallerRelay, ProcessRelay, StrayRelay DEF Next, Webview

\* Every relayed call is executed at most once and told the truth about it: the
\* supervisor, its worker and its sidecars implement RelaySpec, whatever crashes,
\* restarts, times out or is shut down in between.
THEOREM CallsAreToldTheTruth == Spec => RelayRefined
<1>1. Spec => Relay!Init
  BY InitRelay, PTL DEF Spec
<1> QED
  BY <1>1, NextRelay, CallsInvariant, PTL DEF Spec, RelayRefined, Relay!Spec
=============================================================================
