------------------------------ MODULE RelaySpec ------------------------------
(***************************************************************************)
(* What Supervisor::datalink promises the webview about one relayed        *)
(* request, with the queues, the worker thread, the sidecar generations    *)
(* and the correlation table of the shell left out.                        *)
(*                                                                         *)
(* A caller opens a request under a fresh id.  The request is executed by  *)
(* a sidecar at most once - it is never resent, not even to the sidecar    *)
(* that replaces a crashed one - and possibly after the caller has given   *)
(* up on it.  A caller is told "ok" only about a request that was          *)
(* executed; every other return is an error.                               *)
(***************************************************************************)
EXTENDS Naturals

CONSTANTS Callers, Ids, NoId

VARIABLES
  open,    \* open[c] : the id of the request c is waiting on, or NoId
  issued,  \* the ids that have ever been handed out
  runs,    \* runs[i] : how many times a sidecar has taken request i on
  told     \* the ids whose caller was told "ok"

relayVars == <<open, issued, runs, told>>

Init ==
  /\ open = [c \in Callers |-> NoId]
  /\ issued = {}
  /\ runs = [i \in Ids |-> 0]
  /\ told = {}

\* A request is opened under an id nobody has used.
Issue(c) ==
  /\ open[c] = NoId
  /\ \E i \in Ids \ issued :
       /\ open' = [open EXCEPT ![c] = i]
       /\ issued' = issued \cup {i}
  /\ UNCHANGED <<runs, told>>

\* A sidecar takes an issued request on, once; its caller may be long gone.
Execute(i) ==
  /\ i \in issued
  /\ runs[i] = 0
  /\ runs' = [runs EXCEPT ![i] = 1]
  /\ UNCHANGED <<open, issued, told>>

\* The caller returns with the sidecar's own answer.
Succeed(c) ==
  /\ open[c] # NoId
  /\ runs[open[c]] = 1
  /\ told' = told \cup {open[c]}
  /\ open' = [open EXCEPT ![c] = NoId]
  /\ UNCHANGED <<issued, runs>>

\* The caller returns with one of the shell's error codes.
GiveUp(c) ==
  /\ open[c] # NoId
  /\ open' = [open EXCEPT ![c] = NoId]
  /\ UNCHANGED <<issued, runs, told>>

Next ==
  \/ \E c \in Callers : Issue(c) \/ Succeed(c) \/ GiveUp(c)
  \/ \E i \in Ids : Execute(i)

Spec == Init /\ [][Next]_relayVars
=============================================================================
