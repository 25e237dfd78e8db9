------------------------------ MODULE Ui_proofs ------------------------------
(***************************************************************************)
(* Theorems of Panel: whatever is pressed, whatever the datalink state     *)
(* says and in whatever order the answers come, one request of a family is *)
(* out, a write goes to the target its page shows, and what a save of the  *)
(* configuration made old is not kept.  And of ThreadView: a sequence      *)
(* number the panel holds names the message the sidecar has there.         *)
(***************************************************************************)
EXTENDS ThreadView, Panel, FiniteSetTheorems, WellFoundedInduction, TLAPS

-----------------------------------------------------------------------------
(* The shape of the panel's memory, of a request and of a staged action. *)

PanelFields ==
  {"shown", "out", "list", "form", "forming", "sheets", "leg", "asking", "askedLeg",
   "results", "shownLeg", "key", "status", "reading", "act", "sending", "sendingAction",
   "sendingLeg", "pdc", "texts", "settings", "filing", "filed", "clearing", "url", "token",
   "cache", "saving", "queued", "outlived"}
RequestFields == {"kind", "on", "id", "n", "live", "at", "behind", "cfg", "good", "stale"}
StatusFields == {"id", "cfg", "stale"}

Shaped(w) ==
  /\ DOMAIN w = PanelFields
  /\ DOMAIN w.status = StatusFields
  /\ \A r \in w.out : DOMAIN r = RequestFields
Settled(c) ==
  /\ DOMAIN c = {"file", "force", "pending"}
  /\ c.file = [url |-> c.file.url, token |-> c.file.token]

\* What a confirm page may have staged.
Action(a, kinds) == a = NoAction \/ (a.kind \in kinds /\ a = [kind |-> a.kind, on |-> a.on, id |-> a.id])
Staged(w) == Action(w.form, Forms) /\ Action(w.act, Acts)

\* A request is a write, a read of a page that opens, or CFG's.
Reads == {"list", "status", "settings"}
Kinds == Forms \cup Acts \cup Reads \cup {"clearance", "pdc", "prefile", "clear", "save", "config"}
Listed(out) == \A r \in out : r.kind \in Kinds

\* A family has one request out at most, and its flag is up while it is.
Lone(out, kinds, busy) ==
  \A r \in out : r.kind \in kinds => busy /\ \A q \in out : q.kind \in kinds => q = r
LoneByPage(out, pages) ==
  \A r \in out : r.kind = "clear" =>
    r.on \in pages /\ \A q \in out : q.kind = "clear" /\ q.on = r.on => q = r
Single(w) ==
  /\ Listed(w.out)
  /\ Lone(w.out, Forms, w.forming)
  /\ Lone(w.out, Acts \cup {"pdc"}, w.sending)
  /\ Lone(w.out, {"clearance"}, w.asking)
  /\ Lone(w.out, {"prefile"}, w.filing)
  /\ Lone(w.out, {"settings"}, TRUE)
  /\ Lone(w.out, {"save", "config"}, w.saving)
  /\ LoneByPage(w.out, w.clearing)

\* Whose answers may be kept: the file's configuration, and those that stayed in
\* force over a file that was refused.  Rightful is what the sidecar answers for.
Of(w, c) == {c.file} \cup w.outlived
Rightful(w, c) == c.force \in Of(w, c) \cup {NoConfig}

\* Until a save that changes the server is answered, all that is kept, and all
\* that a live answer or request may add to it, is of one of these; while that
\* answer is on its way, everything still is to be forgotten.  What is in force
\* is none of them only while a reload is queued (InForce).
Keeps == {"clearance", "pdc", "status"}
KeptAgree(w, c) ==
  /\ \A kept \in {w.results, w.texts} : \A i \in DOMAIN kept : kept[i].cfg \in Of(w, c)
  /\ w.status # NoStatus => w.status.cfg \in Of(w, c) /\ w.status.id = w.key
RequestsAgree(w, c) ==
  \A r \in w.out :
    /\ r.kind \in Keeps /\ r.live =>
         /\ r.at = "answered" /\ r.good => r.cfg \in Of(w, c)
         /\ r.at = "out" /\ ~r.behind => Rightful(w, c)
         /\ r.kind = "status" => r.id = w.key
    /\ r.kind = "config" /\ r.at = "answered" => r.cfg = c.file
GoodSave(r) == r.kind = "save" /\ r.at = "answered" /\ r.good
CacheAgrees(w, c) ==
  w.cache \in {"", c.file.url} \/ \E r \in w.out : r.kind = "config" \/ GoodSave(r)
Agreed(w, c) ==
  /\ KeptAgree(w, c) /\ RequestsAgree(w, c) /\ CacheAgrees(w, c)
  /\ Rightful(w, c) \/ w.queued
Forgetting(w) == \E r \in w.out : GoodSave(r) /\ Changes(w, r)
InForce(w, c) == Rightful(w, c) \/ c.pending
Current(w, c) == InForce(w, c) /\ (Agreed(w, c) \/ Forgetting(w))

\* Every answered save is told as it went.
HonestSaves == SaveAnswers \subseteq {"saved", "failed"}
Lists(w) == (\E S : w.results \in Seq(S)) /\ (\E S : w.texts \in Seq(S))

PanelInv(w, c) ==
  Shaped(w) /\ Settled(c) /\ Staged(w) /\ Lists(w) /\ Single(w) /\ (HonestSaves => Current(w, c))

-----------------------------------------------------------------------------
(* Reads.  A page that opens, or DL-SI that repaints, may make one.         *)

SameBut(w, y, fields) == DOMAIN y = PanelFields /\ \A f \in PanelFields \ fields : y[f] = w[f]
ReadFields == {"shown", "list", "key", "status", "reading", "settings", "out"}

\* The link state and its reads go on, or start anew for the flight named now.
StatusGoesOn(w, y) ==
  \/ y.key = w.key /\ y.status = w.status /\ \A r \in y.out : r.kind = "status" /\ r.live => r \in w.out
  \/ y.status = NoStatus /\ \A r \in y.out : r.kind = "status" /\ r.live =>
                              r.id = y.key /\ r.at = "out" /\ (w.queued => r.behind)
Follows(w, y) ==
  /\ Shaped(y) /\ SameBut(w, y, ReadFields)
  /\ \A r : r.kind \notin Reads => (r \in y.out <=> r \in w.out)
  /\ Lone(w.out, {"settings"}, TRUE) => Lone(y.out, {"settings"}, TRUE)
  /\ StatusGoesOn(w, y)

NewRequest(w, action, n) ==
  [kind |-> action.kind, on |-> action.on, id |-> action.id, n |-> n, live |-> TRUE,
   at |-> "out", behind |-> action.kind # "config" /\ w.queued,
   cfg |-> NoConfig, good |-> FALSE, stale |-> FALSE]

\* A request is added to those that are out, and nothing else changes.
LEMMA RequestAdds ==
  ASSUME NEW w, Shaped(w), NEW action, NEW n
  PROVE  /\ Shaped(Request(w, action, n))
         /\ SameBut(w, Request(w, action, n), {"out"})
         /\ Request(w, action, n).out = w.out \cup {NewRequest(w, action, n)}
<1> DEFINE y == Request(w, action, n)
           new == NewRequest(w, action, n)
<1>1. y = [w EXCEPT !.out = w.out \cup {new}]
  BY DEF Request, NewRequest
<1>2. DOMAIN new = RequestFields
  BY DEF NewRequest, RequestFields
<1> HIDE DEF y, new
<1>3. DOMAIN y = PanelFields /\ y.out = w.out \cup {new} /\ \A f \in PanelFields \ {"out"} : y[f] = w[f]
  BY <1>1 DEF Shaped, PanelFields
<1>4. y.status = w.status
  BY <1>3 DEF PanelFields
<1>5. Shaped(y)
  BY <1>2, <1>3, <1>4 DEF Shaped
<1> QED
  BY <1>3, <1>5 DEF y, new, SameBut

\* A later request of a kind takes the life of the earlier ones.
LEMMA SupersedeKills ==
  ASSUME NEW w, Shaped(w), NEW kinds
  PROVE  /\ Shaped(Supersede(w, kinds))
         /\ SameBut(w, Supersede(w, kinds), {"out"})
         /\ Supersede(w, kinds).out =
              {IF r.kind \in kinds THEN [r EXCEPT !.live = FALSE] ELSE r : r \in w.out}
<1> DEFINE y == Supersede(w, kinds)
           dead(r) == IF r.kind \in kinds THEN [r EXCEPT !.live = FALSE] ELSE r
<1>1. y = [w EXCEPT !.out = {dead(r) : r \in w.out}]
  BY DEF Supersede
<1>2. \A r \in w.out : DOMAIN dead(r) = RequestFields
  BY DEF Shaped
<1> HIDE DEF y, dead
<1>3. DOMAIN y = PanelFields /\ y.out = {dead(r) : r \in w.out} /\ \A f \in PanelFields \ {"out"} : y[f] = w[f]
  BY <1>1 DEF Shaped, PanelFields
<1>4. y.status = w.status
  BY <1>3 DEF PanelFields
<1>5. Shaped(y)
  BY <1>2, <1>3, <1>4 DEF Shaped
<1> QED
  BY <1>3, <1>5 DEF y, dead, SameBut

\* A read leaves the requests of other kinds as they are.
Reread(w, y, kind, id) ==
  /\ Shaped(y) /\ SameBut(w, y, {"out"})
  /\ \A r : r.kind \notin Reads => (r \in y.out <=> r \in w.out)
  /\ Lone(w.out, {"settings"}, TRUE) => Lone(y.out, {"settings"}, TRUE)
  /\ kind # "status" => \A r \in y.out : r.kind = "status" /\ r.live => r \in w.out
  /\ kind = "status" => \A r \in y.out : r.kind = "status" /\ r.live =>
                           r.id = id /\ r.at = "out" /\ (w.queued => r.behind)
LEMMA ReadKeepsRest ==
  ASSUME NEW w, Shaped(w), NEW kind \in Reads, NEW on, NEW id,
         kind = "settings" => Outstanding(w, {"settings"}) = {}
  PROVE  Reread(w, Read(w, kind, on, id), kind, id)
<1> DEFINE u == Supersede(w, {kind})
           action == [kind |-> kind, on |-> on, id |-> id]
           y == Request(u, action, 0)
           dead(r) == IF r.kind \in {kind} THEN [r EXCEPT !.live = FALSE] ELSE r
           new == NewRequest(u, action, 0)
<1>1. Shaped(u) /\ SameBut(w, u, {"out"}) /\ u.out = {dead(r) : r \in w.out}
  BY SupersedeKills
<1>2. Read(w, kind, on, id) = y
  BY DEF Read
<1>3. Shaped(y) /\ SameBut(u, y, {"out"}) /\ y.out = u.out \cup {new}
  <2> HIDE DEF u, action
  <2> QED BY <1>1, RequestAdds
<1>4. SameBut(w, y, {"out"})
  BY <1>1, <1>3 DEF SameBut
<1>5. u.queued = w.queued /\ u.outlived = w.outlived
  BY <1>1 DEF SameBut, PanelFields
<1>6. /\ new.kind = kind /\ new.id = id /\ new.at = "out"
      /\ w.queued => new.behind
  <2>1. new.kind = kind /\ new.id = id /\ new.at = "out"
    BY DEF NewRequest
  <2>2. new.behind = (kind # "config" /\ u.queued)
    BY DEF NewRequest
  <2>3. kind # "config"
    BY DEF Reads
  <2> QED BY <2>1, <2>2, <2>3, <1>5
<1>7. \A r \in w.out : dead(r).kind = r.kind /\ (r.kind # kind => dead(r) = r)
                        /\ (r.kind = kind => dead(r).live = FALSE)
  BY DEF Shaped, RequestFields
<1> HIDE DEF u, y, new, dead, action
<1>8. \A r : r.kind # kind => (r \in y.out <=> r \in w.out)
  BY <1>1, <1>3, <1>6, <1>7
<1>9. \A r : r.kind \notin Reads => (r \in y.out <=> r \in w.out)
  BY <1>8
<1>10. ASSUME Lone(w.out, {"settings"}, TRUE) PROVE Lone(y.out, {"settings"}, TRUE)
  <2>1. CASE kind = "settings"
    <3>1. \A r \in w.out : r.kind # "settings"
      BY <2>1 DEF Outstanding
    <3> QED BY <3>1, <1>1, <1>3, <1>7, <2>1 DEF Lone
  <2>2. CASE kind # "settings"
    BY <2>2, <1>8, <1>10 DEF Lone
  <2> QED BY <2>1, <2>2
<1>11. ASSUME kind # "status", NEW r \in y.out, r.kind = "status", r.live PROVE r \in w.out
  BY <1>8, <1>11
<1>12. ASSUME kind = "status", NEW r \in y.out, r.kind = "status", r.live
       PROVE  r.id = id /\ r.at = "out" /\ (w.queued => r.behind)
  <2>1. r = new
    BY <1>12, <1>1, <1>3, <1>7
  <2> QED BY <2>1, <1>6, <1>12
<1> QED
  BY <1>2, <1>3, <1>4, <1>9, <1>10, <1>11, <1>12 DEF Reread

\* What only moves the page follows, and so does a read of list or settings.
LEMMA ShownFollows ==
  ASSUME NEW w, Shaped(w), NEW u, Shaped(u), SameBut(w, u, {"shown", "list", "settings"})
  PROVE  /\ Follows(w, u)
         /\ \A kind \in Reads \ {"status"} : \A on, id :
              (kind = "settings" => Outstanding(u, {"settings"}) = {}) => Follows(w, Read(u, kind, on, id))
<1>1. u.out = w.out /\ u.key = w.key /\ u.status = w.status /\ u.queued = w.queued /\ u.outlived = w.outlived
  BY DEF SameBut, PanelFields
<1>2. Follows(w, u)
  BY <1>1 DEF Follows, SameBut, ReadFields, StatusGoesOn
<1>3. ASSUME NEW kind \in Reads \ {"status"}, NEW on, NEW id,
             kind = "settings" => Outstanding(u, {"settings"}) = {}
      PROVE  Follows(w, Read(u, kind, on, id))
  <2> DEFINE y == Read(u, kind, on, id)
  <2>1. Reread(u, y, kind, id)
    BY <1>3, ReadKeepsRest
  <2> HIDE DEF y
  <2>2. SameBut(w, y, ReadFields)
    BY <2>1 DEF Reread, SameBut, ReadFields
  <2>3. y.key = w.key /\ y.status = w.status
    BY <2>1, <1>1 DEF Reread, SameBut, PanelFields
  <2>4. StatusGoesOn(w, y)
    BY <1>3, <2>1, <2>3, <1>1 DEF Reread, StatusGoesOn
  <2>5. Follows(w, y)
    BY <2>1, <2>2, <2>4, <1>1 DEF Reread, Follows
  <2> QED BY <2>5 DEF y
<1> QED
  BY <1>2, <1>3

\* A read of the link state is one of the flight it is kept for.
LEMMA ReadStatusFollows ==
  ASSUME NEW w, Shaped(w), NEW u, Shaped(u), SameBut(w, u, {"shown", "list", "settings"}), NEW s
  PROVE  Follows(w, ReadStatus(u, s))
<1> DEFINE flight == SayIntentionsFlight(s)
           x == [u EXCEPT !.key = flight, !.status = NoStatus, !.reading = TRUE]
           kind == "status"
           on == "flight"
           y == Read(x, kind, on, flight)
<1>0. kind = "status"
  OBVIOUS
<1>8. kind \in Reads /\ kind # "settings"
  BY DEF Reads
<1> HIDE DEF flight, kind, on
<1>1. Shaped(x) /\ SameBut(u, x, {"key", "status", "reading"}) /\ x.key = flight /\ x.status = NoStatus
  <2>1. DOMAIN x = PanelFields /\ x.key = flight /\ x.status = NoStatus /\ x.out = u.out
    BY DEF Shaped, PanelFields
  <2>2. SameBut(u, x, {"key", "status", "reading"})
    BY <2>1 DEF Shaped, PanelFields, SameBut
  <2>3. DOMAIN NoStatus = StatusFields
    BY DEF NoStatus, StatusFields
  <2> QED BY <2>1, <2>2, <2>3 DEF Shaped
<1> HIDE DEF x
<1>2. x.out = w.out /\ x.queued = w.queued /\ x.outlived = w.outlived
  BY <1>1 DEF SameBut, PanelFields
<1>3. Reread(x, y, kind, flight)
  BY <1>8, <1>1, ReadKeepsRest
<1>4. ReadStatus(u, s) = y
  BY DEF ReadStatus, flight, x, kind, on
<1> HIDE DEF y
<1>5. SameBut(w, y, ReadFields)
  BY <1>1, <1>3 DEF Reread, SameBut, ReadFields
<1>6. y.key = flight /\ y.status = NoStatus
  BY <1>1, <1>3 DEF Reread, SameBut, PanelFields
<1>7. StatusGoesOn(w, y)
  BY <1>0, <1>2, <1>3, <1>6 DEF Reread, StatusGoesOn
<1> QED
  BY <1>2, <1>3, <1>4, <1>5, <1>7 DEF Reread, Follows

LEMMA FollowScopeFollows ==
  ASSUME NEW w, Shaped(w), NEW s
  PROVE  Follows(w, FollowScope(w, s)) /\ Follows(w, ReadStatus(w, s)) /\ Follows(w, w)
<1>1. SameBut(w, w, {"shown", "list", "settings"})
  BY DEF SameBut, Shaped
<1> QED
  BY <1>1, ShownFollows, ReadStatusFollows DEF FollowScope

\* Showing a page does what its onRender does, and no more.
LEMMA VisitFollows ==
  ASSUME NEW w, Shaped(w), NEW p
  PROVE  Follows(w, Visit(w, p))
<1> DEFINE there == [w EXCEPT !.shown = p]
<1>1. Shaped(there) /\ SameBut(w, there, {"shown"})
  <2>1. DOMAIN there = PanelFields /\ there.status = w.status /\ there.out = w.out
    BY DEF Shaped, PanelFields
  <2>2. SameBut(w, there, {"shown"})
    BY <2>1 DEF Shaped, PanelFields, SameBut
  <2> QED BY <2>1, <2>2 DEF Shaped
<1>2. SameBut(w, there, {"shown", "list", "settings"})
  BY <1>1 DEF SameBut
<1>3. Visit(w, p) \in {there, LoadCanned(there), EnsureStatus(there, scope), LoadSettings(there)}
  BY DEF Visit
<1> HIDE DEF there
<1>4. Follows(w, there)
  BY <1>1, <1>2, ShownFollows
<1>5. Follows(w, LoadCanned(there))
  <2> DEFINE u == [there EXCEPT !.list = "loading"]
             kind == "list"
             none == ""
  <2>0. kind \in Reads \ {"status"} /\ kind # "settings"
    BY DEF Reads
  <2>1. DOMAIN u = PanelFields /\ u.status = there.status /\ u.out = there.out
    BY <1>1 DEF Shaped, PanelFields
  <2>2. SameBut(w, u, {"shown", "list", "settings"})
    BY <1>1, <2>1 DEF SameBut, PanelFields
  <2>3. Shaped(u)
    BY <1>1, <2>1 DEF Shaped
  <2>4. LoadCanned(there) = Read(u, kind, none, none)
    BY DEF LoadCanned
  <2> HIDE DEF u, kind, none
  <2>5. Follows(w, Read(u, kind, none, none))
    BY <2>0, <2>2, <2>3, ShownFollows
  <2> QED BY <2>4, <2>5
<1>6. Follows(w, EnsureStatus(there, scope))
  BY <1>1, <1>2, <1>4, ReadStatusFollows DEF EnsureStatus
<1>7. Follows(w, LoadSettings(there))
  <2> DEFINE u == [there EXCEPT !.settings = "loading"]
             kind == "settings"
             none == ""
  <2>0. kind \in Reads \ {"status"} /\ kind = "settings"
    BY DEF Reads
  <2>1. DOMAIN u = PanelFields /\ u.status = there.status /\ u.out = there.out
    BY <1>1 DEF Shaped, PanelFields
  <2>2. SameBut(w, u, {"shown", "list", "settings"})
    BY <1>1, <2>1 DEF SameBut, PanelFields
  <2>3. Shaped(u)
    BY <1>1, <2>1 DEF Shaped
  <2>4. LoadSettings(there) = IF Outstanding(there, {"settings"}) # {} THEN there ELSE Read(u, kind, none, none)
    BY DEF LoadSettings
  <2> HIDE DEF u, none
  <2>5. CASE Outstanding(there, {"settings"}) = {}
    <3>1. Outstanding(u, {"settings"}) = {}
      BY <2>1, <2>5 DEF Outstanding
    <3> HIDE DEF kind
    <3>2. Follows(w, Read(u, kind, none, none))
      BY <2>0, <2>2, <2>3, <3>1, ShownFollows
    <3> QED BY <3>2, <2>4, <2>5
  <2>6. CASE Outstanding(there, {"settings"}) # {}
    BY <2>4, <2>6, <1>4
  <2> QED BY <2>5, <2>6
<1> QED
  BY <1>3, <1>4, <1>5, <1>6, <1>7

LEMMA ConcludeFollows ==
  ASSUME NEW w, Shaped(w), NEW from, NEW p
  PROVE  Follows(w, Conclude(w, from, p)) /\ Follows(w, Repaint(w))
BY VisitFollows, FollowScopeFollows DEF Conclude, Repaint

\* Opening a page, or repainting one, keeps the invariant.
LEMMA FollowsKeeps ==
  ASSUME NEW w, NEW c, PanelInv(w, c), NEW y, Follows(w, y)
  PROVE  PanelInv(y, c)
<1>1. /\ y.form = w.form /\ y.act = w.act /\ y.forming = w.forming /\ y.sending = w.sending
      /\ y.asking = w.asking /\ y.filing = w.filing /\ y.saving = w.saving /\ y.clearing = w.clearing
      /\ y.results = w.results /\ y.texts = w.texts /\ y.cache = w.cache /\ y.queued = w.queued /\ y.outlived = w.outlived
  BY DEF Follows, SameBut, PanelFields, ReadFields
<1>2. \A r : r.kind \notin Reads => (r \in y.out <=> r \in w.out)
  BY DEF Follows
<1>3. Shaped(y) /\ Staged(y) /\ Lists(y) /\ Settled(c)
  BY <1>1 DEF PanelInv, Follows, Staged, Lists
<1>4. Single(y)
  <2>1. /\ Lone(w.out, Forms, w.forming) /\ Lone(w.out, Acts \cup {"pdc"}, w.sending)
        /\ Lone(w.out, {"clearance"}, w.asking) /\ Lone(w.out, {"prefile"}, w.filing)
        /\ Lone(w.out, {"settings"}, TRUE) /\ Lone(w.out, {"save", "config"}, w.saving)
        /\ LoneByPage(w.out, w.clearing)
    BY DEF PanelInv, Single
  <2>2. ASSUME NEW kinds, NEW busy, kinds \cap Reads = {}, Lone(w.out, kinds, busy)
        PROVE  Lone(y.out, kinds, busy)
    BY <1>2, <2>2 DEF Lone
  <2>3. Lone(y.out, Forms, y.forming) /\ Lone(y.out, Acts \cup {"pdc"}, y.sending)
    <3>1. Forms \cap Reads = {} /\ (Acts \cup {"pdc"}) \cap Reads = {}
      BY DEF Forms, Acts, Reads
    <3> QED BY <1>1, <2>1, <2>2, <3>1
  <2>4. Lone(y.out, {"clearance"}, y.asking) /\ Lone(y.out, {"prefile"}, y.filing)
        /\ Lone(y.out, {"save", "config"}, y.saving)
    <3>1. {"clearance"} \cap Reads = {} /\ {"prefile"} \cap Reads = {} /\ {"save", "config"} \cap Reads = {}
      BY DEF Reads
    <3> QED BY <1>1, <2>1, <2>2, <3>1
  <2>5. LoneByPage(y.out, y.clearing)
    BY <1>1, <1>2, <2>1 DEF LoneByPage, Reads
  <2>6. Lone(y.out, {"settings"}, TRUE)
    BY <2>1 DEF Follows
  <2>7. Listed(y.out)
    BY <1>2 DEF PanelInv, Single, Listed, Kinds
  <2> QED BY <2>3, <2>4, <2>5, <2>6, <2>7 DEF Single
<1>5. ASSUME Agreed(w, c) PROVE Agreed(y, c)
  <2>1. StatusGoesOn(w, y)
    BY DEF Follows
  <2>2. KeptAgree(y, c)
    <3>1. \A kept \in {y.results, y.texts} : \A i \in DOMAIN kept : kept[i].cfg \in Of(y, c)
      BY <1>1, <1>5 DEF Agreed, KeptAgree, Of, Rightful
    <3>2. y.status # NoStatus => y.status.cfg \in Of(y, c) /\ y.status.id = y.key
      BY <1>1, <1>5, <2>1 DEF Agreed, KeptAgree, StatusGoesOn, Of, Rightful
    <3> QED BY <3>1, <3>2 DEF KeptAgree
  <2>3. w.queued \/ Rightful(w, c)
    BY <1>5 DEF Agreed
  <2>4. RequestsAgree(y, c)
    <3> SUFFICES ASSUME NEW r \in y.out
                 PROVE  /\ r.kind \in Keeps /\ r.live =>
                             /\ r.at = "answered" /\ r.good => r.cfg \in Of(y, c)
                             /\ r.at = "out" /\ ~r.behind => Rightful(y, c)
                             /\ r.kind = "status" => r.id = y.key
                        /\ r.kind = "config" /\ r.at = "answered" => r.cfg = c.file
      BY DEF RequestsAgree
    <3>1. CASE r \notin w.out \/ r.kind \in Reads
      <4>1. r.kind \in Reads
        BY <1>2, <3>1
      <4>2. CASE r.kind = "status" /\ r.live
        BY <1>1, <2>1, <2>3, <4>2, <1>5 DEF StatusGoesOn, Agreed, RequestsAgree, Of, Rightful
      <4>3. CASE ~(r.kind = "status" /\ r.live)
        BY <4>1, <4>3 DEF Reads, Keeps
      <4> QED BY <4>2, <4>3
    <3>2. CASE r \in w.out /\ r.kind \notin Reads
      BY <1>1, <1>5, <3>2 DEF Agreed, RequestsAgree, Reads, Of, Rightful
    <3> QED BY <3>1, <3>2
  <2>5. CacheAgrees(y, c)
    <3>1. CASE w.cache \in {"", c.file.url}
      BY <1>1, <3>1, Zenon DEF CacheAgrees
    <3>2. CASE \E r \in w.out : r.kind = "config" \/ GoodSave(r)
      <4>1. PICK r \in w.out : r.kind = "config" \/ GoodSave(r)
        BY <3>2
      <4>2. r.kind \notin Reads
        BY <4>1 DEF GoodSave, Reads
      <4>3. r \in y.out
        BY <1>2, <4>2
      <4> QED BY <4>1, <4>3, Zenon DEF CacheAgrees
    <3> QED BY <1>5, <3>1, <3>2, Zenon DEF Agreed, CacheAgrees
  <2> QED BY <1>1, <1>5, <2>2, <2>4, <2>5 DEF Agreed, Of, Rightful
<1>6. ASSUME Forgetting(w) PROVE Forgetting(y)
  <2>1. PICK r \in w.out : GoodSave(r) /\ Changes(w, r)
    BY <1>6, Zenon DEF Forgetting
  <2>2. r.kind \notin Reads
    BY <2>1 DEF GoodSave, Reads
  <2>3. r \in y.out
    BY <1>2, <2>2
  <2>4. Changes(y, r)
    BY <1>1, <2>1, Zenon DEF Changes
  <2> QED BY <2>1, <2>3, <2>4, Zenon DEF Forgetting
<1> QED
  BY <1>1, <1>3, <1>4, <1>5, <1>6 DEF PanelInv, Current, InForce, Of, Rightful

\* So does a change of what the invariant does not speak of.
IdleFields == {"shown", "list", "leg", "askedLeg", "shownLeg", "reading", "sendingAction",
               "sendingLeg", "pdc", "settings", "filed", "url", "token", "sheets"}
LEMMA IdleKeeps ==
  ASSUME NEW w, NEW c, PanelInv(w, c),
         NEW y, SameBut(w, y, IdleFields \cup {"form", "act"}), Staged(y)
  PROVE  PanelInv(y, c)
<1>1. /\ DOMAIN y = PanelFields /\ y.out = w.out
      /\ y.forming = w.forming /\ y.sending = w.sending /\ y.asking = w.asking /\ y.filing = w.filing
      /\ y.saving = w.saving /\ y.clearing = w.clearing
  BY DEF SameBut, PanelFields, IdleFields
<1>2. /\ y.results = w.results /\ y.texts = w.texts /\ y.cache = w.cache /\ y.queued = w.queued /\ y.outlived = w.outlived
      /\ y.key = w.key /\ y.status = w.status
  BY DEF SameBut, PanelFields, IdleFields
<1>3. Shaped(y) /\ Settled(c) /\ Lists(y)
  BY <1>1, <1>2 DEF PanelInv, Shaped, Lists
<1>4. Single(y)
  BY <1>1 DEF PanelInv, Single
<1>5. Current(w, c) => Current(y, c)
  <2>1. KeptAgree(w, c) => KeptAgree(y, c)
    BY <1>2 DEF KeptAgree, Of, Rightful
  <2>2. RequestsAgree(w, c) => RequestsAgree(y, c)
    BY <1>1, <1>2 DEF RequestsAgree, Of, Rightful
  <2>3. CacheAgrees(w, c) => CacheAgrees(y, c)
    BY <1>1, <1>2, Zenon DEF CacheAgrees
  <2>4. Forgetting(w) => Forgetting(y)
    BY <1>1, <1>2, Zenon DEF Forgetting, Changes
  <2> QED BY <1>2, <2>1, <2>2, <2>3, <2>4, Zenon DEF Current, Agreed, Of, Rightful, InForce
<1> QED
  BY <1>3, <1>4, <1>5 DEF PanelInv

-----------------------------------------------------------------------------
(* Requests that are sent, that are served and that are answered.           *)

LEMMA LoneAdds ==
  ASSUME NEW out, NEW kinds, NEW busy, NEW then, NEW new, Lone(out, kinds, busy),
         (new.kind \in kinds /\ ~busy /\ then) \/ (new.kind \notin kinds /\ then = busy)
  PROVE  Lone(out \cup {new}, kinds, then)
BY DEF Lone

LEMMA LoneDrops ==
  ASSUME NEW out, NEW kinds, NEW busy, NEW then, NEW r \in out, Lone(out, kinds, busy),
         r.kind \in kinds \/ then = busy
  PROVE  Lone(out \ {r}, kinds, then)
BY DEF Lone

\* What is served or superseded stays the request it was.
LEMMA LoneMaps ==
  ASSUME NEW out, NEW g, \A q \in out : g[q].kind = q.kind /\ g[q].on = q.on,
         NEW served, served = {g[q] : q \in out}
  PROVE  /\ \A kinds, busy : Lone(out, kinds, busy) => Lone(served, kinds, busy)
         /\ \A pages : LoneByPage(out, pages) => LoneByPage(served, pages)
<1>1. ASSUME NEW kinds, NEW busy, Lone(out, kinds, busy) PROVE Lone(served, kinds, busy)
  BY <1>1 DEF Lone
<1>2. ASSUME NEW pages, LoneByPage(out, pages) PROVE LoneByPage(served, pages)
  BY <1>2 DEF LoneByPage
<1> QED BY <1>1, <1>2

\* A flag that goes up when its family's request leaves, and only then.
Rises(kinds, before, after, new) ==
  (new.kind \in kinds /\ ~before /\ after) \/ (new.kind \notin kinds /\ after = before)
Raises(w, u, new) ==
  /\ new.kind \in Kinds
  /\ Rises(Forms, w.forming, u.forming, new)
  /\ Rises(Acts \cup {"pdc"}, w.sending, u.sending, new)
  /\ Rises({"clearance"}, w.asking, u.asking, new)
  /\ Rises({"prefile"}, w.filing, u.filing, new)
  /\ Rises({"save", "config"}, w.saving, u.saving, new)
  /\ new.kind # "settings"
  /\ \/ new.kind = "clear" /\ new.on \notin w.clearing /\ u.clearing = w.clearing \cup {new.on}
     \/ new.kind # "clear" /\ u.clearing = w.clearing
LEMMA SingleAdds ==
  ASSUME NEW w, Single(w), NEW u, NEW new, Raises(w, u, new), u.out = w.out \cup {new}
  PROVE  Single(u)
<1>1. \A kinds, before, after :
        Lone(w.out, kinds, before) /\ Rises(kinds, before, after, new) => Lone(u.out, kinds, after)
  <2> SUFFICES ASSUME NEW kinds, NEW before, NEW after,
                      Lone(w.out, kinds, before), Rises(kinds, before, after, new)
               PROVE  Lone(w.out \cup {new}, kinds, after)
    OBVIOUS
  <2>1. (new.kind \in kinds /\ ~before /\ after) \/ (new.kind \notin kinds /\ after = before)
    BY Zenon DEF Rises
  <2> QED BY <2>1, LoneAdds, Zenon
<1>2. Lone(u.out, Forms, u.forming) /\ Lone(u.out, Acts \cup {"pdc"}, u.sending)
  BY <1>1 DEF Single, Raises
<1>3. Lone(u.out, {"clearance"}, u.asking) /\ Lone(u.out, {"prefile"}, u.filing)
      /\ Lone(u.out, {"save", "config"}, u.saving)
  BY <1>1 DEF Single, Raises
<1>4. Lone(u.out, {"settings"}, TRUE)
  BY DEF Single, Raises, Lone
<1>5. LoneByPage(u.out, u.clearing)
  BY DEF Single, Raises, LoneByPage
<1>6. Listed(u.out)
  BY DEF Single, Raises, Listed
<1> QED BY <1>2, <1>3, <1>4, <1>5, <1>6 DEF Single

\* A flag that goes down when its family's answer is handled, and only then.
Falls(kinds, before, after, r) == r.kind \in kinds \/ after = before
Lowers(w, u, r) ==
  /\ Falls(Forms, w.forming, u.forming, r)
  /\ Falls(Acts \cup {"pdc"}, w.sending, u.sending, r)
  /\ Falls({"clearance"}, w.asking, u.asking, r)
  /\ Falls({"prefile"}, w.filing, u.filing, r)
  /\ Falls({"save", "config"}, w.saving, u.saving, r)
  /\ \/ r.kind = "clear" /\ u.clearing = w.clearing \ {r.on}
     \/ u.clearing = w.clearing
LEMMA SingleDrops ==
  ASSUME NEW w, Single(w), NEW u, NEW r \in w.out, Lowers(w, u, r), u.out = w.out \ {r}
  PROVE  Single(u)
<1>1. \A kinds, before, after :
        Lone(w.out, kinds, before) /\ Falls(kinds, before, after, r) => Lone(u.out, kinds, after)
  BY LoneDrops DEF Falls
<1>2. Lone(u.out, Forms, u.forming) /\ Lone(u.out, Acts \cup {"pdc"}, u.sending)
  BY <1>1 DEF Single, Lowers
<1>3. Lone(u.out, {"clearance"}, u.asking) /\ Lone(u.out, {"prefile"}, u.filing)
      /\ Lone(u.out, {"save", "config"}, u.saving)
  BY <1>1 DEF Single, Lowers
<1>4. Lone(u.out, {"settings"}, TRUE)
  BY DEF Single, Lone
<1>5. LoneByPage(u.out, u.clearing)
  BY DEF Single, Lowers, LoneByPage
<1>6. Listed(u.out)
  BY DEF Single, Listed
<1> QED BY <1>2, <1>3, <1>4, <1>5, <1>6 DEF Single

\* A request that leaves, and is no read of the link state, is behind every
\* reload that is queued.
LEMMA CurrentAdds ==
  ASSUME NEW w, NEW c, Current(w, c), NEW action, action.kind # "status", NEW n, NEW u,
         u.out = w.out \cup {NewRequest(w, action, n)},
         u.results = w.results, u.texts = w.texts, u.cache = w.cache, u.queued = w.queued /\ u.outlived = w.outlived,
         u.key = w.key, u.status = w.status
  PROVE  Current(u, c)
<1> DEFINE new == NewRequest(w, action, n)
<1>1. new.kind = action.kind /\ new.at = "out"
  BY DEF NewRequest
<1>2. new.behind = (action.kind # "config" /\ w.queued)
  BY DEF NewRequest
<1> HIDE DEF new
<1>3. ASSUME Agreed(w, c) PROVE Agreed(u, c)
  <2>1. KeptAgree(u, c)
    BY <1>3 DEF Agreed, KeptAgree, Of, Rightful
  <2>2. new.kind \in Keeps /\ ~new.behind => Rightful(w, c)
    BY <1>1, <1>2, <1>3 DEF Keeps, Agreed
  <2>3. RequestsAgree(u, c)
    BY <1>1, <1>3, <2>2 DEF RequestsAgree, Agreed, new, Of, Rightful
  <2>4. CacheAgrees(u, c)
    BY <1>3, Zenon DEF CacheAgrees, Agreed
  <2> QED BY <1>3, <2>1, <2>3, <2>4 DEF Agreed, Of, Rightful
<1>4. ASSUME Forgetting(w) PROVE Forgetting(u)
  BY <1>4, Zenon DEF Forgetting, Changes
<1> QED BY <1>3, <1>4 DEF Current, InForce, Of, Rightful

\* A press that sends raises the flag of its family and keeps the invariant.
FlagFields == {"forming", "sending", "asking", "filing", "saving", "clearing"}
LEMMA SendKeeps ==
  ASSUME NEW w, NEW c, PanelInv(w, c), NEW u, SameBut(w, u, IdleFields \cup FlagFields),
         NEW action, action.kind # "status", Raises(w, u, action), NEW n
  PROVE  PanelInv(Request(u, action, n), c)
<1> DEFINE y == Request(u, action, n)
           new == NewRequest(u, action, n)
<1>1. /\ DOMAIN u = PanelFields /\ u.out = w.out /\ u.form = w.form /\ u.act = w.act
      /\ u.results = w.results /\ u.texts = w.texts /\ u.cache = w.cache /\ u.queued = w.queued /\ u.outlived = w.outlived
      /\ u.key = w.key /\ u.status = w.status
  BY DEF SameBut, PanelFields, IdleFields, FlagFields
<1>2. Shaped(u)
  BY <1>1 DEF PanelInv, Shaped
<1>3. Shaped(y) /\ SameBut(u, y, {"out"}) /\ y.out = u.out \cup {new}
  BY <1>2, RequestAdds
<1>4. new.kind = action.kind /\ new.on = action.on
  BY DEF NewRequest
<1>5. new = NewRequest(w, action, n)
  BY <1>1 DEF NewRequest
<1> HIDE DEF y, new
<1>6. /\ y.form = w.form /\ y.act = w.act
      /\ y.results = w.results /\ y.texts = w.texts /\ y.cache = w.cache /\ y.queued = w.queued /\ y.outlived = w.outlived
      /\ y.key = w.key /\ y.status = w.status /\ y.out = w.out \cup {new}
  BY <1>1, <1>3 DEF SameBut, PanelFields
<1>7. /\ y.forming = u.forming /\ y.sending = u.sending /\ y.asking = u.asking
      /\ y.filing = u.filing /\ y.saving = u.saving /\ y.clearing = u.clearing
  BY <1>3 DEF SameBut, PanelFields
<1>8. Raises(w, y, new)
  BY <1>4, <1>7, Zenon DEF Raises, Rises
<1>9. Single(y)
  BY <1>6, <1>8, SingleAdds DEF PanelInv
<1>10. Current(w, c) => Current(y, c)
  <2> SUFFICES ASSUME Current(w, c) PROVE Current(y, c)
    OBVIOUS
  <2>1. y.out = w.out \cup {NewRequest(w, action, n)}
    BY <1>5, <1>6
  <2> QED BY <1>6, <2>1, CurrentAdds
<1>11. Staged(y) /\ Lists(y)
  BY <1>6 DEF PanelInv, Staged, Lists
<1>12. PanelInv(y, c)
  BY <1>3, <1>9, <1>10, <1>11 DEF PanelInv
<1> QED BY <1>12 DEF y

-----------------------------------------------------------------------------
(* What is sent, and only what is shown: a write that leaves is new.        *)

Aimed(r) ==
  /\ On(ConfirmPage(r.kind)) /\ Shows(r.kind) = [kind |-> r.kind, on |-> r.on, id |-> r.id]
  /\ r.id \in Named(r.kind)
Sends(w, y) ==
  \A r \in y.out : r.kind \in Writes \ {"clear"} /\ (\A q \in w.out : q.n # r.n) => Aimed(r)

LEMMA FollowsSendsNothing ==
  ASSUME NEW w, NEW u, u.out \subseteq w.out, NEW y, Follows(u, y)
  PROVE  Sends(w, y)
<1>1. ASSUME NEW r \in y.out, r.kind \in Writes PROVE r \in w.out
  <2>1. r.kind \notin Reads
    BY <1>1 DEF Writes, Forms, Acts, Reads
  <2> QED BY <1>1, <2>1 DEF Follows
<1> QED BY <1>1 DEF Sends
LEMMA OneSent ==
  ASSUME NEW w, Shaped(w), NEW u, Shaped(u), u.out = w.out, NEW action, NEW n,
         action.kind \in Writes \ {"clear"} => Aimed(action)
  PROVE  Sends(w, Request(u, action, n))
<1> DEFINE new == NewRequest(u, action, n)
<1>1. Request(u, action, n).out = u.out \cup {new}
  BY RequestAdds
<1>2. new.kind = action.kind /\ new.on = action.on /\ new.id = action.id
  BY DEF NewRequest
<1> HIDE DEF new
<1>3. ASSUME new.kind \in Writes \ {"clear"} PROVE Aimed(new)
  BY <1>2, <1>3 DEF Aimed
<1> QED BY <1>1, <1>3 DEF Sends

-----------------------------------------------------------------------------
(* The presses.                                                             *)

Safe(w, y, c) == PanelInv(y, c) /\ Sends(w, y)
LEMMA MoveKeeps ==
  ASSUME NEW w, NEW c, PanelInv(w, c),
         NEW u, SameBut(w, u, IdleFields \cup {"form", "act"}), Staged(u)
  PROVE  Safe(w, u, c) /\ \A p : Safe(w, Visit(u, p), c)
<1>1. PanelInv(u, c)
  BY IdleKeeps
<1>2. Shaped(u)
  BY <1>1 DEF PanelInv
<1>3. u.out = w.out
  BY DEF SameBut, PanelFields, IdleFields
<1>4. Follows(u, u)
  BY <1>2, FollowScopeFollows
<1>5. Sends(w, u)
  BY <1>3, <1>4, FollowsSendsNothing
<1>6. ASSUME NEW p PROVE Safe(w, Visit(u, p), c)
  <2>1. Follows(u, Visit(u, p))
    BY <1>2, VisitFollows
  <2>2. PanelInv(Visit(u, p), c)
    BY <1>1, <2>1, FollowsKeeps
  <2>3. Sends(w, Visit(u, p))
    BY <1>3, <2>1, FollowsSendsNothing
  <2> QED BY <2>2, <2>3 DEF Safe
<1> QED BY <1>1, <1>5, <1>6 DEF Safe

\* A page that only opens, and a field of its own that the press changes.
LEMMA EditKeeps ==
  ASSUME NEW w, NEW c, PanelInv(w, c), NEW x
  PROVE  /\ \A p : Safe(w, Visit(w, p), c)
         /\ \A p : Safe(w, Visit([w EXCEPT !.leg = x], p), c)
         /\ \A p : Safe(w, Visit([w EXCEPT !.shownLeg = x], p), c)
         /\ \A p : Safe(w, Visit([w EXCEPT !.pdc = x], p), c)
         /\ Safe(w, [w EXCEPT !.url = x], c) /\ Safe(w, [w EXCEPT !.token = x], c)
         /\ Action(x, Forms) => \A p : Safe(w, Visit([w EXCEPT !.form = x], p), c)
         /\ Action(x, Acts) => \A p : Safe(w, Visit([w EXCEPT !.act = x], p), c)
<1>1. DOMAIN w = PanelFields /\ Staged(w)
  BY DEF PanelInv, Shaped
<1>2. \A p : Safe(w, Visit(w, p), c)
  <2>1. SameBut(w, w, IdleFields \cup {"form", "act"})
    BY <1>1 DEF SameBut
  <2> QED BY <1>1, <2>1, MoveKeeps
<1>3. \A p : Safe(w, Visit([w EXCEPT !.leg = x], p), c)
  <2> DEFINE u == [w EXCEPT !.leg = x]
  <2>1. SameBut(w, u, IdleFields \cup {"form", "act"}) /\ u.form = w.form /\ u.act = w.act
    BY <1>1 DEF SameBut, IdleFields, PanelFields
  <2> HIDE DEF u
  <2>2. Staged(u)
    BY <1>1, <2>1 DEF Staged
  <2>3. \A p : Safe(w, Visit(u, p), c)
    BY <2>1, <2>2, MoveKeeps
  <2> QED BY <2>3 DEF u
<1>4. \A p : Safe(w, Visit([w EXCEPT !.shownLeg = x], p), c)
  <2> DEFINE u == [w EXCEPT !.shownLeg = x]
  <2>1. SameBut(w, u, IdleFields \cup {"form", "act"}) /\ u.form = w.form /\ u.act = w.act
    BY <1>1 DEF SameBut, IdleFields, PanelFields
  <2> HIDE DEF u
  <2>2. Staged(u)
    BY <1>1, <2>1 DEF Staged
  <2>3. \A p : Safe(w, Visit(u, p), c)
    BY <2>1, <2>2, MoveKeeps
  <2> QED BY <2>3 DEF u
<1>5. \A p : Safe(w, Visit([w EXCEPT !.pdc = x], p), c)
  <2> DEFINE u == [w EXCEPT !.pdc = x]
  <2>1. SameBut(w, u, IdleFields \cup {"form", "act"}) /\ u.form = w.form /\ u.act = w.act
    BY <1>1 DEF SameBut, IdleFields, PanelFields
  <2> HIDE DEF u
  <2>2. Staged(u)
    BY <1>1, <2>1 DEF Staged
  <2>3. \A p : Safe(w, Visit(u, p), c)
    BY <2>1, <2>2, MoveKeeps
  <2> QED BY <2>3 DEF u
<1>6. Safe(w, [w EXCEPT !.url = x], c) /\ Safe(w, [w EXCEPT !.token = x], c)
  <2> DEFINE u == [w EXCEPT !.url = x]
             q == [w EXCEPT !.token = x]
  <2>1. SameBut(w, u, IdleFields \cup {"form", "act"}) /\ u.form = w.form /\ u.act = w.act
    BY <1>1 DEF SameBut, IdleFields, PanelFields
  <2>2. SameBut(w, q, IdleFields \cup {"form", "act"}) /\ q.form = w.form /\ q.act = w.act
    BY <1>1 DEF SameBut, IdleFields, PanelFields
  <2> HIDE DEF u, q
  <2>3. Staged(u) /\ Staged(q)
    BY <1>1, <2>1, <2>2 DEF Staged
  <2>4. Safe(w, u, c) /\ Safe(w, q, c)
    BY <2>1, <2>2, <2>3, MoveKeeps
  <2> QED BY <2>4 DEF u, q
<1>7. ASSUME Action(x, Forms) PROVE \A p : Safe(w, Visit([w EXCEPT !.form = x], p), c)
  <2> DEFINE u == [w EXCEPT !.form = x]
  <2>1. SameBut(w, u, IdleFields \cup {"form", "act"}) /\ u.form = x /\ u.act = w.act
    BY <1>1 DEF SameBut, IdleFields, PanelFields
  <2> HIDE DEF u
  <2>2. Staged(u)
    BY <1>1, <1>7, <2>1 DEF Staged
  <2>3. \A p : Safe(w, Visit(u, p), c)
    BY <2>1, <2>2, MoveKeeps
  <2> QED BY <2>3 DEF u
<1>8. ASSUME Action(x, Acts) PROVE \A p : Safe(w, Visit([w EXCEPT !.act = x], p), c)
  <2> DEFINE u == [w EXCEPT !.act = x]
  <2>1. SameBut(w, u, IdleFields \cup {"form", "act"}) /\ u.form = w.form /\ u.act = x
    BY <1>1 DEF SameBut, IdleFields, PanelFields
  <2> HIDE DEF u
  <2>2. Staged(u)
    BY <1>1, <1>8, <2>1 DEF Staged
  <2>3. \A p : Safe(w, Visit(u, p), c)
    BY <2>1, <2>2, MoveKeeps
  <2> QED BY <2>3 DEF u
<1> QED BY <1>2, <1>3, <1>4, <1>5, <1>6, <1>7, <1>8

LEMMA PagesKeep ==
  ASSUME PanelInv(panel, conf),
         \/ FollowLink \/ MenuKey \/ FormSteps \/ CancelForm \/ CancelClearance \/ CancelStaged
         \/ CancelPdc \/ CancelPrefile \/ OpenSteps
         \/ (\E u \in spare.urls : EnterUrl(u)) \/ EnterToken
  PROVE  (Safe(panel, panel', conf) /\ conf' = conf) \/ \E p \in {"FPLN", "DL-INDEX"} : ClearPrefile(p)
<1> USE DEF Do
<1>1. \A x, p : /\ Safe(panel, Visit(panel, p), conf) /\ Safe(panel, Visit([panel EXCEPT !.leg = x], p), conf)
                /\ Safe(panel, Visit([panel EXCEPT !.shownLeg = x], p), conf)
                /\ Safe(panel, Visit([panel EXCEPT !.pdc = x], p), conf)
  BY EditKeeps
<1>2. \A x : Safe(panel, [panel EXCEPT !.url = x], conf) /\ Safe(panel, [panel EXCEPT !.token = x], conf)
  BY EditKeeps
<1>3. \A x, p : /\ Action(x, Forms) => Safe(panel, Visit([panel EXCEPT !.form = x], p), conf)
                /\ Action(x, Acts) => Safe(panel, Visit([panel EXCEPT !.act = x], p), conf)
  BY EditKeeps
<1>4. Action(NoAction, Forms) /\ Action(NoAction, Acts)
  BY DEF Action
<1>5. CASE FollowLink \/ MenuKey
  BY <1>1, <1>5, Zenon DEF FollowLink, MenuKey
<1>6. ASSUME NEW kind \in Forms, OpenForm(kind) PROVE Safe(panel, panel', conf) /\ conf' = conf
  BY <1>1, <1>6, Zenon DEF OpenForm
<1>7. ASSUME NEW kind \in Forms, SelectForm(kind) PROVE Safe(panel, panel', conf) /\ conf' = conf
  <2> DEFINE target == IF kind = "loadsheet" THEN [on |-> "leg", id |-> LoadsheetLeg(scope)] ELSE WriteTarget(scope)
             form == [kind |-> kind, on |-> target.on, id |-> target.id]
             confirm == "DL-CONFIRM"
  <2>1. panel' = Visit([panel EXCEPT !.form = form], confirm) /\ conf' = conf
    BY <1>7, Zenon DEF SelectForm
  <2>2. Action(form, Forms)
    <3> HIDE DEF target
    <3> QED BY DEF Action
  <2> HIDE DEF form, confirm
  <2>3. Safe(panel, Visit([panel EXCEPT !.form = form], confirm), conf)
    BY <1>3, <2>2, Zenon
  <2> QED BY <2>1, <2>3, Zenon
<1>8. CASE CancelForm
  BY <1>3, <1>4, <1>8, Zenon DEF CancelForm
<1>9. CASE CancelClearance
  BY <1>1, <1>9, Zenon DEF CancelClearance
<1>10. CASE CancelStaged
  BY <1>3, <1>4, <1>10, Zenon DEF CancelStaged
<1>11. CASE CancelPdc
  BY <1>1, <1>11, Zenon DEF CancelPdc
<1>12. CASE CancelPrefile
  BY <1>1, <1>12, Zenon DEF CancelPrefile
<1>13. CASE OpenClearance
  BY <1>1, <1>13, Zenon DEF OpenClearance
<1>14. CASE Refresh
  <2>1. panel' = ReadStatus(panel, scope) /\ conf' = conf
    BY <1>14, Zenon DEF Refresh
  <2>2. Follows(panel, ReadStatus(panel, scope))
    BY FollowScopeFollows DEF PanelInv
  <2>3. PanelInv(ReadStatus(panel, scope), conf) /\ Sends(panel, ReadStatus(panel, scope))
    BY <2>2, FollowsKeeps, FollowsSendsNothing
  <2> QED BY <2>1, <2>3, Zenon DEF Safe
<1>15. ASSUME NEW kind \in Acts, Stage(kind) PROVE Safe(panel, panel', conf) /\ conf' = conf
  <2> DEFINE act == [kind |-> kind, on |-> "flight", id |-> SayIntentionsFlight(scope)]
  <2>1. /\ conf' = conf
        /\ \/ panel' = Visit(panel, "DL-SI-CONFIRM")
           \/ panel' = Visit([panel EXCEPT !.act = act], "DL-SI-CONFIRM")
    BY <1>15, Zenon DEF Stage
  <2>2. Action(act, Acts)
    BY DEF Action
  <2> HIDE DEF act
  <2> QED BY <1>1, <1>3, <2>1, <2>2, Zenon
<1>16. CASE StagePdc
  BY <1>1, <1>16, Zenon DEF StagePdc
<1>17. CASE OpenPrefile \/ ResultToDatalink
  BY <1>1, <1>17, Zenon DEF OpenPrefile, ResultToDatalink
<1>18. ASSUME NEW u \in spare.urls, EnterUrl(u) PROVE Safe(panel, panel', conf) /\ conf' = conf
  BY <1>2, <1>18, Zenon DEF EnterUrl
<1>19. CASE EnterToken
  BY <1>2, <1>19, Zenon DEF EnterToken
<1> QED
  BY <1>5, <1>6, <1>7, <1>8, <1>9, <1>10, <1>11, <1>12, <1>13, <1>14, <1>15, <1>16, <1>17, <1>18, <1>19
     DEF FormSteps, OpenSteps

\* The confirm page of a kind, and what it shows.
LEMMA KindsHaveTheirPages ==
  ASSUME NEW kind
  PROVE  /\ kind \in Forms => /\ ConfirmPage(kind) = "DL-CONFIRM" /\ Shows(kind) = panel.form
                              /\ Named(kind) = {Shows(kind).id}
         /\ kind = "clearance" =>
              /\ ConfirmPage(kind) = "DL-CLEARANCE-CONFIRM" /\ Named(kind) = {ClearanceLeg(scope)}
              /\ ~panel.asking => Shows(kind) = [kind |-> kind, on |-> "leg", id |-> panel.leg]
         /\ kind \in Acts =>
              /\ ConfirmPage(kind) = "DL-SI-CONFIRM" /\ Named(kind) = {SayIntentionsFlight(scope)}
              /\ ~panel.sending => Shows(kind) = panel.act
         /\ kind = "pdc" =>
              /\ ConfirmPage(kind) = "DL-SI-PDC" /\ Named(kind) = {ClearanceLeg(scope)}
              /\ ~panel.sending => Shows(kind) = [kind |-> kind, on |-> "leg", id |-> panel.pdc]
         /\ kind = "prefile" =>
              /\ ConfirmPage(kind) = "FPLN-CONFIRM" /\ Named(kind) = {Shows(kind).id}
              /\ Shows(kind) = [kind |-> kind, on |-> "", id |-> ""]
<1>1. CASE kind \in Forms
  <2>0. kind \notin Acts /\ kind # "clearance" /\ kind # "pdc" /\ kind # "prefile"
    BY <1>1 DEF Forms, Acts
  <2>1. ConfirmPage(kind) = "DL-CONFIRM"
    BY <1>1 DEF ConfirmPage, Forms, Acts
  <2>2. Shows(kind) = panel.form
    BY <1>1, <2>0, Zenon DEF Shows
  <2>3. Named(kind) = {Shows(kind).id}
    BY <1>1 DEF Named, Forms, Acts
  <2> QED BY <1>1, <2>0, <2>1, <2>2, <2>3, Zenon
<1>2. CASE kind = "clearance"
  <2>1. ConfirmPage(kind) = "DL-CLEARANCE-CONFIRM"
    BY <1>2 DEF ConfirmPage, Forms, Acts
  <2>2. ~panel.asking => Shows(kind) = [kind |-> kind, on |-> "leg", id |-> panel.leg]
    BY <1>2 DEF Shows, Forms, Acts
  <2>3. Named(kind) = {ClearanceLeg(scope)}
    BY <1>2 DEF Named, Forms, Acts
  <2> QED BY <1>2, <2>1, <2>2, <2>3 DEF Forms, Acts
<1>3. CASE kind \in Acts
  <2>0. kind \notin Forms /\ kind # "clearance" /\ kind # "pdc" /\ kind # "prefile"
    BY <1>3 DEF Forms, Acts
  <2>1. ConfirmPage(kind) = "DL-SI-CONFIRM"
    BY <1>3 DEF ConfirmPage, Forms, Acts
  <2>2. ~panel.sending => Shows(kind) = panel.act
    BY <1>3, <2>0, Zenon DEF Shows
  <2>3. Named(kind) = {SayIntentionsFlight(scope)}
    BY <1>3 DEF Named, Forms, Acts
  <2> QED BY <1>3, <2>0, <2>1, <2>2, <2>3, Zenon
<1>4. CASE kind = "pdc"
  <2>1. ConfirmPage(kind) = "DL-SI-PDC"
    BY <1>4 DEF ConfirmPage, Forms, Acts
  <2>2. ~panel.sending => Shows(kind) = [kind |-> kind, on |-> "leg", id |-> panel.pdc]
    BY <1>4 DEF Shows, Forms, Acts
  <2>3. Named(kind) = {ClearanceLeg(scope)}
    BY <1>4 DEF Named, Forms, Acts
  <2> QED BY <1>4, <2>1, <2>2, <2>3 DEF Forms, Acts
<1>5. CASE kind = "prefile"
  <2>0. kind \notin Forms /\ kind \notin Acts /\ kind # "clearance" /\ kind # "pdc"
    BY <1>5 DEF Forms, Acts
  <2>1. ConfirmPage(kind) = "FPLN-CONFIRM"
    BY <1>5 DEF ConfirmPage, Forms, Acts
  <2>2. Shows(kind) = [kind |-> kind, on |-> "", id |-> ""]
    BY <1>5 DEF Shows, Forms, Acts
  <2>3. Named(kind) = {Shows(kind).id}
    BY <1>5 DEF Named, Forms, Acts
  <2> QED BY <1>5, <2>0, <2>1, <2>2, <2>3, Zenon
<1> QED BY <1>1, <1>2, <1>3, <1>4, <1>5, Zenon

LEMMA SendSafe ==
  ASSUME NEW w, NEW c, PanelInv(w, c), NEW u, SameBut(w, u, IdleFields \cup FlagFields),
         NEW action, action.kind # "status", Raises(w, u, action), NEW n,
         action.kind \in Writes \ {"clear"} => Aimed(action)
  PROVE  Safe(w, Request(u, action, n), c)
<1>1. PanelInv(Request(u, action, n), c)
  BY SendKeeps
<1>2. u.out = w.out /\ u.status = w.status /\ DOMAIN u = PanelFields
  BY DEF SameBut, PanelFields, IdleFields, FlagFields
<1>3. Shaped(w) /\ Shaped(u)
  BY <1>2 DEF PanelInv, Shaped
<1>4. Sends(w, Request(u, action, n))
  BY <1>2, <1>3, OneSent
<1> QED BY <1>1, <1>4 DEF Safe

LEMMA SendPendingKeeps ==
  ASSUME PanelInv(panel, conf), SendPending
  PROVE  Safe(panel, panel', conf) /\ conf' = conf
<1> DEFINE u == [panel EXCEPT !.forming = TRUE]
           action == panel.form
<1>1. panel' = Request(u, action, spare.sends) /\ conf' = conf
  BY Zenon DEF SendPending, Send, Do
<1>2. On("DL-CONFIRM") /\ action # NoAction /\ ~panel.forming
  BY DEF SendPending
<1>3. action.kind \in Forms /\ action = [kind |-> action.kind, on |-> action.on, id |-> action.id]
  BY <1>2 DEF PanelInv, Staged, Action
<1>4. DOMAIN panel = PanelFields
  BY DEF PanelInv, Shaped
<1>5. SameBut(panel, u, IdleFields \cup FlagFields) /\ u.forming = TRUE
      /\ u.sending = panel.sending /\ u.asking = panel.asking /\ u.filing = panel.filing
      /\ u.saving = panel.saving /\ u.clearing = panel.clearing
  BY <1>4 DEF SameBut, PanelFields, FlagFields
<1>6. Aimed(action)
  <2>1. /\ ConfirmPage(action.kind) = "DL-CONFIRM" /\ Shows(action.kind) = action
        /\ Named(action.kind) = {Shows(action.kind).id}
    BY <1>3, KindsHaveTheirPages, Zenon
  <2> HIDE DEF action
  <2> QED BY <1>2, <1>3, <2>1 DEF Aimed
<1> HIDE DEF u, action
<1>7. action.kind # "status" /\ Raises(panel, u, action)
  BY <1>2, <1>3, <1>5 DEF Raises, Rises, Forms, Acts, Kinds, Reads
<1>8. Safe(panel, Request(u, action, spare.sends), conf)
  BY <1>5, <1>6, <1>7, SendSafe
<1> QED BY <1>1, <1>8

LEMMA SendClearanceKeeps ==
  ASSUME PanelInv(panel, conf), SendClearance
  PROVE  Safe(panel, panel', conf) /\ conf' = conf
<1> DEFINE u == [panel EXCEPT !.asking = TRUE, !.askedLeg = panel.leg]
           action == [kind |-> "clearance", on |-> "leg", id |-> panel.leg]
<1>1. On("DL-CLEARANCE-CONFIRM") /\ ~panel.asking
  BY DEF SendClearance
<1>2. CASE ClearanceLeg(scope) # panel.leg
  <2>1. conf' = conf /\ panel' = Visit([panel EXCEPT !.leg = NoLeg], "DL-INDEX")
    BY <1>2, Zenon DEF SendClearance, Do
  <2> QED BY <2>1, EditKeeps, Zenon
<1>3. CASE ClearanceLeg(scope) = panel.leg
  <2>1. panel' = Request(u, action, spare.sends) /\ conf' = conf
    BY <1>3, Zenon DEF SendClearance, Send, Do
  <2>2. DOMAIN panel = PanelFields
    BY DEF PanelInv, Shaped
  <2>3. SameBut(panel, u, IdleFields \cup FlagFields) /\ u.asking = TRUE
        /\ u.sending = panel.sending /\ u.forming = panel.forming /\ u.filing = panel.filing
        /\ u.saving = panel.saving /\ u.clearing = panel.clearing
    BY <2>2 DEF SameBut, PanelFields, FlagFields, IdleFields
  <2>4. action.kind = "clearance" /\ action.on = "leg" /\ action.id = panel.leg
    OBVIOUS
  <2>5. Aimed(action)
    <3>1. action = [kind |-> action.kind, on |-> action.on, id |-> action.id]
      OBVIOUS
    <3>2. Shows(action.kind) = [kind |-> action.kind, on |-> "leg", id |-> panel.leg]
      <4> HIDE DEF action
      <4> QED BY <1>1, <2>4, KindsHaveTheirPages, Zenon
    <3> HIDE DEF action
    <3>3. ConfirmPage(action.kind) = "DL-CLEARANCE-CONFIRM" /\ Named(action.kind) = {ClearanceLeg(scope)}
      BY <2>4, KindsHaveTheirPages, Zenon
    <3> QED BY <1>1, <1>3, <2>4, <3>1, <3>2, <3>3 DEF Aimed
  <2> HIDE DEF u, action
  <2>6. action.kind # "status" /\ Raises(panel, u, action)
    BY <1>1, <2>3, <2>4 DEF Raises, Rises, Forms, Acts, Kinds, Reads
  <2>7. Safe(panel, Request(u, action, spare.sends), conf)
    BY <2>3, <2>5, <2>6, SendSafe
  <2> QED BY <2>1, <2>7
<1> QED BY <1>2, <1>3

LEMMA SendStagedKeeps ==
  ASSUME PanelInv(panel, conf), SendStaged
  PROVE  Safe(panel, panel', conf) /\ conf' = conf
<1> DEFINE u == [panel EXCEPT !.sending = TRUE, !.sendingAction = panel.act]
           action == panel.act
<1>1. On("DL-SI-CONFIRM") /\ ~panel.sending /\ action # NoAction
  BY DEF SendStaged
<1>2. action.kind \in Acts /\ action = [kind |-> action.kind, on |-> action.on, id |-> action.id]
  BY <1>1 DEF PanelInv, Staged, Action
<1>3. CASE SayIntentionsFlight(scope) # panel.act.id
  <2>1. conf' = conf /\ panel' = Visit([panel EXCEPT !.act = NoAction], "DL-SI")
    BY <1>3, Zenon DEF SendStaged, Do
  <2>2. Action(NoAction, Acts)
    BY DEF Action
  <2> QED BY <2>1, <2>2, EditKeeps, Zenon
<1>4. CASE SayIntentionsFlight(scope) = panel.act.id
  <2>1. panel' = Request(u, action, spare.sends) /\ conf' = conf
    BY <1>4, Zenon DEF SendStaged, Send, Do
  <2>2. DOMAIN panel = PanelFields
    BY DEF PanelInv, Shaped
  <2>3. SameBut(panel, u, IdleFields \cup FlagFields) /\ u.sending = TRUE
        /\ u.asking = panel.asking /\ u.forming = panel.forming /\ u.filing = panel.filing
        /\ u.saving = panel.saving /\ u.clearing = panel.clearing
    BY <2>2 DEF SameBut, PanelFields, FlagFields, IdleFields
  <2>4. Shows(action.kind) = action /\ ConfirmPage(action.kind) = "DL-SI-CONFIRM"
        /\ Named(action.kind) = {SayIntentionsFlight(scope)}
    BY <1>1, <1>2, KindsHaveTheirPages, Zenon
  <2>5. Aimed(action)
    <3>1. SayIntentionsFlight(scope) = action.id
      BY <1>4
    <3> HIDE DEF action
    <3> QED BY <1>1, <1>2, <2>4, <3>1 DEF Aimed
  <2> HIDE DEF u, action
  <2>6. action.kind # "status" /\ Raises(panel, u, action)
    BY <1>1, <1>2, <2>3 DEF Raises, Rises, Forms, Acts, Kinds, Reads
  <2>7. Safe(panel, Request(u, action, spare.sends), conf)
    BY <2>3, <2>5, <2>6, SendSafe
  <2> QED BY <2>1, <2>7
<1> QED BY <1>3, <1>4

LEMMA SendPdcKeeps ==
  ASSUME PanelInv(panel, conf), SendPdc
  PROVE  Safe(panel, panel', conf) /\ conf' = conf
<1> DEFINE u == [panel EXCEPT !.sending = TRUE, !.sendingLeg = panel.pdc]
           action == [kind |-> "pdc", on |-> "leg", id |-> panel.pdc]
<1>1. On("DL-SI-PDC") /\ ~panel.sending
  BY DEF SendPdc
<1>2. CASE ClearanceLeg(scope) # panel.pdc
  <2>1. conf' = conf /\ panel' = Visit([panel EXCEPT !.pdc = NoLeg], "DL-CLEARANCE")
    BY <1>2, Zenon DEF SendPdc, Do
  <2> QED BY <2>1, EditKeeps, Zenon
<1>3. CASE ClearanceLeg(scope) = panel.pdc
  <2>1. panel' = Request(u, action, spare.sends) /\ conf' = conf
    BY <1>3, Zenon DEF SendPdc, Send, Do
  <2>2. DOMAIN panel = PanelFields
    BY DEF PanelInv, Shaped
  <2>3. SameBut(panel, u, IdleFields \cup FlagFields) /\ u.sending = TRUE
        /\ u.asking = panel.asking /\ u.forming = panel.forming /\ u.filing = panel.filing
        /\ u.saving = panel.saving /\ u.clearing = panel.clearing
    BY <2>2 DEF SameBut, PanelFields, FlagFields, IdleFields
  <2>4. action.kind = "pdc" /\ action.on = "leg" /\ action.id = panel.pdc
    OBVIOUS
  <2>5. action = [kind |-> action.kind, on |-> action.on, id |-> action.id]
    OBVIOUS
  <2> HIDE DEF u, action
  <2>6. Shows(action.kind) = [kind |-> action.kind, on |-> "leg", id |-> panel.pdc]
        /\ ConfirmPage(action.kind) = "DL-SI-PDC" /\ Named(action.kind) = {ClearanceLeg(scope)}
    BY <1>1, <2>4, KindsHaveTheirPages, Zenon
  <2>7. Aimed(action)
    BY <1>1, <1>3, <2>4, <2>5, <2>6 DEF Aimed
  <2>8. action.kind # "status" /\ Raises(panel, u, action)
    BY <1>1, <2>3, <2>4 DEF Raises, Rises, Forms, Acts, Kinds, Reads
  <2>9. Safe(panel, Request(u, action, spare.sends), conf)
    BY <2>3, <2>7, <2>8, SendSafe
  <2> QED BY <2>1, <2>9
<1> QED BY <1>2, <1>3

LEMMA SendPrefileKeeps ==
  ASSUME PanelInv(panel, conf), SendPrefile
  PROVE  Safe(panel, panel', conf) /\ conf' = conf
<1> DEFINE u == [panel EXCEPT !.filing = TRUE]
           action == [kind |-> "prefile", on |-> "", id |-> ""]
<1>1. On("FPLN-CONFIRM") /\ ~panel.filing
  BY Zenon DEF SendPrefile
<1>2. panel' = Request(u, action, spare.sends) /\ conf' = conf
  BY Zenon DEF SendPrefile, Send, Do
<1>3. DOMAIN panel = PanelFields
  BY DEF PanelInv, Shaped
<1>4. SameBut(panel, u, IdleFields \cup FlagFields) /\ u.filing = TRUE
      /\ u.asking = panel.asking /\ u.forming = panel.forming /\ u.sending = panel.sending
      /\ u.saving = panel.saving /\ u.clearing = panel.clearing
  BY <1>3 DEF SameBut, PanelFields, FlagFields, IdleFields
<1>5. action.kind = "prefile"
  OBVIOUS
<1>6. action = [kind |-> action.kind, on |-> "", id |-> ""]
      /\ action = [kind |-> action.kind, on |-> action.on, id |-> action.id]
  OBVIOUS
<1> HIDE DEF u, action
<1>7. Aimed(action)
  <2>1. Shows(action.kind) = action
        /\ ConfirmPage(action.kind) = "FPLN-CONFIRM" /\ Named(action.kind) = {Shows(action.kind).id}
    BY <1>5, <1>6, KindsHaveTheirPages, Zenon
  <2>2. action.id \in Named(action.kind)
    BY <2>1
  <2> QED BY <1>1, <1>6, <2>1, <2>2, Zenon DEF Aimed
<1>8. action.kind # "status" /\ Raises(panel, u, action)
  BY <1>1, <1>4, <1>5 DEF Raises, Rises, Forms, Acts, Kinds, Reads
<1>9. Safe(panel, Request(u, action, spare.sends), conf)
  BY <1>4, <1>7, <1>8, SendSafe
<1> QED BY <1>2, <1>9

LEMMA ClearPrefileKeeps ==
  ASSUME PanelInv(panel, conf), NEW p, ClearPrefile(p)
  PROVE  Safe(panel, panel', conf) /\ conf' = conf
<1> DEFINE u == [panel EXCEPT !.clearing = panel.clearing \cup {p}]
           action == [kind |-> "clear", on |-> p, id |-> ""]
<1>1. panel' = Request(u, action, spare.sends) /\ conf' = conf
  BY Zenon DEF ClearPrefile, Send, Do
<1>2. DOMAIN panel = PanelFields /\ p \notin panel.clearing
  BY Zenon DEF PanelInv, Shaped, ClearPrefile
<1>3. SameBut(panel, u, IdleFields \cup FlagFields) /\ u.filing = panel.filing
      /\ u.asking = panel.asking /\ u.forming = panel.forming /\ u.sending = panel.sending
      /\ u.saving = panel.saving /\ u.clearing = panel.clearing \cup {p}
  BY <1>2 DEF SameBut, PanelFields, FlagFields, IdleFields
<1>4. action.kind = "clear" /\ action.on = p
  OBVIOUS
<1> HIDE DEF u, action
<1>5. action.kind # "status" /\ Raises(panel, u, action)
  BY <1>2, <1>3, <1>4 DEF Raises, Rises, Forms, Acts, Kinds, Reads
<1>6. Safe(panel, Request(u, action, spare.sends), conf)
  BY <1>3, <1>4, <1>5, SendSafe
<1> QED BY <1>1, <1>6

LEMMA SaveKeeps ==
  ASSUME PanelInv(panel, conf), Save
  PROVE  Safe(panel, panel', conf) /\ conf' = conf
<1> DEFINE u == [panel EXCEPT !.saving = TRUE]
           action == [kind |-> "save", on |-> panel.url, id |-> panel.token]
<1>1. panel' = Request(u, action, 0) /\ conf' = conf
  BY Zenon DEF Save, Do
<1>2. DOMAIN panel = PanelFields /\ ~panel.saving
  BY DEF PanelInv, Shaped, Save
<1>3. SameBut(panel, u, IdleFields \cup FlagFields) /\ u.filing = panel.filing
      /\ u.asking = panel.asking /\ u.forming = panel.forming /\ u.sending = panel.sending
      /\ u.saving = TRUE /\ u.clearing = panel.clearing
  BY <1>2 DEF SameBut, PanelFields, FlagFields, IdleFields
<1>4. action.kind = "save"
  OBVIOUS
<1> HIDE DEF u, action
<1>5. action.kind # "status" /\ Raises(panel, u, action)
  BY <1>2, <1>3, <1>4 DEF Raises, Rises, Forms, Acts, Kinds, Reads
<1>6. action.kind \notin Writes
  BY <1>4 DEF Writes, Forms, Acts
<1>7. Safe(panel, Request(u, action, 0), conf)
  BY <1>3, <1>5, <1>6, SendSafe
<1> QED BY <1>1, <1>7

-----------------------------------------------------------------------------
(* The world outside: states told, reloads, requests and saves served.      *)

LEMMA ToldScopeKeeps ==
  ASSUME PanelInv(panel, conf), NEW s, ToldScope(s)
  PROVE  Safe(panel, panel', conf) /\ conf' = conf
<1>1. conf' = conf /\ panel' \in {FollowScope(panel, s), panel}
  BY Zenon DEF ToldScope
<1>2. \A y \in {FollowScope(panel, s), panel} : Follows(panel, y)
  BY FollowScopeFollows DEF PanelInv
<1>3. \A y \in {FollowScope(panel, s), panel} : Safe(panel, y, conf)
  BY <1>2, FollowsKeeps, FollowsSendsNothing DEF Safe
<1> QED BY <1>1, <1>3

\* Rightful or reloaded, a request is of the same family and no new one.
LEMMA MapKeepsRest ==
  ASSUME NEW w, NEW c, PanelInv(w, c), NEW y, NEW g, y.out = {g[q] : q \in w.out},
         SameBut(w, y, {"out", "status", "queued", "outlived"}), DOMAIN y.status = StatusFields,
         \A q \in w.out : /\ g[q].kind = q.kind /\ g[q].on = q.on /\ g[q].n = q.n
                          /\ DOMAIN g[q] = RequestFields
  PROVE  Shaped(y) /\ Staged(y) /\ Lists(y) /\ Single(y) /\ Sends(w, y)
<1>1. /\ y.form = w.form /\ y.act = w.act /\ y.forming = w.forming /\ y.sending = w.sending
      /\ y.asking = w.asking /\ y.filing = w.filing /\ y.saving = w.saving /\ y.clearing = w.clearing
      /\ y.results = w.results /\ y.texts = w.texts
  BY DEF SameBut, PanelFields
<1>2. Shaped(y)
  BY DEF SameBut, Shaped
<1>3. Staged(y) /\ Lists(y)
  BY <1>1 DEF PanelInv, Staged, Lists
<1>4. Single(y)
  <2>1. /\ \A kinds, busy : Lone(w.out, kinds, busy) => Lone(y.out, kinds, busy)
        /\ \A pages : LoneByPage(w.out, pages) => LoneByPage(y.out, pages)
    BY LoneMaps
  <2>2. Lone(y.out, Forms, y.forming) /\ Lone(y.out, Acts \cup {"pdc"}, y.sending)
    BY <1>1, <2>1 DEF PanelInv, Single
  <2>3. Lone(y.out, {"clearance"}, y.asking) /\ Lone(y.out, {"prefile"}, y.filing)
    BY <1>1, <2>1 DEF PanelInv, Single
  <2>4. Lone(y.out, {"settings"}, TRUE) /\ Lone(y.out, {"save", "config"}, y.saving)
    BY <1>1, <2>1 DEF PanelInv, Single
  <2>5. LoneByPage(y.out, y.clearing)
    BY <1>1, <2>1 DEF PanelInv, Single
  <2>6. Listed(y.out)
    BY DEF PanelInv, Single, Listed
  <2> QED BY <2>2, <2>3, <2>4, <2>5, <2>6 DEF Single
<1>5. Sends(w, y)
  BY DEF Sends
<1> QED BY <1>2, <1>3, <1>4, <1>5

\* Once the file has been read nothing is behind, and what is in force may answer.
LEMMA UnblockedKeeps ==
  ASSUME PanelInv(panel, conf), NEW y, NEW c, Settled(c), c.file = conf.file,
         y.out = Unblocked, SameBut(panel, y, {"out", "queued", "outlived"}),
         panel.outlived \subseteq y.outlived, Rightful(y, c)
  PROVE  PanelInv(y, c) /\ Sends(panel, y)
<1> DEFINE g == [q \in panel.out |-> [q EXCEPT !.behind = FALSE]]
<1>2. Shaped(panel)
  BY DEF PanelInv
<1>3. \A q \in panel.out :
        /\ g[q].kind = q.kind /\ g[q].on = q.on /\ g[q].n = q.n /\ g[q].id = q.id
        /\ g[q].live = q.live /\ g[q].at = q.at /\ g[q].cfg = q.cfg /\ g[q].good = q.good
        /\ DOMAIN g[q] = RequestFields
  BY <1>2 DEF Shaped, RequestFields
<1>4. y.out = {g[q] : q \in panel.out}
  BY DEF Unblocked
<1> HIDE DEF g
<1>5. /\ SameBut(panel, y, {"out", "status", "queued", "outlived"})
      /\ y.status = panel.status /\ y.key = panel.key /\ y.cache = panel.cache
      /\ y.results = panel.results /\ y.texts = panel.texts
  BY DEF SameBut, PanelFields
<1>6. Of(panel, conf) \subseteq Of(y, c)
  BY DEF Of
<1>7. Shaped(y) /\ Staged(y) /\ Lists(y) /\ Single(y) /\ Sends(panel, y)
  BY <1>2, <1>3, <1>4, <1>5, MapKeepsRest DEF Shaped
<1>8. ASSUME Agreed(panel, conf) PROVE Agreed(y, c)
  <2>1. KeptAgree(y, c)
    BY <1>5, <1>6, <1>8 DEF Agreed, KeptAgree
  <2>2. RequestsAgree(y, c)
    BY <1>3, <1>4, <1>5, <1>6, <1>8 DEF Agreed, RequestsAgree
  <2>3. CacheAgrees(y, c)
    <3>1. CASE panel.cache \in {"", conf.file.url}
      BY <1>5, <3>1, Zenon DEF CacheAgrees
    <3>2. ASSUME NEW r \in panel.out, r.kind = "config" \/ GoodSave(r) PROVE CacheAgrees(y, c)
      <4>1. g[r] \in y.out
        BY <1>4
      <4>2. g[r].kind = "config" \/ GoodSave(g[r])
        BY <1>3, <3>2 DEF GoodSave
      <4> QED BY <4>1, <4>2, Zenon DEF CacheAgrees
    <3> QED BY <1>8, <3>1, <3>2, Zenon DEF Agreed, CacheAgrees
  <2> QED BY <2>1, <2>2, <2>3 DEF Agreed
<1>9. ASSUME Forgetting(panel) PROVE Forgetting(y)
  <2>1. PICK r \in panel.out : GoodSave(r) /\ Changes(panel, r)
    BY <1>9, Zenon DEF Forgetting
  <2>2. g[r] \in y.out /\ GoodSave(g[r])
    BY <1>3, <1>4, <2>1 DEF GoodSave
  <2>3. g[r].id = r.id /\ g[r].on = r.on
    BY <1>3
  <2>4. Changes(y, g[r])
    BY <1>5, <2>1, <2>3, Zenon DEF Changes
  <2> QED BY <2>2, <2>4, Zenon DEF Forgetting
<1> QED
  BY <1>7, <1>8, <1>9 DEF PanelInv, Current, InForce

LEMMA ReloadedKeeps ==
  ASSUME PanelInv(panel, conf), Reloaded
  PROVE  PanelInv(panel', conf') /\ Sends(panel, panel')
<1> DEFINE blocked == FALSE
           y == [panel EXCEPT !.queued = blocked, !.out = Unblocked]
           c == [conf EXCEPT !.force = conf.file, !.pending = blocked]
<1>1. panel' = y /\ conf' = c
  BY DEF Reloaded
<1> HIDE DEF blocked
<1>2. y.out = Unblocked /\ SameBut(panel, y, {"out", "queued", "outlived"}) /\ y.outlived = panel.outlived
  BY DEF PanelInv, Shaped, SameBut, PanelFields
<1>3. Settled(c) /\ c.file = conf.file /\ c.force = conf.file
  <2>1. Settled(conf)
    BY DEF PanelInv
  <2> QED BY <2>1 DEF Settled
<1> HIDE DEF y, c
<1>4. Rightful(y, c)
  BY <1>3 DEF Rightful, Of
<1> QED BY <1>1, <1>2, <1>3, <1>4, UnblockedKeeps

\* What stays in force over a refused file is remembered as having outlived it.
LEMMA RejectedKeeps ==
  ASSUME PanelInv(panel, conf), Rejected
  PROVE  PanelInv(panel', conf') /\ Sends(panel, panel')
<1>1. PICK inforce \in {conf.force, NoConfig} :
        /\ conf' = [conf EXCEPT !.force = inforce, !.pending = FALSE]
        /\ panel' = [panel EXCEPT !.queued = FALSE, !.out = Unblocked,
                        !.outlived = panel.outlived \cup ({inforce} \ {NoConfig, conf.file})]
  BY Zenon DEF Rejected
<1> DEFINE blocked == FALSE
           more == panel.outlived \cup ({inforce} \ {NoConfig, conf.file})
           y == [panel EXCEPT !.queued = blocked, !.out = Unblocked, !.outlived = more]
           c == [conf EXCEPT !.force = inforce, !.pending = blocked]
<1>2. panel' = y /\ conf' = c
  BY <1>1
<1> HIDE DEF blocked, more
<1>3. y.out = Unblocked /\ SameBut(panel, y, {"out", "queued", "outlived"}) /\ y.outlived = more
  BY DEF PanelInv, Shaped, SameBut, PanelFields
<1>4. Settled(c) /\ c.file = conf.file /\ c.force = inforce
  <2>1. Settled(conf)
    BY DEF PanelInv
  <2> QED BY <2>1 DEF Settled
<1> HIDE DEF y, c
<1>5. Rightful(y, c) /\ panel.outlived \subseteq y.outlived
  BY <1>3, <1>4 DEF Rightful, Of, more
<1> QED BY <1>2, <1>3, <1>4, <1>5, UnblockedKeeps

LEMMA ServeRequestKeeps ==
  ASSUME PanelInv(panel, conf), NEW r \in panel.out, NEW good, ServeRequest(r, good)
  PROVE  PanelInv(panel', conf') /\ Sends(panel, panel')
<1> DEFINE done == [r EXCEPT !.at = "answered", !.good = good,
                             !.cfg = IF r.kind = "config" THEN conf.file ELSE conf.force]
           moved == good /\ r.kind \in {"link", "unlink"}
           Aged(q) == IF q.kind = "status" /\ q.at = "answered" THEN [q EXCEPT !.stale = q.stale \/ moved] ELSE q
           served == {Aged(q) : q \in panel.out \ {r}} \cup {done}
           stale == panel.status.stale \/ (moved /\ panel.status # NoStatus)
           status == [panel.status EXCEPT !.stale = stale]
           g == [q \in panel.out |-> IF q = r THEN done ELSE Aged(q)]
           y == [panel EXCEPT !.out = served, !.status.stale = stale]
<1>1. /\ r.at = "out" /\ ~r.behind /\ r.kind # "save"
      /\ good => r.kind = "config" \/ conf.force # NoConfig
  BY Zenon DEF ServeRequest
<1>2. panel' = y /\ conf' = conf
  BY Zenon DEF ServeRequest
<1>3. DOMAIN r = RequestFields /\ DOMAIN panel = PanelFields /\ DOMAIN panel.status = StatusFields
      /\ \A q \in panel.out : DOMAIN q = RequestFields
  BY DEF PanelInv, Shaped
<1>4. /\ done.kind = r.kind /\ done.on = r.on /\ done.n = r.n /\ done.id = r.id /\ done.live = r.live
      /\ done.at = "answered" /\ done.cfg = (IF r.kind = "config" THEN conf.file ELSE conf.force)
      /\ done.good = good
      /\ DOMAIN done = RequestFields
  BY <1>3 DEF RequestFields
<1>5. \A q \in panel.out :
        /\ Aged(q).kind = q.kind /\ Aged(q).on = q.on /\ Aged(q).n = q.n /\ Aged(q).id = q.id
        /\ Aged(q).live = q.live /\ Aged(q).at = q.at /\ Aged(q).cfg = q.cfg /\ Aged(q).good = q.good
        /\ Aged(q).behind = q.behind /\ DOMAIN Aged(q) = RequestFields
  <2> HIDE DEF moved
  <2> QED BY <1>3 DEF RequestFields
<1>6. status.id = panel.status.id /\ status.cfg = panel.status.cfg /\ DOMAIN status = StatusFields
  <2> HIDE DEF stale
  <2> QED BY <1>3 DEF StatusFields
<1>7. panel.status = NoStatus => status = NoStatus
  <2> SUFFICES ASSUME panel.status = NoStatus PROVE status = NoStatus
    OBVIOUS
  <2> DEFINE none == ""
             no == FALSE
             fresh == [id |-> none, cfg |-> NoConfig, stale |-> no]
  <2>1. NoStatus = fresh
    BY Zenon DEF NoStatus
  <2> HIDE DEF none, no
  <2>2. fresh.stale = no /\ [fresh EXCEPT !.stale = no] = fresh
    OBVIOUS
  <2> HIDE DEF fresh
  <2>3. stale = no
    BY <2>1, <2>2, Zenon DEF no
  <2> HIDE DEF stale
  <2> QED BY <2>1, <2>2, <2>3, Zenon
<1> HIDE DEF done, Aged
<1>8. served = {g[q] : q \in panel.out}
  OBVIOUS
<1>9. g[r] = done /\ \A q \in panel.out : q # r => g[q] = Aged(q)
  OBVIOUS
<1>10. y.status = status /\ y.out = served
  <2> HIDE DEF stale, served
  <2> QED BY <1>3 DEF PanelFields
<1> HIDE DEF stale, served, g
<1>11. SameBut(panel, y, {"out", "status"})
  BY <1>3 DEF SameBut, PanelFields
<1> HIDE DEF y, status
<1>12. SameBut(panel, y, {"out", "status", "queued", "outlived"})
  BY <1>11 DEF SameBut
<1>13. \A q \in panel.out : /\ g[q].kind = q.kind /\ g[q].on = q.on /\ g[q].n = q.n
                            /\ DOMAIN g[q] = RequestFields
  BY <1>4, <1>5, <1>9
<1>14. y.out = {g[q] : q \in panel.out} /\ DOMAIN y.status = StatusFields
  BY <1>6, <1>8, <1>10
<1>15. Shaped(y) /\ Staged(y) /\ Lists(y) /\ Single(y) /\ Sends(panel, y)
  BY <1>12, <1>13, <1>14, MapKeepsRest
<1>16. y.key = panel.key /\ y.cache = panel.cache /\ y.queued = panel.queued /\ y.outlived = panel.outlived
       /\ y.results = panel.results /\ y.texts = panel.texts
  BY <1>11 DEF SameBut, PanelFields
<1>17. ASSUME Agreed(panel, conf) PROVE Agreed(y, conf)
  <2>1. KeptAgree(y, conf)
    <3>1. y.status # NoStatus => panel.status # NoStatus
      BY <1>7, <1>10
    <3> QED BY <1>6, <1>10, <1>16, <1>17, <3>1 DEF Agreed, KeptAgree, Of, Rightful
  <2>2. RequestsAgree(y, conf)
    <3>1. ASSUME NEW q \in panel.out, q # r
          PROVE  /\ g[q].kind \in Keeps /\ g[q].live =>
                      /\ g[q].at = "answered" /\ g[q].good => g[q].cfg \in Of(y, conf)
                      /\ g[q].at = "out" /\ ~g[q].behind => Rightful(y, conf)
                      /\ g[q].kind = "status" => g[q].id = y.key
                 /\ g[q].kind = "config" /\ g[q].at = "answered" => g[q].cfg = conf.file
      BY <1>5, <1>9, <1>16, <1>17, <3>1 DEF Agreed, RequestsAgree, Of, Rightful
    <3>2. /\ done.kind \in Keeps /\ done.live =>
                      /\ (done.good => done.cfg \in Of(y, conf)) /\ done.at = "answered"
                      /\ done.kind = "status" => done.id = y.key
          /\ done.kind = "config" => done.cfg = conf.file
      BY <1>1, <1>4, <1>16, <1>17 DEF Agreed, RequestsAgree, Keeps, Of, Rightful
    <3> QED BY <1>4, <1>9, <1>14, <3>1, <3>2 DEF RequestsAgree
  <2>3. CacheAgrees(y, conf)
    <3>1. CASE panel.cache \in {"", conf.file.url}
      BY <1>16, <3>1, Zenon DEF CacheAgrees
    <3>2. ASSUME NEW q \in panel.out, q.kind = "config" \/ GoodSave(q) PROVE CacheAgrees(y, conf)
      <4>1. g[q] \in y.out
        BY <1>14
      <4>2. g[q].kind = "config" \/ GoodSave(g[q])
        BY <1>1, <1>4, <1>5, <1>9, <3>2 DEF GoodSave
      <4> QED BY <4>1, <4>2, Zenon DEF CacheAgrees
    <3> QED BY <1>17, <3>1, <3>2, Zenon DEF Agreed, CacheAgrees
  <2> QED BY <1>16, <1>17, <2>1, <2>2, <2>3 DEF Agreed, Of, Rightful
<1>18. ASSUME Forgetting(panel) PROVE Forgetting(y)
  <2>1. PICK q \in panel.out : GoodSave(q) /\ Changes(panel, q)
    BY <1>18, Zenon DEF Forgetting
  <2>2. q # r
    BY <1>1, <2>1 DEF GoodSave
  <2>3. g[q] \in y.out /\ GoodSave(g[q])
    BY <1>5, <1>9, <1>14, <2>1, <2>2 DEF GoodSave
  <2>4. g[q].id = q.id /\ g[q].on = q.on
    BY <1>5, <1>9, <2>2
  <2>5. Changes(y, g[q])
    BY <1>16, <2>1, <2>4, Zenon DEF Changes
  <2> QED BY <2>3, <2>5, Zenon DEF Forgetting
<1>19. PanelInv(y, conf)
  BY <1>15, <1>16, <1>17, <1>18 DEF PanelInv, Current, InForce, Of, Rightful
<1> QED BY <1>2, <1>15, <1>19, Zenon

LEMMA ServeSaveKeeps ==
  ASSUME PanelInv(panel, conf), NEW r \in panel.out, NEW how \in SaveAnswers, ServeSave(r, how)
  PROVE  PanelInv(panel', conf') /\ Sends(panel, panel')
<1> DEFINE saved == how = "saved"
           done == [r EXCEPT !.at = "answered", !.good = saved]
           served == (panel.out \ {r}) \cup {done}
           token == IF r.id = "entered" THEN conf.file.token + 1 ELSE conf.file.token
           file == [url |-> r.on, token |-> token]
           differs == file # conf.force
           c == CASE how = "saved" -> [conf EXCEPT !.file = file, !.pending = differs]
                  [] how = "unheard" -> [conf EXCEPT !.file = file]
                  [] how = "failed" -> conf
           g == [q \in panel.out |-> IF q = r THEN done ELSE q]
           y == [panel EXCEPT !.out = served]
<1>1. r.kind = "save" /\ r.at = "out"
  BY Zenon DEF ServeSave
<1>2. panel' = y /\ conf' = c
  BY Zenon DEF ServeSave
<1>3. DOMAIN r = RequestFields /\ DOMAIN panel = PanelFields /\ DOMAIN panel.status = StatusFields
      /\ \A q \in panel.out : DOMAIN q = RequestFields
  BY DEF PanelInv, Shaped
<1>4. /\ done.kind = r.kind /\ done.on = r.on /\ done.n = r.n /\ done.id = r.id /\ done.live = r.live
      /\ done.at = "answered" /\ done.good = saved /\ DOMAIN done = RequestFields
  <2> HIDE DEF saved
  <2> QED BY <1>3 DEF RequestFields
<1>5. /\ Settled(c) /\ c.force = conf.force
      /\ how = "saved" => c.file = file /\ c.pending = differs
      /\ how = "failed" => c = conf
  <2> HIDE DEF token
  <2>1. file = [url |-> file.url, token |-> file.token]
    OBVIOUS
  <2> HIDE DEF file, differs
  <2>2. Settled(conf)
    BY DEF PanelInv
  <2>3. CASE how = "saved"
    <3>1. c = [conf EXCEPT !.file = file, !.pending = differs]
      BY <2>3
    <3> HIDE DEF c
    <3> QED BY <2>1, <2>2, <2>3, <3>1 DEF Settled
  <2>4. CASE how = "unheard"
    <3>1. c = [conf EXCEPT !.file = file]
      BY <2>4
    <3> HIDE DEF c
    <3> QED BY <2>1, <2>2, <2>4, <3>1 DEF Settled
  <2>5. CASE how = "failed"
    <3>1. c = conf
      BY <2>5
    <3> HIDE DEF c
    <3> QED BY <2>2, <2>5, <3>1
  <2> QED BY <2>3, <2>4, <2>5, PanelAnswers
<1> HIDE DEF done, c
<1>6. served = {g[q] : q \in panel.out}
  OBVIOUS
<1>7. g[r] = done /\ \A q \in panel.out : q # r => g[q] = q
  OBVIOUS
<1> HIDE DEF served, g
<1>8. y.out = served /\ SameBut(panel, y, {"out"})
  BY <1>3 DEF SameBut, PanelFields
<1> HIDE DEF y
<1>9. /\ y.key = panel.key /\ y.cache = panel.cache /\ y.queued = panel.queued /\ y.outlived = panel.outlived
      /\ y.results = panel.results /\ y.texts = panel.texts /\ y.status = panel.status
      /\ SameBut(panel, y, {"out", "status", "queued", "outlived"})
  BY <1>8 DEF SameBut, PanelFields
<1>10. \A q \in panel.out : /\ g[q].kind = q.kind /\ g[q].on = q.on /\ g[q].n = q.n
                            /\ DOMAIN g[q] = RequestFields
  BY <1>3, <1>4, <1>7
<1>11. Shaped(y) /\ Staged(y) /\ Lists(y) /\ Single(y) /\ Sends(panel, y)
  BY <1>3, <1>6, <1>8, <1>9, <1>10, MapKeepsRest
<1>12. \A q \in panel.out : q.kind \in {"save", "config"} => q = r
  BY <1>1 DEF PanelInv, Single, Lone
<1>13. \A q \in panel.out : ~GoodSave(q) /\ q.kind # "config"
  BY <1>1, <1>12 DEF GoodSave
<1>14. ASSUME Current(panel, conf), c.file = conf.file, InForce(y, c), panel.cache \in {"", conf.file.url}
       PROVE  Current(y, c)
  <2>1. ~Forgetting(panel)
    BY <1>13 DEF Forgetting
  <2>2. Agreed(panel, conf)
    BY <1>14, <2>1, Zenon DEF Current
  <2>3. Of(y, c) = Of(panel, conf) /\ (Rightful(y, c) <=> Rightful(panel, conf))
    BY <1>5, <1>9, <1>14 DEF Of, Rightful
  <2>4. KeptAgree(y, c)
    BY <1>9, <2>2, <2>3 DEF Agreed, KeptAgree
  <2>5. RequestsAgree(y, c)
    <3>1. done.kind \notin Keeps /\ done.kind # "config"
      BY <1>1, <1>4 DEF Keeps
    <3> SUFFICES ASSUME NEW q \in y.out
                 PROVE  /\ q.kind \in Keeps /\ q.live =>
                             /\ q.at = "answered" /\ q.good => q.cfg \in Of(y, c)
                             /\ q.at = "out" /\ ~q.behind => Rightful(y, c)
                             /\ q.kind = "status" => q.id = y.key
                        /\ q.kind = "config" /\ q.at = "answered" => q.cfg = c.file
      BY DEF RequestsAgree
    <3>2. q = done \/ q \in panel.out
      BY <1>6, <1>7, <1>8
    <3>3. CASE q \in panel.out
      BY <1>9, <1>14, <2>2, <2>3, <3>3 DEF Agreed, RequestsAgree
    <3> HIDE DEF Keeps
    <3> QED BY <3>1, <3>2, <3>3
  <2>6. CacheAgrees(y, c)
    BY <1>9, <1>14, Zenon DEF CacheAgrees
  <2>7. Agreed(y, c)
    BY <1>9, <2>2, <2>3, <2>4, <2>5, <2>6 DEF Agreed
  <2> QED BY <1>14, <2>7, Zenon DEF Current
<1>15. Current(panel, conf) => panel.cache \in {"", conf.file.url}
  <2>1. ~Forgetting(panel)
    BY <1>13 DEF Forgetting
  <2> QED BY <1>13, <2>1, Zenon DEF Current, Agreed, CacheAgrees
<1>16. ASSUME Current(panel, conf), how = "failed" PROVE Current(y, c)
  <2>1. c = conf /\ InForce(y, c)
    BY <1>5, <1>9, <1>16 DEF Current, InForce, Of, Rightful
  <2> QED BY <1>14, <1>15, <1>16, <2>1, Zenon
<1>17. ASSUME Current(panel, conf), how = "saved" PROVE Current(y, c)
  <2>1. GoodSave(done) /\ done \in y.out
    BY <1>1, <1>4, <1>6, <1>7, <1>8, <1>17 DEF GoodSave
  <2>2. InForce(y, c)
    <3>1. c.file = c.force \/ c.pending
      BY <1>5, <1>17
    <3> QED BY <3>1 DEF InForce, Of, Rightful
  <2>3. CASE Changes(panel, r)
    <3>1. Changes(y, done)
      BY <1>4, <1>9, <2>3, Zenon DEF Changes
    <3> QED BY <2>1, <2>2, <3>1, Zenon DEF Forgetting, Current
  <2>4. CASE ~Changes(panel, r)
    <3>1. r.id # "entered" /\ panel.cache # "" /\ panel.cache = r.on
      BY <2>4, Zenon DEF Changes
    <3>2. panel.cache = conf.file.url
      BY <1>15, <1>17, <3>1, Zenon
    <3>3. file = conf.file
      <4>1. token = conf.file.token
        BY <3>1, Zenon
      <4> HIDE DEF token
      <4>2. conf.file = [url |-> conf.file.url, token |-> conf.file.token]
        BY Zenon DEF PanelInv, Settled
      <4>3. r.on = conf.file.url
        BY <3>1, <3>2, Zenon
      <4> QED BY <4>1, <4>2, <4>3, Zenon
    <3> HIDE DEF file
    <3> QED BY <1>5, <1>14, <1>15, <1>17, <2>2, <3>3, Zenon
  <2> QED BY <2>3, <2>4
<1>18. HonestSaves => how = "saved" \/ how = "failed"
  BY DEF HonestSaves
<1>19. PanelInv(y, c)
  BY <1>5, <1>11, <1>16, <1>17, <1>18 DEF PanelInv
<1> QED BY <1>2, <1>11, <1>19, Zenon

-----------------------------------------------------------------------------
(* Answers.                                                                 *)

\* What is kept is what was kept, or the answer.
LEMMA KeepOf ==
  ASSUME NEW S, NEW kept \in Seq(S), NEW r, [id |-> r.id, cfg |-> r.cfg] \in S
  PROVE  Keep(kept, r) \in Seq(S)
<1> DEFINE new == [id |-> r.id, cfg |-> r.cfg]
           at == {i \in DOMAIN kept : kept[i].id = r.id}
           one == CHOOSE i \in at : TRUE
           others == IF at = {} THEN kept ELSE RemoveAt(kept, one)
           all == Append(others, new)
<1>1. at # {} => one \in 1..Len(kept)
  OBVIOUS
<1> HIDE DEF one, at
<1>2. ASSUME NEW i \in 1..Len(kept) PROVE RemoveAt(kept, i) \in Seq(S)
  <2>1. SubSeq(kept, 1, i - 1) \in Seq(S)
    OBVIOUS
  <2>2. SubSeq(kept, i + 1, Len(kept)) \in Seq(S)
    OBVIOUS
  <2> QED BY <2>1, <2>2 DEF RemoveAt
<1>3. others \in Seq(S)
  BY <1>1, <1>2
<1> HIDE DEF others, new
<1>4. all \in Seq(S) /\ all # << >>
  BY <1>3 DEF new
<1>5. Keep(kept, r) = IF Len(all) > ResultsKept THEN Tail(all) ELSE all
  BY DEF Keep, all, others, at, one, new
<1> HIDE DEF all
<1> QED BY <1>4, <1>5

LEMMA KeepAgrees ==
  ASSUME NEW kept, \E S : kept \in Seq(S), NEW r
  PROVE  /\ \E S : Keep(kept, r) \in Seq(S)
         /\ \A files : (\A i \in DOMAIN kept : kept[i].cfg \in files) /\ r.cfg \in files =>
                        \A i \in DOMAIN Keep(kept, r) : Keep(kept, r)[i].cfg \in files
<1> DEFINE new == [id |-> r.id, cfg |-> r.cfg]
<1>1. PICK S : kept \in Seq(S)
  OBVIOUS
<1>2. kept \in Seq(S \cup {new})
  <2> HIDE DEF new
  <2> QED BY <1>1
<1>3. Keep(kept, r) \in Seq(S \cup {new})
  BY <1>2, KeepOf
<1>4. ASSUME NEW files, \A i \in DOMAIN kept : kept[i].cfg \in files, r.cfg \in files
      PROVE  \A i \in DOMAIN Keep(kept, r) : Keep(kept, r)[i].cfg \in files
  <2> DEFINE T == {e \in S \cup {new} : e.cfg \in files}
  <2>1. new.cfg \in files
    BY <1>4
  <2>2. new \in T
    <3> HIDE DEF new
    <3> QED BY <2>1
  <2>3. kept \in Seq(T)
    <3> HIDE DEF new
    <3> QED BY <1>1, <1>4
  <2>4. Keep(kept, r) \in Seq(T)
    <3> HIDE DEF T
    <3> QED BY <2>2, <2>3, KeepOf
  <2> HIDE DEF new
  <2>5. \A e \in T : e.cfg \in files
    OBVIOUS
  <2> HIDE DEF T
  <2> QED BY <2>4, <2>5
<1> QED BY <1>3, <1>4

\* An answer that is handled: its request is gone, its family's flag falls.
Concludes(w, u, c) ==
  Safe(w, u, c) /\ Safe(w, Repaint(u), c) /\ \A from, p : Safe(w, Conclude(u, from, p), c)
LEMMA AnswerSafe ==
  ASSUME NEW w, NEW c, PanelInv(w, c), NEW r \in w.out, NEW u, u.out = w.out \ {r},
         DOMAIN u = PanelFields, DOMAIN u.status = StatusFields, Staged(u), Lists(u), Lowers(w, u, r),
         HonestSaves /\ Current(w, c) => Current(u, c)
  PROVE  Concludes(w, u, c)
<1>1. Shaped(u)
  BY DEF PanelInv, Shaped
<1>2. Single(u)
  BY SingleDrops DEF PanelInv
<1>3. PanelInv(u, c)
  BY <1>1, <1>2 DEF PanelInv
<1>4. Follows(u, u)
  BY <1>1, FollowScopeFollows
<1>5. \A y : Follows(u, y) => PanelInv(y, c) /\ Sends(w, y)
  BY <1>3, FollowsKeeps, FollowsSendsNothing
<1>6. \A y : Follows(u, y) => Safe(w, y, c)
  BY <1>5 DEF Safe
<1>7. Follows(u, Repaint(u)) /\ \A from, p : Follows(u, Conclude(u, from, p))
  BY <1>1, ConcludeFollows
<1> QED BY <1>4, <1>6, <1>7, Zenon DEF Concludes

LEMMA CurrentDrops ==
  ASSUME NEW w, NEW c, Current(w, c), NEW r \in w.out, r.kind \notin {"save", "config"},
         NEW u, u.out = w.out \ {r}, u.key = w.key, u.cache = w.cache, u.queued = w.queued /\ u.outlived = w.outlived,
         Agreed(w, c) => KeptAgree(u, c)
  PROVE  Current(u, c)
<1>1. ASSUME Agreed(w, c) PROVE Agreed(u, c)
  <2>1. RequestsAgree(u, c)
    BY <1>1 DEF Agreed, RequestsAgree, Of, Rightful
  <2>2. CacheAgrees(u, c)
    <3>1. \A q \in w.out : q.kind = "config" \/ GoodSave(q) => q \in u.out
      BY DEF GoodSave
    <3> QED BY <1>1, <3>1, Zenon DEF Agreed, CacheAgrees
  <2> QED BY <1>1, <2>1, <2>2, Zenon DEF Agreed, Of, Rightful
<1>2. ASSUME Forgetting(w) PROVE Forgetting(u)
  <2>1. PICK q \in w.out : GoodSave(q) /\ Changes(w, q)
    BY <1>2, Zenon DEF Forgetting
  <2>2. q \in u.out
    BY <2>1 DEF GoodSave
  <2> QED BY <2>1, <2>2, Zenon DEF Forgetting, Changes
<1> QED BY <1>1, <1>2, Zenon DEF Current, InForce, Of, Rightful

LEMMA IdleAnswer ==
  ASSUME NEW w, NEW c, PanelInv(w, c), NEW r \in w.out, r.kind \notin {"save", "config"},
         NEW u, SameBut(w, u, IdleFields \cup FlagFields \cup {"out", "form", "act"}),
         u.out = w.out \ {r}, Staged(u), Lowers(w, u, r)
  PROVE  Concludes(w, u, c)
<1>1. /\ DOMAIN u = PanelFields /\ u.results = w.results /\ u.texts = w.texts /\ u.status = w.status
      /\ u.key = w.key /\ u.cache = w.cache /\ u.queued = w.queued /\ u.outlived = w.outlived
  BY DEF SameBut, PanelFields, IdleFields, FlagFields
<1>2. Lists(u) /\ DOMAIN u.status = StatusFields
  BY <1>1 DEF PanelInv, Lists, Shaped
<1>3. Agreed(w, c) => KeptAgree(u, c)
  BY <1>1 DEF Agreed, KeptAgree, Of, Rightful
<1>4. Current(w, c) => Current(u, c)
  BY <1>1, <1>3, CurrentDrops
<1> QED BY <1>1, <1>2, <1>4, AnswerSafe

\* Handling starts from the panel without the request.
Without(w, r) == [w EXCEPT !.out = w.out \ {r}]
LEMMA WithoutIsBase ==
  ASSUME NEW w, NEW c, PanelInv(w, c), NEW r \in w.out
  PROVE  /\ SameBut(w, Without(w, r), {"out"}) /\ Without(w, r).out = w.out \ {r}
         /\ Shaped(Without(w, r)) /\ Staged(Without(w, r))
<1> DEFINE b == Without(w, r)
<1>1. DOMAIN w = PanelFields
  BY DEF PanelInv, Shaped
<1>2. SameBut(w, b, {"out"}) /\ b.out = w.out \ {r}
  BY <1>1 DEF SameBut, PanelFields, Without
<1> HIDE DEF b
<1>3. b.status = w.status /\ b.form = w.form /\ b.act = w.act
  BY <1>2 DEF SameBut, PanelFields
<1>4. Shaped(b) /\ Staged(b)
  BY <1>2, <1>3 DEF PanelInv, Shaped, Staged, SameBut
<1> QED BY <1>2, <1>4 DEF b

LEMMA FormAnsweredKeeps ==
  ASSUME PanelInv(panel, conf), NEW r \in panel.out, r.kind \in Forms
  PROVE  Safe(panel, FormAnswered(Without(panel, r), r), conf)
<1> DEFINE b == Without(panel, r)
           u == [b EXCEPT !.form = NoAction, !.forming = FALSE]
           kept == Keep(u.sheets, r)
           x == [u EXCEPT !.sheets = kept]
<1>1. SameBut(panel, b, {"out"}) /\ b.out = panel.out \ {r} /\ DOMAIN b = PanelFields /\ Staged(b)
  BY WithoutIsBase DEF Shaped
<1>2. FormAnswered(b, r) = ConcludeForm(u, r)
  BY Zenon DEF FormAnswered
<1>3. ConcludeForm(u, r) =
        IF ~r.good THEN Conclude(u, "DL-CONFIRM", Origin(r.kind))
        ELSE CASE r.kind = "canned" -> Conclude(u, "DL-CONFIRM", "DL-INDEX")
               [] r.kind = "wx" -> Conclude(u, "DL-CONFIRM", "DL-WX-RESULT")
               [] r.kind = "loadsheet" -> Conclude(x, "DL-CONFIRM", "DL-LOADSHEET")
  BY Zenon DEF ConcludeForm
<1> HIDE DEF b, kept
<1>4. SameBut(b, u, {"form", "forming"}) /\ u.form = NoAction
  BY <1>1 DEF SameBut, PanelFields
<1> HIDE DEF u
<1>5. SameBut(u, x, {"sheets"})
  BY <1>4 DEF SameBut, PanelFields
<1> HIDE DEF x
<1>6. \A y \in {u, x} :
        /\ SameBut(panel, y, IdleFields \cup FlagFields \cup {"out", "form", "act"})
        /\ y.out = panel.out \ {r} /\ y.form = NoAction /\ y.act = panel.act
        /\ y.sending = panel.sending /\ y.asking = panel.asking /\ y.filing = panel.filing
        /\ y.saving = panel.saving /\ y.clearing = panel.clearing
  BY <1>1, <1>4, <1>5 DEF SameBut, PanelFields, IdleFields, FlagFields
<1>7. \A y \in {u, x} : Staged(y) /\ Lowers(panel, y, r)
  BY <1>6 DEF PanelInv, Staged, Action, Lowers, Falls
<1>8. r.kind \notin {"save", "config"}
  BY DEF Forms
<1>9. Concludes(panel, u, conf) /\ Concludes(panel, x, conf)
  BY <1>6, <1>7, <1>8, IdleAnswer
<1>10. \A from, p : Safe(panel, Conclude(u, from, p), conf) /\ Safe(panel, Conclude(x, from, p), conf)
  BY <1>9, Zenon DEF Concludes
<1>11. r.kind = "canned" \/ r.kind = "wx" \/ r.kind = "loadsheet"
  BY DEF Forms
<1>12. Safe(panel, ConcludeForm(u, r), conf)
  BY <1>3, <1>10, <1>11, Zenon
<1> QED BY <1>2, <1>12 DEF b

LEMMA ClearanceAnsweredKeeps ==
  ASSUME PanelInv(panel, conf), NEW r \in panel.out, r.kind = "clearance", r.at = "answered"
  PROVE  Safe(panel, ClearanceAnswered(Without(panel, r), r), conf)
<1> DEFINE b == Without(panel, r)
           u == [b EXCEPT !.asking = FALSE, !.leg = NoLeg]
           kept == Keep(u.results, r)
           x == [u EXCEPT !.results = kept, !.shownLeg = r.id]
<1>1. SameBut(panel, b, {"out"}) /\ b.out = panel.out \ {r} /\ DOMAIN b = PanelFields /\ Staged(b)
  BY WithoutIsBase DEF Shaped
<1>2. ClearanceAnswered(b, r) =
        IF r.good /\ r.live THEN Conclude(x, "DL-CLEARANCE-CONFIRM", "DL-CLEARANCE")
        ELSE Conclude(u, "DL-CLEARANCE-CONFIRM", "DL-INDEX")
  BY Zenon DEF ClearanceAnswered
<1> HIDE DEF b
<1>3. SameBut(b, u, {"asking", "leg"})
  BY <1>1 DEF SameBut, PanelFields
<1> HIDE DEF u
<1>4. SameBut(panel, u, {"out", "asking", "leg"})
  BY <1>1, <1>3 DEF SameBut
<1>5. u.results = panel.results /\ DOMAIN u = PanelFields
  BY <1>4 DEF SameBut, PanelFields
<1>6. SameBut(u, x, {"results", "shownLeg"}) /\ x.results = Keep(panel.results, r)
  <2> HIDE DEF kept
  <2>1. SameBut(u, x, {"results", "shownLeg"}) /\ x.results = kept
    BY <1>5 DEF SameBut, PanelFields
  <2> QED BY <1>5, <2>1 DEF kept
<1> HIDE DEF x
<1>7. \A y \in {u, x} :
        /\ y.out = panel.out \ {r} /\ y.form = panel.form /\ y.act = panel.act
        /\ y.forming = panel.forming /\ y.sending = panel.sending /\ y.filing = panel.filing
        /\ y.saving = panel.saving /\ y.clearing = panel.clearing
        /\ y.texts = panel.texts /\ y.status = panel.status /\ y.key = panel.key
        /\ y.cache = panel.cache /\ y.queued = panel.queued /\ y.outlived = panel.outlived /\ DOMAIN y = PanelFields
  BY <1>1, <1>3, <1>6 DEF SameBut, PanelFields
<1>8. \A y \in {u, x} : Staged(y) /\ Lowers(panel, y, r)
  BY <1>7 DEF PanelInv, Staged, Lowers, Falls
<1>9. Concludes(panel, u, conf)
  <2>1. SameBut(panel, u, IdleFields \cup FlagFields \cup {"out", "form", "act"})
    BY <1>4 DEF SameBut, IdleFields, FlagFields
  <2> QED BY <1>7, <1>8, <2>1, IdleAnswer
<1>10. ASSUME r.good /\ r.live PROVE Concludes(panel, x, conf)
  <2>1. Lists(x)
    <3>1. \E S : x.results \in Seq(S)
      <4>1. \E S : panel.results \in Seq(S)
        BY Zenon DEF PanelInv, Lists
      <4>2. \E S : Keep(panel.results, r) \in Seq(S)
        BY <4>1, KeepAgrees, Zenon
      <4> QED BY <1>6, <4>2, Zenon
    <3> QED BY <1>7, <3>1 DEF PanelInv, Lists
  <2>2. DOMAIN x.status = StatusFields
    BY <1>7 DEF PanelInv, Shaped
  <2>3. ASSUME Agreed(panel, conf) PROVE KeptAgree(x, conf)
    <3>1. r.cfg \in Of(panel, conf)
      BY <1>10, <2>3 DEF Agreed, RequestsAgree, Keeps
    <3>2. \A i \in DOMAIN panel.results : panel.results[i].cfg \in Of(panel, conf)
      BY <2>3 DEF Agreed, KeptAgree
    <3>3. \A i \in DOMAIN x.results : x.results[i].cfg \in Of(panel, conf)
      BY <1>6, <3>1, <3>2, KeepAgrees DEF PanelInv, Lists
    <3> QED BY <1>7, <2>3, <3>3 DEF Agreed, KeptAgree, Of, Rightful
  <2>4. r.kind \notin {"save", "config"}
    OBVIOUS
  <2>5. Current(panel, conf) => Current(x, conf)
    BY <1>7, <2>3, <2>4, CurrentDrops
  <2> QED BY <1>7, <1>8, <2>1, <2>2, <2>5, AnswerSafe
<1>11. Safe(panel, ClearanceAnswered(b, r), conf)
  BY <1>2, <1>9, <1>10, Zenon DEF Concludes
<1> QED BY <1>11 DEF b

LEMMA ActionAnsweredKeeps ==
  ASSUME PanelInv(panel, conf), NEW r \in panel.out, r.kind \in Acts
  PROVE  Safe(panel, ActionAnswered(Without(panel, r), r), conf)
<1> DEFINE b == Without(panel, r)
           u == [b EXCEPT !.sending = FALSE, !.sendingAction = NoAction]
           status == IF r.live THEN NoStatus ELSE u.status
           x == [u EXCEPT !.act = NoAction, !.status = status]
<1>1. SameBut(panel, b, {"out"}) /\ b.out = panel.out \ {r} /\ DOMAIN b = PanelFields /\ Staged(b)
  BY WithoutIsBase DEF Shaped
<1>2. ActionAnswered(b, r) = IF ~r.good THEN Repaint(u) ELSE Conclude(x, "DL-SI-CONFIRM", "DL-SI")
  BY Zenon DEF ActionAnswered
<1> HIDE DEF b
<1>3. SameBut(b, u, {"sending", "sendingAction"})
  BY <1>1 DEF SameBut, PanelFields
<1> HIDE DEF u
<1>4. SameBut(panel, u, {"out", "sending", "sendingAction"}) /\ DOMAIN u = PanelFields
  BY <1>1, <1>3 DEF SameBut
<1>5. SameBut(u, x, {"act", "status"}) /\ x.status = status /\ x.act = NoAction
  <2> HIDE DEF status
  <2> QED BY <1>4 DEF SameBut, PanelFields
<1>6. x.status \in {NoStatus, panel.status}
  <2>1. u.status = panel.status
    BY <1>4 DEF SameBut, PanelFields
  <2> QED BY <1>5, <2>1
<1> HIDE DEF x, status
<1>7. \A y \in {u, x} :
        /\ y.out = panel.out \ {r} /\ y.form = panel.form
        /\ y.forming = panel.forming /\ y.asking = panel.asking /\ y.filing = panel.filing
        /\ y.saving = panel.saving /\ y.clearing = panel.clearing
        /\ y.results = panel.results /\ y.texts = panel.texts /\ y.key = panel.key
        /\ y.cache = panel.cache /\ y.queued = panel.queued /\ y.outlived = panel.outlived /\ DOMAIN y = PanelFields
  BY <1>1, <1>3, <1>5 DEF SameBut, PanelFields
<1>8. u.act = panel.act
  BY <1>4 DEF SameBut, PanelFields
<1>9. \A y \in {u, x} : Staged(y) /\ Lowers(panel, y, r)
  BY <1>5, <1>7, <1>8 DEF PanelInv, Staged, Action, Lowers, Falls
<1>10. r.kind \notin {"save", "config"}
  BY DEF Acts
<1>11. Concludes(panel, u, conf)
  <2>1. SameBut(panel, u, IdleFields \cup FlagFields \cup {"out", "form", "act"})
    BY <1>4 DEF SameBut, IdleFields, FlagFields
  <2> QED BY <1>7, <1>9, <1>10, <2>1, IdleAnswer
<1>12. Concludes(panel, x, conf)
  <2>1. Lists(x)
    BY <1>7 DEF PanelInv, Lists
  <2>2. DOMAIN x.status = StatusFields
    <3>1. DOMAIN NoStatus = StatusFields
      BY DEF NoStatus, StatusFields
    <3> QED BY <1>6, <3>1 DEF PanelInv, Shaped
  <2>3. ASSUME Agreed(panel, conf) PROVE KeptAgree(x, conf)
    BY <1>6, <1>7, <2>3 DEF Agreed, KeptAgree, Of, Rightful
  <2>4. Current(panel, conf) => Current(x, conf)
    BY <1>7, <1>10, <2>3, CurrentDrops
  <2> QED BY <1>7, <1>9, <2>1, <2>2, <2>4, AnswerSafe
<1>13. Safe(panel, ActionAnswered(b, r), conf)
  BY <1>2, <1>11, <1>12, Zenon DEF Concludes
<1> QED BY <1>13 DEF b

LEMMA PdcAnsweredKeeps ==
  ASSUME PanelInv(panel, conf), NEW r \in panel.out, r.kind = "pdc", r.at = "answered"
  PROVE  Safe(panel, PdcAnswered(Without(panel, r), r), conf)
<1> DEFINE b == Without(panel, r)
           u == [b EXCEPT !.sending = FALSE, !.sendingLeg = NoLeg]
           kept == IF r.live THEN Keep(u.texts, r) ELSE u.texts
           x == [u EXCEPT !.pdc = NoLeg, !.texts = kept]
<1>1. SameBut(panel, b, {"out"}) /\ b.out = panel.out \ {r} /\ DOMAIN b = PanelFields /\ Staged(b)
  BY WithoutIsBase DEF Shaped
<1>2. PdcAnswered(b, r) = IF ~r.good THEN Repaint(u) ELSE Conclude(x, "DL-SI-PDC", "DL-CLEARANCE")
  BY Zenon DEF PdcAnswered
<1> HIDE DEF b
<1>3. SameBut(b, u, {"sending", "sendingLeg"})
  BY <1>1 DEF SameBut, PanelFields
<1> HIDE DEF u
<1>4. SameBut(panel, u, {"out", "sending", "sendingLeg"}) /\ DOMAIN u = PanelFields
  BY <1>1, <1>3 DEF SameBut
<1>5. u.texts = panel.texts
  BY <1>4 DEF SameBut, PanelFields
<1>6. SameBut(u, x, {"pdc", "texts"}) /\ x.texts = kept
  <2> HIDE DEF kept
  <2> QED BY <1>4 DEF SameBut, PanelFields
<1>7. (~r.live /\ x.texts = panel.texts) \/ (r.live /\ x.texts = Keep(panel.texts, r))
  BY <1>5, <1>6
<1> HIDE DEF x, kept
<1>8. \A y \in {u, x} :
        /\ y.out = panel.out \ {r} /\ y.form = panel.form /\ y.act = panel.act
        /\ y.forming = panel.forming /\ y.asking = panel.asking /\ y.filing = panel.filing
        /\ y.saving = panel.saving /\ y.clearing = panel.clearing
        /\ y.results = panel.results /\ y.status = panel.status /\ y.key = panel.key
        /\ y.cache = panel.cache /\ y.queued = panel.queued /\ y.outlived = panel.outlived /\ DOMAIN y = PanelFields
  BY <1>1, <1>3, <1>6 DEF SameBut, PanelFields
<1>9. \A y \in {u, x} : Staged(y) /\ Lowers(panel, y, r)
  BY <1>8 DEF PanelInv, Staged, Lowers, Falls
<1>10. r.kind \notin {"save", "config"}
  OBVIOUS
<1>11. Concludes(panel, u, conf)
  <2>1. SameBut(panel, u, IdleFields \cup FlagFields \cup {"out", "form", "act"})
    BY <1>4 DEF SameBut, IdleFields, FlagFields
  <2> QED BY <1>8, <1>9, <1>10, <2>1, IdleAnswer
<1>12. ASSUME r.good PROVE Concludes(panel, x, conf)
  <2>1. \E S : panel.texts \in Seq(S)
    BY Zenon DEF PanelInv, Lists
  <2>2. \E S : x.texts \in Seq(S)
    <3>1. \E S : Keep(panel.texts, r) \in Seq(S)
      BY <2>1, KeepAgrees, Zenon
    <3>2. CASE ~r.live
      BY <1>7, <2>1, <3>2, Zenon
    <3>3. CASE r.live
      BY <1>7, <3>1, <3>3, Zenon
    <3> QED BY <3>2, <3>3
  <2>3. Lists(x)
    BY <1>8, <2>2 DEF PanelInv, Lists
  <2>4. DOMAIN x.status = StatusFields
    BY <1>8 DEF PanelInv, Shaped
  <2>5. ASSUME Agreed(panel, conf) PROVE KeptAgree(x, conf)
    <3>1. r.live => r.cfg \in Of(panel, conf)
      BY <1>12, <2>5 DEF Agreed, RequestsAgree, Keeps
    <3>2. \A i \in DOMAIN panel.texts : panel.texts[i].cfg \in Of(panel, conf)
      BY <2>5 DEF Agreed, KeptAgree
    <3>3. \A i \in DOMAIN x.texts : x.texts[i].cfg \in Of(panel, conf)
      <4>1. CASE ~r.live
        BY <1>7, <3>2, <4>1, Zenon
      <4>2. CASE r.live
        <5>1. \A i \in DOMAIN Keep(panel.texts, r) : Keep(panel.texts, r)[i].cfg \in Of(panel, conf)
          BY <2>1, <3>1, <3>2, <4>2, KeepAgrees
        <5> QED BY <1>7, <4>2, <5>1, Zenon
      <4> QED BY <4>1, <4>2
    <3> QED BY <1>8, <2>5, <3>3 DEF Agreed, KeptAgree, Of, Rightful
  <2>6. Current(panel, conf) => Current(x, conf)
    BY <1>8, <1>10, <2>5, CurrentDrops
  <2> QED BY <1>8, <1>9, <2>3, <2>4, <2>6, AnswerSafe
<1>13. Safe(panel, PdcAnswered(b, r), conf)
  BY <1>2, <1>11, <1>12, Zenon DEF Concludes
<1> QED BY <1>13 DEF b

LEMMA StatusAnsweredKeeps ==
  ASSUME PanelInv(panel, conf), NEW r \in panel.out, r.kind = "status", r.at = "answered"
  PROVE  Safe(panel, StatusAnswered(Without(panel, r), r), conf)
<1> DEFINE b == Without(panel, r)
           read == [id |-> r.id, cfg |-> r.cfg, stale |-> r.stale]
           status == IF r.good THEN read ELSE b.status
           x == [b EXCEPT !.reading = FALSE, !.status = status]
<1>1. SameBut(panel, b, {"out"}) /\ b.out = panel.out \ {r} /\ DOMAIN b = PanelFields /\ Staged(b)
  BY WithoutIsBase DEF Shaped
<1>2. StatusAnswered(b, r) = IF ~r.live THEN b ELSE Repaint(x)
  BY Zenon DEF StatusAnswered
<1> HIDE DEF b
<1>3. SameBut(b, x, {"reading", "status"}) /\ x.status = status
  <2> HIDE DEF status
  <2> QED BY <1>1 DEF SameBut, PanelFields
<1>4. (x.status = read /\ r.good) \/ x.status = panel.status
  <2>1. b.status = panel.status
    BY <1>1 DEF SameBut, PanelFields
  <2> HIDE DEF read
  <2> QED BY <1>3, <2>1
<1>5. read.id = r.id /\ read.cfg = r.cfg /\ DOMAIN read = StatusFields
  BY DEF StatusFields
<1> HIDE DEF x, status, read
<1>6. \A y \in {b, x} :
        /\ y.out = panel.out \ {r} /\ y.form = panel.form /\ y.act = panel.act
        /\ y.forming = panel.forming /\ y.asking = panel.asking /\ y.filing = panel.filing
        /\ y.saving = panel.saving /\ y.clearing = panel.clearing /\ y.sending = panel.sending
        /\ y.results = panel.results /\ y.texts = panel.texts /\ y.key = panel.key
        /\ y.cache = panel.cache /\ y.queued = panel.queued /\ y.outlived = panel.outlived /\ DOMAIN y = PanelFields
  BY <1>1, <1>3 DEF SameBut, PanelFields
<1>7. \A y \in {b, x} : Staged(y) /\ Lowers(panel, y, r)
  BY <1>6 DEF PanelInv, Staged, Lowers, Falls
<1>8. r.kind \notin {"save", "config"}
  OBVIOUS
<1>9. Concludes(panel, b, conf)
  <2>1. SameBut(panel, b, IdleFields \cup FlagFields \cup {"out", "form", "act"})
    BY <1>1 DEF SameBut, IdleFields, FlagFields
  <2> QED BY <1>6, <1>7, <1>8, <2>1, IdleAnswer
<1>10. ASSUME r.live PROVE Concludes(panel, x, conf)
  <2>1. Lists(x)
    BY <1>6 DEF PanelInv, Lists
  <2>2. DOMAIN x.status = StatusFields
    BY <1>4, <1>5 DEF PanelInv, Shaped
  <2>3. ASSUME Agreed(panel, conf) PROVE KeptAgree(x, conf)
    <3>1. r.good => r.cfg \in Of(panel, conf) /\ r.id = panel.key
      BY <1>10, <2>3 DEF Agreed, RequestsAgree, Keeps
    <3>2. x.status # NoStatus => x.status.cfg \in Of(x, conf) /\ x.status.id = x.key
      BY <1>4, <1>5, <1>6, <2>3, <3>1 DEF Agreed, KeptAgree, Of, Rightful
    <3> QED BY <1>6, <2>3, <3>2 DEF Agreed, KeptAgree, Of, Rightful
  <2>4. Current(panel, conf) => Current(x, conf)
    BY <1>6, <1>8, <2>3, CurrentDrops
  <2> QED BY <1>6, <1>7, <2>1, <2>2, <2>4, AnswerSafe
<1>11. Safe(panel, StatusAnswered(b, r), conf)
  BY <1>2, <1>9, <1>10, Zenon DEF Concludes
<1> QED BY <1>11 DEF b

LEMMA ListAnsweredKeeps ==
  ASSUME PanelInv(panel, conf), NEW r \in panel.out, r.kind = "list"
  PROVE  Safe(panel, ListAnswered(Without(panel, r), r), conf)
<1> DEFINE b == Without(panel, r)
           list == IF r.good THEN "ready" ELSE "error"
           x == [b EXCEPT !.list = list]
<1>1. SameBut(panel, b, {"out"}) /\ b.out = panel.out \ {r} /\ DOMAIN b = PanelFields /\ Staged(b)
  BY WithoutIsBase DEF Shaped
<1>2. ListAnswered(b, r) = IF ~r.live THEN b ELSE Repaint(x)
  BY Zenon DEF ListAnswered
<1> HIDE DEF b, list
<1>3. SameBut(b, x, {"list"})
  BY <1>1 DEF SameBut, PanelFields
<1> HIDE DEF x
<1>4. \A y \in {b, x} :
        /\ SameBut(panel, y, IdleFields \cup FlagFields \cup {"out", "form", "act"})
        /\ y.out = panel.out \ {r} /\ y.form = panel.form /\ y.act = panel.act
        /\ y.forming = panel.forming /\ y.asking = panel.asking /\ y.filing = panel.filing
        /\ y.saving = panel.saving /\ y.clearing = panel.clearing /\ y.sending = panel.sending
  BY <1>1, <1>3 DEF SameBut, PanelFields, IdleFields, FlagFields
<1>5. \A y \in {b, x} : Staged(y) /\ Lowers(panel, y, r)
  BY <1>4 DEF PanelInv, Staged, Lowers, Falls
<1>6. r.kind \notin {"save", "config"}
  OBVIOUS
<1>7. Concludes(panel, b, conf) /\ Concludes(panel, x, conf)
  BY <1>4, <1>5, <1>6, IdleAnswer
<1>8. Safe(panel, ListAnswered(b, r), conf)
  BY <1>2, <1>7, Zenon DEF Concludes
<1> QED BY <1>8 DEF b

LEMMA PrefileAnsweredKeeps ==
  ASSUME PanelInv(panel, conf), NEW r \in panel.out, r.kind = "prefile",
         NEW y \in PrefileAnswered(Without(panel, r), r)
  PROVE  Safe(panel, y, conf)
<1> DEFINE b == Without(panel, r)
           u == [b EXCEPT !.filing = FALSE]
           x == [u EXCEPT !.filed = TRUE]
           z(s) == [u EXCEPT !.settings = s]
<1>1. SameBut(panel, b, {"out"}) /\ b.out = panel.out \ {r} /\ DOMAIN b = PanelFields /\ Staged(b)
  BY WithoutIsBase DEF Shaped
<1>2. \/ y = Conclude(x, "FPLN-CONFIRM", "FPLN-RESULT")
      \/ \E s \in {"not set", panel.settings} : y = Conclude(z(s), "FPLN-CONFIRM", "FPLN")
  BY Zenon DEF PrefileAnswered
<1> HIDE DEF b
<1>3. SameBut(b, u, {"filing"})
  BY <1>1 DEF SameBut, PanelFields
<1> HIDE DEF u
<1>4. SameBut(u, x, {"filed"}) /\ \A s : SameBut(u, z(s), {"settings"})
  BY <1>3 DEF SameBut, PanelFields
<1> HIDE DEF x, z
<1>5. ASSUME NEW q, SameBut(u, q, {"filed", "settings"}) PROVE Concludes(panel, q, conf)
  <2>1. /\ SameBut(panel, q, IdleFields \cup FlagFields \cup {"out", "form", "act"})
        /\ q.out = panel.out \ {r} /\ q.form = panel.form /\ q.act = panel.act
        /\ q.forming = panel.forming /\ q.asking = panel.asking /\ q.sending = panel.sending
        /\ q.saving = panel.saving /\ q.clearing = panel.clearing
    BY <1>1, <1>3, <1>5 DEF SameBut, PanelFields, IdleFields, FlagFields
  <2>2. Staged(q) /\ Lowers(panel, q, r)
    BY <2>1 DEF PanelInv, Staged, Lowers, Falls
  <2>3. r.kind \notin {"save", "config"}
    OBVIOUS
  <2> QED BY <2>1, <2>2, <2>3, IdleAnswer
<1>6. SameBut(u, x, {"filed", "settings"}) /\ \A s : SameBut(u, z(s), {"filed", "settings"})
  BY <1>4 DEF SameBut
<1>7. Concludes(panel, x, conf) /\ \A s : Concludes(panel, z(s), conf)
  BY <1>5, <1>6
<1> QED BY <1>2, <1>7, Zenon DEF Concludes

LEMMA SettingsAnsweredKeeps ==
  ASSUME PanelInv(panel, conf), NEW r \in panel.out, r.kind = "settings",
         NEW y \in SettingsAnswered(Without(panel, r), r)
  PROVE  Safe(panel, y, conf)
<1> DEFINE b == Without(panel, r)
           z(s) == [b EXCEPT !.settings = s]
<1>1. SameBut(panel, b, {"out"}) /\ b.out = panel.out \ {r} /\ DOMAIN b = PanelFields /\ Staged(b)
  BY WithoutIsBase DEF Shaped
<1>2. PICK s : y = z(s)
  BY Zenon DEF SettingsAnswered
<1> HIDE DEF b
<1>3. SameBut(b, z(s), {"settings"})
  BY <1>1 DEF SameBut, PanelFields
<1> HIDE DEF z
<1>4. /\ SameBut(panel, y, IdleFields \cup FlagFields \cup {"out", "form", "act"})
      /\ y.out = panel.out \ {r} /\ y.form = panel.form /\ y.act = panel.act
      /\ y.forming = panel.forming /\ y.asking = panel.asking /\ y.sending = panel.sending
      /\ y.saving = panel.saving /\ y.clearing = panel.clearing /\ y.filing = panel.filing
  BY <1>1, <1>2, <1>3 DEF SameBut, PanelFields, IdleFields, FlagFields
<1>5. Staged(y) /\ Lowers(panel, y, r)
  BY <1>4 DEF PanelInv, Staged, Lowers, Falls
<1>6. r.kind \notin {"save", "config"}
  OBVIOUS
<1> QED BY <1>4, <1>5, <1>6, IdleAnswer DEF Concludes

LEMMA ClearAnsweredKeeps ==
  ASSUME PanelInv(panel, conf), NEW r \in panel.out, r.kind = "clear"
  PROVE  Safe(panel, ClearAnswered(Without(panel, r), r), conf)
<1> DEFINE b == Without(panel, r)
           y == [b EXCEPT !.clearing = b.clearing \ {r.on}]
<1>1. SameBut(panel, b, {"out"}) /\ b.out = panel.out \ {r} /\ DOMAIN b = PanelFields /\ Staged(b)
  BY WithoutIsBase DEF Shaped
<1>2. ClearAnswered(b, r) = y
  BY Zenon DEF ClearAnswered
<1> HIDE DEF b
<1>3. SameBut(b, y, {"clearing"}) /\ y.clearing = b.clearing \ {r.on}
  BY <1>1 DEF SameBut, PanelFields
<1> HIDE DEF y
<1>4. /\ SameBut(panel, y, IdleFields \cup FlagFields \cup {"out", "form", "act"})
      /\ y.out = panel.out \ {r} /\ y.form = panel.form /\ y.act = panel.act
      /\ y.forming = panel.forming /\ y.asking = panel.asking /\ y.sending = panel.sending
      /\ y.saving = panel.saving /\ y.filing = panel.filing
      /\ y.clearing = panel.clearing \ {r.on}
  BY <1>1, <1>3 DEF SameBut, PanelFields, IdleFields, FlagFields
<1>5. Staged(y) /\ Lowers(panel, y, r)
  BY <1>4 DEF PanelInv, Staged, Lowers, Falls
<1>6. r.kind \notin {"save", "config"}
  OBVIOUS
<1>7. Safe(panel, y, conf)
  BY <1>4, <1>5, <1>6, IdleAnswer DEF Concludes
<1> QED BY <1>2, <1>7 DEF b

\* While a save or a read of the configuration is out, it is the only one.
LEMMA LoneSave ==
  ASSUME NEW w, NEW c, PanelInv(w, c), NEW r \in w.out, r.kind \in {"save", "config"}
  PROVE  /\ w.saving /\ \A q \in w.out : q.kind \in {"save", "config"} => q = r
         /\ ~(GoodSave(r) /\ Changes(w, r)) => ~Forgetting(w)
         /\ Current(w, c) /\ ~(GoodSave(r) /\ Changes(w, r)) => Agreed(w, c)
<1>1. w.saving /\ \A q \in w.out : q.kind \in {"save", "config"} => q = r
  BY DEF PanelInv, Single, Lone
<1>2. \A q \in w.out : GoodSave(q) => q = r
  BY <1>1 DEF GoodSave
<1>3. ~(GoodSave(r) /\ Changes(w, r)) => ~Forgetting(w)
  BY <1>2, Zenon DEF Forgetting
<1> QED BY <1>1, <1>3, Zenon DEF Current

LEMMA ConfigReadKeeps ==
  ASSUME PanelInv(panel, conf), NEW r \in panel.out, r.kind = "config", r.at = "answered"
  PROVE  Safe(panel, ConfigRead(Without(panel, r), r), conf)
<1> DEFINE b == Without(panel, r)
           cache == IF r.good THEN r.cfg.url ELSE ""
           x == [b EXCEPT !.saving = FALSE, !.cache = cache]
<1>1. SameBut(panel, b, {"out"}) /\ b.out = panel.out \ {r} /\ DOMAIN b = PanelFields /\ Staged(b)
  BY WithoutIsBase DEF Shaped
<1>2. ConfigRead(b, r) = x
  BY Zenon DEF ConfigRead
<1>3. cache = "" \/ cache = r.cfg.url
  BY Zenon
<1> HIDE DEF b, cache
<1>4. SameBut(b, x, {"saving", "cache"}) /\ x.cache = cache
  BY <1>1 DEF SameBut, PanelFields
<1> HIDE DEF x
<1>5. /\ x.out = panel.out \ {r} /\ x.form = panel.form /\ x.act = panel.act
      /\ x.forming = panel.forming /\ x.asking = panel.asking /\ x.filing = panel.filing
      /\ x.clearing = panel.clearing /\ x.sending = panel.sending
      /\ x.results = panel.results /\ x.texts = panel.texts /\ x.key = panel.key
      /\ x.status = panel.status /\ x.queued = panel.queued /\ x.outlived = panel.outlived /\ DOMAIN x = PanelFields
  BY <1>1, <1>4 DEF SameBut, PanelFields
<1>6. Staged(x) /\ Lowers(panel, x, r) /\ Lists(x)
  BY <1>5 DEF PanelInv, Staged, Lists, Lowers, Falls
<1>7. DOMAIN x.status = StatusFields
  BY <1>5 DEF PanelInv, Shaped
<1>8. ~GoodSave(r)
  BY DEF GoodSave
<1>9. Current(panel, conf) => Agreed(panel, conf)
  BY <1>8, LoneSave
<1>10. ASSUME Agreed(panel, conf) PROVE Agreed(x, conf)
  <2>1. KeptAgree(x, conf)
    BY <1>5, <1>10 DEF Agreed, KeptAgree, Of, Rightful
  <2>2. RequestsAgree(x, conf)
    BY <1>5, <1>10 DEF Agreed, RequestsAgree, Of, Rightful
  <2>3. r.cfg = conf.file
    BY <1>10 DEF Agreed, RequestsAgree
  <2>4. CacheAgrees(x, conf)
    BY <1>3, <1>4, <2>3, Zenon DEF CacheAgrees
  <2> QED BY <1>5, <1>10, <2>1, <2>2, <2>4, Zenon DEF Agreed, Of, Rightful
<1>11. Current(panel, conf) => Current(x, conf)
  BY <1>5, <1>9, <1>10 DEF Current, InForce, Of, Rightful
<1>12. Safe(panel, x, conf)
  BY <1>5, <1>6, <1>7, <1>11, AnswerSafe DEF Concludes
<1> QED BY <1>2, <1>12 DEF b

\* What a save that changes the server makes old is dropped, and what is on
\* its way to be kept is dead.
Dead(g, out) ==
  \A q \in out :
    /\ g[q].kind = q.kind /\ g[q].on = q.on /\ g[q].n = q.n /\ g[q].id = q.id
    /\ g[q].at = q.at /\ g[q].cfg = q.cfg /\ g[q].good = q.good /\ DOMAIN g[q] = RequestFields
ForgottenFields == {"out", "results", "shownLeg", "key", "status", "reading", "texts", "act", "pdc"}
LEMMA SupersedeMaps ==
  ASSUME NEW w, Shaped(w), NEW kinds
  PROVE  \E g : /\ Dead(g, w.out) /\ Supersede(w, kinds).out = {g[q] : q \in w.out}
                /\ \A q \in w.out : (q.kind \in kinds => ~g[q].live) /\ (q.kind \notin kinds => g[q] = q)
<1> DEFINE dead(q) == IF q.kind \in kinds THEN [q EXCEPT !.live = FALSE] ELSE q
           g == [q \in w.out |-> dead(q)]
<1>1. Supersede(w, kinds).out = {g[q] : q \in w.out}
  <2>1. Supersede(w, kinds).out = {dead(q) : q \in w.out}
    BY SupersedeKills
  <2> HIDE DEF dead
  <2> QED BY <2>1
<1>2. \A q \in w.out : DOMAIN q = RequestFields
  BY DEF Shaped
<1>3. Dead(g, w.out)
  BY <1>2 DEF Dead, RequestFields
<1>4. \A q \in w.out : (q.kind \in kinds => ~g[q].live) /\ (q.kind \notin kinds => g[q] = q)
  BY <1>2 DEF RequestFields
<1> HIDE DEF g
<1> QED BY <1>1, <1>3, <1>4

LEMMA ForgetForgets ==
  ASSUME NEW w, Shaped(w)
  PROVE  /\ SameBut(w, Forget(w), ForgottenFields)
         /\ Forget(w).results = << >> /\ Forget(w).texts = << >> /\ Forget(w).status = NoStatus
         /\ Forget(w).act = NoAction
         /\ \E g : /\ Dead(g, w.out) /\ Forget(w).out = {g[q] : q \in w.out}
                   /\ \A q \in w.out : q.kind \in Keeps => ~g[q].live
<1> DEFINE first == Supersede(w, {"clearance"})
           clearances == [first EXCEPT !.results = << >>, !.shownLeg = NoLeg]
           kinds == Acts \cup {"pdc", "status"}
           second == Supersede(clearances, kinds)
           last == [second EXCEPT !.key = "", !.status = NoStatus, !.reading = FALSE, !.texts = << >>,
                                  !.act = NoAction, !.pdc = NoLeg]
<1>1. Forget(w) = last
  BY Zenon DEF Forget, ForgetClearances, ForgetSayIntentions
<1>2. Shaped(first) /\ SameBut(w, first, {"out"})
  BY SupersedeKills
<1>3. PICK g1 : /\ Dead(g1, w.out) /\ first.out = {g1[q] : q \in w.out}
                /\ \A q \in w.out : q.kind = "clearance" => ~g1[q].live
  <2> HIDE DEF first
  <2>1. \E g : /\ Dead(g, w.out) /\ first.out = {g[q] : q \in w.out}
               /\ \A q \in w.out : (q.kind \in {"clearance"} => ~g[q].live) /\ (q.kind \notin {"clearance"} => g[q] = q)
    BY SupersedeMaps DEF first
  <2> QED BY <2>1
<1> HIDE DEF first
<1>4. SameBut(first, clearances, {"results", "shownLeg"}) /\ clearances.results = << >>
  BY <1>2 DEF SameBut, PanelFields
<1>5. clearances.out = first.out /\ clearances.status = w.status
  BY <1>2, <1>4 DEF SameBut, PanelFields
<1>6. Shaped(clearances)
  BY <1>2, <1>4, <1>5 DEF Shaped, SameBut, PanelFields
<1> HIDE DEF clearances
<1>7. Shaped(second) /\ SameBut(clearances, second, {"out"})
  BY <1>6, SupersedeKills
<1>8. PICK g2 : /\ Dead(g2, clearances.out) /\ second.out = {g2[q] : q \in clearances.out}
                /\ \A q \in clearances.out : (q.kind \in kinds => ~g2[q].live) /\ (q.kind \notin kinds => g2[q] = q)
  BY <1>6, SupersedeMaps
<1> HIDE DEF second, kinds
<1>9. SameBut(second, last, {"key", "status", "reading", "texts", "act", "pdc"})
      /\ last.status = NoStatus /\ last.texts = << >> /\ last.act = NoAction
  BY <1>7 DEF SameBut, PanelFields
<1> HIDE DEF last
<1>10. last.out = second.out /\ last.results = << >>
  BY <1>4, <1>7, <1>9 DEF SameBut, PanelFields
<1>11. SameBut(w, last, ForgottenFields)
  BY <1>2, <1>4, <1>7, <1>9 DEF SameBut, ForgottenFields
<1> DEFINE g == [q \in w.out |-> g2[g1[q]]]
<1>12. \A q \in w.out : g1[q] \in clearances.out /\ g[q] = g2[g1[q]]
  BY <1>3, <1>5
<1> HIDE DEF g
<1>13. last.out = {g[q] : q \in w.out}
  <2>1. last.out = {g2[q] : q \in clearances.out} /\ clearances.out = {g1[q] : q \in w.out}
    BY <1>3, <1>5, <1>8, <1>10
  <2>2. ASSUME NEW e \in last.out PROVE \E q \in w.out : e = g[q]
    BY <1>12, <2>1
  <2>3. ASSUME NEW q \in w.out PROVE g[q] \in last.out
    BY <1>12, <2>1
  <2> QED BY <2>2, <2>3
<1>14. Dead(g, w.out)
  BY <1>3, <1>8, <1>12 DEF Dead
<1>15. ASSUME NEW q \in w.out, q.kind \in Keeps PROVE ~g[q].live
  <2>1. g1[q].kind = q.kind
    BY <1>3 DEF Dead
  <2>2. CASE q.kind = "clearance"
    <3>1. q.kind \notin kinds
      BY <2>2 DEF kinds, Acts
    <3> QED BY <1>3, <1>8, <1>12, <2>1, <2>2, <3>1
  <2>3. CASE q.kind # "clearance"
    <3>1. q.kind \in kinds
      BY <1>15, <2>3 DEF kinds, Keeps
    <3> QED BY <1>8, <1>12, <2>1, <3>1
  <2> QED BY <2>2, <2>3
<1> QED BY <1>1, <1>9, <1>10, <1>11, <1>13, <1>14, <1>15

\* The memory once a save has been told as done: what is known is kept or
\* forgotten, and the configuration is read anew.
LEMMA KnownAfterSave ==
  ASSUME NEW w, NEW c, PanelInv(w, c), NEW r \in w.out, r.kind = "save", r.at = "answered", r.good
  PROVE  LET b == Without(w, r)
             known == IF Changes(b, r) THEN Forget(b) ELSE b
         IN  /\ Shaped(known) /\ Staged(known) /\ Lists(known)
             /\ SameBut(w, known, ForgottenFields)
             /\ \E g : Dead(g, b.out) /\ known.out = {g[q] : q \in b.out}
             /\ known.outlived = w.outlived
             /\ IF Changes(b, r)
                THEN /\ known.results = << >> /\ known.texts = << >> /\ known.status = NoStatus
                     /\ \A q \in known.out : q.kind \notin {"save", "config"} /\ (q.kind \in Keeps => ~q.live)
                ELSE Current(w, c) => KeptAgree(known, c) /\ RequestsAgree(known, c)
<1> DEFINE b == Without(w, r)
           known == IF Changes(b, r) THEN Forget(b) ELSE b
<1>1. SameBut(w, b, {"out"}) /\ b.out = w.out \ {r} /\ Shaped(b) /\ Staged(b)
  BY WithoutIsBase
<1>2. \A q \in b.out : q.kind \notin {"save", "config"}
  BY <1>1, LoneSave
<1>3. b.cache = w.cache
  BY <1>1 DEF SameBut, PanelFields
<1>4. Changes(b, r) <=> Changes(w, r)
  BY <1>3, Zenon DEF Changes
<1> HIDE DEF b
<1>5. CASE Changes(b, r)
  <2>1. known = Forget(b)
    BY <1>5
  <2>2. PICK g : /\ Dead(g, b.out) /\ known.out = {g[q] : q \in b.out}
                 /\ \A q \in b.out : q.kind \in Keeps => ~g[q].live
    BY <1>1, <2>1, ForgetForgets
  <2>3. /\ SameBut(b, known, ForgottenFields)
        /\ known.results = << >> /\ known.texts = << >> /\ known.status = NoStatus /\ known.act = NoAction
    BY <1>1, <2>1, ForgetForgets
  <2> HIDE DEF known
  <2>4. SameBut(w, known, ForgottenFields)
    BY <1>1, <2>3 DEF SameBut, ForgottenFields
  <2>5. Shaped(known)
    <3>1. DOMAIN NoStatus = StatusFields
      BY DEF NoStatus, StatusFields
    <3> QED BY <2>2, <2>3, <2>4, <3>1 DEF Shaped, SameBut, Dead
  <2>6. known.form = b.form
    BY <2>3 DEF SameBut, ForgottenFields, PanelFields
  <2>7. Staged(known)
    BY <1>1, <2>3, <2>6 DEF Staged, Action
  <2>8. Lists(known)
    <3>1. << >> \in Seq({})
      OBVIOUS
    <3> QED BY <2>3, <3>1, Zenon DEF Lists
  <2>9. \A q \in known.out : q.kind \notin {"save", "config"} /\ (q.kind \in Keeps => ~q.live)
    BY <1>2, <2>2 DEF Dead
  <2>10. known.outlived = w.outlived
    BY <2>4 DEF SameBut, ForgottenFields, PanelFields
  <2> QED BY <1>5, <2>2, <2>3, <2>4, <2>5, <2>7, <2>8, <2>9, <2>10 DEF known, b
<1>6. CASE ~Changes(b, r)
  <2>1. known = b
    BY <1>6
  <2> HIDE DEF known
  <2>2. SameBut(w, known, ForgottenFields)
    BY <1>1, <2>1 DEF SameBut, ForgottenFields
  <2> DEFINE g == [q \in b.out |-> q]
  <2>3. Dead(g, b.out) /\ known.out = {g[q] : q \in b.out}
    <3>1. Dead(g, b.out)
      BY <1>1 DEF Dead, Shaped
    <3>2. b.out = {g[q] : q \in b.out}
      OBVIOUS
    <3> QED BY <2>1, <3>1, <3>2
  <2> HIDE DEF g
  <2>4. /\ known.results = w.results /\ known.texts = w.texts /\ known.status = w.status
        /\ known.key = w.key /\ known.outlived = w.outlived
    BY <1>1, <2>1 DEF SameBut, PanelFields
  <2>5. Lists(known)
    BY <2>4 DEF PanelInv, Lists
  <2>6. Current(w, c) => Agreed(w, c)
    BY <1>4, <1>6, LoneSave
  <2>7. Agreed(w, c) => KeptAgree(known, c)
    BY <2>4 DEF Agreed, KeptAgree, Of, Rightful
  <2>8. Agreed(w, c) => RequestsAgree(known, c)
    BY <1>1, <2>1, <2>4 DEF Agreed, RequestsAgree, Of, Rightful
  <2>9. Shaped(known) /\ Staged(known)
    BY <1>1, <2>1
  <2> QED BY <1>6, <2>2, <2>3, <2>4, <2>5, <2>6, <2>7, <2>8, <2>9 DEF known, b
<1> QED BY <1>5, <1>6

\* The dead are of the families they were of.
LEMMA DeadKeepsLone ==
  ASSUME NEW out, NEW g, Dead(g, out), NEW then, then = {g[q] : q \in out}
  PROVE  /\ \A kinds, busy : Lone(out, kinds, busy) => Lone(then, kinds, busy)
         /\ \A pages : LoneByPage(out, pages) => LoneByPage(then, pages)
<1>1. \A q \in out : g[q].kind = q.kind /\ g[q].on = q.on
  BY DEF Dead
<1>2. ASSUME NEW kinds, NEW busy, Lone(out, kinds, busy) PROVE Lone(then, kinds, busy)
  BY <1>1, <1>2 DEF Lone
<1>3. ASSUME NEW pages, LoneByPage(out, pages) PROVE LoneByPage(then, pages)
  BY <1>1, <1>3 DEF LoneByPage
<1> QED BY <1>2, <1>3

LEMMA SaveAnsweredKeeps ==
  ASSUME PanelInv(panel, conf), NEW r \in panel.out, r.kind = "save", r.at = "answered"
  PROVE  Safe(panel, SaveAnswered(Without(panel, r), r), conf)
<1> DEFINE b == Without(panel, r)
           x == [b EXCEPT !.saving = FALSE]
           known == IF Changes(b, r) THEN Forget(b) ELSE b
           queued == conf.pending
           outlived == Outlived(b, r)
           u == [known EXCEPT !.url = r.on, !.token = "", !.queued = queued, !.outlived = outlived]
           action == [kind |-> "config", on |-> "", id |-> ""]
           new == NewRequest(u, action, 0)
           y == Request(u, action, 0)
<1>1. SameBut(panel, b, {"out"}) /\ b.out = panel.out \ {r} /\ DOMAIN b = PanelFields /\ Staged(b)
      /\ Shaped(b)
  BY WithoutIsBase DEF Shaped
<1>2. SaveAnswered(b, r) = IF ~r.good THEN x ELSE y
  BY Zenon DEF SaveAnswered
<1>3. CASE ~r.good
  <2> HIDE DEF b
  <2>1. SameBut(b, x, {"saving"})
    BY <1>1 DEF SameBut, PanelFields
  <2> HIDE DEF x
  <2>2. /\ x.out = panel.out \ {r} /\ x.form = panel.form /\ x.act = panel.act
        /\ x.forming = panel.forming /\ x.asking = panel.asking /\ x.filing = panel.filing
        /\ x.clearing = panel.clearing /\ x.sending = panel.sending
        /\ x.results = panel.results /\ x.texts = panel.texts /\ x.key = panel.key /\ x.cache = panel.cache
        /\ x.status = panel.status /\ x.queued = panel.queued /\ x.outlived = panel.outlived /\ DOMAIN x = PanelFields
    BY <1>1, <2>1 DEF SameBut, PanelFields
  <2>3. Staged(x) /\ Lowers(panel, x, r) /\ Lists(x)
    BY <2>2 DEF PanelInv, Staged, Lists, Lowers, Falls
  <2>4. DOMAIN x.status = StatusFields
    BY <2>2 DEF PanelInv, Shaped
  <2>5. ~GoodSave(r)
    BY <1>3 DEF GoodSave
  <2>6. Current(panel, conf) => Agreed(panel, conf)
    BY <2>5, LoneSave
  <2>7. ASSUME Agreed(panel, conf) PROVE Agreed(x, conf)
    <3>1. KeptAgree(x, conf)
      BY <2>2, <2>7 DEF Agreed, KeptAgree, Of, Rightful
    <3>2. RequestsAgree(x, conf)
      BY <2>2, <2>7 DEF Agreed, RequestsAgree, Of, Rightful
    <3>3. \A q \in panel.out : q.kind # "config" /\ ~GoodSave(q)
      BY <2>5, LoneSave DEF GoodSave
    <3>4. CacheAgrees(x, conf)
      BY <2>2, <2>7, <3>3, Zenon DEF Agreed, CacheAgrees
    <3> QED BY <2>2, <2>7, <3>1, <3>2, <3>4, Zenon DEF Agreed, Of, Rightful
  <2>8. Current(panel, conf) => Current(x, conf)
    BY <2>2, <2>6, <2>7 DEF Current, InForce, Of, Rightful
  <2>9. Safe(panel, x, conf)
    BY <2>2, <2>3, <2>4, <2>8, AnswerSafe DEF Concludes
  <2> QED BY <1>2, <1>3, <2>9 DEF b
<1>4. CASE r.good
  <2>1. /\ Shaped(known) /\ Staged(known) /\ Lists(known) /\ SameBut(panel, known, ForgottenFields)
        /\ known.outlived = panel.outlived
        /\ IF Changes(b, r)
           THEN /\ known.results = << >> /\ known.texts = << >> /\ known.status = NoStatus
                /\ \A q \in known.out : q.kind \notin {"save", "config"} /\ (q.kind \in Keeps => ~q.live)
           ELSE Current(panel, conf) => KeptAgree(known, conf) /\ RequestsAgree(known, conf)
    BY <1>4, KnownAfterSave
  <2>2. PICK g : Dead(g, b.out) /\ known.out = {g[q] : q \in b.out}
    BY <1>4, KnownAfterSave
  <2> HIDE DEF b, known
  <2>3. SameBut(known, u, {"url", "token", "queued", "outlived"}) /\ u.queued = queued /\ u.outlived = outlived
    <3> HIDE DEF queued, outlived
    <3> QED BY <2>1 DEF SameBut, PanelFields
  <2> HIDE DEF u
  <2>4. u.status = known.status /\ u.out = known.out
    BY <2>3 DEF SameBut, PanelFields
  <2>5. Shaped(u)
    BY <2>1, <2>3, <2>4 DEF Shaped, SameBut
  <2>6. Shaped(y) /\ SameBut(u, y, {"out"}) /\ y.out = u.out \cup {new}
    <3> HIDE DEF action
    <3> QED BY <2>5, RequestAdds
  <2>7. new.kind = "config" /\ new.at = "out"
    BY DEF NewRequest
  <2> HIDE DEF y, new, action
  <2>8. /\ y.form = known.form /\ y.act = known.act /\ y.results = known.results /\ y.texts = known.texts
        /\ y.status = known.status /\ y.key = known.key /\ y.queued = queued /\ y.outlived = outlived
    <3> HIDE DEF queued, outlived
    <3> QED BY <2>3, <2>6 DEF SameBut, PanelFields
  <2>9. /\ y.forming = panel.forming /\ y.asking = panel.asking /\ y.filing = panel.filing
        /\ y.clearing = panel.clearing /\ y.sending = panel.sending /\ y.saving = panel.saving
    BY <2>1, <2>3, <2>6 DEF SameBut, PanelFields, ForgottenFields
  <2>10. Staged(y) /\ Lists(y)
    BY <2>1, <2>8 DEF Staged, Lists
  <2>11. \A q \in b.out : q.kind \notin {"save", "config"}
    BY <1>1, LoneSave
  <2>12. Single(y)
    <3>1. /\ \A kinds, busy : Lone(b.out, kinds, busy) => Lone(known.out, kinds, busy)
          /\ \A pages : LoneByPage(b.out, pages) => LoneByPage(known.out, pages)
      BY <2>2, DeadKeepsLone
    <3>2. \A kinds, busy : Lone(panel.out, kinds, busy) => Lone(b.out, kinds, busy)
      BY <1>1, LoneDrops
    <3>3. \A kinds, busy : "config" \notin kinds /\ Lone(panel.out, kinds, busy) => Lone(y.out, kinds, busy)
      <4> SUFFICES ASSUME NEW kinds, NEW busy, "config" \notin kinds, Lone(panel.out, kinds, busy)
                   PROVE  Lone(y.out, kinds, busy)
        OBVIOUS
      <4>1. Lone(known.out, kinds, busy)
        BY <3>1, <3>2
      <4> QED BY <4>1, <2>4, <2>6, <2>7 DEF Lone
    <3>4. Lone(y.out, Forms, y.forming) /\ Lone(y.out, Acts \cup {"pdc"}, y.sending)
      <4>1. "config" \notin Forms /\ "config" \notin Acts \cup {"pdc"}
        BY DEF Forms, Acts
      <4> QED BY <2>9, <3>3, <4>1 DEF PanelInv, Single
    <3>5. Lone(y.out, {"clearance"}, y.asking) /\ Lone(y.out, {"prefile"}, y.filing)
          /\ Lone(y.out, {"settings"}, TRUE)
      <4>1. "config" \notin {"clearance"} /\ "config" \notin {"prefile"} /\ "config" \notin {"settings"}
        OBVIOUS
      <4> QED BY <2>9, <3>3, <4>1 DEF PanelInv, Single
    <3>6. Lone(y.out, {"save", "config"}, y.saving)
      <4>1. \A e \in known.out : e.kind \notin {"save", "config"}
        BY <2>2, <2>11 DEF Dead
      <4>2. y.saving
        BY <2>9, LoneSave
      <4> QED BY <2>4, <2>6, <2>7, <4>1, <4>2 DEF Lone
    <3>7. LoneByPage(y.out, y.clearing)
      <4>1. LoneByPage(b.out, panel.clearing)
        BY <1>1 DEF PanelInv, Single, LoneByPage
      <4>2. LoneByPage(known.out, panel.clearing)
        BY <3>1, <4>1
      <4> QED BY <2>4, <2>6, <2>7, <2>9, <4>2 DEF LoneByPage
    <3>8. Listed(y.out)
      <4>1. \A e \in known.out : e.kind \in Kinds
        BY <1>1, <2>2 DEF Dead, PanelInv, Single, Listed
      <4> QED BY <2>4, <2>6, <2>7, <4>1 DEF Listed, Kinds
    <3> QED BY <3>4, <3>5, <3>6, <3>7, <3>8 DEF Single
  <2>13. ASSUME Current(panel, conf) PROVE Current(y, conf)
    <3>1. y.outlived = IF ~Changes(b, r) THEN panel.outlived
                       ELSE IF conf.pending THEN {} ELSE panel.outlived \cap {conf.force}
      <4>1. b.outlived = panel.outlived
        BY <1>1 DEF SameBut, PanelFields
      <4> QED BY <2>8, <4>1, Zenon DEF Outlived
    <3>2. InForce(y, conf)
      BY <2>13, <3>1 DEF Current, InForce, Rightful, Of
    <3>3. Rightful(y, conf) \/ y.queued
      BY <2>8, <3>2 DEF InForce
    <3>4. CacheAgrees(y, conf)
      BY <2>6, <2>7, Zenon DEF CacheAgrees
    <3>5. CASE Changes(b, r)
      <4>1. KeptAgree(y, conf)
        <5>1. \A i \in DOMAIN << >> : FALSE
          OBVIOUS
        <5> QED BY <2>1, <2>8, <3>5, <5>1, Zenon DEF KeptAgree
      <4>2. RequestsAgree(y, conf)
        BY <2>1, <2>4, <2>6, <2>7, <3>5 DEF RequestsAgree, Keeps
      <4> QED BY <3>2, <3>3, <3>4, <4>1, <4>2, Zenon DEF Current, Agreed
    <3>6. CASE ~Changes(b, r)
      <4>1. /\ KeptAgree(known, conf) /\ RequestsAgree(known, conf)
            /\ y.outlived = known.outlived
        BY <2>1, <2>13, <3>1, <3>6
      <4>2. Of(y, conf) = Of(known, conf) /\ (Rightful(y, conf) <=> Rightful(known, conf))
        BY <4>1 DEF Of, Rightful
      <4>3. KeptAgree(y, conf)
        BY <2>8, <4>1, <4>2 DEF KeptAgree
      <4>4. RequestsAgree(y, conf)
        BY <2>4, <2>6, <2>7, <2>8, <4>1, <4>2 DEF RequestsAgree, Keeps
      <4> QED BY <3>2, <3>3, <3>4, <4>3, <4>4, Zenon DEF Current, Agreed
    <3> QED BY <3>5, <3>6
  <2>14. Sends(panel, y)
    <3>1. \A e \in y.out : e = new \/ \E q \in panel.out : q.n = e.n
      BY <1>1, <2>2, <2>4, <2>6 DEF Dead
    <3>2. new.kind \notin Writes
      BY <2>7 DEF Writes, Forms, Acts
    <3> QED BY <3>1, <3>2 DEF Sends
  <2>15. PanelInv(y, conf)
    BY <2>6, <2>10, <2>12, <2>13 DEF PanelInv
  <2>16. Safe(panel, y, conf)
    BY <2>14, <2>15 DEF Safe
  <2> QED BY <1>2, <1>4, <2>16 DEF b
<1> QED BY <1>3, <1>4

\* The answer to a request is handled by its own page, and by no other.
OwnHandler(w, r) ==
  /\ r.kind \in Forms => Handled(w, r) = {FormAnswered(w, r)}
  /\ r.kind = "clearance" => Handled(w, r) = {ClearanceAnswered(w, r)}
  /\ r.kind \in Acts => Handled(w, r) = {ActionAnswered(w, r)}
  /\ r.kind = "pdc" => Handled(w, r) = {PdcAnswered(w, r)}
  /\ r.kind = "status" => Handled(w, r) = {StatusAnswered(w, r)}
  /\ r.kind = "list" => Handled(w, r) = {ListAnswered(w, r)}
  /\ r.kind = "prefile" => Handled(w, r) = PrefileAnswered(w, r)
  /\ r.kind = "settings" => Handled(w, r) = SettingsAnswered(w, r)
  /\ r.kind = "clear" => Handled(w, r) = {ClearAnswered(w, r)}
  /\ r.kind = "save" => Handled(w, r) = {SaveAnswered(w, r)}
  /\ r.kind = "config" => Handled(w, r) = {ConfigRead(w, r)}
LEMMA HandledByKind ==
  ASSUME NEW w, NEW r
  PROVE  OwnHandler(w, r)
<1> DEFINE kind == r.kind
<1>1. kind \in Forms => kind \notin Acts
  BY DEF Forms, Acts
<1>2. kind \in Forms \cup Acts =>
        /\ kind # "clearance" /\ kind # "pdc" /\ kind # "status" /\ kind # "list" /\ kind # "prefile"
        /\ kind # "settings" /\ kind # "clear" /\ kind # "save" /\ kind # "config"
  BY DEF Forms, Acts
<1>3. ~("clearance" \in Forms \cup Acts) /\ ~("pdc" \in Forms \cup Acts) /\ ~("status" \in Forms \cup Acts)
      /\ ~("list" \in Forms \cup Acts) /\ ~("prefile" \in Forms \cup Acts)
      /\ ~("settings" \in Forms \cup Acts) /\ ~("clear" \in Forms \cup Acts)
      /\ ~("save" \in Forms \cup Acts) /\ ~("config" \in Forms \cup Acts)
  BY DEF Forms, Acts
<1>4. kind \in Forms => Handled(w, r) = {FormAnswered(w, r)}
  BY <1>1, <1>2, Zenon DEF Handled
<1>5. kind \in Acts => Handled(w, r) = {ActionAnswered(w, r)}
  BY <1>1, <1>2, Zenon DEF Handled
<1>6. kind = "clearance" => Handled(w, r) = {ClearanceAnswered(w, r)}
  BY <1>3, Zenon DEF Handled
<1>7. kind = "pdc" => Handled(w, r) = {PdcAnswered(w, r)}
  BY <1>3, Zenon DEF Handled
<1>8. kind = "status" => Handled(w, r) = {StatusAnswered(w, r)}
  BY <1>3, Zenon DEF Handled
<1>9. kind = "list" => Handled(w, r) = {ListAnswered(w, r)}
  BY <1>3, Zenon DEF Handled
<1>10. kind = "prefile" => Handled(w, r) = PrefileAnswered(w, r)
  BY <1>3, Zenon DEF Handled
<1>11. kind = "settings" => Handled(w, r) = SettingsAnswered(w, r)
  BY <1>3, Zenon DEF Handled
<1>12. kind = "clear" => Handled(w, r) = {ClearAnswered(w, r)}
  BY <1>3, Zenon DEF Handled
<1>13. kind = "save" => Handled(w, r) = {SaveAnswered(w, r)}
  BY <1>3, Zenon DEF Handled
<1>14. kind = "config" => Handled(w, r) = {ConfigRead(w, r)}
  BY <1>3, Zenon DEF Handled
<1> QED
  BY <1>4, <1>5, <1>6, <1>7, <1>8, <1>9, <1>10, <1>11, <1>12, <1>13, <1>14, Zenon DEF OwnHandler

LEMMA AnswerKeeps ==
  ASSUME PanelInv(panel, conf), NEW r \in panel.out, Answer(r)
  PROVE  Safe(panel, panel', conf) /\ conf' = conf
<1> DEFINE b == Without(panel, r)
<1>1. PICK y \in Handled(b, r) : Do(y)
  BY Zenon DEF Answer, Without
<1>2. panel' = y /\ conf' = conf /\ r.at = "answered"
  BY <1>1, Zenon DEF Do, Answer
<1>3. OwnHandler(b, r)
  BY HandledByKind
<1>4. r.kind \in Kinds
  BY DEF PanelInv, Single, Listed
<1> HIDE DEF b
<1>5. CASE r.kind \in Forms
  <2>1. y = FormAnswered(b, r)
    BY <1>1, <1>3, <1>5 DEF OwnHandler
  <2> QED BY <1>2, <1>5, <2>1, FormAnsweredKeeps DEF b
<1>6. CASE r.kind = "clearance"
  <2>1. y = ClearanceAnswered(b, r)
    BY <1>1, <1>3, <1>6 DEF OwnHandler
  <2> QED BY <1>2, <1>6, <2>1, ClearanceAnsweredKeeps DEF b
<1>7. CASE r.kind \in Acts
  <2>1. y = ActionAnswered(b, r)
    BY <1>1, <1>3, <1>7 DEF OwnHandler
  <2> QED BY <1>2, <1>7, <2>1, ActionAnsweredKeeps DEF b
<1>8. CASE r.kind = "pdc"
  <2>1. y = PdcAnswered(b, r)
    BY <1>1, <1>3, <1>8 DEF OwnHandler
  <2> QED BY <1>2, <1>8, <2>1, PdcAnsweredKeeps DEF b
<1>9. CASE r.kind = "status"
  <2>1. y = StatusAnswered(b, r)
    BY <1>1, <1>3, <1>9 DEF OwnHandler
  <2> QED BY <1>2, <1>9, <2>1, StatusAnsweredKeeps DEF b
<1>10. CASE r.kind = "list"
  <2>1. y = ListAnswered(b, r)
    BY <1>1, <1>3, <1>10 DEF OwnHandler
  <2> QED BY <1>2, <1>10, <2>1, ListAnsweredKeeps DEF b
<1>11. CASE r.kind = "prefile"
  <2>1. y \in PrefileAnswered(b, r)
    BY <1>1, <1>3, <1>11 DEF OwnHandler
  <2> QED BY <1>2, <1>11, <2>1, PrefileAnsweredKeeps DEF b
<1>12. CASE r.kind = "settings"
  <2>1. y \in SettingsAnswered(b, r)
    BY <1>1, <1>3, <1>12 DEF OwnHandler
  <2> QED BY <1>2, <1>12, <2>1, SettingsAnsweredKeeps DEF b
<1>13. CASE r.kind = "clear"
  <2>1. y = ClearAnswered(b, r)
    BY <1>1, <1>3, <1>13 DEF OwnHandler
  <2> QED BY <1>2, <1>13, <2>1, ClearAnsweredKeeps DEF b
<1>14. CASE r.kind = "save"
  <2>1. y = SaveAnswered(b, r)
    BY <1>1, <1>3, <1>14 DEF OwnHandler
  <2> QED BY <1>2, <1>14, <2>1, SaveAnsweredKeeps DEF b
<1>15. CASE r.kind = "config"
  <2>1. y = ConfigRead(b, r)
    BY <1>1, <1>3, <1>15 DEF OwnHandler
  <2> QED BY <1>2, <1>15, <2>1, ConfigReadKeeps DEF b
<1> QED
  BY <1>4, <1>5, <1>6, <1>7, <1>8, <1>9, <1>10, <1>11, <1>12, <1>13, <1>14, <1>15 DEF Kinds, Reads

-----------------------------------------------------------------------------
(* The step, the start and what follows.                                    *)

LEMMA PanelStepKeeps ==
  ASSUME PanelInv(panel, conf), [NextPanel]_panelVars
  PROVE  PanelInv(panel', conf') /\ Sends(panel, panel')
<1>1. ASSUME Safe(panel, panel', conf), conf' = conf PROVE PanelInv(panel', conf') /\ Sends(panel, panel')
  BY <1>1 DEF Safe
<1>2. ASSUME NEW p, ClearPrefile(p) PROVE PanelInv(panel', conf') /\ Sends(panel, panel')
  BY <1>1, <1>2, ClearPrefileKeeps
<1>3. CASE \/ FollowLink \/ MenuKey \/ FormSteps \/ CancelForm \/ CancelClearance \/ CancelStaged
           \/ CancelPdc \/ CancelPrefile \/ OpenSteps
           \/ (\E u \in spare.urls : EnterUrl(u)) \/ EnterToken
  BY <1>1, <1>2, <1>3, PagesKeep
<1>4. CASE SendPending
  BY <1>1, <1>4, SendPendingKeeps
<1>5. CASE SendClearance
  BY <1>1, <1>5, SendClearanceKeeps
<1>6. CASE SendStaged
  BY <1>1, <1>6, SendStagedKeeps
<1>7. CASE SendPdc
  BY <1>1, <1>7, SendPdcKeeps
<1>8. CASE SendPrefile
  BY <1>1, <1>8, SendPrefileKeeps
<1>9. CASE Save
  BY <1>1, <1>9, SaveKeeps
<1>10. CASE OutsideSteps
  <2>1. CASE Reloaded
    BY <2>1, ReloadedKeeps
  <2>6. CASE Rejected
    BY <2>6, RejectedKeeps
  <2>2. ASSUME NEW s, ToldScope(s) PROVE PanelInv(panel', conf') /\ Sends(panel, panel')
    BY <1>1, <2>2, ToldScopeKeeps
  <2>3. ASSUME NEW r \in panel.out, Answer(r) PROVE PanelInv(panel', conf') /\ Sends(panel, panel')
    BY <1>1, <2>3, AnswerKeeps
  <2>4. ASSUME NEW r \in panel.out, NEW good \in BOOLEAN, ServeRequest(r, good)
        PROVE  PanelInv(panel', conf') /\ Sends(panel, panel')
    BY <2>4, ServeRequestKeeps
  <2>5. ASSUME NEW r \in panel.out, NEW how \in SaveAnswers, ServeSave(r, how)
        PROVE  PanelInv(panel', conf') /\ Sends(panel, panel')
    BY <2>5, ServeSaveKeeps
  <2> QED BY <1>10, <2>1, <2>2, <2>3, <2>4, <2>5, <2>6 DEF OutsideSteps
<1>11. CASE UNCHANGED panelVars
  <2>1. panel' = panel /\ conf' = conf
    BY <1>11 DEF panelVars
  <2> QED BY <2>1 DEF Sends
<1> QED
  BY <1>3, <1>4, <1>5, <1>6, <1>7, <1>8, <1>9, <1>10, <1>11 DEF NextPanel, ConfirmSteps, ConfigSteps

LEMMA PanelStarts ==
  ASSUME InitPanel
  PROVE  PanelInv(panel, conf)
<1> DEFINE none == ""
           home == "MENU"
<1>1. /\ DOMAIN panel = PanelFields /\ panel.out = {} /\ panel.form = NoAction /\ panel.act = NoAction
      /\ panel.results = << >> /\ panel.texts = << >> /\ panel.status = NoStatus
      /\ panel.cache = FirstUrl
  <2>1. panel = [shown |-> home, out |-> {}, list |-> "loading",
                 form |-> NoAction, forming |-> FALSE, sheets |-> << >>,
                 leg |-> NoLeg, asking |-> FALSE, askedLeg |-> NoLeg,
                 results |-> << >>, shownLeg |-> NoLeg,
                 key |-> none, status |-> NoStatus, reading |-> FALSE, act |-> NoAction,
                 sending |-> FALSE, sendingAction |-> NoAction, sendingLeg |-> NoLeg,
                 pdc |-> NoLeg, texts |-> << >>,
                 settings |-> "idle", filing |-> FALSE, filed |-> FALSE, clearing |-> {},
                 url |-> FirstUrl, token |-> none, cache |-> FirstUrl, saving |-> FALSE,
                 queued |-> FALSE, outlived |-> {}]
    BY Zenon DEF InitPanel
  <2> HIDE DEF none, home
  <2> QED BY <2>1 DEF PanelFields
<1>2. conf = [file |-> [url |-> FirstUrl, token |-> 0], force |-> [url |-> FirstUrl, token |-> 0],
              pending |-> FALSE]
  BY Zenon DEF InitPanel
<1>3. conf.force = conf.file /\ conf.file.url = FirstUrl /\ Settled(conf)
  BY <1>2 DEF Settled
<1>4. DOMAIN NoStatus = StatusFields
  BY DEF NoStatus, StatusFields
<1>5. Shaped(panel) /\ Staged(panel)
  BY <1>1, <1>4 DEF Shaped, Staged, Action
<1>6. << >> \in Seq({})
  OBVIOUS
<1>7. Lists(panel)
  BY <1>1, <1>6 DEF Lists
<1>8. Single(panel)
  BY <1>1 DEF Single, Lone, LoneByPage, Listed
<1>9. Agreed(panel, conf)
  <2>1. KeptAgree(panel, conf)
    BY <1>1 DEF KeptAgree
  <2>2. RequestsAgree(panel, conf)
    BY <1>1 DEF RequestsAgree
  <2>3. CacheAgrees(panel, conf)
    BY <1>1, <1>3, Zenon DEF CacheAgrees
  <2> QED BY <1>3, <2>1, <2>2, <2>3 DEF Agreed, Of, Rightful
<1> QED BY <1>3, <1>5, <1>7, <1>8, <1>9 DEF PanelInv, Current, InForce, Of, Rightful

LEMMA PanelInvHolds == PanelSpec => []PanelInv(panel, conf)
<1>1. PanelInv(panel, conf) /\ [NextPanel]_panelVars => PanelInv(panel, conf)'
  BY PanelStepKeeps
<1> QED BY <1>1, PanelStarts, PTL DEF PanelSpec

LEMMA LoneIsOne ==
  ASSUME NEW out, NEW kinds, NEW busy, Lone(out, kinds, busy)
  PROVE  Cardinality({r \in out : r.kind \in kinds}) <= 1
<1> DEFINE S == {r \in out : r.kind \in kinds}
<1>1. CASE S = {}
  BY <1>1, FS_EmptySet
<1>2. ASSUME NEW r \in S PROVE Cardinality(S) <= 1
  <2>1. S = {r}
    BY <1>2 DEF Lone
  <2>2. Cardinality({r}) = 1
    BY FS_Singleton
  <2> QED BY <2>1, <2>2
<1> QED BY <1>1, <1>2

-----------------------------------------------------------------------------
(* What the panel promises.                                                 *)

\* However the presses, page changes, saves and answers fall, a family of
\* requests has one of them out at most: nothing is filed twice upstream
\* (datalink-session.js 306-309, datalink-sayintentions-pages.js 14-18).
THEOREM OneRequestAlwaysOut == PanelSpec => []OneRequestOut
<1>1. PanelInv(panel, conf) => OneRequestOut
  <2> SUFFICES ASSUME PanelInv(panel, conf) PROVE OneRequestOut
    OBVIOUS
  <2>1. ASSUME NEW f \in Families PROVE Cardinality(Outstanding(panel, f)) <= 1
    <3>1. PICK busy : Lone(panel.out, f, busy)
      BY DEF PanelInv, Single, Families
    <3> QED BY <3>1, LoneIsOne DEF Outstanding
  <2>2. \A r, q \in Outstanding(panel, {"clear"}) : r.on = q.on => r = q
    BY DEF PanelInv, Single, LoneByPage, Outstanding
  <2> QED BY <2>1, <2>2 DEF OneRequestOut
<1> QED BY <1>1, PanelInvHolds, PTL

\* A write leaves only from the page that shows it, to the target shown there
\* and, for a clearance, a PDC or a SayIntentions action, still named by the
\* datalink state: a scope that moved under an open page refuses and never
\* retargets (datalink-clearance-pages.js 8-12, datalink-write-pages.js 8-12).
THEOREM PanelSendsWhatIsShown == PanelSpec => SendsWhatIsShown
<1>1. ASSUME PanelInv(panel, conf), [NextPanel]_panelVars
      PROVE  \A r \in panel'.out :
               Leaves(r) =>
                 /\ On(ConfirmPage(r.kind))
                 /\ Shows(r.kind) = [kind |-> r.kind, on |-> r.on, id |-> r.id]
                 /\ r.id \in Named(r.kind)
  <2>1. Sends(panel, panel')
    BY <1>1, PanelStepKeeps
  <2> QED BY <2>1 DEF Sends, Leaves, Aimed
<1> QED BY <1>1, PanelInvHolds, PTL DEF PanelSpec, SendsWhatIsShown

\* When every save that reached the file is told so, no clearance, pushed text
\* or link state is kept but of the file's server and token, or of those that a
\* file the sidecar refused left in force since the panel last forgot, however
\* late the answer that brings it (datalink-clearance-pages.js 266-280,
\* datalink-sayintentions-pages.js 527-547; index.ts 258-273).
THEOREM KeptIsAlwaysOfThisConfig ==
  ASSUME HonestSaves
  PROVE  PanelSpec => []KeptIsOfThisConfig
<1>1. PanelInv(panel, conf) => KeptIsOfThisConfig
  <2> SUFFICES ASSUME PanelInv(panel, conf), ~Writing PROVE KeptIsOfThisConfig
    BY Zenon DEF KeptIsOfThisConfig
  <2>1. ~Forgetting(panel)
    BY Zenon DEF Writing, Outstanding, Forgetting, GoodSave
  <2>2. KeptAgree(panel, conf)
    BY <2>1, Zenon DEF PanelInv, Current, Agreed
  <2> QED BY <2>2 DEF KeptAgree, KeptIsOfThisConfig, Owners, Of
<1> QED BY <1>1, PanelInvHolds, PTL

-----------------------------------------------------------------------------
(* The thread the panel reads.  An epoch of a sidecar names one thread that *)
(* only grows, so what the panel holds under it fits what the sidecar has.  *)

SessionFields ==
  {"renew", "release", "told", "seen", "cache", "at", "follow", "lo", "hi", "fetch", "reply",
   "rerun", "selected"}
CacheFields == {"key", "epoch", "total", "first", "rows", "life"}
FetchFields == {"at", "same", "round", "epoch", "end"}
Session(w) ==
  /\ DOMAIN w = SessionFields /\ DOMAIN w.cache = CacheFields /\ DOMAIN w.fetch = FetchFields
  /\ w.at \in Int /\ w.selected \in Int /\ w.lo \in Int /\ w.hi \in Int
  /\ w.cache.first \in Int /\ w.cache.total \in Int /\ w.fetch.end \in Int /\ w.reply.first \in Int

\* An epoch the panel was told is of a sidecar that is or was, and no newer
\* than those it has given out.
Behind(epoch, life, s) ==
  /\ epoch \in Nat /\ life \in Nat /\ life <= s.life
  /\ life = s.life /\ s.up => epoch <= s.epochs
Heard(state, s) ==
  /\ Behind(state.thread.epoch, state.life, s)
  /\ state.thread.total \in Int /\ state.thread.first \in Int
\* Rows that name messages as the cache c does, where it holds them, and no
\* message it is yet to hold.
Fits(rows, c) ==
  \A q \in DOMAIN rows : q \in Int /\ q < c.total /\ (q \in DOMAIN c.rows => rows[q] = c.rows[q])
SameThread(w, s) == w.cache.epoch # 0 /\ w.cache.epoch = s.cache.epoch /\ w.cache.life = s.life
Awaits(w) == w.fetch.at = "answered" /\ w.fetch.same
SessionInv(w, s) ==
  /\ Session(w)
  /\ Behind(w.cache.epoch, w.cache.life, s) /\ Heard(w.told, s)
  /\ SameThread(w, s) => Fits(w.cache.rows, s.cache) /\ (Awaits(w) => Fits(w.reply.rows, s.cache))

\* The thread the sidecar keeps: the newest KeptMax messages of it.
SidecarFields == {"up", "watching", "cycle", "target", "planned", "cache", "epochs", "life"}
Windowed(c) ==
  /\ DOMAIN c = CacheFields
  /\ c = NoCache \/ /\ c.epoch \in Nat \ {0} /\ c.total \in Nat
                    /\ c.first = Max({0, c.total - KeptMax}) /\ DOMAIN c.rows = c.first .. (c.total - 1)
SidecarInv(s) ==
  /\ DOMAIN s = SidecarFields /\ Windowed(s.cache)
  /\ s.life \in Nat /\ s.epochs \in Nat /\ s.cache.epoch <= s.epochs
  /\ s.cycle = "thread" => s.target \in Keys
  /\ ~s.up => s.cycle = "none" /\ s.cache = NoCache
ServerInv(x) ==
  /\ DOMAIN x = {"key", "ids", "rows"} /\ x.key \in Keys \cup {NoScope} /\ x.ids \in Nat
  /\ x.rows \in [Keys -> Seq(Nat)]
ThreadInv ==
  /\ ServerInv(server) /\ SidecarInv(sc) /\ SessionInv(v, sc)
  /\ \E S : events \in Seq(S)
  /\ \A i \in DOMAIN events : Heard(events[i], sc)

-----------------------------------------------------------------------------
(* What the panel does to its session.                                      *)

\* Moves: the cache is let be, and a fetch is the one there was, or a new one.
Moves(w, y) ==
  /\ Session(y) /\ y.cache = w.cache /\ y.reply = w.reply /\ y.told = w.told
  /\ y.fetch = w.fetch \/ y.fetch.at # "answered"
\* Trims: rows are dropped, and the fetch may lose its cache.
Trims(w, y) ==
  /\ Session(y) /\ y.reply = w.reply /\ y.told = w.told
  /\ y.cache.epoch = w.cache.epoch /\ y.cache.life = w.cache.life
  /\ \A q \in DOMAIN y.cache.rows : q \in DOMAIN w.cache.rows /\ y.cache.rows[q] = w.cache.rows[q]
  /\ y.fetch.at = "answered" => w.fetch.at = "answered" /\ (y.fetch.same => w.fetch.same)
\* Restarts: the cache begins anew, and a fetch that is out has lost it.
Restarts(w, y, epoch, life) ==
  /\ Session(y) /\ y.told = w.told
  /\ y.cache.epoch = epoch /\ y.cache.life = life /\ DOMAIN y.cache.rows = {}
  /\ y.fetch.at = "answered" => ~y.fetch.same

LEMMA MovesAreTrims ==
  ASSUME NEW w, NEW y, Moves(w, y)
  PROVE  Trims(w, y)
BY DEF Moves, Trims

LEMMA MovesOn ==
  ASSUME NEW w, NEW u, NEW y, Moves(u, y)
  PROVE  /\ Moves(w, u) => Moves(w, y)
         /\ Trims(w, u) => Trims(w, y)
         /\ \A epoch, life : Restarts(w, u, epoch, life) => Restarts(w, y, epoch, life)
BY DEF Moves, Trims, Restarts

LEMMA MovesItself ==
  ASSUME NEW w, Session(w)
  PROVE  Moves(w, w)
BY DEF Moves

\* A field of the pages or of the lease moves nothing.
SideFields == {"renew", "release", "seen", "at", "follow", "lo", "hi", "rerun", "selected"}
LEMMA SidesMove ==
  ASSUME NEW w, Session(w), NEW x
  PROVE  /\ Moves(w, [w EXCEPT !.renew = x]) /\ Moves(w, [w EXCEPT !.release = x])
         /\ Moves(w, [w EXCEPT !.seen = x]) /\ Moves(w, [w EXCEPT !.follow = x])
         /\ Moves(w, [w EXCEPT !.rerun = x])
         /\ \A z : Moves(w, [w EXCEPT !.release = x, !.renew = z])
         /\ x \in Int => /\ Moves(w, [w EXCEPT !.at = x]) /\ Moves(w, [w EXCEPT !.selected = x])
                         /\ \A z : Moves(w, [w EXCEPT !.at = x, !.follow = z])
                         /\ \A z \in Int : Moves(w, [w EXCEPT !.lo = x, !.hi = z])
<1>1. /\ Moves(w, [w EXCEPT !.renew = x]) /\ Moves(w, [w EXCEPT !.release = x])
      /\ Moves(w, [w EXCEPT !.seen = x]) /\ Moves(w, [w EXCEPT !.follow = x])
      /\ Moves(w, [w EXCEPT !.rerun = x])
  BY DEF Session, SessionFields, Moves
<1>2. \A z : Moves(w, [w EXCEPT !.release = x, !.renew = z])
  BY DEF Session, SessionFields, Moves
<1>3. ASSUME x \in Int PROVE Moves(w, [w EXCEPT !.at = x]) /\ Moves(w, [w EXCEPT !.selected = x])
  BY <1>3 DEF Session, SessionFields, Moves
<1>4. ASSUME x \in Int, NEW z PROVE Moves(w, [w EXCEPT !.at = x, !.follow = z])
  BY <1>4 DEF Session, SessionFields, Moves
<1>5. ASSUME x \in Int, NEW z \in Int PROVE Moves(w, [w EXCEPT !.lo = x, !.hi = z])
  BY <1>5 DEF Session, SessionFields, Moves
<1> QED BY <1>1, <1>2, <1>3, <1>4, <1>5

LEMMA MaxOfTwo ==
  ASSUME NEW a \in Int, NEW b \in Int
  PROVE  Max({a, b}) = IF a >= b THEN a ELSE b
<1>1. PICK x \in {a, b} : \A y \in {a, b} : x >= y
  OBVIOUS
<1>2. Max({a, b}) \in {a, b} /\ \A y \in {a, b} : Max({a, b}) >= y
  BY <1>1 DEF Max
<1> QED BY <1>2

LEMMA MinOfTwo ==
  ASSUME NEW a \in Int, NEW b \in Int
  PROVE  Min({a, b}) = IF a <= b THEN a ELSE b
<1>1. PICK x \in {a, b} : \A y \in {a, b} : x <= y
  OBVIOUS
<1>2. Min({a, b}) \in {a, b} /\ \A y \in {a, b} : Min({a, b}) <= y
  BY <1>1 DEF Min
<1> QED BY <1>2

LEMMA LeastOfNaturals ==
  ASSUME NEW T \in SUBSET Nat, T # {}
  PROVE  \E n \in T : \A m \in T : n <= m
<1> DEFINE R == {pair \in Nat \X Nat : pair[1] < pair[2]}
<1>1. IsWellFoundedOn(R, Nat)
  BY NatLessThanWellFounded, Zenon DEF OpToRel
<1>2. \A m, n \in Nat : m < n => <<m, n>> \in R
  OBVIOUS
<1>3. T \subseteq Nat
  OBVIOUS
<1> HIDE DEF R
<1>4. PICK n \in T : \A m \in T : ~(<<m, n>> \in R)
  BY <1>1, <1>3, WFMin
<1>5. ASSUME NEW m \in T PROVE n <= m
  <2>1. m \in Nat /\ n \in Nat
    OBVIOUS
  <2>2. ~(m < n)
    BY <1>2, <1>4, <2>1, Zenon
  <2> QED BY <2>1, <2>2
<1> QED BY <1>5

LEMMA MaxOfRange ==
  ASSUME NEW a \in Int, NEW b \in Int, NEW S \in SUBSET (a .. b), S # {}
  PROVE  Max(S) \in S
<1> DEFINE T == {n \in Nat : b - n \in S}
<1>1. T # {}
  <2>1. PICK q \in S : TRUE
    OBVIOUS
  <2>2. q \in a .. b /\ b - (b - q) = q /\ b - q \in Nat
    OBVIOUS
  <2> QED BY <2>1, <2>2
<1>2. \A n \in T : n \in Nat /\ b - n \in S
  OBVIOUS
<1>3. \A q \in S : q \in Int /\ b - q \in T
  <2> SUFFICES ASSUME NEW q \in S PROVE q \in Int /\ b - q \in T
    OBVIOUS
  <2>1. q \in Int /\ b - q \in Nat /\ b - (b - q) = q
    OBVIOUS
  <2> QED BY <2>1
<1> HIDE DEF T
<1>4. PICK n \in T : \A m \in T : n <= m
  <2>1. T \subseteq Nat
    BY <1>2
  <2> QED BY <1>1, <2>1, LeastOfNaturals
<1>5. \A q \in S : b - n >= q
  BY <1>2, <1>3, <1>4
<1>6. b - n \in S
  BY <1>2
<1> QED BY <1>5, <1>6 DEF Max

LEMMA ClampedMoves ==
  ASSUME NEW w, Session(w)
  PROVE  Moves(w, Clamped(w)) /\ Moves(w, Newest(w))
<1> DEFINE count == PageCount(w)
           at == Max({1, Min({w.at, count})})
<1>1. count \in Int
  <2>1. (w.cache.total + PageSize - 1) \div PageSize \in Int
    BY ThreadSizes DEF Session
  <2> QED BY <2>1, MaxOfTwo DEF PageCount
<1>2. Clamped(w) = [w EXCEPT !.at = at] /\ Newest(w) = [w EXCEPT !.at = count, !.follow = TRUE]
  BY DEF Clamped, Newest
<1> HIDE DEF count
<1>3. at \in Int
  <2> DEFINE low == Min({w.at, count})
  <2>1. low \in Int
    BY <1>1, MinOfTwo DEF Session
  <2> HIDE DEF low
  <2>2. Max({1, low}) \in Int
    BY <2>1, MaxOfTwo
  <2> QED BY <2>2 DEF low
<1> HIDE DEF at
<1>4. Moves(w, [w EXCEPT !.at = at])
  BY <1>3, SidesMove, Zenon
<1>5. Moves(w, [w EXCEPT !.at = count, !.follow = TRUE])
  BY <1>1, SidesMove, Zenon
<1> QED BY <1>2, <1>4, <1>5

\* A fetch that begins, ends or is put off.
LEMMA RoundsMove ==
  ASSUME NEW w, Session(w), NEW round
  PROVE  /\ Missing(w) # {} => Moves(w, Ask(w, round))
         /\ Moves(w, RunRounds(w)) /\ Moves(w, Finished(w)) /\ Moves(w, NextRound(w))
<1>1. ASSUME NEW u, Session(u), NEW x
      PROVE  Moves(u, [u EXCEPT !.fetch = Idle]) /\ (Missing(u) # {} => Moves(u, Ask(u, x)))
  <2> DEFINE asked == [at |-> "out", same |-> TRUE, round |-> x, epoch |-> u.cache.epoch,
                       end |-> Max(Missing(u)) + 1]
  <2>1. DOMAIN asked = FetchFields /\ asked.at # "answered" /\ DOMAIN Idle = FetchFields
        /\ Idle.at # "answered"
    BY DEF FetchFields, Idle
  <2>2. Missing(u) # {} => asked.end \in Int
    <3> DEFINE low == Max({u.lo, u.cache.first})
               high == Min({u.hi, u.cache.total}) - 1
               rows == Missing(u)
    <3>1. low \in Int /\ high \in Int
      BY <1>1, MaxOfTwo, MinOfTwo DEF Session
    <3>2. rows \in SUBSET (low .. high)
      BY DEF Missing
    <3> HIDE DEF low, high, rows
    <3>3. rows # {} => Max(rows) \in Int
      <4>1. rows # {} => Max(rows) \in rows
        BY <3>1, <3>2, MaxOfRange
      <4>2. \A q \in rows : q \in Int
        BY <3>1, <3>2
      <4> QED BY <4>1, <4>2, Zenon
    <3> QED BY <3>3 DEF rows
  <2>3. Idle.end \in Int
    BY DEF Idle
  <2> HIDE DEF asked
  <2>4. \A f : DOMAIN f = FetchFields /\ f.at # "answered" /\ f.end \in Int => Moves(u, [u EXCEPT !.fetch = f])
    BY <1>1 DEF Moves, Session, SessionFields
  <2> QED BY <2>1, <2>2, <2>3, <2>4 DEF Ask, asked
<1>2. ASSUME NEW u, Session(u) PROVE Moves(u, RunRounds(u))
  BY <1>1, <1>2 DEF RunRounds
<1>3. Moves(w, Finished(w))
  <2>1. Moves(w, [w EXCEPT !.rerun = FALSE])
    BY SidesMove, Zenon
  <2>2. Moves(w, RunRounds([w EXCEPT !.rerun = FALSE]))
    BY <1>2, <2>1, MovesOn DEF Moves
  <2> QED BY <1>1, <2>2 DEF Finished
<1> QED BY <1>1, <1>2, <1>3 DEF NextRound

LEMMA LoadsMove ==
  ASSUME NEW w, Session(w), NEW p
  PROVE  Moves(w, LoadVisibleThread(w)) /\ Moves(w, AfterThreadChange(w, p))
<1>1. ASSUME NEW u, Session(u), NEW lo \in Int, NEW hi \in Int PROVE Moves(u, LoadRange(u, lo, hi))
  <2> DEFINE x == [u EXCEPT !.lo = lo, !.hi = hi]
  <2>1. Moves(u, x)
    BY <1>1, SidesMove, Zenon
  <2>2. Session(x)
    BY <2>1 DEF Moves
  <2>3. LoadRange(u, lo, hi) = IF u.fetch.at = "idle" THEN RunRounds([x EXCEPT !.rerun = FALSE])
                               ELSE [x EXCEPT !.rerun = TRUE]
    BY DEF LoadRange
  <2> HIDE DEF x
  <2>4. Moves(x, [x EXCEPT !.rerun = FALSE]) /\ Moves(x, [x EXCEPT !.rerun = TRUE])
    BY <2>2, SidesMove, Zenon
  <2>5. Moves(x, RunRounds([x EXCEPT !.rerun = FALSE]))
    <3>1. Session([x EXCEPT !.rerun = FALSE])
      BY <2>4 DEF Moves
    <3> QED BY <2>4, <3>1, RoundsMove, MovesOn
  <2> QED BY <2>1, <2>3, <2>4, <2>5, MovesOn
<1>2. Moves(w, LoadVisibleThread(w))
  <2> DEFINE x == Clamped(w)
  <2>1. Moves(w, x) /\ Session(x)
    BY ClampedMoves DEF Moves
  <2> DEFINE lo == (x.at - 1) * PageSize
             hi == IF x.cache.epoch = 0 THEN lo ELSE Min({lo + PageSize, x.cache.total})
  <2>2. LoadVisibleThread(w) = LoadRange(x, lo, hi)
    BY DEF LoadVisibleThread
  <2> HIDE DEF x
  <2>3. lo \in Int
    BY <2>1, ThreadSizes DEF Session
  <2>4. Min({lo + PageSize, x.cache.total}) \in Int
    <3> HIDE DEF lo
    <3>1. lo + PageSize \in Int
      BY <2>3, ThreadSizes
    <3> QED BY <2>1, <3>1, MinOfTwo DEF Session
  <2>5. hi \in Int
    BY <2>3, <2>4
  <2> HIDE DEF lo, hi
  <2> QED BY <1>1, <2>1, <2>2, <2>3, <2>5, MovesOn
<1> QED BY <1>2, MovesItself DEF AfterThreadChange

\* A state with no thread, or with one of another epoch, empties the cache.
LEMMA ClearedRestarts ==
  ASSUME NEW w, Session(w)
  PROVE  Restarts(w, Cleared(w), 0, 0)
<1> DEFINE y == Cleared(w)
<1>1. DOMAIN NoCache = CacheFields /\ NoCache.epoch = 0 /\ NoCache.life = 0 /\ DOMAIN NoCache.rows = {}
      /\ NoCache.first \in Int /\ NoCache.total \in Int
  BY DEF NoCache, CacheFields
<1>2. /\ DOMAIN y = SessionFields /\ y.cache = NoCache /\ y.told = w.told
      /\ y.fetch = [w.fetch EXCEPT !.same = FALSE]
      /\ y.at = 1 /\ y.lo = w.lo /\ y.hi = w.hi /\ y.selected = w.selected /\ y.reply = w.reply
  BY DEF Cleared, Session, SessionFields
<1> HIDE DEF y
<1>3. DOMAIN y.fetch = FetchFields /\ y.fetch.same = FALSE /\ y.fetch.end = w.fetch.end
  BY <1>2 DEF Session, FetchFields
<1> QED BY <1>1, <1>2, <1>3 DEF Restarts, Session, y

Adopts(w, y, t, life) ==
  Trims(w, y) \/ Restarts(w, y, 0, 0) \/ Restarts(w, y, t.epoch, life)
LEMMA AdoptThreadAdopts ==
  ASSUME NEW w, Session(w), NEW t, t.total \in Int, t.first \in Int, NEW life
  PROVE  Adopts(w, AdoptThread(w, t, life), t, life)
<1>1. CASE t.epoch = 0
  BY <1>1, ClearedRestarts DEF AdoptThread, Adopts
<1>2. CASE t.epoch # 0 /\ w.cache.epoch # t.epoch
  <2> DEFINE empty == [NoCache EXCEPT !.epoch = t.epoch, !.total = t.total, !.first = t.first,
                                      !.life = life]
             u == [Cleared(w) EXCEPT !.cache = empty]
  <2>1. Restarts(w, Cleared(w), 0, 0)
    BY ClearedRestarts
  <2>2. DOMAIN empty = CacheFields /\ empty.epoch = t.epoch /\ empty.life = life /\ DOMAIN empty.rows = {}
        /\ empty.total \in Int /\ empty.first \in Int
    BY DEF NoCache, CacheFields
  <2> HIDE DEF empty
  <2>3. Restarts(w, u, t.epoch, life)
    BY <2>1, <2>2 DEF Restarts, Session, SessionFields
  <2>4. AdoptThread(w, t, life) = Newest(u)
    BY <1>2 DEF AdoptThread, empty
  <2> HIDE DEF u
  <2>5. Moves(u, Newest(u))
    BY <2>3, ClampedMoves DEF Restarts
  <2>6. Restarts(w, Newest(u), t.epoch, life)
    BY <2>3, <2>5, MovesOn
  <2> QED BY <2>4, <2>6 DEF Adopts
<1>3. CASE t.epoch # 0 /\ w.cache.epoch = t.epoch
  <2> DEFINE rows == Restrict(w.cache.rows, {q \in DOMAIN w.cache.rows : q < t.total})
             cache == [w.cache EXCEPT !.first = Max({w.cache.first, t.first}), !.total = t.total,
                                      !.rows = rows]
             kept == [w EXCEPT !.cache.first = Max({w.cache.first, t.first}), !.cache.total = t.total,
                               !.cache.rows = rows]
  <2>1. \A q \in DOMAIN rows : q \in DOMAIN w.cache.rows /\ rows[q] = w.cache.rows[q]
    BY DEF Restrict
  <2> HIDE DEF rows
  <2>2. /\ DOMAIN cache = CacheFields /\ cache.rows = rows
        /\ cache.epoch = w.cache.epoch /\ cache.life = w.cache.life
        /\ cache.total = t.total /\ cache.first = Max({w.cache.first, t.first})
    BY DEF Session, CacheFields
  <2>8. cache.total \in Int /\ cache.first \in Int
    BY <2>2, MaxOfTwo DEF Session
  <2>3. kept = [w EXCEPT !.cache = cache]
    BY DEF Session, SessionFields, CacheFields
  <2>4. AdoptThread(w, t, life) \in {kept, Newest(kept), Clamped(kept)}
    BY <1>3 DEF AdoptThread, rows
  <2> HIDE DEF kept, cache
  <2>5. Trims(w, kept)
    BY <2>1, <2>2, <2>3, <2>8 DEF Trims, Session, SessionFields
  <2>6. Moves(kept, Newest(kept)) /\ Moves(kept, Clamped(kept))
    BY <2>5, ClampedMoves DEF Trims
  <2>7. Trims(w, Newest(kept)) /\ Trims(w, Clamped(kept))
    BY <2>5, <2>6, MovesOn
  <2> QED BY <2>4, <2>5, <2>7 DEF Adopts
<1> QED BY <1>1, <1>2, <1>3

-----------------------------------------------------------------------------
(* What the session may do and still fit, and what the sidecar may.          *)

LEMMA SessionKeeps ==
  ASSUME NEW w, NEW s, SidecarInv(s), SessionInv(w, s), NEW y
  PROVE  /\ Trims(w, y) => SessionInv(y, s)
         /\ \A epoch, life : Behind(epoch, life, s) /\ Restarts(w, y, epoch, life) => SessionInv(y, s)
         /\ Restarts(w, y, 0, 0) => SessionInv(y, s)
<1>1. ASSUME Trims(w, y) PROVE SessionInv(y, s)
  <2>1. SameThread(y, s) => SameThread(w, s)
    BY <1>1 DEF Trims, SameThread
  <2>2. SameThread(y, s) => Fits(y.cache.rows, s.cache)
    BY <1>1, <2>1 DEF Trims, SessionInv, Fits
  <2>3. Awaits(y) => Awaits(w)
    BY <1>1 DEF Trims, Awaits
  <2>4. SameThread(y, s) /\ Awaits(y) => Fits(y.reply.rows, s.cache)
    BY <1>1, <2>1, <2>3 DEF Trims, SessionInv
  <2> QED BY <1>1, <2>2, <2>4 DEF Trims, SessionInv
<1>2. ASSUME NEW epoch, NEW life, Behind(epoch, life, s), Restarts(w, y, epoch, life)
      PROVE  SessionInv(y, s)
  BY <1>2 DEF Restarts, SessionInv, Fits, Awaits
<1>3. Behind(0, 0, s)
  BY DEF Behind, SidecarInv
<1> QED BY <1>1, <1>2, <1>3

\* A thread grows when only messages above its total come to it.
Grows(c, d) ==
  /\ d.epoch = c.epoch /\ c.total \in Int /\ d.total \in Int /\ d.total >= c.total
  /\ \A q \in DOMAIN d.rows : q < c.total => q \in DOMAIN c.rows /\ d.rows[q] = c.rows[q]
\* Ages: the thread is kept, dropped, given an epoch that was never used, or
\* grows; or the sidecar dies, or is another one.
Ages(s, z) ==
  \/ /\ z.life = s.life /\ (z.up => s.up /\ z.epochs \in Nat /\ z.epochs >= s.epochs)
     /\ \/ z.cache = s.cache \/ z.cache.epoch = 0
        \/ s.up /\ z.cache.epoch > s.epochs
        \/ Grows(s.cache, z.cache)
  \/ z.life = s.life + 1

LEMMA AgesKeeps ==
  ASSUME NEW s, SidecarInv(s), NEW z, SidecarInv(z), Ages(s, z)
  PROVE  /\ \A epoch, life : Behind(epoch, life, s) => Behind(epoch, life, z)
         /\ \A w : SessionInv(w, s) => SessionInv(w, z)
<1>1. ASSUME NEW epoch, NEW life, Behind(epoch, life, s) PROVE Behind(epoch, life, z)
  BY <1>1 DEF Behind, Ages, SidecarInv
<1>2. ASSUME NEW rows, Fits(rows, s.cache), Grows(s.cache, z.cache) PROVE Fits(rows, z.cache)
  BY <1>2 DEF Fits, Grows
<1>3. ASSUME NEW w, SessionInv(w, s) PROVE SessionInv(w, z)
  <2>1. Session(w) /\ Behind(w.cache.epoch, w.cache.life, z) /\ Heard(w.told, z)
    BY <1>1, <1>3 DEF SessionInv, Heard
  <2>2. ASSUME SameThread(w, z)
        PROVE  Fits(w.cache.rows, z.cache) /\ (Awaits(w) => Fits(w.reply.rows, z.cache))
    <3>1. Behind(w.cache.epoch, w.cache.life, s)
      BY <1>3 DEF SessionInv
    <3>2. z.life = s.life
      BY <2>2, <3>1 DEF SameThread, Behind, SidecarInv, Ages
    <3>3. z.cache.epoch # 0 /\ w.cache.life = s.life
      BY <2>2, <3>2 DEF SameThread
    <3>4. ~(s.up /\ z.cache.epoch > s.epochs)
      BY <2>2, <3>1, <3>3 DEF SameThread, Behind, SidecarInv
    <3>5. z.cache = s.cache \/ Grows(s.cache, z.cache)
      BY <3>2, <3>3, <3>4 DEF Ages, SidecarInv
    <3>6. SameThread(w, s)
      BY <2>2, <3>2, <3>5 DEF SameThread, Grows
    <3> QED BY <1>2, <1>3, <3>5, <3>6 DEF SessionInv
  <2> QED BY <2>1, <2>2 DEF SessionInv
<1> QED BY <1>1, <1>3

\* A step of the sidecar, and of the server.
LEMMA SidecarMoves ==
  ASSUME ThreadInv, server' = server, v' = v, SidecarInv(sc'), Ages(sc, sc'),
         events' = events \/ events' = Append(events, StateOf(sc'))
  PROVE  ThreadInv'
<1>1. SessionInv(v', sc')
  BY AgesKeeps DEF ThreadInv
<1>2. \A i \in DOMAIN events : Heard(events[i], sc')
  BY AgesKeeps DEF ThreadInv, Heard
<1>3. ServerInv(server')
  BY DEF ThreadInv
<1>4. (\E S : events' \in Seq(S)) /\ \A i \in DOMAIN events' : Heard(events'[i], sc')
  <2>1. CASE events' = events
    BY <1>2, <2>1 DEF ThreadInv
  <2>2. CASE events' = Append(events, StateOf(sc'))
    <3> DEFINE state == StateOf(sc')
    <3>1. /\ state.thread.epoch = sc'.cache.epoch /\ state.life = sc'.life
          /\ state.thread.total = sc'.cache.total /\ state.thread.first = sc'.cache.first
      BY DEF StateOf
    <3>2. sc'.cache.epoch \in Nat /\ sc'.cache.total \in Nat /\ sc'.cache.first \in Int
      <4>1. \A n \in Nat : Max({0, n - KeptMax}) \in Int
        <5> SUFFICES ASSUME NEW n \in Nat PROVE Max({0, n - KeptMax}) \in Int
          OBVIOUS
        <5>1. n - KeptMax \in Int
          BY ThreadSizes
        <5> QED BY <5>1, MaxOfTwo
      <4> QED BY <4>1 DEF SidecarInv, Windowed, NoCache
    <3>3. PICK S : events \in Seq(S)
      BY DEF ThreadInv
    <3> HIDE DEF state
    <3>4. events' \in Seq(S \cup {state})
      BY <2>2, <3>3 DEF state
    <3>5. \A i \in DOMAIN events' : events'[i] = state \/ (i \in DOMAIN events /\ events'[i] = events[i])
      BY <2>2, <3>3 DEF state
    <3>6. Heard(state, sc')
      BY <3>1, <3>2 DEF Heard, Behind, SidecarInv
    <3> QED BY <1>2, <3>4, <3>5, <3>6
  <2> QED BY <2>1, <2>2
<1> QED BY <1>1, <1>3, <1>4 DEF ThreadInv

-----------------------------------------------------------------------------
(* The steps of the server and of the sidecar.                              *)

LEMMA StoreThreadAges ==
  ASSUME NEW s, SidecarInv(s), s.up, NEW key, NEW rows \in Seq(Nat)
  PROVE  LET y == StoreThread(s, key, rows)
         IN  /\ DOMAIN y = SidecarFields /\ Windowed(y.cache) /\ y.epochs \in Nat
             /\ y.cache.epoch <= y.epochs /\ y.life = s.life /\ y.up /\ y.epochs >= s.epochs
             /\ y.cache.epoch > s.epochs \/ Grows(s.cache, y.cache)
<1> DEFINE first == Max({0, Len(rows) - KeptMax})
           same == Appended(s.cache, key, rows, first)
           epoch == IF same THEN s.cache.epoch ELSE s.epochs + 1
           cache == [key |-> key, epoch |-> epoch, total |-> Len(rows), first |-> first,
                     rows |-> [q \in first .. (Len(rows) - 1) |-> rows[q + 1]], life |-> s.life]
           y == StoreThread(s, key, rows)
<1>1. KeptMax \in Nat /\ Len(rows) \in Nat /\ s.epochs \in Nat /\ s.cache.epoch <= s.epochs
  BY ThreadSizes DEF SidecarInv
<1>2. first = IF KeptMax >= Len(rows) THEN 0 ELSE Len(rows) - KeptMax
  BY <1>1, MaxOfTwo
<1>3. same => s.cache.epoch \in Nat \ {0} /\ s.cache.total \in Nat /\ Len(rows) >= s.cache.total
              /\ s.cache.first = Max({0, s.cache.total - KeptMax})
              /\ DOMAIN s.cache.rows = s.cache.first .. (s.cache.total - 1)
  BY DEF Appended, SidecarInv, Windowed, NoCache
<1>4. epoch \in Nat \ {0} /\ (same => epoch = s.cache.epoch) /\ (~same => epoch = s.epochs + 1)
  BY <1>1, <1>3
<1>5. y = [s EXCEPT !.epochs = Max({s.epochs, epoch}), !.cache = cache]
  BY DEF StoreThread
<1>6. /\ DOMAIN cache = CacheFields /\ cache.epoch = epoch /\ cache.total = Len(rows) /\ cache.first = first
      /\ DOMAIN cache.rows = first .. (Len(rows) - 1)
      /\ \A q \in first .. (Len(rows) - 1) : cache.rows[q] = rows[q + 1]
  BY DEF CacheFields
<1>7. ASSUME same PROVE Grows(s.cache, cache)
  <2> DEFINE total == s.cache.total
             from == s.cache.first
  <2>0. /\ total \in Nat /\ Len(rows) >= total /\ from = Max({0, total - KeptMax})
        /\ DOMAIN s.cache.rows = from .. (total - 1)
        /\ \A q \in Max({from, first}) .. (total - 1) : s.cache.rows[q] = rows[q + 1]
    BY <1>3, <1>7 DEF Appended
  <2>1. cache.epoch = s.cache.epoch
    BY <1>4, <1>6, <1>7
  <2> HIDE DEF cache, same, first, epoch
  <2>2. first \in Nat
    BY <1>1, <1>2
  <2> HIDE DEF from, total
  <2>3. from = IF KeptMax >= total THEN 0 ELSE total - KeptMax
    <3>1. total - KeptMax \in Int
      BY <1>1, <2>0
    <3> QED BY <1>1, <2>0, <3>1, MaxOfTwo
  <2>4. from \in Nat /\ first >= from
    BY <1>1, <1>2, <2>0, <2>3
  <2>5. Max({from, first}) = first
    BY <2>2, <2>4, MaxOfTwo
  <2>6. \A q \in first .. (total - 1) : s.cache.rows[q] = rows[q + 1]
    BY <2>0, <2>5
  <2>7. \A q \in first .. (Len(rows) - 1) : q < total => q \in from .. (total - 1) /\ q \in first .. (total - 1)
    BY <1>1, <2>0, <2>2, <2>4
  <2>8. cache.total \in Int /\ total \in Int /\ cache.total >= total
    BY <1>1, <1>6, <2>0
  <2>9. \A q \in DOMAIN cache.rows : q < total => q \in DOMAIN s.cache.rows /\ cache.rows[q] = s.cache.rows[q]
    BY <1>6, <2>0, <2>6, <2>7
  <2> QED BY <2>1, <2>8, <2>9 DEF Grows, total
<1>8. Windowed(cache)
  <2> HIDE DEF cache, epoch, same
  <2> QED BY <1>1, <1>4, <1>6 DEF Windowed
<1> HIDE DEF cache, epoch, same, y
<1>9. DOMAIN y = SidecarFields /\ y.cache = cache /\ y.life = s.life /\ y.up = s.up
      /\ y.epochs = Max({s.epochs, epoch})
  BY <1>5 DEF SidecarInv, SidecarFields
<1>10. y.epochs = IF s.epochs >= epoch THEN s.epochs ELSE epoch
  BY <1>1, <1>4, <1>9, MaxOfTwo
<1>11. y.epochs \in Nat /\ y.epochs >= epoch /\ y.epochs >= s.epochs
  BY <1>1, <1>4, <1>10
<1>12. cache.epoch > s.epochs \/ Grows(s.cache, cache)
  BY <1>1, <1>4, <1>6, <1>7
<1>13. cache.epoch <= y.epochs
  BY <1>6, <1>11
<1> QED BY <1>8, <1>9, <1>11, <1>12, <1>13 DEF y

\* A cycle's stage and the lease are beside what is kept.
LEMMA TurnsAge ==
  ASSUME NEW s, SidecarInv(s), NEW z, DOMAIN z = SidecarFields,
         z.cache = s.cache \/ z.cache = NoCache, z.life = s.life, z.epochs = s.epochs, z.up = s.up,
         z.cycle = "thread" => z.target \in Keys, s.up
  PROVE  SidecarInv(z) /\ Ages(s, z)
<1>1. DOMAIN NoCache = CacheFields /\ NoCache.epoch = 0
  BY DEF NoCache, CacheFields
<1>2. s.epochs \in Nat /\ s.life \in Nat /\ s.cache.epoch <= s.epochs /\ Windowed(s.cache)
  BY DEF SidecarInv
<1>3. Windowed(NoCache)
  BY <1>1 DEF Windowed
<1>4. Windowed(z.cache)
  BY <1>2, <1>3
<1>5. z.cache.epoch <= z.epochs
  BY <1>1, <1>2
<1>6. z.epochs >= s.epochs /\ (z.cache = s.cache \/ z.cache.epoch = 0)
  BY <1>1, <1>2
<1> QED BY <1>2, <1>4, <1>5, <1>6 DEF SidecarInv, Ages

LEMMA CycleStepsKeep ==
  ASSUME ThreadInv, CycleSteps \/ PollDue \/ LeaseExpires \/ PollFails
  PROVE  ThreadInv'
<1>1. SidecarInv(sc) /\ DOMAIN sc = SidecarFields /\ (sc.cycle # "none" => sc.up)
  BY DEF ThreadInv, SidecarInv
<1>2. CASE PollDue
  <2>1. /\ DOMAIN sc' = SidecarFields /\ sc'.cache = sc.cache /\ sc'.life = sc.life /\ sc.up
        /\ sc'.epochs = sc.epochs /\ sc'.up = sc.up /\ sc'.cycle = "status"
    BY <1>1, <1>2 DEF PollDue, SidecarFields
  <2>2. SidecarInv(sc') /\ Ages(sc, sc')
    BY <1>1, <2>1, TurnsAge
  <2> QED BY <1>2, <2>2, SidecarMoves DEF PollDue
<1>3. CASE LeaseExpires
  <2>1. /\ DOMAIN sc' = SidecarFields /\ sc'.cache = sc.cache /\ sc'.life = sc.life /\ sc.up
        /\ sc'.epochs = sc.epochs /\ sc'.up = sc.up /\ sc'.cycle = sc.cycle /\ sc'.target = sc.target
        /\ events' = Append(events, StateOf(sc')) /\ server' = server /\ v' = v
    BY <1>1, <1>3 DEF LeaseExpires, Emit, SidecarFields
  <2>2. SidecarInv(sc') /\ Ages(sc, sc')
    BY <1>1, <2>1, TurnsAge DEF SidecarInv
  <2> QED BY <2>1, <2>2, SidecarMoves
<1>4. CASE ScopeResolved
  <2>0. server.key \in Keys
    BY <1>4 DEF ScopeResolved, ThreadInv, ServerInv
  <2>1. /\ DOMAIN sc' = SidecarFields /\ (sc'.cache = sc.cache \/ sc'.cache = NoCache) /\ sc'.life = sc.life
        /\ sc'.epochs = sc.epochs /\ sc'.up = sc.up /\ sc.up /\ sc'.target = server.key
        /\ events' = events /\ server' = server /\ v' = v
    BY <1>1, <1>4 DEF ScopeResolved, SidecarFields
  <2>2. SidecarInv(sc') /\ Ages(sc, sc')
    BY <1>1, <2>0, <2>1, TurnsAge
  <2> QED BY <2>1, <2>2, SidecarMoves
<1>5. CASE NoFlightPlan
  <2>1. /\ DOMAIN sc' = SidecarFields /\ sc'.cache = NoCache /\ sc'.life = sc.life
        /\ sc'.epochs = sc.epochs /\ sc'.up = sc.up /\ sc.up /\ sc'.cycle = "none"
        /\ events' = Append(events, StateOf(sc')) /\ server' = server /\ v' = v
    BY <1>1, <1>5 DEF NoFlightPlan, CycleDone, Emit, SidecarFields
  <2>2. SidecarInv(sc') /\ Ages(sc, sc')
    BY <1>1, <2>1, TurnsAge
  <2> QED BY <2>1, <2>2, SidecarMoves
<1>6. CASE ThreadStored
  <2> DEFINE y == StoreThread(sc, sc.target, server.rows[sc.target])
  <2>1. sc.up /\ server.rows[sc.target] \in Seq(Nat)
    BY <1>1, <1>6 DEF ThreadStored, ThreadInv, ServerInv, SidecarInv
  <2>2. /\ DOMAIN y = SidecarFields /\ Windowed(y.cache) /\ y.epochs \in Nat
        /\ y.cache.epoch <= y.epochs /\ y.life = sc.life /\ y.up /\ y.epochs >= sc.epochs
        /\ y.cache.epoch > sc.epochs \/ Grows(sc.cache, y.cache)
    BY <1>1, <2>1, StoreThreadAges
  <2>3. /\ sc' = [[y EXCEPT !.planned = TRUE] EXCEPT !.cycle = "none", !.target = NoTarget]
        /\ events' = Append(events, StateOf(sc')) /\ server' = server /\ v' = v
    BY <1>6 DEF ThreadStored, CycleDone, Emit
  <2> HIDE DEF y
  <2>4. /\ DOMAIN sc' = SidecarFields /\ sc'.cache = y.cache /\ sc'.life = y.life
        /\ sc'.epochs = y.epochs /\ sc'.up = y.up /\ sc'.cycle = "none"
    BY <2>2, <2>3 DEF SidecarFields
  <2>5. SidecarInv(sc')
    BY <1>1, <2>2, <2>4 DEF SidecarInv
  <2>6. Ages(sc, sc')
    BY <1>1, <2>1, <2>2, <2>4 DEF Ages, SidecarInv
  <2> QED BY <2>3, <2>5, <2>6, SidecarMoves
<1>7. CASE PollFails
  <2>1. /\ DOMAIN sc' = SidecarFields /\ sc'.cache = sc.cache /\ sc'.life = sc.life /\ sc.up
        /\ sc'.epochs = sc.epochs /\ sc'.up = sc.up /\ sc'.cycle = "none"
        /\ events' = Append(events, StateOf(sc')) /\ server' = server /\ v' = v
    BY <1>1, <1>7 DEF PollFails, CycleDone, Emit, SidecarFields
  <2>2. SidecarInv(sc') /\ Ages(sc, sc')
    BY <1>1, <2>1, TurnsAge
  <2> QED BY <2>1, <2>2, SidecarMoves
<1> QED BY <1>2, <1>3, <1>4, <1>5, <1>6, <1>7 DEF CycleSteps

LEMMA LifeStepsKeep ==
  ASSUME ThreadInv, SidecarDies \/ SidecarStarts \/ \E on \in BOOLEAN : WatchServed(on) \/ WatchRefused(on)
  PROVE  ThreadInv'
<1>1. SidecarInv(sc) /\ DOMAIN sc = SidecarFields
  BY DEF ThreadInv, SidecarInv
<1>2. \A life : /\ DOMAIN Fresh(life) = SidecarFields /\ Fresh(life).up /\ Fresh(life).cycle = "none"
                /\ Fresh(life).cache = NoCache /\ Fresh(life).epochs = 0 /\ Fresh(life).life = life
  BY DEF Fresh, SidecarFields
<1>3. Windowed(NoCache) /\ NoCache.epoch = 0
  BY DEF Windowed, NoCache, CacheFields
<1>4. CASE SidecarDies
  <2>1. sc' = [Fresh(sc.life) EXCEPT !.up = FALSE]
    BY <1>4 DEF SidecarDies, Emit
  <2>2. /\ DOMAIN sc' = SidecarFields /\ sc'.cache = NoCache /\ sc'.life = sc.life /\ ~sc'.up
        /\ sc'.epochs = 0 /\ sc'.cycle = "none"
    BY <1>2, <2>1 DEF SidecarFields
  <2>3. SidecarInv(sc') /\ Ages(sc, sc')
    BY <1>1, <1>3, <2>2 DEF SidecarInv, Ages
  <2> QED BY <1>4, <2>3, SidecarMoves DEF SidecarDies, Emit
<1>5. CASE SidecarStarts
  <2>1. sc' = Fresh(sc.life + 1)
    BY <1>5 DEF SidecarStarts, Emit
  <2>2. SidecarInv(sc') /\ Ages(sc, sc')
    <3>1. sc.life + 1 \in Nat
      BY <1>1 DEF SidecarInv
    <3> QED BY <1>2, <1>3, <2>1, <3>1 DEF SidecarInv, Ages
  <2> QED BY <1>5, <2>2, SidecarMoves DEF SidecarStarts, Emit
<1>6. ASSUME NEW on \in BOOLEAN, WatchServed(on) PROVE ThreadInv'
  <2>1. CASE on /\ sc.watching
    <3>1. sc' = sc /\ events' = events /\ server' = server /\ v' = v
      BY <1>6, <2>1, Zenon DEF WatchServed
    <3> QED BY <3>1 DEF ThreadInv
  <2>2. CASE ~(on /\ sc.watching)
    <3>1. /\ Emit([sc EXCEPT !.watching = on,
                             !.cycle = IF on /\ sc.cycle = "none" THEN "status" ELSE sc.cycle])
          /\ sc.up /\ server' = server /\ v' = v
      BY <1>6, <2>2, Zenon DEF WatchServed
    <3>2. /\ DOMAIN sc' = SidecarFields /\ sc'.cache = sc.cache /\ sc'.life = sc.life /\ sc.up
          /\ sc'.epochs = sc.epochs /\ sc'.up = sc.up /\ (sc'.cycle = "thread" => sc.cycle = "thread")
          /\ sc'.target = sc.target /\ events' = Append(events, StateOf(sc'))
      BY <1>1, <3>1 DEF Emit, SidecarFields
    <3>3. SidecarInv(sc') /\ Ages(sc, sc')
      BY <1>1, <3>2, TurnsAge DEF SidecarInv
    <3> QED BY <3>1, <3>2, <3>3, SidecarMoves
  <2> QED BY <2>1, <2>2
<1>7. ASSUME NEW on \in BOOLEAN, WatchRefused(on) PROVE ThreadInv'
  BY <1>7 DEF WatchRefused, ThreadInv
<1> QED BY <1>4, <1>5, <1>6, <1>7

LEMMA RemoveAtKeeps ==
  ASSUME NEW S, NEW seq \in Seq(S), NEW i \in 1 .. Len(seq)
  PROVE  RemoveAt(seq, i) \in Seq(S)
<1>1. SubSeq(seq, 1, i - 1) \in Seq(S)
  OBVIOUS
<1>2. SubSeq(seq, i + 1, Len(seq)) \in Seq(S)
  OBVIOUS
<1> QED BY <1>1, <1>2 DEF RemoveAt

LEMMA ServerStepsKeep ==
  ASSUME ThreadInv, ServerSteps
  PROVE  ThreadInv'
<1>1. ServerInv(server)
  BY DEF ThreadInv
<1>2. ASSUME ServerInv(server'), UNCHANGED <<sc, events, calls, page, v>> PROVE ThreadInv'
  BY <1>2 DEF ThreadInv
<1>3. ASSUME NEW k \in Keys, NEW rows \in Seq(Nat), Changed(k, rows) PROVE ThreadInv'
  <2>1. server' = [server EXCEPT !.rows = [server.rows EXCEPT ![k] = rows], !.ids = server.ids + 1]
    BY <1>1, <1>3 DEF Changed, ServerInv
  <2>2. [server.rows EXCEPT ![k] = rows] \in [Keys -> Seq(Nat)]
    BY <1>1, <1>3 DEF ServerInv
  <2>3. ServerInv(server')
    BY <1>1, <2>1, <2>2 DEF ServerInv
  <2> QED BY <1>2, <1>3, <2>3 DEF Changed
<1>4. ASSUME NEW k \in Keys, MessageArrives(k) PROVE ThreadInv'
  <2>1. Append(server.rows[k], server.ids + 1) \in Seq(Nat)
    BY <1>1, <1>4 DEF ServerInv
  <2> QED BY <1>3, <1>4, <2>1 DEF MessageArrives
<1>5. ASSUME NEW k \in Keys, MessageDeleted(k) PROVE ThreadInv'
  <2>1. PICK i \in DOMAIN server.rows[k] : Changed(k, RemoveAt(server.rows[k], i))
    BY <1>5 DEF MessageDeleted
  <2>2. server.rows[k] \in Seq(Nat)
    BY <1>1, <1>5 DEF ServerInv
  <2>3. RemoveAt(server.rows[k], i) \in Seq(Nat)
    BY <2>2, RemoveAtKeeps
  <2> QED BY <1>3, <1>5, <2>1, <2>3
<1>6. ASSUME NEW k \in Keys \cup {NoScope}, ScopeMoves(k) PROVE ThreadInv'
  BY <1>1, <1>2, <1>6 DEF ScopeMoves, ServerInv
<1> QED BY <1>4, <1>5, <1>6 DEF ServerSteps

-----------------------------------------------------------------------------
(* The steps of the panel.                                                  *)

LEMMA MovesKeep ==
  ASSUME NEW w, NEW s, SidecarInv(s), SessionInv(w, s), NEW y, Moves(w, y)
  PROVE  SessionInv(y, s) /\ Session(y)
BY MovesAreTrims, SessionKeeps DEF SessionInv

LEMMA PanelMoves ==
  ASSUME ThreadInv, server' = server, sc' = sc, SessionInv(v', sc),
         events' = events \/ (events # << >> /\ events' = Tail(events))
  PROVE  ThreadInv'
<1>1. CASE events' = events
  BY <1>1 DEF ThreadInv
<1>2. CASE events # << >> /\ events' = Tail(events)
  <2>1. PICK S : events \in Seq(S)
    BY DEF ThreadInv
  <2>2. Tail(events) \in Seq(S) /\ DOMAIN Tail(events) = 1 .. (Len(events) - 1)
    BY <1>2, <2>1
  <2>3. \A i \in 1 .. (Len(events) - 1) : i + 1 \in DOMAIN events /\ Tail(events)[i] = events[i + 1]
    BY <1>2, <2>1
  <2> DEFINE rest == Tail(events)
  <2>4. \A i \in DOMAIN rest : Heard(rest[i], sc)
    BY <2>2, <2>3 DEF ThreadInv
  <2>5. rest \in Seq(S)
    BY <2>2
  <2> HIDE DEF rest
  <2>6. events' = rest
    BY <1>2 DEF rest
  <2> QED BY <2>4, <2>5, <2>6 DEF ThreadInv
<1> QED BY <1>1, <1>2

LEMMA ApplyKeeps ==
  ASSUME NEW w, NEW s, SidecarInv(s), SessionInv(w, s), NEW state, Heard(state, s)
  PROVE  SessionInv(Apply(w, state), s)
<1> DEFINE x == [w EXCEPT !.seen = TRUE]
           y == AdoptThread(x, state.thread, state.life)
<1>1. Moves(w, x)
  BY SidesMove, Zenon DEF SessionInv
<1> HIDE DEF x
<1>2. SessionInv(x, s) /\ Session(x)
  BY <1>1, MovesKeep
<1>3. Behind(state.thread.epoch, state.life, s) /\ state.thread.total \in Int /\ state.thread.first \in Int
  BY DEF Heard
<1>4. Adopts(x, y, state.thread, state.life)
  BY <1>2, <1>3, AdoptThreadAdopts
<1>5. Apply(w, state) = y
  BY DEF Apply, x
<1> HIDE DEF y
<1> QED BY <1>2, <1>3, <1>4, <1>5, SessionKeeps DEF Adopts

LEMMA ShowPageKeeps ==
  ASSUME ThreadInv, NEW w, SessionInv(w, sc), NEW p, ShowPage(w, p)
  PROVE  ThreadInv'
<1>1. SidecarInv(sc) /\ Session(w)
  BY DEF ThreadInv, SessionInv
<1>2. server' = server /\ sc' = sc /\ events' = events
  BY DEF ShowPage
<1>3. CASE p \in DlPages
  <2> DEFINE synced == IF w.seen THEN w ELSE Apply(w, w.told)
             x == [synced EXCEPT !.renew = TRUE]
  <2>1. Heard(w.told, sc)
    BY DEF SessionInv
  <2>2. SessionInv(synced, sc)
    BY <1>1, <2>1, ApplyKeeps
  <2>3. v' = AfterThreadChange(x, p)
    BY <1>3 DEF ShowPage
  <2> HIDE DEF synced
  <2>4. Moves(synced, x)
    BY <2>2, SidesMove, Zenon DEF SessionInv
  <2> HIDE DEF x
  <2>5. SessionInv(x, sc) /\ Session(x)
    BY <1>1, <2>2, <2>4, MovesKeep
  <2>6. Moves(x, AfterThreadChange(x, p))
    BY <2>5, LoadsMove
  <2>7. SessionInv(v', sc)
    BY <1>1, <2>3, <2>5, <2>6, MovesKeep
  <2> QED BY <1>2, <2>7, PanelMoves
<1>4. CASE p \notin DlPages
  <2>1. v' = [w EXCEPT !.release = w.release \/ page \in DlPages]
    BY <1>4 DEF ShowPage
  <2>2. Moves(w, v')
    BY <1>1, <2>1, SidesMove, Zenon
  <2>3. SessionInv(v', sc)
    BY <1>1, <2>2, MovesKeep
  <2> QED BY <1>2, <2>3, PanelMoves
<1> QED BY <1>3, <1>4

LEMMA KeyStepsKeep ==
  ASSUME ThreadInv, KeySteps
  PROVE  ThreadInv'
<1>1. SidecarInv(sc) /\ SessionInv(v, sc) /\ Session(v)
  BY DEF ThreadInv, SessionInv
<1>2. ASSUME NEW x, Moves(v, x), NEW p, ShowPage(x, p) PROVE ThreadInv'
  <2>1. SessionInv(x, sc)
    BY <1>1, <1>2, MovesKeep
  <2> QED BY <1>2, <2>1, ShowPageKeeps
<1>3. CASE OpenIndex
  BY <1>1, <1>3, ShowPageKeeps DEF OpenIndex
<1>4. CASE OpenThread
  BY <1>1, <1>2, <1>4, ClampedMoves DEF OpenThread
<1>5. CASE LeavePages
  BY <1>1, <1>5, ShowPageKeeps DEF LeavePages
<1>6. CASE OpenMessage
  <2> DEFINE x == [v EXCEPT !.selected = v.at]
  <2>1. ShowPage(x, "DL-MSG")
    BY <1>6 DEF OpenMessage
  <2>2. v.at \in Int
    BY <1>1 DEF Session
  <2>3. Moves(v, x)
    BY <1>1, <2>2, SidesMove, Zenon
  <2> HIDE DEF x
  <2> QED BY <1>2, <2>1, <2>3
<1>7. CASE ReturnToThread
  <2> DEFINE u == [v EXCEPT !.at = v.selected]
             back == Clamped(u)
             x == [back EXCEPT !.follow = back.at = PageCount(back)]
  <2>1. ShowPage(x, "DL-THREAD")
    BY <1>7 DEF ReturnToThread
  <2>2. v.selected \in Int
    BY <1>1 DEF Session
  <2>3. Moves(v, u)
    BY <1>1, <2>2, SidesMove, Zenon
  <2> HIDE DEF u
  <2>4. Moves(u, back)
    BY <2>3, ClampedMoves DEF Moves
  <2>5. Moves(v, back) /\ Session(back)
    BY <2>3, <2>4, MovesOn DEF Moves
  <2> HIDE DEF back
  <2>6. Moves(back, x)
    BY <2>5, SidesMove, Zenon
  <2> HIDE DEF x
  <2>7. Moves(v, x)
    BY <2>5, <2>6, MovesOn
  <2> QED BY <1>2, <2>1, <2>7
<1>8. ASSUME NEW delta \in {-1, 1}, StepThreadPage(delta) PROVE ThreadInv'
  <2> DEFINE m == PageCount(v)
             c == Clamped(v)
             at == ((c.at - 1 + delta + m) % m) + 1
             x == [v EXCEPT !.at = at, !.follow = at = m]
  <2>1. v' = LoadVisibleThread(x) /\ server' = server /\ sc' = sc /\ events' = events /\ m > 1
    BY <1>8 DEF StepThreadPage
  <2>2. c.at \in Int
    BY <1>1, ClampedMoves DEF Moves, Session
  <2>3. m \in Int
    <3>1. Newest(v).at = m
      BY <1>1 DEF Newest, Session, SessionFields
    <3> QED BY <1>1, <3>1, ClampedMoves DEF Moves, Session
  <2> HIDE DEF m, c
  <2>4. at \in Int
    <3>1. c.at - 1 + delta + m \in Int /\ m \in Nat \ {0}
      BY <2>1, <2>2, <2>3
    <3> QED BY <3>1
  <2> HIDE DEF at
  <2>5. Moves(v, x)
    BY <1>1, <2>4, SidesMove, Zenon
  <2> HIDE DEF x
  <2>6. Moves(x, LoadVisibleThread(x))
    BY <2>5, LoadsMove DEF Moves
  <2>7. SessionInv(v', sc)
    BY <1>1, <2>1, <2>5, <2>6, MovesOn, MovesKeep
  <2> QED BY <2>1, <2>7, PanelMoves
<1> QED BY <1>3, <1>4, <1>5, <1>6, <1>7, <1>8 DEF KeySteps

\* An answer of this sidecar's thread fits it.
LEMMA ReplyKeeps ==
  ASSUME ThreadInv, NEW r, r.first \in Int, SameThread(v, sc) => Fits(r.rows, sc.cache),
         Reply(r), server' = server, sc' = sc, events' = events
  PROVE  ThreadInv'
<1> DEFINE f == [v.fetch EXCEPT !.at = "answered"]
           y == [v EXCEPT !.fetch = f, !.reply = r]
<1>1. SessionInv(v, sc) /\ Session(v)
  BY DEF ThreadInv, SessionInv
<1>2. v' = y
  BY <1>1 DEF Reply, Session, SessionFields, FetchFields
<1>3. DOMAIN f = FetchFields /\ f.end = v.fetch.end
  BY <1>1 DEF Session, FetchFields
<1> HIDE DEF f
<1>4. /\ DOMAIN y = SessionFields /\ y.cache = v.cache /\ y.told = v.told /\ y.reply = r /\ y.fetch = f
      /\ y.at = v.at /\ y.selected = v.selected /\ y.lo = v.lo /\ y.hi = v.hi
  BY <1>1 DEF Session, SessionFields
<1> HIDE DEF y
<1>5. SessionInv(y, sc)
  BY <1>1, <1>3, <1>4 DEF SessionInv, Session, SameThread
<1> QED BY <1>2, <1>5, PanelMoves

LEMMA FitsNothing ==
  ASSUME NEW c
  PROVE  Fits(<< >>, c)
BY DEF Fits

LEMMA FetchServedKeeps ==
  ASSUME ThreadInv, FetchServed
  PROVE  ThreadInv'
<1>1. SessionInv(v, sc) /\ Session(v) /\ SidecarInv(sc)
  BY DEF ThreadInv, SessionInv
<1>2. server' = server /\ sc' = sc /\ events' = events
  BY DEF FetchServed
<1>3. CASE Reply([NoReply EXCEPT !.kind = "stale"])
  <2> DEFINE r == [NoReply EXCEPT !.kind = "stale"]
  <2>1. r.first \in Int /\ r.rows = << >>
    BY DEF NoReply
  <2> HIDE DEF r
  <2> QED BY <1>2, <1>3, <2>1, FitsNothing, ReplyKeeps DEF r
<1>4. ASSUME v.fetch.end <= sc.cache.total, sc.cache.epoch # 0, NEW n \in 1 .. Window,
             Reply(Served(v.fetch.end, n))
      PROVE  ThreadInv'
  <2> DEFINE r == Served(v.fetch.end, n)
             low == Max({sc.cache.first, v.fetch.end - n})
             end == v.fetch.end
  <2>1. sc.cache.total \in Nat /\ sc.cache.first = Max({0, sc.cache.total - KeptMax})
        /\ DOMAIN sc.cache.rows = sc.cache.first .. (sc.cache.total - 1)
    BY <1>1, <1>4 DEF SidecarInv, Windowed, NoCache
  <2>2. sc.cache.first \in Int
    <3>1. sc.cache.total - KeptMax \in Int
      BY <2>1, ThreadSizes
    <3> QED BY <2>1, <3>1, MaxOfTwo
  <2>3. end \in Int
    BY <1>1 DEF Session
  <2>4. r.first = sc.cache.first /\ DOMAIN r.rows = low .. (end - 1)
        /\ \A q \in low .. (end - 1) : r.rows[q] = sc.cache.rows[q]
    BY DEF Served
  <2> HIDE DEF r, low
  <2>5. \A q \in DOMAIN r.rows : q \in Int /\ q < sc.cache.total
    BY <1>4, <2>1, <2>3, <2>4
  <2>6. Fits(r.rows, sc.cache)
    BY <2>4, <2>5 DEF Fits
  <2>7. Reply(r)
    BY <1>4 DEF r
  <2> QED BY <1>2, <2>2, <2>4, <2>6, <2>7, ReplyKeeps
<1> QED BY <1>3, <1>4 DEF FetchServed

LEMMA FetchFailsKeeps ==
  ASSUME ThreadInv, FetchFails
  PROVE  ThreadInv'
<1> DEFINE r == [NoReply EXCEPT !.kind = "failed"]
<1>1. r.first \in Int /\ r.rows = << >>
  BY DEF NoReply
<1>2. Reply(r) /\ server' = server /\ sc' = sc /\ events' = events
  BY DEF FetchFails
<1> HIDE DEF r
<1> QED BY <1>1, <1>2, FitsNothing, ReplyKeeps

LEMMA MergeKeeps ==
  ASSUME NEW w, NEW s, SessionInv(w, s), NEW reply, reply.first \in Int, w.reply.rows = << >>,
         SameThread(w, s) => Fits(reply.rows, s.cache)
  PROVE  SessionInv(Merge(w, reply), s)
<1> DEFINE low == Min({reply.first, w.cache.total})
           first == Max({w.cache.first, low})
           held == {q \in DOMAIN w.cache.rows : q >= first}
           new == {q \in DOMAIN reply.rows : q \in first .. (w.cache.total - 1)}
           rows == [q \in held \cup new |-> IF q \in new THEN reply.rows[q] ELSE w.cache.rows[q]]
           c == [w.cache EXCEPT !.first = first, !.rows = rows]
           y == Merge(w, reply)
<1>1. Session(w)
  BY DEF SessionInv
<1>2. low \in Int
  BY <1>1, MinOfTwo DEF Session
<1> HIDE DEF low
<1>3. first \in Int
  BY <1>1, <1>2, MaxOfTwo DEF Session
<1>4. Merge(w, reply) = [w EXCEPT !.cache.first = first, !.cache.rows = rows]
  BY DEF Merge, low
<1> HIDE DEF first
<1>5. \A q \in DOMAIN rows : \/ q \in DOMAIN reply.rows /\ rows[q] = reply.rows[q]
                             \/ q \in DOMAIN w.cache.rows /\ rows[q] = w.cache.rows[q]
  OBVIOUS
<1> HIDE DEF rows
<1>6. [w EXCEPT !.cache.first = first, !.cache.rows = rows] = [w EXCEPT !.cache = c]
  BY <1>1 DEF Session, SessionFields, CacheFields
<1>7. /\ DOMAIN c = CacheFields /\ c.first = first /\ c.rows = rows
      /\ c.epoch = w.cache.epoch /\ c.life = w.cache.life /\ c.total = w.cache.total
  BY <1>1 DEF Session, CacheFields
<1> HIDE DEF c
<1>8. /\ DOMAIN y = SessionFields /\ y.cache = c /\ y.told = w.told /\ y.reply = w.reply
      /\ y.fetch = w.fetch /\ y.at = w.at /\ y.selected = w.selected /\ y.lo = w.lo /\ y.hi = w.hi
  BY <1>1, <1>4, <1>6 DEF Session, SessionFields
<1> HIDE DEF y
<1>9. SameThread(y, s) => SameThread(w, s)
  BY <1>7, <1>8 DEF SameThread
<1>10. SameThread(y, s) => Fits(y.cache.rows, s.cache)
  BY <1>5, <1>7, <1>8, <1>9 DEF SessionInv, Fits
<1>11. Session(y)
  BY <1>1, <1>3, <1>7, <1>8 DEF Session
<1>12. Fits(y.reply.rows, s.cache)
  BY <1>8, FitsNothing
<1>13. SessionInv(y, s)
  BY <1>7, <1>8, <1>10, <1>11, <1>12 DEF SessionInv
<1> QED BY <1>13 DEF y

LEMMA FetchHandledKeeps ==
  ASSUME ThreadInv, FetchHandled
  PROVE  ThreadInv'
<1> DEFINE w == [v EXCEPT !.reply = NoReply]
           merged == Merge(w, v.reply)
<1>1. SessionInv(v, sc) /\ Session(v) /\ SidecarInv(sc)
  BY DEF ThreadInv, SessionInv
<1>2. server' = server /\ sc' = sc /\ events' = events /\ v.fetch.at = "answered"
  BY DEF FetchHandled
<1>3. \/ v' = Finished(w)
      \/ v' = Finished(Cleared(w))
      \/ /\ w.fetch.same
         /\ \E kept \in Evictions(merged) :
              LET nearest == [merged EXCEPT !.cache.rows = Restrict(@, kept)]
              IN  v' \in {NextRound(nearest), Finished(nearest)}
  BY DEF FetchHandled
<1>4. NoReply.first \in Int /\ NoReply.rows = << >>
  BY DEF NoReply
<1>5. /\ DOMAIN w = SessionFields /\ w.cache = v.cache /\ w.told = v.told /\ w.fetch = v.fetch
      /\ w.reply = NoReply
      /\ w.at = v.at /\ w.selected = v.selected /\ w.lo = v.lo /\ w.hi = v.hi
  BY <1>1 DEF Session, SessionFields
<1> HIDE DEF w
<1>6. SessionInv(w, sc) /\ Session(w)
  BY <1>1, <1>4, <1>5, FitsNothing DEF SessionInv, Session, SameThread
<1>7. CASE v' = Finished(w)
  BY <1>1, <1>2, <1>6, <1>7, RoundsMove, MovesKeep, PanelMoves
<1>8. CASE v' = Finished(Cleared(w))
  <2> DEFINE u == Cleared(w)
  <2>1. SessionInv(u, sc) /\ Session(u)
    BY <1>1, <1>6, ClearedRestarts, SessionKeeps DEF Restarts
  <2>2. v' = Finished(u)
    BY <1>8
  <2> HIDE DEF u
  <2> QED BY <1>1, <1>2, <2>1, <2>2, RoundsMove, MovesKeep, PanelMoves
<1>9. ASSUME w.fetch.same, NEW kept \in SUBSET (DOMAIN merged.cache.rows),
             v' \in {NextRound([merged EXCEPT !.cache.rows = Restrict(merged.cache.rows, kept)]),
                     Finished([merged EXCEPT !.cache.rows = Restrict(merged.cache.rows, kept)])}
      PROVE  ThreadInv'
  <2> DEFINE rows == Restrict(merged.cache.rows, kept)
             c == [merged.cache EXCEPT !.rows = rows]
             nearest == [merged EXCEPT !.cache.rows = rows]
  <2>1. SameThread(w, sc) => Fits(v.reply.rows, sc.cache)
    BY <1>1, <1>2, <1>5, <1>9 DEF SessionInv, Awaits, SameThread
  <2>2. SessionInv(merged, sc)
    <3>1. v.reply.first \in Int /\ w.reply.rows = << >>
      BY <1>1, <1>4, <1>5 DEF Session
    <3> QED BY <1>6, <2>1, <3>1, MergeKeeps
  <2> HIDE DEF merged
  <2>3. Session(merged)
    BY <2>2 DEF SessionInv
  <2>4. \A q \in DOMAIN rows : q \in DOMAIN merged.cache.rows /\ rows[q] = merged.cache.rows[q]
    BY <1>9 DEF Restrict
  <2>6. v' \in {NextRound(nearest), Finished(nearest)}
    BY <1>9
  <2> HIDE DEF rows
  <2>5. nearest = [merged EXCEPT !.cache = c]
    BY <2>3 DEF Session, SessionFields, CacheFields
  <2>7. /\ DOMAIN c = CacheFields /\ c.rows = rows /\ c.first = merged.cache.first
        /\ c.epoch = merged.cache.epoch /\ c.life = merged.cache.life /\ c.total = merged.cache.total
    BY <2>3 DEF Session, CacheFields
  <2> HIDE DEF c
  <2>8. Trims(merged, nearest)
    BY <2>3, <2>4, <2>5, <2>7 DEF Trims, Session, SessionFields
  <2>9. SessionInv(nearest, sc) /\ Session(nearest)
    BY <1>1, <2>2, <2>8, SessionKeeps DEF Trims
  <2> HIDE DEF nearest
  <2> QED BY <1>1, <1>2, <2>6, <2>9, RoundsMove, MovesKeep, PanelMoves
<1>10. Evictions(merged) \subseteq SUBSET (DOMAIN merged.cache.rows)
  BY DEF Evictions
<1> HIDE DEF merged
<1> QED BY <1>3, <1>7, <1>8, <1>9, <1>10

LEMMA PanelStepsKeep ==
  ASSUME ThreadInv, PanelSteps
  PROVE  ThreadInv'
<1>1. SidecarInv(sc) /\ SessionInv(v, sc) /\ Session(v)
  BY DEF ThreadInv, SessionInv
<1>2. CASE Hear
  <2> DEFINE state == Head(events)
             told == [v EXCEPT !.told = state, !.seen = FALSE]
  <2>1. server' = server /\ sc' = sc /\ events # << >> /\ events' = Tail(events)
    BY <1>2 DEF Hear
  <2>2. Heard(state, sc)
    <3>1. PICK S : events \in Seq(S)
      BY DEF ThreadInv
    <3>2. 1 \in DOMAIN events /\ state = events[1]
      BY <2>1, <3>1
    <3> HIDE DEF state
    <3> QED BY <3>2 DEF ThreadInv
  <2>3. v' = AfterThreadChange(Apply(told, state), page) \/ v' = told
    BY <1>2 DEF Hear
  <2> HIDE DEF state
  <2>4. /\ DOMAIN told = SessionFields /\ told.told = state /\ told.cache = v.cache
        /\ told.fetch = v.fetch /\ told.reply = v.reply
        /\ told.at = v.at /\ told.selected = v.selected /\ told.lo = v.lo /\ told.hi = v.hi
    BY <1>1 DEF Session, SessionFields
  <2> HIDE DEF told
  <2>5. SessionInv(told, sc)
    BY <1>1, <2>2, <2>4 DEF SessionInv, Session, SameThread, Awaits
  <2> DEFINE y == Apply(told, state)
  <2>6. SessionInv(y, sc) /\ Session(y)
    BY <1>1, <2>2, <2>5, ApplyKeeps DEF SessionInv
  <2>7. v' = AfterThreadChange(y, page) \/ v' = told
    BY <2>3
  <2> HIDE DEF y
  <2>8. SessionInv(v', sc)
    BY <1>1, <2>5, <2>6, <2>7, LoadsMove, MovesKeep
  <2> QED BY <2>1, <2>8, PanelMoves
<1>3. CASE Release
  <2>1. /\ server' = server /\ sc' = sc /\ events' = events
        /\ \/ v' = [v EXCEPT !.release = FALSE]
           \/ v' = [v EXCEPT !.release = FALSE, !.renew = FALSE]
    BY <1>3 DEF Release
  <2>2. Moves(v, [v EXCEPT !.release = FALSE]) /\ Moves(v, [v EXCEPT !.release = FALSE, !.renew = FALSE])
    BY <1>1, SidesMove, Zenon
  <2>3. Moves(v, v')
    BY <2>1, <2>2, Zenon
  <2>4. SessionInv(v', sc)
    BY <1>1, <2>3, MovesKeep
  <2> QED BY <2>1, <2>4, PanelMoves
<1>4. CASE RenewTick
  BY <1>4 DEF RenewTick, ThreadInv
<1> QED BY <1>2, <1>3, <1>4, FetchServedKeeps, FetchFailsKeeps, FetchHandledKeeps DEF PanelSteps

LEMMA ThreadStarts ==
  ASSUME InitThread
  PROVE  ThreadInv
<1> DEFINE k == CHOOSE x \in Keys : TRUE
           rows == [i \in 1 .. InitialRows |-> i]
<1>1. k \in Keys
  BY ThreadSizes
<1>2. InitialRows \in Nat
  BY ThreadSizes
<1>3. rows \in Seq(Nat)
  BY <1>2
<1>4. /\ server = [key |-> k, ids |-> InitialRows,
                   rows |-> [x \in Keys |-> IF x = k THEN rows ELSE << >>]]
      /\ sc = Fresh(1) /\ events = << >>
      /\ v = [renew |-> FALSE, release |-> FALSE, told |-> StateOf(Fresh(1)), seen |-> FALSE,
              cache |-> NoCache, at |-> 1, follow |-> TRUE, lo |-> 0, hi |-> 0,
              fetch |-> Idle, reply |-> NoReply, rerun |-> FALSE, selected |-> 1]
  BY DEF InitThread
<1> HIDE DEF k, rows
<1>5. ServerInv(server)
  BY <1>1, <1>2, <1>3, <1>4 DEF ServerInv
<1>6. /\ DOMAIN sc = SidecarFields /\ sc.up /\ sc.cycle = "none" /\ sc.cache = NoCache
      /\ sc.epochs = 0 /\ sc.life = 1
  BY <1>4 DEF Fresh, SidecarFields
<1>7. DOMAIN NoCache = CacheFields /\ NoCache.epoch = 0 /\ NoCache.life = 0 /\ NoCache.total = 0
      /\ NoCache.first = 0
  BY DEF NoCache, CacheFields
<1>8. SidecarInv(sc)
  BY <1>6, <1>7 DEF SidecarInv, Windowed
<1>9. /\ v.told.thread.epoch = 0 /\ v.told.life = 1
      /\ v.told.thread.total = 0 /\ v.told.thread.first = 0
  BY <1>4 DEF StateOf, Fresh, NoCache
<1>10. Heard(v.told, sc)
  BY <1>6, <1>9 DEF Heard, Behind
<1>11. /\ DOMAIN v = SessionFields /\ v.cache = NoCache /\ v.fetch = Idle /\ v.reply = NoReply
       /\ v.at = 1 /\ v.selected = 1 /\ v.lo = 0 /\ v.hi = 0
  BY <1>4 DEF SessionFields
<1>12. DOMAIN Idle = FetchFields /\ Idle.end = 0 /\ NoReply.first = 0
  BY DEF Idle, FetchFields, NoReply
<1>13. Session(v) /\ Behind(v.cache.epoch, v.cache.life, sc) /\ ~SameThread(v, sc)
  BY <1>6, <1>7, <1>11, <1>12 DEF Session, Behind, SameThread
<1>14. SessionInv(v, sc)
  BY <1>10, <1>13 DEF SessionInv
<1>15. events \in Seq({}) /\ DOMAIN events = {}
  BY <1>4
<1> QED BY <1>5, <1>8, <1>14, <1>15 DEF ThreadInv

\* A sequence number names the sidecar's message, whatever happens at the
\* server, however often the sidecar dies, and in whatever order states,
\* answers and keys come (datalink-service.ts 535-558,
\* datalink-session.js 230-258).
THEOREM SeqAlwaysNamesItsMessage == ThreadSpec => []SeqNamesItsMessage
<1>1. InitThread => ThreadInv
  BY ThreadStarts
<1>2. ThreadInv /\ [NextThread]_threadVars => ThreadInv'
  <2> SUFFICES ASSUME ThreadInv, [NextThread]_threadVars PROVE ThreadInv'
    OBVIOUS
  <2>1. CASE UNCHANGED threadVars
    BY <2>1 DEF threadVars, ThreadInv
  <2>2. CASE ServerSteps
    BY <2>2, ServerStepsKeep
  <2>3. CASE SidecarSteps
    BY <2>3, CycleStepsKeep, LifeStepsKeep DEF SidecarSteps
  <2>4. CASE KeySteps
    BY <2>4, KeyStepsKeep
  <2>5. CASE PanelSteps
    BY <2>5, PanelStepsKeep
  <2> QED BY <2>1, <2>2, <2>3, <2>4, <2>5 DEF NextThread
<1>3. ThreadInv => SeqNamesItsMessage
  BY DEF ThreadInv, SessionInv, SameThread, Fits, SeqNamesItsMessage
<1> QED BY <1>1, <1>2, <1>3, PTL DEF ThreadSpec

=============================================================================
