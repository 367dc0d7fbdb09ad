------------------------ MODULE SourceSnapshotsProofs ------------------------
(***************************************************************************)
(* What holds for any number of tasks, uploads and versions: the copy of a *)
(* draft is kept until it is given up, a row without its object has a      *)
(* cause, and no text is written from weaker evidence than was stored.     *)
(*                                                                         *)
(* The argument: an object gets a number nobody knows yet, so what a task  *)
(* is about to put into the row is neither the row, nor what another task  *)
(* saw or is about to put there; and what a transaction leaves of the row  *)
(* is decided by its kind and its place.                                   *)
(***************************************************************************)
EXTENDS SourceSnapshots, TLAPS

Reasons == {"none", "unreadable", "capture", "evidence", "write", "fetch", "replace", "store", "status", "delete", "cleanup", "rollback", "deadlock"}
TaskRecord ==
    [kind : {"none", "rewrite", "regenerate", "refresh", "deliver", "discard"},
     pc : {"idle", "begin", "generating", "fetched", "replaced", "stored", "closing", "deleted", "written", "done", "failed"},
     saw : {None, Closed} \cup Nat, used : Nat, origin : {"none", "snapshot", "source", "live"},
     pend : {None, Closed, Same} \cup Nat, why : Reasons]

\* What a task works with: a text, and the copy if it saw one.
EvidenceOf(r) ==
    /\ r.kind \in {"rewrite", "regenerate"} /\ r.pc \in {"generating", "written", "done"} =>
         r.used > 0 /\ (Active(r.saw) => r.used = text[r.saw])
    /\ r.kind = "refresh" /\ r.pc \in {"fetched", "replaced", "stored", "written"} => r.used > 0

\* What a task will leave of the row, by its kind and place.
PendingOf(r) ==
    /\ r.pc \in {"begin", "closing"} => r.saw = None
    /\ r.pc \notin {"replaced", "stored", "written"} => r.pend = Same
    /\ r.pc = "replaced" => r.kind = "refresh" /\ r.pend \in {None, Same} /\ (Active(r.saw) => r.pend = None)
    /\ r.pc = "stored" => r.kind = "refresh" /\ r.pend \in Nat \cup {Same} /\ (Active(r.saw) => Active(r.pend))
    /\ r.pc = "written" =>
         \/ r.kind \in {"rewrite", "regenerate"} /\ r.pend \in Nat \cup {Same}
         \/ r.kind = "refresh" /\ r.pend \in Nat \cup {Same} /\ (Active(r.saw) => Active(r.pend))
         \/ r.kind \in {"deliver", "discard"} /\ r.pend \in {Closed, Same} /\ (Active(r.saw) /\ r.pend = Same => r.saw # row)

LocalOK(r) ==
    r \in TaskRecord /\ (Active(r.saw) => r.saw \in 1..Len(text)) /\ EvidenceOf(r) /\ PendingOf(r)

Typed ==
    /\ text \in Seq(Nat \ {0}) /\ upstream \in Nat \ {0}
    /\ row \in {None, Closed} \cup 1..Len(text)
    /\ source \in [text : Nat, readme : BOOLEAN] /\ (source.readme => source.text > 0)

\* A number that is about to be put into the row is new to everybody else.
Fresh ==
    \A t \in Tasks : Active(task[t].pend) =>
        /\ task[t].pend \in store /\ task[t].pend \in 1..Len(text) /\ task[t].pend # row
        /\ \A u \in Tasks : task[u].saw # task[t].pend /\ (u # t => task[u].pend # task[t].pend)

IInv ==
    /\ Typed /\ task \in [Tasks -> TaskRecord] /\ (\A t \in Tasks : LocalOK(task[t]))
    /\ Fresh /\ DanglingHasCause

-----------------------------------------------------------------------------
\* A step of one task that does not write the row.
Quiet(t) ==
    /\ task' = [task EXCEPT ![t] = task'[t]] /\ row' = row
    /\ Len(text) <= Len(text') /\ (\A k \in 1..Len(text) : text'[k] = text[k])
    /\ store \subseteq store' \cup {row}
    /\ task'[t].saw \in {task[t].saw, row, None}
    /\ \/ ~Active(task'[t].pend) \/ task'[t].pend = task[t].pend
       \/ task'[t].pend = Len(text) + 1 /\ Len(text') = Len(text) + 1 /\ Len(text) + 1 \in store'
    /\ undone \subseteq undone'
    /\ (row \notin store' /\ (row \in store \/ (Past(t) /\ task[t].saw = row))) =>
         ~Active(row) \/ row \in undone' \/ (Past(t)' /\ task'[t].saw = row)

LEMMA QuietStep ==
    ASSUME NEW t \in Tasks, IInv, Quiet(t), Typed', LocalOK(task[t])'
    PROVE  IInv'
<1>1. task' \in [Tasks -> TaskRecord] /\ \A u \in Tasks : u # t => task'[u] = task[u]
  BY DEF IInv, Quiet, LocalOK
<1>2. ASSUME NEW u \in Tasks PROVE LocalOK(task[u])'
  <2>1. CASE u = t BY <2>1
  <2>2. CASE u # t
    <3>1. task'[u] = task[u] /\ task[u] \in TaskRecord /\ LocalOK(task[u]) BY <2>2, <1>1 DEF IInv
    <3>2. Len(text) \in Nat /\ Len(text') \in Nat BY DEF IInv, Typed
    <3>3. EvidenceOf(task[u])' BY <3>1, <3>2 DEF LocalOK, EvidenceOf, Quiet, Active
    <3>4. PendingOf(task[u])' BY <3>1 DEF LocalOK, PendingOf, Quiet, Active
    <3> QED BY <3>1, <3>2, <3>3, <3>4 DEF LocalOK, Quiet, Active
  <2> QED BY <2>1, <2>2
<1>3. Fresh'
  <2> SUFFICES ASSUME NEW u \in Tasks, Active(task'[u].pend)
               PROVE  /\ task'[u].pend \in store' /\ task'[u].pend \in 1..Len(text') /\ task'[u].pend # row'
                      /\ \A v \in Tasks : task'[v].saw # task'[u].pend /\ (v # u => task'[v].pend # task'[u].pend)
    BY DEF Fresh, Active
  <2>0. /\ Len(text) \in Nat /\ Len(text') \in Nat /\ row \in {None, Closed} \cup 1..Len(text) /\ row' = row
        /\ \A v \in Tasks : Active(task[v].saw) => task[v].saw \in 1..Len(text)
        /\ \A v \in Tasks : Active(task[v].pend) => task[v].pend \in 1..Len(text)
        /\ {None, Closed, Same} \cap Nat = {}
    BY SnapshotAssumption DEF IInv, Typed, LocalOK, Fresh, Quiet
  <2>1. CASE task'[u].pend = task[u].pend
    <3>1. /\ task[u].pend \in store /\ task[u].pend \in 1..Len(text) /\ task[u].pend # row
          /\ \A v \in Tasks : task[v].saw # task[u].pend /\ (v # u => task[v].pend # task[u].pend)
      BY <2>1 DEF IInv, Fresh
    <3>2. task'[u].pend \in store' /\ task'[u].pend \in 1..Len(text') /\ task'[u].pend # row'
      BY <3>1, <2>1, <2>0 DEF Quiet
    <3>3. ASSUME NEW v \in Tasks
          PROVE  task'[v].saw # task'[u].pend /\ (v # u => task'[v].pend # task'[u].pend)
      <4>1. CASE v # t BY <4>1, <3>1, <2>1, <1>1
      <4>2. CASE v = t
        <5>1. task'[v].saw # task'[u].pend BY <4>2, <3>1, <2>1, <2>0 DEF Quiet, Active
        <5>2. v # u => task'[v].pend # task'[u].pend BY <4>2, <3>1, <2>1, <2>0 DEF Quiet, Active
        <5> QED BY <5>1, <5>2
      <4> QED BY <4>1, <4>2
    <3> QED BY <3>2, <3>3
  <2>2. CASE task'[u].pend # task[u].pend
    <3>1. u = t BY <2>2, <1>1
    <3>2. task'[u].pend = Len(text) + 1 /\ Len(text') = Len(text) + 1 /\ Len(text) + 1 \in store'
      BY <3>1, <2>2 DEF Quiet
    <3>3. ASSUME NEW v \in Tasks
          PROVE  task'[v].saw # task'[u].pend /\ (v # u => task'[v].pend # task'[u].pend)
      <4>1. task'[v].saw \in {task[v].saw, row, None} BY <1>1 DEF Quiet
      <4>2. v # u => task'[v].pend = task[v].pend BY <1>1, <3>1
      <4> QED BY <4>1, <4>2, <3>2, <2>0 DEF Active
    <3> QED BY <3>2, <3>3, <2>0
  <2> QED BY <2>1, <2>2
<1>4. DanglingHasCause'
  <2> SUFFICES ASSUME Active(row'), row' \notin store'
               PROVE  row' \in undone' \/ \E u \in Tasks : task'[u].saw = row' /\ Past(u)'
    BY DEF DanglingHasCause, Active
  <2>1. CASE row \in store \/ (Past(t) /\ task[t].saw = row)
    BY <2>1 DEF Quiet, Active
  <2>2. CASE row \notin store /\ ~(Past(t) /\ task[t].saw = row)
    <3>1. row \in undone \/ \E u \in Tasks : task[u].saw = row /\ Past(u)
      BY <2>2 DEF IInv, DanglingHasCause, Quiet, Active
    <3>2. ASSUME NEW u \in Tasks, task[u].saw = row, Past(u)
          PROVE  task'[u].saw = row' /\ Past(u)'
      BY <3>2, <2>2, <1>1 DEF Past, Quiet
    <3> QED BY <3>1, <3>2 DEF Quiet
  <2> QED BY <2>1, <2>2
<1> QED BY <1>1, <1>2, <1>3, <1>4 DEF IInv

\* A step that fails leaves the bucket as it is.
LEMMA FailsStep ==
    ASSUME NEW t \in Tasks, NEW why \in Reasons, IInv, Fails(t, why), UNCHANGED <<upstream, text, store, row, source>>
    PROVE  IInv'
<1>1. task'[t] = [task[t] EXCEPT !.pc = "failed", !.why = why, !.pend = Same] /\ task' = [task EXCEPT ![t] = task'[t]]
  BY DEF Fails, Set, IInv
<1>2. task[t] \in TaskRecord /\ LocalOK(task[t]) BY DEF IInv
<1>3. Typed' BY DEF IInv, Typed
<1>4. LocalOK(task[t])'
  <2>1. task'[t] \in TaskRecord BY <1>1, <1>2 DEF TaskRecord
  <2>2. task'[t].pc = "failed" /\ task'[t].pend = Same /\ task'[t].saw = task[t].saw /\ task'[t].kind = task[t].kind
    BY <1>1, <1>2 DEF TaskRecord
  <2> QED BY <2>1, <2>2, <1>2 DEF LocalOK, EvidenceOf, PendingOf
<1>5. Quiet(t)
  <2>1. task'[t].pend = Same /\ task'[t].saw = task[t].saw BY <1>1, <1>2 DEF TaskRecord
  <2>2. undone \subseteq undone' BY DEF Fails
  <2>3. (row \notin store' /\ (row \in store \/ (Past(t) /\ task[t].saw = row))) => ~Active(row) \/ row \in undone'
    BY DEF Fails
  <2>4. Len(text) \in Nat BY DEF IInv, Typed
  <2> QED BY <1>1, <2>1, <2>2, <2>3, <2>4, SnapshotAssumption DEF Quiet, Active
<1> QED BY <1>3, <1>4, <1>5, QuietStep

-----------------------------------------------------------------------------
\* One lemma per kind of step.

LEMMA BeginStep ==
    ASSUME NEW t \in Tasks, NEW kind \in Kinds, IInv, Begin(t, kind)
    PROVE  IInv'
<1>1. task'[t] = [Idle EXCEPT !.kind = kind, !.pc = "begin"] /\ task' = [task EXCEPT ![t] = task'[t]]
  BY DEF Begin, Set, IInv
<1>2. task[t] \in TaskRecord /\ LocalOK(task[t]) /\ task[t].pc = "idle" BY DEF IInv, Begin
<1>3. kind \in {"rewrite", "regenerate", "refresh", "deliver", "discard"} BY SnapshotAssumption
<1>4. /\ task'[t].kind = kind /\ task'[t].pc = "begin" /\ task'[t].saw = None /\ task'[t].pend = Same
      /\ task'[t] \in TaskRecord
  <2>1. task'[t] = [kind |-> kind, pc |-> "begin", saw |-> None, used |-> 0, origin |-> "none", pend |-> Same, why |-> "none"]
    BY <1>1 DEF Idle
  <2> QED BY <2>1, <1>3 DEF TaskRecord, Reasons
<1>5. Typed' BY DEF Begin, bucket, IInv, Typed
<1>6. LocalOK(task[t])' BY <1>3, <1>4, SnapshotAssumption DEF LocalOK, EvidenceOf, PendingOf, Active
<1>7. Quiet(t)
  <2>1. Len(text) \in Nat BY DEF IInv, Typed
  <2>2. ~Past(t) BY <1>2 DEF Past
  <2> QED BY <1>1, <1>4, <2>1, <2>2, SnapshotAssumption DEF Quiet, Begin, bucket, Active
<1> QED BY <1>5, <1>6, <1>7, QuietStep

\* The text a rewrite has found.
LEMMA UsesStep ==
    ASSUME NEW t \in Tasks, NEW v, NEW from \in {"snapshot", "source", "live"}, IInv,
           At(t, {"rewrite", "regenerate"}, "begin"), Uses(t, v, from), v \in Nat \ {0},
           Active(row) => v = text[row],
           UNCHANGED <<upstream, row, source, undone>>,
           UNCHANGED bucket \/ (~Active(row) /\ Upload(v))
    PROVE  IInv'
<1>1. task'[t] = [task[t] EXCEPT !.pc = "generating", !.saw = row, !.used = v, !.origin = from] /\ task' = [task EXCEPT ![t] = task'[t]]
  BY DEF Uses, Set, IInv
<1>2. task[t] \in TaskRecord /\ LocalOK(task[t]) /\ row \in {None, Closed} \cup Nat BY DEF IInv, Typed
<1>3. /\ task'[t] \in TaskRecord /\ task'[t].kind = task[t].kind /\ task'[t].pc = "generating" /\ task'[t].saw = row
      /\ task'[t].used = v /\ task'[t].pend = task[t].pend
  BY <1>1, <1>2 DEF TaskRecord
<1>4. task[t].pend = Same /\ task[t].kind \in {"rewrite", "regenerate"} BY <1>2 DEF At, LocalOK, PendingOf
<1>5. /\ text \in Seq(Nat \ {0}) /\ text' \in Seq(Nat \ {0}) /\ Len(text) \in Nat /\ Len(text) <= Len(text')
      /\ (\A k \in 1..Len(text) : text'[k] = text[k]) /\ store \subseteq store'
  <2>1. text \in Seq(Nat \ {0}) /\ Len(text) \in Nat BY DEF IInv, Typed
  <2>2. CASE UNCHANGED bucket BY <2>1, <2>2 DEF bucket
  <2>3. CASE Upload(v)
    <3>1. text' = Append(text, v) /\ store' = store \cup {Len(text) + 1} BY <2>3 DEF Upload
    <3> QED BY <2>1, <3>1
  <2> QED BY <2>2, <2>3
<1>6. Typed' BY <1>5 DEF IInv, Typed
<1>7. LocalOK(task[t])'
  <2>0. Active(row) => row \in 1..Len(text) BY SnapshotAssumption DEF IInv, Typed, Active
  <2>1. Active(row) => row \in 1..Len(text') /\ v = text'[row]
    BY <2>0, <1>5
  <2> QED BY <1>3, <1>4, <2>1 DEF LocalOK, EvidenceOf, PendingOf, Active
<1>8. Quiet(t)
  <2>1. ~Past(t) BY DEF Past, At
  <2> QED BY <1>1, <1>3, <1>4, <1>5, <2>1, SnapshotAssumption DEF Quiet, Active
<1> QED BY <1>6, <1>7, <1>8, QuietStep

LEMMA LookStep ==
    ASSUME NEW t \in Tasks, IInv, Look(t)
    PROVE  IInv'
<1>0. At(t, {"rewrite", "regenerate"}, "begin") /\ UNCHANGED <<upstream, row, source>> BY DEF Look
<1>1. CASE LookRestores(t)
  <2>1. UNCHANGED <<text, store>> /\ Active(row) BY <1>1 DEF LookRestores, bucket
  <2>2. text[row] \in Nat \ {0}
    <3>1. row \in 1..Len(text) BY <2>1, SnapshotAssumption DEF IInv, Typed, Active
    <3> QED BY <3>1 DEF IInv, Typed
  <2>3. CASE Uses(t, text[row], "snapshot") /\ UNCHANGED <<lock, undone>>
    BY <1>0, <2>1, <2>2, <2>3, UsesStep DEF bucket
  <2>4. CASE Fails(t, "unreadable") BY <1>0, <2>1, <2>4, FailsStep DEF Reasons
  <2> QED BY <1>1, <2>3, <2>4 DEF LookRestores, Restore
<1>2. CASE LookCaptures(t)
  <2>1. ~Active(row) /\ source.text \in Nat \ {0} BY <1>2 DEF LookCaptures, Captures, IInv, Typed
  <2>2. CASE Upload(source.text) /\ Uses(t, source.text, IF row = None THEN "snapshot" ELSE "source") /\ UNCHANGED <<lock, undone>>
    <3>1. CASE row = None BY <1>0, <2>1, <2>2, <3>1, UsesStep
    <3>2. CASE row # None BY <1>0, <2>1, <2>2, <3>2, UsesStep
    <3> QED BY <3>1, <3>2
  <2>3. CASE Fails(t, "capture") /\ UNCHANGED bucket BY <1>0, <2>3, FailsStep DEF bucket, Reasons
  <2> QED BY <1>2, <2>2, <2>3 DEF LookCaptures
<1>3. CASE LookWithoutRow(t)
  <2>1. ~Active(row) /\ UNCHANGED bucket /\ source.text \in Nat /\ upstream \in Nat \ {0} BY <1>3 DEF LookWithoutRow, IInv, Typed
  <2>2. CASE source.text > 0 /\ Uses(t, source.text, "source") /\ UNCHANGED <<lock, undone>>
    BY <1>0, <2>1, <2>2, UsesStep
  <2>3. CASE Uses(t, upstream, "live") /\ UNCHANGED <<lock, undone>>
    BY <1>0, <2>1, <2>3, UsesStep
  <2>4. CASE Fails(t, "evidence") BY <1>0, <2>1, <2>4, FailsStep DEF bucket, Reasons
  <2> QED BY <1>3, <2>2, <2>3, <2>4 DEF LookWithoutRow
<1> QED BY <1>1, <1>2, <1>3 DEF Look

Places == {"idle", "begin", "generating", "fetched", "replaced", "stored", "closing", "deleted", "written", "done", "failed"}

\* A step that keeps what the task saw and works with, and adds its object
\* or leaves the bucket as it is.
LEMMA MovesStep ==
    ASSUME NEW t \in Tasks, NEW q \in TaskRecord, IInv, Set(t, q),
           q.kind = task[t].kind, q.saw = task[t].saw, q.used = task[t].used,
           UNCHANGED <<upstream, row, source, undone>>,
           \/ UNCHANGED bucket /\ (~Active(q.pend) \/ q.pend = task[t].pend)
           \/ /\ Upload(task[t].used) /\ task[t].used > 0
              /\ (~Active(q.pend) \/ q.pend = task[t].pend \/ q.pend = New),
           PendingOf(q), EvidenceOf(q),
           Past(t) => q.pc \in {"replaced", "stored", "deleted", "written"}
    PROVE  IInv'
<1>1. task'[t] = q /\ task' = [task EXCEPT ![t] = task'[t]] /\ task[t] \in TaskRecord /\ LocalOK(task[t])
  BY DEF IInv, Set
<1>2. /\ text \in Seq(Nat \ {0}) /\ text' \in Seq(Nat \ {0}) /\ Len(text) \in Nat /\ Len(text') \in Nat /\ Len(text) <= Len(text')
      /\ (\A k \in 1..Len(text) : text'[k] = text[k]) /\ store \subseteq store'
  <2>1. text \in Seq(Nat \ {0}) /\ Len(text) \in Nat BY DEF IInv, Typed
  <2>2. CASE UNCHANGED bucket BY <2>1, <2>2 DEF bucket
  <2>3. CASE Upload(task[t].used) /\ task[t].used > 0
    <3>1. text' = Append(text, task[t].used) /\ store' = store \cup {Len(text) + 1} BY <2>3 DEF Upload
    <3>2. task[t].used \in Nat \ {0} BY <2>3, <1>1 DEF TaskRecord
    <3> QED BY <2>1, <3>1, <3>2
  <2> QED BY <2>2, <2>3
<1>3. \/ ~Active(q.pend) \/ q.pend = task[t].pend
      \/ q.pend = Len(text) + 1 /\ Len(text') = Len(text) + 1 /\ Len(text) + 1 \in store'
  <2>1. CASE UNCHANGED bucket /\ (~Active(q.pend) \/ q.pend = task[t].pend) BY <2>1
  <2>2. CASE Upload(task[t].used) /\ (~Active(q.pend) \/ q.pend = task[t].pend \/ q.pend = New)
    <3>1. text' = Append(text, task[t].used) /\ store' = store \cup {Len(text) + 1} BY <2>2 DEF Upload
    <3>2. Len(text') = Len(text) + 1 /\ Len(text) + 1 \in store' BY <3>1, <1>2
    <3> QED BY <2>2, <3>2 DEF New
  <2> QED BY <2>1, <2>2
<1>4. Typed' BY <1>2 DEF IInv, Typed
<1>5. LocalOK(task[t])'
  <2>2. PendingOf(task[t])' BY <1>1 DEF PendingOf, Active
  <2>3. Active(task[t].saw) => task[t].saw \in 1..Len(text) BY <1>1 DEF LocalOK
  <2>4. EvidenceOf(task[t])' BY <1>1, <2>3, <1>2 DEF EvidenceOf, Active
  <2> QED BY <1>1, <1>2, <2>2, <2>3, <2>4 DEF LocalOK, Active
<1>6. Quiet(t)
  <2>2. (Past(t) /\ task[t].saw = row) => (Past(t)' /\ task'[t].saw = row)
    BY <1>1 DEF Past
  <2>3. row \notin store' => row \notin store BY <1>2
  <2> QED BY <1>1, <1>2, <1>3, <2>2, <2>3 DEF Quiet
<1> QED BY <1>4, <1>5, <1>6, QuietStep

LEMMA WriteStep ==
    ASSUME NEW t \in Tasks, IInv, Write(t)
    PROVE  IInv'
<1>1. /\ task[t] \in TaskRecord /\ LocalOK(task[t]) /\ task[t].pc = "generating" /\ task[t].kind \in {"rewrite", "regenerate"}
      /\ UNCHANGED <<upstream, row, source>> /\ ~Past(t)
  BY DEF IInv, Write, At, Past
<1>2. task[t].pend = Same /\ task[t].used > 0 /\ Len(text) \in Nat
  BY <1>1 DEF LocalOK, PendingOf, EvidenceOf, IInv, Typed
<1>3. CASE Fails(t, "write") /\ UNCHANGED bucket BY <1>1, <1>3, FailsStep DEF bucket, Reasons
<1>4. ASSUME NEW p, p = Same \/ p = New, Set(t, [task[t] EXCEPT !.pc = "written", !.pend = p]),
             (UNCHANGED bucket /\ p = Same) \/ Upload(task[t].used), UNCHANGED undone
      PROVE  IInv'
  <2> DEFINE q == [task[t] EXCEPT !.pc = "written", !.pend = p]
  <2>1. p \in {Same} \cup Nat BY <1>2, <1>4 DEF New
  <2>2. /\ q \in TaskRecord /\ q.kind = task[t].kind /\ q.pc = "written" /\ q.saw = task[t].saw /\ q.used = task[t].used /\ q.pend = p
    <3>1. p \in {None, Closed, Same} \cup Nat /\ "written" \in Places BY <2>1 DEF Places
    <3>2. q = [task[t] EXCEPT !.pc = "written", !.pend = p] OBVIOUS
    <3> HIDE DEF q
    <3>3. task[t] \in TaskRecord BY <1>1
    <3> QED BY <3>1, <3>2, <3>3 DEF TaskRecord, Places
  <2>3. Set(t, q) BY <1>4
  <2> HIDE DEF q
  <2>4. PendingOf(q) BY <2>1, <2>2, <1>1 DEF PendingOf
  <2>5. EvidenceOf(q) BY <2>2, <1>1 DEF EvidenceOf, LocalOK
  <2>6. p = New \/ ~Active(p) BY <1>4, SnapshotAssumption DEF Active
  <2>7. CASE UNCHANGED bucket /\ p = Same
    BY <2>2, <2>3, <2>4, <2>5, <2>7, <1>1, <1>2, <1>4, MovesStep
  <2>8. CASE Upload(task[t].used)
    BY <2>2, <2>3, <2>4, <2>5, <2>6, <2>8, <1>1, <1>2, <1>4, MovesStep
  <2> QED BY <1>4, <2>7, <2>8
<1>5. CASE /\ UNCHANGED undone /\ Upload(task[t].used)
           /\ Set(t, [task[t] EXCEPT !.pc = "written", !.pend = IF row = None THEN New ELSE Same])
  BY <1>4, <1>5
<1>6. CASE UNCHANGED undone /\ Goes(t, "written") /\ UNCHANGED bucket
  <2>1. [task[t] EXCEPT !.pc = "written"] = [task[t] EXCEPT !.pc = "written", !.pend = Same]
    BY <1>1, <1>2 DEF TaskRecord
  <2> QED BY <1>6, <2>1, <1>4 DEF Goes
<1> QED BY <1>3, <1>5, <1>6 DEF Write

LEMMA FetchStep ==
    ASSUME NEW t \in Tasks, IInv, Fetch(t)
    PROVE  IInv'
<1>1. /\ task[t] \in TaskRecord /\ LocalOK(task[t]) /\ task[t].kind = "refresh" /\ task[t].pc = "begin"
      /\ UNCHANGED <<upstream, bucket, row, source>> /\ ~Past(t) /\ upstream \in Nat \ {0}
  BY DEF IInv, Typed, Fetch, At, Past
<1>2. task[t].pend = Same /\ Len(text) \in Nat BY <1>1 DEF LocalOK, PendingOf, IInv, Typed
<1>3. CASE Fails(t, "fetch") BY <1>1, <1>3, FailsStep DEF bucket, Reasons
<1>4. CASE Set(t, [task[t] EXCEPT !.pc = "fetched", !.used = upstream]) /\ UNCHANGED undone
  <2>1. task'[t] = [task[t] EXCEPT !.pc = "fetched", !.used = upstream] /\ task' = [task EXCEPT ![t] = task'[t]]
    BY <1>4 DEF Set, IInv
  <2>2. /\ task'[t] \in TaskRecord /\ task'[t].kind = "refresh" /\ task'[t].pc = "fetched" /\ task'[t].saw = task[t].saw
        /\ task'[t].pend = Same /\ task'[t].used = upstream
    BY <2>1, <1>1, <1>2 DEF TaskRecord
  <2>3. Typed' BY <1>1 DEF IInv, Typed, bucket
  <2>4. LocalOK(task[t])' BY <2>2, <1>1 DEF LocalOK, EvidenceOf, PendingOf, bucket, Active
  <2>5. Quiet(t) BY <2>1, <2>2, <1>1, <1>2, <1>4, SnapshotAssumption DEF Quiet, bucket, Active
  <2> QED BY <2>3, <2>4, <2>5, QuietStep
<1> QED BY <1>3, <1>4 DEF Fetch

LEMMA ReplaceStep ==
    ASSUME NEW t \in Tasks, IInv, Replace(t)
    PROVE  IInv'
<1>1. /\ task[t] \in TaskRecord /\ LocalOK(task[t]) /\ task[t].kind = "refresh" /\ task[t].pc = "fetched"
      /\ UNCHANGED <<upstream, text, row, source>> /\ ~Past(t) /\ row \in {None, Closed} \cup 1..Len(text)
  BY DEF IInv, Typed, Replace, At, Past
<1>2. Len(text) \in Nat BY DEF IInv, Typed
<1>3. CASE Fails(t, "replace") /\ UNCHANGED store BY <1>1, <1>3, FailsStep DEF Reasons
<1>4. CASE /\ store' = store \ {row} /\ UNCHANGED undone
           /\ Set(t, [task[t] EXCEPT !.pc = "replaced", !.saw = row, !.pend = Replaced])
  <2>1. task'[t] = [task[t] EXCEPT !.pc = "replaced", !.saw = row, !.pend = Replaced] /\ task' = [task EXCEPT ![t] = task'[t]]
    BY <1>4 DEF Set, IInv
  <2>2. Replaced \in {None, Same} /\ (Active(row) => Replaced = None) BY DEF Replaced
  <2>3. /\ task'[t] \in TaskRecord /\ task'[t].kind = "refresh" /\ task'[t].pc = "replaced" /\ task'[t].saw = row
        /\ task'[t].pend = Replaced /\ task'[t].used = task[t].used
    <3>1. row \in {None, Closed} \cup Nat BY <1>1, <1>2
    <3> QED BY <2>1, <2>2, <1>1, <3>1 DEF TaskRecord
  <2>4. Typed' BY <1>1 DEF IInv, Typed
  <2>5. LocalOK(task[t])'
    <3>1. task[t].used > 0 BY <1>1 DEF LocalOK, EvidenceOf
    <3>2. Active(row) => row \in 1..Len(text) BY <1>1, SnapshotAssumption DEF Active
    <3> QED BY <2>2, <2>3, <1>1, <3>1, <3>2 DEF LocalOK, EvidenceOf, PendingOf, Active
  <2>6. Quiet(t)
    <3>1. ~Active(task'[t].pend) BY <2>2, <2>3, SnapshotAssumption DEF Active
    <3>2. Past(t)' BY <2>3 DEF Past
    <3> QED BY <2>1, <2>3, <1>1, <1>2, <1>4, <3>1, <3>2 DEF Quiet
  <2> QED BY <2>4, <2>5, <2>6, QuietStep
<1> QED BY <1>3, <1>4 DEF Replace

LEMMA StoreStep ==
    ASSUME NEW t \in Tasks, IInv, Store(t)
    PROVE  IInv'
<1>1. /\ task[t] \in TaskRecord /\ LocalOK(task[t]) /\ task[t].pc = "replaced" /\ task[t].kind = "refresh"
      /\ UNCHANGED <<upstream, row, source>>
  BY DEF IInv, Store, At
<1>2. task[t].pend \in {None, Same} /\ task[t].used > 0 /\ Len(text) \in Nat /\ (Active(task[t].saw) => task[t].pend = None)
  BY <1>1 DEF LocalOK, PendingOf, EvidenceOf, IInv, Typed
<1>3. CASE Fails(t, "store") /\ UNCHANGED bucket BY <1>1, <1>3, FailsStep DEF bucket, Reasons
<1>4. CASE /\ UNCHANGED undone /\ Upload(task[t].used)
           /\ Set(t, [task[t] EXCEPT !.pc = "stored", !.pend = IF Seen(t) = None THEN New ELSE @])
  <2> DEFINE p == IF Seen(t) = None THEN New ELSE task[t].pend
             q == [task[t] EXCEPT !.pc = "stored", !.pend = p]
  <2>1. (p = New \/ p = Same) /\ (Active(task[t].saw) => p = New)
    BY <1>2, SnapshotAssumption DEF Seen
  <2>2. p \in {None, Closed, Same} \cup Nat /\ New \in Nat BY <2>1, <1>2 DEF New
  <2>3. /\ q \in TaskRecord /\ q.kind = task[t].kind /\ q.pc = "stored" /\ q.saw = task[t].saw /\ q.used = task[t].used /\ q.pend = p
    <3>1. task[t] \in TaskRecord /\ q = [task[t] EXCEPT !.pc = "stored", !.pend = p] BY <1>1
    <3> HIDE DEF q, p
    <3> QED BY <3>1, <2>2 DEF TaskRecord
  <2>4. Set(t, q)
    <3>1. q = [task[t] EXCEPT !.pc = "stored", !.pend = IF Seen(t) = None THEN New ELSE @]
      BY <1>1 DEF TaskRecord
    <3> QED BY <1>4, <3>1
  <2> HIDE DEF q, p
  <2>5. PendingOf(q) BY <2>1, <2>2, <2>3, <1>1 DEF PendingOf, Active
  <2>6. EvidenceOf(q) BY <2>3, <1>1, <1>2 DEF EvidenceOf
  <2>7. p = New \/ ~Active(p) BY <2>1, SnapshotAssumption DEF Active
  <2> QED BY <2>3, <2>4, <2>5, <2>6, <2>7, <1>1, <1>2, <1>4, MovesStep
<1> QED BY <1>3, <1>4 DEF Store

\* The other steps of a task that change only its place.
LEMMA PlaceStep ==
    ASSUME NEW t \in Tasks, NEW pc \in {"written", "closing"}, NEW p, IInv, LocalOK(task[t]),
           Set(t, [task[t] EXCEPT !.pc = pc, !.pend = p]),
           UNCHANGED <<upstream, bucket, row, source, undone>>,
           \/ pc = "written" /\ task[t].kind = "refresh" /\ task[t].pc = "stored" /\ p = task[t].pend
           \/ pc = "closing" /\ task[t].kind \in {"deliver", "discard"} /\ task[t].pc = "begin" /\ p = Same
           \/ /\ pc = "written" /\ task[t].kind \in {"deliver", "discard"} /\ task[t].pc \in {"closing", "deleted"}
              /\ p \in {Closed, Same} /\ (Active(task[t].saw) /\ p = Same => task[t].saw # row)
    PROVE  IInv'
<1>1. task[t] \in TaskRecord BY DEF IInv
<1>2. p \in {None, Closed, Same} \cup Nat BY <1>1 DEF TaskRecord
<1> DEFINE q == [task[t] EXCEPT !.pc = pc, !.pend = p]
<1>3. q = [task[t] EXCEPT !.pc = pc, !.pend = p] /\ Set(t, q) OBVIOUS
<1> HIDE DEF q
<1>4. pc \in Places BY DEF Places
<1>5. /\ q \in TaskRecord /\ q.kind = task[t].kind /\ q.pc = pc /\ q.saw = task[t].saw /\ q.used = task[t].used /\ q.pend = p
  BY <1>1, <1>2, <1>3, <1>4 DEF TaskRecord, Places
<1>6. PendingOf(q) BY <1>5, SnapshotAssumption DEF LocalOK, PendingOf, Active
<1>7. EvidenceOf(q) BY <1>5 DEF LocalOK, EvidenceOf
<1>8. ~Active(q.pend) \/ q.pend = task[t].pend BY <1>5, SnapshotAssumption DEF Active
<1>9. Past(t) => q.pc \in {"replaced", "stored", "deleted", "written"} BY <1>5 DEF Past
<1> QED BY <1>3, <1>5, <1>6, <1>7, <1>8, <1>9, MovesStep

LEMMA RecordStep ==
    ASSUME NEW t \in Tasks, IInv, Record(t)
    PROVE  IInv'
<1>1. /\ task[t] \in TaskRecord /\ LocalOK(task[t]) /\ task[t].kind = "refresh" /\ task[t].pc = "stored"
      /\ Goes(t, "written") /\ UNCHANGED <<upstream, bucket, row, source, undone>>
  BY DEF IInv, Record, At
<1>2. [task[t] EXCEPT !.pc = "written"] = [task[t] EXCEPT !.pc = "written", !.pend = task[t].pend]
  BY <1>1 DEF TaskRecord
<1>3. Set(t, [task[t] EXCEPT !.pc = "written", !.pend = task[t].pend]) BY <1>1, <1>2 DEF Goes
<1> QED BY <1>1, <1>3, PlaceStep

LEMMA CloseStep ==
    ASSUME NEW t \in Tasks, IInv, Close(t)
    PROVE  IInv'
<1>1. /\ task[t] \in TaskRecord /\ LocalOK(task[t]) /\ task[t].kind \in {"deliver", "discard"} /\ task[t].pc = "begin"
      /\ UNCHANGED <<upstream, bucket, row, source>>
  BY DEF IInv, Close, At
<1>2. task[t].pend = Same BY <1>1 DEF LocalOK, PendingOf
<1>3. CASE Fails(t, "status") BY <1>1, <1>3, FailsStep DEF bucket, Reasons
<1>4. CASE Goes(t, "closing") /\ UNCHANGED undone
  <2>1. [task[t] EXCEPT !.pc = "closing"] = [task[t] EXCEPT !.pc = "closing", !.pend = Same]
    BY <1>1, <1>2 DEF TaskRecord
  <2>2. Set(t, [task[t] EXCEPT !.pc = "closing", !.pend = Same]) BY <1>4, <2>1 DEF Goes
  <2> QED BY <1>1, <1>4, <2>2, PlaceStep
<1> QED BY <1>3, <1>4 DEF Close

LEMMA GiveUpStep ==
    ASSUME NEW t \in Tasks, IInv, GiveUp(t)
    PROVE  IInv'
<1>1. /\ task[t] \in TaskRecord /\ LocalOK(task[t]) /\ task[t].kind \in {"deliver", "discard"} /\ task[t].pc = "closing"
      /\ UNCHANGED <<upstream, text, row, source>> /\ row \in {None, Closed} \cup 1..Len(text) /\ ~Past(t)
  BY DEF IInv, Typed, GiveUp, At, Past
<1>2. task[t].pend = Same /\ task[t].saw = None /\ Len(text) \in Nat
  BY <1>1 DEF LocalOK, PendingOf, IInv, Typed
<1>3. CASE Goes(t, "written") /\ UNCHANGED <<store, undone>>
  <2>1. [task[t] EXCEPT !.pc = "written"] = [task[t] EXCEPT !.pc = "written", !.pend = Same]
    BY <1>1, <1>2 DEF TaskRecord
  <2>2. Set(t, [task[t] EXCEPT !.pc = "written", !.pend = Same]) BY <1>3, <2>1 DEF Goes
  <2>3. ~Active(task[t].saw) BY <1>2, SnapshotAssumption DEF Active
  <2> QED BY <1>1, <1>3, <2>2, <2>3, PlaceStep DEF bucket
<1>4. CASE Fails(t, "delete") /\ UNCHANGED store BY <1>1, <1>4, FailsStep DEF Reasons
<1>5. CASE /\ Active(row) /\ store' = store \ {row} /\ Set(t, [task[t] EXCEPT !.pc = "deleted", !.saw = row])
           /\ UNCHANGED undone
  <2>1. task'[t] = [task[t] EXCEPT !.pc = "deleted", !.saw = row] /\ task' = [task EXCEPT ![t] = task'[t]]
    BY <1>5 DEF Set, IInv
  <2>2. /\ task'[t] \in TaskRecord /\ task'[t].kind = task[t].kind /\ task'[t].pc = "deleted" /\ task'[t].saw = row
        /\ task'[t].pend = Same /\ task'[t].used = task[t].used
    <3>1. row \in {None, Closed} \cup Nat BY <1>1, <1>2
    <3> QED BY <2>1, <1>1, <1>2, <3>1 DEF TaskRecord
  <2>3. Typed' BY <1>1 DEF IInv, Typed
  <2>4. LocalOK(task[t])'
    <3>1. Active(row) => row \in 1..Len(text) BY <1>1, SnapshotAssumption DEF Active
    <3> QED BY <2>2, <1>1, <3>1 DEF LocalOK, EvidenceOf, PendingOf, Active
  <2>5. Quiet(t)
    <3>1. ~Active(task'[t].pend) BY <2>2, SnapshotAssumption DEF Active
    <3>2. Past(t)' BY <2>2, <1>1 DEF Past
    <3> QED BY <2>1, <2>2, <1>1, <1>2, <1>5, <3>1, <3>2 DEF Quiet
  <2> QED BY <2>3, <2>4, <2>5, QuietStep
<1> QED BY <1>3, <1>4, <1>5 DEF GiveUp

LEMMA MarkStep ==
    ASSUME NEW t \in Tasks, IInv, Mark(t)
    PROVE  IInv'
<1>1. /\ task[t] \in TaskRecord /\ LocalOK(task[t]) /\ task[t].kind \in {"deliver", "discard"} /\ task[t].pc = "deleted"
      /\ UNCHANGED <<upstream, bucket, row, source>>
  BY DEF IInv, Mark, At
<1>2. task[t].pend = Same BY <1>1 DEF LocalOK, PendingOf
<1>3. CASE Fails(t, "cleanup") BY <1>1, <1>3, FailsStep DEF bucket, Reasons
<1>4. CASE Set(t, [task[t] EXCEPT !.pc = "written", !.pend = Marked]) /\ UNCHANGED undone
  <2>1. Marked = Closed /\ Closed # Same BY SnapshotAssumption DEF Marked
  <2> QED BY <1>1, <1>4, <2>1, PlaceStep
<1>5. CASE ~Active(row) /\ Goes(t, "written") /\ UNCHANGED undone
  <2>1. [task[t] EXCEPT !.pc = "written"] = [task[t] EXCEPT !.pc = "written", !.pend = Same]
    BY <1>1, <1>2 DEF TaskRecord
  <2>2. Set(t, [task[t] EXCEPT !.pc = "written", !.pend = Same]) BY <1>5, <2>1 DEF Goes
  <2>3. Active(task[t].saw) => task[t].saw # row BY <1>5 DEF Active
  <2> QED BY <1>1, <1>5, <2>2, <2>3, PlaceStep
<1> QED BY <1>3, <1>4, <1>5 DEF Mark

LEMMA RollbackStep ==
    ASSUME NEW t \in Tasks, IInv, Rollback(t)
    PROVE  IInv'
BY FailsStep DEF Rollback, bucket, Reasons

LEMMA VictimStep ==
    ASSUME NEW t \in Tasks, NEW u \in Tasks, IInv, Victim(t, u)
    PROVE  IInv'
<1>1. UNCHANGED <<upstream, text, store, row, source>> BY DEF Victim, bucket
<1>2. CASE Fails(t, "deadlock") BY <1>1, <1>2, FailsStep DEF Reasons
<1>3. CASE Fails(u, IF task[u].kind = "deliver" THEN "cleanup" ELSE "deadlock")
  <2>1. CASE task[u].kind = "deliver" BY <1>1, <1>3, <2>1, FailsStep DEF Reasons
  <2>2. CASE task[u].kind # "deliver" BY <1>1, <1>3, <2>2, FailsStep DEF Reasons
  <2> QED BY <2>1, <2>2
<1> QED BY <1>2, <1>3 DEF Victim

\* What a commit leaves of the row: nothing new, or a number nobody saw, or,
\* from whoever gives the copy up, the mark.
LEMMA Committed ==
    ASSUME NEW t \in Tasks, IInv, Commit(t)
    PROVE  \/ row' = row /\ task[t].pend = Same
           \/ row' = task[t].pend /\ Active(task[t].pend) /\ task[t].kind \in {"rewrite", "regenerate", "refresh"}
           \/ row' = Closed /\ task[t].pend = Closed /\ task[t].kind \in {"deliver", "discard"}
<1>1. task[t].pc = "written" /\ row' = Seen(t) /\ LocalOK(task[t]) BY DEF Commit, IInv
<1>2. \/ task[t].kind \in {"rewrite", "regenerate", "refresh"} /\ task[t].pend \in Nat \cup {Same}
      \/ task[t].kind \in {"deliver", "discard"} /\ task[t].pend \in {Closed, Same}
  BY <1>1 DEF LocalOK, PendingOf
<1> QED BY <1>1, <1>2, SnapshotAssumption DEF Seen, Active

LEMMA CommitStep ==
    ASSUME NEW t \in Tasks, IInv, Commit(t)
    PROVE  IInv'
<1>1. /\ task[t].pc = "written" /\ LocalOK(task[t]) /\ task[t] \in TaskRecord /\ source' = SourceAfter(t)
      /\ UNCHANGED <<upstream, text, store, undone>>
      /\ task'[t] = [task[t] EXCEPT !.pc = "done", !.pend = Same] /\ task' = [task EXCEPT ![t] = task'[t]]
  BY DEF Commit, Set, bucket, IInv
<1>2. /\ task'[t] \in TaskRecord /\ task'[t].kind = task[t].kind /\ task'[t].pc = "done" /\ task'[t].saw = task[t].saw
      /\ task'[t].pend = Same /\ task'[t].used = task[t].used
  BY <1>1 DEF TaskRecord
<1>3. /\ Len(text) \in Nat /\ {None, Closed, Same} \cap Nat = {} /\ row \in {None, Closed} \cup 1..Len(text)
      /\ \A v \in Tasks : Active(task[v].pend) =>
           /\ task[v].pend \in store /\ task[v].pend \in 1..Len(text) /\ task[v].pend # row
           /\ \A u \in Tasks : task[u].saw # task[v].pend /\ (u # v => task[u].pend # task[v].pend)
      /\ Closed # Same /\ None # Closed
  BY SnapshotAssumption DEF IInv, Typed, Fresh
<1>4. \/ row' = row /\ task[t].pend = Same
      \/ row' = task[t].pend /\ Active(task[t].pend)
      \/ row' = Closed /\ task[t].pend = Closed
  BY Committed
<1>5. Typed'
  <2>1. row' \in {None, Closed} \cup 1..Len(text) BY <1>3, <1>4
  <2>2. task[t].kind \in {"rewrite", "regenerate", "refresh"} => task[t].used > 0 BY <1>1 DEF LocalOK, EvidenceOf
  <2>3. task[t].kind \in {"rewrite", "regenerate", "refresh", "deliver", "discard"} BY <1>1 DEF LocalOK, PendingOf
  <2>4. task[t].used \in Nat /\ task[t].origin \in {"none", "snapshot", "source", "live"} BY <1>1 DEF TaskRecord
  <2>5. source \in [text : Nat, readme : BOOLEAN] /\ (source.readme => source.text > 0) BY DEF IInv, Typed
  <2>6. source' \in [text : Nat, readme : BOOLEAN] /\ (source'.readme => source'.text > 0)
    <3>1. CASE task[t].kind \in {"deliver", "discard"}
      BY <1>1, <2>5, <3>1 DEF SourceAfter
    <3>2. CASE task[t].kind \in {"rewrite", "regenerate", "refresh"}
      BY <1>1, <2>2, <2>4, <2>5, <3>2 DEF SourceAfter
    <3> QED BY <2>3, <3>1, <3>2
  <2> QED BY <1>1, <2>1, <2>6 DEF IInv, Typed
<1>6. ASSUME NEW u \in Tasks PROVE LocalOK(task[u])'
  <2>1. CASE u = t BY <2>1, <1>1, <1>2 DEF LocalOK, EvidenceOf, PendingOf, Active
  <2>2. CASE u # t
    <3>1. task'[u] = task[u] /\ LocalOK(task[u]) BY <1>1, <2>2 DEF IInv
    <3>2. Active(task[u].saw) /\ task[u].saw # row => task[u].saw # row'
      BY <1>3, <1>4 DEF Active
    <3>3. PendingOf(task[u])' BY <3>1, <3>2 DEF LocalOK, PendingOf, Active
    <3>4. EvidenceOf(task[u])' BY <3>1, <1>1 DEF LocalOK, EvidenceOf, Active
    <3> QED BY <3>1, <3>3, <3>4, <1>1 DEF LocalOK, Active
  <2> QED BY <2>1, <2>2
<1>7. Fresh'
  <2> SUFFICES ASSUME NEW v \in Tasks, Active(task'[v].pend)
               PROVE  /\ task'[v].pend \in store' /\ task'[v].pend \in 1..Len(text') /\ task'[v].pend # row'
                      /\ \A u \in Tasks : task'[u].saw # task'[v].pend /\ (u # v => task'[u].pend # task'[v].pend)
    BY DEF Fresh, Active
  <2>1. v # t BY <1>2, SnapshotAssumption DEF Active
  <2>2. task'[v] = task[v] /\ \A u \in Tasks : u # t => task'[u] = task[u] BY <2>1, <1>1 DEF IInv
  <2>3. task'[v].pend # row' BY <2>1, <2>2, <1>3, <1>4 DEF Active
  <2>4. ASSUME NEW u \in Tasks
        PROVE  task'[u].saw # task'[v].pend /\ (u # v => task'[u].pend # task'[v].pend)
    <3>1. CASE u = t BY <3>1, <2>2, <1>2, <1>3, SnapshotAssumption DEF Active
    <3>2. CASE u # t BY <3>2, <2>2, <1>3
    <3> QED BY <3>1, <3>2
  <2> QED BY <2>2, <2>3, <2>4, <1>1, <1>3
<1>8. DanglingHasCause'
  <2> SUFFICES ASSUME Active(row'), row' \notin store'
               PROVE  row' \in undone' \/ \E u \in Tasks : task'[u].saw = row' /\ Past(u)'
    BY DEF DanglingHasCause, Active
  <2>1. row' = row /\ task[t].pend = Same BY <1>1, <1>3, <1>4 DEF Active
  <2>2. row \in undone \/ \E u \in Tasks : task[u].saw = row /\ Past(u)
    BY <2>1, <1>1 DEF IInv, DanglingHasCause, Active
  <2>3. ASSUME NEW u \in Tasks, task[u].saw = row, Past(u)
        PROVE  task'[u].saw = row' /\ Past(u)'
    <3>1. u # t
      <4>1. SUFFICES ASSUME u = t PROVE FALSE OBVIOUS
      <4>2. Active(task[t].saw) /\ task[t].saw = row BY <4>1, <2>1, <2>3 DEF Active
      <4>3. task[t].kind \in {"refresh", "deliver", "discard"} BY <4>1, <2>3 DEF Past
      <4>4. \/ task[t].kind = "refresh" /\ Active(task[t].pend)
            \/ task[t].kind \in {"deliver", "discard"} /\ task[t].saw # row
        BY <4>2, <4>3, <1>1, <2>1 DEF LocalOK, PendingOf
      <4> QED BY <4>2, <4>4, <2>1, SnapshotAssumption DEF Active
    <3>2. task'[u] = task[u] BY <3>1, <1>1 DEF IInv
    <3> QED BY <2>1, <2>3, <3>2 DEF Past
  <2> QED BY <2>1, <2>2, <2>3, <1>1
<1>9. task' \in [Tasks -> TaskRecord] BY <1>1, <1>2 DEF IInv
<1> QED BY <1>5, <1>6, <1>7, <1>8, <1>9 DEF IInv

-----------------------------------------------------------------------------
\* The invariant and what follows from it.

LEMMA Starts == Init => IInv
<1> SUFFICES ASSUME Init PROVE IInv OBVIOUS
<1>1. Typed
  <2>1. text \in Seq(Nat \ {0}) /\ row \in {None, Closed} \cup 1..Len(text)
    <3>1. CASE text = <<1>> /\ row = 1
      <4>1. <<1>> \in Seq(Nat \ {0}) /\ Len(<<1>>) = 1 OBVIOUS
      <4> QED BY <3>1, <4>1
    <3>2. CASE text = << >> /\ row = None
      BY <3>2
    <3> QED BY <3>1, <3>2 DEF Init
  <2>2. PICK v \in {0, 1} : source = [text |-> v, readme |-> v > 0]
    BY DEF Init
  <2>3. source \in [text : Nat, readme : BOOLEAN] /\ (source.readme => source.text > 0)
    <3>1. source.text = v /\ source.readme = (v > 0) BY <2>2
    <3>2. v \in Nat /\ (v > 0) \in BOOLEAN OBVIOUS
    <3> QED BY <2>2, <3>1, <3>2
  <2> QED BY <2>1, <2>3 DEF Init, Typed
<1>2. task = [t \in Tasks |-> Idle] /\ Idle \in TaskRecord BY DEF Init, Idle, TaskRecord, Reasons
<1>3. ASSUME NEW t \in Tasks PROVE LocalOK(task[t])
  <2>1. task[t] = Idle BY <1>2
  <2>2. Idle.kind = "none" /\ Idle.pc = "idle" /\ Idle.saw = None /\ Idle.pend = Same BY DEF Idle
  <2> QED BY <1>2, <2>1, <2>2, SnapshotAssumption DEF LocalOK, EvidenceOf, PendingOf, Active
<1>4. Fresh
  <2>1. \A t \in Tasks : task[t].pend = Same BY <1>2 DEF Idle
  <2> QED BY <2>1, SnapshotAssumption DEF Fresh, Active
<1>5. DanglingHasCause BY SnapshotAssumption DEF Init, DanglingHasCause, Active
<1>6. task \in [Tasks -> TaskRecord] BY <1>2
<1> QED BY <1>1, <1>3, <1>4, <1>5, <1>6 DEF IInv

LEMMA Stutters == IInv /\ UNCHANGED vars => IInv'
BY DEF IInv, vars, bucket, Typed, LocalOK, EvidenceOf, PendingOf, Fresh, DanglingHasCause, Past, Active

\* A decision and a new version of the README are no business of the tasks.
LEMMA OthersStep ==
    ASSUME IInv, Decide \/ Publish
    PROVE  IInv'
<1>1. UNCHANGED <<text, store, row, source, task, undone>> /\ upstream' \in Nat \ {0}
  BY DEF Decide, Publish, bucket, IInv, Typed
<1> QED BY <1>1 DEF IInv, Typed, LocalOK, EvidenceOf, PendingOf, Fresh, DanglingHasCause, Past, Active

LEMMA Preserves == IInv /\ [Next]_vars => IInv'
<1> SUFFICES ASSUME IInv, [Next]_vars PROVE IInv' OBVIOUS
<1>1. ASSUME NEW t \in Tasks, Step(t) PROVE IInv'
  BY <1>1, BeginStep, LookStep, WriteStep, FetchStep, ReplaceStep, StoreStep, RecordStep, CloseStep, GiveUpStep,
     MarkStep, CommitStep, RollbackStep, VictimStep DEF Step
<1> QED BY <1>1, OthersStep, Stutters DEF Next

THEOREM Invariant == Spec => []IInv
BY Starts, Preserves, PTL DEF Spec

\* A row whose object is gone is about to be replaced or given up, or was
\* left by a task that was rolled back (replace_github_readme,
\* discard_draft_for_user, release_source_snapshot_after_delivery).
THEOREM Dangling == Spec => []DanglingHasCause
<1>1. IInv => DanglingHasCause BY DEF IInv
<1> QED BY <1>1, Invariant, PTL

\* A rewrite that saw the copy is written from it, and none from nothing
\* (process_draft_rewrite_job, restore_draft_source_snapshot).
THEOREM Evidence == Spec => []NoWeakEvidence
<1>1. IInv => NoWeakEvidence BY DEF IInv, LocalOK, EvidenceOf, NoWeakEvidence, At
<1> QED BY <1>1, Invariant, PTL

\* Only a commit writes the row.
LEMMA RowChanges ==
    ASSUME [Next]_vars, row' # row
    PROVE  \E t \in Tasks : Commit(t)
BY DEF Next, Step, Begin, Look, Write, Fetch, Replace, Store, Record, Close, GiveUp, Mark, Rollback, Victim, Decide, Publish, vars

\* The copy is kept until a delivery or a discard commits
\* (DraftSourceSnapshotStore, close_draft_source_snapshot).
THEOREM Kept == Spec => KeptUntilReleased
<1>1. ASSUME IInv, [Next]_vars
      PROVE  [Active(row) => \/ Active(row')
                             \/ row' = Closed /\ \E t \in Tasks : At(t, {"deliver", "discard"}, "written") /\ task'[t].pc = "done"]_row
  <2> SUFFICES ASSUME row' # row, Active(row)
               PROVE  \/ Active(row')
                      \/ row' = Closed /\ \E t \in Tasks : At(t, {"deliver", "discard"}, "written") /\ task'[t].pc = "done"
    OBVIOUS
  <2>1. PICK t \in Tasks : Commit(t) BY <1>1, RowChanges
  <2>2. \/ row' = task[t].pend /\ Active(task[t].pend)
        \/ row' = Closed /\ task[t].kind \in {"deliver", "discard"}
    BY <1>1, <2>1, Committed
  <2>3. task[t].pc = "written" /\ task'[t].pc = "done"
    <3>1. task[t].pc = "written" /\ task' = [task EXCEPT ![t] = [task[t] EXCEPT !.pc = "done", !.pend = Same]] /\ task[t] \in TaskRecord
      BY <1>1, <2>1 DEF Commit, Set, IInv
    <3>2. task'[t] = [task[t] EXCEPT !.pc = "done", !.pend = Same] BY <1>1, <3>1 DEF IInv
    <3> QED BY <3>1, <3>2 DEF TaskRecord
  <2> QED BY <2>2, <2>3 DEF At, Active
<1> QED BY <1>1, Invariant, PTL DEF Spec, KeptUntilReleased
=============================================================================
