---------------------------- MODULE SourceSnapshots ----------------------------
(***************************************************************************)
(* The private copy of the README a draft was written from                 *)
(* (services/source_snapshots.py): an object in a bucket and one row that  *)
(* names it.  The row is written in the transaction of whoever needs it -  *)
(* a rewrite, a refresh of the source, a delivery or a discard - and the   *)
(* bucket knows no transactions: what is deleted there stays deleted when  *)
(* the transaction is rolled back, what is uploaded stays.                 *)
(*                                                                         *)
(* One draft and its tasks.  An object is known by its number, a text by   *)
(* the version of the README it holds; 0 is the short description.         *)
(***************************************************************************)
EXTENDS Integers, Sequences

CONSTANTS Tasks,       \* jobs and requests that work on the draft
          Kinds,       \* what they may be
          None,        \* no row, nobody
          Closed,      \* a row whose object is given up
          Same,        \* the row is not touched
          MaxUploads,  \* bound on objects ever uploaded
          MaxVersions, \* bound on versions of the README
          Failures     \* whether calls and commits may fail

ASSUME SnapshotAssumption ==
    /\ Kinds \subseteq {"rewrite", "regenerate", "refresh", "deliver", "discard"}
    /\ MaxUploads \in Nat /\ MaxVersions \in Nat \ {0} /\ Failures \in BOOLEAN
    /\ {None, Closed, Same} \cap Nat = {} /\ None # Closed /\ None # Same /\ Closed # Same /\ None \notin Tasks

Keys == 1..MaxUploads

VARIABLES
    upstream, \* version of the README at its origin
    text,     \* texts of the objects ever uploaded
    store,    \* objects in the bucket
    row,      \* the committed row
    source,   \* the committed source record: its text, and whether it may be captured
    status,   \* status of the draft
    lock,     \* who holds the source record, the row and the draft
    task,     \* per task: its state
    undone    \* objects that were deleted for a row that was not changed

bucket == <<text, store>>
vars == <<upstream, bucket, row, source, status, lock, task, undone>>

Idle == [kind |-> "none", pc |-> "idle", saw |-> None, used |-> 0, origin |-> "none", pend |-> Same, why |-> "none"]
Free == [r \in {"source", "row", "draft"} |-> None]

Init ==
    /\ upstream = 1 /\ status = "editable" /\ lock = Free /\ undone = {}
    /\ \/ text = <<1>> /\ store = {1} /\ row = 1     \* collected with its README
       \/ text = << >> /\ store = {} /\ row = None   \* or without a copy of it
    /\ source \in {[text |-> v, readme |-> v > 0] : v \in IF row = None THEN {0, 1} ELSE {1}}
    /\ task = [t \in Tasks |-> Idle]

At(t, kinds, pc) == task[t].kind \in kinds /\ task[t].pc = pc
Set(t, r) == task' = [task EXCEPT ![t] = r]
Goes(t, pc) == Set(t, [task[t] EXCEPT !.pc = pc])
Active(r) == r \in Nat

\* The states of a task that has deleted the object it saw.
Past(t) == task[t].kind \in {"refresh", "deliver", "discard"} /\ task[t].pc \in {"replaced", "stored", "deleted", "written"}

\* A rollback gives up the locks and the pending row; the bucket stays as it is.
Release(t) == lock' = [r \in DOMAIN lock |-> IF lock[r] = t THEN None ELSE lock[r]]
Fails(t, why) ==
    /\ Set(t, [task[t] EXCEPT !.pc = "failed", !.why = why, !.pend = Same])
    /\ Release(t)
    /\ undone' = IF Past(t) /\ Active(row) /\ row = task[t].saw /\ row \notin store THEN undone \cup {row} ELSE undone

Upload(v) == Len(text) < MaxUploads /\ text' = Append(text, v) /\ store' = store \cup {Len(text) + 1}
New == Len(text) + 1

---------------------------------------------------------------------------
(* What begins: status is checked when a task is asked for.                *)

Begin(t, kind) ==
    /\ task[t].pc = "idle" /\ kind \in Kinds
    /\ kind \in {"refresh", "discard"} => status = "editable"
    /\ kind = "deliver" => status \in {"ready", "delivered"}
    /\ Set(t, [Idle EXCEPT !.kind = kind, !.pc = "begin"])
    /\ UNCHANGED <<upstream, bucket, row, source, status, lock, undone>>

---------------------------------------------------------------------------
(* A rewrite: a look for evidence, minutes of model calls, a transaction.  *)

\* Before it looks, a rewrite copies the text of the source record, if that
\* is a README; the session of the look is closed without a commit.
Captures(t) == task[t].kind = "rewrite" /\ ~Active(row) /\ source.readme

\* The text a rewrite works with, and where it is from.
Uses(t, v, from) == Set(t, [task[t] EXCEPT !.pc = "generating", !.saw = row, !.used = v, !.origin = from])

\* Mutant: an unreadable row is taken for no row.
RestoreWeak(t) ==
    \/ row \in store /\ Uses(t, text[row], "snapshot") /\ UNCHANGED <<lock, undone>>
    \/ (row \notin store \/ Failures) /\ Uses(t, source.text, "source") /\ UNCHANGED <<lock, undone>>

\* A row that is active is read or the rewrite fails.
Restore(t) ==
    \/ row \in store /\ Uses(t, text[row], "snapshot") /\ UNCHANGED <<lock, undone>>
    \/ (row \notin store \/ Failures) /\ Fails(t, "unreadable")

LookRestores(t) == Active(row) /\ Restore(t) /\ UNCHANGED bucket

\* With a row that is closed the new object is not recorded, without one it
\* is, and read, until the session ends.
LookCaptures(t) ==
    /\ Captures(t)
    /\ \/ /\ lock["row"] = None /\ Upload(source.text)
          /\ Uses(t, source.text, IF row = None THEN "snapshot" ELSE "source")
          /\ UNCHANGED <<lock, undone>>
       \/ (Failures \/ lock["row"] # None) /\ Fails(t, "capture") /\ UNCHANGED bucket

LookWithoutRow(t) ==
    /\ ~Active(row) /\ ~Captures(t) /\ UNCHANGED bucket
    /\ \/ source.text > 0 /\ Uses(t, source.text, "source") /\ UNCHANGED <<lock, undone>>
       \/ source.text = 0 /\ task[t].kind = "rewrite" /\ Uses(t, upstream, "live") /\ UNCHANGED <<lock, undone>>
       \/ source.text = 0 /\ (task[t].kind = "regenerate" \/ Failures) /\ Fails(t, "evidence")

Look(t) ==
    /\ At(t, {"rewrite", "regenerate"}, "begin")
    /\ LookRestores(t) \/ LookCaptures(t) \/ LookWithoutRow(t)
    /\ UNCHANGED <<upstream, row, source, status>>

\* A text that is no copy is captured with the new version of the draft.
Copies(t) == task[t].origin = "live" \/ (task[t].origin = "source" /\ source.readme)

Write(t) ==
    /\ At(t, {"rewrite", "regenerate"}, "generating")
    /\ lock["source"] = None /\ lock["draft"] = None
    /\ \/ /\ status # "discarded"
          /\ lock' = [lock EXCEPT !["source"] = t, !["draft"] = t,
                                  !["row"] = IF Copies(t) /\ row = None THEN t ELSE @]
          /\ IF Copies(t) /\ ~Active(row)
             THEN Upload(task[t].used) /\ Set(t, [task[t] EXCEPT !.pc = "written", !.pend = IF row = None THEN New ELSE Same])
             ELSE Goes(t, "written") /\ UNCHANGED bucket
          /\ UNCHANGED undone
       \/ (status = "discarded" \/ Failures) /\ Fails(t, "write") /\ UNCHANGED bucket
    /\ UNCHANGED <<upstream, row, source, status>>

---------------------------------------------------------------------------
(* A refresh of the source, which leaves the text of the draft alone.      *)

Fetch(t) ==
    /\ At(t, {"refresh"}, "begin")
    /\ \/ Set(t, [task[t] EXCEPT !.pc = "fetched", !.used = upstream]) /\ UNCHANGED <<lock, undone>>
       \/ Failures /\ Fails(t, "fetch")
    /\ UNCHANGED <<upstream, bucket, row, source, status>>

\* Mutant: the row is marked instead of deleted.
ReplacedMarked == IF Active(row) THEN Closed ELSE Same

\* What is left of the row once the old object is gone: it is deleted, or
\* the insert would find it and change nothing.
Replaced == IF Active(row) THEN None ELSE Same

\* The source is saved, the old object deleted and then its row.
Replace(t) ==
    /\ At(t, {"refresh"}, "fetched") /\ lock["source"] = None /\ lock["row"] = None
    /\ \/ /\ lock' = [lock EXCEPT !["source"] = t, !["row"] = IF Active(row) THEN t ELSE @]
          /\ store' = store \ {row}
          /\ Set(t, [task[t] EXCEPT !.pc = "replaced", !.saw = row, !.pend = Replaced])
          /\ UNCHANGED undone
       \/ Failures /\ Active(row) /\ Fails(t, "replace") /\ UNCHANGED store
    /\ UNCHANGED <<upstream, text, row, source, status>>

\* The row as the transaction of a task sees it.
Seen(t) == IF task[t].pend = Same THEN row ELSE task[t].pend

\* The new object; its row is written if there is none.
Store(t) ==
    /\ At(t, {"refresh"}, "replaced")
    /\ \/ /\ Upload(task[t].used)
          /\ lock' = [lock EXCEPT !["row"] = IF Seen(t) = None THEN t ELSE @]
          /\ Set(t, [task[t] EXCEPT !.pc = "stored", !.pend = IF Seen(t) = None THEN New ELSE @])
          /\ UNCHANGED undone
       \/ Failures /\ Fails(t, "store") /\ UNCHANGED bucket
    /\ UNCHANGED <<upstream, row, source, status>>

\* The version of the draft is raised last.
Record(t) ==
    /\ At(t, {"refresh"}, "stored") /\ lock["draft"] = None
    /\ lock' = [lock EXCEPT !["draft"] = t] /\ Goes(t, "written")
    /\ UNCHANGED <<upstream, bucket, row, source, status, undone>>

---------------------------------------------------------------------------
(* A delivery or a discard gives the copy up.                              *)

\* The draft is written first: the remote draft exists by now.
Close(t) ==
    /\ At(t, {"deliver", "discard"}, "begin") /\ lock["draft"] = None
    /\ \/ task[t].kind = "deliver" /\ lock' = [lock EXCEPT !["draft"] = t] /\ Goes(t, "closing") /\ UNCHANGED undone
       \/ /\ task[t].kind = "discard" /\ status = "editable"
          /\ lock' = [lock EXCEPT !["draft"] = t] /\ Goes(t, "closing") /\ UNCHANGED undone
       \/ task[t].kind = "discard" /\ status # "editable" /\ Fails(t, "status")
    /\ UNCHANGED <<upstream, bucket, row, source, status>>

\* A delivery goes on when the object cannot be deleted.
GiveUp(t) ==
    /\ At(t, {"deliver", "discard"}, "closing")
    /\ \/ ~Active(row) /\ Goes(t, "written") /\ UNCHANGED <<store, lock, undone>>
       \/ /\ Active(row) /\ store' = store \ {row}
          /\ Set(t, [task[t] EXCEPT !.pc = "deleted", !.saw = row]) /\ UNCHANGED <<lock, undone>>
       \/ /\ Failures /\ Active(row) /\ UNCHANGED store
          /\ IF task[t].kind = "deliver" THEN Goes(t, "written") /\ UNCHANGED <<lock, undone>> ELSE Fails(t, "delete")
    /\ UNCHANGED <<upstream, text, row, source, status>>

\* Mutant: the row is not marked.
MarkedNot == Same

\* How the row is left by whoever gives it up.
Marked == Closed

\* The row is looked for again and marked.  One that was replaced meanwhile
\* is marked with its object in place if the look comes after, and cannot be
\* updated if it came before: the session is of no use then, and the
\* exception that a delivery swallows comes back at its commit.
Mark(t) ==
    /\ At(t, {"deliver", "discard"}, "deleted") /\ lock["row"] = None
    /\ \/ /\ Active(row)
          /\ lock' = [lock EXCEPT !["row"] = t] /\ Set(t, [task[t] EXCEPT !.pc = "written", !.pend = Marked])
          /\ UNCHANGED undone
       \/ ~Active(row) /\ Goes(t, "written") /\ UNCHANGED <<lock, undone>>
       \/ row # task[t].saw /\ row # Closed /\ Fails(t, "cleanup")
    /\ UNCHANGED <<upstream, bucket, row, source, status>>

---------------------------------------------------------------------------
(* Commits, rollbacks, and what else happens to a draft.                   *)

SourceAfter(t) ==
    IF task[t].kind \in {"deliver", "discard"} THEN source
    ELSE [text |-> task[t].used,
          readme |-> \/ task[t].kind = "refresh" \/ task[t].origin = "live"
                     \/ task[t].origin = "source" /\ source.readme]

\* A refresh writes the status only if the one it read was another.
StatusAfter(t) ==
    CASE task[t].kind = "deliver" -> {"delivered"}
      [] task[t].kind = "discard" -> {"discarded"}
      [] task[t].kind = "refresh" -> {status, "editable"}
      [] OTHER -> {"editable"}

Commit(t) ==
    /\ task[t].pc = "written"
    /\ row' = Seen(t) /\ source' = SourceAfter(t) /\ status' \in StatusAfter(t)
    /\ Release(t) /\ Set(t, [task[t] EXCEPT !.pc = "done", !.pend = Same])
    /\ UNCHANGED <<upstream, bucket, undone>>

\* A crash, a cancellation or a commit that fails.
Rollback(t) ==
    /\ Failures /\ task[t].pc \in {"replaced", "stored", "closing", "deleted", "written"}
    /\ Fails(t, "rollback")
    /\ UNCHANGED <<upstream, bucket, row, source, status>>

\* A refresh holds the row and waits for the draft, a delivery the other way
\* round: the database fails one of them.
Victim(t, u) ==
    /\ At(t, {"refresh"}, "stored") /\ At(u, {"deliver", "discard"}, "deleted")
    /\ lock["draft"] = u /\ lock["row"] = t
    /\ Fails(t, "deadlock") \/ Fails(u, IF task[u].kind = "deliver" THEN "cleanup" ELSE "deadlock")
    /\ UNCHANGED <<upstream, bucket, row, source, status>>

\* Approval, its revocation, and the discard or deletion that keeps the copy.
Decide ==
    /\ lock["draft"] = None
    /\ \/ status = "editable" /\ status' \in {"ready", "discarded"}
       \/ status = "ready" /\ status' = "editable"
    /\ UNCHANGED <<upstream, bucket, row, source, lock, task, undone>>

Publish ==
    /\ upstream < MaxVersions /\ upstream' = upstream + 1
    /\ UNCHANGED <<bucket, row, source, status, lock, task, undone>>

Step(t) ==
    \/ (\E kind \in Kinds : Begin(t, kind)) \/ Look(t) \/ Write(t) \/ Fetch(t) \/ Replace(t) \/ Store(t) \/ Record(t)
    \/ Close(t) \/ GiveUp(t) \/ Mark(t) \/ Commit(t) \/ Rollback(t) \/ (\E u \in Tasks : Victim(t, u))

Next == (\E t \in Tasks : Step(t)) \/ Decide \/ Publish

Spec == Init /\ [][Next]_vars

---------------------------------------------------------------------------
(* What is promised.                                                       *)

Versions == 0..MaxVersions
TypeOK ==
    /\ upstream \in 1..MaxVersions /\ text \in Seq(Versions) /\ Len(text) <= MaxUploads
    /\ store \subseteq 1..Len(text) /\ undone \subseteq 1..Len(text)
    /\ row \in {None, Closed} \cup 1..Len(text)
    /\ source \in [text : Versions, readme : BOOLEAN]
    /\ status \in {"editable", "ready", "delivered", "discarded"}
    /\ lock \in [{"source", "row", "draft"} -> Tasks \cup {None}]
    /\ task \in [Tasks -> [kind : {"none", "rewrite", "regenerate", "refresh", "deliver", "discard"},
                           pc : {"idle", "begin", "generating", "fetched", "replaced", "stored",
                                 "closing", "deleted", "written", "done", "failed"},
                           saw : {None, Closed} \cup 1..Len(text), used : Versions,
                           origin : {"none", "snapshot", "source", "live"},
                           pend : {None, Closed, Same} \cup 1..Len(text),
                           why : STRING]]

\* The copy is kept from the first reading to the delivery or the discard: no
\* refresh, rewrite or failure takes the row away.
KeptUntilReleased ==
    [][Active(row) => \/ Active(row')
                      \/ row' = Closed /\ \E t \in Tasks : At(t, {"deliver", "discard"}, "written") /\ task'[t].pc = "done"]_row

\* An active row whose object is gone belongs to a task that is about to
\* replace or give it up, or to one that was rolled back after the deletion.
DanglingHasCause ==
    Active(row) /\ row \notin store =>
        \/ row \in undone
        \/ \E t \in Tasks : task[t].saw = row /\ Past(t)

\* A rewrite that saw a copy was written from it and from nothing weaker, and
\* none is written from the short description alone.
NoWeakEvidence ==
    \A t \in Tasks : At(t, {"rewrite", "regenerate"}, "done") =>
        /\ task[t].used > 0
        /\ Active(task[t].saw) => task[t].used = text[task[t].saw]

\* Claims the code does not keep.

\* "first stored, then generated" (process_draft_regeneration_job).
CapturedFirst == \A t \in Tasks : At(t, {"rewrite"}, "done") /\ task[t].origin = "snapshot" => row # None

\* "a failed cleanup is only logged and does not affect the delivery" (release_source_snapshot_after_delivery).
CleanupIsHarmless == \A t \in Tasks : task[t].kind = "deliver" => task[t].why # "cleanup"

\* "the next save can write the new snapshot" (delete_draft_source_snapshot): a refresh stores what it fetched.
RefreshStores ==
    [][\A t \in Tasks : At(t, {"refresh"}, "written") /\ task'[t].pc = "done" => row' \in Nat /\ text[row'] = task[t].used]_vars

\* "the old one is kept" (replace_github_readme, refresh_draft_source): a refresh that fails leaves the copy readable.
FailedRefreshKeeps == undone = {} \/ row \notin undone

\* "only while the draft is reviewed" (DraftSourceSnapshotStore): closed drafts have no copy.
ClosedHasNoCopy == status = "discarded" => ~Active(row)

\* Every object is named by the row or by a task under way.
NoOrphan ==
    \A k \in store : row = k \/ \E t \in Tasks : task[t].pend = k
=============================================================================
