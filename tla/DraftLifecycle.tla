--------------------------- MODULE DraftLifecycle ---------------------------
(***************************************************************************)
(* The rows a draft owns in the database and the operations of             *)
(* ContentRepository that write them: the draft itself (status, version),  *)
(* its revision snapshots, its review events with their idempotency keys,  *)
(* the manual publication records, the project introductions used to       *)
(* deduplicate sources, and the WeChat delivery row.  The WeChat draft box *)
(* outside the system is the variable remote.                              *)
(*                                                                         *)
(* An action is one committed transaction of one handler, run alone; how   *)
(* deliveries and choices overlap is the subject of DraftAssets, how       *)
(* reviews and rewrites do that of RewriteReview.                          *)
(***************************************************************************)
EXTENDS Naturals, FiniteSets

CONSTANTS Drafts,       \* draft ids
          Sources,      \* source items
          SourceOf,     \* the source item of each draft
          HashOf,       \* content hash of each source item
          Github,       \* the source items of kind "github"
          Covers,       \* publication assets a selection may pick as cover
          Keys,         \* idempotency keys of web clients and of review runs
          MaxVersion,   \* bound on draft versions
          MaxMedia      \* bound on drafts ever created in the WeChat draft box

ASSUME LifecycleAssumption ==
    /\ SourceOf \in [Drafts -> Sources]
    /\ Github \subseteq Sources
    /\ MaxVersion \in Nat \ {0}
    /\ MaxMedia \in Nat \ {0}

NoCover  == "none"
NoDraft  == "none"
Absent   == "absent"

ASSUME NoneAssumption == NoCover \notin Covers /\ NoDraft \notin Drafts

Editable == {"pending_review", "needs_revision"}
Closed   == {"published", "discarded", "deleted"}
Deliverable == {"ready_to_publish", "draftbox_created"}
Statuses == Editable \cup Closed \cup Deliverable
Live(s)  == s \notin {Absent, "discarded", "deleted"}

RevisionKinds == {"source_regeneration", "review_revision", "source_refresh"}

JobStates == {"none", "assets_selected", "cover_uploaded", "draft_created",
              "draft_failed", "superseded", "delivery_stale"}

\* The WeChat delivery row of a draft; "none" stands for no row.
Job   == [state : JobStates, cover : Covers \cup {NoCover},
          uploaded : BOOLEAN, media : 0..MaxMedia]
NoJob == [state |-> "none", cover |-> NoCover, uploaded |-> FALSE, media |-> 0]

\* Review events carry the idempotency key of the command that made them.
Actions == {"approve", "reject", "discard", "revoke"}
ReviewKeys == [by : {"client"}, key : Keys]
              \cup [by : {"agent"}, draft : Drafts, action : Actions]
              \cup [by : {"delete"}, draft : Drafts]

VARIABLES
    status,     \* DraftRow.status
    version,    \* DraftRow.version
    revisions,  \* DraftRevisionRow: version -> kind, per draft
    approved,   \* history: the versions of each draft somebody approved
    events,     \* ReviewEventRow
    pubs,       \* PublicationRecordRow
    intro,      \* ProjectIntroductionRow: the draft that introduced a source
    removed,    \* history: sources an operator took out of the dedup library
    job,        \* WechatPublicationJobRow
    remote,     \* the WeChat draft box: media id -> what it shows
    said        \* what the chat agent's last review decision tool reported

vars == <<status, version, revisions, approved, events, pubs, intro, removed,
          job, remote, said>>

NoReply == [draft |-> NoDraft, action |-> "none"]
Replies == [draft : Drafts, action : Actions] \cup {NoReply}
Shown   == [draft : Drafts, version : 1..MaxVersion]
NotThere == [draft |-> NoDraft, version |-> 0]

EventsOf(d) == {e \in events : e.draft = d}
PubsOf(d)   == {p \in pubs : p.draft = d}

Init ==
    /\ status    = [d \in Drafts |-> Absent]
    /\ version   = [d \in Drafts |-> 0]
    /\ revisions = [d \in Drafts |-> {}]
    /\ approved  = [d \in Drafts |-> {}]
    /\ events    = {}
    /\ pubs      = {}
    /\ intro     = [s \in Sources |-> NoDraft]
    /\ removed   = {}
    /\ job       = [d \in Drafts |-> NoJob]
    /\ remote    = [m \in 1..MaxMedia |-> NotThere]
    /\ said      = NoReply

-----------------------------------------------------------------------------
(* Drafts and their versions                                               *)

\* Mutant: only drafts waiting for review count as duplicates.
CreateBesideReviewed(d) ==
    /\ status[d] = Absent
    /\ \A e \in Drafts : status[e] = "pending_review" => HashOf[SourceOf[e]] # HashOf[SourceOf[d]]
    /\ status'  = [status EXCEPT ![d] = "pending_review"]
    /\ version' = [version EXCEPT ![d] = 1]
    /\ said'    = NoReply
    /\ UNCHANGED <<revisions, approved, events, pubs, intro, removed, job, remote>>

\* create_draft: a draft that is neither discarded nor deleted and whose
\* source has the same content hash keeps a second one from being created.
CreateDraft(d) ==
    /\ status[d] = Absent
    /\ \A e \in Drafts : Live(status[e]) => HashOf[SourceOf[e]] # HashOf[SourceOf[d]]
    /\ status'  = [status EXCEPT ![d] = "pending_review"]
    /\ version' = [version EXCEPT ![d] = 1]
    /\ said'    = NoReply
    /\ UNCHANGED <<revisions, approved, events, pubs, intro, removed, job, remote>>

\* Mutant: the status is not reset.
NewVersionKeepsStatus(d) ==
    /\ version[d] < MaxVersion
    /\ version' = [version EXCEPT ![d] = @ + 1]
    /\ said'    = NoReply
    /\ UNCHANGED <<status, approved, events, pubs, intro, removed, remote>>

\* Every operation that makes a new version sends the draft back to review.
NewVersion(d) ==
    /\ version[d] < MaxVersion
    /\ version' = [version EXCEPT ![d] = @ + 1]
    /\ status'  = [status EXCEPT ![d] = "pending_review"]
    /\ said'    = NoReply
    /\ UNCHANGED <<approved, events, pubs, intro, removed, remote>>

Snapshot(d, kind) ==
    revisions' = [revisions EXCEPT ![d] = @ \cup {<<version[d] + 1, kind>>}]

\* edit_draft: a manual edit raises the version and leaves no snapshot.
EditDraft(d) ==
    /\ status[d] \in Editable
    /\ NewVersion(d)
    /\ UNCHANGED <<revisions, job>>

ApplyAutoRevision(d) ==
    /\ status[d] \in Editable
    /\ NewVersion(d)
    /\ Snapshot(d, "review_revision")
    /\ UNCHANGED job

\* invalidate_unfinished_wechat_publication_for_regeneration and
\* mark_wechat_publication_stale.
Invalidated(j) ==
    CASE j.state = "none" -> j
      [] j.state # "none" /\ j.media # 0 -> [j EXCEPT !.state = "delivery_stale"]
      [] OTHER -> [NoJob EXCEPT !.state = "superseded"]

\* Mutant: regenerate_draft refuses published drafts only.
RegenerateDiscarded(d, illustrate) ==
    /\ status[d] \in Editable \cup Deliverable \cup {"discarded"}
    /\ NewVersion(d)
    /\ Snapshot(d, "source_regeneration")
    /\ job' = IF illustrate THEN [job EXCEPT ![d] = Invalidated(@)] ELSE job

\* The regeneration job: a new text, and when new illustrations were asked for
\* the old selection of images is voided.
RegenerateDraft(d, illustrate) ==
    /\ status[d] \in Editable \cup Deliverable
    /\ NewVersion(d)
    /\ Snapshot(d, "source_regeneration")
    /\ job' = IF illustrate THEN [job EXCEPT ![d] = Invalidated(@)] ELSE job

\* record_source_refresh, which the chat tool offers for editable drafts only.
RefreshSource(d) ==
    /\ status[d] \in Editable
    /\ NewVersion(d)
    /\ Snapshot(d, "source_refresh")
    /\ job' = [job EXCEPT ![d] = Invalidated(@)]

\* The reselection tool of the chat agent voids the selection and leaves the
\* rest to the delivery job.
VoidSelection(d) ==
    /\ status[d] \in Deliverable
    /\ job[d].state # "none"
    /\ job' = [job EXCEPT ![d] = Invalidated(@)]
    /\ said' = NoReply
    /\ UNCHANGED <<status, version, revisions, approved, events, pubs, intro,
                   removed, remote>>

-----------------------------------------------------------------------------
(* Review                                                                  *)

\* Mutant: a rejection gets a status of its own.
OutcomeRejected(action) ==
    CASE action = "approve" -> "ready_to_publish"
      [] action = "discard" -> "discarded"
      [] OTHER -> "rejected"

Outcome(action) ==
    CASE action = "approve" -> "ready_to_publish"
      [] action = "discard" -> "discarded"
      [] OTHER -> "needs_revision"

\* Mutant: a delivered draft may be revoked.
DecideAnywhere(d, action, key) ==
    /\ \/ status[d] \in Deliverable /\ action = "revoke"
       \/ status[d] \in Editable /\ action # "revoke"
    /\ status' = [status EXCEPT ![d] = Outcome(action)]
    /\ approved' = IF action = "approve"
                   THEN [approved EXCEPT ![d] = @ \cup {version[d]}] ELSE approved
    /\ events' = events \cup {[draft |-> d, action |-> action, key |-> key]}

\* review_draft for a key not seen before.
Decide(d, action, key) ==
    /\ \/ status[d] = "ready_to_publish" /\ action = "revoke"
       \/ status[d] \in Editable /\ action # "revoke"
    /\ status' = [status EXCEPT ![d] = Outcome(action)]
    /\ approved' = IF action = "approve"
                   THEN [approved EXCEPT ![d] = @ \cup {version[d]}] ELSE approved
    /\ events' = events \cup {[draft |-> d, action |-> action, key |-> key]}

KeyUsed(key) == \E e \in events : e.key = key

\* POST /drafts/{id}/review, whose client chooses the key, and the approval of
\* the automatic review, whose key is the run.  A key seen before returns the
\* draft unchanged, and is refused for another draft.
Review(d, action, k) ==
    LET key == [by |-> "client", key |-> k] IN
    /\ ~KeyUsed(key)
    /\ Decide(d, action, key)
    /\ said' = NoReply
    /\ UNCHANGED <<version, revisions, pubs, intro, removed, job, remote>>

\* approve_draft, discard_draft and revoke_approval of the chat agent: the key
\* is the draft and the action, and the tool reports the action as done
\* whatever review_draft did.
AgentAllows(d, action) ==
    \/ action = "approve" /\ status[d] \in Editable
    \/ action = "discard" /\ status[d] \in Editable \cup {"ready_to_publish"}
    \/ action = "revoke"  /\ status[d] = "ready_to_publish"

AgentReview(d, action) ==
    LET key == [by |-> "agent", draft |-> d, action |-> action] IN
    /\ AgentAllows(d, action)
    /\ \/ ~KeyUsed(key) /\ Decide(d, action, key)
       \/ KeyUsed(key) /\ UNCHANGED <<status, approved, events>>
    /\ said' = [draft |-> d, action |-> action]
    /\ UNCHANGED <<version, revisions, pubs, intro, removed, job, remote>>

\* delete_draft: refused once there is a publication record or a delivery row.
DeleteDraft(d) ==
    /\ status[d] \in Editable \cup {"ready_to_publish", "draftbox_created", "discarded"}
    /\ PubsOf(d) = {}
    /\ job[d].state = "none"
    /\ status' = [status EXCEPT ![d] = "deleted"]
    /\ events' = events \cup {[draft |-> d, action |-> "delete",
                               key |-> [by |-> "delete", draft |-> d]]}
    /\ said' = NoReply
    /\ UNCHANGED <<version, revisions, approved, pubs, intro, removed, job, remote>>

-----------------------------------------------------------------------------
(* Publication                                                             *)

\* record_manual_publication for a key not seen before; only GitHub sources
\* get an introduction.
RecordManualPublication(d, k) ==
    /\ \A p \in pubs : p.key # k
    /\ status[d] = "ready_to_publish"
    /\ pubs'   = pubs \cup {[draft |-> d, key |-> k]}
    /\ status' = [status EXCEPT ![d] = "published"]
    /\ intro'  = IF SourceOf[d] \in Github
                 THEN [intro EXCEPT ![SourceOf[d]] = d] ELSE intro
    /\ said'   = NoReply
    /\ UNCHANGED <<version, revisions, approved, events, removed, job, remote>>

\* delete_project_introduction, from the settings page.
RemoveIntroduction(s) ==
    /\ intro[s] # NoDraft
    /\ intro'   = [intro EXCEPT ![s] = NoDraft]
    /\ removed' = removed \cup {s}
    /\ said'    = NoReply
    /\ UNCHANGED <<status, version, revisions, approved, events, pubs, job, remote>>

-----------------------------------------------------------------------------
(* Delivery to the WeChat draft box                                        *)

\* ensure_agent_selected_wechat_assets with save_wechat_asset_selection.
Selected(j, c) ==
    IF \/ j.cover # NoCover /\ j.state \notin {"superseded", "delivery_stale"}
       \/ j.media # 0 /\ j.state # "delivery_stale"
    THEN j
    ELSE [j EXCEPT !.state = "assets_selected", !.cover = c,
                   !.uploaded = (@ /\ j.cover = c)]

\* save_wechat_publication keeps the media id of an existing remote draft.
Uploaded(j) == [j EXCEPT !.state = "cover_uploaded", !.uploaded = TRUE]
Failed(j)   == [j EXCEPT !.state = "draft_failed"]

\* The automatic review picks the images of a delivery before it starts.
SelectForReview(d) ==
    /\ status[d] # Absent
    /\ \E c \in Covers : job' = [job EXCEPT ![d] = Selected(@, c)]
    /\ said' = NoReply
    /\ UNCHANGED <<status, version, revisions, approved, events, pubs, intro,
                   removed, remote>>

\* POST /wechat/publications/{draft}/prepare.  The upload may fail; a draft
\* that is not approved is refused only after the upload, and the selection
\* made on the way is committed.
PrepareSelection(d) ==
    /\ status[d] # Absent
    /\ \E c \in Covers : LET j == Selected(job[d], c) IN
         \E k \in IF j.uploaded THEN {j}
                  ELSE {Failed(j), IF status[d] \in Deliverable THEN Uploaded(j) ELSE j} :
            job' = [job EXCEPT ![d] = k]
    /\ said' = NoReply
    /\ UNCHANGED <<status, version, revisions, approved, events, pubs, intro,
                   removed, remote>>

\* The id of the next remote draft: they are numbered in the order they are made.
FreeMedia == {m \in 1..MaxMedia : remote[m] = NotThere /\ \A n \in 1..(m - 1) : remote[n] # NotThere}
Show(m, d) == remote' = [remote EXCEPT ![m] = [draft |-> d, version |-> version[d]]]

\* Mutants: the introduction is left out; the media id is.
MarkCreatedSilently(d, j, m) ==
    /\ job'    = [job EXCEPT ![d] = [j EXCEPT !.state = "draft_created", !.media = m]]
    /\ status' = [status EXCEPT ![d] = "draftbox_created"]
    /\ Show(m, d)
    /\ UNCHANGED intro

MarkCreatedNowhere(d, j, m) ==
    /\ job'    = [job EXCEPT ![d] = [j EXCEPT !.state = "draft_created"]]
    /\ status' = [status EXCEPT ![d] = "draftbox_created"]
    /\ intro'  = IF intro[SourceOf[d]] = NoDraft
                 THEN [intro EXCEPT ![SourceOf[d]] = d] ELSE intro
    /\ Show(m, d)

\* mark_wechat_draft_created with record_draftbox_introduction.  When another
\* draft introduced the source the latter raises, after the row and the status
\* were assigned.
MarkCreated(d, j, m) ==
    /\ job'    = [job EXCEPT ![d] = [j EXCEPT !.state = "draft_created", !.media = m]]
    /\ status' = [status EXCEPT ![d] = "draftbox_created"]
    /\ intro'  = IF intro[SourceOf[d]] = NoDraft
                 THEN [intro EXCEPT ![SourceOf[d]] = d] ELSE intro
    /\ Show(m, d)

Conflict(d) == intro[SourceOf[d]] \notin {NoDraft, d}

\* What retry_agent_selected_wechat_draft starts from: the row as it is, or
\* selected and uploaded first when there is no uploaded cover.
DeliveryJobs(d) ==
    IF job[d].uploaded THEN {job[d]}
    ELSE {LET j == Selected(job[d], c) IN IF j.uploaded THEN j ELSE Uploaded(j) : c \in Covers}

\* The selection is made but its upload fails.
UploadFailures(d) ==
    IF job[d].uploaded THEN {} ELSE {Failed(Selected(job[d], c)) : c \in Covers}

\* An existing remote draft is overwritten in place (mark_wechat_draft_updated).
DeliverUpdate(d) ==
    /\ status[d] \in Deliverable
    /\ \E j \in DeliveryJobs(d) :
         /\ j.media # 0
         /\ Show(j.media, d)
         /\ job' = [job EXCEPT ![d] = [j EXCEPT !.state = "draft_created"]]
    /\ status' = [status EXCEPT ![d] = "draftbox_created"]
    /\ said'   = NoReply
    /\ UNCHANGED <<version, revisions, approved, events, pubs, intro, removed>>

\* A remote draft is created: there was none, or overwriting it failed (the
\* operator may have deleted it in WeChat, or the call timed out).  The
\* automatic review and the retry handler commit what MarkCreated assigned
\* even when it raises.
DeliverCreate(d) ==
    /\ status[d] \in Deliverable
    /\ \E j \in DeliveryJobs(d), m \in FreeMedia : MarkCreated(d, j, m)
    /\ said' = NoReply
    /\ UNCHANGED <<version, revisions, approved, events, pubs, removed>>

\* Mutant: the status of the draft is not checked.
OrphanUnchecked(d) ==
    /\ status[d] # Absent
    /\ Conflict(d)
    /\ \E m \in FreeMedia : Show(m, d)
    /\ said' = NoReply
    /\ UNCHANGED <<status, version, revisions, approved, events, pubs, intro,
                   removed, job>>

\* The delivery job of the worker rolls its transaction back when MarkCreated
\* raises: the remote draft stays, and the database does not know it.
DeliverOrphan(d) ==
    /\ status[d] \in Deliverable
    /\ Conflict(d)
    /\ \E m \in FreeMedia : Show(m, d)
    /\ said' = NoReply
    /\ UNCHANGED <<status, version, revisions, approved, events, pubs, intro,
                   removed, job>>

\* WeChat refuses the upload or the draft; the callers that commit keep the
\* failure on the row.
DeliverFail(d) ==
    /\ status[d] \in Deliverable
    /\ \E j \in UploadFailures(d) \cup {Failed(k) : k \in DeliveryJobs(d)} :
         job' = [job EXCEPT ![d] = j]
    /\ said' = NoReply
    /\ UNCHANGED <<status, version, revisions, approved, events, pubs, intro,
                   removed, remote>>

\* POST /wechat/publications/{job}/create-draft, the publish page's button: it
\* asks for an uploaded cover and no remote draft, and not for any status.
\* An introduction by another draft rolls it back after the remote creation.
CreateWechatDraft(d) ==
    /\ job[d].uploaded
    /\ job[d].media = 0
    /\ \/ /\ ~Conflict(d)
          /\ \E m \in FreeMedia : MarkCreated(d, job[d], m)
       \/ /\ Conflict(d)
          /\ \E m \in FreeMedia : Show(m, d)
          /\ UNCHANGED <<status, job, intro>>
       \/ /\ job' = [job EXCEPT ![d] = Failed(@)]
          /\ UNCHANGED <<status, remote, intro>>
    /\ said' = NoReply
    /\ UNCHANGED <<version, revisions, approved, events, pubs, removed>>

-----------------------------------------------------------------------------
\* Everything but the publish page's button.
CoreNext ==
    \/ \E d \in Drafts :
         \/ CreateDraft(d) \/ EditDraft(d) \/ ApplyAutoRevision(d)
         \/ \E illustrate \in BOOLEAN : RegenerateDraft(d, illustrate)
         \/ RefreshSource(d) \/ VoidSelection(d)
         \/ \E a \in Actions : AgentReview(d, a)
         \/ \E a \in Actions, k \in Keys : Review(d, a, k)
         \/ DeleteDraft(d)
         \/ \E k \in Keys : RecordManualPublication(d, k)
         \/ SelectForReview(d) \/ PrepareSelection(d)
         \/ DeliverUpdate(d) \/ DeliverCreate(d) \/ DeliverOrphan(d) \/ DeliverFail(d)
    \/ \E s \in Sources : RemoveIntroduction(s)

Next == CoreNext \/ \E d \in Drafts : CreateWechatDraft(d)

CoreSpec == Init /\ [][CoreNext]_vars
Spec     == Init /\ [][Next]_vars

-----------------------------------------------------------------------------
(* Properties                                                              *)

TypeOK ==
    /\ status    \in [Drafts -> Statuses \cup {Absent}]
    /\ version   \in [Drafts -> 0..MaxVersion]
    /\ revisions \in [Drafts -> SUBSET ((1..MaxVersion) \X RevisionKinds)]
    /\ approved  \in [Drafts -> SUBSET (1..MaxVersion)]
    /\ events    \subseteq [draft : Drafts, action : Actions \cup {"delete"}, key : ReviewKeys]
    /\ pubs      \subseteq [draft : Drafts, key : Keys]
    /\ intro     \in [Sources -> Drafts \cup {NoDraft}]
    /\ removed   \subseteq Sources
    /\ job       \in [Drafts -> Job]
    /\ remote    \in [1..MaxMedia -> Shown \cup {NotThere}]
    /\ said      \in Replies

\* A draft that is ready, delivered or published holds a text somebody
\* approved: no edit, rewrite, revision or refresh between the approval and
\* now (review_draft against the four operations that raise the version).
ApprovedContent ==
    \A d \in Drafts : status[d] \in Deliverable \cup {"published"} => version[d] \in approved[d]

\* Whatever the WeChat draft box shows, now or from an earlier delivery, was
\* approved (retry_agent_selected_wechat_draft is reached with approved text).
OnlyApprovedLeaves ==
    \A m \in 1..MaxMedia : LET r == remote[m] IN
        r # NotThere => r.version \in approved[r.draft]

\* create_draft keeps two drafts that are neither discarded nor deleted from
\* telling the same content, and no later operation revives one of them.
OneLiveDraftPerContent ==
    \A d, e \in Drafts :
        /\ d # e
        /\ Live(status[d]) /\ Live(status[e])
        => HashOf[SourceOf[d]] # HashOf[SourceOf[e]]

\* The remote draft on a delivery row is an article of that row's draft, so
\* that an overwrite reaches no other article, and draftbox_created tells the
\* truth: the remote draft is there and shows the current version.
DraftboxShowsRemote ==
    \A d \in Drafts :
        /\ job[d].media # 0 => remote[job[d].media].draft = d
        /\ status[d] = "draftbox_created" =>
             job[d].media # 0 /\ remote[job[d].media].version = version[d]

\* A source whose draft reached the draft box, or a GitHub source published by
\* hand, stays in the dedup library until an operator takes it out.
DeliveredSourceIsIntroduced ==
    \A d \in Drafts :
        \/ status[d] = "draftbox_created"
        \/ status[d] = "published" /\ SourceOf[d] \in Github
        => intro[SourceOf[d]] # NoDraft \/ SourceOf[d] \in removed

ClosedKept ==
    \A d \in Drafts :
        /\ status[d] = "published" => status'[d] = "published" /\ version'[d] = version[d]
        /\ status[d] = "discarded" => status'[d] \in {"discarded", "deleted"}
        /\ status[d] = "deleted"   => status'[d] = "deleted"

\* A published draft keeps its text and status, and a discarded one can only
\* be deleted, whatever runs afterwards.
ClosedIsFinal == [][ClosedKept]_vars

\* AGENT.md: an article that was not approved never enters the delivery, and
\* the docstring of create-draft speaks of an approved draft.
DraftboxNeedsApproval ==
    \A d \in Drafts : status[d] = "draftbox_created" => version[d] \in approved[d]

\* The review decision tools report an approval they made.
ReplyIsTrue ==
    said.action = "approve" => status[said.draft] = "ready_to_publish"

\* The delivery tool's docstring: delivering again overwrites the remote draft
\* and leaves no duplicate of the article.
NoDuplicateRemote ==
    \A m, n \in 1..MaxMedia :
        remote[m] # NotThere /\ remote[m].draft = remote[n].draft => m = n

\* Any source delivered or published is left out of the next candidates.
PublishedSourceIsIntroduced ==
    \A d \in Drafts : status[d] = "published" =>
        intro[SourceOf[d]] # NoDraft \/ SourceOf[d] \in removed

\* Regenerating the text voids the old selection of images.
RewriteVoidsSelection ==
    [][\A d \in Drafts, v \in 1..MaxVersion :
          /\ <<v, "source_regeneration">> \in revisions'[d] \ revisions[d]
          => job'[d].state \in {"none", "superseded", "delivery_stale"}]_vars

-----------------------------------------------------------------------------
\* What a reader of the drafts relies on, stated without rows, keys and jobs.
StageOf(s) ==
    CASE s = Absent -> "none"
      [] s \in Editable -> "review"
      [] s = "ready_to_publish" -> "approved"
      [] s = "draftbox_created" -> "delivered"
      [] s = "published" -> "published"
      [] OTHER -> "closed"

Contract == INSTANCE DraftContract WITH
    stage   <- [d \in Drafts |-> StageOf(status[d])],
    text    <- version,
    outside <- {<<remote[m].draft, remote[m].version>> :
                  m \in {n \in 1..MaxMedia : remote[n] # NotThere}}

\* Everything the database operations do is a step of the contract.
ImplementsContract == Contract!Spec
=============================================================================
