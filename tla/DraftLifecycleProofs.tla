------------------------ MODULE DraftLifecycleProofs ------------------------
(***************************************************************************)
(* Proofs about DraftLifecycle for every set of drafts, sources, covers    *)
(* and keys and every bound.                                               *)
(***************************************************************************)
EXTENDS DraftLifecycle, TLAPS

USE LifecycleAssumption, NoneAssumption

\* The operations on a delivery row return a delivery row.
LEMMA JobOperations ==
    ASSUME NEW j \in Job
    PROVE  /\ Invalidated(j) \in Job
           /\ Uploaded(j) \in Job
           /\ Failed(j) \in Job
           /\ \A c \in Covers : Selected(j, c) \in Job
           /\ \A m \in 1..MaxMedia :
                [j EXCEPT !.state = "draft_created", !.media = m] \in Job
           /\ [j EXCEPT !.state = "draft_created"] \in Job
    <1> USE DEF Job, JobStates
    <1>1. Invalidated(j) \in Job
      <2>1. CASE j.state = "none"
        BY <2>1 DEF Invalidated
      <2>2. CASE j.state # "none" /\ j.media # 0
        BY <2>2 DEF Invalidated
      <2>3. CASE j.state # "none" /\ j.media = 0
        BY <2>3 DEF Invalidated, NoJob
      <2> QED
        BY <2>1, <2>2, <2>3
    <1>2. Uploaded(j) \in Job
      BY DEF Uploaded
    <1>3. Failed(j) \in Job
      BY DEF Failed
    <1>4. ASSUME NEW c \in Covers
          PROVE  Selected(j, c) \in Job
      <2>1. CASE Selected(j, c) = j
        BY <2>1
      <2>2. CASE Selected(j, c) = [j EXCEPT !.state = "assets_selected", !.cover = c,
                                            !.uploaded = (@ /\ j.cover = c)]
        BY <2>2
      <2> QED
        BY <2>1, <2>2 DEF Selected
    <1>5. ASSUME NEW m \in 1..MaxMedia
          PROVE  [j EXCEPT !.state = "draft_created", !.media = m] \in Job
      <2>1. m \in 0..MaxMedia
        BY SMT
      <2> QED
        BY <2>1
    <1>6. [j EXCEPT !.state = "draft_created"] \in Job
      OBVIOUS
    <1> QED
      BY <1>1, <1>2, <1>3, <1>4, <1>5, <1>6

LEMMA DeliveryJobsType ==
    ASSUME TypeOK, NEW d \in Drafts
    PROVE  DeliveryJobs(d) \subseteq Job /\ UploadFailures(d) \subseteq Job
    <1>1. job[d] \in Job
      BY DEF TypeOK
    <1>2. ASSUME NEW c \in Covers
          PROVE  /\ Selected(job[d], c) \in Job
                 /\ Uploaded(Selected(job[d], c)) \in Job
                 /\ Failed(Selected(job[d], c)) \in Job
      BY <1>1, JobOperations
    <1> QED
      BY <1>1, <1>2 DEF DeliveryJobs, UploadFailures

LEMMA TypeInit == Init => TypeOK
    <1> SUFFICES ASSUME Init PROVE TypeOK
      OBVIOUS
    <1>1. NoJob \in Job
      BY DEF Job, NoJob, JobStates
    <1>2. NotThere \in Shown \cup {NotThere} /\ NoReply \in Replies
      BY DEF Replies
    <1>3. Absent \in Statuses \cup {Absent}
      OBVIOUS
    <1>4. 0 \in 0..MaxVersion
      BY SMT
    <1> QED
      BY <1>1, <1>2, <1>3, <1>4 DEF Init, TypeOK

\* What a draft that does not exist has not, and one that exists has.
Existence ==
    \A d \in Drafts :
        /\ status[d] = Absent => version[d] = 0 /\ job[d] = NoJob
        /\ status[d] # Absent => version[d] # 0

LEMMA ShownType ==
    ASSUME TypeOK, Existence, NEW d \in Drafts, status[d] # Absent
    PROVE  /\ version[d] \in 1..MaxVersion
           /\ [draft |-> d, version |-> version[d]] \in Shown
           /\ \A m \in FreeMedia : Show(m, d) => remote' \in [1..MaxMedia -> Shown \cup {NotThere}]
    <1>1. version[d] \in 1..MaxVersion
      BY DEF TypeOK, Existence
    <1> QED
      BY <1>1 DEF TypeOK, Shown, FreeMedia, Show

LEMMA NewVersionType ==
    ASSUME TypeOK, NEW d \in Drafts, NewVersion(d)
    PROVE  /\ status' \in [Drafts -> Statuses \cup {Absent}]
           /\ version' \in [Drafts -> 0..MaxVersion]
           /\ version[d] + 1 \in 1..MaxVersion
           /\ said' \in Replies
           /\ \A kind \in RevisionKinds : Snapshot(d, kind)
                 => revisions' \in [Drafts -> SUBSET ((1..MaxVersion) \X RevisionKinds)]
    <1>1. version[d] \in 0..MaxVersion /\ version[d] < MaxVersion
      BY DEF NewVersion, TypeOK
    <1>2. version[d] + 1 \in 1..MaxVersion /\ version[d] + 1 \in 0..MaxVersion
      BY <1>1, SMT
    <1>3. version' \in [Drafts -> 0..MaxVersion]
      BY <1>2 DEF NewVersion, TypeOK
    <1>4. ASSUME NEW kind \in RevisionKinds, Snapshot(d, kind)
          PROVE  revisions' \in [Drafts -> SUBSET ((1..MaxVersion) \X RevisionKinds)]
      BY <1>2, <1>4 DEF Snapshot, TypeOK
    <1>5. status' \in [Drafts -> Statuses \cup {Absent}]
      BY DEF NewVersion, TypeOK, Statuses, Editable
    <1> QED
      BY <1>2, <1>3, <1>4, <1>5 DEF NewVersion, Replies

LEMMA DecideType ==
    ASSUME TypeOK, Existence, NEW d \in Drafts, NEW a \in Actions, NEW k \in ReviewKeys,
           Decide(d, a, k)
    PROVE  /\ status' \in [Drafts -> Statuses \cup {Absent}]
           /\ approved' \in [Drafts -> SUBSET (1..MaxVersion)]
           /\ events' \subseteq [draft : Drafts, action : Actions \cup {"delete"}, key : ReviewKeys]
    <1>1. status[d] # Absent
      BY DEF Decide, Editable, Absent
    <1>2. version[d] \in 1..MaxVersion
      BY <1>1, ShownType
    <1>3. Outcome(a) \in Statuses
      BY DEF Outcome, Statuses, Editable, Closed, Deliverable
    <1>4. status' \in [Drafts -> Statuses \cup {Absent}]
      BY <1>3 DEF Decide, TypeOK
    <1>5. approved' \in [Drafts -> SUBSET (1..MaxVersion)]
      BY <1>2 DEF Decide, TypeOK
    <1>6. [draft |-> d, action |-> a, key |-> k]
            \in [draft : Drafts, action : Actions \cup {"delete"}, key : ReviewKeys]
      OBVIOUS
    <1>7. events' \subseteq [draft : Drafts, action : Actions \cup {"delete"}, key : ReviewKeys]
      BY <1>6 DEF Decide, TypeOK
    <1> QED
      BY <1>4, <1>5, <1>7

LEMMA JobUpdateType ==
    ASSUME TypeOK, NEW d \in Drafts, NEW j \in Job, job' = [job EXCEPT ![d] = j]
    PROVE  job' \in [Drafts -> Job]
    BY DEF TypeOK

LEMMA MarkCreatedType ==
    ASSUME TypeOK, Existence, NEW d \in Drafts, NEW j \in Job, NEW m \in FreeMedia,
           status[d] # Absent, MarkCreated(d, j, m)
    PROVE  /\ status' \in [Drafts -> Statuses \cup {Absent}]
           /\ intro' \in [Sources -> Drafts \cup {NoDraft}]
           /\ job' \in [Drafts -> Job]
           /\ remote' \in [1..MaxMedia -> Shown \cup {NotThere}]
    <1>1. m \in 1..MaxMedia
      BY DEF FreeMedia
    <1>2. job' \in [Drafts -> Job]
      BY <1>1, JobOperations, JobUpdateType DEF MarkCreated
    <1>3. remote' \in [1..MaxMedia -> Shown \cup {NotThere}]
      BY ShownType DEF MarkCreated
    <1>4. status' \in [Drafts -> Statuses \cup {Absent}]
      BY DEF MarkCreated, TypeOK, Statuses, Deliverable
    <1>5. intro' \in [Sources -> Drafts \cup {NoDraft}]
      BY DEF MarkCreated, TypeOK
    <1> QED
      BY <1>2, <1>3, <1>4, <1>5

LEMMA KeyTypes ==
    /\ \A k \in Keys : [by |-> "client", key |-> k] \in ReviewKeys
    /\ \A d \in Drafts, a \in Actions : [by |-> "agent", draft |-> d, action |-> a] \in ReviewKeys
    /\ \A d \in Drafts : [by |-> "delete", draft |-> d] \in ReviewKeys
    BY DEF ReviewKeys

LEMMA TypeStep ==
    ASSUME TypeOK, Existence, [Next]_vars
    PROVE  TypeOK'
    <1> USE DEF TypeOK
    <1>1. ASSUME NEW d \in Drafts, CreateDraft(d) PROVE TypeOK'
      <2>1. 1 \in 0..MaxVersion
        BY SMT
      <2> QED
        BY <1>1, <2>1 DEF CreateDraft, Statuses, Editable, Replies
    <1>2. ASSUME NEW d \in Drafts, EditDraft(d) PROVE TypeOK'
      BY <1>2, NewVersionType DEF EditDraft, NewVersion
    <1>3. ASSUME NEW d \in Drafts, ApplyAutoRevision(d) PROVE TypeOK'
      BY <1>3, NewVersionType DEF ApplyAutoRevision, NewVersion, RevisionKinds
    <1>4. ASSUME NEW d \in Drafts, NEW i \in BOOLEAN, RegenerateDraft(d, i) PROVE TypeOK'
      <2>1. job' \in [Drafts -> Job]
        BY <1>4, JobOperations DEF RegenerateDraft
      <2> QED
        BY <1>4, <2>1, NewVersionType DEF RegenerateDraft, NewVersion, RevisionKinds
    <1>5. ASSUME NEW d \in Drafts, RefreshSource(d) PROVE TypeOK'
      <2>1. job' \in [Drafts -> Job]
        BY <1>5, JobOperations DEF RefreshSource
      <2> QED
        BY <1>5, <2>1, NewVersionType DEF RefreshSource, NewVersion, RevisionKinds
    <1>6. ASSUME NEW d \in Drafts, VoidSelection(d) PROVE TypeOK'
      BY <1>6, JobOperations DEF VoidSelection, Replies
    <1>7. ASSUME NEW d \in Drafts, NEW a \in Actions, NEW k \in Keys, Review(d, a, k) PROVE TypeOK'
      BY <1>7, DecideType, KeyTypes DEF Review, Replies
    <1>8. ASSUME NEW d \in Drafts, NEW a \in Actions, AgentReview(d, a) PROVE TypeOK'
      <2> DEFINE key == [by |-> "agent", draft |-> d, action |-> a]
      <2>1. said' \in Replies
        BY <1>8 DEF AgentReview, Replies
      <2>2. CASE Decide(d, a, key)
        BY <1>8, <2>1, <2>2, DecideType, KeyTypes DEF AgentReview
      <2>3. CASE UNCHANGED <<status, approved, events>>
        BY <1>8, <2>1, <2>3 DEF AgentReview
      <2> QED
        BY <1>8, <2>2, <2>3 DEF AgentReview
    <1>9. ASSUME NEW d \in Drafts, DeleteDraft(d) PROVE TypeOK'
      <2>1. [draft |-> d, action |-> "delete", key |-> [by |-> "delete", draft |-> d]]
              \in [draft : Drafts, action : Actions \cup {"delete"}, key : ReviewKeys]
        BY KeyTypes
      <2> QED
        BY <1>9, <2>1 DEF DeleteDraft, Statuses, Closed, Replies
    <1>10. ASSUME NEW d \in Drafts, NEW k \in Keys, RecordManualPublication(d, k) PROVE TypeOK'
      BY <1>10 DEF RecordManualPublication, Statuses, Closed, Replies
    <1>11. ASSUME NEW s \in Sources, RemoveIntroduction(s) PROVE TypeOK'
      BY <1>11 DEF RemoveIntroduction, Replies
    <1>12. ASSUME NEW d \in Drafts, SelectForReview(d) PROVE TypeOK'
      <2>1. PICK c \in Covers : job' = [job EXCEPT ![d] = Selected(job[d], c)]
        BY <1>12 DEF SelectForReview
      <2>2. job' \in [Drafts -> Job]
        BY <2>1, JobOperations
      <2> QED
        BY <1>12, <2>2 DEF SelectForReview, Replies
    <1>13. ASSUME NEW d \in Drafts, PrepareSelection(d) PROVE TypeOK'
      <2> DEFINE j(c) == Selected(job[d], c)
      <2>1. PICK c \in Covers : \E k \in {j(c), Failed(j(c)), Uploaded(j(c))} :
              job' = [job EXCEPT ![d] = k]
        BY <1>13 DEF PrepareSelection
      <2>2. PICK k \in Job : job' = [job EXCEPT ![d] = k]
        BY <2>1, JobOperations
      <2>3. job' \in [Drafts -> Job]
        BY <2>2, JobUpdateType
      <2> QED
        BY <1>13, <2>3 DEF PrepareSelection, Replies
    <1>14. ASSUME NEW d \in Drafts, DeliverUpdate(d) PROVE TypeOK'
      <2>1. status[d] # Absent
        BY <1>14 DEF DeliverUpdate, Deliverable, Absent
      <2>2. PICK j \in DeliveryJobs(d) :
              j.media # 0 /\ Show(j.media, d) /\ job' = [job EXCEPT ![d] = [j EXCEPT !.state = "draft_created"]]
        BY <1>14 DEF DeliverUpdate
      <2>3. j \in Job
        BY DeliveryJobsType
      <2>4. j.media \in 1..MaxMedia
        BY <2>2, <2>3, SMT DEF Job
      <2>5. job' \in [Drafts -> Job]
        BY <2>2, <2>3, JobOperations, JobUpdateType
      <2>6. remote' \in [1..MaxMedia -> Shown \cup {NotThere}]
        BY <2>1, <2>2, <2>4, ShownType DEF Show
      <2> QED
        BY <1>14, <2>5, <2>6 DEF DeliverUpdate, Statuses, Deliverable, Replies
    <1>15. ASSUME NEW d \in Drafts, DeliverCreate(d) PROVE TypeOK'
      <2>1. status[d] # Absent
        BY <1>15 DEF DeliverCreate, Deliverable, Absent
      <2>2. PICK j \in DeliveryJobs(d), m \in FreeMedia : MarkCreated(d, j, m)
        BY <1>15 DEF DeliverCreate
      <2>3. j \in Job
        BY DeliveryJobsType
      <2> QED
        BY <1>15, <2>1, <2>2, <2>3, MarkCreatedType DEF DeliverCreate, Replies
    <1>16. ASSUME NEW d \in Drafts, DeliverOrphan(d) PROVE TypeOK'
      <2>1. status[d] # Absent
        BY <1>16 DEF DeliverOrphan, Deliverable, Absent
      <2> QED
        BY <1>16, <2>1, ShownType DEF DeliverOrphan, Replies
    <1>17. ASSUME NEW d \in Drafts, DeliverFail(d) PROVE TypeOK'
      <2>1. PICK j \in UploadFailures(d) \cup {Failed(k) : k \in DeliveryJobs(d)} :
              job' = [job EXCEPT ![d] = j]
        BY <1>17 DEF DeliverFail
      <2>2. j \in Job
        <3>1. \A k \in DeliveryJobs(d) : Failed(k) \in Job
          BY DeliveryJobsType, JobOperations
        <3> QED
          BY <3>1, DeliveryJobsType
      <2>3. job' \in [Drafts -> Job]
        BY <2>1, <2>2, JobUpdateType
      <2> QED
        BY <1>17, <2>3 DEF DeliverFail, Replies
    <1>18. ASSUME NEW d \in Drafts, CreateWechatDraft(d) PROVE TypeOK'
      <2>1. status[d] # Absent
        BY <1>18 DEF CreateWechatDraft, Existence, NoJob
      <2>2. job[d] \in Job /\ said' \in Replies
        BY <1>18 DEF CreateWechatDraft, Replies
      <2>3. ASSUME NEW m \in FreeMedia, MarkCreated(d, job[d], m) PROVE TypeOK'
        BY <1>18, <2>1, <2>2, <2>3, MarkCreatedType DEF CreateWechatDraft
      <2>4. ASSUME NEW m \in FreeMedia, Show(m, d), UNCHANGED <<status, job, intro>> PROVE TypeOK'
        BY <1>18, <2>1, <2>2, <2>4, ShownType DEF CreateWechatDraft
      <2>5. ASSUME job' = [job EXCEPT ![d] = Failed(@)], UNCHANGED <<status, remote, intro>>
            PROVE  TypeOK'
        BY <1>18, <2>2, <2>5, JobOperations DEF CreateWechatDraft
      <2> QED
        BY <1>18, <2>3, <2>4, <2>5 DEF CreateWechatDraft
    <1>19. CASE UNCHANGED vars
      BY <1>19 DEF vars
    <1> QED
      BY <1>1, <1>2, <1>3, <1>4, <1>5, <1>6, <1>7, <1>8, <1>9, <1>10, <1>11, <1>12,
         <1>13, <1>14, <1>15, <1>16, <1>17, <1>18, <1>19 DEF Next, CoreNext

LEMMA ExistenceStep ==
    ASSUME TypeOK, Existence, [Next]_vars
    PROVE  Existence'
    <1> USE DEF Existence, TypeOK, Absent
    <1>1. ASSUME NEW d \in Drafts, CreateDraft(d) PROVE Existence'
      BY <1>1 DEF CreateDraft
    <1>2. ASSUME NEW d \in Drafts, NewVersion(d), status[d] # Absent,
                 UNCHANGED job \/ job' = [job EXCEPT ![d] = Invalidated(@)]
          PROVE  Existence'
      <2>1. version'[d] # 0 /\ status'[d] # Absent
        BY <1>2 DEF NewVersion
      <2>2. ASSUME NEW e \in Drafts, e # d
            PROVE  version'[e] = version[e] /\ status'[e] = status[e] /\ job'[e] = job[e]
        BY <1>2, <2>2 DEF NewVersion
      <2> QED
        BY <2>1, <2>2
    <1>3. ASSUME NEW d \in Drafts, status[d] # Absent, version' = version,
                 status' = status \/ \E s \in Statuses : status' = [status EXCEPT ![d] = s],
                 job' = job \/ \E j \in Job : job' = [job EXCEPT ![d] = j]
          PROVE  Existence'
      <2>1. status'[d] # Absent
        BY <1>3 DEF Statuses, Editable, Closed, Deliverable
      <2>2. ASSUME NEW e \in Drafts, e # d
            PROVE  version'[e] = version[e] /\ status'[e] = status[e] /\ job'[e] = job[e]
        BY <1>3, <2>2
      <2> QED
        BY <1>3, <2>1, <2>2
    <1>4. CASE UNCHANGED <<status, version, job>>
      BY <1>4
    <1>5. ASSUME NEW d \in Drafts, EditDraft(d) \/ ApplyAutoRevision(d) \/ RefreshSource(d)
                   \/ \E i \in BOOLEAN : RegenerateDraft(d, i)
          PROVE  Existence'
      <2>1. status[d] # Absent
        BY <1>5 DEF EditDraft, ApplyAutoRevision, RefreshSource, RegenerateDraft, Editable, Deliverable
      <2> QED
        BY <1>2, <1>5, <2>1 DEF EditDraft, ApplyAutoRevision, RefreshSource, RegenerateDraft
    <1>6. ASSUME NEW d \in Drafts, NEW a \in Actions, NEW k \in ReviewKeys, Decide(d, a, k),
                 UNCHANGED <<version, job>>
          PROVE  Existence'
      <2>1. status[d] # Absent
        BY <1>6 DEF Decide, Editable
      <2>2. Outcome(a) \in Statuses
        BY DEF Outcome, Statuses, Editable, Closed, Deliverable
      <2> QED
        BY <1>3, <1>6, <2>1, <2>2 DEF Decide
    <1>7. ASSUME NEW d \in Drafts, NEW a \in Actions,
                 AgentReview(d, a) \/ \E k \in Keys : Review(d, a, k)
          PROVE  Existence'
      BY <1>4, <1>6, <1>7, KeyTypes DEF AgentReview, Review
    <1>8. ASSUME NEW d \in Drafts, DeleteDraft(d) PROVE Existence'
      <2>1. status[d] # Absent
        BY <1>8 DEF DeleteDraft, Editable
      <2> QED
        BY <1>3, <1>8, <2>1 DEF DeleteDraft, Statuses, Closed
    <1>9. ASSUME NEW d \in Drafts, NEW k \in Keys, RecordManualPublication(d, k) PROVE Existence'
      BY <1>3, <1>9 DEF RecordManualPublication, Statuses, Closed
    <1>10. ASSUME NEW d \in Drafts, VoidSelection(d) \/ SelectForReview(d) \/ PrepareSelection(d)
                                      \/ DeliverFail(d)
           PROVE  Existence'
      <2>1. status[d] # Absent
        BY <1>10 DEF VoidSelection, SelectForReview, PrepareSelection, DeliverFail, Deliverable
      <2>2. TypeOK'
        BY TypeStep DEF Next, CoreNext, vars
      <2>3. job'[d] \in Job /\ UNCHANGED <<status, version>>
        BY <1>10, <2>2 DEF VoidSelection, SelectForReview, PrepareSelection, DeliverFail
      <2>4. \A e \in Drafts : e # d => job'[e] = job[e]
        BY <1>10 DEF VoidSelection, SelectForReview, PrepareSelection, DeliverFail
      <2> QED
        BY <2>1, <2>3, <2>4
    <1>11. ASSUME NEW d \in Drafts, NEW j, NEW m, MarkCreated(d, j, m), version' = version,
                  status[d] # Absent
           PROVE  Existence'
      <2>1. status'[d] # Absent
        BY <1>11 DEF MarkCreated
      <2>2. \A e \in Drafts : e # d => job'[e] = job[e] /\ status'[e] = status[e]
        BY <1>11 DEF MarkCreated
      <2> QED
        BY <1>11, <2>1, <2>2
    <1>12. ASSUME NEW d \in Drafts, DeliverUpdate(d) PROVE Existence'
      <2>1. status[d] # Absent /\ version' = version /\ status'[d] # Absent
        BY <1>12 DEF DeliverUpdate, Deliverable
      <2>2. \A e \in Drafts : e # d => job'[e] = job[e] /\ status'[e] = status[e]
        BY <1>12 DEF DeliverUpdate
      <2> QED
        BY <2>1, <2>2
    <1>13. ASSUME NEW d \in Drafts, DeliverCreate(d) PROVE Existence'
      BY <1>11, <1>13 DEF DeliverCreate, Deliverable
    <1>14. ASSUME NEW d \in Drafts, CreateWechatDraft(d) PROVE Existence'
      <2>1. status[d] # Absent /\ version' = version
        BY <1>14 DEF CreateWechatDraft, NoJob
      <2>2. CASE \E m \in FreeMedia : MarkCreated(d, job[d], m)
        BY <1>11, <2>1, <2>2
      <2>3. CASE UNCHANGED <<status, job, intro>>
        BY <1>4, <2>1, <2>3
      <2>4. CASE job' = [job EXCEPT ![d] = Failed(@)] /\ UNCHANGED <<status, remote, intro>>
        BY <1>3, <2>1, <2>4, JobOperations
      <2> QED
        BY <1>14, <2>2, <2>3, <2>4 DEF CreateWechatDraft
    <1>15. ASSUME NEW d \in Drafts, DeliverOrphan(d) PROVE Existence'
      BY <1>4, <1>15 DEF DeliverOrphan
    <1>16. ASSUME NEW s \in Sources, RemoveIntroduction(s) PROVE Existence'
      BY <1>4, <1>16 DEF RemoveIntroduction
    <1>17. CASE UNCHANGED vars
      BY <1>4, <1>17 DEF vars
    <1> QED
      BY <1>1, <1>5, <1>7, <1>8, <1>9, <1>10, <1>12, <1>13, <1>14, <1>15, <1>16, <1>17
         DEF Next, CoreNext

\* Every state the operations reach, the publish page's button included, has
\* well-formed rows, and rows of existing drafts only.
THEOREM TypeCorrect == Spec => [](TypeOK /\ Existence)
    <1>1. Init => TypeOK /\ Existence
      BY TypeInit DEF Init, Existence
    <1>2. TypeOK /\ Existence /\ [Next]_vars => (TypeOK /\ Existence)'
      BY TypeStep, ExistenceStep
    <1> QED
      BY <1>1, <1>2, PTL DEF Spec

\* The same without the publish page's button.
THEOREM CoreTypeCorrect == CoreSpec => [](TypeOK /\ Existence)
    <1>1. Init => TypeOK /\ Existence
      BY TypeInit DEF Init, Existence
    <1>2. TypeOK /\ Existence /\ [CoreNext]_vars => (TypeOK /\ Existence)'
      BY TypeStep, ExistenceStep DEF Next
    <1> QED
      BY <1>1, <1>2, PTL DEF CoreSpec

-----------------------------------------------------------------------------
(* One live draft per content                                              *)

\* No step but the creation of a draft makes it live.
LEMMA NothingRevives ==
    ASSUME TypeOK, Existence, [CoreNext]_vars, NEW e \in Drafts, Live(status'[e]), ~Live(status[e])
    PROVE  CreateDraft(e)
    <1> USE DEF TypeOK, Live, Editable, Deliverable, Absent
    <1>1. ASSUME NEW d \in Drafts, NewVersion(d), Live(status[d]) PROVE FALSE
      BY <1>1 DEF NewVersion
    <1>2. ASSUME NEW d \in Drafts, NEW a \in Actions, NEW k, Decide(d, a, k) PROVE FALSE
      BY <1>2 DEF Decide
    <1>3. status' # status
      OBVIOUS
    <1>4. ASSUME NEW d \in Drafts, EditDraft(d) \/ ApplyAutoRevision(d) \/ RefreshSource(d)
                   \/ \E i \in BOOLEAN : RegenerateDraft(d, i)
          PROVE  FALSE
      BY <1>1, <1>4 DEF EditDraft, ApplyAutoRevision, RefreshSource, RegenerateDraft
    <1>5. ASSUME NEW d \in Drafts, NEW a \in Actions,
                 AgentReview(d, a) \/ \E k \in Keys : Review(d, a, k)
          PROVE  FALSE
      BY <1>2, <1>3, <1>5 DEF AgentReview, Review
    <1>6. ASSUME NEW d \in Drafts, DeleteDraft(d) \/ \E k \in Keys : RecordManualPublication(d, k)
          PROVE  FALSE
      BY <1>6 DEF DeleteDraft, RecordManualPublication
    <1>7. ASSUME NEW d \in Drafts, DeliverUpdate(d) \/ DeliverCreate(d) PROVE FALSE
      BY <1>7 DEF DeliverUpdate, DeliverCreate, MarkCreated
    <1>8. ASSUME NEW d \in Drafts, VoidSelection(d) \/ SelectForReview(d) \/ PrepareSelection(d)
                   \/ DeliverOrphan(d) \/ DeliverFail(d)
          PROVE  FALSE
      BY <1>3, <1>8 DEF VoidSelection, SelectForReview, PrepareSelection, DeliverOrphan, DeliverFail
    <1>9. ASSUME NEW s \in Sources, RemoveIntroduction(s) PROVE FALSE
      BY <1>3, <1>9 DEF RemoveIntroduction
    <1>10. ASSUME NEW d \in Drafts, CreateDraft(d) PROVE CreateDraft(e)
      BY <1>10 DEF CreateDraft
    <1>11. CASE UNCHANGED vars
      BY <1>3, <1>11 DEF vars
    <1> QED
      BY <1>4, <1>5, <1>6, <1>7, <1>8, <1>9, <1>10, <1>11 DEF CoreNext

\* However often drafts are dropped and created again, two live drafts never
\* tell the same content: create_draft is the only way to become live.
THEOREM OneLiveDraft == CoreSpec => []OneLiveDraftPerContent
    <1>1. Init => OneLiveDraftPerContent
      BY DEF Init, OneLiveDraftPerContent, Live, Absent
    <1>2. ASSUME TypeOK, Existence, OneLiveDraftPerContent, [CoreNext]_vars
          PROVE  OneLiveDraftPerContent'
      <2> SUFFICES ASSUME NEW d \in Drafts, NEW e \in Drafts, d # e,
                          Live(status'[d]), Live(status'[e])
                   PROVE  HashOf[SourceOf[d]] # HashOf[SourceOf[e]]
        BY DEF OneLiveDraftPerContent, Live
      <2>1. CASE Live(status[d]) /\ Live(status[e])
        BY <1>2, <2>1 DEF OneLiveDraftPerContent
      <2>2. CASE ~Live(status[d])
        <3>1. CreateDraft(d)
          BY <1>2, <2>2, NothingRevives
        <3>2. Live(status[e])
          BY <1>2, <3>1 DEF CreateDraft, TypeOK
        <3> QED
          BY <3>1, <3>2 DEF CreateDraft
      <2>3. CASE ~Live(status[e])
        <3>1. CreateDraft(e)
          BY <1>2, <2>3, NothingRevives
        <3>2. Live(status[d])
          BY <1>2, <3>1 DEF CreateDraft, TypeOK
        <3> QED
          BY <3>1, <3>2 DEF CreateDraft
      <2> QED
        BY <2>1, <2>2, <2>3
    <1> QED
      BY <1>1, <1>2, CoreTypeCorrect, PTL DEF CoreSpec

-----------------------------------------------------------------------------
(* Only approved texts are ready, delivered, published or visible          *)

Settled(s) == s \in Deliverable \cup {"published"}

\* A draft becomes or stays settled without a new text, and only from a
\* settled status or by an approval of the text it has.
LEMMA ApprovalStep ==
    ASSUME TypeOK, Existence, [CoreNext]_vars, NEW d \in Drafts
    PROVE  /\ approved[d] \subseteq approved'[d]
           /\ Settled(status'[d]) => /\ version'[d] = version[d]
                                     /\ Settled(status[d]) \/ version[d] \in approved'[d]
    <1> DEFINE Goal == /\ approved[d] \subseteq approved'[d]
                       /\ Settled(status'[d]) => /\ version'[d] = version[d]
                                                 /\ Settled(status[d]) \/ version[d] \in approved'[d]
    <1> USE DEF TypeOK, Settled, Editable, Deliverable, Absent
    <1>1. ASSUME NEW e \in Drafts, CreateDraft(e) PROVE Goal
      BY <1>1 DEF CreateDraft
    <1>2. ASSUME NEW e \in Drafts, NewVersion(e) PROVE Goal
      BY <1>2 DEF NewVersion
    <1>3. ASSUME NEW e \in Drafts, NEW a \in Actions, NEW k, Decide(e, a, k), version' = version
          PROVE  Goal
      BY <1>3 DEF Decide, Outcome
    <1>4. CASE UNCHANGED <<status, version, approved>>
      BY <1>4
    <1>5. ASSUME NEW e \in Drafts, EditDraft(e) \/ ApplyAutoRevision(e) \/ RefreshSource(e)
                   \/ \E i \in BOOLEAN : RegenerateDraft(e, i)
          PROVE  Goal
      BY <1>2, <1>5 DEF EditDraft, ApplyAutoRevision, RefreshSource, RegenerateDraft
    <1>6. ASSUME NEW e \in Drafts, NEW a \in Actions,
                 AgentReview(e, a) \/ \E k \in Keys : Review(e, a, k)
          PROVE  Goal
      BY <1>3, <1>4, <1>6 DEF AgentReview, Review
    <1>7. ASSUME NEW e \in Drafts, DeleteDraft(e) \/ \E k \in Keys : RecordManualPublication(e, k)
          PROVE  Goal
      BY <1>7 DEF DeleteDraft, RecordManualPublication
    <1>8. ASSUME NEW e \in Drafts, DeliverUpdate(e) \/ DeliverCreate(e) PROVE Goal
      BY <1>8 DEF DeliverUpdate, DeliverCreate, MarkCreated
    <1>9. ASSUME NEW e \in Drafts, VoidSelection(e) \/ SelectForReview(e) \/ PrepareSelection(e)
                   \/ DeliverOrphan(e) \/ DeliverFail(e)
          PROVE  Goal
      BY <1>4, <1>9 DEF VoidSelection, SelectForReview, PrepareSelection, DeliverOrphan, DeliverFail
    <1>10. ASSUME NEW s \in Sources, RemoveIntroduction(s) PROVE Goal
      BY <1>4, <1>10 DEF RemoveIntroduction
    <1>11. CASE UNCHANGED vars
      BY <1>4, <1>11 DEF vars
    <1> QED
      BY <1>1, <1>5, <1>6, <1>7, <1>8, <1>9, <1>10, <1>11 DEF CoreNext

\* What the draft box shows changes only when a deliverable draft is shown.
LEMMA RemoteStep ==
    ASSUME TypeOK, Existence, [CoreNext]_vars, NEW m \in 1..MaxMedia
    PROVE  \/ remote'[m] = remote[m]
           \/ \E d \in Drafts : /\ status[d] \in Deliverable
                                /\ remote'[m] = [draft |-> d, version |-> version[d]]
                                /\ approved' = approved
    <1> DEFINE Goal == \/ remote'[m] = remote[m]
                       \/ \E d \in Drafts : /\ status[d] \in Deliverable
                                            /\ remote'[m] = [draft |-> d, version |-> version[d]]
                                            /\ approved' = approved
    <1>1. ASSUME NEW d \in Drafts, NEW n, Show(n, d), status[d] \in Deliverable, approved' = approved
          PROVE  Goal
      BY <1>1 DEF Show, TypeOK
    <1>2. CASE UNCHANGED remote
      BY <1>2
    <1>3. ASSUME NEW d \in Drafts, EditDraft(d) \/ ApplyAutoRevision(d) \/ RefreshSource(d)
                   \/ \E i \in BOOLEAN : RegenerateDraft(d, i)
          PROVE  Goal
      BY <1>2, <1>3 DEF EditDraft, ApplyAutoRevision, RefreshSource, RegenerateDraft, NewVersion
    <1>4. ASSUME NEW d \in Drafts, DeliverUpdate(d) \/ DeliverCreate(d) \/ DeliverOrphan(d)
          PROVE  Goal
      BY <1>1, <1>4 DEF DeliverUpdate, DeliverCreate, MarkCreated, DeliverOrphan
    <1>5. ASSUME NEW d \in Drafts,
                 \/ CreateDraft(d) \/ VoidSelection(d) \/ SelectForReview(d) \/ PrepareSelection(d)
                 \/ DeliverFail(d) \/ DeleteDraft(d)
                 \/ \E k \in Keys : RecordManualPublication(d, k)
                 \/ \E a \in Actions : AgentReview(d, a)
                 \/ \E a \in Actions, k \in Keys : Review(d, a, k)
          PROVE  Goal
      BY <1>2, <1>5 DEF CreateDraft, VoidSelection, SelectForReview, PrepareSelection, DeliverFail,
                        DeleteDraft, RecordManualPublication, AgentReview, Review
    <1>6. ASSUME NEW s \in Sources, RemoveIntroduction(s) PROVE Goal
      BY <1>2, <1>6 DEF RemoveIntroduction
    <1>7. CASE UNCHANGED vars
      BY <1>2, <1>7 DEF vars
    <1> QED
      BY <1>3, <1>4, <1>5, <1>6, <1>7 DEF CoreNext

\* Without the publish page's button no text gets ready, into the draft box or
\* published without an approval of exactly that version.
THEOREM ReviewedBeforeItLeaves == CoreSpec => [](ApprovedContent /\ OnlyApprovedLeaves)
    <1>1. Init => ApprovedContent /\ OnlyApprovedLeaves
      BY DEF Init, ApprovedContent, OnlyApprovedLeaves, Deliverable, Absent
    <1>2. ASSUME TypeOK, Existence, ApprovedContent, OnlyApprovedLeaves, [CoreNext]_vars
          PROVE  (ApprovedContent /\ OnlyApprovedLeaves)'
      <2>1. ASSUME NEW d \in Drafts, Settled(status'[d])
            PROVE  version'[d] \in approved'[d]
        BY <1>2, <2>1, ApprovalStep DEF ApprovedContent, Settled
      <2>2. ASSUME NEW m \in 1..MaxMedia, remote'[m] # NotThere
            PROVE  remote'[m].version \in approved'[remote'[m].draft]
        <3>1. CASE remote'[m] = remote[m]
          <4>1. remote[m] \in Shown /\ remote[m].version \in approved[remote[m].draft]
            BY <1>2, <2>2, <3>1 DEF OnlyApprovedLeaves, TypeOK
          <4>2. remote[m].draft \in Drafts
            BY <4>1 DEF Shown
          <4> QED
            BY <1>2, <3>1, <4>1, <4>2, ApprovalStep
        <3>2. ASSUME NEW d \in Drafts, status[d] \in Deliverable, approved' = approved,
                     remote'[m] = [draft |-> d, version |-> version[d]]
              PROVE  remote'[m].version \in approved'[remote'[m].draft]
          BY <1>2, <3>2 DEF ApprovedContent
        <3> QED
          BY <1>2, <3>1, <3>2, RemoteStep
      <2> QED
        BY <2>1, <2>2 DEF ApprovedContent, OnlyApprovedLeaves, Settled
    <1> QED
      BY <1>1, <1>2, CoreTypeCorrect, PTL DEF CoreSpec

\* What the draft box shows, now or from an earlier delivery, was approved
\* (retry_agent_selected_wechat_draft after review_draft).
THEOREM NothingElseLeaves == CoreSpec => []OnlyApprovedLeaves
    BY ReviewedBeforeItLeaves, PTL

-----------------------------------------------------------------------------
(* The draft box agrees with draftbox_created                              *)

\* No operation on a delivery row but MarkCreated touches its media id.
LEMMA MediaKept ==
    ASSUME NEW j \in Job
    PROVE  /\ Invalidated(j).media = j.media
           /\ Uploaded(j).media = j.media
           /\ Failed(j).media = j.media
           /\ \A c \in Covers : Selected(j, c).media = j.media
    <1>1. Invalidated(j).media = j.media
      BY DEF Invalidated, Job, NoJob
    <1>2. Uploaded(j).media = j.media /\ Failed(j).media = j.media
      BY DEF Uploaded, Failed, Job
    <1>3. ASSUME NEW c \in Covers PROVE Selected(j, c).media = j.media
      BY DEF Selected, Job
    <1> QED
      BY <1>1, <1>2, <1>3

LEMMA DeliveryJobsMedia ==
    ASSUME TypeOK, NEW d \in Drafts
    PROVE  /\ \A j \in DeliveryJobs(d) : j.media = job[d].media
           /\ \A j \in UploadFailures(d) : j.media = job[d].media
    <1>1. job[d] \in Job
      BY DEF TypeOK
    <1>2. ASSUME NEW c \in Covers
          PROVE  /\ Selected(job[d], c).media = job[d].media
                 /\ Uploaded(Selected(job[d], c)).media = job[d].media
                 /\ Failed(Selected(job[d], c)).media = job[d].media
      BY <1>1, JobOperations, MediaKept
    <1> QED
      BY <1>2 DEF DeliveryJobs, UploadFailures

\* The rows of one draft agree with what the draft box shows.
RowTrue(d) ==
    /\ job[d].media # 0 => remote[job[d].media].draft = d
    /\ status[d] = "draftbox_created" =>
         job[d].media # 0 /\ remote[job[d].media].version = version[d]

LEMMA RowTrueKept ==
    ASSUME TypeOK, NEW d \in Drafts, RowTrue(d), remote' = remote, job'[d].media = job[d].media,
           \/ status'[d] # "draftbox_created"
           \/ status'[d] = status[d] /\ version'[d] = version[d]
    PROVE  RowTrue(d)'
    BY DEF RowTrue

\* A remote draft made in a free place disturbs no row.
LEMMA RowTrueBesideCreate ==
    ASSUME TypeOK, NEW d \in Drafts, RowTrue(d), NEW e \in Drafts, NEW m \in FreeMedia, Show(m, e),
           job'[d].media = job[d].media, status'[d] = status[d], version'[d] = version[d]
    PROVE  RowTrue(d)'
    <1>1. CASE job[d].media = 0
      BY <1>1 DEF RowTrue
    <1>2. CASE job[d].media # 0
      <2>1. job[d].media \in 1..MaxMedia
        BY <1>2, SMT DEF TypeOK, Job
      <2>2. job[d].media # m
        BY <1>2 DEF RowTrue, FreeMedia, NotThere
      <2>3. remote'[job[d].media] = remote[job[d].media]
        BY <2>1, <2>2 DEF Show, TypeOK
      <2> QED
        BY <2>3 DEF RowTrue
    <1> QED
      BY <1>1, <1>2

LEMMA RowTrueMarkCreated ==
    ASSUME TypeOK, NEW d \in Drafts, RowTrue(d), NEW e \in Drafts, NEW j \in Job, NEW m \in FreeMedia,
           MarkCreated(e, j, m), version' = version
    PROVE  RowTrue(d)'
    <1>1. CASE d # e
      BY <1>1, RowTrueBesideCreate DEF MarkCreated, TypeOK
    <1>2. CASE d = e
      <2>1. m \in 1..MaxMedia /\ m # 0
        BY SMT DEF FreeMedia
      <2>2. job'[d].media = m
        BY <1>2 DEF MarkCreated, TypeOK, Job
      <2>3. remote'[m] = [draft |-> d, version |-> version[d]]
        BY <1>2, <2>1 DEF MarkCreated, Show, TypeOK
      <2> QED
        BY <2>1, <2>2, <2>3 DEF RowTrue
    <1> QED
      BY <1>1, <1>2

LEMMA RowTrueUpdate ==
    ASSUME TypeOK, \A f \in Drafts : RowTrue(f), NEW d \in Drafts, NEW e \in Drafts, DeliverUpdate(e)
    PROVE  RowTrue(d)'
    <1>1. PICK j \in DeliveryJobs(e) : /\ j.media # 0
                                       /\ Show(j.media, e)
                                       /\ job' = [job EXCEPT ![e] = [j EXCEPT !.state = "draft_created"]]
      BY DEF DeliverUpdate
    <1>2. j \in Job /\ j.media = job[e].media
      BY DeliveryJobsType, DeliveryJobsMedia
    <1>3. job[e].media \in 1..MaxMedia
      BY <1>1, <1>2, SMT DEF Job
    <1>4. remote'[job[e].media] = [draft |-> e, version |-> version[e]]
      BY <1>1, <1>2, <1>3 DEF Show, TypeOK
    <1>5. job'[e].media = job[e].media
      BY <1>1, <1>2 DEF TypeOK, Job
    <1>6. CASE d = e
      BY <1>1, <1>2, <1>4, <1>5, <1>6 DEF RowTrue, DeliverUpdate
    <1>7. CASE d # e
      <2>1. job'[d] = job[d] /\ status'[d] = status[d] /\ version' = version
        BY <1>1, <1>7 DEF DeliverUpdate, TypeOK
      <2>2. CASE job[d].media = 0
        BY <2>1, <2>2 DEF RowTrue
      <2>3. CASE job[d].media # 0
        <3>1. job[d].media # job[e].media
          BY <1>1, <1>2, <1>7, <2>3 DEF RowTrue
        <3>2. job[d].media \in 1..MaxMedia
          BY <2>3, SMT DEF TypeOK, Job
        <3>3. remote'[job[d].media] = remote[job[d].media]
          BY <1>1, <1>2, <3>1, <3>2 DEF Show, TypeOK
        <3> QED
          BY <2>1, <3>3 DEF RowTrue
      <2> QED
        BY <2>2, <2>3
    <1> QED
      BY <1>6, <1>7

LEMMA RowTrueStep ==
    ASSUME TypeOK, Existence, \A f \in Drafts : RowTrue(f), [Next]_vars, NEW d \in Drafts
    PROVE  RowTrue(d)'
    <1> USE DEF TypeOK, Editable, Deliverable, Absent
    <1>0. job[d] \in Job
      OBVIOUS
    <1>1. ASSUME NEW e \in Drafts, CreateDraft(e) PROVE RowTrue(d)'
      BY <1>1, RowTrueKept DEF CreateDraft
    <1>2. ASSUME NEW e \in Drafts, NewVersion(e),
                 job' = job \/ job' = [job EXCEPT ![e] = Invalidated(@)]
          PROVE  RowTrue(d)'
      <2>1. job[e] \in Job /\ Invalidated(job[e]).media = job[e].media
        BY MediaKept
      <2>2. job'[d].media = job[d].media
        BY <1>0, <1>2, <2>1
      <2>3. \/ status'[d] # "draftbox_created"
            \/ status'[d] = status[d] /\ version'[d] = version[d]
        BY <1>2 DEF NewVersion
      <2> QED
        BY <1>2, <2>2, <2>3, RowTrueKept DEF NewVersion
    <1>3. ASSUME NEW e \in Drafts, EditDraft(e) \/ ApplyAutoRevision(e) \/ RefreshSource(e)
                   \/ \E i \in BOOLEAN : RegenerateDraft(e, i)
          PROVE  RowTrue(d)'
      BY <1>2, <1>3 DEF EditDraft, ApplyAutoRevision, RefreshSource, RegenerateDraft
    <1>4. ASSUME NEW e \in Drafts, NEW a \in Actions, NEW k, Decide(e, a, k),
                 UNCHANGED <<version, job, remote>>
          PROVE  RowTrue(d)'
      <2>1. status'[d] # "draftbox_created" \/ status'[d] = status[d]
        BY <1>4 DEF Decide, Outcome
      <2> QED
        BY <1>4, <2>1, RowTrueKept
    <1>5. CASE UNCHANGED <<status, version, job, remote>>
      BY <1>5, RowTrueKept
    <1>6. ASSUME NEW e \in Drafts, NEW a \in Actions,
                 AgentReview(e, a) \/ \E k \in Keys : Review(e, a, k)
          PROVE  RowTrue(d)'
      BY <1>4, <1>5, <1>6 DEF AgentReview, Review
    <1>7. ASSUME NEW e \in Drafts, DeleteDraft(e) \/ \E k \in Keys : RecordManualPublication(e, k)
          PROVE  RowTrue(d)'
      BY <1>7, RowTrueKept DEF DeleteDraft, RecordManualPublication
    <1>8. ASSUME NEW e \in Drafts, NEW j, job' = [job EXCEPT ![e] = j], j.media = job[e].media,
                 UNCHANGED <<status, version, remote>>
          PROVE  RowTrue(d)'
      BY <1>8, RowTrueKept
    <1>9. ASSUME NEW e \in Drafts, VoidSelection(e) PROVE RowTrue(d)'
      BY <1>8, <1>9, MediaKept DEF VoidSelection
    <1>10. ASSUME NEW e \in Drafts, SelectForReview(e) PROVE RowTrue(d)'
      BY <1>8, <1>10, MediaKept DEF SelectForReview
    <1>11. ASSUME NEW e \in Drafts, PrepareSelection(e) PROVE RowTrue(d)'
      <2> DEFINE s(c) == Selected(job[e], c)
      <2>1. PICK c \in Covers : \E k \in {s(c), Failed(s(c)), Uploaded(s(c))} :
              job' = [job EXCEPT ![e] = k]
        BY <1>11 DEF PrepareSelection
      <2>2. s(c) \in Job /\ s(c).media = job[e].media
        BY MediaKept, JobOperations
      <2>3. Failed(s(c)).media = job[e].media /\ Uploaded(s(c)).media = job[e].media
        BY <2>2, MediaKept
      <2>4. \A k \in {s(c), Failed(s(c)), Uploaded(s(c))} : k.media = job[e].media
        BY <2>2, <2>3
      <2> QED
        BY <1>8, <1>11, <2>1, <2>4 DEF PrepareSelection
    <1>12. ASSUME NEW e \in Drafts, DeliverFail(e) PROVE RowTrue(d)'
      <2>1. PICK j \in UploadFailures(e) \cup {Failed(k) : k \in DeliveryJobs(e)} :
              job' = [job EXCEPT ![e] = j]
        BY <1>12 DEF DeliverFail
      <2>2. \A k \in DeliveryJobs(e) : Failed(k).media = job[e].media
        BY DeliveryJobsType, DeliveryJobsMedia, MediaKept
      <2>3. j.media = job[e].media
        BY <2>2, DeliveryJobsMedia
      <2> QED
        BY <1>8, <1>12, <2>1, <2>3 DEF DeliverFail
    <1>13. ASSUME NEW e \in Drafts, DeliverUpdate(e) PROVE RowTrue(d)'
      BY <1>13, RowTrueUpdate
    <1>14. ASSUME NEW e \in Drafts, DeliverCreate(e) PROVE RowTrue(d)'
      <2>1. PICK j \in DeliveryJobs(e), m \in FreeMedia : MarkCreated(e, j, m)
        BY <1>14 DEF DeliverCreate
      <2>2. j \in Job
        BY DeliveryJobsType
      <2> QED
        BY <1>14, <2>1, <2>2, RowTrueMarkCreated DEF DeliverCreate
    <1>15. ASSUME NEW e \in Drafts, DeliverOrphan(e) PROVE RowTrue(d)'
      BY <1>15, RowTrueBesideCreate DEF DeliverOrphan
    <1>16. ASSUME NEW e \in Drafts, CreateWechatDraft(e) PROVE RowTrue(d)'
      <2>1. job[e] \in Job
        OBVIOUS
      <2>2. CASE \E m \in FreeMedia : MarkCreated(e, job[e], m)
        BY <1>16, <2>1, <2>2, RowTrueMarkCreated DEF CreateWechatDraft
      <2>3. CASE (\E m \in FreeMedia : Show(m, e)) /\ UNCHANGED <<status, job, intro>>
        BY <1>16, <2>3, RowTrueBesideCreate DEF CreateWechatDraft
      <2>4. CASE job' = [job EXCEPT ![e] = Failed(@)] /\ UNCHANGED <<status, remote, intro>>
        BY <1>8, <1>16, <2>1, <2>4, MediaKept DEF CreateWechatDraft
      <2> QED
        BY <1>16, <2>2, <2>3, <2>4 DEF CreateWechatDraft
    <1>17. ASSUME NEW s \in Sources, RemoveIntroduction(s) PROVE RowTrue(d)'
      BY <1>5, <1>17 DEF RemoveIntroduction
    <1>18. CASE UNCHANGED vars
      BY <1>5, <1>18 DEF vars
    <1> QED
      BY <1>1, <1>3, <1>6, <1>7, <1>9, <1>10, <1>11, <1>12, <1>13, <1>14, <1>15, <1>16, <1>17, <1>18
         DEF Next, CoreNext

\* A draft that says draftbox_created is in the draft box with its current
\* text, and no delivery row points at another draft's article, whichever
\* delivery path wrote it, the publish page's button too.
THEOREM DraftboxTrue == Spec => []DraftboxShowsRemote
    <1> DEFINE True == \A d \in Drafts : RowTrue(d)
    <1>1. Init => True
      BY DEF Init, RowTrue, NoJob, Absent
    <1>2. True /\ TypeOK /\ Existence /\ [Next]_vars => True'
      BY RowTrueStep
    <1>3. True => DraftboxShowsRemote
      BY DEF RowTrue, DraftboxShowsRemote
    <1> HIDE DEF True
    <1> QED
      BY <1>1, <1>2, <1>3, TypeCorrect, PTL DEF Spec

-----------------------------------------------------------------------------
(* What was delivered is in the dedup library                              *)

Known(s) == intro[s] # NoDraft \/ s \in removed

\* A draft with an article in the draft box, even one that was sent back to
\* review or delivered before, has a source that is known.
Traced(d) ==
    \/ job[d].media # 0
    \/ status[d] = "draftbox_created"
    \/ status[d] = "published" /\ SourceOf[d] \in Github
    => Known(SourceOf[d])

LEMMA TracedKept ==
    ASSUME NEW d \in Drafts, Traced(d), Known(SourceOf[d]) => Known(SourceOf[d])',
           job'[d].media = job[d].media,
           status'[d] \in {status[d]} \cup (Statuses \ {"draftbox_created", "published"})
    PROVE  Traced(d)'
    BY DEF Traced

\* A delivery makes a new article: its source is known afterwards.
LEMMA TracedMarkCreated ==
    ASSUME TypeOK, NEW d \in Drafts, Traced(d), NEW e \in Drafts, NEW j \in Job, NEW m \in FreeMedia,
           MarkCreated(e, j, m), removed' = removed
    PROVE  Traced(d)'
    <1>1. SourceOf[e] \in Sources /\ SourceOf[d] \in Sources
      BY LifecycleAssumption
    <1>2. \A s \in Sources : Known(s) => Known(s)'
      BY <1>1, NoneAssumption DEF MarkCreated, Known, TypeOK
    <1>3. CASE d = e
      <2>1. intro'[SourceOf[d]] # NoDraft
        BY <1>1, <1>3, NoneAssumption DEF MarkCreated, TypeOK
      <2> QED
        BY <2>1 DEF Traced, Known
    <1>4. CASE d # e
      <2>1. job'[d] = job[d] /\ status'[d] = status[d]
        BY <1>4 DEF MarkCreated, TypeOK
      <2> QED
        BY <1>1, <1>2, <2>1, TracedKept
    <1> QED
      BY <1>3, <1>4

LEMMA TracedStep ==
    ASSUME TypeOK, NEW d \in Drafts, Traced(d), [Next]_vars
    PROVE  Traced(d)'
    <1> USE DEF TypeOK, Editable, Deliverable, Closed, Statuses, Absent
    <1>0. job[d] \in Job /\ SourceOf[d] \in Sources
      BY LifecycleAssumption
    \* Steps that leave the library alone, and the article on the row of d.
    <1>1. ASSUME UNCHANGED <<intro, removed>>, job'[d].media = job[d].media,
                 status'[d] \in {status[d]} \cup (Statuses \ {"draftbox_created", "published"})
          PROVE  Traced(d)'
      BY <1>1, TracedKept DEF Known
    <1>2. ASSUME NEW e \in Drafts, CreateDraft(e) PROVE Traced(d)'
      BY <1>1, <1>2 DEF CreateDraft
    <1>3. ASSUME NEW e \in Drafts, NewVersion(e),
                 job' = job \/ job' = [job EXCEPT ![e] = Invalidated(@)]
          PROVE  Traced(d)'
      <2>1. job[e] \in Job /\ Invalidated(job[e]).media = job[e].media
        BY MediaKept
      <2>2. job'[d].media = job[d].media
        BY <1>0, <1>3, <2>1
      <2> QED
        BY <1>1, <1>3, <2>2 DEF NewVersion
    <1>4. ASSUME NEW e \in Drafts, EditDraft(e) \/ ApplyAutoRevision(e) \/ RefreshSource(e)
                   \/ \E i \in BOOLEAN : RegenerateDraft(e, i)
          PROVE  Traced(d)'
      BY <1>3, <1>4 DEF EditDraft, ApplyAutoRevision, RefreshSource, RegenerateDraft
    <1>5. ASSUME NEW e \in Drafts, NEW a \in Actions,
                 AgentReview(e, a) \/ \E k \in Keys : Review(e, a, k)
          PROVE  Traced(d)'
      <2>1. /\ UNCHANGED <<intro, removed, job>>
            /\ status' = status \/ status' = [status EXCEPT ![e] = Outcome(a)]
        BY <1>5 DEF AgentReview, Review, Decide
      <2> QED
        BY <1>1, <2>1 DEF Outcome
    <1>6. ASSUME NEW e \in Drafts, DeleteDraft(e) PROVE Traced(d)'
      BY <1>1, <1>6 DEF DeleteDraft
    <1>7. ASSUME NEW e \in Drafts, NEW k \in Keys, RecordManualPublication(e, k) PROVE Traced(d)'
      <2>1. Known(SourceOf[d]) => Known(SourceOf[d])'
        BY <1>0, <1>7, NoneAssumption DEF RecordManualPublication, Known
      <2>2. CASE d = e
        <3>1. SourceOf[d] \in Github => intro'[SourceOf[d]] # NoDraft
          BY <1>0, <1>7, <2>2, NoneAssumption DEF RecordManualPublication
        <3>2. job' = job /\ status'[d] = "published"
          BY <1>7, <2>2 DEF RecordManualPublication
        <3> QED
          BY <2>1, <3>1, <3>2 DEF Traced, Known
      <2>3. CASE d # e
        BY <1>7, <2>1, <2>3, TracedKept DEF RecordManualPublication
      <2> QED
        BY <2>2, <2>3
    <1>8. ASSUME NEW e \in Drafts, NEW j, job' = [job EXCEPT ![e] = j], j.media = job[e].media,
                 UNCHANGED <<status, intro, removed>>
          PROVE  Traced(d)'
      BY <1>1, <1>8
    <1>9. ASSUME NEW e \in Drafts, VoidSelection(e) \/ SelectForReview(e) PROVE Traced(d)'
      BY <1>8, <1>9, MediaKept DEF VoidSelection, SelectForReview
    <1>10. ASSUME NEW e \in Drafts, PrepareSelection(e) PROVE Traced(d)'
      <2> DEFINE s(c) == Selected(job[e], c)
      <2>1. PICK c \in Covers : \E k \in {s(c), Failed(s(c)), Uploaded(s(c))} :
              job' = [job EXCEPT ![e] = k]
        BY <1>10 DEF PrepareSelection
      <2>2. s(c) \in Job /\ s(c).media = job[e].media
        BY MediaKept, JobOperations
      <2>3. \A k \in {s(c), Failed(s(c)), Uploaded(s(c))} : k.media = job[e].media
        BY <2>2, MediaKept
      <2> QED
        BY <1>8, <1>10, <2>1, <2>3 DEF PrepareSelection
    <1>11. ASSUME NEW e \in Drafts, DeliverFail(e) PROVE Traced(d)'
      <2>1. PICK j \in UploadFailures(e) \cup {Failed(k) : k \in DeliveryJobs(e)} :
              job' = [job EXCEPT ![e] = j]
        BY <1>11 DEF DeliverFail
      <2>2. \A k \in DeliveryJobs(e) : Failed(k).media = job[e].media
        BY DeliveryJobsType, DeliveryJobsMedia, MediaKept
      <2>3. j.media = job[e].media
        BY <2>2, DeliveryJobsMedia
      <2> QED
        BY <1>8, <1>11, <2>1, <2>3 DEF DeliverFail
    <1>12. ASSUME NEW e \in Drafts, DeliverUpdate(e) PROVE Traced(d)'
      <2>1. PICK j \in DeliveryJobs(e) : /\ j.media # 0
                                        /\ job' = [job EXCEPT ![e] = [j EXCEPT !.state = "draft_created"]]
        BY <1>12 DEF DeliverUpdate
      <2>2. j \in Job /\ j.media = job[e].media
        BY DeliveryJobsType, DeliveryJobsMedia
      <2>3. job'[d].media = job[d].media
        BY <2>1, <2>2 DEF Job
      <2>4. status'[d] = status[d] \/ job[d].media # 0
        BY <1>12, <2>1, <2>2 DEF DeliverUpdate
      <2>5. UNCHANGED <<intro, removed>>
        BY <1>12 DEF DeliverUpdate
      <2> QED
        BY <2>3, <2>4, <2>5 DEF Traced, Known
    <1>13. ASSUME NEW e \in Drafts, DeliverCreate(e) PROVE Traced(d)'
      <2>1. PICK j \in DeliveryJobs(e), m \in FreeMedia : MarkCreated(e, j, m)
        BY <1>13 DEF DeliverCreate
      <2>2. j \in Job
        BY DeliveryJobsType
      <2> QED
        BY <1>13, <2>1, <2>2, TracedMarkCreated DEF DeliverCreate
    <1>14. ASSUME NEW e \in Drafts, DeliverOrphan(e) PROVE Traced(d)'
      BY <1>1, <1>14 DEF DeliverOrphan
    <1>15. ASSUME NEW e \in Drafts, CreateWechatDraft(e) PROVE Traced(d)'
      <2>1. job[e] \in Job /\ removed' = removed
        BY <1>15 DEF CreateWechatDraft
      <2>2. CASE \E m \in FreeMedia : MarkCreated(e, job[e], m)
        BY <2>1, <2>2, TracedMarkCreated
      <2>3. CASE UNCHANGED <<status, job, intro>>
        BY <1>1, <2>1, <2>3
      <2>4. CASE job' = [job EXCEPT ![e] = Failed(@)] /\ UNCHANGED <<status, remote, intro>>
        BY <1>8, <2>1, <2>4, MediaKept
      <2> QED
        BY <1>15, <2>2, <2>3, <2>4 DEF CreateWechatDraft
    <1>16. ASSUME NEW s \in Sources, RemoveIntroduction(s) PROVE Traced(d)'
      <2>1. Known(SourceOf[d]) => Known(SourceOf[d])'
        BY <1>0, <1>16 DEF RemoveIntroduction, Known
      <2> QED
        BY <1>16, <2>1, TracedKept DEF RemoveIntroduction
    <1>17. CASE UNCHANGED vars
      BY <1>1, <1>17 DEF vars
    <1> QED
      BY <1>2, <1>4, <1>5, <1>6, <1>7, <1>9, <1>10, <1>11, <1>12, <1>13, <1>14, <1>15, <1>16, <1>17
         DEF Next, CoreNext

\* A source that reached the draft box, or a GitHub source published by hand,
\* stays in the dedup library until an operator takes it out, whichever
\* delivery path wrote it, the publish page's button too.
THEOREM DeliveredIsKnown == Spec => []DeliveredSourceIsIntroduced
    <1> DEFINE AllTraced == \A d \in Drafts : Traced(d)
    <1>1. Init => AllTraced
      BY DEF Init, Traced, NoJob, Absent
    <1>2. AllTraced /\ TypeOK /\ [Next]_vars => AllTraced'
      BY TracedStep
    <1>3. AllTraced => DeliveredSourceIsIntroduced
      BY DEF Traced, Known, DeliveredSourceIsIntroduced
    <1> HIDE DEF AllTraced
    <1> QED
      BY <1>1, <1>2, <1>3, TypeCorrect, PTL DEF Spec

-----------------------------------------------------------------------------
(* Closed drafts stay closed                                               *)

\* Published drafts keep text and status and dropped ones stay dropped, as
\* long as the publish page's button is not used.
THEOREM ClosedStaysClosed == CoreSpec => ClosedIsFinal
    <1>1. ASSUME TypeOK, Existence, [CoreNext]_vars, NEW d \in Drafts
          PROVE  /\ status[d] = "published" => status'[d] = "published" /\ version'[d] = version[d]
                 /\ status[d] = "discarded" => status'[d] \in {"discarded", "deleted"}
                 /\ status[d] = "deleted"   => status'[d] = "deleted"
      <2> DEFINE Goal == /\ status[d] = "published" => status'[d] = "published" /\ version'[d] = version[d]
                         /\ status[d] = "discarded" => status'[d] \in {"discarded", "deleted"}
                         /\ status[d] = "deleted"   => status'[d] = "deleted"
      <2> USE DEF TypeOK, Editable, Deliverable, Absent
      <2>1. ASSUME NEW e \in Drafts, CreateDraft(e) PROVE Goal
        BY <1>1, <2>1 DEF CreateDraft
      <2>2. ASSUME NEW e \in Drafts, EditDraft(e) \/ ApplyAutoRevision(e) \/ RefreshSource(e)
                     \/ \E i \in BOOLEAN : RegenerateDraft(e, i)
            PROVE  Goal
        BY <1>1, <2>2 DEF EditDraft, ApplyAutoRevision, RefreshSource, RegenerateDraft, NewVersion
      <2>3. CASE UNCHANGED <<status, version>>
        BY <2>3
      <2>4. ASSUME NEW e \in Drafts, NEW a \in Actions,
                   AgentReview(e, a) \/ \E k \in Keys : Review(e, a, k)
            PROVE  Goal
        BY <1>1, <2>3, <2>4 DEF AgentReview, Review, Decide
      <2>5. ASSUME NEW e \in Drafts, DeleteDraft(e) \/ \E k \in Keys : RecordManualPublication(e, k)
            PROVE  Goal
        BY <1>1, <2>5 DEF DeleteDraft, RecordManualPublication
      <2>6. ASSUME NEW e \in Drafts, DeliverUpdate(e) \/ DeliverCreate(e) PROVE Goal
        BY <1>1, <2>6 DEF DeliverUpdate, DeliverCreate, MarkCreated
      <2>7. ASSUME NEW e \in Drafts, VoidSelection(e) \/ SelectForReview(e) \/ PrepareSelection(e)
                     \/ DeliverOrphan(e) \/ DeliverFail(e)
            PROVE  Goal
        BY <2>3, <2>7 DEF VoidSelection, SelectForReview, PrepareSelection, DeliverOrphan, DeliverFail
      <2>8. ASSUME NEW r \in Sources, RemoveIntroduction(r) PROVE Goal
        BY <2>3, <2>8 DEF RemoveIntroduction
      <2>9. CASE UNCHANGED vars
        BY <2>3, <2>9 DEF vars
      <2> QED
        BY <1>1, <2>1, <2>2, <2>4, <2>5, <2>6, <2>7, <2>8, <2>9 DEF CoreNext
    <1>2. TypeOK /\ Existence /\ [CoreNext]_vars => [ClosedKept]_vars
      BY <1>1 DEF ClosedKept
    <1> QED
      BY <1>2, CoreTypeCorrect, PTL DEF CoreSpec, ClosedIsFinal

-----------------------------------------------------------------------------
(* The contract                                                            *)

Stages  == [d \in Drafts |-> StageOf(status[d])]
Outside == {<<remote[m].draft, remote[m].version>> : m \in {n \in 1..MaxMedia : remote[n] # NotThere}}

LEMMA StagesUpdate ==
    ASSUME TypeOK, NEW d \in Drafts, NEW s, status' = [status EXCEPT ![d] = s]
    PROVE  Stages' = [Stages EXCEPT ![d] = StageOf(s)]
    BY DEF Stages, TypeOK

LEMMA StageValues ==
    /\ StageOf(Absent) = "none"
    /\ \A s \in Editable : StageOf(s) = "review"
    /\ StageOf("ready_to_publish") = "approved"
    /\ StageOf("draftbox_created") = "delivered"
    /\ StageOf("published") = "published"
    /\ StageOf("discarded") = "closed"
    /\ StageOf("deleted") = "closed"
    BY DEF StageOf, Editable, Absent

LEMMA WriteStep ==
    ASSUME TypeOK, NEW d \in Drafts, NewVersion(d), status[d] \in Editable \cup Deliverable
    PROVE  Contract!Write(d)
    <1>1. Stages' = [Stages EXCEPT ![d] = "review"]
      BY StagesUpdate, StageValues DEF NewVersion, Editable
    <1>2. Stages[d] \in {"none", "review", "approved", "delivered"}
      BY StageValues DEF Stages, Deliverable
    <1>3. version' = [version EXCEPT ![d] = @ + 1] /\ Outside' = Outside
      BY DEF NewVersion, Outside
    <1> QED
      BY <1>1, <1>2, <1>3 DEF Contract!Write, Stages, Outside

LEMMA DecideStep ==
    ASSUME TypeOK, NEW d \in Drafts, NEW a \in Actions, NEW k, Decide(d, a, k),
           UNCHANGED <<version, remote>>
    PROVE  \/ Contract!Approve(d) \/ Contract!SendBack(d) \/ Contract!Drop(d)
           \/ UNCHANGED Contract!vars
    <1>1. Stages' = [Stages EXCEPT ![d] = StageOf(Outcome(a))]
      BY StagesUpdate DEF Decide
    <1>2. Stages[d] = StageOf(status[d]) /\ Outside' = Outside
      BY DEF Stages, Outside
    <1>3. CASE status[d] = "ready_to_publish" /\ a = "revoke"
      <2>1. Stages' = [Stages EXCEPT ![d] = "review"] /\ Stages[d] = "approved"
        BY <1>1, <1>2, <1>3, StageValues DEF Outcome, Editable
      <2> QED
        BY <1>2, <2>1 DEF Contract!SendBack, Contract!Move, Stages, Outside
    <1>4. CASE status[d] \in Editable /\ a = "approve"
      <2>1. Stages' = [Stages EXCEPT ![d] = "approved"] /\ Stages[d] = "review"
        BY <1>1, <1>2, <1>4, StageValues DEF Outcome
      <2> QED
        BY <1>2, <2>1 DEF Contract!Approve, Contract!Move, Stages, Outside
    <1>5. CASE status[d] \in Editable /\ a = "discard"
      <2>1. Stages' = [Stages EXCEPT ![d] = "closed"] /\ Stages[d] = "review"
        BY <1>1, <1>2, <1>5, StageValues DEF Outcome
      <2> QED
        BY <1>2, <2>1 DEF Contract!Drop, Contract!Move, Stages, Outside
    <1>6. CASE status[d] \in Editable /\ a = "reject"
      <2>1. Stages' = [Stages EXCEPT ![d] = "review"] /\ Stages[d] = "review"
        BY <1>1, <1>2, <1>6, StageValues DEF Outcome, Editable
      <2>2. Stages' = Stages
        BY <2>1 DEF Stages
      <2> QED
        BY <1>2, <2>2 DEF Contract!vars, Stages, Outside
    <1> QED
      BY <1>3, <1>4, <1>5, <1>6 DEF Decide, Actions

LEMMA ShowStep ==
    ASSUME TypeOK, Existence, NEW d \in Drafts, status[d] \in Deliverable, NEW m \in 1..MaxMedia,
           Show(m, d), remote[m] = NotThere \/ remote[m].draft = d, version' = version,
           UNCHANGED status \/ status' = [status EXCEPT ![d] = "draftbox_created"]
    PROVE  Contract!Deliver(d)
    <1>1. Stages' = Stages \/ Stages' = [Stages EXCEPT ![d] = "delivered"]
      BY StagesUpdate, StageValues DEF Stages
    <1>2. Stages[d] \in {"approved", "delivered"}
      BY StageValues DEF Stages, Deliverable
    <1>3. version[d] # 0
      BY DEF Existence, Deliverable, Absent
    <1>4. remote'[m] = [draft |-> d, version |-> version[d]]
          /\ \A n \in 1..MaxMedia : n # m => remote'[n] = remote[n]
      BY DEF Show, TypeOK
    <1>5. remote'[m] # NotThere
      BY <1>3, <1>4 DEF NotThere
    <1>6. <<d, version[d]>> \in Outside'
      BY <1>4, <1>5 DEF Outside
    <1>7. ASSUME NEW o \in Outside' PROVE o = <<d, version[d]>> \/ o \in Outside
      <2>1. PICK n \in 1..MaxMedia : remote'[n] # NotThere /\ o = <<remote'[n].draft, remote'[n].version>>
        BY DEF Outside
      <2>2. CASE n = m
        BY <1>4, <2>1, <2>2
      <2>3. CASE n # m
        BY <1>4, <2>1, <2>3 DEF Outside
      <2> QED
        BY <2>2, <2>3
    <1>8. ASSUME NEW o \in Outside, o[1] # d PROVE o \in Outside'
      <2>1. PICK n \in 1..MaxMedia : remote[n] # NotThere /\ o = <<remote[n].draft, remote[n].version>>
        BY DEF Outside
      <2>2. n # m
        BY <1>8, <2>1
      <2> QED
        BY <1>4, <2>1, <2>2 DEF Outside
    <1> QED
      BY <1>1, <1>2, <1>6, <1>7, <1>8 DEF Contract!Deliver, Stages, Outside

LEMMA ContractStep ==
    ASSUME TypeOK, Existence, \A f \in Drafts : RowTrue(f), [CoreNext]_vars
    PROVE  [Contract!Next]_(Contract!vars)
    <1> DEFINE Goal == [Contract!Next]_(Contract!vars)
    <1>0. CASE UNCHANGED <<status, version, remote>>
      BY <1>0 DEF Contract!vars
    <1>1. ASSUME NEW d \in Drafts, CreateDraft(d) PROVE Goal
      <2>0. status' = [status EXCEPT ![d] = "pending_review"] /\ status[d] = Absent
        BY <1>1 DEF CreateDraft
      <2>1. Stages' = [Stages EXCEPT ![d] = "review"] /\ Stages[d] = "none"
        <3>1. Stages' = [Stages EXCEPT ![d] = StageOf("pending_review")]
          BY <2>0, StagesUpdate
        <3> QED
          BY <2>0, <3>1, StageValues DEF Editable, Stages
      <2>2. version' = [version EXCEPT ![d] = @ + 1] /\ Outside' = Outside
        <3>1. version[d] = 0
          BY <1>1 DEF CreateDraft, Existence
        <3> QED
          BY <1>1, <3>1 DEF CreateDraft, Outside, TypeOK
      <2>3. Contract!Write(d)
        BY <2>1, <2>2 DEF Contract!Write, Stages, Outside
      <2> QED
        BY <2>3 DEF Contract!Next
    <1>2. ASSUME NEW d \in Drafts, EditDraft(d) \/ ApplyAutoRevision(d) \/ RefreshSource(d)
                   \/ \E i \in BOOLEAN : RegenerateDraft(d, i)
          PROVE  Goal
      <2>1. Contract!Write(d)
        BY <1>2, WriteStep DEF EditDraft, ApplyAutoRevision, RefreshSource, RegenerateDraft
      <2> QED
        BY <2>1 DEF Contract!Next
    <1>3. ASSUME NEW d \in Drafts, NEW a \in Actions,
                 AgentReview(d, a) \/ \E k \in Keys : Review(d, a, k)
          PROVE  Goal
      <2>1. UNCHANGED <<version, remote>> /\ (UNCHANGED status \/ \E k : Decide(d, a, k))
        BY <1>3 DEF AgentReview, Review
      <2> QED
        BY <1>0, <2>1, DecideStep DEF Contract!Next
    <1>4. ASSUME NEW d \in Drafts, DeleteDraft(d) PROVE Goal
      <2>0. status' = [status EXCEPT ![d] = "deleted"] /\ version' = version /\ remote' = remote
        BY <1>4 DEF DeleteDraft
      <2>1. Stages' = [Stages EXCEPT ![d] = "closed"] /\ Outside' = Outside /\ version' = version
        BY <2>0, StagesUpdate, StageValues DEF Outside
      <2>2. Stages[d] \in {"review", "approved", "delivered", "closed"}
        BY <1>4, StageValues DEF DeleteDraft, Stages
      <2>3. Contract!Drop(d) \/ UNCHANGED Contract!vars
        <3>1. CASE Stages[d] = "closed"
          <4>1. Stages' = Stages
            BY <2>1, <3>1 DEF Stages
          <4> QED
            BY <2>1, <4>1 DEF Contract!vars, Stages, Outside
        <3>2. CASE Stages[d] # "closed"
          BY <2>1, <2>2, <3>2 DEF Contract!Drop, Contract!Move, Stages, Outside
        <3> QED
          BY <3>1, <3>2
      <2> QED
        BY <2>3 DEF Contract!Next
    <1>5. ASSUME NEW d \in Drafts, NEW k \in Keys, RecordManualPublication(d, k) PROVE Goal
      <2>0. status' = [status EXCEPT ![d] = "published"] /\ version' = version /\ remote' = remote
        BY <1>5 DEF RecordManualPublication
      <2>1. Stages' = [Stages EXCEPT ![d] = "published"] /\ Outside' = Outside /\ version' = version
        BY <2>0, StagesUpdate, StageValues DEF Outside
      <2>2. Stages[d] = "approved"
        BY <1>5, StageValues DEF RecordManualPublication, Stages
      <2>3. Contract!Publish(d)
        BY <2>1, <2>2 DEF Contract!Publish, Contract!Move, Stages, Outside
      <2> QED
        BY <2>3 DEF Contract!Next
    <1>6. ASSUME NEW d \in Drafts, DeliverUpdate(d) PROVE Goal
      <2>1. PICK j \in DeliveryJobs(d) : j.media # 0 /\ Show(j.media, d)
        BY <1>6 DEF DeliverUpdate
      <2>2. j.media = job[d].media
        BY DeliveryJobsMedia
      <2>3. job[d].media \in 1..MaxMedia
        BY <2>1, <2>2, SMT DEF TypeOK, Job
      <2>4. remote[job[d].media].draft = d
        BY <2>1, <2>2 DEF RowTrue
      <2>5. Contract!Deliver(d)
        BY <1>6, <2>1, <2>2, <2>3, <2>4, ShowStep DEF DeliverUpdate
      <2> QED
        BY <2>5 DEF Contract!Next
    <1>7. ASSUME NEW d \in Drafts, DeliverCreate(d) \/ DeliverOrphan(d) PROVE Goal
      <2>1. PICK m \in FreeMedia : Show(m, d)
        BY <1>7 DEF DeliverCreate, DeliverOrphan, MarkCreated
      <2>2. m \in 1..MaxMedia /\ remote[m] = NotThere
        BY DEF FreeMedia
      <2>3. Contract!Deliver(d)
        BY <1>7, <2>1, <2>2, ShowStep DEF DeliverCreate, DeliverOrphan, MarkCreated
      <2> QED
        BY <2>3 DEF Contract!Next
    <1>8. ASSUME NEW d \in Drafts, VoidSelection(d) \/ SelectForReview(d) \/ PrepareSelection(d)
                   \/ DeliverFail(d)
          PROVE  Goal
      BY <1>0, <1>8 DEF VoidSelection, SelectForReview, PrepareSelection, DeliverFail
    <1>9. ASSUME NEW s \in Sources, RemoveIntroduction(s) PROVE Goal
      BY <1>0, <1>9 DEF RemoveIntroduction
    <1>10. CASE UNCHANGED vars
      BY <1>0, <1>10 DEF vars
    <1> QED
      BY <1>1, <1>2, <1>3, <1>4, <1>5, <1>6, <1>7, <1>8, <1>9, <1>10 DEF CoreNext

\* Whatever the size of the system, the rows and jobs do what the contract
\* says: review before every exit, review again after every change.
THEOREM Refinement == CoreSpec => ImplementsContract
    <1> DEFINE True == \A d \in Drafts : RowTrue(d)
    <1>1. Init => Contract!Init
      BY StageValues DEF Init, Contract!Init
    <1>2. Init => True
      BY DEF Init, RowTrue, NoJob, Absent
    <1>3. True /\ TypeOK /\ Existence /\ [CoreNext]_vars => True'
      BY RowTrueStep DEF Next
    <1>4. True /\ TypeOK /\ Existence /\ [CoreNext]_vars => [Contract!Next]_(Contract!vars)
      BY ContractStep
    <1> HIDE DEF True
    <1> QED
      BY <1>1, <1>2, <1>3, <1>4, CoreTypeCorrect, PTL DEF CoreSpec, ImplementsContract, Contract!Spec
=============================================================================
