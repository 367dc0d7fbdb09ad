------------------------ MODULE ReviewDeliveryProofs ------------------------
(***************************************************************************)
(* What holds of RewriteReview for any number of runs, jobs and reviews,   *)
(* and of DraftAssets for any number of pictures, paragraphs, deliveries   *)
(* and failures: the two ends of the path from a rewritten text to the     *)
(* draft box.                                                              *)
(***************************************************************************)
EXTENDS RewriteReview, DraftAssets, FiniteSetTheorems, SequenceTheorems, WellFoundedInduction, TLAPS

-----------------------------------------------------------------------------
(* RewriteReview. *)

USE RewriteReviewAssumption

RunStatus == {"none", "running", "completed", "failed"}

\* The operators on rows keep them rows.
LEMMA FinishedTyped ==
    ASSUME NEW rows \in [AllRuns -> Run], NEW r \in AllRuns \cup {"none"}, NEW s \in RunStatus
    PROVE  Finished(rows, r, s) \in [AllRuns -> Run]
BY DEF Finished, Run, RunStatus, AllRuns

LEMMA OpenedTyped ==
    ASSUME NEW rows \in [AllRuns -> Run], NEW c \in Runs
    PROVE  Opened(rows, c) \in [AllRuns -> Run]
BY DEF Opened, Run, AllRuns

LEMMA ClaimedTyped ==
    ASSUME NEW rows \in [AllRuns -> Run], NEW c \in Runs
    PROVE  Claimed(rows, c) \in [AllRuns -> Run]
BY DEF Claimed, Run, AllRuns

LEMMA ReopenedTyped ==
    ASSUME NEW rows \in [AllRuns -> Run]
    PROVE  Reopened(rows) \in [AllRuns -> Run]
BY DEF Reopened, Run, AllRuns

LEMMA RewriteRowsTyped ==
    ASSUME NEW rows \in [AllRuns -> Run], NEW c \in Runs
    PROVE  RewriteRows(rows, c) \in [AllRuns -> Run]
<1> DEFINE marked == [rows EXCEPT ![c] = [status |-> IF HasOrigin THEN "completed" ELSE @.status,
                                          target |-> TRUE, job |-> TRUE]]
<1>1. marked \in [AllRuns -> Run]
    BY DEF Run, AllRuns
<1> HIDE DEF marked
<1>2. RewriteRows(rows, c) = IF HasOrigin THEN Reopened(marked) ELSE marked
    BY DEF RewriteRows, marked
<1> QED
    BY <1>1, <1>2, ReopenedTyped

LEMMA EnqueueTyped ==
    ASSUME jobs \in [Jobs -> Job], NEW r \in AllRuns, Enqueue(r)
    PROVE  jobs' \in [Jobs -> Job]
BY DEF Enqueue, NextJob, Job

LEMMA StartRewriteTyped ==
    ASSUME TypeOK, NEW c \in Runs, NEW known, NEW mode, StartRewrite(c, known, mode)
    PROVE  run' \in [AllRuns -> Run] /\ jobs' \in [Jobs -> Job]
<1>1. run \in [AllRuns -> Run] /\ jobs \in [Jobs -> Job] /\ c \in AllRuns /\ Origin \in AllRuns
    BY DEF TypeOK, AllRuns
<1>2. Opened(run, c) \in [AllRuns -> Run]
    BY <1>1, OpenedTyped
<1>3. CASE Known(c, known, mode)
    BY <1>1, <1>3 DEF Known
<1>4. CASE TurnedAway(c, known, mode)
    BY <1>1, <1>2, <1>4, ClaimedTyped DEF TurnedAway
<1>5. CASE Started(c, known, mode)
    <2>1. run' \in [AllRuns -> Run]
        BY <1>2, <1>5, RewriteRowsTyped DEF Started
    <2>2. jobs' \in [Jobs -> Job]
        BY <1>1, <1>5, EnqueueTyped DEF Started
    <2> QED
        BY <2>1, <2>2
<1> QED
    BY <1>3, <1>4, <1>5 DEF StartRewrite

LEMMA CreateTyped ==
    ASSUME review \in [Reviews -> Review], NEW d \in BOOLEAN, NEW e \in BOOLEAN,
           NEW c \in AllRuns \cup {"none"}, NEW b \in SUBSET Jobs, NEW l \in BOOLEAN, Create(d, e, c, b, l)
    PROVE  review' \in [Reviews -> Review]
BY DEF Create, NextReview, Review, ActiveReview

LEMMA MarkerTyped ==
    ASSUME TypeOK, NEW d \in BOOLEAN, NEW e \in BOOLEAN, NEW r \in Runs, NEW c \in Runs
    PROVE  /\ OfOthers(r) \in SUBSET Jobs
           /\ Merged(d, e, r) \in Marker /\ Marked(d, e, r, c) \in Marker /\ NoMarker \in Marker
BY DEF TypeOK, Merged, Marked, NoMarker, Marker, OfOthers, UnderWay, AllRuns

LEMMA StartReviewTyped ==
    ASSUME TypeOK, NEW r \in Runs, NEW c \in Runs, NEW d \in BOOLEAN, NEW e \in BOOLEAN,
           StartReview(r, c, d, e)
    PROVE  /\ run' \in [AllRuns -> Run] /\ review' \in [Reviews -> Review]
           /\ marker' \in Marker /\ promised' \subseteq Reviews
<1>1. /\ run \in [AllRuns -> Run] /\ review \in [Reviews -> Review]
      /\ marker \in Marker /\ promised \subseteq Reviews
    BY DEF TypeOK
<1>2. Opened(run, c) \in [AllRuns -> Run]
    BY <1>1, OpenedTyped
<1>3. /\ Merged(d, e, r) \in Marker /\ Marked(d, e, r, c) \in Marker /\ OfOthers(r) \in SUBSET Jobs
      /\ Newest \subseteq Reviews
    BY MarkerTyped DEF Newest, Active
<1>4. CASE MergeIntoReview(r, d, e)
    BY <1>1, <1>3, <1>4 DEF MergeIntoReview
<1>5. CASE QueueReview(r, c, d, e)
    BY <1>1, <1>2, <1>3, <1>5 DEF QueueReview
<1>6. CASE CreateReview(r, c, d, e)
    BY <1>1, <1>2, <1>3, <1>6, CreateTyped DEF CreateReview, AllRuns
<1> QED
    BY <1>4, <1>5, <1>6 DEF StartReview

LEMMA LaunchTyped ==
    ASSUME TypeOK, LaunchPending
    PROVE  review' \in [Reviews -> Review] /\ marker' \in Marker
<1>1. review \in [Reviews -> Review] /\ marker \in Marker
    BY DEF TypeOK
<1>2. CASE marker.kind = "none"
    BY <1>1, <1>2 DEF LaunchPending
<1>3. CASE marker.kind # "none"
    <2>1. Create(marker.deliver, marker.revise, marker.run, marker.behind, TRUE) /\ marker' = NoMarker
        BY <1>3 DEF LaunchPending
    <2>2. review' \in [Reviews -> Review]
        BY <1>1, <2>1, CreateTyped DEF Marker
    <2>3. NoMarker \in Marker
        BY DEF NoMarker, Marker
    <2> QED
        BY <2>1, <2>2, <2>3
<1> QED
    BY <1>2, <1>3

LEMMA ReviewToTyped ==
    ASSUME review \in [Reviews -> Review], NEW v \in Reviews,
           NEW s \in {"none", "passed", "failed"} \cup ActiveReview, ReviewTo(v, s)
    PROVE  review' \in [Reviews -> Review]
BY DEF ReviewTo, Review

LEMMA PhaseTyped ==
    ASSUME jobs \in [Jobs -> Job], NEW j \in Jobs, NEW s \in {"queued", "generating", "launching"},
           NEW t \in {"generating", "launching", "closed"}, Phase(j, s, t)
    PROVE  jobs' \in [Jobs -> Job]
BY DEF Phase, Job

---------------------------------------------------------------------------
\* The types.

LEMMA DispatchingTyped ==
    ASSUME TypeOK, NEW r \in Runs, Dispatching(r)
    PROVE  TypeOK'
<1>1. /\ run \in [AllRuns -> Run] /\ r \in AllRuns /\ Runs \subseteq AllRuns
      /\ turn \in [Runs -> {"idle", "open", "over"}] /\ called \in [Runs -> 0..MaxCalls]
      /\ handled \in [Runs -> BOOLEAN]
    BY DEF TypeOK, AllRuns
<1>2. ASSUME Call(r) PROVE called' \in [Runs -> 0..MaxCalls] /\ turn' = turn
    BY <1>1, <1>2 DEF Call
<1>3. CASE SendMessage(r)
    BY <1>1, <1>3 DEF SendMessage, TypeOK, Run, reviewVars
<1>4. CASE ToolRewrite(r)
    <2>1. PICK c \in Runs, mode \in Modes : StartRewrite(c, run[c].job, mode)
        BY <1>4 DEF ToolRewrite
    <2>2. run' \in [AllRuns -> Run] /\ jobs' \in [Jobs -> Job]
        BY <2>1, StartRewriteTyped
    <2> QED
        BY <1>2, <1>4, <2>2 DEF ToolRewrite, TypeOK, reviewVars
<1>5. CASE StepRewrite(r)
    <2>1. run' \in [AllRuns -> Run] /\ jobs' \in [Jobs -> Job]
        BY <1>5, StartRewriteTyped DEF StepRewrite
    <2>2. turn' \in [Runs -> {"idle", "open", "over"}]
        BY <1>1, <1>5 DEF StepRewrite
    <2> QED
        BY <1>5, <2>1, <2>2 DEF StepRewrite, TypeOK, reviewVars
<1>6. CASE ToolReview(r)
    <2>1. PICK c \in Runs, d \in BOOLEAN, e \in BOOLEAN : StartReview(r, c, d, e)
        BY <1>6 DEF ToolReview
    <2>2. /\ run' \in [AllRuns -> Run] /\ review' \in [Reviews -> Review]
          /\ marker' \in Marker /\ promised' \subseteq Reviews
        BY <2>1, StartReviewTyped
    <2>3. handled' \in [Runs -> BOOLEAN]
        BY <1>1, <1>6 DEF ToolReview
    <2> QED
        BY <1>2, <1>6, <2>2, <2>3 DEF ToolReview, TypeOK
<1>7. CASE StepReview(r)
    <2>1. PICK d \in BOOLEAN : StartReview(r, r, d, TRUE)
        BY <1>7 DEF StepReview
    <2>2. /\ run' \in [AllRuns -> Run] /\ review' \in [Reviews -> Review]
          /\ marker' \in Marker /\ promised' \subseteq Reviews
        BY <2>1, StartReviewTyped
    <2>3. turn' \in [Runs -> {"idle", "open", "over"}]
        BY <1>1, <1>7 DEF StepReview
    <2> QED
        BY <1>7, <2>2, <2>3 DEF StepReview, TypeOK
<1>8. CASE ToolImage(r)
    <2>1. PICK c \in Runs : run' = Opened(run, c) /\ images' = images \cup {c}
        BY <1>8 DEF ToolImage
    <2>2. run' \in [AllRuns -> Run] /\ images' \subseteq AllRuns
        BY <1>1, <2>1, OpenedTyped DEF TypeOK
    <2> QED
        BY <1>2, <1>8, <2>2 DEF ToolImage, TypeOK, reviewVars
<1>9. CASE HandOver(r)
    BY <1>1, <1>9 DEF HandOver, TypeOK, reviewVars
<1>10. CASE Answer(r)
    BY <1>1, <1>10 DEF Answer, TypeOK, Run, reviewVars
<1>11. CASE DispatchFails(r)
    <2>1. run' \in [AllRuns -> Run]
        BY <1>1, <1>11, FinishedTyped DEF DispatchFails, RunStatus
    <2> QED
        BY <1>1, <1>11, <2>1 DEF DispatchFails, TypeOK, reviewVars
<1> QED
    BY <1>3, <1>4, <1>5, <1>6, <1>7, <1>8, <1>9, <1>10, <1>11 DEF Dispatching

LEMMA RewritingTyped ==
    ASSUME TypeOK, NEW j \in Jobs, jobs[j].run \in AllRuns, Rewriting(j)
    PROVE  TypeOK'
<1>1. run \in [AllRuns -> Run] /\ jobs \in [Jobs -> Job] /\ version \in 0..MaxVersion
    BY DEF TypeOK
<1>2. CASE BeginRewrite(j)
    <2>1. jobs' \in [Jobs -> Job]
        BY <1>1, <1>2, PhaseTyped DEF BeginRewrite
    <2> QED
        BY <1>2, <2>1 DEF BeginRewrite, TypeOK, turnVars, reviewVars
<1>3. CASE Supersede(j)
    <2>1. jobs' \in [Jobs -> Job]
        BY <1>1, <1>3, PhaseTyped DEF Supersede
    <2>2. run' \in [AllRuns -> Run]
        BY <1>1, <1>3, FinishedTyped DEF Supersede, RunStatus
    <2> QED
        BY <1>3, <2>1, <2>2 DEF Supersede, TypeOK, turnVars, reviewVars
<1>4. ASSUME Write(j)
      PROVE  run' \in [AllRuns -> Run] /\ version' \in 0..MaxVersion
    <2> DEFINE r == jobs[j].run
    <2>1. run' = [run EXCEPT ![r].target = FALSE] /\ r \in AllRuns
        BY <1>4 DEF Write
    <2> HIDE DEF r
    <2>2. run' \in [AllRuns -> Run]
        BY <1>1, <2>1 DEF Run
    <2>3. version' \in 0..MaxVersion
        BY <1>1, <1>4 DEF Write
    <2> QED
        BY <2>2, <2>3
<1>5. CASE WriteWithPictures(j)
    <2>1. jobs' \in [Jobs -> Job]
        BY <1>1, <1>5, PhaseTyped DEF WriteWithPictures
    <2> QED
        BY <1>4, <1>5, <2>1 DEF WriteWithPictures, Write, TypeOK, turnVars, reviewVars
<1>6. CASE WriteTextOnly(j)
    <2>1. jobs' \in [Jobs -> Job]
        BY <1>1, <1>6, PhaseTyped DEF WriteTextOnly
    <2> QED
        BY <1>4, <1>6, <2>1 DEF WriteTextOnly, Write, TypeOK, turnVars, reviewVars
<1>7. CASE Launch(j)
    <2>1. jobs' \in [Jobs -> Job]
        BY <1>1, <1>7, PhaseTyped DEF Launch
    <2>2. review' \in [Reviews -> Review] /\ marker' \in Marker
        BY <1>7, LaunchTyped DEF Launch
    <2> QED
        BY <1>7, <2>1, <2>2 DEF Launch, TypeOK, turnVars
<1>8. CASE FailRewrite(j)
    <2>1. jobs' \in [Jobs -> Job]
        BY <1>1, <1>8, PhaseTyped DEF FailRewrite
    <2>2. run' \in [AllRuns -> Run]
        BY <1>1, <1>8, FinishedTyped DEF FailRewrite, RunStatus
    <2> QED
        BY <1>8, <2>1, <2>2 DEF FailRewrite, TypeOK, turnVars, reviewVars
<1> QED
    BY <1>2, <1>3, <1>5, <1>6, <1>7, <1>8 DEF Rewriting

LEMMA ClosingTyped ==
    ASSUME TypeOK, NEW r \in AllRuns, Closing(r) \/ Reconcile(r)
    PROVE  TypeOK'
<1>1. run \in [AllRuns -> Run]
    BY DEF TypeOK
<1>2. CASE EndPictures(r)
    BY <1>2 DEF EndPictures, TypeOK, turnVars, reviewVars
<1>3. CASE FinalizeLate(r)
    BY <1>3 DEF FinalizeLate, TypeOK, turnVars, reviewVars
<1>4. CASE Finalize(r)
    <2>1. review' \in [Reviews -> Review] /\ marker' \in Marker
        BY <1>4, LaunchTyped DEF Finalize
    <2>2. run' \in [AllRuns -> Run]
        BY <1>1, <1>4, FinishedTyped DEF Finalize, RunStatus
    <2> QED
        BY <1>4, <2>1, <2>2 DEF Finalize, TypeOK, turnVars
<1>5. CASE Reconcile(r)
    <2>1. run' \in [AllRuns -> Run]
        BY <1>1, <1>5 DEF Reconcile, Run
    <2> QED
        BY <1>5, <2>1 DEF Reconcile, TypeOK, turnVars, reviewVars
<1> QED
    BY <1>2, <1>3, <1>4, <1>5 DEF Closing

LEMMA ReviewingTyped ==
    ASSUME TypeOK, NEW v \in Reviews, Reviewing(v)
    PROVE  TypeOK'
<1>1. /\ run \in [AllRuns -> Run] /\ review \in [Reviews -> Review]
      /\ version \in 0..MaxVersion /\ review[v].run \in AllRuns \cup {"none"}
    BY DEF TypeOK, Review
<1>2. CASE BeginReview(v)
    <2>1. review' \in [Reviews -> Review]
        BY <1>1, <1>2, ReviewToTyped DEF BeginReview, ActiveReview
    <2> QED
        BY <1>2, <2>1 DEF BeginReview, TypeOK, turnVars
<1>3. CASE Revise(v)
    <2>1. review' \in [Reviews -> Review]
        BY <1>1, <1>3, ReviewToTyped DEF Revise, ActiveReview
    <2> QED
        BY <1>3, <2>1 DEF Revise, TypeOK, turnVars
<1>4. CASE Defer(v)
    <2>1. review' \in [Reviews -> Review]
        BY <1>1, <1>4, ReviewToTyped DEF Defer
    <2>2. run' \in [AllRuns -> Run]
        BY <1>1, <1>4, FinishedTyped DEF Defer, RunStatus
    <2> QED
        BY <1>4, <2>1, <2>2 DEF Defer, TypeOK, turnVars
<1>5. ASSUME NEW passed \in BOOLEAN, EndReview(v, passed) PROVE TypeOK'
    <2> DEFINE s == IF passed THEN "passed" ELSE "failed"
               d == passed /\ review[v].deliver
    <2>4. s \in {"passed", "failed"} /\ d \in BOOLEAN
        OBVIOUS
    <2>5. review' = [review EXCEPT ![v].status = s, ![v].delivered = d]
        BY <1>5 DEF EndReview
    <2> HIDE DEF s, d
    <2>6. review' = [review EXCEPT ![v] = [review[v] EXCEPT !.status = s, !.delivered = d]]
        BY <1>1, <2>5
    <2>7. [review[v] EXCEPT !.status = s, !.delivered = d] \in Review
        BY <1>1, <2>4 DEF Review
    <2>1. review' \in [Reviews -> Review]
        BY <1>1, <2>6, <2>7
    <2>2. run' \in [AllRuns -> Run]
        BY <1>1, <1>5, FinishedTyped DEF EndReview, RunStatus
    <2>3. version' \in 0..MaxVersion
        BY <1>1, <1>5 DEF EndReview
    <2> QED
        BY <1>5, <2>1, <2>2, <2>3 DEF EndReview, TypeOK, turnVars
<1>6. CASE BreakReview(v)
    <2>1. review' \in [Reviews -> Review]
        BY <1>1, <1>6, ReviewToTyped DEF BreakReview
    <2>2. run' \in [AllRuns -> Run]
        BY <1>1, <1>6, FinishedTyped DEF BreakReview, RunStatus
    <2> QED
        BY <1>6, <2>1, <2>2 DEF BreakReview, TypeOK, turnVars
<1> QED
    BY <1>2, <1>3, <1>4, <1>5, <1>6 DEF Reviewing

LEMMA WebTyped ==
    ASSUME TypeOK, WebRewrite \/ WebReview
    PROVE  TypeOK'
<1>1. run \in [AllRuns -> Run] /\ jobs \in [Jobs -> Job] /\ review \in [Reviews -> Review]
    BY DEF TypeOK
<1>2. CASE WebRewrite
    <2>1. run' \in [AllRuns -> Run]
        BY <1>1, <1>2, ReopenedTyped DEF WebRewrite
    <2>2. jobs' \in [Jobs -> Job]
        BY <1>1, <1>2, EnqueueTyped DEF WebRewrite, AllRuns
    <2> QED
        BY <1>2, <2>1, <2>2 DEF WebRewrite, TypeOK, turnVars, reviewVars
<1>3. CASE WebReview
    <2>1. PICK d \in BOOLEAN : Create(d, TRUE, "none", {}, FALSE)
        BY <1>3 DEF WebReview
    <2> DEFINE b == {}
    <2>2. b \in SUBSET Jobs /\ TRUE \in BOOLEAN /\ FALSE \in BOOLEAN
              /\ "none" \in AllRuns \cup {"none"} /\ Create(d, TRUE, "none", b, FALSE)
        BY <2>1
    <2> HIDE DEF b
    <2>3. review' \in [Reviews -> Review]
        BY <1>1, <2>2, CreateTyped
    <2> QED
        BY <1>3, <2>3 DEF WebReview, TypeOK, turnVars
<1> QED
    BY <1>2, <1>3

\* Every job that was ever enqueued has a run, and no other.
JobsHaveRuns == \A j \in Jobs : IF jobs[j].phase = "free" THEN jobs[j].run = "none" ELSE jobs[j].run \in AllRuns

\* The jobs change in one of these ways, or not at all.
JobStep ==
    \/ UNCHANGED jobs
    \/ \E r \in AllRuns : Enqueue(r)
    \/ \E j \in Jobs, from, to \in {"queued", "generating", "launching", "closed"} :
         Phase(j, from, to) /\ (to \in {"queued", "generating"} => from = "queued")

LEMMA DispatchingJobs ==
    ASSUME NEW r \in Runs, Dispatching(r)
    PROVE  JobStep
<1>1. ASSUME NEW c \in Runs, NEW known, NEW mode, StartRewrite(c, known, mode)
      PROVE  JobStep
    BY <1>1 DEF StartRewrite, Known, TurnedAway, Started, JobStep, AllRuns
<1>2. CASE ToolRewrite(r)
    BY <1>1, <1>2 DEF ToolRewrite
<1>3. CASE StepRewrite(r)
    BY <1>1, <1>3 DEF StepRewrite
<1>4. CASE SendMessage(r) \/ ToolReview(r) \/ ToolImage(r) \/ StepReview(r)
    BY <1>4 DEF SendMessage, ToolReview, ToolImage, StepReview, JobStep
<1>5. CASE HandOver(r) \/ Answer(r) \/ DispatchFails(r)
    BY <1>5 DEF HandOver, Answer, DispatchFails, JobStep
<1> QED
    BY <1>2, <1>3, <1>4, <1>5 DEF Dispatching

LEMMA NextJobs ==
    ASSUME Next
    PROVE  JobStep
<1>1. ASSUME NEW r \in Runs, Dispatching(r) PROVE JobStep
    BY <1>1, DispatchingJobs
<1>2. CASE WebRewrite \/ WebReview
    BY <1>2 DEF WebRewrite, WebReview, JobStep, AllRuns
<1>3. ASSUME NEW j \in Jobs, Rewriting(j) PROVE JobStep
    BY <1>3 DEF Rewriting, BeginRewrite, Supersede, WriteWithPictures, WriteTextOnly, Launch,
                FailRewrite, JobStep
<1>4. ASSUME NEW r \in AllRuns, Closing(r) \/ Reconcile(r) PROVE JobStep
    BY <1>4 DEF Closing, Reconcile, EndPictures, FinalizeLate, Finalize, JobStep
<1>5. ASSUME NEW v \in Reviews, Reviewing(v) PROVE JobStep
    BY <1>5 DEF Reviewing, BeginReview, Revise, Defer, EndReview, BreakReview, JobStep
<1>6. ASSUME NEW r \in Runs, Age(r) PROVE JobStep
    BY <1>6 DEF Age, JobStep
<1> QED
    BY <1>1, <1>2, <1>3, <1>4, <1>5, <1>6 DEF Next

LEMMA JobsHaveRunsKept ==
    ASSUME TypeOK, JobsHaveRuns, JobStep
    PROVE  JobsHaveRuns'
<1>1. jobs \in [Jobs -> Job]
    BY DEF TypeOK
<1>2. CASE UNCHANGED jobs
    BY <1>2 DEF JobsHaveRuns
<1>3. ASSUME NEW r \in AllRuns, Enqueue(r) PROVE JobsHaveRuns'
    BY <1>1, <1>3 DEF Enqueue, NextJob, JobsHaveRuns, Job
<1>4. ASSUME NEW j \in Jobs, NEW from \in {"queued", "generating", "launching", "closed"},
             NEW to \in {"queued", "generating", "launching", "closed"}, Phase(j, from, to)
      PROVE  JobsHaveRuns'
    <2>1. jobs[j].run \in AllRuns
        BY <1>4 DEF Phase, JobsHaveRuns
    <2>2. \A k \in Jobs : jobs'[k].run = jobs[k].run
        BY <1>1, <1>4 DEF Phase, Job
    <2>3. (\A k \in Jobs \ {j} : jobs'[k] = jobs[k]) /\ jobs'[j].phase = to
        BY <1>1, <1>4 DEF Phase, Job
    <2> QED
        BY <2>1, <2>2, <2>3 DEF JobsHaveRuns
<1> QED
    BY <1>2, <1>3, <1>4 DEF JobStep

Inv == TypeOK /\ JobsHaveRuns

LEMMA InvInit == Init => Inv
<1> SUFFICES ASSUME Init PROVE Inv
    OBVIOUS
<1>1. run \in [AllRuns -> Run]
    BY DEF Init, Run
<1>2. jobs \in [Jobs -> Job] /\ JobsHaveRuns
    BY DEF Init, Job, JobsHaveRuns
<1>3. review \in [Reviews -> Review] /\ marker \in Marker
    BY DEF Init, Review, Marker, NoMarker
<1> QED
    BY <1>1, <1>2, <1>3 DEF Init, Inv, TypeOK

LEMMA InvNext == Inv /\ [Next]_vars => Inv'
<1> SUFFICES ASSUME Inv, [Next]_vars PROVE Inv'
    OBVIOUS
<1>1. CASE UNCHANGED vars
    BY <1>1 DEF vars, Inv, TypeOK, JobsHaveRuns
<1>2. CASE Next
    <2>1. TypeOK /\ JobsHaveRuns
        BY DEF Inv
    <2>2. JobsHaveRuns'
        BY <1>2, <2>1, NextJobs, JobsHaveRunsKept
    <2>3. ASSUME NEW r \in Runs, Dispatching(r) PROVE TypeOK'
        BY <2>1, <2>3, DispatchingTyped
    <2>4. ASSUME WebRewrite \/ WebReview PROVE TypeOK'
        BY <2>1, <2>4, WebTyped
    <2>5. ASSUME NEW j \in Jobs, Rewriting(j) PROVE TypeOK'
        <3>1. jobs[j].phase # "free"
            BY <2>5 DEF Rewriting, BeginRewrite, Supersede, WriteWithPictures, WriteTextOnly, Launch,
                        FailRewrite, Phase
        <3>2. jobs[j].run \in AllRuns
            BY <2>1, <3>1 DEF JobsHaveRuns
        <3> QED
            BY <2>1, <2>5, <3>2, RewritingTyped
    <2>6. ASSUME NEW r \in AllRuns, Closing(r) \/ Reconcile(r) PROVE TypeOK'
        BY <2>1, <2>6, ClosingTyped
    <2>7. ASSUME NEW v \in Reviews, Reviewing(v) PROVE TypeOK'
        BY <2>1, <2>7, ReviewingTyped
    <2>8. ASSUME NEW r \in Runs, Age(r) PROVE TypeOK'
        BY <2>1, <2>8 DEF Age, TypeOK, reviewVars
    <2>9. TypeOK'
        BY <1>2, <2>3, <2>4, <2>5, <2>6, <2>7, <2>8 DEF Next
    <2> QED
        BY <2>2, <2>9 DEF Inv
<1> QED
    BY <1>1, <1>2

\* The types of rows, queues and markers hold in every state.
THEOREM TypeCorrect == Spec => []TypeOK
<1>1. Inv => TypeOK
    BY DEF Inv
<1> QED
    BY <1>1, InvInit, InvNext, PTL DEF Spec

---------------------------------------------------------------------------
\* Writers and reviews: a run at work holds its claim.

\* A job under way whose run is running: the run claims the draft, or it asked for another
\* rewrite as well.  A run that has a job is not one that is yet to be opened.
Held ==
    \A j \in Jobs : jobs[j].run \in Runs =>
        /\ run[jobs[j].run].status # "none"
        /\ j \in UnderWay /\ run[jobs[j].run].status = "running" =>
               run[jobs[j].run].target \/ SeveralJobs(jobs[j].run)

\* The rewrites recorded with a review that did not wait are jobs that exist.
BehindExists == \A v \in Reviews : ~review[v].launched => \A j \in review[v].behind : jobs[j].phase # "free"

Apart == Held /\ BehindExists /\ WritersExclude /\ AtOnceMeansAlone

\* What a step does to rows: a row that was opened is not opened again, and one that stays
\* running gives up its claim only to the end of a job of its own.
Gives(r) == \E j \in Generating : jobs[j].run = r /\ j \notin UnderWay'
RowStep(r) ==
    run[r].status # "none" =>
        /\ run'[r].status # "none"
        /\ run'[r].status = "running" => run[r].status = "running" /\ (run[r].target => run'[r].target \/ Gives(r))
RowsStep == \A r \in Runs : RowStep(r)

\* A new job's run is open, and claims the draft while it is running.
NewJobs ==
    \A j \in Jobs : jobs[j].phase = "free" /\ jobs'[j].phase # "free" /\ jobs'[j].run \in Runs =>
        /\ run'[jobs'[j].run].status # "none"
        /\ run'[jobs'[j].run].status = "running" => run'[jobs'[j].run].target

\* A job begins to write only when the queries see nobody else.
NewWriters ==
    \A j \in Jobs : j \in Generating' => j \in Generating \/ (jobs[j].phase = "queued" /\ ~ActiveRewrite(jobs[j].run))

\* Whatever a step does to a review, it was there, or waited, or is alone.
ReviewStep(v) ==
    \/ /\ review'[v].behind = review[v].behind /\ review'[v].launched = review[v].launched
       /\ v \in Active' => v \in Active
    \/ review'[v].launched \/ review'[v].behind = {}
    \/ \E r \in Runs : review'[v].behind = OfOthers(r) /\ ~ActiveRewrite(r) /\ jobs' = jobs
ReviewsStep == \A v \in Reviews : ReviewStep(v)

LEMMA SameRows ==
    ASSUME UNCHANGED run
    PROVE  RowsStep
BY DEF RowsStep, RowStep

LEMMA FinishedRows ==
    ASSUME TypeOK, NEW x \in AllRuns \cup {"none"}, NEW s \in {"completed", "failed"}, run' = Finished(run, x, s)
    PROVE  RowsStep
BY DEF TypeOK, Finished, RowsStep, RowStep, AllRuns

LEMMA OpenedRow ==
    ASSUME TypeOK, NEW c \in Runs
    PROVE  /\ Opened(run, c) \in [AllRuns -> Run]
           /\ \A r \in AllRuns \ {c} : Opened(run, c)[r] = run[r]
           /\ Opened(run, c)[c].status # "none" /\ Opened(run, c)[c].target = run[c].target
           /\ run[c].status # "none" => Opened(run, c)[c].status = run[c].status
<1>1. run \in [AllRuns -> Run] /\ c \in AllRuns
    BY DEF TypeOK, AllRuns
<1>2. Opened(run, c) = [run EXCEPT ![c].status = IF run[c].status = "none" THEN "running" ELSE run[c].status]
    BY <1>1 DEF Opened
<1>3. /\ \A r \in AllRuns \ {c} : Opened(run, c)[r] = run[r]
      /\ Opened(run, c)[c] = [run[c] EXCEPT !.status = IF run[c].status = "none" THEN "running" ELSE run[c].status]
    BY <1>1, <1>2
<1> QED
    BY <1>1, <1>3, OpenedTyped DEF Run

LEMMA OpenedRows ==
    ASSUME TypeOK, NEW c \in Runs, run' = Opened(run, c)
    PROVE  RowsStep
BY OpenedRow DEF RowsStep, RowStep, AllRuns

LEMMA SameReviews ==
    ASSUME UNCHANGED review
    PROVE  ReviewsStep
BY DEF ReviewsStep, ReviewStep, Active

LEMMA CreateStep ==
    ASSUME TypeOK, NEW d, NEW e, NEW c, NEW b, NEW l, Create(d, e, c, b, l),
           \/ l \/ b = {}
           \/ \E r \in Runs : b = OfOthers(r) /\ ~ActiveRewrite(r) /\ jobs' = jobs
    PROVE  ReviewsStep
<1>1. PICK v \in NextReview : review' = [review EXCEPT ![v] =
             [status |-> "queued", deliver |-> d, revise |-> e, run |-> c, behind |-> b, launched |-> l, delivered |-> FALSE]]
    BY DEF Create
<1>2. /\ v \in Reviews /\ review'[v].behind = b /\ review'[v].launched = l
      /\ \A w \in Reviews \ {v} : review'[w] = review[w]
    BY <1>1 DEF NextReview, TypeOK
<1>3. ReviewStep(v)
    BY <1>2 DEF ReviewStep
<1>4. ASSUME NEW w \in Reviews \ {v} PROVE ReviewStep(w)
    BY <1>2 DEF ReviewStep, Active
<1> QED
    BY <1>3, <1>4 DEF ReviewsStep

LEMMA LaunchStep ==
    ASSUME TypeOK, LaunchPending
    PROVE  ReviewsStep
<1>1. CASE marker.kind = "none"
    BY <1>1, SameReviews DEF LaunchPending
<1>2. CASE marker.kind # "none"
    <2>1. Create(marker.deliver, marker.revise, marker.run, marker.behind, TRUE)
        BY <1>2 DEF LaunchPending
    <2> QED
        BY <2>1, CreateStep
<1> QED
    BY <1>1, <1>2

LEMMA ReviewToStep ==
    ASSUME TypeOK, NEW v \in Active, NEW s, ReviewTo(v, s)
    PROVE  ReviewsStep
<1>1. v \in Reviews /\ \A w \in Reviews \ {v} : review'[w] = review[w]
    BY DEF Active, ReviewTo, TypeOK
<1>2. review'[v].behind = review[v].behind /\ review'[v].launched = review[v].launched
    BY <1>1 DEF ReviewTo, TypeOK, Review
<1> QED
    BY <1>1, <1>2 DEF ReviewsStep, ReviewStep, Active

LEMMA SameJobs ==
    ASSUME UNCHANGED jobs
    PROVE  NewJobs /\ NewWriters
BY DEF NewJobs, NewWriters, Generating

LEMMA PhaseStep ==
    ASSUME TypeOK, NEW j \in Jobs, NEW from \in {"queued", "generating", "launching"}, NEW to, Phase(j, from, to),
           to = "generating" => from = "queued" /\ ~ActiveRewrite(jobs[j].run)
    PROVE  /\ NewJobs /\ NewWriters
           /\ jobs'[j].phase = to /\ \A k \in Jobs : jobs'[k].run = jobs[k].run
<1>1. jobs \in [Jobs -> Job]
    BY DEF TypeOK
<1>2. /\ jobs[j].phase = from /\ jobs'[j].phase = to /\ jobs'[j].run = jobs[j].run
      /\ \A k \in Jobs \ {j} : jobs'[k] = jobs[k]
    BY <1>1 DEF Phase, Job
<1>3. NewJobs
    BY <1>2 DEF NewJobs
<1>4. NewWriters
    BY <1>2 DEF NewWriters, Generating
<1> QED
    BY <1>2, <1>3, <1>4

LEMMA EnqueueStep ==
    ASSUME TypeOK, NEW x \in AllRuns, Enqueue(x),
           x \in Runs => run'[x].status # "none" /\ (run'[x].status = "running" => run'[x].target)
    PROVE  NewJobs /\ NewWriters
<1>1. PICK j \in NextJob : jobs' = [jobs EXCEPT ![j] = [run |-> x, phase |-> "queued"]]
    BY DEF Enqueue
<1>2. /\ j \in Jobs /\ jobs[j].phase = "free" /\ jobs'[j] = [run |-> x, phase |-> "queued"]
      /\ \A k \in Jobs \ {j} : jobs'[k] = jobs[k]
    BY <1>1 DEF NextJob, TypeOK
<1> QED
    BY <1>2 DEF NewJobs, NewWriters, Generating

\* A step of the whole.
Moves == RowsStep /\ NewJobs /\ NewWriters /\ ReviewsStep /\ JobStep /\ old \subseteq old'

LEMMA StartRewriteMoves ==
    ASSUME TypeOK, NEW c \in Runs, NEW known, NEW mode, StartRewrite(c, known, mode)
    PROVE  RowsStep /\ NewJobs /\ NewWriters
<1>1. /\ run \in [AllRuns -> Run] /\ c \in AllRuns /\ Origin \in AllRuns /\ c # Origin /\ Runs \subseteq AllRuns
    BY DEF TypeOK, AllRuns
<1>2. CASE Known(c, known, mode)
    BY <1>2, SameRows, SameJobs DEF Known
<1> DEFINE o == Opened(run, c)
<1>3. /\ o \in [AllRuns -> Run]
      /\ \A r \in AllRuns \ {c} : o[r] = run[r]
      /\ o[c].status # "none" /\ o[c].target = run[c].target
      /\ run[c].status # "none" => o[c].status = run[c].status
    BY OpenedRow
<1>4. CASE TurnedAway(c, known, mode)
    <2>1. run' = [o EXCEPT ![c].target = TRUE] /\ jobs' = jobs
        BY <1>4 DEF TurnedAway, Claimed
    <2> HIDE DEF o
    <2>2. /\ \A r \in AllRuns \ {c} : run'[r] = run[r]
          /\ run'[c].status = o[c].status /\ run'[c].target
        BY <1>1, <1>3, <2>1 DEF Run
    <2>3. RowsStep
        BY <1>1, <1>3, <2>2 DEF RowsStep, RowStep
    <2> QED
        BY <2>1, <2>3, SameJobs
<1>5. CASE Started(c, known, mode)
    <2>1. Enqueue(IF HasOrigin THEN Origin ELSE c) /\ run' = RewriteRows(o, c)
        BY <1>5 DEF Started
    <2> HIDE DEF o
    <2> DEFINE m == [o EXCEPT ![c] = [status |-> IF HasOrigin THEN "completed" ELSE o[c].status,
                                      target |-> TRUE, job |-> TRUE]]
    <2>2. run' = IF HasOrigin THEN Reopened(m) ELSE m
        BY <1>1, <1>3, <2>1 DEF RewriteRows
    <2>3. /\ m \in [AllRuns -> Run]
          /\ \A r \in AllRuns \ {c} : m[r] = run[r]
          /\ m[c].status = (IF HasOrigin THEN "completed" ELSE o[c].status) /\ m[c].target
        BY <1>1, <1>3 DEF Run
    <2> HIDE DEF m
    <2>4. \A r \in Runs : run'[r] = m[r]
        BY <1>1, <2>2, <2>3 DEF Reopened, AllRuns
    <2>5. RowsStep
        BY <1>1, <1>3, <2>3, <2>4 DEF RowsStep, RowStep
    <2>6. run'[c].status # "none" /\ run'[c].target
        BY <1>3, <2>3, <2>4
    <2>7. NewJobs /\ NewWriters
        <3>1. CASE HasOrigin
            BY <1>1, <2>1, <3>1, EnqueueStep
        <3>2. CASE ~HasOrigin
            BY <1>1, <2>1, <2>6, <3>2, EnqueueStep
        <3> QED
            BY <3>1, <3>2
    <2> QED
        BY <2>5, <2>7
<1> QED
    BY <1>2, <1>4, <1>5 DEF StartRewrite

LEMMA StartReviewMoves ==
    ASSUME TypeOK, NEW r \in Runs, NEW c \in Runs, NEW d, NEW e, StartReview(r, c, d, e), UNCHANGED jobs
    PROVE  RowsStep /\ ReviewsStep
<1>1. CASE MergeIntoReview(r, d, e)
    BY <1>1, SameRows, SameReviews DEF MergeIntoReview
<1>2. CASE QueueReview(r, c, d, e)
    BY <1>2, OpenedRows, SameReviews DEF QueueReview
<1>3. CASE CreateReview(r, c, d, e)
    <2>1. run' = Opened(run, c) /\ ~ActiveRewrite(r) /\ Create(d, e, c, OfOthers(r), FALSE)
        BY <1>3 DEF CreateReview
    <2>2. ReviewsStep
        BY <2>1, CreateStep
    <2> QED
        BY <2>1, <2>2, OpenedRows
<1> QED
    BY <1>1, <1>2, <1>3 DEF StartReview

LEMMA DispatchingMoves ==
    ASSUME TypeOK, NEW s \in Runs, Dispatching(s)
    PROVE  RowsStep /\ NewJobs /\ NewWriters /\ ReviewsStep /\ old' = old
<1>1. CASE SendMessage(s)
    <2>1. RowsStep
        BY <1>1 DEF SendMessage, TypeOK, RowsStep, RowStep, AllRuns
    <2> QED
        BY <1>1, <2>1, SameJobs, SameReviews DEF SendMessage, reviewVars
<1>2. CASE ToolRewrite(s)
    <2>1. PICK c \in Runs, mode \in Modes : StartRewrite(c, run[c].job, mode)
        BY <1>2 DEF ToolRewrite
    <2> QED
        BY <1>2, <2>1, StartRewriteMoves, SameReviews DEF ToolRewrite, reviewVars
<1>3. CASE StepRewrite(s)
    BY <1>3, StartRewriteMoves, SameReviews DEF StepRewrite, reviewVars
<1>4. CASE ToolReview(s)
    <2>1. PICK c \in Runs, d \in BOOLEAN, e \in BOOLEAN : StartReview(s, c, d, e)
        BY <1>4 DEF ToolReview
    <2> QED
        BY <1>4, <2>1, StartReviewMoves, SameJobs DEF ToolReview
<1>5. CASE StepReview(s)
    BY <1>5, StartReviewMoves, SameJobs DEF StepReview
<1>6. CASE ToolImage(s)
    <2>1. RowsStep
        BY <1>6, OpenedRows DEF ToolImage
    <2> QED
        BY <1>6, <2>1, SameJobs, SameReviews DEF ToolImage, reviewVars
<1>7. CASE HandOver(s)
    BY <1>7, SameRows, SameJobs, SameReviews DEF HandOver, reviewVars
<1>8. CASE Answer(s)
    <2>1. RowsStep
        BY <1>8 DEF Answer, TypeOK, Run, RowsStep, RowStep, AllRuns
    <2> QED
        BY <1>8, <2>1, SameJobs, SameReviews DEF Answer, reviewVars
<1>9. CASE DispatchFails(s)
    <2>1. RowsStep
        BY <1>9, FinishedRows DEF DispatchFails, AllRuns
    <2> QED
        BY <1>9, <2>1, SameJobs, SameReviews DEF DispatchFails, reviewVars
<1> QED
    BY <1>1, <1>2, <1>3, <1>4, <1>5, <1>6, <1>7, <1>8, <1>9 DEF Dispatching

LEMMA RewritingMoves ==
    ASSUME Inv, NEW j \in Jobs, Rewriting(j)
    PROVE  RowsStep /\ NewJobs /\ NewWriters /\ ReviewsStep /\ old' = old
<1>0. TypeOK /\ JobsHaveRuns
    BY DEF Inv
<1>1. jobs[j].phase # "free" => jobs[j].run \in AllRuns \cup {"none"}
    BY <1>0 DEF JobsHaveRuns
<1>2. CASE BeginRewrite(j)
    <2>1. NewJobs /\ NewWriters
        BY <1>0, <1>2, PhaseStep DEF BeginRewrite
    <2> QED
        BY <1>2, <2>1, SameRows, SameReviews DEF BeginRewrite, turnVars, reviewVars
<1>3. CASE Supersede(j)
    <2>1. RowsStep
        BY <1>0, <1>1, <1>3, FinishedRows DEF Supersede, Phase
    <2>2. NewJobs /\ NewWriters
        BY <1>0, <1>3, PhaseStep DEF Supersede
    <2> QED
        BY <1>3, <2>1, <2>2, SameReviews DEF Supersede, turnVars, reviewVars
<1>4. CASE WriteWithPictures(j) \/ WriteTextOnly(j)
    <2>1. PICK to \in {"launching", "closed"} : Phase(j, "generating", to)
        BY <1>4 DEF WriteWithPictures, WriteTextOnly
    <2>2. NewJobs /\ NewWriters /\ jobs'[j].phase = to
        BY <1>0, <2>1, PhaseStep
    <2> DEFINE x == jobs[j].run
    <2>3. Gives(x)
        BY <2>1, <2>2 DEF Gives, Generating, UnderWay, Phase
    <2>4. Write(j) /\ x \in AllRuns
        BY <1>0, <1>4, <2>1 DEF WriteWithPictures, WriteTextOnly, JobsHaveRuns, Phase
    <2>5. run' = [run EXCEPT ![x].target = FALSE]
        BY <2>4 DEF Write
    <2> HIDE DEF x
    <2>6. /\ \A r \in AllRuns \ {x} : run'[r] = run[r]
          /\ run'[x].status = run[x].status
        BY <1>0, <2>4, <2>5 DEF TypeOK, Run
    <2>7. RowsStep
        BY <2>3, <2>6 DEF RowsStep, RowStep, AllRuns
    <2> QED
        BY <2>2, <2>4, <2>7, SameReviews DEF Write, turnVars, reviewVars
<1>5. CASE Launch(j)
    <2>1. NewJobs /\ NewWriters
        BY <1>0, <1>5, PhaseStep DEF Launch
    <2> QED
        BY <1>0, <1>5, <2>1, SameRows, LaunchStep DEF Launch, turnVars
<1>6. CASE FailRewrite(j)
    <2>1. RowsStep
        BY <1>0, <1>1, <1>6, FinishedRows DEF FailRewrite, Phase
    <2>2. NewJobs /\ NewWriters
        BY <1>0, <1>6, PhaseStep DEF FailRewrite
    <2> QED
        BY <1>6, <2>1, <2>2, SameReviews DEF FailRewrite, turnVars, reviewVars
<1> QED
    BY <1>2, <1>3, <1>4, <1>5, <1>6 DEF Rewriting

LEMMA NextMoves == Inv /\ [Next]_vars => Moves
<1> SUFFICES ASSUME Inv, [Next]_vars PROVE Moves
    OBVIOUS
<1>0. TypeOK
    BY DEF Inv
<1>1. JobStep
    BY NextJobs DEF JobStep, vars
<1>2. CASE UNCHANGED vars
    BY <1>1, <1>2, SameRows, SameJobs, SameReviews DEF vars, Moves
<1>3. ASSUME NEW r \in Runs, Dispatching(r) PROVE Moves
    BY <1>0, <1>1, <1>3, DispatchingMoves DEF Moves
<1>4. ASSUME NEW r \in Runs, Age(r) PROVE Moves
    BY <1>1, <1>4, SameRows, SameJobs, SameReviews DEF Age, Moves, reviewVars
<1>5. CASE WebRewrite
    <2>1. RowsStep
        BY <1>0, <1>5 DEF WebRewrite, Reopened, TypeOK, RowsStep, RowStep, AllRuns
    <2>2. NewJobs /\ NewWriters
        BY <1>0, <1>5, EnqueueStep DEF WebRewrite, AllRuns
    <2> QED
        BY <1>1, <1>5, <2>1, <2>2, SameReviews DEF WebRewrite, Moves, turnVars, reviewVars
<1>6. CASE WebReview
    <2>1. PICK d \in BOOLEAN : Create(d, TRUE, "none", {}, FALSE)
        BY <1>6 DEF WebReview
    <2>2. ReviewsStep
        BY <1>0, <2>1, CreateStep
    <2> QED
        BY <1>1, <1>6, <2>2, SameRows, SameJobs DEF WebReview, Moves, turnVars
<1>7. ASSUME NEW j \in Jobs, Rewriting(j) PROVE Moves
    BY <1>1, <1>7, RewritingMoves DEF Moves
<1>8. ASSUME NEW r \in AllRuns, Closing(r) \/ Reconcile(r) PROVE Moves
    <2>1. CASE EndPictures(r) \/ FinalizeLate(r)
        BY <1>1, <2>1, SameRows, SameJobs, SameReviews DEF EndPictures, FinalizeLate, Moves, turnVars, reviewVars
    <2>2. CASE Finalize(r)
        BY <1>0, <1>1, <2>2, FinishedRows, SameJobs, LaunchStep DEF Finalize, Moves, turnVars
    <2>3. CASE Reconcile(r)
        <3>1. RowsStep
            BY <1>0, <2>3 DEF Reconcile, TypeOK, Run, RowsStep, RowStep, AllRuns
        <3> QED
            BY <1>1, <2>3, <3>1, SameJobs, SameReviews DEF Reconcile, Moves, turnVars, reviewVars
    <2> QED
        BY <1>8, <2>1, <2>2, <2>3 DEF Closing
<1>9. ASSUME NEW v \in Reviews, Reviewing(v) PROVE Moves
    <2>0. review[v].run \in AllRuns \cup {"none"}
        BY <1>0 DEF TypeOK, Review
    <2>1. CASE BeginReview(v) \/ Revise(v)
        <3>1. v \in Active /\ \E s : ReviewTo(v, s)
            BY <2>1 DEF BeginReview, Revise, Active, ActiveReview
        <3> QED
            BY <1>0, <1>1, <2>1, <3>1, ReviewToStep, SameRows, SameJobs DEF BeginReview, Revise, Moves, turnVars
    <2>2. CASE Defer(v) \/ BreakReview(v)
        <3>1. v \in Active /\ \E s : ReviewTo(v, s)
            BY <2>2 DEF Defer, BreakReview, Active, ActiveReview
        <3>2. RowsStep
            BY <1>0, <2>0, <2>2, FinishedRows DEF Defer, BreakReview
        <3> QED
            BY <1>0, <1>1, <2>2, <3>1, <3>2, ReviewToStep, SameJobs DEF Defer, BreakReview, Moves, turnVars
    <2>3. ASSUME NEW passed \in BOOLEAN, EndReview(v, passed) PROVE Moves
        <3>1. RowsStep
            BY <1>0, <2>0, <2>3, FinishedRows DEF EndReview
        <3>2. /\ v \in Active
              /\ \A w \in Reviews : /\ review'[w].behind = review[w].behind
                                    /\ review'[w].launched = review[w].launched
                                    /\ w # v => review'[w] = review[w]
            BY <1>0, <2>3 DEF EndReview, TypeOK, Review, Active, ActiveReview
        <3>3. ReviewsStep
            BY <3>2 DEF ReviewsStep, ReviewStep, Active
        <3> QED
            BY <1>1, <2>3, <3>1, <3>3, SameJobs DEF EndReview, Moves, turnVars
    <2> QED
        BY <1>9, <2>1, <2>2, <2>3 DEF Reviewing
<1> QED
    BY <1>2, <1>3, <1>4, <1>5, <1>6, <1>7, <1>8, <1>9 DEF Next

\* The jobs before and after a step.
LEMMA JobsBefore ==
    ASSUME Inv, JobStep, NEW j \in Jobs
    PROVE  /\ jobs[j].phase # "free" => jobs'[j].phase # "free" /\ jobs'[j].run = jobs[j].run
           /\ jobs[j].phase = "free" => jobs[j].run = "none"
<1>1. jobs \in [Jobs -> Job] /\ JobsHaveRuns
    BY DEF Inv, TypeOK
<1>2. jobs[j].phase = "free" => jobs[j].run = "none"
    BY <1>1 DEF JobsHaveRuns
<1>3. CASE UNCHANGED jobs
    BY <1>2, <1>3
<1>4. ASSUME NEW r \in AllRuns, Enqueue(r) PROVE jobs[j].phase # "free" => jobs'[j] = jobs[j]
    BY <1>1, <1>4 DEF Enqueue, NextJob
<1>5. ASSUME NEW i \in Jobs, NEW from, NEW to \in {"queued", "generating", "launching", "closed"}, Phase(i, from, to)
      PROVE  jobs'[j].run = jobs[j].run /\ (jobs[j].phase # "free" => jobs'[j].phase # "free")
    <2>1. CASE i = j
        BY <1>1, <1>5, <2>1 DEF Phase, Job
    <2>2. CASE i # j
        BY <1>1, <1>5, <2>2 DEF Phase
    <2> QED
        BY <2>1, <2>2
<1> QED
    BY <1>2, <1>3, <1>4, <1>5 DEF JobStep

LEMMA JobsAgain ==
    ASSUME Inv, JobStep, NEW j \in Jobs, jobs[j].phase # "free", j \in UnderWay'
    PROVE  j \in UnderWay
<1>1. jobs \in [Jobs -> Job]
    BY DEF Inv, TypeOK
<1>2. CASE UNCHANGED jobs
    BY <1>2 DEF UnderWay
<1>3. ASSUME NEW r \in AllRuns, Enqueue(r) PROVE jobs'[j] = jobs[j]
    BY <1>1, <1>3 DEF Enqueue, NextJob
<1>4. ASSUME NEW i \in Jobs, NEW from, NEW to, Phase(i, from, to)
      PROVE  IF i = j THEN jobs[j].phase = from /\ jobs'[j].phase = to ELSE jobs'[j] = jobs[j]
    BY <1>1, <1>4 DEF Phase, Job
<1> QED
    BY <1>2, <1>3, <1>4 DEF JobStep, UnderWay

LEMMA SeveralStay ==
    ASSUME Inv, JobStep, NEW r \in AllRuns, SeveralJobs(r)
    PROVE  SeveralJobs(r)'
<1>1. PICK i \in Jobs, k \in Jobs : i # k /\ jobs[i].run = r /\ jobs[k].run = r
    BY DEF SeveralJobs
<1>2. r # "none"
    BY DEF AllRuns
<1>3. jobs'[i].run = r /\ jobs'[k].run = r
    BY <1>1, <1>2, JobsBefore
<1> QED
    BY <1>1, <1>3 DEF SeveralJobs

LEMMA UnseenStays ==
    ASSUME Inv, Held, Moves, NEW j \in Jobs, jobs[j].phase # "free", Unseen(jobs[j].run)
    PROVE  Unseen(jobs[j].run)'
<1>1. PICK r \in AllRuns : jobs[j].run = r /\ jobs'[j].run = r
    BY JobsBefore DEF Inv, JobsHaveRuns, Moves
<1>2. r \in Runs => run[r].status # "none"
    BY <1>1 DEF Held
<1>3. Unseen(r) /\ JobStep
    BY <1>1 DEF Moves
<1>4. (r = Origin \/ r \in old) => Unseen(r)'
    BY DEF Unseen, Moves
<1>5. r \in Runs /\ run[r].status # "running" => Unseen(r)'
    BY <1>2 DEF Unseen, Moves, RowsStep, RowStep
<1>6. SeveralJobs(r) => Unseen(r)'
    BY <1>3, SeveralStay DEF Unseen
<1>7. Unseen(r)'
    BY <1>3, <1>4, <1>5, <1>6 DEF Unseen, AllRuns
<1>8. Unseen(jobs[j].run)'
    BY <1>1, <1>7 DEF Unseen, SeveralJobs
<1> QED
    BY <1>8

\* A rewrite under way that the query does not find is not seen.
LEMMA NotFound ==
    ASSUME Inv, Held, NEW self, ~ActiveRewrite(self), NEW j \in UnderWay, jobs[j].run # self
    PROVE  Unseen(jobs[j].run)
<1>1. j \in Jobs /\ jobs[j].run \in AllRuns
    BY DEF UnderWay, Inv, JobsHaveRuns
<1>2. ~Seen(jobs[j].run)
    BY <1>1 DEF ActiveRewrite
<1> QED
    BY <1>1, <1>2 DEF Seen, Claims, Unseen, Held, AllRuns

LEMMA HeldKept ==
    ASSUME Inv, Held, Moves
    PROVE  Held'
<1> SUFFICES ASSUME NEW j \in Jobs, jobs'[j].run \in Runs
             PROVE  /\ run'[jobs'[j].run].status # "none"
                    /\ j \in UnderWay' /\ run'[jobs'[j].run].status = "running" =>
                           run'[jobs'[j].run].target \/ SeveralJobs(jobs[j].run)'
    BY DEF Held
<1>1. JobStep /\ NewJobs /\ RowsStep
    BY DEF Moves
<1>2. CASE jobs[j].phase = "free"
    <2>1. jobs'[j].phase # "free"
        BY <1>1, <1>2, JobsHaveRunsKept DEF Inv, JobsHaveRuns
    <2> QED
        BY <1>1, <1>2, <2>1 DEF NewJobs
<1>3. CASE jobs[j].phase # "free"
    <2>1. PICK r \in Runs : jobs'[j].run = r /\ jobs[j].run = r /\ r \in AllRuns
        BY <1>1, <1>3, JobsBefore DEF AllRuns
    <2>2. run[r].status # "none" /\ run'[r].status # "none"
        BY <1>1, <2>1 DEF Held, RowsStep, RowStep
    <2>3. ASSUME j \in UnderWay', run'[r].status = "running" PROVE run'[r].target \/ SeveralJobs(r)'
        <3>1. j \in UnderWay
            BY <1>1, <1>3, <2>3, JobsAgain
        <3>2. run[r].status = "running" /\ (run[r].target => run'[r].target \/ Gives(r))
            BY <1>1, <2>1, <2>2, <2>3 DEF RowsStep, RowStep
        <3>3. Gives(r) => SeveralJobs(r)
            BY <2>1, <2>3 DEF Gives, SeveralJobs, Generating
        <3>4. run'[r].target \/ SeveralJobs(r)
            BY <2>1, <3>1, <3>2, <3>3 DEF Held
        <3> QED
            BY <1>1, <2>1, <3>4, SeveralStay
    <2>4. SeveralJobs(r)' => SeveralJobs(jobs[j].run)'
        BY <2>1 DEF SeveralJobs
    <2> QED
        BY <2>1, <2>2, <2>3, <2>4
<1> QED
    BY <1>2, <1>3

LEMMA ApartKept ==
    ASSUME Inv, Apart, Moves
    PROVE  Apart'
<1>0. /\ Held /\ BehindExists /\ WritersExclude /\ AtOnceMeansAlone
      /\ JobStep /\ NewWriters /\ ReviewsStep
    BY DEF Apart, Moves
<1>1. Held'
    BY <1>0, HeldKept
<1>2. BehindExists'
    <2> SUFFICES ASSUME NEW v \in Reviews, ~review'[v].launched, NEW j \in review'[v].behind
                 PROVE  jobs'[j].phase # "free"
        BY DEF BehindExists
    <2>0. review[v] \in Review /\ \A i \in Jobs : jobs[i].phase # "free" => jobs'[i].phase # "free"
        BY <1>0, JobsBefore DEF Inv, TypeOK
    <2>1. CASE review'[v].behind = review[v].behind /\ review'[v].launched = review[v].launched
        BY <1>0, <2>0, <2>1 DEF BehindExists, Review
    <2>2. CASE \E r \in Runs : review'[v].behind = OfOthers(r)
        BY <2>0, <2>2 DEF OfOthers, UnderWay
    <2> QED
        BY <1>0, <2>1, <2>2 DEF ReviewsStep, ReviewStep
<1>3. WritersExclude'
    <2> SUFFICES ASSUME NEW j \in Generating', NEW k \in Generating', jobs'[j].run # jobs'[k].run
                 PROVE  Unseen(jobs[j].run)' \/ Unseen(jobs[k].run)'
        BY DEF WritersExclude
    <2>1. /\ j \in Jobs /\ k \in Jobs /\ j \in UnderWay /\ k \in UnderWay
          /\ jobs[j].phase # "free" /\ jobs[k].phase # "free"
        BY <1>0 DEF NewWriters, Generating, UnderWay
    <2>2. jobs[j].run # jobs[k].run
        BY <1>0, <2>1, JobsBefore
    <2>3. Unseen(jobs[j].run) \/ Unseen(jobs[k].run)
        <3>1. CASE j \in Generating /\ k \in Generating
            BY <1>0, <2>2, <3>1 DEF WritersExclude
        <3>2. CASE j \notin Generating
            BY <1>0, <2>1, <2>2, <3>2, NotFound DEF NewWriters
        <3>3. CASE k \notin Generating
            BY <1>0, <2>1, <2>2, <3>3, NotFound DEF NewWriters
        <3> QED
            BY <3>1, <3>2, <3>3
    <2> QED
        BY <1>0, <2>1, <2>3, UnseenStays
<1>4. AtOnceMeansAlone'
    <2> SUFFICES ASSUME NEW v \in Active', ~review'[v].launched,
                        NEW j \in review'[v].behind, j \in UnderWay'
                 PROVE  Unseen(jobs[j].run)'
        BY DEF AtOnceMeansAlone
    <2>0. v \in Reviews /\ j \in Jobs
        BY DEF Active, UnderWay
    <2>1. CASE /\ review'[v].behind = review[v].behind /\ review'[v].launched = review[v].launched
               /\ v \in Active' => v \in Active
        <3>1. v \in Active /\ j \in review[v].behind /\ ~review[v].launched
            BY <2>1
        <3>2. jobs[j].phase # "free"
            BY <1>0, <2>0, <3>1 DEF BehindExists
        <3>3. j \in UnderWay
            BY <1>0, <2>0, <3>2, JobsAgain
        <3>4. Unseen(jobs[j].run)
            BY <1>0, <3>1, <3>3 DEF AtOnceMeansAlone
        <3> QED
            BY <1>0, <2>0, <3>2, <3>4, UnseenStays
    <2>2. CASE \E r \in Runs : review'[v].behind = OfOthers(r) /\ ~ActiveRewrite(r) /\ jobs' = jobs
        <3>1. PICK r \in Runs : j \in UnderWay /\ jobs[j].run # r /\ ~ActiveRewrite(r)
            BY <2>2 DEF OfOthers
        <3>2. Unseen(jobs[j].run) /\ jobs[j].phase # "free"
            BY <1>0, <3>1, NotFound DEF UnderWay
        <3> QED
            BY <1>0, <2>0, <3>2, UnseenStays
    <2> QED
        BY <1>0, <2>0, <2>1, <2>2 DEF ReviewsStep, ReviewStep
<1> QED
    BY <1>1, <1>2, <1>3, <1>4 DEF Apart

LEMMA ApartInit == Init => Apart
BY DEF Init, Apart, Held, BehindExists, WritersExclude, AtOnceMeansAlone, Generating, Active, ActiveReview, AllRuns

LEMMA ApartAlways == Spec => []Apart
<1>1. Init => Apart
    BY ApartInit
<1>2. Inv /\ Apart /\ [Next]_vars => Apart'
    BY NextMoves, ApartKept
<1> QED
    BY <1>1, <1>2, InvInit, InvNext, PTL DEF Spec

\* Jobs of two runs write the draft together only when one of the runs is not seen, for any
\* number of messages, tool calls, pages, jobs, reviews and failures.
THEOREM WritersApart == Spec => []WritersExclude
<1>1. Apart => WritersExclude
    BY DEF Apart
<1> QED
    BY <1>1, ApartAlways, PTL

\* A review that did not wait has no rewrite of another run that was under way when it was
\* asked for, unless one that is not seen.
THEOREM ReviewsStartAlone == Spec => []AtOnceMeansAlone
<1>1. Apart => AtOnceMeansAlone
    BY DEF Apart
<1> QED
    BY <1>1, ApartAlways, PTL

HIDE RewriteReviewAssumption

-----------------------------------------------------------------------------
(* DraftAssets: the choice of pictures. *)

LEMMA LeastOfNat ==
    ASSUME NEW T, T \subseteq Nat, T # {}
    PROVE  \E x \in T : \A y \in T : x <= y
<1> DEFINE Less == {pair \in Nat \X Nat : pair[1] < pair[2]}
<1>1. IsWellFoundedOn(Less, Nat)
  BY NatLessThanWellFounded DEF OpToRel
<1>2. \E x \in T : \A y \in T : ~ (<<y, x>> \in Less)
  <2> HIDE DEF Less
  <2> QED
    BY <1>1, WFMin
<1>3. PICK x \in T : \A y \in T : ~ (<<y, x>> \in Less)
  BY <1>2
<1>4. ASSUME NEW y \in T PROVE x <= y
  <2>1. ~ (<<y, x>> \in Less) /\ <<y, x>> \in Nat \X Nat
    BY <1>3
  <2> QED
    BY <2>1
<1> QED
  BY <1>4

\* Pictures with their places.
Placed(seen) == DOMAIN seen \subseteq Nat /\ \A p \in DOMAIN seen : seen[p].at \in Nat

LEMMA LeastBefore ==
    ASSUME NEW seen, Placed(seen), NEW S \in SUBSET DOMAIN seen, S # {}
    PROVE  \E p \in S : \A q \in S \ {p} : Before(seen, p, q)
<1>1. PICK a \in PlacesOf(seen, S) : \A b \in PlacesOf(seen, S) : a <= b
  <2>1. PlacesOf(seen, S) \subseteq Nat /\ PlacesOf(seen, S) # {}
    BY DEF Placed, PlacesOf
  <2> QED
    BY <2>1, LeastOfNat
<1>2. PICK p \in {q \in S : seen[q].at = a} : \A q \in {r \in S : seen[r].at = a} : p <= q
  <2>1. {q \in S : seen[q].at = a} \subseteq Nat /\ {q \in S : seen[q].at = a} # {}
    BY <1>1 DEF Placed, PlacesOf
  <2> QED
    BY <2>1, LeastOfNat
<1>3. ASSUME NEW q \in S \ {p} PROVE Before(seen, p, q)
  <2>1. seen[q].at \in PlacesOf(seen, S) /\ p \in Nat /\ q \in Nat /\ seen[q].at \in Nat /\ a = seen[p].at /\ a \in Nat
    BY <1>1, <1>2 DEF PlacesOf, Placed
  <2>2. a <= seen[q].at
    BY <1>1, <2>1
  <2>3. CASE seen[q].at = a
    BY <1>2, <2>1, <2>3 DEF Before
  <2>4. CASE seen[q].at # a
    BY <2>1, <2>2, <2>4 DEF Before
  <2> QED
    BY <2>3, <2>4
<1> QED
  BY <1>2, <1>3

\* s lists S in the order of the text.
Lists(seen, s, S) ==
    /\ s \in [1..Cardinality(S) -> S] /\ Range(s) = S
    /\ \A i, k \in DOMAIN s : i < k => Before(seen, s[i], s[k])

LEMMA Listed ==
    ASSUME NEW seen, Placed(seen), NEW S \in SUBSET DOMAIN seen, IsFiniteSet(S)
    PROVE  \E s : Lists(seen, s, S)
<1> DEFINE Unlisted(n) == \E R \in SUBSET DOMAIN seen : IsFiniteSet(R) /\ Cardinality(R) = n /\ ~\E s : Lists(seen, s, R)
<1> DEFINE Bad == {n \in Nat : Unlisted(n)}
<1>1. SUFFICES Bad = {}
  BY FS_CardinalityType
<1>2. SUFFICES ASSUME Bad # {} PROVE FALSE
  OBVIOUS
<1>3. PICK n \in Bad : \A m \in Bad : n <= m
  BY <1>2, LeastOfNat
<1>4. PICK R \in SUBSET DOMAIN seen : IsFiniteSet(R) /\ Cardinality(R) = n /\ ~\E s : Lists(seen, s, R)
  BY <1>3
<1>5. CASE R = {}
  <2>1. Cardinality(R) = 0
    BY <1>5, FS_EmptySet
  <2>2. Lists(seen, << >>, R)
    BY <1>5, <2>1 DEF Lists, Range
  <2> QED
    BY <1>4, <2>2
<1>6. CASE R # {}
  <2>1. PICK p \in R : \A q \in R \ {p} : Before(seen, p, q)
    BY <1>6, LeastBefore
  <2>2. IsFiniteSet(R \ {p}) /\ Cardinality(R \ {p}) = n - 1 /\ n \in Nat /\ n - 1 \in Nat
    <3>1. IsFiniteSet(R \ {p}) /\ Cardinality(R \ {p}) = n - 1
      BY <1>4, <2>1, FS_RemoveElement
    <3>2. n \in Nat /\ Cardinality(R \ {p}) \in Nat
      BY <1>3, <3>1, FS_CardinalityType
    <3> QED
      BY <3>1, <3>2
  <2>3. n - 1 \notin Bad
    BY <1>3, <2>2
  <2>4. PICK s : Lists(seen, s, R \ {p})
    BY <2>2, <2>3
  <2> DEFINE t == [i \in 1..n |-> IF i = 1 THEN p ELSE s[i - 1]]
  <2>5. s \in [1..(n - 1) -> R \ {p}] /\ Range(s) = R \ {p} /\ \A i, k \in 1..(n - 1) : i < k => Before(seen, s[i], s[k])
    BY <2>2, <2>4 DEF Lists
  <2>6. t \in [1..n -> R]
    BY <2>2, <2>5
  <2>7. Range(t) = R
    <3>1. ASSUME NEW q \in R PROVE q \in Range(t)
      <4>1. CASE q = p
        <5>1. 1 \in 1..n /\ t[1] = p
          BY <2>2
        <5> QED
          BY <4>1, <5>1, <2>6 DEF Range
      <4>2. CASE q # p
        <5>1. PICK i \in 1..(n - 1) : s[i] = q
          BY <2>5, <4>2 DEF Range
        <5>2. i + 1 \in 1..n /\ t[i + 1] = q
          BY <5>1, <2>2
        <5> QED
          BY <5>2, <2>6 DEF Range
      <4> QED
        BY <4>1, <4>2
    <3>2. Range(t) \subseteq R
      BY <2>6 DEF Range
    <3> QED
      BY <3>1, <3>2
  <2>8. ASSUME NEW i \in 1..n, NEW k \in 1..n, i < k PROVE Before(seen, t[i], t[k])
    <3>1. k # 1 /\ k - 1 \in 1..(n - 1) /\ t[k] = s[k - 1] /\ s[k - 1] \in R \ {p}
      BY <2>2, <2>5, <2>8
    <3>2. CASE i = 1
      BY <3>1, <3>2, <2>1
    <3>3. CASE i # 1
      <4>1. i - 1 \in 1..(n - 1) /\ t[i] = s[i - 1] /\ i - 1 < k - 1
        BY <2>2, <2>8, <3>3
      <4> QED
        BY <4>1, <3>1, <2>5
    <3> QED
      BY <3>2, <3>3
  <2>9. Lists(seen, t, R)
    BY <2>6, <2>7, <2>8, <1>4 DEF Lists
  <2> QED
    BY <1>4, <2>9
<1> QED
  BY <1>5, <1>6

LEMMA InOrderLists ==
    ASSUME NEW seen, Placed(seen), IsFiniteSet(DOMAIN seen)
    PROVE  InOrder(seen) \in Seq(DOMAIN seen) /\ Range(InOrder(seen)) = DOMAIN seen
<1>1. PICK s : Lists(seen, s, DOMAIN seen)
  BY Listed
<1>2. InOrder(seen) \in [1..Cardinality(DOMAIN seen) -> DOMAIN seen] /\ Range(InOrder(seen)) = DOMAIN seen
  BY <1>1 DEF Lists, InOrder
<1>3. Cardinality(DOMAIN seen) \in Nat
  BY FS_CardinalityType
<1> QED
  BY <1>2, <1>3

\* A pass, step by step.
Steps(seen, taken, s, wanted, f) ==
    f = [n \in 0..Len(s) |-> IF n = 0 THEN taken ELSE IF s[n] \in wanted THEN Take(seen, f[n - 1], s[n]) ELSE f[n - 1]]

LEMMA PassIsSteps ==
    ASSUME NEW seen, NEW taken, NEW S, NEW s \in Seq(S), NEW wanted
    PROVE  \E f : Steps(seen, taken, s, wanted, f) /\ Pass(seen, taken, s, wanted) = f[Len(s)]
<1> DEFINE After(f, n) == IF n = 0 THEN taken ELSE IF s[n] \in wanted THEN Take(seen, f[n - 1], s[n]) ELSE f[n - 1]
<1> DEFINE Upto(f, m) == f = [n \in 0..m |-> After(f, n)]
<1> DEFINE Bad == {m \in 0..Len(s) : ~\E f : Upto(f, m)}
<1>0. Len(s) \in Nat
  OBVIOUS
<1>1. Bad = {}
  <2>1. SUFFICES ASSUME Bad # {} PROVE FALSE
    OBVIOUS
  <2>2. PICK m \in Bad : \A k \in Bad : m <= k
    <3>1. Bad \subseteq Nat
      BY <1>0
    <3> HIDE DEF Bad
    <3> QED
      BY <2>1, <3>1, LeastOfNat
  <2>3. CASE m = 0
    <3> DEFINE f == [n \in 0..0 |-> taken]
    <3>1. Upto(f, 0)
      OBVIOUS
    <3> QED
      BY <2>2, <2>3, <3>1
  <2>4. CASE m # 0
    <3>1. m - 1 \in 0..Len(s) /\ m \in 0..Len(s) /\ m - 1 \notin Bad
      BY <1>0, <2>2, <2>4
    <3>2. PICK g : Upto(g, m - 1)
      BY <3>1
    <3> DEFINE f == [n \in 0..m |-> IF n = m THEN After(g, m) ELSE g[n]]
    <3>3. ASSUME NEW n \in 0..m PROVE f[n] = After(f, n)
      <4>1. CASE n = m
        <5>1. f[n] = After(g, m) /\ f[m - 1] = g[m - 1]
          BY <4>1, <3>1
        <5> QED
          BY <5>1, <4>1
      <4>2. CASE n # m
        <5>1. n \in 0..(m - 1) /\ f[n] = g[n]
          BY <4>2, <3>1
        <5>2. g[n] = After(g, n)
          BY <5>1, <3>2
        <5>3. n # 0 => f[n - 1] = g[n - 1]
          BY <5>1, <3>1
        <5> QED
          BY <5>1, <5>2, <5>3
      <4> QED
        BY <4>1, <4>2
    <3>4. Upto(f, m)
      BY <3>3
    <3> QED
      BY <2>2, <3>4
  <2> QED
    BY <2>3, <2>4
<1>2. \E f : Upto(f, Len(s))
  BY <1>0, <1>1
<1>3. \E f : Steps(seen, taken, s, wanted, f)
  BY <1>2 DEF Steps
<1> QED
  BY <1>3 DEF Pass, Steps

\* No two places of taken are in one paragraph.
OnePlace(seen, taken) == \A i, k \in DOMAIN taken : i # k => seen[taken[i]].at # seen[taken[k]].at
\* taken became more by pictures of some.
Extends(more, taken, some) ==
    /\ Len(taken) <= Len(more) /\ \A i \in 1..Len(taken) : more[i] = taken[i]
    /\ \A i \in (Len(taken) + 1)..Len(more) : more[i] \in some

LEMMA TakeFacts ==
    ASSUME NEW seen, NEW taken \in Seq(DOMAIN seen), NEW p \in DOMAIN seen, OnePlace(seen, taken)
    PROVE  /\ Take(seen, taken, p) \in Seq(DOMAIN seen) /\ OnePlace(seen, Take(seen, taken, p))
           /\ Extends(Take(seen, taken, p), taken, {p}) /\ seen[p].at \in PlacesOf(seen, Range(Take(seen, taken, p)))
<1>1. CASE seen[p].at \in PlacesOf(seen, Range(taken))
  <2>1. Take(seen, taken, p) = taken
    BY <1>1 DEF Take
  <2> QED
    BY <1>1, <2>1 DEF Extends
<1>2. CASE seen[p].at \notin PlacesOf(seen, Range(taken))
  <2> DEFINE r == Append(taken, p)
  <2>1. Take(seen, taken, p) = r /\ r \in Seq(DOMAIN seen) /\ Len(r) = Len(taken) + 1 /\ Len(taken) \in Nat
    BY <1>2 DEF Take
  <2>2. r[Len(r)] = p /\ \A i \in 1..Len(taken) : r[i] = taken[i]
    BY <2>1
  <2>3. DOMAIN r = 1..Len(r) /\ DOMAIN taken = 1..Len(taken)
    BY <2>1
  <2>4. \A i \in DOMAIN taken : seen[taken[i]].at # seen[p].at
    BY <1>2 DEF PlacesOf, Range
  <2>5. OnePlace(seen, r)
    <3>1. ASSUME NEW i \in DOMAIN r, NEW k \in DOMAIN r, i # k PROVE seen[r[i]].at # seen[r[k]].at
      <4>1. CASE i \in DOMAIN taken /\ k \in DOMAIN taken
        BY <4>1, <3>1, <2>2, <2>3 DEF OnePlace
      <4>2. CASE i \notin DOMAIN taken
        <5>1. i = Len(r) /\ k \in DOMAIN taken
          BY <4>2, <3>1, <2>1, <2>3
        <5> QED
          BY <5>1, <2>2, <2>3, <2>4
      <4>3. CASE k \notin DOMAIN taken
        <5>1. k = Len(r) /\ i \in DOMAIN taken
          BY <4>3, <3>1, <2>1, <2>3
        <5> QED
          BY <5>1, <2>2, <2>3, <2>4
      <4> QED
        BY <4>1, <4>2, <4>3
    <3> QED
      BY <3>1 DEF OnePlace
  <2>6. Extends(r, taken, {p})
    BY <2>1, <2>2 DEF Extends
  <2>7. p \in Range(r)
    BY <2>1, <2>2, <2>3 DEF Range
  <2> QED
    BY <2>1, <2>5, <2>6, <2>7 DEF PlacesOf
<1> QED
  BY <1>1, <1>2

LEMMA ExtendsRange ==
    ASSUME NEW S, NEW taken \in Seq(S), NEW more \in Seq(S), NEW some, Extends(more, taken, some)
    PROVE  Range(taken) \subseteq Range(more) /\ Range(more) \subseteq Range(taken) \cup some
<1>1. DOMAIN taken = 1..Len(taken) /\ DOMAIN more = 1..Len(more) /\ Len(taken) \in Nat /\ Len(more) \in Nat
  OBVIOUS
<1> QED
  BY <1>1 DEF Extends, Range

LEMMA ExtendsTrans ==
    ASSUME NEW S, NEW a \in Seq(S), NEW b \in Seq(S), NEW c \in Seq(S), NEW some, NEW other,
           Extends(b, a, some), Extends(c, b, other)
    PROVE  Extends(c, a, some \cup other)
<1>1. Len(a) \in Nat /\ Len(b) \in Nat /\ Len(c) \in Nat /\ Len(a) <= Len(b) /\ Len(b) <= Len(c)
  BY DEF Extends
<1>2. ASSUME NEW i \in 1..Len(a) PROVE c[i] = a[i]
  BY <1>1 DEF Extends
<1>3. ASSUME NEW i \in (Len(a) + 1)..Len(c) PROVE c[i] \in some \cup other
  <2>1. CASE i <= Len(b)
    BY <1>1, <2>1 DEF Extends
  <2>2. CASE i > Len(b)
    BY <1>1, <2>2 DEF Extends
  <2> QED
    BY <1>1, <2>1, <2>2
<1> QED
  BY <1>1, <1>2, <1>3 DEF Extends

\* What a pass does: it adds pictures it wants, one to a paragraph, and then
\* every one it wants has a picture in its paragraph.
Passed(seen, taken, s, wanted, r) ==
    /\ r \in Seq(DOMAIN seen) /\ OnePlace(seen, r) /\ Extends(r, taken, wanted \cap Range(s))
    /\ \A p \in wanted \cap Range(s) : seen[p].at \in PlacesOf(seen, Range(r))

LEMMA PassPasses ==
    ASSUME NEW seen, NEW taken \in Seq(DOMAIN seen), OnePlace(seen, taken), NEW s \in Seq(DOMAIN seen), NEW wanted
    PROVE  Passed(seen, taken, s, wanted, Pass(seen, taken, s, wanted))
<1>1. PICK f : Steps(seen, taken, s, wanted, f) /\ Pass(seen, taken, s, wanted) = f[Len(s)]
  BY PassIsSteps
<1> DEFINE Some(n) == {p \in wanted : \E i \in 1..n : s[i] = p}
<1> DEFINE Good(n) == /\ f[n] \in Seq(DOMAIN seen) /\ OnePlace(seen, f[n]) /\ Extends(f[n], taken, Some(n))
                      /\ \A p \in Some(n) : seen[p].at \in PlacesOf(seen, Range(f[n]))
<1> DEFINE Bad == {n \in 0..Len(s) : ~Good(n)}
<1>0. Len(s) \in Nat /\ \A i \in 1..Len(s) : s[i] \in DOMAIN seen
  OBVIOUS
<1>2. Bad = {}
  <2>1. SUFFICES ASSUME Bad # {} PROVE FALSE
    OBVIOUS
  <2>2. PICK n \in Bad : \A k \in Bad : n <= k
    <3>1. Bad \subseteq Nat
      BY <1>0
    <3> HIDE DEF Bad
    <3> QED
      BY <2>1, <3>1, LeastOfNat
  <2>3. CASE n = 0
    <3>1. f[0] = taken
      BY <1>0, <1>1 DEF Steps
    <3>2. Some(0) = {}
      OBVIOUS
    <3>3. Extends(taken, taken, {})
      <4>1. Len(taken) \in Nat
        OBVIOUS
      <4> QED
        BY <4>1 DEF Extends
    <3> HIDE DEF Some
    <3>4. Good(0)
      BY <3>1, <3>2, <3>3
    <3> QED
      BY <2>2, <2>3, <3>4
  <2>4. CASE n # 0
    <3>1. n \in 1..Len(s) /\ n - 1 \in 0..Len(s) /\ n - 1 \notin Bad
      <4> HIDE DEF Good
      <4> QED
        BY <1>0, <2>2, <2>4
    <3>2. Good(n - 1)
      <4> HIDE DEF Good
      <4> QED
        BY <3>1
    <3>3. f[n] = IF s[n] \in wanted THEN Take(seen, f[n - 1], s[n]) ELSE f[n - 1]
      <4>1. n \in 0..Len(s) /\ n # 0
        BY <2>4, <3>1, <1>0
      <4>2. f = [m \in 0..Len(s) |-> IF m = 0 THEN taken ELSE IF s[m] \in wanted THEN Take(seen, f[m - 1], s[m]) ELSE f[m - 1]]
        BY <1>1 DEF Steps
      <4> HIDE DEF Bad
      <4> QED
        BY <4>1, <4>2
    <3>4. s[n] \in DOMAIN seen
      BY <1>0, <3>1
    <3>5. CASE s[n] \in wanted
      <4> DEFINE a == f[n - 1]
                 b == Take(seen, a, s[n])
      <4>1. /\ b \in Seq(DOMAIN seen) /\ OnePlace(seen, b)
            /\ Extends(b, a, {s[n]}) /\ seen[s[n]].at \in PlacesOf(seen, Range(b))
        BY <3>2, <3>4, TakeFacts
      <4>2. Some(n) = Some(n - 1) \cup {s[n]}
        BY <3>1, <3>5, <1>0
      <4>3. Extends(b, taken, Some(n))
        BY <4>1, <4>2, <3>2, ExtendsTrans
      <4>4. Range(a) \subseteq Range(b)
        BY <4>1, <3>2, ExtendsRange
      <4>5. \A p \in Some(n) : seen[p].at \in PlacesOf(seen, Range(b))
        BY <4>1, <4>2, <4>4, <3>2 DEF PlacesOf
      <4>6. Good(n)
        BY <4>1, <4>3, <4>5, <3>3, <3>5
      <4> QED
        BY <2>2, <4>6
    <3>6. CASE s[n] \notin wanted
      <4>1. Some(n) = Some(n - 1)
        BY <3>1, <3>6, <1>0
      <4>2. Good(n)
        BY <3>2, <3>3, <3>6, <4>1
      <4> QED
        BY <2>2, <4>2
    <3> QED
      BY <3>5, <3>6
  <2> QED
    BY <2>3, <2>4
<1>3. Good(Len(s))
  <2> HIDE DEF Good
  <2> QED
    BY <1>0, <1>2
<1>4. Some(Len(s)) = wanted \cap Range(s)
  BY DEF Range
<1> HIDE DEF Some
<1> QED
  BY <1>1, <1>3, <1>4 DEF Passed

LEMMA AnswerIsSeq ==
    ASSUME NEW seen, NEW cover, NEW answer \in Answers(seen, cover)
    PROVE  answer \in Seq(DOMAIN seen \ {cover})
<1>1. PICK n \in 0..MaxInline : answer \in [1..n -> DOMAIN seen \ {cover}]
  BY DEF Answers
<1>2. n \in Nat
  OBVIOUS
<1> QED
  BY <1>1, <1>2

\* What makes a choice sound, for any pictures, cover and answer.
Sound(seen, cover, choice) ==
    LET chosen == Range(choice)
        Free(p) == seen[p].at \notin PlacesOf(seen, chosen)
    IN /\ chosen \subseteq DOMAIN seen \ {cover} /\ Len(choice) <= MaxInline
       /\ \A p, q \in chosen : p # q => seen[p].at # seen[q].at
       /\ Len(choice) < MaxInline =>
             \A p \in (Sources \cap DOMAIN seen) \ {cover} : seen[p].at \in PlacesOf(seen, chosen \cap Sources)
       /\ Len(choice) < MinInline => \A p \in DOMAIN seen \ {cover} : ~Free(p)

LEMMA PolicyIsSound ==
    ASSUME NEW seen, Placed(seen), IsFiniteSet(DOMAIN seen), NEW cover, NEW answer \in Answers(seen, cover)
    PROVE  Policy(seen, cover, answer) \in Seq(DOMAIN seen \ {cover}) /\ Sound(seen, cover, Policy(seen, cover, answer))
<1> DEFINE first == Pass(seen, << >>, answer, Sources)
           shots == Pass(seen, first, InOrder(seen), Sources \ {cover})
           named == Pass(seen, shots, answer, DOMAIN seen)
           all == Pass(seen, named, InOrder(seen), DOMAIN seen \ (Sources \cup {cover}))
           enough == IF Len(named) < MinInline THEN MinInline ELSE Len(named)
           size == Least(Len(all), Least(enough, MaxInline))
           choice == [n \in 1..size |-> all[n]]
<1>0. Policy(seen, cover, answer) = choice
  BY DEF Policy
<1>1. answer \in Seq(DOMAIN seen) /\ Range(answer) \subseteq DOMAIN seen \ {cover}
  <2>1. answer \in Seq(DOMAIN seen \ {cover})
    BY AnswerIsSeq
  <2>2. DOMAIN answer = 1..Len(answer) /\ \A i \in 1..Len(answer) : answer[i] \in DOMAIN seen \ {cover}
    BY <2>1
  <2>3. Len(answer) \in Nat /\ \A i \in 1..Len(answer) : answer[i] \in DOMAIN seen
    BY <2>1, <2>2
  <2> QED
    BY <2>1, <2>2, <2>3 DEF Range
<1>2. InOrder(seen) \in Seq(DOMAIN seen) /\ Range(InOrder(seen)) = DOMAIN seen
  BY InOrderLists
<1>3. Passed(seen, << >>, answer, Sources, first)
  <2>1. << >> \in Seq(DOMAIN seen) /\ OnePlace(seen, << >>)
    BY DEF OnePlace
  <2> QED
    BY <1>1, <2>1, PassPasses
<1>4. Passed(seen, first, InOrder(seen), Sources \ {cover}, shots)
  BY <1>2, <1>3, PassPasses DEF Passed
<1>5. Passed(seen, shots, answer, DOMAIN seen, named)
  BY <1>1, <1>4, PassPasses DEF Passed
<1>6. Passed(seen, named, InOrder(seen), DOMAIN seen \ (Sources \cup {cover}), all)
  BY <1>2, <1>5, PassPasses DEF Passed
<1> HIDE DEF first, shots, named, all
<1>7. /\ first \in Seq(DOMAIN seen) /\ shots \in Seq(DOMAIN seen) /\ named \in Seq(DOMAIN seen) /\ all \in Seq(DOMAIN seen)
      /\ Len(shots) \in Nat /\ Len(named) \in Nat /\ Len(all) \in Nat /\ Len(shots) <= Len(named) /\ Len(named) <= Len(all)
  BY <1>3, <1>4, <1>5, <1>6 DEF Passed, Extends
<1>8. Range(shots) \subseteq (Sources \cap DOMAIN seen) \ {cover} /\ Range(all) \subseteq DOMAIN seen \ {cover}
  <2>1. Range(first) \subseteq Sources \cap Range(answer)
    <3>1. Range(first) \subseteq Range(<< >>) \cup (Sources \cap Range(answer))
      <4>1. << >> \in Seq(DOMAIN seen)
        OBVIOUS
      <4> QED
        BY <1>3, <1>7, <4>1, ExtendsRange DEF Passed
    <3> QED
      BY <3>1 DEF Range
  <2>2. Range(shots) \subseteq Range(first) \cup ((Sources \ {cover}) \cap Range(InOrder(seen)))
    BY <1>4, <1>7, ExtendsRange DEF Passed
  <2>3. Range(named) \subseteq Range(shots) \cup (DOMAIN seen \cap Range(answer))
    BY <1>5, <1>7, ExtendsRange DEF Passed
  <2>4. Range(all) \subseteq Range(named) \cup ((DOMAIN seen \ (Sources \cup {cover})) \cap Range(InOrder(seen)))
    BY <1>6, <1>7, ExtendsRange DEF Passed
  <2> QED
    BY <1>1, <1>2, <2>1, <2>2, <2>3, <2>4
<1>9. Range(shots) \subseteq Range(named) /\ Range(named) \subseteq Range(all)
  BY <1>5, <1>6, <1>7, ExtendsRange DEF Passed
<1>10. \A i \in 1..Len(shots) : all[i] = shots[i]
  <2>1. ASSUME NEW i \in 1..Len(shots) PROVE all[i] = shots[i]
    <3>1. i \in 1..Len(named)
      BY <1>7
    <3> QED
      BY <3>1, <1>5, <1>6 DEF Passed, Extends
  <2> QED
    BY <2>1
<1>11. /\ size \in Nat /\ size <= Len(all) /\ size <= MaxInline
       /\ size < MaxInline => Len(shots) <= size
       /\ size < MinInline => size = Len(all)
  BY <1>7, AssetsAssumption DEF Least
<1> HIDE DEF size
<1>12. choice \in Seq(DOMAIN seen \ {cover}) /\ Len(choice) = size /\ DOMAIN choice = 1..size
  <2>1. \A n \in 1..size : all[n] \in DOMAIN seen \ {cover}
    <3>1. ASSUME NEW n \in 1..size PROVE all[n] \in Range(all)
      <4>1. n \in DOMAIN all
        BY <1>7, <1>11
      <4> QED
        BY <4>1 DEF Range
    <3> QED
      BY <3>1, <1>8
  <2> QED
    BY <2>1, <1>11
<1>13. Range(choice) \subseteq DOMAIN seen \ {cover}
  <2> HIDE DEF choice
  <2>1. \A i \in DOMAIN choice : choice[i] \in DOMAIN seen \ {cover}
    BY <1>11, <1>12
  <2> QED
    BY <2>1 DEF Range
<1>14. ASSUME NEW p \in Range(choice), NEW q \in Range(choice), p # q PROVE seen[p].at # seen[q].at
  <2>1. PICK i \in 1..size : choice[i] = p
    BY <1>12 DEF Range
  <2>2. PICK k \in 1..size : choice[k] = q
    BY <1>12 DEF Range
  <2>3. i \in DOMAIN all /\ k \in DOMAIN all /\ i # k /\ all[i] = p /\ all[k] = q
    BY <2>1, <2>2, <1>7, <1>11, <1>14
  <2> QED
    BY <2>3, <1>6 DEF Passed, OnePlace
<1>15. ASSUME size < MaxInline, NEW p \in (Sources \cap DOMAIN seen) \ {cover}
       PROVE  seen[p].at \in PlacesOf(seen, Range(choice) \cap Sources)
  <2>1. PICK q \in Range(shots) : seen[q].at = seen[p].at
    BY <1>15, <1>2, <1>4 DEF Passed, PlacesOf
  <2>2. PICK i \in 1..Len(shots) : shots[i] = q
    BY <2>1, <1>7 DEF Range
  <2>3. i \in 1..size /\ choice[i] = q
    BY <2>2, <1>7, <1>10, <1>11, <1>15
  <2>4. q \in Range(choice) /\ q \in Sources
    BY <2>1, <2>3, <1>8, <1>12 DEF Range
  <2> QED
    BY <2>1, <2>4 DEF PlacesOf
<1>16. ASSUME size < MinInline, NEW p \in DOMAIN seen \ {cover} PROVE seen[p].at \in PlacesOf(seen, Range(choice))
  <2>1. PICK q \in Range(all) : seen[q].at = seen[p].at
    <3>1. CASE p \in Sources
      <4>1. seen[p].at \in PlacesOf(seen, Range(shots))
        BY <3>1, <1>16, <1>2, <1>4 DEF Passed
      <4> QED
        BY <4>1, <1>9 DEF PlacesOf
    <3>2. CASE p \notin Sources
      <4>1. seen[p].at \in PlacesOf(seen, Range(all))
        BY <3>2, <1>16, <1>2, <1>6 DEF Passed
      <4> QED
        BY <4>1 DEF PlacesOf
    <3> QED
      BY <3>1, <3>2
  <2>2. PICK i \in 1..Len(all) : all[i] = q
    BY <2>1, <1>7 DEF Range
  <2>3. i \in 1..size /\ choice[i] = q
    BY <2>2, <1>11, <1>16
  <2>4. q \in Range(choice)
    BY <2>3, <1>12 DEF Range
  <2> QED
    BY <2>1, <2>4 DEF PlacesOf
<1> HIDE DEF choice
<1>17. Sound(seen, cover, choice)
  BY <1>11, <1>12, <1>13, <1>14, <1>15, <1>16 DEF Sound
<1> QED
  BY <1>0, <1>12, <1>17

USE AssetsAssumption

Opt == Pics \cup {None}
Spots == [cover : BOOLEAN, at : Places]
Uploads == [pic : Pics, at : Nat]
Layouts == UNION {[S -> Spots] : S \in SUBSET Pics}
States == {"none", "assets_selected", "cover_uploaded", "draft_created", "draft_failed", "delivery_stale", "superseded"}
Statuses == {"open", "ready", "draftbox"}
PublicationRows == [state : States, cover : Opt, inline : Seq(Pics), media : Opt, urls : Seq(Uploads), remote : Nat]
Remotes == [cover : Opt, shown : Seq(Uploads), head : Opt, foot : Opt, text : BOOLEAN]
Preferences == [cover : BOOLEAN, footer : Opt, asset : Opt, cache : Opt, text : BOOLEAN]
Stages == {"idle", "looking", "choosing", "checking", "uploading", "reviewing", "revising", "sending", "sent", "ending"}
JobRecords == [kind : Kinds \cup {"none"}, pc : Stages, mine : PublicationRows, wrote : SUBSET Columns, seen : Layouts, up : Seq(Uploads),
               status : Statuses, sets : BOOLEAN, revised : BOOLEAN, expired : BOOLEAN, to : Nat]

\* The values of the variables: of the pictures and of the row.
PicturesTyped ==
    /\ made \in 0..MaxPics /\ assets \subseteq 1..made /\ files \subseteq 1..made
    /\ ill \in Layouts /\ DOMAIN ill \subseteq assets
    /\ prefs \in Preferences /\ fetched \in {None} \cup Spots
    /\ gone \in Opt /\ (gone # None => gone \in assets \ DOMAIN ill)
RowTyped ==
    /\ row \in PublicationRows /\ remotes \in Seq(Remotes) /\ row.remote <= Len(remotes)
    /\ status \in Statuses /\ lock \in Deliveries \cup {None} /\ crossed \in BOOLEAN
    /\ job \in [Deliveries -> JobRecords]
    /\ \A j \in Deliveries : job[j].mine.remote <= Len(remotes) /\ job[j].to <= Len(remotes)
Typed == PicturesTyped /\ RowTyped

LEMMA LayoutHas ==
    ASSUME NEW l \in Layouts
    PROVE  /\ DOMAIN l \subseteq Pics /\ \A p \in DOMAIN l : l[p] \in Spots
           /\ Placed(l) /\ IsFiniteSet(DOMAIN l)
<1>1. PICK S \in SUBSET Pics : l \in [S -> Spots]
  BY DEF Layouts
<1>2. DOMAIN l \subseteq Pics /\ \A p \in DOMAIN l : l[p] \in Spots
  BY <1>1
<1>3. Placed(l)
  <2>1. MaxPics \in Nat /\ Places \subseteq Nat
    BY AssetsAssumption
  <2>2. Pics \subseteq Nat
    BY <2>1 DEF Pics
  <2>3. \A p \in DOMAIN l : l[p].at \in Nat
    BY <1>2, <2>1 DEF Spots
  <2> QED
    BY <1>2, <2>2, <2>3 DEF Placed
<1>4. IsFiniteSet(DOMAIN l)
  <2>1. MaxPics \in Int /\ 1 \in Int
    BY AssetsAssumption
  <2>2. IsFiniteSet(Pics)
    BY <2>1, FS_Interval DEF Pics
  <2> QED
    BY <1>2, <2>2, FS_Subset
<1> QED
  BY <1>2, <1>3, <1>4

LEMMA LayoutIs ==
    ASSUME NEW S \in SUBSET Pics, NEW l \in [S -> Spots]
    PROVE  l \in Layouts
BY DEF Layouts

\* What is done to the places keeps them places.
LEMMA PutTyped ==
    ASSUME NEW l \in Layouts, NEW p \in Pics, NEW cover \in BOOLEAN, NEW at \in Places
    PROVE  Put(l, p, cover, at) \in Layouts /\ DOMAIN Put(l, p, cover, at) = DOMAIN l \cup {p}
<1>1. DOMAIN l \subseteq Pics /\ \A q \in DOMAIN l : l[q] \in Spots
  BY LayoutHas
<1>2. [cover |-> cover, at |-> at] \in Spots
  BY DEF Spots
<1>3. Put(l, p, cover, at) \in [DOMAIN l \cup {p} -> Spots]
  BY <1>1, <1>2 DEF Put
<1> QED
  BY <1>1, <1>3, LayoutIs

LEMMA CreatedTyped ==
    ASSUME NEW l \in Layouts, NEW p \in Pics, NEW cover \in BOOLEAN, NEW at \in Places
    PROVE  Created(l, p, cover, at) \in Layouts /\ DOMAIN Created(l, p, cover, at) \subseteq DOMAIN l \cup {p}
<1>1. CASE cover /\ Covers(l) # {}
  <2>1. Created(l, p, cover, at) = l
    BY <1>1, Zenon DEF Created
  <2> QED
    BY <2>1
<1>2. CASE ~(cover /\ Covers(l) # {})
  <2>1. Created(l, p, cover, at) = Put(l, p, cover, at)
    BY <1>2, Zenon DEF Created
  <2>2. Put(l, p, cover, at) \in Layouts /\ DOMAIN Put(l, p, cover, at) = DOMAIN l \cup {p}
    BY PutTyped
  <2> QED
    BY <2>1, <2>2
<1> QED
  BY <1>1, <1>2

LEMMA DemotedTyped ==
    ASSUME NEW l \in Layouts, NEW but, NEW places, \A p \in DOMAIN l : places[p] \in Places
    PROVE  Demoted(l, but, places) \in Layouts /\ DOMAIN Demoted(l, but, places) = DOMAIN l
<1>1. DOMAIN l \subseteq Pics /\ \A q \in DOMAIN l : l[q] \in Spots
  BY LayoutHas
<1>2. \A q \in DOMAIN l : [cover |-> FALSE, at |-> places[q]] \in Spots
  BY DEF Spots
<1>3. Demoted(l, but, places) \in [DOMAIN l -> Spots]
  BY <1>1, <1>2 DEF Demoted
<1> QED
  BY <1>1, <1>3, LayoutIs

LEMMA WithoutTyped ==
    ASSUME NEW l \in Layouts, NEW p
    PROVE  [q \in DOMAIN l \ {p} |-> l[q]] \in Layouts
<1>1. DOMAIN l \subseteq Pics /\ \A q \in DOMAIN l : l[q] \in Spots
  BY LayoutHas
<1>2. [q \in DOMAIN l \ {p} |-> l[q]] \in [DOMAIN l \ {p} -> Spots]
  BY <1>1
<1> QED
  BY <1>1, <1>2, LayoutIs

LEMMA ColumnsAre == Columns = {"state", "cover", "inline", "media", "urls", "remote"}
BY DEF Columns, NoRow

LEMMA NoRowTyped == NoRow \in PublicationRows
BY DEF NoRow, PublicationRows, States, Opt

LEMMA VoidedTyped ==
    ASSUME NEW r \in PublicationRows
    PROVE  Voided(r) \in PublicationRows /\ Voided(r).remote \in {0, r.remote}
BY NoRowTyped DEF Voided, PublicationRows, States, NoRow

LEMMA ChosenTyped ==
    ASSUME NEW r \in PublicationRows, NEW cover \in Pics, NEW inline \in Seq(Pics)
    PROVE  Chosen(r, cover, inline) \in PublicationRows /\ Chosen(r, cover, inline).remote = r.remote
<1>1. CASE r.remote # 0 /\ r.state # "delivery_stale"
  BY <1>1 DEF Chosen
<1>2. CASE ~(r.remote # 0 /\ r.state # "delivery_stale")
  <2>1. Chosen(r, cover, inline) =
          [r EXCEPT !.state = "assets_selected", !.cover = cover, !.inline = inline,
                    !.media = IF r.cover = cover THEN r.media ELSE None, !.urls = IF r.inline = inline THEN r.urls ELSE << >>]
    BY <1>2 DEF Chosen, PublicationRows
  <2>2. cover \in Opt /\ None \in Opt /\ << >> \in Seq(Uploads) /\ "assets_selected" \in States
    BY DEF Opt, States
  <2> QED
    BY <2>1, <2>2 DEF PublicationRows
<1> QED
  BY <1>1, <1>2

LEMMA RenderedTyped ==
    ASSUME NEW urls \in Seq(Uploads)
    PROVE  Rendered(urls) \in Seq(Uploads)
<1>1. Len(urls) \in Nat /\ DOMAIN urls = 1..Len(urls) /\ Limit \in Nat /\ \A i \in 1..Len(urls) : urls[i] \in Uploads
  BY AssetsAssumption
<1> DEFINE At(i) == IF urls[i].at < Limit THEN urls[i].at ELSE Limit
<1>2. \A i \in 1..Len(urls) : [urls[i] EXCEPT !.at = At(i)] \in Uploads
  BY <1>1 DEF Uploads
<1>3. Rendered(urls) = [i \in 1..Len(urls) |-> [urls[i] EXCEPT !.at = At(i)]]
  BY <1>1 DEF Rendered, Uploads
<1> HIDE DEF At
<1>4. Rendered(urls) \in [1..Len(urls) -> Uploads]
  BY <1>2, <1>3
<1> QED
  BY <1>1, <1>4

LEMMA StoredTyped ==
    ASSUME RowTyped, NEW j \in Deliveries
    PROVE  Stored(j) \in PublicationRows /\ Stored(j).remote \in {row.remote, job[j].mine.remote}
<1> DEFINE m == job[j].mine
           Of(c) == IF c \in job[j].wrote THEN m[c] ELSE row[c]
<1>1. row \in PublicationRows /\ m \in PublicationRows
  BY DEF RowTyped, JobRecords
<1>2. Stored(j) = [state |-> Of("state"), cover |-> Of("cover"), inline |-> Of("inline"), media |-> Of("media"),
                   urls |-> Of("urls"), remote |-> Of("remote")]
  BY ColumnsAre DEF Stored
<1> QED
  BY <1>1, <1>2 DEF PublicationRows

\* The short transactions keep the types.
Settled ==
    /\ \/ Keeps /\ UNCHANGED status
       \/ Voids /\ status' \in {status, "open"}
    /\ UNCHANGED <<remotes, lock, job>>

LEMMA SettledTyped ==
    ASSUME RowTyped, Settled
    PROVE  RowTyped'
<1>1. row \in PublicationRows /\ row.remote \in Nat
  BY DEF RowTyped, PublicationRows
<1>2. row' \in PublicationRows /\ row'.remote \in {0, row.remote} /\ crossed' \in BOOLEAN
  BY <1>1, VoidedTyped DEF Settled, Keeps, Voids, RowTyped
<1>3. status' \in Statuses /\ UNCHANGED <<remotes, lock, job>> /\ Len(remotes) \in Nat
  BY DEF Settled, RowTyped, Statuses
<1>4. row'.remote <= Len(remotes)
  BY <1>1, <1>2, <1>3 DEF RowTyped
<1> QED
  BY <1>2, <1>3, <1>4 DEF RowTyped

LEMMA MadeTyped ==
    ASSUME PicturesTyped, NEW p \in Pics, Made(p)
    PROVE  /\ made' \in 0..MaxPics /\ assets' \subseteq 1..made' /\ files' \subseteq 1..made'
           /\ assets \subseteq assets' /\ p \in assets' /\ p \notin assets
<1>1. made \in Nat /\ MaxPics \in Nat /\ p = made + 1 /\ made' = p /\ assets' = assets \cup {p} /\ files' = files \cup {p} /\ made < MaxPics
  BY AssetsAssumption DEF PicturesTyped, Made
<1> QED
  BY <1>1 DEF PicturesTyped

\* The actions on pictures and preferences.
PictureStep ==
    \/ UploadAsset \/ UploadFails \/ Deleted \/ DeleteFails \/ FetchFails \/ Reselect \/ Rewrite \/ ClearFooter
    \/ \E cover, text \in BOOLEAN : SetPreferences(cover, text)
    \/ \E p \in Pics : TakeOut(p) \/ SetCover(p) \/ SetFooter(p) \/ Delete(p) \/ Fetched(p)
    \/ \E p \in Pics, at \in Places : Move(p, at) \/ AttachByTool(p, at)
    \/ \E p \in Pics, cover \in BOOLEAN, at \in Places : Attach(p, cover, at) \/ Patch(p, cover, at) \/ Generate(p, cover, at)
    \/ \E cover \in BOOLEAN, at \in Places : Fetch(cover, at)

LEMMA PictureSettles ==
    ASSUME PictureStep
    PROVE  Settled
<1> USE DEF Settled, Edit, ToPlaces, Lasting, Prefer
<1>1. CASE UploadAsset
  BY <1>1 DEF UploadAsset
<1>2. CASE UploadFails
  BY <1>2 DEF UploadFails
<1>3. CASE Deleted
  BY <1>3 DEF Deleted
<1>4. CASE DeleteFails
  BY <1>4 DEF DeleteFails
<1>5. CASE FetchFails
  BY <1>5 DEF FetchFails
<1>6. CASE Reselect
  BY <1>6 DEF Reselect
<1>7. CASE Rewrite
  BY <1>7 DEF Rewrite
<1>8. CASE ClearFooter
  BY <1>8 DEF ClearFooter
<1>9. CASE \E cover, text \in BOOLEAN : SetPreferences(cover, text)
  BY <1>9 DEF SetPreferences
<1>10. CASE \E p \in Pics : TakeOut(p) \/ SetCover(p) \/ SetFooter(p) \/ Delete(p) \/ Fetched(p)
  BY <1>10 DEF TakeOut, SetCover, SetFooter, Delete, Fetched
<1>11. CASE \E p \in Pics, at \in Places : Move(p, at) \/ AttachByTool(p, at)
  BY <1>11 DEF Move, AttachByTool
<1>12. CASE \E p \in Pics, cover \in BOOLEAN, at \in Places : Attach(p, cover, at) \/ Patch(p, cover, at) \/ Generate(p, cover, at)
  BY <1>12 DEF Attach, Patch, Generate
<1>13. CASE \E cover \in BOOLEAN, at \in Places : Fetch(cover, at)
  BY <1>13 DEF Fetch
<1> QED
  BY <1>1, <1>2, <1>3, <1>4, <1>5, <1>6, <1>7, <1>8, <1>9, <1>10, <1>11, <1>12, <1>13 DEF PictureStep

\* What changes only places keeps the types.
LEMMA PlacesChange ==
    ASSUME PicturesTyped, ill' \in Layouts, DOMAIN ill' \subseteq assets \ ({gone} \ {None}),
           UNCHANGED <<assets, files, made, fetched, gone, prefs>>
    PROVE  PicturesTyped'
BY DEF PicturesTyped

LEMMA PictureStepTyped ==
    ASSUME PicturesTyped, PictureStep
    PROVE  PicturesTyped'
<1>0. /\ ill \in Layouts /\ DOMAIN ill \subseteq assets /\ assets \subseteq Pics /\ None \notin Pics /\ None \notin DOMAIN ill
      /\ 0 \in Places /\ 1 \in Places /\ DOMAIN ill \subseteq Pics /\ \A q \in DOMAIN ill : ill[q].at \in Places
  <2>1. MaxPics \in Nat /\ None \notin Nat /\ made \in 0..MaxPics
    BY AssetsAssumption DEF PicturesTyped
  <2>2. assets \subseteq Pics /\ None \notin Pics
    BY <2>1 DEF PicturesTyped, Pics
  <2> QED
    BY <2>2, LayoutHas, AssetsAssumption DEF PicturesTyped, Spots
<1>1. CASE UploadAsset
  <2>1. PICK p \in Pics \ Sources : Made(p)
    BY <1>1 DEF UploadAsset
  <2>2. UNCHANGED <<ill, fetched, gone, prefs>>
    BY <1>1 DEF UploadAsset, Edit
  <2> QED
    BY <2>1, <2>2, MadeTyped DEF PicturesTyped
<1>2. CASE UploadFails
  <2>1. made < MaxPics /\ made' = made + 1 /\ files' = files \cup {made'} /\ UNCHANGED <<assets, ill, fetched, gone, prefs>>
    BY <1>2 DEF UploadFails
  <2>2. made' \in 0..MaxPics /\ assets' \subseteq 1..made' /\ files' \subseteq 1..made'
    BY <2>1, AssetsAssumption DEF PicturesTyped
  <2> QED
    BY <2>1, <2>2 DEF PicturesTyped
<1>3. CASE Deleted
  BY <1>0, <1>3 DEF Deleted, PicturesTyped, Opt
<1>4. CASE DeleteFails
  BY <1>4 DEF DeleteFails, PicturesTyped, Opt
<1>5. CASE FetchFails
  BY <1>5 DEF FetchFails, PicturesTyped
<1>6. CASE Reselect
  BY <1>6 DEF Reselect, ToPlaces, Edit, PicturesTyped
<1>7. CASE Rewrite
  BY <1>7 DEF Rewrite, Edit, pictures, PicturesTyped
<1>8. CASE ClearFooter
  BY <1>8 DEF ClearFooter, Prefer, pictures, PicturesTyped, Preferences, Opt
<1>9. CASE \E cover, text \in BOOLEAN : SetPreferences(cover, text)
  BY <1>9 DEF SetPreferences, Prefer, pictures, PicturesTyped, Preferences
<1>10. ASSUME NEW p \in Pics, TakeOut(p) PROVE PicturesTyped'
  <2>1. ill' = [q \in DOMAIN ill \ {p} |-> ill[q]] /\ UNCHANGED <<assets, files, made, fetched, gone, prefs>>
    BY <1>10 DEF TakeOut, ToPlaces, Edit
  <2>2. ill' \in Layouts /\ DOMAIN ill' \subseteq DOMAIN ill
    BY <1>0, <2>1, WithoutTyped
  <2> QED
    BY <2>1, <2>2, <1>0, PlacesChange DEF PicturesTyped
<1>11. ASSUME NEW p \in Pics, SetCover(p) PROVE PicturesTyped'
  <2> DEFINE places == [q \in DOMAIN ill |-> IF ill[q].at = 0 THEN 1 ELSE ill[q].at]
             base == Demoted(ill, p, places)
  <2>1. p \in DOMAIN ill /\ ill' = Put(base, p, TRUE, 0) /\ UNCHANGED <<assets, files, made, fetched, gone, prefs>>
    BY <1>11 DEF SetCover, ToPlaces, Edit
  <2>2. base \in Layouts /\ DOMAIN base = DOMAIN ill
    <3>1. \A q \in DOMAIN ill : places[q] \in Places
      BY <1>0
    <3> HIDE DEF places
    <3> QED
      BY <1>0, <3>1, DemotedTyped
  <2> HIDE DEF base
  <2>3. ill' \in Layouts /\ DOMAIN ill' = DOMAIN base \cup {p}
    BY <1>0, <2>1, <2>2, PutTyped
  <2> QED
    BY <2>1, <2>2, <2>3, <1>0, PlacesChange DEF PicturesTyped
<1>12. ASSUME NEW p \in Pics, SetFooter(p) PROVE PicturesTyped'
  BY <1>12 DEF SetFooter, Prefer, pictures, PicturesTyped, Preferences, Opt
<1>13. ASSUME NEW p \in Pics, Delete(p) PROVE PicturesTyped'
  BY <1>13 DEF Delete, Edit, PicturesTyped, Opt
<1>14. ASSUME NEW p \in Pics, Fetched(p) PROVE PicturesTyped'
  <2> DEFINE base == IF fetched.cover THEN Demoted(ill, None, [q \in DOMAIN ill |-> 1]) ELSE ill
  <2>1. Made(p) /\ ill' = Put(base, p, fetched.cover, fetched.at) /\ fetched # None /\ fetched' = None /\ UNCHANGED <<gone, prefs>>
    BY <1>14 DEF Fetched
  <2>2. fetched.cover \in BOOLEAN /\ fetched.at \in Places
    BY <2>1 DEF PicturesTyped, Spots
  <2>3. base \in Layouts /\ DOMAIN base = DOMAIN ill
    <3>1. Demoted(ill, None, [q \in DOMAIN ill |-> 1]) \in Layouts
          /\ DOMAIN Demoted(ill, None, [q \in DOMAIN ill |-> 1]) = DOMAIN ill
      BY <1>0, DemotedTyped
    <3> QED
      BY <1>0, <3>1
  <2> HIDE DEF base
  <2>4. ill' \in Layouts /\ DOMAIN ill' = DOMAIN ill \cup {p}
    BY <2>1, <2>2, <2>3, PutTyped
  <2> QED
    BY <2>1, <2>4, <1>0, MadeTyped DEF PicturesTyped
<1>15. ASSUME NEW p \in Pics, NEW at \in Places, Move(p, at) PROVE PicturesTyped'
  <2>1. p \in DOMAIN ill /\ ill' = Put(ill, p, FALSE, at) /\ UNCHANGED <<assets, files, made, fetched, gone, prefs>>
    BY <1>15 DEF Move, ToPlaces, Edit
  <2>2. ill' \in Layouts /\ DOMAIN ill' = DOMAIN ill \cup {p}
    BY <1>0, <2>1, PutTyped
  <2> QED
    BY <2>1, <2>2, <1>0, PlacesChange DEF PicturesTyped
<1>16. ASSUME NEW p \in Pics, NEW at \in Places, AttachByTool(p, at) PROVE PicturesTyped'
  <2>1. p \in assets /\ p # gone /\ ill' = Put(ill, p, FALSE, at) /\ UNCHANGED <<assets, files, made, fetched, gone, prefs>>
    BY <1>16 DEF AttachByTool, ToPlaces, Edit
  <2>2. ill' \in Layouts /\ DOMAIN ill' = DOMAIN ill \cup {p}
    BY <1>0, <2>1, PutTyped
  <2> QED
    BY <2>1, <2>2, <1>0, PlacesChange DEF PicturesTyped
<1>17. ASSUME NEW p \in Pics, NEW cover \in BOOLEAN, NEW at \in Places, Attach(p, cover, at) PROVE PicturesTyped'
  <2>1. p \in assets /\ p # gone /\ ill' = Created(ill, p, cover, at) /\ UNCHANGED <<assets, files, made, fetched, gone, prefs>>
    BY <1>17 DEF Attach, ToPlaces, Edit
  <2>2. ill' \in Layouts /\ DOMAIN ill' \subseteq DOMAIN ill \cup {p}
    BY <1>0, <2>1, CreatedTyped
  <2> QED
    BY <2>1, <2>2, <1>0, PlacesChange DEF PicturesTyped
<1>18. ASSUME NEW p \in Pics, NEW cover \in BOOLEAN, NEW at \in Places, Patch(p, cover, at) PROVE PicturesTyped'
  <2>1. /\ p \in DOMAIN ill /\ ill' = Put(ill, p, cover, IF cover THEN 0 ELSE at)
        /\ UNCHANGED <<assets, files, made, fetched, gone, prefs>>
    BY <1>18 DEF Patch, ToPlaces, Edit
  <2>2. ill' \in Layouts /\ DOMAIN ill' = DOMAIN ill \cup {p}
    BY <1>0, <2>1, PutTyped
  <2> QED
    BY <2>1, <2>2, <1>0, PlacesChange DEF PicturesTyped
<1>19. ASSUME NEW p \in Pics, NEW cover \in BOOLEAN, NEW at \in Places, Generate(p, cover, at) PROVE PicturesTyped'
  <2>1. Made(p) /\ ill' = Created(ill, p, cover, at) /\ UNCHANGED <<fetched, gone, prefs>>
    BY <1>19 DEF Generate, Edit
  <2>2. ill' \in Layouts /\ DOMAIN ill' \subseteq DOMAIN ill \cup {p}
    BY <1>0, <2>1, CreatedTyped
  <2> QED
    BY <2>1, <2>2, <1>0, MadeTyped DEF PicturesTyped
<1>20. ASSUME NEW cover \in BOOLEAN, NEW at \in Places, Fetch(cover, at) PROVE PicturesTyped'
  <2>1. FreePlace(at) \in Places
    BY DEF FreePlace
  <2>2. fetched' = [cover |-> cover, at |-> IF cover THEN 0 ELSE FreePlace(at)] /\ UNCHANGED <<assets, files, made, ill, gone, prefs>>
    BY <1>20 DEF Fetch, Edit
  <2>3. fetched' \in Spots
    BY <1>0, <2>1, <2>2 DEF Spots
  <2> QED
    BY <2>2, <2>3 DEF PicturesTyped
<1> QED
  BY <1>1, <1>2, <1>3, <1>4, <1>5, <1>6, <1>7, <1>8, <1>9, <1>10, <1>11, <1>12, <1>13, <1>14, <1>15, <1>16, <1>17, <1>18, <1>19, <1>20
     DEF PictureStep

LEMMA IdleTyped == Idle \in JobRecords /\ Idle.mine.remote = 0 /\ Idle.to = 0 /\ Idle.pc = "idle"
<1>1. << >> \in Layouts
  <2>1. {} \in SUBSET Pics /\ << >> \in [{} -> Spots]
    OBVIOUS
  <2> QED
    BY <2>1, LayoutIs
<1>2. << >> \in Seq(Uploads)
  OBVIOUS
<1> QED
  BY <1>1, <1>2, NoRowTyped DEF Idle, JobRecords, Stages, Statuses, NoRow

\* A step of delivery j that leaves it at g.
LEMMA GoesTyped ==
    ASSUME RowTyped, NEW j \in Deliveries, NEW g \in JobRecords, Set(j, g), UNCHANGED <<row, status>>,
           remotes' \in Seq(Remotes), Len(remotes) <= Len(remotes'), g.mine.remote <= Len(remotes'), g.to <= Len(remotes'),
           lock' \in Deliveries \cup {None}, crossed' \in BOOLEAN
    PROVE  RowTyped'
<1>1. job' = [job EXCEPT ![j] = g] /\ job \in [Deliveries -> JobRecords] /\ Len(remotes) \in Nat /\ Len(remotes') \in Nat
  BY DEF RowTyped, Set
<1>2. ASSUME NEW k \in Deliveries PROVE job'[k] \in JobRecords /\ job'[k].mine.remote <= Len(remotes') /\ job'[k].to <= Len(remotes')
  <2>1. CASE k = j
    BY <1>1, <2>1
  <2>2. CASE k # j
    <3>1. job'[k] = job[k] /\ job[k].mine.remote \in Nat /\ job[k].to \in Nat
      BY <1>1, <2>2 DEF JobRecords, PublicationRows
    <3>2. job[k].mine.remote <= Len(remotes) /\ job[k].to <= Len(remotes)
      BY DEF RowTyped
    <3> QED
      BY <1>1, <3>1, <3>2
  <2> QED
    BY <2>1, <2>2
<1>3. job' \in [Deliveries -> JobRecords]
  BY <1>1
<1>4. row' \in PublicationRows /\ row'.remote <= Len(remotes') /\ status' \in Statuses
  BY <1>1 DEF RowTyped, PublicationRows
<1> QED
  BY <1>2, <1>3, <1>4 DEF RowTyped

\* A delivery that stores the row, or ends, with or without its changes.
LEMMA StoresTyped ==
    ASSUME RowTyped, NEW j \in Deliveries, NEW g \in JobRecords, Set(j, g), g.mine.remote <= Len(remotes), g.to <= Len(remotes),
           UNCHANGED remotes, row' \in PublicationRows, row'.remote <= Len(remotes),
           status' \in {status, job[j].status}, lock' \in Deliveries \cup {None}, crossed' \in BOOLEAN
    PROVE  RowTyped'
<1>1. job' = [job EXCEPT ![j] = g] /\ job \in [Deliveries -> JobRecords] /\ Len(remotes) \in Nat
  BY DEF RowTyped, Set
<1>2. job' \in [Deliveries -> JobRecords]
  BY <1>1
<1>3. \A k \in Deliveries : job'[k].mine.remote <= Len(remotes) /\ job'[k].to <= Len(remotes)
  BY <1>1 DEF RowTyped
<1>4. status' \in Statuses
  BY <1>1 DEF RowTyped, JobRecords
<1> QED
  BY <1>2, <1>3, <1>4 DEF RowTyped

LEMMA ClosesTyped ==
    ASSUME RowTyped, NEW j \in Deliveries, Set(j, Idle), UNCHANGED remotes, row' \in PublicationRows, row'.remote <= Len(remotes),
           status' \in {status, job[j].status}, lock' \in Deliveries \cup {None}, crossed' \in BOOLEAN
    PROVE  RowTyped'
<1>1. Idle \in JobRecords /\ Idle.mine.remote <= Len(remotes) /\ Idle.to <= Len(remotes)
  BY IdleTyped DEF RowTyped
<1> QED
  BY <1>1, StoresTyped

LEMMA StoredBound ==
    ASSUME RowTyped, NEW j \in Deliveries
    PROVE  Stored(j) \in PublicationRows /\ Stored(j).remote <= Len(remotes)
BY StoredTyped DEF RowTyped

LEMMA EndsTyped ==
    ASSUME RowTyped, NEW j \in Deliveries, UNCHANGED remotes, Ends(j)
    PROVE  RowTyped'
<1>1. row' \in PublicationRows /\ row'.remote <= Len(remotes)
  BY StoredBound DEF Ends
<1>2. Set(j, Idle) /\ status' \in {status, job[j].status} /\ lock' \in Deliveries \cup {None} /\ crossed' \in BOOLEAN
  BY DEF Ends, Crosses, RowTyped
<1> QED
  BY <1>1, <1>2, ClosesTyped

LEMMA RollsBackTyped ==
    ASSUME RowTyped, NEW j \in Deliveries, UNCHANGED remotes, RollsBack(j)
    PROVE  RowTyped'
<1>1. /\ row' \in PublicationRows /\ row'.remote <= Len(remotes)
      /\ Set(j, Idle) /\ status' \in {status, job[j].status} /\ lock' \in Deliveries \cup {None} /\ crossed' \in BOOLEAN
  BY DEF RollsBack, Keeps, RowTyped
<1> QED
  BY <1>1, ClosesTyped

LEMMA FailsTyped ==
    ASSUME RowTyped, NEW j \in Deliveries, UNCHANGED remotes, Fails(j)
    PROVE  RowTyped'
BY EndsTyped, RollsBackTyped DEF Fails

LEMMA StopsTyped ==
    ASSUME RowTyped, NEW j \in Deliveries, UNCHANGED remotes, Stops(j)
    PROVE  RowTyped'
<1>1. Stored(j) \in PublicationRows /\ Stored(j).remote <= Len(remotes)
  BY StoredBound
<1>2. Recorded(j) \in PublicationRows /\ Recorded(j).remote = Stored(j).remote
  BY <1>1 DEF Recorded, PublicationRows, States
<1>3. row' \in PublicationRows /\ row'.remote <= Len(remotes)
  BY <1>1, <1>2 DEF Stops, RowTyped
<1>4. Set(j, Idle) /\ status' \in {status, job[j].status} /\ lock' \in Deliveries \cup {None} /\ crossed' \in BOOLEAN
  BY DEF Stops, Crosses, RowTyped
<1> QED
  BY <1>3, <1>4, ClosesTyped

LEMMA FlushedTyped ==
    ASSUME RowTyped, NEW j \in Deliveries, NEW new \in PublicationRows
    PROVE  /\ Flushed(j, new) \in JobRecords /\ Flushed(j, new).mine = new /\ Flushed(j, new).to = job[j].to
           /\ Writes(j, new) => lock' \in Deliveries \cup {None}
<1>1. job[j] \in JobRecords
  BY DEF RowTyped
<1>2. Flushed(j, new) = [job[j] EXCEPT !.mine = new, !.wrote = job[j].wrote \cup {c \in Columns : new[c] # job[j].mine[c]}]
  BY <1>1 DEF Flushed, JobRecords
<1> QED
  BY <1>1, <1>2 DEF JobRecords, Writes, RowTyped

LEMMA ContentTyped ==
    ASSUME PicturesTyped, NEW r \in PublicationRows, NEW k, NEW head \in Opt
    PROVE  Content(k, r, head) \in Remotes /\ AtHead(r) \in Opt
<1>1. Rendered(r.urls) \in Seq(Uploads) /\ r.media \in Opt /\ r.cover \in Opt
  BY RenderedTyped DEF PublicationRows
<1>2. prefs.footer \in Opt /\ prefs.cache \in Opt /\ prefs.text \in BOOLEAN
  BY DEF PicturesTyped, Preferences
<1>3. Foot \in Opt
  BY <1>2 DEF Foot, Opt
<1>4. None \in Opt
  BY DEF Opt
<1> HIDE DEF Opt
<1> QED
  BY <1>1, <1>2, <1>3, <1>4 DEF Content, AtHead, Remotes

LEMMA ContentsTyped ==
    ASSUME Typed, NEW j \in Deliveries, NEW left \in BOOLEAN
    PROVE  Contents(j, left) \in Remotes
<1>1. job[j].mine \in PublicationRows /\ None \in Opt
  BY DEF Typed, RowTyped, JobRecords, Opt
<1>2. AtHead(job[j].mine) \in Opt
  BY <1>1, ContentTyped DEF Typed
<1> HIDE DEF Opt
<1> QED
  BY <1>1, <1>2, ContentTyped DEF Contents, Typed

\* The steps of a delivery under way.
DeliveryActs(j) ==
    \/ \E k \in Kinds : Start(j, k)
    \/ Look(j) \/ ChooseFails(j) \/ Passes(j) \/ Searches(j) \/ Revises(j) \/ Rejects(j) \/ Check(j) \/ Upload(j) \/ UploadStops(j)
    \/ SendStops(j) \/ Mark(j) \/ Commit(j) \/ Crash(j)
    \/ Resend(j) \/ \E left \in BOOLEAN : Send(j, left)
    \/ \E cover \in DOMAIN job[j].seen : \E answer \in Answers(job[j].seen, cover) : Choose(j, cover, answer)

LEMMA StartTyped ==
    ASSUME Typed, NEW j \in Deliveries, NEW k \in Kinds, Start(j, k)
    PROVE  RowTyped'
<1> DEFINE pc == CASE k \in {"deliver", "retry"} -> Sends(row)
                   [] k \in {"prepare", "select"} -> Prepares(row)
                   [] k = "review" -> IF Usable(row) THEN "reviewing" ELSE "looking"
                   [] OTHER -> "sending"
           g == [Idle EXCEPT !.kind = k, !.mine = row, !.status = status, !.pc = pc]
<1>1. Sends(row) \in Stages /\ Prepares(row) \in Stages
  BY DEF Sends, Prepares, Stages
<1>2. pc \in Stages
  BY <1>1 DEF Stages
<1> HIDE DEF pc
<1>3. g \in JobRecords /\ g.mine = row /\ g.to = 0
  BY <1>2, IdleTyped DEF JobRecords, Idle, Typed, RowTyped
<1>4. Set(j, g) /\ UNCHANGED <<row, crossed, remotes, status, lock>>
  BY DEF Start, Keeps, pc
<1>5. Len(remotes) \in Nat
  BY DEF Typed, RowTyped
<1> HIDE DEF g
<1> QED
  BY <1>3, <1>4, <1>5, GoesTyped DEF Typed, RowTyped

LEMMA LookTyped ==
    ASSUME Typed, NEW j \in Deliveries, Look(j)
    PROVE  RowTyped'
<1>1. CASE ill = << >> /\ Fails(j)
  BY <1>1, FailsTyped DEF Look, Typed
<1>2. CASE Set(j, [job[j] EXCEPT !.pc = "choosing", !.seen = ill]) /\ Keeps /\ UNCHANGED <<status, lock>>
  <2> DEFINE g == [job[j] EXCEPT !.pc = "choosing", !.seen = ill]
  <2>1. g \in JobRecords /\ g.mine = job[j].mine /\ g.to = job[j].to
    BY DEF Typed, PicturesTyped, RowTyped, JobRecords, Stages
  <2>2. UNCHANGED <<row, crossed, remotes>> /\ Len(remotes) \in Nat
    BY <1>2 DEF Look, Keeps, Typed, RowTyped
  <2>3. Set(j, g) /\ UNCHANGED <<status, lock>>
    BY <1>2
  <2> HIDE DEF g
  <2> QED
    BY <2>1, <2>2, <2>3, GoesTyped DEF Typed, RowTyped
<1> QED
  BY <1>1, <1>2 DEF Look

LEMMA PolicyTyped ==
    ASSUME NEW l \in Layouts, NEW cover \in DOMAIN l, NEW answer \in Answers(l, cover)
    PROVE  cover \in Pics /\ Policy(l, cover, answer) \in Seq(Pics)
<1> DEFINE inline == Policy(l, cover, answer)
<1>1. DOMAIN l \subseteq Pics /\ Placed(l) /\ IsFiniteSet(DOMAIN l)
  BY LayoutHas
<1>2. inline \in Seq(DOMAIN l \ {cover})
  BY <1>1, PolicyIsSound
<1> HIDE DEF inline
<1>3. Len(inline) \in Nat /\ \A i \in 1..Len(inline) : inline[i] \in Pics
  BY <1>1, <1>2
<1>4. inline \in Seq(Pics)
  BY <1>2, <1>3
<1> QED
  BY <1>1, <1>4 DEF inline

LEMMA ChooseTyped ==
    ASSUME Typed, NEW j \in Deliveries, NEW cover \in DOMAIN job[j].seen, NEW answer \in Answers(job[j].seen, cover), Choose(j, cover, answer)
    PROVE  RowTyped'
<1> DEFINE inline == Policy(job[j].seen, cover, answer)
           r == IF job[j].mine.state = "none" THEN row ELSE job[j].mine
           new == Chosen(r, cover, inline)
           pc == IF job[j].kind = "review" /\ ~job[j].sets THEN "reviewing" ELSE "checking"
           g == [job[j] EXCEPT !.mine = new, !.wrote = @ \cup {c \in Columns : new[c] # r[c]}, !.seen = << >>, !.pc = pc]
<1>1. job[j] \in JobRecords /\ job[j].seen \in Layouts /\ r \in PublicationRows /\ Len(remotes) \in Nat /\ r.remote <= Len(remotes)
  BY DEF Typed, RowTyped, JobRecords
<1>2. cover \in Pics /\ inline \in Seq(Pics)
  BY <1>1, PolicyTyped
<1> HIDE DEF inline, r
<1>3. new \in PublicationRows /\ new.remote = r.remote
  BY <1>1, <1>2, ChosenTyped
<1>4. Set(j, g) /\ UNCHANGED <<row, crossed, remotes, status>> /\ lock' \in Deliveries \cup {None}
  BY DEF Choose, Keeps, Typed, RowTyped, inline, r
<1> HIDE DEF new
<1>5. g \in JobRecords /\ g.mine = new /\ g.to = job[j].to
  BY <1>1, <1>3, IdleTyped DEF JobRecords, Stages, Idle
<1> HIDE DEF g
<1> QED
  BY <1>1, <1>3, <1>4, <1>5, GoesTyped DEF Typed, RowTyped

LEMMA ReviewTyped ==
    ASSUME Typed, NEW j \in Deliveries, Passes(j) \/ Searches(j) \/ Revises(j)
    PROVE  RowTyped'
<1>0. job[j] \in JobRecords /\ Len(remotes) \in Nat
  BY DEF Typed, RowTyped
<1>1. CASE Passes(j)
  <2> DEFINE m == IF job[j].expired THEN row ELSE job[j].mine
             g == [job[j] EXCEPT !.status = "ready", !.sets = TRUE, !.expired = FALSE, !.mine = m, !.pc = Sends(m)]
  <2>1. Sends(m) \in Stages
    BY DEF Sends, Prepares, Stages
  <2>2. m \in PublicationRows /\ m.remote <= Len(remotes)
    BY <1>0 DEF Typed, RowTyped, JobRecords
  <2>3. Set(j, g) /\ UNCHANGED <<row, crossed, remotes, status, lock>>
    BY <1>1 DEF Passes, Keeps
  <2> HIDE DEF m
  <2>4. g \in JobRecords /\ g.mine = m /\ g.to = job[j].to
    BY <1>0, <2>1, <2>2 DEF JobRecords, Statuses
  <2> HIDE DEF g
  <2> QED
    BY <1>0, <2>2, <2>3, <2>4, GoesTyped DEF Typed, RowTyped
<1>2. CASE Searches(j)
  <2>1. CASE Set(j, [job[j] EXCEPT !.pc = "revising"]) /\ Keeps /\ UNCHANGED <<lock, spent>>
    <3> DEFINE g == [job[j] EXCEPT !.pc = "revising"]
    <3>1. g \in JobRecords /\ g.mine = job[j].mine /\ g.to = job[j].to
      BY <1>0 DEF JobRecords, Stages
    <3>2. Set(j, g) /\ UNCHANGED <<row, crossed, remotes, status, lock>>
      BY <1>2, <2>1 DEF Searches, Keeps
    <3> HIDE DEF g
    <3> QED
      BY <1>0, <3>1, <3>2, GoesTyped DEF Typed, RowTyped
  <2>2. CASE row' = Stored(j) /\ Crosses(j, row' # row) /\ Set(j, [job[j] EXCEPT !.pc = "revising", !.wrote = {}])
    <3> DEFINE g == [job[j] EXCEPT !.pc = "revising", !.wrote = {}]
    <3>1. g \in JobRecords /\ g.mine = job[j].mine /\ g.to = job[j].to
      BY <1>0 DEF JobRecords, Stages
    <3>2. Stored(j) \in PublicationRows /\ Stored(j).remote <= Len(remotes)
      BY StoredBound DEF Typed
    <3>3. Set(j, g) /\ UNCHANGED <<remotes, status>> /\ lock' \in Deliveries \cup {None} /\ crossed' \in BOOLEAN
      BY <1>2, <2>2 DEF Searches, Crosses, Typed, RowTyped
    <3> HIDE DEF g
    <3> QED
      BY <1>0, <2>2, <3>1, <3>2, <3>3, StoresTyped DEF Typed, RowTyped
  <2>3. CASE Keeps /\ Set(j, [job[j] EXCEPT !.pc = "revising", !.wrote = {}, !.mine = row, !.status = status, !.expired = TRUE])
    <3> DEFINE g == [job[j] EXCEPT !.pc = "revising", !.wrote = {}, !.mine = row, !.status = status, !.expired = TRUE]
    <3>1. g \in JobRecords /\ g.mine = row /\ g.to = job[j].to
      BY <1>0 DEF Typed, RowTyped, JobRecords, Stages
    <3>2. Set(j, g) /\ UNCHANGED <<row, crossed, remotes, status>> /\ lock' \in Deliveries \cup {None}
      BY <1>2, <2>3 DEF Searches, Keeps, Typed, RowTyped
    <3> HIDE DEF g
    <3> QED
      BY <1>0, <3>1, <3>2, GoesTyped DEF Typed, RowTyped
  <2> QED
    BY <1>2, <2>1, <2>2, <2>3 DEF Searches
<1>3. CASE Revises(j)
  <2> DEFINE g == [job[j] EXCEPT !.pc = "reviewing", !.revised = TRUE]
  <2>1. g \in JobRecords /\ g.mine = job[j].mine /\ g.to = job[j].to
    BY <1>0 DEF JobRecords, Stages
  <2>2. Set(j, g) /\ UNCHANGED <<row, crossed, remotes, status, lock>>
    BY <1>3 DEF Revises, Keeps
  <2> HIDE DEF g
  <2> QED
    BY <1>0, <2>1, <2>2, GoesTyped DEF Typed, RowTyped
<1> QED
  BY <1>1, <1>2, <1>3

LEMMA UploadTyped ==
    ASSUME Typed, NEW j \in Deliveries, Check(j) \/ Upload(j) \/ UploadStops(j)
    PROVE  RowTyped'
<1>0. job[j] \in JobRecords /\ Len(remotes) \in Nat
  BY DEF Typed, RowTyped
<1>1. CASE Check(j)
  <2> DEFINE m == job[j].mine
             ended == [job[j] EXCEPT !.pc = IF job[j].kind \in {"prepare", "select"} THEN "ending" ELSE "sending"]
             up == [i \in DOMAIN m.inline |-> [pic |-> m.inline[i], at |-> ill[m.inline[i]].at]]
             g == [job[j] EXCEPT !.pc = "uploading", !.up = up]
  <2>1. CASE Fails(j)
    BY <1>1, <2>1, FailsTyped DEF Check, Typed
  <2>2. CASE Set(j, ended) /\ Keeps /\ UNCHANGED <<status, lock>>
    <3>1. ended \in JobRecords /\ ended.mine = m /\ ended.to = job[j].to
      BY <1>0 DEF JobRecords, Stages
    <3>2. Set(j, ended) /\ UNCHANGED <<row, crossed, remotes, status, lock>>
      BY <1>1, <2>2 DEF Check, Keeps
    <3> HIDE DEF ended
    <3> QED
      BY <1>0, <3>1, <3>2, GoesTyped DEF Typed, RowTyped
  <2>3. CASE {m.cover} \cup Range(m.inline) \subseteq DOMAIN ill /\ Set(j, g) /\ Keeps /\ UNCHANGED <<status, lock>>
    <3>1. m.inline \in Seq(Pics)
      BY <1>0 DEF JobRecords, PublicationRows
    <3>2. \A i \in DOMAIN m.inline : m.inline[i] \in Pics /\ m.inline[i] \in DOMAIN ill
      BY <2>3, <3>1 DEF Range
    <3>3. \A p \in DOMAIN ill : ill[p].at \in Nat
      <4>1. ill \in Layouts
        BY DEF Typed, PicturesTyped
      <4> QED
        BY <4>1, LayoutHas DEF Placed
    <3>4. up \in [1..Len(m.inline) -> Uploads] /\ Len(m.inline) \in Nat
      BY <3>1, <3>2, <3>3 DEF Uploads
    <3>5. up \in Seq(Uploads)
      <4> HIDE DEF up
      <4> QED
        BY <3>4
    <3>6. Set(j, g) /\ UNCHANGED <<row, crossed, remotes, status, lock>>
      BY <1>1, <2>3 DEF Check, Keeps
    <3> HIDE DEF up
    <3>7. g \in JobRecords /\ g.mine = m /\ g.to = job[j].to
      BY <1>0, <3>5 DEF JobRecords, Stages
    <3> HIDE DEF g
    <3> QED
      BY <1>0, <3>6, <3>7, GoesTyped DEF Typed, RowTyped
  <2> QED
    BY <1>1, <2>1, <2>2, <2>3 DEF Check
<1>2. CASE Upload(j)
  <2> DEFINE new == [job[j].mine EXCEPT !.state = "cover_uploaded", !.media = job[j].mine.cover, !.urls = job[j].up]
             g == [Flushed(j, new) EXCEPT !.pc = IF job[j].kind \in {"prepare", "select"} THEN "ending" ELSE "sending"]
  <2>1. CASE Fails(j)
    BY <1>2, <2>1, FailsTyped DEF Upload, Typed
  <2>2. CASE Writes(j, new) /\ Set(j, g) /\ Keeps /\ UNCHANGED status
    <3>1. new \in PublicationRows /\ new.remote = job[j].mine.remote
      BY <1>0 DEF JobRecords, PublicationRows, States
    <3>2. Set(j, g) /\ UNCHANGED <<row, crossed, remotes, status>> /\ Writes(j, new)
      BY <1>2, <2>2 DEF Upload, Keeps
    <3> HIDE DEF new
    <3>3. /\ Flushed(j, new) \in JobRecords /\ Flushed(j, new).mine = new /\ Flushed(j, new).to = job[j].to
          /\ lock' \in Deliveries \cup {None}
      BY <3>1, <3>2, FlushedTyped DEF Typed
    <3>4. g \in JobRecords /\ g.mine = new /\ g.to = job[j].to
      BY <3>3 DEF JobRecords, Stages
    <3> HIDE DEF g
    <3> QED
      BY <1>0, <3>1, <3>2, <3>3, <3>4, GoesTyped DEF Typed, RowTyped
  <2> QED
    BY <1>2, <2>1, <2>2 DEF Upload
<1>3. CASE UploadStops(j)
  BY <1>3, StopsTyped DEF UploadStops, Typed
<1> QED
  BY <1>1, <1>2, <1>3

LEMMA SendTyped ==
    ASSUME Typed, NEW j \in Deliveries, Resend(j) \/ \E left \in BOOLEAN : Send(j, left)
    PROVE  RowTyped'
<1>0. job[j] \in JobRecords /\ Len(remotes) \in Nat /\ job[j].mine.remote \in 0..Len(remotes) /\ remotes \in Seq(Remotes)
  BY DEF Typed, RowTyped, JobRecords, PublicationRows
<1>1. ASSUME NEW left \in BOOLEAN, Send(j, left) PROVE RowTyped'
  <2> DEFINE n == job[j].mine.remote
             content == Contents(j, left)
             g == [job[j] EXCEPT !.pc = "sent", !.to = IF n # 0 THEN n ELSE Len(remotes')]
  <2>1. content \in Remotes
    BY ContentsTyped
  <2> HIDE DEF content
  <2>2. /\ remotes' = IF n # 0 THEN [remotes EXCEPT ![n] = content] ELSE Append(remotes, content)
        /\ Set(j, g) /\ UNCHANGED <<row, status, lock>> /\ crossed' \in BOOLEAN
    BY <1>1 DEF Send, Crosses, Typed, RowTyped, content
  <2>3. remotes' \in Seq(Remotes) /\ Len(remotes') \in Nat /\ Len(remotes) <= Len(remotes')
    BY <1>0, <2>1, <2>2
  <2>4. g \in JobRecords /\ g.mine = job[j].mine /\ g.to = IF n # 0 THEN n ELSE Len(remotes')
    BY <1>0, <2>3 DEF JobRecords, Stages, PublicationRows
  <2> HIDE DEF g
  <2>5. g.to <= Len(remotes') /\ g.mine.remote <= Len(remotes')
    BY <1>0, <2>3, <2>4
  <2>6. lock' \in Deliveries \cup {None}
    BY <2>2 DEF Typed, RowTyped
  <2>7. RowTyped
    BY DEF Typed
  <2> QED
    BY <2>2, <2>3, <2>4, <2>5, <2>6, <2>7, GoesTyped
<1>2. CASE Resend(j)
  <2> DEFINE new == [job[j].mine EXCEPT !.state = "draft_failed"]
             g == [Flushed(j, new) EXCEPT !.pc = "sent", !.to = Len(remotes) + 1]
  <2>1. new \in PublicationRows /\ new.remote = job[j].mine.remote
    BY <1>0 DEF JobRecords, PublicationRows, States
  <2>2. /\ remotes' = Append(remotes, Contents(j, FALSE)) /\ Writes(j, new)
        /\ Set(j, g) /\ UNCHANGED <<row, status>> /\ crossed' \in BOOLEAN
    BY <1>2 DEF Resend, Crosses, Typed, RowTyped
  <2>3. remotes' \in Seq(Remotes) /\ Len(remotes') = Len(remotes) + 1
    <3> DEFINE content == Contents(j, FALSE)
    <3>1. content \in Remotes
      BY ContentsTyped
    <3>2. remotes' = Append(remotes, content)
      BY <2>2
    <3> HIDE DEF content
    <3> QED
      BY <1>0, <3>1, <3>2
  <2> HIDE DEF new
  <2>4. Flushed(j, new) \in JobRecords /\ Flushed(j, new).mine = new /\ lock' \in Deliveries \cup {None}
    BY <2>1, <2>2, FlushedTyped DEF Typed
  <2>5. g \in JobRecords /\ g.mine = new /\ g.to = Len(remotes) + 1
    <3>1. Len(remotes) + 1 \in Nat /\ "sent" \in Stages
      BY <1>0 DEF Stages
    <3> QED
      BY <2>4, <3>1 DEF JobRecords
  <2> HIDE DEF g
  <2>6. Len(remotes) <= Len(remotes') /\ g.to <= Len(remotes') /\ g.mine.remote <= Len(remotes')
    BY <1>0, <2>1, <2>3, <2>5
  <2>7. RowTyped
    BY DEF Typed
  <2> QED
    BY <2>2, <2>3, <2>4, <2>5, <2>6, <2>7, GoesTyped
<1> QED
  BY <1>1, <1>2

LEMMA MarkTyped ==
    ASSUME Typed, NEW j \in Deliveries, Mark(j)
    PROVE  RowTyped'
<1> DEFINE new == [job[j].mine EXCEPT !.state = "draft_created", !.remote = job[j].to]
           g == [Flushed(j, new) EXCEPT !.pc = "ending", !.status = "draftbox", !.sets = @ \/ job[j].status # "draftbox"]
<1>0. job[j] \in JobRecords /\ Len(remotes) \in Nat /\ job[j].to <= Len(remotes)
  BY DEF Typed, RowTyped
<1>1. new \in PublicationRows /\ new.remote = job[j].to
  BY <1>0 DEF JobRecords, PublicationRows, States
<1>2. Set(j, g) /\ UNCHANGED <<row, crossed, remotes, status>> /\ Writes(j, new)
  BY DEF Mark, Keeps
<1> HIDE DEF new
<1>3. /\ Flushed(j, new) \in JobRecords /\ Flushed(j, new).mine = new /\ Flushed(j, new).to = job[j].to
      /\ lock' \in Deliveries \cup {None}
  BY <1>1, <1>2, FlushedTyped DEF Typed
<1>4. g \in JobRecords /\ g.mine = new /\ g.to = job[j].to
  BY <1>3 DEF JobRecords, Stages, Statuses
<1> HIDE DEF g
<1> QED
  BY <1>0, <1>1, <1>2, <1>3, <1>4, GoesTyped DEF Typed, RowTyped

LEMMA DeliveryTyped ==
    ASSUME Typed, NEW j \in Deliveries, DeliveryActs(j)
    PROVE  Typed'
<1>1. PicturesTyped'
  <2>1. UNCHANGED <<assets, files, made, ill, fetched, gone, prefs>>
    BY DEF DeliveryActs, DeliveryStep, pictures, Start, Look, ChooseFails, Passes, Searches, Revises, Rejects, Check, Upload, UploadStops, SendStops,
           Stops, Mark, Commit, Crash, Resend, Send, Choose
  <2> QED
    BY <2>1 DEF Typed, PicturesTyped
<1>2. RowTyped'
  <2>1. CASE ChooseFails(j) \/ Rejects(j) \/ SendStops(j) \/ Commit(j) \/ Crash(j)
    BY <2>1, FailsTyped, EndsTyped, StopsTyped, RollsBackTyped DEF ChooseFails, Rejects, SendStops, Commit, Crash, Typed
  <2>2. CASE (\E k \in Kinds : Start(j, k)) \/ Look(j)
    BY <2>2, StartTyped, LookTyped
  <2>3. CASE \E cover \in DOMAIN job[j].seen : \E answer \in Answers(job[j].seen, cover) : Choose(j, cover, answer)
    BY <2>3, ChooseTyped
  <2>4. CASE Passes(j) \/ Searches(j) \/ Revises(j) \/ Mark(j)
    BY <2>4, ReviewTyped, MarkTyped
  <2>5. CASE Check(j) \/ Upload(j) \/ UploadStops(j)
    BY <2>5, UploadTyped
  <2>6. CASE Resend(j) \/ \E left \in BOOLEAN : Send(j, left)
    BY <2>6, SendTyped
  <2> QED
    BY <2>1, <2>2, <2>3, <2>4, <2>5, <2>6 DEF DeliveryActs
<1> QED
  BY <1>1, <1>2 DEF Typed

LEMMA NextIs == DANext => PictureStep \/ \E j \in Deliveries : DeliveryActs(j)
BY DEF DANext, PictureStep, DeliveryActs

LEMMA TypedInit == DAInit => Typed
<1> SUFFICES ASSUME DAInit PROVE Typed
  OBVIOUS
<1>1. << >> \in Layouts
  BY IdleTyped DEF JobRecords, Idle
<1>2. PicturesTyped
  BY <1>1, AssetsAssumption DEF DAInit, PicturesTyped, Preferences, Opt
<1>3. RowTyped
  <2>1. job \in [Deliveries -> JobRecords] /\ \A j \in Deliveries : job[j].mine.remote = 0 /\ job[j].to = 0
    BY IdleTyped DEF DAInit
  <2>2. row \in PublicationRows /\ row.remote = 0
    BY NoRowTyped DEF DAInit, NoRow
  <2>3. remotes \in Seq(Remotes) /\ Len(remotes) = 0
    BY DEF DAInit
  <2>4. status \in Statuses /\ lock \in Deliveries \cup {None} /\ crossed \in BOOLEAN
    BY DEF DAInit, Statuses
  <2> QED
    BY <2>1, <2>2, <2>3, <2>4 DEF RowTyped
<1> QED
  BY <1>2, <1>3 DEF Typed

LEMMA TypedNext == Typed /\ [DANext]_daVars => Typed'
<1> SUFFICES ASSUME Typed, [DANext]_daVars PROVE Typed'
  OBVIOUS
<1>1. CASE UNCHANGED daVars
  BY <1>1 DEF daVars, pictures, Typed, PicturesTyped, RowTyped
<1>2. CASE PictureStep
  BY <1>2, PictureStepTyped, PictureSettles, SettledTyped DEF Typed
<1>3. CASE \E j \in Deliveries : DeliveryActs(j)
  BY <1>3, DeliveryTyped
<1> QED
  BY <1>1, <1>2, <1>3, NextIs

\* The uploads a row records belong to its choice.
Owned(r) ==
    /\ r.urls # << >> => [i \in DOMAIN r.urls |-> r.urls[i].pic] = r.inline
    /\ r.media # None => r.media = r.cover
    /\ r.remote # 0 => r.cover # None
\* Of the drafts at WeChat, number n shows what r says; it does if r says that
\* it is delivered.
Shows(drafts, n, r) == n # 0 /\ drafts[n].cover = r.media /\ drafts[n].shown = Rendered(r.urls)
Told(drafts, r) == r.state = "draft_created" => r.media # None /\ Shows(drafts, r.remote, r)

\* A delivery g knows the row r as it is, but for what it writes itself, and
\* the status s unless it sets it.
Loaded(g, r, s) ==
    /\ \A c \in Columns \ g.wrote : g.mine[c] = r[c]
    /\ g.mine.state = "none" => r.state = "none"
    /\ g.sets => g.status # "open"
    /\ g.status # "open" /\ ~g.sets => s # "open"
    /\ g.mine.state = "draft_created" => g.status # "open"
\* What a delivery has when it is so far.
Stage(g, drafts) ==
    /\ g.kind # "none"
    /\ g.kind \in {"prepare", "select"} => g.pc \notin {"sending", "sent"}
    /\ g.pc \in {"reviewing", "revising"} => g.kind = "review" /\ ~g.sets
    /\ g.kind = "review" /\ ~g.sets =>
          g.pc \in {"looking", "choosing", "reviewing", "revising"} /\ g.mine.state # "draft_created"
    /\ g.pc \in {"sending", "sent"} => g.mine.media # None
    /\ g.pc \in {"checking", "uploading"} => g.mine.cover # None
    /\ g.pc = "uploading" => [i \in DOMAIN g.up |-> g.up[i].pic] = g.mine.inline
    /\ g.pc = "sent" => Shows(drafts, g.to, g.mine)
\* What is delivered is only sent again as it was.
Again(g, r) ==
    r.state = "draft_created" =>
        /\ g.kind \notin {"review", "create"}
        /\ g.kind \in {"deliver", "retry"} =>
              g.pc \in {"sending", "sent", "ending"} /\ g.mine.media = r.media /\ g.mine.urls = r.urls
Alone(g, r, drafts, s) == Owned(g.mine) /\ Told(drafts, g.mine) /\ Loaded(g, r, s) /\ Stage(g, drafts) /\ Again(g, r)

Undisturbed ==
    /\ Owned(row) /\ Told(remotes, row) /\ (row.state = "draft_created" => status # "open")
    /\ \A j \in Deliveries : job[j].pc # "idle" => Alone(job[j], row, remotes, status)
DAInv == Typed /\ (~crossed => Undisturbed)

LEMMA VoidedOwned ==
    ASSUME NEW r \in PublicationRows, Owned(r)
    PROVE  Owned(Voided(r)) /\ Voided(r).state # "draft_created" /\ (Voided(r).state = "none" => r.state = "none")
<1>1. CASE r.state = "none"
  BY <1>1 DEF Voided
<1>2. CASE r.state # "none" /\ r.remote # 0
  BY <1>2 DEF Voided, Owned, PublicationRows
<1>3. CASE r.state # "none" /\ r.remote = 0
  BY <1>3 DEF Voided, Owned, NoRow
<1> QED
  BY <1>1, <1>2, <1>3

LEMMA ChosenOwned ==
    ASSUME NEW r \in PublicationRows, Owned(r), NEW cover \in Pics, NEW inline \in Seq(Pics)
    PROVE  LET new == Chosen(r, cover, inline)
           IN /\ Owned(new) /\ new.cover # None
              /\ new = r \/ new.state = "assets_selected"
<1>1. cover # None
  BY AssetsAssumption DEF Pics
<1>2. CASE r.remote # 0 /\ r.state # "delivery_stale"
  BY <1>2 DEF Chosen, Owned
<1>3. CASE ~(r.remote # 0 /\ r.state # "delivery_stale")
  <2>1. Chosen(r, cover, inline) =
          [r EXCEPT !.state = "assets_selected", !.cover = cover, !.inline = inline,
                    !.media = IF r.cover = cover THEN r.media ELSE None, !.urls = IF r.inline = inline THEN r.urls ELSE << >>]
    BY <1>3 DEF Chosen, PublicationRows
  <2> QED
    BY <1>1, <2>1 DEF Owned, PublicationRows
<1> QED
  BY <1>2, <1>3

LEMMA StoredIsMine ==
    ASSUME RowTyped, NEW j \in Deliveries, Loaded(job[j], row, status)
    PROVE  Stored(j) = job[j].mine
<1> DEFINE m == job[j].mine
<1>1. m \in PublicationRows /\ m = [c \in Columns |-> m[c]]
  BY ColumnsAre DEF RowTyped, JobRecords, PublicationRows
<1>2. \A c \in Columns : (IF c \in job[j].wrote THEN m[c] ELSE row[c]) = m[c]
  BY DEF Loaded
<1> HIDE DEF m
<1> QED
  BY <1>1, <1>2 DEF Stored, m

LEMMA AloneStatus ==
    ASSUME NEW g, NEW r, NEW drafts, NEW s, NEW t, Alone(g, r, drafts, s), t = s \/ t # "open"
    PROVE  Alone(g, r, drafts, t)
BY DEF Alone, Loaded

LEMMA SettledUndisturbed ==
    ASSUME RowTyped, Undisturbed, ~crossed', Settled
    PROVE  Undisturbed'
<1>1. CASE Keeps /\ UNCHANGED status
  BY <1>1 DEF Settled, Keeps, Undisturbed
<1>2. CASE Voids
  <2>1. row \in PublicationRows /\ row' = Voided(row) /\ job' = job /\ \A j \in Deliveries : job[j].pc = "idle"
    BY <1>2 DEF Settled, Voids, RowTyped
  <2>2. Owned(row') /\ row'.state # "draft_created"
    BY <2>1, VoidedOwned DEF Undisturbed
  <2> QED
    BY <2>1, <2>2 DEF Undisturbed, Told
<1> QED
  BY <1>1, <1>2 DEF Settled

LEMMA GoesUndisturbed ==
    ASSUME RowTyped, Undisturbed, NEW j \in Deliveries, NEW g, Set(j, g), UNCHANGED <<row, status, remotes>>,
           Alone(g, row, remotes, status)
    PROVE  Undisturbed'
<1>1. ASSUME NEW k \in Deliveries, job'[k].pc # "idle" PROVE Alone(job'[k], row, remotes, status)
  <2>1. CASE k = j
    BY <2>1 DEF Set, RowTyped
  <2>2. CASE k # j
    <3>1. job'[k] = job[k]
      BY <2>2 DEF Set, RowTyped
    <3> QED
      BY <3>1, <1>1 DEF Undisturbed
  <2> QED
    BY <2>1, <2>2
<1> QED
  BY <1>1 DEF Undisturbed

LEMMA StoresUndisturbed ==
    ASSUME RowTyped, Undisturbed, NEW j \in Deliveries, NEW g, Set(j, g), UNCHANGED remotes, status' = status \/ status' # "open",
           g.pc = "idle" \/ Alone(g, row', remotes, status'),
           Owned(row'), Told(remotes, row'), row'.state = "draft_created" => status' # "open",
           row' = row \/ \A k \in Deliveries \ {j} : job[k].pc = "idle"
    PROVE  Undisturbed'
<1>1. ASSUME NEW k \in Deliveries, job'[k].pc # "idle" PROVE Alone(job'[k], row', remotes, status')
  <2>1. CASE k = j
    BY <1>1, <2>1 DEF Set, RowTyped
  <2>2. CASE k # j
    <3>1. job'[k] = job[k]
      BY <2>2 DEF Set, RowTyped
    <3>2. Alone(job[k], row, remotes, status) /\ row' = row
      BY <1>1, <2>2, <3>1 DEF Undisturbed
    <3> QED
      BY <3>1, <3>2, AloneStatus
  <2> QED
    BY <2>1, <2>2
<1> QED
  BY <1>1 DEF Undisturbed

LEMMA ClosesUndisturbed ==
    ASSUME RowTyped, Undisturbed, NEW j \in Deliveries, Set(j, Idle), UNCHANGED remotes, status' = status \/ status' # "open",
           Owned(row'), Told(remotes, row'), row'.state = "draft_created" => status' # "open",
           row' = row \/ \A k \in Deliveries \ {j} : job[k].pc = "idle"
    PROVE  Undisturbed'
<1>1. Idle.pc = "idle"
  BY DEF Idle
<1> QED
  BY <1>1, StoresUndisturbed

LEMMA EndsUndisturbed ==
    ASSUME RowTyped, Undisturbed, ~crossed', NEW j \in Deliveries, job[j].pc # "idle", UNCHANGED remotes, Ends(j)
    PROVE  Undisturbed'
<1>1. Alone(job[j], row, remotes, status)
  BY DEF Undisturbed
<1>2. row' = job[j].mine
  BY <1>1, StoredIsMine DEF Ends, Alone
<1>3. Owned(row') /\ Told(remotes, row')
  BY <1>1, <1>2 DEF Alone
<1>4. (status' = status \/ status' # "open") /\ (row'.state = "draft_created" => status' # "open")
  BY <1>1, <1>2 DEF Ends, Alone, Loaded
<1>5. row' = row \/ \A k \in Deliveries \ {j} : job[k].pc = "idle"
  BY DEF Ends, Crosses
<1> QED
  BY <1>3, <1>4, <1>5, ClosesUndisturbed DEF Ends

LEMMA RollsBackUndisturbed ==
    ASSUME RowTyped, Undisturbed, NEW j \in Deliveries, UNCHANGED remotes, RollsBack(j)
    PROVE  Undisturbed'
<1>1. Owned(row') /\ Told(remotes, row') /\ row' = row /\ status' = status /\ (row'.state = "draft_created" => status' # "open")
  BY DEF RollsBack, Keeps, Undisturbed
<1> QED
  BY <1>1, ClosesUndisturbed DEF RollsBack

LEMMA FailsUndisturbed ==
    ASSUME RowTyped, Undisturbed, ~crossed', NEW j \in Deliveries, job[j].pc # "idle", UNCHANGED remotes, Fails(j)
    PROVE  Undisturbed'
BY EndsUndisturbed, RollsBackUndisturbed DEF Fails

LEMMA StopsUndisturbed ==
    ASSUME RowTyped, Undisturbed, ~crossed', NEW j \in Deliveries, job[j].pc # "idle", UNCHANGED remotes, Stops(j)
    PROVE  Undisturbed'
<1>1. Alone(job[j], row, remotes, status) /\ job[j].mine \in PublicationRows
  BY DEF Undisturbed, RowTyped, JobRecords
<1>2. Recorded(j) = [job[j].mine EXCEPT !.state = "draft_failed"]
  BY <1>1, StoredIsMine DEF Recorded, Alone
<1>3. status' = status \/ status' # "open"
  BY <1>1 DEF Stops, Alone, Loaded
<1>4. row' = row \/ row' = [job[j].mine EXCEPT !.state = "draft_failed"]
  BY <1>2 DEF Stops
<1>5. Owned(row') /\ Told(remotes, row') /\ (row'.state = "draft_created" => status' # "open")
  <2>1. CASE row' = row
    BY <2>1, <1>3 DEF Undisturbed
  <2>2. CASE row' = [job[j].mine EXCEPT !.state = "draft_failed"]
    BY <2>2, <1>1 DEF Alone, Owned, Told, PublicationRows
  <2> QED
    BY <1>4, <2>1, <2>2
<1>6. row' = row \/ \A k \in Deliveries \ {j} : job[k].pc = "idle"
  BY DEF Stops, Crosses
<1> QED
  BY <1>3, <1>5, <1>6, ClosesUndisturbed DEF Stops

LEMMA StartUndisturbed ==
    ASSUME Typed, Undisturbed, NEW j \in Deliveries, NEW k \in Kinds, Start(j, k)
    PROVE  Undisturbed'
<1> DEFINE pc == CASE k \in {"deliver", "retry"} -> Sends(row)
                   [] k \in {"prepare", "select"} -> Prepares(row)
                   [] k = "review" -> IF Usable(row) THEN "reviewing" ELSE "looking"
                   [] OTHER -> "sending"
           g == [Idle EXCEPT !.kind = k, !.mine = row, !.status = status, !.pc = pc]
<1>1. /\ Set(j, g) /\ UNCHANGED <<row, status, remotes>> /\ RowTyped /\ row \in PublicationRows
      /\ k = "review" => status = "open"
      /\ k = "create" => row.remote = 0 /\ row.media # None
  BY DEF Start, Keeps, Typed, RowTyped
<1>2. Owned(row) /\ Told(remotes, row) /\ (row.state = "draft_created" => status # "open")
  BY DEF Undisturbed
<1>3. k \in {"deliver", "retry", "prepare", "select", "create", "review"}
  BY AssetsAssumption
<1>4. Prepares(row) \in {"checking", "looking"} /\ (Prepares(row) = "checking" => row.cover # None)
  BY DEF Prepares, Usable
<1>5. /\ Sends(row) \in {"sending", "checking", "looking"} /\ (Sends(row) = "sending" => row.media # None)
      /\ Sends(row) = "checking" => row.cover # None
      /\ row.state = "draft_created" => Sends(row) = "sending"
  BY <1>2, <1>4 DEF Sends, Told
<1>6. /\ pc \in {"sending", "checking", "looking", "reviewing"} /\ (pc = "sending" => row.media # None)
      /\ pc = "checking" => row.cover # None
      /\ k \in {"prepare", "select"} => pc \in {"checking", "looking"}
      /\ row.state = "draft_created" /\ k \in {"deliver", "retry"} => pc = "sending"
      /\ pc = "reviewing" => k = "review"
      /\ k = "review" => pc \in {"looking", "reviewing"}
  <2>1. CASE k \in {"deliver", "retry"}
    BY <2>1, <1>5
  <2>2. CASE k \in {"prepare", "select"}
    BY <2>2, <1>4
  <2>3. CASE k = "review"
    BY <2>3 DEF Usable
  <2>4. CASE k = "create"
    BY <2>4, <1>1
  <2> QED
    BY <1>3, <2>1, <2>2, <2>3, <2>4
<1> HIDE DEF pc
<1>7. g.kind = k /\ g.mine = row /\ g.status = status /\ g.pc = pc /\ g.sets = FALSE /\ g.wrote = {}
  BY DEF Idle
<1> HIDE DEF g
<1>8. Loaded(g, row, status)
  BY <1>2, <1>7 DEF Loaded
<1>9. Stage(g, remotes)
  <2>1. k = "review" => row.state # "draft_created"
    BY <1>1, <1>2
  <2> QED
    BY <1>3, <1>6, <1>7, <2>1 DEF Stage
<1>10. Again(g, row)
  BY <1>1, <1>2, <1>6, <1>7 DEF Again, Told, Shows
<1>11. Alone(g, row, remotes, status)
  BY <1>2, <1>7, <1>8, <1>9, <1>10 DEF Alone
<1> QED
  BY <1>1, <1>11, GoesUndisturbed

LEMMA LookUndisturbed ==
    ASSUME Typed, Undisturbed, ~crossed', NEW j \in Deliveries, Look(j)
    PROVE  Undisturbed'
<1> DEFINE g == [job[j] EXCEPT !.pc = "choosing", !.seen = ill]
<1>0. job[j] \in JobRecords /\ RowTyped /\ job[j].pc = "looking" /\ UNCHANGED remotes
  BY DEF Look, Typed, RowTyped
<1>1. Alone(job[j], row, remotes, status)
  BY <1>0 DEF Undisturbed
<1>2. CASE Fails(j)
  BY <1>0, <1>2, FailsUndisturbed
<1>3. CASE Set(j, g) /\ Keeps /\ UNCHANGED <<status, lock>>
  <2>1. Set(j, g) /\ UNCHANGED <<row, status, remotes>>
    BY <1>0, <1>3 DEF Keeps
  <2>2. /\ g.kind = job[j].kind /\ g.mine = job[j].mine /\ g.wrote = job[j].wrote /\ g.sets = job[j].sets
        /\ g.status = job[j].status /\ g.pc = "choosing"
    BY <1>0 DEF JobRecords
  <2> HIDE DEF g
  <2>3. Alone(g, row, remotes, status)
    BY <1>0, <1>1, <2>2 DEF Alone, Loaded, Stage, Again
  <2> QED
    BY <1>0, <2>1, <2>3, GoesUndisturbed
<1> QED
  BY <1>2, <1>3 DEF Look

LEMMA ChooseUndisturbed ==
    ASSUME Typed, Undisturbed, NEW j \in Deliveries, NEW cover \in DOMAIN job[j].seen, NEW answer \in Answers(job[j].seen, cover),
           Choose(j, cover, answer)
    PROVE  Undisturbed'
<1> DEFINE inline == Policy(job[j].seen, cover, answer)
           r == IF job[j].mine.state = "none" THEN row ELSE job[j].mine
           new == Chosen(r, cover, inline)
           pc == IF job[j].kind = "review" /\ ~job[j].sets THEN "reviewing" ELSE "checking"
           g == [job[j] EXCEPT !.mine = new, !.wrote = @ \cup {c \in Columns : new[c] # r[c]}, !.seen = << >>, !.pc = pc]
<1>0. job[j] \in JobRecords /\ RowTyped /\ job[j].pc = "choosing" /\ job[j].seen \in Layouts /\ r \in PublicationRows
  BY DEF Choose, Typed, RowTyped, JobRecords
<1>1. Alone(job[j], row, remotes, status) /\ Owned(row) /\ Told(remotes, row)
  BY <1>0 DEF Undisturbed
<1>2. cover \in Pics /\ inline \in Seq(Pics)
  BY <1>0, PolicyTyped
<1>3. Set(j, g) /\ UNCHANGED <<row, status, remotes>>
  BY DEF Choose, Keeps
<1>4. /\ Owned(r) /\ Told(remotes, r) /\ (r.state = "none" => row.state = "none")
      /\ r.state = "draft_created" => job[j].status # "open"
      /\ \A c \in Columns \ job[j].wrote : r[c] = row[c]
  BY <1>1 DEF Alone, Loaded
<1> HIDE DEF inline, r
<1>5. Owned(new) /\ new.cover # None /\ (new = r \/ new.state = "assets_selected")
  BY <1>0, <1>2, <1>4, ChosenOwned
<1> HIDE DEF new
<1>6. /\ g.kind = job[j].kind /\ g.mine = new /\ g.wrote = job[j].wrote \cup {c \in Columns : new[c] # r[c]}
      /\ g.sets = job[j].sets /\ g.status = job[j].status /\ g.pc = pc
  BY <1>0 DEF JobRecords
<1> HIDE DEF g
<1>7. Told(remotes, new)
  BY <1>4, <1>5 DEF Told
<1>8. Loaded(g, row, status)
  BY <1>1, <1>4, <1>5, <1>6 DEF Loaded, Alone
<1>9. Stage(g, remotes)
  <2>1. Stage(job[j], remotes) /\ Again(job[j], row)
    BY <1>1 DEF Alone
  <2>2. pc \in {"reviewing", "checking"} /\ (pc = "reviewing" <=> job[j].kind = "review" /\ ~job[j].sets)
    OBVIOUS
  <2>3. job[j].kind = "review" /\ ~job[j].sets => new.state # "draft_created"
    BY <1>4, <1>5, <2>1 DEF Stage, Again, r
  <2> HIDE DEF pc
  <2> QED
    BY <1>5, <1>6, <2>1, <2>2, <2>3 DEF Stage
<1>10. Again(g, row)
  BY <1>0, <1>1, <1>6 DEF Alone, Again
<1>11. Alone(g, row, remotes, status)
  BY <1>5, <1>6, <1>7, <1>8, <1>9, <1>10 DEF Alone
<1> QED
  BY <1>0, <1>3, <1>11, GoesUndisturbed

LEMMA SearchesUndisturbed ==
    ASSUME Typed, Undisturbed, ~crossed', NEW j \in Deliveries, Searches(j)
    PROVE  Undisturbed'
<1>0. /\ job[j] \in JobRecords /\ RowTyped /\ job[j].pc = "reviewing" /\ UNCHANGED <<status, remotes>>
      /\ job[j].mine \in PublicationRows
  BY DEF Searches, Typed, RowTyped, JobRecords
<1>1. Alone(job[j], row, remotes, status)
  BY <1>0 DEF Undisturbed
<1>2. job[j].kind = "review" /\ ~job[j].sets /\ job[j].mine.state # "draft_created" /\ row.state # "draft_created"
  BY <1>0, <1>1 DEF Alone, Stage, Again
<1>3. Owned(row) /\ Told(remotes, row)
  BY DEF Undisturbed
<1>4. CASE Set(j, [job[j] EXCEPT !.pc = "revising"]) /\ Keeps
  <2> DEFINE g == [job[j] EXCEPT !.pc = "revising"]
  <2>1. /\ g.kind = "review" /\ g.mine = job[j].mine /\ g.wrote = job[j].wrote /\ ~g.sets
        /\ g.status = job[j].status /\ g.pc = "revising" /\ g.sets = job[j].sets
    BY <1>0, <1>2 DEF JobRecords
  <2>2. Set(j, g) /\ UNCHANGED row
    BY <1>4 DEF Keeps
  <2> HIDE DEF g
  <2>3. Alone(g, row, remotes, status)
    BY <1>1, <1>2, <2>1 DEF Alone, Loaded, Stage, Again
  <2> QED
    BY <1>0, <2>2, <2>3, GoesUndisturbed
<1>5. CASE row' = Stored(j) /\ Crosses(j, row' # row) /\ Set(j, [job[j] EXCEPT !.pc = "revising", !.wrote = {}])
  <2> DEFINE g == [job[j] EXCEPT !.pc = "revising", !.wrote = {}]
  <2>1. row' = job[j].mine
    BY <1>0, <1>1, <1>5, StoredIsMine DEF Alone
  <2>2. /\ g.kind = "review" /\ g.mine = job[j].mine /\ g.wrote = {} /\ ~g.sets
        /\ g.status = job[j].status /\ g.pc = "revising" /\ g.sets = job[j].sets
    BY <1>0, <1>2 DEF JobRecords
  <2>3. Set(j, g)
    BY <1>5
  <2> HIDE DEF g
  <2>4. Loaded(g, row', status')
    BY <1>0, <1>1, <2>1, <2>2 DEF Alone, Loaded
  <2>5. Owned(row') /\ Told(remotes, row') /\ row'.state # "draft_created"
    BY <1>1, <1>2, <2>1 DEF Alone
  <2>6. Alone(g, row', remotes, status')
    BY <1>1, <1>2, <2>1, <2>2, <2>4, <2>5 DEF Alone, Stage, Again
  <2>7. row' = row \/ \A k \in Deliveries \ {j} : job[k].pc = "idle"
    BY <1>5 DEF Crosses
  <2> QED
    BY <1>0, <2>3, <2>5, <2>6, <2>7, StoresUndisturbed
<1>6. CASE Keeps /\ Set(j, [job[j] EXCEPT !.pc = "revising", !.wrote = {}, !.mine = row, !.status = status, !.expired = TRUE])
  <2> DEFINE g == [job[j] EXCEPT !.pc = "revising", !.wrote = {}, !.mine = row, !.status = status, !.expired = TRUE]
  <2>1. /\ g.kind = "review" /\ g.mine = row /\ g.wrote = {} /\ ~g.sets
        /\ g.status = status /\ g.pc = "revising"
    BY <1>0, <1>2 DEF JobRecords
  <2>2. Set(j, g) /\ UNCHANGED row
    BY <1>6 DEF Keeps
  <2> HIDE DEF g
  <2>3. Alone(g, row, remotes, status)
    BY <1>2, <1>3, <2>1 DEF Alone, Loaded, Stage, Again
  <2> QED
    BY <1>0, <2>2, <2>3, GoesUndisturbed
<1> QED
  BY <1>4, <1>5, <1>6 DEF Searches

LEMMA ReviewUndisturbed ==
    ASSUME Typed, Undisturbed, ~crossed', NEW j \in Deliveries, Passes(j) \/ Searches(j) \/ Revises(j)
    PROVE  Undisturbed'
<1>0. job[j] \in JobRecords /\ RowTyped /\ job[j].pc \in {"reviewing", "revising"} /\ UNCHANGED <<status, remotes>> /\ job[j].mine \in PublicationRows
  BY DEF Passes, Searches, Revises, Keeps, Typed, RowTyped, JobRecords
<1>1. Alone(job[j], row, remotes, status) /\ Owned(row) /\ Told(remotes, row)
  BY <1>0 DEF Undisturbed
<1>2. job[j].kind = "review" /\ ~job[j].sets /\ job[j].mine.state # "draft_created" /\ row.state # "draft_created"
  BY <1>0, <1>1 DEF Alone, Stage, Again
<1>3. CASE Passes(j)
  <2> DEFINE m == IF job[j].expired THEN row ELSE job[j].mine
             pc == Sends(m)
             g == [job[j] EXCEPT !.status = "ready", !.sets = TRUE, !.expired = FALSE, !.mine = m, !.pc = pc]
  <2>1. Set(j, g) /\ UNCHANGED row
    BY <1>3 DEF Passes, Keeps
  <2>2. /\ pc \in {"sending", "checking", "looking"} /\ (pc = "sending" => m.media # None)
        /\ pc = "checking" => m.cover # None
    BY DEF Sends, Prepares, Usable
  <2>3. /\ Owned(m) /\ Told(remotes, m) /\ m.state # "draft_created" /\ (m.state = "none" => row.state = "none")
        /\ \A c \in Columns \ job[j].wrote : m[c] = row[c]
    BY <1>1, <1>2 DEF Alone, Loaded
  <2> HIDE DEF pc, m
  <2>4. /\ g.kind = "review" /\ g.mine = m /\ g.wrote = job[j].wrote /\ g.sets = TRUE
        /\ g.status = "ready" /\ g.pc = pc
    BY <1>0, <1>2 DEF JobRecords
  <2> HIDE DEF g
  <2>5. Alone(g, row, remotes, status)
    BY <1>0, <1>2, <2>2, <2>3, <2>4 DEF Alone, Loaded, Stage, Again
  <2> QED
    BY <1>0, <2>1, <2>5, GoesUndisturbed
<1>4. CASE Searches(j)
  BY <1>4, SearchesUndisturbed
<1>5. CASE Revises(j)
  <2> DEFINE g == [job[j] EXCEPT !.pc = "reviewing", !.revised = TRUE]
  <2>1. Set(j, g) /\ UNCHANGED row
    BY <1>5 DEF Revises, Keeps
  <2>2. /\ g.kind = "review" /\ g.mine = job[j].mine /\ g.wrote = job[j].wrote /\ ~g.sets
        /\ g.status = job[j].status /\ g.pc = "reviewing" /\ g.sets = job[j].sets
    BY <1>0, <1>2 DEF JobRecords
  <2> HIDE DEF g
  <2>3. Alone(g, row, remotes, status)
    BY <1>1, <1>2, <2>2 DEF Alone, Loaded, Stage, Again
  <2> QED
    BY <1>0, <2>1, <2>3, GoesUndisturbed
<1> QED
  BY <1>3, <1>4, <1>5

LEMMA CheckUndisturbed ==
    ASSUME Typed, Undisturbed, ~crossed', NEW j \in Deliveries, Check(j)
    PROVE  Undisturbed'
<1> DEFINE m == job[j].mine
           pc == IF job[j].kind \in {"prepare", "select"} THEN "ending" ELSE "sending"
           ended == [job[j] EXCEPT !.pc = pc]
           up == [i \in DOMAIN m.inline |-> [pic |-> m.inline[i], at |-> ill[m.inline[i]].at]]
           g == [job[j] EXCEPT !.pc = "uploading", !.up = up]
           needed == (IF m.media = None THEN {m.cover} ELSE {}) \cup (IF NeedsInline(m) THEN Range(m.inline) ELSE {})
<1>0. job[j] \in JobRecords /\ RowTyped /\ job[j].pc = "checking" /\ UNCHANGED remotes /\ m.inline \in Seq(Pics)
  BY DEF Check, Typed, RowTyped, JobRecords, PublicationRows
<1>1. Alone(job[j], row, remotes, status)
  BY <1>0 DEF Undisturbed
<1>2. CASE Fails(j)
  BY <1>0, <1>2, FailsUndisturbed
<1>3. CASE needed = {} /\ Set(j, ended) /\ Keeps /\ UNCHANGED <<status, lock>>
  <2>1. Set(j, ended) /\ UNCHANGED <<row, status, remotes>> /\ m.media # None
    BY <1>0, <1>3 DEF Keeps
  <2>2. /\ ended.kind = job[j].kind /\ ended.mine = m /\ ended.wrote = job[j].wrote /\ ended.sets = job[j].sets
        /\ ended.status = job[j].status /\ ended.pc = pc
    BY <1>0 DEF JobRecords
  <2> HIDE DEF ended
  <2>3. Alone(ended, row, remotes, status)
    BY <1>0, <1>1, <2>1, <2>2 DEF Alone, Loaded, Stage, Again
  <2> QED
    BY <1>0, <2>1, <2>3, GoesUndisturbed
<1>4. CASE Set(j, g) /\ Keeps /\ UNCHANGED <<status, lock>>
  <2>1. Set(j, g) /\ UNCHANGED <<row, status, remotes>>
    BY <1>0, <1>4 DEF Keeps
  <2>2. [i \in DOMAIN up |-> up[i].pic] = m.inline
    <3>1. m.inline = [i \in DOMAIN m.inline |-> m.inline[i]]
      <4> HIDE DEF m
      <4> QED
        BY <1>0
    <3>2. DOMAIN up = DOMAIN m.inline /\ \A i \in DOMAIN m.inline : up[i].pic = m.inline[i]
      OBVIOUS
    <3> HIDE DEF m, up
    <3> QED
      BY <3>1, <3>2
  <2> HIDE DEF up
  <2>3. /\ g.kind = job[j].kind /\ g.mine = m /\ g.wrote = job[j].wrote /\ g.sets = job[j].sets
        /\ g.status = job[j].status /\ g.pc = "uploading" /\ g.up = up
    BY <1>0 DEF JobRecords
  <2> HIDE DEF g
  <2>4. Alone(g, row, remotes, status)
    BY <1>0, <1>1, <2>2, <2>3 DEF Alone, Loaded, Stage, Again
  <2> QED
    BY <1>0, <2>1, <2>4, GoesUndisturbed
<1> QED
  BY <1>2, <1>3, <1>4 DEF Check

LEMMA UploadUndisturbed ==
    ASSUME Typed, Undisturbed, ~crossed', NEW j \in Deliveries, Upload(j)
    PROVE  Undisturbed'
<1> DEFINE m == job[j].mine
           new == [m EXCEPT !.state = "cover_uploaded", !.media = m.cover, !.urls = job[j].up]
           pc == IF job[j].kind \in {"prepare", "select"} THEN "ending" ELSE "sending"
           g == [Flushed(j, new) EXCEPT !.pc = pc]
<1>0. job[j] \in JobRecords /\ RowTyped /\ job[j].pc = "uploading" /\ UNCHANGED remotes /\ m \in PublicationRows
  BY DEF Upload, Typed, RowTyped, JobRecords
<1>1. Alone(job[j], row, remotes, status)
  BY <1>0 DEF Undisturbed
<1>2. CASE Fails(j)
  BY <1>0, <1>2, FailsUndisturbed
<1>3. CASE Set(j, g) /\ Keeps /\ UNCHANGED status
  <2>1. Set(j, g) /\ UNCHANGED <<row, status, remotes>>
    BY <1>0, <1>3 DEF Keeps
  <2>2. /\ new.state = "cover_uploaded" /\ new.media = m.cover /\ new.cover = m.cover /\ new.urls = job[j].up
        /\ new.inline = m.inline /\ new.remote = m.remote
    BY <1>0 DEF PublicationRows
  <2> HIDE DEF new
  <2>3. /\ g.kind = job[j].kind /\ g.mine = new /\ g.wrote = job[j].wrote \cup {c \in Columns : new[c] # m[c]}
        /\ g.sets = job[j].sets /\ g.status = job[j].status /\ g.pc = pc
    BY <1>0 DEF JobRecords, Flushed
  <2> HIDE DEF g
  <2>4. m.cover # None /\ [i \in DOMAIN job[j].up |-> job[j].up[i].pic] = m.inline
    BY <1>0, <1>1 DEF Alone, Stage
  <2>5. Owned(new) /\ Told(remotes, new)
    BY <2>2, <2>4 DEF Owned, Told
  <2>6. Loaded(g, row, status)
    BY <1>1, <2>2, <2>3 DEF Alone, Loaded
  <2>7. Stage(g, remotes) /\ Again(g, row)
    BY <1>0, <1>1, <2>2, <2>3, <2>4 DEF Alone, Stage, Again
  <2>8. Alone(g, row, remotes, status)
    BY <2>3, <2>5, <2>6, <2>7 DEF Alone
  <2> QED
    BY <1>0, <2>1, <2>8, GoesUndisturbed
<1> QED
  BY <1>2, <1>3 DEF Upload

\* A delivery that sends alone.
LEMMA SendsUndisturbed ==
    ASSUME RowTyped, Undisturbed, NEW j \in Deliveries, NEW g, Set(j, g), UNCHANGED <<row, status>>,
           \A k \in Deliveries \ {j} : job[k].pc = "idle",
           Told(remotes', row), Alone(g, row, remotes', status)
    PROVE  Undisturbed'
<1>1. ASSUME NEW k \in Deliveries, job'[k].pc # "idle" PROVE Alone(job'[k], row, remotes', status)
  <2>1. k = j
    BY <1>1 DEF Set, RowTyped
  <2> QED
    BY <2>1 DEF Set, RowTyped
<1> QED
  BY <1>1 DEF Undisturbed

LEMMA SendUndisturbed ==
    ASSUME Typed, Undisturbed, ~crossed', NEW j \in Deliveries, NEW left \in BOOLEAN, Send(j, left)
    PROVE  Undisturbed'
<1> DEFINE m == job[j].mine
           content == Contents(j, left)
           to == IF m.remote # 0 THEN m.remote ELSE Len(remotes')
           g == [job[j] EXCEPT !.pc = "sent", !.to = to]
<1>0. /\ job[j] \in JobRecords /\ RowTyped /\ job[j].pc = "sending" /\ m \in PublicationRows /\ row \in PublicationRows
      /\ remotes \in Seq(Remotes)
      /\ m.remote \in 0..Len(remotes) /\ row.remote \in 0..Len(remotes) /\ Len(remotes) \in Nat
  <2>1. job[j].pc = "sending"
    BY DEF Send
  <2>2. job[j] \in JobRecords /\ RowTyped
    BY DEF Typed, RowTyped
  <2> QED
    BY <2>1, <2>2 DEF RowTyped, JobRecords, PublicationRows
<1>1. Alone(job[j], row, remotes, status) /\ Told(remotes, row)
  BY <1>0 DEF Undisturbed
<1>2. /\ remotes' = IF m.remote # 0 THEN [remotes EXCEPT ![m.remote] = content] ELSE Append(remotes, content)
      /\ Set(j, g) /\ UNCHANGED <<row, status>> /\ \A k \in Deliveries \ {j} : job[k].pc = "idle"
  BY DEF Send, Crosses
<1>3. content.cover = m.media /\ content.shown = Rendered(m.urls) /\ content \in Remotes
  BY ContentsTyped DEF Contents, Content
<1> HIDE DEF content
<1>4. /\ to # 0 /\ remotes'[to] = content
      /\ \A n \in 1..Len(remotes) : n # to => remotes'[n] = remotes[n]
  BY <1>0, <1>2, <1>3
<1> HIDE DEF to
<1>5. Shows(remotes', to, m)
  BY <1>3, <1>4 DEF Shows
<1>6. Told(remotes', m)
  <2>1. ASSUME m.state = "draft_created" PROVE to = m.remote
    BY <1>1, <2>1 DEF Alone, Told, Shows, to
  <2> QED
    BY <1>0, <1>1, <1>5, <2>1 DEF Alone, Stage, Told
<1>7. Told(remotes', row)
  <2>1. SUFFICES ASSUME row.state = "draft_created" PROVE row.media # None /\ Shows(remotes', row.remote, row)
    BY DEF Told
  <2>2. row.media # None /\ Shows(remotes, row.remote, row)
    BY <1>1, <2>1 DEF Told
  <2>3. CASE row.remote = to
    <3>1. job[j].kind \in {"deliver", "retry"}
      BY <1>0, <1>1, <2>1, AssetsAssumption DEF Alone, Stage, Again, JobRecords
    <3>2. m.media = row.media /\ m.urls = row.urls
      BY <1>1, <2>1, <3>1 DEF Alone, Again
    <3> QED
      BY <1>5, <2>2, <2>3, <3>2 DEF Shows
  <2>4. CASE row.remote # to
    <3>1. row.remote \in 1..Len(remotes)
      BY <1>0, <2>2 DEF Shows
    <3> QED
      BY <1>4, <2>2, <2>4, <3>1 DEF Shows
  <2> QED
    BY <2>3, <2>4
<1>8. /\ g.kind = job[j].kind /\ g.mine = m /\ g.wrote = job[j].wrote /\ g.sets = job[j].sets
      /\ g.status = job[j].status /\ g.pc = "sent" /\ g.to = to
  BY <1>0 DEF JobRecords
<1> HIDE DEF g
<1>9. Alone(g, row, remotes', status)
  BY <1>0, <1>1, <1>5, <1>6, <1>8 DEF Alone, Loaded, Stage, Again
<1> QED
  BY <1>0, <1>2, <1>7, <1>9, SendsUndisturbed

LEMMA ResendUndisturbed ==
    ASSUME Typed, Undisturbed, ~crossed', NEW j \in Deliveries, Resend(j)
    PROVE  Undisturbed'
<1> DEFINE m == job[j].mine
           content == Contents(j, FALSE)
           to == Len(remotes) + 1
           new == [m EXCEPT !.state = "draft_failed"]
           g == [Flushed(j, new) EXCEPT !.pc = "sent", !.to = to]
<1>0. /\ job[j] \in JobRecords /\ RowTyped /\ job[j].pc = "sending" /\ m \in PublicationRows /\ row \in PublicationRows
      /\ remotes \in Seq(Remotes)
      /\ row.remote \in 0..Len(remotes) /\ Len(remotes) \in Nat
  <2>1. job[j].pc = "sending"
    BY DEF Resend
  <2>2. job[j] \in JobRecords /\ RowTyped
    BY DEF Typed, RowTyped
  <2> QED
    BY <2>1, <2>2 DEF RowTyped, JobRecords, PublicationRows
<1>1. Alone(job[j], row, remotes, status) /\ Told(remotes, row)
  BY <1>0 DEF Undisturbed
<1>2. /\ remotes' = Append(remotes, content)
      /\ Set(j, g) /\ UNCHANGED <<row, status>> /\ \A k \in Deliveries \ {j} : job[k].pc = "idle"
  BY DEF Resend, Crosses
<1>3. content.cover = m.media /\ content.shown = Rendered(m.urls) /\ content \in Remotes
  BY ContentsTyped DEF Contents, Content
<1> HIDE DEF content
<1>4. to # 0 /\ remotes'[to] = content /\ \A n \in 1..Len(remotes) : remotes'[n] = remotes[n]
  BY <1>0, <1>2, <1>3
<1> HIDE DEF to
<1>5. Told(remotes', row)
  BY <1>0, <1>1, <1>4 DEF Told, Shows
<1>6. new.state = "draft_failed" /\ \A c \in Columns \ {"state"} : new[c] = m[c]
  BY <1>0, ColumnsAre DEF PublicationRows
<1>7. new.media = m.media /\ new.urls = m.urls /\ new.cover = m.cover /\ new.inline = m.inline /\ new.remote = m.remote
  BY <1>6, ColumnsAre
<1> HIDE DEF new
<1>8. /\ g.kind = job[j].kind /\ g.mine = new /\ g.wrote = job[j].wrote \cup {c \in Columns : new[c] # m[c]}
      /\ g.sets = job[j].sets /\ g.status = job[j].status /\ g.pc = "sent" /\ g.to = to
  BY <1>0 DEF JobRecords, Flushed
<1> HIDE DEF g
<1>9. Owned(new) /\ Told(remotes', new) /\ Shows(remotes', to, new)
  BY <1>1, <1>3, <1>4, <1>6, <1>7 DEF Alone, Owned, Told, Shows
<1>10. Loaded(g, row, status)
  BY <1>1, <1>6, <1>8 DEF Alone, Loaded
<1>11. Stage(g, remotes') /\ Again(g, row)
  BY <1>0, <1>1, <1>7, <1>8, <1>9 DEF Alone, Stage, Again
<1>12. Alone(g, row, remotes', status)
  BY <1>8, <1>9, <1>10, <1>11 DEF Alone
<1> QED
  BY <1>0, <1>2, <1>5, <1>12, SendsUndisturbed

LEMMA MarkUndisturbed ==
    ASSUME Typed, Undisturbed, NEW j \in Deliveries, Mark(j)
    PROVE  Undisturbed'
<1> DEFINE m == job[j].mine
           new == [m EXCEPT !.state = "draft_created", !.remote = job[j].to]
           sets == job[j].sets \/ job[j].status # "draftbox"
           g == [Flushed(j, new) EXCEPT !.pc = "ending", !.status = "draftbox", !.sets = @ \/ job[j].status # "draftbox"]
<1>0. job[j] \in JobRecords /\ RowTyped /\ job[j].pc = "sent" /\ UNCHANGED <<row, status, remotes>> /\ m \in PublicationRows
  BY DEF Mark, Keeps, Typed, RowTyped, JobRecords
<1>1. Alone(job[j], row, remotes, status)
  BY <1>0 DEF Undisturbed
<1>2. Set(j, g)
  BY DEF Mark
<1>3. /\ new.state = "draft_created" /\ new.remote = job[j].to /\ new.media = m.media /\ new.urls = m.urls
      /\ new.cover = m.cover /\ new.inline = m.inline
  BY <1>0 DEF PublicationRows
<1> HIDE DEF new
<1>4. /\ g.kind = job[j].kind /\ g.mine = new /\ g.wrote = job[j].wrote \cup {c \in Columns : new[c] # m[c]}
      /\ g.sets = sets /\ g.status = "draftbox" /\ g.pc = "ending"
  BY <1>0 DEF JobRecords, Flushed
<1> HIDE DEF g
<1>5. m.media # None /\ Shows(remotes, job[j].to, m)
  BY <1>0, <1>1 DEF Alone, Stage
<1>6. Owned(new) /\ Told(remotes, new)
  BY <1>1, <1>3, <1>5 DEF Alone, Owned, Told, Shows
<1>7. Loaded(g, row, status)
  BY <1>1, <1>3, <1>4 DEF Alone, Loaded
<1>8. Stage(g, remotes) /\ Again(g, row)
  BY <1>0, <1>1, <1>3, <1>4 DEF Alone, Stage, Again
<1>9. Alone(g, row, remotes, status)
  BY <1>4, <1>6, <1>7, <1>8 DEF Alone
<1> QED
  BY <1>0, <1>2, <1>9, GoesUndisturbed

LEMMA DeliveryUndisturbed ==
    ASSUME Typed, Undisturbed, ~crossed', NEW j \in Deliveries, DeliveryActs(j)
    PROVE  Undisturbed'
<1>0. RowTyped
  BY DEF Typed
<1>1. CASE (\E k \in Kinds : Start(j, k)) \/ Look(j)
  BY <1>1, StartUndisturbed, LookUndisturbed
<1>2. CASE \E cover \in DOMAIN job[j].seen : \E answer \in Answers(job[j].seen, cover) : Choose(j, cover, answer)
  BY <1>2, ChooseUndisturbed
<1>3. CASE Passes(j) \/ Searches(j) \/ Revises(j) \/ Mark(j)
  BY <1>3, ReviewUndisturbed, MarkUndisturbed
<1>4. CASE Check(j) \/ Upload(j)
  BY <1>4, CheckUndisturbed, UploadUndisturbed
<1>5. CASE Resend(j) \/ \E left \in BOOLEAN : Send(j, left)
  BY <1>5, SendUndisturbed, ResendUndisturbed
<1>6. CASE ChooseFails(j) \/ Rejects(j) \/ Commit(j)
  BY <1>0, <1>6, FailsUndisturbed, EndsUndisturbed DEF ChooseFails, Rejects, Commit
<1>7. CASE UploadStops(j) \/ SendStops(j)
  BY <1>0, <1>7, StopsUndisturbed DEF UploadStops, SendStops
<1>8. CASE Crash(j)
  BY <1>0, <1>8, RollsBackUndisturbed DEF Crash
<1> QED
  BY <1>1, <1>2, <1>3, <1>4, <1>5, <1>6, <1>7, <1>8 DEF DeliveryActs

\* What was crossed stays so.
LEMMA CrossedStays ==
    ASSUME Typed, DANext, ~crossed'
    PROVE  ~crossed
<1>1. CASE PictureStep
  BY <1>1, PictureSettles DEF Settled, Keeps, Voids
<1>2. ASSUME NEW j \in Deliveries, DeliveryActs(j) PROVE ~crossed
  BY <1>2 DEF DeliveryActs, Start, Look, ChooseFails, Passes, Searches, Revises, Rejects, Check, Upload, UploadStops, SendStops, Stops, Mark, Commit,
     Crash, Resend, Send, Choose, Fails, Ends, RollsBack, Crosses, Keeps
<1> QED
  BY <1>1, <1>2, NextIs

LEMMA DAInvInit == DAInit => DAInv
<1> SUFFICES ASSUME DAInit PROVE DAInv
  OBVIOUS
<1>1. Undisturbed
  BY IdleTyped DEF DAInit, Undisturbed, Owned, Told, NoRow
<1> QED
  BY <1>1, TypedInit DEF DAInv

LEMMA DAInvNext == DAInv /\ [DANext]_daVars => DAInv'
<1> SUFFICES ASSUME DAInv, [DANext]_daVars PROVE DAInv'
  OBVIOUS
<1>1. Typed'
  BY TypedNext DEF DAInv
<1>2. ASSUME ~crossed' PROVE Undisturbed'
  <2>1. CASE UNCHANGED daVars
    BY <1>2, <2>1 DEF daVars, DAInv, Undisturbed
  <2>2. CASE PictureStep
    <3>1. ~crossed
      BY <1>2, <2>2, PictureSettles DEF Settled, Keeps, Voids
    <3> QED
      BY <1>2, <2>2, <3>1, PictureSettles, SettledUndisturbed DEF DAInv, Typed
  <2>3. ASSUME NEW j \in Deliveries, DeliveryActs(j), DANext PROVE Undisturbed'
    BY <1>2, <2>3, CrossedStays, DeliveryUndisturbed DEF DAInv
  <2> QED
    BY <2>1, <2>2, <2>3, NextIs
<1> QED
  BY <1>1, <1>2 DEF DAInv

\* The types, and undisturbed rows: through the page, the tools, the picture jobs and every
\* step of services/auto_delivery.py, the inductive invariant holds.
THEOREM DAInvariant == DASpec => []DAInv
BY DAInvInit, DAInvNext, PTL DEF DASpec

\* Pictures made, their assets and places, the publication row, the drafts at WeChat and the
\* holder of the row keep their types, for any number of pictures, paragraphs and deliveries.
THEOREM DeliveryTypes == DASpec => []DATypeOK
<1>1. DAInv => DATypeOK
  <2> SUFFICES ASSUME DAInv PROVE DATypeOK
    OBVIOUS
  <2>1. \A p \in DOMAIN ill : ill[p] \in [cover : BOOLEAN, at : Places]
    BY LayoutHas DEF DAInv, Typed, PicturesTyped, Spots
  <2>2. row.remote \in 0..Len(remotes)
    BY DEF DAInv, Typed, RowTyped, PublicationRows
  <2> QED
    BY <2>1, <2>2 DEF DAInv, Typed, PicturesTyped, RowTyped, DATypeOK
<1> QED
  BY <1>1, DAInvariant, PTL

\* The draft at WeChat that a delivered row names shows the cover and the pictures the row says
\* were uploaded, through failed updates that make another draft, rollbacks and crashes,
\* until somebody changes the row while a delivery that has loaded it is under way.
THEOREM RecordedIsDelivered == DASpec => []DeliveredAsRecorded
<1>1. DAInv => DeliveredAsRecorded
  BY DEF DAInv, Undisturbed, Told, Shows, DeliveredAsRecorded
<1> QED
  BY <1>1, DAInvariant, PTL

\* The uploads that prepare_agent_selected_wechat_assets may reuse are those of the cover and of
\* the pictures the row has chosen, whatever was chosen, refused and made void before.
THEOREM UploadsBelong == DASpec => []UploadsAreOfTheChoice
<1>1. DAInv => UploadsAreOfTheChoice
  BY DEF DAInv, Undisturbed, Owned, UploadsAreOfTheChoice
<1> QED
  BY <1>1, DAInvariant, PTL

\* _apply_selection_policy, for any pictures, any number of paragraphs and whatever the model
\* names: one picture in a paragraph, no cover, no screenshot left out but for another one, and
\* fewer than the minimum only if every paragraph with a picture has one of the choice.
THEOREM ChoiceIsSound == DASpec => []SoundChoice
<1>1. DAInv => SoundChoice
  <2> SUFFICES ASSUME DAInv, NEW cover \in DOMAIN ill, NEW answer \in Answers(ill, cover)
               PROVE  Sound(ill, cover, Policy(ill, cover, answer))
    BY DEF SoundChoice, Sound
  <2>1. Placed(ill) /\ IsFiniteSet(DOMAIN ill)
    BY LayoutHas DEF DAInv, Typed, PicturesTyped
  <2> QED
    BY <2>1, PolicyIsSound
<1> QED
  BY <1>1, DAInvariant, PTL
=============================================================================
