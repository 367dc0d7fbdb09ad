---------------------------- MODULE RewriteReview ----------------------------
(***************************************************************************)
(* Who may write the body of one draft, and when its review starts.        *)
(*                                                                         *)
(* Messages of the chat ask for rewrites, pictures and reviews of the      *)
(* draft, by a tool the agent calls (agent_tools/draft_actions.py, a       *)
(* transaction of its own) or by the dispatch itself when the agent has    *)
(* only named the intent (services/chat_dispatch.py).  A rewrite claims    *)
(* the draft in the row of its chat run and is turned away when another    *)
(* run holds it; a review asked for during a rewrite, or while pictures    *)
(* are made, leaves a marker (services/pending_reviews.py) which the job   *)
(* it waits for launches.  The jobs run in worker.py.                      *)
(*                                                                         *)
(* Left out: the contents; the tasks of the session (SessionTasks); what a *)
(* review does to the rows of the draft (DraftLifecycle); the review that  *)
(* a finalizer makes itself when the run was started with auto_review.     *)
(* Enqueueing a job and committing the rows it needs is one step.          *)
(***************************************************************************)
EXTENDS Naturals, FiniteSets

CONSTANTS Runs,       \* chat runs: the receipt run of a message, or a spare row
          Origin,     \* the generation run the draft came from
          HasOrigin,  \* whether the draft still has one (older drafts do not)
          Requests,   \* what is asked for: "rewrite", "review", "pictures", "web"
          Modes,      \* source modes of a rewrite: "auto", "snapshot"
          Failures,   \* whether jobs and dispatches may fail
          Sweeps,     \* whether runs nobody works for are reconciled
          MaxJobs,    \* bound on rewrite jobs ever enqueued
          MaxReviews, \* bound on review rows ever created
          MaxCalls,   \* bound on tools called for one message
          MaxVersion  \* bound on the versions of the draft

ASSUME RewriteReviewAssumption ==
    /\ Origin \notin Runs /\ "none" \notin Runs \cup {Origin}
    /\ HasOrigin \in BOOLEAN /\ Failures \in BOOLEAN /\ Sweeps \in BOOLEAN
    /\ Modes \subseteq {"auto", "snapshot"}
    /\ Requests \subseteq {"rewrite", "review", "pictures", "web"}
    /\ MaxJobs \in Nat /\ MaxReviews \in Nat /\ MaxCalls \in Nat /\ MaxVersion \in Nat

AllRuns == Runs \cup {Origin}
Jobs    == 1..MaxJobs
Reviews == 1..MaxReviews

Run == [status : {"none", "running", "completed", "failed"},
        target : BOOLEAN,   \* target_draft_id is the draft
        job    : BOOLEAN]   \* rewrite_job_id is set

Job == [run : AllRuns \cup {"none"},
        phase : {"free", "queued", "generating", "launching", "closed"}]

ActiveReview == {"queued", "running", "revising"}
Review == [status : {"none", "passed", "failed"} \cup ActiveReview,
           deliver : BOOLEAN, revise : BOOLEAN,
           run : AllRuns \cup {"none"},
           behind : SUBSET Jobs,   \* history: rewrites of others under way when it was asked for
           launched : BOOLEAN,     \* history: whether it waited as a marker
           delivered : BOOLEAN]

NoMarker == [kind |-> "none", deliver |-> FALSE, revise |-> FALSE, run |-> "none", behind |-> {}]
Marker == [kind : {"none", "pending"}, deliver : BOOLEAN, revise : BOOLEAN,
           run : AllRuns \cup {"none"}, behind : SUBSET Jobs]

VARIABLES
    run,        \* chat_agent_runs rows
    turn,       \* per run: its message is "idle" (not sent), "open" (being dispatched), "over"
    called,     \* per run: tools called for the message
    handled,    \* per run: whether run_auto_review was one of them
    old,        \* runs that began longer ago than the limit of a rewrite (within_seconds)
    jobs,       \* process_draft_regeneration_job jobs, in the order of enqueueing
    images,     \* runs with a queued or running picture of the draft
    finalizers, \* runs for which process_collection_finalizer is queued
    review,     \* auto_review_runs rows of the draft, in the order of creation
    marker,     \* the app setting pending.auto_review.<draft>
    promised,   \* history: reviews of which a user was told that passing delivers
    version     \* version of the draft

vars == <<run, turn, called, handled, old, jobs, images, finalizers, review, marker, promised, version>>
turnVars == <<turn, called, handled, old>>
reviewVars == <<review, marker, promised>>

Init ==
    /\ run = [r \in AllRuns |-> [status |-> IF r = Origin /\ HasOrigin THEN "completed" ELSE "none",
                                 target |-> FALSE, job |-> FALSE]]
    /\ turn = [r \in Runs |-> "idle"]
    /\ called = [r \in Runs |-> 0]
    /\ handled = [r \in Runs |-> FALSE] /\ old = {}
    /\ jobs = [j \in Jobs |-> [run |-> "none", phase |-> "free"]]
    /\ images = {} /\ finalizers = {}
    /\ review = [v \in Reviews |-> [status |-> "none", deliver |-> FALSE, revise |-> FALSE,
                                    run |-> "none", behind |-> {}, launched |-> FALSE,
                                    delivered |-> FALSE]]
    /\ marker = NoMarker /\ promised = {} /\ version = 0

---------------------------------------------------------------------------
\* Rows of runs.

\* find_active_regeneration_run: some other running run claims the draft.  A claim of a run
\* that began too long ago is passed over, whether its job still works or not: the clock is
\* that of the message, and the dispatch and the queue take their part of it.
Claims(r) == run[r].status = "running" /\ run[r].target
Seen(r) == Claims(r) /\ r \notin old
ActiveRewrite(self) == \E r \in AllRuns \ {self} : Seen(r)

Finished(rows, r, status) ==
    IF r = "none" THEN rows ELSE [rows EXCEPT ![r] = [status |-> status, target |-> FALSE, job |-> FALSE]]

\* _task_run: the receipt run while it is running, a new row otherwise.
TaskRun(r, c) == IF run[r].status = "running" THEN c = r
                 ELSE c \in Runs /\ run[c].status = "none" /\ turn[c] = "idle"

Opened(rows, c) == [rows EXCEPT ![c].status = IF @ = "none" THEN "running" ELSE @]
Claimed(rows, c) == [rows EXCEPT ![c].target = TRUE]
Reopened(rows) == [rows EXCEPT ![Origin].status = "running"]

\* The rows once the rewrite asked for by chat run c is enqueued: with an origin the
\* chat run is closed, and mark_rewrite_job_enqueued writes the claim back to it.
RewriteRows(rows, c) ==
    LET marked == [rows EXCEPT ![c] = [status |-> IF HasOrigin THEN "completed" ELSE @.status,
                                       target |-> TRUE, job |-> TRUE]]
    IN IF HasOrigin THEN Reopened(marked) ELSE marked

NextJob == {j \in Jobs : jobs[j].phase = "free" /\ \A k \in 1..(j - 1) : jobs[k].phase # "free"}
UnderWay == {j \in Jobs : jobs[j].phase \in {"queued", "generating"}}

Enqueue(r) == \E j \in NextJob : jobs' = [jobs EXCEPT ![j] = [run |-> r, phase |-> "queued"]]

---------------------------------------------------------------------------
\* A message and its dispatch.

SendMessage(r) ==
    /\ turn[r] = "idle" /\ run[r].status = "none"
    /\ run' = [run EXCEPT ![r].status = "running"]
    /\ turn' = [turn EXCEPT ![r] = "open"]
    /\ UNCHANGED <<called, handled, old, jobs, images, finalizers, reviewVars, version>>

Call(r) ==
    /\ turn[r] = "open" /\ called[r] < MaxCalls
    /\ called' = [called EXCEPT ![r] = @ + 1]
    /\ UNCHANGED turn

\* _start_rewrite for chat run c, whose row reads known as rewrite_job_id.
Known(c, known, mode) ==
    /\ mode = "auto" /\ known
    /\ run' = run /\ jobs' = jobs

TurnedAway(c, known, mode) ==
    /\ mode = "auto" /\ ~known /\ ActiveRewrite(c)
    /\ run' = Claimed(Opened(run, c), c) /\ jobs' = jobs

Started(c, known, mode) ==
    /\ mode = "auto" => ~known /\ ~ActiveRewrite(c)
    /\ Enqueue(IF HasOrigin THEN Origin ELSE c)
    /\ run' = RewriteRows(Opened(run, c), c)

StartRewrite(c, known, mode) ==
    Known(c, known, mode) \/ TurnedAway(c, known, mode) \/ Started(c, known, mode)

ToolRewrite(r) ==
    /\ "rewrite" \in Requests
    /\ Call(r)
    /\ \E c \in Runs, mode \in Modes : TaskRun(r, c) /\ StartRewrite(c, run[c].job, mode)
    /\ UNCHANGED <<handled, old, images, finalizers, reviewVars, version>>

\* The dispatch starts the rewrite itself.  It read the row when the message came and the
\* session does not read it again: it sees a running run without a rewrite_job_id.
StepRewrite(r) ==
    /\ "rewrite" \in Requests
    /\ turn[r] = "open"
    /\ StartRewrite(r, FALSE, "auto")
    /\ turn' = [turn EXCEPT ![r] = "over"]
    /\ UNCHANGED <<called, handled, old, images, finalizers, reviewVars, version>>

Active == {v \in Reviews : review[v].status \in ActiveReview}
NextReview == {v \in Reviews : review[v].status = "none" /\ \A w \in 1..(v - 1) : review[w].status # "none"}
Newest == {v \in Active : \A w \in Active : w <= v}

\* merge_pending_review, into the marker or into an empty one.
Merged(deliver, revise, r) ==
    [kind |-> "pending", deliver |-> marker.deliver \/ deliver,
     revise |-> (marker.kind = "none" \/ marker.revise) \/ revise,
     run |-> IF marker.run = "none" THEN r ELSE marker.run, behind |-> marker.behind]

\* The rewrites under way that others than chat run r asked for.
OfOthers(r) == {j \in UnderWay : jobs[j].run # r}

\* mark_pending_review writes over an earlier marker.
Marked(deliver, revise, r, c) ==
    [kind |-> "pending", deliver |-> deliver, revise |-> revise, run |-> c, behind |-> OfOthers(r)]

Create(deliver, revise, c, behind, launched) ==
    \E v \in NextReview :
        review' = [review EXCEPT ![v] = [status |-> "queued", deliver |-> deliver, revise |-> revise, run |-> c,
                                         behind |-> behind, launched |-> launched, delivered |-> FALSE]]

MergeIntoReview(r, deliver, revise) ==
    /\ Active # {}
    /\ marker' = Merged(deliver, revise, r)
    /\ promised' = IF deliver THEN promised \cup Newest ELSE promised
    /\ UNCHANGED <<run, review>>

QueueReview(r, c, deliver, revise) ==
    /\ Active = {} /\ (ActiveRewrite(r) \/ images # {})
    /\ run' = Opened(run, c)
    /\ marker' = Marked(deliver, revise, r, c)
    /\ UNCHANGED <<review, promised>>

\* Mutant of CreateReview: only pictures are waited for.
CreateReviewAtOnce(r, c, deliver, revise) ==
    /\ Active = {} /\ images = {}
    /\ run' = Opened(run, c)
    /\ Create(deliver, revise, c, OfOthers(r), FALSE)
    /\ UNCHANGED <<marker, promised>>

CreateReview(r, c, deliver, revise) ==
    /\ Active = {} /\ ~ActiveRewrite(r) /\ images = {}
    /\ run' = Opened(run, c)
    /\ Create(deliver, revise, c, OfOthers(r), FALSE)
    /\ UNCHANGED <<marker, promised>>

StartReview(r, c, deliver, revise) ==
    \/ MergeIntoReview(r, deliver, revise)
    \/ QueueReview(r, c, deliver, revise)
    \/ CreateReview(r, c, deliver, revise)

ToolReview(r) ==
    /\ "review" \in Requests
    /\ Call(r)
    /\ \E c \in Runs, deliver, revise \in BOOLEAN : TaskRun(r, c) /\ StartReview(r, c, deliver, revise)
    /\ handled' = [handled EXCEPT ![r] = TRUE]
    /\ UNCHANGED <<old, jobs, images, finalizers, version>>

\* The dispatch starts the review itself, for a plan or because the agent did not.
StepReview(r) ==
    /\ "review" \in Requests
    /\ turn[r] = "open" /\ ~handled[r]
    /\ \E deliver \in BOOLEAN : StartReview(r, r, deliver, TRUE)
    /\ turn' = [turn EXCEPT ![r] = "over"]
    /\ UNCHANGED <<called, handled, old, jobs, images, finalizers, version>>

\* A picture, asked for by the agent or by the plan.
ToolImage(r) ==
    /\ "pictures" \in Requests
    /\ Call(r)
    /\ \E c \in Runs :
        TaskRun(r, c) /\ run' = Opened(run, c) /\ images' = images \cup {c}
    /\ UNCHANGED <<handled, old, jobs, finalizers, reviewVars, version>>

\* The message is left to a job (keep_running), answered or given up.  The answer is written
\* through the row read at the start, so that a claim written by a tool stays in the table.
HandOver(r) ==
    /\ turn[r] = "open" /\ called[r] > 0
    /\ turn' = [turn EXCEPT ![r] = "over"]
    /\ UNCHANGED <<run, called, handled, old, jobs, images, finalizers, reviewVars, version>>

Answer(r) ==
    /\ turn[r] = "open"
    /\ turn' = [turn EXCEPT ![r] = "over"]
    /\ run' = [run EXCEPT ![r].status = "completed"]
    /\ UNCHANGED <<called, handled, old, jobs, images, finalizers, reviewVars, version>>

DispatchFails(r) ==
    /\ Failures /\ turn[r] = "open"
    /\ turn' = [turn EXCEPT ![r] = "over"]
    /\ run' = Finished(run, r, "failed")
    /\ UNCHANGED <<called, handled, old, jobs, images, finalizers, reviewVars, version>>

\* The buttons of the web pages: rewrite (and retry) in the generation record, review.
WebRewrite ==
    /\ "web" \in Requests /\ HasOrigin
    /\ Enqueue(Origin)
    /\ run' = Reopened(run)
    /\ UNCHANGED <<turnVars, images, finalizers, reviewVars, version>>

WebReview ==
    /\ "web" \in Requests
    /\ Active = {}
    /\ \E deliver \in BOOLEAN : Create(deliver, TRUE, "none", {}, FALSE)
    /\ UNCHANGED <<run, turnVars, jobs, images, finalizers, marker, promised, version>>

---------------------------------------------------------------------------
\* The jobs of the worker.

\* launch_pending_reviews: the marker becomes a review whatever else is under way.
LaunchPending ==
    IF marker.kind = "none" THEN UNCHANGED <<review, marker>>
    ELSE Create(marker.deliver, marker.revise, marker.run, marker.behind, TRUE) /\ marker' = NoMarker

Phase(j, from, to) == jobs[j].phase = from /\ jobs' = [jobs EXCEPT ![j].phase = to]

\* Mutant of BeginRewrite: two jobs of different runs may write.
BeginRewriteAlways(j) ==
    /\ Phase(j, "queued", "generating")
    /\ UNCHANGED <<run, turnVars, images, finalizers, reviewVars, version>>

BeginRewrite(j) ==
    /\ ~ActiveRewrite(jobs[j].run)
    /\ Phase(j, "queued", "generating")
    /\ UNCHANGED <<run, turnVars, images, finalizers, reviewVars, version>>

\* Another run claims the draft: the run of this job is closed, the job does nothing.
Supersede(j) ==
    /\ ActiveRewrite(jobs[j].run)
    /\ Phase(j, "queued", "closed")
    /\ run' = Finished(run, jobs[j].run, "completed")
    /\ UNCHANGED <<turnVars, images, finalizers, reviewVars, version>>

Write(j) ==
    /\ version < MaxVersion
    /\ version' = version + 1
    /\ run' = [run EXCEPT ![jobs[j].run].target = FALSE]
    /\ UNCHANGED <<turnVars, finalizers, reviewVars>>

WriteWithPictures(j) ==
    /\ "pictures" \in Requests
    /\ Phase(j, "generating", "closed")
    /\ Write(j)
    /\ images' = images \cup {jobs[j].run}

WriteTextOnly(j) ==
    /\ Phase(j, "generating", "launching")
    /\ Write(j)
    /\ UNCHANGED images

\* Mutant of Launch: no finalizer is enqueued, the run stays open.
LaunchOnly(j) ==
    /\ Phase(j, "launching", "closed")
    /\ LaunchPending
    /\ UNCHANGED <<run, turnVars, images, finalizers, promised, version>>

Launch(j) ==
    /\ Phase(j, "launching", "closed")
    /\ LaunchPending
    /\ finalizers' = finalizers \cup {jobs[j].run}
    /\ UNCHANGED <<run, turnVars, images, promised, version>>

\* An exception or the time limit: nothing is written and nothing is launched.
FailRewrite(j) ==
    /\ Failures
    /\ Phase(j, "generating", "closed")
    /\ run' = Finished(run, jobs[j].run, "failed")
    /\ UNCHANGED <<turnVars, images, finalizers, reviewVars, version>>

EndPictures(r) ==
    /\ r \in images
    /\ images' = images \ {r} /\ finalizers' = finalizers \cup {r}
    /\ UNCHANGED <<run, turnVars, jobs, reviewVars, version>>

FinalizeLate(r) ==
    /\ r \in finalizers /\ (run[r].status # "running" \/ r \in images)
    /\ finalizers' = finalizers \ {r}
    /\ UNCHANGED <<run, turnVars, jobs, images, reviewVars, version>>

Finalize(r) ==
    /\ r \in finalizers /\ run[r].status = "running" /\ r \notin images
    /\ finalizers' = finalizers \ {r}
    /\ LaunchPending
    /\ run' = Finished(run, r, "completed")
    /\ UNCHANGED <<turnVars, jobs, images, promised, version>>

ReviewTo(v, status) == review' = [review EXCEPT ![v].status = status]

BeginReview(v) ==
    /\ review[v].status = "queued"
    /\ ReviewTo(v, "running")
    /\ UNCHANGED <<run, turnVars, jobs, images, finalizers, marker, promised, version>>

\* The opinions ask for a revision and no other run is writing: the review writes.
Revise(v) ==
    /\ review[v].status = "running" /\ review[v].revise /\ ~ActiveRewrite(review[v].run)
    /\ ReviewTo(v, "revising")
    /\ UNCHANGED <<run, turnVars, jobs, images, finalizers, marker, promised, version>>

\* Mutant of Defer: the row keeps the status of a revision that is going on.
DeferInPlace(v) ==
    /\ review[v].status = "running" /\ review[v].revise /\ ActiveRewrite(review[v].run)
    /\ ReviewTo(v, "deferred")
    /\ run' = Finished(run, review[v].run, "completed")
    /\ UNCHANGED <<turnVars, jobs, images, finalizers, marker, promised, version>>

\* revision_deferred: a rewrite is under way, the opinions are all that is left.
Defer(v) ==
    /\ review[v].status = "running" /\ review[v].revise /\ ActiveRewrite(review[v].run)
    /\ ReviewTo(v, "failed")
    /\ run' = Finished(run, review[v].run, "completed")
    /\ UNCHANGED <<turnVars, jobs, images, finalizers, marker, promised, version>>

\* Only the deliver its job was enqueued with counts.
EndReview(v, passed) ==
    /\ review[v].status \in {"running", "revising"}
    /\ review' = [review EXCEPT ![v].status = IF passed THEN "passed" ELSE "failed",
                                ![v].delivered = passed /\ review[v].deliver]
    /\ version' = IF review[v].status = "revising" THEN version + 1 ELSE version
    /\ version' <= MaxVersion
    /\ run' = Finished(run, review[v].run, "completed")
    /\ UNCHANGED <<turnVars, jobs, images, finalizers, marker, promised>>

BreakReview(v) ==
    /\ Failures /\ review[v].status \in {"running", "revising"}
    /\ ReviewTo(v, "failed")
    /\ run' = Finished(run, review[v].run, "failed")
    /\ UNCHANGED <<turnVars, jobs, images, finalizers, marker, promised, version>>

\* Somebody is under way who launches the marker.
Reader ==
    \/ \E j \in Jobs : jobs[j].phase \in {"queued", "generating", "launching"}
    \/ images # {} \/ finalizers # {}

\* A running run nobody will close: once it is older than every time limit it is closed by
\* the sweep; its claim stays in the row.
Deserted(r) ==
    /\ run[r].status = "running"
    /\ r \in Runs => turn[r] # "open"
    /\ r \notin images \cup finalizers
    /\ marker.run = r => ~Reader
    /\ \A j \in Jobs : jobs[j].run = r => jobs[j].phase \in {"free", "closed"}
    /\ \A v \in Active : review[v].run # r

\* Mutant of Reconcile: runs that claim a draft are taken to be at work.
ReconcileUnclaimed(r) ==
    /\ Sweeps /\ Deserted(r) /\ ~run[r].target
    /\ run' = [run EXCEPT ![r].status = "failed"]
    /\ UNCHANGED <<turnVars, jobs, images, finalizers, reviewVars, version>>

Reconcile(r) ==
    /\ Sweeps /\ Deserted(r)
    /\ run' = [run EXCEPT ![r].status = "failed"]
    /\ UNCHANGED <<turnVars, jobs, images, finalizers, reviewVars, version>>

\* Time passes for a run at work.
Age(r) ==
    /\ run[r].status = "running" /\ r \notin old
    /\ old' = old \cup {r}
    /\ UNCHANGED <<run, turn, called, handled, jobs, images, finalizers, reviewVars, version>>

---------------------------------------------------------------------------
Dispatching(r) ==
    \/ SendMessage(r) \/ ToolRewrite(r) \/ ToolReview(r) \/ ToolImage(r)
    \/ StepRewrite(r) \/ StepReview(r) \/ HandOver(r) \/ Answer(r) \/ DispatchFails(r)

Rewriting(j) ==
    BeginRewrite(j) \/ Supersede(j) \/ WriteWithPictures(j) \/ WriteTextOnly(j) \/ Launch(j) \/ FailRewrite(j)

Closing(r) == EndPictures(r) \/ FinalizeLate(r) \/ Finalize(r)

Reviewing(v) ==
    \/ BeginReview(v) \/ Revise(v) \/ Defer(v) \/ BreakReview(v)
    \/ \E passed \in BOOLEAN : EndReview(v, passed)

Next ==
    \/ \E r \in Runs : Dispatching(r) \/ Age(r)
    \/ WebRewrite \/ WebReview
    \/ \E j \in Jobs : Rewriting(j)
    \/ \E r \in AllRuns : Closing(r) \/ Reconcile(r)
    \/ \E v \in Reviews : Reviewing(v)

Spec == Init /\ [][Next]_vars

\* The queue hands every job to the worker, every job has a time limit, a dispatch has one
\* too, and the pages sweep whenever they are polled.
Fairness ==
    /\ \A r \in Runs : WF_vars(HandOver(r) \/ Answer(r))
    /\ \A j \in Jobs : WF_vars(Rewriting(j))
    /\ \A r \in AllRuns : WF_vars(Closing(r)) /\ WF_vars(Reconcile(r))
    /\ \A v \in Reviews : WF_vars(Reviewing(v))

FairSpec == Spec /\ Fairness

---------------------------------------------------------------------------
\* Rows, queues and markers have their types.
TypeOK ==
    /\ run \in [AllRuns -> Run]
    /\ turn \in [Runs -> {"idle", "open", "over"}]
    /\ called \in [Runs -> 0..MaxCalls]
    /\ handled \in [Runs -> BOOLEAN] /\ old \subseteq Runs
    /\ jobs \in [Jobs -> Job]
    /\ images \subseteq AllRuns /\ finalizers \subseteq AllRuns
    /\ review \in [Reviews -> Review]
    /\ marker \in Marker /\ promised \subseteq Reviews
    /\ version \in 0..MaxVersion

Generating == {j \in Jobs : jobs[j].phase = "generating"}

\* Why a rewrite under way is not seen by the queries for others: the chat run began too long
\* ago, was closed under its job (by its answer, its dispatch or another job), or asked for a
\* second rewrite, the end of which gives up the claim of both; an origin run never claims.
SeveralJobs(r) == \E i, k \in Jobs : i # k /\ jobs[i].run = r /\ jobs[k].run = r
Unseen(r) == r = Origin \/ r \in old \/ run[r].status # "running" \/ SeveralJobs(r)

\* Jobs of two runs write the draft together only when one of the runs is not seen: a run at
\* work holds its claim from the request to the last word, and the later job is superseded
\* when it starts (process_draft_regeneration_job).
WritersExclude ==
    \A j, k \in Generating :
        jobs[j].run # jobs[k].run => Unseen(jobs[j].run) \/ Unseen(jobs[k].run)

\* A review that was started at once, and not queued behind a rewrite, is not overtaken by a
\* rewrite that somebody else had asked for before (_start_review), unless by one not seen.
AtOnceMeansAlone ==
    \A v \in Active : ~review[v].launched =>
        \A j \in review[v].behind \cap UnderWay : Unseen(jobs[j].run)

\* A draft is not locked: a run that claims it as running gives it up, by its job, its
\* answer or the sweep, even before its claim is too old to be seen.
NeverLocked == \A r \in Runs : Claims(r) ~> ~Claims(r)

\* A rewrite that has been written is reported: its run does not stay "running".
WrittenIsReported ==
    \A r \in AllRuns :
        (\E j \in Jobs : jobs[j].run = r /\ jobs[j].phase = "launching") ~> run[r].status # "running"

\* _start_rewrite: "one rewrite of a draft at a time".
OneRewriteAtATime == Cardinality(Generating) <= 1

\* The message of a superseded job: a rewrite of the draft is under way and will report.
\* It is said only while another job is queued or writing.
SupersededByAJob ==
    [][\A j \in Jobs :
        jobs[j].phase = "queued" /\ jobs'[j].phase = "closed"
            => \E k \in Jobs \ {j} : jobs[k].phase \in {"queued", "generating", "launching"}]_vars

\* _start_review: a review asked for during a rewrite sees the new version.
ReviewsTheRewrite ==
    \A v \in Reviews :
        review[v].status \in {"running", "revising"}
            => \A j \in review[v].behind : jobs[j].phase \notin {"queued", "generating"}

\* "Passing delivers", said to a user whose wish was merged into a running review, holds.
PromiseKept == \A v \in promised : review[v].status = "passed" => review[v].delivered

\* auto_review: a revision does not write while a rewrite does.
RevisionAlone ==
    \A v \in Reviews, j \in Jobs :
        ~(review[v].status = "revising" /\ jobs[j].phase = "generating")

\* pending_reviews.py: the marker is read when what it waits for has ended; so somebody
\* who will read it is under way.
MarkerHasReader == marker.kind = "pending" /\ Active = {} => Reader
=============================================================================
