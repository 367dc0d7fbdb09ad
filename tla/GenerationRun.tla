---------------------------- MODULE GenerationRun ----------------------------
(***************************************************************************)
(* The life of one generation record: a row of chat_agent_runs that is     *)
(* opened by a collection, closed by a finalizer, a failing job or the     *)
(* sweep of the pages, and reopened by a retry or by the rewrite button.   *)
(*                                                                         *)
(* Each opening is an attempt.  Its text job (process_collection_job or    *)
(* process_draft_regeneration_job) writes in a thread, then creates the    *)
(* rows of the pictures, enqueues their jobs and marks each row "queued";  *)
(* every picture job enqueues a finalizer when it ends, which closes the   *)
(* run once no picture of the attempt is unfinished.  The worker runs jobs *)
(* on one event loop, so what a job does between two awaits is one step;   *)
(* the thread runs beside it and outlives a job that is cancelled.         *)
(*                                                                         *)
(* Time passes in units; a job is cancelled when it reaches its limit.     *)
(* Left out: which source or draft (one record stands for one draft);      *)
(* other runs that claim the draft (RewriteReview); the review itself;     *)
(* deletion of the record.                                                 *)
(***************************************************************************)
EXTENDS Naturals, FiniteSets

CONSTANTS Pictures,     \* rows of image_generation_jobs
          MaxAttempts,  \* bound on the openings of the record
          TextLimit,    \* collection_job_timeout_seconds, in units
          PictureLimit, \* image_generation_job_timeout_seconds
          Grace,        \* what the sweep adds to the longer of them
          AutoReview,   \* auto_review_requested of the run
          Rewrites,     \* whether the rewrite button is used, on a run in any status
          Prompt,       \* whether queued jobs start without waiting
          Failures      \* whether jobs and enqueueing may fail

ASSUME GenerationRunAssumption ==
    /\ "none" \notin Pictures
    /\ MaxAttempts \in Nat \ {0}
    /\ TextLimit \in Nat \ {0} /\ PictureLimit \in Nat \ {0} /\ Grace \in Nat
    /\ AutoReview \in BOOLEAN /\ Rewrites \in BOOLEAN
    /\ Prompt \in BOOLEAN /\ Failures \in BOOLEAN

Attempts == 1..MaxAttempts
\* generation_run_stale_timeout_seconds
StaleAfter == (IF TextLimit > PictureLimit THEN TextLimit ELSE PictureLimit) + Grace

RunStatus == {"running", "completed", "waiting_confirmation", "failed"}
AtWork    == {"writing", "written", "starting"}   \* a text job the worker is executing
TextState == {"none", "sending", "queued", "done", "failed"} \cup AtWork
Picture == [by   : Attempts \cup {0},    \* the text job that made the row, 0: no row yet
            of   : Attempts \cup {0},    \* the attempt in which it was made (created_at)
            row  : {"none", "queued", "running", "completed", "failed"},
            job  : {"none", "queued", "working", "over"},
            age  : 0..PictureLimit]

VARIABLES
    status,     \* of the run
    attempt,    \* attempts so far; attempt_started_at is the opening of the last
    age,        \* time since attempt_started_at, up to StaleAfter
    text,       \* text job of each attempt
    textAge,    \* time it has been at work
    again,      \* attempts whose text job regenerates a draft, the others collect
    ghosts,     \* attempts whose job was cancelled while its thread was writing
    texts,      \* attempts whose text is committed
    noted,      \* an event of the run names a draft (draft_ids)
    kept,       \* attempts that told the user that the original draft was kept
    picture,    \* rows and jobs of the pictures
    marking,    \* picture a text job has enqueued and not yet marked "queued"
    finalizers, \* finalizer jobs in the queue
    closing,    \* finalizers at work, by the attempt in which they passed the gate
    event,      \* a finalization event was written in this attempt
    slipped,    \* history: in this attempt a call that would have closed the run failed
    passes      \* history: finalizers that passed the gate, by attempt

runVars  == <<status, attempt, age, event, slipped>>
textVars == <<text, textAge, again, ghosts, texts, noted, kept>>
pictVars == <<picture, marking>>
finVars  == <<finalizers, closing, passes>>
vars == <<runVars, textVars, pictVars, finVars>>

NoPicture == [by |-> 0, of |-> 0, row |-> "none", job |-> "none", age |-> 0]

\* The chat opens the record and enqueues the collection.
Init ==
    /\ status = "running" /\ attempt = 1 /\ age = 0 /\ event = FALSE /\ slipped = FALSE
    /\ text = [a \in Attempts |-> IF a = 1 THEN "queued" ELSE "none"]
    /\ textAge = [a \in Attempts |-> 0]
    /\ again = {} /\ ghosts = {} /\ texts = {} /\ noted = FALSE /\ kept = {}
    /\ picture = [p \in Pictures |-> NoPicture]
    /\ marking = [a \in Attempts |-> "none"]
    /\ finalizers = 0 /\ closing = [a \in Attempts |-> "no"] /\ passes = [a \in Attempts |-> 0]

---------------------------------------------------------------------------
(* Reopening: the retry of a failed record and the rewrite button. *)

\* reopen_generation_run commits the run as running before the job is enqueued.
Reopen(regenerate) ==
    /\ attempt < MaxAttempts
    /\ status' = "running" /\ attempt' = attempt + 1 /\ age' = 0 /\ event' = FALSE /\ slipped' = FALSE
    /\ text' = [text EXCEPT ![attempt + 1] = "sending"]
    /\ again' = IF regenerate THEN again \cup {attempt + 1} ELSE again
    /\ UNCHANGED <<textAge, ghosts, texts, noted, kept, pictVars, finVars>>

\* Only a failed record is retried; it regenerates if its events name a draft.
Retry == status = "failed" /\ Reopen(noted)

\* The button asks for a draft an event of the record names, not for the status of the run.
Rewrite == Rewrites /\ noted /\ Reopen(TRUE)

Send(a) ==
    /\ text[a] = "sending"
    /\ text' = [text EXCEPT ![a] = "queued"]
    /\ UNCHANGED <<runVars, textAge, again, ghosts, texts, noted, kept, pictVars, finVars>>

\* The handler closes the run; it also does when only the event after the enqueueing failed.
SendFails(a) ==
    /\ Failures /\ text[a] = "sending"
    /\ \E result \in {"failed", "queued"} : text' = [text EXCEPT ![a] = result]
    /\ status' = "failed"
    /\ UNCHANGED <<attempt, age, event, slipped, textAge, again, ghosts, texts, noted, kept, pictVars, finVars>>

---------------------------------------------------------------------------
(* The text job. *)

\* The job does not ask whether the run is still running.
StartText(a) ==
    /\ text[a] = "queued"
    /\ text' = [text EXCEPT ![a] = "writing"]
    /\ UNCHANGED <<runVars, textAge, again, ghosts, texts, noted, kept, pictVars, finVars>>

\* The thread commits the text in a session of its own and returns to the job.  A
\* collection may find nothing new to write.
WriteText(a) ==
    /\ text[a] = "writing"
    /\ text' = [text EXCEPT ![a] = "written"]
    /\ texts' \in {texts \cup {a}} \cup IF a \in again THEN {} ELSE {texts}
    /\ UNCHANGED <<runVars, textAge, again, ghosts, noted, kept, pictVars, finVars>>

\* One transaction writes the event that names the draft and the rows of its pictures,
\* whose creation falls into the attempt the run is in by now.
PlanPictures(a) ==
    /\ text[a] = "written"
    /\ \E chosen \in SUBSET {p \in Pictures : picture[p].by = 0} :
        /\ a \notin texts => chosen = {}
        /\ picture' = [p \in Pictures |->
                         IF p \in chosen
                         THEN [NoPicture EXCEPT !.by = a, !.of = attempt, !.row = "queued"]
                         ELSE picture[p]]
    /\ text' = [text EXCEPT ![a] = "starting"]
    /\ noted' = (noted \/ a \in texts)
    /\ UNCHANGED <<runVars, textAge, again, ghosts, texts, kept, marking, finVars>>

\* list_image_generation_jobs since the opening of the attempt.
Rows == {p \in Pictures : picture[p].of = attempt}

Unsent(a) == {p \in Pictures : picture[p].by = a /\ picture[p].job = "none"}

EnqueuePicture(a, p) ==
    /\ text[a] = "starting" /\ marking[a] = "none" /\ p \in Unsent(a)
    /\ picture' = [picture EXCEPT ![p].job = "queued"]
    /\ marking' = [marking EXCEPT ![a] = p]
    /\ UNCHANGED <<runVars, textVars, finVars>>

\* After the await of the enqueueing another transaction writes "queued" into the row,
\* whatever the picture job has written there since.
MarkQueued(a) ==
    /\ text[a] = "starting" /\ marking[a] # "none"
    /\ picture' = [picture EXCEPT ![marking[a]].row = "queued"]
    /\ marking' = [marking EXCEPT ![a] = "none"]
    /\ UNCHANGED <<runVars, textVars, finVars>>

\* Without pictures the job enqueues the finalizer itself.
EndText(a) ==
    /\ text[a] = "starting" /\ marking[a] = "none" /\ Unsent(a) = {}
    /\ text' = [text EXCEPT ![a] = "done"]
    /\ textAge' = [textAge EXCEPT ![a] = 0]
    /\ finalizers' = IF \E p \in Pictures : picture[p].by = a THEN finalizers ELSE finalizers + 1
    /\ UNCHANGED <<runVars, again, ghosts, texts, noted, kept, pictVars, closing, passes>>

\* _finish_failed_run: the run is closed as failed, whoever has closed or reopened it.  A
\* regeneration says that the original draft was not overwritten.
FailText(a) ==
    /\ text' = [text EXCEPT ![a] = "failed"]
    /\ textAge' = [textAge EXCEPT ![a] = 0]
    /\ status' = "failed"
    /\ kept' = IF a \in again THEN kept \cup {a} ELSE kept
    /\ marking' = [marking EXCEPT ![a] = "none"]
    /\ UNCHANGED <<attempt, age, event, slipped, again, texts, noted, picture, finVars>>

\* An exception, of the thread or of the job; a collection may also end as failed.
BreakText(a) ==
    /\ Failures /\ text[a] \in AtWork
    /\ FailText(a)
    /\ UNCHANGED ghosts

\* The time limit cancels the job, which cannot stop its thread.
TimeOutText(a) ==
    /\ text[a] \in AtWork /\ textAge[a] = TextLimit
    /\ FailText(a)
    /\ ghosts' = IF text[a] = "writing" THEN ghosts \cup {a} ELSE ghosts

\* Nobody closes the run: the request ends before it enqueues, a regeneration fails before
\* its try, or _finish_failed_run fails itself, after an exception or at the time limit.
LoseText(a) ==
    /\ Failures
    /\ text[a] \in {"sending"} \cup AtWork \/ (text[a] = "queued" /\ a \in again)
    /\ text' = [text EXCEPT ![a] = "failed"]
    /\ textAge' = [textAge EXCEPT ![a] = 0]
    /\ marking' = [marking EXCEPT ![a] = "none"]
    /\ \/ UNCHANGED ghosts
       \/ text[a] = "writing" /\ textAge[a] = TextLimit /\ ghosts' = ghosts \cup {a}
    /\ slipped' = (slipped \/ a = attempt \/ Unsent(a) \cap Rows # {})
    /\ UNCHANGED <<status, attempt, age, event, again, texts, noted, kept, picture, finVars>>

\* The thread of a cancelled job comes to its end: it commits, or fails or finds nothing new.
GhostEnds(a) ==
    /\ a \in ghosts
    /\ ghosts' = ghosts \ {a}
    /\ texts' \in {texts, texts \cup {a}}
    /\ UNCHANGED <<runVars, text, textAge, again, noted, kept, pictVars, finVars>>

---------------------------------------------------------------------------
(* Picture jobs. *)

StartPicture(p) ==
    /\ picture[p].job = "queued"
    /\ picture' = [picture EXCEPT ![p].job = "working", ![p].row = "running"]
    /\ UNCHANGED <<runVars, textVars, marking, finVars>>

\* What fails before the try of the job leaves the row alone and enqueues no finalizer.
LosePicture(p) ==
    /\ Failures /\ picture[p].job = "queued"
    /\ picture' = [picture EXCEPT ![p].job = "over"]
    /\ UNCHANGED <<runVars, textVars, marking, finVars>>

\* Picture p's job is over: its row reads `row`, and the enqueueing of a finalizer in the
\* finally clause succeeds or fails.
PictureEnds(p, row) ==
    /\ picture' = [picture EXCEPT ![p].job = "over", ![p].row = row, ![p].age = 0]
    /\ \/ finalizers' = finalizers + 1 /\ UNCHANGED slipped
       \/ /\ Failures
          /\ slipped' = (slipped \/ picture[p].of = attempt)
          /\ UNCHANGED finalizers
    /\ UNCHANGED <<status, attempt, age, event, textVars, marking, closing, passes>>

\* Mutant of EndPicture: a picture that failed enqueues no finalizer.
EndPictureUnlessFailed(p) ==
    /\ picture[p].job = "working"
    /\ \/ PictureEnds(p, "completed")
       \/ /\ Failures \/ picture[p].age = PictureLimit
          /\ picture' = [picture EXCEPT ![p].job = "over", ![p].row = "failed", ![p].age = 0]
          /\ UNCHANGED <<runVars, textVars, marking, finVars>>

\* The row gets its result ("failed" stands for "timed_out" too), or stays "running" when the
\* handler of the failure fails as well; the finally clause enqueues a finalizer of the run.
EndPicture(p) ==
    /\ picture[p].job = "working"
    /\ \E row \in {"completed", "failed", "running"} :
        /\ row = "failed" => Failures \/ picture[p].age = PictureLimit
        /\ row = "running" => Failures
        /\ PictureEnds(p, row)

---------------------------------------------------------------------------
(* Finalizers and the sweep. *)

\* Mutant of Gate: the finalization event is not looked for.
GateWithoutEvent ==
    /\ status = "running"
    /\ \A p \in Rows : picture[p].row \notin {"queued", "running"}

\* Mutant of Gate: rows that nobody has started do not count as unfinished.
GateIgnoresQueued ==
    /\ status = "running"
    /\ \A p \in Rows : picture[p].row # "running"
    /\ ~event

\* The run is running, no picture made in this attempt is unfinished, and no finalization
\* event was written in it.
Gate ==
    /\ status = "running"
    /\ \A p \in Rows : picture[p].row \notin {"queued", "running"}
    /\ ~event

FinalizerLeaves ==
    /\ finalizers > 0 /\ ~Gate
    /\ finalizers' = finalizers - 1
    /\ UNCHANGED <<runVars, textVars, pictVars, closing, passes>>

FinalizerPasses ==
    /\ finalizers > 0 /\ Gate
    /\ finalizers' = finalizers - 1
    /\ event' = TRUE
    /\ closing' = [closing EXCEPT ![attempt] =
                     IF \E p \in Rows : picture[p].row = "failed" THEN "flawed" ELSE "clean"]
    /\ passes' = [passes EXCEPT ![attempt] = @ + 1]
    /\ UNCHANGED <<status, attempt, age, slipped, textVars, pictVars>>

\* A finalizer that fails before it commits its event is caught by nobody.
FinalizerFails ==
    /\ Failures /\ finalizers > 0 /\ Gate
    /\ finalizers' = finalizers - 1
    /\ slipped' = TRUE
    /\ UNCHANGED <<status, attempt, age, event, textVars, pictVars, closing, passes>>

\* After reviews of several minutes the run is closed, without another look at it.
FinalizerEnds(a) ==
    /\ closing[a] # "no"
    /\ status' = IF AutoReview /\ closing[a] = "flawed" THEN "waiting_confirmation" ELSE "completed"
    /\ closing' = [closing EXCEPT ![a] = "no"]
    /\ UNCHANGED <<attempt, age, event, slipped, textVars, pictVars, finalizers, passes>>

\* Nor is an exception of the reviews, or the time limit of the finalizer.
FinalizerBreaks(a) ==
    /\ Failures /\ closing[a] # "no"
    /\ closing' = [closing EXCEPT ![a] = "no"]
    /\ slipped' = (slipped \/ a = attempt)
    /\ UNCHANGED <<status, attempt, age, event, textVars, pictVars, finalizers, passes>>

\* Mutant of Sweep: runs whose finalization has begun are left to it.
SweepUnfinalized ==
    /\ status = "running" /\ age = StaleAfter /\ ~event
    /\ status' = "failed" /\ event' = TRUE
    /\ UNCHANGED <<attempt, age, slipped, textVars, pictVars, finVars>>

\* reconcile_stale_generation_runs, at any poll of the pages.
Sweep ==
    /\ status = "running" /\ age = StaleAfter
    /\ status' = "failed" /\ event' = TRUE
    /\ UNCHANGED <<attempt, age, slipped, textVars, pictVars, finVars>>

---------------------------------------------------------------------------
\* Mutant of TimePasses: picture jobs have no limit.
TimePassesBoundless == \A a \in Attempts : text[a] \in AtWork => textAge[a] < TextLimit

\* Jobs do not outlast their limits; with Prompt a queued job does not wait at all.
TimePasses ==
    /\ \A a \in Attempts : text[a] \in AtWork => textAge[a] < TextLimit
    /\ \A p \in Pictures : picture[p].job = "working" => picture[p].age < PictureLimit
    /\ Prompt =>
        /\ \A a \in Attempts : text[a] \notin {"sending", "queued"}
        /\ \A p \in Pictures : picture[p].job # "queued"
        /\ finalizers = 0

Tick ==
    /\ TimePasses
    /\ age' = IF age < StaleAfter THEN age + 1 ELSE age
    /\ textAge' = [a \in Attempts |-> IF text[a] \in AtWork THEN textAge[a] + 1 ELSE textAge[a]]
    /\ picture' = [p \in Pictures |-> IF picture[p].job = "working"
                                      THEN [picture[p] EXCEPT !.age = @ + 1] ELSE picture[p]]
    /\ UNCHANGED <<status, attempt, event, slipped, text, again, ghosts, texts, noted, kept, marking, finVars>>

Writing(a) ==
    \/ Send(a) \/ SendFails(a)
    \/ StartText(a) \/ WriteText(a) \/ PlanPictures(a)
    \/ \E p \in Pictures : EnqueuePicture(a, p)
    \/ MarkQueued(a) \/ EndText(a)
    \/ BreakText(a) \/ TimeOutText(a) \/ LoseText(a) \/ GhostEnds(a)

Next ==
    \/ Retry \/ Rewrite \/ Sweep \/ Tick
    \/ \E a \in Attempts : Writing(a) \/ FinalizerEnds(a) \/ FinalizerBreaks(a)
    \/ \E p \in Pictures : StartPicture(p) \/ LosePicture(p) \/ EndPicture(p)
    \/ FinalizerLeaves \/ FinalizerPasses \/ FinalizerFails

Spec == Init /\ [][Next]_vars

\* Time passes, the worker cancels jobs at their limits, and a page is polled.
Fairness ==
    /\ WF_vars(Tick) /\ WF_vars(Sweep)
    /\ \A a \in Attempts : WF_vars(TimeOutText(a))
    /\ \A p \in Pictures : WF_vars(EndPicture(p))

FairSpec == Spec /\ Fairness

---------------------------------------------------------------------------
\* The run, its jobs and rows have their types; nothing outlasts its limit.
TypeOK ==
    /\ status \in RunStatus /\ attempt \in Attempts /\ age \in 0..StaleAfter /\ event \in BOOLEAN
    /\ slipped \in BOOLEAN /\ text \in [Attempts -> TextState] /\ textAge \in [Attempts -> 0..TextLimit]
    /\ again \subseteq Attempts /\ ghosts \subseteq Attempts /\ texts \subseteq Attempts
    /\ noted \in BOOLEAN /\ kept \subseteq Attempts
    /\ picture \in [Pictures -> Picture] /\ marking \in [Attempts -> Pictures \cup {"none"}]
    /\ finalizers \in Nat /\ closing \in [Attempts -> {"no", "clean", "flawed"}]
    /\ passes \in [Attempts -> Nat]

\* process_collection_finalizer: of all the finalizers that pictures, text jobs and earlier
\* attempts have enqueued, at most one goes beyond the gate in an attempt.
FinalizedOnce == \A a \in Attempts : passes[a] <= 1

\* process_collection_finalizer: "only when all picture jobs are final, review and deliver".
\* While the finalizer of a record that was never reopened is at work its text is written, by
\* nobody still writing, and none of its picture jobs is under way.
ReviewsWhatIsDone ==
    attempt = 1 /\ closing[1] # "no" =>
        /\ text[1] \notin {"queued", "writing", "written"} /\ ghosts = {}
        /\ \A p \in Pictures : picture[p].of # 0 => picture[p].job = "over"

\* Somebody is under way who may close the run.
UnderWay ==
    \/ finalizers > 0
    \/ \E a \in Attempts : text[a] \in {"sending", "queued"} \cup AtWork \/ closing[a] # "no"
    \/ \E p \in Pictures : picture[p].job \in {"queued", "working"}

\* The last job to end closes the run, however texts, pictures and finalizers of all attempts
\* interleave, unless in this attempt the very call that would have closed it failed: a last
\* enqueueing, a finalizer (before its event or after), the handler of a text job; or a row
\* reads unfinished although its job is over (its result was overwritten or never written).
ClosedByTheLast ==
    status = "running" /\ ~UnderWay =>
        \/ slipped
        \/ \E p \in Rows : picture[p].row \in {"queued", "running"} /\ picture[p].job = "over"

\* A run does not stay "running": its jobs, and in the end the sweep, close it.
RunEnds == status = "running" ~> status # "running"

\* process_collection_finalizer: when all pictures are final the run is closed by somebody,
\* not just abandoned to the sweep.
ClosedWhenPicturesEnd == status = "running" => UnderWay

\* generation_run_stale_timeout_seconds: a run is swept only when the longest text and
\* picture jobs must have ended.
SweptIsDead ==
    [][Sweep => /\ \A a \in Attempts : text[a] \notin AtWork
                /\ \A p \in Pictures : picture[p].job # "working"]_vars

\* process_collection_finalizer: only what belongs to this attempt decides its closing.  A run
\* is reported as done only when the text of its attempt was written.
ClosedAfterWriting ==
    status \in {"completed", "waiting_confirmation"} =>
        text[attempt] \notin {"sending", "queued", "writing"}

\* "The original draft was not overwritten", said when a regeneration fails or times out,
\* is true and stays true.
KeptIsKept == kept \cap texts = {}

\* process_draft_regeneration_job: one rewrite of a draft at a time, so that no two write it.
OneWriter == Cardinality({a \in Attempts : text[a] = "writing"} \cup ghosts) <= 1
=============================================================================
