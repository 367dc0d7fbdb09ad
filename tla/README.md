# Verification of the news agent

The program collects news (arXiv, GitHub, RSS, Hacker News, …), has a language model write
articles ("drafts") about it, has them reviewed, illustrated and put into the draft box of a
WeChat account.  People use web pages and a chat; the chat's messages are dispatched to
background jobs or handed to an agent that calls tools.

This directory holds TLA+ modules of its core, configurations that check them with TLC on
small instances, and proofs of the main invariants for every size, checked by TLAPS.  Paths
below are relative to `src/`; unless they say otherwise, to `src/app/`.

## 1. The system

* **Processes.**  FastAPI routes (one transaction per request), one arq worker (one event
  loop, at most four jobs at once, jobs cancelled after 900 s for text and 1200 s for
  pictures), a pool of threads for code that blocks, React pages that poll every few seconds.
* **Stores.**  Postgres at READ COMMITTED, Redis (queue of jobs, pub/sub and buffers of
  streamed replies), MinIO (snapshots, pictures, attachments).
* **Outside.**  Language and image models, news sources, the WeChat API.  None of them is
  trusted to answer, or to answer only once.

What makes it hard: jobs are enqueued in one step and the rows that describe them are written
in another; a decision is taken on rows read minutes ago; the same thing (a rewrite, a review,
a delivery) can be started by a page, by a message, by a tool and by another job, each with
checks of its own; cancelled jobs leave threads that go on; "finished" is decided by whichever
job ends last.

### Inventory

| Component | State it keeps | Operations | Hard behaviour | What makes it correct | Module |
|---|---|---|---|---|---|
| Draft rows and review decisions (`storage/repositories.py`, `domain/models.py`) | status, version, revisions, review events with idempotency keys, publication records, introductions | create, edit, revise, regenerate, refresh, decide, delete, publish by hand | decisions on a version that has changed; retries with the same key; drafts restored and created in any order | only the approved text leaves; one live draft per content; the audit rows explain the status; closed stays closed | `DraftLifecycle`, `DraftContract` |
| WeChat delivery (`services/auto_delivery.py`, `tools/wechat_official_account.py`) | delivery row, media id; the draft box outside | select, upload, create, update, fail, retry | update that falls back to creation; a record refused after the remote article exists; a text changed after delivery | the row names the draft's own article and the box shows the current text | `DraftLifecycle` |
| Rewriting and reviewing from the chat (`agent_tools/draft_actions.py`, `services/pending_reviews.py`, `worker.py`) | claims of runs, rewrite jobs, review rows, the marker of a review that waits | start, supersede, write, mark, merge, launch, review, revise | four entries, checks on stale rows, a marker without an owner | writers that are seen exclude each other; a review waits for the rewrite it was asked for during; nothing stays locked | `RewriteReview` |
| Generation records and their jobs (`worker.py`, `api/routes.py`) | run, attempt, events, picture rows, jobs, finalizers | collect, regenerate, illustrate, finalize, retry, sweep | the last of many jobs closes; cancelled jobs with live threads; late finalizers of old attempts | closed once, when all is done; always closed | `GenerationRun` |
| Session task list (`services/session_tasks.py`, `agent_tools/session_task_tools.py`) | tasks with titles, kinds, blockers, status | register, release, complete, fail, skip, clear | reports that come before the list is closed; plans that share tasks | no circle, nothing committed is queued again, ready means ready | `SessionTasks` |
| Dispatch of chat messages (`services/chat_dispatch.py`, `chat_receipts.py`, `agent_commands.py`) | plan of a message, facts of its steps, the current draft of the session | recognise, run steps, leave the rest to the agent, answer, keep the run open | steps that end elsewhere; the agent's thread outlives its limit; a message executed again | no picture twice; closed as completed means nothing is left behind; open means somebody reports | `ChatDispatch`; parts in `SessionTasks`, `RewriteReview` |
| Collection (`agents/content_main_agent.py`, `services/collection.py`, `workflows/content_workflow.py`, `sources/github.py`) | runs, source items, counters of a batch | plan, fetch, select, enrich, write, report | one failing item must not lose the others; two collections meet in the row of an item; deadlocks | one live draft per item; the report says what was made; every item is accounted for | `Collection` |
| Source collectors (`sources/`) | none | HTTP and parsing | – | – | any listing in `Collection` |
| Source snapshots (`services/source_snapshots.py`, `source_refresh.py`) | object in a bucket, row that names it | capture, restore, replace, delete, mark | two stores of which one has no transactions; deadlock of a refresh and a delivery | the copy is kept until it is given up; no text from weaker evidence than was stored | `SourceSnapshots` |
| Generation of texts (`services/generator.py`, `agents/content_task_agents.py`, `tools/auto_review.py`) | none | prompts, model calls, validation | any answer of a model | – | outcomes are nondeterministic elsewhere |
| Pure text algorithms (`services/plain_text.py`, `evidence_selector.py`, `normalizer.py`) | none | functions of texts | boundaries of budgets | result within the budget, order kept | not modelled |
| Illustrations and assets (`tools/illustration_planner.py`, `tools/image_generation.py`, `agent_tools/draft_assets.py`, `source_media_tools.py`) | assets and objects, places in the text, choice and uploads of a delivery | generate, fetch, place, choose, upload, send | a delivery of minutes beside short changes; choices for an older text | the remote draft shows what the row says; uploads belong to the choice | `DraftAssets`; picture rows in `GenerationRun` |
| Chat sessions, runs, messages (`api/routes.py`) | runs with status, target, events | open, claim, close, reopen, sweep | runs that nobody closes | every run ends | `RewriteReview`, `GenerationRun`, `ChatDispatch` |
| Streaming of replies (`services/reply_stream.py`, `task_narration.py`, `api/routes.py`) | buffer, channel, text sent so far | publish, keep, subscribe, read, poll | a page that comes late; threads nobody waits for; calls of Redis that fail; reloads that overtake one another | the page ends with the stored reply and stops waiting | `ReplyStream` |
| Agents of the conversation (`agents/content_deep_agent.py`) | checkpoint of the session | look, call tools, decide | any tool in any order, a thread that outlives its limit | what a tool did is not done again | `ChatDispatch` |
| Preferences and settings (`services/publication_preferences.py`, `runtime_settings.py`) | footer picture, its asset and its upload, layout | set, clear, read at delivery | the asset deleted, the upload stale | the footer of an article is the one that is set | `DraftAssets` |
| Attachments and materials (`services/attachments.py`, `agent_tools/wechat_materials.py`) | objects | upload, list | – | – | uploads of snapshots in `SourceSnapshots` |
| Plans that need confirmation (`tools/plan_tools.py`) | plan record, key | propose, confirm | nothing proposes one any more | – | not modelled |
| Failure notifications (`storage/repositories.py`) | one row per failed source | raise, read, dismiss | – | – | not modelled |
| Web frontend (`frontend/src`) | copies of rows | call, poll, follow a stream | answers out of order | it neither waits for ever nor shows a wrong text | chat page in `ReplyStream` |
| Migrations, scripts, deployment | – | – | – | – | not modelled |

The interactions that the modules are about: routes and tools write drafts and runs and enqueue
jobs; jobs write drafts, runs and the task list and enqueue other jobs (pictures, finalizers,
reviews); the finalizer and the pages' polling close runs; the marker of a pending review is
written by tools and jobs and read by whoever ends next; a delivery loads its row, calls models
and WeChat for minutes and writes back what it changed; the worker, the server and the page meet
in the stream of a reply.

## 2. Plan

Order of work, the most important behaviour first.  Every module is written to be proved
about: parameters as CONSTANTS with named assumptions, one action per operation, no RECURSIVE
operators.

| Module | Subject | Abstract specification | Proofs | State |
|---|---|---|---|---|
| `DraftLifecycle` | rows of drafts and deliveries, one transaction at a time | `DraftContract` | invariants, refinement | done |
| `SessionTasks` | the task list | – | invariants | done |
| `RewriteReview` | who writes and reviews a draft | – | types, writers exclude each other, reviews start alone | done |
| `GenerationRun` | one record and all its jobs | – | invariants | done |
| `Collection` | sources, candidates, items, transactions and reports of collections | – | one live draft per item, accounts, report | done |
| `ChatDispatch` | a message from its route to its answer, the agent beside it | – | all its properties | done |
| `SourceSnapshots` | bucket and row of a README | – | all its properties | done |
| `ReplyStream` | worker, Redis, server and page of one reply | – | types, invariants | done |
| `DraftAssets` | pictures, preferences and deliveries of one draft | – | all its properties | done |

Every safety property of a run is proved.  What is left to model, in this order:

1. *Overlapping transactions* of `DraftLifecycle`: an edit against another writer of the version,
   jobs that run before the commit of who enqueued them.  What a delivery does around its remote
   calls is in `DraftAssets`, the insert of a live draft beside another in `Collection`.
2. *Restarts* of the worker in `GenerationRun`: the second execution of a job.
3. *Text algorithms* (the excerpt under a budget of characters), if a form is found that is shorter
   than the code.

## 3. Modules and how they correspond to the code

`PROJECT.json` maps every definition to the lines it stands for.  In short:

### `DraftLifecycle` and `DraftContract`

State: one function per table that a draft owns rows in (`status`, `version`, `revisions`,
`events`, `pubs`, `intro`, `job`), the draft box outside (`remote`, a media id shows a draft and
a version or nothing), and three history variables (`approved`, `removed`, `said`).  A text is
its version number.  An action is one committed transaction of one handler, run alone; for a
delivery, which loads, calls the model and WeChat for minutes and then commits, that is a strong
abstraction (`DraftAssets` takes it back for one draft).

Actions: one per method of `ContentRepository` that writes these rows, with the checks of the
routes, tools and jobs that call it.  `Review` is the route, `AgentReview` the tool with its
fixed idempotency key, `DeliverUpdate`/`DeliverCreate`/`DeliverOrphan`/`DeliverFail` are the
outcomes of a delivery (updated, created because there was no article or the update failed,
created outside although the row could not be recorded, failed); an article that somebody
deleted in WeChat shows as an update that fails, which falls back to creating.
`CreateWechatDraft` is the button of the publish page.

`CoreSpec` leaves out `CreateWechatDraft`, which does not look at the status of the draft: the
review gate is stated and proved for everything else, and `DraftboxNeedsApproval` (section 6)
shows what that button does to it.  `Spec` is everything.

`DraftContract` is what an operator relies on: a stage, a text number and the set of texts that
are visible outside.  The refinement maps statuses to stages, versions to texts and `remote` to
the set of pairs it shows.

### `SessionTasks`

State: the rows of one session (`tasks`), `left` (rows `release_dependents` has still to look
at: the loop is cut into steps because its order matters), and per dispatch its place in
`_dispatch_plan`: registering, executing, closing the list.  What a dispatch registers is in its
transaction (`by`), and nobody else sees it until one of its steps commits or the dispatch ends;
registering does not commit, collecting, pictures and deliveries commit before they enqueue,
reviews and rewrites enqueue first.  A title is kept unique by nothing but the look for it, so two
dispatches, or one and the agent, can both register it; `unseen` is a history variable and keeps
for each row the open rows of its title that its registration could not see.  `writer` is the
dispatch that is closing its tasks.  Reports of jobs, tools of the agent and that closing are
transactions without a wait inside and come one after the other.

Specifications: `PlanSpec` (plans and jobs), `ClosingSpec` (and an agent that registers, closes
and clears), `Spec` (and an agent that sets a task back to an open status, `AgentUpdate`).  The
run uses `ClosingSpec`, because the properties about closed tasks do not survive `AgentUpdate`;
what does survive it, types and `NoCircle`, is proved for `Spec`.

### `RewriteReview`

State: the runs that can hold a claim on one draft, the rewrite jobs, the runs with pictures
under way, the finalizers, the review rows, and the marker (`pending.auto_review.<draft>` in the
settings).  A message is a turn of its run: it opens a session that keeps the row it has read,
its tools (`called`, and `handled` if one of them was the review) write in sessions of their own,
then the dispatch's own steps follow on the stale row.  `old` are the runs that began so long ago
that the queries for claims pass them over (`within_seconds`).  That clock starts with the message,
and dispatch and queue take their part of it; a run may grow old at any moment, its job at work or
not.

Actions: the three ways to ask for a rewrite (tool, step of the dispatch, page), for a review and
for pictures, the phases of a rewrite job (begin or be superseded, write, launch what waits,
fail), the end of pictures, the finalizer, the phases of a review job, the sweep, and `Age`.
Enqueueing a job and committing the rows it needs is one step, and so are reading the marker and
writing it back.

### `GenerationRun`

State: one record with its attempts, the text job of each attempt and how long it has been at
work, the threads of cancelled jobs (`ghosts`), picture rows and picture jobs (two things: the
row may say "queued" while the job is over), finalizers in the queue, at the gate and at work,
the time since the attempt opened, and a history variable (`slipped`: in this attempt a call that
would have closed the run has failed).

Actions: retry, rewrite button, send (or fail to send) the job, the phases of the text job with an
await between enqueueing a picture and marking it, cancellation and the thread that goes on, a
text job whose end nobody hears of because it breaks before its `try` or its handler fails
(`LoseText`), the picture job, whose `finally` may fail to enqueue the finalizer or to close its
row (`PictureEnds`, `LosePicture`), the finalizer that leaves, passes, ends, fails before its event
is committed (`FinalizerFails`) or after it (`FinalizerBreaks`), the sweep, and `Tick`, which lets
time pass but never beyond a limit that the worker enforces.

### `Collection`

State: the drafts ever made and those still live, which items were introduced, and per collection
its node in the graph of the agent (`pc`), its command and batches, the batch and item at hand,
what its open transaction has written (`locks`), made (`pending`) and lost, the counters, the
runs it has recorded, its own row (`arow`) and what the job reports.

Actions: one per node of the graph (plan, fetch of each source, choice of a candidate, README),
the statements of the two pipelines that persist a batch in their order (save the item, look for a
live draft, insert, commit), which differ in their transactions: a GitHub batch commits once, a
feed commits per item.  Beside them: a statement that fails, a transaction the database aborts in
a deadlock, the cancellation of the job and the thread that goes on after it (`ghost`), and
drafts that are delivered or dropped meanwhile.  What a collector raises becomes the error of its
batch, but an exception without a message leaves a batch without items and without an error, which
is counted and reported as an empty listing (`Raised`; `tools/source_tools.py:87`, against `:75`,
which leaves failures to the agent to report).  `save_source` takes the lock of the item's row
and the look for a live draft follows it, which is the whole of what keeps two collections apart.

`MCCollection` gives two repositories, and a feed entry and a paper with one content hash.

### `ChatDispatch`

State: per message its text (reduced to what the rules look at), its place in the dispatch, its
run, the facts of its steps, what its answer names, how often the agent called tools and whether
its thread still lives, and the pictures made for it by tools and by the dispatch; for the session
the jobs under way, the tools in the checkpoint, the drafts with their status, the current draft,
the claims of runs on drafts (`claim`; `kept` are those of calls that were turned away) and per
draft the review that waits, with the run it reports to and who asked for it (`wait`).  Two history
variables say why a run may be left open with nobody to report: `cause`, of its own dispatch
(joined another run's job, the agent's word taken for a job, interrupted), and `lost`, of others
(its review was taken over, waits for what has ended or failed, or a job ended without its report).

Actions: the route's two halves (`Send` commits, `Enqueue` follows and may fail), the extraction
of an attachment, the command of a button, one action for each step of a plan, the plan of a swept
run that stops at its first event (`PlanStops`), tool calls and decision of the agent, its time
limit and the thread that goes on, `Finish` with its three ways out (keep open, close, answer), the
cancelled job, the sweep, and the end of each job.  What a step does is one operator per kind with
the statuses of the code (`started`, `already_running`, `queued_after_rewrite`,
`queued_after_images`, `rejected`, `failed`, `done`).

The jobs are seen by what they work on and the run they report to, and end as the code lets them:
`Reports` (review, delivery, collection), `RewriteFails` (a rewrite that fails or is superseded
starts nothing), `Rewrites` (goes on with its pictures, or starts the review that waits and leaves
its run to the finalizer), `Pictures` (the finalizer looks at the pictures of its own run only; a row
may read "queued" for ever).  Each may end without its report.

Coarser than the code: a step of the dispatch and a tool call are each atomic (the windows inside
them are in `SessionTasks`, `RewriteReview` and `GenerationRun`); the pictures that a collection
makes for its drafts are not seen; whether a claim is too old to be found is a free choice, and the
source mode that does not look for claims is left to `RewriteReview`.

`RestartSpec` adds the second execution of a dispatch by a worker that starts again: arq runs the
job once more, and it asks for the status of the run but for nothing else of the first execution.
It is not part of the run, because promises about what is done do not hold under it (section 6).

### `SourceSnapshots`

State: the object store (`text` of every object ever uploaded, `store` of those there), the row
that names one, the source record, the status of the draft, who holds which lock, and per task
what it saw, uploaded and is about to write.  A rollback gives up the pending row; the bucket
knows no rollback, and `undone` collects the objects that were deleted for a row that stayed.

Actions: the steps of five transactions at one draft (a rewrite with and without fetching, a
refresh, a delivery, a discard) in the order of their statements and remote calls, with every
call that may fail, the commit that may fail, and the victim of a deadlock.

### `ReplyStream`

State: the worker with the threads of the look and of the writing and the frame each is about to
send (checked, kept, sent: three calls), the buffer and the channel in Redis, the row of the run
and the messages, the server's event stream, and the page: the text per kind, what it has loaded,
its requests under way.

Actions: pieces, reset and last frame as three steps each, with a call of Redis that fails; the
stages of the run; the server that reads the buffer, subscribes and then looks at channel and
run by turns; the end by the run, by the deadline, by a broken connection; the page's reloads in
any order of answers.

### `DraftAssets`

State: asset rows, objects, the place of each picture in the text, the publication row, the drafts
at WeChat, the lasting preferences of the layout, the screenshot a tool is fetching, the asset
whose deletion is not committed, and per delivery its copy of the row, what it wrote, what it
has uploaded and the remote draft it wrote to.

Actions: everything that changes places, pictures or preferences (page, tools of the conversation,
picture jobs), and a delivery in its steps: load, choose, be reviewed, check, upload each picture,
send, mark, commit; any call may fail and the process may end.  A delivery is one transaction of
minutes: it keeps the row as it loaded it and writes back the columns it changed.  The review before
it may commit or roll back in the midst (`Searches`: the search for evidence,
`services/auto_delivery.py:93`, stores what it finds in the same session), which stores the choice
made so far and releases the row, or drops that choice and expires what was loaded; the revision
that follows changes only the text (`Revises`).  `crossed` records that somebody changed the row in
between, or a remote draft: the page, a tool, or another delivery.  `Policy` is the choice of the
pictures, an operator of the candidates and of the model's answer, built from passes over lists
(`Pass`), which are functions of the position in the list.  Some names begin with `DA` because
`ReviewDeliveryProofs` extends `RewriteReview` too.

`MC…` modules give the constants names and the sets of plans and texts, and the symmetry.

## 4. What the runs show

| Run | Bounds | Shows |
|---|---|---|
| `lifecycle_core` | 2 drafts of one GitHub source, 2 versions, 2 media ids, 1 key and 1 cover | without the publish page button: only approved texts leave (`ApprovedContent`, `OnlyApprovedLeaves`), one live draft per content, a delivered source is introduced unless an operator removed it, closed is final, and every step is a step of `DraftContract` |
| `lifecycle_publish_page` | 2 drafts of one source of another kind, 2 versions, up to 3 articles in the draft box | with that button: the delivery row and the box agree, through failed updates that are made anew, articles that no row could record, and a second draft after a delivered one |
| `tasks_closing` | 2 dispatches, 2 plans in different orders, 3 rows, 2 blockers | what is committed is never queued twice, ready means that no blocker is open, never a circle of blockers, a step the dispatch closed has no open task, closed tasks stay closed |
| `rewrites_and_reviews` | 2 messages with 2 tool calls each, pages, 2 jobs, 2 reviews, 4 versions, both source modes, failures, sweep | jobs of two runs write the draft together only if one of the runs is not seen; a review that was started at once is overtaken by no rewrite that another run had asked for, unless by one not seen |
| `rewrites_end` | 1 job, 4 reviews, failures | a claim is given up in the end, and not only by its age |
| `rewrites_reported` | 2 jobs, an origin run reopened by pages, pictures | a text that was written is reported, without the sweep |
| `generation_reopened` | 2 pictures, 2 attempts, every failure | one finalizer per attempt passes the gate; in the first attempt it passes only when all is done; the last job to end closes the run, unless the very call that would have closed it failed or a row reads unfinished though its job is over; a record does not run for ever |
| `collection` | 2 collections, 2 repositories and a feed entry, 3 commands, failures, deadlocks, cancellations | one live draft per item, the report names exactly what was made, every item is accounted for, the agent's row is closed unless the job was cancelled |
| `dispatch` | 2 messages, 8 texts, 1 draft, 2 tools called up to twice, failures and limits | the dispatch never adds a picture to those of the tools; a run it closed as completed leaves nothing to be done, but for a command that is answered with a review that waits or joins another one; a run left open has a reporter, a writer its review waits for, or a known cause or loss |
| `snapshots` | 3 tasks of 5 kinds, 4 uploads, 2 versions of the README, failures, deadlock | a row without its object has a cause; no text from weaker evidence than was stored; the row is kept until a delivery or a discard |
| `stream` | 2 frames, 1 failing call, 2 requests at a time | the stream that ends with the run leaves the stored answer on the page; at most one piece comes after the last frame; the page stops showing the run as running |
| `assets` | 3 pictures (1 screenshot), 3 changes, 2 deliveries one after the other, 1 failure | the remote draft shows what the row says was sent; uploads belong to the choice; every choice is sound |

**Why the bounds are enough.**  *Lifecycle:* a property relates a draft to at most one other (the
one it shares its source with, or whose article it must not touch) and a version to the one before;
two of each give the pairs, and the invariants are proved for any number.  Three articles are the
first draft's, the one an update that failed makes instead of it, and one of the second draft or one
that no row could record.  *Tasks:* three rows are a chain of blockers or two plans that share one;
two dispatches are the pair that can share; also proved for any number.  *Rewrites:* two writers are
the pair that can collide, a third version shows what is written over what; two calls of a message
are a rewrite that is asked for again, or a rewrite and a review of it; proved for any number.
*Generation:* the second attempt is the one that meets leftovers of the first; with two pictures one
may end before and one after any step of the text job. *Collection:* two collections are the pair
that meets in a row; two repositories and a feed entry let one fail, one be lost at commit and one
succeed in a run, with both kinds of transactions. *Dispatch:* two messages are one that acts and
one that finds its work under way, takes over its review or ends the writer it waits for; with one
draft they always meet; two tool calls are the same tool twice, or two tools; proved for any number.
*Snapshots:* three tasks give a writer, one that gives up its copy and one that reads in between;
proved for any number.  *Stream:* two frames are one before and one after any event; the second
request is the one that overtakes the first.  *Assets:* three pictures are a cover and two that
compete for the place in the text, one of them a screenshot, with room for two; the second delivery
is the one that meets the uploads of the first.  Two deliveries at once are not part of the run,
which has one at a time, so that what crosses it is the page and the tools.  The lock of the row
orders only their writes: each works on the row as it loaded it, and the second to commit puts its
columns over those of the first.  The properties leave that out by `crossed` and are proved for any
number of deliveries; with two of them, two pictures, places 0 and 1, and three starts and changes
TLC finds no error in `DeliveredAsRecorded` and `UploadsAreOfTheChoice` either, in 15.8 million
states, too many for a regular run.

**Views.**  Three runs compare states by a `VIEW`, which leaves out what no later step and no
property looks at any more: `WithoutReplies` the last answer of a tool, the `Essential` of
`MCRewriteReview` the claim of a run that has ended, the deliveries promised and the number of the
version, the `Essential` of `MCChatDispatch` the words and facts of a message that is answered and
the claim and losses of a run that has ended.  Two states with one view have the same successors up
to the view (two jobs and two reviews make at most four versions, so that bound never bites), and
nothing is missed but the repetition.

**Time.**  `GenerationRun` counts in units of 300 s.  The real limits (900, 1200, grace 300: 3, 4, 1)
are used where they matter, in `SweptIsDead`; elsewhere limits of one unit give every order of
events with fewer states.  In the other modules a limit may strike at any moment.

**Deadlock** is checked where the system can always go on (`GenerationRun`: time can pass).  In
the others the end of all activity is normal (all drafts closed, all messages answered, bounds
reached), so it is not.

**Fairness.**  Safety runs assume none.

* `RewriteReview!FairSpec`: the queue hands every job to the worker and every job ends (arq's time
  limits), a dispatch ends (it is a job too), and pages that are open poll, which is when stale
  runs are swept (`App.tsx` reloads every 2 s, `api/routes.py:921`).  Nobody is forced to send a
  message or to press a button, and no model is forced to succeed.  A run is swept there only when
  no job works for it; that the real clocks do not guarantee this is `SweptIsDead` of
  `GenerationRun`.
* `GenerationRun!FairSpec` assumes less: time passes, the worker cancels at the limits, a page
  polls.  Nothing forces a queued job to be started.
* `Collection!FairSpec`: a collection that is under way goes on, because requests and model calls
  have limits of their own and the database aborts one of two transactions that wait for one
  another.  Nothing forces a cancellation, and nothing keeps a call from failing.
* `ReplyStream!FairSpec`: the job goes on (it has a limit), the loop of the server and the timer of
  the page go on, and requests are read and answered.  Requests may still be lost, calls may still
  fail, and nobody is forced to visit the page.
* `ChatDispatch`, `SourceSnapshots` and `DraftAssets` state safety only.

**Mutants.**  Each property is paired in `PROJECT.json` with a mutated definition of the code (a
dropped guard, a missing reset, a forgotten call) under which TLC finds it violated.  The mutated
forms stand in the modules before the definitions they replace, under a comment that begins
with "Mutant"; no specification uses them.

## 5. What is proved

| Theorem | Specification | States |
|---|---|---|
| `DraftLifecycleProofs!TypeCorrect`, `CoreTypeCorrect` | `Spec`, `CoreSpec` | `TypeOK`, and only existing drafts have rows |
| `OneLiveDraft` | `CoreSpec` | `OneLiveDraftPerContent` |
| `ReviewedBeforeItLeaves`, `NothingElseLeaves` | `CoreSpec` | `ApprovedContent` and `OnlyApprovedLeaves`; the second alone |
| `DraftboxTrue`, `DeliveredIsKnown` | `Spec` | `DraftboxShowsRemote`, `DeliveredSourceIsIntroduced` |
| `ClosedStaysClosed` | `CoreSpec` | `ClosedIsFinal` |
| `Refinement` | `CoreSpec` | `ImplementsContract` |
| `SessionTasksProofs!TypeCorrect`, `NoCircularWait` | `Spec` | `TypeOK`, `NoCircle` |
| `TwiceOnlyConcurrently`, `ReadyWaitsForNobody`, `ClosedIsNotReopened`, `DispatchClosesItsSteps` | `ClosingSpec` | `TwiceOnlyUnseen`, `ReadyBlockersClosed`, `ClosedStaysClosed`, `HandedOnIsClosed` |
| `ReviewDeliveryProofs!TypeCorrect`, `WritersApart`, `ReviewsStartAlone` | `Spec` | `TypeOK`, `WritersExclude`, `AtOnceMeansAlone` |
| `GenerationRunProofs!TypeCorrect`, `AtMostOneFinalizer`, `LastJobCloses`, `ReviewedWhenDone` | `Spec` | `TypeOK`, `FinalizedOnce`, `ClosedByTheLast`, `ReviewsWhatIsDone` |
| `CollectionProofs!OneLiveDraft`, `ReportsComplete`, `ItemsAccounted` | `Spec` | `OneLiveDraftPerItem`, `ReportIsComplete`, `EveryItemAccounted` |
| `ChatDispatchProofs!OnePictureAMessage`, `ClosedRunsAreDone`, `NobodyLeftAlone` | `Spec` | `NoSecondPicture`, `CompletedMeansDone`, `LeftAlone` |
| `SourceSnapshotsProofs!Dangling`, `Evidence`, `Kept` | `Spec` | `DanglingHasCause`, `NoWeakEvidence`, `KeptUntilReleased` |
| `ReplyStreamProofs!TypeCorrect`, `OneLate`, `EndsWithReply` | `Spec` | `TypeOK`, `OnePieceLate`, `EndsWithTheReply` |
| `ReviewDeliveryProofs!DeliveryTypes`, `RecordedIsDelivered`, `UploadsBelong`, `ChoiceIsSound` | `DASpec` | `DATypeOK`, `DeliveredAsRecorded`, `UploadsAreOfTheChoice`, `SoundChoice` |

The proofs rest on the named assumptions of the modules (types and bounds of the constants, and
that the values for "none" are no drafts or covers) and hold for every value that meets them: any
number of drafts, sources, versions, dispatches, messages, jobs, pictures, attempts, collections,
items, uploads, frames, requests, paragraphs, deliveries at once, any limits.  Some of the assumptions
are more than types; they are what the code makes sure of:

* the sources of a command are distinct and a named project is one of GitHub
  (`CollectionAssumption`; `reject_duplicate_sources` and `normalize_target`,
  `domain/models.py:181`).  With a source given twice, `ReportIsComplete` and
  `EveryItemAccounted` are false: the second batch meets the items of the first;
* the words by which one text names its steps differ (`DispatchAssumption`; `_scan_steps` keeps one
  step for each kind, `services/chat_receipts.py:96`);
* the places of pictures include the head of the text and the paragraph after it, where the tools put
  a cover they demote, and the minimum of pictures is not above the maximum (`AssetsAssumption`;
  `agent_tools/source_media_tools.py:141`, `tools/illustration_planner.py:412`).

The arguments:

* **Review before every exit.**  Every operation that raises the version also sends the draft back
  to review, and every operation that makes it ready adds the current version to what was approved;
  what the box shows is a pair of a draft and a version that was current while the draft was
  ready or delivered.  The invariant is the conjunction of both with the types; neither is
  inductive without the other, because a delivery shows what the status vouches for.
* **The box and the row.**  `RowTrue` is the property for one draft, and it is inductive with the
  types: an update writes to the article of the draft's own row, a creation takes a free media
  id, so no step on one draft touches the row or the article of another, and every operation that
  raises the version also takes the draft out of draftbox_created.
* **Refinement.**  With the invariants above every action maps to one step of `DraftContract` for
  its draft or to a stutter (selections, keys, introductions, failures).
* **No circle of blockers.**  A task is registered with blockers that exist, hence older ones; a
  reused task keeps its blockers.  So every blocker has a smaller number, whatever the agent does
  to the statuses.
* **A dispatch closes what it handed on.**  The strengthening (`FinishInv`) adds the absence of
  circles and that the loop stays within its plan; then closing a step closes its row, and neither
  a release, which looks at waiting rows only, nor a reused row opens it again.
* **Queued twice.**  A new row remembers the open rows of its title that another transaction hid, and
  one that hides nothing is made only when no open row of its title is seen; so at the moment of
  registration the property holds for the new row and all before it.  After that neither a commit
  nor a report nor a release opens a row again (`ClosingStep`), which is why the agent that reopens
  tasks by hand is left out.
* **What leaves was approved, what is delivered is known.**  The first is the half of the review
  invariant that speaks of the draft box.  For the second, `Traced` looks at the article and not
  at the status: a draft whose row names one has a known source, also when it was sent back to
  review, because an update of that article makes the draft delivered without asking again.
  Taking a source out of the library records it in `removed`, so "known" never stops.
* **Who may write.**  That a job is superseded when it finds the claim of another run is one look;
  the property is about everything between the request and the last word of the job.  `Held`: a run
  with a job that is queued or at work, which is running, claims the draft, or has asked for another
  rewrite as well, whose end gives up the claim of both.  Everything a step can do to that is in
  five facts (`Moves`): what becomes of a row and its claim (`RowsStep`), that a new job belongs to
  a run that claims (`NewJobs`), that a job which begins has found no claim it could see
  (`NewWriters`), that a review is made at once only if no rewrite of others is seen
  (`ReviewsStep`), and that nobody grows younger.  `UnseenStays` carries the exceptions along: a
  claim that is too old, a run that was closed under its job, a run with several jobs and the
  origin run stay unseen as long as their jobs live.  `Apart` is the conjunction with both
  properties; without the four exceptions they do not hold, see `OneRewriteAtATime`
  below.
* **One finalizer.**  `Once` adds that nobody has passed in an attempt that was not opened, nor in
  this one while its event is absent, which is what the gate asks for.
* **The last one closes.**  `LastCloses`: unless a call slipped, in a running attempt without a
  finalization event a finalizer is in the queue, or a row is unfinished, or the text job is not over
  and has no rows yet (`Pending`), and with the event the finalizer is at work.  For a row that is
  unfinished to mean that somebody is at work, a row without a job must belong to a text job that is
  still enqueueing, only the job of a row may write "running" there, and rows must belong to
  attempts that were opened (`RowsMade`).  `slipped` is set by a failing call only, and only in the
  attempt it belongs to; a retry clears it.
* **Reviewed when done.**  In the first attempt all rows are of that attempt (`OnlyAttempt`), so a
  gate that finds none unfinished finds all of them over; from the second attempt on this fails,
  see `ClosedAfterWriting` below.
* **One live draft per item.**  The look for a live draft and the insert are two statements, and
  READ COMMITTED does not hide what others commit in between.  What keeps two collections apart is
  the row of the item, which `save_source` has written before: rows are locked by one transaction
  (`LocksExclude`), who has looked or made a draft still holds the row (`CheckedHeld`,
  `PendingHeld`), and hence no item with a draft in an open transaction has a live one
  (`PendingNew`).  The property is not inductive without the last part.
* **Accounts and report of a collection.**  Counters live in memory and drafts in transactions that
  may be rolled back, and the property speaks of the end only.  `Sound` says for every step of a
  batch what is still to be counted (`Accounts`, `Left`), that an item that is not counted yet is
  neither made nor lost (`AtWork`), that nothing of a source is lost before its batch begins
  (`Clean`), and that what was made or is pending is what was counted as created but for what was
  lost (`Books`).  Batches are of different sources and lists name an item once (`Sourced`), so the
  loss of an item belongs to one batch.  A thread that goes on after the time limit keeps its books
  like any other; it has told "timeout" before.
* **A message and its dispatch.**  `Good` has one part per question.  `OnePicture`: the decision
  is carried out only once the thread of the agent has ended by itself, and makes a picture only if
  the checkpoint, which has at least the tools called for this message, has no call of that tool;
  a thread that goes on after its limit has no decision after it.  How often the tool is called does
  not matter to that.  `JobsKnown`: what is still to be done for the message, a job or a review that
  waits, in its own run or in another, is a fact of its steps that keeps the run open, but for the
  two answers of a command.  `Explained`: a run that was handed on has a job that reports to it, a
  writer its review waits for, a cause or a loss.  What starting a job may do to anybody is one
  operator (`Effects`), proved once for each kind of step; what the end of a job may do is another
  (`Ended`), proved once for each of the ends: who waited for it and does not get what he waits for
  is either reported to by what it starts or has lost it.  What a step may do to the *other* messages
  is the third (`Beside`): a run that stays open keeps who reports to it.
* **Late pieces.**  `Pieces`: after the last frame of the dispatch the look is no longer waited
  for, so only its thread can hold a piece, and it finds the stream closed when it comes for the
  next.  A piece that was late is one it held already, hence the second cannot exist.
* **The stored answer.**  `Answered`: a run is over exactly when the worker is at its end, and what
  was stored then stays.  The server ends a stream for a run only when it has read that the run is
  over, and sends the message the row points at as the last text, which replaces what was shown.
* **Snapshots.**  Every object gets a number nobody has seen, so no upload makes a name valid that
  somebody gave up (`Fresh`).  What a task may know and commit is decided by its kind and its
  place (`EvidenceOf`, `PendingOf`, together `LocalOK`); a commit then leaves the row as it was,
  names a new object, or gives the copy up, and a deletion that is followed by a rollback is
  recorded in `undone`.
* **What a delivery works on.** The row is read minutes before it is written, so neither property of
  it is inductive without what the delivery carries along.  `Undisturbed`, which holds until
  `crossed` is set, says for every delivery under way: its copy of the row is the row but for the
  columns it has written (`Loaded`); the copy is itself consistent, its uploads those of its choice
  (`Owned`) and what it calls delivered shown at WeChat (`Told`); what it has is enough for the step
  it is at (`Stage`: uploads that match the choice before they are recorded, a draft at WeChat that
  shows the copy before it is marked); and while the row says "delivered", a delivery only sends
  again what the row records (`Again`).  The last part is what makes the moment between sending and
  commit harmless: the remote draft is overwritten with what it shows already.  It needs in turn
  that a delivered row is of a draft that is not open, which is why the status is in `Loaded`: a
  review, of an open draft, may overwrite the remote draft with a new choice and then be rolled
  back.  `DAInv` is this with the types; TLC checked it with one delivery (1.5 million states)
  before it was proved.
* **The choice of pictures.** What a pass over a list computes is a function of the position, and
  the list has any length.  A position at which the claim fails would have a least one, and that one
  is neither 0 nor the successor of a position at which it holds (`LeastOfNat`, from the well-
  foundedness of `<` on `Nat`, and `PassIsSteps`); this replaces the induction, whose library
  theorem the provers cannot instantiate.  `Extends` says what a pass does to the pictures it is
  given: it keeps them at their positions and adds wanted ones after them; `Passed` adds that
  paragraphs stay apart and that every wanted picture has one of the list in its paragraph.
  `PolicyIsSound` composes the four passes and cuts the list; a cut below the minimum happens only
  when the last pass has taken all it could.  That the candidates have an order of the text at all
  (`InOrderLists`) is proved the same way, from a set of pictures of least size that would have
  none.

**Only model-checked:** the liveness properties (`NeverLocked`, `WrittenIsReported`, `RunEnds`,
`RunRowCloses`, `SpinnerStops`), which are beyond the prover, as everything that needs fairness;
the mutants of section 4; and everything in section 6.

## 6. What the code says and does not keep

Each of these is a property of its module that the model of the code violates, with a configuration
to see it: `tlc -config <cfg>.cfg MC<module>.tla`.  A configuration with several properties reports
the first one TLC meets; comment the others out to see a given one.  They are not part of the
regular runs; a fix of the code and of its definition turns them into passing ones.

**Drafts** (`MCDraftLifecycle`, `LifecycleClaims` but for the first)

| Property | Where | What happens |
|---|---|---|
| `DraftboxNeedsApproval` (`LifecycleDraftboxNeedsApproval`) | `api/routes.py:2066` | the button of the publish page delivers a draft whatever its status |
| `ReplyIsTrue` | `agent_tools/draft_actions.py:826` | the key of the agent's decision is draft and action, so a second approval (after an edit, say) changes nothing and is answered "已对《…》执行：审核通过" (`:832`) |
| `NoDuplicateRemote` | `services/auto_delivery.py:358` | any error of an update falls back to a creation and the old article is forgotten, against "不会留下重复草稿" (`agent_tools/draft_actions.py:873`) |
| `PublishedSourceIsIntroduced` | `storage/repositories.py:1696` | manual publication records only GitHub sources as introduced, against `:1556`, which says every source that was published is left out |
| `RewriteVoidsSelection` | `worker.py:477` | a rewrite of the text alone keeps the selection of images, against "重新生成会作废旧投递素材选择" (`:517`) |

**Tasks** (`MCSessionTasks`; `TasksClearedClaims` for the first two, `TasksClaims` for the others)

| Property | Where | What happens |
|---|---|---|
| `SkipCascades` | `services/session_tasks.py:151` | a skipped task does not skip its own dependents, which stay pending; `storage/tables.py:508` says they follow |
| `PendingWaits` | `agent_tools/session_task_tools.py:124` | clearing strips the id first and then looks for who names it; the waiting task is never released |
| `OneOpenPerTitle` | `services/session_tasks.py:99` | "避免同一件事排两遍": a registration that is not committed is not found, and the same step is queued by two dispatches |
| `DeliverWaitsForReview` | `services/chat_dispatch.py:515` | the review task is completed when the review is handed over, so the delivery is released before it has passed (`:458` "由审核完成时放行") |
| `CompletedInTurn` | `services/session_tasks.py:178` | the report of a delivery completes any open delivery task, a waiting one included |
| `PlanWired` | `services/session_tasks.py:102` | a reused task drops the dependencies the new plan asks for |
| `ReportedResultStands` | `services/chat_dispatch.py:358` | a failure that was reported before the list is closed is overwritten with "completed" |

**Rewrites and reviews** (`MCRewriteReview`)

| Property (configuration) | Where | What happens |
|---|---|---|
| `OneRewriteAtATime` (`RewritesTwice`) | `agent_tools/draft_actions.py:353` | tool and step of one message: the step looks at the row its session read before the tool wrote, and enqueues a second job |
| `OneRewriteAtATime` (`RewritesWeb`) | `api/routes.py:1665` | the page's rewrite neither claims nor asks for a claim |
| `SupersededByAJob` (`RewritesSuperseded`) | `agent_tools/draft_actions.py:355` | a request that is turned away keeps its claim; the job it was turned away for finds that claim, gives way to it, and nobody rewrites |
| `ReviewsTheRewrite` (`RewritesReviewEarly`) | `worker.py:1105` | pictures that end launch the review that waits for the rewrite |
| `PromiseKept` (`RewritesPromise`) | `worker.py:682` | a wish to deliver that was merged into a running review is never read |
| `RevisionAlone` (`RewritesReviewEarly`) | `services/auto_delivery.py:541` | the check for a rewrite leaves out the own run and comes before the model calls |
| `MarkerHasReader` (`RewritesStranded`) | `worker.py:569` | a rewrite that fails or is superseded launches nothing |

**Generation** (`MCGenerationRun`)

| Property (configuration) | Where | What happens |
|---|---|---|
| `ClosedWhenPicturesEnd` (`GenerationLostUpdate`) | `worker.py:562` | the row of a picture is set back to "queued" after its job has ended, and every finalizer finds it unfinished |
| `SweptIsDead` (`GenerationSweptAlive`) | `config.py:143` | 1500 s after the opening a run is swept, while text and picture jobs in sequence may take 2100 s |
| `ClosedAfterWriting` (`GenerationStaleFinalizer`) | `worker.py:1067` | a finalizer of the first attempt passes the gate of the second before its rows exist, or closes it after its reviews |
| `KeptIsKept` (`GenerationCancelled`) | `worker.py:570` | "原草稿未被覆盖" is said while the thread of the cancelled job goes on and commits |
| `OneWriter` (`GenerationCancelled`) | `worker.py:569` | the thread of the cancelled job and the job of a retry write the same draft |

**Collections** (`MCCollection`, `CollectionClaims`: a feed and a paper with one content hash)

| Property | Where | What happens |
|---|---|---|
| `OneLiveDraftPerContent` | `storage/repositories.py:1537` | only dropped drafts let the same content be made again; two sources with one hash have no row in common, and both collections make a draft |
| `CreatedIsMade` | `workflows/content_workflow.py:141` | an item of a feed whose commit fails stays among the created ones and is counted as an error as well |
| `FailedMadeNothing` | `worker.py:212` | "未生成新的草稿" is said of a run that breaks after items or batches of it are committed |
| `EndedRowIsClosed` | `agents/content_main_agent.py:340` | a cancelled job passes by `except Exception`: its row stays "running", and nothing sweeps these rows |

**Dispatch** (`MCChatDispatch`, `ChatDispatchClaims`)

| Property | Where | What happens |
|---|---|---|
| `HandedOnHasJob` | `agents/content_deep_agent.py:118`, `:162` | the tools "of this call" are those of the whole checkpoint, whichever message called them and whatever they answered: the run waits for a job that is not there; or it waits for the job of another run, which will not report to it |
| `ClosedLeavesNothing` | `services/chat_dispatch.py:597` | a command that is answered with `queued_after_rewrite` or `already_running` closes its run, though the jobs are said to close it from there on (`:414`); its review waits, or runs, for a message that is over |
| `NothingExecuted` | `agents/content_deep_agent.py:433` | "未执行…" is said at the time limit while the thread has called tools and goes on |
| `EveryStepAnswered` | `services/chat_dispatch.py:519` | a step that is handed on ends its plan, and the steps after it are neither done nor named by anybody |
| `ReceiptNamesCommand` | `services/chat_receipts.py:56` | commands that are not registered there get the receipt of whatever words the button's text holds, as the comment itself warns |

With `SPECIFICATION RestartSpec` in `ChatDispatch.cfg`, `NoSecondPicture` and `CompletedMeansDone`
fail too, against "一条用户消息 → 一次执行 → 一条结果" (`services/chat_dispatch.py:818`): both ways in
ask whether the run is still running (`worker.py:601`, `services/chat_dispatch.py:821`), but a
dispatch that was cancelled leaves it so, and the second execution does again what the first did.

**Snapshots** (`MCSourceSnapshots`, `SourceSnapshotsClaims`)

| Property | Where | What happens |
|---|---|---|
| `CapturedFirst` | `worker.py:437` | "先转存再生成": the copy is made in a session that only reads and ends without a commit; the object is there and no row names it |
| `CleanupIsHarmless` | `services/auto_delivery.py:301` | "清理失败只记日志，不影响投递结果": a failed statement leaves a transaction that cannot commit any more, after the remote draft was made |
| `RefreshStores` | `storage/repositories.py:2016` | a row that is closed is taken for one that is there, and the fetched text is not stored |
| `FailedRefreshKeeps` | `services/source_snapshots.py:89` | "已保留旧证据" holds for a deletion that fails, not for what fails after it: the object is gone and the row comes back |
| `ClosedHasNoCopy` | `services/source_snapshots.py:21` | a draft that is rejected or dropped on its page keeps its copy; only deliveries and one of the ways to discard give it up |
| `NoOrphan` | `services/source_snapshots.py:86` | an upload whose transaction is rolled back stays in the bucket |

**Streams** (`MCReplyStream`, `ReplyStreamClaims`)

| Property | Where | What happens |
|---|---|---|
| `PollBringsTheReply` | `frontend/src/App.tsx:330` | "轮询仍会带回最终消息": messages and runs are read in two statements; a page that sees the run over without its last message asks no more |
| `NothingMissed` | `services/reply_stream.py:10` | pieces between the reading of the buffer and the subscription are in neither; also, the buffer is cleared right after the last frame although `:27` keeps it for late readers |
| `Dropped` | `services/chat_dispatch.py:875` | a thread of the look that sends its piece late, or a last frame that is lost, leaves the text of the dispatch on the page |
| `EndsWithLastMessage` | `api/routes.py:977` | "最终一定下发完整文本": a run that failed still points at its receipt, and that is the text that is sent; its last message is another one |

**Pictures and deliveries** (`MCDraftAssets`, `DraftAssetsClaims`)

| Property | Where | What happens |
|---|---|---|
| `ChoiceIsDelivered` | `services/auto_delivery.py:493` | a new choice with the cover of an earlier delivery finds that cover uploaded, skips the uploads and sends the article without the pictures in the text |
| `OnlyKeptPictures` | `api/routes.py:1741` | a picture that was taken out of the text is delivered from the uploads that are there |
| `OneCover` | `agent_tools/source_media_tools.py:142` | the tools demote the cover before they set another; the change of use on the page does not |
| `OneAtAParagraph` | `agent_tools/source_media_tools.py:125` | places are kept apart as numbers, and all numbers beyond the end of the text show up after its last paragraph |
| `PictureHasItsFile` | `api/routes.py:1947` | the object is deleted before the row, and the row comes back when the commit fails |
| `FooterHasItsAsset` | `api/routes.py:1973` | an asset is deleted although the preferences name it |
| `FooterOnEveryDelivery` | `agent_tools/publication_preferences.py:232` | the button of the publish page sends without looking at the preferences |

`DeliveredAsRecorded` and `UploadsAreOfTheChoice` need their `~crossed`: a choice made void between a
delivery's load and its commit comes back in parts, because only changed columns are written, and of
two deliveries under way the second to commit mixes its columns with those of the first, or has
overwritten the remote draft that the row of the first describes.
One defect was met on the way that no property is about: `agent_tools/draft_assets.py:146` reads a
variable `items` that is not defined there, so attaching an asset as the cover by that tool raises
`NameError` (`AttachByTool` has only what it can do).

## 7. What is not modelled

* The contents of texts, prompts, pictures, messages and events, and what models answer: every
  outcome is possible wherever the code distinguishes outcomes.
* Transactions that overlap inside `DraftLifecycle` (an edit beside another writer of the version)
  and jobs that run before the commit of who enqueued them.
* In `RewriteReview` the revision job (`process_draft_revision_job`), the threads that survive
  cancelled jobs, and what comes between enqueueing a job and committing its rows, or between reading
  the marker and writing it; in `GenerationRun` the time limit of finalizers, the second execution of a job
  after the worker restarts, the deletion of records, the review inside a finalizer.  A picture
  row takes its attempt when it is committed.
* In `Collection` the collectors themselves (any listing is possible), trending snapshots and
  failure notifications; in `ChatDispatch` what the jobs do (they are seen by what they work on, the
  run they report to and what their end starts), what happens inside a step or a tool call, and the
  renaming, deletion and memory of sessions; in `SourceSnapshots` several drafts of one source; in
  `ReplyStream` the milestones of a run and runs that are deleted; in `DraftAssets` prompts and
  styles of pictures.
* *Generation of texts* (`services/generator.py`, `agents/content_task_agents.py`,
  `tools/auto_review.py`): no state; its outcomes are nondeterministic where it is called.
* *Pure text algorithms* (`services/plain_text.py`, `evidence_selector.py`, `normalizer.py`): functions
  of characters, whose models would be as long as the code.
* *Plans that need confirmation* (`tools/plan_tools.py`, `agents/conversation_agent.py`): no caller
  proposes one any more.
* *Source collectors, failure notifications, the rest of the web frontend, migrations, scripts and
  deployment*: no state of their own, or none that the rest depends on.
