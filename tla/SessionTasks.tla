---------------------------- MODULE SessionTasks ----------------------------
(***************************************************************************)
(* The task list of one chat session (services/session_tasks.py) and those *)
(* who write it: the dispatch of a message with several steps, which       *)
(* registers them and closes them again when it has handed them on; the    *)
(* background jobs, which report their end to the list; and the tools of   *)
(* the chat agent.                                                         *)
(*                                                                         *)
(* The id of a task is its index in tasks: rows are created in that order  *)
(* and a removed row keeps its index with status "cleared".                *)
(*                                                                         *)
(* What a dispatch registers is in its transaction until one of its steps, *)
(* or its end, commits: nobody else sees it.  Reports of jobs, tools of    *)
(* the agent and the closing of a plan are transactions without a wait     *)
(* inside; they come one after the other.                                  *)
(***************************************************************************)
EXTENDS Naturals, Sequences, FiniteSets

CONSTANTS Runs,        \* dispatches of a message (chat runs) with several steps
          Plans,       \* step sequences the receipt planner finds in a message
          AgentTitles, \* titles the agent registers; a kind is its own label
          AgentKinds,  \* kinds the agent registers
          MaxTasks,    \* bound on rows ever created
          MaxDeps      \* bound on the blockers the agent names for one task

Kinds     == {"collect", "rewrite", "image", "review", "deliver"}
Position  == [collect |-> 10, rewrite |-> 30, image |-> 40, review |-> 50, deliver |-> 60]
Reporting == {"rewrite", "review", "deliver"}
Blockers(k) == CASE k = "deliver" -> {"review"} [] k = "review" -> {"rewrite"} [] OTHER -> {}

ASSUME TasksAssumption ==
    /\ MaxTasks \in Nat /\ MaxDeps \in Nat
    /\ \A p \in Plans : p \in Seq(Kinds) /\ Len(p) > 1
    /\ AgentKinds \subseteq Kinds
    /\ {"none", "job", "agent"} \cap Runs = {}

Open     == {"pending", "ready", "running"}
Blocking == {"failed", "skipped"}
Closed   == {"completed"} \cup Blocking
Titles   == Kinds \cup AgentTitles
NoTask   == 0    \* an id no row has

Task == [title : Titles, kind : Kinds, status : Open \cup Closed \cup {"cleared"},
         deps : SUBSET (0..MaxTasks),
         by : Runs \cup {"none"},       \* the transaction that has it, "none" when committed
         unseen : SUBSET (1..MaxTasks)] \* open tasks of its title nobody could see (history)

VARIABLES
    tasks,   \* session_tasks rows of the session
    left,    \* rows release_dependents has still to look at
    writer,  \* the dispatch whose transaction is closing tasks
    phase,   \* per run: "idle", "register", "execute", "finish"
    steps,   \* per run: the steps of its message
    at,      \* per run: the step it is at
    mapping, \* per run: the task registered for each kind of step
    facts,   \* per run: how each kind of step ended, "none" when not executed
    jobs     \* kinds of background jobs under way in the session

vars == <<tasks, left, writer, phase, steps, at, mapping, facts, jobs>>
planVars == <<writer, phase, steps, at, mapping, facts>>

Ids == 1..Len(tasks)
Present == {t \in Ids : tasks[t].status # "cleared"}
OpenTasks == {t \in Ids : tasks[t].status \in Open}
Seen(v) == {t \in Present : tasks[t].by \in {"none", v}}
Before(t, u) == \/ Position[tasks[t].kind] < Position[tasks[u].kind]
                \/ Position[tasks[t].kind] = Position[tasks[u].kind] /\ t <= u
First(S) == CHOOSE t \in S : \A u \in S : Before(t, u)

NoTasks == [k \in Kinds |-> NoTask]
NoFacts == [k \in Kinds |-> "none"]

Init ==
    /\ tasks = << >> /\ left = {} /\ writer = "none" /\ jobs = {}
    /\ phase = [r \in Runs |-> "idle"]
    /\ steps = [r \in Runs |-> << >>]
    /\ at = [r \in Runs |-> 1]
    /\ mapping = [r \in Runs |-> NoTasks]
    /\ facts = [r \in Runs |-> NoFacts]

---------------------------------------------------------------------------
\* The operations of services/session_tasks.py.

\* Mutant of SameTitle: tasks that wait are not looked at.
SameTitleActive(v, title) ==
    {t \in OpenTasks \cap Seen(v) : tasks[t].title = title /\ tasks[t].status # "pending"}

\* What v finds: another transaction's tasks are hidden until it commits.
SameTitle(v, title) == {t \in OpenTasks \cap Seen(v) : tasks[t].title = title}
Hidden(v, title) == {t \in OpenTasks \ Seen(v) : tasks[t].title = title}

Row(v, title, kind, deps) ==
    [title |-> title, kind |-> kind, deps |-> deps, status |-> IF deps = {} THEN "ready" ELSE "pending",
     by |-> IF v \in Runs THEN v ELSE "none", unseen |-> Hidden(v, title)]

\* Mutants of AddTask: the blockers of the plan are added to a reused task; a new
\* task is ready whatever its blockers.
AddTaskRewired(v, title, kind, deps) ==
    IF SameTitle(v, title) # {}
    THEN tasks' = [tasks EXCEPT ![First(SameTitle(v, title))].deps = @ \cup deps]
    ELSE Len(tasks) < MaxTasks /\ tasks' = Append(tasks, Row(v, title, kind, deps))
AddTaskReady(v, title, kind, deps) ==
    IF SameTitle(v, title) # {} THEN UNCHANGED tasks
    ELSE Len(tasks) < MaxTasks /\ tasks' = Append(tasks, [Row(v, title, kind, deps) EXCEPT !.status = "ready"])

\* add_task: an open task of that title is reused; its blockers stay as they were.
\* Nothing keeps the title unique but the look for it.
AddTask(v, title, kind, deps) ==
    IF SameTitle(v, title) # {} THEN UNCHANGED tasks
    ELSE Len(tasks) < MaxTasks /\ tasks' = Append(tasks, Row(v, title, kind, deps))

\* Mutant of AddedTask: the caller is given a new id although the task was reused.
AddedTaskNew(v, title) == Len(tasks) + 1

AddedTask(v, title) == IF SameTitle(v, title) # {} THEN First(SameTitle(v, title)) ELSE Len(tasks) + 1

Dependents(v, t) == {c \in Seen(v) : t \in tasks[c].deps}

\* complete_task, fail_task and update_task: any status from any status; the
\* dependents v sees are then looked at one by one.  No effect when the row is gone.
SetStatus(v, t, s) ==
    IF t \in Seen(v)
    THEN tasks' = [tasks EXCEPT ![t].status = s] /\ left' = Dependents(v, t)
    ELSE UNCHANGED <<tasks, left>>

\* release_dependents, one dependent: blockers whose row is gone do not count.
\* Who sees a task sees its blockers: they were registered by the same dispatch or
\* committed before.
FoundBlockers(c) == {d \in tasks[c].deps : d \in Present}
Blocked(c) == \E d \in FoundBlockers(c) : tasks[d].status \in Blocking
Finished(c) == \A d \in FoundBlockers(c) : tasks[d].status = "completed"

\* Mutant of Release: dependents are released whatever their status.
ReleaseAny ==
    /\ left # {}
    /\ \E c \in left :
         /\ \A u \in left : Position[tasks[c].kind] <= Position[tasks[u].kind]
         /\ left' = left \ {c}
         /\ tasks' = IF Blocked(c) THEN [tasks EXCEPT ![c].status = "skipped"]
                     ELSE IF Finished(c) THEN [tasks EXCEPT ![c].status = "ready"]
                     ELSE tasks
    /\ UNCHANGED <<planVars, jobs>>

Release ==
    /\ left # {}
    /\ \E c \in left :
         /\ \A u \in left : Position[tasks[c].kind] <= Position[tasks[u].kind]
         /\ left' = left \ {c}
         /\ tasks' = IF tasks[c].status # "pending" THEN tasks
                     ELSE IF Blocked(c) THEN [tasks EXCEPT ![c].status = "skipped"]
                     ELSE IF Finished(c) THEN [tasks EXCEPT ![c].status = "ready"]
                     ELSE tasks
    /\ UNCHANGED <<planVars, jobs>>

Quiet == left = {} /\ writer = "none"

---------------------------------------------------------------------------
\* Dispatch of a message with several steps.

BeginPlan(r, p) ==
    /\ Quiet /\ phase[r] = "idle"
    /\ phase' = [phase EXCEPT ![r] = "register"]
    /\ steps' = [steps EXCEPT ![r] = p]
    /\ UNCHANGED <<tasks, left, writer, at, mapping, facts, jobs>>

\* _record_plan_tasks, one step: it waits for those of its blockers that the
\* plan has registered before it.  Nothing is committed here.
Registered(r) == {k \in Kinds : mapping[r][k] # NoTask}
PlanDeps(r, k) == {mapping[r][b] : b \in Blockers(k) \cap Registered(r)}

RegisterStep(r) ==
    /\ Quiet /\ phase[r] = "register" /\ at[r] <= Len(steps[r])
    /\ LET k == steps[r][at[r]] IN
         /\ AddTask(r, k, k, PlanDeps(r, k))
         /\ mapping' = [mapping EXCEPT ![r][k] = AddedTask(r, k)]
    /\ at' = [at EXCEPT ![r] = @ + 1]
    /\ UNCHANGED <<left, writer, phase, steps, facts, jobs>>

ExecutePlan(r) ==
    /\ Quiet /\ phase[r] = "register" /\ at[r] > Len(steps[r])
    /\ phase' = [phase EXCEPT ![r] = "execute"]
    /\ at' = [at EXCEPT ![r] = 1]
    /\ UNCHANGED <<tasks, left, writer, steps, mapping, facts, jobs>>

\* The end of a transaction: others see its rows, or they are gone.
Committed(r) == [t \in Ids |-> IF tasks[t].by = r THEN [tasks[t] EXCEPT !.by = "none"] ELSE tasks[t]]
RolledBack(r) ==
    [t \in Ids |-> IF tasks[t].by = r THEN [tasks[t] EXCEPT !.by = "none", !.status = "cleared", !.deps = {}]
                   ELSE tasks[t]]

\* Steps that commit before they enqueue; rewrite and review enqueue first.
CommitsFirst == {"collect", "image", "deliver"}

\* The loop over the steps ends at the first one that was handed to a job (or
\* joined one under way), an image excepted.  A delivery after a review that
\* was handed on is thus never reached.  A step is "handed_on" when it started a
\* job, queued one behind another, or joined one that was under way.
ExecuteStep(r, fact, commits) ==
    /\ Quiet /\ phase[r] = "execute"
    /\ LET k == steps[r][at[r]] IN
         /\ k = "collect" => fact = "handed_on"
         /\ commits => k \in CommitsFirst
         /\ k \in CommitsFirst /\ fact = "handed_on" => commits
         /\ tasks' = IF commits THEN Committed(r) ELSE tasks
         /\ facts' = [facts EXCEPT ![r][k] = fact]
         /\ jobs' = IF fact = "handed_on" /\ k \in Reporting THEN jobs \cup {k} ELSE jobs
         /\ IF (fact = "handed_on" /\ k # "image") \/ at[r] = Len(steps[r])
            THEN /\ phase' = [phase EXCEPT ![r] = "finish"]
                 /\ at' = [at EXCEPT ![r] = 1]
            ELSE at' = [at EXCEPT ![r] = @ + 1] /\ UNCHANGED phase
    /\ UNCHANGED <<left, writer, steps, mapping>>

\* Mutant of FinishStep: what was handed on is set running and left to its job.
FinishStepRunning(r) ==
    /\ left = {} /\ writer \in {"none", r} /\ phase[r] = "finish" /\ at[r] <= Len(steps[r])
    /\ LET k == steps[r][at[r]] IN
         CASE facts[r][k] = "none"     -> UNCHANGED <<tasks, left>>
           [] facts[r][k] = "rejected" -> SetStatus(r, mapping[r][k], "failed")
           [] OTHER                    -> SetStatus(r, mapping[r][k], "running")
    /\ writer' = r
    /\ at' = [at EXCEPT ![r] = @ + 1]
    /\ UNCHANGED <<phase, steps, mapping, facts, jobs>>

\* _finish_plan_tasks, one step: handed on counts as completed, rejected as
\* failed; a step without facts is left as it is.
FinishStep(r) ==
    /\ left = {} /\ writer \in {"none", r} /\ phase[r] = "finish" /\ at[r] <= Len(steps[r])
    /\ LET k == steps[r][at[r]] IN
         CASE facts[r][k] = "none"     -> UNCHANGED <<tasks, left>>
           [] facts[r][k] = "rejected" -> SetStatus(r, mapping[r][k], "failed")
           [] OTHER                    -> SetStatus(r, mapping[r][k], "completed")
    /\ writer' = r
    /\ at' = [at EXCEPT ![r] = @ + 1]
    /\ UNCHANGED <<phase, steps, mapping, facts, jobs>>

ForgetPlan(r) ==
    /\ writer' = "none"
    /\ phase' = [phase EXCEPT ![r] = "idle"]
    /\ steps' = [steps EXCEPT ![r] = << >>]
    /\ at' = [at EXCEPT ![r] = 1]
    /\ mapping' = [mapping EXCEPT ![r] = NoTasks]
    /\ facts' = [facts EXCEPT ![r] = NoFacts]
    /\ UNCHANGED <<left, jobs>>

EndPlan(r) ==
    /\ left = {} /\ writer = r /\ phase[r] = "finish" /\ at[r] > Len(steps[r])
    /\ tasks' = Committed(r) /\ ForgetPlan(r)

\* An exception or the job's time limit while the steps are executed: what is
\* committed stays, nothing closes it; the rest is gone, though a job of the plan
\* may be under way.
BreakPlan(r, commits) ==
    /\ Quiet /\ phase[r] = "execute"
    /\ commits => steps[r][at[r]] \in CommitsFirst
    /\ tasks' = (IF commits THEN Committed(r) ELSE RolledBack(r)) /\ ForgetPlan(r)

---------------------------------------------------------------------------
\* Background jobs.  A message with a single step, a button or a tool of the
\* agent starts one without registering a task.

StartJob(k) ==
    /\ Quiet /\ k \in Reporting \ jobs
    /\ jobs' = jobs \cup {k}
    /\ UNCHANGED <<tasks, left, planVars>>

\* ready_task_for_kind
OfKind(k) == {t \in OpenTasks \cap Seen("job") : tasks[t].kind = k}

\* _advance_session_tasks at the end of a job.  A rewrite reports success only.
ReportJob(k, done) ==
    /\ Quiet /\ k \in jobs /\ (k = "rewrite" => done)
    /\ jobs' = jobs \ {k}
    /\ IF OfKind(k) = {} THEN UNCHANGED <<tasks, left>>
       ELSE SetStatus("job", First(OfKind(k)), IF done THEN "completed" ELSE "failed")
    /\ UNCHANGED planVars

\* A rewrite that failed, a review that raised or was cancelled, a job that had
\* no chat run: the list hears nothing.
EndJobSilently(k) ==
    /\ Quiet /\ k \in jobs
    /\ jobs' = jobs \ {k}
    /\ UNCHANGED <<tasks, left, planVars>>

---------------------------------------------------------------------------
\* The tools of the agent: add_task, update_task, clear_task.

AgentAdd(title, kind, deps) ==
    /\ Quiet
    /\ AddTask("agent", title, kind, deps)
    /\ UNCHANGED <<left, planVars, jobs>>

AgentUpdate(t, s) ==
    /\ Quiet /\ t \in Seen("agent")
    /\ SetStatus("agent", t, s)
    /\ UNCHANGED <<planVars, jobs>>

\* The row goes, and so does its id from the blockers of the others the tool sees.
AgentClear(t) ==
    /\ Quiet /\ t \in Seen("agent")
    /\ tasks' = [u \in Ids |-> IF u = t
                    THEN [tasks[u] EXCEPT !.status = "cleared", !.deps = {}]
                    ELSE IF u \in Seen("agent") THEN [tasks[u] EXCEPT !.deps = @ \ {t}] ELSE tasks[u]]
    /\ UNCHANGED <<left, planVars, jobs>>

AgentDeps == {D \in SUBSET (Seen("agent") \cup {NoTask}) : Cardinality(D) <= MaxDeps}

PlanNext ==
    \E r \in Runs :
        \/ \E p \in Plans : BeginPlan(r, p)
        \/ RegisterStep(r)
        \/ ExecutePlan(r)
        \/ \E fact \in {"handed_on", "rejected"}, commits \in BOOLEAN : ExecuteStep(r, fact, commits)
        \/ FinishStep(r)
        \/ EndPlan(r)
        \/ \E commits \in BOOLEAN : BreakPlan(r, commits)

JobNext ==
    \E k \in Reporting :
        \/ StartJob(k)
        \/ \E done \in BOOLEAN : ReportJob(k, done)
        \/ EndJobSilently(k)

AgentCloses ==
    \/ \E title \in AgentTitles, kind \in AgentKinds, D \in AgentDeps : AgentAdd(title, kind, D)
    \/ \E t \in Ids : \E s \in Closed \cup {tasks[t].status} : AgentUpdate(t, s)
    \/ \E t \in Ids : AgentClear(t)

\* The agent never sets a task back to an open status by hand.
ClosingNext == Release \/ PlanNext \/ JobNext \/ AgentCloses

Next == ClosingNext \/ \E t \in Ids, s \in Open : AgentUpdate(t, s)

PlanSpec == Init /\ [][Release \/ PlanNext \/ JobNext]_vars
ClosingSpec == Init /\ [][ClosingNext]_vars
Spec == Init /\ [][Next]_vars

---------------------------------------------------------------------------
\* Properties.

\* The values the variables range over.
TypeOK ==
    /\ tasks \in Seq(Task) /\ Len(tasks) <= MaxTasks
    /\ left \subseteq Ids
    /\ writer \in Runs \cup {"none"}
    /\ phase \in [Runs -> {"idle", "register", "execute", "finish"}]
    /\ steps \in [Runs -> Plans \cup {<< >>}]
    /\ at \in [Runs -> Nat \ {0}]
    /\ mapping \in [Runs -> [Kinds -> 0..Len(tasks)]]
    /\ facts \in [Runs -> [Kinds -> {"none", "handed_on", "rejected"}]]
    /\ jobs \subseteq Reporting

\* However plans, jobs and the agent interleave, two tasks of one title are open only if the
\* later was registered while the transaction of the earlier was under way: what is committed is
\* never queued twice (add_task), and no release or late close reopens what was done.
TwiceOnlyUnseen ==
    \A t, u \in OpenTasks : t < u /\ tasks[t].title = tasks[u].title => t \in tasks[u].unseen

\* A task that may be executed waits for nobody: every blocker still in the
\* list is closed (release_dependents, add_task).  A blocker may have failed
\* after it released the task, when its plan was closed late.
ReadyBlockersClosed ==
    \A t \in Present : tasks[t].status \in {"ready", "running"} =>
        \A d \in FoundBlockers(t) : tasks[d].status \in Closed

\* Tasks never wait for one another in a circle: a task is blocked by older rows
\* only, also when a plan reuses tasks that were registered in another order.
NoCircle == \A t \in Ids : \A d \in tasks[t].deps : d < t

\* When a dispatch has closed a step, the step's task is not left open: neither
\* by the release of another step nor by the rows the plan shares with others
\* (_finish_plan_tasks).
HandedOnIsClosed ==
    \A r \in Runs : phase[r] = "finish" =>
        \A i \in 1..(at[r] - 1) : LET k == steps[r][i] IN
            facts[r][k] # "none" => mapping[r][k] \notin OpenTasks

\* A closed task never becomes open again (release_dependents looks at waiting
\* tasks only, add_task reuses open ones only).
ClosedKept == \A t \in Ids : tasks[t].status \in Closed => tasks'[t].status \in Closed \cup {"cleared"}
ClosedStaysClosed == [][ClosedKept]_vars

---------------------------------------------------------------------------
\* What the sources say of the list and the code does not keep.

\* session_tasks.py: an open task of the same title is reused, so that nothing is queued
\* twice.  A registration that is not committed is not found.
OneOpenPerTitle == \A t, u \in OpenTasks : tasks[t].title = tasks[u].title => t = u

\* tables.py: a task whose blocker failed or was skipped is skipped with it.
\* release_dependents does not go on to the dependents of a task it skips.
SkipCascades ==
    left = {} => \A t \in Present : tasks[t].status = "pending" => ~Blocked(t)

\* session_tasks.py: "pending" is waiting for a blocker.  add_task waits for
\* blockers that are finished or unknown, clear_task releases nobody.
PendingWaits ==
    left = {} => \A t \in Present : tasks[t].status = "pending" => ~Finished(t)

\* chat_dispatch.py: the delivery waits until the review has passed.  The review's
\* task is completed when the review is handed to its job.
DeliverWaitsForReview ==
    [][\A t \in Ids : /\ tasks[t].kind = "deliver"
                       /\ tasks[t].status = "pending"
                       /\ tasks'[t].status = "ready" => "review" \notin jobs]_vars

\* tables.py: a task has its turn only when its blocker is completed.  The report of
\* another job of the kind completes a task that is still waiting.
CompletedInTurn ==
    \A t \in Present : tasks[t].status = "completed" =>
        \A d \in FoundBlockers(t) : tasks[d].status \in Closed

\* test_session_tasks.py: a plan registers its steps and wires their dependencies.
\* A task that is reused keeps the blockers of the plan that made it.
PlanWired ==
    \A r \in Runs : phase[r] = "execute" =>
        \A i, j \in 1..Len(steps[r]) :
            /\ i < j
            /\ steps[r][i] \in Blockers(steps[r][j])
            /\ mapping[r][steps[r][j]] \in OpenTasks
            => mapping[r][steps[r][i]] \in tasks[mapping[r][steps[r][j]]].deps

\* chat_dispatch.py: the list is closed with the true result of every step.  A job
\* that reports a failure before its dispatch closes the list is overwritten.
ReportedResultStands ==
    [][\A t \in Ids : tasks[t].status = "failed" => tasks'[t].status # "completed"]_vars
=============================================================================
