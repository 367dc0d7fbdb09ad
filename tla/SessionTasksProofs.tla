------------------------- MODULE SessionTasksProofs -------------------------
(***************************************************************************)
(* Proofs about SessionTasks: the types, that no tasks wait for one        *)
(* another in a circle whatever the agent sets, and, as long as it does    *)
(* not reopen tasks by hand, that two open tasks of a title were both      *)
(* being registered at once, that what is ready waits for nobody, and that *)
(* closed tasks stay closed.                                               *)
(*                                                                         *)
(* Every action appends a row or rewrites rows in few ways (ClosingStep);  *)
(* the invariants are proved from these rather than from the actions.      *)
(***************************************************************************)
EXTENDS SessionTasks, TLAPS, SequenceTheorems, WellFoundedInduction

USE TasksAssumption

Grown(v, title, kind, D) ==
    /\ SameTitle(v, title) = {} /\ Len(tasks) < MaxTasks
    /\ tasks' = Append(tasks, Row(v, title, kind, D))

Writers == Runs \cup {"job", "agent"}

GrowStep ==
    \E v \in Writers, title \in Titles, kind \in Kinds, D \in SUBSET (0..Len(tasks)) :
        Grown(v, title, kind, D)

\* What a rewritten row keeps: it loses blockers only, and goes to no other transaction.
Kept(u) ==
    /\ tasks'[u].title = tasks[u].title /\ tasks'[u].unseen = tasks[u].unseen
    /\ tasks'[u].deps \subseteq tasks[u].deps
    /\ tasks'[u].by \in {tasks[u].by, "none"}

RowsStep == tasks' \in Seq(Task) /\ Ids' = Ids /\ \A u \in Ids : Kept(u)

\* The list changes in one of these ways.
ListStep == GrowStep \/ RowsStep

\* The same without an agent that sets an open status.
Still(u) == tasks'[u].status = tasks[u].status
Ended(u) == u \in Present /\ tasks'[u].status \in Closed \cup {"cleared"}
Freed(u) == tasks[u].status = "pending" /\ Finished(u) /\ tasks'[u].status = "ready"

ClosingRows == RowsStep /\ \A u \in Ids : Still(u) \/ Ended(u) \/ Freed(u)
ClosingStep == GrowStep \/ ClosingRows

---------------------------------------------------------------------------
\* First is defined for every non-empty set of tasks.

\* A non-empty set of natural numbers has a least element.
LEMMA LeastNat ==
    ASSUME NEW S, S \subseteq Nat, S # {}
    PROVE  \E m \in S : \A n \in S : m <= n
<1>1. \E m \in S : \A n \in S : ~ (<<n, m>> \in OpToRel(<, Nat))
  BY NatLessThanWellFounded, WFMin
<1>2. PICK m \in S : \A n \in S : ~ (<<n, m>> \in OpToRel(<, Nat))
  BY <1>1
<1>3. \A n \in S : ~ (n < m)
  BY <1>2 DEF OpToRel
<1> QED BY <1>3

\* What TypeOK says of one row.
LEMMA RowFacts ==
    ASSUME TypeOK
    PROVE  /\ Len(tasks) \in Nat /\ Len(tasks) <= MaxTasks /\ tasks \in Seq(Task)
           /\ \A t \in Ids : /\ t \in Nat /\ tasks[t] \in Task
                            /\ tasks[t].kind \in Kinds /\ tasks[t].title \in Titles
                            /\ tasks[t].status \in Open \cup Closed \cup {"cleared"}
                            /\ tasks[t].deps \subseteq 0..MaxTasks
                            /\ tasks[t].by \in Runs \cup {"none"}
<1>1. tasks \in Seq(Task) /\ Len(tasks) <= MaxTasks
  BY DEF TypeOK
<1>2. Len(tasks) \in Nat /\ \A t \in 1..Len(tasks) : t \in Nat /\ tasks[t] \in Task
  BY <1>1
<1>3. \A x \in Task : /\ x.kind \in Kinds /\ x.title \in Titles
                      /\ x.status \in Open \cup Closed \cup {"cleared"}
                      /\ x.deps \subseteq 0..MaxTasks
                      /\ x.by \in Runs \cup {"none"}
  BY DEF Task
<1> QED BY <1>1, <1>2, <1>3 DEF Ids

\* The order of the list (position, then age) has a first element in every
\* non-empty set of rows.
LEMMA FirstIsMember ==
    ASSUME TypeOK, NEW S, S \subseteq Ids, S # {}
    PROVE  First(S) \in S
<1> DEFINE P == {Position[tasks[t].kind] : t \in S}
<1>1. \A t \in S : t \in Nat /\ tasks[t].kind \in Kinds
  BY RowFacts
<1>2. \A k \in Kinds : Position[k] \in Nat
  BY DEF Kinds, Position
<1>3. P \subseteq Nat /\ P # {}
  BY <1>1, <1>2
<1>4. PICK p \in P : \A q \in P : p <= q
  BY <1>3, LeastNat
<1> DEFINE F == {t \in S : Position[tasks[t].kind] = p}
<1>5. F \subseteq Nat /\ F # {}
  BY <1>1, <1>4
<1>6. PICK t \in F : \A u \in F : t <= u
  BY <1>5, LeastNat
<1>7. t \in S /\ Position[tasks[t].kind] = p
  BY <1>6
<1>8. ASSUME NEW u \in S PROVE Before(t, u)
  <2>1. CASE u \in F
    BY <2>1, <1>6, <1>7 DEF Before
  <2>2. CASE u \notin F
    <3>1. Position[tasks[u].kind] \in P /\ Position[tasks[u].kind] # p
      BY <2>2
    <3>2. p <= Position[tasks[u].kind] /\ p \in Nat /\ Position[tasks[u].kind] \in Nat
      BY <3>1, <1>3, <1>4
    <3> QED BY <3>1, <3>2, <1>7 DEF Before
  <2> QED BY <2>1, <2>2
<1>9. \E x \in S : \A u \in S : Before(x, u)
  BY <1>7, <1>8
<1> QED BY <1>9 DEF First
---------------------------------------------------------------------------
\* Every action changes the list by a ListStep.

\* A list built row by row over the ids of the old one.
LEMMA RowByRow ==
    ASSUME TypeOK, NEW f \in [Ids -> Task], tasks' = f
    PROVE  tasks' \in Seq(Task) /\ Ids' = Ids
<1>1. Len(tasks) \in Nat
  BY RowFacts
<1>2. tasks' \in [1..Len(tasks) -> Task]
  BY DEF Ids
<1>3. tasks' \in Seq(Task)
  BY <1>1, <1>2, SeqDef
<1>4. Len(tasks') = Len(tasks)
  BY <1>1, <1>2, <1>3, LenProperties
<1> QED BY <1>3, <1>4 DEF Ids

LEMMA NothingMoves ==
    ASSUME TypeOK, UNCHANGED tasks
    PROVE  ClosingStep
<1>1. tasks' \in Seq(Task) /\ Ids' = Ids
  BY RowFacts DEF Ids
<1> QED BY <1>1 DEF ClosingStep, ClosingRows, RowsStep, Kept, Still

\* The row that is appended is one of Task.
LEMMA RowType ==
    ASSUME TypeOK, NEW v \in Writers, NEW title \in Titles, NEW kind \in Kinds,
           NEW D \in SUBSET (0..Len(tasks))
    PROVE  Row(v, title, kind, D) \in Task
<1>1. Len(tasks) \in Nat /\ Len(tasks) <= MaxTasks
  BY RowFacts
<1>2. D \in SUBSET (0..MaxTasks) /\ Hidden(v, title) \in SUBSET (1..MaxTasks)
  BY <1>1 DEF Hidden, OpenTasks, Ids
<1>3. (IF v \in Runs THEN v ELSE "none") \in Runs \cup {"none"}
  OBVIOUS
<1>4. (IF D = {} THEN "ready" ELSE "pending") \in Open \cup Closed \cup {"cleared"}
  BY DEF Open
<1> QED BY <1>2, <1>3, <1>4 DEF Row, Task

\* The registering caller is given a task of the list that it sees, or the one it appended.
LEMMA AddTaskEffect ==
    ASSUME TypeOK, NEW v \in Writers, NEW title \in Titles, NEW kind \in Kinds,
           NEW D \in SUBSET (0..Len(tasks)), AddTask(v, title, kind, D)
    PROVE  /\ ClosingStep
           /\ AddedTask(v, title) \in 0..Len(tasks')
           /\ Len(tasks') >= Len(tasks)
           /\ v \in Runs => tasks'[AddedTask(v, title)].by \in {"none", v}
<1>0. Len(tasks) \in Nat /\ tasks \in Seq(Task)
  BY RowFacts
<1>1. CASE SameTitle(v, title) # {}
  <2>1. SameTitle(v, title) \subseteq Ids /\ SameTitle(v, title) \subseteq Seen(v)
    BY DEF SameTitle, OpenTasks
  <2>2. First(SameTitle(v, title)) \in SameTitle(v, title)
    BY <1>1, <2>1, FirstIsMember
  <2>3. UNCHANGED tasks
    BY <1>1 DEF AddTask
  <2>4. First(SameTitle(v, title)) \in Ids /\ First(SameTitle(v, title)) \in Seen(v)
    BY <2>1, <2>2
  <2>5. ClosingStep
    BY <2>3, NothingMoves
  <2> QED BY <1>0, <1>1, <2>3, <2>4, <2>5 DEF AddedTask, Ids, Seen
<1>2. CASE SameTitle(v, title) = {}
  <2>1. Grown(v, title, kind, D)
    BY <1>2 DEF AddTask, Grown
  <2>2. Row(v, title, kind, D) \in Task /\ tasks' = Append(tasks, Row(v, title, kind, D))
    BY <2>1, RowType DEF Grown
  <2>3. Len(tasks') = Len(tasks) + 1 /\ tasks'[Len(tasks) + 1] = Row(v, title, kind, D)
    BY <1>0, <2>2
  <2>4. AddedTask(v, title) = Len(tasks) + 1
    BY <1>2 DEF AddedTask
  <2>5. v \in Runs => Row(v, title, kind, D).by = v
    BY DEF Row
  <2> QED BY <1>0, <2>1, <2>3, <2>4, <2>5 DEF ClosingStep, GrowStep
<1> QED BY <1>1, <1>2

\* A row whose status is set: nothing else of the list changes.
LEMMA Moved ==
    ASSUME TypeOK, NEW t \in Ids, NEW s \in Open \cup Closed, tasks' = [tasks EXCEPT ![t].status = s]
    PROVE  /\ RowsStep
           /\ \A u \in Ids : tasks'[u].status = IF u = t THEN s ELSE tasks[u].status
<1>1. tasks \in Seq(Task) /\ Len(tasks) \in Nat /\ \A u \in Ids : tasks[u] \in Task
  BY RowFacts
<1>2. [tasks[t] EXCEPT !.status = s] \in Task
  BY <1>1 DEF Task
<1>3. tasks' = [tasks EXCEPT ![t] = [tasks[t] EXCEPT !.status = s]]
  OBVIOUS
<1>4. tasks' \in Seq(Task) /\ Len(tasks') = Len(tasks)
  BY <1>1, <1>2, <1>3, ExceptSeq DEF Ids
<1>5. \A u \in Ids : tasks'[u] = IF u = t THEN [tasks[t] EXCEPT !.status = s] ELSE tasks[u]
  BY <1>1, <1>3 DEF Ids
<1>6. \A u \in Ids : Kept(u)
  BY <1>1, <1>5 DEF Kept, Task
<1>7. \A u \in Ids : tasks'[u].status = IF u = t THEN s ELSE tasks[u].status
  BY <1>1, <1>5 DEF Task
<1> QED BY <1>4, <1>6, <1>7 DEF RowsStep, Ids

\* Setting a status moves one row and leaves its dependents to be looked at.
LEMMA SetStatusEffect ==
    ASSUME TypeOK, NEW v, NEW t, NEW s \in Open \cup Closed, SetStatus(v, t, s)
    PROVE  /\ ListStep
           /\ (s \in Closed \/ (t \in Ids /\ s = tasks[t].status)) => ClosingStep
           /\ t \in Seen(v) => tasks'[t].status = s
           /\ left' \subseteq Ids \/ left' = left
<1>1. CASE t \in Seen(v)
  <2>1. t \in Ids /\ t \in Present /\ tasks' = [tasks EXCEPT ![t].status = s]
    BY <1>1 DEF SetStatus, Seen, Present
  <2>2. RowsStep /\ \A u \in Ids : tasks'[u].status = IF u = t THEN s ELSE tasks[u].status
    BY <2>1, Moved
  <2>3. left' \subseteq Ids
    BY <1>1 DEF SetStatus, Dependents, Seen, Present
  <2>4. (s \in Closed \/ s = tasks[t].status) => \A u \in Ids : Still(u) \/ Ended(u)
    BY <2>1, <2>2 DEF Still, Ended
  <2> QED BY <2>1, <2>2, <2>3, <2>4 DEF ListStep, ClosingStep, ClosingRows
<1>2. CASE t \notin Seen(v)
  <2>1. UNCHANGED <<tasks, left>>
    BY <1>2 DEF SetStatus
  <2> QED BY <1>2, <2>1, NothingMoves DEF ClosingStep, ClosingRows, ListStep
<1> QED BY <1>1, <1>2

LEMMA ReleaseEffect ==
    ASSUME TypeOK, Release
    PROVE  ClosingStep /\ left' \subseteq left
<1>1. PICK c \in left :
        /\ left' = left \ {c}
        /\ tasks' = IF tasks[c].status # "pending" THEN tasks
                    ELSE IF Blocked(c) THEN [tasks EXCEPT ![c].status = "skipped"]
                    ELSE IF Finished(c) THEN [tasks EXCEPT ![c].status = "ready"]
                    ELSE tasks
  BY DEF Release
<1>2. c \in Ids
  BY DEF TypeOK
<1>3. CASE UNCHANGED tasks
  BY <1>1, <1>3, NothingMoves
<1>4. CASE tasks[c].status = "pending" /\ tasks' = [tasks EXCEPT ![c].status = "skipped"]
  <2>1. RowsStep /\ \A u \in Ids : tasks'[u].status = IF u = c THEN "skipped" ELSE tasks[u].status
    BY <1>2, <1>4, Moved DEF Closed, Blocking
  <2>2. c \in Present
    BY <1>2, <1>4 DEF Present
  <2> QED BY <1>1, <2>1, <2>2 DEF ClosingStep, ClosingRows, Still, Ended, Closed, Blocking
<1>5. CASE tasks[c].status = "pending" /\ Finished(c) /\ tasks' = [tasks EXCEPT ![c].status = "ready"]
  <2>1. RowsStep /\ \A u \in Ids : tasks'[u].status = IF u = c THEN "ready" ELSE tasks[u].status
    BY <1>2, <1>5, Moved DEF Open
  <2> QED BY <1>1, <1>5, <2>1 DEF ClosingStep, ClosingRows, Still, Freed
<1> QED BY <1>1, <1>3, <1>4, <1>5

\* A commit or a rollback of the rows of a transaction.
LEMMA EndEffect ==
    ASSUME TypeOK, NEW r \in Runs, tasks' = Committed(r) \/ tasks' = RolledBack(r)
    PROVE  ClosingStep
<1>1. \A u \in Ids : tasks[u] \in Task
  BY RowFacts
<1>2. \A u \in Ids : /\ [tasks[u] EXCEPT !.by = "none"] \in Task
                     /\ [tasks[u] EXCEPT !.by = "none", !.status = "cleared", !.deps = {}] \in Task
  BY <1>1 DEF Task
<1>3. Committed(r) \in [Ids -> Task] /\ RolledBack(r) \in [Ids -> Task]
  BY <1>1, <1>2 DEF Committed, RolledBack
<1>4. tasks' \in Seq(Task) /\ Ids' = Ids
  BY <1>3, RowByRow
<1>5. ASSUME NEW u \in Ids PROVE Kept(u) /\ (Still(u) \/ Ended(u))
  <2>1. \/ tasks'[u] = tasks[u]
        \/ tasks'[u] = [tasks[u] EXCEPT !.by = "none"]
        \/ tasks'[u] = [tasks[u] EXCEPT !.by = "none", !.status = "cleared", !.deps = {}]
    BY DEF Committed, RolledBack
  <2>2. Kept(u)
    BY <1>1, <2>1 DEF Kept, Task
  <2>3. tasks'[u].status \in {tasks[u].status, "cleared"}
    BY <1>1, <2>1 DEF Task
  <2> QED BY <2>2, <2>3 DEF Still, Ended, Present
<1> QED BY <1>4, <1>5 DEF ClosingStep, ClosingRows, RowsStep

LEMMA ClearEffect ==
    ASSUME TypeOK, NEW t \in Ids, AgentClear(t)
    PROVE  ClosingStep
<1> DEFINE row(u) == IF u = t THEN [tasks[u] EXCEPT !.status = "cleared", !.deps = {}]
                     ELSE IF u \in Seen("agent") THEN [tasks[u] EXCEPT !.deps = @ \ {t}] ELSE tasks[u]
<1>1. \A u \in Ids : tasks[u] \in Task
  BY RowFacts
<1>2. \A u \in Ids : row(u) \in Task
  BY <1>1 DEF Task
<1>3. tasks' = [u \in Ids |-> row(u)] /\ t \in Present
  BY DEF AgentClear, Seen
<1> HIDE DEF row
<1>4. [u \in Ids |-> row(u)] \in [Ids -> Task]
  BY <1>2
<1>5. tasks' \in Seq(Task) /\ Ids' = Ids
  BY <1>3, <1>4, RowByRow
<1>6. ASSUME NEW u \in Ids PROVE Kept(u) /\ (Still(u) \/ Ended(u))
  <2>1. tasks'[u] = row(u)
    BY <1>3
  <2>2. Kept(u)
    BY <1>1, <2>1 DEF Kept, Task, row
  <2>3. tasks'[u].status = IF u = t THEN "cleared" ELSE tasks[u].status
    BY <1>1, <2>1 DEF Task, row
  <2> QED BY <1>3, <2>2, <2>3 DEF Still, Ended
<1> QED BY <1>5, <1>6 DEF ClosingStep, ClosingRows, RowsStep

\* The steps of a message are kinds.
LEMMA StepKind ==
    ASSUME TypeOK, NEW r \in Runs, at[r] <= Len(steps[r])
    PROVE  steps[r][at[r]] \in Kinds
<1>1. steps[r] \in Plans \cup {<< >>} /\ at[r] \in Nat /\ at[r] # 0
  BY DEF TypeOK
<1>2. steps[r] # << >>
  BY <1>1
<1>3. steps[r] \in Seq(Kinds)
  BY <1>1, <1>2
<1> QED BY <1>1, <1>3

\* A registered step waits for tasks that are in the list.
LEMMA PlanDepsInList ==
    ASSUME TypeOK, NEW r \in Runs, NEW k
    PROVE  PlanDeps(r, k) \in SUBSET (0..Len(tasks))
BY DEF TypeOK, PlanDeps, Registered

\* A dispatch that closes a step sets its task to a closed status, or nothing.
LEMMA FinishEffect ==
    ASSUME TypeOK, NEW r \in Runs, FinishStep(r)
    PROVE  LET k == steps[r][at[r]] IN
             /\ k \in Kinds
             /\ \/ facts[r][k] = "none" /\ UNCHANGED <<tasks, left>>
                \/ \E s \in Closed : SetStatus(r, mapping[r][k], s)
<1> DEFINE k == steps[r][at[r]]
<1>1. k \in Kinds
  BY StepKind DEF FinishStep
<1>2. facts[r][k] \in {"none", "handed_on", "rejected"}
  BY <1>1 DEF TypeOK
<1> QED BY <1>1, <1>2 DEF FinishStep, Closed, Blocking

\* The actions of a dispatch, one disjunct each.
LEMMA PlanCases ==
    ASSUME PlanNext
    PROVE  \E r \in Runs :
             \/ \E p \in Plans : BeginPlan(r, p)
             \/ RegisterStep(r)
             \/ ExecutePlan(r)
             \/ \E fact \in {"handed_on", "rejected"}, commits \in BOOLEAN : ExecuteStep(r, fact, commits)
             \/ FinishStep(r)
             \/ ForgetPlan(r) /\ (tasks' = Committed(r) \/ tasks' = RolledBack(r))
                 /\ phase[r] \in {"execute", "finish"}
BY DEF PlanNext, EndPlan, BreakPlan

\* Whatever the agent does not reopen changes the list by a ClosingStep.
LEMMA ClosingEffect ==
    ASSUME TypeOK, ClosingNext
    PROVE  ClosingStep
<1>0. /\ Len(tasks) \in Nat /\ Kinds \subseteq Titles /\ AgentTitles \subseteq Titles
      /\ AgentKinds \subseteq Kinds /\ Runs \subseteq Writers /\ "agent" \in Writers
  BY RowFacts DEF Titles, Writers
<1>1. CASE Release
  BY <1>1, ReleaseEffect
<1>2. CASE PlanNext
  <2>1. PICK r \in Runs :
          \/ \E p \in Plans : BeginPlan(r, p)
          \/ RegisterStep(r)
          \/ ExecutePlan(r)
          \/ \E fact \in {"handed_on", "rejected"}, commits \in BOOLEAN : ExecuteStep(r, fact, commits)
          \/ FinishStep(r)
          \/ ForgetPlan(r) /\ (tasks' = Committed(r) \/ tasks' = RolledBack(r))
    BY <1>2, PlanCases
  <2>2. CASE RegisterStep(r)
    <3> DEFINE k == steps[r][at[r]]
    <3>1. k \in Kinds /\ AddTask(r, k, k, PlanDeps(r, k))
      BY <2>2, StepKind DEF RegisterStep
    <3> QED BY <3>1, <1>0, AddTaskEffect, PlanDepsInList
  <2>3. CASE FinishStep(r)
    <3>1. UNCHANGED tasks \/ \E t : \E s \in Closed : SetStatus(r, t, s)
      BY <2>3, FinishEffect
    <3> QED BY <3>1, SetStatusEffect, NothingMoves
  <2>4. CASE UNCHANGED tasks
    BY <2>4, NothingMoves
  <2>5. CASE tasks' = Committed(r) \/ tasks' = RolledBack(r)
    BY <2>5, EndEffect
  <2> QED
    BY <2>1, <2>2, <2>3, <2>4, <2>5 DEF BeginPlan, ExecutePlan, ExecuteStep
<1>3. CASE JobNext
  <2>1. PICK k \in Reporting :
          StartJob(k) \/ (\E done \in BOOLEAN : ReportJob(k, done)) \/ EndJobSilently(k)
    BY <1>3 DEF JobNext
  <2>2. CASE \E done \in BOOLEAN : ReportJob(k, done)
    <3>1. UNCHANGED tasks \/ \E s \in Closed : SetStatus("job", First(OfKind(k)), s)
      BY <2>2 DEF ReportJob, Closed, Blocking
    <3> QED BY <3>1, SetStatusEffect, NothingMoves
  <2>3. CASE UNCHANGED tasks
    BY <2>3, NothingMoves
  <2> QED BY <2>1, <2>2, <2>3 DEF StartJob, EndJobSilently
<1>4. CASE AgentCloses
  <2>1. ASSUME NEW title \in AgentTitles, NEW kind \in AgentKinds, NEW D \in AgentDeps,
               AgentAdd(title, kind, D)
        PROVE  ClosingStep
    <3>1. D \in SUBSET (0..Len(tasks))
      BY <1>0 DEF AgentDeps, Seen, Present, Ids, NoTask
    <3> QED BY <1>0, <2>1, <3>1, AddTaskEffect DEF AgentAdd
  <2>2. ASSUME NEW t \in Ids, NEW s \in Closed \cup {tasks[t].status}, AgentUpdate(t, s)
        PROVE  ClosingStep
    <3>1. t \in Present /\ SetStatus("agent", t, s)
      BY <2>2 DEF AgentUpdate, Seen
    <3>2. s \in Open \cup Closed
      BY <3>1, RowFacts DEF Present
    <3> QED BY <3>1, <3>2, SetStatusEffect
  <2>3. ASSUME NEW t \in Ids, AgentClear(t) PROVE ClosingStep
    BY <2>3, ClearEffect
  <2> QED BY <1>4, <2>1, <2>2, <2>3 DEF AgentCloses
<1> QED BY <1>1, <1>2, <1>3, <1>4 DEF ClosingNext

LEMMA ListEffect ==
    ASSUME TypeOK, Next
    PROVE  ListStep
<1>1. CASE ClosingNext
  BY <1>1, ClosingEffect DEF ClosingStep, ClosingRows, ListStep
<1>2. CASE \E t \in Ids, s \in Open : AgentUpdate(t, s)
  BY <1>2, SetStatusEffect DEF AgentUpdate
<1> QED BY <1>1, <1>2 DEF Next
---------------------------------------------------------------------------
\* Types.

LEMMA GrownRows ==
    ASSUME TypeOK, NEW v \in Writers, NEW title \in Titles, NEW kind \in Kinds,
           NEW D \in SUBSET (0..Len(tasks)), Grown(v, title, kind, D)
    PROVE  /\ Len(tasks) \in Nat /\ Ids' = Ids \cup {Len(tasks) + 1} /\ Len(tasks) + 1 \notin Ids
           /\ tasks' \in Seq(Task) /\ Len(tasks') <= MaxTasks
           /\ \A u \in Ids : tasks'[u] = tasks[u]
           /\ tasks'[Len(tasks) + 1].title = title /\ tasks'[Len(tasks) + 1].deps = D
           /\ tasks'[Len(tasks) + 1].unseen = Hidden(v, title)
           /\ D # {} => tasks'[Len(tasks) + 1].status = "pending"
<1> DEFINE x == Row(v, title, kind, D)
<1>1. /\ tasks \in Seq(Task) /\ Len(tasks) \in Nat /\ Len(tasks) < MaxTasks
      /\ tasks' = Append(tasks, x) /\ x \in Task
  BY RowFacts, RowType DEF Grown
<1>2. /\ x.title = title /\ x.deps = D /\ x.unseen = Hidden(v, title)
      /\ (D # {} => x.status = "pending")
  BY DEF Row
<1> HIDE DEF x
<1>3. tasks' \in Seq(Task) /\ Len(tasks') = Len(tasks) + 1
  BY <1>1
<1>4. Ids' = Ids \cup {Len(tasks) + 1} /\ Len(tasks) + 1 \notin Ids
  BY <1>1, <1>3 DEF Ids
<1>5. tasks'[Len(tasks) + 1] = x /\ \A u \in Ids : tasks'[u] = tasks[u]
  BY <1>1 DEF Ids
<1>6. Len(tasks') <= MaxTasks
  BY <1>1, <1>3
<1> QED BY <1>1, <1>2, <1>3, <1>4, <1>5, <1>6

\* What a ListStep does to the list as a whole.
LEMMA RowAfter ==
    ASSUME TypeOK, ListStep
    PROVE  /\ tasks' \in Seq(Task) /\ Len(tasks') <= MaxTasks
           /\ Len(tasks') \in Nat /\ Len(tasks') >= Len(tasks)
<1>0. Len(tasks) \in Nat /\ Len(tasks) <= MaxTasks
  BY RowFacts
<1>1. CASE GrowStep
  <2>1. tasks' \in Seq(Task) /\ Len(tasks') <= MaxTasks /\ Len(tasks) + 1 \in Ids'
    BY <1>1, GrownRows DEF GrowStep
  <2> QED BY <1>0, <2>1 DEF Ids
<1>2. CASE RowsStep
  <2>1. tasks' \in Seq(Task) /\ 1..Len(tasks') = 1..Len(tasks)
    BY <1>2 DEF RowsStep, Ids
  <2>2. Len(tasks') = Len(tasks)
    BY <1>0, <2>1
  <2> QED BY <1>0, <2>1, <2>2
<1> QED BY <1>1, <1>2 DEF ListStep

\* The rows a release has to look at stay in the list.
LEMMA LeftAfter ==
    ASSUME TypeOK, Next
    PROVE  left' \subseteq Ids
<1>0. left \subseteq Ids
  BY DEF TypeOK
<1>1. CASE Release
  BY <1>0, <1>1, ReleaseEffect
<1>2. ASSUME NEW v, NEW t, NEW s \in Open \cup Closed, SetStatus(v, t, s) PROVE left' \subseteq Ids
  BY <1>0, <1>2, SetStatusEffect
<1>3. ASSUME NEW r \in Runs, FinishStep(r) PROVE left' \subseteq Ids
  <2>1. UNCHANGED left \/ \E t : \E s \in Closed : SetStatus(r, t, s)
    BY <1>3, FinishEffect
  <2> QED BY <1>0, <1>2, <2>1
<1>4. CASE PlanNext
  <2>1. UNCHANGED left \/ \E r \in Runs : FinishStep(r)
    BY <1>4, PlanCases DEF BeginPlan, RegisterStep, ExecutePlan, ExecuteStep, ForgetPlan
  <2> QED BY <1>0, <1>3, <2>1
<1>5. CASE JobNext
  <2>1. UNCHANGED left \/ \E t : \E s \in Closed : SetStatus("job", t, s)
    BY <1>5 DEF JobNext, StartJob, ReportJob, EndJobSilently, Closed, Blocking
  <2> QED BY <1>0, <1>2, <2>1
<1>6. ASSUME NEW t \in Ids, NEW s \in Open \cup Closed \cup {tasks[t].status}, AgentUpdate(t, s)
      PROVE  left' \subseteq Ids
  <2>1. s \in Open \cup Closed /\ SetStatus("agent", t, s)
    BY <1>6, RowFacts DEF AgentUpdate, Seen, Present
  <2> QED BY <1>2, <2>1
<1>7. CASE AgentCloses
  BY <1>0, <1>6, <1>7 DEF AgentCloses, AgentAdd, AgentClear
<1> QED BY <1>1, <1>4, <1>5, <1>6, <1>7 DEF Next, ClosingNext

\* What a dispatch remembers keeps its type.
PlanTypes ==
    /\ writer \in Runs \cup {"none"}
    /\ phase \in [Runs -> {"idle", "register", "execute", "finish"}]
    /\ steps \in [Runs -> Plans \cup {<< >>}]
    /\ at \in [Runs -> Nat \ {0}]
    /\ facts \in [Runs -> [Kinds -> {"none", "handed_on", "rejected"}]]
    /\ jobs \subseteq Reporting

LEMMA NoFactsType == NoFacts \in [Kinds -> {"none", "handed_on", "rejected"}]
BY DEF NoFacts

LEMMA PlanTypesAfter ==
    ASSUME TypeOK, Next
    PROVE  PlanTypes'
<1>0. PlanTypes
  BY DEF TypeOK, PlanTypes
<1>1. CASE PlanNext
  <2>1. ASSUME NEW r \in Runs, NEW p \in Plans, BeginPlan(r, p) PROVE PlanTypes'
    BY <1>0, <2>1 DEF BeginPlan, PlanTypes
  <2>2. ASSUME NEW r \in Runs, RegisterStep(r) PROVE PlanTypes'
    BY <1>0, <2>2 DEF RegisterStep, PlanTypes
  <2>3. ASSUME NEW r \in Runs, ExecutePlan(r) PROVE PlanTypes'
    BY <1>0, <2>3 DEF ExecutePlan, PlanTypes
  <2>4. ASSUME NEW r \in Runs, NEW fact \in {"handed_on", "rejected"}, NEW commits \in BOOLEAN,
               ExecuteStep(r, fact, commits)
        PROVE  PlanTypes'
    <3> DEFINE k == steps[r][at[r]]
    <3>1. facts' = [facts EXCEPT ![r][k] = fact]
      BY <2>4 DEF ExecuteStep
    <3>2. facts' \in [Runs -> [Kinds -> {"none", "handed_on", "rejected"}]]
      BY <1>0, <3>1 DEF PlanTypes
    <3>3. jobs' \subseteq Reporting
      BY <1>0, <2>4 DEF ExecuteStep, PlanTypes
    <3>4. /\ phase' \in [Runs -> {"idle", "register", "execute", "finish"}]
          /\ at' \in [Runs -> Nat \ {0}]
      <4>1. /\ phase' = phase \/ phase' = [phase EXCEPT ![r] = "finish"]
            /\ at' = [at EXCEPT ![r] = 1] \/ at' = [at EXCEPT ![r] = at[r] + 1]
        BY <2>4 DEF ExecuteStep
      <4>2. at[r] + 1 \in Nat \ {0}
        BY <1>0 DEF PlanTypes
      <4>3. phase' \in [Runs -> {"idle", "register", "execute", "finish"}]
        BY <1>0, <4>1 DEF PlanTypes
      <4>4. \E n \in Nat \ {0} : at' = [at EXCEPT ![r] = n]
        BY <4>1, <4>2
      <4>5. at' \in [Runs -> Nat \ {0}]
        BY <1>0, <4>4 DEF PlanTypes
      <4> QED BY <4>3, <4>5
    <3> QED BY <1>0, <2>4, <3>2, <3>3, <3>4 DEF ExecuteStep, PlanTypes
  <2>5. ASSUME NEW r \in Runs, FinishStep(r) PROVE PlanTypes'
    BY <1>0, <2>5 DEF FinishStep, PlanTypes
  <2>6. ASSUME NEW r \in Runs, ForgetPlan(r) PROVE PlanTypes'
    BY <1>0, <2>6, NoFactsType DEF ForgetPlan, PlanTypes
  <2> QED BY <1>1, <2>1, <2>2, <2>3, <2>4, <2>5, <2>6, PlanCases
<1>2. CASE UNCHANGED planVars /\ jobs' \subseteq Reporting
  BY <1>0, <1>2 DEF planVars, PlanTypes
<1>3. CASE JobNext
  BY <1>0, <1>2, <1>3 DEF JobNext, StartJob, ReportJob, EndJobSilently, PlanTypes
<1> QED
  BY <1>0, <1>1, <1>2, <1>3
     DEF Next, ClosingNext, Release, AgentCloses, AgentAdd, AgentUpdate, AgentClear, PlanTypes

\* The tasks a dispatch remembers are rows of the list.
LEMMA MappingAfter ==
    ASSUME TypeOK, Next
    PROVE  mapping' \in [Runs -> [Kinds -> 0..Len(tasks')]]
<1>0. /\ Len(tasks) \in Nat /\ Len(tasks') \in Nat /\ Len(tasks') >= Len(tasks)
      /\ mapping \in [Runs -> [Kinds -> 0..Len(tasks)]]
  BY RowFacts, RowAfter, ListEffect DEF TypeOK
<1>1. mapping \in [Runs -> [Kinds -> 0..Len(tasks')]]
  BY <1>0
<1>2. ASSUME NEW r \in Runs, RegisterStep(r) PROVE mapping' \in [Runs -> [Kinds -> 0..Len(tasks')]]
  <2> DEFINE k == steps[r][at[r]]
  <2>1. k \in Kinds /\ k \in Titles /\ r \in Writers /\ AddTask(r, k, k, PlanDeps(r, k))
    BY <1>2, StepKind DEF RegisterStep, Titles, Writers
  <2>2. AddedTask(r, k) \in 0..Len(tasks')
    BY <2>1, AddTaskEffect, PlanDepsInList
  <2>3. mapping' = [mapping EXCEPT ![r][k] = AddedTask(r, k)]
    BY <1>2 DEF RegisterStep
  <2> QED BY <1>1, <2>1, <2>2, <2>3
<1>3. ASSUME NEW r \in Runs, ForgetPlan(r) PROVE mapping' \in [Runs -> [Kinds -> 0..Len(tasks')]]
  <2>1. NoTasks \in [Kinds -> 0..Len(tasks')]
    BY <1>0 DEF NoTasks, NoTask
  <2> QED BY <1>1, <1>3, <2>1 DEF ForgetPlan
<1>4. CASE UNCHANGED mapping
  BY <1>1, <1>4
<1>5. CASE PlanNext
  <2>1. UNCHANGED mapping \/ \E r \in Runs : RegisterStep(r) \/ ForgetPlan(r)
    BY <1>5, PlanCases DEF BeginPlan, ExecutePlan, ExecuteStep, FinishStep
  <2> QED BY <1>2, <1>3, <1>4, <2>1
<1> QED
  BY <1>4, <1>5
     DEF Next, ClosingNext, Release, JobNext, StartJob, ReportJob, EndJobSilently,
         AgentCloses, AgentAdd, AgentUpdate, AgentClear, planVars

LEMMA TypeInit == Init => TypeOK
BY NoFactsType DEF Init, TypeOK, NoTasks, NoTask, Ids

LEMMA TypeStep == TypeOK /\ [Next]_vars => TypeOK'
<1> SUFFICES ASSUME TypeOK, [Next]_vars PROVE TypeOK'
  OBVIOUS
<1>1. CASE Next
  <2>1. ListStep
    BY <1>1, ListEffect
  <2>2. tasks' \in Seq(Task) /\ Len(tasks') <= MaxTasks
    BY <2>1, RowAfter
  <2>3. left' \subseteq Ids'
    <3>1. Ids \subseteq Ids'
      BY <2>1, RowFacts, RowAfter DEF Ids
    <3> QED BY <1>1, <3>1, LeftAfter
  <2>4. PlanTypes'
    BY <1>1, PlanTypesAfter
  <2>5. mapping' \in [Runs -> [Kinds -> 0..Len(tasks')]]
    BY <1>1, MappingAfter
  <2> QED BY <2>2, <2>3, <2>4, <2>5 DEF TypeOK, PlanTypes
<1>2. CASE UNCHANGED vars
  BY <1>2 DEF vars, TypeOK, Ids
<1> QED BY <1>1, <1>2

\* The variables keep their types (TypeOK), whatever the agent sets.
THEOREM TypeCorrect == Spec => []TypeOK
BY TypeInit, TypeStep, PTL DEF Spec

---------------------------------------------------------------------------
\* No task waits for itself.

LEMMA NoCircleStep == TypeOK /\ NoCircle /\ [Next]_vars => NoCircle'
<1> SUFFICES ASSUME TypeOK, NoCircle, [Next]_vars PROVE NoCircle'
  OBVIOUS
<1>1. CASE UNCHANGED tasks
  BY <1>1 DEF NoCircle, Ids
<1>2. CASE GrowStep
  <2>1. PICK v \in Writers, title \in Titles, kind \in Kinds, D \in SUBSET (0..Len(tasks)) :
          Grown(v, title, kind, D)
    BY <1>2 DEF GrowStep
  <2>2. \A d \in D : d < Len(tasks) + 1
    BY <2>1, GrownRows
  <2> QED BY <2>1, <2>2, GrownRows DEF NoCircle
<1>3. CASE RowsStep
  BY <1>3 DEF RowsStep, Kept, NoCircle
<1>4. CASE Next
  BY <1>2, <1>3, <1>4, ListEffect DEF ListStep
<1> QED BY <1>1, <1>4 DEF vars

\* Tasks never wait for one another in a circle (NoCircle): neither plans that reuse
\* tasks, nor the blockers the agent names, nor a reopened task make one.
THEOREM NoCircularWait == Spec => []NoCircle
<1>1. Init => NoCircle
  BY DEF Init, NoCircle, Ids
<1> QED BY <1>1, TypeInit, TypeStep, NoCircleStep, PTL DEF Spec

---------------------------------------------------------------------------
\* As long as the agent does not reopen tasks by hand.

ClosingInv == TypeOK /\ NoCircle

LEMMA ClosingInvInit == Init => ClosingInv
BY TypeInit DEF ClosingInv, Init, NoCircle, Ids

LEMMA ClosingInvStep == ClosingInv /\ [ClosingNext]_vars => ClosingInv'
BY TypeStep, NoCircleStep DEF ClosingInv, Next

\* A step of ClosingNext changes the list by a ClosingStep.
LEMMA ClosingBox == TypeOK /\ [ClosingNext]_vars => ClosingStep
BY ClosingEffect, NothingMoves DEF vars

\* A row that is open after the step was open before it.
LEMMA OpenBefore ==
    ASSUME TypeOK, ClosingRows
    PROVE  OpenTasks' \subseteq OpenTasks
BY DEF ClosingRows, RowsStep, Still, Ended, Freed, OpenTasks, Open, Closed, Blocking

LEMMA TwiceStep == TypeOK /\ TwiceOnlyUnseen /\ [ClosingNext]_vars => TwiceOnlyUnseen'
<1> SUFFICES ASSUME TypeOK, TwiceOnlyUnseen, [ClosingNext]_vars PROVE TwiceOnlyUnseen'
  OBVIOUS
<1>1. CASE GrowStep
  <2>1. PICK v \in Writers, title \in Titles, kind \in Kinds, D \in SUBSET (0..Len(tasks)) :
          Grown(v, title, kind, D)
    BY <1>1 DEF GrowStep
  <2> DEFINE n == Len(tasks) + 1
  <2>2. OpenTasks' \subseteq OpenTasks \cup {n} /\ \A t \in Ids : t \in Nat /\ ~ (n < t)
    BY <2>1, GrownRows DEF OpenTasks, Ids
  <2>3. \A t \in OpenTasks : t \in Ids /\ tasks'[t] = tasks[t]
    BY <2>1, GrownRows DEF OpenTasks
  <2>4. tasks'[n].title = title /\ tasks'[n].unseen = Hidden(v, title)
    BY <2>1, GrownRows
  <2>5. \A t \in OpenTasks : tasks[t].title = title => t \in Hidden(v, title)
    BY <2>1 DEF Grown, SameTitle, Hidden
  <2>6. ASSUME NEW t \in OpenTasks', NEW u \in OpenTasks', t < u, tasks'[t].title = tasks'[u].title
        PROVE  t \in tasks'[u].unseen
    <3>1. t \in OpenTasks
      <4>1. t # n
        BY <2>2, <2>3, <2>1, GrownRows, <2>6
      <4> QED BY <2>2, <4>1
    <3>2. CASE u = n
      BY <2>3, <2>4, <2>5, <2>6, <3>1, <3>2
    <3>3. CASE u \in OpenTasks
      BY <2>3, <2>6, <3>1, <3>3 DEF TwiceOnlyUnseen
    <3> QED BY <2>2, <3>2, <3>3
  <2> QED BY <2>6 DEF TwiceOnlyUnseen
<1>2. CASE ClosingRows
  <2>1. OpenTasks' \subseteq OpenTasks
    BY <1>2, OpenBefore
  <2>2. \A t \in OpenTasks : tasks'[t].title = tasks[t].title /\ tasks'[t].unseen = tasks[t].unseen
    BY <1>2 DEF ClosingRows, RowsStep, Kept, OpenTasks
  <2> QED BY <2>1, <2>2 DEF TwiceOnlyUnseen
<1> QED BY <1>1, <1>2, ClosingBox DEF ClosingStep

\* What is committed is never queued twice (TwiceOnlyUnseen): two open tasks of a title
\* are there only when the later was registered while the earlier was in a transaction
\* under way, whatever plans share, whatever is reopened by a release or closed late.
THEOREM TwiceOnlyConcurrently == ClosingSpec => []TwiceOnlyUnseen
<1>1. Init => TwiceOnlyUnseen
  BY DEF Init, TwiceOnlyUnseen, OpenTasks, Ids
<1>2. ClosingInv => TypeOK
  BY DEF ClosingInv
<1> QED BY <1>1, <1>2, ClosingInvInit, ClosingInvStep, TwiceStep, PTL DEF ClosingSpec

LEMMA ReadyStep == ClosingInv /\ ReadyBlockersClosed /\ [ClosingNext]_vars => ReadyBlockersClosed'
<1> SUFFICES ASSUME TypeOK, NoCircle, ReadyBlockersClosed, [ClosingNext]_vars,
                    NEW t \in Present', tasks'[t].status \in {"ready", "running"},
                    NEW d \in tasks'[t].deps, d \in Present'
             PROVE  tasks'[d].status \in Closed
  BY DEF ReadyBlockersClosed, FoundBlockers, ClosingInv
<1>1. CASE GrowStep
  <2>1. PICK v \in Writers, title \in Titles, kind \in Kinds, D \in SUBSET (0..Len(tasks)) :
          Grown(v, title, kind, D)
    BY <1>1 DEF GrowStep
  <2>2. t \in Ids
    BY <2>1, GrownRows DEF Present
  <2>3. t \in Present /\ d \in tasks[t].deps /\ tasks[t].status \in {"ready", "running"}
    BY <2>1, <2>2, GrownRows DEF Present
  <2>4. d < t /\ t \in 1..Len(tasks) /\ Len(tasks) \in Nat
    BY <2>2, <2>3, RowFacts DEF NoCircle, Ids
  <2>5. d # Len(tasks) + 1
    BY <2>4
  <2>6. d \in Ids /\ tasks'[d] = tasks[d]
    BY <2>1, <2>5, GrownRows DEF Present
  <2>7. d \in Present
    BY <2>6 DEF Present
  <2> QED BY <2>3, <2>6, <2>7 DEF ReadyBlockersClosed, FoundBlockers
<1>2. CASE ClosingRows
  <2>1. t \in Ids /\ d \in Ids /\ d \in tasks[t].deps
    BY <1>2 DEF ClosingRows, RowsStep, Kept, Present
  <2>2. /\ Still(t) \/ Ended(t) \/ Freed(t)
        /\ Still(d) \/ Ended(d) \/ Freed(d)
    BY <1>2, <2>1 DEF ClosingRows
  <2>3. d \in Present
    BY <2>1, <2>2 DEF Present, Still, Ended, Freed
  <2>4. tasks[d].status \in Closed
    <3>1. CASE Freed(t)
      BY <2>1, <2>3, <3>1 DEF Freed, Finished, FoundBlockers, Closed
    <3>2. CASE Still(t)
      BY <2>1, <2>3, <3>2 DEF Still, Present, ReadyBlockersClosed, FoundBlockers
    <3> QED BY <2>2, <3>1, <3>2 DEF Ended, Closed, Blocking
  <2> QED BY <2>2, <2>4 DEF Still, Ended, Freed, Present, Closed, Blocking
<1> QED BY <1>1, <1>2, ClosingBox DEF ClosingStep

\* What may be executed waits for nobody (ReadyBlockersClosed).
THEOREM ReadyWaitsForNobody == ClosingSpec => []ReadyBlockersClosed
<1>1. Init => ReadyBlockersClosed
  BY DEF Init, ReadyBlockersClosed, Present, Ids
<1> QED BY <1>1, ClosingInvInit, ClosingInvStep, ReadyStep, PTL DEF ClosingSpec

LEMMA ClosedKeptStep == TypeOK /\ [ClosingNext]_vars => ClosedKept
<1> SUFFICES ASSUME TypeOK, [ClosingNext]_vars, NEW t \in Ids, tasks[t].status \in Closed
             PROVE  tasks'[t].status \in Closed \cup {"cleared"}
  BY DEF ClosedKept
<1>1. CASE GrowStep
  BY <1>1, GrownRows DEF GrowStep
<1>2. CASE ClosingRows
  BY <1>2 DEF ClosingRows, Still, Ended, Freed, Closed, Blocking
<1> QED BY <1>1, <1>2, ClosingBox DEF ClosingStep

\* What is closed stays closed (ClosedStaysClosed): no plan, job or release takes a
\* closed task up again.
THEOREM ClosedIsNotReopened == ClosingSpec => ClosedStaysClosed
<1>1. TypeOK /\ [ClosingNext]_vars => [ClosedKept]_vars
  BY ClosedKeptStep
<1>2. ClosingInv => TypeOK
  BY DEF ClosingInv
<1> QED BY <1>1, <1>2, ClosingInvInit, ClosingInvStep, PTL DEF ClosingSpec, ClosedStaysClosed

---------------------------------------------------------------------------
\* What a dispatch has closed is not left open.

\* A task that is not open, or not in the list, does not become open.
LEMMA NotReopened ==
    ASSUME TypeOK, [ClosingNext]_vars, NEW t \in 0..Len(tasks), t \notin OpenTasks
    PROVE  t \notin OpenTasks'
<1>0. Len(tasks) \in Nat /\ t # Len(tasks) + 1
  BY RowFacts
<1>1. CASE GrowStep
  BY <1>0, <1>1, GrownRows DEF GrowStep, OpenTasks
<1>2. CASE ClosingRows
  BY <1>2, OpenBefore
<1> QED BY <1>1, <1>2, ClosingBox DEF ClosingStep

\* A dispatch sees the tasks it has in its mapping: an open one is its own or committed.
MappedSeen ==
    \A r \in Runs, k \in Kinds :
        mapping[r][k] \in OpenTasks => tasks[mapping[r][k]].by \in {"none", r}

LEMMA MappedSeenStep ==
    ASSUME TypeOK, MappedSeen, [ClosingNext]_vars
    PROVE  MappedSeen'
<1> SUFFICES ASSUME NEW r \in Runs, NEW k \in Kinds, mapping'[r][k] \in OpenTasks'
             PROVE  tasks'[mapping'[r][k]].by \in {"none", r}
  BY DEF MappedSeen
<1>0. mapping \in [Runs -> [Kinds -> 0..Len(tasks)]] /\ Len(tasks) \in Nat
  BY RowFacts DEF TypeOK
<1>1. CASE mapping'[r][k] = mapping[r][k]
  <2> DEFINE t == mapping[r][k]
  <2>1. t \in OpenTasks
    BY <1>0, <1>1, NotReopened
  <2>2. t \in Ids /\ tasks[t].by \in {"none", r}
    BY <2>1 DEF MappedSeen, OpenTasks
  <2>3. tasks'[t].by \in {tasks[t].by, "none"}
    <3>1. CASE GrowStep
      BY <2>2, <3>1, GrownRows DEF GrowStep
    <3>2. CASE ClosingRows
      BY <2>2, <3>2 DEF ClosingRows, RowsStep, Kept
    <3> QED BY <3>1, <3>2, ClosingBox DEF ClosingStep
  <2> QED BY <1>1, <2>2, <2>3
<1>2. CASE RegisterStep(r) /\ mapping'[r][k] # mapping[r][k]
  <2> DEFINE x == steps[r][at[r]]
  <2>1. x \in Kinds /\ x \in Titles /\ r \in Writers /\ AddTask(r, x, x, PlanDeps(r, x))
    BY <1>2, StepKind DEF RegisterStep, Titles, Writers
  <2>2. mapping' = [mapping EXCEPT ![r][x] = AddedTask(r, x)]
    BY <1>2 DEF RegisterStep
  <2>3. mapping'[r][k] = AddedTask(r, x)
    BY <1>0, <1>2, <2>2
  <2> QED BY <2>1, <2>3, AddTaskEffect, PlanDepsInList
<1>3. CASE ForgetPlan(r)
  <2>1. mapping'[r][k] = NoTask
    BY <1>0, <1>3 DEF ForgetPlan, NoTasks
  <2>2. NoTask \notin Ids'
    BY DEF NoTask, Ids
  <2> QED BY <2>1, <2>2 DEF OpenTasks
<1>4. CASE ~ UNCHANGED mapping /\ mapping'[r][k] # mapping[r][k]
  <2>1. CASE PlanNext
    <3>1. \E q \in Runs : RegisterStep(q) \/ ForgetPlan(q)
      BY <1>4, <2>1, PlanCases DEF BeginPlan, ExecutePlan, ExecuteStep, FinishStep
    <3>2. PICK q \in Runs : RegisterStep(q) \/ ForgetPlan(q)
      BY <3>1
    <3>3. q = r
      BY <1>0, <1>4, <3>2 DEF RegisterStep, ForgetPlan
    <3> QED BY <1>2, <1>3, <1>4, <3>2, <3>3
  <2>2. CASE ~ PlanNext
    BY <1>4, <2>2
       DEF ClosingNext, Release, JobNext, StartJob, ReportJob, EndJobSilently,
           AgentCloses, AgentAdd, AgentUpdate, AgentClear, planVars, vars
  <2> QED BY <2>1, <2>2
<1> QED BY <1>1, <1>4

\* A dispatch that closes its list is at one of its steps or just past the last.
Finishing ==
    \A r \in Runs : phase[r] = "finish" => at[r] <= Len(steps[r]) + 1

ClosedSteps(r) ==
    \A i \in 1..(at[r] - 1) :
        facts[r][steps[r][i]] # "none" => mapping[r][steps[r][i]] \notin OpenTasks

FinishInv == ClosingInv /\ MappedSeen /\ Finishing /\ HandedOnIsClosed

LEMMA FinishStepCloses ==
    ASSUME TypeOK, MappedSeen, Finishing, NEW r \in Runs, phase[r] = "finish", ClosedSteps(r),
           FinishStep(r), [ClosingNext]_vars
    PROVE  ClosedSteps(r)' /\ at'[r] <= Len(steps[r]) + 1
<1> DEFINE n == at[r]  k == steps[r][n]
<1>0. /\ n \in Nat /\ n # 0 /\ n <= Len(steps[r]) /\ Len(steps[r]) \in Nat
      /\ at'[r] = n + 1 /\ UNCHANGED <<steps, mapping, facts>>
  <2>1. n \in Nat \ {0} /\ steps[r] \in Plans \cup {<< >>}
    BY DEF TypeOK
  <2>2. Len(steps[r]) \in Nat
    BY <2>1
  <2>3. at' = [at EXCEPT ![r] = at[r] + 1] /\ r \in DOMAIN at
    BY DEF FinishStep, TypeOK
  <2>4. at'[r] = n + 1
    BY <2>3
  <2> QED BY <2>1, <2>2, <2>4 DEF FinishStep
<1>1. k \in Kinds
  BY StepKind DEF FinishStep
<1>2. mapping[r][k] \in 0..Len(tasks)
  BY <1>1 DEF TypeOK
<1>3. ASSUME facts[r][k] # "none" PROVE mapping[r][k] \notin OpenTasks'
  <2>1. PICK s \in Closed : SetStatus(r, mapping[r][k], s)
    BY <1>3, FinishEffect
  <2>2. CASE mapping[r][k] \in Seen(r)
    <3>1. tasks'[mapping[r][k]].status \in Closed
      BY <2>1, <2>2, SetStatusEffect
    <3> QED BY <3>1 DEF OpenTasks, Open, Closed, Blocking
  <2>3. CASE mapping[r][k] \notin Seen(r)
    <3>1. mapping[r][k] \notin OpenTasks
      BY <1>1, <2>3 DEF Seen, Present, OpenTasks, Open, MappedSeen
    <3> QED BY <1>2, <3>1, NotReopened
  <2> QED BY <2>2, <2>3
<1>4. ASSUME NEW i \in 1..n, facts[r][steps[r][i]] # "none"
      PROVE  mapping[r][steps[r][i]] \notin OpenTasks'
  <2>1. CASE i = n
    BY <1>3, <1>4, <2>1
  <2>2. CASE i # n
    <3>1. i \in 1..(n - 1)
      BY <1>0, <2>2
    <3>2. mapping[r][steps[r][i]] \notin OpenTasks
      BY <1>4, <3>1 DEF ClosedSteps
    <3>3. steps[r] \in Seq(Kinds) /\ i \in 1..Len(steps[r])
      BY <1>0, EmptySeq DEF TypeOK
    <3>4. mapping[r][steps[r][i]] \in 0..Len(tasks)
      BY <3>3 DEF TypeOK
    <3> QED BY <3>2, <3>4, NotReopened
  <2> QED BY <2>1, <2>2
<1>5. at'[r] - 1 = n
  BY <1>0
<1> QED BY <1>0, <1>4, <1>5 DEF ClosedSteps

\* Of every other step a dispatch that closes its list sees the list only.
LEMMA FinishUndisturbed ==
    ASSUME TypeOK, Finishing, NEW r \in Runs, ClosedSteps(r), phase[r] = "finish",
           UNCHANGED <<at[r], steps[r], mapping[r], facts[r]>>, [ClosingNext]_vars
    PROVE  ClosedSteps(r)'
<1> SUFFICES ASSUME NEW i \in 1..(at[r] - 1), facts[r][steps[r][i]] # "none"
             PROVE  mapping[r][steps[r][i]] \notin OpenTasks'
  BY DEF ClosedSteps
<1>1. mapping[r][steps[r][i]] \notin OpenTasks
  BY DEF ClosedSteps
<1>2. at[r] \in Nat /\ at[r] <= Len(steps[r]) + 1 /\ steps[r] \in Seq(Kinds) /\ Len(steps[r]) \in Nat
  BY EmptySeq DEF TypeOK, Finishing
<1>3. i \in 1..Len(steps[r])
  BY <1>2
<1>4. mapping[r][steps[r][i]] \in 0..Len(tasks)
  BY <1>2, <1>3 DEF TypeOK
<1> QED BY <1>1, <1>4, NotReopened

\* Per run: its variables keep their values while it closes its list, unless it
\* takes a step itself.
LEMMA FinishFrame ==
    ASSUME TypeOK, ClosingNext, NEW r \in Runs, phase'[r] = "finish"
    PROVE  \/ FinishStep(r)
           \/ phase[r] = "finish" /\ UNCHANGED <<at[r], steps[r], mapping[r], facts[r]>>
           \/ at'[r] = 1 /\ UNCHANGED steps[r]
<1>0. /\ phase \in [Runs -> {"idle", "register", "execute", "finish"}]
      /\ DOMAIN at = Runs /\ DOMAIN steps = Runs /\ DOMAIN mapping = Runs /\ DOMAIN facts = Runs
      /\ DOMAIN phase = Runs
  BY DEF TypeOK
<1>1. CASE UNCHANGED planVars
  BY <1>1 DEF planVars
<1>2. ASSUME NEW q \in Runs, q # r,
             \/ \E p \in Plans : BeginPlan(q, p)
             \/ RegisterStep(q)
             \/ ExecutePlan(q)
             \/ \E fact \in {"handed_on", "rejected"}, commits \in BOOLEAN : ExecuteStep(q, fact, commits)
             \/ FinishStep(q)
             \/ ForgetPlan(q)
      PROVE  phase[r] = "finish" /\ UNCHANGED <<at[r], steps[r], mapping[r], facts[r]>>
  BY <1>0, <1>2
     DEF BeginPlan, RegisterStep, ExecutePlan, ExecuteStep, FinishStep, ForgetPlan
<1>3. ASSUME \/ \E p \in Plans : BeginPlan(r, p)
             \/ RegisterStep(r)
             \/ ExecutePlan(r)
             \/ ForgetPlan(r)
      PROVE  FALSE
  BY <1>0, <1>3 DEF BeginPlan, RegisterStep, ExecutePlan, ForgetPlan
<1>4. ASSUME NEW fact \in {"handed_on", "rejected"}, NEW commits \in BOOLEAN,
             ExecuteStep(r, fact, commits)
      PROVE  at'[r] = 1 /\ UNCHANGED steps[r]
  BY <1>0, <1>4 DEF ExecuteStep
<1>5. CASE PlanNext
  BY <1>2, <1>3, <1>4, <1>5, PlanCases
<1> QED
  BY <1>1, <1>5
     DEF ClosingNext, Release, JobNext, StartJob, ReportJob, EndJobSilently,
         AgentCloses, AgentAdd, AgentUpdate, AgentClear

LEMMA FinishInvStep == FinishInv /\ [ClosingNext]_vars => FinishInv'
<1> SUFFICES ASSUME FinishInv, [ClosingNext]_vars PROVE FinishInv'
  OBVIOUS
<1>0. TypeOK /\ MappedSeen /\ Finishing /\ HandedOnIsClosed /\ ClosingInv' /\ MappedSeen'
  BY ClosingInvStep, MappedSeenStep DEF FinishInv, ClosingInv
<1>1. ASSUME NEW r \in Runs, phase'[r] = "finish"
      PROVE  at'[r] <= Len(steps'[r]) + 1 /\ ClosedSteps(r)'
  <2>1. CASE UNCHANGED vars
    BY <1>0, <1>1, <2>1 DEF vars, Finishing, HandedOnIsClosed, ClosedSteps, OpenTasks, Ids
  <2>2. CASE FinishStep(r)
    <3>1. phase[r] = "finish" /\ ClosedSteps(r) /\ UNCHANGED steps
      BY <1>0, <2>2 DEF FinishStep, HandedOnIsClosed, ClosedSteps
    <3> QED BY <1>0, <2>2, <3>1, FinishStepCloses
  <2>3. CASE phase[r] = "finish" /\ UNCHANGED <<at[r], steps[r], mapping[r], facts[r]>>
    <3>1. ClosedSteps(r)
      BY <1>0, <2>3 DEF HandedOnIsClosed, ClosedSteps
    <3> QED BY <1>0, <2>3, <3>1, FinishUndisturbed DEF Finishing
  <2>4. CASE at'[r] = 1 /\ UNCHANGED steps[r]
    <3>1. Len(steps[r]) \in Nat
      BY <1>0, EmptySeq DEF TypeOK
    <3> QED BY <2>4, <3>1 DEF ClosedSteps
  <2> QED BY <1>0, <1>1, <2>1, <2>2, <2>3, <2>4, FinishFrame
<1> QED BY <1>0, <1>1 DEF FinishInv, Finishing, HandedOnIsClosed, ClosedSteps

\* What a dispatch has handed on or seen rejected is not left open when it closes its
\* list (HandedOnIsClosed), whatever releases and reports came between.
THEOREM DispatchClosesItsSteps == ClosingSpec => []HandedOnIsClosed
<1>1. Init => FinishInv
  BY ClosingInvInit DEF Init, FinishInv, Finishing, HandedOnIsClosed, MappedSeen, OpenTasks, Ids
<1>2. FinishInv => HandedOnIsClosed
  BY DEF FinishInv
<1> QED BY <1>1, <1>2, FinishInvStep, PTL DEF ClosingSpec
=============================================================================
