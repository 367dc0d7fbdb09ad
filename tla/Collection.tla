----------------------------- MODULE Collection -----------------------------
(***************************************************************************)
(* Collection of sources: the controlled agent that fetches the requested  *)
(* sources, picks GitHub candidates and reads their README                 *)
(* (agents/content_main_agent.py), the pipeline that turns items into      *)
(* drafts (workflows/content_workflow.py) in one transaction per batch or  *)
(* item (services/collection.py), and what the job then reports            *)
(* (worker.collection_completion).  Several agents run at a time and meet  *)
(* in the rows of the source items.                                        *)
(*                                                                         *)
(* A draft is known by the agent that made it and its item: an agent makes *)
(* at most one draft of an item.  Items keep the kind and the content hash *)
(* they were first saved with.                                             *)
(***************************************************************************)
EXTENDS Naturals, Sequences, FiniteSets

CONSTANTS Agents,      \* runs of the collection agent
          Items,       \* source items, by (source_kind, external_id)
          Hashes,      \* content hashes
          KindOf,      \* the source of an item
          HashOf,      \* its content hash
          Tools,       \* sources with a registered tool
          Commands,    \* commands the agents are given
          NoItem,      \* the target of a command without one
          Failures,    \* whether fetching, generating and statements may fail
          Cancels      \* whether a job may reach its time limit

Kinds == {"arxiv", "github", "hacker_news", "rss"}

ASSUME CollectionAssumption ==
    /\ KindOf \in [Items -> Kinds] /\ HashOf \in [Items -> Hashes] /\ NoItem \notin Items
    /\ Tools \subseteq Kinds /\ IsFiniteSet(Items)
    /\ \A c \in Commands :
        /\ c.sources \in Seq(Kinds) \ {<< >>}
        /\ \A j, k \in DOMAIN c.sources : c.sources[j] = c.sources[k] => j = k  \* reject_duplicate_sources
        /\ c.target \in {i \in Items : KindOf[i] = "github"} \cup {NoItem}      \* normalize_target

Draft == [by : Agents, item : Items]

\* What a batch has come to; "errors" are counted.
Result == [received : Nat, created : SUBSET Items, duplicates : Nat, skipped : Nat, errors : Nat]
Run == [status : {"success", "partial", "failed"}, result : Result]

VARIABLES
    made,       \* drafts ever committed
    live,       \* those neither discarded nor deleted
    introduced, \* items of which a draft was delivered (project_introductions)
    arow,       \* per agent: status of its agent_runs row, "none" before there is one
    pc,         \* per agent: the node of its graph, "over" when it has ended
    command,    \* per agent: its command
    batches,    \* per agent: the batches fetched
    at,         \* per agent: the batch being persisted
    stage,      \* per agent: where the persisting of that batch is
    todo,       \* per agent: items of that batch still to do
    locks,      \* per agent: rows its open transaction has written
    pending,    \* per agent: items whose draft is made in its open transaction
    lost,       \* per agent: items whose commit failed
    result,     \* per agent: the result of the batch so far
    runs,       \* per agent: collection runs written, until it ends
    told,       \* per agent: the outcome its job reported
    reported    \* per agent: the drafts its job reported, by item

shared == <<made, live, introduced>>
plan   == <<pc, command, batches>>
tx     == <<stage, todo, locks, pending, lost, result>>
report == <<arow, told, reported>>
vars   == <<shared, plan, at, tx, runs, report>>

NoCommand == [sources |-> << >>, target |-> NoItem]
NoResult == [received |-> 0, created |-> {}, duplicates |-> 0, skipped |-> 0, errors |-> 0]

Init ==
    /\ made = {} /\ live = {} /\ introduced = {}
    /\ arow = [a \in Agents |-> "none"]
    /\ pc = [a \in Agents |-> "idle"]
    /\ command = [a \in Agents |-> NoCommand]
    /\ batches = [a \in Agents |-> << >>]
    /\ at = [a \in Agents |-> 1]
    /\ stage = [a \in Agents |-> "closed"]
    /\ todo = [a \in Agents |-> << >>]
    /\ locks = [a \in Agents |-> {}]
    /\ pending = [a \in Agents |-> {}]
    /\ lost = [a \in Agents |-> {}]
    /\ result = [a \in Agents |-> NoResult]
    /\ runs = [a \in Agents |-> << >>]
    /\ told = [a \in Agents |-> "none"]
    /\ reported = [a \in Agents |-> {}]

---------------------------------------------------------------------------
(* The agent: plan, fetch, select, enrich.                                 *)

Goto(a, node) == pc' = [pc EXCEPT ![a] = node]

\* The end of a run, whose memory goes with it.
Leave(a) ==
    /\ Goto(a, "over")
    /\ command' = [command EXCEPT ![a] = NoCommand] /\ batches' = [batches EXCEPT ![a] = << >>]
    /\ at' = [at EXCEPT ![a] = 1] /\ runs' = [runs EXCEPT ![a] = << >>]
    /\ todo' = [todo EXCEPT ![a] = << >>] /\ result' = [result EXCEPT ![a] = NoResult]
    /\ stage' = [stage EXCEPT ![a] = "closed"]

\* create_agent_run commits the row before anything else.
Start(a) ==
    /\ pc[a] = "idle"
    /\ \E c \in Commands : command' = [command EXCEPT ![a] = c]
    /\ arow' = [arow EXCEPT ![a] = "running"]
    /\ Goto(a, "plan")
    /\ UNCHANGED <<shared, batches, at, tx, runs, told, reported>>

SourcesOf(a) == command[a].sources
Available(a) == \A n \in DOMAIN SourcesOf(a) : SourcesOf(a)[n] \in Tools

Plan(a) ==
    /\ pc[a] = "plan" /\ Available(a)
    /\ Goto(a, "fetch")
    /\ UNCHANGED <<shared, command, batches, at, tx, runs, report>>

\* What a collector may list: its items, each once.
Listing(kind) ==
    LET mine == {i \in Items : KindOf[i] = kind} IN
    UNION {{s \in [1..n -> mine] : \A j, k \in 1..n : s[j] = s[k] => j = k} : n \in 0..Cardinality(mine)}

Batch(kind, items, selected, targeted) ==
    [kind |-> kind, error |-> FALSE, items |-> items, selected |-> selected, targeted |-> targeted, ready |-> {}]
ErrorBatch(kind) == [Batch(kind, << >>, << >>, FALSE) EXCEPT !.error = TRUE]

\* A project named by the user is fetched alone, with its README or marked as without one.
ProjectBatches(target) ==
    {[Batch("github", <<target>>, <<target>>, TRUE) EXCEPT !.ready = r] : r \in SUBSET {target}}

\* SourceCollectionTool.invoke: what the collector raises becomes the error of the batch.  An
\* exception without a message leaves one without items and without an error.
Raised(kind) == {ErrorBatch(kind), Batch(kind, << >>, << >>, FALSE)}

Invoke(kind, target) ==
    (IF kind = "github" /\ target # NoItem THEN ProjectBatches(target)
     ELSE {Batch(kind, s, << >>, FALSE) : s \in Listing(kind)})
    \cup (IF Failures THEN Raised(kind) ELSE {})

Fetch(a) ==
    /\ pc[a] = "fetch"
    /\ LET n == Len(batches[a]) + 1 IN
       /\ \E b \in Invoke(SourcesOf(a)[n], command[a].target) : batches' = [batches EXCEPT ![a] = Append(@, b)]
       /\ IF n = Len(SourcesOf(a)) THEN Goto(a, "select") ELSE UNCHANGED pc
    /\ UNCHANGED <<shared, command, at, tx, runs, report>>

\* The GitHub batch the two selecting nodes are about.
ToSelect(a) ==
    {n \in DOMAIN batches[a] : LET b == batches[a][n] IN b.kind = "github" /\ ~b.error /\ ~b.targeted}

LiveItems == {d.item : d \in live}
Candidates(b) == {i \in Items : (\E n \in DOMAIN b.items : b.items[n] = i) /\ i \notin introduced \cup LiveItems}

\* Which candidate has the most stars is not modelled: any of them.
Selections(b) == IF Candidates(b) = {} THEN {<< >>} ELSE {<<i>> : i \in Candidates(b)}

BeforeEnrichment(a) ==
    /\ pc[a] = "select"
    /\ Goto(a, "enrich")
    /\ IF ToSelect(a) = {} THEN UNCHANGED batches
       ELSE \E n \in ToSelect(a) : \E s \in Selections(batches[a][n]) :
                batches' = [batches EXCEPT ![a][n].selected = s]
    /\ UNCHANGED <<shared, command, at, tx, runs, report>>

\* The README of what was selected, or the mark that it could not be read.
EnrichGithub(a) ==
    /\ pc[a] = "enrich"
    /\ Goto(a, "persist")
    /\ IF ToSelect(a) = {} THEN UNCHANGED batches
       ELSE \E n \in ToSelect(a) :
                \E r \in SUBSET {i \in Items : \E k \in DOMAIN batches[a][n].selected : batches[a][n].selected[k] = i} :
                    batches' = [batches EXCEPT ![a][n].ready = r]
    /\ UNCHANGED <<shared, command, at, tx, runs, report>>

---------------------------------------------------------------------------
(* Persisting one batch, in a session of its own.                          *)

\* A thread is persisting: also when its job has been cancelled.
InThread(a) == pc[a] \in {"persist", "ghost"} /\ at[a] <= Len(batches[a])
Current(a) == batches[a][at[a]]
Item(a) == Head(todo[a])
To(a, s) == stage' = [stage EXCEPT ![a] = s]

\* persist_collection_batch; process_github_single counts what was not selected as skipped.
Begin(a) ==
    /\ InThread(a) /\ pc[a] = "persist" /\ stage[a] = "closed" /\ ~Current(a).error
    /\ LET github == Current(a).kind = "github"
           n == Len(Current(a).items)
           left == IF github THEN n - Len(Current(a).selected) ELSE 0
       IN  /\ To(a, IF github THEN "candidates" ELSE "items")
           /\ todo' = [todo EXCEPT ![a] = Current(a).items]
           /\ result' = [result EXCEPT ![a] = [NoResult EXCEPT !.received = n, !.skipped = left]]
    /\ UNCHANGED <<shared, plan, at, locks, pending, lost, runs, report>>

\* After a batch: the next one, or, for a cancelled job's thread, nothing.
NextBatch(a, status) ==
    IF pc[a] = "ghost" THEN Leave(a)
    ELSE /\ at' = [at EXCEPT ![a] = @ + 1]
         /\ runs' = [runs EXCEPT ![a] = Append(@, [status |-> status, result |-> result[a]])]
         /\ result' = [result EXCEPT ![a] = NoResult]
         /\ To(a, "closed")
         /\ UNCHANGED <<plan, todo>>

PersistError(a) ==
    /\ InThread(a) /\ stage[a] = "closed" /\ Current(a).error
    /\ NextBatch(a, "failed")
    /\ UNCHANGED <<shared, locks, pending, lost, report>>

HeldByOther(a, i) == \E b \in Agents \ {a} : i \in locks[b]

\* Mutant of Lock: a row that exists is returned as it is, without being written.
LockNothing(a, i) == UNCHANGED locks

\* save_source updates the row of the item or inserts it, and waits for a transaction that
\* has done so and is still open; the insert that lost the race is done again as an update.
Lock(a, i) ==
    /\ ~HeldByOther(a, i)
    /\ locks' = [locks EXCEPT ![a] = @ \cup {i}]

\* save_github_candidates, one item: all stay locked until the end of the batch.
SaveCandidate(a) ==
    /\ InThread(a) /\ stage[a] = "candidates"
    /\ IF todo[a] = << >>
       THEN To(a, "items") /\ todo' = [todo EXCEPT ![a] = Current(a).selected] /\ UNCHANGED locks
       ELSE Lock(a, Item(a)) /\ todo' = [todo EXCEPT ![a] = Tail(@)] /\ UNCHANGED stage
    /\ UNCHANGED <<shared, plan, at, pending, lost, result, runs, report>>

Count(a, field) == result' = [result EXCEPT ![a][field] = @ + 1]
NextItem(a) == To(a, "items") /\ todo' = [todo EXCEPT ![a] = Tail(@)]

HasItem(a) == InThread(a) /\ stage[a] = "items" /\ todo[a] # << >>
Unready(a) == Current(a).kind = "github" /\ Item(a) \notin Current(a).ready

\* Mutant of NotReady: the item without a README is passed over.
NotReadySilently(a) ==
    /\ HasItem(a) /\ Unready(a)
    /\ NextItem(a)
    /\ UNCHANGED <<shared, plan, at, locks, pending, lost, result, runs, report>>

\* Without a README there is no draft, and the reason is recorded.
NotReady(a) ==
    /\ HasItem(a) /\ Unready(a)
    /\ NextItem(a) /\ Count(a, "errors")
    /\ UNCHANGED <<shared, plan, at, locks, pending, lost, runs, report>>

\* has_meaningful_content says no.
SkipItem(a) ==
    /\ HasItem(a) /\ ~Unready(a)
    /\ NextItem(a) /\ Count(a, "skipped")
    /\ UNCHANGED <<shared, plan, at, locks, pending, lost, runs, report>>

\* An error of the model costs this item only; for a feed the open transaction is empty.
GenerationFails(a) ==
    /\ Failures /\ HasItem(a) /\ ~Unready(a)
    /\ NextItem(a) /\ Count(a, "errors")
    /\ UNCHANGED <<shared, plan, at, locks, pending, lost, runs, report>>

\* The text is written before the row of the item is touched.
Generate(a) ==
    /\ HasItem(a) /\ ~Unready(a)
    /\ To(a, "save")
    /\ UNCHANGED <<shared, plan, at, todo, locks, pending, lost, result, runs, report>>

SaveItem(a) ==
    /\ InThread(a) /\ stage[a] = "save"
    /\ Lock(a, Item(a))
    /\ To(a, "check")
    /\ UNCHANGED <<shared, plan, at, todo, pending, lost, result, runs, report>>

\* get_deduplicating_draft_for_source: committed drafts and the ones of this transaction.
Known(a, i) ==
    \/ \E d \in live : HashOf[d.item] = HashOf[i]
    \/ \E j \in pending[a] : HashOf[j] = HashOf[i]

\* A feed commits item by item, GitHub the whole batch.
AfterItem(a) == IF Current(a).kind = "github" THEN NextItem(a) ELSE To(a, "commit") /\ UNCHANGED todo

\* Mutant of Duplicate and of CreateDraft: there is no check before create_draft, which
\* returns the draft there is; the pipeline reports it as created.
DuplicateCreated(a) ==
    /\ InThread(a) /\ stage[a] = "check" /\ Known(a, Item(a))
    /\ AfterItem(a)
    /\ result' = [result EXCEPT ![a].created = @ \cup {Item(a)}]
    /\ UNCHANGED <<shared, plan, at, locks, pending, lost, runs, report>>

Duplicate(a) ==
    /\ InThread(a) /\ stage[a] = "check" /\ Known(a, Item(a))
    /\ AfterItem(a) /\ Count(a, "duplicates")
    /\ UNCHANGED <<shared, plan, at, locks, pending, lost, runs, report>>

CreateDraft(a) ==
    /\ InThread(a) /\ stage[a] = "check" /\ ~Known(a, Item(a))
    /\ AfterItem(a)
    /\ pending' = [pending EXCEPT ![a] = @ \cup {Item(a)}]
    /\ result' = [result EXCEPT ![a].created = @ \cup {Item(a)}]
    /\ UNCHANGED <<shared, plan, at, locks, lost, runs, report>>

Commit(a) ==
    LET new == {[by |-> a, item |-> i] : i \in pending[a]} IN
    /\ made' = made \cup new /\ live' = live \cup new
    /\ locks' = [locks EXCEPT ![a] = {}] /\ pending' = [pending EXCEPT ![a] = {}]
    /\ UNCHANGED introduced

Rollback(a) ==
    locks' = [locks EXCEPT ![a] = {}] /\ pending' = [pending EXCEPT ![a] = {}]

CommitItem(a) ==
    /\ InThread(a) /\ stage[a] = "commit"
    /\ Commit(a) /\ NextItem(a)
    /\ UNCHANGED <<plan, at, lost, result, runs, report>>

\* The item has been counted as created or a duplicate by then and stays so.
CommitItemFails(a) ==
    /\ Failures /\ InThread(a) /\ stage[a] = "commit"
    /\ Rollback(a) /\ NextItem(a) /\ Count(a, "errors")
    /\ lost' = [lost EXCEPT ![a] = @ \cup {Item(a)}]
    /\ UNCHANGED <<shared, plan, at, runs, report>>

\* The row of the collection run and the trending snapshots, then the commit.
EndBatch(a) ==
    /\ InThread(a) /\ stage[a] = "items" /\ todo[a] = << >>
    /\ Commit(a)
    /\ NextBatch(a, IF result[a].errors > 0 THEN "partial" ELSE "success")
    /\ UNCHANGED <<lost, report>>

---------------------------------------------------------------------------
(* The end of a run.                                                       *)

DoneRuns(a) == {runs[a][n] : n \in DOMAIN runs[a]}
Created(a) == UNION {r.result.created : r \in DoneRuns(a)}
ItemErrors(a) == \E r \in DoneRuns(a) : r.result.errors > 0

Status(a) ==
    CASE Created(a) = {} /\ ItemErrors(a) -> "failed"
      [] OTHER -> IF \A r \in DoneRuns(a) : r.status = "success" THEN "success"
                  ELSE IF \E r \in DoneRuns(a) : r.status # "failed" THEN "partial" ELSE "failed"

\* collection_completion; a failed run reports no drafts.
Summarize(a) ==
    /\ pc[a] = "persist" /\ at[a] > Len(batches[a])
    /\ Leave(a)
    /\ arow' = [arow EXCEPT ![a] = Status(a)]
    /\ told' = [told EXCEPT ![a] = IF Status(a) = "failed" THEN "failed" ELSE "completed"]
    /\ reported' = [reported EXCEPT ![a] = IF Status(a) = "failed" THEN {} ELSE Created(a)]
    /\ UNCHANGED <<shared, locks, pending, lost>>

\* Mutant of Break: the row of the run is left as it is.
BreakUnfinished(a) ==
    /\ Leave(a) /\ Rollback(a)
    /\ told' = [told EXCEPT ![a] = "failed"]
    /\ UNCHANGED <<shared, lost, arow, reported>>

\* An exception leaves the graph: the row is closed as failed without results, and the job
\* says that no draft was made (_generation_failure_detail).
Break(a) ==
    /\ Leave(a) /\ Rollback(a)
    /\ arow' = [arow EXCEPT ![a] = IF pc[a] = "ghost" THEN @ ELSE "failed"]
    /\ told' = [told EXCEPT ![a] = IF pc[a] = "ghost" THEN @ ELSE "failed"]
    /\ UNCHANGED <<shared, lost, reported>>

PlanFails(a) == pc[a] = "plan" /\ ~Available(a) /\ Break(a)

\* Whom a transaction waits for.
WaitsFor(a, b) ==
    /\ b # a /\ InThread(a) /\ todo[a] # << >> /\ stage[a] \in {"candidates", "save"}
    /\ Item(a) \in locks[b]
Deadlocked(a) == \E S \in SUBSET Agents : a \in S /\ \A b \in S : \E c \in S : WaitsFor(b, c)

\* The database aborts a transaction of a circle.  Only candidates are saved outside of the
\* pipeline's error handling, and only their transactions hold a lock while they wait.
DeadlockVictim(a) == Deadlocked(a) /\ stage[a] = "candidates" /\ Break(a)

\* The database refuses a statement outside of the error handling of single items.
PersistFails(a) ==
    /\ Failures /\ InThread(a) /\ stage[a] \in {"candidates", "items"} /\ todo[a] = << >>
    /\ Break(a)

\* The time limit of the job or a worker that shuts down: CancelledError passes by
\* "except Exception", so the row stays; the job reports a timeout; a thread that is
\* persisting goes on with its batch.
Cancel(a) ==
    /\ Cancels /\ pc[a] \in {"plan", "fetch", "select", "enrich", "persist"}
    /\ told' = [told EXCEPT ![a] = "timeout"]
    /\ IF stage[a] = "closed" THEN Leave(a)
       ELSE Goto(a, "ghost") /\ UNCHANGED <<command, batches, at, runs, todo, result, stage>>
    /\ UNCHANGED <<shared, locks, pending, lost, arow, reported>>

---------------------------------------------------------------------------
\* What users and deliveries do to drafts meanwhile (DraftLifecycle).
DropDraft(d) ==
    /\ d \in live /\ d.item \notin introduced
    /\ live' = live \ {d}
    /\ UNCHANGED <<made, introduced, plan, at, tx, runs, report>>

Deliver(d) ==
    /\ d \in live /\ introduced' = introduced \cup {d.item}
    /\ UNCHANGED <<made, live, plan, at, tx, runs, report>>

Persisting(a) ==
    \/ Begin(a) \/ PersistError(a) \/ SaveCandidate(a)
    \/ NotReady(a) \/ SkipItem(a) \/ GenerationFails(a) \/ Generate(a)
    \/ SaveItem(a) \/ Duplicate(a) \/ CreateDraft(a)
    \/ CommitItem(a) \/ CommitItemFails(a) \/ EndBatch(a)

Step(a) ==
    \/ Plan(a) \/ PlanFails(a) \/ Fetch(a) \/ BeforeEnrichment(a) \/ EnrichGithub(a)
    \/ Persisting(a) \/ DeadlockVictim(a) \/ PersistFails(a)
    \/ Summarize(a)

Next ==
    \/ \E a \in Agents : Start(a) \/ Step(a) \/ Cancel(a)
    \/ \E d \in made : DropDraft(d) \/ Deliver(d)

Spec == Init /\ [][Next]_vars

\* Requests and model calls have time limits, and the database aborts deadlocks.
Fairness == \A a \in Agents : WF_vars(Step(a))
FairSpec == Spec /\ Fairness

---------------------------------------------------------------------------
TypeOK ==
    /\ made \subseteq Draft /\ live \subseteq made /\ introduced \subseteq Items
    /\ arow \in [Agents -> {"none", "running", "success", "partial", "failed"}]
    /\ pc \in [Agents -> {"idle", "plan", "fetch", "select", "enrich", "persist", "ghost", "over"}]
    /\ \A a \in Agents : \A n \in DOMAIN batches[a] :
        batches[a][n].items \in Seq(Items) /\ Len(batches[a][n].selected) <= 1
    /\ at \in [Agents -> Nat \ {0}]
    /\ stage \in [Agents -> {"closed", "candidates", "items", "save", "check", "commit"}]
    /\ \A a \in Agents : todo[a] \in Seq(Items)
    /\ locks \in [Agents -> SUBSET Items] /\ pending \in [Agents -> SUBSET Items]
    /\ lost \in [Agents -> SUBSET Items]
    /\ result \in [Agents -> Result]
    /\ \A a \in Agents : runs[a] \in Seq(Run)
    /\ told \in [Agents -> {"none", "completed", "failed", "timeout"}]
    /\ reported \in [Agents -> SUBSET Items]

\* get_deduplicating_draft_for_source: however collections of one source interleave, an item
\* has one live draft.  The check itself is not exclusive; the row save_source has written is.
OneLiveDraftPerItem == \A d, e \in live : d.item = e.item => d = e

\* collection_completion: the drafts a collection says it has made are exactly those it made,
\* but for those of a feed whose commit failed.
MadeBy(a) == {i \in Items : [by |-> a, item |-> i] \in made}
ReportIsComplete ==
    \A a \in Agents : told[a] = "completed" => MadeBy(a) = reported[a] \ lost[a]

\* process and process_github_single: every item received is created, a duplicate, skipped or
\* an error, whatever went wrong on the way; only one whose commit failed is counted twice.
EveryItemAccounted ==
    \A a \in Agents : \A n \in DOMAIN runs[a] :
        LET r == runs[a][n].result IN
        r.received + Cardinality({i \in lost[a] : KindOf[i] = batches[a][n].kind})
            = Cardinality(r.created) + r.duplicates + r.skipped + r.errors

\* ContentMainAgent.run: the row of a run does not stay "running" unless its job is cancelled.
RunRowCloses == \A a \in Agents : arow[a] = "running" ~> (arow[a] # "running" \/ told[a] = "timeout")

\* list_agent_runs: the row of a run that has ended says so; nothing sweeps these rows.
EndedRowIsClosed == \A a \in Agents : pc[a] = "over" => arow[a] # "running"

\* process: an item counted as created has its draft.
CreatedIsMade == \A a \in Agents : told[a] = "completed" => reported[a] = MadeBy(a)

\* create_draft: "only discarded and deleted drafts let the same content be made again".
OneLiveDraftPerContent == \A d, e \in live : HashOf[d.item] = HashOf[e.item] => d = e

\* _generation_failure_detail: "no new draft was made".
FailedMadeNothing == \A a \in Agents : told[a] = "failed" => MadeBy(a) = {}
=============================================================================
