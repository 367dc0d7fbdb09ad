-------------------------- MODULE CollectionProofs --------------------------
(***************************************************************************)
(* What holds for any number of collections, items and sources.  The check *)
(* for a live draft of an item is followed by the insert in the same       *)
(* transaction, but nothing makes the two exclusive but the row of the     *)
(* item, which the transaction has written and holds until it ends.        *)
(*                                                                         *)
(* The second part is about what a collection keeps in its memory while    *)
(* its transactions commit and roll back: the counters of its batches, and *)
(* the report it makes of them.  They add up because the sources of a      *)
(* command are distinct, so that an item is in one batch only.             *)
(***************************************************************************)
EXTENDS Collection, FiniteSetTheorems, SequenceTheorems, TLAPS

\* The variables of the transactions are functions of the agents.
TxFunctions ==
    /\ stage = [a \in Agents |-> stage[a]] /\ todo = [a \in Agents |-> todo[a]]
    /\ locks = [a \in Agents |-> locks[a]] /\ pending = [a \in Agents |-> pending[a]]

\* No row is held by two transactions.
LocksExclude == \A a, b \in Agents : a # b => locks[a] \cap locks[b] = {}
\* A transaction holds the rows of the items whose draft it makes, and of the one it checks.
PendingHeld == \A a \in Agents : pending[a] \subseteq locks[a]
CheckedHeld == \A a \in Agents : stage[a] = "check" => Item(a) \in locks[a]
\* What is about to be committed has no live draft yet.
PendingNew == \A a \in Agents : \A d \in live : d.item \notin pending[a]

IInv == TxFunctions /\ LocksExclude /\ PendingHeld /\ CheckedHeld /\ PendingNew /\ OneLiveDraftPerItem

\* Steps that leave locks, pending and live alone, and check nothing.
Quiet(a) ==
    /\ UNCHANGED <<locks, pending, live>>
    /\ \/ UNCHANGED <<stage, todo>>
       \/ /\ stage' = [stage EXCEPT ![a] = stage'[a]] /\ stage'[a] # "check"
          /\ todo' = [todo EXCEPT ![a] = todo'[a]]

LEMMA QuietStep ==
    ASSUME NEW a \in Agents, IInv, Quiet(a)
    PROVE  IInv'
<1>1. CASE UNCHANGED <<stage, todo>>
  BY <1>1 DEF Quiet, IInv, TxFunctions, LocksExclude, PendingHeld, CheckedHeld, PendingNew, OneLiveDraftPerItem, Item
<1>2. CASE /\ stage' = [stage EXCEPT ![a] = stage'[a]] /\ stage'[a] # "check"
           /\ todo' = [todo EXCEPT ![a] = todo'[a]]
  <2>1. TxFunctions'
    BY <1>2 DEF IInv, TxFunctions, Quiet
  <2>2. ASSUME NEW b \in Agents, stage'[b] = "check"
        PROVE  Item(b)' \in locks'[b]
    <3>1. b # a
      BY <2>2, <1>2
    <3>2. stage[b] = "check" /\ todo'[b] = todo[b]
      BY <3>1, <2>2, <1>2 DEF IInv, TxFunctions
    <3> QED BY <3>2 DEF IInv, CheckedHeld, Item, Quiet
  <2> QED BY <2>1, <2>2 DEF IInv, LocksExclude, PendingHeld, CheckedHeld, PendingNew, OneLiveDraftPerItem, Quiet
<1> QED BY <1>1, <1>2 DEF Quiet

\* A transaction ends: its drafts become live, or they do not.
LEMMA EndStep ==
    ASSUME NEW a \in Agents, IInv,
           stage' = [stage EXCEPT ![a] = stage'[a]], stage'[a] # "check",
           todo' = [todo EXCEPT ![a] = todo'[a]],
           Commit(a) \/ (Rollback(a) /\ UNCHANGED live)
    PROVE  IInv'
<1>1. /\ locks' = [locks EXCEPT ![a] = {}] /\ pending' = [pending EXCEPT ![a] = {}]
      /\ \A d \in live' : d \in live \/ (d.by = a /\ d.item \in pending[a] /\ d = [by |-> a, item |-> d.item])
  BY DEF Commit, Rollback
<1>2. TxFunctions'
  BY <1>1 DEF IInv, TxFunctions
<1>3. LocksExclude' /\ PendingHeld'
  BY <1>1 DEF IInv, TxFunctions, LocksExclude, PendingHeld
<1>4. ASSUME NEW b \in Agents, stage'[b] = "check"
      PROVE  Item(b)' \in locks'[b]
  <2>1. b # a
    BY <1>4
  <2>2. stage[b] = "check" /\ todo'[b] = todo[b] /\ locks'[b] = locks[b]
    BY <1>1, <1>4, <2>1 DEF IInv, TxFunctions
  <2> QED BY <2>2 DEF IInv, CheckedHeld, Item
<1>5. PendingNew'
  BY <1>1 DEF IInv, TxFunctions, LocksExclude, PendingHeld, PendingNew
<1>6. OneLiveDraftPerItem'
  BY <1>1 DEF IInv, PendingNew, OneLiveDraftPerItem
<1> QED BY <1>2, <1>3, <1>4, <1>5, <1>6 DEF IInv, CheckedHeld

\* A row is taken that nobody else holds.
LEMMA LockStep ==
    ASSUME NEW a \in Agents, IInv, Lock(a, Item(a)), UNCHANGED <<pending, live>>,
           \/ UNCHANGED stage /\ stage[a] # "check" /\ todo' = [todo EXCEPT ![a] = Tail(@)]
           \/ UNCHANGED todo /\ stage' = [stage EXCEPT ![a] = "check"]
    PROVE  IInv'
<1>1. /\ locks' = [locks EXCEPT ![a] = @ \cup {Item(a)}]
      /\ \A b \in Agents : b # a => Item(a) \notin locks[b]
  BY DEF Lock, HeldByOther
<1>2. TxFunctions'
  BY <1>1 DEF IInv, TxFunctions
<1>3. LocksExclude' /\ PendingHeld'
  BY <1>1 DEF IInv, TxFunctions, LocksExclude, PendingHeld
<1>4. CheckedHeld'
  BY <1>1 DEF IInv, TxFunctions, CheckedHeld, Item
<1> QED BY <1>2, <1>3, <1>4 DEF IInv, PendingNew, OneLiveDraftPerItem

\* A draft is made of an item whose row is held and which has no live draft.
LEMMA CreateStep ==
    ASSUME NEW a \in Agents, IInv, CreateDraft(a)
    PROVE  IInv'
<1>1. /\ pending' = [pending EXCEPT ![a] = @ \cup {Item(a)}] /\ UNCHANGED <<locks, live>>
      /\ Item(a) \in locks[a] /\ \A d \in live : d.item # Item(a)
  BY DEF CreateDraft, IInv, CheckedHeld, Known, shared
<1>2. /\ stage' = [stage EXCEPT ![a] = stage'[a]] /\ stage'[a] # "check"
      /\ todo' = [todo EXCEPT ![a] = todo'[a]]
  BY DEF CreateDraft, AfterItem, NextItem, To, IInv, TxFunctions
<1>3. TxFunctions'
  BY <1>1, <1>2 DEF IInv, TxFunctions
<1>4. LocksExclude' /\ PendingHeld' /\ PendingNew'
  BY <1>1 DEF IInv, TxFunctions, LocksExclude, PendingHeld, PendingNew
<1>5. ASSUME NEW b \in Agents, stage'[b] = "check"
      PROVE  Item(b)' \in locks'[b]
  <2>1. b # a
    BY <1>2, <1>5
  <2>2. stage[b] = "check" /\ todo'[b] = todo[b]
    BY <1>2, <1>5, <2>1 DEF IInv, TxFunctions
  <2> QED BY <1>1, <2>2 DEF IInv, CheckedHeld, Item
<1> QED BY <1>1, <1>3, <1>4, <1>5 DEF IInv, CheckedHeld, OneLiveDraftPerItem

LEMMA InitEstablishes == Init => IInv
BY DEF Init, IInv, TxFunctions, LocksExclude, PendingHeld, CheckedHeld, PendingNew, OneLiveDraftPerItem

\* Every step of the persisting thread is one of the four kinds.
LEMMA PersistingStep ==
    ASSUME NEW a \in Agents, IInv, Persisting(a)
    PROVE  IInv'
<1> USE DEF shared, plan, tx, report
<1>1. CASE Begin(a)
  BY <1>1, QuietStep DEF Begin, To, Quiet, IInv, TxFunctions
<1>2. CASE PersistError(a)
  BY <1>2, QuietStep DEF PersistError, NextBatch, Leave, To, Quiet, IInv, TxFunctions
<1>3. CASE SaveCandidate(a)
  <2>1. CASE todo[a] = << >>
    BY <1>3, <2>1, QuietStep DEF SaveCandidate, To, Quiet, IInv, TxFunctions
  <2>2. CASE todo[a] # << >>
    BY <1>3, <2>2, LockStep DEF SaveCandidate
  <2> QED BY <2>1, <2>2
<1>4. CASE NotReady(a) \/ SkipItem(a) \/ GenerationFails(a) \/ Generate(a) \/ Duplicate(a)
  BY <1>4, QuietStep
  DEF NotReady, SkipItem, GenerationFails, Generate, Duplicate, AfterItem, NextItem, To, Quiet, IInv, TxFunctions
<1>5. CASE SaveItem(a)
  BY <1>5, LockStep DEF SaveItem, To
<1>6. CASE CreateDraft(a)
  BY <1>6, CreateStep
<1>7. CASE CommitItem(a) \/ CommitItemFails(a)
  BY <1>7, EndStep DEF CommitItem, CommitItemFails, NextItem, To, IInv, TxFunctions
<1>8. CASE EndBatch(a)
  BY <1>8, EndStep DEF EndBatch, NextBatch, Leave, To, IInv, TxFunctions
<1> QED BY <1>1, <1>2, <1>3, <1>4, <1>5, <1>6, <1>7, <1>8 DEF Persisting

LEMMA StepPreserves == IInv /\ [Next]_vars => IInv'
<1> USE DEF shared, plan, tx, report
<1> SUFFICES ASSUME IInv, [Next]_vars PROVE IInv'
  OBVIOUS
<1>1. ASSUME NEW a \in Agents,
             Start(a) \/ Plan(a) \/ Fetch(a) \/ BeforeEnrichment(a) \/ EnrichGithub(a)
      PROVE  IInv'
  BY <1>1, QuietStep DEF Start, Plan, Fetch, BeforeEnrichment, EnrichGithub, Quiet
<1>2. ASSUME NEW a \in Agents, PlanFails(a) \/ DeadlockVictim(a) \/ PersistFails(a)
      PROVE  IInv'
  BY <1>2, EndStep DEF PlanFails, DeadlockVictim, PersistFails, Break, Leave, IInv, TxFunctions
<1>3. ASSUME NEW a \in Agents, Summarize(a) \/ Cancel(a)
      PROVE  IInv'
  BY <1>3, QuietStep DEF Summarize, Cancel, Goto, Leave, Quiet, IInv, TxFunctions
<1>4. ASSUME NEW d, DropDraft(d) \/ Deliver(d)
      PROVE  IInv'
  BY <1>4 DEF DropDraft, Deliver, IInv, TxFunctions, LocksExclude, PendingHeld, CheckedHeld,
              PendingNew, OneLiveDraftPerItem, Item
<1>5. CASE UNCHANGED vars
  BY <1>5 DEF vars, IInv, TxFunctions, LocksExclude, PendingHeld, CheckedHeld, PendingNew,
              OneLiveDraftPerItem, Item
<1> QED BY <1>1, <1>2, <1>3, <1>4, <1>5, PersistingStep DEF Next, Step

\* However collections of one source interleave, an item has at most one live draft.
THEOREM OneLiveDraft == Spec => []OneLiveDraftPerItem
<1>1. IInv => OneLiveDraftPerItem
  BY DEF IInv
<1> QED BY <1>1, InitEstablishes, StepPreserves, PTL DEF Spec
-----------------------------------------------------------------------------
(* What an agent has in its memory                                         *)

BatchType == [kind : Kinds, error : BOOLEAN, items : Seq(Items), selected : Seq(Items),
              targeted : BOOLEAN, ready : SUBSET Items]
Nodes  == {"idle", "plan", "fetch", "select", "enrich", "persist", "ghost", "over"}
Stages == {"closed", "candidates", "items", "save", "check", "commit"}

Distinct(s) == \A j, k \in DOMAIN s : s[j] = s[k] => j = k
Of(s, kind) == \A k \in DOMAIN s : KindOf[s[k]] = kind
LostOf(a, kind) == {i \in lost[a] : KindOf[i] = kind}

Memory(a) ==
    /\ pc[a] \in Nodes /\ stage[a] \in Stages
    /\ batches[a] \in Seq(BatchType) /\ runs[a] \in Seq(Run) /\ at[a] = Len(runs[a]) + 1
    /\ todo[a] \in Seq(Items) /\ result[a] \in Result
    /\ pending[a] \subseteq Items /\ lost[a] \subseteq Items

\* Its batches are those of different sources, in the order of its command.
Shape(b, kind) ==
    /\ b.kind = kind /\ Distinct(b.items) /\ Of(b.items, kind) /\ Of(b.selected, kind)
    /\ Len(b.selected) <= 1 /\ Len(b.selected) <= Len(b.items)
Sourced(a) ==
    /\ SourcesOf(a) \in Seq(Kinds) /\ Distinct(SourcesOf(a))
    /\ command[a].target # NoItem => command[a].target \in Items /\ KindOf[command[a].target] = "github"
    /\ Len(batches[a]) <= Len(SourcesOf(a))
    /\ pc[a] \in {"idle", "plan"} => batches[a] = << >>
    /\ pc[a] = "plan" => SourcesOf(a) # << >>
    /\ pc[a] = "fetch" => Len(batches[a]) < Len(SourcesOf(a))
    /\ \A n \in DOMAIN batches[a] : Shape(batches[a][n], SourcesOf(a)[n])

\* Before it persists it has made nothing, and between batches nothing is open.
Placed(a) ==
    /\ Len(runs[a]) <= Len(batches[a])
    /\ pc[a] \notin {"persist", "ghost"} => runs[a] = << >> /\ stage[a] = "closed"
    /\ pc[a] \notin {"persist", "ghost", "over"} => lost[a] = {} /\ MadeBy(a) = {}
    /\ pc[a] \notin {"ghost", "over"} => told[a] = "none"
    /\ pc[a] = "ghost" => told[a] = "timeout"
    /\ stage[a] = "closed" => pc[a] # "ghost" /\ result[a] = NoResult /\ pending[a] = {}
    /\ stage[a] # "closed" => at[a] <= Len(batches[a])

\* What is left of the batch has not been counted yet.
Uncounted(a) == {k \in DOMAIN todo[a] : stage[a] # "commit" \/ k # 1}
AtWork(a) ==
    stage[a] # "closed" =>
        /\ Distinct(todo[a]) /\ Of(todo[a], Current(a).kind)
        /\ \A i \in result[a].created : KindOf[i] = Current(a).kind
        /\ stage[a] = "candidates" => result[a].created = {} /\ pending[a] = {}
        /\ stage[a] \in {"save", "check", "commit"} => todo[a] # << >>
        /\ stage[a] \in {"items", "save", "check"} /\ Current(a).kind # "github" => pending[a] = {}
        /\ stage[a] = "commit" =>
              /\ Current(a).kind # "github" /\ pending[a] \subseteq {Item(a)}
              /\ Item(a) \notin MadeBy(a) \cup lost[a]
        /\ stage[a] # "candidates" => \A k \in Uncounted(a) : todo[a][k] \notin lost[a] \cup result[a].created

\* Nothing of a source is lost before its batch is worked on.
Clean(a) ==
    \A n \in DOMAIN batches[a] :
        n > at[a] \/ (n = at[a] /\ stage[a] \in {"closed", "candidates"}) => LostOf(a, batches[a][n].kind) = {}

-----------------------------------------------------------------------------
(* The accounts                                                            *)

Left(a) == IF stage[a] = "candidates" THEN Len(Current(a).selected)
           ELSE IF stage[a] = "commit" THEN Len(todo[a]) - 1 ELSE Len(todo[a])
Balanced(a, r, kind, left) ==
    r.received + Cardinality(LostOf(a, kind)) = Cardinality(r.created) + r.duplicates + r.skipped + r.errors + left

Accounts(a) ==
    /\ stage[a] # "closed" => Balanced(a, result[a], Current(a).kind, Left(a))
    /\ \A n \in DOMAIN runs[a] :
        /\ Balanced(a, runs[a][n].result, batches[a][n].kind, 0)
        /\ \A i \in runs[a][n].result.created : KindOf[i] = batches[a][n].kind

\* The drafts it has made, or is about to, are those it has counted and not lost.
Books(a) ==
    /\ pc[a] \in {"persist", "ghost"} =>
          MadeBy(a) \cup pending[a] = (Created(a) \cup result[a].created) \ lost[a]
    /\ told[a] = "completed" => pc[a] = "over" /\ MadeBy(a) = reported[a] \ lost[a]

Sound(a) == Memory(a) /\ Sourced(a) /\ Placed(a) /\ AtWork(a) /\ Clean(a) /\ Accounts(a) /\ Books(a)

\* The variables of the agents are functions of the agents.
Functional ==
    /\ pc = [a \in Agents |-> pc[a]] /\ command = [a \in Agents |-> command[a]]
    /\ batches = [a \in Agents |-> batches[a]] /\ at = [a \in Agents |-> at[a]]
    /\ stage = [a \in Agents |-> stage[a]] /\ todo = [a \in Agents |-> todo[a]]
    /\ pending = [a \in Agents |-> pending[a]] /\ lost = [a \in Agents |-> lost[a]]
    /\ result = [a \in Agents |-> result[a]] /\ runs = [a \in Agents |-> runs[a]]
    /\ told = [a \in Agents |-> told[a]] /\ reported = [a \in Agents |-> reported[a]]

Accounted == Functional /\ \A a \in Agents : Sound(a)

-----------------------------------------------------------------------------
(* What the accounts rest on                                               *)

LEMMA KindsDiffer ==
    ASSUME NEW a \in Agents, Memory(a), Sourced(a), NEW j \in DOMAIN batches[a], NEW k \in DOMAIN batches[a], j # k
    PROVE  batches[a][j].kind # batches[a][k].kind
BY DEF Memory, Sourced, Shape, Distinct

LEMMA FiniteCounts ==
    ASSUME NEW S \in SUBSET Items
    PROVE  /\ IsFiniteSet(S) /\ Cardinality(S) \in Nat
           /\ \A i \in Items \ S : Cardinality(S \cup {i}) = Cardinality(S) + 1
BY FS_Subset, FS_AddElement, FS_CardinalityType, CollectionAssumption

LEMMA Tails ==
    ASSUME NEW s \in Seq(Items), s # << >>, NEW kind, Distinct(s), Of(s, kind)
    PROVE  /\ Tail(s) \in Seq(Items) /\ Len(Tail(s)) = Len(s) - 1 /\ Head(s) \in Items /\ KindOf[Head(s)] = kind
           /\ Distinct(Tail(s)) /\ Of(Tail(s), kind) /\ 1 \in DOMAIN s /\ Head(s) = s[1]
           /\ \A k \in DOMAIN Tail(s) : \E j \in DOMAIN s : j # 1 /\ Tail(s)[k] = s[j]
           /\ \A k \in DOMAIN s : k # 1 => s[k] # Head(s)
<1>1. /\ Tail(s) \in Seq(Items) /\ Len(Tail(s)) = Len(s) - 1 /\ Head(s) \in Items
      /\ 1 \in DOMAIN s /\ Head(s) = s[1]
  OBVIOUS
<1>2. \A k \in DOMAIN Tail(s) : k + 1 \in DOMAIN s /\ k + 1 # 1 /\ Tail(s)[k] = s[k + 1]
  OBVIOUS
<1> QED
  BY <1>1, <1>2 DEF Distinct, Of

LEMMA MadeByCommit ==
    ASSUME NEW a \in Agents, pending[a] \subseteq Items, Commit(a)
    PROVE  MadeBy(a)' = MadeBy(a) \cup pending[a] /\ \A b \in Agents \ {a} : MadeBy(b)' = MadeBy(b)
BY DEF Commit, MadeBy

LEMMA CreatedAppend ==
    ASSUME NEW a \in Agents, runs[a] \in Seq(Run), NEW r \in Run, runs'[a] = Append(runs[a], r)
    PROVE  Created(a)' = Created(a) \cup r.result.created
<1>1. DoneRuns(a)' = DoneRuns(a) \cup {r}
  BY DEF DoneRuns
<1> QED
  BY <1>1 DEF Created

\* What a step of another agent leaves.
Untouched(b) ==
    /\ pc'[b] = pc[b] /\ command'[b] = command[b] /\ batches'[b] = batches[b] /\ at'[b] = at[b]
    /\ stage'[b] = stage[b] /\ todo'[b] = todo[b] /\ pending'[b] = pending[b] /\ lost'[b] = lost[b]
    /\ result'[b] = result[b] /\ runs'[b] = runs[b] /\ told'[b] = told[b] /\ reported'[b] = reported[b]
    /\ MadeBy(b)' = MadeBy(b)

LEMMA UntouchedSound ==
    ASSUME NEW b \in Agents, Sound(b), Untouched(b)
    PROVE  Sound(b)'
<1>1. /\ SourcesOf(b)' = SourcesOf(b) /\ Current(b)' = Current(b) /\ Item(b)' = Item(b)
      /\ Uncounted(b)' = Uncounted(b) /\ Left(b)' = Left(b) /\ Created(b)' = Created(b)
      /\ \A k : LostOf(b, k)' = LostOf(b, k)
  BY DEF Untouched, SourcesOf, Current, Item, Uncounted, Left, Created, DoneRuns, LostOf
<1>2. Memory(b)' /\ Sourced(b)'
  BY <1>1 DEF Untouched, Sound, Memory, Sourced
<1>3. Placed(b)' /\ AtWork(b)' /\ Clean(b)'
  BY <1>1 DEF Untouched, Sound, Placed, AtWork, Clean
<1>4. Accounts(b)' /\ Books(b)'
  BY <1>1 DEF Untouched, Sound, Accounts, Balanced, Books
<1> QED
  BY <1>2, <1>3, <1>4 DEF Sound

-----------------------------------------------------------------------------
(* Four kinds of steps                                                     *)

\* Before it persists, an agent changes its plan only.
LEMMA PreparedSound ==
    ASSUME NEW a \in Agents, Sound(a),
           pc[a] \notin {"persist", "ghost", "over"}, pc'[a] \in {"plan", "fetch", "select", "enrich", "persist"},
           at'[a] = at[a], UNCHANGED <<made, stage, todo, pending, lost, result, runs, told, reported>>,
           batches'[a] \in Seq(BatchType), Sourced(a)'
    PROVE  Sound(a)'
<1>1. /\ runs[a] = << >> /\ stage[a] = "closed" /\ lost[a] = {} /\ MadeBy(a) = {} /\ told[a] = "none"
      /\ result[a] = NoResult /\ pending[a] = {} /\ at[a] = 1 /\ Memory(a)
  BY DEF Sound, Memory, Placed
<1>2. MadeBy(a)' = {} /\ Created(a)' = {} /\ \A k : LostOf(a, k)' = {}
  BY <1>1 DEF MadeBy, Created, DoneRuns, LostOf
<1>3. Memory(a)'
  BY <1>1 DEF Memory, Nodes
<1>4. Placed(a)'
  BY <1>1, <1>2, <1>3 DEF Placed, Memory
<1>5. AtWork(a)' /\ Clean(a)'
  BY <1>1, <1>2 DEF AtWork, Clean
<1>6. Accounts(a)' /\ Books(a)'
  BY <1>1, <1>2 DEF Accounts, Books, NoResult
<1> QED
  BY <1>3, <1>4, <1>5, <1>6 DEF Sound

\* An agent that has ended keeps only what it has reported and lost.
LEMMA LeftSound ==
    ASSUME NEW a \in Agents, Functional, Sound(a), Leave(a), pending'[a] = {}, lost'[a] \subseteq Items,
           told'[a] = "completed" => MadeBy(a)' = reported'[a] \ lost'[a]
    PROVE  Sound(a)'
<1>1. /\ pc'[a] = "over" /\ command'[a] = NoCommand /\ batches'[a] = << >> /\ at'[a] = 1
      /\ runs'[a] = << >> /\ todo'[a] = << >> /\ result'[a] = NoResult /\ stage'[a] = "closed"
  BY DEF Leave, Goto, Functional
<1>2. Memory(a)'
  BY <1>1 DEF Memory, Nodes, Stages, Result, NoResult
<1>3. Sourced(a)'
  BY <1>1 DEF Sourced, SourcesOf, NoCommand, Distinct
<1>4. Placed(a)' /\ AtWork(a)' /\ Clean(a)' /\ Accounts(a)' /\ Books(a)'
  BY <1>1 DEF Placed, AtWork, Clean, Accounts, Books
<1> QED
  BY <1>2, <1>3, <1>4 DEF Sound

\* Within a batch, the item an agent works on is counted, made or lost.
LEMMA WithinSound ==
    ASSUME NEW a \in Agents, Sound(a), InThread(a),
           pc'[a] = pc[a], command'[a] = command[a], batches'[a] = batches[a], at'[a] = at[a], runs'[a] = runs[a],
           told'[a] = told[a], reported'[a] = reported[a],
           stage'[a] \in Stages \ {"closed"}, todo'[a] \in Seq(Items), result'[a] \in Result,
           pending'[a] \subseteq Items, lost[a] \subseteq lost'[a], lost'[a] \subseteq Items,
           \A i \in lost'[a] \ lost[a] : KindOf[i] = Current(a).kind,
           stage'[a] = "candidates" => stage[a] \in {"closed", "candidates"} /\ lost'[a] = lost[a],
           AtWork(a)', Balanced(a, result[a], Current(a).kind, Left(a))',
           MadeBy(a)' \cup pending'[a] = (Created(a) \cup result'[a].created) \ lost'[a]
    PROVE  Sound(a)'
<1>0. /\ Memory(a) /\ Sourced(a) /\ Placed(a) /\ pc[a] \in {"persist", "ghost"}
      /\ at[a] \in DOMAIN batches[a] /\ Current(a)' = Current(a) /\ Current(a) = batches[a][at[a]]
      /\ SourcesOf(a)' = SourcesOf(a) /\ Created(a)' = Created(a)
  BY DEF Sound, Memory, InThread, Current, SourcesOf, Created, DoneRuns
<1>1. \A n \in DOMAIN batches[a] : n # at[a] => LostOf(a, batches[a][n].kind)' = LostOf(a, batches[a][n].kind)
  <2> SUFFICES ASSUME NEW n \in DOMAIN batches[a], n # at[a]
               PROVE  LostOf(a, batches[a][n].kind)' = LostOf(a, batches[a][n].kind)
    OBVIOUS
  <2>1. batches[a][n].kind # Current(a).kind
    BY <1>0, KindsDiffer
  <2> QED
    BY <2>1 DEF LostOf
<1>2. Memory(a)' /\ Sourced(a)'
  BY <1>0 DEF Memory, Sourced
<1>3. Placed(a)'
  BY <1>0 DEF Placed, InThread
<1>4. Clean(a)'
  <2> SUFFICES ASSUME NEW n \in DOMAIN batches[a], n > at[a] \/ (n = at[a] /\ stage'[a] = "candidates")
               PROVE  LostOf(a, batches[a][n].kind)' = {}
    BY DEF Clean
  <2>1. CASE n # at[a]
    BY <1>0, <1>1, <2>1 DEF Sound, Clean, Memory
  <2>2. CASE n = at[a]
    BY <1>0, <2>2 DEF Sound, Clean, LostOf, Memory
  <2> QED
    BY <2>1, <2>2
<1>5. Accounts(a)'
  <2> SUFFICES ASSUME NEW n \in DOMAIN runs[a]
               PROVE  /\ Balanced(a, runs[a][n].result, batches[a][n].kind, 0)'
                      /\ \A i \in runs[a][n].result.created : KindOf[i] = batches[a][n].kind
    BY DEF Accounts
  <2>1. n \in DOMAIN batches[a] /\ n # at[a]
    BY <1>0 DEF Memory, Placed
  <2> QED
    BY <1>1, <2>1 DEF Sound, Accounts, Balanced
<1>6. Books(a)'
  BY <1>0 DEF Books, Placed, Sound
<1> QED
  BY <1>2, <1>3, <1>4, <1>5, <1>6 DEF Sound

\* A batch is done: its result is that of a run.
LEMMA NextSound ==
    ASSUME NEW a \in Agents, Functional, Sound(a), InThread(a), pc[a] = "persist", NEW s \in {"success", "partial", "failed"},
           NextBatch(a, s), UNCHANGED <<lost, told, reported>>, pending'[a] = {},
           MadeBy(a)' = MadeBy(a) \cup pending[a],
           Balanced(a, result[a], Current(a).kind, 0),
           \A i \in result[a].created : KindOf[i] = Current(a).kind
    PROVE  Sound(a)'
<1> DEFINE r == [status |-> s, result |-> result[a]]
<1>0. /\ Memory(a) /\ Sourced(a) /\ Placed(a) /\ r \in Run /\ at[a] \in DOMAIN batches[a]
      /\ Current(a) = batches[a][at[a]] /\ at[a] = Len(runs[a]) + 1
  BY DEF Sound, Memory, InThread, Current, Run
<1>1. /\ UNCHANGED <<pc, command, batches, todo>> /\ at'[a] = at[a] + 1 /\ runs'[a] = Append(runs[a], r)
      /\ result'[a] = NoResult /\ stage'[a] = "closed"
  BY DEF NextBatch, To, plan, Functional
<1>2. Created(a)' = Created(a) \cup result[a].created
  BY <1>0, <1>1, CreatedAppend DEF Memory
<1>3. SourcesOf(a)' = SourcesOf(a) /\ \A k : LostOf(a, k)' = LostOf(a, k)
  BY <1>1 DEF SourcesOf, LostOf
<1>4. Memory(a)'
  BY <1>0, <1>1 DEF Memory, Result, NoResult, Stages
<1>5. Sourced(a)'
  BY <1>0, <1>1, <1>3 DEF Sourced
<1>6. Placed(a)'
  <2>1. Len(runs'[a]) = at[a]
    BY <1>0, <1>1 DEF Memory
  <2> QED
    BY <1>0, <1>1, <2>1 DEF Placed, Memory
<1>7. Clean(a)'
  <2> SUFFICES ASSUME NEW n \in DOMAIN batches[a], n > at[a] + 1 \/ n = at[a] + 1
               PROVE  LostOf(a, batches[a][n].kind)' = {}
    BY <1>1 DEF Clean
  <2>1. n > at[a]
    BY <1>0 DEF Memory
  <2> QED
    BY <1>1, <2>1 DEF Sound, Clean, LostOf
<1>8. AtWork(a)'
  BY <1>1 DEF AtWork
<1>9. Accounts(a)'
  <2> SUFFICES ASSUME NEW n \in DOMAIN runs'[a]
               PROVE  /\ Balanced(a, runs[a][n].result, batches[a][n].kind, 0)'
                      /\ \A i \in runs'[a][n].result.created : KindOf[i] = batches'[a][n].kind
    BY <1>1 DEF Accounts
  <2>1. CASE n = at[a]
    <3>1. runs'[a][n] = r /\ batches'[a][n] = Current(a)
      BY <1>0, <1>1, <2>1 DEF Memory
    <3> QED
      BY <1>3, <3>1 DEF Balanced
  <2>2. CASE n # at[a]
    <3>1. n \in DOMAIN runs[a] /\ runs'[a][n] = runs[a][n] /\ batches'[a] = batches[a]
      BY <1>0, <1>1, <2>2 DEF Memory
    <3> QED
      BY <1>3, <3>1 DEF Balanced, Sound, Accounts
  <2> QED
    BY <2>1, <2>2
<1>10. Books(a)'
  BY <1>0, <1>1, <1>2 DEF Sound, Books, NoResult, Placed
<1> QED
  BY <1>4, <1>5, <1>6, <1>7, <1>8, <1>9, <1>10 DEF Sound

-----------------------------------------------------------------------------
(* Planning, fetching, selecting                                           *)

LEMMA InvokedShape ==
    ASSUME NEW kind \in Kinds, NEW target, target # NoItem => target \in Items /\ KindOf[target] = "github",
           NEW b \in Invoke(kind, target)
    PROVE  b \in BatchType /\ Shape(b, kind)
<1>1. CASE b \in ProjectBatches(target) /\ kind = "github" /\ target # NoItem
  <2>1. PICK r \in SUBSET {target} : b = [Batch("github", <<target>>, <<target>>, TRUE) EXCEPT !.ready = r]
    BY <1>1 DEF ProjectBatches
  <2>2. b = [kind |-> "github", error |-> FALSE, items |-> <<target>>, selected |-> <<target>>,
             targeted |-> TRUE, ready |-> r]
    BY <2>1 DEF Batch
  <2>3. <<target>> \in Seq(Items) /\ Len(<<target>>) = 1 /\ Distinct(<<target>>) /\ Of(<<target>>, "github")
    BY <1>1 DEF Distinct, Of
  <2>4. r \in SUBSET Items
    BY <1>1
  <2> QED
    BY <1>1, <2>2, <2>3, <2>4 DEF BatchType, Shape
<1>2. CASE b = ErrorBatch(kind)
  <2>1. b = [kind |-> kind, error |-> TRUE, items |-> << >>, selected |-> << >>, targeted |-> FALSE, ready |-> {}]
    BY <1>2 DEF ErrorBatch, Batch
  <2> QED
    BY <2>1 DEF BatchType, Shape, Distinct, Of
<1>3. CASE b = Batch(kind, << >>, << >>, FALSE)
  <2>1. b = [kind |-> kind, error |-> FALSE, items |-> << >>, selected |-> << >>, targeted |-> FALSE, ready |-> {}]
    BY <1>3 DEF Batch
  <2> QED
    BY <2>1 DEF BatchType, Shape, Distinct, Of
<1>4. CASE \E s \in Listing(kind) : b = Batch(kind, s, << >>, FALSE)
  <2>1. PICK s \in Listing(kind) : b = Batch(kind, s, << >>, FALSE)
    BY <1>4
  <2> DEFINE mine == {i \in Items : KindOf[i] = kind}
  <2>2. PICK n \in 0..Cardinality(mine) : s \in [1..n -> mine] /\ \A j, k \in 1..n : s[j] = s[k] => j = k
    BY DEF Listing
  <2>3. s \in Seq(Items) /\ DOMAIN s = 1..n
    <3>1. n \in Nat
      OBVIOUS
    <3>2. s \in [1..n -> Items]
      BY <2>2
    <3> QED
      BY <3>1, <3>2, SeqDef
  <2>4. Distinct(s) /\ Of(s, kind)
    BY <2>2, <2>3 DEF Distinct, Of
  <2>5. b = [kind |-> kind, error |-> FALSE, items |-> s, selected |-> << >>, targeted |-> FALSE, ready |-> {}]
    BY <2>1 DEF Batch
  <2> QED
    BY <2>3, <2>4, <2>5 DEF BatchType, Shape, Distinct, Of
<1> QED
  BY <1>1, <1>2, <1>3, <1>4 DEF Invoke, Raised

LEMMA OthersSound ==
    ASSUME Accounted, NEW a \in Agents, Sound(a)', Functional', \A b \in Agents \ {a} : Untouched(b)
    PROVE  Accounted'
BY UntouchedSound DEF Accounted

LEMMA PrepareStep ==
    ASSUME Accounted, NEW a \in Agents,
           Start(a) \/ Plan(a) \/ Fetch(a) \/ BeforeEnrichment(a) \/ EnrichGithub(a)
    PROVE  Accounted'
<1> USE DEF Accounted
<1>0. /\ Sound(a) /\ Memory(a) /\ Sourced(a)
      /\ UNCHANGED <<made, at, stage, todo, pending, lost, result, runs, told, reported>>
  BY DEF Sound, Start, Plan, Fetch, BeforeEnrichment, EnrichGithub, shared, tx, report
<1>1. /\ pc[a] \in {"idle", "plan", "fetch", "select", "enrich"}
      /\ pc' = [pc EXCEPT ![a] = pc'[a]] /\ pc'[a] \in {"plan", "fetch", "select", "enrich", "persist"}
      /\ command' = [command EXCEPT ![a] = command'[a]] /\ batches' = [batches EXCEPT ![a] = batches'[a]]
  BY DEF Start, Plan, Fetch, BeforeEnrichment, EnrichGithub, Goto, Functional
<1>2. Functional'
  BY <1>0, <1>1 DEF Functional
<1>3. \A b \in Agents \ {a} : Untouched(b)
  BY <1>0, <1>1 DEF Untouched, MadeBy, Functional
<1>4. batches'[a] \in Seq(BatchType) /\ Sourced(a)'
  <2>1. CASE Start(a)
    <3>1. /\ batches'[a] = << >> /\ pc'[a] = "plan" /\ command'[a] \in Commands
      BY <1>0, <2>1 DEF Start, Goto, Functional, Sourced
    <3> QED
      BY <3>1, CollectionAssumption DEF Sourced, SourcesOf, Distinct
  <2>2. CASE Plan(a)
    <3>1. batches'[a] = << >> /\ pc'[a] = "fetch" /\ command'[a] = command[a] /\ SourcesOf(a) # << >>
      BY <1>0, <2>2 DEF Plan, Goto, Functional, Sourced
    <3> QED
      BY <1>0, <3>1 DEF Sourced, SourcesOf
  <2>3. CASE Fetch(a)
    <3> DEFINE n == Len(batches[a]) + 1
    <3>1. /\ n \in DOMAIN SourcesOf(a) /\ SourcesOf(a)[n] \in Kinds /\ command'[a] = command[a]
      BY <1>0, <2>3 DEF Fetch, Sourced, Memory
    <3>2. PICK b \in Invoke(SourcesOf(a)[n], command[a].target) : batches'[a] = Append(batches[a], b)
      BY <2>3 DEF Fetch, Functional
    <3>3. b \in BatchType /\ Shape(b, SourcesOf(a)[n])
      BY <1>0, <3>1, <3>2, InvokedShape DEF Sourced
    <3>4. /\ pc'[a] \in {"fetch", "select"} /\ (pc'[a] = "fetch" => n # Len(SourcesOf(a)))
      BY <2>3 DEF Fetch, Goto, Functional
    <3>5. /\ batches'[a] \in Seq(BatchType) /\ Len(batches'[a]) = n
          /\ \A k \in DOMAIN batches'[a] : batches'[a][k] = IF k = n THEN b ELSE batches[a][k]
      BY <1>0, <3>2, <3>3 DEF Memory
    <3>6. \A k \in DOMAIN batches'[a] : Shape(batches'[a][k], SourcesOf(a)[k])
      BY <1>0, <3>3, <3>5 DEF Sourced, Memory
    <3> QED
      BY <1>0, <3>1, <3>4, <3>5, <3>6 DEF Sourced, SourcesOf
  <2>4. CASE BeforeEnrichment(a) \/ EnrichGithub(a)
    <3>1. /\ pc'[a] \in {"enrich", "persist"} /\ command'[a] = command[a]
      BY <2>4 DEF BeforeEnrichment, EnrichGithub, Goto, Functional
    <3>2. CASE batches'[a] = batches[a]
      BY <1>0, <3>1, <3>2 DEF Sourced, SourcesOf, Memory
    <3>3. ASSUME NEW n \in DOMAIN batches[a], NEW b \in BatchType, Shape(b, SourcesOf(a)[n]),
                 batches'[a] = [batches[a] EXCEPT ![n] = b]
          PROVE  batches'[a] \in Seq(BatchType) /\ Sourced(a)'
      BY <1>0, <3>1, <3>3 DEF Sourced, SourcesOf, Memory
    <3>4. ASSUME NEW n \in ToSelect(a), NEW s \in Selections(batches[a][n]),
                 batches' = [batches EXCEPT ![a][n].selected = s]
          PROVE  batches'[a] \in Seq(BatchType) /\ Sourced(a)'
      <4> DEFINE b == [batches[a][n] EXCEPT !.selected = s]
      <4>1. n \in DOMAIN batches[a] /\ batches[a][n] \in BatchType /\ Shape(batches[a][n], SourcesOf(a)[n])
        BY <1>0 DEF ToSelect, Memory, Sourced
      <4>2. s \in Seq(Items) /\ Len(s) <= 1 /\ Len(s) <= Len(batches[a][n].items) /\ Of(s, SourcesOf(a)[n])
        <5>1. CASE s = << >>
          BY <4>1, <5>1 DEF Of, BatchType
        <5>2. CASE s # << >>
          <6>1. PICK i \in Items, k \in DOMAIN batches[a][n].items : s = <<i>> /\ batches[a][n].items[k] = i
            BY <5>2 DEF Selections, Candidates
          <6>2. batches[a][n].items \in Seq(Items) /\ KindOf[i] = SourcesOf(a)[n]
            BY <4>1, <6>1 DEF BatchType, Shape, Of
          <6> QED
            BY <6>1, <6>2 DEF Of
        <5> QED
          BY <5>1, <5>2
      <4>3. b \in BatchType /\ Shape(b, SourcesOf(a)[n])
        BY <4>1, <4>2 DEF BatchType, Shape
      <4>4. batches'[a] = [batches[a] EXCEPT ![n] = b]
        BY <3>4 DEF Functional
      <4> HIDE DEF b
      <4> QED
        BY <3>3, <4>1, <4>3, <4>4
    <3>5. ASSUME NEW n \in ToSelect(a), NEW r \in SUBSET Items,
                 batches' = [batches EXCEPT ![a][n].ready = r]
          PROVE  batches'[a] \in Seq(BatchType) /\ Sourced(a)'
      <4> DEFINE b == [batches[a][n] EXCEPT !.ready = r]
      <4>1. n \in DOMAIN batches[a] /\ batches[a][n] \in BatchType /\ Shape(batches[a][n], SourcesOf(a)[n])
        BY <1>0 DEF ToSelect, Memory, Sourced
      <4>3. b \in BatchType /\ Shape(b, SourcesOf(a)[n])
        BY <4>1 DEF BatchType, Shape
      <4>4. batches'[a] = [batches[a] EXCEPT ![n] = b]
        BY <3>5 DEF Functional
      <4> HIDE DEF b
      <4> QED
        BY <3>3, <4>1, <4>3, <4>4
    <3> QED
      BY <2>4, <3>2, <3>4, <3>5 DEF BeforeEnrichment, EnrichGithub
  <2> QED
    BY <2>1, <2>2, <2>3, <2>4
<1>5. Sound(a)'
  BY <1>0, <1>1, <1>4, PreparedSound
<1> QED
  BY <1>2, <1>3, <1>5, OthersSound

-----------------------------------------------------------------------------
(* Persisting                                                              *)

Sum(r) == r.duplicates + r.skipped + r.errors

LEMMA Counted ==
    ASSUME NEW a \in Agents, Functional, result[a] \in Result,
           NEW field \in {"duplicates", "skipped", "errors"}, Count(a, field)
    PROVE  /\ result'[a] \in Result /\ result'[a].received = result[a].received
           /\ result'[a].created = result[a].created /\ Sum(result'[a]) = Sum(result[a]) + 1
<1>1. result'[a] = [result[a] EXCEPT ![field] = @ + 1]
  BY DEF Count, Functional
<1> QED
  BY <1>1 DEF Result, Sum

\* The actions of a thread change the agent's entry of a variable only.
OwnEntries(a) ==
    /\ UNCHANGED <<pc, command, batches, at, runs, told, reported>>
    /\ stage' = [stage EXCEPT ![a] = stage'[a]] /\ todo' = [todo EXCEPT ![a] = todo'[a]]
    /\ pending' = [pending EXCEPT ![a] = pending'[a]] /\ lost' = [lost EXCEPT ![a] = lost'[a]]
    /\ result' = [result EXCEPT ![a] = result'[a]]
    /\ \A b \in Agents \ {a} : MadeBy(b)' = MadeBy(b)

LEMMA OwnOnly ==
    ASSUME Accounted, NEW a \in Agents, OwnEntries(a), Sound(a)'
    PROVE  Accounted'
<1>1. Functional'
  BY DEF Accounted, Functional, OwnEntries
<1>2. \A b \in Agents \ {a} : Untouched(b)
  BY DEF Accounted, Functional, OwnEntries, Untouched
<1> QED
  BY <1>1, <1>2, OthersSound

LEMMA BatchBegins ==
    ASSUME Accounted, NEW a \in Agents, Begin(a)
    PROVE  Accounted'
<1> USE DEF Accounted
<1> DEFINE b == Current(a)
           github == b.kind = "github"
           left == IF github THEN Len(b.items) - Len(b.selected) ELSE 0
<1>0. /\ Sound(a) /\ Memory(a) /\ Sourced(a) /\ Placed(a) /\ InThread(a) /\ at[a] \in DOMAIN batches[a]
      /\ b = batches[a][at[a]] /\ b \in BatchType /\ Shape(b, SourcesOf(a)[at[a]])
      /\ result[a] = NoResult /\ pending[a] = {}
  BY DEF Begin, Sound, Memory, Sourced, Placed, InThread, Current
<1>1. /\ OwnEntries(a) /\ UNCHANGED <<made, pending, lost>>
      /\ stage'[a] = (IF github THEN "candidates" ELSE "items")
      /\ todo'[a] = b.items
      /\ result'[a] = [received |-> Len(b.items), created |-> {}, duplicates |-> 0, skipped |-> left, errors |-> 0]
  BY DEF Begin, OwnEntries, To, Functional, NoResult, plan, shared, report, MadeBy
<1>2. LostOf(a, b.kind)' = {} /\ LostOf(a, b.kind) = {} /\ Created(a)' = Created(a) /\ MadeBy(a)' = MadeBy(a)
      /\ Current(a)' = b
  BY <1>0, <1>1 DEF Sound, Clean, LostOf, Begin, OwnEntries, Created, DoneRuns, MadeBy, Current
<1>3. /\ b.items \in Seq(Items) /\ Len(b.selected) \in Nat /\ Len(b.selected) <= Len(b.items)
      /\ Distinct(b.items) /\ Of(b.items, b.kind) /\ left \in Nat
  BY <1>0 DEF BatchType, Shape
<1>4. result'[a] \in Result
  BY <1>1, <1>3 DEF Result
<1>5. AtWork(a)'
  BY <1>0, <1>1, <1>2, <1>3 DEF AtWork, LostOf, Uncounted, Of, Memory
<1>6. Balanced(a, result[a], Current(a).kind, Left(a))'
  <2>1. Left(a)' = IF github THEN Len(b.selected) ELSE Len(b.items)
    BY <1>1, <1>2 DEF Left
  <2>2. Len(b.items) + 0 = 0 + 0 + left + 0 + (IF github THEN Len(b.selected) ELSE Len(b.items))
    BY <1>3
  <2>3. \A r : /\ r.received = Len(b.items) /\ r.created = {} /\ r.duplicates = 0 /\ r.skipped = left /\ r.errors = 0
              => Balanced(a, r, b.kind, IF github THEN Len(b.selected) ELSE Len(b.items))
    BY <1>2, <2>2, FS_EmptySet DEF Balanced
  <2>4. Balanced(a, result'[a], b.kind, IF github THEN Len(b.selected) ELSE Len(b.items))
    BY <1>1, <2>3
  <2> QED
    BY <1>1, <1>2, <2>1, <2>4 DEF Balanced, LostOf
<1>7. MadeBy(a)' \cup pending'[a] = (Created(a) \cup result'[a].created) \ lost'[a]
  BY <1>0, <1>1, <1>2 DEF Sound, Books, InThread, NoResult
<1>8. Sound(a)'
  BY <1>0, <1>1, <1>3, <1>4, <1>5, <1>6, <1>7, WithinSound DEF Memory, Stages, OwnEntries, Begin
<1> QED
  BY <1>1, <1>8, OwnOnly

\* What is known of an agent within a batch.
Within(a) ==
    /\ Sound(a) /\ Memory(a) /\ Sourced(a) /\ Placed(a) /\ AtWork(a) /\ InThread(a)
    /\ at[a] \in DOMAIN batches[a] /\ Current(a) = batches[a][at[a]] /\ Current(a) \in BatchType
    /\ Shape(Current(a), SourcesOf(a)[at[a]])
    /\ Balanced(a, result[a], Current(a).kind, Left(a))
    /\ MadeBy(a) \cup pending[a] = (Created(a) \cup result[a].created) \ lost[a]
    /\ \A i \in Created(a) : KindOf[i] # Current(a).kind

LEMMA WithinFacts ==
    ASSUME Accounted, NEW a \in Agents, InThread(a), stage[a] # "closed"
    PROVE  Within(a)
<1>1. /\ Sound(a) /\ Memory(a) /\ Sourced(a) /\ Placed(a) /\ AtWork(a) /\ Accounts(a) /\ Books(a)
  BY DEF Accounted, Sound
<1>2. /\ at[a] \in DOMAIN batches[a] /\ Current(a) = batches[a][at[a]] /\ Current(a) \in BatchType
      /\ Shape(Current(a), SourcesOf(a)[at[a]])
  BY <1>1 DEF Memory, Sourced, InThread, Current
<1>3. ASSUME NEW i \in Created(a) PROVE KindOf[i] # Current(a).kind
  <2>1. PICK n \in DOMAIN runs[a] : i \in runs[a][n].result.created
    BY DEF Created, DoneRuns
  <2>2. KindOf[i] = batches[a][n].kind /\ n \in DOMAIN batches[a] /\ n # at[a]
    BY <1>1, <2>1 DEF Accounts, Memory, Placed
  <2> QED
    BY <1>1, <1>2, <2>2, KindsDiffer
<1> QED
  BY <1>1, <1>2, <1>3 DEF Within, Accounts, Books, InThread

LEMMA CandidateStep ==
    ASSUME Accounted, NEW a \in Agents, SaveCandidate(a)
    PROVE  Accounted'
<1> USE DEF Accounted
<1>0. Within(a) /\ stage[a] = "candidates"
  BY WithinFacts DEF SaveCandidate
<1>1. /\ OwnEntries(a) /\ UNCHANGED <<made, pending, lost, result>>
      /\ \/ stage'[a] = "items" /\ todo'[a] = Current(a).selected
         \/ todo[a] # << >> /\ stage'[a] = "candidates" /\ todo'[a] = Tail(todo[a])
  BY <1>0 DEF SaveCandidate, OwnEntries, To, Functional, plan, shared, report, MadeBy
<1>2. /\ LostOf(a, Current(a).kind) = {} /\ Created(a)' = Created(a) /\ MadeBy(a)' = MadeBy(a)
      /\ Current(a)' = Current(a)
  <2>1. LostOf(a, Current(a).kind) = {}
    BY <1>0 DEF Within, Sound, Clean
  <2> QED
    BY <1>1, <2>1 DEF OwnEntries, Created, DoneRuns, MadeBy, Current
<1>3. Current(a).selected \in Seq(Items) /\ Distinct(Current(a).selected) /\ Of(Current(a).selected, Current(a).kind)
  BY <1>0 DEF Within, BatchType, Shape, Distinct
<1>4. todo'[a] \in Seq(Items) /\ Distinct(todo'[a]) /\ Of(todo'[a], Current(a).kind)
  <2>1. todo[a] \in Seq(Items) /\ Distinct(todo[a]) /\ Of(todo[a], Current(a).kind)
    BY <1>0 DEF Within, Memory, AtWork
  <2>2. todo[a] # << >> => Tail(todo[a]) \in Seq(Items) /\ Distinct(Tail(todo[a])) /\ Of(Tail(todo[a]), Current(a).kind)
    BY <2>1, Tails
  <2> QED
    BY <1>1, <1>3, <2>2
<1>5. Left(a)' = Left(a)
  BY <1>0, <1>1, <1>2 DEF Left
<1>6. AtWork(a)'
  BY <1>0, <1>1, <1>2, <1>4 DEF Within, AtWork, LostOf, Uncounted, Of, Memory
<1>7. Balanced(a, result[a], Current(a).kind, Left(a))'
  BY <1>0, <1>1, <1>2, <1>5 DEF Within, Balanced, LostOf
<1>8. Sound(a)'
  BY <1>0, <1>1, <1>2, <1>4, <1>6, <1>7, WithinSound DEF Within, Memory, Stages, OwnEntries
<1> QED
  BY <1>1, <1>8, OwnOnly

\* The first item is one of the batch that is not counted yet.
LEMMA FirstItem ==
    ASSUME NEW a \in Agents, Within(a), stage[a] \in {"items", "save", "check"}, todo[a] # << >>
    PROVE  /\ Item(a) \in Items /\ KindOf[Item(a)] = Current(a).kind
           /\ Item(a) \notin lost[a] \cup result[a].created \cup MadeBy(a)
           /\ Tail(todo[a]) \in Seq(Items) /\ Len(Tail(todo[a])) = Len(todo[a]) - 1
           /\ Distinct(Tail(todo[a])) /\ Of(Tail(todo[a]), Current(a).kind)
           /\ \A k \in DOMAIN Tail(todo[a]) : Tail(todo[a])[k] \notin lost[a] \cup result[a].created \cup {Item(a)}
           /\ \A k \in DOMAIN todo[a] : k # 1 => todo[a][k] \notin lost[a] \cup result[a].created \cup {Item(a)}
<1>1. todo[a] \in Seq(Items) /\ Distinct(todo[a]) /\ Of(todo[a], Current(a).kind)
  BY DEF Within, Memory, AtWork
<1>2. \A k \in DOMAIN todo[a] : todo[a][k] \notin lost[a] \cup result[a].created
  BY DEF Within, AtWork, Uncounted
<1>3. /\ Tail(todo[a]) \in Seq(Items) /\ Len(Tail(todo[a])) = Len(todo[a]) - 1
      /\ Head(todo[a]) \in Items /\ KindOf[Head(todo[a])] = Current(a).kind
      /\ Distinct(Tail(todo[a])) /\ Of(Tail(todo[a]), Current(a).kind)
      /\ 1 \in DOMAIN todo[a] /\ Head(todo[a]) = todo[a][1]
      /\ \A k \in DOMAIN Tail(todo[a]) : \E j \in DOMAIN todo[a] : j # 1 /\ Tail(todo[a])[k] = todo[a][j]
      /\ \A k \in DOMAIN todo[a] : k # 1 => todo[a][k] # Head(todo[a])
  BY <1>1, Tails
<1>4. Item(a) \notin MadeBy(a)
  BY <1>2, <1>3 DEF Within, Item
<1> QED
  BY <1>2, <1>3, <1>4 DEF Item

LEMMA Arithmetic ==
    ASSUME NEW r \in Int, NEW g \in Int, NEW n \in Int, NEW s \in Int, NEW l \in Int,
           NEW m \in Int, NEW c \in Int, NEW o \in Int, r + g = n + s + l
    PROVE  r + (g + o) = (n + m) + (s + c) + (l + o - m - c)
OBVIOUS

\* The account stays balanced when both sides change by the same.
LEMMA StaysBalanced ==
    ASSUME NEW a \in Agents, Within(a), result'[a] \in Result, result'[a].received = result[a].received,
           Current(a)' = Current(a), NEW made1 \in {0, 1}, NEW counted1 \in {0, 1}, NEW lost1 \in {0, 1},
           Cardinality(result'[a].created) = Cardinality(result[a].created) + made1,
           Sum(result'[a]) = Sum(result[a]) + counted1,
           Cardinality({i \in lost'[a] : KindOf[i] = Current(a).kind})
             = Cardinality({i \in lost[a] : KindOf[i] = Current(a).kind}) + lost1,
           Left(a) \in Nat, Left(a)' = Left(a) + lost1 - made1 - counted1
    PROVE  Balanced(a, result[a], Current(a).kind, Left(a))'
<1> DEFINE kind == Current(a).kind
           gone == Cardinality({i \in lost[a] : KindOf[i] = kind})
           new == Cardinality(result[a].created)
           r == result[a].received
<1>1. gone \in Nat /\ new \in Nat
  BY FiniteCounts DEF Within, Memory, Result
<1>2. result[a].received + gone = new + result[a].duplicates + result[a].skipped + result[a].errors + Left(a)
  BY DEF Within, Balanced, LostOf
<1>3. /\ result[a].received \in Nat /\ result[a].duplicates \in Nat /\ result[a].skipped \in Nat
      /\ result[a].errors \in Nat /\ result'[a].duplicates \in Nat /\ result'[a].skipped \in Nat
      /\ result'[a].errors \in Nat
  BY DEF Within, Memory, Result
<1>4. r + (gone + lost1)
        = (new + made1) + result'[a].duplicates + result'[a].skipped + result'[a].errors + Left(a)'
  <2>1. r + gone = new + Sum(result[a]) + Left(a)
    BY <1>1, <1>2, <1>3 DEF Sum
  <2>2. Sum(result[a]) \in Int /\ Left(a) \in Int /\ gone \in Int /\ new \in Int /\ r \in Int
    BY <1>1, <1>3 DEF Sum
  <2>3. made1 \in Int /\ counted1 \in Int /\ lost1 \in Int
    OBVIOUS
  <2>4. r + (gone + lost1) = (new + made1) + (Sum(result[a]) + counted1) + (Left(a) + lost1 - made1 - counted1)
    <3> HIDE DEF gone, new, r
    <3> QED
      BY <2>1, <2>2, <2>3, Arithmetic
  <2>5. r + (gone + lost1) = (new + made1) + Sum(result'[a]) + Left(a)'
    BY <2>4
  <2>6. new + made1 \in Int /\ Left(a)' \in Int
    BY <2>2, <2>3
  <2> HIDE DEF gone, new, r
  <2> QED
    BY <1>3, <2>5, <2>6 DEF Sum
<1> QED
  BY <1>4 DEF Balanced, LostOf

\* An item that comes to nothing is counted and left behind.
LEMMA PassedSound ==
    ASSUME NEW a \in Agents, Functional, Within(a), stage[a] = "items", todo[a] # << >>, OwnEntries(a),
           UNCHANGED <<made, pending, lost>>, NextItem(a),
           NEW field \in {"skipped", "errors"}, Count(a, field)
    PROVE  Sound(a)'
<1>1. /\ stage'[a] = "items" /\ todo'[a] = Tail(todo[a]) /\ Created(a)' = Created(a) /\ MadeBy(a)' = MadeBy(a)
      /\ Current(a)' = Current(a)
  BY DEF NextItem, To, Functional, OwnEntries, Created, DoneRuns, MadeBy, Current
<1>2. /\ result'[a] \in Result /\ result'[a].received = result[a].received
      /\ result'[a].created = result[a].created /\ Sum(result'[a]) = Sum(result[a]) + 1 /\ result[a] \in Result
  BY Counted DEF Within, Memory
<1>3. AtWork(a)'
  BY <1>1, <1>2, FirstItem DEF Within, AtWork, Uncounted
<1>4. Balanced(a, result[a], Current(a).kind, Left(a))'
  <2>1. Left(a)' = Left(a) + 0 - 0 - 1 /\ Left(a) \in Nat
    BY <1>1, FirstItem DEF Left, Within, Memory
  <2>2. Cardinality(result[a].created) + 0 = Cardinality(result[a].created)
    BY <1>2, FiniteCounts DEF Result
  <2>3. Cardinality({i \in lost[a] : KindOf[i] = Current(a).kind}) \in Nat
    BY FiniteCounts DEF Within, Memory
  <2> QED
    BY <1>1, <1>2, <2>1, <2>2, <2>3, StaysBalanced
<1> QED
  BY <1>1, <1>2, <1>3, <1>4, FirstItem, WithinSound DEF Within, Memory, Stages, OwnEntries

LEMMA PassStep ==
    ASSUME Accounted, NEW a \in Agents, NotReady(a) \/ SkipItem(a) \/ GenerationFails(a)
    PROVE  Accounted'
<1> USE DEF Accounted
<1>1. Within(a) /\ stage[a] = "items" /\ todo[a] # << >> /\ UNCHANGED <<made, pending, lost>> /\ NextItem(a)
  BY WithinFacts DEF NotReady, SkipItem, GenerationFails, HasItem, shared
<1>2. \E field \in {"skipped", "errors"} : Count(a, field)
  BY DEF NotReady, SkipItem, GenerationFails
<1>3. OwnEntries(a)
  BY <1>2 DEF NotReady, SkipItem, GenerationFails, OwnEntries, NextItem, To, Count, Functional, MadeBy, shared, plan, report
<1> QED
  BY <1>1, <1>2, <1>3, PassedSound, OwnOnly

LEMMA ForwardStep ==
    ASSUME Accounted, NEW a \in Agents, Generate(a) \/ SaveItem(a)
    PROVE  Accounted'
<1> USE DEF Accounted
<1>1. /\ Within(a) /\ stage[a] \in {"items", "save"} /\ todo[a] # << >>
      /\ UNCHANGED <<made, pending, lost, result, todo>>
  <2>1. InThread(a) /\ stage[a] \in {"items", "save"} /\ UNCHANGED <<made, pending, lost, result, todo>>
    BY DEF Generate, SaveItem, HasItem, shared
  <2>2. Within(a)
    BY <2>1, WithinFacts
  <2> QED
    BY <2>1, <2>2 DEF Generate, SaveItem, HasItem, Within, AtWork
<1>2. OwnEntries(a) /\ stage'[a] \in {"save", "check"}
  BY DEF Generate, SaveItem, OwnEntries, To, Functional, MadeBy, shared, plan, report
<1>3. /\ Created(a)' = Created(a) /\ MadeBy(a)' = MadeBy(a) /\ Current(a)' = Current(a) /\ Left(a)' = Left(a)
      /\ Uncounted(a)' = Uncounted(a)
  BY <1>1, <1>2 DEF OwnEntries, Created, DoneRuns, MadeBy, Current, Left, Uncounted
<1>4. AtWork(a)'
  BY <1>1, <1>2, <1>3 DEF Within, AtWork
<1>5. Balanced(a, result[a], Current(a).kind, Left(a))'
  BY <1>1, <1>3 DEF Within, Balanced, LostOf
<1>6. Sound(a)'
  BY <1>1, <1>2, <1>3, <1>4, <1>5, WithinSound DEF Within, Memory, Stages, OwnEntries
<1> QED
  BY <1>2, <1>6, OwnOnly

\* An item whose row is saved turns out to be known, or gets its draft.
LEMMA CheckStep ==
    ASSUME Accounted, NEW a \in Agents, Duplicate(a) \/ CreateDraft(a)
    PROVE  Accounted'
<1> USE DEF Accounted
<1> DEFINE kind == Current(a).kind
<1>0. /\ InThread(a) /\ stage[a] = "check" /\ AfterItem(a)
      /\ \/ Count(a, "duplicates") /\ pending' = pending
         \/ /\ pending' = [pending EXCEPT ![a] = @ \cup {Item(a)}]
            /\ result' = [result EXCEPT ![a].created = @ \cup {Item(a)}]
      /\ UNCHANGED <<made, lost>>
  BY DEF Duplicate, CreateDraft, shared
<1>1. Within(a) /\ todo[a] # << >>
  <2>1. Within(a)
    BY <1>0, WithinFacts
  <2> QED
    BY <1>0, <2>1 DEF Within, AtWork
<1>2. OwnEntries(a)
  BY DEF Duplicate, CreateDraft, AfterItem, NextItem, To, Count, OwnEntries, Functional, MadeBy, shared, plan, report
<1>3. /\ Created(a)' = Created(a) /\ MadeBy(a)' = MadeBy(a) /\ Current(a)' = Current(a) /\ lost' = lost
      /\ \/ kind = "github" /\ stage'[a] = "items" /\ todo'[a] = Tail(todo[a])
         \/ kind # "github" /\ stage'[a] = "commit" /\ todo'[a] = todo[a]
  BY <1>0, <1>2 DEF OwnEntries, Created, DoneRuns, MadeBy, Current, AfterItem, NextItem, To, Functional
<1>4. result[a] \in Result /\ todo[a] \in Seq(Items)
  BY <1>1 DEF Within, Memory
<1>5. /\ result'[a] \in Result /\ result'[a].received = result[a].received
      /\ \/ /\ pending' = pending /\ result'[a].created = result[a].created
            /\ Sum(result'[a]) = Sum(result[a]) + 1
         \/ /\ pending'[a] = pending[a] \cup {Item(a)} /\ result'[a].created = result[a].created \cup {Item(a)}
            /\ Sum(result'[a]) = Sum(result[a])
  <2>1. CASE Count(a, "duplicates") /\ pending' = pending
    BY <1>4, <2>1, Counted
  <2>2. CASE /\ pending' = [pending EXCEPT ![a] = @ \cup {Item(a)}]
             /\ result' = [result EXCEPT ![a].created = @ \cup {Item(a)}]
    <3>1. /\ pending'[a] = pending[a] \cup {Item(a)}
          /\ result'[a] = [result[a] EXCEPT !.created = @ \cup {Item(a)}]
      BY <2>2 DEF Functional
    <3>2. Item(a) \in Items
      BY <1>0, <1>1, FirstItem
    <3> QED
      BY <1>4, <3>1, <3>2 DEF Result, Sum
  <2> QED
    BY <1>0, <2>1, <2>2
<1>6. AtWork(a)'
  <2>1. stage'[a] = "items" => Uncounted(a)' = DOMAIN Tail(todo[a])
    BY <1>3 DEF Uncounted
  <2>2. stage'[a] = "commit" => Uncounted(a)' = {k \in DOMAIN todo[a] : k # 1}
    BY <1>3 DEF Uncounted
  <2>3. \A k \in Uncounted(a)' : todo'[a][k] \notin lost'[a] \cup result'[a].created
    BY <1>0, <1>1, <1>3, <1>5, <2>1, <2>2, FirstItem
  <2>4. Distinct(todo'[a]) /\ Of(todo'[a], kind)
    BY <1>0, <1>1, <1>3, FirstItem DEF Within, AtWork
  <2>5. \A i \in result'[a].created : KindOf[i] = kind
    BY <1>0, <1>1, <1>5, FirstItem DEF Within, AtWork
  <2>6. stage'[a] = "commit" => /\ pending'[a] \subseteq {Item(a)} /\ Item(a)' = Item(a)
                               /\ Item(a) \notin MadeBy(a) \cup lost[a]
    BY <1>0, <1>1, <1>3, <1>5, FirstItem DEF Within, AtWork, Item
  <2> QED
    BY <1>1, <1>3, <2>3, <2>4, <2>5, <2>6 DEF AtWork
<1>7. Balanced(a, result[a], Current(a).kind, Left(a))'
  <2>1. Left(a) \in Nat /\ Left(a)' = Left(a) - 1
    <3>1. Left(a) = Len(todo[a]) /\ Len(todo[a]) \in Nat \ {0} /\ Len(Tail(todo[a])) = Len(todo[a]) - 1
      BY <1>0, <1>1, <1>4, FirstItem DEF Left
    <3>2. Left(a)' = Len(todo[a]) - 1
      BY <1>3, <3>1 DEF Left
    <3> QED
      BY <3>1, <3>2
  <2>2. Left(a)' = Left(a) + 0 - 0 - 1 /\ Left(a)' = Left(a) + 0 - 1 - 0
    BY <2>1
  <2>3. /\ Cardinality({i \in lost[a] : KindOf[i] = Current(a).kind}) \in Nat
        /\ Cardinality(result[a].created) \in Nat
    BY <1>1, <1>4, FiniteCounts DEF Within, Memory, Result
  <2>4. Cardinality({i \in lost'[a] : KindOf[i] = Current(a).kind})
          = Cardinality({i \in lost[a] : KindOf[i] = Current(a).kind}) + 0
    BY <1>3, <2>3
  <2>5. CASE result'[a].created = result[a].created /\ Sum(result'[a]) = Sum(result[a]) + 1
    <3>1. Cardinality(result'[a].created) = Cardinality(result[a].created) + 0
      BY <2>3, <2>5
    <3> QED
      BY <1>1, <1>3, <1>5, <2>1, <2>2, <2>4, <2>5, <3>1, StaysBalanced
  <2>6. CASE result'[a].created = result[a].created \cup {Item(a)} /\ Sum(result'[a]) = Sum(result[a])
    <3>1. Cardinality(result'[a].created) = Cardinality(result[a].created) + 1
      BY <1>0, <1>1, <1>4, <2>6, FirstItem, FiniteCounts DEF Result
    <3>2. Sum(result'[a]) = Sum(result[a]) + 0
      BY <1>4, <2>6 DEF Sum, Result
    <3> QED
      BY <1>1, <1>3, <1>5, <2>1, <2>2, <2>4, <3>1, <3>2, StaysBalanced
  <2> QED
    BY <1>5, <2>5, <2>6
<1>8. MadeBy(a)' \cup pending'[a] = (Created(a) \cup result'[a].created) \ lost'[a]
  BY <1>0, <1>1, <1>3, <1>5, FirstItem DEF Within
<1>9. Sound(a)'
  <2>1. pending'[a] \subseteq Items /\ todo'[a] \in Seq(Items) /\ lost'[a] \subseteq Items /\ stage'[a] \in Stages
    BY <1>0, <1>1, <1>3, <1>4, <1>5, FirstItem DEF Within, Memory, Stages
  <2> QED
    BY <1>1, <1>2, <1>3, <1>5, <1>6, <1>7, <1>8, <2>1, WithinSound DEF Within, OwnEntries
<1> QED
  BY <1>2, <1>9, OwnOnly

\* A feed commits its item, or loses it.
LEMMA CommitStep ==
    ASSUME Accounted, NEW a \in Agents, CommitItem(a) \/ CommitItemFails(a)
    PROVE  Accounted'
<1> USE DEF Accounted
<1>0. InThread(a) /\ stage[a] = "commit" /\ NextItem(a)
  BY DEF CommitItem, CommitItemFails
<1>1. /\ Within(a) /\ todo[a] # << >> /\ todo[a] \in Seq(Items) /\ result[a] \in Result
      /\ Distinct(todo[a]) /\ Of(todo[a], Current(a).kind)
      /\ pending[a] \subseteq {Item(a)} /\ Item(a) \notin MadeBy(a) \cup lost[a] /\ pending[a] \subseteq Items
  <2>1. Within(a)
    BY <1>0, WithinFacts
  <2> QED
    BY <1>0, <2>1 DEF Within, AtWork, Memory
<1>2. OwnEntries(a)
  <2>1. CASE CommitItem(a)
    <3>1. \A b \in Agents \ {a} : MadeBy(b)' = MadeBy(b)
      BY <1>1, <2>1, MadeByCommit DEF CommitItem
    <3> QED
      BY <2>1, <3>1 DEF CommitItem, Commit, NextItem, To, OwnEntries, Functional, plan, report
  <2>2. CASE CommitItemFails(a)
    BY <2>2 DEF CommitItemFails, Rollback, NextItem, To, Count, OwnEntries, Functional, MadeBy, shared, plan, report
  <2> QED
    BY <2>1, <2>2
<1>3. /\ Created(a)' = Created(a) /\ Current(a)' = Current(a) /\ pending'[a] = {}
      /\ stage'[a] = "items" /\ todo'[a] = Tail(todo[a])
  BY <1>0, <1>2 DEF CommitItem, CommitItemFails, Commit, Rollback, NextItem, To, Functional, OwnEntries,
     Created, DoneRuns, Current
<1>4. /\ result'[a] \in Result /\ result'[a].received = result[a].received /\ result'[a].created = result[a].created
      /\ \/ /\ lost' = lost /\ MadeBy(a)' = MadeBy(a) \cup pending[a] /\ result' = result
         \/ /\ lost'[a] = lost[a] \cup {Item(a)} /\ MadeBy(a)' = MadeBy(a)
            /\ Sum(result'[a]) = Sum(result[a]) + 1
  <2>1. CASE CommitItem(a)
    BY <1>1, <2>1, MadeByCommit DEF CommitItem
  <2>2. CASE CommitItemFails(a)
    <3>1. Count(a, "errors") /\ lost'[a] = lost[a] \cup {Item(a)} /\ MadeBy(a)' = MadeBy(a)
      BY <2>2 DEF CommitItemFails, Functional, MadeBy, shared
    <3> QED
      BY <1>1, <3>1, Counted
  <2> QED
    BY <2>1, <2>2
<1>5. /\ Item(a) \in Items /\ KindOf[Item(a)] = Current(a).kind
      /\ Tail(todo[a]) \in Seq(Items) /\ Len(Tail(todo[a])) = Len(todo[a]) - 1
      /\ Distinct(Tail(todo[a])) /\ Of(Tail(todo[a]), Current(a).kind)
      /\ \A k \in DOMAIN Tail(todo[a]) : \E j \in DOMAIN todo[a] : j # 1 /\ Tail(todo[a])[k] = todo[a][j]
      /\ \A k \in DOMAIN todo[a] : k # 1 => todo[a][k] # Item(a)
  BY <1>1, Tails DEF Item
<1>6. AtWork(a)'
  <2>1. Uncounted(a)' = DOMAIN Tail(todo[a]) /\ Uncounted(a) = {k \in DOMAIN todo[a] : k # 1}
    BY <1>0, <1>3 DEF Uncounted
  <2>2. \A k \in Uncounted(a) : todo[a][k] \notin lost[a] \cup result[a].created
    BY <1>0, <1>1 DEF Within, AtWork
  <2>3. \A k \in Uncounted(a)' : todo'[a][k] \notin lost'[a] \cup result'[a].created
    BY <1>3, <1>4, <1>5, <2>1, <2>2
  <2> QED
    BY <1>0, <1>1, <1>3, <1>4, <1>5, <2>3 DEF Within, AtWork
<1>7. Balanced(a, result[a], Current(a).kind, Left(a))'
  <2>1. Left(a) \in Nat /\ Left(a)' = Left(a) + 0 - 0 - 0 /\ Left(a)' = Left(a) + 1 - 0 - 1
    BY <1>0, <1>1, <1>3, <1>5 DEF Left
  <2> DEFINE gone == {i \in lost[a] : KindOf[i] = Current(a).kind}
  <2>2. Cardinality(gone) \in Nat /\ gone \in SUBSET Items /\ Cardinality(result[a].created) \in Nat
    BY <1>1, FiniteCounts DEF Within, Memory, Result
  <2>3. Cardinality(result'[a].created) = Cardinality(result[a].created) + 0
    BY <1>4, <2>2
  <2>4. CASE lost' = lost /\ result' = result
    <3>1. Cardinality({i \in lost'[a] : KindOf[i] = Current(a).kind}) = Cardinality(gone) + 0
      BY <2>2, <2>4
    <3>2. Sum(result'[a]) = Sum(result[a]) + 0
      BY <1>1, <2>4 DEF Sum, Result
    <3> QED
      BY <1>1, <1>3, <1>4, <2>1, <2>3, <3>1, <3>2, StaysBalanced
  <2>5. CASE lost'[a] = lost[a] \cup {Item(a)} /\ Sum(result'[a]) = Sum(result[a]) + 1
    <3>1. {i \in lost'[a] : KindOf[i] = Current(a).kind} = gone \cup {Item(a)} /\ Item(a) \notin gone
      BY <1>1, <1>5, <2>5
    <3>2. Cardinality({i \in lost'[a] : KindOf[i] = Current(a).kind}) = Cardinality(gone) + 1
      BY <1>5, <2>2, <3>1, FiniteCounts
    <3> QED
      BY <1>1, <1>3, <1>4, <2>1, <2>3, <2>5, <3>2, StaysBalanced
  <2> QED
    BY <1>4, <2>4, <2>5
<1>8. MadeBy(a)' \cup pending'[a] = (Created(a) \cup result'[a].created) \ lost'[a]
  BY <1>1, <1>3, <1>4 DEF Within
<1>9. Sound(a)'
  <2>1. /\ lost[a] \subseteq lost'[a] /\ lost'[a] \subseteq Items
        /\ \A i \in lost'[a] \ lost[a] : KindOf[i] = Current(a).kind
    BY <1>1, <1>4, <1>5 DEF Within, Memory
  <2> QED
    BY <1>1, <1>2, <1>3, <1>4, <1>5, <1>6, <1>7, <1>8, <2>1, WithinSound DEF Within, OwnEntries, Stages
<1> QED
  BY <1>2, <1>9, OwnOnly

\* A batch ends, with its commit or because it could not be fetched.
LEMMA BatchEnds ==
    ASSUME Accounted, NEW a \in Agents, EndBatch(a) \/ PersistError(a)
    PROVE  Accounted'
<1> USE DEF Accounted
<1>0. /\ InThread(a) /\ Sound(a) /\ Memory(a) /\ Placed(a) /\ UNCHANGED <<lost, told, reported>>
      /\ \E s \in {"success", "partial", "failed"} : NextBatch(a, s)
  BY DEF EndBatch, PersistError, Sound, report
<1>1. /\ pending'[a] = {} /\ pending' = [pending EXCEPT ![a] = {}] /\ MadeBy(a)' = MadeBy(a) \cup pending[a]
      /\ \A b \in Agents \ {a} : MadeBy(b)' = MadeBy(b)
  <2>1. CASE EndBatch(a)
    BY <1>0, <2>1, MadeByCommit DEF EndBatch, Commit, Memory, Functional
  <2>2. CASE PersistError(a)
    BY <1>0, <2>2 DEF PersistError, Placed, MadeBy, shared, Functional
  <2> QED
    BY <2>1, <2>2
<1>2. Functional'
  BY <1>0, <1>1 DEF NextBatch, Leave, Goto, To, plan, Functional
<1>3. \A b \in Agents \ {a} : Untouched(b)
  BY <1>0, <1>1 DEF NextBatch, Leave, Goto, To, plan, Functional, Untouched
<1>4. /\ Balanced(a, result[a], Current(a).kind, 0)
      /\ \A i \in result[a].created : KindOf[i] = Current(a).kind
  <2>1. CASE EndBatch(a)
    <3>1. Within(a) /\ stage[a] = "items" /\ todo[a] = << >>
      BY <2>1, WithinFacts DEF EndBatch
    <3>2. Left(a) = 0
      BY <3>1 DEF Left
    <3> QED
      BY <3>1, <3>2 DEF Within, AtWork
  <2>2. CASE PersistError(a)
    <3>1. result[a] = NoResult
      BY <1>0, <2>2 DEF PersistError, Sound, Placed
    <3>2. at[a] \in DOMAIN batches[a] /\ Current(a) = batches[a][at[a]]
      BY <1>0, <2>2 DEF PersistError, Sound, Memory, Current, InThread
    <3>3. LostOf(a, Current(a).kind) = {}
      BY <1>0, <2>2, <3>2 DEF PersistError, Sound, Clean
    <3> QED
      BY <3>1, <3>3, FS_EmptySet DEF Balanced, NoResult
  <2> QED
    BY <2>1, <2>2
<1>5. Sound(a)'
  <2>1. CASE pc[a] = "persist"
    BY <1>0, <1>1, <1>4, <2>1, NextSound
  <2>2. CASE pc[a] = "ghost"
    <3>1. Leave(a) /\ told'[a] # "completed" /\ lost'[a] \subseteq Items
      BY <1>0, <2>2 DEF NextBatch, Placed, Memory
    <3> QED
      BY <1>0, <1>1, <3>1, LeftSound
  <2> QED
    BY <1>0, <2>1, <2>2 DEF InThread
<1> QED
  BY <1>2, <1>3, <1>5, OthersSound

-----------------------------------------------------------------------------
(* The end of a run                                                        *)

LEMMA LeavingStep ==
    ASSUME Accounted, NEW a \in Agents, Leave(a), UNCHANGED <<made, lost>>, pending'[a] = {},
           pending' = [pending EXCEPT ![a] = {}],
           told' = [told EXCEPT ![a] = told'[a]], reported' = [reported EXCEPT ![a] = reported'[a]],
           told'[a] = "completed" => MadeBy(a)' = reported'[a] \ lost'[a]
    PROVE  Accounted'
<1> USE DEF Accounted
<1>1. Functional'
  BY DEF Leave, Goto, Functional
<1>2. \A b \in Agents \ {a} : Untouched(b)
  BY DEF Leave, Goto, Functional, Untouched, MadeBy
<1>3. Sound(a) /\ lost'[a] \subseteq Items
  BY DEF Sound, Memory
<1>4. Sound(a)'
  BY <1>3, LeftSound
<1> QED
  BY <1>1, <1>2, <1>4, OthersSound

LEMMA SummarizeStep ==
    ASSUME Accounted, NEW a \in Agents, Summarize(a)
    PROVE  Accounted'
<1> USE DEF Accounted
<1>0. /\ Sound(a) /\ Memory(a) /\ Placed(a) /\ Books(a) /\ pc[a] = "persist" /\ Leave(a)
      /\ UNCHANGED <<made, lost, pending>>
  BY DEF Summarize, Sound, shared
<1>1. stage[a] = "closed" /\ pending[a] = {} /\ result[a] = NoResult
  BY <1>0 DEF Summarize, Placed, Memory
<1>2. MadeBy(a) = Created(a) \ lost[a] /\ MadeBy(a)' = MadeBy(a)
  BY <1>0, <1>1 DEF Books, NoResult, MadeBy
<1>3. /\ told' = [told EXCEPT ![a] = told'[a]] /\ reported' = [reported EXCEPT ![a] = reported'[a]]
      /\ told'[a] = "completed" => reported'[a] = Created(a)
  BY DEF Summarize, Functional
<1>4. pending' = [pending EXCEPT ![a] = {}] /\ pending'[a] = {}
  BY <1>0, <1>1 DEF Functional
<1> QED
  BY <1>0, <1>2, <1>3, <1>4, LeavingStep

LEMMA BreakStep ==
    ASSUME Accounted, NEW a \in Agents, Break(a), pc[a] # "over"
    PROVE  Accounted'
<1> USE DEF Accounted
<1>1. told'[a] # "completed"
  BY DEF Break, Functional, Sound, Placed, Memory, Nodes
<1>2. /\ Leave(a) /\ UNCHANGED <<made, lost, reported>> /\ pending' = [pending EXCEPT ![a] = {}]
      /\ pending'[a] = {} /\ told' = [told EXCEPT ![a] = told'[a]] /\ reported' = [reported EXCEPT ![a] = reported'[a]]
  BY DEF Break, Rollback, Functional, shared
<1> QED
  BY <1>1, <1>2, LeavingStep

LEMMA CancelStep ==
    ASSUME Accounted, NEW a \in Agents, Cancel(a)
    PROVE  Accounted'
<1> USE DEF Accounted
<1>0. /\ Sound(a) /\ Memory(a) /\ Placed(a) /\ pc[a] \in {"plan", "fetch", "select", "enrich", "persist"}
      /\ told' = [told EXCEPT ![a] = "timeout"] /\ told'[a] = "timeout" /\ UNCHANGED <<made, lost, pending, reported>>
  BY DEF Cancel, Sound, shared, Functional
<1>1. CASE stage[a] = "closed"
  <2>1. Leave(a) /\ pending[a] = {}
    BY <1>0, <1>1 DEF Cancel, Placed
  <2>2. pending' = [pending EXCEPT ![a] = {}] /\ pending'[a] = {} /\ reported' = [reported EXCEPT ![a] = reported'[a]]
    BY <1>0, <2>1 DEF Functional
  <2> QED
    BY <1>0, <2>1, <2>2, LeavingStep
<1>2. CASE stage[a] # "closed"
  <2>1. /\ pc[a] = "persist" /\ pc' = [pc EXCEPT ![a] = "ghost"] /\ pc'[a] = "ghost"
        /\ UNCHANGED <<command, batches, at, runs, todo, result, stage>>
    BY <1>0, <1>2 DEF Cancel, Goto, Placed, Functional
  <2>2. /\ SourcesOf(a)' = SourcesOf(a) /\ Current(a)' = Current(a) /\ Item(a)' = Item(a)
        /\ Uncounted(a)' = Uncounted(a) /\ Left(a)' = Left(a) /\ Created(a)' = Created(a) /\ MadeBy(a)' = MadeBy(a)
        /\ \A k : LostOf(a, k)' = LostOf(a, k)
    BY <1>0, <2>1 DEF SourcesOf, Current, Item, Uncounted, Left, Created, DoneRuns, LostOf, MadeBy
  <2>3. Memory(a)' /\ Sourced(a)'
    BY <1>0, <2>1, <2>2 DEF Sound, Memory, Sourced, Nodes
  <2>4. Placed(a)' /\ AtWork(a)' /\ Clean(a)'
    BY <1>0, <1>2, <2>1, <2>2 DEF Sound, Placed, AtWork, Clean
  <2>5. Accounts(a)' /\ Books(a)'
    BY <1>0, <2>1, <2>2 DEF Sound, Accounts, Balanced, Books
  <2>6. Functional' /\ \A b \in Agents \ {a} : Untouched(b)
    BY <1>0, <2>1 DEF Functional, Untouched, MadeBy
  <2> QED
    BY <2>3, <2>4, <2>5, <2>6, OthersSound DEF Sound
<1> QED
  BY <1>1, <1>2

-----------------------------------------------------------------------------
(* What a collection reports, for any constants                            *)

LEMMA AccountedInit ==
    ASSUME Init PROVE Accounted
<1>1. Functional
  BY DEF Init, Functional
<1>2. ASSUME NEW a \in Agents PROVE Sound(a)
  <2>1. Memory(a)
    BY <1>2 DEF Init, Memory, Nodes, Stages, NoResult, Result
  <2>0. SourcesOf(a) = << >> /\ command[a].target = NoItem /\ batches[a] = << >> /\ pc[a] = "idle"
    BY <1>2 DEF Init, SourcesOf, NoCommand
  <2>2. Sourced(a)
    BY <2>0 DEF Sourced, Distinct
  <2>3. Placed(a) /\ AtWork(a) /\ Clean(a) /\ Accounts(a) /\ Books(a)
    BY <1>2 DEF Init, Placed, AtWork, Clean, Accounts, Books, MadeBy
  <2> QED
    BY <2>1, <2>2, <2>3 DEF Sound
<1> QED
  BY <1>1, <1>2 DEF Accounted

LEMMA AccountedStep ==
    ASSUME Accounted, [Next]_vars PROVE Accounted'
<1>1. ASSUME NEW a \in Agents, Persisting(a) PROVE Accounted'
  BY <1>1, BatchBegins, BatchEnds, CandidateStep, PassStep, ForwardStep, CheckStep, CommitStep DEF Persisting
<1>2. ASSUME NEW a \in Agents, PlanFails(a) \/ DeadlockVictim(a) \/ PersistFails(a) PROVE Accounted'
  <2>1. Break(a)
    BY <1>2 DEF PlanFails, DeadlockVictim, PersistFails
  <2>2. pc[a] # "over"
    BY <1>2 DEF PlanFails, DeadlockVictim, PersistFails, InThread, Accounted, Sound, Placed
  <2> QED
    BY <2>1, <2>2, BreakStep
<1>3. ASSUME NEW a \in Agents, Start(a) \/ Step(a) \/ Cancel(a) PROVE Accounted'
  BY <1>1, <1>2, <1>3, PrepareStep, SummarizeStep, CancelStep DEF Step
<1>4. CASE (\E d \in made : DropDraft(d) \/ Deliver(d)) \/ UNCHANGED vars
  <2>1. UNCHANGED <<made, plan, at, stage, todo, pending, lost, result, runs, told, reported>>
    BY <1>4 DEF DropDraft, Deliver, vars, shared, tx, report
  <2>2. \A b \in Agents : Untouched(b)
    BY <2>1 DEF Untouched, MadeBy, plan
  <2>3. Functional'
    BY <2>1 DEF Accounted, Functional, plan
  <2> QED
    BY <2>2, <2>3, UntouchedSound DEF Accounted
<1> QED
  BY <1>3, <1>4 DEF Next

LEMMA AlwaysAccounted == Spec => []Accounted
BY AccountedInit, AccountedStep, PTL DEF Spec

\* What a completed collection reports is what it has made, but for the items whose
\* commit failed (worker.collection_completion, content_workflow.process).
THEOREM ReportsComplete == Spec => []ReportIsComplete
<1>1. Accounted => ReportIsComplete
  BY DEF Accounted, Sound, Books, ReportIsComplete
<1> QED
  BY <1>1, AlwaysAccounted, PTL

\* Every item of a batch is created, a duplicate, skipped or an error, whatever failed on
\* the way; one whose commit failed is counted twice (content_workflow.process).
THEOREM ItemsAccounted == Spec => []EveryItemAccounted
<1>1. Accounted => EveryItemAccounted
  <2> SUFFICES ASSUME Accounted, NEW a \in Agents, NEW n \in DOMAIN runs[a]
               PROVE  LET r == runs[a][n].result IN
                      r.received + Cardinality({i \in lost[a] : KindOf[i] = batches[a][n].kind})
                          = Cardinality(r.created) + r.duplicates + r.skipped + r.errors
    BY DEF EveryItemAccounted
  <2>0. Accounts(a) /\ runs[a] \in Seq(Run)
    BY DEF Accounted, Sound, Memory
  <2>1. Balanced(a, runs[a][n].result, batches[a][n].kind, 0) /\ runs[a][n] \in Run
    BY <2>0 DEF Accounts
  <2>2. Cardinality(runs[a][n].result.created) \in Nat
    BY <2>1, FiniteCounts DEF Run, Result
  <2> QED
    BY <2>1, <2>2 DEF Balanced, LostOf, Run, Result
<1> QED
  BY <1>1, AlwaysAccounted, PTL
=============================================================================
