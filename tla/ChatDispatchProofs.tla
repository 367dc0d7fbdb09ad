------------------------- MODULE ChatDispatchProofs -------------------------
(***************************************************************************)
(* The safety properties of ChatDispatch, for any messages, drafts, texts, *)
(* tools and decisions.                                                    *)
(*                                                                         *)
(* What makes them hold is who may start what and when: nothing is done    *)
(* for a message before its dispatch begins, a step of the dispatch leaves *)
(* its job or its picture where the next one sees it, and the word of a    *)
(* decision is compared with the tools that were called.  Dispatched says  *)
(* this phase by phase; Effects is what the start of any job does to it,   *)
(* and Ended what the end of any job does.                                 *)
(***************************************************************************)
EXTENDS ChatDispatch, TLAPS

-----------------------------------------------------------------------------
(* Types                                                                   *)

Phases   == {"unsent", "accepted", "queued", "attachment", "command", "plan", "agent", "answer", "over"}
Answers  == {"started", "already_running", "queued_after_rewrite", "queued_after_images", "failed",
             "rejected", "done", "folded"}
Outcome  == [keep : BOOLEAN, status : {"none", "completed", "failed"}]
Fact     == [step : Steps \cup Doing, status : Answers]
Causes   == {"joined", "trusted", "interrupted", "restarted"}
Statuses == {"editable", "ready", "delivered", "closed"}

Waiting  == [run : Messages \cup {Own}, by : Messages] \cup {NoWait}

FlowType ==
    /\ text \in [Messages -> Text] /\ pc \in [Messages -> Phases] /\ out \in [Messages -> Outcome]
    /\ facts \in [Messages -> Seq(Fact)] /\ cause \in [Messages -> SUBSET Causes]
    /\ calls \in [Messages -> Nat] /\ thread \in [Messages -> {"none", "working", "late"}]

WorkType ==
    /\ run \in [Messages -> {"none", "running", "completed", "failed"}]
    /\ pictures \in [Messages -> [tool : Nat, dispatch : Nat]] /\ \A j \in jobs : IsJob(j)
    /\ wait \in [Drafts -> Waiting]
    /\ status \in [Drafts -> Statuses] /\ active \in Drafts \cup {None} /\ refs \subseteq Drafts

-----------------------------------------------------------------------------
(* What is true of a message on its way                                    *)

Way(m) == WayOf(text[m])
NoPictures == [tool |-> 0, dispatch |-> 0]
Untouched(m) ==
    pictures[m] = NoPictures /\ facts[m] = << >> /\ calls[m] = 0 /\ thread[m] = "none" /\ ~Outstanding(m)

\* Nothing is done for a message before its dispatch begins; a plan is worked
\* through in its own dispatch, and only what is left to the agent has a thread.
Stages(m) ==
    /\ pc[m] # "unsent" => text[m] \in Texts
    /\ pc[m] \in {"unsent", "accepted", "queued", "command"} => Untouched(m)
    /\ pc[m] = "command" => Way(m) = "command"
    /\ pc[m] = "plan" => Way(m) = "plan" /\ Len(facts[m]) < Len(Plan(m)) /\ thread[m] = "none"
    /\ pc[m] = "agent" => Way(m) = "agent" /\ thread[m] = "working"
    /\ pc[m] = "attachment" => Way(m) \in {"agent", "attachment"} /\ thread[m] = "none"
    /\ thread[m] # "none" => Way(m) = "agent" /\ pc[m] \in {"agent", "answer", "over"}
    /\ pc[m] \notin {"answer", "over"} => out[m] = NoOut

\* Pictures were made by tools, and the thread of the agent is known by its
\* checkpoint; or by the step of a plan that is behind, or by the last step of
\* the dispatch.
OnePicture(m) ==
    /\ pictures[m].dispatch <= 1 /\ (pictures[m].tool = 0 \/ pictures[m].dispatch = 0)
    /\ thread[m] # "none" => pictures[m].dispatch = 0 /\ (pictures[m].tool > 0 => "image" \in history)
    /\ pc[m] = "plan" => pictures[m].tool = 0
    /\ pc[m] = "plan" /\ pictures[m].dispatch = 1 => \E n \in 1..Len(facts[m]) : Plan(m)[n] = "image"

\* What is to be done for a command or a plan is in its outcome.
JobsKnown(m) ==
    /\ pc[m] = "plan" /\ Outstanding(m) => Handed(facts[m])
    /\ pc[m] \in {"answer", "over"} /\ Way(m) \in {"command", "plan"}
         /\ ~out[m].keep /\ out[m].status = "completed" /\ Outstanding(m)
       => Way(m) = "command" /\ Done(m, text[m].command, {"queued_after_rewrite", "already_running"})

\* A run that was handed on has somebody, or a cause.
Reported(m) == Holders(m) # {} \/ Awaited(m) \/ lost[m] # {}
Explained(m) ==
    /\ run[m] = "running" /\ pc[m] = "plan" /\ Handed(facts[m]) => Reported(m) \/ cause[m] # {}
    /\ run[m] = "running" /\ pc[m] \in {"answer", "over"} /\ out[m].keep => Reported(m) \/ cause[m] # {}
    /\ run[m] = "running" /\ pc[m] = "over" /\ ~out[m].keep => cause[m] # {}

Good(m) == Stages(m) /\ OnePicture(m) /\ JobsKnown(m) /\ Explained(m)
Dispatched == FlowType /\ WorkType /\ \A m \in Messages : Good(m)

-----------------------------------------------------------------------------
(* What starting a job does                                                *)

WorkKept ==
    /\ run' \in [Messages -> {"none", "running", "completed", "failed"}]
    /\ pictures' \in [Messages -> [tool : Nat, dispatch : Nat]] /\ \A j \in jobs' : IsJob(j)
    /\ wait' \in [Drafts -> Waiting]

\* What is asked for by other messages than m, and who else is reported to.
OthersKept(m) ==
    /\ \A x \in Messages \ {m} : Outstanding(x)' => Outstanding(x)
    /\ \A x \in Messages : Reported(x) => Reported(x)'

\* The start of a step for m: what is new to be done is for m, nobody loses the
\* report he waits for, and who is told of a start will be reported to.
Effects(m, kind, s, who) ==
    /\ WorkKept /\ OthersKept(m)
    /\ Outstanding(m)' => Outstanding(m) \/ Accepted(s)
    /\ pictures' = pictures \/ (kind = "image" /\ pictures' = [pictures EXCEPT ![m][who] = @ + 1])
    /\ \A x \in Messages : run'[x] = run[x] \/ (x = m /\ run'[x] = "completed")
    /\ Accepted(s) /\ s # "already_running" /\ run'[m] = "running" => Reported(m)'

LEMMA NewJob ==
    ASSUME NEW J, NEW r, NEW m, NEW kind, NEW d
    PROVE  LET j == New(J, r, m, kind, d) IN j.run = r /\ j.by = m /\ j.kind = kind /\ j.draft = d
BY DEF New

\* A job that is added takes nothing away.
LEMMA AddedJob ==
    ASSUME WorkType, NEW m \in Messages, NEW r \in Messages \cup {Own}, NEW kind \in Steps,
           NEW d \in Drafts \cup {None}, d \in Drafts \/ kind = "collect", Add(m, r, kind, d), UNCHANGED waits
    PROVE  /\ \A j \in jobs' : IsJob(j)
           /\ OthersKept(m)
           /\ r \in Messages => Reported(r)'
<1> DEFINE new == New(jobs, r, m, kind, d)
<1>1. new.run = r /\ new.by = m /\ new.kind = kind /\ new.draft = d
  BY NewJob
<1>2. jobs' = jobs \cup {new} /\ wait' = wait /\ lost' = lost
  BY DEF Add, waits
<1> HIDE DEF new
<1>3. \A j \in jobs' : IsJob(j)
  BY <1>1, <1>2 DEF IsJob, WorkType
<1>4. \A x \in Messages \ {m} : Outstanding(x)' => Outstanding(x)
  BY <1>1, <1>2 DEF Outstanding
<1>5. ASSUME NEW x \in Messages, Reported(x) PROVE Reported(x)'
  <2>1. \A e \in Drafts : Writers(jobs, e) \subseteq Writers(jobs', e)
    BY <1>2 DEF Writers
  <2> QED
    BY <1>2, <1>5, <2>1 DEF Reported, Holders, Awaited
<1>6. r \in Messages => Reported(r)'
  BY <1>1, <1>2 DEF Reported, Holders
<1> QED
  BY <1>3, <1>4, <1>5, <1>6 DEF OthersKept

LEMMA ReviewEffects ==
    ASSUME WorkType, NEW m \in Messages, NEW d \in Drafts, NEW s, NEW who, StartReview(m, d, s)
    PROVE  Effects(m, "review", s, who)
<1>0. UNCHANGED <<run, pictures>> /\ RunOf(m) \in Messages \cup {Own} /\ Accepted(s)
  BY DEF StartReview, RunOf, Accepted
<1>1. CASE s = "started"
  <2>1. Add(m, RunOf(m), "review", d) /\ UNCHANGED waits
    BY <1>1 DEF StartReview
  <2>0. PICK r \in Messages \cup {Own} : r = RunOf(m)
    BY <1>0
  <2>2. /\ \A j \in jobs' : IsJob(j)
        /\ OthersKept(m)
        /\ r \in Messages => Reported(r)'
    BY <2>0, <2>1, AddedJob DEF Steps
  <2>3. WorkKept
    BY <1>0, <2>1, <2>2 DEF WorkKept, WorkType, waits
  <2>4. run'[m] = "running" => Reported(m)'
    BY <1>0, <2>0, <2>2 DEF RunOf
  <2> QED
    BY <1>0, <1>1, <2>2, <2>3, <2>4 DEF Effects, Accepted
<1>2. CASE s # "started"
  <2> DEFINE next == Pending(m, d, s)
             lost2(x) == Losing(x, "displaced", wait[d].run = x /\ next.run # x)
                           \cup Losing(x, "stranded", next.run = x /\ s # "already_running" /\ Writers(jobs, d) = {})
  <2>1. jobs' = jobs /\ wait' = [wait EXCEPT ![d] = next] /\ lost' = [x \in Messages |-> lost2(x)]
    BY <1>2 DEF StartReview
  <2>2. next \in Waiting /\ (next = wait[d] \/ next.by = m)
    BY <1>0, DispatchAssumption DEF Pending, Waiting, WorkType
  <2>3. s # "already_running" => next.run = RunOf(m)
    BY DEF Pending
  <2>4. \A x \in Messages : /\ lost[x] \subseteq lost'[x]
                            /\ wait[d].run = x /\ next.run # x => lost'[x] # {}
                            /\ next.run = x /\ s # "already_running" /\ Writers(jobs, d) = {} => lost'[x] # {}
    BY <2>1 DEF Losing
  <2> HIDE DEF next, lost2
  <2>5. WorkKept
    BY <1>0, <2>1, <2>2 DEF WorkKept, WorkType
  <2>6. \A x \in Messages \ {m} : Outstanding(x)' => Outstanding(x)
    BY <2>1, <2>2 DEF Outstanding, WorkType
  <2>7. ASSUME NEW x \in Messages, Reported(x) PROVE Reported(x)'
    <3>1. CASE lost[x] # {} \/ Holders(x) # {}
      BY <2>1, <2>4, <3>1 DEF Reported, Holders
    <3>2. CASE Awaited(x)
      <4>1. PICK e \in Drafts : wait[e].run = x /\ Writers(jobs, e) # {}
        BY <3>2 DEF Awaited
      <4>2. CASE wait'[e].run = x
        BY <2>1, <4>1, <4>2 DEF Reported, Awaited
      <4>3. CASE wait'[e].run # x
        BY <2>1, <2>4, <4>1, <4>3 DEF Reported, WorkType
      <4> QED
        BY <4>2, <4>3
    <3> QED
      BY <2>7, <3>1, <3>2 DEF Reported
  <2>8. s # "already_running" /\ run'[m] = "running" => Reported(m)'
    <3> SUFFICES ASSUME s # "already_running", run'[m] = "running" PROVE Reported(m)'
      OBVIOUS
    <3>1. wait'[d].run = m /\ next.run = m
      BY <1>0, <2>1, <2>3 DEF RunOf, WorkType
    <3> QED
      BY <2>1, <2>4, <3>1 DEF Reported, Awaited
  <2> QED
    BY <1>0, <2>5, <2>6, <2>7, <2>8 DEF Effects, OthersKept
<1> QED
  BY <1>1, <1>2

LEMMA RewriteEffects ==
    ASSUME WorkType, NEW m \in Messages, NEW d \in Drafts, NEW s, NEW who, StartRewrite(m, d, s)
    PROVE  Effects(m, "rewrite", s, who)
<1>0. UNCHANGED <<pictures, waits>> /\ s \in {"already_running", "started"}
  BY DEF StartRewrite
<1>1. CASE s = "already_running"
  <2>1. jobs' = jobs /\ run' = run
    BY <1>1 DEF StartRewrite
  <2> QED
    BY <1>0, <1>1, <2>1
    DEF Effects, OthersKept, WorkKept, WorkType, Reported, Holders, Awaited, Outstanding, waits
<1>2. CASE s # "already_running"
  <2>0. PICK r \in Messages \cup {Own} : r = IF d \in Origins THEN Own ELSE RunOf(m)
    BY DEF RunOf
  <2>1. /\ s = "started" /\ Add(m, r, "rewrite", d)
        /\ run' = IF d \in Origins /\ run[m] = "running" THEN [run EXCEPT ![m] = "completed"] ELSE run
    BY <1>0, <1>2, <2>0 DEF StartRewrite
  <2>3. /\ \A j \in jobs' : IsJob(j)
        /\ OthersKept(m)
        /\ r \in Messages => Reported(r)'
    BY <1>0, <2>1, AddedJob DEF Steps
  <2>4. WorkKept
    BY <1>0, <2>1, <2>3 DEF WorkKept, WorkType, waits
  <2>5. \A x \in Messages : run'[x] = run[x] \/ (x = m /\ run'[x] = "completed")
    BY <2>1 DEF WorkType
  <2>6. run'[m] = "running" => r = m
    BY <2>0, <2>1 DEF RunOf, WorkType
  <2> QED
    BY <1>0, <2>1, <2>3, <2>4, <2>5, <2>6 DEF Effects, Accepted
<1> QED
  BY <1>1, <1>2

LEMMA JobEffects ==
    ASSUME WorkType, NEW m \in Messages, NEW d \in Drafts \cup {None}, NEW s, NEW r \in Messages \cup {Own},
           NEW kind \in Steps, d \in Drafts \/ kind = "collect", UNCHANGED <<run, waits>>,
           NEW who \in {"tool", "dispatch"}, run[m] = "running" => r = m,
           pictures' = pictures \/ (kind = "image" /\ pictures' = [pictures EXCEPT ![m][who] = @ + 1]),
           \/ s = "started" /\ Add(m, r, kind, d)
           \/ s \in {"failed", "rejected"} /\ UNCHANGED jobs
    PROVE  Effects(m, kind, s, who)
<1>0. pictures' \in [Messages -> [tool : Nat, dispatch : Nat]]
  BY DEF WorkType
<1>1. CASE s = "started" /\ Add(m, r, kind, d)
  <2>1. /\ \A j \in jobs' : IsJob(j)
        /\ OthersKept(m)
        /\ r \in Messages => Reported(r)'
    BY <1>1, AddedJob
  <2> QED
    BY <1>0, <1>1, <2>1 DEF Effects, WorkKept, WorkType, Accepted, waits
<1>2. CASE s \in {"failed", "rejected"} /\ UNCHANGED jobs
  BY <1>0, <1>2
  DEF Effects, OthersKept, WorkKept, WorkType, Reported, Holders, Awaited, Outstanding, Accepted, waits
<1> QED
  BY <1>1, <1>2

LEMMA NoEffects ==
    ASSUME WorkType, NEW m \in Messages, NEW kind, NEW s, NEW who, UNCHANGED <<run, work>>,
           s \in {"rejected", "done", "folded"}
    PROVE  Effects(m, kind, s, who)
BY DEF work, waits, Effects, OthersKept, WorkKept, WorkType, Reported, Holders, Awaited, Outstanding, Accepted

LEMMA DoStepEffects ==
    ASSUME WorkType, NEW m \in Messages, NEW kind \in Steps, NEW s, DoStep(m, kind, s)
    PROVE  Effects(m, kind, s, "dispatch")
<1>1. CASE kind = "collect"
  <2>1. StartCollection(m, s)
    BY <1>1 DEF DoStep
  <2> QED
    BY <1>1, <2>1, JobEffects DEF StartCollection
<1>2. CASE kind # "collect" /\ CurrentDraft = None
  BY <1>2, NoEffects DEF DoStep, Refused
<1>3. CASE kind # "collect" /\ CurrentDraft # None
  <2>0. CurrentDraft \in Drafts
    BY <1>3 DEF CurrentDraft, WorkType
  <2>1. CASE kind = "image" /\ StartImage(m, CurrentDraft, s, "dispatch")
    BY <2>0, <2>1, JobEffects DEF StartImage, RunOf
  <2>2. CASE kind = "review" /\ StartReview(m, CurrentDraft, s)
    BY <2>0, <2>2, ReviewEffects
  <2>3. CASE kind = "rewrite" /\ StartRewrite(m, CurrentDraft, s)
    BY <2>0, <2>3, RewriteEffects
  <2>4. CASE kind = "deliver" /\ StartDelivery(m, CurrentDraft, s)
    BY <2>0, <2>4, JobEffects DEF StartDelivery, RunOf
  <2> QED
    BY <1>3, <2>1, <2>2, <2>3, <2>4 DEF DoStep
<1> QED
  BY <1>1, <1>2, <1>3

LEMMA UseToolEffects ==
    ASSUME WorkType, NEW m \in Messages, NEW kind \in (Steps \ {"collect"}) \cup {"decide"},
           NEW on \in Drafts \cup {None}, NEW s, NEW who \in {"tool", "dispatch"}, UseTool(m, kind, on, s, who)
    PROVE  Effects(m, kind, s, who) /\ status' \in [Drafts -> Statuses]
<1>0. status' \in [Drafts -> Statuses]
  BY DEF UseTool, Decided, WorkType, Statuses
<1>1. CASE Refused(s)
  BY <1>0, <1>1, NoEffects DEF Refused
<1>2. CASE on # None /\ ~Refused(s)
  <2>1. CASE kind = "image" /\ StartImage(m, on, s, who)
    <3>1. PICK r \in Messages \cup {Own} : r = RunOf(m) /\ (run[m] = "running" => r = m)
      BY DEF RunOf
    <3>2. /\ s = "started" /\ Add(m, r, "image", on) /\ UNCHANGED <<run, waits>>
          /\ pictures' = [pictures EXCEPT ![m][who] = @ + 1]
      BY <2>1, <3>1 DEF StartImage
    <3>3. Effects(m, "image", s, who)
      <4>1. on \in Drafts /\ "image" \in Steps
        BY <1>2 DEF Steps
      <4> QED
        BY <3>1, <3>2, <4>1, JobEffects
    <3> QED
      BY <1>0, <2>1, <3>3
  <2>2. CASE kind = "review" /\ StartReview(m, on, s)
    BY <1>0, <1>2, <2>2, ReviewEffects
  <2>3. CASE kind = "rewrite" /\ StartRewrite(m, on, s)
    BY <1>0, <1>2, <2>3, RewriteEffects
  <2>4. CASE kind = "deliver" /\ StartDelivery(m, on, s)
    BY <1>0, <1>2, <2>4, JobEffects DEF StartDelivery, RunOf
  <2>5. CASE kind = "decide" /\ s = "done" /\ UNCHANGED <<run, work>>
    BY <1>0, <2>5, NoEffects
  <2> QED
    BY <1>2, <2>1, <2>2, <2>3, <2>4, <2>5 DEF UseTool
<1> QED
  BY <1>1, <1>2 DEF UseTool

-----------------------------------------------------------------------------
(* A message that a step is not about                                      *)

\* What a step does at most to the other messages: it closes a run, or takes
\* their jobs as they end.
Beside(x) ==
    /\ text'[x] = text[x] /\ pc'[x] = pc[x] /\ out'[x] = out[x] /\ facts'[x] = facts[x]
    /\ cause'[x] = cause[x] /\ calls'[x] = calls[x] /\ thread'[x] = thread[x]
    /\ pictures'[x] = pictures[x] /\ history \subseteq history'
    /\ (Outstanding(x)' => Outstanding(x))
    /\ run'[x] = "running" => run[x] = "running" /\ (Reported(x) => Reported(x)')

LEMMA BesideGood ==
    ASSUME NEW x \in Messages, Good(x), Beside(x)
    PROVE  Good(x)'
<1>1. Outstanding(x)' => Outstanding(x)
  BY DEF Beside
<1>2. Plan(x)' = Plan(x) /\ Way(x)' = Way(x)
  BY DEF Beside, Plan, Way
<1>3. Stages(x)'
  BY <1>1, <1>2 DEF Beside, Good, Stages, Untouched
<1>4. OnePicture(x)'
  BY <1>2 DEF Beside, Good, OnePicture
<1>5. JobsKnown(x)'
  BY <1>1, <1>2 DEF Beside, Good, JobsKnown, Done
<1>6. Explained(x)'
  BY DEF Beside, Good, Explained
<1> QED
  BY <1>3, <1>4, <1>5, <1>6 DEF Good

\* A step of m's dispatch that starts no job.
LEMMA QuietBeside ==
    ASSUME NEW m \in Messages, NEW x \in Messages,
           text'[x] = text[x], pc'[x] = pc[x], out'[x] = out[x], facts'[x] = facts[x],
           cause'[x] = cause[x], calls'[x] = calls[x], thread'[x] = thread[x],
           run'[x] = run[x] \/ run'[x] # "running", history \subseteq history', UNCHANGED work
    PROVE  Beside(x)
BY DEF Beside, work, waits, Reported, Holders, Awaited, Outstanding

\* A step of m's dispatch that starts one.
LEMMA StartBeside ==
    ASSUME WorkType, NEW m \in Messages, NEW kind, NEW s, NEW who, Effects(m, kind, s, who), NEW x \in Messages \ {m},
           text'[x] = text[x], pc'[x] = pc[x], out'[x] = out[x], facts'[x] = facts[x],
           cause'[x] = cause[x], calls'[x] = calls[x], thread'[x] = thread[x], history \subseteq history'
    PROVE  Beside(x)
BY DEF Beside, Effects, OthersKept, WorkType

LEMMA WayFacts ==
    ASSUME NEW t \in Text
    PROVE  /\ WayOf(t) \in {"attachment", "command", "plan", "agent"}
           /\ WayOf(t) = "command" => t.command \in Commands
           /\ WayOf(t) = "plan" => t.words \in Seq(Steps) /\ Len(t.words) > 1
BY DEF WayOf, Multi, PlanOf, Text

-----------------------------------------------------------------------------
(* The route and the beginning                                             *)

LEMMA BeginStep ==
    ASSUME Dispatched, NEW m \in Messages, Send(m) \/ Enqueue(m) \/ EnqueueFails(m) \/ Take(m) \/ Extract(m)
    PROVE  Dispatched'
<1> USE DEF Dispatched
<1>1. \A x \in Messages \ {m} : Beside(x)
  BY QuietBeside DEF Send, Enqueue, EnqueueFails, Take, Extract, FlowType, WorkType, flow, result, agent
<1>2. (FlowType /\ WorkType)'
  <2>1. WorkType'
    BY DEF Send, Enqueue, EnqueueFails, Take, Extract, WorkType, work, waits, drafts
  <2>2. CASE Send(m)
    BY <2>1, <2>2, DispatchAssumption DEF Send, FlowType, Phases, result, agent
  <2>3. CASE Enqueue(m)
    BY <2>1, <2>3 DEF Enqueue, FlowType, Phases, result, agent
  <2>4. CASE EnqueueFails(m)
    BY <2>1, <2>4 DEF EnqueueFails, FlowType, Phases, result, agent
  <2>5. CASE Take(m)
    <3>1. WayOf(text[m]) \in Phases
      BY WayFacts DEF FlowType, Phases
    <3> QED
      BY <2>1, <2>5, <3>1 DEF Take, FlowType, Phases, result
  <2>6. CASE Extract(m)
    BY <2>1, <2>6 DEF Extract, FlowType, flow, result, agent
  <2> QED
    BY <2>2, <2>3, <2>4, <2>5, <2>6
<1>3. Good(m)'
  <2>0. Good(m)
    OBVIOUS
  <2>1. CASE Send(m)
    BY <2>0, <2>1 DEF Send, Good, Stages, OnePicture, JobsKnown, Explained, Untouched, NoPictures, Outstanding,
       FlowType, WorkType, result, agent, work, waits, Way
  <2>2. CASE Enqueue(m)
    BY <2>0, <2>2 DEF Enqueue, Good, Stages, OnePicture, JobsKnown, Explained, Untouched, NoPictures, Outstanding,
       FlowType, WorkType, result, agent, work, waits, Way
  <2>3. CASE EnqueueFails(m)
    BY <2>0, <2>3 DEF EnqueueFails, Good, Stages, OnePicture, JobsKnown, Explained, Untouched, NoPictures, Outstanding,
       FlowType, WorkType, result, agent, work, waits, Way, NoOut
  <2>4. CASE Take(m)
    <3>1. /\ Way(m) \in {"attachment", "command", "plan", "agent"}
          /\ Way(m) = "plan" => text[m].words \in Seq(Steps) /\ Len(text[m].words) > 1
      BY WayFacts DEF FlowType, Way
    <3>2. /\ pc[m] = "queued" /\ text'[m] = text[m] /\ out' = out /\ run' = run /\ history' = history
          /\ pc'[m] = IF run[m] = "running" THEN Way(m) ELSE "over"
          /\ thread'[m] = IF pc'[m] = "agent" THEN "working" ELSE thread[m]
          /\ UNCHANGED <<facts, cause, calls, pictures, jobs, wait, lost>>
      BY <2>4 DEF Take, FlowType, Way, result, work, waits
    <3>3. Untouched(m) /\ out[m] = NoOut
      BY <2>0, <3>2 DEF Good, Stages
    <3>4. Way(m)' = Way(m) /\ Plan(m)' = text[m].words /\ ~Outstanding(m)'
      BY <3>2, <3>3 DEF Way, Plan, Outstanding, Untouched
    <3>5. Stages(m)'
      BY <2>0, <3>1, <3>2, <3>3, <3>4 DEF Good, Stages, Untouched
    <3>6. OnePicture(m)'
      BY <2>0, <3>1, <3>2, <3>3 DEF Good, OnePicture, Untouched, NoPictures
    <3>7. JobsKnown(m)' /\ Explained(m)'
      <4>1. ~Handed(facts'[m])
        BY <3>2, <3>3 DEF Handed, Untouched
      <4>2. ~(pc'[m] = "answer") /\ (pc'[m] = "over" => run'[m] # "running") /\ out'[m] = NoOut
        BY <3>1, <3>2, <3>3
      <4> QED
        BY <3>4, <4>1, <4>2 DEF JobsKnown, Explained, NoOut
    <3> QED
      BY <3>5, <3>6, <3>7 DEF Good
  <2>5. CASE Extract(m)
    BY <2>0, <2>5, QuietBeside, BesideGood DEF Extract, flow, result, agent
  <2> QED
    BY <2>1, <2>2, <2>3, <2>4, <2>5
<1> QED
  BY <1>1, <1>2, <1>3, BesideGood

-----------------------------------------------------------------------------
(* The end of a dispatch                                                   *)

LEMMA EndStep ==
    ASSUME Dispatched, NEW m \in Messages,
           Extracted(m) \/ PlanStops(m) \/ AgentFails(m) \/ AgentTimesOut(m) \/ LateThreadEnds(m)
             \/ Finish(m) \/ Raise(m) \/ Cancel(m) \/ Sweep(m)
    PROVE  Dispatched'
<1> USE DEF Dispatched
<1>1. \A x \in Messages \ {m} : Beside(x)
  BY QuietBeside
  DEF Extracted, PlanStops, AgentFails, AgentTimesOut, LateThreadEnds, Finish, Raise, Cancel, Sweep, FlowType, WorkType,
      flow, result, agent, ThreadEnds, NothingDone, Answer, Tell
<1>2. FlowType'
  <2> USE DEF FlowType, Phases, Outcome, flow, result, agent, Answer, Tell, ThreadEnds, NothingDone
  <2>1. CASE Extracted(m)
    BY <2>1 DEF Extracted
  <2>2. CASE AgentFails(m)
    BY <2>2 DEF AgentFails
  <2>3. CASE AgentTimesOut(m)
    BY <2>3 DEF AgentTimesOut
  <2>4. CASE LateThreadEnds(m)
    BY <2>4 DEF LateThreadEnds
  <2>5. CASE Finish(m)
    BY <2>5 DEF Finish
  <2>6. CASE Raise(m)
    BY <2>6 DEF Raise
  <2>7. CASE Cancel(m)
    BY <2>7 DEF Cancel, Causes
  <2>8. CASE Sweep(m)
    BY <2>8 DEF Sweep
  <2>9. CASE PlanStops(m)
    BY <2>9 DEF PlanStops
  <2> QED
    BY <2>1, <2>2, <2>3, <2>4, <2>5, <2>6, <2>7, <2>8, <2>9
<1>3. WorkType'
  <2>1. UNCHANGED <<work, drafts>>
    BY DEF Extracted, PlanStops, AgentFails, AgentTimesOut, LateThreadEnds, Finish, Raise, Cancel, Sweep
  <2>2. \/ run' = run \/ run' = [run EXCEPT ![m] = "failed"] \/ run' = [run EXCEPT ![m] = out[m].status]
    BY DEF Extracted, PlanStops, AgentFails, AgentTimesOut, LateThreadEnds, Finish, Raise, Cancel, Sweep
  <2>3. out[m].status \in {"none", "completed", "failed"}
    BY DEF FlowType, Outcome
  <2> QED
    BY <2>1, <2>2, <2>3 DEF WorkType, work, waits, drafts
<1>4. Good(m)'
  <2>0. Good(m)
    OBVIOUS
  <2> USE DEF Good, Stages, OnePicture, JobsKnown, Explained, Untouched, NoPictures, Outstanding, Done,
              FlowType, WorkType, Way, flow, result, agent, work, waits, Reported, Holders, Awaited
  <2>1. CASE Extracted(m)
    BY <2>0, <2>1 DEF Extracted, Answer, Tell
  <2>2. CASE AgentFails(m)
    BY <2>0, <2>2 DEF AgentFails, ThreadEnds, NothingDone, Answer, Tell
  <2>3. CASE AgentTimesOut(m)
    BY <2>0, <2>3 DEF AgentTimesOut, NothingDone, Answer, Tell
  <2>4. CASE LateThreadEnds(m)
    BY <2>0, <2>4 DEF LateThreadEnds, ThreadEnds
  <2>5. CASE Finish(m)
    <3>1. out[m] \in Outcome
      OBVIOUS
    <3>2. CASE out[m].keep
      BY <2>0, <2>5, <3>2 DEF Finish
    <3>3. CASE ~out[m].keep
      BY <2>0, <2>5, <3>1, <3>3 DEF Finish, Outcome
    <3> QED
      BY <3>2, <3>3
  <2>6. CASE Raise(m)
    BY <2>0, <2>6 DEF Raise
  <2>7. CASE Cancel(m)
    <3>1. /\ pc'[m] = "over" /\ cause'[m] # {} /\ out' = out /\ text' = text
          /\ thread'[m] = IF thread[m] = "working" THEN "late" ELSE thread[m]
          /\ UNCHANGED <<facts, calls, history, pictures, jobs, wait>>
      BY <2>7 DEF Cancel
    <3>2. Way(m)' = Way(m) /\ Outstanding(m)' = Outstanding(m)
      BY <3>1
    <3>3. pc[m] \in {"accepted", "command", "plan", "agent", "answer"}
      BY <2>7 DEF Cancel
    <3>4. Stages(m)' /\ OnePicture(m)'
      BY <2>0, <3>1, <3>2, <3>3
    <3>5. JobsKnown(m)' /\ Explained(m)'
      BY <2>0, <3>1, <3>2, <3>3 DEF NoOut
    <3> QED
      BY <3>4, <3>5
  <2>8. CASE Sweep(m)
    <3>1. Beside(m)
      BY <2>8, QuietBeside DEF Sweep
    <3> QED
      BY <2>0, <3>1, BesideGood
  <2>9. CASE PlanStops(m)
    BY <2>0, <2>9 DEF PlanStops, Answer
  <2> QED
    BY <2>1, <2>2, <2>3, <2>4, <2>5, <2>6, <2>7, <2>8, <2>9
<1> QED
  BY <1>1, <1>2, <1>3, <1>4, BesideGood

-----------------------------------------------------------------------------
(* Commands                                                                *)

LEMMA CommandStep ==
    ASSUME Dispatched, NEW m \in Messages, Command(m)
    PROVE  Dispatched'
<1> USE DEF Dispatched
<1>0. Good(m) /\ pc[m] = "command" /\ Untouched(m) /\ Way(m) = "command" /\ text[m] \in Text
  BY DEF Command, Good, Stages, FlowType
<1>1. PICK s \in {"started", "already_running", "queued_after_rewrite", "queued_after_images",
                  "failed", "rejected", "done"} :
         /\ IF text[m].command = "reuse" THEN Reuse(Adopted(m), s)
            ELSE UseTool(m, text[m].command, Adopted(m), s, "dispatch")
         /\ Answer(m, HandsOn(s), "completed")
         /\ Note(m, text[m].command, s)
  BY DEF Command
<1>2. text[m].command \in Commands /\ text[m].draft \in Drafts \cup {None}
  BY <1>0, WayFacts DEF Way, Text
<1>3. Effects(m, text[m].command, s, "dispatch") /\ status' \in [Drafts -> Statuses]
  <2>1. Adopted(m) \in Drafts \cup {None}
    BY <1>2 DEF Adopted, WorkType
  <2>2. CASE text[m].command = "reuse"
    BY <1>1, <2>2, NoEffects DEF Reuse, WorkType
  <2>3. CASE text[m].command # "reuse"
    BY <1>1, <1>2, <2>1, <2>3, UseToolEffects DEF Commands, Doing
  <2> QED
    BY <2>2, <2>3
<1>4. /\ text' = text /\ cause' = cause /\ UNCHANGED agent
      /\ pc' = [pc EXCEPT ![m] = "answer"] /\ out' = [out EXCEPT ![m] = [keep |-> HandsOn(s), status |-> "completed"]]
      /\ facts' = [facts EXCEPT ![m] = Append(@, [step |-> text[m].command, status |-> s])]
  BY <1>1 DEF Command, Answer, Note
<1>5. \A x \in Messages \ {m} : Beside(x)
  BY <1>3, <1>4, StartBeside DEF FlowType, agent
<1>6. FlowType'
  <2>1. [step |-> text[m].command, status |-> s] \in Fact
    BY <1>2 DEF Fact, Commands, Answers
  <2>2. [keep |-> HandsOn(s), status |-> "completed"] \in Outcome
    BY DEF Outcome, HandsOn
  <2> QED
    BY <1>4, <2>1, <2>2 DEF FlowType, Phases, agent
<1>7. WorkType'
  <2>1. active' \in Drafts \cup {None} /\ refs' \subseteq Drafts
    BY <1>2 DEF Command, WorkType
  <2> QED
    BY <1>3, <2>1 DEF Effects, WorkKept, WorkType
<1>8. Good(m)'
  <2>1. /\ pc'[m] = "answer" /\ out'[m] = [keep |-> HandsOn(s), status |-> "completed"]
        /\ Way(m)' = "command" /\ thread'[m] = "none" /\ text'[m] \in Texts
    BY <1>0, <1>4 DEF FlowType, Untouched, agent, Way, Good, Stages
  <2>2. Stages(m)'
    BY <2>1 DEF Stages
  <2>3. OnePicture(m)'
    <3>1. pictures'[m] \in {NoPictures, [NoPictures EXCEPT !.dispatch = 1]}
      BY <1>0, <1>3 DEF Untouched, NoPictures, Effects, WorkType
    <3> QED
      BY <2>1, <3>1 DEF OnePicture, NoPictures
  <2>4. JobsKnown(m)'
    <3>1. Outstanding(m)' => Accepted(s)
      BY <1>0, <1>3 DEF Untouched, Effects
    <3>2. Accepted(s) /\ ~HandsOn(s) => s \in {"queued_after_rewrite", "already_running"}
      BY DEF Accepted, HandsOn
    <3>3. text'[m] = text[m] /\ facts'[m] = Append(<< >>, [step |-> text[m].command, status |-> s])
      BY <1>0, <1>4 DEF FlowType, Untouched
    <3>4. Len(facts'[m]) = 1 /\ facts'[m][1] = [step |-> text[m].command, status |-> s] /\ 1 \in DOMAIN facts'[m]
      BY <3>3
    <3>5. s \in {"queued_after_rewrite", "already_running"}
            => Done(m, text[m].command, {"queued_after_rewrite", "already_running"})'
      BY <3>3, <3>4 DEF Done
    <3> QED
      BY <2>1, <3>1, <3>2, <3>5 DEF JobsKnown
  <2>5. Explained(m)'
    <3>1. HandsOn(s) /\ run'[m] = "running" => Reported(m)'
      BY <1>3 DEF Effects, HandsOn, Accepted
    <3> QED
      BY <2>1, <3>1 DEF Explained
  <2> QED
    BY <2>2, <2>3, <2>4, <2>5 DEF Good
<1> QED
  BY <1>5, <1>6, <1>7, <1>8, BesideGood

-----------------------------------------------------------------------------
(* Plans                                                                   *)

LEMMA HandedAppend ==
    ASSUME NEW fs \in Seq(Fact), NEW f \in Fact
    PROVE  Handed(Append(fs, f)) <=> Handed(fs) \/ Accepted(f.status)
<1>1. /\ DOMAIN Append(fs, f) = DOMAIN fs \cup {Len(fs) + 1}
      /\ Append(fs, f)[Len(fs) + 1] = f /\ \A n \in DOMAIN fs : Append(fs, f)[n] = fs[n]
  OBVIOUS
<1> QED
  BY <1>1 DEF Handed

LEMMA PlanStepStep ==
    ASSUME Dispatched, NEW m \in Messages, PlanStep(m)
    PROVE  Dispatched'
<1> USE DEF Dispatched
<1> DEFINE n == Len(facts[m]) + 1
           step == Plan(m)[n]
           last == n = Len(Plan(m))
<1>0. /\ Good(m) /\ pc[m] = "plan" /\ Way(m) = "plan" /\ text[m] \in Texts /\ text[m] \in Text
      /\ Len(facts[m]) < Len(Plan(m)) /\ thread[m] = "none" /\ out[m] = NoOut
  BY DEF PlanStep, Good, Stages, FlowType
<1>1. Plan(m) \in Seq(Steps) /\ n \in 1..Len(Plan(m)) /\ step \in Steps /\ facts[m] \in Seq(Fact)
  <2>1. Plan(m) \in Seq(Steps) /\ facts[m] \in Seq(Fact)
    BY <1>0, WayFacts DEF Way, Plan, FlowType
  <2>2. n \in 1..Len(Plan(m))
    BY <1>0, <2>1
  <2> QED
    BY <2>1, <2>2
<1>2. PICK s \in {"started", "already_running", "queued_after_rewrite", "queued_after_images",
                  "failed", "rejected", "folded"} :
         /\ IF Folded(m, step) THEN s = "folded" /\ UNCHANGED <<run, work>> ELSE DoStep(m, step, s)
         /\ Note(m, step, s) /\ Why(m, s)
         /\ IF last \/ (Accepted(s) /\ step # "image")
            THEN Answer(m, Handed(facts'[m]), "completed") /\ UNCHANGED text
            ELSE UNCHANGED flow
         /\ refs' = IF Enters(s) THEN refs \cup ({CurrentDraft} \ {None}) ELSE refs
  BY DEF PlanStep
<1>3. Effects(m, step, s, "dispatch")
  BY <1>1, <1>2, NoEffects, DoStepEffects
<1> DEFINE f == [step |-> step, status |-> s]
<1>4. /\ f \in Fact /\ facts' = [facts EXCEPT ![m] = Append(@, f)] /\ facts'[m] = Append(facts[m], f)
      /\ cause' = [cause EXCEPT ![m] = IF s = "already_running" THEN @ \cup {"joined"} ELSE @]
      /\ UNCHANGED <<agent, status, active>> /\ text' = text
      /\ \/ pc' = pc /\ out' = out /\ ~last
         \/ /\ pc' = [pc EXCEPT ![m] = "answer"]
            /\ out' = [out EXCEPT ![m] = [keep |-> Handed(facts'[m]), status |-> "completed"]]
  <2>1. f \in Fact
    BY <1>1 DEF Fact, Answers
  <2>2. facts' = [facts EXCEPT ![m] = Append(@, f)]
    BY <1>2 DEF Note
  <2>3. /\ UNCHANGED <<agent, status, active>> /\ text' = text
        /\ cause' = [cause EXCEPT ![m] = IF s = "already_running" THEN @ \cup {"joined"} ELSE @]
    BY <1>2 DEF PlanStep, Why, flow
  <2>4. \/ pc' = pc /\ out' = out /\ ~last
        \/ /\ pc' = [pc EXCEPT ![m] = "answer"]
           /\ out' = [out EXCEPT ![m] = [keep |-> Handed(facts'[m]), status |-> "completed"]]
    BY <1>2 DEF Answer, flow
  <2> QED
    BY <2>1, <2>2, <2>3, <2>4 DEF FlowType
<1>5. \A x \in Messages \ {m} : Beside(x)
  BY <1>3, <1>4, StartBeside DEF FlowType, agent
<1>6. FlowType'
  <2>1. [keep |-> Handed(facts'[m]), status |-> "completed"] \in Outcome
    BY DEF Outcome, Handed
  <2>2. cause' \in [Messages -> SUBSET Causes]
    BY <1>4 DEF FlowType, Causes
  <2>3. pc' \in [Messages -> Phases] /\ out' \in [Messages -> Outcome]
    BY <1>4, <2>1 DEF FlowType, Phases
  <2>4. facts' \in [Messages -> Seq(Fact)]
    BY <1>1, <1>4 DEF FlowType
  <2> QED
    BY <1>4, <2>2, <2>3, <2>4 DEF FlowType, agent
<1>7. WorkType'
  <2>1. refs' \subseteq Drafts
    BY <1>2 DEF WorkType, CurrentDraft
  <2> QED
    BY <1>3, <1>4, <2>1 DEF Effects, WorkKept, WorkType
<1>8. Good(m)'
  <2>0. /\ Way(m)' = "plan" /\ Plan(m)' = Plan(m) /\ thread'[m] = "none" /\ history' = history /\ text'[m] \in Texts
        /\ \/ pc'[m] = "plan" /\ out'[m] = NoOut /\ ~last
           \/ pc'[m] = "answer" /\ out'[m] = [keep |-> Handed(facts'[m]), status |-> "completed"]
    BY <1>0, <1>4 DEF FlowType, agent, Way, Plan
  <2>1. Len(facts'[m]) = n
    BY <1>1, <1>4
  <2>2. Stages(m)'
    BY <1>0, <1>1, <2>0, <2>1 DEF Stages
  <2>3. OnePicture(m)'
    <3>0. pictures[m] \in [tool : Nat, dispatch : Nat] /\ pictures[m].tool = 0 /\ pictures[m].dispatch <= 1
      BY <1>0 DEF Good, OnePicture, WorkType
    <3>1. pictures[m].dispatch = 1 => step # "image"
      <4>1. \A k \in 1..Len(facts[m]) : Plan(m)[k] # Plan(m)[n]
        BY <1>0, <1>1, DispatchAssumption DEF Plan
      <4> QED
        BY <1>0, <4>1 DEF Good, OnePicture
    <3>2. /\ pictures'[m].tool = 0
          /\ pictures'[m] = pictures[m] \/ (step = "image" /\ pictures'[m].dispatch = 1)
      BY <1>0, <1>3, <3>0, <3>1 DEF Effects, WorkType
    <3>3. pictures'[m].dispatch = 1 => \E k \in 1..n : Plan(m)[k] = "image"
      BY <1>0, <1>1, <3>2 DEF Good, OnePicture
    <3> QED
      BY <1>0, <2>0, <2>1, <3>0, <3>2, <3>3 DEF OnePicture
  <2>4. Handed(facts'[m]) <=> Handed(facts[m]) \/ Accepted(s)
    BY <1>1, <1>4, HandedAppend
  <2>5. Outstanding(m)' => Handed(facts'[m])
    BY <1>0, <1>3, <2>4 DEF Effects, Good, JobsKnown
  <2>6. JobsKnown(m)'
    BY <2>0, <2>5 DEF JobsKnown
  <2>7. run'[m] = "running" /\ Handed(facts'[m]) => Reported(m)' \/ cause'[m] # {}
    <3>1. run'[m] = "running" => run[m] = "running"
      BY <1>3 DEF Effects
    <3>2. CASE s = "already_running"
      BY <1>4, <3>2 DEF FlowType
    <3>3. CASE s # "already_running"
      <4>1. Reported(m) => Reported(m)'
        BY <1>3 DEF Effects, OthersKept
      <4>2. cause'[m] = cause[m]
        BY <1>4, <3>3 DEF FlowType
      <4>3. Accepted(s) /\ run'[m] = "running" => Reported(m)'
        BY <1>3, <3>3 DEF Effects
      <4>4. run[m] = "running" /\ Handed(facts[m]) => Reported(m) \/ cause[m] # {}
        BY <1>0 DEF Good, Explained
      <4> QED
        BY <2>4, <3>1, <4>1, <4>2, <4>3, <4>4
    <3> QED
      BY <3>2, <3>3
  <2>8. Explained(m)'
    BY <2>0, <2>7 DEF Explained
  <2> QED
    BY <2>2, <2>3, <2>6, <2>8 DEF Good
<1> QED
  BY <1>5, <1>6, <1>7, <1>8, BesideGood

-----------------------------------------------------------------------------
(* The agent                                                               *)

LEMMA ToolCallStep ==
    ASSUME Dispatched, NEW m \in Messages, ToolCall(m)
    PROVE  Dispatched'
<1> USE DEF Dispatched
<1>0. /\ Good(m) /\ thread[m] # "none" /\ Way(m) = "agent" /\ pc[m] \in {"agent", "answer", "over"}
      /\ UNCHANGED <<flow, result, thread, active>> /\ calls' = [calls EXCEPT ![m] = @ + 1]
  BY DEF ToolCall, Good, Stages
<1>1. PICK kind \in AgentTools, d \in {None} \cup Drafts,
           s \in {"started", "already_running", "queued_after_rewrite", "queued_after_images",
                  "failed", "rejected", "done"} :
         /\ UseTool(m, kind, ToolDraft(d), s, "tool")
         /\ history' = history \cup {kind}
         /\ refs' = IF Enters(s) THEN refs \cup {ToolDraft(d)} ELSE refs
  BY DEF ToolCall
<1>2. kind \in (Steps \ {"collect"}) \cup {"decide"} /\ ToolDraft(d) \in Drafts \cup {None}
  BY <1>1, DispatchAssumption DEF ToolDraft, WorkType
<1>3. Effects(m, kind, s, "tool") /\ status' \in [Drafts -> Statuses]
  BY <1>1, <1>2, UseToolEffects
<1>4. \A x \in Messages \ {m} : Beside(x)
  BY <1>0, <1>1, <1>3, StartBeside DEF FlowType, flow, result
<1>5. FlowType'
  BY <1>0 DEF FlowType, flow, result
<1>6. WorkType'
  <2>1. Enters(s) => ToolDraft(d) \in Drafts
    BY <1>1, <1>2 DEF UseTool, Refused, Enters
  <2> QED
    BY <1>0, <1>1, <1>3, <2>1 DEF Effects, WorkKept, WorkType
<1>7. Good(m)'
  <2>0. /\ Way(m)' = "agent" /\ UNCHANGED <<text, pc, out, facts, cause, thread>>
        /\ history' = history \cup {kind}
    BY <1>0, <1>1 DEF Way, flow, result, FlowType
  <2>1. Stages(m)'
    BY <1>0, <2>0 DEF Good, Stages
  <2>2. OnePicture(m)'
    <3>0. pictures[m] \in [tool : Nat, dispatch : Nat] /\ pictures[m].dispatch = 0 /\ pc[m] # "plan"
      BY <1>0 DEF Good, OnePicture, WorkType
    <3>1. /\ pictures'[m] = pictures[m] \/ (kind = "image" /\ pictures'[m].tool = pictures[m].tool + 1)
          /\ pictures'[m].dispatch = 0
      BY <1>3, <3>0 DEF Effects, WorkType
    <3> QED
      BY <1>0, <2>0, <3>0, <3>1 DEF Good, OnePicture
  <2>3. JobsKnown(m)'
    BY <1>0, <2>0 DEF JobsKnown
  <2>4. Explained(m)'
    BY <1>0, <1>3, <2>0 DEF Good, Explained, Effects, OthersKept
  <2> QED
    BY <2>1, <2>2, <2>3, <2>4 DEF Good
<1> QED
  BY <1>4, <1>5, <1>6, <1>7, BesideGood

\* A decision that starts a job: a picture only if no tool was called for one.
LEMMA DecidedJob ==
    ASSUME Dispatched, NEW m \in Messages, Decide(m), NEW kind \in Decisions,
           kind \notin {"image", "review"} \cap Handled,
           NEW s \in {"started", "already_running", "queued_after_rewrite", "queued_after_images", "rejected"},
           NEW o \in {"completed", "failed"},
           DoStep(m, kind, s), Answer(m, Accepted(s), o), Note(m, kind, s), Why(m, s)
    PROVE  Dispatched'
<1> USE DEF Dispatched
<1>0. /\ Good(m) /\ pc[m] = "agent" /\ Way(m) = "agent" /\ text[m] \in Texts /\ thread[m] = "working"
      /\ text' = text /\ UNCHANGED <<calls, history, drafts>> /\ thread' = [thread EXCEPT ![m] = "none"]
  BY DEF Decide, ThreadEnds, Good, Stages
<1>1. kind \in Steps
  BY DispatchAssumption
<1>2. Effects(m, kind, s, "dispatch")
  BY <1>1, DoStepEffects
<1>3. /\ pc' = [pc EXCEPT ![m] = "answer"] /\ out' = [out EXCEPT ![m] = [keep |-> Accepted(s), status |-> o]]
      /\ facts' = [facts EXCEPT ![m] = Append(@, [step |-> kind, status |-> s])]
      /\ cause' = [cause EXCEPT ![m] = IF s = "already_running" THEN @ \cup {"joined"} ELSE @]
  BY DEF Answer, Note, Why
<1>4. \A x \in Messages \ {m} : Beside(x)
  BY <1>0, <1>2, <1>3, StartBeside DEF FlowType
<1>5. FlowType'
  <2>1. [step |-> kind, status |-> s] \in Fact /\ [keep |-> Accepted(s), status |-> o] \in Outcome
    BY <1>1 DEF Fact, Answers, Outcome, Accepted
  <2>2. pc' \in [Messages -> Phases] /\ out' \in [Messages -> Outcome]
    BY <1>3, <2>1 DEF FlowType, Phases
  <2>3. facts' \in [Messages -> Seq(Fact)]
    BY <1>3, <2>1 DEF FlowType
  <2>4. cause' \in [Messages -> SUBSET Causes]
    BY <1>3 DEF FlowType, Causes
  <2> QED
    BY <1>0, <2>2, <2>3, <2>4 DEF FlowType
<1>6. WorkType'
  BY <1>0, <1>2 DEF Effects, WorkKept, WorkType, drafts
<1>7. Good(m)'
  <2>0. /\ Way(m)' = "agent" /\ text'[m] \in Texts /\ thread'[m] = "none"
        /\ history' = history /\ pc'[m] = "answer" /\ out'[m] = [keep |-> Accepted(s), status |-> o]
    BY <1>0, <1>3 DEF FlowType, Way
  <2>1. Stages(m)'
    BY <2>0 DEF Stages
  <2>2. OnePicture(m)'
    <3>0. pictures[m] \in [tool : Nat, dispatch : Nat] /\ pictures[m].dispatch = 0
      BY <1>0 DEF Good, OnePicture, WorkType
    <3>1. kind = "image" => pictures[m].tool = 0
      BY <1>0, <3>0 DEF Good, OnePicture, Handled
    <3>2. pictures'[m] = pictures[m] \/ (kind = "image" /\ pictures'[m].dispatch = 1 /\ pictures'[m].tool = 0)
      BY <1>2, <3>0, <3>1 DEF Effects, WorkType
    <3> QED
      BY <2>0, <3>0, <3>2 DEF OnePicture
  <2>3. JobsKnown(m)'
    BY <2>0 DEF JobsKnown
  <2>4. Explained(m)'
    <3>1. CASE s = "already_running"
      BY <1>3, <2>0, <3>1 DEF Explained, FlowType
    <3>2. CASE s # "already_running"
      BY <1>2, <2>0, <3>2 DEF Explained, Effects
    <3> QED
      BY <3>1, <3>2
  <2> QED
    BY <2>1, <2>2, <2>3, <2>4 DEF Good
<1> QED
  BY <1>4, <1>5, <1>6, <1>7, BesideGood

LEMMA DecideStepStep ==
    ASSUME Dispatched, NEW m \in Messages, Decide(m)
    PROVE  Dispatched'
<1> USE DEF Dispatched
<1>0. /\ Good(m) /\ pc[m] = "agent" /\ Way(m) = "agent" /\ text[m] \in Texts /\ thread[m] = "working"
      /\ text' = text /\ UNCHANGED <<calls, history, drafts>> /\ thread' = [thread EXCEPT ![m] = "none"]
  BY DEF Decide, ThreadEnds, Good, Stages
<1>1. CASE \E kind \in Decisions :
             /\ kind \notin {"image", "review"} \cap Handled
             /\ \E s \in {"started", "already_running", "queued_after_rewrite", "queued_after_images", "rejected"} :
                  /\ DoStep(m, kind, s)
                  /\ Answer(m, Accepted(s), IF kind = "rewrite" /\ CurrentDraft = None THEN "failed" ELSE "completed")
                  /\ Note(m, kind, s) /\ Why(m, s)
  BY <1>1, DecidedJob
<1>2. CASE /\ UNCHANGED <<run, facts, work>>
           /\ \/ /\ Answer(m, TRUE, "completed")
                 /\ cause' = [cause EXCEPT ![m] = @ \cup {"trusted"}]
              \/ Answer(m, FALSE, "completed") /\ cause' = cause
              \/ pc' = [pc EXCEPT ![m] = "attachment"] /\ out' = out /\ cause' = cause
  <2>1. \A x \in Messages \ {m} : Beside(x)
    BY <1>0, <1>2, QuietBeside DEF FlowType, Answer
  <2>2. FlowType'
    <3>1. pc' \in [Messages -> Phases] /\ out' \in [Messages -> Outcome]
      <4>1. ASSUME NEW b \in BOOLEAN, Answer(m, b, "completed")
             PROVE pc' \in [Messages -> Phases] /\ out' \in [Messages -> Outcome]
        <5>1. [keep |-> b, status |-> "completed"] \in Outcome
          BY DEF Outcome
        <5> QED
          BY <4>1, <5>1 DEF FlowType, Answer, Phases
      <4> QED
        BY <1>2, <4>1 DEF FlowType, Phases
    <3>2. cause' \in [Messages -> SUBSET Causes]
      BY <1>2 DEF FlowType, Causes
    <3> QED
      BY <1>0, <1>2, <3>1, <3>2 DEF FlowType
  <2>3. WorkType'
    BY <1>0, <1>2 DEF WorkType, work, waits, drafts
  <2>4. /\ Way(m)' = "agent" /\ text'[m] \in Texts /\ thread'[m] = "none"
        /\ history' = history /\ pictures' = pictures
        /\ \/ pc'[m] = "answer" /\ out'[m].keep /\ cause'[m] # {}
           \/ pc'[m] = "answer" /\ ~out'[m].keep
           \/ pc'[m] = "attachment" /\ out'[m] = NoOut
    <3>1. out[m] = NoOut
      BY <1>0 DEF Good, Stages
    <3>2. /\ Way(m)' = "agent" /\ text'[m] \in Texts /\ thread'[m] = "none"
          /\ history' = history /\ pictures' = pictures
      BY <1>0, <1>2 DEF FlowType, Way, work
    <3>3. CASE Answer(m, TRUE, "completed") /\ cause' = [cause EXCEPT ![m] = @ \cup {"trusted"}]
      BY <3>2, <3>3 DEF FlowType, Answer
    <3>4. CASE Answer(m, FALSE, "completed") /\ cause' = cause
      BY <3>2, <3>4 DEF FlowType, Answer
    <3>5. CASE pc' = [pc EXCEPT ![m] = "attachment"] /\ out' = out
      BY <3>1, <3>2, <3>5 DEF FlowType
    <3> QED
      BY <1>2, <3>3, <3>4, <3>5
  <2>5. Good(m)'
    BY <1>0, <2>4 DEF Good, Stages, OnePicture, JobsKnown, Explained
  <2> QED
    BY <2>1, <2>2, <2>3, <2>5, BesideGood
<1> QED
  BY <1>1, <1>2 DEF Decide, DecideStep, result

-----------------------------------------------------------------------------
(* The reports                                                             *)

\* What the end of a job may do to the messages.
Ended ==
    /\ \A k \in jobs' : IsJob(k)
    /\ wait' \in [Drafts -> Waiting]
    /\ run' \in [Messages -> {"none", "running", "completed", "failed"}]
    /\ status' \in [Drafts -> Statuses] /\ active' \in Drafts \cup {None}
    /\ \A x \in Messages : /\ Outstanding(x)' => Outstanding(x)
                           /\ run'[x] = "running" => run[x] = "running" /\ (Reported(x) => Reported(x)')

LEMMA RunEnds ==
    ASSUME WorkType, NEW r \in Messages \cup {Own}, NEW statuses \in SUBSET {"completed", "failed"},
           Closes(r, statuses) \/ Finalizes(r) \/ UNCHANGED run
    PROVE  /\ run' \in [Messages -> {"none", "running", "completed", "failed"}]
           /\ \A x \in Messages : run'[x] = "running" => run[x] = "running"
           /\ r \in Messages /\ (Closes(r, statuses) \/ Finalizes(r)) => run'[r] # "running"
BY DispatchAssumption DEF WorkType, Closes, Finalizes

\* A job that starts nothing: who counted on it is told that it is lost.
LEMMA LosesReports ==
    ASSUME WorkType, NEW j \in jobs, NEW d, NEW r, jobs' = jobs \ {j}, wait' = wait, Loses(jobs', d, r),
           j.kind \in {"rewrite", "image"} => d = j.draft, NEW x \in Messages, Reported(x),
           j.run = x => r = x \/ \E k \in jobs' : k.run = x
    PROVE  Reported(x)'
<1>1. /\ lost[x] \subseteq lost'[x]
      /\ x = r => lost'[x] # {}
      /\ d # None /\ wait[d].run = x /\ Writers(jobs', d) = {} => lost'[x] # {}
  BY DEF Loses, Losing
<1>2. CASE lost[x] # {}
  BY <1>1, <1>2 DEF Reported
<1>3. CASE Holders(x) # {}
  <2>1. PICK k \in jobs : k.run = x
    BY <1>3 DEF Holders
  <2>2. CASE k \in jobs'
    BY <2>1, <2>2 DEF Reported, Holders
  <2>3. CASE k = j
    BY <1>1, <2>1, <2>3 DEF Reported, Holders
  <2> QED
    BY <2>2, <2>3
<1>4. CASE Awaited(x)
  <2>1. PICK e \in Drafts : wait[e].run = x /\ Writers(jobs, e) # {}
    BY <1>4 DEF Awaited
  <2>2. CASE Writers(jobs', e) # {}
    BY <2>1, <2>2 DEF Reported, Awaited
  <2>3. CASE Writers(jobs', e) = {}
    <3>1. j \in Writers(jobs, e)
      BY <2>1, <2>3 DEF Writers
    <3>2. e = d /\ d # None
      BY <3>1, DispatchAssumption DEF Writers
    <3> QED
      BY <1>1, <2>1, <2>3, <3>2 DEF Reported
  <2> QED
    BY <2>2, <2>3
<1> QED
  BY <1>2, <1>3, <1>4 DEF Reported

\* A job whose end starts the review that waits for its draft.
LEMMA LaunchReports ==
    ASSUME WorkType, NEW j \in jobs, j.draft \in Drafts, Launches(jobs \ {j}, j.draft),
           NEW x \in Messages, lost[x] \subseteq lost'[x], Reported(x),
           j.run = x => lost'[x] # {} \/ \E k \in jobs \ {j} : k.run = x
    PROVE  Reported(x)'
<1> DEFINE d == j.draft
           next == New(jobs \ {j}, wait[d].run, wait[d].by, "review", d)
<1>1. /\ jobs' = IF wait[d] = NoWait THEN jobs \ {j} ELSE (jobs \ {j}) \cup {next}
      /\ wait' = [wait EXCEPT ![d] = NoWait] /\ next.run = wait[d].run
  BY NewJob DEF Launches
<1> HIDE DEF next
<1>2. CASE lost'[x] # {} \/ \E k \in jobs' : k.run = x
  BY <1>2 DEF Reported, Holders
<1>3. CASE Awaited(x)
  <2>1. PICK e \in Drafts : wait[e].run = x /\ Writers(jobs, e) # {}
    BY <1>3 DEF Awaited
  <2>2. CASE e = d
    <3>1. wait[d] # NoWait
      BY <2>1, <2>2, DispatchAssumption DEF NoWait
    <3> QED
      BY <1>1, <1>2, <2>1, <2>2, <3>1
  <2>3. CASE e # d
    <3>1. Writers(jobs, e) \subseteq Writers(jobs', e)
      BY <1>1, <2>3 DEF Writers
    <3>2. wait'[e].run = x
      BY <1>1, <2>1, <2>3 DEF WorkType
    <3> QED
      BY <2>1, <3>1, <3>2 DEF Reported, Awaited
  <2> QED
    BY <2>2, <2>3
<1> QED
  BY <1>1, <1>2, <1>3 DEF Reported, Holders

\* What is launched was waited for, and is no more.
LEMMA LaunchKept ==
    ASSUME WorkType, NEW j \in jobs, j.draft \in Drafts, Launches(jobs \ {j}, j.draft)
    PROVE  /\ \A k \in jobs' : IsJob(k)
           /\ wait' \in [Drafts -> Waiting]
           /\ \A x \in Messages : Outstanding(x)' => Outstanding(x)
<1> DEFINE d == j.draft
           next == New(jobs \ {j}, wait[d].run, wait[d].by, "review", d)
<1>1. /\ jobs' = IF wait[d] = NoWait THEN jobs \ {j} ELSE (jobs \ {j}) \cup {next}
      /\ wait' = [wait EXCEPT ![d] = NoWait]
      /\ next.run = wait[d].run /\ next.by = wait[d].by /\ next.kind = "review" /\ next.draft = d
  BY NewJob DEF Launches
<1> HIDE DEF next
<1>2. wait[d] # NoWait => wait[d].run \in Messages \cup {Own} /\ wait[d].by \in Messages
  BY DEF WorkType, Waiting
<1>3. \A k \in jobs' : IsJob(k)
  BY <1>1, <1>2 DEF WorkType, IsJob, Steps
<1>4. wait' \in [Drafts -> Waiting]
  BY <1>1 DEF WorkType, Waiting
<1>5. ASSUME NEW x \in Messages, Outstanding(x)' PROVE Outstanding(x)
  <2>1. \A e \in Drafts : wait'[e].by = x => wait[e].by = x
    BY <1>1, DispatchAssumption DEF WorkType, NoWait
  <2> QED
    BY <1>1, <1>5, <2>1 DEF Outstanding
<1> QED
  BY <1>3, <1>4, <1>5

\* Ends that start nothing.
LEMMA LeavesEnded ==
    ASSUME WorkType, NEW j \in jobs, jobs' = jobs \ {j}, wait' = wait,
           Reports(j) \/ RewriteFails(j) \/ Pictures(j),
           NEW r \in Messages \cup {None, Own}, NEW d \in {None, j.draft},
           j.kind \in {"rewrite", "image"} => d = j.draft,
           Loses(jobs', d, r) \/ (UNCHANGED lost /\ j.kind \notin {"rewrite", "image"}),
           \/ Closes(j.run, {"completed", "failed"})
           \/ UNCHANGED run /\ (r = j.run \/ Drawing(j.run, jobs') \/ (j.run # Own /\ run[j.run] # "running"))
               /\ Loses(jobs', d, r)
    PROVE  Ended
<1>0. IsJob(j) /\ None \notin Messages /\ Own \notin Messages
  BY DispatchAssumption DEF WorkType
<1>1. \A k \in jobs' : IsJob(k)
  BY DEF WorkType
<1>2. \A x \in Messages : Outstanding(x)' => Outstanding(x)
  BY DEF Outstanding
<1>3. status' \in [Drafts -> Statuses] /\ active' \in Drafts \cup {None}
  BY DEF Reports, RewriteFails, Pictures, WorkType, Statuses
<1>4. /\ run' \in [Messages -> {"none", "running", "completed", "failed"}]
      /\ \A x \in Messages : run'[x] = "running" => run[x] = "running"
  BY <1>0, RunEnds DEF IsJob
<1>5. ASSUME NEW x \in Messages, Reported(x), run'[x] = "running" PROVE Reported(x)'
  <2>1. j.run = x => Loses(jobs', d, r) /\ (r = x \/ \E k \in jobs' : k.run = x)
    BY <1>0, <1>5, RunEnds DEF IsJob, Drawing
  <2>2. CASE Loses(jobs', d, r)
    BY <1>5, <2>1, <2>2, LosesReports
  <2>3. CASE UNCHANGED lost /\ j.kind \notin {"rewrite", "image"} /\ j.run # x
    <3>1. \A e \in Drafts : Writers(jobs', e) = Writers(jobs, e)
      BY <2>3 DEF Writers
    <3> QED
      BY <1>5, <2>3, <3>1 DEF Reported, Holders, Awaited
  <2> QED
    BY <2>1, <2>2, <2>3
<1> QED
  BY <1>1, <1>2, <1>3, <1>4, <1>5 DEF Ended, WorkType

\* Ends that start the review that waits.
LEMMA LaunchEnded ==
    ASSUME WorkType, NEW j \in jobs, j.kind \in {"rewrite", "image"}, Rewrites(j) \/ Pictures(j),
           Launches(jobs \ {j}, j.draft),
           \/ Drawing(j.run, jobs \ {j}) /\ UNCHANGED <<run, lost>>
           \/ Finalizes(j.run) /\ UNCHANGED lost
           \/ Loses(jobs', None, j.run) /\ UNCHANGED run
    PROVE  Ended
<1>0. IsJob(j) /\ j.draft \in Drafts /\ j.run \in Messages \cup {Own}
  BY DEF WorkType, IsJob
<1>1. /\ \A k \in jobs' : IsJob(k)
      /\ wait' \in [Drafts -> Waiting]
      /\ \A x \in Messages : Outstanding(x)' => Outstanding(x)
  BY <1>0, LaunchKept
<1>2. status' \in [Drafts -> Statuses] /\ active' \in Drafts \cup {None}
  BY DEF Rewrites, Pictures, WorkType, Statuses
<1>3. /\ run' \in [Messages -> {"none", "running", "completed", "failed"}]
      /\ \A x \in Messages : run'[x] = "running" => run[x] = "running"
      /\ j.run \in Messages /\ Finalizes(j.run) => run'[j.run] # "running"
  BY <1>0, RunEnds
<1>4. ASSUME NEW x \in Messages, Reported(x), run'[x] = "running" PROVE Reported(x)'
  <2>1. lost[x] \subseteq lost'[x]
    BY DEF Loses, Losing
  <2>2. j.run = x => lost'[x] # {} \/ \E k \in jobs \ {j} : k.run = x
    BY <1>3, <1>4 DEF Drawing, Loses, Losing
  <2> QED
    BY <1>0, <1>4, <2>1, <2>2, LaunchReports
<1> QED
  BY <1>1, <1>2, <1>3, <1>4 DEF Ended

\* A rewrite that goes on with pictures.
LEMMA GoesOnEnded ==
    ASSUME WorkType, NEW j \in jobs, Rewrites(j),
           jobs' = (jobs \ {j}) \cup {New(jobs \ {j}, j.run, j.by, "image", j.draft)}, UNCHANGED <<run, waits>>
    PROVE  Ended
<1> DEFINE new == New(jobs \ {j}, j.run, j.by, "image", j.draft)
<1>0. IsJob(j) /\ j.draft \in Drafts /\ j.kind = "rewrite"
  BY DEF WorkType, IsJob, Rewrites
<1>1. new.run = j.run /\ new.by = j.by /\ new.kind = "image" /\ new.draft = j.draft
  BY NewJob
<1>2. jobs' = (jobs \ {j}) \cup {new} /\ wait' = wait /\ lost' = lost /\ run' = run
  BY DEF waits
<1> HIDE DEF new
<1>3. (\A k \in jobs' : IsJob(k)) /\ status' \in [Drafts -> Statuses] /\ active' \in Drafts \cup {None}
  BY <1>0, <1>1, <1>2 DEF WorkType, IsJob, Steps, Rewrites, Statuses
<1>4. \A x \in Messages : Outstanding(x)' => Outstanding(x)
  BY <1>1, <1>2 DEF Outstanding
<1>5. ASSUME NEW x \in Messages, Reported(x) PROVE Reported(x)'
  <2>1. \A e \in Drafts : Writers(jobs, e) # {} => Writers(jobs', e) # {}
    <3> SUFFICES ASSUME NEW e \in Drafts, NEW k \in jobs, k.draft = e, k.kind \in {"rewrite", "image"}
                 PROVE  \E i \in jobs' : i.draft = e /\ i.kind \in {"rewrite", "image"}
      BY DEF Writers
    <3> QED
      BY <1>1, <1>2
  <2>2. Holders(x) # {} => Holders(x)' # {}
    BY <1>1, <1>2 DEF Holders
  <2> QED
    BY <1>2, <1>5, <2>1, <2>2 DEF Reported, Awaited
<1> QED
  BY <1>2, <1>3, <1>4, <1>5 DEF Ended, WorkType

LEMMA JobEnds ==
    ASSUME WorkType, NEW j \in jobs, Reports(j) \/ RewriteFails(j) \/ Rewrites(j) \/ Pictures(j)
    PROVE  Ended
<1>0. IsJob(j) /\ j.run \in Messages \cup {None, Own}
  BY DEF WorkType, IsJob
<1> DEFINE rest == jobs \ {j}
<1>1. CASE Reports(j)
  <2>1. jobs' = rest /\ wait' = wait /\ j.kind \notin {"rewrite", "image"}
    BY <1>1 DEF Reports
  <2>2. CASE Closes(j.run, {"completed", "failed"}) /\ UNCHANGED lost
    BY <1>1, <2>1, <2>2, LeavesEnded
  <2>3. CASE Loses(jobs', None, j.run) /\ UNCHANGED run
    BY <1>0, <1>1, <2>1, <2>3, LeavesEnded
  <2> QED
    BY <1>1, <2>2, <2>3 DEF Reports
<1>2. CASE RewriteFails(j)
  <2>1. jobs' = rest /\ wait' = wait
    BY <1>2 DEF RewriteFails
  <2>2. CASE Closes(j.run, {"completed", "failed"}) /\ Loses(jobs', j.draft, None)
    BY <1>2, <2>1, <2>2, LeavesEnded
  <2>3. CASE Loses(jobs', j.draft, j.run) /\ UNCHANGED run
    BY <1>0, <1>2, <2>1, <2>3, LeavesEnded
  <2>4. Closes(j.run, {"failed"}) \/ Closes(j.run, {"completed"}) => Closes(j.run, {"completed", "failed"})
    BY DEF Closes
  <2> QED
    BY <1>2, <2>2, <2>3, <2>4 DEF RewriteFails
<1>3. CASE Rewrites(j)
  <2>1. CASE jobs' = rest \cup {New(rest, j.run, j.by, "image", j.draft)} /\ UNCHANGED <<run, waits>>
    BY <1>3, <2>1, GoesOnEnded
  <2>2. CASE /\ Launches(rest, j.draft)
             /\ \/ Drawing(j.run, rest) /\ UNCHANGED <<run, lost>>
                \/ Finalizes(j.run) /\ UNCHANGED lost
                \/ Loses(jobs', None, j.run) /\ UNCHANGED run
    BY <1>3, <2>2, LaunchEnded DEF Rewrites
  <2> QED
    BY <1>3, <2>1, <2>2 DEF Rewrites
<1>4. CASE Pictures(j)
  <2>1. CASE Launches(rest, j.draft) /\ Finalizes(j.run) /\ UNCHANGED lost
    BY <1>4, <2>1, LaunchEnded DEF Pictures
  <2>2. CASE /\ jobs' = rest /\ wait' = wait /\ run' = run /\ Loses(rest, j.draft, None)
             /\ Drawing(j.run, rest) \/ (j.run # Own /\ run[j.run] # "running")
    BY <1>4, <2>2, LeavesEnded
  <2>3. CASE jobs' = rest /\ wait' = wait /\ run' = run /\ Loses(rest, j.draft, j.run)
    BY <1>0, <1>4, <2>3, LeavesEnded
  <2> QED
    BY <1>4, <2>1, <2>2, <2>3 DEF Pictures
<1> QED
  BY <1>1, <1>2, <1>3, <1>4

LEMMA ReportStep ==
    ASSUME Dispatched, NEW j \in jobs, Report(j)
    PROVE  Dispatched'
<1> USE DEF Dispatched
<1>1. UNCHANGED <<flow, result, agent, pictures, refs>> /\ Ended
  BY JobEnds DEF Report
<1>2. FlowType'
  BY <1>1 DEF FlowType, flow, result, agent
<1>3. WorkType'
  BY <1>1 DEF WorkType, Ended
<1>4. \A x \in Messages : Beside(x)
  BY <1>1 DEF Beside, Ended, flow, result, agent
<1> QED
  BY <1>2, <1>3, <1>4, BesideGood

-----------------------------------------------------------------------------
(* What a dispatch promises, for any constants                             *)

LEMMA DispatchedInit ==
    ASSUME Init PROVE Dispatched
<1>1. FlowType
  BY DEF Init, FlowType, NoText, NoOut, Text, Phases, Outcome, Fact, Causes, Commands, Steps
<1>2. WorkType
  BY DEF Init, WorkType, Statuses, Waiting
<1>3. ASSUME NEW m \in Messages PROVE Good(m)
  <2>1. ~Outstanding(m)
    BY DispatchAssumption DEF Init, Outstanding, NoWait
  <2> QED
    BY <1>3, <2>1 DEF Init, Good, Stages, OnePicture, JobsKnown, Explained, Untouched, NoPictures, NoOut
<1> QED
  BY <1>1, <1>2, <1>3 DEF Dispatched

LEMMA DispatchedStep ==
    ASSUME Dispatched, [Next]_vars PROVE Dispatched'
<1>1. CASE \E m \in Messages : Dispatch(m)
  BY <1>1, BeginStep, EndStep, CommandStep, PlanStepStep, ToolCallStep, DecideStepStep DEF Dispatch
<1>2. CASE \E j \in jobs : Report(j)
  BY <1>2, ReportStep
<1>3. CASE UNCHANGED vars
  <2>1. \A x \in Messages : Beside(x)
    BY <1>3, QuietBeside DEF vars, flow, result, agent
  <2> QED
    BY <1>3, <2>1, BesideGood DEF Dispatched, FlowType, WorkType, vars, flow, result, agent, work, waits, drafts
<1> QED
  BY <1>1, <1>2, <1>3 DEF Next

LEMMA AlwaysDispatched == Spec => []Dispatched
BY DispatchedInit, DispatchedStep, PTL DEF Spec

\* However often the agent's tools are called: the steps of a plan and the
\* decision never add a picture to those of the tools, nor make two
\* (content_deep_agent.py:118, chat_dispatch.py).
THEOREM OnePictureAMessage == Spec => []NoSecondPicture
<1>1. Dispatched => NoSecondPicture
  BY DEF Dispatched, Good, OnePicture, NoSecondPicture
<1> QED
  BY <1>1, AlwaysDispatched, PTL

\* A run that the dispatch of a plan closed as completed has left no job and no
\* pending review behind it, whichever run they report to; a command only with
\* the answers queued_after_rewrite and already_running (chat_dispatch.py:515,
\* 597, draft_actions.py).
THEOREM ClosedRunsAreDone == Spec => []CompletedMeansDone
<1>1. Dispatched => CompletedMeansDone
  <2> SUFFICES ASSUME Dispatched, NEW m \in Messages, ClosedByDispatch(m), Outstanding(m)
               PROVE  Way(m) = "command" /\ Done(m, text[m].command, {"queued_after_rewrite", "already_running"})
    BY DEF CompletedMeansDone, Way
  <2> QED
    BY DEF Dispatched, Good, JobsKnown, ClosedByDispatch, Way
<1> QED
  BY <1>1, AlwaysDispatched, PTL

\* A run that its dispatch left open has a job or a review that will report to
\* it, or one of the named reasons to have none: what its dispatch joined,
\* trusted or was interrupted in, or what others made it lose.
THEOREM NobodyLeftAlone == Spec => []LeftAlone
<1>1. Dispatched => LeftAlone
  BY DEF Dispatched, Good, Explained, Reported, LeftAlone
<1> QED
  BY <1>1, AlwaysDispatched, PTL
=============================================================================
