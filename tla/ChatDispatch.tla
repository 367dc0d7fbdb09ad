---------------------------- MODULE ChatDispatch ----------------------------
(***************************************************************************)
(* One message of a chat session, from the route that stores and queues it *)
(* (routes.send_chat_message) to the job that recognises what is asked,    *)
(* does or hands on each step, and answers (worker.process_general_chat_   *)
(* job, services/chat_dispatch.py).  What cannot be recognised by rule is  *)
(* left to the conversation agent (agents/content_deep_agent.py), a thread *)
(* whose tools start the same jobs and which outlives its time limit.      *)
(*                                                                         *)
(* The jobs that are started are seen from here only as what they work on  *)
(* and the run they report to; RewriteReview and GenerationRun have them   *)
(* in detail.  A message is known by its run.                              *)
(***************************************************************************)
EXTENDS Naturals, Sequences, FiniteSets

CONSTANTS Messages,    \* messages of one session
          Drafts,      \* drafts they may be about
          Origins,     \* those with a generation record, which rewrites report to
          Texts,       \* what a message may say
          AgentTools,  \* tools the agent may call
          MaxCalls,    \* bound: tool calls of the agent for a message
          Decisions,   \* steps it may decide on
          None,        \* no draft, no run
          Own,         \* a run that a job opened for itself
          Failures,    \* whether calls and statements may fail
          Limits       \* whether jobs and the agent may run into their limits

Steps == {"collect", "image", "review", "deliver", "rewrite"}
Doing == {"decide", "reuse"}         \* commands that are carried out at once
Commands == (Steps \ {"collect"}) \cup Doing

\* The features of a text that the rules look at.
Text == [command : Commands \cup {"none"}, draft : Drafts \cup {None},
         attachment : {"none", "kept", "named", "extract"}, question : BOOLEAN, words : Seq(Steps)]

ASSUME DispatchAssumption ==
    /\ Origins \subseteq Drafts /\ None \notin Drafts \cup Messages /\ Own \notin Messages \cup {None}
    /\ Texts \subseteq Text /\ Decisions \subseteq Steps
    /\ \A t \in Texts : \A i, k \in DOMAIN t.words : t.words[i] = t.words[k] => i = k  \* _scan_steps
    /\ AgentTools \subseteq (Steps \ {"collect"}) \cup {"decide"} /\ MaxCalls \in Nat

VARIABLES
    text,    \* per message: what it says
    pc,      \* per message: where its dispatch is
    run,     \* per message: the status of its run
    out,     \* per message: the outcome its dispatch came to
    facts,   \* per message: the status of each step done so far
    told,    \* per message: steps whose result its answer names
    cause,   \* per message: why nobody may be left to report
    calls,   \* per message: number of tool calls of its agent
    thread,  \* per message: the thread of its agent
    history, \* tools in the checkpoint of the session
    pictures,\* per message: picture jobs made by tool calls and by its dispatch
    jobs,    \* jobs under way
    wait,    \* per draft: its pending review, the run it reports to and who asked
    lost,    \* per message: why what should report to its run may not
    claim,   \* per message: the draft its run has claimed, and whether it has a job
    kept,    \* drafts claimed by a run that a turned-away call opened for itself
    stale,   \* runs with a picture that has ended and whose row reads queued
    status,  \* per draft: its status
    active,  \* the current draft of the session
    refs,    \* drafts the session has used
    proc     \* per message: its extraction

flow   == <<text, pc, out>>
result == <<facts, told, cause>>
agent  == <<calls, thread, history>>
waits  == <<wait, lost>>
claims == <<claim, kept>>
work   == <<pictures, jobs, waits, claims, stale>>
drafts == <<status, active, refs>>
vars   == <<flow, run, result, agent, work, drafts, proc>>

\* A job reports to a run; by is the message it was asked for by, n tells
\* jobs apart that are otherwise the same.
IsJob(j) ==
    /\ j.run \in Messages \cup {Own} /\ j.by \in Messages /\ j.kind \in Steps
    /\ j.draft \in Drafts \/ (j.kind = "collect" /\ j.draft = None)
NoText == [command |-> "none", draft |-> None, attachment |-> "none", question |-> FALSE, words |-> << >>]
NoOut == [keep |-> FALSE, status |-> "none"]
NoWait == [run |-> None, by |-> None]

Init ==
    /\ text = [m \in Messages |-> NoText] /\ pc = [m \in Messages |-> "unsent"]
    /\ run = [m \in Messages |-> "none"] /\ out = [m \in Messages |-> NoOut]
    /\ facts = [m \in Messages |-> << >>] /\ told = [m \in Messages |-> {}]
    /\ cause = [m \in Messages |-> {}]
    /\ calls = [m \in Messages |-> 0] /\ thread = [m \in Messages |-> "none"] /\ history = {}
    /\ pictures = [m \in Messages |-> [tool |-> 0, dispatch |-> 0]] /\ jobs = {}
    /\ wait = [d \in Drafts |-> NoWait] /\ lost = [m \in Messages |-> {}]
    /\ claim = [m \in Messages |-> [draft |-> None, job |-> FALSE]] /\ kept = {} /\ stale = {}
    /\ status \in [Drafts -> {"editable", "ready"}] /\ active \in Drafts \cup {None}
    /\ refs = {}
    /\ proc = [m \in Messages |-> "none"]

---------------------------------------------------------------------------
(* Recognition by rule: a button's command, a plan of steps, or neither.   *)

\* Commands the receipt knows; the others fall back to the words.
Registered == {"review", "image", "deliver", "rewrite"}

\* A text as plan_chat_message reads it: its steps in the order of the words.
PlanOf(t) ==
    IF t.command \in Registered THEN <<t.command>>
    ELSE IF t.attachment \in {"named", "extract"} \/ t.question \/ t.words = << >> THEN <<"chat">>
    ELSE t.words

Multi(t) == t.command \notin Registered /\ Len(PlanOf(t)) > 1

WayOf(t) ==
    IF t.attachment = "extract" THEN "attachment"
    ELSE IF t.command # "none" THEN "command"
    ELSE IF Multi(t) THEN "plan" ELSE "agent"

---------------------------------------------------------------------------
(* The route.                                                              *)

\* The message, its receipt and its run are committed together.
Send(m) ==
    /\ pc[m] = "unsent"
    /\ \E t \in Texts : text' = [text EXCEPT ![m] = t]
    /\ pc' = [pc EXCEPT ![m] = "accepted"]
    /\ run' = [run EXCEPT ![m] = "running"]
    /\ UNCHANGED <<out, result, agent, work, drafts, proc>>

Enqueue(m) ==
    /\ pc[m] = "accepted"
    /\ pc' = [pc EXCEPT ![m] = "queued"]
    /\ UNCHANGED <<text, out, run, result, agent, work, drafts, proc>>

EnqueueFails(m) ==
    /\ Failures /\ pc[m] = "accepted"
    /\ pc' = [pc EXCEPT ![m] = "over"] /\ run' = [run EXCEPT ![m] = "failed"]
    /\ UNCHANGED <<text, out, result, agent, work, drafts, proc>>

---------------------------------------------------------------------------
(* Starting the job of a step, from the dispatch or from a tool.           *)

\* A run that has ended is not reused: the job opens one of its own.
RunOf(m) == IF run[m] = "running" THEN m ELSE Own

\* What is started or queued leaves events that name the draft.
Enters(s) == s \in {"started", "queued_after_images", "queued_after_rewrite"}

JobsOn(d, kind) == {j \in jobs : j.draft = d /\ j.kind = kind}
Writers(J, d) == {j \in J : j.draft = d /\ j.kind \in {"rewrite", "image"}}

New(J, r, m, kind, d) ==
    LET job(n) == [run |-> r, by |-> m, kind |-> kind, draft |-> d, n |-> n] IN
    job(CHOOSE n \in 0..Cardinality(J) : job(n) \notin J)

Add(m, r, kind, d) == jobs' = jobs \cup {New(jobs, r, m, kind, d)}

\* What a call on behalf of m may find that rewrites d: the claim of another
\* open run.  It is overlooked once it is too old or released; a run that a
\* job opened for itself, or the generation record, may have ended.
Claimants(d, m) == {x \in Messages \ {m} : claim[x].draft = d /\ run[x] = "running"}
MayFind(d, m) == Claimants(d, m) # {} \/ d \in kept \/ \E j \in JobsOn(d, "rewrite") : j.run = Own
MustFind(d, m) == Claimants(d, m) # {} /\ ~Limits

\* The wish is merged into the pending review that is there, or replaces it.
Pending(m, d, s) ==
    IF s = "already_running" THEN IF wait[d] = NoWait THEN [run |-> m, by |-> m] ELSE wait[d]
    ELSE [run |-> RunOf(m), by |-> m]

Losing(x, why, holds) == lost[x] \cup {y \in {why} : holds}

\* A review joins the one under way, or waits for a rewrite or for pictures,
\* which may not be there any more: a claim whose job has ended, a row that
\* reads queued.
StartReview(m, d, s) ==
    LET drawing == JobsOn(d, "image") # {} \/ \E p \in stale : p[2] = d
        next == Pending(m, d, s) IN
    /\ \/ JobsOn(d, "review") # {} /\ s = "already_running"
       \/ JobsOn(d, "review") = {} /\ MayFind(d, m) /\ s = "queued_after_rewrite"
       \/ JobsOn(d, "review") = {} /\ ~MustFind(d, m) /\ s = IF drawing THEN "queued_after_images" ELSE "started"
    /\ IF s = "started" THEN Add(m, RunOf(m), "review", d) /\ UNCHANGED waits
       ELSE /\ wait' = [wait EXCEPT ![d] = next]
            /\ lost' = [x \in Messages |->
                 Losing(x, "displaced", wait[d].run = x /\ next.run # x)
                   \cup Losing(x, "stranded", next.run = x /\ s # "already_running" /\ Writers(jobs, d) = {})]
            /\ UNCHANGED jobs
    /\ UNCHANGED <<run, pictures, claims, stale>>

\* A rewrite is refused when its run has one already or another open run has
\* claimed the draft.  The claim of a call that is refused stays with its
\* run.  With a generation record the run of the message is closed and the
\* job reports to the record.
StartRewrite(m, d, s) ==
    LET mine == run[m] = "running"
        again == mine /\ claim[m].job IN
    /\ \/ (again \/ MayFind(d, m)) /\ s = "already_running"
       \/ ~again /\ ~MustFind(d, m) /\ s = "started"
    /\ IF s = "already_running"
       THEN /\ claim' = [claim EXCEPT ![m].draft = IF mine /\ ~again /\ @ = None THEN d ELSE @]
            /\ kept' = IF mine THEN kept ELSE kept \cup {d}
            /\ UNCHANGED <<jobs, run>>
       ELSE /\ Add(m, IF d \in Origins THEN Own ELSE RunOf(m), "rewrite", d)
            /\ run' = IF d \in Origins /\ mine THEN [run EXCEPT ![m] = "completed"] ELSE run
            /\ claim' = IF mine THEN [claim EXCEPT ![m] = [draft |-> d, job |-> TRUE]] ELSE claim
            /\ UNCHANGED kept
    /\ UNCHANGED <<pictures, waits, stale>>

\* Nothing keeps a second picture from being made.
StartImage(m, d, s, who) ==
    /\ s = "started" /\ Add(m, RunOf(m), "image", d)
    /\ pictures' = [pictures EXCEPT ![m][who] = @ + 1]
    /\ UNCHANGED <<run, waits, claims, stale>>

StartDelivery(m, d, s) ==
    /\ \/ s = "started" /\ status[d] \in {"ready", "delivered"} /\ Add(m, RunOf(m), "deliver", d)
       \/ s = "failed" /\ Failures /\ status[d] \in {"ready", "delivered"} /\ UNCHANGED jobs
       \/ s = "rejected" /\ status[d] = "editable" /\ UNCHANGED jobs
    /\ UNCHANGED <<run, pictures, waits, claims, stale>>

StartCollection(m, s) ==
    /\ s = "started" /\ Add(m, m, "collect", None)
    /\ UNCHANGED <<run, pictures, waits, claims, stale>>

Refused(s) == s = "rejected" /\ UNCHANGED <<run, work>>

\* A step of the dispatch works on the current draft, if that is not closed.
CurrentDraft == IF active # None /\ status[active] \in {"editable", "ready"} THEN active ELSE None

DoStep(m, kind, s) ==
    IF kind = "collect" THEN StartCollection(m, s)
    ELSE IF CurrentDraft = None THEN Refused(s)
    ELSE \/ kind = "image" /\ StartImage(m, CurrentDraft, s, "dispatch")
         \/ kind = "review" /\ StartReview(m, CurrentDraft, s)
         \/ kind = "rewrite" /\ StartRewrite(m, CurrentDraft, s)
         \/ kind = "deliver" /\ StartDelivery(m, CurrentDraft, s)

\* A tool works on the draft it is given if the session has used it, or on the current one.
ToolDraft(d) == IF d = None THEN active ELSE IF d \in refs \cup {active} THEN d ELSE None
Allowed(kind) == CASE kind = "rewrite" -> {"editable"}
                   [] kind \in {"review", "image", "decide"} -> {"editable", "ready"}
                   [] OTHER -> {"editable", "ready", "delivered"}

Decided(d) == \E x \in {"editable", "ready", "closed"} : status' = [status EXCEPT ![d] = x]

UseTool(m, kind, on, s, who) ==
    IF on = None THEN Refused(s) /\ UNCHANGED status
    ELSE IF status[on] \notin Allowed(kind) THEN Refused(s) /\ UNCHANGED status
    ELSE \/ kind = "image" /\ StartImage(m, on, s, who) /\ UNCHANGED status
         \/ kind = "review" /\ StartReview(m, on, s) /\ UNCHANGED status
         \/ kind = "rewrite" /\ StartRewrite(m, on, s) /\ UNCHANGED status
         \/ kind = "deliver" /\ StartDelivery(m, on, s) /\ UNCHANGED status
         \/ kind = "decide" /\ s = "done" /\ Decided(on) /\ UNCHANGED <<run, work>>

---------------------------------------------------------------------------
(* The dispatch.                                                           *)

\* A job that finds its run closed leaves it alone.
Take(m) ==
    /\ pc[m] = "queued"
    /\ pc' = [pc EXCEPT ![m] = IF run[m] = "running" THEN WayOf(text[m]) ELSE "over"]
    /\ thread' = [thread EXCEPT ![m] = IF pc'[m] = "agent" THEN "working" ELSE @]
    /\ UNCHANGED <<text, out, run, result, calls, history, work, drafts, proc>>

Answer(m, keep, s) ==
    /\ pc' = [pc EXCEPT ![m] = "answer"]
    /\ out' = [out EXCEPT ![m] = [keep |-> keep, status |-> s]]

\* Why a run that is left open may have nobody to report to it.
Why(m, s) == cause' = [cause EXCEPT ![m] = IF s = "already_running" THEN @ \cup {"joined"} ELSE @]

Note(m, step, s) == facts' = [facts EXCEPT ![m] = Append(@, [step |-> step, status |-> s])]
Tell(m, steps) == told' = [told EXCEPT ![m] = steps]

\* An attachment is read, generated and saved by the pipeline; whatever
\* happens, its processing is closed.
Extract(m) ==
    /\ pc[m] = "attachment" /\ proc[m] # "processing"
    /\ proc' = [proc EXCEPT ![m] = "processing"]
    /\ UNCHANGED <<flow, run, result, agent, work, drafts>>

Extracted(m) ==
    /\ pc[m] = "attachment" /\ proc[m] = "processing"
    /\ \E ok \in {TRUE} \cup (IF Failures THEN {FALSE} ELSE {}) :
         /\ proc' = [proc EXCEPT ![m] = IF ok THEN "processed" ELSE "failed"]
         /\ Answer(m, FALSE, IF ok THEN "completed" ELSE "failed")
    /\ Tell(m, {"attachment"})
    /\ UNCHANGED <<text, run, facts, cause, agent, work, drafts>>

\* Mutant: what waits for pictures is handed on and what has started is not.
HandsOnWaiting(s) == s = "queued_after_images"

\* The statuses with which a command leaves its run to a job.
HandsOn(s) == s \in {"started", "queued_after_images"}

\* A command names its draft, which is adopted by the session.
Adopted(m) == LET d == text[m].draft IN IF d = None THEN active ELSE d

Reuse(d, s) ==
    /\ s \in IF d = None THEN {"rejected"} ELSE {"done", "rejected"}
    /\ UNCHANGED <<run, work, status>>

Command(m) ==
    /\ pc[m] = "command"
    /\ \E s \in {"started", "already_running", "queued_after_rewrite", "queued_after_images",
                 "failed", "rejected", "done"} :
         /\ IF text[m].command = "reuse" THEN Reuse(Adopted(m), s)
            ELSE UseTool(m, text[m].command, Adopted(m), s, "dispatch")
         /\ Answer(m, HandsOn(s), "completed")
         /\ Note(m, text[m].command, s)
         /\ Tell(m, IF HandsOn(s) THEN {} ELSE {text[m].command})
    /\ active' = IF text[m].draft # None /\ text[m].draft \notin refs THEN text[m].draft ELSE active
    /\ refs' = refs \cup ({text[m].draft} \ {None})
    /\ UNCHANGED <<text, cause, agent, proc>>

\* Mutant: a failed call of the delivery is taken for one that has started.
AcceptedFailed(s) == s \notin {"rejected", "folded"}

\* The statuses with which a step of a plan, or of a decision, leaves the run to a job.
Accepted(s) == s \in {"started", "queued_after_images", "queued_after_rewrite", "queued_after_review",
                      "already_running"}

Plan(m) == text[m].words
StepsOf(m) == {Plan(m)[n] : n \in DOMAIN Plan(m)}
Done(m, step, statuses) == \E n \in DOMAIN facts[m] : facts[m][n].step = step /\ facts[m][n].status \in statuses
Handed(fs) == \E n \in DOMAIN fs : Accepted(fs[n].status)

\* A review is folded into the collection before it, a delivery into the review before it.
Folded(m, step) ==
    \/ step = "review" /\ Done(m, "collect", {"started"})
    \/ step = "deliver" /\ \E n \in DOMAIN facts[m] : facts[m][n].step = "review" /\ Accepted(facts[m][n].status)

\* The steps are done in turn; the first one that is handed on ends the
\* plan, unless it is a picture with steps after it.
PlanStep(m) ==
    LET n == Len(facts[m]) + 1
        step == Plan(m)[n]
        last == n = Len(Plan(m)) IN
    /\ pc[m] = "plan"
    /\ \E s \in {"started", "already_running", "queued_after_rewrite", "queued_after_images",
                 "failed", "rejected", "folded"} :
         /\ IF Folded(m, step) THEN s = "folded" /\ UNCHANGED <<run, work>> ELSE DoStep(m, step, s)
         /\ Note(m, step, s) /\ Why(m, s)
         /\ LET ends == last \/ (Accepted(s) /\ step # "image")
                handed == Handed(facts'[m]) IN
            IF ends THEN /\ Answer(m, handed, "completed")
                         /\ Tell(m, IF handed THEN {} ELSE StepsOf(m))
                         /\ UNCHANGED text
            ELSE UNCHANGED <<flow, told>>
         /\ refs' = IF Enters(s) THEN refs \cup ({CurrentDraft} \ {None}) ELSE refs
    /\ UNCHANGED <<agent, status, active, proc>>

\* A run that was swept and whose record was deleted stops its plan before
\* the first step.
PlanStops(m) ==
    /\ pc[m] = "plan" /\ facts[m] = << >> /\ run[m] # "running"
    /\ Answer(m, TRUE, "completed")
    /\ UNCHANGED <<text, run, result, agent, work, drafts, proc>>

---------------------------------------------------------------------------
(* The agent of the conversation and what is made of its decision.         *)

\* A tool call of the agent's thread, also after the dispatch gave it up.
\* The checkpoint of the session keeps it; the same tool may be called again.
ToolCall(m) ==
    /\ thread[m] \in {"working", "late"}
    /\ calls[m] < MaxCalls /\ calls' = [calls EXCEPT ![m] = @ + 1]
    /\ \E kind \in AgentTools, d \in {None} \cup Drafts,
          s \in {"started", "already_running", "queued_after_rewrite", "queued_after_images",
                "failed", "rejected", "done"} :
         /\ UseTool(m, kind, ToolDraft(d), s, "tool")
         /\ history' = history \cup {kind}
         /\ refs' = IF Enters(s) THEN refs \cup {ToolDraft(d)} ELSE refs
    /\ UNCHANGED <<flow, result, thread, active, proc>>

ThreadEnds(m) == thread' = [thread EXCEPT ![m] = "none"] /\ UNCHANGED <<calls, history>>

\* Mutant: tool calls are not looked at.
HandledNothing == {}

\* The tools that are taken for called: those in the messages of the checkpoint.
Handled == history

\* What a decision comes to: a step is left to the tool that was called for
\* it, or done by the dispatch.
DecideStep(m, kind) ==
    \/ /\ kind \in {"image", "review"} \cap Handled
       /\ Answer(m, TRUE, "completed")
       /\ cause' = [cause EXCEPT ![m] = @ \cup {"trusted"}]
       /\ UNCHANGED <<run, facts, told, work>>
    \/ /\ kind \notin {"image", "review"} \cap Handled
       /\ \E s \in {"started", "already_running", "queued_after_rewrite", "queued_after_images", "rejected"} :
            /\ DoStep(m, kind, s)
            /\ Answer(m, Accepted(s), IF kind = "rewrite" /\ CurrentDraft = None THEN "failed" ELSE "completed")
            /\ Note(m, kind, s) /\ Why(m, s) /\ Tell(m, IF Accepted(s) THEN {} ELSE {kind})

Decide(m) ==
    /\ pc[m] = "agent" /\ thread[m] = "working" /\ ThreadEnds(m)
    /\ \/ \E kind \in Decisions : DecideStep(m, kind) /\ UNCHANGED proc
       \/ /\ Answer(m, FALSE, "completed") /\ Tell(m, {"chat"})
          /\ UNCHANGED <<run, facts, cause, work, proc>>
       \/ /\ text[m].attachment # "none" /\ pc' = [pc EXCEPT ![m] = "attachment"]
          /\ UNCHANGED <<run, out, result, work, proc>>
    /\ UNCHANGED <<text, drafts>>

\* An answer without a usable decision says that nothing was executed.
NothingDone(m) == Answer(m, FALSE, "failed") /\ Tell(m, {"nothing"})

AgentFails(m) ==
    /\ Failures /\ pc[m] = "agent" /\ thread[m] = "working"
    /\ ThreadEnds(m) /\ NothingDone(m)
    /\ UNCHANGED <<text, run, facts, cause, work, drafts, proc>>

\* The time limit ends the wait and not the thread.
AgentTimesOut(m) ==
    /\ Limits /\ pc[m] = "agent" /\ thread[m] = "working"
    /\ thread' = [thread EXCEPT ![m] = "late"]
    /\ NothingDone(m)
    /\ UNCHANGED <<text, run, facts, cause, calls, history, work, drafts, proc>>

LateThreadEnds(m) ==
    /\ thread[m] = "late" /\ ThreadEnds(m)
    /\ UNCHANGED <<flow, run, result, work, drafts, proc>>

---------------------------------------------------------------------------
(* The end of a dispatch.                                                  *)

\* The reply is appended and the run finished, whatever its status is by
\* now; or the run is left to the jobs.
Finish(m) ==
    /\ pc[m] = "answer"
    /\ pc' = [pc EXCEPT ![m] = "over"]
    /\ run' = IF out[m].keep THEN run ELSE [run EXCEPT ![m] = out[m].status]
    /\ UNCHANGED <<text, out, result, agent, work, drafts, proc>>

\* An exception closes the run as failed, with its text for a reply.
Raise(m) ==
    /\ Failures /\ pc[m] \in {"attachment", "command", "plan", "answer"}
    /\ pc' = [pc EXCEPT ![m] = "over"] /\ run' = [run EXCEPT ![m] = "failed"]
    /\ out' = [out EXCEPT ![m] = [keep |-> FALSE, status |-> "failed"]]
    /\ UNCHANGED <<text, result, agent, work, drafts, proc>>

\* A dispatch that is cancelled, or a route that ends before it has queued
\* the message, leaves the run open: CancelledError is no Exception.
Cancel(m) ==
    /\ Limits /\ pc[m] \in {"accepted", "command", "plan", "agent", "answer"}
    /\ pc' = [pc EXCEPT ![m] = "over"]
    /\ cause' = [cause EXCEPT ![m] = @ \cup {"interrupted"}]
    /\ thread' = [thread EXCEPT ![m] = IF @ = "working" THEN "late" ELSE @]
    /\ UNCHANGED <<text, out, run, facts, told, calls, history, work, drafts, proc>>

\* A worker that is restarted leaves its job to the queue, which runs it
\* again from the start (once for a message).
Restart(m) ==
    /\ pc[m] \in {"attachment", "command", "plan", "agent", "answer"}
    /\ "restarted" \notin cause[m]
    /\ pc' = [pc EXCEPT ![m] = "queued"]
    /\ facts' = [facts EXCEPT ![m] = << >>] /\ told' = [told EXCEPT ![m] = {}]
    /\ cause' = [cause EXCEPT ![m] = {"restarted"}]
    /\ thread' = [thread EXCEPT ![m] = "none"] /\ calls' = [calls EXCEPT ![m] = 0]
    /\ UNCHANGED <<text, out, run, history, work, drafts, proc>>

---------------------------------------------------------------------------
(* The jobs, as far as a message sees them.                                *)

Holders(r) == {j \in jobs : j.run = r}
Awaited(r) == \E d \in Drafts : wait[d].run = r /\ Writers(jobs, d) # {}

\* What an end with nothing started loses: the report to the run r, and the
\* review of d that waits when nothing is left that could start it.
Loses(J, d, r) ==
    lost' = [x \in Messages |-> Losing(x, "unreported", x = r)
               \cup Losing(x, "stranded", d # None /\ wait[d].run = x /\ Writers(J, d) = {})]

\* Most jobs close their run, whatever it is by now.
Closes(r, statuses) ==
    \E s \in statuses : run' = IF r = Own THEN run ELSE [run EXCEPT ![r] = s]

\* Finalizers close a run that is open and start what waits for the draft.
Finalizes(r) == run' = IF r # Own /\ run[r] = "running" THEN [run EXCEPT ![r] = "completed"] ELSE run
Launches(J, d) ==
    /\ jobs' = IF wait[d] = NoWait THEN J ELSE J \cup {New(J, wait[d].run, wait[d].by, "review", d)}
    /\ wait' = [wait EXCEPT ![d] = NoWait]

\* A finalizer leaves a run alone while a picture of it is under way, and one
\* with a row that reads queued for ever.
Drawing(r, J) == r # Own /\ \E j \in J : j.run = r /\ j.kind = "image"
Stuck(r) == r # Own /\ \E p \in stale : p[1] = r

\* A review, a delivery, a collection.
Reports(j) ==
    /\ j.kind \in {"review", "deliver", "collect"} /\ jobs' = jobs \ {j}
    /\ \/ Closes(j.run, {"completed", "failed"}) /\ UNCHANGED lost
       \/ Failures /\ Loses(jobs', None, j.run) /\ UNCHANGED run
    /\ \/ UNCHANGED <<status, active>>
       \/ /\ j.kind = "review" /\ status[j.draft] = "editable"
          /\ status' = [status EXCEPT ![j.draft] = "ready"] /\ UNCHANGED active
       \/ /\ j.kind = "deliver" /\ status[j.draft] = "ready"
          /\ status' = [status EXCEPT ![j.draft] = "delivered"] /\ UNCHANGED active
       \/ /\ j.kind = "collect" /\ active' \in Drafts /\ UNCHANGED status
    /\ UNCHANGED <<wait, claims, stale>>

\* A rewrite that fails, or gives way to another one, starts nothing.
RewriteFails(j) ==
    /\ j.kind = "rewrite" /\ jobs' = jobs \ {j}
    /\ \/ Failures /\ Closes(j.run, {"failed"}) /\ Loses(jobs', j.draft, None)
       \/ MayFind(j.draft, j.run) /\ Closes(j.run, {"completed"}) /\ Loses(jobs', j.draft, None)
       \/ Failures /\ Loses(jobs', j.draft, j.run) /\ UNCHANGED run
    /\ UNCHANGED <<wait, claims, stale, status, active>>

\* One that writes goes on with the pictures it was asked for, or starts the
\* review that waits and leaves its run to the finalizer.
Rewrites(j) ==
    LET rest == jobs \ {j} IN
    /\ j.kind = "rewrite"
    /\ \/ jobs' = rest \cup {New(rest, j.run, j.by, "image", j.draft)} /\ UNCHANGED <<run, waits>>
       \/ /\ Launches(rest, j.draft)
          /\ \/ Drawing(j.run, rest) /\ UNCHANGED <<run, lost>>
             \/ ~Drawing(j.run, rest) /\ ~Stuck(j.run) /\ Finalizes(j.run) /\ UNCHANGED lost
             \/ (Failures \/ Stuck(j.run)) /\ Loses(jobs', None, j.run) /\ UNCHANGED run
    /\ claim' = IF j.run = Own THEN claim ELSE [claim EXCEPT ![j.run].draft = None]
    /\ status' = [status EXCEPT ![j.draft] = "editable"]
    /\ UNCHANGED <<kept, stale, active>>

\* A picture's finalizer looks only at the pictures of its own run: with none
\* left it closes the run and starts the review that waits, whoever else
\* writes; it leaves a run that is closed.  Its row may be set back to queued
\* by the call that enqueued it, and its finalizer may fail.
Pictures(j) ==
    LET rest == jobs \ {j}
        leaves == Drawing(j.run, rest) \/ (j.run # Own /\ run[j.run] # "running") IN
    /\ j.kind = "image"
    /\ \/ /\ leaves /\ jobs' = rest /\ Loses(rest, j.draft, None)
          /\ UNCHANGED <<run, wait, stale>>
       \/ /\ ~leaves /\ ~Stuck(j.run) /\ Launches(rest, j.draft) /\ Finalizes(j.run)
          /\ UNCHANGED <<lost, stale>>
       \/ /\ jobs' = rest /\ Loses(rest, j.draft, j.run) /\ UNCHANGED <<run, wait>>
          /\ \/ (Failures \/ Stuck(j.run)) /\ UNCHANGED stale
             \/ stale' = stale \cup {<<j.run, j.draft>>}
    /\ UNCHANGED <<claims, status, active>>

\* A job ends and reports.
Report(j) ==
    /\ Reports(j) \/ RewriteFails(j) \/ Rewrites(j) \/ Pictures(j)
    /\ UNCHANGED <<flow, result, agent, pictures, refs, proc>>

\* A run that has been open for longer than any job may take is closed.
Sweep(m) ==
    /\ Limits /\ run[m] = "running"
    /\ run' = [run EXCEPT ![m] = "failed"]
    /\ UNCHANGED <<flow, result, agent, work, drafts, proc>>

Dispatch(m) ==
    \/ Send(m) \/ Enqueue(m) \/ EnqueueFails(m) \/ Take(m)
    \/ Extract(m) \/ Extracted(m) \/ Command(m) \/ PlanStep(m) \/ PlanStops(m)
    \/ ToolCall(m) \/ Decide(m) \/ AgentFails(m) \/ AgentTimesOut(m) \/ LateThreadEnds(m)
    \/ Finish(m) \/ Raise(m) \/ Cancel(m) \/ Sweep(m)

Next == (\E m \in Messages : Dispatch(m)) \/ (\E j \in jobs : Report(j))

Spec == Init /\ [][Next]_vars

\* With restarts a dispatch is at least once, and neither NoSecondPicture nor
\* CompletedMeansDone holds: see the claims below.
RestartSpec == Init /\ [][Next \/ \E m \in Messages : Restart(m)]_vars

---------------------------------------------------------------------------
(* What a dispatch promises.                                               *)

\* The dispatch never makes a picture in addition to those of the agent's
\* tools, nor a second one: a decision that follows a tool call is not
\* carried out again.
NoSecondPicture ==
    \A m \in Messages : pictures[m].dispatch <= 1 /\ (pictures[m].tool = 0 \/ pictures[m].dispatch = 0)

\* What was asked for by a message and is still to be done, whoever's run it
\* reports to.
Outstanding(m) == (\E j \in jobs : j.by = m) \/ \E d \in Drafts : wait[d].by = m
ClosedByDispatch(m) ==
    /\ pc[m] = "over" /\ ~out[m].keep /\ out[m].status = "completed"
    /\ WayOf(text[m]) \in {"command", "plan"}

\* A command or plan whose run its dispatch closed as completed left nothing
\* to be done, except a command that is answered with a review that waits or
\* joins another one: of _step_outcome's five ways to be taken over, a command
\* knows two.
CompletedMeansDone ==
    \A m \in Messages : ClosedByDispatch(m) /\ Outstanding(m) =>
        WayOf(text[m]) = "command" /\ Done(m, text[m].command, {"queued_after_rewrite", "already_running"})

\* A run that its dispatch left open has a job that will report to it, or a
\* review that waits for a writer under way.  If it has neither, then it
\* joined the job of another run, the word of the agent was taken for a job,
\* or the dispatch was interrupted (cause); or another request took over its
\* review, its review waits for what has ended or failed, or a job ended
\* without its report (lost).
LeftAlone ==
    \A m \in Messages :
        pc[m] = "over" /\ run[m] = "running" => Holders(m) # {} \/ Awaited(m) \/ cause[m] # {} \/ lost[m] # {}

\* Claims the code does not keep.  With RestartSpec, "one message, one
\* execution, one result" (dispatch_chat_message) is not kept either.

\* "Either way somebody takes over" (_step_outcome): an open run has a reporter.
HandedOnHasJob ==
    \A m \in Messages : pc[m] = "over" /\ run[m] = "running" /\ "interrupted" \notin cause[m]
        => Holders(m) # {} \/ Awaited(m)

\* "From started and queued_after on the job closes the run" (_step_outcome):
\* a run that is closed leaves nothing to be done.
ClosedLeavesNothing == \A m \in Messages : ClosedByDispatch(m) => ~Outstanding(m)

\* An answer that nothing was executed is true when it is given and stays so.
NothingExecuted ==
    \A m \in Messages : pc[m] = "over" /\ told[m] = {"nothing"} /\ run[m] = "failed" => ~\E j \in jobs : j.by = m

\* Every step of a plan that was not handed on is answered for.
EveryStepAnswered ==
    \A m \in Messages : pc[m] = "over" /\ out[m].status = "completed" /\ WayOf(text[m]) = "plan" =>
        \A step \in StepsOf(m) :
            step \in told[m] \/ \E n \in DOMAIN facts[m] : facts[m][n].step = step /\ Accepted(facts[m][n].status)

\* The receipt names what the command does.
ReceiptNamesCommand ==
    \A m \in Messages : WayOf(text[m]) = "command" => PlanOf(text[m])[1] \in {"chat", text[m].command}
=============================================================================
