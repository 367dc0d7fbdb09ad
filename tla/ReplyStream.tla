----------------------------- MODULE ReplyStream -----------------------------
(***************************************************************************)
(* How the reply of one run reaches the page of its conversation: what the *)
(* worker streams through Redis (services/reply_stream.py), the server's   *)
(* event stream that reads it (routes._chat_run_event_stream), the polling *)
(* of the page (App.tsx) and what is finally stored.                       *)
(*                                                                         *)
(* The run goes one of two ways: the dispatch answers it (kind "chat"), or *)
(* hands it on to a job that writes articles ("draft") and reports         *)
(* ("report").  The look of the agent and the writing run in threads that  *)
(* go on when they are no longer waited for.  Every call of Redis may      *)
(* fail, a request may be lost, the connection may break.                  *)
(***************************************************************************)
EXTENDS Naturals, Sequences, FiniteSets

CONSTANTS MaxFrames,  \* bound: pieces and resets the run streams
          MaxFaults,  \* bound: calls that fail
          MaxRequests \* bound: reloads of the page under way together

ASSUME StreamAssumption == {MaxFrames, MaxFaults, MaxRequests} \subseteq Nat

Kinds == {"chat", "draft", "report"}
Writers == {"look", "write", "main"}
Streams == Kinds \cup {"buffer"}     \* the page also keeps what came from the buffer

VARIABLES
    pc,       \* the worker: where the run is
    thread,   \* the threads of the look and of the writing
    hand,     \* per writer: the frame it is publishing
    closed,   \* publishers that have sent their last frame
    buffer,   \* the texts kept in Redis for a reader that comes late
    frames,   \* pieces and resets so far
    late,     \* pieces of the dispatch that went out after its last frame
    status,   \* the row of the run
    point,    \* what its response_message_id points at
    messages, \* the messages of the conversation
    reader,   \* the event stream of the server
    queue,    \* frames on their way to it
    emitted,  \* the text it has sent
    bubble,   \* the page: per kind the text it shows as being written
    shown,    \* the page: the conversation as it was last loaded
    asks,     \* the page: its requests; two that have read the same are one
    due,      \* the page: a reload was asked for
    faults    \* calls that failed so far

worker == <<pc, thread, closed, frames>>
redis  == <<hand, buffer, late, queue>>
stored == <<status, point, messages>>
server == <<reader, emitted>>
page   == <<shown, asks, due>>
vars   == <<worker, redis, stored, server, bubble, page, faults>>

NoFrame == [kind |-> "chat", what |-> "none", n |-> 0, at |-> "idle"]
Frame(kind, what, n) == [kind |-> kind, what |-> what, n |-> n, at |-> "checked"]
Full(kind) == << <<kind, 0>> >>       \* a whole text
TextOf(f) == CASE f.what = "piece" -> << <<f.kind, f.n>> >>
               [] f.what = "done" /\ f.n = 1 -> Full(f.kind)
               [] OTHER -> << >>
NoBubble == [k \in Streams |-> << >>]
Asked == [at |-> "asked", messages |-> {}, status |-> "running"]

Init ==
    /\ pc = "look" /\ thread = [look |-> "running", write |-> "none"]
    /\ hand = [w \in Writers |-> NoFrame] /\ closed = {} /\ buffer = << >> /\ frames = 0 /\ late = 0
    /\ status = "running" /\ point = "receipt" /\ messages = {"receipt"}
    /\ reader = [at |-> "off", subscribed |-> FALSE, end |-> "none"]
    /\ queue = << >> /\ emitted = << >> /\ bubble = NoBubble
    /\ shown = [state |-> "closed", messages |-> {}] /\ asks = {} /\ due = FALSE
    /\ faults = 0

May == faults < MaxFaults
Fault == May /\ faults' = faults + 1
Free(w) == hand[w].at = "idle"
-----------------------------------------------------------------------------
(* Publishing *)

Kind(w) == CASE w = "look" -> "chat" [] w = "write" -> "draft" [] OTHER -> IF pc = "report" THEN "report" ELSE "chat"
Works(w) == IF w = "main" THEN pc \in {"decided", "report"} ELSE thread[w] \in {"running", "late"}
OpenAlways(kind) == TRUE
Open(kind) == kind \notin closed

\* StreamPublisher.delta: looks whether the stream is closed, then publishes.
Delta(w) ==
    /\ Works(w) /\ Free(w) /\ Open(Kind(w)) /\ frames < MaxFrames
    /\ frames' = frames + 1 /\ hand' = [hand EXCEPT ![w] = Frame(Kind(w), "piece", frames + 1)]
    /\ UNCHANGED <<pc, thread, closed, buffer, late, queue, stored, server, bubble, page, faults>>

\* StreamPublisher.reset, before each article.
Reset ==
    /\ Works("write") /\ Free("write") /\ frames < MaxFrames
    /\ frames' = frames + 1 /\ hand' = [hand EXCEPT !["write"] = Frame("draft", "reset", 0)]
    /\ UNCHANGED <<pc, thread, closed, buffer, late, queue, stored, server, bubble, page, faults>>

\* publish, first call: a piece is appended to the buffer, a last text replaces it.
Keep(w) ==
    LET f == hand[w] IN
    /\ f.at = "checked"
    /\ buffer' = CASE TextOf(f) = << >> -> buffer
                   [] f.what = "done" -> TextOf(f)
                   [] OTHER -> buffer \o TextOf(f)
    /\ hand' = [hand EXCEPT ![w].at = "kept"]
    /\ UNCHANGED <<worker, late, queue, stored, server, bubble, page, faults>>

\* The last frame of the dispatch has gone out.
LastSent == "chat" \in closed /\ ~(hand["main"].kind = "chat" /\ hand["main"].at \in {"checked", "kept"})
After(w) == IF hand[w].what = "done" THEN [hand EXCEPT ![w].at = "sent"] ELSE [hand EXCEPT ![w] = NoFrame]

\* publish, second call: the frame goes to whoever has subscribed.
Publish(w) ==
    /\ hand[w].at = "kept" /\ hand' = After(w)
    /\ queue' = IF reader.subscribed THEN Append(queue, hand[w]) ELSE queue
    /\ late' = IF hand[w].what = "piece" /\ hand[w].kind = "chat" /\ LastSent THEN late + 1 ELSE late
    /\ UNCHANGED <<worker, buffer, stored, server, bubble, page, faults>>

\* A call that fails is logged; the rest of the frame is given up.
PublishFails(w) ==
    /\ hand[w].at \in {"checked", "kept"} /\ Fault /\ hand' = After(w)
    /\ UNCHANGED <<worker, buffer, late, queue, stored, server, bubble, page>>

\* clear_buffer, right after the last frame.
Clear ==
    /\ hand["main"].at = "sent" /\ hand' = [hand EXCEPT !["main"] = NoFrame]
    /\ \/ buffer' = << >> /\ UNCHANGED faults
       \/ Fault /\ UNCHANGED buffer
    /\ UNCHANGED <<worker, late, queue, stored, server, bubble, page>>

\* BUFFER_TTL_SECONDS after the last piece.
Expire ==
    /\ buffer # << >> /\ \A w \in Writers : Free(w) /\ buffer' = << >>
    /\ UNCHANGED <<worker, hand, late, queue, stored, server, bubble, page, faults>>

\* StreamPublisher.done.
Done(kind, n) == closed' = closed \cup {kind} /\ hand' = [hand EXCEPT !["main"] = Frame(kind, "done", n)]
-----------------------------------------------------------------------------
(* The worker *)

WorkerStep == UNCHANGED <<buffer, late, queue, frames, server, bubble, page>>

\* ContentDeepAgent.resolve: the look ends, or is no longer waited for.
LookEnds ==
    /\ pc = "look" /\ pc' = "decided"
    /\ \/ Free("look") /\ thread' = [thread EXCEPT !["look"] = "ended"]
       \/ thread' = [thread EXCEPT !["look"] = "late"]
    /\ WorkerStep /\ UNCHANGED <<hand, closed, stored, faults>>

\* dispatch_chat_message: with an answer its text is the last frame; handed on,
\* or failed, the last frame is empty.
Decide ==
    /\ pc = "decided" /\ Free("main")
    /\ pc' \in {"answer", "hand", "fail"} /\ Done("chat", IF pc' = "answer" THEN 1 ELSE 0)
    /\ WorkerStep /\ UNCHANGED <<thread, stored, faults>>

\* append_run_reply and finish_chat_agent_run in one commit.
Store(reply) == status' = "over" /\ point' = reply /\ messages' = messages \cup {reply} /\ pc' = "end"

\* process_general_chat_job, with the answer that was streamed already.
Answer ==
    /\ pc = "answer" /\ Free("main")
    /\ \/ Store("chat") /\ UNCHANGED faults
       \/ Fault /\ pc' = "fail" /\ UNCHANGED stored
    /\ WorkerStep /\ UNCHANGED <<thread, hand, closed>>

\* The job of the run begins; it writes in a thread.
HandOn ==
    /\ pc = "hand" /\ Free("main") /\ pc' = "write" /\ thread' = [thread EXCEPT !["write"] = "running"]
    /\ WorkerStep /\ UNCHANGED <<hand, closed, stored, faults>>

\* The articles are written, or the job is cancelled and its thread goes on.
Write ==
    /\ pc = "write"
    /\ \/ Free("write") /\ pc' = "report" /\ thread' = [thread EXCEPT !["write"] = "ended"]
       \/ pc' = "fail" /\ thread' = [thread EXCEPT !["write"] = "late"]
    /\ WorkerStep /\ UNCHANGED <<hand, closed, stored, faults>>

\* _compose_report ends with the whole text, streamed or not.
Report ==
    /\ pc = "report" /\ Free("main") /\ pc' = "finish" /\ Done("report", 1)
    /\ WorkerStep /\ UNCHANGED <<thread, stored, faults>>

\* process_collection_finalizer.
Finish ==
    /\ pc = "finish" /\ Free("main") /\ Store("report")
    /\ WorkerStep /\ UNCHANGED <<thread, hand, closed, faults>>

\* _finish_failed_run: a message of its own, which the run does not point at.
Fail ==
    /\ pc = "fail" /\ Free("main") /\ pc' = "end"
    /\ status' = "over" /\ messages' = messages \cup {"failure"} /\ UNCHANGED point
    /\ WorkerStep /\ UNCHANGED <<thread, hand, closed, faults>>
-----------------------------------------------------------------------------
(* The event stream of the server *)

Off == [at |-> "off", subscribed |-> FALSE, end |-> "none"]

\* The page: a delta extends the text of its kind, a reset empties it.
Grown(b, kind, text) == [b EXCEPT ![kind] = @ \o text]

\* What the buffer holds is sent as one delta of the kind "buffer".
ReadBuffer ==
    /\ reader.at = "open" /\ reader' = [reader EXCEPT !.at = "read"]
    /\ \/ /\ emitted' = buffer /\ bubble' = Grown(bubble, "buffer", buffer) /\ UNCHANGED faults
       \/ Fault /\ UNCHANGED <<emitted, bubble>>
    /\ UNCHANGED <<worker, redis, stored, page>>

\* Only now it subscribes; without Redis it goes on by polling alone.
Subscribe ==
    /\ reader.at = "read"
    /\ \/ reader' = [reader EXCEPT !.at = "on", !.subscribed = TRUE] /\ UNCHANGED faults
       \/ Fault /\ reader' = [reader EXCEPT !.at = "on"]
    /\ UNCHANGED <<worker, redis, stored, emitted, bubble, page>>

\* A frame of the queue, as the page shows it: a last text comes as a delta first.
Told(b, f) == CASE f.what = "reset" -> [b EXCEPT ![f.kind] = << >>]
                [] f.what = "done" -> IF f.n = 1 THEN [b EXCEPT ![f.kind] = TextOf(f)] ELSE b
                [] OTHER -> Grown(b, f.kind, TextOf(f))
Sum(f) == IF f.what = "done" /\ f.n = 1 THEN TextOf(f) ELSE emitted \o TextOf(f)

FinalEmitted(text) == text
Final(text) == Full(point)

\* One round: a frame if there is one, then the row of the run, which alone
\* decides whether the stream ends, and with which text.
Round ==
    /\ reader.at = "on" /\ (queue # << >> \/ status = "over")
    /\ LET got  == queue # << >>
           text == IF got THEN Sum(Head(queue)) ELSE emitted
           next == IF got THEN Told(bubble, Head(queue)) ELSE bubble
           over == status = "over" IN
       /\ queue' = IF over THEN << >> ELSE IF got THEN Tail(queue) ELSE queue
       /\ emitted' = IF over THEN << >> ELSE text
       /\ bubble' = IF over THEN [next EXCEPT !["chat"] = Final(text)] ELSE next
       /\ due' = (due \/ over \/ (got /\ Head(queue).what = "done"))
       /\ reader' = IF over THEN [Off EXCEPT !.at = "ended", !.end = "run"] ELSE reader
    /\ UNCHANGED <<worker, hand, buffer, late, stored, shown, asks, faults>>

\* CHAT_STREAM_MAX_SECONDS: the stream ends with what it has sent.
Deadline ==
    /\ reader.at = "on" /\ reader' = [Off EXCEPT !.at = "ended", !.end = "timeout"]
    /\ bubble' = IF emitted = << >> THEN bubble ELSE [bubble EXCEPT !["chat"] = emitted]
    /\ due' = TRUE /\ queue' = << >> /\ emitted' = << >>
    /\ UNCHANGED <<worker, hand, buffer, late, stored, shown, asks, faults>>

\* The connection breaks: the page closes it and does not open another.
Break ==
    /\ reader.at \in {"open", "read", "on"} /\ Fault /\ reader' = [Off EXCEPT !.at = "ended", !.end = "broken"]
    /\ queue' = << >> /\ emitted' = << >>
    /\ UNCHANGED <<worker, hand, buffer, late, stored, bubble, page>>
-----------------------------------------------------------------------------
(* The page *)

Visit ==
    /\ shown.state = "closed" /\ shown' = [shown EXCEPT !.state = "blank"] /\ due' = TRUE
    /\ UNCHANGED <<worker, redis, stored, server, bubble, asks, faults>>

PollsNever == FALSE
Polls == shown.state = "running"

\* reload: every two seconds while the run is shown as running, and after a last frame.
Ask ==
    /\ due \/ Polls
    /\ Cardinality(asks) < MaxRequests /\ asks' = asks \cup {Asked} /\ due' = FALSE
    /\ UNCHANGED <<worker, redis, stored, server, bubble, shown, faults>>

\* get_chat_session reads the messages and then the runs, two statements.
Reads(r, read) ==
    /\ asks' = (asks \ {r}) \cup {read}
    /\ UNCHANGED <<worker, redis, stored, server, bubble, shown, due, faults>>
ReadMessages(r) == r.at = "asked" /\ Reads(r, [r EXCEPT !.at = "read", !.messages = messages])
ReadRuns(r) == r.at = "read" /\ Reads(r, [r EXCEPT !.at = "ready", !.status = status])

\* The answers come in any order.  A run that begins to be shown as running
\* opens an event stream, one that no longer is closes it; either way the
\* texts being written are dropped.
Respond(r) ==
    /\ r.at = "ready" /\ asks' = asks \ {r}
    /\ shown' = [state |-> r.status, messages |-> r.messages]
    /\ IF r.status = shown.state
       THEN UNCHANGED <<server, queue, bubble>>
       ELSE /\ reader' = [Off EXCEPT !.at = IF r.status = "running" THEN "open" ELSE "off"]
            /\ queue' = << >> /\ emitted' = << >> /\ bubble' = NoBubble
    /\ UNCHANGED <<worker, hand, buffer, late, stored, due, faults>>

Lose(r) ==
    /\ Fault /\ asks' = asks \ {r}
    /\ UNCHANGED <<worker, redis, stored, server, bubble, shown, due>>
-----------------------------------------------------------------------------
Work ==
    \/ \E w \in Writers : Delta(w) \/ Keep(w) \/ Publish(w) \/ PublishFails(w)
    \/ Reset \/ Clear \/ LookEnds \/ Decide \/ Answer \/ HandOn \/ Write \/ Report \/ Finish \/ Fail
Serve == ReadBuffer \/ Subscribe \/ Round
Load == \E r \in asks : ReadMessages(r) \/ ReadRuns(r) \/ Respond(r)
Next ==
    \/ Work \/ Expire \/ Serve \/ Deadline \/ Break \/ Visit \/ Ask \/ Load
    \/ \E r \in asks : Lose(r)

Spec == Init /\ [][Next]_vars

\* The job ends within its limit, the server's loop and the page's requests
\* and timer go on.  Nothing makes a user visit the page, or a call fail.
FairSpec ==
    /\ Spec /\ WF_vars(Work) /\ WF_vars(Serve) /\ WF_vars(Ask)
    /\ WF_vars(\E r \in asks : ReadMessages(r)) /\ WF_vars(\E r \in asks : ReadRuns(r))
    /\ WF_vars(\E r \in asks : Respond(r))
-----------------------------------------------------------------------------
(* Properties *)

TypeOK ==
    /\ pc \in {"look", "decided", "answer", "hand", "fail", "write", "report", "finish", "end"}
    /\ thread \in [{"look", "write"} -> {"none", "running", "late", "ended"}]
    /\ hand \in [Writers -> [kind : Kinds, what : {"none", "piece", "reset", "done"}, n : 0..MaxFrames + 1,
                             at : {"idle", "checked", "kept", "sent"}]]
    /\ closed \subseteq Kinds /\ frames \in 0..MaxFrames /\ late \in 0..MaxFrames /\ faults \in 0..MaxFaults
    /\ status \in {"running", "over"} /\ point \in {"receipt", "chat", "report"}
    /\ messages \subseteq {"receipt", "chat", "report", "failure"}
    /\ reader.at \in {"off", "open", "read", "on", "ended"} /\ reader.subscribed \in BOOLEAN
    /\ reader.end \in {"none", "run", "timeout", "broken"}
    /\ shown.state \in {"closed", "blank", "running", "over"} /\ shown.messages \subseteq messages
    /\ \A r \in asks : r.at \in {"asked", "read", "ready"} /\ r.messages \subseteq messages

\* A stream that ends because the run is over leaves the page with the stored
\* answer, whatever of it was lost, doubled, mixed with another text or sent
\* by a thread nobody waits for (routes.py:1055-1066, StreamPublisher.done).
EndsWithTheReply ==
    (reader.end = "run" /\ point # "receipt") => bubble["chat"] = Full(point)

\* The thread of a look that was given up can send one piece after the last
\* frame of the dispatch, the one for which it had already found the stream
\* open, and no second one (reply_stream.py:213, :228).
OnePieceLate == late <= 1

\* Once the run is over a page that shows it as running comes to show it as over, and keeps to it,
\* although answers overtake one another, requests are lost and the event
\* stream may have broken (App.tsx:321-325).
SpinnerStops == (status = "over" /\ shown.state = "running") ~> [](shown.state = "over")

\* Claims that do not hold.

\* "Polling still brings the final message" (App.tsx:327).
PollBringsTheReply == (status = "over" /\ shown.state = "running") ~> (messages \subseteq shown.messages)

\* "A reader that comes late is given the pieces it missed" (reply_stream.py:8).
NothingMissed == reader.at = "on" /\ pc = "decided" => \A k \in 1..frames :
    \/ \E w \in Writers : hand[w].n = k
    \/ <<"chat", k>> \in {emitted[i] : i \in 1..Len(emitted)} \cup {TextOf(queue[i])[1] : i \in 1..Len(queue)}

\* "Let the page drop the text" of a dispatch that handed its run on (chat_dispatch.py:875).
Dropped == (pc \in {"write", "report", "finish"} /\ reader.at = "on" /\ queue = << >> /\ late = 0) => bubble["chat"] = << >>

\* The stream "in the end always delivers the whole text" (routes.py:977).
EndsWithLastMessage == reader.end = "run" => point # "receipt"
=============================================================================
