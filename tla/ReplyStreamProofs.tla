--------------------------- MODULE ReplyStreamProofs ---------------------------
(***************************************************************************)
(* Theorems about ReplyStream, for any number of frames, faults and        *)
(* requests: a stream that ends because the run is over leaves the stored  *)
(* answer on the page, and a thread that is no longer waited for sends at  *)
(* most one piece after the last frame of the dispatch.                    *)
(***************************************************************************)
EXTENDS ReplyStream, TLAPS

-----------------------------------------------------------------------------
(* Types                                                                   *)

Pcs       == {"look", "decided", "answer", "hand", "fail", "write", "report", "finish", "end"}
Messages  == {"receipt", "chat", "report", "failure"}
AFrame    == [kind : Kinds, what : {"none", "piece", "reset", "done"}, n : 0..MaxFrames + 1,
              at : {"idle", "checked", "kept", "sent"}]
AReader   == [at : {"off", "open", "read", "on", "ended"}, subscribed : BOOLEAN,
              end : {"none", "run", "timeout", "broken"}]
APage     == [state : {"closed", "blank", "running", "over"}, messages : SUBSET Messages]
ARequest  == [at : {"asked", "read", "ready"}, messages : SUBSET Messages, status : {"running", "over"}]

\* The worker and what it publishes.
WorkerType ==
    /\ pc \in Pcs
    /\ thread \in [{"look", "write"} -> {"none", "running", "late", "ended"}]
    /\ hand \in [Writers -> AFrame]
    /\ closed \subseteq Kinds /\ frames \in 0..MaxFrames /\ late \in Nat
    /\ status \in {"running", "over"} /\ point \in {"receipt", "chat", "report"}
    /\ messages \subseteq Messages
    /\ faults \in 0..MaxFaults

\* The server's stream and the page.
PageType ==
    /\ reader \in AReader
    /\ bubble = [k \in Streams |-> bubble[k]]
    /\ shown \in APage /\ shown.messages \subseteq messages
    /\ asks \subseteq ARequest /\ \A r \in asks : r.messages \subseteq messages

LEMMA TypeInit == Init => WorkerType /\ PageType
    BY StreamAssumption DEF Init, WorkerType, PageType, Pcs, Messages, AFrame, AReader, APage, ARequest,
        NoFrame, Kinds, Writers, NoBubble

\* What a hand may come to hold.
LEMMA FrameType ==
    ASSUME WorkerType
    PROVE  /\ NoFrame \in AFrame
           /\ \A k \in Kinds, n \in 0..MaxFrames + 1, x \in {"piece", "reset", "done"} : Frame(k, x, n) \in AFrame
           /\ \A w \in Writers : Kind(w) \in Kinds
           /\ \A w \in Writers : After(w) \in [Writers -> AFrame]
    <1>1. MaxFrames \in Nat
      BY StreamAssumption
    <1>2. NoFrame \in AFrame
      BY <1>1 DEF NoFrame, AFrame, Kinds
    <1>3. \A k \in Kinds, n \in 0..MaxFrames + 1, x \in {"piece", "reset", "done"} : Frame(k, x, n) \in AFrame
      BY DEF Frame, AFrame
    <1>4. \A w \in Writers : Kind(w) \in Kinds
      BY DEF Kind, Writers, Kinds
    <1>5. ASSUME NEW w \in Writers PROVE After(w) \in [Writers -> AFrame]
      <2>1. hand \in [Writers -> AFrame] /\ [hand[w] EXCEPT !.at = "sent"] \in AFrame
        BY DEF WorkerType, AFrame
      <2> QED
        BY <1>2, <2>1 DEF After
    <1> QED
      BY <1>2, <1>3, <1>4, <1>5

LEMMA WorkerTypeStep ==
    ASSUME WorkerType, [Next]_vars
    PROVE  WorkerType' /\ messages \subseteq messages'
    <1> USE DEF WorkerType, Messages
    <1> DEFINE Goal == WorkerType' /\ messages \subseteq messages'
    <1>0. MaxFrames \in Nat /\ MaxFaults \in Nat
      BY StreamAssumption
    <1>1. Fault => faults' \in 0..MaxFaults
      BY <1>0 DEF Fault, May
    <1>2. CASE UNCHANGED <<worker, hand, late, stored>> /\ (Fault \/ UNCHANGED faults)
      BY <1>1, <1>2 DEF worker, stored
    <1>3. ASSUME NEW w \in Writers, Delta(w) PROVE Goal
      BY <1>0, <1>3, FrameType DEF Delta, stored
    <1>4. ASSUME Reset PROVE Goal
      BY <1>0, <1>4, FrameType DEF Reset, stored, Writers, Kinds
    <1>5. ASSUME NEW w \in Writers, Keep(w) PROVE Goal
      <2>1. [hand[w] EXCEPT !.at = "kept"] \in AFrame
        BY DEF AFrame
      <2> QED
        BY <1>5, <2>1 DEF Keep, worker, stored
    <1>6. ASSUME NEW w \in Writers, Publish(w) \/ PublishFails(w) PROVE Goal
      <2>1. hand' \in [Writers -> AFrame] /\ late' \in Nat /\ faults' \in 0..MaxFaults
        BY <1>1, <1>6, FrameType DEF Publish, PublishFails
      <2> QED
        BY <1>6, <2>1 DEF Publish, PublishFails, worker, stored
    <1>7. ASSUME Clear PROVE Goal
      BY <1>1, <1>7, FrameType DEF Clear, worker, stored, Writers
    <1>8. ASSUME NEW k \in Kinds, NEW n \in {0, 1}, Done(k, n)
          PROVE  closed' \subseteq Kinds /\ hand' \in [Writers -> AFrame]
      <2>1. Frame(k, "done", n) \in AFrame
        BY <1>0, FrameType
      <2> QED
        BY <1>8, <2>1 DEF Done
    <1>9. ASSUME Decide \/ Report PROVE Goal
      BY <1>8, <1>9 DEF Decide, Report, WorkerStep, stored, Pcs, Kinds
    <1>10. ASSUME LookEnds \/ HandOn \/ Write PROVE Goal
      BY <1>10 DEF LookEnds, HandOn, Write, WorkerStep, stored, Pcs
    <1>11. ASSUME Answer \/ Finish \/ Fail PROVE Goal
      BY <1>1, <1>11 DEF Answer, Finish, Fail, Store, WorkerStep, stored, Pcs
    <1>12. ASSUME Expire \/ Serve \/ Deadline \/ Break \/ Visit \/ Ask PROVE Goal
      BY <1>2, <1>12 DEF Expire, Serve, ReadBuffer, Subscribe, Round, Deadline, Break, Visit, Ask, redis
    <1>13. ASSUME NEW r \in asks, ReadMessages(r) \/ ReadRuns(r) \/ Respond(r) \/ Lose(r) PROVE Goal
      BY <1>2, <1>13 DEF ReadMessages, ReadRuns, Reads, Respond, Lose, redis
    <1>14. CASE UNCHANGED vars
      BY <1>2, <1>14 DEF vars, redis
    <1> QED
      BY <1>3, <1>4, <1>5, <1>6, <1>7, <1>9, <1>10, <1>11, <1>12, <1>13, <1>14 DEF Next, Work, Load

LEMMA PageTypeStep ==
    ASSUME WorkerType, PageType, [Next]_vars
    PROVE  PageType'
    <1> USE DEF PageType
    <1>0. messages \subseteq messages' /\ messages \subseteq Messages /\ status \in {"running", "over"}
      BY WorkerTypeStep DEF WorkerType
    <1>1. CASE UNCHANGED <<reader, bubble, shown, asks>>
      BY <1>0, <1>1
    <1>2. ASSUME Work \/ Expire PROVE PageType'
      BY <1>1, <1>2 DEF Work, Delta, Keep, Publish, PublishFails, Reset, Clear, LookEnds, Decide, Answer,
        HandOn, Write, Report, Finish, Fail, Expire, WorkerStep, server, page
    <1>3. ASSUME Serve \/ Deadline \/ Break PROVE PageType'
      <2>1. reader' \in AReader
        BY <1>3 DEF Serve, ReadBuffer, Subscribe, Round, Deadline, Break, Off, AReader
      <2>2. bubble' = [k \in Streams |-> bubble'[k]]
        <3>1. \A f : Told(bubble, f) = [k \in Streams |-> Told(bubble, f)[k]]
          BY DEF Told, Grown
        <3>2. CASE ReadBuffer
          BY <3>2 DEF ReadBuffer, Grown
        <3>3. CASE Round
          <4> DEFINE next == IF queue # << >> THEN Told(bubble, Head(queue)) ELSE bubble
          <4>1. next = [k \in Streams |-> next[k]]
            BY <3>1
          <4>2. bubble' = next \/ \E x : bubble' = [next EXCEPT !["chat"] = x]
            BY <3>3 DEF Round
          <4> HIDE DEF next
          <4> QED
            BY <4>1, <4>2
        <3>4. CASE Deadline
          BY <3>4 DEF Deadline
        <3>5. CASE Subscribe \/ Break
          BY <3>5 DEF Subscribe, Break
        <3> QED
          BY <1>3, <3>2, <3>3, <3>4, <3>5 DEF Serve
      <2>3. UNCHANGED <<shown, asks>>
        BY <1>3 DEF Serve, ReadBuffer, Subscribe, Round, Deadline, Break, page
      <2> QED
        BY <1>0, <2>1, <2>2, <2>3
    <1>4. ASSUME Visit PROVE PageType'
      BY <1>0, <1>4 DEF Visit, APage, server
    <1>5. ASSUME Ask PROVE PageType'
      BY <1>0, <1>5 DEF Ask, Asked, ARequest, server
    <1>6. ASSUME NEW r \in asks, ReadMessages(r) \/ ReadRuns(r) PROVE PageType'
      <2>1. PICK read \in ARequest : /\ read.messages \subseteq messages
                                     /\ asks' = (asks \ {r}) \cup {read}
        <3>1. r \in ARequest /\ r.messages \subseteq messages
          OBVIOUS
        <3>2. CASE ReadMessages(r)
          BY <1>0, <3>1, <3>2 DEF ReadMessages, Reads, ARequest
        <3>3. CASE ReadRuns(r)
          BY <1>0, <3>1, <3>3 DEF ReadRuns, Reads, ARequest
        <3> QED
          BY <1>6, <3>2, <3>3
      <2>2. UNCHANGED <<reader, bubble, shown, messages>>
        BY <1>6 DEF ReadMessages, ReadRuns, Reads, server, stored
      <2> QED
        BY <2>1, <2>2
    <1>7. ASSUME NEW r \in asks, Respond(r) PROVE PageType'
      <2>1. r \in ARequest /\ r.messages \subseteq messages
        OBVIOUS
      <2>2. reader' \in AReader /\ bubble' = [k \in Streams |-> bubble'[k]]
        BY <1>7 DEF Respond, Off, AReader, NoBubble, server
      <2> QED
        BY <1>0, <1>7, <2>1, <2>2 DEF Respond, ARequest, APage
    <1>8. ASSUME NEW r \in asks, Lose(r) PROVE PageType'
      BY <1>0, <1>8 DEF Lose, server
    <1>9. CASE UNCHANGED vars
      BY <1>1, <1>9 DEF vars, server, page
    <1> QED
      BY <1>2, <1>3, <1>4, <1>5, <1>6, <1>7, <1>8, <1>9 DEF Next, Load

LEMMA Types == Spec => [](WorkerType /\ PageType)
    BY TypeInit, WorkerTypeStep, PageTypeStep, PTL DEF Spec

-----------------------------------------------------------------------------
(* One piece after the last frame                                          *)

HoldsPiece(w) == hand[w].what = "piece"

\* Who can hold a piece of the dispatch: the look, and the loop of the worker
\* only while it is deciding.  Its last frame goes out once it has decided.
\* A piece that was late is one the look held already.
Pieces ==
    /\ "chat" \in closed => pc \notin {"look", "decided"}
    /\ HoldsPiece("write") => hand["write"].kind = "draft"
    /\ HoldsPiece("main") /\ hand["main"].kind = "chat" => pc = "decided"
    /\ \A w \in Writers : HoldsPiece(w) => frames > 0
    /\ late > 0 => "chat" \in closed /\ ~HoldsPiece("look") /\ frames > 0
    /\ OnePieceLate

\* Every step outside the publishing leaves the hands alone.
LEMMA PiecesKept ==
    ASSUME WorkerType, Pieces, UNCHANGED <<hand, closed, frames, late>>, pc = "decided" => pc' = "decided",
           pc \notin {"look", "decided"} => pc' \notin {"look", "decided"}
    PROVE  Pieces'
    BY DEF Pieces, HoldsPiece, OnePieceLate

LEMMA PiecesStep ==
    ASSUME WorkerType, Pieces, [Next]_vars
    PROVE  Pieces'
    <1> USE DEF WorkerType, Pieces, HoldsPiece, OnePieceLate
    <1>1. ASSUME NEW w \in Writers, Delta(w) PROVE Pieces'
      <2>1. hand'[w] = Frame(Kind(w), "piece", frames + 1) /\ \A v \in Writers \ {w} : hand'[v] = hand[v]
        BY <1>1 DEF Delta
      <2>2. Kind(w) = "chat" => "chat" \notin closed
        BY <1>1 DEF Delta, Open
      <2>3. Works(w) /\ UNCHANGED <<pc, closed, late>> /\ frames' = frames + 1
        BY <1>1 DEF Delta
      <2>4. CASE w = "look"
        <3>1. Kind(w) = "chat"
          BY <2>4 DEF Kind
        <3>2. late = 0
          BY <2>2, <3>1
        <3> QED
          BY <2>1, <2>3, <2>4, <3>1, <3>2 DEF Frame, Writers
      <2>5. CASE w = "write"
        <3>1. Kind(w) = "draft"
          BY <2>5 DEF Kind
        <3> QED
          BY <2>1, <2>3, <2>5, <3>1 DEF Frame, Writers
      <2>6. CASE w = "main"
        <3>1. Kind(w) = "chat" => pc = "decided"
          BY <2>3, <2>6 DEF Kind, Works
        <3> QED
          BY <2>1, <2>3, <2>6, <3>1 DEF Frame, Writers
      <2> QED
        BY <2>4, <2>5, <2>6 DEF Writers
    <1>2. ASSUME Reset PROVE Pieces'
      BY <1>2 DEF Reset, Frame, Writers
    <1>3. ASSUME NEW w \in Writers, Keep(w) PROVE Pieces'
      <2>1. \A v \in Writers : hand'[v].what = hand[v].what /\ hand'[v].kind = hand[v].kind
        BY <1>3 DEF Keep, AFrame
      <2> QED
        BY <1>3, <2>1 DEF Keep, worker, Writers
    \* After a call of publish a piece is gone, and a last frame is no piece.
    <1>4. ASSUME NEW w \in Writers
          PROVE  /\ After(w)[w].what # "piece"
                 /\ \A v \in Writers \ {w} : After(w)[v] = hand[v]
      BY DEF After, NoFrame, AFrame
    <1>5. ASSUME NEW w \in Writers, Publish(w) PROVE Pieces'
      <2>1. CASE late' = late
        BY <1>4, <1>5, <2>1 DEF Publish, worker, Writers
      <2>2. CASE late' = late + 1 /\ hand[w].what = "piece" /\ hand[w].kind = "chat" /\ LastSent
        <3>1. "chat" \in closed
          BY <2>2 DEF LastSent
        <3>2. w = "look"
          BY <2>2, <3>1 DEF Writers
        <3>3. late = 0
          BY <2>2, <3>2
        <3> QED
          BY <1>4, <1>5, <2>2, <3>1, <3>2, <3>3 DEF Publish, worker, Writers
      <2> QED
        BY <1>5, <2>1, <2>2 DEF Publish
    <1>6. ASSUME NEW w \in Writers, PublishFails(w) PROVE Pieces'
      BY <1>4, <1>6 DEF PublishFails, worker, Writers
    <1>7. ASSUME Clear PROVE Pieces'
      BY <1>7 DEF Clear, NoFrame, worker, Writers
    <1>8. ASSUME Decide PROVE Pieces'
      <2>1. /\ pc' \in {"answer", "hand", "fail"} /\ UNCHANGED <<frames, late>>
            /\ closed' = closed \cup {"chat"}
            /\ hand'["main"].what = "done" /\ \A v \in Writers \ {"main"} : hand'[v] = hand[v]
        BY <1>8 DEF Decide, Done, Frame, WorkerStep, Writers
      <2> QED
        BY <2>1 DEF Writers
    <1>9. ASSUME Report PROVE Pieces'
      <2>1. /\ pc = "report" /\ pc' = "finish" /\ UNCHANGED <<frames, late>>
            /\ closed' = closed \cup {"report"}
            /\ hand'["main"].what = "done" /\ \A v \in Writers \ {"main"} : hand'[v] = hand[v]
        BY <1>9 DEF Report, Done, Frame, WorkerStep, Writers
      <2> QED
        BY <2>1 DEF Writers
    <1>10. ASSUME LookEnds PROVE Pieces'
      BY <1>10 DEF LookEnds, WorkerStep, Writers
    <1>11. ASSUME HandOn \/ Write \/ Answer \/ Finish \/ Fail PROVE Pieces'
      BY <1>11, PiecesKept DEF HandOn, Write, Answer, Finish, Fail, Store, WorkerStep
    <1>12. ASSUME Expire \/ Serve \/ Deadline \/ Break \/ Visit \/ Ask PROVE Pieces'
      BY <1>12, PiecesKept DEF Expire, Serve, ReadBuffer, Subscribe, Round, Deadline, Break, Visit, Ask, redis, worker
    <1>13. ASSUME NEW r \in asks, ReadMessages(r) \/ ReadRuns(r) \/ Respond(r) \/ Lose(r) PROVE Pieces'
      BY <1>13, PiecesKept DEF ReadMessages, ReadRuns, Reads, Respond, Lose, redis, worker
    <1>14. CASE UNCHANGED vars
      BY <1>14, PiecesKept DEF vars, redis, worker
    <1> QED
      BY <1>1, <1>2, <1>3, <1>5, <1>6, <1>7, <1>8, <1>9, <1>10, <1>11, <1>12, <1>13, <1>14 DEF Next, Work, Load

\* A look that was given up sends at most one piece after the last frame of
\* the dispatch: the one it held when the stream was closed.
THEOREM OneLate == Spec => []OnePieceLate
    <1>1. Init => Pieces
      BY DEF Init, Pieces, HoldsPiece, OnePieceLate, NoFrame, Writers
    <1>2. WorkerType /\ Pieces /\ [Next]_vars => Pieces'
      BY PiecesStep
    <1>3. Pieces => OnePieceLate
      BY DEF Pieces
    <1> QED
      BY <1>1, <1>2, <1>3, Types, PTL DEF Spec

\* Every variable stays in its type; what the page shows and what its requests
\* carry are messages of the conversation.
THEOREM TypeCorrect == Spec => []TypeOK
    <1>1. Init => Pieces
      BY DEF Init, Pieces, HoldsPiece, OnePieceLate, NoFrame, Writers
    <1>2. WorkerType /\ Pieces /\ [Next]_vars => Pieces'
      BY PiecesStep
    <1>3. WorkerType /\ PageType /\ Pieces => TypeOK
      <2> SUFFICES ASSUME WorkerType, PageType, Pieces PROVE TypeOK
        OBVIOUS
      <2>1. late \in 0..MaxFrames
        BY StreamAssumption DEF WorkerType, Pieces, OnePieceLate
      <2>2. hand \in [Writers -> [kind : Kinds, what : {"none", "piece", "reset", "done"},
                                  n : 0..MaxFrames + 1, at : {"idle", "checked", "kept", "sent"}]]
        BY DEF WorkerType, AFrame
      <2> QED
        BY <2>1, <2>2 DEF TypeOK, WorkerType, PageType, Pcs, Messages, AReader, APage, ARequest
    <1> QED
      BY <1>1, <1>2, <1>3, Types, PTL DEF Spec

-----------------------------------------------------------------------------
(* A stream that ends with the run ends with its answer                    *)

\* A run that is over is at its end and stays as it was stored, and the page
\* of a stream that ended for it already shows what it points at.
Answered ==
    /\ status = "over" <=> pc = "end"
    /\ point # "receipt" => status = "over"
    /\ reader.end = "run" => status = "over" /\ reader.at = "ended"
    /\ EndsWithTheReply

\* The worker: it stores once.
LEMMA AnsweredByWorker ==
    ASSUME WorkerType, Answered, Work \/ Expire
    PROVE  Answered'
    <1> USE DEF WorkerType, Answered, EndsWithTheReply
    <1>1. UNCHANGED <<reader, bubble>>
      BY DEF Work, Delta, Keep, Publish, PublishFails, Reset, Clear, LookEnds, Decide, Answer, HandOn, Write,
        Report, Finish, Fail, Expire, WorkerStep, server
    <1>2. CASE UNCHANGED <<pc, stored>> 
      BY <1>1, <1>2 DEF stored, Full
    <1>3. CASE UNCHANGED stored /\ pc # "end" /\ pc' # "end"
      BY <1>1, <1>3 DEF stored
    <1>4. CASE pc # "end" /\ pc' = "end" /\ status' = "over"
      BY <1>1, <1>4
    <1>5. ASSUME NEW w \in Writers, Delta(w) \/ Keep(w) \/ Publish(w) \/ PublishFails(w)
          PROVE  UNCHANGED <<pc, stored>>
      BY <1>5 DEF Delta, Keep, Publish, PublishFails, worker
    <1>6. ASSUME Reset \/ Clear \/ Expire PROVE UNCHANGED <<pc, stored>>
      BY <1>6 DEF Reset, Clear, Expire, worker
    <1>7. ASSUME LookEnds \/ Decide \/ HandOn \/ Write \/ Report
          PROVE  UNCHANGED stored /\ pc # "end" /\ pc' # "end"
      BY <1>7 DEF LookEnds, Decide, HandOn, Write, Report
    <1>8. ASSUME Answer \/ Finish \/ Fail
          PROVE  \/ pc # "end" /\ pc' = "end" /\ status' = "over"
                 \/ UNCHANGED stored /\ pc # "end" /\ pc' # "end"
      BY <1>8 DEF Answer, Finish, Fail, Store
    <1> QED
      BY <1>2, <1>3, <1>4, <1>5, <1>6, <1>7, <1>8 DEF Work

LEMMA AnsweredStep ==
    ASSUME WorkerType, PageType, Answered, [Next]_vars
    PROVE  Answered'
    <1> USE DEF WorkerType, PageType, AReader, Answered, EndsWithTheReply
    <1>1. CASE UNCHANGED <<pc, stored, reader, bubble>>
      BY <1>1 DEF stored, Full
    <1>2. CASE UNCHANGED <<pc, stored>> /\ reader'.end # "run"
      BY <1>2 DEF stored
    <1>3. CASE Round
      <2>1. UNCHANGED <<pc, stored>>
        BY <1>3 DEF Round, worker
      <2>2. reader.end # "run"
        BY <1>3 DEF Round
      <2>3. CASE status = "over"
        <3> DEFINE next == IF queue # << >> THEN Told(bubble, Head(queue)) ELSE bubble
        <3>1. next = [k \in Streams |-> next[k]]
          BY DEF Told, Grown
        <3>2. bubble' = [next EXCEPT !["chat"] = Full(point)] /\ reader'.at = "ended"
          BY <1>3, <2>3 DEF Round, Final, Off
        <3> HIDE DEF next
        <3>3. bubble'["chat"] = Full(point)
          BY <3>1, <3>2 DEF Streams, Kinds
        <3> QED
          BY <2>1, <2>3, <3>2, <3>3 DEF stored, Full
      <2>4. CASE status # "over"
        BY <1>2, <1>3, <2>1, <2>2, <2>4 DEF Round
      <2> QED
        BY <2>3, <2>4
    <1>4. ASSUME ReadBuffer \/ Subscribe \/ Deadline \/ Break PROVE Answered'
      BY <1>2, <1>4 DEF ReadBuffer, Subscribe, Deadline, Break, Off, worker
    <1>5. ASSUME Visit \/ Ask PROVE Answered'
      BY <1>1, <1>5 DEF Visit, Ask, worker, server
    <1>6. ASSUME NEW r \in asks, ReadMessages(r) \/ ReadRuns(r) \/ Lose(r) PROVE Answered'
      BY <1>1, <1>6 DEF ReadMessages, ReadRuns, Reads, Lose, worker, server
    <1>7. ASSUME NEW r \in asks, Respond(r) PROVE Answered'
      BY <1>1, <1>2, <1>7 DEF Respond, Off, worker, server
    <1>8. CASE UNCHANGED vars
      BY <1>1, <1>8 DEF vars, worker, server
    <1> QED
      BY <1>3, <1>4, <1>5, <1>6, <1>7, <1>8, AnsweredByWorker DEF Next, Serve, Load

\* Whatever of the stream was lost, doubled or mixed with another text, when
\* it ends because the run is over the page shows the stored answer.
THEOREM EndsWithReply == Spec => []EndsWithTheReply
    <1>1. Init => Answered
      BY DEF Init, Answered, EndsWithTheReply
    <1>2. WorkerType /\ PageType /\ Answered /\ [Next]_vars => Answered'
      BY AnsweredStep
    <1>3. Answered => EndsWithTheReply
      BY DEF Answered
    <1> QED
      BY <1>1, <1>2, <1>3, Types, PTL DEF Spec

=============================================================================
