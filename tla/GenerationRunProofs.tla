------------------------- MODULE GenerationRunProofs -------------------------
(***************************************************************************)
(* What holds of GenerationRun for any number of pictures and attempts and *)
(* any time limits.                                                        *)
(***************************************************************************)
EXTENDS GenerationRun, TLAPS

USE GenerationRunAssumption

\* The sweep waits for a natural number of units.
LEMMA StaleAfterNat == StaleAfter \in Nat
BY DEF StaleAfter

LEMMA NoPictureTyped == NoPicture \in Picture
BY DEF NoPicture, Picture, Attempts

LEMMA InitTyped == Init => TypeOK
<1> SUFFICES ASSUME Init PROVE TypeOK
    OBVIOUS
<1>1. 1 \in Attempts /\ 0 \in 0..StaleAfter /\ 0 \in 0..TextLimit /\ FALSE \in BOOLEAN
    BY StaleAfterNat DEF Attempts
<1>2. picture \in [Pictures -> Picture]
    BY NoPictureTyped DEF Init
<1> QED
    BY <1>1, <1>2 DEF Init, TypeOK, RunStatus, TextState, AtWork

LEMMA ReopenTyped ==
    ASSUME TypeOK, NEW regenerate \in BOOLEAN, Reopen(regenerate)
    PROVE  TypeOK'
<1>1. attempt + 1 \in Attempts /\ 0 \in 0..StaleAfter
    BY StaleAfterNat DEF TypeOK, Reopen, Attempts
<1>2. text' \in [Attempts -> TextState]
    BY <1>1 DEF TypeOK, Reopen, TextState
<1> QED
    BY <1>1, <1>2 DEF TypeOK, Reopen, RunStatus, pictVars, finVars

LEMMA FailTextTyped ==
    ASSUME TypeOK, NEW a \in Attempts, FailText(a), ghosts' \in {ghosts, ghosts \cup {a}}
    PROVE  TypeOK'
<1>1. text' \in [Attempts -> TextState] /\ textAge' \in [Attempts -> 0..TextLimit]
    BY DEF TypeOK, FailText, TextState
<1>2. marking' \in [Attempts -> Pictures \cup {"none"}]
    BY DEF TypeOK, FailText
<1> QED
    BY <1>1, <1>2 DEF TypeOK, FailText, RunStatus, finVars

\* Every step of a text job keeps the types.
LEMMA WritingTyped ==
    ASSUME TypeOK, NEW a \in Attempts, Writing(a)
    PROVE  TypeOK'
<1>1. CASE Send(a)
    <2>1. text' \in [Attempts -> TextState]
        BY <1>1 DEF TypeOK, Send, TextState
    <2> QED
        BY <1>1, <2>1 DEF TypeOK, Send, runVars, pictVars, finVars
<1>2. CASE SendFails(a)
    <2>1. text' \in [Attempts -> TextState]
        BY <1>2 DEF TypeOK, SendFails, TextState
    <2> QED
        BY <1>2, <2>1 DEF TypeOK, SendFails, RunStatus, pictVars, finVars
<1>3. CASE StartText(a)
    <2>1. text' \in [Attempts -> TextState]
        BY <1>3 DEF TypeOK, StartText, TextState, AtWork
    <2> QED
        BY <1>3, <2>1 DEF TypeOK, StartText, runVars, pictVars, finVars
<1>4. CASE WriteText(a)
    <2>1. text' \in [Attempts -> TextState]
        BY <1>4 DEF TypeOK, WriteText, TextState, AtWork
    <2>2. texts' \subseteq Attempts
        BY <1>4 DEF TypeOK, WriteText
    <2> QED
        BY <1>4, <2>1, <2>2 DEF TypeOK, WriteText, runVars, pictVars, finVars
<1>5. CASE PlanPictures(a)
    <2>1. text' \in [Attempts -> TextState]
        BY <1>5 DEF TypeOK, PlanPictures, TextState, AtWork
    <2>2. [NoPicture EXCEPT !.by = a, !.of = attempt, !.row = "queued"] \in Picture
        BY NoPictureTyped DEF Picture, TypeOK
    <2>3. picture' \in [Pictures -> Picture]
        BY <1>5, <2>2 DEF TypeOK, PlanPictures
    <2>4. noted' \in BOOLEAN
        BY <1>5 DEF TypeOK, PlanPictures
    <2> QED
        BY <1>5, <2>1, <2>3, <2>4 DEF TypeOK, PlanPictures, runVars, finVars
<1>6. ASSUME NEW p \in Pictures, EnqueuePicture(a, p) PROVE TypeOK'
    <2>1. picture' \in [Pictures -> Picture]
        BY <1>6 DEF TypeOK, EnqueuePicture, Picture
    <2>2. marking' \in [Attempts -> Pictures \cup {"none"}]
        BY <1>6 DEF TypeOK, EnqueuePicture
    <2> QED
        BY <1>6, <2>1, <2>2 DEF TypeOK, EnqueuePicture, runVars, textVars, finVars
<1>7. CASE MarkQueued(a)
    <2>1. picture' \in [Pictures -> Picture]
        BY <1>7 DEF TypeOK, MarkQueued, Picture
    <2>2. marking' \in [Attempts -> Pictures \cup {"none"}]
        BY <1>7 DEF TypeOK, MarkQueued
    <2> QED
        BY <1>7, <2>1, <2>2 DEF TypeOK, MarkQueued, runVars, textVars, finVars
<1>8. CASE EndText(a)
    <2>1. text' \in [Attempts -> TextState] /\ textAge' \in [Attempts -> 0..TextLimit]
        BY <1>8 DEF TypeOK, EndText, TextState
    <2>2. finalizers' \in Nat
        BY <1>8 DEF TypeOK, EndText
    <2> QED
        BY <1>8, <2>1, <2>2 DEF TypeOK, EndText, runVars, pictVars
<1>9. CASE BreakText(a)
    BY <1>9, FailTextTyped DEF BreakText
<1>10. CASE TimeOutText(a)
    BY <1>10, FailTextTyped DEF TimeOutText
<1>12. CASE LoseText(a)
    <2>1. text' \in [Attempts -> TextState] /\ textAge' \in [Attempts -> 0..TextLimit]
        BY <1>12 DEF TypeOK, LoseText, TextState
    <2>2. marking' \in [Attempts -> Pictures \cup {"none"}]
        BY <1>12 DEF TypeOK, LoseText
    <2>3. ghosts' \subseteq Attempts /\ slipped' \in BOOLEAN
        BY <1>12 DEF TypeOK, LoseText
    <2> QED
        BY <1>12, <2>1, <2>2, <2>3 DEF TypeOK, LoseText, finVars
<1>11. CASE GhostEnds(a)
    <2>1. texts' \subseteq Attempts /\ ghosts' \subseteq Attempts
        BY <1>11 DEF TypeOK, GhostEnds
    <2> QED
        BY <1>11, <2>1 DEF TypeOK, GhostEnds, runVars, pictVars, finVars
<1> QED
    BY <1>1, <1>2, <1>3, <1>4, <1>5, <1>6, <1>7, <1>8, <1>9, <1>10, <1>11, <1>12 DEF Writing

LEMMA PictureStepTyped ==
    ASSUME TypeOK, NEW p \in Pictures, StartPicture(p) \/ LosePicture(p) \/ EndPicture(p)
    PROVE  TypeOK'
<1>1. picture' \in [Pictures -> Picture]
    <2>1. CASE StartPicture(p) \/ LosePicture(p)
        BY <2>1 DEF TypeOK, StartPicture, LosePicture, Picture
    <2>2. CASE EndPicture(p)
        BY <2>2 DEF TypeOK, EndPicture, PictureEnds, Picture
    <2> QED
        BY <2>1, <2>2
<1>2. finalizers' \in Nat /\ slipped' \in BOOLEAN
    BY DEF TypeOK, StartPicture, LosePicture, EndPicture, PictureEnds, runVars, finVars
<1> QED
    BY <1>1, <1>2
    DEF TypeOK, StartPicture, LosePicture, EndPicture, PictureEnds, runVars, textVars, finVars

LEMMA FinalizerTyped ==
    ASSUME TypeOK,
           \/ FinalizerLeaves \/ FinalizerPasses \/ FinalizerFails
           \/ \E a \in Attempts : FinalizerEnds(a) \/ FinalizerBreaks(a)
    PROVE  TypeOK'
<1>1. CASE FinalizerLeaves
    BY <1>1 DEF TypeOK, FinalizerLeaves, runVars, textVars, pictVars
<1>2. CASE FinalizerPasses
    <2>1. closing' \in [Attempts -> {"no", "clean", "flawed"}]
        BY <1>2 DEF TypeOK, FinalizerPasses
    <2>2. passes' \in [Attempts -> Nat] /\ finalizers' \in Nat /\ event' \in BOOLEAN
        BY <1>2 DEF TypeOK, FinalizerPasses
    <2> QED
        BY <1>2, <2>1, <2>2 DEF TypeOK, FinalizerPasses, textVars, pictVars
<1>3. ASSUME NEW a \in Attempts, FinalizerEnds(a) \/ FinalizerBreaks(a) PROVE TypeOK'
    <2>1. closing' \in [Attempts -> {"no", "clean", "flawed"}]
        BY <1>3 DEF TypeOK, FinalizerEnds, FinalizerBreaks
    <2>2. status' \in RunStatus /\ slipped' \in BOOLEAN
        BY <1>3 DEF TypeOK, FinalizerEnds, FinalizerBreaks, RunStatus
    <2> QED
        BY <1>3, <2>1, <2>2 DEF TypeOK, FinalizerEnds, FinalizerBreaks, textVars, pictVars
<1>4. CASE FinalizerFails
    BY <1>4 DEF TypeOK, FinalizerFails, textVars, pictVars
<1> QED
    BY <1>1, <1>2, <1>3, <1>4

LEMMA TickTyped ==
    ASSUME TypeOK, Tick
    PROVE  TypeOK'
<1>1. age' \in 0..StaleAfter
    BY StaleAfterNat DEF TypeOK, Tick
<1>2. textAge' \in [Attempts -> 0..TextLimit]
    BY DEF TypeOK, Tick, TimePasses
<1>3. ASSUME NEW p \in Pictures, picture[p].job = "working"
      PROVE  [picture[p] EXCEPT !.age = @ + 1] \in Picture
    <2>1. picture[p] \in Picture /\ picture[p].age < PictureLimit
        BY <1>3 DEF TypeOK, Tick, TimePasses
    <2> QED
        BY <2>1 DEF Picture
<1>4. picture' \in [Pictures -> Picture]
    BY <1>3 DEF TypeOK, Tick
<1> QED
    BY <1>1, <1>2, <1>4 DEF TypeOK, Tick, finVars

LEMMA TypeStep == TypeOK /\ [Next]_vars => TypeOK'
<1> SUFFICES ASSUME TypeOK, [Next]_vars PROVE TypeOK'
    OBVIOUS
<1>1. CASE Retry \/ Rewrite
    BY <1>1, ReopenTyped DEF Retry, Rewrite, TypeOK
<1>2. CASE Sweep
    BY <1>2 DEF TypeOK, Sweep, RunStatus, textVars, pictVars, finVars
<1>3. CASE Tick
    BY <1>3, TickTyped
<1>4. ASSUME NEW a \in Attempts, Writing(a) PROVE TypeOK'
    BY <1>4, WritingTyped
<1>5. ASSUME NEW p \in Pictures, StartPicture(p) \/ LosePicture(p) \/ EndPicture(p) PROVE TypeOK'
    BY <1>5, PictureStepTyped
<1>6. CASE \/ FinalizerLeaves \/ FinalizerPasses \/ FinalizerFails
           \/ \E a \in Attempts : FinalizerEnds(a) \/ FinalizerBreaks(a)
    BY <1>6, FinalizerTyped
<1>7. CASE UNCHANGED vars
    BY <1>7 DEF TypeOK, vars, runVars, textVars, pictVars, finVars
<1> QED
    BY <1>1, <1>2, <1>3, <1>4, <1>5, <1>6, <1>7 DEF Next

\* The record, its jobs and its rows keep their types, and no job outlasts its limit.
THEOREM TypeCorrect == Spec => []TypeOK
<1>1. Init => TypeOK
    BY InitTyped
<1>2. TypeOK /\ [Next]_vars => TypeOK'
    BY TypeStep
<1> QED
    BY <1>1, <1>2, PTL DEF Spec

---------------------------------------------------------------------------
(* One finalizer per attempt. *)

\* A finalizer passes only while the attempt has no finalization event, and writes one; no
\* attempt to come has been finalized.
Once ==
    /\ FinalizedOnce
    /\ \A a \in Attempts : a > attempt => passes[a] = 0
    /\ ~event => passes[attempt] = 0

LEMMA OnceStep == TypeOK /\ Once /\ [Next]_vars => Once'
<1> SUFFICES ASSUME TypeOK, Once, [Next]_vars PROVE Once'
    OBVIOUS
<1> USE DEF Once, FinalizedOnce
<1>1. CASE UNCHANGED <<passes, attempt, event>>
    BY <1>1
<1>2. CASE FinalizerPasses
    <2>1. /\ attempt \in Attempts /\ passes \in [Attempts -> Nat]
          /\ passes[attempt] = 0 /\ attempt' = attempt /\ event' = TRUE
        BY <1>2 DEF TypeOK, FinalizerPasses, Gate
    <2>2. \A a \in Attempts : passes'[a] = IF a = attempt THEN 1 ELSE passes[a]
        BY <1>2, <2>1 DEF FinalizerPasses
    <2> QED
        BY <2>1, <2>2 DEF Attempts
<1>3. CASE Retry \/ Rewrite
    <2>1. attempt' = attempt + 1 /\ attempt + 1 \in Attempts /\ passes' = passes
        BY <1>3 DEF Retry, Rewrite, Reopen, TypeOK, Attempts, finVars
    <2> QED
        BY <2>1 DEF TypeOK, Attempts
<1>4. CASE Sweep
    BY <1>4 DEF Sweep, finVars
<1>5. ASSUME NEW a \in Attempts, Writing(a) PROVE UNCHANGED <<passes, attempt, event>>
    BY <1>5 DEF Writing, Send, SendFails, StartText, WriteText, PlanPictures, EnqueuePicture,
        MarkQueued, EndText, BreakText, TimeOutText, LoseText, FailText, GhostEnds, runVars, finVars
<1>6. ASSUME NEW p \in Pictures, StartPicture(p) \/ LosePicture(p) \/ EndPicture(p)
      PROVE  UNCHANGED <<passes, attempt, event>>
    BY <1>6 DEF StartPicture, LosePicture, EndPicture, PictureEnds, runVars, finVars
<1>7. ASSUME NEW a \in Attempts, FinalizerEnds(a) \/ FinalizerBreaks(a)
      PROVE  UNCHANGED <<passes, attempt, event>>
    BY <1>7 DEF FinalizerEnds, FinalizerBreaks, runVars
<1>8. CASE FinalizerLeaves \/ FinalizerFails \/ Tick \/ UNCHANGED vars
    BY <1>8 DEF FinalizerLeaves, FinalizerFails, Tick, vars, runVars, finVars
<1> QED
    BY <1>1, <1>2, <1>3, <1>4, <1>5, <1>6, <1>7, <1>8 DEF Next

\* Of all the finalizers enqueued by pictures, text jobs and earlier attempts, at most one
\* passes the gate of process_collection_finalizer in an attempt.
THEOREM AtMostOneFinalizer == Spec => []FinalizedOnce
<1>1. Init => TypeOK /\ Once
    BY InitTyped DEF Init, Once, FinalizedOnce, Attempts
<1>2. TypeOK /\ Once /\ [Next]_vars => (TypeOK /\ Once)'
    BY TypeStep, OnceStep
<1>3. Once => FinalizedOnce
    BY DEF Once
<1> QED
    BY <1>1, <1>2, <1>3, PTL DEF Spec

---------------------------------------------------------------------------
(* The last job to end closes the run. *)

Unfinished == {p \in Rows : picture[p].row \in {"queued", "running"}}

\* What will lead to a finalizer that passes, unless a row stands in its way for ever.
Pending ==
    \/ slipped
    \/ finalizers > 0
    \/ Unfinished # {}
    \/ /\ text[attempt] \in {"sending", "queued"} \cup AtWork
       /\ \A p \in Pictures : picture[p].by # attempt

\* Text jobs and rows belong to attempts that were opened; only the job of a row writes
\* "running" there.
RowsMade ==
    /\ \A a \in Attempts : text[a] # "none" => a <= attempt
    /\ \A p \in Pictures :
         /\ picture[p].by <= attempt /\ picture[p].of <= attempt
         /\ picture[p].of # 0 => picture[p].by # 0
         /\ picture[p].row = "running" => picture[p].job \in {"working", "over"}

\* Unless a call slipped, in a running attempt every row without a job has its text job still
\* enqueueing; before the finalization event somebody is left to enqueue or to be the last
\* finalizer, and after it the finalizer is at work.
LastCloses ==
    /\ RowsMade
    /\ status = "running" /\ ~slipped =>
        \A p \in Rows : picture[p].job = "none" => text[picture[p].by] = "starting"
    /\ status = "running" /\ ~event => Pending
    /\ status = "running" /\ event => slipped \/ closing[attempt] # "no"

LEMMA LastClosesEnough == TypeOK /\ LastCloses => ClosedByTheLast
<1> SUFFICES ASSUME TypeOK, LastCloses, status = "running", ~UnderWay, ~slipped
             PROVE  \E p \in Rows : /\ picture[p].row \in {"queued", "running"}
                                    /\ picture[p].job = "over"
    BY DEF ClosedByTheLast
<1>1. finalizers = 0 /\ \A a \in Attempts : text[a] \notin {"sending", "queued"} \cup AtWork
    BY DEF UnderWay, TypeOK
<1>8. ~event
    BY DEF LastCloses, UnderWay, TypeOK
<1>2. PICK p \in Rows : picture[p].row \in {"queued", "running"}
    BY <1>1, <1>8 DEF LastCloses, Pending, Unfinished, TypeOK
<1>3. p \in Pictures /\ picture[p] \in Picture /\ picture[p].of = attempt /\ attempt \in Attempts
    BY <1>2 DEF Rows, TypeOK
<1>4. picture[p].by \in Attempts
    BY <1>3 DEF LastCloses, RowsMade, Picture, Attempts
<1>5. picture[p].job \notin {"queued", "working"}
    BY <1>3 DEF UnderWay
<1>6. picture[p].job # "none"
    BY <1>1, <1>2, <1>4 DEF LastCloses, AtWork
<1> QED
    BY <1>2, <1>3, <1>5, <1>6 DEF Picture

\* The parts are kept by a step that leaves rows, attempt and text jobs alone, and does
\* not take a finalizer away or open the gate again.
LEMMA LastClosesKept ==
    ASSUME TypeOK, LastCloses,
           picture' = picture, attempt' = attempt, text' = text,
           status' = "running" => status = "running" /\ (event => event') /\ (slipped => slipped'),
           status' = "running" /\ ~event' => slipped' \/ (finalizers > 0 => finalizers' > 0),
           status' = "running" /\ event' =>
               \/ slipped' \/ closing'[attempt] # "no"
               \/ event /\ closing' = closing
    PROVE  LastCloses'
<1>1. Rows' = Rows /\ Unfinished' = Unfinished
    BY DEF Rows, Unfinished
<1>2. RowsMade'
    BY DEF RowsMade, LastCloses
<1>3. status' = "running" /\ ~event' => Pending'
    BY <1>1 DEF LastCloses, Pending
<1>4. status' = "running" /\ event' => slipped' \/ closing'[attempt'] # "no"
    BY DEF LastCloses
<1> QED
    BY <1>1, <1>2, <1>3, <1>4 DEF LastCloses

LEMMA LastClosesReopened ==
    ASSUME TypeOK, LastCloses, NEW regenerate, Reopen(regenerate)
    PROVE  LastCloses'
<1>1. attempt \in Nat /\ attempt' = attempt + 1 /\ attempt' \in Attempts /\ picture' = picture
    BY DEF Reopen, TypeOK, Attempts, pictVars
<1>2. \A p \in Pictures : picture[p].by \in Nat /\ picture[p].of \in Nat
    BY DEF TypeOK, Picture, Attempts
<1>3. \A a \in Attempts : text'[a] = IF a = attempt' THEN "sending" ELSE text[a]
    BY <1>1 DEF Reopen, TypeOK
<1>4. RowsMade'
    <2>1. \A a \in Attempts : text'[a] # "none" => a <= attempt'
        BY <1>1, <1>3 DEF RowsMade, LastCloses, Attempts
    <2> QED
        BY <1>1, <1>2, <2>1 DEF RowsMade, LastCloses
<1>5. \A p \in Pictures : picture'[p].by # attempt' /\ picture'[p].of # attempt'
    BY <1>1, <1>2 DEF RowsMade, LastCloses
<1>6. Rows' = {} /\ event' = FALSE /\ text'[attempt'] = "sending"
    BY <1>1, <1>3, <1>5 DEF Rows, Reopen
<1> QED
    BY <1>4, <1>5, <1>6 DEF LastCloses, Pending

\* A job that ends as failed closes the run.
LEMMA LastClosesFailed ==
    ASSUME TypeOK, LastCloses, picture' = picture, attempt' = attempt, status' = "failed",
           \A a \in Attempts : text'[a] # "none" => text[a] # "none"
    PROVE  LastCloses'
BY DEF LastCloses, RowsMade

\* A text job whose end nobody hears of has slipped, or the attempt does not need it.
LEMMA LastClosesLost ==
    ASSUME TypeOK, LastCloses, NEW a \in Attempts, LoseText(a)
    PROVE  LastCloses'
<1>1. /\ picture' = picture /\ attempt' = attempt /\ status' = status /\ event' = event
      /\ finalizers' = finalizers /\ closing' = closing /\ text[a] # "none"
      /\ slipped' = (slipped \/ a = attempt \/ Unsent(a) \cap Rows # {})
      /\ \A b \in Attempts : b # a => text'[b] = text[b]
    BY DEF LoseText, TypeOK, finVars, AtWork
<1>2. Rows' = Rows /\ Unfinished' = Unfinished
    BY <1>1 DEF Rows, Unfinished
<1>3. RowsMade'
    BY <1>1 DEF LastCloses, RowsMade
<1>4. ASSUME status = "running", ~slipped', NEW p \in Rows, picture[p].job = "none"
      PROVE  text'[picture[p].by] = "starting"
    <2>1. picture[p].by \in Attempts /\ p \in Pictures
        BY DEF LastCloses, RowsMade, Rows, TypeOK, Picture, Attempts
    <2>2. picture[p].by # a
        BY <1>1, <1>4, <2>1 DEF Unsent
    <2> QED
        BY <1>1, <1>4, <2>1, <2>2 DEF LastCloses
<1>5. status = "running" /\ ~event => Pending'
    BY <1>1, <1>2 DEF LastCloses, Pending, TypeOK
<1> QED
    BY <1>1, <1>2, <1>3, <1>4, <1>5 DEF LastCloses

LEMMA LastClosesText ==
    ASSUME TypeOK, LastCloses, NEW a \in Attempts,
           Send(a) \/ StartText(a) \/ WriteText(a)
    PROVE  LastCloses'
<1>1. /\ picture' = picture /\ attempt' = attempt /\ status' = status /\ event' = event
      /\ finalizers' = finalizers /\ slipped' = slipped /\ closing' = closing
    BY DEF Send, StartText, WriteText, runVars, pictVars, finVars
<1>2. /\ text[a] # "starting"
      /\ text' = [text EXCEPT ![a] = text'[a]] /\ text'[a] \in {"queued"} \cup AtWork
    BY DEF Send, StartText, WriteText, TypeOK, AtWork
<1>3. \A b \in Attempts : b # a => text'[b] = text[b]
    BY <1>2 DEF TypeOK
<1>4. Rows' = Rows /\ Unfinished' = Unfinished /\ RowsMade'
    <2>1. text[a] # "none"
        BY DEF Send, StartText, WriteText
    <2> QED
        BY <1>1, <1>3, <2>1 DEF Rows, Unfinished, RowsMade, LastCloses
<1>5. status = "running" /\ ~slipped =>
        \A p \in Rows : picture[p].job = "none" => text'[picture[p].by] = "starting"
    <2> SUFFICES ASSUME status = "running", ~slipped, NEW p \in Rows, picture[p].job = "none"
                 PROVE  text'[picture[p].by] = "starting"
        OBVIOUS
    <2>1. text[picture[p].by] = "starting"
        BY DEF LastCloses
    <2>2. picture[p].by \in Attempts
        BY DEF LastCloses, RowsMade, Rows, TypeOK, Picture, Attempts
    <2> QED
        BY <1>2, <1>3, <2>1, <2>2
<1>6. status = "running" /\ ~event => Pending'
    <2> SUFFICES ASSUME Pending PROVE Pending'
        BY DEF LastCloses
    <2>1. text[attempt] \in {"sending", "queued"} \cup AtWork
            => text'[attempt] \in {"sending", "queued"} \cup AtWork
        BY <1>2, <1>3 DEF TypeOK
    <2> QED
        BY <1>1, <1>4, <2>1 DEF Pending
<1> QED
    BY <1>1, <1>4, <1>5, <1>6 DEF LastCloses

LEMMA LastClosesPlanned ==
    ASSUME TypeOK, LastCloses, NEW a \in Attempts, PlanPictures(a)
    PROVE  LastCloses'
<1>1. PICK chosen \in SUBSET {p \in Pictures : picture[p].by = 0} :
        picture' = [p \in Pictures |->
                      IF p \in chosen
                      THEN [NoPicture EXCEPT !.by = a, !.of = attempt, !.row = "queued"]
                      ELSE picture[p]]
    BY DEF PlanPictures
<1>2. \A p \in Pictures :
        IF p \in chosen
        THEN /\ picture'[p].by = a /\ picture'[p].of = attempt
             /\ picture'[p].row = "queued" /\ picture'[p].job = "none"
        ELSE picture'[p] = picture[p]
    BY <1>1 DEF NoPicture
<1>3. /\ attempt' = attempt /\ status' = status /\ event' = event /\ finalizers' = finalizers
      /\ slipped' = slipped /\ closing' = closing /\ attempt \in Attempts /\ text[a] = "written" /\ text'[a] = "starting"
      /\ \A b \in Attempts : b # a => text'[b] = text[b]
    BY DEF PlanPictures, TypeOK, runVars, finVars
<1>4. \A p \in Pictures : picture[p] \in Picture
    BY DEF TypeOK
<1>5. a <= attempt /\ a # 0
    BY <1>3 DEF LastCloses, RowsMade, Attempts
<1>6. RowsMade'
    BY <1>2, <1>3, <1>5 DEF LastCloses, RowsMade, Attempts
<1>7. ASSUME status = "running", ~slipped, NEW p \in Pictures, picture'[p].of = attempt,
             picture'[p].job = "none"
      PROVE  text'[picture'[p].by] = "starting"
    <2>1. CASE p \in chosen
        BY <1>2, <1>3, <2>1
    <2>2. CASE p \notin chosen
        <3>1. picture'[p] = picture[p] /\ text[picture[p].by] = "starting"
            BY <1>2, <1>7, <2>2 DEF LastCloses, Rows
        <3>2. picture[p].by \in Attempts
            BY <1>3, <1>4, <1>7, <3>1 DEF LastCloses, RowsMade, Picture, Attempts
        <3> QED
            BY <1>3, <3>1, <3>2
    <2> QED
        BY <2>1, <2>2
<1>8. ASSUME status = "running", ~event PROVE Pending'
    <2>1. CASE chosen # {}
        BY <1>2, <1>3, <2>1 DEF Pending, Unfinished, Rows
    <2>2. CASE chosen = {}
        <3>1. \A p \in Pictures : picture'[p] = picture[p]
            BY <1>2, <2>2
        <3>2. Unfinished' = Unfinished
            BY <1>3, <3>1 DEF Unfinished, Rows
        <3> QED
            BY <1>3, <1>8, <3>1, <3>2 DEF LastCloses, Pending, AtWork
    <2> QED
        BY <2>1, <2>2
<1> QED
    BY <1>3, <1>6, <1>7, <1>8 DEF LastCloses, Rows

\* The row of one picture changes and keeps its attempt.
LEMMA LastClosesRow ==
    ASSUME TypeOK, LastCloses, NEW p \in Pictures,
           \A q \in Pictures : q # p => picture'[q] = picture[q],
           picture'[p].by = picture[p].by, picture'[p].of = picture[p].of,
           picture'[p].row = "running" => picture'[p].job \in {"working", "over"},
           picture'[p].job = "none" => picture[p].job = "none",
           text' = text, attempt' = attempt, event' = event, status' = status, closing' = closing,
           slipped => slipped', finalizers' = finalizers \/ finalizers' > 0,
           \/ finalizers' > 0 \/ slipped' \/ picture[p].of # attempt
           \/ picture[p].row \in {"queued", "running"} => picture'[p].row \in {"queued", "running"}
    PROVE  LastCloses'
<1>1. \A q \in Pictures : picture'[q].by = picture[q].by /\ picture'[q].of = picture[q].of
    OBVIOUS
<1>2. Rows' = Rows
    BY <1>1 DEF Rows
<1>3. RowsMade'
    BY <1>1 DEF LastCloses, RowsMade
<1>4. ASSUME status = "running", ~slipped', NEW q \in Rows, picture'[q].job = "none"
      PROVE  text[picture'[q].by] = "starting"
    <2>1. q \in Pictures /\ picture[q].job = "none" /\ picture'[q].by = picture[q].by
        BY <1>1, <1>4 DEF Rows
    <2> QED
        BY <1>4, <2>1 DEF LastCloses
<1>5. ASSUME status = "running", ~event PROVE Pending'
    <2>1. CASE finalizers' > 0 \/ slipped'
        BY <2>1 DEF Pending
    <2>2. CASE ~(finalizers' > 0) /\ ~slipped'
        <3>1. ~(finalizers > 0) /\ ~slipped
            BY <2>2 DEF TypeOK
        <3>2. Unfinished \subseteq Unfinished'
            BY <1>1, <1>2, <2>2 DEF Unfinished, Rows
        <3>3. CASE Unfinished # {}
            BY <3>2, <3>3 DEF Pending
        <3>4. CASE Unfinished = {}
            BY <1>1, <1>5, <3>1, <3>4 DEF LastCloses, Pending
        <3> QED
            BY <3>3, <3>4
    <2> QED
        BY <2>1, <2>2
<1> QED
    BY <1>2, <1>3, <1>4, <1>5 DEF LastCloses

LEMMA LastClosesPicture ==
    ASSUME TypeOK, LastCloses, NEW p \in Pictures,
           StartPicture(p) \/ LosePicture(p) \/ EndPicture(p)
    PROVE  LastCloses'
<1>1. /\ picture[p] \in Picture /\ finalizers \in Nat
      /\ \A q \in Pictures : q # p => picture'[q] = picture[q]
    BY DEF TypeOK, StartPicture, LosePicture, EndPicture, PictureEnds
<1>2. /\ text' = text /\ attempt' = attempt /\ event' = event /\ status' = status
      /\ closing' = closing /\ (slipped => slipped')
    BY DEF StartPicture, LosePicture, EndPicture, PictureEnds, runVars, textVars, finVars
<1>3. CASE StartPicture(p)
    <2>1. /\ picture'[p].by = picture[p].by /\ picture'[p].of = picture[p].of
          /\ picture'[p].row = "running" /\ picture'[p].job = "working"
          /\ finalizers' = finalizers
        BY <1>1, <1>3 DEF StartPicture, TypeOK, Picture, finVars
    <2> QED
        BY <1>1, <1>2, <2>1, LastClosesRow
<1>4. CASE LosePicture(p)
    <2>1. /\ picture'[p].by = picture[p].by /\ picture'[p].of = picture[p].of
          /\ picture'[p].row = picture[p].row /\ picture'[p].job = "over"
          /\ finalizers' = finalizers
        BY <1>1, <1>4 DEF LosePicture, TypeOK, Picture, finVars
    <2> QED
        BY <1>1, <1>2, <2>1, LastClosesRow
<1>5. CASE EndPicture(p)
    <2>1. PICK row \in {"completed", "failed", "running"} : PictureEnds(p, row)
        BY <1>5 DEF EndPicture
    <2>2. /\ picture'[p].by = picture[p].by /\ picture'[p].of = picture[p].of
          /\ picture'[p].job = "over"
        BY <1>1, <2>1 DEF PictureEnds, TypeOK, Picture
    <2>3. \/ finalizers' > 0
          \/ finalizers' = finalizers /\ (slipped' \/ picture[p].of # attempt)
        BY <1>1, <2>1 DEF PictureEnds
    <2> QED
        BY <1>1, <1>2, <2>2, <2>3, LastClosesRow
<1> QED
    BY <1>3, <1>4, <1>5

\* The text job enqueues its pictures, marks their rows and ends.
LEMMA LastClosesEnqueued ==
    ASSUME TypeOK, LastCloses, NEW a \in Attempts, NEW p \in Pictures, EnqueuePicture(a, p)
    PROVE  LastCloses'
<1>1. /\ picture'[p].by = picture[p].by /\ picture'[p].of = picture[p].of
      /\ picture'[p].row = picture[p].row /\ picture'[p].job = "queued"
      /\ \A q \in Pictures : q # p => picture'[q] = picture[q]
    BY DEF EnqueuePicture, TypeOK, Picture
<1>2. picture[p].row # "running"
    BY DEF EnqueuePicture, Unsent, LastCloses, RowsMade
<1>3. /\ text' = text /\ attempt' = attempt /\ event' = event /\ status' = status
      /\ finalizers' = finalizers /\ slipped' = slipped /\ closing' = closing
    BY DEF EnqueuePicture, runVars, textVars, finVars
<1> QED
    BY <1>1, <1>2, <1>3, LastClosesRow

LEMMA LastClosesMarked ==
    ASSUME TypeOK, LastCloses, NEW a \in Attempts, MarkQueued(a)
    PROVE  LastCloses'
<1>1. PICK p \in Pictures : p = marking[a]
    BY DEF MarkQueued, TypeOK
<1>2. /\ picture'[p].by = picture[p].by /\ picture'[p].of = picture[p].of
      /\ picture'[p].row = "queued" /\ picture'[p].job = picture[p].job
      /\ \A q \in Pictures : q # p => picture'[q] = picture[q]
    BY <1>1 DEF MarkQueued, TypeOK, Picture
<1>3. /\ text' = text /\ attempt' = attempt /\ event' = event /\ status' = status
      /\ finalizers' = finalizers /\ slipped' = slipped /\ closing' = closing
    BY DEF MarkQueued, runVars, textVars, finVars
<1> QED
    BY <1>2, <1>3, LastClosesRow

LEMMA LastClosesEnded ==
    ASSUME TypeOK, LastCloses, NEW a \in Attempts, EndText(a)
    PROVE  LastCloses'
<1>1. /\ picture' = picture /\ attempt' = attempt /\ status' = status /\ event' = event
      /\ text[a] = "starting" /\ Unsent(a) = {} /\ finalizers \in Nat
      /\ slipped' = slipped /\ closing' = closing
      /\ \A b \in Attempts : b # a => text'[b] = text[b]
    BY DEF EndText, TypeOK, runVars, pictVars
<1>2. Rows' = Rows /\ Unfinished' = Unfinished
    BY <1>1 DEF Rows, Unfinished
<1>3. RowsMade'
    BY <1>1 DEF LastCloses, RowsMade
<1>4. ASSUME status = "running", ~slipped, NEW p \in Rows, picture[p].job = "none"
      PROVE  text'[picture[p].by] = "starting"
    <2>1. picture[p].by \in Attempts /\ p \in Pictures
        BY DEF LastCloses, RowsMade, Rows, TypeOK, Picture, Attempts
    <2>2. picture[p].by # a
        BY <1>1, <1>4, <2>1 DEF Unsent
    <2> QED
        BY <1>1, <1>4, <2>1, <2>2 DEF LastCloses
<1>5. finalizers' \in Nat /\ (finalizers' > 0 \/ (finalizers' = finalizers /\ \E p \in Pictures : picture[p].by = a))
    BY <1>1 DEF EndText
<1>6. ASSUME status = "running", ~event PROVE Pending'
    <2>1. CASE finalizers' > 0
        BY <2>1 DEF Pending
    <2>2. CASE finalizers' = finalizers /\ \E p \in Pictures : picture[p].by = a
        BY <1>1, <1>2, <1>6, <2>2 DEF LastCloses, Pending, TypeOK
    <2> QED
        BY <1>5, <2>1, <2>2
<1> QED
    BY <1>1, <1>2, <1>3, <1>4, <1>6 DEF LastCloses

LEMMA LastClosesWriting ==
    ASSUME TypeOK, LastCloses, NEW a \in Attempts, Writing(a)
    PROVE  LastCloses'
<1>1. CASE Send(a) \/ StartText(a) \/ WriteText(a)
    BY <1>1, LastClosesText
<1>2. CASE SendFails(a) \/ BreakText(a) \/ TimeOutText(a)
    <2>1. text[a] # "none" /\ \A b \in Attempts : b # a => text'[b] = text[b]
        BY <1>2 DEF SendFails, BreakText, TimeOutText, FailText, AtWork, TypeOK
    <2> QED
        BY <1>2, <2>1, LastClosesFailed DEF SendFails, BreakText, TimeOutText, FailText, pictVars
<1>3. CASE PlanPictures(a)
    BY <1>3, LastClosesPlanned
<1>4. ASSUME NEW p \in Pictures, EnqueuePicture(a, p) PROVE LastCloses'
    BY <1>4, LastClosesEnqueued
<1>5. CASE MarkQueued(a)
    BY <1>5, LastClosesMarked
<1>6. CASE EndText(a)
    BY <1>6, LastClosesEnded
<1>7. CASE GhostEnds(a)
    BY <1>7, LastClosesKept DEF GhostEnds, runVars, pictVars, finVars
<1>8. CASE LoseText(a)
    BY <1>8, LastClosesLost
<1> QED
    BY <1>1, <1>2, <1>3, <1>4, <1>5, <1>6, <1>7, <1>8 DEF Writing

LEMMA LastClosesTick ==
    ASSUME TypeOK, LastCloses, Tick
    PROVE  LastCloses'
<1>1. /\ attempt' = attempt /\ status' = status /\ event' = event /\ text' = text
      /\ finalizers' = finalizers /\ slipped' = slipped /\ closing' = closing
    BY DEF Tick, finVars
<1>2. \A p \in Pictures : /\ picture'[p].by = picture[p].by /\ picture'[p].of = picture[p].of
                          /\ picture'[p].row = picture[p].row /\ picture'[p].job = picture[p].job
    BY DEF Tick, TypeOK, Picture
<1>3. Rows' = Rows /\ Unfinished' = Unfinished
    BY <1>1, <1>2 DEF Rows, Unfinished
<1>4. RowsMade'
    BY <1>1, <1>2 DEF LastCloses, RowsMade
<1>5. status = "running" /\ ~event => Pending'
    BY <1>1, <1>2, <1>3 DEF LastCloses, Pending
<1>6. status = "running" /\ ~slipped =>
        \A p \in Rows : picture'[p].job = "none" => text[picture'[p].by] = "starting"
    BY <1>2 DEF LastCloses, Rows
<1> QED
    BY <1>1, <1>3, <1>4, <1>5, <1>6 DEF LastCloses

LEMMA LastClosesStep == TypeOK /\ LastCloses /\ [Next]_vars => LastCloses'
<1> SUFFICES ASSUME TypeOK, LastCloses, [Next]_vars PROVE LastCloses'
    OBVIOUS
<1>1. CASE Retry \/ Rewrite
    BY <1>1, LastClosesReopened DEF Retry, Rewrite
<1>2. CASE Sweep
    BY <1>2, LastClosesFailed DEF Sweep, textVars, pictVars
<1>3. CASE Tick
    BY <1>3, LastClosesTick
<1>4. ASSUME NEW a \in Attempts, Writing(a) PROVE LastCloses'
    BY <1>4, LastClosesWriting
<1>5. ASSUME NEW p \in Pictures, StartPicture(p) \/ LosePicture(p) \/ EndPicture(p) PROVE LastCloses'
    BY <1>5, LastClosesPicture
<1>6. CASE FinalizerLeaves
    <2>1. /\ picture' = picture /\ attempt' = attempt /\ status' = status /\ event' = event
          /\ text' = text /\ slipped' = slipped /\ closing' = closing
        BY <1>6 DEF FinalizerLeaves, runVars, textVars, pictVars
    <2>2. Rows' = Rows /\ Unfinished' = Unfinished /\ RowsMade'
        BY <2>1 DEF Rows, Unfinished, RowsMade, LastCloses
    <2>3. status = "running" /\ ~event => Unfinished # {}
        BY <1>6 DEF FinalizerLeaves, Gate, Unfinished
    <2> QED
        BY <2>1, <2>2, <2>3 DEF LastCloses, Pending
<1>7. CASE FinalizerPasses
    <2>1. closing'[attempt] # "no"
        BY <1>7 DEF FinalizerPasses, TypeOK
    <2> QED
        BY <1>7, <2>1, LastClosesKept DEF FinalizerPasses, Gate, textVars, pictVars
<1>8. ASSUME NEW a \in Attempts, FinalizerEnds(a) PROVE LastCloses'
    BY <1>8, LastClosesKept DEF FinalizerEnds, textVars, pictVars
<1>9. ASSUME NEW a \in Attempts, FinalizerBreaks(a) PROVE LastCloses'
    <2>1. status = "running" /\ event => slipped' \/ closing'[attempt] # "no"
        BY <1>9 DEF FinalizerBreaks, LastCloses, TypeOK
    <2> QED
        BY <1>9, <2>1, LastClosesKept DEF FinalizerBreaks, textVars, pictVars
<1>11. CASE FinalizerFails
    BY <1>11, LastClosesKept DEF FinalizerFails, textVars, pictVars
<1>10. CASE UNCHANGED vars
    BY <1>10, LastClosesKept DEF vars, runVars, textVars, pictVars, finVars
<1> QED
    BY <1>1, <1>2, <1>3, <1>4, <1>5, <1>6, <1>7, <1>8, <1>9, <1>10, <1>11 DEF Next

\* However texts, pictures, finalizers, retries and rewrites interleave, the last job to end
\* closes the run, unless in its attempt the very call that would have closed it failed, or a
\* row reads unfinished although its job is over.
THEOREM LastJobCloses == Spec => []ClosedByTheLast
<1>1. Init => TypeOK /\ LastCloses
    <2> SUFFICES ASSUME Init PROVE LastCloses
        BY InitTyped
    <2>1. \A p \in Pictures : picture[p] = NoPicture
        BY DEF Init
    <2>2. RowsMade /\ Rows = {}
        BY <2>1 DEF Init, RowsMade, Rows, NoPicture, Attempts
    <2>3. text[attempt] = "queued" /\ attempt = 1 /\ ~event
        BY DEF Init, Attempts
    <2> QED
        BY <2>1, <2>2, <2>3 DEF LastCloses, Pending, NoPicture
<1>2. TypeOK /\ LastCloses /\ [Next]_vars => (TypeOK /\ LastCloses)'
    BY TypeStep, LastClosesStep
<1>3. TypeOK /\ LastCloses => ClosedByTheLast
    BY LastClosesEnough
<1> QED
    BY <1>1, <1>2, <1>3, PTL DEF Spec

---------------------------------------------------------------------------
(* A record that is not reopened is reviewed when all is done. *)

Late == {"starting", "done", "failed"}

\* Rows and finalizers appear when the text is written; a row that has ended has no job under
\* way; a thread outlives only a job that comes to neither rows nor finalizers.
OnlyAttempt ==
    /\ \A a \in Attempts : a # 1 => text[a] = "none" /\ closing[a] = "no" /\ a \notin ghosts
    /\ \A p \in Pictures :
        /\ picture[p].job # "none" => picture[p].by # 0
        /\ picture[p].by # 0 => text[1] \in Late
        /\ picture[p].of # 0 => picture[p].row # "none"
        /\ picture[p].of \in {0, 1}
        /\ picture[p].row \in {"completed", "failed"} => picture[p].job = "over"
    /\ finalizers > 0 => text[1] \in Late
    /\ ghosts # {} => text[1] = "failed" /\ finalizers = 0 /\ \A p \in Pictures : picture[p].by = 0
    /\ closing[1] # "no" =>
        /\ text[1] \in Late /\ ghosts = {}
        /\ \A p \in Pictures : picture[p].of = 1 => picture[p].job = "over"
Single == attempt = 1 => OnlyAttempt

\* Every step but a reopening stays in the attempt.
LEMMA SameAttempt == ASSUME [Next]_vars, ~(Retry \/ Rewrite) PROVE attempt' = attempt
<1>1. ASSUME NEW a \in Attempts, Writing(a) PROVE attempt' = attempt
    BY <1>1 DEF Writing, Send, SendFails, StartText, WriteText, PlanPictures, EnqueuePicture,
        MarkQueued, EndText, BreakText, TimeOutText, LoseText, FailText, GhostEnds, runVars
<1>2. ASSUME NEW p \in Pictures, StartPicture(p) \/ LosePicture(p) \/ EndPicture(p)
      PROVE  attempt' = attempt
    BY <1>2 DEF StartPicture, LosePicture, EndPicture, PictureEnds, runVars
<1>3. ASSUME NEW a \in Attempts, FinalizerEnds(a) \/ FinalizerBreaks(a) PROVE attempt' = attempt
    BY <1>3 DEF FinalizerEnds, FinalizerBreaks, runVars
<1>4. CASE \/ Sweep \/ Tick \/ FinalizerLeaves \/ FinalizerPasses \/ FinalizerFails
           \/ UNCHANGED vars
    BY <1>4 DEF Sweep, Tick, FinalizerLeaves, FinalizerPasses, FinalizerFails, vars, runVars
<1> QED
    BY <1>1, <1>2, <1>3, <1>4 DEF Next

\* Only the first text job and its finalizer can be at work.
LEMMA OnlyFirst ==
    ASSUME OnlyAttempt, NEW a \in Attempts, Writing(a) \/ FinalizerEnds(a) \/ FinalizerBreaks(a)
    PROVE  a = 1
<1>1. text[a] # "none" \/ a \in ghosts \/ closing[a] # "no"
    BY DEF Writing, Send, SendFails, StartText, WriteText, PlanPictures, EnqueuePicture,
        MarkQueued, EndText, BreakText, TimeOutText, LoseText, GhostEnds, FinalizerEnds,
        FinalizerBreaks, AtWork
<1> QED
    BY <1>1 DEF OnlyAttempt

LEMMA OnlyAttemptStep ==
    ASSUME TypeOK, attempt = 1, OnlyAttempt, [Next]_vars, ~(Retry \/ Rewrite)
    PROVE  OnlyAttempt'
<1>1. attempt' = 1 /\ 1 \in Attempts
    BY SameAttempt DEF TypeOK
<1>2. /\ text \in [Attempts -> TextState] /\ closing \in [Attempts -> {"no", "clean", "flawed"}]
      /\ picture \in [Pictures -> Picture] /\ finalizers \in Nat
    BY DEF TypeOK
<1>4. CASE Sweep
    BY <1>4 DEF Sweep, OnlyAttempt, textVars, pictVars, finVars
<1>5. CASE Tick
    <2>1. \A p \in Pictures :
            /\ picture'[p].by = picture[p].by /\ picture'[p].of = picture[p].of
            /\ picture'[p].row = picture[p].row /\ picture'[p].job = picture[p].job
        BY <1>2, <1>5 DEF Tick, Picture
    <2> QED
        BY <1>5, <2>1 DEF Tick, OnlyAttempt, finVars
<1>6. CASE Send(1) \/ SendFails(1) \/ StartText(1) \/ WriteText(1)
    <2>1. /\ text[1] \notin Late /\ picture' = picture /\ closing' = closing
          /\ finalizers' = finalizers /\ ghosts' = ghosts
        BY <1>6 DEF Send, SendFails, StartText, WriteText, Late, runVars, pictVars, finVars
    <2>2. \A a \in Attempts : a # 1 => text'[a] = text[a]
        BY <1>1, <1>2, <1>6 DEF Send, SendFails, StartText, WriteText
    <2> QED
        BY <2>1, <2>2 DEF OnlyAttempt, Late
<1>7. CASE PlanPictures(1)
    <2>1. /\ text[1] = "written" /\ text'[1] = "starting"
          /\ \A a \in Attempts : a # 1 => text'[a] = text[a]
        BY <1>1, <1>2, <1>7 DEF PlanPictures
    <2>2. \A p \in Pictures :
            \/ picture'[p] = picture[p]
            \/ picture'[p].row = "queued" /\ picture'[p].job = "none" /\ picture'[p].of = 1
        BY <1>7 DEF PlanPictures, NoPicture
    <2> QED
        BY <1>7, <2>1, <2>2 DEF PlanPictures, OnlyAttempt, Late, runVars, finVars
<1>8. ASSUME NEW p \in Pictures, EnqueuePicture(1, p) PROVE OnlyAttempt'
    <2>1. /\ picture[p].by = 1 /\ picture[p].job = "none"
          /\ picture'[p].by = picture[p].by /\ picture'[p].of = picture[p].of
          /\ picture'[p].row = picture[p].row /\ picture'[p].job = "queued"
          /\ \A q \in Pictures : q # p => picture'[q] = picture[q]
        BY <1>2, <1>8 DEF EnqueuePicture, Unsent, Picture
    <2> QED
        BY <1>8, <2>1 DEF EnqueuePicture, OnlyAttempt, runVars, textVars, finVars
<1>9. CASE MarkQueued(1)
    <2>1. \A q \in Pictures :
            /\ picture'[q].by = picture[q].by /\ picture'[q].of = picture[q].of
            /\ picture'[q].job = picture[q].job
            /\ picture'[q].row = picture[q].row \/ picture'[q].row = "queued"
        BY <1>2, <1>9 DEF MarkQueued, Picture
    <2> QED
        BY <1>9, <2>1 DEF MarkQueued, OnlyAttempt, runVars, textVars, finVars
<1>10. CASE EndText(1)
    BY <1>2, <1>10 DEF EndText, OnlyAttempt, Late, runVars, pictVars
<1>11. CASE BreakText(1) \/ TimeOutText(1) \/ LoseText(1)
    <2>1. /\ text'[1] = "failed" /\ picture' = picture
          /\ closing' = closing /\ finalizers' = finalizers
          /\ \A a \in Attempts : a # 1 => text'[a] = text[a]
        BY <1>1, <1>2, <1>11 DEF BreakText, TimeOutText, LoseText, FailText, finVars
    <2>2. text[1] # "writing" => ghosts' = ghosts
        BY <1>11 DEF BreakText, TimeOutText, LoseText
    <2>3. ghosts' \in {ghosts, ghosts \cup {1}}
        BY <1>11 DEF BreakText, TimeOutText, LoseText
    <2>5. text[1] = "writing" => finalizers = 0 /\ \A p \in Pictures : picture[p].by = 0
        BY <1>2 DEF OnlyAttempt, Late
    <2>4. closing[1] # "no" => text[1] # "writing"
        BY DEF OnlyAttempt, Late
    <2> QED
        BY <1>2, <2>1, <2>2, <2>3, <2>4, <2>5 DEF OnlyAttempt, Late
<1>12. CASE GhostEnds(1)
    BY <1>12 DEF GhostEnds, OnlyAttempt, runVars, pictVars, finVars
<1>13. ASSUME NEW p \in Pictures, StartPicture(p) \/ LosePicture(p) \/ EndPicture(p) PROVE OnlyAttempt'
    <2>1. /\ picture[p].job \in {"queued", "working"}
          /\ picture'[p].by = picture[p].by /\ picture'[p].of = picture[p].of
          /\ picture'[p].job \in {"working", "over"}
          /\ \/ picture'[p].row = "running"
             \/ picture'[p].job = "over" /\ picture'[p].row \in {picture[p].row, "completed", "failed"}
          /\ \A q \in Pictures : q # p => picture'[q] = picture[q]
        <3>1. CASE StartPicture(p) \/ LosePicture(p)
            BY <1>2, <1>13, <3>1 DEF StartPicture, LosePicture, Picture
        <3>2. CASE EndPicture(p)
            BY <1>2, <1>13, <3>2 DEF EndPicture, PictureEnds, Picture
        <3> QED
            BY <1>13, <3>1, <3>2
    <2>2. /\ text' = text /\ closing' = closing /\ ghosts' = ghosts
        BY <1>13 DEF StartPicture, LosePicture, EndPicture, PictureEnds, runVars, textVars, finVars
    <2>3. text[1] \in Late /\ picture[p].by # 0 /\ ghosts = {}
        BY <2>1 DEF OnlyAttempt
    <2> QED
        BY <2>1, <2>2, <2>3 DEF OnlyAttempt
<1>14. CASE FinalizerLeaves \/ FinalizerFails
    BY <1>2, <1>14 DEF FinalizerLeaves, FinalizerFails, OnlyAttempt, runVars, textVars, pictVars
<1>15. CASE FinalizerPasses
    <2>1. /\ text[1] \in Late /\ ghosts = {}
          /\ \A p \in Pictures : picture[p].of = 1 => picture[p].row \notin {"queued", "running"}
        BY <1>1, <1>15 DEF FinalizerPasses, Gate, Rows, OnlyAttempt
    <2>2. \A p \in Pictures : picture[p].of = 1 => picture[p].job = "over"
        BY <1>2, <2>1 DEF OnlyAttempt, Picture
    <2> QED
        BY <1>2, <1>15, <2>1, <2>2 DEF FinalizerPasses, OnlyAttempt, textVars, pictVars
<1>16. CASE FinalizerEnds(1) \/ FinalizerBreaks(1)
    <2>1. /\ closing'[1] = "no"
          /\ \A a \in Attempts : a # 1 => closing'[a] = closing[a]
        BY <1>1, <1>2, <1>16 DEF FinalizerEnds, FinalizerBreaks, runVars
    <2>2. text' = text /\ ghosts' = ghosts /\ picture' = picture /\ finalizers' = finalizers
        BY <1>16 DEF FinalizerEnds, FinalizerBreaks, textVars, pictVars
    <2> QED
        BY <2>1, <2>2 DEF OnlyAttempt
<1>17. CASE UNCHANGED vars
    BY <1>17 DEF OnlyAttempt, vars, runVars, textVars, pictVars, finVars
<1>18. \A a \in Attempts : Writing(a) \/ FinalizerEnds(a) \/ FinalizerBreaks(a) => a = 1
    BY OnlyFirst
<1> QED
    BY <1>4, <1>5, <1>6, <1>7, <1>8, <1>9, <1>10, <1>11, <1>12, <1>13, <1>14, <1>15,
       <1>16, <1>17, <1>18 DEF Next, Writing

LEMMA SingleStep == ASSUME TypeOK, Single, [Next]_vars PROVE Single'
<1>1. CASE Retry \/ Rewrite
    <2>1. attempt' # 1
        BY <1>1 DEF Retry, Rewrite, Reopen, TypeOK, Attempts
    <2> QED
        BY <2>1 DEF Single
<1>2. CASE ~(Retry \/ Rewrite)
    BY <1>2, SameAttempt, OnlyAttemptStep DEF Single
<1> QED
    BY <1>1, <1>2

\* While the finalizer of a record that was never reopened is at work, its text is written and
\* no picture job is under way, however many pictures there are.
THEOREM ReviewedWhenDone == Spec => []ReviewsWhatIsDone
<1>1. Init => TypeOK /\ Single
    BY InitTyped DEF Init, Single, OnlyAttempt, NoPicture, Attempts
<1>2. TypeOK /\ Single /\ [Next]_vars => (TypeOK /\ Single)'
    BY TypeStep, SingleStep
<1>3. TypeOK /\ Single => ReviewsWhatIsDone
    BY DEF Single, OnlyAttempt, ReviewsWhatIsDone, Late, Attempts
<1> QED
    BY <1>1, <1>2, <1>3, PTL DEF Spec
==============================================================================
