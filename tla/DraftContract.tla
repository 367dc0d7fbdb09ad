--------------------------- MODULE DraftContract ----------------------------
(***************************************************************************)
(* What an operator relies on, without rows, idempotency keys, selections  *)
(* or delivery jobs: every text is reviewed before it leaves the system,   *)
(* every change of a text sends it back to review, and what is published   *)
(* or dropped stays so.  DraftLifecycle implements it.                     *)
(***************************************************************************)
EXTENDS Naturals

CONSTANT Drafts

VARIABLES
    stage,      \* none, review, approved, delivered, published or closed
    text,       \* the number of the current text, 0 before the first
    outside     \* the <<draft, text>> pairs the WeChat draft box shows

vars == <<stage, text, outside>>

Init ==
    /\ stage   = [d \in Drafts |-> "none"]
    /\ text    = [d \in Drafts |-> 0]
    /\ outside = {}

\* A first or a new text, from a source, an operator or the model.
Write(d) ==
    /\ stage[d] \in {"none", "review", "approved", "delivered"}
    /\ stage' = [stage EXCEPT ![d] = "review"]
    /\ text'  = [text EXCEPT ![d] = @ + 1]
    /\ UNCHANGED outside

Move(d, from, to) ==
    /\ stage[d] \in from
    /\ stage' = [stage EXCEPT ![d] = to]
    /\ UNCHANGED <<text, outside>>

Approve(d)  == Move(d, {"review"}, "approved")
SendBack(d) == Move(d, {"approved"}, "review")
Publish(d)  == Move(d, {"approved"}, "published")
Drop(d)     == Move(d, {"review", "approved", "delivered"}, "closed")

\* An approved text becomes visible, possibly in the place of older texts of
\* the same draft, and the system may fail to learn that it did.
Deliver(d) ==
    /\ stage[d] \in {"approved", "delivered"}
    /\ stage' \in {stage, [stage EXCEPT ![d] = "delivered"]}
    /\ <<d, text[d]>> \in outside'
    /\ \A o \in outside' : o = <<d, text[d]>> \/ o \in outside
    /\ \A o \in outside : o[1] # d => o \in outside'
    /\ UNCHANGED text

Next == \E d \in Drafts :
    \/ Write(d) \/ Approve(d) \/ SendBack(d) \/ Publish(d) \/ Drop(d) \/ Deliver(d)

Spec == Init /\ [][Next]_vars
=============================================================================
