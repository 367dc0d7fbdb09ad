-------------------------- MODULE MCDraftLifecycle --------------------------
\* Small instances of DraftLifecycle for TLC.
EXTENDS DraftLifecycle, TLC

CONSTANTS d1, d2, s1, s2, c1, c2, k1, k2

\* Two drafts of one source: the second can only live once the first is gone.
OneSource == [d \in Drafts |-> s1]
\* Two drafts of two sources that tell different things.
TwoSources == (d1 :> s1 @@ d2 :> s2)
OneHash == [s \in Sources |-> "h"]
TwoHashes == (s1 :> "h1" @@ s2 :> "h2")

\* Covers and keys are interchangeable, and so are drafts of one source.
Symmetry == Permutations(Covers) \cup Permutations(Keys)
DraftSymmetry == Symmetry \cup Permutations(Drafts)

\* What the agent said last decides nothing: states that differ in it alone are one.
WithoutReplies == <<status, version, revisions, approved, events, pubs, intro, removed, job, remote>>
=============================================================================
