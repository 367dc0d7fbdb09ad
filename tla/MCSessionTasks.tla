--------------------------- MODULE MCSessionTasks ---------------------------
\* Small instances of SessionTasks.
EXTENDS SessionTasks, TLC

CONSTANTS r1, r2

\* Messages such as "rewrite, then review and deliver", in the order of the words.
FullPlans == {<<"rewrite", "review", "deliver">>, <<"image", "review", "deliver">>,
              <<"deliver", "review">>, <<"collect", "review">>}

\* Without the plans whose steps others have too.
MixedPlans == {<<"image", "review", "deliver">>, <<"deliver", "review">>}

\* Dispatches are interchangeable.
Symmetry == Permutations(Runs)
=============================================================================
