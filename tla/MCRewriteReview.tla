--------------------------- MODULE MCRewriteReview ---------------------------
\* Small instances of RewriteReview.
EXTENDS RewriteReview, TLC

Symmetry == Permutations(Runs)

\* What the next steps and the invariants of writers and reviews depend on: of a row the claim
\* and its age while it is running, and the job and the calls while its message is open; not the
\* deliveries asked for, not the results of reviews that are over, not the number of the version
\* as long as MaxVersion is not reached.
Row(r) == IF run[r].status # "running" THEN <<run[r].status>>
          ELSE <<"running", run[r].target, r \in old>>
Message(r) == IF turn[r] # "open" THEN <<turn[r]>>
              ELSE <<"open", called[r], handled[r], run[r].job>>
Remembered(v) ==
    IF review[v].status \in {"passed", "failed"} THEN <<"over">>
    ELSE <<review[v].status, review[v].revise, review[v].run, review[v].behind, review[v].launched>>
Essential ==
    <<[r \in AllRuns |-> Row(r)], [r \in Runs |-> Message(r)], jobs, images, finalizers,
      <<marker.kind, marker.revise, marker.run, marker.behind>>, [v \in Reviews |-> Remembered(v)]>>
==============================================================================
