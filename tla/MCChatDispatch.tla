--------------------------- MODULE MCChatDispatch ---------------------------
\* Small instances of ChatDispatch for TLC.
EXTENDS ChatDispatch, TLC

CONSTANTS m1, m2, d1, d2

Says == NoText
Button(c, d, ws) == [Says EXCEPT !.command = c, !.draft = d, !.words = ws]
Words(ws) == [Says EXCEPT !.words = ws]

\* Buttons, plans, and what is left to the agent, with and without a file.
Talk == {Button("review", d1, <<"review">>), Button("rewrite", None, <<"rewrite">>),
         Button("decide", d1, <<"review">>),
         Words(<<"image", "review", "deliver">>), Words(<<"rewrite", "review">>),
         Button("deliver", None, <<"deliver">>), Words(<<"review">>), [Says EXCEPT !.attachment = "extract"]}
Symmetry == Permutations(Messages)

\* What no later step and no property looks at any more is left out of the
\* view: of a run that has ended its claim and what it lost, of a dispatch that
\* has answered the words, of a thread that has ended its calls.
Past(m) == pc[m] \in {"answer", "over"}
Essential ==
    <<pc, run, out, thread, history, jobs, wait, kept, stale, drafts,
      [m \in Messages |->
         <<IF Past(m) THEN <<WayOf(text[m]), {facts[m][n].status : n \in DOMAIN facts[m]}>>
                      ELSE <<text[m], facts[m], proc[m]>>,
           IF thread[m] = "none" THEN 0 ELSE calls[m],
           IF run[m] = "running" THEN <<claim[m], cause[m] # {}, lost[m] # {}>> ELSE 0,
           pictures[m].tool > 0, pictures[m].dispatch>>] >>
=============================================================================
