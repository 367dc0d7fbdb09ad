---------------------------- MODULE MCCollection ----------------------------
\* Small instances of Collection for TLC.
EXTENDS Collection, TLC

CONSTANTS a1, a2, g1, g2, f1, x1, h1, h2, h3

\* Two repositories, and a feed entry and a paper that tell the same.
AllKinds == (g1 :> "github" @@ g2 :> "github" @@ f1 :> "rss" @@ x1 :> "arxiv")
AllHashes == (g1 :> h1 @@ g2 :> h2 @@ f1 :> h3 @@ x1 :> h3)
Kind == [i \in Items |-> AllKinds[i]]
Hash == [i \in Items |-> AllHashes[i]]

\* The trending list, a feed and a project named by the user, and a source without a tool.
Lists == {[sources |-> <<"github">>, target |-> NoItem],
          [sources |-> <<"rss", "github">>, target |-> g1],
          [sources |-> <<"hacker_news">>, target |-> NoItem]}
Papers == {[sources |-> <<"rss">>, target |-> NoItem], [sources |-> <<"arxiv">>, target |-> NoItem]}
=============================================================================
