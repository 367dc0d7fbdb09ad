---------------------------- MODULE MCReplyStream ----------------------------
\* Instance of ReplyStream for TLC: one run and one page.
EXTENDS ReplyStream

=============================================================================
