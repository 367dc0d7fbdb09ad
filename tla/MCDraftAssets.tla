----------------------------- MODULE MCDraftAssets -----------------------------
\* Small instances of DraftAssets for TLC.
EXTENDS DraftAssets

CONSTANTS d1, d2
=============================================================================
