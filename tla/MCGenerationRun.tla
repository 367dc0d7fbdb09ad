-------------------------- MODULE MCGenerationRun --------------------------
\* Small instances of GenerationRun.
EXTENDS GenerationRun, TLC

Symmetry == Permutations(Pictures)
==============================================================================
