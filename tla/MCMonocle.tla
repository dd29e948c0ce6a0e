------------------------------ MODULE MCMonocle ------------------------------
(* Small instances of one engine for TLC.                                  *)
EXTENDS MonocleInvariant, TLC

\* Every account but the creator may be exchanged for another, and so may
\* contents: no action prefers one.
Symmetry == Permutations(Account \ {Creator}) \cup Permutations(Content)

\* Where the timelock keeps the creator from closing, all accounts are alike.
FullSymmetry == Permutations(Account) \cup Permutations(Content)

\* Where all sources are equally reliable, the initial ones are alike and so are
\* the ones that may be added.
SourceSymmetry ==
    Permutations(InitialSources) \cup Permutations(Source \ InitialSources)

=============================================================================
