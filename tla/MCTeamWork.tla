----------------------------- MODULE MCTeamWork -----------------------------
(* Small instances of TeamWork for TLC. *)
EXTENDS TeamWork, TLC

\* Enqueue calls are interchangeable (each with its own row), and so are the
\* identities of recovery intents, runs and slots.
TeamSymmetry ==
    Permutations(Producers) \cup Permutations(Works \ Producers)
    \cup Permutations(Runs) \cup Permutations(Slots)
=============================================================================
