----------------------------- MODULE MCSlotWork -----------------------------
(* Small instances of SlotWork for TLC. *)
EXTENDS SlotWork, TLC

\* Work items, messages and runs are interchangeable; so are slots.
WorkSymmetry ==
    Permutations(Works) \cup Permutations(Messages) \cup Permutations(Slots)
=============================================================================
