----------------------------- MODULE WorkQueue -----------------------------
(***************************************************************************)
(* The deques of a team member's slot, as sequences: what a deque holds,   *)
(* what is left of it when some entries are removed, and the orders in     *)
(* which a hash map can hand out the entries of a set.                     *)
(*                                                                         *)
(* Without is written as a recursive function rather than with SelectSeq   *)
(* so that its properties can be proved (WorkQueueProofs).                 *)
(***************************************************************************)
EXTENDS Naturals, Sequences, FiniteSets

\* The entries of a deque.
Elems(q) == {q[i] : i \in 1..Len(q)}

\* Kept(q, S)[n]: what is left of the first n entries without those in S.
Kept(q, S) ==
    LET kept[n \in 0..Len(q)] ==
          IF n = 0 THEN <<>>
          ELSE IF q[n] \in S THEN kept[n - 1] ELSE Append(kept[n - 1], q[n])
    IN  kept

\* Without the entries in S, the others in their order.
Without(q, S) == Kept(q, S)[Len(q)]

\* Only the entries in S, in their order.
Only(q, S) == Without(q, Elems(q) \ S)

\* The sequences that list every element of the finite set S once: the orders
\* in which an iteration over a HashMap may meet them.
Orders(S) == {q \in [1..Cardinality(S) -> S] :
                 \A x \in S : \E i \in 1..Cardinality(S) : q[i] = x}

\* No entry is listed twice.
Distinct(q) == \A i, j \in 1..Len(q) : q[i] = q[j] => i = j
=============================================================================
