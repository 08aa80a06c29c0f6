------------------------------ MODULE MCMerge ------------------------------
(* Merge on small inputs: two keys and an event without one, interleaved. *)
EXTENDS Merge

TwoKeys == {1, 2}

\* Keys 1, 2, 1, none, 1: groups of two keys overlap, and key 1 gets a second
\* group while the timer of its first may be pending.
Interleaved == <<1, 2, 1, 0, 1>>
=============================================================================
