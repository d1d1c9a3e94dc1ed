----------------------------- MODULE MCHandles -----------------------------
(* Handles for TLC: names, nodes and the handles of a kind are              *)
(* interchangeable.                                                         *)
EXTENDS Handles, TLC

Symmetry ==
  Permutations(Name) \cup Permutations(Addr) \cup Permutations(Writers)
    \cup Permutations(Handle \ Writers)

\* One read, long enough for the longest file.
AllBytes == {<<0, MaxBytes>>}
=============================================================================
