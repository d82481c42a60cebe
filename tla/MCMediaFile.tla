----------------------------- MODULE MCMediaFile -----------------------------
(* MediaFile on small instances. *)
EXTENDS MediaFile, TLC

\* Of a file of size 3 a third is rounded to nothing, half of it to 1: an encode
\* of size 3 saves the one and not the other.
RoundedOrNot == {33, 50}

\* Slots are interchangeable.
RunSymmetry == Permutations(Run)

=============================================================================
