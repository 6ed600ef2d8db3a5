------------------------------ MODULE MCTeeLfs ------------------------------
(* Instances of TeeLfsStorage for TLC. *)
EXTENDS TeeLfsStorage, TLC

\* Paths and handles are interchangeable; bytes are not (0 is the zeroed byte).
Symmetry == Permutations(Path) \cup Permutations(Handle)

\* What callers store: nothing, one byte (zero or not), two different bytes.
OneByte  == {<<>>, <<0>>, <<1>>}
TwoBytes == {<<>>, <<1>>, <<0, 1>>}
=============================================================================
