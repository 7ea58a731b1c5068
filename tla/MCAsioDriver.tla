---------------------------- MODULE MCAsioDriver ----------------------------
(* AsioDriver with the symmetry of its interchangeable threads and buffers. *)
EXTENDS AsioDriver, TLC

\* The sizes a host asks for: in range, and out of it on both sides.
AskedSizes == {-1, 2, 4, 5}

\* Symmetry for the runs of safety properties only.
Interchangeable == Permutations(Control) \cup Permutations(Stream) \cup Permutations(Buf)

=============================================================================
