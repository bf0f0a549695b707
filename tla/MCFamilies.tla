----------------------------- MODULE MCFamilies -----------------------------
(* Families with file sizes around each size at which the buffer is full,  *)
(* and around each multiple of a chunk between.                            *)
EXTENDS Families

FileSizes ==
  {s \in 0 .. 9300 :
     \E b \in {Initial, 3 * Initial, 9 * Initial} \cup {Chunk * k : k \in 0 .. 7} : s \in b - 3 .. b + 3}
=============================================================================
