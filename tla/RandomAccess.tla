---------------------------- MODULE RandomAccess ----------------------------
(***************************************************************************)
(* What a decompressor promises its clients: iterators over the bytes of   *)
(* the original file, each with a position of its own, and every read      *)
(* returns the byte at the iterator's position.  No blocks and no cache.   *)
(***************************************************************************)
EXTENDS Integers

CONSTANT Iterators

VARIABLES
  size,     \* size of the original file
  pos,      \* position of every iterator, -1 for one that has none
  result    \* the last read: where, and the offset of the byte returned

Init == pos = [it \in Iterators |-> -1] /\ result = [pos |-> -1, byte |-> -1]

Place(it) ==
  /\ \E p \in 0 .. size : pos' = [pos EXCEPT ![it] = p]
  /\ UNCHANGED <<size, result>>

Read(it) ==
  /\ pos[it] \in 0 .. size - 1
  /\ result' = [pos |-> pos[it], byte |-> pos[it]]
  /\ UNCHANGED <<size, pos>>

Spec == Init /\ [][\E it \in Iterators : Place(it) \/ Read(it)]_<<size, pos, result>>

=============================================================================
