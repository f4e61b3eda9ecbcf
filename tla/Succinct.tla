------------------------------ MODULE Succinct ------------------------------
(***************************************************************************)
(* The two succinct structures a semi-index is made of, as the code of     *)
(* json_semi_index.hpp uses them.  Their implementation is the git         *)
(* submodule `succinct', which is not part of the repository, so only what *)
(* its clients rely on is stated here.                                     *)
(*                                                                         *)
(* A bit vector of positions (elias_fano) is represented by the sequence   *)
(* of the offsets of its ones; a vector of parentheses (bp_vector) by its  *)
(* bits, 1 for "(" and 0 for ")", and its excess sequence: excess[i + 1]   *)
(* is the number of "(" minus the number of ")" among the first i bits.    *)
(* Nodes and offsets are zero-based, as in the code.                       *)
(***************************************************************************)
EXTENDS Integers, Sequences

(* elias_fano::select(n): the offset of the n-th one.                      *)
Select(ones, n) == ones[n + 1]

HasSelect(ones, n) == n \in 0 .. Len(ones) - 1

(* bp_vector::operator[].                                                  *)
Paren(bits, node) == bits[node + 1]

(* The closing parentheses at which the excess is back to its value before *)
(* the opening one at node; bp_vector::find_close returns the first.       *)
Closers(excess, node) ==
  {j \in node + 1 .. Len(excess) - 2 : excess[j + 2] = excess[node + 1]}

FindClose(excess, node) ==
  CHOOSE j \in Closers(excess, node) : \A k \in Closers(excess, node) : j <= k

(* Mirror image: bp_vector::find_open returns the last of the openers.     *)
Openers(excess, node) ==
  {j \in 0 .. node - 1 : excess[j + 1] = excess[node + 2]}

FindOpen(excess, node) ==
  CHOOSE j \in Openers(excess, node) : \A k \in Openers(excess, node) : j >= k

(* The calls that are defined: find_close expects an opening parenthesis   *)
(* that is closed, find_open a closing one that was opened.                *)
CanClose(bits, excess, node) ==
  /\ node \in 0 .. Len(bits) - 1
  /\ Paren(bits, node) = 1
  /\ Closers(excess, node) # {}

CanOpen(bits, excess, node) ==
  /\ node \in 0 .. Len(bits) - 1
  /\ Paren(bits, node) = 0
  /\ Openers(excess, node) # {}

=============================================================================
