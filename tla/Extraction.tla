----------------------------- MODULE Extraction -----------------------------
(***************************************************************************)
(* What json_select promises: for every document of the collection, in     *)
(* order, a list with the value of every path, in order, null where the    *)
(* document has no such value.  No index, no offsets, no parentheses.      *)
(***************************************************************************)
EXTENDS JsonTree

VARIABLES
  documents,   \* the trees and the style they are written in
  wanted,      \* the list of paths, empty until there is a query
  answers      \* one list of values per document answered so far

Answer(v, p) ==
  LET found == Lookup(v, p) IN
  IF found = Nothing THEN << >> ELSE Text(found, documents.style)

Row(v) == [k \in DOMAIN wanted |-> Answer(v, wanted[k])]

Init == wanted = << >> /\ answers = << >>

Ask ==
  /\ wanted = << >> /\ wanted' # << >>
  /\ UNCHANGED <<documents, answers>>

AnswerDocument ==
  /\ wanted # << >>
  /\ Len(answers) < Len(documents.trees)
  /\ answers' = Append(answers, Row(documents.trees[Len(answers) + 1]))
  /\ UNCHANGED <<documents, wanted>>

(* Every question is answered for every document.                          *)
AllAnswered == wanted # << >> ~> Len(answers) = Len(documents.trees)

Spec == Init /\ [][Ask \/ AnswerDocument]_<<documents, wanted, answers>> /\ AllAnswered

=============================================================================
