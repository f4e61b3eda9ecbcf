------------------------------- MODULE MCBuild -------------------------------
(* Instances of the semi-index constructor for TLC.                        *)
EXTENDS SemiIndexBuild, MCDocuments

CONSTANT MaxText   \* longest arbitrary text

(* One character per case of the switch, and the ones literals are about.  *)
Alphabet == {"{", "]", ",", "\"", "\\", "a"}

(* Two documents, the second one small, in every style.                    *)
DocumentCollections ==
  {Collection(<<v, w>>, st) :
     v \in Roots, w \in {Object(<< >>), Array(<<Str>>)}, st \in {Compact, Spaced, Wide}}

(* Any characters at all, as one or two documents.                         *)
AnyTextCollections ==
  UNION {{[text |-> t, ends |-> IF two THEN <<n \div 2, n>> ELSE <<n>>] :
            t \in [1 .. n -> Alphabet]} : n \in 0 .. MaxText, two \in BOOLEAN}

(* Whether the collection was written from trees.                          *)
WellFormed == "trees" \in DOMAIN jsons

BuildCollections == DocumentCollections \cup AnyTextCollections

(* Once built, the index of well-formed documents is what the README's     *)
(* prose says of it (the figure below it shows other bits): nav has its    *)
(* ones at the structural characters outside literals and nowhere else,    *)
(* and bp is the concatenation of the parsing trees of the documents,      *)
(* whatever the strings contain.                                           *)
IndexEncodesTrees ==
  pc = "built" /\ WellFormed =>
    /\ {nav[i] + 1 : i \in DOMAIN nav} = {p \in DOMAIN jsons.marks : jsons.marks[p]}
    /\ bp = FlattenSeq([d \in DOMAIN jsons.trees |-> Parens(jsons.trees[d])])

(* What test_balanced checks on one example: no prefix of bp closes more   *)
(* than it opens, and at the end of every document everything is closed,   *)
(* so that cursor::next() finds the next root right after a root.          *)
BalancedAtDocumentEnds ==
  WellFormed =>
    /\ \A i \in DOMAIN excess : excess[i] >= 0
    /\ pc = "scan" /\ (s > Len(jsons.ends) \/ json = IF s = 1 THEN 0 ELSE jsons.ends[s - 1])
         => excess[Len(excess)] = 0

(* A well-formed document is never rejected.                               *)
WellFormedIsBuilt == WellFormed => <>(pc = "built")

=============================================================================
