---------------------------- MODULE MCPathParser ----------------------------
(* Instances of the path parser for TLC, and a reference for it: the text  *)
(* is cut at its commas, dots and brackets, with no thought of order.      *)
EXTENDS PathParser

CONSTANT MaxSpec   \* longest path list

(* A letter, a digit, what the grammar tells apart, and a blank.           *)
Alphabet == {"a", "1", "-", ".", "[", "]", ",", " "}
AllSpecs == UNION {[1 .. n -> Alphabet] : n \in 0 .. MaxSpec}
            \cup {<<"a", "[">> \o t \o <<"]">> : t \in [1 .. 3 -> {"1", "-", " "}]}

(* The parts of a text between the characters c.                           *)
RECURSIVE Split(_, _)
Split(t, c) ==
  LET cuts == {k \in DOMAIN t : t[k] = c} IN
  IF cuts = {} THEN <<t>>
  ELSE LET k == Min(cuts) IN
       <<SubSeq(t, 1, k - 1)>> \o Split(SubSeq(t, k + 1, Len(t)), c)

Ink(t)      == {k \in DOMAIN t : t[k] # " "}
LeftTrim(t) == SubSeq(t, Min(Ink(t) \cup {Len(t) + 1}), Len(t))
Trim(t)     == Reverse(LeftTrim(Reverse(LeftTrim(t))))

(* The numbers a text may write in an int.                                 *)
Numeral(n) == CASE n = 1 -> <<"1">> [] n = 11 -> <<"1", "1">>
                [] n = -1 -> <<"-", "1">> [] n = -11 -> <<"-", "1", "1">>
Ints       == {n \in {1, 11, -1, -11} : n \in -IntMax - 1 .. IntMax}

(* What one part between dots writes: a key, or a key and an index.        *)
ItemOf(t) ==
  LET cut  == Split(t, "[")
      key  == [type |-> "key", key |-> LeftTrim(cut[1])]
      rest == IF Len(cut) = 2 THEN Trim(cut[2]) ELSE << >>
      ns   == {n \in Ints : rest # << >> /\ Last(rest) = "]"
                            /\ Trim(Front(rest)) = Numeral(n)}
  IN IF key.key = << >> THEN {}
     ELSE IF Len(cut) = 1 THEN {<<key>>}
     ELSE {<<key, [type |-> "index", index |-> n]>> : n \in ns}

(* A path: nothing but blanks, or items between dots.                      *)
PathOf(t) ==
  LET parts == Split(t, ".") IN
  IF Trim(t) = << >> THEN {<< >>}
  ELSE IF \E k \in DOMAIN parts : ItemOf(parts[k]) = {} THEN {}
  ELSE {FlattenSeq([k \in DOMAIN parts |-> CHOOSE x \in ItemOf(parts[k]) : TRUE])}

ListOf(t) ==
  LET parts == Split(t, ",") IN
  IF \E k \in DOMAIN parts : PathOf(parts[k]) = {} THEN {}
  ELSE {[k \in DOMAIN parts |-> CHOOSE x \in PathOf(parts[k]) : TRUE]}

(* parse() accepts exactly the texts that write a list of paths, and       *)
(* returns that list: no number of a bracket that was given back, no       *)
(* element of another path and no empty key is in it.                      *)
ParsesAsWritten ==
  /\ rule = "accepted" => ListOf(spec) = {paths}
  /\ rule = "threw" => ListOf(spec) = {}

=============================================================================
