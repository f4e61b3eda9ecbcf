------------------------------ MODULE JsonText ------------------------------
(***************************************************************************)
(* The reference the constructor is judged by on text that need not be     *)
(* JSON: which characters belong to string literals, by the grammar's rule *)
(* for quotes and backslashes, and how deep the brackets outside literals  *)
(* nest.  Nothing here is code of the repository.  A collection c has a    *)
(* `text' and the offsets `ends' of its documents' ends; positions in the  *)
(* text start with 1.                                                      *)
(***************************************************************************)
EXTENDS Integers, Sequences, FiniteSets, Escapes

Opening    == {"{", "["}
Closing    == {"}", "]"}
Separating == {",", ":"}

(* Character p of the literal opened at a is escaped: the backslashes just *)
(* before it in the literal are odd in number.                             *)
EscapedAt(t, a, p) ==
  \E k \in a + 1 .. p - 1 :
    /\ (p - k) % 2 = 1
    /\ \A m \in k .. p - 1 : t[m] = Backslash
    /\ k > a + 1 => t[k - 1] # Backslash

EndsLiteral(t, a, p) == p > a /\ t[p] = Quote /\ ~EscapedAt(t, a, p)

EndsDocument(c, p) == \E d \in DOMAIN c.ends : p = c.ends[d]

(* The quote that opens the literal of character p, 0 outside literals,    *)
(* when the one of the character before is a.                              *)
LiteralFrom(c, a, p) ==
  IF a # 0 /\ ~EndsDocument(c, p - 1) /\ ~EndsLiteral(c.text, a, p - 1) THEN a
  ELSE IF c.text[p] = Quote THEN p ELSE 0

LiteralAt(c) ==
  LET at[p \in 0 .. Len(c.text)] ==
        IF p = 0 THEN 0 ELSE LiteralFrom(c, at[p - 1], p)
  IN at

(* A literal has begun by character p and not ended with it.               *)
LiteralOpen(c, p) ==
  LET a == LiteralAt(c)[p] IN a # 0 /\ ~EndsLiteral(c.text, a, p)

(* The characters of a set among the first p that are in no literal.       *)
Outside(c, chars, p) ==
  {q \in 1 .. p : c.text[q] \in chars /\ LiteralAt(c)[q] = 0}

Depth(c, p) ==
  Cardinality(Outside(c, Opening, p)) - Cardinality(Outside(c, Closing, p))

(* Nothing is closed or separated, among the first n characters, but       *)
(* inside a bracket.                                                       *)
BracketsNest(c, n) ==
  \A p \in Outside(c, Closing \cup Separating, n) : Depth(c, p - 1) > 0

=============================================================================
