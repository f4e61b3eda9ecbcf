--------------------------- MODULE SemiIndexBuild ---------------------------
(***************************************************************************)
(* The constructor of json_semi_index_base: one left-to-right scan over a  *)
(* collection of JSON documents that appends to two bit vectors, `nav'     *)
(* (one bit per character, set at the structural characters) and `bp' (two *)
(* parentheses per structural character).                                  *)
(*                                                                         *)
(* A collection is the concatenation `text' of its documents and the       *)
(* sequence `ends' of the offsets at which they end, so that the code's    *)
(* iterator pair (s, json) is the document number s and the offset json.   *)
(***************************************************************************)
EXTENDS Integers, Sequences, Escapes, Succinct, JsonText

CONSTANT Collections   \* the collections the constructor may be given

IsCollection(c) ==
  /\ {"text", "ends"} \subseteq DOMAIN c
  /\ c.text \in Seq(STRING)
  /\ c.ends \in Seq(Nat)
  /\ \A i \in 1 .. Len(c.ends) :
       c.ends[i] <= Len(c.text) /\ (i > 1 => c.ends[i - 1] <= c.ends[i])

ASSUME CollectionsAssumption == \A c \in Collections : IsCollection(c)

VARIABLES
  jsons,      \* the collection being indexed
  s,          \* number of the current document
  json,       \* offset of the character to be read
  first,      \* offset of the quote that opened the current literal
  escaped,    \* the previous character of the literal was a backslash
  pc,         \* "scan", "string", "built", "threw"
  nav,        \* m_nav: offsets of the ones pushed so far
  nav_size,   \* m_nav: number of bits pushed so far
  bp,         \* m_bp: parentheses pushed so far
  excess      \* m_bp: excess of every prefix of bp

buildVars == <<jsons, s, json, first, escaped, pc, nav, nav_size, bp, excess>>

(* The three structural cases of the switch and the parentheses each one   *)
(* pushes.                                                                 *)
OpenChars  == {"[", "{"}
CloseChars == {"}", "]"}
SepCharsNoColon == {","}   \* variant: case ':' is missing
SepChars   == {",", ":"}
Structural == OpenChars \cup CloseChars \cup SepChars

json_end == jsons.ends[s]
char     == jsons.text[json + 1]

(* The state in which the constructor enters its loop.                     *)
Unscanned ==
  /\ s = 1
  /\ json = 0
  /\ first = 0
  /\ escaped = FALSE
  /\ pc = "scan"
  /\ nav = << >>
  /\ nav_size = 0
  /\ bp = << >>
  /\ excess = <<0>>

BuildInit == jsons \in Collections /\ Unscanned

(* variant: the builders keep what an earlier constructor pushed           *)
ConstructStale(c) ==
  /\ jsons' = c
  /\ s' = 1 /\ json' = 0 /\ first' = 0 /\ escaped' = FALSE /\ pc' = "scan"
  /\ UNCHANGED <<nav, nav_size, bp, excess>>

(* Another constructor is called, with builders of its own.                *)
Construct(c) ==
  /\ jsons' = c
  /\ s' = 1 /\ json' = 0 /\ first' = 0 /\ escaped' = FALSE /\ pc' = "scan"
  /\ nav' = << >> /\ nav_size' = 0 /\ bp' = << >> /\ excess' = <<0>>

(* Inside the current document, outside every literal.                     *)
Scanning == pc = "scan" /\ s <= Len(jsons.ends) /\ json < json_end

Weight(paren) == IF paren = 1 THEN 1 ELSE -1

(* nav.push_back(1); bp.push_back(p); bp.push_back(q).                     *)
PushStructural(p, q) ==
  LET e == excess[Len(excess)] + Weight(p) IN
  /\ nav' = Append(nav, nav_size)
  /\ nav_size' = nav_size + 1
  /\ bp' = Append(Append(bp, p), q)
  /\ excess' = Append(Append(excess, e), e + Weight(q))
  /\ json' = json + 1
  /\ UNCHANGED <<jsons, s, first, escaped, pc>>

OpenBracket  == Scanning /\ char \in OpenChars  /\ PushStructural(1, 1)

(* variant: a closing bracket opens a node, as a separator does            *)
CloseBracketReopens == Scanning /\ char \in CloseChars /\ PushStructural(0, 1)
CloseBracket == Scanning /\ char \in CloseChars /\ PushStructural(0, 0)

(* variant: the two parentheses of a separator swapped                     *)
SeparatorSwapped == Scanning /\ char \in SepChars /\ PushStructural(1, 0)
Separator    == Scanning /\ char \in SepChars   /\ PushStructural(0, 1)

OtherChar ==
  /\ Scanning
  /\ char \notin Structural \cup {Quote}
  /\ nav_size' = nav_size + 1
  /\ json' = json + 1
  /\ UNCHANGED <<jsons, s, first, escaped, pc, nav, bp, excess>>

OpenQuote ==
  /\ Scanning
  /\ char = Quote
  /\ first' = json
  /\ json' = json + 1
  /\ pc' = "string"
  /\ UNCHANGED <<jsons, s, escaped, nav, nav_size, bp, excess>>

(* variant: a backslash escapes the next character even if it is escaped   *)
LiteralCharSticky ==
  /\ pc = "string"
  /\ json < json_end
  /\ escaped \/ char # Quote
  /\ escaped' = (char = Backslash)
  /\ json' = json + 1
  /\ UNCHANGED <<jsons, s, first, pc, nav, nav_size, bp, excess>>

(* variant: the literal loop does not move on                              *)
LiteralCharStuck ==
  /\ pc = "string"
  /\ json < json_end
  /\ escaped \/ char # Quote
  /\ UNCHANGED buildVars

(* variant: a backslash escapes nothing                                    *)
LiteralCharUnescaped ==
  /\ pc = "string"
  /\ json < json_end
  /\ char # Quote
  /\ json' = json + 1
  /\ UNCHANGED <<jsons, s, first, escaped, pc, nav, nav_size, bp, excess>>

(* One turn of the literal loop that does not leave it.                    *)
LiteralChar ==
  /\ pc = "string"
  /\ json < json_end
  /\ escaped \/ char # Quote
  /\ escaped' = (~escaped /\ char = Backslash)
  /\ json' = json + 1
  /\ UNCHANGED <<jsons, s, first, pc, nav, nav_size, bp, excess>>

(* variants: the closing quote is not counted; the difference is reversed  *)
CloseQuoteWith(bits) ==
  /\ pc = "string"
  /\ json < json_end
  /\ ~escaped /\ char = Quote
  /\ nav_size' = nav_size + bits
  /\ json' = json + 1
  /\ pc' = "scan"
  /\ UNCHANGED <<jsons, s, first, escaped, nav, bp, excess>>
CloseQuoteShort    == CloseQuoteWith(json - first)
CloseQuoteReversed == CloseQuoteWith(first - json + 1)

CloseQuote ==
  /\ pc = "string"
  /\ json < json_end
  /\ ~escaped /\ char = Quote
  /\ nav_size' = nav_size + (json - first + 1)
  /\ json' = json + 1
  /\ pc' = "scan"
  /\ UNCHANGED <<jsons, s, first, escaped, nav, bp, excess>>

(* throw std::invalid_argument("Unterminated string literal").             *)
Unterminated ==
  /\ pc = "string"
  /\ json = json_end
  /\ pc' = "threw"
  /\ UNCHANGED <<jsons, s, json, first, escaped, nav, nav_size, bp, excess>>

NextDocument ==
  /\ pc = "scan"
  /\ s <= Len(jsons.ends)
  /\ json = json_end
  /\ s' = s + 1
  /\ escaped' = FALSE
  /\ UNCHANGED <<jsons, json, first, pc, nav, nav_size, bp, excess>>

(* The builders are turned into m_nav and m_bp.                            *)
Freeze ==
  /\ pc = "scan"
  /\ s > Len(jsons.ends)
  /\ pc' = "built"
  /\ UNCHANGED <<jsons, s, json, first, escaped, nav, nav_size, bp, excess>>

BuildNext ==
  \/ OpenBracket \/ CloseBracket \/ Separator \/ OtherChar
  \/ OpenQuote \/ LiteralChar \/ CloseQuote \/ Unterminated
  \/ NextDocument \/ Freeze

BuildSpec == BuildInit /\ [][BuildNext]_buildVars /\ WF_buildVars(BuildNext)

-----------------------------------------------------------------------------
BuildTypeOK ==
  /\ IsCollection(jsons)
  /\ s \in Nat \ {0}
  /\ json \in Nat
  /\ first \in Nat
  /\ escaped \in BOOLEAN
  /\ pc \in {"scan", "string", "built", "threw"}
  /\ nav \in Seq(Nat)
  /\ nav_size \in Nat
  /\ bp \in Seq({0, 1})
  /\ excess \in Seq(Int)

(* Bit n of nav stands for character n of the collection: every character, *)
(* of a literal or not, of this document or an earlier one, has moved the  *)
(* vector by exactly one bit.  The offsets select() returns are positions  *)
(* in the JSON file only because of this.                                  *)
NavAligned ==
  /\ pc \in {"scan", "built"} => nav_size = json
  /\ pc \in {"string", "threw"} => nav_size = first /\ first < json

(* Every one of nav marks a structural character, in increasing order, and *)
(* the parentheses 2i and 2i + 1 are the two its switch case pushes.       *)
NavMarksStructure ==
  /\ Len(bp) = 2 * Len(nav)
  /\ \A i \in 1 .. Len(nav) :
       /\ nav[i] < nav_size
       /\ \A j \in 1 .. Len(nav) : i < j => nav[i] < nav[j]
       /\ LET c == jsons.text[nav[i] + 1] IN
          /\ c \in Structural
          /\ bp[2 * i - 1] = (IF c \in OpenChars THEN 1 ELSE 0)
          /\ bp[2 * i]     = (IF c \in CloseChars THEN 0 ELSE 1)

(* In any text at all, nav has its ones exactly at the brackets, commas    *)
(* and colons that no string literal contains: a quote ends a literal only *)
(* after an even number of backslashes, those before its opening quote and *)
(* those of an earlier document not counted.                               *)
NavMarksOutside ==
  {nav[i] + 1 : i \in DOMAIN nav}
    = Outside(jsons, Opening \cup Closing \cup Separating, nav_size)

(* The constructor throws exactly when a document ends in a literal: it    *)
(* accepts no such document, and refuses no other.                         *)
ThrowsInLiteral ==
  /\ pc = "built" => \A d \in DOMAIN jsons.ends : ~LiteralOpen(jsons, jsons.ends[d])
  /\ pc = "threw" => \E d \in DOMAIN jsons.ends : LiteralOpen(jsons, jsons.ends[d])

(* The excess of bp is at every moment twice the depth of the brackets     *)
(* read so far, in documents and across their ends; and no prefix of bp    *)
(* closes more than it opens exactly if nothing is closed or separated     *)
(* outside brackets, a comma between documents included.                   *)
ParensFollowBrackets ==
  /\ excess[Len(excess)] = 2 * Depth(jsons, nav_size)
  /\ (\A k \in DOMAIN excess : excess[k] >= 0) <=> BracketsNest(jsons, nav_size)

(* The excess starts with zero, changes by one at every parenthesis and is *)
(* even between the pairs: what the proofs need to know of it.             *)
ExcessShape ==
  /\ Len(excess) = Len(bp) + 1
  /\ excess[1] = 0
  /\ \A i \in 1 .. Len(nav) + 1 : excess[2 * i - 1] % 2 = 0
  /\ \A i \in 1 .. Len(bp) : excess[i + 1] = excess[i] + Weight(bp[i])

(* The constructor returns or throws: no literal can hold the scan.        *)
BuildEnds == <>(pc \in {"built", "threw"})

=============================================================================
