---------------------------- MODULE MCSelectAny ----------------------------
(* json_select over texts that need not be JSON.                           *)
EXTENDS JsonSelect, JsonParser

CONSTANT MaxText   \* longest text

(* The brackets the navigation tells apart, a separator, the quote and the *)
(* backslash.                                                              *)
Alphabet == {"{", "[", "]", ",", "\"", "\\"}

(* Longer texts, in which literals with escapes are elements of an array.  *)
Bracketed == {[text |-> <<"[">> \o t \o <<"]">>, ends |-> <<MaxText + 2>>] :
                t \in [1 .. MaxText -> {"\"", "\\", ","}]}

(* Two objects side by side, with and without a value for their key.       *)
Bodies == {<<"\"", "\"">>, <<"\"", "\"", ",">>, <<"\"", "\"", ",", "[", "]">>}
Neighbours == {[text |-> <<"{">> \o b \o <<"]", "{">> \o c \o <<"]">>,
                ends |-> <<Len(b) + 2, Len(b) + Len(c) + 4>>] : b \in Bodies, c \in Bodies}

(* A line with no root, blank or a scalar, before or between lines that    *)
(* have one.                                                               *)
Rootless == {[text |-> <<"[", "]", "[", "]">>, ends |-> e] : e \in {<<0, 2, 4>>, <<2, 2, 4>>}}
            \cup {[text |-> <<"\"", "\"", "[", "]", "[", "]">>, ends |-> <<2, 4, 6>>]}

(* Any characters at all, as one line, or as two if there is room.         *)
AnyTextCollections ==
  UNION {{[text |-> t, ends |-> <<n>>] : t \in [1 .. n -> Alphabet]} : n \in 0 .. MaxText}
  \cup
  UNION {{[text |-> t, ends |-> <<n \div 2, n>>] : t \in [1 .. n -> Alphabet]} :
           n \in 0 .. MaxText - 1}
  \cup Bracketed \cup Neighbours \cup Rootless

(* accessor::parse() on any value the navigation reaches, in any text: the *)
(* parser and the constructor agree on where every literal ends, so that   *)
(* quoted_string finds its closing quote before the end of the range and   *)
(* never reads the character after a last backslash, which would take it   *)
(* past `last' for good.                                                   *)
LiteralsWhole ==
  \A k \in DOMAIN row :
    RootAtBase /\ row[k] # NullCell =>
      parse(input.text, row[k][1], row[k][2]).is \notin {"past", "unended"}

(* The two shortest keys these texts can have.                             *)
NoKey    == [type |-> "key", key |-> << >>]
CommaKey == [type |-> "key", key |-> <<",">>]
Index(n) == [type |-> "index", index |-> n]

(* One step forward, backward and by key, and each inside another.         *)
AnyPathLists == {<< << >> >>, << <<NoKey>>, <<CommaKey>> >>,
                 << <<Index(1)>>, <<Index(-1), Index(0)>> >>,
                 << <<Index(0), NoKey>>, <<NoKey, Index(-2)>> >>, << <<NoKey, NoKey>> >>}

=============================================================================
