----------------------------- MODULE JsonParser -----------------------------
(***************************************************************************)
(* json::parser::parse: the recursive-descent grammar accessor::parse()    *)
(* runs on the range of a value.  A rule takes the text t, the offset p it *)
(* starts at and the end `last' of the range, and matches up to the offset *)
(* `at' with the attribute `val', fails, or has read at `last' or beyond.  *)
(*                                                                         *)
(* Numbers are runs of digits and the words null, true and false their     *)
(* initials: nothing here depends on how these are spelt.                  *)
(***************************************************************************)
EXTENDS Integers, Sequences, TLC, Escapes

Digits == {"0", "1"}
Words  == {"n", "t", "f"}
Blanks == {" ", "\t", "\n"}

Match(at, val) == [is |-> "match", at |-> at, val |-> val]
Fail           == [is |-> "fail"]
Unended        == [is |-> "unended"]   \* a literal without its closing quote: fails
PastEnd        == [is |-> "past"]      \* *first++ with first = last: undefined
Matches(r)     == r.is = "match"
Fails(r)       == r.is \in {"fail", "unended"}

(* The skipper runs before every literal character and every rule.         *)
RECURSIVE Skip(_, _, _)
Skip(t, p, last) ==
  IF p < last /\ t[p + 1] \in Blanks THEN Skip(t, p + 1, last) ELSE p

Lit(t, p, last, c) ==
  LET q == Skip(t, p, last) IN
  IF q < last /\ t[q + 1] = c THEN Match(q + 1, c) ELSE Fail

RECURSIVE number(_, _, _)
number(t, p, last) ==
  IF p < last /\ t[p + 1] \in Digits
  THEN number(t, p + 1, last) ELSE Match(p, [kind |-> "number"])

(* quoted_string, from just after the opening quote.                       *)
RECURSIVE quoted_string(_, _, _, _)
quoted_string(t, p, last, attr) ==
  IF p = last THEN Unended
  ELSE CASE t[p + 1] = Quote -> Match(p + 1, [kind |-> "string", chars |-> attr])
         [] t[p + 1] = Backslash ->
              IF p + 1 = last THEN PastEnd
              ELSE quoted_string(t, p + 2, last, Append(attr, escape_table(t[p + 2])))
         [] OTHER -> quoted_string(t, p + 1, last, Append(attr, t[p + 1]))

string(t, p, last) ==
  LET open == Lit(t, p, last, Quote) IN
  IF Matches(open) THEN quoted_string(t, open.at, last, << >>) ELSE open

(* object::steal_append and array::steal_append: a key that comes again    *)
(* replaces its value.                                                     *)
steal_append(sofar, kind, val) ==
  IF kind = "array" THEN Append(sofar, val)
  ELSE (val.key.chars :> val.value) @@ sofar

RECURSIVE value_(_, _, _)
RECURSIVE items(_, _, _, _, _)

(* string >> ':' >> value_.                                                *)
member(t, p, last) ==
  LET key   == string(t, p, last)
      colon == IF Matches(key) THEN Lit(t, key.at, last, ":") ELSE key
      val   == IF Matches(colon) THEN value_(t, colon.at, last) ELSE colon
  IN IF Matches(val) THEN Match(val.at, [key |-> key.val, value |-> val.val]) ELSE val

(* -(item % ',') >> close, once the items sofar were read: a comma after   *)
(* which no item follows is given back, and the closing bracket fails.     *)
items(t, p, last, kind, sofar) ==
  LET comma == IF sofar = << >> THEN Match(p, "") ELSE Lit(t, p, last, ",")
      item  == CASE ~Matches(comma) -> comma
                 [] Matches(comma) /\ kind = "array" -> value_(t, comma.at, last)
                 [] Matches(comma) /\ kind = "object" -> member(t, comma.at, last)
      close == Lit(t, p, last, IF kind = "array" THEN "]" ELSE "}")
  IN CASE Matches(item) ->
            items(t, item.at, last, kind, steal_append(sofar, kind, item.val))
       [] Fails(item) /\ Matches(close) -> Match(close.at, [kind |-> kind, items |-> sofar])
       [] OTHER -> item

(* The alternatives string | number | object | array | bool | null differ  *)
(* in their first character, so that at most one of them can match.        *)
value_(t, p, last) ==
  LET q == Skip(t, p, last) IN
  CASE q = last -> Fail
    [] q < last /\ t[q + 1] = Quote -> string(t, q, last)
    [] q < last /\ t[q + 1] \in Digits -> number(t, q, last)
    [] q < last /\ t[q + 1] = "{" -> items(t, q + 1, last, "object", << >>)
    [] q < last /\ t[q + 1] = "[" -> items(t, q + 1, last, "array", << >>)
    [] q < last /\ t[q + 1] \in Words -> Match(q + 1, [kind |-> "word", word |-> t[q + 1]])
    [] OTHER -> Fail

(* parse(first, last, val): what follows the value is not looked at.       *)
parse(t, first, last) == value_(t, first, last)

=============================================================================
