------------------------------ MODULE JsonTree ------------------------------
(***************************************************************************)
(* The reference the semi-index is judged by: JSON documents as trees, the *)
(* text a tree is written as, the parentheses that encode it and the value *)
(* a path designates in it.  Nothing here is code of the repository: it    *)
(* states what the README and the tests say a document means.              *)
(***************************************************************************)
EXTENDS Integers, Sequences, SequencesExt

(* A literal (number, true, null or a string with its quotes), an array    *)
(* and an object.  A member's `raw' is its key as written between quotes,  *)
(* `key' what the key is once its escapes are undone.                      *)
Literal(chars)  == [kind |-> "literal", chars |-> chars]
Array(elems)    == [kind |-> "array", elems |-> elems]
Object(members) == [kind |-> "object", members |-> members]
Member(raw, key, value) == [raw |-> raw, key |-> key, value |-> value]
Nothing         == [kind |-> "nothing"]

(* White space a writer may put after a comma, after a colon, inside an    *)
(* empty container and before a document.                                  *)
Style(comma, colon, empty, lead) ==
  [comma |-> comma, colon |-> colon, empty |-> empty, lead |-> lead]

(* A written character and whether it is structural: the writer knows,     *)
(* without looking at quotes and backslashes.                              *)
Plain(chars) == [i \in 1 .. Len(chars) |-> [c |-> chars[i], mark |-> FALSE]]
Mark(c)      == <<[c |-> c, mark |-> TRUE]>>

Joined(parts, comma) ==
  FoldLeft(LAMBDA acc, p : IF acc = << >> THEN p ELSE acc \o Mark(",") \o Plain(comma) \o p,
           << >>, parts)

RECURSIVE Cells(_, _)
Cells(v, st) ==
  CASE v.kind = "literal" -> Plain(v.chars)
    [] v.kind = "array" ->
         Mark("[")
         \o (IF v.elems = << >> THEN Plain(st.empty)
             ELSE Joined([i \in DOMAIN v.elems |-> Cells(v.elems[i], st)], st.comma))
         \o Mark("]")
    [] v.kind = "object" ->
         Mark("{")
         \o (IF v.members = << >> THEN Plain(st.empty)
             ELSE Joined([i \in DOMAIN v.members |->
                           LET m == v.members[i] IN
                           Plain(<<"\"">> \o m.raw \o <<"\"">>) \o Mark(":")
                           \o Plain(st.colon) \o Cells(m.value, st)], st.comma))
         \o Mark("}")

Chars(cells) == [i \in DOMAIN cells |-> cells[i].c]
Text(v, st)  == Chars(Cells(v, st))

(* One document per line: `lines' keeps the newline in the line.           *)
DocCells(v, st) == Plain(st.lead) \o Cells(v, st) \o Plain(<<"\n">>)

(* The collection the builder is given for a sequence of trees.            *)
Collection(trees, st) ==
  LET cells == [d \in DOMAIN trees |-> DocCells(trees[d], st)]
      all   == FlattenSeq(cells)
  IN [text  |-> Chars(all),
      ends  |-> [d \in DOMAIN trees |-> Len(FlattenSeq(SubSeq(cells, 1, d)))],
      marks |-> [i \in DOMAIN all |-> all[i].mark],
      trees |-> trees,
      style |-> st]

(* The parentheses of a tree: a node per container and, inside it, a node  *)
(* per element, key and value; an empty container still has one empty node.*)
RECURSIVE Parens(_)
Wrapped(v) == <<1>> \o Parens(v) \o <<0>>
Parens(v) ==
  LET children ==
        IF v.kind = "array" THEN [i \in DOMAIN v.elems |-> Wrapped(v.elems[i])]
        ELSE [i \in DOMAIN v.members |-> <<1, 0>> \o Wrapped(v.members[i].value)]
  IN IF v.kind = "literal" THEN << >>
     ELSE <<1>> \o (IF children = << >> THEN <<1, 0>> ELSE FlattenSeq(children)) \o <<0>>

(* Path elements: a key or a (possibly negative) array index.              *)
Key(k)   == [type |-> "key", key |-> k]
Index(i) == [type |-> "index", index |-> i]

Child(v, e) ==
  IF e.type = "key"
  THEN LET hits == IF v.kind # "object" THEN {}
                   ELSE {i \in DOMAIN v.members : v.members[i].key = e.key}
       IN IF hits = {} THEN Nothing
          ELSE v.members[CHOOSE i \in hits : \A j \in hits : i <= j].value
  ELSE LET at == IF e.index >= 0 THEN e.index + 1
                 ELSE IF v.kind = "array" THEN Len(v.elems) + e.index + 1 ELSE 0
       IN IF v.kind = "array" /\ at \in DOMAIN v.elems THEN v.elems[at] ELSE Nothing

(* The value a path designates, Nothing when there is none.                *)
Lookup(v, path) == FoldLeft(Child, v, path)

=============================================================================
