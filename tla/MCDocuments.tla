---------------------------- MODULE MCDocuments ----------------------------
(***************************************************************************)
(* The sample documents of the bounded runs: every tree of a small shape   *)
(* over leaves and keys chosen to be awkward (structural characters and    *)
(* escaped quotes inside strings, a backslash just before the closing      *)
(* quote, a key that is a prefix of another, a key with an escape).        *)
(***************************************************************************)
EXTENDS JsonTree

Num  == Literal(<<"1">>)
Null == Literal(<<"n">>)
Str  == Literal(<<"\"", "{", ",", "\\", "\"", "\"">>)
Bs   == Literal(<<"\"", "\\", "\\", "\"">>)

KeyA  == [raw |-> <<"a">>, key |-> <<"a">>]
KeyAB == [raw |-> <<"a", "b">>, key |-> <<"a", "b">>]
KeyQ  == [raw |-> <<"\\", "\"">>, key |-> <<"\"">>]

(* What the documents mean: the value of a parser that undoes escapes.     *)
RECURSIVE Meaning(_)
Meaning(v) ==
  CASE v = Num -> [kind |-> "number"]
    [] v = Null -> [kind |-> "word", word |-> "n"]
    [] v = Str -> [kind |-> "string", chars |-> <<"{", ",", "\"">>]
    [] v = Bs -> [kind |-> "string", chars |-> <<"\\">>]
    [] v.kind = "array" ->
         [kind |-> "array", items |-> [i \in DOMAIN v.elems |-> Meaning(v.elems[i])]]
    [] v.kind = "object" ->
         [kind |-> "object",
          items |-> [k \in {v.members[i].key : i \in DOMAIN v.members} |->
                       Meaning(Child(v, Key(k)))]]

(* All the containers with at most two children taken from vs and ws, and  *)
(* distinct keys from ks.                                                  *)
Arrays(vs, ws) ==
  {Array(<< >>)} \cup {Array(<<v>>) : v \in vs} \cup {Array(<<v, w>>) : v \in vs, w \in ws}

Objects(ks, vs, ws) ==
  LET M(k, v) == Member(k.raw, k.key, v) IN
  {Object(<< >>)}
  \cup {Object(<<M(k, v)>>) : k \in ks, v \in vs}
  \cup UNION {{Object(<<M(k, v), M(l, w)>>) : v \in vs, w \in ws, l \in ks \ {k}} : k \in ks}

Inner == Arrays({Num, Str}, {Bs}) \cup Objects({KeyA, KeyAB}, {Num, Str}, {Null})
Roots == Arrays(Inner \cup {Str}, {Num, Array(<< >>), Object(<< >>)})
         \cup Objects({KeyA, KeyAB, KeyQ}, Inner \cup {Bs}, {Num, Array(<<Str, Null>>)})

Space   == <<" ">>
NoSpace == << >>

Compact == Style(NoSpace, NoSpace, NoSpace, NoSpace)
Spaced  == Style(Space, Space, NoSpace, NoSpace)
Wide    == Style(Space, Space, Space, Space)

=============================================================================
