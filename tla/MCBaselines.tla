---------------------------- MODULE MCBaselines ----------------------------
(* Instances of the baselines for TLC.                                     *)
EXTENDS Baselines, MCDocuments

M(k, v) == Member(k.raw, k.key, v)
Key0    == [raw |-> <<"0">>, key |-> <<"0">>]

Pair   == Object(<<M(KeyAB, Null), M(Key0, Num)>>)
Leaves == {Num, Null, Pair, Array(<< >>), Array(<<Num, Pair>>), Array(<<Array(<<Str>>), Num>>)}
Twice  == Object(<<M(KeyA, Num), M(KeyA, Str)>>)
List   == Array(<<Twice, Num>>)

(* A document alone, and one followed by an array, which BSON cannot hold. *)
SmallInputs ==
  {<<v>> : v \in Objects({KeyA, KeyAB}, Leaves, Leaves) \cup {Twice}}
  \cup {<<Pair, List>>, <<List>>, <<Twice, Pair>>}

Steps == {Key(<<"a">>), Key(<<"a", "b">>), Key(<<"0">>)} \cup {Index(n) : n \in -3 .. 2}

(* Every path of at most two elements, longer ones below a and 0, and      *)
(* lists whose second path must not see what the first left behind.        *)
SmallPathLists ==
  {<< << >> >>} \cup {<< <<e>> >> : e \in Steps} \cup {<< <<e, f>> >> : e, f \in Steps}
  \cup {<< <<Key(<<"a">>), e, f>> >> : e, f \in Steps}
  \cup {<< <<e, f>>, <<f>> >> : e, f \in {Key(<<"a">>), Key(<<"a", "b">>), Index(0)}}

(* A number where an object was expected.                                  *)
ScalarInputs  == {<<Object(<<M(KeyA, Num)>>)>>}
ThroughScalar == {<< <<Key(<<"a">>), Key(<<"a", "b">>)>> >>}

=============================================================================
