------------------------------ MODULE MCSelect ------------------------------
(* Instances of json_select for TLC.                                       *)
EXTENDS JsonSelect, JsonParser, MCDocuments

KA  == Key(<<"a">>)
KAB == Key(<<"a", "b">>)
KQ  == Key(<<"\"">>)

(* Present and absent keys, indices on both sides of both bounds, keys of  *)
(* arrays, indices of objects, paths through scalars, the empty path.      *)
Paths ==
  {<< >>, <<KA>>, <<KAB>>, <<KQ>>, <<KA, KAB>>, <<KAB, KA>>, <<KQ, KA>>}
  \cup {<<Index(n)>> : n \in -3 .. 2}
  \cup {<<KA, Index(n)>> : n \in {-2, 0, 1}}
  \cup {<<Index(0), KA>>, <<Index(-1), Index(-1)>>, <<Index(0), KAB>>}

(* The range of a cell without the blanks around the value.                *)
Value(cell) ==
  LET ink == {p \in cell[1] + 1 .. cell[2] : input.text[p] # " "} IN
  IF cell = NullCell THEN << >>
  ELSE IF ink = {} THEN <<"blank">>
  ELSE SubSeq(input.text, CHOOSE p \in ink : \A q \in ink : p <= q,
                          CHOOSE p \in ink : \A q \in ink : p >= q)

Abstract ==
  INSTANCE Extraction WITH
    documents <- [trees |-> input.trees, style |-> input.style], wanted <- paths,
    answers <- [r \in DOMAIN out |-> [k \in DOMAIN out[r] |-> Value(out[r][k])]]

(* json_select gives the answers of the documents' trees: whatever the     *)
(* path, the value found through the index is the one the tree has, and    *)
(* null is printed exactly when there is none.                             *)
ExtractsValues == Abstract!Spec

(* On documents in the spaced layout, with no blank in an empty container, *)
(* the navigation never asks for a parenthesis, a one or a byte that does  *)
(* not exist: the next quote check_key looks for is there.  (In { } it is  *)
(* not, and the search leaves the document or the buffer.)  The one way to *)
(* leave the index is a stream with more lines than the index has roots,   *)
(* the file having grown since si_save, and then every indexed document    *)
(* has been answered; the mapped file may have grown, since the cursor     *)
(* ends the walk.                                                          *)
NothingUndefined ==
  step = "undefined" =>
    mode = "stream" /\ Len(input.ends) > Len(input.trees) /\ Len(out) = Len(input.trees)

(* The same, as a statement about the rows written so far.                 *)
Asked == (DOMAIN out) \X (DOMAIN paths)
Found(r, k) == Lookup(input.trees[r], paths[k])

(* accessor::parse() of a value found through the index gives the value    *)
(* the tree has there: ranges start and end where the grammar needs them   *)
(* to, std::terminate() is not called, and both halves of the program undo *)
(* escapes alike.                                                          *)
ParsesBack ==
  step = "row" =>
    \A k \in DOMAIN row :
      row[k] # NullCell =>
        LET r == parse(input.text, row[k][1], row[k][2]) IN
        Matches(r) /\ r.val = Meaning(Found(Len(out) + 1, k))

(* "We can now extract the same attributes as before but taking advantage  *)
(* of the semi-index" (README.md): every value a document has is printed.  *)
SameAttributes ==
  \A a \in Asked : Value(out[a[1]][a[2]]) = Abstract!Answer(input.trees[a[1]], paths[a[2]])

(* What the tests of json_semi_index say of an index or a key that is not  *)
(* there: the accessor is not valid, so that null is printed.              *)
AbsentIsNull == \A a \in Asked : Found(a[1], a[2]) = Nothing => out[a[1]][a[2]] = NullCell

-----------------------------------------------------------------------------
(* Documents as Python's json.dumps writes them, one per line.             *)
Leaves     == {Num, Array(<< >>), Object(<< >>), Array(<<Str, Bs>>),
               Object(<<Member(<<"a">>, <<"a">>, Num), Member(<<"a", "b">>, <<"a", "b">>, Str)>>)}
QueryRoots == Arrays(Leaves, {Num, Array(<<Null, Null>>)})
              \cup Objects({KeyA, KeyAB, KeyQ}, Leaves, {Array(<<Str, Null>>)})

SpacedCollections == {Collection(<<v, Object(<< >>)>>, Spaced) : v \in QueryRoots}

(* One more document the file may have grown by.                           *)
NewLines == {Chars(DocCells(Array(<<Num>>), Spaced))}

SinglePaths == {<<p>> : p \in Paths} \cup {<< <<KA>>, <<Index(0)>>, << >> >>}

SpacedObject == Object(<<Member(<<"a">>, <<"a">>, Num), Member(<<"b">>, <<"b">>, Str)>>)
KB == Key(<<"b">>)

(* The same two members with no blank after the comma.                     *)
CompactCollections == {Collection(<<SpacedObject>>, Compact)}
MemberPaths        == {<< <<KA>>, <<KB>> >>}

(* An empty object written with a blank inside, and a document after it.   *)
BlankInside            == Style(Space, Space, Space, NoSpace)
BlankObjectCollections ==
  {Collection(<<Object(<< >>), Object(<<Member(<<"a">>, <<"a">>, Num)>>)>>, BlankInside)}
KeyOfEmpty             == {<< <<KA, KA>> >>}

=============================================================================
