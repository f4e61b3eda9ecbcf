----------------------------- MODULE Baselines -----------------------------
(***************************************************************************)
(* The commands of json_select the semi-index is compared with:            *)
(* naive_parse_stream parses every line with JsonCpp and walks the values  *)
(* in memory; bson_save writes every line as a BSON object, and            *)
(* bson_parse_mapped walks the objects of that file.  A printed cell is    *)
(* the value it is the text of.                                            *)
(***************************************************************************)
EXTENDS JsonTree, TLC

CONSTANTS Inputs,      \* the sequences of documents, one per line
          PathLists,   \* the path lists a user may ask for
          UIntMod      \* the modulus of unsigned int

ASSUME UIntModAssumption == UIntMod \in Nat \ {0}

VARIABLES
  lines,          \* the documents
  step,           \* which loop the program is in
  mode,           \* the command: "naive", "bson", or "none" yet
  paths,          \* the parsed paths_spec
  line,           \* number of documents read
  row,            \* the cells printed for the current document
  out,            \* the rows printed
  element,        \* number of path elements done
  accessor,       \* naive: the Json::Value reached
  bson_file,      \* bson: the objects written
  cur_obj,        \* bson: the fields of the object the next element is looked up in
  cur_elem,       \* bson: the element reached
  cur_is_array    \* bson: whether cur_obj is known to be an array

bsonVars   == <<cur_obj, cur_elem, cur_is_array>>
driverVars == <<lines, mode, paths, bson_file>>
vars == <<driverVars, step, line, row, out, element, accessor, bsonVars>>

-----------------------------------------------------------------------------
(* Json::Value: an object is a map, so of members with one key the last    *)
(* stays.  Words are one character, as in JsonParser.                      *)
null == Literal(<<"n">>)

RECURSIVE readValue(_)
readValue(v) ==
  CASE v.kind = "literal" -> v
    [] v.kind = "array" ->
         [kind |-> "array", elems |-> [n \in DOMAIN v.elems |-> readValue(v.elems[n])]]
    [] v.kind = "object" ->
         LET Latest(k) == CHOOSE n \in DOMAIN v.members :
                          /\ v.members[n].key = k
                          /\ \A p \in n + 1 .. Len(v.members) : v.members[p].key # k
         IN [kind |-> "object",
             map |-> [k \in {v.members[n].key : n \in DOMAIN v.members} |->
                        readValue(v.members[Latest(k)].value)]]

isObject(v) == v = null \/ v.kind = "object"
isArray(v)  == v = null \/ v.kind = "array"
size(v)     == IF v.kind = "array" THEN Len(v.elems) ELSE 0

(* The two operator[] of a const Value.                                    *)
Named(v, k) == IF v.kind = "object" /\ k \in DOMAIN v.map THEN v.map[k] ELSE null
Nth(v, n)   == IF v.kind = "array" /\ n < Len(v.elems) THEN v.elems[n + 1] ELSE null

(* BSON: an object is a list of named elements, and so is an array, whose  *)
(* names are 0, 1, ... in decimal.                                         *)
EOO == [type |-> "EOO"]
Decimal(n) == <<ToString(n)>>
Field(name, elem) == [name |-> name, elem |-> elem]

RECURSIVE Elem(_)
Elem(v) ==
  CASE v.kind = "literal" -> [type |-> "Scalar", value |-> v]
    [] v.kind = "array" ->
         [type |-> "Array",
          fields |-> [n \in DOMAIN v.elems |-> Field(Decimal(n - 1), Elem(v.elems[n]))]]
    [] v.kind = "object" ->
         [type |-> "Object",
          fields |-> [n \in DOMAIN v.members |->
                        Field(v.members[n].key, Elem(v.members[n].value))]]

isABSONObj(e) == e.type \in {"Object", "Array"}

(* getField: the first field of that name.                                 *)
getField(fields, name) ==
  LET hits == {n \in DOMAIN fields : fields[n].name = name} IN
  IF hits = {} THEN EOO ELSE fields[CHOOSE n \in hits : \A p \in hits : n <= p].elem

-----------------------------------------------------------------------------
Init ==
  /\ lines \in Inputs
  /\ step = "start" /\ mode = "none"
  /\ paths = << >> /\ line = 0 /\ row = << >> /\ out = << >> /\ element = 0
  /\ accessor = null
  /\ bson_file = << >>
  /\ cur_obj = << >> /\ cur_elem = EOO /\ cur_is_array = FALSE

Naive ==
  /\ step = "start"
  /\ mode' = "naive" /\ paths' \in PathLists /\ step' = "document"
  /\ UNCHANGED <<lines, bson_file, line, row, out, element, accessor, bsonVars>>

BsonSave ==
  /\ step = "start"
  /\ mode' = "bson" /\ step' = "save"
  /\ UNCHANGED <<lines, paths, bson_file, line, row, out, element, accessor, bsonVars>>

(* fromjson takes objects only; whatever else a line holds makes it throw, *)
(* and nobody catches.                                                     *)
SaveLineLenient ==      \* variant: a line that is no object is passed over
  /\ step = "save" /\ line < Len(lines)
  /\ line' = line + 1
  /\ bson_file' = IF lines[line + 1].kind = "object"
                  THEN Append(bson_file, Elem(lines[line + 1]).fields) ELSE bson_file
  /\ UNCHANGED <<lines, step, mode, paths, row, out, element, accessor, bsonVars>>
SaveLine ==
  /\ step = "save" /\ line < Len(lines)
  /\ LET v == lines[line + 1] IN
     \/ v.kind = "object"
        /\ bson_file' = Append(bson_file, Elem(v).fields) /\ line' = line + 1 /\ step' = step
     \/ v.kind # "object"
        /\ step' = "terminated" /\ UNCHANGED <<bson_file, line>>
  /\ UNCHANGED <<lines, mode, paths, row, out, element, accessor, bsonVars>>

BsonParse ==
  /\ step = "save" /\ line = Len(lines)
  /\ line' = 0 /\ paths' \in PathLists /\ step' = "document"
  /\ UNCHANGED <<lines, mode, bson_file, row, out, element, accessor, bsonVars>>

documents == IF mode = "naive" THEN lines ELSE bson_file

NextDocument ==
  /\ step = "document"
  /\ \/ line < Len(documents) /\ line' = line + 1 /\ row' = << >> /\ step' = "row"
     \/ line = Len(documents) /\ step' = "done" /\ UNCHANGED <<line, row>>
  /\ UNCHANGED <<driverVars, out, element, accessor, bsonVars>>

(* Every path starts again from the document.                              *)
StartPath ==
  /\ step = "row" /\ Len(row) < Len(paths)
  /\ IF mode = "naive"
     THEN accessor' = readValue(lines[line]) /\ UNCHANGED bsonVars
     ELSE /\ cur_obj' = bson_file[line] /\ cur_elem' = EOO /\ cur_is_array' = FALSE
          /\ UNCHANGED accessor
  /\ element' = 0 /\ step' = "path"
  /\ UNCHANGED <<driverVars, line, row, out>>

path == paths[Len(row) + 1]
elem == path[element + 1]
Walking(m) == step = "path" /\ mode = m /\ element < Len(path)

(* A break leaves the loop with what was reached.                          *)
NaiveKey ==
  /\ Walking("naive") /\ elem.type = "key"
  /\ \/ isObject(accessor) /\ accessor' = Named(accessor, elem.key) /\ element' = element + 1
     \/ ~isObject(accessor) /\ element' = Len(path) /\ UNCHANGED accessor
  /\ UNCHANGED <<driverVars, step, line, row, out, bsonVars>>

(* size() is unsigned, and so is its sum with a negative index.            *)
(* variant: an index before the beginning is taken for the first           *)
UIntIndexClamped(v, n) ==
  IF n >= 0 THEN n ELSE IF size(v) + n < 0 THEN 0 ELSE size(v) + n
UIntIndex(v, n) == IF n >= 0 THEN n ELSE (size(v) + n) % UIntMod

NaiveIndex ==
  /\ Walking("naive") /\ elem.type = "index"
  /\ \/ /\ isArray(accessor) /\ accessor' = Nth(accessor, UIntIndex(accessor, elem.index))
        /\ element' = element + 1
     \/ ~isArray(accessor) /\ element' = Len(path) /\ UNCHANGED accessor
  /\ UNCHANGED <<driverVars, step, line, row, out, bsonVars>>

(* The end of a turn: on to the element, or to an empty object when it     *)
(* holds none, in which case cur_is_array is left as it was.               *)
EnterKeepsObject(e) ==              \* variant: a scalar leaves cur_obj alone
  /\ cur_elem' = e
  /\ cur_obj' = IF isABSONObj(e) THEN e.fields ELSE cur_obj
  /\ cur_is_array' = IF isABSONObj(e) THEN e.type = "Array" ELSE cur_is_array
  /\ element' = element + 1
Enter(e) ==
  /\ cur_elem' = e
  /\ cur_obj' = IF isABSONObj(e) THEN e.fields ELSE << >>
  /\ cur_is_array' = IF isABSONObj(e) THEN e.type = "Array" ELSE cur_is_array
  /\ element' = element + 1

BsonKey ==
  /\ Walking("bson") /\ elem.type = "key"
  /\ Enter(getField(cur_obj, elem.key))
  /\ UNCHANGED <<driverVars, step, line, row, out, accessor>>

fwd_idx == Len(cur_obj) + elem.index

BsonIndex ==
  /\ Walking("bson") /\ elem.type = "index"
  /\ \/ cur_is_array /\ elem.index >= 0 /\ Enter(getField(cur_obj, Decimal(elem.index)))
     \/ cur_is_array /\ elem.index < 0 /\ fwd_idx >= 0 /\ Enter(cur_obj[fwd_idx + 1].elem)
     \/ /\ ~cur_is_array \/ (elem.index < 0 /\ fwd_idx < 0)
        /\ cur_elem' = EOO /\ element' = Len(path) /\ UNCHANGED <<cur_obj, cur_is_array>>
  /\ UNCHANGED <<driverVars, step, line, row, out, accessor>>

WriteValue ==
  /\ step = "path" /\ element = Len(path)
  /\ row' = Append(row, IF mode = "naive" THEN accessor
                        ELSE IF cur_elem = EOO THEN Elem(null) ELSE cur_elem)
  /\ step' = "row"
  /\ UNCHANGED <<driverVars, line, out, element, accessor, bsonVars>>

WriteRow ==
  /\ step = "row" /\ Len(row) = Len(paths)
  /\ out' = Append(out, row) /\ step' = "document"
  /\ UNCHANGED <<driverVars, line, row, element, accessor, bsonVars>>

BaselineNext ==
  \/ Naive \/ BsonSave \/ SaveLine \/ BsonParse \/ NextDocument \/ StartPath
  \/ NaiveKey \/ NaiveIndex \/ BsonKey \/ BsonIndex \/ WriteValue \/ WriteRow

Spec == Init /\ [][BaselineNext]_vars /\ WF_vars(BaselineNext)

-----------------------------------------------------------------------------
Answered(m) == IF mode = m THEN (DOMAIN out) \X (DOMAIN paths) ELSE {}
Found(a)    == Lookup(lines[a[1]], paths[a[2]])

(* What bson_parse_mapped prints is what the tree has, null where it has   *)
(* nothing, with two differences from the semi-index: a key may also be    *)
(* the decimal number of an array's element, and the empty path is null.   *)
BsonChild(v, e) ==
  IF e.type = "key" /\ v.kind = "array"
  THEN LET hits == {n \in DOMAIN v.elems : Decimal(n - 1) = e.key} IN
       IF hits = {} THEN Nothing ELSE v.elems[CHOOSE n \in hits : TRUE]
  ELSE Child(v, e)

BsonFinds ==
  \A a \in Answered("bson") :
    LET found == FoldLeft(BsonChild, lines[a[1]], paths[a[2]]) IN
    out[a[1]][a[2]] = Elem(IF found = Nothing \/ paths[a[2]] = << >> THEN null ELSE found)

RECURSIVE UniqueKeys(_)
UniqueKeys(v) ==
  CASE v.kind = "literal" -> TRUE
    [] v.kind = "array" -> \A n \in DOMAIN v.elems : UniqueKeys(v.elems[n])
    [] v.kind = "object" ->
         \A n \in DOMAIN v.members :
           /\ UniqueKeys(v.members[n].value)
           /\ \A p \in DOMAIN v.members : v.members[p].key = v.members[n].key => p = n

(* How far a path leads into a document, and what it goes on from there:   *)
(* an element of another kind than the value reached ends the naive walk.  *)
Depths(a) == {k \in 0 .. Len(paths[a[2]]) :
                Lookup(lines[a[1]], SubSeq(paths[a[2]], 1, k)) # Nothing}
Deepest(a) == CHOOSE k \in Depths(a) : \A j \in Depths(a) : j <= k
Reached(a) == Lookup(lines[a[1]], SubSeq(paths[a[2]], 1, Deepest(a)))
WrongKind(v, e) == v.kind # (IF e.type = "key" THEN "object" ELSE "array")

(* What naive_parse_stream prints, as long as no object has a key twice:   *)
(* the value the document has, whichever way its index is counted; null    *)
(* where an object has no such key or an array no such element, be it      *)
(* before the first or after the last; and where the path goes on with a   *)
(* key below what is no object, or with an index below what is no array,   *)
(* the value it has come to.                                               *)
NaiveFinds ==
  \A a \in Answered("naive") :
    UniqueKeys(lines[a[1]]) =>
      out[a[1]][a[2]] =
        IF \/ Deepest(a) = Len(paths[a[2]])
           \/ WrongKind(Reached(a), paths[a[2]][Deepest(a) + 1])
        THEN readValue(Reached(a)) ELSE null

(* "We can now extract the same attributes as before but taking advantage  *)
(* of the semi-index" (README.md): where a document has no such value, the *)
(* semi-index prints null, and so should naive_parse_stream.               *)
NaivePrintsNull ==
  \A a \in Answered("naive") : Found(a) = Nothing => out[a[1]][a[2]] = null

(* Both commands answer every document, or end in fromjson's exception,    *)
(* which only a line that is no object can cause.                          *)
BaselinesEnd ==
  <>(\/ step = "done" /\ Len(out) = Len(lines)
     \/ step = "terminated" /\ \E n \in DOMAIN lines : lines[n].kind # "object")

=============================================================================
