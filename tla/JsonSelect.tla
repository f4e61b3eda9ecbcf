----------------------------- MODULE JsonSelect -----------------------------
(***************************************************************************)
(* json_select with a semi-index: si_save builds the index of a file of    *)
(* JSON documents, one per line, and a later run answers a list of paths   *)
(* for every document, reading the lines from a stream                     *)
(* (saved_si_parse_stream) or the bytes of the mapped file, as they are    *)
(* (saved_si_parse_mapped) or through the decompressor's iterator          *)
(* (saved_si_parse_compressed), while a cursor walks over the roots of the *)
(* index.  Between the two runs the file may have grown.  Without a saved  *)
(* index, si_parse_stream builds one for every line it reads.              *)
(***************************************************************************)
EXTENDS SemiIndexNav, FiniteSets

CONSTANTS PathLists,   \* the path lists a user may ask for
          Modes,       \* which of the four functions may run
          Appended     \* the lines the file may have grown by after si_save

ASSUME ModesAssumption == Modes \subseteq {"direct", "stream", "mapped", "compressed"}

ASSUME AppendedAssumption == Appended \subseteq Seq(STRING)

ASSUME PathsAssumption ==
  \A ps \in PathLists :
    /\ ps # << >>
    /\ ps \in Seq(Seq([type : {"key"}, key : Seq(STRING)]
                      \cup [type : {"index"}, index : Int]))

VARIABLES
  mode,     \* which of the four functions runs, "none" before
  paths,    \* the parsed paths_spec
  cursor,   \* the cursor: m_index is set or null, m_node, m_offset
  line,     \* number of lines read from the stream
  row,      \* the answers given so far for the current document
  out       \* the rows written to stdout

driverVars == <<mode, paths, cursor, line>>
vars == <<buildVars, input, step, navVars, driverVars, row, out>>

NullCursor == [index |-> FALSE, node |-> 0, offset |-> 0]
NoAccessor == [is_valid |-> FALSE, node |-> 0]

(* cursor(m_index, n), with m_offset the position of the document's root.  *)
Cursor(n) == [index |-> TRUE, node |-> n, offset |-> get_pos(n, 0)]

(* cursor::next().                                                         *)
next_nodeShort == find_close(cursor.node)   \* variant: + 1 is missing
next_node  == find_close(cursor.node) + 1
HasNext    == cursor.index /\ HasClose(cursor.node)
              /\ (next_node # Len(bp) => HasPos(next_node))
CursorStays == Cursor(cursor.node)   \* variant: the result of next() is dropped
CursorNext == IF next_node = Len(bp) THEN NullCursor ELSE Cursor(next_node)

(* The null answer, printed as null.                                       *)
NullCell == << >>

Init ==
  /\ BuildInit
  /\ input = jsons
  /\ step = "save"
  /\ root = [node |-> 0, json |-> 0, offset |-> 0]
  /\ buffer = [lo |-> 0, end |-> 0, last |-> 0]
  /\ path = << >>
  /\ element = 0
  /\ acc = NoAccessor
  /\ node = 0
  /\ cur_node = 0
  /\ cur_node_pos = 0
  /\ i = 0
  /\ mode = "none"
  /\ paths = << >>
  /\ cursor = NullCursor
  /\ line = 0
  /\ row = << >>
  /\ out = << >>

LineStart(n) == IF n = 1 THEN 0 ELSE input.ends[n - 1]
Line(n) == [text |-> SubSeq(input.text, LineStart(n) + 1, input.ends[n]),
            ends |-> <<input.ends[n] - LineStart(n)>>]

(* The constructor runs to its end, in si_save or in si_parse_stream.      *)
Build ==
  /\ step \in {"save", "index"}
  /\ BuildNext
  /\ UNCHANGED <<input, step, navVars, driverVars, row, out>>

(* Someone else adds a line to the file after it was indexed.              *)
Grow ==
  /\ step = "save" /\ pc = "built" /\ input = jsons
  /\ \E chars \in Appended :
       input' = [input EXCEPT !.text = @ \o chars,
                              !.ends = Append(@, Len(input.text) + Len(chars))]
  /\ UNCHANGED <<buildVars, step, navVars, driverVars, row, out>>

(* A query maps the saved index, calls get_cursor() and parses its paths.  *)
Open ==
  /\ step = "save"
  /\ pc = "built"
  /\ HasPos(0)
  /\ mode' \in Modes \ {"direct"}
  /\ paths' \in PathLists
  /\ cursor' = Cursor(0)
  /\ step' = "document"
  /\ UNCHANGED <<buildVars, input, navVars, line, row, out>>

(* si_parse_stream, instead of si_save and a query.                        *)
OpenDirect ==
  /\ step = "save" /\ Unscanned
  /\ "direct" \in Modes
  /\ mode' = "direct"
  /\ paths' \in PathLists
  /\ step' = "document"
  /\ UNCHANGED <<buildVars, input, navVars, cursor, line, row, out>>

(* The next line gets a constructor of its own, which is given only that   *)
(* line: positions are relative to its beginning.                          *)
IndexLine ==
  /\ step = "document" /\ mode = "direct"
  /\ line < Len(input.ends)
  /\ line' = line + 1
  /\ Construct(Line(line + 1))
  /\ step' = "index"
  /\ UNCHANGED <<input, navVars, mode, paths, cursor, row, out>>

(* root = index.get_cursor().get_accessor(line.c_str()).                   *)
TakeRoot ==
  /\ step = "index" /\ pc = "built"
  /\ HasPos(0)
  /\ root' = [node |-> 0, json |-> LineStart(line), offset |-> get_pos(0, 0)]
  /\ buffer' = [lo |-> LineStart(line), end |-> input.ends[line], last |-> input.ends[line]]
  /\ step' = "row"
  /\ row' = << >>
  /\ UNCHANGED <<buildVars, input, path, element, acc, node, cur_node, cur_node_pos, i,
                 driverVars, out>>

(* variant: the cursor moves on before its accessor is taken               *)
StartDocumentLate(at, lo, end, last) ==
  /\ HasNext
  /\ root' = [node |-> CursorNext.node, json |-> at, offset |-> CursorNext.offset]
  /\ buffer' = [lo |-> lo, end |-> end, last |-> last]
  /\ cursor' = CursorNext
  /\ step' = "row"
  /\ row' = << >>
  /\ UNCHANGED <<buildVars, input, path, element, acc, node, cur_node, cur_node_pos, i,
                 mode, paths, out>>

(* The turn of the while loop for one document: its root accessor is taken *)
(* from the cursor, then the cursor moves on.                              *)
StartDocument(at, lo, end, last) ==
  /\ HasNext
  /\ root' = [node |-> cursor.node, json |-> at, offset |-> cursor.offset]
  /\ buffer' = [lo |-> lo, end |-> end, last |-> last]
  /\ cursor' = CursorNext
  /\ step' = "row"
  /\ row' = << >>
  /\ UNCHANGED <<buildVars, input, path, element, acc, node, cur_node, cur_node_pos, i,
                 mode, paths, out>>

ReadLine ==
  /\ step = "document" /\ mode = "stream"
  /\ line < Len(input.ends)
  /\ line' = line + 1
  /\ StartDocument(LineStart(line + 1), LineStart(line + 1),
                   input.ends[line + 1], input.ends[line + 1])

MapDocument ==
  /\ step = "document" /\ mode \in {"mapped", "compressed"}
  /\ cursor # NullCursor
  /\ line' = line
  /\ StartDocument(cursor.offset, 0, Len(input.text), Len(input.text) - 1)

(* The stream is exhausted, or the cursor is.                              *)
NoMoreDocuments ==
  IF mode \in {"direct", "stream"} THEN line = Len(input.ends) ELSE cursor = NullCursor

Finish ==
  /\ step = "document"
  /\ NoMoreDocuments
  /\ step' = "done"
  /\ UNCHANGED <<buildVars, input, navVars, driverVars, row, out>>

(* accessor = root.get_path(path) for the next path of the list.           *)
StartPath ==
  /\ step = "row"
  /\ Len(row) < Len(paths)
  /\ path' = paths[Len(row) + 1]
  /\ element' = 0
  /\ acc' = [is_valid |-> TRUE, node |-> root.node]
  /\ step' = "path"
  /\ UNCHANGED <<buildVars, input, root, buffer, node, cur_node, cur_node_pos, i, driverVars, row, out>>

(* accessor::get_range(), as offsets in the collection.                    *)
range == <<root.json + get_pos(acc.node, root.offset), root.json + FindEnd(acc.node, root.offset)>>
HasRange ==
  /\ HasPos(acc.node) /\ HasClose(acc.node)
  /\ range[1] >= buffer.lo /\ range[2] <= buffer.end

WriteValue ==
  /\ step = "path" /\ PathDone
  /\ \/ acc.is_valid /\ HasRange /\ row' = Append(row, range)
     \/ ~acc.is_valid /\ row' = Append(row, NullCell)
  /\ step' = "row"
  /\ UNCHANGED <<buildVars, input, navVars, driverVars, out>>

WriteRow ==
  /\ step = "row"
  /\ Len(row) = Len(paths)
  /\ out' = Append(out, row)
  /\ step' = "document"
  /\ UNCHANGED <<buildVars, input, navVars, driverVars, row>>

Navigate == NavNext /\ UNCHANGED <<buildVars, input, driverVars, row, out>>

(* The index is empty, the cursor is null or its root is never closed, or  *)
(* the navigation or the range goes where nothing is.                      *)
Undefined ==
  /\ \/ step \in {"save", "index"} /\ pc = "built" /\ ~HasPos(0)
     \/ step = "document" /\ mode # "direct" /\ ~NoMoreDocuments /\ ~HasNext
     \/ StepUndefined
     \/ step = "path" /\ PathDone /\ acc.is_valid /\ ~HasRange
  /\ step' = "undefined"
  /\ UNCHANGED <<buildVars, input, navVars, driverVars, row, out>>

SelectNext ==
  \/ Build \/ Grow \/ Open \/ ReadLine \/ MapDocument
  \/ OpenDirect \/ IndexLine \/ TakeRoot \/ Finish \/ StartPath
  \/ Navigate \/ WriteValue \/ WriteRow \/ Undefined

Spec == Init /\ [][SelectNext]_vars /\ WF_vars(SelectNext)

-----------------------------------------------------------------------------
(* The steps of get_path and of the functions it calls.                    *)
InPath == {"path", "object", "forward", "backward"}

(* Where the navigation stands is told by the parity of its nodes, for any *)
(* text, well-formed or not: roots are even, and every value reached from  *)
(* one is odd, so that get_pos and FindEnd of a value fall just inside the *)
(* structural characters around it; the loops of get_object_child and      *)
(* get_array_child look at opening parentheses of odd and closing ones of  *)
(* even number only.                                                       *)
NodeParity ==
  /\ root.node % 2 = 0 /\ cursor.node % 2 = 0
  /\ step \in InPath =>
       acc.node = root.node \/ acc.node % 2 = 1
  /\ step \in {"object", "forward"} => cur_node % 2 = 1
  /\ step = "backward" => cur_node % 2 = 0

(* A range handed to fwrite as r.second - r.first bytes never has its end  *)
(* before its beginning, whatever the text: the unsigned difference cannot *)
(* wrap around.                                                            *)
Ordered(cell) == cell = NullCell \/ cell[1] <= cell[2]
RangesOrdered ==
  /\ \A k \in DOMAIN row : Ordered(row[k])
  /\ \A r \in DOMAIN out : \A k \in DOMAIN out[r] : Ordered(out[r][k])

(* The loops of get_object_child and get_array_child hop from sibling to   *)
(* sibling and never leave their container, whatever the text: forward     *)
(* they come to its closing parenthesis at the latest, backward to its     *)
(* opening one.                                                            *)
StaysInside ==
  /\ step \in {"object", "forward"} /\ HasClose(node) =>
       cur_node \in node + 1 .. find_close(node)
  /\ step = "backward" =>
       HasClose(node) /\ cur_node \in node .. find_close(node) - 1

(* The base the accessor was given is where its root is: in a stream, the  *)
(* line starts with its root.                                              *)
RootAtBase == root.json = root.offset + IF mode = "direct" THEN LineStart(line) ELSE 0

(* The elements of a container, keys and values alike: what opens on the   *)
(* level below it.  get_object_child takes them in pairs, and where the    *)
(* last key has no value, as in {"a"}, or in an empty object with a blank  *)
(* inside, its answer is the closing parenthesis of the object.            *)
Elements(n) ==
  {m \in n + 1 .. find_close(n) : Paren(bp, m) = 1 /\ excess[m + 1] = excess[n + 2]}
RootPaired ==
  Byte(get_pos(root.node, root.offset)) = "{" => Cardinality(Elements(root.node)) % 2 = 0

(* Every answer lies in its own document, between the first and the last   *)
(* bracket of the root, whatever the text in it: no value of a neighbour   *)
(* and no byte from between the documents is printed, provided that the    *)
(* root is closed, that the accessor's base is where the root is           *)
(* (RootAtBase: a blank before the root of a line shifts everything that   *)
(* is read) and that the root is no object with a key that has no value,   *)
(* which lets a path go on in the document after it.                       *)
AnswersInDocument ==
  step \in {"row"} \cup InPath /\ RootAtBase /\ HasClose(root.node) /\ RootPaired =>
    \A k \in DOMAIN row :
      \/ row[k] = NullCell
      \/ /\ root.json + get_pos(root.node, root.offset) <= row[k][1]
         /\ row[k][2] <= root.json + FindEnd(root.node, root.offset)

(* The parentheses of the index match.  By ParensFollowBrackets they do if *)
(* the brackets of the text do.                                            *)
Balanced == (\A k \in DOMAIN excess : excess[k] >= 0) /\ excess[Len(excess)] = 0

(* Where they match, every parenthesis that cursor::next() asks for is     *)
(* there, JSON or not: the walk over the documents always finds the end of *)
(* a root.  So is every one the loops of get_object_child and              *)
(* get_array_child ask for, where the accessor's base is where its root is *)
(* (RootAtBase: elsewhere they may start from a byte that is no bracket's):*)
(* a loop finds the match of every element it passes.  Only the value of a *)
(* last key that has none is looked for at the closing parenthesis of its  *)
(* object.                                                                 *)
ParensThere ==
  Balanced =>
    /\ step = "document" /\ cursor # NullCursor => HasNext
    /\ step \in {"object", "forward", "backward"} /\ RootAtBase =>
         /\ HasClose(node) /\ AtParen
         /\ HasClose(cur_node) \/ HasOpen(cur_node)
         /\ step = "object" /\ HasClose(cur_node) =>
              \/ val_begin = find_close(node)
              \/ HasClose(val_begin) /\ HasPos(val_end + 1)

(* The cursor is not tied to the lines: document number n of a query over  *)
(* a saved index is answered from the n-th outermost bracket of the text,  *)
(* wherever that is.  Lines and roots stay in step as long as every line   *)
(* has exactly one; a line that is blank or a scalar has none, and from    *)
(* there on every line is answered from one that comes after it.           *)
Outermost == {p \in Outside(jsons, Opening, Len(jsons.text)) : Depth(jsons, p - 1) = 0}
RootsInTurn ==
  mode # "direct" /\ step = "row" /\ BracketsNest(jsons, Len(jsons.text)) =>
    /\ root.offset + 1 \in Outermost
    /\ Cardinality({p \in Outermost : p <= root.offset + 1}) = Len(out) + 1

(* How many elements of container n come before node m.                    *)
Position(n, m) == Cardinality({x \in Elements(n) : x < m})

(* get_object_child never answers with a key: an odd number of elements    *)
(* comes before what it answers with, a value or, for a last key that has  *)
(* none, the closing parenthesis of the object.  get_array_child answers   *)
(* with the element of the index, counted from the end if it is negative,  *)
(* and with none exactly if there is no such element.  This is so whatever *)
(* the text, provided that the container is closed: neither nested         *)
(* containers nor what is left open around it disturb the count.           *)
ObjectChild ==
  acc'.is_valid =>
    /\ acc'.node \in Elements(node) \cup {find_close(node)}
    /\ Position(node, acc'.node) % 2 = 1
ArrayChild ==
  LET size == Cardinality(Elements(node)) IN
  IF acc'.is_valid
  THEN /\ acc'.node \in Elements(node)
       /\ Position(node, acc'.node) = elem.index + IF elem.index < 0 THEN size ELSE 0
  ELSE elem.index \notin -size .. size - 1
ChildCounted ==
  [][HasClose(node) /\ step' = "path" =>
       /\ step = "object" => ObjectChild
       /\ step \in {"forward", "backward"} => ArrayChild]_vars

(* Every document taken moves the cursor to a later root at a later        *)
(* offset, or to the null cursor.                                          *)
CursorAdvances ==
  [][step = "document" /\ step' = "row" =>
       \/ cursor' = NullCursor
       \/ cursor'.node > cursor.node /\ cursor'.offset > cursor.offset]_vars

(* A query ends, also over a text that is not JSON: no loop of the         *)
(* navigation and no walk of the cursor goes on for ever.                  *)
SelectEnds == <>(pc = "threw" \/ step \in {"done", "undefined"})

=============================================================================
