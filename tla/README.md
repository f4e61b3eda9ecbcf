# A verification of semi_index

`semi_index` answers path queries over large files of JSON documents, one per
line, without parsing them: it builds once an index of the positions and the
nesting of the structural characters, and every query then reads only the bytes
it needs, from a stream, from a mapped file or from a compressed one.  This
directory models that program in TLA+, checks the models with TLC on small
instances and proves some of their properties with TLAPS for every instance.

All sources named below are relative to the repository.  The program's own code
is `semi_index/` and `json_select.cpp`; `3rd_party/` is vendored, and
`succinct/`, a submodule, is not part of the repository.  The program is built
as `Release` (`CMakeLists.txt:26`), so its assertions are not executed: what an
assertion says is a claim, never a guard of the models.

## 1. Inventory

| Component | State | Operations | What makes it correct |
|---|---|---|---|
| Semi-index constructor (`json_semi_index.hpp` 26-94) | the vectors `nav` (a bit per character) and `bp` (two parentheses per structural character), the position in the current document, `escaped` | one scan over all documents | `nav` stays aligned with the file over literals, escapes and document ends; `bp` is the tree of the documents; well-formed input is never refused |
| Accessors (`json_semi_index.hpp` 111-194, 254-370, `escape_table.cpp`) | the index, a node, the base of the text and the offset of the document | `operator[]`, `get_path`, `get_range`, `parse`, and under them `get_object_child`, `get_array_child`, `check_key` | the node reached is the value of the path; ranges lie in the text and are in order; the loops end; nothing is read that is not there |
| Cursor (`json_semi_index.hpp` 196-245) | index, root node, its offset | `get_cursor`, `next`, `get_accessor` | roots are visited in order, each once |
| `json_select` (`json_select.cpp`) | the mode, the path list, the line, the row being written | its commands: build and save an index, query with a saved one (stream, mapped, compressed), query without one (`si_parse_stream`, naive, bson), compress, `nop_stream` | all modes print the same answers: a list per document, `null` for what is not there |
| `zrandom::compress` (`zrandom.cpp` 16-74) | the output file, checkpoints, sizes | one pass over the input | every block starts at its checkpoint; the header is written last; the loops end |
| `zrandom::decompressor` (`zrandom.cpp` 76-191, `zrandom.hpp`) | mapped file, block cache with a clock, iterators that share their current block with their copies | `begin`, `end`, `advance`, dereference; `read_block`; `cache::get`, `put`, `tick` | reading through an iterator is reading the original file; the cache keeps what was used last |
| Path parser (`path_parser.cpp`) | the text, the paths pushed so far | `parse` | accepts exactly what writes a list of paths, with an index only after a key, and keeps nothing of a rule that failed |
| JSON parser (`json_spirit_parser.cpp`, `escape_table.cpp`) | none | `parse`, used by `accessor::parse` and the tests | returns the value of the text, never reads past its end |
| Baselines (`json_select.cpp` 30-71, 226-307) | an in-memory value (JsonCpp) or a file of BSON objects, the element reached | `naive_parse_stream`, `bson_save`, `bson_parse_mapped` | the same answers as the semi-index |
| Succinct library (external) | Elias-Fano and parentheses vectors | `select`, `find_close`, `find_open`, freeze and map | as the code uses them |

How they interact: `json_select` constructs the index from the lines of stdin
and freezes it; a later process maps it, asks it for a cursor, makes the root
accessor of each document from the cursor and the base of the text, and follows
each path.  The base is a line, the mapped file, or a `zrandom` iterator; every
byte the navigation looks at is then a dereference that may inflate a block.

The program is sequential and keeps no locks; its hard behaviours are

- long loops whose termination depends on the shape of two bit vectors (text
  that is not JSON is indexed without complaint);
- positions kept in three coordinate systems (bits, parentheses, bytes of a line
  or of the file) with `+ 1`, `% 2` and `- offset` between them;
- state shared by accident: copies of an iterator share a block; documents share
  the two vectors; lines and roots are walked in step;
- limits: a cache at its capacity, a clock that wraps, a 32 bit counter, blocks
  that end exactly at the end of a buffer or of the file;
- a file that grows between the run that indexes it and the run that queries it;
- grammars that give text back but not what their actions have already done;
- a file whose header is written last, so that an interrupted run leaves a file
  with a placeholder in it.

`PROJECT.json` lists these hazards line by line with the properties aimed at
them.

## 2. Modules

| Module | Models | Composes |
|---|---|---|
| `Succinct` | `select`, `find_close`, `find_open`, and when a call of them is defined (external) | |
| `Escapes` | the quote, the backslash and `escape_table` | |
| `SemiIndexBuild` | the constructor, one action per case of its switch and per turn of the literal loop; `Construct` starts it again on another input | `Succinct`, `Escapes`, `JsonText` |
| `SemiIndexNav` | `get_path` and the functions it calls, one action per turn of their loops | `SemiIndexBuild` |
| `JsonSelect` | `si_save`, then one of the three queries over the saved index, the file having grown by a line or not; or `si_parse_stream`, with an index per line | `SemiIndexNav` |
| `JsonParser` | the grammar `accessor::parse` runs, as recursive operators | `Escapes` |
| `PathParser` | `json::path::parse`: one action per rule that matches, fails or gives text back | |
| `Baselines` | `naive_parse_stream`, `bson_save` and `bson_parse_mapped`, one action per turn of their loops | `JsonTree` |
| `Extraction` | abstract: one list of answers per document, in order | `JsonTree` |
| `JsonTree` | reference: documents as trees, how they are written, their parentheses, the value of a path | |
| `JsonText` | reference: which characters of any text are in a literal, how deep its brackets nest | `Escapes` |
| `ZCompress` | `zrandom::compress` | |
| `Zrandom` | the decompressor, its cache and its iterators over a file `ZCompress` wrote | `ZCompress` |
| `RandomAccess` | abstract: iterators are positions in the original file | |
| `MCDocuments`, `MCBuild`, `MCSelect`, `MCSelectAny`, `MCPathParser`, `MCBaselines` | sample documents, paths and texts for TLC, and the properties that need the reference | |
| `NumberFacts` | lemmas on least elements, multiples and quotients | |
| `SemiIndexBuildProofs`, `LexingProofs`, `JsonSelectProofs`, `AnswerProofs`, `PathParserProofs`, `ZCompressProofs`, `ZrandomProofs` | theorems | `NumberFacts` |

State and actions keep the code's names.  Some correspondences are worth a word.

- A collection is a record of the concatenated `text` and the offsets `ends` of
  the document ends; the code's pair of iterators is `(s, json)`.  A character
  is a one-character string: the scan only compares characters, and so do the
  navigation's three tests on bytes.
- In `JsonSelect` the constructor's argument is `jsons` and the file, as it is
  when it is queried, is `input`.  They differ after `Grow`, where someone has
  appended a line to the indexed file, and in the direct mode, in which
  `IndexLine` calls the constructor on one line of `input` at a time, so that all
  positions are relative to that line.
- `nav` is the sequence of the offsets of its ones together with `nav_size`,
  the number of bits; `bp` comes with the excess of its prefixes, in which
  `find_close` and `find_open` are stated.
- What the code does when it asks for a parenthesis, a one or a byte that does
  not exist is undefined.  The actions of `SemiIndexNav` have the existence of
  what they read as a guard, and `Undefined` takes the step otherwise; its
  state is final, and `NothingUndefined` says it is not reached.
- The bytes one may read depend on the mode.  A line of the stream is a
  `std::string`, so that one more byte, the null, is there; the mapped file and
  the decompressed one end at their last byte.
- A value printed is a pair of offsets in the collection, `<< >>` for `null`.
- The compressed mode differs from the mapped one in the type of the iterator
  only; that dereferencing it gives the byte of the file is what `Zrandom`
  establishes (`ReadsOriginal`).
- `get_path` and `operator[]` take any path, and so does the model; the command
  line's grammar only produces paths in which an index follows a key
  (`PathsUsable`).
- A rule of `JsonParser` is an operator of the text, an offset and the end of
  the range; its result is a match with its attribute, a failure, or the fact
  that a character at or beyond the end was read, which is undefined in the code.
  Numbers are runs of digits and `null`, `true`, `false` their initials: what a
  range holds, not how a double is read, is what the properties are about.
- `PathParser` walks the grammar as Spirit does: an alternative that fails gives
  its text back, but a `push_back` that its actions did stays done (`HalfIndex`).
  Digits are `0` and `1`, and `int` ends at `IntMax`.
- In `Baselines` a printed cell is the value it is the text of: how JsonCpp and
  BSON lay a value out, sort its members or print a double is left out.  A
  JsonCpp object is a map, so that the last of two equal keys stays; a BSON object
  is a list searched from the front, so that the first does.  BSON arrays are
  objects whose names are decimal numbers.  A line that is no object makes
  `fromjson` throw out of `main` (step `terminated`).
- In `ZCompress` and `Zrandom` a byte is its offset in the original file, and
  the deflate stream is the sequence of its blocks; how long a block becomes is
  zlib's affair: any member of `Deflated`, and no block vanishes.  A raw block is
  one deflate block, since its 16384 bytes are fewer than the symbols zlib
  collects in one; `inflate` with `Z_BLOCK` therefore returns all of it.
- The decompressor's constructor has no guard: it may run as soon as `compress`
  has written the placeholder, and looks for the trailer as many bytes behind the
  header as the header says (`TrailerAt`).  Where the trailer is not there, it maps
  payload bytes, or what is behind the end of the file, as sizes and offsets;
  nothing is modelled of such a decompressor but that another one may be
  constructed later.  `opened` says that the trailer was found.
- An iterator that `begin()` or `end()` makes has a cell of its own, a copy
  shares the cell of the iterator it is a copy of.  There are as many cells as
  iterators, which is enough for every sharing of them.
- `cache::put` compares the key of the map where its variables speak of a
  timestamp.  The model does what the code does (`Victim`).

Operators called *variant* in a comment, such as `SeparatorSwapped`, are wrong
on purpose: each stands for a plausible slip in the definition after it, and
replacing that definition by it makes the property listed with it in
`PROJECT.json` ("mutants") fail.  No specification uses them.

## 3. Runs

Passing runs:

| Run | Instance | Shows |
|---|---|---|
| `build` | every text of up to 5 characters from `{ ] , " \ a`, as one or two documents; and 2 documents per collection: every tree of depth 2 with up to 2 children over awkward strings (brackets, commas, `\"` and `\\` inside) and keys, in three layouts | `BuildTypeOK`, `NavAligned`, `NavMarksStructure` hold for anything, also after an exception; `NavMarksOutside`: the ones are exactly the structural characters outside literals, by the odd or even number of backslashes before a quote; `ThrowsInLiteral`: the exception comes exactly if a document ends in a literal; `ParensFollowBrackets`: `bp` is as deep as the brackets, and matches if they do; `BuildEnds`: the scan returns or throws; on the documents, `IndexEncodesTrees`: the index is the encoding of the trees that the prose of `README.md:126-129` describes (its figure shows other bits, see below), computed from the trees without looking at quotes; `BalancedAtDocumentEnds`: what `test_balanced` checks on an example, on every prefix; `WellFormedIsBuilt` (liveness): no well-formed document is refused |
| `select_spaced` | 2 documents with a blank after each comma and colon, as most writers emit them; 19 paths and a list of three; the four modes; the file grown by a line after `si_save` or not | `ExtractsValues`: `JsonSelect` implements `Extraction`, safety and liveness: every row is the list of the values the trees have, and all indexed documents are answered; `NothingUndefined`: in this layout the only way out of the index is the stream mode after the file has grown, behind the last indexed document; `ParsesBack`: `accessor::parse` on every value found returns what the tree means |
| `select_any_text` | every text of up to 5 characters from `{ [ ] , " \`, as one or two lines, longer ones of literals inside an array, pairs of objects whose key has a value or not, and lines with no root, blank or a scalar, before lines that have one; paths forward, backward, by key, and nested; indexes saved and per line | `NodeParity`, `RangesOrdered`, `CursorAdvances`, `SelectEnds`: also in text that is not JSON the loops end and no range is reversed; `StaysInside`: no loop leaves its container; `ChildCounted`: `get_array_child` answers with the element of the index, counted from either end, and with none exactly if there is no such element, `get_object_child` never with a key, but with a value or, for a last key that has none, the closing parenthesis of the object; `ParensThere`: where the brackets of the text match, every parenthesis the cursor asks for is there, and every one the loops over children ask for where the root is at the accessor's base (`RootAtBase`), but for the value of a last key that has none; `RootsInTurn`: the n-th document read is answered from the n-th outermost bracket, on whatever line that is; `AnswersInDocument`: what is printed for a document lies between the brackets of its root, provided that the root is closed, is at the accessor's base (`RootAtBase`) and, if it is an object, that its elements come in pairs; `LiteralsWhole`: scanner and parser agree on where literals end, so that `quoted_string` never steps over the end of a range |
| `path_parser` | every path list of up to 5 characters from `a 1 - . [ ] ,` and the blank, and numbers of three characters in brackets | `ParsesAsWritten`: accepted are exactly the texts that a definition by cutting at commas, dots and brackets reads as a list of paths, with that list as the result; `PathsUsable`; `ParseEnds` |
| `baselines` | objects of up to two members over scalars, objects and arrays, one with a key twice, an array as a document; every path of up to two elements and below `a` of three, indices from -3 to 2; lists of two paths | `BsonFinds`: the BSON walk prints what the tree has; `NaiveFinds`: so does the naive walk, also by a negative index through unsigned arithmetic, and it prints `null` where an array has no such element, be it before the first, or an object no such key; only where a path goes on with an element of the wrong kind does it print the value it has come to (the run `naive_scalar`); `BaselinesEnd` |
| `zcompress` | files of 0 to 7 bytes, blocks of 2, each deflating to 1 to 5 bytes | `BlocksLaidOut`, `HeaderCommits`, `CompressEnds`; file sizes on both sides of a multiple of the block size and blocks that end exactly at the end of the out buffer occur |
| `zrandom` | files of 0, 4 and 5 bytes, blocks of 2, two iterators that may share a cell, a cache of 2, a clock that wraps at 4; the constructor of the decompressor at any moment, again after one that did not find the trailer | `UnfinishedShows`: the constructor reads the placeholder or finds the whole file; `ReadsOriginal`: the decompressor implements `RandomAccess`; `BlocksWhole`; `RecencyKnown` |

Runs in which the code disagrees with what the repository says, each with a
shortest counterexample (see "findings" in `PROJECT.json`):

| Run | Property | What happens |
|---|---|---|
| `select_compact` | `SameAttributes` | `{"a":1,"b":...}` with no blank after the comma: `b` is not found, because the search for its opening quote starts behind it |
| `select_blank_object` | `AbsentIsNull` | the lines `{ }` and `{"a": 1}`, mapped: to `a.a` the first one answers 1. The blank hides that the object is empty, `check_key` finds its quote in the second line, and the node it returns is the closing parenthesis of the first, after which the second begins |
| `naive_scalar` | `NaivePrintsNull` | a path that goes on below a scalar makes `naive_parse_stream` print the scalar where the semi-index prints `null` |
| `zrandom_evict` | `EvictsOldest` | a full cache drops the block with the smallest number, though it was used last |
| `zrandom_4g` | `PosInBlock` | with a payload longer than `avail_in` can count, a block comes out short and the assertion at the end of `check_cur_block` does not hold |

This is why `select_spaced` is restricted to the layout it has: the last member
of an object must not follow its comma at once, an empty container has nothing
inside, and a line starts with its bracket.

More differences the models show, for which there is no run:

- An empty array with a blank inside, `[ ]`, has a valid element 0 (and -1), the
  blank: it, too, is recognised by its next character only
  (`json_semi_index.hpp:296`).
- An object whose last key has no value, as in `{"a"}`, lets a path go on in the
  document after it, as `{ }` does.  `RootPaired` excludes this in
  `AnswersInDocument`; the pairs of objects of `select_any_text` violate the
  property without it.
- A blank before the bracket: `saved_si_parse_stream` and `si_parse_stream` hand
  the accessor the beginning of the line, while its positions are relative to
  the root, so that every path is `null`; the mapped mode starts at the root and
  answers.  `RootAtBase` in `JsonSelect` excludes the case where it matters.
- The figure in `README.md:131-133` is not the index the constructor builds for
  that document: it has 11 ones at the beginnings of keys and values and 22
  parentheses, the constructor marks the 13 characters `{}[]:,` and pushes 26.
- A line that is blank or a scalar is indexed without a root.  Lines and roots
  are walked side by side (`json_select.cpp:124`), so that from such a line on
  every line is answered from the root of a later one, read at offsets of its own
  text, and the last lines find no root at all.  `RootsInTurn` says which root a
  line gets: its own exactly as long as every line has one.
- A key asked for that has a quote in it can match more than a key: `check_key`
  does not stop at the quote that ends the document's key, and the key
  `a": "b` finds the member `"a": "b"`.  No key of the runs is of this kind.
- Of two equal keys the semi-index and BSON answer the first, JsonCpp the last.
- `bson_parse_mapped` answers `null` to the empty path, all others the document;
  and it finds element 0 of an array also by the key `0` (`BsonChild`).
- A key with `\u` in a document can never be asked for: `escape_table` turns the
  `u` into a null and leaves its digits.

### Bounds

The scan's state is the position, two flags and the vectors, so that every pair
of neighbouring cases, a literal with an escape, and a document boundary inside
each occur within five characters; depth 2 and two children are what the
navigation needs to skip a nested value, to enter one, and to go past the last
one.  Indices reach beyond both ends of every array.  Five characters of a path list
hold two paths, two items of a path, an index with a sign, an index that is not
closed and one that does not fit (`IntMax` is 10).  In `Zrandom` three blocks
with two places in the cache make an eviction, two iterators every sharing, and
a clock of 4 wraps while the cache is full; `UIntMod` is larger than any payload
except in `zrandom_4g`.  In `HeaderCommits` and in `Zrandom` a crash is any reachable state: what
is on disk when the program stops, and what `Open` then finds there
(`UnfinishedShows`), is the value of `payload`, `trailer` and
`header` there (the C++ library may delay what is written but flushes it before
`seekp`; the loss of written data by the machine is not modelled).

### Fairness

Every specification with a liveness property has weak fairness of its next-state
relation (`WF_vars(Next)` of one sequential process): the program runs on while
it can.  No choice is made fair.  `Extraction!AllAnswered` is thereby implied by
the fairness of the single process.  `Zrandom` has fairness of `Compress` only,
since a client need not use the decompressor.

`CHECK_DEADLOCK FALSE` is set in the runs of `BuildSpec`, `JsonSelect`,
`PathParser`, `Baselines` and `ZCompress`, which end.

## 4. Proofs

All with tlapm 1.4.5, Z3, Zenon and LS4.

`SemiIndexBuildProofs`, for every set of collections (assumption
`CollectionsAssumption`: documents lie one after the other in the text):

- `BuildTypeCorrect`, `BuildAligned`, `BuildMarksStructure`: `BuildSpec` implies
  always `BuildTypeOK`, `NavAligned`, `NavMarksStructure`.
- The inductive invariant is `BuildInv`, their conjunction with `ExcessShape`
  (the excess starts with zero, moves by one and is even between the pairs).  Alone, none of the
  three is inductive: that a one marks a structural character needs
  `nav_size = json`, and that the literal's zeros are counted right needs
  `nav_size = first` while in a literal.  `PushPreserves` treats the three
  structural cases at once; the others leave the vectors alone.

- `BuildInv` holds again whenever the constructor is called on another input
  (`ConstructInv`), which is what the direct mode needs.

`LexingProofs`, from the same assumption:

- `BuildMarksOutside`, `BuildThrowsInLiteral`, `BuildParensFollowBrackets`:
  `BuildSpec` implies always `NavMarksOutside`, `ThrowsInLiteral` and
  `ParensFollowBrackets`.  The scan keeps one flag and one position; the
  reference in `JsonText` says of each character in which literal it is, from the
  run of backslashes before every quote, and knows neither.
- The inductive invariant `LexInv` adds to `BuildInv`: between literals, the
  reference has no literal open either (`BetweenLiterals`); in one, all characters
  from `first` on belong to the literal opened there, and the flag `escaped` is the
  parity of the backslashes (`LiteralRead`); no document passed ends in a literal
  (`DocumentsPassed`); and the excess is twice the depth before every one of `nav`
  (`ExcessIsDepth`).  `ParensFollowBrackets` is not inductive without the last: a
  prefix of `bp` that ends inside a pair is between two depths (`ExcessInPair`).
- `LiteralAt` is a recursive function.  That one with its equation exists is
  shown by a least counterexample, without an induction rule
  (`LiteralsExtend`, `LiteralsExist`, `LiteralAtStep`).

`JsonSelectProofs`, for every set of collections, path lists, modes and lines
the file may grow by:

- `SelectNodeParity`, `SelectRangesOrdered`: `Spec` implies always `NodeParity`
  and `RangesOrdered`, whatever the text.
- `SelectCursorAdvances`: `Spec` implies `CursorAdvances`.  `CursorPlaced` is
  added to the invariant: a cursor that is not null stands on a root of the saved
  index, which is not rebuilt while there is one.
- The argument: the excess before parenthesis `k` has the parity of `k`
  (`ExcessParity`), so `find_close` and `find_open` always go to a node of the
  other parity (`CloseParity`, `OpenParity`).  A value, an odd node, is then
  closed at an even one, in a later pair, and starts one character after its
  structural character; a container, an even node, starts at its bracket.  In
  both cases `get_pos` and `FindEnd`, with their `% 2`, cannot cross
  (`RangeOrdered`).  The inductive invariant
  `SelectInv` is `BuildInv` with the types of the numbers involved, the rows,
  `NodeParity` and `InputOK`: the file is a collection, also after it has grown
  (`GrowIsCollection`), and so is each of its lines (`LineIsCollection`).  The first closer exists because a non-empty set of naturals has
  a least element (`LeastExists`, from the library's well-foundedness of `<`).

`AnswerProofs`, from the same assumptions:

- `SelectStaysInside`: `Spec` implies always `StaysInside`.  Between a parenthesis
  and its match the excess is greater than at both (`CloseAbove`: it moves by one,
  so it would have to come back first), hence pairs nest (`CloseNested`), and what
  is on the level of the children of a closed container is inside it
  (`LevelInside`).  The invariant `Walk` says that the loops stay on that level:
  forward by `NextSibling`, backward by `PreviousSibling`.
- `SelectAnswersInDocument`: `Spec` implies always `AnswersInDocument`, of roots
  that are closed, paired and at the accessor's base (`RootAtBase`).  The
  inductive invariant `AnswerInv` adds to `SelectInv` and `Walk`: the scan stays
  in the text (`ScanBounded`) and the indexed characters are those of the file,
  also after it has grown and for every line of the direct mode (`Mirrors`), so
  that a bracket that is read belongs to an opening parenthesis (`BracketOpens`);
  `get_object_child` has passed an even number of elements (`Paired`, counted
  with `Cardinality`), so that with `RootPaired` it does not return the root's
  closing parenthesis (`MemberInside`); and accessor and container are inside the
  root (`Inside`).  The last step, `RangeInside`, is that `nav` is increasing.
  `Inside` was first tried without `RootPaired`; the case that could not be
  proved is the run `select_blank_object`.
- `SelectChildCounted`: `Spec` implies `ChildCounted`.  The invariant `Counted` says
  that `i` is the number of elements before `cur_node`, or behind it when the loop
  runs backward, and is not beyond the index.  Hopping over an element passes
  exactly one (`CountHop`; backward `BackwardHop`, since `find_open` is the last
  opening on the level), the loops end only at the container's own parentheses
  (`ChildOpens`), and what is before an element, the element and what is behind it
  are all elements.  `PathTyped` gives the index its type.
- `SelectParensThere`: `Spec` implies always `ParensThere`, with `RootAtBase` as a
  condition on the loops, not on the cursor.  An excess that is never
  negative and ends with zero comes down to where an opening parenthesis found it,
  and came up from where a closing one leaves it (`BalancedCloses`,
  `BalancedOpens`).  The invariants are that a cursor stands where nothing is open
  (`CursorOnRoot`) and that a loop was entered at an opening parenthesis (`Opened`).
- `SelectBalanced`: in every state of `Spec` the parentheses match exactly if the
  brackets outside literals do, because `LexInv` holds of every index that is built,
  of the file or of a line (`LexStep`).  With it, `SelectParensThere` is a statement
  about texts.

`PathParserProofs`, for every set of texts and every `IntMax`
(`SpecsAssumption`, `IntMaxAssumption`):

- `PathParserUsable`: `PathSpec` implies always `PathsUsable`.  The inductive
  invariant `PathInv` adds that the positions are in the text and that the last
  element is a key while the rule for the index is tried; `RunEnds` shows that
  the runs of characters the grammar reads, stated with `CHOOSE`, exist.

`ZCompressProofs`, for every file size, block size and buffer size and whatever
zlib makes of a block:

- `CompressTypeCorrect`, `CompressLaysOut`, `CompressCommits`: `CompressSpec`
  implies always `CompressTypeOK`, `BlocksLaidOut` and `HeaderCommits`.  The
  inductive invariant `CompressInv` adds where in the two loops the program
  stands: `Reading` relates what was read to the blocks written, `Standing` the
  point of the program to what is pending in deflate and in the file, and
  `Disjoint` says that blocks have bytes and do not overlap; only with it do the
  checkpoints determine the blocks.

`ZrandomProofs`, for every number of iterators, capacity of the cache and width
of its clock, on top of `CompressInv`:

- `ZTypeCorrect`, `CacheOrdered`: `Spec` implies always `ZTypeOK` and
  `RecencyKnown`, without further conditions.  The inductive invariant is `ZInv`.
- `OpensWholeFile`: `Spec` implies always `UnfinishedShows`.  `TrailerFound` derives
  from `CompressInv` that a trailer is where the header says exactly when `compress`
  is done, since no payload is empty (`Disjoint`), and `OpenedFirst` in `ZInv`
  carries what the constructor read then to every later state.  There is no guard
  on the constructor from which this would follow.
- `StoresWholeBlocks`, `PositionInBlock`, `ReadsTheOriginal`: `Spec` and always
  `PayloadFits` imply always `BlocksWhole`, always `PosInBlock` (the assertion of
  `check_cur_block`), and `ReadsOriginal`, the refinement of `RandomAccess`: the
  initial states map to its initial states, and every step of compressor, cache
  and shared iterators to one of its steps or to a stutter.  `PayloadFits` says
  that the payload's size is less than `UIntMod`, what the `unsigned int`
  `avail_in` can count.  The condition is met in the run `zrandom`, and cannot be
  dropped: `zrandom_4g` is the counterexample.

`NumberFacts` has the arithmetic these proofs share: least elements and the
bounds and uniqueness of quotients.  All inductive invariants were checked with
TLC on the instances of the runs before they were proved.

Only model-checked, and why:

- liveness (`BuildEnds`, `WellFormedIsBuilt`, `SelectEnds`, `ParseEnds`,
  `BaselinesEnd`, `CompressEnds`, `AllAnswered`): out of the prover's reach;
- what is stated with the recursive definitions of `JsonTree` and `JsonParser`
  (`IndexEncodesTrees`, `BalancedAtDocumentEnds`, `ExtractsValues`,
  `NothingUndefined`, `ParsesBack`, `LiteralsWhole`, `BsonFinds`,
  `NaiveFinds`) or with the recursive reference of `MCPathParser`
  (`ParsesAsWritten`): the prover does without its SMT backend in such modules,
  and induction over the documents is beyond it.  What of it can be said of any
  text without trees is proved: `NavMarksOutside` and `ParensFollowBrackets` for
  the first two, `ChildCounted` for `ExtractsValues`, `ParensThere` for
  `NothingUndefined`.

## 5. Not modelled

- Freezing and mapping of the index file, and the structures inside `succinct`:
  not part of the repository.  The saved index is the index.
- The index used with a JSON file that was edited, other than by adding lines:
  the program does not relate the two, and nothing is promised.
- A BSON file that an exception or a crash left half written.
- The reading of doubles, the printing of values by JsonCpp and BSON, and the
  error recovery of JsonCpp on lines that are not JSON.
- `perftest/` (measurements), `nop_stream`, `main` and its usage text.
- `3rd_party/`: the repository carries the sources of JsonCpp and of a MongoDB
  server, 98% of its lines.  `3rd_party/mongodb/CMakeLists.txt` compiles thirteen
  files of the latter, for BSON and its JSON reader, and `json_select` calls a
  handful of functions of each library; those are modelled (`Baselines`), the
  database server, which no program of the repository contains, is not.  Of the
  program's own sources, `json_select.cpp` and `semi_index/`, every function that
  changes state is an action of a module.

## 6. Plan

Done: the semi-index core, queries with and without a saved index, the parsers,
the baselines, `zrandom`, the refinements to `Extraction` and `RandomAccess`, and
the proofs of section 4.  Next, in this order:

1. That every byte the navigation reads is there, for texts stated without
   recursion on trees: the half of `NothingUndefined` that `ParensThere` leaves.
2. A proof of `RootsInTurn`, and with it that every line is answered from its own
   root if every line has one.
3. That `PathParser` never goes back before the last separator: the variant
   behind `ParseEnds`.
4. The compressed mode composed with `Zrandom`: the navigation's reads as
   dereferences.
