---------------------------- MODULE SemiIndexNav ----------------------------
(***************************************************************************)
(* Navigation in a built semi-index: the accessor of json_semi_index_base, *)
(* which follows a path key by key and index by index with                 *)
(* get_object_child and get_array_child.  The loops of these two functions *)
(* are unrolled into steps, one per turn, so that what they read and where *)
(* they stop can be stated.                                                *)
(*                                                                         *)
(* A node is a parenthesis of bp.  Even nodes are containers, read from    *)
(* the bracket on; odd nodes are elements, keys and values, which start    *)
(* right after the structural character of their pair.                     *)
(***************************************************************************)
EXTENDS SemiIndexBuild

VARIABLES
  input,         \* the JSON file as it is when it is queried
  step,          \* where the caller and the accessor stand
  root,          \* accessor of the current document: node, m_json, m_offset
  buffer,        \* the bytes m_json + p may designate: lo .. last
  path,          \* the path being followed
  element,       \* number of its elements already followed
  acc,           \* the accessor reached: is_valid and m_node
  node,          \* the container get_*_child works on
  cur_node,      \* loop variables of get_*_child
  cur_node_pos,
  i

navVars == <<root, buffer, path, element, acc, node, cur_node, cur_node_pos, i>>

(* The byte *(m_json + p).  The characters lo .. end - 1 of the file are   *)
(* there; a line read into a std::string is followed by a null, so that    *)
(* last = end, a mapped or a compressed file by nothing one may read.      *)
Readable(p) == root.json + p \in buffer.lo .. buffer.last
Byte(p) ==
  LET at == root.json + p IN
  IF at < buffer.end THEN input.text[at + 1] ELSE "NUL"

(* variant: a value starts two characters after its structural one         *)
get_posLate(n, offset) == Select(nav, n \div 2) + 2 * (n % 2) - offset
get_pos(n, offset) == Select(nav, n \div 2) + (n % 2) - offset
HasPos(n)          == HasSelect(nav, n \div 2)

find_close(n) == FindClose(excess, n)
HasClose(n)   == CanClose(bp, excess, n)
find_open(n)  == FindOpen(excess, n)
HasOpen(n)    == CanOpen(bp, excess, n)

(* variant: a container ends at its bracket, a value after its separator   *)
FindEndParity(n, offset) == Select(nav, find_close(n) \div 2) + (n % 2) - offset
FindEnd(n, offset) == Select(nav, find_close(n) \div 2) + (1 - (n % 2)) - offset

(* check_key: skip to the next quote, then compare character by character, *)
(* undoing escapes, until the key is exhausted or a character differs.     *)
Quotes(pos)      == {q \in pos .. buffer.end - root.json : Byte(q) = Quote}
KeyStart(pos)    == 1 + (CHOOSE q \in Quotes(pos) : \A r \in Quotes(pos) : q <= r)
HasKeyStart(pos) == Readable(pos) /\ Quotes(pos) # {}

Width(p)     == IF Byte(p) = Backslash THEN 2 ELSE 1
Unescaped(p) == IF Byte(p) = Backslash THEN escape_table(Byte(p + 1)) ELSE Byte(p)

(* Where the iterator stands once k characters of the key were compared.   *)
KeyPos(key, pos) ==
  LET at[k \in 0 .. Len(key)] ==
        IF k = 0 THEN KeyStart(pos) ELSE at[k - 1] + Width(at[k - 1])
  IN at
Matched(key, pos, k) == \A j \in 1 .. k : Unescaped(KeyPos(key, pos)[j - 1]) = key[j]

check_key(key, pos) ==
  /\ Matched(key, pos, Len(key))
  /\ Byte(KeyPos(key, pos)[Len(key)]) = Quote

(* The comparison stops before it leaves the bytes there are.              *)
KeyInside(key, pos) ==
  \A k \in 0 .. Len(key) :
    Matched(key, pos, k) =>
      LET p == KeyPos(key, pos)[k] IN
      Readable(IF k < Len(key) THEN p + Width(p) - 1 ELSE p)

-----------------------------------------------------------------------------
(* accessor::get_path: the loop over the elements of the path.             *)

PathDone == element = Len(path) \/ ~acc.is_valid
elem     == path[element + 1]

(* get_*_child returns false, or true with child_node = n.                 *)
Return(valid, n) ==
  /\ acc' = [is_valid |-> valid, node |-> n]
  /\ element' = element + 1
  /\ step' = "path"
  /\ UNCHANGED <<root, buffer, path, node, cur_node, cur_node_pos, i>>

Reject == Return(FALSE, acc.node)

containerAsIs == acc.node   \* variant: node += node % 2 is missing
container == acc.node + (acc.node % 2)
opening   == get_pos(container, root.offset)

(* Both functions start alike: the value must open with the right bracket  *)
(* and the very next character must not close it.                          *)
Entering(type) == step = "path" /\ ~PathDone /\ elem.type = type
ReadsBracket(open) ==
  /\ HasPos(container)
  /\ Readable(opening)
  /\ Byte(opening) = open => Readable(opening + 1)
NonEmpty(open, close) == Byte(opening) = open /\ Byte(opening + 1) # close

EnterObject ==
  /\ Entering("key")
  /\ ReadsBracket("{")
  /\ NonEmpty("{", "}")
  /\ node' = container
  /\ cur_node' = container + 1
  /\ cur_node_pos' = opening + 1
  /\ step' = "object"
  /\ UNCHANGED <<root, buffer, path, element, acc, i>>

NotAnObject == Entering("key") /\ ReadsBracket("{") /\ ~NonEmpty("{", "}") /\ Reject

(* The members of the object, one per turn.                                *)
val_begin == find_close(cur_node) + 1
val_end   == find_close(val_begin)
AtParen   == cur_node \in 0 .. Len(bp) - 1
KeyRead   == AtParen /\ Paren(bp, cur_node) = 1 /\ HasClose(cur_node)
             /\ HasKeyStart(cur_node_pos) /\ KeyInside(elem.key, cur_node_pos)

NoMoreMembers ==
  /\ step = "object" /\ AtParen /\ Paren(bp, cur_node) = 0
  /\ Reject

MemberFound ==
  /\ step = "object" /\ KeyRead
  /\ check_key(elem.key, cur_node_pos)
  /\ Return(TRUE, val_begin)

(* variant: cur_node does not move on to the next key                      *)
NextMemberStuck ==
  /\ step = "object" /\ KeyRead
  /\ ~check_key(elem.key, cur_node_pos)
  /\ HasClose(val_begin) /\ HasPos(val_end + 1)
  /\ UNCHANGED <<navVars, step>>

NextMember ==
  /\ step = "object" /\ KeyRead
  /\ ~check_key(elem.key, cur_node_pos)
  /\ HasClose(val_begin) /\ HasPos(val_end + 1)
  /\ cur_node' = val_end + 1
  /\ cur_node_pos' = get_pos(val_end + 1, root.offset) + 1
  /\ UNCHANGED <<root, buffer, path, element, acc, node, i, step>>

EnterArray ==
  /\ Entering("index")
  /\ ReadsBracket("[")
  /\ NonEmpty("[", "]")
  /\ node' = container
  /\ i' = 0
  /\ \/ /\ elem.index >= 0
        /\ cur_node' = container + 1
        /\ step' = "forward"
     \/ /\ elem.index < 0
        /\ HasClose(container)
        /\ cur_node' = find_close(container) - 1
        /\ step' = "backward"
  /\ UNCHANGED <<root, buffer, path, element, acc, cur_node_pos>>

NotAnArray == Entering("index") /\ ReadsBracket("[") /\ ~NonEmpty("[", "]") /\ Reject

(* variant: the loop starts from the parenthesis after the next element    *)
ForwardSkips ==
  /\ step = "forward" /\ AtParen
  /\ \/ Paren(bp, cur_node) = 0 /\ Reject
     \/ Paren(bp, cur_node) = 1 /\ i = elem.index /\ Return(TRUE, cur_node)
     \/ /\ Paren(bp, cur_node) = 1 /\ i # elem.index
        /\ HasClose(cur_node)
        /\ cur_node' = find_close(cur_node) + 2
        /\ i' = i + 1
        /\ UNCHANGED <<root, buffer, path, element, acc, node, cur_node_pos, step>>

(* idx >= 0: from the first element on.                                    *)
Forward ==
  /\ step = "forward" /\ AtParen
  /\ \/ Paren(bp, cur_node) = 0 /\ Reject
     \/ Paren(bp, cur_node) = 1 /\ i = elem.index /\ Return(TRUE, cur_node)
     \/ /\ Paren(bp, cur_node) = 1 /\ i # elem.index
        /\ HasClose(cur_node)
        /\ cur_node' = find_close(cur_node) + 1
        /\ i' = i + 1
        /\ UNCHANGED <<root, buffer, path, element, acc, node, cur_node_pos, step>>

(* variant: the last element is taken to be number 0, not -1               *)
BackwardLate ==
  /\ step = "backward" /\ AtParen
  /\ \/ Paren(bp, cur_node) = 1 /\ Reject
     \/ /\ Paren(bp, cur_node) = 0 /\ i = -elem.index
        /\ HasOpen(cur_node)
        /\ Return(TRUE, find_open(cur_node))
     \/ /\ Paren(bp, cur_node) = 0 /\ i # -elem.index
        /\ HasOpen(cur_node)
        /\ cur_node' = find_open(cur_node) - 1
        /\ i' = i + 1
        /\ UNCHANGED <<root, buffer, path, element, acc, node, cur_node_pos, step>>

(* idx < 0: from the last element back.                                    *)
Backward ==
  /\ step = "backward" /\ AtParen
  /\ \/ Paren(bp, cur_node) = 1 /\ Reject
     \/ /\ Paren(bp, cur_node) = 0 /\ i = -elem.index - 1
        /\ HasOpen(cur_node)
        /\ Return(TRUE, find_open(cur_node))
     \/ /\ Paren(bp, cur_node) = 0 /\ i # -elem.index - 1
        /\ HasOpen(cur_node)
        /\ cur_node' = find_open(cur_node) - 1
        /\ i' = i + 1
        /\ UNCHANGED <<root, buffer, path, element, acc, node, cur_node_pos, step>>

(* What the code does next is undefined: a parenthesis, a one or a byte    *)
(* that is not there is asked for.                                         *)
StepUndefined ==
  \/ Entering("key") /\ ~ReadsBracket("{")
  \/ Entering("index")
     /\ \/ ~ReadsBracket("[")
        \/ ReadsBracket("[") /\ NonEmpty("[", "]") /\ elem.index < 0 /\ ~HasClose(container)
  \/ step = "object"
     /\ \/ ~AtParen
        \/ AtParen /\ Paren(bp, cur_node) = 1 /\ ~KeyRead
        \/ KeyRead /\ ~check_key(elem.key, cur_node_pos)
           /\ ~(HasClose(val_begin) /\ HasPos(val_end + 1))
  \/ step = "forward"
     /\ \/ ~AtParen
        \/ AtParen /\ Paren(bp, cur_node) = 1 /\ i # elem.index /\ ~HasClose(cur_node)
  \/ step = "backward"
     /\ \/ ~AtParen
        \/ AtParen /\ Paren(bp, cur_node) = 0 /\ ~HasOpen(cur_node)

NavNext ==
  \/ EnterObject \/ NotAnObject \/ NoMoreMembers \/ MemberFound \/ NextMember
  \/ EnterArray \/ NotAnArray \/ Forward \/ Backward

=============================================================================
