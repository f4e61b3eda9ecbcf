-------------------------- MODULE JsonSelectProofs --------------------------
(***************************************************************************)
(* Proofs about the navigation, for every collection, well-formed or not,  *)
(* and every list of paths.                                                *)
(***************************************************************************)
EXTENDS JsonSelect, SemiIndexBuildProofs, NumberFacts

(* A bounded set of natural numbers has a greatest element, the one whose  *)
(* distance from the bound is least.                                       *)
LEMMA GreatestExists ==
  ASSUME NEW n \in Nat, NEW T, T \subseteq 0 .. n, T # {}
  PROVE  \E x \in T : \A y \in T : x >= y
<1> DEFINE M == {n - x : x \in T}
<1>0. \A x \in T : n - x \in Nat
  OBVIOUS
<1>1. M \subseteq Nat /\ M # {}
  BY <1>0
<1>2. PICK m \in M : \A y \in M : m <= y
  BY <1>1, LeastExists
<1>3. PICK x \in T : m = n - x
  BY <1>2
<1>4. \A y \in T : n - y \in M
  OBVIOUS
<1> QED
  BY <1>2, <1>3, <1>4

-----------------------------------------------------------------------------
(* The excess of a prefix has the parity of its length, so a parenthesis   *)
(* and its match, which have the same excess before and after them, are at *)
(* positions of different parity.                                          *)
LEMMA ExcessParity ==
  ASSUME BuildInv, NEW k \in 1 .. Len(excess)
  PROVE  excess[k] \in Int /\ excess[k] % 2 = (k - 1) % 2
<1>1. /\ excess \in Seq(Int) /\ bp \in Seq({0, 1}) /\ Len(nav) \in Nat
      /\ Len(excess) = 2 * Len(nav) + 1 /\ Len(bp) = 2 * Len(nav)
  BY DEF BuildInv, BuildTypeOK, NavMarksStructure, ExcessShape
<1>2. excess[k] \in Int
  BY <1>1
<1>3. ASSUME NEW j \in 1 .. Len(nav) + 1 PROVE excess[2 * j - 1] % 2 = 0
  BY DEF BuildInv, ExcessShape
<1>4. CASE k % 2 = 1
  <2>1. PICK j \in 1 .. Len(nav) + 1 : k = 2 * j - 1
    <3>0. k \in Nat /\ k >= 1 /\ k <= 2 * Len(nav) + 1 /\ Len(nav) \in Nat
      BY <1>1
    <3>1. (k + 1) \div 2 \in 1 .. Len(nav) + 1 /\ k = 2 * ((k + 1) \div 2) - 1
      BY <1>4, <3>0
    <3> QED
      BY <3>1
  <2> QED
    BY <1>2, <1>3, <1>4, <2>1
<1>5. CASE k % 2 = 0
  <2>1. PICK j \in 1 .. Len(nav) : k = 2 * j
    <3>1. k \div 2 \in 1 .. Len(nav) /\ k = 2 * (k \div 2)
      BY <1>1, <1>5
    <3> QED
      BY <3>1
  <2>2. k - 1 \in 1 .. Len(bp) /\ k - 1 \in 1 .. Len(excess) /\ k - 1 = 2 * j - 1
    BY <1>1, <2>1
  <2>3. excess[k] = excess[k - 1] + Weight(bp[k - 1])
    <3>1. excess[(k - 1) + 1] = excess[k - 1] + Weight(bp[k - 1])
      BY <2>2 DEF BuildInv, ExcessShape
    <3>2. (k - 1) + 1 = k
      OBVIOUS
    <3> QED
      BY <3>1, <3>2
  <2>4. excess[k - 1] \in Int /\ excess[k - 1] % 2 = 0
    <3>1. excess[k - 1] \in Int
      BY <1>1, <2>2
    <3>2. j \in 1 .. Len(nav) + 1
      BY <1>1
    <3> QED
      BY <1>3, <2>2, <3>1, <3>2
  <2>5. Weight(bp[k - 1]) \in {-1, 1}
    BY DEF Weight
  <2>6. excess[k] % 2 = 1
    <3>1. ASSUME NEW e \in Int, e % 2 = 0 PROVE (e + 1) % 2 = 1 /\ (e + (-1)) % 2 = 1
      BY <3>1
    <3> QED
      BY <2>3, <2>4, <2>5, <3>1
  <2>7. (k - 1) % 2 = 1
    <3>1. k \in Nat
      OBVIOUS
    <3> QED
      BY <1>5, <3>1
  <2> QED
    BY <1>2, <2>6, <2>7
<1> QED
  BY <1>4, <1>5

LEMMA CloseParity ==
  ASSUME BuildInv, NEW n \in Nat, HasClose(n)
  PROVE  /\ find_close(n) \in n + 1 .. Len(bp) - 1
         /\ find_close(n) % 2 = (n + 1) % 2
<1> DEFINE C == Closers(excess, n)
<1>1. Len(bp) \in Nat /\ Len(excess) = Len(bp) + 1 /\ n < Len(bp) /\ C # {}
  <2>1. bp \in Seq({0, 1})
    BY DEF BuildInv, BuildTypeOK
  <2>2. Len(bp) \in Nat
    BY <2>1
  <2> QED
    BY <2>2 DEF BuildInv, ExcessShape, HasClose, CanClose
<1>2. C \subseteq Nat
  BY <1>1 DEF Closers
<1>3. \E j \in C : \A k \in C : j <= k
  BY <1>1, <1>2, LeastExists
<1>4. find_close(n) \in C
  BY <1>3 DEF find_close, FindClose
<1> DEFINE j == find_close(n)
<1> HIDE DEF j
<1>5. j \in n + 1 .. Len(excess) - 2 /\ excess[j + 2] = excess[n + 1]
  BY <1>4 DEF Closers, j
<1>6. j + 2 \in 1 .. Len(excess) /\ n + 1 \in 1 .. Len(excess)
  BY <1>1, <1>5
<1>7. excess[j + 2] % 2 = ((j + 2) - 1) % 2 /\ excess[n + 1] % 2 = ((n + 1) - 1) % 2
  BY <1>6, ExcessParity
<1>8. j \in n + 1 .. Len(bp) - 1 /\ j % 2 = (n + 1) % 2
  BY <1>1, <1>5, <1>7
<1> QED
  BY <1>8 DEF j

LEMMA CloseFlips ==
  ASSUME BuildInv, NEW n \in Nat, HasClose(n)
  PROVE  /\ find_close(n) \in Nat
         /\ n % 2 = 0 => find_close(n) % 2 = 1
         /\ n % 2 = 1 => find_close(n) % 2 = 0
<1> DEFINE j == find_close(n)
<1>1. j \in n + 1 .. Len(bp) - 1 /\ j % 2 = (n + 1) % 2
  BY CloseParity
<1> HIDE DEF j
<1>2. j \in Nat /\ (n % 2 = 0 => j % 2 = 1) /\ (n % 2 = 1 => j % 2 = 0)
  BY <1>1
<1> QED
  BY <1>2 DEF j

LEMMA OpenParity ==
  ASSUME BuildInv, NEW n \in Nat, HasOpen(n)
  PROVE  /\ find_open(n) \in 0 .. n - 1
         /\ find_open(n) % 2 = (n + 1) % 2
<1> DEFINE O == Openers(excess, n)
<1>1. Len(bp) \in Nat /\ Len(excess) = Len(bp) + 1 /\ n < Len(bp) /\ O # {}
  <2>1. bp \in Seq({0, 1})
    BY DEF BuildInv, BuildTypeOK
  <2>2. Len(bp) \in Nat
    BY <2>1
  <2> QED
    BY <2>2 DEF BuildInv, ExcessShape, HasOpen, CanOpen
<1>2. O \subseteq 0 .. n
  BY DEF Openers
<1>3. \E j \in O : \A k \in O : j >= k
  BY <1>1, <1>2, GreatestExists
<1>4. find_open(n) \in O
  BY <1>3 DEF find_open, FindOpen
<1> DEFINE j == find_open(n)
<1> HIDE DEF j
<1>5. j \in 0 .. n - 1 /\ excess[j + 1] = excess[n + 2]
  BY <1>4 DEF Openers, j
<1>6. j + 1 \in 1 .. Len(excess) /\ n + 2 \in 1 .. Len(excess)
  BY <1>1, <1>5
<1>7. excess[j + 1] % 2 = ((j + 1) - 1) % 2 /\ excess[n + 2] % 2 = ((n + 2) - 1) % 2
  BY <1>6, ExcessParity
<1>8. j \in 0 .. n - 1 /\ j % 2 = (n + 1) % 2
  BY <1>5, <1>7
<1> QED
  BY <1>8 DEF j

(* The range of a node does not end before it begins: the ones of nav are  *)
(* increasing, and the match of an odd node belongs to a later one.        *)
LEMMA RangeOrdered ==
  ASSUME BuildInv, NEW n \in Nat, NEW offset \in Int, HasPos(n), HasClose(n)
  PROVE  /\ get_pos(n, offset) \in Int /\ FindEnd(n, offset) \in Int
         /\ get_pos(n, offset) <= FindEnd(n, offset)
<1> DEFINE j == find_close(n)
<1>1. j \in n + 1 .. Len(bp) - 1 /\ j % 2 = (n + 1) % 2
  BY CloseParity
<1> HIDE DEF j
<1>2. nav \in Seq(Nat) /\ Len(nav) \in Nat /\ Len(bp) = 2 * Len(nav)
  BY DEF BuildInv, BuildTypeOK, NavMarksStructure
<1>3. n \div 2 \in 0 .. Len(nav) - 1
  BY DEF HasPos, HasSelect
<1>4. j \div 2 \in 0 .. Len(nav) - 1
  BY <1>1, <1>2
<1> DEFINE a == n \div 2 + 1
           b == j \div 2 + 1
<1>5. a \in 1 .. Len(nav) /\ b \in 1 .. Len(nav)
  BY <1>2, <1>3, <1>4
<1>6. nav[a] \in Nat /\ nav[b] \in Nat /\ (a < b => nav[a] < nav[b])
  BY <1>2, <1>5 DEF BuildInv, NavMarksStructure
<1>7. a <= b /\ (n % 2 = 1 => a < b)
  BY <1>1
<1>8. n % 2 \in {0, 1}
  OBVIOUS
<1>9. nav[a] + (n % 2) <= nav[b] + (1 - (n % 2))
  BY <1>5, <1>6, <1>7, <1>8
<1>10. /\ get_pos(n, offset) = nav[a] + (n % 2) - offset
       /\ FindEnd(n, offset) = nav[b] + (1 - (n % 2)) - offset
  BY DEF get_pos, FindEnd, Select, j
<1> QED
  BY <1>6, <1>8, <1>9, <1>10

LEMMA PosTyped ==
  ASSUME BuildInv, NEW n \in Nat, NEW offset \in Int, HasPos(n)
  PROVE  get_pos(n, offset) \in Int
<1>1. nav \in Seq(Nat)
  BY DEF BuildInv, BuildTypeOK
<1>2. n \div 2 + 1 \in 1 .. Len(nav) /\ n % 2 \in Int
  BY DEF HasPos, HasSelect
<1>3. nav[n \div 2 + 1] \in Nat
  BY <1>1, <1>2
<1> QED
  BY <1>2, <1>3 DEF get_pos, Select

-----------------------------------------------------------------------------
(* The inductive invariant: the index is as built, the numbers are numbers *)
(* and the nodes have their parities.                                      *)
Cell == {NullCell} \cup {c \in Int \X Int : c[1] <= c[2]}

NumbersOK ==
  /\ root.node \in Nat /\ root.json \in Int /\ root.offset \in Int
  /\ cursor.node \in Nat /\ cursor.offset \in Int
  /\ acc.node \in Nat /\ cur_node \in Int /\ line \in Nat

RowsOK == row \in Seq(Cell) /\ out \in Seq(Seq(Cell))

(* The line that is being indexed is one of the file.                      *)
InputOK ==
  /\ IsCollection(input)
  /\ step = "index" => line \in 1 .. Len(input.ends)

SelectInv == BuildInv /\ InputOK /\ NumbersOK /\ RowsOK /\ NodeParity

LEMMA SelectInitInv == Init => SelectInv
<1> SUFFICES ASSUME Init PROVE SelectInv
  OBVIOUS
<1>1. BuildInv
  BY BuildInitInv DEF Init
<1>2. NumbersOK
  BY DEF Init, NumbersOK, NullCursor, NoAccessor
<1>3. RowsOK
  BY DEF Init, RowsOK
<1>4. NodeParity
  BY DEF Init, NodeParity, NullCursor, NoAccessor
<1>5. InputOK
  BY CollectionsAssumption DEF Init, BuildInit, InputOK
<1> QED
  BY <1>1, <1>2, <1>3, <1>4, <1>5 DEF SelectInv

LEMMA IndexKept == ASSUME BuildInv, UNCHANGED buildVars PROVE BuildInv'
  BY BuildNextInv

LEMMA RowsKept == ASSUME RowsOK, UNCHANGED <<row, out>> PROVE RowsOK'
  BY DEF RowsOK

LEMMA InputKept ==
  ASSUME InputOK, UNCHANGED <<input, line>>, step' # "index" \/ step' = step
  PROVE  InputOK'
  BY DEF InputOK, IsCollection

(* A child that is returned is an odd node.                                *)
LEMMA ReturnInv ==
  ASSUME SelectInv, step \in InPath, NEW valid, NEW n \in Nat,
         n % 2 = 1 \/ n = acc.node,
         Return(valid, n), UNCHANGED <<buildVars, input, driverVars, row, out>>
  PROVE  SelectInv'
<1>1. BuildInv' /\ RowsOK'
  BY IndexKept, RowsKept DEF SelectInv
<1>2. acc'.node = n /\ step' = "path" /\ root' = root /\ cur_node' = cur_node
  BY DEF Return
<1>3. cursor' = cursor /\ line' = line
  BY DEF driverVars
<1>4. NumbersOK'
  BY <1>2, <1>3 DEF SelectInv, NumbersOK
<1>5. NodeParity'
  BY <1>2, <1>3 DEF SelectInv, NodeParity, InPath
<1>6. InputOK'
  BY <1>2, <1>3, InputKept DEF SelectInv
<1> QED
  BY <1>1, <1>4, <1>5, <1>6 DEF SelectInv

LEMMA LoopInv ==
  ASSUME SelectInv, step' \in {"object", "forward", "backward"},
         step \in InPath, cur_node' \in Int,
         step' \in {"object", "forward"} => cur_node' % 2 = 1,
         step' = "backward" => cur_node' % 2 = 0,
         root' = root, acc' = acc, UNCHANGED <<buildVars, input, driverVars, row, out>>
  PROVE  SelectInv'
<1>1. BuildInv' /\ RowsOK'
  BY IndexKept, RowsKept DEF SelectInv
<1>2. cursor' = cursor /\ line' = line
  BY DEF driverVars
<1>3. NumbersOK'
  BY <1>2 DEF SelectInv, NumbersOK
<1>4. NodeParity'
  BY <1>2 DEF SelectInv, NodeParity, InPath
<1>5. InputOK'
  BY <1>2, InputKept DEF SelectInv
<1> QED
  BY <1>1, <1>3, <1>4, <1>5 DEF SelectInv

LEMMA ContainerEven ==
  ASSUME SelectInv
  PROVE  container \in Nat /\ container % 2 = 0
  BY DEF SelectInv, NumbersOK, container

LEMMA RejectInv ==
  ASSUME SelectInv, step \in InPath, Reject, UNCHANGED <<buildVars, input, driverVars, row, out>>
  PROVE  SelectInv'
<1>1. acc.node \in Nat
  BY DEF SelectInv, NumbersOK
<1> QED
  BY <1>1, ReturnInv DEF Reject

LEMMA NavInv ==
  ASSUME SelectInv, NavNext, UNCHANGED <<buildVars, input, driverVars, row, out>>
  PROVE  SelectInv'
<1>0. BuildInv /\ acc.node \in Nat /\ cur_node \in Int
  BY DEF SelectInv, NumbersOK
<1>c. container \in Nat /\ container % 2 = 0
  BY ContainerEven
<1>p. ASSUME AtParen PROVE cur_node \in Nat
  BY <1>0, <1>p DEF AtParen
<1>o. step \in {"object", "forward"} => cur_node % 2 = 1
  BY DEF SelectInv, NodeParity
<1>b. step = "backward" => cur_node % 2 = 0
  BY DEF SelectInv, NodeParity
<1>1. CASE EnterObject
  <2>1. /\ step = "path" /\ step' = "object" /\ cur_node' = container + 1
        /\ root' = root /\ acc' = acc
    BY <1>1 DEF EnterObject, Entering
  <2>2. cur_node' \in Int /\ cur_node' % 2 = 1
    BY <1>c, <2>1
  <2> QED
    BY <2>1, <2>2, LoopInv DEF InPath
<1>2. CASE NotAnObject
  BY <1>2, RejectInv DEF NotAnObject, Entering, InPath
<1>3. CASE NoMoreMembers
  BY <1>3, RejectInv DEF NoMoreMembers, InPath
<1>4. CASE MemberFound
  <2>1. step = "object" /\ AtParen /\ HasClose(cur_node) /\ Return(TRUE, val_begin)
    BY <1>4 DEF MemberFound, KeyRead
  <2>2. find_close(cur_node) \in Nat /\ find_close(cur_node) % 2 = 0
    BY <1>0, <1>p, <1>o, <2>1, CloseFlips
  <2>3. val_begin \in Nat /\ val_begin % 2 = 1
    BY <2>2 DEF val_begin
  <2> QED
    BY <2>1, <2>3, ReturnInv DEF InPath
<1>5. CASE NextMember
  <2>1. /\ step = "object" /\ AtParen /\ HasClose(cur_node) /\ HasClose(val_begin)
        /\ cur_node' = val_end + 1 /\ step' = step /\ root' = root /\ acc' = acc
    BY <1>5 DEF NextMember, KeyRead
  <2>2. find_close(cur_node) \in Nat /\ find_close(cur_node) % 2 = 0
    BY <1>0, <1>p, <1>o, <2>1, CloseFlips
  <2>3. val_begin \in Nat /\ val_begin % 2 = 1
    BY <2>2 DEF val_begin
  <2>4. val_end \in Nat /\ val_end % 2 = 0
    BY <1>0, <2>1, <2>3, CloseFlips DEF val_end
  <2>5. cur_node' \in Int /\ cur_node' % 2 = 1
    BY <2>1, <2>4
  <2> QED
    BY <2>1, <2>5, LoopInv DEF InPath
<1>6. CASE EnterArray
  <2>0. step = "path" /\ root' = root /\ acc' = acc
    BY <1>6 DEF EnterArray, Entering
  <2>1. CASE cur_node' = container + 1 /\ step' = "forward"
    <3>1. cur_node' \in Int /\ cur_node' % 2 = 1
      BY <1>c, <2>1
    <3> QED
      BY <2>0, <2>1, <3>1, LoopInv DEF InPath
  <2>2. CASE HasClose(container) /\ cur_node' = find_close(container) - 1 /\ step' = "backward"
    <3>1. find_close(container) \in Nat /\ find_close(container) % 2 = 1
      BY <1>0, <1>c, <2>2, CloseFlips
    <3>2. cur_node' \in Int /\ cur_node' % 2 = 0
      BY <2>2, <3>1
    <3> QED
      BY <2>0, <2>2, <3>2, LoopInv DEF InPath
  <2> QED
    BY <1>6, <2>1, <2>2 DEF EnterArray
<1>7. CASE NotAnArray
  BY <1>7, RejectInv DEF NotAnArray, Entering, InPath
<1>8. CASE Forward
  <2>0. step = "forward" /\ AtParen
    BY <1>8 DEF Forward
  <2>1. CASE Reject
    BY <2>0, <2>1, RejectInv DEF InPath
  <2>2. CASE Return(TRUE, cur_node)
    BY <1>p, <1>o, <2>0, <2>2, ReturnInv DEF InPath
  <2>3. CASE /\ HasClose(cur_node) /\ cur_node' = find_close(cur_node) + 1
             /\ step' = step /\ root' = root /\ acc' = acc
    <3>1. find_close(cur_node) \in Nat /\ find_close(cur_node) % 2 = 0
      BY <1>0, <1>p, <1>o, <2>0, <2>3, CloseFlips
    <3>2. cur_node' \in Int /\ cur_node' % 2 = 1
      BY <2>3, <3>1
    <3> QED
      BY <2>0, <2>3, <3>2, LoopInv DEF InPath
  <2> QED
    BY <1>8, <2>1, <2>2, <2>3 DEF Forward
<1>9. CASE Backward
  <2>0. step = "backward" /\ AtParen
    BY <1>9 DEF Backward
  <2>1. CASE Reject
    BY <2>0, <2>1, RejectInv DEF InPath
  <2>o. ASSUME HasOpen(cur_node)
        PROVE  find_open(cur_node) \in Nat /\ find_open(cur_node) % 2 = 1
    BY <1>0, <1>p, <1>b, <2>0, <2>o, OpenParity
  <2>2. CASE HasOpen(cur_node) /\ Return(TRUE, find_open(cur_node))
    BY <2>0, <2>o, <2>2, ReturnInv DEF InPath
  <2>3. CASE /\ HasOpen(cur_node) /\ cur_node' = find_open(cur_node) - 1
             /\ step' = step /\ root' = root /\ acc' = acc
    <3>2. cur_node' \in Int /\ cur_node' % 2 = 0
      BY <2>3, <2>o
    <3> QED
      BY <2>0, <2>3, <3>2, LoopInv DEF InPath
  <2> QED
    BY <1>9, <2>1, <2>2, <2>3 DEF Backward
<1> QED
  BY <1>1, <1>2, <1>3, <1>4, <1>5, <1>6, <1>7, <1>8, <1>9 DEF NavNext

-----------------------------------------------------------------------------
(* The steps of the driver.                                                *)
LEMMA CursorAt ==
  ASSUME BuildInv, NEW n \in Nat, n % 2 = 0, HasPos(n)
  PROVE  /\ Cursor(n).node = n /\ Cursor(n).offset \in Int
<1>1. get_pos(n, 0) \in Int
  BY PosTyped
<1> QED
  BY <1>1 DEF Cursor

LEMMA StartDocumentInv ==
  ASSUME SelectInv, NEW at \in Int, NEW lo, NEW end, NEW last, line' \in Nat,
         StartDocument(at, lo, end, last)
  PROVE  SelectInv'
<1>0. /\ BuildInv /\ RowsOK /\ cursor.node \in Nat /\ cursor.node % 2 = 0 /\ cursor.offset \in Int
      /\ acc.node \in Nat /\ cur_node \in Int
  BY DEF SelectInv, NumbersOK, NodeParity
<1>1. /\ HasNext /\ root' = [node |-> cursor.node, json |-> at, offset |-> cursor.offset]
      /\ cursor' = CursorNext /\ step' = "row" /\ row' = << >> /\ out' = out
      /\ UNCHANGED buildVars /\ input' = input /\ acc' = acc /\ cur_node' = cur_node
  BY DEF StartDocument
<1>2. find_close(cursor.node) \in Nat /\ find_close(cursor.node) % 2 = 1
  BY <1>0, <1>1, CloseFlips DEF HasNext
<1>3. next_node \in Nat /\ next_node % 2 = 0
  BY <1>2 DEF next_node
<1>4. cursor'.node \in Nat /\ cursor'.node % 2 = 0 /\ cursor'.offset \in Int
  <2>1. CASE next_node = Len(bp)
    BY <1>1, <2>1 DEF CursorNext, NullCursor
  <2>2. CASE next_node # Len(bp)
    <3>1. HasPos(next_node) /\ cursor' = Cursor(next_node)
      BY <1>1, <2>2 DEF CursorNext, HasNext
    <3> QED
      BY <1>0, <1>3, <3>1, CursorAt
  <2> QED
    BY <2>1, <2>2
<1>5. root'.node = cursor.node /\ root'.json = at /\ root'.offset = cursor.offset
  BY <1>1
<1>6. BuildInv'
  BY <1>0, <1>1, IndexKept
<1>7. NumbersOK'
  BY <1>0, <1>1, <1>4, <1>5 DEF NumbersOK
<1>8. RowsOK'
  BY <1>0, <1>1 DEF RowsOK
<1>9. NodeParity'
  BY <1>0, <1>1, <1>4, <1>5 DEF NodeParity, InPath
<1>10. InputOK'
  BY <1>1 DEF SelectInv, InputOK, IsCollection
<1> QED
  BY <1>6, <1>7, <1>8, <1>9, <1>10 DEF SelectInv

(* Steps that change neither the index nor a node or number the invariant  *)
(* speaks of.                                                              *)
LEMMA QuietInv ==
  ASSUME SelectInv, UNCHANGED <<buildVars, input, root, acc, cur_node, cursor, line>>,
         step' = step \/ step' \notin InPath \cup {"index"}, RowsOK'
  PROVE  SelectInv'
<1>1. BuildInv'
  BY IndexKept DEF SelectInv
<1>2. NumbersOK'
  BY DEF SelectInv, NumbersOK
<1>3. NodeParity'
  BY DEF SelectInv, NodeParity, InPath
<1>4. InputOK'
  BY InputKept DEF SelectInv
<1> QED
  BY <1>1, <1>2, <1>3, <1>4 DEF SelectInv

(* si_parse_stream: a line of the file is a collection of its own.         *)
LEMMA LineIsCollection ==
  ASSUME IsCollection(input), NEW n \in 1 .. Len(input.ends)
  PROVE  /\ LineStart(n) \in Nat /\ input.ends[n] \in Nat
         /\ IsCollection(Line(n))
<1>1. /\ input.ends \in Seq(Nat) /\ input.text \in Seq(STRING) /\ n \in Nat \ {0}
      /\ n > 1 => n - 1 \in 1 .. Len(input.ends)
  BY DEF IsCollection
<1>2. LineStart(n) \in Nat /\ input.ends[n] \in Nat
  BY <1>1 DEF LineStart
<1>3. LineStart(n) <= input.ends[n] /\ input.ends[n] <= Len(input.text)
  BY <1>1, <1>2 DEF LineStart, IsCollection
<1> DEFINE a == LineStart(n)
           b == input.ends[n]
           t == SubSeq(input.text, a + 1, b)
<1>4. a \in Nat /\ b \in Nat /\ a <= b /\ b <= Len(input.text)
  BY <1>2, <1>3
<1>5. t \in Seq(STRING) /\ Len(t) = b - a
  <2> HIDE DEF a, b
  <2>1. a + 1 \in 1 .. b + 1 /\ b \in 0 .. Len(input.text)
    BY <1>1, <1>4
  <2> QED
    BY <1>1, <1>4, <2>1
<1>6. Line(n) = [text |-> t, ends |-> <<b - a>>]
  BY DEF Line
<1> HIDE DEF a, b, t
<1>7. <<b - a>> \in Seq(Nat) /\ Len(<<b - a>>) = 1
  BY <1>4
<1> QED
  BY <1>2, <1>5, <1>6, <1>7 DEF IsCollection

LEMMA GrowIsCollection ==
  ASSUME IsCollection(input), NEW chars \in Seq(STRING)
  PROVE  IsCollection([input EXCEPT !.text = @ \o chars,
                                    !.ends = Append(@, Len(input.text) + Len(chars))])
<1>1. input.ends \in Seq(Nat) /\ input.text \in Seq(STRING) /\ {"text", "ends"} \subseteq DOMAIN input
  BY DEF IsCollection
<1> DEFINE t == input.text \o chars
           e == Append(input.ends, Len(input.text) + Len(chars))
           c == [input EXCEPT !.text = t, !.ends = e]
<1>2. t \in Seq(STRING) /\ Len(t) = Len(input.text) + Len(chars)
  BY <1>1
<1>3. /\ e \in Seq(Nat) /\ Len(e) = Len(input.ends) + 1 /\ e[Len(e)] = Len(t)
      /\ \A k \in 1 .. Len(input.ends) : e[k] = input.ends[k]
  BY <1>1, <1>2
<1>4. c.text = t /\ c.ends = e /\ {"text", "ends"} \subseteq DOMAIN c
  BY <1>1
<1> HIDE DEF t, e, c
<1>5. ASSUME NEW k \in 1 .. Len(e)
      PROVE  e[k] <= Len(t) /\ (k > 1 => e[k - 1] <= e[k])
  <2>1. /\ \A j \in 1 .. Len(input.ends) : input.ends[j] <= Len(input.text)
        /\ \A j \in 1 .. Len(input.ends) : j > 1 => input.ends[j - 1] <= input.ends[j]
    BY DEF IsCollection
  <2>2. Len(input.text) \in Nat /\ Len(chars) \in Nat /\ Len(input.ends) \in Nat
    BY <1>1
  <2>3. \A j \in 1 .. Len(input.ends) : input.ends[j] \in Nat /\ e[j] <= Len(input.text)
    BY <1>1, <1>3, <2>1
  <2>4. Len(t) \in Nat /\ Len(input.text) <= Len(t)
    BY <1>2, <2>2
  <2>5. CASE k = Len(input.ends) + 1
    <3>1. e[k] = Len(t)
      BY <1>3, <2>5
    <3>2. ASSUME k > 1 PROVE e[k - 1] <= e[k]
      <4>1. k - 1 \in 1 .. Len(input.ends)
        BY <2>2, <2>5, <3>2
      <4>2. e[k - 1] \in Nat /\ e[k - 1] <= Len(input.text)
        BY <1>3, <2>3, <4>1
      <4> QED
        BY <2>2, <2>4, <3>1, <4>2
    <3> QED
      BY <2>4, <3>1, <3>2
  <2>6. CASE k \in 1 .. Len(input.ends)
    <3>1. e[k] = input.ends[k] /\ e[k] \in Nat /\ e[k] <= Len(input.text)
      BY <1>3, <2>3, <2>6
    <3>2. ASSUME k > 1 PROVE e[k - 1] <= e[k]
      <4>1. k - 1 \in 1 .. Len(input.ends)
        BY <2>2, <2>6, <3>2
      <4> QED
        BY <1>3, <2>1, <2>6, <3>1, <3>2, <4>1
    <3> QED
      BY <2>2, <2>4, <3>1, <3>2
  <2> QED
    BY <1>3, <2>2, <2>5, <2>6
<1>6. IsCollection(c)
  BY <1>2, <1>3, <1>4, <1>5 DEF IsCollection
<1> QED
  BY <1>6 DEF c, t, e

LEMMA SelectNextInv == SelectInv /\ [SelectNext]_vars => SelectInv'
<1> SUFFICES ASSUME SelectInv, [SelectNext]_vars PROVE SelectInv'
  OBVIOUS
<1>0. BuildInv /\ InputOK /\ NumbersOK /\ RowsOK /\ NodeParity
  BY DEF SelectInv
<1>1. CASE Build
  <2>1. BuildInv'
    BY <1>0, <1>1, BuildNextInv DEF Build
  <2>2. UNCHANGED <<input, step, root, acc, cur_node, cursor, line, row, out>>
    BY <1>1 DEF Build, navVars, driverVars
  <2>3. NumbersOK' /\ NodeParity'
    BY <1>0, <2>2 DEF NumbersOK, NodeParity
  <2>4. RowsOK' /\ InputOK'
    BY <1>0, <2>2, RowsKept, InputKept
  <2> QED
    BY <2>1, <2>3, <2>4 DEF SelectInv
<1>2. CASE Open
  <2>1. /\ HasPos(0) /\ cursor' = Cursor(0) /\ step' = "document"
        /\ UNCHANGED buildVars /\ UNCHANGED <<input, root, acc, cur_node, line>>
        /\ UNCHANGED <<row, out>>
    BY <1>2 DEF Open, navVars
  <2>2. cursor'.node = 0 /\ cursor'.offset \in Int
    BY <1>0, <2>1, CursorAt
  <2>3. NumbersOK' /\ NodeParity'
    BY <1>0, <2>1, <2>2 DEF NumbersOK, NodeParity, InPath
  <2>4. BuildInv' /\ RowsOK' /\ InputOK'
    BY <1>0, <2>1, IndexKept, RowsKept, InputKept
  <2> QED
    BY <2>3, <2>4 DEF SelectInv
<1>3. CASE ReadLine
  <2>1. /\ line < Len(input.ends) /\ line' = line + 1 /\ line \in Nat
        /\ StartDocument(LineStart(line + 1), LineStart(line + 1),
                         input.ends[line + 1], input.ends[line + 1])
    BY <1>0, <1>3 DEF ReadLine, NumbersOK
  <2>2. IsCollection(input) /\ line + 1 \in 1 .. Len(input.ends)
    BY <1>0, <2>1 DEF InputOK, IsCollection
  <2>3. LineStart(line + 1) \in Int
    BY <2>2, LineIsCollection
  <2> QED
    BY <2>1, <2>3, StartDocumentInv
<1>4. CASE MapDocument
  <2>1. /\ line' = line /\ line \in Nat /\ cursor.offset \in Int
        /\ StartDocument(cursor.offset, 0, Len(input.text), Len(input.text) - 1)
    BY <1>0, <1>4 DEF MapDocument, NumbersOK
  <2> QED
    BY <2>1, StartDocumentInv
<1>5. CASE Finish
  <2>1. /\ step' = "done"
        /\ UNCHANGED <<buildVars, input, root, acc, cur_node, cursor, line>> /\ UNCHANGED <<row, out>>
    BY <1>5 DEF Finish, navVars, driverVars
  <2> QED
    BY <1>0, <2>1, QuietInv, RowsKept DEF InPath
<1>6. CASE StartPath
  <2>1. /\ acc' = [is_valid |-> TRUE, node |-> root.node] /\ step' = "path"
        /\ UNCHANGED buildVars /\ UNCHANGED <<input, root, cur_node, cursor, line>>
        /\ UNCHANGED <<row, out>>
    BY <1>6 DEF StartPath, driverVars
  <2>2. acc'.node = root.node
    BY <2>1
  <2>3. NumbersOK' /\ NodeParity'
    BY <1>0, <2>1, <2>2 DEF NumbersOK, NodeParity
  <2>4. BuildInv' /\ RowsOK' /\ InputOK'
    BY <1>0, <2>1, IndexKept, RowsKept, InputKept
  <2> QED
    BY <2>3, <2>4 DEF SelectInv
<1>7. CASE Navigate
  BY <1>7, NavInv DEF Navigate
<1>8. CASE WriteValue
  <2>1. /\ step' = "row" /\ out' = out
        /\ UNCHANGED <<buildVars, input, root, acc, cur_node, cursor, line>>
    BY <1>8 DEF WriteValue, navVars, driverVars
  <2>2. \E c \in Cell : row' = Append(row, c)
    <3>1. CASE HasRange /\ row' = Append(row, range)
      <4>1. /\ acc.node \in Nat /\ root.offset \in Int /\ root.json \in Int
            /\ HasPos(acc.node) /\ HasClose(acc.node)
        BY <1>0, <3>1 DEF NumbersOK, HasRange
      <4> DEFINE a == get_pos(acc.node, root.offset)
                 b == FindEnd(acc.node, root.offset)
      <4>2. a \in Int /\ b \in Int /\ a <= b
        BY <1>0, <4>1, RangeOrdered
      <4>3. range = <<root.json + a, root.json + b>>
        BY DEF range
      <4> HIDE DEF a, b
      <4>4. range \in Cell
        BY <4>1, <4>2, <4>3 DEF Cell
      <4> QED
        BY <3>1, <4>4
    <3>2. CASE row' = Append(row, NullCell)
      BY <3>2 DEF Cell
    <3> QED
      BY <1>8, <3>1, <3>2 DEF WriteValue
  <2>3. RowsOK'
    BY <1>0, <2>1, <2>2 DEF RowsOK
  <2> QED
    BY <2>1, <2>3, QuietInv DEF InPath
<1>9. CASE WriteRow
  <2>1. /\ step' = "document" /\ out' = Append(out, row) /\ row' = row
        /\ UNCHANGED <<buildVars, input, root, acc, cur_node, cursor, line>>
    BY <1>9 DEF WriteRow, navVars, driverVars
  <2>2. RowsOK'
    BY <1>0, <2>1 DEF RowsOK
  <2> QED
    BY <2>1, <2>2, QuietInv DEF InPath
<1>10. CASE Undefined
  <2>1. /\ step' = "undefined"
        /\ UNCHANGED <<buildVars, input, root, acc, cur_node, cursor, line>> /\ UNCHANGED <<row, out>>
    BY <1>10 DEF Undefined, navVars, driverVars
  <2> QED
    BY <1>0, <2>1, QuietInv, RowsKept DEF InPath
<1>11. CASE UNCHANGED vars
  <2>1. /\ step' = step
        /\ UNCHANGED <<buildVars, input, root, acc, cur_node, cursor, line>> /\ UNCHANGED <<row, out>>
    BY <1>11 DEF vars, navVars, driverVars
  <2> QED
    BY <1>0, <2>1, QuietInv, RowsKept
<1>12. CASE Grow
  <2>1. PICK chars \in Appended :
          input' = [input EXCEPT !.text = @ \o chars,
                                 !.ends = Append(@, Len(input.text) + Len(chars))]
    BY <1>12 DEF Grow
  <2>2. IsCollection(input')
    BY <1>0, <2>1, GrowIsCollection, AppendedAssumption DEF InputOK
  <2>3. /\ step = "save" /\ UNCHANGED buildVars
        /\ UNCHANGED <<step, root, acc, cur_node, cursor, line>> /\ UNCHANGED <<row, out>>
    BY <1>12 DEF Grow, navVars, driverVars
  <2>4. InputOK' /\ NumbersOK' /\ NodeParity'
    BY <1>0, <2>2, <2>3 DEF InputOK, NumbersOK, NodeParity
  <2>5. BuildInv' /\ RowsOK'
    BY <1>0, <2>3, IndexKept, RowsKept
  <2> QED
    BY <2>4, <2>5 DEF SelectInv
<1>13. CASE OpenDirect
  <2>1. /\ step' = "document" /\ UNCHANGED <<row, out>>
        /\ UNCHANGED <<buildVars, input, root, acc, cur_node, cursor, line>>
    BY <1>13 DEF OpenDirect, navVars
  <2> QED
    BY <1>0, <2>1, QuietInv, RowsKept DEF InPath
<1>14. CASE IndexLine
  <2>1. /\ line < Len(input.ends) /\ line' = line + 1 /\ line \in Nat
        /\ Construct(Line(line + 1)) /\ step' = "index"
        /\ UNCHANGED <<input, root, acc, cur_node, cursor>> /\ UNCHANGED <<row, out>>
    BY <1>0, <1>14 DEF IndexLine, navVars, NumbersOK
  <2>2. IsCollection(input) /\ line + 1 \in 1 .. Len(input.ends)
    BY <1>0, <2>1 DEF InputOK, IsCollection
  <2>3. BuildInv'
    BY <2>1, <2>2, LineIsCollection, ConstructInv
  <2>4. InputOK'
    BY <2>1, <2>2 DEF InputOK
  <2>5. NumbersOK' /\ NodeParity'
    BY <1>0, <2>1 DEF NumbersOK, NodeParity, InPath
  <2>6. RowsOK'
    BY <1>0, <2>1, RowsKept
  <2> QED
    BY <2>3, <2>4, <2>5, <2>6 DEF SelectInv
<1>15. CASE TakeRoot
  <2>1. /\ step = "index" /\ HasPos(0) /\ step' = "row" /\ row' = << >> /\ out' = out
        /\ root' = [node |-> 0, json |-> LineStart(line), offset |-> get_pos(0, 0)]
        /\ UNCHANGED buildVars /\ UNCHANGED <<input, acc, cur_node, cursor, line>>
    BY <1>15 DEF TakeRoot, driverVars
  <2>2. LineStart(line) \in Int
    BY <1>0, <2>1, LineIsCollection DEF InputOK
  <2>3. get_pos(0, 0) \in Int
    BY <1>0, <2>1, PosTyped
  <2>4. root'.node = 0 /\ root'.json \in Int /\ root'.offset \in Int
    BY <2>1, <2>2, <2>3
  <2>5. NumbersOK' /\ NodeParity'
    BY <1>0, <2>1, <2>4 DEF NumbersOK, NodeParity, InPath
  <2>6. RowsOK'
    BY <1>0, <2>1 DEF RowsOK
  <2>7. BuildInv' /\ InputOK'
    BY <1>0, <2>1, IndexKept, InputKept
  <2> QED
    BY <2>5, <2>6, <2>7 DEF SelectInv
<1> QED
  BY <1>1, <1>2, <1>3, <1>4, <1>5, <1>6, <1>7, <1>8, <1>9, <1>10, <1>11,
     <1>12, <1>13, <1>14, <1>15 DEF SelectNext

-----------------------------------------------------------------------------
(* For every text and every path, roots are even nodes and the values      *)
(* reached from them odd ones, which is what get_pos and FindEnd assume.   *)
THEOREM SelectNodeParity == Spec => []NodeParity
<1>1. SelectInv => NodeParity
  BY DEF SelectInv
<1> QED
  BY <1>1, SelectInitInv, SelectNextInv, PTL DEF Spec

(* For every text and every path, no range that is printed ends before it  *)
(* begins: r.second - r.first, which is unsigned, never wraps around.      *)
THEOREM SelectRangesOrdered == Spec => []RangesOrdered
<1>1. SelectInv => RangesOrdered
  <2> SUFFICES ASSUME SelectInv PROVE RangesOrdered
    OBVIOUS
  <2>1. row \in Seq(Cell) /\ out \in Seq(Seq(Cell))
    BY DEF SelectInv, RowsOK
  <2>2. \A c \in Cell : Ordered(c)
    BY DEF Cell, Ordered
  <2>3. \A k \in DOMAIN row : Ordered(row[k])
    BY <2>1, <2>2
  <2>4. ASSUME NEW r \in DOMAIN out, NEW k \in DOMAIN out[r] PROVE Ordered(out[r][k])
    <3>1. out[r] \in Seq(Cell)
      BY <2>1
    <3> QED
      BY <2>2, <3>1
  <2> QED
    BY <2>3, <2>4 DEF RangesOrdered
<1> QED
  BY <1>1, SelectInitInv, SelectNextInv, PTL DEF Spec

-----------------------------------------------------------------------------
(* A cursor that is not null stands on a root of the saved index, with the *)
(* root's offset.  No index is built while there is one: si_parse_stream,  *)
(* which goes on building, has none.                                       *)
CursorPlaced ==
  \/ cursor = NullCursor
  \/ /\ HasPos(cursor.node) /\ cursor = Cursor(cursor.node)
     /\ step \notin {"save", "index"} /\ mode # "direct"

(* Where the roots are depends on the index alone.                         *)
LEMMA CursorStands ==
  ASSUME CursorPlaced, cursor' = cursor, mode' = mode, UNCHANGED buildVars,
         step' = step \/ step' \notin {"save", "index"}
  PROVE  CursorPlaced'
BY DEF CursorPlaced, Cursor, HasPos, HasSelect, get_pos, Select, buildVars

(* next(): the root after the one that is closed is a later node, and the  *)
(* ones of nav are increasing.                                             *)
LEMMA NextRoot ==
  ASSUME SelectInv, CursorPlaced, HasNext
  PROVE  \/ CursorNext = NullCursor
         \/ /\ HasPos(next_node) /\ CursorNext = Cursor(next_node)
            /\ CursorNext.node = next_node
            /\ CursorNext.node > cursor.node /\ CursorNext.offset > cursor.offset
<1> DEFINE n == cursor.node
           m == next_node
<1>1. /\ BuildInv /\ n \in Nat /\ n % 2 = 0 /\ HasClose(n)
  BY DEF SelectInv, NumbersOK, NodeParity, HasNext
<1>2. find_close(n) \in n + 1 .. Len(bp) - 1
  BY <1>1, CloseParity
<1>3. find_close(n) \in Nat /\ find_close(n) % 2 = 1
  BY <1>1, CloseFlips
<1>4. m \in Nat /\ m % 2 = 0 /\ m > n
  <2> DEFINE j == find_close(n)
  <2>1. j \in Nat /\ j > n /\ j % 2 = 1 /\ m = j + 1
    BY <1>1, <1>2, <1>3 DEF next_node
  <2> HIDE DEF j, m
  <2> QED
    BY <1>1, <2>1
<1>5. CASE m = Len(bp)
  BY <1>5 DEF CursorNext
<1>6. CASE m # Len(bp)
  <2>1. HasPos(m) /\ CursorNext = Cursor(m)
    BY <1>6 DEF CursorNext, HasNext
  <2>2. HasPos(n) /\ cursor = Cursor(n)
    BY DEF CursorPlaced, HasNext, NullCursor
  <2>3. nav \in Seq(Nat) /\ Len(nav) \in Nat
    BY <1>1 DEF BuildInv, BuildTypeOK
  <2> DEFINE a == n \div 2 + 1
             b == m \div 2 + 1
  <2> HIDE DEF m
  <2>4. a \in 1 .. Len(nav) /\ b \in 1 .. Len(nav)
    BY <2>1, <2>2, <2>3 DEF HasPos, HasSelect
  <2>5. a < b
    BY <1>1, <1>4
  <2>6. nav[a] \in Nat /\ nav[b] \in Nat /\ nav[a] < nav[b]
    BY <1>1, <2>3, <2>4, <2>5 DEF BuildInv, NavMarksStructure
  <2>7. get_pos(n, 0) = nav[a] + (n % 2) - 0 /\ get_pos(m, 0) = nav[b] + (m % 2) - 0
    BY DEF get_pos, Select
  <2>8. get_pos(m, 0) > get_pos(n, 0)
    BY <1>1, <1>4, <2>6, <2>7
  <2>9. /\ CursorNext.node = m /\ CursorNext.offset = get_pos(m, 0)
        /\ cursor.offset = get_pos(n, 0)
    BY <2>1, <2>2 DEF Cursor
  <2> QED
    BY <1>4, <2>1, <2>8, <2>9 DEF m
<1> QED
  BY <1>5, <1>6

(* Only taking a document moves the cursor of a query.                     *)
LEMMA CursorStep ==
  ASSUME SelectInv, CursorPlaced, [SelectNext]_vars
  PROVE  /\ CursorPlaced'
         /\ step = "document" /\ step' = "row" =>
              \/ cursor' = NullCursor
              \/ cursor'.node > cursor.node /\ cursor'.offset > cursor.offset
<1>1. ASSUME NEW at, NEW lo, NEW end, NEW last, StartDocument(at, lo, end, last),
             step = "document", mode # "direct"
      PROVE  /\ CursorPlaced'
             /\ \/ cursor' = NullCursor
                \/ cursor'.node > cursor.node /\ cursor'.offset > cursor.offset
  <2>1. /\ HasNext /\ cursor' = CursorNext /\ step' = "row" /\ mode' = mode
        /\ UNCHANGED buildVars
    BY <1>1 DEF StartDocument
  <2>2. CASE CursorNext = NullCursor
    BY <2>1, <2>2 DEF CursorPlaced, NullCursor
  <2>3. CASE /\ HasPos(next_node) /\ CursorNext = Cursor(next_node)
             /\ CursorNext.node = next_node
             /\ CursorNext.node > cursor.node /\ CursorNext.offset > cursor.offset
    <3>1. PICK m : HasPos(m) /\ cursor' = Cursor(m) /\ cursor'.node = m
      BY <2>1, <2>3
    <3>2. HasPos(m)' /\ cursor' = Cursor(m)'
      BY <2>1, <3>1 DEF HasPos, HasSelect, Cursor, get_pos, Select, buildVars
    <3>3. CursorPlaced'
      BY <1>1, <2>1, <3>1, <3>2 DEF CursorPlaced
    <3> QED
      BY <2>1, <2>3, <3>3
  <2> QED
    BY <2>1, <2>2, <2>3, NextRoot
<1>2. CASE ReadLine
  BY <1>1, <1>2 DEF ReadLine
<1>3. CASE MapDocument
  BY <1>1, <1>3 DEF MapDocument
<1>4. CASE Open
  <2>1. /\ HasPos(0) /\ cursor' = Cursor(0) /\ step = "save" /\ step' = "document"
        /\ mode' # "direct" /\ UNCHANGED buildVars
    BY <1>4 DEF Open
  <2>2. cursor'.node = 0
    BY <2>1 DEF Cursor
  <2>3. HasPos(0)' /\ cursor' = Cursor(0)'
    BY <2>1 DEF HasPos, HasSelect, Cursor, get_pos, Select, buildVars
  <2> QED
    BY <2>1, <2>2, <2>3 DEF CursorPlaced
<1>5. CASE Build
  <2>1. step \in {"save", "index"} /\ cursor' = cursor /\ step' = step
    BY <1>5 DEF Build, driverVars
  <2> QED
    BY <2>1 DEF CursorPlaced, NullCursor
<1>6. CASE IndexLine
  <2>1. mode = "direct" /\ cursor' = cursor /\ step' = "index"
    BY <1>6 DEF IndexLine
  <2> QED
    BY <2>1 DEF CursorPlaced, NullCursor
<1>7. CASE OpenDirect
  <2>1. step = "save" /\ cursor' = cursor
    BY <1>7 DEF OpenDirect
  <2> QED
    BY <2>1 DEF CursorPlaced, NullCursor
<1>8. CASE Navigate
  <2>1. cursor' = cursor /\ mode' = mode /\ UNCHANGED buildVars
    BY <1>8 DEF Navigate, driverVars
  <2>2. step' \in InPath /\ step # "document"
    BY <1>8 DEF Navigate, NavNext, EnterObject, NotAnObject, NoMoreMembers, MemberFound,
                NextMember, EnterArray, NotAnArray, Forward, Backward, Reject, Return,
                Entering, InPath
  <2> QED
    BY <2>1, <2>2, CursorStands DEF InPath
<1>9. ASSUME cursor' = cursor, mode' = mode, UNCHANGED buildVars,
             step' = step \/ (step' \notin {"save", "index"} /\ (step' = "row" => step # "document"))
      PROVE  /\ CursorPlaced'
             /\ ~ (step = "document" /\ step' = "row")
  BY <1>9, CursorStands
<1>10. CASE Grow
  BY <1>9, <1>10 DEF Grow, driverVars
<1>11. CASE TakeRoot
  BY <1>9, <1>11 DEF TakeRoot, driverVars
<1>12. CASE Finish
  BY <1>9, <1>12 DEF Finish, driverVars
<1>13. CASE StartPath
  BY <1>9, <1>13 DEF StartPath, driverVars
<1>14. CASE WriteValue
  BY <1>9, <1>14 DEF WriteValue, driverVars
<1>15. CASE WriteRow
  BY <1>9, <1>15 DEF WriteRow, driverVars
<1>16. CASE Undefined
  BY <1>9, <1>16 DEF Undefined, driverVars
<1>17. CASE UNCHANGED vars
  BY <1>9, <1>17 DEF vars, driverVars
<1> QED
  BY <1>2, <1>3, <1>4, <1>5, <1>6, <1>7, <1>8, <1>10, <1>11, <1>12, <1>13,
     <1>14, <1>15, <1>16, <1>17 DEF SelectNext

(* For every text, well-formed or not, every document that is taken moves  *)
(* the cursor to a later root at a later offset, or ends the walk: the     *)
(* loops over the documents cannot go round.                               *)
THEOREM SelectCursorAdvances == Spec => CursorAdvances
<1>1. Init => CursorPlaced
  BY DEF Init, CursorPlaced
<1>2. SelectInv /\ CursorPlaced /\ [SelectNext]_vars => CursorPlaced'
  BY CursorStep
<1>3. SelectInv /\ CursorPlaced /\ [SelectNext]_vars =>
        [step = "document" /\ step' = "row" =>
           \/ cursor' = NullCursor
           \/ cursor'.node > cursor.node /\ cursor'.offset > cursor.offset]_vars
  BY CursorStep
<1> QED
  BY <1>1, <1>2, <1>3, SelectInitInv, SelectNextInv, PTL DEF Spec, CursorAdvances

=============================================================================
