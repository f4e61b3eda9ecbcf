---------------------------- MODULE AnswerProofs ----------------------------
(***************************************************************************)
(* Where the navigation gets to, for every collection, well-formed or not, *)
(* and every list of paths: the loops over the children of a container     *)
(* stay in it and count its elements right, what is printed for a document *)
(* lies in that document, and where the brackets of the text match, no     *)
(* parenthesis that is asked for is missing.                               *)
(***************************************************************************)
EXTENDS JsonSelectProofs, LexingProofs

(* The parentheses and their excess.                                       *)
LEMMA Vectors ==
  ASSUME BuildInv
  PROVE  /\ bp \in Seq({0, 1}) /\ excess \in Seq(Int) /\ nav \in Seq(Nat)
         /\ Len(bp) \in Nat /\ Len(nav) \in Nat
         /\ Len(bp) = 2 * Len(nav) /\ Len(excess) = Len(bp) + 1
         /\ \A k \in 1 .. Len(bp) + 1 : excess[k] \in Int
         /\ \A n \in 0 .. Len(bp) - 1 :
              excess[n + 2] = excess[n + 1] + Weight(Paren(bp, n))
<1>1. /\ bp \in Seq({0, 1}) /\ excess \in Seq(Int) /\ nav \in Seq(Nat)
      /\ Len(bp) \in Nat /\ Len(nav) \in Nat
      /\ Len(bp) = 2 * Len(nav) /\ Len(excess) = Len(bp) + 1
  BY DEF BuildInv, BuildTypeOK, NavMarksStructure, ExcessShape
<1>2. \A k \in 1 .. Len(bp) + 1 : excess[k] \in Int
  BY <1>1
<1>3. ASSUME NEW n \in 0 .. Len(bp) - 1
      PROVE  excess[n + 2] = excess[n + 1] + Weight(Paren(bp, n))
  <2>1. n + 1 \in 1 .. Len(bp) /\ (n + 1) + 1 = n + 2
    BY <1>1
  <2>2. excess[(n + 1) + 1] = excess[n + 1] + Weight(bp[n + 1])
    BY <2>1 DEF BuildInv, ExcessShape
  <2> QED
    BY <2>1, <2>2 DEF Paren
<1> QED
  BY <1>1, <1>2, <1>3

(* find_close(n) is the first place where the excess is back.              *)
LEMMA CloseIs ==
  ASSUME BuildInv, NEW n \in Nat, HasClose(n)
  PROVE  /\ n \in 0 .. Len(bp) - 1 /\ Paren(bp, n) = 1
         /\ find_close(n) \in n + 1 .. Len(bp) - 1
         /\ excess[find_close(n) + 2] = excess[n + 1]
         /\ excess[n + 2] = excess[n + 1] + 1
         /\ \A k \in n + 3 .. find_close(n) + 1 : excess[k] # excess[n + 1]
<1> DEFINE C == Closers(excess, n)
           j == find_close(n)
<1>1. n \in 0 .. Len(bp) - 1 /\ Paren(bp, n) = 1 /\ C # {}
  BY DEF HasClose, CanClose
<1>2. Len(excess) = Len(bp) + 1 /\ Len(bp) \in Nat
  BY Vectors
<1>3. C \subseteq Nat
  BY DEF Closers
<1>4. j \in C /\ \A k \in C : j <= k
  <2>1. \E x \in C : \A k \in C : x <= k
    BY <1>1, <1>3, LeastExists
  <2> QED
    BY <2>1 DEF find_close, FindClose
<1>5. j \in n + 1 .. Len(bp) - 1 /\ excess[j + 2] = excess[n + 1]
  BY <1>2, <1>4 DEF Closers
<1>6. excess[n + 2] = excess[n + 1] + 1
  BY <1>1, Vectors DEF Weight
<1> HIDE DEF j
<1>7. ASSUME NEW k \in n + 3 .. j + 1 PROVE excess[k] # excess[n + 1]
  <2> SUFFICES ASSUME excess[k] = excess[n + 1] PROVE FALSE
    OBVIOUS
  <2>1. k - 2 \in n + 1 .. Len(excess) - 2 /\ (k - 2) + 2 = k /\ k - 2 < j
    BY <1>2, <1>5
  <2>2. k - 2 \in C
    BY <2>1 DEF Closers
  <2> QED
    BY <1>4, <1>5, <2>1, <2>2
<1> QED
  BY <1>1, <1>5, <1>6, <1>7 DEF j

(* Between a parenthesis and its match the excess is greater: it changes   *)
(* by one at a time, and would have to come back first.                    *)
LEMMA CloseAbove ==
  ASSUME BuildInv, NEW n \in Nat, HasClose(n), NEW k \in n + 2 .. find_close(n) + 1
  PROVE  excess[k] > excess[n + 1]
<1> DEFINE j == find_close(n)
           e == excess[n + 1]
           T == {m \in n + 2 .. j + 1 : ~ (excess[m] > e)}
<1>1. /\ n \in 0 .. Len(bp) - 1 /\ j \in n + 1 .. Len(bp) - 1
      /\ excess[n + 2] = e + 1
      /\ \A m \in n + 3 .. j + 1 : excess[m] # e
  BY CloseIs
<1>2. Len(bp) \in Nat /\ \A m \in 1 .. Len(bp) + 1 : excess[m] \in Int
  BY Vectors
<1>3. e \in Int
  BY <1>1, <1>2
<1> HIDE DEF j, e
<1>4. ASSUME T # {} PROVE FALSE
  <2>1. T \subseteq Nat
    BY <1>1
  <2>2. PICK m \in T : \A y \in T : m <= y
    BY <1>4, <2>1, LeastExists
  <2>3. m \in n + 2 .. j + 1 /\ ~ (excess[m] > e)
    BY <2>2
  <2>4. m # n + 2
    BY <1>1, <1>3, <2>3
  <2>5. m \in n + 3 .. j + 1 /\ m - 1 \in n + 2 .. j + 1 /\ m - 2 \in 0 .. Len(bp) - 1
        /\ m - 1 \in 1 .. Len(bp) + 1 /\ m \in 1 .. Len(bp) + 1
    BY <1>1, <1>2, <2>3, <2>4
  <2>6. m - 1 \notin T
    BY <2>1, <2>2, <2>5
  <2>7. excess[m - 1] > e
    BY <2>5, <2>6
  <2>8. excess[m] = excess[m - 1] + Weight(Paren(bp, m - 2))
    <3>1. excess[(m - 2) + 2] = excess[(m - 2) + 1] + Weight(Paren(bp, m - 2))
      BY <2>5, Vectors
    <3>2. (m - 2) + 2 = m /\ (m - 2) + 1 = m - 1
      BY <2>5
    <3> QED
      BY <3>1, <3>2
  <2>9. excess[m] # e
    BY <1>1, <2>5
  <2>10. excess[m] \in Int /\ excess[m - 1] \in Int
    BY <1>2, <2>5
  <2> DEFINE w == Weight(Paren(bp, m - 2))
  <2>11. w = 1 \/ w = -1
    BY DEF Weight
  <2> HIDE DEF w
  <2> QED
    BY <1>3, <2>3, <2>7, <2>8, <2>9, <2>10, <2>11 DEF w
<1> QED
  BY <1>4 DEF j, e

LEMMA CloseNotBelow ==
  ASSUME BuildInv, NEW n \in Nat, HasClose(n), NEW k \in n + 1 .. find_close(n) + 2
  PROVE  excess[k] >= excess[n + 1]
<1> DEFINE j == find_close(n)
<1>1. /\ n \in 0 .. Len(bp) - 1 /\ j \in n + 1 .. Len(bp) - 1
      /\ excess[j + 2] = excess[n + 1]
  BY CloseIs
<1>2. Len(bp) \in Nat /\ \A m \in 1 .. Len(bp) + 1 : excess[m] \in Int
  BY Vectors
<1>3. k \in n + 2 .. j + 1 => excess[k] > excess[n + 1]
  BY CloseAbove
<1> HIDE DEF j
<1>4. k = n + 1 \/ k \in n + 2 .. j + 1 \/ k = j + 2
  BY <1>1 DEF j
<1>5. excess[k] \in Int /\ excess[n + 1] \in Int
  BY <1>1, <1>2, <1>4
<1> QED
  BY <1>1, <1>3, <1>4, <1>5

(* A parenthesis inside a pair has its match inside that pair.             *)
LEMMA CloseNested ==
  ASSUME BuildInv, NEW m \in Nat, HasClose(m), NEW n \in m .. find_close(m), HasClose(n)
  PROVE  find_close(n) <= find_close(m)
<1> DEFINE c == find_close(m)
           d == find_close(n)
<1>1. /\ m \in 0 .. Len(bp) - 1 /\ c \in m + 1 .. Len(bp) - 1
      /\ excess[c + 2] = excess[m + 1]
  BY CloseIs
<1>2. n \in Nat /\ n \in m .. c
  BY <1>1
<1>3. d \in n + 1 .. Len(bp) - 1
  BY <1>2, CloseIs
<1>4. CASE n = m
  BY <1>1, <1>4
<1>5. CASE n # m
  <2>1. n + 1 \in m + 2 .. c + 1
    BY <1>1, <1>2, <1>5
  <2>2. excess[n + 1] > excess[m + 1]
    BY <2>1, CloseAbove
  <2> SUFFICES ASSUME ~ (d <= c) PROVE FALSE
    OBVIOUS
  <2>3. c + 2 \in n + 1 .. d + 2
    BY <1>1, <1>2, <1>3
  <2>4. excess[c + 2] >= excess[n + 1]
    BY <1>2, <2>3, CloseNotBelow
  <2>5. excess[n + 1] \in Int /\ excess[m + 1] \in Int
    <3>1. Len(bp) \in Nat /\ \A k \in 1 .. Len(bp) + 1 : excess[k] \in Int
      BY Vectors
    <3>2. n + 1 \in 1 .. Len(bp) + 1 /\ m + 1 \in 1 .. Len(bp) + 1
      BY <1>1, <1>2, <3>1
    <3> QED
      BY <3>1, <3>2
  <2> QED
    BY <1>1, <2>2, <2>4, <2>5
<1> QED
  BY <1>4, <1>5

-----------------------------------------------------------------------------
(* m is a parenthesis on the level of the children of n, and nothing       *)
(* between the two is above that level.                                    *)
SameLevel(n, m) ==
  /\ m \in n + 1 .. Len(bp)
  /\ excess[m + 1] = excess[n + 2]
  /\ \A k \in n + 2 .. m + 1 : excess[k] >= excess[n + 2]

LEMMA FirstChild ==
  ASSUME BuildInv, NEW n \in Nat, n < Len(bp)
  PROVE  SameLevel(n, n + 1)
<1>1. Len(bp) \in Nat /\ \A k \in 1 .. Len(bp) + 1 : excess[k] \in Int
  BY Vectors
<1>2. n + 1 \in n + 1 .. Len(bp) /\ (n + 1) + 1 = n + 2 /\ n + 2 \in 1 .. Len(bp) + 1
  BY <1>1
<1>3. \A k \in n + 2 .. (n + 1) + 1 : k = n + 2
  OBVIOUS
<1>4. excess[n + 2] \in Int
  BY <1>1, <1>2
<1> QED
  BY <1>2, <1>3, <1>4 DEF SameLevel

(* From a sibling to the parenthesis after its match.                      *)
LEMMA NextSibling ==
  ASSUME BuildInv, NEW n \in Nat, NEW m \in Nat, SameLevel(n, m), HasClose(m)
  PROVE  find_close(m) + 1 \in Nat /\ find_close(m) + 1 > m /\ SameLevel(n, find_close(m) + 1)
<1> DEFINE j == find_close(m)
<1>1. j \in m + 1 .. Len(bp) - 1 /\ excess[j + 2] = excess[m + 1]
  BY CloseIs
<1>2. Len(bp) \in Nat /\ \A k \in 1 .. Len(bp) + 1 : excess[k] \in Int
  BY Vectors
<1>3. /\ m \in n + 1 .. Len(bp) /\ excess[m + 1] = excess[n + 2]
      /\ \A k \in n + 2 .. m + 1 : excess[k] >= excess[n + 2]
  BY DEF SameLevel
<1>4. \A k \in m + 1 .. j + 2 : excess[k] >= excess[m + 1]
  BY CloseNotBelow
<1> HIDE DEF j
<1>5. j + 1 \in n + 1 .. Len(bp) /\ (j + 1) + 1 = j + 2 /\ j + 1 > m /\ j + 1 \in Nat
  BY <1>1, <1>2, <1>3
<1>6. ASSUME NEW k \in n + 2 .. (j + 1) + 1 PROVE excess[k] >= excess[n + 2]
  <2>1. k \in n + 2 .. m + 1 \/ k \in m + 1 .. j + 2
    BY <1>1, <1>3, <1>5
  <2> QED
    BY <1>3, <1>4, <2>1
<1>7. SameLevel(n, j + 1)
  BY <1>1, <1>3, <1>5, <1>6 DEF SameLevel
<1> QED
  BY <1>5, <1>7 DEF j

(* A pair that is closed keeps what is on its children's level inside.     *)
LEMMA LevelInside ==
  ASSUME BuildInv, NEW r \in Nat, HasClose(r), NEW n \in r .. find_close(r), NEW m,
         Paren(bp, n) = 1, SameLevel(n, m)
  PROVE  m \in r + 1 .. find_close(r)
<1> DEFINE c == find_close(r)
<1>1. /\ r \in 0 .. Len(bp) - 1 /\ c \in r + 1 .. Len(bp) - 1
      /\ excess[c + 2] = excess[r + 1]
  BY CloseIs
<1>2. Len(bp) \in Nat /\ \A k \in 1 .. Len(bp) + 1 : excess[k] \in Int
  BY Vectors
<1>3. n \in r .. c /\ n + 1 \in r + 1 .. c + 2
  BY <1>1
<1>4. excess[n + 1] >= excess[r + 1]
  BY <1>3, CloseNotBelow
<1> HIDE DEF c
<1>5. excess[n + 2] = excess[n + 1] + 1
  <2>1. n \in 0 .. Len(bp) - 1
    BY <1>1, <1>2, <1>3
  <2> QED
    BY <2>1, Vectors DEF Weight
<1>6. excess[n + 1] \in Int /\ excess[r + 1] \in Int
  <2>1. n + 1 \in 1 .. Len(bp) + 1 /\ r + 1 \in 1 .. Len(bp) + 1
    BY <1>1, <1>2, <1>3
  <2> QED
    BY <1>2, <2>1
<1>7. m \in n + 1 .. Len(bp) /\ \A k \in n + 2 .. m + 1 : excess[k] >= excess[n + 2]
  BY DEF SameLevel
<1>8. ~ (m > c)
  <2> SUFFICES ASSUME m > c PROVE FALSE
    OBVIOUS
  <2>1. c + 2 \in n + 2 .. m + 1
    BY <1>1, <1>3, <1>7
  <2>2. excess[c + 2] >= excess[n + 2]
    BY <1>7, <2>1
  <2> QED
    BY <1>1, <1>4, <1>5, <1>6, <2>2
<1>9. m \in r + 1 .. c
  BY <1>1, <1>3, <1>7, <1>8
<1> QED
  BY <1>9 DEF c

(* From the last child back: the opener of a child that is not the first   *)
(* parenthesis after n is not before it, since that one is a candidate.    *)
LEMMA PreviousSibling ==
  ASSUME BuildInv, NEW n \in Nat, n % 2 = 0, n + 1 < Len(bp), NEW m \in Nat, m % 2 = 0, m > n,
         HasOpen(m), excess[m + 2] = excess[n + 2]
  PROVE  /\ find_open(m) \in n + 1 .. m - 1
         /\ excess[(find_open(m) - 1) + 2] = excess[n + 2]
<1> DEFINE O == Openers(excess, m)
           j == find_open(m)
<1>1. n + 1 \in 0 .. m - 1 /\ (n + 1) + 1 = n + 2
  OBVIOUS
<1>2. n + 1 \in O
  BY <1>1 DEF Openers
<1>3. O \subseteq 0 .. m
  BY DEF Openers
<1>4. j \in O /\ \A k \in O : j >= k
  <2>1. \E x \in O : \A k \in O : x >= k
    BY <1>2, <1>3, GreatestExists
  <2> QED
    BY <2>1 DEF find_open, FindOpen
<1>5. j \in 0 .. m - 1 /\ excess[j + 1] = excess[m + 2]
  BY <1>4 DEF Openers
<1>6. j >= n + 1
  BY <1>2, <1>4
<1> HIDE DEF j
<1>7. j \in n + 1 .. m - 1 /\ (j - 1) + 2 = j + 1
  BY <1>5, <1>6
<1> QED
  BY <1>5, <1>7 DEF j

-----------------------------------------------------------------------------
(* Where the loops stand: on the level of the container's children.        *)
Walk ==
  /\ step \in {"object", "forward"} => node \in Nat /\ SameLevel(node, cur_node)
  /\ step = "backward" =>
       /\ node \in Nat /\ node % 2 = 0 /\ HasClose(node)
       /\ cur_node \in node .. find_close(node) - 1
       /\ excess[cur_node + 2] = excess[node + 2]

LEMMA WalkForward ==
  ASSUME NEW n \in Nat, NEW m, SameLevel(n, m), UNCHANGED buildVars,
         node' = n, cur_node' = m, step' \in {"object", "forward"}
  PROVE  Walk'
<1>1. SameLevel(n, m)'
  BY DEF SameLevel, buildVars
<1> QED
  BY <1>1 DEF Walk, SameLevel

LEMMA WalkBackward ==
  ASSUME NEW n \in Nat, NEW m, n % 2 = 0, HasClose(n), m \in n .. find_close(n) - 1,
         excess[m + 2] = excess[n + 2], UNCHANGED buildVars,
         node' = n, cur_node' = m, step' = "backward"
  PROVE  Walk'
BY DEF Walk, buildVars, HasClose, CanClose, find_close

LEMMA WalkStands ==
  ASSUME Walk, UNCHANGED <<buildVars, node, cur_node>>, step' = step
  PROVE  Walk'
BY DEF Walk, buildVars, HasClose, CanClose, find_close, SameLevel

LEMMA PosInside ==
  ASSUME BuildInv, NEW n \in Nat, n % 2 = 0, HasPos(n)
  PROVE  n + 1 < Len(bp) /\ n \div 2 + 1 \in 1 .. Len(nav) /\ n = 2 * (n \div 2)
<1>1. n \div 2 \in 0 .. Len(nav) - 1 /\ Len(nav) \in Nat /\ Len(bp) = 2 * Len(nav)
  BY Vectors DEF HasPos, HasSelect
<1> QED
  BY <1>1

(* The steps of get_path keep the loops on their level.                    *)
LEMMA WalkNav ==
  ASSUME SelectInv, Walk, NavNext, UNCHANGED <<buildVars, input, driverVars, row, out>>
  PROVE  Walk'
<1>1. BuildInv /\ acc.node \in Nat /\ cur_node \in Int /\ UNCHANGED buildVars
  BY DEF SelectInv, NumbersOK
<1>2. container \in Nat /\ container % 2 = 0
  BY ContainerEven
<1>3. ASSUME step' = "path" PROVE Walk'
  BY <1>3 DEF Walk
<1>4. CASE NotAnObject \/ NoMoreMembers \/ MemberFound \/ NotAnArray
  BY <1>3, <1>4 DEF NotAnObject, NoMoreMembers, MemberFound, NotAnArray, Reject, Return
<1>5. ASSUME step \in {"object", "forward"}
      PROVE  node \in Nat /\ cur_node \in Nat /\ SameLevel(node, cur_node)
  <2>1. node \in Nat /\ SameLevel(node, cur_node)
    BY <1>5 DEF Walk
  <2> QED
    BY <1>1, <2>1 DEF SameLevel
<1>6. ASSUME HasPos(container) PROVE SameLevel(container, container + 1)
  <2>1. container + 1 < Len(bp)
    BY <1>1, <1>2, <1>6, PosInside
  <2>2. Len(bp) \in Nat
    BY <1>1, Vectors
  <2>3. container < Len(bp)
    BY <1>2, <2>1, <2>2
  <2> QED
    BY <1>1, <1>2, <2>3, FirstChild
<1>7. CASE EnterObject
  <2>1. /\ HasPos(container) /\ node' = container /\ cur_node' = container + 1
        /\ step' = "object"
    BY <1>7 DEF EnterObject, ReadsBracket
  <2> QED
    BY <1>1, <1>2, <1>6, <2>1, WalkForward
<1>8. CASE NextMember
  <2>1. /\ step = "object" /\ HasClose(cur_node) /\ HasClose(val_begin)
        /\ cur_node' = val_end + 1 /\ node' = node /\ step' = step
    BY <1>8 DEF NextMember, KeyRead
  <2>2. val_begin \in Nat /\ SameLevel(node, val_begin)
    BY <1>1, <1>5, <2>1, NextSibling DEF val_begin
  <2>3. SameLevel(node, val_end + 1)
    BY <1>1, <1>5, <2>1, <2>2, NextSibling DEF val_end
  <2> QED
    BY <1>1, <1>5, <2>1, <2>3, WalkForward
<1>9. CASE EnterArray
  <2>1. HasPos(container) /\ node' = container
    BY <1>9 DEF EnterArray, ReadsBracket
  <2>2. CASE cur_node' = container + 1 /\ step' = "forward"
    BY <1>1, <1>2, <1>6, <2>1, <2>2, WalkForward
  <2>3. CASE HasClose(container) /\ cur_node' = find_close(container) - 1 /\ step' = "backward"
    <3> DEFINE n == container
               c == find_close(n)
    <3>1. c \in n + 1 .. Len(bp) - 1 /\ excess[c + 2] = excess[n + 1]
          /\ excess[n + 2] = excess[n + 1] + 1 /\ n \in 0 .. Len(bp) - 1
      BY <1>1, <1>2, <2>3, CloseIs
    <3>2. excess[c + 1] > excess[n + 1]
      <4>1. c + 1 \in n + 2 .. c + 1
        BY <1>2, <3>1
      <4> QED
        BY <1>1, <1>2, <2>3, <4>1, CloseAbove
    <3>c. Len(bp) \in Nat
      BY <1>1, Vectors
    <3> HIDE DEF n, c
    <3>i. c \in 0 .. Len(bp) - 1
      BY <1>2, <3>1, <3>c DEF n
    <3>3. excess[c + 2] = excess[c + 1] + Weight(Paren(bp, c))
      BY <1>1, <3>i, Vectors
    <3>4. excess[n + 1] \in Int /\ excess[c + 1] \in Int
      <4>1. n \in Nat /\ Len(bp) \in Nat /\ \A k \in 1 .. Len(bp) + 1 : excess[k] \in Int
        BY <1>1, <1>2, Vectors DEF n
      <4>2. n + 1 \in 1 .. Len(bp) + 1 /\ c + 1 \in 1 .. Len(bp) + 1
        BY <3>1, <4>1
      <4> QED
        BY <4>1, <4>2
    <3>5. Weight(Paren(bp, c)) = 1 \/ Weight(Paren(bp, c)) = -1
      BY DEF Weight
    <3>6. excess[c + 1] = excess[n + 2]
      BY <3>1, <3>2, <3>3, <3>4, <3>5
    <3>7. c - 1 \in n .. c - 1 /\ (c - 1) + 2 = c + 1
      BY <1>2, <3>1 DEF n
    <3>8. n \in Nat /\ n % 2 = 0 /\ HasClose(n) /\ cur_node' = c - 1 /\ node' = n
      BY <1>2, <2>1, <2>3 DEF n, c
    <3>9. c - 1 \in n .. find_close(n) - 1 /\ excess[(c - 1) + 2] = excess[n + 2]
      BY <3>6, <3>7 DEF c
    <3> QED
      BY <1>1, <2>3, <3>8, <3>9, WalkBackward
  <2> QED
    BY <1>9, <2>2, <2>3 DEF EnterArray
<1>10. CASE Forward
  <2>1. CASE step' = "path"
    BY <1>3, <2>1
  <2>2. CASE /\ HasClose(cur_node) /\ cur_node' = find_close(cur_node) + 1
             /\ node' = node /\ step' = step
    <3>1. step = "forward"
      BY <1>10 DEF Forward
    <3>2. SameLevel(node, find_close(cur_node) + 1)
      BY <1>1, <1>5, <2>2, <3>1, NextSibling
    <3> QED
      BY <1>1, <1>5, <2>2, <3>1, <3>2, WalkForward
  <2> QED
    BY <1>10, <2>1, <2>2 DEF Forward, Reject, Return
<1>11. CASE Backward
  <2>1. CASE step' = "path"
    BY <1>3, <2>1
  <2>2. CASE /\ HasOpen(cur_node) /\ Paren(bp, cur_node) = 0
             /\ cur_node' = find_open(cur_node) - 1 /\ node' = node /\ step' = step
    <3>1. /\ step = "backward" /\ node \in Nat /\ node % 2 = 0 /\ HasClose(node)
          /\ cur_node \in node .. find_close(node) - 1 /\ cur_node % 2 = 0
          /\ excess[cur_node + 2] = excess[node + 2]
      BY <1>11 DEF Backward, Walk, SelectInv, NodeParity
    <3>2. /\ Paren(bp, node) = 1 /\ find_close(node) \in node + 1 .. Len(bp) - 1
      BY <1>1, <3>1, CloseIs
    <3>3. cur_node \in Nat /\ cur_node # node
      BY <2>2, <3>1, <3>2
    <3>4. cur_node > node /\ node + 1 < Len(bp)
      BY <1>1, <3>1, <3>2, <3>3, Vectors
    <3>5. /\ find_open(cur_node) \in node + 1 .. cur_node - 1
          /\ excess[(find_open(cur_node) - 1) + 2] = excess[node + 2]
      BY <1>1, <2>2, <3>1, <3>3, <3>4, PreviousSibling
    <3>6. find_open(cur_node) - 1 \in node .. find_close(node) - 1
      BY <3>1, <3>2, <3>3, <3>5
    <3> QED
      BY <1>1, <2>2, <3>1, <3>5, <3>6, WalkBackward
  <2> QED
    BY <1>11, <2>1, <2>2 DEF Backward, Reject, Return
<1> QED
  BY <1>4, <1>7, <1>8, <1>9, <1>10, <1>11 DEF NavNext

LEMMA WalkStep ==
  ASSUME SelectInv, Walk, [SelectNext]_vars
  PROVE  Walk'
<1>1. CASE Navigate
  BY <1>1, WalkNav DEF Navigate
<1>2. ASSUME step' \notin {"object", "forward", "backward"} PROVE Walk'
  BY <1>2 DEF Walk
<1>3. CASE Build
  BY <1>2, <1>3 DEF Build
<1>4. CASE Grow \/ Open \/ OpenDirect \/ IndexLine \/ TakeRoot \/ Finish \/ StartPath
           \/ WriteValue \/ WriteRow \/ Undefined
  BY <1>2, <1>4 DEF Grow, Open, OpenDirect, IndexLine, TakeRoot, Finish, StartPath,
                    WriteValue, WriteRow, Undefined
<1>5. CASE ReadLine \/ MapDocument
  BY <1>2, <1>5 DEF ReadLine, MapDocument, StartDocument
<1>6. CASE UNCHANGED vars
  BY <1>6, WalkStands DEF vars, navVars
<1> QED
  BY <1>1, <1>3, <1>4, <1>5, <1>6 DEF SelectNext

LEMMA WalkInvariant == Spec => [](SelectInv /\ Walk)
<1>1. Init => Walk
  BY DEF Init, Walk
<1>2. SelectInv /\ Walk /\ [SelectNext]_vars => Walk'
  BY WalkStep
<1> QED
  BY <1>1, <1>2, SelectInitInv, SelectNextInv, PTL DEF Spec

(* Whatever the text, the loops over the children of a container do not    *)
(* leave it.                                                               *)
THEOREM SelectStaysInside == Spec => []StaysInside
<1>1. SelectInv /\ Walk => StaysInside
  <2> SUFFICES ASSUME SelectInv, Walk PROVE StaysInside
    OBVIOUS
  <2>1. ASSUME step \in {"object", "forward"}, HasClose(node)
        PROVE  cur_node \in node + 1 .. find_close(node)
    <3>1. BuildInv /\ node \in Nat /\ SameLevel(node, cur_node)
      BY <2>1 DEF Walk, SelectInv
    <3>2. Paren(bp, node) = 1 /\ find_close(node) \in node + 1 .. Len(bp) - 1
      BY <2>1, <3>1, CloseIs
    <3>3. node \in node .. find_close(node)
      BY <3>1, <3>2
    <3> QED
      BY <2>1, <3>1, <3>2, <3>3, LevelInside
  <2> QED
    BY <2>1 DEF StaysInside, Walk
<1> QED
  BY <1>1, WalkInvariant, PTL

-----------------------------------------------------------------------------
(* What is printed lies in its document.  The inductive invariant:         *)

(* the indexed characters are those of the file, from Base on;             *)
Base == IF mode = "direct" THEN LineStart(line) ELSE 0
Mirrors ==
  /\ step = "save" => mode = "none"
  /\ (mode = "direct" => step \in {"index", "row"} \cup InPath) =>
       /\ Base \in Nat
       /\ \A k \in 1 .. Len(jsons.text) : jsons.text[k] = input.text[Base + k]

(* get_object_child has passed an even number of elements;                 *)
Before(n, m) == {x \in n + 1 .. m - 1 : Paren(bp, x) = 1 /\ excess[x + 1] = excess[n + 2]}
Paired == step = "object" => Cardinality(Before(node, cur_node)) % 2 = 0

(* the accessor, and the container a child is looked for in, are inside    *)
(* the root's pair of parentheses.                                         *)
Rooted == RootAtBase /\ HasClose(root.node) /\ RootPaired
Inside ==
  step \in InPath /\ Rooted =>
    /\ acc.node \in root.node .. find_close(root.node) - 1
    /\ step # "path" =>
         /\ node \in root.node .. find_close(root.node) - 1
         /\ Paren(bp, node) = 1
         /\ step = "object" => Byte(get_pos(node, root.offset)) = "{"

AnswerInv ==
  SelectInv /\ Walk /\ ScanBounded /\ Mirrors /\ Paired /\ Inside /\ AnswersInDocument

(* Hopping over an element passes one.                                     *)
LEMMA BeforeFinite ==
  ASSUME NEW n \in Nat, NEW m \in Int
  PROVE  IsFiniteSet(Before(n, m)) /\ Cardinality(Before(n, m)) \in Nat
<1>1. IsFiniteSet(n + 1 .. m - 1)
  BY FS_Interval
<1>2. Before(n, m) \subseteq n + 1 .. m - 1
  BY DEF Before
<1>3. IsFiniteSet(Before(n, m))
  BY <1>1, <1>2, FS_Subset
<1> QED
  BY <1>3, FS_CardinalityType

LEMMA CountHop ==
  ASSUME BuildInv, NEW n \in Nat, NEW m \in Nat, SameLevel(n, m), HasClose(m)
  PROVE  Cardinality(Before(n, find_close(m) + 1)) = Cardinality(Before(n, m)) + 1
<1> DEFINE j == find_close(m)
<1>1. j \in m + 1 .. Len(bp) - 1 /\ Paren(bp, m) = 1
  BY CloseIs
<1>2. m \in n + 1 .. Len(bp) /\ excess[m + 1] = excess[n + 2]
  BY DEF SameLevel
<1>3. ASSUME NEW x \in m + 1 .. j PROVE excess[x + 1] # excess[n + 2]
  <2>1. x + 1 \in m + 2 .. j + 1
    BY <1>1
  <2>2. excess[x + 1] > excess[m + 1]
    BY <2>1, CloseAbove
  <2>3. \A k \in 1 .. Len(bp) + 1 : excess[k] \in Int
    BY Vectors
  <2>4. Len(bp) \in Nat /\ m + 1 \in 1 .. Len(bp) + 1
    BY <1>2, Vectors
  <2>5. excess[m + 1] \in Int
    BY <2>3, <2>4
  <2> QED
    BY <1>2, <2>2, <2>5
<1> HIDE DEF j
<1>4. j \in Int /\ j + 1 \in Int
  BY <1>1
<1>5. \A x : x \in n + 1 .. (j + 1) - 1 <=> x \in n + 1 .. m - 1 \/ x = m \/ x \in m + 1 .. j
  BY <1>1, <1>2, <1>4
<1>6. Before(n, j + 1) = Before(n, m) \cup {m}
  <2>1. ASSUME NEW x PROVE x \in Before(n, j + 1) <=> x \in Before(n, m) \/ x = m
    <3>1. x \in Before(n, j + 1) <=>
            x \in n + 1 .. (j + 1) - 1 /\ Paren(bp, x) = 1 /\ excess[x + 1] = excess[n + 2]
      BY DEF Before
    <3>2. x \in Before(n, m) <=>
            x \in n + 1 .. m - 1 /\ Paren(bp, x) = 1 /\ excess[x + 1] = excess[n + 2]
      BY DEF Before
    <3> QED
      BY <1>1, <1>2, <1>3, <1>5, <3>1, <3>2
  <2> QED
    BY <2>1
<1>7. m \notin Before(n, m)
  BY DEF Before
<1>8. IsFiniteSet(Before(n, m))
  BY BeforeFinite
<1> QED
  BY <1>6, <1>7, <1>8, FS_AddElement DEF j

(* The match of a parenthesis closes the level of its children.            *)
LEMMA CloseLevel ==
  ASSUME BuildInv, NEW n \in Nat, HasClose(n)
  PROVE  /\ Paren(bp, find_close(n)) # 1
         /\ excess[find_close(n) + 1] = excess[n + 1] + 1
<1> DEFINE c == find_close(n)
<1>1. c \in n + 1 .. Len(bp) - 1 /\ excess[c + 2] = excess[n + 1] /\ n \in 0 .. Len(bp) - 1
  BY CloseIs
<1>2. Len(bp) \in Nat /\ \A k \in 1 .. Len(bp) + 1 : excess[k] \in Int
  BY Vectors
<1>3. c + 1 \in n + 2 .. c + 1
  BY <1>1
<1>4. excess[c + 1] > excess[n + 1]
  BY <1>3, CloseAbove
<1> HIDE DEF c
<1>5. c \in 0 .. Len(bp) - 1 /\ c + 1 \in 1 .. Len(bp) + 1 /\ n + 1 \in 1 .. Len(bp) + 1
  BY <1>1, <1>2
<1>6. excess[c + 2] = excess[c + 1] + Weight(Paren(bp, c))
  BY <1>5, Vectors
<1>7. excess[c + 1] \in Int /\ excess[n + 1] \in Int
  BY <1>2, <1>5
<1> DEFINE p == Paren(bp, c)
<1>8. (p = 1 => Weight(p) = 1) /\ (p # 1 => Weight(p) = -1)
  BY DEF Weight
<1> HIDE DEF p
<1>9. p # 1 /\ excess[c + 1] = excess[n + 1] + 1
  BY <1>1, <1>4, <1>6, <1>7, <1>8 DEF p
<1> QED
  BY <1>9 DEF c, p

(* A container whose loop ends after an odd number of elements has an odd  *)
(* number of them.                                                         *)
LEMMA ElementsBefore ==
  ASSUME BuildInv, NEW n \in Nat, HasClose(n)
  PROVE  Elements(n) = Before(n, find_close(n))
<1> DEFINE c == find_close(n)
<1>1. c \in n + 1 .. Len(bp) - 1
  BY CloseIs
<1>2. Paren(bp, c) # 1
  BY CloseLevel
<1> HIDE DEF c
<1>3. \A x : x \in n + 1 .. c <=> x \in n + 1 .. c - 1 \/ x = c
  BY <1>1
<1> QED
  BY <1>2, <1>3 DEF Elements, Before, c

(* Only the root's own loop can come to the root's closing parenthesis.    *)
LEMMA LevelStrict ==
  ASSUME BuildInv, NEW r \in Nat, HasClose(r), NEW n \in r .. find_close(r), NEW m,
         Paren(bp, n) = 1, SameLevel(n, m), n # r
  PROVE  m # find_close(r)
<1> DEFINE c == find_close(r)
<1>1. r \in 0 .. Len(bp) - 1 /\ c \in r + 1 .. Len(bp) - 1 /\ n \in r .. c
  BY CloseIs
<1>2. excess[c + 1] = excess[r + 1] + 1
  BY CloseLevel
<1>3. n + 1 \in r + 2 .. c + 1
  BY <1>1
<1>4. excess[n + 1] > excess[r + 1]
  BY <1>3, CloseAbove
<1>5. Len(bp) \in Nat /\ \A k \in 1 .. Len(bp) + 1 : excess[k] \in Int
  BY Vectors
<1> HIDE DEF c
<1>6. n \in 0 .. Len(bp) - 1 /\ n + 1 \in 1 .. Len(bp) + 1 /\ r + 1 \in 1 .. Len(bp) + 1
  BY <1>1, <1>5
<1>7. excess[n + 2] = excess[n + 1] + 1
  BY <1>6, Vectors DEF Weight
<1>8. excess[n + 1] \in Int /\ excess[r + 1] \in Int
  BY <1>5, <1>6
<1>9. excess[m + 1] = excess[n + 2]
  BY DEF SameLevel
<1>10. m # c
  BY <1>2, <1>4, <1>7, <1>8, <1>9
<1> QED
  BY <1>10 DEF c

(* A bracket that is read where the index has a container is the one the   *)
(* constructor saw there.                                                  *)
LEMMA BracketOpens ==
  ASSUME SelectInv, ScanBounded, Mirrors, RootAtBase, step \in InPath,
         NEW n \in Nat, n % 2 = 0, HasPos(n),
         Byte(get_pos(n, root.offset)) \in OpenChars
  PROVE  n < Len(bp) /\ Paren(bp, n) = 1
<1> DEFINE a == n \div 2 + 1
           at == root.json + get_pos(n, root.offset)
<1>1. BuildInv /\ root.json \in Int /\ root.offset \in Int
  BY DEF SelectInv, NumbersOK
<1>2. n + 1 < Len(bp) /\ a \in 1 .. Len(nav) /\ n = 2 * (n \div 2)
  BY <1>1, PosInside
<1>3. Len(bp) \in Nat /\ Len(nav) \in Nat /\ nav \in Seq(Nat)
  BY <1>1, Vectors
<1>4. nav[a] \in Nat /\ nav[a] < nav_size
  BY <1>1, <1>2, <1>3 DEF BuildInv, NavMarksStructure
<1>5. nav_size <= Len(jsons.text) /\ nav_size \in Nat /\ Len(jsons.text) \in Nat
  <2>1. /\ nav_size \in Nat /\ json \in Nat /\ pc \in {"scan", "string", "built", "threw"}
        /\ jsons.text \in Seq(STRING)
    BY <1>1 DEF BuildInv, BuildTypeOK, IsCollection
  <2>2. nav_size <= json
    BY <1>1, <2>1 DEF BuildInv, NavAligned
  <2>3. json <= Len(jsons.text)
    BY DEF ScanBounded
  <2> QED
    BY <2>1, <2>2, <2>3
<1>6. get_pos(n, root.offset) = nav[a] + (n % 2) - root.offset
  BY DEF get_pos, Select
<1>7. root.json = root.offset + Base
  BY DEF RootAtBase, Base
<1>8. Base \in Int
  BY DEF Mirrors
<1>9. at = Base + nav[a]
  BY <1>1, <1>4, <1>6, <1>7, <1>8
<1>10. input.text[at + 1] \in OpenChars
  BY DEF Byte, OpenChars
<1>11. nav[a] + 1 \in 1 .. Len(jsons.text)
  BY <1>4, <1>5
<1>12. jsons.text[nav[a] + 1] = input.text[Base + (nav[a] + 1)]
  BY <1>11 DEF Mirrors
<1>13. Base + (nav[a] + 1) = at + 1
  BY <1>4, <1>8, <1>9
<1>14. bp[2 * a - 1] = 1
  BY <1>1, <1>2, <1>10, <1>12, <1>13 DEF BuildInv, NavMarksStructure
<1>15. 2 * a - 1 = n + 1
  BY <1>2
<1> QED
  BY <1>2, <1>3, <1>14, <1>15 DEF Paren

-----------------------------------------------------------------------------
(* What the steps of get_path keep.                                        *)
LEMMA RootedKept ==
  ASSUME UNCHANGED <<buildVars, input, driverVars, root, buffer>>
  PROVE  (Rooted' <=> Rooted) /\ find_close(root.node)' = find_close(root.node)
BY DEF Rooted, RootAtBase, LineStart, RootPaired, Byte, get_pos, Select, Elements, find_close,
       HasClose, CanClose, buildVars, driverVars

LEMMA InsideReturn ==
  ASSUME Inside, step \in InPath, NEW valid, NEW n, Return(valid, n),
         Rooted => n \in root.node .. find_close(root.node) - 1,
         UNCHANGED <<buildVars, input, driverVars>>
  PROVE  Inside'
<1>1. /\ acc'.node = n /\ step' = "path" /\ UNCHANGED <<root, buffer>>
  BY DEF Return
<1>2. (Rooted' <=> Rooted) /\ find_close(root.node)' = find_close(root.node)
  BY <1>1, RootedKept
<1> QED
  BY <1>1, <1>2 DEF Inside

LEMMA InsideLoop ==
  ASSUME Inside, step \in InPath, UNCHANGED <<buildVars, input, driverVars>>,
         step' \in {"object", "forward", "backward"}, UNCHANGED <<root, buffer, acc>>,
         NEW n, node' = n,
         Rooted => /\ n \in root.node .. find_close(root.node) - 1
                   /\ Paren(bp, n) = 1
                   /\ step' = "object" => Byte(get_pos(n, root.offset)) = "{"
  PROVE  Inside'
<1>1. (Rooted' <=> Rooted) /\ find_close(root.node)' = find_close(root.node)
  BY RootedKept
<1>2. /\ Paren(bp, n)' = Paren(bp, n)
      /\ Byte(get_pos(n, root.offset))' = Byte(get_pos(n, root.offset))
  BY DEF Paren, Byte, get_pos, Select, buildVars
<1>3. ASSUME Rooted
      PROVE  /\ acc.node \in root.node .. find_close(root.node) - 1
             /\ n \in root.node .. find_close(root.node) - 1
             /\ Paren(bp, n) = 1
             /\ step' = "object" => Byte(get_pos(n, root.offset)) = "{"
  BY <1>3 DEF Inside
<1> QED
  BY <1>1, <1>2, <1>3 DEF Inside

LEMMA InsideReject ==
  ASSUME Inside, step \in InPath, Reject, UNCHANGED <<buildVars, input, driverVars>>
  PROVE  Inside'
<1>1. Rooted => acc.node \in root.node .. find_close(root.node) - 1
  BY DEF Inside
<1> QED
  BY <1>1, InsideReturn DEF Reject

(* A value or the root that opens with a bracket is a container inside the *)
(* root.                                                                   *)
LEMMA ContainerInside ==
  ASSUME SelectInv, ScanBounded, Mirrors, Inside, step = "path", Rooted,
         HasPos(container), Byte(opening) \in OpenChars
  PROVE  container \in root.node .. find_close(root.node) - 1 /\ Paren(bp, container) = 1
<1>1. /\ BuildInv /\ root.node \in Nat /\ root.node % 2 = 0 /\ acc.node \in Nat
      /\ HasClose(root.node) /\ RootAtBase
      /\ acc.node \in root.node .. find_close(root.node) - 1
  BY DEF SelectInv, NumbersOK, NodeParity, Inside, InPath, Rooted
<1>2. container \in Nat /\ container % 2 = 0
  BY ContainerEven
<1>3. Paren(bp, container) = 1
  BY <1>2, <1>1, BracketOpens DEF opening, InPath
<1> DEFINE c == find_close(root.node)
<1>4. c \in Nat /\ c % 2 = 1
  BY <1>1, CloseFlips
<1> HIDE DEF c
<1>5. acc.node \in root.node .. c - 1
  BY <1>1 DEF c
<1>6. container \in root.node .. c - 1
  BY <1>1, <1>4, <1>5 DEF container
<1> QED
  BY <1>3, <1>6 DEF c

(* The value of a member that is found is an element of the object, and    *)
(* the root's closing parenthesis is not, if the root's elements are even. *)
LEMMA MemberInside ==
  ASSUME SelectInv, Walk, Paired, Inside, Rooted, step = "object", HasClose(cur_node)
  PROVE  val_begin \in root.node .. find_close(root.node) - 1
<1> DEFINE r == root.node
           c == find_close(root.node)
<1>1. BuildInv /\ r \in Nat /\ HasClose(r) /\ cur_node \in Int
  BY DEF SelectInv, NumbersOK, Rooted
<1>a. RootPaired
  BY DEF Rooted
<1>2. node \in r .. c - 1 /\ Paren(bp, node) = 1
  BY DEF Inside, InPath
<1>b. Byte(get_pos(node, root.offset)) = "{"
  BY DEF Inside, InPath
<1>3. node \in Nat /\ SameLevel(node, cur_node)
  BY DEF Walk
<1>4. cur_node \in Nat
  BY <1>1, <1>3 DEF SameLevel
<1>5. val_begin \in Nat /\ SameLevel(node, val_begin)
  BY <1>1, <1>3, <1>4, NextSibling DEF val_begin
<1>6. c \in r + 1 .. Len(bp) - 1
  BY <1>1, CloseIs
<1>7. node \in r .. c
  BY <1>1, <1>2, <1>6
<1>8. val_begin \in r + 1 .. c
  BY <1>1, <1>2, <1>5, <1>7, LevelInside
<1>9. val_begin # c
  <2>1. CASE node # r
    BY <1>1, <1>2, <1>5, <1>7, <2>1, LevelStrict
  <2>2. CASE node = r
    <3> SUFFICES ASSUME val_begin = c PROVE FALSE
      OBVIOUS
    <3>1. Cardinality(Elements(r)) % 2 = 0
      BY <1>a, <1>b, <2>2 DEF RootPaired
    <3>2. Elements(r) = Before(r, val_begin)
      BY <1>1, ElementsBefore
    <3>3. Cardinality(Before(node, val_begin)) = Cardinality(Before(node, cur_node)) + 1
      BY <1>1, <1>3, <1>4, CountHop DEF val_begin
    <3>4. Cardinality(Before(node, cur_node)) % 2 = 0
      BY DEF Paired
    <3>5. Cardinality(Before(node, cur_node)) \in Nat
      BY <1>1, <1>3, BeforeFinite
    <3> QED
      BY <2>2, <3>1, <3>2, <3>3, <3>4, <3>5
  <2> QED
    BY <2>1, <2>2
<1> HIDE DEF r, c
<1>10. val_begin \in r .. c - 1
  BY <1>1, <1>6, <1>8, <1>9
<1> QED
  BY <1>10 DEF r, c

LEMMA ElementInside ==
  ASSUME SelectInv, Walk, Inside, Rooted, step = "forward", Paren(bp, cur_node) = 1
  PROVE  cur_node \in root.node .. find_close(root.node) - 1
<1> DEFINE r == root.node
           c == find_close(root.node)
<1>1. /\ BuildInv /\ r \in Nat /\ HasClose(r)
  BY DEF SelectInv, NumbersOK, Rooted
<1>2. node \in r .. c - 1 /\ Paren(bp, node) = 1
  BY DEF Inside, InPath
<1>3. node \in Nat /\ SameLevel(node, cur_node)
  BY DEF Walk
<1>4. c \in r + 1 .. Len(bp) - 1
  BY <1>1, CloseIs
<1>5. node \in r .. c
  BY <1>1, <1>2, <1>4
<1>6. cur_node \in r + 1 .. c
  BY <1>1, <1>2, <1>3, <1>5, LevelInside
<1>7. cur_node # c
  BY <1>1, CloseLevel
<1> HIDE DEF r, c
<1>8. cur_node \in r .. c - 1
  BY <1>1, <1>4, <1>6, <1>7
<1> QED
  BY <1>8 DEF r, c

LEMMA LastElementInside ==
  ASSUME SelectInv, Walk, Inside, Rooted, step = "backward", HasOpen(cur_node),
         Paren(bp, cur_node) = 0
  PROVE  find_open(cur_node) \in root.node .. find_close(root.node) - 1
<1> DEFINE r == root.node
           c == find_close(root.node)
           d == find_close(node)
           o == find_open(cur_node)
<1>1. /\ BuildInv /\ r \in Nat /\ HasClose(r)
  BY DEF SelectInv, NumbersOK, Rooted
<1>2. node \in r .. c - 1 /\ Paren(bp, node) = 1
  BY DEF Inside, InPath
<1>3. /\ node \in Nat /\ node % 2 = 0 /\ HasClose(node) /\ cur_node \in node .. d - 1
      /\ excess[cur_node + 2] = excess[node + 2] /\ cur_node % 2 = 0
  BY DEF Walk, SelectInv, NodeParity
<1>4. c \in r + 1 .. Len(bp) - 1 /\ d \in node + 1 .. Len(bp) - 1
  BY <1>1, <1>3, CloseIs
<1>5. cur_node # node /\ cur_node \in Nat
  BY <1>2, <1>3, <1>4
<1>6. Len(bp) \in Nat
  BY <1>1, Vectors
<1>7. node \in r .. c
  BY <1>1, <1>2, <1>4
<1>8. d <= c
  BY <1>1, <1>3, <1>7, CloseNested
<1>9. cur_node > node /\ node + 1 < Len(bp)
  BY <1>3, <1>4, <1>5, <1>6
<1>10. o \in node + 1 .. cur_node - 1
  BY <1>1, <1>3, <1>5, <1>9, PreviousSibling
<1> HIDE DEF r, c, d, o
<1>11. o \in r .. c - 1
  BY <1>1, <1>2, <1>3, <1>4, <1>5, <1>8, <1>10
<1> QED
  BY <1>11 DEF r, c, o

LEMMA InsideNav ==
  ASSUME SelectInv, Walk, ScanBounded, Mirrors, Paired, Inside, NavNext,
         UNCHANGED <<buildVars, input, driverVars>>
  PROVE  Inside'
<1>1. CASE NotAnObject \/ NotAnArray
  BY <1>1, InsideReject DEF NotAnObject, NotAnArray, Entering, InPath
<1>2. CASE NoMoreMembers
  BY <1>2, InsideReject DEF NoMoreMembers, InPath
<1>3. CASE EnterObject
  <2>1. /\ step = "path" /\ HasPos(container) /\ Byte(opening) = "{" /\ node' = container
        /\ step' = "object" /\ UNCHANGED <<root, buffer, acc>>
    BY <1>3 DEF EnterObject, Entering, ReadsBracket, NonEmpty
  <2>2. Rooted => /\ container \in root.node .. find_close(root.node) - 1
                  /\ Paren(bp, container) = 1
    BY <2>1, ContainerInside DEF OpenChars
  <2>3. Byte(get_pos(container, root.offset)) = "{"
    BY <2>1 DEF opening
  <2> QED
    BY <2>1, <2>2, <2>3, InsideLoop DEF InPath
<1>4. CASE EnterArray
  <2>1. /\ step = "path" /\ HasPos(container) /\ Byte(opening) = "[" /\ node' = container
        /\ step' \in {"forward", "backward"} /\ UNCHANGED <<root, buffer, acc>>
    BY <1>4 DEF EnterArray, Entering, ReadsBracket, NonEmpty
  <2>2. Rooted => /\ container \in root.node .. find_close(root.node) - 1
                  /\ Paren(bp, container) = 1
    BY <2>1, ContainerInside DEF OpenChars
  <2> QED
    BY <2>1, <2>2, InsideLoop DEF InPath
<1>5. CASE MemberFound
  <2>1. step = "object" /\ HasClose(cur_node) /\ Return(TRUE, val_begin)
    BY <1>5 DEF MemberFound, KeyRead
  <2>2. Rooted => val_begin \in root.node .. find_close(root.node) - 1
    BY <2>1, MemberInside
  <2> QED
    BY <2>1, <2>2, InsideReturn DEF InPath
<1>6. ASSUME step \in {"object", "forward", "backward"}, step' = step,
             UNCHANGED <<root, buffer, acc, node>>
      PROVE  Inside'
  <2>1. Rooted => /\ node \in root.node .. find_close(root.node) - 1
                  /\ Paren(bp, node) = 1
                  /\ step' = "object" => Byte(get_pos(node, root.offset)) = "{"
    BY <1>6 DEF Inside, InPath
  <2> QED
    BY <1>6, <2>1, InsideLoop DEF InPath
<1>7. CASE NextMember
  BY <1>6, <1>7 DEF NextMember
<1>8. CASE Forward
  <2>1. step = "forward"
    BY <1>8 DEF Forward
  <2>2. CASE Reject
    BY <2>1, <2>2, InsideReject DEF InPath
  <2>3. CASE Paren(bp, cur_node) = 1 /\ Return(TRUE, cur_node)
    <3>1. Rooted => cur_node \in root.node .. find_close(root.node) - 1
      BY <2>1, <2>3, ElementInside
    <3> QED
      BY <2>1, <2>3, <3>1, InsideReturn DEF InPath
  <2>4. CASE UNCHANGED <<root, buffer, acc, node, step>>
    BY <1>6, <2>1, <2>4
  <2> QED
    BY <1>8, <2>2, <2>3, <2>4 DEF Forward
<1>9. CASE Backward
  <2>1. step = "backward"
    BY <1>9 DEF Backward
  <2>2. CASE Reject
    BY <2>1, <2>2, InsideReject DEF InPath
  <2>3. CASE /\ Paren(bp, cur_node) = 0 /\ HasOpen(cur_node)
             /\ Return(TRUE, find_open(cur_node))
    <3>1. Rooted => find_open(cur_node) \in root.node .. find_close(root.node) - 1
      BY <2>1, <2>3, LastElementInside
    <3> QED
      BY <2>1, <2>3, <3>1, InsideReturn DEF InPath
  <2>4. CASE UNCHANGED <<root, buffer, acc, node, step>>
    BY <1>6, <2>1, <2>4
  <2> QED
    BY <1>9, <2>2, <2>3, <2>4 DEF Backward
<1> QED
  BY <1>1, <1>2, <1>3, <1>4, <1>5, <1>7, <1>8, <1>9 DEF NavNext

LEMMA PairedNav ==
  ASSUME SelectInv, Walk, Paired, NavNext, UNCHANGED buildVars
  PROVE  Paired'
<1>1. ASSUME step' # "object" PROVE Paired'
  BY <1>1 DEF Paired
<1>2. ASSUME NEW n, NEW m, node' = n, cur_node' = m, Cardinality(Before(n, m)) % 2 = 0
      PROVE  Paired'
  <2>1. Before(n, m)' = Before(n, m)
    BY DEF Before, buildVars
  <2>2. Before(node, cur_node)' = Before(n, m)
    BY <1>2, <2>1 DEF Before
  <2> QED
    BY <1>2, <2>2 DEF Paired
<1>3. CASE EnterObject
  <2>1. node' = container /\ cur_node' = container + 1 /\ container \in Nat
    BY <1>3, ContainerEven DEF EnterObject
  <2>2. Before(container, container + 1) = {}
    BY <2>1 DEF Before
  <2>3. Cardinality(Before(container, container + 1)) = 0
    BY <2>2, FS_EmptySet
  <2>4. 0 % 2 = 0
    OBVIOUS
  <2> QED
    BY <1>2, <2>1, <2>3, <2>4
<1>4. CASE NextMember
  <2>1. /\ step = "object" /\ HasClose(cur_node) /\ HasClose(val_begin)
        /\ node' = node /\ cur_node' = val_end + 1
    BY <1>4 DEF NextMember, KeyRead
  <2>2. /\ BuildInv /\ node \in Nat /\ SameLevel(node, cur_node) /\ cur_node \in Int
        /\ Cardinality(Before(node, cur_node)) % 2 = 0
    BY <2>1 DEF SelectInv, NumbersOK, Walk, Paired
  <2>3. cur_node \in Nat
    BY <2>2 DEF SameLevel
  <2>4. val_begin \in Nat /\ SameLevel(node, val_begin)
    BY <2>1, <2>2, <2>3, NextSibling DEF val_begin
  <2>5. Cardinality(Before(node, val_begin)) = Cardinality(Before(node, cur_node)) + 1
    BY <2>1, <2>2, <2>3, CountHop DEF val_begin
  <2>6. Cardinality(Before(node, val_end + 1)) = Cardinality(Before(node, val_begin)) + 1
    BY <2>1, <2>2, <2>4, CountHop DEF val_end
  <2> DEFINE k == Cardinality(Before(node, cur_node))
  <2>7. k \in Nat
    BY <2>2, BeforeFinite
  <2>8. Cardinality(Before(node, val_end + 1)) = k + 2
    <3> HIDE DEF k
    <3> QED
      BY <2>5, <2>6, <2>7 DEF k
  <2>9. (k + 2) % 2 = 0
    <3>1. k % 2 = 0
      BY <2>2
    <3> HIDE DEF k
    <3> QED
      BY <2>7, <3>1
  <2> QED
    BY <1>2, <2>1, <2>8, <2>9
<1>5. CASE NotAnObject \/ NoMoreMembers \/ MemberFound \/ NotAnArray \/ EnterArray
  BY <1>1, <1>5 DEF NotAnObject, NoMoreMembers, MemberFound, NotAnArray, EnterArray, Reject, Return
<1>6. CASE Forward \/ Backward
  BY <1>1, <1>6 DEF Forward, Backward, Reject, Return
<1> QED
  BY <1>3, <1>4, <1>5, <1>6 DEF NavNext

-----------------------------------------------------------------------------
(* get_path stays in get_path.                                             *)
LEMMA NavSteps ==
  ASSUME NavNext
  PROVE  step \in InPath /\ step' \in InPath /\ root' = root /\ buffer' = buffer
<1>1. CASE EnterObject \/ EnterArray
  BY <1>1 DEF EnterObject, EnterArray, Entering, InPath
<1>2. CASE NotAnObject \/ NotAnArray \/ NoMoreMembers \/ MemberFound
  BY <1>2 DEF NotAnObject, NotAnArray, NoMoreMembers, MemberFound, Reject, Return, Entering, InPath
<1>3. CASE NextMember
  BY <1>3 DEF NextMember, InPath
<1>4. CASE Forward \/ Backward
  BY <1>4 DEF Forward, Backward, Reject, Return, InPath
<1> QED
  BY <1>1, <1>2, <1>3, <1>4 DEF NavNext

(* The indexed text stays the file's.                                      *)
LEMMA MirrorsKept ==
  ASSUME Mirrors, UNCHANGED <<jsons, input, mode, line>>,
         step' = step \/ step' \notin {"save", "index", "row"} \cup InPath
           \/ (step \in {"index", "row"} \cup InPath /\ step' \in {"row"} \cup InPath)
  PROVE  Mirrors'
<1>1. Base' = Base
  BY DEF Base, LineStart
<1>2. step' = "save" => mode' = "none"
  BY DEF Mirrors, InPath
<1>3. ASSUME mode' = "direct" => step' \in {"index", "row"} \cup InPath
      PROVE  mode = "direct" => step \in {"index", "row"} \cup InPath
  BY <1>3
<1>4. ASSUME mode' = "direct" => step' \in {"index", "row"} \cup InPath
      PROVE  Base' \in Nat /\ \A k \in 1 .. Len(jsons'.text) : jsons'.text[k] = input'.text[Base' + k]
  BY <1>1, <1>3, <1>4 DEF Mirrors
<1> QED
  BY <1>2, <1>4 DEF Mirrors

LEMMA MirrorsStep ==
  ASSUME SelectInv, ScanBounded, Mirrors, [SelectNext]_vars
  PROVE  Mirrors' /\ ScanBounded'
<1>0. BuildInv /\ IsCollection(input) /\ line \in Nat /\ IsCollection(jsons)
  BY DEF SelectInv, InputOK, NumbersOK, BuildInv, BuildTypeOK
<1>1. ASSUME UNCHANGED buildVars PROVE ScanBounded' /\ jsons' = jsons
  BY <1>0, <1>1, BuildNextBounded
<1>2. CASE Build
  <2>1. BuildNext /\ UNCHANGED <<input, mode, line, step>>
    BY <1>2 DEF Build, driverVars
  <2>2. ScanBounded' /\ jsons' = jsons
    BY <1>0, <2>1, BuildNextBounded
  <2> QED
    BY <2>1, <2>2, MirrorsKept
<1>3. CASE Grow
  <2>1. PICK chars \in Appended :
          input' = [input EXCEPT !.text = @ \o chars,
                                 !.ends = Append(@, Len(input.text) + Len(chars))]
    BY <1>3 DEF Grow
  <2>2. /\ step = "save" /\ step' = step /\ mode' = mode /\ UNCHANGED buildVars
        /\ input = jsons
    BY <1>3 DEF Grow, driverVars
  <2>3. mode = "none" /\ Base' = 0
    BY <2>2 DEF Mirrors, Base
  <2>4. input'.text = input.text \o chars
    BY <1>0, <2>1 DEF IsCollection
  <2>5. \A k \in 1 .. Len(input.text) : input'.text[k] = input.text[k]
    BY <1>0, <2>4, AppendedAssumption DEF IsCollection
  <2>6. ScanBounded' /\ jsons' = jsons
    BY <1>1, <2>2
  <2>7. \A k \in 1 .. Len(jsons'.text) : 0 + k = k
    OBVIOUS
  <2> QED
    BY <2>2, <2>3, <2>5, <2>6, <2>7 DEF Mirrors
<1>4. CASE Open
  <2>1. /\ step = "save" /\ step' = "document" /\ mode' # "direct"
        /\ UNCHANGED buildVars /\ input' = input
    BY <1>4 DEF Open
  <2>2. mode # "direct"
    BY <2>1 DEF Mirrors
  <2>3. Base = 0 /\ Base' = 0
    BY <2>1, <2>2 DEF Base
  <2> QED
    BY <1>1, <2>1, <2>2, <2>3 DEF Mirrors
<1>5. CASE OpenDirect
  <2>1. step' = "document" /\ mode' = "direct" /\ UNCHANGED buildVars
    BY <1>5 DEF OpenDirect
  <2> QED
    BY <1>1, <2>1 DEF Mirrors, InPath
<1>6. CASE IndexLine
  <2>1. /\ line < Len(input.ends) /\ line' = line + 1 /\ Construct(Line(line + 1))
        /\ input' = input /\ mode = "direct" /\ mode' = mode /\ step' = "index"
    BY <1>6 DEF IndexLine
  <2>2. line + 1 \in 1 .. Len(input.ends)
    BY <1>0, <2>1 DEF IsCollection
  <2> DEFINE a == LineStart(line + 1)
             b == input.ends[line + 1]
             t == SubSeq(input.text, a + 1, b)
  <2>3. a \in Nat /\ b \in Nat /\ IsCollection(Line(line + 1))
    BY <1>0, <2>2, LineIsCollection
  <2>4. ScanBounded'
    BY <2>1, <2>3, ConstructBounded
  <2>5. jsons'.text = t
    BY <2>1 DEF Construct, Line
  <2>6. Base' = a
    BY <2>1 DEF Base, LineStart
  <2>7. input.text \in Seq(STRING) /\ b <= Len(input.text)
    BY <1>0, <2>2 DEF IsCollection
  <2> HIDE DEF a, b
  <2>8. \A k \in 1 .. Len(t) : t[k] = input.text[a + k]
    <3>1. Len(t) = IF a + 1 <= b THEN b - a ELSE 0
      BY <2>3, <2>7
    <3>2. ASSUME NEW k \in 1 .. Len(t) PROVE t[k] = input.text[a + k]
      <4>1. k \in 1 .. b - a
        BY <2>3, <3>1
      <4>2. t[k] = input.text[(a + 1) + k - 1]
        BY <2>3, <2>7, <4>1
      <4>3. (a + 1) + k - 1 = a + k
        BY <2>3
      <4> QED
        BY <4>2, <4>3
    <3> QED
      BY <3>2
  <2> QED
    BY <2>1, <2>3, <2>4, <2>5, <2>6, <2>8 DEF Mirrors
<1>7. CASE TakeRoot
  <2>1. step = "index" /\ step' = "row" /\ UNCHANGED <<buildVars, input, mode, line>>
    BY <1>7 DEF TakeRoot, driverVars
  <2> QED
    BY <1>1, <2>1, MirrorsKept
<1>8. CASE ReadLine \/ MapDocument
  <2>1. /\ step' = "row" /\ mode # "direct" /\ mode' = mode /\ input' = input
        /\ UNCHANGED buildVars
    BY <1>8 DEF ReadLine, MapDocument, StartDocument
  <2>2. Base = 0 /\ Base' = 0
    BY <2>1 DEF Base
  <2> QED
    BY <1>1, <2>1, <2>2 DEF Mirrors
<1>9. CASE Finish \/ Undefined
  <2>1. /\ step' \in {"done", "undefined"} /\ UNCHANGED <<buildVars, input, mode, line>>
    BY <1>9 DEF Finish, Undefined, driverVars
  <2> QED
    BY <1>1, <2>1, MirrorsKept DEF InPath
<1>10. CASE StartPath \/ WriteValue
  <2>1. /\ step \in {"row"} \cup InPath /\ step' \in {"row"} \cup InPath
        /\ UNCHANGED <<buildVars, input, mode, line>>
    BY <1>10 DEF StartPath, WriteValue, driverVars, InPath
  <2> QED
    BY <1>1, <2>1, MirrorsKept
<1>11. CASE WriteRow
  <2>1. /\ step' = "document" /\ UNCHANGED <<buildVars, input, mode, line>>
    BY <1>11 DEF WriteRow, driverVars
  <2> QED
    BY <1>1, <2>1, MirrorsKept DEF InPath
<1>12. CASE Navigate
  <2>1. /\ step \in InPath /\ step' \in InPath /\ UNCHANGED <<buildVars, input, mode, line>>
    BY <1>12, NavSteps DEF Navigate, driverVars
  <2> QED
    BY <1>1, <2>1, MirrorsKept
<1>13. CASE UNCHANGED vars
  BY <1>1, <1>13, MirrorsKept DEF vars, driverVars
<1> QED
  BY <1>2, <1>3, <1>4, <1>5, <1>6, <1>7, <1>8, <1>9, <1>10, <1>11, <1>12, <1>13 DEF SelectNext

-----------------------------------------------------------------------------
LEMMA CloseHasPos ==
  ASSUME BuildInv, NEW n \in Nat, HasClose(n)
  PROVE  HasPos(n)
<1>1. n \in 0 .. Len(bp) - 1
  BY CloseIs
<1>2. Len(nav) \in Nat /\ Len(bp) = 2 * Len(nav)
  BY Vectors
<1>3. n \div 2 \in 0 .. Len(nav) - 1
  BY <1>1, <1>2
<1> QED
  BY <1>3 DEF HasPos, HasSelect

(* The range of a value inside the root lies in the root's.                *)
LEMMA RangeInside ==
  ASSUME SelectInv, HasClose(root.node), HasPos(acc.node), HasClose(acc.node),
         acc.node \in root.node .. find_close(root.node)
  PROVE  /\ get_pos(root.node, root.offset) <= get_pos(acc.node, root.offset)
         /\ FindEnd(acc.node, root.offset) <= FindEnd(root.node, root.offset)
<1> DEFINE r == root.node
           n == acc.node
           c == find_close(r)
           d == find_close(n)
<1>1. /\ BuildInv /\ r \in Nat /\ n \in Nat /\ r % 2 = 0 /\ root.offset \in Int
  BY DEF SelectInv, NumbersOK, NodeParity
<1>2. n \in r .. c
  OBVIOUS
<1>3. c \in r + 1 .. Len(bp) - 1 /\ d \in n + 1 .. Len(bp) - 1
  BY <1>1, CloseIs
<1>4. d <= c
  BY <1>1, <1>2, CloseNested
<1>5. /\ nav \in Seq(Nat) /\ Len(nav) \in Nat /\ Len(bp) \in Nat /\ Len(bp) = 2 * Len(nav)
  BY <1>1, Vectors
<1> DEFINE i1 == r \div 2 + 1
           i2 == n \div 2 + 1
           j1 == d \div 2 + 1
           j2 == c \div 2 + 1
<1>6. /\ get_pos(r, root.offset) = nav[i1] + (r % 2) - root.offset
      /\ get_pos(n, root.offset) = nav[i2] + (n % 2) - root.offset
      /\ FindEnd(n, root.offset) = nav[j1] + (1 - (n % 2)) - root.offset
      /\ FindEnd(r, root.offset) = nav[j2] + (1 - (r % 2)) - root.offset
  BY DEF get_pos, FindEnd, Select
<1> HIDE DEF r, n, c, d
<1>7. /\ i1 \in 1 .. Len(nav) /\ i2 \in 1 .. Len(nav) /\ i1 <= i2
      /\ j1 \in 1 .. Len(nav) /\ j2 \in 1 .. Len(nav) /\ j1 <= j2
  BY <1>1, <1>2, <1>3, <1>4, <1>5
<1>8. \A k, l \in 1 .. Len(nav) : nav[k] \in Nat /\ (k <= l => nav[k] <= nav[l])
  <2>1. \A k \in 1 .. Len(nav) : nav[k] \in Nat
    BY <1>5
  <2>2. \A k, l \in 1 .. Len(nav) : k < l => nav[k] < nav[l]
    BY <1>1 DEF BuildInv, NavMarksStructure
  <2> QED
    BY <2>1, <2>2
<1>9. /\ nav[i1] \in Nat /\ nav[i2] \in Nat /\ nav[j1] \in Nat /\ nav[j2] \in Nat
      /\ nav[i1] <= nav[i2] /\ nav[j1] <= nav[j2]
  BY <1>7, <1>8
<1>10. n % 2 \in {0, 1}
  BY <1>1
<1> HIDE DEF i1, i2, j1, j2
<1>11. /\ get_pos(r, root.offset) <= get_pos(n, root.offset)
       /\ FindEnd(n, root.offset) <= FindEnd(r, root.offset)
  BY <1>1, <1>6, <1>9, <1>10
<1> QED
  BY <1>11 DEF r, n

(* A cell of the row is where it should be.                                *)
InRoot(cell) ==
  \/ cell = NullCell
  \/ /\ root.json + get_pos(root.node, root.offset) <= cell[1]
     /\ cell[2] <= root.json + FindEnd(root.node, root.offset)

LEMMA AnswersKept ==
  ASSUME AnswersInDocument, UNCHANGED <<buildVars, input, driverVars, root, buffer, row>>,
         step' \in {"row"} \cup InPath => step \in {"row"} \cup InPath
  PROVE  AnswersInDocument'
<1>1. Rooted' <=> Rooted
  BY RootedKept
<1>2. ASSUME NEW k \in DOMAIN row PROVE InRoot(row[k])' <=> InRoot(row[k])
  BY DEF InRoot, get_pos, FindEnd, find_close, Select, buildVars
<1>3. ASSUME step' \in {"row"} \cup InPath, Rooted' PROVE \A k \in DOMAIN row : InRoot(row[k])
  BY <1>1, <1>3 DEF AnswersInDocument, Rooted, InRoot
<1>4. ASSUME step' \in {"row"} \cup InPath, Rooted' PROVE \A k \in DOMAIN row' : InRoot(row[k])'
  BY <1>2, <1>3, <1>4
<1> QED
  BY <1>4 DEF AnswersInDocument, Rooted, InRoot

LEMMA AnswersWrite ==
  ASSUME SelectInv, Inside, AnswersInDocument, WriteValue
  PROVE  AnswersInDocument'
<1>1. /\ step = "path" /\ step' = "row"
      /\ UNCHANGED <<buildVars, input, driverVars, root, buffer>>
  BY DEF WriteValue, navVars
<1>2. PICK cell : /\ row' = Append(row, cell)
                  /\ cell = NullCell \/ (HasRange /\ cell = range)
  BY DEF WriteValue
<1>3. row \in Seq(Cell) /\ root.json \in Int /\ root.offset \in Int
      /\ BuildInv /\ root.node \in Nat /\ acc.node \in Nat
  BY DEF SelectInv, RowsOK, NumbersOK
<1>4. Rooted' <=> Rooted
  BY <1>1, RootedKept
<1>5. ASSUME Rooted PROVE InRoot(cell)
  <2>1. CASE cell = NullCell
    BY <2>1 DEF InRoot
  <2>2. CASE HasRange /\ cell = range
    <3> DEFINE r1 == get_pos(root.node, root.offset)
               r2 == FindEnd(root.node, root.offset)
               a1 == get_pos(acc.node, root.offset)
               a2 == FindEnd(acc.node, root.offset)
    <3>1. /\ HasPos(acc.node) /\ HasClose(acc.node) /\ HasClose(root.node)
          /\ acc.node \in root.node .. find_close(root.node) - 1
      BY <1>1, <1>5, <2>2 DEF HasRange, Rooted, Inside, InPath
    <3>2. find_close(root.node) \in root.node + 1 .. Len(bp) - 1
      BY <1>3, <3>1, CloseIs
    <3>3. acc.node \in root.node .. find_close(root.node)
      BY <1>3, <3>1, <3>2
    <3>4. r1 <= a1 /\ a2 <= r2
      BY <3>1, <3>3, RangeInside
    <3>5. a1 \in Int /\ a2 \in Int
      BY <1>3, <3>1, RangeOrdered
    <3>6. HasPos(root.node)
      BY <1>3, <3>1, CloseHasPos
    <3>7. r1 \in Int /\ r2 \in Int
      BY <1>3, <3>1, <3>6, RangeOrdered
    <3>8. cell[1] = root.json + a1 /\ cell[2] = root.json + a2
      BY <2>2 DEF range
    <3> HIDE DEF r1, r2, a1, a2
    <3>9. root.json + r1 <= cell[1] /\ cell[2] <= root.json + r2
      BY <1>3, <3>4, <3>5, <3>7, <3>8
    <3> QED
      BY <3>9 DEF InRoot, r1, r2
  <2> QED
    BY <1>2, <2>1, <2>2
<1>6. ASSUME Rooted, NEW k \in DOMAIN row' PROVE InRoot(row'[k])
  <2>1. \A l \in DOMAIN row : InRoot(row[l])
    BY <1>1, <1>6 DEF AnswersInDocument, Rooted, InRoot, InPath
  <2>2. (k \in DOMAIN row /\ row'[k] = row[k]) \/ row'[k] = cell
    BY <1>2, <1>3
  <2> QED
    BY <1>5, <1>6, <2>1, <2>2
<1>7. ASSUME NEW k \in DOMAIN row', InRoot(row'[k]) PROVE InRoot(row[k])'
  BY <1>1, <1>7 DEF InRoot, get_pos, FindEnd, find_close, Select, buildVars
<1>8. ASSUME Rooted' PROVE \A k \in DOMAIN row' : InRoot(row[k])'
  BY <1>4, <1>6, <1>7, <1>8
<1> QED
  BY <1>8 DEF AnswersInDocument, Rooted, InRoot

LEMMA AnswerInitInv == Init => AnswerInv
<1> SUFFICES ASSUME Init PROVE AnswerInv
  OBVIOUS
<1>1. SelectInv
  BY SelectInitInv
<1>2. Walk /\ Paired /\ Inside /\ AnswersInDocument
  BY DEF Init, Walk, Paired, Inside, AnswersInDocument, InPath
<1>3. ScanBounded
  BY UnscannedBounded, CollectionsAssumption DEF Init, BuildInit
<1>4. Mirrors
  <2>1. step = "save" /\ mode = "none" /\ Base = 0 /\ input = jsons
    BY DEF Init, Base
  <2> QED
    BY <2>1 DEF Mirrors
<1> QED
  BY <1>1, <1>2, <1>3, <1>4 DEF AnswerInv

LEMMA AnswerNextInv == AnswerInv /\ [SelectNext]_vars => AnswerInv'
<1> SUFFICES ASSUME AnswerInv, [SelectNext]_vars PROVE AnswerInv'
  OBVIOUS
<1>1. /\ SelectInv /\ Walk /\ ScanBounded /\ Mirrors /\ Paired /\ Inside /\ AnswersInDocument
  BY DEF AnswerInv
<1>2. SelectInv' /\ Walk' /\ ScanBounded' /\ Mirrors'
  BY <1>1, SelectNextInv, WalkStep, MirrorsStep
<1>3. ASSUME step' \notin InPath PROVE Paired' /\ Inside'
  BY <1>3 DEF Paired, Inside, InPath
<1>4. ASSUME step' \notin {"row"} \cup InPath PROVE AnswersInDocument'
  BY <1>4 DEF AnswersInDocument
<1>5. ASSUME row' = << >> PROVE AnswersInDocument'
  BY <1>5 DEF AnswersInDocument
<1>6. Paired' /\ Inside' /\ AnswersInDocument'
  <2>1. CASE Navigate
    <3>1. NavNext /\ UNCHANGED <<buildVars, input, driverVars, row>>
      BY <2>1 DEF Navigate
    <3>2. step \in InPath /\ step' \in InPath /\ UNCHANGED <<root, buffer>>
      BY <3>1, NavSteps
    <3> QED
      BY <1>1, <3>1, <3>2, PairedNav, InsideNav, AnswersKept
  <2>2. CASE StartPath
    <3>1. /\ step = "row" /\ step' = "path" /\ acc'.node = root.node
          /\ UNCHANGED <<buildVars, input, driverVars, root, buffer, row>>
      BY <2>2 DEF StartPath
    <3>2. (Rooted' <=> Rooted) /\ find_close(root.node)' = find_close(root.node)
      BY <3>1, RootedKept
    <3>3. ASSUME Rooted PROVE root.node \in root.node .. find_close(root.node) - 1
      <4>1. BuildInv /\ root.node \in Nat /\ HasClose(root.node)
        BY <1>1, <3>3 DEF SelectInv, NumbersOK, Rooted
      <4>2. find_close(root.node) \in root.node + 1 .. Len(bp) - 1
        BY <4>1, CloseIs
      <4> QED
        BY <4>1, <4>2
    <3>4. Inside'
      BY <3>1, <3>2, <3>3 DEF Inside
    <3>5. Paired'
      BY <3>1 DEF Paired
    <3> QED
      BY <1>1, <3>1, <3>4, <3>5, AnswersKept
  <2>3. CASE WriteValue
    <3>1. step' \notin InPath
      BY <2>3 DEF WriteValue, InPath
    <3> QED
      BY <1>1, <1>3, <2>3, <3>1, AnswersWrite
  <2>4. CASE TakeRoot \/ ReadLine \/ MapDocument
    <3>1. step' \notin InPath /\ row' = << >>
      BY <2>4 DEF TakeRoot, ReadLine, MapDocument, StartDocument, InPath
    <3> QED
      BY <1>3, <1>5, <3>1
  <2>5. CASE Grow \/ Build
    <3>1. step \in {"save", "index"} /\ step' = step
      BY <2>5 DEF Grow, Build
    <3> QED
      BY <1>3, <1>4, <3>1 DEF InPath
  <2>6. CASE Open \/ OpenDirect \/ IndexLine \/ Finish \/ WriteRow \/ Undefined
    <3>1. step' \in {"document", "index", "done", "undefined"}
      BY <2>6 DEF Open, OpenDirect, IndexLine, Finish, WriteRow, Undefined
    <3> QED
      BY <1>3, <1>4, <3>1 DEF InPath
  <2>7. CASE UNCHANGED vars
    <3>1. UNCHANGED <<buildVars, input, driverVars, root, buffer, row, acc, node, cur_node, step>>
      BY <2>7 DEF vars, navVars
    <3>2. AnswersInDocument'
      BY <1>1, <3>1, AnswersKept
    <3>3. Paired'
      BY <1>1, <3>1 DEF Paired, Before, buildVars
    <3>4. (Rooted' <=> Rooted) /\ find_close(root.node)' = find_close(root.node)
      BY <3>1, RootedKept
    <3>5. /\ Paren(bp, node)' = Paren(bp, node)
          /\ Byte(get_pos(node, root.offset))' = Byte(get_pos(node, root.offset))
      BY <3>1 DEF Paren, Byte, get_pos, Select, buildVars
    <3>6. Inside'
      BY <1>1, <3>1, <3>4, <3>5 DEF Inside
    <3> QED
      BY <3>2, <3>3, <3>6
  <2> QED
    BY <2>1, <2>2, <2>3, <2>4, <2>5, <2>6, <2>7 DEF SelectNext
<1> QED
  BY <1>2, <1>6 DEF AnswerInv

(* Whatever the text and the paths, what is printed for a document lies in *)
(* that document, if its root is closed, has no key without a value and is *)
(* where the accessor's base is (RootAtBase).                              *)
THEOREM SelectAnswersInDocument == Spec => []AnswersInDocument
<1>1. AnswerInv => AnswersInDocument
  BY DEF AnswerInv
<1> QED
  BY <1>1, AnswerInitInv, AnswerNextInv, PTL DEF Spec

-----------------------------------------------------------------------------
(* Where the parentheses of the index match, nothing the walk and the      *)
(* loops ask for is missing.                                               *)

(* The excess has to come down to where it was before an opening           *)
(* parenthesis, since it ends at zero.                                     *)
LEMMA BalancedCloses ==
  ASSUME BuildInv, Balanced, NEW n \in Nat, n < Len(bp), Paren(bp, n) = 1
  PROVE  HasClose(n)
<1> DEFINE L == Len(excess)
           e == excess[n + 1]
           T == {k \in n + 3 .. L : excess[k] <= e}
<1>1. /\ Len(bp) \in Nat /\ L = Len(bp) + 1
      /\ \A k \in 1 .. L : excess[k] \in Int
  BY Vectors
<1>2. e \in Int /\ excess[n + 2] = e + 1
  <2>1. n \in 0 .. Len(bp) - 1 /\ n + 1 \in 1 .. L
    BY <1>1
  <2>2. excess[n + 2] = excess[n + 1] + Weight(Paren(bp, n))
    BY <2>1, Vectors
  <2> QED
    BY <1>1, <2>1, <2>2 DEF Weight
<1>3. e >= 0 /\ excess[L] = 0
  <2>1. excess \in Seq(Int) /\ n + 1 \in 1 .. L
    BY <1>1, Vectors
  <2> QED
    BY <2>1 DEF Balanced
<1> HIDE DEF L, e
<1>4. L \in n + 3 .. L
  <2>1. L # n + 2
    BY <1>2, <1>3
  <2> QED
    BY <1>1, <2>1
<1>5. L \in T
  BY <1>2, <1>3, <1>4
<1>6. PICK k \in T : \A m \in T : k <= m
  <2>1. T \subseteq Nat
    BY <1>1
  <2> QED
    BY <1>5, <2>1, LeastExists
<1>7. k \in n + 3 .. L /\ k \in Nat /\ excess[k] <= e
  BY <1>1, <1>6
<1>8. excess[k - 1] > e
  <2>1. CASE k = n + 3
    BY <1>2, <2>1
  <2>2. CASE k # n + 3
    <3>1. k - 1 \in n + 3 .. L /\ k - 1 < k /\ excess[k - 1] \in Int
      BY <1>1, <1>7, <2>2
    <3> QED
      BY <1>2, <1>6, <1>7, <3>1
  <2> QED
    BY <2>1, <2>2
<1>9. excess[k] = excess[k - 1] + Weight(Paren(bp, k - 2))
  <2>1. k - 2 \in 0 .. Len(bp) - 1
    BY <1>1, <1>7
  <2>2. excess[(k - 2) + 2] = excess[(k - 2) + 1] + Weight(Paren(bp, k - 2))
    BY <2>1, Vectors
  <2>3. (k - 2) + 2 = k /\ (k - 2) + 1 = k - 1
    BY <1>7
  <2> QED
    BY <2>2, <2>3
<1>10. excess[k] = e
  <2>1. excess[k] \in Int /\ excess[k - 1] \in Int
    BY <1>1, <1>7
  <2>2. Weight(Paren(bp, k - 2)) \in {-1, 1}
    BY DEF Weight
  <2> QED
    BY <1>2, <1>7, <1>8, <1>9, <2>1, <2>2
<1>11. k - 2 \in Closers(excess, n)
  <2>1. k - 2 \in n + 1 .. L - 2 /\ (k - 2) + 2 = k
    BY <1>1, <1>7
  <2> QED
    BY <1>10, <2>1 DEF Closers, L, e
<1> QED
  BY <1>1, <1>11 DEF HasClose, CanClose

(* Mirror image: it starts with zero.                                      *)
LEMMA BalancedOpens ==
  ASSUME BuildInv, Balanced, NEW n \in Nat, n < Len(bp), Paren(bp, n) = 0
  PROVE  HasOpen(n)
<1> DEFINE L == Len(excess)
           e == excess[n + 2]
           T == {k \in 1 .. n : excess[k] <= e}
<1>1. /\ Len(bp) \in Nat /\ L = Len(bp) + 1 /\ excess[1] = 0
      /\ \A k \in 1 .. L : excess[k] \in Int
  BY Vectors DEF BuildInv, ExcessShape
<1>2. e \in Int /\ excess[n + 1] = e + 1
  <2>1. n \in 0 .. Len(bp) - 1 /\ n + 1 \in 1 .. L /\ n + 2 \in 1 .. L
    BY <1>1
  <2>2. excess[n + 2] = excess[n + 1] + Weight(Paren(bp, n))
    BY <2>1, Vectors
  <2> QED
    BY <1>1, <2>1, <2>2 DEF Weight
<1>3. e >= 0
  <2>1. excess \in Seq(Int) /\ n + 2 \in 1 .. L
    BY <1>1, Vectors
  <2> QED
    BY <2>1 DEF Balanced
<1> HIDE DEF L, e
<1>4. 1 \in T
  <2>1. n # 0
    BY <1>1, <1>2, <1>3
  <2> QED
    BY <1>1, <1>3, <2>1
<1>5. PICK k \in T : \A m \in T : k >= m
  <2>1. T \subseteq 0 .. n
    OBVIOUS
  <2> QED
    BY <1>4, <2>1, GreatestExists
<1>6. k \in 1 .. n /\ excess[k] <= e
  BY <1>5
<1>7. excess[k + 1] > e
  <2>1. CASE k = n
    BY <1>2, <2>1
  <2>2. CASE k # n
    <3>1. k + 1 \in 1 .. n /\ k + 1 > k /\ excess[k + 1] \in Int
      BY <1>1, <1>6, <2>2
    <3> QED
      BY <1>2, <1>5, <1>6, <3>1
  <2> QED
    BY <2>1, <2>2
<1>8. excess[k + 1] = excess[k] + Weight(Paren(bp, k - 1))
  <2>1. k - 1 \in 0 .. Len(bp) - 1
    BY <1>1, <1>6
  <2>2. excess[(k - 1) + 2] = excess[(k - 1) + 1] + Weight(Paren(bp, k - 1))
    BY <2>1, Vectors
  <2>3. (k - 1) + 2 = k + 1 /\ (k - 1) + 1 = k
    BY <1>6
  <2> QED
    BY <2>2, <2>3
<1>9. excess[k] = e
  <2>1. excess[k] \in Int /\ excess[k + 1] \in Int
    BY <1>1, <1>6
  <2>2. Weight(Paren(bp, k - 1)) \in {-1, 1}
    BY DEF Weight
  <2> QED
    BY <1>2, <1>6, <1>7, <1>8, <2>1, <2>2
<1>10. k - 1 \in Openers(excess, n)
  <2>1. k - 1 \in 0 .. n - 1 /\ (k - 1) + 1 = k
    BY <1>6
  <2> QED
    BY <1>9, <2>1 DEF Openers, e
<1> QED
  BY <1>1, <1>10 DEF HasOpen, CanOpen

(* A root that is not null begins where nothing is open;                   *)
CursorOnRoot == cursor # NullCursor => excess[cursor.node + 1] = 0

(* a loop runs over the children of an opening parenthesis.                *)
Opened ==
  step \in {"object", "forward", "backward"} /\ RootAtBase => Paren(bp, node) = 1

ThereInv == AnswerInv /\ CursorPlaced /\ CursorOnRoot /\ Opened

(* How the cursor moves: from a closed root to the parenthesis after it,   *)
(* on an index that is not rebuilt.                                        *)
LEMMA CursorMoves ==
  ASSUME SelectInv, CursorPlaced, [SelectNext]_vars
  PROVE  \/ cursor' = NullCursor
         \/ /\ UNCHANGED buildVars
            /\ \/ cursor' = cursor
               \/ cursor'.node = 0
               \/ HasNext /\ cursor'.node = next_node
<1>1. ASSUME NEW at, NEW lo, NEW end, NEW last, StartDocument(at, lo, end, last)
      PROVE  \/ cursor' = NullCursor
             \/ UNCHANGED buildVars /\ HasNext /\ cursor'.node = next_node
  BY <1>1, NextRoot DEF StartDocument
<1>2. CASE ReadLine
  BY <1>1, <1>2 DEF ReadLine
<1>3. CASE MapDocument
  BY <1>1, <1>3 DEF MapDocument
<1>4. CASE Open
  BY <1>4 DEF Open, Cursor
<1>5. CASE Build
  BY <1>5 DEF Build, driverVars, CursorPlaced, NullCursor
<1>6. CASE IndexLine
  BY <1>6 DEF IndexLine, CursorPlaced, NullCursor
<1>7. CASE \/ Grow \/ OpenDirect \/ TakeRoot \/ Finish \/ StartPath \/ Navigate
           \/ WriteValue \/ WriteRow \/ Undefined
  BY <1>7 DEF Grow, OpenDirect, TakeRoot, Finish, StartPath, Navigate, WriteValue, WriteRow,
              Undefined, driverVars
<1>8. CASE UNCHANGED vars
  BY <1>8 DEF vars, driverVars
<1> QED
  BY <1>2, <1>3, <1>4, <1>5, <1>6, <1>7, <1>8 DEF SelectNext

LEMMA CursorOnRootStep ==
  ASSUME SelectInv, CursorPlaced, CursorOnRoot, [SelectNext]_vars
  PROVE  CursorOnRoot'
<1>1. BuildInv /\ cursor.node \in Nat /\ excess[1] = 0
  BY DEF SelectInv, NumbersOK, BuildInv, ExcessShape
<1>2. CASE cursor' = NullCursor
  BY <1>2 DEF CursorOnRoot, NullCursor
<1>3. CASE UNCHANGED buildVars /\ cursor' = cursor
  BY <1>3 DEF CursorOnRoot, NullCursor, buildVars
<1>4. CASE UNCHANGED buildVars /\ cursor'.node = 0
  BY <1>1, <1>4 DEF CursorOnRoot, buildVars
<1>5. CASE UNCHANGED buildVars /\ HasNext /\ cursor'.node = next_node
  <2>1. HasClose(cursor.node) /\ cursor # NullCursor
    BY <1>5 DEF HasNext, NullCursor
  <2>2. excess[find_close(cursor.node) + 2] = excess[cursor.node + 1]
    BY <1>1, <2>1, CloseIs
  <2>3. find_close(cursor.node) \in Nat
    BY <1>1, <2>1, CloseFlips
  <2>4. cursor'.node + 1 = find_close(cursor.node) + 2
    BY <1>5, <2>3 DEF next_node
  <2>5. excess'[cursor'.node + 1] = 0
    BY <1>5, <2>1, <2>2, <2>4 DEF CursorOnRoot, buildVars
  <2> QED
    BY <2>5 DEF CursorOnRoot
<1> QED
  BY <1>2, <1>3, <1>4, <1>5, CursorMoves

(* A loop is entered at a bracket that was read.                           *)
LEMMA OpenedStep ==
  ASSUME SelectInv, ScanBounded, Mirrors, Opened, [SelectNext]_vars
  PROVE  Opened'
<1>1. CASE Navigate
  <2>1. /\ UNCHANGED <<buildVars, input, driverVars>> /\ NavNext
        /\ step \in InPath /\ root' = root
    BY <1>1, NavSteps DEF Navigate
  <2>2. RootAtBase' <=> RootAtBase
    BY <2>1 DEF RootAtBase, LineStart, driverVars
  <2>3. ASSUME HasPos(container), Byte(opening) \in OpenChars, node' = container
        PROVE  Opened'
    <3>1. container \in Nat /\ container % 2 = 0
      BY ContainerEven
    <3>2. RootAtBase => Paren(bp, container) = 1
      BY <2>1, <2>3, <3>1, BracketOpens DEF opening
    <3> QED
      BY <2>1, <2>2, <2>3, <3>2 DEF Opened, Paren, buildVars
  <2>4. CASE EnterObject
    BY <2>3, <2>4 DEF EnterObject, ReadsBracket, NonEmpty, OpenChars
  <2>5. CASE EnterArray
    BY <2>3, <2>5 DEF EnterArray, ReadsBracket, NonEmpty, OpenChars
  <2>6. ASSUME node' = node, step' = step \/ step' = "path" PROVE Opened'
    BY <2>1, <2>2, <2>6 DEF Opened, Paren, buildVars
  <2>7. CASE NotAnObject \/ NotAnArray \/ NoMoreMembers \/ MemberFound
    BY <2>6, <2>7 DEF NotAnObject, NotAnArray, NoMoreMembers, MemberFound, Reject, Return
  <2>8. CASE NextMember
    BY <2>6, <2>8 DEF NextMember
  <2>9. CASE Forward \/ Backward
    BY <2>6, <2>9 DEF Forward, Backward, Reject, Return
  <2> QED
    BY <2>1, <2>4, <2>5, <2>7, <2>8, <2>9 DEF NavNext
<1>2. CASE UNCHANGED vars
  BY <1>2 DEF vars, Opened, RootAtBase, LineStart, Paren, navVars, driverVars, buildVars
<1>3. CASE Build
  BY <1>3 DEF Build, Opened
<1>4. CASE Grow \/ Open \/ OpenDirect \/ IndexLine \/ TakeRoot \/ Finish \/ StartPath
  BY <1>4 DEF Grow, Open, OpenDirect, IndexLine, TakeRoot, Finish, StartPath, Opened
<1>5. CASE ReadLine \/ MapDocument
  BY <1>5 DEF ReadLine, MapDocument, StartDocument, Opened
<1>6. CASE WriteValue \/ WriteRow \/ Undefined
  BY <1>6 DEF WriteValue, WriteRow, Undefined, Opened
<1> QED
  BY <1>1, <1>2, <1>3, <1>4, <1>5, <1>6 DEF SelectNext

(* cursor::next() on a root: nothing is open before it, so its parenthesis *)
(* cannot be a closing one.                                                *)
LEMMA RootHasNext ==
  ASSUME SelectInv, CursorPlaced, CursorOnRoot, Balanced, cursor # NullCursor
  PROVE  HasNext
<1> DEFINE n == cursor.node
<1>1. /\ BuildInv /\ n \in Nat /\ n % 2 = 0 /\ HasPos(n) /\ cursor.index
      /\ excess[n + 1] = 0
  BY DEF SelectInv, NumbersOK, NodeParity, CursorPlaced, Cursor, CursorOnRoot
<1>2. n + 1 < Len(bp)
  BY <1>1, PosInside
<1>3. Len(bp) \in Nat /\ Len(nav) \in Nat /\ Len(bp) = 2 * Len(nav)
  BY <1>1, Vectors
<1> HIDE DEF n
<1>4. Paren(bp, n) = 1
  <2>1. n \in 0 .. Len(bp) - 1
    BY <1>1, <1>2, <1>3
  <2>2. excess[n + 2] = excess[n + 1] + Weight(Paren(bp, n))
    BY <1>1, <2>1, Vectors
  <2>3. excess[n + 2] >= 0
    <3>1. excess \in Seq(Int) /\ n + 2 \in 1 .. Len(excess)
      BY <1>1, <2>1, Vectors
    <3> QED
      BY <3>1 DEF Balanced
  <2> QED
    BY <1>1, <2>2, <2>3 DEF Weight
<1>5. HasClose(n)
  BY <1>1, <1>2, <1>3, <1>4, BalancedCloses
<1>6. next_node # Len(bp) => HasPos(next_node)
  <2> DEFINE m == next_node
  <2>1. find_close(n) \in n + 1 .. Len(bp) - 1
    BY <1>1, <1>5, CloseIs
  <2>2. m = find_close(n) + 1
    BY DEF next_node, n
  <2>3. m \in Nat /\ m <= Len(bp)
    BY <1>1, <1>3, <2>1, <2>2
  <2> HIDE DEF m
  <2>4. m # Len(bp) => m \div 2 \in 0 .. Len(nav) - 1
    BY <1>3, <2>3
  <2> QED
    BY <2>4 DEF HasPos, HasSelect, m
<1> QED
  BY <1>1, <1>5, <1>6 DEF HasNext, n

(* Among the children of a closed container only its end is no opening     *)
(* parenthesis.                                                            *)
LEMMA ChildOpens ==
  ASSUME BuildInv, NEW n \in Nat, HasClose(n), NEW m, SameLevel(n, m), m # find_close(n)
  PROVE  m \in n + 1 .. find_close(n) - 1 /\ Paren(bp, m) = 1
<1> DEFINE c == find_close(n)
<1>1. /\ n \in 0 .. Len(bp) - 1 /\ Paren(bp, n) = 1 /\ c \in n + 1 .. Len(bp) - 1
      /\ excess[n + 2] = excess[n + 1] + 1
  BY CloseIs
<1>2. Len(bp) \in Nat
  BY Vectors
<1>3. m \in n + 1 .. c
  <2>1. n \in n .. c
    BY <1>1, <1>2
  <2> QED
    BY <1>1, <2>1, LevelInside
<1> HIDE DEF c
<1>4. m \in n + 1 .. c - 1 /\ m \in 0 .. Len(bp) - 1 /\ m + 2 \in n + 2 .. c + 1
  BY <1>1, <1>2, <1>3 DEF c
<1>5. excess[m + 2] > excess[n + 1]
  BY <1>4, CloseAbove DEF c
<1>6. excess[m + 2] = excess[m + 1] + Weight(Paren(bp, m)) /\ excess[m + 1] = excess[n + 2]
  BY <1>4, Vectors DEF SameLevel
<1>7. excess[n + 1] \in Int
  <2>1. n + 1 \in 1 .. Len(bp) + 1
    BY <1>1, <1>2
  <2> QED
    BY <2>1, Vectors
<1> QED
  BY <1>1, <1>4, <1>5, <1>6, <1>7 DEF Weight, c

LEMMA LoopsThere ==
  ASSUME ThereInv, Balanced, RootAtBase, step \in {"object", "forward", "backward"}
  PROVE  /\ HasClose(node) /\ AtParen
         /\ HasClose(cur_node) \/ HasOpen(cur_node)
         /\ step = "object" /\ HasClose(cur_node) =>
              \/ val_begin = find_close(node)
              \/ HasClose(val_begin) /\ HasPos(val_end + 1)
<1> DEFINE c == find_close(node)
<1>1. BuildInv /\ Walk /\ Paren(bp, node) = 1 /\ cur_node \in Int /\ node \in Nat
  BY DEF ThereInv, AnswerInv, SelectInv, NumbersOK, Opened, Walk
<1>2. Len(bp) \in Nat /\ Len(nav) \in Nat /\ Len(bp) = 2 * Len(nav)
  BY <1>1, Vectors
<1>3. HasClose(node)
  <2>1. CASE step = "backward"
    BY <1>1, <2>1 DEF Walk
  <2>2. CASE step # "backward"
    <3>1. cur_node \in node + 1 .. Len(bp)
      BY <1>1, <2>2 DEF Walk, SameLevel
    <3>2. node < Len(bp)
      BY <1>1, <1>2, <3>1
    <3> QED
      BY <1>1, <3>2, BalancedCloses
  <2> QED
    BY <2>1, <2>2
<1>4. c \in node + 1 .. Len(bp) - 1
  BY <1>1, <1>3, CloseIs
<1>5. AtParen
  <2>1. CASE step = "backward"
    <3>1. cur_node \in node .. c - 1
      BY <1>1, <2>1 DEF Walk
    <3> HIDE DEF c
    <3> QED
      BY <1>1, <1>2, <1>4, <3>1 DEF AtParen
  <2>2. CASE step # "backward"
    <3>1. SameLevel(node, cur_node)
      BY <1>1, <2>2 DEF Walk
    <3>2. cur_node = c \/ cur_node \in node + 1 .. c - 1
      BY <1>1, <1>3, <3>1, ChildOpens
    <3> HIDE DEF c
    <3> QED
      BY <1>1, <1>2, <1>4, <3>2 DEF AtParen
  <2> QED
    BY <2>1, <2>2
<1>6. HasClose(cur_node) \/ HasOpen(cur_node)
  <2>1. cur_node \in Nat /\ cur_node < Len(bp) /\ cur_node + 1 \in 1 .. Len(bp)
    BY <1>2, <1>5 DEF AtParen
  <2>2. bp \in Seq({0, 1})
    BY <1>1, Vectors
  <2>3. Paren(bp, cur_node) \in {0, 1}
    BY <2>1, <2>2 DEF Paren
  <2> QED
    BY <1>1, <2>1, <2>3, BalancedCloses, BalancedOpens
<1>7. ASSUME step = "object", HasClose(cur_node), val_begin # c
      PROVE  HasClose(val_begin) /\ HasPos(val_end + 1)
  <2>1. SameLevel(node, cur_node) /\ cur_node \in Nat
    BY <1>1, <1>5, <1>7 DEF Walk, AtParen
  <2>2. val_begin \in Nat /\ SameLevel(node, val_begin)
    BY <1>1, <1>7, <2>1, NextSibling DEF val_begin
  <2>3. val_begin \in node + 1 .. c - 1 /\ Paren(bp, val_begin) = 1
    BY <1>1, <1>3, <1>7, <2>2, ChildOpens
  <2>4. HasClose(val_begin)
    <3>1. val_begin < Len(bp)
      <4> HIDE DEF c
      <4> QED
        BY <1>1, <1>2, <1>4, <2>2, <2>3
    <3> QED
      BY <1>1, <2>2, <2>3, <3>1, BalancedCloses
  <2>5. val_end + 1 \in Nat /\ SameLevel(node, val_end + 1)
    BY <1>1, <2>2, <2>4, NextSibling DEF val_end
  <2>6. val_end + 1 = c \/ val_end + 1 \in node + 1 .. c - 1
    BY <1>1, <1>3, <2>5, ChildOpens
  <2> DEFINE m == val_end + 1
  <2>7. m \in Nat /\ m < Len(bp)
    <3> HIDE DEF c, m
    <3>1. m \in Nat /\ (m = c \/ m \in node + 1 .. c - 1)
      BY <2>5, <2>6 DEF m
    <3> QED
      BY <1>1, <1>2, <1>4, <3>1
  <2> HIDE DEF m
  <2>8. m \div 2 \in 0 .. Len(nav) - 1
    BY <1>2, <2>7
  <2> QED
    BY <2>4, <2>8 DEF m, HasPos, HasSelect
<1> QED
  BY <1>3, <1>5, <1>6, <1>7

(* Whatever the text and the paths, if the parentheses of the index match, *)
(* the walk over the documents finds every parenthesis it asks for, and so *)
(* do the loops over the children of a container where the accessor's base *)
(* is where its root is (RootAtBase), but for the value of a last key that *)
(* has none.                                                               *)
THEOREM SelectParensThere == Spec => []ParensThere
<1>1. Init => ThereInv
  <2>1. Init => CursorPlaced /\ CursorOnRoot /\ Opened
    BY DEF Init, CursorPlaced, CursorOnRoot, Opened
  <2> QED
    BY <2>1, AnswerInitInv DEF ThereInv
<1>2. ThereInv /\ [SelectNext]_vars => ThereInv'
  <2> SUFFICES ASSUME ThereInv, [SelectNext]_vars PROVE ThereInv'
    OBVIOUS
  <2>1. /\ AnswerInv /\ SelectInv /\ ScanBounded /\ Mirrors
        /\ CursorPlaced /\ CursorOnRoot /\ Opened
    BY DEF ThereInv, AnswerInv
  <2> QED
    BY <2>1, AnswerNextInv, CursorStep, CursorOnRootStep, OpenedStep DEF ThereInv
<1>3. ThereInv => ParensThere
  <2>1. ThereInv => SelectInv /\ CursorPlaced /\ CursorOnRoot
    BY DEF ThereInv, AnswerInv
  <2> QED
    BY <2>1, RootHasNext, LoopsThere DEF ParensThere
<1> QED
  BY <1>1, <1>2, <1>3, PTL DEF Spec

-----------------------------------------------------------------------------
(* What get_array_child counts.  The elements behind node m, as Before has *)
(* those before it:                                                        *)
After(n, m) ==
  {x \in m + 1 .. find_close(n) : Paren(bp, x) = 1 /\ excess[x + 1] = excess[n + 2]}

LEMMA AfterFinite ==
  ASSUME BuildInv, NEW n \in Nat, HasClose(n), NEW m \in Int
  PROVE  IsFiniteSet(After(n, m)) /\ Cardinality(After(n, m)) \in Nat
<1>1. find_close(n) \in Int
  BY CloseFlips
<1>2. IsFiniteSet(m + 1 .. find_close(n))
  BY <1>1, FS_Interval
<1>3. After(n, m) \subseteq m + 1 .. find_close(n)
  BY DEF After
<1>4. IsFiniteSet(After(n, m))
  BY <1>2, <1>3, FS_Subset
<1> QED
  BY <1>4, FS_CardinalityType

(* Backward, the loop hops over one element too: its opening parenthesis   *)
(* is the last on the level before its closing one.                        *)
LEMMA BackwardHop ==
  ASSUME BuildInv, NEW n \in Nat, n % 2 = 0, HasClose(n),
         NEW m \in n .. find_close(n) - 1, m % 2 = 0, Paren(bp, m) = 0,
         HasOpen(m), excess[m + 2] = excess[n + 2]
  PROVE  /\ find_open(m) \in n + 1 .. m - 1 /\ find_open(m) \in Elements(n)
         /\ After(n, find_open(m) - 1) = After(n, m) \cup {find_open(m)}
         /\ find_open(m) \notin After(n, m)
<1> DEFINE c == find_close(n)
           o == find_open(m)
           Level(x) == Paren(bp, x) = 1 /\ excess[x + 1] = excess[n + 2]
<1>1. /\ n \in 0 .. Len(bp) - 1 /\ Paren(bp, n) = 1 /\ c \in n + 1 .. Len(bp) - 1
      /\ excess[n + 2] = excess[n + 1] + 1
  BY CloseIs
<1>2. Len(bp) \in Nat /\ \A k \in 1 .. Len(bp) + 1 : excess[k] \in Int
  BY Vectors
<1>3. m \in Nat /\ m > n /\ m < c /\ n + 1 < Len(bp)
  <2>1. m # n /\ m \in n .. c - 1
    BY <1>1
  <2> HIDE DEF c
  <2> QED
    BY <1>1, <1>2, <2>1
<1>4. o \in n + 1 .. m - 1 /\ excess[(o - 1) + 2] = excess[n + 2]
  BY <1>3, PreviousSibling
<1>5. \A k \in Openers(excess, m) : o >= k
  <2> DEFINE O == Openers(excess, m)
  <2>1. O \subseteq 0 .. m /\ O # {}
    BY DEF Openers, HasOpen, CanOpen
  <2>2. \E x \in O : \A k \in O : x >= k
    BY <1>3, <2>1, GreatestExists
  <2> QED
    BY <2>2 DEF find_open, FindOpen
<1> HIDE DEF o, c
<1>6. excess[o + 1] = excess[n + 2] /\ o \in 0 .. Len(bp) - 1 /\ o \in Int
  <2>1. (o - 1) + 2 = o + 1
    BY <1>4
  <2> QED
    BY <1>1, <1>2, <1>3, <1>4, <2>1
<1>7. Paren(bp, o) = 1
  <2>1. o + 2 \in n + 2 .. c + 1
    BY <1>1, <1>2, <1>3, <1>4
  <2>2. excess[o + 2] > excess[n + 1]
    BY <2>1, CloseAbove DEF c
  <2>3. excess[o + 2] = excess[o + 1] + Weight(Paren(bp, o))
    BY <1>6, Vectors
  <2>4. excess[n + 1] \in Int
    BY <1>1, <1>2
  <2> QED
    BY <1>1, <1>6, <2>2, <2>3, <2>4 DEF Weight
<1>8. ASSUME NEW x \in o + 1 .. m PROVE ~Level(x)
  <2>1. CASE x = m
    BY <2>1
  <2>2. CASE x # m
    <3>1. x \in 0 .. m - 1 /\ x > o
      BY <1>3, <1>6, <2>2
    <3>2. x \notin Openers(excess, m)
      BY <1>5, <1>6, <3>1
    <3> QED
      BY <3>1, <3>2 DEF Openers
  <2> QED
    BY <2>1, <2>2
<1>9. \A x : x \in (o - 1) + 1 .. c <=> x = o \/ x \in o + 1 .. m \/ x \in m + 1 .. c
  BY <1>1, <1>3, <1>4
<1>10. Level(o)
  BY <1>6, <1>7
<1>11. /\ \A x : x \in After(n, o - 1) <=> x \in (o - 1) + 1 .. c /\ Level(x)
       /\ \A x : x \in After(n, m) <=> x \in m + 1 .. c /\ Level(x)
       /\ \A x : x \in Elements(n) <=> x \in n + 1 .. c /\ Level(x)
  BY DEF After, Elements, c
<1> HIDE DEF Level
<1>12. After(n, o - 1) = After(n, m) \cup {o}
  BY <1>8, <1>9, <1>10, <1>11
<1>13. o \in n + 1 .. c /\ o \notin m + 1 .. c
  BY <1>1, <1>3, <1>4
<1> QED
  BY <1>4, <1>10, <1>11, <1>12, <1>13 DEF o

(* What is before a node of the container, and what is behind it.          *)
LEMMA PositionBefore ==
  ASSUME BuildInv, NEW n \in Nat, HasClose(n), NEW m \in n + 1 .. find_close(n)
  PROVE  Position(n, m) = Cardinality(Before(n, m))
<1> DEFINE c == find_close(n)
<1>1. c \in Nat
  BY CloseFlips
<1> HIDE DEF c
<1>2. m \in n + 1 .. c
  BY DEF c
<1>3. \A x : x \in n + 1 .. m - 1 <=> x \in n + 1 .. c /\ x < m
  BY <1>1, <1>2
<1>4. {x \in Elements(n) : x < m} = Before(n, m)
  BY <1>3 DEF Elements, Before, c
<1> QED
  BY <1>4 DEF Position

(* The paths come from the path parser, and get_path has not left the      *)
(* current one;                                                            *)
Item == [type : {"key"}, key : Seq(STRING)] \cup [type : {"index"}, index : Int]
PathTyped ==
  /\ paths \in Seq(Seq(Item))
  /\ step \in InPath =>
       /\ path \in Seq(Item) /\ element \in Nat /\ element <= Len(path)
       /\ step # "path" => element < Len(path)

(* i is the number of elements passed, and not beyond the one looked for.  *)
Counted ==
  /\ step = "forward" =>
       /\ elem.index \in Nat /\ i \in 0 .. elem.index
       /\ i = Cardinality(Before(node, cur_node))
  /\ step = "backward" =>
       /\ elem.index \in Int /\ elem.index < 0 /\ i \in 0 .. -elem.index - 1
       /\ i = Cardinality(After(node, cur_node))

LEMMA NotDone ==
  ASSUME ~PathDone, element \in Nat, Len(path) \in Nat, element <= Len(path)
  PROVE  element < Len(path)
<1>1. element # Len(path)
  BY Zenon DEF PathDone
<1> QED
  BY <1>1

LEMMA PathTypedNav ==
  ASSUME PathTyped, NavNext, paths' = paths
  PROVE  PathTyped'
<1>1. /\ step \in InPath /\ step' \in InPath /\ paths \in Seq(Seq(Item))
      /\ path \in Seq(Item) /\ element \in Nat /\ element <= Len(path)
      /\ step # "path" => element < Len(path)
  BY NavSteps DEF PathTyped
<1>2. Len(path) \in Nat
  BY <1>1
<1>3. ASSUME path' = path, element < Len(path),
             element' = element \/ (element' = element + 1 /\ step' = "path")
      PROVE  PathTyped'
  BY <1>1, <1>2, <1>3 DEF PathTyped
<1>4. CASE EnterObject \/ EnterArray
  <2>1. ~PathDone
    BY <1>4 DEF EnterObject, EnterArray, Entering
  <2>2. element < Len(path)
    BY <1>1, <1>2, <2>1, NotDone
  <2>3. path' = path /\ element' = element
    BY <1>4 DEF EnterObject, EnterArray
  <2> QED
    BY <1>3, <2>2, <2>3
<1>5. CASE NotAnObject \/ NotAnArray
  <2>1. ~PathDone
    BY <1>5 DEF NotAnObject, NotAnArray, Entering
  <2>2. element < Len(path)
    BY <1>1, <1>2, <2>1, NotDone
  <2>3. path' = path /\ element' = element + 1 /\ step' = "path"
    BY <1>5 DEF NotAnObject, NotAnArray, Reject, Return
  <2> QED
    BY <1>3, <2>2, <2>3
<1>6. CASE NoMoreMembers \/ MemberFound \/ NextMember \/ Forward \/ Backward
  <2>1. step \in {"object", "forward", "backward"}
    BY <1>6 DEF NoMoreMembers, MemberFound, NextMember, Forward, Backward
  <2>2. path' = path /\ (element' = element \/ (element' = element + 1 /\ step' = "path"))
    BY <1>6 DEF NoMoreMembers, MemberFound, NextMember, Forward, Backward, Reject, Return
  <2> QED
    BY <1>1, <1>3, <2>1, <2>2
<1> QED
  BY <1>4, <1>5, <1>6 DEF NavNext

LEMMA PathTypedStep ==
  ASSUME SelectInv, PathTyped, [SelectNext]_vars
  PROVE  PathTyped'
<1>1. CASE Navigate
  BY <1>1, PathTypedNav DEF Navigate, driverVars
<1>2. CASE UNCHANGED vars
  BY <1>2 DEF vars, PathTyped, navVars, driverVars, InPath
<1>3. CASE Open \/ OpenDirect
  <2>1. paths' \in PathLists /\ step' = "document"
    BY <1>3 DEF Open, OpenDirect
  <2>2. paths' \in Seq(Seq(Item))
    BY <2>1, PathsAssumption DEF Item
  <2> QED
    BY <2>1, <2>2 DEF PathTyped, InPath
<1>4. CASE StartPath
  <2>1. /\ paths' = paths /\ Len(row) < Len(paths) /\ path' = paths[Len(row) + 1]
        /\ element' = 0 /\ step' = "path"
    BY <1>4 DEF StartPath, driverVars
  <2>2. paths \in Seq(Seq(Item)) /\ row \in Seq(Cell)
    BY DEF PathTyped, SelectInv, RowsOK
  <2>3. Len(row) + 1 \in 1 .. Len(paths)
    BY <2>1, <2>2
  <2>4. path' \in Seq(Item) /\ element' <= Len(path') /\ element' \in Nat
    BY <2>1, <2>2, <2>3
  <2> QED
    BY <2>1, <2>2, <2>4 DEF PathTyped
<1>5. ASSUME paths' = paths, step' \notin InPath PROVE PathTyped'
  BY <1>5 DEF PathTyped
<1>6. CASE Build \/ Grow
  BY <1>5, <1>6 DEF Build, Grow, driverVars, InPath
<1>7. CASE IndexLine \/ TakeRoot \/ Finish \/ WriteValue \/ WriteRow \/ Undefined
  BY <1>5, <1>7 DEF IndexLine, TakeRoot, Finish, WriteValue, WriteRow, Undefined, driverVars,
                    InPath
<1>8. CASE ReadLine \/ MapDocument
  BY <1>5, <1>8 DEF ReadLine, MapDocument, StartDocument, InPath
<1> QED
  BY <1>1, <1>2, <1>3, <1>4, <1>6, <1>7, <1>8 DEF SelectNext

LEMMA CountedForward ==
  ASSUME UNCHANGED <<buildVars, path, element>>, step' = "forward",
         NEW n, NEW m, NEW k, node' = n, cur_node' = m, i' = k,
         elem.index \in Nat, k \in 0 .. elem.index, k = Cardinality(Before(n, m))
  PROVE  Counted'
<1>1. Before(n, m)' = Before(n, m)
  BY DEF Before, buildVars
<1>2. Before(node, cur_node)' = Before(n, m)
  BY <1>1 DEF Before
<1>3. elem' = elem
  BY DEF elem
<1> QED
  BY <1>2, <1>3 DEF Counted

LEMMA CountedBackward ==
  ASSUME UNCHANGED <<buildVars, path, element>>, step' = "backward",
         NEW n, NEW m, NEW k, node' = n, cur_node' = m, i' = k,
         elem.index \in Int, elem.index < 0, k \in 0 .. -elem.index - 1,
         k = Cardinality(After(n, m))
  PROVE  Counted'
<1>1. After(n, m)' = After(n, m)
  BY DEF After, find_close, buildVars
<1>2. After(node, cur_node)' = After(n, m)
  BY <1>1 DEF After
<1>3. elem' = elem
  BY DEF elem
<1> QED
  BY <1>2, <1>3 DEF Counted

(* The steps of get_path count the elements they pass.                     *)
LEMMA CountedNav ==
  ASSUME SelectInv, Walk, PathTyped, Counted, NavNext, UNCHANGED buildVars
  PROVE  Counted'
<1>0. BuildInv /\ container \in Nat /\ container % 2 = 0
  BY ContainerEven DEF SelectInv
<1>1. ASSUME step' \notin {"forward", "backward"} PROVE Counted'
  BY <1>1 DEF Counted
<1>2. CASE EnterArray
  <2>1. /\ step = "path" /\ ~PathDone /\ elem.type = "index" /\ node' = container /\ i' = 0
        /\ UNCHANGED <<path, element>>
        /\ \/ elem.index >= 0 /\ cur_node' = container + 1 /\ step' = "forward"
           \/ /\ elem.index < 0 /\ HasClose(container)
              /\ cur_node' = find_close(container) - 1 /\ step' = "backward"
    BY <1>2 DEF EnterArray, Entering
  <2>2. elem.index \in Int
    <3>1. path \in Seq(Item) /\ element \in Nat /\ element <= Len(path) /\ Len(path) \in Nat
      BY <2>1 DEF PathTyped, InPath
    <3>2. element < Len(path)
      BY <2>1, <3>1, NotDone
    <3>3. elem \in Item
      BY <3>1, <3>2 DEF elem
    <3> QED
      BY <2>1, <3>3 DEF Item
  <2>3. CASE elem.index >= 0 /\ cur_node' = container + 1 /\ step' = "forward"
    <3>1. Before(container, container + 1) = {}
      BY <1>0 DEF Before
    <3>2. Cardinality(Before(container, container + 1)) = 0
      BY <3>1, FS_EmptySet
    <3>3. elem.index \in Nat /\ 0 \in 0 .. elem.index
      BY <2>2, <2>3
    <3> QED
      BY <2>1, <2>3, <3>2, <3>3, CountedForward
  <2>4. CASE /\ elem.index < 0 /\ HasClose(container)
             /\ cur_node' = find_close(container) - 1 /\ step' = "backward"
    <3> DEFINE c == find_close(container)
    <3>1. c \in Nat /\ Paren(bp, c) # 1
      BY <1>0, <2>4, CloseFlips, CloseLevel
    <3>2. After(container, c - 1) = {}
      <4>1. \A x : x \in After(container, c - 1) => x \in (c - 1) + 1 .. c /\ Paren(bp, x) = 1
        BY DEF After
      <4> HIDE DEF c
      <4>2. \A x \in (c - 1) + 1 .. c : x = c
        BY <3>1
      <4> QED
        BY <3>1, <4>1, <4>2
    <3>3. Cardinality(After(container, c - 1)) = 0
      BY <3>2, FS_EmptySet
    <3>4. 0 \in 0 .. -elem.index - 1
      BY <2>2, <2>4
    <3> QED
      BY <2>1, <2>2, <2>4, <3>3, <3>4, CountedBackward
  <2> QED
    BY <2>1, <2>3, <2>4
<1>3. CASE Forward
  <2>1. CASE step' # "forward"
    BY <1>1, <1>3, <2>1 DEF Forward, Reject, Return
  <2>2. CASE step' = "forward"
    <3>1. /\ step = "forward" /\ i # elem.index /\ HasClose(cur_node)
          /\ cur_node' = find_close(cur_node) + 1 /\ i' = i + 1
          /\ UNCHANGED <<path, element, node>>
      BY <1>3, <2>2 DEF Forward, Reject, Return
    <3>2. /\ node \in Nat /\ SameLevel(node, cur_node) /\ cur_node \in Int
          /\ elem.index \in Nat /\ i \in 0 .. elem.index
          /\ i = Cardinality(Before(node, cur_node))
      BY <3>1 DEF Walk, Counted, SelectInv, NumbersOK
    <3>3. cur_node \in Nat
      BY <3>2 DEF SameLevel
    <3>4. i + 1 = Cardinality(Before(node, find_close(cur_node) + 1))
      BY <1>0, <3>1, <3>2, <3>3, CountHop
    <3>5. i + 1 \in 0 .. elem.index
      BY <3>1, <3>2
    <3> QED
      BY <2>2, <3>1, <3>2, <3>4, <3>5, CountedForward
  <2> QED
    BY <2>1, <2>2
<1>4. CASE Backward
  <2>1. CASE step' # "backward"
    BY <1>1, <1>4, <2>1 DEF Backward, Reject, Return
  <2>2. CASE step' = "backward"
    <3>1. /\ step = "backward" /\ i # -elem.index - 1 /\ HasOpen(cur_node)
          /\ Paren(bp, cur_node) = 0
          /\ cur_node' = find_open(cur_node) - 1 /\ i' = i + 1
          /\ UNCHANGED <<path, element, node>>
      BY <1>4, <2>2 DEF Backward, Reject, Return
    <3>2. /\ node \in Nat /\ node % 2 = 0 /\ HasClose(node)
          /\ cur_node \in node .. find_close(node) - 1 /\ cur_node % 2 = 0
          /\ excess[cur_node + 2] = excess[node + 2]
          /\ elem.index \in Int /\ elem.index < 0 /\ i \in 0 .. -elem.index - 1
          /\ i = Cardinality(After(node, cur_node)) /\ cur_node \in Int
      BY <3>1 DEF Walk, Counted, SelectInv, NodeParity, NumbersOK
    <3> DEFINE o == find_open(cur_node)
    <3>3. After(node, o - 1) = After(node, cur_node) \cup {o} /\ o \notin After(node, cur_node)
      BY <1>0, <3>1, <3>2, BackwardHop
    <3>4. IsFiniteSet(After(node, cur_node))
      BY <1>0, <3>2, AfterFinite
    <3>5. i + 1 = Cardinality(After(node, o - 1))
      BY <3>2, <3>3, <3>4, FS_AddElement
    <3>6. i + 1 \in 0 .. -elem.index - 1
      BY <3>1, <3>2
    <3> QED
      BY <2>2, <3>1, <3>2, <3>5, <3>6, CountedBackward
  <2> QED
    BY <2>1, <2>2
<1>5. CASE EnterObject \/ NotAnObject \/ NotAnArray \/ NoMoreMembers \/ MemberFound \/ NextMember
  BY <1>1, <1>5 DEF EnterObject, NotAnObject, NotAnArray, NoMoreMembers, MemberFound,
                    NextMember, Reject, Return
<1> QED
  BY <1>2, <1>3, <1>4, <1>5 DEF NavNext

LEMMA CountedStep ==
  ASSUME SelectInv, Walk, PathTyped, Counted, [SelectNext]_vars
  PROVE  Counted'
<1>1. CASE Navigate
  BY <1>1, CountedNav DEF Navigate
<1>2. CASE UNCHANGED vars
  BY <1>2 DEF vars, Counted, elem, Before, After, find_close, navVars, buildVars
<1>3. CASE Build \/ Grow \/ Open \/ OpenDirect \/ IndexLine \/ TakeRoot \/ Finish \/ StartPath
  BY <1>3 DEF Build, Grow, Open, OpenDirect, IndexLine, TakeRoot, Finish, StartPath, Counted
<1>4. CASE ReadLine \/ MapDocument
  BY <1>4 DEF ReadLine, MapDocument, StartDocument, Counted
<1>5. CASE WriteValue \/ WriteRow \/ Undefined
  BY <1>5 DEF WriteValue, WriteRow, Undefined, Counted
<1> QED
  BY <1>1, <1>2, <1>3, <1>4, <1>5 DEF SelectNext

(* What is answered.                                                       *)
LEMMA MemberAnswered ==
  ASSUME SelectInv, Walk, Paired, MemberFound, HasClose(node)
  PROVE  ObjectChild
<1> DEFINE v == val_begin
           c == find_close(node)
<1>1. /\ step = "object" /\ HasClose(cur_node) /\ acc'.node = v
  BY DEF MemberFound, KeyRead, Return
<1>2. /\ BuildInv /\ node \in Nat /\ SameLevel(node, cur_node) /\ cur_node \in Int
      /\ Cardinality(Before(node, cur_node)) % 2 = 0
  BY <1>1 DEF SelectInv, NumbersOK, Walk, Paired
<1>3. cur_node \in Nat
  BY <1>2 DEF SameLevel
<1>4. v \in Nat /\ SameLevel(node, v)
  BY <1>1, <1>2, <1>3, NextSibling DEF val_begin
<1>5. c \in node + 1 .. Len(bp) - 1 /\ Len(bp) \in Nat
  BY <1>2, CloseIs, Vectors
<1>6. v = c \/ (v \in node + 1 .. c - 1 /\ Paren(bp, v) = 1)
  BY <1>2, <1>4, ChildOpens
<1>7. v \in node + 1 .. c
  <2> HIDE DEF v, c
  <2> QED
    BY <1>2, <1>5, <1>6
<1>8. v \in Elements(node) \cup {c}
  BY <1>4, <1>6, <1>7 DEF Elements, SameLevel
<1>9. Position(node, v) = Cardinality(Before(node, cur_node)) + 1
  <2>1. Position(node, v) = Cardinality(Before(node, v))
    BY <1>2, <1>7, PositionBefore
  <2>2. Cardinality(Before(node, v)) = Cardinality(Before(node, cur_node)) + 1
    BY <1>1, <1>2, <1>3, CountHop DEF val_begin
  <2> QED
    BY <2>1, <2>2
<1> DEFINE k == Cardinality(Before(node, cur_node))
<1>10. k \in Nat /\ k % 2 = 0
  BY <1>2, BeforeFinite
<1> HIDE DEF k
<1>11. (k + 1) % 2 = 1
  BY <1>10
<1> QED
  BY <1>1, <1>8, <1>9, <1>11 DEF ObjectChild, k

LEMMA ForwardAnswered ==
  ASSUME SelectInv, Walk, Counted, Forward, HasClose(node), step' = "path"
  PROVE  ArrayChild
<1> DEFINE c == find_close(node)
           size == Cardinality(Elements(node))
<1>1. /\ BuildInv /\ step = "forward" /\ node \in Nat /\ SameLevel(node, cur_node)
      /\ elem.index \in Nat /\ i \in 0 .. elem.index
      /\ i = Cardinality(Before(node, cur_node))
  BY DEF Forward, SelectInv, Walk, Counted
<1>2. c \in node + 1 .. Len(bp) - 1 /\ Len(bp) \in Nat /\ Paren(bp, c) # 1
  BY <1>1, CloseIs, Vectors, CloseLevel
<1>3. cur_node = c \/ (cur_node \in node + 1 .. c - 1 /\ Paren(bp, cur_node) = 1)
  BY <1>1, ChildOpens
<1>4. CASE Paren(bp, cur_node) = 0 /\ Reject
  <2>1. cur_node = c
    BY <1>3, <1>4
  <2>2. size = i
    BY <1>1, <2>1, ElementsBefore
  <2>3. ~acc'.is_valid
    BY <1>4 DEF Reject, Return
  <2>4. elem.index \notin -size .. size - 1
    <3> HIDE DEF size
    <3> QED
      BY <1>1, <2>2
  <2> QED
    BY <2>3, <2>4 DEF ArrayChild
<1>5. CASE Paren(bp, cur_node) = 1 /\ i = elem.index /\ Return(TRUE, cur_node)
  <2>1. acc'.is_valid /\ acc'.node = cur_node
    BY <1>5 DEF Return
  <2>2. cur_node \in node + 1 .. c - 1
    BY <1>2, <1>3, <1>5
  <2>3. cur_node \in node + 1 .. c
    <3> HIDE DEF c
    <3> QED
      BY <1>1, <1>2, <2>2
  <2>4. cur_node \in Elements(node)
    BY <1>1, <1>5, <2>3 DEF Elements, SameLevel
  <2>5. Position(node, cur_node) = elem.index
    BY <1>1, <1>5, <2>3, PositionBefore
  <2>6. elem.index + (IF elem.index < 0 THEN size ELSE 0) = elem.index
    <3> HIDE DEF size
    <3> QED
      BY <1>1
  <2> QED
    BY <2>1, <2>4, <2>5, <2>6 DEF ArrayChild
<1> QED
  BY <1>1, <1>4, <1>5 DEF Forward

LEMMA BackwardAnswered ==
  ASSUME SelectInv, Walk, Counted, Backward, HasClose(node), step' = "path"
  PROVE  ArrayChild
<1> DEFINE c == find_close(node)
           o == find_open(cur_node)
           E == Elements(node)
           A == After(node, cur_node)
           size == Cardinality(E)
<1>1. /\ BuildInv /\ step = "backward" /\ node \in Nat /\ node % 2 = 0
      /\ cur_node \in node .. c - 1 /\ cur_node \in Int /\ cur_node % 2 = 0
      /\ excess[cur_node + 2] = excess[node + 2]
      /\ elem.index \in Int /\ elem.index < 0 /\ i \in 0 .. -elem.index - 1
      /\ i = Cardinality(A)
  BY DEF Backward, SelectInv, NumbersOK, NodeParity, Walk, Counted
<1>2. /\ c \in node + 1 .. Len(bp) - 1 /\ Len(bp) \in Nat
      /\ excess[node + 2] = excess[node + 1] + 1
      /\ \A k \in 1 .. Len(bp) + 1 : excess[k] \in Int
  BY <1>1, CloseIs, Vectors
<1>3. CASE Paren(bp, cur_node) = 1 /\ Reject
  <2>1. cur_node = node
    <3> SUFFICES ASSUME cur_node # node PROVE FALSE
      OBVIOUS
    <3> HIDE DEF c
    <3>0. /\ cur_node \in node .. c - 1 /\ cur_node \in Int /\ node \in Nat
          /\ c \in node + 1 .. Len(bp) - 1 /\ Len(bp) \in Nat
      BY <1>1, <1>2
    <3>1. /\ cur_node \in 0 .. Len(bp) - 1 /\ cur_node + 1 \in node + 2 .. c + 1
          /\ cur_node + 1 \in 1 .. Len(bp) + 1 /\ node + 1 \in 1 .. Len(bp) + 1
      BY <3>0
    <3>2. excess[cur_node + 2] = excess[cur_node + 1] + 1
      BY <1>1, <1>3, <3>1, Vectors DEF Weight
    <3>3. excess[cur_node + 1] > excess[node + 1]
      BY <1>1, <3>1, CloseAbove DEF c
    <3>4. excess[cur_node + 1] \in Int /\ excess[node + 1] \in Int
      BY <1>2, <3>1
    <3> QED
      BY <1>1, <1>2, <3>2, <3>3, <3>4
  <2>2. A = E
    BY <2>1 DEF After, Elements
  <2>3. size = i
    BY <1>1, <2>2
  <2>4. ~acc'.is_valid
    BY <1>3 DEF Reject, Return
  <2>5. elem.index \notin -size .. size - 1
    <3> HIDE DEF size
    <3> QED
      BY <1>1, <2>3
  <2> QED
    BY <2>4, <2>5 DEF ArrayChild
<1>4. CASE Paren(bp, cur_node) = 0 /\ i = -elem.index - 1 /\ HasOpen(cur_node) /\ Return(TRUE, o)
  <2>1. acc'.is_valid /\ acc'.node = o
    BY <1>4 DEF Return
  <2>2. /\ o \in node + 1 .. cur_node - 1 /\ o \in E
        /\ After(node, o - 1) = A \cup {o} /\ o \notin A
    BY <1>1, <1>4, BackwardHop
  <2> DEFINE F == Before(node, o)
  <2>3. o \in Int /\ o \in node + 1 .. c
    <3> HIDE DEF c, o
    <3> QED
      BY <1>1, <1>2, <2>2
  <2>4. E = F \cup After(node, o - 1) /\ F \cap After(node, o - 1) = {}
    <3> DEFINE Level(x) == Paren(bp, x) = 1 /\ excess[x + 1] = excess[node + 2]
    <3>1. /\ \A x : x \in E <=> x \in node + 1 .. c /\ Level(x)
          /\ \A x : x \in F <=> x \in node + 1 .. o - 1 /\ Level(x)
          /\ \A x : x \in After(node, o - 1) <=> x \in (o - 1) + 1 .. c /\ Level(x)
      BY DEF Elements, Before, After
    <3> HIDE DEF c, o, E, F, Level
    <3>2. \A x : x \in node + 1 .. c <=> x \in node + 1 .. o - 1 \/ x \in (o - 1) + 1 .. c
      BY <1>1, <1>2, <2>3
    <3>3. \A x : ~ (x \in node + 1 .. o - 1 /\ x \in (o - 1) + 1 .. c)
      BY <1>1, <1>2, <2>3
    <3> QED
      BY <3>1, <3>2, <3>3
  <2>5. IsFiniteSet(F) /\ IsFiniteSet(A) /\ Cardinality(F) \in Nat /\ Cardinality(A) \in Nat
    BY <1>1, <2>3, BeforeFinite, AfterFinite
  <2>6. IsFiniteSet(A \cup {o}) /\ Cardinality(A \cup {o}) = Cardinality(A) + 1
    BY <2>2, <2>5, FS_AddElement
  <2>7. size = Cardinality(F) + (Cardinality(A) + 1)
    <3>1. E = F \cup (A \cup {o}) /\ F \cap (A \cup {o}) = {}
      BY <2>2, <2>4
    <3> HIDE DEF E, F, A, o
    <3>2. Cardinality(F \cup (A \cup {o}))
            = Cardinality(F) + Cardinality(A \cup {o}) - Cardinality(F \cap (A \cup {o}))
      BY <2>5, <2>6, FS_Union
    <3>3. Cardinality(F \cap (A \cup {o})) = 0
      BY <3>1, FS_EmptySet
    <3> QED
      BY <2>5, <2>6, <3>1, <3>2, <3>3
  <2>8. Position(node, o) = Cardinality(F)
    BY <1>1, <2>3, PositionBefore
  <2>9. Cardinality(F) = elem.index + (IF elem.index < 0 THEN size ELSE 0)
    <3> DEFINE f == Cardinality(F)
               a == Cardinality(A)
    <3>1. f \in Nat /\ a \in Nat /\ size = f + (a + 1) /\ a = -elem.index - 1
      BY <1>1, <1>4, <2>5, <2>7
    <3> HIDE DEF f, a, size
    <3>2. f = elem.index + (IF elem.index < 0 THEN size ELSE 0)
      BY <1>1, <3>1
    <3> QED
      BY <3>2 DEF f
  <2> QED
    BY <2>1, <2>2, <2>8, <2>9 DEF ArrayChild
<1> QED
  BY <1>1, <1>3, <1>4 DEF Backward

LEMMA ChildAnswered ==
  ASSUME AnswerInv, Counted, [SelectNext]_vars, HasClose(node), step' = "path"
  PROVE  /\ step = "object" => ObjectChild
         /\ step \in {"forward", "backward"} => ArrayChild
<1> SUFFICES ASSUME step \in {"object", "forward", "backward"}
             PROVE  /\ step = "object" => ObjectChild
                    /\ step \in {"forward", "backward"} => ArrayChild
  OBVIOUS
<1>0. SelectInv /\ Walk /\ Paired
  BY DEF AnswerInv
<1>1. NavNext
  <2>1. ~UNCHANGED vars
    BY DEF vars
  <2>2. ~(Build \/ Grow \/ Open \/ OpenDirect \/ IndexLine \/ TakeRoot \/ Finish \/ StartPath)
    BY DEF Build, Grow, Open, OpenDirect, IndexLine, TakeRoot, Finish, StartPath
  <2>3. ~(ReadLine \/ MapDocument \/ WriteValue \/ WriteRow \/ Undefined)
    BY DEF ReadLine, MapDocument, WriteValue, WriteRow, Undefined
  <2> QED
    BY <2>1, <2>2, <2>3 DEF SelectNext, Navigate
<1>2. CASE step = "object"
  <2>1. NoMoreMembers \/ MemberFound
    BY <1>1, <1>2 DEF NavNext, EnterObject, NotAnObject, EnterArray, NotAnArray, Entering,
                      NextMember, Forward, Backward
  <2>2. CASE NoMoreMembers
    BY <1>2, <2>2 DEF NoMoreMembers, Reject, Return, ObjectChild
  <2> QED
    BY <1>0, <1>2, <2>1, <2>2, MemberAnswered
<1>3. CASE step \in {"forward", "backward"}
  <2>1. Forward \/ Backward
    BY <1>1, <1>3 DEF NavNext, EnterObject, NotAnObject, EnterArray, NotAnArray, Entering,
                      NextMember, NoMoreMembers, MemberFound
  <2> QED
    BY <1>0, <1>3, <2>1, ForwardAnswered, BackwardAnswered
<1> QED
  BY <1>2, <1>3

(* Whatever the text and the paths, in a container that is closed          *)
(* get_array_child answers with the element of the index, and              *)
(* get_object_child never with a key: with a value or, for a last key that *)
(* has none, the closing parenthesis of the object.                        *)
THEOREM SelectChildCounted == Spec => ChildCounted
<1>1. Init => AnswerInv /\ PathTyped /\ Counted
  BY AnswerInitInv DEF Init, PathTyped, Counted, InPath
<1>2. AnswerInv /\ PathTyped /\ Counted /\ [SelectNext]_vars
        => (AnswerInv /\ PathTyped /\ Counted)'
  BY AnswerNextInv, PathTypedStep, CountedStep DEF AnswerInv
<1>3. AnswerInv /\ Counted /\ [SelectNext]_vars =>
        [HasClose(node) /\ step' = "path" =>
           /\ step = "object" => ObjectChild
           /\ step \in {"forward", "backward"} => ArrayChild]_vars
  BY ChildAnswered
<1> QED
  BY <1>1, <1>2, <1>3, PTL DEF Spec, ChildCounted

-----------------------------------------------------------------------------
(* Every index, of a file or of a line, is built as LexingProofs has it.   *)
LEMMA LexStep ==
  ASSUME SelectInv, LexInv, [SelectNext]_vars
  PROVE  LexInv'
<1>1. CASE Build
  BY <1>1, LexNextInv DEF Build
<1>2. CASE IndexLine
  <2>1. /\ line < Len(input.ends) /\ line \in Nat /\ Construct(Line(line + 1))
        /\ IsCollection(input)
    BY <1>2 DEF IndexLine, SelectInv, NumbersOK, InputOK
  <2>2. line + 1 \in 1 .. Len(input.ends)
    BY <2>1 DEF IsCollection
  <2> QED
    BY <2>1, <2>2, LineIsCollection, LexConstruct
<1>3. ASSUME UNCHANGED buildVars PROVE LexInv'
  BY <1>3, LexNextInv
<1>4. CASE Grow \/ Open \/ OpenDirect \/ TakeRoot \/ Finish \/ StartPath \/ Navigate
  BY <1>3, <1>4 DEF Grow, Open, OpenDirect, TakeRoot, Finish, StartPath, Navigate
<1>5. CASE ReadLine \/ MapDocument \/ WriteValue \/ WriteRow \/ Undefined
  BY <1>3, <1>5 DEF ReadLine, MapDocument, StartDocument, WriteValue, WriteRow, Undefined
<1>6. CASE UNCHANGED vars
  BY <1>3, <1>6 DEF vars
<1> QED
  BY <1>1, <1>2, <1>4, <1>5, <1>6 DEF SelectNext

(* For which texts the parentheses match: in every state of a query, if    *)
(* and only if, among the characters indexed, nothing is closed or         *)
(* separated outside brackets and no bracket is left open.                 *)
THEOREM SelectBalanced ==
  Spec => [](Balanced <=> BracketsNest(jsons, nav_size) /\ Depth(jsons, nav_size) = 0)
<1>1. Init => SelectInv /\ LexInv
  BY SelectInitInv, LexInitInv DEF Init
<1>2. SelectInv /\ LexInv /\ [SelectNext]_vars => (SelectInv /\ LexInv)'
  BY SelectNextInv, LexStep
<1>3. SelectInv /\ LexInv =>
        (Balanced <=> BracketsNest(jsons, nav_size) /\ Depth(jsons, nav_size) = 0)
  <2> SUFFICES ASSUME LexInv
               PROVE  Balanced <=> BracketsNest(jsons, nav_size) /\ Depth(jsons, nav_size) = 0
    OBVIOUS
  <2>1. (\A k \in DOMAIN excess : excess[k] >= 0) <=> BracketsNest(jsons, nav_size)
    BY BalancedNests, NestsBalanced
  <2>2. excess[Len(excess)] = 2 * Depth(jsons, nav_size)
    BY DEF LexInv, ExcessIsDepth
  <2>3. Depth(jsons, nav_size) \in Int
    BY DepthInt DEF LexInv, BuildInv, BuildTypeOK
  <2>4. excess[Len(excess)] = 0 <=> Depth(jsons, nav_size) = 0
    BY <2>2, <2>3
  <2> QED
    BY <2>1, <2>4 DEF Balanced
<1> QED
  BY <1>1, <1>2, <1>3, PTL DEF Spec

=============================================================================
