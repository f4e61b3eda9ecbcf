---------------------------- MODULE LexingProofs ----------------------------
(***************************************************************************)
(* Proofs that the constructor finds the literals and the nesting of any   *)
(* text: its one-pass scan with a flag agrees with the reference of        *)
(* JsonText, for every set of collections.                                 *)
(***************************************************************************)
EXTENDS SemiIndexBuildProofs, NumberFacts, FiniteSetTheorems

-----------------------------------------------------------------------------
(* The reference.  LiteralAt is a recursive function; that one with its    *)
(* equation exists is shown for ever longer prefixes of the text.          *)
LiteralsUpTo(c, n, f) ==
  f = [p \in 0 .. n |-> IF p = 0 THEN 0 ELSE LiteralFrom(c, f[p - 1], p)]

LEMMA LiteralsExtend ==
  ASSUME NEW c, NEW n \in Nat, NEW f, LiteralsUpTo(c, n, f)
  PROVE  \E g : LiteralsUpTo(c, n + 1, g)
<1> DEFINE g == [p \in 0 .. n + 1 |-> IF p = n + 1 THEN LiteralFrom(c, f[n], n + 1) ELSE f[p]]
           h == [p \in 0 .. n + 1 |-> IF p = 0 THEN 0 ELSE LiteralFrom(c, g[p - 1], p)]
<1>1. ASSUME NEW p \in 0 .. n PROVE f[p] = IF p = 0 THEN 0 ELSE LiteralFrom(c, f[p - 1], p)
  BY DEF LiteralsUpTo
<1>2. ASSUME NEW p \in 0 .. n + 1 PROVE g[p] = h[p]
  <2>1. CASE p = n + 1
    <3>1. p # 0 /\ p - 1 = n /\ n \in 0 .. n + 1 /\ n # n + 1
      BY <2>1
    <3>2. g[n] = f[n] /\ g[n + 1] = LiteralFrom(c, f[n], n + 1)
      BY <3>1
    <3>3. h[p] = LiteralFrom(c, g[n], p)
      BY <3>1
    <3> QED
      BY <2>1, <3>2, <3>3
  <2>2. CASE p = 0
    BY <1>1, <2>2
  <2>3. CASE p \in 1 .. n
    <3>1. p # 0 /\ p - 1 \in 0 .. n + 1 /\ p - 1 # n + 1 /\ p # n + 1 /\ p \in 0 .. n
      BY <2>3
    <3>2. g[p] = f[p] /\ g[p - 1] = f[p - 1]
      BY <3>1
    <3>3. h[p] = LiteralFrom(c, g[p - 1], p)
      BY <3>1
    <3> QED
      BY <1>1, <3>1, <3>2, <3>3
  <2> QED
    BY <2>1, <2>2, <2>3
<1>3. g = h
  <2> HIDE DEF g, h
  <2>1. g = [p \in 0 .. n + 1 |-> g[p]] /\ h = [p \in 0 .. n + 1 |-> h[p]]
    BY DEF g, h
  <2> QED
    BY <1>2, <2>1
<1>4. LiteralsUpTo(c, n + 1, g)
  BY <1>3 DEF LiteralsUpTo
<1> QED
  BY <1>4

LEMMA LiteralsExist ==
  ASSUME NEW c, NEW n \in Nat
  PROVE  \E f : LiteralsUpTo(c, n, f)
<1> DEFINE T == {m \in Nat : ~ \E f : LiteralsUpTo(c, m, f)}
<1> SUFFICES ASSUME T # {} PROVE FALSE
  OBVIOUS
<1>1. PICK m \in T : \A k \in T : m <= k
  <2>1. T \subseteq Nat
    OBVIOUS
  <2> HIDE DEF T
  <2> QED
    BY <2>1, LeastExists
<1>2. CASE m = 0
  <2>1. LiteralsUpTo(c, 0, [p \in 0 .. 0 |-> 0])
    BY DEF LiteralsUpTo
  <2> QED
    BY <1>1, <1>2, <2>1
<1>3. CASE m # 0
  <2>1. m - 1 \in Nat /\ ~ (m <= m - 1) /\ (m - 1) + 1 = m
    BY <1>1, <1>3
  <2>2. PICK f : LiteralsUpTo(c, m - 1, f)
    BY <1>1, <2>1
  <2>3. \E g : LiteralsUpTo(c, (m - 1) + 1, g)
    BY <2>1, <2>2, LiteralsExtend
  <2> QED
    BY <1>1, <2>1, <2>3
<1> QED
  BY <1>2, <1>3

(* The equation of the reference, one character at a time.                 *)
LEMMA LiteralAtStep ==
  ASSUME NEW c, Len(c.text) \in Nat
  PROVE  /\ LiteralAt(c)[0] = 0
         /\ \A p \in 1 .. Len(c.text) :
              LiteralAt(c)[p] = LiteralFrom(c, LiteralAt(c)[p - 1], p)
<1> DEFINE n == Len(c.text)
           at == CHOOSE f : LiteralsUpTo(c, n, f)
<1>1. LiteralAt(c) = at
  BY DEF LiteralAt, LiteralsUpTo
<1>2. LiteralsUpTo(c, n, at)
  BY LiteralsExist
<1> HIDE DEF at
<1>3. \A p \in 0 .. n : at[p] = IF p = 0 THEN 0 ELSE LiteralFrom(c, at[p - 1], p)
  BY <1>2 DEF LiteralsUpTo
<1> QED
  BY <1>1, <1>3

(* The flag of the scan computes the parity of a run of backslashes.       *)
LEMMA EscapedFirst ==
  ASSUME NEW t, NEW a \in Nat
  PROVE  ~EscapedAt(t, a, a + 1)
  BY DEF EscapedAt

LEMMA EscapedNext ==
  ASSUME NEW t, NEW a \in Nat, NEW p \in Nat, p > a
  PROVE  EscapedAt(t, a, p + 1) <=> (~EscapedAt(t, a, p) /\ t[p] = Backslash)
<1>1. ASSUME EscapedAt(t, a, p + 1) PROVE ~EscapedAt(t, a, p) /\ t[p] = Backslash
  <2>1. PICK k \in a + 1 .. (p + 1) - 1 :
          /\ ((p + 1) - k) % 2 = 1
          /\ \A m \in k .. (p + 1) - 1 : t[m] = Backslash
          /\ k > a + 1 => t[k - 1] # Backslash
    BY <1>1 DEF EscapedAt
  <2>2. k \in a + 1 .. p /\ p \in k .. (p + 1) - 1
    BY <2>1
  <2>3. ASSUME EscapedAt(t, a, p) PROVE FALSE
    <3>1. PICK l \in a + 1 .. p - 1 :
            /\ (p - l) % 2 = 1
            /\ \A m \in l .. p - 1 : t[m] = Backslash
            /\ l > a + 1 => t[l - 1] # Backslash
      BY <2>3 DEF EscapedAt
    <3>2. CASE k = l
      BY <2>1, <3>1, <3>2
    <3>3. CASE k < l
      <4>1. l > a + 1 /\ l - 1 \in k .. (p + 1) - 1
        BY <2>2, <3>1, <3>3
      <4> QED
        BY <2>1, <3>1, <4>1
    <3>4. CASE l < k
      <4>1. k > a + 1 /\ k - 1 \in l .. p - 1
        BY <2>2, <3>1, <3>4
      <4> QED
        BY <2>1, <3>1, <4>1
    <3> QED
      BY <2>2, <3>1, <3>2, <3>3, <3>4
  <2> QED
    BY <2>1, <2>2, <2>3
<1>2. ASSUME ~EscapedAt(t, a, p), t[p] = Backslash PROVE EscapedAt(t, a, p + 1)
  <2> DEFINE T == {k \in a + 1 .. p : \A m \in k .. p : t[m] = Backslash}
  <2>1. T \subseteq Nat /\ p \in T
    BY <1>2
  <2>2. PICK k \in T : \A l \in T : k <= l
    <3> HIDE DEF T
    <3> QED
      BY <2>1, LeastExists
  <2>3. k \in a + 1 .. p /\ \A m \in k .. p : t[m] = Backslash
    BY <2>2
  <2>4. ASSUME k > a + 1 PROVE t[k - 1] # Backslash
    <3>1. k - 1 \in a + 1 .. p /\ ~ (k <= k - 1)
      BY <2>3, <2>4
    <3>2. k - 1 \notin T
      BY <2>2, <3>1
    <3>3. PICK m \in k - 1 .. p : t[m] # Backslash
      BY <3>1, <3>2
    <3>4. m \notin k .. p
      BY <2>3, <3>3
    <3> QED
      BY <2>3, <3>3, <3>4
  <2> HIDE DEF T
  <2>5. CASE (p - k) % 2 = 1
    <3>1. k \in a + 1 .. p - 1
      BY <2>3, <2>5
    <3>2. \A m \in k .. p - 1 : t[m] = Backslash
      BY <2>3
    <3>3. EscapedAt(t, a, p)
      BY <2>4, <2>5, <3>1, <3>2 DEF EscapedAt
    <3> QED
      BY <1>2, <3>3
  <2>6. CASE (p - k) % 2 # 1
    <3>1. ((p + 1) - k) % 2 = 1 /\ k \in a + 1 .. (p + 1) - 1
      BY <2>3, <2>6
    <3>2. \A m \in k .. (p + 1) - 1 : t[m] = Backslash
      BY <2>3
    <3> QED
      BY <2>4, <3>1, <3>2 DEF EscapedAt
  <2> QED
    BY <2>5, <2>6
<1> QED
  BY <1>1, <1>2

(* Documents lie one after the other.                                      *)
LEMMA EndsSorted ==
  ASSUME NEW c, IsCollection(c), NEW i \in DOMAIN c.ends, NEW j \in DOMAIN c.ends, i <= j
  PROVE  c.ends[i] <= c.ends[j]
<1> DEFINE T == {k \in Nat : k \in DOMAIN c.ends /\ i <= k /\ ~ (c.ends[i] <= c.ends[k])}
<1>0. /\ Len(c.ends) \in Nat /\ DOMAIN c.ends = 1 .. Len(c.ends)
      /\ \A k \in 1 .. Len(c.ends) : c.ends[k] \in Nat
      /\ \A k \in 1 .. Len(c.ends) : k > 1 => c.ends[k - 1] <= c.ends[k]
  BY DEF IsCollection
<1> SUFFICES ASSUME T # {} PROVE FALSE
  BY <1>0
<1>1. PICK k \in T : \A l \in T : k <= l
  <2>1. T \subseteq Nat
    OBVIOUS
  <2> HIDE DEF T
  <2> QED
    BY <2>1, LeastExists
<1>2. /\ k \in 1 .. Len(c.ends) /\ i \in 1 .. Len(c.ends) /\ i <= k
      /\ ~ (c.ends[i] <= c.ends[k])
  BY <1>0, <1>1
<1>3. k # i
  BY <1>0, <1>2
<1>4. k - 1 \in 1 .. Len(c.ends) /\ i <= k - 1 /\ ~ (k <= k - 1) /\ k > 1
  BY <1>2, <1>3
<1>5. k - 1 \notin T
  BY <1>1, <1>4
<1>6. c.ends[i] <= c.ends[k - 1]
  BY <1>0, <1>4, <1>5
<1>7. c.ends[k - 1] <= c.ends[k]
  BY <1>0, <1>2, <1>4
<1>8. c.ends[i] \in Nat /\ c.ends[k - 1] \in Nat /\ c.ends[k] \in Nat
  BY <1>0, <1>2, <1>4
<1> QED
  BY <1>2, <1>6, <1>7, <1>8

(* What one character, and a literal, add to the characters outside.       *)
LEMMA OutsideNext ==
  ASSUME NEW c, NEW chars, NEW p \in Nat
  PROVE  Outside(c, chars, p + 1)
           = Outside(c, chars, p)
               \cup IF c.text[p + 1] \in chars /\ LiteralAt(c)[p + 1] = 0 THEN {p + 1} ELSE {}
<1>1. 1 .. p + 1 = (1 .. p) \cup {p + 1}
  OBVIOUS
<1> QED
  BY <1>1 DEF Outside

LEMMA OutsideLiteral ==
  ASSUME NEW c, NEW chars, NEW p \in Nat, NEW r \in Nat, p <= r,
         \A q \in p + 1 .. r : LiteralAt(c)[q] # 0
  PROVE  Outside(c, chars, r) = Outside(c, chars, p)
<1>1. ASSUME NEW q \in 1 .. r, LiteralAt(c)[q] = 0 PROVE q \in 1 .. p
  <2>1. q \notin p + 1 .. r
    BY <1>1
  <2> QED
    BY <2>1
<1>2. 1 .. p \subseteq 1 .. r
  OBVIOUS
<1> QED
  BY <1>1, <1>2 DEF Outside

LEMMA OutsideFinite ==
  ASSUME NEW c, NEW chars, NEW p \in Nat
  PROVE  /\ IsFiniteSet(Outside(c, chars, p)) /\ Cardinality(Outside(c, chars, p)) \in Nat
         /\ p + 1 \notin Outside(c, chars, p)
<1>1. IsFiniteSet(1 .. p)
  BY FS_Interval
<1>2. Outside(c, chars, p) \subseteq 1 .. p
  BY DEF Outside
<1>3. p + 1 \notin 1 .. p
  OBVIOUS
<1> QED
  BY <1>1, <1>2, <1>3, FS_Subset, FS_CardinalityType

LEMMA CountNext ==
  ASSUME NEW c, NEW chars, NEW p \in Nat
  PROVE  Cardinality(Outside(c, chars, p + 1))
           = Cardinality(Outside(c, chars, p))
               + IF c.text[p + 1] \in chars /\ LiteralAt(c)[p + 1] = 0 THEN 1 ELSE 0
<1> DEFINE O == Outside(c, chars, p)
<1>1. IsFiniteSet(O) /\ Cardinality(O) \in Nat /\ p + 1 \notin O
  BY OutsideFinite
<1>2. CASE c.text[p + 1] \in chars /\ LiteralAt(c)[p + 1] = 0
  <2>1. Outside(c, chars, p + 1) = O \cup {p + 1}
    BY <1>2, OutsideNext
  <2> HIDE DEF O
  <2>2. Cardinality(O \cup {p + 1}) = Cardinality(O) + 1
    BY <1>1, FS_AddElement
  <2> QED
    BY <1>2, <2>1, <2>2 DEF O
<1>3. CASE ~ (c.text[p + 1] \in chars /\ LiteralAt(c)[p + 1] = 0)
  <2>1. Outside(c, chars, p + 1) = O \cup {}
    BY <1>3, OutsideNext
  <2> HIDE DEF O
  <2>2. O \cup {} = O
    OBVIOUS
  <2> QED
    BY <1>1, <1>3, <2>1, <2>2 DEF O
<1> QED
  BY <1>2, <1>3

LEMMA DepthInt ==
  ASSUME NEW c, NEW p \in Nat
  PROVE  Depth(c, p) \in Int
  BY OutsideFinite DEF Depth

LEMMA DepthNext ==
  ASSUME NEW c, NEW p \in Nat, LiteralAt(c)[p + 1] = 0
  PROVE  Depth(c, p + 1)
           = Depth(c, p) + (IF c.text[p + 1] \in Opening THEN 1
                            ELSE IF c.text[p + 1] \in Closing THEN -1 ELSE 0)
<1>1. Cardinality(Outside(c, Opening, p)) \in Nat /\ Cardinality(Outside(c, Closing, p)) \in Nat
  BY OutsideFinite
<1>2. Cardinality(Outside(c, Opening, p + 1))
        = Cardinality(Outside(c, Opening, p)) + IF c.text[p + 1] \in Opening THEN 1 ELSE 0
  BY CountNext
<1>3. Cardinality(Outside(c, Closing, p + 1))
        = Cardinality(Outside(c, Closing, p)) + IF c.text[p + 1] \in Closing THEN 1 ELSE 0
  BY CountNext
<1>4. ~ (c.text[p + 1] \in Opening /\ c.text[p + 1] \in Closing)
  BY DEF Opening, Closing
<1> QED
  BY <1>1, <1>2, <1>3, <1>4 DEF Depth

LEMMA DepthZero ==
  ASSUME NEW c
  PROVE  Depth(c, 0) = 0
<1>1. Outside(c, Opening, 0) = {} /\ Outside(c, Closing, 0) = {}
  BY DEF Outside
<1>2. Cardinality({}) = 0
  BY FS_EmptySet
<1> QED
  BY <1>1, <1>2 DEF Depth

LEMMA DepthLiteral ==
  ASSUME NEW c, NEW p \in Nat, NEW r \in Nat, p <= r,
         \A q \in p + 1 .. r : LiteralAt(c)[q] # 0
  PROVE  Depth(c, r) = Depth(c, p)
  BY OutsideLiteral DEF Depth

-----------------------------------------------------------------------------
(* The invariant.  Between two literals the scan agrees with the reference *)
(* that none is open; in one, that everything from its quote on belongs to *)
(* it, that nothing has ended it, and that the flag is the parity of the   *)
(* backslashes just read.  The documents passed end before the literal.    *)
InLiteral == pc \in {"string", "threw"}

BetweenLiterals ==
  ~InLiteral => ~LiteralOpen(jsons, json) /\ (pc = "scan" => ~escaped)

LiteralRead ==
  InLiteral =>
    /\ \A q \in first + 1 .. json :
         LiteralAt(jsons)[q] = first + 1 /\ ~EndsLiteral(jsons.text, first + 1, q)
    /\ pc = "string" => (escaped <=> EscapedAt(jsons.text, first + 1, json + 1))

DocumentsPassed ==
  /\ \A d \in DOMAIN jsons.ends : d < s =>
       /\ jsons.ends[d] <= IF InLiteral THEN first ELSE json
       /\ ~LiteralOpen(jsons, jsons.ends[d])
  /\ pc = "threw" => s \in DOMAIN jsons.ends /\ json = jsons.ends[s]
  /\ pc = "built" => s > Len(jsons.ends)

(* What ParensFollowBrackets says of the whole of bp, for every prefix     *)
(* that ends between two pairs.                                            *)
ExcessIsDepth ==
  /\ excess[Len(excess)] = 2 * Depth(jsons, nav_size)
  /\ \A i \in 1 .. Len(nav) : excess[2 * i - 1] = 2 * Depth(jsons, nav[i])

LexInv ==
  /\ BuildInv /\ ScanBounded
  /\ BetweenLiterals /\ LiteralRead /\ DocumentsPassed
  /\ NavMarksOutside /\ ExcessIsDepth

LEMMA LexFacts ==
  ASSUME LexInv
  PROVE  /\ IsCollection(jsons) /\ Len(jsons.text) \in Nat /\ Len(jsons.ends) \in Nat
         /\ DOMAIN jsons.ends = 1 .. Len(jsons.ends)
         /\ \A d \in DOMAIN jsons.ends : jsons.ends[d] \in Nat /\ jsons.ends[d] <= Len(jsons.text)
         /\ s \in Nat \ {0} /\ json \in Nat /\ first \in Nat
         /\ nav_size \in Nat
         /\ ~InLiteral => nav_size = json
         /\ InLiteral => nav_size = first /\ first < json
         /\ pc = "scan" => ~InLiteral
         /\ pc = "string" => InLiteral
<1>1. BuildTypeOK /\ NavAligned
  BY DEF LexInv, BuildInv
<1>2. IsCollection(jsons)
  BY <1>1 DEF BuildTypeOK
<1>3. /\ Len(jsons.text) \in Nat /\ Len(jsons.ends) \in Nat
      /\ DOMAIN jsons.ends = 1 .. Len(jsons.ends)
      /\ \A d \in DOMAIN jsons.ends : jsons.ends[d] \in Nat /\ jsons.ends[d] <= Len(jsons.text)
  BY <1>2 DEF IsCollection
<1>4. ~InLiteral => pc \in {"scan", "built"}
  BY <1>1 DEF InLiteral, BuildTypeOK
<1> QED
  BY <1>1, <1>2, <1>3, <1>4 DEF BuildTypeOK, NavAligned, InLiteral

(* The character about to be read, outside a literal and in one.           *)
LEMMA PlainChar ==
  ASSUME LexInv, Scanning
  PROVE  /\ json + 1 \in 1 .. Len(jsons.text)
         /\ LiteralAt(jsons)[json + 1] = IF char = Quote THEN json + 1 ELSE 0
<1>1. s \in DOMAIN jsons.ends /\ json < jsons.ends[s] /\ pc = "scan"
  BY LexFacts DEF Scanning, json_end
<1>2. json + 1 \in 1 .. Len(jsons.text) /\ (json + 1) - 1 = json
  BY <1>1, LexFacts
<1>3. LiteralAt(jsons)[json + 1] = LiteralFrom(jsons, LiteralAt(jsons)[json], json + 1)
  BY <1>2, LexFacts, LiteralAtStep
<1>4. ~LiteralOpen(jsons, json)
  BY <1>1 DEF LexInv, BetweenLiterals, InLiteral
<1>5. ~ (LiteralAt(jsons)[json] # 0 /\ ~EndsLiteral(jsons.text, LiteralAt(jsons)[json], json))
  BY <1>4 DEF LiteralOpen
<1>6. LiteralFrom(jsons, LiteralAt(jsons)[json], json + 1)
        = IF jsons.text[json + 1] = Quote THEN json + 1 ELSE 0
  BY <1>2, <1>5 DEF LiteralFrom
<1> QED
  BY <1>2, <1>3, <1>6 DEF char

LEMMA LiteralChars ==
  ASSUME LexInv, pc = "string", json < json_end
  PROVE  /\ json + 1 \in 1 .. Len(jsons.text)
         /\ LiteralAt(jsons)[json + 1] = first + 1
<1>1. s \in DOMAIN jsons.ends /\ json < jsons.ends[s]
  BY LexFacts DEF LexInv, ScanBounded, json_end
<1>2. json + 1 \in 1 .. Len(jsons.text) /\ (json + 1) - 1 = json
  BY <1>1, LexFacts
<1>3. LiteralAt(jsons)[json + 1] = LiteralFrom(jsons, LiteralAt(jsons)[json], json + 1)
  BY <1>2, LexFacts, LiteralAtStep
<1>4. first < json /\ json \in first + 1 .. json /\ InLiteral
  BY LexFacts
<1>5. LiteralAt(jsons)[json] = first + 1 /\ ~EndsLiteral(jsons.text, first + 1, json)
  BY <1>4 DEF LexInv, LiteralRead
<1>6. ASSUME EndsDocument(jsons, json) PROVE FALSE
  <2>1. PICK d \in DOMAIN jsons.ends : json = jsons.ends[d]
    BY <1>6 DEF EndsDocument
  <2>2. CASE d < s
    <3>1. jsons.ends[d] <= first
      BY <1>4, <2>1, <2>2 DEF LexInv, DocumentsPassed
    <3> QED
      BY <1>4, <2>1, <3>1, LexFacts
  <2>3. CASE s <= d
    <3>1. jsons.ends[s] <= jsons.ends[d]
      BY <1>1, <2>1, <2>3, LexFacts, EndsSorted
    <3> QED
      BY <1>1, <2>1, <3>1, LexFacts
  <2> QED
    BY <2>1, <2>2, <2>3, <1>1, LexFacts
<1>7. first + 1 # 0
  BY LexFacts
<1> QED
  BY <1>2, <1>3, <1>5, <1>6, <1>7 DEF LiteralFrom

(* Steps outside literals that stay outside.                               *)
LEMMA ScanLexed ==
  ASSUME LexInv, Scanning, char # Quote, json' = json + 1,
         UNCHANGED <<jsons, s, first, escaped, pc>>
  PROVE  BetweenLiterals' /\ LiteralRead' /\ DocumentsPassed'
<1>1. pc = "scan" /\ pc' = "scan" /\ ~InLiteral /\ ~InLiteral'
  BY DEF Scanning, InLiteral
<1>2. LiteralAt(jsons)[json + 1] = 0
  BY PlainChar
<1>3. ~LiteralOpen(jsons, json + 1)
  BY <1>2 DEF LiteralOpen
<1>4. ~escaped
  BY <1>1 DEF LexInv, BetweenLiterals
<1>5. BetweenLiterals'
  BY <1>3, <1>4 DEF BetweenLiterals
<1>6. LiteralRead'
  BY <1>1 DEF LiteralRead
<1>7. DocumentsPassed'
  <2>1. ASSUME NEW d \in DOMAIN jsons.ends, d < s
        PROVE  jsons.ends[d] <= json + 1 /\ ~LiteralOpen(jsons, jsons.ends[d])
    <3>1. jsons.ends[d] <= json /\ ~LiteralOpen(jsons, jsons.ends[d])
      BY <1>1, <2>1 DEF LexInv, DocumentsPassed
    <3> QED
      BY <3>1, LexFacts
  <2> QED
    BY <1>1, <2>1 DEF DocumentsPassed
<1> QED
  BY <1>5, <1>6, <1>7

(* The three structural cases of the switch: one more character outside,   *)
(* and an excess that follows the depth.                                   *)
LEMMA PushLexed ==
  ASSUME LexInv, Scanning, char # Quote, NEW p \in {0, 1}, NEW q \in {0, 1},
         PushStructural(p, q),
         char \in Opening \cup Closing \cup Separating,
         p = (IF char \in Opening THEN 1 ELSE 0),
         q = (IF char \in Closing THEN 0 ELSE 1)
  PROVE  NavMarksOutside' /\ ExcessIsDepth'
<1>0. /\ nav \in Seq(Nat) /\ excess \in Seq(Int) /\ Len(nav) \in Nat
      /\ Len(bp) = 2 * Len(nav) /\ Len(excess) = Len(bp) + 1
      /\ nav_size = json /\ json \in Nat /\ jsons' = jsons /\ nav_size' = json + 1
      /\ \A i \in 1 .. Len(nav) : nav[i] \in Nat
  <2>1. pc = "scan"
    BY DEF Scanning
  <2>2. nav_size = json /\ json \in Nat
    BY <2>1, LexFacts
  <2>3. jsons' = jsons /\ nav_size' = json + 1
    BY <2>2 DEF PushStructural
  <2>4. nav \in Seq(Nat) /\ excess \in Seq(Int)
    BY DEF LexInv, BuildInv, BuildTypeOK
  <2>5. Len(bp) = 2 * Len(nav) /\ Len(excess) = Len(bp) + 1
    BY DEF LexInv, BuildInv, NavMarksStructure, ExcessShape
  <2> QED
    BY <2>2, <2>3, <2>4, <2>5
<1> DEFINE e == excess[Len(excess)] + Weight(p)
<1>w. Weight(p) \in {-1, 1} /\ Weight(q) \in {-1, 1} /\ e \in Int /\ e + Weight(q) \in Int
  <2>1. Weight(p) \in {-1, 1} /\ Weight(q) \in {-1, 1}
    BY DEF Weight
  <2>2. excess[Len(excess)] \in Int
    BY <1>0
  <2> QED
    BY <2>1, <2>2
<1>1. nav' = Append(nav, nav_size) /\ excess' = Append(Append(excess, e), e + Weight(q))
  BY DEF PushStructural
<1>2. /\ nav' \in Seq(Nat) /\ Len(nav') = Len(nav) + 1
      /\ \A k \in 1 .. Len(nav) : nav'[k] = nav[k]
      /\ nav'[Len(nav) + 1] = json
  BY <1>0, <1>1, AppendOne
<1> HIDE DEF e
<1>3. /\ Len(excess') = Len(excess) + 2
      /\ \A k \in 1 .. Len(excess) : excess'[k] = excess[k]
      /\ excess'[Len(excess) + 2] = e + Weight(q)
  BY <1>0, <1>1, <1>w, AppendTwo
<1>4. LiteralAt(jsons)[json + 1] = 0 /\ char = jsons.text[json + 1]
  BY PlainChar DEF char
<1>5. NavMarksOutside'
  <2> DEFINE S == Opening \cup Closing \cup Separating
  <2>1. Outside(jsons, S, json + 1) = Outside(jsons, S, json) \cup {json + 1}
    BY <1>0, <1>4, OutsideNext
  <2>2. {nav[i] + 1 : i \in DOMAIN nav} = Outside(jsons, S, json)
    BY <1>0 DEF LexInv, NavMarksOutside
  <2>3. {nav'[i] + 1 : i \in DOMAIN nav'} = {nav[i] + 1 : i \in DOMAIN nav} \cup {json + 1}
    <3>1. DOMAIN nav' = 1 .. Len(nav) + 1 /\ DOMAIN nav = 1 .. Len(nav)
      BY <1>0, <1>2
    <3>2. 1 .. Len(nav) + 1 = (1 .. Len(nav)) \cup {Len(nav) + 1}
      BY <1>0
    <3> QED
      BY <1>2, <3>1, <3>2
  <2> HIDE DEF S
  <2>4. {nav'[i] + 1 : i \in DOMAIN nav'} = Outside(jsons', S, nav_size')
    BY <1>0, <2>1, <2>2, <2>3
  <2> QED
    BY <2>4 DEF NavMarksOutside, S
<1>6. ExcessIsDepth'
  <2>0. Depth(jsons, json) \in Int /\ excess[Len(excess)] = 2 * Depth(jsons, json)
    BY <1>0, DepthInt DEF LexInv, ExcessIsDepth
  <2>1. Depth(jsons, json + 1)
          = Depth(jsons, json) + (IF char \in Opening THEN 1
                                  ELSE IF char \in Closing THEN -1 ELSE 0)
    BY <1>0, <1>4, DepthNext
  <2>2. Weight(p) + Weight(q) = 2 * (IF char \in Opening THEN 1
                                     ELSE IF char \in Closing THEN -1 ELSE 0)
    <3>1. ~ (char \in Opening /\ char \in Closing)
      BY DEF Opening, Closing
    <3> QED
      BY <3>1 DEF Weight
  <2>3. e + Weight(q) = 2 * Depth(jsons, json + 1)
    BY <1>w, <2>0, <2>1, <2>2 DEF e
  <2>4. excess'[Len(excess')] = 2 * Depth(jsons', nav_size')
    BY <1>0, <1>3, <2>3
  <2>5. ASSUME NEW i \in 1 .. Len(nav')
        PROVE  excess'[2 * i - 1] = 2 * Depth(jsons', nav'[i])
    <3>1. CASE i = Len(nav) + 1
      <4>1. 2 * i - 1 = Len(excess) /\ Len(excess) \in 1 .. Len(excess)
        BY <1>0, <3>1
      <4>2. excess'[2 * i - 1] = excess[Len(excess)]
        BY <1>3, <4>1
      <4> QED
        BY <1>0, <1>2, <2>0, <3>1, <4>2
    <3>2. CASE i \in 1 .. Len(nav)
      <4>1. 2 * i - 1 \in 1 .. Len(excess)
        BY <1>0, <3>2
      <4>2. excess'[2 * i - 1] = excess[2 * i - 1] /\ nav'[i] = nav[i]
        BY <1>2, <1>3, <3>2, <4>1
      <4>3. excess[2 * i - 1] = 2 * Depth(jsons, nav[i])
        BY <3>2 DEF LexInv, ExcessIsDepth
      <4> QED
        BY <1>0, <4>2, <4>3
    <3> QED
      BY <1>0, <1>2, <3>1, <3>2
  <2> QED
    BY <2>4, <2>5 DEF ExcessIsDepth
<1> QED
  BY <1>5, <1>6

(* Steps that push nothing.                                                *)
LEMMA VectorsLexed ==
  ASSUME LexInv, UNCHANGED <<jsons, nav, nav_size, bp, excess>>
  PROVE  NavMarksOutside' /\ ExcessIsDepth'
  BY DEF LexInv, NavMarksOutside, ExcessIsDepth

(* Steps that push zeros, over characters of which none is structural and  *)
(* outside.                                                                *)
LEMMA ZerosLexed ==
  ASSUME LexInv, UNCHANGED <<jsons, nav, bp, excess>>, nav_size' \in Nat,
         \A chars \in {Opening, Closing, Opening \cup Closing \cup Separating} :
           Outside(jsons, chars, nav_size') = Outside(jsons, chars, nav_size)
  PROVE  NavMarksOutside' /\ ExcessIsDepth'
<1>1. NavMarksOutside'
  BY DEF LexInv, NavMarksOutside
<1>2. Depth(jsons, nav_size') = Depth(jsons, nav_size)
  BY DEF Depth
<1>3. ExcessIsDepth'
  BY <1>2 DEF LexInv, ExcessIsDepth
<1> QED
  BY <1>1, <1>3

LEMMA OpenQuoteLexed ==
  ASSUME LexInv, OpenQuote
  PROVE  BetweenLiterals' /\ LiteralRead' /\ DocumentsPassed'
<1>1. /\ Scanning /\ char = Quote /\ pc = "scan" /\ ~InLiteral
      /\ first' = json /\ json' = json + 1 /\ pc' = "string"
      /\ jsons' = jsons /\ s' = s /\ escaped' = escaped
  BY DEF OpenQuote, Scanning, InLiteral
<1>2. InLiteral'
  BY <1>1 DEF InLiteral
<1>3. BetweenLiterals'
  BY <1>2 DEF BetweenLiterals
<1>4. LiteralRead'
  <2>1. LiteralAt(jsons)[json + 1] = json + 1
    BY <1>1, PlainChar
  <2>2. json \in Nat
    BY LexFacts
  <2>3. ~EndsLiteral(jsons.text, json + 1, json + 1)
    BY <2>2 DEF EndsLiteral
  <2>4. \A q \in json + 1 .. json + 1 :
          LiteralAt(jsons)[q] = json + 1 /\ ~EndsLiteral(jsons.text, json + 1, q)
    <3>1. \A q \in json + 1 .. json + 1 : q = json + 1
      BY <2>2
    <3> QED
      BY <2>1, <2>3, <3>1
  <2>5. ~EscapedAt(jsons.text, json + 1, (json + 1) + 1)
    <3>1. json + 1 \in Nat
      BY <2>2
    <3> QED
      BY <3>1, EscapedFirst
  <2>6. ~escaped
    BY <1>1 DEF LexInv, BetweenLiterals
  <2> QED
    BY <1>1, <2>4, <2>5, <2>6 DEF LiteralRead
<1>5. DocumentsPassed'
  <2>1. \A d \in DOMAIN jsons.ends : d < s =>
          jsons.ends[d] <= json /\ ~LiteralOpen(jsons, jsons.ends[d])
    BY <1>1 DEF LexInv, DocumentsPassed
  <2> QED
    BY <1>1, <1>2, <2>1 DEF DocumentsPassed
<1> QED
  BY <1>3, <1>4, <1>5

LEMMA LiteralCharLexed ==
  ASSUME LexInv, LiteralChar
  PROVE  BetweenLiterals' /\ LiteralRead' /\ DocumentsPassed'
<1>1. /\ pc = "string" /\ json < json_end /\ (escaped \/ char # Quote)
      /\ json' = json + 1 /\ pc' = "string"
      /\ jsons' = jsons /\ s' = s /\ first' = first
  BY DEF LiteralChar
<1>2. escaped' <=> (~escaped /\ char = Backslash)
  BY Zenon DEF LiteralChar
<1>3. InLiteral /\ InLiteral'
  BY <1>1 DEF InLiteral
<1>4. BetweenLiterals'
  BY <1>3 DEF BetweenLiterals
<1>5. /\ json \in Nat /\ first \in Nat /\ first < json
      /\ LiteralAt(jsons)[json + 1] = first + 1
  BY <1>1, LexFacts, LiteralChars
<1>6. escaped <=> EscapedAt(jsons.text, first + 1, json + 1)
  BY <1>1, <1>3 DEF LexInv, LiteralRead
<1>7. ~EndsLiteral(jsons.text, first + 1, json + 1)
  BY <1>1, <1>6 DEF EndsLiteral, char
<1>8. EscapedAt(jsons.text, first + 1, (json + 1) + 1)
        <=> (~EscapedAt(jsons.text, first + 1, json + 1) /\ jsons.text[json + 1] = Backslash)
  <2>1. first + 1 \in Nat /\ json + 1 \in Nat /\ json + 1 > first + 1
    BY <1>5
  <2> QED
    BY <2>1, EscapedNext
<1>9. escaped' <=> EscapedAt(jsons.text, first + 1, (json + 1) + 1)
  BY <1>2, <1>6, <1>8, Zenon DEF char
<1>10. \A q \in first + 1 .. json + 1 :
         LiteralAt(jsons)[q] = first + 1 /\ ~EndsLiteral(jsons.text, first + 1, q)
  <2>1. \A q \in first + 1 .. json :
          LiteralAt(jsons)[q] = first + 1 /\ ~EndsLiteral(jsons.text, first + 1, q)
    BY <1>3 DEF LexInv, LiteralRead
  <2>2. \A q \in first + 1 .. json + 1 : q \in first + 1 .. json \/ q = json + 1
    BY <1>5
  <2> QED
    BY <1>5, <1>7, <2>1, <2>2
<1>11. LiteralRead'
  BY <1>1, <1>9, <1>10 DEF LiteralRead
<1>12. DocumentsPassed'
  <2>1. \A d \in DOMAIN jsons.ends : d < s =>
          jsons.ends[d] <= first /\ ~LiteralOpen(jsons, jsons.ends[d])
    BY <1>3 DEF LexInv, DocumentsPassed
  <2> QED
    BY <1>1, <1>3, <2>1 DEF DocumentsPassed
<1> QED
  BY <1>4, <1>11, <1>12

LEMMA CloseQuoteLexed ==
  ASSUME LexInv, CloseQuote
  PROVE  /\ BetweenLiterals' /\ LiteralRead' /\ DocumentsPassed'
         /\ NavMarksOutside' /\ ExcessIsDepth'
<1>1. /\ pc = "string" /\ json < json_end /\ ~escaped /\ char = Quote
      /\ json' = json + 1 /\ pc' = "scan"
      /\ jsons' = jsons /\ s' = s /\ first' = first /\ escaped' = escaped
      /\ nav' = nav /\ bp' = bp /\ excess' = excess
      /\ nav_size' = nav_size + (json - first + 1)
  BY DEF CloseQuote
<1>2. InLiteral /\ ~InLiteral'
  BY <1>1 DEF InLiteral
<1>3. /\ json \in Nat /\ first \in Nat /\ first < json /\ nav_size = first
      /\ LiteralAt(jsons)[json + 1] = first + 1
  BY <1>1, <1>2, LexFacts, LiteralChars
<1>4. ~EscapedAt(jsons.text, first + 1, json + 1)
  BY <1>1, <1>2 DEF LexInv, LiteralRead
<1>5. EndsLiteral(jsons.text, first + 1, json + 1)
  <2>1. json + 1 > first + 1
    BY <1>3
  <2> QED
    BY <1>1, <1>4, <2>1 DEF EndsLiteral, char
<1>6. ~LiteralOpen(jsons, json + 1)
  BY <1>3, <1>5 DEF LiteralOpen
<1>7. BetweenLiterals'
  BY <1>1, <1>6 DEF BetweenLiterals
<1>8. LiteralRead'
  BY <1>2 DEF LiteralRead
<1>9. DocumentsPassed'
  <2>1. ASSUME NEW d \in DOMAIN jsons.ends, d < s
        PROVE  jsons.ends[d] <= json + 1 /\ ~LiteralOpen(jsons, jsons.ends[d])
    <3>1. jsons.ends[d] <= first /\ ~LiteralOpen(jsons, jsons.ends[d])
      BY <1>2, <2>1 DEF LexInv, DocumentsPassed
    <3> QED
      BY <1>3, <3>1, LexFacts
  <2> QED
    BY <1>1, <1>2, <2>1 DEF DocumentsPassed
<1>10. \A q \in first + 1 .. json + 1 : LiteralAt(jsons)[q] # 0
  <2>1. \A q \in first + 1 .. json : LiteralAt(jsons)[q] = first + 1
    BY <1>2 DEF LexInv, LiteralRead
  <2>2. \A q \in first + 1 .. json + 1 : q \in first + 1 .. json \/ q = json + 1
    BY <1>3
  <2>3. first + 1 # 0
    BY <1>3
  <2> QED
    BY <1>3, <2>1, <2>2, <2>3
<1>11. nav_size' = json + 1 /\ nav_size' \in Nat /\ first <= json + 1
  BY <1>1, <1>3
<1>12. \A chars \in {Opening, Closing, Opening \cup Closing \cup Separating} :
         Outside(jsons, chars, nav_size') = Outside(jsons, chars, nav_size)
  BY <1>3, <1>10, <1>11, OutsideLiteral
<1>13. NavMarksOutside' /\ ExcessIsDepth'
  BY <1>1, <1>11, <1>12, ZerosLexed
<1> QED
  BY <1>7, <1>8, <1>9, <1>13

LEMMA OtherCharLexed ==
  ASSUME LexInv, OtherChar
  PROVE  NavMarksOutside' /\ ExcessIsDepth'
<1>1. /\ Scanning /\ char \notin Structural /\ char # Quote /\ pc = "scan"
      /\ nav_size' = nav_size + 1 /\ jsons' = jsons
      /\ nav' = nav /\ bp' = bp /\ excess' = excess
  BY DEF OtherChar, Scanning
<1>2. nav_size = json /\ nav_size \in Nat /\ nav_size' \in Nat
  BY <1>1, LexFacts
<1>3. char \notin Opening \cup Closing \cup Separating
  BY <1>1 DEF Structural, OpenChars, CloseChars, SepChars, Opening, Closing, Separating
<1>4. jsons.text[nav_size + 1] = char
  BY <1>2 DEF char
<1>5. ASSUME NEW chars \in {Opening, Closing, Opening \cup Closing \cup Separating}
      PROVE  Outside(jsons, chars, nav_size') = Outside(jsons, chars, nav_size)
  <2>1. char \notin chars
    BY <1>3, <1>5
  <2> DEFINE n == nav_size
  <2>2. Outside(jsons, chars, n + 1)
          = Outside(jsons, chars, n)
              \cup IF jsons.text[n + 1] \in chars /\ LiteralAt(jsons)[n + 1] = 0
                   THEN {n + 1} ELSE {}
    BY <1>2, OutsideNext
  <2>3. ~ (jsons.text[n + 1] \in chars)
    BY <1>4, <2>1
  <2> QED
    BY <1>1, <2>2, <2>3
<1> QED
  BY <1>1, <1>2, <1>5, ZerosLexed

LEMMA UnterminatedLexed ==
  ASSUME LexInv, Unterminated
  PROVE  BetweenLiterals' /\ LiteralRead' /\ DocumentsPassed'
<1>1. /\ pc = "string" /\ json = json_end /\ pc' = "threw"
      /\ jsons' = jsons /\ s' = s /\ json' = json /\ first' = first
  BY DEF Unterminated
<1>2. InLiteral /\ InLiteral'
  BY <1>1 DEF InLiteral
<1>3. s \in DOMAIN jsons.ends /\ json = jsons.ends[s]
  BY <1>1, LexFacts DEF LexInv, ScanBounded, json_end
<1>4. BetweenLiterals'
  BY <1>2 DEF BetweenLiterals
<1>5. LiteralRead'
  BY <1>1, <1>2 DEF LexInv, LiteralRead
<1>6. DocumentsPassed'
  BY <1>1, <1>2, <1>3 DEF LexInv, DocumentsPassed
<1> QED
  BY <1>4, <1>5, <1>6

LEMMA NextDocumentLexed ==
  ASSUME LexInv, NextDocument
  PROVE  BetweenLiterals' /\ LiteralRead' /\ DocumentsPassed'
<1>1. /\ pc = "scan" /\ json = jsons.ends[s] /\ s' = s + 1 /\ ~escaped'
      /\ jsons' = jsons /\ json' = json /\ first' = first /\ pc' = pc
  BY Zenon DEF NextDocument, json_end
<1>2. ~InLiteral /\ ~InLiteral'
  BY <1>1 DEF InLiteral
<1>3. ~LiteralOpen(jsons, json)
  BY <1>2 DEF LexInv, BetweenLiterals
<1>4. BetweenLiterals'
  BY <1>1, <1>3 DEF BetweenLiterals
<1>5. LiteralRead'
  BY <1>2 DEF LiteralRead
<1>6. ASSUME NEW d \in DOMAIN jsons.ends, d < s + 1
      PROVE  jsons.ends[d] <= json /\ ~LiteralOpen(jsons, jsons.ends[d])
  <2>1. CASE d < s
    BY <1>2, <2>1 DEF LexInv, DocumentsPassed
  <2>2. CASE d = s
    BY <1>1, <1>3, <2>2, LexFacts
  <2> QED
    BY <1>6, <2>1, <2>2, LexFacts
<1>7. DocumentsPassed'
  BY <1>1, <1>2, <1>6 DEF DocumentsPassed
<1> QED
  BY <1>4, <1>5, <1>7

LEMMA FreezeLexed ==
  ASSUME LexInv, Freeze
  PROVE  BetweenLiterals' /\ LiteralRead' /\ DocumentsPassed'
<1>1. /\ pc = "scan" /\ s > Len(jsons.ends) /\ pc' = "built"
      /\ jsons' = jsons /\ s' = s /\ json' = json /\ first' = first
  BY DEF Freeze
<1>2. ~InLiteral /\ ~InLiteral'
  BY <1>1 DEF InLiteral
<1>3. BetweenLiterals'
  BY <1>1, <1>2 DEF LexInv, BetweenLiterals
<1>4. LiteralRead'
  BY <1>2 DEF LiteralRead
<1>5. DocumentsPassed'
  BY <1>1, <1>2 DEF LexInv, DocumentsPassed
<1> QED
  BY <1>3, <1>4, <1>5

LEMMA LexUnscanned == IsCollection(jsons) /\ Unscanned => LexInv
<1> SUFFICES ASSUME IsCollection(jsons), Unscanned PROVE LexInv
  OBVIOUS
<1>1. BuildInv /\ ScanBounded /\ IsCollection(jsons)
  BY UnscannedInv, UnscannedBounded
<1>2. /\ s = 1 /\ json = 0 /\ ~escaped /\ pc = "scan" /\ nav_size = 0
      /\ nav = << >> /\ excess = <<0>>
  BY Zenon DEF Unscanned
<1>3. ~InLiteral
  BY <1>2 DEF InLiteral
<1>4. Len(jsons.text) \in Nat /\ DOMAIN jsons.ends \subseteq Nat \ {0}
  BY <1>1 DEF IsCollection
<1>5. BetweenLiterals
  <2>1. LiteralAt(jsons)[0] = 0
    BY <1>4, LiteralAtStep
  <2> QED
    BY <1>2, <2>1 DEF BetweenLiterals, LiteralOpen
<1>6. LiteralRead
  BY <1>3 DEF LiteralRead
<1>7. DocumentsPassed
  <2>1. \A d \in DOMAIN jsons.ends : ~ (d < s)
    BY <1>2, <1>4
  <2> QED
    BY <1>2, <2>1 DEF DocumentsPassed
<1>8. NavMarksOutside
  <2>1. DOMAIN nav = {}
    BY <1>2
  <2>2. Outside(jsons, Opening \cup Closing \cup Separating, 0) = {}
    BY DEF Outside
  <2> QED
    BY <1>2, <2>1, <2>2 DEF NavMarksOutside
<1>9. ExcessIsDepth
  <2>1. Depth(jsons, 0) = 0
    BY DepthZero
  <2>2. Len(nav) = 0 /\ Len(excess) = 1 /\ excess[1] = 0
    BY <1>2
  <2> QED
    BY <1>2, <2>1, <2>2 DEF ExcessIsDepth
<1> QED
  BY <1>1, <1>5, <1>6, <1>7, <1>8, <1>9 DEF LexInv

LEMMA LexInitInv == BuildInit => LexInv
  BY LexUnscanned, CollectionsAssumption DEF BuildInit

(* Another constructor begins anew, as in the direct mode.                 *)
LEMMA LexConstruct ==
  ASSUME NEW c, IsCollection(c), Construct(c)
  PROVE  LexInv'
<1>1. (IsCollection(jsons) /\ Unscanned => LexInv)'
  BY LexUnscanned, PTL
<1>2. IsCollection(jsons)' /\ Unscanned'
  BY DEF Construct, Unscanned, IsCollection
<1> QED
  BY <1>1, <1>2

LEMMA LexNextInv == LexInv /\ [BuildNext]_buildVars => LexInv'
<1> SUFFICES ASSUME LexInv, [BuildNext]_buildVars PROVE LexInv'
  OBVIOUS
<1> DEFINE Lexed == BetweenLiterals /\ LiteralRead /\ DocumentsPassed
<1>0. BuildInv' /\ ScanBounded'
  BY BuildNextInv, BuildNextBounded DEF LexInv
<1> SUFFICES Lexed' /\ NavMarksOutside' /\ ExcessIsDepth'
  BY <1>0 DEF LexInv
<1>c. /\ OpenChars = Opening /\ CloseChars = Closing /\ SepChars = Separating
      /\ Quote \notin Opening \cup Closing \cup Separating
  BY DEF OpenChars, CloseChars, SepChars, Opening, Closing, Separating, Quote
<1>d. \A c : /\ c \in Opening => c \notin Closing /\ c \notin Separating
             /\ c \in Closing => c \notin Separating
  BY DEF Opening, Closing, Separating
<1>p. ASSUME Scanning, NEW p \in {0, 1}, NEW q \in {0, 1}, PushStructural(p, q),
             char \in Opening \cup Closing \cup Separating,
             p = (IF char \in Opening THEN 1 ELSE 0),
             q = (IF char \in Closing THEN 0 ELSE 1)
      PROVE  Lexed' /\ NavMarksOutside' /\ ExcessIsDepth'
  <2>1. char # Quote
    BY <1>c, <1>p
  <2>2. json' = json + 1 /\ UNCHANGED <<jsons, s, first, escaped, pc>>
    BY <1>p DEF PushStructural
  <2>3. Lexed'
    BY <1>p, <2>1, <2>2, ScanLexed
  <2>4. NavMarksOutside' /\ ExcessIsDepth'
    BY <1>p, <2>1, PushLexed
  <2> QED
    BY <2>3, <2>4
<1>1. CASE OpenBracket
  BY <1>c, <1>d, <1>p, <1>1 DEF OpenBracket
<1>2. CASE CloseBracket
  BY <1>c, <1>d, <1>p, <1>2 DEF CloseBracket
<1>3. CASE Separator
  BY <1>c, <1>d, <1>p, <1>3 DEF Separator
<1>4. CASE OtherChar
  <2>1. /\ Scanning /\ char # Quote /\ json' = json + 1
        /\ UNCHANGED <<jsons, s, first, escaped, pc>>
    BY <1>4 DEF OtherChar
  <2> QED
    BY <1>4, <2>1, ScanLexed, OtherCharLexed
<1>5. CASE OpenQuote
  <2>1. UNCHANGED <<jsons, nav, nav_size, bp, excess>>
    BY <1>5 DEF OpenQuote
  <2> QED
    BY <1>5, <2>1, OpenQuoteLexed, VectorsLexed
<1>6. CASE LiteralChar
  <2>1. UNCHANGED <<jsons, nav, nav_size, bp, excess>>
    BY <1>6 DEF LiteralChar
  <2> QED
    BY <1>6, <2>1, LiteralCharLexed, VectorsLexed
<1>7. CASE CloseQuote
  BY <1>7, CloseQuoteLexed
<1>8. CASE Unterminated
  <2>1. UNCHANGED <<jsons, nav, nav_size, bp, excess>>
    BY <1>8 DEF Unterminated
  <2> QED
    BY <1>8, <2>1, UnterminatedLexed, VectorsLexed
<1>9. CASE NextDocument
  <2>1. UNCHANGED <<jsons, nav, nav_size, bp, excess>>
    BY <1>9 DEF NextDocument
  <2> QED
    BY <1>9, <2>1, NextDocumentLexed, VectorsLexed
<1>10. CASE Freeze
  <2>1. UNCHANGED <<jsons, nav, nav_size, bp, excess>>
    BY <1>10 DEF Freeze
  <2> QED
    BY <1>10, <2>1, FreezeLexed, VectorsLexed
<1>11. CASE UNCHANGED buildVars
  <2>1. UNCHANGED <<jsons, s, json, first, escaped, pc, nav, nav_size, bp, excess>>
    BY <1>11 DEF buildVars
  <2>2. BetweenLiterals' /\ LiteralRead' /\ DocumentsPassed'
    BY <2>1 DEF LexInv, BetweenLiterals, LiteralRead, DocumentsPassed, InLiteral
  <2> QED
    BY <2>1, <2>2, VectorsLexed
<1> HIDE DEF Lexed
<1> QED
  BY <1>1, <1>2, <1>3, <1>4, <1>5, <1>6, <1>7, <1>8, <1>9, <1>10, <1>11 DEF BuildNext

(* A document that ends in a literal is one the reference leaves open.     *)
LEMMA LexThrows == LexInv => ThrowsInLiteral
<1> SUFFICES ASSUME LexInv PROVE ThrowsInLiteral
  OBVIOUS
<1>1. ASSUME pc = "built", NEW d \in DOMAIN jsons.ends
      PROVE  ~LiteralOpen(jsons, jsons.ends[d])
  <2>1. s > Len(jsons.ends)
    BY <1>1 DEF LexInv, DocumentsPassed
  <2>2. d < s
    BY <2>1, LexFacts
  <2> QED
    BY <2>2 DEF LexInv, DocumentsPassed
<1>2. ASSUME pc = "threw"
      PROVE  \E d \in DOMAIN jsons.ends : LiteralOpen(jsons, jsons.ends[d])
  <2>1. s \in DOMAIN jsons.ends /\ json = jsons.ends[s]
    BY <1>2 DEF LexInv, DocumentsPassed
  <2>2. InLiteral
    BY <1>2 DEF InLiteral
  <2>3. first + 1 # 0 /\ json \in first + 1 .. json
    BY <2>2, LexFacts
  <2>4. LiteralAt(jsons)[json] = first + 1 /\ ~EndsLiteral(jsons.text, first + 1, json)
    BY <2>2, <2>3 DEF LexInv, LiteralRead
  <2>5. LiteralOpen(jsons, json)
    BY <2>3, <2>4 DEF LiteralOpen
  <2> QED
    BY <2>1, <2>5
<1> QED
  BY <1>1, <1>2 DEF ThrowsInLiteral

(* The excess inside the pair of a character.                              *)
LEMMA ExcessInPair ==
  ASSUME LexInv, NEW i \in 1 .. Len(nav)
  PROVE  LET c == jsons.text[nav[i] + 1] IN
         /\ nav[i] \in Nat /\ nav[i] + 1 \in 1 .. nav_size
         /\ LiteralAt(jsons)[nav[i] + 1] = 0
         /\ c \in Opening \cup Closing \cup Separating
         /\ 2 * i \in 1 .. Len(bp)
         /\ excess[2 * i] = 2 * Depth(jsons, nav[i]) + (IF c \in Opening THEN 1 ELSE -1)
<1> DEFINE c == jsons.text[nav[i] + 1]
<1>0. /\ nav \in Seq(Nat) /\ nav_size \in Nat /\ Len(nav) \in Nat
      /\ Len(bp) = 2 * Len(nav)
  BY DEF LexInv, BuildInv, BuildTypeOK, NavMarksStructure
<1>1. nav[i] \in Nat /\ nav[i] < nav_size
  <2>1. nav[i] < nav_size
    BY DEF LexInv, BuildInv, NavMarksStructure
  <2> QED
    BY <1>0, <2>1
<1>2. nav[i] + 1 \in {nav[j] + 1 : j \in DOMAIN nav}
  BY <1>0
<1>3. nav[i] + 1 \in Outside(jsons, Opening \cup Closing \cup Separating, nav_size)
  BY <1>2 DEF LexInv, NavMarksOutside
<1>4. LiteralAt(jsons)[nav[i] + 1] = 0 /\ c \in Opening \cup Closing \cup Separating
  BY <1>3 DEF Outside
<1>5. bp[2 * i - 1] = (IF c \in Opening THEN 1 ELSE 0)
  <2>1. bp[2 * i - 1] = (IF c \in OpenChars THEN 1 ELSE 0)
    BY DEF LexInv, BuildInv, NavMarksStructure
  <2>2. OpenChars = Opening
    BY DEF OpenChars, Opening
  <2> QED
    BY <2>1, <2>2
<1> HIDE DEF c
<1>6. excess[2 * i] = excess[2 * i - 1] + Weight(bp[2 * i - 1])
  <2>1. 2 * i - 1 \in 1 .. Len(bp) /\ (2 * i - 1) + 1 = 2 * i
    BY <1>0
  <2>2. \A k \in 1 .. Len(bp) : excess[k + 1] = excess[k] + Weight(bp[k])
    BY DEF LexInv, BuildInv, ExcessShape
  <2>3. excess[(2 * i - 1) + 1] = excess[2 * i - 1] + Weight(bp[2 * i - 1])
    BY <2>1, <2>2
  <2> QED
    BY <2>1, <2>3
<1>7. excess[2 * i - 1] = 2 * Depth(jsons, nav[i])
  BY DEF LexInv, ExcessIsDepth
<1>8. excess[2 * i] = 2 * Depth(jsons, nav[i]) + (IF c \in Opening THEN 1 ELSE -1)
  BY <1>5, <1>6, <1>7 DEF Weight
<1>9. 2 * i \in 1 .. Len(bp) /\ nav[i] + 1 \in 1 .. nav_size
  BY <1>0, <1>1
<1> QED
  BY <1>1, <1>4, <1>8, <1>9 DEF c

(* If no prefix of bp is negative, nothing is closed outside brackets: the *)
(* first parenthesis of its pair would make the excess negative.           *)
LEMMA BalancedNests ==
  ASSUME LexInv, \A k \in DOMAIN excess : excess[k] >= 0
  PROVE  BracketsNest(jsons, nav_size)
<1> SUFFICES ASSUME NEW p \in Outside(jsons, Closing \cup Separating, nav_size)
             PROVE  Depth(jsons, p - 1) > 0
  BY DEF BracketsNest
<1>1. /\ p \in Outside(jsons, Opening \cup Closing \cup Separating, nav_size)
      /\ jsons.text[p] \in Closing \cup Separating
  BY DEF Outside
<1>2. PICK i \in DOMAIN nav : p = nav[i] + 1
  BY <1>1 DEF LexInv, NavMarksOutside
<1>3. nav \in Seq(Nat) /\ excess \in Seq(Int) /\ Len(excess) = Len(bp) + 1 /\ bp \in Seq({0, 1})
  BY DEF LexInv, BuildInv, BuildTypeOK, ExcessShape
<1>4. i \in 1 .. Len(nav)
  BY <1>2, <1>3
<1>5. jsons.text[p] \notin Opening
  BY <1>1 DEF Opening, Closing, Separating
<1>6. nav[i] \in Nat /\ 2 * i \in 1 .. Len(bp) /\ excess[2 * i] = 2 * Depth(jsons, nav[i]) - 1
  <2>1. nav[i] \in Nat /\ 2 * i \in 1 .. Len(bp)
    BY <1>4, ExcessInPair
  <2>2. excess[2 * i] = 2 * Depth(jsons, nav[i])
                          + (IF jsons.text[nav[i] + 1] \in Opening THEN 1 ELSE -1)
    BY <1>4, ExcessInPair
  <2>3. Depth(jsons, nav[i]) \in Int
    BY <2>1, DepthInt
  <2> QED
    BY <1>2, <1>5, <2>1, <2>2, <2>3
<1>7. 2 * i \in DOMAIN excess
  BY <1>3, <1>6
<1>8. excess[2 * i] >= 0 /\ p - 1 = nav[i] /\ Depth(jsons, nav[i]) \in Int
  BY <1>2, <1>6, <1>7, DepthInt
<1> QED
  BY <1>6, <1>8

(* And the other way round: the first negative prefix would end inside a   *)
(* pair, since the excess is even between pairs and moves by one.          *)
LEMMA NestsBalanced ==
  ASSUME LexInv, BracketsNest(jsons, nav_size), NEW k \in DOMAIN excess
  PROVE  excess[k] >= 0
<1> DEFINE T == {j \in Nat : j \in DOMAIN excess /\ ~ (excess[j] >= 0)}
<1>0. /\ excess \in Seq(Int) /\ Len(excess) = Len(bp) + 1 /\ Len(bp) = 2 * Len(nav)
      /\ Len(nav) \in Nat /\ DOMAIN excess = 1 .. Len(excess) /\ bp \in Seq({0, 1})
  BY DEF LexInv, BuildInv, BuildTypeOK, ExcessShape, NavMarksStructure
<1> SUFFICES ASSUME T # {} PROVE FALSE
  BY <1>0
<1>1. PICK j \in T : \A l \in T : j <= l
  <2>1. T \subseteq Nat
    OBVIOUS
  <2> HIDE DEF T
  <2> QED
    BY <2>1, LeastExists
<1>2. j \in 1 .. Len(excess) /\ ~ (excess[j] >= 0) /\ excess[j] \in Int
  BY <1>0, <1>1
<1>b. ASSUME j # 1 PROVE j - 1 \in 1 .. Len(bp) /\ excess[j - 1] \in Int /\ excess[j - 1] >= 0
  <2>1. j - 1 \in 1 .. Len(excess) /\ ~ (j <= j - 1) /\ j - 1 \in 1 .. Len(bp)
    BY <1>0, <1>2, <1>b
  <2>2. j - 1 \notin T
    BY <1>1, <2>1
  <2>3. excess[j - 1] \in Int
    BY <1>0, <2>1
  <2> QED
    BY <1>0, <2>1, <2>2, <2>3
<1>3. ASSUME NEW i \in 1 .. Len(nav), j = 2 * i PROVE FALSE
  <2> DEFINE p == nav[i] + 1
  <2>1. /\ nav[i] \in Nat /\ p \in 1 .. nav_size /\ LiteralAt(jsons)[p] = 0
        /\ jsons.text[p] \in Opening \cup Closing \cup Separating
    BY <1>3, ExcessInPair
  <2>2. excess[2 * i] = 2 * Depth(jsons, nav[i]) + (IF jsons.text[p] \in Opening THEN 1 ELSE -1)
    BY <1>3, ExcessInPair
  <2>3. Depth(jsons, nav[i]) \in Int
    BY <2>1, DepthInt
  <2>4. CASE jsons.text[p] \in Opening
    <3>1. excess[2 * i - 1] >= 0
      BY <1>3, <1>b
    <3>2. excess[2 * i - 1] = 2 * Depth(jsons, nav[i])
      BY <1>3 DEF LexInv, ExcessIsDepth
    <3> QED
      BY <1>2, <1>3, <2>2, <2>3, <2>4, <3>1, <3>2
  <2>5. CASE jsons.text[p] \notin Opening
    <3>1. p \in Outside(jsons, Closing \cup Separating, nav_size)
      BY <2>1, <2>5 DEF Outside
    <3>2. Depth(jsons, p - 1) > 0
      BY <3>1 DEF BracketsNest
    <3>3. p - 1 = nav[i]
      BY <2>1
    <3> QED
      BY <1>2, <1>3, <2>2, <2>3, <2>5, <3>2, <3>3
  <2> QED
    BY <2>4, <2>5
<1>4. ASSUME NEW i \in 1 .. Len(nav) + 1, j = 2 * i - 1 PROVE FALSE
  <2>1. excess[j] % 2 = 0
    BY <1>4 DEF LexInv, BuildInv, ExcessShape
  <2>2. j # 1
    BY <1>2 DEF LexInv, BuildInv, ExcessShape
  <2>3. excess[j] = excess[j - 1] + Weight(bp[j - 1])
    <3>1. \A l \in 1 .. Len(bp) : excess[l + 1] = excess[l] + Weight(bp[l])
      BY DEF LexInv, BuildInv, ExcessShape
    <3>2. excess[(j - 1) + 1] = excess[j - 1] + Weight(bp[j - 1]) /\ (j - 1) + 1 = j
      BY <1>2, <1>b, <2>2, <3>1
    <3> QED
      BY <3>2
  <2>4. Weight(bp[j - 1]) \in {-1, 1}
    BY DEF Weight
  <2> QED
    BY <1>2, <1>b, <2>1, <2>2, <2>3, <2>4
<1>5. \/ \E i \in 1 .. Len(nav) : j = 2 * i
      \/ \E i \in 1 .. Len(nav) + 1 : j = 2 * i - 1
  <2>1. CASE j % 2 = 0
    <3>1. j \div 2 \in 1 .. Len(nav) /\ j = 2 * (j \div 2)
      BY <1>0, <1>2, <2>1
    <3> QED
      BY <3>1
  <2>2. CASE j % 2 = 1
    <3> DEFINE h == j \div 2
    <3>1. j = 2 * h + 1 /\ h \in Int
      BY <1>2, <2>2
    <3> HIDE DEF h
    <3>2. h + 1 \in 1 .. Len(nav) + 1 /\ j = 2 * (h + 1) - 1
      BY <1>0, <1>2, <3>1
    <3> QED
      BY <3>2
  <2> QED
    BY <1>2, <2>1, <2>2
<1> QED
  BY <1>3, <1>4, <1>5

LEMMA LexParens == LexInv => ParensFollowBrackets
<1> SUFFICES ASSUME LexInv PROVE ParensFollowBrackets
  OBVIOUS
<1>1. excess[Len(excess)] = 2 * Depth(jsons, nav_size)
  BY DEF LexInv, ExcessIsDepth
<1>2. (\A k \in DOMAIN excess : excess[k] >= 0) <=> BracketsNest(jsons, nav_size)
  BY BalancedNests, NestsBalanced
<1> QED
  BY <1>1, <1>2 DEF ParensFollowBrackets

-----------------------------------------------------------------------------
(* In any text, the ones of nav are exactly the structural characters that *)
(* no string literal contains.                                             *)
THEOREM BuildMarksOutside == BuildSpec => []NavMarksOutside
<1>1. LexInv => NavMarksOutside
  BY DEF LexInv
<1> QED
  BY <1>1, LexInitInv, LexNextInv, PTL DEF BuildSpec

(* The constructor throws if, and only if, a document ends in a literal.   *)
THEOREM BuildThrowsInLiteral == BuildSpec => []ThrowsInLiteral
  BY LexThrows, LexInitInv, LexNextInv, PTL DEF BuildSpec

(* The parentheses nest as the brackets outside literals do: the excess is *)
(* twice their depth, and balanced if and only if they are.                *)
THEOREM BuildParensFollowBrackets == BuildSpec => []ParensFollowBrackets
  BY LexParens, LexInitInv, LexNextInv, PTL DEF BuildSpec

=============================================================================
