------------------------ MODULE SemiIndexBuildProofs ------------------------
(***************************************************************************)
(* Proofs about the constructor of the semi-index, for every set of        *)
(* collections.                                                            *)
(***************************************************************************)
EXTENDS SemiIndexBuild, TLAPS

(* The inductive invariant.  The four parts need one another: the bits of  *)
(* nav stand for structural characters because the vector is aligned with  *)
(* the text when one is pushed, and the excess is even between the pairs   *)
(* because every one of nav comes with two parentheses.                    *)
BuildInv == BuildTypeOK /\ NavAligned /\ NavMarksStructure /\ ExcessShape

(* What one push_back, and two in a row, do to a sequence.                 *)
LEMMA AppendOne ==
  ASSUME NEW S, NEW q \in Seq(S), NEW a \in S
  PROVE  LET t == Append(q, a) IN
         /\ t \in Seq(S) /\ Len(t) = Len(q) + 1 /\ Len(q) \in Nat
         /\ \A k \in 1 .. Len(q) : t[k] = q[k]
         /\ t[Len(q) + 1] = a
  OBVIOUS

LEMMA AppendTwo ==
  ASSUME NEW S, NEW q \in Seq(S), NEW a \in S, NEW b \in S
  PROVE  LET t == Append(Append(q, a), b) IN
         /\ t \in Seq(S) /\ Len(t) = Len(q) + 2 /\ Len(q) \in Nat
         /\ \A k \in 1 .. Len(q) : t[k] = q[k]
         /\ t[Len(q) + 1] = a /\ t[Len(q) + 2] = b
<1> DEFINE u == Append(q, a)
           t == Append(u, b)
<1>1. /\ u \in Seq(S) /\ Len(u) = Len(q) + 1 /\ Len(q) \in Nat
      /\ \A k \in 1 .. Len(q) : u[k] = q[k]
      /\ u[Len(q) + 1] = a
  BY AppendOne
<1> HIDE DEF u
<1>2. /\ t \in Seq(S) /\ Len(t) = Len(u) + 1
      /\ \A k \in 1 .. Len(u) : t[k] = u[k]
      /\ t[Len(u) + 1] = b
  BY <1>1, AppendOne
<1> HIDE DEF t
<1>3. /\ t \in Seq(S) /\ Len(t) = Len(q) + 2 /\ Len(q) \in Nat
      /\ \A k \in 1 .. Len(q) : t[k] = q[k]
      /\ t[Len(q) + 1] = a /\ t[Len(q) + 2] = b
  BY <1>1, <1>2
<1> QED
  BY <1>3 DEF t, u

(* A constructor that has read nothing, whatever it was given.             *)
LEMMA UnscannedInv == IsCollection(jsons) /\ Unscanned => BuildInv
<1> SUFFICES ASSUME IsCollection(jsons), Unscanned PROVE BuildInv
  OBVIOUS
<1> USE DEF Unscanned
<1>1. BuildTypeOK
  <2>1. escaped \in BOOLEAN
    BY Zenon
  <2>3. nav \in Seq(Nat) /\ bp \in Seq({0, 1}) /\ excess \in Seq(Int)
    OBVIOUS
  <2> QED
    BY <2>1, <2>3 DEF BuildTypeOK
<1>2. NavAligned
  BY DEF NavAligned
<1>3. NavMarksStructure
  BY DEF NavMarksStructure
<1>4. ExcessShape
  BY DEF ExcessShape
<1> QED
  BY <1>1, <1>2, <1>3, <1>4 DEF BuildInv

LEMMA BuildInitInv == BuildInit => BuildInv
  BY UnscannedInv, CollectionsAssumption DEF BuildInit

(* The same of the state a new constructor starts in.                      *)
LEMMA ConstructInv ==
  ASSUME NEW c, IsCollection(c), Construct(c)
  PROVE  BuildInv'
<1>1. (IsCollection(jsons) /\ Unscanned => BuildInv)'
  BY UnscannedInv, PTL
<1>2. IsCollection(jsons)' /\ Unscanned'
  BY DEF Construct, Unscanned, IsCollection
<1> QED
  BY <1>1, <1>2

(* The three structural cases of the switch at once: pushing the pair that *)
(* belongs to the current character keeps every part of the invariant.     *)
LEMMA PushPreserves ==
  ASSUME BuildInv, Scanning, NEW p \in {0, 1}, NEW q \in {0, 1},
         PushStructural(p, q),
         char \in Structural,
         p = (IF char \in OpenChars THEN 1 ELSE 0),
         q = (IF char \in CloseChars THEN 0 ELSE 1)
  PROVE  BuildInv'
<1> USE DEF BuildInv
<1>0. /\ nav_size = json
      /\ nav \in Seq(Nat) /\ bp \in Seq({0, 1}) /\ excess \in Seq(Int)
      /\ nav_size \in Nat /\ json \in Nat /\ Len(bp) = 2 * Len(nav)
      /\ Len(excess) = Len(bp) + 1 /\ Len(nav) \in Nat
      /\ pc = "scan"
  BY DEF BuildTypeOK, NavAligned, NavMarksStructure, ExcessShape, Scanning
<1>w. Weight(p) \in {-1, 1} /\ Weight(q) \in {-1, 1}
  BY DEF Weight
<1> DEFINE e == excess[Len(excess)] + Weight(p)
<1>e. excess[Len(excess)] \in Int /\ e \in Int /\ e + Weight(q) \in Int
  BY <1>0, <1>w
<1>1. /\ nav' = Append(nav, nav_size) /\ nav_size' = nav_size + 1
      /\ bp' = Append(Append(bp, p), q)
      /\ excess' = Append(Append(excess, e), e + Weight(q))
      /\ json' = json + 1
      /\ jsons' = jsons /\ s' = s /\ first' = first /\ escaped' = escaped /\ pc' = pc
  BY DEF PushStructural
<1> HIDE DEF e
<1>n. /\ nav' \in Seq(Nat) /\ Len(nav') = Len(nav) + 1
      /\ \A k \in 1 .. Len(nav) : nav'[k] = nav[k]
      /\ nav'[Len(nav) + 1] = nav_size
  BY <1>0, <1>1, AppendOne
<1>b. /\ bp' \in Seq({0, 1}) /\ Len(bp') = Len(bp) + 2
      /\ \A k \in 1 .. Len(bp) : bp'[k] = bp[k]
      /\ bp'[Len(bp) + 1] = p /\ bp'[Len(bp) + 2] = q
  <2>1. bp' = Append(Append(bp, p), q) /\ bp \in Seq({0, 1})
    BY <1>0, <1>1
  <2> QED
    BY <2>1, AppendTwo
<1>x. /\ excess' \in Seq(Int) /\ Len(excess') = Len(excess) + 2
      /\ \A k \in 1 .. Len(excess) : excess'[k] = excess[k]
      /\ excess'[Len(excess) + 1] = e /\ excess'[Len(excess) + 2] = e + Weight(q)
  BY <1>0, <1>1, <1>e, AppendTwo
<1>s. /\ nav_size' = nav_size + 1 /\ json' = json + 1
      /\ jsons' = jsons /\ s' = s /\ first' = first /\ escaped' = escaped /\ pc' = pc
  BY <1>1
<1>2. BuildTypeOK'
  BY <1>0, <1>s, <1>n, <1>b, <1>x DEF BuildTypeOK
<1>3. NavAligned'
  BY <1>0, <1>s DEF NavAligned
<1>l. /\ Len(nav) \in Nat /\ Len(bp) = 2 * Len(nav) /\ Len(excess) = 2 * Len(nav) + 1
      /\ Len(nav') = Len(nav) + 1
      /\ Len(bp') = Len(bp) + 2
      /\ Len(excess') = Len(excess) + 2
  BY <1>0, <1>n, <1>b, <1>x
<1>4. NavMarksStructure'
  <2>1. Len(bp') = 2 * Len(nav')
    BY <1>l
  <2>2. ASSUME NEW k \in 1 .. Len(nav')
        PROVE  /\ nav'[k] < nav_size'
               /\ \A j \in 1 .. Len(nav') : k < j => nav'[k] < nav'[j]
    <3>0. nav \in Seq(Nat) /\ nav_size \in Nat /\ nav_size' = nav_size + 1
      BY <1>0, <1>s
    <3>1. CASE k = Len(nav) + 1
      BY <1>n, <1>l, <3>0, <3>1
    <3>2. CASE k \in 1 .. Len(nav)
      <4>1. nav'[k] = nav[k] /\ nav[k] \in Nat
        BY <3>0, <1>n, <3>2
      <4>2. nav[k] < nav_size /\ \A j \in 1 .. Len(nav) : k < j => nav[k] < nav[j]
        BY <3>2 DEF NavMarksStructure
      <4>3. ASSUME NEW j \in 1 .. Len(nav'), k < j PROVE nav'[k] < nav'[j]
        <5>1. CASE j = Len(nav) + 1
          BY <1>n, <4>1, <4>2, <5>1
        <5>2. CASE j \in 1 .. Len(nav)
          BY <1>n, <4>1, <4>2, <4>3, <5>2
        <5> QED
          BY <1>l, <5>1, <5>2
      <4> QED
        BY <3>0, <4>1, <4>2, <4>3
    <3> QED
      BY <1>l, <3>1, <3>2
  <2>3. ASSUME NEW k \in 1 .. Len(nav')
        PROVE  /\ jsons'.text[nav'[k] + 1] \in Structural
               /\ bp'[2 * k - 1] = (IF jsons'.text[nav'[k] + 1] \in OpenChars THEN 1 ELSE 0)
               /\ bp'[2 * k] = (IF jsons'.text[nav'[k] + 1] \in CloseChars THEN 0 ELSE 1)
    <3>1. CASE k = Len(nav) + 1
      <4>1. 2 * k - 1 = Len(bp) + 1 /\ 2 * k = Len(bp) + 2
        BY <1>l, <3>1
      <4>2. bp'[2 * k - 1] = p /\ bp'[2 * k] = q
        BY <1>b, <4>1
      <4>3. nav'[k] = json
        BY <1>0, <1>n, <3>1
      <4>4. jsons'.text[nav'[k] + 1] = char
        BY <1>s, <4>3 DEF char
      <4> QED
        BY <4>2, <4>4
    <3>2. CASE k \in 1 .. Len(nav)
      <4>1. 2 * k - 1 \in 1 .. Len(bp) /\ 2 * k \in 1 .. Len(bp)
        BY <1>l, <3>2
      <4>2. bp'[2 * k - 1] = bp[2 * k - 1] /\ bp'[2 * k] = bp[2 * k]
        BY <1>b, <4>1
      <4>3. nav'[k] = nav[k] /\ jsons' = jsons
        BY <1>s, <1>n, <3>2
      <4> QED
        BY <3>2, <4>2, <4>3 DEF NavMarksStructure
    <3> QED
      BY <1>l, <3>1, <3>2
  <2> QED
    BY <2>1, <2>2, <2>3 DEF NavMarksStructure
<1>5. ExcessShape'
  <2>1. Len(excess') = Len(bp') + 1
    BY <1>l
  <2>2. excess[Len(excess)] % 2 = 0
    <3>1. Len(excess) = 2 * (Len(nav) + 1) - 1 /\ Len(nav) + 1 \in 1 .. Len(nav) + 1
      BY <1>l
    <3> QED
      BY <3>1 DEF ExcessShape
  <2>3. (e + Weight(q)) % 2 = 0
    BY <1>w, <1>e, <2>2 DEF e
  <2>4. ASSUME NEW k \in 1 .. Len(nav') + 1
        PROVE  excess'[2 * k - 1] % 2 = 0
    <3>1. CASE k = Len(nav) + 2
      <4>1. 2 * k - 1 = Len(excess) + 2
        BY <1>l, <3>1
      <4> QED
        BY <1>x, <2>3, <4>1
    <3>2. CASE k \in 1 .. Len(nav) + 1
      <4>1. 2 * k - 1 \in 1 .. Len(excess)
        BY <1>l, <3>2
      <4>2. excess'[2 * k - 1] = excess[2 * k - 1]
        BY <1>x, <4>1
      <4> QED
        BY <3>2, <4>2 DEF ExcessShape
    <3> QED
      BY <1>l, <3>1, <3>2
  <2>5. ASSUME NEW k \in 1 .. Len(bp')
        PROVE  excess'[k + 1] = excess'[k] + Weight(bp'[k])
    <3>1. CASE k = Len(bp) + 2
      <4>1. k = Len(excess) + 1 /\ k + 1 = Len(excess) + 2
        BY <1>l, <3>1
      <4>2. excess'[k + 1] = e + Weight(q) /\ excess'[k] = e
        BY <1>x, <4>1
      <4>3. bp'[k] = q
        BY <1>b, <3>1
      <4> QED
        BY <4>2, <4>3
    <3>2. CASE k = Len(bp) + 1
      <4>1. k = Len(excess) /\ k \in 1 .. Len(excess)
        BY <1>l, <3>2
      <4>2. excess'[k + 1] = e /\ excess'[k] = excess[Len(excess)]
        BY <1>x, <4>1
      <4>3. bp'[k] = p
        BY <1>b, <3>2
      <4> QED
        BY <4>2, <4>3 DEF e
    <3>3. CASE k \in 1 .. Len(bp)
      <4>1. k \in 1 .. Len(excess) /\ k + 1 \in 1 .. Len(excess)
        BY <1>l, <3>3
      <4>2. excess'[k + 1] = excess[k + 1] /\ excess'[k] = excess[k]
        BY <1>x, <4>1
      <4>3. bp'[k] = bp[k]
        BY <1>b, <3>3
      <4> QED
        BY <3>3, <4>2, <4>3 DEF ExcessShape
    <3> QED
      BY <1>l, <3>1, <3>2, <3>3
  <2>6. excess'[1] = 0
    <3>1. 1 \in 1 .. Len(excess)
      BY <1>l
    <3> QED
      BY <1>x, <3>1 DEF ExcessShape
  <2> QED
    BY <2>1, <2>4, <2>5, <2>6 DEF ExcessShape
<1> QED
  BY <1>2, <1>3, <1>4, <1>5

(* Steps that push no one and no parenthesis leave both vectors alone and  *)
(* can only disturb the alignment.                                         *)
LEMMA VectorsUnchanged ==
  ASSUME NavMarksStructure, ExcessShape, nav \in Seq(Nat),
         nav_size \in Nat, nav_size' \in Nat, nav_size' >= nav_size,
         UNCHANGED <<jsons, nav, bp, excess>>
  PROVE  NavMarksStructure' /\ ExcessShape'
<1>1. NavMarksStructure'
  <2>1. \A k \in 1 .. Len(nav) : nav[k] < nav_size'
    BY DEF NavMarksStructure
  <2> QED
    BY <2>1 DEF NavMarksStructure
<1>2. ExcessShape'
  BY DEF ExcessShape
<1> QED
  BY <1>1, <1>2

LEMMA BuildNextInv == BuildInv /\ [BuildNext]_buildVars => BuildInv'
<1> SUFFICES ASSUME BuildInv, [BuildNext]_buildVars PROVE BuildInv'
  OBVIOUS
<1> USE DEF BuildInv
<1>0. BuildTypeOK /\ NavAligned /\ NavMarksStructure /\ ExcessShape /\ nav \in Seq(Nat)
  BY DEF BuildTypeOK
<1>1. CASE OpenBracket
  BY <1>1, PushPreserves DEF OpenBracket, OpenChars, CloseChars, Structural
<1>2. CASE CloseBracket
  BY <1>2, PushPreserves DEF CloseBracket, OpenChars, CloseChars, Structural
<1>3. CASE Separator
  BY <1>3, PushPreserves DEF Separator, OpenChars, CloseChars, SepChars, Structural
<1>4. CASE OtherChar
  <2>1. BuildTypeOK' /\ NavAligned' /\ nav_size' \in Nat /\ nav_size' >= nav_size
    BY <1>0, <1>4 DEF BuildTypeOK, NavAligned, OtherChar, Scanning
  <2> QED
    BY <1>0, <1>4, <2>1, VectorsUnchanged DEF OtherChar, BuildTypeOK
<1>5. CASE OpenQuote
  <2>1. BuildTypeOK' /\ NavAligned' /\ nav_size' \in Nat /\ nav_size' >= nav_size
    BY <1>0, <1>5 DEF BuildTypeOK, NavAligned, OpenQuote, Scanning
  <2> QED
    BY <1>0, <1>5, <2>1, VectorsUnchanged DEF OpenQuote, BuildTypeOK
<1>6. CASE LiteralChar
  <2>1. BuildTypeOK' /\ NavAligned' /\ nav_size' \in Nat /\ nav_size' >= nav_size
    BY <1>0, <1>6 DEF BuildTypeOK, NavAligned, LiteralChar
  <2> QED
    BY <1>0, <1>6, <2>1, VectorsUnchanged DEF LiteralChar, BuildTypeOK
<1>7. CASE CloseQuote
  <2>1. BuildTypeOK' /\ NavAligned' /\ nav_size' \in Nat /\ nav_size' >= nav_size
    BY <1>0, <1>7 DEF BuildTypeOK, NavAligned, CloseQuote
  <2> QED
    BY <1>0, <1>7, <2>1, VectorsUnchanged DEF CloseQuote, BuildTypeOK
<1>8. CASE Unterminated
  <2>1. BuildTypeOK' /\ NavAligned' /\ nav_size' \in Nat /\ nav_size' >= nav_size
    BY <1>0, <1>8 DEF BuildTypeOK, NavAligned, Unterminated
  <2> QED
    BY <1>0, <1>8, <2>1, VectorsUnchanged DEF Unterminated, BuildTypeOK
<1>9. CASE NextDocument
  <2>0. escaped' \in BOOLEAN
    BY <1>9, Zenon DEF NextDocument
  <2>1. BuildTypeOK' /\ NavAligned' /\ nav_size' \in Nat /\ nav_size' >= nav_size
    <3>1. /\ s' = s + 1
          /\ UNCHANGED <<jsons, json, first, pc, nav, nav_size, bp, excess>>
      BY <1>9 DEF NextDocument
    <3> QED
      BY <1>0, <2>0, <3>1 DEF BuildTypeOK, NavAligned
  <2> QED
    BY <1>0, <1>9, <2>1, VectorsUnchanged DEF NextDocument, BuildTypeOK
<1>10. CASE Freeze
  <2>1. BuildTypeOK' /\ NavAligned' /\ nav_size' \in Nat /\ nav_size' >= nav_size
    BY <1>0, <1>10 DEF BuildTypeOK, NavAligned, Freeze
  <2> QED
    BY <1>0, <1>10, <2>1, VectorsUnchanged DEF Freeze, BuildTypeOK
<1>11. CASE UNCHANGED buildVars
  <2>1. BuildTypeOK' /\ NavAligned' /\ nav_size' \in Nat /\ nav_size' >= nav_size
    BY <1>0, <1>11 DEF BuildTypeOK, NavAligned, buildVars
  <2> QED
    BY <1>0, <1>11, <2>1, VectorsUnchanged DEF buildVars, BuildTypeOK
<1> QED
  BY <1>1, <1>2, <1>3, <1>4, <1>5, <1>6, <1>7, <1>8, <1>9, <1>10, <1>11 DEF BuildNext

-----------------------------------------------------------------------------
(* The constructor keeps its state well typed, whatever text it is given.  *)
THEOREM BuildTypeCorrect == BuildSpec => []BuildTypeOK
<1>1. BuildInv => BuildTypeOK
  BY DEF BuildInv
<1> QED
  BY <1>1, BuildInitInv, BuildNextInv, PTL DEF BuildSpec

(* nav has one bit per character at every moment the vector is complete,   *)
(* so select() returns offsets in the JSON file.                           *)
THEOREM BuildAligned == BuildSpec => []NavAligned
<1>1. BuildInv => NavAligned
  BY DEF BuildInv
<1> QED
  BY <1>1, BuildInitInv, BuildNextInv, PTL DEF BuildSpec

(* Every one of nav is a structural character and owns the two parentheses *)
(* that its case of the switch pushes.                                     *)
THEOREM BuildMarksStructure == BuildSpec => []NavMarksStructure
<1>1. BuildInv => NavMarksStructure
  BY DEF BuildInv
<1> QED
  BY <1>1, BuildInitInv, BuildNextInv, PTL DEF BuildSpec

-----------------------------------------------------------------------------
(* The scan stays inside the document it is in, and a literal begins in    *)
(* one.                                                                    *)
ScanBounded ==
  /\ json <= Len(jsons.text)
  /\ s <= Len(jsons.ends) => json <= jsons.ends[s]
  /\ pc = "string" => s <= Len(jsons.ends)

LEMMA UnscannedBounded == IsCollection(jsons) /\ Unscanned => ScanBounded
<1> SUFFICES ASSUME IsCollection(jsons), Unscanned PROVE ScanBounded
  OBVIOUS
<1>1. s = 1 /\ json = 0 /\ pc = "scan" /\ Len(jsons.text) \in Nat
      /\ jsons.ends \in Seq(Nat)
  BY DEF Unscanned, IsCollection
<1>2. 1 <= Len(jsons.ends) => jsons.ends[1] \in Nat
  BY <1>1
<1> QED
  BY <1>1, <1>2 DEF ScanBounded

LEMMA ConstructBounded ==
  ASSUME NEW c, IsCollection(c), Construct(c)
  PROVE  ScanBounded'
<1>1. (IsCollection(jsons) /\ Unscanned => ScanBounded)'
  BY UnscannedBounded, PTL
<1>2. IsCollection(jsons)' /\ Unscanned'
  BY DEF Construct, Unscanned, IsCollection
<1> QED
  BY <1>1, <1>2

LEMMA BuildNextBounded ==
  ASSUME BuildInv, ScanBounded, [BuildNext]_buildVars
  PROVE  ScanBounded' /\ jsons' = jsons
<1>1. /\ jsons.text \in Seq(STRING) /\ jsons.ends \in Seq(Nat)
      /\ s \in Nat \ {0} /\ json \in Nat
      /\ Len(jsons.text) \in Nat /\ Len(jsons.ends) \in Nat
  BY DEF BuildInv, BuildTypeOK, IsCollection
<1>2. ASSUME NEW n \in 1 .. Len(jsons.ends)
      PROVE  /\ jsons.ends[n] \in Nat /\ jsons.ends[n] <= Len(jsons.text)
             /\ n > 1 => jsons.ends[n - 1] <= jsons.ends[n]
  BY <1>1 DEF BuildInv, BuildTypeOK, IsCollection
<1>3. ASSUME s <= Len(jsons.ends), json < jsons.ends[s], json' = json + 1,
             jsons' = jsons, s' = s, pc' = "string" => s <= Len(jsons.ends)
      PROVE  ScanBounded'
  <2>1. jsons.ends[s] \in Nat /\ jsons.ends[s] <= Len(jsons.text)
    BY <1>1, <1>2, <1>3
  <2>2. json + 1 <= jsons.ends[s] /\ json + 1 <= Len(jsons.text)
    BY <1>1, <1>3, <2>1
  <2> QED
    BY <1>3, <2>2 DEF ScanBounded
<1>4. ASSUME Scanning, json' = json + 1, jsons' = jsons, s' = s
      PROVE  ScanBounded'
  BY <1>3, <1>4 DEF Scanning, json_end
<1>5. ASSUME pc = "string", json < json_end, json' = json + 1, jsons' = jsons, s' = s
      PROVE  ScanBounded'
  BY <1>3, <1>5 DEF ScanBounded, json_end
<1>6. ASSUME UNCHANGED <<jsons, s, json>>, pc' # "string" \/ pc' = pc
      PROVE  ScanBounded'
  BY <1>6 DEF ScanBounded
<1>7. CASE OpenBracket \/ CloseBracket \/ Separator
  BY <1>4, <1>7 DEF OpenBracket, CloseBracket, Separator, PushStructural
<1>8. CASE OtherChar \/ OpenQuote
  BY <1>4, <1>8 DEF OtherChar, OpenQuote
<1>9. CASE LiteralChar \/ CloseQuote
  BY <1>5, <1>9 DEF LiteralChar, CloseQuote
<1>10. CASE Unterminated \/ Freeze
  BY <1>6, <1>10 DEF Unterminated, Freeze
<1>11. CASE NextDocument
  <2>1. /\ s <= Len(jsons.ends) /\ json = jsons.ends[s] /\ s' = s + 1 /\ pc' = "scan"
        /\ jsons' = jsons /\ json' = json
    BY <1>11 DEF NextDocument, json_end
  <2>2. s + 1 <= Len(jsons.ends) => json <= jsons.ends[s + 1]
    <3> SUFFICES ASSUME s + 1 <= Len(jsons.ends) PROVE json <= jsons.ends[s + 1]
      OBVIOUS
    <3>1. s + 1 \in 1 .. Len(jsons.ends) /\ s + 1 > 1 /\ (s + 1) - 1 = s
      BY <1>1
    <3>2. jsons.ends[(s + 1) - 1] <= jsons.ends[s + 1]
      BY <1>2, <3>1
    <3> QED
      BY <2>1, <3>1, <3>2
  <2> QED
    BY <2>1, <2>2 DEF ScanBounded
<1>12. CASE UNCHANGED buildVars
  BY <1>6, <1>12 DEF buildVars
<1>13. jsons' = jsons
  BY DEF BuildNext, OpenBracket, CloseBracket, Separator, PushStructural, OtherChar,
         OpenQuote, LiteralChar, CloseQuote, Unterminated, Freeze, NextDocument, buildVars
<1> QED
  BY <1>7, <1>8, <1>9, <1>10, <1>11, <1>12, <1>13 DEF BuildNext

=============================================================================
