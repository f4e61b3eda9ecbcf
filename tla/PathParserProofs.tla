-------------------------- MODULE PathParserProofs --------------------------
(***************************************************************************)
(* What the path parser hands to the queries, for every text and every     *)
(* size of int.                                                            *)
(***************************************************************************)
EXTENDS PathParser, NumberFacts

(* A run of characters with some property ends, at the latest at the end   *)
(* of the text.                                                            *)
LEMMA RunEnds ==
  ASSUME NEW t \in Seq(STRING), NEW S, NEW p \in 1 .. Len(t) + 1
  PROVE  \E q \in p .. Len(t) + 1 :
           (\A k \in p .. q - 1 : t[k] \in S) /\ (q <= Len(t) => t[q] \notin S)
<1> DEFINE T == {k \in p .. Len(t) : t[k] \notin S}
<1>1. CASE T = {}
  <2> WITNESS Len(t) + 1 \in p .. Len(t) + 1
  <2> QED  BY <1>1
<1>2. CASE T # {}
  <2>0. T \subseteq Nat
    OBVIOUS
  <2> HIDE DEF T
  <2>1. PICK q \in T : \A y \in T : q <= y
    BY <1>2, <2>0, LeastExists
  <2> USE DEF T
  <2>2. \A k \in p .. q - 1 : t[k] \in S
    BY <2>1
  <2> QED
    BY <2>1, <2>2
<1> QED
  BY <1>1, <1>2

LEMMA PastBound ==
  ASSUME spec \in Seq(STRING), NEW S, NEW p \in 1 .. Len(spec) + 1
  PROVE  Past(S, p) \in p .. Len(spec) + 1
BY RunEnds DEF Past

(* A key is a piece of the text.                                           *)
LEMMA KeyBounds ==
  ASSUME spec \in Seq(STRING), first \in 1 .. Len(spec) + 1
  PROVE  /\ key_begin \in 1 .. Len(spec) + 1
         /\ key_end \in key_begin .. Len(spec) + 1
<1>1. key_begin \in first .. Len(spec) + 1
  BY PastBound DEF key_begin, Skip
<1> DEFINE Others == STRING \ KeyStops
<1>b. key_begin \in 1 .. Len(spec) + 1
  BY <1>1
<1> HIDE DEF Others
<1>2. \E q \in key_begin .. Len(spec) + 1 :
        /\ \A k \in key_begin .. q - 1 : spec[k] \in Others
        /\ q <= Len(spec) => spec[q] \notin Others
  BY <1>b, RunEnds
<1> USE DEF Others
<1>3. \E q \in key_begin .. Len(spec) + 1 :
        /\ \A k \in key_begin .. q - 1 : spec[k] \notin KeyStops
        /\ q <= Len(spec) => spec[q] \in KeyStops
  BY <1>1, <1>2
<1> QED
  BY <1>1, <1>3 DEF key_end

-----------------------------------------------------------------------------
(* The inductive invariant: the positions are in the text, and an index is *)
(* only ever pushed when the last element is a key.                        *)
PathInv ==
  /\ spec \in Seq(STRING)
  /\ first \in 1 .. Len(spec) + 1
  /\ back \in 1 .. Len(spec) + 1
  /\ path \in Seq(Element)
  /\ IndexAfterKey(path)
  /\ rule = "index" => path # << >> /\ path[Len(path)].type = "key"
  /\ PathsUsable

(* Pushing a key keeps a path in order, and so does pushing an index       *)
(* after a key.                                                            *)
LEMMA PushKeepsOrder ==
  ASSUME NEW p \in Seq(Element), IndexAfterKey(p), NEW e \in Element,
         e.type = "key" \/ (p # << >> /\ p[Len(p)].type = "key")
  PROVE  Append(p, e) \in Seq(Element) /\ IndexAfterKey(Append(p, e))
<1>1. Append(p, e) \in Seq(Element) /\ Len(Append(p, e)) = Len(p) + 1 /\ Len(p) \in Nat
  OBVIOUS
<1>2. \A k \in 1 .. Len(p) : Append(p, e)[k] = p[k]
  OBVIOUS
<1>3. Append(p, e)[Len(p) + 1] = e
  OBVIOUS
<1>4. p # << >> => Len(p) >= 1
  OBVIOUS
<1>5. ASSUME NEW k \in 1 .. Len(p) + 1, Append(p, e)[k].type = "index"
      PROVE  k > 1 /\ Append(p, e)[k - 1].type = "key"
  <2>1. CASE k \in 1 .. Len(p)
    <3>1. k > 1 /\ p[k - 1].type = "key"
      BY <1>2, <1>5, <2>1 DEF IndexAfterKey
    <3> QED
      BY <1>1, <1>2, <2>1, <3>1
  <2>2. CASE k = Len(p) + 1
    BY <1>1, <1>2, <1>3, <1>4, <1>5, <2>2
  <2> QED
    BY <1>1, <2>1, <2>2
<1> QED
  BY <1>1, <1>5 DEF IndexAfterKey

LEMMA PathInit == Init => PathInv
BY SpecsAssumption DEF Init, PathInv, PathsUsable, IndexAfterKey

(* Steps that push nothing.                                                *)
LEMMA QuietStep ==
  ASSUME PathInv, UNCHANGED <<spec, path, paths>>, rule' \notin {"index", "accepted"},
         first' \in 1 .. Len(spec) + 1, back' \in 1 .. Len(spec) + 1
  PROVE  PathInv'
BY DEF PathInv, PathsUsable, IndexAfterKey

LEMMA PathStep == PathInv /\ [PathNext]_pathVars => PathInv'
<1> SUFFICES ASSUME PathInv, [PathNext]_pathVars PROVE PathInv'
  OBVIOUS
<1>0. spec \in Seq(STRING) /\ Len(spec) \in Nat /\ first \in 1 .. Len(spec) + 1
  BY DEF PathInv
<1>a. Skip(first) \in first .. Len(spec) + 1
  BY <1>0, PastBound DEF Skip
<1>1. CASE Key
  <2> DEFINE e == [type |-> "key", key |-> SubSeq(spec, key_begin, key_end - 1)]
  <2>1. key_begin \in 1 .. Len(spec) + 1 /\ key_end \in key_begin .. Len(spec) + 1
    BY <1>0, KeyBounds
  <2>2. SubSeq(spec, key_begin, key_end - 1) \in Seq(STRING)
    BY <1>0, <2>1
  <2>3. e \in Element /\ e.type = "key"
    BY <2>2 DEF Element
  <2>4. Append(path, e) \in Seq(Element) /\ IndexAfterKey(Append(path, e))
    BY <2>3, PushKeepsOrder DEF PathInv
  <2>5. path' = Append(path, e) /\ first' = key_end /\ rule' = "index"
        /\ UNCHANGED <<spec, back, paths>>
    BY <1>1 DEF Key
  <2>6. path' # << >> /\ path'[Len(path')].type = "key"
    BY <2>3, <2>5 DEF PathInv
  <2>7. PathsUsable'
    BY <2>5 DEF PathInv, PathsUsable, IndexAfterKey
  <2> QED
    BY <1>0, <2>1, <2>4, <2>5, <2>6, <2>7 DEF PathInv, IndexAfterKey
<1>2. CASE EmptyPath
  BY <1>2, QuietStep DEF EmptyPath, PathInv
<1>3. CASE NoItem
  BY <1>3, QuietStep DEF NoItem, PathInv
<1>4. ASSUME HasInt, PushIndex, rule = "index", rule' = "dot",
             first' \in 1 .. Len(spec) + 1, UNCHANGED <<spec, back, paths>>
      PROVE  PathInv'
  <2> DEFINE e == [type |-> "index", index |-> int_]
  <2>1. int_ \in Int
    BY <1>4, IntMaxAssumption DEF HasInt
  <2>2. e \in Element
    BY <2>1 DEF Element
  <2>3. Append(path, e) \in Seq(Element) /\ IndexAfterKey(Append(path, e))
    BY <1>4, <2>2, PushKeepsOrder DEF PathInv
  <2>4. path' = Append(path, e)
    BY <1>4 DEF PushIndex
  <2>5. PathsUsable'
    BY <1>4 DEF PathInv, PathsUsable, IndexAfterKey
  <2> QED
    BY <1>4, <2>3, <2>4, <2>5 DEF PathInv, IndexAfterKey
<1>5. CASE Index
  <2>1. Skip(first) + 1 \in 1 .. Len(spec) + 1
    BY <1>0, <1>a, <1>5 DEF Index, HasInt, At
  <2>2. int_begin \in 1 .. Len(spec) + 1
    BY <1>0, <2>1, PastBound DEF int_begin, Skip
  <2>3. digits \in 1 .. Len(spec) + 1
    BY <1>0, <2>2 DEF digits
  <2>4. int_end \in 1 .. Len(spec) + 1
    BY <1>0, <2>3, PastBound DEF int_end
  <2>5. Skip(int_end) \in 1 .. Len(spec) + 1
    BY <1>0, <2>4, PastBound DEF Skip
  <2>6. first' \in 1 .. Len(spec) + 1
    BY <1>0, <1>5, <2>5 DEF Index, HasClosing, At
  <2> QED
    BY <1>4, <1>5, <2>6 DEF Index
<1>6. CASE HalfIndex
  BY <1>0, <1>4, <1>6 DEF HalfIndex
<1>7. CASE NoIndex
  BY <1>7, QuietStep DEF NoIndex, PathInv
<1>8. CASE Dot
  <2>1. first' \in 1 .. Len(spec) + 1
    BY <1>0, <1>a, <1>8 DEF Dot, At
  <2> QED
    BY <1>8, <2>1, QuietStep DEF Dot, PathInv
<1>9. CASE NoDot
  BY <1>9, QuietStep DEF NoDot, PathInv
<1>10. ASSUME PathDone, UNCHANGED <<spec, back>>, rule' # "index",
              first' \in 1 .. Len(spec) + 1
       PROVE  PathInv'
  <2>1. paths' = Append(paths, path) /\ path' = << >>
    BY <1>10 DEF PathDone
  <2>2. paths \in Seq(Seq(Element)) /\ path \in Seq(Element)
    BY DEF PathInv, PathsUsable
  <2>3. paths' \in Seq(Seq(Element)) /\ Len(paths') = Len(paths) + 1 /\ paths' # << >>
    BY <2>1, <2>2
  <2>4. \A k \in 1 .. Len(paths') : paths'[k] = path \/ (k \in 1 .. Len(paths) /\ paths'[k] = paths[k])
    BY <2>1, <2>2
  <2>5. \A k \in 1 .. Len(paths') : IndexAfterKey(paths'[k])
    BY <2>4 DEF PathInv, PathsUsable
  <2>6. PathsUsable'
    BY <2>3, <2>5 DEF PathsUsable, IndexAfterKey
  <2>7. path' \in Seq(Element) /\ IndexAfterKey(path')
    BY <2>1 DEF IndexAfterKey
  <2> QED
    BY <1>10, <2>6, <2>7 DEF PathInv, IndexAfterKey
<1>11. CASE Comma
  <2>0. first' = Skip(first) + 1 /\ Skip(first) <= Len(spec) /\ rule' = "path"
    BY <1>11, Zenon DEF Comma, At
  <2>1. first' \in 1 .. Len(spec) + 1 /\ rule' # "index"
    BY <1>0, <1>a, <2>0
  <2> QED
    BY <1>10, <1>11, <2>1 DEF Comma
<1>12. CASE End
  <2>0. first' = Skip(first) /\ rule' \in {"accepted", "threw"}
    BY <1>12 DEF End
  <2>1. first' \in 1 .. Len(spec) + 1 /\ rule' # "index"
    BY <1>0, <1>a, <2>0
  <2> QED
    BY <1>10, <1>12, <2>1 DEF End
<1>13. CASE UNCHANGED pathVars
  BY <1>13 DEF pathVars, PathInv, PathsUsable, IndexAfterKey
<1> QED
  BY <1>1, <1>2, <1>3, <1>5, <1>6, <1>7, <1>8, <1>9, <1>11, <1>12, <1>13 DEF PathNext

(* Whatever text parse() is given, the paths it returns are well typed and *)
(* have an index only right after a key, although the number of a bracket  *)
(* that turned out not to be closed stays pushed.                          *)
THEOREM PathParserUsable == PathSpec => []PathsUsable
<1>1. PathSpec => []PathInv
  BY PathInit, PathStep, PTL DEF PathSpec
<1>2. PathInv => PathsUsable
  BY DEF PathInv
<1> QED
  BY <1>1, <1>2, PTL

=============================================================================
