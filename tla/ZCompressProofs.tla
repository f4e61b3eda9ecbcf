-------------------------- MODULE ZCompressProofs --------------------------
(***************************************************************************)
(* Proofs about zrandom::compress, for every block size, every size of the *)
(* input and every number of bytes a block may deflate to.                 *)
(***************************************************************************)
EXTENDS ZCompress, NumberFacts

Extent == [at : Nat, len : Nat, raw : Nat, size : Nat]

(* What has been read: the blocks so far are full, or the last one was     *)
(* not and the file is at its end.                                         *)
Reading ==
  /\ fin <= in_size /\ original_size = fin
  /\ flush = "full_flush" => fin = Len(payload) * BlockSize
  /\ flush = "finish" => /\ fin = in_size /\ Len(payload) >= 1
                         /\ (Len(payload) - 1) * BlockSize <= in_size
                         /\ in_size < (Len(payload) - 1) * BlockSize + BlockSize

(* Where the program stands, and what is in the file by then.              *)
Standing ==
  /\ zpc = "read" => flush = "full_flush" /\ pending = 0
  /\ zpc = "deflate" => Len(payload) >= 1
  /\ zpc \in {"freeze", "patch", "written"} => flush = "finish" /\ pending = 0
  /\ zpc \in {"read", "deflate", "freeze"} => trailer = NoTrailer
  /\ zpc \in {"patch", "written"} =>
       trailer = [original_size |-> original_size, block_size |-> BlockSize,
                  offsets |-> checkpoints]
  /\ header = IF zpc = "written" THEN compressed_size ELSE 0

(* Every block but the one zlib is working on has bytes, and the blocks    *)
(* do not overlap: no two of them start at the same offset.                *)
Disjoint ==
  /\ \A n \in 1 .. Len(payload) :
       /\ payload[n].at + payload[n].len <= compressed_size
       /\ payload[n].len + (IF n = Len(payload) THEN pending ELSE 0) > 0
  /\ \A m, n \in 1 .. Len(payload) :
       m < n => payload[m].at + payload[m].len <= payload[n].at

CompressInv == CompressTypeOK /\ Reading /\ Standing /\ Disjoint /\ BlocksLaidOut

-----------------------------------------------------------------------------
LEMMA LeastIs ==
  ASSUME NEW m \in Nat, NEW n \in Nat
  PROVE  /\ Least(m, n) \in Nat /\ Least(m, n) <= m /\ Least(m, n) <= n
         /\ Least(m, n) = m \/ Least(m, n) = n
BY DEF Least

LEMMA CompressInitInv == CompressInit => CompressInv
<1> SUFFICES ASSUME CompressInit PROVE CompressInv
  OBVIOUS
<1>1. Len(payload) = 0 /\ Len(checkpoints) = 0
  BY DEF CompressInit
<1>2. CompressTypeOK
  BY CompressAssumption DEF CompressInit, CompressTypeOK, NoTrailer
<1>3. Reading /\ Standing
  BY <1>1, CompressAssumption DEF CompressInit, Reading, Standing
<1>4. Disjoint /\ BlocksLaidOut
  BY <1>1 DEF CompressInit, Disjoint, BlocksLaidOut
<1> QED
  BY <1>2, <1>3, <1>4 DEF CompressInv

LEMMA ReadBlockInv == CompressInv /\ ReadBlock => CompressInv'
<1> SUFFICES ASSUME CompressInv, ReadBlock PROVE CompressInv'
  OBVIOUS
<1> DEFINE L == Len(payload)
           e == [at |-> compressed_size, len |-> 0, raw |-> fin, size |-> gcount]
<1> USE CompressAssumption
<1>1. /\ zpc = "read" /\ flush = "full_flush" /\ pending = 0
      /\ payload \in Seq(Extent) /\ checkpoints \in Seq(Nat) /\ L \in Nat
      /\ fin \in Nat /\ in_size \in Nat /\ compressed_size \in Nat
      /\ fin <= in_size /\ original_size = fin /\ Len(checkpoints) = L
  BY DEF ReadBlock, CompressInv, CompressTypeOK, Reading, Standing, BlocksLaidOut, Extent
<1>1a. fin = L * BlockSize
  BY <1>1 DEF CompressInv, Reading
<1>2. gcount \in Nat /\ gcount <= BlockSize /\ gcount <= in_size - fin
      /\ (gcount < BlockSize => gcount = in_size - fin)
  <2>1. in_size - fin \in Nat /\ BlockSize \in Nat
    BY <1>1
  <2> QED
    BY <2>1, LeastIs DEF gcount
<1>3. /\ fin' = fin + gcount /\ original_size' = original_size + gcount
      /\ flush' = IF gcount < BlockSize THEN "finish" ELSE flush
      /\ checkpoints' = Append(checkpoints, compressed_size)
      /\ pending' \in Deflated /\ payload' = Append(payload, e) /\ zpc' = "deflate"
      /\ in_size' = in_size /\ compressed_size' = compressed_size
      /\ trailer' = trailer /\ header' = header
  BY DEF ReadBlock
<1>4. e \in Extent
  BY <1>1, <1>2 DEF Extent
<1>5. payload' \in Seq(Extent) /\ Len(payload') = L + 1
      /\ (\A n \in 1 .. L : payload'[n] = payload[n]) /\ payload'[L + 1] = e
  BY <1>1, <1>3, <1>4
<1>6. checkpoints' \in Seq(Nat) /\ Len(checkpoints') = L + 1
      /\ (\A n \in 1 .. L : checkpoints'[n] = checkpoints[n])
      /\ checkpoints'[L + 1] = compressed_size
  BY <1>1, <1>3
<1>7. pending' \in Nat \ {0}
  BY <1>3
<1>8. CompressTypeOK'
  BY <1>1, <1>2, <1>3, <1>5, <1>6, <1>7 DEF CompressInv, CompressTypeOK, Extent
<1>9. (L + 1) * BlockSize = L * BlockSize + BlockSize
  BY <1>1
<1>10. Reading'
  <2>1. fin' <= in_size' /\ original_size' = fin'
    BY <1>1, <1>2, <1>3
  <2>2. CASE gcount < BlockSize
    <3>1. flush' = "finish" /\ fin' = in_size /\ in_size < L * BlockSize + BlockSize
          /\ L * BlockSize <= in_size
      BY <1>1a, <1>1, <1>2, <1>3, <2>2
    <3>2. Len(payload') - 1 = L /\ Len(payload') >= 1
      BY <1>1, <1>5
    <3> QED
      BY <1>3, <2>1, <3>1, <3>2 DEF Reading
  <2>3. CASE gcount = BlockSize
    <3>1. flush' = "full_flush"
      BY <1>1, <1>3, <2>3
    <3>2. fin' = (L + 1) * BlockSize
      BY <1>1a, <1>3, <1>9, <2>3
    <3> QED
      BY <1>5, <2>1, <3>1, <3>2 DEF Reading
  <2> QED
    BY <1>2, <2>2, <2>3
<1>11. Standing'
  BY <1>1, <1>3, <1>5 DEF CompressInv, Standing
<1>12. Disjoint'
  <2>1. ASSUME NEW n \in 1 .. L + 1
        PROVE  /\ payload'[n].at + payload'[n].len <= compressed_size
               /\ payload'[n].len + (IF n = L + 1 THEN pending' ELSE 0) > 0
    <3>1. CASE n = L + 1
      BY <1>1, <1>5, <1>7, <3>1
    <3>2. CASE n \in 1 .. L
      <4>1. /\ payload[n].at + payload[n].len <= compressed_size
            /\ payload[n].len + (IF n = L THEN 0 ELSE 0) > 0
        BY <1>1, <3>2 DEF CompressInv, Disjoint
      <4>2. payload[n] \in Extent /\ n # L + 1 /\ payload'[n] = payload[n]
        BY <1>1, <1>5, <3>2
      <4>3. payload[n].len \in Nat
        BY <4>2 DEF Extent
      <4> QED
        BY <4>1, <4>2, <4>3
    <3> QED
      BY <1>1, <3>1, <3>2
  <2>2. ASSUME NEW m \in 1 .. L + 1, NEW n \in 1 .. L + 1, m < n
        PROVE  payload'[m].at + payload'[m].len <= payload'[n].at
    <3>1. m \in 1 .. L
      BY <1>1, <2>2
    <3>2. CASE n = L + 1
      BY <1>1, <1>5, <3>1, <3>2 DEF CompressInv, Disjoint
    <3>3. CASE n \in 1 .. L
      BY <1>5, <2>2, <3>1, <3>3 DEF CompressInv, Disjoint
    <3> QED
      BY <1>1, <3>2, <3>3
  <2> QED
    BY <1>3, <1>5, <2>1, <2>2 DEF Disjoint
<1>13. BlocksLaidOut'
  <2>1. ASSUME NEW n \in 1 .. L + 1
        PROVE  /\ payload'[n].at = checkpoints'[n]
               /\ payload'[n].raw = (n - 1) * BlockSize
               /\ payload'[n].size = Least(BlockSize, in_size - payload'[n].raw)
               /\ payload'[n].at + payload'[n].len =
                    (IF n < L + 1 THEN checkpoints'[n + 1] ELSE compressed_size)
    <3>1. CASE n = L + 1
      <4>1. (n - 1) * BlockSize = L * BlockSize
        BY <1>1, <3>1
      <4>2. e.at + e.len = compressed_size
        BY <1>1
      <4> QED
        BY <1>1a, <1>1, <1>5, <1>6, <3>1, <4>1, <4>2 DEF gcount
    <3>2. CASE n \in 1 .. L
      <4>1. /\ payload[n].at = checkpoints[n]
            /\ payload[n].raw = (n - 1) * BlockSize
            /\ payload[n].size = Least(BlockSize, in_size - payload[n].raw)
            /\ payload[n].at + payload[n].len =
                 (IF n < L THEN checkpoints[n + 1] ELSE compressed_size)
        BY <3>2 DEF CompressInv, BlocksLaidOut
      <4>2. n < L => n + 1 \in 1 .. L
        BY <1>1, <3>2
      <4>3. ~ (n < L) => n + 1 = L + 1
        BY <1>1, <3>2
      <4>4. checkpoints'[n + 1] = IF n < L THEN checkpoints[n + 1] ELSE compressed_size
        BY <1>6, <4>2, <4>3
      <4>5. n < L + 1
        BY <1>1, <3>2
      <4> QED
        BY <1>5, <1>6, <3>2, <4>1, <4>4, <4>5
    <3> QED
      BY <1>1, <3>1, <3>2
  <2> QED
    BY <1>3, <1>5, <1>6, <2>1 DEF BlocksLaidOut
<1> QED
  BY <1>8, <1>10, <1>11, <1>12, <1>13 DEF CompressInv

LEMMA DeflateInv == CompressInv /\ Deflate => CompressInv'
<1> SUFFICES ASSUME CompressInv, Deflate PROVE CompressInv'
  OBVIOUS
<1> DEFINE L == Len(payload)
<1> USE CompressAssumption
<1>1. /\ zpc = "deflate" /\ payload \in Seq(Extent) /\ L \in Nat /\ L >= 1
      /\ checkpoints \in Seq(Nat) /\ pending \in Nat /\ compressed_size \in Nat
      /\ in_size \in Nat /\ header = 0
  BY DEF Deflate, CompressInv, CompressTypeOK, Standing, Extent
<1>2. have \in Nat /\ have <= pending /\ (have # BlockSize => have = pending)
  BY <1>1, LeastIs DEF have
<1>3. /\ pending' = pending - have /\ compressed_size' = compressed_size + have
      /\ payload' = [payload EXCEPT ![L].len = @ + have]
      /\ zpc' = IF have = BlockSize THEN "deflate"
                ELSE IF flush = "finish" THEN "freeze" ELSE "read"
      /\ in_size' = in_size /\ fin' = fin /\ flush' = flush
      /\ checkpoints' = checkpoints /\ original_size' = original_size
      /\ trailer' = trailer /\ header' = header
  BY DEF Deflate
<1>4. payload' \in Seq(Extent) /\ Len(payload') = L
      /\ (\A n \in 1 .. L : n # L => payload'[n] = payload[n])
      /\ payload'[L].at = payload[L].at /\ payload'[L].raw = payload[L].raw
      /\ payload'[L].size = payload[L].size /\ payload'[L].len = payload[L].len + have
  <2>1. L \in 1 .. L /\ payload[L] \in Extent
    BY <1>1
  <2> DEFINE e == [payload[L] EXCEPT !.len = @ + have]
  <2>2. /\ e \in Extent /\ e.at = payload[L].at /\ e.raw = payload[L].raw
        /\ e.size = payload[L].size /\ e.len = payload[L].len + have
    BY <1>2, <2>1 DEF Extent
  <2>3. payload' = [payload EXCEPT ![L] = e]
    BY <1>3
  <2> HIDE DEF e
  <2>4. payload' \in Seq(Extent) /\ Len(payload') = L /\ payload'[L] = e
        /\ (\A n \in 1 .. L : n # L => payload'[n] = payload[n])
    BY <1>1, <2>1, <2>2, <2>3
  <2> QED
    BY <2>2, <2>4
<1>5. CompressTypeOK'
  <2>1. pending' \in Nat /\ compressed_size' \in Nat
    BY <1>1, <1>2, <1>3
  <2>2. payload' \in Seq([at : Nat, len : Nat, raw : Nat, size : Nat])
    BY <1>4 DEF Extent
  <2>3. zpc' \in {"read", "deflate", "freeze", "patch", "written"}
    BY <1>3
  <2> QED
    BY <1>3, <2>1, <2>2, <2>3 DEF CompressInv, CompressTypeOK
<1>6. Reading'
  BY <1>3, <1>4 DEF CompressInv, Reading
<1>7. Standing'
  BY <1>1, <1>2, <1>3, <1>4 DEF CompressInv, CompressTypeOK, Standing
<1>8. \A n \in 1 .. L : payload[n] \in Extent
  BY <1>1
<1>9. payload[L].at + payload[L].len = compressed_size
  BY <1>1 DEF CompressInv, BlocksLaidOut
<1>10. Disjoint'
  <2>1. ASSUME NEW n \in 1 .. L
        PROVE  /\ payload'[n].at + payload'[n].len <= compressed_size'
               /\ payload'[n].len + (IF n = L THEN pending' ELSE 0) > 0
    <3>1. CASE n = L
      <4>1. payload[L].at \in Nat /\ payload[L].len \in Nat
        BY <1>8, <3>1 DEF Extent
      <4>2. payload[L].len + pending > 0
        BY <3>1 DEF CompressInv, Disjoint
      <4>3. /\ payload'[L].at + payload'[L].len <= compressed_size'
            /\ payload'[L].len + pending' > 0
        <5>1. /\ payload'[L].at = payload[L].at
              /\ payload'[L].len = payload[L].len + have
              /\ pending' = pending - have /\ compressed_size' = compressed_size + have
              /\ pending \in Nat /\ compressed_size \in Nat /\ have \in Nat
          BY <1>1, <1>2, <1>3, <1>4
        <5>2. payload'[L].at + payload'[L].len = compressed_size'
          BY <1>9, <4>1, <5>1
        <5>3. compressed_size' \in Nat
          BY <5>1
        <5>4. payload'[L].len + pending' = payload[L].len + pending
          BY <4>1, <5>1
        <5> QED
          BY <4>2, <5>2, <5>3, <5>4
      <4> QED
        BY <3>1, <4>3
    <3>2. CASE n # L
      <4>1. payload[n].at \in Nat /\ payload[n].len \in Nat
        BY <1>8 DEF Extent
      <4>2. payload[n].at + payload[n].len <= compressed_size
            /\ payload[n].len + 0 > 0
        BY <3>2 DEF CompressInv, Disjoint
      <4>3. payload'[n] = payload[n]
        BY <1>4, <3>2
      <4> QED
        BY <1>1, <1>2, <1>3, <3>2, <4>1, <4>2, <4>3
    <3> QED
      BY <3>1, <3>2
  <2>2. ASSUME NEW m \in 1 .. L, NEW n \in 1 .. L, m < n
        PROVE  payload'[m].at + payload'[m].len <= payload'[n].at
    <3>1. m # L
      BY <1>1, <2>2
    <3>2. payload[m].at + payload[m].len <= payload[n].at
      BY <2>2 DEF CompressInv, Disjoint
    <3>3. payload'[n].at = payload[n].at
      BY <1>4
    <3> QED
      BY <1>4, <3>1, <3>2, <3>3
  <2> QED
    BY <1>4, <2>1, <2>2 DEF Disjoint
<1>11. BlocksLaidOut'
  <2>1. ASSUME NEW n \in 1 .. L
        PROVE  /\ payload'[n].at = checkpoints[n]
               /\ payload'[n].raw = (n - 1) * BlockSize
               /\ payload'[n].size = Least(BlockSize, in_size - payload'[n].raw)
               /\ payload'[n].at + payload'[n].len =
                    (IF n < L THEN checkpoints[n + 1] ELSE compressed_size')
    <3>1. /\ payload[n].at = checkpoints[n]
          /\ payload[n].raw = (n - 1) * BlockSize
          /\ payload[n].size = Least(BlockSize, in_size - payload[n].raw)
          /\ n # L => payload[n].at + payload[n].len = checkpoints[n + 1]
      <4>1. n # L => n < L
        BY <1>1
      <4> QED
        BY <4>1 DEF CompressInv, BlocksLaidOut
    <3>2. CASE n = L
      <4>1. payload[L].at \in Nat /\ payload[L].len \in Nat /\ ~ (n < L)
        BY <1>1, <1>8, <3>2 DEF Extent
      <4>2. payload'[L].at + payload'[L].len = compressed_size'
        BY <1>1, <1>2, <1>3, <1>4, <1>9, <4>1
      <4> QED
        BY <1>4, <3>1, <3>2, <4>1, <4>2
    <3>3. CASE n # L
      BY <1>1, <1>4, <3>1, <3>3
    <3> QED
      BY <3>2, <3>3
  <2>2. Len(payload') = Len(checkpoints')
    BY <1>3, <1>4 DEF CompressInv, BlocksLaidOut
  <2> QED
    BY <1>3, <1>4, <2>1, <2>2 DEF BlocksLaidOut
<1> QED
  BY <1>5, <1>6, <1>7, <1>10, <1>11 DEF CompressInv

LEMMA CompressStep == CompressInv /\ [CompressNext]_compressVars => CompressInv'
<1> SUFFICES ASSUME CompressInv, [CompressNext]_compressVars PROVE CompressInv'
  OBVIOUS
<1> USE CompressAssumption
<1>1. CASE ReadBlock
  BY <1>1, ReadBlockInv
<1>2. CASE Deflate
  BY <1>2, DeflateInv
<1>3. CASE FreezeTrailer
  BY <1>3 DEF FreezeTrailer, CompressInv, CompressTypeOK, Reading, Standing, Disjoint,
              BlocksLaidOut
<1>4. CASE PatchHeader
  BY <1>4 DEF PatchHeader, CompressInv, CompressTypeOK, Reading, Standing, Disjoint,
              BlocksLaidOut
<1>5. CASE UNCHANGED compressVars
  BY <1>5 DEF compressVars, CompressInv, CompressTypeOK, Reading, Standing, Disjoint,
              BlocksLaidOut
<1> QED
  BY <1>1, <1>2, <1>3, <1>4, <1>5 DEF CompressNext

LEMMA CompressInvariant == CompressSpec => []CompressInv
BY CompressInitInv, CompressStep, PTL DEF CompressSpec

-----------------------------------------------------------------------------
(* A file that has been read to its end has a checkpoint for each of its   *)
(* offsets, its end included.                                              *)
LEMMA CheckpointCount ==
  ASSUME CompressInv, flush = "finish"
  PROVE  Len(checkpoints) = in_size \div BlockSize + 1
<1>1. /\ in_size \in Nat /\ BlockSize \in Nat \ {0} /\ Len(payload) - 1 \in Nat
      /\ (Len(payload) - 1) * BlockSize <= in_size
      /\ in_size < (Len(payload) - 1) * BlockSize + BlockSize
  BY CompressAssumption DEF CompressInv, CompressTypeOK, Reading
<1>2. in_size \div BlockSize = Len(payload) - 1
  BY <1>1, QuotientUnique
<1>3. Len(checkpoints) = Len(payload) /\ Len(payload) \in Nat
  BY DEF CompressInv, CompressTypeOK, BlocksLaidOut
<1> QED
  BY <1>2, <1>3

(* compress keeps its state well typed.                                    *)
THEOREM CompressTypeCorrect == CompressSpec => []CompressTypeOK
<1>1. CompressInv => CompressTypeOK
  BY DEF CompressInv
<1> QED
  BY <1>1, CompressInvariant, PTL

(* The deflate stream and the checkpoints agree at every moment: block k   *)
(* holds the k-th piece of the input and starts at the k-th checkpoint,    *)
(* where the block before it ends, however many calls of deflate it took.  *)
THEOREM CompressLaysOut == CompressSpec => []BlocksLaidOut
<1>1. CompressInv => BlocksLaidOut
  BY DEF CompressInv
<1> QED
  BY <1>1, CompressInvariant, PTL

(* A header other than the placeholder is only ever seen with the complete *)
(* stream and the complete trailer.                                        *)
THEOREM CompressCommits == CompressSpec => []HeaderCommits
<1>1. CompressInv => HeaderCommits
  <2> SUFFICES ASSUME CompressInv, header # 0 PROVE HeaderCommits
    BY DEF HeaderCommits
  <2>1. zpc = "written" /\ flush = "finish" /\ header = compressed_size /\ pending = 0
        /\ trailer = [original_size |-> original_size, block_size |-> BlockSize,
                      offsets |-> checkpoints]
        /\ original_size = in_size
    BY DEF CompressInv, Standing, Reading
  <2>2. Len(checkpoints) = in_size \div BlockSize + 1
    BY <2>1, CheckpointCount
  <2> QED
    BY <2>1, <2>2 DEF HeaderCommits
<1> QED
  BY <1>1, CompressInvariant, PTL

=============================================================================
