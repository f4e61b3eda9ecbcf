--------------------------- MODULE ZrandomProofs ---------------------------
(***************************************************************************)
(* Proofs about the decompressor, its cache and its iterators, for every   *)
(* file, block size, capacity of the cache, width of its clock and number  *)
(* of iterators.                                                           *)
(***************************************************************************)
EXTENDS Zrandom, ZCompressProofs, FiniteSetTheorems

Block == [first : Int, src : Int, size : Nat]
Entry == [time : Nat, block : Block]

(* Nothing is placed, cached or read before a decompressor is opened, and  *)
(* one is opened on a file that is written: before that the header its     *)
(* constructor reads is the placeholder.                                   *)
OpenedFirst ==
  /\ opened => zpc = "written" /\ m_compressed_size = header
  /\ ~opened => m_compressed_size \in {-1, 0}
  /\ \A it \in Iterators : iter[it].pos >= 0 => opened
  /\ ~opened => m_cur_block = [c \in Iterators |-> NoBlock]

CacheTyped ==
  /\ m_cache \in [DOMAIN m_cache -> Entry]
  /\ IsFiniteSet(DOMAIN m_cache)

ZInv == CompressInv /\ ZTypeOK /\ OpenedFirst /\ CacheTyped /\ RecencyKnown

-----------------------------------------------------------------------------
LEMMA InSizeConstant == CompressNext => in_size' = in_size
BY DEF CompressNext, ReadBlock, Deflate, FreezeTrailer, PatchHeader

LEMMA WrittenStays == CompressNext => zpc # "written"
BY DEF CompressNext, ReadBlock, Deflate, FreezeTrailer, PatchHeader

(* The constructor of the decompressor maps what compress wrote.           *)
LEMMA OpenedFile ==
  ASSUME CompressInv, zpc = "written"
  PROVE  /\ m_original_size = in_size /\ m_block_size = BlockSize
         /\ m_offsets = checkpoints /\ header = compressed_size
         /\ pending = 0
         /\ in_size \in Nat /\ BlockSize \in Nat \ {0}
         /\ Len(m_offsets) = in_size \div BlockSize + 1
<1>1. /\ flush = "finish" /\ pending = 0 /\ header = compressed_size
      /\ trailer = [original_size |-> original_size, block_size |-> BlockSize,
                    offsets |-> checkpoints]
      /\ original_size = in_size /\ in_size \in Nat
  BY DEF CompressInv, CompressTypeOK, Standing, Reading
<1>2. Len(checkpoints) = in_size \div BlockSize + 1
  BY <1>1, CheckpointCount
<1> QED
  BY <1>1, <1>2, CompressAssumption
     DEF m_original_size, m_block_size, m_offsets

(* The constructor finds the trailer where the header says exactly when    *)
(* compress is done; until then the header is the placeholder.             *)
LEMMA TrailerFound ==
  ASSUME CompressInv
  PROVE  /\ TrailerAt(header) <=> zpc = "written"
         /\ header \in Nat
         /\ zpc = "written" <=> header # 0
<1>1. /\ zpc \in {"read", "deflate", "freeze", "patch", "written"}
      /\ header \in Nat /\ compressed_size \in Nat
      /\ header = IF zpc = "written" THEN compressed_size ELSE 0
      /\ zpc \in {"read", "deflate", "freeze"} => trailer = NoTrailer
  BY DEF CompressInv, CompressTypeOK, Standing
<1>2. CASE zpc \in {"read", "deflate", "freeze"}
  BY <1>1, <1>2 DEF TrailerAt
<1>3. CASE zpc \in {"patch", "written"}
  <2>1. trailer # NoTrailer
    <3>1. trailer = [original_size |-> original_size, block_size |-> BlockSize,
                     offsets |-> checkpoints]
      BY <1>3 DEF CompressInv, Standing
    <3>2. trailer.block_size # 0 /\ NoTrailer.block_size = 0
      BY <3>1, CompressAssumption DEF NoTrailer
    <3> QED
      BY <3>2
  <2>2. compressed_size # 0
    <3>1. Len(payload) \in Nat /\ Len(payload) >= 1 /\ pending = 0
      BY <1>3 DEF CompressInv, CompressTypeOK, Standing, Reading
    <3>1a. payload \in Seq(Extent)
      BY DEF CompressInv, CompressTypeOK, Extent
    <3>2. payload[1] \in Extent
      BY <3>1, <3>1a
    <3>3. payload[1].at \in Nat /\ payload[1].len \in Nat
      BY <3>2 DEF Extent
    <3>4. 1 \in 1 .. Len(payload)
      BY <3>1
    <3>5. /\ payload[1].at + payload[1].len <= compressed_size
          /\ payload[1].len + (IF 1 = Len(payload) THEN pending ELSE 0) > 0
      BY <3>4 DEF CompressInv, Disjoint
    <3> QED
      BY <1>1, <3>1, <3>3, <3>5
  <2> QED
    BY <1>1, <1>3, <2>1, <2>2 DEF TrailerAt
<1> QED
  BY <1>1, <1>2, <1>3

(* The block of a position inside the file is one of the blocks.           *)
LEMMA BlockOfPosition ==
  ASSUME CompressInv, zpc = "written", NEW p \in 0 .. m_original_size - 1
  PROVE  LET id == p \div m_block_size IN
         /\ id \in 0 .. Len(m_offsets) - 1
         /\ id * BlockSize <= p /\ p < id * BlockSize + BlockSize /\ p < in_size
<1> DEFINE id == p \div BlockSize
           last == in_size \div BlockSize
<1>1. /\ m_original_size = in_size /\ m_block_size = BlockSize
      /\ in_size \in Nat /\ BlockSize \in Nat \ {0} /\ Len(m_offsets) = last + 1
  BY OpenedFile
<1>2. p \in Nat /\ p < in_size
  BY <1>1
<1>3. id \in Nat /\ id * BlockSize <= p /\ p < id * BlockSize + BlockSize
  BY <1>1, <1>2, QuotientBounds
<1>4. last \in Nat /\ last * BlockSize <= in_size /\ in_size < last * BlockSize + BlockSize
  BY <1>1, QuotientBounds
<1>5. p \div m_block_size = id
  BY <1>1
<1> HIDE DEF id, last
<1>6. (last + 1) * BlockSize = last * BlockSize + BlockSize
  BY <1>1, <1>4
<1>7. ~ (last + 1 <= id)
  <2> SUFFICES ASSUME last + 1 <= id PROVE FALSE
    OBVIOUS
  <2>1. (last + 1) * BlockSize <= id * BlockSize
    BY <1>1, <1>3, <1>4, MultiplesOrdered
  <2> DEFINE x == id * BlockSize
             y == last * BlockSize
             z == (last + 1) * BlockSize
  <2>2. x \in Nat /\ y \in Nat /\ z = y + BlockSize /\ z <= x /\ x <= p /\ in_size < y + BlockSize
    BY <1>1, <1>3, <1>4, <1>6, <2>1
  <2> HIDE DEF x, y, z
  <2> QED
    BY <1>1, <1>2, <2>2
<1>8. id \in 0 .. Len(m_offsets) - 1
  BY <1>1, <1>3, <1>4, <1>7
<1> QED
  BY <1>2, <1>3, <1>5, <1>8

-----------------------------------------------------------------------------
(* tick(): the clock moves on past every timestamp in use, or starts again *)
(* at 0 with no timestamp left.                                            *)
LEMMA TickRecency ==
  ASSUME NEW c, Tick(c), m_timestamp \in 0 .. TimeMod - 1,
         c \in [DOMAIN c -> Entry], IsFiniteSet(DOMAIN c), DOMAIN c \subseteq Nat,
         Cardinality(DOMAIN c) <= MaxEntries,
         \A k \in DOMAIN c : c[k].time <= m_timestamp,
         \A j, k \in DOMAIN c : j # k => c[j].time # c[k].time
  PROVE  /\ m_timestamp' \in 0 .. TimeMod - 1
         /\ DOMAIN m_cache' \subseteq Nat
         /\ CacheTyped' /\ RecencyKnown'
         /\ m_cache' = c \/ DOMAIN m_cache' = {}
<1> USE DecompressAssumption
<1>1. /\ m_timestamp' = (m_timestamp + 1) % TimeMod
      /\ m_cache' = IF m_timestamp' = 0 THEN EmptyCache ELSE c
  BY DEF Tick
<1>2. m_timestamp \in Nat /\ m_timestamp + 1 <= TimeMod
  OBVIOUS
<1>3. m_timestamp' = m_timestamp + 1 \/ m_timestamp' = 0
  BY <1>1, <1>2
<1>4. m_timestamp' \in 0 .. TimeMod - 1
  BY <1>1, <1>2
<1>5. CASE m_timestamp' = 0
  <2>1. m_cache' = EmptyCache /\ DOMAIN EmptyCache = {} /\ EmptyCache \in [{} -> Entry]
    BY <1>1, <1>5 DEF EmptyCache
  <2>2. IsFiniteSet({}) /\ Cardinality({}) = 0
    BY FS_EmptySet
  <2> QED
    BY <1>4, <2>1, <2>2 DEF CacheTyped, RecencyKnown
<1>6. CASE m_timestamp' # 0
  <2>1. m_cache' = c /\ m_timestamp' = m_timestamp + 1
    BY <1>1, <1>3, <1>6
  <2>2. \A k \in DOMAIN c : c[k].time \in Nat
    BY DEF Entry
  <2>3. \A k \in DOMAIN c : c[k].time < m_timestamp'
    BY <1>2, <2>1, <2>2
  <2> QED
    BY <1>4, <2>1, <2>3 DEF CacheTyped, RecencyKnown
<1> QED
  BY <1>5, <1>6

(* What an operation on the cache keeps of it.                             *)
CacheFacts ==
  /\ m_timestamp \in 0 .. TimeMod - 1
  /\ DOMAIN m_cache \subseteq Nat
  /\ CacheTyped /\ RecencyKnown

(* A hit makes the entry the most recent one and changes no block.         *)
LEMMA GetKeeps ==
  ASSUME CacheFacts, NEW id \in DOMAIN m_cache, Get(id)
  PROVE  /\ CacheFacts'
         /\ \A k \in DOMAIN m_cache' :
              k \in DOMAIN m_cache /\ m_cache'[k].block = m_cache[k].block
<1> DEFINE c == [m_cache EXCEPT ![id].time = m_timestamp]
<1>1. /\ m_cache \in [DOMAIN m_cache -> Entry] /\ IsFiniteSet(DOMAIN m_cache)
      /\ DOMAIN m_cache \subseteq Nat /\ Cardinality(DOMAIN m_cache) <= MaxEntries
      /\ m_timestamp \in 0 .. TimeMod - 1
  BY DEF CacheFacts, CacheTyped, RecencyKnown
<1>2. m_timestamp \in Nat
  BY <1>1, DecompressAssumption
<1>3. /\ DOMAIN c = DOMAIN m_cache
      /\ c[id].time = m_timestamp /\ c[id].block = m_cache[id].block
      /\ c[id] \in Entry
      /\ \A k \in DOMAIN m_cache : k # id => c[k] = m_cache[k]
      /\ c = [k \in DOMAIN m_cache |-> c[k]]
  <2>1. m_cache[id] \in Entry
    BY <1>1
  <2> DEFINE e == [m_cache[id] EXCEPT !.time = m_timestamp]
  <2>2. e \in Entry /\ e.time = m_timestamp /\ e.block = m_cache[id].block
    BY <1>2, <2>1 DEF Entry
  <2>3. c = [m_cache EXCEPT ![id] = e]
    OBVIOUS
  <2> HIDE DEF c, e
  <2> QED
    BY <1>1, <2>2, <2>3
<1>4. Tick(c)
  BY DEF Get
<1> HIDE DEF c
<1>5. c \in [DOMAIN c -> Entry]
  BY <1>1, <1>3
<1>6. \A k \in DOMAIN m_cache : m_cache[k].time \in Nat /\ m_cache[k].time < m_timestamp
  BY <1>1 DEF CacheFacts, RecencyKnown, Entry
<1>7. \A k \in DOMAIN c : c[k].time <= m_timestamp
  BY <1>2, <1>3, <1>6
<1>8. \A j, k \in DOMAIN c : j # k => c[j].time # c[k].time
  <2> SUFFICES ASSUME NEW j \in DOMAIN m_cache, NEW k \in DOMAIN m_cache, j # k
               PROVE  c[j].time # c[k].time
    BY <1>3
  <2>1. m_cache[j].time # m_cache[k].time
    BY DEF CacheFacts, RecencyKnown
  <2>2. m_cache[j].time # m_timestamp /\ m_cache[k].time # m_timestamp
    BY <1>2, <1>6
  <2> QED
    BY <1>3, <2>1, <2>2
<1>9. /\ m_timestamp' \in 0 .. TimeMod - 1 /\ DOMAIN m_cache' \subseteq Nat
      /\ CacheTyped' /\ RecencyKnown' /\ (m_cache' = c \/ DOMAIN m_cache' = {})
  BY <1>1, <1>3, <1>4, <1>5, <1>7, <1>8, TickRecency
<1> QED
  BY <1>3, <1>9 DEF CacheFacts

(* A full cache has an entry to drop, and what is kept leaves room.        *)
LEMMA KeptLeavesRoom ==
  ASSUME CacheFacts
  PROVE  /\ Kept \subseteq DOMAIN m_cache /\ IsFiniteSet(Kept)
         /\ Cardinality(Kept) \in Nat /\ Cardinality(Kept) < MaxEntries
<1> DEFINE D == DOMAIN m_cache
<1>1. IsFiniteSet(D) /\ D \subseteq Nat /\ Cardinality(D) <= MaxEntries
  BY DEF CacheFacts, CacheTyped, RecencyKnown
<1>2. Cardinality(D) \in Nat /\ MaxEntries \in Nat \ {0}
  BY <1>1, FS_CardinalityType, DecompressAssumption
<1>3. CASE Cardinality(D) = MaxEntries
  <2>1. D # {}
    BY <1>1, <1>2, <1>3, FS_EmptySet
  <2>2. \E k \in D : \A j \in D : k <= j
    BY <1>1, <2>1, LeastExists
  <2>3. Victim \in D
    BY <2>2 DEF Victim
  <2>4. IsFiniteSet(D \ {Victim}) /\ Cardinality(D \ {Victim}) = Cardinality(D) - 1
    BY <1>1, <2>3, FS_RemoveElement
  <2>5. Kept = D \ {Victim}
    BY <1>3 DEF Kept
  <2> QED
    BY <1>2, <1>3, <2>4, <2>5
<1>4. CASE Cardinality(D) # MaxEntries
  <2>1. Kept = D
    BY <1>4 DEF Kept
  <2> QED
    BY <1>1, <1>2, <1>4, <2>1
<1> QED
  BY <1>3, <1>4

(* A miss adds the block, as the most recent one, and drops at most one.   *)
LEMMA PutKeeps ==
  ASSUME CacheFacts, NEW id \in Nat, id \notin DOMAIN m_cache, NEW b \in Block, Put(id, b)
  PROVE  /\ CacheFacts'
         /\ \A k \in DOMAIN m_cache' :
              \/ k = id /\ m_cache'[k].block = b
              \/ k \in DOMAIN m_cache /\ m_cache'[k].block = m_cache[k].block
<1> DEFINE D == Kept \cup {id}
           c == [k \in D |-> IF k = id THEN [time |-> m_timestamp, block |-> b]
                             ELSE m_cache[k]]
<1>1. /\ m_cache \in [DOMAIN m_cache -> Entry] /\ IsFiniteSet(DOMAIN m_cache)
      /\ DOMAIN m_cache \subseteq Nat /\ m_timestamp \in 0 .. TimeMod - 1
  BY DEF CacheFacts, CacheTyped, RecencyKnown
<1>2. m_timestamp \in Nat /\ MaxEntries \in Nat
  BY <1>1, DecompressAssumption
<1>3. /\ Kept \subseteq DOMAIN m_cache /\ IsFiniteSet(Kept)
      /\ Cardinality(Kept) \in Nat /\ Cardinality(Kept) < MaxEntries /\ id \notin Kept
  BY KeptLeavesRoom
<1>4. IsFiniteSet(D) /\ Cardinality(D) <= MaxEntries
  <2>1. IsFiniteSet(D) /\ Cardinality(D) = Cardinality(Kept) + 1
    BY <1>3, FS_AddElement
  <2> QED
    BY <1>2, <1>3, <2>1
<1>5. /\ DOMAIN c = D /\ c[id] = [time |-> m_timestamp, block |-> b]
      /\ \A k \in D : k # id => k \in DOMAIN m_cache /\ c[k] = m_cache[k]
      /\ c = [k \in D |-> c[k]]
  BY <1>3
<1>6. Tick(c)
  BY DEF Put
<1> HIDE DEF c
<1>7. c[id] \in Entry /\ c[id].time = m_timestamp /\ c[id].block = b
  BY <1>2, <1>5 DEF Entry
<1>8. c \in [DOMAIN c -> Entry] /\ DOMAIN c \subseteq Nat
  BY <1>1, <1>5, <1>7
<1>9. \A k \in DOMAIN m_cache : m_cache[k].time \in Nat /\ m_cache[k].time < m_timestamp
  BY <1>1 DEF CacheFacts, RecencyKnown, Entry
<1>9a. ASSUME NEW k \in D, k # id PROVE c[k].time \in Nat /\ c[k].time < m_timestamp
  <2>1. k \in DOMAIN m_cache /\ c[k] = m_cache[k]
    BY <1>5, <1>9a
  <2> QED
    BY <1>9, <2>1
<1>10. ASSUME NEW k \in DOMAIN c PROVE c[k].time <= m_timestamp
  <2>1. k \in D
    BY <1>5
  <2>2. CASE k = id
    BY <1>2, <1>7, <2>2
  <2>3. CASE k # id
    <3>1. c[k].time \in Nat /\ c[k].time < m_timestamp
      BY <1>9a, <2>1, <2>3
    <3> QED
      BY <1>2, <3>1
  <2> QED
    BY <2>2, <2>3
<1>11. \A j, k \in DOMAIN c : j # k => c[j].time # c[k].time
  <2> SUFFICES ASSUME NEW j \in D, NEW k \in D, j # k
               PROVE  c[j].time # c[k].time
    BY <1>5
  <2>1. j # id => c[j].time # m_timestamp
    BY <1>2, <1>9a
  <2>2. k # id => c[k].time # m_timestamp
    BY <1>2, <1>9a
  <2>3. j # id /\ k # id => m_cache[j].time # m_cache[k].time
    BY <1>5 DEF CacheFacts, RecencyKnown
  <2> QED
    BY <1>5, <1>7, <2>1, <2>2, <2>3
<1>12. /\ m_timestamp' \in 0 .. TimeMod - 1 /\ DOMAIN m_cache' \subseteq Nat
       /\ CacheTyped' /\ RecencyKnown' /\ (m_cache' = c \/ DOMAIN m_cache' = {})
  BY <1>1, <1>4, <1>5, <1>6, <1>8, <1>10, <1>11, TickRecency
<1> QED
  BY <1>5, <1>7, <1>12 DEF CacheFacts

-----------------------------------------------------------------------------
LEMMA ZInitInv == Init => ZInv
<1> SUFFICES ASSUME Init PROVE ZInv
  OBVIOUS
<1>1. CompressInv /\ in_size \in Nat
  BY CompressInitInv DEF Init, CompressInv, CompressTypeOK
<1>2. /\ opened = FALSE /\ m_compressed_size = -1 /\ m_timestamp = 0 /\ m_cache = EmptyCache
      /\ iter = [it \in Iterators |-> NoIterator]
      /\ m_cur_block = [c \in Iterators |-> NoBlock] /\ result = NotRead
  BY DEF Init
<1>3. DOMAIN m_cache = {} /\ m_cache \in [{} -> Entry]
  BY <1>2 DEF EmptyCache
<1>4. CacheTyped /\ RecencyKnown
  BY <1>3, FS_EmptySet, DecompressAssumption DEF CacheTyped, RecencyKnown
<1>5. ASSUME NEW it \in Iterators
      PROVE  NoIterator.pos = -1 /\ NoIterator \in [pos : -1 .. in_size, cell : Iterators]
  BY <1>1 DEF NoIterator
<1>6. NoBlock \in [first : Int, src : Int, size : Nat] /\ NotRead \in [pos : Int, byte : Int]
  BY DEF NoBlock, NotRead
<1>7. ZTypeOK
  <2>1. iter \in [Iterators -> [pos : -1 .. in_size, cell : Iterators]]
    BY <1>2, <1>5
  <2>2. m_timestamp \in 0 .. TimeMod - 1
    BY <1>2, DecompressAssumption
  <2>3. DOMAIN m_cache \subseteq Nat /\ opened \in BOOLEAN /\ m_compressed_size \in Nat \cup {-1}
    BY <1>2, <1>3
  <2>4. m_cur_block \in [Iterators -> [first : Int, src : Int, size : Nat]]
        /\ result \in [pos : Int, byte : Int]
    BY <1>2, <1>6
  <2> QED
    BY <2>1, <2>2, <2>3, <2>4 DEF ZTypeOK
<1>8. OpenedFirst
  BY <1>2, <1>5 DEF OpenedFirst
<1> QED
  BY <1>1, <1>4, <1>7, <1>8 DEF ZInv

(* What the parts of the invariant give an action of an open decompressor. *)
LEMMA ZFacts ==
  ASSUME ZInv
  PROVE  /\ CacheFacts /\ in_size \in Nat
         /\ iter \in [Iterators -> [pos : -1 .. in_size, cell : Iterators]]
         /\ m_cur_block \in [Iterators -> Block]
         /\ \A it \in Iterators : iter[it].pos >= 0 => opened
         /\ opened => zpc = "written" /\ m_original_size = in_size
                      /\ m_block_size = BlockSize
<1>1. opened => m_original_size = in_size /\ m_block_size = BlockSize
  BY OpenedFile DEF ZInv, OpenedFirst
<1> QED
  BY <1>1 DEF ZInv, ZTypeOK, OpenedFirst, CacheFacts, CompressInv, CompressTypeOK, Block

LEMMA CompressKeeps == ZInv /\ Compress => ZInv'
<1> SUFFICES ASSUME ZInv, Compress PROVE ZInv'
  OBVIOUS
<1>1. CompressInv' /\ in_size' = in_size /\ zpc # "written"
  BY CompressStep, InSizeConstant, WrittenStays DEF Compress, ZInv
<1>2. UNCHANGED <<openVars, cacheVars, iter, m_cur_block, result>>
  BY DEF Compress
<1>3. ~opened
  BY <1>1 DEF ZInv, OpenedFirst
<1> QED
  BY <1>1, <1>2, <1>3 DEF ZInv, ZTypeOK, OpenedFirst, CacheTyped, RecencyKnown, cacheVars, openVars

LEMMA OpenKeeps == ZInv /\ Open => ZInv'
<1> SUFFICES ASSUME ZInv, Open PROVE ZInv'
  OBVIOUS
<1>1. /\ UNCHANGED compressVars /\ ~opened
      /\ m_compressed_size' = header /\ opened' = TrailerAt(header)
      /\ UNCHANGED <<cacheVars, iter, m_cur_block, result>>
  BY DEF Open
<1>2. CompressInv' /\ in_size' = in_size /\ zpc' = zpc /\ header' = header
  BY <1>1, CompressStep DEF ZInv, compressVars
<1>3. /\ opened' <=> zpc = "written"
      /\ header \in Nat /\ (zpc = "written" <=> header # 0)
  BY <1>1, TrailerFound DEF ZInv
<1>4. opened' \in BOOLEAN
  BY <1>1 DEF TrailerAt
<1>5. ZTypeOK'
  BY <1>1, <1>2, <1>3, <1>4 DEF ZInv, ZTypeOK, cacheVars
<1>6. OpenedFirst'
  BY <1>1, <1>2, <1>3 DEF ZInv, OpenedFirst
<1> QED
  BY <1>1, <1>2, <1>5, <1>6 DEF ZInv, CacheTyped, RecencyKnown, cacheVars

(* Every operation of an iterator keeps the file, and leaves positions,    *)
(* cells and cache well typed.                                             *)
LEMMA UseKeeps ==
  ASSUME ZInv, opened, UNCHANGED <<compressVars, openVars>>, CacheFacts',
         iter' \in [Iterators -> [pos : -1 .. in_size, cell : Iterators]],
         m_cur_block' \in [Iterators -> Block], result' \in [pos : Int, byte : Int]
  PROVE  ZInv'
<1>1. /\ CompressInv' /\ in_size' = in_size /\ zpc' = zpc /\ header' = header
      /\ opened' = TRUE /\ m_compressed_size' = m_compressed_size /\ zpc = "written"
  BY CompressStep DEF ZInv, ZTypeOK, OpenedFirst, compressVars, openVars
<1> QED
  BY <1>1 DEF ZInv, ZTypeOK, OpenedFirst, CacheFacts, Block

LEMMA CacheUnchanged ==
  ASSUME CacheFacts, UNCHANGED cacheVars PROVE CacheFacts'
BY DEF CacheFacts, CacheTyped, RecencyKnown, cacheVars

LEMMA FreshKeeps ==
  ASSUME ZInv, opened, NEW it \in Iterators, NEW p \in 0 .. in_size, Fresh(it, p),
         UNCHANGED <<compressVars, openVars, cacheVars, result>>
  PROVE  ZInv'
<1>1. PICK c \in Iterators :
        /\ iter' = [iter EXCEPT ![it] = [pos |-> p, cell |-> c]]
        /\ m_cur_block' = [m_cur_block EXCEPT ![c] = NoBlock]
  BY DEF Fresh
<1>2. /\ iter \in [Iterators -> [pos : -1 .. in_size, cell : Iterators]]
      /\ m_cur_block \in [Iterators -> Block] /\ in_size \in Nat /\ CacheFacts
  BY ZFacts
<1>3. NoBlock \in Block
  BY DEF NoBlock, Block
<1>4. [pos |-> p, cell |-> c] \in [pos : -1 .. in_size, cell : Iterators]
  BY <1>2
<1>5. iter' \in [Iterators -> [pos : -1 .. in_size, cell : Iterators]]
  BY <1>1, <1>2, <1>4
<1>6. m_cur_block' \in [Iterators -> Block]
  BY <1>1, <1>2, <1>3
<1>7. result' \in [pos : Int, byte : Int]
  BY DEF ZInv, ZTypeOK
<1>8. CacheFacts'
  BY <1>2, CacheUnchanged
<1> QED
  BY <1>5, <1>6, <1>7, <1>8, UseKeeps

LEMMA AdvanceKeeps ==
  ASSUME ZInv, NEW it \in Iterators, NEW jt \in Iterators, Advance(it, jt)
  PROVE  ZInv'
<1>1. /\ iter \in [Iterators -> [pos : -1 .. in_size, cell : Iterators]]
      /\ in_size \in Nat /\ opened /\ m_original_size = in_size /\ CacheFacts
      /\ m_cur_block \in [Iterators -> Block]
  BY ZFacts DEF Advance
<1>2. /\ UNCHANGED <<compressVars, openVars, cacheVars, m_cur_block, result>>
      /\ \E p \in 0 .. in_size :
           iter' = [iter EXCEPT ![it] = [pos |-> p, cell |-> iter[jt].cell]]
  BY <1>1 DEF Advance
<1>3. iter' \in [Iterators -> [pos : -1 .. in_size, cell : Iterators]]
  <2>1. PICK p \in 0 .. in_size :
          iter' = [iter EXCEPT ![it] = [pos |-> p, cell |-> iter[jt].cell]]
    BY <1>2
  <2>2. [pos |-> p, cell |-> iter[jt].cell] \in [pos : -1 .. in_size, cell : Iterators]
    BY <1>1
  <2> QED
    BY <1>1, <2>1, <2>2
<1>4. CacheFacts' /\ m_cur_block' \in [Iterators -> Block]
      /\ result' \in [pos : Int, byte : Int]
  BY <1>1, <1>2, CacheUnchanged DEF ZInv, ZTypeOK
<1> QED
  BY <1>1, <1>2, <1>3, <1>4, UseKeeps

LEMMA DerefTyped ==
  ASSUME NEW b \in Block, NEW p \in Int, Deref(b, p)
  PROVE  result' \in [pos : Int, byte : Int]
<1>1. b.src \in Int /\ b.first \in Int /\ Outside \in Int
  BY DEF Block, Outside
<1> QED
  BY <1>1 DEF Deref

(* What is inflated, whole or not, is a block.                             *)
LEMMA InflatedTyped ==
  ASSUME CompressInv, NEW id \in Nat, m_block_size \in Nat, NEW b \in Inflated(id)
  PROVE  b \in Block
<1>1. payload \in Seq(Extent)
  BY DEF CompressInv, CompressTypeOK, Extent
<1>2. PICK n \in 1 .. Len(payload) : \E k \in 0 .. payload[n].size \cup {payload[n].size} :
        b = [first |-> id * m_block_size, src |-> payload[n].raw, size |-> k]
  BY DEF Inflated, StreamAt
<1>3. payload[n].raw \in Nat /\ payload[n].size \in Nat
  <2>1. payload[n] \in Extent
    BY <1>1
  <2> QED
    BY <2>1 DEF Extent
<1>4. id * m_block_size \in Int
  OBVIOUS
<1> QED
  BY <1>2, <1>3, <1>4 DEF Block

(* What every dereference starts from.                                     *)
LEMMA DereferenceFacts ==
  ASSUME ZInv, NEW it \in Iterators, Dereferenceable(it)
  PROVE  /\ opened /\ zpc = "written"
         /\ cell(it) \in Iterators /\ m_cur_block[cell(it)] \in Block
         /\ iter[it].pos \in Nat /\ iter[it].pos < in_size
         /\ block_id(it) \in 0 .. Len(m_offsets) - 1 /\ block_id(it) \in Nat
         /\ block_id(it) * BlockSize <= iter[it].pos
         /\ iter[it].pos < block_id(it) * BlockSize + BlockSize
<1>1. iter \in [Iterators -> [pos : -1 .. in_size, cell : Iterators]]
      /\ m_cur_block \in [Iterators -> Block] /\ in_size \in Nat
  BY ZFacts
<1>2. iter[it].pos \in -1 .. in_size /\ iter[it].cell \in Iterators
  BY <1>1
<1>3. iter[it].pos >= 0 /\ iter[it].pos \in 0 .. m_original_size - 1
  <2>1. iter[it].pos \in 0 .. m_original_size - 1
    BY DEF Dereferenceable
  <2> QED
    BY <2>1
<1>4. opened /\ zpc = "written" /\ CompressInv
  BY <1>3, ZFacts DEF ZInv
<1>5. m_original_size = in_size
  BY <1>4, ZFacts
<1>6. /\ block_id(it) \in 0 .. Len(m_offsets) - 1
      /\ block_id(it) * BlockSize <= iter[it].pos
      /\ iter[it].pos < block_id(it) * BlockSize + BlockSize
  BY <1>3, <1>4, BlockOfPosition DEF block_id
<1>7. iter[it].pos \in Nat /\ iter[it].pos < in_size
  BY <1>1, <1>2, <1>3, <1>5
<1>8. block_id(it) \in Nat
  BY <1>6
<1> QED
  BY <1>1, <1>2, <1>4, <1>6, <1>7, <1>8 DEF cell

LEMMA ReplaceKeeps ==
  ASSUME ZInv, NEW it \in Iterators, Dereferenceable(it), CacheFacts',
         NEW b \in Block, Replace(it, b)
  PROVE  ZInv'
<1>1. opened /\ cell(it) \in Iterators /\ iter[it].pos \in Nat
  BY DereferenceFacts
<1>2. /\ iter \in [Iterators -> [pos : -1 .. in_size, cell : Iterators]]
      /\ m_cur_block \in [Iterators -> Block]
  BY ZFacts
<1>3. /\ m_cur_block' = [m_cur_block EXCEPT ![cell(it)] = b]
      /\ Deref(b, iter[it].pos) /\ UNCHANGED <<compressVars, openVars, iter>>
  BY DEF Replace
<1>4. result' \in [pos : Int, byte : Int]
  BY <1>1, <1>3, DerefTyped
<1>5. m_cur_block' \in [Iterators -> Block]
  BY <1>1, <1>2, <1>3
<1>6. iter' \in [Iterators -> [pos : -1 .. in_size, cell : Iterators]]
  BY <1>2, <1>3
<1> QED
  BY <1>1, <1>3, <1>4, <1>5, <1>6, UseKeeps

LEMMA DerefCurrentKeeps ==
  ASSUME ZInv, NEW it \in Iterators, DerefCurrent(it)
  PROVE  ZInv'
<1>1. /\ Dereferenceable(it) /\ Deref(m_cur_block[cell(it)], iter[it].pos)
      /\ UNCHANGED <<compressVars, openVars, cacheVars, iter, m_cur_block>>
  BY DEF DerefCurrent
<1>2. opened /\ m_cur_block[cell(it)] \in Block /\ iter[it].pos \in Nat
  BY <1>1, DereferenceFacts
<1>3. /\ iter \in [Iterators -> [pos : -1 .. in_size, cell : Iterators]]
      /\ m_cur_block \in [Iterators -> Block] /\ CacheFacts
  BY ZFacts
<1>4. result' \in [pos : Int, byte : Int]
  BY <1>1, <1>2, DerefTyped
<1>5. CacheFacts' /\ m_cur_block' \in [Iterators -> Block]
      /\ iter' \in [Iterators -> [pos : -1 .. in_size, cell : Iterators]]
  BY <1>1, <1>3, CacheUnchanged
<1> QED
  BY <1>1, <1>2, <1>4, <1>5, UseKeeps

LEMMA DerefCachedKeeps ==
  ASSUME ZInv, NEW it \in Iterators, DerefCached(it)
  PROVE  ZInv'
<1>1. /\ Dereferenceable(it) /\ block_id(it) \in DOMAIN m_cache /\ Get(block_id(it))
      /\ Replace(it, m_cache[block_id(it)].block)
  BY DEF DerefCached, Misses
<1>2. m_cache[block_id(it)].block \in Block /\ CacheFacts
  BY <1>1, ZFacts DEF CacheFacts, CacheTyped, Entry
<1>3. CacheFacts'
  BY <1>1, <1>2, GetKeeps
<1> QED
  BY <1>1, <1>2, <1>3, ReplaceKeeps

LEMMA DerefInflateKeeps ==
  ASSUME ZInv, NEW it \in Iterators, DerefInflate(it)
  PROVE  ZInv'
<1>1. Dereferenceable(it) /\ block_id(it) \notin DOMAIN m_cache
  BY DEF DerefInflate, Misses
<1>2. PICK b \in Inflated(block_id(it)) : Put(block_id(it), b) /\ Replace(it, b)
  BY DEF DerefInflate
<1>3. opened /\ block_id(it) \in Nat /\ CacheFacts /\ CompressInv
  BY <1>1, DereferenceFacts, ZFacts DEF ZInv
<1>4. m_block_size \in Nat
  BY <1>3, ZFacts, CompressAssumption
<1>5. b \in Block
  BY <1>3, <1>4, InflatedTyped
<1>6. CacheFacts'
  BY <1>1, <1>2, <1>3, <1>5, PutKeeps
<1> QED
  BY <1>1, <1>2, <1>5, <1>6, ReplaceKeeps

LEMMA ZStep == ZInv /\ [Next]_vars => ZInv'
<1> SUFFICES ASSUME ZInv, [Next]_vars PROVE ZInv'
  OBVIOUS
<1>1. CASE Compress
  BY <1>1, CompressKeeps
<1>2. CASE Open
  BY <1>2, OpenKeeps
<1>3. ASSUME NEW it \in Iterators, Use(it) PROVE ZInv'
  <2>1. CASE Begin(it)
    <3>1. 0 \in 0 .. in_size
      BY ZFacts
    <3> QED
      BY <2>1, <3>1, FreshKeeps DEF Begin
  <2>2. CASE End(it)
    <3>1. opened /\ m_original_size \in 0 .. in_size
      BY <2>2, ZFacts DEF End
    <3> QED
      BY <2>2, <3>1, FreshKeeps DEF End
  <2>3. ASSUME NEW jt \in Iterators, Advance(it, jt) PROVE ZInv'
    BY <2>3, AdvanceKeeps
  <2>4. CASE DerefCurrent(it)
    BY <2>4, DerefCurrentKeeps
  <2>5. CASE DerefCached(it)
    BY <2>5, DerefCachedKeeps
  <2>6. CASE DerefInflate(it)
    BY <2>6, DerefInflateKeeps
  <2> QED
    BY <1>3, <2>1, <2>2, <2>3, <2>4, <2>5, <2>6 DEF Use
<1>4. CASE UNCHANGED vars
  <2>1. UNCHANGED compressVars /\ UNCHANGED <<openVars, cacheVars, iter, m_cur_block, result>>
    BY <1>4 DEF vars
  <2>2. CompressInv' /\ in_size' = in_size /\ zpc' = zpc /\ header' = header
    BY <2>1, CompressStep DEF ZInv, compressVars
  <2> QED
    BY <2>1, <2>2 DEF ZInv, ZTypeOK, OpenedFirst, CacheTyped, RecencyKnown, cacheVars, openVars
<1> QED
  BY <1>1, <1>2, <1>3, <1>4 DEF Next

LEMMA ZInvariant == Spec => []ZInv
BY ZInitInv, ZStep, PTL DEF Spec

-----------------------------------------------------------------------------
(* strm.avail_in, an unsigned int, can hold the size of the payload.  Past *)
(* that a block may come out cut short: the run zrandom_4g.                *)
PayloadFits == compressed_size < UIntMod

(* What was read last, if anything, is the byte at the position asked for. *)
ReadRight == result = NotRead \/ (result.pos \in Nat /\ result.byte = result.pos)

(* With room for the payload, what comes out of a checkpoint is the whole  *)
(* block that starts there, and no other block starts there.               *)
LEMMA InflatedWhole ==
  ASSUME ZInv, opened, PayloadFits, NEW id \in 0 .. Len(m_offsets) - 1,
         NEW b \in Inflated(id)
  PROVE  WholeBlock(b, id)
<1> DEFINE offset == m_offsets[id + 1]
           i == id + 1
<1>1. /\ CompressInv /\ zpc = "written" /\ m_block_size = BlockSize
      /\ m_offsets = checkpoints /\ m_compressed_size = compressed_size /\ pending = 0
  BY OpenedFile DEF ZInv, OpenedFirst
<1>2. /\ payload \in Seq(Extent) /\ Len(payload) = Len(checkpoints) /\ Len(payload) \in Nat
      /\ compressed_size \in Nat
  BY <1>1 DEF CompressInv, CompressTypeOK, BlocksLaidOut, Extent
<1>3. i \in 1 .. Len(payload) /\ id \in Nat /\ i - 1 = id
  BY <1>1, <1>2
<1>4. PICK n \in StreamAt(offset) :
        \E k \in (IF avail_in(offset) >= payload[n].len
                  THEN {payload[n].size} ELSE 0 .. payload[n].size) :
          b = [first |-> id * m_block_size, src |-> payload[n].raw, size |-> k]
  BY DEF Inflated
<1>5. n \in 1 .. Len(payload) /\ payload[n].at = offset
  BY <1>4 DEF StreamAt
<1>6. /\ payload[i].at = offset /\ payload[i].raw = id * BlockSize
      /\ payload[i].size = Least(BlockSize, in_size - payload[i].raw)
  BY <1>1, <1>3 DEF CompressInv, BlocksLaidOut
<1> HIDE DEF offset, i
<1>7. ASSUME NEW m \in 1 .. Len(payload)
      PROVE  /\ payload[m].at \in Nat /\ payload[m].len \in Nat /\ payload[m].len > 0
             /\ payload[m].at + payload[m].len <= compressed_size
  <2>1. payload[m] \in Extent
    BY <1>2
  <2>2. /\ payload[m].at + payload[m].len <= compressed_size
        /\ payload[m].len + 0 > 0
    BY <1>1 DEF CompressInv, Disjoint
  <2>3. payload[m].at \in Nat /\ payload[m].len \in Nat
    BY <2>1 DEF Extent
  <2> QED
    BY <2>2, <2>3
<1>8. n = i
  <2>1. ~ (n < i)
    <3> SUFFICES ASSUME n < i PROVE FALSE
      OBVIOUS
    <3>1. payload[n].at + payload[n].len <= payload[i].at
      BY <1>1, <1>3, <1>5 DEF CompressInv, Disjoint
    <3> QED
      BY <1>5, <1>6, <1>7, <3>1
  <2>2. ~ (i < n)
    <3> SUFFICES ASSUME i < n PROVE FALSE
      OBVIOUS
    <3>1. payload[i].at + payload[i].len <= payload[n].at
      BY <1>1, <1>3, <1>5 DEF CompressInv, Disjoint
    <3>2. payload[i].at \in Nat /\ payload[i].len \in Nat /\ payload[i].len > 0
      BY <1>3, <1>7
    <3> QED
      BY <1>5, <1>6, <3>1, <3>2
  <2> QED
    BY <1>3, <1>5, <2>1, <2>2
<1>9. avail_in(offset) >= payload[n].len
  <2>1. /\ offset \in Nat /\ offset <= compressed_size
        /\ payload[n].len \in Nat /\ compressed_size - offset >= payload[n].len
    BY <1>2, <1>5, <1>7
  <2>2. /\ compressed_size - offset \in 0 .. UIntMod - 1 /\ UIntMod \in Nat \ {0}
    BY <1>2, <2>1, DecompressAssumption DEF PayloadFits
  <2>3. (compressed_size - offset) % UIntMod = compressed_size - offset
    BY <2>2
  <2> QED
    BY <1>1, <2>1, <2>3 DEF avail_in
<1>10. b = [first |-> id * BlockSize, src |-> payload[i].raw, size |-> payload[i].size]
  BY <1>1, <1>4, <1>8, <1>9
<1> QED
  BY <1>6, <1>10 DEF WholeBlock

(* A whole block answers for the positions in it with their own bytes.     *)
LEMMA WholeReads ==
  ASSUME NEW b, NEW id \in Nat, NEW p \in Nat, p < in_size, in_size \in Nat,
         WholeBlock(b, id), id * BlockSize <= p,
         p < id * BlockSize + BlockSize, Deref(b, p)
  PROVE  result' = [pos |-> p, byte |-> p]
<1> DEFINE f == id * BlockSize
<1>1. f \in Nat /\ BlockSize \in Nat /\ f <= p /\ p < f + BlockSize
  BY CompressAssumption
<1>2. b.first = f /\ b.src = f /\ b.size = Least(BlockSize, in_size - f)
  BY DEF WholeBlock
<1> HIDE DEF f
<1>3. in_size - f \in Nat
  BY <1>1
<1>4. Least(BlockSize, in_size - f) \in Nat /\ p - f < Least(BlockSize, in_size - f)
  <2>1. /\ Least(BlockSize, in_size - f) \in Nat
        /\ Least(BlockSize, in_size - f) = BlockSize
           \/ Least(BlockSize, in_size - f) = in_size - f
    BY <1>1, <1>3, LeastIs
  <2>2. p - f < BlockSize /\ p - f < in_size - f
    BY <1>1
  <2> QED
    BY <2>1, <2>2
<1>5. p - b.first \in 0 .. b.size - 1 /\ b.src + (p - b.first) = p
  BY <1>1, <1>2, <1>4
<1> QED
  BY <1>5 DEF Deref

LEMMA FileRemains ==
  ASSUME UNCHANGED compressVars
  PROVE  in_size' = in_size /\ m_offsets' = m_offsets
BY DEF compressVars, m_offsets

(* Blocks already there remain whole.                                      *)
LEMMA StoredRemain ==
  ASSUME BlocksWhole, UNCHANGED <<compressVars, m_cache, m_cur_block>>
  PROVE  BlocksWhole'
BY FileRemains DEF BlocksWhole, WholeBlock

LEMMA ReplacedWhole ==
  ASSUME ZInv, BlocksWhole, NEW it \in Iterators, Dereferenceable(it), NEW b,
         WholeBlock(b, block_id(it)), Replace(it, b),
         \A k \in DOMAIN m_cache' :
           \/ k = block_id(it) /\ m_cache'[k].block = b
           \/ k \in DOMAIN m_cache /\ m_cache'[k].block = m_cache[k].block
  PROVE  /\ BlocksWhole'
         /\ result' = [pos |-> iter[it].pos, byte |-> iter[it].pos]
<1>1. /\ m_cur_block' = [m_cur_block EXCEPT ![cell(it)] = b]
      /\ Deref(b, iter[it].pos) /\ UNCHANGED compressVars
  BY DEF Replace
<1>2. in_size' = in_size /\ m_offsets' = m_offsets
  BY <1>1, FileRemains
<1>3. /\ cell(it) \in Iterators /\ iter[it].pos \in Nat /\ iter[it].pos < in_size
      /\ block_id(it) \in 0 .. Len(m_offsets) - 1 /\ block_id(it) \in Nat
      /\ block_id(it) * BlockSize <= iter[it].pos
      /\ iter[it].pos < block_id(it) * BlockSize + BlockSize
  BY DereferenceFacts
<1>4. in_size \in Nat /\ m_cur_block \in [Iterators -> Block]
  BY ZFacts
<1>5. result' = [pos |-> iter[it].pos, byte |-> iter[it].pos]
  BY <1>1, <1>3, <1>4, WholeReads
<1>6. ASSUME NEW k \in DOMAIN m_cache' PROVE WholeBlock(m_cache'[k].block, k)
  BY DEF BlocksWhole
<1>7. ASSUME NEW c \in Iterators
      PROVE  \/ m_cur_block'[c] = NoBlock
             \/ \E id \in 0 .. Len(m_offsets) - 1 : WholeBlock(m_cur_block'[c], id)
  <2>1. CASE c = cell(it)
    BY <1>1, <1>3, <1>4, <2>1
  <2>2. CASE c # cell(it)
    BY <1>1, <1>4, <2>2 DEF BlocksWhole
  <2> QED
    BY <2>1, <2>2
<1>8. BlocksWhole'
  BY <1>2, <1>6, <1>7 DEF BlocksWhole, WholeBlock
<1> QED
  BY <1>5, <1>8

(* Every way of dereferencing an iterator returns the byte at its position.*)
LEMMA DerefReads ==
  ASSUME ZInv, BlocksWhole, PayloadFits, NEW it \in Iterators,
         DerefCurrent(it) \/ DerefCached(it) \/ DerefInflate(it)
  PROVE  /\ BlocksWhole'
         /\ result' = [pos |-> iter[it].pos, byte |-> iter[it].pos]
<1>1. CASE DerefCurrent(it)
  <2> DEFINE b == m_cur_block[cell(it)]
             p == iter[it].pos
  <2>1. /\ Dereferenceable(it) /\ pos_in_block(b, p) /\ Deref(b, p)
        /\ UNCHANGED <<compressVars, openVars, cacheVars, iter, m_cur_block>>
    BY <1>1 DEF DerefCurrent
  <2>2. cell(it) \in Iterators /\ b \in Block /\ p \in Nat /\ p < in_size /\ in_size \in Nat
    BY <2>1, DereferenceFacts, ZFacts
  <2>3. b # NoBlock
    BY <2>1, <2>2 DEF pos_in_block, NoBlock
  <2>4. PICK id \in 0 .. Len(m_offsets) - 1 : WholeBlock(b, id)
    BY <2>2, <2>3 DEF BlocksWhole
  <2>5. id \in Nat
    OBVIOUS
  <2>6. id * BlockSize <= p /\ p < id * BlockSize + BlockSize
    <3> DEFINE f == id * BlockSize
    <3>1. f \in Nat /\ BlockSize \in Nat
      BY <2>5, CompressAssumption
    <3>2. b.first = f /\ b.size = Least(BlockSize, in_size - f) /\ b.size \in Nat
      BY <2>2, <2>4 DEF WholeBlock, Block
    <3>3. f <= p /\ p < f + b.size
      BY <2>1, <3>2 DEF pos_in_block
    <3> HIDE DEF f, b, p
    <3>4. in_size - f \in Nat
      BY <2>2, <3>1, <3>3
    <3>5. b.size <= BlockSize
      BY <3>1, <3>2, <3>4, LeastIs
    <3>6. f <= p /\ p < f + BlockSize
      BY <2>2, <3>1, <3>2, <3>3, <3>5
    <3> QED
      BY <3>6 DEF f
  <2>7. result' = [pos |-> p, byte |-> p]
    BY <2>1, <2>2, <2>4, <2>5, <2>6, WholeReads
  <2>8. BlocksWhole'
    BY <2>1, StoredRemain DEF cacheVars
  <2> QED
    BY <2>7, <2>8
<1>2. CASE DerefCached(it)
  <2> DEFINE b == m_cache[block_id(it)].block
  <2>1. /\ Dereferenceable(it) /\ block_id(it) \in DOMAIN m_cache /\ Get(block_id(it))
        /\ Replace(it, b)
    BY <1>2 DEF DerefCached, Misses
  <2>2. WholeBlock(b, block_id(it))
    BY <2>1 DEF BlocksWhole
  <2>3. \A k \in DOMAIN m_cache' :
          k \in DOMAIN m_cache /\ m_cache'[k].block = m_cache[k].block
    BY <2>1, GetKeeps, ZFacts
  <2> QED
    BY <2>1, <2>2, <2>3, ReplacedWhole
<1>3. CASE DerefInflate(it)
  <2>1. Dereferenceable(it) /\ block_id(it) \notin DOMAIN m_cache
    BY <1>3 DEF DerefInflate, Misses
  <2>2. PICK b \in Inflated(block_id(it)) : Put(block_id(it), b) /\ Replace(it, b)
    BY <1>3 DEF DerefInflate
  <2>3. /\ opened /\ block_id(it) \in Nat /\ CacheFacts /\ CompressInv
        /\ block_id(it) \in 0 .. Len(m_offsets) - 1
    BY <2>1, DereferenceFacts, ZFacts DEF ZInv
  <2>4. b \in Block
    BY <2>3, ZFacts, InflatedTyped, CompressAssumption
  <2>5. WholeBlock(b, block_id(it))
    BY <2>3, InflatedWhole
  <2>6. \A k \in DOMAIN m_cache' :
          \/ k = block_id(it) /\ m_cache'[k].block = b
          \/ k \in DOMAIN m_cache /\ m_cache'[k].block = m_cache[k].block
    BY <2>1, <2>2, <2>3, <2>4, PutKeeps
  <2> QED
    BY <2>1, <2>2, <2>5, <2>6, ReplacedWhole
<1> QED
  BY <1>1, <1>2, <1>3

(* A new iterator has an empty cell of its own.                            *)
LEMMA FreshWhole ==
  ASSUME ZInv, BlocksWhole, NEW it \in Iterators, NEW p, Fresh(it, p),
         UNCHANGED <<compressVars, openVars, cacheVars, result>>
  PROVE  BlocksWhole'
<1>1. PICK c \in Iterators : m_cur_block' = [m_cur_block EXCEPT ![c] = NoBlock]
  BY DEF Fresh
<1>2. m_cur_block \in [Iterators -> Block]
  BY ZFacts
<1>3. \A d \in Iterators : m_cur_block'[d] = NoBlock \/ m_cur_block'[d] = m_cur_block[d]
  BY <1>1, <1>2
<1>4. in_size' = in_size /\ m_offsets' = m_offsets /\ m_cache' = m_cache
  BY FileRemains DEF cacheVars
<1> QED
  BY <1>3, <1>4 DEF BlocksWhole, WholeBlock

(* The part of BlocksWhole about the cells speaks of the trailer, which is *)
(* written before there is a block in any of them.                         *)
LEMMA CompressWhole ==
  ASSUME ZInv, BlocksWhole, Compress
  PROVE  BlocksWhole'
<1>1. in_size' = in_size /\ zpc # "written" /\ m_cache' = m_cache /\ m_cur_block' = m_cur_block
  BY InSizeConstant, WrittenStays DEF Compress, cacheVars
<1>2. m_cur_block = [c \in Iterators |-> NoBlock]
  BY <1>1 DEF ZInv, OpenedFirst
<1>3. \A c \in Iterators : m_cur_block'[c] = NoBlock
  BY <1>1, <1>2
<1>4. \A id \in DOMAIN m_cache' : WholeBlock(m_cache'[id].block, id)
  BY <1>1 DEF BlocksWhole
<1> QED
  BY <1>1, <1>3, <1>4 DEF BlocksWhole, WholeBlock

(* What each step does, seen from the original file: an iterator is given  *)
(* a position in it, or the byte at its position is read, or nothing.      *)
Placed(it) == \E p \in 0 .. in_size, c \in Iterators :
                iter' = [iter EXCEPT ![it] = [pos |-> p, cell |-> c]]

LEMMA StepSeen ==
  ASSUME ZInv, BlocksWhole, PayloadFits, [Next]_vars
  PROVE  /\ BlocksWhole' /\ in_size' = in_size
         /\ \/ UNCHANGED <<iter, result>>
            \/ \E it \in Iterators : Placed(it) /\ UNCHANGED result
            \/ \E it \in Iterators :
                 /\ iter[it].pos \in 0 .. in_size - 1
                 /\ result' = [pos |-> iter[it].pos, byte |-> iter[it].pos]
                 /\ UNCHANGED iter
<1>1. CASE Compress
  <2>1. UNCHANGED <<iter, result>> /\ in_size' = in_size
    BY <1>1, InSizeConstant DEF Compress
  <2> QED
    BY <1>1, <2>1, CompressWhole
<1>2. CASE Open
  <2>1. UNCHANGED <<compressVars, m_cache, m_cur_block, iter, result>>
    BY <1>2 DEF Open, cacheVars
  <2> QED
    BY <2>1, StoredRemain, FileRemains
<1>3. ASSUME NEW it \in Iterators, NEW p \in 0 .. in_size, Fresh(it, p),
             UNCHANGED <<compressVars, openVars, cacheVars, result>>
      PROVE  BlocksWhole' /\ in_size' = in_size /\ Placed(it) /\ UNCHANGED result
  BY <1>3, FreshWhole, FileRemains DEF Fresh, Placed
<1>4. ASSUME NEW it \in Iterators, Begin(it)
      PROVE  BlocksWhole' /\ in_size' = in_size /\ Placed(it) /\ UNCHANGED result
  <2>1. 0 \in 0 .. in_size
    BY ZFacts
  <2> QED
    BY <1>3, <1>4, <2>1 DEF Begin
<1>5. ASSUME NEW it \in Iterators, End(it)
      PROVE  BlocksWhole' /\ in_size' = in_size /\ Placed(it) /\ UNCHANGED result
  <2>1. m_original_size \in 0 .. in_size
    BY <1>5, ZFacts DEF End
  <2> QED
    BY <1>3, <1>5, <2>1 DEF End
<1>6. ASSUME NEW it \in Iterators, NEW jt \in Iterators, Advance(it, jt)
      PROVE  BlocksWhole' /\ in_size' = in_size /\ Placed(it) /\ UNCHANGED result
  <2>1. opened /\ m_original_size = in_size /\ iter[jt].cell \in Iterators
    BY <1>6, ZFacts DEF Advance
  <2>2. UNCHANGED <<compressVars, m_cache, m_cur_block, result>>
    BY <1>6 DEF Advance, cacheVars
  <2>3. Placed(it)
    BY <1>6, <2>1 DEF Advance, Placed
  <2> QED
    BY <2>2, <2>3, StoredRemain, FileRemains
<1>7. ASSUME NEW it \in Iterators,
             DerefCurrent(it) \/ DerefCached(it) \/ DerefInflate(it)
      PROVE  /\ BlocksWhole' /\ in_size' = in_size /\ UNCHANGED iter
             /\ iter[it].pos \in 0 .. in_size - 1
             /\ result' = [pos |-> iter[it].pos, byte |-> iter[it].pos]
  <2>1. BlocksWhole' /\ result' = [pos |-> iter[it].pos, byte |-> iter[it].pos]
    BY <1>7, DerefReads
  <2>2. UNCHANGED iter /\ UNCHANGED compressVars /\ Dereferenceable(it)
    BY <1>7 DEF DerefCurrent, DerefCached, DerefInflate, Misses, Replace
  <2>3. iter[it].pos \in Nat /\ iter[it].pos < in_size /\ in_size \in Nat
    BY <2>2, DereferenceFacts, ZFacts
  <2>4. iter[it].pos \in 0 .. in_size - 1
    BY <2>3
  <2> QED
    BY <2>1, <2>2, <2>4, FileRemains
<1>8. CASE UNCHANGED vars
  <2>1. UNCHANGED <<compressVars, m_cache, m_cur_block, iter, result>>
    BY <1>8 DEF vars, cacheVars
  <2> QED
    BY <2>1, StoredRemain, FileRemains
<1> QED
  BY <1>1, <1>2, <1>4, <1>5, <1>6, <1>7, <1>8 DEF Next, Use

LEMMA WholeInit == Init => BlocksWhole /\ ReadRight
<1> SUFFICES ASSUME Init PROVE BlocksWhole /\ ReadRight
  OBVIOUS
<1>1. /\ m_cache = EmptyCache /\ m_cur_block = [c \in Iterators |-> NoBlock]
      /\ result = NotRead
  BY DEF Init
<1>2. DOMAIN m_cache = {} /\ \A c \in Iterators : m_cur_block[c] = NoBlock
  BY <1>1 DEF EmptyCache
<1> QED
  BY <1>1, <1>2 DEF BlocksWhole, ReadRight

LEMMA WholeInvariant == Spec /\ []PayloadFits => [](BlocksWhole /\ ReadRight)
<1>1. ZInv /\ PayloadFits /\ BlocksWhole /\ ReadRight /\ [Next]_vars
        => (BlocksWhole /\ ReadRight)'
  <2> SUFFICES ASSUME ZInv, PayloadFits, BlocksWhole, ReadRight, [Next]_vars
               PROVE  (BlocksWhole /\ ReadRight)'
    OBVIOUS
  <2>1. BlocksWhole'
    BY StepSeen
  <2>2. CASE UNCHANGED result
    BY <2>1, <2>2 DEF ReadRight
  <2>3. ASSUME NEW it \in Iterators, iter[it].pos \in 0 .. in_size - 1,
               result' = [pos |-> iter[it].pos, byte |-> iter[it].pos]
        PROVE  ReadRight'
    BY <2>3 DEF ReadRight
  <2> QED
    BY <2>1, <2>2, <2>3, StepSeen
<1> QED
  BY <1>1, WholeInit, ZInvariant, PTL DEF Spec

-----------------------------------------------------------------------------
(* The decompressor, its cache and its iterators stay well typed: no       *)
(* iterator leaves the file, whatever moves it, and no block is negative.  *)
THEOREM ZTypeCorrect == Spec => []ZTypeOK
<1>1. ZInv => ZTypeOK
  BY DEF ZInv
<1> QED
  BY <1>1, ZInvariant, PTL

(* The constructor of a decompressor, run at any moment of the writing of  *)
(* the file or after it was broken off, reads the placeholder or finds the *)
(* whole file, for every block size and whatever the blocks deflate to.    *)
THEOREM OpensWholeFile == Spec => []UnfinishedShows
<1>1. ZInv => UnfinishedShows
  <2> SUFFICES ASSUME ZInv PROVE UnfinishedShows
    OBVIOUS
  <2>1. CASE ~opened
    BY <2>1 DEF ZInv, OpenedFirst, UnfinishedShows
  <2>2. CASE opened
    <3>1. /\ CompressInv /\ zpc = "written" /\ m_compressed_size = header
      BY <2>2 DEF ZInv, OpenedFirst
    <3>2. m_compressed_size # 0
      BY <3>1, TrailerFound
    <3>3. /\ m_original_size = in_size /\ m_block_size = BlockSize
          /\ Len(m_offsets) = in_size \div BlockSize + 1
          /\ m_offsets = checkpoints /\ header = compressed_size /\ pending = 0
      BY <3>1, OpenedFile
    <3> DEFINE n == Len(payload)
    <3>4. /\ n \in Nat /\ n >= 1 /\ Len(m_offsets) = n /\ payload \in Seq(Extent)
          /\ compressed_size \in Nat
      BY <3>1, <3>3
         DEF CompressInv, CompressTypeOK, Standing, Reading, BlocksLaidOut, Extent
    <3>4a. n \in 1 .. n /\ payload[n] \in Extent
      BY <3>4
    <3>5. n \in 1 .. n /\ payload[n].at \in Nat /\ payload[n].len \in Nat
      BY <3>4a DEF Extent
    <3>6. /\ payload[n].at = m_offsets[n]
          /\ payload[n].at + payload[n].len <= compressed_size
          /\ payload[n].len + pending > 0
      BY <3>1, <3>3, <3>5 DEF CompressInv, Disjoint, BlocksLaidOut
    <3> HIDE DEF n
    <3>7. m_offsets[n] < m_compressed_size
      BY <3>1, <3>3, <3>4, <3>5, <3>6
    <3> QED
      BY <2>2, <3>2, <3>3, <3>4, <3>7 DEF UnfinishedShows
  <2> QED
    BY <2>1, <2>2
<1> QED
  BY <1>1, ZInvariant, PTL

(* The LRU clock tells the cached blocks apart at every moment and across  *)
(* its wrap-around, and the cache never exceeds max_entries, whatever the  *)
(* payload's size.                                                         *)
THEOREM CacheOrdered == Spec => []RecencyKnown
<1>1. ZInv => RecencyKnown
  BY DEF ZInv
<1> QED
  BY <1>1, ZInvariant, PTL

(* As long as avail_in can hold the payload's size, every block in the     *)
(* cache and under every iterator is whole and labelled with its offset.   *)
THEOREM StoresWholeBlocks == Spec /\ []PayloadFits => []BlocksWhole
BY WholeInvariant, PTL

(* Under the same condition the assertion of check_cur_block never fails.  *)
THEOREM PositionInBlock == Spec /\ []PayloadFits => []PosInBlock
<1>1. ReadRight => PosInBlock
  BY DEF ReadRight, PosInBlock, NotRead, Outside
<1> QED
  BY <1>1, WholeInvariant, PTL

(* Under the same condition the decompressor implements random access to   *)
(* the original file: every step gives an iterator a position in it, or    *)
(* reads the byte at its position, or is not to be seen.                   *)
THEOREM ReadsTheOriginal == Spec /\ []PayloadFits => ReadsOriginal
<1> DEFINE pos == [it \in Iterators |-> iter[it].pos]
<1>1. Init => Abstract!Init
  <2> SUFFICES ASSUME Init PROVE Abstract!Init
    OBVIOUS
  <2>1. iter = [it \in Iterators |-> NoIterator] /\ result = [pos |-> -1, byte |-> -1]
    BY DEF Init, NotRead
  <2>2. pos = [it \in Iterators |-> -1]
    BY <2>1 DEF NoIterator
  <2> QED
    BY <2>1, <2>2 DEF Abstract!Init
<1>2. ZInv /\ PayloadFits /\ BlocksWhole /\ [Next]_vars
        => [\E it \in Iterators : Abstract!Place(it) \/ Abstract!Read(it)]_<<in_size, pos, result>>
  <2> SUFFICES ASSUME ZInv, PayloadFits, BlocksWhole, [Next]_vars
               PROVE  \/ \E it \in Iterators : Abstract!Place(it) \/ Abstract!Read(it)
                      \/ UNCHANGED <<in_size, pos, result>>
    OBVIOUS
  <2>1. in_size' = in_size
    BY StepSeen
  <2>2. CASE UNCHANGED <<iter, result>>
    BY <2>1, <2>2
  <2>3. ASSUME NEW it \in Iterators, Placed(it), UNCHANGED result
        PROVE  Abstract!Place(it)
    <3>1. PICK p \in 0 .. in_size, c \in Iterators :
            iter' = [iter EXCEPT ![it] = [pos |-> p, cell |-> c]]
      BY <2>3 DEF Placed
    <3>2. iter \in [Iterators -> [pos : -1 .. in_size, cell : Iterators]]
      BY ZFacts
    <3>3. \A jt \in Iterators : iter'[jt].pos = IF jt = it THEN p ELSE iter[jt].pos
      BY <3>1, <3>2
    <3>4. pos' = [pos EXCEPT ![it] = p]
      BY <3>3
    <3> QED
      BY <2>1, <2>3, <3>4 DEF Abstract!Place
  <2>4. ASSUME NEW it \in Iterators, iter[it].pos \in 0 .. in_size - 1,
               result' = [pos |-> iter[it].pos, byte |-> iter[it].pos], UNCHANGED iter
        PROVE  Abstract!Read(it)
    <3>1. pos[it] = iter[it].pos /\ pos' = pos
      BY <2>4
    <3> QED
      BY <2>1, <2>4, <3>1 DEF Abstract!Read
  <2> QED
    BY <2>2, <2>3, <2>4, StepSeen
<1> QED
  BY <1>1, <1>2, ZInvariant, WholeInvariant, PTL DEF Spec, ReadsOriginal, Abstract!Spec

=============================================================================
