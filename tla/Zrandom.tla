------------------------------- MODULE Zrandom -------------------------------
(***************************************************************************)
(* zrandom::decompressor over the file compress wrote, with its cache of   *)
(* inflated blocks and its random access iterators.                        *)
(*                                                                         *)
(* Copies of an iterator share one cell, *m_cur_block, through a           *)
(* shared_ptr: dereferencing a copy at another position replaces the block *)
(* under all of them.  begin() and end() make a new cell.                  *)
(***************************************************************************)
EXTENDS ZCompress, FiniteSets

CONSTANTS Iterators,    \* the iterators a client holds
          MaxEntries,   \* max_entries of the cache
          TimeMod,      \* 2^64: m_timestamp is a uint64_t
          UIntMod       \* 2^32: strm.avail_in is an unsigned int

ASSUME DecompressAssumption ==
  /\ MaxEntries \in Nat \ {0}
  /\ TimeMod \in Nat \ {0, 1}
  /\ UIntMod \in Nat \ {0}

VARIABLES
  opened,        \* a decompressor is constructed, with the trailer's fields
  m_compressed_size, \* the header the last one read, -1 before there is one
  m_timestamp,
  m_cache,       \* function from block ids to timestamps and blocks
  iter,          \* m_absolute_pos and cell of the iterators
  m_cur_block,   \* what the cells hold
  result         \* the last dereference: position, and the byte returned

openVars  == <<opened, m_compressed_size>>
cacheVars == <<m_timestamp, m_cache>>
vars == <<compressVars, openVars, cacheVars, iter, m_cur_block, result>>

(* The fields an opened decompressor has mapped from the file.             *)
m_original_size   == trailer.original_size
m_block_size      == trailer.block_size
m_offsets         == trailer.offsets

(* A cell is named after the iterator whose begin() or end() made it.      *)
NoBlock    == [first |-> -1, src |-> -1, size |-> 0]
NoIterator == [pos |-> -1, cell |-> CHOOSE c \in Iterators : TRUE]
NotRead    == [pos |-> -1, byte |-> -1]
EmptyCache == [k \in {} |-> 0]

Init ==
  /\ CompressInit
  /\ opened = FALSE /\ m_compressed_size = -1
  /\ m_timestamp = 0
  /\ m_cache = EmptyCache
  /\ iter = [it \in Iterators |-> NoIterator]
  /\ m_cur_block = [c \in Iterators |-> NoBlock]
  /\ result = NotRead

Compress == CompressNext /\ UNCHANGED <<openVars, cacheVars, iter, m_cur_block, result>>

(* The constructor checks nothing, and the file is there from the moment   *)
(* compress opens it.  The trailer is looked for as many bytes after the   *)
(* header as the header says.  With the placeholder that is where the      *)
(* payload starts, and no use is modelled of the fields mapped from there, *)
(* nor of what lies past the end of the file: such a decompressor can only *)
(* be given up for a new one.                                              *)
TrailerAt(offset) == trailer # NoTrailer /\ offset = compressed_size

Open ==
  /\ ~opened
  /\ m_compressed_size' = header
  /\ opened' = TrailerAt(header)
  /\ UNCHANGED <<compressVars, cacheVars, iter, m_cur_block, result>>

(* begin() and end(): a new cell, which no other iterator uses.            *)
Fresh(it, p) ==
  \E c \in Iterators :
    /\ \A jt \in Iterators \ {it} : iter[jt].pos = -1 \/ iter[jt].cell # c
    /\ iter' = [iter EXCEPT ![it] = [pos |-> p, cell |-> c]]
    /\ m_cur_block' = [m_cur_block EXCEPT ![c] = NoBlock]

Begin(it) == opened /\ Fresh(it, 0) /\ UNCHANGED <<compressVars, openVars, cacheVars, result>>

(* variant: end() one past the end                                         *)
EndLate(it) == opened /\ Fresh(it, m_original_size + 1)
               /\ UNCHANGED <<compressVars, openVars, cacheVars, result>>
End(it)   == opened /\ Fresh(it, m_original_size)
             /\ UNCHANGED <<compressVars, openVars, cacheVars, result>>

(* it = jt + n, or it += n when jt is it: increment, decrement, advance.   *)
Advance(it, jt) ==
  /\ iter[jt].pos >= 0
  /\ \E p \in 0 .. m_original_size :
       iter' = [iter EXCEPT ![it] = [pos |-> p, cell |-> iter[jt].cell]]
  /\ UNCHANGED <<compressVars, openVars, cacheVars, m_cur_block, result>>

-----------------------------------------------------------------------------
(* variant: the cache survives the clock's return to 0                     *)
TickNoClear(c) == m_timestamp' = (m_timestamp + 1) % TimeMod /\ m_cache' = c

(* tick(), once the cache has become c.                                    *)
Tick(c) ==
  /\ m_timestamp' = (m_timestamp + 1) % TimeMod
  /\ m_cache' = IF m_timestamp' = 0 THEN EmptyCache ELSE c

(* The entry the loop of put() leaves in min_iter: it compares iter->first,*)
(* the key, where it means iter->second.first, the timestamp.              *)
Victim == CHOOSE k \in DOMAIN m_cache : \A j \in DOMAIN m_cache : k <= j

Kept == IF Cardinality(DOMAIN m_cache) = MaxEntries
        THEN DOMAIN m_cache \ {Victim} ELSE DOMAIN m_cache

Get(id) == Tick([m_cache EXCEPT ![id].time = m_timestamp])
Put(id, b) ==
  Tick([k \in Kept \cup {id} |->
          IF k = id THEN [time |-> m_timestamp, block |-> b] ELSE m_cache[k]])

(* inflate from the checkpoint on, up to the end of the deflate block that *)
(* starts there.  avail_in is what is left of the payload, cut to an       *)
(* unsigned int; with less than the block only a part of it comes out.     *)
avail_in(offset) == (m_compressed_size - offset) % UIntMod
StreamAt(offset) == {n \in 1 .. Len(payload) : payload[n].at = offset}

(* variant: the block is not resized to what came out                      *)
InflatedNoResize(id) ==
  {[first |-> id * m_block_size, src |-> payload[n].raw, size |-> m_block_size] :
     n \in StreamAt(m_offsets[id + 1])}

Inflated(id) ==
  LET offset   == m_offsets[id + 1]
      sizes(n) == IF avail_in(offset) >= payload[n].len
                  THEN {payload[n].size} ELSE 0 .. payload[n].size
  IN UNION {{[first |-> id * m_block_size, src |-> payload[n].raw, size |-> k] :
               k \in sizes(n)} : n \in StreamAt(offset)}

pos_in_blockLoose(b, p) == b.first <= p /\ p <= b.first + b.size   \* variant: <=
pos_in_block(b, p) == b.first <= p /\ p < b.first + b.size

(* What dereference() returns: the element of the block's vector at the    *)
(* distance of the position from the block's start, or a byte outside the  *)
(* vector.                                                                 *)
Outside == -2
Deref(b, p) ==
  result' = [pos |-> p, byte |-> IF p - b.first \in 0 .. b.size - 1
                                THEN b.src + (p - b.first) ELSE Outside]

(* Iterators are dereferenced inside the file only.                        *)
Dereferenceable(it) == iter[it].pos \in 0 .. m_original_size - 1
cell(it)     == iter[it].cell
block_id(it) == iter[it].pos \div m_block_size

(* Still in the current block's range.                                     *)
DerefCurrent(it) ==
  /\ Dereferenceable(it)
  /\ pos_in_block(m_cur_block[cell(it)], iter[it].pos)
  /\ Deref(m_cur_block[cell(it)], iter[it].pos)
  /\ UNCHANGED <<compressVars, openVars, cacheVars, iter, m_cur_block>>

(* read_block finds the block in the cache, or inflates it and puts it.    *)
Replace(it, b) ==
  /\ m_cur_block' = [m_cur_block EXCEPT ![cell(it)] = b]
  /\ Deref(b, iter[it].pos)
  /\ UNCHANGED <<compressVars, openVars, iter>>

Misses(it) == Dereferenceable(it) /\ ~pos_in_block(m_cur_block[cell(it)], iter[it].pos)

DerefCached(it) ==
  /\ Misses(it)
  /\ block_id(it) \in DOMAIN m_cache
  /\ Get(block_id(it))
  /\ Replace(it, m_cache[block_id(it)].block)

DerefInflate(it) ==
  /\ Misses(it)
  /\ block_id(it) \notin DOMAIN m_cache
  /\ \E b \in Inflated(block_id(it)) : Put(block_id(it), b) /\ Replace(it, b)

Use(it) ==
  \/ Begin(it) \/ End(it)
  \/ \E jt \in Iterators : Advance(it, jt)
  \/ DerefCurrent(it) \/ DerefCached(it) \/ DerefInflate(it)

Next == Compress \/ Open \/ \E it \in Iterators : Use(it)

Spec == Init /\ [][Next]_vars /\ WF_vars(Compress)

-----------------------------------------------------------------------------
ZTypeOK ==
  /\ opened \in BOOLEAN /\ m_compressed_size \in Nat \cup {-1}
  /\ m_timestamp \in 0 .. TimeMod - 1
  /\ DOMAIN m_cache \subseteq Nat
  /\ iter \in [Iterators -> [pos : -1 .. in_size, cell : Iterators]]
  /\ m_cur_block \in [Iterators -> [first : Int, src : Int, size : Nat]]
  /\ result \in [pos : Int, byte : Int]

(* Whenever it runs beside compress, or after compress was interrupted,    *)
(* the constructor either reads the placeholder or finds the whole file: a *)
(* size that is not zero leads to the trailer, every part of the original  *)
(* has its checkpoint there and the last checkpoint lies in the payload.   *)
(* So zero is the one value the missing check would have to refuse.        *)
UnfinishedShows ==
  /\ m_compressed_size = 0 => ~opened
  /\ m_compressed_size > 0 =>
       /\ opened /\ m_original_size = in_size /\ m_block_size = BlockSize
       /\ Len(m_offsets) = in_size \div BlockSize + 1
       /\ m_offsets[Len(m_offsets)] < m_compressed_size

(* Whatever was inflated, cached, evicted, cleared or left in a cell by    *)
(* another copy of the iterator: a block is stored under its own number,   *)
(* in full, and labelled with the offset its bytes come from.              *)
WholeBlock(b, id) ==
  /\ b.first = id * BlockSize /\ b.src = b.first
  /\ b.size = Least(BlockSize, in_size - b.first)

BlocksWhole ==
  /\ \A id \in DOMAIN m_cache : WholeBlock(m_cache[id].block, id)
  /\ \A c \in Iterators :
       m_cur_block[c] = NoBlock \/ \E id \in 0 .. Len(m_offsets) - 1 : WholeBlock(m_cur_block[c], id)

(* The timestamps tell the entries apart and order them by their last use: *)
(* none is reused or from the future, also when the clock wraps around;    *)
(* and there are never more than max_entries of them.                      *)
RecencyKnown ==
  /\ \A id \in DOMAIN m_cache : m_cache[id].time < m_timestamp
  /\ \A id, jd \in DOMAIN m_cache : id # jd => m_cache[id].time # m_cache[jd].time
  /\ Cardinality(DOMAIN m_cache) <= MaxEntries

(* Iterators behave as positions in the original file: the blocks, the     *)
(* shared cells and the cache are not to be seen.                          *)
Abstract ==
  INSTANCE RandomAccess WITH
    size <- in_size, pos <- [it \in Iterators |-> iter[it].pos]
ReadsOriginal == Abstract!Spec

(* assert(pos_in_block()) at the end of check_cur_block: the block that    *)
(* was read holds the iterator's position.                                 *)
PosInBlock == result.byte # Outside

(* The entry put() drops when the cache is full is the one with the        *)
(* smallest timestamp, as the loop's variable min_timestamp says.          *)
EvictsOldest ==
  [][m_timestamp' # 0 =>
       \A id \in DOMAIN m_cache \ DOMAIN m_cache' :
         \A jd \in DOMAIN m_cache : m_cache[id].time <= m_cache[jd].time]_vars

=============================================================================
