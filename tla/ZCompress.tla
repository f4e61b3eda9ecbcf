------------------------------ MODULE ZCompress ------------------------------
(***************************************************************************)
(* zrandom::compress: a file is deflated block by block with a full flush  *)
(* after each one, so that inflating can start at every block, and the     *)
(* offsets of the blocks are frozen after the payload.                     *)
(*                                                                         *)
(* A byte is identified by its offset in the input.  The deflate stream is *)
(* the sequence `payload' of what zlib made of each block: the offset and  *)
(* the number of its compressed bytes, the offset and the number of the    *)
(* bytes they stand for.  How many bytes a block deflates to is up to      *)
(* zlib: any number of the set Deflated.                                   *)
(***************************************************************************)
EXTENDS Integers, Sequences

CONSTANTS BlockSize,   \* block_size, of the raw blocks and of the out buffer
          FileSizes,   \* sizes of the input files
          Deflated     \* sizes a block may deflate to

ASSUME CompressAssumption ==
  /\ BlockSize \in Nat \ {0}
  /\ FileSizes \subseteq Nat
  /\ Deflated \subseteq Nat \ {0}

VARIABLES
  zpc,              \* "read", "deflate", "freeze", "patch", "written"
  in_size,          \* size of the input file
  fin,              \* bytes read from it
  flush,            \* "full_flush" or "finish"
  pending,          \* compressed bytes of the block zlib has not given out
  checkpoints,
  original_size,
  compressed_size,
  payload,          \* file, after its first word: the deflate stream
  trailer,          \* file, after the payload: what was frozen
  header            \* file: its first word

compressVars == <<zpc, in_size, fin, flush, pending, checkpoints, original_size,
                  compressed_size, payload, trailer, header>>

NoTrailer == [original_size |-> 0, block_size |-> 0, offsets |-> << >>]

Least(m, n) == IF m < n THEN m ELSE n

(* The header is a placeholder until everything else is written.           *)
CompressInit ==
  /\ zpc = "read"
  /\ in_size \in FileSizes
  /\ fin = 0
  /\ flush = "full_flush"
  /\ pending = 0
  /\ checkpoints = << >>
  /\ original_size = 0
  /\ compressed_size = 0
  /\ payload = << >>
  /\ trailer = NoTrailer
  /\ header = 0

(* fin.read: a short read, be it of no byte at all, is what sets eof.      *)
gcount == Least(BlockSize, in_size - fin)

(* variants: the checkpoint is the offset in the input; the end of the     *)
(* file is noticed when its last byte is read                              *)
ReadBlockWith(checkpoint, last) ==
  /\ zpc = "read"
  /\ fin' = fin + gcount
  /\ original_size' = original_size + gcount
  /\ flush' = IF last THEN "finish" ELSE flush
  /\ checkpoints' = Append(checkpoints, checkpoint)
  /\ pending' \in Deflated
  /\ payload' = Append(payload, [at |-> compressed_size, len |-> 0,
                                 raw |-> fin, size |-> gcount])
  /\ zpc' = "deflate"
  /\ UNCHANGED <<in_size, compressed_size, trailer, header>>
ReadBlockRawOffset == ReadBlockWith(fin, gcount < BlockSize)
ReadBlockEager     == ReadBlockWith(compressed_size, fin + gcount = in_size)

ReadBlock ==
  /\ zpc = "read"
  /\ fin' = fin + gcount
  /\ original_size' = original_size + gcount
  /\ flush' = IF gcount < BlockSize THEN "finish" ELSE flush
  /\ checkpoints' = Append(checkpoints, compressed_size)
  /\ pending' \in Deflated
  /\ payload' = Append(payload, [at |-> compressed_size, len |-> 0,
                                 raw |-> fin, size |-> gcount])
  /\ zpc' = "deflate"
  /\ UNCHANGED <<in_size, compressed_size, trailer, header>>

(* One call of deflate; another one follows while it fills the buffer.     *)
haveAll == BlockSize   \* variant: - strm.avail_out is missing
have == Least(BlockSize, pending)

(* variant: the loop goes on while the buffer is not full                  *)
DeflateInverted ==
  /\ zpc = "deflate"
  /\ pending' = pending - have
  /\ compressed_size' = compressed_size + have
  /\ payload' = [payload EXCEPT ![Len(payload)].len = @ + have]
  /\ zpc' = IF have # BlockSize THEN "deflate"
            ELSE IF flush = "finish" THEN "freeze" ELSE "read"
  /\ UNCHANGED <<in_size, fin, flush, checkpoints, original_size, trailer, header>>

(* variant: the header is kept up to date while the payload grows          *)
DeflatePatches ==
  /\ zpc = "deflate"
  /\ pending' = pending - have
  /\ compressed_size' = compressed_size + have
  /\ header' = compressed_size'
  /\ payload' = [payload EXCEPT ![Len(payload)].len = @ + have]
  /\ zpc' = IF have = BlockSize THEN "deflate"
            ELSE IF flush = "finish" THEN "freeze" ELSE "read"
  /\ UNCHANGED <<in_size, fin, flush, checkpoints, original_size, trailer>>

Deflate ==
  /\ zpc = "deflate"
  /\ pending' = pending - have
  /\ compressed_size' = compressed_size + have
  /\ payload' = [payload EXCEPT ![Len(payload)].len = @ + have]
  /\ zpc' = IF have = BlockSize THEN "deflate"
            ELSE IF flush = "finish" THEN "freeze" ELSE "read"
  /\ UNCHANGED <<in_size, fin, flush, checkpoints, original_size, trailer, header>>

FreezeTrailer ==
  /\ zpc = "freeze"
  /\ trailer' = [original_size |-> original_size, block_size |-> BlockSize,
                 offsets |-> checkpoints]
  /\ zpc' = "patch"
  /\ UNCHANGED <<in_size, fin, flush, pending, checkpoints, original_size,
                 compressed_size, payload, header>>

(* seekp(0) and the size of the payload, last.                             *)
PatchHeader ==
  /\ zpc = "patch"
  /\ header' = compressed_size
  /\ zpc' = "written"
  /\ UNCHANGED <<in_size, fin, flush, pending, checkpoints, original_size,
                 compressed_size, payload, trailer>>

CompressNext == ReadBlock \/ Deflate \/ FreezeTrailer \/ PatchHeader

CompressSpec ==
  CompressInit /\ [][CompressNext]_compressVars /\ WF_compressVars(CompressNext)

-----------------------------------------------------------------------------
CompressTypeOK ==
  /\ zpc \in {"read", "deflate", "freeze", "patch", "written"}
  /\ in_size \in Nat /\ fin \in Nat /\ pending \in Nat
  /\ original_size \in Nat /\ compressed_size \in Nat /\ header \in Nat
  /\ flush \in {"full_flush", "finish"}
  /\ checkpoints \in Seq(Nat)
  /\ payload \in Seq([at : Nat, len : Nat, raw : Nat, size : Nat])
  /\ trailer \in [original_size : Nat, block_size : Nat, offsets : Seq(Nat)]

(* Block number k of the stream holds the raw bytes from k * BlockSize on, *)
(* as many as a block has or are left, and starts where the k-th           *)
(* checkpoint says, which is where the block before it ends.               *)
BlocksLaidOut ==
  /\ Len(payload) = Len(checkpoints)
  /\ \A n \in 1 .. Len(payload) :
       /\ payload[n].at = checkpoints[n]
       /\ payload[n].raw = (n - 1) * BlockSize
       /\ payload[n].size = Least(BlockSize, in_size - payload[n].raw)
       /\ payload[n].at + payload[n].len =
            (IF n < Len(payload) THEN checkpoints[n + 1] ELSE compressed_size)

(* Until the header is patched a reader finds the placeholder: a header    *)
(* that is not zero comes with a complete stream and a complete trailer,   *)
(* in which every offset of the original file, its end included, has a     *)
(* checkpoint (an empty last block when the size is a multiple).           *)
HeaderCommits ==
  header # 0 =>
    /\ trailer.original_size = in_size
    /\ trailer.block_size = BlockSize
    /\ trailer.offsets = checkpoints
    /\ Len(trailer.offsets) = in_size \div BlockSize + 1
    /\ header = compressed_size /\ pending = 0

(* compress returns, whatever the size of the file and of its blocks once  *)
(* deflated: the loop on a full out buffer ends.                           *)
CompressEnds == <>(zpc = "written")

=============================================================================
