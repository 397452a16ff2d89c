------------------------------ MODULE Extents ------------------------------
(***************************************************************************)
(* How a file of ExFS gets, loses and reaches its blocks (exfs.c): the     *)
(* operators below take and return what the C functions of one call work   *)
(* on, a record with fields                                                *)
(*   first, end   the data region: blocks first .. end - 1                 *)
(*   free         sb_free_blocks                                           *)
(*   dmap         the blocks whose bit is set in the data bitmap           *)
(*   disk         the bytes of the blocks of the data region               *)
(*   n            the inode                                                *)
(*   rc           "OK", an errno, "LOOP" when the code never returns, or   *)
(*                "ASSERT" when it frees a block that is free              *)
(* In an inode, inline_data and extents share their space: store is the    *)
(* bytes of an inline file and the sequence of extents of any other.  A    *)
(* byte is a bit, so that the XOR of bytes is their sum modulo 2.          *)
(***************************************************************************)
EXTENDS Integers, SequencesExt

CONSTANTS
  BlockSize,    \* EXFS_BLOCK_SIZE, in bytes
  InlineSize,   \* EXFS_INLINE_SIZE
  NumExtents,   \* EXFS_NUM_EXTENTS
  WordSize,     \* bytes XORed at a time by the checksum: 4
  Width         \* values of a uint32_t: 2^32

ASSUME ExtentsAssumption ==
  /\ {BlockSize, InlineSize, NumExtents, WordSize, Width} \subseteq Nat \ {0}
  /\ InlineSize <= BlockSize /\ Width > 1

Byte == {0, 1}
Extent == [start : Nat, length : Nat]
NoBytes == [p \in 0 .. InlineSize - 1 |-> 0]

Inode == [inline : BOOLEAN, blocks : Nat, size : Nat,
          sum : [0 .. WordSize - 1 -> Byte],
          store : [0 .. InlineSize - 1 -> Byte] \cup Seq(Extent)]

BlocksFor(bytes) == (bytes + BlockSize - 1) \div BlockSize

(* Errors pass through the operators: what fails leaves rc set, and what   *)
(* follows in the code's order of calls is skipped.                        *)
Failed(fs, rc) == [fs EXCEPT !.rc = rc]

(* map_block for every index: the blocks of an inode, in the order of the  *)
(* file.                                                                   *)
ExtentBlocks(e) == [i \in 1 .. e.length |-> e.start + i - 1]
BlocksOf(n) == FlattenSeq([i \in DOMAIN n.store |-> ExtentBlocks(n.store[i])])
MapBlock(n, idx) == BlocksOf(n)[idx + 1]

(* bitmap_free, with its assertion; one block, or each of a sequence.      *)
BitmapFree(fs, blk) ==
  IF blk \in fs.dmap THEN [fs EXCEPT !.dmap = @ \ {blk}]
  ELSE Failed(fs, "ASSERT")
BitmapFreeAll(fs, blks) ==
  IF IsInjective(blks) /\ ToSet(blks) \subseteq fs.dmap
  THEN [fs EXCEPT !.dmap = @ \ ToSet(blks)]
  ELSE Failed(fs, "ASSERT")

IsValidDataBlock(fs, blk) == blk \in fs.first .. fs.end - 1
IsFree(fs, blk) == IsValidDataBlock(fs, blk) /\ blk \notin fs.dmap

(* The free blocks from blk on, max at most.                               *)
CountFreeRun(fs, blk, max) ==
  Max({k \in 0 .. max : k = 0 \/ \A b \in blk .. blk + k - 1 : IsFree(fs, b)})

(* The first free run of max blocks, or the longest, the first of equals.  *)
RunStarts(fs) == {b \in fs.first .. fs.end - 1 : IsFree(fs, b) /\ ~IsFree(fs, b - 1)}
RunLength(fs, b) == CountFreeRun(fs, b, fs.end - b)
FindBestFreeRun(fs, max) ==
  LET fit == {b \in RunStarts(fs) : RunLength(fs, b) >= max}
      longest == {b \in RunStarts(fs) :
                    \A c \in RunStarts(fs) : RunLength(fs, b) >= RunLength(fs, c)}
      start == Min(IF fit # {} THEN fit ELSE longest)
  IN  [start |-> start, length |-> Min({max, RunLength(fs, start)})]

MergesWithLast(n, start) ==
  /\ n.store # <<>>
  /\ Last(n.store).length > 0 /\ Last(n.store).start + Last(n.store).length = start

WithExtent(n, start, length) ==
  [n EXCEPT !.blocks = @ + length,
            !.store = IF MergesWithLast(n, start)
                      THEN [n.store EXCEPT ![Len(n.store)].length = @ + length]
                      ELSE Append(@, [start |-> start, length |-> length])]

AppendExtentRange(fs, run) ==
  LET range == run.start .. run.start + run.length - 1
  IN  CASE run.length = 0 -> fs
        [] run.length > 0 /\ ~MergesWithLast(fs.n, run.start)
                          /\ Len(fs.n.store) >= NumExtents -> Failed(fs, "EFBIG")
        [] OTHER ->
             IF fs.free < run.length THEN Failed(fs, "ENOSPC")
             ELSE IF \E b \in range : ~IsFree(fs, b) THEN Failed(fs, "EIO")
             ELSE [fs EXCEPT !.dmap = @ \cup range, !.free = @ - run.length,
                             !.disk = [b \in DOMAIN @ |->
                                IF b \in range THEN [o \in 0 .. BlockSize - 1 |-> 0] ELSE @[b]],
                             !.n = WithExtent(@, run.start, run.length)]

(* free_last_block, for an inode whose extents are not empty.              *)
WithoutLastBlock(n) ==
  [n EXCEPT !.blocks = @ - 1,
            !.store = IF Last(n.store).length = 1 THEN Front(n.store)
                      ELSE [n.store EXCEPT ![Len(n.store)].length = @ - 1]]
FreeLastBlock(fs) ==
  IF fs.n.store = <<>> \/ fs.n.blocks = 0 THEN Failed(fs, "EIO")
  ELSE LET freed == BitmapFree(fs, Last(fs.n.store).start + Last(fs.n.store).length - 1)
       IN  [freed EXCEPT !.free = @ + 1, !.n = WithoutLastBlock(fs.n)]

FreeLastBlocks(fs, k) ==
  LET freed[i \in 0 .. k] == IF i = 0 THEN fs ELSE FreeLastBlock(freed[i - 1])
  IN  freed[k]

(* One turn of the loop of ensure_blocks_for_size: extend the last extent  *)
(* in place, or append the best free run.  The blocks that remain are kept *)
(* in 32 bits.                                                             *)
EndOf(n) == IF n.store = <<>> THEN 0 ELSE Last(n.store).start + Last(n.store).length
NextRun(fs, max) ==
  LET inPlace == CountFreeRun(fs, EndOf(fs.n), max)
  IN  IF inPlace > 0 THEN [start |-> EndOf(fs.n), length |-> inPlace]
      ELSE FindBestFreeRun(fs, max)

(* Mutant: the remaining blocks are wanted in one run.                     *)
GrowInOneRun(fs, needed) ==
  IF RunStarts(fs) = {} \/ NextRun(fs, needed - fs.n.blocks).length < needed - fs.n.blocks
  THEN Failed(fs, "ENOSPC")
  ELSE AppendExtentRange(fs, NextRun(fs, needed - fs.n.blocks))

GrowOnce(fs, needed) ==
  IF RunStarts(fs) = {} THEN Failed(fs, "ENOSPC")
  ELSE AppendExtentRange(fs, NextRun(fs, (needed - fs.n.blocks) % Width))

(* The loop ends when the file is large enough or a turn fails; a turn     *)
(* that changes nothing is repeated for ever.                              *)
Grown(fs, needed) ==
  LET turns == fs.end - fs.first + 1
      Turn(g) == IF g.rc # "OK" \/ g.n.blocks >= needed THEN g ELSE GrowOnce(g, needed)
      grow[i \in 0 .. turns] == IF i = 0 THEN fs ELSE Turn(grow[i - 1])
  IN  grow[turns]

(* Mutant: the blocks appended before a failure are kept.                  *)
NotRolledBack(fs, grown, needed) == grown

(* After a failure the blocks appended before it are freed again.          *)
RolledBack(fs, grown, needed) ==
  CASE grown.rc # "OK" ->
         Failed(FreeLastBlocks(grown, grown.n.blocks - fs.n.blocks), grown.rc)
    [] grown.rc = "OK" /\ grown.n.blocks < needed -> Failed(grown, "LOOP")
    [] OTHER -> grown
EnsureBlocksForSize(fs, target) ==
  IF fs.rc # "OK" THEN fs
  ELSE RolledBack(fs, Grown(fs, BlocksFor(target)), BlocksFor(target))

(* Bytes to positions of the file: what memset and memcpy do through       *)
(* map_block in zero_extent_range, convert_inline_to_extents and           *)
(* exfs_write.                                                             *)
Put(fs, bytes) ==
  LET blks == BlocksOf(fs.n)
      at(b, o) == {p \in DOMAIN bytes :
                     p % BlockSize = o /\ blks[p \div BlockSize + 1] = b}
  IN  IF fs.rc # "OK" THEN fs
      ELSE IF \E p \in DOMAIN bytes : p \div BlockSize >= Len(blks) THEN Failed(fs, "EIO")
      ELSE [fs EXCEPT !.disk = [b \in DOMAIN @ |-> [o \in 0 .. BlockSize - 1 |->
              IF at(b, o) # {} THEN bytes[Min(at(b, o))] ELSE @[b][o]]]]

ZeroExtentRange(fs, from, to) == Put(fs, [p \in from .. to - 1 |-> 0])

(* Frees the blocks beyond target and zeroes the tail of the last one.     *)
ShrinkToSize(fs, target) ==
  IF fs.rc # "OK" THEN fs
  ELSE ZeroExtentRange(FreeLastBlocks(fs, Max({fs.n.blocks - BlocksFor(target), 0})),
                       target, BlocksFor(target) * BlockSize)

(* Mutant: the bytes are not copied.                                       *)
ConvertWithoutBytes(fs) ==
  IF ~fs.n.inline THEN fs
  ELSE EnsureBlocksForSize([fs EXCEPT !.n.inline = FALSE, !.n.store = <<>>], fs.n.size)

(* convert_inline_to_extents: the bytes of an inline file move to blocks.  *)
(* When there is no block for them restore_inline_inode undoes it.         *)
Restored(before, fs) == IF fs.rc \in {"OK", "LOOP"} THEN fs ELSE [fs EXCEPT !.n = before.n]
ConvertInlineToExtents(fs) ==
  IF ~fs.n.inline THEN fs
  ELSE Restored(fs,
         Put(EnsureBlocksForSize([fs EXCEPT !.n.inline = FALSE, !.n.store = <<>>], fs.n.size),
             [p \in 0 .. fs.n.size - 1 |-> fs.n.store[p]]))

(* Mutants: the file keeps its blocks, or gets its flag back and not its   *)
(* bytes.                                                                  *)
NotUndone(before, fs) == fs
UndoneFlag(before, fs) ==
  IF fs.rc = "OK" \/ fs.rc \in {"LOOP", "ASSERT"} \/ ~before.n.inline THEN fs
  ELSE [Failed(ShrinkToSize([fs EXCEPT !.rc = "OK"], 0), fs.rc) EXCEPT !.n.inline = TRUE]

(* The tail of exfs_truncate and exfs_write when they fail: a file that    *)
(* was inline when the call began gives its blocks back and is inline      *)
(* again.                                                                  *)
Undone(before, fs) ==
  IF fs.rc = "OK" \/ fs.rc \in {"LOOP", "ASSERT"} \/ ~before.n.inline THEN fs
  ELSE [Failed(ShrinkToSize([fs EXCEPT !.rc = "OK"], 0), fs.rc) EXCEPT !.n = before.n]

(* exfs_read: the count bytes from offset, which lie in one block, or as   *)
(* many as the file has.                                                   *)
ReadBytes(disk, n, offset, count) ==
  LET idx == offset \div BlockSize
      blks == BlocksOf(n)
  IN  [i \in 1 .. Min({count, n.size - offset}) |->
         CASE n.inline -> n.store[offset + i - 1]
           [] ~n.inline /\ idx < Len(blks) -> disk[blks[idx + 1]][(offset % BlockSize) + i - 1]
           [] OTHER -> 0]

(* inode_checksum: the XOR of the words of the first i_size bytes, byte by *)
(* byte of the word.                                                       *)
Xor(bytes) == Cardinality({p \in DOMAIN bytes : bytes[p] = 1}) % 2
CalculateChecksum(n) ==
  [w \in 0 .. WordSize - 1 |->
     Xor([p \in {q \in 0 .. n.size - 1 : q % WordSize = w} |-> n.store[p]])]

(* Mutant: a last word that is not whole is left out.                      *)
ChecksumWholeWords(disk, n) ==
  [w \in 0 .. WordSize - 1 |->
     Xor([i \in 0 .. (n.size \div WordSize) - 1 |->
            disk[MapBlock(n, (i * WordSize + w) \div BlockSize)][(i * WordSize + w) % BlockSize]])]

ChecksumExtents(disk, n) ==
  [w \in 0 .. WordSize - 1 |->
     Xor([p \in {q \in 0 .. n.size - 1 : q % WordSize = w} |->
            disk[MapBlock(n, p \div BlockSize)][p % BlockSize]])]
InodeChecksum(disk, n) ==
  IF n.inline THEN CalculateChecksum(n) ELSE ChecksumExtents(disk, n)

(* The end of a call that has resized the file.                            *)
Resized(fs, size) == IF fs.rc # "OK" THEN fs ELSE [fs EXCEPT !.n.size = size]
Checksummed(fs) == IF fs.rc # "OK" THEN fs ELSE [fs EXCEPT !.n.sum = InodeChecksum(fs.disk, fs.n)]

=============================================================================
