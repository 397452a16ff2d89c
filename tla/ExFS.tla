-------------------------------- MODULE ExFS --------------------------------
(***************************************************************************)
(* The ExFS daemon (exfs.c) on an image mkfs.c has formatted: superblock   *)
(* counters, inode and data bitmaps, inode table, root directory and data  *)
(* blocks, changed by one FUSE call at a time (the mount is single         *)
(* threaded, options.c:79).  Calls that only read (statfs, getattr,        *)
(* readdir, read) are operators.  The entries of the root directory are a  *)
(* sequence, in the order of its blocks; the inodes of free entries and    *)
(* what their blocks held before are not kept.  Paths are names in the     *)
(* root directory, as there are no others.                                 *)
(***************************************************************************)
EXTENDS Extents

CONSTANTS
  DirEntries,       \* directory entries in a block: 16
  InodesPerBlock,   \* inodes in a block of the inode table
  BitmapBits,       \* EXFS_INO_MAX and EXFS_BLK_MAX: the bits of a block
  Names,            \* file names
  Absent,           \* in Files: there is no such file
  Formats,          \* arguments of mkfs, and the bytes that were in the image: [blocks, inodes, was]
  Sizes,            \* arguments of truncate
  Accesses          \* arguments of write: [at, bytes]

ASSUME ExFSAssumption ==
  /\ {DirEntries, InodesPerBlock, BitmapBits} \subseteq Nat
  /\ DirEntries >= 2 /\ InodesPerBlock > 0
  /\ Sizes \subseteq Nat /\ Names \cap {".", "..", ""} = {} /\ Absent \notin Seq(Byte)
  /\ \A f \in Formats : f.blocks \in Nat /\ f.inodes \in Nat /\ f.was \in Byte
  /\ \A a \in Accesses : a.at \in Nat /\ a.bytes \in Seq(Byte) \ {<<>>}

VARIABLES
  sb,       \* superblock: the counters, and the layout mkfs chose
  imap,     \* inodes whose bit is set in the inode bitmap
  dmap,     \* blocks whose bit is set in the data bitmap
  itable,   \* the inode table
  dir,      \* the entries of the root directory
  disk,     \* the bytes of the data region
  mtime,    \* i_mtime: "now" if the last call set it to the present
  daemon,   \* "serving", "looping" in a call for ever, or "aborted"
  call      \* the last call and what it returned

image == <<sb, imap, dmap, itable, dir, disk, daemon>>
vars == <<image, mtime, call>>

RootIno == 0
NoIno == -1       \* EXFS_INO_MAX in an entry: free
FreeEntry == [ino |-> NoIno, name |-> ""]
Fresh == [inline |-> TRUE, blocks |-> 0, size |-> 0,
          sum |-> [w \in 0 .. WordSize - 1 |-> 0], store |-> NoBytes]
Zeroed == [Fresh EXCEPT !.inline = FALSE, !.store = <<>>]

(* bitmap_alloc takes the first bit that is clear.                         *)
BitmapAlloc(bits, used) == Min((0 .. bits - 1) \ used)
Exhausted(bits, used) == 0 .. bits - 1 \subseteq used

(* Mutant: a call that fails keeps what it had taken.                      *)
NotReleased(used, bit) == used

(* bitmap_free of a bit that the same call has set.                        *)
Released(used, bit) == used \ {bit}

-----------------------------------------------------------------------------
(* mkfs                                                                    *)

DataRegion(f) == 3 + (f.inodes + InodesPerBlock - 1) \div InodesPerBlock

MkfsAccepts(f) ==
  /\ f.inodes \in 1 .. BitmapBits - 1
  /\ f.blocks \in 5 .. BitmapBits
  /\ DataRegion(f) < f.blocks

FormattedInode(f) ==
  [Zeroed EXCEPT !.blocks = 1, !.size = BlockSize,
     !.store = <<[start |-> BitmapAlloc(f.blocks, 0 .. DataRegion(f) - 1), length |-> 1]>>]

(* What the image held before is still in the blocks of the data region.   *)
Init ==
  \E f \in Formats :
    /\ MkfsAccepts(f)
    /\ sb = [num_inodes |-> f.inodes, free_inodes |-> f.inodes - 1,
             num_blocks |-> f.blocks, free_blocks |-> f.blocks - (DataRegion(f) + 1),
             data_region |-> DataRegion(f)]
    /\ imap = {RootIno}
    /\ dmap = 0 .. DataRegion(f)
    /\ itable = [i \in 0 .. f.inodes - 1 |->
                   IF i = RootIno THEN FormattedInode(f) ELSE Zeroed]
    /\ dir = <<[ino |-> RootIno, name |-> "."], [ino |-> RootIno, name |-> ".."]>>
               \o [i \in 1 .. DirEntries - 2 |-> FreeEntry]
    /\ disk = [b \in DataRegion(f) .. f.blocks - 1 |-> [o \in 0 .. BlockSize - 1 |-> f.was]]
    /\ mtime = [i \in 0 .. f.inodes - 1 |-> IF i = RootIno THEN "now" ELSE "old"]
    /\ daemon = "serving"
    /\ call = [op |-> "none", rc |-> "OK"]

-----------------------------------------------------------------------------
(* The directory, and the calls that only read                             *)

EntriesNamed(n) == {i \in DOMAIN dir : dir[i].ino # NoIno /\ dir[i].name = n}
Found(n) == EntriesNamed(n) # {}
PathLookup(n) == dir[Min(EntriesNamed(n))].ino
FreeEntries == {i \in DOMAIN dir : dir[i].ino = NoIno}

StatFs == [bfree |-> sb.free_blocks, ffree |-> sb.free_inodes]
GetAttr(n) == LET inode == itable[PathLookup(n)] IN [size |-> inode.size, blocks |-> inode.blocks]
(* The names readdir lists, by the places of their entries.               *)
ReadDir == [i \in DOMAIN dir \ FreeEntries |-> dir[i].name]

(* A read of a whole file, a block at a time as FUSE asks for them.        *)
PageOf(p) == ((p - 1) \div BlockSize) * BlockSize
FileBytes ==
  [ino \in DOMAIN itable |-> [p \in 1 .. itable[ino].size |->
     ReadBytes(disk, itable[ino], PageOf(p), BlockSize)[p - PageOf(p)]]]
Contents(n) == FileBytes[PathLookup(n)]

-----------------------------------------------------------------------------
(* Calls that change the image                                             *)

Returns(op, n, at, bytes, rc) ==
  call' = [op |-> op, name |-> n, at |-> at, bytes |-> bytes, rc |-> rc]

(* The inodes in S get a time; time has passed for the others.             *)
SetTime(S, time) ==
  mtime' = [i \in DOMAIN mtime |-> CASE i \in S -> time
                                     [] i \notin S /\ mtime[i] = "now" -> "old"
                                     [] OTHER -> mtime[i]]
Stamp(S) == SetTime(S, "now")    \* clock_gettime

Fails(op, n, at, bytes, rc) ==
  Returns(op, n, at, bytes, rc) /\ Stamp({}) /\ UNCHANGED image

(* What the functions of Extents work on for inode ino, and what they      *)
(* leave in the image.                                                     *)
Open(ino) ==
  [first |-> sb.data_region, end |-> sb.num_blocks, free |-> sb.free_blocks,
   dmap |-> dmap, disk |-> disk, n |-> itable[ino], rc |-> "OK"]
DaemonAfter(rc) ==
  CASE rc = "LOOP" -> "looping" [] rc = "ASSERT" -> "aborted" [] OTHER -> "serving"
Saved(fs) ==
  /\ dmap' = fs.dmap /\ disk' = fs.disk /\ daemon' = DaemonAfter(fs.rc)

(* Mutant: the directory gets the block and not its size.                  *)
DirGrowOnlyBlock(fs) ==
  LET blk == BitmapAlloc(fs.end, fs.dmap)
  IN  IF Exhausted(fs.end, fs.dmap) THEN Failed(fs, "ENOSPC")
      ELSE [fs EXCEPT !.dmap = @ \cup {blk}, !.free = @ - 1, !.n = WithExtent(@, blk, 1)]

(* A new block for the root directory, all its entries free.               *)
DirGrowBlock(fs) ==
  LET blk == BitmapAlloc(fs.end, fs.dmap)
  IN  IF Exhausted(fs.end, fs.dmap) THEN Failed(fs, "ENOSPC")
      ELSE IF ~MergesWithLast(fs.n, blk) /\ Len(fs.n.store) >= NumExtents
      THEN Failed([fs EXCEPT !.dmap = Released(fs.dmap \cup {blk}, blk)], "ENOSPC")
      ELSE [fs EXCEPT !.dmap = @ \cup {blk}, !.free = @ - 1,
                      !.n = [WithExtent(fs.n, blk, 1) EXCEPT !.size = @ + BlockSize],
                      !.disk[blk] = [o \in 0 .. BlockSize - 1 |-> 0]]

(* The inode, a block for the directory if it is full, then the entry.     *)
Create(n) ==
  LET root == IF FreeEntries # {} THEN Open(RootIno) ELSE DirGrowBlock(Open(RootIno))
      entries == IF FreeEntries # {} THEN dir
                 ELSE dir \o [i \in 1 .. DirEntries |-> FreeEntry]
      slot == Min({i \in DOMAIN entries : entries[i].ino = NoIno})
      ino == BitmapAlloc(sb.num_inodes, imap)
  IN  \/ Found(n) /\ Fails("create", n, 0, <<>>, "EEXIST")
      \/ /\ ~Found(n) /\ Exhausted(sb.num_inodes, imap)
         /\ Fails("create", n, 0, <<>>, "ENOSPC")
      \/ /\ ~Found(n) /\ ~Exhausted(sb.num_inodes, imap) /\ root.rc # "OK"
         /\ imap' = Released(imap \cup {ino}, ino)
         /\ Saved(root) /\ Stamp({}) /\ Returns("create", n, 0, <<>>, root.rc)
         /\ UNCHANGED <<sb, itable, dir>>
      \/ /\ ~Found(n) /\ ~Exhausted(sb.num_inodes, imap) /\ root.rc = "OK"
         /\ imap' = imap \cup {ino}
         /\ itable' = [itable EXCEPT ![RootIno] = root.n, ![ino] = Fresh]
         /\ dir' = [entries EXCEPT ![slot] = [ino |-> ino, name |-> n]]
         /\ sb' = [sb EXCEPT !.free_blocks = root.free, !.free_inodes = @ - 1]
         /\ Saved(root) /\ Stamp({RootIno, ino}) /\ Returns("create", n, 0, <<>>, "OK")

(* The blocks, then the inode, then the entry.                             *)
Unlink(n) ==
  \/ ~Found(n) /\ Fails("unlink", n, 0, <<>>, "ENOENT")
  \/ /\ Found(n)
     /\ LET ino == PathLookup(n)
            inode == itable[ino]
            blks == IF inode.inline THEN <<>> ELSE BlocksOf(inode)
            fs == BitmapFreeAll(Open(ino), blks)
            rc == IF ino \in imap THEN fs.rc ELSE "ASSERT"
        IN  /\ imap' = imap \ {ino}
            /\ itable' = [itable EXCEPT ![ino] = Zeroed]
            /\ dir' = [dir EXCEPT ![Min(EntriesNamed(n))] = FreeEntry]
            /\ sb' = [sb EXCEPT !.free_blocks = @ + Len(blks), !.free_inodes = @ + 1]
            /\ Saved(Failed(fs, rc)) /\ Stamp({RootIno})
            /\ Returns("unlink", n, 0, <<>>, rc)

(* What truncate makes of a file.  A file that has blocks keeps blocks.    *)
TruncatedInline(n, size) ==
  [n EXCEPT !.size = size, !.store = [p \in DOMAIN @ |->
     IF p \in Min({size, n.size}) .. Max({size, n.size}) - 1 THEN 0 ELSE @[p]]]
TruncatedBlocks(fs, size) ==
  CASE size > fs.n.size -> ZeroExtentRange(EnsureBlocksForSize(fs, size), fs.n.size, size)
    [] size < fs.n.size -> ShrinkToSize(fs, size)
    [] OTHER -> fs
Truncated(fs, size) ==
  IF fs.n.inline /\ size <= InlineSize
  THEN Checksummed([fs EXCEPT !.n = TruncatedInline(@, size)])
  ELSE Checksummed(Resized(
         Undone(fs, TruncatedBlocks(ConvertInlineToExtents(fs), size)), size))

(* What write makes of a file: the bytes from its size to at are zeroed.   *)
WrittenInline(n, at, buf, size) ==
  [n EXCEPT !.size = size, !.store = [p \in DOMAIN @ |->
     CASE p \in DOMAIN buf -> buf[p]
       [] p \in n.size .. at - 1 -> 0
       [] OTHER -> @[p]]]
WrittenBlocks(fs, at, buf, end) ==
  Put(ZeroExtentRange(EnsureBlocksForSize(fs, end), fs.n.size, at), buf)
Written(fs, at, bytes) ==
  LET end == at + Len(bytes)
      buf == [p \in at .. end - 1 |-> bytes[p - at + 1]]
      size == Max({end, fs.n.size})
  IN  CASE end > fs.end * BlockSize -> Failed(fs, "EFBIG")
        [] end <= fs.end * BlockSize /\ fs.n.inline /\ end <= InlineSize ->
             Checksummed([fs EXCEPT !.n = WrittenInline(@, at, buf, size)])
        [] OTHER -> Checksummed(Resized(
             Undone(fs, WrittenBlocks(ConvertInlineToExtents(fs), at, buf, end)), size))

(* Mutant: a call that leaves the size alone keeps the time.               *)
ChangesSize(op, n, at, bytes, fs) ==
  LET ino == PathLookup(n)
  IN  /\ itable' = [itable EXCEPT ![ino] = fs.n]
      /\ sb' = [sb EXCEPT !.free_blocks = fs.free]
      /\ Saved(fs)
      /\ Stamp(IF fs.rc = "OK" /\ fs.n.size # itable[ino].size THEN {ino} ELSE {})
      /\ Returns(op, n, at, bytes, fs.rc)
      /\ UNCHANGED <<imap, dir>>

(* The end of a truncate or a write.                                       *)
Changes(op, n, at, bytes, fs) ==
  LET ino == PathLookup(n)
  IN  /\ itable' = [itable EXCEPT ![ino] = fs.n]
      /\ sb' = [sb EXCEPT !.free_blocks = fs.free]
      /\ Saved(fs) /\ Stamp(IF fs.rc = "OK" THEN {ino} ELSE {})
      /\ Returns(op, n, at, bytes, fs.rc)
      /\ UNCHANGED <<imap, dir>>

Truncate(n, size) ==
  \/ ~Found(n) /\ Fails("truncate", n, size, <<>>, "ENOENT")
  \/ Found(n) /\ Changes("truncate", n, size, <<>>, Truncated(Open(PathLookup(n)), size))

Write(n, at, bytes) ==
  \/ ~Found(n) /\ Fails("write", n, at, bytes, "ENOENT")
  \/ Found(n) /\ Changes("write", n, at, bytes, Written(Open(PathLookup(n)), at, bytes))

(* utimens: not at all (UTIME_OMIT, before the name is looked up: there    *)
(* need be no such file), or to the present or a given time.               *)
Utimens(n) ==
  \/ Returns("omit", n, 0, <<>>, "OK") /\ Stamp({}) /\ UNCHANGED image
  \/ ~Found(n) /\ Fails("utimens", n, 0, <<>>, "ENOENT")
  \/ /\ Found(n) /\ Returns("utimens", n, 0, <<>>, "OK") /\ UNCHANGED image
     /\ \E time \in {"now", "given"} : SetTime({PathLookup(n)}, time)

Loop == daemon = "looping" /\ UNCHANGED vars

Next ==
  \/ /\ daemon = "serving"
     /\ \E n \in Names :
          \/ Create(n) \/ Unlink(n) \/ Utimens(n)
          \/ \E size \in Sizes : Truncate(n, size)
          \/ \E a \in Accesses : Write(n, a.at, a.bytes)
  \/ Loop

Spec == Init /\ [][Next]_vars

-----------------------------------------------------------------------------
(* Properties                                                              *)

OwnBlocks(ino) == IF itable[ino].inline THEN <<>> ELSE BlocksOf(itable[ino])

(* The type invariant.                                                     *)
TypeOK ==
  /\ sb \in [num_inodes : Nat, free_inodes : Nat, num_blocks : Nat, free_blocks : Nat,
             data_region : Nat]
  /\ imap \subseteq 0 .. sb.num_inodes - 1 /\ dmap \subseteq 0 .. sb.num_blocks - 1
  /\ itable \in [0 .. sb.num_inodes - 1 -> Inode]
  /\ \A ino \in DOMAIN itable :
       itable[ino].inline <=> itable[ino].store \in [0 .. InlineSize - 1 -> Byte]
  /\ dir \in Seq([ino : {NoIno} \cup DOMAIN itable, name : Names \cup {".", "..", ""}])
  /\ disk \in [sb.data_region .. sb.num_blocks - 1 -> [0 .. BlockSize - 1 -> Byte]]
  /\ mtime \in [DOMAIN itable -> {"now", "old", "given"}]
  /\ daemon \in {"serving", "looping", "aborted"}

(* Every block is metadata, or in one extent of one inode, or free, and    *)
(* every file has just the blocks for its size: after any sequence of      *)
(* calls, those that failed half way included, no block is lost, shared or *)
(* freed twice, and the counters statfs reports are right.                 *)
SpaceAccounted ==
  /\ daemon # "aborted"
  /\ daemon = "serving" =>
       /\ dmap = (0 .. sb.data_region - 1) \cup
                   UNION {ToSet(OwnBlocks(ino)) : ino \in DOMAIN itable}
       /\ \A ino \in DOMAIN itable :
            /\ IsInjective(OwnBlocks(ino))
            /\ ToSet(OwnBlocks(ino)) \subseteq sb.data_region .. sb.num_blocks - 1
            /\ itable[ino].blocks = Len(OwnBlocks(ino))
            /\ ~itable[ino].inline => itable[ino].blocks = BlocksFor(itable[ino].size)
       /\ \A i, j \in DOMAIN itable :
            i # j => ToSet(OwnBlocks(i)) \cap ToSet(OwnBlocks(j)) = {}
       /\ StatFs.bfree = sb.num_blocks - Cardinality(dmap)
       /\ StatFs.ffree = sb.num_inodes - Cardinality(imap)

(* readdir lists no name twice; the inodes in use are the root and, one    *)
(* for one, those of the entries listed; an inode that is not in use keeps *)
(* nothing; and the directory has just the entries its size says.          *)
DirectoryMatchesInodes ==
  /\ IsInjective(ReadDir)
  /\ imap = {dir[i].ino : i \in DOMAIN ReadDir}
  /\ \A i, j \in DOMAIN ReadDir :
       i # j /\ dir[i].ino = dir[j].ino => {ReadDir[i], ReadDir[j]} = {".", ".."}
  /\ \A n \in {".", ".."} : Found(n) /\ PathLookup(n) = RootIno
  /\ Len(dir) * BlockSize = itable[RootIno].size * DirEntries
  /\ \A ino \in DOMAIN itable \ imap : itable[ino] = Zeroed

(* The checksum kept in an inode is that of the bytes reads return, also   *)
(* after a call that moved the file to blocks and then failed.             *)
ChecksumCurrent ==
  daemon = "serving" => \A n \in {m \in Names : Found(m)} :
    itable[PathLookup(n)].sum =
      [w \in 0 .. WordSize - 1 |->
         Xor([p \in {q \in DOMAIN Contents(n) : (q - 1) % WordSize = w} |-> Contents(n)[p]])]

(* A call that returns an error leaves the file system as it was: inodes,  *)
(* bitmaps, counters, directory, times, and the bytes of blocks in use.    *)
FailedCallChangesNothing ==
  [][call'.rc \notin {"OK", "LOOP"} =>
       /\ UNCHANGED <<sb, imap, dmap, itable, dir>>
       /\ \A b \in dmap \cap DOMAIN disk : disk'[b] = disk[b]
       /\ \A ino \in DOMAIN mtime : mtime'[ino] # "now"]_vars

(* ENOSPC is returned to a truncate or a write only if the file needs more *)
(* blocks than are free, and a call never returns only if its size is 2^32 *)
(* blocks or more.                                                         *)
FailsOnlyForSpace ==
  [][\A n \in Names : call'.op \in {"truncate", "write"} /\ call'.name = n =>
       LET needed == BlocksFor(call'.at + Len(call'.bytes))
       IN  /\ call'.rc = "ENOSPC" => needed - GetAttr(n).blocks > sb.free_blocks
           /\ call'.rc = "LOOP" => needed >= Width]_vars

(* "Must be updated when the file (or directory) is created, written to,   *)
(* or its size changes" (exfs.h:104).                                      *)
MtimeFollowsChange ==
  [][call'.rc = "OK" =>
       /\ call'.op \in {"create", "unlink"} => mtime'[RootIno] = "now"
       /\ call'.op \in {"create", "truncate", "write"} =>
            \A n \in Names : call'.name = n => mtime'[PathLookup(n)'] = "now"]_vars

(* What readers see of every file.                                         *)
FilesSeen == [n \in Names |-> IF Found(n) THEN Contents(n) ELSE Absent]

(* ExFS implements Files: every call that returns is a step of Files, so   *)
(* that what readers see changes by the calls that succeed, as asked, and  *)
(* by nothing else.  A call that never returns, of which Files says        *)
(* nothing, changes nothing readers see.                                   *)
Results == {"OK", "EEXIST", "ENOENT", "ENOSPC", "EFBIG"}
CallRecord ==
  [op : {"create", "unlink", "truncate", "write", "utimens", "omit"}, name : Names, at : Nat,
   bytes : {<<>>} \cup {a.bytes : a \in Accesses}, rc : Results]
F == INSTANCE Files WITH files <- FilesSeen, Calls <- CallRecord
ImplementsFiles ==
  /\ F!Init
  /\ [][IF call'.rc = "LOOP" THEN UNCHANGED FilesSeen ELSE F!Next]_(F!vars)

(* "@return 0 on success; -errno on error" (exfs.c:910): every truncate    *)
(* and write returns, with an errno when it cannot do what it is asked.    *)
CallsReturn == daemon # "looping"

=============================================================================
