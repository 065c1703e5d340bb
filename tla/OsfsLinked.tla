---------------------------- MODULE OsfsLinked ----------------------------
(***************************************************************************)
(* lab4/bonus: the memory file system with linked allocation.  Files and   *)
(* the root directory are chains of blocks: a block begins with the number *)
(* of the next one, and an osfs_inode holds the first and the last.  One   *)
(* action per call of the VFS, one call at a time; nothing is ever freed.  *)
(* The module never reads what it keeps in VFS inodes, which are therefore *)
(* left out: a file can be used once an inode of it exists, and osfs_create*)
(* pins one for good (dget).                                               *)
(***************************************************************************)
EXTENDS Integers, Sequences, FiniteSets

CONSTANTS
  Name,               \* file names
  Byte,               \* byte values, 0 among them
  Strings,            \* the buffers programs write, and read into
  Positions,          \* the file positions of reads and writes
  InodeCount,         \* INODE_COUNT (20 in the code)
  BlockCount,         \* DATA_BLOCK_COUNT (20 in the code)
  DataSize,           \* bytes in a block after next_block (1020 in the kernel)
  MaxDirEntries       \* MAX_DIR_ENTRIES: entries that fit in a block (3)

ROOT_INODE == 1
NO_NEXT_BLOCK == -1

ASSUME DataAssumption ==
  /\ 0 \in Byte /\ Strings \subseteq Seq(Byte)
  /\ "" \notin Name
  /\ Positions \subseteq Nat
ASSUME SizeAssumption ==
  /\ InodeCount \in Nat /\ InodeCount > ROOT_INODE
  /\ BlockCount \in Nat \ {0}
  /\ DataSize \in Nat /\ DataSize > 1
  /\ MaxDirEntries \in Nat \ {0}

Ino == ROOT_INODE .. InodeCount - 1
Block == 0 .. BlockCount - 1
Offset == 0 .. DataSize - 1
Slot == 0 .. MaxDirEntries - 1

VARIABLES
  nr_free_inodes, nr_free_blocks,
  inode_bitmap, block_bitmap,
  inode_table,        \* the osfs_inodes; the root's i_size counts entries
  next_block,         \* next_block[b]: the header of block b
  data,               \* data[b][o]: the bytes of a file's block
  dir_entries,        \* dir_entries[b][k]: the entries of a directory's block
  ret                 \* what the last call returned

vars == <<nr_free_inodes, nr_free_blocks, inode_bitmap, block_bitmap, inode_table,
          next_block, data, dir_entries, ret>>

NewInode == [i_size |-> 0, i_blocks |-> 0, i_head |-> NO_NEXT_BLOCK, i_tail |-> NO_NEXT_BLOCK]
NoEntry == [filename |-> "", inode_no |-> 0]

\* osfs_fill_super: the memory is zero, the root directory has no block.  No
\* header or osfs_inode is read before it has been initialised.
Init ==
  /\ nr_free_inodes = InodeCount - 1
  /\ nr_free_blocks = BlockCount
  /\ inode_bitmap = {ROOT_INODE}
  /\ block_bitmap = {}
  /\ inode_table = [i \in Ino |-> NewInode]
  /\ next_block = [b \in Block |-> 0]
  /\ data = [b \in Block |-> [o \in Offset |-> 0]]
  /\ dir_entries = [b \in Block |-> [k \in Slot |-> NoEntry]]
  /\ ret = [err |-> "ok", bytes |-> <<>>]

Returns(err, bytes) == ret' = [err |-> err, bytes |-> bytes]

Min2(x, y) == IF x < y THEN x ELSE y

\* The first clear bit, as the loop of osfs_get_free_inode finds it.
FirstFreeInode(i) ==
  i \in Ino \ inode_bitmap /\ ROOT_INODE .. i - 1 \subseteq inode_bitmap

\* Mutant: the count goes down twice, as it does in lab4/basic.
TakeInodeTwice(i) ==
  /\ FirstFreeInode(i)
  /\ inode_bitmap' = inode_bitmap \cup {i}
  /\ nr_free_inodes' = nr_free_inodes - 2

TakeInode(i) ==
  /\ FirstFreeInode(i)
  /\ inode_bitmap' = inode_bitmap \cup {i}
  /\ nr_free_inodes' = nr_free_inodes - 1

\* Mutant: an allocated block's bit stays clear.
AllocBlocksUnmarked(B, n) ==
  /\ B \subseteq Block \ block_bitmap
  /\ Cardinality(B) = n
  /\ \A b \in B : 0 .. b - 1 \subseteq block_bitmap \cup B
  /\ nr_free_blocks' = nr_free_blocks - n
  /\ UNCHANGED block_bitmap

\* n calls of osfs_alloc_data_block: the first n clear bits.
AllocBlocks(B, n) ==
  /\ B \subseteq Block \ block_bitmap
  /\ Cardinality(B) = n
  /\ \A b \in B : 0 .. b - 1 \subseteq block_bitmap \cup B
  /\ block_bitmap' = block_bitmap \cup B
  /\ nr_free_blocks' = nr_free_blocks - n

First(B) == CHOOSE b \in B : \A c \in B : b <= c
Last(B) == CHOOSE b \in B : \A c \in B : b >= c

\* The inode and the headers once the blocks B, in ascending order, have been
\* put at the end of i's chain (osfs_append_block, osfs_add_dir_entry).
Extended(i, B) ==
  IF B = {} THEN inode_table[i]
  ELSE [inode_table[i] EXCEPT
          !.i_head = IF @ = NO_NEXT_BLOCK THEN First(B) ELSE @,
          !.i_tail = Last(B),
          !.i_blocks = @ + Cardinality(B)]

\* Mutant: the last block of the chain is not pointed at the new ones.
LinkedNot(i, B) ==
  [b \in Block |->
     IF b \in B
     THEN IF b = Last(B) THEN NO_NEXT_BLOCK ELSE First({c \in B : c > b})
     ELSE next_block[b]]

Linked(i, B) ==
  [b \in Block |->
     IF b \in B
     THEN IF b = Last(B) THEN NO_NEXT_BLOCK ELSE First({c \in B : c > b})
     ELSE IF B # {} /\ inode_table[i].i_head # NO_NEXT_BLOCK /\ b = inode_table[i].i_tail
          THEN First(B) ELSE next_block[b]]

Following(b) == IF b = NO_NEXT_BLOCK THEN NO_NEXT_BLOCK ELSE next_block[b]

\* Chain(i)[k]: the k-th block of i, from 0, and NO_NEXT_BLOCK after the last.
Chain(i) ==
  LET at[k \in 0 .. BlockCount] ==
        IF k = 0 THEN inode_table[i].i_head ELSE Following(at[k - 1])
  IN  at
-----------------------------------------------------------------------------
Count == inode_table[ROOT_INODE].i_size

\* Where the walks of osfs_iterate and osfs_add_dir_entry expect the entries.
EntryAt(n) == dir_entries[Chain(ROOT_INODE)[n \div MaxDirEntries]][n % MaxDirEntries]
FileNames == {EntryAt(n).filename : n \in 0 .. Count - 1}

\* What osfs_lookup finds: it stops after the first block.
LookupNames == {EntryAt(n).filename : n \in 0 .. Min2(Count, MaxDirEntries) - 1}

\* osfs_create.  The VFS calls it for a name that osfs_lookup has not found.
MayCreate(f) == f \notin LookupNames

CreateNoSpace(f) ==
  /\ MayCreate(f)
  /\ nr_free_inodes = 0 \/ nr_free_blocks = 0 \/ Ino \subseteq inode_bitmap
  /\ Returns("ENOSPC", <<>>)
  /\ UNCHANGED <<nr_free_inodes, nr_free_blocks, inode_bitmap, block_bitmap, inode_table,
                 next_block, data, dir_entries>>

\* new_inode returns NULL: the inode number stays taken.
CreateNoMemory(f, i) ==
  /\ MayCreate(f)
  /\ nr_free_inodes # 0 /\ nr_free_blocks # 0
  /\ TakeInode(i)
  /\ Returns("ENOMEM", <<>>)
  /\ UNCHANGED <<nr_free_blocks, block_bitmap, inode_table, next_block, data, dir_entries>>

\* osfs_add_dir_entry: no block yet, or the last one is full.
NeedsDirBlock ==
  \/ inode_table[ROOT_INODE].i_head = NO_NEXT_BLOCK
  \/ Count # 0 /\ Count % MaxDirEntries = 0

\* The part of osfs_create and osfs_add_dir_entry before the name is compared.
\* A block is free when one is needed: nr_free_blocks is not 0.
NewFile(i, B) ==
  /\ nr_free_inodes # 0 /\ nr_free_blocks # 0
  /\ TakeInode(i)
  /\ AllocBlocks(B, IF NeedsDirBlock THEN 1 ELSE 0)
  /\ next_block' = Linked(ROOT_INODE, B)

\* The name is there already: inode and directory block stay taken.
CreateExists(f, i, B) ==
  /\ MayCreate(f) /\ f \in FileNames
  /\ NewFile(i, B)
  /\ inode_table' = [inode_table EXCEPT ![i] = NewInode,
                                        ![ROOT_INODE] = Extended(ROOT_INODE, B)]
  /\ Returns("EEXIST", <<>>)
  /\ UNCHANGED <<data, dir_entries>>

\* Mutant: the entry goes to the first block of the directory.
EntryBlockHead == inode_table'[ROOT_INODE].i_head

\* The entry goes to the last block, new or not.
EntryBlock == inode_table'[ROOT_INODE].i_tail

Create(f, i, B) ==
  /\ MayCreate(f) /\ f \notin FileNames
  /\ NewFile(i, B)
  /\ inode_table' = [inode_table EXCEPT
                       ![i] = NewInode,
                       ![ROOT_INODE] = [Extended(ROOT_INODE, B) EXCEPT !.i_size = @ + 1]]
  /\ dir_entries' = [dir_entries EXCEPT
                       ![EntryBlock][Count % MaxDirEntries] = [filename |-> f, inode_no |-> i]]
  /\ Returns("ok", <<>>)
  /\ UNCHANGED data
-----------------------------------------------------------------------------
\* The files: every directory entry ever made, wherever it is.
FileInodes == {dir_entries[b][k].inode_no : b \in Block, k \in Slot} \ {0}

\* osfs_find_block
FindBlock(i, pos) == <<Chain(i)[pos \div DataSize], pos % DataSize>>

\* osfs_ensure_offset(end - 1): the division of -1 gives 0 in C.
Required(end) == IF end = 0 THEN 1 ELSE (end - 1) \div DataSize + 1

Missing(i, end) ==
  IF Required(end) > inode_table[i].i_blocks
  THEN Required(end) - inode_table[i].i_blocks ELSE 0

FreeBlocks == Cardinality(Block \ block_bitmap)

\* Mutant: blocks that are taken before the disk is full are not kept.
WriteNoSpaceLoses(i, pos, s, B) ==
  /\ Missing(i, pos + Len(s)) > FreeBlocks
  /\ AllocBlocks(B, FreeBlocks)
  /\ UNCHANGED <<inode_table, next_block>>
  /\ Returns("ENOSPC", <<>>)
  /\ UNCHANGED <<nr_free_inodes, inode_bitmap, data, dir_entries>>

\* The disk is full: the file keeps the blocks appended until then.
WriteNoSpace(i, pos, s, B) ==
  /\ Missing(i, pos + Len(s)) > FreeBlocks
  /\ AllocBlocks(B, FreeBlocks)
  /\ inode_table' = [inode_table EXCEPT ![i] = Extended(i, B)]
  /\ next_block' = Linked(i, B)
  /\ Returns("ENOSPC", <<>>)
  /\ UNCHANGED <<nr_free_inodes, inode_bitmap, data, dir_entries>>

\* The blocks with s copied to position pos of file i, in the grown chain.
Overlay(i, pos, s) ==
  LET place(n) == FindBlock(i, pos + n - 1)'
      over == {place(n) : n \in DOMAIN s}
  IN  [b \in Block |-> [o \in Offset |->
         IF <<b, o>> \in over THEN s[CHOOSE n \in DOMAIN s : place(n) = <<b, o>>]
         ELSE data[b][o]]]

Grow(i, end, B) ==
  /\ AllocBlocks(B, Missing(i, end))
  /\ next_block' = Linked(i, B)
  /\ UNCHANGED <<nr_free_inodes, inode_bitmap, dir_entries>>

\* copy_from_user fails after k bytes of s: it clears the rest of the part of
\* the block it was to fill, and the size stays.
WriteFault(i, pos, s, B, k) ==
  /\ Grow(i, pos + Len(s), B)
  /\ inode_table' = [inode_table EXCEPT ![i] = Extended(i, B)]
  /\ LET chunkEnd == Min2(pos + Len(s), ((pos + k) \div DataSize + 1) * DataSize)
         cleared == [n \in 1 .. chunkEnd - pos - k |-> 0]
     IN  data' = Overlay(i, pos, SubSeq(s, 1, k) \o cleared)
  /\ Returns("EFAULT", <<>>)

NewSize(i, end) ==
  IF end > inode_table[i].i_size THEN end ELSE inode_table[i].i_size

\* A write of no bytes raises the size too, when it lies beyond it.
Write(i, pos, s, B) ==
  /\ Grow(i, pos + Len(s), B)
  /\ inode_table' = [inode_table EXCEPT
                       ![i] = [Extended(i, B) EXCEPT !.i_size = NewSize(i, pos + Len(s))]]
  /\ data' = Overlay(i, pos, s)
  /\ Returns("ok", s)

\* osfs_read: nothing at the end of the file or after it.
ReadEnd(i, pos) ==
  /\ pos >= inode_table[i].i_size
  /\ Returns("ok", <<>>)
  /\ UNCHANGED <<nr_free_inodes, nr_free_blocks, inode_bitmap, block_bitmap, inode_table,
                 next_block, data, dir_entries>>

ByteAt(i, pos) == LET at == FindBlock(i, pos) IN data[at[1]][at[2]]

Read(i, pos, len) ==
  /\ pos < inode_table[i].i_size
  /\ LET n == Min2(len, inode_table[i].i_size - pos)
     IN  \/ Returns("ok", [k \in 1 .. n |-> ByteAt(i, pos + k - 1)])
         \/ n > 0 /\ Returns("EFAULT", <<>>)
  /\ UNCHANGED <<nr_free_inodes, nr_free_blocks, inode_bitmap, block_bitmap, inode_table,
                 next_block, data, dir_entries>>

Creating ==
  \E f \in Name :
    \/ CreateNoSpace(f)
    \/ \E i \in Ino : CreateNoMemory(f, i)
    \/ \E i \in Ino, B \in SUBSET Block : CreateExists(f, i, B) \/ Create(f, i, B)

Writing(i, pos, s) ==
  \E B \in SUBSET Block :
    \/ WriteNoSpace(i, pos, s, B)
    \/ Write(i, pos, s, B)
    \/ \E k \in 0 .. Len(s) - 1 : WriteFault(i, pos, s, B, k)

Reading(i, pos, s) == ReadEnd(i, pos) \/ Read(i, pos, Len(s))

Next ==
  \/ Creating
  \/ \E i \in FileInodes, pos \in Positions, s \in Strings :
       Writing(i, pos, s) \/ Reading(i, pos, s)

Spec == Init /\ [][Next]_vars
-----------------------------------------------------------------------------
MaxSize == BlockCount * DataSize

\* Head, tail and number of blocks of every inode agree with the headers, and
\* the chain is long enough for the size: no walk runs off a chain's end, also
\* after a call that failed half-way.
ChainsSound ==
  \A i \in Ino :
    LET t == inode_table[i]
    IN  /\ \A k \in 0 .. BlockCount : Chain(i)[k] = NO_NEXT_BLOCK <=> k >= t.i_blocks
        /\ t.i_tail = IF t.i_blocks = 0 THEN NO_NEXT_BLOCK ELSE Chain(i)[t.i_blocks - 1]
        /\ t.i_size <= t.i_blocks * (IF i = ROOT_INODE THEN MaxDirEntries ELSE DataSize)

\* Every allocated block is at exactly one place of one chain: files and
\* directory share none, and no failing call loses one.
EachBlockOnce ==
  LET places == {p \in Ino \X (0 .. BlockCount) : Chain(p[1])[p[2]] # NO_NEXT_BLOCK}
  IN  /\ block_bitmap = {Chain(p[1])[p[2]] : p \in places}
      /\ Cardinality(block_bitmap) = Cardinality(places)

\* Both counters are the numbers of clear bits.
CountersExact ==
  /\ nr_free_blocks = BlockCount - Cardinality(block_bitmap)
  /\ nr_free_inodes = InodeCount - Cardinality(inode_bitmap)

\* Where an entry has been written.
Written == {p \in Block \X Slot : dir_entries[p[1]][p[2]] # NoEntry}
EntryIn(p) == dir_entries[p[1]][p[2]]

\* The directory's size is the number of entries it holds: none is overwritten
\* and none written twice; each has an allocated inode of its own, whatever
\* blocks failing creations have put into the directory.
EntriesKept ==
  /\ Cardinality(Written) = Count
  /\ \A p \in Written : EntryIn(p).inode_no \in inode_bitmap \ {ROOT_INODE}
  /\ \A p, q \in Written : p # q => EntryIn(p).inode_no # EntryIn(q).inode_no

\* The file a name stands for; what lies beyond its chain is zero.
FileOf(f) ==
  LET i == (CHOOSE e \in {EntryIn(p) : p \in Written} : e.filename = f).inode_no
  IN  IF \E p \in Written : EntryIn(p).filename = f
      THEN [size |-> inode_table[i].i_size,
            bytes |-> [pos \in 0 .. MaxSize - 1 |->
              IF pos < inode_table[i].i_blocks * DataSize
              THEN ByteAt(i, pos) ELSE 0]]
      ELSE [size |-> -1, bytes |-> [pos \in 0 .. MaxSize - 1 |-> 0]]

Store == INSTANCE FileStore WITH
  file <- [f \in Name |-> FileOf(f)],
  BlockSize <- MaxSize,
  Lengths <- {Len(s) : s \in Strings},
  EmptyWriteExtends <- TRUE

\* To programs the files are independent byte arrays as long as the disk, from
\* whichever blocks they are put together and whatever fails half-way.
ImplementsFileStore == Store!Spec

\* No two entries of the directory have the same name.
NamesUnique ==
  \A p, q \in Written : p # q => EntryIn(p).filename # EntryIn(q).filename
=============================================================================
