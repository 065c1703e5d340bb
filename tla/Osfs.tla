------------------------------- MODULE Osfs -------------------------------
(***************************************************************************)
(* lab4/basic: the memory file system.  A file has one data block at most, *)
(* the root directory is the only directory, and nothing is ever freed.    *)
(* One action per call of the VFS into the module; calls come one at a     *)
(* time.  The VFS around it (dentry cache, inode cache, copies between     *)
(* user and kernel) is external and modelled by what these calls see of it.*)
(***************************************************************************)
EXTENDS Integers, Sequences, FiniteSets

CONSTANTS
  Name,               \* file names
  Byte,               \* byte values, 0 among them
  Strings,            \* the buffers programs write
  Sizes,              \* the sizes programs truncate files to
  InodeCount,         \* INODE_COUNT (20 in the code)
  BlockCount,         \* DATA_BLOCK_COUNT (20 in the code)
  BlockSize,          \* BLOCK_SIZE, in bytes (1024 in the kernel)
  MaxDirEntries,      \* MAX_DIR_ENTRIES: entries that fit in a block (3)
  Word                \* values of a uint32_t (2^32)

ROOT_INODE == 1

ASSUME ByteAssumption == 0 \in Byte
ASSUME StringsAssumption == Strings \subseteq Seq(Byte)
ASSUME SizesAssumption == Sizes \subseteq Nat
ASSUME SizeAssumption ==
  /\ InodeCount \in Nat /\ InodeCount > ROOT_INODE
  /\ BlockCount \in Nat \ {0}
  /\ BlockSize \in Nat \ {0}
  /\ MaxDirEntries \in Nat
  /\ Word \in Nat /\ Word > InodeCount /\ Word > BlockCount

Ino == ROOT_INODE .. InodeCount - 1   \* inode numbers that get_free_inode gives
Block == 0 .. BlockCount - 1
Offset == 0 .. BlockSize - 1

\* The in-memory inode of a file opened by creat(), and the one that a path
\* lookup finds in the dentry cache.
Via == {"create", "lookup"}
None == -1

VARIABLES
  nr_free_inodes, nr_free_blocks,
  inode_bitmap, block_bitmap,
  inode_table,        \* i_size, i_blocks and i_block of each file's osfs_inode
  entries,            \* the root directory's entries, its i_size among them
  data,               \* data[b][o]: the bytes of block b
  vfs,                \* vfs[i][v]: i_size of a VFS inode in memory, or None
  ret                 \* what the last call returned

counters == <<nr_free_inodes, nr_free_blocks>>
bitmaps == <<inode_bitmap, block_bitmap>>
vars == <<counters, bitmaps, inode_table, entries, data, vfs, ret>>

Zeros == [o \in Offset |-> 0]
NewInode == [i_size |-> 0, i_blocks |-> 0, i_block |-> 0]

\* osfs_fill_super: the root inode is taken, its directory is empty.
Init ==
  /\ nr_free_inodes = InodeCount - 1
  /\ nr_free_blocks = BlockCount
  /\ inode_bitmap = {ROOT_INODE}
  /\ block_bitmap = {}
  /\ inode_table = [i \in Ino |-> NewInode]
  /\ entries = <<>>
  /\ data = [b \in Block |-> Zeros]
  /\ vfs = [i \in Ino |-> [v \in Via |-> None]]
  /\ ret = [err |-> "ok", bytes |-> <<>>]

Returns(err, bytes) == ret' = [err |-> err, bytes |-> bytes]

\* The first clear bit, as the loops of osfs_get_free_inode and
\* osfs_alloc_data_block find it.
FirstFreeInode(i) ==
  i \in Ino \ inode_bitmap /\ ROOT_INODE .. i - 1 \subseteq inode_bitmap

FirstFreeBlock(b) ==
  b \in Block \ block_bitmap /\ 0 .. b - 1 \subseteq block_bitmap

\* Mutant: the free count is left as it was.
AllocBlockUncounted(b) ==
  /\ FirstFreeBlock(b)
  /\ block_bitmap' = block_bitmap \cup {b}
  /\ UNCHANGED nr_free_blocks

\* osfs_alloc_data_block
AllocBlock(b) ==
  /\ FirstFreeBlock(b)
  /\ block_bitmap' = block_bitmap \cup {b}
  /\ nr_free_blocks' = nr_free_blocks - 1

\* A uint32_t going down by k.
Less(x, k) == (x - k) % Word

\* The directory as a set of entries.
Entries == {entries[k] : k \in DOMAIN entries}
FileNames == {entries[k].filename : k \in DOMAIN entries}
FileInodes == {entries[k].inode_no : k \in DOMAIN entries}
-----------------------------------------------------------------------------
\* osfs_create.  The VFS calls it for a name that osfs_lookup has not found.
MayCreate(f) == f \notin FileNames

NoFreeInode == Ino \subseteq inode_bitmap

\* osfs_new_inode finds a counter at zero or no clear bit.
CreateNoSpace(f) ==
  /\ MayCreate(f)
  /\ nr_free_inodes = 0 \/ nr_free_blocks = 0 \/ NoFreeInode
  /\ Returns("ENOSPC", <<>>)
  /\ UNCHANGED <<counters, bitmaps, inode_table, entries, data, vfs>>

\* new_inode returns NULL: the inode number stays taken.
CreateNoMemory(f, i) ==
  /\ MayCreate(f)
  /\ nr_free_inodes # 0 /\ nr_free_blocks # 0
  /\ FirstFreeInode(i)
  /\ inode_bitmap' = inode_bitmap \cup {i}
  /\ nr_free_inodes' = Less(nr_free_inodes, 1)
  /\ Returns("ENOMEM", <<>>)
  /\ UNCHANGED <<nr_free_blocks, block_bitmap, inode_table, entries, data, vfs>>

\* Mutant: osfs_create leaves i_block and i_blocks as osfs_new_inode set them.
NewFileKeepsBlock(i, b) ==
  /\ nr_free_inodes # 0 /\ nr_free_blocks # 0
  /\ FirstFreeInode(i)
  /\ inode_bitmap' = inode_bitmap \cup {i}
  /\ nr_free_inodes' = Less(nr_free_inodes, 2)
  /\ AllocBlock(b)
  /\ inode_table' = [inode_table EXCEPT ![i] =
                       [i_size |-> 0, i_blocks |-> 1, i_block |-> b]]

\* Mutant: a file gets no block before it is written to.
NewFileNoBlock(i, b) ==
  /\ nr_free_inodes # 0 /\ nr_free_blocks # 0
  /\ FirstFreeInode(i)
  /\ inode_bitmap' = inode_bitmap \cup {i}
  /\ nr_free_inodes' = Less(nr_free_inodes, 2)
  /\ FirstFreeBlock(b)
  /\ inode_table' = [inode_table EXCEPT ![i] = NewInode]
  /\ UNCHANGED <<nr_free_blocks, block_bitmap>>

\* osfs_new_inode takes an inode and a block, and lowers nr_free_inodes here
\* as well as in osfs_get_free_inode; osfs_create then clears i_block and
\* i_blocks, so that the block belongs to nothing.
NewFile(i, b) ==
  /\ nr_free_inodes # 0 /\ nr_free_blocks # 0
  /\ FirstFreeInode(i)
  /\ inode_bitmap' = inode_bitmap \cup {i}
  /\ nr_free_inodes' = Less(nr_free_inodes, 2)
  /\ AllocBlock(b)
  /\ inode_table' = [inode_table EXCEPT ![i] = NewInode]

\* Mutant: one entry too many.
HasRoomForOneMore == Len(entries) <= MaxDirEntries

HasRoom == Len(entries) < MaxDirEntries

\* osfs_add_dir_entry finds the directory full: inode and block stay taken.
CreateDirFull(f, i, b) ==
  /\ MayCreate(f)
  /\ NewFile(i, b)
  /\ ~HasRoom
  /\ Returns("ENOSPC", <<>>)
  /\ UNCHANGED <<entries, data, vfs>>

Create(f, i, b) ==
  /\ MayCreate(f)
  /\ NewFile(i, b)
  /\ HasRoom
  /\ entries' = Append(entries, [filename |-> f, inode_no |-> i])
  /\ vfs' = [vfs EXCEPT ![i]["create"] = 0]
  /\ Returns("ok", <<>>)
  /\ UNCHANGED data

\* osfs_lookup of a name that no hashed dentry answers: osfs_iget makes a VFS
\* inode, whether or not the inode has one already.
Lookup(i) ==
  /\ i \in FileInodes
  /\ vfs[i]["lookup"] = None
  /\ vfs' = [vfs EXCEPT ![i]["lookup"] = inode_table[i].i_size]
  /\ UNCHANGED <<counters, bitmaps, inode_table, entries, data, ret>>

\* The VFS drops an inode that is no longer open or cached.
Evict(i, v) ==
  /\ vfs[i][v] # None
  /\ vfs' = [vfs EXCEPT ![i][v] = None]
  /\ UNCHANGED <<counters, bitmaps, inode_table, entries, data, ret>>

\* truncate() or O_TRUNC: the file's inode operations have no setattr, so that
\* the VFS sets i_size of its own inode and the file keeps size and bytes.
Truncate(i, v, size) ==
  /\ vfs[i][v] # None
  /\ vfs' = [vfs EXCEPT ![i][v] = size]
  /\ Returns("ok", <<>>)
  /\ UNCHANGED <<counters, bitmaps, inode_table, entries, data>>
-----------------------------------------------------------------------------
\* Positions a program may seek to: within the block, at its end, beyond it.
Position == 0 .. BlockSize + 1

\* Mutant: the length is not limited to the block.
ClipNothing(pos, len) == len

\* osfs_write of len bytes at pos: what fits in the block.  It is negative
\* (a huge size_t) when pos lies beyond the block.
Clip(pos, len) == IF pos + len > BlockSize THEN BlockSize - pos ELSE len

IsOpen(i, v) == vfs[i][v] # None

\* The file's block, allocated now if it has none.
BlockFor(i, b) ==
  IF inode_table[i].i_blocks = 0
  THEN AllocBlock(b)
  ELSE b = inode_table[i].i_block /\ UNCHANGED <<nr_free_blocks, block_bitmap>>

SetInode(i, b, size) ==
  inode_table' = [inode_table EXCEPT
                    ![i] = [i_size |-> size, i_blocks |-> 1, i_block |-> b]]

WriteNoSpace(i, v) ==
  /\ IsOpen(i, v)
  /\ inode_table[i].i_blocks = 0
  /\ Block \subseteq block_bitmap
  /\ Returns("ENOSPC", <<>>)
  /\ UNCHANGED <<counters, bitmaps, inode_table, entries, data, vfs>>

\* Nothing fits: 0 at the block's end, -EFAULT beyond it; the block stays.
WriteNone(i, v, pos, s, b) ==
  /\ IsOpen(i, v)
  /\ Clip(pos, Len(s)) <= 0
  /\ BlockFor(i, b)
  /\ SetInode(i, b, inode_table[i].i_size)
  /\ Returns(IF Clip(pos, Len(s)) = 0 THEN "ok" ELSE "EFAULT", <<>>)
  /\ UNCHANGED <<nr_free_inodes, inode_bitmap, entries, data, vfs>>

\* copy_from_user reads k bytes of s and fails; it clears the rest of the
\* range it was to fill.
WriteFault(i, v, pos, s, b, k) ==
  /\ IsOpen(i, v)
  /\ Clip(pos, Len(s)) > 0 /\ k < Clip(pos, Len(s))
  /\ BlockFor(i, b)
  /\ SetInode(i, b, inode_table[i].i_size)
  /\ data' = [data EXCEPT ![b] =
       [o \in Offset |->
          CASE o \in pos .. pos + k - 1 -> s[o - pos + 1]
            [] o \in pos + k .. pos + Clip(pos, Len(s)) - 1 -> 0
            [] OTHER -> data[b][o]]]
  /\ Returns("EFAULT", <<>>)
  /\ UNCHANGED <<nr_free_inodes, inode_bitmap, entries, vfs>>

\* Mutant: the size becomes the end of the write also when that is lower.
NewSizeAlways(i, end) == end

\* Step 5: the end of the write, if it lies beyond the size.
NewSize(i, end) ==
  IF end > inode_table[i].i_size THEN end ELSE inode_table[i].i_size

\* Step 5: inode->i_size follows, in the VFS inode written through only.
CachedSize(i, v, pos, len) ==
  IF pos + Clip(pos, len) > inode_table[i].i_size
  THEN [vfs EXCEPT ![i][v] = pos + Clip(pos, len)] ELSE vfs

\* Mutant: the bytes go to the start of the block, not to the position.
OverlayAtStart(bytes, pos, s, n) ==
  [o \in Offset |-> IF o \in 0 .. n - 1 THEN s[o + 1] ELSE bytes[o]]

Overlay(bytes, pos, s, n) ==
  [o \in Offset |-> IF o \in pos .. pos + n - 1 THEN s[o - pos + 1] ELSE bytes[o]]

Write(i, v, pos, s, b) ==
  /\ IsOpen(i, v)
  /\ Clip(pos, Len(s)) > 0
  /\ BlockFor(i, b)
  /\ data' = [data EXCEPT ![b] = Overlay(@, pos, s, Clip(pos, Len(s)))]
  /\ SetInode(i, b, NewSize(i, pos + Clip(pos, Len(s))))
  /\ vfs' = CachedSize(i, v, pos, Len(s))
  /\ Returns("ok", SubSeq(s, 1, Clip(pos, Len(s))))
  /\ UNCHANGED <<nr_free_inodes, inode_bitmap, entries>>

\* osfs_read: nothing without a block or at the end of the file.
ReadEnd(i, pos) ==
  /\ \E v \in Via : IsOpen(i, v)
  /\ inode_table[i].i_blocks = 0 \/ pos >= inode_table[i].i_size
  /\ Returns("ok", <<>>)
  /\ UNCHANGED <<counters, bitmaps, inode_table, entries, data, vfs>>

Read(i, pos, len) ==
  /\ \E v \in Via : IsOpen(i, v)
  /\ inode_table[i].i_blocks # 0 /\ pos < inode_table[i].i_size
  /\ LET size == inode_table[i].i_size
         n == IF pos + len > size THEN size - pos ELSE len
         b == inode_table[i].i_block
     IN  \/ Returns("ok", [k \in 1 .. n |-> data[b][pos + k - 1]])
         \/ n > 0 /\ Returns("EFAULT", <<>>)
  /\ UNCHANGED <<counters, bitmaps, inode_table, entries, data, vfs>>

Creating ==
  \E f \in Name :
    \/ CreateNoSpace(f)
    \/ \E i \in Ino : CreateNoMemory(f, i)
    \/ \E i \in Ino, b \in Block : CreateDirFull(f, i, b) \/ Create(f, i, b)

Writing(i, v) ==
  \/ WriteNoSpace(i, v)
  \/ \E pos \in Position, s \in Strings, b \in Block :
       \/ WriteNone(i, v, pos, s, b)
       \/ \E k \in Offset : WriteFault(i, v, pos, s, b, k)
       \/ Write(i, v, pos, s, b)

Reading(i) ==
  \E pos \in Position :
    ReadEnd(i, pos) \/ \E len \in 0 .. BlockSize : Read(i, pos, len)

Next ==
  \/ Creating
  \/ \E i \in Ino : Lookup(i) \/ Reading(i)
  \/ \E i \in Ino, v \in Via :
       Evict(i, v) \/ Writing(i, v) \/ \E size \in Sizes : Truncate(i, v, size)

Spec == Init /\ [][Next]_vars
-----------------------------------------------------------------------------
Return == [err : {"ok", "ENOSPC", "ENOMEM", "EFAULT"}, bytes : Seq(Byte)]

VfsSize == {None} \cup 0 .. BlockSize \cup Sizes

\* Counters, bitmaps, inodes, entries and blocks hold values of their types;
\* in particular nr_free_blocks never wraps below zero.
TypeOK ==
  /\ nr_free_inodes \in 0 .. Word - 1
  /\ nr_free_blocks \in 0 .. BlockCount
  /\ inode_bitmap \subseteq Ino
  /\ block_bitmap \subseteq Block
  /\ inode_table \in [Ino -> [i_size : 0 .. BlockSize, i_blocks : {0, 1}, i_block : Block]]
  /\ entries \in Seq([filename : Name, inode_no : Ino])
  /\ data \in [Block -> [Offset -> Byte]]
  /\ vfs \in [Ino -> [Via -> VfsSize]]
  /\ ret \in Return

HasBlock(i) == inode_table[i].i_blocks = 1

\* No two files share a data block, and none has block 0, which the root
\* directory uses (its i_block is 0) although fill_super never allocates it:
\* it is out of reach only because the first osfs_create loses a block.
BlocksExclusive ==
  \A i \in Ino : HasBlock(i) =>
    /\ inode_table[i].i_block \in block_bitmap \ {0}
    /\ \A j \in Ino \ {i} : HasBlock(j) => inode_table[j].i_block # inode_table[i].i_block

\* nr_free_blocks is the number of clear bits of the block bitmap.
FreeBlocksExact == nr_free_blocks = BlockCount - Cardinality(block_bitmap)

\* The directory names each file once, with an allocated inode of its own.
DirectorySound ==
  /\ Len(entries) <= MaxDirEntries
  /\ FileInodes \subseteq inode_bitmap \ {ROOT_INODE}
  /\ \A j, k \in DOMAIN entries : j # k =>
       /\ entries[j].filename # entries[k].filename
       /\ entries[j].inode_no # entries[k].inode_no

\* Only files of the directory have data blocks or VFS inodes: a creation that
\* fails half-way leaves no inode that owns a block or is in memory.
NoOrphans ==
  \A i \in Ino : HasBlock(i) \/ (\E v \in Via : vfs[i][v] # None) => i \in FileInodes

\* A file's block never moves and its size never goes down.
BlockStays ==
  [][\A i \in Ino : HasBlock(i) =>
       /\ inode_table'[i].i_blocks = 1
       /\ inode_table'[i].i_block = inode_table[i].i_block
       /\ inode_table'[i].i_size >= inode_table[i].i_size]_vars

\* What programs see of inode i: its size and bytes, all zero without a block.
Content(i) ==
  [size |-> inode_table[i].i_size,
   bytes |-> IF HasBlock(i) THEN data[inode_table[i].i_block] ELSE Zeros]

\* The inode a name stands for.
InodeOf(f) == CHOOSE i \in Ino : [filename |-> f, inode_no |-> i] \in Entries

FileOf(f) ==
  IF f \in FileNames THEN Content(InodeOf(f)) ELSE [size |-> -1, bytes |-> Zeros]

Store == INSTANCE FileStore WITH
  file <- [f \in Name |-> FileOf(f)],
  Positions <- Position,
  Lengths <- {Len(s) : s \in Strings} \cup {BlockSize},
  EmptyWriteExtends <- FALSE

\* To programs the file system is a set of independent byte arrays: no call
\* on one file shows in another, and what is read is what was written.
ImplementsFileStore == Store!Spec
=============================================================================
