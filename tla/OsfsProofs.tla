----------------------------- MODULE OsfsProofs -----------------------------
(***************************************************************************)
(* The basic file system for every number of inodes, blocks, entries and   *)
(* bytes: type correctness, exact accounting of blocks and inodes, a sound *)
(* directory, no block shared by two files or with the root directory, and *)
(* that the calls implement the independent byte arrays of FileStore.      *)
(* Then the calls of OsfsRace, that overlap, for any number of processes:  *)
(* two files share a block only if two calls were allocating it at one     *)
(* time, the directory stays sound, the counter of free blocks is exact    *)
(* unless a race was lost, and a file that no race touched holds what its  *)
(* writes put there.                                                       *)
(***************************************************************************)
EXTENDS OsfsRace, FiniteSetTheorems, SequenceTheorems, TLAPS

\* Block 0 is allocated before the directory has its first entry.
RootBlockTaken == entries # <<>> => 0 \in block_bitmap

\* The root inode stays allocated.
RootTaken == ROOT_INODE \in inode_bitmap

\* What has not been written is empty.
Unwritten ==
  /\ \A i \in Ino : ~HasBlock(i) => inode_table[i].i_size = 0
  /\ \A b \in Block \ block_bitmap : data[b] = Zeros

IInv ==
  /\ TypeOK /\ FreeBlocksExact /\ DirectorySound
  /\ NoOrphans /\ RootTaken /\ RootBlockTaken /\ Unwritten
  /\ BlocksExclusive

-----------------------------------------------------------------------------
LEMMA BlocksFinite ==
  IsFiniteSet(Block) /\ Cardinality(Block) = BlockCount
BY FS_Interval, SizeAssumption DEF Block

\* Handing out a block keeps the count exact.
LEMMA AllocBlockExact ==
  ASSUME TypeOK, FreeBlocksExact, NEW b \in Block, AllocBlock(b)
  PROVE  /\ b \in Block \ block_bitmap
         /\ block_bitmap' = block_bitmap \cup {b}
         /\ block_bitmap' \subseteq Block
         /\ Cardinality(block_bitmap') = Cardinality(block_bitmap) + 1
         /\ nr_free_blocks' \in 0 .. BlockCount
         /\ FreeBlocksExact'
<1>1. b \in Block \ block_bitmap /\ block_bitmap' = block_bitmap \cup {b}
  BY DEF AllocBlock, FirstFreeBlock
<1>2. IsFiniteSet(block_bitmap) /\ Cardinality(block_bitmap) \in Nat
  BY BlocksFinite, FS_Subset, FS_CardinalityType DEF TypeOK
<1>3. block_bitmap' \subseteq Block
  BY <1>1 DEF TypeOK
<1>4. Cardinality(block_bitmap') = Cardinality(block_bitmap) + 1
  BY <1>1, <1>2, FS_AddElement
<1>5. Cardinality(block_bitmap') <= BlockCount
  BY <1>3, BlocksFinite, FS_Subset
<1>6. QED
  BY <1>1, <1>2, <1>3, <1>4, <1>5, SizeAssumption DEF AllocBlock, FreeBlocksExact, TypeOK

\* Block 0 is taken whenever a block has been handed out.
LEMMA FirstFitTakesBlock0 ==
  ASSUME TypeOK, NEW b \in Block, AllocBlock(b)
  PROVE  0 \in block_bitmap' /\ (b # 0 => 0 \in block_bitmap)
BY SizeAssumption DEF AllocBlock, FirstFreeBlock, Block, TypeOK

LEMMA OsfsInit == Init => IInv
<1> SUFFICES ASSUME Init PROVE IInv
  OBVIOUS
<1> USE SizeAssumption DEF Init
<1>1. NewInode \in [i_size : 0 .. BlockSize, i_blocks : {0, 1}, i_block : Block]
  BY DEF NewInode, Block
<1>2. Zeros \in [Offset -> Byte] /\ [v \in Via |-> None] \in [Via -> VfsSize]
  BY ByteAssumption DEF Zeros, VfsSize
<1>3. ret \in Return /\ ROOT_INODE \in Ino /\ nr_free_inodes \in 0 .. Word - 1
  BY DEF Return, Ino, ROOT_INODE
<1>4. TypeOK
  BY <1>1, <1>2, <1>3 DEF TypeOK, VfsSize
<1>5. FreeBlocksExact
  BY FS_EmptySet DEF FreeBlocksExact
<1>6. DirectorySound
  BY DEF DirectorySound, FileInodes
<1>7. NoOrphans /\ RootTaken /\ RootBlockTaken /\ BlocksExclusive
  BY DEF NoOrphans, HasBlock, NewInode, RootTaken, RootBlockTaken, BlocksExclusive
<1>8. Unwritten
  BY DEF Unwritten, NewInode
<1>9. QED
  BY <1>4, <1>5, <1>6, <1>7, <1>8 DEF IInv

-----------------------------------------------------------------------------
\* A file that has no block gets one no other file has, and not block 0.
LEMMA MapBlock ==
  ASSUME IInv, NEW i \in FileInodes, NEW b \in Block,
         NEW size \in inode_table[i].i_size .. BlockSize,
         BlockFor(i, b), SetInode(i, b, size), UNCHANGED <<inode_bitmap, entries>>
  PROVE  /\ nr_free_blocks' \in 0 .. BlockCount
         /\ b \in block_bitmap' /\ block_bitmap \subseteq block_bitmap'
         /\ block_bitmap' \subseteq Block
         /\ inode_table' \in [Ino -> [i_size : 0 .. BlockSize, i_blocks : {0, 1},
                                      i_block : Block]]
         /\ inode_table'[i] = [i_size |-> size, i_blocks |-> 1, i_block |-> b]
         /\ \A j \in Ino \ {i} : inode_table'[j] = inode_table[j]
         /\ HasBlock(i) => inode_table[i].i_block = b
         /\ ~HasBlock(i) => data[b] = Zeros
         /\ FreeBlocksExact' /\ DirectorySound' /\ RootBlockTaken'
         /\ BlocksExclusive'
<1> USE DEF IInv
<1>1. i \in Ino /\ size \in 0 .. BlockSize /\ size \in Nat
  BY SizeAssumption DEF DirectorySound, TypeOK
<1>2. /\ inode_table'[i] = [i_size |-> size, i_blocks |-> 1, i_block |-> b]
      /\ \A j \in Ino \ {i} : inode_table'[j] = inode_table[j]
      /\ inode_table' \in [Ino -> [i_size : 0 .. BlockSize, i_blocks : {0, 1},
                                   i_block : Block]]
  BY <1>1 DEF SetInode, TypeOK
<1>3. entries # <<>> /\ 0 \in block_bitmap
  BY DEF FileInodes, RootBlockTaken
<1>4. CASE HasBlock(i)
  <2>1. b = inode_table[i].i_block /\ UNCHANGED <<nr_free_blocks, block_bitmap>>
    BY <1>4 DEF BlockFor, HasBlock
  <2>2. b \in block_bitmap \ {0}
    BY <1>1, <1>4, <2>1 DEF BlocksExclusive
  <2>3. FreeBlocksExact' /\ DirectorySound' /\ RootBlockTaken'
    BY <2>1 DEF FreeBlocksExact, DirectorySound, FileInodes, RootBlockTaken
  <2>4. BlocksExclusive'
    BY <1>1, <1>2, <1>4, <2>1, <2>2 DEF BlocksExclusive, HasBlock
  <2>5. QED
    BY <1>2, <1>4, <2>1, <2>2, <2>3, <2>4 DEF TypeOK
<1>5. CASE ~HasBlock(i)
  <2>1. AllocBlock(b)
    BY <1>1, <1>5 DEF BlockFor, HasBlock, TypeOK
  <2>2. /\ b \in Block \ block_bitmap
        /\ block_bitmap' = block_bitmap \cup {b}
        /\ block_bitmap' \subseteq Block
        /\ nr_free_blocks' \in 0 .. BlockCount
        /\ FreeBlocksExact'
    BY <2>1, AllocBlockExact
  <2>3. b # 0
    BY <1>3, <2>2
  <2>4. DirectorySound' /\ RootBlockTaken'
    BY <2>2 DEF DirectorySound, FileInodes, RootBlockTaken
  <2>5. BlocksExclusive'
    BY <1>1, <1>2, <2>2, <2>3 DEF BlocksExclusive, HasBlock
  <2>6. data[b] = Zeros
    BY <2>2 DEF Unwritten
  <2>7. QED
    BY <1>2, <1>5, <2>2, <2>4, <2>5, <2>6
<1>6. QED
  BY <1>4, <1>5

\* A new file takes an inode that nothing refers to, and loses a block.
LEMMA NewFileKeeps ==
  ASSUME IInv, NEW i \in Ino, NEW b \in Block, NewFile(i, b)
  PROVE  /\ i \notin inode_bitmap /\ inode_bitmap' = inode_bitmap \cup {i}
         /\ inode_bitmap' \subseteq Ino
         /\ i \notin FileInodes /\ i # ROOT_INODE /\ ~HasBlock(i)
         /\ nr_free_inodes' \in 0 .. Word - 1
         /\ nr_free_blocks' \in 0 .. BlockCount
         /\ block_bitmap \subseteq block_bitmap' /\ block_bitmap' \subseteq Block
         /\ 0 \in block_bitmap'
         /\ inode_table' \in [Ino -> [i_size : 0 .. BlockSize, i_blocks : {0, 1},
                                      i_block : Block]]
         /\ inode_table'[i] = NewInode
         /\ \A j \in Ino \ {i} : inode_table'[j] = inode_table[j]
         /\ FreeBlocksExact' /\ BlocksExclusive'
<1> USE DEF IInv
<1>1. /\ i \notin inode_bitmap /\ inode_bitmap' = inode_bitmap \cup {i}
      /\ inode_bitmap' \subseteq Ino
  BY DEF NewFile, FirstFreeInode, TypeOK
<1>2. nr_free_inodes' \in 0 .. Word - 1
  BY SizeAssumption DEF NewFile, Less, TypeOK
<1>3. i \notin FileInodes /\ ~HasBlock(i)
  BY <1>1 DEF DirectorySound, NoOrphans
<1>4. i # ROOT_INODE
  BY <1>1 DEF IInv, RootTaken
<1>5. /\ inode_table'[i] = NewInode
      /\ \A j \in Ino \ {i} : inode_table'[j] = inode_table[j]
      /\ inode_table' \in [Ino -> [i_size : 0 .. BlockSize, i_blocks : {0, 1},
                                   i_block : Block]]
  BY SizeAssumption DEF NewFile, NewInode, TypeOK, Block
<1>6. /\ block_bitmap' = block_bitmap \cup {b}
      /\ block_bitmap' \subseteq Block
      /\ nr_free_blocks' \in 0 .. BlockCount
      /\ FreeBlocksExact' /\ 0 \in block_bitmap'
  BY AllocBlockExact, FirstFitTakesBlock0 DEF NewFile
<1>7. BlocksExclusive'
  BY <1>5, <1>6 DEF BlocksExclusive, HasBlock, NewInode
<1>8. QED
  BY <1>1, <1>2, <1>3, <1>4, <1>5, <1>6, <1>7

\* What a call returns is within its type.
LEMMA ReturnsTyped ==
  ASSUME NEW err \in {"ok", "ENOSPC", "ENOMEM", "EFAULT"}, NEW bytes \in Seq(Byte),
         Returns(err, bytes)
  PROVE  ret' \in Return
BY DEF Returns, Return

LEMMA NoBytes == <<>> \in Seq(Byte)
OBVIOUS

\* The three writing calls that reach the block: all but data and vfs.
LEMMA WritingKeeps ==
  ASSUME IInv, NEW i \in FileInodes, NEW b \in Block,
         NEW size \in inode_table[i].i_size .. BlockSize,
         BlockFor(i, b), SetInode(i, b, size), UNCHANGED <<nr_free_inodes, inode_bitmap, entries>>,
         data' \in [Block -> [Offset -> Byte]],
         \A c \in Block \ {b} : data'[c] = data[c],
         vfs' \in [Ino -> [Via -> VfsSize]],
         \A j \in Ino, v \in Via : vfs'[j][v] # vfs[j][v] => j = i /\ vfs'[j][v] = size,
         ret' \in Return
  PROVE  IInv'
<1> USE DEF IInv
<1>1. i \in Ino /\ size \in 0 .. BlockSize /\ inode_table[i].i_size \in 0 .. BlockSize
  BY SizeAssumption DEF DirectorySound, TypeOK
<1>2. /\ nr_free_blocks' \in 0 .. BlockCount
      /\ b \in block_bitmap' /\ block_bitmap \subseteq block_bitmap'
      /\ block_bitmap' \subseteq Block
      /\ inode_table' \in [Ino -> [i_size : 0 .. BlockSize, i_blocks : {0, 1},
                                   i_block : Block]]
      /\ inode_table'[i] = [i_size |-> size, i_blocks |-> 1, i_block |-> b]
      /\ \A j \in Ino \ {i} : inode_table'[j] = inode_table[j]
      /\ FreeBlocksExact' /\ DirectorySound' /\ RootBlockTaken' /\ BlocksExclusive'
  BY MapBlock
<1>3. TypeOK'
  BY <1>2 DEF TypeOK
<1>4. FileInodes' = FileInodes
  BY DEF FileInodes
<1>5. NoOrphans'
  <2>1. ASSUME NEW j \in Ino, HasBlock(j)' PROVE j \in FileInodes'
    BY <1>2, <1>4, <2>1 DEF NoOrphans, HasBlock
  <2>2. ASSUME NEW j \in Ino, NEW v \in Via, vfs'[j][v] # None PROVE j \in FileInodes'
    BY <1>4, <2>2 DEF NoOrphans
  <2>3. QED
    BY <2>1, <2>2 DEF NoOrphans
<1>6. Unwritten' /\ RootTaken'
  <2>1. ASSUME NEW j \in Ino, ~HasBlock(j)' PROVE inode_table'[j].i_size = 0
    <3>1. j # i
      BY <1>2, <2>1 DEF HasBlock
    <3>2. QED
      BY <1>2, <2>1, <3>1 DEF Unwritten, HasBlock
  <2>2. ASSUME NEW c \in Block \ block_bitmap' PROVE data'[c] = Zeros
    BY <1>2 DEF Unwritten
  <2>3. QED
    BY <2>1, <2>2 DEF Unwritten, RootTaken
<1>7. QED
  BY <1>2, <1>3, <1>5, <1>6

LEMMA CreateKeeps ==
  ASSUME IInv, NEW f \in Name, NEW i \in Ino, NEW b \in Block, Create(f, i, b)
  PROVE  IInv'
<1> USE DEF IInv
<1> DEFINE e == [filename |-> f, inode_no |-> i]
<1>1. NewFile(i, b)
  BY DEF Create
<1>2. /\ i \notin inode_bitmap /\ inode_bitmap' = inode_bitmap \cup {i}
      /\ inode_bitmap' \subseteq Ino
      /\ i \notin FileInodes /\ i # ROOT_INODE /\ ~HasBlock(i)
      /\ nr_free_inodes' \in 0 .. Word - 1
      /\ nr_free_blocks' \in 0 .. BlockCount
      /\ block_bitmap \subseteq block_bitmap' /\ block_bitmap' \subseteq Block
      /\ 0 \in block_bitmap'
      /\ inode_table' \in [Ino -> [i_size : 0 .. BlockSize, i_blocks : {0, 1},
                                   i_block : Block]]
      /\ inode_table'[i] = NewInode
      /\ \A j \in Ino \ {i} : inode_table'[j] = inode_table[j]
      /\ FreeBlocksExact' /\ BlocksExclusive'
  BY <1>1, NewFileKeeps
<1>3. /\ entries' = Append(entries, e) /\ Len(entries) < MaxDirEntries
      /\ f \notin FileNames /\ data' = data
      /\ vfs' = [vfs EXCEPT ![i]["create"] = 0]
  BY DEF Create, HasRoom, MayCreate
<1>4. /\ entries \in Seq([filename : Name, inode_no : Ino])
      /\ entries' \in Seq([filename : Name, inode_no : Ino])
      /\ Len(entries') = Len(entries) + 1
      /\ \A k \in 1 .. Len(entries) : entries'[k] = entries[k]
      /\ entries'[Len(entries) + 1] = e
  BY <1>3 DEF TypeOK
<1>5. FileInodes' = FileInodes \cup {i}
  BY <1>4 DEF FileInodes
<1>6. ret' \in Return
  <2>1. Returns("ok", <<>>)
    BY DEF Create
  <2>2. QED
    BY <2>1, NoBytes, ReturnsTyped
<1>7. vfs' \in [Ino -> [Via -> VfsSize]]
  BY <1>3, SizeAssumption DEF TypeOK, Via, VfsSize
<1>8. TypeOK'
  BY <1>2, <1>3, <1>4, <1>6, <1>7 DEF TypeOK
<1>9. DirectorySound'
  <2>1. Len(entries') <= MaxDirEntries
    BY <1>3, <1>4, SizeAssumption
  <2>2. FileInodes' \subseteq inode_bitmap' \ {ROOT_INODE}
    BY <1>2, <1>5 DEF DirectorySound
  <2>3. \A k \in 1 .. Len(entries) : entries[k].filename # f /\ entries[k].inode_no # i
    BY <1>2, <1>3, <1>4 DEF FileNames, FileInodes
  <2>4. ASSUME NEW j \in DOMAIN entries', NEW k \in DOMAIN entries', j # k
        PROVE  /\ entries'[j].filename # entries'[k].filename
               /\ entries'[j].inode_no # entries'[k].inode_no
    BY <1>4, <2>3, <2>4 DEF DirectorySound
  <2>5. QED
    BY <2>1, <2>2, <2>4 DEF DirectorySound
<1>10. NoOrphans' /\ RootTaken' /\ RootBlockTaken'
  BY <1>2, <1>3, <1>5 DEF NoOrphans, HasBlock, NewInode, RootTaken, RootBlockTaken, TypeOK, Via
<1>11. Unwritten'
  BY <1>2, <1>3 DEF Unwritten, HasBlock, NewInode
<1>12. QED
  BY <1>2, <1>8, <1>9, <1>10, <1>11

\* A directory without room: the new inode and its block are lost.
LEMMA CreateDirFullKeeps ==
  ASSUME IInv, NEW f \in Name, NEW i \in Ino, NEW b \in Block, CreateDirFull(f, i, b)
  PROVE  IInv'
<1> USE DEF IInv
<1>1. NewFile(i, b) /\ UNCHANGED <<entries, data, vfs>> /\ Returns("ENOSPC", <<>>)
  BY DEF CreateDirFull
<1>2. /\ i \notin inode_bitmap /\ inode_bitmap' = inode_bitmap \cup {i}
      /\ inode_bitmap' \subseteq Ino
      /\ i \notin FileInodes /\ i # ROOT_INODE /\ ~HasBlock(i)
      /\ nr_free_inodes' \in 0 .. Word - 1
      /\ nr_free_blocks' \in 0 .. BlockCount
      /\ block_bitmap \subseteq block_bitmap' /\ block_bitmap' \subseteq Block
      /\ 0 \in block_bitmap'
      /\ inode_table' \in [Ino -> [i_size : 0 .. BlockSize, i_blocks : {0, 1},
                                   i_block : Block]]
      /\ inode_table'[i] = NewInode
      /\ \A j \in Ino \ {i} : inode_table'[j] = inode_table[j]
      /\ FreeBlocksExact' /\ BlocksExclusive'
  BY <1>1, NewFileKeeps
<1>3. ret' \in Return
  BY <1>1, NoBytes, ReturnsTyped
<1>4. TypeOK'
  BY <1>1, <1>2, <1>3 DEF TypeOK
<1>5. FileInodes' = FileInodes
  BY <1>1 DEF FileInodes
<1>6. DirectorySound'
  BY <1>1, <1>2, <1>5 DEF DirectorySound
<1>7. NoOrphans' /\ RootTaken' /\ RootBlockTaken'
  BY <1>1, <1>2, <1>5 DEF NoOrphans, HasBlock, NewInode, RootTaken, RootBlockTaken
<1>8. Unwritten'
  BY <1>1, <1>2 DEF Unwritten, HasBlock, NewInode
<1>9. QED
  BY <1>2, <1>4, <1>6, <1>7, <1>8

\* No memory for the VFS inode: the inode number is lost.
LEMMA CreateNoMemoryKeeps ==
  ASSUME IInv, NEW f \in Name, NEW i \in Ino, CreateNoMemory(f, i)
  PROVE  IInv'
<1> USE DEF IInv
<1>1. /\ UNCHANGED <<nr_free_blocks, block_bitmap, inode_table, entries, data, vfs>>
      /\ inode_bitmap' = inode_bitmap \cup {i} /\ Returns("ENOMEM", <<>>)
  BY DEF CreateNoMemory
<1>2. nr_free_inodes' \in 0 .. Word - 1
  BY SizeAssumption DEF CreateNoMemory, Less, TypeOK
<1>3. ret' \in Return
  BY <1>1, NoBytes, ReturnsTyped
<1>4. TypeOK'
  BY <1>1, <1>2, <1>3 DEF TypeOK
<1>5. FileInodes' = FileInodes
  BY <1>1 DEF FileInodes
<1>6. DirectorySound' /\ RootTaken' /\ RootBlockTaken'
  BY <1>1, <1>5 DEF DirectorySound, RootTaken, RootBlockTaken
<1>7. NoOrphans' /\ Unwritten' /\ FreeBlocksExact' /\ BlocksExclusive'
  BY <1>1, <1>5 DEF NoOrphans, HasBlock, Unwritten, FreeBlocksExact, BlocksExclusive
<1>8. QED
  BY <1>4, <1>6, <1>7

\* Calls that change nothing but what is cached and returned.
LEMMA CachingKeeps ==
  ASSUME IInv, UNCHANGED <<counters, bitmaps, inode_table, entries, data>>,
         vfs' \in [Ino -> [Via -> VfsSize]],
         ret' \in Return,
         \A j \in Ino, v \in Via :
            vfs'[j][v] \in {None, vfs[j][v]} \/ j \in FileInodes
  PROVE  IInv'
<1> USE DEF IInv
<1>1. /\ UNCHANGED <<nr_free_inodes, nr_free_blocks, inode_bitmap, block_bitmap>>
      /\ UNCHANGED <<inode_table, entries, data>>
  BY DEF counters, bitmaps
<1>2. TypeOK'
  BY <1>1 DEF TypeOK
<1>3. FileInodes' = FileInodes
  BY <1>1 DEF FileInodes
<1>4. DirectorySound' /\ RootTaken' /\ RootBlockTaken'
  BY <1>1, <1>3 DEF DirectorySound, RootTaken, RootBlockTaken
<1>5. Unwritten' /\ FreeBlocksExact' /\ BlocksExclusive'
  BY <1>1 DEF HasBlock, Unwritten, FreeBlocksExact, BlocksExclusive
<1>6. NoOrphans'
  BY <1>1, <1>3 DEF NoOrphans, HasBlock
<1>7. QED
  BY <1>2, <1>4, <1>5, <1>6

\* What a read returns is bytes of the file.
LEMMA ReadKeeps ==
  ASSUME IInv, NEW i \in Ino, NEW pos \in Position, NEW len \in 0 .. BlockSize,
         Read(i, pos, len)
  PROVE  IInv'
<1> USE DEF IInv
<1> DEFINE size == inode_table[i].i_size
           n == IF pos + len > size THEN size - pos ELSE len
           bytes == [k \in 1 .. n |-> data[inode_table[i].i_block][pos + k - 1]]
<1>1. /\ size \in 0 .. BlockSize /\ inode_table[i].i_block \in Block
      /\ pos \in Nat /\ pos < size
  BY SizeAssumption DEF TypeOK, Read, Position
<1>2. n \in Nat /\ pos + n <= BlockSize
  BY <1>1, SizeAssumption
<1>3. bytes \in Seq(Byte)
  <2> HIDE DEF n
  <2>1. \A k \in 1 .. n : data[inode_table[i].i_block][pos + k - 1] \in Byte
    BY <1>1, <1>2, SizeAssumption DEF TypeOK, Offset
  <2>2. bytes \in [1 .. n -> Byte]
    BY <2>1
  <2>3. QED
    BY <1>2, <2>2, SeqDef
<1>4. Returns("ok", bytes) \/ Returns("EFAULT", <<>>)
  BY DEF Read
<1>5. ret' \in Return
  <2> HIDE DEF bytes
  <2>1. QED
    BY <1>3, <1>4, NoBytes, ReturnsTyped
<1>6. UNCHANGED <<counters, bitmaps, inode_table, entries, data, vfs>>
  BY DEF Read
<1>7. vfs' \in [Ino -> [Via -> VfsSize]]
  BY <1>6 DEF TypeOK
<1>8. QED
  BY <1>5, <1>6, <1>7, CachingKeeps

\* Calls that fail or find nothing, lookups and evictions.
LEMMA OtherKeeps ==
  ASSUME IInv, NEW i \in Ino, NEW v \in Via,
         \/ \E f \in Name : CreateNoSpace(f)
         \/ Lookup(i) \/ Evict(i, v) \/ WriteNoSpace(i, v)
         \/ \E size \in Sizes : Truncate(i, v, size)
         \/ \E pos \in Position : ReadEnd(i, pos)
  PROVE  IInv'
<1> USE DEF IInv
<1>1. UNCHANGED <<counters, bitmaps, inode_table, entries, data>>
  BY DEF CreateNoSpace, Lookup, Evict, Truncate, WriteNoSpace, ReadEnd
<1>2. vfs' \in [Ino -> [Via -> VfsSize]]
  <2>1. CASE Lookup(i)
    <3>1. inode_table[i].i_size \in 0 .. BlockSize
      BY DEF TypeOK
    <3>2. QED
      BY <2>1, <3>1 DEF Lookup, TypeOK, Via, VfsSize
  <2>2. CASE Evict(i, v)
    BY <2>2 DEF Evict, TypeOK, None, VfsSize
  <2>3. CASE \E size \in Sizes : Truncate(i, v, size)
    BY <2>3 DEF Truncate, TypeOK, VfsSize
  <2>4. CASE UNCHANGED vfs
    BY <2>4 DEF TypeOK, VfsSize
  <2>5. QED
    BY <2>1, <2>2, <2>3, <2>4 DEF CreateNoSpace, WriteNoSpace, ReadEnd
<1>3. ret' \in Return
  <2>1. \/ ret' = ret
        \/ \E err \in {"ok", "ENOSPC"} : Returns(err, <<>>)
    BY DEF CreateNoSpace, Lookup, Evict, Truncate, WriteNoSpace, ReadEnd
  <2>2. QED
    BY <2>1, NoBytes, ReturnsTyped DEF TypeOK
<1>4. ASSUME NEW j \in Ino, NEW w \in Via
      PROVE  vfs'[j][w] \in {None, vfs[j][w]} \/ j \in FileInodes
  BY DEF CreateNoSpace, Lookup, Evict, Truncate, WriteNoSpace, ReadEnd, TypeOK, Via, NoOrphans
<1>5. QED
  BY <1>1, <1>2, <1>3, <1>4, CachingKeeps

\* Only files of the directory are open.
LEMMA OpenIsFile ==
  ASSUME IInv, NEW i \in Ino, NEW v \in Via, IsOpen(i, v)
  PROVE  /\ i \in FileInodes
         /\ inode_table[i].i_size \in 0 .. BlockSize
         /\ data \in [Block -> [Offset -> Byte]]
         /\ vfs \in [Ino -> [Via -> VfsSize]]
BY DEF IInv, IsOpen, NoOrphans, TypeOK

LEMMA StringTyped ==
  ASSUME NEW s \in Strings
  PROVE  s \in Seq(Byte) /\ Len(s) \in Nat /\ \A k \in 1 .. Len(s) : s[k] \in Byte
BY StringsAssumption

\* What is written ends within the block and the string.
LEMMA ClipBounds ==
  ASSUME NEW pos \in Position, NEW len \in Nat
  PROVE  /\ Clip(pos, len) \in Int /\ pos \in Nat
         /\ Clip(pos, len) <= len /\ pos + Clip(pos, len) <= BlockSize
BY SizeAssumption DEF Clip, Position

LEMMA WriteNoneKeeps ==
  ASSUME IInv, NEW i \in Ino, NEW v \in Via, NEW pos \in Position, NEW s \in Strings,
         NEW b \in Block, WriteNone(i, v, pos, s, b)
  PROVE  IInv'
<1>1. /\ BlockFor(i, b) /\ SetInode(i, b, inode_table[i].i_size)
      /\ UNCHANGED <<nr_free_inodes, inode_bitmap, entries>> /\ data' = data /\ vfs' = vfs
  BY DEF WriteNone
<1>2. /\ i \in FileInodes /\ inode_table[i].i_size \in 0 .. BlockSize
      /\ data \in [Block -> [Offset -> Byte]]
      /\ vfs \in [Ino -> [Via -> VfsSize]]
  BY OpenIsFile DEF WriteNone
<1>3. inode_table[i].i_size \in inode_table[i].i_size .. BlockSize
  BY <1>2, SizeAssumption
<1>4. ret' \in Return
  <2>1. \E err \in {"ok", "EFAULT"} : Returns(err, <<>>)
    BY DEF WriteNone
  <2>2. QED
    BY <2>1, NoBytes, ReturnsTyped
<1>5. /\ data' \in [Block -> [Offset -> Byte]]
      /\ \A c \in Block \ {b} : data'[c] = data[c]
      /\ vfs' \in [Ino -> [Via -> VfsSize]]
      /\ \A j \in Ino, w \in Via :
            vfs'[j][w] # vfs[j][w] => j = i /\ vfs'[j][w] = inode_table[i].i_size
  BY <1>1, <1>2
<1>6. QED
  BY <1>1, <1>2, <1>3, <1>4, <1>5, WritingKeeps

LEMMA WriteFaultKeeps ==
  ASSUME IInv, NEW i \in Ino, NEW v \in Via, NEW pos \in Position, NEW s \in Strings,
         NEW b \in Block, NEW k \in Offset, WriteFault(i, v, pos, s, b, k)
  PROVE  IInv'
<1> DEFINE end == pos + Clip(pos, Len(s))
           bytes == [o \in Offset |->
                       CASE o \in pos .. pos + k - 1 -> s[o - pos + 1]
                         [] o \in pos + k .. end - 1 -> 0
                         [] OTHER -> data[b][o]]
<1>1. /\ BlockFor(i, b) /\ SetInode(i, b, inode_table[i].i_size)
      /\ UNCHANGED <<nr_free_inodes, inode_bitmap, entries>> /\ vfs' = vfs
      /\ k < Clip(pos, Len(s)) /\ Returns("EFAULT", <<>>)
      /\ data' = [data EXCEPT ![b] = bytes]
  BY DEF WriteFault
<1>2. /\ i \in FileInodes /\ inode_table[i].i_size \in 0 .. BlockSize
      /\ data \in [Block -> [Offset -> Byte]]
      /\ vfs \in [Ino -> [Via -> VfsSize]]
  BY OpenIsFile DEF WriteFault
<1>3. inode_table[i].i_size \in inode_table[i].i_size .. BlockSize
  BY <1>2, SizeAssumption
<1>4. ret' \in Return
  BY <1>1, NoBytes, ReturnsTyped
<1>5. bytes \in [Offset -> Byte]
  <2> SUFFICES ASSUME NEW o \in Offset PROVE bytes[o] \in Byte
    OBVIOUS
  <2>1. data[b][o] \in Byte /\ 0 \in Byte
    BY <1>2, ByteAssumption
  <2>2. /\ k \in Nat /\ o \in Nat /\ pos \in Nat
        /\ Clip(pos, Len(s)) \in Int /\ Clip(pos, Len(s)) <= Len(s)
    BY StringTyped, ClipBounds, SizeAssumption DEF Offset
  <2>3. o \in pos .. pos + k - 1 => s[o - pos + 1] \in Byte
    <3>1. o \in pos .. pos + k - 1 => o - pos + 1 \in 1 .. Len(s)
      BY <1>1, <2>2, StringTyped
    <3>2. QED
      BY <3>1, StringTyped
  <2>4. QED
    BY <2>1, <2>3
<1>6. /\ data' \in [Block -> [Offset -> Byte]]
      /\ \A c \in Block \ {b} : data'[c] = data[c]
  <2> HIDE DEF bytes
  <2>1. QED
    BY <1>1, <1>2, <1>5
<1>7. \A j \in Ino, w \in Via :
         vfs'[j][w] # vfs[j][w] => j = i /\ vfs'[j][w] = inode_table[i].i_size
  BY <1>1
<1>8. QED
  BY <1>1, <1>2, <1>3, <1>4, <1>6, <1>7, WritingKeeps

LEMMA WriteKeeps ==
  ASSUME IInv, NEW i \in Ino, NEW v \in Via, NEW pos \in Position, NEW s \in Strings,
         NEW b \in Block, Write(i, v, pos, s, b)
  PROVE  IInv'
<1> DEFINE n == Clip(pos, Len(s))
           size == NewSize(i, pos + n)
           bytes == Overlay(data[b], pos, s, n)
<1>1. /\ BlockFor(i, b) /\ SetInode(i, b, size) /\ n > 0
      /\ UNCHANGED <<nr_free_inodes, inode_bitmap, entries>>
      /\ vfs' = CachedSize(i, v, pos, Len(s)) /\ data' = [data EXCEPT ![b] = bytes]
      /\ Returns("ok", SubSeq(s, 1, n))
  BY DEF Write
<1>2. /\ i \in FileInodes /\ inode_table[i].i_size \in 0 .. BlockSize
      /\ data \in [Block -> [Offset -> Byte]]
      /\ vfs \in [Ino -> [Via -> VfsSize]]
  BY OpenIsFile DEF Write
<1>3. s \in Seq(Byte) /\ Len(s) \in Nat /\ \A k \in 1 .. Len(s) : s[k] \in Byte
  BY StringTyped
<1>4. n \in Nat /\ pos \in Nat /\ n <= Len(s) /\ pos + n <= BlockSize
  BY <1>1, <1>3, ClipBounds
<1> HIDE DEF n
<1>5. /\ size \in inode_table[i].i_size .. BlockSize
      /\ pos + n > inode_table[i].i_size => size = pos + n
  BY <1>2, <1>4, SizeAssumption DEF NewSize
<1>6. ret' \in Return
  <2>1. SubSeq(s, 1, n) \in Seq(Byte)
    BY <1>3, <1>4
  <2>2. QED
    BY <1>1, <2>1, ReturnsTyped
<1>7. bytes \in [Offset -> Byte]
  <2> SUFFICES ASSUME NEW o \in Offset
               PROVE  IF o \in pos .. pos + n - 1
                      THEN s[o - pos + 1] \in Byte ELSE data[b][o] \in Byte
    BY DEF Overlay
  <2>1. o \in pos .. pos + n - 1 => o - pos + 1 \in 1 .. Len(s)
    BY <1>3, <1>4, SizeAssumption DEF Offset
  <2>2. QED
    BY <1>2, <1>3, <2>1
<1>8. /\ data' \in [Block -> [Offset -> Byte]]
      /\ \A c \in Block \ {b} : data'[c] = data[c]
  <2> HIDE DEF bytes
  <2>1. QED
    BY <1>1, <1>2, <1>7
<1>9. vfs' = IF pos + n > inode_table[i].i_size THEN [vfs EXCEPT ![i][v] = size] ELSE vfs
  BY <1>1, <1>5 DEF CachedSize, n
<1>10. size \in VfsSize
  BY <1>2, <1>5, SizeAssumption DEF VfsSize
<1>11. /\ vfs' \in [Ino -> [Via -> VfsSize]]
       /\ \A j \in Ino, w \in Via : vfs'[j][w] # vfs[j][w] => j = i /\ vfs'[j][w] = size
  <2> HIDE DEF size
  <2>1. QED
    BY <1>2, <1>9, <1>10
<1>12. QED
  <2> HIDE DEF size
  <2>1. QED
    BY <1>1, <1>2, <1>5, <1>6, <1>8, <1>11, WritingKeeps

-----------------------------------------------------------------------------
LEMMA OsfsStep == IInv /\ [Next]_vars => IInv'
<1> SUFFICES ASSUME IInv, [Next]_vars PROVE IInv'
  OBVIOUS
<1>1. CASE Creating
  <2> PICK f \in Name :
        \/ CreateNoSpace(f)
        \/ \E i \in Ino : CreateNoMemory(f, i)
        \/ \E i \in Ino, b \in Block : CreateDirFull(f, i, b) \/ Create(f, i, b)
    BY <1>1 DEF Creating
  <2>1. CASE CreateNoSpace(f)
    <3>1. ROOT_INODE \in Ino /\ "create" \in Via
      BY SizeAssumption DEF Ino, ROOT_INODE, Via
    <3>2. QED
      BY <2>1, <3>1, OtherKeeps
  <2>2. CASE \E i \in Ino : CreateNoMemory(f, i)
    BY <2>2, CreateNoMemoryKeeps
  <2>3. CASE \E i \in Ino, b \in Block : CreateDirFull(f, i, b)
    BY <2>3, CreateDirFullKeeps
  <2>4. CASE \E i \in Ino, b \in Block : Create(f, i, b)
    BY <2>4, CreateKeeps
  <2>5. QED
    BY <2>1, <2>2, <2>3, <2>4
<1>2. ASSUME NEW i \in Ino, Lookup(i) \/ Reading(i) PROVE IInv'
  <2>1. "create" \in Via
    BY DEF Via
  <2>2. CASE Lookup(i)
    BY <2>1, <2>2, OtherKeeps
  <2>3. CASE \E pos \in Position : ReadEnd(i, pos)
    BY <2>1, <2>3, OtherKeeps
  <2>4. CASE \E pos \in Position, len \in 0 .. BlockSize : Read(i, pos, len)
    BY <2>4, ReadKeeps
  <2>5. QED
    BY <1>2, <2>2, <2>3, <2>4 DEF Reading
<1>3. ASSUME NEW i \in Ino, NEW v \in Via,
             Evict(i, v) \/ Writing(i, v) \/ \E size \in Sizes : Truncate(i, v, size)
      PROVE  IInv'
  <2>1. CASE \/ Evict(i, v) \/ WriteNoSpace(i, v)
             \/ \E size \in Sizes : Truncate(i, v, size)
    BY <2>1, OtherKeeps
  <2>2. ASSUME NEW pos \in Position, NEW s \in Strings, NEW b \in Block,
               \/ WriteNone(i, v, pos, s, b)
               \/ \E k \in Offset : WriteFault(i, v, pos, s, b, k)
               \/ Write(i, v, pos, s, b)
        PROVE  IInv'
    BY <2>2, WriteNoneKeeps, WriteFaultKeeps, WriteKeeps
  <2>3. QED
    BY <1>3, <2>1, <2>2 DEF Writing
<1>4. CASE UNCHANGED vars
  BY <1>4, CachingKeeps DEF vars, IInv, TypeOK
<1>5. QED
  BY <1>1, <1>2, <1>3, <1>4 DEF Next

LEMMA OsfsInvariant == Spec => []IInv
BY OsfsInit, OsfsStep, PTL DEF Spec

\* All that the module keeps is of its type; nr_free_blocks never wraps.
THEOREM OsfsTypeOK == Spec => []TypeOK
BY OsfsInvariant, PTL DEF IInv

\* osfs_alloc_data_block never gives a block away twice, nor, as its calls
\* stand today, the one that the root directory uses unallocated.
THEOREM OsfsBlocksExclusive == Spec => []BlocksExclusive
BY OsfsInvariant, PTL DEF IInv

\* nr_free_blocks, by which osfs_new_inode decides, is exact.
THEOREM OsfsFreeBlocksExact == Spec => []FreeBlocksExact
BY OsfsInvariant, PTL DEF IInv

\* The directory never outgrows its block, names no file twice and no inode
\* that is free.
THEOREM OsfsDirectorySound == Spec => []DirectorySound
BY OsfsInvariant, PTL DEF IInv

\* Whatever fails half-way in osfs_create, only files of the directory own
\* blocks or are in memory.
THEOREM OsfsNoOrphans == Spec => []NoOrphans
BY OsfsInvariant, PTL DEF IInv

-----------------------------------------------------------------------------
\* A write keeps the block of every file and lowers no size.
LEMMA WritingStays ==
  ASSUME IInv, NEW i \in FileInodes, NEW b \in Block,
         NEW size \in inode_table[i].i_size .. BlockSize,
         BlockFor(i, b), SetInode(i, b, size), UNCHANGED <<inode_bitmap, entries>>,
         NEW j \in Ino, HasBlock(j)
  PROVE  /\ inode_table'[j].i_blocks = 1
         /\ inode_table'[j].i_block = inode_table[j].i_block
         /\ inode_table'[j].i_size >= inode_table[j].i_size
<1>1. /\ inode_table'[i] = [i_size |-> size, i_blocks |-> 1, i_block |-> b]
      /\ \A k \in Ino \ {i} : inode_table'[k] = inode_table[k]
      /\ HasBlock(i) => inode_table[i].i_block = b
  BY MapBlock
<1>2. inode_table[j].i_size \in Nat
  BY SizeAssumption DEF IInv, TypeOK
<1>3. CASE j = i
  BY <1>1, <1>2, <1>3, SizeAssumption
<1>4. CASE j # i
  BY <1>1, <1>2, <1>4 DEF HasBlock
<1>5. QED
  BY <1>3, <1>4

\* A file's block is its own for good: no call moves it or cuts the file.
THEOREM OsfsBlockStays == Spec => BlockStays
<1> DEFINE Stays(j) == HasBlock(j) =>
             /\ inode_table'[j].i_blocks = 1
             /\ inode_table'[j].i_block = inode_table[j].i_block
             /\ inode_table'[j].i_size >= inode_table[j].i_size
<1>1. ASSUME IInv, [Next]_vars, NEW j \in Ino PROVE Stays(j)
  <2>1. CASE UNCHANGED inode_table
    BY <1>1, <2>1, SizeAssumption DEF HasBlock, IInv, TypeOK
  <2>2. ASSUME NEW i \in Ino, NEW b \in Block, NewFile(i, b) PROVE Stays(j)
    <3>1. ~HasBlock(i) /\ \A k \in Ino \ {i} : inode_table'[k] = inode_table[k]
      BY <1>1, <2>2, NewFileKeeps
    <3>2. inode_table[j].i_size \in Nat
      BY <1>1, SizeAssumption DEF IInv, TypeOK
    <3>3. CASE j = i
      BY <3>1, <3>3
    <3>4. CASE j # i
      BY <3>1, <3>2, <3>4 DEF HasBlock
    <3>5. QED
      BY <3>3, <3>4
  <2>3. ASSUME NEW i \in Ino, NEW v \in Via, NEW b \in Block, IsOpen(i, v),
               NEW size \in inode_table[i].i_size .. BlockSize,
               BlockFor(i, b), SetInode(i, b, size), UNCHANGED <<inode_bitmap, entries>>
        PROVE  Stays(j)
    BY <1>1, <2>3, OpenIsFile, WritingStays
  <2>4. ASSUME NEW i \in Ino, NEW v \in Via, NEW pos \in Position, NEW s \in Strings,
               NEW b \in Block, Write(i, v, pos, s, b)
        PROVE  Stays(j)
    <3> DEFINE n == Clip(pos, Len(s))
    <3>1. pos + n \in 0 .. BlockSize
      <4>1. n \in Int /\ pos \in Nat /\ pos + n <= BlockSize
        BY StringTyped, ClipBounds
      <4>2. n > 0
        BY <2>4 DEF Write
      <4>3. QED
        BY <4>1, <4>2, SizeAssumption
    <3>2. NewSize(i, pos + Clip(pos, Len(s))) \in inode_table[i].i_size .. BlockSize
      BY <1>1, <3>1, SizeAssumption DEF NewSize, IInv, TypeOK
    <3>3. QED
      BY <2>3, <2>4, <3>2 DEF Write
  <2>5. ASSUME NEW i \in Ino, NEW v \in Via, NEW pos \in Position, NEW s \in Strings,
               NEW b \in Block,
               WriteNone(i, v, pos, s, b) \/ \E k \in Offset : WriteFault(i, v, pos, s, b, k)
        PROVE  Stays(j)
    <3>1. inode_table[i].i_size \in inode_table[i].i_size .. BlockSize
      BY <1>1, SizeAssumption DEF IInv, TypeOK
    <3>2. QED
      BY <2>3, <2>5, <3>1 DEF WriteNone, WriteFault
  <2>6. CASE Creating
    BY <2>1, <2>2, <2>6
       DEF Creating, CreateNoSpace, CreateNoMemory, CreateDirFull, Create
  <2>7. ASSUME NEW i \in Ino, NEW v \in Via,
               Evict(i, v) \/ Writing(i, v) \/ \E size \in Sizes : Truncate(i, v, size)
        PROVE  Stays(j)
    BY <2>1, <2>4, <2>5, <2>7 DEF Evict, Truncate, Writing, WriteNoSpace
  <2>8. ASSUME NEW i \in Ino, Lookup(i) \/ Reading(i) PROVE Stays(j)
    BY <2>1, <2>8 DEF Lookup, Reading, Read, ReadEnd
  <2>9. CASE UNCHANGED vars
    BY <2>1, <2>9 DEF vars
  <2>10. QED
    BY <1>1, <2>6, <2>7, <2>8, <2>9 DEF Next
<1>2. IInv /\ [Next]_vars =>
        [\A i \in Ino : HasBlock(i) =>
           /\ inode_table'[i].i_blocks = 1
           /\ inode_table'[i].i_block = inode_table[i].i_block
           /\ inode_table'[i].i_size >= inode_table[i].i_size]_vars
  BY <1>1
<1>3. QED
  BY <1>2, OsfsInvariant, PTL DEF Spec, BlockStays
-----------------------------------------------------------------------------
\* The files that have a data block.
Owners == {i \in Ino : HasBlock(i)}

\* uint32_t values go down one after the other, past zero or not.
LEMMA LessTwice ==
  ASSUME NEW x \in Int, NEW k \in Int, NEW l \in Nat,
         x - k \in -Word .. Word - 1, x - k - l \in -Word .. Word - 1
  PROVE  Less(Less(x, k), l) = Less(x, k + l)
<1>1. ASSUME NEW a \in 0 .. Word - 1 PROVE a % Word = a
  BY SizeAssumption
<1>2. ASSUME NEW a \in -Word .. -1 PROVE a % Word = a + Word
  BY SizeAssumption
<1>3. x - (k + l) = (x - k) - l /\ Word \in Nat
  BY SizeAssumption
<1>4. CASE x - k >= 0
  BY <1>1, <1>3, <1>4 DEF Less
<1>5. CASE x - k < 0
  <2>1. (x - k) % Word = x - k + Word /\ (x - k - l) % Word = x - k - l + Word
    BY <1>2, <1>3, <1>5
  <2>2. (x - k + Word - l) % Word = x - k + Word - l
    BY <1>1, <1>3, <1>5
  <2>3. QED
    BY <1>3, <2>1, <2>2 DEF Less
<1>6. QED
  BY <1>4, <1>5

LEMMA InodesFinite ==
  IsFiniteSet(Ino) /\ Cardinality(Ino) = InodeCount - 1
BY FS_Interval, SizeAssumption DEF Ino, ROOT_INODE

\* How many inodes and blocks there are, and how many owners.
LEMMA Counted ==
  ASSUME TypeOK
  PROVE  /\ IsFiniteSet(inode_bitmap) /\ IsFiniteSet(block_bitmap) /\ IsFiniteSet(Owners)
         /\ Cardinality(inode_bitmap) \in 0 .. InodeCount - 1
         /\ Cardinality(block_bitmap) \in Nat /\ Cardinality(Owners) \in Nat
         /\ Len(entries) \in Nat
<1>1. /\ IsFiniteSet(inode_bitmap) /\ Cardinality(inode_bitmap) <= InodeCount - 1
      /\ IsFiniteSet(Owners)
  BY InodesFinite, FS_Subset DEF TypeOK, Owners
<1>2. IsFiniteSet(block_bitmap)
  BY BlocksFinite, FS_Subset DEF TypeOK
<1>3. QED
  BY <1>1, <1>2, FS_CardinalityType, SizeAssumption DEF TypeOK

\* Blocks in use are those of the files plus the ones osfs_create lost (dir.c:295): at
\* least one for each entry, at most one for each inode taken since the mount.  By as
\* many nr_free_inodes, which is lowered at inode.c:40 and at dir.c:194 again, is below
\* what osfs.h:37 calls it, the "Number of free inodes".
LostBlocks ==
  LET lost == Cardinality(block_bitmap) - Cardinality({i \in Ino : HasBlock(i)})
  IN  /\ lost \in Len(entries) .. Cardinality(inode_bitmap) - 1
      /\ nr_free_inodes = Less(InodeCount - Cardinality(inode_bitmap), lost)

\* Making a file loses its first block, and counts its inode twice.
LEMMA NewFileLoses ==
  ASSUME IInv, LostBlocks, IInv', NEW i \in Ino, NEW b \in Block, NewFile(i, b),
         Len(entries') \in {Len(entries), Len(entries) + 1}
  PROVE  LostBlocks'
<1> DEFINE n == Cardinality(inode_bitmap)
           lost == Cardinality(block_bitmap) - Cardinality(Owners)
<1>1. i \notin inode_bitmap /\ inode_bitmap' = inode_bitmap \cup {i}
  BY NewFileKeeps
<1>2. Owners' = Owners
  BY NewFileKeeps DEF Owners, HasBlock, NewInode
<1>3. Cardinality(block_bitmap') = Cardinality(block_bitmap) + 1
  BY AllocBlockExact DEF NewFile, IInv
<1>4. /\ n \in 1 .. InodeCount - 1 /\ Cardinality(inode_bitmap') = n + 1
      /\ n + 1 <= InodeCount - 1
  <2>1. Cardinality(inode_bitmap') = n + 1
    BY <1>1, Counted, FS_AddElement DEF IInv
  <2>2. Cardinality(inode_bitmap') <= InodeCount - 1
    BY InodesFinite, FS_Subset DEF IInv, TypeOK
  <2>3. n # 0
    BY Counted, FS_EmptySet DEF IInv, RootTaken
  <2>4. QED
    BY <2>1, <2>2, <2>3, Counted DEF IInv
<1>5. lost \in Len(entries) .. n - 1 /\ nr_free_inodes = Less(InodeCount - n, lost)
  BY DEF LostBlocks, Owners
<1>6. lost \in Nat /\ Len(entries) \in Nat
  BY <1>4, <1>5, Counted DEF IInv
<1>7. (Cardinality(block_bitmap) - Cardinality(Owners))' = lost + 1
  BY <1>2, <1>3, Counted DEF IInv
<1>8. nr_free_inodes' = Less(InodeCount - (n + 1), lost + 1)
  <2>1. nr_free_inodes' = Less(nr_free_inodes, 2)
    BY DEF NewFile
  <2>2. nr_free_inodes' = Less(InodeCount - n, lost + 2)
    <3> HIDE DEF n, lost
    <3>1. /\ InodeCount - n - lost \in -Word .. Word - 1
          /\ InodeCount - n - lost - 2 \in -Word .. Word - 1
          /\ InodeCount - n \in Int /\ lost \in Int /\ 2 \in Nat
      BY <1>4, <1>5, <1>6, SizeAssumption
    <3>2. QED
      BY <1>5, <2>1, <3>1, LessTwice
  <2>3. InodeCount - (n + 1) - (lost + 1) = InodeCount - n - (lost + 2)
    BY <1>4, <1>6, SizeAssumption
  <2>4. QED
    BY <2>2, <2>3 DEF Less
<1>9. (Cardinality(block_bitmap) - Cardinality(Owners))'
         \in Len(entries') .. Cardinality(inode_bitmap') - 1
  BY <1>4, <1>5, <1>6, <1>7
<1>10. QED
  BY <1>4, <1>7, <1>8, <1>9 DEF LostBlocks, Owners

\* An inode number that no memory was left for: only the inodes go down.
LEMMA NoMemoryLoses ==
  ASSUME IInv, LostBlocks, IInv', NEW f \in Name, NEW i \in Ino, CreateNoMemory(f, i)
  PROVE  LostBlocks'
<1> DEFINE n == Cardinality(inode_bitmap)
           lost == Cardinality(block_bitmap) - Cardinality(Owners)
<1>1. /\ i \notin inode_bitmap /\ inode_bitmap' = inode_bitmap \cup {i}
      /\ UNCHANGED <<block_bitmap, inode_table, entries>>
      /\ nr_free_inodes' = Less(nr_free_inodes, 1)
  BY DEF CreateNoMemory, FirstFreeInode
<1>2. /\ n \in 0 .. InodeCount - 1 /\ Cardinality(inode_bitmap') = n + 1
      /\ n + 1 <= InodeCount - 1
  <2>1. Cardinality(inode_bitmap') = n + 1
    BY <1>1, Counted, FS_AddElement DEF IInv
  <2>2. Cardinality(inode_bitmap') <= InodeCount - 1
    BY InodesFinite, FS_Subset DEF IInv, TypeOK
  <2>3. QED
    BY <2>1, <2>2, Counted DEF IInv
<1>3. lost \in Len(entries) .. n - 1 /\ nr_free_inodes = Less(InodeCount - n, lost)
  BY DEF LostBlocks, Owners
<1>4. lost \in Nat /\ Len(entries) \in Nat
  BY <1>2, <1>3, Counted DEF IInv
<1>5. nr_free_inodes' = Less(InodeCount - (n + 1), lost)
  <2>1. nr_free_inodes' = Less(InodeCount - n, lost + 1)
    <3> HIDE DEF n, lost
    <3>1. /\ InodeCount - n - lost \in -Word .. Word - 1
          /\ InodeCount - n - lost - 1 \in -Word .. Word - 1
          /\ InodeCount - n \in Int /\ lost \in Int /\ 1 \in Nat
      BY <1>2, <1>3, <1>4, SizeAssumption
    <3>2. QED
      BY <1>1, <1>3, <3>1, LessTwice
  <2>2. QED
    BY <1>2, <1>4, <2>1, SizeAssumption DEF Less
<1>6. (Cardinality(block_bitmap) - Cardinality({j \in Ino : HasBlock(j)}))' = lost
  BY <1>1 DEF Owners, HasBlock
<1>7. QED
  BY <1>1, <1>2, <1>3, <1>4, <1>5, <1>6 DEF LostBlocks

\* A first write gives the file the block it takes: none is lost.
LEMMA WritingLosesNone ==
  ASSUME IInv, LostBlocks, NEW i \in FileInodes, NEW b \in Block,
         NEW size \in inode_table[i].i_size .. BlockSize,
         BlockFor(i, b), SetInode(i, b, size),
         UNCHANGED <<nr_free_inodes, inode_bitmap, entries>>
  PROVE  LostBlocks'
<1>1. /\ inode_table'[i] = [i_size |-> size, i_blocks |-> 1, i_block |-> b]
      /\ \A j \in Ino \ {i} : inode_table'[j] = inode_table[j]
  BY MapBlock
<1>2. i \in Ino
  BY DEF IInv, DirectorySound, TypeOK
<1>3. Owners' = Owners \cup {i}
  BY <1>1, <1>2 DEF Owners, HasBlock
<1>4. Cardinality(block_bitmap') - Cardinality(Owners') =
        Cardinality(block_bitmap) - Cardinality(Owners)
  <2>1. CASE HasBlock(i)
    <3>1. block_bitmap' = block_bitmap /\ Owners' = Owners
      BY <1>2, <1>3, <2>1 DEF BlockFor, HasBlock, Owners
    <3>2. QED
      BY <3>1
  <2>2. CASE ~HasBlock(i)
    <3>1. AllocBlock(b)
      BY <1>2, <2>2 DEF BlockFor, HasBlock, IInv, TypeOK
    <3>2. Cardinality(block_bitmap') = Cardinality(block_bitmap) + 1
      BY <3>1, AllocBlockExact DEF IInv
    <3>3. Cardinality(Owners') = Cardinality(Owners) + 1
      BY <1>3, <2>2, Counted, FS_AddElement DEF IInv, Owners
    <3>4. QED
      BY <3>2, <3>3, Counted DEF IInv
  <2>3. QED
    BY <2>1, <2>2
<1>5. QED
  BY <1>4 DEF LostBlocks, Owners

LEMMA LostBlocksInit == Init => LostBlocks
<1> SUFFICES ASSUME Init PROVE LostBlocks
  OBVIOUS
<1>1. {i \in Ino : HasBlock(i)} = {} /\ entries = <<>> /\ Len(entries) = 0
  BY DEF Init, HasBlock, NewInode
<1>2. /\ Cardinality(block_bitmap) = 0 /\ Cardinality(inode_bitmap) = 1
      /\ Cardinality({i \in Ino : HasBlock(i)}) = 0
  BY <1>1, FS_EmptySet, FS_Singleton DEF Init
<1>3. nr_free_inodes = Less(InodeCount - 1, 0)
  BY SizeAssumption DEF Init, Less, ROOT_INODE
<1>4. QED
  BY <1>1, <1>2, <1>3 DEF LostBlocks

LEMMA LostBlocksStep == IInv /\ IInv' /\ LostBlocks /\ [Next]_vars => LostBlocks'
<1> SUFFICES ASSUME IInv, IInv', LostBlocks, [Next]_vars PROVE LostBlocks'
  OBVIOUS
<1>1. CASE UNCHANGED <<nr_free_inodes, inode_bitmap, block_bitmap, inode_table, entries>>
  BY <1>1 DEF LostBlocks, HasBlock
<1>2. CASE Creating
  <2>1. ASSUME NEW f \in Name, NEW i \in Ino, NEW b \in Block,
               CreateDirFull(f, i, b) \/ Create(f, i, b)
        PROVE  LostBlocks'
    <3>1. NewFile(i, b)
      BY <2>1 DEF CreateDirFull, Create
    <3>2. Len(entries') \in {Len(entries), Len(entries) + 1}
      BY <2>1 DEF CreateDirFull, Create, IInv, TypeOK
    <3>3. QED
      BY <3>1, <3>2, NewFileLoses
  <2>2. ASSUME NEW f \in Name, CreateNoSpace(f) PROVE LostBlocks'
    BY <1>1, <2>2 DEF CreateNoSpace, counters, bitmaps
  <2>3. QED
    BY <1>2, <2>1, <2>2, NoMemoryLoses DEF Creating
<1>3. ASSUME NEW i \in Ino, NEW v \in Via, NEW pos \in Position, NEW s \in Strings,
             NEW b \in Block, Write(i, v, pos, s, b)
      PROVE  LostBlocks'
  <2> DEFINE n == Clip(pos, Len(s))
  <2>1. i \in FileInodes
    BY <1>3, OpenIsFile DEF Write
  <2>2. NewSize(i, pos + Clip(pos, Len(s))) \in inode_table[i].i_size .. BlockSize
    <3>1. n > 0 /\ n \in Int /\ pos \in Nat /\ pos + n <= BlockSize
      BY <1>3, StringTyped, ClipBounds DEF Write
    <3>2. QED
      BY <3>1, SizeAssumption DEF NewSize, IInv, TypeOK
  <2>3. QED
    BY <1>3, <2>1, <2>2, WritingLosesNone DEF Write
<1>4. ASSUME NEW i \in Ino, NEW v \in Via, NEW pos \in Position, NEW s \in Strings,
             NEW b \in Block,
             WriteNone(i, v, pos, s, b) \/ \E k \in Offset : WriteFault(i, v, pos, s, b, k)
      PROVE  LostBlocks'
  <2>1. i \in FileInodes /\ inode_table[i].i_size \in inode_table[i].i_size .. BlockSize
    BY <1>4, OpenIsFile, SizeAssumption DEF WriteNone, WriteFault
  <2>2. QED
    BY <1>4, <2>1, WritingLosesNone DEF WriteNone, WriteFault
<1>5. ASSUME NEW i \in Ino, NEW v \in Via,
             Evict(i, v) \/ Writing(i, v) \/ \E size \in Sizes : Truncate(i, v, size)
      PROVE  LostBlocks'
  BY <1>1, <1>3, <1>4, <1>5 DEF Evict, Truncate, Writing, WriteNoSpace, counters, bitmaps
<1>6. ASSUME NEW i \in Ino, Lookup(i) \/ Reading(i) PROVE LostBlocks'
  BY <1>1, <1>6 DEF Lookup, Reading, Read, ReadEnd, counters, bitmaps
<1>7. CASE UNCHANGED vars
  BY <1>1, <1>7 DEF vars, counters, bitmaps
<1>8. QED
  BY <1>2, <1>5, <1>6, <1>7 DEF Next

\* Every creation costs a block for good (dir.c:295), for every size of the disk: the
\* blocks in use beyond those of the files are at least as many as the directory's
\* entries.  By as many nr_free_inodes is wrong, for one of its two decrements comes
\* with each block lost.
THEOREM OsfsLostBlocks == Spec => []LostBlocks
BY OsfsInvariant, LostBlocksInit, LostBlocksStep, PTL DEF Spec
-----------------------------------------------------------------------------
\* The directory names inode i as file f.
Names(f, i) == [filename |-> f, inode_no |-> i] \in Entries

\* The files as programs see them.
Files == [f \in Name |-> FileOf(f)]

\* Names and files of the directory correspond one to one.
FilesNamed ==
  \A f \in Name :
    /\ \A i \in Ino : Names(f, i) =>
         /\ f \in FileNames /\ i \in FileInodes /\ FileOf(f) = Content(i)
         /\ \A g \in Name : Names(g, i) => g = f
    /\ f \in FileNames => \E i \in Ino : Names(f, i)
    /\ f \notin FileNames => FileOf(f) = Store!Absent

\* An entry is a name and an inode number.
LEMMA EntryTyped ==
  ASSUME TypeOK, NEW k \in DOMAIN entries
  PROVE  /\ entries[k] \in [filename : Name, inode_no : Ino]
         /\ entries[k] = [filename |-> entries[k].filename, inode_no |-> entries[k].inode_no]
<1>1. entries \in Seq([filename : Name, inode_no : Ino]) /\ k \in 1 .. Len(entries)
  BY DEF TypeOK
<1>2. entries[k] \in [filename : Name, inode_no : Ino]
  BY <1>1, ElementOfSeq
<1>3. QED
  BY <1>2

LEMMA NamedFiles == IInv => FilesNamed
<1> SUFFICES ASSUME IInv PROVE FilesNamed
  OBVIOUS
<1>1. \A j, k \in DOMAIN entries : j # k =>
        /\ entries[j].filename # entries[k].filename
        /\ entries[j].inode_no # entries[k].inode_no
  BY DEF IInv, DirectorySound
<1>2. \A k \in DOMAIN entries :
        /\ entries[k].filename \in Name /\ entries[k].inode_no \in Ino
        /\ entries[k] = [filename |-> entries[k].filename, inode_no |-> entries[k].inode_no]
  BY EntryTyped DEF IInv
<1>3. ASSUME NEW f \in Name, NEW i \in Ino, Names(f, i)
      PROVE  /\ f \in FileNames /\ i \in FileInodes
             /\ \A g \in Name : Names(g, i) => g = f
             /\ InodeOf(f) = i
  <2>1. \A j \in Ino : Names(f, j) => j = i
    BY <1>1, <1>3 DEF Names, Entries
  <2>2. InodeOf(f) = i
    BY <1>3, <2>1 DEF Names, InodeOf
  <2>3. QED
    BY <1>1, <1>3, <2>2 DEF Names, Entries, FileNames, FileInodes
<1>4. ASSUME NEW f \in Name, f \in FileNames PROVE \E i \in Ino : Names(f, i)
  BY <1>2, <1>4 DEF Names, Entries, FileNames
<1>5. ASSUME NEW f \in Name, f \notin FileNames PROVE FileOf(f) = Store!Absent
  BY <1>5 DEF FileOf, Store!Absent, Zeros, Offset, Store!Offset
<1>6. QED
  BY <1>3, <1>4, <1>5 DEF FilesNamed, FileOf

\* Every file of the directory has a name.
LEMMA FileNamed ==
  ASSUME IInv, NEW i \in FileInodes
  PROVE  i \in Ino /\ \E f \in Name : Names(f, i)
<1>1. PICK k \in DOMAIN entries : entries[k].inode_no = i
  BY DEF FileInodes
<1>2. /\ entries[k] \in [filename : Name, inode_no : Ino]
      /\ entries[k] = [filename |-> entries[k].filename, inode_no |-> i]
  BY <1>1, EntryTyped DEF IInv
<1>3. QED
  BY <1>2, <1>1 DEF Names, Entries

-----------------------------------------------------------------------------
\* A step that leaves what every inode holds shows in no file.
LEMMA NoFileChanges ==
  ASSUME FilesNamed, FilesNamed', UNCHANGED entries,
         \A j \in FileInodes : Content(j)' = Content(j)
  PROVE  Files' = Files
<1>1. ASSUME NEW f \in Name PROVE FileOf(f)' = FileOf(f)
  <2>1. /\ FileNames' = FileNames
        /\ \A i \in Ino : Names(f, i)' <=> Names(f, i)
    BY DEF FileNames, Names, Entries
  <2>2. CASE f \in FileNames
    <3>1. PICK i \in Ino : Names(f, i)
      BY <2>2 DEF FilesNamed
    <3>2. /\ FileOf(f) = Content(i) /\ i \in FileInodes
          /\ FileOf(f)' = Content(i)'
      BY <2>1, <3>1 DEF FilesNamed
    <3>3. QED
      BY <3>2
  <2>3. CASE f \notin FileNames
    BY <2>1, <2>3 DEF FilesNamed, Store!Absent
  <2>4. QED
    BY <2>2, <2>3
<1>2. QED
  BY <1>1 DEF Files

\* A step that changes what one inode holds shows in its file and no other.
LEMMA OneFileChanges ==
  ASSUME FilesNamed, FilesNamed', UNCHANGED entries, NEW f \in Name, NEW i \in Ino,
         Names(f, i),
         \A j \in FileInodes \ {i} : Content(j)' = Content(j)
  PROVE  Files[f] = Content(i) /\ Files' = [Files EXCEPT ![f] = Content(i)']
<1>1. FileNames' = FileNames
  BY DEF FileNames
<1>2. \A g \in Name, j \in Ino : Names(g, j)' <=> Names(g, j)
  BY DEF Names, Entries
<1>3. FileOf(f) = Content(i) /\ FileOf(f)' = Content(i)'
  BY <1>2 DEF FilesNamed
<1>4. ASSUME NEW g \in Name \ {f} PROVE FileOf(g)' = FileOf(g)
  <2>1. CASE g \in FileNames
    <3>1. PICK j \in Ino : Names(g, j)
      BY <2>1 DEF FilesNamed
    <3>2. /\ FileOf(g) = Content(j) /\ j \in FileInodes \ {i}
          /\ FileOf(g)' = Content(j)'
      BY <1>2, <3>1 DEF FilesNamed
    <3>3. QED
      BY <3>2
  <2>2. CASE g \notin FileNames
    BY <1>1, <2>2 DEF FilesNamed, Store!Absent
  <2>3. QED
    BY <2>1, <2>2
<1>5. QED
  BY <1>3, <1>4 DEF Files

-----------------------------------------------------------------------------
\* A call that writes to file i shows in one file, as the bytes of one block.
LEMMA WritingShows ==
  ASSUME IInv, FilesNamed, FilesNamed', NEW i \in FileInodes, NEW b \in Block,
         NEW size \in inode_table[i].i_size .. BlockSize,
         BlockFor(i, b), SetInode(i, b, size), UNCHANGED <<inode_bitmap, entries>>,
         \A c \in Block \ {b} : data'[c] = data[c]
  PROVE  \E f \in Name :
           /\ Files[f] = [size |-> inode_table[i].i_size, bytes |-> data[b]]
           /\ Files' = [Files EXCEPT ![f] = [size |-> size, bytes |-> data'[b]]]
<1>1. PICK f \in Name : Names(f, i)
  BY FileNamed
<1>2. /\ inode_table'[i] = [i_size |-> size, i_blocks |-> 1, i_block |-> b]
      /\ \A j \in Ino \ {i} : inode_table'[j] = inode_table[j]
      /\ HasBlock(i) => inode_table[i].i_block = b
      /\ ~HasBlock(i) => data[b] = Zeros
      /\ BlocksExclusive'
  BY MapBlock
<1>3. i \in Ino /\ FileInodes \subseteq Ino
  BY FileNamed
<1>4. Content(i) = [size |-> inode_table[i].i_size, bytes |-> data[b]]
  BY <1>2 DEF Content
<1>5. Content(i)' = [size |-> size, bytes |-> data'[b]]
  BY <1>2 DEF Content, HasBlock
<1>6. ASSUME NEW j \in FileInodes \ {i} PROVE Content(j)' = Content(j)
  <2>1. inode_table'[j] = inode_table[j] /\ j \in Ino
    BY <1>2, <1>3
  <2>2. CASE HasBlock(j)
    <3>1. HasBlock(i)' /\ HasBlock(j)'
      BY <1>2, <2>1, <2>2 DEF HasBlock
    <3>2. inode_table'[j].i_block # inode_table'[i].i_block
      BY <1>2, <1>3, <2>1, <3>1 DEF BlocksExclusive
    <3>3. inode_table[j].i_block \in Block \ {b}
      BY <1>2, <2>1, <3>2 DEF IInv, TypeOK
    <3>4. QED
      BY <2>1, <3>3 DEF Content, HasBlock
  <2>3. CASE ~HasBlock(j)
    BY <2>1, <2>3 DEF Content, HasBlock
  <2>4. QED
    BY <2>2, <2>3
<1>7. Files[f] = Content(i) /\ Files' = [Files EXCEPT ![f] = Content(i)']
  BY <1>1, <1>3, <1>6, OneFileChanges
<1>8. QED
  BY <1>4, <1>5, <1>7

\* A file that exists, as the abstract file system has it.
LEMMA Present ==
  ASSUME NEW f \in Name, NEW size \in Nat, NEW bytes,
         Files[f] = [size |-> size, bytes |-> bytes]
  PROVE  Files[f] # Store!Absent
BY DEF Store!Absent

\* Whatever fits in a block may be transferred.
LEMMA TransfersAll ==
  ASSUME NEW n \in 0 .. BlockSize
  PROVE  n \in Store!Transfers
BY SizeAssumption DEF Store!Transfers

\* A call that fails and shows in no file.
LEMMA FailMaps ==
  ASSUME NEW err \in {"ENOSPC", "ENOMEM", "EFAULT"}, Returns(err, <<>>), Files' = Files
  PROVE  Store!Next
BY DEF Store!Next, Store!Fail, Store!Returns, Returns, Files

\* Truncating, and reading or writing nothing: the file exists and stays.
LEMMA EmptyCallMaps ==
  ASSUME IInv, FilesNamed, NEW i \in FileInodes, Returns("ok", <<>>), Files' = Files
  PROVE  Store!Next
<1>1. PICK f \in Name : Names(f, i)
  BY FileNamed
<1>2. /\ Files[f] = [size |-> inode_table[i].i_size, bytes |-> Content(i).bytes]
      /\ inode_table[i].i_size \in Nat
  BY <1>1, FileNamed, SizeAssumption DEF FilesNamed, Files, Content, IInv, TypeOK
<1>3. Files[f] # Store!Absent
  BY <1>2, Present
<1>4. Store!ReadEndOrTruncate(f)
  BY <1>3 DEF Store!ReadEndOrTruncate, Store!Returns, Returns, Files
<1>5. QED
  BY <1>4 DEF Store!Next

\* A new file is an empty file; the others stay.
LEMMA CreateMaps ==
  ASSUME IInv, FilesNamed, FilesNamed',
         NEW f \in Name, NEW i \in Ino, NEW b \in Block, Create(f, i, b)
  PROVE  Store!Next
<1> DEFINE e == [filename |-> f, inode_no |-> i]
<1>1. /\ f \notin FileNames /\ entries' = Append(entries, e)
      /\ Returns("ok", <<>>) /\ data' = data /\ NewFile(i, b)
  BY DEF Create, MayCreate
<1>2. /\ i \notin FileInodes /\ ~HasBlock(i) /\ inode_table'[i] = NewInode
      /\ \A j \in Ino \ {i} : inode_table'[j] = inode_table[j]
  BY <1>1, NewFileKeeps
<1>3. Entries' = Entries \cup {e} /\ FileNames' = FileNames \cup {f}
  <2>1. /\ entries \in Seq([filename : Name, inode_no : Ino])
        /\ entries' \in Seq([filename : Name, inode_no : Ino])
        /\ Len(entries') = Len(entries) + 1
        /\ \A k \in 1 .. Len(entries) : entries'[k] = entries[k]
        /\ entries'[Len(entries) + 1] = e
    BY <1>1 DEF IInv, TypeOK
  <2>2. Entries' = Entries \cup {e}
    BY <2>1 DEF Entries
  <2>3. FileNames' = FileNames \cup {f}
    BY <2>1 DEF FileNames
  <2>4. QED
    BY <2>2, <2>3
<1>4. Names(f, i)' /\ \A g \in Name \ {f}, j \in Ino : Names(g, j)' <=> Names(g, j)
  BY <1>3 DEF Names
<1>5. FileOf(f) = Store!Absent /\ FileOf(f)' = Store!Empty
  <2>1. FileOf(f)' = Content(i)'
    BY <1>4 DEF FilesNamed
  <2>2. Content(i)' = Store!Empty
    BY <1>2 DEF Content, HasBlock, NewInode, Zeros, Store!Empty, Offset, Store!Offset
  <2>3. QED
    BY <1>1, <2>1, <2>2 DEF FilesNamed
<1>6. ASSUME NEW g \in Name \ {f} PROVE FileOf(g)' = FileOf(g)
  <2>1. CASE g \in FileNames
    <3>1. PICK j \in Ino : Names(g, j)
      BY <2>1 DEF FilesNamed
    <3>2. /\ FileOf(g) = Content(j) /\ j \in FileInodes
          /\ FileOf(g)' = Content(j)'
      BY <1>4, <3>1 DEF FilesNamed
    <3>3. inode_table'[j] = inode_table[j]
      BY <1>2, <3>2
    <3>4. QED
      BY <1>1, <3>2, <3>3 DEF Content, HasBlock
  <2>2. CASE g \notin FileNames
    BY <1>3, <2>2 DEF FilesNamed, Store!Absent
  <2>3. QED
    BY <2>1, <2>2
<1>7. Store!Create(f)
  <2>1. Files[f] = Store!Absent /\ Files' = [Files EXCEPT ![f] = Store!Empty]
    BY <1>5, <1>6 DEF Files
  <2>2. QED
    BY <1>1, <2>1 DEF Store!Create, Store!Returns, Returns, Files
<1>8. QED
  BY <1>7 DEF Store!Next

\* A creation that fails shows in no file.
LEMMA CreateFailureMaps ==
  ASSUME IInv, FilesNamed, FilesNamed', NEW f \in Name,
         \/ CreateNoSpace(f)
         \/ \E i \in Ino : CreateNoMemory(f, i)
         \/ \E i \in Ino, b \in Block : CreateDirFull(f, i, b)
  PROVE  Store!Next
<1>1. UNCHANGED <<entries, data>>
  BY DEF CreateNoSpace, CreateNoMemory, CreateDirFull
<1>2. \A j \in FileInodes : inode_table'[j] = inode_table[j]
  <2>1. CASE UNCHANGED inode_table
    BY <2>1
  <2>2. ASSUME NEW i \in Ino, NEW b \in Block, NewFile(i, b)
        PROVE  \A j \in FileInodes : inode_table'[j] = inode_table[j]
    <3>1. i \notin FileInodes /\ \A j \in Ino \ {i} : inode_table'[j] = inode_table[j]
      BY <2>2, NewFileKeeps
    <3>2. QED
      BY <3>1, FileNamed
  <2>3. QED
    BY <2>1, <2>2 DEF CreateNoSpace, CreateNoMemory, CreateDirFull
<1>3. Files' = Files
  BY <1>1, <1>2, NoFileChanges DEF Content, HasBlock
<1>4. Returns("ENOSPC", <<>>) \/ Returns("ENOMEM", <<>>)
  BY DEF CreateNoSpace, CreateNoMemory, CreateDirFull
<1>5. QED
  BY <1>3, <1>4, FailMaps

\* A write of nothing may take a block, which is all zero.
LEMMA WriteNoneMaps ==
  ASSUME IInv, FilesNamed, FilesNamed', NEW i \in Ino, NEW v \in Via, NEW pos \in Position,
         NEW s \in Strings, NEW b \in Block, WriteNone(i, v, pos, s, b)
  PROVE  Store!Next
<1>1. /\ i \in FileInodes /\ inode_table[i].i_size \in inode_table[i].i_size .. BlockSize
      /\ inode_table[i].i_size \in Nat
  BY OpenIsFile, SizeAssumption DEF WriteNone
<1>2. PICK f \in Name :
        /\ Files[f] = [size |-> inode_table[i].i_size, bytes |-> data[b]]
        /\ Files' = [Files EXCEPT ![f] = [size |-> inode_table[i].i_size, bytes |-> data'[b]]]
  BY <1>1, WritingShows DEF WriteNone
<1>3. Files' = Files
  <2>1. data' = data
    BY DEF WriteNone
  <2>2. Files' = [Files EXCEPT ![f] = Files[f]]
    BY <1>2, <2>1
  <2>3. QED
    BY <2>2 DEF Files
<1>4. Returns("ok", <<>>) \/ Returns("EFAULT", <<>>)
  BY DEF WriteNone
<1>5. QED
  BY <1>1, <1>3, <1>4, EmptyCallMaps, FailMaps

\* A write that faults spoils what it was to replace, and no other byte.
LEMMA WriteFaultMaps ==
  ASSUME IInv, FilesNamed, FilesNamed', NEW i \in Ino, NEW v \in Via, NEW pos \in Position,
         NEW s \in Strings, NEW b \in Block, NEW k \in Offset, WriteFault(i, v, pos, s, b, k)
  PROVE  Store!Next
<1> DEFINE n == Clip(pos, Len(s))
           size == inode_table[i].i_size
<1>1. /\ i \in FileInodes /\ size \in size .. BlockSize /\ size \in Nat
      /\ data \in [Block -> [Offset -> Byte]]
  BY OpenIsFile, SizeAssumption DEF WriteFault
<1>2. n \in 0 .. BlockSize /\ pos \in Nat /\ pos + n <= BlockSize /\ k < n /\ k \in Nat
  <2>1. n \in Int /\ pos \in Nat /\ pos + n <= BlockSize
    BY StringTyped, ClipBounds
  <2>2. n > 0 /\ k < n
    BY DEF WriteFault
  <2>3. QED
    BY <2>1, <2>2, SizeAssumption DEF Offset
<1>3. PICK f \in Name :
        /\ Files[f] = [size |-> size, bytes |-> data[b]]
        /\ Files' = [Files EXCEPT ![f] = [size |-> size, bytes |-> data'[b]]]
  <2>1. \A c \in Block \ {b} : data'[c] = data[c]
    BY <1>1 DEF WriteFault
  <2>2. QED
    BY <1>1, <2>1, WritingShows DEF WriteFault
<1>4. data'[b] = [o \in Offset |-> IF o \in pos .. pos + n - 1 THEN data'[b][o] ELSE data[b][o]]
  <2> DEFINE bytes == [o \in Offset |->
                         CASE o \in pos .. pos + k - 1 -> s[o - pos + 1]
                           [] o \in pos + k .. pos + n - 1 -> 0
                           [] OTHER -> data[b][o]]
  <2>1. data'[b] = bytes
    BY <1>1 DEF WriteFault
  <2>2. ASSUME NEW o \in Offset, o \notin pos .. pos + n - 1 PROVE bytes[o] = data[b][o]
    <3>1. o \notin pos .. pos + k - 1 /\ o \notin pos + k .. pos + n - 1
      BY <1>2, <2>2, SizeAssumption DEF Offset
    <3>2. QED
      BY <3>1
  <2>3. QED
    BY <2>1, <2>2
<1>5. Store!WriteFault(f, pos, n)
  <2>1. Files[f] # Store!Absent
    BY <1>1, <1>3, Present
  <2>2. Files'[f].bytes = data'[b] /\ Files[f].bytes = data[b]
    BY <1>3 DEF Files
  <2>3. Files' = [Files EXCEPT ![f].bytes = data'[b]]
    <3>1. [Files[f] EXCEPT !.bytes = data'[b]] = [size |-> size, bytes |-> data'[b]]
      BY <1>3
    <3>2. QED
      BY <1>3, <3>1
  <2>4. Files' = [Files EXCEPT ![f].bytes =
          [o \in Offset |-> IF o \in pos .. pos + n - 1 THEN Files'[f].bytes[o] ELSE @[o]]]
    BY <1>4, <2>2, <2>3
  <2>5. QED
    BY <1>2, <2>1, <2>4 DEF Store!WriteFault, Store!Offset, Offset, Files
<1>6. Store!Returns("EFAULT", <<>>)
  BY DEF WriteFault, Returns, Store!Returns
<1>7. QED
  BY <1>2, <1>5, <1>6, TransfersAll DEF Store!Next

\* A write lays its bytes over the file's.
LEMMA WriteMaps ==
  ASSUME IInv, FilesNamed, FilesNamed', NEW i \in Ino, NEW v \in Via, NEW pos \in Position,
         NEW s \in Strings, NEW b \in Block, Write(i, v, pos, s, b)
  PROVE  Store!Next
<1> DEFINE n == Clip(pos, Len(s))
           old == inode_table[i].i_size
           size == NewSize(i, pos + n)
           t == SubSeq(s, 1, n)
<1>1. /\ i \in FileInodes /\ old \in 0 .. BlockSize /\ old \in Nat
      /\ data \in [Block -> [Offset -> Byte]]
  BY OpenIsFile, SizeAssumption DEF Write
<1>2. s \in Seq(Byte) /\ Len(s) \in Nat /\ \A k \in 1 .. Len(s) : s[k] \in Byte
  BY StringTyped
<1>3. n \in 1 .. BlockSize /\ pos \in Nat /\ pos + n <= BlockSize /\ n <= Len(s)
  <2>1. n \in Int /\ pos \in Nat /\ pos + n <= BlockSize /\ n <= Len(s)
    BY <1>2, ClipBounds
  <2>2. n > 0
    BY DEF Write
  <2>3. QED
    BY <2>1, <2>2, SizeAssumption
<1>4. t \in [1 .. n -> Byte] /\ Len(t) = n /\ \A k \in 1 .. n : t[k] = s[k]
  <2> HIDE DEF n
  <2>1. /\ t \in Seq(Byte) /\ Len(t) = n
        /\ \A k \in 1 .. n : t[k] = s[1 + k - 1]
    BY <1>2, <1>3, SubSeqProperties
  <2> HIDE DEF t
  <2>2. t \in [1 .. n -> Byte]
    BY <2>1, LenProperties
  <2>3. \A k \in 1 .. n : t[k] = s[k]
    BY <1>3, <2>1
  <2>4. QED
    BY <2>1, <2>2, <2>3
<1>5. size \in old .. BlockSize /\ size = Store!Max2(old, pos + Len(t))
  <2> HIDE DEF n
  <2>1. Len(t) = n
    BY <1>4
  <2>2. QED
    BY <1>1, <1>3, <2>1, SizeAssumption DEF NewSize, Store!Max2
<1>6. PICK f \in Name :
        /\ Files[f] = [size |-> old, bytes |-> data[b]]
        /\ Files' = [Files EXCEPT ![f] = [size |-> size, bytes |-> data'[b]]]
  <2>1. \A c \in Block \ {b} : data'[c] = data[c]
    BY <1>1 DEF Write
  <2>2. QED
    BY <1>1, <1>5, <2>1, WritingShows DEF Write
<1>7. data'[b] = Store!Overlay(data[b], pos, t)
  <2>1. data'[b] = Overlay(data[b], pos, s, n)
    BY <1>1 DEF Write
  <2> HIDE DEF n, t
  <2>2. ASSUME NEW o \in Offset, o \in pos .. pos + n - 1 PROVE t[o - pos + 1] = s[o - pos + 1]
    BY <1>3, <1>4, <2>2, SizeAssumption DEF Offset
  <2>3. QED
    BY <1>4, <2>1, <2>2 DEF Overlay, Store!Overlay, Offset, Store!Offset
<1>8. Store!Write(f, pos, t)
  <2> HIDE DEF n, t, size, old
  <2>1. Files[f] # Store!Absent
    BY <1>1, <1>6, Present
  <2>2. /\ Files[f].size = old /\ Files[f].bytes = data[b]
        /\ Files' = [Files EXCEPT ![f] = [size |-> Store!Max2(@.size, pos + Len(t)),
                                          bytes |-> Store!Overlay(@.bytes, pos, t)]]
    BY <1>5, <1>6, <1>7
  <2>3. QED
    BY <1>3, <1>4, <2>1, <2>2 DEF Store!Write, Files
<1>9. Store!Returns("ok", t)
  BY DEF Write, Returns, Store!Returns
<1>10. Store!Transfer(t)
  BY <1>8, <1>9 DEF Store!Transfer
<1>11. n \in Store!Transfers /\ n > 0
  BY <1>3, TransfersAll
<1>12. QED
  <2> HIDE DEF n, t
  <2>1. QED
    BY <1>4, <1>10, <1>11 DEF Store!Next

\* A read returns the file's bytes.
LEMMA ReadMaps ==
  ASSUME IInv, FilesNamed, FilesNamed', NEW i \in Ino, NEW pos \in Position,
         NEW len \in 0 .. BlockSize, Read(i, pos, len)
  PROVE  Store!Next
<1> DEFINE size == inode_table[i].i_size
           block == data[inode_table[i].i_block]
           n == IF pos + len > size THEN size - pos ELSE len
           t == [k \in 1 .. n |-> block[pos + k - 1]]
<1>1. i \in FileInodes /\ size \in 0 .. BlockSize /\ size \in Nat
      /\ data \in [Block -> [Offset -> Byte]] /\ HasBlock(i)
      /\ inode_table[i].i_block \in Block /\ pos < size /\ pos \in Nat
  <2>1. PICK v \in Via : IsOpen(i, v)
    BY DEF Read
  <2>2. i \in FileInodes /\ size \in 0 .. BlockSize
    BY <2>1, OpenIsFile
  <2>3. QED
    BY <2>2, SizeAssumption DEF Read, IInv, TypeOK, HasBlock, Position
<1>2. n \in 0 .. BlockSize /\ pos + n <= size
  BY <1>1, SizeAssumption
<1>3. UNCHANGED <<entries, inode_table, data>>
  BY DEF Read
<1>4. Files' = Files
  BY <1>3, NoFileChanges DEF Content, HasBlock
<1>5. Returns("ok", t) \/ Returns("EFAULT", <<>>)
  BY DEF Read
<1> HIDE DEF n
<1>6. CASE Returns("EFAULT", <<>>)
  BY <1>4, <1>6, FailMaps
<1>7. CASE Returns("ok", t) /\ n = 0
  <2>1. t = <<>>
    BY <1>7
  <2>2. QED
    BY <1>1, <1>4, <1>7, <2>1, EmptyCallMaps
<1>8. CASE Returns("ok", t) /\ n > 0
  <2>1. t \in [1 .. n -> Byte]
    BY <1>1, <1>2, SizeAssumption DEF Offset
  <2>2. Len(t) = n
    BY <1>2, <2>1, SizeAssumption
  <2>3. PICK f \in Name : Names(f, i)
    BY <1>1, FileNamed
  <2>4. Files[f] = Content(i) /\ Content(i) = [size |-> size, bytes |-> block]
    BY <1>1, <2>3 DEF FilesNamed, Files, Content
  <2>5. Store!Read(f, pos, t)
    BY <1>2, <1>4, <2>2, <2>4 DEF Store!Read, Files
  <2>6. Store!Transfer(t)
    BY <1>8, <2>5 DEF Store!Transfer, Store!Returns, Returns
  <2>7. n \in Store!Transfers
    BY <1>2, TransfersAll
  <2> HIDE DEF t
  <2>8. QED
    BY <1>8, <2>1, <2>6, <2>7 DEF Store!Next
<1>9. QED
  BY <1>2, <1>5, <1>6, <1>7, <1>8, SizeAssumption

\* Calls that change no file: truncations, reads and writes of nothing.
LEMMA QuietMaps ==
  ASSUME IInv, FilesNamed, FilesNamed', NEW i \in Ino, NEW v \in Via,
         \/ WriteNoSpace(i, v)
         \/ \E size \in Sizes : Truncate(i, v, size)
         \/ \E pos \in Position : ReadEnd(i, pos)
  PROVE  Store!Next
<1>1. UNCHANGED <<entries, inode_table, data>>
  BY DEF WriteNoSpace, Truncate, ReadEnd
<1>2. Files' = Files
  BY <1>1, NoFileChanges DEF Content, HasBlock
<1>3. CASE WriteNoSpace(i, v)
  BY <1>2, <1>3, FailMaps DEF WriteNoSpace
<1>4. CASE \E size \in Sizes : Truncate(i, v, size)
  <2>1. IsOpen(i, v) /\ Returns("ok", <<>>)
    BY <1>4 DEF Truncate, IsOpen
  <2>2. QED
    BY <1>2, <2>1, OpenIsFile, EmptyCallMaps
<1>5. CASE \E pos \in Position : ReadEnd(i, pos)
  <2>1. Returns("ok", <<>>) /\ \E w \in Via : IsOpen(i, w)
    BY <1>5 DEF ReadEnd
  <2>2. QED
    BY <1>2, <2>1, OpenIsFile, EmptyCallMaps
<1>6. QED
  BY <1>3, <1>4, <1>5

-----------------------------------------------------------------------------
LEMMA StoreInit == Init => Store!Init
<1> SUFFICES ASSUME Init PROVE Store!Init
  OBVIOUS
<1>1. FileNames = {} /\ ret = [err |-> "ok", bytes |-> <<>>]
  BY DEF Init, FileNames
<1>2. \A f \in Name : FileOf(f) = Store!Absent
  BY <1>1 DEF FileOf, Store!Absent, Zeros, Offset, Store!Offset
<1>3. QED
  BY <1>1, <1>2 DEF Store!Init

LEMMA StoreStep ==
  IInv /\ FilesNamed /\ FilesNamed' /\ [Next]_vars => [Store!Next]_(Store!vars)
<1> SUFFICES ASSUME IInv, FilesNamed, FilesNamed', [Next]_vars
             PROVE  Store!Next \/ UNCHANGED Store!vars
  OBVIOUS
<1>1. CASE UNCHANGED <<entries, inode_table, data, ret>>
  <2>1. Files' = Files
    BY <1>1, NoFileChanges DEF Content, HasBlock
  <2>2. QED
    BY <1>1, <2>1 DEF Store!vars, Files
<1>2. CASE Creating
  BY <1>2, CreateMaps, CreateFailureMaps DEF Creating
<1>3. ASSUME NEW i \in Ino, Lookup(i) \/ Reading(i)
      PROVE  Store!Next \/ UNCHANGED Store!vars
  <2>1. "create" \in Via
    BY DEF Via
  <2>2. QED
    BY <1>1, <1>3, <2>1, QuietMaps, ReadMaps DEF Lookup, Reading
<1>4. ASSUME NEW i \in Ino, NEW v \in Via,
             Evict(i, v) \/ Writing(i, v) \/ \E size \in Sizes : Truncate(i, v, size)
      PROVE  Store!Next \/ UNCHANGED Store!vars
  <2>1. CASE Evict(i, v)
    BY <1>1, <2>1 DEF Evict
  <2>2. CASE Writing(i, v)
    BY <2>2, QuietMaps, WriteNoneMaps, WriteFaultMaps, WriteMaps DEF Writing
  <2>3. QED
    BY <1>4, <2>1, <2>2, QuietMaps
<1>5. CASE UNCHANGED vars
  BY <1>1, <1>5 DEF vars
<1>6. QED
  BY <1>2, <1>3, <1>4, <1>5 DEF Next

\* To programs lab4/basic is a set of independent byte arrays, one for each
\* name: a call on one file shows in no other, what is read is what was last
\* written there, and a call that fails before it copies changes nothing.
THEOREM OsfsImplementsFileStore == Spec => ImplementsFileStore
<1>1. IInv /\ IInv' /\ [Next]_vars => [Store!Next]_(Store!vars)
  <2>1. IInv' => FilesNamed'
    BY NamedFiles, PTL
  <2>2. QED
    BY <2>1, NamedFiles, StoreStep
<1>2. QED
  BY <1>1, StoreInit, OsfsInvariant, PTL DEF Spec, ImplementsFileStore, Store!Spec

-----------------------------------------------------------------------------
(* Calls that overlap.                                                     *)

\* A process between test_bit and *block_no = i has found block b.
Holds(p, b) == pc[p] \in {"set", "load", "store", "place"} /\ call[p].blk = b

\* An inode points to block b, marked as its own or not yet.
Points(i, b) == inode_table[i].i_block = b

\* A process's local variables.
Call ==
  [ino : Ino, name : Name \cup {Nobody}, blk : Block, count : Int, str : Seq(Byte)]

Types ==
  /\ pc \in [Proc -> {"idle", "test", "set", "load", "store", "place", "placed", "aim", "copy",
                      "size", "grow"}]
  /\ call \in [Proc -> Call]
  /\ inode_table \in [Ino -> [i_size : Nat, i_blocks : {0, 1}, i_block : Block]]
  /\ entries \in Seq([filename : Name, inode_no : Ino])
  /\ nr_free_blocks \in Int
  /\ inode_bitmap \subseteq Ino

\* The directory's lock keeps the inode and the name of a creation new.
Calls ==
  \A p \in Proc :
    /\ pc[p] = "idle" => ~Creates(p)
    /\ Creates(p) =>
         /\ dirlock = p
         /\ pc[p] \in {"test", "set", "load", "store", "place", "placed"}
         /\ call[p].ino \in inode_bitmap \ {ROOT_INODE}
         /\ call[p].ino \notin FileInodes /\ call[p].name \notin FileNames
    /\ pc[p] # "idle" /\ ~Creates(p) => call[p].ino \in FileInodes

Directory ==
  /\ ROOT_INODE \in inode_bitmap
  /\ DirectorySound

\* A block that was not raced for is held by one process or pointed to by one
\* inode, not both.
OneHolder ==
  \A b \in Block \ raced : b # 0 =>
    /\ \A p, q \in Proc : Holds(p, b) /\ Holds(q, b) => p = q
    /\ \A i, j \in Ino : Points(i, b) /\ Points(j, b) => i = j
    /\ \A p \in Proc, i \in Ino : ~(Holds(p, b) /\ Points(i, b))

\* What is held or pointed to has its bit set.
Marked ==
  /\ \A i \in Ino : inode_table[i].i_block # 0 => inode_table[i].i_block \in block_bitmap
  /\ \A p \in Proc : pc[p] \in {"load", "store", "place"} => call[p].blk \in block_bitmap

\* Block 0 is gone before there is a file to write to.
RootBlock ==
  /\ FileInodes # {} => 0 \in block_bitmap
  /\ \A p \in Proc :
       /\ pc[p] = "set" => 0 .. call[p].blk - 1 \subseteq block_bitmap
       /\ pc[p] \in {"load", "store", "place", "placed"} => 0 \in block_bitmap
       /\ ~Creates(p) /\ pc[p] \in {"set", "load", "store", "place"} => call[p].blk # 0
       /\ ~Creates(p) /\ pc[p] = "placed" => inode_table[call[p].ino].i_block # 0
  /\ \A i \in FileInodes : HasBlock(i) => inode_table[i].i_block # 0

RInv == Types /\ Calls /\ Directory /\ OneHolder /\ Marked /\ RootBlock

-----------------------------------------------------------------------------
\* A call begins with its file and what it is given, all else zero.
LEMMA CallTyped ==
  ASSUME NEW i \in Ino, NEW f \in Name \cup {Nobody}, NEW s \in Seq(Byte)
  PROVE  [ino |-> i, name |-> f, blk |-> 0, count |-> 0, str |-> s] \in Call
<1>1. 0 \in Block
  BY SizeAssumption DEF Block
<1>2. QED
  BY <1>1 DEF Call

LEMMA NoCallTyped == NoCall \in Call
<1>1. ROOT_INODE \in Ino
  BY SizeAssumption DEF Ino, ROOT_INODE
<1>2. QED
  BY <1>1, NoBytes, CallTyped DEF NoCall

LEMMA InitRInv == RaceInit => RInv
<1> SUFFICES ASSUME RaceInit PROVE RInv
  OBVIOUS
<1> USE SizeAssumption, ProcAssumption DEF RaceInit, Init
<1>1. Types
  BY NoCallTyped DEF Types, Call, NewInode, Ino, ROOT_INODE, Block
<1>2. FileInodes = {} /\ FileNames = {}
  BY DEF FileInodes, FileNames
<1>3. Calls
  BY DEF Calls, Creates, NoCall
<1>4. Directory
  BY <1>2 DEF Directory, DirectorySound, ROOT_INODE
<1>5. OneHolder /\ Marked /\ RootBlock
  BY <1>2 DEF OneHolder, Marked, RootBlock, Holds, Points, NewInode
<1>6. QED
  BY <1>1, <1>3, <1>4, <1>5 DEF RInv

\* A step of one call that neither allocates nor touches directory or blocks'
\* owners.
LEMMA QuietStep ==
  ASSUME RInv, NEW p \in Proc, Types',
         UNCHANGED <<inode_bitmap, block_bitmap, entries, dirlock, raced>>,
         ~Creates(p), ~Creates(p)',
         \A q \in Proc \ {p} : pc'[q] = pc[q] /\ call'[q] = call[q],
         pc[p] \notin {"set", "load", "store", "place"},
         pc'[p] \in {"idle", "test", "aim", "copy", "size", "grow"},
         pc'[p] # "idle" => call'[p].ino \in FileInodes,
         \A i \in Ino : /\ inode_table'[i].i_block = inode_table[i].i_block
                        /\ inode_table'[i].i_blocks = inode_table[i].i_blocks
                           \/ inode_table[i].i_block # 0
  PROVE  RInv'
<1> USE DEF RInv
<1>1. FileInodes' = FileInodes /\ FileNames' = FileNames
  BY DEF FileInodes, FileNames
<1>2. Calls'
  BY <1>1 DEF Calls, Creates
<1>3. Directory'
  BY <1>1 DEF Directory, DirectorySound
<1>4. OneHolder'
  BY DEF OneHolder, Holds, Points
<1>5. Marked'
  BY DEF Marked
<1>6. RootBlock'
  <2>1. FileInodes \subseteq Ino
    BY DEF Types, Call, Directory, DirectorySound
  <2>2. \A q \in Proc : call[q].ino \in Ino
    BY DEF Types, Call
  <2>3. QED
    BY <1>1, <2>1, <2>2 DEF RootBlock, Creates, HasBlock
<1>7. QED
  BY <1>2, <1>3, <1>4, <1>5, <1>6

\* osfs_create takes an inode that no one uses.
LEMMA CreateBeginKeeps ==
  ASSUME RInv, NEW p \in Proc, NEW f \in Name, NEW i \in Ino, CreateBegin(p, f, i)
  PROVE  RInv'
<1> USE SizeAssumption, ProcAssumption DEF RInv, CreateBegin, At
<1>1. /\ call'[p] = [ino |-> i, name |-> f, blk |-> 0, count |-> 0, str |-> <<>>]
      /\ pc[p] = "idle" /\ pc'[p] = "test"
      /\ \A q \in Proc \ {p} : pc'[q] = pc[q] /\ call'[q] = call[q]
  BY DEF Types, Call, NoCall
<1>2. i \notin inode_bitmap /\ inode_bitmap' = inode_bitmap \cup {i}
  BY DEF FirstFreeInode
<1>3. /\ inode_table'[i] = [i_size |-> 0, i_blocks |-> 1, i_block |-> 0]
      /\ \A j \in Ino \ {i} : inode_table'[j] = inode_table[j]
  BY DEF Types, Call, NewInode
<1>4. Types'
  <2>1. call'[p] \in Call
    <3>1. [ino |-> i, name |-> f, blk |-> 0, count |-> 0, str |-> <<>>] \in Call
      BY NoBytes, CallTyped
    <3>2. QED
      BY <1>1, <3>1
  <2>2. inode_table'[i] \in [i_size : Nat, i_blocks : {0, 1}, i_block : Block]
    BY <1>3 DEF Block
  <2>3. QED
    BY <1>2, <2>1, <2>2 DEF Types, Call, NoCall
<1>5. FileInodes' = FileInodes /\ FileNames' = FileNames /\ i \notin FileInodes
  BY <1>2 DEF FileInodes, FileNames, Directory, DirectorySound
<1>6. \A q \in Proc : ~Creates(q)
  BY DEF Calls, DirFree
<1>7. Calls'
  BY <1>1, <1>2, <1>5, <1>6 DEF Calls, Creates, MayCreate, Directory
<1>8. Directory'
  BY <1>2, <1>5 DEF Directory, DirectorySound
<1>9. OneHolder'
  BY <1>1, <1>3 DEF OneHolder, Holds, Points, history
<1>10. Marked'
  BY <1>1, <1>3 DEF Marked
<1>11. RootBlock'
  <2>1. \A q \in Proc : pc[q] = "placed" => call[q].ino # i
    BY <1>5, <1>6 DEF Calls
  <2>2. FileInodes \subseteq Ino
    BY DEF Types, Call, Directory, DirectorySound
  <2>3. \A q \in Proc : call[q].ino \in Ino
    BY DEF Types, Call
  <2>4. QED
    BY <1>1, <1>3, <1>5, <1>6, <2>1, <2>2, <2>3 DEF RootBlock, Creates, HasBlock
<1>12. QED
  BY <1>4, <1>7, <1>8, <1>9, <1>10, <1>11

\* A creation that finds no inode, or whose new_inode fails, gives up before it
\* has anything but the inode number.
LEMMA CreateFailsKeeps ==
  ASSUME RInv, NEW f \in Name, NEW i \in Ino, CreateFails(f, i)
  PROVE  RInv'
<1> USE DEF RInv, CreateFails, locals, history
<1>1. inode_bitmap' = inode_bitmap \cup {i}
  OBVIOUS
<1>2. UNCHANGED <<pc, call, dirlock, inode_table, entries, block_bitmap, raced, nr_free_blocks>>
  OBVIOUS
<1>3. FileInodes' = FileInodes /\ FileNames' = FileNames
  BY <1>2 DEF FileInodes, FileNames
<1>4. Types' /\ Calls' /\ Directory'
  BY <1>1, <1>2, <1>3 DEF Types, Call, Calls, Creates, Directory, DirectorySound
<1>5. OneHolder' /\ Marked' /\ RootBlock'
  BY <1>2, <1>3 DEF OneHolder, Holds, Points, Marked, RootBlock, Creates, HasBlock
<1>6. QED
  BY <1>4, <1>5

\* The file that osfs_create has made, in the directory if there is room.
LEMMA CreateEndKeeps ==
  ASSUME RInv, NEW p \in Proc, CreateEnd(p)
  PROVE  RInv'
<1> USE SizeAssumption, ProcAssumption DEF RInv, CreateEnd, Returned, At
<1> DEFINE e == [filename |-> call[p].name, inode_no |-> call[p].ino]
<1>1. /\ dirlock = p /\ call[p].ino \in inode_bitmap \ {ROOT_INODE}
      /\ call[p].ino \notin FileInodes /\ call[p].name \notin FileNames
      /\ e \in [filename : Name, inode_no : Ino]
  BY DEF Calls, Types, Call, Creates
<1>2. /\ pc[p] = "placed" /\ pc'[p] = "idle" /\ call'[p] = NoCall
      /\ \A q \in Proc \ {p} : pc'[q] = pc[q] /\ call'[q] = call[q]
  BY DEF Types, Call
<1>3. /\ inode_table'[call[p].ino] = NewInode
      /\ \A j \in Ino \ {call[p].ino} : inode_table'[j] = inode_table[j]
  BY DEF Types, Call
<1>4. entries' = entries \/ (HasRoom /\ entries' = Append(entries, e))
  OBVIOUS
<1>5. /\ FileInodes \subseteq FileInodes' /\ FileInodes' \subseteq FileInodes \cup {call[p].ino}
      /\ entries' \in Seq([filename : Name, inode_no : Ino])
      /\ DirectorySound'
  <2>1. CASE entries' = entries
    BY <2>1 DEF FileInodes, Directory, DirectorySound, Types, Call, bitmaps
  <2>2. CASE HasRoom /\ entries' = Append(entries, e)
    <3>1. Len(entries) \in Nat /\ DOMAIN entries = 1 .. Len(entries)
      BY DEF Types, Call
    <3>2. /\ entries' \in Seq([filename : Name, inode_no : Ino])
          /\ Len(entries') = Len(entries) + 1
          /\ DOMAIN entries' = 1 .. Len(entries) + 1
          /\ entries'[Len(entries) + 1] = e
          /\ \A k \in 1 .. Len(entries) : entries'[k] = entries[k]
      BY <1>1, <2>2, AppendProperties DEF Types, Call
    <3>3. FileInodes' = FileInodes \cup {call[p].ino}
      BY <3>1, <3>2 DEF FileInodes
    <3>4. Len(entries') <= MaxDirEntries
      BY <2>2, <3>1, <3>2 DEF HasRoom
    <3>5. \A j, k \in DOMAIN entries' : j # k =>
            /\ entries'[j].filename # entries'[k].filename
            /\ entries'[j].inode_no # entries'[k].inode_no
      BY <1>1, <3>1, <3>2 DEF Directory, DirectorySound, FileInodes, FileNames
    <3>6. FileInodes' \subseteq inode_bitmap' \ {ROOT_INODE}
      BY <1>1, <3>3 DEF Directory, DirectorySound, bitmaps
    <3>7. QED
      BY <3>2, <3>3, <3>4, <3>5, <3>6 DEF DirectorySound
  <2>3. QED
    BY <1>4, <2>1, <2>2
<1>6. Types'
  BY <1>5, NoCallTyped DEF Types, Call, NewInode, Block, bitmaps
<1>7. \A q \in Proc \ {p} : ~Creates(q)
  BY <1>1 DEF Calls
<1>8. Calls'
  BY <1>2, <1>5, <1>7 DEF Calls, Creates, NoCall
<1>9. Directory'
  BY <1>5 DEF Directory, bitmaps
<1>10. OneHolder'
  BY <1>2, <1>3 DEF OneHolder, Holds, Points, NewInode, history
<1>11. Marked'
  BY <1>2, <1>3 DEF Marked, NewInode, bitmaps
<1>12. RootBlock'
  <2>1. 0 \in block_bitmap /\ block_bitmap' = block_bitmap
    BY <1>2 DEF RootBlock, bitmaps
  <2>2. \A q \in Proc \ {p} : pc[q] = "placed" => call[q].ino \in FileInodes
    BY <1>7 DEF Calls
  <2>3. FileInodes' \subseteq Ino /\ FileInodes \subseteq Ino
    BY <1>1, <1>5 DEF Types, Call, Directory, DirectorySound
  <2>4. \A j \in FileInodes' : HasBlock(j)' => inode_table'[j].i_block # 0
    BY <1>1, <1>3, <1>5, <2>3 DEF RootBlock, HasBlock, NewInode
  <2>5. QED
    BY <1>1, <1>2, <1>3, <1>7, <2>1, <2>2, <2>3, <2>4 DEF RootBlock, Creates, NoCall
<1>13. QED
  BY <1>6, <1>8, <1>9, <1>10, <1>11, <1>12

-----------------------------------------------------------------------------
\* A call of osfs_alloc_data_block changes neither the directory nor which file it
\* is for.
LEMMA AllocatingCalls ==
  ASSUME RInv, NEW p \in Proc, pc[p] \in {"test", "set", "load", "store", "place"},
         pc'[p] \in {"set", "load", "store", "place", "placed"},
         call'[p].ino = call[p].ino, call'[p].name = call[p].name,
         \A q \in Proc \ {p} : pc'[q] = pc[q] /\ call'[q] = call[q],
         UNCHANGED <<inode_bitmap, entries, dirlock>>
  PROVE  /\ Calls' /\ Directory'
         /\ FileInodes' = FileInodes
         /\ \A q \in Proc : Creates(q)' = Creates(q)
<1>1. FileInodes' = FileInodes /\ FileNames' = FileNames
  BY DEF FileInodes, FileNames
<1>2. \A q \in Proc : Creates(q)' = Creates(q)
  BY DEF Creates
<1>3. Calls'
  BY <1>1, <1>2 DEF RInv, Calls
<1>4. Directory'
  BY <1>1 DEF RInv, Directory, DirectorySound
<1>5. QED
  BY <1>1, <1>2, <1>3, <1>4

LEMMA TestBitKeeps ==
  ASSUME RInv, NEW p \in Proc, NEW b \in Block, TestBit(p, b)
  PROVE  RInv'
<1> USE DEF RInv, TestBit, At, vars, counters, bitmaps
<1>1. /\ pc[p] = "test" /\ pc'[p] = "set"
      /\ call'[p] = [call[p] EXCEPT !.blk = b] /\ call'[p].blk = b
      /\ call'[p].ino = call[p].ino /\ call'[p].name = call[p].name
      /\ \A q \in Proc \ {p} : pc'[q] = pc[q] /\ call'[q] = call[q]
  BY DEF Types, Call
<1>2. b \notin block_bitmap /\ 0 .. b - 1 \subseteq block_bitmap
  BY DEF FirstFreeBlock
<1>3. Types'
  BY <1>1 DEF Types, Call
<1>4. Calls' /\ Directory' /\ FileInodes' = FileInodes /\ \A q \in Proc : Creates(q)' = Creates(q)
  BY <1>1, AllocatingCalls
<1>5. OneHolder'
  <2>1. \A i \in Ino : b # 0 => ~Points(i, b)
    BY <1>2 DEF Marked, Points
  <2>2. b \notin raced' => \A q \in Proc : ~Holds(q, b)
    BY <1>2 DEF Marked, Holds, Taking
  <2>3. raced \subseteq raced' /\ inode_table' = inode_table
    OBVIOUS
  <2>4. QED
    BY <1>1, <2>1, <2>2, <2>3 DEF OneHolder, Holds, Points
<1>6. Marked'
  BY <1>1 DEF Marked
<1>7. RootBlock'
  <2>1. ~Creates(p) => b # 0
    BY <1>1, <1>2 DEF Calls, RootBlock
  <2>2. QED
    BY <1>1, <1>2, <1>4, <2>1 DEF RootBlock, HasBlock
<1>8. QED
  BY <1>3, <1>4, <1>5, <1>6, <1>7

LEMMA SetBitKeeps ==
  ASSUME RInv, NEW p \in Proc, SetBit(p)
  PROVE  RInv'
<1> USE DEF RInv, SetBit, At, history
<1>1. /\ pc[p] = "set" /\ pc'[p] = "load" /\ call' = call
      /\ \A q \in Proc \ {p} : pc'[q] = pc[q]
  BY DEF Types, Call
<1>2. block_bitmap \subseteq block_bitmap' /\ call[p].blk \in block_bitmap'
  OBVIOUS
<1>3. Types'
  BY <1>1 DEF Types, Call, counters
<1>4. Calls' /\ Directory' /\ FileInodes' = FileInodes /\ \A q \in Proc : Creates(q)' = Creates(q)
  BY <1>1, AllocatingCalls
<1>5. OneHolder' /\ Marked'
  BY <1>1, <1>2 DEF OneHolder, Holds, Points, Marked
<1>6. RootBlock'
  <2>1. 0 \in block_bitmap'
    <3>1. call[p].blk \in Block /\ 0 .. call[p].blk - 1 \subseteq block_bitmap
      BY <1>1 DEF RootBlock, Types, Call
    <3>2. call[p].blk = 0 \/ 0 \in 0 .. call[p].blk - 1
      BY <3>1, SizeAssumption DEF Block
    <3>3. QED
      BY <1>2, <3>1, <3>2
  <2>2. QED
    BY <1>1, <1>2, <1>4, <2>1 DEF RootBlock, HasBlock
<1>7. QED
  BY <1>3, <1>4, <1>5, <1>6

\* nr_free_blocks--
LEMMA CountKeeps ==
  ASSUME RInv, NEW p \in Proc, LoadCount(p) \/ StoreCount(p)
  PROVE  RInv'
<1> USE DEF RInv, LoadCount, StoreCount, At, vars, counters, bitmaps, history
<1>1. /\ pc[p] \in {"load", "store"} /\ pc'[p] \in {"store", "place"}
      /\ call'[p].blk = call[p].blk
      /\ call'[p].ino = call[p].ino /\ call'[p].name = call[p].name
      /\ \A q \in Proc \ {p} : pc'[q] = pc[q] /\ call'[q] = call[q]
  BY DEF Types, Call
<1>2. Types'
  <2>1. call[p] \in Call /\ call[p].count \in Int /\ nr_free_blocks \in Int
    BY DEF Types, Call
  <2>2. Less(call[p].count, 1) \in Int
    BY <2>1, SizeAssumption DEF Less, ROOT_INODE
  <2>3. nr_free_blocks' \in Int
    BY <2>1, <2>2
  <2>4. call' \in [Proc -> Call]
    <3>1. ASSUME NEW n \in Int PROVE [call[p] EXCEPT !.count = n] \in Call
      BY <2>1 DEF Call
    <3>2. ASSUME NEW n \in Int, call' = [call EXCEPT ![p].count = n] PROVE call' \in [Proc -> Call]
      BY <3>1, <3>2 DEF Types
    <3>3. CASE LoadCount(p)
      BY <2>1, <3>2, <3>3
    <3>4. CASE StoreCount(p)
      <4>1. 0 \in Int /\ call' = [call EXCEPT ![p].count = 0]
        BY <3>4
      <4>2. QED
        BY <3>2, <4>1
    <3>5. QED
      BY <3>3, <3>4
  <2>5. QED
    BY <2>3, <2>4 DEF Types
<1>3. Calls' /\ Directory' /\ FileInodes' = FileInodes /\ \A q \in Proc : Creates(q)' = Creates(q)
  BY <1>1, AllocatingCalls
<1>4. UNCHANGED <<inode_table, block_bitmap, raced>>
  OBVIOUS
<1>5. OneHolder' /\ Marked'
  BY <1>1, <1>4 DEF OneHolder, Holds, Points, Marked
<1>6. RootBlock'
  BY <1>1, <1>3, <1>4 DEF RootBlock, HasBlock
<1>7. QED
  BY <1>2, <1>3, <1>5, <1>6

LEMMA PlaceKeeps ==
  ASSUME RInv, NEW p \in Proc, Place(p)
  PROVE  RInv'
<1> USE DEF RInv, Place, At, counters, bitmaps, history
<1>1. /\ pc[p] = "place" /\ pc'[p] = "placed" /\ call' = call
      /\ \A q \in Proc \ {p} : pc'[q] = pc[q]
  BY DEF Types, Call
<1>2. /\ call[p].ino \in Ino /\ call[p].blk \in Block
      /\ inode_table'[call[p].ino].i_block = call[p].blk
      /\ inode_table'[call[p].ino].i_blocks = inode_table[call[p].ino].i_blocks
      /\ \A j \in Ino \ {call[p].ino} : inode_table'[j] = inode_table[j]
  BY DEF Types, Call
<1>3. Types'
  BY <1>1, <1>2 DEF Types, Call
<1>4. Calls' /\ Directory' /\ FileInodes' = FileInodes /\ \A q \in Proc : Creates(q)' = Creates(q)
  BY <1>1, AllocatingCalls
<1>5. UNCHANGED <<block_bitmap, raced>>
  OBVIOUS
<1>6. OneHolder'
  BY <1>1, <1>2, <1>5 DEF OneHolder, Holds, Points
<1>7. Marked'
  BY <1>1, <1>2, <1>5 DEF Marked
<1>8. RootBlock'
  <2>1. \A q \in Proc : call[q].ino \in Ino
    BY DEF Types, Call
  <2>2. FileInodes \subseteq Ino
    BY DEF Types, Call, Directory, DirectorySound
  <2>3. Creates(p) => call[p].ino \notin FileInodes
    BY DEF Calls
  <2>4. ~Creates(p) => call[p].blk # 0
    BY <1>1 DEF RootBlock
  <2>5. \A q \in Proc : pc[q] = "placed" /\ ~Creates(q) => call[q].ino \in FileInodes
    BY DEF Calls
  <2>6. QED
    BY <1>1, <1>2, <1>4, <1>5, <2>1, <2>2, <2>3, <2>4, <2>5 DEF RootBlock, HasBlock
<1>9. QED
  BY <1>3, <1>4, <1>6, <1>7, <1>8

\* No block is left: the call returns, and a creation gives the lock back.
LEMMA NoFreeBlockKeeps ==
  ASSUME RInv, NEW p \in Proc, NoFreeBlock(p)
  PROVE  RInv'
<1> USE ProcAssumption DEF RInv, NoFreeBlock, Returned, At, vars, counters, bitmaps, history
<1>1. /\ pc[p] = "test" /\ pc'[p] = "idle" /\ call'[p] = NoCall
      /\ \A q \in Proc \ {p} : pc'[q] = pc[q] /\ call'[q] = call[q]
  BY DEF Types, Call
<1>2. UNCHANGED <<inode_table, entries, inode_bitmap, block_bitmap, raced, nr_free_blocks>>
  OBVIOUS
<1>3. FileInodes' = FileInodes /\ FileNames' = FileNames
  BY <1>2 DEF FileInodes, FileNames
<1>4. Types'
  <2>1. NoCall \in Call
    BY NoCallTyped
  <2>2. QED
    BY <1>2, <2>1 DEF Types, Call
<1>5. Calls'
  BY <1>1, <1>2, <1>3 DEF Calls, Creates, NoCall
<1>6. Directory'
  BY <1>2, <1>3 DEF Directory, DirectorySound
<1>7. OneHolder' /\ Marked' /\ RootBlock'
  BY <1>1, <1>2, <1>3 DEF OneHolder, Holds, Points, Marked, RootBlock, HasBlock, Creates, NoCall
<1>8. QED
  BY <1>4, <1>5, <1>6, <1>7

-----------------------------------------------------------------------------
\* osfs_write: QuietStep is for all its steps.
LEMMA WriteBeginKeeps ==
  ASSUME RInv, NEW p \in Proc, NEW i \in Ino, NEW s \in Strings, WriteBegin(p, i, s)
  PROVE  RInv'
<1>1. /\ pc[p] = "idle" /\ pc' = [pc EXCEPT ![p] = pc'[p]] /\ pc'[p] \in {"test", "aim"}
      /\ call' = [call EXCEPT ![p] = [NoCall EXCEPT !.ino = i, !.str = s]]
  BY DEF RInv, Types, WriteBegin, At
<1>2. /\ call'[p] = [ino |-> i, name |-> Nobody, blk |-> 0, count |-> 0, str |-> s]
      /\ call'[p] \in Call
  <2>1. s \in Seq(Byte)
    BY StringsAssumption
  <2>2. [ino |-> i, name |-> Nobody, blk |-> 0, count |-> 0, str |-> s] \in Call
    BY <2>1, CallTyped
  <2>3. QED
    BY <1>1, <2>2 DEF RInv, Types, NoCall
<1>3. UNCHANGED <<inode_table, inode_bitmap, block_bitmap, entries, dirlock, raced, nr_free_blocks>>
  BY DEF WriteBegin, vars, counters, bitmaps
<1>4. Types'
  BY <1>1, <1>2, <1>3 DEF RInv, Types
<1>5. ~Creates(p) /\ ~Creates(p)'
  <2>1. call'[p].name = Nobody
    BY <1>2
  <2>2. QED
    BY <1>1, <2>1 DEF RInv, Calls, Creates
<1>6. i \in FileInodes
  BY DEF WriteBegin
<1>7. QED
  <2>1. /\ \A q \in Proc \ {p} : pc'[q] = pc[q] /\ call'[q] = call[q]
        /\ pc[p] \notin {"set", "load", "store", "place"}
        /\ pc'[p] \in {"idle", "test", "aim", "copy", "size", "grow"}
    BY <1>1 DEF RInv, Types
  <2>2. call'[p].ino \in FileInodes
    BY <1>2, <1>6
  <2>3. QED
    BY <1>3, <1>4, <1>5, <2>1, <2>2, QuietStep

LEMMA OverlapKeeps ==
  ASSUME RInv, NEW p \in Proc,
         MarkBlocks(p) \/ Aim(p) \/ Copy(p) \/ CopyFault(p) \/ WriteKeepsSize(p)
           \/ WriteGrows(p) \/ SetSize(p)
  PROVE  RInv'
<1> USE DEF RInv
<1>1. /\ pc[p] \in {"placed", "aim", "copy", "size", "grow"} /\ ~Creates(p)
      /\ call[p] \in Call /\ call[p].ino \in FileInodes /\ call[p].name = Nobody
  BY DEF MarkBlocks, Aim, Copy, CopyFault, WriteKeepsSize, WriteGrows, SetSize, Returned, At,
         Types, Calls, Creates
<1>2. /\ pc' = [pc EXCEPT ![p] = pc'[p]] /\ pc'[p] \in {"idle", "aim", "copy", "size", "grow"}
  BY DEF MarkBlocks, Aim, Copy, CopyFault, WriteKeepsSize, WriteGrows, SetSize, Returned, At,
         Types
<1>3. \/ pc'[p] # "idle" /\ call' = call
      \/ pc'[p] # "idle" /\ call' = [call EXCEPT ![p].blk = inode_table[call[p].ino].i_block]
      \/ pc'[p] = "idle" /\ call' = [call EXCEPT ![p] = NoCall]
  BY DEF MarkBlocks, Aim, BlockOf, Copy, CopyFault, WriteKeepsSize, WriteGrows, SetSize, Returned,
         At, Types
<1>4. /\ call'[p] \in Call /\ call' \in [Proc -> Call] /\ call'[p].name = Nobody
      /\ pc'[p] # "idle" => call'[p].ino = call[p].ino
      /\ \A q \in Proc \ {p} : call'[q] = call[q]
  <2>1. CASE call' = call
    BY <1>1, <1>3, <2>1 DEF Types
  <2>2. CASE call' = [call EXCEPT ![p].blk = inode_table[call[p].ino].i_block]
    <3>1. call[p].ino \in Ino /\ inode_table[call[p].ino].i_block \in Block
      BY <1>1 DEF Types, Call
    <3>2. [call[p] EXCEPT !.blk = inode_table[call[p].ino].i_block] \in Call
      BY <1>1, <3>1 DEF Call
    <3>3. /\ call'[p] = [call[p] EXCEPT !.blk = inode_table[call[p].ino].i_block]
          /\ call' \in [Proc -> Call]
      BY <2>2, <3>2 DEF Types
    <3>4. call'[p].ino = call[p].ino /\ call'[p].name = call[p].name
      BY <1>1, <3>3 DEF Call
    <3>5. QED
      BY <1>1, <2>2, <3>2, <3>3, <3>4 DEF Types
  <2>3. CASE pc'[p] = "idle" /\ call' = [call EXCEPT ![p] = NoCall]
    BY <2>3, NoCallTyped DEF Types, NoCall
  <2>4. QED
    BY <1>3, <2>1, <2>2, <2>3
<1>5. /\ UNCHANGED <<inode_bitmap, block_bitmap, entries, dirlock, raced, nr_free_blocks>>
      /\ \/ UNCHANGED inode_table
         \/ /\ pc[p] = "placed"
            /\ inode_table' = [inode_table EXCEPT ![call[p].ino].i_blocks = 1]
         \/ inode_table' = [inode_table EXCEPT ![call[p].ino].i_size = Len(call[p].str)]
  BY DEF MarkBlocks, Aim, Copy, CopyFault, WriteKeepsSize, WriteGrows, SetSize, At, vars, counters,
         bitmaps, history
<1>6. call[p].ino \in Ino /\ Len(call[p].str) \in Nat
  BY <1>1 DEF Call
<1>7. /\ inode_table' \in [Ino -> [i_size : Nat, i_blocks : {0, 1}, i_block : Block]]
      /\ \A i \in Ino : /\ inode_table'[i].i_block = inode_table[i].i_block
                        /\ inode_table'[i].i_blocks = inode_table[i].i_blocks
                           \/ inode_table[i].i_block # 0
  <2>1. pc[p] = "placed" => inode_table[call[p].ino].i_block # 0
    BY <1>1 DEF RootBlock
  <2>2. CASE UNCHANGED inode_table
    BY <2>2 DEF Types
  <2>3. CASE pc[p] = "placed" /\ inode_table' = [inode_table EXCEPT ![call[p].ino].i_blocks = 1]
    BY <1>6, <2>1, <2>3 DEF Types
  <2>4. CASE inode_table' = [inode_table EXCEPT ![call[p].ino].i_size = Len(call[p].str)]
    BY <1>6, <2>4 DEF Types
  <2>5. QED
    BY <1>5, <2>2, <2>3, <2>4
<1>8. Types'
  BY <1>2, <1>4, <1>5, <1>7 DEF Types
<1>9. ~Creates(p)'
  BY <1>4 DEF Creates
<1>10. QED
  BY <1>1, <1>2, <1>4, <1>5, <1>7, <1>8, <1>9, QuietStep DEF Types

LEMMA StepRInv == RInv /\ [RaceNext]_raceVars => RInv'
<1>1. ASSUME RInv, UNCHANGED raceVars PROVE RInv'
  BY <1>1 DEF RInv, Types, Calls, Creates, Directory, DirectorySound, FileInodes, FileNames,
     OneHolder, Holds, Points, Marked, RootBlock, HasBlock, raceVars, vars, counters, bitmaps, locals,
     history
<1>2. ASSUME RInv, NEW f \in Name, CreateRefused(f) PROVE RInv'
  BY <1>1, <1>2 DEF CreateRefused
<1>3. QED
  BY <1>1, <1>2, CreateBeginKeeps, CreateFailsKeeps, CreateEndKeeps, TestBitKeeps, NoFreeBlockKeeps,
     SetBitKeeps, CountKeeps, PlaceKeeps, WriteBeginKeeps, OverlapKeeps
     DEF RaceNext, CreateStep, AllocStep, WriteStep

LEMMA RaceInvariant == RaceSpec => []RInv
BY InitRInv, StepRInv, PTL DEF RaceSpec

\* For any number of processes: two files share a block only if two calls were
\* between test_bit and set_bit at one time, and none has block 0.
THEOREM RaceBlocksApart == RaceSpec => []BlocksApart
<1>1. RInv => BlocksApart
  <2>1. RInv => FileInodes \subseteq Ino
    BY DEF RInv, Types, Directory, DirectorySound
  <2>2. QED
    BY <2>1 DEF RInv, Types, OneHolder, Points, RootBlock, BlocksApart
<1>2. QED
  BY <1>1, RaceInvariant, PTL

\* For any number of processes: overlapping calls leave a directory that names each
\* file once (the VFS's lock around osfs_create).
THEOREM RaceDirectorySound == RaceSpec => []DirectorySound
<1>1. RInv => DirectorySound
  BY DEF RInv, Directory
<1>2. QED
  BY <1>1, RaceInvariant, PTL

-----------------------------------------------------------------------------
\* The count.  Blocks whose bit is set and which nr_free_blocks still has.
Pending == {p \in Proc : pc[p] \in {"load", "store"}}

\* A block that was not raced for is being taken by one process, and free.
TakenOnce ==
  \A p \in Proc : pc[p] = "set" /\ call[p].blk \notin raced =>
    /\ call[p].blk \notin block_bitmap
    /\ \A q \in Proc : Taking(q, call[p].blk) => q = p

\* Until two processes count from one value, the count lags by the blocks pending.
CountLags ==
  raced = {} /\ ~miscounted =>
    /\ nr_free_blocks = BlockCount - Cardinality(block_bitmap) + Cardinality(Pending)
    /\ nr_free_blocks <= BlockCount
    /\ \A p \in Proc : pc[p] = "store" => call[p].count = nr_free_blocks
    /\ \A p, q \in Proc : pc[p] = "store" /\ pc[q] = "store" => p = q

CInv == block_bitmap \subseteq Block /\ IsFiniteSet(Pending) /\ TakenOnce /\ CountLags

LEMMA CountInit == RaceInit => CInv
<1> SUFFICES ASSUME RaceInit PROVE CInv
  OBVIOUS
<1>1. Pending = {} /\ block_bitmap = {} /\ nr_free_blocks = BlockCount
  BY DEF RaceInit, Init, Pending
<1>2. Cardinality(Pending) = 0 /\ Cardinality(block_bitmap) = 0 /\ IsFiniteSet(Pending)
  BY <1>1, FS_EmptySet
<1>3. TakenOnce /\ CountLags
  BY <1>1, <1>2, SizeAssumption DEF TakenOnce, CountLags, RaceInit, Init
<1>4. QED
  BY <1>1, <1>2, <1>3 DEF CInv

\* A step that neither takes nor counts a block.
LEMMA CountStays ==
  ASSUME CInv, UNCHANGED <<block_bitmap, nr_free_blocks>>,
         raced \subseteq raced', miscounted => miscounted',
         \A q \in Proc :
           /\ pc'[q] = "set" => pc[q] = "set" /\ call'[q].blk = call[q].blk
           /\ pc'[q] \in {"load", "store"} <=> pc[q] \in {"load", "store"}
           /\ pc'[q] = "store" => pc[q] = "store" /\ call'[q].count = call[q].count
  PROVE  CInv'
<1>1. Pending' = Pending
  BY DEF Pending
<1>2. TakenOnce'
  BY DEF CInv, TakenOnce, Taking
<1>3. CountLags'
  BY <1>1 DEF CInv, CountLags
<1>4. QED
  BY <1>1, <1>2, <1>3 DEF CInv

LEMMA TestBitCounts ==
  ASSUME RInv, CInv, NEW p \in Proc, NEW b \in Block, TestBit(p, b)
  PROVE  CInv'
<1>1. /\ pc[p] = "test" /\ pc'[p] = "set"
      /\ \A q \in Proc \ {p} : pc'[q] = pc[q] /\ call'[q] = call[q]
  BY DEF TestBit, At, RInv, Types
<1>2. call'[p].blk = b
  BY DEF TestBit, RInv, Types, Call
<1>3. /\ UNCHANGED <<block_bitmap, nr_free_blocks, miscounted>>
      /\ b \notin block_bitmap /\ raced \subseteq raced'
      /\ b \notin raced' => \A q \in Proc : ~Taking(q, b)
  BY DEF TestBit, FirstFreeBlock, vars, counters, bitmaps
<1>4. Pending' = Pending
  BY <1>1 DEF Pending
<1>5. TakenOnce'
  BY <1>1, <1>2, <1>3 DEF CInv, TakenOnce, Taking
<1>6. CountLags'
  BY <1>1, <1>3, <1>4 DEF CInv, CountLags
<1>7. QED
  BY <1>3, <1>4, <1>5, <1>6 DEF CInv

LEMMA SetBitCounts ==
  ASSUME RInv, CInv, NEW p \in Proc, SetBit(p)
  PROVE  CInv'
<1> DEFINE b == call[p].blk
<1>1. /\ pc[p] = "set" /\ pc'[p] = "load" /\ call' = call
      /\ \A q \in Proc \ {p} : pc'[q] = pc[q]
      /\ block_bitmap' = block_bitmap \cup {b}
      /\ UNCHANGED <<nr_free_blocks, raced, miscounted>>
  BY DEF SetBit, At, RInv, Types, counters, history
<1>2. b \in Block
  BY DEF RInv, Types, Call
<1>3. block_bitmap' \subseteq Block
  BY <1>1, <1>2 DEF CInv
<1>4. Pending' = Pending \cup {p} /\ p \notin Pending
  BY <1>1 DEF Pending
<1>5. /\ IsFiniteSet(Pending') /\ Cardinality(Pending') = Cardinality(Pending) + 1
      /\ Cardinality(Pending) \in Nat
  BY <1>4, FS_AddElement, FS_CardinalityType DEF CInv
<1>6. TakenOnce'
  BY <1>1 DEF CInv, TakenOnce, Taking
<1>7. CountLags'
  <2> SUFFICES ASSUME raced = {}, ~miscounted
               PROVE  /\ nr_free_blocks = BlockCount - Cardinality(block_bitmap') + Cardinality(Pending')
                      /\ nr_free_blocks <= BlockCount
                      /\ \A q \in Proc : pc'[q] = "store" => call[q].count = nr_free_blocks
                      /\ \A q, r \in Proc : pc'[q] = "store" /\ pc'[r] = "store" => q = r
    BY <1>1 DEF CountLags
  <2>1. b \notin block_bitmap
    BY <1>1 DEF CInv, TakenOnce
  <2>2. IsFiniteSet(Block)
    BY FS_Interval, SizeAssumption DEF Block
  <2>3. /\ Cardinality(block_bitmap') = Cardinality(block_bitmap) + 1
        /\ Cardinality(block_bitmap) \in Nat
    BY <1>1, <2>1, <2>2, FS_Subset, FS_AddElement, FS_CardinalityType DEF CInv
  <2>4. QED
    BY <1>1, <1>5, <2>3, SizeAssumption DEF CInv, CountLags
<1>8. QED
  BY <1>3, <1>5, <1>6, <1>7 DEF CInv

LEMMA LoadCounts ==
  ASSUME RInv, CInv, NEW p \in Proc, LoadCount(p)
  PROVE  CInv'
<1>1. /\ pc[p] = "load" /\ pc'[p] = "store"
      /\ call' = [call EXCEPT ![p].count = nr_free_blocks]
      /\ \A q \in Proc \ {p} : pc'[q] = pc[q] /\ call'[q] = call[q]
      /\ UNCHANGED <<block_bitmap, nr_free_blocks, raced>>
      /\ miscounted' = (miscounted \/ \E q \in Proc : pc[q] = "store")
  BY DEF LoadCount, At, RInv, Types, vars, counters, bitmaps
<1>2. call'[p].count = nr_free_blocks
  BY <1>1 DEF RInv, Types, Call
<1>3. Pending' = Pending
  BY <1>1 DEF Pending
<1>4. TakenOnce'
  BY <1>1 DEF CInv, TakenOnce, Taking
<1>5. CountLags'
  BY <1>1, <1>2, <1>3 DEF CInv, CountLags
<1>6. QED
  BY <1>1, <1>3, <1>4, <1>5 DEF CInv

LEMMA StoreCounts ==
  ASSUME RInv, CInv, NEW p \in Proc, StoreCount(p)
  PROVE  CInv'
<1>1. /\ pc[p] = "store" /\ pc'[p] = "place"
      /\ \A q \in Proc \ {p} : pc'[q] = pc[q] /\ call'[q] = call[q]
      /\ nr_free_blocks' = Less(call[p].count, 1)
      /\ UNCHANGED <<block_bitmap, raced, miscounted>>
  BY DEF StoreCount, At, RInv, Types, bitmaps, history
<1>2. Pending' = Pending \ {p} /\ p \in Pending
  BY <1>1 DEF Pending
<1>3. /\ IsFiniteSet(Pending') /\ Cardinality(Pending') = Cardinality(Pending) - 1
      /\ Cardinality(Pending) \in Nat /\ Cardinality(Pending) # 0
  BY <1>2, FS_RemoveElement, FS_CardinalityType, FS_EmptySet DEF CInv
<1>4. TakenOnce'
  BY <1>1 DEF CInv, TakenOnce, Taking
<1>5. CountLags'
  <2> SUFFICES ASSUME raced = {}, ~miscounted
               PROVE  /\ nr_free_blocks' = BlockCount - Cardinality(block_bitmap) + Cardinality(Pending')
                      /\ nr_free_blocks' <= BlockCount
                      /\ \A q \in Proc : pc'[q] = "store" => call'[q].count = nr_free_blocks'
                      /\ \A q, r \in Proc : pc'[q] = "store" /\ pc'[r] = "store" => q = r
    BY <1>1 DEF CountLags
  <2>1. /\ nr_free_blocks = BlockCount - Cardinality(block_bitmap) + Cardinality(Pending)
        /\ nr_free_blocks <= BlockCount /\ call[p].count = nr_free_blocks
        /\ \A q \in Proc : pc[q] = "store" => q = p
    BY <1>1 DEF CInv, CountLags
  <2>2. Cardinality(block_bitmap) \in 0 .. BlockCount
    <3>1. IsFiniteSet(Block) /\ Cardinality(Block) = BlockCount
      BY FS_Interval, SizeAssumption DEF Block
    <3>2. QED
      BY <3>1, FS_Subset, FS_CardinalityType, SizeAssumption DEF CInv
  <2>3. nr_free_blocks' = nr_free_blocks - 1
    <3>1. nr_free_blocks - 1 \in 0 .. Word - 1
      BY <1>3, <2>1, <2>2, SizeAssumption
    <3>2. QED
      BY <1>1, <2>1, <3>1, SizeAssumption DEF Less
  <2>4. \A q \in Proc : pc'[q] # "store"
    BY <1>1, <2>1
  <2>5. QED
    BY <1>3, <2>1, <2>2, <2>3, <2>4, SizeAssumption
<1>6. QED
  BY <1>1, <1>3, <1>4, <1>5 DEF CInv

LEMMA CountStep == RInv /\ CInv /\ [RaceNext]_raceVars => CInv'
<1> SUFFICES ASSUME RInv, CInv, [RaceNext]_raceVars PROVE CInv'
  OBVIOUS
<1>1. CASE UNCHANGED raceVars
  BY <1>1, CountStays DEF raceVars, vars, counters, bitmaps, locals, history
<1>2. ASSUME NEW f \in Name, CreateRefused(f) \/ \E i \in Ino : CreateFails(f, i) PROVE CInv'
  BY <1>1, <1>2, CountStays DEF CreateRefused, CreateFails, locals, history
<1>3. ASSUME NEW p \in Proc, CreateStep(p) \/ NoFreeBlock(p) \/ Place(p) PROVE CInv'
  <2>1. /\ UNCHANGED <<block_bitmap, nr_free_blocks, raced, miscounted>>
        /\ pc[p] \in {"idle", "test", "place", "placed"}
        /\ pc'[p] \in {"idle", "test", "placed"}
        /\ \A q \in Proc \ {p} : pc'[q] = pc[q] /\ call'[q] = call[q]
    BY <1>3 DEF CreateStep, CreateBegin, CreateEnd, NoFreeBlock, Place, Returned, At,
                vars, counters, bitmaps, history, RInv, Types
  <2>2. QED
    BY <2>1, CountStays
<1>4. ASSUME NEW p \in Proc, WriteStep(p) PROVE CInv'
  <2>1. /\ UNCHANGED <<block_bitmap, nr_free_blocks, raced, miscounted>>
        /\ pc[p] \in {"idle", "placed", "aim", "copy", "size", "grow"}
        /\ pc'[p] \in {"idle", "test", "aim", "copy", "size", "grow"}
        /\ \A q \in Proc \ {p} : pc'[q] = pc[q] /\ call'[q] = call[q]
    BY <1>4 DEF WriteStep, WriteBegin, MarkBlocks, Aim, Copy, CopyFault, WriteKeepsSize,
                WriteGrows, SetSize, Returned, At, vars, counters, bitmaps, history, RInv, Types
  <2>2. QED
    BY <2>1, CountStays
<1>5. QED
  BY <1>1, <1>2, <1>3, <1>4, TestBitCounts, SetBitCounts, LoadCounts, StoreCounts
     DEF RaceNext, AllocStep

\* For any number of processes: unless two calls take one block or count down
\* from one value, nr_free_blocks is exact when all have returned.
THEOREM RaceCountExact == RaceSpec => []CountExact
<1>1. CInv => CountExact
  <2> SUFFICES ASSUME CInv, \A p \in Proc : pc[p] = "idle", raced = {}, ~miscounted
               PROVE  FreeBlocksExact
    BY DEF CountExact
  <2>1. Cardinality(Pending) = 0
    BY FS_EmptySet DEF Pending
  <2>2. Cardinality(block_bitmap) \in Int
    <3>1. IsFiniteSet(Block)
      BY FS_Interval, SizeAssumption DEF Block
    <3>2. QED
      BY <3>1, FS_Subset, FS_CardinalityType DEF CInv
  <2>3. QED
    BY <2>1, <2>2, SizeAssumption DEF CInv, CountLags, FreeBlocksExact
<1>2. QED
  BY <1>1, CountInit, CountStep, RaceInvariant, PTL DEF RaceSpec

-----------------------------------------------------------------------------
\* The bytes.
Data ==
  /\ data \in [Block -> [Offset -> Byte]]
  /\ told \in [Ino -> [size : Nat, bytes : [Offset -> Byte]]]

\* Nothing is told of an inode that is no file yet.
Untold == \A i \in Ino \ FileInodes : told[i] = Nothing

\* Two writers make a file vague.
OneWriter ==
  \A i \in Ino \ vague : \A p, q \in Proc : Writes(p, i) /\ Writes(q, i) => p = q

\* A writer's file has a block from the time it aims at one.
HasTarget(p) == pc[p] \in {"aim", "copy", "size", "grow"} => HasBlock(call[p].ino)

\* The block a writer aims at, unless raced for, is no call's and no other file's.
Aimed(p) ==
  pc[p] = "copy" /\ call[p].blk \notin raced =>
    /\ call[p].blk # 0 /\ call[p].blk \in block_bitmap
    /\ \A q \in Proc : ~Holds(q, call[p].blk)
    /\ \A j \in Ino : Points(j, call[p].blk) => j = call[p].ino

\* What a writer has learnt of a file that no other writes to still holds.
Alone(p) ==
  call[p].ino \notin vague =>
    /\ pc[p] \in {"test", "set", "load", "store", "place", "placed"} => ~HasBlock(call[p].ino)
    /\ pc[p] = "copy" => Points(call[p].ino, call[p].blk)
    /\ pc[p] = "grow" => Grows(p)

Writers ==
  \A p \in Proc : pc[p] # "idle" /\ ~Creates(p) => HasTarget(p) /\ Aimed(p) /\ Alone(p)

\* Blocks that no file has written to are zero.
Clean ==
  \A b \in Block \ raced : b # 0 =>
    /\ b \notin block_bitmap \/ (\E p \in Proc : Holds(p, b)) => data[b] = Zeros
    /\ (\E i \in FileInodes \ vague : Points(i, b) /\ ~HasBlock(i)) => data[b] = Zeros

\* A file whose writes do not overlap, in a block of its own.
Own(i) == i \in FileInodes \ vague /\ (HasBlock(i) => inode_table[i].i_block \notin raced)

\* p has copied its bytes into file i, and not yet returned.
Copied(p, i) == Writes(p, i) /\ pc[p] \in {"size", "grow"}

KeptAt(i) ==
  /\ Content(i).size = told[i].size
  /\ \/ (\A p \in Proc : ~Copied(p, i)) /\ Content(i).bytes = told[i].bytes
     \/ \E p \in Proc :
          /\ Copied(p, i)
          /\ Content(i).bytes = Overlay(told[i].bytes, 0, call[p].str, Len(call[p].str))

Kept == \A i \in Ino : Own(i) => KeptAt(i)

WInv == Data /\ Untold /\ OneWriter /\ Writers /\ Clean /\ Kept

-----------------------------------------------------------------------------
LEMMA ZerosTyped == Zeros \in [Offset -> Byte] /\ Nothing \in [size : Nat, bytes : [Offset -> Byte]]
BY ByteAssumption DEF Zeros, Nothing

LEMMA WriteInit == RaceInit => WInv
<1> SUFFICES ASSUME RaceInit PROVE WInv
  OBVIOUS
<1> USE DEF RaceInit, Init
<1>1. Data
  BY ZerosTyped DEF Data
<1>2. FileInodes = {}
  BY DEF FileInodes
<1>3. Untold /\ OneWriter /\ Writers
  BY DEF Untold, OneWriter, Writers, Writes
<1>4. Clean
  BY DEF Clean
<1>5. Kept
  BY <1>2 DEF Kept, Own
<1>6. QED
  BY <1>1, <1>3, <1>4, <1>5 DEF WInv

\* What RInv says of calls and files.
LEMMA Known ==
  ASSUME RInv
  PROVE  /\ FileInodes \subseteq Ino
         /\ \A p \in Proc :
              /\ call[p] \in Call /\ call[p].ino \in Ino /\ call[p].blk \in Block
              /\ pc[p] # "idle" /\ ~Creates(p) => call[p].ino \in FileInodes
              /\ Creates(p) => call[p].ino \notin FileInodes
              /\ Creates(p) => pc[p] \in {"test", "set", "load", "store", "place", "placed"}
         /\ \A i \in Ino : /\ inode_table[i].i_block \in Block /\ inode_table[i].i_size \in Nat
                           /\ inode_table[i].i_blocks \in {0, 1}
<1>1. FileInodes \subseteq Ino
  BY DEF RInv, Types, Directory, DirectorySound
<1>2. \A p \in Proc : call[p] \in Call /\ call[p].ino \in Ino /\ call[p].blk \in Block
  BY DEF RInv, Types, Call
<1>3. QED
  BY <1>1, <1>2 DEF RInv, Calls, Types

LEMMA KeptStays ==
  ASSUME NEW i \in Ino, KeptAt(i), Content(i)' = Content(i), told'[i] = told[i],
         \A q \in Proc : /\ Copied(q, i)' <=> Copied(q, i)
                         /\ Copied(q, i) => call'[q].str = call[q].str
  PROVE  KeptAt(i)'
BY DEF KeptAt

\* A step of osfs_alloc_data_block before *block_no = i.
LEMMA AllocWrites ==
  ASSUME RInv, WInv, NEW p \in Proc,
         UNCHANGED <<data, told, vague, inode_table, entries>>,
         raced \subseteq raced', block_bitmap \subseteq block_bitmap',
         \A q \in Proc \ {p} : pc'[q] = pc[q] /\ call'[q] = call[q],
         pc[p] \in {"test", "set", "load", "store"},
         \/ pc'[p] = "idle" /\ call'[p] = NoCall
         \/ /\ pc'[p] \in {"set", "load", "store", "place"}
            /\ call'[p].ino = call[p].ino /\ call'[p].name = call[p].name,
         \A b \in Block \ raced', q \in Proc :
            Holds(q, b)' => Holds(q, b) \/ b \notin block_bitmap
  PROVE  WInv'
<1> USE DEF WInv
<1>1. FileInodes' = FileInodes
  BY DEF FileInodes
<1>2. ASSUME NEW q \in Proc, NEW i \in Ino
      PROVE  /\ Writes(q, i)' => Writes(q, i)
             /\ Copied(q, i)' <=> Copied(q, i)
             /\ Copied(q, i) => q # p
  BY DEF Writes, Creates, Copied, NoCall
<1>3. Data' /\ Untold' /\ OneWriter'
  BY <1>1, <1>2 DEF Data, Untold, OneWriter
<1>4. Writers'
  <2> SUFFICES ASSUME NEW q \in Proc, pc'[q] # "idle", ~Creates(q)'
               PROVE  HasTarget(q)' /\ Aimed(q)' /\ Alone(q)'
    BY DEF Writers
  <2>1. pc[q] # "idle" /\ ~Creates(q) /\ call'[q].ino = call[q].ino
    BY DEF Creates, NoCall
  <2>2. HasTarget(q) /\ Aimed(q) /\ Alone(q)
    BY <2>1 DEF Writers
  <2>3. CASE q = p
    BY <2>1, <2>2, <2>3 DEF HasTarget, Aimed, Alone, HasBlock
  <2>4. CASE q # p
    <3>1. pc'[q] = pc[q] /\ call'[q] = call[q] /\ call[q].blk \in Block
      BY <2>4, Known
    <3>2. HasTarget(q)'
      BY <2>2, <3>1 DEF HasTarget, HasBlock
    <3>3. Aimed(q)'
      BY <2>2, <3>1 DEF Aimed, Points
    <3>4. Alone(q)'
      BY <2>2, <3>1 DEF Alone, Points, HasBlock, Grows
    <3>5. QED
      BY <3>2, <3>3, <3>4
  <2>5. QED
    BY <2>3, <2>4
<1>5. Clean'
  BY <1>1 DEF Clean, Points, HasBlock
<1>6. Kept'
  <2> SUFFICES ASSUME NEW i \in Ino, Own(i)' PROVE KeptAt(i)'
    BY DEF Kept
  <2>1. Own(i)
    BY <1>1 DEF Own, HasBlock
  <2>2. QED
    BY <1>2, <2>1, KeptStays DEF Kept, Content, HasBlock
<1>7. QED
  BY <1>3, <1>4, <1>5, <1>6

LEMMA AllocStepWrites ==
  ASSUME RInv, WInv, NEW p \in Proc,
         \/ \E b \in Block : TestBit(p, b)
         \/ NoFreeBlock(p) \/ SetBit(p) \/ LoadCount(p) \/ StoreCount(p)
  PROVE  WInv'
<1>1. /\ UNCHANGED <<data, told, vague, inode_table, entries>>
      /\ raced \subseteq raced' /\ block_bitmap \subseteq block_bitmap'
      /\ \A q \in Proc \ {p} : pc'[q] = pc[q] /\ call'[q] = call[q]
      /\ pc[p] \in {"test", "set", "load", "store"}
  BY DEF TestBit, NoFreeBlock, SetBit, LoadCount, StoreCount, Returned, At, vars, counters,
         bitmaps, history, RInv, Types
<1>2. \/ pc'[p] = "idle" /\ call'[p] = NoCall
      \/ /\ pc'[p] \in {"set", "load", "store", "place"}
         /\ call'[p].ino = call[p].ino /\ call'[p].name = call[p].name
  BY DEF TestBit, NoFreeBlock, SetBit, LoadCount, StoreCount, Returned, At, RInv, Types, Call
<1>3. \A b \in Block \ raced', q \in Proc : Holds(q, b)' => Holds(q, b) \/ b \notin block_bitmap
  <2>1. CASE \E b \in Block : TestBit(p, b)
    <3>1. PICK b \in Block : TestBit(p, b)
      BY <2>1
    <3>2. call'[p].blk = b /\ b \notin block_bitmap
      BY <3>1 DEF TestBit, FirstFreeBlock, RInv, Types, Call
    <3>3. QED
      BY <1>1, <3>2 DEF Holds
  <2>2. CASE NoFreeBlock(p)
    BY <1>1, <2>2 DEF Holds, NoFreeBlock, Returned, At, RInv, Types
  <2>3. CASE SetBit(p) \/ LoadCount(p) \/ StoreCount(p)
    <3>1. pc[p] \in {"set", "load", "store"} /\ call'[p].blk = call[p].blk
      BY <2>3 DEF SetBit, LoadCount, StoreCount, At, RInv, Types, Call
    <3>2. QED
      BY <1>1, <3>1 DEF Holds
  <2>4. QED
    BY <2>1, <2>2, <2>3
<1>4. QED
  BY <1>1, <1>2, <1>3, AllocWrites

\* A step of a creation, or of no call at all, that changes only an inode no file
\* has; CreateEnd makes a file of it, with nothing in it.
LEMMA CreationWrites ==
  ASSUME RInv, WInv, NEW new \in Ino, new \notin FileInodes,
         FileInodes \subseteq FileInodes', FileInodes' \subseteq FileInodes \cup {new},
         new \in FileInodes' => inode_table'[new] = NewInode,
         \A i \in Ino \ {new} : inode_table'[i] = inode_table[i],
         UNCHANGED <<data, told, vague, raced, block_bitmap>>,
         \A q \in Proc : /\ Creates(q) \/ pc[q] = "idle" <=> Creates(q)' \/ pc'[q] = "idle"
                         /\ ~Creates(q) /\ pc[q] # "idle" => pc'[q] = pc[q] /\ call'[q] = call[q],
         \A b \in Block, q \in Proc : Holds(q, b)' => Holds(q, b),
         \A b \in Block : b # 0 /\ Points(new, b)' =>
            b \in raced \/ (\E q \in Proc : Creates(q) /\ Holds(q, b)) \/ Points(new, b)
  PROVE  WInv'
<1> USE DEF WInv
<1>1. ASSUME NEW q \in Proc, NEW i \in Ino
      PROVE  /\ Writes(q, i)' <=> Writes(q, i)
             /\ Copied(q, i)' <=> Copied(q, i)
             /\ Copied(q, i) => call'[q] = call[q]
  BY DEF Writes, Copied
<1>2. FileInodes \subseteq Ino
  BY Known
<1>3. Data' /\ Untold' /\ OneWriter'
  BY <1>1 DEF Data, Untold, OneWriter
<1>4. Writers'
  <2> SUFFICES ASSUME NEW q \in Proc, pc'[q] # "idle", ~Creates(q)'
               PROVE  HasTarget(q)' /\ Aimed(q)' /\ Alone(q)'
    BY DEF Writers
  <2>1. /\ pc'[q] = pc[q] /\ call'[q] = call[q] /\ pc[q] # "idle" /\ ~Creates(q)
        /\ call[q].ino \in FileInodes /\ call[q].ino \in Ino \ {new} /\ call[q].blk \in Block
    BY Known
  <2>2. HasTarget(q) /\ Aimed(q) /\ Alone(q)
    BY <2>1 DEF Writers
  <2>3. HasTarget(q)'
    BY <2>1, <2>2 DEF HasTarget, HasBlock
  <2>4. Aimed(q)'
    BY <2>1, <2>2 DEF Aimed, Points
  <2>5. Alone(q)'
    BY <2>1, <2>2 DEF Alone, Points, HasBlock, Grows
  <2>6. QED
    BY <2>3, <2>4, <2>5
<1>5. Clean'
  BY <1>2 DEF Clean, Points, HasBlock, NewInode
<1>6. Kept'
  <2> SUFFICES ASSUME NEW i \in Ino, Own(i)' PROVE KeptAt(i)'
    BY DEF Kept
  <2>1. CASE i = new
    <3>1. Content(i)' = Nothing
      BY <2>1 DEF Own, Content, HasBlock, NewInode, Nothing
    <3>2. told'[i] = Nothing
      BY <2>1 DEF Untold
    <3>3. \A q \in Proc : ~Copied(q, i)'
      BY <1>1, <2>1, Known DEF Copied, Writes
    <3>4. QED
      BY <3>1, <3>2, <3>3 DEF KeptAt, Nothing
  <2>2. CASE i # new
    <3>1. Own(i) /\ inode_table'[i] = inode_table[i]
      BY <2>2 DEF Own, HasBlock
    <3>2. QED
      BY <1>1, <3>1, KeptStays DEF Kept, Content, HasBlock
  <2>3. QED
    BY <2>1, <2>2
<1>7. QED
  BY <1>3, <1>4, <1>5, <1>6

LEMMA CreateWrites ==
  ASSUME RInv, RInv', WInv, NEW p \in Proc, CreateStep(p) \/ (Creates(p) /\ Place(p))
  PROVE  WInv'
<1>1. CASE \E f \in Name, i \in Ino : CreateBegin(p, f, i)
  <2>1. PICK f \in Name, i \in Ino : CreateBegin(p, f, i)
    BY <1>1
  <2>2. /\ pc[p] = "idle" /\ pc'[p] = "test" /\ call'[p].name = f
        /\ \A q \in Proc \ {p} : pc'[q] = pc[q] /\ call'[q] = call[q]
        /\ UNCHANGED <<data, told, vague, raced, block_bitmap, entries>>
    BY <2>1 DEF CreateBegin, At, history, NoCall, RInv, Types
  <2>3. i \notin FileInodes /\ FileInodes' = FileInodes
    BY <2>1, <2>2 DEF CreateBegin, FirstFreeInode, RInv, Directory, DirectorySound, FileInodes
  <2>4. inode_table'[i].i_block = 0 /\ \A j \in Ino \ {i} : inode_table'[j] = inode_table[j]
    BY <2>1 DEF CreateBegin, NewInode, RInv, Types
  <2>5. Creates(p)'
    BY <2>2, ProcAssumption DEF Creates
  <2>6. QED
    BY <2>2, <2>3, <2>4, <2>5, CreationWrites DEF Creates, Holds, Points
<1>2. CASE CreateEnd(p)
  <2> DEFINE i == call[p].ino
  <2>1. /\ pc[p] = "placed" /\ pc'[p] = "idle" /\ Creates(p)
        /\ \A q \in Proc \ {p} : pc'[q] = pc[q] /\ call'[q] = call[q]
        /\ UNCHANGED <<data, told, vague, raced, block_bitmap>>
    BY <1>2 DEF CreateEnd, Returned, At, history, bitmaps, RInv, Types
  <2>2. i \in Ino /\ i \notin FileInodes
    BY <2>1, Known
  <2>3. inode_table'[i] = NewInode /\ \A j \in Ino \ {i} : inode_table'[j] = inode_table[j]
    BY <1>2, <2>2 DEF CreateEnd, RInv, Types
  <2>4. FileInodes \subseteq FileInodes' /\ FileInodes' \subseteq FileInodes \cup {i}
    <3>1. CASE entries' = entries
      BY <3>1 DEF FileInodes
    <3>2. CASE entries' = Append(entries, [filename |-> call[p].name, inode_no |-> i])
      <4>1. entries \in Seq([filename : Name, inode_no : Ino])
        BY DEF RInv, Types
      <4>2. /\ DOMAIN entries = 1 .. Len(entries) /\ Len(entries) \in Nat
            /\ DOMAIN entries' = 1 .. Len(entries) + 1
            /\ entries'[Len(entries) + 1].inode_no = i
            /\ \A k \in 1 .. Len(entries) : entries'[k] = entries[k]
        BY <3>2, <4>1
      <4>3. QED
        BY <4>2 DEF FileInodes
    <3>3. QED
      BY <1>2, <3>1, <3>2 DEF CreateEnd
  <2>5. QED
    BY <2>1, <2>2, <2>3, <2>4, CreationWrites DEF Creates, Holds, Points, NewInode
<1>3. CASE Creates(p) /\ Place(p)
  <2> DEFINE i == call[p].ino
  <2>1. /\ pc[p] = "place" /\ pc'[p] = "placed" /\ call' = call
        /\ \A q \in Proc \ {p} : pc'[q] = pc[q]
        /\ UNCHANGED <<data, told, vague, raced, block_bitmap, entries>>
    BY <1>3 DEF Place, At, history, bitmaps, RInv, Types
  <2>2. i \in Ino /\ i \notin FileInodes /\ FileInodes' = FileInodes
    BY <1>3, <2>1, Known DEF FileInodes
  <2>3. /\ inode_table'[i].i_block = call[p].blk
        /\ \A j \in Ino \ {i} : inode_table'[j] = inode_table[j]
    BY <1>3, <2>2 DEF Place, RInv, Types
  <2>4. QED
    BY <1>3, <2>1, <2>2, <2>3, CreationWrites DEF Creates, Holds, Points
<1>4. QED
  BY <1>1, <1>2, <1>3 DEF CreateStep


LEMMA OverlayTyped ==
  ASSUME NEW old \in [Offset -> Byte], NEW s \in Seq(Byte)
  PROVE  /\ Overlay(old, 0, s, Len(s)) \in [Offset -> Byte]
         /\ [o \in Offset |-> IF o < Len(s) THEN 0 ELSE old[o]] \in [Offset -> Byte]
<1>1. Len(s) \in Nat
  OBVIOUS
<1>2. \A o \in Offset : o \in Int
  BY SizeAssumption DEF Offset
<1>3. ASSUME NEW o \in Offset, o \in 0 .. 0 + Len(s) - 1 PROVE s[o - 0 + 1] \in Byte
  <2>1. o - 0 + 1 \in 1 .. Len(s)
    BY <1>1, <1>2, <1>3
  <2>2. QED
    BY <2>1, ElementOfSeq
<1>4. QED
  BY <1>3, ByteAssumption DEF Overlay

\* The other calls, while a write of p to file i changes at most i's inode.
LEMMA OthersWrite ==
  ASSUME RInv, WInv, NEW p \in Proc, NEW i \in Ino, NEW q \in Proc \ {p},
         pc'[q] = pc[q], call'[q] = call[q],
         vague \subseteq vague', raced' = raced, block_bitmap' = block_bitmap,
         \A j \in Ino \ {i} : inode_table'[j] = inode_table[j],
         HasBlock(i) => HasBlock(i)',
         Writes(q, i) => i \in vague',
         \A b \in Block \ raced, r \in Proc : Holds(r, b)' => Holds(r, b),
         \A b \in Block : Points(i, b)' => Points(i, b) \/ \E r \in Proc : Holds(r, b),
         pc'[q] # "idle", ~Creates(q)'
  PROVE  HasTarget(q)' /\ Aimed(q)' /\ Alone(q)'
<1>1. /\ pc[q] # "idle" /\ ~Creates(q)
      /\ call[q].ino \in Ino /\ call[q].blk \in Block
  BY Known DEF Creates
<1>2. HasTarget(q) /\ Aimed(q) /\ Alone(q)
  BY <1>1 DEF WInv, Writers
<1>3. HasTarget(q)'
  BY <1>1, <1>2 DEF HasTarget, HasBlock
<1>4. Aimed(q)'
  BY <1>1, <1>2 DEF Aimed, Points
<1>5. Alone(q)'
  <2>1. ASSUME call[q].ino \notin vague' PROVE call[q].ino \in Ino \ {i}
    BY <1>1, <2>1 DEF Writes
  <2>2. QED
    BY <1>1, <1>2, <2>1 DEF Alone, Points, HasBlock, Grows
<1>6. QED
  BY <1>3, <1>4, <1>5

\* *block_no = i for a write: no byte is in the file yet, and the block is zero.
LEMMA PlaceWrites ==
  ASSUME RInv, WInv, NEW p \in Proc, Place(p), ~Creates(p)
  PROVE  WInv'
<1> DEFINE i == call[p].ino
<1> USE DEF WInv
<1>1. /\ pc[p] = "place" /\ pc'[p] = "placed" /\ call' = call
      /\ \A q \in Proc \ {p} : pc'[q] = pc[q]
      /\ UNCHANGED <<data, told, vague, raced, block_bitmap, entries>>
  BY DEF Place, At, history, bitmaps, RInv, Types
<1>2. i \in FileInodes /\ i \in Ino /\ FileInodes' = FileInodes /\ call[p].blk \in Block
  BY <1>1, Known DEF FileInodes
<1>3. /\ inode_table'[i].i_block = call[p].blk
      /\ inode_table'[i].i_blocks = inode_table[i].i_blocks
      /\ inode_table'[i].i_size = inode_table[i].i_size
      /\ \A j \in Ino \ {i} : inode_table'[j] = inode_table[j]
  BY <1>2 DEF Place, RInv, Types
<1>4. /\ \A q \in Proc, j \in Ino : /\ Writes(q, j)' <=> Writes(q, j)
                                    /\ Copied(q, j)' <=> Copied(q, j)
      /\ \A q \in Proc : Creates(q)' <=> Creates(q)
      /\ \A q \in Proc, b \in Block : Holds(q, b)' => Holds(q, b)
      /\ \A j \in Ino : HasBlock(j)' <=> HasBlock(j)
      /\ Holds(p, call[p].blk) /\ Writes(p, i)
  BY <1>1, <1>2, <1>3 DEF Writes, Copied, Creates, Holds, HasBlock
<1>5. Data' /\ Untold' /\ OneWriter'
  BY <1>1, <1>2, <1>4 DEF Data, Untold, OneWriter
<1>6. i \notin vague => ~HasBlock(i)
  BY <1>1 DEF Writers, Alone
<1>7. Writers'
  <2> SUFFICES ASSUME NEW q \in Proc, pc'[q] # "idle", ~Creates(q)'
               PROVE  HasTarget(q)' /\ Aimed(q)' /\ Alone(q)'
    BY DEF Writers
  <2>1. CASE q = p
    BY <1>1, <1>3, <1>6, <2>1 DEF HasTarget, Aimed, Alone, HasBlock
  <2>2. CASE q # p
    <3>1. Writes(q, i) => i \in vague
      BY <1>2, <1>4, <2>2 DEF OneWriter
    <3>2. \A b \in Block : Points(i, b)' => \E r \in Proc : Holds(r, b)
      BY <1>1, <1>3 DEF Points, Holds
    <3>3. QED
      BY <1>1, <1>2, <1>3, <1>4, <2>2, <3>1, <3>2, OthersWrite
  <2>3. QED
    BY <2>1, <2>2
<1>8. Clean'
  BY <1>1, <1>2, <1>3, <1>4, Known DEF Clean, Points
<1>9. Kept'
  <2> SUFFICES ASSUME NEW j \in Ino, Own(j)' PROVE KeptAt(j)'
    BY DEF Kept
  <2>1. CASE j = i
    <3>1. ~HasBlock(i) /\ Own(i)
      BY <1>1, <1>2, <1>4, <1>6, <2>1 DEF Own
    <3>2. Content(i)' = Content(i)
      BY <1>1, <1>3, <3>1 DEF Content, HasBlock
    <3>3. QED
      BY <1>1, <1>4, <2>1, <3>1, <3>2, KeptStays DEF Kept
  <2>2. CASE j # i
    <3>1. Own(j) /\ Content(j)' = Content(j)
      BY <1>1, <1>2, <1>3, <1>4, <2>2 DEF Own, Content
    <3>2. QED
      BY <1>1, <1>4, <3>1, KeptStays DEF Kept
  <2>3. QED
    BY <2>1, <2>2
<1>10. QED
  BY <1>5, <1>7, <1>8, <1>9

\* i_blocks = 1: the block that becomes the file's is zero.
LEMMA MarkWrites ==
  ASSUME RInv, WInv, NEW p \in Proc, MarkBlocks(p)
  PROVE  WInv'
<1> DEFINE i == call[p].ino
<1> USE DEF WInv
<1>1. /\ pc[p] = "placed" /\ pc'[p] = "aim" /\ call' = call /\ ~Creates(p)
      /\ \A q \in Proc \ {p} : pc'[q] = pc[q]
      /\ UNCHANGED <<data, told, vague, raced, block_bitmap, entries>>
  BY DEF MarkBlocks, At, history, bitmaps, RInv, Types
<1>2. i \in FileInodes /\ i \in Ino /\ FileInodes' = FileInodes
  BY <1>1, Known DEF FileInodes
<1>3. /\ inode_table'[i].i_block = inode_table[i].i_block
      /\ inode_table'[i].i_blocks = 1
      /\ inode_table'[i].i_size = inode_table[i].i_size
      /\ \A j \in Ino \ {i} : inode_table'[j] = inode_table[j]
  BY <1>2 DEF MarkBlocks, RInv, Types
<1>4. /\ \A q \in Proc, j \in Ino : /\ Writes(q, j)' <=> Writes(q, j)
                                    /\ Copied(q, j)' <=> Copied(q, j)
      /\ \A q \in Proc : Creates(q)' <=> Creates(q)
      /\ \A q \in Proc, b \in Block : Holds(q, b)' <=> Holds(q, b)
      /\ \A j \in Ino, b \in Block : Points(j, b)' <=> Points(j, b)
      /\ HasBlock(i)' /\ \A j \in Ino \ {i} : HasBlock(j)' <=> HasBlock(j)
      /\ Writes(p, i)
  BY <1>1, <1>2, <1>3 DEF Writes, Copied, Creates, Holds, HasBlock, Points
<1>5. Data' /\ Untold' /\ OneWriter'
  BY <1>1, <1>2, <1>4 DEF Data, Untold, OneWriter
<1>6. i \notin vague => ~HasBlock(i)
  BY <1>1 DEF Writers, Alone
<1>7. Writers'
  <2> SUFFICES ASSUME NEW q \in Proc, pc'[q] # "idle", ~Creates(q)'
               PROVE  HasTarget(q)' /\ Aimed(q)' /\ Alone(q)'
    BY DEF Writers
  <2>1. CASE q = p
    BY <1>1, <1>4, <2>1 DEF HasTarget, Aimed, Alone
  <2>2. CASE q # p
    <3>1. Writes(q, i) => i \in vague
      BY <1>2, <1>4, <2>2 DEF OneWriter
    <3>2. QED
      BY <1>1, <1>2, <1>3, <1>4, <2>2, <3>1, OthersWrite
  <2>3. QED
    BY <2>1, <2>2
<1>8. Clean'
  <2>1. \A j \in FileInodes : ~HasBlock(j)' => ~HasBlock(j)
    BY <1>2, <1>3, Known DEF HasBlock
  <2>2. QED
    BY <1>1, <1>2, <1>4, <2>1, Known DEF Clean
<1>9. Kept'
  <2> SUFFICES ASSUME NEW j \in Ino, Own(j)' PROVE KeptAt(j)'
    BY DEF Kept
  <2>1. CASE j = i
    <3>1. ~HasBlock(i) /\ Own(i) /\ inode_table[i].i_block \in Block \ raced
      BY <1>1, <1>2, <1>3, <1>4, <1>6, <2>1, Known DEF Own
    <3>2. inode_table[i].i_block # 0
      BY <1>1 DEF RInv, RootBlock
    <3>3. data[inode_table[i].i_block] = Zeros
      BY <3>1, <3>2 DEF Clean, Own, Points
    <3>4. Content(i)' = Content(i)
      BY <1>1, <1>3, <1>4, <3>1, <3>3 DEF Content
    <3>5. QED
      BY <1>1, <1>4, <2>1, <3>1, <3>4, KeptStays DEF Kept
  <2>2. CASE j # i
    <3>1. Own(j) /\ Content(j)' = Content(j)
      BY <1>1, <1>2, <1>3, <1>4, <2>2 DEF Own, Content
    <3>2. QED
      BY <1>1, <1>4, <3>1, KeptStays DEF Kept
  <2>3. QED
    BY <2>1, <2>2
<1>10. QED
  BY <1>5, <1>7, <1>8, <1>9

\* data_block = ...: the block is the file's own, unless it was raced for.
LEMMA AimWrites ==
  ASSUME RInv, WInv, NEW p \in Proc, Aim(p)
  PROVE  WInv'
<1> DEFINE i == call[p].ino
<1> USE DEF WInv
<1>1. /\ pc[p] = "aim" /\ pc'[p] = "copy" /\ ~Creates(p)
      /\ \A q \in Proc \ {p} : pc'[q] = pc[q] /\ call'[q] = call[q]
      /\ UNCHANGED <<data, told, vague, raced, block_bitmap, entries, inode_table>>
  BY Known DEF Aim, At, history, vars, bitmaps, RInv, Types
<1>2. i \in FileInodes /\ i \in Ino /\ FileInodes' = FileInodes
  BY <1>1, Known DEF FileInodes
<1>3. /\ call'[p].ino = i /\ call'[p].name = call[p].name
      /\ call'[p].blk = inode_table[i].i_block /\ call'[p].blk \in Block
  BY <1>2, Known DEF Aim, BlockOf, RInv, Types, Call
<1>4. /\ \A q \in Proc, j \in Ino : /\ Writes(q, j)' <=> Writes(q, j)
                                    /\ Copied(q, j)' <=> Copied(q, j)
                                    /\ Copied(q, j) => q # p
      /\ \A q \in Proc : Creates(q)' <=> Creates(q)
      /\ \A q \in Proc, b \in Block : Holds(q, b)' <=> Holds(q, b)
      /\ \A j \in Ino, b \in Block : Points(j, b)' <=> Points(j, b)
      /\ \A j \in Ino : HasBlock(j)' <=> HasBlock(j)
      /\ Writes(p, i) /\ Points(i, call'[p].blk)
  BY <1>1, <1>2, <1>3 DEF Writes, Copied, Creates, Holds, HasBlock, Points
<1>5. Data' /\ Untold' /\ OneWriter'
  BY <1>1, <1>2, <1>4 DEF Data, Untold, OneWriter
<1>6. HasBlock(i)
  BY <1>1 DEF Writers, HasTarget
<1>7. call'[p].blk # 0 /\ call'[p].blk \in block_bitmap
  BY <1>2, <1>3, <1>6 DEF RInv, RootBlock, Marked
<1>8. Writers'
  <2> SUFFICES ASSUME NEW q \in Proc, pc'[q] # "idle", ~Creates(q)'
               PROVE  HasTarget(q)' /\ Aimed(q)' /\ Alone(q)'
    BY DEF Writers
  <2>1. CASE q = p
    <3>1. HasTarget(q)' /\ Alone(q)'
      BY <1>1, <1>3, <1>6, <2>1 DEF HasTarget, Alone, HasBlock, Points
    <3>2. Aimed(q)'
      <4>1. SUFFICES ASSUME call'[p].blk \notin raced PROVE Aimed(p)'
        BY <1>1, <2>1 DEF Aimed
      <4>2. \A r \in Proc : ~Holds(r, call'[p].blk)
        BY <1>2, <1>3, <1>4, <1>7, <4>1 DEF RInv, OneHolder
      <4>3. \A j \in Ino : Points(j, call'[p].blk) => j = i
        BY <1>2, <1>3, <1>4, <1>7, <4>1 DEF RInv, OneHolder
      <4>4. \A r \in Proc : ~Holds(r, call[p].blk)'
        BY <1>1, <4>2 DEF Holds
      <4>5. \A j \in Ino : Points(j, call[p].blk)' => j = i
        BY <1>1, <4>3 DEF Points
      <4>6. QED
        BY <1>1, <1>3, <1>7, <4>4, <4>5 DEF Aimed
    <3>3. QED
      BY <3>1, <3>2
  <2>2. CASE q # p
    <3>1. Writes(q, i) => i \in vague
      BY <1>2, <1>4, <2>2 DEF OneWriter
    <3>2. QED
      BY <1>1, <1>2, <1>4, <2>2, <3>1, OthersWrite
  <2>3. QED
    BY <2>1, <2>2
<1>9. Clean'
  BY <1>1, <1>2, <1>4, Known DEF Clean
<1>10. Kept'
  <2> SUFFICES ASSUME NEW j \in Ino, Own(j)' PROVE KeptAt(j)'
    BY DEF Kept
  <2>1. Own(j) /\ Content(j)' = Content(j)
    BY <1>1, <1>2 DEF Own, Content, HasBlock
  <2>2. QED
    BY <1>1, <1>4, <2>1, KeptStays DEF Kept
<1>11. QED
  BY <1>5, <1>8, <1>9, <1>10

\* What a write of p does to the bytes of its block b changes no other file, and no
\* block that is to be zero.
LEMMA OnlyOwnBytes ==
  ASSUME RInv, WInv, NEW p \in Proc, pc[p] = "copy",
         UNCHANGED <<raced, block_bitmap, entries, inode_table>>, vague \subseteq vague',
         \A b \in Block \ {call[p].blk} : data'[b] = data[b],
         \A q \in Proc, b \in Block : Holds(q, b)' => Holds(q, b)
  PROVE  /\ Clean'
         /\ \A j \in Ino \ {call[p].ino} : Own(j) => Content(j)' = Content(j)
<1>1. ~Creates(p) /\ call[p].ino \in FileInodes /\ call[p].blk \in Block /\ FileInodes' = FileInodes
  BY Known DEF FileInodes
<1>2. HasBlock(call[p].ino) /\ Aimed(p)
  BY <1>1 DEF WInv, Writers, HasTarget
<1>3. Clean'
  <2> SUFFICES ASSUME NEW b \in Block \ raced, b # 0
               PROVE  /\ b \notin block_bitmap \/ (\E q \in Proc : Holds(q, b)') => data'[b] = Zeros
                      /\ (\E i \in FileInodes \ vague' : Points(i, b)' /\ ~HasBlock(i)')
                           => data'[b] = Zeros
    BY <1>1 DEF Clean
  <2>1. CASE b = call[p].blk
    BY <1>1, <1>2, <2>1, Known DEF Aimed, Points, HasBlock
  <2>2. CASE b # call[p].blk
    <3>1. data'[b] = data[b]
      BY <2>2
    <3>2. /\ b \notin block_bitmap \/ (\E q \in Proc : Holds(q, b)) => data[b] = Zeros
          /\ (\E i \in FileInodes \ vague : Points(i, b) /\ ~HasBlock(i)) => data[b] = Zeros
      BY DEF WInv, Clean
    <3>3. \A i \in Ino : (Points(i, b)' <=> Points(i, b)) /\ (HasBlock(i)' <=> HasBlock(i))
      BY DEF Points, HasBlock
    <3>4. QED
      BY <3>1, <3>2, <3>3, Known
  <2>3. QED
    BY <2>1, <2>2
<1>4. ASSUME NEW j \in Ino \ {call[p].ino}, Own(j) PROVE Content(j)' = Content(j)
  <2>1. CASE HasBlock(j)
    <3>1. inode_table[j].i_block \in Block /\ inode_table[j].i_block \notin raced
      BY <1>4, <2>1, Known DEF Own
    <3>2. inode_table[j].i_block # call[p].blk
      BY <1>2, <3>1 DEF Aimed, Points
    <3>3. QED
      BY <2>1, <3>1, <3>2 DEF Content, HasBlock
  <2>2. CASE ~HasBlock(j)
    BY <2>2 DEF Content, HasBlock
  <2>3. QED
    BY <2>1, <2>2
<1>5. QED
  BY <1>3, <1>4

\* copy_from_user: the file's bytes are what it was told, with this write over them.
LEMMA CopyWrites ==
  ASSUME RInv, WInv, NEW p \in Proc, Copy(p)
  PROVE  WInv'
<1> DEFINE i == call[p].ino
           b == call[p].blk
           s == call[p].str
<1> USE DEF WInv
<1>1. /\ pc[p] = "copy" /\ pc'[p] = "size" /\ call' = call /\ ~Creates(p)
      /\ \A q \in Proc \ {p} : pc'[q] = pc[q]
      /\ UNCHANGED <<told, vague, raced, block_bitmap, entries, inode_table>>
  BY Known DEF Copy, At, history, bitmaps, RInv, Types
<1>2. /\ i \in FileInodes /\ i \in Ino /\ FileInodes' = FileInodes /\ b \in Block
      /\ s \in Seq(Byte)
  BY <1>1, Known DEF FileInodes, Call
<1>3. /\ data'[b] = Overlay(data[b], 0, s, Len(s))
      /\ \A c \in Block \ {b} : data'[c] = data[c]
      /\ data' \in [Block -> [Offset -> Byte]]
  <2>1. data \in [Block -> [Offset -> Byte]] /\ data[b] \in [Offset -> Byte]
    BY <1>2 DEF Data
  <2>2. Overlay(data[b], 0, s, Len(s)) \in [Offset -> Byte]
    BY <1>2, <2>1, OverlayTyped
  <2>3. data' = [data EXCEPT ![b] = Overlay(data[b], 0, s, Len(s))]
    BY DEF Copy
  <2>4. QED
    BY <1>2, <2>1, <2>2, <2>3
<1>4. /\ \A q \in Proc, j \in Ino : /\ Writes(q, j)' <=> Writes(q, j)
                                    /\ q # p \/ j # i => (Copied(q, j)' <=> Copied(q, j))
                                    /\ Copied(q, j) => q # p
      /\ \A q \in Proc : Creates(q)' <=> Creates(q)
      /\ \A q \in Proc, c \in Block : Holds(q, c)' <=> Holds(q, c)
      /\ \A j \in Ino, c \in Block : Points(j, c)' <=> Points(j, c)
      /\ \A j \in Ino : HasBlock(j)' <=> HasBlock(j)
      /\ Writes(p, i) /\ Copied(p, i)'
  BY <1>1, <1>2 DEF Writes, Copied, Creates, Holds, HasBlock, Points
<1>5. Data' /\ Untold' /\ OneWriter'
  BY <1>1, <1>2, <1>3, <1>4 DEF Data, Untold, OneWriter
<1>6. HasBlock(i) /\ Aimed(p) /\ (i \notin vague => Points(i, b))
  BY <1>1 DEF Writers, HasTarget, Alone
<1>7. Writers'
  <2> SUFFICES ASSUME NEW q \in Proc, pc'[q] # "idle", ~Creates(q)'
               PROVE  HasTarget(q)' /\ Aimed(q)' /\ Alone(q)'
    BY DEF Writers
  <2>1. CASE q = p
    BY <1>1, <1>6, <2>1 DEF HasTarget, Aimed, Alone, HasBlock
  <2>2. CASE q # p
    <3>1. Writes(q, i) => i \in vague
      BY <1>2, <1>4, <2>2 DEF OneWriter
    <3>2. QED
      BY <1>1, <1>2, <1>4, <2>2, <3>1, OthersWrite
  <2>3. QED
    BY <2>1, <2>2
<1>8. Clean' /\ \A j \in Ino \ {i} : Own(j) => Content(j)' = Content(j)
  BY <1>1, <1>3, <1>4, OnlyOwnBytes
<1>9. Kept'
  <2> SUFFICES ASSUME NEW j \in Ino, Own(j)' PROVE KeptAt(j)'
    BY DEF Kept
  <2>1. Own(j) /\ KeptAt(j)
    BY <1>1, <1>2, <1>4 DEF Own, Kept
  <2>2. CASE j = i
    <3>1. \A q \in Proc : ~Copied(q, j)
      BY <1>2, <1>4, <2>1, <2>2 DEF Own, OneWriter, Copied
    <3>2. Content(j).size = told[j].size /\ Content(j).bytes = told[j].bytes
      BY <2>1, <3>1 DEF KeptAt
    <3>3. inode_table[j].i_block = b /\ Content(j).bytes = data[b] /\ HasBlock(j)
      BY <1>6, <2>1, <2>2 DEF Own, Points, Content
    <3>4. Content(j)'.size = told'[j].size /\ Content(j)'.bytes = data'[b]
      BY <1>1, <3>2, <3>3 DEF Content, HasBlock
    <3>5. Content(j)'.bytes = Overlay(told'[j].bytes, 0, call'[p].str, Len(call'[p].str))
      BY <1>1, <1>3, <3>2, <3>3, <3>4
    <3>6. Copied(p, j)'
      BY <1>1, <2>2 DEF Copied, Writes, Creates
    <3>7. QED
      BY <3>4, <3>5, <3>6 DEF KeptAt
  <2>3. CASE j # i
    BY <1>1, <1>4, <1>8, <2>1, <2>3, KeptStays
  <2>4. QED
    BY <2>2, <2>3
<1>10. QED
  BY <1>5, <1>7, <1>8, <1>9

\* copy_from_user fails: nothing more is told of the file, and no other is touched.
LEMMA FaultWrites ==
  ASSUME RInv, WInv, NEW p \in Proc, CopyFault(p)
  PROVE  WInv'
<1> DEFINE i == call[p].ino
           b == call[p].blk
           s == call[p].str
           cleared == [o \in Offset |-> IF o < Len(s) THEN 0 ELSE data[b][o]]
<1> USE DEF WInv
<1>1. /\ pc[p] = "copy" /\ pc'[p] = "idle" /\ call'[p] = NoCall /\ ~Creates(p)
      /\ \A q \in Proc \ {p} : pc'[q] = pc[q] /\ call'[q] = call[q]
      /\ UNCHANGED <<raced, block_bitmap, entries, inode_table>>
      /\ vague' = vague \cup {i} /\ told' = [told EXCEPT ![i] = Nothing]
  BY Known DEF CopyFault, Returned, At, Vague, bitmaps, RInv, Types
<1>2. /\ i \in FileInodes /\ i \in Ino /\ FileInodes' = FileInodes /\ b \in Block
      /\ s \in Seq(Byte)
  BY <1>1, Known DEF FileInodes, Call
<1>3. /\ \A c \in Block \ {b} : data'[c] = data[c]
      /\ data' \in [Block -> [Offset -> Byte]]
  <2>1. data \in [Block -> [Offset -> Byte]] /\ data[b] \in [Offset -> Byte]
    BY <1>2 DEF Data
  <2>2. cleared \in [Offset -> Byte]
    BY <1>2, <2>1, OverlayTyped
  <2>3. data' = [data EXCEPT ![b] = cleared]
    BY DEF CopyFault
  <2>4. QED
    BY <1>2, <2>1, <2>2, <2>3
<1>4. \A q \in Proc, j \in Ino : /\ Writes(q, j)' <=> Writes(q, j) /\ q # p
                                 /\ Copied(q, j)' <=> Copied(q, j)
                                 /\ Copied(q, j) => q # p
  BY <1>1 DEF Writes, Copied, Creates
<1>5. \A q \in Proc, c \in Block : Holds(q, c)' => Holds(q, c)
  BY <1>1 DEF Holds
<1>6. Data' /\ Untold' /\ OneWriter'
  <2>1. told' \in [Ino -> [size : Nat, bytes : [Offset -> Byte]]]
    BY <1>1, <1>2, ZerosTyped DEF Data
  <2>2. QED
    BY <1>1, <1>2, <1>3, <1>4, <2>1 DEF Data, Untold, OneWriter
<1>7. Writers'
  <2> SUFFICES ASSUME NEW q \in Proc, pc'[q] # "idle", ~Creates(q)'
               PROVE  HasTarget(q)' /\ Aimed(q)' /\ Alone(q)'
    BY DEF Writers
  <2>1. q # p
    BY <1>1
  <2>2. PICK j \in Ino : j = i
    BY <1>2
  <2>3. /\ HasBlock(j) => HasBlock(j)'
        /\ j \in vague'
        /\ \A c \in Block : Points(j, c)' => Points(j, c)
    BY <1>1, <2>2 DEF HasBlock, Points
  <2>4. QED
    BY <1>1, <1>5, <2>1, <2>3, OthersWrite
<1>8. Clean' /\ \A j \in Ino \ {i} : Own(j) => Content(j)' = Content(j)
  BY <1>1, <1>3, <1>5, OnlyOwnBytes
<1>9. Kept'
  <2> SUFFICES ASSUME NEW j \in Ino, Own(j)' PROVE KeptAt(j)'
    BY DEF Kept
  <2>1. Own(j) /\ j # i
    BY <1>1, <1>2 DEF Own, HasBlock
  <2>2. Content(j)' = Content(j) /\ told'[j] = told[j]
    BY <1>1, <1>8, <2>1 DEF Data
  <2>3. QED
    BY <1>1, <1>4, <2>1, <2>2, KeptStays DEF Kept
<1>10. QED
  BY <1>6, <1>7, <1>8, <1>9

\* A write that returns: told what it has copied.
LEMMA ToldWrites ==
  ASSUME RInv, WInv, NEW p \in Proc, pc[p] \in {"size", "grow"}, Told(p),
         pc'[p] = "idle", call'[p] = NoCall,
         \A q \in Proc \ {p} : pc'[q] = pc[q] /\ call'[q] = call[q],
         UNCHANGED <<data, vague, raced, block_bitmap, entries>>,
         \A j \in Ino \ {call[p].ino} : inode_table'[j] = inode_table[j],
         inode_table'[call[p].ino].i_block = inode_table[call[p].ino].i_block,
         inode_table'[call[p].ino].i_blocks = inode_table[call[p].ino].i_blocks,
         call[p].ino \notin vague =>
           inode_table'[call[p].ino].i_size =
             IF Len(call[p].str) > inode_table[call[p].ino].i_size
             THEN Len(call[p].str) ELSE inode_table[call[p].ino].i_size
  PROVE  WInv'
<1> DEFINE i == call[p].ino
           s == call[p].str
           now == [size  |-> IF Len(s) > told[i].size THEN Len(s) ELSE told[i].size,
                   bytes |-> Overlay(told[i].bytes, 0, s, Len(s))]
<1> USE DEF WInv
<1>1. /\ ~Creates(p) /\ i \in FileInodes /\ i \in Ino /\ FileInodes' = FileInodes
      /\ s \in Seq(Byte)
  BY Known DEF FileInodes, Call
<1>2. told' = IF i \in vague THEN told ELSE [told EXCEPT ![i] = now]
  BY <1>1 DEF Told, Data
<1>3. told' \in [Ino -> [size : Nat, bytes : [Offset -> Byte]]]
      /\ (i \notin vague => told'[i] = now) /\ \A j \in Ino \ {i} : told'[j] = told[j]
  <2>1. /\ told \in [Ino -> [size : Nat, bytes : [Offset -> Byte]]]
        /\ told[i].size \in Nat /\ told[i].bytes \in [Offset -> Byte] /\ Len(s) \in Nat
    BY <1>1 DEF Data
  <2>2. Overlay(told[i].bytes, 0, s, Len(s)) \in [Offset -> Byte]
    BY <1>1, <2>1, OverlayTyped
  <2>3. now \in [size : Nat, bytes : [Offset -> Byte]]
    BY <2>1, <2>2
  <2> HIDE DEF now
  <2>4. QED
    BY <1>1, <1>2, <2>1, <2>3
<1>4. \A q \in Proc, j \in Ino : /\ Writes(q, j)' <=> Writes(q, j) /\ q # p
                                 /\ Copied(q, j)' <=> Copied(q, j) /\ q # p
                                 /\ Copied(q, j) /\ q = p => j = i
  BY DEF Writes, Copied, Creates
<1>5. /\ \A q \in Proc, c \in Block : Holds(q, c)' <=> Holds(q, c)
      /\ \A j \in Ino, c \in Block : Points(j, c)' <=> Points(j, c)
      /\ \A j \in Ino : HasBlock(j)' <=> HasBlock(j)
  BY <1>1 DEF Holds, Points, HasBlock
<1>6. Data' /\ Untold' /\ OneWriter'
  BY <1>1, <1>3, <1>4 DEF Data, Untold, OneWriter
<1>7. Writers'
  <2> SUFFICES ASSUME NEW q \in Proc, pc'[q] # "idle", ~Creates(q)'
               PROVE  HasTarget(q)' /\ Aimed(q)' /\ Alone(q)'
    BY DEF Writers
  <2>1. q # p
    OBVIOUS
  <2>2. Writes(q, i) => i \in vague
    BY <1>1, <2>1 DEF OneWriter, Writes
  <2>3. PICK j \in Ino : j = i
    BY <1>1
  <2>4. /\ HasBlock(j) => HasBlock(j)'
        /\ Writes(q, j) => j \in vague'
        /\ \A k \in Ino \ {j} : inode_table'[k] = inode_table[k]
        /\ \A c \in Block : Points(j, c)' => Points(j, c)
    BY <1>5, <2>2, <2>3
  <2>5. QED
    BY <1>5, <2>1, <2>4, OthersWrite
<1>8. Clean'
  BY <1>1, <1>5, Known DEF Clean
<1>9. Kept'
  <2> SUFFICES ASSUME NEW j \in Ino, Own(j)' PROVE KeptAt(j)'
    BY DEF Kept
  <2>1. Own(j) /\ KeptAt(j)
    BY <1>1, <1>5 DEF Own, HasBlock, Kept
  <2>2. CASE j = i
    <3>1. i \notin vague /\ Copied(p, j)
      BY <1>1, <2>1, <2>2 DEF Own, Copied, Writes
    <3>2. \A q \in Proc : Copied(q, j) => q = p
      BY <2>2, <3>1 DEF OneWriter, Copied
    <3>3. Content(j).size = told[j].size /\ Content(j).bytes = Overlay(told[j].bytes, 0, s, Len(s))
      BY <2>1, <3>1, <3>2 DEF KeptAt
    <3>4. \A q \in Proc : ~Copied(q, j)'
      BY <1>4, <3>2
    <3>5. inode_table[j].i_size = told[j].size
      BY <3>3 DEF Content
    <3>6. Content(j)'.size = told'[j].size
      BY <1>3, <2>2, <3>1, <3>5 DEF Content
    <3>7. Content(j)'.bytes = Content(j).bytes
      BY <2>2 DEF Content, HasBlock
    <3>8. Content(j)'.bytes = told'[j].bytes
      BY <1>3, <2>2, <3>1, <3>3, <3>7
    <3>9. QED
      BY <3>4, <3>6, <3>8 DEF KeptAt
  <2>3. CASE j # i
    <3>1. Content(j)' = Content(j) /\ told'[j] = told[j]
      BY <1>3, <2>3 DEF Content, HasBlock
    <3>2. QED
      BY <1>4, <2>1, <2>3, <3>1, KeptStays
  <2>4. QED
    BY <2>2, <2>3
<1>10. QED
  BY <1>6, <1>7, <1>8, <1>9

\* A write finds out whether the file grows.
LEMMA GrowsWrites ==
  ASSUME RInv, WInv, NEW p \in Proc, WriteGrows(p)
  PROVE  WInv'
<1> USE DEF WInv
<1>1. /\ pc[p] = "size" /\ pc'[p] = "grow" /\ call' = call /\ Grows(p) /\ ~Creates(p)
      /\ \A q \in Proc \ {p} : pc'[q] = pc[q]
      /\ UNCHANGED <<data, told, vague, raced, block_bitmap, entries, inode_table>>
  BY Known DEF WriteGrows, At, history, vars, bitmaps, RInv, Types
<1>2. /\ \A q \in Proc, j \in Ino : /\ Writes(q, j)' <=> Writes(q, j)
                                    /\ Copied(q, j)' <=> Copied(q, j)
      /\ \A q \in Proc : Creates(q)' <=> Creates(q)
      /\ \A q \in Proc, b \in Block : Holds(q, b)' <=> Holds(q, b)
      /\ \A j \in Ino, b \in Block : Points(j, b)' <=> Points(j, b)
      /\ \A j \in Ino : HasBlock(j)' <=> HasBlock(j)
      /\ FileInodes' = FileInodes
  BY <1>1 DEF Writes, Copied, Creates, Holds, HasBlock, Points, FileInodes
<1>3. Data' /\ Untold' /\ OneWriter'
  BY <1>1, <1>2 DEF Data, Untold, OneWriter
<1>4. Writers'
  <2> SUFFICES ASSUME NEW q \in Proc, pc'[q] # "idle", ~Creates(q)'
               PROVE  HasTarget(q)' /\ Aimed(q)' /\ Alone(q)'
    BY DEF Writers
  <2>1. /\ pc[q] # "idle" /\ ~Creates(q) /\ call[q].ino \in Ino /\ call[q].blk \in Block
        /\ HasTarget(q) /\ Aimed(q) /\ Alone(q)
    BY <1>1, <1>2, Known DEF Writers
  <2>2. HasTarget(q)'
    BY <1>1, <2>1 DEF HasTarget, HasBlock
  <2>3. Aimed(q)'
    BY <1>1, <1>2, <2>1 DEF Aimed, Points
  <2>4. Alone(q)'
    BY <1>1, <2>1 DEF Alone, HasBlock, Points, Grows
  <2>5. QED
    BY <2>2, <2>3, <2>4
<1>5. Clean'
  BY <1>1, <1>2, Known DEF Clean
<1>6. Kept'
  <2> SUFFICES ASSUME NEW j \in Ino, Own(j)' PROVE KeptAt(j)'
    BY DEF Kept
  <2>1. Own(j) /\ Content(j)' = Content(j)
    BY <1>1, <1>2 DEF Own, Content, HasBlock
  <2>2. QED
    BY <1>1, <1>2, <2>1, KeptStays DEF Kept
<1>7. QED
  BY <1>3, <1>4, <1>5, <1>6

\* A write begins; two at once make the file vague.
LEMMA BeginWrites ==
  ASSUME RInv, WInv, NEW p \in Proc, NEW i \in Ino, NEW s \in Strings, WriteBegin(p, i, s)
  PROVE  WInv'
<1> USE DEF WInv
<1>1. /\ pc[p] = "idle" /\ pc'[p] = IF NeedsBlock(i) THEN "test" ELSE "aim"
      /\ call'[p] = [ino |-> i, name |-> Nobody, blk |-> 0, count |-> 0, str |-> s]
      /\ i \in FileInodes /\ FileInodes' = FileInodes
      /\ \A q \in Proc \ {p} : pc'[q] = pc[q] /\ call'[q] = call[q]
      /\ UNCHANGED <<data, raced, block_bitmap, entries, inode_table>>
  BY DEF WriteBegin, At, NoCall, vars, bitmaps, RInv, Types, FileInodes
<1>2. /\ vague \subseteq vague' /\ vague' \subseteq vague \cup {i}
      /\ \A j \in Ino \ {i} : told'[j] = told[j]
      /\ told' \in [Ino -> [size : Nat, bytes : [Offset -> Byte]]]
      /\ i \notin vague' => told' = told
      /\ (\E q \in Proc : Writes(q, i)) => i \in vague'
  <2>1. told \in [Ino -> [size : Nat, bytes : [Offset -> Byte]]]
    BY DEF Data
  <2>2. CASE \E q \in Proc : Writes(q, i)
    BY <2>1, <2>2, ZerosTyped DEF WriteBegin, Vague
  <2>3. CASE ~\E q \in Proc : Writes(q, i)
    BY <2>1, <2>3 DEF WriteBegin
  <2>4. QED
    BY <2>2, <2>3
<1>3. ~Creates(p)' /\ ~Creates(p) /\ call'[p].ino = i
  BY <1>1 DEF Creates, RInv, Calls
<1>4. /\ \A q \in Proc, j \in Ino : /\ Writes(q, j)' <=> (Writes(q, j) \/ (q = p /\ j = i))
                                    /\ Copied(q, j)' <=> Copied(q, j)
                                    /\ Copied(q, j) => q # p
      /\ \A q \in Proc, b \in Block : Holds(q, b)' => Holds(q, b)
      /\ \A j \in Ino, b \in Block : Points(j, b)' <=> Points(j, b)
      /\ \A j \in Ino : HasBlock(j)' <=> HasBlock(j)
  <2>1. ASSUME NEW q \in Proc, NEW j \in Ino
        PROVE  /\ Writes(q, j)' <=> (Writes(q, j) \/ (q = p /\ j = i))
               /\ Copied(q, j)' <=> Copied(q, j)
               /\ Copied(q, j) => q # p
    <3>1. CASE q = p
      BY <1>1, <1>3, <3>1 DEF Writes, Copied
    <3>2. CASE q # p
      BY <1>1, <3>2 DEF Writes, Copied, Creates
    <3>3. QED
      BY <3>1, <3>2
  <2>2. QED
    BY <1>1, <2>1 DEF Holds, HasBlock, Points
<1>5. Data' /\ Untold' /\ OneWriter'
  BY <1>1, <1>2, <1>4 DEF Data, Untold, OneWriter
<1>6. Writers'
  <2> SUFFICES ASSUME NEW q \in Proc, pc'[q] # "idle", ~Creates(q)'
               PROVE  HasTarget(q)' /\ Aimed(q)' /\ Alone(q)'
    BY DEF Writers
  <2>1. CASE q = p
    BY <1>1, <1>3, <2>1, Known DEF HasTarget, Aimed, Alone, HasBlock, NeedsBlock
  <2>2. CASE q # p
    BY <1>1, <1>2, <1>4, <2>2, OthersWrite
  <2>3. QED
    BY <2>1, <2>2
<1>7. Clean'
  BY <1>1, <1>2, <1>4, Known DEF Clean
<1>8. Kept'
  <2> SUFFICES ASSUME NEW j \in Ino, Own(j)' PROVE KeptAt(j)'
    BY DEF Kept
  <2>1. Own(j) /\ Content(j)' = Content(j) /\ told'[j] = told[j]
    BY <1>1, <1>2, <1>4 DEF Own, Content, HasBlock
  <2>2. QED
    BY <1>1, <1>4, <2>1, KeptStays DEF Kept
<1>9. QED
  BY <1>5, <1>6, <1>7, <1>8

\* A creation gives up, or is refused, or nothing happens.
LEMMA IdleWrites ==
  ASSUME WInv, UNCHANGED <<pc, call, data, told, vague, raced, block_bitmap, entries, inode_table>>
  PROVE  WInv'
BY DEF WInv, Data, Untold, OneWriter, Writers, HasTarget, Aimed, Alone, Clean, Kept, Own, KeptAt,
   Copied, Writes, Creates, Holds, Points, HasBlock, Grows, FileInodes, Content

LEMMA WriteStepKeeps ==
  ASSUME RInv, RInv', WInv, NEW p \in Proc, WriteStep(p)
  PROVE  WInv'
<1>1. CASE WriteKeepsSize(p)
  <2>1. /\ pc[p] = "size" /\ pc'[p] = "idle" /\ call'[p] = NoCall /\ Told(p) /\ ~Grows(p)
        /\ \A q \in Proc \ {p} : pc'[q] = pc[q] /\ call'[q] = call[q]
        /\ UNCHANGED <<data, vague, raced, block_bitmap, entries, inode_table>>
    BY <1>1 DEF WriteKeepsSize, Returned, At, vars, bitmaps, RInv, Types
  <2>2. QED
    BY <2>1, ToldWrites DEF Grows
<1>2. CASE SetSize(p)
  <2>1. /\ pc[p] = "grow" /\ pc'[p] = "idle" /\ call'[p] = NoCall /\ Told(p)
        /\ \A q \in Proc \ {p} : pc'[q] = pc[q] /\ call'[q] = call[q]
        /\ UNCHANGED <<data, vague, raced, block_bitmap, entries>>
    BY <1>2 DEF SetSize, Returned, At, bitmaps, RInv, Types
  <2>2. call[p].ino \in Ino /\ ~Creates(p)
    BY <2>1, Known
  <2>3. /\ \A j \in Ino \ {call[p].ino} : inode_table'[j] = inode_table[j]
        /\ inode_table'[call[p].ino].i_block = inode_table[call[p].ino].i_block
        /\ inode_table'[call[p].ino].i_blocks = inode_table[call[p].ino].i_blocks
        /\ inode_table'[call[p].ino].i_size = Len(call[p].str)
    BY <1>2, <2>2 DEF SetSize, RInv, Types
  <2>4. call[p].ino \notin vague => Grows(p)
    BY <2>1, <2>2 DEF WInv, Writers, Alone
  <2>5. QED
    BY <2>1, <2>3, <2>4, ToldWrites DEF Grows
<1>3. QED
  BY <1>1, <1>2, BeginWrites, MarkWrites, AimWrites, CopyWrites, FaultWrites, GrowsWrites DEF WriteStep

LEMMA StepWInv == RInv /\ RInv' /\ WInv /\ [RaceNext]_raceVars => WInv'
<1> SUFFICES ASSUME RInv, RInv', WInv, [RaceNext]_raceVars PROVE WInv'
  OBVIOUS
<1>1. CASE UNCHANGED raceVars
  BY <1>1, IdleWrites DEF raceVars, vars, bitmaps, locals, history
<1>2. ASSUME NEW f \in Name, CreateRefused(f) \/ \E i \in Ino : CreateFails(f, i) PROVE WInv'
  BY <1>2, IdleWrites DEF CreateRefused, CreateFails, raceVars, vars, bitmaps, locals, history
<1>3. ASSUME NEW p \in Proc, AllocStep(p) PROVE WInv'
  BY <1>3, AllocStepWrites, CreateWrites, PlaceWrites DEF AllocStep
<1>4. ASSUME NEW p \in Proc, CreateStep(p) \/ WriteStep(p) PROVE WInv'
  <2>1. CASE CreateStep(p)
    BY <2>1, CreateWrites
  <2>2. CASE WriteStep(p)
    BY <2>2, WriteStepKeeps
  <2>3. QED
    BY <1>4, <2>1, <2>2
<1>5. QED
  BY <1>1, <1>2, <1>3, <1>4 DEF RaceNext

\* For any number of processes: a file whose writes have not overlapped, in a block of
\* its own, holds what they wrote, whatever calls on other files did meanwhile.
THEOREM RaceWritesKept == RaceSpec => []WritesKept
<1>1. RInv /\ WInv => WritesKept
  <2> SUFFICES ASSUME RInv, WInv, NEW i \in FileInodes \ vague,
                      \A p \in Proc : ~Writes(p, i),
                      HasBlock(i) => inode_table[i].i_block \notin raced
               PROVE  Content(i) = told[i]
    BY DEF WritesKept
  <2>1. i \in Ino /\ Own(i)
    BY Known DEF Own
  <2>2. Content(i).size = told[i].size /\ Content(i).bytes = told[i].bytes
    BY <2>1 DEF WInv, Kept, KeptAt, Copied
  <2>3. told[i] = [size |-> told[i].size, bytes |-> told[i].bytes]
    BY <2>1 DEF WInv, Data
  <2>4. QED
    BY <2>2, <2>3 DEF Content
<1>2. QED
  BY <1>1, WriteInit, StepWInv, RaceInvariant, PTL DEF RaceSpec
=============================================================================
