------------------------------ MODULE OsfsRace ------------------------------
(***************************************************************************)
(* lab4/basic with calls of several processes at once.  The state is that  *)
(* of Osfs; a call is taken apart at its accesses to what others change.   *)
(* The VFS holds the directory's lock around osfs_create, and none around  *)
(* osfs_write.  Readers change nothing and are left out; so are vfs and    *)
(* ret, which a call alone sees.  Writes are at position 0 and fit.        *)
(***************************************************************************)
EXTENDS Osfs

CONSTANTS
  Proc,               \* processes
  Nobody              \* none of them, and no name

ASSUME ProcAssumption == Nobody \notin Proc \cup Name

VARIABLES
  pc,                 \* where each process is in its call
  call,               \* its local variables: file, block, counter, buffer
  dirlock,            \* who holds the root directory's lock
  raced,              \* history: blocks found free by one while another took them
  miscounted,         \* history: two have counted down from one value
  vague,              \* history: files with overlapping or failed writes
  told                \* history: what the completed writes of a file come to

locals == <<pc, call, dirlock>>
history == <<raced, miscounted, vague, told>>
raceVars == <<vars, locals, history>>

NoCall == [ino |-> ROOT_INODE, name |-> Nobody, blk |-> 0, count |-> 0, str |-> <<>>]

Nothing == [size |-> 0, bytes |-> Zeros]

RaceInit ==
  /\ Init
  /\ pc = [p \in Proc |-> "idle"]
  /\ call = [p \in Proc |-> NoCall]
  /\ dirlock = Nobody
  /\ raced = {} /\ miscounted = FALSE /\ vague = {}
  /\ told = [i \in Ino |-> Nothing]

At(p, from, to) == pc[p] = from /\ pc' = [pc EXCEPT ![p] = to]

Returned(p, from) == At(p, from, "idle") /\ call' = [call EXCEPT ![p] = NoCall]

Creates(p) == call[p].name # Nobody

DirFree == dirlock = Nobody

\* osfs_create up to osfs_alloc_data_block.
CreateBegin(p, f, i) ==
  /\ MayCreate(f) /\ DirFree
  /\ nr_free_inodes # 0 /\ nr_free_blocks # 0
  /\ FirstFreeInode(i)
  /\ At(p, "idle", "test")
  /\ dirlock' = p
  /\ call' = [call EXCEPT ![p] = [NoCall EXCEPT !.ino = i, !.name = f]]
  /\ inode_bitmap' = inode_bitmap \cup {i}
  /\ nr_free_inodes' = Less(nr_free_inodes, 1)
  /\ inode_table' = [inode_table EXCEPT ![i] = [NewInode EXCEPT !.i_blocks = 1]]
  /\ UNCHANGED <<nr_free_blocks, block_bitmap, entries, data, vfs, ret, history>>

\* osfs_create finds no room: nothing changes.
CreateRefused(f) ==
  /\ MayCreate(f) /\ DirFree
  /\ nr_free_inodes = 0 \/ nr_free_blocks = 0 \/ NoFreeInode
  /\ UNCHANGED raceVars

\* new_inode returns NULL: the inode number stays taken.
CreateFails(f, i) ==
  /\ MayCreate(f) /\ DirFree
  /\ nr_free_inodes # 0 /\ nr_free_blocks # 0
  /\ FirstFreeInode(i)
  /\ inode_bitmap' = inode_bitmap \cup {i}
  /\ nr_free_inodes' = Less(nr_free_inodes, 1)
  /\ UNCHANGED <<nr_free_blocks, block_bitmap, inode_table, entries, data, vfs, ret, locals,
                 history>>

\* osfs_create after osfs_alloc_data_block, to its return.
CreateEnd(p) ==
  /\ Creates(p)
  /\ Returned(p, "placed")
  /\ nr_free_inodes' = Less(nr_free_inodes, 1)
  /\ inode_table' = [inode_table EXCEPT ![call[p].ino] = NewInode]
  /\ entries' = IF HasRoom
                THEN Append(entries, [filename |-> call[p].name, inode_no |-> call[p].ino])
                ELSE entries
  /\ dirlock' = Nobody
  /\ UNCHANGED <<nr_free_blocks, bitmaps, data, vfs, ret, history>>
-----------------------------------------------------------------------------
\* osfs_alloc_data_block.  Bits are only ever set: the bit found clear is the
\* first clear one when test_bit looks at it.
Taking(p, b) == pc[p] = "set" /\ call[p].blk = b

TestBit(p, b) ==
  /\ FirstFreeBlock(b)
  /\ At(p, "test", "set")
  /\ call' = [call EXCEPT ![p].blk = b]
  /\ raced' = IF \E q \in Proc : Taking(q, b) THEN raced \cup {b} ELSE raced
  /\ UNCHANGED <<vars, dirlock, miscounted, vague, told>>

\* -ENOSPC: a creation keeps the inode it has taken.
NoFreeBlock(p) ==
  /\ Block \subseteq block_bitmap
  /\ Returned(p, "test")
  /\ dirlock' = IF Creates(p) THEN Nobody ELSE dirlock
  /\ UNCHANGED <<vars, history>>

\* Mutant: the block found is handed out and its bit left clear.
SetNoBit(p) ==
  /\ At(p, "set", "load")
  /\ UNCHANGED <<vars, call, dirlock, history>>

SetBit(p) ==
  /\ At(p, "set", "load")
  /\ block_bitmap' = block_bitmap \cup {call[p].blk}
  /\ UNCHANGED <<counters, inode_bitmap, inode_table, entries, data, vfs, ret, call, dirlock,
                 history>>

\* nr_free_blocks--
LoadCount(p) ==
  /\ At(p, "load", "store")
  /\ call' = [call EXCEPT ![p].count = nr_free_blocks]
  /\ miscounted' = (miscounted \/ \E q \in Proc : pc[q] = "store")
  /\ UNCHANGED <<vars, dirlock, raced, vague, told>>

StoreCount(p) ==
  /\ At(p, "store", "place")
  /\ nr_free_blocks' = Less(call[p].count, 1)
  /\ call' = [call EXCEPT ![p].count = 0]
  /\ UNCHANGED <<nr_free_inodes, bitmaps, inode_table, entries, data, vfs, ret, dirlock, history>>

\* *block_no = i
Place(p) ==
  /\ At(p, "place", "placed")
  /\ inode_table' = [inode_table EXCEPT ![call[p].ino].i_block = call[p].blk]
  /\ UNCHANGED <<counters, bitmaps, entries, data, vfs, ret, call, dirlock, history>>
-----------------------------------------------------------------------------
\* osfs_write.
Writes(p, i) == pc[p] # "idle" /\ ~Creates(p) /\ call[p].ino = i

NeedsBlock(i) == inode_table[i].i_blocks = 0

Vague(i) == vague' = vague \cup {i} /\ told' = [told EXCEPT ![i] = Nothing]

WriteBegin(p, i, s) ==
  /\ i \in FileInodes
  /\ At(p, "idle", IF NeedsBlock(i) THEN "test" ELSE "aim")
  /\ call' = [call EXCEPT ![p] = [NoCall EXCEPT !.ino = i, !.str = s]]
  /\ IF \E q \in Proc : Writes(q, i) THEN Vague(i) ELSE UNCHANGED <<vague, told>>
  /\ UNCHANGED <<vars, dirlock, raced, miscounted>>

MarkBlocks(p) ==
  /\ ~Creates(p)
  /\ At(p, "placed", "aim")
  /\ inode_table' = [inode_table EXCEPT ![call[p].ino].i_blocks = 1]
  /\ UNCHANGED <<counters, bitmaps, entries, data, vfs, ret, call, dirlock, history>>

\* Mutant: the block this call has allocated, or none.
AimOwn(i, blk) == blk

BlockOf(i, blk) == inode_table[i].i_block

\* data_block = ...
Aim(p) ==
  /\ At(p, "aim", "copy")
  /\ call' = [call EXCEPT ![p].blk = BlockOf(call[p].ino, @)]
  /\ UNCHANGED <<vars, dirlock, history>>

\* copy_from_user
Copy(p) ==
  /\ At(p, "copy", "size")
  /\ data' = [data EXCEPT ![call[p].blk] = Overlay(@, 0, call[p].str, Len(call[p].str))]
  /\ UNCHANGED <<counters, bitmaps, inode_table, entries, vfs, ret, call, dirlock, history>>

\* copy_from_user fails at once and clears what it was to fill.
CopyFault(p) ==
  /\ Returned(p, "copy")
  /\ data' = [data EXCEPT ![call[p].blk] = [o \in Offset |-> IF o < Len(call[p].str) THEN 0 ELSE @[o]]]
  /\ Vague(call[p].ino)
  /\ UNCHANGED <<counters, bitmaps, inode_table, entries, vfs, ret, dirlock, raced,
                 miscounted>>

\* What file i should hold after p's write.
Told(p) ==
  LET i == call[p].ino
      n == Len(call[p].str)
  IN  told' = IF i \in vague THEN told ELSE [told EXCEPT ![i] =
                 [size |-> IF n > @.size THEN n ELSE @.size,
                  bytes |-> Overlay(@.bytes, 0, call[p].str, n)]]

Grows(p) == Len(call[p].str) > inode_table[call[p].ino].i_size

WriteKeepsSize(p) ==
  /\ ~Grows(p)
  /\ Returned(p, "size")
  /\ Told(p)
  /\ UNCHANGED <<vars, dirlock, raced, miscounted, vague>>

WriteGrows(p) ==
  /\ Grows(p)
  /\ At(p, "size", "grow")
  /\ UNCHANGED <<vars, call, dirlock, history>>

SetSize(p) ==
  /\ Returned(p, "grow")
  /\ inode_table' = [inode_table EXCEPT ![call[p].ino].i_size = Len(call[p].str)]
  /\ Told(p)
  /\ UNCHANGED <<counters, bitmaps, entries, data, vfs, ret, dirlock, raced, miscounted,
                 vague>>

CreateStep(p) ==
  \/ \E f \in Name, i \in Ino : CreateBegin(p, f, i)
  \/ CreateEnd(p)

AllocStep(p) ==
  \/ \E b \in Block : TestBit(p, b)
  \/ NoFreeBlock(p) \/ SetBit(p) \/ LoadCount(p) \/ StoreCount(p) \/ Place(p)

WriteStep(p) ==
  \/ \E i \in Ino, s \in Strings : WriteBegin(p, i, s)
  \/ MarkBlocks(p) \/ Aim(p) \/ Copy(p) \/ CopyFault(p)
  \/ WriteKeepsSize(p) \/ WriteGrows(p) \/ SetSize(p)

RaceNext ==
  \/ \E f \in Name : CreateRefused(f) \/ \E i \in Ino : CreateFails(f, i)
  \/ \E p \in Proc : CreateStep(p) \/ AllocStep(p) \/ WriteStep(p)

RaceSpec == RaceInit /\ [][RaceNext]_raceVars
-----------------------------------------------------------------------------
\* Two files share a block only if two calls were allocating it at one time,
\* between test_bit and set_bit; none ever gets the root directory's block 0.
BlocksApart ==
  \A i \in FileInodes : HasBlock(i) =>
    /\ inode_table[i].i_block # 0
    /\ \A j \in FileInodes \ {i} :
         HasBlock(j) /\ inode_table[j].i_block = inode_table[i].i_block
           => inode_table[i].i_block \in raced

\* Between calls nr_free_blocks is exact unless two calls took one block or
\* counted down from one value.
CountExact ==
  (\A p \in Proc : pc[p] = "idle") /\ raced = {} /\ ~miscounted => FreeBlocksExact

\* A file whose writes have not overlapped, in a block of its own, holds what
\* they wrote, whatever calls on other files did meanwhile.
WritesKept ==
  \A i \in FileInodes \ vague :
    (\A p \in Proc : ~Writes(p, i)) /\ (HasBlock(i) => inode_table[i].i_block \notin raced) =>
      Content(i) = told[i]
=============================================================================
