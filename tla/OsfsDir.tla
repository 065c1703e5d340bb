------------------------------ MODULE OsfsDir ------------------------------
(***************************************************************************)
(* lab4, basic and bonus: a program lists the root directory, in as many   *)
(* calls as its buffer makes of it, while others create files.  The VFS    *)
(* keeps osfs_iterate and osfs_create of one directory apart.              *)
(*                                                                         *)
(* slot[x] is the entry at position x of the directory's block or, in      *)
(* bonus, of its blocks laid end to end.  A walk over the chain takes every *)
(* block but the last for full, so that it visits the positions 0, 1, ...  *)
(* in turn, as many as the directory has entries.                          *)
(***************************************************************************)
EXTENDS Integers, Sequences

CONSTANTS
  Names,              \* the files in the order of their creation, by their names
  PerBlock,           \* MAX_DIR_ENTRIES
  MaxBlocks,          \* data blocks the directory may take (20 in the code)
  MaxRoom             \* entries that a program's buffer holds at most

Dots == <<".", "..">>
Empty == ""           \* a name of length 0: the VFS refuses to emit it
Stray == "?"          \* the bytes before a block, read as an entry with a name

ASSUME SizeAssumption ==
  /\ PerBlock \in Nat \ {0} /\ MaxBlocks \in Nat \ {0} /\ MaxRoom \in Nat \ {0}
  /\ \A k \in DOMAIN Names : Names[k] \notin {".", "..", Empty, Stray}
\* Files are told apart by their names; two of one name are not looked at here.
ASSUME NamesAssumption ==
  /\ Names \in Seq(STRING)
  /\ \A j, k \in DOMAIN Names : Names[j] = Names[k] => j = k

VARIABLES
  bonus,              \* which of the two versions
  slot, size, blocks, \* entries, their number (i_size), and blocks of the chain
  pos,                \* ctx->pos of the open directory
  listed,             \* what the program has been given
  state,              \* "open", or how the listing has ended: "done", "failed"
  cut, strayed        \* history: a buffer took "." only; a stray name was listed

directory == <<slot, size, blocks>>
listing == <<pos, listed, state, cut, strayed>>
vars == <<bonus, directory, listing>>

Position == 0 .. PerBlock * MaxBlocks - 1

Opened ==
  /\ pos = 0 /\ listed = <<>> /\ state = "open"
  /\ cut = FALSE /\ strayed = FALSE

Init ==
  /\ bonus \in BOOLEAN
  /\ slot = [x \in Position |-> Empty]
  /\ size = 0
  /\ blocks = IF bonus THEN 0 ELSE 1
  /\ Opened

\* osfs_add_dir_entry: the blocks once one more entry has been asked for.
ChainFor == IF bonus /\ size % PerBlock = 0 THEN blocks + 1 ELSE blocks

\* A new file: its entry goes to the last block, behind those that the size
\* says are there.
Create ==
  /\ size < Len(Names)
  /\ IF bonus THEN ChainFor <= MaxBlocks ELSE size < PerBlock
  /\ blocks' = ChainFor
  /\ slot' = [slot EXCEPT ![(ChainFor - 1) * PerBlock + (size % PerBlock)] = Names[size + 1]]
  /\ size' = size + 1
  /\ UNCHANGED <<bonus, listing>>

\* A file after the first block, which osfs_lookup does not find, is created
\* again: -EEXIST, but a block chained for it stays.
CreateExists(x) ==
  /\ bonus
  /\ x \in PerBlock .. size - 1 /\ slot[x] # Empty
  /\ ChainFor <= MaxBlocks
  /\ blocks' = ChainFor
  /\ UNCHANGED <<bonus, slot, size, listing>>
-----------------------------------------------------------------------------
\* How many of the two dots a call emits into a buffer for room entries.
DotsEmitted(room) == IF pos # 0 THEN 0 ELSE IF room = 1 THEN 1 ELSE 2

\* Mutant: the entries start one further on.
FirstEntryLate == IF bonus \/ pos # 0 THEN pos - 1 ELSE 1

\* The entry the loop starts from; bonus takes it before the dots move pos.
FirstEntry == IF bonus \/ pos # 0 THEN pos - 2 ELSE 0

\* The entries the loop would emit, from the x-th on: those before the first
\* are whatever memory holds there.
Offered(x, before) ==
  IF bonus /\ blocks = 0 THEN <<>>
  ELSE [k \in 1 .. size - x |-> LET e == x + k - 1 IN IF e < 0 THEN before[e] ELSE slot[e]]

\* dir_emit stops at a name that is empty, or when the buffer is full.
Emits(offer, n, room) ==
  /\ n <= Len(offer) /\ n <= room
  /\ \A k \in 1 .. n : offer[k] # Empty
  /\ n < Len(offer) /\ n < room => offer[n + 1] = Empty

\* Mutant: ctx->pos does not follow the entries.
MovedNot(dots, n) == pos + dots

Moved(dots, n) == pos + dots + n

\* Mutant: an entry that cannot be emitted is tried again and again.
OutcomeRetried(emitted, refused) == IF emitted > 0 \/ refused THEN "open" ELSE "done"

\* When dir_emit fails osfs_iterate returns -EINVAL, which programs see only if
\* the buffer is empty; an empty buffer without an error ends the listing.
Outcome(emitted, refused) ==
  CASE emitted > 0 -> "open"
    [] emitted = 0 /\ refused -> "failed"
    [] OTHER -> "done"

\* getdents with room for so many entries, and osfs_iterate under it.
GetDents(room, before) ==
  /\ state = "open"
  /\ LET dots == DotsEmitted(room)
         short == pos = 0 /\ dots = 1
         offer == IF short THEN <<>> ELSE Offered(FirstEntry, before)
     IN  \E n \in 0 .. room :
           /\ Emits(offer, n, room - dots)
           /\ pos' = Moved(dots, n)
           /\ listed' = listed \o SubSeq(Dots, 1, dots) \o SubSeq(offer, 1, n)
           /\ state' = Outcome(dots + n, n < Len(offer))
           /\ cut' = (cut \/ short)
           /\ strayed' = (strayed \/ \E k \in 1 .. n : offer[k] = Stray)
  /\ UNCHANGED <<bonus, directory>>

Reads == \E room \in 1 .. MaxRoom, before \in [{-2, -1} -> {Empty, Stray}] : GetDents(room, before)

\* The program opens the directory anew.
Reopen ==
  /\ state # "open"
  /\ pos' = 0 /\ listed' = <<>> /\ state' = "open" /\ cut' = FALSE /\ strayed' = FALSE
  /\ UNCHANGED <<bonus, directory>>

Next == Create \/ (\E x \in Position : CreateExists(x)) \/ Reads \/ Reopen

\* A program that lists a directory calls until it has all.
Spec == Init /\ [][Next]_vars /\ WF_vars(Reads)
-----------------------------------------------------------------------------
\* Whatever is created meanwhile and however small the buffers are, no listing
\* names a file twice, and none before an older one.
ListedInOrder ==
  \A j, k \in DOMAIN listed : j < k =>
    \A m, n \in DOMAIN Names : listed[j] = Names[m] /\ listed[k] = Names[n] => m < n

\* The chain has a block that was left without entries.
HasGap == blocks > (size + PerBlock - 1) \div PerBlock

\* A listing that ends has named ".", ".." and all files there are by then, but
\* when its first buffer was for one entry, a stray name moved the position on
\* or, in bonus, a failed creation has left a block empty.
ListingComplete ==
  [][state = "open" /\ state' = "done" /\ ~cut /\ ~strayed /\ (bonus => ~HasGap) =>
       listed = Dots \o SubSeq(Names, 1, size)]_vars

\* Every listing comes to an end.
ListingEnds == state = "open" ~> state # "open"
=============================================================================
