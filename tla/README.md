# A TLA+ verification of the 2024 NCKU operating-systems homework

The repository holds four labs, each a small program (or kernel module) of its
own.  This directory models the parts of them that carry state, concurrency or
failure, checks the models with TLC and proves the most important facts with
TLAPS.  Every definition is read off the C source; `PROJECT.json` lists, under
`map`, the lines each one stands for.

## 1. Inventory

| Part | State | Operations | Interacts through |
|---|---|---|---|
| lab1 `sender.c`, `receiver.c` | two semaphores, a message queue or a shared segment, each program's message variable | `send`, `receive`, the two main loops, set-up and clean-up | POSIX named objects, shared by two processes |
| lab2 `my_shell`, `src/*.c` | history ring, parsed command, descriptor tables | `read_line`, `split_line`, built-ins, `spawn_proc`, `fork_cmd_node`, `redirection` | fork, exec, pipes, wait |
| lab3/1 `1_1.c`, `1_2.c` | counter `a`, lock | lock, `a = a + 1`, unlock; main creates, joins and prints | memory shared by two threads |
| lab3/2 `2_1.c`, `2_2.c` | matrices | two threads add products into `z` | shared memory, under the lock or without it |
| lab3/3 `My_Kernel.c`, `3_1.c`, `3_2.c` | one kernel buffer | `Mywrite`, `Myread`, two threads that call them | /proc file |
| lab4/basic osfs | super block counters, two bitmaps, inode table, root directory, data blocks, VFS inodes | `osfs_create`, `osfs_lookup`, `osfs_iterate`, `osfs_read`, `osfs_write`, mount, unmount | calls of the VFS |
| lab4/bonus osfs | the same with block chains | the same | calls of the VFS |

What is hard, by part:

* **lab1** - two processes in step through two semaphores, each of which the one
  posts and the other waits on; a copy into shared memory that takes time; the
  exit message that looks like any other; named objects that outlive a session.
  Correct means: the store is never touched by both, each message arrives once,
  in order and whole, and both programs end.
* **lab2** - descriptors that must be closed in shell and children, fields that
  are never initialised, the ring of the history.  Correct means: each command
  reads and writes the files its line names, and the shell has its own standard
  input and output back afterwards.
* **lab3/1** - a load and a store that other threads come between, and a lock
  written as five instructions.  Correct means: no addition is lost, `main`
  prints the full sum, and neither thread spins for ever.
* **lab3/2, lab3/3** - additions and a buffer shared without a lock.  Correct
  means: the product is exact, and each thread reads what the kernel has to tell it.
* **lab4** - calls that fail half-way and keep what they took; resources that are
  never given back; a directory block nobody allocates; a second VFS inode for an
  open file; truncation that only the VFS sees; and, in the bonus, chains and
  directory blocks out of step.  Correct means: files are independent byte
  arrays, allocation is exact, the directory names each file once.

`PROJECT.json` lists every component with its status, and under `hazards` every
place of the code where such a thing can go wrong, with the property that covers
it or the reason why none does.

## 2. Modules

```
 AtomicCounter  <== PthreadSpin  <== XchgSpin            (<== : is implemented by)
 OneSlot        <== Mailbox          MailboxMC           MailboxSession
 FileStore      <== Osfs             OsfsMC
 FileStore      <== OsfsLinked       OsfsLinkedMC
 Osfs -> OsfsRace                    OsfsRaceMC
 OsfsDir, OsfsMount                  OsfsDirMC
 Descriptors, CommandLine -> Shell   ShellMC             (-> : is part of)
 MatMul, ProcFile -> ThreadPrograms  ThreadProgramsMC
 SpinProofs (PthreadSpin and XchgSpin), MailboxProofs, MailboxSessionProofs, ShellProofs,
 ThreadProgramsProofs, OsfsProofs (Osfs and OsfsRace), OsfsLinkedProofs,
 OsfsVfsProofs (OsfsDir and OsfsMount)
```

**PthreadSpin** (`1_1.c`).  `a = a + 1` is `Load` and `Store`; `SpinLock` and
`SpinUnlock` are the library's and atomic; `Create`, `Join` and `Fprintf` are
`main`.  `i` is the loop variable, `pc` and `mpc` the program counters.

**XchgSpin** (`1_2.c`).  One action per instruction that matters: `LockMov`
(mov), `LockXchg` (xchg, atomic as x86 has it), `LockJs` (sub and js on the
thread's own register), `UnlockMov`, `UnlockXchg`.  `lock = 1` means free.

**AtomicCounter**.  What both programs promise: an addition is one step, none is
lost, and the sum is printed after the last.

**Mailbox** (`send`, `receive` and the loops of both `main`s).  `flag` chooses the
mechanism, as the command line does.  Every semaphore call is a step.  `mq_send`
and `mq_receive` are system calls and take effect at once; the two `strcpy`s of
the shared memory have a begin and an end, and between them the segment holds
`Garbage`.  A line of the file is a model value: the properties only tell
messages apart from each other and from `exit`.  `n` counts the messages the
sender has taken up, `got` records what `receive` has returned.

**OneSlot**.  What the mailbox promises: a channel for one message, each
delivered once and in order.

**MailboxSession** (the rest of lab1).  Processes are started, run from `main` to its
return, and may be killed.  `named` maps each name to the object it stands for at
the moment; an object that has lost its name lives on for those that hold it
(`held`).  `OpenStore` is `mq_open` or `shm_open`: whoever comes first creates the
store, and a queue the receiver creates takes messages longer than its buffer, for
which `mq_receive` fails unseen (`Get`).  `CreateSemaphore` is the sender's
`sem_open` with `O_CREAT`, which takes over whatever count it finds;
`FindSemaphore` is the receiver's without it ("sender" and "/sender" are one name
to the library).  `SenderOpened` and `ReceiverOpened` are the checks after the
calls, with `ftruncate` and `fopen`; `CleanUp` unlinks the three names, whatever
they stand for by then.  `sound` and `crowd` only record: which senders have found
nothing left in the objects they opened, and which two processes have held the object
of which name while both ran.  All processes use one mechanism.

**Osfs** (lab4/basic).  One action per call and outcome.  `Init` is what
`osfs_fill_super` leaves.  `CreateNoSpace`, `CreateNoMemory`, `CreateDirFull` and
`Create` are the ways through `osfs_create`, with `osfs_new_inode` and
`osfs_add_dir_entry` inside; `Lookup` is `osfs_lookup` with `osfs_iget`;
`WriteNoSpace`, `WriteNone`, `WriteFault` and `Write` are those of `osfs_write`,
`ReadEnd` and `Read` those of `osfs_read`.  `entries` stands for the directory's
bytes and its `i_size` together.  `vfs[i]` holds the sizes of up to two VFS inodes
of one file: the one its creator has open, whose dentry is never hashed, and the
one a path lookup makes and hashes.  External, and modelled by what the code
sees of them: the VFS evicting inodes (`Evict`) and, since the file's inode
operations have no `setattr`, truncating its own inode only (`Truncate`); a
failing `new_inode`; `copy_from_user` failing after some bytes and clearing the
rest; positions set by `lseek`.  `MayCreate` is the VFS calling `create` only for
a name that lookup has not found, which is why `-EEXIST` (`dir.c:228`) is not
reached; `-ENAMETOOLONG`, `-EINVAL` and `-EIO` are ruled out by the VFS or by the
inode numbers handed out.

**OsfsLinked** (lab4/bonus).  The same calls over chains of blocks: `Chain(i)` is the
walk along the `next_block` headers, `FindBlock` is `osfs_find_block`, `Extended` and
`Linked` are what `osfs_append_block` does to the inode and to the headers, for as
many blocks as the call takes.  `CreateExists` is the `-EEXIST` of
`osfs_add_dir_entry`, which programs reach here because `osfs_lookup` (`LookupNames`)
finds only the files of the first block.  A block's bytes and its directory entries
are two arrays: `EachBlockOnce` shows that no block is ever both.  VFS inodes are
left out: the module never reads their sizes, and `osfs_create` keeps a reference
to each dentry, so that every created file stays in use.

**FileStore**.  What both promise to programs: files are independent arrays of bytes
(one block at most in basic, the disk in bonus), each call returns what the array
held, and a write that fails half-way spoils at most the bytes it was to replace.
`EmptyWriteExtends` tells the two apart: in bonus a write of no bytes beyond the end
raises the size.

**OsfsRace** (lab4/basic with calls that overlap).  It extends `Osfs`: the same state,
with a place in the code (`pc`) and local variables (`call`) for every process.  A call
is cut where it touches what other calls change.  `TestBit`, `SetBit`, `LoadCount`,
`StoreCount` and `Place` are `osfs_alloc_data_block`; `CreateBegin` and `CreateEnd` the
parts of `osfs_create` before and after it; `WriteBegin`, `MarkBlocks`, `Aim`, `Copy`
and `SetSize` are `osfs_write`.  The VFS holds the lock of the directory's inode around
`osfs_create` (`dirlock`), so that two creations never overlap; nothing holds the lock
of the file around `osfs_write`, because the module takes none.  What only a creation
touches (the inode bitmap, `nr_free_inodes`, the entries) therefore needs no finer
steps.  `raced`, `miscounted`, `vague` and `told` only record: blocks that one call
found clear while another had found them so, decrements that overlapped, files whose
writes overlapped or failed, and what the other files should hold.  Left out as they
change nothing: reads, lookups and the VFS inodes; writes are at position 0.

**OsfsDir** (`osfs_iterate` of both versions).  `GetDents` is a program's getdents with
room for some entries and `osfs_iterate` under it: `DotsEmitted` is `dir_emit_dots`,
`FirstEntry` the entry the loop starts from, `Emits` and `Moved` the loop, `Outcome`
what the program is told.  `Create` and `CreateExists` are what creations do to the
directory between two calls; the VFS keeps the calls themselves apart.  `bonus` chooses
the version: there the directory is a chain, `Position` numbers its entries block after
block, and the loop starts two entries before the first, since `curr_entry` is taken
before the dots move the position.  Those two are whatever the memory holds, a name
(`Stray`) or an empty one, at which the VFS stops.  Files are told apart by their names
(`NamesAssumption`); that bonus can make two of one name is `OsfsLinkedNames`'s finding.

**OsfsMount** (`super.c`, `osfs_init.c`, the same in both versions).  Several mounts at
once, each a step for every call that may fail: `Alloc` or `NoMemory`, `RootInode` or
`NoRootInode`, `MakeRoot` or `NoRoot`; `Kill` is `osfs_kill_superblock`, at unmount and
after a failed mount.  `holder` is vmalloc's view of the memory.  What it shows is proved for
all sizes, so that no run is kept for it.  External: the super
blocks and the module's use count, vmalloc, and that `iput` of an inode which
`d_make_root` has put already stops the kernel thread (`dead`).  `exposed` only records
which mounts were given memory that another one still points to.

**Descriptors, CommandLine, Shell** (lab2).  `CommandLine` is `split_line` word by
word, and beside it a reading of a line by positions, with which the properties
compare it.  `Descriptors` is what the kernel does to a descriptor table.  `Shell`
is the rest.  Every process has its own table and its place in the code:
`ReadLine` (`read_line`, `split_line` and the choice of the branch), `StartBuiltin`
with the two `dup`s, `RedirectIn`, `RedirectOut` (`access`), `Create` (`open`), `Ask` and
`Answer` (`redirection`, run by the shell for a built-in and by a child for itself; two
commands of a line may both find a file absent and both create it),
`RunBuiltin` (the built-in, the two `dup2`s back and the `close`s), `SpawnProc`,
`ForkNode` (pipe, fork and the child's own `dup2`s and `close`s, which nobody else
can see), `CloseEnds` (the parent's part), `WaitChildren`, `ForkFails`.  A text is a
sequence of lines and a line a sequence of words, so that what a command prints can
be read as a command.  `First` is the first character of a word, all that `split_line` looks at.
`inbuf` is the rest of `stdin`'s buffer, which a child gets a
copy of; a question whose answer is there is not shown (`Flushed` is where it can
still end up).  `pool` remembers whether the freed nodes had `in_file` and `out_file` set,
last freed first: `split_line` does not initialise them in the nodes after a `|`, so
that a node may start with a pointer into the current line's buffer (any name).
External: the kernel, and the programs `cat`, `head` (one line) and `ls`.
Standard input and output of the shell are a terminal; wordings are one `Notice`;
names of files are relative to one directory, which `cd` does not change here.

**MatMul, ProcFile, ThreadPrograms** (lab3/2, lab3/3).  The constants X and Y are the
matrices.  `MatMul` says which thread adds which products to which element (`Rows`,
`Inners`, `Target`); each `z[i][j] += ...` is `Load` and `Store`, as the unoptimised
build has it; 2_1 sums in a variable of its own (`AddLocal`).  `ProcFile` is the two
kernel modules, a step for every access to the one buffer: `memset`, `snprintf`,
`strlen`, `copy_to_user`.  `ThreadPrograms` puts them together: `program` chooses 2_1,
2_2, 3_1 or 3_2, the last one for two threads or for one; `main` creates, in 3_1 reads the list of
threads while they multiply, joins and writes the file.  A thread of 3_2 that cannot open the proc file leaves
(`OpenFails`).  `met` and `crossed` only
record: elements two threads were adding to at one time, and threads whose
conversation with the kernel another one's call came into.

Definitions named *Mutant* in a comment are deliberately wrong variants of the
definition that follows; nothing uses them except the mutation runs that show
each property can fail.

## 3. Runs

| Run | Instance | Shows |
|---|---|---|
| `XchgSpin` | 2 threads, 3 iterations | `LockExclusive` (word and owner agree), both refinements, `Terminates` |
| `Mailbox` | every file of at most 3 lines over 2 lines, queue of 2, both mechanisms | `OneToken`, `StoreExclusive`, `QueueNeverBlocks`, `ImplementsOneSlot`, `AllDelivered` |
| `MailboxExitLine` | lines `a` and `exit`, at most 2 | **violation** of `SenderTerminates` |
| `Osfs` | 3 names, directory of 2, inodes 1 to 5, 4 blocks of 2 bytes, counter modulo 8, buffers of 0, 1 and 3 bytes, positions 0 to 3, truncation to 0 and 3 | `TypeOK`, `BlocksExclusive`, `FreeBlocksExact`, `DirectorySound`, `NoOrphans`, `BlockStays`, `ImplementsFileStore` |
| `OsfsLinked` | 2 names, one entry and two bytes to a block, 4 blocks, inodes 1 to 4, buffers of 0, 1 and 3 bytes at 0 and 3 | `ChainsSound`, `EachBlockOnce`, `CountersExact`, `EntriesKept`, `ImplementsFileStore` |
| `OsfsLinkedNames` | 5 names, 2 entries to a block, no file data | **violation** of `NamesUnique` |
| `MailboxSession` | each program started twice, files of one line, one process killed, both mechanisms | `SessionDelivers`, `SessionEnds` |
| `Shell` | 3 lines out of 11, 3 names, history of 2, pipelines of up to 3, pipes of 2 lines | `PromptClean`, `CommandsAsWritten`, `HistoryRecent`, `OverwriteAsked`, `PipelineComposes`, `LineFinishes` |
| `ThreadPrograms` | 3 by 3 times 3 by 2, all five programs | `SumsExact`, `HearsItself`, `ListsWorking`, `Ends` |
| `ThreadAnswers` | 1 by 2 times 2 by 1, all five programs | **violation** of `ProductExact` |
| `OsfsRace` | 2 processes, 2 names, inodes 1 to 3, 4 blocks of 1 byte, 2 different writes | `BlocksApart`, `CountExact`, `WritesKept` |
| `OsfsDir` | both versions, 7 files, 2 entries to a block, 5 blocks, buffers for 1 to 5 entries | `ListedInOrder`, `ListingComplete`, `ListingEnds` |

What those since `MailboxSession` say:

* `SessionDelivers` names the conditions under which a sender and a receiver are a
  session that works: they have held the same three objects while both ran, nobody
  else who ran has held one of these with either, and the sender has found the
  semaphores at 0 and the queue empty and of its own size.  Then the receiver gets all messages in
  order, also after a session that was killed and while others' clean-up takes the
  names away.  `SessionEnds`: unless one is cut short, both end.  Sessions that do
  not meet the conditions are in the run too: a receiver that creates the queue
  first, counts left by a killed process, names removed between a sender's start
  and its receiver's.  It is not enough that the two hold the same objects: with two
  kills, a sender that has failed at `fopen` and a receiver that starts later can hold
  the objects of a session that came and went in between.  The theorem (section 5)
  has no bound on kills; TLC has also been through the instance with two and with four.
* `PromptClean`: when the shell asks for a line it has 0, 1 and 2 on the terminal,
  nothing else open and no child left, whatever pipelines, redirections and
  failures came before.  `CommandsAsWritten`: each command gets the arguments and
  files its line names, and a redirection the line does not name only if an earlier
  line had one of that kind.  `HistoryRecent`: `record` prints the last lines, oldest
  first.  `OverwriteAsked`: a file that was there is overwritten only after a yes.
  `PipelineComposes`: what a line of filters shows is what the filters make of each
  other's output.  `LineFinishes`: every line comes back to the prompt, the end of
  the shell, or a command that waits for someone to type.
* `SumsExact`: the product every program but 2_2 writes is exact, whichever way the
  threads and the calls into the kernel come between each other.  For 2_2 it does not
  hold, against the repository's own answers: `ThreadAnswers` has TLC find the lost
  addition (section 4).  `HearsItself`: a thread of 3_2 into whose
  conversation no call of the other one came reads its greeting and its own line.
  `ListsWorking`: main of 3_1 is told once of every thread still at work.  `Ends`:
  however the calls disturb each other, all programs end.
* `BlocksApart`: two files share a block only if two calls were allocating it at one
  time, between `test_bit` and `set_bit`.  `CountExact`: `nr_free_blocks` goes wrong
  only by such a race or by two decrements that overlap.  `WritesKept`: a file whose
  own writes did not overlap, in a block nobody raced for, holds what was written,
  whatever went on in other files.  That `DirectorySound` (of `Osfs`) holds too with
  calls overlapping is proved (section 5).
* `ListedInOrder`: no listing names a file twice, or a younger one first, however small
  its buffers and whatever is created meanwhile.  `ListingComplete`: it ends with all
  files that are there, unless the first buffer took "." only (the position is then 1
  and the loop starts from entry -1: ".." is lost), or in bonus a stray name was listed
  and moved the position on, or a creation that failed with `-EEXIST` has left an empty
  block.  `ListingEnds`: with an end or an error, every listing ends.

Bounds, and why they are enough to meet the interesting cases:

* `N = 3`: both threads can spin, win, lose and overtake each other, and end in
  either order.  The code has 10000.
* Files of 0 to 3 lines: the first, a middle and the last message, equal and
  different neighbours.  The queue's limit of 2 (10 in the code) is one above what
  the protocol should ever need, so that running ahead would show.
* `Osfs`: as in the code (20 inodes, so 19) the inode counter starts odd,
  5, and wraps at the third creation, which also finds the directory full;
  four blocks serve two lost ones and two files, and run out when a third
  creation loses one more.  A block of two bytes has a start, an end and a beyond;
  buffers fill a part of it, all of it and more.  Two constraints (`OsfsMC`) keep the
  run short: the VFS has inodes of at most one file in memory at a time (`OneInMemory`;
  the module's calls on a file look at that file's inodes only), and at most one
  inode number is lost by a creation that fails (`OneInodeLost`; with two lost and two
  files there are none left).  The theorems have neither.
* `OsfsLinked`: with one entry to a block the second file is already out of
  `osfs_lookup`'s sight, so that creating it again fails and leaves an empty
  directory block; a write of three bytes crosses from one block to the next, one
  at 3 leaves a hole and needs three blocks; four blocks run out in the middle of
  it.  The run has no third name: with one, two files of the same name can arise
  (`OsfsLinkedNames`), and "the file a name stands for", which `ImplementsFileStore`
  speaks of, is then none.
* `MailboxSession`: two starts of each program are a session and the next one, or a
  second try; a program is started again when its last run is over or at least
  removing the names (`Start`).  One line and the exit message, so that the traffic
  has a first and a last message; the queue's limit of 2 is never reached by a
  session that works.  One kill, at any step.  `CHECK_DEADLOCK FALSE`: a process
  without its partner waits for ever, and that is what the code does.
* `Shell`: `MaxCmds` bounds the commands of a line (`ForkNode` makes no more children;
  no line of the run has more).  `>g` is a word that only begins with a sign.  A
  history of 2 goes round with the third line; three processes have two pipes, so
  that the first one's read end is open when the second is made; a pipe of 2 lines
  fills.  The eleven lines are an empty one, built-ins with and without
  redirections, single commands and pipelines, with file names that exist, that do
  not, and that are created by an earlier line.
* `ThreadPrograms`: three rows and three products split into a short and a long half;
  two columns tell rows from columns.  All products differ, so that a lost one shows.
  3_2's buffer has room for 20 lines (`BufferLines`); the code's 1024 bytes hold more,
  and no thread of the run writes as many.  `ThreadAnswers`: one element and two
  products, one for each thread, are what a lost addition takes.
* `OsfsRace`: two processes are what a race over one block takes; a creation and a
  write, two writes to one file and to two files all overlap, and four blocks run out
  (two creations, two first writes).  A third process would only let a race involve
  three calls; what the run shows is proved for any number.
* `OsfsDir`: seven files fill three blocks and begin a fourth; the fifth block is for a
  failed creation's.  The basic directory is full with two files, as it is with three
  in the code.  A buffer for 5 entries reads the dots and more than a block.
* `Osfs` uses symmetry on file names: they are only compared, and all
  its properties are safety properties.  `Name` has one name more
  than the directory has room for.

Deadlock is checked in every run but `MailboxExitLine`, where the system stops (that
is what the run shows), and `MailboxSession`.

**Fairness.**  `XchgSpin`: weak fairness for each thread and for `main`, the
scheduler running every runnable thread.  No fairness of the lock is assumed: a
thread may lose any number of races, but the other has only `N` iterations.
`Mailbox`: weak fairness for each process.  A process blocked in `sem_wait` is
not enabled; each semaphore has one waiter, which is enabled until it runs once
the count is positive, so that weak fairness is what the kernel gives.  Osfs has
no liveness property: nothing in it waits.  `MailboxSession`: the same for each
process, while nobody need start or kill one.  `Shell`: weak fairness for the shell
while it works on a line and for each child; nobody need type a line.
`ThreadPrograms`: weak fairness for `main` and each thread.  `OsfsDir`: weak fairness
for the listing program, which calls until it is told that there is no more; nobody
need create a file.  `OsfsRace` and `OsfsMount` have safety properties only.

## 4. What disagrees with the code's own words

* **A line `exit` strands the sender** (`MailboxExitLine`).  `sender.c:46-47`
  sends an exit message at the end of the file and says the sender terminates.
  The receiver cannot tell that message from a line of the file that reads
  `exit` and stops there (`receiver.c:95`); the sender's next `sem_wait`
  (`sender.c:12`) never returns.
* **Two files of one name** (`OsfsLinkedNames`).  `osfs_add_dir_entry` chains a new
  directory block before it finds, by a walk over the whole directory
  (`dir.c:127-129`), that the name exists.  The empty block stays, the walks count
  entries as if it were full, and the next file is created twice.  The real sizes
  (three entries to a block, 20 inodes) allow it with nine creations.  The name gets
  as far as that because `osfs_lookup` finds only the files of the first block (lines
  25-26 and 45-48), while `dir.c:7-8` says that it visits all.
* **2_2 prints less than its answer** (`ThreadAnswers`).  Both threads add to the same
  elements without a lock (`2_2.c:53` and 67; the spin lock is initialised and destroyed
  and never taken), so that an addition that falls between the other thread's load and
  store is lost.  `2_2_ans.txt` is ten times the exact product, and `judge2`
  (`lab3/2/Makefile:8-14`) runs 2_2 ten times against it.  `SumsOffWhereMet` (section 5)
  says how wrong the product can be: too small, and only at elements both threads were
  adding to at one time.

Disagreements that have no run of their own.  `nr_free_inodes`, "Number of free
inodes" (`osfs.h:37`), goes down twice for a file in the basic version (`inode.c:40` and
`dir.c:194`; bonus has it go down once), from an odd value below zero: no property
holds the field to its name, and the theorem `OsfsLostBlocks` (section 5) says by how
much it is wrong.
`osfs_alloc_data_block`, which "allocates a free data block" (`inode.c:100`), looks at
a bit and sets it in two steps, and two calls can be given one block (the block is then
in `raced`); `osfs_iget` "creates or retrieves a VFS inode" (`inode.c:50`) but never
retrieves, so that a file its creator has open gets a second one from a lookup.

Met while modelling and not a disagreement with any text: every created file
loses a block (`OsfsLostBlocks`); only that loss keeps files away from block 0, which
the root directory uses without having allocated it (`BlocksExclusive` would
fail if the loss alone were repaired, as its mutant shows); truncation succeeds
and leaves the old bytes readable; in bonus a write of no bytes can allocate
blocks and raise the size.  A mount without a root inode frees its memory
twice, one without a root dentry stops the kernel thread.  A listing with a buffer for
one entry loses ".."; in bonus it may begin with names that are nobody's.
In lab1, a receiver that starts first ends at once but
leaves a queue behind with which no later session works (`mq_receive` fails, the
receiver prints its buffer and never sees the exit message); with shared memory the
same start is harmless.  In lab2, a command after `|` may be redirected to a file its
line does not name: after two lines `cat < f | head`, `ls | cat` fails to open its
"input file" (the built shell does so too).  The answer to "Overwrite?" is read from
the file of `<` when there is one, and for a built-in the rest of that file is then
run as commands; what `echo -n` prints into a file appears on the terminal; a
built-in whose `<` cannot be opened ends the shell; at the end of its input the
shell does not stop.  In lab3, a thread of 3_2 may read
nothing but the other one's line; 3_2 for one thread joins a `pthread_t` that was
never set (`3_2.c:161`), an error or a crash.

## 5. Proofs

TLC checks the instances above; TLAPS proves the following for all values of the
constants, from the `ASSUME`s of the modules alone (sizes are positive numbers,
0 is a byte, files are sequences of lines, and the like).

* **`SpinProofs`**: `PthreadPrintsTotal`, `PthreadImplementsAtomicCounter` for `1_1.c`
  (`Library`, the instance with its own lock and positions), and for `1_2.c`
  `XchgLockExclusive`, `XchgPrintsTotal`, `XchgImplementsPthreadSpin` and
  `XchgImplementsAtomicCounter`.  The inductive invariants say that the thread holding
  the lock, and only it, is inside, that what it has loaded is still the value of `a`
  until it stores, and that `a` is the sum of the additions made.  `PrintsTotal` alone is
  not inductive: it does not say what a thread about to store holds in its register.
  For the assembly they add what `eax` holds at each instruction; with it each
  instruction maps to a step of `PthreadSpin` or to none: the xchg that brings 1 is
  `SpinLock`, a losing one is nothing.
* **`MailboxProofs`**: `MailboxOneToken`, the count of the one right to touch the
  store, and from it `MailboxExclusive` and `MailboxQueueNeverBlocks`;
  `MailboxImplementsOneSlot` from an invariant that says, at
  each pair of positions, what queue and segment hold.
* **`MailboxSessionProofs`**: `MailboxSessionDelivers`, for any number of starts, kills
  and lines, any size of the queue and both mechanisms.  `Met` says that the record
  `crowd` is true: who has met holds the same object, and who runs and holds the same
  object has met.  So nobody else touches the objects of a sender and a receiver that
  have met nobody else (`ApartStays`).  For such a pair `CleanAt` says that until the
  receiver has asked for the first time the semaphores are at 0 and the store is empty,
  `PendingAt` that a request is not lost on a sender that has yet to open its semaphore
  (it then finds a count and is not sound), and `Turn` whose turn it is from then on: at
  each position of the receiver, where the sender can be, the two counts, and that the
  store holds the next message and nothing else.  `SessionDelivers` alone is not
  inductive, and neither is `Turn`: what a process opens may have been used, so that the
  proof has to speak of pairs that are not yet together.  In its first form, in which
  holding the same objects was enough, the property held for one kill only; the attempt
  to prove it showed the case with two (section 3).
* **`OsfsProofs`**: `IInv` joins the invariants checked by the runs with four facts
  that make them inductive: `RootTaken` (inode 1 is never handed out again),
  `RootBlockTaken` (block 0 is gone before there is a file to write to),
  `NoOrphans` (what is free is referred to by nothing) and `Unwritten` (what has
  not been written is zero).  `OsfsStep` has one lemma per kind of call; those
  that write share `MapBlock`, those that create share `NewFileKeeps`.  From
  it follow `OsfsTypeOK`, `OsfsBlocksExclusive`, `OsfsFreeBlocksExact`,
  `OsfsDirectorySound`, `OsfsNoOrphans` and the action property `OsfsBlockStays`.
  `OsfsLostBlocks` counts: the blocks nothing points to are the taken ones less the
  root's and the owned ones, and each creation, also one that fails after
  `osfs_new_inode`, adds one to both sides of its equations.
  `OsfsImplementsFileStore` is the refinement, one lemma per kind of call: what a
  call does to one inode is what `FileStore` does to the file of that name
  (`OneFileChanges`), because distinct files have distinct inodes (`DirectorySound`)
  and distinct blocks (`BlocksExclusive`), and other calls change no file
  (`NoFileChanges`).
  Calls that overlap, in the same module, for any number of processes: `RaceBlocksApart`,
  `RaceDirectorySound`, `RaceCountExact`, `RaceWritesKept`.  The invariant `RInv` follows
  a block from the moment a call finds it clear: until it is placed the call holds it
  alone, unless the block is in `raced` (`OneHolder`), from `set_bit` on its bit is set
  (`Marked`), and block 0 is taken before there is an entry through which a file could
  be written (`RootBlock`); `Directory` ties the one creation under way to the lock, the
  bitmap and the entries.  `CInv` adds that the counter lags behind the bitmap by the
  calls between `set_bit` and their store (`CountLags`), as long as no two of them have
  loaded it.  `WInv` adds, for a file whose writes have not overlapped, that one call at
  a time writes it (`OneWriter`, `Writers`), that what nobody has written is zero
  (`Clean`), and that the file is what its caller was told, but for the bytes of a call
  that has copied and not returned (`Kept`).
* **`ShellProofs`**, for every set of lines that may be typed and of files, pipelines of
  any length, any size of the history and of a pipe: `ShellPromptClean`,
  `ShellOverwriteAsked`, `ShellHistoryRecent`, `ShellCommandsAsWritten` and
  `ShellPipelineComposes`.  The first two need one invariant, `ShellInv`, because a
  table that is closed properly is one that was opened as expected.  `Forking` and `With` give the shell's table at each step of a
  pipeline: its own three descriptors, the last pipe's read end at 3 or 4 and the next
  pipe's two ends in what is left of 3, 4 and 5, so that `close(pipe_fd[1])` and
  `close(in_fd)` close those and nothing else, also in the last round, where `pipe_fd`
  still holds the numbers of the round before.  `BuiltinRuns` gives it while a
  built-in runs: the copies at 3 and 4, and the terminal at whatever the node does
  not redirect, so that putting back only what it does redirect is enough.  `Children`
  says to which steps of the shell a child can live.  `Owned` follows the files: who has
  one at descriptor 1 has created it in this line or has been told yes.  `Types` and
  `Sound` are needed for the parser: a text that was printed may be read as commands, so
  that what `split_line` makes of any line must be nodes again (`ParseTyped`, by
  induction along the fold).  `HistoryInv` is where in the ring each of the last lines
  is; two lines less than MAX_RECORD_NUM apart never meet (`ModApart`), and going on
  from the oldest is going on from MAX_RECORD_NUM lines before (`ModShift`).  TLC
  has checked both invariants on the instance of the run `Shell`.
  `ShellCommandsAsWritten` compares two readings of a line: `split_line`'s, word by word
  with a state, and that of `CommandLine`, which says of each position what it is.
  Every definition of the second is followed one word further (`OperandMore`,
  `SegmentMore`, `ArgumentsMore`, `FieldMore`: what `IsOperand`, `Segment`, `Arguments`
  and the last redirection become when a word is added), `Parsed` says that the two
  agree, `ParsedMore` that they still do after a round of the loop, and `SplitIs` that
  they do at the end, for a line of any length.  `NodesInv` then follows the nodes
  through the shell: while a line is at hand they are what it says, and a node in the
  pool of freed ones had a redirection only if some line so far had one of that kind,
  which is all that the uninitialised `in_file` and `out_file` of a later line can show.
  `ShellPipelineComposes` needs to know where every line is that has gone through a
  pipeline.  `PipeInv` says that there are texts `w`, the lines each command has written
  so far, with four properties.  A pipe holds what has been written to it and not been
  taken from it, and a filter has taken in what it has passed on (`Flow`); what the last
  command has written is on the screen or in the file (`Output`); each command that has
  not ended has its ends of the pipes at 0 and 1, and its place in a file is as far as
  it has read or written (`Holds`).  And `w[k]` is the beginning of what the first `k`
  commands make of any input that may yet come (`Composes`, `Follows`), all of it when
  the command has ended, unless the next one has ended too.  The exception is SIGPIPE:
  `head` ends after one line, and `cat` before it dies at its next write, with lines not
  passed on that nobody was going to read; as the last command has no next one, what it
  has written is complete.  Two things the code does are used for this: a command finds
  the end of its input only when the one before it has ended (`LastDead`), and gets
  SIGPIPE only when the next one has (`NextDead`), both because the shell closes its own
  ends in each round, which `ShellInv` says.  What the keyboard may give is not yet
  known while the first command reads, so that `Follows` is about every continuation.
* **`OsfsLinkedProofs`**, for every size of disk, blocks and directory:
  `LinkedCountersExact`, `LinkedEntriesKept`, `LinkedChainsSound` and
  `LinkedEachBlockOnce`, from `LinkedInv`.  `Chain(i)` is a function defined by recursion
  along the headers; what it is after a block is appended (the old chain, and the new
  block behind its tail) is shown by induction over the place in the chain, in the form
  of the least number for which it could fail (`Least`, `Induct`).  The invariant joins
  `Paths` (a chain has `i_blocks` taken blocks and ends at its tail), `Apart` (no block
  at two places of the chains), `Covered` (each taken block at one), `Sizes`,
  `Fresh` (a free inode is as new), `Blank` and `TailFree` (no entries outside the
  directory's chain, or behind those its size counts).
* **`OsfsVfsProofs`**, what the VFS asks of both versions.  `DirListedInOrder` and
  `DirListingComplete`, for any number of files, entries to a block and room in the
  program's buffer: entries lie in the order of creation whatever gaps a failed creation
  has left (`Slots`), what has been listed lies before the position (`Passed`), the
  chain without gaps is the sequence of the files (`Flat`), and a listing that has met
  none of the three exceptions has all files before its position (`Full`).
  `MountRegionKept` and `MountNoRegionLost`, for any number of file systems: a mount
  whose root inode cannot be made frees its region twice
  (`super.c:86`, `osfs_init.c:121`).  A file system can lose its memory to that only if
  it was given that region in between, or one that such a file system had (`exposed`);
  and no failure loses a region, but a mount that has died keeps its own.  What makes
  `RegionKept` inductive is `Alone`: nobody else points to the region of a file system
  that is not exposed, so nobody else can free it.
* **`ThreadProgramsProofs`**, for matrices of every size and content: `ThreadsKeepApart`
  (in 3_1 and 3_2 no load or store of one thread comes between those of the other at one
  element, so that only 2_2 can lose an addition) and `ResultComplete` (main writes
  when every thread it has created has made all its additions).  The arithmetic is
  in `HalvesApart`: the quotient that gives a thread's row stays within its half.
  The invariant adds that a thread between load and store has additions left, that a
  thread beyond its loops has none, and which threads exist at each line of main.
  `SumsOffWhereMet` follows the elements: each is the sum of the products added so far
  by both threads unless they met at it, in which case it is at most that (`Elements`),
  and a loaded value is at most the element's, equal if they have not met
  (`Registers`).  `SumsAlwaysExact` follows from it and from `ThreadsKeepApart`, by which
  the threads of the other programs never meet.  That the sum over a set of products does not depend on the order in
  which they are added, and grows by the product of each addition, is an induction on
  the set's size (`ProductIs`, `SumSteps`).  `ThreadHearsItself` and `MainListsWorking`
  say what is in the kernel's one buffer at each line of each caller, as long as no other
  call has come in between (`Users`, `Hearing`, `Listing`).

The assumptions on constants are those the code makes: besides sizes and types, that
`nr_free_blocks` can count the blocks of the disk (`Word > BlockCount`: a `uint32_t`
and `DATA_BLOCK_COUNT`), that the matrices hold no negative numbers (`EntriesAssumption`;
`SumsOffWhereMet` says that a lost addition makes an element too small), that what is typed
and what is in the files is lines of words (`TextAssumption`) and that the files of
one directory have different names.

Model-checked only: the liveness properties (`Terminates`, `AllDelivered`,
`SessionEnds`, `LineFinishes`, `Ends`, `ListingEnds`), which the prover cannot treat under
fairness; and `OsfsLinked`'s refinement of `FileStore`, which does not hold for all
values of the constants: with three names two files of one name can arise
(`OsfsLinkedNames`), and calls by name then reach the first only.  `PrintsTotal` of `XchgSpin` is proved and no longer in a run: it follows
from the refinement the run checks.

## 6. Not modelled, and the plan

Left out for good: measuring time, console output, file permissions and time
stamps, `osfs_free_data_block` (nothing calls it), `test_cmd_struct` and
`test_pipe_struct` (nothing calls them), reading the matrices from their files,
loading and unloading kernel modules, build files and data.

Left out of what is modelled: in lab1, two programs started with different
mechanisms or with one that is neither 1 nor 2 (they use semaphores never opened);
in lab2, the directory `cd` changes, commands of ten and more words (`args` then has
no NULL at its end), a failing `dup`, `dup2` or `malloc`, a failing `open` of the output
file (`shell.c:50-53`), the question "Overwrite?" that stays in `stdout`'s buffer and
appears before the next line printed, and standard input and output that are not a
terminal; in lab3/3, `snprintf` and `memset` of one thread seen
half-done by the other, and failing copies to and from user space.

In lab4, calls that overlap in the bonus version: its allocation is unlocked in the
same way (`OsfsRace` shows what that does), but its chains have more to lose.

Next: two overlapping writes to one chain of the bonus version, as `OsfsRace` has them
for single blocks.
