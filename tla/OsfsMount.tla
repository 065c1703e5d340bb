----------------------------- MODULE OsfsMount -----------------------------
(***************************************************************************)
(* lab4, basic and bonus: loading the module, mounting and unmounting, of  *)
(* several file systems at once.  What is followed is the memory region    *)
(* that holds a file system; what osfs_fill_super writes there is Init of  *)
(* Osfs and OsfsLinked.  vmalloc, new_inode and d_make_root may fail.      *)
(***************************************************************************)
CONSTANTS
  Super,              \* super blocks that the VFS hands out and takes back
  Region              \* the addresses vmalloc returns

VARIABLES
  registered,         \* the file system type is known to the VFS
  at,                 \* where the mount of each super block is
  s_fs_info,          \* the region it points to, {} for NULL
  holder,             \* the super block vmalloc has given each region to, if any
  exposed             \* history: who got a region another one still points to

vars == <<registered, at, s_fs_info, holder, exposed>>

Init ==
  /\ registered = FALSE
  /\ at = [s \in Super |-> "unused"]
  /\ s_fs_info = [s \in Super |-> {}]
  /\ holder = [r \in Region |-> {}]
  /\ exposed = {}

Goes(s, from, to) == at[s] = from /\ at' = [at EXCEPT ![s] = to]

\* vfree of NULL, or of what is free already, is nothing.
vfree(memory) == holder' = [r \in Region |-> IF r \in memory THEN {} ELSE holder[r]]

\* osfs_init
Load ==
  /\ ~registered /\ registered' = TRUE
  /\ UNCHANGED <<at, s_fs_info, holder, exposed>>

\* osfs_exit; the VFS keeps the module while it has a super block in use.
Unload ==
  /\ registered /\ registered' = FALSE
  /\ \A s \in Super : at[s] = "unused"
  /\ UNCHANGED <<at, s_fs_info, holder, exposed>>

\* osfs_mount: mount_nodev takes a new super block.
Mount(s) ==
  /\ registered
  /\ Goes(s, "unused", "alloc")
  /\ UNCHANGED <<registered, s_fs_info, holder, exposed>>

\* osfs_fill_super up to sb->s_fs_info.  vmalloc returns what nobody has at
\* the time.
Alloc(s, r) ==
  /\ Goes(s, "alloc", "inode")
  /\ holder[r] = {}
  /\ holder' = [holder EXCEPT ![r] = {s}]
  /\ s_fs_info' = [s_fs_info EXCEPT ![s] = {r}]
  /\ exposed' = IF \E t \in Super \ {s} : r \in s_fs_info[t] THEN exposed \cup {s} ELSE exposed
  /\ UNCHANGED registered

NoMemory(s) ==
  /\ Goes(s, "alloc", "failed")
  /\ UNCHANGED <<registered, s_fs_info, holder, exposed>>

RootInode(s) ==
  /\ Goes(s, "inode", "root")
  /\ UNCHANGED <<registered, s_fs_info, holder, exposed>>

\* new_inode returns NULL: the region is given back and still pointed to.
NoRootInode(s) ==
  /\ Goes(s, "inode", "failed")
  /\ vfree(s_fs_info[s])
  /\ UNCHANGED <<registered, s_fs_info, exposed>>

MakeRoot(s) ==
  /\ Goes(s, "root", "mounted")
  /\ UNCHANGED <<registered, s_fs_info, holder, exposed>>

\* d_make_root returns NULL and has put the inode; iput of an inode that is
\* gone is a BUG of the kernel, and the mount never comes back.
NoRoot(s) ==
  /\ Goes(s, "root", "dead")
  /\ UNCHANGED <<registered, s_fs_info, holder, exposed>>

\* osfs_kill_superblock, at unmount and after a mount that has failed.
Kill(s) ==
  /\ at[s] \in {"failed", "mounted"} /\ at' = [at EXCEPT ![s] = "unused"]
  /\ vfree(s_fs_info[s])
  /\ s_fs_info' = [s_fs_info EXCEPT ![s] = {}]
  /\ exposed' = exposed \ {s}
  /\ UNCHANGED registered

Step(s) ==
  \/ Mount(s) \/ (\E r \in Region : Alloc(s, r)) \/ NoMemory(s)
  \/ RootInode(s) \/ NoRootInode(s) \/ MakeRoot(s) \/ NoRoot(s) \/ Kill(s)

Next == Load \/ Unload \/ \E s \in Super : Step(s)

Spec == Init /\ [][Next]_vars
-----------------------------------------------------------------------------
Holds(s) == at[s] \in {"inode", "root", "mounted", "dead"}

\* A file system being mounted or in use has its region to itself, whatever
\* mounts fail meanwhile: a mount without a root inode frees its region twice,
\* which takes it from another one only if that one was given it in between
\* (or from one that was).
RegionKept ==
  \A s \in Super \ exposed : Holds(s) =>
    s_fs_info[s] # {} /\ \A r \in s_fs_info[s] : holder[r] = {s}

\* No failure and no order of mounts leaks memory: a region is taken only for
\* a super block that still points to it, and will free it or has died.
NoRegionLost ==
  \A r \in Region, s \in Super : s \in holder[r] => Holds(s) /\ r \in s_fs_info[s]
=============================================================================
