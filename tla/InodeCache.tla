----------------------------- MODULE InodeCache -----------------------------
(***************************************************************************)
(* The inode layer of xv6 (fs.c): the inodes and directories on the disk   *)
(* as the buffer cache shows them, the bitmap of blocks, and the table of  *)
(* inodes in memory with its reference counts and I_BUSY locks.  Modules   *)
(* above it (FileSystem) combine these operations into system calls.  What *)
(* a crash leaves on the disk is the subject of Log: the state after the   *)
(* last commit_trans().                                                    *)
(***************************************************************************)
EXTENDS Integers, Sequences, FiniteSets

CONSTANTS Proc, NoProc,
          Inum,   \* the inodes 1..n on the disk; 1 is ROOTINO
          Block,  \* the data blocks 1..n
          Name    \* the names of files, besides "." and ".."

ROOTINO == 1
None    == 0

ASSUME InodeAssumption ==
  /\ IsFiniteSet(Proc) /\ NoProc \notin Proc
  /\ IsFiniteSet(Inum) /\ Inum \subseteq Nat \ {None} /\ ROOTINO \in Inum
  /\ IsFiniteSet(Block) /\ Block \subseteq Nat /\ 1 \in Block
  /\ IsFiniteSet(Name) /\ Name \cap {".", ".."} = {}

VARIABLES
  dinode,   \* the inodes on the disk
  entries,  \* the directory that the data of an inode is
  bitmap,   \* the blocks in use
  ref,      \* ip->ref, 0 for an inode that has no entry in the table
  locked,   \* the process that set I_BUSY
  valid,    \* the inodes with I_VALID
  inode     \* the copy in memory, up to date if I_VALID

ondisk == <<dinode, entries, bitmap>>
icache == <<ref, locked, valid, inode>>

Unused == [type |-> "none", nlink |-> 0, addrs |-> {}]
NoEntries == [n \in Name \cup {".."} |-> None]

\* a new file system, with the root as the directory of every process
Init ==
  /\ dinode = [i \in Inum |-> IF i = ROOTINO THEN [type |-> "dir", nlink |-> 1, addrs |-> {1}]
                                             ELSE Unused]
  /\ entries = [i \in Inum |-> IF i = ROOTINO THEN [NoEntries EXCEPT ![".."] = i] ELSE NoEntries]
  /\ bitmap = dinode[ROOTINO].addrs
  /\ ref = [i \in Inum |-> IF i = ROOTINO THEN Cardinality(Proc) ELSE 0]
  /\ locked = [i \in Inum |-> NoProc] /\ valid = {} /\ inode = [i \in Inum |-> Unused]

First(S) == CHOOSE x \in S : \A y \in S : x <= y

-----------------------------------------------------------------------------
(* dirlookup() and what it reads *)

\* the directory i read through its locked inode; 0 if the name is not there
DirLookup(i, n) == IF n = "." THEN i ELSE entries[i][n]

IsDirEmpty(i) == \A n \in Name : entries[i][n] = None

-----------------------------------------------------------------------------
(* Operations on the table *)

Loaded(i) == IF i \in valid THEN inode[i] ELSE dinode[i]

\* iget() and idup()
IGet(i) == ref' = [ref EXCEPT ![i] = @ + 1]

\* the last reference to any inode
Dies_AnyLinks(i) == ref[i] = 1 /\ i \in valid

\* any reference to an inode without links
Dies_AnyRef(i) == i \in valid /\ inode[i].nlink = 0

\* the first test of iput(): the last reference to an inode without links
Dies(i) == ref[i] = 1 /\ i \in valid /\ inode[i].nlink = 0

\* the end of iput(); an entry without references is no entry
IPut(i) ==
  /\ ref' = [ref EXCEPT ![i] = @ - 1]
  /\ valid' = IF ref[i] = 1 THEN valid \ {i} ELSE valid
  /\ inode' = IF ref[i] = 1 THEN [inode EXCEPT ![i] = Unused] ELSE inode

\* ilock() up to I_VALID; it sleeps while the inode is locked, and panics with
\* "ilock: no type" when the inode is free
Load(i) ==
  /\ locked[i] = NoProc /\ Loaded(i).type # "none"
  /\ valid' = valid \cup {i} /\ inode' = [inode EXCEPT ![i] = Loaded(i)]

ILock(p, i) == Load(i) /\ locked' = [locked EXCEPT ![i] = p]
IUnlock(i)  == locked' = [locked EXCEPT ![i] = NoProc]

\* the inodes with those of new instead
Changed(inodes, new) == [i \in Inum |-> IF i \in DOMAIN new THEN new[i] ELSE inodes[i]]
Only(i, ip) == [j \in {i} |-> ip]

\* only the copy in memory
IUpdate_MemoryOnly(new) == inode' = Changed(inode, new) /\ UNCHANGED dinode

\* iupdate() after changes of the copies in memory
IUpdate(new) == inode' = Changed(inode, new) /\ dinode' = Changed(dinode, new)

\* iput() of a dead inode: itrunc(), type = 0, iupdate(), flags = 0, ref--
IFree(i) ==
  /\ bitmap' = bitmap \ inode[i].addrs
  /\ dinode' = [dinode EXCEPT ![i] = Unused]
  /\ entries' = [entries EXCEPT ![i] = NoEntries]
  /\ ref' = [ref EXCEPT ![i] = @ - 1] /\ IUnlock(i)
  /\ valid' = valid \ {i} /\ inode' = [inode EXCEPT ![i] = Unused]
=============================================================================
