----------------------------- MODULE FileSystem -----------------------------
(***************************************************************************)
(* The system calls on files of xv6 (sysfile.c, file.c and namex() of      *)
(* fs.c) as concurrent processes run them: every call is a sequence of     *)
(* steps on inodes, todo[p], and a step may put others in its place.       *)
(* begin_trans() makes calls that write wait for each other; lookups and   *)
(* calls that only read run at any moment.                                 *)
(***************************************************************************)
EXTENDS InodeCache

CONSTANTS Path,    \* paths, [abs |-> it begins with a slash, elems |-> its names]
          Calls    \* the system calls that each process makes

VARIABLES
  writer,   \* the process between begin_trans and commit_trans
  holds,    \* the references of a process: its cwd, its open file, local variables
  todo      \* the steps that are left of the call of a process

fsvars == <<ondisk, icache, writer, holds, todo>>

Refs == {"cwd", "file", "ip", "dp", "next"}

FsInit ==
  /\ Init /\ writer = NoProc /\ todo = [p \in Proc |-> <<>>]
  /\ holds = [p \in Proc |-> [x \in Refs |-> IF x = "cwd" THEN ROOTINO ELSE None]]

-----------------------------------------------------------------------------
(* The steps of the calls.  x says which reference a step works on.        *)

Op(f, x)     == [f |-> f, x |-> x]
On(f, x, path) == [f |-> f, x |-> x, path |-> path]
Begin        == <<Op("begin_trans", "log")>>
Commit       == <<Op("commit_trans", "log")>>
Lock(x)      == <<Op("ilock", x)>>
Unlock(x)    == <<Op("iunlock", x)>>
Put(x)       == <<Op("iput", x)>>
UnlockPut(x) == Unlock(x) \o Put(x)

\* namei() to ip, nameiparent() to dp; fail: what the caller does after a 0
Lookup(f, x, path, fail) == [f |-> f, x |-> x, path |-> path, fail |-> fail]
Namei(x, path, fail) == <<Lookup("namei", x, path, fail)>>

Open(path)  == Namei("ip", path, <<>>) \o Lock("ip") \o <<Op("open", "ip")>>
Chdir(path) == Namei("ip", path, <<>>) \o Lock("ip") \o <<Op("chdir", "ip")>>
Close       == Begin \o Put("file") \o Commit
Write       == Begin \o Lock("file") \o <<Op("writei", "file")>> \o Unlock("file") \o Commit

\* create() inside open(O_CREATE) and mkdir()
Create(path, type) ==
  Begin \o Namei("dp", path, Commit) \o Lock("dp")
  \o <<[f |-> "create", x |-> "dp", path |-> path, type |-> type]>>
Created(type) ==
  IF type = "file" THEN Commit \o <<Op("open", "ip")>> ELSE UnlockPut("ip") \o Commit

\* the directory is locked before the log is
Unlink_LocksFirst(path) ==
  Namei("dp", path, <<>>) \o Lock("dp") \o Begin \o <<On("dirlookup", "dp", path)>>

Unlink(path) ==
  Namei("dp", path, <<>>) \o Begin \o Lock("dp") \o <<On("dirlookup", "dp", path)>>

\* the directory is not put
UnlinkBad_Leaks == Unlock("dp") \o Commit

UnlinkBad == UnlockPut("dp") \o Commit

Link(old, new) ==
  Namei("ip", old, <<>>) \o Begin \o Lock("ip") \o <<On("link", "ip", new)>>
LinkBad == Lock("ip") \o <<Op("nlink--", "ip")>> \o UnlockPut("ip") \o Commit

\* a system call with its arguments
SystemCall ==
  {Close, Write}
  \cup {Open(path) : path \in Path} \cup {Chdir(path) : path \in Path}
  \cup {Create(path, type) : path \in Path, type \in {"file", "dir"}}
  \cup {Unlink(path) : path \in Path} \cup {Link(old, new) : old \in Path, new \in Path}

ASSUME CallsAssumption ==
  /\ \A path \in Path : path.elems \in Seq(Name \cup {".", ".."})
  /\ Calls \in [Proc -> SUBSET SystemCall]

\* read and write need an open file, and a directory is only opened to read
Possible(p, call) ==
  /\ call \in {Write, Close} => holds[p].file # None
  /\ call = Write => Loaded(holds[p].file).type = "file"

Call(p) ==
  /\ todo[p] = <<>>
  /\ \E call \in Calls[p] : Possible(p, call) /\ todo' = [todo EXCEPT ![p] = call]
  /\ UNCHANGED <<ondisk, icache, writer, holds>>

-----------------------------------------------------------------------------
(* Steps that all calls have *)

Doing(p, f)  == todo[p] # <<>> /\ Head(todo[p]).f = f
Now(p)       == Head(todo[p])
At(p)        == holds[p][Now(p).x]
Then(p, new) == todo' = [todo EXCEPT ![p] = new \o Tail(@)]
Instead(p, new) == todo' = [todo EXCEPT ![p] = new]
Hold(p, x, i)   == holds' = [holds EXCEPT ![p][x] = i]

\* nameiparent() does not return for a path without a name
LastName(path) == IF path.elems = <<>> THEN "." ELSE path.elems[Len(path.elems)]

BeginTrans(p) ==
  /\ Doing(p, "begin_trans") /\ writer = NoProc /\ writer' = p /\ Then(p, <<>>)
  /\ UNCHANGED <<ondisk, icache, holds>>

CommitTrans(p) ==
  /\ Doing(p, "commit_trans") /\ writer' = NoProc /\ Then(p, <<>>)
  /\ UNCHANGED <<ondisk, icache, holds>>

LockInode(p) ==
  /\ Doing(p, "ilock") /\ ILock(p, At(p)) /\ Then(p, <<>>)
  /\ UNCHANGED <<ondisk, ref, writer, holds>>

UnlockInode(p) ==
  /\ Doing(p, "iunlock") /\ IUnlock(At(p)) /\ Then(p, <<>>)
  /\ UNCHANGED <<ondisk, ref, valid, inode, writer, holds>>

\* a reference in the walk of namex() is replaced by the next one
Drop(p, x) == holds' = [holds EXCEPT ![p][x] = holds[p].next, ![p].next = None]

PutInode(p) ==
  /\ Doing(p, "iput")
  /\ LET i == At(p) IN
       IF Dies(i)
       THEN /\ locked' = [locked EXCEPT ![i] = p] /\ Then(p, <<Op("ifree", Now(p).x)>>)
            /\ UNCHANGED <<ref, valid, inode, holds>>
       ELSE IPut(i) /\ Drop(p, Now(p).x) /\ Then(p, <<>>) /\ UNCHANGED locked
  /\ UNCHANGED <<ondisk, writer>>

FreeInode(p) ==
  /\ Doing(p, "ifree") /\ IFree(At(p)) /\ Drop(p, Now(p).x) /\ Then(p, <<>>)
  /\ UNCHANGED writer

\* namex(): iget(root) or idup(proc->cwd)
WalkStarts(p) ==
  /\ Doing(p, "namei")
  /\ LET i == IF Now(p).path.abs THEN ROOTINO ELSE holds[p].cwd
     IN  IGet(i) /\ Hold(p, Now(p).x, i)
  /\ Then(p, <<Lookup("walk", Now(p).x, Now(p).path.elems, Now(p).fail)>>)
  /\ UNCHANGED <<ondisk, locked, valid, inode, writer>>

\* the end of the path
WalkEnds(p) ==
  /\ Doing(p, "walk") /\ Now(p).path = <<>>
  /\ IF Now(p).x = "dp" THEN Instead(p, Put("dp") \o Now(p).fail) ELSE Then(p, <<>>)
  /\ UNCHANGED <<ondisk, icache, writer, holds>>

\* one turn of the loop: ilock, dirlookup, iunlock; iput follows
Walk(p) ==
  /\ Doing(p, "walk") /\ Now(p).path # <<>> /\ Load(At(p))
  /\ LET x    == Now(p).x
         rest == Tail(Now(p).path)
         next == DirLookup(At(p), Head(Now(p).path))
         fails == Instead(p, Put(x) \o Now(p).fail) /\ UNCHANGED <<ref, holds>>
     IN  IF Loaded(At(p)).type # "dir" THEN fails
         ELSE IF x = "dp" /\ rest = <<>> THEN Then(p, <<>>) /\ UNCHANGED <<ref, holds>>
         ELSE IF next = None THEN fails
         ELSE /\ IGet(next) /\ Hold(p, "next", next)
              /\ Then(p, Put(x) \o <<Lookup("walk", x, rest, Now(p).fail)>>)
  /\ UNCHANGED <<ondisk, locked, writer>>

-----------------------------------------------------------------------------
(* Steps of one call *)

OpenFile(p) ==
  /\ Doing(p, "open")
  /\ IF holds[p].file = None
     THEN /\ IUnlock(At(p)) /\ Then(p, <<>>)
          /\ holds' = [holds EXCEPT ![p].file = At(p), ![p].ip = None]
     ELSE Instead(p, UnlockPut("ip")) /\ UNCHANGED <<locked, holds>>
  /\ UNCHANGED <<ondisk, ref, valid, inode, writer>>

\* the old directory becomes the one to be put
ChangeDir(p) ==
  /\ Doing(p, "chdir")
  /\ IF inode[At(p)].type = "dir"
     THEN /\ IUnlock(At(p)) /\ Then(p, Put("ip"))
          /\ holds' = [holds EXCEPT ![p].cwd = At(p), ![p].ip = holds[p].cwd]
     ELSE Then(p, UnlockPut("ip")) /\ UNCHANGED <<locked, holds>>
  /\ UNCHANGED <<ondisk, ref, valid, inode, writer>>

\* writei() beyond the end of the file: bmap() and balloc(), at most one block
WriteInode(p) ==
  /\ Doing(p, "writei") /\ Then(p, <<>>)
  /\ LET i == At(p) IN
       IF inode[i].addrs = {}
       THEN /\ bitmap' = bitmap \cup {First(Block \ bitmap)}
            /\ IUpdate(Only(i, [inode[i] EXCEPT !.addrs = {First(Block \ bitmap)}]))
       ELSE UNCHANGED <<bitmap, dinode, inode>>
  /\ UNCHANGED <<entries, ref, locked, valid, writer, holds>>

\* the name exists: create() may still open a file
CreateOld(p) ==
  /\ Doing(p, "create") /\ DirLookup(At(p), LastName(Now(p).path)) # None
  /\ LET i == DirLookup(At(p), LastName(Now(p).path)) IN IGet(i) /\ Hold(p, "ip", i)
  /\ Then(p, UnlockPut("dp") \o Lock("ip") \o <<[f |-> "created", x |-> "ip", type |-> Now(p).type]>>)
  /\ UNCHANGED <<ondisk, locked, valid, inode, writer>>

CreatedOld(p) ==
  /\ Doing(p, "created")
  /\ Then(p, IF Now(p).type = "file" /\ inode[At(p)].type = "file" THEN Created("file")
             ELSE UnlockPut("ip") \o Commit)
  /\ UNCHANGED <<ondisk, icache, writer, holds>>

\* ialloc(), ilock(), the links, "." and "..", dirlink(): the new inode is
\* seen by nobody else before its name is in dp
CreateNew(p) ==
  /\ Doing(p, "create") /\ DirLookup(At(p), LastName(Now(p).path)) = None
  /\ LET d == At(p)
         i == First({j \in Inum : dinode[j].type = "none"})
         isDir == Now(p).type = "dir"
         new   == [type |-> Now(p).type, nlink |-> 1,
                   addrs |-> IF isDir THEN {First(Block \ bitmap)} ELSE {}]
     IN  /\ bitmap' = bitmap \cup new.addrs
         /\ IUpdate([j \in {i, d} |->
                       IF j = i THEN new
                       ELSE [inode[d] EXCEPT !.nlink = IF isDir THEN @ + 1 ELSE @]])
         /\ entries' = [entries EXCEPT ![i] = [NoEntries EXCEPT ![".."] = IF isDir THEN d ELSE None],
                                       ![d][LastName(Now(p).path)] = i]
         /\ IGet(i) /\ locked' = [locked EXCEPT ![i] = p] /\ valid' = valid \cup {i}
         /\ Hold(p, "ip", i)
  /\ Then(p, UnlockPut("dp") \o Created(Now(p).type))
  /\ UNCHANGED writer

\* sys_unlink after ilock(dp)
UnlinkLookup(p) ==
  /\ Doing(p, "dirlookup")
  /\ LET n == LastName(Now(p).path)
         i == DirLookup(At(p), n)
     IN  IF n \in {".", ".."} \/ i = None
         THEN Then(p, UnlinkBad) /\ UNCHANGED <<ref, holds>>
         ELSE /\ IGet(i) /\ Hold(p, "ip", i)
              /\ Then(p, Lock("ip") \o <<On("unlink", "dp", Now(p).path)>>)
  /\ UNCHANGED <<ondisk, locked, valid, inode, writer>>

UnlinkEntry(p) ==
  /\ Doing(p, "unlink")
  /\ LET d == At(p)
         i == holds[p].ip
         isDir == inode[i].type = "dir"
     IN  IF isDir /\ ~IsDirEmpty(i)
         THEN Then(p, UnlockPut("ip") \o UnlinkBad) /\ UNCHANGED <<entries, dinode, inode>>
         ELSE /\ entries' = [entries EXCEPT ![d][LastName(Now(p).path)] = None]
              /\ IUpdate(Only(d, [inode[d] EXCEPT !.nlink = IF isDir THEN @ - 1 ELSE @]))
              /\ Then(p, UnlockPut("dp") \o <<Op("nlink--", "ip")>> \o UnlockPut("ip") \o Commit)
  /\ UNCHANGED <<bitmap, ref, locked, valid, writer, holds>>

\* ip->nlink--; iupdate(ip): the end of unlink, and a link that failed
DecLink(p) ==
  /\ Doing(p, "nlink--") /\ Then(p, <<>>)
  /\ IUpdate(Only(At(p), [inode[At(p)] EXCEPT !.nlink = @ - 1]))
  /\ UNCHANGED <<entries, bitmap, ref, locked, valid, writer, holds>>

\* sys_link: ip->nlink++ before the new name is looked for
IncLink(p) ==
  /\ Doing(p, "link")
  /\ IF inode[At(p)].type = "dir"
     THEN Then(p, UnlockPut("ip") \o Commit) /\ UNCHANGED <<dinode, inode, locked>>
     ELSE /\ IUpdate(Only(At(p), [inode[At(p)] EXCEPT !.nlink = @ + 1])) /\ IUnlock(At(p))
          /\ Then(p, Namei("dp", Now(p).path, LinkBad) \o Lock("dp") \o <<On("dirlink", "dp", Now(p).path)>>)
  /\ UNCHANGED <<entries, bitmap, ref, valid, writer, holds>>

DirLink(p) ==
  /\ Doing(p, "dirlink")
  /\ IF DirLookup(At(p), LastName(Now(p).path)) # None
     THEN Then(p, UnlockPut("dp") \o LinkBad) /\ UNCHANGED entries
     ELSE /\ entries' = [entries EXCEPT ![At(p)][LastName(Now(p).path)] = holds[p].ip]
          /\ Then(p, UnlockPut("dp") \o Put("ip") \o Commit)
  /\ UNCHANGED <<dinode, bitmap, icache, writer, holds>>

-----------------------------------------------------------------------------
(* The machine *)

\* steps that call log_write()
Writes(p) ==
  \E f \in {"ifree", "create", "unlink", "nlink--", "link", "dirlink", "writei"} : Doing(p, f)

\* log_write() outside a transaction panics, or writes into the one of
\* somebody else; either way this is where the calls below are left
Trespass == \E p \in Proc : Writes(p) /\ writer # p

\* "ialloc: no inodes", "balloc: out of blocks"
Exhausted ==
  \E p \in Proc : \/ Doing(p, "create") /\ \A i \in Inum : dinode[i].type # "none"
                  \/ (Doing(p, "create") \/ Doing(p, "writei")) /\ Block \subseteq bitmap

\* A removed directory keeps its "..", also when the directory above it has been
\* removed and freed in turn: iget() of a free inode, for which the next ilock()
\* panics.  A call that does this gets no further.
Stray(p) ==
  LET lost(n) == /\ n = ".." /\ entries[At(p)][n] # None
                 /\ \/ dinode[entries[At(p)][n]].type = "none"
                    \/ \E q \in Proc : Doing(q, "ifree") /\ At(q) = entries[At(p)][n]
  IN  \/ Doing(p, "walk") /\ Now(p).path # <<>> /\ lost(Head(Now(p).path))
      \/ Doing(p, "create") /\ lost(LastName(Now(p).path))

Step(p) ==
  \/ BeginTrans(p) \/ CommitTrans(p) \/ LockInode(p) \/ UnlockInode(p) \/ PutInode(p) \/ FreeInode(p)
  \/ WalkStarts(p) \/ Walk(p) \/ WalkEnds(p) \/ OpenFile(p) \/ ChangeDir(p) \/ WriteInode(p)
  \/ CreateOld(p) \/ CreatedOld(p) \/ CreateNew(p) \/ UnlinkLookup(p) \/ UnlinkEntry(p)
  \/ DecLink(p) \/ IncLink(p) \/ DirLink(p)

\* the machine stops between two transactions: a stop inside one leaves what
\* the last commit left (Log), and memory is lost in any case
Crash ==
  /\ writer = NoProc
  /\ ref' = [i \in Inum |-> IF i = ROOTINO THEN Cardinality(Proc) ELSE 0]
  /\ locked' = [i \in Inum |-> NoProc] /\ valid' = {} /\ inode' = [i \in Inum |-> Unused]
  /\ todo' = [p \in Proc |-> <<>>]
  /\ holds' = [p \in Proc |-> [x \in Refs |-> IF x = "cwd" THEN ROOTINO ELSE None]]
  /\ UNCHANGED <<ondisk, writer>>

Next ==
  /\ ~Trespass /\ ~Exhausted
  /\ Crash \/ \E p \in Proc : Call(p) \/ (Step(p) /\ ~Stray(p))

Spec == FsInit /\ [][Next]_fsvars

-----------------------------------------------------------------------------
(* Properties *)

\* every reference that is counted is held, and every one that is held is
\* counted, on every path through every call
RefsExact ==
  \A i \in Inum : ref[i] = Cardinality({h \in Proc \X Refs : holds[h[1]][h[2]] = i})

IsDir(i) == i # None /\ dinode[i].type = "dir"

Links(i) ==
  Cardinality({e \in Inum \X Name : entries[e[1]][e[2]] = i})
  + Cardinality({n \in Name : IsDir(entries[i][n])})
  + (IF i = ROOTINO THEN 1 ELSE 0)

\* what a commit leaves on the disk: no name leads to a free inode, no inode
\* has fewer links than names (and, for a directory, than the ".." of those in
\* it), a directory has one name, in its "..", and the blocks in use are those
\* of one inode each
DiskConsistent ==
  writer = NoProc /\ ~Trespass =>
    /\ \A i \in Inum : /\ Links(i) <= dinode[i].nlink
                       /\ dinode[i].type = "none" => dinode[i].nlink = 0 /\ dinode[i].addrs = {}
    /\ \A d \in Inum, n \in Name : IsDir(entries[d][n]) =>
         /\ entries[entries[d][n]][".."] = d
         /\ \A m \in Name \ {n} : entries[d][m] # entries[d][n]
    /\ bitmap = UNION {dinode[i].addrs : i \in Inum}
    /\ \A i \in Inum, j \in Inum : i # j => dinode[i].addrs \cap dinode[j].addrs = {}

\* the panics of fs.c and sysfile.c that stand for a mistake in the file system
NeverPanics ==
  \A p \in Proc : todo[p] # <<>> =>
    LET i == At(p) IN
    /\ Now(p).f \in {"ilock", "walk"} /\ locked[i] = NoProc => Loaded(i).type # "none"
    /\ Now(p).f = "iunlock" => locked[i] = p /\ ref[i] > 0
    /\ Now(p).f = "iput" /\ Dies(i) => locked[i] = NoProc
    /\ Now(p).f = "ifree" => inode[i].addrs \subseteq bitmap
    /\ Now(p).f \in {"create", "dirlookup", "dirlink"} => inode[i].type = "dir"
    /\ Now(p).f = "unlink" => inode[holds[p].ip].nlink > 0

\* processes that lock directories and wait for the log never wait in a circle
NoCircularWait ==
  (\E p \in Proc : todo[p] # <<>>) =>
    \E p \in Proc : /\ todo[p] # <<>>
                    /\ Now(p).f = "begin_trans" => writer = NoProc
                    /\ Now(p).f \in {"ilock", "walk"} => locked[At(p)] = NoProc

\* an inode in memory that nobody works on is the one on the disk
CacheCoherent ==
  \A i \in valid : locked[i] = NoProc => inode[i] = dinode[i]

\* "write outside of trans"
WritesInTransactions == ~Trespass
=============================================================================
