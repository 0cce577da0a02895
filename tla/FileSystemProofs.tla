--------------------------- MODULE FileSystemProofs ---------------------------
(***************************************************************************)
(* Theorems about FileSystem, for any number of processes, inodes, blocks, *)
(* names and paths, and whatever calls the processes make: the references  *)
(* to inodes are counted exactly, what is in memory is what is on the      *)
(* disk, the disk is consistent, the panics do not happen, and processes   *)
(* never wait for each other in a circle.                                  *)
(*                                                                         *)
(* A call is a sequence of steps, todo[p].  The invariant says for every   *)
(* process that there is a way through the steps that are left: a State    *)
(* before every step, of references held, locks, and facts it relies on,   *)
(* in which the step may be done (Does), from what p has now (Agrees) to   *)
(* nothing.                                                                *)
(***************************************************************************)
EXTENDS FileSystem, FiniteSetTheorems, SequenceTheorems, WellFoundedInduction, TLAPS

Elem  == Name \cup {".", ".."}
Inode == [type : {"none", "file", "dir"}, nlink : Nat, addrs : SUBSET Block]

\* The steps that todo holds, each with the arguments it has.
SimpleStep ==
  [f : {"begin_trans", "commit_trans", "ilock", "iunlock", "iput", "open", "chdir", "writei",
        "nlink--"},
   x : {"log", "ip", "dp", "file"}]
LookupStep ==
  [f : {"namei"}, x : {"ip", "dp"}, path : Path, fail : {<<>>, Commit, LinkBad}]
  \cup [f : {"walk"}, x : {"ip", "dp"}, path : Seq(Elem), fail : {<<>>, Commit, LinkBad}]
DirStep ==
  [f : {"dirlookup", "unlink", "link", "dirlink"}, x : {"ip", "dp"}, path : Path]
  \cup [f : {"create"}, x : {"dp"}, path : Path, type : {"file", "dir"}]
  \cup [f : {"created"}, x : {"ip"}, type : {"file", "dir"}]
Steps == SimpleStep \cup LookupStep \cup DirStep
\* iput() of a dead inode after the first test
Dying == [f : {"ifree"}, x : {"ip", "dp", "file"}]

Types ==
  /\ dinode \in [Inum -> Inode] /\ inode \in [Inum -> Inode]
  /\ entries \in [Inum -> [Name \cup {".."} -> Inum \cup {None}]]
  /\ bitmap \subseteq Block
  /\ ref \in [Inum -> Nat]
  /\ locked \in [Inum -> Proc \cup {NoProc}]
  /\ valid \subseteq Inum
  /\ writer \in Proc \cup {NoProc}
  /\ holds \in [Proc -> [Refs -> Inum \cup {None}]]
  /\ todo \in [Proc -> Seq(Steps \cup Dying)]
-----------------------------------------------------------------------------
(* What a process has between two of its steps: the references it holds,   *)
(* those of them it has locked, what it relies on, and the name that it    *)
(* found its inode ip under.                                               *)

Slots == {"ip", "dp", "next", "file"}

\* "trans": it is in a transaction; "dir": dp is a directory; "surplus": ip
\* has a link that no name stands for; "file": ip is not a directory
Facts == {"trans", "dir", "surplus", "file"}

State == [held : SUBSET Slots, locks : SUBSET Slots, facts : SUBSET Facts, name : Name \cup {"."}]

St(h, k, f, n) == [held |-> h, locks |-> k, facts |-> f, name |-> n]
Idle    == St({}, {}, {}, ".")
InTrans == St({}, {}, {"trans"}, ".")
Linking == St({"ip"}, {}, {"trans", "surplus", "file"}, ".")

\* where a lookup starts, by what the caller does when it fails
Before(fail, a) ==
  \/ fail = <<>> /\ a = Idle
  \/ fail = Commit /\ a = InTrans
  \/ fail = LinkBad /\ a = Linking

During(x, a) == St(a.held \cup {x}, {}, a.facts, ".")
Found(x, a)  == St(a.held \cup {x}, {}, IF x = "dp" THEN a.facts \cup {"dir"} ELSE a.facts, ".")

\* iput(x); in a walk the next inode takes the place of x
Dropped(x, a) ==
  St(IF "next" \in a.held THEN a.held \ {"next"} ELSE a.held \ {x}, a.locks \ {x},
     a.facts \ (IF x = "dp" THEN {"dir"} ELSE IF x = "ip" THEN {"file"} ELSE {}), ".")
CanDrop(x, a) == x \in a.held /\ a.name = "." /\ (x = "ip" => "surplus" \notin a.facts)

\* What a step needs, a, and what it leaves for the next, b.
DoesLog(s, a, b) ==
  \/ /\ s.f = "begin_trans" /\ a.locks = {} /\ "trans" \notin a.facts
     /\ b = St(a.held, {}, a.facts \cup {"trans"}, a.name)
  \/ /\ s.f = "commit_trans" /\ "trans" \in a.facts /\ "surplus" \notin a.facts /\ "file" \notin a.locks
     /\ b = St(a.held \ {"file"}, a.locks, a.facts \ {"trans"}, a.name)

DoesLock(s, a, b) ==
  \/ /\ s.f = "ilock" /\ s.x \in a.held /\ s.x \notin a.locks
     /\ \/ a.locks = {}
        \/ "trans" \in a.facts /\ s.x = "ip" /\ a.locks = {"dp"} /\ "dp" \in a.held /\ a.name # "."
     /\ b = St(a.held, a.locks \cup {s.x}, a.facts, a.name)
  \/ /\ s.f = "iunlock" /\ s.x \in a.locks /\ a.name = "."
     /\ b = St(a.held, a.locks \ {s.x}, a.facts, a.name)

DoesPut(s, a, b) ==
  s.f = "iput" /\ s.x \notin a.locks /\ CanDrop(s.x, a) /\ b = Dropped(s.x, a)

DoesLookup(s, a, b) ==
  \/ s.f = "namei" /\ s.x \notin a.held /\ Before(s.fail, a) /\ b = Found(s.x, a)
  \/ /\ s.f = "walk"
     /\ \E c \in State : /\ s.x \notin c.held /\ Before(s.fail, c)
                         /\ a = During(s.x, c) /\ b = Found(s.x, c)

\* the last steps of the calls
DoesCall(s, a, b) ==
  \/ s.f \in {"open", "chdir"} /\ s.x = "ip" /\ a = St({"ip"}, {"ip"}, {}, ".") /\ b = Idle
  \/ s.f = "create" /\ a = St({"dp"}, {"dp"}, {"trans", "dir"}, ".") /\ b = Idle
  \/ s.f = "created" /\ a = St({"ip"}, {"ip"}, {"trans"}, ".") /\ b = Idle
  \/ /\ s.f = "dirlookup" /\ s.x = "dp"
     /\ a = St({"dp"}, {"dp"}, {"trans", "dir"}, ".") /\ b = Idle
  \/ /\ s.f = "unlink" /\ s.x = "dp" /\ LastName(s.path) \in Name
     /\ a = St({"ip", "dp"}, {"ip", "dp"}, {"trans", "dir"}, LastName(s.path)) /\ b = Idle
  \/ s.f = "link" /\ s.x = "ip" /\ a = St({"ip"}, {"ip"}, {"trans"}, ".") /\ b = Idle
  \/ /\ s.f = "dirlink" /\ s.x = "dp"
     /\ a = St({"ip", "dp"}, {"dp"}, {"trans", "dir", "surplus", "file"}, ".") /\ b = Idle

DoesChange(s, a, b) ==
  \/ s.f = "writei" /\ s.x = "file" /\ a = St({"file"}, {"file"}, {"trans"}, ".") /\ b = a
  \/ /\ s.f = "nlink--" /\ s.x = "ip" /\ "ip" \in a.locks /\ "ip" \in a.held
     /\ "surplus" \in a.facts /\ "trans" \in a.facts
     /\ b = St(a.held, a.locks, a.facts \ {"surplus", "file"}, a.name)

Does(s, a, b) ==
  \/ DoesLog(s, a, b) \/ DoesLock(s, a, b) \/ DoesPut(s, a, b) \/ DoesLookup(s, a, b)
  \/ DoesCall(s, a, b) \/ DoesChange(s, a, b)

\* The steps of q lead from a to b.
Chain(q, a, b) ==
  /\ q \in Seq(Steps)
  /\ \E t \in [1..Len(q) + 1 -> State] :
       /\ t[1] = a /\ t[Len(q) + 1] = b
       /\ \A i \in 1..Len(q) : Does(q[i], t[i], t[i + 1])
-----------------------------------------------------------------------------
\* No steps lead nowhere.
LEMMA ChainEmpty ==
  ASSUME NEW a, NEW b
  PROVE  Chain(<<>>, a, b) <=> a = b /\ a \in State
<1>1. ASSUME Chain(<<>>, a, b) PROVE a = b /\ a \in State
  BY <1>1 DEF Chain
<1>2. ASSUME a = b, a \in State PROVE Chain(<<>>, a, b)
  <2>. DEFINE t == [i \in 1..1 |-> a]
  <2>1. t \in [1..1 -> State] /\ t[1] = a
    BY <1>2
  <2>2. Len(<<>>) = 0 /\ <<>> \in Seq(Steps)
    OBVIOUS
  <2>. HIDE DEF t
  <2> QED BY <1>2, <2>1, <2>2 DEF Chain
<1> QED BY <1>1, <1>2

\* A step and what follows it.
LEMMA ChainStep ==
  ASSUME NEW s \in Steps, NEW q, NEW a \in State, NEW b, NEW c, Does(s, a, b), Chain(q, b, c)
  PROVE  Chain(<<s>> \o q, a, c)
<1>1. q \in Seq(Steps)
  BY DEF Chain
<1>2. PICK t \in [1..Len(q) + 1 -> State] :
        /\ t[1] = b /\ t[Len(q) + 1] = c
        /\ \A i \in 1..Len(q) : Does(q[i], t[i], t[i + 1])
  BY DEF Chain
<1>. DEFINE r == <<s>> \o q
            u == [i \in 1..Len(r) + 1 |-> IF i = 1 THEN a ELSE t[i - 1]]
<1>3. r \in Seq(Steps) /\ Len(r) = Len(q) + 1 /\ r[1] = s /\ \A i \in 1..Len(q) : r[i + 1] = q[i]
  BY <1>1
<1>. HIDE DEF r
<1>4. Len(q) \in Nat /\ Len(r) \in Nat
  BY <1>1, <1>3
<1>5. u \in [1..Len(r) + 1 -> State] /\ u[1] = a /\ u[Len(r) + 1] = c
  BY <1>2, <1>3, <1>4
<1>6. ASSUME NEW i \in 1..Len(r) PROVE Does(r[i], u[i], u[i + 1])
  <2>1. CASE i = 1
    <3>1. u[i] = a /\ u[i + 1] = b /\ r[i] = s
      BY <2>1, <1>2, <1>3, <1>4
    <3> QED BY <3>1
  <2>2. CASE i # 1
    <3>1. PICK j \in 1..Len(q) : i = j + 1
      BY <2>2, <1>3, <1>4
    <3>2. u[i] = t[j] /\ u[i + 1] = t[j + 1] /\ r[i] = q[j]
      BY <3>1, <1>3, <1>4
    <3> QED BY <3>2, <1>2
  <2> QED BY <2>1, <2>2
<1>. HIDE DEF u
<1> QED BY <1>3, <1>5, <1>6 DEF Chain, r

\* The first step, and what follows it.
LEMMA ChainHead ==
  ASSUME NEW q, NEW a, NEW c, Chain(q, a, c), q # <<>>
  PROVE  /\ a \in State /\ c \in State /\ Head(q) \in Steps /\ q \in Seq(Steps)
         /\ \E b \in State : Does(Head(q), a, b) /\ Chain(Tail(q), b, c)
<1>1. q \in Seq(Steps)
  BY DEF Chain
<1>2. PICK t \in [1..Len(q) + 1 -> State] :
        /\ t[1] = a /\ t[Len(q) + 1] = c
        /\ \A i \in 1..Len(q) : Does(q[i], t[i], t[i + 1])
  BY DEF Chain
<1>. DEFINE r == Tail(q)
            u == [i \in 1..Len(r) + 1 |-> t[i + 1]]
<1>3. /\ r \in Seq(Steps) /\ Len(q) = Len(r) + 1 /\ Head(q) = q[1] /\ Head(q) \in Steps
      /\ \A i \in 1..Len(r) : r[i] = q[i + 1]
  BY <1>1
<1>. HIDE DEF r
<1>4. Len(r) \in Nat
  BY <1>3
<1>5. u \in [1..Len(r) + 1 -> State] /\ u[1] = t[2] /\ u[Len(r) + 1] = c
  BY <1>2, <1>3, <1>4
<1>6. ASSUME NEW i \in 1..Len(r) PROVE Does(r[i], u[i], u[i + 1])
  <2>1. i + 1 \in 1..Len(q) /\ u[i] = t[i + 1] /\ u[i + 1] = t[(i + 1) + 1] /\ r[i] = q[i + 1]
    BY <1>3, <1>4
  <2> QED BY <2>1, <1>2
<1>7. a \in State /\ c \in State /\ t[2] \in State /\ Does(q[1], a, t[2])
  <2>1. 1 \in 1..Len(q) /\ 1 + 1 = 2 /\ {1, 2, Len(q) + 1} \subseteq 1..Len(q) + 1
    BY <1>3, <1>4
  <2> QED BY <2>1, <1>2
<1>. HIDE DEF u
<1>8. Chain(r, t[2], c)
  BY <1>3, <1>5, <1>6 DEF Chain
<1> QED BY <1>1, <1>3, <1>7, <1>8 DEF r

\* Steps after steps.
LEMMA ChainConcat ==
  ASSUME NEW q, NEW r, NEW a, NEW b, NEW c, Chain(q, a, b), Chain(r, b, c)
  PROVE  Chain(q \o r, a, c)
<1>1. q \in Seq(Steps) /\ r \in Seq(Steps)
  BY DEF Chain
<1>2. PICK t \in [1..Len(q) + 1 -> State] :
        /\ t[1] = a /\ t[Len(q) + 1] = b
        /\ \A i \in 1..Len(q) : Does(q[i], t[i], t[i + 1])
  BY DEF Chain
<1>3. PICK u \in [1..Len(r) + 1 -> State] :
        /\ u[1] = b /\ u[Len(r) + 1] = c
        /\ \A i \in 1..Len(r) : Does(r[i], u[i], u[i + 1])
  BY DEF Chain
<1>. DEFINE m == Len(q)
            n == Len(r)
            w == q \o r
            v == [i \in 1..(m + n) + 1 |-> IF i <= m THEN t[i] ELSE u[i - m]]
<1>4. /\ w \in Seq(Steps) /\ m \in Nat /\ n \in Nat /\ Len(w) = m + n
      /\ \A i \in 1..m : w[i] = q[i]
      /\ \A j \in 1..n : w[m + j] = r[j]
  BY <1>1
<1>. HIDE DEF w, m, n
<1>5. v \in [1..(m + n) + 1 -> State]
  <2>1. ASSUME NEW i \in 1..(m + n) + 1, i <= m PROVE i \in 1..m + 1
    BY <2>1, <1>4
  <2>2. ASSUME NEW i \in 1..(m + n) + 1, ~(i <= m) PROVE i - m \in 1..n + 1
    BY <2>2, <1>4
  <2> QED BY <2>1, <2>2, <1>2, <1>3 DEF m, n
<1>6. v[(m + n) + 1] = c
  <2>1. ~((m + n) + 1 <= m) /\ ((m + n) + 1) - m = n + 1 /\ (m + n) + 1 \in 1..(m + n) + 1
    BY <1>4
  <2> QED BY <2>1, <1>3 DEF n
<1>7. v[1] = a
  <2>1. CASE m = 0
    <3>1. ~(1 <= m) /\ 1 - m = 1 /\ 1 \in 1..(m + n) + 1
      BY <2>1, <1>4
    <3>2. a = b
      BY <2>1, <1>2 DEF m
    <3> QED BY <3>1, <3>2, <1>3
  <2>2. CASE m # 0
    <3>1. 1 <= m /\ 1 \in 1..(m + n) + 1
      BY <2>2, <1>4
    <3> QED BY <3>1, <1>2
  <2> QED BY <2>1, <2>2
<1>8. ASSUME NEW i \in 1..m + n PROVE Does(w[i], v[i], v[i + 1])
  <2>0. i \in 1..(m + n) + 1 /\ i + 1 \in 1..(m + n) + 1 /\ i \in Nat
    BY <1>4
  <2>1. CASE i <= m
    <3>1. i \in 1..m /\ w[i] = q[i] /\ v[i] = t[i]
      BY <2>0, <2>1, <1>4
    <3>2. v[i + 1] = t[i + 1]
      <4>1. CASE i = m
        <5>1. ~(i + 1 <= m) /\ (i + 1) - m = 1 /\ i + 1 = m + 1
          BY <4>1, <1>4
        <5>2. v[i + 1] = u[1]
          BY <5>1, <2>0
        <5> QED BY <5>1, <5>2, <1>2, <1>3 DEF m
      <4>2. CASE i # m
        <5>1. i + 1 <= m
          BY <4>2, <2>0, <2>1, <1>4
        <5> QED BY <5>1, <2>0
      <4> QED BY <4>1, <4>2
    <3> QED BY <3>1, <3>2, <1>2 DEF m
  <2>2. CASE ~(i <= m)
    <3>1. PICK j \in 1..n : i = m + j
      BY <2>0, <2>2, <1>4
    <3>2. ~(i + 1 <= m) /\ (i + 1) - m = j + 1 /\ i - m = j
      BY <3>1, <1>4
    <3>3. v[i] = u[j] /\ v[i + 1] = u[j + 1] /\ w[i] = r[j]
      <4>1. v[i] = u[i - m] /\ v[i + 1] = u[(i + 1) - m]
        BY <3>2, <2>0, <2>2
      <4> QED BY <4>1, <3>1, <3>2, <1>4
    <3> QED BY <3>3, <1>3, <3>1 DEF n
  <2> QED BY <2>1, <2>2
<1>. HIDE DEF v
<1> QED BY <1>4, <1>5, <1>6, <1>7, <1>8 DEF Chain, w
-----------------------------------------------------------------------------
(* The sequences of steps that the calls put into todo. *)

\* One step is a way from a to b.
LEMMA ChainOne ==
  ASSUME NEW s \in Steps, NEW a \in State, NEW b \in State, Does(s, a, b)
  PROVE  Chain(<<s>>, a, b)
<1>1. Chain(<<>>, b, b)
  BY ChainEmpty
<1>2. <<s>> \o <<>> = <<s>>
  OBVIOUS
<1> QED BY <1>1, <1>2, ChainStep

\* St makes states with these components.
LEMMA StInState ==
  ASSUME NEW h \in SUBSET Slots, NEW k \in SUBSET Slots, NEW f \in SUBSET Facts,
         NEW n \in Name \cup {"."}
  PROVE  /\ St(h, k, f, n) \in State
         /\ St(h, k, f, n).held = h /\ St(h, k, f, n).locks = k
         /\ St(h, k, f, n).facts = f /\ St(h, k, f, n).name = n
  BY DEF St, State

\* Every state is made by St.
LEMMA StateIsSt ==
  ASSUME NEW a \in State
  PROVE  /\ a = St(a.held, a.locks, a.facts, a.name)
         /\ a.held \in SUBSET Slots /\ a.locks \in SUBSET Slots
         /\ a.facts \in SUBSET Facts /\ a.name \in Name \cup {"."}
  BY DEF St, State

\* A put leaves a state.
LEMMA DroppedInState ==
  ASSUME NEW a \in State, NEW x
  PROVE  Dropped(x, a) \in State
  BY StateIsSt, StInState DEF Dropped

\* The steps of Begin, Commit, Lock, Unlock, Put and UnlockPut lead from every state
\* in which they may be done.
LEMMA ChainCommit ==
  ASSUME NEW a \in State, "trans" \in a.facts, "surplus" \notin a.facts, "file" \notin a.locks
  PROVE  Chain(Commit, a, St(a.held \ {"file"}, a.locks, a.facts \ {"trans"}, a.name))
<1>1. St(a.held \ {"file"}, a.locks, a.facts \ {"trans"}, a.name) \in State
  BY StateIsSt, StInState
<1>2. Op("commit_trans", "log") \in Steps
  BY DEF Op, Steps, SimpleStep
<1>3. Does(Op("commit_trans", "log"), a, St(a.held \ {"file"}, a.locks, a.facts \ {"trans"}, a.name))
  BY DEF Does, DoesLog, Op
<1> QED BY <1>1, <1>2, <1>3, ChainOne DEF Commit

\* begin_trans()
LEMMA ChainBegin ==
  ASSUME NEW a \in State, "trans" \notin a.facts, a.locks = {}
  PROVE  Chain(Begin, a, St(a.held, {}, a.facts \cup {"trans"}, a.name))
<1>1. St(a.held, {}, a.facts \cup {"trans"}, a.name) \in State
  BY StateIsSt, StInState DEF Facts
<1>2. Op("begin_trans", "log") \in Steps
  BY DEF Op, Steps, SimpleStep
<1>3. Does(Op("begin_trans", "log"), a, St(a.held, {}, a.facts \cup {"trans"}, a.name))
  BY DEF Does, DoesLog, Op
<1> QED BY <1>1, <1>2, <1>3, ChainOne DEF Begin

\* ilock() of a process that has nothing locked
LEMMA ChainLock ==
  ASSUME NEW a \in State, NEW x \in {"ip", "dp", "file"}, x \in a.held, a.locks = {}
  PROVE  Chain(Lock(x), a, St(a.held, {x}, a.facts, a.name))
<1>1. St(a.held, {x}, a.facts, a.name) \in State
  BY StateIsSt, StInState DEF Slots
<1>2. Op("ilock", x) \in Steps
  BY DEF Op, Steps, SimpleStep
<1>3. {} \cup {x} = {x}
  OBVIOUS
<1>4. Does(Op("ilock", x), a, St(a.held, {x}, a.facts, a.name))
  BY <1>3 DEF Does, DoesLock, Op
<1> QED BY <1>1, <1>2, <1>4, ChainOne DEF Lock

\* iunlock()
LEMMA ChainUnlock ==
  ASSUME NEW a \in State, NEW x \in {"ip", "dp", "file"}, x \in a.locks, a.name = "."
  PROVE  Chain(Unlock(x), a, St(a.held, a.locks \ {x}, a.facts, a.name))
<1>1. St(a.held, a.locks \ {x}, a.facts, a.name) \in State
  BY StateIsSt, StInState
<1>2. Op("iunlock", x) \in Steps
  BY DEF Op, Steps, SimpleStep
<1>3. Does(Op("iunlock", x), a, St(a.held, a.locks \ {x}, a.facts, a.name))
  BY DEF Does, DoesLock, Op
<1> QED BY <1>1, <1>2, <1>3, ChainOne DEF Unlock

\* iput()
LEMMA ChainPut ==
  ASSUME NEW a \in State, NEW x \in {"ip", "dp", "file"}, x \notin a.locks, CanDrop(x, a)
  PROVE  Chain(Put(x), a, Dropped(x, a))
<1>1. Dropped(x, a) \in State
  BY DroppedInState
<1>2. Op("iput", x) \in Steps
  BY DEF Op, Steps, SimpleStep
<1>3. Does(Op("iput", x), a, Dropped(x, a))
  BY DEF Does, DoesPut, Op
<1> QED BY <1>1, <1>2, <1>3, ChainOne DEF Put

\* iunlockput()
LEMMA ChainUnlockPut ==
  ASSUME NEW a \in State, NEW x \in {"ip", "dp", "file"}, x \in a.locks, CanDrop(x, a)
  PROVE  Chain(UnlockPut(x), a, Dropped(x, a))
<1>. DEFINE c == St(a.held, a.locks \ {x}, a.facts, a.name)
<1>1. Chain(Unlock(x), a, c)
  BY ChainUnlock DEF CanDrop
<1>2. c \in State /\ c.held = a.held /\ c.locks = a.locks \ {x} /\ c.facts = a.facts /\ c.name = a.name
  BY StateIsSt, StInState
<1>. HIDE DEF c
<1>3. CanDrop(x, c) /\ x \notin c.locks
  BY <1>2 DEF CanDrop
<1>4. Dropped(x, c) = Dropped(x, a)
  <2>1. (a.locks \ {x}) \ {x} = a.locks \ {x}
    OBVIOUS
  <2> QED BY <2>1, <1>2 DEF Dropped
<1>5. Chain(Put(x), c, Dropped(x, a))
  BY <1>2, <1>3, <1>4, ChainPut
<1> QED BY <1>1, <1>5, ChainConcat DEF UnlockPut

\* The states that the calls pass through.
LEMMA KnownStates ==
  /\ Idle \in State /\ InTrans \in State /\ Linking \in State
  /\ St({"ip"}, {"ip"}, {}, ".") \in State
  /\ St({"ip"}, {"ip"}, {"trans"}, ".") \in State
  /\ St({"ip"}, {}, {}, ".") \in State
  /\ St({"dp"}, {"dp"}, {"trans", "dir"}, ".") \in State
  /\ St({"ip", "dp"}, {"dp"}, {"trans", "dir"}, ".") \in State
  /\ St({"ip", "dp"}, {"ip", "dp"}, {"trans", "dir"}, ".") \in State
  /\ St({"ip", "dp"}, {"ip", "dp"}, {"trans", "dir", "surplus"}, ".") \in State
  /\ St({"ip", "dp"}, {"dp"}, {"trans", "dir", "surplus", "file"}, ".") \in State
  /\ St({"ip", "dp"}, {"dp"}, {"trans", "dir", "file"}, ".") \in State
  /\ St({"file"}, {}, {}, ".") \in State
  /\ St({"file"}, {"file"}, {"trans"}, ".") \in State
  BY StInState DEF Idle, InTrans, Linking, Slots, Facts

\* what the last step of a call leaves is nothing
LEMMA ChainLast ==
  ASSUME NEW s \in Steps, NEW a \in State, DoesCall(s, a, Idle)
  PROVE  Chain(<<s>>, a, Idle)
  BY ChainOne, KnownStates DEF Does

\* What is left after ip is put.
LEMMA DropIp ==
  /\ \A K \in SUBSET Slots : CanDrop("ip", St({"ip"}, K, {}, ".")) /\ CanDrop("ip", St({"ip"}, K, {"trans"}, "."))
  /\ Dropped("ip", St({"ip"}, {"ip"}, {}, ".")) = Idle
  /\ Dropped("ip", St({"ip"}, {}, {}, ".")) = Idle
  /\ Dropped("ip", St({"ip"}, {"ip"}, {"trans"}, ".")) = InTrans
<1>1. {"ip"} \ {"ip"} = {} /\ {} \ {"ip"} = {} /\ {"trans"} \ {"file"} = {"trans"} /\ {} \ {"file"} = {}
  OBVIOUS
<1>2. "next" \notin {"ip"} /\ "surplus" \notin {"trans"}
  OBVIOUS
<1> QED BY <1>1, <1>2 DEF CanDrop, Dropped, St, Idle, InTrans

\* A call may end with a commit, ...
LEMMA CommitEnds ==
  Chain(Commit, InTrans, Idle)
<1>1. InTrans.facts = {"trans"} /\ InTrans.held = {} /\ InTrans.locks = {} /\ InTrans.name = "."
  BY DEF InTrans, St
<1>2. {} \ {"file"} = {} /\ {"trans"} \ {"trans"} = {} /\ "trans" \in {"trans"} /\ "surplus" \notin {"trans"}
  OBVIOUS
<1> QED BY <1>1, <1>2, ChainCommit, KnownStates DEF Idle

\* ... with iunlockput(ip), ...
LEMMA UnlockPutIp == Chain(UnlockPut("ip"), St({"ip"}, {"ip"}, {}, "."), Idle)
  BY ChainUnlockPut, KnownStates, DropIp, StInState, ZenonT(120) DEF Slots, St

\* ... with iput(ip), ...
LEMMA PutIp == Chain(Put("ip"), St({"ip"}, {}, {}, "."), Idle)
  BY ChainPut, KnownStates, DropIp, StInState, ZenonT(120) DEF Slots, St

\* ... or with both.
LEMMA UnlockPutIpCommit == Chain(UnlockPut("ip") \o Commit, St({"ip"}, {"ip"}, {"trans"}, "."), Idle)
<1>1. Chain(UnlockPut("ip"), St({"ip"}, {"ip"}, {"trans"}, "."), InTrans)
  BY ChainUnlockPut, KnownStates, DropIp, StInState DEF Slots, St
<1> QED BY <1>1, CommitEnds, ChainConcat

\* What is left after dp is put.
LEMMA DropDp ==
  /\ CanDrop("dp", St({"dp"}, {"dp"}, {"trans", "dir"}, "."))
  /\ Dropped("dp", St({"dp"}, {"dp"}, {"trans", "dir"}, ".")) = InTrans
  /\ \A K \in SUBSET Slots, F \in SUBSET Facts :
       /\ CanDrop("dp", St({"ip", "dp"}, K, F, "."))
       /\ Dropped("dp", St({"ip", "dp"}, K, F, ".")) = St({"ip"}, K \ {"dp"}, F \ {"dir"}, ".")
<1>1. {"dp"} \ {"dp"} = {} /\ {"trans", "dir"} \ {"dir"} = {"trans"} /\ {"ip", "dp"} \ {"dp"} = {"ip"}
  OBVIOUS
<1>2. "next" \notin {"dp"} /\ "next" \notin {"ip", "dp"}
  OBVIOUS
<1> QED BY <1>1, <1>2 DEF CanDrop, Dropped, St, InTrans

\* "bad:" of sys_unlink() ends the call.
LEMMA UnlinkBadEnds == Chain(UnlinkBad, St({"dp"}, {"dp"}, {"trans", "dir"}, "."), Idle)
<1>1. Chain(UnlockPut("dp"), St({"dp"}, {"dp"}, {"trans", "dir"}, "."), InTrans)
  BY ChainUnlockPut, KnownStates, DropDp DEF St
<1> QED BY <1>1, CommitEnds, ChainConcat DEF UnlinkBad

\* the directory is put while ip is kept
LEMMA UnlockPutDp ==
  ASSUME NEW K \in SUBSET Slots, NEW F \in SUBSET Facts, "dp" \in K
  PROVE  Chain(UnlockPut("dp"), St({"ip", "dp"}, K, F, "."), St({"ip"}, K \ {"dp"}, F \ {"dir"}, "."))
<1>1. St({"ip", "dp"}, K, F, ".") \in State /\ St({"ip", "dp"}, K, F, ".").locks = K
  BY StInState DEF Slots
<1> QED BY <1>1, ChainUnlockPut, DropDp

\* sys_unlink() of a directory that is not empty ends as it should.
LEMMA NonEmptyEnds ==
  Chain(UnlockPut("ip") \o UnlinkBad, St({"ip", "dp"}, {"ip", "dp"}, {"trans", "dir"}, "."), Idle)
<1>. DEFINE a == St({"ip", "dp"}, {"ip", "dp"}, {"trans", "dir"}, ".")
<1>1. a \in State /\ a.held = {"ip", "dp"} /\ a.locks = {"ip", "dp"} /\ a.facts = {"trans", "dir"} /\ a.name = "."
  BY KnownStates DEF St
<1>2. CanDrop("ip", a) /\ "ip" \in a.locks
  BY <1>1 DEF CanDrop
<1>3. Dropped("ip", a) = St({"dp"}, {"dp"}, {"trans", "dir"}, ".")
  <2>1. {"ip", "dp"} \ {"ip"} = {"dp"} /\ {"trans", "dir"} \ {"file"} = {"trans", "dir"} /\ "next" \notin {"ip", "dp"}
    OBVIOUS
  <2> QED BY <2>1, <1>1 DEF Dropped
<1> QED BY <1>1, <1>2, <1>3, ChainUnlockPut, UnlinkBadEnds, ChainConcat

\* sys_unlink() after the name has been removed ends as it should.
LEMMA RemovedEnds ==
  Chain(UnlockPut("dp") \o <<Op("nlink--", "ip")>> \o UnlockPut("ip") \o Commit,
        St({"ip", "dp"}, {"ip", "dp"}, {"trans", "dir", "surplus"}, "."), Idle)
<1>. DEFINE a == St({"ip"}, {"ip"}, {"trans", "surplus"}, ".")
            b == St({"ip"}, {"ip"}, {"trans"}, ".")
<1>1. Chain(UnlockPut("dp"), St({"ip", "dp"}, {"ip", "dp"}, {"trans", "dir", "surplus"}, "."), a)
  <2>1. {"ip", "dp"} \ {"dp"} = {"ip"} /\ {"trans", "dir", "surplus"} \ {"dir"} = {"trans", "surplus"}
    OBVIOUS
  <2> QED BY <2>1, UnlockPutDp DEF Slots, Facts
<1>2. Chain(<<Op("nlink--", "ip")>>, a, b)
  <2>1. a \in State /\ b \in State
    BY StInState DEF Slots, Facts
  <2>2. {"trans", "surplus"} \ {"surplus", "file"} = {"trans"}
    OBVIOUS
  <2>3. DoesChange(Op("nlink--", "ip"), a, b)
    BY <2>2 DEF DoesChange, Op, St
  <2>4. Op("nlink--", "ip") \in Steps
    BY DEF Op, Steps, SimpleStep
  <2> QED BY <2>1, <2>3, <2>4, ChainOne DEF Does
<1>. HIDE DEF a
<1>3. Chain((UnlockPut("dp") \o <<Op("nlink--", "ip")>>) \o UnlockPut("ip"), 
            St({"ip", "dp"}, {"ip", "dp"}, {"trans", "dir", "surplus"}, "."), InTrans)
  <2>1. Chain(UnlockPut("ip"), b, InTrans)
    BY ChainUnlockPut, KnownStates, DropIp, StInState DEF Slots, St
  <2> QED BY <2>1, <1>1, <1>2, ChainConcat
<1> QED BY <1>3, CommitEnds, ChainConcat

\* "bad:" of sys_link() ends the call.
LEMMA LinkBadEnds == Chain(LinkBad, Linking, Idle)
<1>. DEFINE a == St({"ip"}, {"ip"}, {"trans", "surplus", "file"}, ".")
            b == St({"ip"}, {"ip"}, {"trans"}, ".")
<1>1. Chain(Lock("ip"), Linking, a)
  BY ChainLock, KnownStates DEF Linking, St
<1>2. Chain(<<Op("nlink--", "ip")>>, a, b)
  <2>1. a \in State /\ b \in State
    BY StInState DEF Slots, Facts
  <2>2. {"trans", "surplus", "file"} \ {"surplus", "file"} = {"trans"}
    OBVIOUS
  <2>3. DoesChange(Op("nlink--", "ip"), a, b)
    BY <2>2 DEF DoesChange, Op, St
  <2>4. Op("nlink--", "ip") \in Steps
    BY DEF Op, Steps, SimpleStep
  <2> QED BY <2>1, <2>3, <2>4, ChainOne DEF Does
<1>. HIDE DEF a
<1>3. Chain((Lock("ip") \o <<Op("nlink--", "ip")>>) \o UnlockPut("ip"), Linking, InTrans)
  <2>1. Chain(UnlockPut("ip"), b, InTrans)
    BY ChainUnlockPut, KnownStates, DropIp, StInState DEF Slots, St
  <2> QED BY <2>1, <1>1, <1>2, ChainConcat
<1> QED BY <1>3, CommitEnds, ChainConcat DEF LinkBad

\* What a caller does after a lookup that failed.
LEMMA FailEnds ==
  ASSUME NEW fail, NEW a, Before(fail, a)
  PROVE  a \in State /\ Chain(fail, a, Idle) /\ fail \in {<<>>, Commit, LinkBad} /\ a.locks = {} /\ a.name = "."
         /\ "next" \notin a.held /\ "dp" \notin a.held /\ "dir" \notin a.facts
<1>1. Chain(<<>>, Idle, Idle)
  BY ChainEmpty, KnownStates
<1>2. (a = Idle /\ fail = <<>>) \/ (a = InTrans /\ fail = Commit) \/ (a = Linking /\ fail = LinkBad)
  BY DEF Before
<1>3. Chain(fail, a, Idle) /\ a \in State /\ fail \in {<<>>, Commit, LinkBad}
  BY <1>1, <1>2, KnownStates, CommitEnds, LinkBadEnds, Zenon
<1>4. a.locks = {} /\ a.name = "." /\ "next" \notin a.held /\ "dp" \notin a.held /\ "dir" \notin a.facts
  BY <1>2 DEF Idle, InTrans, Linking, St
<1> QED BY <1>3, <1>4
-----------------------------------------------------------------------------
(* The calls and what their steps put in their place *)

\* A lookup finds its inode or fails with what the caller does then.
LEMMA LookupChain ==
  ASSUME NEW x \in {"ip", "dp"}, NEW path \in Path, NEW fail, NEW a, Before(fail, a), x \notin a.held
  PROVE  Chain(Namei(x, path, fail), a, Found(x, a)) /\ Found(x, a) \in State
<1>1. Lookup("namei", x, path, fail) \in Steps
  BY FailEnds DEF Lookup, Steps, LookupStep
<1>2. Found(x, a) \in State /\ a \in State
  BY FailEnds, StateIsSt, StInState DEF Found, Slots, Facts
<1>3. Does(Lookup("namei", x, path, fail), a, Found(x, a))
  BY DEF Does, DoesLookup, Lookup
<1> QED BY <1>1, <1>2, <1>3, ChainOne DEF Namei

\* ip found by a caller that has nothing else
LEMMA FoundStates ==
  /\ Found("ip", Idle) = St({"ip"}, {}, {}, ".")
  /\ Found("dp", Idle) = St({"dp"}, {}, {"dir"}, ".")
  /\ Found("dp", InTrans) = St({"dp"}, {}, {"trans", "dir"}, ".")
  /\ Found("dp", Linking) = St({"ip", "dp"}, {}, {"trans", "dir", "surplus", "file"}, ".")
<1>1. {} \cup {"ip"} = {"ip"} /\ {} \cup {"dp"} = {"dp"} /\ {} \cup {"dir"} = {"dir"}
  OBVIOUS
<1>2. /\ {"trans"} \cup {"dir"} = {"trans", "dir"} /\ {"ip"} \cup {"dp"} = {"ip", "dp"}
      /\ {"trans", "surplus", "file"} \cup {"dir"} = {"trans", "dir", "surplus", "file"}
  OBVIOUS
<1> QED BY <1>1, <1>2 DEF Found, Idle, InTrans, Linking, St

\* ilock(ip) after a lookup
LEMMA LockIp ==
  ASSUME NEW F \in SUBSET Facts
  PROVE  Chain(Lock("ip"), St({"ip"}, {}, F, "."), St({"ip"}, {"ip"}, F, "."))
<1>1. /\ St({"ip"}, {}, F, ".") \in State
      /\ St({"ip"}, {}, F, ".").held = {"ip"} /\ St({"ip"}, {}, F, ".").locks = {}
      /\ St({"ip"}, {}, F, ".").facts = F /\ St({"ip"}, {}, F, ".").name = "."
  BY StInState DEF Slots
<1> QED BY <1>1, ChainLock

\* ilock(dp) after a lookup
LEMMA LockDp ==
  ASSUME NEW H \in SUBSET Slots, NEW F \in SUBSET Facts, "dp" \in H
  PROVE  Chain(Lock("dp"), St(H, {}, F, "."), St(H, {"dp"}, F, "."))
<1>1. /\ St(H, {}, F, ".") \in State
      /\ St(H, {}, F, ".").held = H /\ St(H, {}, F, ".").locks = {}
      /\ St(H, {}, F, ".").facts = F /\ St(H, {}, F, ".").name = "."
  BY StInState DEF Slots
<1> QED BY <1>1, ChainLock

\* The steps of open() and chdir() are in order, ...
LEMMA OpenChain ==
  ASSUME NEW path \in Path, NEW f \in {"open", "chdir"}
  PROVE  Chain(Namei("ip", path, <<>>) \o Lock("ip") \o <<Op(f, "ip")>>, Idle, Idle)
<1>1. Chain(Namei("ip", path, <<>>), Idle, St({"ip"}, {}, {}, "."))
  BY LookupChain, FoundStates DEF Before, Idle, St
<1>2. Chain(Lock("ip"), St({"ip"}, {}, {}, "."), St({"ip"}, {"ip"}, {}, "."))
  BY LockIp DEF Facts
<1>3. Chain(<<Op(f, "ip")>>, St({"ip"}, {"ip"}, {}, "."), Idle)
  <2>1. Op(f, "ip") \in Steps
    BY DEF Op, Steps, SimpleStep
  <2>2. DoesCall(Op(f, "ip"), St({"ip"}, {"ip"}, {}, "."), Idle)
    BY DEF DoesCall, Op
  <2> QED BY <2>1, <2>2, ChainLast, KnownStates
<1> QED BY <1>1, <1>2, <1>3, ChainConcat

\* ... a transaction begins outside of one, ...
LEMMA BeginIdle == Chain(Begin, Idle, InTrans)
<1>1. {} \cup {"trans"} = {"trans"} /\ "trans" \notin {}
  OBVIOUS
<1> QED BY <1>1, ChainBegin, KnownStates DEF Idle, InTrans, St

\* ... the steps of create(), ...
LEMMA CreateChain ==
  ASSUME NEW path \in Path, NEW type \in {"file", "dir"}
  PROVE  Chain(Create(path, type), Idle, Idle)
<1>. DEFINE s == [f |-> "create", x |-> "dp", path |-> path, type |-> type]
<1>1. Chain(Namei("dp", path, Commit), InTrans, St({"dp"}, {}, {"trans", "dir"}, "."))
  BY LookupChain, FoundStates DEF Before, InTrans, St
<1>2. Chain(Lock("dp"), St({"dp"}, {}, {"trans", "dir"}, "."), St({"dp"}, {"dp"}, {"trans", "dir"}, "."))
  BY LockDp DEF Facts, Slots
<1>3. Chain(<<s>>, St({"dp"}, {"dp"}, {"trans", "dir"}, "."), Idle)
  <2>1. s \in Steps
    BY DEF Steps, DirStep
  <2>2. DoesCall(s, St({"dp"}, {"dp"}, {"trans", "dir"}, "."), Idle)
    BY DEF DoesCall
  <2> QED BY <2>1, <2>2, ChainLast, KnownStates
<1>. HIDE DEF s
<1>4. Chain(Begin \o Namei("dp", path, Commit) \o Lock("dp"), Idle, St({"dp"}, {"dp"}, {"trans", "dir"}, "."))
  BY <1>1, <1>2, BeginIdle, ChainConcat
<1> QED BY <1>3, <1>4, ChainConcat DEF Create, s

\* ... of unlink(), ...
LEMMA UnlinkChain ==
  ASSUME NEW path \in Path
  PROVE  Chain(Unlink(path), Idle, Idle)
<1>. DEFINE s == On("dirlookup", "dp", path)
<1>1. Chain(Namei("dp", path, <<>>), Idle, St({"dp"}, {}, {"dir"}, "."))
  BY LookupChain, FoundStates DEF Before, Idle, St
<1>2. Chain(Begin, St({"dp"}, {}, {"dir"}, "."), St({"dp"}, {}, {"trans", "dir"}, "."))
  <2>1. {"dir"} \cup {"trans"} = {"trans", "dir"} /\ "trans" \notin {"dir"}
    OBVIOUS
  <2>2. /\ St({"dp"}, {}, {"dir"}, ".") \in State /\ St({"dp"}, {}, {"dir"}, ".").held = {"dp"}
        /\ St({"dp"}, {}, {"dir"}, ".").locks = {} /\ St({"dp"}, {}, {"dir"}, ".").facts = {"dir"}
        /\ St({"dp"}, {}, {"dir"}, ".").name = "."
    BY StInState DEF Slots, Facts
  <2> QED BY <2>1, <2>2, ChainBegin
<1>3. Chain(Lock("dp"), St({"dp"}, {}, {"trans", "dir"}, "."), St({"dp"}, {"dp"}, {"trans", "dir"}, "."))
  BY LockDp DEF Facts, Slots
<1>4. Chain(<<s>>, St({"dp"}, {"dp"}, {"trans", "dir"}, "."), Idle)
  <2>1. s \in Steps
    BY DEF On, Steps, DirStep
  <2>2. DoesCall(s, St({"dp"}, {"dp"}, {"trans", "dir"}, "."), Idle)
    BY DEF DoesCall, On
  <2> QED BY <2>1, <2>2, ChainLast, KnownStates
<1>. HIDE DEF s
<1>5. Chain(Namei("dp", path, <<>>) \o Begin \o Lock("dp"), Idle, St({"dp"}, {"dp"}, {"trans", "dir"}, "."))
  BY <1>1, <1>2, <1>3, ChainConcat
<1> QED BY <1>4, <1>5, ChainConcat DEF Unlink, s

\* ... of link(), ...
LEMMA LinkChain ==
  ASSUME NEW old \in Path, NEW new \in Path
  PROVE  Chain(Link(old, new), Idle, Idle)
<1>. DEFINE s == On("link", "ip", new)
<1>1. Chain(Namei("ip", old, <<>>), Idle, St({"ip"}, {}, {}, "."))
  BY LookupChain, FoundStates DEF Before, Idle, St
<1>2. Chain(Begin, St({"ip"}, {}, {}, "."), St({"ip"}, {}, {"trans"}, "."))
  <2>1. {} \cup {"trans"} = {"trans"} /\ "trans" \notin {}
    OBVIOUS
  <2>2. /\ St({"ip"}, {}, {}, ".") \in State /\ St({"ip"}, {}, {}, ".").held = {"ip"}
        /\ St({"ip"}, {}, {}, ".").locks = {} /\ St({"ip"}, {}, {}, ".").facts = {}
        /\ St({"ip"}, {}, {}, ".").name = "."
    BY StInState DEF Slots, Facts
  <2> QED BY <2>1, <2>2, ChainBegin
<1>3. Chain(Lock("ip"), St({"ip"}, {}, {"trans"}, "."), St({"ip"}, {"ip"}, {"trans"}, "."))
  BY LockIp DEF Facts
<1>4. Chain(<<s>>, St({"ip"}, {"ip"}, {"trans"}, "."), Idle)
  <2>1. s \in Steps
    BY DEF On, Steps, DirStep
  <2>2. DoesCall(s, St({"ip"}, {"ip"}, {"trans"}, "."), Idle)
    BY DEF DoesCall, On
  <2> QED BY <2>1, <2>2, ChainLast, KnownStates
<1>. HIDE DEF s
<1>5. Chain(Namei("ip", old, <<>>) \o Begin \o Lock("ip"), Idle, St({"ip"}, {"ip"}, {"trans"}, "."))
  BY <1>1, <1>2, <1>3, ChainConcat
<1> QED BY <1>4, <1>5, ChainConcat DEF Link, s

\* ... of close(), ...
LEMMA CloseChain == Chain(Close, St({"file"}, {}, {}, "."), Idle)
<1>. DEFINE a == St({"file"}, {}, {"trans"}, ".")
<1>1. /\ a \in State /\ a.held = {"file"} /\ a.locks = {} /\ a.facts = {"trans"} /\ a.name = "."
  BY StInState DEF Slots, Facts
<1>2. Chain(Begin, St({"file"}, {}, {}, "."), a)
  <2>1. {} \cup {"trans"} = {"trans"} /\ "trans" \notin {}
    OBVIOUS
  <2> QED BY <2>1, ChainBegin, KnownStates DEF St
<1>. HIDE DEF a
<1>3. Chain(Put("file"), a, InTrans)
  <2>1. Dropped("file", a) = InTrans
    <3>1. "next" \notin {"file"} /\ {"file"} \ {"file"} = {} /\ {} \ {"file"} = {} /\ {"trans"} \ {} = {"trans"}
      OBVIOUS
    <3> QED BY <1>1, <3>1 DEF Dropped, InTrans
  <2>2. CanDrop("file", a) /\ "file" \notin a.locks
    BY <1>1 DEF CanDrop
  <2> QED BY <2>1, <2>2, <1>1, ChainPut
<1> QED BY <1>2, <1>3, CommitEnds, ChainConcat DEF Close

\* ... and of write().
LEMMA WriteChain == Chain(Write, St({"file"}, {}, {}, "."), Idle)
<1>. DEFINE a == St({"file"}, {}, {"trans"}, ".")
            b == St({"file"}, {"file"}, {"trans"}, ".")
            s == Op("writei", "file")
<1>1. /\ a \in State /\ a.held = {"file"} /\ a.locks = {} /\ a.facts = {"trans"} /\ a.name = "."
  BY StInState DEF Slots, Facts
<1>2. /\ b \in State /\ b.held = {"file"} /\ b.locks = {"file"} /\ b.facts = {"trans"} /\ b.name = "."
  BY StInState DEF Slots, Facts
<1>3. Chain(Begin, St({"file"}, {}, {}, "."), a)
  <2>1. {} \cup {"trans"} = {"trans"} /\ "trans" \notin {}
    OBVIOUS
  <2> QED BY <2>1, ChainBegin, KnownStates DEF St
<1>4. Chain(Lock("file"), a, b)
  BY <1>1, ChainLock
<1>5. Chain(<<s>>, b, b)
  <2>1. s \in Steps
    BY DEF Op, Steps, SimpleStep
  <2>2. DoesChange(s, b, b)
    BY DEF DoesChange, Op
  <2> QED BY <2>1, <2>2, <1>2, ChainOne DEF Does
<1>6. Chain(Unlock("file"), b, a)
  <2>1. {"file"} \ {"file"} = {}
    OBVIOUS
  <2> QED BY <2>1, <1>2, ChainUnlock
<1>. HIDE DEF s
<1>7. Chain(Commit, a, Idle)
  <2>1. {"file"} \ {"file"} = {} /\ {"trans"} \ {"trans"} = {} /\ "surplus" \notin {"trans"} /\ "trans" \in {"trans"}
    OBVIOUS
  <2> QED BY <1>1, <2>1, ChainCommit DEF Idle
<1>. HIDE DEF a, b
<1>8. Chain(Begin \o Lock("file"), St({"file"}, {}, {}, "."), b)
  BY <1>3, <1>4, ChainConcat
<1>9. Chain(Begin \o Lock("file") \o <<s>> \o Unlock("file"), St({"file"}, {}, {}, "."), a)
  BY <1>5, <1>6, <1>8, ChainConcat
<1> QED BY <1>7, <1>9, ChainConcat DEF Write, s

\* Every system call runs to its end: close and write with a file that is open.
LEMMA CallChain ==
  ASSUME NEW call \in SystemCall
  PROVE  IF call \in {Write, Close} THEN Chain(call, St({"file"}, {}, {}, "."), Idle)
                                    ELSE Chain(call, Idle, Idle)
<1>1. CASE call \in {Close, Write}
  BY <1>1, CloseChain, WriteChain
<1>2. CASE call \in {Open(path) : path \in Path} \cup {Chdir(path) : path \in Path}
  BY <1>2, OpenChain, CloseChain, WriteChain DEF Open, Chdir
<1>3. CASE call \in {Create(path, type) : path \in Path, type \in {"file", "dir"}}
  BY <1>3, CreateChain, CloseChain, WriteChain
<1>4. CASE call \in {Unlink(path) : path \in Path}
  BY <1>4, UnlinkChain, CloseChain, WriteChain
<1>5. CASE call \in {Link(old, new) : old \in Path, new \in Path}
  BY <1>5, LinkChain, CloseChain, WriteChain
<1> QED BY <1>1, <1>2, <1>3, <1>4, <1>5 DEF SystemCall

\* The end of open(O_CREATE) and of mkdir(), after the inode is there, ...
LEMMA CreatedChain ==
  ASSUME NEW type \in {"file", "dir"}
  PROVE  Chain(Created(type), St({"ip"}, {"ip"}, {"trans"}, "."), Idle)
<1>1. CASE type = "file"
  <2>1. Chain(Commit, St({"ip"}, {"ip"}, {"trans"}, "."), St({"ip"}, {"ip"}, {}, "."))
    <3>1. {"ip"} \ {"file"} = {"ip"} /\ {"trans"} \ {"trans"} = {} /\ "trans" \in {"trans"} /\ "surplus" \notin {"trans"}
      OBVIOUS
    <3> QED BY <3>1, ChainCommit, KnownStates DEF St
  <2>2. Chain(<<Op("open", "ip")>>, St({"ip"}, {"ip"}, {}, "."), Idle)
    <3>1. Op("open", "ip") \in Steps
      BY DEF Op, Steps, SimpleStep
    <3>2. DoesCall(Op("open", "ip"), St({"ip"}, {"ip"}, {}, "."), Idle)
      BY DEF DoesCall, Op
    <3> QED BY <3>1, <3>2, ChainLast, KnownStates
  <2> QED BY <1>1, <2>1, <2>2, ChainConcat DEF Created
<1>2. CASE type = "dir"
  BY <1>2, UnlockPutIpCommit DEF Created
<1> QED BY <1>1, <1>2

\* ... of create() for a new inode ...
LEMMA CreateNewChain ==
  ASSUME NEW type \in {"file", "dir"}
  PROVE  Chain(UnlockPut("dp") \o Created(type), St({"ip", "dp"}, {"ip", "dp"}, {"trans", "dir"}, "."), Idle)
<1>1. Chain(UnlockPut("dp"), St({"ip", "dp"}, {"ip", "dp"}, {"trans", "dir"}, "."), St({"ip"}, {"ip"}, {"trans"}, "."))
  <2>1. {"ip", "dp"} \ {"dp"} = {"ip"} /\ {"trans", "dir"} \ {"dir"} = {"trans"}
    OBVIOUS
  <2> QED BY <2>1, UnlockPutDp DEF Slots, Facts
<1> QED BY <1>1, CreatedChain, ChainConcat

\* ... and for an old one are in order.
LEMMA CreateOldChain ==
  ASSUME NEW type \in {"file", "dir"}
  PROVE  Chain(UnlockPut("dp") \o Lock("ip") \o <<[f |-> "created", x |-> "ip", type |-> type]>>,
               St({"ip", "dp"}, {"dp"}, {"trans", "dir"}, "."), Idle)
<1>. DEFINE s == [f |-> "created", x |-> "ip", type |-> type]
<1>1. Chain(UnlockPut("dp"), St({"ip", "dp"}, {"dp"}, {"trans", "dir"}, "."), St({"ip"}, {}, {"trans"}, "."))
  <2>1. {"dp"} \ {"dp"} = {} /\ {"trans", "dir"} \ {"dir"} = {"trans"}
    OBVIOUS
  <2> QED BY <2>1, UnlockPutDp DEF Slots, Facts
<1>2. Chain(Lock("ip"), St({"ip"}, {}, {"trans"}, "."), St({"ip"}, {"ip"}, {"trans"}, "."))
  BY LockIp DEF Facts
<1>3. Chain(<<s>>, St({"ip"}, {"ip"}, {"trans"}, "."), Idle)
  <2>1. s \in Steps
    BY DEF Steps, DirStep
  <2>2. DoesCall(s, St({"ip"}, {"ip"}, {"trans"}, "."), Idle)
    BY DEF DoesCall
  <2> QED BY <2>1, <2>2, ChainLast, KnownStates
<1>. HIDE DEF s
<1> QED BY <1>1, <1>2, <1>3, ChainConcat DEF s

\* The rest of sys_unlink() after the name was found is in order, ...
LEMMA UnlinkFoundChain ==
  ASSUME NEW path \in Path, LastName(path) \in Name
  PROVE  /\ St({"ip", "dp"}, {"dp"}, {"trans", "dir"}, LastName(path)) \in State
         /\ Chain(Lock("ip") \o <<On("unlink", "dp", path)>>,
                  St({"ip", "dp"}, {"dp"}, {"trans", "dir"}, LastName(path)), Idle)
<1>. DEFINE n == LastName(path)
            a == St({"ip", "dp"}, {"dp"}, {"trans", "dir"}, n)
            b == St({"ip", "dp"}, {"ip", "dp"}, {"trans", "dir"}, n)
<1>0. n # "."
  BY InodeAssumption
<1>1. a \in State /\ a.held = {"ip", "dp"} /\ a.locks = {"dp"} /\ a.facts = {"trans", "dir"} /\ a.name = n
  BY StInState DEF Slots, Facts
<1>2. b \in State
  BY StInState DEF Slots, Facts
<1>3. Chain(Lock("ip"), a, b)
  <2>1. Op("ilock", "ip") \in Steps
    BY DEF Op, Steps, SimpleStep
  <2>2. {"dp"} \cup {"ip"} = {"ip", "dp"}
    OBVIOUS
  <2>3. b = St(a.held, a.locks \cup {"ip"}, a.facts, a.name)
    BY <1>1, <2>2
  <2>. HIDE DEF a, b, n
  <2>4. DoesLock(Op("ilock", "ip"), a, b)
    BY <1>0, <1>1, <2>3 DEF DoesLock, Op
  <2> QED BY <2>1, <2>4, <1>1, <1>2, ChainOne DEF Does, Lock
<1>4. Chain(<<On("unlink", "dp", path)>>, b, Idle)
  <2>1. On("unlink", "dp", path) \in Steps
    BY DEF On, Steps, DirStep
  <2>2. DoesCall(On("unlink", "dp", path), b, Idle)
    BY DEF DoesCall, On
  <2> QED BY <2>1, <2>2, <1>2, ChainLast
<1> QED BY <1>1, <1>3, <1>4, ChainConcat

\* ... that of sys_link() after ip->nlink++, ...
LEMMA LinkedChain ==
  ASSUME NEW path \in Path
  PROVE  Chain(Namei("dp", path, LinkBad) \o Lock("dp") \o <<On("dirlink", "dp", path)>>, Linking, Idle)
<1>. DEFINE F == {"trans", "dir", "surplus", "file"}
            s == On("dirlink", "dp", path)
<1>1. Chain(Namei("dp", path, LinkBad), Linking, St({"ip", "dp"}, {}, F, "."))
  BY LookupChain, FoundStates DEF Before, Linking, St
<1>2. Chain(Lock("dp"), St({"ip", "dp"}, {}, F, "."), St({"ip", "dp"}, {"dp"}, F, "."))
  BY LockDp DEF Facts, Slots
<1>3. Chain(<<s>>, St({"ip", "dp"}, {"dp"}, F, "."), Idle)
  <2>1. s \in Steps
    BY DEF On, Steps, DirStep
  <2>2. DoesCall(s, St({"ip", "dp"}, {"dp"}, F, "."), Idle)
    BY DEF DoesCall, On
  <2> QED BY <2>1, <2>2, ChainLast, KnownStates
<1>. HIDE DEF s
<1> QED BY <1>1, <1>2, <1>3, ChainConcat DEF s

\* ... after the new name was found to exist, ...
LEMMA LinkExistsChain ==
  Chain(UnlockPut("dp") \o LinkBad, St({"ip", "dp"}, {"dp"}, {"trans", "dir", "surplus", "file"}, "."), Idle)
<1>1. Chain(UnlockPut("dp"), St({"ip", "dp"}, {"dp"}, {"trans", "dir", "surplus", "file"}, "."), Linking)
  <2>1. {"dp"} \ {"dp"} = {} /\ {"trans", "dir", "surplus", "file"} \ {"dir"} = {"trans", "surplus", "file"}
    OBVIOUS
  <2> QED BY <2>1, UnlockPutDp DEF Slots, Facts, Linking
<1> QED BY <1>1, LinkBadEnds, ChainConcat

\* ... and after it was written.
LEMMA LinkDoneChain ==
  Chain(UnlockPut("dp") \o Put("ip") \o Commit, St({"ip", "dp"}, {"dp"}, {"trans", "dir", "file"}, "."), Idle)
<1>. DEFINE a == St({"ip"}, {}, {"trans", "file"}, ".")
<1>1. Chain(UnlockPut("dp"), St({"ip", "dp"}, {"dp"}, {"trans", "dir", "file"}, "."), a)
  <2>1. {"dp"} \ {"dp"} = {} /\ {"trans", "dir", "file"} \ {"dir"} = {"trans", "file"}
    OBVIOUS
  <2> QED BY <2>1, UnlockPutDp DEF Slots, Facts
<1>2. a \in State /\ a.held = {"ip"} /\ a.locks = {} /\ a.facts = {"trans", "file"} /\ a.name = "."
  BY StInState DEF Slots, Facts
<1>. HIDE DEF a
<1>3. Chain(Put("ip"), a, InTrans)
  <2>1. "next" \notin {"ip"} /\ {"ip"} \ {"ip"} = {} /\ {} \ {"ip"} = {} /\ {"trans", "file"} \ {"file"} = {"trans"}
    OBVIOUS
  <2>2. CanDrop("ip", a) /\ Dropped("ip", a) = InTrans
    BY <2>1, <1>2 DEF CanDrop, Dropped, InTrans
  <2> QED BY <2>2, <1>2, ChainPut
<1> QED BY <1>1, <1>3, CommitEnds, ChainConcat
-----------------------------------------------------------------------------
(* How often a value occurs in a table of tables *)

Is(j, i) == IF j = i THEN 1 ELSE 0
Places(A, B, f, i) == {h \in A \X B : f[h[1]][h[2]] = i}
SameBut(A, B, f, g, p, x) == \A q \in A, y \in B : <<q, y>> # <<p, x>> => g[q][y] = f[q][y]

\* The places are finitely many.
LEMMA PlacesFinite ==
  ASSUME NEW A, NEW B, IsFiniteSet(A), IsFiniteSet(B), NEW f, NEW i
  PROVE  IsFiniteSet(Places(A, B, f, i)) /\ Cardinality(Places(A, B, f, i)) \in Nat
<1>1. IsFiniteSet(A \X B)
  BY FS_Product
<1>2. Places(A, B, f, i) \subseteq A \X B
  BY DEF Places
<1> QED BY <1>1, <1>2, FS_Subset, FS_CardinalityType

\* With or without one element
LEMMA CountOne ==
  ASSUME NEW S, NEW R, NEW h, IsFiniteSet(R), h \notin R,
         NEW v, NEW i, S \ {h} = R, h \in S <=> v = i
  PROVE  Cardinality(S) = Cardinality(R) + Is(v, i)
<1>1. CASE v = i
  <2>1. S = R \cup {h}
    BY <1>1
  <2> QED BY <2>1, <1>1, FS_AddElement DEF Is
<1>2. CASE v # i
  <2>1. S = R
    BY <1>2
  <2>2. Cardinality(R) \in Nat
    BY FS_CardinalityType
  <2> QED BY <2>1, <2>2, <1>2 DEF Is
<1> QED BY <1>1, <1>2

\* One place has another value.
LEMMA OnePlaceChanges ==
  ASSUME NEW A, NEW B, IsFiniteSet(A), IsFiniteSet(B), NEW f, NEW g,
         NEW p \in A, NEW x \in B, SameBut(A, B, f, g, p, x), NEW i
  PROVE  Cardinality(Places(A, B, g, i))
           = (Cardinality(Places(A, B, f, i)) - Is(f[p][x], i)) + Is(g[p][x], i)
<1>. DEFINE h == <<p, x>>
            F == Places(A, B, f, i)
            G == Places(A, B, g, i)
            R == F \ {h}
<1>1. G \ {h} = R
  <2>1. ASSUME NEW k \in A \X B, k # h PROVE k \in G <=> k \in F
    <3>1. PICK q \in A, y \in B : k = <<q, y>>
      OBVIOUS
    <3>2. k[1] = q /\ k[2] = y /\ g[q][y] = f[q][y]
      BY <2>1, <3>1 DEF SameBut
    <3> QED BY <3>2 DEF Places
  <2>2. F \subseteq A \X B /\ G \subseteq A \X B
    BY DEF Places
  <2>. HIDE DEF F, G, h
  <2> QED BY <2>1, <2>2
<1>2. (h \in F <=> f[p][x] = i) /\ (h \in G <=> g[p][x] = i)
  BY DEF Places
<1>3. IsFiniteSet(R) /\ h \notin R
  BY PlacesFinite, FS_Subset
<1>4. Cardinality(R) \in Nat
  BY <1>3, FS_CardinalityType
<1>. HIDE DEF F, G, h
<1>5. Cardinality(F) = Cardinality(R) + Is(f[p][x], i)
  BY <1>2, <1>3, CountOne
<1>. HIDE DEF R
<1>6. Cardinality(G) = Cardinality(R) + Is(g[p][x], i)
  BY <1>1, <1>2, <1>3, CountOne
<1>. QED BY <1>4, <1>5, <1>6 DEF Is, F, G

\* Nothing differs.
LEMMA SamePlaces ==
  ASSUME NEW A, NEW B, NEW f, NEW g, \A q \in A, y \in B : g[q][y] = f[q][y], NEW i
  PROVE  Places(A, B, g, i) = Places(A, B, f, i)
  BY DEF Places
-----------------------------------------------------------------------------
(* RefsExact: every step that counts a reference up or down holds or drops it. *)

Holders(i) == Cardinality(Places(Proc, Refs, holds, i))

\* A process has finitely many references.
LEMMA RefsAreFinite == IsFiniteSet(Refs) /\ IsFiniteSet(Proc)
<1>1. Refs = {"cwd", "file"} \cup {"ip", "dp"} \cup {"next"}
  BY DEF Refs
<1>2. IsFiniteSet({"cwd", "file"}) /\ IsFiniteSet({"ip", "dp"}) /\ IsFiniteSet({"next"})
  <2>1. {"cwd", "file"} = {"cwd"} \cup {"file"} /\ {"ip", "dp"} = {"ip"} \cup {"dp"}
    OBVIOUS
  <2>2. \A y : IsFiniteSet({y})
    BY FS_Singleton, Zenon
  <2>3. IsFiniteSet({"cwd"} \cup {"file"}) /\ IsFiniteSet({"ip"} \cup {"dp"})
    BY <2>2, FS_Union
  <2> QED BY <2>1, <2>2, <2>3
<1> QED BY <1>1, <1>2, FS_Union, InodeAssumption

\* The holders of an inode are counted.
LEMMA HoldersNat == \A i : Holders(i) \in Nat
  BY RefsAreFinite, PlacesFinite DEF Holders

\* Holders in this state and in the next, as tables.
LEMMA HoldersIs ==
  ASSUME NEW i
  PROVE  /\ Holders(i) = Cardinality(Places(Proc, Refs, holds, i))
         /\ Holders(i)' = Cardinality(Places(Proc, Refs, holds', i))
  BY DEF Holders

\* RefsExact in terms of Holders.
LEMMA RefsExactIs ==
  /\ RefsExact <=> \A i \in Inum : ref[i] = Holders(i)
  /\ RefsExact' <=> \A i \in Inum : ref'[i] = Holders(i)'
  BY DEF RefsExact, Holders, Places

\* Who changes neither the counts nor the references keeps RefsExact.
LEMMA RefsSame ==
  ASSUME RefsExact, UNCHANGED <<ref, holds>>
  PROVE  RefsExact'
  BY DEF RefsExact

\* one slot of a process has another inode
LEMMA OneSlotChanges ==
  ASSUME NEW p \in Proc, NEW x \in Refs, SameBut(Proc, Refs, holds, holds', p, x), NEW i
  PROVE  Holders(i)' = (Holders(i) - Is(holds[p][x], i)) + Is(holds'[p][x], i)
  BY RefsAreFinite, OnePlaceChanges, HoldersIs

\* two slots of a process have another inode
Holding == [Proc -> [Refs -> Inum \cup {None}]]
TwoSlots(f, p, x, y, j, k) == [f EXCEPT ![p][x] = j, ![p][y] = k]

\* A change of two slots is two changes of one.
LEMMA TwoSlotsAre ==
  ASSUME NEW f \in Holding, NEW p \in Proc, NEW x \in Refs, NEW y \in Refs, x # y,
         NEW j \in Inum \cup {None}, NEW k \in Inum \cup {None}
  PROVE  \E g : /\ SameBut(Proc, Refs, f, g, p, x) /\ SameBut(Proc, Refs, g, TwoSlots(f, p, x, y, j, k), p, y)
               /\ g[p][x] = j /\ g[p][y] = f[p][y] /\ TwoSlots(f, p, x, y, j, k)[p][y] = k
<1>. DEFINE g == [f EXCEPT ![p][x] = j]
<1>1. SameBut(Proc, Refs, f, g, p, x) /\ g[p][x] = j /\ g[p][y] = f[p][y]
  BY DEF SameBut, Holding
<1>2. SameBut(Proc, Refs, g, TwoSlots(f, p, x, y, j, k), p, y) /\ TwoSlots(f, p, x, y, j, k)[p][y] = k
  BY DEF SameBut, TwoSlots, Holding
<1>. HIDE DEF g
<1> QED BY <1>1, <1>2

\* What the slots hold after a change of two of them.
LEMMA TwoSlotsHold ==
  ASSUME NEW f \in Holding, NEW p \in Proc, NEW x \in Refs, NEW y \in Refs, x # y,
         NEW j \in Inum \cup {None}, NEW k \in Inum \cup {None}
  PROVE  /\ TwoSlots(f, p, x, y, j, k) \in Holding
         /\ TwoSlots(f, p, x, y, j, k)[p][x] = j /\ TwoSlots(f, p, x, y, j, k)[p][y] = k
         /\ \A z \in Refs \ {x, y} : TwoSlots(f, p, x, y, j, k)[p][z] = f[p][z]
         /\ \A q \in Proc \ {p} : TwoSlots(f, p, x, y, j, k)[q] = f[q]
<1>. DEFINE g == [f EXCEPT ![p][x] = j]
            h == TwoSlots(f, p, x, y, j, k)
<1>1. /\ g \in Holding /\ g[p][x] = j /\ \A z \in Refs \ {x} : g[p][z] = f[p][z]
      /\ \A q \in Proc \ {p} : g[q] = f[q]
  BY DEF Holding
<1>2. h = [g EXCEPT ![p][y] = k]
  BY DEF TwoSlots
<1>. HIDE DEF g, h
<1>3. /\ h \in Holding /\ h[p][y] = k /\ \A z \in Refs \ {y} : h[p][z] = g[p][z]
      /\ \A q \in Proc \ {p} : h[q] = g[q]
  BY <1>1, <1>2 DEF Holding
<1> QED BY <1>1, <1>3 DEF h

\* The holders after a change of two slots.
LEMMA TwoSlotsChange ==
  ASSUME holds \in Holding,
         NEW p \in Proc, NEW x \in Refs, NEW y \in Refs, x # y,
         NEW j \in Inum \cup {None}, NEW k \in Inum \cup {None},
         holds' = TwoSlots(holds, p, x, y, j, k), NEW i
  PROVE  Holders(i)' = (((Holders(i) - Is(holds[p][x], i)) + Is(j, i)) - Is(holds[p][y], i)) + Is(k, i)
<1>1. PICK g : /\ SameBut(Proc, Refs, holds, g, p, x) /\ SameBut(Proc, Refs, g, holds', p, y)
               /\ g[p][x] = j /\ g[p][y] = holds[p][y] /\ holds'[p][y] = k
  BY TwoSlotsAre
<1>2. Cardinality(Places(Proc, Refs, g, i)) = (Cardinality(Places(Proc, Refs, holds, i)) - Is(holds[p][x], i)) + Is(g[p][x], i)
  <2>1. SameBut(Proc, Refs, holds, g, p, x)
    BY <1>1
  <2> QED BY <2>1, RefsAreFinite, OnePlaceChanges
<1>3. Cardinality(Places(Proc, Refs, holds', i)) = (Cardinality(Places(Proc, Refs, g, i)) - Is(g[p][y], i)) + Is(holds'[p][y], i)
  BY <1>1, RefsAreFinite, OnePlaceChanges
<1> QED BY <1>1, <1>2, <1>3, HoldersIs

\* iget() and idup()
LEMMA RefsGet ==
  ASSUME holds \in Holding, ref \in [Inum -> Nat], RefsExact,
         NEW p \in Proc, NEW x \in Refs, NEW i \in Inum, holds[p][x] = None, IGet(i), Hold(p, x, i)
  PROVE  RefsExact'
<1>1. SameBut(Proc, Refs, holds, holds', p, x) /\ holds'[p][x] = i
  BY DEF Hold, SameBut, Holding
<1>2. ASSUME NEW j \in Inum PROVE ref'[j] = Holders(j)'
  <2>1. Holders(j)' = (Holders(j) - Is(None, j)) + Is(i, j)
    BY <1>1, OneSlotChanges
  <2>2. ref[j] = Holders(j) /\ Holders(j) \in Nat /\ ref'[j] = ref[j] + Is(i, j) /\ j # None
    BY RefsExactIs, HoldersNat, InodeAssumption DEF IGet, Is
  <2> QED BY <2>1, <2>2 DEF Is
<1> QED BY <1>2, RefsExactIs

\* iput() and the step that the reference next takes
LEMMA RefsDrop ==
  ASSUME holds \in Holding, ref \in [Inum -> Nat], RefsExact,
         NEW p \in Proc, NEW x \in Refs \ {"next"}, NEW i \in Inum, holds[p][x] = i,
         ref' = [ref EXCEPT ![i] = @ - 1], Drop(p, x)
  PROVE  RefsExact' /\ ref[i] >= 1
<1>1. "next" \in Refs /\ x # "next" /\ x \in Refs
  BY DEF Refs
<1>2. ASSUME NEW j \in Inum
      PROVE  Holders(j)' = Holders(j) - Is(i, j)
  <2>. DEFINE n == holds[p]["next"]
  <2>0. holds' = TwoSlots(holds, p, x, "next", n, None) /\ n \in Inum \cup {None}
    BY <1>1 DEF Drop, TwoSlots, Holding
  <2>. HIDE DEF n
  <2>1. Holders(j)' = (((Holders(j) - Is(i, j)) + Is(n, j)) - Is(holds[p]["next"], j)) + Is(None, j)
    BY <1>1, <2>0, TwoSlotsChange
  <2>2. Holders(j) \in Nat /\ j # None
    BY HoldersNat, InodeAssumption
  <2> QED BY <2>1, <2>2 DEF Is, n
<1>3. ASSUME NEW j \in Inum PROVE ref'[j] = Holders(j)'
  <2>1. ref[j] = Holders(j) /\ Holders(j) \in Nat /\ ref'[j] = ref[j] - Is(i, j)
    BY RefsExactIs, HoldersNat DEF Is
  <2> QED BY <2>1, <1>2
<1>4. ref[i] >= 1
  <2>1. ref[i] = Holders(i) /\ Holders(i)' = Holders(i) - 1 /\ Holders(i)' \in Nat
    <3>1. Holders(i)' \in Nat
      BY RefsAreFinite, PlacesFinite DEF Holders
    <3> QED BY <1>2, <3>1, RefsExactIs DEF Is
  <2> QED BY <2>1
<1> QED BY <1>3, <1>4, RefsExactIs

\* open() and chdir(): ip moves to another slot
LEMMA RefsMove ==
  ASSUME holds \in Holding, ref \in [Inum -> Nat], RefsExact,
         NEW p \in Proc, NEW x \in Refs, NEW y \in Refs, x # y, UNCHANGED ref,
         holds' = TwoSlots(holds, p, x, y, holds[p][y], holds[p][x])
  PROVE  RefsExact'
<1>. DEFINE j1 == holds[p][x]
            k1 == holds[p][y]
<1>1. /\ j1 \in Inum \cup {None} /\ k1 \in Inum \cup {None}
      /\ holds' = TwoSlots(holds, p, x, y, k1, j1)
  BY DEF Holding
<1>. HIDE DEF j1, k1
<1>2. ASSUME NEW j \in Inum PROVE ref'[j] = Holders(j)'
  <2>1. Holders(j)' = (((Holders(j) - Is(holds[p][x], j)) + Is(k1, j)) - Is(holds[p][y], j)) + Is(j1, j)
    BY <1>1, TwoSlotsChange
  <2>2. Holders(j) \in Nat /\ ref[j] = Holders(j)
    BY HoldersNat, RefsExactIs
  <2> QED BY <2>1, <2>2 DEF Is, j1, k1
<1> QED BY <1>2, RefsExactIs

\* An inode with one reference has one holder.
LEMMA OneHolder ==
  ASSUME RefsExact, NEW i \in Inum, ref[i] = 1,
         NEW p \in Proc, NEW x \in Refs, holds[p][x] = i,
         NEW q \in Proc, NEW y \in Refs, holds[q][y] = i
  PROVE  q = p /\ y = x
<1>1. Cardinality(Places(Proc, Refs, holds, i)) = 1
  BY RefsExactIs, HoldersIs
<1>2. PICK h : Places(Proc, Refs, holds, i) = {h}
  BY <1>1, RefsAreFinite, PlacesFinite, FS_Singleton
<1>3. <<p, x>> \in Places(Proc, Refs, holds, i) /\ <<q, y>> \in Places(Proc, Refs, holds, i)
  BY DEF Places
<1>4. <<p, x>> = <<q, y>>
  BY <1>2, <1>3, Zenon
<1> QED BY <1>4

\* What is held is counted.
LEMMA HeldIsCounted ==
  ASSUME RefsExact, NEW i \in Inum, NEW p \in Proc, NEW x \in Refs, holds[p][x] = i
  PROVE  ref[i] >= 1
<1>1. <<p, x>> \in Places(Proc, Refs, holds, i)
  BY DEF Places
<1>2. IsFiniteSet(Places(Proc, Refs, holds, i)) /\ Cardinality(Places(Proc, Refs, holds, i)) \in Nat
  BY RefsAreFinite, PlacesFinite
<1>3. Cardinality(Places(Proc, Refs, holds, i)) # 0
  BY <1>1, <1>2, FS_EmptySet
<1> QED BY <1>2, <1>3, RefsExactIs, HoldersIs
-----------------------------------------------------------------------------
(* The blocks and inodes that are taken, and the links of an inode *)

\* The first element of a set of numbers is one of them.
LEMMA FirstIsIn ==
  ASSUME NEW S, IsFiniteSet(S), S \subseteq Nat, S # {}
  PROVE  First(S) \in S
<1>. DEFINE Below(x) == {y \in S : y <= x}
            T == {Below(x) : x \in S}
<1>1. IsWellFoundedOn(StrictSubsetOrdering(S), SUBSET S)
  <2>1. FiniteSubsetsOf(S) = SUBSET S
    BY FS_FiniteSubsetsOfFinite
  <2> QED BY <2>1, FS_StrictSubsetOrderingWellFounded, Zenon
<1>2. T \subseteq SUBSET S /\ T # {}
  OBVIOUS
<1>3. PICK U \in T : \A V \in T : ~(<<V, U>> \in StrictSubsetOrdering(S))
  <2>. HIDE DEF T
  <2> QED BY <1>1, <1>2, WFMin, Zenon
<1>4. PICK x \in S : U = Below(x)
  OBVIOUS
<1>5. ASSUME NEW y \in S PROVE x <= y
  <2>1. SUFFICES ASSUME y < x PROVE FALSE
    OBVIOUS
  <2>2. Below(y) \in T
    OBVIOUS
  <2>3. Below(y) \subseteq U /\ x \in U /\ x \notin Below(y) /\ Below(y) \subseteq S /\ U \subseteq S
    <3>1. ASSUME NEW z \in S, z <= y PROVE z <= x
      <4>1. x \in Nat /\ y \in Nat /\ z \in Nat
        OBVIOUS
      <4> QED BY <2>1, <3>1, <4>1
    <3>2. x \in Nat /\ y \in Nat
      OBVIOUS
    <3>3. x <= x /\ ~(x <= y)
      BY <2>1, <3>2
    <3> QED BY <1>4, <3>1, <3>3
  <2>4. <<Below(y), U>> \in StrictSubsetOrdering(S)
    BY <2>3 DEF StrictSubsetOrdering
  <2> QED BY <2>2, <2>4, <1>3
<1> QED BY <1>5 DEF First

NamesOf(i) == Cardinality(Places(Inum, Name, entries, i))
SubDirs(i) == Cardinality({n \in Name : IsDir(entries[i][n])})
Root(i)    == IF i = ROOTINO THEN 1 ELSE 0
Kind(i)    == IF IsDir(i) THEN 1 ELSE 0

\* The links of an inode are its names, its subdirectories and, for the root, itself.
LEMMA LinksIs ==
  ASSUME NEW i \in Inum
  PROVE  /\ Links(i) = NamesOf(i) + SubDirs(i) + Root(i)
         /\ Links(i)' = NamesOf(i)' + SubDirs(i)' + Root(i)
  BY DEF Links, NamesOf, SubDirs, Root, Places

\* These are finitely many.
LEMMA NamesAreFinite ==
  ASSUME NEW i
  PROVE  /\ IsFiniteSet(Name) /\ IsFiniteSet(Inum)
         /\ IsFiniteSet(Places(Inum, Name, entries, i)) /\ NamesOf(i) \in Nat
         /\ IsFiniteSet({n \in Name : IsDir(entries[i][n])}) /\ SubDirs(i) \in Nat
<1>1. IsFiniteSet(Name) /\ IsFiniteSet(Inum)
  BY InodeAssumption
<1>2. {n \in Name : IsDir(entries[i][n])} \subseteq Name
  OBVIOUS
<1> QED BY <1>1, <1>2, PlacesFinite, FS_Subset, FS_CardinalityType DEF NamesOf, SubDirs

\* The number of links is a number, ...
LEMMA LinksNat == \A i \in Inum : Links(i) \in Nat
<1>1. ASSUME NEW i \in Inum PROVE Links(i) \in Nat
  <2>1. NamesOf(i) \in Nat /\ SubDirs(i) \in Nat /\ Root(i) \in Nat
    BY NamesAreFinite DEF Root
  <2>2. Links(i) = NamesOf(i) + SubDirs(i) + Root(i)
    BY LinksIs
  <2> QED BY <2>1, <2>2
<1> QED BY <1>1

\* ... in the next state, too.
LEMMA LinksNatNext == (\A i \in Inum : Links(i) \in Nat)'
  BY LinksNat, PTL

\* an inode that a name leads to has a link
LEMMA NamedHasLink ==
  ASSUME NEW d \in Inum, NEW n \in Name, NEW i \in Inum, entries[d][n] = i
  PROVE  Links(i) >= 1
<1>1. <<d, n>> \in Places(Inum, Name, entries, i)
  BY DEF Places
<1>2. NamesOf(i) # 0 /\ NamesOf(i) \in Nat /\ SubDirs(i) \in Nat
  BY <1>1, NamesAreFinite, FS_EmptySet DEF NamesOf
<1> QED BY <1>2, LinksIs DEF Root

\* The root has a link.
LEMMA RootHasLink == Links(ROOTINO) >= 1
<1>1. ROOTINO \in Inum
  BY InodeAssumption
<1>2. NamesOf(ROOTINO) \in Nat /\ SubDirs(ROOTINO) \in Nat /\ Root(ROOTINO) = 1
  BY NamesAreFinite DEF Root
<1>3. Links(ROOTINO) = NamesOf(ROOTINO) + SubDirs(ROOTINO) + Root(ROOTINO)
  BY <1>1, LinksIs
<1> QED BY <1>2, <1>3

\* fewer names and fewer directories
LEMMA FewerLinks ==
  ASSUME NEW i \in Inum,
         \A d \in Inum, n \in Name : entries'[d][n] = i => entries[d][n] = i,
         \A n \in Name : IsDir(entries[i][n])' => IsDir(entries[i][n])
  PROVE  Links(i)' <= Links(i)
<1>1. Places(Inum, Name, entries', i) \subseteq Places(Inum, Name, entries, i)
  <2>1. ASSUME NEW h \in Inum \X Name, entries'[h[1]][h[2]] = i PROVE entries[h[1]][h[2]] = i
    BY <2>1
  <2> QED BY <2>1 DEF Places
<1>2. {n \in Name : IsDir(entries[i][n])'} \subseteq {n \in Name : IsDir(entries[i][n])}
  OBVIOUS
<1>3. NamesOf(i)' <= NamesOf(i) /\ NamesOf(i)' \in Nat
  BY <1>1, NamesAreFinite, FS_Subset, FS_CardinalityType DEF NamesOf
<1>4. SubDirs(i)' <= SubDirs(i) /\ SubDirs(i)' \in Nat
  BY <1>2, NamesAreFinite, FS_Subset, FS_CardinalityType DEF SubDirs
<1>5. NamesOf(i) \in Nat /\ SubDirs(i) \in Nat /\ Root(i) \in Nat
  BY NamesAreFinite DEF Root
<1>6. Links(i) = NamesOf(i) + SubDirs(i) + Root(i) /\ Links(i)' = NamesOf(i)' + SubDirs(i)' + Root(i)
  BY LinksIs
<1> QED BY <1>3, <1>4, <1>5, <1>6

\* nothing that counts changes
LEMMA SameLinks ==
  ASSUME NEW i \in Inum,
         \A d \in Inum, n \in Name : entries'[d][n] = entries[d][n],
         \A n \in Name : IsDir(entries[i][n])' <=> IsDir(entries[i][n])
  PROVE  Links(i)' = Links(i)
<1>1. Places(Inum, Name, entries', i) = Places(Inum, Name, entries, i)
  BY SamePlaces, Zenon
<1>2. {n \in Name : IsDir(entries[i][n])'} = {n \in Name : IsDir(entries[i][n])}
  OBVIOUS
<1> QED BY <1>1, <1>2, LinksIs DEF NamesOf, SubDirs

\* one name has another inode
LEMMA OneNameChanges ==
  ASSUME NEW d \in Inum, NEW n \in Name, SameBut(Inum, Name, entries, entries', d, n), NEW i \in Inum,
         \A m \in Name : <<i, m>> # <<d, n>> => (IsDir(entries[i][m])' <=> IsDir(entries[i][m]))
  PROVE  Links(i)' = ((Links(i) - Is(entries[d][n], i)) + Is(entries'[d][n], i))
                     + (IF i = d THEN Kind(entries[d][n])' - Kind(entries[d][n]) ELSE 0)
<1>1. NamesOf(i)' = (NamesOf(i) - Is(entries[d][n], i)) + Is(entries'[d][n], i)
  <2>1. IsFiniteSet(Inum) /\ IsFiniteSet(Name)
    BY InodeAssumption
  <2> QED BY <2>1, OnePlaceChanges DEF NamesOf
<1>2. NamesOf(i) \in Nat /\ SubDirs(i) \in Nat
  BY NamesAreFinite
<1>3. CASE i = d
  <2>. DEFINE S == {m \in Name : IsDir(entries[d][m])}
              Q == {m \in Name : IsDir(entries[d][m])'}
              R == S \ {n}
  <2>1. Q \ {n} = R
    BY <1>3
  <2>2. IsFiniteSet(R) /\ n \notin R
    BY NamesAreFinite, FS_Subset
  <2>3. (n \in S <=> Kind(entries[d][n]) = 1) /\ (n \in Q <=> Kind(entries[d][n])' = 1)
    BY DEF Kind
  <2>4. SubDirs(i) = Cardinality(S) /\ SubDirs(i)' = Cardinality(Q) /\ Cardinality(R) \in Nat
    BY <1>3, <2>2, FS_CardinalityType DEF SubDirs
  <2>. HIDE DEF S, Q
  <2>5. Cardinality(S) = Cardinality(R) + Is(Kind(entries[d][n]), 1)
    BY <2>2, <2>3, CountOne
  <2>. HIDE DEF R
  <2>6. Cardinality(Q) = Cardinality(R) + Is(Kind(entries[d][n])', 1)
    BY <2>1, <2>2, <2>3, CountOne
  <2>7. Is(Kind(entries[d][n]), 1) = Kind(entries[d][n]) /\ Is(Kind(entries[d][n])', 1) = Kind(entries[d][n])'
    BY DEF Kind, Is
  <2>8. Kind(entries[d][n]) \in Nat /\ Kind(entries[d][n])' \in Nat
    BY DEF Kind
  <2>9. SubDirs(i)' = (SubDirs(i) - Kind(entries[d][n])) + Kind(entries[d][n])'
    BY <2>4, <2>5, <2>6, <2>7, <2>8
  <2> QED BY <1>1, <1>2, <1>3, <2>8, <2>9, LinksIs DEF Root, Is
<1>4. CASE i # d
  <2>1. {m \in Name : IsDir(entries[i][m])'} = {m \in Name : IsDir(entries[i][m])}
    BY <1>4
  <2>2. SubDirs(i)' = SubDirs(i)
    BY <2>1 DEF SubDirs
  <2> QED BY <1>1, <1>2, <1>4, <2>2, LinksIs DEF Root, Is
<1> QED BY <1>3, <1>4
-----------------------------------------------------------------------------
(* The inductive invariant *)

\* a process holds the references that its steps need, ...
HoldsAgree(p, a) ==
  /\ holds[p]["cwd"] # None
  /\ \A x \in {"ip", "dp", "next"} : x \in a.held <=> holds[p][x] # None
  /\ "file" \in a.held => holds[p]["file"] # None

\* ... has locked the inodes that they have locked, and no other, ...
LocksAgree(p, a) ==
  /\ a.locks \subseteq a.held \ {"next"}
  /\ \A x \in a.locks : locked[holds[p][x]] = p
  /\ \A i \in Inum : locked[i] = p => \E x \in a.locks : holds[p][x] = i
  /\ \A x \in a.locks, y \in a.locks : holds[p][x] = holds[p][y] => x = y

\* ... and what they rely on is true.
FactsAgree(p, a) ==
  /\ "trans" \in a.facts <=> writer = p
  /\ "dir" \in a.facts => "dp" \in a.held /\ dinode[holds[p]["dp"]].type = "dir"
  /\ "file" \in a.facts => "ip" \in a.held /\ dinode[holds[p]["ip"]].type # "dir"
  /\ "surplus" \in a.facts =>
       /\ "trans" \in a.facts /\ "ip" \in a.held
       /\ Links(holds[p]["ip"]) + 1 <= dinode[holds[p]["ip"]].nlink
  /\ a.name # "." =>
       /\ "ip" \in a.held /\ "dp" \in a.locks
       /\ entries[holds[p]["dp"]][a.name] = holds[p]["ip"]

Agrees(p, a) == HoldsAgree(p, a) /\ LocksAgree(p, a) /\ FactsAgree(p, a)

\* p is between the first test of iput() and its end
Frees(p, a) ==
  /\ todo[p] # <<>> /\ Now(p) \in Dying
  /\ Now(p).x \in a.locks /\ CanDrop(Now(p).x, a)
  /\ Chain(Tail(todo[p]), Dropped(Now(p).x, a), Idle)
  /\ ref[At(p)] = 1 /\ dinode[At(p)].nlink = 0

Follows(p) ==
  \E a \in State : Agrees(p, a) /\ (Chain(todo[p], a, Idle) \/ Frees(p, a))

\* what is in memory is on the disk; what is locked was read
CacheInv ==
  /\ \A i \in valid : inode[i] = dinode[i]
  /\ \A i \in Inum : locked[i] # NoProc => i \in valid

\* an inode that is held is not free
HeldInv == \A p \in Proc, x \in Refs : holds[p][x] # None => dinode[holds[p][x]].type # "none"

FreeInv == \A i \in Inum : dinode[i].type = "none" => dinode[i] = Unused

\* directories form a tree
TreeInv ==
  /\ \A i \in Inum : dinode[i].type # "dir" => entries[i] = NoEntries
  /\ \A i \in Inum : dinode[i].type = "dir" => entries[i][".."] # None
  /\ \A d \in Inum, n \in Name : entries[d][n] # d
  /\ \A d \in Inum, n \in Name : IsDir(entries[d][n]) =>
       /\ entries[entries[d][n]][".."] = d
       /\ \A m \in Name : entries[d][m] = entries[d][n] => m = n

BlockInv ==
  /\ bitmap = UNION {dinode[i].addrs : i \in Inum}
  /\ \A i \in Inum, j \in Inum : i # j => dinode[i].addrs \cap dinode[j].addrs = {}

LinksInv == \A i \in Inum : Links(i) <= dinode[i].nlink

DiskInv == FreeInv /\ TreeInv /\ BlockInv /\ LinksInv

IInv ==
  /\ Types /\ RefsExact /\ CacheInv /\ HeldInv /\ DiskInv
  /\ \A p \in Proc : Follows(p)

-----------------------------------------------------------------------------
(* What a step needs and leaves, by its name *)

\* begin_trans: nothing is locked, and p is not in a transaction.
LEMMA DoesBegin ==
  ASSUME NEW s, NEW a, NEW b, Does(s, a, b), s.f = "begin_trans"
  PROVE  a.locks = {} /\ "trans" \notin a.facts /\ b = St(a.held, {}, a.facts \cup {"trans"}, a.name)
  BY DEF Does, DoesLog, DoesLock, DoesPut, DoesLookup, DoesCall, DoesChange

\* commit_trans: p is in a transaction, and no link is without its name.
LEMMA DoesCommit ==
  ASSUME NEW s, NEW a, NEW b, Does(s, a, b), s.f = "commit_trans"
  PROVE  /\ "trans" \in a.facts /\ "surplus" \notin a.facts /\ "file" \notin a.locks
         /\ b = St(a.held \ {"file"}, a.locks, a.facts \ {"trans"}, a.name)
  BY DEF Does, DoesLog, DoesLock, DoesPut, DoesLookup, DoesCall, DoesChange

\* ilock: nothing is locked, or dp is and ip has a name in it.
LEMMA DoesILock ==
  ASSUME NEW s, NEW a, NEW b, Does(s, a, b), s.f = "ilock"
  PROVE  /\ s.x \in a.held /\ s.x \notin a.locks
         /\ \/ a.locks = {}
            \/ "trans" \in a.facts /\ s.x = "ip" /\ a.locks = {"dp"} /\ "dp" \in a.held /\ a.name # "."
         /\ b = St(a.held, a.locks \cup {s.x}, a.facts, a.name)
  BY DEF Does, DoesLog, DoesLock, DoesPut, DoesLookup, DoesCall, DoesChange

\* iunlock: the inode is locked.
LEMMA DoesIUnlock ==
  ASSUME NEW s, NEW a, NEW b, Does(s, a, b), s.f = "iunlock"
  PROVE  s.x \in a.locks /\ a.name = "." /\ b = St(a.held, a.locks \ {s.x}, a.facts, a.name)
  BY DEF Does, DoesLog, DoesLock, DoesPut, DoesLookup, DoesCall, DoesChange

\* iput: the inode is held and not locked.
LEMMA DoesIPut ==
  ASSUME NEW s, NEW a, NEW b, Does(s, a, b), s.f = "iput"
  PROVE  s.x \notin a.locks /\ CanDrop(s.x, a) /\ b = Dropped(s.x, a)
  BY DEF Does, DoesLog, DoesLock, DoesPut, DoesLookup, DoesCall, DoesChange

\* namei: where a lookup starts.
LEMMA DoesNamei ==
  ASSUME NEW s, NEW a, NEW b, Does(s, a, b), s.f = "namei"
  PROVE  s.x \notin a.held /\ Before(s.fail, a) /\ b = Found(s.x, a)
  BY DEF Does, DoesLog, DoesLock, DoesPut, DoesLookup, DoesCall, DoesChange

\* walk: nothing is locked.
LEMMA DoesWalk ==
  ASSUME NEW s, NEW a, NEW b, Does(s, a, b), s.f = "walk"
  PROVE  \E c \in State : /\ s.x \notin c.held /\ Before(s.fail, c)
                         /\ a = During(s.x, c) /\ b = Found(s.x, c)
  BY DEF Does, DoesLog, DoesLock, DoesPut, DoesLookup, DoesCall, DoesChange

\* open and chdir: ip is locked.
LEMMA DoesOpen ==
  ASSUME NEW s, NEW a, NEW b, Does(s, a, b), s.f \in {"open", "chdir"}
  PROVE  s.x = "ip" /\ a = St({"ip"}, {"ip"}, {}, ".") /\ b = Idle
  BY DEF Does, DoesLog, DoesLock, DoesPut, DoesLookup, DoesCall, DoesChange

\* create: dp is locked, in a transaction.
LEMMA DoesCreate ==
  ASSUME NEW s, NEW a, NEW b, Does(s, a, b), s.f = "create"
  PROVE  a = St({"dp"}, {"dp"}, {"trans", "dir"}, ".") /\ b = Idle
  BY DEF Does, DoesLog, DoesLock, DoesPut, DoesLookup, DoesCall, DoesChange

\* created: ip is locked, in a transaction.
LEMMA DoesCreated ==
  ASSUME NEW s, NEW a, NEW b, Does(s, a, b), s.f = "created"
  PROVE  a = St({"ip"}, {"ip"}, {"trans"}, ".") /\ b = Idle
  BY DEF Does, DoesLog, DoesLock, DoesPut, DoesLookup, DoesCall, DoesChange

\* dirlookup: dp is locked, in a transaction.
LEMMA DoesDirLookup ==
  ASSUME NEW s, NEW a, NEW b, Does(s, a, b), s.f = "dirlookup"
  PROVE  s.x = "dp" /\ a = St({"dp"}, {"dp"}, {"trans", "dir"}, ".") /\ b = Idle
  BY DEF Does, DoesLog, DoesLock, DoesPut, DoesLookup, DoesCall, DoesChange

\* unlink: both are locked, and ip has the name in dp.
LEMMA DoesUnlink ==
  ASSUME NEW s, NEW a, NEW b, Does(s, a, b), s.f = "unlink"
  PROVE  /\ s.x = "dp" /\ LastName(s.path) \in Name
         /\ a = St({"ip", "dp"}, {"ip", "dp"}, {"trans", "dir"}, LastName(s.path)) /\ b = Idle
  BY DEF Does, DoesLog, DoesLock, DoesPut, DoesLookup, DoesCall, DoesChange

\* link: ip is locked, in a transaction.
LEMMA DoesIncLink ==
  ASSUME NEW s, NEW a, NEW b, Does(s, a, b), s.f = "link"
  PROVE  s.x = "ip" /\ a = St({"ip"}, {"ip"}, {"trans"}, ".") /\ b = Idle
  BY DEF Does, DoesLog, DoesLock, DoesPut, DoesLookup, DoesCall, DoesChange

\* dirlink: dp is locked, and ip has a link without a name.
LEMMA DoesDirLink ==
  ASSUME NEW s, NEW a, NEW b, Does(s, a, b), s.f = "dirlink"
  PROVE  /\ s.x = "dp"
         /\ a = St({"ip", "dp"}, {"dp"}, {"trans", "dir", "surplus", "file"}, ".") /\ b = Idle
  BY DEF Does, DoesLog, DoesLock, DoesPut, DoesLookup, DoesCall, DoesChange

\* writei: the open file is locked, in a transaction.
LEMMA DoesWriteI ==
  ASSUME NEW s, NEW a, NEW b, Does(s, a, b), s.f = "writei"
  PROVE  s.x = "file" /\ a = St({"file"}, {"file"}, {"trans"}, ".") /\ b = a
  BY DEF Does, DoesLog, DoesLock, DoesPut, DoesLookup, DoesCall, DoesChange

\* nlink--: ip has a link without a name.
LEMMA DoesDecLink ==
  ASSUME NEW s, NEW a, NEW b, Does(s, a, b), s.f = "nlink--"
  PROVE  /\ s.x = "ip" /\ "ip" \in a.locks /\ "ip" \in a.held
         /\ "surplus" \in a.facts /\ "trans" \in a.facts
         /\ b = St(a.held, a.locks, a.facts \ {"surplus", "file"}, a.name)
  BY DEF Does, DoesLog, DoesLock, DoesPut, DoesLookup, DoesCall, DoesChange

\* the arguments of a step
LEMMA StepHas ==
  ASSUME NEW s \in Steps
  PROVE  /\ s.f # "ifree"
         /\ s.f \in {"ilock", "iunlock", "iput"} => s.x \in {"log", "ip", "dp", "file"}
         /\ s.f \in {"namei", "walk"} => s.x \in {"ip", "dp"} /\ s.fail \in {<<>>, Commit, LinkBad}
         /\ s.f = "namei" => s.path \in Path
         /\ s.f = "walk" => s.path \in Seq(Elem)
         /\ s.f \in {"dirlookup", "unlink", "link", "dirlink", "create"} => s.path \in Path
         /\ s.f = "create" => s.x = "dp" /\ s.type \in {"file", "dir"}
         /\ s.f = "created" => s.x = "ip" /\ s.type \in {"file", "dir"}
  BY DEF Steps, SimpleStep, LookupStep, DirStep

\* what a process that does f agrees to, before and after
LEMMA NowDoes ==
  ASSUME NEW p \in Proc, Follows(p), todo[p] # <<>>, Now(p).f # "ifree"
  PROVE  \E a \in State, b \in State :
           /\ Agrees(p, a) /\ Now(p) \in Steps /\ Does(Now(p), a, b) /\ Chain(Tail(todo[p]), b, Idle)
<1>1. PICK a \in State : Agrees(p, a) /\ (Chain(todo[p], a, Idle) \/ Frees(p, a))
  BY DEF Follows
<1>2. ~Frees(p, a)
  BY DEF Frees, Dying
<1>3. Chain(todo[p], a, Idle)
  BY <1>1, <1>2
<1>4. PICK b \in State : Does(Now(p), a, b) /\ Chain(Tail(todo[p]), b, Idle)
  BY <1>3, ChainHead DEF Now
<1>5. Now(p) \in Steps
  BY <1>3, ChainHead DEF Now
<1> QED BY <1>1, <1>4, <1>5

\* What a process that frees an inode agrees to.
LEMMA NowFrees ==
  ASSUME NEW p \in Proc, Follows(p), Doing(p, "ifree")
  PROVE  \E a \in State : Agrees(p, a) /\ Frees(p, a)
<1>1. PICK a \in State : Agrees(p, a) /\ (Chain(todo[p], a, Idle) \/ Frees(p, a))
  BY DEF Follows
<1>2. ASSUME Chain(todo[p], a, Idle) PROVE FALSE
  <2>1. Head(todo[p]) \in Steps
    BY <1>2, ChainHead DEF Doing
  <2> QED BY <2>1, StepHas DEF Doing
<1> QED BY <1>1, <1>2

\* the steps of p after a step, and those of the others
LEMMA ThenChain ==
  ASSUME todo \in [Proc -> Seq(Steps \cup Dying)], NEW p \in Proc, NEW new, NEW b, NEW c, Then(p, new),
         Chain(new, c, b), Chain(Tail(todo[p]), b, Idle)
  PROVE  Chain(todo'[p], c, Idle) /\ \A q \in Proc \ {p} : todo'[q] = todo[q]
<1>1. todo'[p] = new \o Tail(todo[p]) /\ \A q \in Proc \ {p} : todo'[q] = todo[q]
  BY DEF Then
<1> QED BY <1>1, ChainConcat

\* The steps of p and of the others after a step that adds none, ...
LEMMA TailChain ==
  ASSUME todo \in [Proc -> Seq(Steps \cup Dying)], NEW p \in Proc, NEW b \in State, Then(p, <<>>),
         Chain(Tail(todo[p]), b, Idle)
  PROVE  Chain(todo'[p], b, Idle) /\ \A q \in Proc \ {p} : todo'[q] = todo[q]
<1>1. Chain(<<>>, b, b)
  BY ChainEmpty
<1> QED BY <1>1, ThenChain

\* ... and after one that puts others in the place of all.
LEMMA InsteadChain ==
  ASSUME todo \in [Proc -> Seq(Steps \cup Dying)], NEW p \in Proc, NEW new, NEW c, Instead(p, new),
         Chain(new, c, Idle)
  PROVE  Chain(todo'[p], c, Idle) /\ \A q \in Proc \ {p} : todo'[q] = todo[q]
  BY DEF Instead

\* a process whose steps lead from what it agrees to
LEMMA ChainFollows ==
  ASSUME NEW p \in Proc, NEW c \in State, Agrees(p, c)', Chain(todo'[p], c, Idle)
  PROVE  Follows(p)' /\ todo'[p] \in Seq(Steps \cup Dying)
<1>1. Follows(p)'
  BY DEF Follows
<1>2. todo'[p] \in Seq(Steps) 
  BY DEF Chain
<1>3. \A q \in Seq(Steps) : q \in Seq(Steps \cup Dying)
  OBVIOUS
<1> QED BY <1>1, <1>2, <1>3
-----------------------------------------------------------------------------
(* What a step of one process leaves to the others *)

\* it does not touch what q holds and has locked, nor the disk while q writes
Leaves(q) ==
  /\ todo'[q] = todo[q] /\ holds'[q] = holds[q] /\ (writer' = q <=> writer = q)
  /\ \A i \in Inum : locked'[i] = q <=> locked[i] = q
  /\ \A i \in Inum : locked[i] = q => entries'[i] = entries[i]
  /\ \A x \in Refs : holds[q][x] # None => dinode'[holds[q][x]].type = dinode[holds[q][x]].type
  /\ writer = q => UNCHANGED ondisk
  /\ Doing(q, "ifree") => ref'[At(q)] = ref[At(q)] /\ dinode'[At(q)].nlink = dinode[At(q)].nlink

\* The slots are references besides the cwd.
LEMMA SlotsAreRefs == Slots \subseteq Refs /\ "cwd" \in Refs /\ \A x \in Slots : x # "cwd"
  BY DEF Slots, Refs

\* What a step leaves alone stays in order: Leaves(q) keeps Follows(q).
LEMMA LeavesFollows ==
  ASSUME Types, NEW q \in Proc, Follows(q), Leaves(q)
  PROVE  Follows(q)'
<1>1. PICK a \in State : Agrees(q, a) /\ (Chain(todo[q], a, Idle) \/ Frees(q, a))
  BY DEF Follows
<1>2. a.held \subseteq Slots /\ a.locks \subseteq Slots
  BY StateIsSt
<1>3. todo'[q] = todo[q] /\ holds'[q] = holds[q] /\ At(q)' = At(q) /\ Now(q)' = Now(q)
  BY DEF Leaves, At, Now
<1>4. HoldsAgree(q, a)'
  BY <1>1, <1>3 DEF Agrees, HoldsAgree
<1>5. LocksAgree(q, a)'
  <2>1. \A i \in Inum : locked'[i] = q <=> locked[i] = q
    BY DEF Leaves
  <2>2. \A x \in a.locks : holds[q][x] \in Inum
    <3>1. ASSUME NEW x \in a.locks PROVE holds[q][x] \in Inum
      <4>1. x \in a.held /\ x \in Refs
        BY <1>1, <1>2, SlotsAreRefs DEF Agrees, LocksAgree
      <4>2. holds[q][x] # None
        BY <4>1, <1>1, <1>2 DEF Agrees, HoldsAgree, Slots
      <4>3. holds[q][x] \in Inum \cup {None}
        BY <4>1 DEF Types
      <4> QED BY <4>2, <4>3
    <3> QED BY <3>1
  <2> QED BY <2>1, <2>2, <1>1, <1>3 DEF Agrees, LocksAgree
<1>6. FactsAgree(q, a)'
  <2>1. "trans" \in a.facts <=> writer' = q
    BY <1>1 DEF Agrees, FactsAgree, Leaves
  <2>2. ASSUME NEW x \in {"ip", "dp"}, x \in a.held
        PROVE  holds[q][x] \in Inum /\ dinode'[holds[q][x]].type = dinode[holds[q][x]].type
    <3>1. holds[q][x] # None /\ x \in Refs
      BY <2>2, <1>1 DEF Agrees, HoldsAgree, Refs
    <3>2. holds[q][x] \in Inum \cup {None}
      BY <3>1 DEF Types
    <3> QED BY <3>1, <3>2 DEF Leaves
  <2>3. "dir" \in a.facts => "dp" \in a.held /\ dinode'[holds'[q]["dp"]].type = "dir"
    BY <1>1, <1>3, <2>2 DEF Agrees, FactsAgree
  <2>4. "file" \in a.facts => "ip" \in a.held /\ dinode'[holds'[q]["ip"]].type # "dir"
    BY <1>1, <1>3, <2>2 DEF Agrees, FactsAgree
  <2>5. "surplus" \in a.facts =>
          /\ "trans" \in a.facts /\ "ip" \in a.held
          /\ (Links(holds[q]["ip"]) + 1 <= dinode[holds[q]["ip"]].nlink)'
    <3>1. CASE "surplus" \in a.facts
      <4>1. /\ "trans" \in a.facts /\ "ip" \in a.held
            /\ Links(holds[q]["ip"]) + 1 <= dinode[holds[q]["ip"]].nlink
        BY <3>1, <1>1 DEF Agrees, FactsAgree
      <4>2. UNCHANGED <<dinode, entries>>
        BY <4>1, <1>1 DEF Agrees, FactsAgree, Leaves, ondisk
      <4>3. Links(holds[q]["ip"])' = Links(holds[q]["ip"])
        BY <4>2, <1>3 DEF Links, IsDir
      <4> QED BY <4>1, <4>2, <4>3, <1>3
    <3> QED BY <3>1
  <2>6. a.name # "." => /\ "ip" \in a.held /\ "dp" \in a.locks
                        /\ entries'[holds'[q]["dp"]][a.name] = holds'[q]["ip"]
    <3>1. CASE a.name # "."
      <4>1. /\ "ip" \in a.held /\ "dp" \in a.locks
            /\ entries[holds[q]["dp"]][a.name] = holds[q]["ip"]
        BY <3>1, <1>1 DEF Agrees, FactsAgree
      <4>2. locked[holds[q]["dp"]] = q /\ "dp" \in a.held
        BY <4>1, <1>1 DEF Agrees, LocksAgree
      <4>3. entries'[holds[q]["dp"]] = entries[holds[q]["dp"]]
        BY <4>2, <2>2 DEF Leaves
      <4> QED BY <4>1, <4>3, <1>3
    <3> QED BY <3>1
  <2> QED BY <2>1, <2>3, <2>4, <2>5, <2>6 DEF FactsAgree
<1>7. Chain(todo[q], a, Idle) => Chain(todo'[q], a, Idle)
  BY <1>3
<1>8. Frees(q, a) => Frees(q, a)'
  <2>1. CASE Frees(q, a)
    <3>1. Doing(q, "ifree")
      BY <2>1 DEF Frees, Dying, Doing, Now
    <3>2. ref'[At(q)] = ref[At(q)] /\ dinode'[At(q)].nlink = dinode[At(q)].nlink
      BY <3>1 DEF Leaves
    <3> QED BY <2>1, <3>2, <1>3 DEF Frees
  <2> QED BY <2>1
<1> QED BY <1>1, <1>4, <1>5, <1>6, <1>7, <1>8 DEF Follows, Agrees

\* A step that does not write keeps the disk in order.
LEMMA QuietDisk ==
  ASSUME DiskInv, UNCHANGED ondisk
  PROVE  DiskInv'
<1>1. dinode' = dinode /\ entries' = entries /\ bitmap' = bitmap
  BY DEF ondisk
<1>2. FreeInv' /\ BlockInv'
  BY <1>1 DEF DiskInv, FreeInv, BlockInv
<1>3. TreeInv'
  BY <1>1 DEF DiskInv, TreeInv, IsDir
<1>4. LinksInv'
  BY <1>1 DEF DiskInv, LinksInv, Links, IsDir
<1> QED BY <1>2, <1>3, <1>4 DEF DiskInv

\* a step that only has to do with the memory
LEMMA QuietLeaves ==
  ASSUME NEW q \in Proc, todo'[q] = todo[q], holds'[q] = holds[q], writer' = q <=> writer = q,
         \A i \in Inum : locked'[i] = q <=> locked[i] = q, UNCHANGED ondisk,
         Doing(q, "ifree") => ref'[At(q)] = ref[At(q)]
  PROVE  Leaves(q)
  BY DEF Leaves, ondisk

\* Nobody else holds or reaches an inode that is being freed.
LEMMA FreedIsLonely ==
  ASSUME Types, RefsExact, DiskInv, NEW q \in Proc, Follows(q), Doing(q, "ifree")
  PROVE  /\ At(q) \in Inum /\ Now(q).x \in Refs /\ ref[At(q)] = 1 /\ At(q) = holds[q][Now(q).x]
         /\ locked[At(q)] = q
         /\ \A p \in Proc, x \in Refs : holds[p][x] = At(q) => p = q /\ x = Now(q).x
         /\ \A d \in Inum, n \in Name : entries[d][n] # At(q)
         /\ At(q) # ROOTINO
<1>1. PICK a \in State : Agrees(q, a) /\ Frees(q, a)
  BY NowFrees
<1>2. Now(q).x \in {"ip", "dp", "file"} /\ Now(q).x \in a.locks /\ ref[At(q)] = 1 /\ dinode[At(q)].nlink = 0
  BY <1>1 DEF Frees, Dying
<1>3. Now(q).x \in a.held /\ locked[holds[q][Now(q).x]] = q /\ holds[q][Now(q).x] # None
  BY <1>1, <1>2 DEF Agrees, LocksAgree, HoldsAgree
<1>4. Now(q).x \in Refs
  BY <1>2 DEF Refs
<1>5. At(q) = holds[q][Now(q).x] /\ At(q) \in Inum
  BY <1>3, <1>4 DEF At, Types
<1>6. \A p \in Proc, x \in Refs : holds[p][x] = At(q) => p = q /\ x = Now(q).x
  BY <1>2, <1>4, <1>5, OneHolder
<1>7. Links(At(q)) <= 0 /\ Links(At(q)) \in Nat
  BY <1>2, <1>5, LinksNat DEF DiskInv, LinksInv
<1>8. \A d \in Inum, n \in Name : entries[d][n] # At(q)
  BY <1>5, <1>7, NamedHasLink
<1>9. At(q) # ROOTINO
  BY <1>7, RootHasLink
<1> QED BY <1>2, <1>3, <1>4, <1>5, <1>6, <1>8, <1>9

\* an inode that iget() may return
Reachable(p, i) ==
  /\ i \in Inum /\ dinode[i].type # "none"
  /\ \A q \in Proc \ {p} : Doing(q, "ifree") => At(q) # i

\* An inode that p holds may be held again.
LEMMA HeldIsReachable ==
  ASSUME IInv, NEW p \in Proc, NEW x \in Refs, holds[p][x] # None
  PROVE  Reachable(p, holds[p][x])
<1>1. holds[p][x] \in Inum
  BY DEF IInv, Types
<1>2. dinode[holds[p][x]].type # "none"
  BY DEF IInv, HeldInv
<1>3. ASSUME NEW q \in Proc \ {p}, Doing(q, "ifree") PROVE At(q) # holds[p][x]
  BY <1>3, FreedIsLonely DEF IInv
<1> QED BY <1>1, <1>2, <1>3 DEF Reachable

\* An inode with a link may be held.
LEMMA LinkedIsReachable ==
  ASSUME IInv, NEW p \in Proc, NEW i \in Inum, Links(i) >= 1, \A q \in Proc : Doing(q, "ifree") => At(q) # i
  PROVE  Reachable(p, i)
<1>1. dinode[i].nlink # 0
  BY LinksNat DEF IInv, DiskInv, LinksInv
<1>2. dinode[i].type # "none"
  BY <1>1 DEF IInv, DiskInv, FreeInv, Unused
<1> QED BY <1>2 DEF Reachable

\* The root may be held.
LEMMA RootIsReachable ==
  ASSUME IInv, NEW p \in Proc
  PROVE  Reachable(p, ROOTINO)
<1>1. ROOTINO \in Inum
  BY InodeAssumption
<1>2. \A q \in Proc : Doing(q, "ifree") => At(q) # ROOTINO
  BY FreedIsLonely DEF IInv
<1> QED BY <1>1, <1>2, RootHasLink, LinkedIsReachable

\* An inode with a name may be held.
LEMMA NamedIsReachable ==
  ASSUME IInv, NEW p \in Proc, NEW d \in Inum, NEW n \in Name, entries[d][n] # None
  PROVE  Reachable(p, entries[d][n])
<1>1. entries[d][n] \in Inum
  BY DEF IInv, Types
<1>2. \A q \in Proc : Doing(q, "ifree") => At(q) # entries[d][n]
  BY FreedIsLonely DEF IInv
<1> QED BY <1>1, <1>2, NamedHasLink, LinkedIsReachable

\* what a lookup in a directory that p holds finds
LEMMA LookupIsReachable ==
  ASSUME IInv, NEW p \in Proc, NEW x \in Refs, NEW d \in Inum, d = holds[p][x], NEW n \in Elem,
         DirLookup(d, n) # None,
         n = ".." => /\ dinode[entries[d][n]].type # "none"
                     /\ \A q \in Proc : Doing(q, "ifree") => At(q) # entries[d][n]
  PROVE  Reachable(p, DirLookup(d, n))
<1>0. d # None
  BY InodeAssumption
<1>1. CASE n = "."
  BY <1>0, <1>1, HeldIsReachable DEF DirLookup
<1>2. CASE n = ".."
  <2>1. entries[d][n] \in Inum
    BY <1>2 DEF IInv, Types, DirLookup
  <2> QED BY <1>2, <2>1 DEF DirLookup, Reachable
<1>3. CASE n \in Name
  <2>1. DirLookup(d, n) = entries[d][n]
    BY <1>3, InodeAssumption DEF DirLookup
  <2> QED BY <2>1, <1>3, NamedIsReachable
<1> QED BY <1>1, <1>2, <1>3 DEF Elem
-----------------------------------------------------------------------------
(* Steps of the log, and of the locks *)

\* What every step has to show: its own process, and that it leaves the others alone.
LEMMA Keeps ==
  ASSUME IInv, NEW p \in Proc, Types', RefsExact', CacheInv', HeldInv', DiskInv', Follows(p)',
         \A q \in Proc \ {p} : Leaves(q)
  PROVE  IInv'
<1>1. ASSUME NEW q \in Proc PROVE Follows(q)'
  BY LeavesFollows DEF IInv
<1> QED BY <1>1 DEF IInv

\* The steps that are left stay steps.
LEMMA TodoTyped ==
  ASSUME Types, NEW p \in Proc, NEW new, Then(p, new) \/ Instead(p, new), todo'[p] \in Seq(Steps \cup Dying)
  PROVE  todo' \in [Proc -> Seq(Steps \cup Dying)]
  BY DEF Types, Then, Instead

\* a reference that is held
LEMMA HeldSlot ==
  ASSUME Types, NEW p \in Proc, NEW a \in State, HoldsAgree(p, a), NEW x \in a.held
  PROVE  x \in Refs /\ x \in Slots /\ holds[p][x] \in Inum /\ holds[p][x] # None
<1>1. x \in Slots /\ x \in Refs
  BY StateIsSt, SlotsAreRefs
<1>2. holds[p][x] # None
  BY <1>1 DEF HoldsAgree, Slots
<1>3. holds[p][x] \in Inum \cup {None}
  BY <1>1 DEF Types
<1> QED BY <1>1, <1>2, <1>3

\* no slot is held while its inode is locked by another process
LEMMA LockedSlot ==
  ASSUME Types, NEW p \in Proc, NEW a \in State, Agrees(p, a), NEW i \in Inum, locked[i] = p
  PROVE  \E x \in Refs \ {"cwd"} : x \in a.locks /\ x \in a.held /\ holds[p][x] = i
<1>1. PICK x \in a.locks : holds[p][x] = i
  BY DEF Agrees, LocksAgree
<1>2. x \in a.held /\ x \in Slots
  BY <1>1, StateIsSt DEF Agrees, LocksAgree
<1> QED BY <1>1, <1>2, SlotsAreRefs

\* What p relies on stays true when the disk and the references it is about stay.
LEMMA SameFacts ==
  ASSUME NEW p \in Proc, NEW a \in State, NEW b \in State, FactsAgree(p, a), UNCHANGED ondisk,
         b.facts \ {"trans"} \subseteq a.facts, "trans" \in b.facts <=> writer' = p,
         "surplus" \in b.facts => "trans" \in b.facts,
         "dir" \in b.facts => "dp" \in b.held /\ holds'[p]["dp"] = holds[p]["dp"],
         "file" \in b.facts => "ip" \in b.held /\ holds'[p]["ip"] = holds[p]["ip"],
         "surplus" \in b.facts => "ip" \in b.held /\ holds'[p]["ip"] = holds[p]["ip"],
         b.name # "." => b.name = a.name /\ "ip" \in b.held /\ "dp" \in b.locks /\ holds'[p] = holds[p]
  PROVE  FactsAgree(p, b)'
<1>1. dinode' = dinode /\ entries' = entries
  BY DEF ondisk
<1>2. \A i : Links(i)' = Links(i)
  BY <1>1 DEF Links, IsDir
<1>3. "dir" \in b.facts => "dp" \in b.held /\ dinode'[holds'[p]["dp"]].type = "dir"
  BY <1>1 DEF FactsAgree
<1>4. "file" \in b.facts => "ip" \in b.held /\ dinode'[holds'[p]["ip"]].type # "dir"
  BY <1>1 DEF FactsAgree
<1>5. "surplus" \in b.facts =>
        /\ "trans" \in b.facts /\ "ip" \in b.held
        /\ (Links(holds[p]["ip"]) + 1 <= dinode[holds[p]["ip"]].nlink)'
  BY <1>1, <1>2 DEF FactsAgree
<1>6. b.name # "." =>
        /\ "ip" \in b.held /\ "dp" \in b.locks
        /\ entries'[holds'[p]["dp"]][b.name] = holds'[p]["ip"]
  BY <1>1 DEF FactsAgree
<1> QED BY <1>3, <1>4, <1>5, <1>6 DEF FactsAgree

\* the shape of a step that only changes what todo says
LEMMA OnlyTodo ==
  ASSUME IInv, NEW p \in Proc, UNCHANGED <<ondisk, icache, holds>>,
         todo' \in [Proc -> Seq(Steps \cup Dying)], \A q \in Proc \ {p} : todo'[q] = todo[q],
         writer' \in Proc \cup {NoProc}, \A q \in Proc \ {p} : writer' = q <=> writer = q,
         Follows(p)'
  PROVE  IInv'
<1>1. Types'
  BY DEF IInv, Types, ondisk, icache
<1>2. RefsExact' /\ CacheInv' /\ HeldInv'
  BY DEF IInv, RefsExact, CacheInv, HeldInv, ondisk, icache
<1>3. DiskInv'
  BY QuietDisk DEF IInv
<1>4. \A q \in Proc \ {p} : Leaves(q)
  BY QuietLeaves DEF icache
<1> QED BY <1>1, <1>2, <1>3, <1>4, Keeps

\* begin_trans() keeps the invariant.
LEMMA BeginTransKeeps ==
  ASSUME IInv, NEW p \in Proc, BeginTrans(p)
  PROVE  IInv'
<1>1. PICK a \in State, b \in State :
        /\ Agrees(p, a) /\ Now(p) \in Steps /\ Does(Now(p), a, b) /\ Chain(Tail(todo[p]), b, Idle)
  BY NowDoes DEF IInv, BeginTrans, Doing, Now
<1>2. a.locks = {} /\ "trans" \notin a.facts /\ b = St(a.held, {}, a.facts \cup {"trans"}, a.name)
  <2>1. Now(p).f = "begin_trans"
    BY DEF BeginTrans, Doing, Now
  <2> QED BY <1>1, <2>1, DoesBegin
<1>3. b.held = a.held /\ b.locks = {} /\ b.facts = a.facts \cup {"trans"} /\ b.name = a.name
  BY <1>2 DEF St
<1>4. Chain(todo'[p], b, Idle) /\ \A q \in Proc \ {p} : todo'[q] = todo[q]
  BY <1>1, TailChain DEF BeginTrans, IInv, Types
<1>5. writer = NoProc /\ writer' = p /\ UNCHANGED <<ondisk, icache, holds>>
  BY DEF BeginTrans
<1>6. HoldsAgree(p, b)'
  BY <1>1, <1>3, <1>5 DEF Agrees, HoldsAgree
<1>7. LocksAgree(p, b)'
  BY <1>1, <1>2, <1>3, <1>5 DEF Agrees, LocksAgree, icache
<1>8. FactsAgree(p, b)'
  <2>1. a.name = "."
    BY <1>1, <1>2 DEF Agrees, FactsAgree
  <2>2. FactsAgree(p, a) /\ UNCHANGED ondisk
    BY <1>1, <1>5 DEF Agrees
  <2>3. /\ "dir" \in a.facts => "dp" \in a.held
        /\ "file" \in a.facts => "ip" \in a.held
        /\ "surplus" \in a.facts => "ip" \in a.held
    BY <2>2 DEF FactsAgree
  <2> QED BY <1>3, <1>5, <2>1, <2>2, <2>3, SameFacts
<1>9. Follows(p)' /\ todo' \in [Proc -> Seq(Steps \cup Dying)]
  BY <1>4, <1>6, <1>7, <1>8, ChainFollows, TodoTyped DEF Agrees, BeginTrans, IInv
<1>10. \A q \in Proc \ {p} : writer' = q <=> writer = q
  BY <1>5, InodeAssumption
<1> QED BY <1>4, <1>5, <1>9, <1>10, OnlyTodo

\* commit_trans() keeps the invariant.
LEMMA CommitTransKeeps ==
  ASSUME IInv, NEW p \in Proc, CommitTrans(p)
  PROVE  IInv'
<1>1. PICK a \in State, b \in State :
        /\ Agrees(p, a) /\ Now(p) \in Steps /\ Does(Now(p), a, b) /\ Chain(Tail(todo[p]), b, Idle)
  BY NowDoes DEF IInv, CommitTrans, Doing, Now
<1>2. /\ "trans" \in a.facts /\ "surplus" \notin a.facts /\ "file" \notin a.locks
      /\ b = St(a.held \ {"file"}, a.locks, a.facts \ {"trans"}, a.name)
  <2>1. Now(p).f = "commit_trans"
    BY DEF CommitTrans, Doing, Now
  <2> QED BY <1>1, <2>1, DoesCommit
<1>3. b.held = a.held \ {"file"} /\ b.locks = a.locks /\ b.facts = a.facts \ {"trans"} /\ b.name = a.name
  BY <1>2 DEF St
<1>4. Chain(todo'[p], b, Idle) /\ \A q \in Proc \ {p} : todo'[q] = todo[q]
  BY <1>1, TailChain DEF CommitTrans, IInv, Types
<1>5. writer = p /\ writer' = NoProc /\ UNCHANGED <<ondisk, icache, holds>>
  BY <1>1, <1>2 DEF CommitTrans, Agrees, FactsAgree
<1>6. HoldsAgree(p, b)'
  BY <1>1, <1>3, <1>5 DEF Agrees, HoldsAgree
<1>7. LocksAgree(p, b)'
  BY <1>1, <1>2, <1>3, <1>5 DEF Agrees, LocksAgree, icache
<1>8. FactsAgree(p, b)'
  <2>2. FactsAgree(p, a) /\ UNCHANGED ondisk
    BY <1>1, <1>5 DEF Agrees
  <2>3. /\ "dir" \in a.facts => "dp" \in a.held
        /\ "file" \in a.facts => "ip" \in a.held
        /\ a.name # "." => "ip" \in a.held /\ "dp" \in a.locks
    BY <2>2 DEF FactsAgree
  <2>4. writer' # p
    BY <1>5, InodeAssumption
  <2> QED BY <1>2, <1>3, <1>5, <2>2, <2>3, <2>4, SameFacts
<1>9. Follows(p)' /\ todo' \in [Proc -> Seq(Steps \cup Dying)]
  BY <1>4, <1>6, <1>7, <1>8, ChainFollows, TodoTyped DEF Agrees, CommitTrans, IInv
<1>10. \A q \in Proc \ {p} : writer' = q <=> writer = q
  BY <1>5, InodeAssumption
<1> QED BY <1>4, <1>5, <1>9, <1>10, OnlyTodo

\* a call begins
LEMMA CallKeeps ==
  ASSUME IInv, NEW p \in Proc, Call(p)
  PROVE  IInv'
<1>1. PICK call \in Calls[p] : Possible(p, call) /\ todo' = [todo EXCEPT ![p] = call]
  BY DEF Call
<1>2. call \in SystemCall
  BY <1>1, CallsAssumption
<1>3. todo[p] = <<>> /\ UNCHANGED <<ondisk, icache, writer, holds>>
  BY DEF Call
<1>4. PICK a \in State : Agrees(p, a) /\ (Chain(todo[p], a, Idle) \/ Frees(p, a))
  BY DEF IInv, Follows
<1>5. a = Idle
  BY <1>3, <1>4, ChainEmpty DEF Frees
<1>6. todo'[p] = call /\ \A q \in Proc \ {p} : todo'[q] = todo[q]
  BY <1>1 DEF IInv, Types
<1>7. \E b \in State : Agrees(p, b)' /\ Chain(call, b, Idle)
  <2>1. CASE call \in {Write, Close}
    <3>. DEFINE b == St({"file"}, {}, {}, ".")
    <3>1. b \in State /\ b.held = {"file"} /\ b.locks = {} /\ b.facts = {} /\ b.name = "."
      BY KnownStates DEF St
    <3>2. Idle.held = {} /\ Idle.locks = {} /\ Idle.facts = {} /\ Idle.name = "."
      BY DEF Idle, St
    <3>. HIDE DEF b
    <3>3. holds[p]["file"] # None
      BY <1>1, <2>1 DEF Possible
    <3>4. HoldsAgree(p, b)'
      BY <1>3, <1>4, <1>5, <3>1, <3>2, <3>3 DEF Agrees, HoldsAgree
    <3>5. LocksAgree(p, b)'
      BY <1>3, <1>4, <1>5, <3>1, <3>2 DEF Agrees, LocksAgree, icache
    <3>6. FactsAgree(p, b)'
      BY <1>3, <1>4, <1>5, <3>1, <3>2 DEF Agrees, FactsAgree
    <3>7. Chain(call, b, Idle)
      BY <1>2, <2>1, CallChain DEF b
    <3> QED BY <3>1, <3>4, <3>5, <3>6, <3>7 DEF Agrees
  <2>2. CASE call \notin {Write, Close}
    <3>1. HoldsAgree(p, a)' /\ LocksAgree(p, a)' /\ FactsAgree(p, a)'
      <4>1. Idle.held = {} /\ Idle.locks = {} /\ Idle.facts = {} /\ Idle.name = "."
        BY DEF Idle, St
      <4> QED BY <1>3, <1>4, <1>5, <4>1 DEF Agrees, HoldsAgree, LocksAgree, FactsAgree, icache
    <3> QED BY <1>2, <1>5, <2>2, <3>1, CallChain DEF Agrees
  <2> QED BY <2>1, <2>2
<1>8. PICK b \in State : Agrees(p, b)' /\ Chain(call, b, Idle)
  BY <1>7
<1>9. Follows(p)' /\ todo'[p] \in Seq(Steps \cup Dying)
  BY <1>6, <1>8, ChainFollows
<1>10. todo' \in [Proc -> Seq(Steps \cup Dying)]
  BY <1>1, <1>9 DEF IInv, Types
<1> QED BY <1>3, <1>6, <1>9, <1>10, OnlyTodo DEF IInv, Types

\* Doing f is having f as the next step.
LEMMA DoingNow ==
  ASSUME NEW p, NEW f, Doing(p, f)
  PROVE  todo[p] # <<>> /\ Now(p).f = f
  BY DEF Doing, Now

\* a process that locks, or gives back, what it holds
LEMMA LockInodeKeeps ==
  ASSUME IInv, NEW p \in Proc, LockInode(p)
  PROVE  IInv'
<1>0. Now(p).f = "ilock" /\ todo[p] # <<>>
  BY DoingNow DEF LockInode
<1>1. PICK a \in State, b \in State :
        /\ Agrees(p, a) /\ Now(p) \in Steps /\ Does(Now(p), a, b) /\ Chain(Tail(todo[p]), b, Idle)
  BY <1>0, NowDoes DEF IInv
<1>. DEFINE x == Now(p).x
            i == At(p)
<1>2. x \in a.held /\ x \notin a.locks /\ b = St(a.held, a.locks \cup {x}, a.facts, a.name)
  BY <1>0, <1>1, DoesILock
<1>3. b.held = a.held /\ b.locks = a.locks \cup {x} /\ b.facts = a.facts /\ b.name = a.name
  BY <1>2 DEF St
<1>4. Chain(todo'[p], b, Idle) /\ \A q \in Proc \ {p} : todo'[q] = todo[q]
  BY <1>1, TailChain DEF LockInode, IInv, Types
<1>5. x \in Refs /\ x # "next" /\ x # "cwd" /\ i = holds[p][x] /\ i \in Inum
  BY <1>0, <1>1, <1>2, HeldSlot, StepHas DEF IInv, Agrees, At
<1>6. /\ locked[i] = NoProc /\ locked' = [locked EXCEPT ![i] = p]
      /\ valid' = valid \cup {i} /\ inode' = [inode EXCEPT ![i] = Loaded(i)]
      /\ UNCHANGED <<ondisk, ref, writer, holds>>
  BY DEF LockInode, ILock, Load
<1>. HIDE DEF x, i
<1>7. Loaded(i) = dinode[i]
  BY DEF IInv, CacheInv, Loaded
<1>8. HoldsAgree(p, b)'
  BY <1>1, <1>3, <1>6 DEF Agrees, HoldsAgree
<1>9. LocksAgree(p, b)'
  <2>1. b.locks \subseteq b.held \ {"next"}
    BY <1>1, <1>2, <1>3, <1>5 DEF Agrees, LocksAgree
  <2>2. \A y \in a.locks : holds[p][y] \in Inum /\ locked[holds[p][y]] = p /\ holds[p][y] # i
    BY <1>1, <1>6, HeldSlot, InodeAssumption DEF IInv, Agrees, LocksAgree
  <2>3. \A j \in Inum : locked'[j] = IF j = i THEN p ELSE locked[j]
    BY <1>5, <1>6 DEF IInv, Types
  <2>4. \A y \in b.locks : locked'[holds[p][y]] = p
    BY <2>2, <2>3, <1>3, <1>5
  <2>5. \A j \in Inum : locked'[j] = p => \E y \in b.locks : holds[p][y] = j
    BY <2>3, <1>1, <1>3, <1>5 DEF Agrees, LocksAgree
  <2>6. \A y \in b.locks, z \in b.locks : holds[p][y] = holds[p][z] => y = z
    BY <2>2, <1>1, <1>3, <1>5 DEF Agrees, LocksAgree
  <2> QED BY <2>1, <2>4, <2>5, <2>6, <1>6 DEF LocksAgree
<1>10. FactsAgree(p, b)'
  <2>1. FactsAgree(p, a)
    BY <1>1 DEF Agrees
  <2>2. /\ "dir" \in a.facts => "dp" \in a.held
        /\ "file" \in a.facts => "ip" \in a.held
        /\ "surplus" \in a.facts => "ip" \in a.held /\ "trans" \in a.facts
        /\ a.name # "." => "ip" \in a.held /\ "dp" \in a.locks
        /\ "trans" \in a.facts <=> writer = p
    BY <2>1 DEF FactsAgree
  <2> QED BY <2>1, <2>2, <1>3, <1>6, SameFacts
<1>11. Follows(p)' /\ todo' \in [Proc -> Seq(Steps \cup Dying)]
  BY <1>4, <1>8, <1>9, <1>10, ChainFollows, TodoTyped DEF Agrees, LockInode, IInv
<1>12. ASSUME NEW q \in Proc \ {p} PROVE Leaves(q)
  <2>1. \A j \in Inum : locked'[j] = q <=> locked[j] = q
    BY <1>5, <1>6, InodeAssumption DEF IInv, Types
  <2> QED BY <2>1, <1>4, <1>6, QuietLeaves
<1>13. Types'
  BY <1>5, <1>6, <1>7, <1>11 DEF IInv, Types, ondisk
<1>14. CacheInv'
  <2>1. dinode' = dinode
    BY <1>6 DEF ondisk
  <2>2. \A j \in valid' : inode'[j] = dinode[j]
    BY <1>5, <1>6, <1>7 DEF IInv, CacheInv, Types
  <2>3. \A j \in Inum : locked'[j] # NoProc => j \in valid'
    BY <1>5, <1>6 DEF IInv, CacheInv, Types
  <2> QED BY <2>1, <2>2, <2>3 DEF CacheInv
<1>15. RefsExact' /\ HeldInv'
  BY <1>6 DEF IInv, RefsExact, HeldInv, ondisk
<1> QED BY <1>6, <1>11, <1>12, <1>13, <1>14, <1>15, QuietDisk, Keeps DEF IInv

\* iunlock() keeps the invariant.
LEMMA UnlockInodeKeeps ==
  ASSUME IInv, NEW p \in Proc, UnlockInode(p)
  PROVE  IInv'
<1>0. Now(p).f = "iunlock" /\ todo[p] # <<>>
  BY DoingNow DEF UnlockInode
<1>1. PICK a \in State, b \in State :
        /\ Agrees(p, a) /\ Now(p) \in Steps /\ Does(Now(p), a, b) /\ Chain(Tail(todo[p]), b, Idle)
  BY <1>0, NowDoes DEF IInv
<1>. DEFINE x == Now(p).x
            i == At(p)
<1>2. x \in a.locks /\ a.name = "." /\ b = St(a.held, a.locks \ {x}, a.facts, a.name)
  BY <1>0, <1>1, DoesIUnlock
<1>3. b.held = a.held /\ b.locks = a.locks \ {x} /\ b.facts = a.facts /\ b.name = "."
  BY <1>2 DEF St
<1>4. Chain(todo'[p], b, Idle) /\ \A q \in Proc \ {p} : todo'[q] = todo[q]
  BY <1>1, TailChain DEF UnlockInode, IInv, Types
<1>5. x \in a.held /\ i = holds[p][x] /\ i \in Inum /\ locked[i] = p
  <2>1. x \in a.held /\ locked[holds[p][x]] = p
    BY <1>1, <1>2 DEF Agrees, LocksAgree
  <2> QED BY <1>1, <2>1, HeldSlot DEF IInv, Agrees, At
<1>6. locked' = [locked EXCEPT ![i] = NoProc] /\ UNCHANGED <<ondisk, ref, valid, inode, writer, holds>>
  BY DEF UnlockInode, IUnlock
<1>. HIDE DEF x, i
<1>7. \A j \in Inum : locked'[j] = IF j = i THEN NoProc ELSE locked[j]
  BY <1>5, <1>6 DEF IInv, Types
<1>8. HoldsAgree(p, b)'
  BY <1>1, <1>3, <1>6 DEF Agrees, HoldsAgree
<1>9. LocksAgree(p, b)'
  <2>1. b.locks \subseteq b.held \ {"next"}
    BY <1>1, <1>3 DEF Agrees, LocksAgree
  <2>2. \A y \in a.locks : holds[p][y] \in Inum /\ locked[holds[p][y]] = p /\ (y # x => holds[p][y] # i)
    BY <1>1, <1>2, <1>5, HeldSlot DEF IInv, Agrees, LocksAgree
  <2>4. \A y \in b.locks : locked'[holds[p][y]] = p
    BY <2>2, <1>3, <1>7
  <2>5. \A j \in Inum : locked'[j] = p => \E y \in b.locks : holds[p][y] = j
    BY <1>1, <1>3, <1>5, <1>7, InodeAssumption DEF Agrees, LocksAgree
  <2>6. \A y \in b.locks, z \in b.locks : holds[p][y] = holds[p][z] => y = z
    BY <1>1, <1>3 DEF Agrees, LocksAgree
  <2> QED BY <2>1, <2>4, <2>5, <2>6, <1>6 DEF LocksAgree
<1>10. FactsAgree(p, b)'
  <2>1. FactsAgree(p, a)
    BY <1>1 DEF Agrees
  <2>2. /\ "dir" \in a.facts => "dp" \in a.held
        /\ "file" \in a.facts => "ip" \in a.held
        /\ "surplus" \in a.facts => "ip" \in a.held /\ "trans" \in a.facts
        /\ "trans" \in a.facts <=> writer = p
    BY <2>1 DEF FactsAgree
  <2> QED BY <2>1, <2>2, <1>3, <1>6, SameFacts
<1>11. Follows(p)' /\ todo' \in [Proc -> Seq(Steps \cup Dying)]
  BY <1>4, <1>8, <1>9, <1>10, ChainFollows, TodoTyped DEF Agrees, UnlockInode, IInv
<1>12. ASSUME NEW q \in Proc \ {p} PROVE Leaves(q)
  <2>1. \A j \in Inum : locked'[j] = q <=> locked[j] = q
    BY <1>5, <1>7, InodeAssumption
  <2> QED BY <2>1, <1>4, <1>6, QuietLeaves
<1>13. Types'
  BY <1>5, <1>6, <1>11 DEF IInv, Types, ondisk
<1>14. CacheInv'
  BY <1>6, <1>7 DEF IInv, CacheInv, ondisk
<1>15. RefsExact' /\ HeldInv'
  BY <1>6 DEF IInv, RefsExact, HeldInv, ondisk
<1> QED BY <1>6, <1>11, <1>12, <1>13, <1>14, <1>15, QuietDisk, Keeps DEF IInv
-----------------------------------------------------------------------------
(* iput() *)

\* What Drop does to the references of p.
LEMMA DropDoes ==
  ASSUME Types, NEW p \in Proc, NEW x \in {"ip", "dp", "file"}, Drop(p, x)
  PROVE  /\ holds' \in Holding /\ holds \in Holding
         /\ holds'[p][x] = holds[p]["next"] /\ holds'[p]["next"] = None
         /\ \A y \in Refs \ {x, "next"} : holds'[p][y] = holds[p][y]
         /\ \A q \in Proc \ {p} : holds'[q] = holds[q]
<1>1. "next" \in Refs /\ x # "next" /\ x \in Refs
  BY DEF Refs
<1>2. holds \in Holding
  BY DEF Types, Holding
<1>3. holds[p]["next"] \in Inum \cup {None}
  BY <1>1, <1>2 DEF Holding
<1>4. holds' = TwoSlots(holds, p, x, "next", holds[p]["next"], None)
  BY DEF Drop, TwoSlots
<1>. DEFINE n == holds[p]["next"]
            h == TwoSlots(holds, p, x, "next", n, None)
<1>5. /\ h \in Holding /\ h[p][x] = n /\ h[p]["next"] = None
      /\ \A z \in Refs \ {x, "next"} : h[p][z] = holds[p][z]
      /\ \A q \in Proc \ {p} : h[q] = holds[q]
  <2>1. n \in Inum \cup {None} /\ None \in Inum \cup {None}
    BY <1>3
  <2>. HIDE DEF n
  <2> QED BY <2>1, <1>1, <1>2, TwoSlotsHold
<1>6. holds' = h
  BY <1>4
<1>. HIDE DEF h
<1> QED BY <1>2, <1>5, <1>6

\* The components of Dropped.
LEMMA DroppedIs ==
  ASSUME NEW x, NEW a
  PROVE  /\ Dropped(x, a).held = IF "next" \in a.held THEN a.held \ {"next"} ELSE a.held \ {x}
         /\ Dropped(x, a).locks = a.locks \ {x} /\ Dropped(x, a).name = "."
         /\ Dropped(x, a).facts
              = a.facts \ (IF x = "dp" THEN {"dir"} ELSE IF x = "ip" THEN {"file"} ELSE {})
  BY DEF Dropped, St

\* After Drop, p holds what Dropped says.
LEMMA DropHolds ==
  ASSUME Types, NEW p \in Proc, NEW x \in {"ip", "dp", "file"}, Drop(p, x),
         NEW a \in State, HoldsAgree(p, a), CanDrop(x, a)
  PROVE  HoldsAgree(p, Dropped(x, a))'
<1>1. x \in a.held
  BY DEF CanDrop
<1>2. /\ holds'[p][x] = holds[p]["next"] /\ holds'[p]["next"] = None
      /\ \A y \in Refs \ {x, "next"} : holds'[p][y] = holds[p][y]
  BY DropDoes
<1>3. {"cwd", "ip", "dp", "file", "next"} \subseteq Refs
  BY DEF Refs
<1>4. Dropped(x, a).held = IF "next" \in a.held THEN a.held \ {"next"} ELSE a.held \ {x}
  BY DroppedIs
<1>5. holds'[p]["cwd"] # None
  BY <1>2, <1>3 DEF HoldsAgree
<1>6. \A y \in {"ip", "dp", "next"} : y \in Dropped(x, a).held <=> holds'[p][y] # None
  BY <1>1, <1>2, <1>3, <1>4 DEF HoldsAgree
<1>7. "file" \in Dropped(x, a).held => holds'[p]["file"] # None
  BY <1>1, <1>2, <1>3, <1>4 DEF HoldsAgree
<1> QED BY <1>5, <1>6, <1>7 DEF HoldsAgree

\* An inode with one reference, in a slot that is not locked, is not locked.
LEMMA LastIsUnlocked ==
  ASSUME IInv, NEW p \in Proc, NEW a \in State, Agrees(p, a), NEW x \in Refs \ a.locks,
         holds[p][x] \in Inum, ref[holds[p][x]] = 1
  PROVE  locked[holds[p][x]] = NoProc
<1>1. SUFFICES ASSUME locked[holds[p][x]] # NoProc PROVE FALSE
  OBVIOUS
<1>2. PICK q \in Proc : locked[holds[p][x]] = q
  BY <1>1 DEF IInv, Types
<1>3. CASE q = p
  <2>1. PICK y \in Refs : y \in a.locks /\ holds[p][y] = holds[p][x]
    BY <1>2, <1>3, LockedSlot DEF IInv
  <2>2. y = x
    BY <2>1, OneHolder DEF IInv
  <2> QED BY <2>1, <2>2
<1>4. CASE q # p
  <2>1. PICK c \in State : Agrees(q, c)
    BY DEF IInv, Follows
  <2>2. PICK y \in Refs : holds[q][y] = holds[p][x]
    BY <1>2, <2>1, LockedSlot DEF IInv
  <2> QED BY <1>4, <2>2, OneHolder DEF IInv
<1> QED BY <1>3, <1>4

\* the first test of iput()
LEMMA PutDyingKeeps ==
  ASSUME IInv, NEW p \in Proc, PutInode(p), Dies(At(p))
  PROVE  IInv'
<1>0. Now(p).f = "iput" /\ todo[p] # <<>>
  BY DoingNow DEF PutInode
<1>1. PICK a \in State, b \in State :
        /\ Agrees(p, a) /\ Now(p) \in Steps /\ Does(Now(p), a, b) /\ Chain(Tail(todo[p]), b, Idle)
  BY <1>0, NowDoes DEF IInv
<1>. DEFINE i == At(p)
<1>x. PICK x : x = Now(p).x
  OBVIOUS
<1>2. x \notin a.locks /\ CanDrop(x, a) /\ b = Dropped(x, a)
  BY <1>0, <1>1, <1>x, DoesIPut
<1>3. x \in {"ip", "dp", "file"} /\ x \in a.held /\ x \in Refs /\ i = holds[p][x] /\ i \in Inum
  <2>1. x \in a.held
    BY <1>2 DEF CanDrop
  <2>2. x \in Slots
    BY <2>1, StateIsSt
  <2> QED BY <1>0, <1>1, <1>x, <2>1, <2>2, HeldSlot, StepHas DEF IInv, Agrees, At, Slots
<1>4. /\ locked' = [locked EXCEPT ![i] = p] /\ Then(p, <<Op("ifree", x)>>)
      /\ UNCHANGED <<ref, valid, inode, holds, ondisk, writer>>
  BY <1>x DEF PutInode
<1>5. ref[i] = 1 /\ i \in valid /\ inode[i].nlink = 0 /\ dinode[i].nlink = 0
  BY DEF Dies, IInv, CacheInv
<1>. HIDE DEF i
<1>6. PICK c \in State : c.held = a.held /\ c.locks = a.locks \cup {x} /\ c.facts = a.facts /\ c.name = a.name
  <2>1. a.locks \cup {x} \subseteq Slots
    BY <1>3, StateIsSt DEF Slots
  <2>. DEFINE c == St(a.held, a.locks \cup {x}, a.facts, a.name)
  <2>2. c \in State /\ c.held = a.held /\ c.locks = a.locks \cup {x} /\ c.facts = a.facts /\ c.name = a.name
    BY <2>1, StateIsSt, StInState
  <2>. HIDE DEF c
  <2> QED BY <2>2
<1>7. locked[i] = NoProc
  BY <1>1, <1>2, <1>3, <1>5, LastIsUnlocked
<1>8. \A j \in Inum : locked'[j] = IF j = i THEN p ELSE locked[j]
  BY <1>3, <1>4 DEF IInv, Types
<1>9. HoldsAgree(p, c)'
  BY <1>1, <1>4, <1>6 DEF Agrees, HoldsAgree
<1>10. LocksAgree(p, c)'
  <2>1. c.locks \subseteq c.held \ {"next"}
    BY <1>1, <1>3, <1>6 DEF Agrees, LocksAgree
  <2>2. \A y \in a.locks : holds[p][y] \in Inum /\ locked[holds[p][y]] = p /\ holds[p][y] # i
    BY <1>1, <1>7, HeldSlot, InodeAssumption DEF IInv, Agrees, LocksAgree
  <2>4. \A y \in c.locks : locked'[holds[p][y]] = p
    BY <2>2, <1>8, <1>3, <1>6
  <2>5. \A j \in Inum : locked'[j] = p => \E y \in c.locks : holds[p][y] = j
    BY <1>8, <1>1, <1>3, <1>6 DEF Agrees, LocksAgree
  <2>6. \A y \in c.locks, z \in c.locks : holds[p][y] = holds[p][z] => y = z
    BY <2>2, <1>1, <1>3, <1>6 DEF Agrees, LocksAgree
  <2> QED BY <2>1, <2>4, <2>5, <2>6, <1>4 DEF LocksAgree
<1>11. FactsAgree(p, c)'
  <2>1. FactsAgree(p, a) /\ a.name = "."
    BY <1>1, <1>2 DEF Agrees, CanDrop
  <2>2. /\ "dir" \in a.facts => "dp" \in a.held
        /\ "file" \in a.facts => "ip" \in a.held
        /\ "surplus" \in a.facts => "ip" \in a.held /\ "trans" \in a.facts
        /\ "trans" \in a.facts <=> writer = p
    BY <2>1 DEF FactsAgree
  <2> QED BY <2>1, <2>2, <1>4, <1>6, SameFacts
<1>12. todo'[p] = <<Op("ifree", x)>> \o Tail(todo[p]) /\ Tail(todo[p]) \in Seq(Steps \cup Dying)
  BY <1>0, <1>4 DEF Then, IInv, Types
<1>13. Op("ifree", x) \in Dying
  BY <1>3 DEF Op, Dying
<1>14. /\ Head(todo'[p]) = Op("ifree", x) /\ Tail(todo'[p]) = Tail(todo[p]) /\ todo'[p] # <<>>
       /\ todo'[p] \in Seq(Steps \cup Dying)
  BY <1>12, <1>13
<1>15. Frees(p, c)'
  <2>1. Now(p)' = Op("ifree", x) /\ Now(p)'.x = x /\ At(p)' = i
    BY <1>3, <1>4, <1>14 DEF Now, At, Op
  <2>2. CanDrop(x, c)
    BY <1>2, <1>6 DEF CanDrop
  <2>3. Dropped(x, c) = b
    <3>1. (a.locks \cup {x}) \ {x} = a.locks \ {x}
      OBVIOUS
    <3> QED BY <3>1, <1>2, <1>6 DEF Dropped
  <2>4. x \in c.locks
    BY <1>6
  <2>5. dinode' = dinode /\ ref' = ref
    BY <1>4 DEF ondisk
  <2> QED BY <2>1, <2>2, <2>3, <2>4, <2>5, <1>1, <1>5, <1>13, <1>14 DEF Frees
<1>16. Follows(p)'
  BY <1>6, <1>9, <1>10, <1>11, <1>15 DEF Follows, Agrees
<1>17. todo' \in [Proc -> Seq(Steps \cup Dying)] /\ \A q \in Proc \ {p} : todo'[q] = todo[q]
  BY <1>4, <1>14, TodoTyped DEF IInv, Then, Types
<1>18. ASSUME NEW q \in Proc \ {p} PROVE Leaves(q)
  <2>1. \A j \in Inum : locked'[j] = q <=> locked[j] = q
    BY <1>7, <1>8, InodeAssumption
  <2> QED BY <2>1, <1>17, <1>4, QuietLeaves
<1>19. Types'
  BY <1>3, <1>4, <1>17 DEF IInv, Types, ondisk
<1>20. CacheInv'
  BY <1>4, <1>5, <1>8 DEF IInv, CacheInv, ondisk
<1>21. RefsExact' /\ HeldInv'
  BY <1>4 DEF IInv, RefsExact, HeldInv, ondisk
<1> QED BY <1>4, <1>16, <1>18, <1>19, <1>20, <1>21, QuietDisk, Keeps DEF IInv

\* its end
LEMMA PutKeeps ==
  ASSUME IInv, NEW p \in Proc, PutInode(p), ~Dies(At(p))
  PROVE  IInv'
<1>0. Now(p).f = "iput" /\ todo[p] # <<>>
  BY DoingNow DEF PutInode
<1>1. PICK a \in State, b \in State :
        /\ Agrees(p, a) /\ Now(p) \in Steps /\ Does(Now(p), a, b) /\ Chain(Tail(todo[p]), b, Idle)
  BY <1>0, NowDoes DEF IInv
<1>. DEFINE x == Now(p).x
            i == At(p)
<1>2. x \notin a.locks /\ CanDrop(x, a) /\ b = Dropped(x, a)
  BY <1>0, <1>1, DoesIPut
<1>3. x \in {"ip", "dp", "file"} /\ x \in a.held /\ x \in Refs /\ i = holds[p][x] /\ i \in Inum
  <2>1. x \in a.held
    BY <1>2 DEF CanDrop
  <2>2. x \in Slots
    BY <2>1, StateIsSt
  <2> QED BY <1>0, <1>1, <2>1, <2>2, HeldSlot, StepHas DEF IInv, Agrees, At, Slots
<1>4. IPut(i) /\ Drop(p, x) /\ Then(p, <<>>) /\ UNCHANGED <<locked, ondisk, writer>>
  BY DEF PutInode
<1>5. Chain(todo'[p], b, Idle) /\ \A q \in Proc \ {p} : todo'[q] = todo[q]
  BY <1>1, <1>4, TailChain DEF IInv, Types
<1>. HIDE DEF i, x
<1>6. /\ holds' \in Holding /\ holds \in Holding
      /\ holds'[p][x] = holds[p]["next"] /\ holds'[p]["next"] = None
      /\ \A y \in Refs \ {x, "next"} : holds'[p][y] = holds[p][y]
      /\ \A q \in Proc \ {p} : holds'[q] = holds[q]
  BY <1>3, <1>4, DropDoes DEF IInv
<1>7. RefsExact' /\ ref[i] >= 1
  <2>1. ref' = [ref EXCEPT ![i] = @ - 1] /\ ref \in [Inum -> Nat] /\ x \in Refs \ {"next"}
    BY <1>3, <1>4 DEF IPut, IInv, Types
  <2> QED BY <2>1, <1>3, <1>4, <1>6, RefsDrop DEF IInv
<1>8. b.locks = a.locks /\ b.name = "." /\ b.facts \subseteq a.facts
      /\ (x = "dp" => "dir" \notin b.facts) /\ (x = "ip" => "file" \notin b.facts /\ "surplus" \notin b.facts)
      /\ a.held \ {"next", x} \subseteq b.held /\ (b.facts = a.facts \/ b.facts = a.facts \ {"dir"} \/ b.facts = a.facts \ {"file"})
  <2>0. /\ b.held = IF "next" \in a.held THEN a.held \ {"next"} ELSE a.held \ {x}
        /\ b.locks = a.locks \ {x} /\ b.name = "."
        /\ b.facts = a.facts \ (IF x = "dp" THEN {"dir"} ELSE IF x = "ip" THEN {"file"} ELSE {})
        /\ (x = "ip" => "surplus" \notin a.facts)
    BY <1>2, DroppedIs, ZenonT(120) DEF CanDrop
  <2>1. CASE x = "dp"
    BY <2>0, <2>1, <1>2
  <2>2. CASE x = "ip"
    BY <2>0, <2>2, <1>2
  <2>3. CASE x = "file"
    BY <2>0, <2>3, <1>2
  <2> QED BY <2>1, <2>2, <2>3, <1>3
<1>9. HoldsAgree(p, b)'
  BY <1>1, <1>2, <1>3, <1>4, DropHolds DEF IInv, Agrees
<1>10. LocksAgree(p, b)'
  <2>1. \A y \in a.locks : y \in a.held /\ y # x /\ y # "next" /\ y \in Refs
    BY <1>1, <1>2, StateIsSt, SlotsAreRefs DEF Agrees, LocksAgree
  <2>2. \A y \in a.locks : holds'[p][y] = holds[p][y]
    BY <2>1, <1>6
  <2>3. b.locks \subseteq b.held \ {"next"}
    BY <2>1, <1>8
  <2> QED BY <2>2, <2>3, <1>1, <1>4, <1>8 DEF Agrees, LocksAgree
<1>11. FactsAgree(p, b)'
  <2>1. FactsAgree(p, a) /\ a.name = "."
    BY <1>1, <1>2 DEF Agrees, CanDrop
  <2>2. /\ "dir" \in a.facts => "dp" \in a.held
        /\ "file" \in a.facts => "ip" \in a.held
        /\ "surplus" \in a.facts => "ip" \in a.held /\ "trans" \in a.facts
        /\ "trans" \in a.facts <=> writer = p
    BY <2>1 DEF FactsAgree
  <2>3. {"ip", "dp"} \subseteq Refs \ {"next"}
    BY DEF Refs
  <2>4. "dir" \in b.facts => "dp" \in b.held /\ holds'[p]["dp"] = holds[p]["dp"]
    BY <2>2, <2>3, <1>6, <1>8
  <2>5. "file" \in b.facts \/ "surplus" \in b.facts => "ip" \in b.held /\ holds'[p]["ip"] = holds[p]["ip"]
    BY <2>2, <2>3, <1>6, <1>8
  <2>6. ("trans" \in b.facts <=> writer' = p) /\ ("surplus" \in b.facts => "trans" \in b.facts)
    BY <2>2, <1>4, <1>8
  <2> QED BY <2>1, <2>4, <2>5, <2>6, <1>4, <1>8, SameFacts
<1>12. Follows(p)' /\ todo' \in [Proc -> Seq(Steps \cup Dying)]
  BY <1>4, <1>5, <1>9, <1>10, <1>11, ChainFollows, TodoTyped DEF Agrees, IInv
<1>13. ASSUME NEW q \in Proc \ {p} PROVE Leaves(q)
  <2>1. ASSUME Doing(q, "ifree") PROVE ref'[At(q)] = ref[At(q)]
    <3>1. At(q) # i /\ At(q) \in Inum
      BY <2>1, <1>3, FreedIsLonely DEF IInv
    <3> QED BY <3>1, <1>4 DEF IPut, IInv, Types
  <2> QED BY <2>1, <1>4, <1>5, <1>6, QuietLeaves
<1>14. ref[i] = 1 => locked[i] = NoProc
  BY <1>1, <1>2, <1>3, LastIsUnlocked
<1>15. Types'
  <2>1. ref' \in [Inum -> Nat]
    <3>1. ref \in [Inum -> Nat] /\ ref[i] - 1 \in Nat
      BY <1>3, <1>7 DEF IInv, Types
    <3> QED BY <3>1, <1>4 DEF IPut
  <2>2. valid' \subseteq Inum
    BY <1>4 DEF IPut, IInv, Types
  <2>3. inode' \in [Inum -> Inode]
    <3>1. Unused \in Inode
      BY DEF Unused, Inode
    <3> QED BY <3>1, <1>4 DEF IPut, IInv, Types
  <2> QED BY <2>1, <2>2, <2>3, <1>4, <1>6, <1>12 DEF IInv, Types, ondisk, Holding
<1>16. CacheInv'
  <2>1. \A j \in valid' : j \in valid /\ inode'[j] = inode[j]
    BY <1>3, <1>4 DEF IPut, IInv, Types
  <2>2. \A j \in Inum : locked[j] # NoProc => j \in valid'
    BY <1>4, <1>14 DEF IPut, IInv, CacheInv
  <2> QED BY <2>1, <2>2, <1>4 DEF IInv, CacheInv, ondisk
<1>17. HeldInv'
  <2>1. ASSUME NEW q \in Proc, NEW y \in Refs, holds'[q][y] # None
        PROVE  \E z \in Refs : holds'[q][y] = holds[q][z] /\ holds[q][z] # None
    <3>1. CASE q = p
      BY <2>1, <3>1, <1>6 DEF Refs
    <3>2. CASE q # p
      BY <2>1, <3>2, <1>6
    <3> QED BY <3>1, <3>2
  <2> QED BY <2>1, <1>4 DEF IInv, HeldInv, ondisk
<1> QED BY <1>4, <1>7, <1>12, <1>13, <1>15, <1>16, <1>17, QuietDisk, Keeps DEF IInv
\* a step that writes to the disk is in the transaction of its process
LEMMA WritesAlone ==
  ASSUME ~Trespass, NEW p \in Proc, Writes(p)
  PROVE  writer = p /\ \A q \in Proc \ {p} : writer # q /\ ~Doing(q, "ifree")
<1>1. writer = p
  BY DEF Trespass
<1>2. ASSUME NEW q \in Proc \ {p}, Doing(q, "ifree") PROVE FALSE
  <2>1. Writes(q)
    BY <1>2 DEF Writes
  <2> QED BY <1>1, <2>1 DEF Trespass
<1> QED BY <1>1, <1>2

\* the disk after the last iput() of an inode without links
LEMMA FreeDisk ==
  ASSUME Types, DiskInv, NEW i \in Inum, dinode[i].nlink = 0,
         \A d \in Inum, n \in Name : entries[d][n] # i,
         bitmap' = bitmap \ dinode[i].addrs, dinode' = [dinode EXCEPT ![i] = Unused],
         entries' = [entries EXCEPT ![i] = NoEntries]
  PROVE  DiskInv' /\ \A j \in Inum : Links(j)' <= Links(j)
<1>0. i # None
  BY InodeAssumption
<1>1. /\ \A j \in Inum : dinode'[j] = IF j = i THEN Unused ELSE dinode[j]
      /\ \A j \in Inum : entries'[j] = IF j = i THEN NoEntries ELSE entries[j]
  BY DEF Types
<1>2. Unused.type = "none" /\ Unused.nlink = 0 /\ Unused.addrs = {}
  BY DEF Unused
<1>3. \A n \in Name \cup {".."} : NoEntries[n] = None
  BY DEF NoEntries
<1>4. FreeInv'
  BY <1>1 DEF DiskInv, FreeInv
<1>5. ASSUME NEW d \in Inum, NEW n \in Name, entries'[d][n] # None
      PROVE  entries'[d][n] = entries[d][n] /\ d # i
  BY <1>1, <1>3, <1>5
<1>5a. ASSUME NEW d \in Inum, NEW n \in Name, IsDir(entries[d][n])'
       PROVE  /\ IsDir(entries[d][n]) /\ entries'[d][n] = entries[d][n]
              /\ entries[d][n] # None /\ entries[d][n] \in Inum
  <2>1. entries'[d][n] # None /\ dinode'[entries'[d][n]].type = "dir"
    BY <1>5a DEF IsDir
  <2>2. entries'[d][n] = entries[d][n] /\ entries[d][n] \in Inum \cup {None}
    BY <2>1, <1>5 DEF Types
  <2>3. dinode[entries[d][n]].type = "dir"
    BY <2>1, <2>2, <1>1, <1>2
  <2> QED BY <2>1, <2>2, <2>3 DEF IsDir
<1>6. TreeInv'
  <2>1. \A j \in Inum : dinode'[j].type # "dir" => entries'[j] = NoEntries
    BY <1>1 DEF DiskInv, TreeInv
  <2>2. \A j \in Inum : dinode'[j].type = "dir" => entries'[j][".."] # None
    BY <1>1, <1>2 DEF DiskInv, TreeInv
  <2>3. \A d \in Inum, n \in Name : entries'[d][n] # d
    <3>1. \A d \in Inum : d # None
      BY InodeAssumption
    <3> QED BY <3>1, <1>5 DEF DiskInv, TreeInv
  <2>4. ASSUME NEW d \in Inum, NEW n \in Name, IsDir(entries[d][n])'
        PROVE  /\ entries'[entries'[d][n]][".."] = d
               /\ \A m \in Name : entries'[d][m] = entries'[d][n] => m = n
    <3>1. IsDir(entries[d][n]) /\ entries'[d][n] = entries[d][n] /\ entries[d][n] # None /\ entries[d][n] \in Inum
        BY <2>4, <1>5a
    <3>2. entries'[entries[d][n]] = entries[entries[d][n]]
      BY <3>1, <1>1
    <3>3. \A m \in Name : entries'[d][m] = entries[d][n] => entries[d][m] = entries[d][n]
      BY <3>1, <1>5
    <3> QED BY <3>1, <3>2, <3>3 DEF DiskInv, TreeInv
  <2> QED BY <2>1, <2>2, <2>3, <2>4 DEF TreeInv
<1>7. BlockInv'
  <2>1. \A j \in Inum : dinode'[j].addrs = IF j = i THEN {} ELSE dinode[j].addrs
    BY <1>1, <1>2, SMTT(60)
  <2>2. \A j \in Inum : j # i => dinode[j].addrs \cap dinode[i].addrs = {}
    BY DEF DiskInv, BlockInv
  <2>3. bitmap = UNION {dinode[j].addrs : j \in Inum}
    BY DEF DiskInv, BlockInv
  <2>4. bitmap' = UNION {dinode'[j].addrs : j \in Inum}
    <3>1. ASSUME NEW v, v \in bitmap' PROVE v \in UNION {dinode'[j].addrs : j \in Inum}
      <4>1. PICK j \in Inum : v \in dinode[j].addrs
        BY <3>1, <2>3
      <4>2. j # i
        BY <3>1, <4>1
      <4> QED BY <2>1, <4>1, <4>2
    <3>2. ASSUME NEW v, v \in UNION {dinode'[j].addrs : j \in Inum} PROVE v \in bitmap'
      <4>1. PICK j \in Inum : v \in dinode'[j].addrs
        BY <3>2
      <4>2. j # i /\ v \in dinode[j].addrs
        BY <2>1, <4>1
      <4> QED BY <2>2, <2>3, <4>2
    <3> QED BY <3>1, <3>2
  <2> QED BY <2>1, <2>4 DEF DiskInv, BlockInv
<1>8. ASSUME NEW j \in Inum PROVE Links(j)' <= Links(j)
  <2>1. j # None
    BY InodeAssumption
  <2>2. \A d \in Inum, n \in Name : entries'[d][n] = j => entries[d][n] = j
    BY <2>1, <1>5
  <2>3. \A n \in Name : IsDir(entries[j][n])' => IsDir(entries[j][n])
    BY <1>5a
  <2> QED BY <2>2, <2>3, FewerLinks
<1>9. LinksInv'
  <2>1. ASSUME NEW j \in Inum PROVE Links(j)' <= dinode'[j].nlink
    <3>1. Links(j)' <= Links(j) /\ Links(j) <= dinode[j].nlink /\ Links(j) \in Nat
      BY <1>8, LinksNat DEF DiskInv, LinksInv
    <3>2. dinode'[j].nlink = dinode[j].nlink
      BY <1>1, <1>2
    <3>3. Links(j)' \in Nat /\ dinode[j].nlink \in Nat
      BY LinksNatNext DEF Types, Inode
    <3> QED BY <3>1, <3>2, <3>3
  <2> QED BY <2>1 DEF LinksInv
<1> QED BY <1>4, <1>6, <1>7, <1>8, <1>9 DEF DiskInv

\* The end of iput() of a dead inode keeps the invariant.
LEMMA FreeInodeKeeps ==
  ASSUME IInv, ~Trespass, NEW p \in Proc, FreeInode(p)
  PROVE  IInv'
<1>0. Now(p).f = "ifree" /\ todo[p] # <<>> /\ Doing(p, "ifree")
  BY DoingNow DEF FreeInode
<1>1. PICK a \in State : Agrees(p, a) /\ Frees(p, a)
  BY <1>0, NowFrees DEF IInv
<1>. DEFINE i == At(p)
<1>x. PICK x : x = Now(p).x
  OBVIOUS
<1>2. /\ x \in {"ip", "dp", "file"} /\ x \in a.locks /\ CanDrop(x, a)
      /\ Chain(Tail(todo[p]), Dropped(x, a), Idle) /\ dinode[i].nlink = 0 /\ ref[i] = 1
  BY <1>1, <1>x DEF Frees, Dying
<1>3. /\ i \in Inum /\ x \in Refs /\ i = holds[p][x] /\ locked[i] = p
      /\ \A q \in Proc, y \in Refs : holds[q][y] = i => q = p /\ y = x
      /\ \A d \in Inum, n \in Name : entries[d][n] # i
  BY <1>0, <1>x, FreedIsLonely DEF IInv
<1>4. IFree(i) /\ Drop(p, x) /\ Then(p, <<>>) /\ writer' = writer
  BY <1>x DEF FreeInode
<1>. HIDE DEF i
<1>5. writer = p /\ \A q \in Proc \ {p} : writer # q /\ ~Doing(q, "ifree")
  <2>1. Writes(p)
    BY <1>0 DEF Writes
  <2> QED BY <2>1, WritesAlone
<1>6. i \in valid /\ inode[i] = dinode[i]
  BY <1>3, InodeAssumption DEF IInv, CacheInv
<1>7. /\ bitmap' = bitmap \ dinode[i].addrs /\ dinode' = [dinode EXCEPT ![i] = Unused]
      /\ entries' = [entries EXCEPT ![i] = NoEntries]
      /\ ref' = [ref EXCEPT ![i] = @ - 1] /\ locked' = [locked EXCEPT ![i] = NoProc]
      /\ valid' = valid \ {i} /\ inode' = [inode EXCEPT ![i] = Unused]
  BY <1>4, <1>6 DEF IFree, IUnlock
<1>8. DiskInv' /\ \A j \in Inum : Links(j)' <= Links(j)
  BY <1>2, <1>3, <1>7, FreeDisk DEF IInv
<1>9. PICK b \in State : b = Dropped(x, a)
  BY DroppedInState
<1>10. Chain(todo'[p], b, Idle) /\ \A q \in Proc \ {p} : todo'[q] = todo[q]
  BY <1>2, <1>4, <1>9, TailChain DEF IInv, Types
<1>11. /\ holds' \in Holding /\ holds \in Holding
       /\ holds'[p][x] = holds[p]["next"] /\ holds'[p]["next"] = None
       /\ \A y \in Refs \ {x, "next"} : holds'[p][y] = holds[p][y]
       /\ \A q \in Proc \ {p} : holds'[q] = holds[q]
  BY <1>2, <1>4, DropDoes DEF IInv
<1>12. RefsExact'
  <2>1. ref \in [Inum -> Nat] /\ x \in Refs \ {"next"}
    BY <1>2, <1>3 DEF IInv, Types
  <2> QED BY <2>1, <1>3, <1>4, <1>7, <1>11, RefsDrop DEF IInv
<1>13. /\ \A j \in Inum : locked'[j] = IF j = i THEN NoProc ELSE locked[j]
       /\ \A j \in Inum : dinode'[j] = IF j = i THEN Unused ELSE dinode[j]
       /\ \A j \in Inum : inode'[j] = IF j = i THEN Unused ELSE inode[j]
       /\ \A j \in Inum : entries'[j] = IF j = i THEN NoEntries ELSE entries[j]
  BY <1>3, <1>7 DEF IInv, Types
<1>14. HoldsAgree(p, b)'
  BY <1>1, <1>2, <1>4, <1>9, DropHolds DEF IInv, Agrees
<1>15. b.locks = a.locks \ {x} /\ b.name = "." /\ b.facts \subseteq a.facts
       /\ (x = "dp" => "dir" \notin b.facts) /\ (x = "ip" => "file" \notin b.facts /\ "surplus" \notin b.facts)
       /\ a.held \ {"next", x} \subseteq b.held /\ ("trans" \in b.facts <=> "trans" \in a.facts)
  <2>0. /\ b.held = IF "next" \in a.held THEN a.held \ {"next"} ELSE a.held \ {x}
        /\ b.locks = a.locks \ {x} /\ b.name = "."
        /\ b.facts = a.facts \ (IF x = "dp" THEN {"dir"} ELSE IF x = "ip" THEN {"file"} ELSE {})
    BY <1>9, DroppedIs, ZenonT(120)
  <2>a. x = "ip" => "surplus" \notin a.facts
    BY <1>2 DEF CanDrop
  <2>1. CASE x = "dp"
    BY <2>0, <2>a, <2>1
  <2>2. CASE x = "ip"
    BY <2>0, <2>a, <2>2
  <2>3. CASE x = "file"
    BY <2>0, <2>a, <2>3
  <2> QED BY <2>1, <2>2, <2>3, <1>2
<1>16. LocksAgree(p, b)'
  <2>1. \A y \in a.locks : y \in a.held /\ y # "next" /\ y \in Refs
    BY <1>1, StateIsSt, SlotsAreRefs DEF Agrees, LocksAgree
  <2>2. \A y \in b.locks : y # x /\ holds'[p][y] = holds[p][y] /\ holds[p][y] # i
                           /\ locked[holds[p][y]] = p /\ holds[p][y] \in Inum
    BY <2>1, <1>1, <1>3, <1>11, <1>15, HeldSlot DEF IInv, Agrees, LocksAgree
  <2>3. b.locks \subseteq b.held \ {"next"}
    BY <2>1, <1>15
  <2>4. \A y \in b.locks : locked'[holds'[p][y]] = p
    BY <2>2, <1>13
  <2>5. ASSUME NEW j \in Inum, locked'[j] = p PROVE \E y \in b.locks : holds'[p][y] = j
    <3>1. j # i /\ locked[j] = p
      BY <2>5, <1>13, InodeAssumption
    <3>2. PICK y \in a.locks : holds[p][y] = j
      BY <3>1, <1>1 DEF Agrees, LocksAgree
    <3>3. y \in b.locks
      BY <3>1, <3>2, <1>3, <1>15
    <3> QED BY <3>2, <3>3, <2>2
  <2>6. \A y \in b.locks, z \in b.locks : holds'[p][y] = holds'[p][z] => y = z
    BY <2>2, <1>1, <1>15 DEF Agrees, LocksAgree
  <2> QED BY <2>3, <2>4, <2>5, <2>6 DEF LocksAgree
<1>17. FactsAgree(p, b)'
  <2>1. FactsAgree(p, a) /\ {"ip", "dp"} \subseteq Refs \ {"next"}
    BY <1>1 DEF Agrees, Refs
  <2>2. ASSUME NEW y \in {"ip", "dp"}, y \in a.held, y # x
        PROVE  /\ y \in b.held /\ holds'[p][y] = holds[p][y] /\ holds[p][y] \in Inum
               /\ dinode'[holds[p][y]] = dinode[holds[p][y]]
    <3>1. holds[p][y] \in Inum /\ holds[p][y] # i
      BY <2>1, <2>2, <1>1, <1>3, HeldSlot DEF IInv, Agrees
    <3> QED BY <2>1, <2>2, <3>1, <1>11, <1>13, <1>15
  <2>3. "trans" \in b.facts <=> writer' = p
    BY <2>1, <1>4, <1>15 DEF FactsAgree
  <2>4. "dir" \in b.facts => "dp" \in b.held /\ dinode'[holds'[p]["dp"]].type = "dir"
    BY <2>1, <2>2, <1>15 DEF FactsAgree
  <2>5. "file" \in b.facts => "ip" \in b.held /\ dinode'[holds'[p]["ip"]].type # "dir"
    BY <2>1, <2>2, <1>15 DEF FactsAgree
  <2>6. ASSUME "surplus" \in b.facts
        PROVE  /\ "trans" \in b.facts /\ "ip" \in b.held
               /\ (Links(holds[p]["ip"]) + 1 <= dinode[holds[p]["ip"]].nlink)'
    <3>1. /\ "trans" \in a.facts /\ "ip" \in a.held /\ x # "ip"
          /\ Links(holds[p]["ip"]) + 1 <= dinode[holds[p]["ip"]].nlink
      BY <2>1, <2>6, <1>15 DEF FactsAgree
    <3>2. PICK j \in Inum : j = holds[p]["ip"] /\ j = holds'[p]["ip"] /\ dinode'[j] = dinode[j] /\ "ip" \in b.held
      BY <2>2, <3>1
    <3>3. Links(j)' <= Links(j) /\ Links(j) \in Nat /\ Links(j)' \in Nat /\ dinode[j].nlink \in Nat
      BY <1>8, LinksNat, LinksNatNext DEF IInv, Types, Inode
    <3>4. Links(j)' + 1 <= dinode'[j].nlink
      BY <3>1, <3>2, <3>3
    <3>5. Links(holds[p]["ip"])' = Links(j)'
      BY <3>2 DEF Links
    <3> QED BY <3>1, <3>2, <3>4, <3>5, <1>15
  <2> QED BY <2>3, <2>4, <2>5, <2>6, <1>15 DEF FactsAgree
<1>18. Follows(p)' /\ todo' \in [Proc -> Seq(Steps \cup Dying)]
  BY <1>4, <1>10, <1>14, <1>16, <1>17, ChainFollows, TodoTyped DEF Agrees, IInv
<1>19. ASSUME NEW q \in Proc \ {p} PROVE Leaves(q)
  <2>1. \A j \in Inum : locked'[j] = q <=> locked[j] = q
    BY <1>3, <1>13, InodeAssumption
  <2>2. \A j \in Inum : locked[j] = q => entries'[j] = entries[j]
    BY <1>3, <1>13
  <2>3. \A y \in Refs : holds[q][y] # None => dinode'[holds[q][y]].type = dinode[holds[q][y]].type
    BY <1>3, <1>13 DEF IInv, Types
  <2> QED BY <2>1, <2>2, <2>3, <1>4, <1>5, <1>10, <1>11 DEF Leaves
<1>20. Types'
  <2>1. ref' \in [Inum -> Nat]
    BY <1>2, <1>3, <1>7 DEF IInv, Types
  <2>2. Unused \in Inode
    BY DEF Unused, Inode
  <2>3. NoEntries \in [Name \cup {".."} -> Inum \cup {None}]
    BY DEF NoEntries
  <2> QED BY <2>1, <2>2, <2>3, <1>3, <1>4, <1>7, <1>11, <1>18 DEF IInv, Types, Holding
<1>21. CacheInv'
  BY <1>7, <1>13 DEF IInv, CacheInv, Types
<1>22. HeldInv'
  <2>1. ASSUME NEW q \in Proc, NEW y \in Refs, holds'[q][y] # None
        PROVE  holds'[q][y] # i /\ \E z \in Refs : holds'[q][y] = holds[q][z] /\ holds[q][z] # None
    <3>1. CASE q = p
      <4>1. "next" \in Refs
        BY DEF Refs
      <4> QED BY <2>1, <3>1, <4>1, <1>2, <1>3, <1>11
    <3>2. CASE q # p
      BY <2>1, <3>2, <1>3, <1>11
    <3> QED BY <3>1, <3>2
  <2>2. ASSUME NEW q \in Proc, NEW y \in Refs, holds'[q][y] # None
        PROVE  dinode'[holds'[q][y]].type # "none"
    <3>1. PICK z \in Refs : holds'[q][y] = holds[q][z] /\ holds[q][z] # None /\ holds[q][z] # i
      BY <2>1, <2>2
    <3>2. holds[q][z] \in Inum
      BY <3>1 DEF IInv, Types
    <3> QED BY <3>1, <3>2, <1>13 DEF IInv, HeldInv
  <2> QED BY <2>2 DEF HeldInv
<1> QED BY <1>8, <1>12, <1>18, <1>19, <1>20, <1>21, <1>22, Keeps DEF IInv
-----------------------------------------------------------------------------
(* namex() *)

\* The states from which a lookup starts.
LEMMA BeforeIs ==
  ASSUME NEW fail, NEW c, Before(fail, c), NEW x \in {"ip", "dp"}, x \notin c.held
  PROVE  /\ c \in State /\ c.locks = {} /\ c.name = "." /\ "next" \notin c.held /\ "dir" \notin c.facts
         /\ x = "ip" => "file" \notin c.facts /\ "surplus" \notin c.facts
         /\ fail \in {<<>>, Commit, LinkBad} /\ Chain(fail, c, Idle)
         /\ c = St(c.held, {}, c.facts, ".")
<1>1. /\ c \in State /\ c.locks = {} /\ c.name = "." /\ "next" \notin c.held /\ "dir" \notin c.facts
      /\ fail \in {<<>>, Commit, LinkBad} /\ Chain(fail, c, Idle)
  BY FailEnds
<1>2. x = "ip" => "file" \notin c.facts /\ "surplus" \notin c.facts
  BY DEF Before, Idle, InTrans, Linking, St
<1>3. c = St(c.held, {}, c.facts, ".")
  BY <1>1, StateIsSt
<1> QED BY <1>1, <1>2, <1>3

\* The states of a lookup, and those it ends in.
LEMMA DuringIs ==
  ASSUME NEW fail, NEW c, Before(fail, c), NEW x \in {"ip", "dp"}, x \notin c.held
  PROVE  /\ During(x, c) \in State /\ During(x, c).held = c.held \cup {x} /\ During(x, c).locks = {}
         /\ During(x, c).facts = c.facts /\ During(x, c).name = "."
         /\ Found(x, c) \in State /\ Found(x, c).held = c.held \cup {x} /\ Found(x, c).locks = {}
         /\ Found(x, c).facts = (IF x = "dp" THEN c.facts \cup {"dir"} ELSE c.facts)
         /\ Found(x, c).name = "."
<1>1. c.held \cup {x} \in SUBSET Slots /\ c.facts \in SUBSET Facts /\ c.facts \cup {"dir"} \in SUBSET Facts
  BY BeforeIs, StateIsSt DEF Slots, Facts
<1> QED BY <1>1, StInState DEF During, Found

\* the walk gives up
LEMMA WalkFails ==
  ASSUME NEW fail, NEW c, Before(fail, c), NEW x \in {"ip", "dp"}, x \notin c.held
  PROVE  Chain(Put(x) \o fail, During(x, c), Idle)
<1>1. Chain(fail, c, Idle) /\ c.locks = {} /\ c.name = "." /\ "next" \notin c.held /\ "dir" \notin c.facts
      /\ (x = "ip" => "file" \notin c.facts /\ "surplus" \notin c.facts) /\ c = St(c.held, {}, c.facts, ".")
  BY BeforeIs
<1>2. PICK d \in State : /\ d = During(x, c) /\ d.held = c.held \cup {x} /\ d.locks = {}
                         /\ d.facts = c.facts /\ d.name = "."
  BY DuringIs
<1>3. CanDrop(x, d) /\ x \notin d.locks
  BY <1>1, <1>2 DEF CanDrop
<1>4. Dropped(x, d) = c
  <2>1. "next" \notin d.held /\ d.held \ {x} = c.held /\ d.locks \ {x} = {}
    BY <1>1, <1>2
  <2>2. d.facts \ (IF x = "dp" THEN {"dir"} ELSE IF x = "ip" THEN {"file"} ELSE {}) = c.facts
    BY <1>1, <1>2
  <2> QED BY <2>1, <2>2, <1>1 DEF Dropped
<1>5. Chain(Put(x), d, c)
  BY <1>3, <1>4, ChainPut
<1> QED BY <1>1, <1>2, <1>5, ChainConcat

\* the walk goes on
LEMMA WalkStep ==
  ASSUME NEW fail, NEW c, Before(fail, c), NEW x \in {"ip", "dp"}, x \notin c.held, NEW rest \in Seq(Elem)
  PROVE  Chain(<<Lookup("walk", x, rest, fail)>>, During(x, c), Found(x, c))
<1>1. During(x, c) \in State /\ Found(x, c) \in State /\ c \in State /\ fail \in {<<>>, Commit, LinkBad}
  BY DuringIs, BeforeIs
<1>2. Lookup("walk", x, rest, fail) \in Steps
  BY <1>1 DEF Lookup, Steps, LookupStep
<1>3. DoesLookup(Lookup("walk", x, rest, fail), During(x, c), Found(x, c))
  BY <1>1 DEF DoesLookup, Lookup
<1> QED BY <1>1, <1>2, <1>3, ChainOne DEF Does

Between(x, c) == St(c.held \cup {x, "next"}, {}, c.facts, ".")

\* A turn of the loop with the next inode held beside the old one.
LEMMA WalkGoesOn ==
  ASSUME NEW fail, NEW c, Before(fail, c), NEW x \in {"ip", "dp"}, x \notin c.held, NEW rest \in Seq(Elem)
  PROVE  /\ Between(x, c) \in State /\ Between(x, c).held = c.held \cup {x, "next"}
         /\ Between(x, c).locks = {} /\ Between(x, c).facts = c.facts /\ Between(x, c).name = "."
         /\ Chain(Put(x) \o <<Lookup("walk", x, rest, fail)>>, Between(x, c), Found(x, c))
<1>1. c \in State /\ c.locks = {} /\ c.name = "." /\ "next" \notin c.held /\ "dir" \notin c.facts
      /\ (x = "ip" => "file" \notin c.facts /\ "surplus" \notin c.facts)
  BY BeforeIs
<1>2. PICK d \in State : /\ d = Between(x, c) /\ d.held = c.held \cup {x, "next"} /\ d.locks = {}
                         /\ d.facts = c.facts /\ d.name = "."
  <2>1. c.held \cup {x, "next"} \in SUBSET Slots /\ c.facts \in SUBSET Facts
    BY <1>1, StateIsSt DEF Slots
  <2> QED BY <2>1, StInState DEF Between
<1>3. CanDrop(x, d) /\ x \notin d.locks
  BY <1>1, <1>2 DEF CanDrop
<1>4. Dropped(x, d) = During(x, c)
  <2>1. "next" \in d.held /\ d.held \ {"next"} = c.held \cup {x} /\ d.locks \ {x} = {}
    BY <1>1, <1>2
  <2>2. d.facts \ (IF x = "dp" THEN {"dir"} ELSE IF x = "ip" THEN {"file"} ELSE {}) = c.facts
    BY <1>1, <1>2
  <2> QED BY <2>1, <2>2, <1>1 DEF Dropped, During
<1>5. Chain(Put(x), d, During(x, c))
  BY <1>3, <1>4, ChainPut
<1> QED BY <1>2, <1>5, WalkStep, ChainConcat

\* iget() and idup(), into a slot that is free
LEMMA GetAgrees ==
  ASSUME IInv, NEW p \in Proc, NEW a \in State, NEW b \in State, Agrees(p, a),
         NEW x \in {"ip", "dp", "next"}, x \notin a.held, NEW i \in Inum,
         Hold(p, x, i), UNCHANGED <<ondisk, locked, writer>>,
         b.held = a.held \cup {x}, b.locks = a.locks, b.facts = a.facts,
         b.name # "." => x = "ip" /\ "dp" \in a.locks /\ entries[holds[p]["dp"]][b.name] = i
  PROVE  Agrees(p, b)'
<1>1. i # None /\ x \in Refs
  BY InodeAssumption DEF Refs
<1>2. holds'[p][x] = i /\ \A y \in Refs \ {x} : holds'[p][y] = holds[p][y]
  BY <1>1 DEF Hold, IInv, Types
<1>3. {"cwd", "ip", "dp", "next", "file"} = Refs /\ a.locks \subseteq a.held /\ a.held \subseteq Refs
  BY StateIsSt, SlotsAreRefs DEF Refs, Agrees, LocksAgree
<1>4. HoldsAgree(p, b)'
  BY <1>1, <1>2, <1>3 DEF Agrees, HoldsAgree
<1>5. LocksAgree(p, b)'
  <2>1. \A y \in a.locks : y # x /\ holds'[p][y] = holds[p][y]
    BY <1>2, <1>3
  <2> QED BY <2>1 DEF Agrees, LocksAgree
<1>6. FactsAgree(p, b)'
  <2>1. FactsAgree(p, a) /\ dinode' = dinode /\ entries' = entries
    BY DEF Agrees, ondisk
  <2>2. "trans" \in b.facts <=> writer' = p
    BY <2>1 DEF FactsAgree
  <2>3. "dir" \in b.facts => "dp" \in b.held /\ dinode'[holds'[p]["dp"]].type = "dir"
    BY <2>1, <1>2, <1>3 DEF FactsAgree
  <2>4. "file" \in b.facts => "ip" \in b.held /\ dinode'[holds'[p]["ip"]].type # "dir"
    BY <2>1, <1>2, <1>3 DEF FactsAgree
  <2>5. "surplus" \in b.facts =>
          /\ "trans" \in b.facts /\ "ip" \in b.held
          /\ (Links(holds[p]["ip"]) + 1 <= dinode[holds[p]["ip"]].nlink)'
    <3>1. ASSUME "surplus" \in b.facts
          PROVE  /\ "trans" \in b.facts /\ "ip" \in b.held /\ holds'[p]["ip"] = holds[p]["ip"]
                 /\ Links(holds[p]["ip"]) + 1 <= dinode[holds[p]["ip"]].nlink
      BY <2>1, <3>1, <1>2, <1>3 DEF FactsAgree
    <3>2. \A j : Links(j)' = Links(j)
      BY <2>1 DEF Links, IsDir
    <3> QED BY <2>1, <3>1, <3>2
  <2>6. b.name # "." => /\ "ip" \in b.held /\ "dp" \in b.locks
                        /\ entries'[holds'[p]["dp"]][b.name] = holds'[p]["ip"]
    BY <2>1, <1>2, <1>3
  <2> QED BY <2>2, <2>3, <2>4, <2>5, <2>6 DEF FactsAgree
<1> QED BY <1>4, <1>5, <1>6 DEF Agrees

\* A step that takes one more reference keeps the invariant.
LEMMA GetKeeps ==
  ASSUME IInv, NEW p \in Proc, NEW x \in {"ip", "dp", "next"}, NEW i, Reachable(p, i), holds[p][x] = None,
         IGet(i), Hold(p, x, i), UNCHANGED <<ondisk, locked, writer>>, CacheInv',
         valid' \subseteq Inum, inode' \in [Inum -> Inode],
         todo' \in [Proc -> Seq(Steps \cup Dying)], \A q \in Proc \ {p} : todo'[q] = todo[q], Follows(p)'
  PROVE  IInv'
<1>1. i \in Inum /\ x \in Refs /\ dinode[i].type # "none"
  BY DEF Reachable, Refs
<1>2. /\ \A q \in Proc \ {p} : holds'[q] = holds[q]
      /\ holds'[p][x] = i /\ \A y \in Refs \ {x} : holds'[p][y] = holds[p][y]
      /\ holds' \in Holding
  BY <1>1 DEF Hold, IInv, Types, Holding
<1>3. RefsExact'
  BY <1>1, RefsGet DEF IInv, Types, Holding
<1>4. Types'
  <2>1. ref' \in [Inum -> Nat]
    BY <1>1 DEF IInv, Types, IGet
  <2>2. /\ dinode' = dinode /\ entries' = entries /\ bitmap' = bitmap
        /\ locked' = locked /\ writer' = writer
    BY DEF ondisk
  <2>3. holds' \in [Proc -> [Refs -> Inum \cup {None}]]
    BY <1>2 DEF Holding
  <2>4. Types
    BY DEF IInv
  <2> QED BY <2>1, <2>2, <2>3, <2>4 DEF Types
<1>5. HeldInv'
  <2>1. ASSUME NEW q \in Proc, NEW z \in Refs, holds'[q][z] # None
        PROVE  dinode[holds'[q][z]].type # "none"
    <3>1. CASE q = p /\ z = x
      BY <3>1, <1>1, <1>2
    <3>2. CASE ~(q = p /\ z = x)
      <4>1. holds'[q][z] = holds[q][z]
        BY <3>2, <1>2
      <4> QED BY <2>1, <4>1 DEF IInv, HeldInv
    <3> QED BY <3>1, <3>2
  <2> QED BY <2>1 DEF HeldInv, ondisk
<1>6. ASSUME NEW q \in Proc \ {p} PROVE Leaves(q)
  <2>1. Doing(q, "ifree") => ref'[At(q)] = ref[At(q)]
    <3>1. Doing(q, "ifree") => At(q) # i /\ At(q) \in Inum
      BY FreedIsLonely DEF Reachable, IInv
    <3> QED BY <3>1, <1>1 DEF IGet, IInv, Types
  <2> QED BY <2>1, <1>2, QuietLeaves
<1> QED BY <1>3, <1>4, <1>5, <1>6, QuietDisk, Keeps DEF IInv

\* The start of namex() keeps the invariant.
LEMMA WalkStartsKeeps ==
  ASSUME IInv, NEW p \in Proc, WalkStarts(p)
  PROVE  IInv'
<1>0. Now(p).f = "namei" /\ todo[p] # <<>>
  BY DoingNow DEF WalkStarts
<1>1. PICK a \in State, b \in State :
        /\ Agrees(p, a) /\ Now(p) \in Steps /\ Does(Now(p), a, b) /\ Chain(Tail(todo[p]), b, Idle)
  BY <1>0, NowDoes DEF IInv
<1>2. PICK x, path, fail : x = Now(p).x /\ path = Now(p).path /\ fail = Now(p).fail
  OBVIOUS
<1>3. x \in {"ip", "dp"} /\ x \notin a.held /\ Before(fail, a) /\ b = Found(x, a) /\ path.elems \in Seq(Elem)
  <2>1. path \in Path /\ x \in {"ip", "dp"}
    BY <1>0, <1>1, <1>2, StepHas
  <2> QED BY <2>1, <1>0, <1>1, <1>2, DoesNamei, CallsAssumption DEF Elem
<1>4. PICK i : /\ i = IF path.abs THEN ROOTINO ELSE holds[p]["cwd"]
               /\ IGet(i) /\ Hold(p, x, i) /\ Then(p, <<Lookup("walk", x, path.elems, fail)>>)
               /\ UNCHANGED <<ondisk, locked, valid, inode, writer>>
  BY <1>2 DEF WalkStarts
<1>5. Reachable(p, i)
  <2>1. holds[p]["cwd"] # None /\ "cwd" \in Refs
    BY <1>1 DEF Agrees, HoldsAgree, Refs
  <2>2. Reachable(p, ROOTINO) /\ Reachable(p, holds[p]["cwd"])
    BY <2>1, RootIsReachable, HeldIsReachable
  <2> QED BY <2>2, <1>4
<1>6. holds[p][x] = None
  BY <1>1, <1>3 DEF Agrees, HoldsAgree
<1>7. PICK c \in State : /\ c = During(x, a) /\ c.held = a.held \cup {x} /\ c.locks = {}
                         /\ c.facts = a.facts /\ c.name = "."
  BY <1>3, DuringIs
<1>8. a.locks = {}
  BY <1>3, BeforeIs
<1>9. Agrees(p, c)'
  <2>1. i \in Inum
    BY <1>5 DEF Reachable
  <2>2. x \in {"ip", "dp", "next"} /\ c.locks = a.locks /\ UNCHANGED <<ondisk, locked, writer>>
    BY <1>3, <1>4, <1>7, <1>8
  <2> QED BY <2>1, <2>2, <1>1, <1>3, <1>4, <1>7, GetAgrees
<1>10. Chain(todo'[p], c, Idle) /\ \A q \in Proc \ {p} : todo'[q] = todo[q]
  <2>1. Chain(<<Lookup("walk", x, path.elems, fail)>>, c, b)
    BY <1>3, <1>7, WalkStep
  <2> QED BY <2>1, <1>1, <1>4, ThenChain DEF IInv, Types
<1>11. Follows(p)' /\ todo' \in [Proc -> Seq(Steps \cup Dying)]
  BY <1>4, <1>9, <1>10, ChainFollows, TodoTyped DEF IInv
<1>12. CacheInv' /\ valid' \subseteq Inum /\ inode' \in [Inum -> Inode]
  BY <1>4 DEF IInv, CacheInv, Types, ondisk
<1> QED BY <1>3, <1>4, <1>5, <1>6, <1>10, <1>11, <1>12, GetKeeps

\* The end of namex() keeps the invariant.
LEMMA WalkEndsKeeps ==
  ASSUME IInv, NEW p \in Proc, WalkEnds(p)
  PROVE  IInv'
<1>0. Now(p).f = "walk" /\ todo[p] # <<>>
  BY DoingNow DEF WalkEnds
<1>1. PICK a \in State, b \in State :
        /\ Agrees(p, a) /\ Now(p) \in Steps /\ Does(Now(p), a, b) /\ Chain(Tail(todo[p]), b, Idle)
  BY <1>0, NowDoes DEF IInv
<1>2. PICK x, fail : x = Now(p).x /\ fail = Now(p).fail
  OBVIOUS
<1>3. x \in {"ip", "dp"}
  BY <1>0, <1>1, <1>2, StepHas
<1>4. PICK c \in State : x \notin c.held /\ Before(fail, c) /\ a = During(x, c) /\ b = Found(x, c)
  BY <1>0, <1>1, <1>2, DoesWalk
<1>5. /\ IF x = "dp" THEN Instead(p, Put("dp") \o fail) ELSE Then(p, <<>>)
      /\ UNCHANGED <<ondisk, icache, writer, holds>>
  BY <1>2 DEF WalkEnds
<1>6. Agrees(p, a)'
  <2>1. \A i : Links(i)' = Links(i)
    BY <1>5 DEF ondisk, Links, IsDir
  <2>2. HoldsAgree(p, a)' /\ LocksAgree(p, a)'
    BY <1>1, <1>5 DEF Agrees, HoldsAgree, LocksAgree, icache
  <2>3. FactsAgree(p, a)'
    BY <1>1, <1>5, <2>1 DEF Agrees, FactsAgree, ondisk
  <2> QED BY <2>2, <2>3 DEF Agrees
<1>7. Chain(todo'[p], a, Idle) /\ \A q \in Proc \ {p} : todo'[q] = todo[q]
  <2>1. CASE x = "dp"
    <3>1. Chain(Put("dp") \o fail, a, Idle)
      BY <2>1, <1>3, <1>4, WalkFails
    <3> QED BY <2>1, <3>1, <1>5, InsteadChain DEF IInv, Types
  <2>2. CASE x = "ip"
    <3>1. a = b
      BY <2>2, <1>4, DuringIs DEF During, Found
    <3> QED BY <2>2, <3>1, <1>1, <1>5, TailChain DEF IInv, Types
  <2> QED BY <2>1, <2>2, <1>3
<1>8. Follows(p)' /\ todo' \in [Proc -> Seq(Steps \cup Dying)]
  BY <1>5, <1>6, <1>7, ChainFollows, TodoTyped DEF IInv
<1> QED BY <1>5, <1>7, <1>8, OnlyTodo DEF IInv, Types

\* a step that only reads an inode into memory
LEMMA ReadKeeps ==
  ASSUME IInv, NEW p \in Proc, UNCHANGED <<ondisk, ref, locked, writer, holds>>, CacheInv',
         valid' \subseteq Inum, inode' \in [Inum -> Inode],
         todo' \in [Proc -> Seq(Steps \cup Dying)], \A q \in Proc \ {p} : todo'[q] = todo[q], Follows(p)'
  PROVE  IInv'
<1>1. Types'
  BY DEF IInv, Types, ondisk
<1>2. RefsExact' /\ HeldInv'
  BY DEF IInv, RefsExact, HeldInv, ondisk
<1>3. DiskInv'
  BY QuietDisk DEF IInv
<1>4. \A q \in Proc \ {p} : Leaves(q)
  BY QuietLeaves
<1> QED BY <1>1, <1>2, <1>3, <1>4, Keeps

\* Load reads what is on the disk.
LEMMA LoadIs ==
  ASSUME IInv, NEW i \in Inum, Load(i), UNCHANGED <<ondisk, locked>>
  PROVE  Loaded(i) = dinode[i] /\ CacheInv' /\ valid' \subseteq Inum /\ inode' \in [Inum -> Inode]
<1>1. Loaded(i) = dinode[i]
  BY DEF IInv, CacheInv, Loaded
<1>2. dinode' = dinode /\ valid' = valid \cup {i} /\ inode' = [inode EXCEPT ![i] = dinode[i]]
  BY <1>1 DEF Load, ondisk
<1>3. \A j \in valid' : inode'[j] = dinode[j]
  BY <1>2 DEF IInv, CacheInv, Types
<1>4. \A j \in Inum : locked'[j] # NoProc => j \in valid'
  BY <1>2 DEF IInv, CacheInv
<1>5. CacheInv'
  BY <1>2, <1>3, <1>4 DEF CacheInv
<1> QED BY <1>1, <1>2, <1>5 DEF IInv, Types

\* A turn of the loop of namex() keeps the invariant.
LEMMA WalkKeeps ==
  ASSUME IInv, NEW p \in Proc, Walk(p), ~Stray(p)
  PROVE  IInv'
<1>0. Now(p).f = "walk" /\ todo[p] # <<>> /\ Doing(p, "walk") /\ Now(p).path # <<>>
  BY DoingNow DEF Walk
<1>1. PICK a \in State, b \in State :
        /\ Agrees(p, a) /\ Now(p) \in Steps /\ Does(Now(p), a, b) /\ Chain(Tail(todo[p]), b, Idle)
  BY <1>0, NowDoes DEF IInv
<1>2. PICK x, path, fail, i : x = Now(p).x /\ path = Now(p).path /\ fail = Now(p).fail /\ i = At(p)
  OBVIOUS
<1>3. x \in {"ip", "dp"} /\ path \in Seq(Elem) /\ path # <<>>
  BY <1>0, <1>1, <1>2, StepHas
<1>4. PICK c \in State : x \notin c.held /\ Before(fail, c) /\ a = During(x, c) /\ b = Found(x, c)
  BY <1>0, <1>1, <1>2, DoesWalk
<1>5. a.held = c.held \cup {x} /\ a.locks = {} /\ a.facts = c.facts /\ a.name = "."
  BY <1>3, <1>4, DuringIs
<1>6. x \in Refs /\ i = holds[p][x] /\ i \in Inum
  BY <1>1, <1>2, <1>5, HeldSlot DEF IInv, Agrees, At
<1>7. PICK rest, n : rest = Tail(path) /\ n = Head(path)
  OBVIOUS
<1>8. rest \in Seq(Elem) /\ n \in Elem
  BY <1>3, <1>7
<1>9. PICK next : next = DirLookup(i, n)
  OBVIOUS
<1>10. /\ Load(i) /\ UNCHANGED <<ondisk, locked, writer>>
       /\ IF Loaded(i).type # "dir" THEN Instead(p, Put(x) \o fail) /\ UNCHANGED <<ref, holds>>
          ELSE IF x = "dp" /\ rest = <<>> THEN Then(p, <<>>) /\ UNCHANGED <<ref, holds>>
          ELSE IF next = None THEN Instead(p, Put(x) \o fail) /\ UNCHANGED <<ref, holds>>
          ELSE /\ IGet(next) /\ Hold(p, "next", next)
               /\ Then(p, Put(x) \o <<Lookup("walk", x, rest, fail)>>)
  BY <1>2, <1>7, <1>9 DEF Walk
<1>11. Loaded(i) = dinode[i] /\ CacheInv' /\ valid' \subseteq Inum /\ inode' \in [Inum -> Inode]
  BY <1>6, <1>10, LoadIs
<1>12. dinode' = dinode /\ entries' = entries /\ \A j : Links(j)' = Links(j)
  BY <1>10 DEF ondisk, Links, IsDir
<1>13. ASSUME Instead(p, Put(x) \o fail), UNCHANGED <<ref, holds>> PROVE IInv'
  <2>1. Agrees(p, a)'
    <3>1. HoldsAgree(p, a)' /\ LocksAgree(p, a)'
      BY <1>1, <1>10, <1>13 DEF Agrees, HoldsAgree, LocksAgree
    <3>2. FactsAgree(p, a)'
      BY <1>1, <1>10, <1>12, <1>13 DEF Agrees, FactsAgree
    <3> QED BY <3>1, <3>2 DEF Agrees
  <2>2. Chain(todo'[p], a, Idle) /\ \A q \in Proc \ {p} : todo'[q] = todo[q]
    BY <1>3, <1>4, <1>13, WalkFails, InsteadChain DEF IInv, Types
  <2>3. Follows(p)' /\ todo' \in [Proc -> Seq(Steps \cup Dying)]
    BY <1>13, <2>1, <2>2, ChainFollows, TodoTyped DEF IInv
  <2> QED BY <1>10, <1>11, <1>13, <2>2, <2>3, ReadKeeps
<1>14. ASSUME Loaded(i).type = "dir", x = "dp", Then(p, <<>>), UNCHANGED <<ref, holds>> PROVE IInv'
  <2>1. b.held = a.held /\ b.locks = {} /\ b.facts = a.facts \cup {"dir"} /\ b.name = "."
    BY <1>3, <1>4, <1>5, <1>14, DuringIs
  <2>2. Agrees(p, b)'
    <3>1. HoldsAgree(p, b)'
      BY <1>1, <1>14, <2>1 DEF Agrees, HoldsAgree
    <3>2. LocksAgree(p, b)'
      BY <1>1, <1>5, <1>10, <1>14, <2>1 DEF Agrees, LocksAgree
    <3>3. FactsAgree(p, b)'
      <4>1. "dp" \in b.held /\ dinode'[holds'[p]["dp"]].type = "dir"
        BY <1>5, <1>6, <1>11, <1>12, <1>14, <2>1
      <4>2. ASSUME NEW y \in {"trans", "file", "surplus"} PROVE y \in b.facts <=> y \in a.facts
        BY <2>1
      <4>3. FactsAgree(p, a) /\ writer' = writer /\ holds' = holds
        BY <1>1, <1>10, <1>14 DEF Agrees
      <4> QED BY <1>12, <2>1, <4>1, <4>2, <4>3 DEF FactsAgree
    <3> QED BY <3>1, <3>2, <3>3 DEF Agrees
  <2>3. Chain(todo'[p], b, Idle) /\ \A q \in Proc \ {p} : todo'[q] = todo[q]
    BY <1>1, <1>14, TailChain DEF IInv, Types
  <2>4. Follows(p)' /\ todo' \in [Proc -> Seq(Steps \cup Dying)]
    BY <1>14, <2>2, <2>3, ChainFollows, TodoTyped DEF IInv
  <2> QED BY <1>10, <1>11, <1>14, <2>3, <2>4, ReadKeeps
<1>15. ASSUME next # None, IGet(next), Hold(p, "next", next),
              Then(p, Put(x) \o <<Lookup("walk", x, rest, fail)>>)
       PROVE  IInv'
  <2>1. Reachable(p, next)
    <3>1. ASSUME n = ".."
          PROVE  /\ dinode[entries[i][n]].type # "none"
                 /\ \A q \in Proc : Doing(q, "ifree") => At(q) # entries[i][n]
      <4>1. Head(Now(p).path) = ".." /\ entries[At(p)][".."] # None
        BY <3>1, <1>2, <1>7, <1>9, <1>15 DEF DirLookup
      <4> QED BY <3>1, <4>1, <1>0, <1>2 DEF Stray
    <3> QED BY <3>1, <1>6, <1>8, <1>9, <1>15, LookupIsReachable
  <2>2. PICK d \in State : /\ d = Between(x, c) /\ d.held = c.held \cup {x, "next"} /\ d.locks = {}
                           /\ d.facts = c.facts /\ d.name = "."
                           /\ Chain(Put(x) \o <<Lookup("walk", x, rest, fail)>>, d, b)
    BY <1>3, <1>4, <1>8, WalkGoesOn
  <2>3. "next" \notin a.held /\ d.held = a.held \cup {"next"} /\ d.locks = a.locks /\ d.facts = a.facts
    BY <1>3, <1>4, <1>5, <2>2, BeforeIs
  <2>4. holds[p]["next"] = None
    BY <1>1, <2>3 DEF Agrees, HoldsAgree
  <2>5. Agrees(p, d)'
    <3>1. next \in Inum
      BY <2>1 DEF Reachable
    <3> QED BY <3>1, <2>2, <2>3, <1>1, <1>10, <1>15, GetAgrees
  <2>6. Chain(todo'[p], d, Idle) /\ \A q \in Proc \ {p} : todo'[q] = todo[q]
    BY <2>2, <1>1, <1>15, ThenChain DEF IInv, Types
  <2>7. Follows(p)' /\ todo' \in [Proc -> Seq(Steps \cup Dying)]
    BY <1>15, <2>5, <2>6, ChainFollows, TodoTyped DEF IInv
  <2> QED BY <1>10, <1>11, <1>15, <2>1, <2>4, <2>6, <2>7, GetKeeps
<1> QED BY <1>10, <1>13, <1>14, <1>15
-----------------------------------------------------------------------------
(* The last steps of open() and chdir() *)

\* p agrees to the same state when nothing that it depends on changes.
LEMMA SameAgrees ==
  ASSUME NEW p \in Proc, NEW a \in State, Agrees(p, a), UNCHANGED <<ondisk, holds, locked, writer>>
  PROVE  Agrees(p, a)'
<1>1. HoldsAgree(p, a)' /\ LocksAgree(p, a)'
  BY DEF Agrees, HoldsAgree, LocksAgree
<1>2. \A i : Links(i)' = Links(i)
  BY DEF ondisk, Links, IsDir
<1>3. FactsAgree(p, a)'
  BY <1>2 DEF Agrees, FactsAgree, ondisk
<1> QED BY <1>1, <1>3 DEF Agrees

\* ip is unlocked and takes the place of another reference
LEMMA MoveKeeps ==
  ASSUME IInv, NEW p \in Proc, NEW x \in Refs, NEW y \in Refs, x # y, NEW i \in Inum, locked[i] = p, IUnlock(i),
         holds' = TwoSlots(holds, p, x, y, holds[p][y], holds[p][x]),
         UNCHANGED <<ondisk, ref, valid, inode, writer>>,
         todo' \in [Proc -> Seq(Steps \cup Dying)], \A q \in Proc \ {p} : todo'[q] = todo[q], Follows(p)'
  PROVE  IInv'
<1>1. holds \in Holding /\ ref \in [Inum -> Nat] /\ Types
  BY DEF IInv, Types, Holding
<1>2. RefsExact'
  BY <1>1, RefsMove DEF IInv
<1>3. /\ holds' \in Holding /\ \A q \in Proc \ {p} : holds'[q] = holds[q]
      /\ \A z \in Refs : holds'[p][z] = IF z = x THEN holds[p][y] ELSE IF z = y THEN holds[p][x] ELSE holds[p][z]
  <2>1. holds[p][x] \in Inum \cup {None} /\ holds[p][y] \in Inum \cup {None}
    BY <1>1 DEF Holding
  <2> QED BY <2>1, <1>1, TwoSlotsHold
<1>4. locked' = [locked EXCEPT ![i] = NoProc] /\ dinode' = dinode /\ entries' = entries /\ bitmap' = bitmap
  BY DEF IUnlock, ondisk
<1>5. Types'
  <2>1. holds' \in [Proc -> [Refs -> Inum \cup {None}]]
    BY <1>3 DEF Holding
  <2>2. locked' \in [Inum -> Proc \cup {NoProc}]
    BY <1>1, <1>4 DEF Types
  <2> QED BY <2>1, <2>2, <1>1, <1>4 DEF Types
<1>6. HeldInv'
  <2>1. ASSUME NEW q \in Proc, NEW z \in Refs, holds'[q][z] # None PROVE dinode'[holds'[q][z]].type # "none"
    <3>1. \E w \in Refs : holds'[q][z] = holds[q][w]
      BY <1>3
    <3> QED BY <2>1, <3>1, <1>4 DEF IInv, HeldInv
  <2> QED BY <2>1 DEF HeldInv
<1>7. CacheInv'
  BY <1>1, <1>4 DEF IInv, CacheInv, Types
<1>8. ASSUME NEW q \in Proc \ {p} PROVE Leaves(q)
  <2>1. \A j \in Inum : locked'[j] = q <=> locked[j] = q
    BY <1>1, <1>4, InodeAssumption DEF Types
  <2> QED BY <2>1, <1>3, QuietLeaves
<1> QED BY <1>2, <1>5, <1>6, <1>7, <1>8, QuietDisk, Keeps DEF IInv

\* a process that holds and has locked ip, alone
LEMMA OnlyIp ==
  ASSUME IInv, NEW p \in Proc, NEW F \in SUBSET Facts, Agrees(p, St({"ip"}, {"ip"}, F, "."))
  PROVE  /\ holds[p]["ip"] \in Inum /\ locked[holds[p]["ip"]] = p
         /\ holds[p]["dp"] = None /\ holds[p]["next"] = None /\ holds[p]["cwd"] # None
         /\ \A i \in Inum : locked[i] = p => i = holds[p]["ip"]
         /\ writer = p <=> "trans" \in F
<1>1. PICK a \in State : /\ a = St({"ip"}, {"ip"}, F, ".") /\ a.held = {"ip"} /\ a.locks = {"ip"} /\ a.facts = F
                         /\ a.name = "."
  BY StInState DEF Slots
<1>2. holds[p]["ip"] \in Inum
  BY <1>1, HeldSlot DEF IInv, Agrees
<1> QED BY <1>1, <1>2 DEF Agrees, HoldsAgree, LocksAgree, FactsAgree

\* The end of open() keeps the invariant.
LEMMA OpenFileKeeps ==
  ASSUME IInv, NEW p \in Proc, OpenFile(p)
  PROVE  IInv'
<1>0. Now(p).f = "open" /\ todo[p] # <<>>
  BY DoingNow DEF OpenFile
<1>1. PICK a \in State, b \in State :
        /\ Agrees(p, a) /\ Now(p) \in Steps /\ Does(Now(p), a, b) /\ Chain(Tail(todo[p]), b, Idle)
  BY <1>0, NowDoes DEF IInv
<1>2. Now(p).x = "ip" /\ a = St({"ip"}, {"ip"}, {}, ".") /\ b = Idle
  BY <1>0, <1>1, DoesOpen
<1>3. /\ holds[p]["ip"] \in Inum /\ locked[holds[p]["ip"]] = p
      /\ holds[p]["dp"] = None /\ holds[p]["next"] = None /\ holds[p]["cwd"] # None
      /\ \A i \in Inum : locked[i] = p => i = holds[p]["ip"]
      /\ writer # p
  BY <1>1, <1>2, OnlyIp
<1>4. UNCHANGED <<ondisk, ref, valid, inode, writer>>
  BY DEF OpenFile
<1>5. CASE holds[p]["file"] = None
  <2>1. /\ IUnlock(holds[p]["ip"]) /\ Then(p, <<>>)
        /\ holds' = [holds EXCEPT ![p]["file"] = holds[p]["ip"], ![p]["ip"] = None]
    BY <1>2, <1>5 DEF OpenFile, At
  <2>2. holds' = TwoSlots(holds, p, "file", "ip", holds[p]["ip"], holds[p]["file"])
    BY <2>1, <1>5 DEF TwoSlots
  <2>3. \A z \in Refs \ {"file", "ip"} : holds'[p][z] = holds[p][z]
    BY <2>1 DEF IInv, Types
  <2>4. holds'[p]["ip"] = None
    BY <2>1 DEF IInv, Types, Refs
  <2>5. {"dp", "next", "cwd"} \subseteq Refs \ {"file", "ip"} /\ "file" \in Refs /\ "ip" \in Refs
    BY DEF Refs
  <2>6. Agrees(p, Idle)'
    <3>1. Idle.held = {} /\ Idle.locks = {} /\ Idle.facts = {} /\ Idle.name = "."
      BY DEF Idle, St
    <3>2. HoldsAgree(p, Idle)'
      BY <3>1, <2>3, <2>4, <2>5, <1>3 DEF HoldsAgree
    <3>3. \A i \in Inum : locked'[i] # p
      BY <2>1, <1>3, InodeAssumption DEF IUnlock, IInv, Types
    <3>4. LocksAgree(p, Idle)'
      BY <3>1, <3>3 DEF LocksAgree
    <3>5. FactsAgree(p, Idle)'
      BY <3>1, <1>3, <1>4 DEF FactsAgree
    <3> QED BY <3>2, <3>4, <3>5 DEF Agrees
  <2>7. Chain(todo'[p], Idle, Idle) /\ \A q \in Proc \ {p} : todo'[q] = todo[q]
    BY <1>1, <1>2, <2>1, TailChain DEF IInv, Types
  <2>8. Follows(p)' /\ todo' \in [Proc -> Seq(Steps \cup Dying)]
    BY <1>2, <1>1, <2>1, <2>6, <2>7, ChainFollows, TodoTyped DEF IInv
  <2> QED BY <1>3, <1>4, <2>1, <2>2, <2>5, <2>7, <2>8, MoveKeeps
<1>6. CASE holds[p]["file"] # None
  <2>1. Instead(p, UnlockPut("ip")) /\ UNCHANGED <<locked, holds>>
    BY <1>6 DEF OpenFile
  <2>2. Chain(todo'[p], a, Idle) /\ \A q \in Proc \ {p} : todo'[q] = todo[q]
    BY <1>2, <2>1, UnlockPutIp, InsteadChain DEF IInv, Types
  <2>3. Agrees(p, a)'
    BY <1>1, <1>4, <2>1, SameAgrees
  <2>4. Follows(p)' /\ todo' \in [Proc -> Seq(Steps \cup Dying)]
    BY <2>1, <2>2, <2>3, ChainFollows, TodoTyped DEF IInv
  <2> QED BY <1>4, <2>1, <2>2, <2>4, OnlyTodo DEF IInv, Types, icache
<1> QED BY <1>5, <1>6

\* The end of chdir() keeps the invariant.
LEMMA ChangeDirKeeps ==
  ASSUME IInv, NEW p \in Proc, ChangeDir(p)
  PROVE  IInv'
<1>0. Now(p).f = "chdir" /\ todo[p] # <<>>
  BY DoingNow DEF ChangeDir
<1>1. PICK a \in State, b \in State :
        /\ Agrees(p, a) /\ Now(p) \in Steps /\ Does(Now(p), a, b) /\ Chain(Tail(todo[p]), b, Idle)
  BY <1>0, NowDoes DEF IInv
<1>2. Now(p).x = "ip" /\ a = St({"ip"}, {"ip"}, {}, ".") /\ b = Idle
  BY <1>0, <1>1, DoesOpen
<1>3. /\ holds[p]["ip"] \in Inum /\ locked[holds[p]["ip"]] = p
      /\ holds[p]["dp"] = None /\ holds[p]["next"] = None /\ holds[p]["cwd"] # None
      /\ \A i \in Inum : locked[i] = p => i = holds[p]["ip"]
      /\ writer # p
  BY <1>1, <1>2, OnlyIp
<1>4. UNCHANGED <<ondisk, ref, valid, inode, writer>>
  BY DEF ChangeDir
<1>5. CASE inode[At(p)].type = "dir"
  <2>1. /\ IUnlock(holds[p]["ip"]) /\ Then(p, Put("ip"))
        /\ holds' = [holds EXCEPT ![p]["cwd"] = holds[p]["ip"], ![p]["ip"] = holds[p]["cwd"]]
    BY <1>2, <1>5 DEF ChangeDir, At
  <2>2. holds' = TwoSlots(holds, p, "cwd", "ip", holds[p]["ip"], holds[p]["cwd"])
    BY <2>1 DEF TwoSlots
  <2>3. \A z \in Refs \ {"cwd", "ip"} : holds'[p][z] = holds[p][z]
    BY <2>1 DEF IInv, Types
  <2>4. holds'[p]["ip"] = holds[p]["cwd"] /\ holds'[p]["cwd"] = holds[p]["ip"]
    BY <2>1 DEF IInv, Types, Refs
  <2>5. {"dp", "next", "file"} \subseteq Refs \ {"cwd", "ip"} /\ "cwd" \in Refs /\ "ip" \in Refs
    BY DEF Refs
  <2>. DEFINE c == St({"ip"}, {}, {}, ".")
  <2>6. c \in State /\ c.held = {"ip"} /\ c.locks = {} /\ c.facts = {} /\ c.name = "."
    BY KnownStates DEF St
  <2>7. Chain(Put("ip"), c, Idle)
    BY PutIp
  <2>. HIDE DEF c
  <2>8. Agrees(p, c)'
    <3>1. HoldsAgree(p, c)'
      <4>1. holds[p]["ip"] # None
        BY <1>3, InodeAssumption
      <4> QED BY <4>1, <2>3, <2>4, <2>5, <2>6, <1>3 DEF HoldsAgree
    <3>2. \A i \in Inum : locked'[i] # p
      BY <2>1, <1>3, InodeAssumption DEF IUnlock, IInv, Types
    <3>3. LocksAgree(p, c)'
      BY <3>2, <2>6 DEF LocksAgree
    <3>4. FactsAgree(p, c)'
      BY <1>3, <1>4, <2>6 DEF FactsAgree
    <3> QED BY <3>1, <3>3, <3>4 DEF Agrees
  <2>9. Chain(todo'[p], c, Idle) /\ \A q \in Proc \ {p} : todo'[q] = todo[q]
    BY <1>1, <1>2, <2>1, <2>7, ThenChain DEF IInv, Types
  <2>10. Follows(p)' /\ todo' \in [Proc -> Seq(Steps \cup Dying)]
    BY <2>1, <2>6, <2>8, <2>9, ChainFollows, TodoTyped DEF IInv
  <2> QED BY <1>3, <1>4, <2>1, <2>2, <2>5, <2>9, <2>10, MoveKeeps
<1>6. CASE inode[At(p)].type # "dir"
  <2>1. Then(p, UnlockPut("ip")) /\ UNCHANGED <<locked, holds>>
    BY <1>6 DEF ChangeDir
  <2>2. Chain(todo'[p], a, Idle) /\ \A q \in Proc \ {p} : todo'[q] = todo[q]
    BY <1>1, <1>2, <2>1, UnlockPutIp, ThenChain DEF IInv, Types
  <2>3. Agrees(p, a)'
    BY <1>1, <1>4, <2>1, SameAgrees
  <2>4. Follows(p)' /\ todo' \in [Proc -> Seq(Steps \cup Dying)]
    BY <2>1, <2>2, <2>3, ChainFollows, TodoTyped DEF IInv
  <2> QED BY <1>4, <2>1, <2>2, <2>4, OnlyTodo DEF IInv, Types, icache
<1> QED BY <1>5, <1>6

\* create() of an inode that existed keeps the invariant.
LEMMA CreatedOldKeeps ==
  ASSUME IInv, NEW p \in Proc, CreatedOld(p)
  PROVE  IInv'
<1>0. Now(p).f = "created" /\ todo[p] # <<>>
  BY DoingNow DEF CreatedOld
<1>1. PICK a \in State, b \in State :
        /\ Agrees(p, a) /\ Now(p) \in Steps /\ Does(Now(p), a, b) /\ Chain(Tail(todo[p]), b, Idle)
  BY <1>0, NowDoes DEF IInv
<1>2. a = St({"ip"}, {"ip"}, {"trans"}, ".") /\ b = Idle
  BY <1>0, <1>1, DoesCreated
<1>3. PICK new : /\ new = IF Now(p).type = "file" /\ inode[At(p)].type = "file" THEN Created("file")
                          ELSE UnlockPut("ip") \o Commit
                 /\ Then(p, new) /\ UNCHANGED <<ondisk, icache, writer, holds>>
  BY DEF CreatedOld
<1>4. Chain(new, a, b)
  BY <1>2, <1>3, CreatedChain, UnlockPutIpCommit
<1>5. Chain(todo'[p], a, Idle) /\ \A q \in Proc \ {p} : todo'[q] = todo[q]
  BY <1>1, <1>3, <1>4, ThenChain DEF IInv, Types
<1>6. Agrees(p, a)'
  BY <1>1, <1>3, SameAgrees DEF icache
<1>7. Follows(p)' /\ todo' \in [Proc -> Seq(Steps \cup Dying)]
  BY <1>3, <1>5, <1>6, ChainFollows, TodoTyped DEF IInv
<1> QED BY <1>3, <1>5, <1>7, OnlyTodo DEF IInv, Types
-----------------------------------------------------------------------------
(* Names that are looked up in dp *)

\* The last element of a path is a name, "." or "..".
LEMMA LastNameIs ==
  ASSUME NEW path \in Path
  PROVE  LastName(path) \in Elem
<1>1. path.elems \in Seq(Elem)
  BY CallsAssumption DEF Elem
<1>2. CASE path.elems = <<>>
  BY <1>2 DEF LastName, Elem
<1>3. CASE path.elems # <<>>
  <2>1. Len(path.elems) \in 1..Len(path.elems)
    BY <1>1, <1>3
  <2>2. path.elems[Len(path.elems)] \in Elem
    BY <1>1, <2>1
  <2> QED BY <1>3, <2>2 DEF LastName
<1> QED BY <1>2, <1>3

\* a process that holds and has locked dp, a directory, alone
LEMMA OnlyDp ==
  ASSUME IInv, NEW p \in Proc, NEW a, a = St({"dp"}, {"dp"}, {"trans", "dir"}, "."), Agrees(p, a)
  PROVE  /\ a \in State /\ a.held = {"dp"} /\ a.locks = {"dp"} /\ a.facts = {"trans", "dir"} /\ a.name = "."
         /\ holds[p]["dp"] \in Inum /\ locked[holds[p]["dp"]] = p
         /\ holds[p]["ip"] = None /\ holds[p]["next"] = None /\ holds[p]["cwd"] # None
         /\ \A i \in Inum : locked[i] = p => i = holds[p]["dp"]
         /\ writer = p /\ dinode[holds[p]["dp"]].type = "dir"
<1>1. a \in State /\ a.held = {"dp"} /\ a.locks = {"dp"} /\ a.facts = {"trans", "dir"} /\ a.name = "."
  BY StInState DEF Slots, Facts
<1>2. holds[p]["dp"] \in Inum
  BY <1>1, HeldSlot DEF IInv, Agrees
<1> QED BY <1>1, <1>2 DEF Agrees, HoldsAgree, LocksAgree, FactsAgree

\* create() of a name that exists keeps the invariant.
LEMMA CreateOldKeeps ==
  ASSUME IInv, NEW p \in Proc, CreateOld(p), ~Stray(p)
  PROVE  IInv'
<1>0. Now(p).f = "create" /\ todo[p] # <<>> /\ Doing(p, "create")
  BY DoingNow DEF CreateOld
<1>1. PICK a \in State, b \in State :
        /\ Agrees(p, a) /\ Now(p) \in Steps /\ Does(Now(p), a, b) /\ Chain(Tail(todo[p]), b, Idle)
  BY <1>0, NowDoes DEF IInv
<1>2. a = St({"dp"}, {"dp"}, {"trans", "dir"}, ".") /\ b = Idle
  BY <1>0, <1>1, DoesCreate
<1>3. Now(p).x = "dp" /\ Now(p).path \in Path /\ Now(p).type \in {"file", "dir"}
  BY <1>0, <1>1, StepHas
<1>4. PICK n, type, d : n = LastName(Now(p).path) /\ type = Now(p).type /\ d = At(p)
  OBVIOUS
<1>5. n \in Elem /\ type \in {"file", "dir"} /\ d = holds[p]["dp"] /\ d \in Inum
  BY <1>1, <1>2, <1>3, <1>4, LastNameIs, OnlyDp DEF At
<1>6. PICK i : i = DirLookup(d, n)
  OBVIOUS
<1>7. /\ i # None /\ IGet(i) /\ Hold(p, "ip", i)
      /\ Then(p, UnlockPut("dp") \o Lock("ip") \o <<[f |-> "created", x |-> "ip", type |-> type]>>)
      /\ UNCHANGED <<ondisk, locked, valid, inode, writer>>
  BY <1>4, <1>6 DEF CreateOld
<1>8. Reachable(p, i)
  <2>1. ASSUME n = ".."
        PROVE  /\ dinode[entries[d][n]].type # "none"
               /\ \A q \in Proc : Doing(q, "ifree") => At(q) # entries[d][n]
    <3>1. LastName(Now(p).path) = ".." /\ entries[At(p)][".."] # None
      BY <2>1, <1>4, <1>6, <1>7 DEF DirLookup
    <3> QED BY <2>1, <3>1, <1>0, <1>4 DEF Stray
  <2>2. "dp" \in Refs
    BY DEF Refs
  <2> QED BY <2>1, <2>2, <1>5, <1>6, <1>7, LookupIsReachable
<1>9. PICK c \in State : /\ c = St({"ip", "dp"}, {"dp"}, {"trans", "dir"}, ".") /\ c.held = {"ip", "dp"}
                         /\ c.locks = {"dp"} /\ c.facts = {"trans", "dir"} /\ c.name = "."
  BY StInState DEF Slots, Facts
<1>10. Agrees(p, c)'
  <2>1. i \in Inum /\ "ip" \notin a.held /\ c.held = a.held \cup {"ip"} /\ c.locks = a.locks /\ c.facts = a.facts
    <3>1. a.held = {"dp"} /\ a.locks = {"dp"} /\ a.facts = {"trans", "dir"}
      BY <1>1, <1>2, OnlyDp
    <3>2. {"ip", "dp"} = {"dp"} \cup {"ip"} /\ "ip" \notin {"dp"}
      OBVIOUS
    <3> QED BY <3>1, <3>2, <1>8, <1>9 DEF Reachable
  <2> QED BY <2>1, <1>1, <1>7, <1>9, GetAgrees
<1>11. Chain(todo'[p], c, Idle) /\ \A q \in Proc \ {p} : todo'[q] = todo[q]
  <2>1. Chain(UnlockPut("dp") \o Lock("ip") \o <<[f |-> "created", x |-> "ip", type |-> type]>>, c, Idle)
    BY <1>5, <1>9, CreateOldChain
  <2> QED BY <2>1, <1>1, <1>2, <1>7, ThenChain DEF IInv, Types
<1>12. Follows(p)' /\ todo' \in [Proc -> Seq(Steps \cup Dying)]
  BY <1>7, <1>10, <1>11, ChainFollows, TodoTyped DEF IInv
<1>13. CacheInv' /\ valid' \subseteq Inum /\ inode' \in [Inum -> Inode]
  BY <1>7 DEF IInv, CacheInv, Types, ondisk
<1>14. holds[p]["ip"] = None
  BY <1>1, <1>2, OnlyDp
<1> QED BY <1>7, <1>8, <1>11, <1>12, <1>13, <1>14, GetKeeps

\* The lookup of sys_unlink() keeps the invariant.
LEMMA UnlinkLookupKeeps ==
  ASSUME IInv, NEW p \in Proc, UnlinkLookup(p)
  PROVE  IInv'
<1>0. Now(p).f = "dirlookup" /\ todo[p] # <<>>
  BY DoingNow DEF UnlinkLookup
<1>1. PICK a \in State, b \in State :
        /\ Agrees(p, a) /\ Now(p) \in Steps /\ Does(Now(p), a, b) /\ Chain(Tail(todo[p]), b, Idle)
  BY <1>0, NowDoes DEF IInv
<1>2. Now(p).x = "dp" /\ a = St({"dp"}, {"dp"}, {"trans", "dir"}, ".") /\ b = Idle
  BY <1>0, <1>1, DoesDirLookup
<1>3. PICK path, n, d, i : path = Now(p).path /\ n = LastName(path) /\ d = At(p) /\ i = DirLookup(d, n)
  OBVIOUS
<1>4. path \in Path /\ n \in Elem /\ d = holds[p]["dp"] /\ d \in Inum
  <2>1. path \in Path
    BY <1>0, <1>1, <1>3, StepHas
  <2> QED BY <2>1, <1>1, <1>2, <1>3, LastNameIs, OnlyDp DEF At
<1>5. UNCHANGED <<ondisk, locked, valid, inode, writer>>
  BY DEF UnlinkLookup
<1>6. CASE n \in {".", ".."} \/ i = None
  <2>1. Then(p, UnlinkBad) /\ UNCHANGED <<ref, holds>>
    BY <1>3, <1>6 DEF UnlinkLookup
  <2>2. Chain(todo'[p], a, Idle) /\ \A q \in Proc \ {p} : todo'[q] = todo[q]
    BY <1>1, <1>2, <2>1, UnlinkBadEnds, ThenChain DEF IInv, Types
  <2>3. Agrees(p, a)'
    BY <1>1, <1>5, <2>1, SameAgrees
  <2>4. Follows(p)' /\ todo' \in [Proc -> Seq(Steps \cup Dying)]
    BY <2>1, <2>2, <2>3, ChainFollows, TodoTyped DEF IInv
  <2> QED BY <1>5, <2>1, <2>2, <2>4, OnlyTodo DEF IInv, Types, icache
<1>7. CASE ~(n \in {".", ".."} \/ i = None)
  <2>1. /\ IGet(i) /\ Hold(p, "ip", i)
        /\ Then(p, Lock("ip") \o <<On("unlink", "dp", path)>>)
    BY <1>3, <1>7 DEF UnlinkLookup
  <2>2. n \in Name /\ i = entries[d][n] /\ i # None
    BY <1>3, <1>4, <1>7 DEF Elem, DirLookup
  <2>3. Reachable(p, i)
    BY <1>4, <2>2, NamedIsReachable
  <2>4. PICK c \in State : /\ c = St({"ip", "dp"}, {"dp"}, {"trans", "dir"}, n) /\ c.held = {"ip", "dp"}
                           /\ c.locks = {"dp"} /\ c.facts = {"trans", "dir"} /\ c.name = n
    BY <2>2, StInState DEF Slots, Facts
  <2>5. Agrees(p, c)'
    <3>1. /\ i \in Inum /\ "ip" \notin a.held /\ c.held = a.held \cup {"ip"} /\ c.locks = a.locks
          /\ c.facts = a.facts /\ "dp" \in a.locks /\ entries[holds[p]["dp"]][c.name] = i
      <4>1. a.held = {"dp"} /\ a.locks = {"dp"} /\ a.facts = {"trans", "dir"}
        BY <1>1, <1>2, OnlyDp
      <4>2. {"ip", "dp"} = {"dp"} \cup {"ip"} /\ "ip" \notin {"dp"} /\ "dp" \in {"dp"}
        OBVIOUS
      <4> QED BY <4>1, <4>2, <1>4, <2>2, <2>3, <2>4 DEF Reachable
    <3> QED BY <3>1, <1>1, <1>5, <2>1, <2>4, GetAgrees
  <2>6. Chain(todo'[p], c, Idle) /\ \A q \in Proc \ {p} : todo'[q] = todo[q]
    <3>1. Chain(Lock("ip") \o <<On("unlink", "dp", path)>>, c, Idle)
      BY <1>3, <1>4, <2>2, <2>4, UnlinkFoundChain
    <3> QED BY <3>1, <1>1, <1>2, <2>1, ThenChain DEF IInv, Types
  <2>7. Follows(p)' /\ todo' \in [Proc -> Seq(Steps \cup Dying)]
    BY <2>1, <2>5, <2>6, ChainFollows, TodoTyped DEF IInv
  <2>8. CacheInv' /\ valid' \subseteq Inum /\ inode' \in [Inum -> Inode]
    BY <1>5 DEF IInv, CacheInv, Types, ondisk
  <2>9. holds[p]["ip"] = None
    BY <1>1, <1>2, OnlyDp
  <2> QED BY <1>5, <2>1, <2>3, <2>6, <2>7, <2>8, <2>9, GetKeeps
<1> QED BY <1>6, <1>7
-----------------------------------------------------------------------------
(* Steps that write to the disk *)

\* Changed(f, Only(i, v)) is an update of f at i.
LEMMA OnlyIs ==
  ASSUME NEW i \in Inum, NEW f \in [Inum -> Inode], NEW v
  PROVE  Changed(f, Only(i, v)) = [f EXCEPT ![i] = v]
  BY DEF Changed, Only

\* iupdate() of one inode.
LEMMA UpdateIs ==
  ASSUME Types, NEW i \in Inum, NEW v, IUpdate(Only(i, v))
  PROVE  dinode' = [dinode EXCEPT ![i] = v] /\ inode' = [inode EXCEPT ![i] = v]
<1>1. dinode \in [Inum -> Inode] /\ inode \in [Inum -> Inode]
  BY DEF Types
<1> QED BY <1>1, OnlyIs DEF IUpdate

\* iupdate() of an inode that is locked
LEMMA UpdateOne ==
  ASSUME IInv, NEW i \in Inum, locked[i] # NoProc, NEW v \in Inode, IUpdate(Only(i, v))
  PROVE  /\ inode[i] = dinode[i] /\ dinode' = [dinode EXCEPT ![i] = v]
         /\ dinode' \in [Inum -> Inode] /\ inode' \in [Inum -> Inode]
         /\ \A j \in valid : inode'[j] = dinode'[j]
<1>1. i \in valid /\ \A j \in valid : inode[j] = dinode[j]
  BY DEF IInv, CacheInv
<1>2. dinode \in [Inum -> Inode] /\ inode \in [Inum -> Inode]
  BY DEF IInv, Types
<1>3. dinode' = [dinode EXCEPT ![i] = v] /\ inode' = [inode EXCEPT ![i] = v]
  BY <1>2, OnlyIs DEF IUpdate
<1>4. \A j \in valid : j \in Inum
  BY DEF IInv, Types
<1> QED BY <1>1, <1>2, <1>3, <1>4

\* A step of the writer that changes the disk, and its own locks only, keeps the
\* invariant.
LEMMA WriteKeeps ==
  ASSUME IInv, ~Trespass, NEW p \in Proc, Writes(p), UNCHANGED <<ref, valid, writer, holds>>,
         locked' \in [Inum -> Proc \cup {NoProc}],
         \A j \in Inum : locked'[j] = locked[j] \/ (locked[j] = p /\ locked'[j] = NoProc),
         dinode' \in [Inum -> Inode], inode' \in [Inum -> Inode],
         entries' \in [Inum -> [Name \cup {".."} -> Inum \cup {None}]], bitmap' \subseteq Block,
         \A j \in Inum : dinode'[j].type = dinode[j].type,
         \A j \in Inum : locked[j] # p => entries'[j] = entries[j],
         \A j \in valid : inode'[j] = dinode'[j], DiskInv',
         todo' \in [Proc -> Seq(Steps \cup Dying)], \A q \in Proc \ {p} : todo'[q] = todo[q], Follows(p)'
  PROVE  IInv'
<1>1. writer = p /\ \A q \in Proc \ {p} : writer # q /\ ~Doing(q, "ifree")
  BY WritesAlone
<1>2. Types'
  BY DEF IInv, Types
<1>3. RefsExact'
  BY RefsSame DEF IInv
<1>4. CacheInv'
  BY DEF IInv, CacheInv
<1>5. \A q \in Proc, x \in Refs : holds[q][x] # None => holds[q][x] \in Inum
  BY DEF IInv, Types
<1>6. HeldInv'
  BY <1>5, SMTT(60) DEF IInv, HeldInv
<1>7. ASSUME NEW q \in Proc \ {p} PROVE Leaves(q)
  <2>1. \A j \in Inum : locked'[j] = q <=> locked[j] = q
    BY InodeAssumption
  <2>2. \A j \in Inum : locked[j] = q => entries'[j] = entries[j]
    OBVIOUS
  <2>3. \A x \in Refs : holds[q][x] # None => dinode'[holds[q][x]].type = dinode[holds[q][x]].type
    BY <1>5
  <2> QED BY <2>1, <2>2, <2>3, <1>1 DEF Leaves
<1> QED BY <1>2, <1>3, <1>4, <1>6, <1>7, Keeps

\* another number of links on the disk
LEMMA NlinkDisk ==
  ASSUME Types, DiskInv, NEW i \in Inum, dinode[i].type # "none", NEW k \in Nat, Links(i) <= k,
         dinode' = [dinode EXCEPT ![i] = [dinode[i] EXCEPT !.nlink = k]], UNCHANGED <<entries, bitmap>>
  PROVE  /\ DiskInv' /\ \A j \in Inum : Links(j)' = Links(j)
         /\ \A j \in Inum : dinode'[j].type = dinode[j].type
         /\ \A j \in Inum : dinode'[j].nlink = IF j = i THEN k ELSE dinode[j].nlink
<1>1. /\ \A j \in Inum : dinode'[j].type = dinode[j].type /\ dinode'[j].addrs = dinode[j].addrs
      /\ \A j \in Inum : dinode'[j].nlink = IF j = i THEN k ELSE dinode[j].nlink
      /\ \A j \in Inum : j # i => dinode'[j] = dinode[j]
  BY DEF Types, Inode
<1>2. \A d \in Inum, n \in Name \cup {".."} : entries[d][n] \in Inum \cup {None} /\ entries'[d][n] = entries[d][n]
  BY DEF Types
<1>3. \A d \in Inum, n \in Name : IsDir(entries[d][n])' <=> IsDir(entries[d][n])
  BY <1>1, <1>2 DEF IsDir
<1>4. \A j \in Inum : Links(j)' = Links(j)
  BY <1>2, <1>3, SameLinks
<1>5. FreeInv'
  BY <1>1 DEF DiskInv, FreeInv
<1>6. TreeInv'
  BY <1>1, <1>2, <1>3 DEF DiskInv, TreeInv
<1>7. BlockInv'
  BY <1>1 DEF DiskInv, BlockInv
<1>8. LinksInv'
  BY <1>1, <1>4 DEF DiskInv, LinksInv
<1> QED BY <1>1, <1>4, <1>5, <1>6, <1>7, <1>8 DEF DiskInv

\* ip->nlink-- keeps the invariant.
LEMMA DecLinkKeeps ==
  ASSUME IInv, ~Trespass, NEW p \in Proc, DecLink(p)
  PROVE  IInv'
<1>0. Now(p).f = "nlink--" /\ todo[p] # <<>> /\ Writes(p)
  BY DoingNow DEF DecLink, Writes
<1>1. PICK a \in State, b \in State :
        /\ Agrees(p, a) /\ Now(p) \in Steps /\ Does(Now(p), a, b) /\ Chain(Tail(todo[p]), b, Idle)
  BY <1>0, NowDoes DEF IInv
<1>2. /\ Now(p).x = "ip" /\ "ip" \in a.locks /\ "ip" \in a.held
      /\ "surplus" \in a.facts /\ "trans" \in a.facts
      /\ b = St(a.held, a.locks, a.facts \ {"surplus", "file"}, a.name)
  BY <1>0, <1>1, DoesDecLink
<1>3. b.held = a.held /\ b.locks = a.locks /\ b.facts = a.facts \ {"surplus", "file"} /\ b.name = a.name
  BY <1>2 DEF St
<1>4. PICK i : i = At(p)
  OBVIOUS
<1>5. i \in Inum /\ i = holds[p]["ip"] /\ locked[i] = p /\ dinode[i].type # "none" /\ Links(i) + 1 <= dinode[i].nlink
  <2>1. i = holds[p]["ip"] /\ "ip" \in Refs
    BY <1>2, <1>4 DEF At, Refs
  <2>2. i \in Inum /\ i # None
    BY <2>1, <1>1, <1>2, HeldSlot DEF IInv, Agrees
  <2> QED BY <2>1, <2>2, <1>1, <1>2 DEF Agrees, LocksAgree, FactsAgree, IInv, HeldInv
<1>6. Then(p, <<>>) /\ IUpdate(Only(i, [inode[i] EXCEPT !.nlink = @ - 1]))
      /\ UNCHANGED <<entries, bitmap, ref, locked, valid, writer, holds>>
  BY <1>4 DEF DecLink
<1>7. dinode[i] \in Inode /\ inode[i] = dinode[i] /\ Types
  BY <1>5, InodeAssumption DEF IInv, Types, CacheInv
<1>8. PICK k : k = dinode[i].nlink - 1
  OBVIOUS
<1>9. k \in Nat /\ Links(i) <= k
  <2>1. dinode[i].nlink \in Nat /\ Links(i) \in Nat
    BY <1>5, <1>7, LinksNat DEF Inode
  <2> QED BY <2>1, <1>5, <1>8
<1>10. PICK v : v = [dinode[i] EXCEPT !.nlink = k]
  OBVIOUS
<1>11. v \in Inode /\ IUpdate(Only(i, v))
  BY <1>6, <1>7, <1>8, <1>9, <1>10 DEF Inode
<1>12. /\ dinode' = [dinode EXCEPT ![i] = v] /\ dinode' \in [Inum -> Inode] /\ inode' \in [Inum -> Inode]
       /\ \A j \in valid : inode'[j] = dinode'[j]
  BY <1>5, <1>11, UpdateOne, InodeAssumption
<1>13. DiskInv' /\ \A j \in Inum : dinode'[j].type = dinode[j].type
  BY <1>5, <1>6, <1>7, <1>9, <1>10, <1>12, NlinkDisk DEF IInv
<1>14. Agrees(p, b)'
  <2>1. HoldsAgree(p, b)' /\ LocksAgree(p, b)'
    BY <1>1, <1>3, <1>6 DEF Agrees, HoldsAgree, LocksAgree
  <2>2. FactsAgree(p, a) /\ ("dp" \in a.held => holds[p]["dp"] \in Inum)
    BY <1>1, HeldSlot DEF IInv, Agrees
  <2>3. FactsAgree(p, b)'
    BY <2>2, <1>3, <1>6, <1>13 DEF FactsAgree
  <2> QED BY <2>1, <2>3 DEF Agrees
<1>15. Chain(todo'[p], b, Idle) /\ \A q \in Proc \ {p} : todo'[q] = todo[q]
  BY <1>1, <1>6, TailChain DEF IInv, Types
<1>16. Follows(p)' /\ todo' \in [Proc -> Seq(Steps \cup Dying)]
  BY <1>6, <1>14, <1>15, ChainFollows, TodoTyped DEF IInv
<1>17. /\ locked' \in [Inum -> Proc \cup {NoProc}] /\ bitmap' \subseteq Block
       /\ entries' \in [Inum -> [Name \cup {".."} -> Inum \cup {None}]]
  BY <1>6, <1>7 DEF Types
<1> QED BY <1>0, <1>6, <1>12, <1>13, <1>15, <1>16, <1>17, WriteKeeps

\* ip->nlink++ of sys_link() keeps the invariant.
LEMMA IncLinkKeeps ==
  ASSUME IInv, ~Trespass, NEW p \in Proc, IncLink(p)
  PROVE  IInv'
<1>0. Now(p).f = "link" /\ todo[p] # <<>> /\ Writes(p)
  BY DoingNow DEF IncLink, Writes
<1>1. PICK a \in State, b \in State :
        /\ Agrees(p, a) /\ Now(p) \in Steps /\ Does(Now(p), a, b) /\ Chain(Tail(todo[p]), b, Idle)
  BY <1>0, NowDoes DEF IInv
<1>2. Now(p).x = "ip" /\ a = St({"ip"}, {"ip"}, {"trans"}, ".") /\ b = Idle
  BY <1>0, <1>1, DoesIncLink
<1>3. PICK i, path : i = At(p) /\ path = Now(p).path
  OBVIOUS
<1>4. /\ i = holds[p]["ip"] /\ i \in Inum /\ locked[i] = p /\ holds[p]["dp"] = None /\ holds[p]["next"] = None
      /\ holds[p]["cwd"] # None /\ \A j \in Inum : locked[j] = p => j = i
      /\ writer = p
  BY <1>1, <1>2, <1>3, OnlyIp DEF At, Facts
<1>5. path \in Path
  BY <1>0, <1>1, <1>3, StepHas
<1>6. dinode[i] \in Inode /\ inode[i] = dinode[i] /\ dinode[i].type # "none" /\ Types
  <2>1. i # None /\ "ip" \in Refs
    BY <1>4, InodeAssumption DEF Refs
  <2> QED BY <2>1, <1>4, InodeAssumption DEF IInv, Types, CacheInv, HeldInv
<1>7. UNCHANGED <<entries, bitmap, ref, valid, writer, holds>>
  BY DEF IncLink
<1>8. CASE inode[i].type = "dir"
  <2>1. Then(p, UnlockPut("ip") \o Commit) /\ UNCHANGED <<dinode, inode, locked>>
    BY <1>3, <1>8 DEF IncLink
  <2>2. Chain(todo'[p], a, Idle) /\ \A q \in Proc \ {p} : todo'[q] = todo[q]
    BY <1>1, <1>2, <2>1, UnlockPutIpCommit, ThenChain DEF IInv, Types
  <2>3. Agrees(p, a)'
    BY <1>1, <1>7, <2>1, SameAgrees DEF ondisk
  <2>4. Follows(p)' /\ todo' \in [Proc -> Seq(Steps \cup Dying)]
    BY <2>1, <2>2, <2>3, ChainFollows, TodoTyped DEF IInv
  <2> QED BY <1>7, <2>1, <2>2, <2>4, OnlyTodo DEF IInv, Types, icache, ondisk
<1>9. CASE inode[i].type # "dir"
  <2>. DEFINE new == Namei("dp", path, LinkBad) \o Lock("dp") \o <<On("dirlink", "dp", path)>>
  <2>1. IUpdate(Only(i, [inode[i] EXCEPT !.nlink = @ + 1])) /\ IUnlock(i) /\ Then(p, new)
    BY <1>3, <1>9 DEF IncLink
  <2>2. PICK k : k = dinode[i].nlink + 1
    OBVIOUS
  <2>3. k \in Nat /\ Links(i) + 1 <= k /\ Links(i) <= k
    <3>1. dinode[i].nlink \in Nat /\ Links(i) \in Nat /\ Links(i) <= dinode[i].nlink
      BY <1>4, <1>6, LinksNat DEF Inode, IInv, DiskInv, LinksInv
    <3> QED BY <3>1, <2>2
  <2>4. PICK v : v = [dinode[i] EXCEPT !.nlink = k]
    OBVIOUS
  <2>5. v \in Inode /\ IUpdate(Only(i, v))
    BY <1>6, <2>1, <2>2, <2>3, <2>4 DEF Inode
  <2>6. /\ dinode' = [dinode EXCEPT ![i] = v] /\ dinode' \in [Inum -> Inode] /\ inode' \in [Inum -> Inode]
        /\ \A j \in valid : inode'[j] = dinode'[j]
    BY <1>4, <2>5, UpdateOne, InodeAssumption
  <2>7. /\ DiskInv' /\ \A j \in Inum : dinode'[j].type = dinode[j].type
        /\ Links(i)' = Links(i) /\ dinode'[i].nlink = k
    <3>1. DiskInv /\ UNCHANGED <<entries, bitmap>>
          /\ dinode' = [dinode EXCEPT ![i] = [dinode[i] EXCEPT !.nlink = k]]
      BY <1>7, <2>4, <2>6 DEF IInv
    <3>2. /\ DiskInv' /\ \A j \in Inum : Links(j)' = Links(j)
          /\ \A j \in Inum : dinode'[j].type = dinode[j].type
          /\ \A j \in Inum : dinode'[j].nlink = IF j = i THEN k ELSE dinode[j].nlink
      BY <3>1, <1>4, <1>6, <2>3, NlinkDisk
    <3> QED BY <3>2, <1>4
  <2>8. locked' = [locked EXCEPT ![i] = NoProc]
    BY <2>1 DEF IUnlock
  <2>9. \A j \in Inum : locked'[j] = IF j = i THEN NoProc ELSE locked[j]
    BY <2>8, <1>6 DEF Types
  <2>10. Agrees(p, Linking)'
    <3>1. /\ Linking.held = {"ip"} /\ Linking.locks = {} /\ Linking.facts = {"trans", "surplus", "file"}
          /\ Linking.name = "."
      BY DEF Linking, St
    <3>2. HoldsAgree(p, Linking)'
      <4>1. i # None
        BY <1>4, InodeAssumption
      <4> QED BY <4>1, <3>1, <1>4, <1>7 DEF HoldsAgree
    <3>3. LocksAgree(p, Linking)'
      <4>1. \A j \in Inum : locked'[j] # p
        BY <1>4, <2>9, InodeAssumption
      <4> QED BY <4>1, <3>1 DEF LocksAgree
    <3>4. FactsAgree(p, Linking)'
      <4>1. dinode'[holds'[p]["ip"]].type # "dir"
        BY <1>4, <1>6, <1>7, <1>9, <2>7
      <4>2. (Links(holds[p]["ip"]) + 1 <= dinode[holds[p]["ip"]].nlink)'
        <5>1. Links(holds[p]["ip"])' = Links(i)'
          BY <1>4, <1>7 DEF Links
        <5> QED BY <5>1, <1>4, <1>7, <2>3, <2>7
      <4> QED BY <4>1, <4>2, <3>1, <1>4, <1>7 DEF FactsAgree
    <3> QED BY <3>2, <3>3, <3>4 DEF Agrees
  <2>11. Chain(todo'[p], Linking, Idle) /\ \A q \in Proc \ {p} : todo'[q] = todo[q]
    <3>1. Chain(new, Linking, Idle)
      BY <1>5, LinkedChain
    <3>. HIDE DEF new
    <3> QED BY <3>1, <1>1, <1>2, <2>1, ThenChain DEF IInv, Types
  <2>. HIDE DEF new
  <2>12. Follows(p)' /\ todo' \in [Proc -> Seq(Steps \cup Dying)]
    BY <2>1, <2>10, <2>11, KnownStates, ChainFollows, TodoTyped DEF IInv
  <2>13. /\ locked' \in [Inum -> Proc \cup {NoProc}] /\ bitmap' \subseteq Block
         /\ entries' \in [Inum -> [Name \cup {".."} -> Inum \cup {None}]]
    BY <1>4, <1>6, <1>7, <2>8 DEF Types
  <2>14. \A j \in Inum : locked'[j] = locked[j] \/ (locked[j] = p /\ locked'[j] = NoProc)
    BY <1>4, <2>9
  <2> QED BY <1>0, <1>7, <2>6, <2>7, <2>11, <2>12, <2>13, <2>14, WriteKeeps
<1> QED BY <1>8, <1>9

\* a directory has "." and ".."
LEMMA AbsentIsName ==
  ASSUME IInv, NEW d \in Inum, dinode[d].type = "dir", NEW n \in Elem, DirLookup(d, n) = None
  PROVE  n \in Name /\ entries[d][n] = None
<1>1. d # None
  BY InodeAssumption
<1>2. n # "."
  BY <1>1 DEF DirLookup
<1>3. entries[d][n] = None
  BY <1>2 DEF DirLookup
<1>4. n # ".."
  BY <1>3 DEF IInv, DiskInv, TreeInv
<1> QED BY <1>2, <1>3, <1>4 DEF Elem

\* a name for a file that has a link for it
LEMMA NameDisk ==
  ASSUME Types, DiskInv, NEW d \in Inum, NEW n \in Name, entries[d][n] = None, dinode[d].type = "dir",
         NEW i \in Inum, dinode[i].type # "dir", Links(i) + 1 <= dinode[i].nlink,
         entries' = [entries EXCEPT ![d][n] = i], UNCHANGED <<dinode, bitmap>>
  PROVE  DiskInv' /\ entries' \in [Inum -> [Name \cup {".."} -> Inum \cup {None}]]
<1>1. /\ \A e \in Inum, m \in Name \cup {".."} : entries[e][m] \in Inum \cup {None}
      /\ \A e \in Inum, m \in Name \cup {".."} : <<e, m>> # <<d, n>> => entries'[e][m] = entries[e][m]
      /\ entries'[d][n] = i /\ \A e \in Inum : e # d => entries'[e] = entries[e]
      /\ entries' \in [Inum -> [Name \cup {".."} -> Inum \cup {None}]]
  <2>1. /\ entries \in [Inum -> [Name \cup {".."} -> Inum \cup {None}]]
        /\ entries' = [entries EXCEPT ![d] = [entries[d] EXCEPT ![n] = i]]
    BY DEF Types
  <2>2. /\ \A e \in Inum : entries'[e] = IF e = d THEN [entries[d] EXCEPT ![n] = i] ELSE entries[e]
        /\ entries[d] \in [Name \cup {".."} -> Inum \cup {None}]
    BY <2>1
  <2>3. ASSUME NEW m \in Name \cup {".."} PROVE entries'[d][m] = IF m = n THEN i ELSE entries[d][m]
    BY <2>2
  <2>4. entries' \in [Inum -> [Name \cup {".."} -> Inum \cup {None}]]
    BY <2>1, <2>2
  <2>5. \A e \in Inum, m \in Name \cup {".."} : entries[e][m] \in Inum \cup {None}
    BY <2>1
  <2> QED BY <2>2, <2>3, <2>4, <2>5
<1>2. i # None /\ i # d
  BY InodeAssumption
<1>3. ~IsDir(i) /\ ~IsDir(i)' /\ ~IsDir(None) /\ ~IsDir(None)'
  BY DEF IsDir
<1>4. ASSUME NEW e \in Inum, NEW m \in Name, IsDir(entries[e][m])'
      PROVE  IsDir(entries[e][m]) /\ entries'[e][m] = entries[e][m] /\ <<e, m>> # <<d, n>> /\ entries[e][m] \in Inum
  <2>1. entries'[e][m] # i
    BY <1>4 DEF IsDir
  <2>2. <<e, m>> # <<d, n>>
    BY <2>1, <1>1
  <2>3. entries'[e][m] = entries[e][m] /\ entries[e][m] \in Inum \cup {None}
    BY <2>2, <1>1
  <2> QED BY <2>2, <2>3, <1>4 DEF IsDir
<1>5. FreeInv' /\ BlockInv'
  BY DEF DiskInv, FreeInv, BlockInv
<1>6. TreeInv'
  <2>1. \A e \in Inum : dinode'[e].type # "dir" => entries'[e] = NoEntries
    BY <1>1 DEF DiskInv, TreeInv
  <2>2. ".." # n
    BY InodeAssumption
  <2>3. \A e \in Inum : entries'[e][".."] = entries[e][".."]
    BY <1>1, <2>2
  <2>4. \A e \in Inum : dinode'[e].type = "dir" => entries'[e][".."] # None
    BY <2>3 DEF DiskInv, TreeInv
  <2>5. \A e \in Inum, m \in Name : entries'[e][m] # e
    BY <1>1, <1>2 DEF DiskInv, TreeInv
  <2>6. ASSUME NEW e \in Inum, NEW m \in Name, IsDir(entries[e][m])'
        PROVE  /\ entries'[entries'[e][m]][".."] = e
               /\ \A l \in Name : entries'[e][l] = entries'[e][m] => l = m
    <3>1. IsDir(entries[e][m]) /\ entries'[e][m] = entries[e][m] /\ entries[e][m] \in Inum
      BY <2>6, <1>4
    <3>2. entries[entries[e][m]][".."] = e /\ \A l \in Name : entries[e][l] = entries[e][m] => l = m
      BY <3>1 DEF DiskInv, TreeInv
    <3>3. entries[e][m] # i
      BY <3>1 DEF IsDir
    <3>4. ASSUME NEW l \in Name, entries'[e][l] = entries[e][m] PROVE l = m
      <4>1. <<e, l>> # <<d, n>>
        BY <3>3, <3>4, <1>1
      <4>2. entries[e][l] = entries[e][m]
        BY <4>1, <3>4, <1>1
      <4> QED BY <4>2, <3>2
    <3> QED BY <2>3, <3>1, <3>2, <3>4
  <2> QED BY <2>1, <2>4, <2>5, <2>6 DEF TreeInv
<1>7. ASSUME NEW j \in Inum PROVE Links(j)' <= dinode'[j].nlink
  <2>1. SameBut(Inum, Name, entries, entries', d, n)
    BY <1>1 DEF SameBut
  <2>2. \A m \in Name : <<j, m>> # <<d, n>> => (IsDir(entries[j][m])' <=> IsDir(entries[j][m]))
    BY <1>1 DEF IsDir
  <2>3. Links(j)' = ((Links(j) - Is(entries[d][n], j)) + Is(entries'[d][n], j))
                     + (IF j = d THEN Kind(entries[d][n])' - Kind(entries[d][n]) ELSE 0)
    BY <2>1, <2>2, OneNameChanges
  <2>4. Kind(entries[d][n])' = 0 /\ Kind(entries[d][n]) = 0 /\ Is(entries[d][n], j) = 0
    <3>1. ~IsDir(entries[d][n])' /\ ~IsDir(entries[d][n])
      BY <1>1, <1>3 DEF IsDir
    <3>2. j # None
      BY InodeAssumption
    <3> QED BY <3>1, <3>2 DEF Kind, Is
  <2>5. Links(j) \in Nat /\ Links(j) <= dinode[j].nlink /\ dinode[j].nlink \in Nat
    BY LinksNat DEF DiskInv, LinksInv, Types, Inode
  <2>6. Links(j)' = Links(j) + Is(i, j)
    <3>1. entries'[d][n] = i
      BY <1>1
    <3> QED BY <3>1, <2>3, <2>4, <2>5 DEF Is
  <2> QED BY <2>5, <2>6 DEF Is
<1> QED BY <1>1, <1>5, <1>6, <1>7 DEF DiskInv, LinksInv

\* dirlink() of sys_link() keeps the invariant.
LEMMA DirLinkKeeps ==
  ASSUME IInv, ~Trespass, NEW p \in Proc, DirLink(p)
  PROVE  IInv'
<1>0. Now(p).f = "dirlink" /\ todo[p] # <<>> /\ Writes(p)
  BY DoingNow DEF DirLink, Writes
<1>1. PICK a \in State, b \in State :
        /\ Agrees(p, a) /\ Now(p) \in Steps /\ Does(Now(p), a, b) /\ Chain(Tail(todo[p]), b, Idle)
  BY <1>0, NowDoes DEF IInv
<1>2. Now(p).x = "dp" /\ a = St({"ip", "dp"}, {"dp"}, {"trans", "dir", "surplus", "file"}, ".") /\ b = Idle
  BY <1>0, <1>1, DoesDirLink
<1>3. /\ a.held = {"ip", "dp"} /\ a.locks = {"dp"} /\ a.facts = {"trans", "dir", "surplus", "file"}
      /\ a.name = "."
  BY <1>2 DEF St
<1>4. PICK d, i, n : d = At(p) /\ i = holds[p]["ip"] /\ n = LastName(Now(p).path)
  OBVIOUS
<1>5. /\ d = holds[p]["dp"] /\ d \in Inum /\ i \in Inum /\ locked[d] = p /\ n \in Elem
      /\ \A j \in Inum : locked[j] = p => j = d
      /\ dinode[d].type = "dir" /\ dinode[i].type # "dir" /\ Links(i) + 1 <= dinode[i].nlink
  <2>1. Now(p).path \in Path
    BY <1>0, <1>1, StepHas
  <2>2. d = holds[p]["dp"] /\ n \in Elem
    BY <1>2, <1>4, <2>1, LastNameIs DEF At
  <2>3. holds[p]["dp"] \in Inum /\ holds[p]["ip"] \in Inum
    BY <1>1, <1>3, HeldSlot DEF IInv, Agrees
  <2>4. locked[holds[p]["dp"]] = p /\ \A j \in Inum : locked[j] = p => j = holds[p]["dp"]
    BY <1>1, <1>3 DEF Agrees, LocksAgree
  <2>5. /\ dinode[holds[p]["dp"]].type = "dir" /\ dinode[holds[p]["ip"]].type # "dir"
        /\ Links(holds[p]["ip"]) + 1 <= dinode[holds[p]["ip"]].nlink
    BY <1>1, <1>3 DEF Agrees, FactsAgree
  <2> QED BY <2>2, <2>3, <2>4, <2>5, <1>4
<1>6. UNCHANGED <<dinode, bitmap, icache, writer, holds>>
  BY DEF DirLink
<1>7. CASE DirLookup(d, n) # None
  <2>1. Then(p, UnlockPut("dp") \o LinkBad) /\ UNCHANGED entries
    BY <1>4, <1>7 DEF DirLink
  <2>2. Chain(todo'[p], a, Idle) /\ \A q \in Proc \ {p} : todo'[q] = todo[q]
    BY <1>1, <1>2, <2>1, LinkExistsChain, ThenChain DEF IInv, Types
  <2>3. Agrees(p, a)'
    BY <1>1, <1>6, <2>1, SameAgrees DEF ondisk, icache
  <2>4. Follows(p)' /\ todo' \in [Proc -> Seq(Steps \cup Dying)]
    BY <2>1, <2>2, <2>3, ChainFollows, TodoTyped DEF IInv
  <2> QED BY <1>6, <2>1, <2>2, <2>4, OnlyTodo DEF IInv, Types, ondisk
<1>8. CASE DirLookup(d, n) = None
  <2>1. entries' = [entries EXCEPT ![d][n] = i] /\ Then(p, UnlockPut("dp") \o Put("ip") \o Commit)
    BY <1>4, <1>8 DEF DirLink
  <2>2. n \in Name /\ entries[d][n] = None
    BY <1>5, <1>8, AbsentIsName
  <2>3. DiskInv' /\ entries' \in [Inum -> [Name \cup {".."} -> Inum \cup {None}]]
    <3>1. UNCHANGED <<dinode, bitmap>> /\ Types /\ DiskInv
      BY <1>6 DEF IInv
    <3> QED BY <3>1, <1>5, <2>1, <2>2, NameDisk
  <2>4. PICK c \in State : /\ c = St({"ip", "dp"}, {"dp"}, {"trans", "dir", "file"}, ".") /\ c.held = {"ip", "dp"}
                           /\ c.locks = {"dp"} /\ c.facts = {"trans", "dir", "file"} /\ c.name = "."
    BY KnownStates DEF St
  <2>5. Agrees(p, c)'
    <3>1. HoldsAgree(p, c)' /\ LocksAgree(p, c)'
      BY <1>1, <1>3, <1>6, <2>4 DEF Agrees, HoldsAgree, LocksAgree, icache
    <3>2. FactsAgree(p, c)'
      BY <1>1, <1>3, <1>6, <2>4 DEF Agrees, FactsAgree
    <3> QED BY <3>1, <3>2 DEF Agrees
  <2>6. Chain(todo'[p], c, Idle) /\ \A q \in Proc \ {p} : todo'[q] = todo[q]
    BY <1>1, <1>2, <2>1, <2>4, LinkDoneChain, ThenChain DEF IInv, Types
  <2>7. Follows(p)' /\ todo' \in [Proc -> Seq(Steps \cup Dying)]
    BY <2>1, <2>5, <2>6, ChainFollows, TodoTyped DEF IInv
  <2>8. /\ locked' \in [Inum -> Proc \cup {NoProc}] /\ bitmap' \subseteq Block
        /\ dinode' \in [Inum -> Inode] /\ inode' \in [Inum -> Inode]
        /\ \A j \in Inum : locked[j] # p => entries'[j] = entries[j]
        /\ \A j \in valid : inode'[j] = dinode'[j]
        /\ UNCHANGED <<ref, valid, writer, holds, locked>>
        /\ \A j \in Inum : dinode'[j].type = dinode[j].type
    BY <1>5, <1>6, <2>1 DEF IInv, Types, CacheInv, icache
  <2> QED BY <1>0, <2>3, <2>6, <2>7, <2>8, WriteKeeps
<1> QED BY <1>7, <1>8

\* a name is taken away, and with it the link of ".."
LEMMA UnnameDisk ==
  ASSUME Types, DiskInv, NEW d \in Inum, NEW n \in Name, NEW i \in Inum, entries[d][n] = i,
         dinode[d].type = "dir", NEW k, k = dinode[d].nlink - Kind(i),
         dinode' = [dinode EXCEPT ![d] = [dinode[d] EXCEPT !.nlink = k]],
         entries' = [entries EXCEPT ![d][n] = None], UNCHANGED bitmap
  PROVE  /\ DiskInv' /\ k \in Nat /\ i # d
         /\ \A j \in Inum : dinode'[j].type = dinode[j].type
         /\ dinode'[i] = dinode[i] /\ Links(i)' + 1 <= dinode[i].nlink
         /\ entries' \in [Inum -> [Name \cup {".."} -> Inum \cup {None}]]
<1>1. /\ \A e \in Inum, m \in Name \cup {".."} : entries[e][m] \in Inum \cup {None}
      /\ \A e \in Inum, m \in Name \cup {".."} : <<e, m>> # <<d, n>> => entries'[e][m] = entries[e][m]
      /\ entries'[d][n] = None /\ \A e \in Inum : e # d => entries'[e] = entries[e]
      /\ entries' \in [Inum -> [Name \cup {".."} -> Inum \cup {None}]]
  <2>1. /\ entries \in [Inum -> [Name \cup {".."} -> Inum \cup {None}]]
        /\ entries' = [entries EXCEPT ![d] = [entries[d] EXCEPT ![n] = None]]
    BY DEF Types
  <2>2. /\ \A e \in Inum : entries'[e] = IF e = d THEN [entries[d] EXCEPT ![n] = None] ELSE entries[e]
        /\ entries[d] \in [Name \cup {".."} -> Inum \cup {None}]
    BY <2>1
  <2>3. ASSUME NEW m \in Name \cup {".."} PROVE entries'[d][m] = IF m = n THEN None ELSE entries[d][m]
    BY <2>2
  <2>4. entries' \in [Inum -> [Name \cup {".."} -> Inum \cup {None}]]
    BY <2>1, <2>2
  <2>5. \A e \in Inum, m \in Name \cup {".."} : entries[e][m] \in Inum \cup {None}
    BY <2>1
  <2> QED BY <2>2, <2>3, <2>4, <2>5
<1>2. i # d
  BY DEF DiskInv, TreeInv
<1>3. /\ \A j \in Inum : dinode'[j].type = dinode[j].type /\ dinode'[j].addrs = dinode[j].addrs
      /\ \A j \in Inum : dinode'[j].nlink = IF j = d THEN k ELSE dinode[j].nlink
      /\ \A j \in Inum : j # d => dinode'[j] = dinode[j]
  <2>1. dinode[d] \in Inode /\ dinode \in [Inum -> Inode]
    BY DEF Types
  <2> QED BY <2>1 DEF Inode
<1>4. \A e \in Inum, m \in Name : <<e, m>> # <<d, n>> => (IsDir(entries[e][m])' <=> IsDir(entries[e][m]))
  <2>1. ASSUME NEW e \in Inum, NEW m \in Name, <<e, m>> # <<d, n>>
        PROVE  IsDir(entries[e][m])' <=> IsDir(entries[e][m])
    <3>1. entries'[e][m] = entries[e][m] /\ entries[e][m] \in Inum \cup {None}
      BY <2>1, <1>1
    <3> QED BY <3>1, <1>3 DEF IsDir
  <2> QED BY <2>1
<1>5. ~IsDir(entries[d][n])'
  BY <1>1 DEF IsDir
<1>6. FreeInv' /\ BlockInv'
  BY <1>3 DEF DiskInv, FreeInv, BlockInv
<1>7. TreeInv'
  <2>1. \A e \in Inum : dinode'[e].type # "dir" => entries'[e] = NoEntries
    BY <1>1, <1>3 DEF DiskInv, TreeInv
  <2>2. ".." # n
    BY InodeAssumption
  <2>3. \A e \in Inum : entries'[e][".."] = entries[e][".."]
    BY <1>1, <2>2
  <2>4. \A e \in Inum : dinode'[e].type = "dir" => entries'[e][".."] # None
    BY <2>3, <1>3 DEF DiskInv, TreeInv
  <2>5. \A e \in Inum, m \in Name : entries'[e][m] # e
    BY <1>1, InodeAssumption DEF DiskInv, TreeInv
  <2>6. ASSUME NEW e \in Inum, NEW m \in Name, IsDir(entries[e][m])'
        PROVE  /\ entries'[entries'[e][m]][".."] = e
               /\ \A l \in Name : entries'[e][l] = entries'[e][m] => l = m
    <3>0. <<e, m>> # <<d, n>>
      BY <2>6, <1>5
    <3>1. IsDir(entries[e][m]) /\ entries'[e][m] = entries[e][m] /\ entries[e][m] \in Inum
      <4>1. IsDir(entries[e][m]) /\ entries'[e][m] = entries[e][m] /\ entries[e][m] \in Inum \cup {None}
        BY <3>0, <2>6, <1>1, <1>4
      <4> QED BY <4>1 DEF IsDir
    <3>2. entries[entries[e][m]][".."] = e /\ \A l \in Name : entries[e][l] = entries[e][m] => l = m
      BY <3>1 DEF DiskInv, TreeInv
    <3>3. entries[e][m] # None
      BY <3>1 DEF IsDir
    <3>4. ASSUME NEW l \in Name, entries'[e][l] = entries[e][m] PROVE l = m
      <4>1. <<e, l>> # <<d, n>>
        BY <3>3, <3>4, <1>1
      <4>2. entries[e][l] = entries[e][m]
        BY <4>1, <3>4, <1>1
      <4> QED BY <4>2, <3>2
    <3> QED BY <2>3, <3>1, <3>2, <3>4
  <2> QED BY <2>1, <2>4, <2>5, <2>6 DEF TreeInv
<1>8. ASSUME NEW j \in Inum
      PROVE  Links(j)' = (Links(j) - Is(i, j)) - (IF j = d THEN Kind(i) ELSE 0)
  <2>1. SameBut(Inum, Name, entries, entries', d, n)
    BY <1>1 DEF SameBut
  <2>3. Links(j)' = ((Links(j) - Is(entries[d][n], j)) + Is(entries'[d][n], j))
                     + (IF j = d THEN Kind(entries[d][n])' - Kind(entries[d][n]) ELSE 0)
    BY <2>1, <1>4, OneNameChanges
  <2>4. Kind(entries[d][n])' = 0 /\ Kind(entries[d][n]) = Kind(i) /\ Kind(i) \in Nat /\ Is(None, j) = 0
    <3>2. j # None
      BY InodeAssumption
    <3> QED BY <3>2, <1>5 DEF Kind, Is
  <2>5. Links(j) \in Nat /\ entries'[d][n] = None
    BY <1>1, LinksNat
  <2> QED BY <2>3, <2>4, <2>5 DEF Is
<1>9. ASSUME NEW j \in Inum
      PROVE  Links(j)' \in Nat /\ Links(j) \in Nat /\ Links(j) <= dinode[j].nlink /\ dinode[j].nlink \in Nat
  BY LinksNat, LinksNatNext DEF DiskInv, LinksInv, Types, Inode
<1>10. Kind(i) \in Nat
  BY DEF Kind
<1>11. k \in Nat /\ Links(d)' <= k
  <2>1. Links(d)' = Links(d) - Kind(i)
    BY <1>2, <1>8, <1>9 DEF Is
  <2> QED BY <2>1, <1>9, <1>10
<1>12. Links(i)' + 1 <= dinode[i].nlink
  <2>1. Links(i)' = Links(i) - 1
    BY <1>2, <1>8, <1>9 DEF Is
  <2> QED BY <2>1, <1>9
<1>13. ASSUME NEW j \in Inum PROVE Links(j)' <= dinode'[j].nlink
  <2>1. CASE j = d
    BY <2>1, <1>3, <1>11
  <2>2. CASE j # d
    <3>1. Links(j)' = Links(j) - Is(i, j)
      BY <2>2, <1>8, <1>9 DEF Is
    <3> QED BY <2>2, <3>1, <1>3, <1>9 DEF Is
  <2> QED BY <2>1, <2>2
<1> QED BY <1>1, <1>2, <1>3, <1>6, <1>7, <1>11, <1>12, <1>13 DEF DiskInv, LinksInv

\* The removal of a name by sys_unlink() keeps the invariant.
LEMMA UnlinkEntryKeeps ==
  ASSUME IInv, ~Trespass, NEW p \in Proc, UnlinkEntry(p)
  PROVE  IInv'
<1>0. Now(p).f = "unlink" /\ todo[p] # <<>> /\ Writes(p)
  BY DoingNow DEF UnlinkEntry, Writes
<1>1. PICK a \in State, b \in State :
        /\ Agrees(p, a) /\ Now(p) \in Steps /\ Does(Now(p), a, b) /\ Chain(Tail(todo[p]), b, Idle)
  BY <1>0, NowDoes DEF IInv
<1>2. PICK n : n = LastName(Now(p).path)
  OBVIOUS
<1>3. /\ Now(p).x = "dp" /\ n \in Name /\ b = Idle
      /\ a = St({"ip", "dp"}, {"ip", "dp"}, {"trans", "dir"}, n)
  BY <1>0, <1>1, <1>2, DoesUnlink
<1>4. a.held = {"ip", "dp"} /\ a.locks = {"ip", "dp"} /\ a.facts = {"trans", "dir"} /\ a.name = n /\ n # "."
  BY <1>3, InodeAssumption DEF St
<1>5. PICK d, i : d = At(p) /\ i = holds[p]["ip"]
  OBVIOUS
<1>6. /\ d = holds[p]["dp"] /\ d \in Inum /\ i \in Inum /\ locked[d] = p /\ locked[i] = p
      /\ dinode[d].type = "dir" /\ entries[d][n] = i
  <2>1. d = holds[p]["dp"]
    BY <1>3, <1>5 DEF At
  <2>2. holds[p]["dp"] \in Inum /\ holds[p]["ip"] \in Inum
    BY <1>1, <1>4, HeldSlot DEF IInv, Agrees
  <2>3. locked[holds[p]["dp"]] = p /\ locked[holds[p]["ip"]] = p
    BY <1>1, <1>4 DEF Agrees, LocksAgree
  <2>4. dinode[holds[p]["dp"]].type = "dir" /\ entries[holds[p]["dp"]][n] = holds[p]["ip"]
    BY <1>1, <1>4 DEF Agrees, FactsAgree
  <2> QED BY <2>1, <2>2, <2>3, <2>4, <1>5
<1>7. UNCHANGED <<bitmap, ref, locked, valid, writer, holds>>
  BY DEF UnlinkEntry
<1>8. /\ inode[i] = dinode[i] /\ inode[d] = dinode[d] /\ dinode[d] \in Inode /\ Types /\ DiskInv
  BY <1>6, InodeAssumption DEF IInv, Types, CacheInv
<1>9. CASE inode[i].type = "dir" /\ ~IsDirEmpty(i)
  <2>1. Then(p, UnlockPut("ip") \o UnlinkBad) /\ UNCHANGED <<entries, dinode, inode>>
    BY <1>5, <1>9 DEF UnlinkEntry
  <2>2. PICK c \in State : /\ c = St({"ip", "dp"}, {"ip", "dp"}, {"trans", "dir"}, ".") /\ c.held = a.held
                           /\ c.locks = a.locks /\ c.facts = a.facts /\ c.name = "."
    BY <1>4, KnownStates DEF St
  <2>3. Agrees(p, c)'
    <3>1. Agrees(p, a)'
      BY <1>1, <1>7, <2>1, SameAgrees DEF ondisk
    <3> QED BY <3>1, <2>2 DEF Agrees, HoldsAgree, LocksAgree, FactsAgree
  <2>4. Chain(todo'[p], c, Idle) /\ \A q \in Proc \ {p} : todo'[q] = todo[q]
    BY <1>1, <1>3, <2>1, <2>2, NonEmptyEnds, ThenChain DEF IInv, Types
  <2>5. Follows(p)' /\ todo' \in [Proc -> Seq(Steps \cup Dying)]
    BY <2>1, <2>3, <2>4, ChainFollows, TodoTyped DEF IInv
  <2> QED BY <1>7, <2>1, <2>4, <2>5, OnlyTodo DEF IInv, Types, icache, ondisk
<1>10. CASE ~(inode[i].type = "dir" /\ ~IsDirEmpty(i))
  <2>. DEFINE new == UnlockPut("dp") \o <<Op("nlink--", "ip")>> \o UnlockPut("ip") \o Commit
  <2>1. PICK w : /\ w = IF inode[i].type = "dir" THEN inode[d].nlink - 1 ELSE inode[d].nlink
                 /\ entries' = [entries EXCEPT ![d][n] = None]
                 /\ IUpdate(Only(d, [inode[d] EXCEPT !.nlink = w]))
                 /\ Then(p, new)
    BY <1>2, <1>5, <1>10 DEF UnlinkEntry
  <2>2. PICK k : k = dinode[d].nlink - Kind(i)
    OBVIOUS
  <2>3. w = k
    <3>1. dinode[d].nlink \in Nat /\ i # None
      BY <1>6, <1>8, InodeAssumption DEF Inode
    <3>2. CASE inode[i].type = "dir"
      <4>1. Kind(i) = 1
        BY <3>1, <3>2, <1>8 DEF Kind, IsDir
      <4> QED BY <4>1, <3>2, <1>8, <2>1, <2>2
    <3>3. CASE inode[i].type # "dir"
      <4>1. Kind(i) = 0
        BY <3>3, <1>8 DEF Kind, IsDir
      <4> QED BY <4>1, <3>1, <3>3, <1>8, <2>1, <2>2
    <3> QED BY <3>2, <3>3
  <2>4. PICK v : v = [dinode[d] EXCEPT !.nlink = k]
    OBVIOUS
  <2>5. IUpdate(Only(d, v))
    BY <1>8, <2>1, <2>3, <2>4
  <2>6. dinode' = [dinode EXCEPT ![d] = [dinode[d] EXCEPT !.nlink = k]]
    <3>1. d \in Inum
      BY <1>6
    <3>2. dinode' = [dinode EXCEPT ![d] = v]
      BY <3>1, <2>5, <1>8, UpdateIs
    <3> QED BY <3>2, <2>4
  <2>7. /\ DiskInv' /\ k \in Nat /\ i # d
        /\ \A j \in Inum : dinode'[j].type = dinode[j].type
        /\ dinode'[i] = dinode[i] /\ Links(i)' + 1 <= dinode[i].nlink
        /\ entries' \in [Inum -> [Name \cup {".."} -> Inum \cup {None}]]
    BY <1>3, <1>6, <1>7, <1>8, <2>1, <2>2, <2>6, UnnameDisk, ZenonT(120)
  <2>8. /\ dinode' \in [Inum -> Inode] /\ inode' \in [Inum -> Inode] /\ \A j \in valid : inode'[j] = dinode'[j]
    <3>1. v \in Inode
      BY <1>8, <2>4, <2>7 DEF Inode
    <3> QED BY <3>1, <2>5, <1>6, UpdateOne, InodeAssumption
  <2>9. PICK c \in State : /\ c = St({"ip", "dp"}, {"ip", "dp"}, {"trans", "dir", "surplus"}, ".")
                           /\ c.held = {"ip", "dp"} /\ c.locks = {"ip", "dp"}
                           /\ c.facts = {"trans", "dir", "surplus"} /\ c.name = "."
    BY KnownStates DEF St
  <2>10. Agrees(p, c)'
    <3>1. HoldsAgree(p, c)' /\ LocksAgree(p, c)'
      BY <1>1, <1>4, <1>7, <2>9 DEF Agrees, HoldsAgree, LocksAgree
    <3>2. FactsAgree(p, c)'
      <4>1. writer' = p
        BY <1>1, <1>4, <1>7 DEF Agrees, FactsAgree
      <4>2. dinode'[holds'[p]["dp"]].type = "dir"
        BY <1>6, <1>7, <2>7
      <4>3. (Links(holds[p]["ip"]) + 1 <= dinode[holds[p]["ip"]].nlink)'
        <5>1. Links(holds[p]["ip"])' = Links(i)' /\ holds'[p]["ip"] = i
          BY <1>5, <1>7 DEF Links
        <5> QED BY <5>1, <2>7
      <4> QED BY <4>1, <4>2, <4>3, <2>9 DEF FactsAgree
    <3> QED BY <3>1, <3>2 DEF Agrees
  <2>11. Chain(todo'[p], c, Idle) /\ \A q \in Proc \ {p} : todo'[q] = todo[q]
    <3>1. Chain(new, c, Idle)
      BY <2>9, RemovedEnds
    <3>. HIDE DEF new
    <3> QED BY <3>1, <1>1, <1>3, <2>1, ThenChain DEF IInv, Types
  <2>. HIDE DEF new
  <2>12. Follows(p)' /\ todo' \in [Proc -> Seq(Steps \cup Dying)]
    BY <2>1, <2>10, <2>11, ChainFollows, TodoTyped DEF IInv
  <2>13. /\ locked' \in [Inum -> Proc \cup {NoProc}] /\ bitmap' \subseteq Block /\ locked' = locked
         /\ \A j \in Inum : locked[j] # p => entries'[j] = entries[j]
    BY <1>6, <1>7, <1>8, <2>1 DEF Types
  <2> QED BY <1>0, <1>7, <2>7, <2>8, <2>11, <2>12, <2>13, WriteKeeps
<1> QED BY <1>9, <1>10

\* blocks that were free, for an inode that had none
LEMMA NewBlocks ==
  ASSUME BlockInv, NEW i \in Inum, NEW B, B \cap bitmap = {}, dinode[i].addrs = {},
         \A j \in Inum : dinode'[j].addrs = IF j = i THEN B ELSE dinode[j].addrs, bitmap' = bitmap \cup B
  PROVE  BlockInv'
<1>1. bitmap = UNION {dinode[j].addrs : j \in Inum}
  BY DEF BlockInv
<1>2. ASSUME NEW v, v \in bitmap' PROVE v \in UNION {dinode'[j].addrs : j \in Inum}
  <2>1. CASE v \in B
    BY <2>1
  <2>2. CASE v \in bitmap
    <3>1. PICK j \in Inum : v \in dinode[j].addrs
      BY <2>2, <1>1
    <3>2. j # i
      BY <3>1
    <3> QED BY <3>1, <3>2
  <2> QED BY <1>2, <2>1, <2>2
<1>3. ASSUME NEW v, v \in UNION {dinode'[j].addrs : j \in Inum} PROVE v \in bitmap'
  <2>1. PICK j \in Inum : v \in dinode'[j].addrs
    BY <1>3
  <2> QED BY <2>1, <1>1
<1>4. bitmap' = UNION {dinode'[j].addrs : j \in Inum}
  BY <1>2, <1>3
<1>5. \A j \in Inum : dinode[j].addrs \subseteq bitmap
  BY <1>1
<1>6. \A j \in Inum, k \in Inum : j # k => dinode'[j].addrs \cap dinode'[k].addrs = {}
  BY <1>5 DEF BlockInv
<1> QED BY <1>4, <1>6 DEF BlockInv

\* A block that balloc() finds is free.
LEMMA FreeBlock ==
  ASSUME Types, ~(Block \subseteq bitmap)
  PROVE  First(Block \ bitmap) \in Block /\ First(Block \ bitmap) \notin bitmap
<1>1. IsFiniteSet(Block \ bitmap) /\ Block \ bitmap \subseteq Nat /\ Block \ bitmap # {}
  BY InodeAssumption, FS_Subset
<1>2. First(Block \ bitmap) \in Block \ bitmap
  BY <1>1, FirstIsIn
<1> QED BY <1>2

\* writei() keeps the invariant.
LEMMA WriteInodeKeeps ==
  ASSUME IInv, ~Trespass, ~Exhausted, NEW p \in Proc, WriteInode(p)
  PROVE  IInv'
<1>0. Now(p).f = "writei" /\ todo[p] # <<>> /\ Writes(p) /\ ~(Block \subseteq bitmap)
  BY DoingNow DEF WriteInode, Writes, Exhausted
<1>1. PICK a \in State, b \in State :
        /\ Agrees(p, a) /\ Now(p) \in Steps /\ Does(Now(p), a, b) /\ Chain(Tail(todo[p]), b, Idle)
  BY <1>0, NowDoes DEF IInv
<1>2. Now(p).x = "file" /\ a = St({"file"}, {"file"}, {"trans"}, ".") /\ b = a
  BY <1>0, <1>1, DoesWriteI
<1>3. a.held = {"file"} /\ a.locks = {"file"} /\ a.facts = {"trans"} /\ a.name = "."
  BY <1>2 DEF St
<1>4. PICK i : i = At(p)
  OBVIOUS
<1>5. i = holds[p]["file"] /\ i \in Inum /\ locked[i] = p /\ dinode[i].type # "none"
  <2>1. i = holds[p]["file"] /\ "file" \in Refs
    BY <1>2, <1>4 DEF At, Refs
  <2>2. holds[p]["file"] \in Inum /\ holds[p]["file"] # None
    BY <1>1, <1>3, HeldSlot DEF IInv, Agrees
  <2>3. locked[holds[p]["file"]] = p
    BY <1>1, <1>3 DEF Agrees, LocksAgree
  <2> QED BY <2>1, <2>2, <2>3 DEF IInv, HeldInv
<1>6. Then(p, <<>>) /\ UNCHANGED <<entries, ref, locked, valid, writer, holds>>
  BY DEF WriteInode
<1>7. inode[i] = dinode[i] /\ dinode[i] \in Inode /\ Types /\ DiskInv
  BY <1>5, InodeAssumption DEF IInv, Types, CacheInv
<1>8. ASSUME \A j \in Inum : dinode'[j].type = dinode[j].type PROVE Agrees(p, a)'
  <2>1. HoldsAgree(p, a)' /\ LocksAgree(p, a)'
    BY <1>1, <1>6 DEF Agrees, HoldsAgree, LocksAgree
  <2>2. FactsAgree(p, a)'
    BY <1>1, <1>3, <1>6 DEF Agrees, FactsAgree
  <2> QED BY <2>1, <2>2 DEF Agrees
<1>9. Chain(todo'[p], a, Idle) /\ \A q \in Proc \ {p} : todo'[q] = todo[q]
  BY <1>1, <1>2, <1>6, TailChain DEF IInv, Types
<1>10. CASE inode[i].addrs = {}
  <2>1. PICK v, k : /\ k = First(Block \ bitmap) /\ v = [dinode[i] EXCEPT !.addrs = {k}]
                    /\ bitmap' = bitmap \cup {k} /\ IUpdate(Only(i, v))
    BY <1>4, <1>7, <1>10 DEF WriteInode
  <2>2. k \in Block /\ k \notin bitmap
    BY <1>0, <1>7, <2>1, FreeBlock
  <2>3. v \in Inode /\ v.type = dinode[i].type /\ v.nlink = dinode[i].nlink /\ v.addrs = {k}
    BY <1>7, <2>1, <2>2 DEF Inode
  <2>4. /\ dinode' = [dinode EXCEPT ![i] = v] /\ dinode' \in [Inum -> Inode] /\ inode' \in [Inum -> Inode]
        /\ \A j \in valid : inode'[j] = dinode'[j]
    BY <1>5, <2>1, <2>3, UpdateOne, InodeAssumption
  <2>5. \A j \in Inum : dinode'[j] = IF j = i THEN v ELSE dinode[j]
    BY <1>5, <1>7, <2>4 DEF Types
  <2>6. \A j \in Inum : dinode'[j].type = dinode[j].type /\ dinode'[j].nlink = dinode[j].nlink
    BY <2>3, <2>5
  <2>7. \A d \in Inum, n \in Name \cup {".."} : entries[d][n] \in Inum \cup {None} /\ entries'[d][n] = entries[d][n]
    BY <1>6, <1>7 DEF Types
  <2>8. \A d \in Inum, n \in Name : IsDir(entries[d][n])' <=> IsDir(entries[d][n])
    BY <2>6, <2>7 DEF IsDir
  <2>9. DiskInv'
    <3>1. FreeInv'
      BY <1>5, <1>7, <2>5, <2>6 DEF DiskInv, FreeInv
    <3>2. TreeInv'
      BY <1>6, <1>7, <2>6, <2>7, <2>8 DEF DiskInv, TreeInv
    <3>3. BlockInv'
      <4>1. BlockInv /\ {k} \cap bitmap = {} /\ dinode[i].addrs = {} /\ bitmap' = bitmap \cup {k}
        BY <1>7, <1>10, <2>1, <2>2 DEF DiskInv
      <4>2. \A j \in Inum : dinode'[j].addrs = IF j = i THEN {k} ELSE dinode[j].addrs
        BY <2>3, <2>5
      <4> QED BY <4>1, <4>2, <1>5, NewBlocks
    <3>4. \A j \in Inum : Links(j)' = Links(j)
      BY <2>7, <2>8, SameLinks
    <3>5. LinksInv'
      BY <1>7, <2>6, <3>4 DEF DiskInv, LinksInv
    <3> QED BY <3>1, <3>2, <3>3, <3>5 DEF DiskInv
  <2>10. Follows(p)' /\ todo' \in [Proc -> Seq(Steps \cup Dying)]
    BY <1>6, <1>8, <1>9, <2>6, ChainFollows, TodoTyped DEF IInv
  <2>11. /\ locked' \in [Inum -> Proc \cup {NoProc}] /\ bitmap' \subseteq Block
         /\ entries' \in [Inum -> [Name \cup {".."} -> Inum \cup {None}]]
    BY <1>6, <1>7, <2>1, <2>2 DEF Types
  <2> QED BY <1>0, <1>6, <1>9, <2>4, <2>6, <2>9, <2>10, <2>11, WriteKeeps
<1>11. CASE inode[i].addrs # {}
  <2>1. UNCHANGED <<bitmap, dinode, inode>>
    BY <1>4, <1>11 DEF WriteInode
  <2>2. Follows(p)' /\ todo' \in [Proc -> Seq(Steps \cup Dying)]
    BY <1>6, <1>8, <1>9, <2>1, ChainFollows, TodoTyped DEF IInv
  <2> QED BY <1>6, <1>9, <2>1, <2>2, OnlyTodo DEF IInv, Types, icache, ondisk
<1> QED BY <1>10, <1>11

\* a free inode is not in use anywhere
LEMMA FreeIsUnused ==
  ASSUME IInv, NEW i \in Inum, dinode[i].type = "none"
  PROVE  /\ dinode[i] = Unused /\ entries[i] = NoEntries /\ i # ROOTINO /\ locked[i] = NoProc
         /\ Links(i) = 0 /\ \A d \in Inum, n \in Name : entries[d][n] # i
         /\ \A q \in Proc, x \in Refs : holds[q][x] # i
<1>1. dinode[i] = Unused /\ entries[i] = NoEntries
  BY DEF IInv, DiskInv, FreeInv, TreeInv
<1>2. Links(i) <= 0 /\ Links(i) \in Nat
  BY <1>1, LinksNat DEF IInv, DiskInv, LinksInv, Unused
<1>3. \A d \in Inum, n \in Name : entries[d][n] # i
  BY <1>2, NamedHasLink
<1>4. i # ROOTINO
  BY <1>2, RootHasLink
<1>5. i # None
  BY InodeAssumption
<1>6. \A q \in Proc, x \in Refs : holds[q][x] # i
  BY <1>5 DEF IInv, HeldInv
<1>7. ASSUME locked[i] # NoProc PROVE FALSE
  <2>1. PICK q \in Proc : locked[i] = q
    BY <1>7 DEF IInv, Types
  <2>2. PICK a \in State : Agrees(q, a)
    BY DEF IInv, Follows
  <2>3. \E x \in Refs : holds[q][x] = i
    BY <2>1, <2>2, LockedSlot DEF IInv
  <2> QED BY <2>3, <1>6
<1> QED BY <1>1, <1>2, <1>3, <1>4, <1>6, <1>7

\* a new inode i with the name n in d and the blocks B
Creates(d, n, i, type, k, B) ==
  /\ dinode[d].type = "dir" /\ entries[d][n] = None /\ dinode[i].type = "none"
  /\ k = IF type = "dir" THEN 1 ELSE 0
  /\ B \subseteq Block /\ B \cap bitmap = {} /\ bitmap' = bitmap \cup B
  /\ \A j \in Inum : dinode'[j] = IF j = i THEN [type |-> type, nlink |-> 1, addrs |-> B]
                                  ELSE IF j = d THEN [dinode[d] EXCEPT !.nlink = dinode[d].nlink + k]
                                  ELSE dinode[j]
  /\ entries' = [entries EXCEPT ![i] = [NoEntries EXCEPT ![".."] = IF type = "dir" THEN d ELSE None],
                                ![d][n] = i]

\* The disk with a new inode is in order.
LEMMA CreateDisk ==
  ASSUME IInv, NEW d \in Inum, NEW n \in Name, NEW i \in Inum, NEW type \in {"file", "dir"}, NEW k, NEW B,
         Creates(d, n, i, type, k, B)
  PROVE  /\ DiskInv' /\ i # d /\ entries' \in [Inum -> [Name \cup {".."} -> Inum \cup {None}]]
         /\ \A j \in Inum : j # i => dinode'[j].type = dinode[j].type
         /\ \A j \in Inum : j # i /\ j # d => entries'[j] = entries[j]
         /\ \A j \in Inum : dinode'[j] \in Inode
<1>0. /\ dinode[d].type = "dir" /\ entries[d][n] = None /\ dinode[i].type = "none"
      /\ k = IF type = "dir" THEN 1 ELSE 0
      /\ B \subseteq Block /\ B \cap bitmap = {} /\ bitmap' = bitmap \cup B
  BY DEF Creates
<1>0a. \A j \in Inum : dinode'[j] = IF j = i THEN [type |-> type, nlink |-> 1, addrs |-> B]
                                    ELSE IF j = d THEN [dinode[d] EXCEPT !.nlink = dinode[d].nlink + k]
                                    ELSE dinode[j]
  BY DEF Creates
<1>0b. entries' = [entries EXCEPT ![i] = [NoEntries EXCEPT ![".."] = IF type = "dir" THEN d ELSE None],
                                  ![d][n] = i]
  BY DEF Creates
<1>1. /\ dinode[i] = Unused /\ entries[i] = NoEntries /\ i # ROOTINO /\ Links(i) = 0
      /\ \A e \in Inum, m \in Name : entries[e][m] # i
  BY <1>0, FreeIsUnused
<1>2. i # d /\ i # None /\ d # None /\ ".." \notin Name
  BY <1>0, InodeAssumption
<1>3. Types /\ DiskInv /\ k \in Nat /\ \A m \in Name \cup {".."} : NoEntries[m] = None
  BY <1>0 DEF IInv, NoEntries
<1>4. dinode[d] \in Inode /\ dinode \in [Inum -> Inode]
  BY <1>3 DEF Types
<1>5. /\ dinode'[i].type = type /\ dinode'[i].nlink = 1 /\ dinode'[i].addrs = B
      /\ dinode'[d].type = "dir" /\ dinode'[d].nlink = dinode[d].nlink + k /\ dinode'[d].addrs = dinode[d].addrs
      /\ \A j \in Inum : j # i /\ j # d => dinode'[j] = dinode[j]
  BY <1>0, <1>0a, <1>2, <1>4 DEF Inode
<1>6. \A j \in Inum : j # i => dinode'[j].type = dinode[j].type /\ dinode'[j].addrs = dinode[j].addrs
  BY <1>0, <1>5
<1>7. \A j \in Inum : dinode'[j] \in Inode
  <2>1. dinode'[i] \in Inode
    BY <1>0, <1>0a, <1>2 DEF Inode
  <2>2. dinode'[d] \in Inode
    BY <1>0, <1>0a, <1>2, <1>3, <1>4 DEF Inode
  <2> QED BY <2>1, <2>2, <1>4, <1>5
<1>8. /\ \A e \in Inum : e # i /\ e # d => entries'[e] = entries[e]
      /\ \A m \in Name : entries'[i][m] = None
      /\ entries'[i][".."] = IF type = "dir" THEN d ELSE None
      /\ entries'[d][n] = i
      /\ \A m \in Name \cup {".."} : m # n => entries'[d][m] = entries[d][m]
      /\ entries' \in [Inum -> [Name \cup {".."} -> Inum \cup {None}]]
      /\ type # "dir" => entries'[i] = NoEntries
  <2>. DEFINE E == [NoEntries EXCEPT ![".."] = IF type = "dir" THEN d ELSE None]
  <2>1. /\ E \in [Name \cup {".."} -> Inum \cup {None}] /\ \A m \in Name : E[m] = None
        /\ E[".."] = (IF type = "dir" THEN d ELSE None) /\ (type # "dir" => E = NoEntries)
    BY <1>2 DEF NoEntries
  <2>2. /\ entries \in [Inum -> [Name \cup {".."} -> Inum \cup {None}]]
        /\ entries' = [entries EXCEPT ![i] = E, ![d][n] = i]
    BY <1>3, <1>0b DEF Types
  <2>. HIDE DEF E
  <2>3a. entries \in [Inum -> [Name \cup {".."} -> Inum \cup {None}]]
    BY <2>2
  <2>3b. entries[d] \in [Name \cup {".."} -> Inum \cup {None}]
    BY <2>3a
  <2>3. \A e \in Inum : entries'[e] = IF e = d THEN [entries[d] EXCEPT ![n] = i] ELSE IF e = i THEN E ELSE entries[e]
    BY <2>2, <1>2
  <2>4. ASSUME NEW m \in Name \cup {".."} PROVE entries'[d][m] = IF m = n THEN i ELSE entries[d][m]
    <3>1. entries'[d] = [entries[d] EXCEPT ![n] = i]
      BY <2>3
    <3> QED BY <2>3b, <3>1
  <2>5. [entries[d] EXCEPT ![n] = i] \in [Name \cup {".."} -> Inum \cup {None}]
    BY <2>3b
  <2>6. entries' \in [Inum -> [Name \cup {".."} -> Inum \cup {None}]]
    BY <2>1, <2>2, <2>3, <2>5
  <2> QED BY <2>1, <2>3, <2>4, <2>6, <1>2
<1>9. \A e \in Inum, m \in Name : <<e, m>> # <<d, n>> => entries'[e][m] = entries[e][m]
  <2>1. \A m \in Name : entries[i][m] = None
    BY <1>1, <1>3
  <2>2. ASSUME NEW e \in Inum, NEW m \in Name, <<e, m>> # <<d, n>> PROVE entries'[e][m] = entries[e][m]
    <3>1. CASE e = i
      BY <3>1, <2>1, <1>8
    <3>2. CASE e = d
      <4>1. m # n
        BY <2>2, <3>2
      <4> QED BY <4>1, <3>2, <1>8
    <3>3. CASE e # i /\ e # d
      BY <3>3, <1>8
    <3> QED BY <3>1, <3>2, <3>3
  <2> QED BY <2>2
<1>9a. ASSUME NEW e \in Inum, NEW m \in Name
       PROVE  entries[e][m] \in Inum \cup {None} /\ entries[e][m] # i /\ entries[e][m] # e
  BY <1>1, <1>3 DEF Types, DiskInv, TreeInv
<1>10. \A e \in Inum, m \in Name : <<e, m>> # <<d, n>> => (IsDir(entries[e][m])' <=> IsDir(entries[e][m]))
  <2>1. ASSUME NEW e \in Inum, NEW m \in Name, <<e, m>> # <<d, n>>
        PROVE  IsDir(entries[e][m])' <=> IsDir(entries[e][m])
    <3>1. entries'[e][m] = entries[e][m] /\ entries[e][m] \in Inum \cup {None} /\ entries[e][m] # i
      BY <2>1, <1>9, <1>9a
    <3> QED BY <3>1, <1>6 DEF IsDir
  <2> QED BY <2>1
<1>11. FreeInv'
  <2>1. \A j \in Inum : dinode'[j].type = "none" => j # i /\ j # d
    BY <1>5
  <2> QED BY <2>1, <1>3, <1>5 DEF DiskInv, FreeInv
<1>12. BlockInv'
  <2>1. BlockInv /\ dinode[i].addrs = {}
    BY <1>1, <1>3 DEF DiskInv, Unused
  <2>2. \A j \in Inum : dinode'[j].addrs = IF j = i THEN B ELSE dinode[j].addrs
    BY <1>5, <1>6
  <2> QED BY <2>1, <2>2, <1>0, NewBlocks
<1>13. TreeInv'
  <2>1. ASSUME NEW e \in Inum, dinode'[e].type # "dir" PROVE entries'[e] = NoEntries
    <3>1. CASE e = i
      BY <2>1, <3>1, <1>5, <1>8
    <3>2. CASE e # i
      <4>1. e # d /\ dinode[e].type # "dir"
        BY <2>1, <3>2, <1>5, <1>6
      <4> QED BY <3>2, <4>1, <1>3, <1>8 DEF DiskInv, TreeInv
    <3> QED BY <3>1, <3>2
  <2>2. \A e \in Inum : e # i => entries'[e][".."] = entries[e][".."]
    BY <1>2, <1>8
  <2>3. ASSUME NEW e \in Inum, dinode'[e].type = "dir" PROVE entries'[e][".."] # None
    <3>1. CASE e = i
      BY <2>3, <3>1, <1>2, <1>5, <1>8
    <3>2. CASE e # i
      BY <2>2, <2>3, <3>2, <1>3, <1>6 DEF DiskInv, TreeInv
    <3> QED BY <3>1, <3>2
  <2>4. \A e \in Inum, m \in Name : entries'[e][m] # e
    <3>1. ASSUME NEW e \in Inum, NEW m \in Name PROVE entries'[e][m] # e
      <4>1. CASE <<e, m>> = <<d, n>>
        BY <4>1, <1>2, <1>8
      <4>2. CASE <<e, m>> # <<d, n>>
        BY <4>2, <1>9, <1>9a
      <4> QED BY <4>1, <4>2
    <3> QED BY <3>1
  <2>5. ASSUME NEW e \in Inum, NEW m \in Name, IsDir(entries[e][m])'
        PROVE  /\ entries'[entries'[e][m]][".."] = e
               /\ \A l \in Name : entries'[e][l] = entries'[e][m] => l = m
    <3>1. CASE <<e, m>> = <<d, n>>
      <4>1. e = d /\ m = n /\ entries'[e][m] = i
        BY <3>1, <1>8
      <4>2. dinode'[i].type = "dir"
        BY <2>5, <4>1 DEF IsDir
      <4>3. entries'[i][".."] = d
        BY <4>2, <1>5, <1>8
      <4>4. ASSUME NEW l \in Name, entries'[d][l] = i PROVE l = n
        BY <4>4, <1>1, <1>8
      <4> QED BY <4>1, <4>3, <4>4
    <3>2. CASE <<e, m>> # <<d, n>>
      <4>1. IsDir(entries[e][m]) /\ entries'[e][m] = entries[e][m] /\ entries[e][m] # i /\ entries[e][m] # None
            /\ entries[e][m] \in Inum
        <5>1. IsDir(entries[e][m]) /\ entries'[e][m] = entries[e][m] /\ entries[e][m] # i
              /\ entries[e][m] \in Inum \cup {None}
          BY <3>2, <2>5, <1>9, <1>9a, <1>10
        <5> QED BY <5>1 DEF IsDir
      <4>2. entries[entries[e][m]][".."] = e /\ \A l \in Name : entries[e][l] = entries[e][m] => l = m
        BY <4>1, <1>3 DEF DiskInv, TreeInv
      <4>3. ASSUME NEW l \in Name, entries'[e][l] = entries[e][m] PROVE l = m
        <5>1. <<e, l>> # <<d, n>>
          BY <4>1, <4>3, <1>8
        <5>2. entries[e][l] = entries[e][m]
          BY <5>1, <4>3, <1>9
        <5> QED BY <5>2, <4>2
      <4> QED BY <2>2, <4>1, <4>2, <4>3
    <3> QED BY <3>1, <3>2
  <2> QED BY <2>1, <2>3, <2>4, <2>5 DEF TreeInv
<1>14. ASSUME NEW j \in Inum PROVE Links(j)' <= dinode'[j].nlink
  <2>1. SameBut(Inum, Name, entries, entries', d, n)
    BY <1>9 DEF SameBut
  <2>2. Links(j)' = ((Links(j) - Is(entries[d][n], j)) + Is(entries'[d][n], j))
                     + (IF j = d THEN Kind(entries[d][n])' - Kind(entries[d][n]) ELSE 0)
    BY <2>1, <1>10, OneNameChanges
  <2>3. Kind(entries[d][n])' = k /\ Kind(entries[d][n]) = 0 /\ Is(entries[d][n], j) = 0
    <3>1. j # None
      BY InodeAssumption
    <3>2. Kind(entries[d][n])' = k
      BY <1>0, <1>2, <1>5, <1>8 DEF Kind, IsDir
    <3>3. Kind(entries[d][n]) = 0
      BY <1>0 DEF Kind, IsDir
    <3> QED BY <3>1, <3>2, <3>3, <1>0 DEF Is
  <2>4. Links(j) \in Nat /\ Links(j) <= dinode[j].nlink /\ dinode[j].nlink \in Nat /\ k \in Nat
    BY <1>3, LinksNat DEF DiskInv, LinksInv, Types, Inode
  <2>5. Links(j)' = Links(j) + Is(i, j) + (IF j = d THEN k ELSE 0)
    <3>1. entries'[d][n] = i
      BY <1>8
    <3> QED BY <3>1, <2>2, <2>3, <2>4 DEF Is
  <2>6. CASE j = i
    <3>1. Links(i)' = 1
      BY <2>5, <2>6, <1>1, <1>2 DEF Is
    <3> QED BY <3>1, <2>6, <1>5
  <2>7. CASE j = d
    <3>1. Links(d)' = Links(d) + k
      BY <2>4, <2>5, <2>7, <1>2 DEF Is
    <3> QED BY <3>1, <2>4, <2>7, <1>5
  <2>8. CASE j # i /\ j # d
    <3>1. Links(j)' = Links(j)
      BY <2>4, <2>5, <2>8 DEF Is
    <3> QED BY <3>1, <2>4, <2>8, <1>5
  <2> QED BY <2>6, <2>7, <2>8
<1> QED BY <1>2, <1>6, <1>7, <1>8, <1>11, <1>12, <1>13, <1>14 DEF DiskInv, LinksInv

\* create() of a new inode keeps the invariant.
LEMMA CreateNewKeeps ==
  ASSUME IInv, ~Trespass, ~Exhausted, NEW p \in Proc, CreateNew(p)
  PROVE  IInv'
<1>0. /\ Now(p).f = "create" /\ todo[p] # <<>> /\ Writes(p) /\ ~(Block \subseteq bitmap)
      /\ \E j \in Inum : dinode[j].type = "none"
  BY DoingNow DEF CreateNew, Writes, Exhausted
<1>1. PICK a \in State, b \in State :
        /\ Agrees(p, a) /\ Now(p) \in Steps /\ Does(Now(p), a, b) /\ Chain(Tail(todo[p]), b, Idle)
  BY <1>0, NowDoes DEF IInv
<1>2. a = St({"dp"}, {"dp"}, {"trans", "dir"}, ".") /\ b = Idle
  BY <1>0, <1>1, DoesCreate
<1>3. Now(p).x = "dp" /\ Now(p).path \in Path /\ Now(p).type \in {"file", "dir"}
  BY <1>0, <1>1, StepHas
<1>4. PICK d, n, type : d = At(p) /\ n = LastName(Now(p).path) /\ type = Now(p).type
  OBVIOUS
<1>5. /\ d = holds[p]["dp"] /\ d \in Inum /\ n \in Elem /\ type \in {"file", "dir"} /\ locked[d] = p
      /\ holds[p]["ip"] = None /\ holds[p]["next"] = None /\ holds[p]["cwd"] # None
      /\ \A j \in Inum : locked[j] = p => j = d
      /\ writer = p /\ dinode[d].type = "dir" /\ DirLookup(d, n) = None
  <2>1. d = holds[p]["dp"] /\ n \in Elem /\ DirLookup(d, n) = None
    BY <1>3, <1>4, LastNameIs DEF At, CreateNew
  <2> QED BY <2>1, <1>1, <1>2, <1>3, <1>4, OnlyDp, ZenonT(120)
<1>6. n \in Name /\ entries[d][n] = None
  BY <1>5, AbsentIsName
<1>7. PICK k : k = IF type = "dir" THEN 1 ELSE 0
  OBVIOUS
<1>8. PICK B : B = IF type = "dir" THEN {First(Block \ bitmap)} ELSE {}
  OBVIOUS
<1>9. PICK i : i = First({j \in Inum : dinode[j].type = "none"})
  OBVIOUS
<1>10. PICK new : new = [type |-> type, nlink |-> 1, addrs |-> B]
  OBVIOUS
<1>11. PICK w : w = IF type = "dir" THEN inode[d].nlink + 1 ELSE inode[d].nlink
  OBVIOUS
<1>12. /\ bitmap' = bitmap \cup B
       /\ IUpdate([j \in {i, d} |-> IF j = i THEN new ELSE [inode[d] EXCEPT !.nlink = w]])
       /\ entries' = [entries EXCEPT ![i] = [NoEntries EXCEPT ![".."] = IF type = "dir" THEN d ELSE None],
                                     ![d][n] = i]
       /\ IGet(i) /\ locked' = [locked EXCEPT ![i] = p] /\ valid' = valid \cup {i}
       /\ Hold(p, "ip", i)
       /\ Then(p, UnlockPut("dp") \o Created(type))
       /\ UNCHANGED writer
  BY <1>4, <1>8, <1>9, <1>10, <1>11 DEF CreateNew
<1>13. i \in Inum /\ dinode[i].type = "none"
  <2>. DEFINE S == {j \in Inum : dinode[j].type = "none"}
  <2>1. IsFiniteSet(S) /\ S \subseteq Nat /\ S # {}
    BY <1>0, InodeAssumption, FS_Subset
  <2>2. First(S) \in S
    <3>. HIDE DEF S
    <3> QED BY <2>1, FirstIsIn
  <2> QED BY <2>2, <1>9
<1>14. B \subseteq Block /\ B \cap bitmap = {}
  BY <1>0, <1>8, FreeBlock DEF IInv
<1>15. /\ locked[i] = NoProc /\ i # d
       /\ \A e \in Inum, m \in Name : entries[e][m] # i
       /\ \A q \in Proc, x \in Refs : holds[q][x] # i
  BY <1>5, <1>13, FreeIsUnused
<1>16. Types /\ inode[d] = dinode[d] /\ d \in valid /\ dinode[d] \in Inode
  BY <1>5, InodeAssumption, ZenonT(120) DEF IInv, CacheInv, Types
<1>17. w = dinode[d].nlink + k
  <2>1. dinode[d].nlink \in Nat
    BY <1>16 DEF Inode
  <2> QED BY <2>1, <1>7, <1>11, <1>16
<1>18. /\ \A j \in Inum : dinode'[j] = IF j = i THEN new ELSE IF j = d THEN [dinode[d] EXCEPT !.nlink = w] ELSE dinode[j]
       /\ \A j \in Inum : inode'[j] = IF j = i THEN new ELSE IF j = d THEN [dinode[d] EXCEPT !.nlink = w] ELSE inode[j]
       /\ dinode' = [j \in Inum |-> dinode'[j]] /\ inode' = [j \in Inum |-> inode'[j]]
  BY <1>12, <1>15, <1>16 DEF IUpdate, Changed
<1>19. /\ DiskInv' /\ entries' \in [Inum -> [Name \cup {".."} -> Inum \cup {None}]]
       /\ \A j \in Inum : j # i => dinode'[j].type = dinode[j].type
       /\ \A j \in Inum : j # i /\ j # d => entries'[j] = entries[j]
       /\ \A j \in Inum : dinode'[j] \in Inode
  <2>1. \A j \in Inum : dinode'[j] = IF j = i THEN [type |-> type, nlink |-> 1, addrs |-> B]
                                    ELSE IF j = d THEN [dinode[d] EXCEPT !.nlink = dinode[d].nlink + k]
                                    ELSE dinode[j]
    BY <1>10, <1>17, <1>18
  <2>2. bitmap' = bitmap \cup B
    BY <1>12
  <2>3. entries' = [entries EXCEPT ![i] = [NoEntries EXCEPT ![".."] = IF type = "dir" THEN d ELSE None],
                                   ![d][n] = i]
    BY <1>12
  <2>4. d \in Inum /\ dinode[d].type = "dir" /\ type \in {"file", "dir"}
    BY <1>5
  <2>5. Creates(d, n, i, type, k, B)
    BY <2>1, <2>2, <2>3, <2>4, <1>6, <1>7, <1>13, <1>14 DEF Creates
  <2> QED BY <2>4, <2>5, <1>6, <1>13, CreateDisk, ZenonT(120)
<1>20. dinode'[i].type = type /\ entries'[d][n] = i
  <2>1. dinode'[i].type = type
    BY <1>10, <1>13, <1>18
  <2>2. n \in Name \cup {".."} /\ entries \in [Inum -> [Name \cup {".."} -> Inum \cup {None}]]
    BY <1>6, <1>16 DEF Types
  <2>3. entries'[d][n] = i
    BY <1>5, <1>12, <1>15, <2>2
  <2> QED BY <2>1, <2>3
<1>21. /\ \A q \in Proc \ {p} : holds'[q] = holds[q]
       /\ holds'[p]["ip"] = i /\ \A x \in Refs \ {"ip"} : holds'[p][x] = holds[p][x]
       /\ holds' \in Holding /\ holds \in Holding
  BY <1>12, <1>13, <1>16 DEF Hold, Types, Holding, Refs
<1>22. \A j \in Inum : locked'[j] = IF j = i THEN p ELSE locked[j]
  BY <1>12, <1>13, <1>16 DEF Types
<1>23. RefsExact'
  <2>1. "ip" \in Refs /\ ref \in [Inum -> Nat]
    BY <1>16 DEF Refs, Types
  <2> QED BY <2>1, <1>5, <1>12, <1>13, <1>21, RefsGet DEF IInv
<1>24. HeldInv'
  <2>1. ASSUME NEW q \in Proc, NEW x \in Refs, holds'[q][x] # None PROVE dinode'[holds'[q][x]].type # "none"
    <3>1. CASE holds'[q][x] = i
      BY <3>1, <1>5, <1>20
    <3>2. CASE holds'[q][x] # i
      <4>1. holds'[q][x] = holds[q][x]
        BY <3>2, <1>21
      <4>2. holds[q][x] \in Inum
        BY <2>1, <4>1, <1>16 DEF Types
      <4> QED BY <2>1, <3>2, <4>1, <4>2, <1>19 DEF IInv, HeldInv
    <3> QED BY <3>1, <3>2
  <2> QED BY <2>1 DEF HeldInv
<1>25. CacheInv'
  <2>1. \A j \in valid' : inode'[j] = dinode'[j]
    <3>1. ASSUME NEW j \in valid' PROVE inode'[j] = dinode'[j]
      <4>1. j \in Inum /\ (j # i => j \in valid)
        BY <1>12, <1>13, <1>16 DEF Types
      <4> QED BY <4>1, <1>18 DEF IInv, CacheInv
    <3> QED BY <3>1
  <2>2. \A j \in Inum : locked'[j] # NoProc => j \in valid'
    BY <1>12, <1>22 DEF IInv, CacheInv
  <2> QED BY <2>1, <2>2 DEF CacheInv
<1>26. PICK c \in State : /\ c = St({"ip", "dp"}, {"ip", "dp"}, {"trans", "dir"}, ".") /\ c.held = {"ip", "dp"}
                          /\ c.locks = {"ip", "dp"} /\ c.facts = {"trans", "dir"} /\ c.name = "."
  BY KnownStates DEF St
<1>27. Agrees(p, c)'
  <2>0. /\ {"dp", "cwd", "next"} \subseteq Refs \ {"ip"} /\ i # None /\ d # None
    BY InodeAssumption, <1>13, <1>5 DEF Refs
  <2>1. HoldsAgree(p, c)'
    BY <2>0, <1>5, <1>21, <1>26 DEF HoldsAgree
  <2>2. holds'[p]["ip"] = i /\ holds'[p]["dp"] = d /\ locked'[i] = p /\ locked'[d] = p
    BY <2>0, <1>5, <1>13, <1>21, <1>22
  <2>3. \A j \in Inum : locked'[j] = p => j = i \/ j = d
    BY <1>5, <1>22
  <2>4. LocksAgree(p, c)'
    BY <2>2, <2>3, <1>15, <1>26 DEF LocksAgree
  <2>5. FactsAgree(p, c)'
    BY <2>2, <1>5, <1>12, <1>15, <1>19, <1>26 DEF FactsAgree
  <2> QED BY <2>1, <2>4, <2>5 DEF Agrees
<1>28. Chain(todo'[p], c, Idle) /\ \A q \in Proc \ {p} : todo'[q] = todo[q]
  <2>1. Chain(UnlockPut("dp") \o Created(type), c, Idle)
    BY <1>5, <1>26, CreateNewChain
  <2> QED BY <2>1, <1>1, <1>2, <1>12, ThenChain DEF IInv, Types
<1>29. Follows(p)' /\ todo' \in [Proc -> Seq(Steps \cup Dying)]
  BY <1>12, <1>27, <1>28, ChainFollows, TodoTyped DEF IInv
<1>30. ASSUME NEW q \in Proc \ {p} PROVE Leaves(q)
  <2>0. writer # q /\ ~Doing(q, "ifree")
    BY <1>0, WritesAlone
  <2>1. \A j \in Inum : locked'[j] = q <=> locked[j] = q
    BY <1>15, <1>22, InodeAssumption
  <2>2. \A j \in Inum : locked[j] = q => entries'[j] = entries[j]
    BY <1>5, <1>15, <1>19, InodeAssumption
  <2>3. ASSUME NEW x \in Refs, holds[q][x] # None PROVE dinode'[holds[q][x]].type = dinode[holds[q][x]].type
    <3>1. holds[q][x] \in Inum /\ holds[q][x] # i
      BY <2>3, <1>15, <1>16 DEF Types
    <3> QED BY <3>1, <1>19
  <2> QED BY <2>0, <2>1, <2>2, <2>3, <1>12, <1>21, <1>28 DEF Leaves
<1>31. Types'
  <2>1. dinode' \in [Inum -> Inode]
    BY <1>18, <1>19
  <2>2. \A j \in Inum : inode'[j] \in Inode
    <3>1. new \in Inode /\ \A j \in Inum : inode[j] \in Inode
      BY <1>13, <1>16, <1>18, <1>19 DEF Types
    <3>2. [dinode[d] EXCEPT !.nlink = w] \in Inode
      BY <1>5, <1>15, <1>18, <1>19
    <3> QED BY <3>1, <3>2, <1>18
  <2>3. inode' \in [Inum -> Inode]
    BY <2>2, <1>18
  <2>4. ref' \in [Inum -> Nat]
    BY <1>12, <1>13, <1>16 DEF IGet, Types
  <2>5. bitmap' \subseteq Block /\ valid' \subseteq Inum /\ locked' \in [Inum -> Proc \cup {NoProc}] /\ writer' \in Proc \cup {NoProc}
    BY <1>12, <1>13, <1>14, <1>16 DEF Types
  <2>6. holds' \in [Proc -> [Refs -> Inum \cup {None}]]
    BY <1>21 DEF Holding
  <2> QED BY <2>1, <2>3, <2>4, <2>5, <2>6, <1>19, <1>29 DEF Types
<1> QED BY <1>19, <1>23, <1>24, <1>25, <1>29, <1>30, <1>31, Keeps
-----------------------------------------------------------------------------
(* The machine starts, at first or after a crash *)

\* the memory of a machine that has just started
Fresh ==
  /\ writer = NoProc
  /\ ref = [i \in Inum |-> IF i = ROOTINO THEN Cardinality(Proc) ELSE 0]
  /\ locked = [i \in Inum |-> NoProc] /\ valid = {} /\ inode = [i \in Inum |-> Unused]
  /\ todo = [p \in Proc |-> <<>>]
  /\ holds = [p \in Proc |-> [x \in Refs |-> IF x = "cwd" THEN ROOTINO ELSE None]]

DiskTypes ==
  /\ dinode \in [Inum -> Inode] /\ bitmap \subseteq Block
  /\ entries \in [Inum -> [Name \cup {".."} -> Inum \cup {None}]]

\* every process holds the root, and nothing else is held
LEMMA FreshRefs ==
  ASSUME Fresh
  PROVE  RefsExact
<1>1. \A p \in Proc, x \in Refs : holds[p][x] = IF x = "cwd" THEN ROOTINO ELSE None
  BY DEF Fresh
<1>2. ROOTINO # None /\ "cwd" \in Refs /\ IsFiniteSet(Proc) /\ \A i \in Inum : i # None
  BY InodeAssumption DEF ROOTINO, None, Refs
<1>3. ASSUME NEW i \in Inum PROVE ref[i] = Holders(i)
  <2>1. CASE i = ROOTINO
    <3>1. Places(Proc, Refs, holds, i) = Proc \X {"cwd"}
      BY <1>1, <1>2, <2>1 DEF Places
    <3>2. IsFiniteSet({"cwd"}) /\ Cardinality({"cwd"}) = 1
      BY FS_Singleton, Zenon
    <3>3. Cardinality(Proc \X {"cwd"}) = Cardinality(Proc) * 1
      BY <1>2, <3>2, FS_Product
    <3>4. Cardinality(Proc) \in Nat
      BY <1>2, FS_CardinalityType
    <3>5. ref[i] = Cardinality(Proc)
      BY <2>1 DEF Fresh
    <3>6. Holders(i) = Cardinality(Proc \X {"cwd"})
      BY <3>1 DEF Holders
    <3> QED BY <3>3, <3>4, <3>5, <3>6
  <2>2. CASE i # ROOTINO
    <3>1. Places(Proc, Refs, holds, i) = {}
      BY <1>1, <1>2, <2>2 DEF Places
    <3>2. Holders(i) = 0
      BY <3>1, FS_EmptySet DEF Holders
    <3>3. ref[i] = 0
      BY <2>2 DEF Fresh
    <3> QED BY <3>2, <3>3
  <2> QED BY <2>1, <2>2
<1> QED BY <1>3, RefsExactIs

\* A machine that starts on a disk in order is in order, ...
LEMMA FreshFollows ==
  Fresh /\ DiskTypes /\ DiskInv => IInv
<1>. SUFFICES ASSUME Fresh, DiskTypes, DiskInv PROVE IInv
  OBVIOUS
<1>1. /\ ROOTINO # None /\ ROOTINO \in Inum /\ NoProc \notin Proc
      /\ \A p \in Proc, x \in Refs : holds[p][x] = IF x = "cwd" THEN ROOTINO ELSE None
      /\ "cwd" \in Refs
  BY InodeAssumption DEF ROOTINO, None, Refs, Fresh
<1>2. Types
  <2>1. Unused \in Inode
    BY DEF Unused, Inode
  <2>2. Cardinality(Proc) \in Nat
    BY InodeAssumption, FS_CardinalityType
  <2>3. inode \in [Inum -> Inode] /\ locked \in [Inum -> Proc \cup {NoProc}] /\ valid \subseteq Inum
    BY <2>1 DEF Fresh
  <2>4. ref \in [Inum -> Nat] /\ writer \in Proc \cup {NoProc}
    BY <2>2 DEF Fresh
  <2>5. holds \in [Proc -> [Refs -> Inum \cup {None}]]
    BY <1>1 DEF Fresh
  <2>6. <<>> \in Seq(Steps \cup Dying)
    OBVIOUS
  <2>7. todo \in [Proc -> Seq(Steps \cup Dying)]
    BY <2>6 DEF Fresh
  <2> QED BY <2>3, <2>4, <2>5, <2>7 DEF Types, DiskTypes
<1>3. CacheInv
  BY DEF CacheInv, Fresh
<1>4. HeldInv
  <2>1. Links(ROOTINO) >= 1 /\ Links(ROOTINO) <= dinode[ROOTINO].nlink
    BY <1>1, RootHasLink DEF DiskInv, LinksInv
  <2>2. Links(ROOTINO) \in Nat
    BY <1>1, LinksNat
  <2>3. dinode[ROOTINO].type # "none"
    BY <1>1, <2>1, <2>2 DEF DiskInv, FreeInv, Unused
  <2> QED BY <2>3, <1>1 DEF HeldInv
<1>5. ASSUME NEW p \in Proc PROVE Follows(p)
  <2>1. Idle \in State /\ Idle.held = {} /\ Idle.locks = {} /\ Idle.facts = {} /\ Idle.name = "."
    BY KnownStates DEF Idle, St
  <2>2. HoldsAgree(p, Idle)
    BY <1>1, <2>1 DEF HoldsAgree, Refs
  <2>3. \A i \in Inum : locked[i] # p
    BY <1>1 DEF Fresh
  <2>4. LocksAgree(p, Idle)
    BY <2>1, <2>3 DEF LocksAgree
  <2>5. FactsAgree(p, Idle)
    BY <1>1, <2>1 DEF FactsAgree, Fresh
  <2>6. Chain(todo[p], Idle, Idle)
    BY <2>1, ChainEmpty DEF Fresh
  <2> QED BY <2>1, <2>2, <2>4, <2>5, <2>6 DEF Follows, Agrees
<1> QED BY <1>2, <1>3, <1>4, <1>5, FreshRefs DEF IInv

\* ... in the next state, too.
LEMMA FreshFollowsNext == (Fresh /\ DiskTypes /\ DiskInv => IInv)'
  BY FreshFollows, PTL

\* A stop between two transactions keeps the invariant.
LEMMA CrashKeeps ==
  ASSUME IInv, Crash
  PROVE  IInv'
<1>1. UNCHANGED ondisk /\ DiskInv'
  BY QuietDisk DEF Crash, IInv
<1>2. DiskTypes'
  BY <1>1 DEF IInv, Types, DiskTypes, ondisk
<1>3. Fresh'
  BY DEF Crash, Fresh
<1> QED BY <1>1, <1>2, <1>3, FreshFollowsNext

\* a new file system
LEMMA InitIsRight ==
  ASSUME FsInit
  PROVE  IInv
<1>1. /\ ROOTINO # None /\ ROOTINO \in Inum /\ 1 \in Block /\ ROOTINO \in Nat
      /\ \A i \in Inum : i # None
      /\ ".." \notin Name
  BY InodeAssumption DEF ROOTINO, None
<1>2. /\ dinode[ROOTINO] = [type |-> "dir", nlink |-> 1, addrs |-> {1}]
      /\ \A i \in Inum : i # ROOTINO => dinode[i] = Unused
      /\ dinode \in [Inum -> Inode]
  <2>1. Unused \in Inode /\ [type |-> "dir", nlink |-> 1, addrs |-> {1}] \in Inode
    BY <1>1 DEF Unused, Inode
  <2> QED BY <1>1, <2>1 DEF FsInit, Init
<1>3. /\ NoEntries \in [Name \cup {".."} -> Inum \cup {None}] /\ \A n \in Name : NoEntries[n] = None
      /\ entries \in [Inum -> [Name \cup {".."} -> Inum \cup {None}]]
      /\ \A i \in Inum : i # ROOTINO => entries[i] = NoEntries
      /\ \A i \in Inum, n \in Name : entries[i][n] = None
      /\ entries[ROOTINO][".."] = ROOTINO
  <2>1. NoEntries \in [Name \cup {".."} -> Inum \cup {None}] /\ \A n \in Name \cup {".."} : NoEntries[n] = None
    BY DEF NoEntries
  <2>. DEFINE E == [NoEntries EXCEPT ![".."] = ROOTINO]
  <2>2. E \in [Name \cup {".."} -> Inum \cup {None}] /\ E[".."] = ROOTINO /\ \A n \in Name : E[n] = None
    BY <1>1, <2>1
  <2>3. entries = [i \in Inum |-> IF i = ROOTINO THEN E ELSE NoEntries]
    BY DEF FsInit, Init
  <2>. HIDE DEF E
  <2> QED BY <1>1, <2>1, <2>2, <2>3
<1>4. bitmap = {1}
  BY <1>2 DEF FsInit, Init
<1>5. DiskTypes
  BY <1>1, <1>2, <1>3, <1>4 DEF DiskTypes
<1>6. FreeInv /\ TreeInv
  <2>1. FreeInv
    BY <1>2 DEF FreeInv
  <2>2. \A i \in Inum : dinode[i].type = "dir" => i = ROOTINO
    BY <1>2 DEF Unused
  <2>3. dinode[ROOTINO].type = "dir"
    BY <1>2
  <2> QED BY <2>1, <2>2, <2>3, <1>1, <1>3 DEF TreeInv, IsDir
<1>7. BlockInv
  <2>1. dinode[ROOTINO].addrs = {1} /\ \A i \in Inum : i # ROOTINO => dinode[i].addrs = {}
    BY <1>2 DEF Unused
  <2> QED BY <2>1, <1>1, <1>4 DEF BlockInv
<1>8. ASSUME NEW i \in Inum PROVE Links(i) <= dinode[i].nlink
  <2>1. Places(Inum, Name, entries, i) = {}
    BY <1>1, <1>3 DEF Places
  <2>2. {n \in Name : IsDir(entries[i][n])} = {}
    BY <1>3 DEF IsDir
  <2>3. NamesOf(i) = 0 /\ SubDirs(i) = 0
    BY <2>1, <2>2, FS_EmptySet DEF NamesOf, SubDirs
  <2>4. Links(i) = IF i = ROOTINO THEN 1 ELSE 0
    BY <2>3, LinksIs DEF Root
  <2> QED BY <2>4, <1>2 DEF Unused
<1>9. Fresh
  BY DEF FsInit, Init, Fresh
<1> QED BY <1>5, <1>6, <1>7, <1>8, <1>9, FreshFollows DEF DiskInv, LinksInv

\* Every step of a call keeps the invariant.
LEMMA CallsKeep ==
  ASSUME IInv, ~Trespass, ~Exhausted, NEW p \in Proc, Step(p), ~Stray(p)
  PROVE  IInv'
<1>1. CASE BeginTrans(p) \/ CommitTrans(p) \/ LockInode(p) \/ UnlockInode(p)
  BY <1>1, BeginTransKeeps, CommitTransKeeps, LockInodeKeeps, UnlockInodeKeeps
<1>2. CASE PutInode(p) \/ FreeInode(p)
  BY <1>2, PutDyingKeeps, PutKeeps, FreeInodeKeeps
<1>3. CASE WalkStarts(p) \/ Walk(p) \/ WalkEnds(p)
  BY <1>3, WalkStartsKeeps, WalkKeeps, WalkEndsKeeps
<1>4. CASE OpenFile(p) \/ ChangeDir(p) \/ WriteInode(p)
  BY <1>4, OpenFileKeeps, ChangeDirKeeps, WriteInodeKeeps
<1>5. CASE CreateOld(p) \/ CreatedOld(p) \/ CreateNew(p)
  BY <1>5, CreateOldKeeps, CreatedOldKeeps, CreateNewKeeps
<1>6. CASE UnlinkLookup(p) \/ UnlinkEntry(p) \/ DecLink(p)
  BY <1>6, UnlinkLookupKeeps, UnlinkEntryKeeps, DecLinkKeeps
<1>7. CASE IncLink(p) \/ DirLink(p)
  BY <1>7, IncLinkKeeps, DirLinkKeeps
<1> QED BY <1>1, <1>2, <1>3, <1>4, <1>5, <1>6, <1>7 DEF Step

\* So does a step that changes nothing, ...
LEMMA IdleKeeps ==
  ASSUME IInv, UNCHANGED fsvars
  PROVE  IInv'
<1>1. /\ UNCHANGED ondisk /\ UNCHANGED <<ref, locked, valid, inode, writer, holds, todo>>
      /\ UNCHANGED <<dinode, entries, bitmap>>
  BY DEF fsvars, ondisk, icache
<1>2. Types' /\ RefsExact' /\ CacheInv' /\ HeldInv'
  BY <1>1 DEF IInv, Types, RefsExact, CacheInv, HeldInv
<1>3. DiskInv'
  BY <1>1, QuietDisk DEF IInv
<1>4. ASSUME NEW q \in Proc PROVE Follows(q)'
  <2>1. Doing(q, "ifree") => ref'[At(q)] = ref[At(q)]
    BY <1>1
  <2>2. Leaves(q)
    BY <1>1, <2>1, QuietLeaves
  <2> QED BY <2>2, LeavesFollows DEF IInv
<1> QED BY <1>2, <1>3, <1>4 DEF IInv

\* ... and every step of the machine.
LEMMA NextKeeps ==
  ASSUME IInv, [Next]_fsvars
  PROVE  IInv'
<1>1. CASE UNCHANGED fsvars
  BY <1>1, IdleKeeps
<1>2. CASE Next
  <2>1. ~Trespass /\ ~Exhausted
    BY <1>2 DEF Next
  <2>2. CASE Crash
    BY <2>2, CrashKeeps
  <2>3. ASSUME NEW p \in Proc, Call(p) PROVE IInv'
    BY <2>3, CallKeeps
  <2>4. ASSUME NEW p \in Proc, Step(p), ~Stray(p) PROVE IInv'
    BY <2>1, <2>4, CallsKeep
  <2> QED BY <1>2, <2>2, <2>3, <2>4 DEF Next
<1> QED BY <1>1, <1>2

\* Whatever the calls of the processes do and whenever the machine stops between two
\* transactions, the references, the locks, the cache and the disk agree as IInv says.
THEOREM FileInvariance == Spec => []IInv
  BY InitIsRight, NextKeeps, PTL DEF Spec
-----------------------------------------------------------------------------
(* What the invariant is for *)

\* Every reference that is counted is held by a process, and every one that a
\* process holds is counted.
THEOREM ReferencesAreExact == Spec => []RefsExact
<1>1. IInv => RefsExact
  BY DEF IInv
<1> QED BY <1>1, FileInvariance, PTL

\* An inode in memory that nobody has locked is the one on the disk.
THEOREM MemoryIsCoherent == Spec => []CacheCoherent
<1>1. IInv => CacheCoherent
  BY DEF IInv, CacheInv, CacheCoherent
<1> QED BY <1>1, FileInvariance, PTL

\* What a commit leaves on the disk: links, names, ".." and blocks agree.
THEOREM CommitsAreConsistent == Spec => []DiskConsistent
<1>1. ASSUME IInv PROVE DiskConsistent
  <2>1. \A i \in Inum : /\ Links(i) <= dinode[i].nlink
                        /\ dinode[i].type = "none" => dinode[i].nlink = 0 /\ dinode[i].addrs = {}
    BY <1>1 DEF IInv, DiskInv, LinksInv, FreeInv, Unused
  <2>2. \A d \in Inum, n \in Name : IsDir(entries[d][n]) =>
          /\ entries[entries[d][n]][".."] = d
          /\ \A m \in Name \ {n} : entries[d][m] # entries[d][n]
    BY <1>1 DEF IInv, DiskInv, TreeInv
  <2>3. /\ bitmap = UNION {dinode[i].addrs : i \in Inum}
        /\ \A i \in Inum, j \in Inum : i # j => dinode[i].addrs \cap dinode[j].addrs = {}
    BY <1>1 DEF IInv, DiskInv, BlockInv
  <2> QED BY <2>1, <2>2, <2>3 DEF DiskConsistent
<1> QED BY <1>1, FileInvariance, PTL

\* What is read of an inode is what is on the disk.
LEMMA CachedIsDisk ==
  ASSUME IInv, NEW i \in Inum
  PROVE  Loaded(i) = dinode[i] /\ (locked[i] # NoProc => inode[i] = dinode[i])
  BY DEF IInv, CacheInv, Loaded

\* What p has locked it holds.
LEMMA LocksAreHeld ==
  ASSUME NEW p \in Proc, NEW a \in State, Agrees(p, a), NEW x \in a.locks
  PROVE  x \in a.held /\ locked[holds[p][x]] = p
  BY DEF Agrees, LocksAgree

\* what ilock() and the walk of namex() lock is held, and not by p itself
LEMMA WaitsForOthers ==
  ASSUME IInv, NEW p \in Proc, todo[p] # <<>>, Now(p).f \in {"ilock", "walk"}
  PROVE  /\ At(p) \in Inum /\ dinode[At(p)].type # "none" /\ locked[At(p)] # p
<1>1. PICK a \in State, b \in State : Agrees(p, a) /\ Now(p) \in Steps /\ Does(Now(p), a, b)
  BY NowDoes DEF IInv
<1>2. HoldsAgree(p, a) /\ LocksAgree(p, a) /\ FactsAgree(p, a) /\ Types
  BY <1>1 DEF Agrees, IInv
<1>3. /\ Now(p).x \in a.held
      /\ \/ a.locks = {}
         \/ Now(p).x = "ip" /\ a.locks = {"dp"} /\ a.name # "."
  <2>1. CASE Now(p).f = "ilock"
    BY <1>1, <2>1, DoesILock
  <2>2. CASE Now(p).f = "walk"
    <3>1. PICK c \in State : /\ Now(p).x \notin c.held /\ Before(Now(p).fail, c) /\ a = During(Now(p).x, c)
      BY <1>1, <2>2, DoesWalk
    <3>2. Now(p).x \in {"ip", "dp"}
      BY <1>1, <2>2, StepHas
    <3> QED BY <3>1, <3>2, DuringIs
  <2> QED BY <2>1, <2>2
<1>4. Now(p).x \in Refs /\ holds[p][Now(p).x] \in Inum /\ holds[p][Now(p).x] # None
  BY <1>2, <1>3, HeldSlot
<1>5. At(p) = holds[p][Now(p).x]
  BY DEF At
<1>6. dinode[At(p)].type # "none"
  BY <1>4, <1>5 DEF IInv, HeldInv
<1>7. ASSUME locked[At(p)] = p PROVE FALSE
  <2>1. PICK x \in a.locks : holds[p][x] = At(p)
    BY <1>2, <1>4, <1>5, <1>7 DEF LocksAgree
  <2>2. Now(p).x = "ip" /\ x = "dp" /\ a.name # "."
    BY <1>3, <2>1
  <2>3. entries[At(p)][a.name] = At(p)
    BY <1>2, <1>5, <2>1, <2>2 DEF FactsAgree
  <2>4. a.name \in Name
    BY <2>2, StateIsSt
  <2> QED BY <1>4, <1>5, <2>3, <2>4 DEF IInv, DiskInv, TreeInv
<1> QED BY <1>4, <1>5, <1>6, <1>7

\* The panics of fs.c and sysfile.c that stand for a mistake in the file system
\* do not happen.
THEOREM FilesNeverPanic == Spec => []NeverPanics
<1>1. ASSUME IInv, NEW p \in Proc, todo[p] # <<>>
      PROVE  LET i == At(p) IN
             /\ Now(p).f \in {"ilock", "walk"} /\ locked[i] = NoProc => Loaded(i).type # "none"
             /\ Now(p).f = "iunlock" => locked[i] = p /\ ref[i] > 0
             /\ Now(p).f = "iput" /\ Dies(i) => locked[i] = NoProc
             /\ Now(p).f = "ifree" => inode[i].addrs \subseteq bitmap
             /\ Now(p).f \in {"create", "dirlookup", "dirlink"} => inode[i].type = "dir"
             /\ Now(p).f = "unlink" => inode[holds[p].ip].nlink > 0
  <2>1. CASE Now(p).f \in {"ilock", "walk"}
    <3>1. Loaded(At(p)).type # "none"
      BY <1>1, <2>1, WaitsForOthers, CachedIsDisk
    <3> QED BY <2>1, <3>1
  <2>2. CASE Now(p).f = "ifree"
    <3>1. /\ At(p) \in Inum /\ locked[At(p)] = p
      BY <1>1, <2>2, FreedIsLonely DEF Doing, Now, IInv
    <3>2. inode[At(p)] = dinode[At(p)]
      BY <1>1, <3>1, CachedIsDisk, InodeAssumption
    <3>3. dinode[At(p)].addrs \subseteq bitmap
      BY <1>1, <3>1 DEF IInv, DiskInv, BlockInv
    <3> QED BY <2>2, <3>2, <3>3
  <2>3. CASE Now(p).f \notin {"ilock", "walk", "ifree"}
    <3>1. PICK a \in State, b \in State : Agrees(p, a) /\ Now(p) \in Steps /\ Does(Now(p), a, b)
      BY <1>1, <2>3, NowDoes DEF IInv
    <3>2. HoldsAgree(p, a) /\ LocksAgree(p, a) /\ FactsAgree(p, a) /\ Types /\ NoProc # p
      BY <1>1, <3>1, InodeAssumption DEF Agrees, IInv
    <3>3. At(p) = holds[p][Now(p).x]
      BY DEF At
    <3>4. CASE Now(p).f = "iunlock"
      <4>1. Now(p).x \in a.locks
        BY <3>1, <3>4, DoesIUnlock
      <4>2. Now(p).x \in a.held /\ locked[At(p)] = p
        BY <3>1, <3>3, <4>1, LocksAreHeld
      <4>3. Now(p).x \in Refs /\ At(p) \in Inum
        BY <3>2, <3>3, <4>2, HeldSlot
      <4>4. ref[At(p)] >= 1 /\ ref[At(p)] \in Nat
        BY <1>1, <3>2, <3>3, <4>3, HeldIsCounted DEF IInv, Types
      <4> QED BY <3>4, <4>2, <4>4
    <3>5. CASE Now(p).f = "iput"
      <4>1. Now(p).x \notin a.locks /\ Now(p).x \in a.held
        BY <3>1, <3>5, DoesIPut DEF CanDrop
      <4>2. Now(p).x \in Refs \ a.locks /\ holds[p][Now(p).x] \in Inum
        BY <3>2, <4>1, HeldSlot
      <4>3. Dies(At(p)) => locked[At(p)] = NoProc
        BY <1>1, <3>1, <3>3, <4>2, LastIsUnlocked DEF Dies
      <4> QED BY <3>5, <4>3
    <3>6. CASE Now(p).f \in {"create", "dirlookup", "dirlink"}
      <4>1. Now(p).x = "dp" /\ "dp" \in a.locks /\ "dir" \in a.facts
        <5>1. CASE Now(p).f = "create"
          BY <3>1, <5>1, DoesCreate, StepHas DEF St
        <5>2. CASE Now(p).f = "dirlookup"
          BY <3>1, <5>2, DoesDirLookup DEF St
        <5>3. CASE Now(p).f = "dirlink"
          BY <3>1, <5>3, DoesDirLink DEF St
        <5> QED BY <3>6, <5>1, <5>2, <5>3
      <4>2. "dp" \in a.held /\ locked[At(p)] = p
        BY <3>1, <3>3, <4>1, LocksAreHeld
      <4>3. At(p) \in Inum
        BY <3>2, <3>3, <4>1, <4>2, HeldSlot
      <4>4. dinode[At(p)].type = "dir"
        BY <3>2, <3>3, <4>1 DEF FactsAgree
      <4>5. inode[At(p)].type = "dir"
        BY <1>1, <3>2, <4>2, <4>3, <4>4, CachedIsDisk
      <4> QED BY <3>6, <4>5
    <3>7. CASE Now(p).f = "unlink"
      <4>1. /\ "ip" \in a.locks /\ "dp" \in a.locks /\ a.name = LastName(Now(p).path)
            /\ LastName(Now(p).path) \in Name
        BY <3>1, <3>7, DoesUnlink DEF St
      <4>2. "ip" \in a.held /\ locked[holds[p]["ip"]] = p /\ "dp" \in a.held
        BY <3>1, <4>1, LocksAreHeld
      <4>3. holds[p]["ip"] \in Inum /\ holds[p]["dp"] \in Inum
        BY <3>2, <4>2, HeldSlot
      <4>4. entries[holds[p]["dp"]][a.name] = holds[p]["ip"]
        BY <3>2, <4>1, InodeAssumption DEF FactsAgree
      <4>5. Links(holds[p]["ip"]) >= 1
        BY <4>1, <4>3, <4>4, NamedHasLink
      <4>6. Links(holds[p]["ip"]) <= dinode[holds[p]["ip"]].nlink
        BY <1>1, <4>3 DEF IInv, DiskInv, LinksInv
      <4>7. dinode[holds[p]["ip"]].nlink \in Nat /\ Links(holds[p]["ip"]) \in Nat
        BY <3>2, <4>3, LinksNat DEF Types, Inode
      <4>8. inode[holds[p]["ip"]] = dinode[holds[p]["ip"]]
        BY <1>1, <3>2, <4>2, <4>3, CachedIsDisk
      <4> QED BY <3>7, <4>5, <4>6, <4>7, <4>8
    <3> QED BY <2>3, <3>4, <3>5, <3>6, <3>7
  <2> QED BY <2>1, <2>2, <2>3
<1>2. IInv => NeverPanics
  BY <1>1 DEF NeverPanics
<1> QED BY <1>2, FileInvariance, PTL

\* p does not wait
Goes(p) ==
  /\ todo[p] # <<>>
  /\ Now(p).f = "begin_trans" => writer = NoProc
  /\ Now(p).f \in {"ilock", "walk"} => locked[At(p)] = NoProc

\* a process with a lock but without the log waits for nothing
LEMMA ReaderGoes ==
  ASSUME IInv, NEW q \in Proc, NEW i \in Inum, locked[i] = q, writer # q
  PROVE  Goes(q)
<1>1. PICK a \in State : Agrees(q, a) /\ (Chain(todo[q], a, Idle) \/ Frees(q, a))
  BY DEF IInv, Follows
<1>2. a.locks # {} /\ "trans" \notin a.facts
  BY <1>1 DEF Agrees, LocksAgree, FactsAgree
<1>3. a # Idle
  BY <1>2 DEF Idle, St
<1>4. CASE Frees(q, a)
  BY <1>4 DEF Frees, Dying, Goes
<1>5. CASE Chain(todo[q], a, Idle)
  <2>1. todo[q] # <<>>
    BY <1>3, <1>5, ChainEmpty
  <2>2. PICK b \in State : Does(Now(q), a, b)
    BY <1>5, <2>1, ChainHead DEF Now
  <2>3. Now(q) \in Steps
    BY <1>5, <2>1, ChainHead DEF Now
  <2>4. Now(q).f # "begin_trans"
    BY <1>2, <2>2, DoesBegin
  <2>5. Now(q).f # "ilock"
    BY <1>2, <2>2, DoesILock
  <2>6. Now(q).f # "walk"
    <3>1. ASSUME Now(q).f = "walk" PROVE FALSE
      <4>1. PICK c \in State : /\ Now(q).x \notin c.held /\ Before(Now(q).fail, c) /\ a = During(Now(q).x, c)
        BY <2>2, <3>1, DoesWalk
      <4>2. Now(q).x \in {"ip", "dp"}
        BY <2>3, <3>1, StepHas
      <4> QED BY <1>2, <4>1, <4>2, DuringIs
    <3> QED BY <3>1
  <2> QED BY <2>1, <2>4, <2>5, <2>6 DEF Goes
<1> QED BY <1>1, <1>4, <1>5

\* the process with the log is in a call, and does not wait for the log
LEMMA WriterIsBusy ==
  ASSUME IInv, NEW p \in Proc, writer = p
  PROVE  todo[p] # <<>> /\ Now(p).f # "begin_trans"
<1>1. PICK a \in State : Agrees(p, a) /\ (Chain(todo[p], a, Idle) \/ Frees(p, a))
  BY DEF IInv, Follows
<1>2. "trans" \in a.facts
  BY <1>1 DEF Agrees, FactsAgree
<1>3. a # Idle
  BY <1>2 DEF Idle, St
<1>4. CASE Frees(p, a)
  BY <1>4 DEF Frees, Dying
<1>5. CASE Chain(todo[p], a, Idle)
  <2>1. todo[p] # <<>>
    BY <1>3, <1>5, ChainEmpty
  <2>2. PICK b \in State : Does(Now(p), a, b)
    BY <1>5, <2>1, ChainHead DEF Now
  <2> QED BY <1>2, <2>1, <2>2, DoesBegin
<1> QED BY <1>1, <1>4, <1>5

\* Processes that lock inodes and wait for the log never wait in a circle: while a
\* call is under way, somebody can go on.
THEOREM FilesNeverWaitInACircle == Spec => []NoCircularWait
<1>1. ASSUME IInv, NEW p \in Proc, todo[p] # <<>> PROVE \E q \in Proc : Goes(q)
  <2>1. PICK w \in Proc : todo[w] # <<>> /\ writer \in {w, NoProc} /\ (writer = w => Now(w).f # "begin_trans")
    <3>1. CASE writer = NoProc
      BY <1>1, <3>1, InodeAssumption
    <3>2. CASE writer # NoProc
      <4>1. writer \in Proc
        BY <1>1, <3>2 DEF IInv, Types
      <4> QED BY <1>1, <4>1, WriterIsBusy
    <3> QED BY <3>1, <3>2
  <2>2. CASE ~Goes(w)
    <3>1. Now(w).f \in {"ilock", "walk"} /\ locked[At(w)] # NoProc
      BY <2>1, <2>2 DEF Goes
    <3>2. At(w) \in Inum /\ locked[At(w)] # w
      BY <1>1, <2>1, <3>1, WaitsForOthers
    <3>3. locked[At(w)] \in Proc
      BY <1>1, <3>1, <3>2 DEF IInv, Types
    <3>4. writer # locked[At(w)]
      BY <2>1, <3>1, <3>2
    <3> QED BY <1>1, <3>2, <3>3, <3>4, ReaderGoes
  <2> QED BY <2>2
<1>2. IInv => NoCircularWait
  BY <1>1 DEF NoCircularWait, Goes
<1> QED BY <1>2, FileInvariance, PTL
==============================================================================
