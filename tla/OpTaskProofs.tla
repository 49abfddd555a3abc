---------------------------- MODULE OpTaskProofs ----------------------------
(***************************************************************************)
(* The inductive invariant of OpEngine, the types of its variables, and    *)
(* the steps of an operation once it is there: its tasks are handed to the *)
(* pool, sent, started, polled, recorded in ZooKeeper and canceled, and it *)
(* is deleted.  OpEngineProofs has the steps that create operations and    *)
(* read them back from ZooKeeper, and the theorems.                        *)
(***************************************************************************)
EXTENDS OpEngine, TLAPS

\* A step that names no prover has a minute for each.
USE SMTT(60), ZenonT(60)

MemType(n) == [status : Status \cup {"none"}, index : 0 .. n, front : Status,
               sent : BOOLEAN, checks : 0 .. CheckLimit + 1]
NodeType(n) == [status : Status \cup {"none"}, index : 0 .. n]
TaskStates == {"none", "doing", "done", "failed", "canceled"}
PoolPc == {"queued", "call", "accepted", "refused", "answered", "first", "failed"}

VecType == task_vec \in Seq(Ops) /\ IsInjective(task_vec)
MemOK == /\ mem = [o \in Ops |-> mem[o]]
         /\ \A o \in Ops : mem[o] \in MemType(Len(TasksOf(o)))
NodeOK == /\ zk = [o \in Ops |-> zk[o]]
          /\ \A o \in Ops : zk[o] \in NodeType(Len(TasksOf(o)))
DoneType == done_op_list \in Seq([op : Ops, status : {"done", "failed", "canceled"}])
PtType == pt \in [pc : {"run", "zk", "collect", "tablet", "erase"}, op : Ops \cup {0}]
PoolType == pool \subseteq [op : Ops, task : Tasks, pc : PoolPc]
PollType == poll \in [pc : {"idle", "answered"}, stale : BOOLEAN, resp : [Ops \X Tasks -> TaskStates]]
IdType == /\ load \in Workloads /\ op_index \in Ops \cup {0} /\ op_index <= MaxOps
          /\ parent \in [Ops -> Ops \cup {0}]
TabletType == /\ net \subseteq Ops \X (Tasks \cup {0}) /\ tablet \in [Ops \X Tasks -> TaskStates]
              /\ tablet_up \in BOOLEAN
HistType == /\ ran \in [Ops \X Tasks -> Nat] /\ succeeded \subseteq Ops \X Tasks
            /\ begun \subseteq Ops /\ canceled \subseteq Ops /\ deleted \subseteq Ops
StateType == faults \in 0 .. MaxFaults /\ ns \in {"down", "recovering", "running"}

\* An operation that was not created yet.
Unborn ==
    \A o \in Ops : o > op_index =>
        /\ o \notin Range(task_vec) /\ ~InDoneList(o) /\ o \notin deleted /\ o \notin canceled
        /\ mem[o].index = 0 /\ zk[o] = NoNode /\ parent[o] = 0

TInv == /\ VecType /\ MemOK /\ NodeOK /\ DoneType /\ PtType /\ PoolType /\ PollType
        /\ IdType /\ TabletType /\ HistType /\ StateType /\ Unborn

-----------------------------------------------------------------------------
(* The invariant.                                                          *)

Seen == {m \in Ops \X Tasks : \/ ran[m] > 0 \/ m \in net
                              \/ \E r \in pool : <<r.op, r.task>> = m}

\* The work of the tasks up to n has succeeded.
Good(o, u) == <<o, u>> \in succeeded \/ TasksOf(o)[u] = "normal"
UpTo(o, n) == \A u \in 1 .. n : Good(o, u)
FreshFrom(o, n) == \A t \in Tasks : t >= n => <<o, t>> \notin Seen

\* An operation of the list.
Listed(o) ==
    /\ o <= op_index /\ mem[o].status \in {"inited", "doing", "canceled"}
    /\ mem[o].status = "inited" =>
          mem[o].index = 0 /\ mem[o].front = "inited" /\ FreshFrom(o, 1)
    /\ FreshFrom(o, mem[o].index + 2)
    /\ mem[o].front = "inited" /\ ~NoTaskLeft(o) /\ FrontKind(o) = "tablet" =>
          FreshFrom(o, mem[o].index + 1)
    /\ UpTo(o, mem[o].index) /\ (FrontDone(o) => Good(o, mem[o].index + 1))
    /\ mem[o].status = "doing" => zk[o].status # "inited"
    /\ zk[o].status # "none" => zk[o].index = mem[o].index

\* An operation's node.
Noded(o) ==
    /\ zk[o].status = "none" => zk[o] = NoNode
    /\ zk[o].status = "inited" => zk[o].index = 0 /\ FreshFrom(o, 1)
    /\ zk[o].status # "none" => UpTo(o, zk[o].index) /\ FreshFrom(o, zk[o].index + 2)

Once ==
    \A o \in Ops : \A t \in DOMAIN TasksOf(o) : TasksOf(o)[t] = "tablet" =>
        /\ ran[<<o, t>>] <= 1
        /\ <<o, t>> \in net => ran[<<o, t>>] = 0
        /\ [op |-> o, task |-> t, pc |-> "queued"] \in pool =>
              ran[<<o, t>>] = 0 /\ <<o, t>> \notin net

InOrder == \A o \in Ops, t \in Tasks : <<o, t>> \in Seen => UpTo(o, t - 1) /\ o <= op_index

\* The functions in the pool.  One that failed in WrapNormalTaskFun goes on alone.
Pooled ==
    \A r \in pool :
        /\ r.task \in DOMAIN TasksOf(r.op) /\ r.op <= op_index
        /\ r.pc \notin {"queued", "failed"} => Kind(r) = "tablet"
        /\ r.pc = "queued" /\ IsFront(r) /\ Kind(r) # "tablet" =>
              mem[r.op].front \in {"doing", "canceled"}
        /\ r.pc = "failed" =>
              /\ Kind(r) = "normal" /\ [op |-> r.op, task |-> r.task, pc |-> "queued"] \notin pool
              /\ IsFront(r) => mem[r.op].front # "inited"

Answers == \A m \in Ops \X Tasks :
              (tablet[m] = "done" \/ poll.resp[m] = "done") => m \in succeeded

Reported ==
    /\ \A i, j \in DOMAIN done_op_list : done_op_list[i].op = done_op_list[j].op => i = j
    /\ \A i \in DOMAIN done_op_list :
          /\ done_op_list[i].op \notin Range(task_vec)
          /\ done_op_list[i].status = "done" =>
                /\ UpTo(done_op_list[i].op, Len(TasksOf(done_op_list[i].op)))
                /\ zk[done_op_list[i].op].status = "none"
                /\ done_op_list[i].op \notin canceled

\* What CollectDone found to be finished still is.
Collected ==
    /\ pt.op <= op_index
    /\ pt.pc \in {"tablet", "erase"} /\ pt.op \in Range(task_vec) =>
          Finished(pt.op) \/ (FrontDone(pt.op) /\ FrontKind(pt.op) = "normal")

Decided ==
    /\ \A o \in canceled : o \in Range(task_vec) => mem[o].status = "canceled"
    /\ \A o \in deleted : o \notin Range(task_vec) /\ ~InDoneList(o) /\ zk[o].status = "none"

Down == ns = "down" => pool = {} /\ canceled = {} /\ task_vec = <<>> /\ pt.op = 0

WInv == /\ \A o \in Range(task_vec) : Listed(o)
        /\ \A o \in Ops : Noded(o)
        /\ Once /\ InOrder /\ Pooled /\ Answers /\ Reported /\ Collected /\ Decided /\ Down

IInv == TInv /\ WInv

-----------------------------------------------------------------------------
(* Sequences.                                                              *)

LEMMA SetOf ==
    ASSUME NEW S, NEW s \in Seq(S)
    PROVE  /\ \A x : x \in Range(s) <=> \E i \in 1 .. Len(s) : s[i] = x
           /\ Range(s) \subseteq S /\ DOMAIN s = 1 .. Len(s) /\ Len(s) \in Nat
           /\ s # <<>> => Head(s) \in Range(s) /\ Head(s) = s[1] /\ Len(s) > 0
BY DEF Range

LEMMA AppendFact ==
    ASSUME NEW S, NEW s \in Seq(S), NEW e \in S, NEW q, q = Append(s, e)
    PROVE  /\ q \in Seq(S) /\ Len(q) = Len(s) + 1
           /\ \A j \in 1 .. Len(q) : q[j] = IF j <= Len(s) THEN s[j] ELSE e
OBVIOUS

LEMMA TwoLists ==
    ASSUME NEW S, NEW a \in Seq(S), NEW b \in Seq(S)
    PROVE  a \o b \in Seq(S) /\ Len(a \o b) = Len(a) + Len(b)
OBVIOUS

LEMMA JoinAt ==
    ASSUME NEW S, NEW a \in Seq(S), NEW b \in Seq(S), NEW j \in 1 .. Len(a) + Len(b), j > Len(a)
    PROVE  (a \o b)[j] = b[j - Len(a)]
OBVIOUS

\* Numbers that Zenon is told of.
LEMMA Numbers ==
    /\ \A n \in Nat : \A i \in 0 .. n : i \in Nat
    /\ \A a, b, c \in Nat : a <= b /\ b <= c => a <= c
    /\ \A a \in Nat : 0 <= a /\ (a + 1) - 1 = a
OBVIOUS

LEMMA IndexNat == \A o \in Ops \cup {0} : o \in Nat
BY OpAssumption DEF Ops

LEMMA NodeGone == NoNode.status = "none" /\ NoNode.index = 0
BY Zenon DEF NoNode

\* What the elements of q are, if it is s with e at position n, or without its nth.
With(q, s, n, e) ==
    /\ Len(q) = Len(s) + 1
    /\ \A j \in 1 .. Len(q) :
          (j < n => q[j] = s[j]) /\ (j = n => q[j] = e) /\ (j > n => q[j] = s[j - 1])
Without(q, s, n) ==
    /\ Len(q) = Len(s) - 1
    /\ \A j \in 1 .. Len(q) : (j < n => q[j] = s[j]) /\ (j >= n => q[j] = s[j + 1])

LEMMA InsertFact ==
    ASSUME NEW S, NEW s \in Seq(S), NEW i \in 1 .. Len(s), NEW n, n = i + 1, NEW e \in S,
           NEW q, q = InsertBehind(s, i, e)
    PROVE  q \in Seq(S) /\ With(q, s, n, e)
<1> DEFINE a == SubSeq(s, 1, n - 1)
           b == SubSeq(s, n, Len(s))
<1>1. q = (a \o <<e>>) \o b
  <2>1. i = n - 1
    OBVIOUS
  <2> QED BY <2>1, Zenon DEF InsertBehind
<1>2. /\ a \in Seq(S) /\ Len(a) = n - 1 /\ \A j \in 1 .. n - 1 : a[j] = s[j]
      /\ b \in Seq(S) /\ Len(b) = Len(s) - n + 1
      /\ \A j \in 1 .. Len(s) - n + 1 : b[j] = s[n - 1 + j]
  OBVIOUS
<1> HIDE DEF a, b
<1>3. /\ a \o <<e>> \in Seq(S) /\ Len(a \o <<e>>) = n
      /\ \A j \in 1 .. n : (a \o <<e>>)[j] = IF j < n THEN s[j] ELSE e
  BY <1>2
<1> DEFINE c == a \o <<e>>
<1> HIDE DEF c
<1>4. /\ c \in Seq(S) /\ Len(c) = n /\ q = c \o b
      /\ \A j \in 1 .. n : c[j] = IF j < n THEN s[j] ELSE e
  BY <1>1, <1>3, Zenon DEF c
<1>5. q \in Seq(S) /\ Len(q) = Len(s) + 1
  <2>1. c \in Seq(S) /\ b \in Seq(S) /\ q = c \o b
    BY <1>2, <1>4, Zenon
  <2>2. q \in Seq(S) /\ Len(q) = Len(c) + Len(b)
    BY <2>1, TwoLists, Zenon
  <2> QED BY <1>2, <1>4, <2>2
<1>6. ASSUME NEW j \in 1 .. Len(q)
      PROVE  (j < n => q[j] = s[j]) /\ (j = n => q[j] = e) /\ (j > n => q[j] = s[j - 1])
  <2>1. CASE j <= n
    BY <1>2, <1>4, <1>5, <2>1
  <2>2. CASE j > n
    <3>1. q[j] = b[j - n] /\ j - n \in 1 .. Len(s) - n + 1
      BY <1>2, <1>4, <1>5, <2>2
    <3>2. b[j - n] = s[n - 1 + (j - n)]
      BY <1>2, <3>1, Zenon
    <3>3. n \in Nat /\ j \in Nat
      OBVIOUS
    <3>4. n - 1 + (j - n) = j - 1
      BY <3>3
    <3> QED BY <2>2, <3>1, <3>2, <3>4
  <2> QED BY <2>1, <2>2
<1> QED BY <1>5, <1>6, Zenon DEF With

LEMMA RemoveFact ==
    ASSUME NEW S, NEW s \in Seq(S), NEW i \in 1 .. Len(s), NEW q, q = Erase(s, i)
    PROVE  q \in Seq(S) /\ Without(q, s, i)
<1> DEFINE a == SubSeq(s, 1, i - 1)
           b == SubSeq(s, i + 1, Len(s))
<1>1. q = a \o b
  BY Zenon DEF Erase
<1>2. /\ a \in Seq(S) /\ Len(a) = i - 1 /\ \A j \in 1 .. i - 1 : a[j] = s[j]
      /\ b \in Seq(S) /\ Len(b) = Len(s) - i /\ \A j \in 1 .. Len(s) - i : b[j] = s[i + j]
  OBVIOUS
<1> HIDE DEF a, b
<1>3. q \in Seq(S) /\ Len(q) = Len(s) - 1
  <2>1. q \in Seq(S) /\ Len(q) = Len(a) + Len(b)
    BY <1>1, <1>2, TwoLists, Zenon
  <2> QED BY <1>2, <2>1
<1>4. ASSUME NEW j \in 1 .. Len(q)
      PROVE  (j < i => q[j] = s[j]) /\ (j >= i => q[j] = s[j + 1])
  <2>1. CASE j < i
    BY <1>1, <1>2, <1>3, <2>1
  <2>2. CASE j >= i
    <3>1. j \in 1 .. Len(a) + Len(b) /\ j > Len(a) /\ j - (i - 1) \in 1 .. Len(s) - i
      BY <1>2, <1>3, <2>2
    <3>2. q[j] = b[j - (i - 1)]
      BY ONLY SMTT(60), <1>1, <1>2, <3>1, JoinAt
    <3> QED BY <1>2, <2>2, <3>1, <3>2
  <2> QED BY <2>1, <2>2, Zenon
<1> QED BY <1>3, <1>4, Zenon DEF Without

\* The list with another operation in it.
LEMMA Inserted ==
    ASSUME VecType, NEW o \in Ops, o \notin Range(task_vec), NEW p,
           p = 0 \/ p \in Range(task_vec)
    PROVE  LET q == Insert(o, p) IN
           q \in Seq(Ops) /\ IsInjective(q) /\ Range(q) = Range(task_vec) \cup {o}
<1> DEFINE q == Insert(o, p)
<1>1. task_vec \in Seq(Ops) /\ IsInjective(task_vec)
  BY Zenon DEF VecType
<1>2. PICK n \in 1 .. Len(task_vec) + 1 :
         /\ q \in Seq(Ops) /\ Len(q) = Len(task_vec) + 1
         /\ \A j \in 1 .. Len(q) :
               /\ j < n => q[j] = task_vec[j]
               /\ j = n => q[j] = o
               /\ j > n => q[j] = task_vec[j - 1]
  <2>1. CASE p = 0
    <3>1. q = Append(task_vec, o)
      BY <2>1, Zenon DEF Insert
    <3> HIDE DEF q
    <3>2. /\ q \in Seq(Ops) /\ Len(q) = Len(task_vec) + 1
          /\ \A j \in 1 .. Len(q) : q[j] = IF j <= Len(task_vec) THEN task_vec[j] ELSE o
      BY <1>1, <3>1, AppendFact
    <3> DEFINE n == Len(task_vec) + 1
    <3>3. n \in 1 .. Len(task_vec) + 1
      BY <1>1
    <3>4. \A j \in 1 .. Len(q) :
             /\ j < n => q[j] = task_vec[j]
             /\ j = n => q[j] = o
             /\ j > n => q[j] = task_vec[j - 1]
      BY <1>1, <3>2
    <3> HIDE DEF n
    <3> QED BY <3>2, <3>3, <3>4, Zenon
  <2>2. CASE p # 0
    <3> DEFINE i == Position(p)
               n == i + 1
    <3>1. i \in 1 .. Len(task_vec)
      BY <1>1, <2>2, SetOf DEF Position
    <3>2. q = InsertBehind(task_vec, i, o) /\ n = i + 1 /\ n \in 1 .. Len(task_vec) + 1
      <4>1. q = InsertBehind(task_vec, i, o)
        BY <2>2, Zenon DEF Insert
      <4> HIDE DEF i
      <4> QED BY <1>1, <3>1, <4>1
    <3> HIDE DEF q, i, n
    <3>3. q \in Seq(Ops) /\ With(q, task_vec, n, o)
      BY <1>1, <3>1, <3>2, InsertFact, Zenon
    <3> QED BY <3>2, <3>3, Zenon DEF With
  <2> QED BY <2>1, <2>2, Zenon
<1> HIDE DEF q
<1>3. \A x : x \in Range(q) <=> \E j \in 1 .. Len(q) : q[j] = x
  BY <1>2, SetOf, Zenon
<1>4. \A x : x \in Range(task_vec) <=> \E j \in 1 .. Len(task_vec) : task_vec[j] = x
  BY <1>1, SetOf, Zenon
<1>5. Range(q) = Range(task_vec) \cup {o}
  <2>1. ASSUME NEW x \in Range(q) PROVE x \in Range(task_vec) \cup {o}
    <3>1. PICK j \in 1 .. Len(q) : q[j] = x
      BY <1>3, <2>1, Zenon
    <3>2. CASE j < n
      <4>1. j \in 1 .. Len(task_vec) /\ task_vec[j] = x
        BY <1>1, <1>2, <3>1, <3>2
      <4> QED BY <1>4, <4>1, Zenon
    <3>3. CASE j > n
      <4>1. j - 1 \in 1 .. Len(task_vec) /\ task_vec[j - 1] = x
        BY <1>1, <1>2, <3>1, <3>3
      <4> QED BY <1>4, <4>1, Zenon
    <3>4. CASE j = n
      BY <1>2, <3>1, <3>4, Zenon
    <3> QED BY <1>1, <3>2, <3>3, <3>4
  <2>2. o \in Range(q)
    <3>1. n \in 1 .. Len(q) /\ q[n] = o
      BY <1>1, <1>2, Zenon
    <3> QED BY <1>3, <3>1, Zenon
  <2>3. ASSUME NEW x \in Range(task_vec) PROVE x \in Range(q)
    <3>1. PICK j \in 1 .. Len(task_vec) : task_vec[j] = x
      BY <1>4, <2>3, Zenon
    <3>2. CASE j < n
      <4>1. q[j] = x /\ j \in 1 .. Len(q)
        BY <1>1, <1>2, <3>1, <3>2
      <4> QED BY <1>3, <4>1, Zenon
    <3>3. CASE j >= n
      <4>1. q[j + 1] = x /\ j + 1 \in 1 .. Len(q)
        BY <1>1, <1>2, <3>1, <3>3
      <4> QED BY <1>3, <4>1, Zenon
    <3> QED BY <1>1, <3>2, <3>3
  <2> QED BY <2>1, <2>2, <2>3, Zenon
<1>6. ASSUME NEW j \in 1 .. Len(q), NEW k \in 1 .. Len(q), q[j] = q[k] PROVE j = k
  <2>1. \A x, y \in 1 .. Len(task_vec) : task_vec[x] = task_vec[y] => x = y
    BY <1>1, SetOf DEF IsInjective
  <2>2. \A x \in 1 .. Len(task_vec) : task_vec[x] # o
    BY <1>4, Zenon
  <2> DEFINE back(x) == IF x < n THEN x ELSE x - 1
  <2>3. \A x \in 1 .. Len(q) : x # n =>
           back(x) \in 1 .. Len(task_vec) /\ q[x] = task_vec[back(x)]
    BY <1>1, <1>2
  <2>4. q[n] = o
    BY <1>1, <1>2, Zenon
  <2>5. \A x \in 1 .. Len(q) : x # n => q[x] # o
    BY <2>2, <2>3, Zenon
  <2>6. CASE j # n /\ k # n
    <3>1. back(j) = back(k)
      BY <1>6, <2>1, <2>3, <2>6, Zenon
    <3> QED BY <2>6, <3>1
  <2> HIDE DEF back
  <2> QED BY <1>6, <2>4, <2>5, <2>6, Zenon
<1>7. IsInjective(q)
  BY <1>2, <1>6, SetOf DEF IsInjective
<1> QED BY <1>2, <1>5, <1>7, Zenon DEF q

\* A list without one of its elements.
SubList(q, s) ==
    /\ \A j \in 1 .. Len(q) : \E a \in 1 .. Len(s) : q[j] = s[a]
    /\ \A j, k \in 1 .. Len(q) :
          j # k => \E a, b \in 1 .. Len(s) : a # b /\ q[j] = s[a] /\ q[k] = s[b]

LEMMA Removed ==
    ASSUME NEW S, NEW s \in Seq(S), NEW i \in 1 .. Len(s), NEW q, q = Erase(s, i)
    PROVE  /\ q \in Seq(S) /\ SubList(q, s)
           /\ \A j \in DOMAIN q : \E k \in DOMAIN s : k # i /\ q[j] = s[k]
           /\ IsInjective(s) => IsInjective(q)
           /\ IsInjective(s) => Range(q) = Range(s) \ {s[i]}
<1>1. q \in Seq(S) /\ Without(q, s, i)
  BY RemoveFact, Zenon
<1>2. /\ Len(q) = Len(s) - 1 /\ Len(s) \in Nat /\ DOMAIN q = 1 .. Len(q) /\ DOMAIN s = 1 .. Len(s)
      /\ \A j \in 1 .. Len(q) : (j < i => q[j] = s[j]) /\ (j >= i => q[j] = s[j + 1])
  BY <1>1, SetOf, Zenon DEF Without
<1> DEFINE from(j) == IF j < i THEN j ELSE j + 1
<1>3. \A j \in 1 .. Len(q) : from(j) \in 1 .. Len(s) /\ from(j) # i /\ q[j] = s[from(j)]
  BY <1>2
<1>4. \A j, k \in 1 .. Len(q) : from(j) = from(k) => j = k
  BY <1>2
<1>5. \A k \in 1 .. Len(s) : k # i => \E j \in 1 .. Len(q) : from(j) = k
  <2> SUFFICES ASSUME NEW k \in 1 .. Len(s), k # i PROVE \E j \in 1 .. Len(q) : from(j) = k
    BY Zenon
  <2>1. CASE k < i
    <3>1. k \in 1 .. Len(q) /\ from(k) = k
      BY <1>2, <2>1
    <3> QED BY <3>1, Zenon
  <2>2. CASE k > i
    <3>1. k - 1 \in 1 .. Len(q) /\ from(k - 1) = k
      BY <1>2, <2>2
    <3> QED BY <3>1, Zenon
  <2> QED BY <2>1, <2>2
<1> HIDE DEF from
<1>6. \A j \in DOMAIN q : \E k \in DOMAIN s : k # i /\ q[j] = s[k]
  BY <1>2, <1>3, Zenon
<1>7. ASSUME IsInjective(s) PROVE IsInjective(q)
  BY <1>2, <1>3, <1>4, <1>7 DEF IsInjective
<1>8. ASSUME IsInjective(s) PROVE Range(q) = Range(s) \ {s[i]}
  <2>1. \A j, k \in 1 .. Len(s) : s[j] = s[k] => j = k
    BY <1>2, <1>8, Zenon DEF IsInjective
  <2>2. ASSUME NEW x \in Range(q) PROVE x \in Range(s) \ {s[i]}
    <3>1. PICK j \in 1 .. Len(q) : q[j] = x
      BY <1>1, <2>2, SetOf
    <3> QED BY <1>3, <2>1, <3>1, SetOf
  <2>3. ASSUME NEW x \in Range(s) \ {s[i]} PROVE x \in Range(q)
    <3>1. PICK k \in 1 .. Len(s) : s[k] = x /\ k # i
      BY <2>3, SetOf
    <3>2. PICK j \in 1 .. Len(q) : from(j) = k
      BY <1>5, <3>1, Zenon
    <3> QED BY <1>1, <1>3, <3>1, <3>2, SetOf, Zenon
  <2> QED BY <2>2, <2>3, Zenon
<1>9. SubList(q, s)
  <2>1. \A j \in 1 .. Len(q) : \E a \in 1 .. Len(s) : q[j] = s[a]
    BY <1>3, Zenon
  <2>2. ASSUME NEW j \in 1 .. Len(q), NEW k \in 1 .. Len(q), j # k
        PROVE  \E a, b \in 1 .. Len(s) : a # b /\ q[j] = s[a] /\ q[k] = s[b]
    <3>1. PICK a \in 1 .. Len(s) : a = from(j) /\ q[j] = s[a]
      BY <1>3, Zenon
    <3>2. PICK b \in 1 .. Len(s) : b = from(k) /\ q[k] = s[b]
      BY <1>3, Zenon
    <3>3. a # b
      BY <1>4, <2>2, <3>1, <3>2, Zenon
    <3> QED BY <3>1, <3>2, <3>3, Zenon
  <2> QED BY <1>2, <2>1, <2>2, Zenon DEF SubList
<1> QED BY <1>1, <1>6, <1>7, <1>8, <1>9, Zenon

LEMMA LastPart ==
    ASSUME NEW S, NEW s \in Seq(S), NEW n \in 1 .. Len(s) + 1, NEW q, q = SubSeq(s, n, Len(s))
    PROVE  q \in Seq(S) /\ SubList(q, s)
<1>1. Len(s) \in Nat /\ n \in Nat
  BY SetOf
<1>2. /\ q \in Seq(S) /\ Len(q) = Len(s) - n + 1
      /\ \A j \in 1 .. Len(s) - n + 1 : q[j] = s[n - 1 + j]
  OBVIOUS
<1>3. ASSUME NEW j \in 1 .. Len(q)
      PROVE  \E a \in 1 .. Len(s) : a = n - 1 + j /\ q[j] = s[a]
  BY <1>1, <1>2
<1>4. ASSUME NEW j \in 1 .. Len(q), NEW i \in 1 .. Len(q), j # i
      PROVE  \E a, b \in 1 .. Len(s) : a # b /\ q[j] = s[a] /\ q[i] = s[b]
  <2>1. PICK a \in 1 .. Len(s) : a = n - 1 + j /\ q[j] = s[a]
    BY <1>3, Zenon
  <2>2. PICK b \in 1 .. Len(s) : b = n - 1 + i /\ q[i] = s[b]
    BY <1>3, Zenon
  <2>3. a # b
    BY <1>1, <1>4, <2>1, <2>2
  <2> QED BY <2>1, <2>2, <2>3, Zenon
<1>5. \A j \in 1 .. Len(q) : \E a \in 1 .. Len(s) : q[j] = s[a]
  BY <1>3, Zenon
<1> QED BY <1>2, <1>4, <1>5, Zenon DEF SubList

LEMMA ErasedFact ==
    ASSUME VecType, NEW o
    PROVE  LET q == Erased(o) IN
           q \in Seq(Ops) /\ IsInjective(q) /\ Range(q) = Range(task_vec) \ {o}
<1>1. task_vec \in Seq(Ops) /\ IsInjective(task_vec)
  BY Zenon DEF VecType
<1>2. CASE o \in Range(task_vec)
  <2> DEFINE i == Position(o)
             q == Erased(o)
  <2>1. i \in 1 .. Len(task_vec) /\ task_vec[i] = o
    BY <1>1, <1>2, SetOf DEF Position
  <2>2. q = Erase(task_vec, i)
    BY <1>2, Zenon DEF Erased
  <2> HIDE DEF i, q
  <2>3. /\ q \in Seq(Ops) /\ IsInjective(q)
        /\ Range(q) = Range(task_vec) \ {task_vec[i]}
    BY <1>1, <2>1, <2>2, Removed
  <2> QED BY <2>1, <2>3, Zenon DEF q
<1>3. CASE o \notin Range(task_vec)
  BY <1>1, <1>3, Zenon DEF Erased
<1> QED BY <1>2, <1>3, Zenon

-----------------------------------------------------------------------------
(* Types.                                                                  *)

\* What each part of the type invariant depends on.
LEMMA Frames ==
    ASSUME TInv
    PROVE  /\ UNCHANGED task_vec => VecType'
           /\ UNCHANGED <<mem, load, parent>> => MemOK'
           /\ UNCHANGED <<zk, load, parent>> => NodeOK'
           /\ UNCHANGED done_op_list => DoneType'
           /\ UNCHANGED pt => PtType'
           /\ UNCHANGED pool => PoolType'
           /\ UNCHANGED poll => PollType'
           /\ UNCHANGED <<load, op_index, parent>> => IdType'
           /\ UNCHANGED <<net, tablet, tablet_up>> => TabletType'
           /\ UNCHANGED <<ran, succeeded, begun, canceled, deleted>> => HistType'
           /\ UNCHANGED <<faults, ns>> => StateType'
<1> USE DEF TInv
<1>1. UNCHANGED task_vec => VecType'
  BY Zenon DEF VecType
<1>2. UNCHANGED <<mem, load, parent>> => MemOK'
  BY Zenon DEF MemOK, TasksOf, Plan, ChildPlan
<1>3. UNCHANGED <<zk, load, parent>> => NodeOK'
  BY Zenon DEF NodeOK, TasksOf, Plan, ChildPlan
<1>4. UNCHANGED done_op_list => DoneType'
  BY Zenon DEF DoneType
<1>5. UNCHANGED pt => PtType'
  BY Zenon DEF PtType
<1>6. UNCHANGED pool => PoolType'
  BY Zenon DEF PoolType
<1>7. UNCHANGED poll => PollType'
  BY Zenon DEF PollType
<1>8. UNCHANGED <<load, op_index, parent>> => IdType'
  BY Zenon DEF IdType
<1>9. UNCHANGED <<net, tablet, tablet_up>> => TabletType'
  BY Zenon DEF TabletType
<1>10. UNCHANGED <<ran, succeeded, begun, canceled, deleted>> => HistType'
  BY Zenon DEF HistType
<1>11. UNCHANGED <<faults, ns>> => StateType'
  BY Zenon DEF StateType
<1> QED BY <1>1, <1>2, <1>3, <1>4, <1>5, <1>6, <1>7, <1>8, <1>9, <1>10, <1>11, Zenon

\* The status and the position of every operation in memory stay.
Steady == /\ UNCHANGED <<load, parent, op_index, task_vec>>
          /\ \A x \in Ops : mem'[x].status = mem[x].status /\ mem'[x].index = mem[x].index

LEMMA UnbornFrame ==
    ASSUME TInv, Steady, UNCHANGED <<done_op_list, deleted, zk>>, UNCHANGED canceled
    PROVE  Unborn'
BY Zenon DEF TInv, Steady, Unborn, InDoneList

LEMMA FaultFact ==
    ASSUME TInv, NEW k, Fault(k)
    PROVE  faults' \in 0 .. MaxFaults
BY OpAssumption DEF TInv, StateType, Fault

\* A record of one operation in memory.
LEMMA MemField ==
    ASSUME NEW n, NEW m \in MemType(n)
    PROVE  /\ \A s \in Status \cup {"none"} : [m EXCEPT !.status = s] \in MemType(n)
           /\ \A s \in Status : [m EXCEPT !.front = s] \in MemType(n)
           /\ \A s \in BOOLEAN : [m EXCEPT !.sent = s] \in MemType(n)
           /\ \A s \in 0 .. CheckLimit + 1 : [m EXCEPT !.checks = s] \in MemType(n)
BY Zenon DEF MemType

LEMMA MemSet ==
    ASSUME MemOK, NEW o \in Ops, NEW v \in MemType(Len(TasksOf(o))),
           mem' = [mem EXCEPT ![o] = v], UNCHANGED <<load, parent>>
    PROVE  MemOK' /\ mem'[o] = v /\ \A x \in Ops : x # o => mem'[x] = mem[x]
<1>1. \A x : TasksOf(x)' = TasksOf(x)
  BY Zenon DEF TasksOf, Plan, ChildPlan
<1>2. DOMAIN mem = Ops
  BY Zenon DEF MemOK
<1>3. mem'[o] = v /\ \A x \in Ops : x # o => mem'[x] = mem[x]
  BY <1>2, Zenon
<1>4. mem' = [x \in Ops |-> mem'[x]]
  BY <1>2, Zenon
<1> QED BY <1>1, <1>3, <1>4, Zenon DEF MemOK

\* mem after the front task of o has got the status s.
FrontSet(o, s) ==
    /\ Steady /\ mem'[o].front = s
    /\ \A x \in Ops : x # o => mem'[x] = mem[x]

LEMMA FrontFact ==
    ASSUME MemOK, NEW o \in Ops, NEW s \in Status, mem' = [mem EXCEPT ![o].front = s],
           UNCHANGED <<load, parent, op_index, task_vec>>
    PROVE  MemOK' /\ FrontSet(o, s)
<1> DEFINE v == [mem[o] EXCEPT !.front = s]
<1>1. mem[o] \in MemType(Len(TasksOf(o)))
  BY Zenon DEF MemOK
<1>2. v \in MemType(Len(TasksOf(o)))
  BY <1>1, MemField, Zenon
<1>3. v.status = mem[o].status /\ v.index = mem[o].index /\ v.front = s
  BY <1>1, Zenon DEF MemType
<1>4. mem' = [mem EXCEPT ![o] = v]
  BY Zenon
<1> HIDE DEF v
<1>5. MemOK' /\ mem'[o] = v /\ \A x \in Ops : x # o => mem'[x] = mem[x]
  BY <1>2, <1>4, MemSet, Zenon
<1>6. Steady
  BY <1>3, <1>5, Zenon DEF Steady
<1> QED BY <1>3, <1>5, <1>6, Zenon DEF FrontSet

LEMMA StatusFact ==
    ASSUME TInv, NEW r \in pool, NEW s \in Status, mem' = SetStatus(r, s),
           UNCHANGED <<load, parent, op_index, task_vec>>
    PROVE  /\ MemOK' /\ Steady
           /\ (IsFront(r) /\ FrontSet(r.op, s)) \/ UNCHANGED mem
<1>1. MemOK /\ r.op \in Ops
  BY Zenon DEF TInv, PoolType
<1>2. CASE IsFront(r)
  <2>1. mem' = [mem EXCEPT ![r.op].front = s]
    BY <1>2, Zenon DEF SetStatus
  <2>2. MemOK' /\ FrontSet(r.op, s)
    BY <1>1, <2>1, FrontFact, Zenon
  <2> QED BY <1>2, <2>2, Zenon DEF FrontSet
<1>3. CASE ~IsFront(r)
  <2>1. UNCHANGED mem
    BY <1>3, Zenon DEF SetStatus
  <2> QED BY <2>1, Frames, Zenon DEF Steady
<1> QED BY <1>2, <1>3, Zenon

\* Operations and their tasks.
LEMMA OpFacts ==
    ASSUME TInv
    PROVE  /\ \A o \in Ops : o \in Nat /\ o > 0
           /\ op_index \in Nat /\ op_index <= MaxOps
           /\ \A o \in Range(task_vec) : o \in Ops /\ o <= op_index
           /\ task_vec # <<>> => Head(task_vec) \in Range(task_vec)
           /\ \A o \in Ops : /\ TasksOf(o) \in Seq(Kinds) /\ NormalIsLast(TasksOf(o))
                             /\ Len(TasksOf(o)) \in Nat \ {0} /\ DOMAIN TasksOf(o) = 1 .. Len(TasksOf(o))
                             /\ DOMAIN TasksOf(o) \subseteq Tasks
           /\ \A t \in Tasks : t \in Nat /\ t > 0
<1>1. /\ MaxOps \in Nat /\ load \in Workloads
      /\ load.plan \in Seq(Kinds) \ {<<>>} /\ NormalIsLast(load.plan)
      /\ load.childPlan \in Seq(Kinds) \ {<<>>} /\ NormalIsLast(load.childPlan)
  BY OpAssumption, Zenon DEF TInv, IdType
<1>2. (\A o \in Ops : o \in Nat /\ o > 0) /\ op_index \in Nat /\ op_index <= MaxOps
  BY <1>1 DEF Ops, TInv, IdType
<1>3. task_vec \in Seq(Ops)
  BY Zenon DEF TInv, VecType
<1>4. Range(task_vec) \subseteq Ops /\ (task_vec # <<>> => Head(task_vec) \in Range(task_vec))
  BY <1>3, SetOf, Zenon
<1>5. \A o \in Range(task_vec) : o <= op_index
  BY <1>2, <1>4 DEF TInv, Unborn
<1>6. ASSUME NEW q \in {load.plan, load.childPlan}
      PROVE  /\ q \in Seq(Kinds) /\ NormalIsLast(q) /\ Len(q) \in Nat \ {0}
             /\ DOMAIN q = 1 .. Len(q) /\ DOMAIN q \subseteq Tasks
  <2>1. q \in Seq(Kinds) /\ NormalIsLast(q) /\ Len(q) > 0
    BY <1>1
  <2>2. DOMAIN q \subseteq Tasks
    BY <1>1 DEF Tasks
  <2> QED BY <2>1, <2>2, SetOf
<1>7. \A o : TasksOf(o) \in {load.plan, load.childPlan}
  BY Zenon DEF TasksOf, Plan, ChildPlan
<1>8. ASSUME NEW t \in Tasks PROVE t \in Nat /\ t > 0
  <2>1. PICK w \in Workloads : t \in DOMAIN w.plan \/ t \in DOMAIN w.childPlan
    BY Zenon DEF Tasks
  <2>2. w.plan \in Seq(Kinds) /\ w.childPlan \in Seq(Kinds)
    BY <2>1, OpAssumption, Zenon
  <2>3. DOMAIN w.plan = 1 .. Len(w.plan) /\ DOMAIN w.childPlan = 1 .. Len(w.childPlan)
        /\ Len(w.plan) \in Nat /\ Len(w.childPlan) \in Nat
    BY <2>2, SetOf, Zenon
  <2> QED BY <2>1, <2>3
<1> QED BY <1>2, <1>4, <1>5, <1>6, <1>7, <1>8

LEMMA MemFacts ==
    ASSUME TInv, NEW o \in Ops
    PROVE  /\ mem[o] \in MemType(Len(TasksOf(o)))
           /\ mem[o].status \in Status \cup {"none"} /\ mem[o].index \in 0 .. Len(TasksOf(o))
           /\ mem[o].front \in Status /\ mem[o].sent \in BOOLEAN
           /\ mem[o].checks \in 0 .. CheckLimit + 1
           /\ zk[o] \in NodeType(Len(TasksOf(o)))
           /\ zk[o].status \in Status \cup {"none"} /\ zk[o].index \in 0 .. Len(TasksOf(o))
<1>1. mem[o] \in MemType(Len(TasksOf(o))) /\ zk[o] \in NodeType(Len(TasksOf(o)))
  BY Zenon DEF TInv, MemOK, NodeOK
<1> QED BY <1>1, Zenon DEF MemType, NodeType

\* The identifiers and the positions are numbers; a new identifier is a new one.
LEMMA IdFacts ==
    ASSUME TInv
    PROVE  /\ op_index \in Nat /\ op_index <= op_index
           /\ \A o \in Ops : o <= op_index => o # op_index + 1
           /\ \A o \in Ops : mem[o].index \in Nat
<1>1. op_index \in Nat /\ \A o \in Ops : o \in Nat
  BY OpFacts, Zenon
<1>2. ASSUME NEW o \in Ops PROVE mem[o].index \in Nat
  <2>1. PICK n \in Nat : n = Len(TasksOf(o))
    BY OpFacts, Zenon
  <2>2. mem[o].index \in 0 .. n
    BY <2>1, MemFacts, Zenon
  <2>3. \A i \in 0 .. n : i \in Nat
    BY <2>1
  <2> QED BY <2>2, <2>3, Zenon
<1>3. \A n, o \in Nat : n <= n /\ (o <= n => o # n + 1)
  OBVIOUS
<1> QED BY <1>1, <1>2, <1>3, Zenon

\* A task function of the pool.
LEMMA PoolFacts ==
    ASSUME TInv, NEW r \in pool
    PROVE  /\ r.op \in Ops /\ r.task \in Tasks /\ r.pc \in PoolPc
           /\ r = [op |-> r.op, task |-> r.task, pc |-> r.pc]
           /\ \A c : [r EXCEPT !.pc = c] = [op |-> r.op, task |-> r.task, pc |-> c]
           /\ \A c \in PoolPc : Moved(r, c) \subseteq [op : Ops, task : Tasks, pc : PoolPc]
           /\ pool \ {r} \subseteq [op : Ops, task : Tasks, pc : PoolPc]
<1>1. /\ pool \subseteq [op : Ops, task : Tasks, pc : PoolPc]
      /\ r \in [op : Ops, task : Tasks, pc : PoolPc]
  BY Zenon DEF TInv, PoolType
<1>2. /\ r.op \in Ops /\ r.task \in Tasks /\ r.pc \in PoolPc
      /\ r = [op |-> r.op, task |-> r.task, pc |-> r.pc]
      /\ \A c : [r EXCEPT !.pc = c] = [op |-> r.op, task |-> r.task, pc |-> c]
  BY <1>1
<1> QED BY <1>1, <1>2, Zenon DEF Moved

LEMMA StepPt ==
    ASSUME TInv, NothingToStart \/ CollectDone
    PROVE  TInv'
<1>1. /\ UNCHANGED <<load, ns, task_vec, mem, done_op_list, pool, poll, zk, op_index, parent, net,
                      tablet, tablet_up, ran, succeeded, begun, canceled, deleted, faults>>
      /\ PtType'
  BY OpFacts DEF NothingToStart, CollectDone, TInv, PtType, zkVars, tabletVars, histVars
<1>2. Unborn'
  BY <1>1, UnbornFrame, Zenon DEF Steady
<1> QED BY <1>1, <1>2, Frames, Zenon DEF TInv

LEMMA StepForget ==
    ASSUME TInv, DeleteOPTask
    PROVE  TInv'
<1>1. UNCHANGED <<load, ns, task_vec, mem, done_op_list, pool, poll, zk, op_index, parent, net,
                  tablet_up, ran, succeeded, begun, canceled, deleted>>
  BY Zenon DEF DeleteOPTask, zkVars, histVars
<1>2. PtType'
  BY DEF DeleteOPTask, TInv, PtType
<1>3. StateType'
  BY <1>1, FaultFact, Zenon DEF DeleteOPTask, TInv, StateType
<1>4. TabletType'
  <2>1. Forget(pt.op) \in [Ops \X Tasks -> TaskStates]
    BY Zenon DEF Forget, TInv, TabletType, TaskStates
  <2> QED BY <1>1, <2>1, Zenon DEF DeleteOPTask, TInv, TabletType
<1>5. Unborn'
  BY <1>1, UnbornFrame, Zenon DEF Steady
<1> QED BY <1>1, <1>2, <1>3, <1>4, <1>5, Frames, Zenon DEF TInv

LEMMA StepSend ==
    ASSUME TInv, NEW r \in pool, SendRequest(r)
    PROVE  TInv'
<1>1. UNCHANGED <<load, ns, task_vec, mem, done_op_list, pt, poll, zk, op_index, parent, tablet,
                  tablet_up, ran, succeeded, begun, canceled, deleted, faults>>
  BY Zenon DEF SendRequest, zkVars, histVars
<1>2. PoolType'
  BY PoolFacts, Zenon DEF SendRequest, PoolType, PoolPc
<1>3. TabletType'
  BY <1>1, PoolFacts DEF SendRequest, TInv, TabletType
<1>4. Unborn'
  BY <1>1, UnbornFrame, Zenon DEF Steady
<1> QED BY <1>1, <1>2, <1>3, <1>4, Frames, Zenon DEF TInv

\* mem after a step of the pool: only the front task's status or sent changes.
LEMMA StepCall ==
    ASSUME TInv, NEW r \in pool, CallReturns(r)
    PROVE  /\ TInv' /\ Steady
           /\ (IsFront(r) /\ FrontSet(r.op, "failed")) \/ UNCHANGED mem
<1>1. UNCHANGED <<load, ns, task_vec, done_op_list, pt, poll, zk, op_index, parent, net, tablet,
                  tablet_up, ran, succeeded, begun, canceled, deleted>>
  BY Zenon DEF CallReturns, zkVars, histVars, tabletVars
<1>2. PoolType'
  BY PoolFacts, Zenon DEF CallReturns, PoolType, PoolPc
<1>3. StateType'
  BY <1>1, FaultFact, Zenon DEF CallReturns, TInv, StateType
<1>4. /\ MemOK' /\ Steady
      /\ (IsFront(r) /\ FrontSet(r.op, "failed")) \/ UNCHANGED mem
  <2>1. CASE UNCHANGED mem
    BY <1>1, <2>1, Frames, Zenon DEF Steady
  <2>2. CASE mem' = SetStatus(r, "failed")
    BY <1>1, <2>2, StatusFact, Zenon DEF Status
  <2> QED BY <2>1, <2>2, Zenon DEF CallReturns
<1>5. Unborn'
  BY <1>1, <1>4, UnbornFrame, Zenon
<1> QED BY <1>1, <1>2, <1>3, <1>4, <1>5, Frames, Zenon DEF TInv
LEMMA SentFact ==
    ASSUME TInv, NEW o \in Ops, mem' = [mem EXCEPT ![o].sent = TRUE],
           UNCHANGED <<load, parent, op_index, task_vec>>
    PROVE  MemOK' /\ Steady /\ \A x \in Ops : mem'[x].front = mem[x].front
<1> DEFINE v == [mem[o] EXCEPT !.sent = TRUE]
<1>1. MemOK /\ mem[o] \in MemType(Len(TasksOf(o)))
  BY MemFacts, Zenon DEF TInv
<1>2. v \in MemType(Len(TasksOf(o)))
  BY <1>1, MemField, Zenon
<1>3. v.status = mem[o].status /\ v.index = mem[o].index /\ v.front = mem[o].front
  BY <1>1, Zenon DEF MemType
<1>4. mem' = [mem EXCEPT ![o] = v]
  BY Zenon
<1> HIDE DEF v
<1>5. MemOK' /\ mem'[o] = v /\ \A x \in Ops : x # o => mem'[x] = mem[x]
  BY <1>1, <1>2, <1>4, MemSet, Zenon
<1> QED BY <1>3, <1>5, Zenon DEF Steady

LEMMA StepWrap ==
    ASSUME TInv, NEW r \in pool, WrapTaskFun(r)
    PROVE  TInv' /\ Steady /\ \A x \in Ops : mem'[x].front = mem[x].front
<1>1. UNCHANGED <<load, ns, task_vec, done_op_list, pt, zk, op_index, parent, net, tablet,
                  tablet_up, ran, succeeded, begun, canceled, deleted, faults>>
  BY Zenon DEF WrapTaskFun, zkVars, histVars, tabletVars
<1>2. PoolType'
  BY PoolFacts, Zenon DEF WrapTaskFun, PoolType, PoolPc
<1>3. PollType'
  BY Zenon DEF WrapTaskFun, TInv, PollType
<1>4. MemOK' /\ Steady /\ \A x \in Ops : mem'[x].front = mem[x].front
  <2>1. CASE UNCHANGED mem
    BY <1>1, <2>1, Frames, Zenon DEF Steady
  <2>2. CASE mem' = [mem EXCEPT ![r.op].sent = TRUE]
    BY <1>1, <2>2, PoolFacts, SentFact, Zenon
  <2> QED BY <2>1, <2>2, Zenon DEF WrapTaskFun
<1>5. Unborn'
  BY <1>1, <1>4, UnbornFrame, Zenon
<1> QED BY <1>1, <1>2, <1>3, <1>4, <1>5, Frames, Zenon DEF TInv

LEMMA StepNs ==
    ASSUME TInv, NEW r \in pool, NsTask(r)
    PROVE  /\ TInv' /\ Steady
           /\ \/ UNCHANGED mem
              \/ IsFront(r) /\ FrontSet(r.op, "failed")
              \/ IsFront(r) /\ FrontSet(r.op, "done") /\ <<r.op, r.task>> \in succeeded'
<1>1. UNCHANGED <<load, ns, task_vec, done_op_list, pt, poll, zk, op_index, parent, net, tablet,
                  tablet_up, begun, canceled, deleted>>
  BY Zenon DEF NsTask, zkVars, tabletVars
<1>2. PoolType'
  BY PoolFacts DEF NsTask, PoolType, PoolPc
<1>3. StateType'
  BY <1>1, FaultFact, Zenon DEF NsTask, TInv, StateType
<1>4. HistType'
  BY <1>1, PoolFacts DEF NsTask, TInv, HistType
<1>5. /\ MemOK' /\ Steady
      /\ \/ UNCHANGED mem
         \/ IsFront(r) /\ FrontSet(r.op, "failed")
         \/ IsFront(r) /\ FrontSet(r.op, "done") /\ <<r.op, r.task>> \in succeeded'
  <2>1. CASE mem' = SetStatus(r, "done") /\ <<r.op, r.task>> \in succeeded'
    BY <1>1, <2>1, StatusFact, Zenon DEF Status
  <2>2. CASE mem' = SetStatus(r, "failed")
    BY <1>1, <2>2, StatusFact, Zenon DEF Status
  <2> QED BY <2>1, <2>2, Zenon DEF NsTask
<1>6. Unborn'
  BY <1>1, <1>5, UnbornFrame, Zenon
<1> QED BY <1>1, <1>2, <1>3, <1>4, <1>5, <1>6, Frames, Zenon DEF TInv

LEMMA StepNormal ==
    ASSUME TInv, NEW r \in pool, WrapNormalTaskFun(r)
    PROVE  /\ TInv' /\ Steady
           /\ (IsFront(r) /\ FrontSet(r.op, "done")) \/ UNCHANGED mem
<1>1. UNCHANGED <<load, ns, task_vec, done_op_list, pt, poll, zk, op_index, parent, net, tablet,
                  tablet_up, ran, succeeded, begun, canceled, deleted, faults>>
  BY Zenon DEF WrapNormalTaskFun, zkVars, tabletVars, histVars
<1>2. PoolType'
  BY PoolFacts, Zenon DEF WrapNormalTaskFun, PoolType
<1>3. MemOK' /\ Steady /\ ((IsFront(r) /\ FrontSet(r.op, "done")) \/ UNCHANGED mem)
  <2>1. mem' = SetStatus(r, "done")
    BY Zenon DEF WrapNormalTaskFun
  <2> QED BY <1>1, <2>1, StatusFact, Zenon DEF Status
<1>4. Unborn'
  BY <1>1, <1>3, UnbornFrame, Zenon
<1> QED BY <1>1, <1>2, <1>3, <1>4, Frames, Zenon DEF TInv

\* The tablet.
LEMMA StepAddOPTask ==
    ASSUME TInv, NEW m, AddOPTask(m)
    PROVE  /\ TInv' /\ m \in Ops \X Tasks /\ m \in net /\ net' = net \ {m}
           /\ UNCHANGED <<load, ns, task_vec, mem, done_op_list, pt, poll, zk, op_index, parent,
                          tablet_up, succeeded, begun, canceled, deleted, faults>>
           /\ \A q \in pool' : \E r \in pool :
                 /\ q.op = r.op /\ q.task = r.task
                 /\ q = r \/ (q.pc \in {"accepted", "refused"} /\ r.pc = "call")
<1>1. UNCHANGED <<load, ns, task_vec, mem, done_op_list, pt, poll, zk, op_index, parent,
                  tablet_up, succeeded, begun, canceled, deleted, faults>>
  BY Zenon DEF AddOPTask, zkVars
<1>2. m \in Ops \X Tasks /\ m \in net
  BY Zenon DEF AddOPTask, TInv, TabletType
<1>3. ASSUME NEW q \in pool'
      PROVE  /\ q \in [op : Ops, task : Tasks, pc : PoolPc]
             /\ \E r \in pool :
                   /\ q.op = r.op /\ q.task = r.task
                   /\ q = r \/ (q.pc \in {"accepted", "refused"} /\ r.pc = "call")
  <2>1. PICK r \in pool : \/ q = r
                          \/ r.pc = "call" /\ q = [r EXCEPT !.pc = "accepted"]
                          \/ r.pc = "call" /\ q = [r EXCEPT !.pc = "refused"]
    BY <1>3, Zenon DEF AddOPTask
  <2> QED BY <2>1, PoolFacts DEF PoolPc
<1>4. PoolType'
  BY <1>3, Zenon DEF PoolType
<1>5. TabletType'
  BY <1>1, <1>2, Zenon DEF AddOPTask, TInv, TabletType, TaskStates
<1>6. HistType'
  BY <1>1, <1>2 DEF AddOPTask, TInv, HistType
<1>7. Unborn'
  BY <1>1, UnbornFrame, Zenon DEF Steady
<1>8. net' = net \ {m}
  BY Zenon DEF AddOPTask
<1> QED BY <1>1, <1>2, <1>3, <1>4, <1>5, <1>6, <1>7, <1>8, Frames, Zenon DEF TInv

LEMMA StepTablet ==
    ASSUME TInv,
           \/ \E m : TabletCancelOP(m)
           \/ \E m \in Ops \X Tasks : TaskEnds(m)
           \/ TabletCrash \/ TabletStart
    PROVE  /\ TInv' /\ net' \subseteq net /\ succeeded \subseteq succeeded'
           /\ UNCHANGED <<load, ns, task_vec, mem, done_op_list, pt, pool, poll, zk, op_index,
                          parent, ran, begun, canceled, deleted>>
           /\ \A m \in Ops \X Tasks : tablet'[m] = "done" => tablet[m] = "done" \/ m \in succeeded'
<1>1. /\ UNCHANGED <<load, ns, task_vec, mem, done_op_list, pt, pool, poll, zk, op_index,
                      parent, ran, begun, canceled, deleted>>
      /\ net' \subseteq net /\ succeeded \subseteq succeeded'
  BY Zenon DEF TabletCancelOP, TaskEnds, TabletCrash, TabletStart, nsVars, zkVars, histVars
<1>2. StateType'
  BY <1>1, FaultFact, Zenon DEF TabletCancelOP, TaskEnds, TabletCrash, TabletStart, TInv, StateType
<1>3. /\ tablet' \in [Ops \X Tasks -> TaskStates]
      /\ \A m \in Ops \X Tasks : tablet'[m] = "done" => tablet[m] = "done" \/ m \in succeeded'
  <2>1. tablet \in [Ops \X Tasks -> TaskStates]
    BY Zenon DEF TInv, TabletType
  <2>2. ASSUME NEW m, TabletCancelOP(m)
        PROVE  /\ tablet' \in [Ops \X Tasks -> TaskStates]
               /\ \A t \in Ops \X Tasks : tablet'[t] = "done" => tablet[t] = "done"
    BY <2>1, <2>2, Zenon DEF TabletCancelOP, TaskStates
  <2>3. ASSUME NEW m \in Ops \X Tasks, TaskEnds(m)
        PROVE  /\ tablet' \in [Ops \X Tasks -> TaskStates]
               /\ \A t \in Ops \X Tasks : tablet'[t] = "done" => tablet[t] = "done" \/ t \in succeeded'
    BY <2>1, <2>3, Zenon DEF TaskEnds, TaskStates
  <2>4. ASSUME TabletCrash \/ TabletStart
        PROVE  /\ tablet' \in [Ops \X Tasks -> TaskStates]
               /\ \A t \in Ops \X Tasks : tablet'[t] = "done" => tablet[t] = "done"
    BY <2>1, <2>4, Zenon DEF TabletCrash, TabletStart, TaskStates, NoMap
  <2> QED BY <2>2, <2>3, <2>4, Zenon
<1>4. TabletType'
  <2>1. tablet_up' \in BOOLEAN
    BY Zenon DEF TabletCancelOP, TaskEnds, TabletCrash, TabletStart, TInv, TabletType
  <2> QED BY <1>1, <1>3, <2>1, Zenon DEF TInv, TabletType
<1>5. HistType'
  <2>1. succeeded' \subseteq Ops \X Tasks
    BY Zenon DEF TabletCancelOP, TaskEnds, TabletCrash, TabletStart, histVars, TInv, HistType
  <2> QED BY <1>1, <2>1, Zenon DEF TInv, HistType
<1>6. Unborn'
  BY <1>1, UnbornFrame, Zenon DEF Steady
<1> QED BY <1>1, <1>2, <1>3, <1>4, <1>5, <1>6, Frames, Zenon DEF TInv
\* UpdateTaskStatus.
LEMMA FrontFacts ==
    ASSUME TInv, NEW o \in Ops, ~NoTaskLeft(o)
    PROVE  /\ FrontTask(o) \in 1 .. Len(TasksOf(o)) /\ FrontTask(o) \in Tasks
           /\ mem[o].index + 1 \in 0 .. Len(TasksOf(o))
<1>1. /\ mem[o].index \in 0 .. Len(TasksOf(o)) /\ Len(TasksOf(o)) \in Nat
      /\ 1 .. Len(TasksOf(o)) \subseteq Tasks
  BY MemFacts, OpFacts, Zenon
<1> QED BY <1>1 DEF NoTaskLeft, FrontTask

LEMMA StepOffline ==
    ASSUME TInv, FailOfflineTask
    PROVE  /\ TInv' /\ WaitsForTablet /\ FrontSet(Head(task_vec), "failed")
           /\ UNCHANGED <<load, ns, task_vec, done_op_list, pt, pool, poll, zk, op_index, parent,
                          net, tablet, tablet_up, ran, succeeded, begun, canceled, deleted, faults>>
<1>1. UNCHANGED <<load, ns, task_vec, done_op_list, pt, pool, poll, zk, op_index, parent,
                  net, tablet, tablet_up, ran, succeeded, begun, canceled, deleted, faults>>
  BY Zenon DEF FailOfflineTask, zkVars, tabletVars, histVars
<1>2. /\ WaitsForTablet /\ Head(task_vec) \in Ops
      /\ mem' = [mem EXCEPT ![Head(task_vec)].front = "failed"]
  BY OpFacts, Zenon DEF FailOfflineTask, WaitsForTablet
<1>3. MemOK' /\ FrontSet(Head(task_vec), "failed")
  BY <1>1, <1>2, FrontFact, Zenon DEF TInv, Status
<1>4. Unborn'
  BY <1>1, <1>3, UnbornFrame, Zenon DEF FrontSet
<1> QED BY <1>1, <1>2, <1>3, <1>4, Frames, Zenon DEF TInv

LEMMA StepGet ==
    ASSUME TInv, GetTaskStatus
    PROVE  /\ TInv' /\ poll'.resp = tablet
           /\ UNCHANGED <<load, ns, task_vec, mem, done_op_list, pt, pool, zk, op_index, parent, net,
                          tablet, tablet_up, ran, succeeded, begun, canceled, deleted, faults>>
<1>1. UNCHANGED <<load, ns, task_vec, mem, done_op_list, pt, pool, zk, op_index, parent, net,
                  tablet, tablet_up, ran, succeeded, begun, canceled, deleted, faults>>
  BY Zenon DEF GetTaskStatus, zkVars, tabletVars, histVars
<1>2. PollType' /\ poll'.resp = tablet
  BY Zenon DEF GetTaskStatus, TInv, PollType, TabletType
<1>3. Unborn'
  BY <1>1, UnbornFrame, Zenon DEF Steady
<1> QED BY <1>1, <1>2, <1>3, Frames, Zenon DEF TInv

LEMMA PolledFact ==
    ASSUME NEW o, NEW x \in TaskStates
    PROVE  Polled(o, x) \in Status \ {"inited"} /\ (Polled(o, x) = "done" => x = "done")
BY Zenon DEF Polled, TaskStates, Status

LEMMA StepUpdateTask ==
    ASSUME TInv, UpdateTask
    PROVE  /\ TInv' /\ Steady /\ ns' = "running"
           /\ UNCHANGED <<task_vec, done_op_list, pt, pool, zk, net, tablet,
                          tablet_up, ran, succeeded, begun, canceled, deleted, faults>>
           /\ poll'.resp = NoMap
           /\ \/ UNCHANGED mem
              \/ LET o == Head(task_vec) IN
                 /\ WaitsForTablet /\ mem'[o].front \in Status \ {"inited"}
                 /\ mem'[o].front = "done" => poll.resp[<<o, FrontTask(o)>>] = "done"
                 /\ \A x \in Ops : x # o => mem'[x] = mem[x]
<1>1. UNCHANGED <<load, parent, op_index, task_vec, done_op_list, pt, pool, zk, net, tablet,
                  tablet_up, ran, succeeded, begun, canceled, deleted, faults>>
  BY Zenon DEF UpdateTask, zkVars, tabletVars, histVars
<1>2. PollType' /\ StateType' /\ ns' = "running" /\ poll'.resp = NoMap
  <2>1. poll' = Idle /\ ns' = "running"
    BY Zenon DEF UpdateTask
  <2>2. poll' \in [pc : {"idle", "answered"}, stale : BOOLEAN, resp : [Ops \X Tasks -> TaskStates]]
    BY <2>1, Zenon DEF Idle, NoMap, TaskStates
  <2> QED BY <1>1, <2>1, <2>2, Zenon DEF PollType, StateType, TInv, Idle
<1> DEFINE o == Head(task_vec)
           x == poll.resp[<<o, FrontTask(o)>>]
<1>3. CASE WaitsForTablet /\ mem' = [mem EXCEPT ![o].front = Polled(o, x),
                                                ![o].checks = IF @ > CheckLimit THEN @ ELSE @ + 1]
  <2>1. o \in Ops /\ ~NoTaskLeft(o)
    BY <1>3, OpFacts, Zenon DEF WaitsForTablet
  <2>2. x \in TaskStates
    BY <2>1, FrontFacts, Zenon DEF TInv, PollType
  <2>3. PICK a \in Status \ {"inited"} : a = Polled(o, x) /\ (a = "done" => x = "done")
    BY <2>2, PolledFact
  <2>4. mem[o] \in MemType(Len(TasksOf(o))) /\ mem[o].checks \in 0 .. CheckLimit + 1
    BY <2>1, MemFacts, Zenon
  <2>5. PICK b \in 0 .. CheckLimit + 1 :
           b = IF mem[o].checks > CheckLimit THEN mem[o].checks ELSE mem[o].checks + 1
    BY <2>4, OpAssumption
  <2> DEFINE v == [[mem[o] EXCEPT !.front = a] EXCEPT !.checks = b]
  <2>6. /\ v \in MemType(Len(TasksOf(o))) /\ v.front = a
        /\ v.status = mem[o].status /\ v.index = mem[o].index
    BY <2>4, Zenon DEF MemType
  <2>7. mem' = [mem EXCEPT ![o] = v]
    <3>1. mem' = [mem EXCEPT ![o].front = a, ![o].checks = IF @ > CheckLimit THEN @ ELSE @ + 1]
      BY <1>3, <2>3, Zenon
    <3> HIDE DEF o, x
    <3> QED BY <2>1, <2>4, <2>5, <3>1, Zenon DEF TInv, MemOK, MemType
  <2> HIDE DEF v, x
  <2>8. MemOK' /\ mem'[o] = v /\ \A y \in Ops : y # o => mem'[y] = mem[y]
    BY <1>1, <2>1, <2>6, <2>7, MemSet, Zenon DEF TInv
  <2>9. Steady
    BY <1>1, <2>6, <2>8, Zenon DEF Steady
  <2>10. Unborn'
    BY <1>1, <2>9, UnbornFrame, Zenon
  <2>11. TInv'
    BY <1>1, <1>2, <2>8, <2>10, Frames, Zenon DEF TInv
  <2> QED BY <1>1, <1>2, <1>3, <2>3, <2>6, <2>8, <2>9, <2>11, Zenon DEF x
<1>4. CASE UNCHANGED mem
  <2>1. Steady
    BY <1>1, <1>4, Zenon DEF Steady
  <2>2. Unborn'
    BY <1>1, <2>1, UnbornFrame, Zenon
  <2>3. TInv'
    BY <1>1, <1>2, <1>4, <2>2, Frames, Zenon DEF TInv
  <2> QED BY <1>1, <1>2, <1>4, <2>1, <2>3, Zenon
<1> QED BY <1>3, <1>4, Zenon DEF UpdateTask

LEMMA StepNoAnswer ==
    ASSUME TInv, NoAnswer
    PROVE  /\ TInv' /\ ns' = "running"
           /\ UNCHANGED <<load, task_vec, mem, done_op_list, pt, pool, poll, zk, op_index, parent,
                          net, tablet, tablet_up, ran, succeeded, begun, canceled, deleted>>
<1>1. UNCHANGED <<load, task_vec, mem, done_op_list, pt, pool, poll, zk, op_index, parent,
                  net, tablet, tablet_up, ran, succeeded, begun, canceled, deleted>>
  BY Zenon DEF NoAnswer, zkVars, tabletVars, histVars
<1>2. StateType' /\ ns' = "running"
  BY FaultFact, Zenon DEF NoAnswer, TInv, StateType
<1>3. Unborn'
  BY <1>1, UnbornFrame, Zenon DEF Steady
<1> QED BY <1>1, <1>2, <1>3, Frames, Zenon DEF TInv
\* The list of operations.
LEMMA NewOpFact ==
    ASSUME NEW n \in Nat
    PROVE  /\ NoOp \in MemType(n) /\ NewOp \in MemType(n)
           /\ NoNode \in NodeType(n) /\ NewNode \in NodeType(n)
           /\ NewOp.status = "inited" /\ NewOp.index = 0 /\ NewOp.front = "inited"
           /\ NoOp.status = "none" /\ NoOp.index = 0 /\ NoOp.front = "inited"
           /\ NewNode.status = "inited" /\ NewNode.index = 0
           /\ NoNode.status = "none" /\ NoNode.index = 0
<1>1. /\ NewOp = [status |-> "inited", index |-> 0, front |-> "inited", sent |-> FALSE, checks |-> 0]
      /\ NewNode = [status |-> "inited", index |-> 0]
  <2>1. PICK x, a, b, c, d, e : /\ NoOp = [status |-> a, index |-> b, front |-> c, sent |-> d, checks |-> e]
                                /\ x = "inited" /\ b = 0 /\ c = "inited" /\ d = FALSE /\ e = 0
                                /\ NoNode = [status |-> a, index |-> b]
    BY Zenon DEF NoOp, NoNode
  <2>2. NewOp = [NoOp EXCEPT !.status = x] /\ NewNode = [NoNode EXCEPT !.status = x]
    BY <2>1, Zenon DEF NewOp, NewNode
  <2>3. /\ NewOp = [status |-> x, index |-> b, front |-> c, sent |-> d, checks |-> e]
        /\ NewNode = [status |-> x, index |-> b]
    BY <2>1, <2>2, Zenon
  <2> QED BY <2>1, <2>3, Zenon
<1>2. CheckLimit + 1 \in Nat
  BY OpAssumption
<1>3. NoOp \in MemType(n) /\ NewOp \in MemType(n)
  BY <1>1, <1>2 DEF NoOp, MemType, Status
<1>4. NoNode \in NodeType(n) /\ NewNode \in NodeType(n)
  BY <1>1 DEF NoNode, NodeType, Status
<1> QED BY <1>1, <1>3, <1>4, Zenon DEF NoOp, NoNode

LEMMA NodeSet ==
    ASSUME NodeOK, NEW o \in Ops, NEW v \in NodeType(Len(TasksOf(o))),
           zk' = [zk EXCEPT ![o] = v], UNCHANGED <<load, parent>>
    PROVE  NodeOK' /\ zk'[o] = v /\ \A x \in Ops : x # o => zk'[x] = zk[x]
<1>1. \A x : TasksOf(x)' = TasksOf(x)
  BY Zenon DEF TasksOf, Plan, ChildPlan
<1>2. DOMAIN zk = Ops
  BY Zenon DEF NodeOK
<1>3. zk'[o] = v /\ \A x \in Ops : x # o => zk'[x] = zk[x]
  BY <1>2, Zenon
<1>4. zk' = [x \in Ops |-> zk'[x]]
  BY <1>2, Zenon
<1> QED BY <1>1, <1>3, <1>4, Zenon DEF NodeOK

\* CancelOP.
LEMMA StepCancel ==
    ASSUME TInv, NEW o \in Ops, CancelOP(o)
    PROVE  /\ TInv' /\ o \in Range(task_vec) /\ mem[o].status \in {"inited", "doing"}
           /\ mem'[o].status = "canceled" /\ mem'[o].index = mem[o].index
           /\ mem'[o].front = mem[o].front \/ mem'[o].front = "canceled"
           /\ NoTaskLeft(o) \/ mem'[o].front = "canceled"
           /\ \A x \in Ops : x # o => mem'[x] = mem[x]
<1>1. UNCHANGED <<load, ns, task_vec, done_op_list, pt, pool, poll, zk, op_index, parent, tablet,
                  tablet_up, ran, succeeded, begun, deleted>>
  BY Zenon DEF CancelOP, zkVars
<1>2. /\ o \in Range(task_vec) /\ mem[o].status \in {"inited", "doing"}
      /\ net' \subseteq net \cup {<<o, 0>>} /\ canceled' = canceled \cup {o}
      /\ mem' = [mem EXCEPT ![o].status = "canceled",
                            ![o].front = IF NoTaskLeft(o) THEN @ ELSE "canceled"]
  BY Zenon DEF CancelOP
<1>3. mem[o] \in MemType(Len(TasksOf(o))) /\ mem[o].front \in Status
  BY MemFacts, Zenon
<1>4. PICK c \in Status : c = "canceled"
  BY Zenon DEF Status
<1>5. PICK d \in Status : d = IF NoTaskLeft(o) THEN mem[o].front ELSE "canceled"
  BY <1>3, <1>4, Zenon
<1> DEFINE v == [[mem[o] EXCEPT !.status = c] EXCEPT !.front = d]
<1>6. /\ v \in MemType(Len(TasksOf(o))) /\ v.front = d
      /\ v.status = c /\ v.index = mem[o].index
  BY <1>3, Zenon DEF MemType
<1>7. mem' = [mem EXCEPT ![o] = v]
  <2>1. mem' = [mem EXCEPT ![o].status = c, ![o].front = IF NoTaskLeft(o) THEN @ ELSE "canceled"]
    BY <1>2, <1>4, Zenon
  <2> QED BY <1>3, <1>5, <2>1, Zenon DEF TInv, MemOK, MemType
<1> HIDE DEF v
<1>8. MemOK' /\ mem'[o] = v /\ \A y \in Ops : y # o => mem'[y] = mem[y]
  BY <1>1, <1>6, <1>7, MemSet, Zenon DEF TInv
<1>9. TabletType' /\ HistType'
  BY <1>1, <1>2 DEF TInv, TabletType, HistType
<1>10. StateType'
  BY <1>1, FaultFact, Zenon DEF CancelOP, TInv, StateType
<1>11. Unborn'
  <2>1. o <= op_index
    BY <1>2, OpFacts, Zenon
  <2> QED BY <1>1, <1>2, <1>8, <2>1, OpFacts, ZenonT(60) DEF TInv, Unborn, InDoneList
<1>12. TInv'
  BY <1>1, <1>8, <1>9, <1>10, <1>11, Frames, Zenon DEF TInv
<1> QED BY <1>2, <1>4, <1>5, <1>6, <1>8, <1>12, Zenon

\* StartFront.
Started(o) ==
    /\ mem'[o].status = "doing" /\ mem'[o].index = mem[o].index
    /\ mem'[o].front = IF mem[o].front = "inited" THEN "doing" ELSE mem[o].front
    /\ zk'[o].index = zk[o].index
    /\ zk'[o].status = IF mem[o].status = "inited" THEN "doing" ELSE zk[o].status
    /\ pool' = IF mem[o].front = "inited"
               THEN pool \cup {[op |-> o, task |-> FrontTask(o), pc |-> "queued"]} ELSE pool

LEMMA StepStart ==
    ASSUME TInv, StartFront
    PROVE  LET o == Head(task_vec) IN
           /\ TInv' /\ task_vec # <<>> /\ o \in Ops /\ Runnable(o)
           /\ Started(o) \/ UNCHANGED <<mem, zk, pool>>
           /\ \A x \in Ops : x # o => mem'[x] = mem[x] /\ zk'[x] = zk[x]
<1> DEFINE o == Head(task_vec)
<1>1. /\ UNCHANGED <<load, ns, task_vec, done_op_list, poll, op_index, parent, net, tablet,
                      tablet_up, ran, succeeded, canceled, deleted>>
      /\ task_vec # <<>> /\ Runnable(o)
  BY Zenon DEF StartFront, tabletVars
<1>2. o \in Ops /\ o <= op_index /\ ~NoTaskLeft(o)
  BY <1>1, OpFacts, Zenon DEF Runnable
<1>3. PtType'
  BY Zenon DEF StartFront, PtType, TInv
<1>4. StateType'
  BY <1>1, FaultFact, Zenon DEF StartFront, TInv, StateType
<1>5. PoolType' /\ HistType'
  BY <1>1, <1>2, FrontFacts DEF StartFront, TInv, PoolType, HistType, PoolPc
<1>6. /\ MemOK' /\ NodeOK'
      /\ Started(o) \/ UNCHANGED <<mem, zk, pool>>
      /\ \A x \in Ops : x # o => mem'[x] = mem[x] /\ zk'[x] = zk[x]
  <2>1. CASE UNCHANGED <<mem, zk, pool>>
    BY <1>1, <2>1, Frames, Zenon
  <2>2. CASE /\ LET m == [mem EXCEPT ![o].status = "doing"] IN mem' = Begin(m, o)
             /\ zk' = IF mem[o].status = "inited" THEN [zk EXCEPT ![o].status = "doing"]
                      ELSE zk
             /\ pool' = IF mem[o].front = "inited"
                        THEN pool \cup {[op |-> o, task |-> FrontTask(o), pc |-> "queued"]}
                        ELSE pool
    <3>1. mem[o] \in MemType(Len(TasksOf(o))) /\ zk[o] \in NodeType(Len(TasksOf(o)))
      BY <1>2, MemFacts, Zenon
    <3>2. PICK c \in Status : c = "doing"
      BY Zenon DEF Status
    <3>3. PICK d \in Status : d = IF mem[o].front = "inited" THEN "doing" ELSE mem[o].front
      BY <1>2, <3>2, MemFacts, Zenon
    <3> DEFINE u == [mem[o] EXCEPT !.status = c]
               v == [u EXCEPT !.front = d]
               w == [zk[o] EXCEPT !.status = c]
    <3>4. /\ u.front = mem[o].front /\ v \in MemType(Len(TasksOf(o))) /\ v.front = d
          /\ v.status = c /\ v.index = mem[o].index
      BY <3>1, Zenon DEF MemType
    <3>5. mem' = [mem EXCEPT ![o] = v]
      <4>1. mem' = Begin([mem EXCEPT ![o] = u], o)
        BY <2>2, <3>2, Zenon
      <4>2. [mem EXCEPT ![o] = u][o] = u
        BY <1>2, Zenon DEF TInv, MemOK
      <4>3. CASE mem[o].front = "inited"
        <5>1. mem' = [[mem EXCEPT ![o] = u] EXCEPT ![o].front = d]
          BY <3>3, <3>4, <4>1, <4>2, <4>3, Zenon DEF Begin
        <5> QED BY <1>2, <4>2, <5>1, Zenon DEF TInv, MemOK
      <4>4. CASE mem[o].front # "inited"
        <5>1. mem' = [mem EXCEPT ![o] = u]
          BY <3>4, <4>1, <4>2, <4>4, Zenon DEF Begin
        <5>2. u = v
          BY <3>1, <3>3, <4>4, Zenon DEF MemType
        <5> QED BY <5>1, <5>2, Zenon
      <4> QED BY <4>3, <4>4, Zenon
    <3> HIDE DEF v, u
    <3>6. MemOK' /\ mem'[o] = v /\ \A y \in Ops : y # o => mem'[y] = mem[y]
      BY <1>1, <1>2, <3>4, <3>5, MemSet, Zenon DEF TInv
    <3>7. w \in NodeType(Len(TasksOf(o))) /\ w.status = "doing" /\ w.index = zk[o].index
      BY <3>1, <3>2, Zenon DEF NodeType
    <3>8. CASE mem[o].status = "inited"
      <4>1. zk' = [zk EXCEPT ![o] = w]
        BY <2>2, <3>2, <3>8, Zenon
      <4> HIDE DEF w
      <4>2. NodeOK' /\ zk'[o] = w /\ \A y \in Ops : y # o => zk'[y] = zk[y]
        BY <1>1, <1>2, <3>7, <4>1, NodeSet, Zenon DEF TInv
      <4> QED BY <2>2, <3>2, <3>3, <3>4, <3>6, <3>7, <3>8, <4>2, Zenon DEF Started
    <3>9. CASE mem[o].status # "inited"
      <4>1. UNCHANGED zk
        BY <2>2, <3>9, Zenon
      <4>2. NodeOK'
        BY <1>1, <4>1, Frames, Zenon
      <4> QED BY <2>2, <3>2, <3>3, <3>4, <3>6, <3>9, <4>1, <4>2, Zenon DEF Started
    <3> QED BY <3>8, <3>9, Zenon
  <2> QED BY <2>1, <2>2, Zenon DEF StartFront
<1>7. Unborn'
  BY <1>1, <1>2, <1>6, OpFacts, Zenon DEF TInv, Unborn, InDoneList
<1> QED BY <1>1, <1>2, <1>3, <1>4, <1>5, <1>6, <1>7, Frames, Zenon DEF TInv
\* UpdateZKTaskStatus.
Advanced(o) ==
    /\ FrontDone(o) /\ mem'[o].status = mem[o].status /\ mem'[o].index = mem[o].index + 1
    /\ mem'[o].front = IF mem[o].status = "canceled" THEN "canceled" ELSE "inited"
    /\ zk'[o].status = mem[o].status /\ zk'[o].index = mem[o].index + 1

LEMMA StepZk ==
    ASSUME TInv, UpdateZKTaskStatus
    PROVE  /\ TInv' /\ pt'.op = pt.op /\ pt'.pc = "collect" /\ ns = "running"
           /\ UNCHANGED <<load, ns, task_vec, done_op_list, pool, poll, op_index, parent, net,
                          tablet, tablet_up, ran, succeeded, begun, canceled, deleted>>
           /\ \/ UNCHANGED <<mem, zk>>
              \/ LET o == Head(task_vec) IN
                 /\ o \in Range(task_vec) /\ Advanced(o)
                 /\ \A x \in Ops : x # o => mem'[x] = mem[x] /\ zk'[x] = zk[x]
<1>1. UNCHANGED <<load, ns, task_vec, done_op_list, pool, poll, op_index, parent, net,
                  tablet, tablet_up, ran, succeeded, begun, canceled, deleted>>
  BY Zenon DEF UpdateZKTaskStatus, tabletVars, histVars
<1>2. PtType' /\ pt'.op = pt.op /\ pt'.pc = "collect" /\ ns = "running"
  BY Zenon DEF UpdateZKTaskStatus, PtType, TInv
<1>3. StateType'
  BY <1>1, FaultFact, Zenon DEF UpdateZKTaskStatus, TInv, StateType
<1>4. CASE UNCHANGED <<mem, zk>>
  <2>1. Unborn'
    BY <1>1, <1>4, UnbornFrame, Zenon DEF Steady
  <2>2. TInv'
    BY <1>1, <1>2, <1>3, <1>4, <2>1, Frames, Zenon DEF TInv
  <2> QED BY <1>1, <1>2, <1>4, <2>2, Zenon
<1> DEFINE o == Head(task_vec)
<1>5. CASE /\ task_vec # <<>> /\ FrontDone(o)
           /\ zk' = [zk EXCEPT ![o] = [status |-> mem[o].status, index |-> mem[o].index + 1]]
           /\ mem' = [mem EXCEPT ![o] = Popped(mem[o])]
  <2>1. o \in Range(task_vec) /\ o \in Ops /\ ~NoTaskLeft(o) /\ o <= op_index
    BY <1>5, OpFacts, Zenon DEF FrontDone
  <2>2. /\ mem[o] \in MemType(Len(TasksOf(o))) /\ mem[o].index + 1 \in 0 .. Len(TasksOf(o))
        /\ mem[o].status \in Status \cup {"none"}
    BY <2>1, MemFacts, FrontFacts, Zenon
  <2>3. PICK f \in Status : f = IF mem[o].status = "canceled" THEN "canceled" ELSE "inited"
    BY Zenon DEF Status
  <2>4. PICK i \in 0 .. Len(TasksOf(o)) : i = mem[o].index + 1
    BY <2>2, Zenon
  <2>5. PICK y \in BOOLEAN : y = FALSE
    BY Zenon
  <2>6. PICK k \in 0 .. CheckLimit + 1 : k = 0
    BY OpAssumption
  <2> DEFINE v == Popped(mem[o])
             w == [status |-> mem[o].status, index |-> mem[o].index + 1]
  <2>7. v = [mem[o] EXCEPT !.index = @ + 1, !.sent = y, !.checks = k, !.front = f]
    BY <2>3, <2>5, <2>6, Zenon DEF Popped
  <2> HIDE DEF v
  <2>8. v = [status |-> mem[o].status, index |-> i, front |-> f, sent |-> y, checks |-> k]
    BY <2>2, <2>4, <2>7, Zenon DEF MemType
  <2>9. /\ v \in MemType(Len(TasksOf(o))) /\ v.front = f
        /\ v.status = mem[o].status /\ v.index = i
    BY <2>2, <2>8, Zenon DEF MemType
  <2>10. w \in NodeType(Len(TasksOf(o))) /\ w.status = mem[o].status /\ w.index = mem[o].index + 1
    BY <2>2, Zenon DEF NodeType
  <2>11. mem' = [mem EXCEPT ![o] = v] /\ zk' = [zk EXCEPT ![o] = w]
    BY <1>5, Zenon DEF v
  <2> HIDE DEF w, o
  <2>12. MemOK' /\ mem'[o] = v /\ \A x \in Ops : x # o => mem'[x] = mem[x]
    BY <1>1, <2>1, <2>9, <2>11, MemSet, Zenon DEF TInv
  <2>13. NodeOK' /\ zk'[o] = w /\ \A x \in Ops : x # o => zk'[x] = zk[x]
    BY <1>1, <2>1, <2>10, <2>11, NodeSet, Zenon DEF TInv
  <2>14. Unborn'
    BY <1>1, <2>1, <2>12, <2>13, OpFacts, Zenon DEF TInv, Unborn, InDoneList
  <2>15. TInv'
    BY <1>1, <1>2, <1>3, <2>12, <2>13, <2>14, Frames, Zenon DEF TInv
  <2>16. Advanced(o)
    BY <1>5, <2>3, <2>4, <2>9, <2>10, <2>12, <2>13, Zenon DEF Advanced, o
  <2> QED BY <1>1, <1>2, <2>1, <2>12, <2>13, <2>15, <2>16, Zenon DEF o
<1>6. CASE task_vec # <<>> /\ mem' = [mem EXCEPT ![o] = Reverted(o)] /\ UNCHANGED zk
  <2>1. o \in Ops
    BY <1>6, OpFacts, Zenon
  <2>2. UNCHANGED mem
    BY <1>6, <2>1, Zenon DEF Reverted, TInv, MemOK
  <2> QED BY <1>4, <1>6, <2>2, Zenon
<1> QED BY <1>4, <1>5, <1>6, Zenon DEF UpdateZKTaskStatus

\* Taking an operation off the list.
LEMMA OffList ==
    ASSUME TInv, NEW o \in Ops, task_vec' = Erased(o), mem' = [mem EXCEPT ![o] = NoOp],
           UNCHANGED <<load, parent>>
    PROVE  /\ VecType' /\ MemOK' /\ Range(task_vec') = Range(task_vec) \ {o}
           /\ mem'[o] = NoOp /\ \A x \in Ops : x # o => mem'[x] = mem[x]
<1>1. Len(TasksOf(o)) \in Nat
  BY OpFacts, Zenon
<1>2. NoOp \in MemType(Len(TasksOf(o)))
  BY <1>1, NewOpFact, Zenon
<1>3. MemOK' /\ mem'[o] = NoOp /\ \A x \in Ops : x # o => mem'[x] = mem[x]
  BY <1>2, MemSet, Zenon DEF TInv
<1>4. VecType' /\ Range(task_vec') = Range(task_vec) \ {o}
  <2>1. /\ Erased(o) \in Seq(Ops) /\ IsInjective(Erased(o))
        /\ Range(Erased(o)) = Range(task_vec) \ {o}
    BY ErasedFact, Zenon DEF TInv
  <2> QED BY <2>1, Zenon DEF VecType
<1> QED BY <1>3, <1>4, Zenon

Done == [op : Ops, status : {"done", "failed", "canceled"}]
NoDouble(q) == \A i, j \in 1 .. Len(q) : q[i].op = q[j].op => i = j

LEMMA DoneErasedFact ==
    ASSUME TInv, NEW o, NoDouble(done_op_list), NEW q, q = DoneErased(o)
    PROVE  /\ q \in Seq(Done) /\ SubList(q, done_op_list)
           /\ \A j \in 1 .. Len(q) : q[j].op # o
<1>1. done_op_list \in Seq(Done)
  BY Zenon DEF TInv, DoneType, Done
<1>2. DOMAIN done_op_list = 1 .. Len(done_op_list) /\ Len(done_op_list) \in Nat
  BY <1>1, SetOf, Zenon
<1>3. CASE InDoneList(o)
  <2> DEFINE i == CHOOSE i \in DOMAIN done_op_list : done_op_list[i].op = o
  <2>1. i \in 1 .. Len(done_op_list) /\ done_op_list[i].op = o
    BY <1>2, <1>3, Zenon DEF InDoneList
  <2>2. q = Erase(done_op_list, i)
    BY <1>3, Zenon DEF DoneErased
  <2> HIDE DEF i
  <2>3. q \in Seq(Done) /\ SubList(q, done_op_list)
    BY <1>1, <2>1, <2>2, Removed, Zenon
  <2>4. \A j \in DOMAIN q : \E k \in DOMAIN done_op_list : k # i /\ q[j] = done_op_list[k]
    BY <1>1, <2>1, <2>2, Removed
  <2>5. DOMAIN q = 1 .. Len(q)
    BY <2>3, SetOf, Zenon
  <2> QED BY <1>2, <2>1, <2>3, <2>4, <2>5 DEF NoDouble
<1>4. CASE ~InDoneList(o)
  <2>1. q = done_op_list
    BY <1>4, Zenon DEF DoneErased
  <2>2. SubList(q, done_op_list)
    BY <2>1, Zenon DEF SubList
  <2> QED BY <1>1, <1>2, <1>4, <2>1, <2>2, Zenon DEF InDoneList
<1> QED BY <1>3, <1>4, Zenon
LEMMA StepDeleteOP ==
    ASSUME TInv, NoDouble(done_op_list), NEW o \in Ops, DeleteOP(o)
    PROVE  /\ TInv' /\ ns = "running"
           /\ UNCHANGED <<load, ns, pt, pool, poll, op_index, parent, net, tablet, tablet_up, ran,
                          succeeded, begun, canceled>>
           /\ Range(task_vec') = Range(task_vec) \ {o} /\ deleted' = deleted \cup {o}
           /\ \A x \in Ops : x # o => mem'[x] = mem[x] /\ zk'[x] = zk[x]
           /\ zk'[o] = NoNode \/ (DoneAs(o, "done") /\ UNCHANGED zk)
           /\ SubList(done_op_list', done_op_list)
           /\ \A j \in 1 .. Len(done_op_list') : done_op_list'[j].op # o
<1>1. /\ UNCHANGED <<load, ns, pt, pool, poll, op_index, parent, net, tablet, tablet_up, ran,
                      succeeded, begun, canceled>>
      /\ ns = "running" /\ deleted' = deleted \cup {o}
      /\ done_op_list' = DoneErased(o) /\ task_vec' = Erased(o)
      /\ mem' = [mem EXCEPT ![o] = NoOp]
      /\ zk' = IF DoneAs(o, "done") THEN zk ELSE [zk EXCEPT ![o] = NoNode]
      /\ InDoneList(o) \/ o \in Range(task_vec)
  BY Zenon DEF DeleteOP, tabletVars, NodeDeleted
<1>2. /\ VecType' /\ MemOK' /\ Range(task_vec') = Range(task_vec) \ {o}
      /\ mem'[o] = NoOp /\ \A x \in Ops : x # o => mem'[x] = mem[x]
  BY <1>1, OffList, Zenon
<1>3. /\ done_op_list' \in Seq(Done) /\ SubList(done_op_list', done_op_list)
      /\ \A j \in 1 .. Len(done_op_list') : done_op_list'[j].op # o
  BY <1>1, DoneErasedFact, Zenon
<1>4. /\ NodeOK' /\ (zk'[o] = NoNode \/ (DoneAs(o, "done") /\ UNCHANGED zk))
      /\ \A x \in Ops : x # o => zk'[x] = zk[x]
  <2>1. CASE DoneAs(o, "done")
    BY <1>1, <2>1, Frames, Zenon
  <2>2. CASE ~DoneAs(o, "done")
    <3>1. zk' = [zk EXCEPT ![o] = NoNode]
      BY <1>1, <2>2, Zenon
    <3>2. Len(TasksOf(o)) \in Nat
      BY OpFacts, Zenon
    <3>3. NoNode \in NodeType(Len(TasksOf(o)))
      BY <3>2, NewOpFact, Zenon
    <3> QED BY <1>1, <3>1, <3>3, NodeSet, Zenon DEF TInv
  <2> QED BY <2>1, <2>2, Zenon
<1>5. DoneType'
  BY <1>3, Zenon DEF DoneType, Done
<1>6. HistType'
  BY <1>1, Zenon DEF TInv, HistType
<1>7. StateType'
  BY <1>1, FaultFact, Zenon DEF DeleteOP, TInv, StateType
<1>8. Unborn'
  <2> SUFFICES ASSUME NEW x \in Ops, x > op_index
               PROVE  /\ x \notin Range(task_vec') /\ ~InDoneList(x)' /\ x \notin deleted'
                      /\ x \notin canceled /\ mem'[x].index = 0 /\ zk'[x] = NoNode /\ parent[x] = 0
    BY <1>1, Zenon DEF Unborn
  <2>1. /\ x \notin Range(task_vec) /\ ~InDoneList(x) /\ x \notin deleted
        /\ x \notin canceled /\ mem[x].index = 0 /\ zk[x] = NoNode /\ parent[x] = 0
    BY Zenon DEF TInv, Unborn
  <2>2. x # o
    BY <1>1, <2>1, Zenon
  <2>3. ~InDoneList(x)'
    <3>1. DOMAIN done_op_list' = 1 .. Len(done_op_list')
      BY <1>3, SetOf, Zenon
    <3>2. DOMAIN done_op_list = 1 .. Len(done_op_list)
      BY SetOf, ZenonT(60) DEF TInv, DoneType
    <3>3. \A j \in 1 .. Len(done_op_list) : done_op_list[j].op # x
      BY <2>1, <3>2, Zenon DEF InDoneList
    <3>4. \A j \in 1 .. Len(done_op_list') : done_op_list'[j].op # x
      BY <1>3, <3>3 DEF SubList
    <3> QED BY <3>1, <3>4, Zenon DEF InDoneList
  <2> QED BY <1>1, <1>2, <1>4, <2>1, <2>2, <2>3, Zenon
<1> QED BY <1>1, <1>2, <1>3, <1>4, <1>5, <1>6, <1>7, <1>8, Frames, Zenon DEF TInv

\* DeleteTask, with the record that goes to done_op_list.
Ended(o, s) ==
    /\ o \in Ops /\ o \in Range(task_vec) /\ s \in {"done", "failed", "canceled"}
    /\ s = IF EndsFailed(o) THEN "failed" ELSE FinalStatus(o)
    /\ done_op_list' = Append(done_op_list, [op |-> o, status |-> s])
    /\ Range(task_vec') = Range(task_vec) \ {o}
    /\ \A x \in Ops : x # o => mem'[x] = mem[x] /\ zk'[x] = zk[x]
    /\ \/ EndsFailed(o) /\ zk'[o].status = "failed" /\ zk'[o].index = mem[o].index
       \/ EndsFailed(o) /\ zk'[o] = zk[o]
       \/ zk'[o] = NoNode

LEMMA StepDeleteTask ==
    ASSUME TInv, DeleteTask,
           pt.op \in Range(task_vec) /\ ~EndsFailed(pt.op) =>
              FinalStatus(pt.op) \in {"done", "failed", "canceled"}
    PROVE  /\ TInv' /\ ns = "running" /\ pt' = [pc |-> "run", op |-> 0]
           /\ UNCHANGED <<load, ns, pool, poll, op_index, parent, net, tablet, tablet_up, ran,
                          succeeded, begun, canceled, deleted>>
           /\ \/ UNCHANGED <<task_vec, mem, zk, done_op_list>>
              \/ pt.pc = "erase" /\ \E s \in {"done", "failed", "canceled"} : Ended(pt.op, s)
<1>1. /\ UNCHANGED <<load, ns, pool, poll, op_index, parent, net, tablet, tablet_up, ran,
                      succeeded, begun, canceled, deleted>>
      /\ ns = "running" /\ pt.pc = "erase" /\ pt' = [pc |-> "run", op |-> 0]
  BY Zenon DEF DeleteTask, tabletVars, histVars
<1>2. PtType'
  BY <1>1, Zenon DEF PtType
<1>3. StateType'
  BY <1>1, FaultFact, Zenon DEF DeleteTask, TInv, StateType
<1>4. CASE UNCHANGED <<task_vec, mem, zk, done_op_list>>
  <2>1. Unborn'
    BY <1>1, <1>4, UnbornFrame, Zenon DEF Steady
  <2>2. TInv'
    BY <1>1, <1>2, <1>3, <1>4, <2>1, Frames, Zenon DEF TInv
  <2> QED BY <1>1, <1>4, <2>2, Zenon
<1> DEFINE o == pt.op
<1>5. ASSUME o \in Range(task_vec), task_vec' = Erased(o), mem' = [mem EXCEPT ![o] = NoOp],
             NEW s \in {"done", "failed", "canceled"},
             s = IF EndsFailed(o) THEN "failed" ELSE FinalStatus(o),
             done_op_list' = Append(done_op_list, [op |-> o, status |-> s]),
             NEW w,
             \/ EndsFailed(o) /\ w = [status |-> "failed", index |-> mem[o].index]
             \/ EndsFailed(o) /\ w = zk[o]
             \/ w = NoNode,
             zk' = [zk EXCEPT ![o] = w]
      PROVE  TInv' /\ Ended(o, s)
  <2>1. o \in Ops /\ o <= op_index /\ Len(TasksOf(o)) \in Nat
    BY <1>5, OpFacts, Zenon
  <2>2. /\ VecType' /\ MemOK' /\ Range(task_vec') = Range(task_vec) \ {o}
        /\ mem'[o] = NoOp /\ \A x \in Ops : x # o => mem'[x] = mem[x]
    BY <1>1, <1>5, <2>1, OffList, Zenon
  <2>3. w \in NodeType(Len(TasksOf(o)))
    <3>1. CASE w = [status |-> "failed", index |-> mem[o].index]
      BY <2>1, <3>1, MemFacts, Zenon DEF NodeType, Status
    <3>2. CASE w = zk[o]
      BY <2>1, <3>2, MemFacts, Zenon
    <3>3. CASE w = NoNode
      BY <2>1, <3>3, NewOpFact, Zenon
    <3> QED BY <1>5, <3>1, <3>2, <3>3, Zenon
  <2>4. NodeOK' /\ zk'[o] = w /\ \A x \in Ops : x # o => zk'[x] = zk[x]
    BY <1>1, <1>5, <2>1, <2>3, NodeSet, Zenon DEF TInv
  <2>5. Ended(o, s)
    <3>1. \/ EndsFailed(o) /\ zk'[o].status = "failed" /\ zk'[o].index = mem[o].index
          \/ EndsFailed(o) /\ zk'[o] = zk[o]
          \/ zk'[o] = NoNode
      BY <1>5, <2>4
    <3> QED BY <1>5, <2>1, <2>2, <2>4, <3>1, Zenon DEF Ended
  <2>6. /\ done_op_list \in Seq(Done) /\ [op |-> o, status |-> s] \in Done
        /\ done_op_list' \in Seq(Done) /\ Len(done_op_list') = Len(done_op_list) + 1
        /\ \A j \in 1 .. Len(done_op_list') :
              done_op_list'[j] = IF j <= Len(done_op_list) THEN done_op_list[j]
                                 ELSE [op |-> o, status |-> s]
    <3>1. done_op_list \in Seq(Done) /\ [op |-> o, status |-> s] \in Done
      BY <2>1, Zenon DEF TInv, DoneType, Done
    <3> QED BY <1>5, <3>1, AppendFact
  <2>7. DoneType'
    BY <2>6, Zenon DEF DoneType, Done
  <2>8. Unborn'
    <3> SUFFICES ASSUME NEW x \in Ops, x > op_index
                 PROVE  /\ x \notin Range(task_vec') /\ ~InDoneList(x)' /\ x \notin deleted
                        /\ x \notin canceled /\ mem'[x].index = 0 /\ zk'[x] = NoNode /\ parent[x] = 0
      BY <1>1, Zenon DEF Unborn
    <3>1. /\ x \notin Range(task_vec) /\ ~InDoneList(x) /\ x \notin deleted
          /\ x \notin canceled /\ mem[x].index = 0 /\ zk[x] = NoNode /\ parent[x] = 0
      BY Zenon DEF TInv, Unborn
    <3>2. x # o
      BY <2>1, OpFacts
    <3>3. ~InDoneList(x)'
      <4>1. DOMAIN done_op_list' = 1 .. Len(done_op_list')
        BY <2>6, SetOf, Zenon
      <4>2. DOMAIN done_op_list = 1 .. Len(done_op_list) /\ Len(done_op_list) \in Nat
        BY <2>6, SetOf, Zenon
      <4>3. \A j \in 1 .. Len(done_op_list) : done_op_list[j].op # x
        BY <3>1, <4>2, Zenon DEF InDoneList
      <4>4. [op |-> o, status |-> s].op = o
        BY Zenon
      <4>5. ASSUME NEW j \in 1 .. Len(done_op_list') PROVE done_op_list'[j].op # x
        <5>1. CASE j <= Len(done_op_list)
          BY <2>6, <4>2, <4>3, <5>1
        <5>2. CASE ~(j <= Len(done_op_list))
          BY <2>6, <3>2, <4>4, <5>2, Zenon
        <5> QED BY <5>1, <5>2, Zenon
      <4> QED BY <4>1, <4>5, Zenon DEF InDoneList
    <3> QED BY <2>2, <2>4, <3>1, <3>2, <3>3, Zenon
  <2> QED BY <1>1, <1>2, <1>3, <2>2, <2>4, <2>5, <2>7, <2>8, Frames, Zenon DEF TInv
<1>6. CASE /\ o \in Range(task_vec) /\ EndsFailed(o)
           /\ \/ zk' = [zk EXCEPT ![o] = [status |-> "failed", index |-> mem[o].index]]
              \/ UNCHANGED zk
           /\ done_op_list' = Append(done_op_list, [op |-> o, status |-> "failed"])
           /\ task_vec' = Erased(o) /\ mem' = [mem EXCEPT ![o] = NoOp]
  <2>1. PICK w : /\ w = [status |-> "failed", index |-> mem[o].index] \/ w = zk[o]
                 /\ zk' = [zk EXCEPT ![o] = w]
    <3>1. UNCHANGED zk => zk' = [zk EXCEPT ![o] = zk[o]]
      BY Zenon DEF TInv, NodeOK
    <3> QED BY <1>6, <3>1, Zenon
  <2>2. PICK s \in {"done", "failed", "canceled"} : s = "failed"
    BY Zenon
  <2>3. TInv' /\ Ended(o, s)
    BY <1>5, <1>6, <2>1, <2>2, Zenon
  <2> QED BY <1>1, <2>3, Zenon
<1>7. CASE /\ o \in Range(task_vec) /\ ~EndsFailed(o)
           /\ zk' = [zk EXCEPT ![o] = NoNode]
           /\ done_op_list' = Append(done_op_list, [op |-> o, status |-> FinalStatus(o)])
           /\ task_vec' = Erased(o) /\ mem' = [mem EXCEPT ![o] = NoOp]
  <2>1. FinalStatus(o) \in {"done", "failed", "canceled"}
    BY <1>7, Zenon
  <2>2. TInv' /\ Ended(o, FinalStatus(o))
    BY <1>5, <1>7, <2>1, Zenon
  <2> QED BY <1>1, <2>1, <2>2, Zenon
<1> QED BY <1>4, <1>6, <1>7, Zenon DEF DeleteTask
\* Creating an operation.
LEMMA DeleteDoneFact ==
    ASSUME TInv, NEW o \in Ops, NEW k \in 0 .. Excess, DeleteDoneOP(k, o)
    PROVE  /\ done_op_list' \in Seq(Done) /\ SubList(done_op_list', done_op_list)
           /\ zk' = [x \in Ops |-> zk'[x]] /\ zk'[o] = NewNode
           /\ \A x \in Ops : x # o => zk'[x] = zk[x] \/ zk'[x] = NoNode
           /\ faults' \in 0 .. MaxFaults
<1>1. done_op_list \in Seq(Done) /\ Len(done_op_list) \in Nat
  BY SetOf, Zenon DEF TInv, DoneType, Done
<1>2. load.done \in Nat
  BY OpAssumption, Zenon DEF TInv, IdType
<1>3. Excess \in 0 .. Len(done_op_list)
  BY <1>1, <1>2 DEF Excess, MaxDone
<1>4. PICK n \in 1 .. Len(done_op_list) + 1 : n = k + 1
  BY <1>1, <1>3
<1>5. done_op_list' = SubSeq(done_op_list, n, Len(done_op_list))
  BY <1>4, Zenon DEF DeleteDoneOP
<1>6. done_op_list' \in Seq(Done) /\ SubList(done_op_list', done_op_list)
  BY <1>1, <1>5, LastPart, Zenon
<1>7. zk' = [x \in Ops |->
               IF x = o THEN NewNode
               ELSE IF \E i \in 1 .. k : done_op_list[i] = [op |-> x, status |-> "failed"]
               THEN NoNode ELSE zk[x]]
  BY Zenon DEF DeleteDoneOP
<1>8. faults' \in 0 .. MaxFaults
  BY FaultFact, Zenon DEF DeleteDoneOP, TInv, StateType
<1> QED BY <1>6, <1>7, <1>8, Zenon

\* mem, zk and the lists after operation n, with parent p, has been created: not
\* at all, only its node, or its node and its place in the list.
Created(n, p) ==
    /\ n = op_index + 1 /\ n \in Ops /\ op_index' = n
    /\ \/ /\ UNCHANGED <<task_vec, done_op_list>> /\ \A x \in Ops : mem'[x] = mem[x]
          /\ zk'[n] \in {NoNode, NewNode} /\ \A x \in Ops : x # n => zk'[x] = zk[x]
       \/ /\ Range(task_vec') = Range(task_vec) \cup {n}
          /\ mem'[n] = NewOp /\ zk'[n] = NewNode
          /\ \A x \in Ops : x # n =>
                /\ zk'[x] = zk[x] \/ zk'[x] = NoNode
                /\ mem'[x].status = mem[x].status /\ mem'[x].index = mem[x].index
          /\ SubList(done_op_list', done_op_list)

\* The types of the parts that Created changes.
LEMMA CreatedTypes ==
    ASSUME TInv, NEW n, NEW p \in Ops \cup {0}, Created(n, p),
           UNCHANGED <<load, canceled, deleted>>, parent' = [parent EXCEPT ![n] = p],
           DOMAIN mem' = Ops, DOMAIN zk' = Ops, mem' = [x \in Ops |-> mem'[x]],
           zk' = [x \in Ops |-> zk'[x]],
           \A x \in Ops : x # n => mem'[x] \in MemType(Len(TasksOf(x))),
           done_op_list' \in Seq(Done)
    PROVE  MemOK' /\ NodeOK' /\ DoneType' /\ IdType' /\ Unborn'
<1>1. n = op_index + 1 /\ n \in Ops /\ op_index' = n /\ op_index \in Nat
  BY OpFacts, Zenon DEF Created
<1>2. parent \in [Ops -> Ops \cup {0}]
  BY Zenon DEF TInv, IdType
<1>3. IdType'
  BY <1>1, <1>2 DEF TInv, IdType, Ops
<1>4. \A x \in Ops : x # n => TasksOf(x)' = TasksOf(x)
  BY <1>2, Zenon DEF TasksOf, Plan, ChildPlan
<1>5. Len(TasksOf(n)') \in Nat
  <2>1. TasksOf(n)' \in {load.plan, load.childPlan}
    BY Zenon DEF TasksOf, Plan, ChildPlan
  <2>2. load.plan \in Seq(Kinds) /\ load.childPlan \in Seq(Kinds)
    BY OpAssumption, Zenon DEF TInv, IdType
  <2> QED BY <2>1, <2>2
<1>6. /\ n \notin Range(task_vec) /\ ~InDoneList(n) /\ n \notin deleted /\ n \notin canceled
      /\ mem[n].index = 0 /\ zk[n] = NoNode
  BY <1>1 DEF TInv, Unborn
<1>7. mem'[n] \in MemType(Len(TasksOf(n)'))
  <2>1. mem[n] \in MemType(Len(TasksOf(n)')) 
    <3>1. mem[n] \in MemType(Len(TasksOf(n)))
      BY <1>1, MemFacts, Zenon
    <3> QED BY <1>5, <1>6, <3>1 DEF MemType
  <2>2. NewOp \in MemType(Len(TasksOf(n)'))
    BY <1>5, NewOpFact, Zenon
  <2> QED BY <1>1, <2>1, <2>2, Zenon DEF Created
<1>8. MemOK'
  BY <1>4, <1>7, Zenon DEF MemOK
<1>9. \A x \in Ops : zk'[x] \in NodeType(Len(TasksOf(x)'))
  <2>1. zk'[n] \in NodeType(Len(TasksOf(n)'))
    <3>1. NoNode \in NodeType(Len(TasksOf(n)')) /\ NewNode \in NodeType(Len(TasksOf(n)'))
      BY <1>5, NewOpFact, Zenon
    <3> QED BY <3>1, Zenon DEF Created
  <2>2. ASSUME NEW x \in Ops, x # n PROVE zk'[x] \in NodeType(Len(TasksOf(x)'))
    <3>1. zk[x] \in NodeType(Len(TasksOf(x))) /\ Len(TasksOf(x)) \in Nat
      BY MemFacts, OpFacts, Zenon
    <3>2. NoNode \in NodeType(Len(TasksOf(x)))
      BY <3>1, NewOpFact, Zenon
    <3>3. zk'[x] = zk[x] \/ zk'[x] = NoNode
      BY <2>2, Zenon DEF Created
    <3> QED BY <1>4, <2>2, <3>1, <3>2, <3>3, Zenon
  <2> QED BY <2>1, <2>2, Zenon
<1>10. NodeOK'
  BY <1>9, Zenon DEF NodeOK
<1>11. DoneType'
  BY Zenon DEF DoneType, Done
<1>12. Unborn'
  <2> SUFFICES ASSUME NEW x \in Ops, x > op_index'
               PROVE  /\ x \notin Range(task_vec') /\ ~InDoneList(x)' /\ x \notin deleted
                      /\ x \notin canceled /\ mem'[x].index = 0 /\ zk'[x] = NoNode /\ parent'[x] = 0
    BY Zenon DEF Unborn
  <2>1. x > op_index /\ x # n
    BY <1>1, OpFacts
  <2>2. /\ x \notin Range(task_vec) /\ ~InDoneList(x) /\ x \notin deleted
        /\ x \notin canceled /\ mem[x].index = 0 /\ zk[x] = NoNode /\ parent[x] = 0
    BY <2>1, Zenon DEF TInv, Unborn
  <2>3. ~InDoneList(x)'
    <3>1. DOMAIN done_op_list' = 1 .. Len(done_op_list')
      BY SetOf, Zenon
    <3>2. DOMAIN done_op_list = 1 .. Len(done_op_list)
      <4>1. done_op_list \in Seq(Done) /\ done_op_list' \in Seq(Done)
        BY Zenon DEF TInv, DoneType, Done
      <4> QED BY <4>1, SetOf, Zenon
    <3>3. \A j \in 1 .. Len(done_op_list) : done_op_list[j].op # x
      BY <2>2, <3>2, Zenon DEF InDoneList
    <3>4. \A j \in 1 .. Len(done_op_list') : done_op_list'[j].op # x
      BY <3>3 DEF SubList, Created
    <3> QED BY <3>1, <3>4, Zenon DEF InDoneList
  <2>4. x \notin Range(task_vec') /\ mem'[x].index = 0 /\ zk'[x] = NoNode
    BY <2>1, <2>2, Zenon DEF Created
  <2>5. parent'[x] = 0
    BY <1>2, <2>1, <2>2, Zenon
  <2> QED BY <2>2, <2>3, <2>4, <2>5, Zenon
<1> QED BY <1>3, <1>8, <1>10, <1>11, <1>12, Zenon

LEMMA StepAdd ==
    ASSUME TInv, AddOPData
    PROVE  /\ TInv' /\ Created(op_index + 1, 0) /\ ns = "running"
           /\ UNCHANGED <<load, ns, pt, pool, poll, parent, net, tablet, tablet_up, ran,
                          succeeded, begun, canceled, deleted>>
           /\ \A x \in Ops : x # op_index + 1 => mem'[x] = mem[x]
<1> DEFINE n == op_index + 1
<1>1. /\ UNCHANGED <<load, ns, pt, pool, poll, parent, net, tablet, tablet_up, ran,
                      succeeded, begun, canceled, deleted>>
      /\ ns = "running" /\ op_index' = n /\ op_index < load.ops
  BY Zenon DEF AddOPData, tabletVars, histVars
<1>2. n \in Ops /\ op_index \in Nat
  BY <1>1, OpFacts, OpAssumption DEF TInv, IdType, Ops
<1>3. n \notin Range(task_vec) /\ parent[n] = 0 /\ zk[n] = NoNode /\ mem[n].index = 0
  BY <1>2 DEF TInv, Unborn
<1> HIDE DEF n
<1>4. parent' = [parent EXCEPT ![n] = 0]
  BY <1>1, <1>2, <1>3, Zenon DEF TInv, IdType
<1>5. CASE Fault("zk") /\ UNCHANGED <<zk, mem, task_vec, done_op_list>>
  <2>1. Created(n, 0)
    BY <1>1, <1>2, <1>3, <1>5, Zenon DEF Created, n
  <2>2. MemOK' /\ NodeOK' /\ DoneType' /\ IdType' /\ Unborn'
    <3>1. \A x \in Ops : x # n => mem'[x] \in MemType(Len(TasksOf(x)))
      BY <1>5, MemFacts, Zenon
    <3>2. DOMAIN mem' = Ops /\ DOMAIN zk' = Ops /\ mem' = [x \in Ops |-> mem'[x]]
          /\ zk' = [x \in Ops |-> zk'[x]] /\ done_op_list' \in Seq(Done)
      BY <1>5, Zenon DEF TInv, MemOK, NodeOK, DoneType, Done
    <3> QED BY <1>1, <1>4, <2>1, <3>1, <3>2, CreatedTypes, ZenonT(60)
  <2>3. faults' \in 0 .. MaxFaults
    BY <1>5, FaultFact, Zenon
  <2>4. StateType'
    BY <1>1, <2>3, Zenon DEF TInv, StateType
  <2> QED BY <1>1, <1>5, <2>1, <2>2, <2>4, Frames, Zenon DEF TInv, n
<1>6. CASE /\ mem' = [mem EXCEPT ![n] = NewOp] /\ task_vec' = Insert(n, 0)
           /\ \E k \in 0 .. Excess : DeleteDoneOP(k, n)
  <2>1. /\ done_op_list' \in Seq(Done) /\ SubList(done_op_list', done_op_list)
        /\ zk' = [x \in Ops |-> zk'[x]] /\ zk'[n] = NewNode
        /\ \A x \in Ops : x # n => zk'[x] = zk[x] \/ zk'[x] = NoNode
        /\ faults' \in 0 .. MaxFaults
    BY <1>2, <1>6, DeleteDoneFact, Zenon
  <2>2. /\ VecType' /\ Range(task_vec') = Range(task_vec) \cup {n}
    BY <1>2, <1>3, <1>6, Inserted, Zenon DEF TInv, VecType
  <2>3. DOMAIN mem = Ops
    BY Zenon DEF TInv, MemOK
  <2>4. /\ mem'[n] = NewOp /\ mem' = [x \in Ops |-> mem'[x]]
        /\ \A x \in Ops : x # n => mem'[x] = mem[x]
    BY <1>2, <1>6, <2>3, Zenon
  <2>5. Created(n, 0)
    BY <1>1, <1>2, <2>1, <2>2, <2>4, Zenon DEF Created, n
  <2>6. MemOK' /\ NodeOK' /\ DoneType' /\ IdType' /\ Unborn'
    <3>1. \A x \in Ops : x # n => mem'[x] \in MemType(Len(TasksOf(x)))
      BY <2>4, MemFacts, Zenon
    <3>2. DOMAIN mem' = Ops /\ DOMAIN zk' = Ops
      BY <2>1, <2>4, Zenon
    <3> QED BY <1>1, <1>4, <2>1, <2>4, <2>5, <3>1, <3>2, CreatedTypes, Zenon
  <2>7. StateType'
    BY <1>1, <2>1, Zenon DEF TInv, StateType
  <2> QED BY <1>1, <2>2, <2>4, <2>5, <2>6, <2>7, Frames, Zenon DEF TInv, n
<1> QED BY <1>1, <1>5, <1>6, Zenon DEF AddOPData, n
LEMMA StepRecoverTable ==
    ASSUME TInv, NEW r \in pool, RecoverEndpointTable(r)
    PROVE  /\ TInv' /\ Created(op_index + 1, r.op)
           /\ UNCHANGED <<load, ns, pt, poll, net, tablet, tablet_up, begun, canceled, deleted>>
           /\ parent' = [parent EXCEPT ![op_index + 1] = r.op] /\ pool' = pool \ {r}
           /\ ran' = [ran EXCEPT ![<<r.op, r.task>>] = @ + 1]
           /\ succeeded' = succeeded \cup {<<r.op, r.task>>}
           /\ r.pc = "queued" /\ Kind(r) = "recover"
           /\ \A x \in Ops : x # op_index + 1 =>
                 mem'[x] = mem[x] \/ (x = r.op /\ IsFront(r) /\ mem'[x].front = "done")
<1> DEFINE n == op_index + 1
<1>1. /\ UNCHANGED <<load, ns, pt, poll, net, tablet, tablet_up, begun, canceled, deleted>>
      /\ op_index' = n /\ op_index < load.ops /\ parent' = [parent EXCEPT ![n] = r.op]
      /\ pool' = pool \ {r} /\ ran' = [ran EXCEPT ![<<r.op, r.task>>] = @ + 1]
      /\ succeeded' = succeeded \cup {<<r.op, r.task>>} /\ r.pc = "queued" /\ Kind(r) = "recover"
  BY Zenon DEF RecoverEndpointTable, tabletVars
<1>2. n \in Ops /\ op_index \in Nat
  BY <1>1, OpFacts, OpAssumption DEF TInv, IdType, Ops
<1>3. n \notin Range(task_vec) /\ parent[n] = 0 /\ zk[n] = NoNode /\ mem[n].index = 0
  BY <1>2 DEF TInv, Unborn
<1>4. r.op \in Ops /\ r.task \in Tasks /\ PoolType'
  BY <1>1, PoolFacts, Zenon DEF PoolType
<1>5. HistType'
  BY <1>1, <1>4 DEF TInv, HistType
<1>6. DOMAIN mem = Ops /\ DOMAIN zk = Ops /\ MemOK
  BY Zenon DEF TInv, MemOK, NodeOK
<1> HIDE DEF n
<1>7. CASE r.op \notin Range(task_vec)
  <2>1. zk' = [zk EXCEPT ![n] = NewNode] /\ UNCHANGED <<mem, task_vec, done_op_list, faults>>
    BY <1>1, <1>7, Zenon DEF RecoverEndpointTable
  <2>2. /\ zk'[n] = NewNode /\ zk' = [x \in Ops |-> zk'[x]] /\ DOMAIN zk' = Ops
        /\ \A x \in Ops : x # n => zk'[x] = zk[x]
    BY <1>2, <1>6, <2>1, Zenon
  <2>3. Created(n, r.op)
    BY <1>1, <1>2, <2>1, <2>2, Zenon DEF Created, n
  <2>4. MemOK' /\ NodeOK' /\ DoneType' /\ IdType' /\ Unborn'
    <3>1. \A x \in Ops : x # n => mem'[x] \in MemType(Len(TasksOf(x)))
      BY <2>1, MemFacts, Zenon
    <3>2. DOMAIN mem' = Ops /\ mem' = [x \in Ops |-> mem'[x]] /\ done_op_list' \in Seq(Done)
      BY <2>1, Zenon DEF TInv, MemOK, DoneType, Done
    <3>3. r.op \in Ops \cup {0}
      BY <1>4, Zenon
    <3> QED BY <1>1, <2>2, <2>3, <3>1, <3>2, <3>3, CreatedTypes, Zenon
  <2>5. StateType'
    BY <1>1, <2>1, Zenon DEF TInv, StateType
  <2> QED BY <1>1, <1>4, <1>5, <2>1, <2>3, <2>4, <2>5, Frames, ZenonT(60) DEF TInv, n
<1>8. CASE r.op \in Range(task_vec)
  <2>1. /\ mem' = [SetStatus(r, "done") EXCEPT ![n] = NewOp]
        /\ task_vec' = Insert(n, r.op) /\ \E k \in 0 .. Excess : DeleteDoneOP(k, n)
    BY <1>1, <1>8 DEF RecoverEndpointTable
  <2>2. /\ done_op_list' \in Seq(Done) /\ SubList(done_op_list', done_op_list)
        /\ zk' = [x \in Ops |-> zk'[x]] /\ zk'[n] = NewNode
        /\ \A x \in Ops : x # n => zk'[x] = zk[x] \/ zk'[x] = NoNode
        /\ faults' \in 0 .. MaxFaults
    BY <1>2, <2>1, DeleteDoneFact, Zenon
  <2>3. VecType' /\ Range(task_vec') = Range(task_vec) \cup {n}
    BY <1>2, <1>3, <1>8, <2>1, Inserted, Zenon DEF TInv, VecType
  <2> DEFINE m == SetStatus(r, "done")
             v == [mem[r.op] EXCEPT !.front = "done"]
  <2>4. mem[r.op] \in MemType(Len(TasksOf(r.op)))
    BY <1>4, MemFacts, Zenon
  <2>5. /\ v \in MemType(Len(TasksOf(r.op))) /\ v.front = "done"
        /\ v.status = mem[r.op].status /\ v.index = mem[r.op].index
    BY <2>4, Zenon DEF MemType, Status
  <2>6. /\ DOMAIN m = Ops
        /\ \A x \in Ops : m[x] = mem[x] \/ (x = r.op /\ IsFront(r) /\ m[x] = v)
    BY <1>4, <1>6, Zenon DEF SetStatus
  <2> HIDE DEF m, v
  <2>7. mem' = [m EXCEPT ![n] = NewOp]
    BY <2>1, Zenon DEF m
  <2>8. /\ mem'[n] = NewOp /\ mem' = [x \in Ops |-> mem'[x]] /\ DOMAIN mem' = Ops
        /\ \A x \in Ops : x # n => mem'[x] = mem[x] \/ (x = r.op /\ IsFront(r) /\ mem'[x] = v)
    BY <1>2, <2>6, <2>7, Zenon
  <2>9. Created(n, r.op)
    BY <1>1, <1>2, <2>2, <2>3, <2>5, <2>8, Zenon DEF Created, n
  <2>10. MemOK' /\ NodeOK' /\ DoneType' /\ IdType' /\ Unborn'
    <3>1. \A x \in Ops : x # n => mem'[x] \in MemType(Len(TasksOf(x)))
      BY <2>5, <2>8, MemFacts, Zenon
    <3>2. DOMAIN zk' = Ops /\ r.op \in Ops \cup {0}
      BY <1>4, <2>2, Zenon
    <3> QED BY <1>1, <2>2, <2>8, <2>9, <3>1, <3>2, CreatedTypes, Zenon
  <2>11. StateType'
    BY <1>1, <2>2, Zenon DEF TInv, StateType
  <2> QED BY <1>1, <1>4, <1>5, <2>3, <2>5, <2>8, <2>9, <2>10, <2>11, Frames, ZenonT(60) DEF TInv, n
<1> QED BY <1>7, <1>8, Zenon

\* Losing the name server.
LEMMA StepCrash ==
    ASSUME TInv, NsCrash
    PROVE  /\ TInv' /\ ns' = "down" /\ task_vec' = <<>> /\ done_op_list' = <<>> /\ pool' = {}
           /\ canceled' = {} /\ pt' = [pc |-> "run", op |-> 0] /\ poll'.resp = NoMap
           /\ UNCHANGED <<load, zk, op_index, parent, net, tablet, tablet_up, ran, succeeded,
                          begun, deleted>>
<1>1. /\ ns' = "down" /\ task_vec' = <<>> /\ done_op_list' = <<>> /\ pool' = {}
      /\ canceled' = {} /\ pt' = [pc |-> "run", op |-> 0] /\ poll' = Idle
      /\ mem' = [o \in Ops |-> NoOp]
      /\ UNCHANGED <<load, zk, op_index, parent, net, tablet, tablet_up, ran, succeeded,
                     begun, deleted>>
  BY Zenon DEF NsCrash, zkVars, tabletVars
<1>2. VecType' /\ Range(task_vec') = {}
  BY <1>1 DEF VecType, IsInjective, Range
<1>3. MemOK'
  <2>1. \A x : TasksOf(x)' = TasksOf(x)
    BY <1>1, Zenon DEF TasksOf, Plan, ChildPlan
  <2>2. \A x \in Ops : NoOp \in MemType(Len(TasksOf(x)))
    BY OpFacts, NewOpFact, Zenon
  <2> QED BY <1>1, <2>1, <2>2, Zenon DEF MemOK
<1>4. DoneType' /\ PtType' /\ PoolType' /\ HistType'
  BY <1>1 DEF DoneType, PtType, PoolType, HistType, TInv
<1>5. PollType' /\ poll'.resp = NoMap
  <2>1. poll' \in [pc : {"idle", "answered"}, stale : BOOLEAN, resp : [Ops \X Tasks -> TaskStates]]
    BY <1>1, Zenon DEF Idle, NoMap, TaskStates
  <2> QED BY <1>1, <2>1, Zenon DEF PollType, Idle
<1>6. StateType'
  BY <1>1, FaultFact, Zenon DEF NsCrash, StateType
<1>7. Unborn'
  <2>1. \A x : ~InDoneList(x)'
    BY <1>1 DEF InDoneList
  <2>2. \A x \in Ops : mem'[x].index = 0
    BY <1>1, Zenon DEF NoOp
  <2> QED BY <1>1, <1>2, <2>1, <2>2, Zenon DEF TInv, Unborn
<1> QED BY <1>1, <1>2, <1>3, <1>4, <1>5, <1>6, <1>7, Frames, Zenon DEF TInv
\* The state the next leader recovers.
Recovered(live, failed) ==
    /\ live \subseteq Recoverable /\ failed \subseteq Recoverable /\ live \cap failed = {}
    /\ \A o \in live : zk[o].status \in {"inited", "doing"}
    /\ Range(task_vec') = live
    /\ \A o \in live : /\ mem'[o].status = zk[o].status /\ mem'[o].index = zk[o].index
                       /\ mem'[o].front = Resumed(o)
    /\ \A i \in 1 .. Len(done_op_list') :
          done_op_list'[i].op \in failed /\ done_op_list'[i].status = "failed"
    /\ NoDouble(done_op_list')

LEMMA StepRecover ==
    ASSUME TInv, NEW dropped, RecoverOPTask(dropped)
    PROVE  /\ TInv' /\ ns = "down" /\ ns' = "recovering"
           /\ \E live, failed : Recovered(live, failed)
           /\ UNCHANGED <<load, pt, pool, poll, zk, op_index, parent, net, tablet, tablet_up, ran,
                          succeeded, begun, canceled, deleted>>
<1> DEFINE all == Recoverable \ dropped
           live == {o \in all : zk[o].status # "failed"}
           failed == all \ live
<1>1. /\ ns = "down" /\ ns' = "recovering"
      /\ UNCHANGED <<load, pt, pool, poll, zk, op_index, parent, net, tablet, tablet_up, ran,
                     succeeded, begun, canceled, deleted>>
  BY Zenon DEF RecoverOPTask, zkVars, tabletVars, histVars
<1>2. /\ live \subseteq Recoverable /\ failed \subseteq Recoverable /\ live \cap failed = {}
      /\ live \subseteq Ops /\ failed \subseteq Ops
      /\ \A o \in live : zk[o].status \in {"inited", "doing"}
  BY Zenon DEF Recoverable
<1>3. PICK n \in 0 .. MaxOps :
         task_vec' \in {q \in [1 .. n -> live] : /\ Range(q) = live
                                                 /\ \A i, j \in 1 .. n : i < j => Before(q[i], q[j])}
  BY Zenon DEF RecoverOPTask
<1>4. mem' = [o \in Ops |-> IF o \notin live THEN NoOp
                             ELSE [NoOp EXCEPT !.status = zk[o].status,
                                               !.index = zk[o].index,
                                               !.front = Resumed(o)]]
  BY Zenon DEF RecoverOPTask
<1>5. PICK k \in 0 .. MaxOps :
         done_op_list' \in {q \in [1 .. k -> [op : failed, status : {"failed"}]] :
                             /\ {q[i].op : i \in 1 .. k} = failed
                             /\ \A i, j \in 1 .. k : i < j => q[i].op < q[j].op}
  BY Zenon DEF RecoverOPTask
<1> HIDE DEF live, failed, all
<1>6. VecType' /\ Range(task_vec') = live
  <2>1. /\ task_vec' \in [1 .. n -> live] /\ Range(task_vec') = live
        /\ \A i, j \in 1 .. n : i < j => Before(task_vec'[i], task_vec'[j])
    BY <1>3, Zenon
  <2>2. task_vec' \in Seq(Ops)
    BY <1>2, <2>1
  <2>3. \A a \in Ops : ~Before(a, a)
    <3>1. parent \in [Ops -> Ops \cup {0}] /\ MaxOps \in Nat
      BY OpAssumption, Zenon DEF TInv, IdType
    <3> QED BY <3>1 DEF Before, Ops
  <2>4. IsInjective(task_vec')
    <3> SUFFICES ASSUME NEW i \in 1 .. n, NEW j \in 1 .. n, task_vec'[i] = task_vec'[j]
                 PROVE  i = j
      BY <2>1, Zenon DEF IsInjective
    <3>1. task_vec'[i] \in Ops
      BY <1>2, <2>1, Zenon
    <3>2. ~(i < j) /\ ~(j < i)
      BY <2>1, <2>3, <3>1, Zenon
    <3> QED BY <3>2
  <2> QED BY <2>1, <2>2, <2>4, Zenon DEF VecType
<1>7. ASSUME NEW o \in live
      PROVE  /\ mem'[o] \in MemType(Len(TasksOf(o))) /\ mem'[o].status = zk[o].status
             /\ mem'[o].index = zk[o].index /\ mem'[o].front = Resumed(o)
  <2>1. o \in Ops /\ Resumed(o) \in Status
    BY <1>2, Zenon DEF Resumed, Status
  <2>2. zk[o].status \in Status \cup {"none"} /\ zk[o].index \in 0 .. Len(TasksOf(o))
    BY <2>1, MemFacts, Zenon
  <2>3. PICK a, b, f : a = zk[o].status /\ b = zk[o].index /\ f = Resumed(o)
    BY Zenon
  <2>4. mem'[o] = [NoOp EXCEPT !.status = a, !.index = b, !.front = f]
    BY <1>4, <1>7, <2>1, <2>3, Zenon
  <2>5. PICK c, d, e, y : /\ NoOp = [status |-> c, index |-> d, front |-> e, sent |-> y, checks |-> d]
                          /\ c = "none" /\ d = 0 /\ e = "inited" /\ y = FALSE
    BY Zenon DEF NoOp
  <2>6. mem'[o] = [status |-> a, index |-> b, front |-> f, sent |-> y, checks |-> d]
    BY <2>4, <2>5, Zenon
  <2>7. y \in BOOLEAN /\ d \in 0 .. CheckLimit + 1
    <3>1. y \in BOOLEAN
      BY <2>5, ZenonT(60)
    <3>2. d \in 0 .. CheckLimit + 1
      BY <2>5, OpAssumption
    <3> QED BY <3>1, <3>2, Zenon
  <2>8. mem'[o] \in MemType(Len(TasksOf(o)))
    <3>1. a \in Status \cup {"none"} /\ b \in 0 .. Len(TasksOf(o)) /\ f \in Status
      BY <2>1, <2>2, <2>3, Zenon
    <3> QED BY ONLY <2>6, <2>7, <3>1, SMTT(60) DEF MemType
  <2>9. mem'[o].status = a /\ mem'[o].index = b /\ mem'[o].front = f
    BY <2>6
  <2> QED BY <2>3, <2>8, <2>9, Zenon
<1>8. \A o \in Ops : o \notin live => mem'[o] = NoOp
  BY <1>4, Zenon
<1>9. MemOK'
  <2>1. \A x : TasksOf(x)' = TasksOf(x)
    BY <1>1, Zenon DEF TasksOf, Plan, ChildPlan
  <2>2. \A x \in Ops : NoOp \in MemType(Len(TasksOf(x)))
    BY OpFacts, NewOpFact, Zenon
  <2>3. mem' = [x \in Ops |-> mem'[x]]
    BY <1>4, Zenon
  <2> QED BY <1>2, <1>7, <1>8, <2>1, <2>2, <2>3, ZenonT(60) DEF MemOK
<1>10. /\ done_op_list' \in Seq(Done) /\ NoDouble(done_op_list')
       /\ \A i \in 1 .. Len(done_op_list') :
             done_op_list'[i].op \in failed /\ done_op_list'[i].status = "failed"
  <2>1. /\ done_op_list' \in [1 .. k -> [op : failed, status : {"failed"}]]
        /\ \A i, j \in 1 .. k : i < j => done_op_list'[i].op < done_op_list'[j].op
    BY <1>5, Zenon
  <2>2. \A i \in 1 .. k : /\ done_op_list'[i] \in Done /\ done_op_list'[i].op \in failed
                          /\ done_op_list'[i].status = "failed" /\ done_op_list'[i].op \in Nat
    BY <1>2, <2>1, OpFacts, Zenon DEF Done
  <2>3. k \in Nat /\ done_op_list' = [i \in 1 .. k |-> done_op_list'[i]]
    BY <2>1, OpAssumption
  <2>4. done_op_list' \in Seq(Done) /\ Len(done_op_list') = k
    BY <2>2, <2>3
  <2>5. NoDouble(done_op_list')
    BY <2>1, <2>2, <2>4 DEF NoDouble
  <2> QED BY <2>2, <2>4, <2>5, Zenon
<1>11. DoneType'
  BY <1>10, Zenon DEF DoneType, Done
<1>12. StateType'
  BY <1>1, FaultFact, Zenon DEF RecoverOPTask, TInv, StateType
<1>13. Unborn'
  <2> SUFFICES ASSUME NEW x \in Ops, x > op_index
               PROVE  /\ x \notin Range(task_vec') /\ ~InDoneList(x)' /\ x \notin deleted
                      /\ x \notin canceled /\ mem'[x].index = 0 /\ zk[x] = NoNode /\ parent[x] = 0
    BY <1>1, Zenon DEF Unborn
  <2>1. zk[x] = NoNode /\ x \notin deleted /\ x \notin canceled /\ parent[x] = 0
    BY Zenon DEF TInv, Unborn
  <2>2. x \notin live /\ x \notin failed
    BY <1>2, <2>1 DEF Recoverable, NoNode
  <2>3. ~InDoneList(x)'
    <3>1. DOMAIN done_op_list' = 1 .. Len(done_op_list')
      BY <1>10, SetOf, Zenon
    <3> QED BY <1>10, <2>2, <3>1, Zenon DEF InDoneList
  <2> QED BY <1>6, <1>8, <2>1, <2>2, <2>3 DEF NoOp
<1>14. Recovered(live, failed)
  BY <1>2, <1>6, <1>7, <1>10, Zenon DEF Recovered
<1> QED BY <1>1, <1>6, <1>9, <1>11, <1>12, <1>13, <1>14, Frames, Zenon DEF TInv

LEMMA TypesInit ==
    ASSUME Init
    PROVE  TInv
<1>1. MaxOps \in Nat /\ load \in Workloads
  BY OpAssumption, Zenon DEF Init
<1>2. VecType /\ Range(task_vec) = {} /\ DoneType /\ PtType /\ PoolType /\ IdType /\ StateType
      /\ \A o : ~InDoneList(o)
  BY <1>1, OpAssumption DEF Init, VecType, IsInjective, Range, DoneType, PtType, PoolType, IdType,
     StateType, InDoneList, Ops
<1>3. HistType /\ TabletType
  BY Zenon DEF Init, HistType, TabletType, NoMap, TaskStates
<1>4. PollType
  <2>1. poll \in [pc : {"idle", "answered"}, stale : BOOLEAN, resp : [Ops \X Tasks -> TaskStates]]
    BY Zenon DEF Init, Idle, NoMap, TaskStates
  <2> QED BY <2>1, Zenon DEF PollType
<1>5. \A o : Len(TasksOf(o)) \in Nat
  <2>1. load.plan \in Seq(Kinds) /\ load.childPlan \in Seq(Kinds)
    BY <1>1, OpAssumption, Zenon
  <2> QED BY <2>1 DEF TasksOf, Plan, ChildPlan
<1>6. MemOK /\ NodeOK
  BY <1>5, NewOpFact, Zenon DEF Init, MemOK, NodeOK
<1>7. Unborn
  BY <1>2, NewOpFact, Zenon DEF Init, Unborn
<1> QED BY <1>2, <1>3, <1>4, <1>6, <1>7, Zenon DEF TInv
-----------------------------------------------------------------------------
(* The invariant, for the steps that start no task.                        *)

Calm ==
    /\ Seen' \subseteq Seen /\ succeeded \subseteq succeeded' /\ op_index <= op_index'
    /\ \A x \in Ops : x <= op_index => TasksOf(x)' = TasksOf(x)

\* The front task of o gets another status.
Touched(o) ==
    /\ mem[o].status # "inited" /\ mem'[o].front # "inited"
    /\ mem'[o].front = "done" => Good(o, mem[o].index + 1)'
    /\ \/ mem[o].front \in {"doing", "canceled"} \/ mem'[o].front = "failed"
       \/ mem'[o].front = "done" /\ FrontKind(o) = "normal"

Kept(o) ==
    /\ mem'[o].status = mem[o].status /\ mem'[o].index = mem[o].index
    /\ mem'[o].front = mem[o].front \/ Touched(o)
    /\ zk'[o] = zk[o] \/ zk'[o] = NoNode

LEMMA SeenFrame ==
    ASSUME TInv, TInv',
           \A m \in Ops \X Tasks : (ran'[m] > 0 \/ m \in net') => m \in Seen,
           \A q \in pool' : \E r \in pool : q.op = r.op /\ q.task = r.task
    PROVE  Seen' \subseteq Seen
<1> SUFFICES ASSUME NEW m \in Seen' PROVE m \in Seen
  BY Zenon
<1>1. m \in Ops \X Tasks /\ (ran'[m] > 0 \/ m \in net' \/ \E q \in pool' : <<q.op, q.task>> = m)
  BY Zenon DEF Seen
<1>2. CASE \E q \in pool' : <<q.op, q.task>> = m
  BY <1>1, <1>2 DEF Seen
<1> QED BY <1>1, <1>2, Zenon

LEMMA CalmFacts ==
    ASSUME Calm, NEW o \in Ops, o <= op_index, NEW n
    PROVE  /\ Good(o, n) => Good(o, n)'
           /\ UpTo(o, n) => UpTo(o, n)'
           /\ FreshFrom(o, n) => FreshFrom(o, n)'
<1>1. TasksOf(o)' = TasksOf(o)
  BY Zenon DEF Calm
<1>2. \A u : Good(o, u) => Good(o, u)'
  BY <1>1, Zenon DEF Good, Calm
<1>3. UpTo(o, n) => UpTo(o, n)'
  BY <1>2, Zenon DEF UpTo
<1>4. FreshFrom(o, n) => FreshFrom(o, n)'
  BY Zenon DEF FreshFrom, Calm
<1> QED BY <1>2, <1>3, <1>4, Zenon

LEMMA ListedFrame ==
    ASSUME TInv, TInv', Calm, NEW o \in Ops, Listed(o), Kept(o)
    PROVE  Listed(o)'
<1>1. PICK i \in 0 .. Len(TasksOf(o)) : i = mem[o].index
  BY MemFacts, Zenon
<1>2. /\ o <= op_index /\ TasksOf(o)' = TasksOf(o) /\ i \in Nat
      /\ mem'[o].index = i /\ mem'[o].status = mem[o].status
  BY <1>1, OpFacts, Numbers, Zenon DEF Listed, Calm, Kept
<1>3. o <= op_index' /\ mem'[o].status \in {"inited", "doing", "canceled"}
  <2>1. op_index' \in Nat /\ op_index \in Nat /\ o \in Nat /\ op_index <= op_index'
    BY IndexNat, OpFacts, Zenon DEF Calm, TInv, IdType
  <2> QED BY <1>2, <2>1, Numbers, Zenon DEF Listed
<1>4. mem'[o].status = "inited" =>
         mem'[o].index = 0 /\ mem'[o].front = "inited" /\ FreshFrom(o, 1)'
  BY <1>1, <1>2, CalmFacts, Zenon DEF Listed, Kept, Touched
<1>5. FreshFrom(o, i + 2)' /\ UpTo(o, i)'
  BY <1>1, <1>2, CalmFacts, Zenon DEF Listed
<1>6. /\ mem'[o].front = "inited" /\ ~NoTaskLeft(o)' /\ FrontKind(o)' = "tablet" =>
            FreshFrom(o, i + 1)'
      /\ FrontDone(o)' => Good(o, i + 1)'
  <2>1. NoTaskLeft(o)' = NoTaskLeft(o) /\ FrontKind(o)' = FrontKind(o)
    BY <1>1, <1>2, Zenon DEF NoTaskLeft, FrontKind, FrontTask
  <2>2. CASE mem'[o].front = mem[o].front
    <3>1. FrontDone(o)' = FrontDone(o)
      BY <2>1, <2>2, Zenon DEF FrontDone
    <3> QED BY <1>1, <1>2, <2>1, <2>2, <3>1, CalmFacts, Zenon DEF Listed
  <2>3. CASE Touched(o)
    <3>1. mem'[o].front # "inited"
      BY <2>3, Zenon DEF Touched
    <3>2. FrontDone(o)' => Good(o, i + 1)'
      BY <1>1, <1>2, <2>3, Zenon DEF Touched, FrontDone
    <3> QED BY <3>1, <3>2, Zenon
  <2> QED BY <2>2, <2>3, Zenon DEF Kept
<1>7. /\ mem'[o].status = "doing" => zk'[o].status # "inited"
      /\ zk'[o].status # "none" => zk'[o].index = mem'[o].index
  <2>1. CASE zk'[o] = NoNode
    BY <2>1, NodeGone, Zenon
  <2>2. CASE zk'[o] = zk[o]
    BY <1>1, <1>2, <2>2, Zenon DEF Listed
  <2> QED BY <2>1, <2>2, Zenon DEF Kept
<1> QED BY <1>2, <1>3, <1>4, <1>5, <1>6, <1>7, Zenon DEF Listed

LEMMA NodedFrame ==
    ASSUME TInv, TInv', Calm, NEW o \in Ops, Noded(o), zk'[o] = NoNode \/ zk'[o] = zk[o]
    PROVE  Noded(o)'
<1>1. CASE zk'[o] = NoNode
  BY <1>1, NodeGone, Zenon DEF Noded
<1>2. CASE zk'[o] = zk[o] /\ o <= op_index
  <2>1. PICK i \in 0 .. Len(TasksOf(o)) : i = zk[o].index
    BY MemFacts, Zenon
  <2>2. FreshFrom(o, 1) => FreshFrom(o, 1)'
    BY <1>2, CalmFacts, Zenon
  <2>3. (UpTo(o, i) => UpTo(o, i)') /\ (FreshFrom(o, i + 2) => FreshFrom(o, i + 2)')
    BY <1>2, CalmFacts, Zenon
  <2> QED BY <1>2, <2>1, <2>2, <2>3, Zenon DEF Noded
<1>3. CASE zk'[o] = zk[o] /\ ~(o <= op_index)
  <2>1. o > op_index
    BY <1>3, OpFacts
  <2>2. zk'[o] = NoNode
    BY <1>3, <2>1, Zenon DEF TInv, Unborn
  <2> QED BY <1>1, <2>2, Zenon
<1> QED BY <1>1, <1>2, <1>3, Zenon

LEMMA InOrderFrame ==
    ASSUME TInv, TInv', Calm, InOrder
    PROVE  InOrder'
<1> SUFFICES ASSUME NEW o \in Ops, NEW t \in Tasks, <<o, t>> \in Seen'
             PROVE  UpTo(o, t - 1)' /\ o <= op_index'
  BY Zenon DEF InOrder
<1>1. UpTo(o, t - 1) /\ o <= op_index
  BY Zenon DEF Calm, InOrder
<1>2. o <= op_index'
  BY <1>1, OpFacts DEF Calm, TInv, IdType, Ops
<1> QED BY <1>1, <1>2, CalmFacts, Zenon

\* What an operation in done_op_list says.
ReportOf(d) ==
    /\ d.op \notin Range(task_vec)
    /\ d.status = "done" => /\ UpTo(d.op, Len(TasksOf(d.op)))
                            /\ zk[d.op].status = "none" /\ d.op \notin canceled

LEMMA ReportedFacts ==
    ASSUME TInv
    PROVE  Reported <=> /\ NoDouble(done_op_list)
                        /\ \A i \in 1 .. Len(done_op_list) : ReportOf(done_op_list[i])
<1>1. DOMAIN done_op_list = 1 .. Len(done_op_list)
  BY SetOf DEF TInv, DoneType
<1> QED BY <1>1, Zenon DEF Reported, NoDouble, ReportOf

LEMMA ReportFrame ==
    ASSUME TInv, TInv', Calm, NEW d \in Done, ReportOf(d), InDoneList(d.op),
           zk[d.op].status = "none" => zk'[d.op].status = "none",
           d.op \in Range(task_vec') => d.op \in Range(task_vec),
           d.status = "done" /\ d.op \in canceled' => d.op \in canceled
    PROVE  ReportOf(d)'
<1>1. d.op \in Ops /\ d.op <= op_index
  BY OpFacts DEF Done, TInv, Unborn
<1>2. PICK n : n = Len(TasksOf(d.op))
  BY Zenon
<1>3. Len(TasksOf(d.op)') = n
  BY <1>1, <1>2, Zenon DEF Calm
<1>4. UpTo(d.op, n) => UpTo(d.op, n)'
  BY <1>1, CalmFacts, Zenon
<1> QED BY <1>2, <1>3, <1>4, ZenonT(60) DEF ReportOf

\* No new operation is reported.
LEMMA ReportedFrame ==
    ASSUME TInv, TInv', Calm, Reported, SubList(done_op_list', done_op_list),
           \A o \in Ops : InDoneList(o) => /\ zk[o].status = "none" => zk'[o].status = "none"
                                           /\ o \in Range(task_vec') => o \in Range(task_vec)
                                           /\ o \in canceled' => o \in canceled \/ o \in Range(task_vec)
    PROVE  Reported'
<1>1. NoDouble(done_op_list) /\ \A i \in 1 .. Len(done_op_list) : ReportOf(done_op_list[i])
  BY ReportedFacts, Zenon
<1>2. NoDouble(done_op_list')
  <2> SUFFICES ASSUME NEW i \in 1 .. Len(done_op_list'), NEW j \in 1 .. Len(done_op_list'),
                      done_op_list'[i].op = done_op_list'[j].op, i # j
               PROVE  FALSE
    BY Zenon DEF NoDouble
  <2>1. PICK a, b \in 1 .. Len(done_op_list) :
           a # b /\ done_op_list'[i] = done_op_list[a] /\ done_op_list'[j] = done_op_list[b]
    BY Zenon DEF SubList
  <2> QED BY <1>1, <2>1, Zenon DEF NoDouble
<1>3. ASSUME NEW i \in 1 .. Len(done_op_list') PROVE ReportOf(done_op_list[i])'
  <2>1. PICK j \in 1 .. Len(done_op_list) : done_op_list'[i] = done_op_list[j]
    BY Zenon DEF SubList
  <2>2. done_op_list \in Seq(Done)
    BY Zenon DEF TInv, DoneType, Done
  <2>3. PICK d \in Done : d = done_op_list[j]
    BY <2>2
  <2>4. d.op \in Ops /\ InDoneList(d.op)
    <3>1. DOMAIN done_op_list = 1 .. Len(done_op_list)
      BY <2>2, SetOf, Zenon
    <3> QED BY <2>3, <3>1, Zenon DEF InDoneList, Done
  <2>5. ReportOf(d)
    BY <1>1, <2>3, Zenon
  <2>6. /\ zk[d.op].status = "none" => zk'[d.op].status = "none"
        /\ d.op \in Range(task_vec') => d.op \in Range(task_vec)
        /\ d.op \in canceled' => d.op \in canceled
    BY <2>4, <2>5, Zenon DEF ReportOf
  <2>7. ReportOf(d)'
    BY <2>4, <2>5, <2>6, ReportFrame, ZenonT(60)
  <2> QED BY <2>1, <2>3, <2>7, Zenon DEF ReportOf
<1>4. DOMAIN done_op_list' = 1 .. Len(done_op_list')
  BY SetOf DEF TInv, DoneType
<1> QED BY <1>2, <1>3, <1>4, Zenon DEF Reported, NoDouble, ReportOf
Light ==
    /\ Steady /\ Seen' \subseteq Seen /\ succeeded \subseteq succeeded'
    /\ UNCHANGED <<zk, done_op_list, canceled, deleted>>
    /\ \A o \in Range(task_vec) : mem'[o].front = mem[o].front \/ Touched(o)
    /\ ns' = "down" => ns = "down" /\ UNCHANGED pt /\ (pool = {} => pool' = {})

LEMMA LightFrame ==
    ASSUME TInv, TInv', WInv, Light
    PROVE  /\ \A o \in Range(task_vec') : Listed(o)'
           /\ \A o \in Ops : Noded(o)'
           /\ InOrder' /\ Reported' /\ Decided' /\ Down'
           /\ UNCHANGED pt => Collected'
<1>1. /\ UNCHANGED <<load, parent, op_index, task_vec, zk, done_op_list, canceled, deleted>>
      /\ \A x : TasksOf(x)' = TasksOf(x)
  BY Zenon DEF Light, Steady, TasksOf, Plan, ChildPlan
<1>2. Calm
  BY <1>1, OpFacts DEF Calm, Light
<1>3. ASSUME NEW o \in Range(task_vec') PROVE Listed(o)'
  <2>1. o \in Ops /\ o \in Range(task_vec) /\ Listed(o)
    BY <1>1, <1>3, OpFacts, Zenon DEF WInv
  <2>2. Kept(o)
    BY <1>1, <2>1, Zenon DEF Kept, Light, Steady
  <2> QED BY <1>2, <2>1, <2>2, ListedFrame, Zenon
<1>4. ASSUME NEW o \in Ops PROVE Noded(o)'
  BY <1>1, <1>2, NodedFrame, Zenon DEF WInv
<1>5. InOrder'
  BY <1>2, InOrderFrame, Zenon DEF WInv
<1>6. Reported'
  <2>1. SubList(done_op_list', done_op_list)
    BY <1>1, Zenon DEF SubList
  <2> QED BY <1>1, <1>2, <2>1, ReportedFrame, ZenonT(60) DEF WInv
<1>7. Decided'
  <2>1. \A o \in Range(task_vec) : mem'[o].status = mem[o].status
    BY OpFacts, Zenon DEF Light, Steady
  <2> QED BY <1>1, <2>1, Zenon DEF WInv, Decided, InDoneList
<1>8. Down'
  BY <1>1, Zenon DEF WInv, Down, Light
<1>9. ASSUME UNCHANGED pt PROVE Collected'
  <2>1. pt'.op <= op_index'
    BY <1>1, <1>9, Zenon DEF WInv, Collected
  <2>2. ASSUME pt.pc \in {"tablet", "erase"}, pt.op \in Range(task_vec)
        PROVE  Finished(pt.op)' \/ (FrontDone(pt.op)' /\ FrontKind(pt.op)' = "normal")
    <3>1. PICK o \in Range(task_vec) : o = pt.op
      BY <2>2, Zenon
    <3>2. /\ mem'[o].status = mem[o].status /\ mem'[o].index = mem[o].index
          /\ mem'[o].front = mem[o].front \/ Touched(o)
      BY OpFacts, Zenon DEF Light, Steady
    <3>3. NoTaskLeft(o)' = NoTaskLeft(o) /\ FrontKind(o)' = FrontKind(o)
      BY <1>1, <3>2, Zenon DEF NoTaskLeft, FrontKind, FrontTask
    <3>4. Finished(o) \/ (FrontDone(o) /\ FrontKind(o) = "normal")
      BY <2>2, <3>1, Zenon DEF WInv, Collected
    <3>5. CASE NoTaskLeft(o) \/ mem[o].status = "canceled"
      BY <3>1, <3>2, <3>3, <3>5, <1>9, Zenon DEF Finished
    <3>6. CASE ~NoTaskLeft(o) /\ mem[o].front \in {"failed", "done"}
      BY <3>1, <3>2, <3>3, <3>4, <3>6, <1>9, Zenon DEF Finished, Failed, FrontDone, Touched
    <3> QED BY <3>4, <3>5, <3>6, Zenon DEF Finished, Failed, FrontDone
  <2> QED BY <1>1, <1>9, <2>1, <2>2, Zenon DEF Collected
<1> QED BY <1>3, <1>4, <1>5, <1>6, <1>7, <1>8, <1>9, Zenon

\* A function q of the pool after a step, and the function r it was before.
Went(q, r) ==
    /\ q.op = r.op /\ q.task = r.task
    /\ \/ q = r
       \/ q.pc \notin {"queued", "failed"} /\ Kind(r) = "tablet"
       \/ /\ q.pc = "failed" /\ Kind(r) = "normal"
          /\ IsFront(r) => mem'[r.op].front # "inited"
          /\ [op |-> r.op, task |-> r.task, pc |-> "queued"] \notin pool'

LEMMA PooledFrame ==
    ASSUME TInv, TInv', WInv, Light,
           \A q \in pool' : \E r \in pool : Went(q, r),
           \A q \in pool' : q \in pool /\ q.pc = "queued" /\ IsFront(q) /\ Kind(q) # "tablet" =>
              mem'[q.op].front = mem[q.op].front
    PROVE  Pooled'
<1> SUFFICES ASSUME NEW q \in pool'
             PROVE  /\ q.task \in DOMAIN TasksOf(q.op)' /\ q.op <= op_index'
                    /\ q.pc \notin {"queued", "failed"} => Kind(q)' = "tablet"
                    /\ q.pc = "queued" /\ IsFront(q)' /\ Kind(q)' # "tablet" =>
                          mem'[q.op].front \in {"doing", "canceled"}
                    /\ q.pc = "failed" =>
                          /\ Kind(q)' = "normal"
                          /\ [op |-> q.op, task |-> q.task, pc |-> "queued"] \notin pool'
                          /\ IsFront(q)' => mem'[q.op].front # "inited"
  BY Zenon DEF Pooled
<1>1. PICK r \in pool : Went(q, r)
  BY Zenon
<1>2. q.op = r.op /\ q.task = r.task /\ r.op \in Ops
  BY <1>1, PoolFacts, Zenon DEF Went
<1>3. UNCHANGED <<load, parent, op_index, task_vec>> /\ \A x : TasksOf(x)' = TasksOf(x)
  BY Zenon DEF Light, Steady, TasksOf, Plan, ChildPlan
<1>4. mem'[q.op].index = mem[q.op].index
  BY <1>2, Zenon DEF Light, Steady
<1>5. /\ Kind(q)' = Kind(r) /\ IsFront(q)' = IsFront(r)
      /\ IsFront(r) => mem'[r.op].front = mem[r.op].front \/ Touched(r.op)
  BY <1>2, <1>3, <1>4, Zenon DEF Kind, IsFront, FrontTask, Light
<1>6. /\ r.task \in DOMAIN TasksOf(r.op) /\ r.op <= op_index
      /\ r.pc \notin {"queued", "failed"} => Kind(r) = "tablet"
      /\ r.pc = "queued" /\ IsFront(r) /\ Kind(r) # "tablet" =>
            mem[r.op].front \in {"doing", "canceled"}
      /\ r.pc = "failed" =>
            /\ Kind(r) = "normal"
            /\ [op |-> r.op, task |-> r.task, pc |-> "queued"] \notin pool
            /\ IsFront(r) => mem[r.op].front # "inited"
  BY Zenon DEF WInv, Pooled
<1>7. CASE q = r
  <2>1. r.pc = "failed" => [op |-> r.op, task |-> r.task, pc |-> "queued"] \notin pool'
    <3> SUFFICES ASSUME r.pc = "failed", NEW z \in pool',
                        z = [op |-> r.op, task |-> r.task, pc |-> "queued"]
                 PROVE  FALSE
      BY Zenon
    <3>1. PICK y \in pool : Went(z, y)
      BY Zenon
    <3>2. z.op = r.op /\ z.task = r.task /\ z.pc = "queued"
      BY Zenon
    <3>3. z = y
      BY <3>1, <3>2, Zenon DEF Went
    <3> QED BY <1>6, <3>3, Zenon
  <2> QED BY <1>2, <1>3, <1>5, <1>6, <1>7, <2>1, Zenon DEF Touched
<1>8. CASE q.pc \notin {"queued", "failed"} /\ Kind(r) = "tablet"
  BY <1>2, <1>3, <1>5, <1>6, <1>8, Zenon
<1>9. CASE /\ q.pc = "failed" /\ Kind(r) = "normal"
           /\ IsFront(r) => mem'[r.op].front # "inited"
           /\ [op |-> r.op, task |-> r.task, pc |-> "queued"] \notin pool'
  BY <1>2, <1>3, <1>5, <1>6, <1>9, Zenon
<1> QED BY <1>1, <1>7, <1>8, <1>9, Zenon DEF Went

LEMMA OnceFrame ==
    ASSUME TInv, TInv', Once, \A o \in Ops : o <= op_index => TasksOf(o)' = TasksOf(o), InOrder,
           \A m \in net' : m \in net \/ m[2] = 0,
           \A o \in Ops : \A t \in DOMAIN TasksOf(o) :
              o <= op_index /\ TasksOf(o)[t] = "tablet" => ran'[<<o, t>>] = ran[<<o, t>>],
           \A q \in pool' : q.pc = "queued" => q \in pool,
           Seen' \subseteq Seen
    PROVE  Once'
<1> SUFFICES ASSUME NEW o \in Ops, NEW t \in DOMAIN TasksOf(o)', TasksOf(o)'[t] = "tablet"
             PROVE  /\ ran'[<<o, t>>] <= 1
                    /\ <<o, t>> \in net' => ran'[<<o, t>>] = 0
                    /\ [op |-> o, task |-> t, pc |-> "queued"] \in pool' =>
                          ran'[<<o, t>>] = 0 /\ <<o, t>> \notin net'
  BY Zenon DEF Once
<1>1. /\ DOMAIN TasksOf(o)' \subseteq Tasks /\ t \in Tasks /\ t > 0 /\ t \in Nat
      /\ <<o, t>> \in Ops \X Tasks /\ ran'[<<o, t>>] \in Nat
  <2>1. /\ load' \in Workloads /\ TasksOf(o)' \in {load'.plan, load'.childPlan}
        /\ t \in DOMAIN TasksOf(o)'
    BY Zenon DEF TInv, IdType, TasksOf, Plan, ChildPlan
  <2>2. t \in Tasks
    BY ONLY <2>1, SMTT(60) DEF Tasks
  <2>3. t > 0 /\ t \in Nat /\ DOMAIN TasksOf(o)' \subseteq Tasks
    BY <2>1, <2>2, OpFacts DEF Tasks
  <2> QED BY <2>2, <2>3, ZenonT(60) DEF TInv, HistType
<1>2. CASE o <= op_index
  <2>1. t \in DOMAIN TasksOf(o) /\ TasksOf(o)[t] = "tablet"
    BY <1>2, Zenon
  <2>2. ran'[<<o, t>>] = ran[<<o, t>>]
    BY <1>2, <2>1, ZenonT(60)
  <2>3. <<o, t>> \in net' => <<o, t>> \in net
    BY <1>1
  <2>4. [op |-> o, task |-> t, pc |-> "queued"] \in pool' =>
           [op |-> o, task |-> t, pc |-> "queued"] \in pool
    BY Zenon
  <2> QED BY <2>1, <2>2, <2>3, <2>4, Zenon DEF Once
<1>3. CASE ~(o <= op_index)
  <2>1. <<o, t>> \notin Seen'
    BY <1>1, <1>3, Zenon DEF InOrder
  <2>2. ~(ran'[<<o, t>>] > 0) /\ <<o, t>> \notin net'
    BY <1>1, <2>1, Zenon DEF Seen
  <2> QED BY <1>1, <2>2
<1> QED BY <1>2, <1>3, Zenon
\* A function of the pool and its task.
LEMMA PoolSeen ==
    ASSUME TInv, WInv, NEW r \in pool
    PROVE  /\ <<r.op, r.task>> \in Seen /\ <<r.op, r.task>> \in Ops \X Tasks
           /\ r.op \in Ops /\ r.op <= op_index /\ r.task \in DOMAIN TasksOf(r.op)
           /\ IsFront(r) => /\ r.op \in Range(task_vec) /\ mem[r.op].status # "inited"
                            /\ r.task = mem[r.op].index + 1 /\ FrontKind(r.op) = Kind(r)
<1>1. r.op \in Ops /\ r.task \in Tasks /\ r.task > 0 /\ r.task \in Nat
  BY PoolFacts, OpFacts, Zenon
<1>2. <<r.op, r.task>> \in Seen
  BY <1>1, Zenon DEF Seen
<1>3. r.op <= op_index /\ r.task \in DOMAIN TasksOf(r.op)
  BY Zenon DEF WInv, Pooled
<1>4. ASSUME IsFront(r)
      PROVE  /\ r.op \in Range(task_vec) /\ mem[r.op].status # "inited"
             /\ r.task = mem[r.op].index + 1 /\ FrontKind(r.op) = Kind(r)
  <2>1. r.op \in Range(task_vec) /\ r.task = mem[r.op].index + 1 /\ FrontKind(r.op) = Kind(r)
    BY <1>4, Zenon DEF IsFront, FrontTask, FrontKind, Kind
  <2>2. r.task >= 1
    BY <1>1
  <2>3. ~FreshFrom(r.op, 1)
    BY <1>1, <1>2, <2>2, Zenon DEF FreshFrom
  <2>4. Listed(r.op)
    BY <2>1, Zenon DEF WInv
  <2> QED BY <2>1, <2>3, <2>4, Zenon DEF Listed
<1> QED BY <1>1, <1>2, <1>3, <1>4, Zenon

LEMMA LightStep ==
    ASSUME TInv, TInv', WInv, Light, Once', Pooled', Answers', Collected'
    PROVE  WInv'
BY LightFrame, Zenon DEF WInv

\* Steps that leave the tasks under way alone.
LEMMA QuietStep ==
    ASSUME TInv, TInv', WInv, Steady, UNCHANGED <<ran, net, pool>>, succeeded \subseteq succeeded',
           UNCHANGED <<zk, done_op_list, canceled, deleted>>,
           \A o \in Range(task_vec) :
              mem'[o].front = mem[o].front \/ (Touched(o) /\ FrontKind(o) = "tablet"),
           ns' = "down" => ns = "down" /\ UNCHANGED pt,
           Answers', UNCHANGED pt \/ Collected'
    PROVE  WInv'
<1>1. Seen' = Seen
  BY Zenon DEF Seen
<1>2. Light
  BY <1>1, Zenon DEF Light
<1>3. \A x : TasksOf(x)' = TasksOf(x)
  BY Zenon DEF Steady, TasksOf, Plan, ChildPlan
<1>4. Once'
  BY <1>1, <1>3, OnceFrame, Zenon DEF WInv
<1>5. Pooled'
  <2>1. \A q \in pool' : \E r \in pool : Went(q, r)
    BY Zenon DEF Went
  <2>2. \A q \in pool : IsFront(q) /\ Kind(q) # "tablet" => mem'[q.op].front = mem[q.op].front
    BY PoolSeen, Zenon
  <2> QED BY <1>2, <2>1, <2>2, PooledFrame, Zenon
<1>6. Collected'
  BY <1>2, LightFrame, Zenon
<1> QED BY <1>2, <1>4, <1>5, <1>6, LightStep, Zenon

LEMMA WSend ==
    ASSUME TInv, TInv', WInv, NEW r \in pool, SendRequest(r)
    PROVE  WInv'
<1>1. /\ UNCHANGED <<load, ns, task_vec, mem, done_op_list, pt, poll, zk, op_index, parent, tablet,
                      tablet_up, ran, succeeded, begun, canceled, deleted, faults>>
      /\ r.pc = "queued" /\ Kind(r) = "tablet"
      /\ net' = net \cup {<<r.op, r.task>>} /\ pool' = Moved(r, "call")
  BY Zenon DEF SendRequest, zkVars, histVars
<1>2. /\ <<r.op, r.task>> \in Seen /\ r.op \in Ops /\ r.task \in DOMAIN TasksOf(r.op)
      /\ r.op <= op_index
  BY PoolSeen, Zenon
<1>3. ASSUME NEW q \in pool' PROVE Went(q, r) \/ (q \in pool /\ q # r)
  <2>1. q \in pool \ {r} \/ q = [op |-> r.op, task |-> r.task, pc |-> "call"]
    BY <1>1, PoolFacts, Zenon DEF Moved
  <2> QED BY <1>1, <2>1 DEF Went
<1>4. \A q \in pool' : \E y \in pool : Went(q, y)
  BY <1>3, Zenon DEF Went
<1>5. Seen' \subseteq Seen
  <2>1. \A q \in pool' : \E y \in pool : q.op = y.op /\ q.task = y.task
    BY <1>4, Zenon DEF Went
  <2>2. \A m \in Ops \X Tasks : (ran'[m] > 0 \/ m \in net') => m \in Seen
    BY <1>1, <1>2, Zenon DEF Seen
  <2> QED BY <2>1, <2>2, SeenFrame, Zenon
<1>6. Light
  <2>1. Steady
    BY <1>1, Zenon DEF Steady
  <2>2. pool # {}
    BY Zenon
  <2> QED BY <1>1, <1>5, <2>1, <2>2, Zenon DEF Light
<1>7. Pooled'
  BY <1>1, <1>4, <1>6, PooledFrame, Zenon
<1>8. Once'
  <2> SUFFICES ASSUME NEW o \in Ops, NEW t \in DOMAIN TasksOf(o), TasksOf(o)[t] = "tablet"
               PROVE  /\ ran[<<o, t>>] <= 1
                      /\ <<o, t>> \in net' => ran[<<o, t>>] = 0
                      /\ [op |-> o, task |-> t, pc |-> "queued"] \in pool' =>
                            ran[<<o, t>>] = 0 /\ <<o, t>> \notin net'
    BY <1>1, ZenonT(60) DEF Once, TasksOf, Plan, ChildPlan
  <2>1. /\ ran[<<o, t>>] <= 1
        /\ <<o, t>> \in net => ran[<<o, t>>] = 0
        /\ [op |-> o, task |-> t, pc |-> "queued"] \in pool =>
              ran[<<o, t>>] = 0 /\ <<o, t>> \notin net
    BY Zenon DEF WInv, Once
  <2>2. r = [op |-> r.op, task |-> r.task, pc |-> "queued"]
    BY <1>1, PoolFacts, Zenon
  <2>3. <<o, t>> \in net' => <<o, t>> \in net \/ (o = r.op /\ t = r.task)
    BY <1>1, Zenon
  <2>4. [op |-> o, task |-> t, pc |-> "queued"] \in pool' =>
           [op |-> o, task |-> t, pc |-> "queued"] \in pool \ {r}
    BY <1>1, PoolFacts, Zenon DEF Moved
  <2> QED BY <2>1, <2>2, <2>3, <2>4, Zenon
<1>9. Answers' /\ Collected'
  BY <1>1, <1>6, LightFrame, Zenon DEF WInv, Answers
<1> QED BY <1>6, <1>7, <1>8, <1>9, LightStep, Zenon

LEMMA WCall ==
    ASSUME TInv, WInv, NEW r \in pool, CallReturns(r)
    PROVE  TInv' /\ WInv'
<1>1. UNCHANGED <<load, ns, task_vec, done_op_list, pt, poll, zk, op_index, parent, net, tablet,
                  tablet_up, ran, succeeded, begun, canceled, deleted>>
  BY Zenon DEF CallReturns, zkVars, histVars, tabletVars
<1>2. /\ TInv' /\ Steady
      /\ (IsFront(r) /\ FrontSet(r.op, "failed")) \/ UNCHANGED mem
  BY StepCall, Zenon
<1>3. r.pc \in {"accepted", "call", "refused"} /\ pool' = Moved(r, "answered")
  BY Zenon DEF CallReturns, CallFailed
<1>4. Kind(r) = "tablet"
  BY <1>3, Zenon DEF WInv, Pooled
<1>5. \A q \in pool' : Went(q, r) \/ (q \in pool /\ q # r)
  <2> SUFFICES ASSUME NEW q \in pool' PROVE Went(q, r) \/ (q \in pool /\ q # r)
    BY Zenon
  <2>1. q \in pool \ {r} \/ q = [op |-> r.op, task |-> r.task, pc |-> "answered"]
    BY <1>3, PoolFacts, Zenon DEF Moved
  <2> QED BY <1>4, <2>1 DEF Went
<1>6. \A q \in pool' : \E y \in pool : Went(q, y)
  BY <1>5, Zenon DEF Went
<1>7. Seen' \subseteq Seen
  <2>1. \A q \in pool' : \E y \in pool : q.op = y.op /\ q.task = y.task
    BY <1>6, Zenon DEF Went
  <2>2. \A m \in Ops \X Tasks : (ran'[m] > 0 \/ m \in net') => m \in Seen
    BY <1>1, Zenon DEF Seen
  <2> QED BY <1>2, <2>1, <2>2, SeenFrame, Zenon
<1>8. \A o \in Range(task_vec) :
         mem'[o].front = mem[o].front \/ (Touched(o) /\ IsFront(r) /\ o = r.op)
  BY <1>2, PoolSeen, OpFacts, Zenon DEF FrontSet, Touched
<1>9. Light
  <2>1. pool # {}
    BY Zenon
  <2> QED BY <1>1, <1>2, <1>7, <1>8, <2>1, Zenon DEF Light
<1>10. Pooled'
  <2>1. ASSUME NEW q \in pool, IsFront(q), Kind(q) # "tablet"
        PROVE  mem'[q.op].front = mem[q.op].front
    <3>1. q.op \in Range(task_vec) /\ FrontKind(q.op) = Kind(q)
      BY <2>1, PoolSeen, Zenon
    <3>2. IsFront(r) => FrontKind(r.op) = Kind(r)
      BY PoolSeen, Zenon
    <3> QED BY <1>4, <1>8, <2>1, <3>1, <3>2, Zenon
  <2> QED BY <1>2, <1>6, <1>9, <2>1, PooledFrame, Zenon
<1>11. Once'
  <2>1. \A q \in pool' : q.pc = "queued" => q \in pool
    <3> SUFFICES ASSUME NEW q \in pool', q.pc = "queued" PROVE q \in pool
      BY Zenon
    <3>1. q \in pool \ {r} \/ q = [op |-> r.op, task |-> r.task, pc |-> "answered"]
      BY <1>3, PoolFacts, Zenon DEF Moved
    <3> QED BY <3>1
  <2>2. \A o \in Ops : TasksOf(o)' = TasksOf(o)
    BY <1>1, Zenon DEF TasksOf, Plan, ChildPlan
  <2> QED BY <1>1, <1>2, <1>7, <2>1, <2>2, OnceFrame, Zenon DEF WInv
<1>12. Answers' /\ Collected'
  BY <1>1, <1>2, <1>9, LightFrame, Zenon DEF WInv, Answers
<1> QED BY <1>2, <1>9, <1>10, <1>11, <1>12, LightStep, Zenon
LEMMA WWrap ==
    ASSUME TInv, WInv, NEW r \in pool, WrapTaskFun(r)
    PROVE  TInv' /\ WInv'
<1>1. UNCHANGED <<load, ns, task_vec, done_op_list, pt, zk, op_index, parent, net, tablet,
                  tablet_up, ran, succeeded, begun, canceled, deleted, faults>>
  BY Zenon DEF WrapTaskFun, zkVars, histVars, tabletVars
<1>2. TInv' /\ Steady /\ \A x \in Ops : mem'[x].front = mem[x].front
  BY StepWrap, Zenon
<1>3. r.pc \in {"answered", "first"} /\ pool' \in {Moved(r, "first"), pool \ {r}}
  BY Zenon DEF WrapTaskFun
<1>4. Kind(r) = "tablet"
  BY <1>3, Zenon DEF WInv, Pooled
<1>5. ASSUME NEW q \in pool'
      PROVE  (q.pc = "queued" => q \in pool) /\ \E y \in pool : Went(q, y)
  <2>1. q \in pool \ {r} \/ q = [op |-> r.op, task |-> r.task, pc |-> "first"]
    BY <1>3, PoolFacts DEF Moved
  <2>2. CASE q \in pool \ {r}
    BY <2>2, Zenon DEF Went
  <2>3. CASE q = [op |-> r.op, task |-> r.task, pc |-> "first"]
    BY <1>4, <2>3, Zenon DEF Went
  <2> QED BY <2>1, <2>2, <2>3, Zenon
<1>6. Seen' \subseteq Seen
  <2>1. \A q \in pool' : \E y \in pool : q.op = y.op /\ q.task = y.task
    BY <1>5, Zenon DEF Went
  <2>2. \A m \in Ops \X Tasks : (ran'[m] > 0 \/ m \in net') => m \in Seen
    BY <1>1, Zenon DEF Seen
  <2> QED BY <1>2, <2>1, <2>2, SeenFrame, Zenon
<1>7. Light
  <2>1. pool # {}
    BY Zenon
  <2>2. \A o \in Range(task_vec) : mem'[o].front = mem[o].front
    BY <1>2, OpFacts, Zenon
  <2> QED BY <1>1, <1>2, <1>6, <2>1, <2>2, Zenon DEF Light
<1>8. Pooled'
  BY <1>2, <1>5, <1>7, PoolSeen, PooledFrame, Zenon
<1>9. Once'
  <2>1. \A o \in Ops : TasksOf(o)' = TasksOf(o)
    BY <1>1, Zenon DEF TasksOf, Plan, ChildPlan
  <2> QED BY <1>1, <1>2, <1>5, <1>6, <2>1, OnceFrame, Zenon DEF WInv
<1>10. Answers'
  <2>1. poll'.resp = poll.resp
    BY Zenon DEF WrapTaskFun, TInv, PollType
  <2> QED BY <1>1, <2>1, Zenon DEF WInv, Answers
<1>11. Collected'
  BY <1>1, <1>2, <1>7, LightFrame, Zenon
<1> QED BY <1>2, <1>7, <1>8, <1>9, <1>10, <1>11, LightStep, Zenon

LEMMA WNs ==
    ASSUME TInv, WInv, NEW r \in pool, NsTask(r)
    PROVE  TInv' /\ WInv'
<1>1. /\ UNCHANGED <<load, ns, task_vec, done_op_list, pt, poll, zk, op_index, parent, net, tablet,
                      tablet_up, begun, canceled, deleted>>
      /\ r.pc = "queued" /\ Kind(r) # "tablet" /\ succeeded \subseteq succeeded'
      /\ ran' = [ran EXCEPT ![<<r.op, r.task>>] = @ + 1]
  BY Zenon DEF NsTask, zkVars, tabletVars
<1>2. /\ TInv' /\ Steady
      /\ \/ UNCHANGED mem
         \/ IsFront(r) /\ FrontSet(r.op, "failed")
         \/ IsFront(r) /\ FrontSet(r.op, "done") /\ <<r.op, r.task>> \in succeeded'
  BY StepNs, Zenon
<1>3. /\ <<r.op, r.task>> \in Seen /\ r.op \in Ops /\ <<r.op, r.task>> \in Ops \X Tasks
      /\ r = [op |-> r.op, task |-> r.task, pc |-> "queued"]
      /\ IsFront(r) => /\ mem[r.op].status # "inited" /\ mem[r.op].front \in {"doing", "canceled"}
                       /\ r.task = mem[r.op].index + 1
  BY <1>1, PoolSeen, PoolFacts, ZenonT(60) DEF WInv, Pooled
<1>4. \/ pool' = pool \ {r}
      \/ /\ pool' = Moved(r, "failed") /\ Kind(r) = "normal"
         /\ IsFront(r) => mem'[r.op].front # "inited"
  <2>1. CASE pool' = pool \ {r}
    BY <2>1, Zenon
  <2>2. CASE mem' = SetStatus(r, "failed") /\ pool' = Moved(r, "failed") /\ Kind(r) = "normal"
    <3>1. IsFront(r) => mem' = [mem EXCEPT ![r.op].front = "failed"]
      BY <2>2, Zenon DEF SetStatus
    <3>2. "failed" \in Status
      BY Zenon DEF Status
    <3>3. IsFront(r) => FrontSet(r.op, "failed")
      BY <1>1, <1>3, <3>1, <3>2, FrontFact, Zenon DEF TInv
    <3> QED BY <2>2, <3>3, Zenon DEF FrontSet
  <2> QED BY <2>1, <2>2, Zenon DEF NsTask
<1>5. r \notin pool' /\ \A q \in pool' : (q.pc = "queued" => q \in pool \ {r}) /\ \E y \in pool : Went(q, y)
  <2>1. ASSUME NEW q \in pool'
        PROVE  \/ q \in pool \ {r}
               \/ /\ q = [op |-> r.op, task |-> r.task, pc |-> "failed"] /\ Kind(r) = "normal"
                  /\ IsFront(r) => mem'[r.op].front # "inited"
    BY <1>4, PoolFacts DEF Moved
  <2>2. r \notin pool'
    BY <1>1, <2>1
  <2>3. ASSUME NEW q \in pool' PROVE (q.pc = "queued" => q \in pool \ {r}) /\ \E y \in pool : Went(q, y)
    <3>1. CASE q \in pool \ {r}
      BY <3>1, Zenon DEF Went
    <3>2. CASE /\ q = [op |-> r.op, task |-> r.task, pc |-> "failed"] /\ Kind(r) = "normal"
               /\ IsFront(r) => mem'[r.op].front # "inited"
      BY <1>3, <2>2, <3>2, Zenon DEF Went
    <3> QED BY <2>1, <3>1, <3>2, Zenon
  <2> QED BY <2>2, <2>3, Zenon
<1>6. Seen' \subseteq Seen
  <2>1. \A q \in pool' : \E y \in pool : q.op = y.op /\ q.task = y.task
    BY <1>5, Zenon DEF Went
  <2>2. \A m \in Ops \X Tasks : (ran'[m] > 0 \/ m \in net') => m \in Seen
    BY <1>1, <1>3, Zenon DEF Seen, TInv, HistType
  <2> QED BY <1>2, <2>1, <2>2, SeenFrame, Zenon
<1>7. \A o \in Range(task_vec) :
         mem'[o].front = mem[o].front \/ (Touched(o) /\ IsFront(r) /\ o = r.op)
  <2>1. CASE UNCHANGED mem
    BY <2>1, Zenon
  <2>2. CASE IsFront(r) /\ FrontSet(r.op, "failed")
    BY <1>3, <2>2, OpFacts, Zenon DEF FrontSet, Touched
  <2>3. CASE IsFront(r) /\ FrontSet(r.op, "done") /\ <<r.op, r.task>> \in succeeded'
    <3>1. PICK i : i = mem[r.op].index + 1
      BY Zenon
    <3>2. Good(r.op, i)'
      BY <1>3, <2>3, <3>1, Zenon DEF Good
    <3>3. Touched(r.op)
      <4>1. Good(r.op, mem[r.op].index + 1)'
        <5>1. mem'[r.op].index = mem[r.op].index
          BY <1>2, <1>3, Zenon DEF Steady
        <5> QED BY <3>1, <3>2, <5>1, Zenon DEF Good
      <4> QED BY <1>3, <2>3, <4>1, Zenon DEF FrontSet, Touched
    <3> QED BY <2>3, <3>3, OpFacts, Zenon DEF FrontSet
  <2> QED BY <1>2, <2>1, <2>2, <2>3, Zenon
<1>8. Light
  <2>1. pool # {}
    BY Zenon
  <2> QED BY <1>1, <1>2, <1>6, <1>7, <2>1, Zenon DEF Light
<1>9. Pooled'
  <2>1. ASSUME NEW q \in pool', q \in pool, q.pc = "queued", IsFront(q)
        PROVE  mem'[q.op].front = mem[q.op].front
    <3>1. q.op \in Range(task_vec) /\ q.task = mem[q.op].index + 1
      BY <2>1, PoolSeen, Zenon
    <3>2. q # r /\ q = [op |-> q.op, task |-> q.task, pc |-> "queued"]
      BY <1>5, <2>1, PoolFacts, Zenon
    <3> QED BY <1>3, <1>7, <3>1, <3>2, Zenon
  <2> QED BY <1>2, <1>5, <1>8, <2>1, PooledFrame, Zenon
<1>10. Once'
  <2>1. \A o \in Ops : TasksOf(o)' = TasksOf(o)
    BY <1>1, Zenon DEF TasksOf, Plan, ChildPlan
  <2>2. \A o \in Ops : \A t \in DOMAIN TasksOf(o) :
           TasksOf(o)[t] = "tablet" => ran'[<<o, t>>] = ran[<<o, t>>]
    BY <1>1, OpFacts, Zenon DEF Kind, TInv, HistType
  <2> QED BY <1>1, <1>2, <1>5, <1>6, <2>1, <2>2, OnceFrame, Zenon DEF WInv
<1>11. Answers' /\ Collected'
  BY <1>1, <1>2, <1>8, LightFrame, Zenon DEF WInv, Answers
<1> QED BY <1>2, <1>8, <1>9, <1>10, <1>11, LightStep, ZenonT(60)

LEMMA WNormal ==
    ASSUME TInv, WInv, NEW r \in pool, WrapNormalTaskFun(r)
    PROVE  TInv' /\ WInv'
<1>1. /\ UNCHANGED <<load, ns, task_vec, done_op_list, pt, poll, zk, op_index, parent, net, tablet,
                      tablet_up, ran, succeeded, begun, canceled, deleted, faults>>
      /\ r.pc = "failed" /\ pool' = pool \ {r}
  BY Zenon DEF WrapNormalTaskFun, zkVars, tabletVars, histVars
<1>2. TInv' /\ Steady /\ ((IsFront(r) /\ FrontSet(r.op, "done")) \/ UNCHANGED mem)
  BY StepNormal, Zenon
<1>3. /\ Kind(r) = "normal" /\ [op |-> r.op, task |-> r.task, pc |-> "queued"] \notin pool
      /\ r.op \in Ops
      /\ IsFront(r) => /\ mem[r.op].status # "inited" /\ FrontKind(r.op) = "normal"
                       /\ r.task = mem[r.op].index + 1
  BY <1>1, PoolSeen, Zenon DEF WInv, Pooled
<1>4. \A q \in pool' : q \in pool /\ \E y \in pool : Went(q, y)
  BY <1>1, Zenon DEF Went
<1>5. Seen' \subseteq Seen
  <2>1. \A q \in pool' : \E y \in pool : q.op = y.op /\ q.task = y.task
    BY <1>4, Zenon DEF Went
  <2>2. \A m \in Ops \X Tasks : (ran'[m] > 0 \/ m \in net') => m \in Seen
    BY <1>1, Zenon DEF Seen
  <2> QED BY <1>2, <2>1, <2>2, SeenFrame, Zenon
<1>6. \A o \in Range(task_vec) :
         mem'[o].front = mem[o].front \/ (Touched(o) /\ IsFront(r) /\ o = r.op)
  <2>1. CASE UNCHANGED mem
    BY <2>1, Zenon
  <2>2. CASE IsFront(r) /\ FrontSet(r.op, "done")
    <3>1. Good(r.op, mem[r.op].index + 1)'
      <4>1. mem'[r.op].index = mem[r.op].index /\ TasksOf(r.op)' = TasksOf(r.op)
        BY <1>1, <1>2, <1>3, Zenon DEF Steady, TasksOf, Plan, ChildPlan
      <4> QED BY <1>3, <2>2, <4>1, Zenon DEF Good, Kind
    <3>2. Touched(r.op)
      BY <1>3, <2>2, <3>1, Zenon DEF FrontSet, Touched
    <3> QED BY <2>2, <3>2, OpFacts, Zenon DEF FrontSet
  <2> QED BY <1>2, <2>1, <2>2, Zenon
<1>7. Light
  <2>1. pool # {}
    BY Zenon
  <2> QED BY <1>1, <1>2, <1>5, <1>6, <2>1, Zenon DEF Light
<1>8. Pooled'
  <2>1. ASSUME NEW q \in pool, q.pc = "queued", IsFront(q)
        PROVE  mem'[q.op].front = mem[q.op].front
    <3>1. q.op \in Range(task_vec) /\ q.task = mem[q.op].index + 1
      BY <2>1, PoolSeen, Zenon
    <3>2. q = [op |-> q.op, task |-> q.task, pc |-> "queued"]
      BY <2>1, PoolFacts, Zenon
    <3> QED BY <1>3, <1>6, <3>1, <3>2, Zenon
  <2> QED BY <1>2, <1>4, <1>7, <2>1, PooledFrame, Zenon
<1>9. Once'
  <2>1. \A o \in Ops : TasksOf(o)' = TasksOf(o)
    BY <1>1, Zenon DEF TasksOf, Plan, ChildPlan
  <2> QED BY <1>1, <1>2, <1>4, <1>5, <2>1, OnceFrame, Zenon DEF WInv
<1>10. Answers' /\ Collected'
  BY <1>1, <1>2, <1>7, LightFrame, Zenon DEF WInv, Answers
<1> QED BY <1>2, <1>7, <1>8, <1>9, <1>10, LightStep, Zenon
LEMMA WAddOPTask ==
    ASSUME TInv, WInv, NEW m, AddOPTask(m)
    PROVE  TInv' /\ WInv'
<1>1. /\ TInv' /\ m \in Ops \X Tasks /\ m \in net /\ net' = net \ {m}
      /\ UNCHANGED <<load, ns, task_vec, mem, done_op_list, pt, poll, zk, op_index, parent,
                     tablet_up, succeeded, begun, canceled, deleted, faults>>
      /\ \A q \in pool' : \E r \in pool :
            /\ q.op = r.op /\ q.task = r.task
            /\ q = r \/ (q.pc \in {"accepted", "refused"} /\ r.pc = "call")
  BY StepAddOPTask, Zenon
<1>2. \A q \in pool' : (q.pc = "queued" => q \in pool) /\ \E y \in pool : Went(q, y)
  <2> SUFFICES ASSUME NEW q \in pool'
               PROVE  (q.pc = "queued" => q \in pool) /\ \E y \in pool : Went(q, y)
    BY Zenon
  <2>1. PICK r \in pool : /\ q.op = r.op /\ q.task = r.task
                          /\ q = r \/ (q.pc \in {"accepted", "refused"} /\ r.pc = "call")
    BY <1>1, Zenon
  <2>2. r.pc = "call" => Kind(r) = "tablet"
    BY Zenon DEF WInv, Pooled
  <2>3. Went(q, r)
    BY <2>1, <2>2, Zenon DEF Went
  <2> QED BY <2>1, <2>3, Zenon
<1>3. /\ ran \in [Ops \X Tasks -> Nat]
      /\ \A x \in Ops \X Tasks : ran'[x] = ran[x] \/ (x = m /\ ran'[x] = ran[x] + 1)
  BY <1>1, Zenon DEF AddOPTask, TInv, HistType
<1>4. Seen' \subseteq Seen
  <2>1. \A q \in pool' : \E y \in pool : q.op = y.op /\ q.task = y.task
    BY <1>2, Zenon DEF Went
  <2>2. \A x \in Ops \X Tasks : (ran'[x] > 0 \/ x \in net') => x \in Seen
    BY <1>1, <1>3, Zenon DEF Seen
  <2> QED BY <1>1, <2>1, <2>2, SeenFrame, Zenon
<1>5. Light
  <2>1. Steady
    BY <1>1, Zenon DEF Steady
  <2>2. pool = {} => pool' = {}
    BY <1>2, Zenon
  <2> QED BY <1>1, <1>4, <2>1, <2>2, Zenon DEF Light
<1>6. Pooled'
  BY <1>1, <1>2, <1>5, PooledFrame, Zenon
<1>7. Once'
  <2> SUFFICES ASSUME NEW o \in Ops, NEW t \in DOMAIN TasksOf(o), TasksOf(o)[t] = "tablet"
               PROVE  /\ ran'[<<o, t>>] <= 1
                      /\ <<o, t>> \in net' => ran'[<<o, t>>] = 0
                      /\ [op |-> o, task |-> t, pc |-> "queued"] \in pool' =>
                            ran'[<<o, t>>] = 0 /\ <<o, t>> \notin net'
    BY <1>1, Zenon DEF Once, TasksOf, Plan, ChildPlan
  <2>1. /\ ran[<<o, t>>] <= 1
        /\ <<o, t>> \in net => ran[<<o, t>>] = 0
        /\ [op |-> o, task |-> t, pc |-> "queued"] \in pool =>
              ran[<<o, t>>] = 0 /\ <<o, t>> \notin net
    BY Zenon DEF WInv, Once
  <2>2. [op |-> o, task |-> t, pc |-> "queued"] \in pool' =>
           [op |-> o, task |-> t, pc |-> "queued"] \in pool
    BY <1>2, Zenon
  <2>3. <<o, t>> \in Ops \X Tasks /\ ran[<<o, t>>] \in Nat
    BY <1>3, OpFacts, Zenon
  <2>4. ran'[<<o, t>>] = ran[<<o, t>>] \/ (<<o, t>> = m /\ ran'[<<o, t>>] = ran[<<o, t>>] + 1)
    BY <1>3, <2>3, Zenon
  <2> QED BY <1>1, <2>1, <2>2, <2>3, <2>4, SMTT(30)
<1>8. Answers'
  <2>1. \A x \in Ops \X Tasks : tablet'[x] = "done" => tablet[x] = "done"
    BY <1>1, Zenon DEF AddOPTask, TInv, TabletType
  <2> QED BY <1>1, <2>1, Zenon DEF WInv, Answers
<1>9. Collected'
  BY <1>1, <1>5, LightFrame, Zenon
<1> QED BY <1>1, <1>5, <1>6, <1>7, <1>8, <1>9, LightStep, Zenon

LEMMA WTablet ==
    ASSUME TInv, WInv,
           \/ \E m : TabletCancelOP(m)
           \/ \E m \in Ops \X Tasks : TaskEnds(m)
           \/ TabletCrash \/ TabletStart
    PROVE  TInv' /\ WInv'
<1>1. /\ TInv' /\ net' \subseteq net /\ succeeded \subseteq succeeded'
      /\ UNCHANGED <<load, ns, task_vec, mem, done_op_list, pt, pool, poll, zk, op_index,
                     parent, ran, begun, canceled, deleted>>
      /\ \A m \in Ops \X Tasks : tablet'[m] = "done" => tablet[m] = "done" \/ m \in succeeded'
  BY StepTablet, Zenon
<1>2. Seen' \subseteq Seen
  BY <1>1, Zenon DEF Seen
<1>3. Light
  <2>1. Steady
    BY <1>1, Zenon DEF Steady
  <2> QED BY <1>1, <1>2, <2>1, Zenon DEF Light
<1>4. Pooled'
  <2>1. \A q \in pool' : \E r \in pool : Went(q, r)
    BY <1>1, Zenon DEF Went
  <2> QED BY <1>1, <1>3, <2>1, PooledFrame, Zenon
<1>5. Once'
  <2>1. \A o \in Ops : TasksOf(o)' = TasksOf(o)
    BY <1>1, Zenon DEF TasksOf, Plan, ChildPlan
  <2> QED BY <1>1, <1>2, <2>1, OnceFrame, ZenonT(60) DEF WInv
<1>6. Answers'
  BY <1>1, Zenon DEF WInv, Answers
<1>7. Collected'
  BY <1>1, <1>3, LightFrame, Zenon
<1> QED BY <1>1, <1>3, <1>4, <1>5, <1>6, <1>7, LightStep, Zenon

\* The front task that waits for the tablet.
LEMMA WaitFacts ==
    ASSUME TInv, WInv, WaitsForTablet
    PROVE  LET o == Head(task_vec) IN
           /\ o \in Range(task_vec) /\ o \in Ops /\ mem[o].status # "inited"
           /\ mem[o].front = "doing" /\ FrontKind(o) = "tablet" /\ <<o, FrontTask(o)>> \in Ops \X Tasks
<1> DEFINE o == Head(task_vec)
<1>1. /\ o \in Range(task_vec) /\ o \in Ops /\ mem[o].front = "doing" /\ FrontKind(o) = "tablet"
      /\ ~NoTaskLeft(o)
  BY OpFacts, Zenon DEF WaitsForTablet
<1>2. Listed(o)
  BY <1>1, Zenon DEF WInv
<1>3. <<o, FrontTask(o)>> \in Ops \X Tasks
  BY <1>1, FrontFacts, Zenon
<1> QED BY <1>1, <1>2, <1>3, Zenon DEF Listed

LEMMA WOffline ==
    ASSUME TInv, WInv, FailOfflineTask
    PROVE  TInv' /\ WInv'
<1>1. /\ TInv' /\ WaitsForTablet /\ FrontSet(Head(task_vec), "failed")
      /\ UNCHANGED <<load, ns, task_vec, done_op_list, pt, pool, poll, zk, op_index, parent,
                     net, tablet, tablet_up, ran, succeeded, begun, canceled, deleted, faults>>
  BY StepOffline, Zenon
<1>2. \A o \in Range(task_vec) :
         mem'[o].front = mem[o].front \/ (Touched(o) /\ FrontKind(o) = "tablet")
  BY <1>1, WaitFacts, OpFacts, Zenon DEF FrontSet, Touched
<1>3. Answers' /\ Steady
  BY <1>1, Zenon DEF WInv, Answers, FrontSet
<1> QED BY <1>1, <1>2, <1>3, QuietStep, Zenon

LEMMA WGet ==
    ASSUME TInv, WInv, GetTaskStatus
    PROVE  TInv' /\ WInv'
<1>1. /\ TInv' /\ poll'.resp = tablet
      /\ UNCHANGED <<load, ns, task_vec, mem, done_op_list, pt, pool, zk, op_index, parent, net,
                     tablet, tablet_up, ran, succeeded, begun, canceled, deleted, faults>>
  BY StepGet, Zenon
<1>2. Answers' /\ Steady
  BY <1>1, Zenon DEF WInv, Answers, Steady
<1> QED BY <1>1, <1>2, QuietStep, Zenon

LEMMA WUpdateTask ==
    ASSUME TInv, WInv, UpdateTask
    PROVE  TInv' /\ WInv'
<1> DEFINE o == Head(task_vec)
<1>1. /\ TInv' /\ Steady /\ ns' = "running"
      /\ UNCHANGED <<task_vec, done_op_list, pt, pool, zk, net, tablet,
                     tablet_up, ran, succeeded, begun, canceled, deleted, faults>>
      /\ poll'.resp = NoMap
      /\ \/ UNCHANGED mem
         \/ /\ WaitsForTablet /\ mem'[o].front \in Status \ {"inited"}
            /\ mem'[o].front = "done" => poll.resp[<<o, FrontTask(o)>>] = "done"
            /\ \A x \in Ops : x # o => mem'[x] = mem[x]
  BY StepUpdateTask, Zenon
<1>2. Answers'
  BY <1>1, Zenon DEF WInv, Answers, NoMap
<1>3. \A x \in Range(task_vec) :
         mem'[x].front = mem[x].front \/ (Touched(x) /\ FrontKind(x) = "tablet")
  <2>1. CASE UNCHANGED mem
    BY <2>1, Zenon
  <2>2. CASE /\ WaitsForTablet /\ mem'[o].front \in Status \ {"inited"}
             /\ mem'[o].front = "done" => poll.resp[<<o, FrontTask(o)>>] = "done"
             /\ \A x \in Ops : x # o => mem'[x] = mem[x]
    <3>1. /\ o \in Range(task_vec) /\ o \in Ops /\ mem[o].status # "inited"
          /\ mem[o].front = "doing" /\ FrontKind(o) = "tablet" /\ <<o, FrontTask(o)>> \in Ops \X Tasks
      BY <2>2, WaitFacts, Zenon
    <3>2. mem'[o].front = "done" => <<o, FrontTask(o)>> \in succeeded
      BY <2>2, <3>1, Zenon DEF WInv, Answers
    <3>3. mem'[o].front = "done" => Good(o, mem[o].index + 1)'
      <4> HIDE DEF o
      <4>1. mem'[o].index = mem[o].index
        BY <1>1, <3>1, Zenon DEF Steady
      <4>2. PICK z : z = o
        BY Zenon
      <4>3. mem'[z].front = "done" => Good(z, mem[z].index + 1)'
        BY <1>1, <3>2, <4>1, <4>2, Zenon DEF Good, FrontTask
      <4>4. o' = o
        BY <1>1, Zenon DEF o
      <4> QED BY <4>2, <4>3, <4>4, Zenon
    <3>4. Touched(o)
      BY <2>2, <3>1, <3>3, Zenon DEF Touched
    <3> QED BY <2>2, <3>1, <3>4, OpFacts, Zenon
  <2> QED BY <1>1, <2>1, <2>2, Zenon
<1> QED BY <1>1, <1>2, <1>3, QuietStep, ZenonT(60)

LEMMA WNoAnswer ==
    ASSUME TInv, WInv, NoAnswer
    PROVE  TInv' /\ WInv'
<1>1. /\ TInv' /\ ns' = "running"
      /\ UNCHANGED <<load, task_vec, mem, done_op_list, pt, pool, poll, zk, op_index, parent,
                     net, tablet, tablet_up, ran, succeeded, begun, canceled, deleted>>
  BY StepNoAnswer, Zenon
<1>2. Answers' /\ Steady
  BY <1>1, Zenon DEF WInv, Answers, Steady
<1> QED BY <1>1, <1>2, QuietStep, Zenon

LEMMA WPt ==
    ASSUME TInv, WInv, NothingToStart \/ CollectDone
    PROVE  TInv' /\ WInv'
<1>1. /\ UNCHANGED <<load, ns, task_vec, mem, done_op_list, pool, poll, zk, op_index, parent, net,
                      tablet, tablet_up, ran, succeeded, begun, canceled, deleted, faults>>
      /\ ns = "running" /\ TInv'
  BY StepPt, Zenon DEF NothingToStart, CollectDone, zkVars, tabletVars, histVars
<1>2. Answers' /\ Steady
  BY <1>1, Zenon DEF WInv, Answers, Steady
<1>3. pt \in [pc : {"run", "zk", "collect", "tablet", "erase"}, op : Ops \cup {0}]
  BY Zenon DEF TInv, PtType
<1>4. \/ pt'.op = pt.op /\ pt'.pc \in {"run", "zk"}
      \/ task_vec # <<>> /\ pt'.op = Head(task_vec) /\ Finished(Head(task_vec))
      \/ pt'.op = 0
  BY <1>3 DEF NothingToStart, CollectDone
<1>5. Collected'
  <2>1. pt'.op <= op_index'
    BY <1>1, <1>4, OpFacts DEF WInv, Collected
  <2>2. 0 \notin Range(task_vec)
    BY OpFacts
  <2>3. Finished(pt.op)' = Finished(pt'.op)
    BY <1>1, Zenon DEF Finished, Failed, NoTaskLeft, TasksOf, Plan, ChildPlan
  <2> QED BY <1>1, <1>4, <2>1, <2>2, <2>3, ZenonT(60) DEF Collected
<1> QED BY <1>1, <1>2, <1>5, QuietStep, Zenon

LEMMA WForget ==
    ASSUME TInv, WInv, DeleteOPTask
    PROVE  TInv' /\ WInv'
<1>1. /\ UNCHANGED <<load, ns, task_vec, mem, done_op_list, pool, poll, zk, op_index, parent, net,
                      tablet_up, ran, succeeded, begun, canceled, deleted>>
      /\ ns = "running" /\ pt.pc = "tablet" /\ TInv'
  BY StepForget, Zenon DEF DeleteOPTask, zkVars, histVars
<1>2. Answers' /\ Steady
  <2>1. \A m \in Ops \X Tasks : tablet'[m] = "done" => tablet[m] = "done"
    BY Zenon DEF DeleteOPTask, Forget, TInv, TabletType
  <2> QED BY <1>1, <2>1, Zenon DEF WInv, Answers, Steady
<1>3. (pt'.op = pt.op /\ pt'.pc = "erase") \/ (pt'.op = 0 /\ pt'.pc = "run")
  BY DEF DeleteOPTask, TInv, PtType
<1>4. Collected'
  <2>1. pt'.op <= op_index'
    BY <1>1, <1>3, OpFacts DEF WInv, Collected
  <2>2. pt'.pc = "erase" =>
           /\ Finished(pt.op)' = Finished(pt.op) /\ FrontDone(pt.op)' = FrontDone(pt.op)
           /\ FrontKind(pt.op)' = FrontKind(pt.op)
    BY <1>1, <1>3, Zenon DEF Finished, Failed, FrontDone, FrontKind, FrontTask, NoTaskLeft, TasksOf, Plan,
       ChildPlan
  <2> QED BY <1>1, <1>3, <2>1, <2>2, ZenonT(60) DEF WInv, Collected
<1> QED BY <1>1, <1>2, <1>4, QuietStep, Zenon
-----------------------------------------------------------------------------
(* The invariant, for the other steps.                                     *)

LEMMA WStart ==
    ASSUME TInv, WInv, StartFront
    PROVE  TInv' /\ WInv'
<1>1. PICK o \in Ops : o = Head(task_vec)
  BY StepStart, Zenon
<1>2. /\ TInv' /\ task_vec # <<>> /\ Runnable(o)
      /\ Started(o) \/ UNCHANGED <<mem, zk, pool>>
      /\ \A x \in Ops : x # o => mem'[x] = mem[x] /\ zk'[x] = zk[x]
  BY <1>1, StepStart, Zenon
<1>3. /\ UNCHANGED <<load, ns, task_vec, done_op_list, poll, op_index, parent, net, tablet,
                      tablet_up, ran, succeeded, canceled, deleted>>
      /\ ns = "running" /\ pt' = [pt EXCEPT !.pc = "zk"]
  BY Zenon DEF StartFront, tabletVars
<1>4. pt'.pc = "zk" /\ pt'.op = pt.op /\ Collected' /\ Answers'
  <2>1. pt'.pc = "zk" /\ pt'.op = pt.op
    BY <1>3, Zenon DEF TInv, PtType
  <2> QED BY <1>3, <2>1, Zenon DEF WInv, Collected, Answers
<1>5. CASE UNCHANGED <<mem, zk, pool>>
  <2>1. Steady
    BY <1>3, <1>5, Zenon DEF Steady
  <2> QED BY <1>2, <1>3, <1>4, <1>5, <2>1, QuietStep, Zenon
<1>6. CASE Started(o) /\ mem[o].front # "inited"
  <2>1. o \in Range(task_vec) /\ Listed(o) /\ mem[o].status = "doing"
    <3>1. o \in Range(task_vec) /\ Listed(o)
      BY <1>1, <1>2, OpFacts, ZenonT(60) DEF WInv
    <3> QED BY <1>2, <1>6, <3>1, Zenon DEF Listed, Runnable
  <2>2. pool' = pool /\ mem'[o].status = mem[o].status /\ mem'[o].index = mem[o].index
        /\ mem'[o].front = mem[o].front /\ zk'[o].status = zk[o].status /\ zk'[o].index = zk[o].index
    BY <1>6, <2>1, ZenonT(60) DEF Started
  <2>3. zk'[o] = zk[o]
    <3>1. zk[o] \in NodeType(Len(TasksOf(o))) /\ zk'[o] \in NodeType(Len(TasksOf(o)'))
      BY <1>2, MemFacts, ZenonT(60) DEF TInv, NodeOK
    <3> QED BY <2>2, <3>1 DEF NodeType
  <2>4. UNCHANGED zk
    BY <1>2, <2>3, Zenon DEF TInv, NodeOK
  <2>5. Steady /\ \A x \in Range(task_vec) : mem'[x].front = mem[x].front
    BY <1>2, <1>3, <2>2, OpFacts, ZenonT(60) DEF Steady
  <2> QED BY <1>2, <1>3, <1>4, <2>2, <2>4, <2>5, QuietStep, ZenonT(60)
<1>7. CASE Started(o) /\ mem[o].front = "inited"
  <2>1. PICK i \in 0 .. Len(TasksOf(o)) : i = mem[o].index
    BY MemFacts, Zenon
  <2>2. PICK t \in Tasks : t = i + 1 /\ t = FrontTask(o) /\ t \in DOMAIN TasksOf(o)
    <3>1. ~NoTaskLeft(o)
      BY <1>2, Zenon DEF Runnable
    <3> QED BY <2>1, <3>1, FrontFacts, OpFacts, Zenon DEF FrontTask
  <2>3. /\ o \in Range(task_vec) /\ Listed(o) /\ mem[o].status \in {"inited", "doing"}
        /\ o <= op_index
    <3>1. o \in Range(task_vec) /\ Listed(o)
      BY <1>1, <1>2, OpFacts, Zenon DEF WInv
    <3> QED BY <1>2, <3>1, Zenon DEF Listed, Runnable
  <2>4. /\ mem'[o].status = "doing" /\ mem'[o].index = i /\ mem'[o].front = "doing"
        /\ zk'[o].index = zk[o].index
        /\ zk'[o].status = IF mem[o].status = "inited" THEN "doing" ELSE zk[o].status
        /\ pool' = pool \cup {[op |-> o, task |-> t, pc |-> "queued"]}
    BY <1>7, <2>1, <2>2, Zenon DEF Started
  <2>5. Seen' = Seen \cup {<<o, t>>}
    <3>1. ASSUME NEW m \in Ops \X Tasks PROVE m \in Seen' <=> (m \in Seen \/ m = <<o, t>>)
      <4>1. PICK e : e = [op |-> o, task |-> t, pc |-> "queued"] /\ e.op = o /\ e.task = t
        <5>1. PICK c : c = "queued"
          BY Zenon
        <5>2. [op |-> o, task |-> t, pc |-> c].op = o /\ [op |-> o, task |-> t, pc |-> c].task = t
          BY Zenon
        <5> QED BY <5>1, <5>2, Zenon
      <4>2. pool' = pool \cup {e}
        BY <2>4, <4>1, Zenon
      <4>3. (\E r \in pool' : <<r.op, r.task>> = m)
               <=> ((\E r \in pool : <<r.op, r.task>> = m) \/ m = <<o, t>>)
        BY <4>1, <4>2, Zenon
      <4> QED BY <1>3, <4>3, Zenon DEF Seen
    <3>2. Seen \subseteq Ops \X Tasks /\ Seen' \subseteq Ops \X Tasks /\ <<o, t>> \in Ops \X Tasks
      BY Zenon DEF Seen
    <3> QED BY <3>1, <3>2, Zenon
  <2>6. /\ \A x : TasksOf(x)' = TasksOf(x)
        /\ \A x, n : (Good(x, n)' <=> Good(x, n)) /\ (UpTo(x, n)' <=> UpTo(x, n))
    BY <1>3, Zenon DEF Good, UpTo, TasksOf, Plan, ChildPlan
  <2>7. \A x \in Ops : \A n : x # o /\ FreshFrom(x, n) => FreshFrom(x, n)'
    BY <2>5, Zenon DEF FreshFrom
  <2>8. FreshFrom(o, i + 2)'
    <3>1. FreshFrom(o, i + 2)
      BY <2>1, <2>3, Zenon DEF Listed
    <3>2. i \in Nat /\ t = i + 1
      BY <2>1, <2>2, OpFacts
    <3> QED BY <2>5, <3>1, <3>2 DEF FreshFrom
  <2>9. Listed(o)'
    <3>1. UpTo(o, i)' /\ o <= op_index'
      BY <1>3, <2>1, <2>3, <2>6, Zenon DEF Listed
    <3>2. zk'[o].status # "inited"
      BY <2>3, <2>4, Zenon DEF Listed
    <3>3. zk'[o].status # "none" => zk'[o].index = i
      <4>1. CASE mem[o].status = "inited"
        <5>1. i = 0
          BY <2>1, <2>3, <4>1, Zenon DEF Listed
        <5>2. zk[o].status = "none" => zk[o].index = 0
          BY NodeGone, Zenon DEF WInv, Noded
        <5>3. zk[o].status # "none" => zk[o].index = i
          BY <2>1, <2>3, Zenon DEF Listed
        <5> QED BY <2>4, <5>1, <5>2, <5>3, Zenon
      <4>2. CASE mem[o].status # "inited"
        BY <2>1, <2>3, <2>4, <4>2, Zenon DEF Listed
      <4> QED BY <4>1, <4>2, Zenon
    <3>4. ~FrontDone(o)'
      BY <2>4, Zenon DEF FrontDone
    <3> QED BY <2>4, <2>8, <3>1, <3>2, <3>3, <3>4, Zenon DEF Listed
  <2>10. ASSUME NEW x \in Range(task_vec') PROVE Listed(x)'
    <3>1. x \in Range(task_vec) /\ x \in Ops /\ Listed(x)
      BY <1>3, <2>10, OpFacts, Zenon DEF WInv
    <3>2. CASE x # o
      <4>1. mem'[x] = mem[x] /\ zk'[x] = zk[x]
        BY <1>2, <3>1, <3>2, Zenon
      <4>2. PICK k : k = mem[x].index
        BY Zenon
      <4>4. /\ NoTaskLeft(x)' = NoTaskLeft(x) /\ FrontKind(x)' = FrontKind(x)
            /\ FrontDone(x)' = FrontDone(x)
        BY <2>6, <4>1, Zenon DEF NoTaskLeft, FrontKind, FrontTask, FrontDone
      <4>5. (Good(x, k + 1)' <=> Good(x, k + 1)) /\ (UpTo(x, k)' <=> UpTo(x, k))
        BY <2>6, Zenon
      <4>6. (FreshFrom(x, k + 1) => FreshFrom(x, k + 1)') /\ (FreshFrom(x, k + 2) => FreshFrom(x, k + 2)')
            /\ (FreshFrom(x, 1) => FreshFrom(x, 1)')
        BY <2>7, <3>1, <3>2, Zenon
      <4> QED BY <1>3, <3>1, <4>1, <4>2, <4>4, <4>5, <4>6, Zenon DEF Listed
    <3> QED BY <2>9, <3>2, Zenon
  <2>11. ASSUME NEW x \in Ops PROVE Noded(x)'
    <3>1. Noded(x)
      BY Zenon DEF WInv
    <3>2. CASE x # o
      <4>1. zk'[x] = zk[x]
        BY <1>2, <3>2, Zenon
      <4>2. PICK k : k = zk[x].index
        BY Zenon
      <4>3. (FreshFrom(x, k + 2) => FreshFrom(x, k + 2)') /\ (FreshFrom(x, 1) => FreshFrom(x, 1)')
            /\ (UpTo(x, k)' <=> UpTo(x, k))
        BY <2>6, <2>7, <3>2, Zenon
      <4> QED BY <3>1, <4>1, <4>2, <4>3, Zenon DEF Noded
    <3>3. CASE x = o
      <4>1. zk'[o].status = "none" => zk'[o] = NoNode
        <5>1. zk[o] \in NodeType(Len(TasksOf(o))) /\ zk'[o] \in NodeType(Len(TasksOf(o)'))
          BY <1>2, MemFacts, Zenon DEF TInv, NodeOK
        <5>2. zk'[o].status = "none" => zk[o].status = "none"
          BY <2>4, Zenon
        <5>3. zk'[o].status = "none" => zk'[o] = zk[o]
          BY <2>4, <5>1, <5>2, SMTT(30) DEF NodeType
        <5> QED BY <3>1, <3>3, <5>2, <5>3, Zenon DEF Noded
      <4>2. zk'[o].status # "inited" /\ (zk'[o].status # "none" => zk'[o].index = i)
        BY <2>4, <2>9, Zenon DEF Listed
      <4>3. UpTo(o, i)'
        BY <2>1, <2>3, <2>6, Zenon DEF Listed
      <4> QED BY <2>8, <3>3, <4>1, <4>2, <4>3, Zenon DEF Noded
    <3> QED BY <3>2, <3>3, Zenon
  <2>12. Once'
    <3> SUFFICES ASSUME NEW x \in Ops, NEW k \in DOMAIN TasksOf(x), TasksOf(x)[k] = "tablet"
                 PROVE  /\ ran[<<x, k>>] <= 1
                        /\ <<x, k>> \in net => ran[<<x, k>>] = 0
                        /\ [op |-> x, task |-> k, pc |-> "queued"] \in pool' =>
                              ran[<<x, k>>] = 0 /\ <<x, k>> \notin net
      BY <1>3, <2>6, Zenon DEF Once
    <3>1. /\ ran[<<x, k>>] <= 1
          /\ <<x, k>> \in net => ran[<<x, k>>] = 0
          /\ [op |-> x, task |-> k, pc |-> "queued"] \in pool =>
                ran[<<x, k>>] = 0 /\ <<x, k>> \notin net
      BY Zenon DEF WInv, Once
    <3>2. CASE x = o /\ k = t
      <4>1. FrontKind(o) = "tablet" /\ ~NoTaskLeft(o)
        BY <1>2, <2>2, <3>2, Zenon DEF FrontKind, Runnable
      <4>2. FreshFrom(o, i + 1)
        BY <1>7, <2>1, <2>3, <4>1, Zenon DEF Listed
      <4>3. t >= i + 1
        BY <2>1, <2>2
      <4>4. <<o, t>> \notin Seen
        BY <4>2, <4>3, Zenon DEF FreshFrom
      <4>5. ~(ran[<<o, t>>] > 0) /\ <<o, t>> \notin net /\ ran[<<o, t>>] \in Nat
        BY <4>4, Zenon DEF Seen, TInv, HistType
      <4> QED BY <3>1, <3>2, <4>5, SMTT(30)
    <3>3. CASE ~(x = o /\ k = t)
      <4>1. [op |-> x, task |-> k, pc |-> "queued"] # [op |-> o, task |-> t, pc |-> "queued"]
        BY <3>3, Zenon
      <4> QED BY <2>4, <3>1, <4>1, Zenon
    <3> QED BY <3>2, <3>3, Zenon
  <2>13. InOrder'
    <3> SUFFICES ASSUME NEW x \in Ops, NEW k \in Tasks, <<x, k>> \in Seen'
                 PROVE  UpTo(x, k - 1)' /\ x <= op_index'
      BY Zenon DEF InOrder
    <3>1. CASE <<x, k>> \in Seen
      BY <1>3, <2>6, <3>1, Zenon DEF WInv, InOrder
    <3>2. CASE x = o /\ k = t
      <4>1. k - 1 = i
        <5>1. i \in Nat
          BY <2>1, OpFacts, Numbers, Zenon
        <5> QED BY <2>2, <3>2, <5>1, Numbers, Zenon
      <4>2. UpTo(o, i)'
        BY <2>1, <2>3, <2>6, Zenon DEF Listed
      <4> QED BY <1>3, <2>3, <3>2, <4>1, <4>2, Zenon
    <3> QED BY <2>5, <3>1, <3>2, Zenon
  <2>14. Pooled'
    <3> DEFINE e == [op |-> o, task |-> t, pc |-> "queued"]
    <3> SUFFICES ASSUME NEW q \in pool'
                 PROVE  /\ q.task \in DOMAIN TasksOf(q.op)' /\ q.op <= op_index'
                        /\ q.pc \notin {"queued", "failed"} => Kind(q)' = "tablet"
                        /\ q.pc = "queued" /\ IsFront(q)' /\ Kind(q)' # "tablet" =>
                              mem'[q.op].front \in {"doing", "canceled"}
                        /\ q.pc = "failed" =>
                              /\ Kind(q)' = "normal"
                              /\ [op |-> q.op, task |-> q.task, pc |-> "queued"] \notin pool'
                              /\ IsFront(q)' => mem'[q.op].front # "inited"
      BY Zenon DEF Pooled
    <3>1. CASE q = e
      <4>1. q.op = o /\ q.task = t /\ q.pc = "queued"
        BY <3>1, Zenon
      <4> QED BY <1>3, <2>2, <2>3, <2>4, <2>6, <4>1, Zenon
    <3>2. CASE q \in pool
      <4>1. /\ q.task \in DOMAIN TasksOf(q.op) /\ q.op <= op_index
            /\ q.pc \notin {"queued", "failed"} => Kind(q) = "tablet"
            /\ q.pc = "queued" /\ IsFront(q) /\ Kind(q) # "tablet" =>
                  mem[q.op].front \in {"doing", "canceled"}
            /\ q.pc = "failed" =>
                  /\ Kind(q) = "normal"
                  /\ [op |-> q.op, task |-> q.task, pc |-> "queued"] \notin pool
                  /\ IsFront(q) => mem[q.op].front # "inited"
        BY <3>2, Zenon DEF WInv, Pooled
      <4>2. q.op \in Ops
        BY <3>2, PoolFacts, Zenon
      <4>3. mem'[q.op].index = mem[q.op].index /\ (q.op # o => mem'[q.op] = mem[q.op])
        BY <1>2, <2>1, <2>4, <4>2, Zenon
      <4>4. Kind(q)' = Kind(q) /\ IsFront(q)' = IsFront(q)
        BY <1>3, <2>6, <4>3, Zenon DEF Kind, IsFront, FrontTask
      <4>5. q.pc = "failed" => [op |-> q.op, task |-> q.task, pc |-> "queued"] # e
        <5>1. ASSUME q.pc = "failed", q.op = o, q.task = t PROVE FALSE
          <6>1. IsFront(q)
            BY <2>2, <2>3, <5>1, Zenon DEF IsFront
          <6> QED BY <1>7, <4>1, <5>1, <6>1, Zenon
        <5> QED BY <5>1, Zenon
      <4>6. q.op = o => mem'[q.op].front = "doing"
        BY <2>4, Zenon
      <4> QED BY <1>3, <2>4, <2>6, <4>1, <4>3, <4>4, <4>5, <4>6, Zenon
    <3> QED BY <2>4, <3>1, <3>2, Zenon
  <2>15. Reported'
    <3>1. /\ NoDouble(done_op_list) /\ \A j \in 1 .. Len(done_op_list) : ReportOf(done_op_list[j])
          /\ DOMAIN done_op_list = 1 .. Len(done_op_list)
      BY ReportedFacts, SetOf, Zenon DEF WInv, TInv, DoneType
    <3>2. ASSUME NEW j \in 1 .. Len(done_op_list) PROVE ReportOf(done_op_list[j])'
      <4>1. PICK d : d = done_op_list[j]
        BY Zenon
      <4>2. ReportOf(d) /\ d.op \in Ops
        <5>1. ReportOf(d)
          BY <3>1, <4>1, Zenon
        <5>2. done_op_list \in Seq(Done)
          BY Zenon DEF TInv, DoneType, Done
        <5>3. d \in Done
          BY <4>1, <5>2
        <5> QED BY <5>1, <5>3, Zenon DEF Done
      <4>3. d.op # o
        BY <2>3, <4>2, Zenon DEF ReportOf
      <4>4. zk'[d.op] = zk[d.op]
        BY <1>2, <4>2, <4>3, Zenon
      <4>5. PICK n : n = Len(TasksOf(d.op))
        BY Zenon
      <4>6. Len(TasksOf(d.op)') = n /\ (UpTo(d.op, n)' <=> UpTo(d.op, n))
        BY <2>6, <4>5, Zenon
      <4> QED BY <1>3, <4>1, <4>2, <4>4, <4>5, <4>6, Zenon DEF ReportOf
    <3> QED BY <1>3, <3>1, <3>2, Zenon DEF Reported, NoDouble, ReportOf
  <2>16. Decided'
    <3>1. \A x \in canceled : x \in Range(task_vec) => mem'[x].status = "canceled"
      BY <1>2, <2>3, OpFacts, Zenon DEF WInv, Decided
    <3>2. \A x \in deleted : zk'[x].status = "none"
      BY <1>2, <2>3, Zenon DEF WInv, Decided, TInv, HistType
    <3> QED BY <1>3, <3>1, <3>2, Zenon DEF WInv, Decided, InDoneList
  <2>17. Down'
    BY <1>3, Zenon DEF Down
  <2> QED BY <1>2, <1>4, <2>10, <2>11, <2>12, <2>13, <2>14, <2>15, <2>16, <2>17, Zenon DEF WInv
<1> QED BY <1>2, <1>5, <1>6, <1>7, Zenon
\* The pool of a step that leaves it alone.
LEMMA PooledSame ==
    ASSUME TInv, TInv', WInv, UNCHANGED pool, op_index <= op_index',
           \A x \in Ops : x <= op_index => TasksOf(x)' = TasksOf(x),
           \A q \in pool : IsFront(q)' =>
              /\ IsFront(q)
              /\ \/ mem'[q.op].front = mem[q.op].front
                 \/ mem'[q.op].front = "canceled"
    PROVE  Pooled'
<1> SUFFICES ASSUME NEW q \in pool
             PROVE  /\ q.task \in DOMAIN TasksOf(q.op)' /\ q.op <= op_index'
                    /\ q.pc \notin {"queued", "failed"} => Kind(q)' = "tablet"
                    /\ q.pc = "queued" /\ IsFront(q)' /\ Kind(q)' # "tablet" =>
                          mem'[q.op].front \in {"doing", "canceled"}
                    /\ q.pc = "failed" =>
                          /\ Kind(q)' = "normal"
                          /\ [op |-> q.op, task |-> q.task, pc |-> "queued"] \notin pool
                          /\ IsFront(q)' => mem'[q.op].front # "inited"
  BY Zenon DEF Pooled
<1>1. /\ q.task \in DOMAIN TasksOf(q.op) /\ q.op <= op_index
      /\ q.pc \notin {"queued", "failed"} => Kind(q) = "tablet"
      /\ q.pc = "queued" /\ IsFront(q) /\ Kind(q) # "tablet" =>
            mem[q.op].front \in {"doing", "canceled"}
      /\ q.pc = "failed" =>
            /\ Kind(q) = "normal"
            /\ [op |-> q.op, task |-> q.task, pc |-> "queued"] \notin pool
            /\ IsFront(q) => mem[q.op].front # "inited"
  BY Zenon DEF WInv, Pooled
<1>2. q.op \in Ops
  BY PoolFacts, Zenon
<1>3. TasksOf(q.op)' = TasksOf(q.op) /\ Kind(q)' = Kind(q)
  BY <1>1, <1>2, Zenon DEF Kind
<1>4. q.op <= op_index'
  <2>1. op_index' \in Nat /\ op_index \in Nat /\ q.op \in Nat
    BY <1>2, IndexNat, Zenon DEF TInv, IdType
  <2> QED BY <1>1, <2>1, Numbers, Zenon
<1> QED BY <1>1, <1>3, <1>4, Zenon

LEMMA WZk ==
    ASSUME TInv, WInv, UpdateZKTaskStatus
    PROVE  TInv' /\ WInv'
<1>1. /\ TInv' /\ pt'.op = pt.op /\ pt'.pc = "collect" /\ ns = "running"
      /\ UNCHANGED <<load, ns, task_vec, done_op_list, pool, poll, op_index, parent, net,
                     tablet, tablet_up, ran, succeeded, begun, canceled, deleted>>
      /\ \/ UNCHANGED <<mem, zk>>
         \/ LET o == Head(task_vec) IN
            /\ o \in Range(task_vec) /\ Advanced(o)
            /\ \A x \in Ops : x # o => mem'[x] = mem[x] /\ zk'[x] = zk[x]
  BY StepZk, Zenon
<1>2. Answers' /\ Collected' /\ Down'
  BY <1>1, Zenon DEF WInv, Answers, Collected, Down
<1>3. CASE UNCHANGED <<mem, zk>>
  <2>1. Steady
    BY <1>1, <1>3, Zenon DEF Steady
  <2> QED BY <1>1, <1>2, <1>3, <2>1, QuietStep, Zenon
<1>4. ASSUME NEW o \in Range(task_vec), Advanced(o),
             \A x \in Ops : x # o => mem'[x] = mem[x] /\ zk'[x] = zk[x]
      PROVE  WInv'
  <2>1. o \in Ops /\ Listed(o) /\ o <= op_index
    BY <1>4, OpFacts, Zenon DEF WInv
  <2>2. PICK i \in Nat : i = mem[o].index
    BY <2>1, IdFacts, Zenon
  <2>3. /\ mem'[o].status = mem[o].status /\ mem'[o].index = i + 1
        /\ mem'[o].front = IF mem[o].status = "canceled" THEN "canceled" ELSE "inited"
        /\ zk'[o].status = mem[o].status /\ zk'[o].index = i + 1 /\ FrontDone(o)
    BY <1>4, <2>2, Zenon DEF Advanced
  <2>4. mem[o].status \in {"doing", "canceled"}
    BY <2>1, <2>3, Zenon DEF Listed, FrontDone
  <2>5. Seen' = Seen /\ Calm
    <3>1. Seen' = Seen
      BY <1>1, Zenon DEF Seen
    <3>2. \A x : TasksOf(x)' = TasksOf(x)
      BY <1>1, Zenon DEF TasksOf, Plan, ChildPlan
    <3> QED BY <1>1, <3>1, <3>2, IdFacts, Zenon DEF Calm
  <2>6. FreshFrom(o, i + 2) /\ FreshFrom(o, i + 2)' /\ FreshFrom(o, i + 3)'
    <3>1. FreshFrom(o, i + 2)
      BY <2>1, <2>2, Zenon DEF Listed
    <3>2. FreshFrom(o, i + 3)
      BY <3>1, OpFacts DEF FreshFrom
    <3> QED BY <2>1, <2>5, <3>1, <3>2, CalmFacts, Zenon
  <2>7. UpTo(o, i + 1)'
    <3>1. UpTo(o, i) /\ Good(o, i + 1)
      BY <2>1, <2>2, <2>3, Zenon DEF Listed
    <3>2. UpTo(o, i + 1)
      BY <3>1 DEF UpTo
    <3> QED BY <2>1, <2>5, <3>2, CalmFacts, Zenon
  <2>8. Listed(o)'
    <3>1. ~FrontDone(o)'
      BY <2>3, Zenon DEF FrontDone
    <3>2. i + 1 + 2 = i + 3 /\ i + 1 + 1 = i + 2
      OBVIOUS
    <3> QED BY <1>1, <2>1, <2>3, <2>4, <2>6, <2>7, <3>1, <3>2, Zenon DEF Listed
  <2>9. Noded(o)'
    <3>1. i + 1 + 2 = i + 3
      OBVIOUS
    <3> QED BY <2>3, <2>4, <2>6, <2>7, <3>1, Zenon DEF Noded
  <2>10. \A x \in Range(task_vec') : Listed(x)'
    <3> SUFFICES ASSUME NEW x \in Range(task_vec), x # o PROVE Listed(x)'
      BY <1>1, <2>8, Zenon
    <3>1. x \in Ops /\ Listed(x)
      BY OpFacts, Zenon DEF WInv
    <3>2. Kept(x)
      BY <1>4, <3>1, Zenon DEF Kept
    <3> QED BY <1>1, <2>5, <3>1, <3>2, ListedFrame, Zenon
  <2>11. \A x \in Ops : Noded(x)'
    BY <1>1, <1>4, <2>5, <2>9, NodedFrame, Zenon DEF WInv
  <2>12. InOrder'
    BY <1>1, <2>5, InOrderFrame, Zenon DEF WInv
  <2>13. Once'
    BY <1>1, <2>5, OnceFrame, Zenon DEF WInv, Calm
  <2>14. Pooled'
    <3>1. ASSUME NEW q \in pool, IsFront(q)'
          PROVE  IsFront(q) /\ mem'[q.op].front = mem[q.op].front
      <4>1. q.op \in Ops /\ q.op \in Range(task_vec) /\ q.task = mem'[q.op].index + 1
        BY <1>1, <3>1, PoolFacts, Zenon DEF IsFront, FrontTask
      <4>2. q.op # o
        <5> SUFFICES ASSUME q.op = o PROVE FALSE
          BY Zenon
        <5>1. q.task \in Tasks /\ q.task >= i + 2 /\ <<o, q.task>> \in Seen
          BY <2>3, <4>1, PoolSeen, PoolFacts
        <5> QED BY <2>6, <5>1, Zenon DEF FreshFrom
      <4>3. mem'[q.op] = mem[q.op]
        BY <1>4, <4>1, <4>2, Zenon
      <4> QED BY <4>1, <4>3, Zenon DEF IsFront, FrontTask
    <3> QED BY <1>1, <2>5, <3>1, PooledSame, Zenon DEF Calm
  <2>15. Reported'
    <3>1. SubList(done_op_list', done_op_list)
      BY <1>1, Zenon DEF SubList
    <3>2. \A x \in Ops : InDoneList(x) => x # o
      BY Zenon DEF WInv, Reported, InDoneList
    <3> QED BY <1>1, <1>4, <2>5, <3>1, <3>2, ReportedFrame, Zenon DEF WInv
  <2>16. Decided'
    <3>1. \A x \in canceled : x \in Range(task_vec) => mem'[x].status = "canceled"
      BY <1>4, <2>3, OpFacts, Zenon DEF WInv, Decided
    <3>2. \A x \in deleted : zk'[x].status = "none"
      BY <1>4, Zenon DEF WInv, Decided, TInv, HistType
    <3> QED BY <1>1, <3>1, <3>2, Zenon DEF WInv, Decided, InDoneList
  <2> QED BY <1>2, <2>10, <2>11, <2>12, <2>13, <2>14, <2>15, <2>16, Zenon DEF WInv
<1> QED BY <1>1, <1>3, <1>4, Zenon

LEMMA WCancel ==
    ASSUME TInv, WInv, NEW o \in Ops, CancelOP(o)
    PROVE  TInv' /\ WInv'
<1>1. /\ TInv' /\ o \in Range(task_vec) /\ mem[o].status \in {"inited", "doing"}
      /\ mem'[o].status = "canceled" /\ mem'[o].index = mem[o].index
      /\ mem'[o].front = mem[o].front \/ mem'[o].front = "canceled"
      /\ NoTaskLeft(o) \/ mem'[o].front = "canceled"
      /\ \A x \in Ops : x # o => mem'[x] = mem[x]
  BY StepCancel, Zenon
<1>2. /\ UNCHANGED <<load, ns, task_vec, done_op_list, pt, pool, poll, zk, op_index, parent, tablet,
                      tablet_up, ran, succeeded, begun, deleted>>
      /\ net' \subseteq net \cup {<<o, 0>>} /\ canceled' = canceled \cup {o} /\ ns = "running"
  BY Zenon DEF CancelOP, zkVars
<1>3. /\ \A x : TasksOf(x)' = TasksOf(x)
  BY <1>2, Zenon DEF TasksOf, Plan, ChildPlan
<1>4. Seen' \subseteq Seen /\ Calm
  <2>1. \A m \in Ops \X Tasks : m \in net' => m \in net
    BY <1>2, OpFacts
  <2>2. Seen' \subseteq Seen
    BY <1>2, <2>1, Zenon DEF Seen
  <2> QED BY <1>2, <1>3, <2>2, IdFacts, Zenon DEF Calm
<1>5. Listed(o)'
  <2>1. Listed(o)
    BY <1>1, Zenon DEF WInv
  <2>2. PICK i \in 0 .. Len(TasksOf(o)) : i = mem[o].index
    BY MemFacts, Zenon
  <2>3. o <= op_index' /\ FreshFrom(o, i + 2)' /\ UpTo(o, i)'
    BY <1>2, <1>4, <2>1, <2>2, CalmFacts, Zenon DEF Listed
  <2>4. NoTaskLeft(o)' = NoTaskLeft(o)
    BY <1>1, <1>3, Zenon DEF NoTaskLeft
  <2>5. mem'[o].front = "inited" => NoTaskLeft(o)'
    BY <1>1, <2>4, Zenon
  <2>6. ~FrontDone(o)'
    BY <1>1, <2>4, Zenon DEF FrontDone
  <2> QED BY <1>1, <1>2, <2>1, <2>2, <2>3, <2>5, <2>6, Zenon DEF Listed
<1>6. \A x \in Range(task_vec') : Listed(x)'
  <2> SUFFICES ASSUME NEW x \in Range(task_vec), x # o PROVE Listed(x)'
    BY <1>2, <1>5, Zenon
  <2>1. x \in Ops /\ Listed(x)
    BY OpFacts, Zenon DEF WInv
  <2>2. Kept(x)
    BY <1>1, <1>2, <2>1, Zenon DEF Kept
  <2> QED BY <1>1, <1>4, <2>1, <2>2, ListedFrame, Zenon
<1>7. \A x \in Ops : Noded(x)'
  BY <1>1, <1>2, <1>4, NodedFrame, Zenon DEF WInv
<1>8. InOrder'
  BY <1>1, <1>4, InOrderFrame, Zenon DEF WInv
<1>9. Once'
  <2>1. \A m \in net' : m \in net \/ m[2] = 0
    BY <1>2
  <2> QED BY <1>1, <1>2, <1>3, <1>4, <2>1, OnceFrame, Zenon DEF WInv
<1>10. Pooled'
  <2>1. ASSUME NEW q \in pool, IsFront(q)'
        PROVE  IsFront(q) /\ (mem'[q.op].front = mem[q.op].front \/ mem'[q.op].front = "canceled")
    <3>1. q.op \in Ops
      BY PoolFacts, Zenon
    <3>2. mem'[q.op].index = mem[q.op].index
      BY <1>1, <3>1, Zenon
    <3> QED BY <1>1, <1>2, <2>1, <3>1, <3>2, Zenon DEF IsFront, FrontTask
  <2> QED BY <1>1, <1>2, <1>3, <1>4, <2>1, PooledSame, Zenon DEF Calm
<1>11. Answers'
  BY <1>2, Zenon DEF WInv, Answers
<1>12. Reported'
  <2>1. SubList(done_op_list', done_op_list)
    BY <1>2, Zenon DEF SubList
  <2> QED BY <1>1, <1>2, <1>4, <2>1, ReportedFrame, Zenon DEF WInv
<1>13. Collected'
  <2>1. pt'.op <= op_index'
    BY <1>2, Zenon DEF WInv, Collected
  <2>2. ASSUME pt.pc \in {"tablet", "erase"}, pt.op \in Range(task_vec)
        PROVE  Finished(pt.op)' \/ (FrontDone(pt.op)' /\ FrontKind(pt.op)' = "normal")
    <3>1. PICK x \in Range(task_vec) : x = pt.op
      BY <2>2, Zenon
    <3>2. Finished(x) \/ (FrontDone(x) /\ FrontKind(x) = "normal")
      BY <2>2, <3>1, Zenon DEF WInv, Collected
    <3>3. CASE x = o
      BY <1>1, <1>2, <3>1, <3>3, Zenon DEF Finished
    <3>4. CASE x # o
      <4>1. mem'[x] = mem[x]
        BY <1>1, <3>4, OpFacts, Zenon
      <4> QED BY <1>2, <1>3, <3>1, <3>2, <4>1, Zenon DEF Finished, Failed, FrontDone, FrontKind, FrontTask,
                 NoTaskLeft
    <3> QED BY <3>3, <3>4, Zenon
  <2> QED BY <1>2, <2>1, <2>2, Zenon DEF Collected
<1>14. Decided'
  <2>1. \A x \in canceled' : x \in Range(task_vec) => mem'[x].status = "canceled"
    BY <1>1, <1>2, OpFacts, Zenon DEF WInv, Decided
  <2> QED BY <1>2, <2>1, Zenon DEF WInv, Decided, InDoneList
<1>15. Down'
  BY <1>2, Zenon DEF Down
<1> QED BY <1>1, <1>6, <1>7, <1>8, <1>9, <1>10, <1>11, <1>12, <1>13, <1>14, <1>15, Zenon DEF WInv
LEMMA WDeleteOP ==
    ASSUME TInv, WInv, NEW o \in Ops, DeleteOP(o)
    PROVE  TInv' /\ WInv'
<1>1. NoDouble(done_op_list) /\ \A j \in 1 .. Len(done_op_list) : ReportOf(done_op_list[j])
  BY ReportedFacts, Zenon DEF WInv
<1>2. /\ TInv' /\ ns = "running"
      /\ UNCHANGED <<load, ns, pt, pool, poll, op_index, parent, net, tablet, tablet_up, ran,
                     succeeded, begun, canceled>>
      /\ Range(task_vec') = Range(task_vec) \ {o} /\ deleted' = deleted \cup {o}
      /\ \A x \in Ops : x # o => mem'[x] = mem[x] /\ zk'[x] = zk[x]
      /\ zk'[o] = NoNode \/ (DoneAs(o, "done") /\ UNCHANGED zk)
      /\ SubList(done_op_list', done_op_list)
      /\ \A j \in 1 .. Len(done_op_list') : done_op_list'[j].op # o
  BY <1>1, StepDeleteOP, Zenon
<1>3. \A x : TasksOf(x)' = TasksOf(x)
  BY <1>2, Zenon DEF TasksOf, Plan, ChildPlan
<1>4. Seen' = Seen /\ Calm
  <2>1. Seen' = Seen
    BY <1>2, Zenon DEF Seen
  <2> QED BY <1>2, <1>3, <2>1, IdFacts, Zenon DEF Calm
<1>5. \A x \in Range(task_vec') : Listed(x)'
  <2> SUFFICES ASSUME NEW x \in Range(task_vec), x # o PROVE Listed(x)'
    BY <1>2, Zenon
  <2>1. x \in Ops /\ Listed(x)
    BY OpFacts, Zenon DEF WInv
  <2>2. Kept(x)
    BY <1>2, <2>1, Zenon DEF Kept
  <2> QED BY <1>2, <1>4, <2>1, <2>2, ListedFrame, Zenon
<1>6. \A x \in Ops : Noded(x)'
  <2>1. zk'[o] = NoNode \/ zk'[o] = zk[o]
    BY <1>2, Zenon
  <2> QED BY <1>2, <1>4, <2>1, NodedFrame, Zenon DEF WInv
<1>7. InOrder'
  BY <1>2, <1>4, InOrderFrame, Zenon DEF WInv
<1>8. Once'
  BY <1>2, <1>3, <1>4, OnceFrame, Zenon DEF WInv
<1>9. Pooled'
  <2>1. ASSUME NEW q \in pool, IsFront(q)'
        PROVE  IsFront(q) /\ mem'[q.op].front = mem[q.op].front
    <3>1. q.op \in Ops /\ q.op # o /\ q.op \in Range(task_vec)
      BY <1>2, <2>1, PoolFacts, Zenon DEF IsFront
    <3> QED BY <1>2, <2>1, <3>1, Zenon DEF IsFront, FrontTask
  <2> QED BY <1>2, <1>3, <1>4, <2>1, PooledSame, Zenon DEF Calm
<1>10. Answers'
  BY <1>2, Zenon DEF WInv, Answers
<1>11. zk[o].status = "none" => zk'[o].status = "none"
  <2>1. NoNode.status = "none"
    BY DEF NoNode
  <2> QED BY <1>2, <2>1, Zenon
<1>12. Reported'
  BY <1>2, <1>4, <1>11, ReportedFrame, Zenon DEF WInv
<1>13. Collected'
  <2>1. pt'.op <= op_index'
    BY <1>2, Zenon DEF WInv, Collected
  <2>2. ASSUME pt.pc \in {"tablet", "erase"}, pt.op \in Range(task_vec')
        PROVE  Finished(pt.op)' \/ (FrontDone(pt.op)' /\ FrontKind(pt.op)' = "normal")
    <3>1. PICK x \in Range(task_vec) : x = pt.op /\ x # o
      BY <1>2, <2>2, Zenon
    <3>2. Finished(x) \/ (FrontDone(x) /\ FrontKind(x) = "normal")
      BY <2>2, <3>1, Zenon DEF WInv, Collected
    <3>3. mem'[x] = mem[x]
      BY <1>2, <3>1, OpFacts, Zenon
    <3> QED BY <1>2, <1>3, <3>1, <3>2, <3>3, Zenon DEF Finished, Failed, FrontDone, FrontKind, FrontTask,
               NoTaskLeft
  <2> QED BY <1>2, <2>1, <2>2, Zenon DEF Collected
<1>14. Decided'
  <2>1. \A x \in canceled : x \in Range(task_vec') => mem'[x].status = "canceled"
    BY <1>2, OpFacts, Zenon DEF WInv, Decided
  <2>2. DOMAIN done_op_list' = 1 .. Len(done_op_list') /\ DOMAIN done_op_list = 1 .. Len(done_op_list)
    BY <1>2, SetOf, Zenon DEF TInv, DoneType
  <2>3. ~InDoneList(o)'
    BY <1>2, <2>2, Zenon DEF InDoneList
  <2>4. zk'[o].status = "none"
    <3>1. CASE zk'[o] = NoNode
      BY <3>1, NodeGone, Zenon
    <3>2. CASE DoneAs(o, "done") /\ UNCHANGED zk
      <4>1. PICK j \in 1 .. Len(done_op_list) : done_op_list[j] = [op |-> o, status |-> "done"]
        BY <2>2, <3>2, Zenon DEF DoneAs
      <4>2. done_op_list[j].op = o /\ done_op_list[j].status = "done"
        BY ONLY <4>1
      <4>3. ReportOf(done_op_list[j])
        BY <1>1, Zenon
      <4> QED BY <3>2, <4>2, <4>3, Zenon DEF ReportOf
    <3> QED BY <1>2, <3>1, <3>2, Zenon
  <2>5. ASSUME NEW x \in deleted, x # o
        PROVE  x \notin Range(task_vec') /\ ~InDoneList(x)' /\ zk'[x].status = "none"
    <3>1. x \in Ops /\ x \notin Range(task_vec) /\ ~InDoneList(x) /\ zk[x].status = "none"
      BY <2>5, Zenon DEF WInv, Decided, TInv, HistType
    <3>2. \A j \in 1 .. Len(done_op_list) : done_op_list[j].op # x
      BY <2>2, <3>1, Zenon DEF InDoneList
    <3>3. ASSUME NEW j \in 1 .. Len(done_op_list') PROVE done_op_list'[j].op # x
      <4>1. PICK a \in 1 .. Len(done_op_list) : done_op_list'[j] = done_op_list[a]
        BY <1>2, Zenon DEF SubList
      <4> QED BY <3>2, <4>1, Zenon
    <3> QED BY <1>2, <2>2, <2>5, <3>1, <3>3, ZenonT(60) DEF InDoneList
  <2> QED BY <1>2, <2>1, <2>3, <2>4, <2>5, Zenon DEF Decided
<1>15. Down'
  BY <1>2, Zenon DEF Down
<1> QED BY <1>2, <1>5, <1>6, <1>7, <1>8, <1>9, <1>10, <1>12, <1>13, <1>14, <1>15, Zenon DEF WInv

\* What ends is canceled, or all of it has succeeded.
LEMMA EndFacts ==
    ASSUME TInv, WInv, pt.pc = "erase", NEW o \in Range(task_vec), o = pt.op, ~EndsFailed(o)
    PROVE  /\ FinalStatus(o) \in {"done", "canceled"}
           /\ FinalStatus(o) = "done" => UpTo(o, Len(TasksOf(o))) /\ o \notin canceled
<1>1. o \in Ops /\ Listed(o) /\ (Finished(o) \/ (FrontDone(o) /\ FrontKind(o) = "normal"))
  BY OpFacts, Zenon DEF WInv, Collected
<1>2. /\ Len(TasksOf(o)) \in Nat \ {0} /\ NormalIsLast(TasksOf(o))
      /\ DOMAIN TasksOf(o) = 1 .. Len(TasksOf(o)) /\ mem[o].index \in 0 .. Len(TasksOf(o))
  BY <1>1, OpFacts, MemFacts, Zenon
<1>3. CASE mem[o].status = "canceled"
  BY <1>3, Zenon DEF FinalStatus
<1>4. CASE mem[o].status # "canceled"
  <2>1. NoTaskLeft(o) \/ (FrontDone(o) /\ FrontKind(o) = "normal")
    BY <1>1, <1>4, Zenon DEF Finished, EndsFailed
  <2>2. mem[o].status = "doing"
    BY <1>1, <1>2, <1>4, <2>1, Zenon DEF Listed, NoTaskLeft, FrontDone
  <2>3. FinalStatus(o) = "done"
    BY <2>2, Zenon DEF FinalStatus
  <2>4. o \notin canceled
    BY <2>2, Zenon DEF WInv, Decided
  <2>5. CASE NoTaskLeft(o)
    BY <1>1, <2>3, <2>4, <2>5, Zenon DEF Listed, NoTaskLeft
  <2>6. CASE FrontDone(o) /\ FrontKind(o) = "normal"
    <3>1. PICK i \in Nat : i = mem[o].index
      BY <1>2, Numbers, Zenon
    <3>2. i + 1 \in DOMAIN TasksOf(o)
      BY <1>1, <1>2, <2>6, <3>1, FrontFacts, Zenon DEF FrontDone, FrontTask
    <3>3. i + 1 = Len(TasksOf(o))
      BY <1>2, <2>6, <3>1, <3>2, Zenon DEF NormalIsLast, FrontKind, FrontTask
    <3>4. UpTo(o, i) /\ Good(o, i + 1)
      BY <1>1, <2>6, <3>1, Zenon DEF Listed
    <3>5. UpTo(o, i + 1)
      BY <3>4 DEF UpTo
    <3> QED BY <2>3, <2>4, <3>3, <3>5, Zenon
  <2> QED BY <2>1, <2>5, <2>6, Zenon
<1> QED BY <1>3, <1>4, Zenon

LEMMA WDeleteTask ==
    ASSUME TInv, WInv, DeleteTask
    PROVE  TInv' /\ WInv'
<1>1. pt.pc = "erase"
  BY Zenon DEF DeleteTask
<1>2. pt.op \in Range(task_vec) /\ ~EndsFailed(pt.op) =>
         FinalStatus(pt.op) \in {"done", "failed", "canceled"}
  BY <1>1, EndFacts, Zenon
<1>3. /\ TInv' /\ ns = "running" /\ pt' = [pc |-> "run", op |-> 0]
      /\ UNCHANGED <<load, ns, pool, poll, op_index, parent, net, tablet, tablet_up, ran,
                     succeeded, begun, canceled, deleted>>
      /\ \/ UNCHANGED <<task_vec, mem, zk, done_op_list>>
         \/ \E s \in {"done", "failed", "canceled"} : Ended(pt.op, s)
  BY <1>2, StepDeleteTask, Zenon
<1>4. Answers' /\ Collected' /\ Down'
  <2>1. pt'.op = 0 /\ pt'.pc = "run"
    BY <1>3, Zenon
  <2>2. pt'.op <= op_index' /\ pt'.pc \notin {"tablet", "erase"}
    BY <1>3, <2>1, OpFacts, Numbers, Zenon
  <2> QED BY <1>3, <2>1, <2>2, Zenon DEF WInv, Answers, Collected, Down
<1>5. CASE UNCHANGED <<task_vec, mem, zk, done_op_list>>
  <2>1. Steady
    BY <1>3, <1>5, Zenon DEF Steady
  <2> QED BY <1>3, <1>4, <1>5, <2>1, QuietStep, Zenon
<1>6. ASSUME NEW s \in {"done", "failed", "canceled"}, NEW o, o = pt.op, Ended(o, s)
      PROVE  WInv'
  <2>1. /\ o \in Ops /\ o \in Range(task_vec)
        /\ s = IF EndsFailed(o) THEN "failed" ELSE FinalStatus(o)
        /\ done_op_list' = Append(done_op_list, [op |-> o, status |-> s])
        /\ Range(task_vec') = Range(task_vec) \ {o}
        /\ \A x \in Ops : x # o => mem'[x] = mem[x] /\ zk'[x] = zk[x]
        /\ \/ EndsFailed(o) /\ zk'[o].status = "failed" /\ zk'[o].index = mem[o].index
           \/ EndsFailed(o) /\ zk'[o] = zk[o]
           \/ zk'[o] = NoNode
    BY <1>6, Zenon DEF Ended
  <2>2. \A x : TasksOf(x)' = TasksOf(x)
    BY <1>3, Zenon DEF TasksOf, Plan, ChildPlan
  <2>3. Seen' = Seen /\ Calm
    <3>1. Seen' = Seen
      BY <1>3, Zenon DEF Seen
    <3> QED BY <1>3, <2>2, <3>1, IdFacts, Zenon DEF Calm
  <2>4. \A x \in Range(task_vec') : Listed(x)'
    <3> SUFFICES ASSUME NEW x \in Range(task_vec), x # o PROVE Listed(x)'
      BY <2>1, Zenon
    <3>1. x \in Ops /\ Listed(x)
      BY OpFacts, Zenon DEF WInv
    <3>2. Kept(x)
      BY <2>1, <3>1, Zenon DEF Kept
    <3> QED BY <1>3, <2>3, <3>1, <3>2, ListedFrame, Zenon
  <2>5. Noded(o)'
    <3>1. CASE zk'[o] = NoNode \/ zk'[o] = zk[o]
      BY <1>3, <2>1, <2>3, <3>1, NodedFrame, Zenon DEF WInv
    <3>2. CASE zk'[o].status = "failed" /\ zk'[o].index = mem[o].index
      <4>1. Listed(o) /\ o <= op_index
        BY <2>1, OpFacts, Zenon DEF WInv
      <4>2. PICK i : i = mem[o].index
        BY Zenon
      <4>3. UpTo(o, i)' /\ FreshFrom(o, i + 2)'
        BY <2>1, <2>3, <4>1, <4>2, CalmFacts, Zenon DEF Listed
      <4> QED BY <3>2, <4>2, <4>3, Zenon DEF Noded
    <3> QED BY <2>1, <3>1, <3>2, Zenon
  <2>6. \A x \in Ops : Noded(x)'
    BY <1>3, <2>1, <2>3, <2>5, NodedFrame, Zenon DEF WInv
  <2>7. InOrder'
    BY <1>3, <2>3, InOrderFrame, Zenon DEF WInv
  <2>8. Once'
    BY <1>3, <2>2, <2>3, OnceFrame, Zenon DEF WInv
  <2>9. Pooled'
    <3>1. ASSUME NEW q \in pool, IsFront(q)'
          PROVE  IsFront(q) /\ mem'[q.op].front = mem[q.op].front
      <4>1. q.op \in Ops /\ q.op # o /\ q.op \in Range(task_vec)
        BY <2>1, <3>1, PoolFacts, Zenon DEF IsFront
      <4> QED BY <2>1, <3>1, <4>1, Zenon DEF IsFront, FrontTask
    <3> QED BY <1>3, <2>2, <2>3, <3>1, PooledSame, Zenon DEF Calm
  <2>10. /\ done_op_list \in Seq(Done) /\ done_op_list' \in Seq(Done)
         /\ DOMAIN done_op_list' = 1 .. Len(done_op_list')
         /\ DOMAIN done_op_list = 1 .. Len(done_op_list) /\ Len(done_op_list) \in Nat
         /\ Len(done_op_list') = Len(done_op_list) + 1
         /\ \A j \in 1 .. Len(done_op_list') :
               done_op_list'[j] = IF j <= Len(done_op_list) THEN done_op_list[j]
                                  ELSE [op |-> o, status |-> s]
    <3>1. done_op_list \in Seq(Done) /\ [op |-> o, status |-> s] \in Done
      BY <2>1, Zenon DEF TInv, DoneType, Done
    <3>2. /\ done_op_list' \in Seq(Done) /\ Len(done_op_list') = Len(done_op_list) + 1
          /\ \A j \in 1 .. Len(done_op_list') :
               done_op_list'[j] = IF j <= Len(done_op_list) THEN done_op_list[j]
                                  ELSE [op |-> o, status |-> s]
      <4> DEFINE e == [op |-> o, status |-> s]
                 q == done_op_list'
      <4>1. q = Append(done_op_list, e) /\ done_op_list \in Seq(Done) /\ e \in Done
        BY <2>1, <3>1, Zenon
      <4> HIDE DEF e, q
      <4>2. /\ q \in Seq(Done) /\ Len(q) = Len(done_op_list) + 1
            /\ \A j \in 1 .. Len(q) : q[j] = IF j <= Len(done_op_list) THEN done_op_list[j] ELSE e
        BY ONLY <4>1, AppendFact
      <4> QED BY <4>2, Zenon DEF e, q
    <3> QED BY <3>1, <3>2, SetOf, Zenon
  <2>11. PICK d \in Done : d = [op |-> o, status |-> s] /\ d.op = o /\ d.status = s
    <3>1. [op |-> o, status |-> s] \in Done
      BY <2>1, Zenon DEF Done
    <3>2. \A r : r = [op |-> o, status |-> s] => r.op = o /\ r.status = s
      OBVIOUS
    <3> QED BY <3>1, <3>2, Zenon
  <2>12. ASSUME NEW j \in 1 .. Len(done_op_list')
         PROVE  \/ j \in 1 .. Len(done_op_list) /\ done_op_list'[j] = done_op_list[j]
                \/ j = Len(done_op_list) + 1 /\ done_op_list'[j] = d
    <3>1. PICK n \in Nat : n = Len(done_op_list)
      BY <2>10, Zenon
    <3>2. j \in 1 .. n + 1 /\ (done_op_list'[j] = IF j <= n THEN done_op_list[j] ELSE d)
      BY <2>10, <2>11, <3>1, Zenon
    <3>3. (j \in 1 .. n /\ j <= n) \/ (j = n + 1 /\ ~(j <= n))
      BY <3>2
    <3> QED BY <3>1, <3>2, <3>3, Zenon
  <2>13. NoDouble(done_op_list) /\ \A j \in 1 .. Len(done_op_list) : ReportOf(done_op_list[j])
    BY ReportedFacts, Zenon DEF WInv
  <2>14. \A j \in 1 .. Len(done_op_list) : done_op_list[j].op # o
    BY <2>1, <2>13, Zenon DEF ReportOf
  <2>15. NoDouble(done_op_list')
    BY <2>10, <2>11, <2>12, <2>13, <2>14 DEF NoDouble
  <2>16. ReportOf(d)'
    <3>1. o \notin Range(task_vec')
      BY <2>1, Zenon
    <3>2. ASSUME s = "done"
          PROVE  UpTo(o, Len(TasksOf(o)))' /\ zk'[o].status = "none" /\ o \notin canceled'
      <4>1. ~EndsFailed(o) /\ FinalStatus(o) = "done"
        BY <2>1, <3>2, Zenon
      <4>2. UpTo(o, Len(TasksOf(o))) /\ o \notin canceled
        BY <1>1, <1>6, <2>1, <4>1, EndFacts, Zenon
      <4>3. PICK n : n = Len(TasksOf(o))
        BY Zenon
      <4>4. UpTo(o, n)'
        BY <2>1, <2>3, <4>2, <4>3, CalmFacts, OpFacts, Zenon
      <4>5. NoNode.status = "none"
        BY DEF NoNode
      <4>6. zk'[o].status = "none"
        BY <2>1, <4>1, <4>5, Zenon
      <4> QED BY <1>3, <2>2, <4>2, <4>3, <4>4, <4>6, Zenon
    <3> QED BY <2>11, <3>1, <3>2, Zenon DEF ReportOf
  <2>17. ASSUME NEW j \in 1 .. Len(done_op_list') PROVE ReportOf(done_op_list[j])'
    <3>1. CASE done_op_list'[j] = d
      BY <2>16, <3>1, Zenon DEF ReportOf
    <3>2. CASE j \in 1 .. Len(done_op_list) /\ done_op_list'[j] = done_op_list[j]
      <4>1. PICK e \in Done : e = done_op_list[j]
        BY <2>10, <3>2, SMTT(30)
      <4>2. ReportOf(e) /\ e.op # o /\ e.op \in Ops /\ InDoneList(e.op)
        BY <2>10, <2>13, <2>14, <3>2, <4>1, Zenon DEF InDoneList, Done
      <4>3. ReportOf(e)'
        <5>1. zk'[e.op] = zk[e.op] /\ Range(task_vec') \subseteq Range(task_vec)
          BY <2>1, <4>2, Zenon
        <5> QED BY <1>3, <2>3, <4>2, <5>1, ReportFrame, Zenon
      <4> QED BY <3>2, <4>1, <4>3, Zenon DEF ReportOf
    <3> QED BY <2>12, <3>1, <3>2, Zenon
  <2>18. Reported'
    BY <2>10, <2>15, <2>17, Zenon DEF Reported, NoDouble, ReportOf
  <2>19. Decided'
    <3>1. \A x \in canceled : x \in Range(task_vec') => mem'[x].status = "canceled"
      BY <2>1, OpFacts, Zenon DEF WInv, Decided
    <3>2. ASSUME NEW x \in deleted
          PROVE  x \notin Range(task_vec') /\ ~InDoneList(x)' /\ zk'[x].status = "none"
      <4>1. x \in Ops /\ x \notin Range(task_vec) /\ ~InDoneList(x) /\ zk[x].status = "none"
        BY <3>2, Zenon DEF WInv, Decided, TInv, HistType
      <4>2. x # o
        BY <2>1, <4>1, Zenon
      <4>3. \A j \in 1 .. Len(done_op_list) : done_op_list[j].op # x
        BY <2>10, <4>1, Zenon DEF InDoneList
      <4>4. \A j \in 1 .. Len(done_op_list') : done_op_list'[j].op # x
        BY <2>11, <2>12, <4>2, <4>3, Zenon
      <4> QED BY <2>1, <2>10, <4>1, <4>2, <4>4, Zenon DEF InDoneList
    <3> QED BY <1>3, <3>1, <3>2, Zenon DEF Decided
  <2> QED BY <1>4, <2>4, <2>6, <2>7, <2>8, <2>9, <2>18, <2>19, Zenon DEF WInv
<1> QED BY <1>3, <1>5, <1>6, Zenon
=============================================================================
