--------------------------- MODULE FailoverProofs ---------------------------
(***************************************************************************)
(* Two tablets never lead in the same term and table_info never names two  *)
(* leaders that are alive, for any number of tablets, faults, operations   *)
(* and terms.  An election takes its terms from the term node in ZooKeeper *)
(* before it asks anybody, so what it hands out is above the term of every *)
(* leader there is and of every request that is still handled; and an      *)
(* operation gets to ChangeLeader only through the SelectLeader before it. *)
(***************************************************************************)
EXTENDS Failover, TLAPS

\* A step that names no prover has a minute for each.
USE SMTT(60), ZenonT(60)

\* Records of the shape that tab and data hold.
IsTab(r) ==
    /\ r = [table |-> r.table, leader |-> r.leader, term |-> r.term, log |-> r.log,
            paused |-> r.paused]
    /\ r.term \in Nat
IsData(d) == d = [pc |-> d.pc, left |-> d.left, best |-> d.best, term |-> d.term,
                  offset |-> d.offset, has_table |-> d.has_table, leader |-> d.leader]

TabShape == tab = [t \in Tablets |-> tab[t]] /\ \A t \in Tablets : IsTab(tab[t])

\* A handler was let through: its term was not older than the one it read.
CallShape ==
    \A c \in calls : c.to \in Tablets /\ c.term \in Nat /\ c.seen \in Nat /\ c.seen <= c.term

Shapes == TabShape /\ CallShape /\ IsData(data) /\ term_ \in Nat

\* An operation is an election, as far as it is left, or has none of the tasks
\* of an election and no followers to ask.
Select == Do("SelectLeader", None, None, FALSE)
Change == Do("ChangeLeader", None, None, FALSE)
Update == Do("UpdateLeaderInfo", None, None, FALSE)
PlainTask == {x \in Task : /\ x.do \notin {"SelectLeader", "ChangeLeader", "UpdateLeaderInfo"}
                           /\ x.do = "SendSnapshot" => x.at \in Tablets}

IsPlain(o) ==
    /\ o = [tasks |-> o.tasks, followers |-> {}]
    /\ o.tasks \in Seq(PlainTask) /\ o.tasks # <<>>
IsElection(o, tasks) ==
    o = [tasks |-> tasks, followers |-> o.followers] /\ o.followers \subseteq Tablets

OpType == [tasks : Seq(Task) \ {<<>>}, followers : SUBSET Tablets]
GoodOps == {o \in OpType : \/ IsPlain(o)
                           \/ IsElection(o, <<Select, Change, Update>>)
                           \/ IsElection(o, <<Change, Update>>)
                           \/ IsElection(o, <<Update>>)}

\* An operation that has not started.
NewOps == {o \in GoodOps : IsPlain(o) \/ IsElection(o, <<Select, Change, Update>>)}

OpsShape == ops = <<>> \/ (ops \in Seq(GoodOps) /\ Tail(ops) \in Seq(NewOps))

\* Every leader's term is below the given one.
LeadersBelow(term) ==
    \A t \in Tablets : tab[t].leader => tab[t].term \in Nat /\ tab[t].term < term

\* So is the term of every request that is handled, or it is the question of
\* SelectLeader itself.
CallsBelow(term) == \A c \in calls : c.term < term
AskCalls(term) ==
    \A c \in calls : c.term < term \/ (c.term = term /\ c.index = 0 /\ ~tab[c.to].leader)

\* A handler that is left over on a leader has read an older term.
LateOnLeaders ==
    \A c \in calls : tab[c.to].leader /\ c.to \notin raced => tab[c.to].term # c.seen

EInv ==
    /\ Shapes
    /\ OpsShape
    /\ LeadersBelow(term_ + 1) /\ CallsBelow(term_ + 1)
    /\ data.pc = "ask" =>
          /\ data.term + 1 = term_ /\ data.term \in Nat
          /\ LeadersBelow(data.term) /\ AskCalls(data.term)
    /\ Running("ChangeLeader") =>
          /\ data.pc = "start" /\ data.term = term_
          /\ LeadersBelow(term_) /\ CallsBelow(term_)
    /\ LateOnLeaders
    /\ OneLeaderPerTerm

-----------------------------------------------------------------------------
(* Sequences.                                                              *)

LEMMA EmptySeq ==
    ASSUME NEW S
    PROVE  /\ <<>> \in Seq(S) /\ Len(<<>>) = 0
           /\ \A s \in Seq(S) : s # <<>> => Len(s) \in Nat \ {0}
OBVIOUS

LEMMA SeqEqual ==
    ASSUME NEW S, NEW s \in Seq(S), NEW t \in Seq(S), Len(s) = Len(t),
           \A i \in 1 .. Len(s) : s[i] = t[i]
    PROVE  s = t
OBVIOUS

LEMMA HeadTailProperties ==
    ASSUME NEW S, NEW s \in Seq(S), s # <<>>
    PROVE  /\ Head(s) \in S /\ Tail(s) \in Seq(S) /\ Len(Tail(s)) = Len(s) - 1
           /\ \A i \in 1 .. Len(Tail(s)) : Tail(s)[i] = s[i + 1]
OBVIOUS

LEMMA ConcatProperties ==
    ASSUME NEW S, NEW s \in Seq(S), NEW t \in Seq(S)
    PROVE  /\ s \o t \in Seq(S) /\ Len(s \o t) = Len(s) + Len(t)
           /\ \A i \in 1 .. Len(s) + Len(t) :
                 (s \o t)[i] = IF i <= Len(s) THEN s[i] ELSE t[i - Len(s)]
OBVIOUS

LEMMA ConcatEmptySeq ==
    ASSUME NEW S, NEW s \in Seq(S)
    PROVE  s \o <<>> = s /\ <<>> \o s = s
OBVIOUS

LEMMA ConcatNotEmpty ==
    ASSUME NEW S, NEW s \in Seq(S), NEW t \in Seq(S), t # <<>>
    PROVE  s \o t # <<>>
OBVIOUS

LEMMA ConcatAssociative ==
    ASSUME NEW S, NEW s \in Seq(S), NEW t \in Seq(S), NEW u \in Seq(S)
    PROVE  (s \o t) \o u = s \o (t \o u)
OBVIOUS

-----------------------------------------------------------------------------
(* Operations.                                                             *)

LEMMA HeadTailConcat ==
    ASSUME NEW S, NEW s \in Seq(S), NEW t \in Seq(S), s # <<>>
    PROVE  /\ s \o t \in Seq(S) /\ s \o t # <<>>
           /\ Head(s \o t) = Head(s)
           /\ Tail(s \o t) = Tail(s) \o t
<1>1. /\ s \o t \in Seq(S)
      /\ Len(s) \in Nat /\ Len(t) \in Nat /\ Len(s) > 0
      /\ Len(s \o t) = Len(s) + Len(t)
      /\ \A i \in 1 .. Len(s) + Len(t) :
            (s \o t)[i] = IF i <= Len(s) THEN s[i] ELSE t[i - Len(s)]
  BY ConcatProperties
<1>2. s \o t # <<>> /\ Head(s \o t) = Head(s)
  BY <1>1
<1>3. /\ Tail(s \o t) \in Seq(S) /\ Len(Tail(s \o t)) = Len(s) + Len(t) - 1
      /\ \A i \in 1 .. Len(s) + Len(t) - 1 : Tail(s \o t)[i] = (s \o t)[i + 1]
  BY <1>1, <1>2, HeadTailProperties
<1>4. /\ Tail(s) \in Seq(S) /\ Len(Tail(s)) = Len(s) - 1
      /\ \A i \in 1 .. Len(s) - 1 : Tail(s)[i] = s[i + 1]
  BY HeadTailProperties
<1>5. /\ Tail(s) \o t \in Seq(S) /\ Len(Tail(s) \o t) = Len(s) - 1 + Len(t)
      /\ \A i \in 1 .. Len(s) - 1 + Len(t) :
            (Tail(s) \o t)[i] = IF i <= Len(s) - 1 THEN Tail(s)[i] ELSE t[i - (Len(s) - 1)]
  BY <1>4, ConcatProperties
<1>6. ASSUME NEW i \in 1 .. Len(s) + Len(t) - 1
      PROVE  Tail(s \o t)[i] = (Tail(s) \o t)[i]
  <2>1. i + 1 \in 1 .. Len(s) + Len(t) /\ i - (Len(s) - 1) = (i + 1) - Len(s)
    BY <1>1
  <2>2. CASE i <= Len(s) - 1
    BY <1>1, <1>3, <1>4, <1>5, <2>1, <2>2
  <2>3. CASE ~(i <= Len(s) - 1)
    BY <1>1, <1>3, <1>5, <2>1, <2>3
  <2> QED BY <2>2, <2>3
<1>7. Tail(s \o t) = Tail(s) \o t
  BY <1>1, <1>3, <1>5, <1>6, SeqEqual
<1> QED BY <1>1, <1>2, <1>7

LEMMA ElectionTasks ==
    /\ Select \in Task /\ Change \in Task /\ Update \in Task
    /\ Select.do = "SelectLeader" /\ Change.do = "ChangeLeader" /\ Update.do = "UpdateLeaderInfo"
BY DEF Select, Change, Update, Do, Task

\* The first task of an operation, by the kind of the operation.
LEMMA FirstTask ==
    ASSUME NEW o
    PROVE  /\ IsPlain(o) => /\ Head(o.tasks) \in PlainTask /\ o.followers = {}
                            /\ Head(o.tasks).do \notin
                                  {"SelectLeader", "ChangeLeader", "UpdateLeaderInfo"}
           /\ IsElection(o, <<Select, Change, Update>>) => Head(o.tasks).do = "SelectLeader"
           /\ IsElection(o, <<Change, Update>>) => Head(o.tasks).do = "ChangeLeader"
           /\ IsElection(o, <<Update>>) => Head(o.tasks).do = "UpdateLeaderInfo"
<1>1. /\ Head(<<Select, Change, Update>>) = Select
      /\ Head(<<Change, Update>>) = Change
      /\ Head(<<Update>>) = Update
  OBVIOUS
<1>2. ASSUME IsPlain(o)
      PROVE  Head(o.tasks) \in PlainTask /\ o.followers = {}
  <2>1. o.tasks \in Seq(PlainTask) /\ o.tasks # <<>>
    BY <1>2 DEF IsPlain
  <2>2. o.followers = {}
    BY <1>2 DEF IsPlain
  <2> QED BY <2>1, <2>2, HeadTailProperties
<1>3. ASSUME NEW x \in PlainTask
      PROVE  x.do \notin {"SelectLeader", "ChangeLeader", "UpdateLeaderInfo"}
  BY DEF PlainTask
<1>4. \A tasks : IsElection(o, tasks) => o.tasks = tasks
  BY DEF IsElection
<1>5. /\ IsElection(o, <<Select, Change, Update>>) => Head(o.tasks) = Select
      /\ IsElection(o, <<Change, Update>>) => Head(o.tasks) = Change
      /\ IsElection(o, <<Update>>) => Head(o.tasks) = Update
  BY <1>1, <1>4, Zenon
<1> QED BY <1>2, <1>3, <1>5, ElectionTasks, Zenon

\* Operations that have not started.
LEMMA NewOpsFact ==
    ASSUME NEW q \in Seq(NewOps), ops' = q
    PROVE  OpsShape' /\ ~Running("ChangeLeader")'
<1>1. NewOps \subseteq GoodOps
  BY DEF NewOps
<1>2. CASE q = <<>>
  BY <1>2 DEF OpsShape, Running
<1>3. CASE q # <<>>
  <2>1. Head(q) \in NewOps /\ Tail(q) \in Seq(NewOps)
    BY <1>3
  <2>2. q \in Seq(GoodOps)
    BY <1>1
  <2>3. Head(Head(q).tasks).do # "ChangeLeader"
    BY <2>1, FirstTask DEF NewOps
  <2> QED BY <1>3, <2>1, <2>2, <2>3 DEF OpsShape, Running
<1> QED BY <1>2, <1>3

LEMMA FailedFact ==
    ASSUME OpsShape, ops # <<>>, Failed
    PROVE  OpsShape' /\ ~Running("ChangeLeader")' /\ data' = NoData
<1>1. Tail(ops) \in Seq(NewOps) /\ ops' = Tail(ops) /\ data' = NoData
  BY DEF OpsShape, Failed
<1> QED BY <1>1, NewOpsFact

\* A new operation goes to the end.
LEMMA AddFact ==
    ASSUME OpsShape, NEW new \in Seq(NewOps), AddOPData(new)
    PROVE  OpsShape' /\ (Running("ChangeLeader")' => Running("ChangeLeader"))
<1>1. ops' = ops \o new
  BY DEF AddOPData
<1>2. CASE ops = <<>>
  <2>1. ops' = new
    BY <1>1, <1>2
  <2> QED BY <2>1, NewOpsFact
<1>3. CASE ops # <<>>
  <2>1. ops \in Seq(GoodOps) /\ Tail(ops) \in Seq(NewOps)
    BY <1>3 DEF OpsShape
  <2>2. new \in Seq(GoodOps)
    BY DEF NewOps
  <2>3. /\ ops' \in Seq(GoodOps) /\ ops' # <<>>
        /\ Head(ops') = Head(ops) /\ Tail(ops') = Tail(ops) \o new
    <3>1. /\ ops \o new \in Seq(GoodOps) /\ ops \o new # <<>>
          /\ Head(ops \o new) = Head(ops) /\ Tail(ops \o new) = Tail(ops) \o new
      BY <1>3, <2>1, <2>2, HeadTailConcat
    <3> QED BY <1>1, <3>1, Zenon
  <2>4. Tail(ops') \in Seq(NewOps)
    <3>1. Tail(ops) \o new \in Seq(NewOps)
      BY <2>1, ConcatProperties
    <3> QED BY <2>3, <3>1, Zenon
  <2> QED BY <1>3, <2>3, <2>4 DEF OpsShape, Running
<1> QED BY <1>2, <1>3

\* What is left of an operation after its first task.
LEMMA TailTasks ==
    ASSUME NEW o \in GoodOps, Len(o.tasks) # 1, NEW r, r = [o EXCEPT !.tasks = Tail(@)]
    PROVE  /\ r \in GoodOps /\ r.followers = o.followers
           /\ Head(r.tasks).do = "ChangeLeader" => Head(o.tasks).do = "SelectLeader"
           /\ Head(r.tasks).do = "UpdateLeaderInfo" => Head(o.tasks).do = "ChangeLeader"
           /\ Head(r.tasks).do # "SelectLeader"
<1>1. o \in OpType
  BY DEF GoodOps
<1>2. PICK tasks, followers : o = [tasks |-> tasks, followers |-> followers]
                              /\ tasks \in Seq(Task) /\ tasks # <<>> /\ followers \in SUBSET Tablets
  BY <1>1 DEF OpType
<1>3. r = [tasks |-> Tail(tasks), followers |-> followers]
  <2> DEFINE x == Tail(tasks)
  <2>1. r = [o EXCEPT !.tasks = x]
    BY <1>2
  <2> HIDE DEF x
  <2>2. r = [tasks |-> x, followers |-> followers]
    BY <1>2, <2>1, Zenon
  <2> QED BY <2>2, Zenon DEF x
<1>4. o.tasks = tasks /\ o.followers = followers /\ r.followers = followers /\ r.tasks = Tail(tasks)
  BY <1>2, <1>3
<1>5. CASE IsPlain(o)
  <2>1. tasks \in Seq(PlainTask) /\ tasks # <<>> /\ Len(tasks) # 1 /\ followers = {}
    BY <1>4, <1>5, FirstTask DEF IsPlain
  <2>2. Tail(tasks) \in Seq(PlainTask) /\ Len(Tail(tasks)) = Len(tasks) - 1 /\ Len(tasks) \in Nat
    BY <2>1, HeadTailProperties
  <2>3. Len(Tail(tasks)) # 0
    BY <2>1, <2>2
  <2>4. Tail(tasks) # <<>>
    BY <2>3, EmptySeq, Zenon
  <2>5. Tail(tasks) \in Seq(Task)
    BY <2>2 DEF PlainTask
  <2>6. r \in OpType
    BY <1>2, <1>3, <2>4, <2>5, Zenon DEF OpType
  <2>7. IsPlain(r)
    BY <1>3, <1>4, <2>1, <2>2, <2>4, Zenon DEF IsPlain
  <2> QED BY <1>4, <2>6, <2>7, FirstTask, Zenon DEF GoodOps
<1>6. /\ Tail(<<Select, Change, Update>>) = <<Change, Update>>
      /\ Tail(<<Change, Update>>) = <<Update>>
      /\ Len(<<Update>>) = 1
  OBVIOUS
<1>7. /\ <<Change, Update>> \in Seq(Task) \ {<<>>}
      /\ <<Update>> \in Seq(Task) \ {<<>>}
  BY ElectionTasks
<1>8. CASE IsElection(o, <<Select, Change, Update>>)
  <2>1. r.tasks = <<Change, Update>>
    <3>1. o.tasks = <<Select, Change, Update>>
      BY <1>8 DEF IsElection
    <3> QED BY <1>4, <1>6, <3>1, Zenon
  <2>2. r \in OpType /\ IsElection(r, <<Change, Update>>)
    BY <1>2, <1>3, <1>4, <1>7, <2>1, Zenon DEF OpType, IsElection
  <2> QED BY <1>4, <1>8, <2>2, FirstTask, Zenon DEF GoodOps
<1>9. CASE IsElection(o, <<Change, Update>>)
  <2>1. r.tasks = <<Update>>
    <3>1. o.tasks = <<Change, Update>>
      BY <1>9 DEF IsElection
    <3> QED BY <1>4, <1>6, <3>1, Zenon
  <2>2. r \in OpType /\ IsElection(r, <<Update>>)
    BY <1>2, <1>3, <1>4, <1>7, <2>1, Zenon DEF OpType, IsElection
  <2> QED BY <1>4, <1>9, <2>2, FirstTask, Zenon DEF GoodOps
<1>10. ~IsElection(o, <<Update>>)
  BY <1>4, <1>6 DEF IsElection
<1> QED BY <1>5, <1>8, <1>9, <1>10, Zenon DEF GoodOps

LEMMA DoneFact ==
    ASSUME OpsShape, ops # <<>>, NEW d, NEW children \in Seq(NewOps), Done(d, children)
    PROVE  /\ OpsShape'
           /\ Running("ChangeLeader")' => Running("SelectLeader") /\ data' = d
           /\ data' \in {NoData, d}
<1>1. ops' = Rest(children) /\ data' \in {NoData, d} /\ (~LastTask => data' = d)
  BY DEF Done
<1>2. Head(ops) \in GoodOps /\ Tail(ops) \in Seq(NewOps)
  BY DEF OpsShape
<1> DEFINE q == children \o Tail(ops)
<1>3. q \in Seq(NewOps)
  BY <1>2
<1>4. CASE LastTask
  <2>1. ops' = q
    BY <1>1, <1>2, <1>4 DEF Rest
  <2> QED BY <1>1, <1>3, <2>1, NewOpsFact, Zenon
<1>5. CASE ~LastTask
  <2> DEFINE o == [Head(ops) EXCEPT !.tasks = Tail(@)]
  <2>1. /\ o \in GoodOps
        /\ Head(o.tasks).do = "ChangeLeader" => Head(Head(ops).tasks).do = "SelectLeader"
    BY <1>2, <1>5, TailTasks, Zenon DEF LastTask
  <2>2. NewOps \subseteq GoodOps
    BY DEF NewOps
  <2>3. ops' = (<<o>> \o children) \o Tail(ops)
    BY <1>1, <1>5, Zenon DEF Rest
  <2> HIDE DEF o
  <2>4. <<o>> \in Seq(GoodOps) /\ children \in Seq(GoodOps) /\ Tail(ops) \in Seq(GoodOps)
    BY <1>2, <2>1, <2>2
  <2>5. ops' = <<o>> \o q
    BY <2>3, <2>4, ConcatAssociative
  <2>6. q \in Seq(GoodOps) /\ <<o>> # <<>> /\ Head(<<o>>) = o /\ Tail(<<o>>) = <<>>
    BY <1>3, <2>2
  <2> HIDE DEF q
  <2>7. ops' \in Seq(GoodOps) /\ ops' # <<>> /\ Head(ops') = o /\ Tail(ops') = <<>> \o q
    BY <2>4, <2>5, <2>6, HeadTailConcat
  <2>8. Tail(ops') \in Seq(NewOps)
    BY <1>3, <2>7, ConcatEmptySeq, Zenon
  <2>9. OpsShape'
    BY <2>7, <2>8 DEF OpsShape
  <2>10. Running("ChangeLeader")' => Running("SelectLeader")
    BY <2>1, <2>7 DEF Running
  <2> QED BY <1>1, <1>5, <2>9, <2>10
<1> QED BY <1>4, <1>5

-----------------------------------------------------------------------------
(* The operations that are created.                                        *)

LEMMA GetLeaderFact == GetLeader \in Tablets \cup {None}
BY DEF GetLeader, AliveLeaders

LEMMA PlainOp ==
    ASSUME NEW s \in Seq(PlainTask), s # <<>>
    PROVE  <<Op(s, {})>> \in Seq(NewOps)
<1>1. s \in Seq(Task) \ {<<>>}
  BY DEF PlainTask
<1>2. Op(s, {}) \in OpType /\ IsPlain(Op(s, {}))
  BY <1>1 DEF Op, OpType, IsPlain
<1>3. Op(s, {}) \in NewOps
  BY <1>2 DEF NewOps, GoodOps
<1> QED BY <1>3

LEMMA DoFact ==
    ASSUME NEW do \in {"DelReplica", "UpdatePartitionStatus", "RecoverTable", "PauseSnapshot",
                       "SendSnapshot", "DropTable", "LoadTable", "AddReplica",
                       "RecoverSnapshot"},
           NEW at \in Tablets \cup {None}, NEW ep \in Tablets \cup {None}, NEW alive \in BOOLEAN,
           do = "SendSnapshot" => at \in Tablets
    PROVE  Do(do, at, ep, alive) \in PlainTask
BY DEF Do, PlainTask, Task

LEMMA OfflineReplicaFact ==
    ASSUME NEW e \in Tablets
    PROVE  CreateOfflineReplicaOP(e) \in Seq(NewOps)
<1> DEFINE a == Do("DelReplica", GetLeader, e, FALSE)
           b == Do("UpdatePartitionStatus", None, e, FALSE)
<1>1. a \in PlainTask /\ b \in PlainTask
  BY DoFact, GetLeaderFact, Zenon
<1> HIDE DEF a, b
<1>2. <<a, b>> \in Seq(PlainTask) /\ <<a, b>> # <<>>
  BY <1>1
<1>3. <<Op(<<a, b>>, {})>> \in Seq(NewOps)
  BY <1>2, PlainOp, Zenon
<1> QED BY <1>3 DEF CreateOfflineReplicaOP, a, b

LEMMA RecoverTableFact ==
    ASSUME NEW e \in Tablets
    PROVE  CreateRecoverTableOP(e) \in Seq(NewOps)
<1> DEFINE a == Do("DelReplica", GetLeader, e, FALSE)
           b == Do("RecoverTable", None, e, FALSE)
<1>1. a \in PlainTask /\ b \in PlainTask
  BY DoFact, GetLeaderFact, Zenon
<1> HIDE DEF a, b
<1>2. /\ <<a, b>> \in Seq(PlainTask) /\ <<a, b>> # <<>>
      /\ <<b>> \in Seq(PlainTask) /\ <<b>> # <<>>
  BY <1>1
<1>3. <<Op(<<a, b>>, {})>> \in Seq(NewOps) /\ <<Op(<<b>>, {})>> \in Seq(NewOps)
  BY <1>2, PlainOp, Zenon
<1> QED BY <1>3 DEF CreateRecoverTableOP, a, b

\* The one operation with an election: SelectLeader comes first.
LEMMA ChangeLeaderFact == CreateChangeLeaderOP \in Seq(NewOps)
<1> DEFINE followers == {t \in Tablets : meta[t].alive /\ ~meta[t].leader /\ healthy[t]}
           s == <<Select, Change, Update>>
<1>1. s \in Seq(Task) \ {<<>>}
  BY ElectionTasks
<1>2. followers \in SUBSET Tablets
  OBVIOUS
<1> HIDE DEF followers, s
<1>3. Op(s, followers) \in OpType /\ IsElection(Op(s, followers), s)
  BY <1>1, <1>2 DEF Op, OpType, IsElection
<1>4. Op(s, followers) \in NewOps
  BY <1>3, Zenon DEF NewOps, GoodOps, s
<1>5. <<Op(s, followers)>> \in Seq(NewOps)
  BY <1>4
<1> QED BY <1>5, EmptySeq, Zenon
        DEF CreateChangeLeaderOP, s, Select, Change, Update, followers

\* An operation that brings a replica back creates no other one.
ReAddTask == {x \in PlainTask : x.do # "RecoverTable"}

LEMMA ReAddTasks ==
    ASSUME NEW e \in Tablets \cup {None}, NEW drop, NEW send, NEW load
    PROVE  \/ ReAdd(e, drop, send, load) = <<>>
           \/ \E s \in Seq(ReAddTask) : s # <<>> /\ ReAdd(e, drop, send, load) = <<Op(s, {})>>
<1> DEFINE l == GetLeader
           Only(b, task) == IF b THEN <<task>> ELSE <<>>
           t1 == Do("PauseSnapshot", l, None, FALSE)
           t2 == Do("DropTable", None, e, FALSE)
           t3 == Do("SendSnapshot", l, e, FALSE)
           t4 == Do("LoadTable", None, e, FALSE)
           t5 == Do("AddReplica", l, e, FALSE)
           t6 == Do("RecoverSnapshot", l, None, FALSE)
           t7 == Do("UpdatePartitionStatus", None, e, TRUE)
           p == Only(load, t1) \o Only(drop, t2) \o Only(send, t3) \o Only(load, t4)
                   \o <<t5>> \o Only(load, t6)
<1> SUFFICES ASSUME HealthyLeader(e), healthy[e]
             PROVE  \E s \in Seq(ReAddTask) :
                       s # <<>> /\ ReAdd(e, drop, send, load) = <<Op(s, {})>>
  BY Zenon DEF ReAdd
<1>0. l \in Tablets
  BY GetLeaderFact DEF HealthyLeader
<1>1. /\ t1 \in ReAddTask /\ t2 \in ReAddTask /\ t3 \in ReAddTask /\ t4 \in ReAddTask
      /\ t5 \in ReAddTask /\ t6 \in ReAddTask /\ t7 \in ReAddTask
  <2>1. /\ t1 \in PlainTask /\ t2 \in PlainTask /\ t3 \in PlainTask /\ t4 \in PlainTask
        /\ t5 \in PlainTask /\ t6 \in PlainTask /\ t7 \in PlainTask
    BY <1>0, DoFact, Zenon
  <2>2. /\ t1.do # "RecoverTable" /\ t2.do # "RecoverTable" /\ t3.do # "RecoverTable"
        /\ t4.do # "RecoverTable" /\ t5.do # "RecoverTable" /\ t6.do # "RecoverTable"
        /\ t7.do # "RecoverTable"
    BY DEF Do
  <2> HIDE DEF t1, t2, t3, t4, t5, t6, t7
  <2> QED BY <2>1, <2>2, Zenon DEF ReAddTask
<1> HIDE DEF t1, t2, t3, t4, t5, t6, t7
<1>2. \A b, x : x \in ReAddTask => Only(b, x) \in Seq(ReAddTask) /\ <<x>> \in Seq(ReAddTask)
  OBVIOUS
<1> HIDE DEF Only
<1>3. p \in Seq(ReAddTask)
  <2>1. Only(load, t1) \o Only(drop, t2) \in Seq(ReAddTask)
    BY <1>1, <1>2, ConcatProperties
  <2>2. Only(load, t1) \o Only(drop, t2) \o Only(send, t3) \in Seq(ReAddTask)
    BY <1>1, <1>2, <2>1, ConcatProperties
  <2>3. Only(load, t1) \o Only(drop, t2) \o Only(send, t3) \o Only(load, t4) \in Seq(ReAddTask)
    BY <1>1, <1>2, <2>2, ConcatProperties
  <2>4. Only(load, t1) \o Only(drop, t2) \o Only(send, t3) \o Only(load, t4) \o <<t5>>
          \in Seq(ReAddTask)
    BY <1>1, <1>2, <2>3, ConcatProperties
  <2> QED BY <1>1, <1>2, <2>4, ConcatProperties
<1> HIDE DEF p
<1>4. p \o <<t7>> \in Seq(ReAddTask) /\ p \o <<t7>> # <<>>
  <2>1. <<t7>> \in Seq(ReAddTask) /\ <<t7>> # <<>>
    BY <1>1
  <2> QED BY <1>3, <2>1, ConcatProperties, ConcatNotEmpty
<1>5. ReAdd(e, drop, send, load) = <<Op(p \o <<t7>>, {})>>
  BY Zenon DEF ReAdd, p, Only, t1, t2, t3, t4, t5, t6, t7
<1> QED BY <1>4, <1>5, Zenon

LEMMA ReAddFact ==
    ASSUME NEW e \in Tablets \cup {None}, NEW drop, NEW send, NEW load
    PROVE  ReAdd(e, drop, send, load) \in Seq(NewOps)
<1>1. CASE ReAdd(e, drop, send, load) = <<>>
  BY <1>1, EmptySeq, Zenon
<1>2. ASSUME NEW s \in Seq(ReAddTask), s # <<>>, ReAdd(e, drop, send, load) = <<Op(s, {})>>
      PROVE  ReAdd(e, drop, send, load) \in Seq(NewOps)
  <2>1. s \in Seq(PlainTask)
    BY <1>2 DEF ReAddTask
  <2> QED BY <1>2, <2>1, PlainOp, Zenon
<1>3. \/ ReAdd(e, drop, send, load) = <<>>
      \/ \E s \in Seq(ReAddTask) : s # <<>> /\ ReAdd(e, drop, send, load) = <<Op(s, {})>>
  BY ReAddTasks
<1> QED BY <1>1, <1>2, <1>3, Zenon

LEMMA EndpointFact ==
    ASSUME NEW t \in Tablets
    PROVE  OfflineEndpoint(t) \in Seq(NewOps) /\ RecoverEndpoint(t) \in Seq(NewOps)
BY OfflineReplicaFact, ChangeLeaderFact, RecoverTableFact, EmptySeq
   DEF OfflineEndpoint, RecoverEndpoint

-----------------------------------------------------------------------------
(* Tables.                                                                 *)

\* The same request, whoever waits for its answer.
SameRequest(c, d) ==
    /\ c.to = d.to /\ c.term = d.term /\ c.index = d.index /\ c.entry = d.entry
    /\ c.seen = d.seen /\ c.offset = d.offset

KeepCalls ==
    /\ \A c \in calls' : \E d \in calls : SameRequest(c, d)
    /\ \A t \in Tablets : tab'[t].leader /\ t \in raced => t \in raced'

\* A step that makes no leader and lets no request through: who leads afterwards
\* led before, in that term or, if a handler was late, in that of its request.
KeepLeaders ==
    /\ \A t \in Tablets : tab'[t].leader =>
          /\ tab[t].leader
          /\ \/ tab'[t].term = tab[t].term
             \/ t \in raced' /\ \E c \in calls : c.to = t /\ tab'[t].term = c.term
    /\ KeepCalls

LEMMA CallsSame ==
    ASSUME UNCHANGED callVars
    PROVE  KeepCalls
BY DEF callVars, KeepCalls, SameRequest

\* Those of a table that goes away are gone.
LEMMA CallsGone ==
    ASSUME NEW t, TableGone(t), TabShape
    PROVE  KeepCalls
<1>1. \A c \in calls' : \E d \in calls : SameRequest(c, d)
  <2> SUFFICES ASSUME NEW c \in calls' PROVE \E d \in calls : SameRequest(c, d)
    OBVIOUS
  <2>1. PICK d \in calls : c = [d EXCEPT !.from = IF @ = t THEN None ELSE @]
    BY DEF TableGone
  <2>2. PICK x : c = [d EXCEPT !.from = x]
    BY <2>1
  <2>3. SameRequest(c, d)
    BY <2>2 DEF SameRequest
  <2> QED BY <2>3
<1>2. ASSUME NEW u \in Tablets, tab'[u].leader, u \in raced
      PROVE  u \in raced'
  <2>1. tab' = [tab EXCEPT ![t] = NoTable] /\ raced' = raced \ {t}
    BY DEF TableGone
  <2>2. u # t
    BY <1>2, <2>1 DEF TabShape, NoTable
  <2> QED BY <1>2, <2>1, <2>2
<1> QED BY <1>1, <1>2 DEF KeepCalls

\* Another value for one field of a table.
LEMMA LogField ==
    ASSUME NEW r, IsTab(r), NEW x, NEW q, q = [r EXCEPT !.log = x]
    PROVE  IsTab(q) /\ q.leader = r.leader /\ q.term = r.term
<1> DEFINE a == r.table
           b == r.leader
           c == r.term
           d == r.log
           e == r.paused
<1>1. r = [table |-> a, leader |-> b, term |-> c, log |-> d, paused |-> e]
  BY DEF IsTab
<1> HIDE DEF a, b, c, d, e
<1>2. q = [table |-> a, leader |-> b, term |-> c, log |-> x, paused |-> e]
  BY <1>1
<1> QED BY <1>2 DEF IsTab, b, c

LEMMA PausedField ==
    ASSUME NEW r, IsTab(r), NEW x, NEW q, q = [r EXCEPT !.paused = x]
    PROVE  IsTab(q) /\ q.leader = r.leader /\ q.term = r.term
<1> DEFINE a == r.table
           b == r.leader
           c == r.term
           d == r.log
           e == r.paused
<1>1. r = [table |-> a, leader |-> b, term |-> c, log |-> d, paused |-> e]
  BY DEF IsTab
<1> HIDE DEF a, b, c, d, e
<1>2. q = [table |-> a, leader |-> b, term |-> c, log |-> d, paused |-> x]
  BY <1>1
<1> QED BY <1>2 DEF IsTab, b, c

LEMMA TermField ==
    ASSUME NEW r, IsTab(r), NEW x \in Nat, NEW q, q = [r EXCEPT !.term = x]
    PROVE  IsTab(q) /\ q.leader = r.leader /\ q.term = x
<1> DEFINE a == r.table
           b == r.leader
           c == r.term
           d == r.log
           e == r.paused
<1>1. r = [table |-> a, leader |-> b, term |-> c, log |-> d, paused |-> e]
  BY DEF IsTab
<1> HIDE DEF a, b, c, d, e
<1>2. q = [table |-> a, leader |-> b, term |-> x, log |-> d, paused |-> e]
  BY <1>1
<1> QED BY <1>2 DEF IsTab, b, c

LEMMA LeaderField ==
    ASSUME NEW r, IsTab(r), NEW x, NEW q, q = [r EXCEPT !.leader = x]
    PROVE  IsTab(q) /\ q.leader = x /\ q.term = r.term
<1> DEFINE a == r.table
           b == r.leader
           c == r.term
           d == r.log
           e == r.paused
<1>1. r = [table |-> a, leader |-> b, term |-> c, log |-> d, paused |-> e]
  BY DEF IsTab
<1> HIDE DEF a, b, c, d, e
<1>2. q = [table |-> a, leader |-> x, term |-> c, log |-> d, paused |-> e]
  BY <1>1
<1> QED BY <1>2 DEF IsTab, b, c

\* A table that was just loaded does not lead.
LEMMA LoadedFact ==
    ASSUME NEW x
    PROVE  /\ IsTab([NoTable EXCEPT !.table = TRUE, !.log = x])
           /\ [NoTable EXCEPT !.table = TRUE, !.log = x].leader = FALSE
           /\ [NoTable EXCEPT !.table = TRUE, !.log = x]
                = [table |-> TRUE, leader |-> FALSE, term |-> 0, log |-> x, paused |-> FALSE]
<1>1. PICK a, b, c, e, y, z :
         /\ NoTable = [table |-> a, leader |-> b, term |-> z, log |-> y, paused |-> c]
         /\ a = FALSE /\ b = FALSE /\ z = 0 /\ c = FALSE /\ e = TRUE
  BY Zenon DEF NoTable
<1> DEFINE r == [NoTable EXCEPT !.table = e, !.log = x]
<1>2. r = [NoTable EXCEPT !.table = e, !.log = x]
  BY Zenon
<1>3. r = [NoTable EXCEPT !.table = TRUE, !.log = x]
  BY <1>1, Zenon
<1> HIDE DEF r
<1>4. r = [table |-> e, leader |-> b, term |-> z, log |-> x, paused |-> c]
  BY <1>1, <1>2, Zenon
<1>5. r = [table |-> TRUE, leader |-> FALSE, term |-> 0, log |-> x, paused |-> FALSE]
  BY <1>1, <1>4, Zenon
<1>6. IsTab(r) /\ r.leader = FALSE
  BY <1>5 DEF IsTab
<1> QED BY <1>3, <1>5, <1>6, Zenon

LEMMA TabSet ==
    ASSUME TabShape, NEW f, NEW r, tab' = [tab EXCEPT ![f] = r], KeepCalls,
           f \in Tablets => IsTab(r) /\ (r.leader => tab[f].leader /\ r.term = tab[f].term)
    PROVE  TabShape' /\ KeepLeaders
<1>1. \A t \in Tablets : tab'[t] = IF t = f THEN r ELSE tab[t]
  BY DEF TabShape
<1>2. tab' = [t \in Tablets |-> tab'[t]]
  BY DEF TabShape
<1>3. \A t \in Tablets : IsTab(tab'[t])
  BY <1>1 DEF TabShape
<1> QED BY <1>1, <1>2, <1>3 DEF TabShape, KeepLeaders

LEMMA TabSame ==
    ASSUME TabShape, tab' = tab, UNCHANGED callVars
    PROVE  TabShape' /\ KeepLeaders
BY CallsSame DEF TabShape, KeepLeaders

\* A new log, a paused snapshot, or a follower's new term make no leader.
LEMMA TabField ==
    ASSUME TabShape, NEW f, NEW x, KeepCalls,
           \/ tab' = [tab EXCEPT ![f].log = x]
           \/ tab' = [tab EXCEPT ![f].paused = x]
           \/ tab' = [tab EXCEPT ![f].term = x] /\ ~tab[f].leader /\ x \in Nat
           \/ tab' = [tab EXCEPT ![f].leader = FALSE]
    PROVE  TabShape' /\ KeepLeaders
<1>1. f \in Tablets => IsTab(tab[f])
  BY DEF TabShape
<1>2. CASE tab' = [tab EXCEPT ![f].log = x]
  <2> DEFINE r == [tab[f] EXCEPT !.log = x]
  <2>1. tab' = [tab EXCEPT ![f] = r]
    BY <1>2
  <2>2. f \in Tablets => IsTab(r) /\ (r.leader => tab[f].leader /\ r.term = tab[f].term)
    <3>1. IsTab(tab[f]) => IsTab(r) /\ r.leader = tab[f].leader /\ r.term = tab[f].term
      BY LogField
    <3> HIDE DEF r
    <3> QED BY <1>1, <3>1
  <2> HIDE DEF r
  <2> QED BY <2>1, <2>2, TabSet, Zenon
<1>3. CASE tab' = [tab EXCEPT ![f].paused = x]
  <2> DEFINE r == [tab[f] EXCEPT !.paused = x]
  <2>1. tab' = [tab EXCEPT ![f] = r]
    BY <1>3
  <2>2. f \in Tablets => IsTab(r) /\ (r.leader => tab[f].leader /\ r.term = tab[f].term)
    <3>1. IsTab(tab[f]) => IsTab(r) /\ r.leader = tab[f].leader /\ r.term = tab[f].term
      BY PausedField
    <3> HIDE DEF r
    <3> QED BY <1>1, <3>1
  <2> HIDE DEF r
  <2> QED BY <2>1, <2>2, TabSet, Zenon
<1>4. CASE tab' = [tab EXCEPT ![f].term = x] /\ ~tab[f].leader /\ x \in Nat
  <2> DEFINE r == [tab[f] EXCEPT !.term = x]
  <2>1. tab' = [tab EXCEPT ![f] = r]
    BY <1>4
  <2>2. f \in Tablets => IsTab(r) /\ (r.leader => tab[f].leader /\ r.term = tab[f].term)
    <3>1. IsTab(tab[f]) => IsTab(r) /\ r.leader = tab[f].leader
      BY <1>4, TermField
    <3> HIDE DEF r
    <3> QED BY <1>1, <1>4, <3>1
  <2> HIDE DEF r
  <2> QED BY <2>1, <2>2, TabSet, Zenon
<1>5. CASE tab' = [tab EXCEPT ![f].leader = FALSE]
  <2> DEFINE r == [tab[f] EXCEPT !.leader = FALSE]
  <2>1. tab' = [tab EXCEPT ![f] = r]
    BY <1>5
  <2>2. f \in Tablets => IsTab(r) /\ (r.leader => tab[f].leader /\ r.term = tab[f].term)
    <3>1. IsTab(tab[f]) => IsTab(r) /\ r.leader = FALSE /\ r.term = tab[f].term
      BY LeaderField
    <3> HIDE DEF r
    <3> QED BY <1>1, <3>1
  <2> HIDE DEF r
  <2> QED BY <2>1, <2>2, TabSet, Zenon
<1> QED BY <1>2, <1>3, <1>4, <1>5

\* Terms that are above all leaders and requests stay so.
LEMMA StayBelow ==
    ASSUME TabShape, CallShape, KeepLeaders, NEW x, LeadersBelow(x), CallsBelow(x) \/ AskCalls(x)
    PROVE  /\ \A t \in Tablets : tab'[t].leader => tab'[t].term \in Nat /\ tab'[t].term < x
           /\ CallsBelow(x) => \A c \in calls' : c.term < x
           /\ AskCalls(x) => \A c \in calls' :
                 c.term < x \/ (c.term = x /\ c.index = 0 /\ ~tab'[c.to].leader)
<1>1. ASSUME NEW t \in Tablets, tab'[t].leader
      PROVE  tab'[t].term \in Nat /\ tab'[t].term < x
  <2>1. CASE tab'[t].term = tab[t].term
    BY <1>1, <2>1 DEF KeepLeaders, LeadersBelow
  <2>2. CASE \E c \in calls : c.to = t /\ tab'[t].term = c.term
    <3>1. PICK c \in calls : c.to = t /\ tab'[t].term = c.term
      BY <2>2
    <3>2. tab[t].leader /\ c.term \in Nat
      BY <1>1 DEF KeepLeaders, CallShape
    <3> QED BY <3>1, <3>2 DEF CallsBelow, AskCalls
  <2> QED BY <1>1, <2>1, <2>2 DEF KeepLeaders
<1>2. ASSUME NEW c \in calls', CallsBelow(x) PROVE c.term < x
  BY <1>2 DEF KeepLeaders, KeepCalls, SameRequest, CallsBelow
<1>3. ASSUME NEW c \in calls', AskCalls(x)
      PROVE  c.term < x \/ (c.term = x /\ c.index = 0 /\ ~tab'[c.to].leader)
  <2>1. PICK d \in calls : SameRequest(c, d)
    BY DEF KeepLeaders, KeepCalls
  <2>2. d.term < x \/ (d.term = x /\ d.index = 0 /\ ~tab[d.to].leader)
    BY <1>3 DEF AskCalls
  <2>3. c.to = d.to /\ c.term = d.term /\ c.index = d.index /\ d.to \in Tablets
    BY <2>1 DEF SameRequest, CallShape
  <2> QED BY <2>2, <2>3 DEF KeepLeaders
<1> QED BY <1>1, <1>2, <1>3

\* So do the shapes of the requests, and what is known of leaders.
LEMMA StayOne ==
    ASSUME TabShape, CallShape, KeepLeaders, LateOnLeaders, OneLeaderPerTerm
    PROVE  CallShape' /\ LateOnLeaders' /\ OneLeaderPerTerm'
<1>1. CallShape'
  BY DEF CallShape, KeepLeaders, KeepCalls, SameRequest
<1>2. \A t \in Tablets : tab'[t].leader /\ t \notin raced' =>
         tab[t].leader /\ t \notin raced /\ tab'[t].term = tab[t].term
  BY DEF KeepLeaders, KeepCalls
<1>3. LateOnLeaders'
  <2> SUFFICES ASSUME NEW c \in calls', tab'[c.to].leader, c.to \notin raced'
               PROVE  tab'[c.to].term # c.seen
    BY DEF LateOnLeaders
  <2>1. PICK d \in calls : SameRequest(c, d)
    BY DEF KeepLeaders, KeepCalls
  <2>2. c.to = d.to /\ c.seen = d.seen /\ d.to \in Tablets
    BY <2>1 DEF SameRequest, CallShape
  <2> QED BY <1>2, <2>2 DEF LateOnLeaders
<1>4. OneLeaderPerTerm'
  BY <1>2 DEF OneLeaderPerTerm
<1> QED BY <1>1, <1>3, <1>4

\* What every step keeps that makes no leader and takes no term.
LEMMA Kept ==
    ASSUME EInv, TabShape', KeepLeaders, IsData(data)', OpsShape', term_' = term_,
           data'.pc = "ask" => data.pc = "ask" /\ data'.term = data.term,
           Running("ChangeLeader")' => Running("ChangeLeader") /\ data' = data
    PROVE  EInv'
<1>1. TabShape /\ CallShape /\ LateOnLeaders /\ OneLeaderPerTerm /\ term_ \in Nat
  BY DEF EInv, Shapes
<1>2. CallShape' /\ LateOnLeaders' /\ OneLeaderPerTerm'
  BY <1>1, StayOne
<1>3. Shapes' /\ LeadersBelow(term_ + 1)' /\ CallsBelow(term_ + 1)'
  <2>1. LeadersBelow(term_ + 1) /\ CallsBelow(term_ + 1)
    BY DEF EInv
  <2>2. /\ \A t \in Tablets : tab'[t].leader => tab'[t].term \in Nat /\ tab'[t].term < term_ + 1
        /\ \A c \in calls' : c.term < term_ + 1
    BY <1>1, <2>1, StayBelow
  <2> QED BY <1>1, <1>2, <2>2 DEF Shapes, LeadersBelow, CallsBelow
<1>4. ASSUME data'.pc = "ask"
      PROVE  /\ data'.term + 1 = term_' /\ data'.term \in Nat
             /\ LeadersBelow(data.term)' /\ AskCalls(data.term)'
  <2>1. /\ data'.term = data.term /\ data.term + 1 = term_ /\ data.term \in Nat
        /\ LeadersBelow(data.term) /\ AskCalls(data.term)
    BY <1>4 DEF EInv
  <2>2. /\ \A t \in Tablets : tab'[t].leader => tab'[t].term \in Nat /\ tab'[t].term < data.term
        /\ \A c \in calls' : \/ c.term < data.term
                             \/ c.term = data.term /\ c.index = 0 /\ ~tab'[c.to].leader
    BY <1>1, <2>1, StayBelow
  <2> QED BY <2>1, <2>2 DEF LeadersBelow, AskCalls
<1>5. ASSUME Running("ChangeLeader")'
      PROVE  /\ data'.pc = "start" /\ data'.term = term_'
             /\ LeadersBelow(term_)' /\ CallsBelow(term_)'
  <2>1. /\ data.pc = "start" /\ data.term = term_ /\ data' = data
        /\ LeadersBelow(term_) /\ CallsBelow(term_)
    BY <1>5 DEF EInv
  <2>2. /\ \A t \in Tablets : tab'[t].leader => tab'[t].term \in Nat /\ tab'[t].term < term_
        /\ \A c \in calls' : c.term < term_
    BY <1>1, <2>1, StayBelow
  <2> QED BY <2>1, <2>2 DEF LeadersBelow, CallsBelow
<1> QED BY <1>2, <1>3, <1>4, <1>5 DEF EInv

-----------------------------------------------------------------------------
(* The steps without an operation.                                         *)

\* A step that concerns neither tables, operations nor terms.
LEMMA QuietStep ==
    ASSUME EInv, UNCHANGED <<tab, callVars, ops, data, term_>>
    PROVE  EInv'
<1>1. TabShape' /\ KeepLeaders
  BY TabSame DEF EInv, Shapes
<1>2. OpsShape' /\ IsData(data)' /\ (Running("ChangeLeader")' => Running("ChangeLeader"))
  BY DEF EInv, Shapes, OpsShape, Running, IsData
<1> QED BY <1>1, <1>2, Kept

\* A step that changes a table without making a leader.
LEMMA TableStep ==
    ASSUME EInv, TabShape', KeepLeaders, UNCHANGED <<ops, data, term_>>
    PROVE  EInv'
<1>1. OpsShape' /\ IsData(data)' /\ (Running("ChangeLeader")' => Running("ChangeLeader"))
  BY DEF EInv, Shapes, OpsShape, Running, IsData
<1> QED BY <1>1, Kept

LEMMA TabletStep ==
    ASSUME EInv, NEW t \in Tablets,
           \/ Put(t) \/ MakeSnapshot(t)
           \/ Crash(t) \/ SessionExpires(t) \/ Restart(t) \/ CheckZkClient(t)
    PROVE  EInv'
<1>1. CASE Put(t)
  <2>1. PICK x : tab' = [tab EXCEPT ![t].log = x]
    BY <1>1, Zenon DEF Put
  <2>2. KeepCalls /\ UNCHANGED <<ops, data, term_>>
    BY <1>1, CallsSame DEF Put, infoVars
  <2>3. TabShape' /\ KeepLeaders
    BY <2>1, <2>2, TabField, Zenon DEF EInv, Shapes
  <2> QED BY <2>2, <2>3, TableStep
<1>2. CASE Crash(t)
  <2>1. tab' = [tab EXCEPT ![t] = NoTable] /\ TableGone(t) /\ UNCHANGED <<ops, data, term_>>
    BY <1>2 DEF Crash, TableGone, infoVars
  <2>2. IsTab(NoTable) /\ NoTable.leader = FALSE
    BY DEF NoTable, IsTab
  <2>3. TabShape' /\ KeepLeaders
    BY <2>1, <2>2, CallsGone, TabSet, Zenon DEF EInv, Shapes
  <2> QED BY <2>1, <2>3, TableStep
<1>3. CASE MakeSnapshot(t) \/ SessionExpires(t) \/ Restart(t) \/ CheckZkClient(t)
  BY <1>3, QuietStep, Zenon DEF MakeSnapshot, SessionExpires, Restart, CheckZkClient, infoVars
<1> QED BY <1>1, <1>2, <1>3

\* A request is let through: its term is that of a leader, or of the election.
LEMMA CheckedStep ==
    ASSUME EInv, UNCHANGED <<tab, raced, ops, data, term_>>,
           NEW from, NEW f \in Tablets, NEW term \in Nat, NEW index, NEW entry,
           Checked(from, f, term, index, entry),
           term < term_ + 1,
           data.pc = "ask" => term < data.term \/ (term = data.term /\ index = 0),
           Running("ChangeLeader") => term < term_
    PROVE  EInv'
<1> DEFINE c == [from |-> from, to |-> f, term |-> term, index |-> index, entry |-> entry,
                 seen |-> tab[f].term, offset |-> Len(tab[f].log)]
<1>1. calls' = calls \cup {c} /\ ~tab[f].leader /\ tab[f].term <= term /\ tab[f].term \in Nat
  BY DEF Checked, Accepts, EInv, Shapes, TabShape, IsTab
<1>2. c.to = f /\ c.term = term /\ c.index = index /\ c.seen = tab[f].term
  OBVIOUS
<1> HIDE DEF c
<1>3. \A d \in calls' : d \in calls \/ d = c
  BY <1>1
<1>4. Shapes'
  BY <1>1, <1>2, <1>3 DEF EInv, Shapes, TabShape, CallShape, IsData
<1>5. LeadersBelow(term_ + 1)' /\ CallsBelow(term_ + 1)'
  BY <1>2, <1>3 DEF EInv, LeadersBelow, CallsBelow
<1>6. ASSUME data'.pc = "ask"
      PROVE  /\ data'.term + 1 = term_' /\ data'.term \in Nat
             /\ LeadersBelow(data.term)' /\ AskCalls(data.term)'
  BY <1>1, <1>2, <1>3, <1>6 DEF EInv, LeadersBelow, AskCalls
<1>7. ASSUME Running("ChangeLeader")'
      PROVE  /\ data'.pc = "start" /\ data'.term = term_'
             /\ LeadersBelow(term_)' /\ CallsBelow(term_)'
  BY <1>2, <1>3, <1>7 DEF EInv, LeadersBelow, CallsBelow, Running
<1>8. LateOnLeaders' /\ OneLeaderPerTerm' /\ OpsShape'
  BY <1>1, <1>2, <1>3 DEF EInv, LateOnLeaders, OneLeaderPerTerm, OpsShape
<1> QED BY <1>4, <1>5, <1>6, <1>7, <1>8 DEF EInv

\* The handler goes on, on a table that may lead by now.
LEMMA FinishLeaders ==
    ASSUME EInv, NEW c \in calls, Finish(c)
    PROVE  TabShape' /\ KeepLeaders
<1>1. /\ TabShape /\ c.to \in Tablets /\ c.term \in Nat /\ calls' = calls \ {c}
      /\ raced \subseteq raced' /\ (Late(c) => c.to \in raced')
      /\ tab[c.to].leader /\ c.to \notin raced => tab[c.to].term # c.seen
  BY DEF EInv, Shapes, CallShape, Finish, LateOnLeaders
<1>2. KeepCalls
  BY <1>1 DEF KeepCalls, SameRequest
<1>3. \/ tab' = tab
      \/ tab' = [tab EXCEPT ![c.to].term = c.term]
      \/ \E x : tab' = [tab EXCEPT ![c.to].log = x]
  BY Zenon DEF Finish, Handled
<1>4. CASE tab' = tab
  BY <1>1, <1>2, <1>4 DEF KeepLeaders, TabShape
<1>5. CASE \E x : tab' = [tab EXCEPT ![c.to].log = x]
  BY <1>1, <1>2, <1>5, TabField, Zenon
<1>6. CASE tab' = [tab EXCEPT ![c.to].term = c.term] /\ ~tab[c.to].leader
  BY <1>1, <1>2, <1>6, TabField, Zenon
<1>7. CASE tab' = [tab EXCEPT ![c.to].term = c.term] /\ tab[c.to].leader
  <2>1. c.to \in raced'
    BY <1>1, <1>7 DEF Late
  <2> DEFINE q == [tab[c.to] EXCEPT !.term = c.term]
  <2>2. IsTab(q) /\ q.term = c.term
    <3>1. IsTab(tab[c.to]) /\ c.term \in Nat
      BY <1>1 DEF TabShape
    <3> QED BY <3>1, TermField
  <2>3. tab' = [tab EXCEPT ![c.to] = q]
    BY <1>7
  <2> HIDE DEF q
  <2>4. \A t \in Tablets : tab'[t] = IF t = c.to THEN q ELSE tab[t]
    BY <1>1, <2>3 DEF TabShape
  <2>5. tab' = [t \in Tablets |-> tab'[t]]
    BY <1>1, <2>3 DEF TabShape
  <2>6. TabShape'
    BY <1>1, <2>2, <2>4, <2>5 DEF TabShape
  <2> QED BY <1>2, <1>7, <2>1, <2>2, <2>4, <2>6 DEF KeepLeaders
<1> QED BY <1>3, <1>4, <1>5, <1>6, <1>7, ZenonT(60)

LEMMA ReplicationStep ==
    ASSUME EInv, NEW l \in Tablets, NEW f \in Tablets,
           MatchLogOffset(l, f) \/ SyncData(l, f)
    PROVE  EInv'
<1>1. /\ tab[l].leader /\ UNCHANGED <<tab, raced, ops, data, term_>>
      /\ \E index, entry : Checked(l, f, tab[l].term, index, entry)
  BY Zenon DEF MatchLogOffset, SyncData, Sends, infoVars
<1>2. PICK index, entry : Checked(l, f, tab[l].term, index, entry)
  BY <1>1
<1>3. /\ tab[l].term \in Nat /\ tab[l].term < term_ + 1
      /\ data.pc = "ask" => tab[l].term < data.term
      /\ Running("ChangeLeader") => tab[l].term < term_
  BY <1>1 DEF EInv, LeadersBelow
<1> QED BY <1>1, <1>2, <1>3, CheckedStep

LEMMA HandlerStep ==
    ASSUME EInv, NEW c \in calls, AppendEntries(c)
    PROVE  EInv'
<1>1. Finish(c) /\ UNCHANGED <<ops, data, term_>>
  BY DEF AppendEntries, infoVars
<1> QED BY <1>1, FinishLeaders, TableStep

\* The watcher and the handlers of the name server, which add operations.
LEMMA WatchStep ==
    ASSUME EInv, NEW t \in Tablets,
           \/ HeartbeatTimeout(t) \/ OnTabletOffline(t) \/ OfflineAfterTimeout(t)
           \/ OnTabletOnline(t) \/ OfflineAtStartup(t) \/ RecoverOnline(t)
    PROVE  EInv'
<1>1. CASE HeartbeatTimeout(t) \/ OnTabletOffline(t) \/ OnTabletOnline(t)
  BY <1>1, QuietStep, Zenon
     DEF HeartbeatTimeout, OnTabletOffline, OnTabletOnline, infoVars, tabletVars
<1>2. CASE OfflineAfterTimeout(t) \/ OfflineAtStartup(t) \/ RecoverOnline(t)
  <2>1. UNCHANGED <<tab, callVars, data, term_>>
    BY <1>2, Zenon DEF OfflineAfterTimeout, OfflineAtStartup, RecoverOnline, infoVars, tabletVars
  <2>2. \/ UNCHANGED ops
        \/ AddOPData(OfflineEndpoint(t)) \/ AddOPData(RecoverEndpoint(t))
    BY <1>2, Zenon DEF OfflineAfterTimeout, OfflineAtStartup, RecoverOnline
  <2>3. CASE UNCHANGED ops
    BY <2>1, <2>3, QuietStep
  <2>4. CASE AddOPData(OfflineEndpoint(t)) \/ AddOPData(RecoverEndpoint(t))
    <3>1. OpsShape' /\ (Running("ChangeLeader")' => Running("ChangeLeader"))
      BY <2>4, AddFact, EndpointFact DEF EInv
    <3>2. TabShape' /\ KeepLeaders /\ IsData(data)'
      BY <2>1, TabSame DEF EInv, Shapes, IsData
    <3> QED BY <2>1, <3>1, <3>2, Kept
  <2> QED BY <2>2, <2>3, <2>4
<1> QED BY <1>1, <1>2

-----------------------------------------------------------------------------
(* The tasks other than those of an election.                              *)

LEMMA NoDataFact == IsData(NoData) /\ NoData.pc = "start"
BY Zenon DEF IsData, NoData

\* The running task is not SelectLeader, and it ends, well or not.
LEMMA TaskEnds ==
    ASSUME EInv, NEW do, do # "SelectLeader", Running(do), NEW d, IsData(d), d.pc # "ask" \/ d = data,
           \/ \E children \in Seq(NewOps) : Done(d, children)
           \/ Failed,
           TabShape', KeepLeaders, term_' = term_
    PROVE  EInv'
<1>1. OpsShape /\ ops # <<>> /\ ~Running("SelectLeader")
  BY DEF EInv, Running
<1>2. OpsShape' /\ ~Running("ChangeLeader")' /\ data' \in {NoData, d}
  <2>1. CASE \E children \in Seq(NewOps) : Done(d, children)
    <3>1. PICK children \in Seq(NewOps) : Done(d, children)
      BY <2>1
    <3> QED BY <1>1, <3>1, DoneFact
  <2>2. CASE Failed
    BY <1>1, <2>2, FailedFact
  <2> QED BY <2>1, <2>2
<1>3. IsData(data)' /\ (data'.pc = "ask" => data' = data)
  BY <1>2, NoDataFact DEF IsData
<1> QED BY <1>2, <1>3, Kept

\* A call to a tablet was answered, or the operation failed.
LEMMA CallFact ==
    ASSUME EInv, NEW do, do # "SelectLeader", Running(do), Answered \/ Failed,
           TabShape', KeepLeaders, term_' = term_
    PROVE  EInv'
<1>1. Done(data, <<>>) \/ Failed
  BY DEF Answered
<1>2. IsData(data) /\ <<>> \in Seq(NewOps)
  BY EmptySeq DEF EInv, Shapes
<1>3. \/ \E children \in Seq(NewOps) : Done(data, children)
      \/ Failed
  BY <1>1, <1>2, Zenon
<1> QED BY <1>2, <1>3, TaskEnds

LEMMA TabletTaskStep ==
    ASSUME EInv,
           \/ DelReplica \/ AddReplica \/ PauseSnapshot \/ RecoverSnapshot \/ SendSnapshot
           \/ DropTable \/ LoadTable
    PROVE  EInv'
<1>1. TabShape
  BY DEF EInv, Shapes
<1>2. CASE DelReplica
  <2>1. Running("DelReplica") /\ UNCHANGED <<term_, tab, callVars>> /\ (Answered \/ Failed)
    BY <1>2, Zenon DEF DelReplica, TabletTask, Call, infoVars
  <2> QED BY <1>1, <2>1, TabSame, CallFact
<1>3. CASE AddReplica
  <2>1. Running("AddReplica") /\ UNCHANGED <<term_, tab, callVars>> /\ (Answered \/ Failed)
    BY <1>3, Zenon DEF AddReplica, TabletTask, Call, infoVars
  <2> QED BY <1>1, <2>1, TabSame, CallFact
<1>4. CASE SendSnapshot
  <2>1. Running("SendSnapshot") /\ UNCHANGED <<term_, tab, callVars>> /\ (Answered \/ Failed)
    BY <1>4, Zenon DEF SendSnapshot, TabletTask, Call, infoVars
  <2> QED BY <1>1, <2>1, TabSame, CallFact
<1>5. CASE PauseSnapshot
  <2>1. /\ Running("PauseSnapshot") /\ UNCHANGED <<term_, callVars>> /\ (Answered \/ Failed)
        /\ tab' = tab \/ tab' = [tab EXCEPT ![Current.at].paused = TRUE]
    BY <1>5 DEF PauseSnapshot, TabletTask, Call, infoVars
  <2>2. TabShape' /\ KeepLeaders
    BY <1>1, <2>1, CallsSame, TabSame, TabField, Zenon
  <2> QED BY <2>1, <2>2, CallFact
<1>6. CASE RecoverSnapshot
  <2>1. /\ Running("RecoverSnapshot") /\ UNCHANGED <<term_, callVars>> /\ (Answered \/ Failed)
        /\ tab' = tab \/ tab' = [tab EXCEPT ![Current.at].paused = FALSE]
    BY <1>6 DEF RecoverSnapshot, TabletTask, Call, infoVars
  <2>2. TabShape' /\ KeepLeaders
    BY <1>1, <2>1, CallsSame, TabSame, TabField, Zenon
  <2> QED BY <2>1, <2>2, CallFact
<1>7. CASE DropTable
  <2>1. /\ Running("DropTable") /\ term_' = term_ /\ (Answered \/ Failed)
        /\ \/ tab' = tab /\ UNCHANGED callVars
           \/ tab' = [tab EXCEPT ![Current.ep] = NoTable] /\ TableGone(Current.ep)
    BY <1>7, Zenon DEF DropTable, TabletTask, Call, TableGone, infoVars
  <2>2. IsTab(NoTable) /\ NoTable.leader = FALSE
    BY DEF NoTable, IsTab
  <2>3. TabShape' /\ KeepLeaders
    BY <1>1, <2>1, <2>2, CallsGone, TabSame, TabSet
  <2> QED BY <2>1, <2>3, CallFact
<1>8. CASE LoadTable
  <2> DEFINE r == [NoTable EXCEPT !.table = TRUE, !.log = disk[Current.ep].log]
  <2>1. /\ Running("LoadTable") /\ UNCHANGED <<term_, callVars>> /\ (Answered \/ Failed)
        /\ tab' = tab \/ tab' = [tab EXCEPT ![Current.ep] = r]
    BY <1>8, Zenon DEF LoadTable, TabletTask, Call, infoVars
  <2>2. IsTab(r) /\ r.leader = FALSE
    BY LoadedFact, Zenon
  <2> HIDE DEF r
  <2>3. TabShape' /\ KeepLeaders
    BY <1>1, <2>1, <2>2, CallsSame, TabSame, TabSet
  <2> QED BY <2>1, <2>3, CallFact
<1> QED BY <1>2, <1>3, <1>4, <1>5, <1>6, <1>7, <1>8

\* The tasks of the name server itself, and calls that do not arrive.
LEMMA InfoTaskStep ==
    ASSUME EInv, UpdatePartitionStatus \/ UpdateLeaderInfo
    PROVE  EInv'
<1>1. /\ Running("UpdatePartitionStatus") \/ Running("UpdateLeaderInfo")
      /\ Done(NoData, <<>>) \/ Failed
      /\ UNCHANGED <<tab, callVars, term_>>
  BY Zenon DEF UpdatePartitionStatus, UpdateLeaderInfo, tabletVars
<1>2. \/ \E children \in Seq(NewOps) : Done(NoData, children)
      \/ Failed
  BY <1>1, EmptySeq, Zenon
<1>3. TabShape' /\ KeepLeaders
  BY <1>1, TabSame DEF EInv, Shapes
<1>4. IsData(NoData) /\ NoData.pc # "ask"
  BY NoDataFact
<1> QED BY <1>1, <1>2, <1>3, <1>4, TaskEnds

\* The running operation fails, with whatever task.
LEMMA FailsStep ==
    ASSUME EInv, ops # <<>>, Failed, TabShape', KeepLeaders, term_' = term_
    PROVE  EInv'
<1>1. OpsShape' /\ ~Running("ChangeLeader")' /\ data' = NoData
  BY FailedFact DEF EInv
<1>2. IsData(data)' /\ data'.pc # "ask"
  BY <1>1, NoDataFact DEF IsData
<1> QED BY <1>1, <1>2, Kept

LEMMA CallLostStep ==
    ASSUME EInv, CallLost
    PROVE  EInv'
<1>1. ops # <<>> /\ Failed /\ UNCHANGED <<tab, callVars, term_>>
  BY DEF CallLost, tabletVars, infoVars
<1>2. TabShape' /\ KeepLeaders
  BY <1>1, TabSame DEF EInv, Shapes
<1> QED BY <1>1, <1>2, FailsStep

-----------------------------------------------------------------------------
(* RecoverTable.                                                           *)

\* What steps that learn something leave in data.
LEMMA DataPc ==
    ASSUME NEW d, IsData(d), NEW x, NEW q, q = [d EXCEPT !.pc = x]
    PROVE  IsData(q) /\ q.pc = x
<1>1. PICK a, b, c, e, f, g, h :
         d = [pc |-> a, left |-> b, best |-> c, term |-> e, offset |-> f,
              has_table |-> g, leader |-> h]
  BY Zenon DEF IsData
<1>2. q = [pc |-> x, left |-> b, best |-> c, term |-> e, offset |-> f,
           has_table |-> g, leader |-> h]
  BY <1>1
<1> QED BY <1>2 DEF IsData

\* The running task goes on: the operations stay.
LEMMA GoesOn ==
    ASSUME EInv, NEW do, do # "ChangeLeader", Running(do), UNCHANGED <<ops, term_>>,
           TabShape', KeepLeaders, IsData(data)',
           data'.pc = "ask" => data.pc = "ask" /\ data'.term = data.term
    PROVE  EInv'
<1>1. OpsShape' /\ ~Running("ChangeLeader")'
  BY DEF EInv, OpsShape, Running
<1> QED BY <1>1, Kept

\* The operation that ChooseReAdd creates has no election.
LEMMA ReAddChildren ==
    ASSUME EInv, ChooseReAdd
    PROVE  (\E children \in Seq(NewOps) : Done(NoData, children)) \/ Failed
<1>1. OpsShape /\ ops # <<>>
  BY Zenon DEF EInv, ChooseReAdd, Running
<1>2. Current.ep \in Tablets \cup {None}
  <2>1. Head(ops) \in OpType
    BY <1>1 DEF OpsShape, GoodOps
  <2>2. Current \in Task
    BY <2>1 DEF OpType, Current
  <2> QED BY <2>2 DEF Task
<1>3. \A drop, send, load \in BOOLEAN : ReAdd(Current.ep, drop, send, load) \in Seq(NewOps)
  BY <1>2, ReAddFact
<1>4. /\ CreateReAddReplicaSimplifyOP(Current.ep) \in Seq(NewOps)
      /\ CreateReAddReplicaWithDropOP(Current.ep) \in Seq(NewOps)
      /\ CreateReAddReplicaNoSendOP(Current.ep) \in Seq(NewOps)
      /\ CreateReAddReplicaOP(Current.ep) \in Seq(NewOps)
  BY <1>3, Zenon
     DEF CreateReAddReplicaSimplifyOP, CreateReAddReplicaWithDropOP,
         CreateReAddReplicaNoSendOP, CreateReAddReplicaOP
<1> QED BY <1>4, Zenon DEF ChooseReAdd

LEMMA RecoverTableStep ==
    ASSUME EInv, GetTermPair \/ Demote \/ ChooseReAdd
    PROVE  EInv'
<1>1. TabShape /\ IsData(data) /\ OpsShape
  BY DEF EInv, Shapes
<1>2. /\ Running("RecoverTable") /\ term_' = term_ /\ ops # <<>>
      /\ data.pc # "ask"
  BY Zenon DEF GetTermPair, Demote, ChooseReAdd, infoVars, Running
<1>3. <<>> \in Seq(NewOps) /\ IsData(NoData) /\ NoData.pc # "ask"
  BY EmptySeq, NoDataFact
<1>4. CASE GetTermPair
  <2>1. UNCHANGED <<tab, callVars>>
    BY <1>4 DEF GetTermPair, tabletVars
  <2>2. TabShape' /\ KeepLeaders
    BY <1>1, <2>1, TabSame
  <2> DEFINE t == tab[Current.ep]
             term == IF t.table THEN t.term ELSE disk[Current.ep].term
             offset == Len(IF t.table THEN t.log ELSE disk[Current.ep].log)
             pc == IF t.table /\ ~t.leader THEN "match" ELSE "demote"
             has == t.table
             leader == GetLeader
             d == [NoData EXCEPT !.leader = leader, !.has_table = has, !.term = term,
                                 !.offset = offset, !.pc = pc]
  <2>3. Done(NoData, <<>>) \/ Failed \/ (UNCHANGED ops /\ data' = d)
    BY <1>4, Zenon DEF GetTermPair
  <2>4. CASE Done(NoData, <<>>) \/ Failed
    <3>1. (\E children \in Seq(NewOps) : Done(NoData, children)) \/ Failed
      BY <1>3, <2>4, Zenon
    <3> QED BY <1>2, <1>3, <2>2, <3>1, TaskEnds
  <2>5. CASE UNCHANGED ops /\ data' = d
    <3>1. IsData(data') /\ data'.pc # "ask"
      <4>1. pc # "ask"
        OBVIOUS
      <4> HIDE DEF pc, term, offset, has, leader, t
      <4>2. IsData(d) /\ d.pc = pc
        <5>1. PICK v1, v2, v3, v4, v5 :
                 v1 = leader /\ v2 = has /\ v3 = term /\ v4 = offset /\ v5 = pc
          BY Zenon
        <5>2. d = [NoData EXCEPT !.leader = v1, !.has_table = v2, !.term = v3,
                                 !.offset = v4, !.pc = v5]
          BY <5>1, Zenon
        <5> HIDE DEF d
        <5>3. PICK p, l, m, u, o, h, w :
                 NoData = [pc |-> p, left |-> l, best |-> m, term |-> u, offset |-> o,
                           has_table |-> h, leader |-> w]
          BY Zenon DEF NoData
        <5>4. d = [pc |-> v5, left |-> l, best |-> m, term |-> v3, offset |-> v4,
                   has_table |-> v2, leader |-> v1]
          BY <5>2, <5>3, Zenon
        <5> QED BY <5>1, <5>4, Zenon DEF IsData
      <4> HIDE DEF d
      <4> QED BY <2>5, <4>1, <4>2
    <3>2. IsData(data)'
      BY <3>1 DEF IsData
    <3> QED BY <1>2, <2>2, <2>5, <3>1, <3>2, GoesOn, Zenon
  <2> QED BY <2>3, <2>4, <2>5
<1>5. CASE Demote
  <2>1. /\ tab' = tab \/ tab' = [tab EXCEPT ![Current.ep].leader = FALSE]
        /\ UNCHANGED callVars
    BY <1>5 DEF Demote
  <2>2. TabShape' /\ KeepLeaders
    BY <1>1, <2>1, CallsSame, TabSame, TabField, Zenon
  <2>3. Failed \/ (data' = [data EXCEPT !.pc = "match"] /\ UNCHANGED ops)
    BY <1>5 DEF Demote
  <2>4. CASE Failed
    BY <1>2, <1>3, <2>2, <2>4, TaskEnds
  <2>5. CASE data' = [data EXCEPT !.pc = "match"] /\ UNCHANGED ops
    <3>1. IsData(data') /\ data'.pc # "ask"
      BY <1>1, <2>5, DataPc
    <3>2. IsData(data)'
      BY <3>1 DEF IsData
    <3> QED BY <1>2, <2>2, <2>5, <3>1, <3>2, GoesOn
  <2> QED BY <2>3, <2>4, <2>5
<1>6. CASE ChooseReAdd
  <2>1. UNCHANGED <<tab, callVars>>
    BY <1>6, Zenon DEF ChooseReAdd, tabletVars
  <2>2. TabShape' /\ KeepLeaders
    BY <1>1, <2>1, TabSame
  <2>3. (\E children \in Seq(NewOps) : Done(NoData, children)) \/ Failed
    BY <1>6, ReAddChildren
  <2> QED BY <1>2, <1>3, <2>2, <2>3, TaskEnds
<1> QED BY <1>4, <1>5, <1>6

-----------------------------------------------------------------------------
(* The election.                                                           *)

\* Terms above those of all leaders go into the election.
LEMMA SelectLeaderStep ==
    ASSUME EInv, SelectLeader
    PROVE  EInv'
<1>1. /\ TabShape /\ CallShape /\ OpsShape /\ term_ \in Nat
      /\ LeadersBelow(term_ + 1) /\ CallsBelow(term_ + 1)
      /\ LateOnLeaders /\ OneLeaderPerTerm
  BY DEF EInv, Shapes
<1>2. Running("SelectLeader") /\ ops # <<>> /\ UNCHANGED <<tab, callVars>>
  BY DEF SelectLeader, tabletVars, Running
<1>3. TabShape' /\ KeepLeaders
  BY <1>1, <1>2, TabSame
<1>4. \/ Failed /\ UNCHANGED term_
      \/ /\ term_' = term_ + 2
         /\ \/ Failed
            \/ /\ data' = [NoData EXCEPT !.pc = "ask", !.left = Followers, !.term = term_ + 1]
               /\ UNCHANGED ops
  BY Zenon DEF SelectLeader, TermTaken
<1>5. CASE Failed /\ UNCHANGED term_
  BY <1>2, <1>3, <1>5, FailsStep
<1>6. ASSUME term_' = term_ + 2
      PROVE  /\ term_' \in Nat /\ LeadersBelow(term_ + 1)' /\ CallsBelow(term_ + 1)'
             /\ CallShape' /\ LateOnLeaders' /\ OneLeaderPerTerm'
  <2>1. term_' \in Nat /\ LeadersBelow(term_ + 1)' /\ OneLeaderPerTerm'
    BY <1>1, <1>2, <1>6 DEF LeadersBelow, OneLeaderPerTerm, callVars
  <2>2. \A c \in calls' : c \in calls /\ c.term \in Nat /\ c.term < term_ + 1
    BY <1>1, <1>2 DEF CallsBelow, CallShape, callVars
  <2>3. CallsBelow(term_ + 1)'
    BY <1>1, <1>6, <2>2 DEF CallsBelow
  <2>4. CallShape' /\ LateOnLeaders'
    BY <1>1, <1>2 DEF CallShape, LateOnLeaders, callVars
  <2> QED BY <2>1, <2>3, <2>4
<1>7. CASE term_' = term_ + 2 /\ Failed
  <2>1. OpsShape' /\ ~Running("ChangeLeader")' /\ data' = NoData
    BY <1>1, <1>2, <1>7, FailedFact
  <2>2. IsData(data)' /\ data'.pc # "ask"
    BY <2>1, NoDataFact, Zenon DEF IsData
  <2> QED BY <1>3, <1>6, <1>7, <2>1, <2>2, Zenon DEF EInv, Shapes
<1>8. CASE /\ term_' = term_ + 2 /\ UNCHANGED ops
           /\ data' = [NoData EXCEPT !.pc = "ask", !.left = Followers, !.term = term_ + 1]
  <2>1. OpsShape' /\ ~Running("ChangeLeader")'
    BY <1>1, <1>2, <1>8 DEF OpsShape, Running
  <2>2. IsData(data)' /\ data'.term = term_ + 1
    <3> DEFINE x == Followers
               y == term_ + 1
    <3> HIDE DEF x, y
    <3>1. data' = [NoData EXCEPT !.pc = "ask", !.left = x, !.term = y]
      BY <1>8, Zenon DEF x, y
    <3>2. data' = [pc |-> "ask", left |-> x, best |-> {}, term |-> y, offset |-> 0,
                   has_table |-> FALSE, leader |-> None]
      BY <3>1, Zenon DEF NoData
    <3>3. IsData(data)' /\ data'.term = y
      BY <3>2, Zenon DEF IsData
    <3> QED BY <3>3 DEF y
  <2>3. LeadersBelow(data.term)' /\ AskCalls(data.term)'
    BY <1>1, <1>2, <2>2, Zenon DEF LeadersBelow, CallsBelow, AskCalls, callVars
  <2>4. data'.term + 1 = term_' /\ data'.term \in Nat
    BY <1>1, <1>8, <2>2
  <2> QED BY <1>3, <1>6, <1>8, <2>1, <2>2, <2>3, <2>4 DEF EInv, Shapes
<1> QED BY <1>4, <1>5, <1>7, <1>8

LEMMA FollowOfNoOneStep ==
    ASSUME EInv, NEW f \in Tablets, FollowOfNoOne(f)
    PROVE  EInv'
<1>1. /\ Running("SelectLeader") /\ ops # <<>> /\ data.pc = "ask"
      /\ UNCHANGED <<tab, raced, term_>>
      /\ \/ Checked(None, f, data.term, 0, 0) /\ UNCHANGED <<ops, data>>
         \/ Failed /\ UNCHANGED calls
  BY Zenon DEF FollowOfNoOne, Running, infoVars
<1>2. data.term + 1 = term_ /\ data.term \in Nat /\ ~Running("ChangeLeader")
  BY <1>1 DEF EInv, Running
<1>3. CASE Checked(None, f, data.term, 0, 0) /\ UNCHANGED <<ops, data>>
  <2>1. data.term < term_ + 1
    BY <1>2
  <2> QED BY <1>1, <1>2, <1>3, <2>1, CheckedStep
<1>4. CASE Failed /\ UNCHANGED calls
  <2>1. TabShape' /\ KeepLeaders
    BY <1>1, <1>4, TabSame DEF EInv, Shapes, callVars
  <2> QED BY <1>1, <1>4, <2>1, FailsStep
<1> QED BY <1>1, <1>3, <1>4

\* The answers leave the term of the new leader above all others.
LEMMA OffsetAnsweredStep ==
    ASSUME EInv, NEW c \in calls, OffsetAnswered(c)
    PROVE  EInv'
<1>1. /\ TabShape /\ CallShape /\ OpsShape /\ IsData(data) /\ term_ \in Nat
      /\ LeadersBelow(term_ + 1) /\ CallsBelow(term_ + 1) /\ LateOnLeaders /\ OneLeaderPerTerm
  BY DEF EInv, Shapes
<1>2. Running("SelectLeader") /\ ops # <<>> /\ data.pc = "ask" /\ term_' = term_ /\ Finish(c)
  BY Zenon DEF OffsetAnswered, Asked, Running, infoVars
<1>3. /\ data.term + 1 = term_ /\ data.term \in Nat
      /\ LeadersBelow(data.term) /\ AskCalls(data.term)
  BY <1>2 DEF EInv
<1>5. TabShape' /\ KeepLeaders
  BY <1>2, FinishLeaders
<1> DEFINE f == c.to
           first == data.best = {} \/ c.offset > data.offset
           max == IF first THEN c.offset ELSE data.offset
           best == IF first THEN {f}
                   ELSE IF c.offset = data.offset THEN data.best \cup {f} ELSE data.best
<1>6. \/ /\ data' = [data EXCEPT !.left = @ \ {f}, !.best = best, !.offset = max]
         /\ UNCHANGED ops
      \/ \E l \in best :
            Done([NoData EXCEPT !.leader = l, !.offset = max, !.term = data.term + 1], <<>>)
  BY Zenon DEF OffsetAnswered
<1>8. CASE data' = [data EXCEPT !.left = @ \ {f}, !.best = best, !.offset = max] /\ UNCHANGED ops
  <2>1. PICK x, y, z : data' = [data EXCEPT !.left = x, !.best = y, !.offset = z]
    BY <1>8, Zenon
  <2>2. PICK pc, left, b, term, o, has, l :
           data = [pc |-> pc, left |-> left, best |-> b, term |-> term, offset |-> o,
                   has_table |-> has, leader |-> l]
    BY <1>1, Zenon DEF IsData
  <2>3. data' = [pc |-> pc, left |-> x, best |-> y, term |-> term, offset |-> z,
                 has_table |-> has, leader |-> l]
    BY <2>1, <2>2, Zenon
  <2>4. IsData(data)' /\ data'.pc = pc /\ data'.term = term
    BY <2>3 DEF IsData
  <2>5. data.pc = pc /\ data.term = term
    BY <2>2
  <2> QED BY <1>2, <1>5, <1>8, <2>4, <2>5, GoesOn, Zenon
<1>9. CASE \E l \in best :
              Done([NoData EXCEPT !.leader = l, !.offset = max, !.term = data.term + 1], <<>>)
  <2>1. PICK l, o : Done([NoData EXCEPT !.leader = l, !.offset = o, !.term = data.term + 1], <<>>)
    BY <1>9, Zenon
  <2> DEFINE y == data.term + 1
             d == [NoData EXCEPT !.leader = l, !.offset = o, !.term = y]
  <2>2. IsData(d) /\ d.pc = "start" /\ d.term = y
    <3> HIDE DEF y
    <3>1. PICK v : v = y
      BY Zenon
    <3>2. d = [NoData EXCEPT !.leader = l, !.offset = o, !.term = v]
      BY <3>1, Zenon
    <3> HIDE DEF d
    <3>3. PICK left, b, has :
             NoData = [pc |-> "start", left |-> left, best |-> b, term |-> 0, offset |-> 0,
                       has_table |-> has, leader |-> None]
      BY Zenon DEF NoData
    <3>4. d = [pc |-> "start", left |-> left, best |-> b, term |-> v, offset |-> o,
               has_table |-> has, leader |-> l]
      BY <3>2, <3>3, Zenon
    <3> QED BY <3>1, <3>4, Zenon DEF IsData
  <2>3. Done(d, <<>>)
    BY <2>1
  <2> HIDE DEF d
  <2>4. OpsShape' /\ (Running("ChangeLeader")' => data' = d) /\ data' \in {NoData, d}
    BY <1>1, <1>2, <2>3, DoneFact, EmptySeq, Zenon
  <2>5. IsData(data)' /\ data'.pc = "start"
    BY <2>2, <2>4, NoDataFact, ZenonT(60) DEF IsData
  <2>6. /\ LeadersBelow(term_ + 1)' /\ LeadersBelow(term_)'
        /\ CallsBelow(term_ + 1)' /\ CallsBelow(term_)'
    <3>1. /\ \A t \in Tablets : tab'[t].leader => tab'[t].term \in Nat /\ tab'[t].term < data.term
          /\ \A e \in calls' : e.term < data.term \/ e.term = data.term
      BY <1>1, <1>3, <1>5, StayBelow
    <3>2. CallShape'
      BY <1>1, <1>5, StayOne
    <3>3. LeadersBelow(term_ + 1)' /\ LeadersBelow(term_)'
      BY <1>1, <1>2, <1>3, <3>1 DEF LeadersBelow
    <3>4. \A e \in calls' : e.term \in Nat
      BY <3>2 DEF CallShape
    <3>5. CallsBelow(term_ + 1)' /\ CallsBelow(term_)'
      BY <1>1, <1>2, <1>3, <3>1, <3>4 DEF CallsBelow
    <3> QED BY <3>3, <3>5
  <2>8. CallShape' /\ LateOnLeaders' /\ OneLeaderPerTerm'
    BY <1>1, <1>5, StayOne
  <2>7. Running("ChangeLeader")' => data'.term = term_'
    BY <1>2, <1>3, <2>2, <2>4
  <2> QED BY <1>1, <1>2, <1>5, <2>4, <2>5, <2>6, <2>7, <2>8, Zenon DEF EInv, Shapes
<1> QED BY <1>6, <1>8, <1>9, Zenon

\* The new leader's term is above those of all others.
LEMMA ChangeLeaderStep ==
    ASSUME EInv, ChangeLeader
    PROVE  EInv'
<1>1. /\ TabShape /\ CallShape /\ OpsShape /\ IsData(data) /\ term_ \in Nat
      /\ LateOnLeaders /\ OneLeaderPerTerm
  BY DEF EInv, Shapes
<1>2. Running("ChangeLeader") /\ ops # <<>> /\ term_' = term_ /\ UNCHANGED callVars
  BY Zenon DEF ChangeLeader, TabletTask, Call, Running, infoVars
<1>3. data.pc = "start" /\ data.term = term_ /\ LeadersBelow(term_) /\ CallsBelow(term_)
  BY <1>2 DEF EInv
<1> DEFINE l == data.leader
<1>4. /\ Answered \/ Failed
      /\ \/ tab' = tab
         \/ tab' = [tab EXCEPT ![l].leader = TRUE, ![l].term = data.term]
  BY DEF ChangeLeader, TabletTask, Call
<1>5. /\ TabShape'
      /\ \A t \in Tablets : tab'[t].leader => \/ tab[t].leader /\ tab'[t].term = tab[t].term
                                              \/ t = l /\ tab'[t].term = term_
  <2>1. CASE tab' = tab
    BY <1>1, <2>1 DEF TabShape
  <2>2. CASE tab' = [tab EXCEPT ![l].leader = TRUE, ![l].term = data.term]
    <3> DEFINE p == [tab[l] EXCEPT !.leader = TRUE]
               r == [p EXCEPT !.term = term_]
    <3>1. tab' = [tab EXCEPT ![l] = r]
      BY <1>1, <1>3, <2>2, Zenon DEF TabShape
    <3>2. l \in Tablets => IsTab(r) /\ r.term = term_
      <4>1. l \in Tablets => IsTab(tab[l])
        BY <1>1 DEF TabShape
      <4>2. IsTab(tab[l]) => IsTab(p)
        BY LeaderField
      <4> HIDE DEF p
      <4>3. r = [p EXCEPT !.term = term_]
        OBVIOUS
      <4> HIDE DEF r
      <4>4. ASSUME IsTab(p) PROVE IsTab(r) /\ r.term = term_
        BY <1>1, <4>3, <4>4, TermField
      <4> QED BY <4>1, <4>2, <4>4
    <3> HIDE DEF r, l
    <3>3. \A t \in Tablets : tab'[t] = IF t = l THEN r ELSE tab[t]
      BY <1>1, <3>1 DEF TabShape
    <3>4. tab' = [t \in Tablets |-> tab'[t]]
      BY <1>1, <3>1 DEF TabShape
    <3>5. \A t \in Tablets : IsTab(tab'[t])
      BY <1>1, <3>2, <3>3 DEF TabShape
    <3> QED BY <3>2, <3>3, <3>4, <3>5 DEF TabShape
  <2> QED BY <1>4, <2>1, <2>2
<1> HIDE DEF l
<1>6. LeadersBelow(term_ + 1)' /\ CallsBelow(term_ + 1)' /\ CallShape'
  <2>1. LeadersBelow(term_ + 1)'
    BY <1>1, <1>2, <1>3, <1>5 DEF LeadersBelow
  <2>2. CallsBelow(term_ + 1)' /\ CallShape'
    BY <1>1, <1>2, <1>3 DEF CallsBelow, CallShape, callVars
  <2> QED BY <2>1, <2>2
<1>10. LateOnLeaders'
  <2> SUFFICES ASSUME NEW c \in calls, tab'[c.to].leader, c.to \notin raced
               PROVE  tab'[c.to].term # c.seen
    BY <1>2 DEF LateOnLeaders, callVars
  <2>1. c.to \in Tablets /\ c.seen \in Nat /\ c.seen < term_
    BY <1>1, <1>3 DEF CallShape, CallsBelow
  <2>2. CASE tab[c.to].leader /\ tab'[c.to].term = tab[c.to].term
    BY <1>1, <2>2 DEF LateOnLeaders
  <2>3. CASE tab'[c.to].term = term_
    BY <1>1, <2>1, <2>3
  <2> QED BY <1>5, <2>1, <2>2, <2>3
<1>7. OneLeaderPerTerm'
  <2> SUFFICES ASSUME NEW t \in Tablets, NEW u \in Tablets, tab'[t].leader, tab'[u].leader,
                      t \notin raced, u \notin raced, tab'[t].term = tab'[u].term
               PROVE  t = u
    BY <1>2 DEF OneLeaderPerTerm, callVars
  <2>1. \A v \in Tablets : tab[v].leader => tab[v].term # term_
    BY <1>1, <1>3 DEF LeadersBelow
  <2> QED BY <1>1, <1>5, <2>1, Zenon DEF OneLeaderPerTerm
<1>8. OpsShape' /\ ~Running("ChangeLeader")' /\ data' \in {NoData, data}
  <2>1. ~Running("SelectLeader")
    BY <1>2 DEF Running
  <2>2. CASE Done(data, <<>>)
    BY <1>1, <1>2, <2>1, <2>2, DoneFact, EmptySeq, Zenon
  <2>3. CASE Failed
    BY <1>1, <1>2, <2>3, FailedFact
  <2> QED BY <1>4, <2>2, <2>3 DEF Answered
<1>9. IsData(data)' /\ data'.pc # "ask"
  BY <1>1, <1>3, <1>8, NoDataFact, Zenon DEF IsData
<1> QED BY <1>1, <1>2, <1>5, <1>6, <1>7, <1>8, <1>9, <1>10, Zenon DEF EInv, Shapes

-----------------------------------------------------------------------------
(* The theorem.                                                            *)

LEMMA InitEInv == Init => EInv
<1> SUFFICES ASSUME Init PROVE EInv
  OBVIOUS
<1>1. ops = <<>> /\ data = NoData /\ term_ = 1 /\ calls = {}
  BY Zenon DEF Init
<1>2. \A t \in Tablets : /\ IsTab(tab[t]) /\ (tab[t].leader => t = First /\ tab[t].term = 1)
  <2> SUFFICES ASSUME NEW t \in Tablets
               PROVE  IsTab(tab[t]) /\ (tab[t].leader => t = First /\ tab[t].term = 1)
    OBVIOUS
  <2>1. PICK a, b, x : /\ tab[t] = [table |-> TRUE, leader |-> a, term |-> b, log |-> x,
                                    paused |-> FALSE]
                       /\ a = (t = First) /\ b = IF t = First \/ Saved > 0 THEN 1 ELSE 0
    BY Zenon DEF Init
  <2>2. b \in Nat /\ (t = First => b = 1)
    BY <2>1
  <2>4. tab[t].leader = a /\ tab[t].term = b
    BY <2>1
  <2>5. tab[t].table = TRUE /\ tab[t].log = x /\ tab[t].paused = FALSE
    BY <2>1
  <2>6. tab[t] = [table |-> tab[t].table, leader |-> tab[t].leader, term |-> tab[t].term,
                  log |-> tab[t].log, paused |-> tab[t].paused]
    BY ONLY <2>1, <2>4, <2>5, Zenon
  <2>3. IsTab(tab[t])
    BY <2>2, <2>4, <2>6 DEF IsTab
  <2> QED BY <2>1, <2>2, <2>3, <2>4, ZenonT(60)
<1>3. tab = [t \in Tablets |-> tab[t]]
  BY Zenon DEF Init
<1>4. Shapes
  BY <1>1, <1>2, <1>3, NoDataFact DEF Shapes, TabShape, CallShape
<1>5. OpsShape /\ ~Running("ChangeLeader") /\ data.pc # "ask"
  BY <1>1, NoDataFact DEF OpsShape, Running
<1>6. LeadersBelow(term_ + 1) /\ CallsBelow(term_ + 1)
  BY <1>1, <1>2 DEF LeadersBelow, CallsBelow
<1>7. OneLeaderPerTerm /\ LateOnLeaders
  BY <1>1, <1>2 DEF OneLeaderPerTerm, LateOnLeaders
<1> QED BY <1>4, <1>5, <1>6, <1>7 DEF EInv

LEMMA OpStepEInv ==
    ASSUME EInv, OpStep
    PROVE  EInv'
BY TabletTaskStep, InfoTaskStep, RecoverTableStep, SelectLeaderStep, FollowOfNoOneStep,
   ChangeLeaderStep DEF OpStep

LEMMA NextEInv == EInv /\ [Next]_vars => EInv'
<1> SUFFICES ASSUME EInv, [Next]_vars PROVE EInv'
  OBVIOUS
<1>1. ASSUME NEW t \in Tablets,
             \/ Put(t) \/ MakeSnapshot(t)
             \/ Crash(t) \/ SessionExpires(t) \/ Restart(t) \/ CheckZkClient(t)
             \/ HeartbeatTimeout(t)
             \/ OnTabletOffline(t) \/ OfflineAfterTimeout(t)
             \/ OnTabletOnline(t) \/ OfflineAtStartup(t) \/ RecoverOnline(t)
      PROVE  EInv'
  BY <1>1, TabletStep, WatchStep
<1>2. ASSUME NEW l \in Tablets, NEW f \in Tablets, MatchLogOffset(l, f) \/ SyncData(l, f)
      PROVE  EInv'
  BY <1>2, ReplicationStep
<1>7. ASSUME NEW c \in calls, AppendEntries(c) \/ OffsetAnswered(c)
      PROVE  EInv'
  BY <1>7, HandlerStep, OffsetAnsweredStep
<1>3. CASE UpdateTablets
  BY <1>3, QuietStep, Zenon DEF UpdateTablets, tabletVars, infoVars
<1>4. CASE OpStep
  BY <1>4, OpStepEInv
<1>5. CASE CallLost
  BY <1>5, CallLostStep
<1>6. CASE UNCHANGED vars
  BY <1>6, QuietStep DEF vars, tabletVars, infoVars
<1> QED BY <1>1, <1>2, <1>3, <1>4, <1>5, <1>6, <1>7, Zenon DEF Next

\* The terms that an election hands out stay above those of all leaders and of
\* all requests that a handler of AppendEntries has let through and not finished.
THEOREM ElectionTerms == Spec => []EInv
BY InitEInv, NextEInv, PTL DEF Spec

\* Two tablets never lead in the same term: SelectLeader takes terms from the
\* term node that no leader has, and ChangeLeader runs only with such a term.  Tables
\* on which a handler of AppendEntries came too late are excepted: see the property.
THEOREM OneLeaderPerTermHolds == Spec => []OneLeaderPerTerm
<1>1. EInv => OneLeaderPerTerm
  BY DEF EInv
<1> QED BY <1>1, ElectionTerms, PTL

-----------------------------------------------------------------------------
(* The leaders in table_info.                                              *)

IsMeta(r) == r = [leader |-> r.leader, alive |-> r.alive]

AInv ==
    /\ meta = [t \in Tablets |-> meta[t]] /\ \A t \in Tablets : IsMeta(meta[t])
    /\ \A t, u \in AliveLeaders : t = u

LEMMA AtMostOne == AInv => OneAliveLeader
BY DEF AInv, OneAliveLeader

\* Another entry for one replica that makes it no leader that is alive.
LEMMA MetaSet ==
    ASSUME AInv, NEW e, NEW r, meta' = [meta EXCEPT ![e] = r],
           e \in Tablets => IsMeta(r) /\ (r.leader /\ r.alive => meta[e].leader /\ meta[e].alive)
    PROVE  AInv'
<1>1. \A t \in Tablets : meta'[t] = IF t = e THEN r ELSE meta[t]
  BY DEF AInv
<1>2. meta' = [t \in Tablets |-> meta'[t]] /\ \A t \in Tablets : IsMeta(meta'[t])
  BY <1>1 DEF AInv
<1>3. AliveLeaders' \subseteq AliveLeaders
  BY <1>1 DEF AliveLeaders
<1> QED BY <1>2, <1>3 DEF AInv

LEMMA MetaSame ==
    ASSUME AInv, meta' = meta
    PROVE  AInv'
BY DEF AInv, AliveLeaders

LEMMA MetaFields ==
    ASSUME NEW r, IsMeta(r), NEW x
    PROVE  /\ IsMeta([r EXCEPT !.alive = x]) /\ [r EXCEPT !.alive = x].alive = x
           /\ [r EXCEPT !.alive = x].leader = r.leader
           /\ IsMeta([r EXCEPT !.leader = x])
<1>1. PICK a, b : r = [leader |-> a, alive |-> b]
  BY Zenon DEF IsMeta
<1>2. /\ [r EXCEPT !.alive = x] = [leader |-> a, alive |-> x]
      /\ [r EXCEPT !.leader = x] = [leader |-> x, alive |-> b]
      /\ r.leader = a
  BY <1>1
<1> QED BY <1>2 DEF IsMeta

LEMMA EndpointAlive ==
    ASSUME AInv, NEW t \in Tablets, UpdateEndpointTableAlive(t)
    PROVE  AInv'
<1>1. meta' = meta \/ meta' = [meta EXCEPT ![t].alive = FALSE]
  BY DEF UpdateEndpointTableAlive
<1>2. CASE meta' = [meta EXCEPT ![t].alive = FALSE]
  <2> DEFINE r == [meta[t] EXCEPT !.alive = FALSE]
  <2>1. meta' = [meta EXCEPT ![t] = r]
    BY <1>2
  <2>2. IsMeta(r) /\ r.alive = FALSE
    BY MetaFields, Zenon DEF AInv
  <2> HIDE DEF r
  <2> QED BY <2>1, <2>2, MetaSet, Zenon
<1> QED BY <1>1, <1>2, MetaSame

\* Every leader that is alive loses that before the new one is named.
LEMMA LeaderInfo ==
    ASSUME AInv, UpdateLeaderInfo
    PROVE  AInv'
<1> DEFINE l == data.leader
           old == [t \in Tablets |-> IF t \in AliveLeaders THEN [meta[t] EXCEPT !.alive = FALSE]
                                     ELSE meta[t]]
<1>1. meta' = old \/ meta' = [old EXCEPT ![l].leader = TRUE]
  BY Zenon DEF UpdateLeaderInfo
<1>2. /\ old = [t \in Tablets |-> old[t]]
      /\ \A t \in Tablets : IsMeta(old[t]) /\ ~(old[t].leader /\ old[t].alive)
  <2> SUFFICES ASSUME NEW t \in Tablets
               PROVE  IsMeta(old[t]) /\ ~(old[t].leader /\ old[t].alive)
    OBVIOUS
  <2>1. IsMeta(meta[t])
    BY DEF AInv
  <2>2. CASE t \in AliveLeaders
    <3>1. old[t] = [meta[t] EXCEPT !.alive = FALSE]
      BY <2>2
    <3>2. /\ IsMeta([meta[t] EXCEPT !.alive = FALSE])
          /\ [meta[t] EXCEPT !.alive = FALSE].alive = FALSE
      BY <2>1, MetaFields, Zenon
    <3> HIDE DEF old
    <3> QED BY <3>1, <3>2, Zenon
  <2>3. CASE t \notin AliveLeaders
    <3>1. old[t] = meta[t]
      BY <2>3
    <3> HIDE DEF old
    <3> QED BY <2>1, <2>3, <3>1 DEF AliveLeaders
  <2> QED BY <2>2, <2>3
<1> HIDE DEF old, l
<1>3. CASE meta' = old
  BY <1>2, <1>3 DEF AInv, AliveLeaders
<1>4. CASE meta' = [old EXCEPT ![l].leader = TRUE]
  <2> DEFINE r == [old[l] EXCEPT !.leader = TRUE]
  <2>1. meta' = [old EXCEPT ![l] = r]
    BY <1>4
  <2>2. l \in Tablets => IsMeta(r)
    BY <1>2, MetaFields, Zenon
  <2> HIDE DEF r
  <2>3. \A t \in Tablets : meta'[t] = IF t = l THEN r ELSE old[t]
    BY <1>2, <2>1
  <2>4. meta' = [t \in Tablets |-> meta'[t]] /\ \A t \in Tablets : IsMeta(meta'[t])
    BY <1>2, <2>1, <2>2, <2>3
  <2>5. AliveLeaders' \subseteq {l}
    BY <1>2, <2>3 DEF AliveLeaders
  <2> QED BY <2>4, <2>5 DEF AInv
<1> QED BY <1>1, <1>3, <1>4

LEMMA NextAInv == AInv /\ [Next]_vars => AInv'
<1> SUFFICES ASSUME AInv, [Next]_vars PROVE AInv'
  OBVIOUS
<1>1. ASSUME NEW t \in Tablets,
             \/ Put(t) \/ MakeSnapshot(t)
             \/ Crash(t) \/ SessionExpires(t) \/ Restart(t) \/ CheckZkClient(t)
             \/ HeartbeatTimeout(t) \/ OnTabletOffline(t) \/ OnTabletOnline(t) \/ RecoverOnline(t)
      PROVE  AInv'
  <2>1. meta' = meta
    BY <1>1, Zenon DEF Put, MakeSnapshot, Crash, SessionExpires, Restart, CheckZkClient,
                HeartbeatTimeout, OnTabletOffline, OnTabletOnline, RecoverOnline, infoVars
  <2> QED BY <2>1, MetaSame
<1>2. ASSUME NEW t \in Tablets, OfflineAfterTimeout(t) \/ OfflineAtStartup(t)
      PROVE  AInv'
  <2>1. meta' = meta \/ UpdateEndpointTableAlive(t)
    BY <1>2 DEF OfflineAfterTimeout, OfflineAtStartup
  <2> QED BY <2>1, MetaSame, EndpointAlive
<1>3. ASSUME NEW l \in Tablets, NEW f \in Tablets, MatchLogOffset(l, f) \/ SyncData(l, f)
      PROVE  AInv'
  BY <1>3, MetaSame, Zenon DEF MatchLogOffset, SyncData, infoVars
<1>8. ASSUME NEW c \in calls, AppendEntries(c) \/ OffsetAnswered(c)
      PROVE  AInv'
  BY <1>8, MetaSame, Zenon DEF AppendEntries, OffsetAnswered, infoVars
<1>4. CASE UpdateTablets \/ CallLost \/ UNCHANGED vars
  BY <1>4, MetaSame, Zenon DEF UpdateTablets, CallLost, vars, infoVars
<1>5. CASE UpdatePartitionStatus
  <2> DEFINE r == [leader |-> FALSE, alive |-> Current.alive]
  <2>1. meta' = [meta EXCEPT ![Current.ep] = r]
    BY <1>5 DEF UpdatePartitionStatus, NewStatus
  <2>2. IsMeta(r) /\ r.leader = FALSE
    BY DEF IsMeta
  <2> HIDE DEF r
  <2> QED BY <2>1, <2>2, MetaSet, Zenon
<1>6. CASE UpdateLeaderInfo
  BY <1>6, LeaderInfo
<1>7. ASSUME \/ DelReplica \/ AddReplica \/ PauseSnapshot \/ RecoverSnapshot \/ SendSnapshot
             \/ DropTable \/ LoadTable \/ SelectLeader \/ (\E f \in Tablets : FollowOfNoOne(f))
             \/ ChangeLeader \/ GetTermPair \/ Demote \/ ChooseReAdd
      PROVE  AInv'
  <2>1. meta' = meta
    BY <1>7, Zenon DEF DelReplica, AddReplica, PauseSnapshot, RecoverSnapshot, SendSnapshot, DropTable,
                LoadTable, SelectLeader, FollowOfNoOne, ChangeLeader, GetTermPair, Demote,
                ChooseReAdd, TabletTask, infoVars
  <2> QED BY <2>1, MetaSame
<1> QED BY <1>1, <1>2, <1>3, <1>4, <1>5, <1>6, <1>7, <1>8, Zenon DEF Next, OpStep

\* table_info never names two leaders that are alive: UpdateLeaderInfo is the
\* only step that names a leader, and it takes the others out first.
THEOREM OneAliveLeaderHolds == Spec => []OneAliveLeader
<1>1. Init => AInv
  <2> SUFFICES ASSUME Init PROVE AInv
    OBVIOUS
  <2>1. meta = [t \in Tablets |-> [leader |-> t = First, alive |-> TRUE]]
    BY Zenon DEF Init
  <2> QED BY <2>1, Zenon DEF AInv, IsMeta, AliveLeaders
<1> QED BY <1>1, NextAInv, AtMostOne, PTL DEF Spec

-----------------------------------------------------------------------------
(* The types of the queue of operations, of what the name server watches   *)
(* and of table_info.  Only the last task of an operation creates another  *)
(* one.                                                                    *)

\* RecoverTable, the task that creates operations, is the last of its own.
LastRecovers ==
    {s \in Seq(Task) : \A k \in 1 .. Len(s) :
                          s[k].do = "RecoverTable" => k = Len(s) /\ s[k].ep \in Tablets}
QueueOps == [tasks : LastRecovers \ {<<>>}, followers : SUBSET Tablets]
Queue == ops \in Seq(QueueOps) /\ Len(ops) <= MaxOps

Watched ==
    /\ up \in [Tablets -> BOOLEAN] /\ zk \in [Tablets -> {"none", "plain", "startup"}]
    /\ healthy \in [Tablets -> BOOLEAN] /\ offline_map \in [Tablets -> {"no", "new", "late"}]
    /\ checker \in [Tablets -> {"idle", "check", "alive", "offline"}]
    /\ online \in [Tablets -> {"idle", "online", "startup", "offline", "recover", "erase"}]
    /\ faults \in 0 .. MaxFaults

MetaType == [leader : BOOLEAN, alive : BOOLEAN]
MetaOK == meta \in [Tablets -> MetaType]

-----------------------------------------------------------------------------
(* The queue.                                                              *)

LEMMA LastRecoversFact ==
    ASSUME NEW s \in LastRecovers \ {<<>>}
    PROVE  /\ Head(s) \in Task /\ Len(s) \in Nat \ {0}
           /\ Head(s).do = "RecoverTable" => Len(s) = 1 /\ Head(s).ep \in Tablets
           /\ Len(s) # 1 => Tail(s) \in LastRecovers \ {<<>>}
<1>1. /\ s \in Seq(Task) /\ s # <<>>
      /\ \A k \in 1 .. Len(s) : s[k].do = "RecoverTable" => k = Len(s) /\ s[k].ep \in Tablets
  BY Zenon DEF LastRecovers
<1>2. Head(s) = s[1] /\ Head(s) \in Task /\ Len(s) \in Nat \ {0}
  BY <1>1
<1>3. ASSUME Len(s) # 1 PROVE Tail(s) \in LastRecovers \ {<<>>}
  <2>1. /\ Tail(s) \in Seq(Task) /\ Len(Tail(s)) = Len(s) - 1
        /\ \A i \in 1 .. Len(Tail(s)) : Tail(s)[i] = s[i + 1]
    BY <1>1, HeadTailProperties
  <2>2. Tail(s) # <<>>
    <3>1. Len(Tail(s)) # 0
      BY <1>2, <1>3, <2>1
    <3> QED BY <3>1, EmptySeq, Zenon
  <2>3. ASSUME NEW k \in 1 .. Len(Tail(s)), Tail(s)[k].do = "RecoverTable"
        PROVE  k = Len(Tail(s)) /\ Tail(s)[k].ep \in Tablets
    <3>1. k + 1 \in 1 .. Len(s) /\ s[k + 1].do = "RecoverTable" /\ Tail(s)[k] = s[k + 1]
      BY <1>2, <2>1, <2>3
    <3>2. k + 1 = Len(s) /\ s[k + 1].ep \in Tablets
      BY <1>1, <3>1, Zenon
    <3>3. Len(Tail(s)) = Len(s) - 1
      BY <2>1, Zenon
    <3>4. k = Len(Tail(s))
      BY <1>2, <3>2, <3>3
    <3> QED BY <3>1, <3>2, <3>4, Zenon
  <2> QED BY <2>1, <2>2, <2>3, Zenon DEF LastRecovers
<1>4. Head(s).do = "RecoverTable" => Len(s) = 1 /\ Head(s).ep \in Tablets
  <2>1. 1 \in 1 .. Len(s)
    BY <1>2
  <2> QED BY <1>1, <1>2, <2>1, Zenon
<1> QED BY <1>2, <1>3, <1>4, Zenon

LEMMA QueueHead ==
    ASSUME Queue, ops # <<>>
    PROVE  /\ Head(ops) \in QueueOps /\ Tail(ops) \in Seq(QueueOps)
           /\ Len(Tail(ops)) = Len(ops) - 1 /\ Len(ops) \in Nat \ {0}
           /\ Current \in Task /\ Followers \subseteq Tablets
           /\ Running("RecoverTable") => LastTask /\ Current.ep \in Tablets
<1>1. /\ Head(ops) \in QueueOps /\ Tail(ops) \in Seq(QueueOps)
      /\ Len(Tail(ops)) = Len(ops) - 1 /\ Len(ops) \in Nat \ {0}
  BY HeadTailProperties, EmptySeq DEF Queue
<1>2. Head(ops).tasks \in LastRecovers \ {<<>>} /\ Followers \subseteq Tablets
  BY <1>1 DEF QueueOps, Followers
<1> QED BY <1>1, <1>2, LastRecoversFact, Zenon DEF Current, Running, LastTask

LEMMA NewTasks ==
    ASSUME NEW h, NEW a, NEW b, NEW x, h = [tasks |-> a, followers |-> b]
    PROVE  [h EXCEPT !.tasks = x] = [tasks |-> x, followers |-> h.followers]
OBVIOUS

\* A task is done.  Only the last one of an operation leaves another operation.
LEMMA RestQueue ==
    ASSUME Queue, ops # <<>>, NEW children \in Seq(QueueOps), ops' = Rest(children),
           children = <<>> \/ (LastTask /\ Len(children) <= 1)
    PROVE  Queue'
<1>1. /\ Head(ops) \in QueueOps /\ Tail(ops) \in Seq(QueueOps)
      /\ Len(Tail(ops)) = Len(ops) - 1 /\ Len(ops) \in Nat \ {0}
  BY QueueHead, Zenon
<1>2. CASE LastTask
  <2>1. ops' = children \o Tail(ops)
    BY <1>1, <1>2, ConcatEmptySeq DEF Rest
  <2>2. Len(children) \in Nat /\ Len(children) <= 1
    BY EmptySeq
  <2> QED BY <1>1, <2>1, <2>2, ConcatProperties, FailoverAssumption DEF Queue
<1>3. CASE ~LastTask
  <2> DEFINE h == Head(ops)
             x == Tail(h.tasks)
             r == [h EXCEPT !.tasks = x]
  <2>1. children = <<>> /\ ops' = (<<r>> \o children) \o Tail(ops)
    BY <1>3, Zenon DEF Rest
  <2>2. h.tasks \in LastRecovers \ {<<>>} /\ h = [tasks |-> h.tasks, followers |-> h.followers]
        /\ h.followers \in SUBSET Tablets
    BY <1>1 DEF QueueOps
  <2>3. x \in LastRecovers \ {<<>>}
    BY <1>3, <2>2, LastRecoversFact, Zenon DEF LastTask
  <2> HIDE DEF x
  <2>4. r = [tasks |-> x, followers |-> h.followers]
    <3>1. PICK a, b : h = [tasks |-> a, followers |-> b]
      BY <2>2, Zenon
    <3> QED BY <3>1, NewTasks, ZenonT(60)
  <2>5. r \in QueueOps
    BY <2>2, <2>3, <2>4, Zenon DEF QueueOps
  <2> HIDE DEF r
  <2>6. <<r>> \in Seq(QueueOps) /\ Len(<<r>>) = 1
    BY <2>5
  <2>7. ops' = <<r>> \o Tail(ops)
    BY <2>1, <2>6, ConcatEmptySeq, Zenon
  <2>8. ops' \in Seq(QueueOps) /\ Len(ops') = Len(ops)
    BY <1>1, <2>6, <2>7, ConcatProperties
  <2> QED BY <2>8 DEF Queue
<1> QED BY <1>2, <1>3

LEMMA FailedQueue ==
    ASSUME Queue, ops # <<>>, Failed
    PROVE  Queue'
<1>1. ops' = Tail(ops)
  BY DEF Failed
<1> QED BY <1>1, QueueHead, FailoverAssumption DEF Queue

LEMMA EndsQueue ==
    ASSUME Queue, ops # <<>>, NEW d, Done(d, <<>>) \/ Failed
    PROVE  Queue'
<1>1. ASSUME Done(d, <<>>) PROVE Queue'
  BY <1>1, RestQueue, EmptySeq, Zenon DEF Done
<1> QED BY <1>1, FailedQueue

LEMMA AddQueue ==
    ASSUME Queue, NEW new \in Seq(QueueOps), AddOPData(new)
    PROVE  Queue'
<1>1. ops' = ops \o new /\ Len(ops) + Len(new) <= MaxOps /\ ops \in Seq(QueueOps)
  BY DEF AddOPData, Queue
<1> QED BY <1>1, ConcatProperties DEF Queue

\* The operations that the name server creates.
LEMMA QueueOpOf ==
    ASSUME NEW s \in LastRecovers, s # <<>>, NEW followers \in SUBSET Tablets
    PROVE  <<Op(s, followers)>> \in Seq(QueueOps) /\ Len(<<Op(s, followers)>>) = 1
<1>1. Op(s, followers) \in QueueOps
  BY Zenon DEF Op, QueueOps
<1> QED BY <1>1

LEMMA PlainLast ==
    ASSUME NEW s \in Seq(Task), \A k \in 1 .. Len(s) : s[k].do # "RecoverTable"
    PROVE  s \in LastRecovers
BY Zenon DEF LastRecovers

LEMMA EndpointQueue ==
    ASSUME NEW t \in Tablets
    PROVE  OfflineEndpoint(t) \in Seq(QueueOps) /\ RecoverEndpoint(t) \in Seq(QueueOps)
<1> DEFINE a == Do("DelReplica", GetLeader, t, FALSE)
           b == Do("UpdatePartitionStatus", None, t, FALSE)
           c == Do("RecoverTable", None, t, FALSE)
           fs == {u \in Tablets : meta[u].alive /\ ~meta[u].leader /\ healthy[u]}
<1>1. /\ a \in Task /\ b \in Task /\ c \in Task
      /\ a.do = "DelReplica" /\ b.do = "UpdatePartitionStatus" /\ c.ep = t
  BY GetLeaderFact DEF Do, Task
<1>2. fs \in SUBSET Tablets
  OBVIOUS
<1> HIDE DEF a, b, c, fs
<1>3. /\ <<a, b>> \in LastRecovers /\ <<a, b>> # <<>>
      /\ <<a, c>> \in LastRecovers /\ <<a, c>> # <<>>
      /\ <<c>> \in LastRecovers /\ <<c>> # <<>>
  BY <1>1 DEF LastRecovers
<1>4. <<Select, Change, Update>> \in LastRecovers /\ <<Select, Change, Update>> # <<>>
  BY ElectionTasks DEF LastRecovers
<1>5. /\ <<Op(<<a, b>>, {})>> \in Seq(QueueOps) /\ <<Op(<<a, c>>, {})>> \in Seq(QueueOps)
      /\ <<Op(<<c>>, {})>> \in Seq(QueueOps)
      /\ <<Op(<<Select, Change, Update>>, fs)>> \in Seq(QueueOps)
      /\ <<>> \in Seq(QueueOps)
  BY <1>2, <1>3, <1>4, QueueOpOf, EmptySeq, Zenon
<1>6. CreateOfflineReplicaOP(t) \in Seq(QueueOps)
  BY <1>5, Zenon DEF CreateOfflineReplicaOP, a, b
<1>7. CreateChangeLeaderOP \in Seq(QueueOps)
  BY <1>5, Zenon DEF CreateChangeLeaderOP, Select, Change, Update, fs
<1>8. CreateRecoverTableOP(t) \in Seq(QueueOps)
  BY <1>5, Zenon DEF CreateRecoverTableOP, a, c
<1> QED BY <1>5, <1>6, <1>7, <1>8, Zenon DEF OfflineEndpoint, RecoverEndpoint

LEMMA ReAddQueue ==
    ASSUME NEW e \in Tablets \cup {None}, NEW drop, NEW send, NEW load
    PROVE  /\ ReAdd(e, drop, send, load) \in Seq(QueueOps)
           /\ Len(ReAdd(e, drop, send, load)) <= 1
<1>1. CASE ReAdd(e, drop, send, load) = <<>>
  BY <1>1, EmptySeq
<1>2. ASSUME NEW s \in Seq(ReAddTask), s # <<>>, ReAdd(e, drop, send, load) = <<Op(s, {})>>
      PROVE  /\ ReAdd(e, drop, send, load) \in Seq(QueueOps)
             /\ Len(ReAdd(e, drop, send, load)) = 1
  <2>1. s \in Seq(Task) /\ \A k \in 1 .. Len(s) : s[k] \in ReAddTask
    BY DEF ReAddTask, PlainTask
  <2>2. s \in LastRecovers
    BY <2>1, PlainLast, Zenon DEF ReAddTask
  <2> QED BY <1>2, <2>2, QueueOpOf, Zenon
<1>3. \/ ReAdd(e, drop, send, load) = <<>>
      \/ \E s \in Seq(ReAddTask) : s # <<>> /\ ReAdd(e, drop, send, load) = <<Op(s, {})>>
  BY ReAddTasks
<1>4. Len(ReAdd(e, drop, send, load)) = 1 => Len(ReAdd(e, drop, send, load)) <= 1
  OBVIOUS
<1> QED BY <1>1, <1>2, <1>3, <1>4, Zenon

LEMMA ChooseQueue ==
    ASSUME Queue, ChooseReAdd
    PROVE  Queue'
<1>1. ops # <<>> /\ LastTask /\ Current.ep \in Tablets
  BY QueueHead, Zenon DEF ChooseReAdd, Running
<1>2. PICK drop, send, load :
         Done(NoData, ReAdd(Current.ep, drop, send, load)) \/ Failed
  BY Zenon DEF ChooseReAdd, CreateReAddReplicaSimplifyOP, CreateReAddReplicaWithDropOP,
               CreateReAddReplicaNoSendOP, CreateReAddReplicaOP
<1>3. CASE Failed
  BY <1>1, <1>3, FailedQueue
<1>4. CASE Done(NoData, ReAdd(Current.ep, drop, send, load))
  <2> DEFINE children == ReAdd(Current.ep, drop, send, load)
  <2>1. children \in Seq(QueueOps) /\ Len(children) <= 1
    BY <1>1, ReAddQueue, Zenon
  <2>2. ops' = Rest(children)
    BY <1>4, Zenon DEF Done
  <2> HIDE DEF children
  <2> QED BY <1>1, <2>1, <2>2, RestQueue, Zenon
<1> QED BY <1>2, <1>3, <1>4

LEMMA QueueStep ==
    ASSUME Queue, [Next]_vars
    PROVE  Queue'
<1>1. ASSUME ops' = ops PROVE Queue'
  BY <1>1 DEF Queue
<1>2. ASSUME NEW t \in Tablets,
             \/ Put(t) \/ MakeSnapshot(t)
             \/ Crash(t) \/ SessionExpires(t) \/ Restart(t) \/ CheckZkClient(t)
             \/ HeartbeatTimeout(t) \/ OnTabletOffline(t) \/ OnTabletOnline(t)
      PROVE  Queue'
  <2>1. ops' = ops
    BY <1>2, Zenon DEF Put, MakeSnapshot, Crash, SessionExpires, Restart, CheckZkClient,
                       HeartbeatTimeout, OnTabletOffline, OnTabletOnline
  <2> QED BY <1>1, <2>1
<1>3. ASSUME NEW t \in Tablets, OfflineAfterTimeout(t) \/ OfflineAtStartup(t) \/ RecoverOnline(t)
      PROVE  Queue'
  <2>1. ops' = ops \/ AddOPData(OfflineEndpoint(t)) \/ AddOPData(RecoverEndpoint(t))
    BY <1>3, Zenon DEF OfflineAfterTimeout, OfflineAtStartup, RecoverOnline
  <2> QED BY <1>1, <2>1, EndpointQueue, AddQueue, Zenon
<1>4. ASSUME \/ UpdateTablets \/ UNCHANGED vars
             \/ \E l, f \in Tablets : MatchLogOffset(l, f) \/ SyncData(l, f)
             \/ \E c \in calls : AppendEntries(c)
      PROVE  Queue'
  <2>1. ops' = ops
    BY <1>4, Zenon DEF UpdateTablets, MatchLogOffset, SyncData, AppendEntries, vars
  <2> QED BY <1>1, <2>1
<1>5. ASSUME \/ DelReplica \/ AddReplica \/ PauseSnapshot \/ RecoverSnapshot \/ SendSnapshot
             \/ DropTable \/ LoadTable \/ ChangeLeader
      PROVE  Queue'
  <2>1. ops # <<>> /\ (Done(data, <<>>) \/ Failed)
    BY <1>5, Zenon DEF DelReplica, AddReplica, PauseSnapshot, RecoverSnapshot, SendSnapshot,
                       DropTable, LoadTable, ChangeLeader, TabletTask, Call, Answered, Running
  <2> QED BY <2>1, EndsQueue
<1>6. CASE UpdatePartitionStatus \/ UpdateLeaderInfo \/ CallLost
  <2>1. ops # <<>> /\ (Done(NoData, <<>>) \/ Failed)
    BY <1>6, Zenon DEF UpdatePartitionStatus, UpdateLeaderInfo, CallLost, Running
  <2> QED BY <2>1, EndsQueue
<1>7. CASE SelectLeader \/ GetTermPair \/ Demote
  <2>1. ops # <<>> /\ (ops' = ops \/ Done(NoData, <<>>) \/ Failed)
    BY <1>7, Zenon DEF SelectLeader, GetTermPair, Demote, Running
  <2> QED BY <1>1, <2>1, EndsQueue
<1>8. ASSUME (\E f \in Tablets : FollowOfNoOne(f)) \/ (\E c \in calls : OffsetAnswered(c))
      PROVE  Queue'
  <2>1. ops # <<>> /\ (ops' = ops \/ Failed \/ \E d : Done(d, <<>>))
    BY <1>8, Zenon DEF FollowOfNoOne, OffsetAnswered, Asked, Running
  <2> QED BY <1>1, <2>1, EndsQueue, Zenon
<1>9. CASE ChooseReAdd
  BY <1>9, ChooseQueue
<1> QED BY <1>2, <1>3, <1>4, <1>5, <1>6, <1>7, <1>8, <1>9, Zenon DEF Next, OpStep

-----------------------------------------------------------------------------
(* What the name server watches, and table_info.                           *)

\* A fault is counted up to the bound.
FaultCount == faults' = faults \/ (faults < MaxFaults /\ faults' = faults + 1)

LEMMA CountedFault ==
    ASSUME faults \in 0 .. MaxFaults, FaultCount
    PROVE  faults' \in 0 .. MaxFaults
BY FailoverAssumption DEF FaultCount

LEMMA TaskFaults ==
    ASSUME OpStep \/ CallLost \/ \E c \in calls : OffsetAnswered(c)
    PROVE  FaultCount /\ UNCHANGED <<up, zk, healthy, offline_map, checker, online>>
<1>1. CASE \/ DelReplica \/ AddReplica \/ PauseSnapshot \/ RecoverSnapshot \/ SendSnapshot
           \/ DropTable \/ LoadTable \/ ChangeLeader
  BY <1>1, Zenon DEF DelReplica, AddReplica, PauseSnapshot, RecoverSnapshot, SendSnapshot,
         DropTable, LoadTable, ChangeLeader, TabletTask, Call, Answered, Done, Fault,
         FaultCount, watchVars
<1>2. CASE UpdatePartitionStatus \/ UpdateLeaderInfo \/ CallLost
  BY <1>2, Zenon DEF UpdatePartitionStatus, UpdateLeaderInfo, CallLost, Done, Fault,
         FaultCount, watchVars, tabletVars
<1>3. CASE SelectLeader \/ GetTermPair \/ Demote \/ ChooseReAdd
  BY <1>3, Zenon DEF SelectLeader, GetTermPair, Demote, ChooseReAdd, Done, Fault,
         FaultCount, watchVars, tabletVars
<1>4. ASSUME NEW f \in Tablets, FollowOfNoOne(f)
      PROVE  FaultCount /\ UNCHANGED <<up, zk, healthy, offline_map, checker, online>>
  BY <1>4, Zenon DEF FollowOfNoOne, FaultCount, watchVars
<1>5. ASSUME NEW c \in calls, OffsetAnswered(c)
      PROVE  FaultCount /\ UNCHANGED <<up, zk, healthy, offline_map, checker, online>>
  BY <1>5, Zenon DEF OffsetAnswered, Done, Fault, FaultCount, watchVars
<1> QED BY <1>1, <1>2, <1>3, <1>4, <1>5, Zenon DEF OpStep

LEMMA WatchedStep ==
    ASSUME Watched, [Next]_vars
    PROVE  Watched'
<1>1. ASSUME UNCHANGED <<up, zk, healthy, offline_map, checker, online>>, FaultCount
      PROVE  Watched'
  BY <1>1, CountedFault, Zenon DEF Watched
<1>2. ASSUME NEW t \in Tablets, Put(t) \/ MakeSnapshot(t) PROVE Watched'
  BY <1>1, <1>2, Zenon DEF Put, MakeSnapshot, watchVars, FaultCount
<1>3. ASSUME NEW t \in Tablets, Crash(t) PROVE Watched'
  <2>1. /\ up' = [up EXCEPT ![t] = FALSE] /\ FaultCount
        /\ UNCHANGED <<zk, healthy, offline_map, checker, online>>
    BY <1>3, Zenon DEF Crash, Fault, FaultCount, watchVars
  <2> QED BY <2>1, CountedFault, Zenon DEF Watched
<1>4. ASSUME NEW t \in Tablets, SessionExpires(t) \/ Restart(t) \/ CheckZkClient(t)
      PROVE  Watched'
  <2>1. /\ up' = up \/ up' = [up EXCEPT ![t] = TRUE]
        /\ \E x \in {"none", "plain", "startup"} : zk' = [zk EXCEPT ![t] = x]
        /\ FaultCount /\ UNCHANGED <<healthy, offline_map, checker, online>>
    BY <1>4, Zenon DEF SessionExpires, Restart, CheckZkClient, Fault, FaultCount, watchVars
  <2> QED BY <2>1, CountedFault, Zenon DEF Watched
<1>5. ASSUME NEW t \in Tablets, HeartbeatTimeout(t) PROVE Watched'
  <2>1. /\ offline_map' = [offline_map EXCEPT ![t] = "late"]
        /\ UNCHANGED <<up, zk, healthy, checker, online, faults>>
    BY <1>5, Zenon DEF HeartbeatTimeout, tabletVars
  <2> QED BY <2>1, Zenon DEF Watched
<1>6. ASSUME NEW t \in Tablets, OnTabletOffline(t) \/ OfflineAfterTimeout(t) PROVE Watched'
  <2>1. /\ \E x \in {"idle", "alive", "offline"} : checker' = [checker EXCEPT ![t] = x]
        /\ UNCHANGED <<up, zk, healthy, offline_map, online, faults>>
    BY <1>6, Zenon DEF OnTabletOffline, OfflineAfterTimeout, tabletVars
  <2> QED BY <2>1, ZenonT(60) DEF Watched
<1>7. ASSUME NEW t \in Tablets, OnTabletOnline(t) \/ OfflineAtStartup(t) \/ RecoverOnline(t)
      PROVE  Watched'
  <2>1. /\ \E x \in {"idle", "startup", "offline", "recover", "erase"} :
              online' = [online EXCEPT ![t] = x]
        /\ offline_map' = offline_map \/ offline_map' = [offline_map EXCEPT ![t] = "no"]
        /\ UNCHANGED <<up, zk, healthy, checker, faults>>
    BY <1>7, Zenon DEF OnTabletOnline, OfflineAtStartup, RecoverOnline, tabletVars
  <2>2. online' \in [Tablets -> {"idle", "online", "startup", "offline", "recover", "erase"}]
    BY <2>1, Zenon DEF Watched
  <2>3. offline_map' \in [Tablets -> {"no", "new", "late"}]
    BY <2>1, Zenon DEF Watched
  <2> QED BY <2>1, <2>2, <2>3, Zenon DEF Watched
<1>8. CASE UpdateTablets
  <2>1. PICK back, gone :
           /\ healthy' = [t \in Tablets |-> zk[t] # "none"]
           /\ online' = [t \in Tablets |-> IF t \in back THEN "online" ELSE online[t]]
           /\ offline_map' = [t \in Tablets |-> IF t \in gone THEN "new" ELSE offline_map[t]]
           /\ checker' = [t \in Tablets |->
                 IF t \in gone /\ offline_map[t] = "no" THEN "check" ELSE checker[t]]
           /\ UNCHANGED <<up, zk, faults>>
    BY <1>8, Zenon DEF UpdateTablets, tabletVars
  <2>2. healthy' \in [Tablets -> BOOLEAN]
    BY <2>1, Zenon
  <2>3. online' \in [Tablets -> {"idle", "online", "startup", "offline", "recover", "erase"}]
    BY <2>1, Zenon DEF Watched
  <2>4. offline_map' \in [Tablets -> {"no", "new", "late"}]
    BY <2>1, Zenon DEF Watched
  <2>5. checker' \in [Tablets -> {"idle", "check", "alive", "offline"}]
    BY <2>1, Zenon DEF Watched
  <2> QED BY <2>1, <2>2, <2>3, <2>4, <2>5, Zenon DEF Watched
<1>9. ASSUME \/ UNCHANGED vars
             \/ \E l, f \in Tablets : MatchLogOffset(l, f) \/ SyncData(l, f)
             \/ \E c \in calls : AppendEntries(c)
      PROVE  Watched'
  <2>1. UNCHANGED <<up, zk, healthy, offline_map, checker, online, faults>>
    BY <1>9, Zenon DEF vars, tabletVars, watchVars, MatchLogOffset, SyncData, AppendEntries
  <2> QED BY <1>1, <2>1, Zenon DEF FaultCount
<1>10. CASE OpStep \/ CallLost \/ \E c \in calls : OffsetAnswered(c)
  BY <1>1, <1>10, TaskFaults, Zenon
<1> QED BY <1>2, <1>3, <1>4, <1>5, <1>6, <1>7, <1>8, <1>9, <1>10, Zenon DEF Next

LEMMA MetaUpdate ==
    ASSUME NEW m \in [Tablets -> MetaType], NEW e, NEW r, e \in Tablets => r \in MetaType
    PROVE  [m EXCEPT ![e] = r] \in [Tablets -> MetaType]
BY Zenon

LEMMA MetaFieldOK ==
    ASSUME NEW r \in MetaType, NEW x \in BOOLEAN
    PROVE  [r EXCEPT !.alive = x] \in MetaType /\ [r EXCEPT !.leader = x] \in MetaType
BY DEF MetaType

LEMMA MetaStep ==
    ASSUME Queue, MetaOK, [Next]_vars
    PROVE  MetaOK'
<1>1. ASSUME meta' = meta PROVE MetaOK'
  BY <1>1 DEF MetaOK
<1>2. ASSUME NEW t \in Tablets,
             \/ Put(t) \/ MakeSnapshot(t)
             \/ Crash(t) \/ SessionExpires(t) \/ Restart(t) \/ CheckZkClient(t)
             \/ HeartbeatTimeout(t) \/ OnTabletOffline(t) \/ OnTabletOnline(t) \/ RecoverOnline(t)
      PROVE  MetaOK'
  <2>1. meta' = meta
    BY <1>2, Zenon DEF Put, MakeSnapshot, Crash, SessionExpires, Restart, CheckZkClient,
                HeartbeatTimeout, OnTabletOffline, OnTabletOnline, RecoverOnline, infoVars
  <2> QED BY <1>1, <2>1
<1>3. ASSUME NEW t \in Tablets, OfflineAfterTimeout(t) \/ OfflineAtStartup(t)
      PROVE  MetaOK'
  <2>1. meta' = meta \/ meta' = [meta EXCEPT ![t].alive = FALSE]
    BY <1>3, Zenon DEF OfflineAfterTimeout, OfflineAtStartup, UpdateEndpointTableAlive
  <2>2. PICK r : r = [meta[t] EXCEPT !.alive = FALSE]
    BY Zenon
  <2>3. r \in MetaType
    BY <2>2, MetaFieldOK, Zenon DEF MetaOK
  <2>4. meta' = meta \/ meta' = [meta EXCEPT ![t] = r]
    BY <2>1, <2>2, Zenon DEF MetaOK
  <2> QED BY <2>3, <2>4, MetaUpdate, Zenon DEF MetaOK
<1>4. ASSUME \/ \E l, f \in Tablets : MatchLogOffset(l, f) \/ SyncData(l, f)
             \/ \E c \in calls : AppendEntries(c) \/ OffsetAnswered(c)
      PROVE  MetaOK'
  BY <1>1, <1>4, Zenon DEF MatchLogOffset, SyncData, AppendEntries, OffsetAnswered, infoVars
<1>5. CASE UpdateTablets \/ CallLost \/ UNCHANGED vars
  BY <1>1, <1>5, Zenon DEF UpdateTablets, CallLost, vars, infoVars
<1>6. CASE UpdatePartitionStatus
  <2>1. /\ meta' = [meta EXCEPT ![Current.ep] = [leader |-> FALSE, alive |-> Current.alive]]
        /\ ops # <<>>
    BY <1>6, Zenon DEF UpdatePartitionStatus, NewStatus, Running
  <2>2. Current.alive \in BOOLEAN
    BY <2>1, QueueHead DEF Task
  <2>3. [leader |-> FALSE, alive |-> Current.alive] \in MetaType
    BY <2>2, Zenon DEF MetaType
  <2> QED BY <2>1, <2>3, MetaUpdate, Zenon DEF MetaOK
<1>7. CASE UpdateLeaderInfo
  <2> DEFINE l == data.leader
             old == [t \in Tablets |-> IF t \in AliveLeaders THEN [meta[t] EXCEPT !.alive = FALSE]
                                       ELSE meta[t]]
  <2>1. meta' = old \/ meta' = [old EXCEPT ![l].leader = TRUE]
    BY <1>7, Zenon DEF UpdateLeaderInfo
  <2>2. old \in [Tablets -> MetaType]
    <3>1. \A t \in Tablets : [meta[t] EXCEPT !.alive = FALSE] \in MetaType
      BY MetaFieldOK, Zenon DEF MetaOK
    <3> QED BY <3>1, Zenon DEF MetaOK
  <2> HIDE DEF old, l
  <2>3. PICK r : r = [old[l] EXCEPT !.leader = TRUE]
    BY Zenon
  <2>4. l \in Tablets => r \in MetaType
    BY <2>2, <2>3, MetaFieldOK, Zenon
  <2>5. meta' = old \/ meta' = [old EXCEPT ![l] = r]
    BY <2>1, <2>2, <2>3, Zenon
  <2> QED BY <2>2, <2>4, <2>5, MetaUpdate, Zenon DEF MetaOK
<1>8. ASSUME \/ DelReplica \/ AddReplica \/ PauseSnapshot \/ RecoverSnapshot \/ SendSnapshot
             \/ DropTable \/ LoadTable \/ SelectLeader \/ (\E f \in Tablets : FollowOfNoOne(f))
             \/ ChangeLeader \/ GetTermPair \/ Demote \/ ChooseReAdd
      PROVE  MetaOK'
  <2>1. meta' = meta
    BY <1>8, Zenon DEF DelReplica, AddReplica, PauseSnapshot, RecoverSnapshot, SendSnapshot, DropTable,
                LoadTable, SelectLeader, FollowOfNoOne, ChangeLeader, GetTermPair, Demote,
                ChooseReAdd, TabletTask, infoVars
  <2> QED BY <1>1, <2>1
<1> QED BY <1>2, <1>3, <1>4, <1>5, <1>6, <1>7, <1>8, ZenonT(60) DEF Next, OpStep

-----------------------------------------------------------------------------
(* What is known of the logs while an election runs (LInv), and the steps  *)
(* without an operation, which keep it; ElectionProofs has the others.     *)

TabType == [table : BOOLEAN, leader : BOOLEAN, term : Nat, log : Seq(Nat), paused : BOOLEAN]
DiskType == [log : Seq(Nat), term : Nat]
NodeType == {n \in Int : n >= -2}
CallType == [from : Tablets \cup {None}, to : Tablets, term : Nat, index : Nat, entry : Nat,
             seen : Nat, offset : Nat]

\* A handler works on a table that is there and has not lost what it had.
CallTypes ==
    /\ calls \subseteq CallType
    /\ \A c \in calls : tab[c.to].table /\ c.offset <= Len(tab[c.to].log)

TabTypes ==
    /\ tab \in [Tablets -> TabType] /\ disk \in [Tablets -> DiskType]
    /\ node \in [Tablets -> [Tablets -> NodeType]]
    /\ CallTypes

DataTypes ==
    Running("SelectLeader") \/ Running("ChangeLeader") =>
        data.term \in Nat /\ data.offset \in Nat

\* The replica lets no entries of a term below x through, and its log is not
\* longer than n; nothing is known if a handler came too late on it.
Frozen(f, x) == ~tab[f].leader /\ (tab[f].table => f \in raced \/ tab[f].term >= x)
Short(f, n) == f \in raced \/ Len(tab[f].log) <= n

\* SelectLeader has asked the followers that are not left.
Asking ==
    Running("SelectLeader") =>
        /\ data.leader = None
        /\ data.pc = "ask" =>
              /\ data.left \subseteq Followers /\ data.best \subseteq Followers \ data.left
              /\ data.best = {} => data.left = Followers
              /\ \A f \in Followers \ data.left : Frozen(f, data.term) /\ Short(f, data.offset)
              /\ \A f \in data.best : tab[f].table => Len(tab[f].log) >= data.offset

\* It has chosen one of them.
Chosen ==
    Running("ChangeLeader") =>
        /\ data.leader \in Followers
        /\ LeadersBelow(term_ - 1) /\ AskCalls(term_ - 1)
        /\ \A f \in Followers : Frozen(f, term_ - 1) /\ Short(f, data.offset)
        /\ tab[data.leader].table => Len(tab[data.leader].log) >= data.offset

\* Only the one that was chosen leads in this term or the one before, and what it
\* has sent is not longer than its log.
Leads(l) ==
    /\ \A t \in Tablets : tab[t].leader /\ tab[t].term >= term_ - 1 => t = l
    /\ \A c \in calls : c.term >= term_ - 1 =>
          /\ tab[c.to].leader => c.to = l
          /\ tab[l].table => c.index <= Len(tab[l].log)

\* The one that was chosen leads, or has gone away since.
Elected ==
    Running("UpdateLeaderInfo") =>
        /\ data.leader \in Followers /\ Leads(data.leader)
        /\ \A f \in Followers \ {data.leader} : Frozen(f, term_ - 1)
        /\ tab[data.leader].table =>
              \A f \in Followers : Short(f, Len(tab[data.leader].log))

\* Without an operation nothing is known.
Idle == ops = <<>> => data = NoData

Phases == Idle /\ Asking /\ Chosen /\ Elected
LInv == EInv /\ TabTypes /\ DataTypes /\ Phases

-----------------------------------------------------------------------------
(* Operations.                                                             *)

LEMMA HeadKind ==
    ASSUME OpsShape, ops # <<>>
    PROVE  /\ Head(ops) \in GoodOps /\ Followers \in SUBSET Tablets
           /\ \/ Running("SelectLeader") \/ Running("ChangeLeader") \/ Running("UpdateLeaderInfo")
              \/ Followers = {}
<1>1. Head(ops) \in GoodOps
  BY DEF OpsShape
<1>2. Followers \in SUBSET Tablets
  BY <1>1 DEF Followers, GoodOps, OpType
<1> QED BY <1>1, <1>2, FirstTask DEF Running, Followers, GoodOps

\* An operation that just starts.
LEMMA FreshPhases ==
    ASSUME NEW q \in Seq(NewOps), ops' = q, data' = NoData
    PROVE  Phases' /\ DataTypes'
<1>1. NoData.leader = None /\ NoData.pc = "start" /\ NoData.term \in Nat /\ NoData.offset \in Nat
  BY DEF NoData
<1>2. ASSUME Running("ChangeLeader")' \/ Running("UpdateLeaderInfo")'
      PROVE  FALSE
  <2>1. q # <<>> /\ Head(Head(q).tasks).do \in {"ChangeLeader", "UpdateLeaderInfo"}
    BY <1>2 DEF Running
  <2>2. Head(q) \in NewOps
    BY <2>1
  <2> QED BY <2>1, <2>2, FirstTask, Zenon DEF NewOps
<1>3. Asking' /\ DataTypes'
  BY <1>1 DEF Asking, DataTypes
<1> QED BY <1>2, <1>3 DEF Phases, Idle, Chosen, Elected

LEMMA FailedPhases ==
    ASSUME OpsShape, ops # <<>>, Failed
    PROVE  Phases' /\ DataTypes'
<1>1. Tail(ops) \in Seq(NewOps) /\ ops' = Tail(ops) /\ data' = NoData
  BY DEF OpsShape, Failed
<1> QED BY <1>1, FreshPhases

\* A task is done: its operation goes on, or another one starts.
LEMMA DoneRest ==
    ASSUME OpsShape, ops # <<>>, NEW d, NEW children \in Seq(NewOps), Done(d, children)
    PROVE  \/ Phases' /\ DataTypes'
           \/ /\ data' = d /\ ops' # <<>> /\ Followers' = Followers
              /\ Running("ChangeLeader")' => Running("SelectLeader")
              /\ Running("UpdateLeaderInfo")' => Running("ChangeLeader")
              /\ ~Running("SelectLeader")'
<1>1. Head(ops) \in GoodOps /\ Tail(ops) \in Seq(NewOps) /\ ops' = Rest(children)
  BY DEF OpsShape, Done
<1> DEFINE q == children \o Tail(ops)
<1>2. q \in Seq(NewOps)
  BY <1>1
<1>3. CASE LastTask
  <2>1. ops' = q /\ data' = NoData
    BY <1>1, <1>3 DEF Rest, Done
  <2> QED BY <1>2, <2>1, FreshPhases, Zenon
<1>4. CASE ~LastTask
  <2> DEFINE r == [Head(ops) EXCEPT !.tasks = Tail(@)]
  <2>1. data' = d /\ ops' = (<<r>> \o children) \o Tail(ops)
    BY <1>1, <1>4, Zenon DEF Rest, Done
  <2>2. /\ r \in GoodOps /\ r.followers = Head(ops).followers
        /\ Head(r.tasks).do = "ChangeLeader" => Head(Head(ops).tasks).do = "SelectLeader"
        /\ Head(r.tasks).do = "UpdateLeaderInfo" => Head(Head(ops).tasks).do = "ChangeLeader"
        /\ Head(r.tasks).do # "SelectLeader"
    BY <1>1, <1>4, TailTasks, Zenon DEF LastTask
  <2> HIDE DEF r
  <2>3. /\ <<r>> \in Seq(GoodOps) /\ children \in Seq(GoodOps) /\ Tail(ops) \in Seq(GoodOps)
        /\ q \in Seq(GoodOps) /\ <<r>> # <<>> /\ Head(<<r>>) = r
    BY <1>1, <1>2, <2>2 DEF NewOps
  <2>4. ops' = <<r>> \o q
    BY <2>1, <2>3, ConcatAssociative
  <2> HIDE DEF q
  <2>5. ops' # <<>> /\ Head(ops') = r
    BY <2>3, <2>4, HeadTailConcat
  <2> QED BY <2>1, <2>2, <2>5, Zenon DEF Running, Followers
<1> QED BY <1>3, <1>4

\* A task that is not one of the first two of an election ends.
LEMMA EndsPhases ==
    ASSUME OpsShape, ops # <<>>, ~Running("SelectLeader"), ~Running("ChangeLeader"),
           NEW d,
           (\E children \in Seq(NewOps) : Done(d, children)) \/ Failed
    PROVE  Phases' /\ DataTypes'
<1>1. CASE Failed
  BY <1>1, FailedPhases
<1>2. CASE \E children \in Seq(NewOps) : Done(d, children)
  <2>1. PICK children \in Seq(NewOps) : Done(d, children)
    BY <1>2
  <2> QED BY <2>1, DoneRest, Zenon DEF Phases, Idle, Asking, Chosen, Elected, DataTypes
<1> QED BY <1>1, <1>2

-----------------------------------------------------------------------------
(* Tables.                                                                 *)

LEMMA TabFieldsOf ==
    ASSUME NEW r \in TabType
    PROVE  /\ r.table \in BOOLEAN /\ r.leader \in BOOLEAN /\ r.term \in Nat
           /\ r.log \in Seq(Nat) /\ Len(r.log) \in Nat /\ r.paused \in BOOLEAN
BY DEF TabType

LEMMA EntryNat ==
    ASSUME NEW s \in Seq(Nat), NEW k \in Nat, k >= 1, k <= Len(s)
    PROVE  s[k] \in Nat
OBVIOUS

LEMMA PrefixNat ==
    ASSUME NEW s \in Seq(Nat), NEW k \in 1 .. Len(s)
    PROVE  SubSeq(s, 1, k) \in Seq(Nat) /\ s[k] \in Nat
OBVIOUS

LEMMA AtMost ==
    ASSUME NEW a \in Nat, NEW b \in Nat, NEW c \in Nat, a <= b, b <= c
    PROVE  a <= c
OBVIOUS

\* The offset that is sent next.
LEMMA NextOffset ==
    ASSUME NEW n \in NodeType, n # NoNode, n # Unmatched
    PROVE  n + 1 \in Nat /\ n + 1 >= 1
BY DEF NodeType, NoNode, Unmatched

LEMMA NoTableFact ==
    /\ NoTable \in TabType /\ NoTable.leader = FALSE /\ NoTable.table = FALSE
    /\ NoTable.log = <<>> /\ Len(NoTable.log) = 0
BY DEF NoTable, TabType

LEMMA NewLog ==
    ASSUME NEW r \in TabType, NEW x \in Seq(Nat), NEW q, q = [r EXCEPT !.log = x]
    PROVE  /\ q \in TabType /\ q.log = x /\ q.table = r.table
           /\ q.leader = r.leader /\ q.term = r.term
BY Zenon DEF TabType

LEMMA NewTerm ==
    ASSUME NEW r \in TabType, NEW x \in Nat, NEW q, q = [r EXCEPT !.term = x]
    PROVE  /\ q \in TabType /\ q.log = r.log /\ q.table = r.table
           /\ q.leader = r.leader /\ q.term = x
BY DEF TabType

LEMMA NewLeader ==
    ASSUME NEW r \in TabType, NEW x \in BOOLEAN, NEW q, q = [r EXCEPT !.leader = x]
    PROVE  /\ q \in TabType /\ q.log = r.log /\ q.table = r.table
           /\ q.leader = x /\ q.term = r.term
BY Zenon DEF TabType

LEMMA NewPaused ==
    ASSUME NEW r \in TabType, NEW x \in BOOLEAN, NEW q, q = [r EXCEPT !.paused = x]
    PROVE  /\ q \in TabType /\ q.log = r.log /\ q.table = r.table
           /\ q.leader = r.leader /\ q.term = r.term
BY Zenon DEF TabType

LEMMA TabUpdate ==
    ASSUME tab \in [Tablets -> TabType], NEW f, NEW r, tab' = [tab EXCEPT ![f] = r],
           f \in Tablets => r \in TabType
    PROVE  /\ tab' \in [Tablets -> TabType]
           /\ \A t \in Tablets : tab'[t] = IF t = f THEN r ELSE tab[t]
BY Zenon

\* Handlers are done, or go on where they were.
LEMMA CallsStay ==
    ASSUME CallTypes, calls' \subseteq calls, tab \in [Tablets -> TabType],
           \A t \in Tablets : tab[t].table =>
              tab'[t].table /\ tab'[t].log \in Seq(Nat) /\ Len(tab'[t].log) >= Len(tab[t].log)
    PROVE  CallTypes'
<1>1. calls' \subseteq CallType
  BY DEF CallTypes
<1>2. ASSUME NEW c \in calls'
      PROVE  tab'[c.to].table /\ c.offset <= Len(tab'[c.to].log)
  <2>1. c \in CallType /\ tab[c.to].table /\ c.offset <= Len(tab[c.to].log)
    BY <1>2 DEF CallTypes
  <2>2. c.to \in Tablets /\ c.offset \in Nat
    BY <2>1 DEF CallType
  <2>3. Len(tab[c.to].log) \in Nat
    BY <2>2, TabFieldsOf
  <2>4. tab'[c.to].table /\ Len(tab'[c.to].log) >= Len(tab[c.to].log) /\ Len(tab'[c.to].log) \in Nat
    BY <2>1, <2>2
  <2> QED BY <2>1, <2>2, <2>3, <2>4
<1> QED BY <1>1, <1>2 DEF CallTypes

LEMMA CallsLeave ==
    ASSUME CallTypes, tab \in [Tablets -> TabType], NEW t, TableGone(t)
    PROVE  CallTypes'
<1>1. ASSUME NEW c \in calls'
      PROVE  c \in CallType /\ tab'[c.to].table /\ c.offset <= Len(tab'[c.to].log)
  <2>1. PICK d \in calls : d.to # t /\ c = [d EXCEPT !.from = IF @ = t THEN None ELSE @]
    BY <1>1 DEF TableGone
  <2>2. d \in CallType /\ tab[d.to].table /\ d.offset <= Len(tab[d.to].log)
    BY DEF CallTypes
  <2>3. PICK x \in Tablets \cup {None} : c = [d EXCEPT !.from = x]
    <3> DEFINE x == IF d.from = t THEN None ELSE d.from
    <3>1. d.from \in Tablets \cup {None}
      BY <2>2 DEF CallType
    <3>2. x \in Tablets \cup {None}
      BY <3>1, Zenon
    <3>3. c = [d EXCEPT !.from = x]
      BY <2>1, Zenon
    <3> HIDE DEF x
    <3> QED BY <3>2, <3>3, Zenon
  <2>4. c \in CallType /\ c.to = d.to /\ c.offset = d.offset
    BY <2>2, <2>3 DEF CallType
  <2>5. tab'[d.to] = tab[d.to]
    <3>1. d.to \in Tablets
      BY <2>2 DEF CallType
    <3> QED BY <2>1, <3>1 DEF TableGone
  <2> QED BY <2>2, <2>4, <2>5
<1> QED BY <1>1 DEF CallTypes

\* The table goes away, or the log grows on a leader, by an entry that a handler
\* lets through, or after a handler that came too late.
MayGrow(t) ==
    \/ tab[t].leader
    \/ \E c \in calls : /\ c.to = t /\ c.term >= tab[t].term
                        /\ Len(tab'[t].log) <= c.index

Tame(t) ==
    \/ tab'[t] = NoTable
    \/ /\ tab'[t].table = tab[t].table /\ tab'[t].leader = tab[t].leader
       /\ Len(tab'[t].log) >= Len(tab[t].log)
       /\ t \in raced => t \in raced'
       /\ t \in raced' \/ tab'[t].term >= tab[t].term
       /\ t \in raced' \/ Len(tab'[t].log) = Len(tab[t].log) \/ MayGrow(t)

\* A follower that was asked takes nothing that is longer than what it may have.
LEMMA FrozenStays ==
    ASSUME TabTypes, tab' \in [Tablets -> TabType], NEW t \in Tablets, Tame(t),
           NEW x \in Int, NEW n \in Nat, NEW m \in Nat, n <= m,
           Frozen(t, x), Short(t, n),
           \A c \in calls : c.term >= x => c.index <= n
    PROVE  Frozen(t, x)' /\ (t \in raced' \/ Len(tab'[t].log) <= m)
<1>1. /\ tab[t].term \in Nat /\ tab'[t].term \in Nat
      /\ Len(tab[t].log) \in Nat /\ Len(tab'[t].log) \in Nat
  BY TabFieldsOf DEF TabTypes
<1>2. CASE tab'[t] = NoTable
  BY <1>2, NoTableFact DEF Frozen
<1>3. CASE tab'[t] # NoTable
  <2>1. Frozen(t, x)'
    BY <1>1, <1>3 DEF Frozen, Tame
  <2>2. ASSUME t \notin raced' PROVE Len(tab'[t].log) <= m
    <3>1. /\ t \notin raced /\ ~tab[t].leader /\ Len(tab[t].log) <= n
          /\ tab[t].table => tab[t].term >= x
          /\ Len(tab'[t].log) = Len(tab[t].log) \/ MayGrow(t)
      BY <1>3, <2>2, ZenonT(60) DEF Tame, Frozen, Short
    <3>2. CASE Len(tab'[t].log) = Len(tab[t].log)
      BY <1>1, <3>1, <3>2, AtMost, Zenon
    <3>3. CASE MayGrow(t)
      <4>1. PICK c \in calls : /\ c.to = t /\ c.term >= tab[t].term
                               /\ Len(tab'[t].log) <= c.index
        BY <3>1, <3>3 DEF MayGrow
      <4>2. tab[t].table /\ c.term \in Nat /\ c.index \in Nat
        BY <4>1 DEF TabTypes, CallTypes, CallType
      <4>3. c.term >= x
        BY <1>1, <3>1, <4>1, <4>2
      <4> QED BY <1>1, <4>1, <4>2, <4>3
    <3> QED BY <3>1, <3>2, <3>3, ZenonT(60)
  <2> QED BY <2>1, <2>2
<1> QED BY <1>2, <1>3

\* Who leads afterwards led before, and with a newer term only if a request of
\* that term was handled on it.
LEMMA LeadsStays ==
    ASSUME TabTypes, tab' \in [Tablets -> TabType], KeepLeaders, term_ \in Nat, term_' = term_,
           CallShape, NEW l \in Tablets, Tame(l), Leads(l)
    PROVE  Leads(l)'
<1>1. ASSUME NEW t \in Tablets, tab'[t].leader, tab'[t].term >= term_ - 1
      PROVE  t = l
  <2>1. tab[t].leader
    BY <1>1 DEF KeepLeaders
  <2>2. CASE tab'[t].term = tab[t].term
    BY <1>1, <2>1, <2>2 DEF Leads
  <2>3. CASE \E c \in calls : c.to = t /\ tab'[t].term = c.term
    BY <1>1, <2>1, <2>3 DEF Leads
  <2> QED BY <1>1, <2>2, <2>3 DEF KeepLeaders
<1>2. ASSUME NEW c \in calls', c.term >= term_ - 1
      PROVE  /\ tab'[c.to].leader => c.to = l
             /\ tab'[l].table => c.index <= Len(tab'[l].log)
  <2>1. PICK d \in calls : SameRequest(c, d)
    BY <1>2 DEF KeepLeaders, KeepCalls
  <2>2. c.to = d.to /\ c.term = d.term /\ c.index = d.index /\ d.to \in Tablets /\ d.index \in Nat
    BY <2>1 DEF SameRequest, TabTypes, CallTypes, CallType
  <2>3. /\ tab[d.to].leader => d.to = l
        /\ tab[l].table => d.index <= Len(tab[l].log)
    BY <1>2, <2>2 DEF Leads
  <2>4. tab'[c.to].leader => c.to = l
    BY <2>2, <2>3 DEF KeepLeaders
  <2>5. ASSUME tab'[l].table PROVE c.index <= Len(tab'[l].log)
    <3>1. tab[l].table /\ Len(tab'[l].log) >= Len(tab[l].log)
      BY <2>5, NoTableFact, Zenon DEF Tame
    <3>2. Len(tab[l].log) \in Nat /\ Len(tab'[l].log) \in Nat
      BY TabFieldsOf DEF TabTypes
    <3> QED BY <2>2, <2>3, <3>1, <3>2
  <2> QED BY <2>4, <2>5
<1> QED BY <1>1, <1>2 DEF Leads

LEMMA TamePhases ==
    ASSUME LInv, UNCHANGED <<ops, data, term_>>, tab' \in [Tablets -> TabType], KeepLeaders,
           \A t \in Tablets : Tame(t)
    PROVE  Phases' /\ DataTypes'
<1>1. /\ TabTypes /\ TabShape /\ CallShape /\ term_ \in Nat
      /\ Running("SelectLeader") \/ Running("ChangeLeader") =>
            data.term \in Nat /\ data.offset \in Nat
  BY DEF LInv, DataTypes, EInv, Shapes
<1>2. \A t \in Tablets : Len(tab[t].log) \in Nat /\ Len(tab'[t].log) \in Nat
  BY <1>1, TabFieldsOf DEF TabTypes
<1>3. ops # <<>> => Followers \in SUBSET Tablets
  BY HeadKind DEF LInv, EInv
<1>4. /\ Followers' = Followers
      /\ \A do : Running(do)' <=> Running(do)
  BY DEF Followers, Running
<1>5. ASSUME NEW t \in Tablets, tab'[t].table
      PROVE  tab[t].table /\ Len(tab'[t].log) >= Len(tab[t].log)
  BY <1>5, NoTableFact DEF Tame
<1>6. Asking'
  <2> SUFFICES ASSUME Running("SelectLeader"), data.pc = "ask"
               PROVE  /\ \A f \in Followers \ data.left :
                            Frozen(f, data.term)' /\ (f \in raced' \/ Len(tab'[f].log) <= data.offset)
                      /\ \A f \in data.best : tab'[f].table => Len(tab'[f].log) >= data.offset
    BY <1>4, Zenon DEF LInv, Phases, Asking, Short
  <2>1. /\ Followers \in SUBSET Tablets /\ data.term \in Nat /\ data.offset \in Nat
        /\ data.best \subseteq Followers
    BY <1>1, <1>3 DEF Running, LInv, Phases, Asking
  <2>2. ASSUME NEW c \in calls, c.term >= data.term PROVE c.index <= data.offset
    <3>1. AskCalls(data.term)
      BY DEF LInv, EInv
    <3>2. c.term \in Nat
      BY <1>1 DEF CallShape
    <3>3. c.index = 0
      BY <2>1, <2>2, <3>1, <3>2 DEF AskCalls
    <3> QED BY <2>1, <3>3
  <2>3. ASSUME NEW f \in Followers \ data.left
        PROVE  Frozen(f, data.term)' /\ (f \in raced' \/ Len(tab'[f].log) <= data.offset)
    <3>1. f \in Tablets /\ Frozen(f, data.term) /\ Short(f, data.offset)
      BY <2>1, <2>3 DEF LInv, Phases, Asking
    <3> DEFINE x == data.term
               n == data.offset
    <3>2. x \in Int /\ n \in Nat /\ n <= n /\ Frozen(f, x) /\ Short(f, n)
      BY <2>1, <3>1
    <3>3. \A c \in calls : c.term >= x => c.index <= n
      BY <2>2
    <3>4. data' = data
      OBVIOUS
    <3>5. x' = x /\ n' = n
      BY <3>4
    <3>6. (~tab'[f].leader /\ (tab'[f].table => f \in raced' \/ tab'[f].term >= x))
          /\ (f \in raced' \/ Len(tab'[f].log) <= n)
      <4> HIDE DEF x, n
      <4> QED BY <1>1, <3>1, <3>2, <3>3, FrozenStays, ZenonT(60) DEF Frozen
    <3> QED BY <3>4, <3>6 DEF Frozen
  <2>4. ASSUME NEW f \in data.best, tab'[f].table PROVE Len(tab'[f].log) >= data.offset
    <3>1. f \in Tablets /\ tab[f].table /\ Len(tab'[f].log) >= Len(tab[f].log)
      BY <1>5, <2>1, <2>4
    <3>2. Len(tab[f].log) >= data.offset
      BY <3>1 DEF LInv, Phases, Asking
    <3> QED BY <1>2, <2>1, <3>1, <3>2
  <2> QED BY <2>3, <2>4
<1>7. Chosen'
  <2> SUFFICES ASSUME Running("ChangeLeader")
               PROVE  /\ LeadersBelow(term_ - 1)' /\ AskCalls(term_ - 1)'
                      /\ \A f \in Followers :
                            Frozen(f, term_ - 1)' /\ (f \in raced' \/ Len(tab'[f].log) <= data.offset)
                      /\ tab'[data.leader].table => Len(tab'[data.leader].log) >= data.offset
    BY <1>4, Zenon DEF LInv, Phases, Chosen, Short
  <2>1. /\ Followers \in SUBSET Tablets /\ data.offset \in Nat
        /\ data.leader \in Followers /\ LeadersBelow(term_ - 1) /\ AskCalls(term_ - 1)
    BY <1>1, <1>3 DEF Running, LInv, Phases, Chosen
  <2> DEFINE x == term_ - 1
             n == data.offset
  <2>2. x \in Int /\ n \in Nat /\ n <= n /\ LeadersBelow(x) /\ AskCalls(x) /\ x' = x
    BY <1>1, <2>1
  <2> HIDE DEF x, n
  <2>3. LeadersBelow(x)' /\ AskCalls(x)'
    BY <1>1, <2>2, StayBelow, ZenonT(60) DEF LeadersBelow, AskCalls
  <2>4. ASSUME NEW c \in calls, c.term >= x PROVE c.index <= n
    <3>1. c.term \in Nat
      BY <1>1 DEF CallShape
    <3>2. c.index = 0
      BY <2>2, <2>4, <3>1 DEF AskCalls
    <3> QED BY <2>2, <3>2
  <2>5. ASSUME NEW f \in Followers
        PROVE  Frozen(f, x)' /\ (f \in raced' \/ Len(tab'[f].log) <= n)
    <3>1. f \in Tablets /\ Frozen(f, x) /\ Short(f, n)
      BY <2>1, <2>5 DEF LInv, Phases, Chosen, x, n
    <3>2. (~tab'[f].leader /\ (tab'[f].table => f \in raced' \/ tab'[f].term >= x))
          /\ (f \in raced' \/ Len(tab'[f].log) <= n)
      BY <1>1, <2>2, <2>4, <3>1, FrozenStays DEF Frozen
    <3> QED BY <2>2, <3>2 DEF Frozen
  <2>6. ASSUME tab'[data.leader].table PROVE Len(tab'[data.leader].log) >= data.offset
    <3>1. /\ data.leader \in Tablets /\ tab[data.leader].table
          /\ Len(tab'[data.leader].log) >= Len(tab[data.leader].log)
      BY <1>5, <2>1, <2>6, ZenonT(60)
    <3>2. Len(tab[data.leader].log) >= data.offset
      BY <3>1 DEF LInv, Phases, Chosen
    <3> QED BY <1>2, <2>1, <3>1, <3>2
  <2> QED BY <2>3, <2>5, <2>6 DEF x, n
<1>8. Elected'
  <2> SUFFICES ASSUME Running("UpdateLeaderInfo")
               PROVE  /\ Leads(data.leader)'
                      /\ \A f \in Followers \ {data.leader} : Frozen(f, term_ - 1)'
                      /\ tab'[data.leader].table =>
                            \A f \in Followers :
                               f \in raced' \/ Len(tab'[f].log) <= Len(tab'[data.leader].log)
    BY <1>4, Zenon DEF LInv, Phases, Elected, Short
  <2>1. /\ Followers \in SUBSET Tablets /\ data.leader \in Followers /\ Leads(data.leader)
        /\ \A f \in Followers \ {data.leader} : Frozen(f, term_ - 1)
        /\ tab[data.leader].table =>
              \A f \in Followers : Short(f, Len(tab[data.leader].log))
    BY <1>3, ZenonT(60) DEF Running, LInv, Phases, Elected
  <2> DEFINE x == term_ - 1
             l == data.leader
  <2>2. x \in Int /\ l \in Tablets /\ x' = x /\ l' = l
    <3>1. x \in Int
      BY <1>1
    <3> QED BY <2>1, <3>1, Zenon
  <2>3. Leads(l)'
    <3>1. Leads(l)
      BY <2>1
    <3> HIDE DEF l
    <3>2. \A t \in Tablets : t = l => (Leads(t))'
      BY <1>1, <2>2, <3>1, LeadsStays
    <3> QED BY <2>2, <3>2 DEF Leads
  <2>4. ASSUME NEW f \in Followers \ {l} PROVE Frozen(f, x)'
    <3>1. f \in Tablets /\ Frozen(f, x)
      BY <2>1, <2>4, ZenonT(60)
    <3> HIDE DEF x
    <3>2. tab[f].term \in Nat /\ tab'[f].term \in Nat
      BY <1>1, <3>1, TabFieldsOf DEF TabTypes
    <3> QED BY <2>2, <3>1, <3>2, NoTableFact DEF Frozen, Tame
  <2>5. ASSUME tab'[l].table, NEW f \in Followers
        PROVE  f \in raced' \/ Len(tab'[f].log) <= Len(tab'[l].log)
    <3> DEFINE n == Len(tab[l].log)
               m == Len(tab'[l].log)
    <3>1. tab[l].table /\ m >= n /\ n \in Nat /\ m \in Nat /\ f \in Tablets
      BY <1>2, <1>5, <2>1, <2>2, <2>5, ZenonT(60)
    <3>2. CASE f = l
      BY <3>1, <3>2
    <3>3. CASE f # l
      <4>1. Frozen(f, x) /\ Short(f, n)
        BY <2>1, <2>5, <3>1, <3>3, ZenonT(60)
      <4>2. \A c \in calls : c.term >= x => c.index <= n
        BY <2>1, <3>1, ZenonT(60) DEF Leads
      <4>3. n <= m
        BY <3>1
      <4> HIDE DEF n, m, x
      <4> QED BY <1>1, <2>2, <3>1, <4>1, <4>2, <4>3, FrozenStays, ZenonT(60) DEF m
    <3> QED BY <3>2, <3>3
  <2> QED BY <2>3, <2>4, <2>5
<1>9. Idle'
  BY DEF LInv, Phases, Idle
<1> QED BY <1>1, <1>4, <1>6, <1>7, <1>8, <1>9 DEF Phases, DataTypes

-----------------------------------------------------------------------------
(* The steps without an operation.                                         *)

\* Nothing happens to tables, handlers and operations.
LEMMA TypesKept ==
    ASSUME TabTypes, UNCHANGED <<tab, disk, node, callVars>>
    PROVE  TabTypes'
BY DEF TabTypes, CallTypes, callVars

LEMMA QuietLogs ==
    ASSUME LInv, UNCHANGED <<tab, callVars, ops, data, term_>>
    PROVE  Phases' /\ DataTypes'
<1>1. \A t \in Tablets : tab[t].term \in Nat /\ Len(tab[t].log) \in Nat
  BY TabFieldsOf DEF LInv, TabTypes
<1>2. \A t \in Tablets : Tame(t)
  BY <1>1 DEF Tame, callVars
<1>3. KeepLeaders
  BY TabSame DEF LInv, EInv, Shapes
<1> QED BY <1>2, <1>3, TamePhases DEF LInv, TabTypes

LEMMA TabletLogs ==
    ASSUME LInv, NEW t \in Tablets,
           \/ Put(t) \/ MakeSnapshot(t)
           \/ Crash(t) \/ SessionExpires(t) \/ Restart(t) \/ CheckZkClient(t)
    PROVE  TabTypes' /\ Phases' /\ DataTypes'
<1>1. /\ tab \in [Tablets -> TabType] /\ disk \in [Tablets -> DiskType]
      /\ node \in [Tablets -> [Tablets -> NodeType]] /\ tab[t] \in TabType
      /\ tab[t].term \in Nat /\ tab[t].log \in Seq(Nat)
      /\ TabTypes /\ CallTypes /\ TabShape
  BY TabFieldsOf DEF LInv, TabTypes, EInv, Shapes
<1>7. \A u \in Tablets : tab[u].term \in Nat /\ tab[u].log \in Seq(Nat) /\ Len(tab[u].log) \in Nat
  BY <1>1, TabFieldsOf
<1>2. CASE Put(t)
  <2> DEFINE x == Append(tab[t].log, tab[t].term)
             r == [tab[t] EXCEPT !.log = x]
  <2>1. /\ tab' = [tab EXCEPT ![t].log = x] /\ tab[t].leader
        /\ UNCHANGED <<disk, node, ops, data, term_, callVars>>
    BY <1>2 DEF Put, infoVars
  <2>2. x \in Seq(Nat) /\ Len(x) >= Len(tab[t].log)
    BY <1>1
  <2> HIDE DEF x
  <2>3. KeepLeaders
    BY <1>1, <2>1, CallsSame, TabField, Zenon
  <2>4. /\ r \in TabType /\ r.log = x /\ r.table = tab[t].table
        /\ r.leader = tab[t].leader /\ r.term = tab[t].term
    BY <1>1, <2>2, NewLog
  <2>5. tab' = [tab EXCEPT ![t] = r]
    BY <2>1
  <2> HIDE DEF r
  <2>6. /\ tab' \in [Tablets -> TabType]
        /\ \A u \in Tablets : tab'[u] = IF u = t THEN r ELSE tab[u]
    BY <1>1, <2>4, <2>5, TabUpdate, Zenon
  <2>7. \A u \in Tablets : Tame(u)
    BY <1>1, <1>7, <2>1, <2>2, <2>4, <2>6 DEF Tame, MayGrow, callVars
  <2>8. CallTypes'
    <3>1. calls' \subseteq calls
      BY <2>1 DEF callVars
    <3>2. ASSUME NEW u \in Tablets, tab[u].table
          PROVE  tab'[u].table /\ tab'[u].log \in Seq(Nat) /\ Len(tab'[u].log) >= Len(tab[u].log)
      <4>1. CASE u = t
        BY <2>2, <2>4, <2>6, <3>2, <4>1
      <4>2. CASE u # t
        <5>1. tab'[u] = tab[u]
          BY <2>6, <4>2
        <5> QED BY <1>7, <3>2, <5>1
      <4> QED BY <4>1, <4>2
    <3> QED BY <1>1, <3>1, <3>2, CallsStay
  <2> QED BY <1>1, <2>1, <2>3, <2>6, <2>7, <2>8, TamePhases DEF TabTypes
<1>3. CASE Crash(t)
  <2>1. /\ tab' = [tab EXCEPT ![t] = NoTable] /\ TableGone(t)
        /\ node' = [node EXCEPT ![t] = [f \in Tablets |-> NoNode]]
        /\ raced' = raced \ {t}
        /\ UNCHANGED <<disk, ops, data, term_>>
    BY <1>3 DEF Crash, TableGone, infoVars
  <2>2. /\ tab' \in [Tablets -> TabType]
        /\ \A u \in Tablets : tab'[u] = IF u = t THEN NoTable ELSE tab[u]
    BY <1>1, <2>1, NoTableFact, TabUpdate, Zenon
  <2>3. \A u \in Tablets : Tame(u)
    BY <1>7, <2>1, <2>2 DEF Tame
  <2>4. node' \in [Tablets -> [Tablets -> NodeType]]
    BY <1>1, <2>1 DEF NodeType, NoNode
  <2>5. CallTypes'
    BY <1>1, <2>1, CallsLeave
  <2>6. KeepLeaders
    <3>1. IsTab(NoTable) /\ NoTable.leader = FALSE
      BY DEF IsTab, NoTable
    <3> QED BY <1>1, <2>1, <3>1, CallsGone, TabSet, Zenon
  <2> QED BY <1>1, <2>1, <2>2, <2>3, <2>4, <2>5, <2>6, TamePhases DEF TabTypes
<1>4. CASE MakeSnapshot(t)
  <2>1. UNCHANGED <<tab, node, callVars, ops, data, term_>>
    BY <1>4, Zenon DEF MakeSnapshot, infoVars
  <2>2. disk' \in [Tablets -> DiskType]
    <3>1. PICK n \in Len(disk[t].log) + 1 .. Len(tab[t].log) :
             disk' = [disk EXCEPT ![t] = [log |-> SubSeq(tab[t].log, 1, n), term |-> tab[t].log[n]]]
      BY <1>4, Zenon DEF MakeSnapshot
    <3>2. n \in 1 .. Len(tab[t].log)
      <4>1. Len(disk[t].log) \in Nat
        BY <1>1 DEF DiskType
      <4> QED BY <1>1, <4>1
    <3>3. SubSeq(tab[t].log, 1, n) \in Seq(Nat) /\ tab[t].log[n] \in Nat
      BY <1>1, <3>2, PrefixNat, Zenon
    <3>4. [log |-> SubSeq(tab[t].log, 1, n), term |-> tab[t].log[n]] \in DiskType
      BY <3>3, Zenon DEF DiskType
    <3> QED BY <1>1, <3>1, <3>4, Zenon
  <2>3. CallTypes'
    BY <1>1, <2>1 DEF CallTypes, callVars
  <2> QED BY <1>1, <2>1, <2>2, <2>3, QuietLogs DEF TabTypes
<1>5. CASE SessionExpires(t) \/ Restart(t) \/ CheckZkClient(t)
  <2>1. UNCHANGED <<tab, disk, node, callVars, ops, data, term_>>
    BY <1>5, Zenon DEF SessionExpires, Restart, CheckZkClient, infoVars
  <2> QED BY <1>1, <2>1, QuietLogs, TypesKept
<1> QED BY <1>2, <1>3, <1>4, <1>5

\* A request is let through.
LEMMA CheckedLogs ==
    ASSUME LInv, NEW from \in Tablets \cup {None}, NEW f \in Tablets, NEW term \in Nat,
           NEW index \in Nat, NEW entry \in Nat, Checked(from, f, term, index, entry),
           UNCHANGED <<tab, disk, node, raced, ops, data, term_>>,
           Running("ChangeLeader") => term < term_ - 1,
           Running("UpdateLeaderInfo") /\ term >= term_ - 1 /\ tab[data.leader].table =>
               index <= Len(tab[data.leader].log)
    PROVE  TabTypes' /\ Phases' /\ DataTypes'
<1> DEFINE c == [from |-> from, to |-> f, term |-> term, index |-> index, entry |-> entry,
                 seen |-> tab[f].term, offset |-> Len(tab[f].log)]
<1>1. /\ TabTypes /\ tab[f] \in TabType /\ tab[f].term \in Nat /\ Len(tab[f].log) \in Nat
      /\ tab[f].table /\ ~tab[f].leader /\ calls' = calls \cup {c}
  BY TabFieldsOf, ZenonT(60) DEF LInv, TabTypes, Checked, Accepts
<1>2. /\ c \in CallType /\ c.to = f /\ c.term = term /\ c.index = index
      /\ c.offset = Len(tab[f].log)
  BY <1>1, ZenonT(60) DEF CallType
<1> HIDE DEF c
<1>3. TabTypes'
  <2>1. c.offset <= Len(tab[c.to].log) /\ tab[c.to].table
    BY <1>1, <1>2
  <2> QED BY <1>1, <1>2, <2>1, ZenonT(60) DEF TabTypes, CallTypes
<1>4. /\ Followers' = Followers
      /\ \A do : Running(do)' <=> Running(do)
  BY DEF Followers, Running
<1>5. \A g, x : (Frozen(g, x)' <=> Frozen(g, x)) /\ (Short(g, x)' <=> Short(g, x))
  BY DEF Frozen, Short
<1>6. Asking' /\ Idle' /\ DataTypes'
  BY <1>4, <1>5, Zenon DEF LInv, Phases, Asking, Idle, DataTypes, Short, Frozen
<1>7. Chosen'
  <2> SUFFICES ASSUME Running("ChangeLeader") PROVE Chosen'
    BY <1>4 DEF Chosen
  <2>1. LeadersBelow(term_ - 1)' /\ AskCalls(term_ - 1)'
    BY <1>1, <1>2, ZenonT(60) DEF LInv, Phases, Chosen, LeadersBelow, AskCalls
  <2> QED BY <1>4, <1>5, <2>1, Zenon DEF LInv, Phases, Chosen, Frozen, Short
<1>8. Elected'
  <2> SUFFICES ASSUME Running("UpdateLeaderInfo") PROVE Elected'
    BY <1>4, ZenonT(60) DEF Elected
  <2>1. Leads(data.leader)'
    BY <1>1, <1>2, ZenonT(60) DEF LInv, Phases, Elected, Leads
  <2> QED BY <1>4, <1>5, <2>1, Zenon DEF LInv, Phases, Elected, Frozen, Short
<1> QED BY <1>3, <1>6, <1>7, <1>8 DEF Phases

LEMMA ReplicationLogs ==
    ASSUME LInv, NEW l \in Tablets, NEW f \in Tablets, MatchLogOffset(l, f) \/ SyncData(l, f)
    PROVE  TabTypes' /\ Phases' /\ DataTypes'
<1>1. /\ tab[l] \in TabType /\ tab[l].term \in Nat /\ tab[l].log \in Seq(Nat)
      /\ Len(tab[l].log) \in Nat /\ term_ \in Nat /\ node[l][f] \in NodeType
  BY TabFieldsOf DEF LInv, TabTypes, EInv, Shapes
<1>2. /\ tab[l].leader /\ node[l][f] # NoNode
      /\ UNCHANGED <<tab, disk, node, raced, ops, data, term_>>
  BY Zenon DEF MatchLogOffset, SyncData, Sends, infoVars
<1>3. PICK k \in Nat, e \in Nat : Checked(l, f, tab[l].term, k, e) /\ k <= Len(tab[l].log)
  <2>1. CASE MatchLogOffset(l, f)
    <3>1. Checked(l, f, tab[l].term, 0, 0)
      BY <2>1, Zenon DEF MatchLogOffset
    <3>2. 0 \in Nat /\ 0 <= Len(tab[l].log)
      BY <1>1
    <3> QED BY <3>1, <3>2, Zenon
  <2>2. CASE SyncData(l, f)
    <3> DEFINE k == node[l][f] + 1
    <3>1. node[l][f] # Unmatched /\ k <= Len(tab[l].log) /\ Checked(l, f, tab[l].term, k, tab[l].log[k])
      BY <2>2, Zenon DEF SyncData
    <3>2. k \in Nat /\ k >= 1
      BY <1>1, <1>2, <3>1, NextOffset, Zenon
    <3> HIDE DEF k
    <3>3. tab[l].log[k] \in Nat
      BY <1>1, <3>1, <3>2, EntryNat, Zenon
    <3> QED BY <3>1, <3>2, <3>3, ZenonT(60)
  <2> QED BY <2>1, <2>2
<1> DEFINE x == tab[l].term
<1>4. Running("ChangeLeader") => x < term_ - 1
  BY <1>2, ZenonT(60) DEF LInv, Phases, Chosen, LeadersBelow
<1>5. Running("UpdateLeaderInfo") /\ x >= term_ - 1 /\ tab[data.leader].table =>
         k <= Len(tab[data.leader].log)
  BY <1>2, <1>3, ZenonT(60) DEF LInv, Phases, Elected, Leads
<1>6. x \in Nat /\ Checked(l, f, x, k, e)
  BY <1>1, <1>3
<1> HIDE DEF x
<1> QED BY <1>2, <1>4, <1>5, <1>6, CheckedLogs, ZenonT(60)

LEMMA NodeUpdate ==
    ASSUME node \in [Tablets -> [Tablets -> NodeType]], NEW l, NEW e, NEW v,
           l \in Tablets /\ e \in Tablets => v \in NodeType, node' = [node EXCEPT ![l][e] = v]
    PROVE  node' \in [Tablets -> [Tablets -> NodeType]]
<1>1. CASE l \in Tablets
  <2>1. [node[l] EXCEPT ![e] = v] \in [Tablets -> NodeType]
    BY <1>1, Zenon
  <2> QED BY <1>1, <2>1
<1>2. CASE l \notin Tablets
  <2>1. node' = node
    BY <1>2
  <2> QED BY <2>1, Zenon
<1> QED BY <1>1, <1>2

LEMMA NodeClear ==
    ASSUME node \in [Tablets -> [Tablets -> NodeType]], NEW l,
           node' = [node EXCEPT ![l] = [f \in Tablets |-> NoNode]]
    PROVE  node' \in [Tablets -> [Tablets -> NodeType]]
<1>1. [f \in Tablets |-> NoNode] \in [Tablets -> NodeType]
  BY DEF NodeType, NoNode
<1> QED BY <1>1, Zenon

\* What a handler does when it gets to it.
LEMMA FinishTame ==
    ASSUME LInv, NEW c \in calls, Finish(c)
    PROVE  /\ tab' \in [Tablets -> TabType] /\ CallTypes' /\ KeepLeaders
           /\ \A t \in Tablets : Tame(t)
<1>1. /\ tab \in [Tablets -> TabType] /\ CallTypes /\ CallShape /\ c \in CallType
      /\ calls' \subseteq calls
  BY DEF LInv, TabTypes, CallTypes, EInv, Shapes, Finish
<1>2. /\ c.to \in Tablets /\ c.term \in Nat /\ c.seen \in Nat /\ c.seen <= c.term
      /\ c.index \in Nat /\ c.entry \in Nat
  BY <1>1 DEF CallShape, CallType
<1>3. \A t \in Tablets : /\ tab[t].term \in Nat /\ tab[t].log \in Seq(Nat)
                         /\ Len(tab[t].log) \in Nat /\ tab[t].table \in BOOLEAN
  BY <1>1, TabFieldsOf
<1>4. /\ raced \subseteq raced'
      /\ c.to \in raced' \/ tab[c.to].term = c.seen
  BY DEF Finish, Late
<1>5. KeepLeaders
  BY FinishLeaders DEF LInv
<1>9. \A t \in Tablets : tab[t].term >= tab[t].term /\ Len(tab[t].log) >= Len(tab[t].log)
  BY <1>3
<1>6. CASE tab' = tab
  <2>1. \A t \in Tablets : Tame(t)
    BY <1>4, <1>6, <1>9, Zenon DEF Tame
  <2>2. CallTypes'
    BY <1>1, <1>3, <1>6, CallsStay
  <2> QED BY <1>1, <1>5, <1>6, <2>1, <2>2
<1>7. CASE tab' = [tab EXCEPT ![c.to].term = c.term]
  <2> DEFINE x == c.term
             r == [tab[c.to] EXCEPT !.term = x]
  <2>1. tab' = [tab EXCEPT ![c.to] = r] /\ tab[c.to] \in TabType
    BY <1>1, <1>2, <1>7
  <2>2. /\ r \in TabType /\ r.log = tab[c.to].log /\ r.table = tab[c.to].table
        /\ r.leader = tab[c.to].leader /\ r.term = x
    BY <1>2, <2>1, NewTerm
  <2> HIDE DEF r
  <2>3. /\ tab' \in [Tablets -> TabType]
        /\ \A t \in Tablets : tab'[t] = IF t = c.to THEN r ELSE tab[t]
    BY <1>1, <2>1, <2>2, TabUpdate, Zenon
  <2>6. c.to \in raced' \/ r.term >= tab[c.to].term
    BY <1>2, <1>4, <2>2
  <2>7. Tame(c.to)
    BY <1>2, <1>4, <1>9, <2>2, <2>3, <2>6, Zenon DEF Tame
  <2>8. \A t \in Tablets \ {c.to} : Tame(t)
    BY <1>4, <1>9, <2>3, Zenon DEF Tame
  <2>4. \A t \in Tablets : Tame(t)
    BY <2>7, <2>8, Zenon
  <2>5. CallTypes'
    BY <1>1, <1>3, <2>2, <2>3, CallsStay
  <2> QED BY <1>5, <2>3, <2>4, <2>5, ZenonT(60)
<1>8. CASE /\ ~(c.index <= Len(tab[c.to].log))
           /\ tab' = [tab EXCEPT ![c.to].log = [i \in 1 .. c.index |->
                        IF i <= Len(tab[c.to].log) THEN tab[c.to].log[i]
                        ELSE IF i = c.index THEN c.entry ELSE 0]]
  <2> DEFINE own == tab[c.to].log
             k == c.index
             x == [i \in 1 .. k |->
                     IF i <= Len(own) THEN own[i] ELSE IF i = k THEN c.entry ELSE 0]
             r == [tab[c.to] EXCEPT !.log = x]
  <2>1. x \in Seq(Nat) /\ Len(x) = k
    <3>1. \A i \in 1 .. k : (IF i <= Len(own) THEN own[i] ELSE IF i = k THEN c.entry ELSE 0) \in Nat
      <4>1. own \in Seq(Nat)
        BY <1>2, <1>3
      <4>2. \A i \in Nat : 1 <= i /\ i <= Len(own) => own[i] \in Nat
        BY <4>1
      <4> HIDE DEF own
      <4> QED BY <1>2, <4>2
    <3>2. x \in [1 .. k -> Nat]
      BY <3>1
    <3>3. k \in Nat
      BY <1>2
    <3> HIDE DEF x, k
    <3> QED BY <3>2, <3>3
  <2>2. tab' = [tab EXCEPT ![c.to] = r] /\ tab[c.to] \in TabType
    BY <1>1, <1>2, <1>8
  <2> HIDE DEF x
  <2>3. /\ r \in TabType /\ r.log = x /\ r.table = tab[c.to].table
        /\ r.leader = tab[c.to].leader /\ r.term = tab[c.to].term
    BY <2>1, <2>2, NewLog
  <2> HIDE DEF r
  <2>4. /\ tab' \in [Tablets -> TabType]
        /\ \A t \in Tablets : tab'[t] = IF t = c.to THEN r ELSE tab[t]
    BY <1>1, <2>2, <2>3, TabUpdate, Zenon
  <2>5. Len(x) >= Len(own) /\ Len(x) = c.index
    BY <1>2, <1>3, <1>8, <2>1
  <2>6. Tame(c.to)
    <3>1. c.to \in raced' \/ MayGrow(c.to)
      <4>1. tab'[c.to].log = x /\ (c.to \in raced' \/ c.term >= tab[c.to].term)
        BY <1>2, <1>4, <2>3, <2>4
      <4>2. Len(x) <= c.index
        BY <1>2, <2>5
      <4> QED BY <4>1, <4>2, Zenon DEF MayGrow
    <3> QED BY <1>2, <1>4, <1>9, <2>3, <2>4, <2>5, <3>1, Zenon DEF Tame
  <2>7. \A t \in Tablets \ {c.to} : Tame(t)
    BY <1>4, <1>9, <2>4, Zenon DEF Tame
  <2>8. CallTypes'
    <3>1. ASSUME NEW t \in Tablets, tab[t].table
          PROVE  tab'[t].table /\ tab'[t].log \in Seq(Nat) /\ Len(tab'[t].log) >= Len(tab[t].log)
      <4>1. CASE t = c.to
        BY <2>1, <2>3, <2>4, <2>5, <3>1, <4>1
      <4>2. CASE t # c.to
        <5>1. tab'[t] = tab[t]
          BY <2>4, <4>2
        <5> QED BY <1>3, <3>1, <5>1
      <4> QED BY <4>1, <4>2
    <3> QED BY <1>1, <3>1, CallsStay
  <2> QED BY <1>5, <2>4, <2>6, <2>7, <2>8
<1> QED BY <1>6, <1>7, <1>8, Zenon DEF Finish, Handled

LEMMA HandlerLogs ==
    ASSUME LInv, NEW c \in calls, AppendEntries(c)
    PROVE  TabTypes' /\ Phases' /\ DataTypes'
<1>1. Finish(c) /\ UNCHANGED <<disk, ops, data, term_>>
  BY DEF AppendEntries, infoVars
<1>2. /\ tab' \in [Tablets -> TabType] /\ CallTypes' /\ KeepLeaders
      /\ \A t \in Tablets : Tame(t)
  BY <1>1, FinishTame
<1>3. node' \in [Tablets -> [Tablets -> NodeType]]
  <2>1. node \in [Tablets -> [Tablets -> NodeType]] /\ c \in CallType
    BY DEF LInv, TabTypes, CallTypes
  <2>2. UNCHANGED node \/ \E v \in Nat : node' = [node EXCEPT ![c.from][c.to] = v]
    <3>1. c.offset \in Nat /\ c.index \in Nat
      BY <2>1 DEF CallType
    <3> QED BY <3>1 DEF AppendEntries
  <2>3. Nat \subseteq NodeType
    BY DEF NodeType
  <2> QED BY <2>1, <2>2, <2>3, NodeUpdate, Zenon
<1> QED BY <1>1, <1>2, <1>3, TamePhases DEF TabTypes, LInv

\* Operations that are added wait behind the running one.
LEMMA AddLogs ==
    ASSUME LInv, NEW new \in Seq(NewOps), AddOPData(new),
           UNCHANGED <<tab, callVars, data, term_>>
    PROVE  Phases' /\ DataTypes'
<1>1. ops' = ops \o new /\ OpsShape /\ Idle
  BY DEF AddOPData, LInv, EInv, Phases
<1>2. CASE ops = <<>>
  <2>1. ops' = new /\ data' = NoData
    BY <1>1, <1>2 DEF Idle
  <2> QED BY <2>1, FreshPhases
<1>3. CASE ops # <<>>
  <2>1. ops \in Seq(GoodOps) /\ new \in Seq(GoodOps)
    BY <1>1, <1>3 DEF OpsShape, NewOps
  <2>2. ops' # <<>> /\ Head(ops') = Head(ops)
    BY <1>1, <1>3, <2>1, HeadTailConcat
  <2>3. Followers' = Followers /\ (\A do : Running(do)' <=> Running(do))
    BY <1>3, <2>2 DEF Followers, Running
  <2>4. \A f, x : (Frozen(f, x)' <=> Frozen(f, x)) /\ (Short(f, x)' <=> Short(f, x))
    BY DEF Frozen, Short, callVars
  <2>5. /\ LeadersBelow(term_ - 1)' <=> LeadersBelow(term_ - 1)
        /\ AskCalls(term_ - 1)' <=> AskCalls(term_ - 1)
        /\ Leads(data.leader)' <=> Leads(data.leader)
    BY DEF LeadersBelow, AskCalls, Leads, callVars
  <2>6. Asking'
    BY <2>3, <2>4, Zenon DEF LInv, Phases, Asking, Frozen, Short
  <2>7. Chosen'
    BY <2>3, <2>4, <2>5, Zenon DEF LInv, Phases, Chosen, Frozen, Short
  <2>8. Elected'
    BY <2>3, <2>4, <2>5, Zenon DEF LInv, Phases, Elected, Frozen, Short
  <2> QED BY <2>2, <2>3, <2>6, <2>7, <2>8 DEF Phases, Idle, LInv, DataTypes
<1> QED BY <1>2, <1>3

LEMMA WatchLogs ==
    ASSUME LInv, NEW t \in Tablets,
           \/ HeartbeatTimeout(t) \/ OnTabletOffline(t) \/ OfflineAfterTimeout(t)
           \/ OnTabletOnline(t) \/ OfflineAtStartup(t) \/ RecoverOnline(t)
    PROVE  TabTypes' /\ Phases' /\ DataTypes'
<1>1. UNCHANGED <<tab, disk, node, callVars, data, term_>>
  BY Zenon DEF HeartbeatTimeout, OnTabletOffline, OfflineAfterTimeout, OnTabletOnline,
         OfflineAtStartup, RecoverOnline, tabletVars, infoVars
<1>2. \/ UNCHANGED ops
      \/ AddOPData(OfflineEndpoint(t)) \/ AddOPData(RecoverEndpoint(t))
  BY Zenon DEF HeartbeatTimeout, OnTabletOffline, OfflineAfterTimeout, OnTabletOnline,
               OfflineAtStartup, RecoverOnline
<1>3. Phases' /\ DataTypes'
  BY <1>1, <1>2, QuietLogs, AddLogs, EndpointFact
<1> QED BY <1>1, <1>3, TypesKept DEF LInv
=============================================================================
