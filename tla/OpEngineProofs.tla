--------------------------- MODULE OpEngineProofs ---------------------------
(***************************************************************************)
(* Operations run each of their tasks as they should, for any plans of     *)
(* tasks, any number of operations and any faults: the work of a task on a *)
(* tablet starts at most once, tasks start in the order of the plan, an    *)
(* operation is done only when its tasks are, and what an operator         *)
(* canceled or deleted stays so.                                           *)
(*                                                                         *)
(* The argument is about the tasks that were Seen: handed to the pool, on  *)
(* their way to the tablet or started.  Neither the operation in memory    *)
(* nor its node in ZooKeeper is ever behind them by more than the front    *)
(* task, and the next leader does not start a tablet's front task again.   *)
(*                                                                         *)
(* The last section is about behaviours without a fault: no task is then   *)
(* marked failed.                                                          *)
(***************************************************************************)
EXTENDS OpTaskProofs

\* A step that names no prover has a minute for each.
USE SMTT(60), ZenonT(60)

-----------------------------------------------------------------------------
(* The invariant, for new operations, crashes and the next leader.         *)

\* A new operation, and maybe another status of the front task of one of the list.
LEMMA WCreated ==
    ASSUME TInv, TInv', WInv, NEW n, NEW p, Created(n, p), Seen' \subseteq Seen,
           succeeded \subseteq succeeded',
           \A x \in Ops : x # n => TasksOf(x)' = TasksOf(x),
           \A x \in Range(task_vec) : mem'[x].front = mem[x].front \/ Touched(x),
           UNCHANGED <<ns, pt, canceled, deleted>>, ns # "down"
    PROVE  /\ \A o \in Range(task_vec') : Listed(o)'
           /\ \A o \in Ops : Noded(o)'
           /\ InOrder' /\ Reported' /\ Collected' /\ Decided' /\ Down'
<1>1. /\ n = op_index + 1 /\ n \in Ops /\ op_index' = n /\ op_index \in Nat /\ n > op_index
      /\ ~(n <= op_index)
  BY OpFacts, SMTT(30) DEF Created
<1>2. /\ zk'[n] = NoNode \/ zk'[n] = NewNode
      /\ \A x \in Ops : x # n => /\ zk'[x] = zk[x] \/ zk'[x] = NoNode
                                 /\ mem'[x].status = mem[x].status /\ mem'[x].index = mem[x].index
      /\ \A x \in Range(task_vec') :
            x \in Range(task_vec) \/ (x = n /\ mem'[n] = NewOp /\ zk'[n] = NewNode)
      /\ SubList(done_op_list', done_op_list)
  BY Zenon DEF Created, SubList
<1>3. Calm
  BY <1>1, OpFacts DEF Calm
<1>4. n \notin Range(task_vec) /\ ~InDoneList(n) /\ n \notin deleted /\ n \notin canceled
  BY <1>1, ZenonT(60) DEF TInv, Unborn
<1>5. UpTo(n, 0)' /\ FreshFrom(n, 1)' /\ FreshFrom(n, 2)'
  <2>1. \A t \in Tasks : <<n, t>> \notin Seen
    BY <1>1, Zenon DEF WInv, InOrder
  <2>2. \A t \in Tasks : <<n, t>> \notin Seen'
    BY <2>1, Zenon
  <2> QED BY <2>2 DEF UpTo, FreshFrom
<1>6. /\ NewOp.status = "inited" /\ NewOp.index = 0 /\ NewOp.front = "inited"
      /\ NewNode.status = "inited" /\ NewNode.index = 0
      /\ NoNode.status = "none" /\ NoNode.index = 0
  BY NewOpFact, Zenon
<1>7. Noded(n)'
  <2>1. CASE zk'[n] = NoNode
    BY <1>6, <2>1, Zenon DEF Noded
  <2>2. CASE zk'[n] = NewNode
    BY <1>5, <1>6, <2>2, SMTT(30) DEF Noded
  <2> QED BY <1>2, <2>1, <2>2, Zenon
<1>8. ASSUME NEW x \in Range(task_vec') PROVE Listed(x)'
  <2>1. CASE x \in Range(task_vec)
    <3>1. x \in Ops /\ Listed(x) /\ x # n
      BY <1>4, <2>1, OpFacts, Zenon DEF WInv
    <3>2. Kept(x)
      BY <1>2, <2>1, <3>1, Zenon DEF Kept
    <3> QED BY <1>3, <3>1, <3>2, ListedFrame, Zenon
  <2>2. CASE x = n /\ mem'[n] = NewOp /\ zk'[n] = NewNode
    <3>1. ~FrontDone(n)'
      BY <1>6, <2>2, ZenonT(60) DEF FrontDone
    <3>2. n <= op_index'
      BY <1>1, SMTT(30)
    <3>3. PICK i \in {0} : i = mem'[n].index
      BY <1>6, <2>2, ZenonT(60)
    <3>4. i + 1 = 1 /\ i + 2 = 2
      BY <3>3
    <3> QED BY <1>5, <1>6, <2>2, <3>1, <3>2, <3>3, <3>4, Zenon DEF Listed
  <2> QED BY <1>2, <1>8, <2>1, <2>2, Zenon
<1>9. ASSUME NEW x \in Ops PROVE Noded(x)'
  BY <1>2, <1>3, <1>7, NodedFrame, Zenon DEF WInv
<1>10. InOrder'
  BY <1>3, InOrderFrame, Zenon DEF WInv
<1>11. Reported'
  <2>1. \A x \in Ops : InDoneList(x) => /\ zk[x].status = "none" => zk'[x].status = "none"
                                        /\ x \in Range(task_vec') => x \in Range(task_vec)
    BY <1>2, <1>4, <1>6, Zenon
  <2> QED BY <1>2, <1>3, <2>1, ReportedFrame, Zenon DEF WInv
<1>12. Collected'
  <2>1. pt.op <= op_index' /\ pt.op # n
    <3>1. PICK o \in Ops \cup {0} : o = pt.op /\ o <= op_index
      BY ZenonT(60) DEF WInv, Collected, TInv, PtType
    <3>2. o \in Nat
      BY <3>1, OpFacts
    <3> QED BY <1>1, <3>1, <3>2
  <2>2. ASSUME pt.pc \in {"tablet", "erase"}, pt.op \in Range(task_vec')
        PROVE  Finished(pt.op)' \/ (FrontDone(pt.op)' /\ FrontKind(pt.op)' = "normal")
    <3>1. PICK o \in Range(task_vec) : o = pt.op /\ o # n
      BY <1>2, <2>1, <2>2, Zenon
    <3>2. /\ mem'[o].status = mem[o].status /\ mem'[o].index = mem[o].index
          /\ mem'[o].front = mem[o].front \/ Touched(o)
      BY <1>2, <3>1, OpFacts, Zenon
    <3>3. NoTaskLeft(o)' = NoTaskLeft(o) /\ FrontKind(o)' = FrontKind(o)
      BY <3>1, <3>2, OpFacts, ZenonT(60) DEF NoTaskLeft, FrontKind, FrontTask
    <3>4. Finished(o) \/ (FrontDone(o) /\ FrontKind(o) = "normal")
      BY <2>2, <3>1, Zenon DEF WInv, Collected
    <3>5. CASE NoTaskLeft(o) \/ mem[o].status = "canceled"
      BY <3>1, <3>2, <3>3, <3>5, Zenon DEF Finished
    <3>6. CASE ~NoTaskLeft(o) /\ mem[o].front \in {"failed", "done"}
      BY <3>1, <3>2, <3>3, <3>4, <3>6, Zenon DEF Finished, Failed, FrontDone, Touched
    <3> QED BY <3>4, <3>5, <3>6, Zenon DEF Finished, Failed, FrontDone
  <2> QED BY <2>1, <2>2, Zenon DEF Collected
<1>13. Decided'
  <2>1. \A x \in canceled : x \in Range(task_vec') => mem'[x].status = "canceled"
    BY <1>2, <1>4, OpFacts, Zenon DEF WInv, Decided
  <2>2. ASSUME NEW x \in deleted
        PROVE  x \notin Range(task_vec') /\ ~InDoneList(x)' /\ zk'[x].status = "none"
    <3>1. /\ x \in Ops /\ x \notin Range(task_vec) /\ ~InDoneList(x) /\ zk[x].status = "none"
          /\ x # n
      BY <1>4, <2>2, ZenonT(60) DEF WInv, Decided, TInv, HistType
    <3>2. DOMAIN done_op_list' = 1 .. Len(done_op_list') /\ DOMAIN done_op_list = 1 .. Len(done_op_list)
      <4>1. done_op_list \in Seq(Done) /\ done_op_list' \in Seq(Done)
        BY Zenon DEF TInv, DoneType, Done
      <4> QED BY <4>1, SetOf, Zenon
    <3>3. \A j \in 1 .. Len(done_op_list) : done_op_list[j].op # x
      BY <3>1, <3>2, Zenon DEF InDoneList
    <3>4. \A j \in 1 .. Len(done_op_list') : done_op_list'[j].op # x
      BY <1>2, <3>3, ZenonT(60) DEF SubList
    <3> QED BY <1>2, <1>6, <3>1, <3>2, <3>4, ZenonT(60) DEF InDoneList
  <2> QED BY <2>1, <2>2, Zenon DEF Decided
<1>14. Down'
  BY Zenon DEF Down
<1> QED BY <1>8, <1>9, <1>10, <1>11, <1>12, <1>13, <1>14, Zenon

LEMMA WAdd ==
    ASSUME TInv, WInv, AddOPData
    PROVE  TInv' /\ WInv'
<1>1. /\ TInv' /\ Created(op_index + 1, 0) /\ ns = "running"
      /\ UNCHANGED <<load, ns, pt, pool, poll, parent, net, tablet, tablet_up, ran,
                     succeeded, begun, canceled, deleted>>
      /\ \A x \in Ops : x # op_index + 1 => mem'[x] = mem[x]
  BY StepAdd, Zenon
<1>2. PICK n : n = op_index + 1 /\ Created(n, 0)
  BY <1>1, Zenon
<1>3. /\ op_index \in Nat /\ op_index' = n /\ n \notin Range(task_vec)
      /\ (\A x : TasksOf(x)' = TasksOf(x)) /\ Seen' = Seen
  <2>1. op_index \in Nat /\ op_index' = n /\ n \in Ops
    BY <1>2, OpFacts, Zenon DEF Created
  <2>2. n > op_index
    BY <1>2, <2>1
  <2>3. n \notin Range(task_vec)
    BY <2>1, <2>2, Zenon DEF TInv, Unborn
  <2>4. \A x : TasksOf(x)' = TasksOf(x)
    BY <1>1, Zenon DEF TasksOf, Plan, ChildPlan
  <2>5. Seen' = Seen
    BY <1>1, Zenon DEF Seen
  <2> QED BY <2>1, <2>3, <2>4, <2>5, Zenon
<1>4. \A x \in Range(task_vec) : mem'[x].front = mem[x].front
  BY <1>1, <1>2, <1>3, OpFacts, Zenon
<1>5. /\ \A o \in Range(task_vec') : Listed(o)'
      /\ \A o \in Ops : Noded(o)'
      /\ InOrder' /\ Reported' /\ Collected' /\ Decided' /\ Down'
  BY <1>1, <1>2, <1>3, <1>4, WCreated, Zenon
<1>6. Answers'
  BY <1>1, Zenon DEF WInv, Answers
<1>7. Once'
  BY <1>1, <1>3, OnceFrame, Zenon DEF WInv
<1>8. Pooled'
  <2>1. ASSUME NEW q \in pool, IsFront(q)'
        PROVE  IsFront(q) /\ mem'[q.op].front = mem[q.op].front
    <3>1. q.op \in Ops /\ q.op # n
      <4>1. PICK o \in Ops : o = q.op /\ o <= op_index
        BY PoolSeen, Zenon
      <4> QED BY <1>2, <1>3, <4>1, OpFacts
    <3>2. q.op \in Range(task_vec)
      BY <1>2, <2>1, <3>1, Zenon DEF IsFront, Created
    <3> QED BY <1>1, <1>2, <2>1, <3>1, <3>2, Zenon DEF IsFront, FrontTask
  <2>2. op_index <= op_index'
    BY <1>2, <1>3
  <2> QED BY <1>1, <1>3, <2>1, <2>2, PooledSame, Zenon
<1> QED BY <1>1, <1>5, <1>6, <1>7, <1>8, Zenon DEF WInv

LEMMA WRecoverTable ==
    ASSUME TInv, WInv, NEW r \in pool, RecoverEndpointTable(r)
    PROVE  TInv' /\ WInv'
<1>1. /\ TInv' /\ Created(op_index + 1, r.op)
      /\ UNCHANGED <<load, ns, pt, poll, net, tablet, tablet_up, begun, canceled, deleted>>
      /\ parent' = [parent EXCEPT ![op_index + 1] = r.op] /\ pool' = pool \ {r}
      /\ ran' = [ran EXCEPT ![<<r.op, r.task>>] = @ + 1]
      /\ succeeded' = succeeded \cup {<<r.op, r.task>>}
      /\ r.pc = "queued" /\ Kind(r) = "recover"
      /\ \A x \in Ops : x # op_index + 1 =>
            mem'[x] = mem[x] \/ (x = r.op /\ IsFront(r) /\ mem'[x].front = "done")
  BY StepRecoverTable, Zenon
<1>2. PICK n : n = op_index + 1 /\ Created(n, r.op)
  BY <1>1, Zenon
<1>3. /\ op_index \in Nat /\ op_index' = n /\ n \in Ops /\ n \notin Range(task_vec)
      /\ op_index <= op_index'
      /\ \A x \in Ops : x # n => TasksOf(x)' = TasksOf(x)
      /\ \A x \in Ops : x # n => mem'[x].index = mem[x].index
  <2>1. op_index \in Nat /\ op_index' = n /\ n \in Ops
    BY <1>2, OpFacts, Zenon DEF Created
  <2>2. n > op_index /\ op_index <= op_index'
    BY <1>2, <2>1
  <2>3. n \notin Range(task_vec)
    BY <2>1, <2>2, Zenon DEF TInv, Unborn
  <2>4. \A x \in Ops : x # n => TasksOf(x)' = TasksOf(x)
    BY <1>1, <1>2, Zenon DEF TasksOf, Plan, ChildPlan, TInv, IdType
  <2>5. \A x \in Ops : x # n => mem'[x].index = mem[x].index
    BY <1>2, Zenon DEF Created
  <2> QED BY <2>1, <2>2, <2>3, <2>4, <2>5, Zenon
<1>4. /\ <<r.op, r.task>> \in Seen /\ <<r.op, r.task>> \in Ops \X Tasks
      /\ r.op \in Ops /\ r.op <= op_index /\ r.op # n /\ r.task \in DOMAIN TasksOf(r.op)
      /\ IsFront(r) => /\ r.op \in Range(task_vec) /\ mem[r.op].status # "inited"
                       /\ r.task = mem[r.op].index + 1 /\ mem[r.op].front \in {"doing", "canceled"}
  <2>1. PICK o \in Ops : o = r.op /\ o <= op_index
    BY PoolSeen, Zenon
  <2>2. r.op # n
    BY <1>2, <2>1, IdFacts, Zenon
  <2>3. IsFront(r) => mem[r.op].front \in {"doing", "canceled"}
    BY <1>1, Zenon DEF WInv, Pooled
  <2> QED BY <2>2, <2>3, PoolSeen, Zenon
<1>5. Seen' \subseteq Seen
  <2>1. \A q \in pool' : \E y \in pool : q.op = y.op /\ q.task = y.task
    BY <1>1, Zenon
  <2>2. \A m \in Ops \X Tasks : (ran'[m] > 0 \/ m \in net') => m \in Seen
    BY <1>1, <1>4, Zenon DEF Seen, TInv, HistType
  <2> QED BY <1>1, <2>1, <2>2, SeenFrame, Zenon
<1>6. \A x \in Range(task_vec) :
         mem'[x].front = mem[x].front \/ (Touched(x) /\ x = r.op /\ IsFront(r))
  <2> SUFFICES ASSUME NEW x \in Range(task_vec), mem'[x].front # mem[x].front
               PROVE  Touched(x) /\ x = r.op /\ IsFront(r)
    BY Zenon
  <2>1. x = r.op /\ IsFront(r) /\ mem'[x].front = "done" /\ x \in Ops /\ x # n
    BY <1>1, <1>2, <1>3, OpFacts, Zenon
  <2>2. Good(x, mem[x].index + 1)'
    <3>1. mem'[x].index = mem[x].index /\ r.task = mem[x].index + 1
      BY <1>3, <1>4, <2>1, Zenon
    <3> QED BY <1>1, <2>1, <3>1, Zenon DEF Good
  <2> QED BY <1>4, <2>1, <2>2, Zenon DEF Touched
<1>7. ns # "down"
  BY Zenon DEF WInv, Down
<1>8. /\ \A o \in Range(task_vec') : Listed(o)'
      /\ \A o \in Ops : Noded(o)'
      /\ InOrder' /\ Reported' /\ Collected' /\ Decided' /\ Down'
  BY <1>1, <1>2, <1>3, <1>5, <1>6, <1>7, WCreated, ZenonT(60)
<1>9. Answers'
  BY <1>1, Zenon DEF WInv, Answers
<1>10. Once'
  <2>1. ASSUME NEW o \in Ops, NEW t \in DOMAIN TasksOf(o), TasksOf(o)[t] = "tablet"
        PROVE  ran'[<<o, t>>] = ran[<<o, t>>]
    <3>1. <<o, t>> # <<r.op, r.task>>
      BY <1>1, <2>1, Zenon DEF Kind
    <3>2. <<o, t>> \in Ops \X Tasks
      BY OpFacts, Zenon
    <3> QED BY <1>1, <3>1, <3>2, Zenon DEF TInv, HistType
  <2>2. \A x \in Ops : x <= op_index => TasksOf(x)' = TasksOf(x)
    BY <1>2, <1>3
  <2> QED BY <1>1, <1>5, <2>1, <2>2, OnceFrame, Zenon DEF WInv
<1>11. Pooled'
  <2> SUFFICES ASSUME NEW q \in pool, q # r
               PROVE  /\ q.task \in DOMAIN TasksOf(q.op)' /\ q.op <= op_index'
                      /\ q.pc \notin {"queued", "failed"} => Kind(q)' = "tablet"
                      /\ q.pc = "queued" /\ IsFront(q)' /\ Kind(q)' # "tablet" =>
                            mem'[q.op].front \in {"doing", "canceled"}
                      /\ q.pc = "failed" =>
                            /\ Kind(q)' = "normal"
                            /\ [op |-> q.op, task |-> q.task, pc |-> "queued"] \notin pool'
                            /\ IsFront(q)' => mem'[q.op].front # "inited"
    BY <1>1, Zenon DEF Pooled
  <2>1. /\ q.task \in DOMAIN TasksOf(q.op) /\ q.op <= op_index
        /\ q.pc \notin {"queued", "failed"} => Kind(q) = "tablet"
        /\ q.pc = "queued" /\ IsFront(q) /\ Kind(q) # "tablet" =>
              mem[q.op].front \in {"doing", "canceled"}
        /\ q.pc = "failed" =>
              /\ Kind(q) = "normal"
              /\ [op |-> q.op, task |-> q.task, pc |-> "queued"] \notin pool
              /\ IsFront(q) => mem[q.op].front # "inited"
    BY Zenon DEF WInv, Pooled
  <2>2. q.op \in Ops /\ q.op # n /\ q.op <= op_index'
    BY <1>2, <1>3, <2>1, PoolFacts, OpFacts
  <2>3. TasksOf(q.op)' = TasksOf(q.op) /\ Kind(q)' = Kind(q)
    BY <1>3, <2>2, Zenon DEF Kind
  <2>4. IsFront(q)' => IsFront(q)
    <3>1. q.op \in Range(task_vec') => q.op \in Range(task_vec)
      BY <1>2, <2>2, Zenon DEF Created
    <3> QED BY <1>3, <2>2, <3>1, Zenon DEF IsFront, FrontTask
  <2>5. IsFront(q) =>
           \/ mem'[q.op].front = mem[q.op].front
           \/ mem'[q.op].front # "inited" /\ (q.pc # "queued")
    <3> SUFFICES ASSUME IsFront(q), mem'[q.op].front # mem[q.op].front
                 PROVE  mem'[q.op].front # "inited" /\ q.pc # "queued"
      BY Zenon
    <3>1. q.op \in Range(task_vec) /\ q.task = mem[q.op].index + 1
      BY PoolSeen, Zenon
    <3>2. Touched(q.op) /\ q.op = r.op /\ IsFront(r)
      BY <1>6, <3>1, Zenon
    <3>3. q.task = r.task
      BY <1>4, <3>1, <3>2, Zenon
    <3>4. q = [op |-> q.op, task |-> q.task, pc |-> q.pc] /\ r = [op |-> r.op, task |-> r.task, pc |-> r.pc]
      BY PoolFacts, Zenon
    <3> QED BY <1>1, <3>2, <3>3, <3>4, Zenon DEF Touched
  <2> QED BY <1>1, <2>1, <2>2, <2>3, <2>4, <2>5, Zenon
<1> QED BY <1>1, <1>8, <1>9, <1>10, <1>11, Zenon DEF WInv
\* Steps that change nothing about the tasks: losing the leader, and Recover().
LEMMA WCrash ==
    ASSUME TInv, WInv, NsCrash
    PROVE  TInv' /\ WInv'
<1>1. /\ TInv' /\ ns' = "down" /\ task_vec' = <<>> /\ done_op_list' = <<>> /\ pool' = {}
      /\ canceled' = {} /\ pt' = [pc |-> "run", op |-> 0] /\ poll'.resp = NoMap
      /\ UNCHANGED <<load, zk, op_index, parent, net, tablet, tablet_up, ran, succeeded,
                     begun, deleted>>
  BY StepCrash, Zenon
<1>2. Seen' \subseteq Seen
  BY <1>1, Zenon DEF Seen
<1>3. Calm
  <2>1. op_index <= op_index'
    BY <1>1, OpFacts
  <2> QED BY <1>1, <1>2, <2>1, Zenon DEF Calm, TasksOf, Plan, ChildPlan
<1>4. Range(task_vec') = {} /\ DOMAIN done_op_list' = {}
  BY <1>1 DEF Range
<1>5. \A o \in Ops : Noded(o)'
  BY <1>1, <1>3, NodedFrame, Zenon DEF WInv
<1>6. InOrder'
  BY <1>1, <1>3, InOrderFrame, Zenon DEF WInv
<1>7. Once'
  BY <1>1, <1>2, <1>3, OnceFrame, Zenon DEF WInv, Calm
<1>8. Pooled'
  BY <1>1, Zenon DEF Pooled
<1>9. Answers'
  BY <1>1, Zenon DEF WInv, Answers, NoMap
<1>10. Reported'
  BY <1>4, Zenon DEF Reported
<1>11. Collected'
  <2>1. pt'.op = 0 /\ pt'.pc = "run"
    BY <1>1, Zenon
  <2>2. 0 <= op_index'
    BY <1>1, OpFacts
  <2> QED BY <2>1, <2>2, Zenon DEF Collected
<1>12. Decided'
  BY <1>1, <1>4, Zenon DEF WInv, Decided, InDoneList
<1>13. Down'
  <2>1. pt'.op = 0
    BY <1>1, Zenon
  <2> QED BY <1>1, <2>1, Zenon DEF Down
<1> QED BY <1>1, <1>4, <1>5, <1>6, <1>7, <1>8, <1>9, <1>10, <1>11, <1>12, <1>13, Zenon DEF WInv

LEMMA WRecover ==
    ASSUME TInv, WInv, NEW dropped, RecoverOPTask(dropped)
    PROVE  TInv' /\ WInv'
<1>1. /\ TInv' /\ ns = "down" /\ ns' = "recovering"
      /\ UNCHANGED <<load, pt, pool, poll, zk, op_index, parent, net, tablet, tablet_up, ran,
                     succeeded, begun, canceled, deleted>>
  BY StepRecover, Zenon
<1>2. PICK live, failed : Recovered(live, failed)
  BY StepRecover, Zenon
<1>3. pool = {} /\ canceled = {} /\ pt.op = 0 /\ pool' = {} /\ canceled' = {} /\ pt'.op = 0
  BY <1>1, Zenon DEF WInv, Down
<1>4. Seen' = Seen /\ \A x : TasksOf(x)' = TasksOf(x)
  BY <1>1, Zenon DEF Seen, TasksOf, Plan, ChildPlan
<1>5. Calm
  <2>1. op_index <= op_index'
    BY <1>1, OpFacts
  <2> QED BY <1>1, <1>4, <2>1, Zenon DEF Calm
<1>6. ASSUME NEW o \in Range(task_vec') PROVE Listed(o)'
  <2>1. /\ o \in live /\ o \in Recoverable /\ zk[o].status \in {"inited", "doing"}
        /\ mem'[o].status = zk[o].status /\ mem'[o].index = zk[o].index /\ mem'[o].front = Resumed(o)
    BY <1>2, <1>6, Zenon DEF Recovered
  <2>2. o \in Ops /\ o <= op_index'
    <3>1. o \in Ops /\ zk[o] # NoNode
      BY <2>1 DEF Recoverable, NoNode
    <3>2. ~(o > op_index)
      BY <3>1, Zenon DEF TInv, Unborn
    <3> QED BY <1>1, <3>1, <3>2, OpFacts
  <2>3. PICK i \in 0 .. Len(TasksOf(o)) : i = zk[o].index
    BY <2>1, MemFacts, Zenon DEF Recoverable
  <2>4. /\ zk[o].status = "inited" => i = 0 /\ FreshFrom(o, 1)
        /\ UpTo(o, i) /\ FreshFrom(o, i + 2)
    BY <2>1, <2>2, <2>3, Zenon DEF WInv, Noded
  <2>5. /\ FreshFrom(o, 1) => FreshFrom(o, 1)'
        /\ FreshFrom(o, i + 2) => FreshFrom(o, i + 2)'
        /\ UpTo(o, i) => UpTo(o, i)'
    BY <1>1, <1>4, Zenon DEF FreshFrom, UpTo, Good
  <2>6. /\ Resumed(o) \in {"inited", "doing"}
        /\ zk[o].status = "inited" => Resumed(o) = "inited"
        /\ Resumed(o) = "inited" =>
              zk[o].status = "inited" \/ TasksOf(o)[i + 1] \in {"again", "recover"}
    BY <2>3, Zenon DEF Resumed
  <2>7. ~FrontDone(o)'
    BY <2>1, <2>6, Zenon DEF FrontDone
  <2>8. mem'[o].front = "inited" /\ FrontKind(o)' = "tablet" => FreshFrom(o, i + 1)'
    <3> SUFFICES ASSUME mem'[o].front = "inited", FrontKind(o)' = "tablet"
                 PROVE  FreshFrom(o, i + 1)'
      BY Zenon
    <3>1. TasksOf(o)[i + 1] = "tablet"
      BY <1>4, <2>1, <2>3, Zenon DEF FrontKind, FrontTask
    <3>2. i = 0 /\ FreshFrom(o, 1)'
      BY <2>1, <2>4, <2>5, <2>6, <3>1, Zenon
    <3> QED BY <3>2 DEF FreshFrom
  <2> QED BY <1>1, <2>1, <2>2, <2>3, <2>4, <2>5, <2>6, <2>7, <2>8, Zenon DEF Listed
<1>7. \A o \in Ops : Noded(o)'
  BY <1>1, <1>5, NodedFrame, Zenon DEF WInv
<1>8. InOrder'
  BY <1>1, <1>5, InOrderFrame, Zenon DEF WInv
<1>9. Once'
  BY <1>1, <1>4, OnceFrame, Zenon DEF WInv
<1>10. Pooled'
  BY <1>3, Zenon DEF Pooled
<1>11. Answers'
  BY <1>1, Zenon DEF WInv, Answers
<1>12. DOMAIN done_op_list' = 1 .. Len(done_op_list')
  BY <1>1, SetOf, ZenonT(60) DEF TInv, DoneType
<1>13. Reported'
  <2>1. \A i \in DOMAIN done_op_list' :
           done_op_list'[i].op \in failed /\ done_op_list'[i].status = "failed"
    BY <1>2, <1>12, Zenon DEF Recovered
  <2>2. Range(task_vec') = live /\ live \cap failed = {} /\ NoDouble(done_op_list')
    BY <1>2, Zenon DEF Recovered
  <2> QED BY <1>12, <2>1, <2>2, Zenon DEF Reported, NoDouble
<1>14. Collected'
  <2>1. live \subseteq Ops /\ Range(task_vec') = live
    BY <1>2, Zenon DEF Recovered, Recoverable
  <2>2. 0 \notin Range(task_vec') /\ 0 <= op_index'
    BY <1>1, <2>1, OpFacts
  <2> QED BY <1>3, <2>2, Zenon DEF Collected
<1>15. Decided'
  <2>1. ASSUME NEW o \in deleted
        PROVE  o \notin Range(task_vec') /\ ~InDoneList(o)' /\ zk'[o].status = "none"
    <3>1. zk[o].status = "none" /\ o \notin Recoverable
      BY <2>1, Zenon DEF WInv, Decided, Recoverable
    <3>2. o \notin live /\ o \notin failed
      BY <1>2, <3>1, Zenon DEF Recovered
    <3> QED BY <1>1, <1>2, <1>12, <3>1, <3>2, Zenon DEF Recovered, InDoneList
  <2> QED BY <1>1, <1>3, <2>1, Zenon DEF Decided
<1>16. Down'
  BY <1>1, Zenon DEF Down
<1> QED BY <1>1, <1>6, <1>7, <1>8, <1>9, <1>10, <1>11, <1>13, <1>14, <1>15, <1>16, Zenon DEF WInv

LEMMA WInit ==
    ASSUME Init
    PROVE  TInv /\ WInv
<1>1. TInv
  BY TypesInit, Zenon
<1>2. Range(task_vec) = {} /\ DOMAIN done_op_list = {} /\ op_index = 0 /\ pool = {} /\ net = {}
  BY DEF Init, Range
<1>3. Seen = {}
  BY <1>2 DEF Init, Seen
<1>4. \A o \in Ops : Noded(o)
  <2>1. \A o \in Ops : zk[o] = NoNode /\ zk[o].status = "none"
    BY Zenon DEF Init, NoNode
  <2> QED BY <2>1, Zenon DEF Noded
<1>5. Once
  <2>1. \A o \in Ops : \A t \in DOMAIN TasksOf(o) : ran[<<o, t>>] = 0
    <3>1. \A o \in Ops : DOMAIN TasksOf(o) \subseteq Tasks
      BY <1>1, OpFacts, Zenon
    <3> QED BY <3>1, Zenon DEF Init
  <2> QED BY <1>2, <2>1 DEF Once
<1>6. InOrder /\ Pooled
  BY <1>2, <1>3, Zenon DEF InOrder, Pooled
<1>7. Answers
  BY Zenon DEF Init, Answers, Idle, NoMap
<1>8. Reported /\ Decided
  BY <1>2, Zenon DEF Init, Reported, Decided, InDoneList
<1>9. Collected
  BY <1>2 DEF Init, Collected
<1>10. Down
  BY Zenon DEF Init, Down
<1> QED BY <1>1, <1>2, <1>4, <1>5, <1>6, <1>7, <1>8, <1>9, <1>10, Zenon DEF WInv

-----------------------------------------------------------------------------
(* The theorems.                                                           *)

LEMMA WStutter ==
    ASSUME TInv, WInv, UNCHANGED vars
    PROVE  TInv' /\ WInv'
<1>1. UNCHANGED <<load, ns, task_vec, mem, done_op_list, pt, pool, poll, zk, op_index, parent, net,
                  tablet, tablet_up, ran, succeeded, begun, canceled, deleted, faults>>
  BY Zenon DEF vars, nsVars, zkVars, tabletVars, histVars
<1>2. \A o : TasksOf(o)' = TasksOf(o)
  BY <1>1, Zenon DEF TasksOf, Plan, ChildPlan
<1>3. TInv'
  BY <1>1, <1>2, Frames, ZenonT(60) DEF TInv, VecType, MemOK, NodeOK, DoneType, PtType, PoolType, PollType,
     IdType, TabletType, HistType, StateType, Unborn, InDoneList
<1>4. Steady
  BY <1>1, Zenon DEF Steady
<1> QED BY <1>1, <1>3, <1>4, QuietStep, ZenonT(60) DEF WInv, Answers, Collected, Down

LEMMA InvariantStep ==
    ASSUME IInv, [Next]_vars
    PROVE  IInv'
<1>1. TInv /\ WInv
  BY Zenon DEF IInv
<1> SUFFICES TInv' /\ WInv'
  BY Zenon DEF IInv
<1>2. CASE AddOPData
  BY <1>1, <1>2, WAdd, Zenon
<1>3. CASE ProcessTask
  BY <1>1, <1>3, WStart, WPt, WZk, WForget, WDeleteTask, Zenon DEF ProcessTask
<1>4. ASSUME NEW o \in Ops, CancelOP(o) \/ DeleteOP(o) PROVE TInv' /\ WInv'
  BY <1>1, <1>4, WCancel, WDeleteOP, Zenon
<1>5. ASSUME NEW r \in pool, PoolStep(r) PROVE TInv' /\ WInv'
  BY <1>1, <1>5, StepSend, WSend, WCall, WWrap, WNs, WNormal, WRecoverTable, Zenon DEF PoolStep
<1>6. ASSUME NEW m \in net, Request(m) PROVE TInv' /\ WInv'
  BY <1>1, <1>6, WAddOPTask, WTablet, Zenon DEF Request
<1>7. CASE (\E m \in Ops \X Tasks : TaskEnds(m)) \/ TabletCrash \/ TabletStart
  BY <1>1, <1>7, WTablet, Zenon
<1>8. CASE FailOfflineTask \/ GetTaskStatus \/ UpdateTask \/ NoAnswer
  BY <1>1, <1>8, WOffline, WGet, WUpdateTask, WNoAnswer, Zenon
<1>9. CASE NsCrash
  BY <1>1, <1>9, WCrash, Zenon
<1>10. ASSUME NEW dropped \in SUBSET Ops, RecoverOPTask(dropped) PROVE TInv' /\ WInv'
  BY <1>1, <1>10, WRecover, Zenon
<1>11. CASE UNCHANGED vars
  BY <1>1, <1>11, WStutter, Zenon
<1> QED BY <1>2, <1>3, <1>4, <1>5, <1>6, <1>7, <1>8, <1>9, <1>10, <1>11, Zenon DEF Next

\* The inductive invariant of the operation engine: the types, what was Seen of
\* each operation relative to its state in memory and in its ZooKeeper node, and
\* what the pool, the tablet, done_op_list_ and the ProcessTask thread may hold.
THEOREM OpEngineInvariant == Spec => []IInv
<1>1. Init => IInv
  BY WInit, Zenon DEF IInv
<1>2. IInv /\ [Next]_vars => IInv'
  BY InvariantStep, Zenon
<1> QED BY <1>1, <1>2, PTL DEF Spec

\* The engine's state always has its type.  Among other things, an operation is
\* in task_vec_ once, and the tasks that were taken off its list are counted by an
\* index within its plan.
THEOREM OpTypesHold == Spec => []TypeOK
<1>1. IInv => TypeOK
  <2> SUFFICES ASSUME IInv PROVE TypeOK
    BY Zenon
  <2>1. TInv
    BY Zenon DEF IInv
  <2>2. poll.pc \in {"idle", "answered"} /\ poll.stale \in BOOLEAN
    BY <2>1, Zenon DEF TInv, PollType
  <2> QED BY <2>1, <2>2, ZenonT(60) DEF TInv, TypeOK, VecType, MemOK, MemType, NodeOK, NodeType, DoneType,
         PtType, PoolType, PoolPc, IdType, TabletType, TaskStates, HistType, StateType
<1> QED BY <1>1, OpEngineInvariant, PTL

\* The work of a tablet's task is started at most once, however often the name
\* server or the tablet crashes and whichever calls are lost: AddOPTask's request is
\* sent by the one function in the pool, and SkipDoneTask never lets the next
\* leader send it again.
THEOREM TabletTaskOnceHolds == Spec => []TabletTaskOnce
<1>1. IInv => TabletTaskOnce
  BY Zenon DEF IInv, WInv, Once, TabletTaskOnce
<1> QED BY <1>1, OpEngineInvariant, PTL

\* A task's work is started only when all tasks before it in the operation's plan
\* have succeeded, also by a name server that took the operation over from
\* ZooKeeper (RecoverOPTask, SkipDoneTask).
THEOREM TasksInOrderHolds == Spec => []TasksInOrder
<1>1. IInv => TasksInOrder
  <2> SUFFICES ASSUME IInv, NEW o \in Ops, NEW t \in DOMAIN TasksOf(o), ran[<<o, t>>] > 0,
                      NEW u \in 1 .. t - 1
               PROVE  <<o, u>> \in succeeded
    BY Zenon DEF TasksInOrder
  <2>1. TInv /\ InOrder
    BY Zenon DEF IInv, WInv
  <2>2. /\ t \in Tasks /\ NormalIsLast(TasksOf(o)) /\ Len(TasksOf(o)) \in Nat
        /\ DOMAIN TasksOf(o) = 1 .. Len(TasksOf(o))
    BY <2>1, OpFacts, Zenon
  <2>3. <<o, t>> \in Seen
    BY <2>2, Zenon DEF Seen
  <2>4. Good(o, u)
    BY <2>1, <2>2, <2>3, Zenon DEF InOrder, UpTo
  <2>5. u \in DOMAIN TasksOf(o) /\ u # Len(TasksOf(o))
    <3>1. PICK n \in Nat : n = Len(TasksOf(o))
      BY <2>2, Zenon
    <3>2. t \in 1 .. n
      BY <2>2, <3>1, Zenon
    <3>3. u \in 1 .. n /\ u # n
      BY <3>2
    <3> QED BY <2>2, <3>1, <3>3, Zenon
  <2> QED BY <2>2, <2>4, <2>5, Zenon DEF Good, NormalIsLast
<1> QED BY <1>1, OpEngineInvariant, PTL

\* An operation that the name server reports kDone (DeleteTask moves it to
\* done_op_list_) had the work of all its tasks succeed; kCreateProcedure
\* excepted, whose failure WrapNormalTaskFun overwrites.
THEOREM DoneMeansSucceededHolds == Spec => []DoneMeansSucceeded
<1>1. IInv => DoneMeansSucceeded
  <2> SUFFICES ASSUME IInv, NEW o \in Ops, DoneAs(o, "done"), NEW t \in DOMAIN TasksOf(o)
               PROVE  TasksOf(o)[t] = "normal" \/ <<o, t>> \in succeeded
    BY Zenon DEF DoneMeansSucceeded
  <2>1. TInv /\ Reported
    BY Zenon DEF IInv, WInv
  <2>2. PICK i \in DOMAIN done_op_list : done_op_list[i].op = o /\ done_op_list[i].status = "done"
    BY DEF DoneAs
  <2>3. UpTo(o, Len(TasksOf(o)))
    BY <2>1, <2>2, Zenon DEF Reported
  <2>4. t \in 1 .. Len(TasksOf(o))
    BY <2>1, OpFacts, Zenon
  <2> QED BY <2>3, <2>4, Zenon DEF UpTo, Good
<1> QED BY <1>1, OpEngineInvariant, PTL

\* What the operator asked for stands: an operation that CancelOP answered ok for
\* stays canceled and is not reported kDone while this name server leads, and one
\* that DeleteOP answered ok for never comes back, also not with the next leader.
THEOREM DecisionsStandHolds == Spec => []DecisionsStand
<1>1. IInv => DecisionsStand
  <2> SUFFICES ASSUME IInv PROVE DecisionsStand
    BY Zenon
  <2>1. Decided /\ Reported
    BY Zenon DEF IInv, WInv
  <2>2. ASSUME NEW o \in canceled PROVE ~DoneAs(o, "done")
    <3> SUFFICES ASSUME NEW i \in DOMAIN done_op_list,
                        done_op_list[i].op = o, done_op_list[i].status = "done"
                 PROVE  FALSE
      BY DEF DoneAs
    <3> QED BY <2>1, <2>2, Zenon DEF Reported
  <2> QED BY <2>1, <2>2, Zenon DEF DecisionsStand, Decided
<1> QED BY <1>1, OpEngineInvariant, PTL

-----------------------------------------------------------------------------
(* Without a fault.  What keeps a poll from taking a running task for a    *)
(* missing one: from the moment is_rpc_send is set the tablet knows the    *)
(* task, and a poll that did not find it has been made stale.              *)

\* The tablet knows the task m.
Known(m) == tablet[m] # "none"

\* A poll whose answer will be used has found the task m.
Found(m) == poll.pc = "answered" /\ ~poll.stale => poll.resp[m] # "none"

QuietNet ==
    /\ ns = "running" /\ tablet_up
    /\ \A m \in net : m[2] \in DOMAIN TasksOf(m[1]) /\ TasksOf(m[1])[m[2]] = "tablet"

QuietTablet ==
    \A m \in Ops \X Tasks :
        /\ tablet[m] \in {"none", "doing", "done"} /\ poll.resp[m] \in {"none", "doing", "done"}
        /\ Known(m) => ran[m] > 0

QuietOp(o) ==
    /\ mem[o].status # "canceled" /\ mem[o].front \in {"inited", "doing", "done"}
    /\ mem[o].sent /\ ~NoTaskLeft(o) => Known(<<o, FrontTask(o)>>) /\ Found(<<o, FrontTask(o)>>)

QuietCall(r) ==
    /\ r.pc \notin {"refused", "failed"}
    /\ r.pc = "call" => <<r.op, r.task>> \in net
    /\ r.pc \in {"accepted", "answered", "first"} /\ IsFront(r) => Known(<<r.op, r.task>>)
    /\ r.pc = "first" /\ IsFront(r) => Found(<<r.op, r.task>>)

\* Only an operation whose tasks are all done is taken off the list.
QuietEnd == pt.pc \in {"tablet", "erase"} /\ pt.op \in Range(task_vec) => NoTaskLeft(pt.op)

Quiet == /\ QuietNet /\ QuietTablet /\ QuietEnd
         /\ \A o \in Range(task_vec) : QuietOp(o)
         /\ \A r \in pool : QuietCall(r)

QInv == faults = 0 => Quiet

\* What the tablet and the poll know of m is not lost.
Remembered(m) == /\ Known(m) => Known(m)'
                 /\ Known(m) /\ Found(m) => Found(m)'

\* Every operation of the list but n stays at its task, which does not fail.
Placid(n) ==
    /\ \A x \in Ops : x <= op_index => TasksOf(x)' = TasksOf(x)
    /\ \A o \in Range(task_vec') : o # n =>
          /\ o \in Range(task_vec) /\ mem'[o].index = mem[o].index
          /\ mem'[o].status # "canceled" /\ mem'[o].front \in {"inited", "doing", "done"}
          /\ mem'[o].sent => mem[o].sent

\* A request that leaves is that of a function of the pool.
NetOf == \A m \in net' : m \in net \/ \E r \in pool : m = <<r.op, r.task>> /\ Kind(r) = "tablet"

LEMMA NoFault ==
    ASSUME faults = 0, faults' = 0, NEW k
    PROVE  ~Fault(k)
BY DEF Fault

LEMMA ZeroNoOp == 0 \notin Ops
BY OpAssumption DEF Ops

\* A step that leaves the tablet's map and the poll alone.
LEMMA RememberedSame ==
    ASSUME UNCHANGED <<tablet, poll>>, NEW m
    PROVE  Remembered(m)
BY Zenon DEF Remembered, Known, Found

LEMMA QuietFrame ==
    ASSUME TInv, WInv, Quiet, NEW n, Placid(n)
    PROVE  /\ \A o \in Range(task_vec') :
                 o # n /\ (\A t \in Tasks : Remembered(<<o, t>>)) => QuietOp(o)'
           /\ \A r \in pool :
                 /\ r.op # n \/ (IsFront(r)' => IsFront(r))
                 /\ Remembered(<<r.op, r.task>>)
                 /\ r.pc = "call" /\ <<r.op, r.task>> \in net => <<r.op, r.task>> \in net'
                 => QuietCall(r)'
           /\ UNCHANGED pt /\ (pt.op \in Range(task_vec') => pt.op # n) => QuietEnd'
<1>1. ASSUME NEW o \in Range(task_vec'), o # n
      PROVE  /\ o \in Ops /\ o \in Range(task_vec) /\ TasksOf(o)' = TasksOf(o)
             /\ mem'[o].index = mem[o].index
             /\ NoTaskLeft(o)' = NoTaskLeft(o) /\ FrontTask(o)' = FrontTask(o)
  <2>1. o \in Range(task_vec) /\ mem'[o].index = mem[o].index
    BY <1>1, Zenon DEF Placid
  <2>2. o \in Ops /\ o <= op_index
    BY <2>1, OpFacts, Zenon
  <2>3. TasksOf(o)' = TasksOf(o)
    BY <2>2, Zenon DEF Placid
  <2> QED BY <2>1, <2>2, <2>3, Zenon DEF NoTaskLeft, FrontTask
<1>2. ASSUME NEW o \in Range(task_vec'), o # n, \A t \in Tasks : Remembered(<<o, t>>)
      PROVE  QuietOp(o)'
  <2>1. /\ o \in Ops /\ QuietOp(o)
        /\ NoTaskLeft(o)' = NoTaskLeft(o) /\ FrontTask(o)' = FrontTask(o)
    BY <1>1, <1>2, Zenon DEF Quiet
  <2>2. /\ mem'[o].status # "canceled" /\ mem'[o].front \in {"inited", "doing", "done"}
        /\ mem'[o].sent => mem[o].sent
    BY <1>2, Zenon DEF Placid
  <2>3. ASSUME mem'[o].sent, ~NoTaskLeft(o)
        PROVE  Known(<<o, FrontTask(o)>>)' /\ Found(<<o, FrontTask(o)>>)'
    <3>1. PICK t \in Tasks : t = FrontTask(o)
      BY <2>1, <2>3, FrontFacts, Zenon
    <3>2. Known(<<o, t>>) /\ Found(<<o, t>>)
      BY <2>1, <2>2, <2>3, <3>1, Zenon DEF QuietOp
    <3>3. Known(<<o, t>>)' /\ Found(<<o, t>>)'
      BY <1>2, <3>2, Zenon DEF Remembered
    <3>4. FrontTask(o)' = t
      BY <2>1, <3>1, Zenon
    <3> QED BY <3>3, <3>4, Zenon DEF Known, Found
  <2> QED BY <2>1, <2>2, <2>3, Zenon DEF QuietOp
<1>3. ASSUME NEW r \in pool, r.op # n \/ (IsFront(r)' => IsFront(r)),
             Remembered(<<r.op, r.task>>),
             r.pc = "call" /\ <<r.op, r.task>> \in net => <<r.op, r.task>> \in net'
      PROVE  QuietCall(r)'
  <2>1. IsFront(r)' => IsFront(r)
    <3>1. CASE r.op # n
      BY <1>1, <3>1, Zenon DEF IsFront
    <3> QED BY <1>3, <3>1, Zenon
  <2>2. QuietCall(r)
    BY Zenon DEF Quiet
  <2> QED BY <1>3, <2>1, <2>2, Zenon DEF QuietCall, Remembered
<1>4. ASSUME UNCHANGED pt, pt.op \in Range(task_vec') => pt.op # n
      PROVE  QuietEnd'
  <2> SUFFICES ASSUME pt.pc \in {"tablet", "erase"}, pt.op \in Range(task_vec')
               PROVE  NoTaskLeft(pt.op)'
    BY <1>4, Zenon DEF QuietEnd
  <2>1. PICK o : o = pt.op
    BY Zenon
  <2>2. o \in Range(task_vec) /\ NoTaskLeft(o)' = NoTaskLeft(o)
    BY <1>1, <1>4, <2>1, Zenon
  <2>3. NoTaskLeft(o)'
    BY <2>1, <2>2, Zenon DEF Quiet, QuietEnd
  <2> QED BY <1>4, <2>1, <2>3, Zenon DEF NoTaskLeft
<1> QED BY <1>2, <1>3, <1>4, Zenon

\* The requests on their way.
LEMMA QuietNetFrame ==
    ASSUME TInv, WInv, QuietNet, ns' = "running", tablet_up' = TRUE,
           \A x \in Ops : x <= op_index => TasksOf(x)' = TasksOf(x),
           NetOf
    PROVE  QuietNet'
<1> SUFFICES ASSUME NEW m \in net'
             PROVE  m[2] \in DOMAIN TasksOf(m[1])' /\ TasksOf(m[1])'[m[2]] = "tablet"
  BY Zenon DEF QuietNet
<1>1. PICK o \in Ops, t \in Tasks :
         /\ m = <<o, t>> /\ o <= op_index
         /\ t \in DOMAIN TasksOf(o) /\ TasksOf(o)[t] = "tablet"
  <2>1. CASE m \in net
    <3>0. m \in Ops \X (Tasks \cup {0})
      BY <2>1, Zenon DEF TInv, TabletType
    <3>1. PICK o \in Ops, t \in Tasks \cup {0} : m = <<o, t>>
      BY ONLY <3>0
    <3>2. m[1] = o /\ m[2] = t
      BY <3>1, Zenon
    <3>3. t \in DOMAIN TasksOf(o) /\ TasksOf(o)[t] = "tablet"
      BY <2>1, <3>2, Zenon DEF QuietNet
    <3>4. t \in Tasks
      BY <3>3, OpFacts, Zenon
    <3>5. <<o, t>> \in Seen
      BY <2>1, <3>1, <3>4, Zenon DEF Seen
    <3>6. o <= op_index
      BY <3>4, <3>5, Zenon DEF WInv, InOrder
    <3> QED BY <3>1, <3>3, <3>4, <3>6, Zenon
  <2>2. CASE \E r \in pool : m = <<r.op, r.task>> /\ Kind(r) = "tablet"
    <3>1. PICK r \in pool : m = <<r.op, r.task>> /\ Kind(r) = "tablet"
      BY <2>2, Zenon
    <3>2. r.op \in Ops /\ r.op <= op_index /\ r.task \in DOMAIN TasksOf(r.op) /\ r.task \in Tasks
      BY PoolSeen, PoolFacts, Zenon
    <3> QED BY <3>1, <3>2, Zenon DEF Kind
  <2> QED BY <2>1, <2>2, Zenon DEF NetOf
<1>2. m[1] = o /\ m[2] = t /\ TasksOf(o)' = TasksOf(o)
  BY <1>1, Zenon
<1> QED BY <1>1, <1>2, Zenon

\* What is in the pool after a step.
LEMMA CallFields ==
    ASSUME NEW a, NEW t, NEW c, NEW q, q = [op |-> a, task |-> t, pc |-> c]
    PROVE  q.op = a /\ q.task = t /\ q.pc = c
OBVIOUS

LEMMA MovedFact ==
    ASSUME TInv, NEW r \in pool, NEW c, NEW q \in Moved(r, c)
    PROVE  (q \in pool /\ q # r) \/ (q.op = r.op /\ q.task = r.task /\ q.pc = c)
<1>1. CASE q = [r EXCEPT !.pc = c]
  <2>1. q = [op |-> r.op, task |-> r.task, pc |-> c]
    BY <1>1, PoolFacts, Zenon
  <2> QED BY ONLY <2>1, CallFields
<1> QED BY <1>1, Zenon DEF Moved

\* A step that changes nothing the list's operations are about.
LEMMA PlacidSame ==
    ASSUME TInv, Quiet, UNCHANGED <<load, parent, task_vec>>,
           \A o \in Range(task_vec) :
              /\ mem'[o].index = mem[o].index /\ mem'[o].status # "canceled"
              /\ mem'[o].front \in {"inited", "doing", "done"}
              /\ mem'[o].sent => mem[o].sent
    PROVE  \A n : Placid(n)
BY Zenon DEF Placid, TasksOf, Plan, ChildPlan

LEMMA PlacidMem ==
    ASSUME TInv, Quiet, UNCHANGED <<load, parent, task_vec, mem>>
    PROVE  \A n : Placid(n)
<1>1. \A o \in Range(task_vec) : mem[o].status # "canceled" /\ mem[o].front \in {"inited", "doing", "done"}
  BY Zenon DEF Quiet, QuietOp
<1> QED BY <1>1, PlacidSame, Zenon

\* The operations, the requests and the end of an operation after a step that leaves
\* the list, the plans, the tablet's map, the poll and pt alone.
LEMMA QuietSame ==
    ASSUME TInv, WInv, Quiet, Placid(0), UNCHANGED <<ns, tablet, tablet_up, poll>>,
           NetOf, Range(task_vec') \subseteq Range(task_vec),
           \A m \in Ops \X Tasks : ran[m] > 0 => ran'[m] > 0
    PROVE  /\ QuietNet' /\ QuietTablet' /\ \A o \in Range(task_vec') : QuietOp(o)'
           /\ net \subseteq net' => \A r \in pool : QuietCall(r)'
           /\ UNCHANGED pt => QuietEnd'
<1>1. \A m : Remembered(m)
  BY RememberedSame, Zenon
<1>2. \A o \in Range(task_vec') : o # 0
  <2>1. \A o \in Range(task_vec) : o \in Ops
    BY OpFacts, Zenon
  <2> QED BY <2>1, ZeroNoOp, Zenon
<1>3. \A r \in pool : r.op # 0
  BY PoolFacts, ZeroNoOp, Zenon
<1>4. QuietNet'
  <2>1. QuietNet /\ ns' = "running" /\ tablet_up' = TRUE
    BY Zenon DEF Quiet, QuietNet
  <2>2. \A x \in Ops : x <= op_index => TasksOf(x)' = TasksOf(x)
    BY Zenon DEF Placid
  <2> QED BY <2>1, <2>2, QuietNetFrame, Zenon
<1>5. QuietTablet'
  BY Zenon DEF Quiet, QuietTablet, Known
<1>6. \A o \in Range(task_vec') : QuietOp(o)'
  BY <1>1, <1>2, QuietFrame, Zenon
<1>7. ASSUME net \subseteq net', NEW r \in pool PROVE QuietCall(r)'
  <2>1. r.op # 0 /\ Remembered(<<r.op, r.task>>)
    BY <1>1, <1>3, Zenon
  <2>2. <<r.op, r.task>> \in net => <<r.op, r.task>> \in net'
    BY <1>7, Zenon
  <2> QED BY <2>1, <2>2, QuietFrame, Zenon
<1>8. UNCHANGED pt => QuietEnd'
  BY <1>2, QuietFrame, Zenon
<1> QED BY <1>4, <1>5, <1>6, <1>7, <1>8, Zenon

LEMMA QSend ==
    ASSUME TInv, WInv, Quiet, NEW r \in pool, SendRequest(r)
    PROVE  Quiet'
<1>1. /\ UNCHANGED <<load, ns, task_vec, mem, pt, poll, parent, tablet, tablet_up, ran>>
      /\ net' = net \cup {<<r.op, r.task>>} /\ pool' = Moved(r, "call") /\ Kind(r) = "tablet"
  BY Zenon DEF SendRequest, zkVars, histVars
<1>2. /\ QuietNet' /\ QuietTablet' /\ QuietEnd' /\ \A o \in Range(task_vec') : QuietOp(o)'
      /\ \A q \in pool : QuietCall(q)'
  <2>1. NetOf
    BY <1>1, Zenon DEF NetOf
  <2>2. Placid(0) /\ net \subseteq net'
    BY <1>1, PlacidMem, Zenon
  <2> QED BY <1>1, <2>1, <2>2, QuietSame, Zenon
<1>3. ASSUME NEW q \in pool' PROVE QuietCall(q)'
  <2>1. q \in pool \/ (q.op = r.op /\ q.task = r.task /\ q.pc = "call")
    BY <1>1, MovedFact, Zenon
  <2> QED BY <1>1, <1>2, <2>1, Zenon DEF QuietCall
<1> QED BY <1>2, <1>3, Zenon DEF Quiet

LEMMA QCall ==
    ASSUME TInv, WInv, Quiet, faults = 0, faults' = 0, NEW r \in pool, CallReturns(r)
    PROVE  Quiet'
<1>1. QuietCall(r)
  BY Zenon DEF Quiet
<1>2. ~CallFailed(r)
  BY <1>1, Zenon DEF CallFailed, QuietCall
<1>3. /\ UNCHANGED <<load, ns, task_vec, mem, pt, poll, parent, net, tablet, tablet_up, ran>>
      /\ r.pc = "accepted" /\ pool' = Moved(r, "answered")
  BY <1>2, NoFault, Zenon DEF CallReturns, zkVars, histVars, tabletVars
<1>4. /\ QuietNet' /\ QuietTablet' /\ QuietEnd' /\ \A o \in Range(task_vec') : QuietOp(o)'
      /\ \A q \in pool : QuietCall(q)'
  BY <1>3, PlacidMem, QuietSame, Zenon DEF NetOf
<1>5. ASSUME NEW q \in pool' PROVE QuietCall(q)'
  <2>1. q \in pool \/ (q.op = r.op /\ q.task = r.task /\ q.pc = "answered")
    BY <1>3, MovedFact, ZenonT(60)
  <2>2. IsFront(r)' => Known(<<r.op, r.task>>)'
    BY <1>3, <1>4, Zenon DEF QuietCall
  <2>3. CASE q.op = r.op /\ q.task = r.task /\ q.pc = "answered"
    <3>1. IsFront(q)' = IsFront(r)'
      BY <2>3, Zenon DEF IsFront
    <3> QED BY <2>2, <2>3, <3>1, ZenonT(60) DEF QuietCall
  <2> QED BY <1>4, <2>1, <2>3, ZenonT(60)
<1> QED BY <1>4, <1>5, Zenon DEF Quiet

\* The two writes that end WrapTaskFun: a poll that has not seen the task is stale
\* before is_rpc_send is set.
LEMMA QWrap ==
    ASSUME TInv, WInv, Quiet, NEW r \in pool, WrapTaskFun(r)
    PROVE  Quiet'
<1>1. /\ UNCHANGED <<load, ns, task_vec, pt, parent, net, tablet, tablet_up, ran>>
      /\ r.pc \in {"answered", "first"}
  BY Zenon DEF WrapTaskFun, zkVars, histVars, tabletVars
<1>2. CASE r.pc = "answered"
  <2>1. /\ UNCHANGED mem /\ pool' = Moved(r, "first")
        /\ poll' = IF poll.pc = "answered" THEN [poll EXCEPT !.stale = TRUE] ELSE poll
    BY <1>2, Zenon DEF WrapTaskFun, WrapStep
  <2>2. poll'.resp = poll.resp /\ \A m : Found(m)'
    <3>1. CASE poll.pc = "answered"
      <4>1. poll' = [poll EXCEPT !.stale = TRUE]
        BY <2>1, <3>1, Zenon
      <4>2. poll'.stale = TRUE /\ poll'.resp = poll.resp
        BY <4>1, Zenon DEF TInv, PollType
      <4> QED BY <4>2, Zenon DEF Found
    <3>2. CASE poll.pc # "answered"
      BY <2>1, <3>2, Zenon DEF Found
    <3> QED BY <3>1, <3>2, Zenon
  <2>3. \A m : Remembered(m)
    BY <1>1, <2>2, Zenon DEF Remembered, Known
  <2>4. Placid(0)
    BY <1>1, <2>1, PlacidMem, Zenon
  <2>5. 0 \notin Range(task_vec') /\ \A q \in pool : q.op # 0
    BY <1>1, OpFacts, PoolFacts, ZeroNoOp, Zenon
  <2>6. QuietEnd' /\ \A o \in Range(task_vec') : QuietOp(o)'
    BY <1>1, <2>3, <2>4, <2>5, QuietFrame, Zenon
  <2>7. \A q \in pool : QuietCall(q)'
    BY <1>1, <2>3, <2>4, <2>5, QuietFrame, Zenon
  <2>8. ASSUME NEW q \in pool' PROVE QuietCall(q)'
    <3>1. q \in pool \/ (q.op = r.op /\ q.task = r.task /\ q.pc = "first")
      BY <2>1, MovedFact, Zenon
    <3>2. IsFront(r)' => Known(<<r.op, r.task>>)'
      BY <1>2, <2>7, Zenon DEF QuietCall
    <3>3. CASE q.op = r.op /\ q.task = r.task /\ q.pc = "first"
      <4>1. IsFront(q)' = IsFront(r)'
        BY <3>3, Zenon DEF IsFront
      <4> QED BY <2>2, <3>2, <3>3, <4>1, Zenon DEF QuietCall
    <3> QED BY <2>7, <3>1, <3>3, Zenon
  <2>9. QuietNet' /\ QuietTablet'
    BY <1>1, <2>2, Zenon DEF Quiet, QuietNet, QuietTablet, Known, TasksOf, Plan, ChildPlan
  <2> QED BY <2>6, <2>8, <2>9, Zenon DEF Quiet
<1>3. CASE r.pc = "first"
  <2>1. /\ UNCHANGED poll /\ pool' = pool \ {r}
        /\ mem' = IF IsFront(r) THEN [mem EXCEPT ![r.op].sent = TRUE] ELSE mem
    BY <1>3, Zenon DEF WrapTaskFun, WrapStep
  <2>2. CASE ~IsFront(r)
    <3>1. UNCHANGED mem
      BY <2>1, <2>2, Zenon
    <3>2. /\ QuietNet' /\ QuietTablet' /\ QuietEnd' /\ \A o \in Range(task_vec') : QuietOp(o)'
          /\ \A q \in pool : QuietCall(q)'
      BY <1>1, <2>1, <3>1, PlacidMem, QuietSame, Zenon DEF NetOf
    <3> QED BY <2>1, <3>2, Zenon DEF Quiet
  <2>3. CASE IsFront(r)
    <3>1. /\ r.op \in Ops /\ r.op \in Range(task_vec) /\ r.task = FrontTask(r.op)
          /\ mem[r.op] \in MemType(Len(TasksOf(r.op))) /\ DOMAIN mem = Ops
      BY <2>3, PoolFacts, MemFacts, Zenon DEF IsFront, TInv, MemOK
    <3>2. PICK v : v = [mem[r.op] EXCEPT !.sent = TRUE]
      BY Zenon
    <3>3. v.status = mem[r.op].status /\ v.index = mem[r.op].index /\ v.front = mem[r.op].front
      BY <3>1, <3>2, Zenon DEF MemType
    <3>4. mem' = [mem EXCEPT ![r.op] = v]
      BY <2>1, <2>3, <3>2, Zenon
    <3>5. mem'[r.op] = v /\ \A x \in Ops : x # r.op => mem'[x] = mem[x]
      BY <3>1, <3>4, Zenon
    <3>6. Placid(r.op)
      <4>1. \A o \in Range(task_vec) : /\ o \in Ops /\ mem[o].status # "canceled"
                                       /\ mem[o].front \in {"inited", "doing", "done"}
        BY OpFacts, Zenon DEF Quiet, QuietOp
      <4> QED BY <1>1, <3>5, <4>1, Zenon DEF Placid, TasksOf, Plan, ChildPlan
    <3>7. \A m : Remembered(m)
      BY <1>1, <2>1, RememberedSame, Zenon
    <3>8. /\ FrontTask(r.op)' = FrontTask(r.op) /\ NoTaskLeft(r.op)' = NoTaskLeft(r.op)
          /\ \A q \in pool : IsFront(q)' = IsFront(q)
      <4>1. \A x \in Range(task_vec) : mem'[x].index = mem[x].index
        BY <3>3, <3>5, OpFacts, Zenon
      <4>2. \A x : TasksOf(x)' = TasksOf(x)
        BY <1>1, Zenon DEF TasksOf, Plan, ChildPlan
      <4> QED BY <1>1, <3>1, <4>1, <4>2, Zenon DEF FrontTask, NoTaskLeft, IsFront
    <3>9. QuietOp(r.op)'
      <4>1. Known(<<r.op, r.task>>) /\ Found(<<r.op, r.task>>)
        BY <1>3, <2>3, Zenon DEF Quiet, QuietCall
      <4>2. Known(<<r.op, r.task>>)' /\ Found(<<r.op, r.task>>)'
        BY <3>7, <4>1, Zenon DEF Remembered
      <4>3. FrontTask(r.op)' = r.task
        BY <3>1, <3>8, Zenon
      <4>4. mem'[r.op].status # "canceled" /\ mem'[r.op].front \in {"inited", "doing", "done"}
        BY <3>1, <3>3, <3>5, Zenon DEF Quiet, QuietOp
      <4> QED BY <4>2, <4>3, <4>4, Zenon DEF QuietOp, Known, Found
    <3>10. \A o \in Range(task_vec') : QuietOp(o)'
      BY <3>6, <3>7, <3>9, QuietFrame, Zenon
    <3>11. \A q \in pool : QuietCall(q)'
      BY <1>1, <3>6, <3>7, <3>8, QuietFrame, Zenon
    <3>12. QuietNet' /\ QuietTablet'
      BY <1>1, <2>1, Zenon DEF Quiet, QuietNet, QuietTablet, Known, TasksOf, Plan, ChildPlan
    <3>13. QuietEnd'
      <4> SUFFICES ASSUME pt.pc \in {"tablet", "erase"}, pt.op \in Range(task_vec)
                   PROVE  NoTaskLeft(pt.op)'
        BY <1>1, Zenon DEF QuietEnd
      <4>1. NoTaskLeft(pt.op)
        BY Zenon DEF Quiet, QuietEnd
      <4>2. mem'[pt.op].index = mem[pt.op].index
        BY <3>3, <3>5, OpFacts, Zenon
      <4> QED BY <1>1, <4>1, <4>2, Zenon DEF NoTaskLeft, TasksOf, Plan, ChildPlan
    <3> QED BY <2>1, <3>10, <3>11, <3>12, <3>13, ZenonT(60) DEF Quiet
  <2> QED BY <2>2, <2>3, Zenon
<1> QED BY <1>1, <1>2, <1>3, Zenon

\* mem after the front task of o has got another status.
LEMMA FrontSent ==
    ASSUME TInv, NEW o \in Ops, NEW s, mem' = [mem EXCEPT ![o].front = s]
    PROVE  /\ mem'[o].status = mem[o].status /\ mem'[o].index = mem[o].index
           /\ mem'[o].sent = mem[o].sent /\ mem'[o].front = s
           /\ \A x \in Ops : x # o => mem'[x] = mem[x]
<1>1. mem[o] \in MemType(Len(TasksOf(o))) /\ DOMAIN mem = Ops
  BY MemFacts, Zenon DEF TInv, MemOK
<1>2. PICK v : v = [mem[o] EXCEPT !.front = s]
  BY Zenon
<1>3. v.status = mem[o].status /\ v.index = mem[o].index /\ v.sent = mem[o].sent /\ v.front = s
  BY <1>1, <1>2, Zenon DEF MemType
<1>4. mem' = [mem EXCEPT ![o] = v]
  BY <1>2, Zenon
<1>5. mem'[o] = v /\ \A x \in Ops : x # o => mem'[x] = mem[x]
  BY <1>1, <1>4, Zenon
<1> QED BY <1>3, <1>5, Zenon

LEMMA QuietMem ==
    ASSUME TInv, Quiet, NEW o \in Range(task_vec)
    PROVE  /\ o \in Ops /\ o # 0
           /\ mem[o].status # "canceled" /\ mem[o].front \in {"inited", "doing", "done"}
BY OpFacts, ZeroNoOp, Zenon DEF Quiet, QuietOp

\* A step that ends or starts the front task of at most one operation.
LEMMA PlacidFront ==
    ASSUME TInv, Quiet, NEW o \in Ops, NEW s \in {"doing", "done"},
           mem' = [mem EXCEPT ![o].front = s], UNCHANGED <<load, parent, task_vec>>
    PROVE  Placid(0)
<1>1. /\ mem'[o].status = mem[o].status /\ mem'[o].index = mem[o].index
      /\ mem'[o].sent = mem[o].sent /\ mem'[o].front = s
      /\ \A x \in Ops : x # o => mem'[x] = mem[x]
  BY FrontSent, Zenon
<1>2. \A x \in Range(task_vec) :
         /\ mem'[x].index = mem[x].index /\ mem'[x].status # "canceled"
         /\ mem'[x].front \in {"inited", "doing", "done"}
         /\ mem'[x].sent => mem[x].sent
  BY <1>1, QuietMem, Zenon
<1> QED BY <1>2, PlacidSame, Zenon

LEMMA RanGrows ==
    ASSUME TInv, NEW m \in Ops \X Tasks, ran' = [ran EXCEPT ![m] = @ + 1]
    PROVE  ran'[m] > 0 /\ \A x \in Ops \X Tasks : ran[x] > 0 => ran'[x] > 0
<1>1. ran \in [Ops \X Tasks -> Nat]
  BY Zenon DEF TInv, HistType
<1>2. ran'[m] = ran[m] + 1 /\ \A x \in Ops \X Tasks : x # m => ran'[x] = ran[x]
  BY <1>1, Zenon
<1>3. \A k \in Nat : k + 1 > 0
  OBVIOUS
<1> QED BY <1>1, <1>2, <1>3, Zenon

LEMMA QNs ==
    ASSUME TInv, WInv, Quiet, faults = 0, faults' = 0, NEW r \in pool, NsTask(r)
    PROVE  Quiet'
<1>1. /\ UNCHANGED <<load, ns, task_vec, pt, poll, parent, net, tablet, tablet_up>>
      /\ ran' = [ran EXCEPT ![<<r.op, r.task>>] = @ + 1]
      /\ mem' = SetStatus(r, "done") /\ pool' = pool \ {r}
  BY NoFault, Zenon DEF NsTask, zkVars, tabletVars
<1>2. r.op \in Ops /\ <<r.op, r.task>> \in Ops \X Tasks
  BY PoolSeen, Zenon
<1>3. Placid(0)
  <2>1. CASE IsFront(r)
    <3>1. mem' = [mem EXCEPT ![r.op].front = "done"]
      BY <1>1, <2>1, Zenon DEF SetStatus
    <3> QED BY <1>1, <1>2, <3>1, PlacidFront, ZenonT(60)
  <2>2. CASE ~IsFront(r)
    BY <1>1, <2>2, PlacidMem, Zenon DEF SetStatus
  <2> QED BY <2>1, <2>2, Zenon
<1>4. \A m \in Ops \X Tasks : ran[m] > 0 => ran'[m] > 0
  BY <1>1, <1>2, RanGrows, Zenon
<1>5. NetOf
  BY <1>1, Zenon DEF NetOf
<1> QED BY <1>1, <1>3, <1>4, <1>5, QuietSame, Zenon DEF Quiet

\* The tablet.
LEMMA QAddOPTask ==
    ASSUME TInv, WInv, Quiet, NEW m \in net, AddOPTask(m)
    PROVE  Quiet'
<1>1. /\ UNCHANGED <<load, ns, task_vec, mem, pt, poll, parent, tablet_up>>
      /\ net' = net \ {m} /\ m \in Ops \X Tasks
  BY StepAddOPTask, Zenon
<1>2. tablet[m] = "none"
  <2>1. PICK o \in Ops, t \in Tasks : m = <<o, t>>
    BY ONLY <1>1
  <2>2. m[1] = o /\ m[2] = t
    BY <2>1, Zenon
  <2>3. t \in DOMAIN TasksOf(o) /\ TasksOf(o)[t] = "tablet"
    BY <2>2, Zenon DEF Quiet, QuietNet
  <2>4. ran[m] = 0
    BY <2>1, <2>3, Zenon DEF WInv, Once
  <2>5. ~(0 > 0)
    OBVIOUS
  <2> QED BY <1>1, <2>4, <2>5, Zenon DEF Quiet, QuietTablet, Known
<1>3. /\ tablet' = [tablet EXCEPT ![m] = "doing"] /\ ran' = [ran EXCEPT ![m] = @ + 1]
      /\ pool' = {IF r.pc = "call" /\ <<r.op, r.task>> = m THEN [r EXCEPT !.pc = "accepted"]
                  ELSE r : r \in pool}
  BY <1>2, Zenon DEF AddOPTask
<1>4. tablet'[m] = "doing" /\ \A x \in Ops \X Tasks : x # m => tablet'[x] = tablet[x]
  BY <1>1, <1>3, Zenon DEF TInv, TabletType
<1>5. \A x \in Ops \X Tasks : Remembered(x)
  BY <1>1, <1>4, Zenon DEF Remembered, Known, Found
<1>6. Placid(0)
  BY <1>1, PlacidMem, Zenon
<1>7. QuietEnd' /\ \A o \in Range(task_vec') : QuietOp(o)'
  <2>1. \A o \in Range(task_vec') : o \in Ops /\ o # 0
    BY <1>1, QuietMem, Zenon
  <2>2. \A o \in Range(task_vec') : \A t \in Tasks : Remembered(<<o, t>>)
    BY <1>5, <2>1, Zenon
  <2>3. QuietEnd'
    BY <1>1, <1>6, <2>1, QuietFrame, ZenonT(60)
  <2> QED BY <1>6, <2>1, <2>2, <2>3, QuietFrame, Zenon
<1>8. QuietNet'
  <2>1. \A x : TasksOf(x)' = TasksOf(x)
    BY <1>1, Zenon DEF TasksOf, Plan, ChildPlan
  <2> QED BY <1>1, <2>1, Zenon DEF Quiet, QuietNet
<1>9. QuietTablet'
  <2>1. ran'[m] > 0 /\ \A x \in Ops \X Tasks : ran[x] > 0 => ran'[x] > 0
    BY <1>1, <1>3, RanGrows, Zenon
  <2> QED BY <1>1, <1>4, <2>1, ZenonT(60) DEF Quiet, QuietTablet, Known
<1>10. ASSUME NEW q \in pool' PROVE QuietCall(q)'
  <2>1. PICK r \in pool :
           q = IF r.pc = "call" /\ <<r.op, r.task>> = m THEN [r EXCEPT !.pc = "accepted"] ELSE r
    BY <1>3, Zenon
  <2>2. /\ r.op # 0 /\ <<r.op, r.task>> \in Ops \X Tasks
    BY PoolSeen, ZeroNoOp, Zenon
  <2>3. Remembered(<<r.op, r.task>>)
    BY <1>5, <2>2, Zenon
  <2>4. CASE r.pc = "call" /\ <<r.op, r.task>> = m
    <3>1. q = [op |-> r.op, task |-> r.task, pc |-> "accepted"]
      BY <2>1, <2>4, PoolFacts, Zenon
    <3>2. q.op = r.op /\ q.task = r.task /\ q.pc = "accepted"
      BY ONLY <3>1, CallFields
    <3>3. Known(<<q.op, q.task>>)'
      BY <1>4, <2>4, <3>2, Zenon DEF Known
    <3> QED BY <3>2, <3>3, Zenon DEF QuietCall
  <2>5. CASE q = r /\ (r.pc = "call" => <<r.op, r.task>> # m)
    <3>1. r.pc = "call" /\ <<r.op, r.task>> \in net => <<r.op, r.task>> \in net'
      BY <1>1, <2>5, Zenon
    <3> QED BY <1>6, <2>2, <2>3, <2>5, <3>1, QuietFrame, Zenon
  <2> QED BY <2>1, <2>4, <2>5, Zenon
<1> QED BY <1>7, <1>8, <1>9, <1>10, Zenon DEF Quiet

\* A step of the tablet or of the poll that forgets nothing.
LEMMA QuietKnow ==
    ASSUME TInv, WInv, Quiet, UNCHANGED <<load, ns, task_vec, pt, pool, parent, net, tablet_up>>,
           Placid(0), \A x \in Ops \X Tasks : Remembered(x), QuietTablet'
    PROVE  Quiet'
<1>1. \A o \in Range(task_vec') : o \in Ops /\ o # 0
  BY QuietMem, Zenon
<1>2. \A o \in Range(task_vec') : \A t \in Tasks : Remembered(<<o, t>>)
  BY <1>1, Zenon
<1>3. QuietEnd'
  BY <1>1, QuietFrame, Zenon
<1>4. \A o \in Range(task_vec') : QuietOp(o)'
  BY <1>1, <1>2, QuietFrame, Zenon
<1>5. ASSUME NEW r \in pool' PROVE QuietCall(r)'
  <2>1. r.op # 0 /\ <<r.op, r.task>> \in Ops \X Tasks /\ r \in pool
    BY <1>5, PoolSeen, ZeroNoOp, Zenon
  <2>2. Remembered(<<r.op, r.task>>)
    BY <2>1, Zenon
  <2> QED BY <2>1, <2>2, QuietFrame, Zenon
<1>6. QuietNet'
  <2>1. \A x : TasksOf(x)' = TasksOf(x)
    BY Zenon DEF TasksOf, Plan, ChildPlan
  <2> QED BY <2>1, Zenon DEF Quiet, QuietNet
<1> QED BY <1>3, <1>4, <1>5, <1>6, Zenon DEF Quiet

LEMMA QTaskEnds ==
    ASSUME TInv, WInv, Quiet, faults = 0, faults' = 0, NEW m \in Ops \X Tasks, TaskEnds(m)
    PROVE  Quiet'
<1>1. /\ UNCHANGED <<load, ns, task_vec, mem, pt, pool, poll, parent, net, tablet_up, ran>>
      /\ tablet' = [tablet EXCEPT ![m] = "done"] /\ tablet[m] \in {"doing", "canceled"}
  BY NoFault, Zenon DEF TaskEnds, nsVars, zkVars
<1>2. tablet'[m] = "done" /\ \A x \in Ops \X Tasks : x # m => tablet'[x] = tablet[x]
  BY <1>1, Zenon DEF TInv, TabletType
<1>3. \A x \in Ops \X Tasks : Remembered(x)
  BY <1>1, <1>2, Zenon DEF Remembered, Known, Found
<1>4. QuietTablet'
  BY <1>1, <1>2, Zenon DEF Quiet, QuietTablet, Known
<1> QED BY <1>1, <1>3, <1>4, PlacidMem, QuietKnow, Zenon

LEMMA QGet ==
    ASSUME TInv, WInv, Quiet, GetTaskStatus
    PROVE  Quiet'
<1>1. UNCHANGED <<load, ns, task_vec, mem, pt, pool, parent, net, tablet, tablet_up, ran>>
      /\ poll'.resp = tablet
  BY StepGet, Zenon
<1>2. \A x \in Ops \X Tasks : Remembered(x)
  BY <1>1, Zenon DEF Remembered, Known, Found
<1>3. QuietTablet'
  BY <1>1, Zenon DEF Quiet, QuietTablet, Known
<1> QED BY <1>1, <1>2, <1>3, PlacidMem, QuietKnow, Zenon

\* The answer of the poll: a task that was sent is found, so it is not taken for
\* a missing one however often it was asked for.
LEMMA QUpdateTask ==
    ASSUME TInv, WInv, Quiet, UpdateTask
    PROVE  Quiet'
<1> DEFINE o == Head(task_vec)
           x == poll.resp[<<o, FrontTask(o)>>]
<1>1. /\ UNCHANGED <<load, task_vec, pt, pool, parent, net, tablet, tablet_up, ran>>
      /\ ns' = "running" /\ poll' = Idle /\ poll.pc = "answered" /\ ns = "running"
  BY Zenon DEF UpdateTask, zkVars, tabletVars, histVars, Quiet, QuietNet
<1>2. poll'.pc = "idle" /\ poll'.resp = NoMap
  BY <1>1, Zenon DEF Idle
<1>3. \A m \in Ops \X Tasks : Remembered(m)
  BY <1>1, <1>2, Zenon DEF Remembered, Known, Found
<1>4. QuietTablet'
  BY <1>1, <1>2, Zenon DEF Quiet, QuietTablet, Known, NoMap
<1>5. CASE UNCHANGED mem
  BY <1>1, <1>3, <1>4, <1>5, PlacidMem, QuietKnow, Zenon
<1>6. CASE /\ ~poll.stale /\ WaitsForTablet
           /\ mem' = [mem EXCEPT ![o].front = Polled(o, x),
                                 ![o].checks = IF @ > CheckLimit THEN @ ELSE @ + 1]
  <2>1. o \in Range(task_vec) /\ o \in Ops /\ ~NoTaskLeft(o) /\ <<o, FrontTask(o)>> \in Ops \X Tasks
    BY <1>6, WaitFacts, Zenon DEF WaitsForTablet
  <2>2. x \in {"none", "doing", "done"}
    BY <2>1, Zenon DEF Quiet, QuietTablet
  <2>3. x = "none" => ~Missing(o)
    <3>1. mem[o].sent => x # "none"
      <4>1. QuietOp(o)
        BY <2>1, Zenon DEF Quiet
      <4> QED BY <1>1, <1>6, <2>1, <4>1, ZenonT(60) DEF QuietOp, Found
    <3>2. ns # "recovering"
      BY <1>1, Zenon
    <3> QED BY <3>1, <3>2, Zenon DEF Missing
  <2>4. PICK a \in {"doing", "done"} : a = Polled(o, x)
    BY <2>2, <2>3, Zenon DEF Polled
  <2>5. mem[o] \in MemType(Len(TasksOf(o))) /\ DOMAIN mem = Ops
    BY <2>1, MemFacts, Zenon DEF TInv, MemOK
  <2>6. PICK b : b = IF mem[o].checks > CheckLimit THEN mem[o].checks ELSE mem[o].checks + 1
    BY Zenon
  <2> DEFINE v == [[mem[o] EXCEPT !.front = a] EXCEPT !.checks = b]
  <2>7. v.front = a /\ v.status = mem[o].status /\ v.index = mem[o].index /\ v.sent = mem[o].sent
    BY <2>5, Zenon DEF MemType
  <2>8. mem' = [mem EXCEPT ![o] = v]
    <3>1. mem' = [mem EXCEPT ![o].front = a, ![o].checks = IF @ > CheckLimit THEN @ ELSE @ + 1]
      BY <1>6, <2>4, Zenon
    <3> HIDE DEF o, x
    <3> QED BY <2>1, <2>5, <2>6, <3>1, Zenon DEF MemType
  <2> HIDE DEF v, x, o
  <2>9. mem'[o] = v /\ \A y \in Ops : y # o => mem'[y] = mem[y]
    BY <2>1, <2>5, <2>8, Zenon
  <2>10. \A y \in Range(task_vec) :
            /\ mem'[y].index = mem[y].index /\ mem'[y].status # "canceled"
            /\ mem'[y].front \in {"inited", "doing", "done"}
            /\ mem'[y].sent => mem[y].sent
    BY <2>1, <2>7, <2>9, QuietMem, ZenonT(60)
  <2> QED BY <1>1, <1>3, <1>4, <2>10, PlacidSame, QuietKnow, Zenon
<1> QED BY <1>1, <1>5, <1>6, Zenon DEF UpdateTask

\* The ProcessTask thread.
LEMMA QStart ==
    ASSUME TInv, WInv, Quiet, StartFront
    PROVE  Quiet'
<1>1. PICK o \in Ops : o = Head(task_vec)
  BY StepStart, Zenon
<1>2. /\ Started(o) \/ UNCHANGED <<mem, zk, pool>>
      /\ \A x \in Ops : x # o => mem'[x] = mem[x]
      /\ o \in Range(task_vec)
  BY <1>1, StepStart, OpFacts, Zenon
<1>3. /\ UNCHANGED <<load, ns, task_vec, poll, parent, net, tablet, tablet_up, ran>>
      /\ pt' = [pt EXCEPT !.pc = "zk"]
  BY Zenon DEF StartFront, tabletVars
<1>4. QuietEnd'
  <2>1. pt'.pc = "zk"
    BY <1>3, Zenon DEF TInv, PtType
  <2> QED BY <2>1, Zenon DEF QuietEnd
<1>5. NetOf
  BY <1>3, Zenon DEF NetOf
<1>6. CASE UNCHANGED <<mem, pool>>
  BY <1>3, <1>4, <1>5, <1>6, PlacidMem, QuietSame, Zenon DEF Quiet
<1>7. CASE Started(o)
  <2>1. mem'[o].sent = mem[o].sent
    <3>1. mem[o] \in MemType(Len(TasksOf(o))) /\ DOMAIN mem = Ops
      BY MemFacts, Zenon DEF TInv, MemOK
    <3>2. UNCHANGED mem \/ mem' = Begin([mem EXCEPT ![o].status = "doing"], o)
      BY <1>1, Zenon DEF StartFront
    <3>3. PICK u : u = [mem[o] EXCEPT !.status = "doing"]
      BY Zenon
    <3>4. u.sent = mem[o].sent /\ u \in MemType(Len(TasksOf(o)))
      BY <3>1, <3>3, Zenon DEF MemType, Status
    <3>5. PICK w : w = [mem EXCEPT ![o] = u]
      BY Zenon
    <3>6. w[o] = u /\ DOMAIN w = Ops
      BY <3>1, <3>5, Zenon
    <3>7. UNCHANGED mem \/ mem' = w \/ mem' = [w EXCEPT ![o].front = "doing"]
      BY <3>2, <3>3, <3>5, Zenon DEF Begin
    <3>8. CASE mem' = [w EXCEPT ![o].front = "doing"]
      <4>1. mem'[o] = [u EXCEPT !.front = "doing"]
        BY <3>6, <3>8, Zenon
      <4> QED BY <3>4, <4>1, Zenon DEF MemType
    <3> QED BY <3>4, <3>6, <3>7, <3>8, ZenonT(60)
  <2>2. /\ mem'[o].status = "doing" /\ mem'[o].index = mem[o].index
        /\ mem'[o].front \in {"inited", "doing", "done"}
    BY <1>2, <1>7, QuietMem, Zenon DEF Started
  <2>3. \A x \in Range(task_vec) :
           /\ mem'[x].index = mem[x].index /\ mem'[x].status # "canceled"
           /\ mem'[x].front \in {"inited", "doing", "done"}
           /\ mem'[x].sent => mem[x].sent
    BY <1>2, <2>1, <2>2, QuietMem, Zenon
  <2>4. Placid(0)
    BY <1>3, <2>3, PlacidSame, Zenon
  <2>5. /\ QuietNet' /\ QuietTablet' /\ \A x \in Range(task_vec') : QuietOp(x)'
        /\ \A r \in pool : QuietCall(r)'
    BY <1>3, <1>5, <2>4, QuietSame, Zenon
  <2>6. ASSUME NEW q \in pool' PROVE QuietCall(q)'
    <3>1. q \in pool \/ q = [op |-> o, task |-> FrontTask(o), pc |-> "queued"]
      BY <1>7, Zenon DEF Started
    <3>2. CASE q = [op |-> o, task |-> FrontTask(o), pc |-> "queued"]
      <4>1. q.pc = "queued"
        BY ONLY <3>2
      <4> QED BY <4>1, Zenon DEF QuietCall
    <3> QED BY <2>5, <3>1, <3>2, Zenon
  <2> QED BY <1>4, <2>5, <2>6, Zenon DEF Quiet
<1> QED BY <1>2, <1>6, <1>7, Zenon

LEMMA QPt ==
    ASSUME TInv, WInv, Quiet, NothingToStart \/ CollectDone
    PROVE  Quiet'
<1>1. UNCHANGED <<load, ns, task_vec, mem, pool, poll, parent, net, tablet, tablet_up, ran>>
  BY Zenon DEF NothingToStart, CollectDone, zkVars, tabletVars, histVars
<1>2. QuietEnd'
  <2>1. CASE NothingToStart
    <3>1. pt'.pc \in {"run", "zk"}
      BY <2>1, Zenon DEF NothingToStart, TInv, PtType
    <3> QED BY <3>1, Zenon DEF QuietEnd
  <2>2. CASE CollectDone /\ ~(task_vec # <<>> /\ Finished(Head(task_vec)))
    <3>1. pt'.pc = "run"
      BY <2>2, Zenon DEF CollectDone
    <3> QED BY <3>1, Zenon DEF QuietEnd
  <2>3. CASE CollectDone /\ task_vec # <<>> /\ Finished(Head(task_vec))
    <3>1. PICK o : o = Head(task_vec) /\ pt' = [pc |-> "tablet", op |-> o]
      BY <2>3, Zenon DEF CollectDone
    <3>2. pt'.op = o
      BY <3>1, Zenon
    <3>3. o \in Range(task_vec) /\ Finished(o)
      BY <2>3, <3>1, OpFacts, Zenon
    <3>4. NoTaskLeft(o)
      <4>1. mem[o].status # "canceled" /\ mem[o].front \in {"inited", "doing", "done"}
        BY <3>3, QuietMem, Zenon
      <4> QED BY <3>3, <4>1, Zenon DEF Finished, Failed
    <3>5. NoTaskLeft(o)'
      BY <1>1, <3>4, Zenon DEF NoTaskLeft, TasksOf, Plan, ChildPlan
    <3> QED BY <3>2, <3>5, Zenon DEF QuietEnd, NoTaskLeft
  <2> QED BY <2>1, <2>2, <2>3, Zenon
<1>3. NetOf
  BY <1>1, Zenon DEF NetOf
<1> QED BY <1>1, <1>2, <1>3, PlacidMem, QuietSame, Zenon DEF Quiet

\* DeleteOPTask: what is forgotten is no operation's front task.
LEMMA QForget ==
    ASSUME TInv, WInv, Quiet, faults = 0, faults' = 0, DeleteOPTask
    PROVE  Quiet'
<1>1. /\ UNCHANGED <<load, ns, task_vec, mem, pool, poll, parent, net, tablet_up, ran>>
      /\ tablet' = Forget(pt.op) /\ pt' = [pt EXCEPT !.pc = "erase"] /\ pt.pc = "tablet"
  BY NoFault, Zenon DEF DeleteOPTask, zkVars, histVars, Quiet, QuietNet
<1>2. pt'.op = pt.op
  BY <1>1, Zenon DEF TInv, PtType
<1>3. PICK n : n = pt.op
  BY Zenon
<1>4. \A o \in Ops, t \in Tasks : tablet'[<<o, t>>] = IF o = n THEN "none" ELSE tablet[<<o, t>>]
  <2> SUFFICES ASSUME NEW o \in Ops, NEW t \in Tasks
               PROVE  tablet'[<<o, t>>] = IF o = n THEN "none" ELSE tablet[<<o, t>>]
    BY Zenon
  <2>1. <<o, t>> \in DOMAIN tablet /\ <<o, t>>[1] = o
    BY Zenon DEF TInv, TabletType
  <2> QED BY <1>1, <1>3, <2>1, Zenon DEF Forget
<1>5. Placid(n)
  BY <1>1, PlacidMem, Zenon
<1>6. \A o \in Ops, t \in Tasks : o # n => Remembered(<<o, t>>)
  BY <1>1, <1>4, Zenon DEF Remembered, Known, Found
<1>7. n \in Range(task_vec) => NoTaskLeft(n)
  BY <1>1, <1>3, Zenon DEF Quiet, QuietEnd
<1>8. \A x : TasksOf(x)' = TasksOf(x) /\ NoTaskLeft(x)' = NoTaskLeft(x)
  BY <1>1, ZenonT(60) DEF NoTaskLeft, TasksOf, Plan, ChildPlan
<1>9. ASSUME NEW o \in Range(task_vec') PROVE QuietOp(o)'
  <2>1. o \in Ops /\ o \in Range(task_vec)
    BY <1>1, <1>9, OpFacts, Zenon
  <2>2. CASE o = n
    <3>1. NoTaskLeft(o)' /\ QuietOp(o)
      BY <1>7, <1>8, <2>1, <2>2, Zenon DEF Quiet
    <3> QED BY <1>1, <3>1, Zenon DEF QuietOp
  <2>3. CASE o # n
    BY <1>5, <1>6, <1>9, <2>1, <2>3, QuietFrame, Zenon
  <2> QED BY <2>2, <2>3, ZenonT(60)
<1>10. ASSUME NEW r \in pool' PROVE QuietCall(r)'
  <2>1. r \in pool /\ r.op \in Ops /\ r.task \in Tasks /\ r.task \in DOMAIN TasksOf(r.op) /\ QuietCall(r)
    BY <1>1, <1>10, PoolFacts, PoolSeen, Zenon DEF Quiet
  <2>2. CASE r.op = n
    <3>1. ~IsFront(r)'
      <4> SUFFICES ASSUME IsFront(r)' PROVE FALSE
        BY Zenon
      <4>1. n \in Range(task_vec) /\ r.task = mem[n].index + 1
        BY <1>1, <2>2, Zenon DEF IsFront, FrontTask
      <4>2. PICK k \in Nat : k = Len(TasksOf(n)) /\ DOMAIN TasksOf(n) = 1 .. k
        BY <2>1, <2>2, OpFacts, Zenon
      <4>3. mem[n].index = k
        BY <1>7, <4>1, <4>2, Zenon DEF NoTaskLeft
      <4>4. k + 1 \notin 1 .. k
        BY ONLY <4>2
      <4> QED BY <2>1, <2>2, <4>1, <4>2, <4>3, <4>4, Zenon
    <3> QED BY <1>1, <2>1, <3>1, Zenon DEF QuietCall
  <2>3. CASE r.op # n
    <3>1. Remembered(<<r.op, r.task>>)
      BY <1>6, <2>1, <2>3, Zenon
    <3> QED BY <1>1, <1>5, <2>1, <2>3, <3>1, QuietFrame, Zenon
  <2> QED BY <2>2, <2>3, Zenon
<1>11. QuietNet'
  BY <1>1, <1>8, Zenon DEF Quiet, QuietNet
<1>12. QuietTablet'
  <2> SUFFICES ASSUME NEW m \in Ops \X Tasks
               PROVE  /\ tablet'[m] \in {"none", "doing", "done"}
                      /\ poll'.resp[m] \in {"none", "doing", "done"}
                      /\ Known(m)' => ran'[m] > 0
    BY Zenon DEF QuietTablet
  <2>1. tablet'[m] = "none" \/ tablet'[m] = tablet[m]
    <3>1. PICK o \in Ops, t \in Tasks : m = <<o, t>>
      BY ONLY TRUE
    <3> QED BY <1>4, <3>1, Zenon
  <2> QED BY <1>1, <2>1, Zenon DEF Quiet, QuietTablet, Known
<1>13. QuietEnd'
  <2>1. n \in Range(task_vec') => NoTaskLeft(n)'
    BY <1>1, <1>7, <1>8, Zenon
  <2> QED BY <1>2, <1>3, <2>1, Zenon DEF QuietEnd, NoTaskLeft
<1> QED BY <1>9, <1>10, <1>11, <1>12, <1>13, ZenonT(60) DEF Quiet

LEMMA QDeleteTask ==
    ASSUME TInv, WInv, Quiet, DeleteTask
    PROVE  Quiet'
<1>1. pt.pc = "erase"
  BY Zenon DEF DeleteTask
<1>2. pt.op \in Range(task_vec) /\ ~EndsFailed(pt.op) =>
         FinalStatus(pt.op) \in {"done", "failed", "canceled"}
  BY <1>1, EndFacts, Zenon
<1>3. /\ UNCHANGED <<load, ns, pool, poll, op_index, parent, net, tablet, tablet_up, ran>>
      /\ pt' = [pc |-> "run", op |-> 0]
      /\ \/ UNCHANGED <<task_vec, mem>>
         \/ \E s \in {"done", "failed", "canceled"} : Ended(pt.op, s)
  BY <1>2, StepDeleteTask, Zenon
<1>4. /\ Range(task_vec') \subseteq Range(task_vec)
      /\ \A x \in Range(task_vec') : mem'[x] = mem[x]
  <2>1. CASE UNCHANGED <<task_vec, mem>>
    BY <2>1, Zenon
  <2>2. ASSUME NEW s, Ended(pt.op, s)
        PROVE  /\ Range(task_vec') \subseteq Range(task_vec)
               /\ \A x \in Range(task_vec') : mem'[x] = mem[x]
    BY <2>2, OpFacts, Zenon DEF Ended
  <2> QED BY <1>3, <2>1, <2>2, Zenon
<1>5. \A x : TasksOf(x)' = TasksOf(x)
  BY <1>3, Zenon DEF TasksOf, Plan, ChildPlan
<1>6. Placid(0)
  BY <1>4, <1>5, QuietMem, Zenon DEF Placid
<1>7. NetOf
  BY <1>3, Zenon DEF NetOf
<1>8. QuietEnd'
  <2>1. pt'.pc = "run"
    BY <1>3, Zenon
  <2> QED BY <2>1, Zenon DEF QuietEnd
<1> QED BY <1>3, <1>4, <1>6, <1>7, <1>8, QuietSame, Zenon DEF Quiet

\* UpdateZKTaskStatus: the next task of the operation has not been sent, and no
\* function of the pool is about it.
LEMMA QZk ==
    ASSUME TInv, WInv, Quiet, UpdateZKTaskStatus
    PROVE  Quiet'
<1>1. /\ UNCHANGED <<load, ns, task_vec, pool, poll, op_index, parent, net, tablet, tablet_up, ran>>
      /\ pt'.pc = "collect"
  BY StepZk, Zenon
<1>2. QuietEnd'
  BY <1>1, Zenon DEF QuietEnd
<1>3. NetOf
  BY <1>1, Zenon DEF NetOf
<1>4. CASE UNCHANGED mem
  BY <1>1, <1>2, <1>3, <1>4, PlacidMem, QuietSame, Zenon DEF Quiet
<1>5. CASE mem' # mem
  <2>1. PICK n : n = Head(task_vec)
    BY Zenon
  <2>2. /\ n \in Range(task_vec) /\ Advanced(n)
        /\ \A x \in Ops : x # n => mem'[x] = mem[x]
    BY <1>5, <2>1, StepZk, Zenon
  <2>3. n \in Ops /\ mem[n].status # "canceled"
    BY <2>2, QuietMem, Zenon
  <2>4. \A x : TasksOf(x)' = TasksOf(x)
    BY <1>1, Zenon DEF TasksOf, Plan, ChildPlan
  <2>5. Placid(n)
    BY <1>1, <2>2, <2>4, QuietMem, Zenon DEF Placid
  <2>6. \A m : Remembered(m)
    BY <1>1, RememberedSame, Zenon
  <2>7. ~mem'[n].sent
    <3>1. mem[n] \in MemType(Len(TasksOf(n))) /\ DOMAIN mem = Ops
      BY <2>3, MemFacts, Zenon DEF TInv, MemOK
    <3>2. mem' = [mem EXCEPT ![n] = Popped(mem[n])] \/ mem' = [mem EXCEPT ![n] = mem[n]]
      BY <1>5, <2>1, Zenon DEF UpdateZKTaskStatus, Reverted
    <3>3. mem' = [mem EXCEPT ![n] = Popped(mem[n])]
      BY <1>5, <3>2, Zenon DEF TInv, MemOK
    <3>4. mem'[n] = Popped(mem[n])
      BY <2>3, <3>1, <3>3, Zenon
    <3>5. Popped(mem[n]).sent = FALSE
      BY ONLY <3>1 DEF Popped, MemType
    <3> QED BY <3>4, <3>5, Zenon
  <2>8. QuietOp(n)'
    BY <2>2, <2>3, <2>7, Zenon DEF QuietOp, Advanced
  <2>9. ASSUME NEW o \in Range(task_vec') PROVE QuietOp(o)'
    BY <2>5, <2>6, <2>8, <2>9, QuietFrame, Zenon
  <2>10. ASSUME NEW r \in pool, r.op = n PROVE ~IsFront(r)'
    <3> SUFFICES ASSUME IsFront(r)' PROVE FALSE
      BY Zenon
    <3>1. r.task = (mem[n].index + 1) + 1
      BY <2>2, <2>10, Zenon DEF IsFront, FrontTask, Advanced
    <3>2. mem[n].index \in Nat
      BY <2>3, IdFacts, Zenon
    <3>3. r.task >= mem[n].index + 2
      BY ONLY <3>1, <3>2
    <3>4. <<n, r.task>> \in Seen /\ r.task \in Tasks
      BY <2>10, PoolSeen, PoolFacts, Zenon
    <3>5. FreshFrom(n, mem[n].index + 2)
      BY <2>2, Zenon DEF WInv, Listed
    <3> QED BY <3>3, <3>4, <3>5, Zenon DEF FreshFrom
  <2>11. ASSUME NEW r \in pool PROVE QuietCall(r)'
    BY <1>1, <2>5, <2>6, <2>10, <2>11, QuietFrame, Zenon
  <2>12. QuietNet'
    BY <1>1, <2>4, Zenon DEF Quiet, QuietNet
  <2>13. QuietTablet'
    BY <1>1, Zenon DEF Quiet, QuietTablet, Known
  <2> QED BY <1>1, <1>2, <2>9, <2>11, <2>12, <2>13, Zenon DEF Quiet
<1> QED BY <1>4, <1>5, Zenon

\* A new operation.
LEMMA QCreated ==
    ASSUME TInv, WInv, Quiet, NEW n, NEW p, Created(n, p),
           UNCHANGED <<load, ns, pt, poll, net, tablet, tablet_up>>,
           \A x \in Ops : x # n => parent'[x] = parent[x], pool' \subseteq pool,
           \A m \in Ops \X Tasks : ran[m] > 0 => ran'[m] > 0,
           \A x \in Range(task_vec) :
              /\ mem'[x].front \in {"inited", "doing", "done"} /\ mem'[x].sent = mem[x].sent
              /\ mem'[x].status = mem[x].status /\ mem'[x].index = mem[x].index
    PROVE  Quiet'
<1>1. n = op_index + 1 /\ n \in Ops
  BY Zenon DEF Created
<1>2. \A x \in Ops : x <= op_index => x # n
  BY <1>1, IdFacts, Zenon
<1>3. \A x \in Ops : x <= op_index => TasksOf(x)' = TasksOf(x)
  BY <1>2, Zenon DEF TasksOf, Plan, ChildPlan
<1>4. /\ Range(task_vec') \subseteq Range(task_vec) \cup {n}
      /\ n \in Range(task_vec') /\ n \notin Range(task_vec) => mem'[n] = NewOp
  BY Zenon DEF Created
<1>5. n \notin Range(task_vec)
  BY <1>2, OpFacts, Zenon
<1>6. Placid(n)
  BY <1>3, <1>4, QuietMem, Zenon DEF Placid
<1>7. \A m : Remembered(m)
  BY RememberedSame, Zenon
<1>8. ASSUME NEW o \in Range(task_vec') PROVE QuietOp(o)'
  <2>1. CASE o = n
    <3>1. mem'[o] = NewOp
      BY <1>4, <1>5, <1>8, <2>1, Zenon
    <3>2. NewOp.status = "inited" /\ NewOp.front = "inited" /\ ~NewOp.sent
      BY DEF NewOp, NoOp
    <3> QED BY <3>1, <3>2, Zenon DEF QuietOp
  <2>2. CASE o # n
    BY <1>6, <1>7, <1>8, <2>2, QuietFrame, Zenon
  <2> QED BY <2>1, <2>2, Zenon
<1>9. ASSUME NEW r \in pool' PROVE QuietCall(r)'
  <2>1. r \in pool /\ r.op # n
    BY <1>2, <1>9, PoolSeen, Zenon
  <2> QED BY <1>6, <1>7, <2>1, QuietFrame, Zenon
<1>10. QuietEnd'
  <2>1. pt.op \in Ops \cup {0} /\ pt.op <= op_index
    BY Zenon DEF TInv, PtType, WInv, Collected
  <2>2. pt.op # n
    BY <1>1, <1>2, <2>1, ZeroNoOp, Zenon
  <2> QED BY <1>6, <2>2, QuietFrame, Zenon
<1>11. QuietNet'
  <2>1. NetOf
    BY Zenon DEF NetOf
  <2>2. QuietNet /\ ns' = "running" /\ tablet_up' = TRUE
    BY Zenon DEF Quiet, QuietNet, TInv, TabletType
  <2> QED BY <1>3, <2>1, <2>2, QuietNetFrame, Zenon
<1>12. QuietTablet'
  BY Zenon DEF Quiet, QuietTablet, Known
<1> QED BY <1>8, <1>9, <1>10, <1>11, <1>12, Zenon DEF Quiet

LEMMA QAdd ==
    ASSUME TInv, WInv, Quiet, AddOPData
    PROVE  Quiet'
<1>1. PICK n : n = op_index + 1
  BY Zenon
<1>2. /\ Created(n, 0)
      /\ UNCHANGED <<load, ns, pt, pool, poll, parent, net, tablet, tablet_up, ran>>
      /\ \A x \in Ops : x # n => mem'[x] = mem[x]
  BY <1>1, StepAdd, Zenon
<1>3. \A x \in Range(task_vec) : mem'[x] = mem[x]
  BY <1>1, <1>2, OpFacts, IdFacts, Zenon
<1>4. \A x \in Range(task_vec) :
         /\ mem'[x].front \in {"inited", "doing", "done"} /\ mem'[x].sent = mem[x].sent
         /\ mem'[x].status = mem[x].status /\ mem'[x].index = mem[x].index
  BY <1>3, QuietMem, Zenon
<1> QED BY <1>2, <1>4, QCreated, Zenon

LEMMA QRecoverTable ==
    ASSUME TInv, WInv, Quiet, NEW r \in pool, RecoverEndpointTable(r)
    PROVE  Quiet'
<1>1. PICK n : n = op_index + 1
  BY Zenon
<1>2. /\ Created(n, r.op) /\ UNCHANGED <<load, ns, pt, poll, net, tablet, tablet_up>>
      /\ parent' = [parent EXCEPT ![n] = r.op] /\ pool' = pool \ {r}
      /\ ran' = [ran EXCEPT ![<<r.op, r.task>>] = @ + 1]
  BY <1>1, StepRecoverTable, Zenon
<1>3. n \in Ops /\ r.op \in Ops /\ <<r.op, r.task>> \in Ops \X Tasks
  BY <1>2, PoolSeen, Zenon DEF Created
<1>4. \A x \in Ops : x # n => parent'[x] = parent[x]
  BY <1>2, Zenon DEF TInv, IdType
<1>5. \A m \in Ops \X Tasks : ran[m] > 0 => ran'[m] > 0
  BY <1>2, <1>3, RanGrows, Zenon
<1>6. DOMAIN mem = Ops /\ mem[r.op] \in MemType(Len(TasksOf(r.op)))
  BY <1>3, MemFacts, Zenon DEF TInv, MemOK
<1>7. ASSUME NEW x \in Range(task_vec)
      PROVE  /\ mem'[x].front \in {"inited", "doing", "done"} /\ mem'[x].sent = mem[x].sent
             /\ mem'[x].status = mem[x].status /\ mem'[x].index = mem[x].index
  <2>1. x \in Ops /\ x # n /\ mem[x].front \in {"inited", "doing", "done"}
    BY <1>1, <1>7, OpFacts, IdFacts, QuietMem, Zenon
  <2>2. CASE UNCHANGED mem
    BY <2>1, <2>2, Zenon
  <2>3. CASE mem' = [SetStatus(r, "done") EXCEPT ![n] = NewOp]
    <3>1. PICK w : w = SetStatus(r, "done")
      BY Zenon
    <3>2. w = mem \/ w = [mem EXCEPT ![r.op].front = "done"]
      BY <3>1, Zenon DEF SetStatus
    <3>3. DOMAIN w = Ops
      BY <1>6, <3>2, Zenon
    <3>4. mem'[x] = w[x]
      BY <2>1, <2>3, <3>1, <3>3, Zenon
    <3>5. CASE w[x] = mem[x]
      BY <2>1, <3>4, <3>5, Zenon
    <3>6. CASE x = r.op /\ w = [mem EXCEPT ![r.op].front = "done"]
      <4>1. w[x] = [mem[x] EXCEPT !.front = "done"]
        BY <1>3, <1>6, <3>6, Zenon
      <4>2. mem[x] \in MemType(Len(TasksOf(r.op)))
        BY <1>6, <3>6, Zenon
      <4>3. /\ w[x].front = "done" /\ w[x].sent = mem[x].sent
            /\ w[x].status = mem[x].status /\ w[x].index = mem[x].index
        BY <4>1, <4>2, Zenon DEF MemType
      <4> QED BY <3>4, <4>3, Zenon
    <3>7. w[x] = mem[x] \/ (x = r.op /\ w = [mem EXCEPT ![r.op].front = "done"])
      BY <1>6, <2>1, <3>2, Zenon
    <3> QED BY <3>5, <3>6, <3>7, Zenon
  <2> QED BY <1>1, <2>2, <2>3, Zenon DEF RecoverEndpointTable
<1> QED BY <1>2, <1>4, <1>5, <1>7, QCreated, Zenon

\* Every step counts the fault it has, or leaves the count alone.
LEMMA FaultsGrow ==
    ASSUME TInv, [Next]_vars, faults' = 0
    PROVE  faults = 0
<1>1. faults' = faults \/ \E k : Fault(k)
  <2>1. CASE AddOPData
    BY <2>1, Zenon DEF AddOPData, DeleteDoneOP
  <2>2. CASE StartFront \/ NothingToStart \/ CollectDone
    BY <2>2, Zenon DEF StartFront, NothingToStart, CollectDone
  <2>3. CASE UpdateZKTaskStatus
    BY <2>3, Zenon DEF UpdateZKTaskStatus
  <2>4. CASE DeleteOPTask
    BY <2>4, Zenon DEF DeleteOPTask
  <2>5. CASE DeleteTask
    BY <2>5, Zenon DEF DeleteTask
  <2>6. ASSUME NEW o \in Ops, CancelOP(o) \/ DeleteOP(o) PROVE \E k : Fault(k)
    BY <2>6, Zenon DEF CancelOP, DeleteOP
  <2>7. ASSUME NEW r \in pool, PoolStep(r) PROVE faults' = faults \/ \E k : Fault(k)
    <3>1. CASE SendRequest(r) \/ WrapTaskFun(r) \/ WrapNormalTaskFun(r)
      BY <3>1, Zenon DEF SendRequest, WrapTaskFun, WrapNormalTaskFun
    <3>2. CASE CallReturns(r)
      BY <3>2, Zenon DEF CallReturns
    <3>3. CASE NsTask(r)
      BY <3>3, Zenon DEF NsTask
    <3>4. CASE RecoverEndpointTable(r)
      BY <3>4, Zenon DEF RecoverEndpointTable, DeleteDoneOP
    <3> QED BY <2>7, <3>1, <3>2, <3>3, <3>4, Zenon DEF PoolStep
  <2>8. ASSUME NEW m \in net, Request(m) PROVE faults' = faults
    BY <2>8, Zenon DEF Request, AddOPTask, TabletCancelOP
  <2>9. ASSUME NEW m \in Ops \X Tasks, TaskEnds(m) PROVE faults' = faults \/ \E k : Fault(k)
    BY <2>9, Zenon DEF TaskEnds
  <2>10. CASE TabletCrash \/ TabletStart \/ NsCrash
    BY <2>10, Zenon DEF TabletCrash, TabletStart, NsCrash
  <2>11. CASE FailOfflineTask \/ GetTaskStatus \/ UpdateTask \/ NoAnswer
    BY <2>11, Zenon DEF FailOfflineTask, GetTaskStatus, UpdateTask, NoAnswer
  <2>12. ASSUME NEW dropped \in SUBSET Ops, RecoverOPTask(dropped)
         PROVE  faults' = faults \/ \E k : Fault(k)
    BY <2>12, Zenon DEF RecoverOPTask
  <2>13. CASE UNCHANGED vars
    BY <2>13, Zenon DEF vars
  <2> QED BY <2>1, <2>2, <2>3, <2>4, <2>5, <2>6, <2>7, <2>8, <2>9, <2>10, <2>11, <2>12, <2>13, Zenon
          DEF Next, ProcessTask
<1>2. faults \in Nat
  BY Zenon, Numbers, OpAssumption DEF TInv, StateType
<1>3. CASE faults' = faults
  BY <1>3, Zenon
<1>4. ASSUME NEW k, Fault(k) PROVE FALSE
  <2>1. faults' = faults + 1
    BY <1>4, Zenon DEF Fault
  <2> QED BY ONLY <1>2, <2>1, faults' = 0
<1> QED BY <1>1, <1>3, <1>4, Zenon

LEMMA QuietInit ==
    ASSUME Init
    PROVE  Quiet
<1>1. Range(task_vec) = {} /\ pool = {} /\ net = {} /\ ns = "running" /\ tablet_up
  BY DEF Init, Range
<1>2. QuietTablet
  <2>1. tablet = NoMap /\ poll.resp = NoMap
    BY Zenon DEF Init, Idle
  <2> QED BY <2>1, Zenon DEF QuietTablet, NoMap, Known
<1>3. QuietNet /\ QuietEnd
  BY <1>1, Zenon DEF QuietNet, QuietEnd
<1> QED BY <1>1, <1>2, <1>3, ZenonT(60) DEF Quiet

LEMMA QuietStutter ==
    ASSUME Quiet, UNCHANGED vars
    PROVE  Quiet'
<1>1. UNCHANGED <<load, ns, task_vec, mem, pt, pool, poll, parent, net, tablet, tablet_up, ran>>
  BY Zenon DEF vars, nsVars, zkVars, tabletVars, histVars
<1>2. \A o : TasksOf(o)' = TasksOf(o)
  BY <1>1, Zenon DEF TasksOf, Plan, ChildPlan
<1>3. QuietNet' /\ QuietTablet' /\ QuietEnd'
  BY <1>1, <1>2, Zenon DEF Quiet, QuietNet, QuietTablet, QuietEnd, NoTaskLeft, Known
<1>4. ASSUME NEW o \in Range(task_vec') PROVE QuietOp(o)'
  BY <1>1, <1>2, <1>4, Zenon DEF Quiet, QuietOp, NoTaskLeft, FrontTask, Known, Found
<1>5. ASSUME NEW r \in pool' PROVE QuietCall(r)'
  BY <1>1, <1>5, Zenon DEF Quiet, QuietCall, IsFront, FrontTask, Known, Found
<1> QED BY <1>3, <1>4, <1>5, Zenon DEF Quiet

\* The steps that take a fault, now or before: not one of them is possible.
LEMMA QuietNever ==
    ASSUME TInv, WInv, Quiet, faults = 0, faults' = 0
    PROVE  /\ \A o \in Ops : ~CancelOP(o) /\ ~DeleteOP(o)
           /\ \A r \in pool : ~WrapNormalTaskFun(r)
           /\ \A m \in net : ~TabletCancelOP(m)
           /\ ~TabletCrash /\ ~TabletStart /\ ~FailOfflineTask /\ ~NoAnswer /\ ~NsCrash
           /\ \A dropped : ~RecoverOPTask(dropped)
<1>1. ns = "running" /\ tablet_up
  BY Zenon DEF Quiet, QuietNet
<1>2. \A o \in Ops : ~CancelOP(o) /\ ~DeleteOP(o)
  BY NoFault, Zenon DEF CancelOP, DeleteOP
<1>3. \A r \in pool : ~WrapNormalTaskFun(r)
  BY Zenon DEF Quiet, QuietCall, WrapNormalTaskFun
<1>4. ASSUME NEW m \in net PROVE m[2] # 0
  <2>1. m \in Ops \X (Tasks \cup {0})
    BY <1>4, Zenon DEF TInv, TabletType
  <2>2. m[1] \in Ops
    BY ONLY <2>1
  <2>3. m[2] \in DOMAIN TasksOf(m[1])
    BY <1>4, Zenon DEF Quiet, QuietNet
  <2>4. m[2] \in Tasks
    BY <2>2, <2>3, OpFacts, Zenon
  <2>5. m[2] > 0 /\ m[2] \in Nat
    BY <2>4, OpFacts, Zenon
  <2> QED BY ONLY <2>5
<1>5. \A m \in net : ~TabletCancelOP(m)
  BY <1>4, Zenon DEF TabletCancelOP
<1>6. ~TabletCrash /\ ~NsCrash
  BY NoFault, Zenon DEF TabletCrash, NsCrash
<1>7. ~TabletStart /\ ~FailOfflineTask /\ ~NoAnswer /\ \A dropped : ~RecoverOPTask(dropped)
  BY <1>1, Zenon DEF TabletStart, FailOfflineTask, NoAnswer, RecoverOPTask
<1> QED BY <1>2, <1>3, <1>5, <1>6, <1>7, Zenon

LEMMA QuietInvStep ==
    ASSUME IInv, QInv, [Next]_vars
    PROVE  QInv'
<1> SUFFICES ASSUME faults' = 0 PROVE Quiet'
  BY Zenon DEF QInv
<1>1. TInv /\ WInv
  BY Zenon DEF IInv
<1>2. faults = 0 /\ Quiet
  BY <1>1, FaultsGrow, Zenon DEF QInv
<1>3. /\ \A o \in Ops : ~CancelOP(o) /\ ~DeleteOP(o)
      /\ \A r \in pool : ~WrapNormalTaskFun(r)
      /\ \A m \in net : ~TabletCancelOP(m)
      /\ ~TabletCrash /\ ~TabletStart /\ ~FailOfflineTask /\ ~NoAnswer /\ ~NsCrash
      /\ \A dropped : ~RecoverOPTask(dropped)
  BY <1>1, <1>2, QuietNever, ZenonT(60)
<1>4. CASE AddOPData
  BY <1>1, <1>2, <1>4, QAdd, ZenonT(60)
<1>5. CASE ProcessTask
  BY <1>1, <1>2, <1>5, QStart, QPt, QZk, QForget, QDeleteTask, Zenon DEF ProcessTask
<1>6. ASSUME NEW r \in pool, PoolStep(r) PROVE Quiet'
  BY <1>1, <1>2, <1>3, <1>6, QSend, QCall, QWrap, QNs, QRecoverTable, Zenon DEF PoolStep
<1>7. ASSUME NEW m \in net, Request(m) PROVE Quiet'
  BY <1>1, <1>2, <1>3, <1>7, QAddOPTask, Zenon DEF Request
<1>8. ASSUME NEW m \in Ops \X Tasks, TaskEnds(m) PROVE Quiet'
  BY <1>1, <1>2, <1>8, QTaskEnds, Zenon
<1>9. CASE GetTaskStatus \/ UpdateTask
  BY <1>1, <1>2, <1>9, QGet, QUpdateTask, Zenon
<1>10. CASE UNCHANGED vars
  BY <1>2, <1>10, QuietStutter, Zenon
<1> QED BY <1>3, <1>4, <1>5, <1>6, <1>7, <1>8, <1>9, <1>10, Zenon DEF Next

\* As long as nothing fails no task is marked kFailed: UpdateTask never takes a task
\* that the tablet runs for a missing one, because WrapTaskFun changes
\* task_rpc_version_ before it sets is_rpc_send, which drops every poll that the
\* tablet answered before it had the task; and no call is refused by AddOPTask.
THEOREM NoSpuriousFailureHolds == Spec => []NoSpuriousFailure
<1>1. Init => QInv
  BY QuietInit, Zenon DEF QInv
<1>2. IInv /\ QInv /\ [Next]_vars => QInv'
  BY QuietInvStep, Zenon
<1>3. QInv => NoSpuriousFailure
  <2> SUFFICES ASSUME QInv, faults = 0, NEW o \in Range(task_vec)
               PROVE  mem[o].front # "failed"
    BY Zenon DEF NoSpuriousFailure
  <2>1. QuietOp(o)
    BY Zenon DEF QInv, Quiet
  <2> QED BY <2>1, Zenon DEF QuietOp
<1> QED BY <1>1, <1>2, <1>3, OpEngineInvariant, PTL DEF Spec
=============================================================================
