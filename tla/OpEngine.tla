------------------------------ MODULE OpEngine ------------------------------
(***************************************************************************)
(* How the name server runs operations (OPs): NameServerImpl's task_vec_,  *)
(* the ProcessTask loop, the pool that calls the tablets, the periodic     *)
(* UpdateTaskStatus, CancelOP, and the recovery of unfinished operations   *)
(* from ZooKeeper by the next leader (src/nameserver/name_server_impl.cc,  *)
(* src/nameserver/task.cc), with the task map of a tablet                  *)
(* (src/tablet/tablet_impl.cc).                                            *)
(*                                                                         *)
(* Abstractions.  One list of task_vec_ (the lists do not interact) and    *)
(* one tablet.  A task is its position in its operation's plan; tasks of   *)
(* one operation have different types, so the position identifies the      *)
(* type.  Composite tasks (sub_task_, seq_task_) are not modelled.  A new  *)
(* leader starts when the old one is gone.                                 *)
(*                                                                         *)
(* Kinds of tasks: "tablet" runs on the tablet (WrapTaskFun); the others   *)
(* run in the name server: "again" is a type SkipDoneTask executes again,  *)
(* "recover" is one of them that adds a child operation (kRecoverTable),   *)
(* "local" is a type it does not (kChangeLeader, kDelTableInfo,            *)
(* kAddIndexToTableInfo), "normal" is kCreateProcedure (WrapNormalTaskFun).*)
(***************************************************************************)
EXTENDS Integers, Sequences, Functions

CONSTANTS
    MaxOps,         \* bound: operations created
    Workloads,      \* the plans of operations and the faults that go with them
    CheckLimit,     \* polls after which a task the tablet does not know fails
    MaxFaults       \* bound: faults

Kinds == {"tablet", "again", "recover", "local", "normal"}
FaultKinds == {"ns", "tablet", "timeout", "zk", "cancel", "fail", "create",
               "delete"}

\* kCreateProcedure is the last task of the only operation that has it, kDeployOP.
NormalIsLast(plan) == \A i \in DOMAIN plan : plan[i] = "normal" => i = Len(plan)

ASSUME OpAssumption ==
    /\ MaxOps \in Nat /\ CheckLimit \in Nat /\ MaxFaults \in Nat
    /\ \A w \in Workloads :
          /\ w.plan \in Seq(Kinds) \ {<<>>} /\ w.childPlan \in Seq(Kinds) \ {<<>>}
          /\ NormalIsLast(w.plan) /\ NormalIsLast(w.childPlan)
          /\ w.faults \subseteq FaultKinds /\ w.ops \in 0 .. MaxOps /\ w.done \in Nat

VARIABLES
    load,           \* the workload of this behaviour
    ns,             \* "down", "recovering" (in Recover()), "running" (running_)
    task_vec,       \* task_vec_: one list of operations
    mem,            \* the OPData of the operations in memory
    done_op_list,   \* done_op_list_: finished operations, oldest first
    pt,             \* where the ProcessTask thread is, and done_task_vec
    pool,           \* task functions handed to task_thread_pool_
    poll,           \* the GetTaskStatus call of UpdateTaskStatus
    zk,             \* ZooKeeper: the op nodes
    op_index,       \* ZooKeeper: op_index_, the last operation created
    parent,         \* parent_id, 0 for INVALID_PARENT_ID
    net,            \* requests on their way to the tablet; task 0 is CancelOP
    tablet,         \* the tablet's task_map_
    tablet_up,      \* the tablet runs
    ran,            \* history: how often a task's work was started
    succeeded,      \* history: tasks whose work succeeded
    begun,          \* history: operations that had a task started
    canceled,       \* history: what this name server answered ok to CancelOP for
    deleted,        \* history: operations that DeleteOP answered ok for
    faults          \* faults so far

nsVars == <<ns, task_vec, mem, done_op_list, pt, pool, poll>>
zkVars == <<zk, op_index, parent>>
tabletVars == <<net, tablet, tablet_up>>
histVars == <<ran, succeeded, begun, canceled, deleted>>
vars == <<load, nsVars, zkVars, tabletVars, histVars, faults>>

Plan == load.plan            \* kinds of the tasks of an operation, in order
ChildPlan == load.childPlan  \* the same for an operation that has a parent
Faults == load.faults        \* the kinds of fault that may happen
MaxDone == load.done         \* max_op_num: finished operations that are kept

Ops == 1 .. MaxOps
Tasks == UNION {DOMAIN w.plan \cup DOMAIN w.childPlan : w \in Workloads}
Status == {"inited", "doing", "done", "failed", "canceled"}

TasksOf(o) == IF parent[o] = 0 THEN Plan ELSE ChildPlan

TypeOK ==
    /\ ns \in {"down", "recovering", "running"}
    /\ task_vec \in Seq(Ops) /\ IsInjective(task_vec)
    /\ \A o \in Ops : mem[o] \in [status : Status \cup {"none"}, index : 0 .. Len(TasksOf(o)),
                                   front : Status, sent : BOOLEAN, checks : 0 .. CheckLimit + 1]
    /\ done_op_list \in Seq([op : Ops, status : {"done", "failed", "canceled"}])
    /\ pt \in [pc : {"run", "zk", "collect", "tablet", "erase"}, op : Ops \cup {0}]
    /\ pool \subseteq [op : Ops, task : Tasks,
                       pc : {"queued", "call", "accepted", "refused", "answered",
                             "first", "failed"}]
    /\ poll.pc \in {"idle", "answered"} /\ poll.stale \in BOOLEAN
    /\ \A o \in Ops : zk[o] \in [status : Status \cup {"none"}, index : 0 .. Len(TasksOf(o))]
    /\ op_index \in Ops \cup {0} /\ parent \in [Ops -> Ops \cup {0}]
    /\ net \subseteq Ops \X (Tasks \cup {0})
    /\ tablet \in [Ops \X Tasks -> {"none", "doing", "done", "failed", "canceled"}]
    /\ tablet_up \in BOOLEAN
    /\ ran \in [Ops \X Tasks -> Nat] /\ succeeded \subseteq Ops \X Tasks
    /\ begun \subseteq Ops /\ canceled \subseteq Ops /\ deleted \subseteq Ops
    /\ faults \in 0 .. MaxFaults

NoOp == [status |-> "none", index |-> 0, front |-> "inited", sent |-> FALSE, checks |-> 0]
NoNode == [status |-> "none", index |-> 0]
NoMap == [m \in Ops \X Tasks |-> "none"]
Idle == [pc |-> "idle", stale |-> FALSE, resp |-> NoMap]

Init ==
    /\ load \in Workloads
    /\ ns = "running" /\ task_vec = <<>> /\ mem = [o \in Ops |-> NoOp]
    /\ done_op_list = <<>>
    /\ pt = [pc |-> "run", op |-> 0] /\ pool = {} /\ poll = Idle
    /\ zk = [o \in Ops |-> NoNode] /\ op_index = 0 /\ parent = [o \in Ops |-> 0]
    /\ net = {} /\ tablet = NoMap /\ tablet_up = TRUE
    /\ ran = [m \in Ops \X Tasks |-> 0] /\ succeeded = {} /\ begun = {}
    /\ canceled = {} /\ deleted = {} /\ faults = 0

Fault(k) == k \in Faults /\ faults < MaxFaults /\ faults' = faults + 1

\* task_list_.empty()
NoTaskLeft(o) == mem[o].index = Len(TasksOf(o))
FrontTask(o) == mem[o].index + 1
FrontKind(o) == TasksOf(o)[FrontTask(o)]

\* The task of the pool function r is still the front task of its operation.
IsFront(r) == r.op \in Range(task_vec) /\ FrontTask(r.op) = r.task

\* mem after the pool function r has set the status of its task.
SetStatus(r, s) == IF IsFront(r) THEN [mem EXCEPT ![r.op].front = s] ELSE mem

Moved(r, pc) == (pool \ {r}) \cup {[r EXCEPT !.pc = pc]}

-----------------------------------------------------------------------------
(* Creating and canceling operations.                                      *)

\* The iterator of an operation of the list.
Position(o) == CHOOSE i \in DOMAIN task_vec : task_vec[i] = o

\* insert and erase of a list.
InsertBehind(s, i, e) == SubSeq(s, 1, i) \o <<e>> \o SubSeq(s, i + 1, Len(s))
Erase(s, i) == SubSeq(s, 1, i - 1) \o SubSeq(s, i + 1, Len(s))

\* AddOPData: at the end, or right behind the parent.
Insert(o, p) ==
    IF p = 0 THEN Append(task_vec, o) ELSE InsertBehind(task_vec, Position(p), o)

\* task_vec_ without the operation.
Erased(o) == IF o \in Range(task_vec) THEN Erase(task_vec, Position(o)) ELSE task_vec

NewOp == [NoOp EXCEPT !.status = "inited"]
NewNode == [NoNode EXCEPT !.status = "inited"]

Excess == IF Len(done_op_list) > MaxDone THEN Len(done_op_list) - MaxDone ELSE 0

\* DeleteDoneOP, when the node of operation o has just been created: the k oldest
\* are forgotten.  A failed one whose node cannot be deleted ends the loop early.
DeleteDoneOP(k, o) ==
    /\ done_op_list' = SubSeq(done_op_list, k + 1, Len(done_op_list))
    /\ zk' = [x \in Ops |->
                IF x = o THEN NewNode
                ELSE IF \E i \in 1 .. k : done_op_list[i] = [op |-> x, status |-> "failed"]
                THEN NoNode ELSE zk[x]]
    /\ IF k = Excess THEN UNCHANGED faults
       ELSE done_op_list[k + 1].status = "failed" /\ Fault("zk")

\* CreateOPData and AddOPData with INVALID_PARENT_ID, under mu_.
AddOPData ==
    /\ ns = "running" /\ op_index < load.ops
    /\ op_index' = op_index + 1
    /\ \/ /\ mem' = [mem EXCEPT ![op_index'] = NewOp]
          /\ task_vec' = Insert(op_index', 0)
          /\ \E k \in 0 .. Excess : DeleteDoneOP(k, op_index')
       \/ Fault("zk") /\ UNCHANGED <<zk, mem, task_vec, done_op_list>>
    /\ UNCHANGED <<load, ns, pt, pool, poll, parent, tabletVars, histVars>>

\* CancelOP: the operation and its tasks in memory, then the tablet.  Nothing is
\* written to ZooKeeper.  DropTable cancels the operations of its table this way.
CancelOP(o) ==
    /\ ns = "running" /\ o \in Range(task_vec)
    /\ mem[o].status \in {"inited", "doing"}
    /\ Fault("cancel")
    /\ mem' = [mem EXCEPT ![o].status = "canceled",
                          ![o].front = IF NoTaskLeft(o) THEN @ ELSE "canceled"]
    /\ canceled' = canceled \cup {o}
    /\ net' = IF tablet_up THEN net \cup {<<o, 0>>} ELSE net
    /\ UNCHANGED <<load, ns, task_vec, done_op_list, pt, pool, poll, zkVars, tablet,
                   tablet_up, ran, succeeded, begun, deleted>>

\* The operation, by its place in done_op_list_.
DoneAs(o, s) == \E i \in DOMAIN done_op_list : done_op_list[i] = [op |-> o, status |-> s]
InDoneList(o) == \E i \in DOMAIN done_op_list : done_op_list[i].op = o
DoneErased(o) ==
    IF InDoneList(o)
    THEN Erase(done_op_list, CHOOSE i \in DOMAIN done_op_list : done_op_list[i].op = o)
    ELSE done_op_list

\* Mutant: the node stays.
NodeDeletedNot(o) == zk

\* delete_zk_op, which succeeds if the node is there.
NodeDeleted(o) == [zk EXCEPT ![o] = NoNode]

\* DeleteOP with an op_id, under mu_: a finished operation, or one of the list
\* whatever its state.  DeleteOP with a status deletes several, one by one.
DeleteOP(o) ==
    /\ ns = "running" /\ Fault("delete")
    /\ InDoneList(o) \/ o \in Range(task_vec)
    /\ ~DoneAs(o, "done") => zk[o].status # "none"
    /\ zk' = IF DoneAs(o, "done") THEN zk ELSE NodeDeleted(o)
    /\ done_op_list' = DoneErased(o) /\ task_vec' = Erased(o)
    /\ mem' = [mem EXCEPT ![o] = NoOp]
    /\ deleted' = deleted \cup {o}
    /\ UNCHANGED <<load, ns, pt, pool, poll, op_index, parent, tabletVars, ran, succeeded,
                   begun, canceled>>

-----------------------------------------------------------------------------
(* The ProcessTask thread: start the front task, record a finished task,   *)
(* take finished operations off the list.                                  *)

Runnable(o) == ~NoTaskLeft(o) /\ mem[o].status \notin {"failed", "canceled"}

\* mem once the front task has been handed to the pool.
Begin(m, o) ==
    IF m[o].front = "inited" THEN [m EXCEPT ![o].front = "doing"] ELSE m

\* The first part of the loop, under mu_.
StartFront ==
    /\ ns = "running" /\ pt.pc = "run"
    /\ pt' = [pt EXCEPT !.pc = "zk"]
    /\ task_vec # <<>> /\ Runnable(Head(task_vec))
    /\ LET o == Head(task_vec) IN
       \/ /\ LET m == [mem EXCEPT ![o].status = "doing"] IN mem' = Begin(m, o)
          /\ zk' = IF mem[o].status = "inited" THEN [zk EXCEPT ![o].status = "doing"]
                   ELSE zk
          /\ pool' = IF mem[o].front = "inited"
                     THEN pool \cup {[op |-> o, task |-> FrontTask(o), pc |-> "queued"]}
                     ELSE pool
          /\ begun' = IF mem[o].front = "inited" THEN begun \cup {o} ELSE begun
          /\ UNCHANGED faults
       \/ /\ mem[o].status = "inited" /\ Fault("zk")
          /\ UNCHANGED <<mem, zk, pool, begun>>
    /\ UNCHANGED <<load, ns, task_vec, done_op_list, poll, op_index, parent, tabletVars,
                   ran, succeeded, canceled, deleted>>

NothingToStart ==
    /\ ns = "running" /\ pt.pc = "run"
    /\ task_vec # <<>> => ~Runnable(Head(task_vec))
    /\ pt' = [pt EXCEPT !.pc = IF task_vec = <<>> THEN "run" ELSE "zk"]
    /\ UNCHANGED <<load, ns, task_vec, mem, done_op_list, pool, poll, zkVars, tabletVars,
                   histVars, faults>>

\* op_data after its front task is popped.
Popped(m) ==
    [m EXCEPT !.index = @ + 1, !.sent = FALSE, !.checks = 0,
              !.front = IF m.status = "canceled" THEN "canceled" ELSE "inited"]

\* Mutant: a task counts as done when the tablet has accepted it.
FrontDoneSent(o) == ~NoTaskLeft(o) /\ (mem[o].front = "done" \/ mem[o].sent)

FrontDone(o) == ~NoTaskLeft(o) /\ mem[o].front = "done"

\* op_data after a failed write of its node: the task index is reverted.
Reverted(o) == mem[o]

\* UpdateZKTaskStatus, under mu_: the node first, then the list.
UpdateZKTaskStatus ==
    /\ ns = "running" /\ pt.pc = "zk"
    /\ pt' = [pt EXCEPT !.pc = "collect"]
    /\ IF task_vec = <<>> THEN UNCHANGED <<zk, mem, faults>> ELSE
       LET o == Head(task_vec) IN
       \/ /\ FrontDone(o)
          /\ zk' = [zk EXCEPT ![o] = [status |-> mem[o].status, index |-> mem[o].index + 1]]
          /\ mem' = [mem EXCEPT ![o] = Popped(mem[o])]
          /\ UNCHANGED faults
       \/ /\ FrontDone(o) /\ Fault("zk")
          /\ mem' = [mem EXCEPT ![o] = Reverted(o)] /\ UNCHANGED zk
       \/ /\ ~FrontDone(o)
          /\ UNCHANGED <<zk, mem, faults>>
    /\ UNCHANGED <<load, ns, task_vec, done_op_list, pool, poll, op_index, parent,
                   tabletVars, histVars>>

Failed(o) == ~NoTaskLeft(o) /\ mem[o].front = "failed"
Finished(o) == NoTaskLeft(o) \/ Failed(o) \/ mem[o].status = "canceled"

\* DeleteTask, first critical section: done_task_vec.
CollectDone ==
    /\ ns = "running" /\ pt.pc = "collect"
    /\ pt' = IF task_vec # <<>> /\ Finished(Head(task_vec)) THEN [pc |-> "tablet", op |-> Head(task_vec)]
             ELSE [pc |-> "run", op |-> 0]
    /\ UNCHANGED <<load, ns, task_vec, mem, done_op_list, pool, poll, zkVars, tabletVars,
                   histVars, faults>>

Forget(o) == [m \in DOMAIN tablet |-> IF m[1] = o THEN "none" ELSE tablet[m]]

\* DeleteTask: DeleteOPTask on the healthy tablets, without mu_.  If one fails
\* the operation stays for the next round.
DeleteOPTask ==
    /\ ns = "running" /\ pt.pc = "tablet"
    /\ \/ /\ tablet_up
          /\ tablet' = Forget(pt.op) /\ pt' = [pt EXCEPT !.pc = "erase"]
          /\ UNCHANGED faults
       \/ /\ tablet_up /\ Fault("timeout")
          /\ tablet' \in {tablet, Forget(pt.op)} /\ pt' = [pc |-> "run", op |-> 0]
       \/ /\ ~tablet_up
          /\ pt' \in {[pt EXCEPT !.pc = "erase"], [pc |-> "run", op |-> 0]}
          /\ UNCHANGED <<tablet, faults>>
    /\ UNCHANGED <<load, ns, task_vec, mem, done_op_list, pool, poll, zkVars, net,
                   tablet_up, histVars>>

\* Mutant: kDoing is not turned into kDone.
FinalStatusKept(o) == mem[o].status

FinalStatus(o) == IF mem[o].status = "doing" THEN "done" ELSE mem[o].status

\* Mutant: the status of the operation is looked at, not that of its front task.
EndsFailedByOp(o) == mem[o].status = "failed"

EndsFailed(o) == Failed(o)

\* DeleteTask(done_task_vec), second critical section.  A failed operation keeps
\* its node, marked kFailed (the write may fail); any other loses its node first.
DeleteTask ==
    /\ ns = "running" /\ pt.pc = "erase"
    /\ pt' = [pc |-> "run", op |-> 0]
    /\ LET o == pt.op IN
       IF o \notin Range(task_vec) THEN UNCHANGED <<zk, done_op_list, task_vec, mem, faults>>
       ELSE
       \/ /\ EndsFailed(o)
          /\ \/ /\ zk' = [zk EXCEPT ![o] = [status |-> "failed", index |-> mem[o].index]]
                /\ UNCHANGED faults
             \/ UNCHANGED zk /\ Fault("zk")
          /\ done_op_list' = Append(done_op_list, [op |-> o, status |-> "failed"])
          /\ task_vec' = Erased(o) /\ mem' = [mem EXCEPT ![o] = NoOp]
       \/ /\ ~EndsFailed(o)
          /\ zk' = [zk EXCEPT ![o] = NoNode]
          /\ done_op_list' = Append(done_op_list, [op |-> o, status |-> FinalStatus(o)])
          /\ task_vec' = Erased(o) /\ mem' = [mem EXCEPT ![o] = NoOp]
          /\ UNCHANGED faults
       \/ /\ ~EndsFailed(o) /\ Fault("zk")
          /\ UNCHANGED <<zk, done_op_list, task_vec, mem>>
    /\ UNCHANGED <<load, ns, pool, poll, op_index, parent, tabletVars, histVars>>

-----------------------------------------------------------------------------
(* The pool: WrapTaskFun for a task on the tablet, the task itself for one *)
(* that runs in the name server.                                           *)

Kind(r) == TasksOf(r.op)[r.task]

\* fun(): the request leaves.
SendRequest(r) ==
    /\ r \in pool /\ r.pc = "queued" /\ Kind(r) = "tablet"
    /\ net' = net \cup {<<r.op, r.task>>}
    /\ pool' = Moved(r, "call")
    /\ UNCHANGED <<load, ns, task_vec, mem, done_op_list, pt, poll, zkVars, tablet, tablet_up,
                   histVars, faults>>

\* The call is refused, or its request was lost with the tablet.
CallFailed(r) ==
    r.pc \in IF <<r.op, r.task>> \in net THEN {"refused"} ELSE {"refused", "call"}

\* fun() returned: false sets kFailed.  A call may time out although the tablet
\* has accepted, or will accept, the request.
CallReturns(r) ==
    /\ r \in pool
    /\ \/ r.pc = "accepted" /\ UNCHANGED <<mem, faults>>
       \/ /\ CallFailed(r)
          /\ mem' = SetStatus(r, "failed") /\ UNCHANGED faults
       \/ /\ r.pc \in {"call", "accepted"} /\ Fault("timeout")
          /\ mem' = SetStatus(r, "failed")
    /\ pool' = Moved(r, "answered")
    /\ UNCHANGED <<load, ns, task_vec, done_op_list, pt, poll, zkVars, tabletVars, histVars>>

\* Mutant: is_rpc_send is set before task_rpc_version_ changes.
WrapStepSwapped(r) == IF r.pc = "answered" THEN "is_rpc_send" ELSE "version"

\* The two writes that end WrapTaskFun, in this order.
WrapStep(r) == IF r.pc = "answered" THEN "version" ELSE "is_rpc_send"

\* task_rpc_version_.fetch_add(1): a poll that has begun will be dropped.
\* set_is_rpc_send(true): from now on the poll may find the task missing.
WrapTaskFun(r) ==
    /\ r \in pool /\ r.pc \in {"answered", "first"}
    /\ poll' = IF WrapStep(r) = "version" /\ poll.pc = "answered"
               THEN [poll EXCEPT !.stale = TRUE] ELSE poll
    /\ mem' = IF WrapStep(r) = "is_rpc_send" /\ IsFront(r)
              THEN [mem EXCEPT ![r.op].sent = TRUE] ELSE mem
    /\ pool' = IF r.pc = "answered" THEN Moved(r, "first") ELSE pool \ {r}
    /\ UNCHANGED <<load, ns, task_vec, done_op_list, pt, zkVars, tabletVars, histVars, faults>>

\* The work of a name server task: it sets kDone, or kFailed on an error path.
NsTask(r) ==
    /\ r \in pool /\ r.pc = "queued" /\ Kind(r) # "tablet"
    /\ ran' = [ran EXCEPT ![<<r.op, r.task>>] = @ + 1]
    /\ \/ /\ succeeded' = succeeded \cup {<<r.op, r.task>>}
          /\ mem' = SetStatus(r, "done") /\ pool' = pool \ {r}
          /\ UNCHANGED faults
       \/ /\ Fault("fail")
          /\ mem' = SetStatus(r, "failed")
          /\ pool' = IF Kind(r) = "normal" THEN Moved(r, "failed") ELSE pool \ {r}
          /\ UNCHANGED succeeded
    /\ UNCHANGED <<load, ns, task_vec, done_op_list, pt, poll, zkVars, tabletVars, begun, canceled, deleted>>

\* WrapNormalTaskFun goes on after an error and sets kDone.
WrapNormalTaskFun(r) ==
    /\ r \in pool /\ r.pc = "failed"
    /\ mem' = SetStatus(r, "done") /\ pool' = pool \ {r}
    /\ UNCHANGED <<load, ns, task_vec, done_op_list, pt, poll, zkVars, tabletVars, histVars, faults>>

\* RecoverEndpointTable when it adds a child operation; the result of adding it
\* is not looked at.  The node of a child whose parent is gone is created and left
\* there.  NsTask covers the runs that add none.
RecoverEndpointTable(r) ==
    /\ r \in pool /\ r.pc = "queued" /\ Kind(r) = "recover"
    /\ op_index < load.ops
    /\ op_index' = op_index + 1
    /\ parent' = [parent EXCEPT ![op_index'] = r.op]
    /\ IF r.op \in Range(task_vec)
       THEN /\ mem' = [SetStatus(r, "done") EXCEPT ![op_index'] = NewOp]
            /\ task_vec' = Insert(op_index', r.op)
            /\ \E k \in 0 .. Excess : DeleteDoneOP(k, op_index')
       ELSE /\ zk' = [zk EXCEPT ![op_index'] = NewNode]
            /\ UNCHANGED <<mem, task_vec, done_op_list, faults>>
    /\ pool' = pool \ {r}
    /\ ran' = [ran EXCEPT ![<<r.op, r.task>>] = @ + 1]
    /\ succeeded' = succeeded \cup {<<r.op, r.task>>}
    /\ UNCHANGED <<load, ns, pt, poll, tabletVars, begun, canceled, deleted>>

-----------------------------------------------------------------------------
(* The tablet.                                                             *)

\* A handler that begins with AddOPTask; the reply goes to the waiting call.
AddOPTask(m) ==
    /\ tablet_up /\ m \in net /\ m[2] # 0
    /\ net' = net \ {m}
    /\ tablet' = IF tablet[m] = "none" THEN [tablet EXCEPT ![m] = "doing"] ELSE tablet
    /\ ran' = IF tablet[m] = "none" THEN [ran EXCEPT ![m] = @ + 1] ELSE ran
    /\ pool' = {IF r.pc = "call" /\ <<r.op, r.task>> = m
                THEN [r EXCEPT !.pc = IF tablet[m] = "none" THEN "accepted" ELSE "refused"]
                ELSE r : r \in pool}
    /\ UNCHANGED <<load, ns, task_vec, mem, done_op_list, pt, poll, zkVars, tablet_up, succeeded,
                   begun, canceled, deleted, faults>>

\* TabletImpl::CancelOP.
TabletCancelOP(m) ==
    /\ tablet_up /\ m \in net /\ m[2] = 0
    /\ net' = net \ {m}
    /\ tablet' = [t \in DOMAIN tablet |->
                    IF t[1] = m[1] /\ tablet[t] = "doing" THEN "canceled" ELSE tablet[t]]
    /\ UNCHANGED <<load, nsVars, zkVars, tablet_up, histVars, faults>>

\* SetTaskStatus at the end of the work, whatever the status was.
TaskEnds(m) ==
    /\ tablet_up /\ tablet[m] \in {"doing", "canceled"}
    /\ \/ /\ tablet' = [tablet EXCEPT ![m] = "done"]
          /\ succeeded' = succeeded \cup {m} /\ UNCHANGED faults
       \/ /\ tablet' = [tablet EXCEPT ![m] = "failed"]
          /\ Fault("fail") /\ UNCHANGED succeeded
    /\ UNCHANGED <<load, nsVars, zkVars, net, tablet_up, ran, begun, canceled, deleted>>

TabletCrash ==
    /\ tablet_up /\ Fault("tablet")
    /\ tablet_up' = FALSE /\ tablet' = NoMap /\ net' = {}
    /\ UNCHANGED <<load, nsVars, zkVars, histVars>>

TabletStart ==
    /\ ~tablet_up /\ tablet_up' = TRUE
    /\ UNCHANGED <<load, nsVars, zkVars, net, tablet, histVars, faults>>

-----------------------------------------------------------------------------
(* UpdateTaskStatus.                                                       *)

WaitsForTablet == task_vec # <<>> /\ ~NoTaskLeft(Head(task_vec))
                  /\ mem[Head(task_vec)].front = "doing"
                  /\ FrontKind(Head(task_vec)) = "tablet"

\* The tablet has been offline longer than tablet_heartbeat_timeout.
FailOfflineTask ==
    /\ ns # "down" /\ ~tablet_up /\ WaitsForTablet
    /\ mem' = [mem EXCEPT ![Head(task_vec)].front = "failed"]
    /\ UNCHANGED <<load, ns, task_vec, done_op_list, pt, pool, poll, zkVars, tabletVars, histVars, faults>>

\* task_rpc_version_ is read and the tablet answers GetTaskStatus.
GetTaskStatus ==
    /\ ns # "down" /\ poll.pc = "idle" /\ tablet_up
    /\ poll' = [pc |-> "answered", stale |-> FALSE, resp |-> tablet]
    /\ UNCHANGED <<load, ns, task_vec, mem, done_op_list, pt, pool, zkVars, tabletVars, histVars, faults>>

\* Mutant: only the recovering name server finds a task missing.
MissingRecovered(o) == ns = "recovering"

\* Task::SetState: the tablet does not know the task.
Missing(o) ==
    ns = "recovering" \/ (mem[o].sent /\ mem[o].checks > CheckLimit)

\* Task::UpdateTaskStatus for the answer s.
Polled(o, s) ==
    CASE s # "none" -> s
      [] s = "none" /\ Missing(o) -> "failed"
      [] OTHER -> "doing"

\* UpdateTask on the answer, under mu_.  In Recover() this is UpdateTaskStatus(true),
\* and OnLocked goes on to set running_.
UpdateTask ==
    /\ ns # "down" /\ poll.pc = "answered"
    /\ poll' = Idle
    /\ mem' = IF ~poll.stale /\ WaitsForTablet
              THEN LET o == Head(task_vec) IN
                   [mem EXCEPT ![o].front = Polled(o, poll.resp[<<o, FrontTask(o)>>]),
                               ![o].checks = IF @ > CheckLimit THEN @ ELSE @ + 1]
              ELSE mem
    /\ ns' = "running"
    /\ UNCHANGED <<load, task_vec, done_op_list, pt, pool, zkVars, tabletVars, histVars, faults>>

\* GetTaskStatus fails in Recover(), or there is no healthy tablet to ask.
NoAnswer ==
    /\ ns = "recovering" /\ poll.pc = "idle"
    /\ IF tablet_up THEN Fault("timeout") ELSE UNCHANGED faults
    /\ ns' = "running"
    /\ UNCHANGED <<load, task_vec, mem, done_op_list, pt, pool, poll, zkVars, tabletVars, histVars>>

-----------------------------------------------------------------------------
(* Losing the leader and recovering.                                       *)

NsCrash ==
    /\ ns # "down" /\ Fault("ns")
    /\ ns' = "down" /\ task_vec' = <<>> /\ mem' = [o \in Ops |-> NoOp]
    /\ done_op_list' = <<>>
    /\ pt' = [pc |-> "run", op |-> 0] /\ pool' = {} /\ poll' = Idle
    /\ canceled' = {}
    /\ UNCHANGED <<load, zkVars, tabletVars, ran, succeeded, begun, deleted>>

\* Mutant: the recovered list is in another order.
BeforeReversed(a, b) == a > b

\* The order RecoverOPTask sorts a list by: parent_id, then op_id.
\* INVALID_PARENT_ID is the largest number.
Before(a, b) ==
    LET key(o) == IF parent[o] = 0 THEN MaxOps + 1 ELSE parent[o] IN
    key(a) < key(b) \/ (key(a) = key(b) /\ a < b)

\* RecoverOPTask does not know kDeployOP, the operation with a kCreateProcedure.
Supported(o) == "normal" \notin Range(TasksOf(o))

\* The nodes RecoverOPTask does not skip and for which SkipDoneTask succeeds.
Recoverable ==
    {o \in Ops : /\ Supported(o)
                 /\ \/ zk[o].status = "inited"
                    \/ zk[o].status \in {"doing", "failed"} /\ zk[o].index < Len(TasksOf(o))}

\* Mutant: SkipDoneTask executes every task again.
ResumedAgain(o) == "inited"

\* SkipDoneTask: the status of the front task.
Resumed(o) ==
    LET kind == TasksOf(o)[zk[o].index + 1] IN
    IF zk[o].status = "inited" \/ kind \in {"again", "recover"} THEN "inited" ELSE "doing"

\* Recover() up to UpdateTaskStatus(true).  An operation whose tasks cannot be
\* created again (a tablet is offline) is left out; its node stays.
RecoverOPTask(dropped) ==
    /\ ns = "down" /\ ns' = "recovering"
    /\ dropped \subseteq Recoverable
    /\ IF dropped = {} THEN UNCHANGED faults ELSE Fault("create")
    /\ LET all == Recoverable \ dropped
           live == {o \in all : zk[o].status # "failed"} IN
       /\ \E n \in 0 .. MaxOps :
             task_vec' \in {q \in [1 .. n -> live] :
                             /\ Range(q) = live
                             /\ \A i, j \in 1 .. n : i < j => Before(q[i], q[j])}
       /\ mem' = [o \in Ops |-> IF o \notin live THEN NoOp
                                 ELSE [NoOp EXCEPT !.status = zk[o].status,
                                                   !.index = zk[o].index,
                                                   !.front = Resumed(o)]]
       /\ \E n \in 0 .. MaxOps :
             done_op_list' \in {q \in [1 .. n -> [op : all \ live, status : {"failed"}]] :
                                 /\ {q[i].op : i \in 1 .. n} = all \ live
                                 /\ \A i, j \in 1 .. n : i < j => q[i].op < q[j].op}
    /\ UNCHANGED <<load, pt, pool, poll, zkVars, tabletVars, histVars>>

-----------------------------------------------------------------------------
ProcessTask ==
    \/ StartFront \/ NothingToStart \/ UpdateZKTaskStatus \/ CollectDone
    \/ DeleteOPTask \/ DeleteTask

PoolStep(r) ==
    \/ SendRequest(r) \/ CallReturns(r) \/ WrapTaskFun(r)
    \/ NsTask(r) \/ WrapNormalTaskFun(r) \/ RecoverEndpointTable(r)

Request(m) == AddOPTask(m) \/ TabletCancelOP(m)

Next ==
    \/ AddOPData \/ ProcessTask
    \/ \E o \in Ops : CancelOP(o) \/ DeleteOP(o)
    \/ \E r \in pool : PoolStep(r)
    \/ \E m \in net : Request(m)
    \/ \E m \in Ops \X Tasks : TaskEnds(m)
    \/ TabletCrash \/ TabletStart
    \/ FailOfflineTask \/ GetTaskStatus \/ UpdateTask \/ NoAnswer
    \/ NsCrash \/ \E dropped \in SUBSET Ops : RecoverOPTask(dropped)

Spec == Init /\ [][Next]_vars

\* ProcessTask loops, the pool and the tablet's pool run what they were given,
\* UpdateTaskStatus comes back every get_task_status_interval, and a standby or
\* restarted name server, or a restarted tablet, takes over.
Fairness ==
    /\ WF_vars(ProcessTask)
    /\ WF_vars(\E r \in pool : PoolStep(r))
    /\ WF_vars(\E m \in net : Request(m)) /\ WF_vars(\E m \in Ops \X Tasks : TaskEnds(m))
    /\ WF_vars(TabletStart) /\ WF_vars(GetTaskStatus) /\ WF_vars(UpdateTask)
    /\ WF_vars(\E dropped \in SUBSET Ops : RecoverOPTask(dropped)) /\ WF_vars(NoAnswer)

FairSpec == Spec /\ Fairness

-----------------------------------------------------------------------------
(* Properties.                                                             *)

\* The work of a task on a tablet is started at most once, however often the
\* name server or the tablet crashes and whichever calls time out: RecoverOPTask
\* takes such a task for running and never sends it again.
TabletTaskOnce ==
    \A o \in Ops : \A t \in DOMAIN TasksOf(o) :
        TasksOf(o)[t] = "tablet" => ran[<<o, t>>] <= 1

\* A task's work is started only when the work of all tasks before it in the
\* operation has succeeded, also across a change of the leading name server.
TasksInOrder ==
    \A o \in Ops : \A t \in DOMAIN TasksOf(o) :
        ran[<<o, t>>] > 0 => \A u \in 1 .. t - 1 : <<o, u>> \in succeeded

\* kDone "signifies the successful execution" (docs/en/maintain/status.md:21): an
\* operation is reported kDone only when the work of all its tasks has succeeded;
\* kCreateProcedure excepted, whose failure WrapNormalTaskFun overwrites.
DoneMeansSucceeded ==
    \A o \in Ops : DoneAs(o, "done") =>
        \A t \in DOMAIN TasksOf(o) : TasksOf(o)[t] = "normal" \/ <<o, t>> \in succeeded

\* Without any fault no task is ever marked kFailed: a poll whose answer is older
\* than the task's request cannot make a running task look missing.
NoSpuriousFailure ==
    faults = 0 => \A o \in Range(task_vec) : mem[o].front # "failed"

StartsTask(o) == \E r \in pool' \ pool : r.op = o /\ r.pc = "queued"

\* The list is worked off in order: no task of an operation is started once a later
\* operation (without a parent) has had a task started, also after a recovery.  It
\* takes three faults to break it: a failed task, the failed write of that failure,
\* and the loss of the name server, whose successor resumes the failed operation.
StartInOrder ==
    [][\A o \in Ops : StartsTask(o) /\ parent[o] = 0 =>
          \A b \in begun : parent[b] = 0 => b <= o]_vars

\* The operation will not be run any further by this name server.
Settled(o) ==
    \/ zk[o].status \in {"none", "failed", "canceled"}
    \/ InDoneList(o)
    \/ zk[o].index = Len(TasksOf(o))

\* RecoverOPTask has left the operation out; its node waits for the next leader.
LeftOut(o) == ns = "running" /\ o \notin Range(task_vec) /\ ~InDoneList(o)

\* The list waits for a task that was recovered as kDoing and that nothing will end.
\* It runs in the name server, and SkipDoneTask does not start it again (1072); or
\* the tablet does not know it, and is_rpc_send is false, so Task::SetState
\* (task.cc:91) never takes it for missing; or the tablet reports it canceled, and
\* DeleteTask (1818) looks for the cancellation of the operation, which was lost with
\* the name server that was told.
WaitsForNothing ==
    /\ ns = "running" /\ task_vec # <<>> /\ ~NoTaskLeft(Head(task_vec))
    /\ LET o == Head(task_vec)
           m == <<o, FrontTask(o)>>
       IN  /\ mem[o].status = "doing"
           /\ \/ mem[o].front = "canceled"
              \/ /\ mem[o].front = "doing" /\ ~mem[o].sent
                 /\ \A r \in pool : <<r.op, r.task>> # m
                 /\ WaitsForTablet => tablet_up /\ tablet[m] = "none" /\ m \notin net

\* Every operation reaches a final state, so it does not block its list for ever
\* ("you might need to run the showopstatus command multiple times to confirm the
\* final state", docs/en/maintain/status.md:15).  There are two ways to stay behind,
\* both after a change of the leader: RecoverOPTask leaves the operation out, as its
\* type is not supported or its tasks cannot be created again; and the list waits for
\* a recovered task that was the old leader's own, that the tablet never got or has
\* lost while the one poll of Recover() got no answer or was over, or that the tablet
\* had been told to cancel.
OpsFinish ==
    \A o \in Ops : (zk[o].status # "none") ~> (Settled(o) \/ LeftOut(o) \/ WaitsForNothing)

\* What the operator asked for stands.  "After cancellation, the state of the task
\* changes to kCanceled" (docs/en/maintain/cli.md:277): it keeps that state, and is
\* not reported kDone, whatever the ProcessTask thread, the task's function and a
\* poll do meanwhile, as long as this name server leads (the cancellation is not in
\* ZooKeeper).  A deleted operation stays away, also from the next leader.
DecisionsStand ==
    /\ \A o \in canceled :
          /\ o \in Range(task_vec) => mem[o].status = "canceled"
          /\ ~DoneAs(o, "done")
    /\ \A o \in deleted : o \notin Range(task_vec) /\ ~InDoneList(o)
=============================================================================
