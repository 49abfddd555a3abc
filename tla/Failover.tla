------------------------------ MODULE Failover ------------------------------
(***************************************************************************)
(* What happens to one partition when tablets go away and come back: the   *)
(* name server notices (UpdateTablets, OnTabletOffline, OnTabletOnline),   *)
(* elects a new leader (ChangeLeaderOP), takes dead replicas out           *)
(* (OfflineReplicaOP) and brings them back (RecoverTableOP and the four    *)
(* ReAddReplica operations it chooses from), while clients write and the   *)
(* leader replicates.  The operations of one partition run one after the   *)
(* other (see OpEngine); the name server itself stays up here.             *)
(***************************************************************************)
EXTENDS Integers, Sequences, FiniteSets

CONSTANTS
    Tablets,       \* the replicas of the partition
    First,         \* the leader the table was created with
    Saved,         \* entries every replica has in a snapshot at the start
    Faults,        \* what may go wrong: "crash", "session", "call"
    MaxFaults,     \* bound: number of faults
    MaxLog,        \* bound: entries in a log
    MaxTerm,       \* bound: SelectLeader is not started above this term_
    MaxOps,        \* bound: operations in the queue of the partition
    MaxCalls,      \* bound: leaders send no entry while so many handlers run
    LateWrites,    \* clients may still write to a leader that was replaced
    MissedEvents   \* a tablet may be back before the name server saw it go

ASSUME FailoverAssumption ==
    /\ First \in Tablets /\ Tablets # {First} /\ Saved \in Nat /\ Saved <= MaxLog
    /\ Faults \subseteq {"crash", "session", "call"}
    /\ MaxFaults \in Nat /\ MaxLog \in Nat /\ MaxTerm \in Nat /\ MaxOps \in Nat
    /\ MaxCalls \in Nat
    /\ LateWrites \in BOOLEAN /\ MissedEvents \in BOOLEAN

VARIABLES
    (* the tablets *)
    up,            \* the process runs
    zk,            \* the ephemeral node of the tablet: none, plain or startup
    tab,           \* the table in memory: table, leader, term, log, paused
    disk,          \* the snapshot on disk: log and the term in its MANIFEST
    node,          \* the ReplicateNodes of a leader: none, unmatched, an offset
    calls,         \* handlers of AppendEntries that are past the check of the term
    raced,         \* history: tables on which such a handler came too late
    (* the name server *)
    healthy,       \* tablets_: state_ is kHealthy
    offline_map,   \* offline_endpoint_map_: no entry, a new one, one past the timeout
    checker,       \* OnTabletOffline of the tablet: where it is
    online,        \* OnTabletOnline of the tablet: where it is
    meta,          \* table_info: is_leader and is_alive of each partition_meta
    term_offset,   \* table_info: the terms and the offsets they start at
    term_,         \* the term node in ZooKeeper
    ops,           \* the operations, the first one runs
    data,          \* what the running operation knows so far
    faults         \* faults so far

callVars == <<calls, raced>>
tabletVars == <<up, zk, tab, disk, node, callVars>>
watchVars == <<healthy, offline_map, checker, online>>
infoVars == <<meta, term_offset, term_>>
vars == <<tabletVars, watchVars, infoVars, ops, data, faults>>

-----------------------------------------------------------------------------
(* Types.                                                                  *)

None == "none"
NoNode == -2
Unmatched == -1

\* An entry is known by the term of the leader that wrote it; 0 is a hole.
Terms == 0 .. MaxTerm + 3
Offsets == 0 .. MaxLog
NoTable == [table |-> FALSE, leader |-> FALSE, term |-> 0, log |-> <<>>, paused |-> FALSE]
Empty == [log |-> <<>>, term |-> 0]

Task == [do : {"DelReplica", "UpdatePartitionStatus", "SelectLeader", "ChangeLeader",
               "UpdateLeaderInfo", "RecoverTable", "PauseSnapshot", "SendSnapshot",
               "DropTable", "LoadTable", "AddReplica", "RecoverSnapshot"},
         at : Tablets \cup {None}, ep : Tablets \cup {None}, alive : BOOLEAN]

\* A handler at the tablet to, for a leader or for nobody that waits in a
\* ReplicateNode: the term of the request, the index and the value of its entry (no
\* entry: 0), the term and the offset that the handler read.
Handler == [from : Tablets \cup {None}, to : Tablets, term : Terms, index : Offsets,
            entry : Terms, seen : Terms, offset : Offsets]

\* What SelectLeader and RecoverEndpointTable learn on their way.
NoData == [pc |-> "start", left |-> {}, best |-> {}, term |-> 0, offset |-> 0,
           has_table |-> FALSE, leader |-> None]
TypeOK ==
    /\ up \in [Tablets -> BOOLEAN]
    /\ zk \in [Tablets -> {"none", "plain", "startup"}]
    /\ \A t \in Tablets :
          /\ tab[t].table \in BOOLEAN /\ tab[t].leader \in BOOLEAN
          /\ tab[t].paused \in BOOLEAN /\ tab[t].term \in Terms
          /\ tab[t].log \in Seq(Terms) /\ Len(tab[t].log) <= MaxLog
          /\ disk[t].term \in Terms
          /\ disk[t].log \in Seq(Terms) /\ Len(disk[t].log) <= MaxLog
          /\ \A f \in Tablets : node[t][f] \in {NoNode, Unmatched} \cup Offsets
          /\ meta[t].leader \in BOOLEAN /\ meta[t].alive \in BOOLEAN
    /\ calls \subseteq Handler /\ raced \subseteq Tablets
    /\ healthy \in [Tablets -> BOOLEAN]
    /\ offline_map \in [Tablets -> {"no", "new", "late"}]
    /\ checker \in [Tablets -> {"idle", "check", "alive", "offline"}]
    /\ online \in [Tablets -> {"idle", "online", "startup", "offline", "recover", "erase"}]
    /\ term_ \in Terms
    /\ \A i \in DOMAIN term_offset :
          term_offset[i].term \in Terms /\ term_offset[i].offset \in 0 .. MaxLog + 1
    /\ Len(ops) <= MaxOps + 1
    /\ \A i \in DOMAIN ops :
          ops[i].followers \subseteq Tablets /\ ops[i].tasks \in Seq(Task) \ {<<>>}
    /\ data.pc \in {"start", "ask", "demote", "match"}
    /\ data.left \subseteq Tablets /\ data.best \subseteq Tablets
    /\ data.term \in Terms /\ data.offset \in Offsets
    /\ data.leader \in Tablets \cup {None}
    /\ faults \in 0 .. MaxFaults

\* CreateTable made the replicas with term 1; all of them are alive and have
\* the same log.
Init ==
    LET start == [i \in 1 .. Saved |-> 1] IN
    /\ up = [t \in Tablets |-> TRUE]
    /\ zk = [t \in Tablets |-> "startup"]
    /\ tab = [t \in Tablets |->
                [table |-> TRUE, leader |-> t = First,
                 term |-> IF t = First \/ Saved > 0 THEN 1 ELSE 0,
                 log |-> start, paused |-> FALSE]]
    /\ disk = [t \in Tablets |-> IF Saved = 0 THEN Empty ELSE [log |-> start, term |-> 1]]
    /\ node = [t \in Tablets |-> [f \in Tablets |->
                IF t = First /\ f # First
                THEN IF Saved = 0 THEN Unmatched ELSE Saved ELSE NoNode]]
    /\ calls = {} /\ raced = {}
    /\ healthy = [t \in Tablets |-> TRUE]
    /\ offline_map = [t \in Tablets |-> "no"]
    /\ checker = [t \in Tablets |-> "idle"]
    /\ online = [t \in Tablets |-> "idle"]
    /\ meta = [t \in Tablets |-> [leader |-> t = First, alive |-> TRUE]]
    /\ term_offset = <<[term |-> 1, offset |-> 0]>>
    /\ term_ = 1
    /\ ops = <<>> /\ data = NoData
    /\ faults = 0

\* The first task of the running operation is of this kind.
Running(do) == ops # <<>> /\ Head(Head(ops).tasks).do = do

Fault(kind) == kind \in Faults /\ faults < MaxFaults /\ faults' = faults + 1

-----------------------------------------------------------------------------
(* The tablets: writes, replication, snapshots.                            *)

\* A client writes to the tablet it takes for the leader.
Put(t) ==
    /\ up[t] /\ tab[t].table /\ tab[t].leader
    /\ LateWrites \/ (meta[t].leader /\ meta[t].alive)
    /\ Len(tab[t].log) < MaxLog
    /\ tab' = [tab EXCEPT ![t].log = Append(@, tab[t].term)]
    /\ UNCHANGED <<up, zk, disk, node, callVars, watchVars, infoVars, ops, data, faults>>

AcceptsAnyTerm(f, term) == up[f] /\ tab[f].table /\ ~tab[f].leader

\* AppendEntries lets a request of this term through.
Accepts(f, term) ==
    up[f] /\ tab[f].table /\ ~tab[f].leader /\ term >= tab[f].term

\* The handler has checked the request and read its own term and offset.
Checked(from, f, term, index, entry) ==
    /\ Accepts(f, term)
    /\ calls' = calls \cup {[from |-> from, to |-> f, term |-> term, index |-> index,
                             entry |-> entry, seen |-> tab[f].term,
                             offset |-> Len(tab[f].log)]}

\* A ReplicateNode sends one request at a time, and is stopped between two.
Quiet(l, f) == \A c \in calls : ~(c.from = l /\ c.to = f)

Sends(l, f) ==
    /\ up[l] /\ tab[l].leader /\ node[l][f] # NoNode
    /\ Quiet(l, f)
    /\ Cardinality(calls) < MaxCalls

\* A request without entries asks for the offset of the replica.
MatchLogOffset(l, f) ==
    /\ Sends(l, f) /\ node[l][f] = Unmatched
    /\ Checked(l, f, tab[l].term, 0, 0)
    /\ UNCHANGED <<up, zk, tab, disk, node, raced, watchVars, infoVars, ops, data, faults>>

\* The next entry after the last acknowledged one.
SyncData(l, f) ==
    LET k == node[l][f] + 1 IN
    /\ Sends(l, f) /\ node[l][f] # Unmatched
    /\ k <= Len(tab[l].log)
    /\ Checked(l, f, tab[l].term, k, tab[l].log[k])
    /\ UNCHANGED <<up, zk, tab, disk, node, raced, watchVars, infoVars, ops, data, faults>>

\* The rest of the handler takes no lock: with entries it skips what it has and
\* writes the rest, wherever its log ends by now; without it takes the term if that
\* was newer than the one it read, over whatever was stored since.
Handled(c) ==
    LET own == tab[c.to].log IN
    IF c.index = 0
    THEN IF c.term > c.seen THEN [tab EXCEPT ![c.to].term = c.term] ELSE tab
    ELSE IF c.index <= Len(own) THEN tab
    ELSE [tab EXCEPT ![c.to].log = [i \in 1 .. c.index |->
             IF i <= Len(own) THEN own[i] ELSE IF i = c.index THEN c.entry ELSE 0]]

\* What the handler read is not so any more.
Late(c) ==
    \/ tab[c.to].term # c.seen
    \/ c.index = 0 /\ Len(tab[c.to].log) # c.offset

Finish(c) ==
    /\ calls' = calls \ {c}
    /\ tab' = Handled(c)
    /\ raced' = IF Late(c) THEN raced \cup {c.to} ELSE raced

\* The leader that sent the request still waits for the answer.
Waits(c) ==
    /\ c.from # None /\ up[c.from] /\ tab[c.from].leader
    /\ node[c.from][c.to] = IF c.index = 0 THEN Unmatched ELSE c.index - 1

\* SelectLeader waits for the answer.
Asked(c) ==
    /\ Running("SelectLeader") /\ data.pc = "ask"
    /\ c.from = None /\ c.term = data.term /\ c.to \in data.left

AppendEntries(c) ==
    /\ ~Asked(c) /\ Finish(c)
    /\ node' = IF Waits(c)
               THEN [node EXCEPT ![c.from][c.to] = IF c.index = 0 THEN c.offset ELSE c.index]
               ELSE node
    /\ UNCHANGED <<up, zk, disk, watchVars, infoVars, ops, data, faults>>

\* The snapshot keeps the log up to its first hole, and the term of the last
\* entry that it keeps.
MakeSnapshot(t) ==
    LET log == tab[t].log IN
    /\ up[t] /\ tab[t].table /\ ~tab[t].paused
    /\ \E n \in Len(disk[t].log) + 1 .. Len(log) :
          /\ \A i \in 1 .. n : log[i] # 0
          /\ n < Len(log) => log[n + 1] = 0
          /\ disk' = [disk EXCEPT ![t] = [log |-> SubSeq(log, 1, n), term |-> log[n]]]
    /\ UNCHANGED <<up, zk, tab, node, callVars, watchVars, infoVars, ops, data, faults>>

\* A table goes away, and what its handlers do is lost with it; requests that its
\* ReplicateNodes sent are still handled.
TableGone(t) ==
    /\ tab' = [tab EXCEPT ![t] = NoTable]
    /\ node' = [node EXCEPT ![t] = [f \in Tablets |-> NoNode]]
    /\ calls' = {[c EXCEPT !.from = IF @ = t THEN None ELSE @] : c \in {d \in calls : d.to # t}}
    /\ raced' = raced \ {t}

-----------------------------------------------------------------------------
(* The tablets: processes and sessions.                                    *)

Crash(t) ==
    /\ up[t] /\ Fault("crash")
    /\ up' = [up EXCEPT ![t] = FALSE]
    /\ TableGone(t)
    /\ UNCHANGED <<zk, disk, watchVars, infoVars, ops, data>>

\* The session ends because the process did, or because it could not be kept.
SessionExpires(t) ==
    /\ zk[t] # "none"
    /\ IF up[t] THEN Fault("session") ELSE UNCHANGED faults
    /\ zk' = [zk EXCEPT ![t] = "none"]
    /\ UNCHANGED <<up, tab, disk, node, callVars, watchVars, infoVars, ops, data>>

Noticed(t) == MissedEvents \/ ~healthy[t]

\* RegisterZK of a new process: the node must be gone, its value says startup.
Restart(t) ==
    /\ ~up[t] /\ zk[t] = "none" /\ Noticed(t)
    /\ up' = [up EXCEPT ![t] = TRUE]
    /\ zk' = [zk EXCEPT ![t] = "startup"]
    /\ UNCHANGED <<tab, disk, node, callVars, watchVars, infoVars, ops, data, faults>>

\* CheckZkClient reconnects and registers again, without startup.
CheckZkClient(t) ==
    /\ up[t] /\ zk[t] = "none" /\ Noticed(t)
    /\ zk' = [zk EXCEPT ![t] = "plain"]
    /\ UNCHANGED <<up, tab, disk, node, callVars, watchVars, infoVars, ops, data, faults>>

-----------------------------------------------------------------------------
(* The name server watches the tablets.                                    *)

\* The children of /nodes changed.  A tablet that came back gets an
\* OnTabletOnline, one that went an entry in offline_endpoint_map_ and, with a
\* new entry, an OnTabletOffline.
UpdateTablets ==
    LET now == [t \in Tablets |-> zk[t] # "none"]
        back == {t \in Tablets : now[t] /\ ~healthy[t]}
        gone == {t \in Tablets : ~now[t] /\ healthy[t]} IN
    /\ now # healthy
    /\ \A t \in back : online[t] = "idle"
    /\ \A t \in gone : offline_map[t] = "no" => checker[t] = "idle"
    /\ healthy' = now
    /\ online' = [t \in Tablets |-> IF t \in back THEN "online" ELSE online[t]]
    /\ offline_map' = [t \in Tablets |-> IF t \in gone THEN "new" ELSE offline_map[t]]
    /\ checker' = [t \in Tablets |->
                     IF t \in gone /\ offline_map[t] = "no" THEN "check" ELSE checker[t]]
    /\ UNCHANGED <<tabletVars, infoVars, ops, data, faults>>

\* tablet_heartbeat_timeout passes.
HeartbeatTimeout(t) ==
    /\ offline_map[t] = "new"
    /\ offline_map' = [offline_map EXCEPT ![t] = "late"]
    /\ UNCHANGED <<tabletVars, healthy, checker, online, infoVars, ops, data, faults>>

\* The leaders table_info names that are alive: GetLeader.
AliveLeaders == {t \in Tablets : meta[t].leader /\ meta[t].alive}
GetLeader == IF AliveLeaders = {} THEN None ELSE CHOOSE t \in AliveLeaders : TRUE

\* The last replica that is alive stays so.
UpdateEndpointTableAlive(t) ==
    meta' = IF Cardinality({u \in Tablets : meta[u].alive}) = 1 THEN meta
            ELSE [meta EXCEPT ![t].alive = FALSE]

-----------------------------------------------------------------------------
(* The operations that the name server creates.                            *)

\* CreateTask gives no task for a tablet that is not healthy.
Do(do, at, ep, alive) == [do |-> do, at |-> at, ep |-> ep, alive |-> alive]
Op(tasks, followers) == [tasks |-> tasks, followers |-> followers]

HealthyLeader(e) == GetLeader \notin {None, e} /\ healthy[GetLeader]

CreateOfflineReplicaOP(e) ==
    IF ~HealthyLeader(e) THEN <<>>
    ELSE <<Op(<<Do("DelReplica", GetLeader, e, FALSE),
                Do("UpdatePartitionStatus", None, e, FALSE)>>, {})>>

CreateChangeLeaderOP ==
    LET followers == {t \in Tablets : meta[t].alive /\ ~meta[t].leader /\ healthy[t]} IN
    IF followers = {} THEN <<>>
    ELSE <<Op(<<Do("SelectLeader", None, None, FALSE), Do("ChangeLeader", None, None, FALSE),
                Do("UpdateLeaderInfo", None, None, FALSE)>>, followers)>>

\* A former leader is not attached to the new one: no DelReplica.
CreateRecoverTableOP(e) ==
    LET recover == Do("RecoverTable", None, e, FALSE) IN
    IF meta[e].leader THEN <<Op(<<recover>>, {})>>
    ELSE IF ~HealthyLeader(e) THEN <<>>
    ELSE <<Op(<<Do("DelReplica", GetLeader, e, FALSE), recover>>, {})>>

\* The replica e comes back: its table is dropped first, it gets the leader's
\* snapshot, it loads its table, it is attached to the leader.  The task
\* CheckBinlogSyncProgress, which waits until less than offset_delta entries are
\* missing, is left out: no log here is as long as that.
ReAdd(e, drop, send, load) ==
    LET l == GetLeader
        Only(b, task) == IF b THEN <<task>> ELSE <<>> IN
    IF ~HealthyLeader(e) \/ ~healthy[e] THEN <<>>
    ELSE <<Op(Only(load, Do("PauseSnapshot", l, None, FALSE))
              \o Only(drop, Do("DropTable", None, e, FALSE))
              \o Only(send, Do("SendSnapshot", l, e, FALSE))
              \o Only(load, Do("LoadTable", None, e, FALSE))
              \o <<Do("AddReplica", l, e, FALSE)>>
              \o Only(load, Do("RecoverSnapshot", l, None, FALSE))
              \o <<Do("UpdatePartitionStatus", None, e, TRUE)>>, {})>>

CreateReAddReplicaOP(e) == ReAdd(e, FALSE, TRUE, TRUE)
CreateReAddReplicaWithDropOP(e) == ReAdd(e, TRUE, TRUE, TRUE)
CreateReAddReplicaNoSendOP(e) == ReAdd(e, FALSE, FALSE, TRUE)
CreateReAddReplicaSimplifyOP(e) == ReAdd(e, FALSE, FALSE, FALSE)

\* OfflineEndpointInternal: the partition lost its leader, or a follower.
OfflineEndpoint(t) ==
    IF meta[t].leader \/ AliveLeaders = {}
    THEN IF AliveLeaders \subseteq {t} THEN CreateChangeLeaderOP ELSE <<>>
    ELSE CreateOfflineReplicaOP(t)

\* RecoverEndpointInternal.
RecoverEndpoint(t) == IF meta[t].alive THEN <<>> ELSE CreateRecoverTableOP(t)

AddOPData(new) == Len(ops) + Len(new) <= MaxOps /\ ops' = ops \o new

-----------------------------------------------------------------------------
(* OnTabletOffline and OnTabletOnline.  They take the lock several times.  *)

\* It stays scheduled until the timeout; it does nothing if the tablet is back.
OnTabletOffline(t) ==
    /\ checker[t] = "check"
    /\ \/ /\ offline_map[t] = "no" \/ healthy[t]
          /\ checker' = [checker EXCEPT ![t] = "idle"]
       \/ /\ offline_map[t] = "late" /\ ~healthy[t]
          /\ checker' = [checker EXCEPT ![t] = "alive"]
    /\ UNCHANGED <<tabletVars, healthy, offline_map, online, infoVars, ops, data, faults>>

\* What it decided is carried out later, under the lock again, without a look
\* at the state of the tablet.
OfflineAfterTimeout(t) ==
    /\ \/ /\ checker[t] = "alive"
          /\ checker' = [checker EXCEPT ![t] = "offline"]
          /\ UpdateEndpointTableAlive(t)
          /\ UNCHANGED ops
       \/ /\ checker[t] = "offline"
          /\ checker' = [checker EXCEPT ![t] = "idle"]
          /\ AddOPData(OfflineEndpoint(t))
          /\ UNCHANGED meta
    /\ UNCHANGED <<tabletVars, healthy, offline_map, online, term_offset, term_,
                   data, faults>>

\* The entry in offline_endpoint_map_ is dropped without any recovery.
NeedNotRecoverEarly(t) == zk[t] = "none" \/ offline_map[t] \in {"no", "new"}
NeedNotRecover(t) ==
    \/ offline_map[t] = "no" \/ zk[t] = "none"
    \/ zk[t] = "plain" /\ offline_map[t] = "new"

\* A new process starts without tables, so it is taken offline first; a tablet
\* that only lost its session is recovered if it was away for long.
OnTabletOnline(t) ==
    /\ online[t] = "online"
    /\ IF NeedNotRecover(t)
         THEN /\ offline_map' = [offline_map EXCEPT ![t] = "no"]
              /\ online' = [online EXCEPT ![t] = "idle"]
         ELSE /\ online' = [online EXCEPT ![t] = IF zk[t] = "startup" THEN "startup" ELSE "recover"]
              /\ UNCHANGED offline_map
    /\ UNCHANGED <<tabletVars, healthy, checker, infoVars, ops, data, faults>>

OfflineAtStartup(t) ==
    /\ \/ /\ online[t] = "startup"
          /\ online' = [online EXCEPT ![t] = "offline"]
          /\ UpdateEndpointTableAlive(t)
          /\ UNCHANGED ops
       \/ /\ online[t] = "offline"
          /\ online' = [online EXCEPT ![t] = "recover"]
          /\ AddOPData(OfflineEndpoint(t))
          /\ UNCHANGED meta
    /\ UNCHANGED <<tabletVars, healthy, offline_map, checker, term_offset, term_,
                   data, faults>>

RecoverOnline(t) ==
    /\ \/ /\ online[t] = "recover"
          /\ online' = [online EXCEPT ![t] = "erase"]
          /\ AddOPData(RecoverEndpoint(t))
          /\ UNCHANGED offline_map
       \/ /\ online[t] = "erase"
          /\ online' = [online EXCEPT ![t] = "idle"]
          /\ offline_map' = [offline_map EXCEPT ![t] = "no"]
          /\ UNCHANGED ops
    /\ UNCHANGED <<tabletVars, healthy, checker, infoVars, data, faults>>

-----------------------------------------------------------------------------
(* The tasks.  An operation ends with its last task or with the first one  *)
(* that fails.                                                             *)

Current == Head(Head(ops).tasks)
LastTaskLate == Head(ops).tasks = <<>>
LastTask == Len(Head(ops).tasks) = 1

\* The rest of the running operation, after it the operations that wait; an
\* operation that a task creates as a child runs before them.
Rest(children) ==
    (IF LastTask THEN <<>> ELSE <<[Head(ops) EXCEPT !.tasks = Tail(@)]>>)
    \o children \o Tail(ops)

Done(d, children) ==
    /\ ops' = Rest(children)
    /\ data' = IF LastTask THEN NoData ELSE d
    /\ UNCHANGED faults

Failed == ops' = Tail(ops) /\ data' = NoData

\* A call that had its effect is answered, or the answer is lost.
Answered == Done(data, <<>>) \/ (Fault("call") /\ Failed)

\* A call to the tablet t: what it does, or an error that fails the operation.
Call(t, ok, effect) ==
    IF up[t] /\ ok THEN effect /\ Answered
    ELSE Failed /\ UNCHANGED <<tab, disk, node, callVars, faults>>

\* The call does not arrive.
CallLost ==
    /\ ops # <<>> /\ Current.do \notin {"UpdatePartitionStatus", "UpdateLeaderInfo"}
    /\ Current.do = "SelectLeader" => data.pc = "ask"
    /\ Fault("call") /\ Failed
    /\ UNCHANGED <<tabletVars, watchVars, infoVars>>

TabletTask(do, step) ==
    /\ Running(do)
    /\ step
    /\ UNCHANGED <<up, zk, watchVars, infoVars>>

DelReplica ==
    LET l == Current.at IN
    TabletTask("DelReplica",
        /\ Quiet(l, Current.ep)
        /\ Call(l, tab[l].table /\ tab[l].leader,
                /\ node' = [node EXCEPT ![l][Current.ep] = NoNode]
                /\ UNCHANGED <<tab, disk, callVars>>))

\* A node that is there already is kept.
AddReplica ==
    LET l == Current.at IN
    TabletTask("AddReplica",
        Call(l, tab[l].table /\ tab[l].leader,
             /\ node' = [node EXCEPT ![l][Current.ep] = IF @ = NoNode THEN Unmatched ELSE @]
             /\ UNCHANGED <<tab, disk, callVars>>))

PauseSnapshot ==
    LET l == Current.at IN
    TabletTask("PauseSnapshot",
        Call(l, tab[l].table,
             tab' = [tab EXCEPT ![l].paused = TRUE] /\ UNCHANGED <<disk, node, callVars>>))

RecoverSnapshot ==
    LET l == Current.at IN
    TabletTask("RecoverSnapshot",
        Call(l, tab[l].table,
             tab' = [tab EXCEPT ![l].paused = FALSE] /\ UNCHANGED <<disk, node, callVars>>))

\* Without a MANIFEST on the leader nothing is sent and the task is done.
SendSnapshot ==
    LET l == Current.at
        e == Current.ep IN
    TabletTask("SendSnapshot",
        Call(l, tab[l].table /\ tab[l].leader /\ tab[l].paused /\ up[e],
             /\ disk' = IF disk[l].log = <<>> THEN disk ELSE [disk EXCEPT ![e] = disk[l]]
             /\ UNCHANGED <<tab, node, callVars>>))

\* DeleteTableInternal moves the directory of the partition away.
DropTable ==
    LET e == Current.ep IN
    TabletTask("DropTable",
        Call(e, tab[e].table,
             TableGone(e) /\ disk' = [disk EXCEPT ![e] = Empty]))

\* The table starts from the snapshot on disk, as a follower without a term.
LoadTable ==
    LET e == Current.ep IN
    TabletTask("LoadTable",
        Call(e, ~tab[e].table,
             /\ tab' = [tab EXCEPT ![e] = [NoTable EXCEPT !.table = TRUE, !.log = disk[e].log]]
             /\ UNCHANGED <<disk, node, callVars>>))

NewStatusKeepsRole == [meta EXCEPT ![Current.ep].alive = Current.alive]
NewStatus == [meta EXCEPT ![Current.ep] = [leader |-> FALSE, alive |-> Current.alive]]

UpdatePartitionStatus ==
    /\ Running("UpdatePartitionStatus")
    /\ meta' = NewStatus
    /\ Done(NoData, <<>>)
    /\ UNCHANGED <<tabletVars, watchVars, term_offset, term_>>

-----------------------------------------------------------------------------
(* ChangeLeaderOP.                                                         *)

Followers == Head(ops).followers

TermTakenTwice == term_
TermTaken == term_ + 2

\* The new terms are taken before the followers are looked up.
SelectLeader ==
    /\ Running("SelectLeader") /\ data.pc = "start"
    /\ IF AliveLeaders # {}
         THEN Failed /\ UNCHANGED term_
         ELSE /\ term_ < MaxTerm
              /\ term_' = TermTaken
              /\ IF \A f \in Followers : healthy[f]
                   THEN /\ data' = [NoData EXCEPT !.pc = "ask", !.left = Followers,
                                                  !.term = term_ + 1]
                        /\ UNCHANGED ops
                   ELSE Failed
    /\ UNCHANGED <<tabletVars, watchVars, meta, term_offset, faults>>

\* FollowOfNoOne is a request without entries.  The followers are asked one after
\* the other; a call whose tablet died is asked again, and fails.
FollowOfNoOne(f) ==
    /\ Running("SelectLeader") /\ data.pc = "ask" /\ f \in data.left
    /\ \A c \in calls : ~Asked(c)
    /\ \/ Checked(None, f, data.term, 0, 0) /\ UNCHANGED <<ops, data>>
       \/ ~Accepts(f, data.term) /\ Failed /\ UNCHANGED calls
    /\ UNCHANGED <<up, zk, tab, disk, node, raced, watchVars, infoVars, faults>>

\* The follower now refuses the old leader, and has told its offset.  A leader is
\* drawn from those with the largest one.
OffsetAnswered(c) ==
    LET f == c.to
        first == data.best = {} \/ c.offset > data.offset
        max == IF first THEN c.offset ELSE data.offset
        best == IF first THEN {f}
                ELSE IF c.offset = data.offset THEN data.best \cup {f} ELSE data.best IN
    /\ Asked(c) /\ Finish(c)
    /\ \/ /\ data.left # {f}
          /\ data' = [data EXCEPT !.left = @ \ {f}, !.best = best, !.offset = max]
          /\ UNCHANGED <<ops, faults>>
       \/ /\ data.left = {f}
          /\ \E l \in best :
                Done([NoData EXCEPT !.leader = l, !.offset = max, !.term = data.term + 1], <<>>)
    /\ UNCHANGED <<up, zk, disk, node, watchVars, infoVars>>

ChangeLeader ==
    LET l == data.leader IN
    TabletTask("ChangeLeader",
        Call(l, healthy[l] /\ tab[l].table /\ ~tab[l].leader,
             /\ tab' = [tab EXCEPT ![l].leader = TRUE, ![l].term = data.term]
             /\ node' = [node EXCEPT ![l] = [f \in Tablets |->
                           IF f \in Followers \ {l} /\ @[f] = NoNode THEN Unmatched ELSE @[f]]]
             /\ UNCHANGED <<disk, callVars>>))

TermStart == [term |-> data.term, offset |-> data.offset + 1]

\* The old leader is not alive any more; a new leader that is already one that
\* is alive is not found.
UpdateLeaderInfo ==
    LET l == data.leader
        old == [t \in Tablets |-> IF t \in AliveLeaders THEN [meta[t] EXCEPT !.alive = FALSE]
                                  ELSE meta[t]] IN
    /\ Running("UpdateLeaderInfo")
    /\ IF l \in AliveLeaders
         THEN meta' = old /\ Failed /\ UNCHANGED <<term_offset, faults>>
         ELSE /\ meta' = [old EXCEPT ![l].leader = TRUE]
              /\ term_offset' = Append(term_offset, TermStart)
              /\ Done(NoData, <<>>)
    /\ UNCHANGED <<tabletVars, watchVars, term_>>

-----------------------------------------------------------------------------
(* RecoverTableOP: RecoverEndpointTable.                                   *)

MatchTermOffsetLate(has_table, term, offset) ==
    \E i \in DOMAIN term_offset :
        /\ term_offset[i].term = term
        /\ i < Len(term_offset) => term_offset[i + 1].offset >= offset

\* Whether a replica that stands at offset in this term can go on from there.
MatchTermOffset(has_table, term, offset) ==
    /\ has_table \/ offset # 0
    /\ \E i \in DOMAIN term_offset :
          /\ term_offset[i].term = term
          /\ IF term_offset[i].offset > offset
             THEN term_offset[Len(term_offset)].offset = offset + 1
             ELSE i < Len(term_offset) => term_offset[i + 1].offset > offset

\* GetTermPair: what the tablet has in memory or, without a table, on disk.
GetTermPair ==
    LET e == Current.ep
        t == tab[e] IN
    /\ Running("RecoverTable") /\ data.pc = "start"
    /\ IF meta[e].alive
       THEN \/ Done(NoData, <<>>)
            \/ (\E l \in AliveLeaders : ~healthy[l]) /\ Failed /\ UNCHANGED faults
       ELSE IF AliveLeaders = {} \/ ~healthy[e] \/ ~up[e] \/ ~healthy[GetLeader]
       THEN Failed /\ UNCHANGED faults
       ELSE /\ data' = [NoData EXCEPT !.leader = GetLeader, !.has_table = t.table,
                  !.term = IF t.table THEN t.term ELSE disk[e].term,
                  !.offset = Len(IF t.table THEN t.log ELSE disk[e].log),
                  !.pc = IF t.table /\ ~t.leader THEN "match" ELSE "demote"]
            /\ UNCHANGED <<ops, faults>>
    /\ UNCHANGED <<tabletVars, watchVars, infoVars>>

\* A former leader becomes a follower.  Without a table the old binlog goes.
Demote ==
    LET e == Current.ep IN
    /\ Running("RecoverTable") /\ data.pc = "demote"
    /\ \A f \in Tablets : Quiet(e, f)
    /\ IF up[e] /\ (data.has_table => tab[e].table)
         THEN /\ IF data.has_table /\ tab[e].leader
                   THEN /\ tab' = [tab EXCEPT ![e].leader = FALSE]
                        /\ node' = [node EXCEPT ![e] = [f \in Tablets |-> NoNode]]
                   ELSE UNCHANGED <<tab, node>>
              /\ \/ data' = [data EXCEPT !.pc = "match"] /\ UNCHANGED <<ops, faults>>
                 \/ Fault("call") /\ Failed
         ELSE Failed /\ UNCHANGED <<tab, node, faults>>
    /\ UNCHANGED <<up, zk, disk, callVars, watchVars, infoVars>>

\* The offset against the leader's snapshot decides how the replica comes back.
ChooseReAdd ==
    LET e == Current.ep
        l == data.leader
        matched == /\ MatchTermOffset(data.has_table, data.term, data.offset)
                   /\ data.offset >= Len(disk[l].log) IN
    /\ Running("RecoverTable") /\ data.pc = "match"
    /\ IF up[l]
         THEN Done(NoData,
                IF data.has_table
                THEN IF matched THEN CreateReAddReplicaSimplifyOP(e)
                                ELSE CreateReAddReplicaWithDropOP(e)
                ELSE IF matched THEN CreateReAddReplicaNoSendOP(e)
                                ELSE CreateReAddReplicaOP(e))
         ELSE Failed /\ UNCHANGED faults
    /\ UNCHANGED <<tabletVars, watchVars, infoVars>>

OpStep ==
    \/ DelReplica \/ AddReplica \/ PauseSnapshot \/ RecoverSnapshot \/ SendSnapshot
    \/ DropTable \/ LoadTable \/ UpdatePartitionStatus
    \/ SelectLeader \/ (\E f \in Tablets : FollowOfNoOne(f)) \/ ChangeLeader \/ UpdateLeaderInfo
    \/ GetTermPair \/ Demote \/ ChooseReAdd

Next ==
    \/ \E t \in Tablets :
          \/ Put(t) \/ MakeSnapshot(t)
          \/ Crash(t) \/ SessionExpires(t) \/ Restart(t) \/ CheckZkClient(t)
          \/ HeartbeatTimeout(t)
          \/ OnTabletOffline(t) \/ OfflineAfterTimeout(t)
          \/ OnTabletOnline(t) \/ OfflineAtStartup(t) \/ RecoverOnline(t)
    \/ \E l, f \in Tablets : MatchLogOffset(l, f) \/ SyncData(l, f)
    \/ \E c \in calls : AppendEntries(c) \/ OffsetAnswered(c)
    \/ UpdateTablets
    \/ OpStep \/ CallLost

Spec == Init /\ [][Next]_vars

\* The watcher, the timers and the thread pools of the name server, the
\* session timeout of ZooKeeper, the keep-alive timer and the daemon of the
\* tablets and their handlers all run on; clients, snapshots and replication may stop.
Fairness ==
    /\ WF_vars(\E c \in calls : AppendEntries(c) \/ OffsetAnswered(c))
    /\ WF_vars(UpdateTablets) /\ WF_vars(OpStep)
    /\ \A t \in Tablets :
          /\ WF_vars(~up[t] /\ SessionExpires(t))
          /\ WF_vars(Restart(t)) /\ WF_vars(CheckZkClient(t))
          /\ WF_vars(HeartbeatTimeout(t))
          /\ WF_vars(OnTabletOffline(t)) /\ WF_vars(OfflineAfterTimeout(t))
          /\ WF_vars(OnTabletOnline(t) \/ OfflineAtStartup(t) \/ RecoverOnline(t))

LiveSpec == Spec /\ Fairness

-----------------------------------------------------------------------------
(* Properties.                                                             *)

\* Two tablets never lead in the same term, whatever happens to elections that
\* are started, cut short by a lost call and started again.  Excepted are tables on
\* which a handler of AppendEntries stored a term, or wrote, after the term it had
\* checked was replaced: it may give a leader the term of an older one.
OneLeaderPerTerm ==
    \A t, u \in Tablets :
        /\ tab[t].leader /\ tab[u].leader /\ t \notin raced /\ u \notin raced
        /\ tab[t].term = tab[u].term
        => t = u

\* table_info never names two leaders that are alive, although offline,
\* recover and change-leader operations of several tablets follow each other.
OneAliveLeader == \A t, u \in AliveLeaders : t = u

\* A replica that is alive in table_info and fed by the leader has a prefix of
\* the leader's log, and the leader does not take it to have more than that:
\* RecoverEndpointTable brought back no entry that the partition does not have
\* and no ReplicateNode from before.  A replica to which a handler wrote an entry of
\* the old leader after the election, past its check of the term, is excepted.
FollowersMatch ==
    \A l, f \in Tablets :
        /\ l \in AliveLeaders /\ tab[l].leader
        /\ meta[f].alive /\ tab[f].table /\ ~tab[f].leader /\ f \notin raced
        /\ node[l][f] # NoNode
        => /\ Len(tab[f].log) <= Len(tab[l].log)
           /\ \A i \in DOMAIN tab[f].log : tab[f].log[i] = tab[l].log[i]
           /\ node[l][f] <= Len(tab[f].log)

\* Once SelectLeader has chosen, none of the followers it asked is ahead of the
\* new leader or gets there: requests of the old leader are refused, and those that
\* were let through before do not matter as long as they end before the follower
\* reads the offset it answers.  A follower on which one ends later is excepted.
ElectedIsLongest ==
    \A f \in Tablets :
        /\ ops # <<>> /\ data.leader # None /\ f \in Head(ops).followers
        /\ tab[data.leader].table /\ f \notin raced
        => Len(tab[f].log) <= Len(tab[data.leader].log)

AllServe == \A t \in Tablets : up[t] /\ tab[t].table /\ meta[t].alive

\* OnTabletOffline found the tablet gone and has not created its operations yet
\* while OnTabletOnline of the same tablet runs already.
Overlap == \E t \in Tablets : checker[t] \in {"alive", "offline"} /\ online[t] # "idle"

\* A tablet that goes away comes back by itself: in the end all replicas are
\* loaded and alive again, if the two handlers of the tablet do not overlap.
RecoversAutomatically == []~Overlap => <>[]AllServe
=============================================================================
