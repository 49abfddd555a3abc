# TLA+ verification of OpenMLDB

OpenMLDB is a distributed database for feature computation. Its control plane
(name server, ZooKeeper) and its storage plane (tablets, binlogs, replicas) are
C++ code under `src/`; this directory models the parts of it in which several
threads, processes or crashes meet. The modules are checked with TLC. The safety of
replication, binlog files, operations, elections, the lock of the name servers and
bulk loading is proved with TLAPS.

Paths below are relative to the repository: `src/replica/...`, `src/nameserver/...`.

## 1. The system

A table is split into partitions. A partition has a *leader* and *followers* on
different tablets. Clients write to the leader, which appends to its *binlog* and
sends the entries to the followers. Snapshots bound the binlog. The *name server*
(one leads, the others wait for its lock in ZooKeeper) keeps `table_info`, notices
tablets that come and go, and changes the cluster by *operations*: lists of tasks
that run in the name server or on tablets and are recorded in ZooKeeper.

| Component | State | Operations | What makes it hard | Module |
|---|---|---|---|---|
| Log replication (`src/replica`, `TabletImpl::AppendEntries`) | `log_offset_`, `follower_offset_`, per node `last_sync_offset_`, `cache_`, reader; per replica offset, binlog, table, term | append, add and delete a node, match, send, resend, apply, put | timeouts and retries while the handler still runs, replica restarts, reader that skips records | `LogReplication` |
| Binlog files (`src/replica/log_replicator.cc`, `src/log/log_reader.cc`, `src/storage/binlog.cc`) | parts on disk, `logs_`, readers' parts, snapshot offset, `snapshot_log_part_index_` | roll, append, read, choose, split and unlink parts, recover, replay | deletion in three steps, crash between any two of them, parts without an end mark | `Binlog` |
| Operations (`src/nameserver/name_server_impl.cc`, `task.cc`, task map of the tablet) | `task_vec_`, `done_op_list_`, operation nodes in ZooKeeper, task pool, tablets' task map | add, start, run, poll, advance, delete, cancel, recover | name server replaced at any moment, late calls, failed ZooKeeper writes, three threads | `OpEngine` |
| Failover (`OnTabletOffline`, `OnTabletOnline`, change-leader, offline, recover and re-add operations) | sessions, `tablets_`, `offline_endpoint_map_`, `table_info` with terms, the tablets' tables, logs and snapshots | notice, time out, elect, take off, recover, re-add | two handlers for one tablet, stale leaders, elections cut short, which part of an old log may stay | `Failover` |
| Bulk load (`src/tablet/bulk_load_mgr.cc`, `data_receiver.cc`, Java importer) | catalog of receivers, cached blocks, next part, binlog, table | append data, write binlog, link index regions, remove receiver | several importers, requests that time out while they run | `BulkLoad` |
| Election of the primary name server (`src/zk/dist_lock.cc`, `zk_client.cc`, `OnLocked`, `OnLostLock`, `CheckZkClient`) | lock requests, sessions and watches in ZooKeeper; `lock_state_`, `current_lock_node_`, session terms, `running_` | request, read children, take or give up the lock, recover, watch, reconnect | three threads per server, one-shot watches, sessions that resume or expire while a callback runs | `DistLock` |
| Memory tables (`src/storage/mem_table.cc`, `segment.cc`, `node_cache.cc`, `key_entry.cc`, `base/skiplist.h`) | key entries, time lists, `refs_`, `dim_cnt_down`, node cache with versions, index status | put, put if absent, delete of a key and of a range, drop of an index, gc, read | readers without a lock, memory freed now or some rounds later, gc between two steps of a delete | `MemTable` |
| Pre-aggregation (`src/storage/aggregator.cc`, `TabletImpl::Put` and `Delete`, `hybridse/src/vm/runner.cc`) | the open block of a key, the aggregate table, the base table and its binlog | update, late update, flush, rebuild by a delete, recover, window query | late rows, the block that is being switched, crash between log and aggregate table, clamped ranges | `PreAgg` |

Every other part of the system is listed in `PROJECT.json` under `components` with
the reason why it is not modelled (pure functions such as the SQL engine and the
codecs, input and output only, or candidates, see section 8).

### How the modules fit together

They are cuts through one system at different depths, each with the others
abstracted:

* `LogReplication` has one leader and one term; how it came to lead and how a
  replica is reloaded is `Failover`. There, a request is sent
  and checked in one action (`MatchLogOffset`, `SyncData`) and written in another
  (`AppendEntries`); timeouts and repeated requests are what `LogReplication` is about.
  The assumption `OfflineFirst` of the proofs (a replica's old node is gone before it loads its table) is the order of
  the tasks in `CreateOfflineReplicaOP` and `CreateRecoverTableOP` there.
* `Binlog` justifies that `LogReplication` takes the leader's log as always
  readable from the next entry on.
* `ReplicatedLog` is the abstract specification of replication: one log, of which
  every replica that runs holds a prefix. `LogReplication` implements it
  (`Implements`, checked by TLC and proved as `Refinement`), and this is the view
  that `Failover` and `PreAgg` have of a log.
* `DistLock` is about who runs `OpEngine` and `Failover`: their `NsCrash` and
  recovery assume one name server that acts at a time.
* `MemTable` is the table that `LogReplication`, `BulkLoad` and `PreAgg` treat as a
  set of rows.
* `OpEngine` justifies that `Failover` runs the operations of a partition one after
  the other, task by task, children next.

## 2. Modules and code

A module is written from the functions that `PROJECT.json` (`map`) names for each
definition; definitions carry the names of the functions. One action is one
critical section or one remote call; where a handler takes a lock several times it
is several actions. Log records, formatting and metrics are left out.

### LogReplication

A log entry is its index, a request an interval of indexes, and a handler of
`AppendEntries` a record with its own program counter: it reads the replica's
offset once (`StartEntries`), then per entry skips or applies it (`SkipEntry`,
`ApplyEntry`) and puts it into the table (`PutEntry`). `CallFailed` and `RetryCall`
let a handler run on after the leader gave up on it or sent the request again.
The refinement mapping to `ReplicatedLog` takes `log_offset`, `follower_offset`,
`binlog` and `up` for the log's length, the released part, the copies and the
replicas that run; threads, requests and handlers are hidden.
`ReaderJumps` is a reader that resynchronises behind a damaged block. `Fence` is
`FollowOfNoOne` of an election. `Crash` and `Reload` replace a replica's data by
any prefix.

### Binlog

`files` is what the directory holds, `logs` the skip list of parts. `ChooseParts`,
`SplitParts`, `UnlinkPart` are the steps of `DeleteBinlog` between which appends,
readers, snapshots, new replicas and a crash may come. `Recover` is
`LogReplicator::Recover` with `ParseBinlogIndex`; `RecoverFromBinlog` and
`SetOffset` are the end of `LoadTableInternal`, two steps because a put can come
between them (`EarlyPut`). A replica may be attached at any offset, as `ChangeRole` and
`LogReplicator::Init` do for followers that hold less than the new leader has kept;
`lost` records those that were attached when parts they miss were gone or chosen for
deletion.

### OpEngine

`mem` and `zk` are an operation in memory and its node; `pool` the functions queued
or running in the task pool; `net` requests under way. The ProcessTask thread is a
program counter over `UpdateZKTaskStatus`, `DeleteTask` (collect, call the tablets,
finish) and `ProcessTask`; the UpdateTaskStatus thread polls. A plan is a sequence
of kinds of tasks: `tablet` (asynchronous on a tablet), `again` (executed again
after a failover by `SkipDoneTask`), `local` (runs in the name server, not in that
list), `normal` (`WrapNormalTaskFun`), `recover` (adds child operations). `NsCrash`
drops everything in memory; `RecoverOPTask` is the next leader. A behaviour has one
of the `Workloads`, chosen in `Init`: the plan of its operations, that of their
children, how many operations there are, the length of `done_op_list_`, and which
faults may occur. So one run covers several plans. An operation with
`kCreateProcedure` (only `kDeployOP`, as its last task: `NormalIsLast`) is one that
`RecoverOPTask` does not know (`Supported`).

### Failover

One partition and its tablets. An entry of a log is the term of the leader that
wrote it, so two logs can be compared. `zk[t]` is the ephemeral node of a tablet,
with the `startup_` mark a new process writes. `checker[t]` and `online[t]` are the
program counters of `OnTabletOffline` and `OnTabletOnline`. `ops` is the list of
the partition, the first one runs. `SelectLeader` takes two terms and then asks the
followers one after the other (`FollowOfNoOne`). A handler of `AppendEntries` is two
steps: it compares the term and reads its own term and offset (`Checked`, in the action
of whoever sends the request), and later writes without a lock (`AppendEntries`, or
`OffsetAnswered` for the question of `SelectLeader`); `calls` holds those in between and
`raced` the tables on which one ended when what it had read was outdated.
`RecoverEndpointTable` is three actions (`GetTermPair`, `Demote`, `ChooseReAdd`), one per call to a tablet.
Abstractions: a snapshot is sent, and a table loaded, in one step (the next task
starts only after the tablet reported the end); the match of terms, the leader's
manifest and the creation of the re-add operation are one step, because no other
operation of the partition runs in between; a tablet without a table has only its
snapshot (`DeleteBinlog` is called before it is loaded); `CheckBinlogSyncProgress`
is left out (its bound is far above the length of the logs here). A snapshot ends before
the first hole of the log and has the term of its last entry, which is a put (an entry
that deletes does not change the term). A ReplicateNode has one request under way and
waits for its answer; that `Stop` joins its thread only after the answer is the guard
`Quiet`. A question whose tablet died is asked again, and then fails.

### BulkLoad

Importers send parts in order and stop at an error or timeout; a handler is a
program counter over the calls of `TabletImpl::BulkLoad`, each taking its own lock.
A row is the pair of importer and part. Linking an index region may fail half way: any
part of the rows it names is linked then, and the load ends with an error. A partition
has a replicator and `AppendEntry` succeeds, an assumption (section 4).

### DistLock

A server has a lock thread (`LockRequest`, `LockRead`, `LockHandle`: one round of
`InternalLock`), the event thread of the ZooKeeper library (`EventRead`,
`EventHandle`), both of which may be inside `OnLocked` and `WatchChildren`, and the
timer of `CheckZkClient` (three steps: the test of the connection, `OnLostLock`,
`Reconnect`). `Reconnect` closes the handle and opens another under `mu_`; the session
comes with the next `LogEvent`, and until then calls fail. If a watcher runs when the
handle is closed the close waits for it and it waits for `mu_`: the server is `hung`.
`DisConnectZK` is `CloseZK`, which stores `connected_` and closes the handle in one step
here, and the `OnLostLock` after it. A `Reconnect` that runs while `CloseZK` does (both
use `zk_` without a common lock), a `zookeeper_init` that returns no handle, and how long
a call on a connecting handle blocks before it fails are left out. ZooKeeper is
external: ephemeral sequential nodes, child watches that fire once, sessions that
outlive a broken connection until they expire. Faults are a broken connection, an
expired session, a crash with or without restart, and the operator's
`DisConnectZK` and `ConnectZK`.

### MemTable

An inner index is a segment that maps a key to one `KeyEntry` per time column. Puts
fill the segments one after the other, under the mutex of each. A round of gc is a
program counter over the inner indexes and the keys (`SchedGc`, `DeleteIndex`'s
states, `IncrGcVersion`, `GcFreeList`, the four TTL types). The delete of a key
takes its entry out under the mutex; the delete of a range walks the list without it and
removes node by node. A reader takes a ticket (`refs_`) and follows the links.
Memory is never reused: `freed` and `freedEntry` record what was given back. Bytes
and counters, the upper levels of the skip list and compression are left out. The
guard `NoneTooLong` is an assumption about time that the code makes as well: no put,
delete or read is still running when gc has come to its segment
`gc_deleted_pk_version_delta` times.

### PreAgg

One key. An aggregate is the bag of the rows that were added to it, which decides
sum, count and average for all values. `Put` is the base table's part of the
handler; `AppendEntry` is the log and `Aggregator::Update`, which runs inside
`AppendEntry` by its closure, up to where the block's lock is released; then
`UpdateLate`, or `FlushFilled` and `AddToFresh`. A delete is three steps: the base table
(`Delete`), the aggregator (`DeleteFromAggr`, where the loop of `Aggregator::Delete` over
the blocks is a fold of `DeleteBlock`) and the log (`DeleteLogged`). `DeleteBinlog` and
`FlushAll` are the two steps of `SchedDelBinlog`, `FlushCopy` the put of a block that
`FlushAll` copied. `Restart` loads the base table from its log and starts
`Aggregator::Init`, which replays the log entry by entry (`RecoverEntry`); a crash may
come between any two of these.
`Query` is `RequestUnionWindow`, with its search for the first block, the base rows
behind it, the blocks, and the base rows before them. A workload says whether blocks
are intervals of time or numbers of rows, and what happens besides puts in the order
of time.

## 3. Runs

Passing runs:

| Run | Configuration | Shows |
|---|---|---|
| `log_replication` | one replica, 3 entries, batches of 2, 2 handlers at once, 3 faults | `NoGap`: a replica's log has no hole although `AppendEntries` never compares `pre_log_index`. `NeverAhead`: the leader never takes a replica for further than it is. `TableMatchesLog`: log and table differ only by an entry a handler is working on. |
| `log_replication_remote` | a local and a remote replica, 2 entries, 1 fault | `Implements`: replication with its threads, retries and late handlers is one log and prefixes of it that grow entry by entry; the other cluster gets only what was released. `CatchUp` (liveness). |
| `binlog` | 2 replicas, parts of 2 entries, 4 entries, 2 crashes | `RecoversAll`, `NodesCanRead`: deleting parts never takes what a load or a replica that was attached in time needs. `ReplicasCatchUp` (liveness): no reader of such a replica waits for ever at an open part. |
| `op_engine` | five workloads: 2 operations of a tablet's and a name server's task, one such operation that may be canceled, 3 operations with children, 2 operations with a task that is not started again, 2 that end with `kCreateProcedure`; 2 faults | `TabletTaskOnce`, `TasksInOrder`, `DoneMeansSucceeded`, `NoSpuriousFailure`. `DecisionsStand`: what was canceled or deleted is not taken up again. `StartInOrder`: the list is worked off in order, also by the next leader. |
| `op_live` | four workloads: one operation of a tablet's and a name server's task with every kind of fault, 2 operations of which the second waits, one with a task that is not started again, one that ends with `kCreateProcedure`; 2 faults | `OpsFinish` (liveness): every operation comes to an end, but for the ways to stay behind that section 4 lists. |
| `failover` | 3 tablets, 2 entries beyond which nothing is written, 2 handlers at once, 1 crash or lost session | `ElectedIsLongest`, `FollowersMatch`, and `RecoversAutomatically` (liveness). |
| `failover_elections` | 3 tablets, 1 handler at a time, 2 of crash, lost session, lost call; outages may be missed | `OneLeaderPerTerm`, `OneAliveLeader`. |
| `dist_lock` | 2 name servers, 1 of 6 kinds of fault | `FirstNodeLeads`, `LockedIsPrimary`, `StepsDown` and `PrimaryReturns` (liveness). |
| `mem_table` | 1 key, 2 rows, 2 rounds of gc, a delete, a read, seven combinations of schema and operations | `RowsStay`: only a delete or the TTL takes a row away. `DeletedGone`: what a finished delete covered stays away, unless a put of the same time or gc met it on its walk. `FreedOnce`, `BlockCounted`: nothing is freed twice, and a row's block exactly when its last node goes. `ReaderSafe`: a reader stands on no freed node. |
| `preagg` | 9 workloads of 2 to 5 rows, blocks of 2 | `QueryExact`: a window answered from blocks has every row of the base table once, but for rows that steps named in the property lose or count again. |
| `bulk_load` | 3 importers, 2 data and 2 index parts | `OneImporterPerLoad`, `DoneMeansComplete`, `TableRowsLogged`. |

Each module but `PreAgg` also has a type invariant, checked in its first run. Each property is
accompanied in `PROJECT.json` by a mutation of the code (a dropped guard, an
off-by-one, a missing reset) that violates it.

### Bounds

Every bound is a constant. They are small, but chosen so that the hazards occur:

* `LogReplication`: three entries and batches of two give a full batch, a partial
  one and a request that repeats entries; two handlers are a late one and its
  retry; three faults allow a timeout, a crash and a decoding error together.
* `Binlog`: three parts of two entries give a part to delete, one to keep, one to
  write; the second crash hits a recovery that follows a crash.
* `OpEngine`: two operations of one list suffice for everything about a list but
  order, which has three, and cancellation is about one operation and its neighbours
  in the workload with children. Two faults are a fault and another while the first is
  being repaired. A workload's `done` is the length of `done_op_list_`, so that
  `DeleteDoneOP` cuts it. `OpsFinish` was also checked once for two operations of two
  tasks with all the faults of one (1.4 million states, 17 minutes).
* `Failover`: three replicas, so that an election has a choice and a follower that
  is not chosen. Logs start with one entry in a snapshot (`Saved`), one is written
  by the old or the new leader: enough for a replica with an entry that the new
  leader does not have. `MaxTerm` bounds the number of elections, `MaxOps` the
  list; neither cuts a behaviour with the faults of the runs short except for
  further elections in `failover_elections`. `MaxCalls` bounds the handlers that run when
  a leader sends an entry; the question of `SelectLeader` comes on top of them, so that
  one is enough for a term that is stored late, and two for an entry that is written late
  while another replica is served.
* `BulkLoad`: two parts of each kind give a first, a repeated and a last part.
* `DistLock`: two servers are a primary and a standby; `MaxNode` leaves room for the
  requests of both before and after a fault.
* `MemTable`: two rows of a key are an order, a tie and a row that stays when the
  other goes. Two rounds of gc with `Delta = 2` let the node cache keep and free.
* `PreAgg`: with blocks of two, five rows give three flushed blocks and an open one,
  so that a range can begin in a block, cover one and end in another; four rows give
  a late row for a flushed block, for a missing one and for the one being flushed.
  Two restarts are a recovery of what a recovery wrote, or a crash in the middle of one.
  A delete, a flush and a put that overlap need two or three rows.

Symmetry is used for importers that send the same requests, and for the tablets
other than the first leader, in runs without liveness properties.
`CHECK_DEADLOCK FALSE` is set where the system may stop: a healthy cluster whose
clients stopped writing (`Failover`), name servers after the election (`DistLock`),
a table after its last request (`MemTable`, `PreAgg`).

### Fairness

* `LogReplication`: the thread of a `ReplicateNode` and the handlers on a replica
  go on (`FLAGS_binlog_sync_wait_time` bounds every wait). Nothing is assumed of
  clients.
* `Binlog`: the readers go on.
* `OpEngine`: the two loops of the name server, its pool, the tablets' handlers,
  restarts and the recovery by a new leader go on.
* `Failover`: the watcher, the timers (`tablet_heartbeat_timeout`,
  `tablet_offline_check_interval`) and pools of the name server, ZooKeeper's session
  timeout, the tablets' `CheckZkClient` timer, and the daemon that restarts a tablet
  (`mon`). Nothing is assumed of clients, snapshots and replication.

* `DistLock`: the threads of a live process, the delivery of events, the expiry of
  the sessions that no process keeps, the return of a connection, restarts. A server
  whose `Reconnect` hangs does nothing more.

`RecoversAutomatically` is checked without lost calls, since a failed operation is
left to the administrator, and without outages that nobody notices
(`MissedEvents`).

## 4. Disagreements between code and documentation

One run is expected to find a violation, with a finding in `PROJECT.json`:

* `dist_lock_one_primary`: when the session term changes, `InternalLock` overwrites
  `kLocked` by `kTryLock` and calls nobody, and `CheckZkClient`'s `OnLostLock` may
  come before `OnLocked`, still recovering, sets `running_`. The server then waits
  for the lock with `running_` true, for ever, while another one is primary
  ("Only one primary node can exist at the same time",
  `docs/en/reference/arch/online_arch.md:13`).

Other things the models show, found with the constants named or by leaving a
workload's restriction out:

Binlog, operations and failover:

* `LoadTableInternal` sets the table to `kNormal` one line before it gives the
  replicator its offset. A put in between gets an index that an old entry has;
  `RecoversAll` of `Binlog` is false with `EarlyPut = TRUE`.
* A replica whose parts were deleted before it was attached (a follower that is behind
  the snapshot of a new leader, attached by `ChangeRole`) never catches up, and its reader
  keeps later parts from being deleted. `NodesCanRead` and `ReplicasCatchUp` except it.
* After a change of the name server an operation can stay `kDoing` for ever. It may be
  left out (`LeftOut`): its type is not one that `RecoverOPTask` knows, or its tasks cannot
  be created again. Or its list waits for a task that nothing will end
  (`WaitsForNothing`): one that ran in the old name server and is not in the list of
  `SkipDoneTask` (`kChangeLeader` for one, `name_server_impl.cc:1072`); one that the tablet
  does not know, since `is_rpc_send` of a recovered task is false and `Task::SetState`
  does not take it for missing (`task.cc:91`); one that the tablet reports canceled while
  the operation is not (`DeleteTask`, 1818). `OpsFinish` excepts these; the way out is the
  operator's (`CancelOP`, `DeleteOP`), or another change of the name server.
* The handler of `AppendEntries` compares the term (`tablet_impl.cc:2353`), reads its
  offset (2363) and writes (2367, 2382) without a lock. A request that was let through
  before an election may write after the follower told its offset; a question of an
  election that was cut short may store its term over that of a later one. Without the
  exception of `raced`, TLC finds a follower ahead of the elected leader
  (`ElectedIsLongest`), one whose log differs from the leader's (`FollowersMatch`), and
  two leaders of one term (`OneLeaderPerTerm`).
* `OnTabletOffline` looks at the tablet, marks its replicas and creates operations
  under three separate locks. A tablet that comes back in between is recovered first
  and marked dead afterwards; nothing recovers it again. `RecoversAutomatically` is
  checked for the behaviours without this overlap.
* With `OfflineFirst = FALSE` `NoGap` of `LogReplication` is false: a
  `ReplicateNode` that survives the restart of its replica leaves a hole.
  `AddReplica` reports success for a node that exists, and
  `CreateRecoverTableOPTask` deletes the node only of a replica not marked leader.
* With `LateWrites = TRUE`, or with two lost sessions, `FollowersMatch` of
  `Failover` is false: `RecoverEndpointTable` reads the offset of a former leader
  before it demotes it, and the log may grow in between.
* With `Saved = 0` it is false as well: a leader without a `MANIFEST` sends
  nothing, `SendSnapshot` succeeds, and the replica loads its own snapshot, which
  may have entries the leader does not have.
* With `MissedEvents = TRUE` a tablet that restarts between two readings of the
  children is never recovered. The last replica that is alive is never marked dead
  and so never recovered (the documentation promises recovery of one tablet only).
* A replica whose `table->Put` fails after the entry was logged misses the row
  until the table is loaded again (`PutCanFail`).
* `StartInOrder` is checked with two faults. It fails with three (a task fails, the write of
  that failure fails, the name server dies): the next leader resumes an operation
  after a later one has run.
* `CancelOP` is kept in memory only, so the next leader resumes the operation. A
  canceled operation cannot be deleted with `DeleteOP`, whose deletion of the
  ZooKeeper node fails because `DeleteTask` has deleted it.
* `WrapNormalTaskFun` sets `kFailed` on an error and then `kDone` in every case.
  `DoneMeansSucceeded` is therefore checked for the other kinds of tasks.
* The end of one bulk load switches gc on after it has removed the receiver, when
  the next load may already be linking its index region. A request that carries
  data and an index region is refused. The result of `AppendEntry` in
  `WriteBinlogToReplicator` is not looked at, and without a replicator it succeeds with
  nothing written; `TableRowsLogged` assumes that neither happens.

Election of the primary (`DistLock`):

* After a server misses a change of the children (it reads them, the first one
  goes, and only then it sets the watch) it may wait for ever although its request
  is the first. `PrimaryReturns` excepts that.
* A server that crashes and restarts before its old session has expired finds its
  own endpoint as the value of the first request and takes the lock by value; when
  the old session ends another server becomes primary as well. A server that holds
  the lock by value gives up at any change of the children, and
  `current_lock_value_` is not cleared when the lock is lost.
* The operator's `ConnectZK` on a primary closes its session, whose request goes, and
  opens another without `OnLostLock`: the server serves on without the lock until its lock
  thread has asked for it anew. The first half of `StepsDown` excepts it.
* `Reconnect` closes the handle under `mu_` (`zk_client.cc:576`), which waits for a
  watcher that may itself wait for `mu_`: neither returns, and a primary never steps
  down. `StepsDown` and `PrimaryReturns` except a server that hangs.
* `CheckZkClient` tests the connection and then calls `OnLostLock`, and `DisConnectZK`
  calls it after `CloseZK`, without a lock: when the client has connected in between, and
  the lock thread has taken the lock in the new session, `OnLostLock` leaves a holder of
  the lock that does not serve. `LockedIsPrimary` and `PrimaryReturns` except it ("late"
  in `history`).

Memory tables (`MemTable`):

* `SchedGc` passes positions of columns where `Segment::ReleaseAndCount` takes their
  ids (`mem_table.cc:329-353`, `segment.cc:107-112`). With `Columns = {1, 2}`
  `RowsStay` is false: dropping one index clears the lists of another.
* A range delete and gc take the `KeyEntry` of a key without the mutex
  (`segment.cc:342`, `712`). A row that is put into it before they cut it off is lost
  with it; `RowsStay` excepts such rows.
* `refs_` is counted after the entry was found, so gc may free an entry that a
  reader is about to count itself into (the comment at `segment.cc:670` describes
  the race). `ReaderSafe` is about readers that hold their ticket.
* `Skiplist::Remove` clears the link of the node it removes: a reader that stands on
  it sees the end of the list, and its scan is cut short.
* `put_if_absent` that fails in the second of two indexes leaves the row in the
  first, and its block is not freed. The range delete walks the list without a
  ticket.
* A second gc of the same table by the `ExecuteGc` call is not modelled.

Pre-aggregation (`PreAgg`). `QueryExact` names the ways in which the code itself loses
a row or counts it again; without any one of these exceptions TLC finds a query with a
wrong answer:

* A window that ends inside the oldest flushed block loses rows (`EndsInOldest`: the
  search loop at `runner.cc:1760-1776` leaves `ts_start` and `ts_end` of a block that is
  not inside the window).
* A row of the open block may be missing once `FlushAll` has put a part of that block
  (`Unflushed`). After a crash recovery begins behind that part, and rows of the block that
  were put since stay out of it.
* A crash after the binlog was deleted and before `FlushAll`: rows before
  `GetMinOffset` are in no block and not replayed.
* A crash between the log and the update of a flushed block by a late row: recovery
  ignores rows older than the newest block. A late row also raises the offset of the newest
  block over rows of the open one, and a gap between rows flushes an empty block with the
  offset of the next row; recovery then skips rows in both cases.
* A crash between the aggregator's part of a delete and its log: the rows are back
  in the base table and not in the blocks.
* A delete that recovery replays rebuilds its blocks from the base table as it is now
  (`aggregator.cc:530-532`). Rows that were logged after the delete are in it already and
  are added again when their own entries come: put of row 2, delete up to 2, put of row 3
  and a restart count row 3 twice. A replayed delete may also delete blocks that
  hold such rows.
* `FlushAll`'s copy put after a newer version of its block or after a delete, and a
  delete that overlaps a put: none of them takes the lock of the block.

It is false in these cases, which the workloads leave out:

* A range delete that starts in a gap between two flushed blocks ("gap" with
  "delete"); one at a block that begins at time 0, where the clamp
  `begin > 0 ? begin - 1 : 0` deletes the block just rebuilt; one below the oldest
  block followed by a late row ("late" with "delete").
* Blocks by number of rows with two rows of one time at their edge ("tie"), or with
  late rows ("late"): a row in the time of a block need not be in the block.
* A delete without a key is not replayed by recovery; deletes name their key here.

The note in `docs/en/openmldb_sql/notice.md:10` says that pre-aggregated tables are not
updated by `DELETE`. The code does update them (`tablet_impl.cc:1653`).

## 5. Proofs

`LogReplicationProofs` proves, for any sets of replicas and any values of the
bounds, from `LogReplicationAssumption` (types of the constants) and `OfflineFirst`:

| Theorem | Statement |
|---|---|
| `TypeCorrect` | `Spec => []TypeOK` |
| `NoGapHolds` | `Spec => []NoGap` |
| `NeverAheadHolds` | `Spec => []NeverAhead` |
| `RemoteAfterLocalHolds` | `Spec => RemoteAfterLocal` (an action property) |
| `TableMatchesLogHolds` | `Spec => []TableMatchesLog`, from `~PutCanFail` in addition |

They follow from `Invariance`: `Spec => []Inv`. None of the properties is inductive
alone. A handler that the leader has given up on still applies entries, so `NoGap`
needs to know how far a handler can be ahead of the log it writes: `HandlerInv` says
that its next entry is at most the first one the replica lacks, whatever other
handlers did since.
That holds when a handler starts because a request begins right after
`last_sync_offset_` (`NodeInv`, also for a request kept in `cache_`), and
`last_sync_offset_` is not above the replica's offset, which is `NeverAhead`. So the
two are proved together. `OfflineFirst` enters in one place, `ReloadStep`: a replica
that loads less than it had must not have a node that remembers more. For
`RemoteAfterLocal`, requests and handlers of remote replicas end at or below
`follower_offset_`, which never decreases.

`RemoteAfterLocalHolds` is proved only; in the runs its content is the guard of
`Extend` in `ReplicatedLog`, which `Implements` checks.

`TableMatchesLog` is inductive on top of `Inv`: an entry is in the log before it is in
the table, and in between it is `InHand`, the next entry of a handler that is about to
put it. Each step keeps the entries in hand or puts them (`PutsKept`, `TableKept`). A
handler that the leader has abandoned runs on, and goes away before its put only
when its replica crashes. If `table->Put` fails, the entry is in the log
and nobody holds it (section 4), so the theorem excludes it.

There is one lemma per action (`AppendEntryStep` ... `ReloadStep`), on top of lemmas
about the helpers (`DeliverFact`, `AbandonFact`, `HandlerMoves`,
`HandlerMoved`).

Its last section proves, from the same assumptions, that the protocol implements
the abstract log:

| Theorem | Statement |
|---|---|
| `Refinement` | `Spec => Implements`, where `Implements` is `Log!Spec` under the refinement mapping |

The steps of the leader's thread and of handlers that do not write are stutters
(`HiddenNodeStep`, `HiddenHandlerStep`); the others map to one step each
(`AppendIsAppend`, `ApplyIsExtend`, `AnswerIsRelease`, `CrashIsLose`,
`ReloadIsRestore`). `ApplyIsExtend` needs that a handler writes right behind the
replica's last entry (`NoGap`'s invariant) and, for an entry to exist in the log,
`HandlersBehind`: a request never ends above the leader's log. That is a second
invariant, proved on top of `Inv`.

`BinlogProofs`, for any number of replicas, parts, entries and crashes, from
`BinlogAssumption` and `~EarlyPut` (no client puts between `SetTableStat(kNormal)` and
`SetOffset`; with `EarlyPut`, `RecoversAll` is false, section 4):

| Theorem | Statement |
|---|---|
| `Invariance` | `Spec => []IInv` |
| `TypeCorrect` | `Spec => []TypeOK` |
| `RecoversAllHolds` | `Spec => []RecoversAll` |
| `NodesCanReadHolds` | `Spec => []NodesCanRead` |

The invariant keeps apart what is on disk and what the process knows. `Disk` holds
whether the process runs or not: the parts are in order, and every acknowledged entry
behind the snapshot is in one of them. `Logs` ties `logs_` to them: a part that is not
in `logs_` (split off, or not unlinked before a crash) has nothing behind the snapshot,
and a part ends where the next one starts. `Del` says that what `DeleteBinlog` has
chosen is before the part of the snapshot, and `Node` that a reader is at a part behind
the chosen ones and has passed only entries that were sent, or can still find the part
of its next entry, unless the node is `lost`. `Node` is why the choice, the split and the unlinking may be
separate steps. `Phase` describes loading, during which nothing is deleted or read.

`BulkLoadProofs`, for any number of importers and parts, from `BulkLoadAssumption`:

| Theorem | Statement |
|---|---|
| `BulkLoadInvariant` | `Spec => []IInv` |
| `BulkLoadTypes` | `Spec => []TypeOK` |
| `LoadsNeverMix` | `Spec => []OneImporterPerLoad` |
| `VisibleRowsAreLogged` | `Spec => []TableRowsLogged` |
| `LoadProgress`, `DoneMeansCompleteHolds` | `Spec => []Rows`, `Spec => []DoneMeansComplete` |

A handler looks its receiver up anew in every critical section, so the argument is
about what it finds: an importer past its part 0 owns the catalog entry until its
own eof part removes it (`Owner`). The block between its append and its binlog is
the only one the binlog lacks (`Pending`, `Logged`). `Rows` is proved on top of
`IInv`: up to the part that a load is at, its rows are cached, in the binlog, and
linked, and the binlog's rows of an importer are in order. An index region that fails
half way links only rows that are cached, which the binlog has; the load is `failed`
then, and `DoneMeansComplete` says nothing of it.

`OpEngineProofs`, for any plans of tasks, any number of operations and faults, from
`OpAssumption` (the plans are not empty, `kCreateProcedure` comes last). It extends
`OpTaskProofs`, which holds the invariant, the types and the lemmas about the steps of
operations that exist; `OpEngineProofs` adds new operations, crashes, the next leader
and the theorems:

| Theorem | Statement |
|---|---|
| `OpEngineInvariant` | `Spec => []IInv` |
| `OpTypesHold` | `Spec => []TypeOK` |
| `TabletTaskOnceHolds` | `Spec => []TabletTaskOnce` |
| `TasksInOrderHolds` | `Spec => []TasksInOrder` |
| `DoneMeansSucceededHolds` | `Spec => []DoneMeansSucceeded` |
| `DecisionsStandHolds` | `Spec => []DecisionsStand` |
| `NoSpuriousFailureHolds` | `Spec => []NoSpuriousFailure` |

The properties speak of work that was started, but a task may be started by a
request or a pool function long after its operation has moved on, failed or been
deleted. The invariant therefore is about the tasks that were `Seen`: queued in the
pool, on their way to the tablet, or started. Neither the operation in memory
(`Listed`) nor its node (`Noded`) is behind them by more than the front task, and
everything before a task that was seen has succeeded (`InOrder`). `Noded` is what
the next leader relies on: it resumes from the node, takes a tablet's front task for
running, and hands out only tasks that nobody has seen or that may run again.
`Collected` bridges the unlocked part of `DeleteTask`; its second disjunct is the
function of `WrapNormalTaskFun` that turns `kFailed` into `kDone` meanwhile.

`NoSpuriousFailure` speaks of behaviours without a fault and has an invariant of its
own on top of `IInv`, `QInv`: while `faults = 0`, `Quiet`. A task that was sent is known
to the tablet, and a poll whose answer will be used has found it (`QuietOp`). That has
to be prepared by the two writes that end `WrapTaskFun` (`QuietCall`): behind the first
one, the change of `task_rpc_version_`, a poll that did not find the task is stale, so
the second one may set `is_rpc_send`. A task's entry in the tablet's map goes away only
in `DeleteOPTask`, for an operation that has no task left (`QuietEnd`), and no request
is refused, since `IInv` says that a tablet's task is requested once. `QuietNever` lists
the actions that cannot happen without a fault.

`DistLockProofs`, for any number of name servers, requests and faults, from
`DistLockAssumption` (the bounds are numbers):

| Theorem | Statement |
|---|---|
| `FirstStaysFirst` | `Spec => []FInv` |
| `FirstNodeLeadsHolds` | `Spec => []FirstNodeLeads` |
| `SessionTerms` | `Spec => []LInv` |
| `LockTypesHold` | `Spec => []TypeOK` |
| `LockedIsPrimaryHolds` | `Spec => []LockedIsPrimary` |

A thread works on a list of children that may be old. `FInv` says that this does not
matter: a request that was once the first stays the first as long as it exists,
since later ones get larger numbers. `LInv` relates the two session terms of a
server: `DistLock`'s is never ahead of `ZkClient`'s, and a holder that does not serve
has a term to catch up on. An `OnLostLock` that is still to come is part of it: the client
has not connected since the test, or "late" is in `history`.

`FailoverProofs` and `ElectionProofs`, for any number of tablets, operations, terms,
entries and faults, from `FailoverAssumption`:

| Theorem | Statement |
|---|---|
| `ElectionTerms` | `Spec => []EInv` |
| `OneLeaderPerTermHolds` | `Spec => []OneLeaderPerTerm` |
| `OneAliveLeaderHolds` | `Spec => []OneAliveLeader` |
| `ElectionPhases` | `Spec => []LInv` |
| `ElectedIsLongestHolds` | `Spec => []ElectedIsLongest` |
| `TypeCorrect` | `Spec => []TypeOK` |

An election takes its terms from the term node before it asks anybody, so they are
above those of all leaders (`LeadersBelow`) and of all requests that are still handled
(`CallsBelow`, `AskCalls`); it reaches `ChangeLeader` only through its own `SelectLeader`,
for which `OpsShape` describes the tasks that may be left of an operation. A handler left
over on a tablet that became leader has read an older term (`LateOnLeaders`): if it stores
its own, it is late, and the table is one of those excepted.

`ElectedIsLongest` needs to know what happens to the followers while the others are
asked: one that has answered `FollowOfNoOne` lets no request of an older term through
(`Frozen`), and no leader has a newer one before `ChangeLeader`. Requests let through
before have an older term than the follower has now, so their handlers are late when they
write. So the log of a follower on which no handler came late does not grow (`Short`;
`Asking`, `Chosen`, `Elected`, one per phase). `Tame` sums up what a step may do to a table
as far as these phases care.

`TypeCorrect` says that the bounds of the model hold, which is an invariant of its own
(`BInv`; the types of the queue, of the handlers of `OnTabletOffline` and
`OnTabletOnline` and of `table_info` are the last section of `FailoverProofs`). Terms stay
bounded because no election starts at `MaxTerm` or above and each
takes two. A put needs room in the log, and followers copy entries that a leader
had when it sent them, so no log passes `MaxLog`; all replicas have `Saved` entries at the start, hence
the assumption `Saved <= MaxLog`. The queue stays within `MaxOps` because
`RecoverTable`, the only task that creates an operation, is the last of its own.

Every inductive invariant was first checked with TLC on the instances of section 3.

Only model-checked:

* All liveness properties (`CatchUp`, `ReplicasCatchUp`, `OpsFinish`,
  `RecoversAutomatically`, `StepsDown`, `PrimaryReturns`): out of the prover's reach.
* `StartInOrder`, which holds for up to two faults only, and `FollowersMatch`, which
  holds only for some faults (section 4): neither is a theorem about all constants.
* `QueryExact` of `PreAgg`: it compares folds over sequences of blocks, which needs
  induction over data.
* `MemTable`: it follows links with a recursive operator and is for TLC only.

## 6. Hazards

`PROJECT.json` lists, with the line where it bites, what can go wrong in this code
and a test would hardly reach, and the properties that would show it. Hazards without
a property carry a note.

## 7. Not modelled

* The SQL engine, codecs, schema checks, SDKs, the REST server, authentication,
  statistics, the data collector and the offline engine: functions of their input,
  or thin layers over other services.
* rocksdb, ZooKeeper and brpc, except for their failures as seen by the code.
* The C++ memory model (lock-free skip list, `atomic` with relaxed order): a step is
  one access or one critical section.
* The filters of reads (`Get`, `Scan`), their merge over partitions, and disk tables.
* In the modelled components: composite tasks and the operation lists for replica
  clusters (`OpEngine`), partitions of one replica, manual failover and several
  partitions of one tablet (`Failover`), min and max, filter columns and query
  windows given by a number of rows (`PreAgg`), two gc tasks of one table
  (`MemTable`), torn writes and a full disk (`Binlog`), rows that are put twice (`LogReplication`, where a table is a set).

The repository has 320,000 lines, of which the SQL engine, generated and third-party
code (simdjson, farmhash), SDKs and tools are by far the most. The models cover the
parts with state that several threads, processes or crashes share; the rest is
conversions and wrappers whose correctness is not a question of interleavings.

## 8. What could come next

1. `MemTableSnapshot::MakeSnapshot` and its manifest, joined to `Binlog`: what a
   snapshot holds after a crash at any of its renames.
2. `CreateTable`, `AddReplicaNS`, `MigrateNode` and their plans on `OpEngine`.
3. `DistLock` joined to `OpEngine`: what two name servers that both believe to lead
   can do to the operations in ZooKeeper.
4. Theorems: `FollowersMatch` of `Failover`, for the faults that it holds for.
