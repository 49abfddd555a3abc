--------------------------- MODULE LogReplication ---------------------------
(***************************************************************************)
(* Binlog replication from the leader of one partition to its replicas:    *)
(* LogReplicator (src/replica/log_replicator.cc), one ReplicateNode thread *)
(* per replica on the leader (src/replica/replicate_node.cc) and the       *)
(* AppendEntries handler of the replica (src/tablet/tablet_impl.cc).       *)
(*                                                                         *)
(* The leader of this module keeps its term.  A log entry is its log_index *)
(* (the leader gives index i to one entry only), a request is an interval  *)
(* of indexes.  An RPC may time out while its handler still runs, and the  *)
(* channel may retry it, so several handlers of one request can be active. *)
(*                                                                         *)
(* Abstractions.  The binlog reader of a ReplicateNode is the index of the *)
(* first record it will return that is not a duplicate.  A batch is read   *)
(* in one step, because the leader only appends behind it.  Erasing a node *)
(* and joining its thread (DelReplicateNode) is one step.  A replica that  *)
(* is down has no data: what it finds on its disk shows up in Reload.      *)
(***************************************************************************)
EXTENDS Naturals, FiniteSets

CONSTANTS
    Local,          \* replicas of this cluster
    Remote,         \* replicas of a follower cluster (rep_node_)
    MaxOffset,      \* bound: entries the leader appends
    BatchSize,      \* FLAGS_binlog_sync_batch_size
    MaxHandlers,    \* bound: AppendEntries handlers active on one replica
    MaxFaults,      \* bound: faults of all kinds
    PutCanFail,     \* TRUE: table->Put may fail on a replica
    OfflineFirst    \* TRUE: the old ReplicateNode is gone before a reload

ASSUME LogReplicationAssumption ==
    /\ Local \cap Remote = {}
    /\ MaxOffset \in Nat /\ BatchSize \in Nat \ {0}
    /\ MaxHandlers \in Nat \ {0} /\ MaxFaults \in Nat
    /\ PutCanFail \in BOOLEAN /\ OfflineFirst \in BOOLEAN

Replicas == Local \cup Remote

VARIABLES
    log_offset,       \* leader: log_offset_, index of the last appended entry
    follower_offset,  \* leader: follower_offset_, how far remote nodes may go
    node,             \* leader: state of the ReplicateNode thread
    last_sync,        \* leader: last_sync_offset_ of the node
    reader,           \* leader: index the node's log_reader_ returns next
    first,            \* leader: first entry of the node's request, 0 without one
    last,             \* leader: last entry of the node's request, 0 without one
    cached,           \* leader: that request failed and is kept in cache_
    offset,           \* replica: log_offset_
    binlog,           \* replica: indexes in its log (or its snapshot)
    table,            \* replica: indexes put into its table
    fenced,           \* replica: its term is above the leader's term
    up,               \* replica: the process runs and has the table loaded
    handlers,         \* AppendEntries handlers running on the replicas
    faults            \* faults left

leaderVars == <<log_offset, follower_offset>>
nodeVars == <<node, last_sync, reader, first, last, cached>>
replicaVars == <<offset, binlog, table, fenced, up>>
vars == <<leaderVars, nodeVars, replicaVars, handlers, faults>>

Offsets == 0 .. MaxOffset

\* node: "none" there is no ReplicateNode; "match" in MatchLogOffset; "sync" in
\* SyncData, about to build or resend a request; "wait" a request is on its way.
NodeState == {"none", "match", "sync", "wait"}

\* A handler: next is the entry it is at, last the last one of its request, seen
\* the last_log_offset it read at the start; current tells whether the leader's
\* node still waits for this very call.
Handler == [replica : Replicas, id : 1 .. MaxHandlers, next : 1 .. MaxOffset + 1,
            last : Offsets, seen : Offsets,
            pc : {"start", "apply", "put"}, current : BOOLEAN]

TypeOK ==
    /\ log_offset \in Offsets /\ follower_offset \in Offsets
    /\ node \in [Replicas -> NodeState]
    /\ last_sync \in [Replicas -> Offsets]
    /\ reader \in [Replicas -> 1 .. MaxOffset + 1]
    /\ first \in [Replicas -> Offsets] /\ last \in [Replicas -> Offsets]
    /\ cached \in [Replicas -> BOOLEAN]
    /\ offset \in [Replicas -> Offsets]
    /\ binlog \in [Replicas -> SUBSET Offsets]
    /\ table \in [Replicas -> SUBSET Offsets]
    /\ fenced \in [Replicas -> BOOLEAN]
    /\ up \in [Replicas -> BOOLEAN]
    /\ handlers \subseteq Handler
    /\ faults \in 0 .. MaxFaults

\* A new partition: the replicas were created with the table and are attached.
Init ==
    /\ log_offset = 0 /\ follower_offset = 0
    /\ node = [r \in Replicas |-> "match"]
    /\ last_sync = [r \in Replicas |-> 0]
    /\ reader = [r \in Replicas |-> 1]
    /\ first = [r \in Replicas |-> 0] /\ last = [r \in Replicas |-> 0]
    /\ cached = [r \in Replicas |-> FALSE]
    /\ offset = [r \in Replicas |-> 0]
    /\ binlog = [r \in Replicas |-> {}]
    /\ table = [r \in Replicas |-> {}]
    /\ fenced = [r \in Replicas |-> FALSE]
    /\ up = [r \in Replicas |-> TRUE]
    /\ handlers = {}
    /\ faults = MaxFaults

-----------------------------------------------------------------------------
(* The leader.                                                             *)

\* local_endpoints_: AddReplicateNode and DelReplicateNode keep it in step.
LocalEndpoints == {r \in Local : node[r] # "none"}

\* LogReplicator::AppendEntry.  Without local replicas the remote ones may
\* follow the leader directly.
AppendEntry ==
    /\ log_offset < MaxOffset
    /\ log_offset' = log_offset + 1
    /\ follower_offset' = IF LocalEndpoints = {} THEN log_offset + 1
                          ELSE follower_offset
    /\ UNCHANGED <<nodeVars, replicaVars, handlers, faults>>

\* LogReplicator::AddReplicateNode starts the node's thread in MatchLogOffset.
\* It does nothing when the endpoint already has a node.
AddReplicateNode(r) ==
    /\ up[r]
    /\ node[r] = "none"
    /\ node' = [node EXCEPT ![r] = "match"]
    /\ UNCHANGED <<leaderVars, last_sync, reader, first, last, cached,
                   replicaVars, handlers, faults>>

\* The leader's node no longer waits for the calls it has on their way to r.
Abandon(hs, r) ==
    {IF h.replica = r THEN [h EXCEPT !.current = FALSE] ELSE h : h \in hs}

\* LogReplicator::DelReplicateNode erases the node and stops its thread.
DelReplicateNode(r) ==
    /\ node[r] # "none"
    /\ node' = [node EXCEPT ![r] = "none"]
    /\ last_sync' = [last_sync EXCEPT ![r] = 0]
    /\ reader' = [reader EXCEPT ![r] = 1]
    /\ first' = [first EXCEPT ![r] = 0] /\ last' = [last EXCEPT ![r] = 0]
    /\ cached' = [cached EXCEPT ![r] = FALSE]
    /\ handlers' = Abandon(handlers, r)
    /\ UNCHANGED <<leaderVars, replicaVars, faults>>

-----------------------------------------------------------------------------
(* The ReplicateNode thread.                                               *)

\* MatchLogOffsetFromNode: the replica reports its offset and reading starts
\* there (log_reader_.SetOffset).  A failed attempt is repeated.
MatchLogOffset(r) ==
    /\ node[r] = "match"
    /\ up[r] /\ ~fenced[r]
    /\ last_sync' = [last_sync EXCEPT ![r] = offset[r]]
    /\ reader' = [reader EXCEPT ![r] = offset[r] + 1]
    /\ node' = [node EXCEPT ![r] = "sync"]
    /\ UNCHANGED <<leaderVars, first, last, cached, replicaVars, handlers, faults>>

\* Reader::ReadRecord drops fragments whose start it has not seen and returns a
\* later record.
ReaderJumps(r) ==
    /\ node[r] = "sync" /\ ~cached[r] /\ faults > 0
    /\ \E k \in reader[r] + 1 .. log_offset : reader' = [reader EXCEPT ![r] = k]
    /\ faults' = faults - 1
    /\ UNCHANGED <<leaderVars, node, last_sync, first, last, cached,
                   replicaVars, handlers>>

\* How far a node may send: SyncData passes follower_offset_ for a rep_node_.
Limit(r) == IF r \in Remote THEN follower_offset ELSE log_offset

\* Mutant: the wait ends one entry late.
HasWorkLate(r) == last_sync[r] + 1 < log_offset /\ last_sync[r] < Limit(r)

\* The wait of the outer SyncData loop and the first test of the inner one.
HasWork(r) == last_sync[r] < log_offset /\ last_sync[r] < Limit(r)

\* Mutant: the log index is not compared with the expected one.
ContiguousUnchecked(r) == TRUE

\* "the log index should incr by 1"
Contiguous(r) == reader[r] = last_sync[r] + 1

\* Mutant: the batch is not cut at the limit.
BatchEndsUncut(r) == reader[r] .. reader[r] + BatchSize - 1

\* The last entry of a batch: it ends at the limit, at the batch size, or early
\* when the reader has to wait or meets a record it cannot use.
BatchEnds(r) == {k \in reader[r] .. Limit(r) : k < reader[r] + BatchSize}

HandlersOf(r) == {h \in handlers : h.replica = r}
FreeIds(r) == {i \in 1 .. MaxHandlers : \A h \in HandlersOf(r) : h.id # i}

\* A call reaches the replica.  One that the replica has no room for is lost.
Deliver(r, from, to) ==
    IF up[r] /\ FreeIds(r) # {}
      THEN handlers \cup {[replica |-> r, id |-> CHOOSE i \in FreeIds(r) : TRUE,
                           next |-> from, last |-> to, seen |-> 0,
                           pc |-> "start", current |-> TRUE]}
      ELSE handlers

\* SyncData without a cached request: read a batch and send it.
BuildRequest(r) ==
    /\ node[r] = "sync" /\ ~cached[r] /\ HasWork(r) /\ Contiguous(r)
    /\ \E to \in BatchEnds(r) :
          /\ first' = [first EXCEPT ![r] = reader[r]]
          /\ last' = [last EXCEPT ![r] = to]
          /\ reader' = [reader EXCEPT ![r] = to + 1]
          /\ handlers' = Deliver(r, reader[r], to)
    /\ node' = [node EXCEPT ![r] = "wait"]
    /\ UNCHANGED <<leaderVars, last_sync, cached, replicaVars, faults>>

\* The reader is past the expected entry: GoBackToLastBlock until
\* go_back_max_try_cnt, then GoBackToStart, with nothing sent in between.
GoBack(r) ==
    /\ node[r] = "sync" /\ ~cached[r] /\ HasWork(r) /\ ~Contiguous(r)
    /\ reader' = [reader EXCEPT ![r] = last_sync[r] + 1]
    /\ UNCHANGED <<leaderVars, node, last_sync, first, last, cached,
                   replicaVars, handlers, faults>>

\* SyncData with a cached request: send the same entries again.
ResendCached(r) ==
    /\ node[r] = "sync" /\ cached[r] /\ HasWork(r)
    /\ handlers' = Deliver(r, first[r], last[r])
    /\ node' = [node EXCEPT ![r] = "wait"]
    /\ UNCHANGED <<leaderVars, last_sync, reader, first, last, cached,
                   replicaVars, faults>>

\* The channel retries the call (FLAGS_request_max_retry): another handler may
\* run beside the first.
RetryCall(r) ==
    /\ node[r] = "wait" /\ faults > 0
    /\ up[r] /\ FreeIds(r) # {}
    /\ handlers' = Deliver(r, first[r], last[r])
    /\ faults' = faults - 1
    /\ UNCHANGED <<leaderVars, nodeVars, replicaVars>>

\* The call fails: the request goes to cache_.  With a handler of the call still
\* running this is a timeout.
CallFailed(r) ==
    /\ node[r] = "wait"
    /\ \/ /\ \A h \in HandlersOf(r) : ~h.current
          /\ UNCHANGED faults
       \/ faults > 0 /\ faults' = faults - 1
    /\ node' = [node EXCEPT ![r] = "sync"]
    /\ cached' = [cached EXCEPT ![r] = TRUE]
    /\ handlers' = Abandon(handlers, r)
    /\ UNCHANGED <<leaderVars, last_sync, reader, first, last, replicaVars>>

-----------------------------------------------------------------------------
(* TabletImpl::AppendEntries on the replica, one step per critical section. *)

Advance(h, g) == (handlers \ {h}) \cup {g}

\* The call is answered with an error: the node keeps the request in cache_.
AnswerError(h) ==
    /\ IF h.current
         THEN /\ node' = [node EXCEPT ![h.replica] = "sync"]
              /\ cached' = [cached EXCEPT ![h.replica] = TRUE]
              /\ handlers' = Abandon(handlers \ {h}, h.replica)
         ELSE /\ handlers' = handlers \ {h}
              /\ UNCHANGED <<node, cached>>
    /\ UNCHANGED <<leaderVars, last_sync, reader, first, last, replicaVars>>

\* The checks before the entries: a replica with a higher term refuses.
Refuse(h) ==
    /\ h.pc = "start" /\ fenced[h.replica]
    /\ AnswerError(h)
    /\ UNCHANGED faults

\* last_log_offset is read once, before the loop over the entries.
Started(h) == [h EXCEPT !.pc = "apply", !.seen = offset[h.replica]]

StartEntries(h) ==
    /\ h.pc = "start" /\ ~fenced[h.replica]
    /\ handlers' = Advance(h, Started(h))
    /\ UNCHANGED <<leaderVars, nodeVars, replicaVars, faults>>

Skipped(h) == [h EXCEPT !.next = h.next + 1]

\* An entry at or below the offset read at the start is skipped.
SkipEntry(h) ==
    /\ h.pc = "apply" /\ h.next <= h.last /\ h.next <= h.seen
    /\ handlers' = Advance(h, Skipped(h))
    /\ UNCHANGED <<leaderVars, nodeVars, replicaVars, faults>>

\* Mutant: the loop continues with the next entry after ApplyEntry.
AppliedNoPut(h) == [h EXCEPT !.next = h.next + 1]

\* The handler goes on to table->Put.
Applied(h) == [h EXCEPT !.pc = "put"]

\* LogReplicator::ApplyEntry, under wmu_: an entry that another handler has
\* written in the meantime is not written again.
ApplyEntry(h) ==
    LET r == h.replica IN
    /\ h.pc = "apply" /\ h.next <= h.last /\ h.next > h.seen
    /\ IF h.next <= offset[r]
         THEN UNCHANGED <<offset, binlog>>
         ELSE /\ offset' = [offset EXCEPT ![r] = h.next]
              /\ binlog' = [binlog EXCEPT ![r] = @ \cup {h.next}]
    /\ handlers' = Advance(h, Applied(h))
    /\ UNCHANGED <<leaderVars, nodeVars, table, fenced, up, faults>>

\* ApplyEntry cannot roll or write the log file.
ApplyFails(h) ==
    /\ h.pc = "apply" /\ h.next <= h.last /\ h.next > h.seen /\ faults > 0
    /\ AnswerError(h)
    /\ faults' = faults - 1

Stored(h) == [h EXCEPT !.pc = "apply", !.next = h.next + 1]

\* table->Put(entry), also for an entry ApplyEntry did not write.
PutEntry(h) ==
    LET r == h.replica IN
    /\ h.pc = "put"
    /\ table' = [table EXCEPT ![r] = @ \cup {h.next}]
    /\ handlers' = Advance(h, Stored(h))
    /\ UNCHANGED <<leaderVars, nodeVars, offset, binlog, fenced, up, faults>>

\* table->Put fails after the entry was logged.
PutFails(h) ==
    /\ h.pc = "put" /\ PutCanFail /\ faults > 0
    /\ AnswerError(h)
    /\ faults' = faults - 1

\* All entries are handled.  If the node still waits for this call it takes
\* the answer: SyncData moves last_sync_offset_ and, for a local replica,
\* follower_offset_, and drops the cached request.
Answer(h) ==
    LET r == h.replica IN
    /\ h.pc = "apply" /\ h.next > h.last
    /\ IF h.current
         THEN /\ node' = [node EXCEPT ![r] = "sync"]
              /\ last_sync' = [last_sync EXCEPT ![r] = last[r]]
              /\ first' = [first EXCEPT ![r] = 0]
              /\ last' = [last EXCEPT ![r] = 0]
              /\ cached' = [cached EXCEPT ![r] = FALSE]
              /\ follower_offset' = IF r \in Local /\ last[r] > follower_offset
                                    THEN last[r] ELSE follower_offset
              /\ handlers' = Abandon(handlers \ {h}, r)
         ELSE /\ handlers' = handlers \ {h}
              /\ UNCHANGED <<node, last_sync, first, last, cached, follower_offset>>
    /\ UNCHANGED <<log_offset, reader, replicaVars, faults>>

HandlerStep(h) ==
    \/ Refuse(h) \/ StartEntries(h) \/ SkipEntry(h)
    \/ ApplyEntry(h) \/ ApplyFails(h) \/ PutEntry(h) \/ PutFails(h) \/ Answer(h)

-----------------------------------------------------------------------------
(* What happens to the replicas.                                           *)

\* The nameserver prepares a change of leader: FollowOfNoOne raises the term.
\* A tablet of a follower cluster (follower_) does not compare terms.
Fence(r) ==
    /\ r \in Local /\ up[r] /\ ~fenced[r] /\ faults > 0
    /\ fenced' = [fenced EXCEPT ![r] = TRUE]
    /\ faults' = faults - 1
    /\ UNCHANGED <<leaderVars, nodeVars, offset, binlog, table, up, handlers>>

\* The replica's process dies, with its memory and the calls it was serving.
Crash(r) ==
    /\ up[r] /\ faults > 0
    /\ up' = [up EXCEPT ![r] = FALSE]
    /\ offset' = [offset EXCEPT ![r] = 0]
    /\ binlog' = [binlog EXCEPT ![r] = {}]
    /\ table' = [table EXCEPT ![r] = {}]
    /\ fenced' = [fenced EXCEPT ![r] = FALSE]
    /\ handlers' = handlers \ HandlersOf(r)
    /\ faults' = faults - 1
    /\ UNCHANGED <<leaderVars, nodeVars>>

\* Mutant: the reload does not wait for the old node to go.
MayReloadAnytime(r) == TRUE

\* OfflineReplicaOP, whose DelReplica removes the node from the leader, comes
\* before the ReAddReplica operation that loads the table again.
MayReload(r) == OfflineFirst => node[r] = "none"

\* LoadTable after RecoverEndpointTable: the binlog was deleted, the table
\* starts from a snapshot, its own or one the leader sent.
Reload(r) ==
    /\ ~up[r] /\ MayReload(r)
    /\ \E k \in 0 .. log_offset :
          /\ offset' = [offset EXCEPT ![r] = k]
          /\ binlog' = [binlog EXCEPT ![r] = 1 .. k]
          /\ table' = [table EXCEPT ![r] = 1 .. k]
    /\ up' = [up EXCEPT ![r] = TRUE]
    /\ UNCHANGED <<leaderVars, nodeVars, fenced, handlers, faults>>

-----------------------------------------------------------------------------
NodeStep(r) ==
    \/ MatchLogOffset(r) \/ BuildRequest(r) \/ GoBack(r)
    \/ ResendCached(r) \/ CallFailed(r)

Next ==
    \/ AppendEntry
    \/ \E r \in Replicas :
          \/ AddReplicateNode(r) \/ DelReplicateNode(r) \/ NodeStep(r)
          \/ ReaderJumps(r) \/ RetryCall(r)
          \/ Fence(r) \/ Crash(r) \/ Reload(r)
    \/ \E h \in handlers : HandlerStep(h)

Spec == Init /\ [][Next]_vars

\* The node's bthread keeps running (SyncData loops while is_running_), and a
\* handler that started runs to its end.
Fairness ==
    \A r \in Replicas :
        /\ WF_vars(NodeStep(r))
        /\ \A i \in 1 .. MaxHandlers :
              WF_vars(\E h \in HandlersOf(r) : h.id = i /\ HandlerStep(h))

FairSpec == Spec /\ Fairness

-----------------------------------------------------------------------------
(* Properties.                                                             *)

\* A replica holds every entry up to its log_offset_.  AppendEntries does not
\* compare pre_log_index with its own offset and ApplyEntry accepts any larger
\* index, so this rests on the leader: matching first, sending the next batch
\* only after the answer, resending the cached request unchanged.
NoGap == \A r \in Replicas : binlog[r] = 1 .. offset[r]

\* The leader never believes that a replica has more than it has.  DeleteBinlog,
\* CheckBinlogSyncProgress and follower_offset_ rely on last_sync_offset_.
NeverAhead ==
    \A r \in Replicas :
        up[r] /\ node[r] \in {"sync", "wait"}
            => last_sync[r] <= offset[r]

\* An entry in a replica's binlog is in its table, unless a handler is between
\* ApplyEntry and Put with it; nothing is in the table that is not logged.
TableMatchesLog ==
    \A r \in Replicas : up[r] =>
        /\ table[r] \subseteq binlog[r]
        /\ \A i \in binlog[r] \ table[r] :
              \E h \in HandlersOf(r) : h.pc = "put" /\ h.next = i

\* An entry is written on a replica of another cluster only when the leader may
\* give it away: a local replica acknowledged it, or there was none when it was
\* appended.  This has to hold when the entry is applied, after any delay.
RemoteAfterLocal ==
    [][\A r \in Remote :
          up[r] /\ offset'[r] > offset[r] => offset'[r] <= follower_offset]_vars

\* A replica that stays attached and up catches up with the leader, whatever
\* timeouts, retries and decoding errors happened before.
Attached(r) == node[r] # "none" /\ up[r] /\ ~fenced[r]
CatchUp ==
    \A r \in Local : <>[]Attached(r) => []<>(offset[r] = log_offset)

\* The whole of it implements one log of which every replica holds a prefix:
\* requests, retries, late handlers and reloads show as nothing but appending,
\* copying the next entry, releasing what a local replica holds, and coming back
\* with a prefix.
Log == INSTANCE ReplicatedLog WITH
    length <- log_offset, released <- follower_offset, copy <- binlog, live <- up
Implements == Log!Spec
=============================================================================
