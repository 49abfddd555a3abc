------------------------------- MODULE Binlog -------------------------------
(***************************************************************************)
(* The log parts of one partition on one tablet: the write side of         *)
(* LogReplicator (src/replica/log_replicator.cc), the LogReader of every   *)
(* ReplicateNode (src/log/log_reader.cc), deleting parts that a snapshot   *)
(* covers, and loading the table again after a crash                       *)
(* (Binlog::RecoverFromBinlog, TabletImpl::LoadTableInternal).             *)
(*                                                                         *)
(* Abstractions.  A record is its log_index; a part is full when it has    *)
(* PartSize records.  A torn record at the end of a part reads like the    *)
(* missing end-of-log mark.  A ReplicateNode's call to its replica         *)
(* succeeds at once (LogReplication models the call).  The process may     *)
(* crash, the disk keeps what was flushed.                                 *)
(***************************************************************************)
EXTENDS Integers, Sequences, FiniteSets, FiniteSetsExt

CONSTANTS
    Nodes,          \* replicas that ReplicateNodes of this leader may serve
    PartSize,       \* records per part (FLAGS_binlog_single_file_max_size)
    MaxOffset,      \* bound: entries appended
    MaxPart,        \* bound: highest part index
    MaxCrashes,     \* bound: crashes
    EarlyPut        \* TRUE: clients send puts as soon as the table is kNormal

ASSUME BinlogAssumption ==
    /\ PartSize \in Nat \ {0} /\ MaxOffset \in Nat /\ MaxPart \in Nat
    /\ MaxCrashes \in Nat /\ EarlyPut \in BOOLEAN

VARIABLES
    files,          \* disk: part index -> its records and its end-of-log mark
    snap,           \* disk: offset in MANIFEST
    logs,           \* logs_: part index -> offset before its first record
    binlog_index,   \* binlog_index_: index of the next part
    wh,             \* part the write handle wh_ is open on, or -1
    log_offset,     \* log_offset_
    snap_part,      \* snapshot_log_part_index_
    stat,           \* "down", or the TableStat
    loader,         \* LoadTableInternal: "idle", "recover", "set"
    latest,         \* LoadTableInternal: latest_offset
    part,           \* log_part_index_ of the node's reader, -1 before the first read
    pos,            \* position of the reader in that part
    synced,         \* the node's last_sync_offset_, -1 without a node
    lost,           \* history: nodes attached when parts they need were gone
    min_log_index,  \* DeleteBinlog: parts up to this one go, -1 if none
    doomed,         \* parts that DeleteBinlog has split off and not unlinked
    acked,          \* history: entries whose append succeeded
    crashes         \* crashes so far

diskVars == <<files, snap>>
logVars == <<logs, binlog_index, wh, log_offset>>
loadVars == <<stat, loader, latest>>
nodeVars == <<part, pos, synced, lost>>
delVars == <<min_log_index, doomed>>
vars == <<diskVars, logVars, snap_part, loadVars, nodeVars, delVars, acked, crashes>>

Offsets == 0 .. MaxOffset
Parts == 0 .. MaxPart

TypeOK ==
    /\ DOMAIN files \subseteq Parts /\ DOMAIN logs \subseteq Parts
    /\ \A p \in DOMAIN files :
          /\ files[p].log \in Seq(1 .. MaxOffset) /\ Len(files[p].log) <= PartSize
          /\ files[p].eof \in BOOLEAN
    /\ \A p \in DOMAIN logs : logs[p] \in Offsets
    /\ snap \in Offsets /\ log_offset \in Offsets
    /\ latest \in Offsets /\ acked \in Offsets
    /\ binlog_index \in 0 .. MaxPart + 1
    /\ wh \in -1 .. MaxPart /\ snap_part \in -1 .. MaxPart
    /\ stat \in {"down", "kLoading", "kNormal"}
    /\ loader \in {"idle", "recover", "set"}
    /\ part \in [Nodes -> -1 .. MaxPart]
    /\ pos \in [Nodes -> 1 .. PartSize + 1]
    /\ synced \in [Nodes -> -1 .. MaxOffset] /\ lost \subseteq Nodes
    /\ min_log_index \in -1 .. MaxPart /\ doomed \subseteq Parts
    /\ crashes \in 0 .. MaxCrashes

Empty == [p \in {} |-> 0]

\* A new table: CreateTableInternal on an empty directory.
Init ==
    /\ files = Empty /\ snap = 0
    /\ logs = Empty /\ binlog_index = 0 /\ wh = -1 /\ log_offset = 0
    /\ snap_part = -1
    /\ stat = "kNormal" /\ loader = "idle" /\ latest = 0
    /\ part = [n \in Nodes |-> -1] /\ pos = [n \in Nodes |-> 1]
    /\ synced = [n \in Nodes |-> -1] /\ lost = {}
    /\ min_log_index = -1 /\ doomed = {}
    /\ acked = 0 /\ crashes = 0

-----------------------------------------------------------------------------
(* Writing.                                                                *)

\* Mutant: a full part takes one more record.
NeedsRollLate == wh # -1 => Len(files[wh].log) > PartSize

NeedsRoll == wh # -1 => Len(files[wh].log) >= PartSize

\* TabletImpl::Put refuses while the table loads.  Between kNormal and SetOffset
\* a put is accepted; EarlyPut says whether one comes in that moment.
AcceptsPut == stat = "kNormal" /\ (loader = "idle" \/ EarlyPut)

\* wh_->EndLog() on the part that is full.
Closed(fs) == IF wh = -1 THEN fs ELSE [fs EXCEPT ![wh].eof = TRUE]

\* LogReplicator::RollWLogFile, before the record of an append is written.
RollWLogFile ==
    /\ AcceptsPut /\ NeedsRoll
    /\ log_offset < MaxOffset /\ binlog_index <= MaxPart
    /\ files' = [p \in DOMAIN files \cup {binlog_index} |->
                   IF p = binlog_index THEN [log |-> <<>>, eof |-> FALSE]
                   ELSE Closed(files)[p]]
    /\ logs' = [p \in DOMAIN logs \cup {binlog_index} |->
                  IF p = binlog_index THEN log_offset ELSE logs[p]]
    /\ wh' = binlog_index
    /\ binlog_index' = binlog_index + 1
    /\ UNCHANGED <<snap, log_offset, snap_part, loadVars, nodeVars, delVars,
                   acked, crashes>>

\* LogReplicator::AppendEntry, with the part open.
AppendEntry ==
    /\ AcceptsPut /\ ~NeedsRoll
    /\ log_offset < MaxOffset
    /\ files' = [files EXCEPT ![wh].log = Append(@, log_offset + 1)]
    /\ log_offset' = log_offset + 1
    /\ acked' = log_offset + 1
    /\ UNCHANGED <<snap, logs, binlog_index, wh, snap_part, loadVars, nodeVars,
                   delVars, crashes>>

-----------------------------------------------------------------------------
(* Reading: LogReader::RollRLogFile and ReadNextRecord.                    *)

\* The newest part that starts at or before offset o, -1 if there is none.
StartPart(o) ==
    LET ps == {p \in DOMAIN logs : logs[p] <= o} IN
    IF ps = {} THEN -1 ELSE Max(ps)

\* The part to read after part p: p + 1, or, with that one missing and an older
\* one present, the oldest above p; -1 if there is none.
NextPart(p) ==
    IF p + 1 \in DOMAIN logs THEN p + 1
    ELSE IF \E q \in DOMAIN logs : q <= p /\ \E s \in DOMAIN logs : s > p
         THEN Min({s \in DOMAIN logs : s > p})
         ELSE -1

\* SyncData has something to send.
Behind(n) == synced[n] >= 0 /\ loader = "idle" /\ synced[n] < log_offset

\* The first read opens the part that holds the next entry.
ReadFirst(n) ==
    /\ Behind(n) /\ part[n] = -1
    /\ StartPart(synced[n]) >= 0
    /\ part' = [part EXCEPT ![n] = StartPart(synced[n])]
    /\ pos' = [pos EXCEPT ![n] = 1]
    /\ UNCHANGED <<diskVars, logVars, snap_part, loadVars, synced, lost, delVars,
                   acked, crashes>>

\* A record: a duplicate is skipped, the expected one is sent, any other makes
\* the reader go back (to the start of this part after go_back_max_try_cnt).
ReadRecord(n) ==
    /\ Behind(n) /\ part[n] >= 0 /\ part[n] \in DOMAIN files
    /\ pos[n] <= Len(files[part[n]].log)
    /\ LET e == files[part[n]].log[pos[n]] IN
       /\ synced' = [synced EXCEPT ![n] = IF e = @ + 1 THEN e ELSE @]
       /\ pos' = [pos EXCEPT ![n] = IF e <= synced[n] + 1 THEN @ + 1 ELSE 1]
    /\ UNCHANGED <<diskVars, logVars, snap_part, loadVars, part, lost, delVars,
                   acked, crashes>>

\* The end-of-log mark: on to the next part, if there is one.  Without the mark
\* the reader waits for more records.
ReadEof(n) ==
    /\ Behind(n) /\ part[n] >= 0 /\ part[n] \in DOMAIN files
    /\ pos[n] > Len(files[part[n]].log) /\ files[part[n]].eof
    /\ NextPart(part[n]) >= 0
    /\ part' = [part EXCEPT ![n] = NextPart(part[n])]
    /\ pos' = [pos EXCEPT ![n] = 1]
    /\ UNCHANGED <<diskVars, logVars, snap_part, loadVars, synced, lost, delVars,
                   acked, crashes>>

-----------------------------------------------------------------------------
(* The nodes.                                                              *)

\* The entries of a set of parts.
Entries(ps) == UNION {{files[p].log[i] : i \in 1 .. Len(files[p].log)} : p \in ps}

\* What a reader finds that starts at offset o and reads part after part.
Readable(o) ==
    IF StartPart(o) = -1 THEN {}
    ELSE Entries({p \in DOMAIN logs \cap DOMAIN files : p >= StartPart(o)})

\* The parts that stay hold everything a node at offset k has to send.
Served(k) ==
    k < log_offset => k + 1 .. log_offset \subseteq Readable(k) /\ StartPart(k) > min_log_index

\* AddReplica, ChangeRole and LogReplicator::Init attach a replica at whatever
\* offset it answers: below the snapshot, or ahead of this leader.
AddReplicateNode(n) ==
    /\ stat = "kNormal" /\ loader = "idle" /\ synced[n] = -1
    /\ \E k \in Offsets :
          /\ synced' = [synced EXCEPT ![n] = k]
          /\ lost' = IF Served(k) THEN lost \ {n} ELSE lost \cup {n}
    /\ part' = [part EXCEPT ![n] = -1]
    /\ UNCHANGED <<diskVars, logVars, snap_part, loadVars, pos, delVars,
                   acked, crashes>>

DelReplicateNode(n) ==
    /\ synced[n] # -1
    /\ synced' = [synced EXCEPT ![n] = -1] /\ lost' = lost \ {n}
    /\ part' = [part EXCEPT ![n] = -1] /\ pos' = [pos EXCEPT ![n] = 1]
    /\ UNCHANGED <<diskVars, logVars, snap_part, loadVars, delVars, acked, crashes>>

-----------------------------------------------------------------------------
(* Snapshots and deleting parts.                                           *)

\* MemTableSnapshot::MakeSnapshot reads on from the old snapshot and stops at
\* collected_offset or at a missing entry; the new MANIFEST replaces the old one.
MakeSnapshot ==
    /\ stat = "kNormal" /\ loader = "idle"
    /\ \E k \in snap + 1 .. log_offset :
          snap + 1 .. k \subseteq Readable(snap) /\ snap' = k
    /\ UNCHANGED <<files, logVars, snap_part, loadVars, nodeVars, delVars,
                   acked, crashes>>

\* LogReplicator::SetSnapshotLogPartIndex, after MakeSnapshot.
SetSnapshotLogPartIndex ==
    /\ stat = "kNormal" /\ loader = "idle"
    /\ snap_part' = StartPart(snap)
    /\ UNCHANGED <<diskVars, logVars, loadVars, nodeVars, delVars, acked, crashes>>

\* Mutant: the replicas' readers are not considered.
MinLogIndexSnapshot == snap_part - 1

\* The newest part that neither the snapshot nor any node needs.
MinLogIndex ==
    Min({snap_part} \cup {part[n] : n \in {m \in Nodes : synced[m] # -1}}) - 1

\* LogReplicator::DeleteBinlog takes mu_ to find the parts to delete...
ChooseParts ==
    /\ stat = "kNormal" /\ loader = "idle" /\ min_log_index = -1 /\ doomed = {}
    /\ Cardinality(DOMAIN logs) > 1
    /\ MinLogIndex >= 0
    /\ min_log_index' = MinLogIndex
    /\ UNCHANGED <<diskVars, logVars, snap_part, loadVars, nodeVars, doomed,
                   acked, crashes>>

\* ... and wmu_ to split them off logs_ ...
SplitParts ==
    /\ min_log_index >= 0
    /\ logs' = [p \in {q \in DOMAIN logs : q > min_log_index} |-> logs[p]]
    /\ doomed' = {q \in DOMAIN logs : q <= min_log_index}
    /\ min_log_index' = -1
    /\ UNCHANGED <<diskVars, binlog_index, wh, log_offset, snap_part, loadVars,
                   nodeVars, acked, crashes>>

\* ... then unlinks the files, the newest first.
UnlinkPart ==
    /\ doomed # {}
    /\ files' = [p \in DOMAIN files \ {Max(doomed)} |-> files[p]]
    /\ doomed' = doomed \ {Max(doomed)}
    /\ UNCHANGED <<snap, logVars, snap_part, loadVars, nodeVars, min_log_index,
                   acked, crashes>>

-----------------------------------------------------------------------------
(* Crash and load.                                                         *)

Crash ==
    /\ stat # "down" /\ crashes < MaxCrashes
    /\ crashes' = crashes + 1
    /\ stat' = "down" /\ loader' = "idle" /\ latest' = 0
    /\ logs' = Empty /\ binlog_index' = 0 /\ wh' = -1 /\ log_offset' = 0
    /\ snap_part' = -1
    /\ part' = [n \in Nodes |-> -1] /\ pos' = [n \in Nodes |-> 1]
    /\ synced' = [n \in Nodes |-> -1] /\ lost' = {}
    /\ min_log_index' = -1 /\ doomed' = {}
    /\ UNCHANGED <<diskVars, acked>>

\* binlog_index_ after the parts ps were found.
NextIndex(ps) == IF ps = {} THEN 0 ELSE Max(ps) + 1

\* LogReplicator::Recover: a part whose first record cannot be read is left out,
\* and its name is used again.
Recover ==
    /\ stat = "down"
    /\ LET ps == {p \in DOMAIN files : files[p].log # <<>>} IN
       /\ logs' = [p \in ps |-> files[p].log[1] - 1]
       /\ binlog_index' = NextIndex(ps)
    /\ stat' = "kLoading" /\ loader' = "recover"
    /\ UNCHANGED <<diskVars, wh, log_offset, snap_part, latest, nodeVars,
                   delVars, acked, crashes>>

\* Mutant: the last part stays open.
EndedNot == files

\* RecoverFromBinlog ends the part it stopped at, unless it is ended already.
Ended ==
    IF DOMAIN logs = {} THEN files
    ELSE [files EXCEPT ![Max(DOMAIN logs)].eof = TRUE]

\* Mutant: the replay stops at the end of the first part.
ReplayedPart ==
    Max({snap} \cup IF StartPart(snap) = -1 THEN {} ELSE Entries({StartPart(snap)}))

\* latest_offset when the reader has come to the end.
Replayed == Max({snap} \cup Readable(snap))

\* Binlog::RecoverFromBinlog replays the parts behind the snapshot and makes the
\* table available.
RecoverFromBinlog ==
    /\ loader = "recover"
    /\ DOMAIN logs = {} \/ StartPart(snap) >= 0
    /\ latest' = Replayed
    /\ files' = Ended
    /\ stat' = "kNormal" /\ loader' = "set"
    /\ UNCHANGED <<snap, logVars, snap_part, nodeVars, delVars, acked, crashes>>

\* The end of LoadTableInternal, after SetTableStat(kNormal).
SetOffset ==
    /\ loader = "set"
    /\ log_offset' = latest
    /\ snap_part' = StartPart(snap)
    /\ loader' = "idle" /\ latest' = 0
    /\ UNCHANGED <<diskVars, logs, binlog_index, wh, stat, nodeVars, delVars,
                   acked, crashes>>

-----------------------------------------------------------------------------
Read(n) == ReadFirst(n) \/ ReadRecord(n) \/ ReadEof(n)

Next ==
    \/ RollWLogFile \/ AppendEntry
    \/ \E n \in Nodes : Read(n) \/ AddReplicateNode(n) \/ DelReplicateNode(n)
    \/ MakeSnapshot \/ SetSnapshotLogPartIndex
    \/ ChooseParts \/ SplitParts \/ UnlinkPart
    \/ Crash \/ Recover \/ RecoverFromBinlog \/ SetOffset

Spec == Init /\ [][Next]_vars

\* The bthread of a ReplicateNode keeps reading.
FairSpec == Spec /\ \A n \in Nodes : WF_vars(Read(n))

-----------------------------------------------------------------------------
(* Properties.                                                             *)

\* Loading a table brings back every entry whose append succeeded, whatever
\* was snapshotted, deleted, unlinked halfway or left open by earlier crashes.
RecoversAll == stat = "kNormal" /\ loader = "idle" => log_offset = acked

\* Deleting parts never takes an entry that a replica still has to get: it is in
\* the part the node's reader is at or in a later one.  A replica attached when
\* what it misses was already gone, or chosen by DeleteBinlog, is the exception.
NodesCanRead ==
    loader = "idle" => \A n \in Nodes \ lost : synced[n] >= 0 =>
        synced[n] + 1 .. log_offset
            \subseteq IF part[n] = -1 THEN Readable(synced[n])
                      ELSE Entries({p \in DOMAIN logs : p >= part[n]})

\* A replica that stays attached gets every entry: no reader waits for ever at
\* the end of a part, also not of one that was left open by a crash.  One that was
\* attached too late (lost) waits for ever.
ReplicasCatchUp ==
    \A n \in Nodes :
        <>[](synced[n] >= 0 /\ n \notin lost) => []<>(synced[n] >= log_offset)
=============================================================================
