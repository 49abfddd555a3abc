------------------------------ MODULE BulkLoad ------------------------------
(***************************************************************************)
(* Bulk loading one memory table partition (src/tablet/bulk_load_mgr.cc,   *)
(* data_receiver.cc and TabletImpl::BulkLoad).                             *)
(*                                                                         *)
(* An importer sends the partition as a numbered sequence of parts: first  *)
(* the data region (rows), then the index region (which row goes where),   *)
(* the last part marked eof.  It sends a part only after the previous one  *)
(* was acknowledged, never retries, and gives up at the first error or     *)
(* timeout (BulkLoadGenerator.sendRequest, setMaxTryTimes(1)).  On the     *)
(* tablet every request is a handler thread whose steps are separated by   *)
(* the locks it takes: catalog_mu_ of the manager and mu_ of the receiver. *)
(*                                                                         *)
(* Abstractions: a data part carries one block, which is named by its      *)
(* importer and part number; an index part links every block of the        *)
(* receiver.  The replicator exists and its disk writes succeed.           *)
(***************************************************************************)
EXTENDS Naturals, Sequences, FiniteSets, Functions

CONSTANTS
    Importers,  \* importer runs; each loads the partition once
    NData,      \* number of data region parts of a load
    NIndex,     \* number of index region parts of a load
    Mixed,      \* those whose last data request carries an index region too
    None        \* no receiver

ASSUME BulkLoadAssumption ==
    /\ NData \in Nat \ {0} /\ NIndex \in Nat \ {0}
    /\ Mixed \subseteq Importers
    /\ None \notin Importers

VARIABLES
    catalog,    \* catalog_[tid][pid]: the importer whose part 0 created it
    receiver,   \* the DataReceiver created by each importer's part 0
    handler,    \* the tablet thread serving each importer's current request
    client,     \* each importer's progress
    table,      \* <<index part, block>> entries linked into the segments
    expire,     \* MemTable gc switch (SetExpire)
    binlog      \* blocks appended to the partition's binlog

vars == <<catalog, receiver, handler, client, table, expire, binlog>>

LastPart == NData + NIndex - 1
Parts == 0 .. LastPart
HasData(p) == p < NData
HasIndex(i, p) == p >= NData \/ (i \in Mixed /\ p = NData - 1)
IsEof(p) == p = LastPart

Block == Importers \X Parts
\* Mutant: next_part_id_ is not initialised.
NewReceiverUninit == [next_part_id |-> LastPart + 2, data_blocks |-> <<>>]
NewReceiver == [next_part_id |-> 0, data_blocks |-> <<>>]
Idle == [pc |-> "idle", ref |-> None]

HandlerPc == {"idle", "check", "append_get", "append", "binlog_get", "binlog",
              "set_expire", "load_get", "load", "remove", "enable_expire",
              "ok", "error"}

TypeOK ==
    /\ catalog \in Importers \cup {None}
    /\ receiver \in [Importers -> [next_part_id : 0 .. LastPart + 1,
                                   data_blocks : Seq(Block)]]
    /\ handler \in [Importers -> [pc : HandlerPc, ref : Importers \cup {None}]]
    /\ client \in [Importers -> [pc : {"ready", "wait", "done", "failed"},
                                 part : 0 .. LastPart + 1]]
    /\ table \subseteq Parts \X Block
    /\ expire \in BOOLEAN
    /\ binlog \in Seq(Block)

Init ==
    /\ catalog = None
    /\ receiver = [i \in Importers |-> NewReceiver]
    /\ handler = [i \in Importers |-> Idle]
    /\ client = [i \in Importers |-> [pc |-> "ready", part |-> 0]]
    /\ table = {}
    /\ expire = TRUE
    /\ binlog = <<>>

-----------------------------------------------------------------------------
(* The importer.                                                           *)

SendRequest(i) ==
    /\ client[i].pc = "ready"
    /\ handler[i].pc = "idle"
    /\ client' = [client EXCEPT ![i].pc = "wait"]
    /\ handler' = [handler EXCEPT ![i] = [pc |-> "check", ref |-> None]]
    /\ UNCHANGED <<catalog, receiver, table, expire, binlog>>

\* The RPC times out; the importer gives up while the handler goes on.
Timeout(i) ==
    /\ client[i].pc = "wait"
    /\ client' = [client EXCEPT ![i].pc = "failed"]
    /\ UNCHANGED <<catalog, receiver, handler, table, expire, binlog>>

\* The handler's answer.  A lost or late answer is a Timeout.
Respond(i) ==
    /\ handler[i].pc \in {"ok", "error"}
    /\ handler' = [handler EXCEPT ![i] = Idle]
    /\ client' =
         IF client[i].pc # "wait" THEN client
         ELSE IF handler[i].pc = "error"
           THEN [client EXCEPT ![i].pc = "failed"]
         ELSE IF IsEof(client[i].part)
           THEN [client EXCEPT ![i].pc = "done"]
         ELSE [client EXCEPT ![i] = [pc |-> "ready", part |-> @.part + 1]]
    /\ UNCHANGED <<catalog, receiver, table, expire, binlog>>

-----------------------------------------------------------------------------
(* TabletImpl::BulkLoad, one step per critical section.                    *)

Goto(i, pc) == handler' = [handler EXCEPT ![i].pc = pc]

AfterIndex(p) == IF IsEof(p) THEN "remove" ELSE "ok"
\* Mutant: a request with an index region skips loading it.
AfterDataNoIndex(i, p) == AfterIndex(p)
AfterData(i, p) == IF HasIndex(i, p) THEN "set_expire" ELSE AfterIndex(p)

\* The checks before any data is touched: they may refuse the request (the
\* table is a follower, is loading, or does not exist).
Check(i) ==
    /\ handler[i].pc = "check"
    /\ \/ Goto(i, "error")
       \/ Goto(i, IF HasData(client[i].part) THEN "append_get"
                  ELSE AfterData(i, client[i].part))
    /\ UNCHANGED <<catalog, receiver, client, table, expire, binlog>>

\* Mutant: creating over an existing receiver shares it.
GetDataReceiverShare(i, create) ==
    IF create /\ catalog = None THEN i ELSE catalog

\* GetDataReceiver(tid, pid, create), under catalog_mu_: the receiver it
\* returns, None for nullptr.  Creating over an existing receiver is refused.
GetDataReceiver(i, create) ==
    IF ~create THEN catalog ELSE IF catalog = None THEN i ELSE None

\* BulkLoadMgr::AppendData looks the receiver up; part 0 has to create it.
AppendGet(i) ==
    LET create == client[i].part = 0
        ref == GetDataReceiver(i, create)
    IN /\ handler[i].pc = "append_get"
       /\ catalog' = IF create /\ ref # None THEN ref ELSE catalog
       /\ handler' = [handler EXCEPT ![i] =
                        [pc |-> IF ref = None THEN "error" ELSE "append",
                         ref |-> ref]]
       /\ UNCHANGED <<receiver, client, table, expire, binlog>>

\* DataReceiver::PartValidation: only the next part is accepted.
PartValidation(r, p) == p = receiver[r].next_part_id

\* DataReceiver::AppendData, under mu_.  The part id is consumed first; when
\* the attachment does not match the block sizes the blocks are reverted, the
\* part id is not.
AppendData(i) ==
    LET r == handler[i].ref  p == client[i].part IN
    /\ handler[i].pc = "append"
    /\ \/ /\ ~PartValidation(r, p)
          /\ UNCHANGED receiver
          /\ Goto(i, "error")
       \/ /\ PartValidation(r, p)
          /\ receiver' = [receiver EXCEPT
                ![r] = [next_part_id |-> p + 1,
                        data_blocks |-> Append(@.data_blocks, <<i, p>>)]]
          /\ Goto(i, "binlog_get")
       \/ /\ PartValidation(r, p)
          /\ receiver' = [receiver EXCEPT ![r].next_part_id = p + 1]
          /\ Goto(i, "error")
    /\ UNCHANGED <<catalog, client, table, expire, binlog>>

\* The binlog infos are counted (a mismatch ends the request, the block stays),
\* then WriteBinlogToReplicator looks the receiver up.
BinlogGet(i) ==
    LET ref == GetDataReceiver(i, FALSE) IN
    /\ handler[i].pc = "binlog_get"
    /\ \/ Goto(i, "error")
       \/ handler' = [handler EXCEPT ![i] =
                        [pc |-> IF ref = None THEN AfterData(i, client[i].part)
                                ELSE "binlog",
                         ref |-> ref]]
    /\ UNCHANGED <<catalog, receiver, client, table, expire, binlog>>

\* Mutant: compares with the part still to come.
IsLatestPartNext(r, p) == p = receiver[r].next_part_id

IsLatestPart(r, p) == p = receiver[r].next_part_id - 1

\* DataReceiver::WriteBinlogToReplicator, under mu_.  A part id that is no
\* longer the latest is only logged: the request goes on without a binlog.
WriteBinlogToReplicator(i) ==
    LET r == handler[i].ref  p == client[i].part IN
    /\ handler[i].pc = "binlog"
    /\ binlog' = IF IsLatestPart(r, p)
                   THEN Append(binlog, receiver[r].data_blocks[Len(receiver[r].data_blocks)])
                   ELSE binlog
    /\ Goto(i, AfterData(i, p))
    /\ UNCHANGED <<catalog, receiver, client, table, expire>>

\* Gc is switched off before every index region.
SetExpireFalse(i) ==
    /\ handler[i].pc = "set_expire"
    /\ expire' = FALSE
    /\ Goto(i, "load_get")
    /\ UNCHANGED <<catalog, receiver, client, table, binlog>>

LoadGet(i) ==
    LET ref == GetDataReceiver(i, FALSE) IN
    /\ handler[i].pc = "load_get"
    /\ handler' = [handler EXCEPT ![i] =
                     [pc |-> IF ref = None THEN "error" ELSE "load",
                      ref |-> ref]]
    /\ UNCHANGED <<catalog, receiver, client, table, expire, binlog>>

\* DataReceiver::BulkLoad, under mu_: validates the part id and links every
\* block into the segments (MemTable::BulkLoad), or some of them up to an entry
\* that names a block the receiver does not have.
LoadIndex(i) ==
    LET r == handler[i].ref  p == client[i].part IN
    /\ handler[i].pc = "load"
    /\ \/ /\ ~PartValidation(r, p)
          /\ UNCHANGED <<receiver, table>>
          /\ Goto(i, "error")
       \/ /\ PartValidation(r, p)
          /\ receiver' = [receiver EXCEPT ![r].next_part_id = p + 1]
          /\ table' = table \cup {<<p, b>> : b \in Range(receiver[r].data_blocks)}
          /\ Goto(i, AfterIndex(p))
       \/ /\ PartValidation(r, p)
          /\ receiver' = [receiver EXCEPT ![r].next_part_id = p + 1]
          /\ \E linked \in SUBSET Range(receiver[r].data_blocks) :
                table' = table \cup {<<p, b>> : b \in linked}
          /\ Goto(i, "error")
    /\ UNCHANGED <<catalog, client, expire, binlog>>

\* BulkLoadMgr::RemoveReceiver at eof.
RemoveReceiver(i) ==
    /\ handler[i].pc = "remove"
    /\ catalog' = None
    /\ Goto(i, "enable_expire")
    /\ UNCHANGED <<receiver, client, table, expire, binlog>>

SetExpireTrue(i) ==
    /\ handler[i].pc = "enable_expire"
    /\ expire' = TRUE
    /\ Goto(i, "ok")
    /\ UNCHANGED <<catalog, receiver, client, table, binlog>>

-----------------------------------------------------------------------------
HandlerStep(i) ==
    \/ Check(i) \/ AppendGet(i) \/ AppendData(i)
    \/ BinlogGet(i) \/ WriteBinlogToReplicator(i)
    \/ SetExpireFalse(i) \/ LoadGet(i) \/ LoadIndex(i)
    \/ RemoveReceiver(i) \/ SetExpireTrue(i) \/ Respond(i)

\* Every importer has stopped: nothing is left to do.
AllStopped ==
    /\ \A i \in Importers : client[i].pc \in {"done", "failed"}
                            /\ handler[i].pc = "idle"
    /\ UNCHANGED vars

Next ==
    \/ \E i \in Importers : SendRequest(i) \/ Timeout(i) \/ HandlerStep(i)
    \/ AllStopped

Spec == Init /\ [][Next]_vars

-----------------------------------------------------------------------------
(* Properties.                                                             *)

\* The blocks a DataReceiver caches all come from the importer whose part 0
\* created it: a second importer never gets a row into a load that is under
\* way, whatever the order of the handlers.
OneImporterPerLoad ==
    \A r \in Importers : \A b \in Range(receiver[r].data_blocks) : b[1] = r

\* When an importer was told that its eof part succeeded, every index part of
\* it is linked for each of its rows, and the binlog holds its rows and no
\* others of it, each once and in their order.
DoneMeansComplete ==
    \A i \in Importers : client[i].pc = "done" =>
        /\ \A p \in NData .. LastPart, q \in 0 .. NData - 1 :
              <<p, <<i, q>>>> \in table
        /\ \A q \in 0 .. NData - 1 : <<i, q>> \in Range(binlog)
        /\ \A k \in DOMAIN binlog : binlog[k][1] = i => binlog[k][2] < NData
        /\ \A k, l \in DOMAIN binlog :
              k < l /\ binlog[k][1] = i /\ binlog[l][1] = i => binlog[k][2] < binlog[l][2]

\* A row that readers can see in the table is in the binlog, so the replicas
\* get it too: WriteBinlogToReplicator's path for a part id that is not the latest,
\* which is only logged, never leaves a visible row behind.  The other outcomes that
\* are only logged, a missing replicator (tablet_impl.cc:5766) and an AppendEntry
\* that fails (data_receiver.cc:116), are assumed not to happen.
TableRowsLogged == \A e \in table : e[2] \in Range(binlog)
=============================================================================
