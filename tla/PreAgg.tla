------------------------------- MODULE PreAgg -------------------------------
(***************************************************************************)
(* Pre-aggregation of long windows: the Aggregator beside a base table     *)
(* (src/storage/aggregator.cc), the calls the tablet makes to it           *)
(* (src/tablet/tablet_impl.cc), and RequestAggUnionRunner, which answers a *)
(* window from blocks of the aggregate table and rows of the base table    *)
(* (hybridse/src/vm/runner.cc).                                            *)
(*                                                                         *)
(* Abstractions.  One key and no filter column.  An aggregate is the bag   *)
(* of the rows that were added to it, so what it says is what sum, count   *)
(* and avg say of every choice of values, and num_rows is its size.  The   *)
(* window is a time range without maxsize.  A query is evaluated in one    *)
(* state.  The aggregate table is the sequence its iterator visits: by     *)
(* descending ts_start, of equal ones the last put first.  Its own binlog  *)
(* keeps all of it, and it is loaded before the base table.  A delete      *)
(* names its key, and what it does to the aggregator is one step.          *)
(***************************************************************************)
EXTENDS Integers, Sequences, FiniteSets, FiniteSetsExt, SequencesExt

CONSTANTS
    Size,           \* window_size_: the length, or the number of rows, of a block
    MaxTime,        \* bound: times of rows
    MaxRows,        \* bound: rows put
    Workloads       \* the type of the blocks, what happens besides puts in order,
                    \* and bounds: the times of rows, and how many rows are put
                    \* and deletes, binlog deletions and restarts happen

None == -1
Happenings == {"late", "tie", "overlap", "flush", "race", "delete", "gap", "restart"}

ASSUME PreAggAssumption ==
    /\ Size \in Nat \ {0} /\ MaxTime \in Nat /\ MaxRows \in Nat
    /\ \A w \in Workloads :
          /\ w.type \in {"kRowsRange", "kRowsNum"} /\ w.happens \subseteq Happenings
          /\ w.times \subseteq 0 .. MaxTime /\ w.rows \in 0 .. MaxRows /\ w.runs \in Nat

VARIABLES
    load,           \* the workload of this behaviour
    ts,             \* the times of the rows put so far; a row is its position
    base,           \* the rows in the base table
    log,            \* the base table's binlog: rows and ranges of deletes
    first,          \* how many of its entries are deleted: GetMinOffset
    flight,         \* rows in the base table whose Put has not returned
    upd,            \* the Update that runs under the replicator's lock
    buf,            \* aggr_buffer_map_[key]; begin None when there is none
    aggr,           \* the aggregate table
    deleted,        \* SchedDelBinlog has deleted a part and not called FlushAll yet
    copy,           \* the copy of the buffer that FlushAll is about to put
    del,            \* the Delete that runs: "aggr" or "log" is its next step
    rec,            \* the log entry that Aggregator::Init replays next, or 0
    runs,           \* deletes, binlog deletions and restarts so far
    lost, twice     \* history: rows that a block may lack, or have again

opVars == <<deleted, copy, del, rec, runs, lost, twice>>
vars == <<load, ts, base, log, first, flight, upd, buf, aggr, opVars>>

Rows == 1 .. MaxRows
Happens(h) == h \in load.happens

RowsRange == load.type = "kRowsRange"

\* AggrBuffer, also as it is encoded into a row of the aggregate table; begin is
\* None until IsInited, and aggr_cnt_ is the size of val.
NoRows == [r \in Rows |-> 0]
NoBuffer == [begin |-> None, end |-> 0, off |-> 0, val |-> NoRows]
AggrCnt(b) == MapThenSumSet(LAMBDA r : b.val[r], Rows)

Idle == [pc |-> "idle", row |-> 0, off |-> 0, old |-> NoBuffer]
NoDelete == [pc |-> "idle", row |-> 0, start |-> None, end |-> None]

Init ==
    /\ load \in Workloads
    /\ ts = <<>> /\ base = {} /\ log = <<>> /\ first = 0 /\ flight = {}
    /\ upd = Idle /\ buf = NoBuffer /\ aggr = <<>>
    /\ deleted = FALSE /\ copy = NoBuffer /\ del = NoDelete /\ rec = 0
    /\ runs = 0 /\ lost = {} /\ twice = {}

-----------------------------------------------------------------------------
(* The parts of Aggregator::Update.                                        *)

AlignedStart(t) == IF RowsRange THEN (t \div Size) * Size ELSE t

\* A buffer that begins at b, without rows.
Fresh(b, off) ==
    [begin |-> b, end |-> IF RowsRange THEN b + Size - 1 ELSE 0,
     off |-> off, val |-> NoRows]

Opened(b, t) == IF b.begin = None THEN Fresh(AlignedStart(t), b.off) ELSE b

CheckBufferFilled(b, t) == IF RowsRange THEN t > b.end ELSE AggrCnt(b) >= Size

UpdateAggrVal(b, r) == [b EXCEPT !.val[r] = @ + 1]

Added(b, r, off) ==
    UpdateAggrVal([b EXCEPT !.off = off, !.end = IF RowsRange THEN @ ELSE ts[r]], r)

FlushAggrBuffer(a, b) == InsertAt(a, 1 + Len(SelectSeq(a, LAMBDA x : x.begin > b.begin)), b)

\* Mutant: the row starts its block anew.
UpdateFlushedBufferAnew(a, r, off) ==
    FlushAggrBuffer(a, UpdateAggrVal(Fresh(AlignedStart(ts[r]), off), r))

\* The row is older than the buffer: a new version of the block it belongs to, or
\* a new block.
UpdateFlushedBuffer(a, r, off) ==
    LET t == ts[r]
        older == SelectSeq(a, LAMBDA x : x.begin <= t)
        found == older # <<>> /\ t <= older[1].end
        new == [Fresh(AlignedStart(t), off) EXCEPT !.end = IF RowsRange THEN @ ELSE t]
        block == IF found THEN [older[1] EXCEPT !.off = Max({@, off})] ELSE new
    IN  FlushAggrBuffer(a, UpdateAggrVal(block, r))

-----------------------------------------------------------------------------
(* Aggregator::Delete of the rows with end < time <= start.  None is an    *)
(* absent bound; s is the buffer and the aggregate table, b the base       *)
(* table's rows, from which the delete has been taken already.             *)

Forever == MaxTime + 2 * Size

RebuildAggrBuffer(x, b) ==
    [x EXCEPT !.val = [r \in Rows |->
        IF r \in b /\ ts[r] \in x.begin .. x.end THEN 1 ELSE 0]]

DeleteData(a, start, end) ==
    SelectSeq(a, LAMBDA x : (start # None /\ x.begin > start) \/ x.begin <= end)

BufferAffected(x, real, end) == x.begin # None /\ real >= x.begin /\ end < x.end

Less(t) == IF t > 0 THEN t - 1 ELSE 0

\* One round of the loop over the blocks.  d holds real_start_ts, the range of
\* blocks to delete, and the aggregate table so far.
DeleteBlock(d, x, start, end, b) ==
    LET real == IF d.first /\ end < x.end /\ x.end < d.real THEN x.end ELSE d.real
        n == [d EXCEPT !.real = real, !.first = FALSE]
        rebuilt == FlushAggrBuffer(d.aggr, RebuildAggrBuffer(x, b))
        covered == IF end # None /\ real <= x.end THEN x.begin ELSE d.to
    IN  IF d.done \/ x.begin > d.seek THEN d
        ELSE IF real \in x.begin .. x.end
        THEN [n EXCEPT !.aggr = rebuilt, !.from = Less(x.begin), !.to = covered,
                       !.done = end = None \/ end >= x.begin,
                       !.keep = end # None /\ end >= x.begin]
        ELSE IF end = None THEN n
        ELSE IF end >= x.end THEN [n EXCEPT !.to = covered, !.done = TRUE]
        ELSE IF end >= x.begin
        THEN LET adjacent == d.from # None /\ d.from <= x.end
             IN  [n EXCEPT !.aggr = rebuilt, !.done = TRUE,
                           !.from = IF adjacent THEN None ELSE @,
                           !.to = IF adjacent THEN None ELSE x.end]
        ELSE [n EXCEPT !.to = Less(x.begin)]

DeleteRange(s, start, end, b) ==
    LET real == IF start = None THEN Forever ELSE start
        d0 == [real |-> real, first |-> TRUE, from |-> None, to |-> None, aggr |-> s.aggr,
               seek |-> IF RowsRange /\ start # None THEN start + Size ELSE Forever,
               done |-> FALSE, keep |-> FALSE]
        d == FoldLeft(LAMBDA x, y : DeleteBlock(x, y, start, end, b), d0, s.aggr)
        keep == d.keep \/ (d.from = None /\ d.to = None)
                       \/ (d.from # None /\ d.to # None /\ d.from <= d.to)
    IN  [buf |-> IF BufferAffected(s.buf, real, end)
                 THEN RebuildAggrBuffer(s.buf, b) ELSE s.buf,
         aggr |-> IF keep THEN d.aggr ELSE DeleteData(d.aggr, d.from, d.to)]

AggregatorDelete(s, start, end, b) ==
    IF start = None /\ end = None
    THEN [buf |-> NoBuffer, aggr |-> DeleteData(s.aggr, None, None)]
    ELSE DeleteRange(s, start, end, b)

-----------------------------------------------------------------------------
(* Aggregator::Init: the buffer from the newest block, then the base       *)
(* table's binlog.                                                         *)

Covers(e, r) == e.row = 0 /\ ts[r] > e.end /\ (e.start = None \/ ts[r] <= e.start)

LoggedRows ==
    {r \in DOMAIN ts : \E i \in DOMAIN log :
        log[i].row = r /\ \A j \in i + 1 .. Len(log) : ~Covers(log[j], r)}

AfterNewest(a) == IF a = <<>> THEN NoBuffer ELSE Fresh(a[1].end + 1, a[1].off + 1)

RecoverRow(s, r, off) ==
    LET b == Opened(s.buf, ts[r])
    IN  IF off < b.off \/ ts[r] < b.begin THEN [s EXCEPT !.buf = b]
        ELSE IF CheckBufferFilled(b, ts[r])
        THEN [buf |-> Added(Fresh(AlignedStart(ts[r]), b.off + 1), r, off),
              aggr |-> FlushAggrBuffer(s.aggr, b)]
        ELSE [s EXCEPT !.buf = Added(b, r, off)]

ReplayEntry(s, i) ==
    IF log[i].row # 0 THEN RecoverRow(s, log[i].row, i)
    ELSE AggregatorDelete(s, log[i].start, log[i].end, base)

-----------------------------------------------------------------------------
(* The tablet's handlers.                                                  *)

\* What the clients of the workload put: without "late", "tie" and "gap" the rows
\* come in the order of their times, at different times, and leave out no block.
InOrder(t) ==
    /\ Happens("late") \/ \A r \in DOMAIN ts : ts[r] <= t
    /\ Happens("tie") \/ \A r \in DOMAIN ts : ts[r] # t
    /\ Happens("gap") \/ ts = <<>>
          \/ \E r \in DOMAIN ts : AlignedStart(ts[r]) >= AlignedStart(t) - Size

\* Put: the row is in the base table before it is in the log.
Put(t) ==
    /\ Len(ts) < load.rows /\ InOrder(t) /\ rec = 0
    /\ flight = {} \/ Happens("overlap")
    /\ (~deleted /\ copy = NoBuffer /\ del = NoDelete) \/ Happens("race")
    /\ ts' = Append(ts, t)
    /\ base' = base \cup {Len(ts) + 1}
    /\ flight' = flight \cup {Len(ts) + 1}
    /\ twice' = IF del = NoDelete THEN twice ELSE twice \cup {Len(ts) + 1}
    /\ UNCHANGED <<load, log, first, upd, buf, aggr, deleted, copy, del, rec, runs, lost>>

\* AppendEntry, and Update inside its lock up to where the buffer is unlocked.  An
\* offset below the buffer's would be refused ("logical error").
AppendEntry(r) ==
    LET off == Len(log) + 1
        b == Opened(buf, ts[r])
        At(pc, old) == [pc |-> pc, row |-> r, off |-> off, old |-> old]
    IN  /\ r \in flight /\ upd = Idle
        /\ log' = Append(log, [row |-> r, start |-> None, end |-> None])
        /\ off >= b.off
        /\ \/ /\ ts[r] < b.begin
              /\ upd' = At("late", NoBuffer) /\ buf' = b /\ UNCHANGED flight
           \/ /\ ts[r] >= b.begin /\ CheckBufferFilled(b, ts[r])
              /\ upd' = At("flush", b) /\ buf' = Fresh(AlignedStart(ts[r]), b.off + 1)
              /\ UNCHANGED flight
           \/ /\ ts[r] >= b.begin /\ ~CheckBufferFilled(b, ts[r])
              /\ upd' = Idle /\ buf' = Added(b, r, off) /\ flight' = flight \ {r}
        /\ UNCHANGED <<load, ts, base, first, aggr, opVars>>

UpdateLate ==
    /\ upd.pc = "late"
    /\ aggr' = UpdateFlushedBuffer(aggr, upd.row, upd.off)
    /\ upd' = Idle /\ flight' = flight \ {upd.row}
    /\ UNCHANGED <<load, ts, base, log, first, buf, opVars>>

FlushFilled ==
    /\ upd.pc = "flush"
    /\ aggr' = FlushAggrBuffer(aggr, upd.old)
    /\ upd' = [upd EXCEPT !.pc = "add", !.old = NoBuffer]
    /\ UNCHANGED <<load, ts, base, log, first, flight, buf, opVars>>

AddToFresh ==
    /\ upd.pc = "add"
    /\ buf' = Added(buf, upd.row, upd.off)
    /\ upd' = Idle /\ flight' = flight \ {upd.row}
    /\ UNCHANGED <<load, ts, base, log, first, aggr, opVars>>

\* SchedDelBinlog: some of the entries a snapshot has are deleted.
DeleteBinlog ==
    /\ Happens("flush") /\ runs < load.runs /\ rec = 0 /\ ~deleted /\ copy = NoBuffer
    /\ (flight = {} /\ del = NoDelete) \/ Happens("race")
    /\ first' \in first + 1 .. Len(log)
    /\ deleted' = TRUE /\ runs' = runs + 1
    /\ UNCHANGED <<load, ts, base, log, flight, upd, buf, aggr, copy, del, rec, lost, twice>>

\* Then FlushAll copies the buffers under mu_, which Update does not hold while it
\* changes a buffer, and puts the copies.
FlushAll ==
    /\ deleted /\ deleted' = FALSE
    /\ copy' = IF AggrCnt(buf) > 0 THEN buf ELSE NoBuffer
    /\ UNCHANGED <<load, ts, base, log, first, flight, upd, buf, aggr, del, rec, runs, lost, twice>>

\* The copy may come after a newer version of its block, or after a delete.
FlushCopy ==
    LET newer == {i \in DOMAIN aggr : aggr[i].begin = copy.begin}
    IN  /\ copy # NoBuffer
        /\ aggr' = FlushAggrBuffer(aggr, copy)
        /\ copy' = NoBuffer
        /\ lost' = lost \cup {r \in Rows : \E i \in newer : aggr[i].val[r] > copy.val[r]}
        /\ twice' = twice \cup {r \in Rows \ base : copy.val[r] > 0}
        /\ UNCHANGED <<load, ts, base, log, first, flight, upd, buf, deleted, del, rec, runs>>

\* Delete: the base table, then the aggregator, then the log, without a lock.
Delete(start, end) ==
    LET e == [pc |-> "aggr", row |-> 0, start |-> start, end |-> end]
    IN  /\ Happens("delete") /\ runs < load.runs /\ rec = 0 /\ del = NoDelete
        /\ (flight = {} /\ ~deleted /\ copy = NoBuffer) \/ Happens("race")
        /\ start = None \/ end < start
        /\ base' = {r \in base : ~Covers(e, r)}
        /\ del' = e /\ runs' = runs + 1
        /\ twice' = twice \cup flight
        /\ UNCHANGED <<load, ts, log, first, flight, upd, buf, aggr, deleted, copy, rec, lost>>

DeleteFromAggr ==
    LET s == AggregatorDelete([buf |-> buf, aggr |-> aggr], del.start, del.end, base)
    IN  /\ del.pc = "aggr"
        /\ buf' = s.buf /\ aggr' = s.aggr
        /\ del' = [del EXCEPT !.pc = "log"]
        /\ twice' = twice \cup {r \in DOMAIN ts : upd.old.val[r] > 0 /\ Covers(del, r)}
        /\ UNCHANGED <<load, ts, base, log, first, flight, upd, deleted, copy, rec, runs, lost>>

DeleteLogged ==
    /\ del.pc = "log"
    /\ log' = Append(log, [row |-> 0, start |-> del.start, end |-> del.end])
    /\ del' = NoDelete
    /\ UNCHANGED <<load, ts, base, first, flight, upd, buf, aggr, deleted, copy, rec, runs, lost, twice>>

-----------------------------------------------------------------------------
(* The tablet stops at any point and loads both tables again.              *)

Replayed(i) == IF i > Len(log) THEN 0 ELSE i

\* Rows of the open block that recovery will not find in the log, or will skip, and
\* rows that an unfinished Delete or Update has not brought to the log or a block.
Position(r) == CHOOSE i \in DOMAIN log : log[i].row = r
Open(r) == buf.val[r] > 0 \/ upd.old.val[r] > 0
Skipped(r) ==
    /\ Open(r) /\ \A i \in DOMAIN aggr : aggr[i].val[r] = 0
    /\ \/ Position(r) <= first
       \/ /\ RowsRange /\ aggr # <<>> /\ load.happens \cap {"late", "gap", "flush"} # {}
          /\ Position(r) <= aggr[1].off \/ ts[r] <= aggr[1].end
Unfinished(r) ==
    \/ upd.pc = "late" /\ upd.row = r
    \/ del.pc = "log" /\ Covers(del, r)

Restart ==
    /\ Happens("restart") /\ runs < load.runs
    /\ base' = LoggedRows /\ buf' = AfterNewest(aggr) /\ rec' = Replayed(first + 1)
    /\ flight' = {} /\ upd' = Idle /\ deleted' = FALSE /\ copy' = NoBuffer
    /\ del' = NoDelete /\ runs' = runs + 1
    /\ lost' = lost \cup {r \in DOMAIN ts : Skipped(r) \/ Unfinished(r)}
    /\ UNCHANGED <<load, ts, log, first, aggr, twice>>

\* A delete is replayed on blocks and a base table that have the rows of the entries
\* behind it.
Again(i) ==
    LET e == log[i]
        real == IF e.start = None THEN Forever ELSE e.start
    IN  {r \in base : /\ e.row = 0 /\ Position(r) > i
                      /\ \/ Covers(e, r)
                         \/ BufferAffected(buf, real, e.end) /\ ts[r] \in buf.begin .. buf.end}

RecoverEntry ==
    LET s == ReplayEntry([buf |-> buf, aggr |-> aggr], rec)
    IN  /\ rec # 0
        /\ buf' = s.buf /\ aggr' = s.aggr
        /\ rec' = Replayed(rec + 1)
        /\ twice' = twice \cup Again(rec)
        /\ UNCHANGED <<load, ts, base, log, first, flight, upd, deleted, copy, del, runs, lost>>

Next ==
    \/ \E t \in load.times : Put(t)
    \/ \E r \in flight : AppendEntry(r)
    \/ UpdateLate \/ FlushFilled \/ AddToFresh
    \/ DeleteBinlog \/ FlushAll \/ FlushCopy
    \/ \E start, end \in load.times \cup {None} : Delete(start, end)
    \/ DeleteFromAggr \/ DeleteLogged
    \/ Restart \/ RecoverEntry

Spec == Init /\ [][Next]_vars

-----------------------------------------------------------------------------
(* RequestAggUnionRunner::RequestUnionWindow of the window from s to e.    *)

BaseIn(lo, hi) == {r \in base : ts[r] \in lo .. hi}

\* The blocks at which the search for the first block inside the window looks.
Looked(e) ==
    LET k == Len(SelectSeq(aggr, LAMBDA x : x.begin > e)) + 1
    IN  {i \in k .. Len(aggr) : \A j \in k .. i - 1 : aggr[j].end > e}

Query(s, e) ==
    LET at == IF Looked(e) = {} THEN 0 ELSE Max(Looked(e))
        found == at # 0 /\ aggr[at].end <= e
        use == at # 0 /\ aggr[at].begin >= s
        end_base == IF use THEN aggr[at].end ELSE s
        inside == IF use /\ found /\ s + 1 <= end_base
                  THEN {i \in at .. Len(aggr) : aggr[i].begin >= s} ELSE {}
        blocks == {i \in inside : i = at \/ aggr[i - 1].begin # aggr[i].begin}
        start_base == IF inside = {} THEN s + 1
                      ELSE IF Max(inside) = Len(aggr) THEN aggr[Len(aggr)].begin
                      ELSE aggr[Max(inside) + 1].end + 1
    IN  [r \in DOMAIN ts |->
            (IF r \in BaseIn(s, e) /\ ts[r] > end_base THEN 1 ELSE 0)
            + MapThenSumSet(LAMBDA i : aggr[i].val[r], blocks)
            + (IF r \in BaseIn(s, start_base - 1) THEN 1 ELSE 0)]

-----------------------------------------------------------------------------
(* Properties.                                                             *)

\* Rows of a block that is not complete, or not flushed again, of which FlushAll
\* put an earlier version.
Unflushed ==
    {r \in DOMAIN ts : \E b \in {buf, upd.old} :
        b.val[r] > 0 /\ \E i \in DOMAIN aggr : aggr[i].begin = b.begin}

\* Rows of a delete that runs, or that recovery has not replayed yet.
Deleting ==
    {r \in DOMAIN ts : \/ del # NoDelete /\ Covers(del, r)
                       \/ rec # 0 /\ \E i \in rec .. Len(log) : Covers(log[i], r)}

\* The search went over all blocks before the end of the window, and the last of
\* them ends behind it: what the loop leaves in ts_start and ts_end (line 1770) is
\* then taken for a block inside the window.
EndsInOldest(s, e) ==
    LET at == Max(Looked(e))
    IN  Looked(e) # {} /\ aggr[at].end > e /\ aggr[at].begin >= s

\* A window that is answered with pre-aggregated blocks has every row of the base
\* table once, and no other row: whatever order rows come in, whichever block is
\* being switched, flushed, rebuilt by a delete or recovered after a crash, also in
\* the middle of a recovery.  A row whose Put has not returned, whose delete is
\* under way, whose block FlushAll put too early, or that a crash kept from its
\* block (Skipped, Unfinished) may be missing, and is never counted twice.  Nothing
\* is said of rows logged behind a delete that is replayed (Again), and of those
\* that were put or copied while a delete of them ran.
QueryExact ==
    \A s, e \in 0 .. MaxTime : s <= e /\ ~EndsInOldest(s, e) =>
        LET q == Query(s, e) IN
        \A r \in DOMAIN ts \ twice :
            IF r \in flight \cup Deleting \cup Unflushed \cup lost THEN q[r] <= 1
            ELSE q[r] = IF r \in BaseIn(s, e) THEN 1 ELSE 0
=============================================================================
