------------------------------- MODULE MemTable -------------------------------
(* A memory table of a tablet (MemTable, Segment, NodeCache, KeyEntry and the  *)
(* level-0 links of Skiplist): its inner indexes, each a segment that maps a   *)
(* key to one KeyEntry per ts column, each with a list of rows that is ordered *)
(* by falling time.                                                            *)
(*                                                                             *)
(* Writers and the gc task change a segment under its mutex mu_.  Readers walk *)
(* the lists without it; they count themselves in refs_ of the KeyEntry.  The  *)
(* range delete looks the KeyEntry up, and walks its list, without either.     *)
(* Memory that a delete takes out of a list waits in the node cache for some   *)
(* rounds of gc; memory that gc takes out is freed at once.                    *)
(*                                                                             *)
(* A row's put inserts a node into each list; a node is <<column, row>>.  The  *)
(* KeyEntries that a put creates in an inner index are named by the row.       *)
(* Counters of bytes and rows, the upper levels of the skip lists, compression *)
(* and the choice of the segment by hash are left out.                         *)
EXTENDS Integers, FiniteSets, Sequences, SequencesExt, TLC

CONSTANTS
    Indexes,    \* inner indexes, a set of numbers
    Columns,    \* ids of the ts columns
    Workloads,  \* tables and what is done with them: [schema, ops, ranges], where
                \* ranges are the [ts, end] of range deletes; end = NoEnd: no end_ts
    Ttl,        \* the TTL of each column's index: [type, lat]
    Keys,       \* keys of rows; a row has one key in all indexes
    Stamps,     \* the times of a row, by column; they stand for its content
    Horizons,   \* times to which rows may expire at a round of gc
    Primary,    \* the column of index 0, which cannot be dropped
    Delta,      \* FLAGS_gc_deleted_pk_version_delta
    MaxRows, MaxRounds, MaxDeletes, MaxReads

NoEnd == -1
Rows == 1..MaxRows
Nodes == Columns \X Rows

ASSUME MemTableAssumption ==
    /\ Indexes \subseteq Nat /\ Columns \subseteq Nat
    /\ \A w \in Workloads :
          /\ w.schema \in [Indexes -> SUBSET Columns]
          /\ w.ops \subseteq {"absent", "key", "read", "drop"}
          /\ \A rg \in w.ranges : rg.ts \in Nat /\ rg.end \in Nat \cup {NoEnd}
    /\ \A w \in Workloads : \A i, j \in Indexes : i # j => w.schema[i] \cap w.schema[j] = {}
    /\ Stamps \subseteq [Columns -> Nat \ {0}]
    /\ Ttl \in [Columns -> [type : {"abs", "lat", "absandlat", "absorlat"}, lat : Nat \ {0}]]
    /\ Delta \in Nat \ {0}

VARIABLES
    load,       \* the table's schema and the operations that occur
    row,        \* the puts: times, key, segments and columns still to fill
    entries,    \* entries_ of each segment: key |-> KeyEntry (0: none)
    head,       \* first node of the list of each KeyEntry
    next,       \* link of each node
    tailHead,   \* lists whose tail_ is head_ (Split took everything)
    refs,       \* refs_ of each KeyEntry
    count,      \* dim_cnt_down of each row's data block
    cache,      \* node_cache_ of each segment, with the version of each item
    version,    \* gc_version_ of each segment
    locked,     \* mu_ of the segment is held by gc
    status,     \* IndexStatus of each column's index
    freed,      \* nodes whose memory was freed
    freedEntry, \* KeyEntries whose memory was freed: <<inner index, row>>
    gc,         \* the gc task of the table
    del,        \* the delete that is running
    reader,     \* the reader that is running
    round,      \* rounds of gc so far
    left,       \* deletes and reads that may still start
    settled,    \* nodes that no delete and no TTL has claimed (history)
    gone        \* nodes that a finished delete had to remove (history)

mem == <<entries, head, next, tailHead>>
gcMem == <<cache, version, freed, freedEntry, count>>
vars == <<load, row, mem, refs, gcMem, locked, status, gc, del, reader, round, left, settled, gone>>

ColsOf == load.schema  \* the ts columns of the indexes in each inner index
IndexOf(c) == CHOOSE i \in Indexes : c \in ColsOf[i]
InUse == UNION {ColsOf[i] : i \in Indexes}

-------------------------------------------------------------------------------
(* Lists.                                                                      *)

Time(c, r) == row[r].ts[c]

RECURSIVE Chain(_, _)
\* The nodes of column c from node r on.
Chain(c, r) == IF r = 0 THEN <<>> ELSE <<r>> \o Chain(c, next[c][r])

List(c, e) == Chain(c, head[c][e])

BeforeOrAt(c, e, t) == Len(SelectSeq(List(c, e), LAMBDA r : Time(c, r) >= t))

\* FindLessOrEqual: number of nodes in front of time t.
Before(c, e, t) == Len(SelectSeq(List(c, e), LAMBDA r : Time(c, r) > t))

\* The links after the node at position p of the list (0: head_) is made to
\* point to r.
Linked(c, e, p, r) ==
    IF p = 0 THEN [h |-> [head EXCEPT ![c][e] = r], n |-> next]
    ELSE [h |-> head, n |-> [next EXCEPT ![c][List(c, e)[p]] = r]]

NodeAt(c, e, p) == IF p > Len(List(c, e)) THEN 0 ELSE List(c, e)[p]

\* Skiplist::Remove of the first node with time t; its own link is cleared.
Unlinked(c, e, t) ==
    LET p == Before(c, e, t)
        r == NodeAt(c, e, p + 1)
        l == Linked(c, e, p, NodeAt(c, e, p + 2))
    IN IF r # 0 /\ Time(c, r) = t
       THEN [r |-> r, h |-> l.h, n |-> [l.n EXCEPT ![c][r] = 0]]
       ELSE [r |-> 0, h |-> head, n |-> next]

\* Split and SplitOnPosNode: the list keeps its first p nodes.
Cut(c, e, p) ==
    LET l == Linked(c, e, p, 0)
    IN [r |-> NodeAt(c, e, p + 1), h |-> l.h, n |-> l.n,
        t |-> IF p = 0 THEN tailHead \cup {<<c, e>>} ELSE tailHead]

\* GetLast()->GetKey(): -1 for a null tail_, 0 for the key of head_.
LastTime(c, e) ==
    IF List(c, e) # <<>> THEN Time(c, Last(List(c, e)))
    ELSE IF <<c, e>> \in tailHead THEN 0 ELSE -1

InPlace(c, r) ==
    LET e == entries[IndexOf(c)][row[r].key]
    IN e # 0 /\ r \in ToSet(List(c, e))

EmptyOne(i, e, h) == \E c \in ColsOf[i] : h[c][e] = 0

\* All lists of an entry array are empty.
Empty(i, e, h) == \A c \in ColsOf[i] : h[c][e] = 0

-------------------------------------------------------------------------------
(* Put.                                                                        *)

NoRow == [st |-> "none", ts |-> [c \in Columns |-> 0], key |-> CHOOSE k \in Keys : TRUE,
          todo |-> {}, cols |-> {}, absent |-> FALSE, since |-> [i \in Indexes |-> 0]]
IdleGc == [pc |-> "idle", t |-> 0, todo |-> {}, keys |-> {}, key |-> CHOOSE k \in Keys : TRUE,
           e |-> 0, cols |-> {}, empty |-> 0, skip |-> FALSE, chain |-> 0, pend |-> 0]
IdleDel == [pc |-> "idle", c |-> Primary, key |-> CHOOSE k \in Keys : TRUE, e |-> 0, ts |-> 0,
            end |-> NoEnd, at |-> 0, cur |-> 0, single |-> FALSE, chain |-> 0, pend |-> 0,
            doomed |-> {}, since |-> 0]
IdleReader == [pc |-> "idle", c |-> Primary, e |-> 0, at |-> 0, late |-> FALSE, since |-> 0]

Init ==
    /\ load \in Workloads
    /\ row = [r \in Rows |-> NoRow]
    /\ entries = [i \in Indexes |-> [k \in Keys |-> 0]]
    /\ head = [c \in Columns |-> [e \in Rows |-> 0]]
    /\ next = [c \in Columns |-> [r \in Rows |-> 0]]
    /\ tailHead = {}
    /\ refs = [c \in Columns |-> [e \in Rows |-> 0]]
    /\ count = [r \in Rows |-> 0]
    /\ cache = [i \in Indexes |-> {}]
    /\ version = [i \in Indexes |-> 0]
    /\ locked = [i \in Indexes |-> FALSE]
    /\ status = [c \in Columns |-> "ready"]
    /\ freed = {} /\ freedEntry = {}
    /\ gc = IdleGc /\ del = IdleDel /\ reader = IdleReader
    /\ round = 0
    /\ left = [deletes |-> MaxDeletes, reads |-> MaxReads]
    /\ settled = {} /\ gone = {}

Least(S) == CHOOSE x \in S : \A y \in S : x <= y

\* Rounds of gc that have come to segment i.
Visits(i) ==
    IF i \in gc.todo /\ (gc.pc = "index" \/ i # Least(gc.todo)) THEN round - 1 ELSE round

RefCountByIndex(cols) == Cardinality({i \in Indexes : ColsOf[i] \cap cols # {}})

\* real_ref_cnt: the nodes that will hold the data block.
RefCount(cols) == Cardinality(cols)

\* MemTable::Put up to the data block: the columns of the indexes that are
\* ready.
StartPut(r, k, s, absent) ==
    LET cols == {c \in InUse : status[c] = "ready"}
    IN /\ row[r].st = "none" /\ \A q \in 1..(r - 1) : row[q].st # "none"
       /\ row' = [row EXCEPT ![r] = [st |-> "put", ts |-> s, key |-> k, cols |-> cols,
                     todo |-> {i \in Indexes : ColsOf[i] \cap cols # {}},
                     absent |-> absent, since |-> [i \in Indexes |-> Visits(i)]]]
       /\ count' = [count EXCEPT ![r] = RefCount(cols)]
       /\ UNCHANGED <<load, mem, refs, cache, version, freed, freedEntry, locked, status, gc, del,
                      reader, round, left, settled, gone>>

\* ListContains: a row with the same content is in the list.
ListContains(c, e, r) ==
    \E q \in ToSet(List(c, e)) : row[q].ts = row[r].ts

\* The columns that Segment::Put fills: it stops at the first that has the row.
Filled(i, e, r) ==
    LET cols == ColsOf[i] \cap row[r].cols
    IN {c \in cols : ~(row[r].absent
           /\ \E d \in cols : d <= c /\ ListContains(d, e, r))}

\* The delete or the gc task holds a KeyEntry of this key of the segment.
Overlapped(i, k) ==
    \/ del.pc # "idle" /\ IndexOf(del.c) = i /\ del.key = k
    \/ gc.pc \in {"last", "lock", "split", "free", "empty"} /\ Least(gc.todo) = i /\ gc.key = k

\* Segment::Put of row r in its next segment, under mu_.
PutSegment(r) ==
    LET i == Least(row[r].todo)
        k == row[r].key
        e == IF entries[i][k] = 0 THEN r ELSE entries[i][k]
        ins == Filled(i, e, r)
        done == ins = ColsOf[i] \cap row[r].cols
        pos(c) == Before(c, e, Time(c, r))
        after(c) == NodeAt(c, e, pos(c) + 1)
        todo == IF done THEN row[r].todo \ {i} ELSE {}
    IN /\ row[r].st = "put" /\ ~locked[i]
       /\ entries' = [entries EXCEPT ![i][k] = e]
       /\ head' = [c \in Columns |-> IF c \in ins THEN Linked(c, e, pos(c), r).h[c] ELSE head[c]]
       /\ next' = [c \in Columns |-> IF c \in ins
                      THEN [Linked(c, e, pos(c), r).n[c] EXCEPT ![r] = after(c)] ELSE next[c]]
       /\ tailHead' = tailHead \ {<<c, e>> : c \in ins}
       /\ row' = [row EXCEPT ![r].todo = todo, ![r].since = IF todo = {} THEN NoRow.since ELSE @,
                     ![r].st = IF ~done THEN "exists" ELSE IF todo = {} THEN "ok" ELSE "put"]
       /\ settled' = settled \cup
              (IF Overlapped(i, k) THEN {} ELSE {<<c, r>> : c \in {d \in ins : status[d] = "ready"}})
       /\ del' = IF del.c \in ins /\ del.pc # "idle" /\ del.key = k
                 THEN [del EXCEPT !.doomed = {q \in @ : Time(del.c, q) # Time(del.c, r)}]
                 ELSE del
       /\ UNCHANGED <<load, refs, gcMem, locked, status, gc, reader, round, left, gone>>

-------------------------------------------------------------------------------
(* Delete.                                                                     *)

\* Rows of column c with key k in place.
Present(c, k) == {r \in Rows : row[r].st # "none" /\ row[r].key = k /\ InPlace(c, r)}

InRange(t, ts, end) == t <= ts /\ t > end

MayDelete(c) == del.pc = "idle" /\ left.deletes > 0 /\ status[c] = "ready"

\* What a finished delete leaves behind.
Finish(d) == /\ del' = IdleDel
             /\ gone' = gone \cup {<<d.c, r>> : r \in d.doomed}

ToCacheEntry(d) ==
    IF d.pend # 0 THEN del' = [d EXCEPT !.pc = "entry"] /\ UNCHANGED gone
    ELSE IF d.single THEN del' = [d EXCEPT !.pc = "walk"] /\ UNCHANGED gone
    ELSE Finish(d)

\* Where Delete goes on after its locked part: what it took out of the lists and
\* out of entries_ is put in the node cache.
ToCache(d) ==
    IF d.chain # 0 \/ d.pend # 0
    THEN del' = [d EXCEPT !.pc = IF d.chain # 0 THEN "list" ELSE "entry"] /\ UNCHANGED gone
    ELSE IF d.single THEN del' = [d EXCEPT !.pc = "walk"] /\ UNCHANGED gone
    ELSE Finish(d)

\* Segment::Delete(idx, key), its part under mu_.
DeleteKey(c, k) ==
    LET i == IndexOf(c)
        e == entries[i][k]
        all == Present(c, k)
        s == Cut(c, e, 0)
        multi == Cardinality(ColsOf[i]) > 1
        cut == multi /\ e # 0 /\ List(c, e) # <<>>
        out == e # 0 /\ (~multi \/ Empty(i, e, IF cut THEN s.h ELSE head))
    IN /\ "key" \in load.ops /\ MayDelete(c) /\ ~locked[i]
       /\ head' = IF cut THEN s.h ELSE head
       /\ next' = IF cut THEN s.n ELSE next
       /\ tailHead' = IF cut THEN s.t ELSE tailHead
       /\ entries' = IF out THEN [entries EXCEPT ![i][k] = 0] ELSE entries
       /\ ToCache([IdleDel EXCEPT !.c = c, !.key = k, !.doomed = all, !.since = Visits(i),
                      !.chain = IF cut THEN s.r ELSE 0, !.pend = IF out THEN e ELSE 0])
       /\ settled' = settled \ {<<c, r>> : r \in all}
       /\ left' = [left EXCEPT !.deletes = @ - 1]
       /\ UNCHANGED <<load, row, refs, gcMem, locked, status, gc, reader, round>>

\* Segment::Delete(idx, key, ts, end_ts): the KeyEntry is looked up without mu_.
DeleteRange(c, k, rg) ==
    LET e == entries[IndexOf(c)][k]
        all == {r \in Present(c, k) : InRange(Time(c, r), rg.ts, rg.end)}
    IN /\ MayDelete(c) /\ e # 0
       /\ del' = [IdleDel EXCEPT !.pc = "last", !.c = c, !.key = k, !.e = e, !.ts = rg.ts,
                     !.end = rg.end, !.doomed = all, !.since = Visits(IndexOf(c))]
       /\ settled' = settled \ {<<c, r>> : r \in all}
       /\ left' = [left EXCEPT !.deletes = @ - 1]
       /\ UNCHANGED <<load, row, mem, refs, gcMem, locked, status, gc, reader, round, gone>>

\* With an end_ts it asks for the oldest node: it has to walk the list if that is
\* out of the range.
DeleteLast ==
    LET t == LastTime(del.c, del.e)
    IN /\ del.pc = "last"
       /\ IF del.end # NoEnd /\ t = -1 THEN Finish(del)
          ELSE /\ del' = IF del.end # NoEnd /\ t <= del.end
                         THEN [del EXCEPT !.pc = "walk", !.single = TRUE,
                                  !.at = NodeAt(del.c, del.e, Before(del.c, del.e, del.ts) + 1)]
                         ELSE [del EXCEPT !.pc = "split"]
               /\ UNCHANGED gone
       /\ UNCHANGED <<load, row, mem, refs, gcMem, locked, status, gc, reader, round, left, settled>>

\* One turn of the walk: the iterator moves on before the node is removed.  The
\* node may have been freed by gc, which knows nothing of this iterator: the
\* memory may still be as it was, or look like the end of the range.
DeleteWalk ==
    LET c == del.c
        more == del.at # 0 /\ InRange(Time(c, del.at), del.ts, del.end)
    IN /\ del.pc = "walk"
       /\ \/ /\ more
             /\ del' = [del EXCEPT !.pc = "remove", !.cur = Time(c, del.at), !.at = next[c][del.at]]
             /\ UNCHANGED gone
          \/ ~more /\ Finish(del)
          \/ <<c, del.at>> \in freed /\ Finish([del EXCEPT !.doomed = {}])
       /\ UNCHANGED <<load, row, mem, refs, gcMem, locked, status, gc, reader, round, left, settled>>

DeleteRemove ==
    LET s == Unlinked(del.c, del.e, del.cur)
    IN /\ del.pc = "remove" /\ ~locked[IndexOf(del.c)]
       /\ head' = s.h /\ next' = s.n
       /\ ToCache([del EXCEPT !.chain = s.r])
       /\ UNCHANGED <<load, row, entries, tailHead, refs, gcMem, locked, status, gc, reader, round,
                      left, settled>>

\* The part under mu_ of the delete that needs no walk.
DeleteSplit ==
    LET i == IndexOf(del.c)
        p == Before(del.c, del.e, del.ts)
        s == Cut(del.c, del.e, p)
        out == Empty(i, del.e, s.h)
    IN /\ del.pc = "split" /\ ~locked[i]
       /\ head' = s.h /\ next' = s.n /\ tailHead' = s.t
       /\ entries' = IF out THEN [entries EXCEPT ![i][del.key] = 0] ELSE entries
       /\ ToCache([del EXCEPT !.chain = s.r, !.pend = IF out THEN entries[i][del.key] ELSE 0])
       /\ UNCHANGED <<load, row, refs, gcMem, locked, status, gc, reader, round, left, settled>>

\* AddValueNodeList, AddSingleValueNode and AddKeyEntryNode, each with the
\* gc_version_ of its moment.
DeleteCache ==
    LET i == IndexOf(del.c)
        item == [v |-> version[i], c |-> del.c,
                 kind |-> IF del.pc = "entry" THEN "entry" ELSE IF del.single THEN "node" ELSE "list",
                 x |-> IF del.pc = "entry" THEN del.pend ELSE del.chain]
    IN /\ del.pc \in {"list", "entry"}
       /\ cache' = [cache EXCEPT ![i] = @ \cup {item}]
       /\ ToCache(IF del.pc = "list" THEN [del EXCEPT !.chain = 0] ELSE [del EXCEPT !.pend = 0])
       /\ UNCHANGED <<load, row, mem, refs, version, freed, freedEntry, count, locked, status, gc, reader,
                      round, left, settled>>

\* Table::DeleteIndex.
DeleteIndex(c) ==
    /\ "drop" \in load.ops /\ c # Primary /\ status[c] = "ready"
    /\ status' = [status EXCEPT ![c] = "waiting"]
    /\ settled' = {n \in settled : n[1] # c}
    /\ UNCHANGED <<load, row, mem, refs, gcMem, locked, gc, del, reader, round, left, gone>>

-------------------------------------------------------------------------------
(* Gc.                                                                         *)

\* FreeList, FreeNode: each node counts its data block down.
FreeNodes(S) ==
    /\ freed' = freed \cup S
    /\ count' = [r \in Rows |-> count[r] - Cardinality({n \in S : n[2] = r})]

ChainNodes(c, r) == {<<c, q>> : q \in ToSet(Chain(c, r))}
EntryNodes(i, e) == UNION {ChainNodes(c, head[c][e]) : c \in ColsOf[i]}

\* What the node cache frees with an item.
ItemNodes(x) ==
    CASE x.kind = "node" -> {<<x.c, x.x>>}
      [] x.kind = "list" -> ChainNodes(x.c, x.x)
      [] x.kind = "entry" -> EntryNodes(IndexOf(x.c), x.x)

OldItemsEarly(i, v) == {x \in cache[i] : x.v <= v}

\* The versions that GcFreeList frees when gc_version_ is v.
OldItems(i, v) == {x \in cache[i] : v >= Delta /\ x.v <= v - Delta}

IncrTwice(v) == v + 2

\* IncrGcVersion.
Incr(v) == v + 1

Position(i, c) == Cardinality({d \in ColsOf[i] : d < c})

NextIndex(g) ==
    LET rest == g.todo \ {Least(g.todo)}
    IN [IdleGc EXCEPT !.t = g.t, !.todo = rest, !.pc = IF rest = {} THEN "idle" ELSE "index"]

NextKey(g) == [IdleGc EXCEPT !.t = g.t, !.todo = g.todo, !.keys = g.keys, !.pc = "key"]

\* SchedGc begins; the time to which rows expire has moved on.
SchedGc(t) ==
    /\ gc.pc = "idle" /\ round < MaxRounds /\ t >= gc.t
    /\ round' = round + 1
    /\ gc' = [gc EXCEPT !.pc = "index", !.t = t, !.todo = {i \in Indexes : ColsOf[i] # {}}]
    /\ UNCHANGED <<load, row, mem, refs, gcMem, locked, status, del, reader, left, settled, gone>>

\* The columns that ReleaseAndCount clears for the indexes that are deleted.  It
\* is called with their positions and looks for columns with these ids.
Released(i, deleting) == {c \in ColsOf[i] : \E d \in deleting : Position(i, d) = c}

\* No put, delete or read goes on while gc comes to its segment Delta times: an
\* assumption on gc_interval, on which the node cache and DeleteIndex rely.
NoneTooLong(i) ==
    /\ \A r \in Rows : i \in row[r].todo => row[r].since[i] + Delta > Visits(i) + 1
    /\ del.pc # "idle" /\ IndexOf(del.c) = i => del.since + Delta > Visits(i) + 1
    /\ reader.pc # "idle" /\ IndexOf(reader.c) = i => reader.since + Delta > Visits(i) + 1

\* SchedGc's loop for an inner index, up to ExecuteGc: the steps of DeleteIndex,
\* ReleaseAndCount, IncrGcVersion and GcFreeList.
GcIndex ==
    LET i == Least(gc.todo)
        are(s) == {c \in ColsOf[i] : status[c] = s}
        all == are("deleting") \cup are("deleted") = ColsOf[i]
        release == are("deleting") # {}
        run == are("waiting") = {} /\ ~all
        live == {entries[i][k] : k \in Keys} \ {0}
        out == IF release /\ all THEN live ELSE {}
        clear == IF release /\ ~all THEN Released(i, are("deleting")) ELSE {}
        items == IF release /\ all THEN cache[i]
                 ELSE IF run THEN OldItems(i, Incr(version[i])) ELSE {}
    IN /\ gc.pc = "index" /\ NoneTooLong(i)
       /\ status' = [c \in Columns |->
              IF c \in are("waiting") THEN "deleting"
              ELSE IF c \in are("deleting") THEN "deleted" ELSE status[c]]
       /\ version' = IF run THEN [version EXCEPT ![i] = Incr(@)] ELSE version
       /\ gc' = IF run THEN [gc EXCEPT !.pc = "key", !.keys = Keys] ELSE NextIndex(gc)
       /\ entries' = [entries EXCEPT ![i] = [k \in Keys |-> IF entries[i][k] \in out THEN 0 ELSE entries[i][k]]]
       /\ head' = [c \in Columns |-> [e \in Rows |->
              IF c \in clear /\ e \in live THEN 0 ELSE head[c][e]]]
       /\ tailHead' = tailHead \cup {<<c, e>> \in clear \X live : head[c][e] # 0}
       /\ cache' = [cache EXCEPT ![i] = @ \ items]
       /\ FreeNodes(UNION {EntryNodes(i, e) : e \in out}
              \cup UNION {ChainNodes(c, head[c][e]) : c \in clear, e \in live}
              \cup UNION {ItemNodes(x) : x \in items})
       /\ freedEntry' = freedEntry \cup {<<i, e>> : e \in out}
              \cup {<<i, x.x>> : x \in {y \in items : y.kind = "entry"}}
       /\ UNCHANGED <<load, row, next, refs, locked, del, reader, round, left, settled, gone>>

\* The next key of the segment; its KeyEntry is read without mu_.
GcKey(k) ==
    LET i == Least(gc.todo)
    IN /\ gc.pc = "key" /\ k \in gc.keys /\ entries[i][k] # 0
       /\ gc' = [gc EXCEPT !.pc = "last", !.keys = @ \ {k}, !.key = k, !.e = entries[i][k],
                    !.cols = ColsOf[i], !.empty = 0]
       /\ UNCHANGED <<load, row, mem, refs, gcMem, locked, status, del, reader, round, left, settled, gone>>

GcSegmentDone ==
    /\ gc.pc = "key" /\ \A k \in gc.keys : entries[Least(gc.todo)][k] = 0
    /\ gc' = NextIndex(gc)
    /\ UNCHANGED <<load, row, mem, refs, gcMem, locked, status, del, reader, round, left, settled, gone>>

\* The next column, the removal of an empty entry array, or the next key.
AfterColumn(g) ==
    LET i == Least(g.todo)
        rest == g.cols \ {Least(g.cols)}
        n == Cardinality(ColsOf[i])
    IN IF rest = {} /\ ~(n > 1 /\ g.empty = n) THEN NextKey(g)
       ELSE [g EXCEPT !.cols = rest, !.chain = 0, !.pend = 0, !.skip = FALSE,
                !.pc = IF rest = {} THEN "empty" ELSE "last"]

\* The look at the oldest node, without mu_.
GcLast ==
    LET c == Least(gc.cols)
        t == LastTime(c, gc.e)
        pass == CASE Ttl[c].type \in {"abs", "absandlat"} -> t = -1 \/ t > gc.t
                  [] Ttl[c].type = "absorlat" -> t = -1
                  [] Ttl[c].type = "lat" -> FALSE
    IN /\ gc.pc = "last"
       /\ gc' = IF pass THEN AfterColumn(gc) ELSE [gc EXCEPT !.pc = "lock"]
       /\ UNCHANGED <<load, row, mem, refs, gcMem, locked, status, del, reader, round, left, settled, gone>>

\* mu_ is taken and refs_ is read.
GcLock ==
    LET i == Least(gc.todo)
    IN /\ gc.pc = "lock" /\ ~locked[i]
       /\ locked' = [locked EXCEPT ![i] = TRUE]
       /\ gc' = [gc EXCEPT !.pc = "split", !.skip = refs[Least(gc.cols)][gc.e] > 0]
       /\ UNCHANGED <<load, row, mem, refs, gcMem, status, del, reader, round, left, settled, gone>>

Smaller(a, b) == IF a < b THEN a ELSE b
Larger(a, b) == IF a > b THEN a ELSE b

\* Split, SplitByPos, SplitByKeyAndPos, SplitByKeyOrPos: how many nodes stay.
Kept(c, e, t) ==
    LET fresh == Before(c, e, t)
        n == Smaller(Ttl[c].lat, Len(List(c, e)))
    IN CASE Ttl[c].type = "abs" -> fresh
         [] Ttl[c].type = "lat" -> n
         [] Ttl[c].type = "absandlat" -> Larger(n, fresh)
         [] Ttl[c].type = "absorlat" -> Smaller(n, fresh)

\* What a TTL lets gc take: the definition of the documents, row by row.
Expired(c, e, t) ==
    {r \in ToSet(List(c, e)) :
        LET old == Time(c, r) <= t
            newer == {q \in ToSet(List(c, e)) : Time(c, q) > Time(c, r)}
            same == {q \in ToSet(List(c, e)) : Time(c, q) = Time(c, r)}
            beyond == Cardinality(newer) + Cardinality(same) > Ttl[c].lat
        IN CASE Ttl[c].type = "abs" -> old
             [] Ttl[c].type = "lat" -> beyond
             [] Ttl[c].type = "absandlat" -> old /\ beyond
             [] Ttl[c].type = "absorlat" -> old \/ beyond}

\* The list is split unless a reader is there; an entry that is empty now is taken
\* out, by its key.  In a segment with several columns it is only counted.
GcSplit ==
    LET i == Least(gc.todo)
        c == Least(gc.cols)
        s == Cut(c, gc.e, Kept(c, gc.e, gc.t))
        cut == ~gc.skip /\ (Ttl[c].type = "abs" \/ List(c, gc.e) # <<>>)
        h == IF cut THEN s.h ELSE head
        empty == Ttl[c].type \in {"abs", "absorlat"} /\ h[c][gc.e] = 0
        out == empty /\ Cardinality(ColsOf[i]) = 1
    IN /\ gc.pc = "split"
       /\ locked' = [locked EXCEPT ![i] = FALSE]
       /\ head' = h
       /\ next' = IF cut THEN s.n ELSE next
       /\ tailHead' = IF cut THEN s.t ELSE tailHead
       /\ entries' = IF out THEN [entries EXCEPT ![i][gc.key] = 0] ELSE entries
       /\ gc' = [gc EXCEPT !.pc = "free", !.chain = IF cut THEN s.r ELSE 0,
                    !.pend = IF out THEN entries[i][gc.key] ELSE 0,
                    !.empty = IF empty THEN @ + 1 ELSE @]
       /\ settled' = settled \ {<<c, r>> : r \in Expired(c, gc.e, gc.t)}
       /\ UNCHANGED <<load, row, refs, gcMem, status, del, reader, round, left, gone>>

\* AddKeyEntryNode and FreeList.
GcFree ==
    LET i == Least(gc.todo)
        c == Least(gc.cols)
    IN /\ gc.pc = "free"
       /\ cache' = [cache EXCEPT ![i] = @ \cup
              (IF gc.pend = 0 THEN {} ELSE {[v |-> version[i], c |-> c, kind |-> "entry", x |-> gc.pend]})]
       /\ FreeNodes(ChainNodes(c, gc.chain))
       /\ gc' = AfterColumn(gc)
       /\ UNCHANGED <<load, row, mem, refs, version, freedEntry, locked, status, del, reader, round, left,
                      settled, gone>>

\* GcAllType: every column was found empty; looked at again under mu_.
GcEmpty ==
    LET i == Least(gc.todo)
        x == entries[i][gc.key]
        out == Empty(i, gc.e, head) /\ x # 0
    IN /\ gc.pc = "empty" /\ ~locked[i]
       /\ entries' = IF out THEN [entries EXCEPT ![i][gc.key] = 0] ELSE entries
       /\ cache' = [cache EXCEPT ![i] = @ \cup
              (IF out THEN {[v |-> version[i], c |-> Least(ColsOf[i]), kind |-> "entry", x |-> x]} ELSE {})]
       /\ gc' = NextKey(gc)
       /\ UNCHANGED <<load, row, head, next, tailHead, refs, version, freed, freedEntry, count, locked,
                      status, del, reader, round, left, settled, gone>>

-------------------------------------------------------------------------------
(* Readers.                                                                    *)

\* Segment::NewIterator: the KeyEntry is looked up ...
NewIterator(c, k) ==
    LET e == entries[IndexOf(c)][k]
    IN /\ "read" \in load.ops /\ reader.pc = "idle" /\ left.reads > 0
       /\ status[c] = "ready" /\ e # 0
       /\ reader' = [IdleReader EXCEPT !.pc = "push", !.c = c, !.e = e, !.since = Visits(IndexOf(c))]
       /\ left' = [left EXCEPT !.reads = @ - 1]
       /\ UNCHANGED <<load, row, mem, refs, gcMem, locked, status, gc, del, round, settled, gone>>

\* ... and counted: Ticket::Push.  A reader is late if gc has read refs_ already.
Push ==
    /\ reader.pc = "push"
    /\ refs' = [refs EXCEPT ![reader.c][reader.e] = @ + 1]
    /\ reader' = [reader EXCEPT !.pc = "seek",
                     !.late = gc.pc = "split" /\ ~gc.skip /\ gc.e = reader.e /\ Least(gc.cols) = reader.c]
    /\ UNCHANGED <<load, row, mem, gcMem, locked, status, gc, del, round, left, settled, gone>>

\* The iterator: SeekToFirst and Next read the links without mu_.
SeekToFirst ==
    /\ reader.pc = "seek"
    /\ reader' = [reader EXCEPT !.pc = "at", !.at = head[reader.c][reader.e]]
    /\ UNCHANGED <<load, row, mem, refs, gcMem, locked, status, gc, del, round, left, settled, gone>>

NextNode ==
    /\ reader.pc = "at" /\ reader.at # 0
    /\ reader' = [reader EXCEPT !.at = next[reader.c][reader.at]]
    /\ UNCHANGED <<load, row, mem, refs, gcMem, locked, status, gc, del, round, left, settled, gone>>

\* The ticket is given back.
Close ==
    /\ reader.pc = "at"
    /\ refs' = [refs EXCEPT ![reader.c][reader.e] = @ - 1]
    /\ reader' = IdleReader
    /\ UNCHANGED <<load, row, mem, gcMem, locked, status, gc, del, round, left, settled, gone>>

-------------------------------------------------------------------------------
Next ==
    \/ \E r \in Rows, k \in Keys, s \in Stamps, absent \in BOOLEAN :
          (absent => "absent" \in load.ops) /\ StartPut(r, k, s, absent)
    \/ \E r \in Rows : PutSegment(r)
    \/ \E c \in InUse, k \in Keys : DeleteKey(c, k)
    \/ \E c \in InUse, k \in Keys, rg \in load.ranges : DeleteRange(c, k, rg)
    \/ DeleteLast \/ DeleteWalk \/ DeleteRemove \/ DeleteSplit \/ DeleteCache
    \/ \E c \in InUse : DeleteIndex(c)
    \/ \E t \in Horizons : SchedGc(t)
    \/ GcIndex \/ GcSegmentDone \/ GcLast \/ GcLock \/ GcSplit \/ GcFree \/ GcEmpty
    \/ \E k \in Keys : GcKey(k)
    \/ \E c \in InUse, k \in Keys : NewIterator(c, k)
    \/ Push \/ SeekToFirst \/ NextNode \/ Close

Spec == Init /\ [][Next]_vars

-------------------------------------------------------------------------------
(* Properties.                                                                 *)

Link == Rows \cup {0}

\* Types of the variables: a KeyEntry is named by the row that created it, a link
\* is a row or null.
TypeOK ==
    /\ \A r \in Rows : row[r].st \in {"none", "put", "ok", "exists"}
    /\ entries \in [Indexes -> [Keys -> Link]]
    /\ head \in [Columns -> [Rows -> Link]]
    /\ next \in [Columns -> [Rows -> Link]]
    /\ refs \in [Columns -> [Rows -> 0..1]]
    /\ count \in [Rows -> 0..Cardinality(Columns)]
    /\ version \in [Indexes -> 0..round]
    /\ freed \subseteq Nodes
    /\ freedEntry \subseteq Indexes \X Rows

\* A row that was put and that neither a delete, an index that is dropped, nor the
\* TTL has claimed stays in its list, whatever deletes and rounds of gc run beside
\* it - if no delete and no gc held the KeyEntry when it was put (line 342 and
\* line 712 of segment.cc take it without the mutex).
RowsStay == \A n \in settled : InPlace(n[1], n[2])

\* When Delete returns, the rows that it covers and that were there when it began
\* are out of the lists and stay out; unless, while it walked the list, another row
\* was put at the same time, or gc freed the node under its iterator.
DeletedGone == \A n \in gone : ~InPlace(n[1], n[2])

\* The number of places that own the memory of a node.
Owners(c, r) ==
    (IF <<c, r>> \in freed THEN 1 ELSE 0)
    + Cardinality({e \in Rows : <<IndexOf(c), e>> \notin freedEntry /\ r \in ToSet(List(c, e))})
    + Cardinality({x \in cache[IndexOf(c)] : x.kind # "entry" /\ <<c, r>> \in ItemNodes(x)})
    + (IF gc.pc = "free" /\ <<c, r>> \in ChainNodes(Least(gc.cols), gc.chain) THEN 1 ELSE 0)
    + (IF del.chain # 0 /\ del.c = c
          /\ r \in (IF del.single THEN {del.chain} ELSE ToSet(Chain(c, del.chain))) THEN 1 ELSE 0)

\* A node that was inserted has one owner until it is freed: the list of a
\* KeyEntry, the delete or the gc task that cut it off, or the node cache.  So it
\* is freed once, and never lost.
FreedOnce ==
    \A r \in Rows : row[r].st # "none" =>
        \A c \in row[r].cols : IndexOf(c) \notin row[r].todo /\ row[r].st # "exists" => Owners(c, r) = 1

\* dim_cnt_down counts the nodes that hold the row's data block: the block is not
\* freed while a list, a reader of it or the node cache can reach it, and it is
\* freed with its last node.
BlockCounted ==
    \A r \in Rows : row[r].st \in {"put", "ok"} =>
        count[r] = Cardinality({c \in row[r].cols : <<c, r>> \notin freed})

\* A reader that was counted in refs_ before gc read it never stands on a node, nor
\* in a KeyEntry, that was freed, and no delete frees one under it.
ReaderSafe ==
    reader.pc = "at" =>
        /\ reader.at # 0 /\ <<reader.c, reader.at>> \in freed => reader.late
        /\ <<IndexOf(reader.c), reader.e>> \notin freedEntry

===============================================================================
