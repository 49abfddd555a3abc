---------------------------- MODULE BinlogProofs ----------------------------
(***************************************************************************)
(* Proofs about the log parts of a partition (Binlog): if no put comes     *)
(* between SetTableStat(kNormal) and SetOffset, a loaded table has every   *)
(* acknowledged entry, and deleting parts never takes an entry that a      *)
(* replica still has to get.  The argument is about the parts on disk:     *)
(* they are in order, together they hold everything behind the snapshot,   *)
(* and the ones that DeleteBinlog may unlink hold nothing behind it.       *)
(***************************************************************************)
EXTENDS Binlog, WellFoundedInduction, TLAPS

\* A step that names no prover has a minute for each.
USE SMTT(60), ZenonT(60)

\* The entries of part p.
Ent(p) == {files[p].log[i] : i \in 1 .. Len(files[p].log)}

\* The parts on disk, whether the process runs or not: their entries are in
\* order and were acknowledged, and nothing behind the snapshot is missing.
Disk ==
    /\ snap <= acked
    /\ \A p \in DOMAIN files : \A e \in Ent(p) : e <= acked
    /\ \A p, q \in DOMAIN files : p < q => \A e \in Ent(p), f \in Ent(q) : e < f
    /\ \A e \in snap + 1 .. acked : \E p \in DOMAIN files : e \in Ent(p)

\* logs_ and the parts on disk: a part outside logs_ has nothing behind the
\* snapshot, a part before another ends where that one starts.
Logs ==
    /\ DOMAIN logs \subseteq DOMAIN files
    /\ \A p \in DOMAIN logs : p < binlog_index /\ logs[p] <= acked
    /\ \A p \in DOMAIN files, q \in DOMAIN logs : p < q => \A e \in Ent(p) : e <= logs[q]
    /\ stat # "down" => \A p \in DOMAIN files \ DOMAIN logs : \A e \in Ent(p) : e <= snap
    /\ stat # "down" => \A p \in DOMAIN files : p >= binlog_index => Ent(p) = {}
    /\ stat = "kNormal" /\ DOMAIN logs # {} => \E p \in DOMAIN logs : logs[p] <= snap
    /\ wh # -1 => wh \in DOMAIN logs /\ wh = binlog_index - 1

\* The phases of loading: nothing is written, read or deleted before the end.
Phase ==
    /\ stat = "kNormal" => loader \in {"idle", "set"}
    /\ stat = "kLoading" <=> loader = "recover"
    /\ stat = "down" => loader = "idle" /\ DOMAIN logs = {}
    /\ stat = "kNormal" /\ loader = "idle" => log_offset = acked
    /\ loader = "set" => stat = "kNormal" /\ latest = acked
    /\ stat # "kNormal" \/ loader # "idle" =>
          /\ wh = -1 /\ snap_part = -1 /\ min_log_index = -1 /\ doomed = {}
          /\ \A n \in Nodes : synced[n] = -1

\* What DeleteBinlog has chosen and split off is behind the snapshot's part.
Del ==
    /\ snap_part >= 0 => snap_part \in DOMAIN logs /\ logs[snap_part] <= snap
    /\ min_log_index >= 0 => min_log_index < snap_part
    /\ \A p \in doomed : p \in DOMAIN files \ DOMAIN logs /\ p < binlog_index

\* A node's reader, unless the node was attached too late: a part that holds its next entry can be found, or it is at
\* a part that is not going to be deleted and has passed only what was sent.
Node(n) ==
    synced[n] >= 0 /\ n \notin lost =>
        /\ part[n] = -1 => \/ DOMAIN logs = {} /\ log_offset <= synced[n]
                           \/ \E p \in DOMAIN logs : p > min_log_index /\ logs[p] <= synced[n]
        /\ part[n] >= 0 =>
              /\ part[n] \in DOMAIN logs /\ part[n] > min_log_index
              /\ pos[n] <= Len(files[part[n]].log) + 1
              /\ \A i \in 1 .. Len(files[part[n]].log) :
                    i < pos[n] => files[part[n]].log[i] <= synced[n]
        /\ \A e \in synced[n] + 1 .. log_offset :
              \E p \in DOMAIN logs : p >= part[n] /\ e \in Ent(p)

\* The type of files and of logs.
FilesOK(fs) ==
    /\ DOMAIN fs \subseteq Parts
    /\ fs \in [DOMAIN fs -> [log : Seq(1 .. MaxOffset), eof : BOOLEAN]]
    /\ \A p \in DOMAIN fs : Len(fs[p].log) <= PartSize
LogsOK(ls) == DOMAIN ls \subseteq Parts /\ \A p \in DOMAIN ls : ls[p] \in Offsets

\* The inductive invariant.
IInv ==
    /\ TypeOK /\ FilesOK(files)
    /\ Disk /\ Logs /\ Phase /\ Del
    /\ \A n \in Nodes : Node(n)

-----------------------------------------------------------------------------
(* Maxima and minima, and the numbers in the state.                        *)

\* A bounded set of integers has a greatest member.
LEMMA MaxFact ==
    ASSUME NEW a \in Int, NEW b \in Int, NEW S, S \subseteq a .. b, S # {}
    PROVE  Max(S) \in S /\ \A y \in S : y <= Max(S)
<1> DEFINE R == OpToRel(<, Nat)
<1> DEFINE T == {n \in Nat : b - n \in S}
<1>1. T \subseteq Nat /\ T # {}
  <2>1. PICK x \in S : TRUE
    BY Zenon
  <2>2. b - x \in T
    BY <2>1
  <2> QED BY <2>2
<1>2. PICK m \in T : \A n \in T : ~(<<n, m>> \in R)
  <2> HIDE DEF T, R
  <2>1. IsWellFoundedOn(R, Nat)
    BY NatLessThanWellFounded, Zenon DEF R
  <2> QED BY <1>1, <2>1, WFMin, Zenon
<1>3. \A n \in T : ~(n < m)
  BY <1>2, Zenon DEF OpToRel
<1> HIDE DEF R
<1>4. b - m \in S /\ \A y \in S : y <= b - m
  <2>1. ASSUME NEW y \in S PROVE y <= b - m
    <3>1. y \in Int /\ b - y \in Nat
      BY <2>1
    <3>2. b - y \in T
      BY <2>1, <3>1
    <3> QED BY <1>2, <1>3, <3>1, <3>2
  <2> QED BY <1>2, <2>1
<1> HIDE DEF T
<1>5. \E x \in S : \A y \in S : x >= y
  BY <1>4, Zenon
<1>6. Max(S) \in S /\ \A y \in S : Max(S) >= y
  BY <1>5, Zenon DEF Max
<1> QED BY <1>6

\* ... and a least one.
LEMMA MinFact ==
    ASSUME NEW a \in Int, NEW b \in Int, NEW S, S \subseteq a .. b, S # {}
    PROVE  Min(S) \in S /\ \A y \in S : Min(S) <= y
<1> DEFINE R == OpToRel(<, Nat)
<1> DEFINE T == {n \in Nat : a + n \in S}
<1>1. T \subseteq Nat /\ T # {}
  <2>1. PICK x \in S : TRUE
    BY Zenon
  <2>2. x - a \in T
    BY <2>1
  <2> QED BY <2>2, Zenon
<1>2. PICK m \in T : \A n \in T : ~(<<n, m>> \in R)
  <2> HIDE DEF T, R
  <2>1. IsWellFoundedOn(R, Nat)
    BY NatLessThanWellFounded, Zenon DEF R
  <2> QED BY <1>1, <2>1, WFMin, Zenon
<1>3. \A n \in T : ~(n < m)
  BY <1>2, Zenon DEF OpToRel
<1> HIDE DEF R
<1>4. a + m \in S /\ \A y \in S : a + m <= y
  <2>1. ASSUME NEW y \in S PROVE a + m <= y
    <3>1. y \in Int /\ y - a \in Nat
      BY <2>1
    <3>2. y - a \in T
      BY <2>1, <3>1
    <3> QED BY <1>2, <1>3, <3>1, <3>2
  <2> QED BY <1>2, <2>1
<1> HIDE DEF T
<1>5. \E x \in S : \A y \in S : x <= y
  BY <1>4, Zenon
<1> QED BY <1>5, Zenon DEF Min

\* The numbers that the steps compare.
LEMMA Nums ==
    ASSUME TypeOK
    PROVE  /\ snap \in Nat /\ acked \in Nat /\ log_offset \in Nat /\ latest \in Nat
           /\ binlog_index \in Nat
           /\ wh \in Int /\ wh >= -1 /\ snap_part \in Int /\ snap_part >= -1
           /\ min_log_index \in Int /\ min_log_index >= -1
           /\ \A p \in DOMAIN files : p \in Nat /\ Len(files[p].log) \in Nat
           /\ \A p \in DOMAIN files : \A e \in Ent(p) : e \in 1 .. MaxOffset /\ e \in Nat
           /\ \A p \in DOMAIN logs : p \in Nat /\ logs[p] \in Nat
           /\ \A n \in Nodes : /\ part[n] \in Int /\ part[n] >= -1 /\ pos[n] \in Nat
                               /\ synced[n] \in Int /\ synced[n] >= -1
<1> USE BinlogAssumption
<1>1. /\ snap \in Nat /\ acked \in Nat /\ log_offset \in Nat /\ latest \in Nat
      /\ binlog_index \in Nat
      /\ wh \in Int /\ wh >= -1 /\ snap_part \in Int /\ snap_part >= -1
      /\ min_log_index \in Int /\ min_log_index >= -1
  BY DEF TypeOK, Offsets
<1>2. \A p \in DOMAIN files : p \in Nat /\ Len(files[p].log) \in Nat
  BY DEF TypeOK, Parts
<1>3. ASSUME NEW p \in DOMAIN files, NEW e \in Ent(p) PROVE e \in 1 .. MaxOffset /\ e \in Nat
  <2>1. PICK i \in 1 .. Len(files[p].log) : e = files[p].log[i]
    BY Zenon DEF Ent
  <2>2. files[p].log \in Seq(1 .. MaxOffset)
    BY Zenon DEF TypeOK
  <2> QED BY ONLY <2>1, <2>2, BinlogAssumption
<1>4. \A p \in DOMAIN logs : p \in Nat /\ logs[p] \in Nat
  BY DEF TypeOK, Parts, Offsets
<1>5. \A n \in Nodes : /\ part[n] \in Int /\ part[n] >= -1 /\ pos[n] \in Nat
                       /\ synced[n] \in Int /\ synced[n] >= -1
  BY DEF TypeOK
<1> QED BY <1>1, <1>2, <1>3, <1>4, <1>5, Zenon

-----------------------------------------------------------------------------
(* The operators of the model.                                             *)

\* Entries, part by part.
LEMMA EntriesFact == \A ps, e : e \in Entries(ps) <=> \E p \in ps : e \in Ent(p)
BY Zenon DEF Entries, Ent

\* StartPart(o) is the newest part that starts at or before o.
LEMMA StartFacts ==
    ASSUME TypeOK, NEW o \in Nat
    PROVE  /\ StartPart(o) \in -1 .. MaxPart
           /\ StartPart(o) = -1 => \A p \in DOMAIN logs : ~(logs[p] <= o)
           /\ StartPart(o) # -1 => StartPart(o) \in DOMAIN logs /\ logs[StartPart(o)] <= o
           /\ \A p \in DOMAIN logs : logs[p] <= o => p <= StartPart(o) /\ StartPart(o) # -1
<1> DEFINE ps == {p \in DOMAIN logs : logs[p] <= o}
<1>1. ps \subseteq 0 .. MaxPart /\ MaxPart \in Int /\ 0 \in Int
  BY BinlogAssumption DEF TypeOK, Parts
<1>2. CASE ps = {}
  <2>1. StartPart(o) = -1
    BY <1>2, Zenon DEF StartPart
  <2>2. -1 \in -1 .. MaxPart
    BY BinlogAssumption
  <2> QED BY <1>2, <2>1, <2>2, Zenon
<1>3. CASE ps # {}
  <2>1. StartPart(o) = Max(ps)
    BY <1>3, Zenon DEF StartPart
  <2> HIDE DEF ps
  <2>2. Max(ps) \in ps /\ \A y \in ps : y <= Max(ps)
    BY <1>1, <1>3, MaxFact, Zenon
  <2>3. Max(ps) \in -1 .. MaxPart /\ Max(ps) # -1
    <3>1. Max(ps) \in 0 .. MaxPart
      BY <1>1, <2>2, Zenon
    <3> QED BY ONLY <3>1, <1>1
  <2> QED BY <2>1, <2>2, <2>3, Zenon DEF ps
<1> QED BY <1>2, <1>3, Zenon

\* NextPart(p), if there is one, is the oldest part of logs_ behind p.
LEMMA NextFacts ==
    ASSUME TypeOK, NEW p \in Nat, NextPart(p) >= 0
    PROVE  /\ NextPart(p) \in DOMAIN logs /\ p < NextPart(p)
           /\ \A q \in DOMAIN logs : p < q => NextPart(p) <= q
<1>0. \A q \in DOMAIN logs : q \in Nat
  BY Nums, Zenon
<1>1. CASE p + 1 \in DOMAIN logs
  <2>1. NextPart(p) = p + 1
    BY <1>1, Zenon DEF NextPart
  <2> QED BY <1>0, <1>1, <2>1
<1>2. CASE p + 1 \notin DOMAIN logs
  <2> DEFINE ps == {s \in DOMAIN logs : s > p}
  <2>1. ps # {} /\ NextPart(p) = Min(ps)
    <3>1. ~(-1 >= 0)
      OBVIOUS
    <3> QED BY <1>2, <3>1, Zenon DEF NextPart
  <2>2. ps \subseteq 0 .. MaxPart /\ MaxPart \in Int /\ 0 \in Int
    BY BinlogAssumption DEF TypeOK, Parts
  <2> HIDE DEF ps
  <2>3. Min(ps) \in ps /\ \A y \in ps : Min(ps) <= y
    BY <2>1, <2>2, MinFact, Zenon
  <2>4. Min(ps) \in DOMAIN logs /\ Min(ps) > p /\ \A q \in DOMAIN logs : q > p => Min(ps) <= q
    BY <2>3, Zenon DEF ps
  <2> QED BY <1>0, <2>1, <2>4
<1> QED BY <1>1, <1>2, Zenon

\* What is behind the snapshot is in the parts of logs_.
LEMMA LogsCover ==
    ASSUME IInv, stat # "down", NEW e \in snap + 1 .. acked
    PROVE  \E p \in DOMAIN logs : e \in Ent(p)
<1>1. PICK p \in DOMAIN files : e \in Ent(p)
  BY Zenon DEF IInv, Disk
<1>2. snap \in Nat /\ acked \in Nat
  BY Nums, Zenon DEF IInv
<1>3. ~(e <= snap)
  BY ONLY <1>2, e \in snap + 1 .. acked
<1>4. p \in DOMAIN logs
  BY <1>1, <1>3, Zenon DEF IInv, Logs
<1> QED BY <1>1, <1>4, Zenon

\* An entry behind o that is in logs_ is not in front of the part where a reader
\* at o starts.
LEMMA Behindness ==
    ASSUME IInv, NEW o \in Nat, StartPart(o) # -1,
           NEW p \in DOMAIN logs, NEW e \in Ent(p), e > o
    PROVE  p >= StartPart(o)
<1>1. StartPart(o) \in DOMAIN logs /\ logs[StartPart(o)] <= o
  BY StartFacts, Zenon DEF IInv
<1>2. /\ p \in DOMAIN files /\ p \in Nat /\ e \in Nat
      /\ StartPart(o) \in Nat /\ logs[StartPart(o)] \in Nat
  BY <1>1, Nums, Zenon DEF IInv, Logs
<1>3. p < StartPart(o) => e <= logs[StartPart(o)]
  BY <1>1, <1>2, Zenon DEF IInv, Logs
<1> QED BY ONLY <1>1, <1>2, <1>3, e > o, o \in Nat

-----------------------------------------------------------------------------
(* What a step leaves alone.                                               *)

\* The types after a step, variable by variable.
LEMMA TypeNext ==
    ASSUME TypeOK, FilesOK(files),
           files' = files \/ FilesOK(files'),
           logs' = logs \/ LogsOK(logs'),
           snap' = snap \/ snap' \in Offsets,
           log_offset' = log_offset \/ log_offset' \in Offsets,
           latest' = latest \/ latest' \in Offsets,
           acked' = acked \/ acked' \in Offsets,
           binlog_index' = binlog_index \/ binlog_index' \in 0 .. MaxPart + 1,
           wh' = wh \/ wh' \in -1 .. MaxPart,
           snap_part' = snap_part \/ snap_part' \in -1 .. MaxPart,
           stat' = stat \/ stat' \in {"down", "kLoading", "kNormal"},
           loader' = loader \/ loader' \in {"idle", "recover", "set"},
           part' = part \/ part' \in [Nodes -> -1 .. MaxPart],
           pos' = pos \/ pos' \in [Nodes -> 1 .. PartSize + 1],
           synced' = synced \/ synced' \in [Nodes -> -1 .. MaxOffset],
           lost' = lost \/ lost' \subseteq Nodes,
           min_log_index' = min_log_index \/ min_log_index' \in -1 .. MaxPart,
           doomed' = doomed \/ doomed' \subseteq Parts,
           crashes' = crashes \/ crashes' \in 0 .. MaxCrashes
    PROVE  TypeOK' /\ FilesOK(files')
<1>1. FilesOK(files') /\ LogsOK(logs')
  BY Zenon DEF TypeOK, LogsOK
<1>2. \A p \in DOMAIN files' : files'[p].log \in Seq(1 .. MaxOffset) /\ files'[p].eof \in BOOLEAN
  <2>1. ASSUME NEW p \in DOMAIN files'
        PROVE  files'[p].log \in Seq(1 .. MaxOffset) /\ files'[p].eof \in BOOLEAN
    <3>1. files'[p] \in [log : Seq(1 .. MaxOffset), eof : BOOLEAN]
      BY <1>1, Zenon DEF FilesOK
    <3> QED BY <3>1, Zenon
  <2> QED BY <2>1, Zenon
<1>3. /\ DOMAIN files' \subseteq Parts /\ \A p \in DOMAIN files' : Len(files'[p].log) <= PartSize
      /\ DOMAIN logs' \subseteq Parts /\ \A p \in DOMAIN logs' : logs'[p] \in Offsets
  BY <1>1, Zenon DEF FilesOK, LogsOK
<1>4. /\ snap' \in Offsets /\ log_offset' \in Offsets /\ latest' \in Offsets /\ acked' \in Offsets
      /\ binlog_index' \in 0 .. MaxPart + 1 /\ wh' \in -1 .. MaxPart
      /\ snap_part' \in -1 .. MaxPart
  BY Zenon DEF TypeOK
<1>5. /\ stat' \in {"down", "kLoading", "kNormal"} /\ loader' \in {"idle", "recover", "set"}
      /\ part' \in [Nodes -> -1 .. MaxPart] /\ pos' \in [Nodes -> 1 .. PartSize + 1]
      /\ synced' \in [Nodes -> -1 .. MaxOffset] /\ lost' \subseteq Nodes
  BY Zenon DEF TypeOK
<1>6. min_log_index' \in -1 .. MaxPart /\ doomed' \subseteq Parts /\ crashes' \in 0 .. MaxCrashes
  BY Zenon DEF TypeOK
<1> QED BY <1>1, <1>2, <1>3, <1>4, <1>5, <1>6, Zenon DEF TypeOK

LEMMA SameEnt == ASSUME files' = files PROVE \A p : Ent(p)' = Ent(p)
BY Zenon DEF Ent

LEMMA SameDisk ==
    ASSUME Disk, UNCHANGED <<files, snap, acked>>
    PROVE  Disk'
<1>1. \A p : Ent(p)' = Ent(p)
  BY SameEnt, Zenon
<1>2. snap' <= acked' /\ \A p \in DOMAIN files' : \A e \in Ent(p)' : e <= acked'
  BY <1>1, Zenon DEF Disk
<1>3. \A p, q \in DOMAIN files' : p < q => \A e \in Ent(p)', f \in Ent(q)' : e < f
  BY <1>1, Zenon DEF Disk
<1>4. \A e \in snap' + 1 .. acked' : \E p \in DOMAIN files' : e \in Ent(p)'
  BY <1>1, Zenon DEF Disk
<1> QED BY <1>2, <1>3, <1>4, Zenon DEF Disk

LEMMA SameLogs ==
    ASSUME Logs, UNCHANGED <<files, logs, binlog_index, wh, stat, snap, acked>>
    PROVE  Logs'
BY SameEnt, ZenonT(60) DEF Logs

LEMMA SamePhase ==
    ASSUME Phase, UNCHANGED <<stat, loader, logs, log_offset, acked, latest, wh, snap_part,
                              min_log_index, doomed, synced>>
    PROVE  Phase'
BY Zenon DEF Phase

LEMMA SameDel ==
    ASSUME Del, UNCHANGED <<snap_part, logs, snap, min_log_index, doomed, files, binlog_index>>
    PROVE  Del'
BY Zenon DEF Del

LEMMA SameNode ==
    ASSUME NEW n \in Nodes, Node(n), UNCHANGED <<files, logs, log_offset, min_log_index>>,
           part'[n] = part[n], pos'[n] = pos[n], synced'[n] = synced[n],
           n \in lost' <=> n \in lost
    PROVE  Node(n)'
BY SameEnt, Zenon DEF Node

\* Only the reader of node n moves, or the node is attached or detached.
LEMMA NodeOnly ==
    ASSUME IInv, NEW n \in Nodes, stat = "kNormal", loader = "idle",
           UNCHANGED <<files, snap, logs, binlog_index, wh, log_offset, snap_part, stat, loader,
                       latest, min_log_index, doomed, acked, crashes>>,
           part' = part \/ part' \in [Nodes -> -1 .. MaxPart],
           pos' = pos \/ pos' \in [Nodes -> 1 .. PartSize + 1],
           synced' = synced \/ synced' \in [Nodes -> -1 .. MaxOffset],
           lost' = lost \/ lost' = lost \ {n} \/ lost' = lost \cup {n},
           \A m \in Nodes \ {n} : /\ part'[m] = part[m] /\ pos'[m] = pos[m]
                                  /\ synced'[m] = synced[m],
           Node(n)'
    PROVE  IInv'
<1>1. TypeOK' /\ FilesOK(files)'
  <2>1. lost' \subseteq Nodes
    BY Zenon DEF IInv, TypeOK
  <2> QED BY <2>1, TypeNext, Zenon DEF IInv
<1>2. Disk' /\ Logs' /\ Del'
  BY SameDisk, SameLogs, SameDel, Zenon DEF IInv
<1>3. Phase'
  BY Zenon DEF IInv, Phase
<1>4. \A m \in Nodes : Node(m)'
  <2>1. \A m \in Nodes \ {n} : m \in lost' <=> m \in lost
    BY Zenon
  <2> QED BY <2>1, SameNode, Zenon DEF IInv
<1> QED BY <1>1, <1>2, <1>3, <1>4, Zenon DEF IInv

-----------------------------------------------------------------------------
(* The readers.                                                            *)

\* A node that is behind exists only once the table is loaded.
LEMMA BehindFacts ==
    ASSUME IInv, NEW n \in Nodes, synced[n] # -1
    PROVE  /\ stat = "kNormal" /\ loader = "idle" /\ log_offset = acked
           /\ synced[n] \in Nat /\ synced[n] >= 0
<1>1. synced[n] \in Int /\ synced[n] >= -1
  BY Nums, Zenon DEF IInv
<1>2. synced[n] \in Nat /\ synced[n] >= 0
  BY ONLY <1>1, synced[n] # -1
<1> QED BY <1>2, Zenon DEF IInv, Phase

\* The first read opens a part from which everything that is missing follows.
LEMMA ReadFirstStep ==
    ASSUME IInv, NEW n \in Nodes, ReadFirst(n)
    PROVE  IInv'
<1> DEFINE s == StartPart(synced[n])
<1>1. /\ part[n] = -1 /\ s >= 0 /\ synced[n] # -1
      /\ part' = [part EXCEPT ![n] = s] /\ pos' = [pos EXCEPT ![n] = 1]
      /\ UNCHANGED <<files, snap, logs, binlog_index, wh, log_offset, snap_part, stat, loader,
                     latest, min_log_index, doomed, acked, crashes, synced, lost>>
  <2>1. ~(-1 >= 0)
    OBVIOUS
  <2> QED BY <2>1, Zenon DEF ReadFirst, Behind, diskVars, logVars, loadVars, delVars
<1>2. TypeOK /\ synced[n] \in Nat /\ stat = "kNormal" /\ loader = "idle" /\ synced[n] >= 0
  BY <1>1, BehindFacts, Zenon DEF IInv
<1>3. /\ s \in -1 .. MaxPart /\ s # -1 /\ s \in DOMAIN logs
      /\ \A p \in DOMAIN logs : logs[p] <= synced[n] => p <= s
  <2>1. s # -1
    BY <1>1
  <2> QED BY <1>2, <2>1, StartFacts, Zenon
<1>4. part' \in [Nodes -> -1 .. MaxPart] /\ pos' \in [Nodes -> 1 .. PartSize + 1]
  <2>1. 1 \in 1 .. PartSize + 1
    BY BinlogAssumption
  <2> QED BY <1>1, <1>2, <1>3, <2>1, Zenon DEF TypeOK
<1>5. part'[n] = s /\ pos'[n] = 1
  BY <1>1, <1>2, Zenon DEF TypeOK
<1>6. \A m \in Nodes \ {n} : part'[m] = part[m] /\ pos'[m] = pos[m] /\ synced'[m] = synced[m]
  BY <1>1, <1>2, Zenon DEF TypeOK
<1> HIDE DEF s
<1>7. Node(n)'
  <2> SUFFICES ASSUME n \notin lost PROVE Node(n)'
    BY <1>1, Zenon DEF Node
  <2>1. \A p : Ent(p)' = Ent(p)
    BY <1>1, SameEnt, Zenon
  <2>2. Node(n) /\ s \in DOMAIN files
    BY <1>3, Zenon DEF IInv, Logs
  <2>3. s > min_log_index
    <3>1. PICK p \in DOMAIN logs : p > min_log_index /\ logs[p] <= synced[n]
      BY <1>1, <1>2, <1>3, <2>2, Zenon DEF Node
    <3>2. p \in Nat /\ s \in Nat /\ min_log_index \in Int /\ p <= s
      BY <1>2, <1>3, <3>1, Nums, Zenon
    <3> QED BY ONLY <3>1, <3>2
  <2>4. /\ 1 <= Len(files[s].log) + 1
        /\ \A i \in 1 .. Len(files[s].log) : ~(i < 1)
    <3>1. Len(files[s].log) \in Nat
      BY <1>2, <2>2, Nums, Zenon
    <3> QED BY ONLY <3>1
  <2>5. ASSUME NEW e \in synced[n] + 1 .. log_offset
        PROVE  \E p \in DOMAIN logs : p >= s /\ e \in Ent(p)
    <3>1. PICK p \in DOMAIN logs : e \in Ent(p)
      BY <1>2, <2>2, <2>5, Zenon DEF Node
    <3>2. e > synced[n] /\ log_offset \in Nat
      <4>1. log_offset \in Nat
        BY <1>2, Nums, Zenon
      <4> QED BY ONLY <1>2, <2>5, <4>1
    <3> QED BY <1>2, <1>3, <3>1, <3>2, Behindness, Zenon DEF s
  <2>6. s # -1
    BY <1>3, Zenon
  <2>7. /\ part'[n] \in DOMAIN logs' /\ part'[n] > min_log_index'
        /\ pos'[n] <= Len(files'[part'[n]].log) + 1
        /\ \A i \in 1 .. Len(files'[part'[n]].log) :
                i < pos'[n] => files'[part'[n]].log[i] <= synced'[n]
    BY <1>1, <1>3, <1>5, <2>3, <2>4, Zenon
  <2>8. \A e \in synced'[n] + 1 .. log_offset' :
           \E p \in DOMAIN logs' : p >= part'[n] /\ e \in Ent(p)'
    BY <1>1, <1>5, <2>1, <2>5, Zenon
  <2> QED BY <1>1, <1>5, <2>6, <2>7, <2>8, Zenon DEF Node
<1> QED BY <1>1, <1>2, <1>4, <1>6, <1>7, NodeOnly, Zenon

\* A record is sent only if it is the next one; the reader passes it only if it
\* was sent, now or before.
LEMMA ReadRecordStep ==
    ASSUME IInv, NEW n \in Nodes, ReadRecord(n)
    PROVE  IInv'
<1> DEFINE p == part[n]
           e == files[p].log[pos[n]]
<1>1. /\ synced[n] # -1 /\ p >= 0 /\ p \in DOMAIN files /\ pos[n] <= Len(files[p].log)
      /\ synced' = [synced EXCEPT ![n] = IF e = @ + 1 THEN e ELSE @]
      /\ pos' = [pos EXCEPT ![n] = IF e <= synced[n] + 1 THEN @ + 1 ELSE 1]
      /\ UNCHANGED <<files, snap, logs, binlog_index, wh, log_offset, snap_part, stat, loader,
                     latest, min_log_index, doomed, acked, crashes, part, lost>>
  <2>1. ~(-1 >= 0)
    OBVIOUS
  <2> QED BY <2>1, Zenon DEF ReadRecord, Behind, diskVars, logVars, loadVars, delVars
<1>2. /\ TypeOK /\ synced[n] \in Nat /\ stat = "kNormal" /\ loader = "idle"
      /\ log_offset = acked /\ synced[n] >= 0
  BY <1>1, BehindFacts, Zenon DEF IInv
<1>3. /\ pos[n] \in 1 .. PartSize + 1 /\ Len(files[p].log) \in Nat
      /\ Len(files[p].log) <= PartSize /\ log_offset \in Nat /\ p \in Nat
      /\ synced[n] \in -1 .. MaxOffset
  BY <1>1, <1>2, Nums, Zenon DEF TypeOK
<1>4. /\ pos[n] \in 1 .. Len(files[p].log) /\ pos[n] \in Nat
      /\ pos[n] + 1 \in 1 .. PartSize + 1 /\ 1 \in 1 .. PartSize + 1
  <2>1. PICK a \in 1 .. PartSize + 1, b \in Nat : a = pos[n] /\ b = Len(files[p].log)
    BY <1>3, Zenon
  <2>2. a <= b /\ b <= PartSize
    BY <1>1, <1>3, <2>1, Zenon
  <2>3. /\ a \in 1 .. b /\ a \in Nat /\ a + 1 \in 1 .. PartSize + 1 /\ 1 \in 1 .. PartSize + 1
    BY ONLY <2>1, <2>2, BinlogAssumption
  <2> QED BY <2>1, <2>3, Zenon
<1>5. e \in Ent(p) /\ e \in 1 .. MaxOffset /\ e \in Nat /\ e <= log_offset
  <2>1. e \in Ent(p)
    BY <1>4, Zenon DEF Ent
  <2> QED BY <1>1, <1>2, <2>1, Nums, Zenon DEF IInv, Disk
<1>6. PICK v, k : /\ synced' = [synced EXCEPT ![n] = v] /\ pos' = [pos EXCEPT ![n] = k]
                  /\ v = IF e = synced[n] + 1 THEN e ELSE synced[n]
                  /\ k = IF e <= synced[n] + 1 THEN pos[n] + 1 ELSE 1
  <2>1. /\ synced' = [synced EXCEPT ![n] = IF e = synced[n] + 1 THEN e ELSE synced[n]]
        /\ pos' = [pos EXCEPT ![n] = IF e <= synced[n] + 1 THEN pos[n] + 1 ELSE 1]
    BY <1>1, Zenon
  <2> QED BY <2>1, Zenon
<1>7. /\ v \in -1 .. MaxOffset /\ k \in 1 .. PartSize + 1 /\ v \in Nat /\ v >= 0
      /\ synced[n] <= v /\ k \in Nat
      /\ v = synced[n] \/ v = e
      /\ k = 1 \/ (k = pos[n] + 1 /\ e <= v)
  <2>1. CASE e <= synced[n] + 1
    <3>1. k = pos[n] + 1
      BY <1>6, <2>1, Zenon
    <3> HIDE DEF e
    <3>2. PICK a \in Nat : a = synced[n] /\ a \in -1 .. MaxOffset
      BY <1>2, <1>3, Zenon
    <3>3. v = IF e = a + 1 THEN e ELSE a
      BY <1>6, <3>2, Zenon
    <3>4. v \in -1 .. MaxOffset /\ v \in Nat /\ v >= 0 /\ a <= v /\ (v = a \/ v = e) /\ e <= v
      <4>1. e <= a + 1 /\ e \in Nat /\ e \in 1 .. MaxOffset
        BY <1>5, <2>1, <3>2, Zenon
      <4> QED BY ONLY <3>2, <3>3, <4>1, BinlogAssumption
    <3>5. k \in Nat
      BY ONLY <1>4, <3>1
    <3> QED BY <1>4, <3>1, <3>2, <3>4, <3>5, Zenon
  <2>2. CASE ~(e <= synced[n] + 1)
    <3>1. k = 1
      BY <1>6, <2>2, Zenon
    <3> HIDE DEF e
    <3>2. e # synced[n] + 1
      BY ONLY <1>2, <1>5, <2>2
    <3>3. v = synced[n]
      BY <1>6, <3>2, Zenon
    <3> QED BY ONLY <1>2, <1>3, <1>4, <3>1, <3>3, BinlogAssumption
  <2> QED BY <2>1, <2>2, Zenon
<1>8. synced' \in [Nodes -> -1 .. MaxOffset] /\ pos' \in [Nodes -> 1 .. PartSize + 1]
  BY <1>2, <1>6, <1>7, Zenon DEF TypeOK
<1>9. synced'[n] = v /\ pos'[n] = k
  BY <1>2, <1>6, Zenon DEF TypeOK
<1>10. \A m \in Nodes \ {n} : part'[m] = part[m] /\ pos'[m] = pos[m] /\ synced'[m] = synced[m]
  BY <1>1, <1>2, <1>6, Zenon DEF TypeOK
<1>11. Node(n)'
  <2> SUFFICES ASSUME n \notin lost PROVE Node(n)'
    BY <1>1, Zenon DEF Node
  <2>1. \A q : Ent(q)' = Ent(q)
    BY <1>1, SameEnt, Zenon
  <2>2. /\ p \in DOMAIN logs /\ p > min_log_index
        /\ \A i \in 1 .. Len(files[p].log) : i < pos[n] => files[p].log[i] <= synced[n]
        /\ \A x \in synced[n] + 1 .. log_offset : \E q \in DOMAIN logs : q >= p /\ x \in Ent(q)
    BY <1>1, <1>2, Zenon DEF IInv, Node
  <2>4. k <= Len(files[p].log) + 1
    <3>1. PICK a \in Nat, b \in Nat : a = pos[n] /\ b = Len(files[p].log)
      BY <1>3, <1>4, Zenon
    <3>2. a \in 1 .. b /\ (k = 1 \/ k = a + 1)
      BY <1>4, <1>7, <3>1, Zenon
    <3>3. k <= b + 1
      BY ONLY <3>1, <3>2
    <3> QED BY <3>1, <3>3, Zenon
  <2>5. ASSUME NEW i \in 1 .. Len(files[p].log), i < k
        PROVE  files[p].log[i] <= v
    <3>1. (i = pos[n] /\ e <= v) \/ i < pos[n]
      BY ONLY <1>3, <1>4, <1>7, <2>5
    <3>2. CASE i = pos[n] /\ e <= v
      BY <3>2, Zenon
    <3>3. CASE i < pos[n]
      <4>1. files[p].log[i] \in Ent(p)
        BY Zenon DEF Ent
      <4>2. files[p].log[i] <= synced[n] /\ files[p].log[i] \in Nat
        BY <1>1, <1>2, <2>2, <3>3, <4>1, Nums, Zenon
      <4> QED BY ONLY <1>2, <1>7, <4>2
    <3> QED BY <3>1, <3>2, <3>3, Zenon
  <2>6. ASSUME NEW x \in v + 1 .. log_offset
        PROVE  \E q \in DOMAIN logs : q >= p /\ x \in Ent(q)
    <3>1. x \in synced[n] + 1 .. log_offset
      BY ONLY <1>2, <1>3, <1>7, <2>6
    <3> QED BY <2>2, <3>1, Zenon
  <2>7. /\ part'[n] # -1
        /\ part'[n] \in DOMAIN logs' /\ part'[n] > min_log_index'
        /\ pos'[n] <= Len(files'[part'[n]].log) + 1
        /\ \A i \in 1 .. Len(files'[part'[n]].log) :
                i < pos'[n] => files'[part'[n]].log[i] <= synced'[n]
    <3>1. p # -1
      BY ONLY <1>3
    <3> QED BY <1>1, <1>9, <2>2, <2>4, <2>5, <3>1, Zenon
  <2>8. \A x \in synced'[n] + 1 .. log_offset' :
           \E q \in DOMAIN logs' : q >= part'[n] /\ x \in Ent(q)'
    BY <1>1, <1>9, <2>1, <2>6, Zenon
  <2> QED BY <2>7, <2>8, Zenon DEF Node
<1> QED BY <1>1, <1>2, <1>8, <1>10, <1>11, NodeOnly, Zenon

\* At the end of a part that it has read, the reader goes on to the next one.
LEMMA ReadEofStep ==
    ASSUME IInv, NEW n \in Nodes, ReadEof(n)
    PROVE  IInv'
<1> DEFINE p == part[n]
           s == NextPart(p)
<1>1. /\ synced[n] # -1 /\ p >= 0 /\ p \in DOMAIN files /\ pos[n] > Len(files[p].log)
      /\ s >= 0 /\ part' = [part EXCEPT ![n] = s] /\ pos' = [pos EXCEPT ![n] = 1]
      /\ UNCHANGED <<files, snap, logs, binlog_index, wh, log_offset, snap_part, stat, loader,
                     latest, min_log_index, doomed, acked, crashes, synced, lost>>
  <2>1. ~(-1 >= 0)
    OBVIOUS
  <2> QED BY <2>1, Zenon DEF ReadEof, Behind, diskVars, logVars, loadVars, delVars
<1>2. TypeOK /\ synced[n] \in Nat /\ stat = "kNormal" /\ loader = "idle" /\ synced[n] >= 0
  BY <1>1, BehindFacts, Zenon DEF IInv
<1>3. p \in Nat /\ Len(files[p].log) \in Nat /\ pos[n] \in Nat /\ log_offset \in Nat
  BY <1>1, <1>2, Nums, Zenon
<1>4. /\ s \in DOMAIN logs /\ p < s /\ \A q \in DOMAIN logs : p < q => s <= q
      /\ s \in Parts /\ s \in Nat
  BY <1>1, <1>2, <1>3, NextFacts, Nums, Zenon DEF TypeOK
<1> HIDE DEF s
<1>5. s \in -1 .. MaxPart /\ 1 \in 1 .. PartSize + 1 /\ s # -1
  BY ONLY <1>4, BinlogAssumption DEF Parts
<1>6. part' \in [Nodes -> -1 .. MaxPart] /\ pos' \in [Nodes -> 1 .. PartSize + 1]
  BY <1>1, <1>2, <1>5, Zenon DEF TypeOK
<1>7. part'[n] = s /\ pos'[n] = 1
  BY <1>1, <1>2, Zenon DEF TypeOK
<1>8. \A m \in Nodes \ {n} : part'[m] = part[m] /\ pos'[m] = pos[m] /\ synced'[m] = synced[m]
  BY <1>1, <1>2, Zenon DEF TypeOK
<1>9. Node(n)'
  <2> SUFFICES ASSUME n \notin lost PROVE Node(n)'
    BY <1>1, Zenon DEF Node
  <2>1. \A q : Ent(q)' = Ent(q)
    BY <1>1, SameEnt, Zenon
  <2>2. /\ p > min_log_index
        /\ \A i \in 1 .. Len(files[p].log) : i < pos[n] => files[p].log[i] <= synced[n]
        /\ \A x \in synced[n] + 1 .. log_offset : \E q \in DOMAIN logs : q >= p /\ x \in Ent(q)
    BY <1>1, <1>2, Zenon DEF IInv, Node
  <2>3. s > min_log_index
    <3>1. min_log_index \in Int
      BY <1>2, Nums, Zenon
    <3> QED BY ONLY <1>3, <1>4, <2>2, <3>1
  <2>4. /\ 1 <= Len(files[s].log) + 1
        /\ \A i \in 1 .. Len(files[s].log) : ~(i < 1)
    <3>1. Len(files[s].log) \in Nat
      BY <1>2, <1>4, Nums, Zenon DEF IInv, Logs
    <3> QED BY ONLY <3>1
  <2>5. ASSUME NEW x \in synced[n] + 1 .. log_offset
        PROVE  \E q \in DOMAIN logs : q >= s /\ x \in Ent(q)
    <3>1. PICK q \in DOMAIN logs : q >= p /\ x \in Ent(q)
      BY <2>2, <2>5, Zenon
    <3>2. q # p
      <4>1. SUFFICES ASSUME x \in Ent(p) PROVE FALSE
        BY <3>1, Zenon
      <4>2. PICK i \in 1 .. Len(files[p].log) : x = files[p].log[i]
        BY <4>1, Zenon DEF Ent
      <4>3. i < pos[n]
        BY ONLY <1>1, <1>3, <4>2
      <4>4. x <= synced[n]
        BY <2>2, <4>2, <4>3, Zenon
      <4> QED BY ONLY <1>2, <1>3, <2>5, <4>4
    <3>3. q \in Nat
      BY <1>2, <3>1, Nums, Zenon
    <3>4. p < q
      BY ONLY <1>3, <3>1, <3>2, <3>3
    <3>5. q >= s
      <4>1. s <= q
        BY <1>4, <3>1, <3>4, Zenon
      <4> QED BY ONLY <1>4, <3>3, <4>1
    <3> QED BY <3>1, <3>5, Zenon
  <2>6. /\ part'[n] # -1
        /\ part'[n] \in DOMAIN logs' /\ part'[n] > min_log_index'
        /\ pos'[n] <= Len(files'[part'[n]].log) + 1
        /\ \A i \in 1 .. Len(files'[part'[n]].log) :
                i < pos'[n] => files'[part'[n]].log[i] <= synced'[n]
    BY <1>1, <1>4, <1>5, <1>7, <2>2, <2>3, <2>4, Zenon
  <2>7. \A x \in synced'[n] + 1 .. log_offset' :
           \E q \in DOMAIN logs' : q >= part'[n] /\ x \in Ent(q)'
    BY <1>1, <1>7, <2>1, <2>5, Zenon
  <2> QED BY <2>6, <2>7, Zenon DEF Node
<1> QED BY <1>1, <1>2, <1>6, <1>8, <1>9, NodeOnly, Zenon

\* A replica attached at an offset from which it can be served finds what it
\* misses, now and when the parts that are chosen have been deleted.
LEMMA AddReplicateNodeStep ==
    ASSUME IInv, NEW n \in Nodes, AddReplicateNode(n)
    PROVE  IInv'
<1>1. PICK k \in Offsets : /\ synced' = [synced EXCEPT ![n] = k]
                           /\ lost' = IF Served(k) THEN lost \ {n} ELSE lost \cup {n}
  BY Zenon DEF AddReplicateNode
<1>2. /\ stat = "kNormal" /\ loader = "idle" /\ part' = [part EXCEPT ![n] = -1]
      /\ UNCHANGED <<files, snap, logs, binlog_index, wh, log_offset, snap_part, stat, loader,
                     latest, min_log_index, doomed, acked, crashes, pos>>
  BY Zenon DEF AddReplicateNode, diskVars, logVars, loadVars, delVars
<1>3. /\ TypeOK /\ log_offset = acked /\ snap \in Nat /\ log_offset \in Nat
      /\ min_log_index \in Int /\ min_log_index >= -1 /\ snap <= acked
  BY <1>2, Nums, Zenon DEF IInv, Phase, Disk
<1>4. k \in Nat /\ k \in -1 .. MaxOffset /\ -1 \in -1 .. MaxPart
  BY ONLY <1>1, BinlogAssumption DEF Offsets
<1>5. synced' \in [Nodes -> -1 .. MaxOffset] /\ part' \in [Nodes -> -1 .. MaxPart]
  BY <1>1, <1>2, <1>3, <1>4, Zenon DEF TypeOK
<1>6. synced'[n] = k /\ part'[n] = -1
  BY <1>1, <1>2, <1>3, Zenon DEF TypeOK
<1>7. \A m \in Nodes \ {n} : part'[m] = part[m] /\ pos'[m] = pos[m] /\ synced'[m] = synced[m]
  BY <1>1, <1>2, <1>3, Zenon DEF TypeOK
<1>8. Node(n)'
  <2> SUFFICES ASSUME n \notin lost' PROVE Node(n)'
    BY Zenon DEF Node
  <2>0. Served(k) /\ ~(-1 >= 0)
    <3>1. ~(-1 >= 0)
      OBVIOUS
    <3> QED BY <1>1, <3>1, Zenon
  <2>1. \A q : Ent(q)' = Ent(q)
    BY <1>2, SameEnt, Zenon
  <2>2. CASE k < log_offset
    <3>1. k + 1 .. log_offset \subseteq Readable(k) /\ StartPart(k) > min_log_index
      BY <2>0, <2>2, Zenon DEF Served
    <3>2. k + 1 \in k + 1 .. log_offset
      BY ONLY <1>3, <1>4, <2>2
    <3>3. StartPart(k) # -1
      BY <3>1, <3>2, Zenon DEF Readable
    <3>4. StartPart(k) \in DOMAIN logs /\ logs[StartPart(k)] <= k
      BY <1>3, <1>4, <3>3, StartFacts, Zenon
    <3>5. ASSUME NEW e \in k + 1 .. log_offset
          PROVE  \E p \in DOMAIN logs : p >= -1 /\ e \in Ent(p)
      <4> DEFINE ps == {p \in DOMAIN logs \cap DOMAIN files : p >= StartPart(k)}
      <4>1. e \in Readable(k)
        BY <3>1, <3>5, Zenon
      <4>2. e \in Entries(ps)
        BY <3>3, <4>1, Zenon DEF Readable
      <4>3. PICK p \in ps : e \in Ent(p)
        BY <4>2, EntriesFact, Zenon
      <4>4. p \in DOMAIN logs /\ e \in Ent(p)
        BY <4>3, Zenon
      <4>5. p \in Nat
        BY <1>3, <4>4, Nums, Zenon
      <4>6. p >= -1
        BY ONLY <4>5
      <4> QED BY <4>4, <4>6, Zenon
    <3> QED BY <1>2, <1>6, <2>0, <2>1, <3>1, <3>4, <3>5, Zenon DEF Node
  <2>3. CASE ~(k < log_offset)
    <3>1. log_offset <= k /\ snap <= k /\ \A e \in k + 1 .. log_offset : FALSE
      BY ONLY <1>3, <1>4, <2>3
    <3>2. CASE DOMAIN logs = {}
      BY <1>2, <1>6, <2>0, <3>1, <3>2, Zenon DEF Node
    <3>3. CASE DOMAIN logs # {}
      <4>1. PICK p \in DOMAIN logs : p > min_log_index /\ logs[p] <= snap
        <5>1. CASE min_log_index >= 0
          <6>1. min_log_index < snap_part /\ snap_part \in Int
            BY <1>3, <5>1, Nums, Zenon DEF IInv, Del
          <6>2. snap_part > min_log_index /\ snap_part >= 0
            BY ONLY <1>3, <5>1, <6>1
          <6> QED BY <6>2, Zenon DEF IInv, Del
        <5>2. CASE ~(min_log_index >= 0)
          <6>1. PICK p \in DOMAIN logs : logs[p] <= snap
            BY <1>2, <3>3, Zenon DEF IInv, Logs
          <6>2. p \in Nat
            BY <1>3, <6>1, Nums, Zenon
          <6>3. p > min_log_index
            BY ONLY <1>3, <5>2, <6>2
          <6> QED BY <6>1, <6>3, Zenon
        <5> QED BY <5>1, <5>2, Zenon
      <4>2. logs[p] <= k
        <5>1. logs[p] \in Nat
          BY <1>3, <4>1, Nums, Zenon
        <5> QED BY ONLY <1>3, <1>4, <3>1, <4>1, <5>1
      <4> QED BY <1>2, <1>6, <2>0, <3>1, <4>1, <4>2, Zenon DEF Node
    <3> QED BY <3>2, <3>3, Zenon
  <2> QED BY <2>2, <2>3, Zenon
<1>9. lost' = lost \ {n} \/ lost' = lost \cup {n}
  BY <1>1, Zenon
<1> QED BY <1>2, <1>5, <1>7, <1>8, <1>9, NodeOnly, Zenon

\* A detached node claims nothing.
LEMMA DelReplicateNodeStep ==
    ASSUME IInv, NEW n \in Nodes, DelReplicateNode(n)
    PROVE  IInv'
<1>1. /\ synced[n] # -1 /\ synced' = [synced EXCEPT ![n] = -1] /\ lost' = lost \ {n}
      /\ part' = [part EXCEPT ![n] = -1] /\ pos' = [pos EXCEPT ![n] = 1]
      /\ UNCHANGED <<files, snap, logs, binlog_index, wh, log_offset, snap_part, stat, loader,
                     latest, min_log_index, doomed, acked, crashes>>
  BY Zenon DEF DelReplicateNode, diskVars, logVars, loadVars, delVars
<1>2. TypeOK /\ stat = "kNormal" /\ loader = "idle"
  BY <1>1, BehindFacts, Zenon DEF IInv
<1>3. -1 \in -1 .. MaxOffset /\ -1 \in -1 .. MaxPart /\ 1 \in 1 .. PartSize + 1 /\ ~(-1 >= 0)
  BY ONLY BinlogAssumption
<1>4. /\ synced' \in [Nodes -> -1 .. MaxOffset] /\ part' \in [Nodes -> -1 .. MaxPart]
      /\ pos' \in [Nodes -> 1 .. PartSize + 1]
  BY <1>1, <1>2, <1>3, Zenon DEF TypeOK
<1>5. synced'[n] = -1
  BY <1>1, <1>2, Zenon DEF TypeOK
<1>6. \A m \in Nodes \ {n} : part'[m] = part[m] /\ pos'[m] = pos[m] /\ synced'[m] = synced[m]
  BY <1>1, <1>2, Zenon DEF TypeOK
<1>7. Node(n)'
  BY <1>3, <1>5, Zenon DEF Node
<1> QED BY <1>1, <1>2, <1>4, <1>6, <1>7, NodeOnly, Zenon

-----------------------------------------------------------------------------
(* Snapshots and deleting parts.                                           *)

\* The snapshot only moves forward, over entries that are there.
LEMMA MakeSnapshotStep ==
    ASSUME IInv, MakeSnapshot
    PROVE  IInv'
<1>1. PICK k \in snap + 1 .. log_offset : snap' = k
  BY Zenon DEF MakeSnapshot
<1>2. /\ stat = "kNormal" /\ loader = "idle"
      /\ UNCHANGED <<files, logs, binlog_index, wh, log_offset, snap_part, stat, loader,
                     latest, min_log_index, doomed, acked, crashes, part, pos, synced, lost>>
  BY Zenon DEF MakeSnapshot, logVars, loadVars, nodeVars, delVars
<1>3. /\ TypeOK /\ FilesOK(files) /\ log_offset = acked /\ log_offset \in Offsets
      /\ snap \in Nat /\ acked \in Nat
  BY <1>2, Nums, Zenon DEF IInv, Phase, TypeOK
<1>4. snap' \in Offsets /\ snap' \in Nat /\ snap <= snap' /\ snap' <= acked
  BY ONLY <1>1, <1>3, BinlogAssumption DEF Offsets
<1>5. \A x \in Nat : x <= snap => x <= snap'
  BY ONLY <1>3, <1>4
<1>6. \A p : Ent(p)' = Ent(p)
  BY <1>2, SameEnt, Zenon
<1>7. TypeOK' /\ FilesOK(files)'
  BY <1>2, <1>3, <1>4, TypeNext, Zenon
<1>8. Disk'
  <2>1. \A p, q \in DOMAIN files' : p < q => \A e \in Ent(p)', f \in Ent(q)' : e < f
    BY <1>2, <1>6, Zenon DEF IInv, Disk
  <2>2. \A p \in DOMAIN files' : \A e \in Ent(p)' : e <= acked'
    BY <1>2, <1>6, Zenon DEF IInv, Disk
  <2>3. ASSUME NEW e \in snap' + 1 .. acked PROVE \E p \in DOMAIN files : e \in Ent(p)
    <3>1. e \in snap + 1 .. acked
      <4>1. \A a, b, c \in Nat : a <= b => \A x \in b + 1 .. c : x \in a + 1 .. c
        OBVIOUS
      <4> QED BY <1>3, <1>4, <4>1, Zenon
    <3> QED BY <3>1, Zenon DEF IInv, Disk
  <2>4. \A e \in snap' + 1 .. acked' : \E p \in DOMAIN files' : e \in Ent(p)'
    BY <1>2, <1>6, <2>3, Zenon
  <2> QED BY <1>2, <1>4, <2>1, <2>2, <2>4, Zenon DEF Disk
<1>9. Logs'
  <2>1. /\ \A p \in DOMAIN files \ DOMAIN logs : \A e \in Ent(p) : e <= snap'
        /\ DOMAIN logs # {} => \E p \in DOMAIN logs : logs[p] <= snap'
    BY <1>2, <1>3, <1>5, Nums, Zenon DEF IInv, Logs
  <2> QED BY <1>2, <1>6, <2>1, Zenon DEF IInv, Logs
<1>10. Phase'
  BY <1>2, SamePhase, Zenon DEF IInv
<1>11. Del'
  BY <1>2, <1>3, <1>5, Nums, Zenon DEF IInv, Del
<1>12. \A n \in Nodes : Node(n)'
  BY <1>2, SameNode, Zenon DEF IInv
<1> QED BY <1>7, <1>8, <1>9, <1>10, <1>11, <1>12, Zenon DEF IInv

\* snapshot_log_part_index_ is never behind what DeleteBinlog has chosen.
LEMMA SetSnapshotLogPartIndexStep ==
    ASSUME IInv, SetSnapshotLogPartIndex
    PROVE  IInv'
<1>1. /\ stat = "kNormal" /\ loader = "idle" /\ snap_part' = StartPart(snap)
      /\ UNCHANGED <<files, snap, logs, binlog_index, wh, log_offset, stat, loader,
                     latest, min_log_index, doomed, acked, crashes, part, pos, synced, lost>>
  BY Zenon DEF SetSnapshotLogPartIndex, diskVars, logVars, loadVars, nodeVars, delVars
<1>2. /\ TypeOK /\ FilesOK(files) /\ snap \in Nat /\ min_log_index \in Int
      /\ snap_part \in Int
  BY Nums, Zenon DEF IInv
<1>3. /\ snap_part' \in -1 .. MaxPart
      /\ snap_part' # -1 => snap_part' \in DOMAIN logs /\ logs[snap_part'] <= snap
      /\ \A p \in DOMAIN logs : logs[p] <= snap => p <= snap_part'
  BY <1>1, <1>2, StartFacts, Zenon
<1>4. TypeOK' /\ FilesOK(files)'
  BY <1>1, <1>2, <1>3, TypeNext, Zenon
<1>5. Disk' /\ Logs'
  BY <1>1, SameDisk, SameLogs, Zenon DEF IInv
<1>6. Phase'
  BY <1>1, Zenon DEF IInv, Phase
<1>7. Del'
  <2>1. ~(-1 >= 0)
    OBVIOUS
  <2>2. ASSUME min_log_index >= 0 PROVE min_log_index < snap_part'
    <3>1. min_log_index < snap_part
      BY <2>2, Zenon DEF IInv, Del
    <3>2. snap_part >= 0
      BY ONLY <1>2, <2>2, <3>1
    <3>3. snap_part <= snap_part'
      BY <1>3, <3>2, Zenon DEF IInv, Del
    <3> QED BY ONLY <1>2, <1>3, <3>1, <3>3, BinlogAssumption
  <2> QED BY <1>1, <1>3, <2>1, <2>2, Zenon DEF IInv, Del
<1>8. \A n \in Nodes : Node(n)'
  BY <1>1, SameNode, Zenon DEF IInv
<1> QED BY <1>4, <1>5, <1>6, <1>7, <1>8, Zenon DEF IInv

\* The chosen parts are in front of the snapshot's part and of every reader's;
\* with a reader that has not opened a part yet nothing is chosen.
LEMMA ChoosePartsStep ==
    ASSUME IInv, ChooseParts
    PROVE  IInv'
<1> DEFINE S == {snap_part} \cup {part[n] : n \in {m \in Nodes : synced[m] # -1}}
           m == MinLogIndex
<1>1. /\ stat = "kNormal" /\ loader = "idle" /\ m >= 0 /\ min_log_index' = m
      /\ min_log_index = -1
      /\ UNCHANGED <<files, snap, logs, binlog_index, wh, log_offset, snap_part, stat, loader,
                     latest, doomed, acked, crashes, part, pos, synced, lost>>
  BY Zenon DEF ChooseParts, diskVars, logVars, loadVars, nodeVars
<1>2. TypeOK /\ FilesOK(files)
  BY Zenon DEF IInv
<1>3. Min(S) \in -1 .. MaxPart /\ \A y \in S : y \in Int /\ Min(S) <= y
  <2>1. S \subseteq -1 .. MaxPart /\ S # {}
    BY <1>2, Zenon DEF TypeOK
  <2>2. -1 \in Int /\ MaxPart \in Int
    BY BinlogAssumption
  <2> HIDE DEF S
  <2>3. Min(S) \in S /\ \A y \in S : Min(S) <= y
    BY <2>1, <2>2, MinFact, Zenon
  <2>4. \A y \in S : y \in Int
    BY ONLY <2>1, <2>2
  <2> QED BY <2>1, <2>3, <2>4, Zenon
<1>4. m = Min(S) - 1
  BY Zenon DEF MinLogIndex
<1> HIDE DEF S, m
<1>5. /\ m \in -1 .. MaxPart
      /\ \A y \in S : m < y /\ y > m /\ y # -1
  <2>1. m \in Int /\ m \in -1 .. MaxPart
    BY ONLY <1>1, <1>3, <1>4, BinlogAssumption
  <2> QED BY ONLY <1>1, <1>3, <1>4, <2>1
<1>6. /\ m < snap_part
      /\ \A n \in Nodes : synced[n] # -1 => part[n] > m /\ part[n] # -1
  BY <1>5, Zenon DEF S
<1>7. TypeOK' /\ FilesOK(files)'
  BY <1>1, <1>2, <1>5, TypeNext, Zenon
<1>8. Disk' /\ Logs'
  BY <1>1, SameDisk, SameLogs, Zenon DEF IInv
<1>9. Phase'
  BY <1>1, Zenon DEF IInv, Phase
<1>10. Del'
  BY <1>1, <1>6, Zenon DEF IInv, Del
<1>11. ASSUME NEW n \in Nodes PROVE Node(n)'
  <2>1. \A p : Ent(p)' = Ent(p)
    BY <1>1, SameEnt, Zenon
  <2>2. ~(-1 >= 0)
    OBVIOUS
  <2> QED BY <1>1, <1>6, <2>1, <2>2, Zenon DEF IInv, Node
<1> QED BY <1>7, <1>8, <1>9, <1>10, <1>11, Zenon DEF IInv

\* What is split off logs_ has nothing behind the snapshot, and nothing that a
\* reader needs.
LEMMA SplitPartsStep ==
    ASSUME IInv, SplitParts
    PROVE  IInv'
<1> DEFINE m == min_log_index
<1>1. /\ m >= 0 /\ min_log_index' = -1
      /\ logs' = [p \in {q \in DOMAIN logs : q > m} |-> logs[p]]
      /\ doomed' = {q \in DOMAIN logs : q <= m}
      /\ UNCHANGED <<files, snap, binlog_index, wh, log_offset, snap_part, stat, loader,
                     latest, acked, crashes, part, pos, synced, lost>>
  BY Zenon DEF SplitParts, diskVars, loadVars, nodeVars
<1>2. /\ TypeOK /\ FilesOK(files) /\ m \in Int /\ snap_part \in Int /\ binlog_index \in Nat
      /\ wh \in Int /\ snap \in Nat
      /\ \A p \in DOMAIN logs : p \in Nat /\ logs[p] \in Nat /\ p \in DOMAIN files
  BY Nums, Zenon DEF IInv, Logs
<1>3. m # -1 /\ ~(-1 >= 0) /\ -1 \in -1 .. MaxPart
  BY ONLY <1>1, BinlogAssumption
<1>4. stat = "kNormal" /\ loader = "idle" /\ m < snap_part
  BY <1>1, <1>3, Zenon DEF IInv, Phase, Del
<1>5. snap_part >= 0 /\ snap_part > m
  BY ONLY <1>1, <1>2, <1>4
<1>6. snap_part \in DOMAIN logs /\ logs[snap_part] <= snap
  BY <1>5, Zenon DEF IInv, Del
<1>7. /\ \A p : p \in DOMAIN logs' <=> p \in DOMAIN logs /\ p > m
      /\ \A p \in DOMAIN logs' : logs'[p] = logs[p]
      /\ snap_part \in DOMAIN logs'
  BY <1>1, <1>5, <1>6, Zenon
<1>8. \A p : Ent(p)' = Ent(p)
  BY <1>1, SameEnt, Zenon
<1>9. \A p \in DOMAIN logs : ~(p > m) => p < snap_part /\ p <= m
  BY ONLY <1>2, <1>4
<1>10. TypeOK' /\ FilesOK(files)'
  <2>1. LogsOK(logs') /\ doomed' \subseteq Parts
    BY <1>1, <1>2, <1>7, Zenon DEF TypeOK, LogsOK
  <2> QED BY <1>1, <1>2, <1>3, <2>1, TypeNext, Zenon
<1>11. Disk'
  BY <1>1, SameDisk, Zenon DEF IInv
<1>12. Logs'
  <2>1. ASSUME NEW p \in DOMAIN files \ DOMAIN logs', NEW e \in Ent(p)
        PROVE  e <= snap
    <3>1. CASE p \notin DOMAIN logs
      BY <1>4, <3>1, Zenon DEF IInv, Logs
    <3>2. CASE p \in DOMAIN logs
      <4>1. e <= logs[snap_part] /\ e \in Nat /\ logs[snap_part] \in Nat
        BY <1>2, <1>6, <1>7, <1>9, <3>2, Nums, Zenon DEF IInv, Logs
      <4> QED BY ONLY <1>2, <1>6, <4>1
    <3> QED BY <3>1, <3>2, Zenon
  <2>2. ASSUME wh # -1 PROVE wh \in DOMAIN logs' /\ wh = binlog_index - 1
    <3>1. wh \in DOMAIN logs /\ wh = binlog_index - 1 /\ snap_part < binlog_index
      BY <1>6, <2>2, Zenon DEF IInv, Logs
    <3>2. wh > m
      BY ONLY <1>2, <1>4, <3>1
    <3> QED BY <1>7, <3>1, <3>2, Zenon
  <2>3. /\ DOMAIN logs' \subseteq DOMAIN files'
        /\ \A p \in DOMAIN logs' : p < binlog_index' /\ logs'[p] <= acked'
        /\ \A p \in DOMAIN files', q \in DOMAIN logs' : p < q => \A e \in Ent(p)' : e <= logs'[q]
    BY <1>1, <1>7, <1>8, Zenon DEF IInv, Logs
  <2>4. stat' # "down" => \A p \in DOMAIN files' : p >= binlog_index' => Ent(p)' = {}
    BY <1>1, <1>8, Zenon DEF IInv, Logs
  <2>5. \E p \in DOMAIN logs' : logs'[p] <= snap'
    BY <1>1, <1>6, <1>7, Zenon
  <2> QED BY <1>1, <1>8, <2>1, <2>2, <2>3, <2>4, <2>5, Zenon DEF Logs
<1>13. Phase'
  BY <1>1, <1>4, Zenon DEF IInv, Phase
<1>14. Del'
  <2>1. \A p \in doomed' : p \in DOMAIN files \ DOMAIN logs' /\ p < binlog_index
    <3>1. \A p \in DOMAIN logs : p <= m => ~(p > m)
      BY ONLY <1>2
    <3> QED BY <1>1, <1>2, <1>7, <3>1, Zenon DEF IInv, Logs
  <2> QED BY <1>1, <1>3, <1>6, <1>7, <2>1, Zenon DEF Del
<1>15. ASSUME NEW n \in Nodes PROVE Node(n)'
  <2> SUFFICES ASSUME synced[n] >= 0, n \notin lost PROVE Node(n)'
    BY <1>1, Zenon DEF Node
  <2>1. /\ part[n] >= 0 =>
              /\ part[n] \in DOMAIN logs /\ part[n] > m
              /\ pos[n] <= Len(files[part[n]].log) + 1
              /\ \A i \in 1 .. Len(files[part[n]].log) :
                    i < pos[n] => files[part[n]].log[i] <= synced[n]
    BY Zenon DEF IInv, Node
  <2>2. part[n] = -1 => \E p \in DOMAIN logs : p > m /\ logs[p] <= synced[n]
    BY <1>6, Zenon DEF IInv, Node
  <2>3. part[n] = -1 \/ part[n] >= 0
    <3>1. part[n] \in Int /\ part[n] >= -1
      BY <1>2, Nums, Zenon
    <3> QED BY ONLY <3>1
  <2>4. part[n] = -1 => \E p \in DOMAIN logs' : p > -1 /\ logs'[p] <= synced[n]
    <3>1. \A p \in DOMAIN logs : p > -1
      BY ONLY <1>2
    <3> QED BY <1>7, <2>2, <3>1, Zenon
  <2>5. part[n] >= 0 => part[n] \in DOMAIN logs' /\ part[n] > -1
    <3>1. part[n] >= 0 => part[n] > -1
      BY <1>2, Nums
    <3> QED BY <1>7, <2>1, <3>1, Zenon
  <2>6. ASSUME NEW e \in synced[n] + 1 .. log_offset
        PROVE  \E p \in DOMAIN logs' : p >= part[n] /\ e \in Ent(p)
    <3>1. PICK p \in DOMAIN logs : p >= part[n] /\ e \in Ent(p)
      BY <2>6, Zenon DEF IInv, Node
    <3>2. p > m
      <4>1. CASE part[n] >= 0
        <5>1. part[n] > m /\ part[n] \in Int /\ p \in Nat
          BY <1>2, <2>1, <3>1, <4>1, Nums, Zenon
        <5> QED BY ONLY <1>2, <3>1, <5>1
      <4>2. CASE part[n] = -1
        <5>1. PICK q \in DOMAIN logs : q > m /\ logs[q] <= synced[n]
          BY <2>2, <4>2, Zenon
        <5>2. p < q => e <= logs[q]
          BY <1>2, <3>1, <5>1, Zenon DEF IInv, Logs
        <5>3. p \in Nat /\ q \in Nat /\ logs[q] \in Nat /\ synced[n] \in Int /\ log_offset \in Nat
          BY <1>2, <3>1, <5>1, Nums, Zenon
        <5>4. ~(e <= logs[q])
          BY ONLY <2>6, <5>1, <5>3
        <5>5. ~(p < q)
          BY <5>2, <5>4, Zenon
        <5> QED BY ONLY <1>2, <5>1, <5>3, <5>5
      <4> QED BY <2>3, <4>1, <4>2, Zenon
    <3> QED BY <1>7, <3>1, <3>2, Zenon
  <2>7. \A e \in synced'[n] + 1 .. log_offset' :
           \E p \in DOMAIN logs' : p >= part'[n] /\ e \in Ent(p)'
    BY <1>1, <1>8, <2>6, Zenon
  <2> QED BY <1>1, <2>1, <2>4, <2>5, <2>7, Zenon DEF Node
<1> QED BY <1>10, <1>11, <1>12, <1>13, <1>14, <1>15, Zenon DEF IInv

\* An unlinked file is not in logs_.
LEMMA UnlinkPartStep ==
    ASSUME IInv, UnlinkPart
    PROVE  IInv'
<1> DEFINE d == Max(doomed)
<1>1. /\ doomed # {} /\ files' = [p \in DOMAIN files \ {d} |-> files[p]]
      /\ doomed' = doomed \ {d}
      /\ UNCHANGED <<snap, logs, binlog_index, wh, log_offset, snap_part, stat, loader,
                     latest, min_log_index, acked, crashes, part, pos, synced, lost>>
  BY Zenon DEF UnlinkPart, logVars, loadVars, nodeVars
<1>2. TypeOK /\ FilesOK(files) /\ stat = "kNormal" /\ loader = "idle"
  BY <1>1, Zenon DEF IInv, Phase
<1>3. d \in doomed
  <2>1. doomed \subseteq 0 .. MaxPart /\ 0 \in Int /\ MaxPart \in Int
    BY <1>2, BinlogAssumption DEF TypeOK, Parts
  <2> QED BY <1>1, <2>1, MaxFact, Zenon
<1> HIDE DEF d
<1>4. d \in DOMAIN files /\ d \notin DOMAIN logs
  BY <1>3, Zenon DEF IInv, Del
<1>5. /\ DOMAIN files' = DOMAIN files \ {d}
      /\ \A p \in DOMAIN files' : files'[p] = files[p]
  BY <1>1, Zenon
<1>6. \A p \in DOMAIN files' : Ent(p)' = Ent(p)
  BY <1>5, Zenon DEF Ent
<1>7. DOMAIN logs \subseteq DOMAIN files'
  BY <1>4, <1>5, Zenon DEF IInv, Logs
<1>8. TypeOK' /\ FilesOK(files)'
  <2>1. FilesOK(files')
    BY <1>1, <1>2, <1>5, Zenon DEF FilesOK
  <2>2. doomed' \subseteq Parts
    BY <1>1, <1>2, Zenon DEF TypeOK
  <2> QED BY <1>1, <1>2, <2>1, <2>2, TypeNext, Zenon
<1>9. Disk'
  <2>1. ASSUME NEW e \in snap + 1 .. acked PROVE \E p \in DOMAIN files' : e \in Ent(p)
    <3>1. stat # "down"
      BY <1>2, Zenon
    <3> QED BY <1>7, <3>1, LogsCover, Zenon
  <2>2. \A p \in DOMAIN files' : \A e \in Ent(p)' : e <= acked'
    BY <1>1, <1>5, <1>6, Zenon DEF IInv, Disk
  <2>3. \A p, q \in DOMAIN files' : p < q => \A e \in Ent(p)', f \in Ent(q)' : e < f
    <3>1. ASSUME NEW p \in DOMAIN files', NEW q \in DOMAIN files', p < q
          PROVE  \A e \in Ent(p)', f \in Ent(q)' : e < f
      <4>1. \A e \in Ent(p), f \in Ent(q) : e < f
        BY <1>5, <3>1, Zenon DEF IInv, Disk
      <4> QED BY <1>6, <4>1, Zenon
    <3> QED BY <3>1, Zenon
  <2>4. \A e \in snap' + 1 .. acked' : \E p \in DOMAIN files' : e \in Ent(p)'
    BY <1>1, <1>6, <2>1, ZenonT(60)
  <2>5. snap' <= acked'
    BY <1>1, Zenon DEF IInv, Disk
  <2> QED BY <2>2, <2>3, <2>4, <2>5, Zenon DEF Disk
<1>10. Logs'
  <2>1. /\ \A p \in DOMAIN logs' : p < binlog_index' /\ logs'[p] <= acked'
        /\ stat' = "kNormal" /\ DOMAIN logs' # {} => \E p \in DOMAIN logs' : logs'[p] <= snap'
        /\ wh' # -1 => wh' \in DOMAIN logs' /\ wh' = binlog_index' - 1
    BY <1>1, Zenon DEF IInv, Logs
  <2>2. ASSUME NEW p \in DOMAIN files', NEW q \in DOMAIN logs', p < q
        PROVE  \A e \in Ent(p)' : e <= logs'[q]
    <3>1. p \in DOMAIN files /\ q \in DOMAIN logs
      BY <1>1, <1>5, Zenon
    <3>2. \A e \in Ent(p) : e <= logs[q]
      BY <2>2, <3>1, Zenon DEF IInv, Logs
    <3> QED BY <1>1, <1>6, <3>2, Zenon
  <2>3. ASSUME NEW p \in DOMAIN files' \ DOMAIN logs'
        PROVE  \A e \in Ent(p)' : e <= snap'
    <3>1. p \in DOMAIN files \ DOMAIN logs /\ p \in DOMAIN files' /\ stat # "down"
      BY <1>1, <1>2, <1>5, Zenon
    <3>2. \A e \in Ent(p) : e <= snap
      BY <3>1, Zenon DEF IInv, Logs
    <3> QED BY <1>1, <1>6, <3>1, <3>2, Zenon
  <2>4. stat' # "down" => \A p \in DOMAIN files' : p >= binlog_index' => Ent(p)' = {}
    BY <1>1, <1>5, <1>6, Zenon DEF IInv, Logs
  <2>5. DOMAIN logs' \subseteq DOMAIN files'
    BY <1>1, <1>7, Zenon
  <2> QED BY <2>1, <2>2, <2>3, <2>4, <2>5, Zenon DEF Logs
<1>11. Phase'
  BY <1>1, <1>2, Zenon DEF IInv, Phase
<1>12. Del'
  BY <1>1, <1>5, Zenon DEF IInv, Del
<1>13. ASSUME NEW n \in Nodes PROVE Node(n)'
  <2>1. \A p \in DOMAIN logs : Ent(p)' = Ent(p) /\ files'[p] = files[p]
    BY <1>5, <1>6, <1>7, Zenon
  <2>2. Node(n)
    BY Zenon DEF IInv
  <2> QED BY <1>1, <2>1, <2>2, ZenonT(60) DEF Node
<1> QED BY <1>8, <1>9, <1>10, <1>11, <1>12, <1>13, Zenon DEF IInv

-----------------------------------------------------------------------------
(* Crash and load.                                                         *)

\* A crash leaves the disk.
LEMMA CrashStep ==
    ASSUME IInv, Crash
    PROVE  IInv'
<1>1. /\ stat' = "down" /\ loader' = "idle" /\ latest' = 0
      /\ DOMAIN logs' = {} /\ binlog_index' = 0 /\ wh' = -1 /\ log_offset' = 0
      /\ snap_part' = -1 /\ min_log_index' = -1 /\ doomed' = {}
      /\ part' = [n \in Nodes |-> -1] /\ pos' = [n \in Nodes |-> 1]
      /\ synced' = [n \in Nodes |-> -1] /\ lost' = {}
      /\ UNCHANGED <<files, snap, acked>>
  BY Zenon DEF Crash, Empty, diskVars
<1>2. TypeOK /\ FilesOK(files)
  BY Zenon DEF IInv
<1>3. /\ 0 \in Offsets /\ 0 \in 0 .. MaxPart + 1 /\ -1 \in -1 .. MaxPart
      /\ -1 \in -1 .. MaxOffset /\ 1 \in 1 .. PartSize + 1 /\ ~(-1 >= 0)
  BY ONLY BinlogAssumption DEF Offsets
<1>4. crashes' \in 0 .. MaxCrashes
  BY <1>2, BinlogAssumption DEF TypeOK, Crash
<1>5. TypeOK' /\ FilesOK(files)'
  <2>1. /\ LogsOK(logs')
        /\ part' \in [Nodes -> -1 .. MaxPart] /\ pos' \in [Nodes -> 1 .. PartSize + 1]
        /\ synced' \in [Nodes -> -1 .. MaxOffset] /\ doomed' \subseteq Parts
        /\ lost' \subseteq Nodes
    BY <1>1, <1>3, Zenon DEF LogsOK
  <2>2. stat' \in {"down", "kLoading", "kNormal"} /\ loader' \in {"idle", "recover", "set"}
    BY <1>1, Zenon
  <2>3. /\ log_offset' \in Offsets /\ latest' \in Offsets /\ binlog_index' \in 0 .. MaxPart + 1
        /\ wh' \in -1 .. MaxPart /\ snap_part' \in -1 .. MaxPart
        /\ min_log_index' \in -1 .. MaxPart
    BY <1>1, <1>3, Zenon
  <2>4. files' = files /\ snap' = snap /\ acked' = acked
    BY <1>1, Zenon
  <2> QED BY <1>2, <1>4, <2>1, <2>2, <2>3, <2>4, TypeNext, Zenon
<1>6. Disk'
  BY <1>1, SameDisk, Zenon DEF IInv
<1>7. Logs'
  BY <1>1, Zenon DEF Logs
<1>8. \A n \in Nodes : synced'[n] = -1
  BY <1>1, Zenon
<1>9. Phase'
  BY <1>1, <1>8, Zenon DEF Phase
<1>10. Del'
  BY <1>1, <1>3, Zenon DEF Del
<1>11. \A n \in Nodes : Node(n)'
  BY <1>3, <1>8, Zenon DEF Node
<1> QED BY <1>5, <1>6, <1>7, <1>9, <1>10, <1>11, Zenon DEF IInv

\* LogReplicator::Recover finds the parts that have a record; each starts where
\* its first record says.
LEMMA RecoverStep ==
    ASSUME IInv, Recover
    PROVE  IInv'
<1> DEFINE ps == {p \in DOMAIN files : files[p].log # <<>>}
<1>1. /\ stat = "down" /\ logs' = [p \in ps |-> files[p].log[1] - 1]
      /\ binlog_index' = NextIndex(ps) /\ stat' = "kLoading" /\ loader' = "recover"
      /\ UNCHANGED <<files, snap, wh, log_offset, snap_part, latest, min_log_index, doomed,
                     acked, crashes, part, pos, synced, lost>>
  BY Zenon DEF Recover, diskVars, nodeVars, delVars
<1>2. TypeOK /\ FilesOK(files)
  BY Zenon DEF IInv
<1>3. /\ wh = -1 /\ snap_part = -1 /\ min_log_index = -1 /\ doomed = {}
      /\ \A n \in Nodes : synced[n] = -1
  BY <1>1, Zenon DEF IInv, Phase
<1>4. ps \subseteq DOMAIN files /\ ps \subseteq 0 .. MaxPart /\ MaxPart \in Int /\ 0 \in Int
  BY <1>2, BinlogAssumption DEF TypeOK, Parts
<1>5. ASSUME NEW p \in DOMAIN files
      PROVE  IF p \in ps THEN files[p].log[1] \in Ent(p) ELSE Ent(p) = {}
  <2>1. files[p].log \in Seq(1 .. MaxOffset)
    BY <1>2, Zenon DEF TypeOK
  <2>2. CASE p \in ps
    <3>1. files[p].log # <<>>
      BY <2>2, Zenon
    <3>2. 1 \in 1 .. Len(files[p].log)
      BY ONLY <2>1, <3>1
    <3> QED BY <2>2, <3>2, Zenon DEF Ent
  <2>3. CASE p \notin ps
    <3>1. files[p].log = <<>>
      BY <2>3, Zenon
    <3>2. 1 .. Len(files[p].log) = {}
      BY ONLY <3>1
    <3> QED BY <2>3, <3>2, Zenon DEF Ent
  <2> QED BY <2>2, <2>3, Zenon
<1>6. NextIndex(ps) \in 0 .. MaxPart + 1 /\ \A p \in ps : p < NextIndex(ps)
  <2>1. CASE ps = {}
    <3>1. NextIndex(ps) = 0
      BY <2>1, Zenon DEF NextIndex
    <3>2. 0 \in 0 .. MaxPart + 1
      BY BinlogAssumption
    <3> QED BY <2>1, <3>1, <3>2, Zenon
  <2>2. CASE ps # {}
    <3>1. NextIndex(ps) = Max(ps) + 1
      BY <2>2, Zenon DEF NextIndex
    <3> HIDE DEF ps
    <3>2. Max(ps) \in ps /\ \A y \in ps : y <= Max(ps)
      BY <1>4, <2>2, MaxFact, Zenon
    <3>3. Max(ps) \in 0 .. MaxPart /\ \A y \in ps : y \in 0 .. MaxPart
      BY <1>4, <3>2, Zenon
    <3> QED BY ONLY <3>1, <3>2, <3>3, BinlogAssumption
  <2> QED BY <2>1, <2>2, Zenon
<1> HIDE DEF ps
<1>7. DOMAIN logs' = ps /\ \A p \in ps : logs'[p] = files[p].log[1] - 1
  BY <1>1, Zenon
<1>8. \A p \in ps : files[p].log[1] \in Ent(p) /\ files[p].log[1] \in 1 .. MaxOffset
  BY <1>2, <1>4, <1>5, Nums, Zenon
<1>9. \A p : Ent(p)' = Ent(p)
  BY <1>1, SameEnt, Zenon
<1>10. TypeOK' /\ FilesOK(files)'
  <2>1. \A x \in 1 .. MaxOffset : x - 1 \in Offsets
    BY BinlogAssumption DEF Offsets
  <2>2. LogsOK(logs')
    BY <1>4, <1>7, <1>8, <2>1, Zenon DEF LogsOK, Parts
  <2>3. /\ stat' \in {"down", "kLoading", "kNormal"} /\ loader' \in {"idle", "recover", "set"}
        /\ binlog_index' \in 0 .. MaxPart + 1
    BY <1>1, <1>6, Zenon
  <2> QED BY <1>1, <1>2, <2>2, <2>3, TypeNext, Zenon
<1>11. Disk'
  BY <1>1, SameDisk, Zenon DEF IInv
<1>12. Logs'
  <2>1. \A p \in ps : p < binlog_index' /\ logs'[p] <= acked
    <3>1. \A x \in 1 .. MaxOffset : x <= acked => x - 1 <= acked
      <4>1. acked \in Nat
        BY <1>2, Nums, Zenon
      <4> QED BY ONLY <4>1, BinlogAssumption
    <3> QED BY <1>1, <1>4, <1>6, <1>7, <1>8, <3>1, Zenon DEF IInv, Disk
  <2>2. ASSUME NEW p \in DOMAIN files, NEW q \in ps, p < q, NEW e \in Ent(p)
        PROVE  e <= logs'[q]
    <3>1. e < files[q].log[1] /\ e \in Nat
      <4>1. \A x \in Ent(p), f \in Ent(q) : x < f
        BY <1>4, <2>2, Zenon DEF IInv, Disk
      <4> QED BY <1>2, <1>8, <2>2, <4>1, Nums, Zenon
    <3>2. files[q].log[1] \in 1 .. MaxOffset /\ logs'[q] = files[q].log[1] - 1
      BY <1>7, <1>8, Zenon
    <3> QED BY ONLY <3>1, <3>2, BinlogAssumption
  <2>3. \A p \in DOMAIN files : p >= binlog_index' => Ent(p) = {}
    <3>1. ASSUME NEW p \in ps PROVE ~(p >= binlog_index')
      <4>1. p \in 0 .. MaxPart /\ p < binlog_index' /\ binlog_index' \in 0 .. MaxPart + 1
        BY <1>1, <1>4, <1>6, Zenon
      <4> QED BY ONLY <4>1, BinlogAssumption
    <3> QED BY <1>5, <3>1, Zenon
  <2>4. \A p \in DOMAIN files \ ps : \A e \in Ent(p) : e <= snap
    BY <1>5, Zenon
  <2> QED BY <1>1, <1>3, <1>4, <1>7, <1>9, <2>1, <2>2, <2>3, <2>4, Zenon DEF Logs
<1>13. Phase'
  BY <1>1, <1>3, Zenon DEF Phase
<1>14. ~(-1 >= 0)
  OBVIOUS
<1>15. Del'
  BY <1>1, <1>3, <1>14, Zenon DEF Del
<1>16. \A n \in Nodes : Node(n)'
  BY <1>1, <1>3, <1>14, Zenon DEF Node
<1> QED BY <1>10, <1>11, <1>12, <1>13, <1>15, <1>16, Zenon DEF IInv

\* The parts behind the snapshot are all there, the last entry among them.
LEMMA ReplayedFact ==
    ASSUME IInv, stat = "kLoading", DOMAIN logs = {} \/ StartPart(snap) >= 0
    PROVE  Replayed = acked
<1> DEFINE S == {snap} \cup Readable(snap)
<1>1. TypeOK /\ snap \in Nat /\ acked \in Nat /\ snap <= acked /\ stat # "down"
  BY Nums, Zenon DEF IInv, Disk
<1>2. ASSUME NEW e \in Readable(snap) PROVE e \in Nat /\ e <= acked
  <2> DEFINE ps == {p \in DOMAIN logs \cap DOMAIN files : p >= StartPart(snap)}
  <2>0. e \in Entries(ps)
    BY <1>2, Zenon DEF Readable
  <2>1. PICK p \in ps : e \in Ent(p)
    BY <2>0, EntriesFact, Zenon
  <2> QED BY <1>1, <2>1, Nums, Zenon DEF IInv, Disk
<1>3. \A e \in S : e \in Nat /\ e <= acked
  BY <1>1, <1>2, Zenon
<1>4. acked \in S
  <2>1. CASE snap = acked
    BY <2>1, Zenon
  <2>2. CASE snap # acked
    <3>1. acked \in snap + 1 .. acked /\ acked > snap
      BY <1>1, <2>2
    <3>2. PICK p \in DOMAIN logs : acked \in Ent(p)
      BY <1>1, <3>1, LogsCover, Zenon
    <3>3. StartPart(snap) # -1
      <4>1. ~(-1 >= 0)
        OBVIOUS
      <4> QED BY <3>2, <4>1, Zenon
    <3>4. p >= StartPart(snap) /\ p \in DOMAIN files
      BY <1>1, <3>1, <3>2, <3>3, Behindness, Zenon DEF IInv, Logs
    <3>5. acked \in Readable(snap)
      BY <3>2, <3>3, <3>4, EntriesFact, Zenon DEF Readable
    <3> QED BY <3>5, Zenon
  <2> QED BY <2>1, <2>2, Zenon
<1> HIDE DEF S
<1>5. S \subseteq 0 .. acked /\ 0 \in Int /\ acked \in Int /\ S # {}
  BY <1>1, <1>3, <1>4
<1>6. Max(S) \in S /\ \A y \in S : y <= Max(S)
  BY <1>5, MaxFact, Zenon
<1>7. Max(S) \in Nat /\ Max(S) <= acked /\ acked <= Max(S)
  BY <1>3, <1>4, <1>6, Zenon
<1>8. Max(S) = acked
  BY ONLY <1>1, <1>7
<1> QED BY <1>8, Zenon DEF Replayed, S

\* The end-of-log mark does not change what the parts hold.
LEMMA EndedFact ==
    ASSUME TypeOK, FilesOK(files), DOMAIN logs \subseteq DOMAIN files
    PROVE  /\ DOMAIN Ended = DOMAIN files /\ FilesOK(Ended)
           /\ \A p \in DOMAIN files : Ended[p].log = files[p].log
<1>1. CASE DOMAIN logs = {}
  BY <1>1, Zenon DEF Ended
<1>2. CASE DOMAIN logs # {}
  <2> DEFINE m == Max(DOMAIN logs)
  <2>1. DOMAIN logs \subseteq 0 .. MaxPart /\ 0 \in Int /\ MaxPart \in Int
    BY BinlogAssumption DEF TypeOK, Parts
  <2>2. m \in DOMAIN logs
    BY <1>2, <2>1, MaxFact, Zenon
  <2>3. Ended = [files EXCEPT ![m].eof = TRUE]
    BY <1>2, Zenon DEF Ended
  <2> HIDE DEF m
  <2>4. m \in DOMAIN files
    BY <2>2, Zenon
  <2>5. DOMAIN Ended = DOMAIN files
    BY <2>3, Zenon
  <2>6. ASSUME NEW p \in DOMAIN files
        PROVE  /\ Ended[p].log = files[p].log
               /\ Ended[p] \in [log : Seq(1 .. MaxOffset), eof : BOOLEAN]
    <3>1. files[p] \in [log : Seq(1 .. MaxOffset), eof : BOOLEAN]
      BY Zenon DEF FilesOK
    <3>2. Ended[p] = IF p = m THEN [files[p] EXCEPT !.eof = TRUE] ELSE files[p]
      BY <2>3, <2>4, Zenon
    <3> QED BY ONLY <3>1, <3>2, Zenon
  <2>7. /\ Ended \in [DOMAIN Ended -> [log : Seq(1 .. MaxOffset), eof : BOOLEAN]]
    <3>1. Ended = [p \in DOMAIN Ended |-> Ended[p]]
      BY <2>3, Zenon
    <3> QED BY <2>5, <2>6, <3>1, Zenon
  <2>8. DOMAIN Ended \subseteq Parts /\ \A p \in DOMAIN Ended : Len(Ended[p].log) <= PartSize
    BY <2>5, <2>6, Zenon DEF FilesOK
  <2> QED BY <2>5, <2>6, <2>7, <2>8, Zenon DEF FilesOK
<1> QED BY <1>1, <1>2, Zenon

\* After the replay latest_offset is that of the last acknowledged entry.
LEMMA RecoverFromBinlogStep ==
    ASSUME IInv, RecoverFromBinlog
    PROVE  IInv'
<1>1. /\ loader = "recover" /\ (DOMAIN logs = {} \/ StartPart(snap) >= 0)
      /\ latest' = Replayed /\ files' = Ended /\ stat' = "kNormal" /\ loader' = "set"
      /\ UNCHANGED <<snap, logs, binlog_index, wh, log_offset, snap_part, part, pos, synced, lost,
                     min_log_index, doomed, acked, crashes>>
  BY Zenon DEF RecoverFromBinlog, logVars, nodeVars, delVars
<1>2. /\ TypeOK /\ FilesOK(files) /\ Disk /\ Logs /\ Phase /\ Del /\ stat = "kLoading"
      /\ wh = -1 /\ snap_part = -1 /\ min_log_index = -1 /\ doomed = {}
      /\ \A n \in Nodes : synced[n] = -1
  BY <1>1, Zenon DEF IInv, Phase
<1>3. latest' = acked
  BY <1>1, <1>2, ReplayedFact, Zenon
<1>4. /\ DOMAIN files' = DOMAIN files /\ FilesOK(files')
      /\ \A p \in DOMAIN files : files'[p].log = files[p].log
  BY <1>1, <1>2, EndedFact, Zenon DEF Logs
<1>5. \A p \in DOMAIN files : Ent(p)' = Ent(p)
  BY <1>4, Zenon DEF Ent
<1>6. TypeOK' /\ FilesOK(files)'
  <2>1. latest' \in Offsets
    BY <1>2, <1>3, Zenon DEF TypeOK
  <2> QED BY <1>1, <1>2, <1>4, <2>1, TypeNext, Zenon
<1>7. Disk'
  <2>1. snap' <= acked' /\ \A p \in DOMAIN files' : \A e \in Ent(p)' : e <= acked'
    BY <1>1, <1>2, <1>4, <1>5, Zenon DEF Disk
  <2>2. ASSUME NEW p \in DOMAIN files', NEW q \in DOMAIN files', p < q
        PROVE  \A e \in Ent(p)', f \in Ent(q)' : e < f
    <3>1. \A e \in Ent(p), f \in Ent(q) : e < f
      BY <1>2, <1>4, <2>2, Zenon DEF Disk
    <3>2. Ent(p)' = Ent(p) /\ Ent(q)' = Ent(q)
      BY <1>4, <1>5, <2>2, Zenon
    <3> QED BY <3>1, <3>2, Zenon
  <2>3. \A e \in snap' + 1 .. acked' : \E p \in DOMAIN files' : e \in Ent(p)'
    BY <1>1, <1>2, <1>4, <1>5, Zenon DEF Disk
  <2> QED BY <2>1, <2>2, <2>3, Zenon DEF Disk
<1>8. Logs'
  <2>0. stat # "down"
    BY <1>2, Zenon
  <2>1. /\ \A p \in DOMAIN logs' : p < binlog_index' /\ logs'[p] <= acked'
        /\ DOMAIN logs' \subseteq DOMAIN files'
        /\ wh' # -1 => wh' \in DOMAIN logs' /\ wh' = binlog_index' - 1
    BY <1>1, <1>2, <1>4, Zenon DEF Logs
  <2>2. ASSUME NEW p \in DOMAIN files', NEW q \in DOMAIN logs', p < q
        PROVE  \A e \in Ent(p)' : e <= logs'[q]
    <3>1. p \in DOMAIN files /\ q \in DOMAIN logs
      BY <1>1, <1>4, Zenon
    <3>2. \A e \in Ent(p) : e <= logs[q]
      BY <1>2, <2>2, <3>1, Zenon DEF Logs
    <3> QED BY <1>1, <1>5, <3>1, <3>2, Zenon
  <2>3. ASSUME NEW p \in DOMAIN files' \ DOMAIN logs'
        PROVE  \A e \in Ent(p)' : e <= snap'
    <3>1. p \in DOMAIN files \ DOMAIN logs
      BY <1>1, <1>4, Zenon
    <3>2. \A e \in Ent(p) : e <= snap
      BY <1>2, <2>0, <3>1, Zenon DEF Logs
    <3> QED BY <1>1, <1>5, <3>1, <3>2, Zenon
  <2>4. \A p \in DOMAIN files' : p >= binlog_index' => Ent(p)' = {}
    BY <1>1, <1>2, <1>4, <1>5, <2>0, Zenon DEF Logs
  <2>5. DOMAIN logs' # {} => \E p \in DOMAIN logs' : logs'[p] <= snap'
    <3>1. snap \in Nat /\ ~(-1 >= 0)
      BY <1>2, Nums
    <3> QED BY <1>1, <1>2, <3>1, StartFacts, Zenon
  <2> QED BY <2>1, <2>2, <2>3, <2>4, <2>5, Zenon DEF Logs
<1>9. Phase'
  BY <1>1, <1>2, <1>3, Zenon DEF Phase
<1>10. Del'
  <2>1. ~(-1 >= 0)
    OBVIOUS
  <2> QED BY <1>1, <1>2, <2>1, Zenon DEF Del
<1>11. ASSUME NEW n \in Nodes PROVE Node(n)'
  <2>1. ~(-1 >= 0) /\ synced'[n] = -1
    BY <1>1, <1>2
  <2> QED BY <2>1, Zenon DEF Node
<1> QED BY <1>6, <1>7, <1>8, <1>9, <1>10, <1>11, Zenon DEF IInv

\* SetOffset gives the write side the offset that the replay came to.
LEMMA SetOffsetStep ==
    ASSUME IInv, SetOffset
    PROVE  IInv'
<1>1. /\ loader = "set" /\ log_offset' = latest /\ snap_part' = StartPart(snap)
      /\ loader' = "idle" /\ latest' = 0
      /\ UNCHANGED <<files, snap, logs, binlog_index, wh, stat, part, pos, synced, lost,
                     min_log_index, doomed, acked, crashes>>
  BY Zenon DEF SetOffset, diskVars, nodeVars, delVars
<1>2. /\ TypeOK /\ FilesOK(files) /\ Disk /\ Logs /\ Phase /\ Del
      /\ stat = "kNormal" /\ latest = acked
      /\ wh = -1 /\ min_log_index = -1 /\ doomed = {}
      /\ \A n \in Nodes : synced[n] = -1
  BY <1>1, Zenon DEF IInv, Phase
<1>3. ~(-1 >= 0)
  OBVIOUS
<1>4. /\ StartPart(snap) \in -1 .. MaxPart
      /\ StartPart(snap) # -1 => StartPart(snap) \in DOMAIN logs /\ logs[StartPart(snap)] <= snap
  BY <1>2, StartFacts, Nums, Zenon
<1>5. TypeOK' /\ FilesOK(files)'
  <2>1. latest \in Offsets /\ 0 \in Offsets
    BY <1>2, BinlogAssumption DEF TypeOK, Offsets
  <2> QED BY <1>1, <1>2, <1>4, <2>1, TypeNext, Zenon
<1>6. Disk' /\ Logs'
  BY <1>1, <1>2, SameDisk, SameLogs, Zenon
<1>7. Phase'
  BY <1>1, <1>2, Zenon DEF Phase
<1>8. Del'
  BY <1>1, <1>2, <1>3, <1>4, Zenon DEF Del
<1>9. ASSUME NEW n \in Nodes PROVE Node(n)'
  <2>1. synced'[n] = -1
    BY <1>1, <1>2, Zenon
  <2> QED BY <1>3, <2>1, Zenon DEF Node
<1> QED BY <1>5, <1>6, <1>7, <1>8, <1>9, Zenon DEF IInv

-----------------------------------------------------------------------------
(* Writing.                                                                *)

\* A new part starts where the last one ended; if its name is that of a part
\* that Recover left out, nothing was in that one.
LEMMA RollWLogFileStep ==
    ASSUME IInv, ~EarlyPut, RollWLogFile
    PROVE  IInv'
<1> DEFINE b == binlog_index
<1>1. /\ stat = "kNormal" /\ loader = "idle" /\ b <= MaxPart
      /\ files' = [p \in DOMAIN files \cup {b} |->
                     IF p = b THEN [log |-> <<>>, eof |-> FALSE] ELSE Closed(files)[p]]
      /\ logs' = [p \in DOMAIN logs \cup {b} |-> IF p = b THEN log_offset ELSE logs[p]]
      /\ wh' = b /\ binlog_index' = b + 1
      /\ UNCHANGED <<snap, log_offset, snap_part, stat, loader, latest, part, pos, synced, lost,
                     min_log_index, doomed, acked, crashes>>
  BY Zenon DEF RollWLogFile, AcceptsPut, loadVars, nodeVars, delVars
<1>2. /\ TypeOK /\ FilesOK(files) /\ Disk /\ Logs /\ Phase /\ Del
      /\ log_offset = acked /\ stat # "down"
  BY <1>1, Zenon DEF IInv, Phase
<1>3. /\ b \in Nat /\ snap \in Nat /\ acked \in Nat /\ b \in Parts /\ ~(b < b) /\ b >= b
      /\ b + 1 \in 0 .. MaxPart + 1 /\ b \in -1 .. MaxPart /\ b < b + 1 /\ b = (b + 1) - 1
  <2>1. b \in Nat /\ snap \in Nat /\ acked \in Nat
    BY <1>2, Nums, Zenon
  <2> QED BY ONLY <1>1, <2>1, BinlogAssumption DEF Parts
<1>4. b \notin DOMAIN logs
  BY <1>2, <1>3, Zenon DEF Logs
<1>5. ASSUME NEW p \in DOMAIN files
      PROVE  /\ Closed(files)[p].log = files[p].log
             /\ Closed(files)[p] \in [log : Seq(1 .. MaxOffset), eof : BOOLEAN]
  <2>1. files[p] \in [log : Seq(1 .. MaxOffset), eof : BOOLEAN]
    BY <1>2, Zenon DEF FilesOK
  <2>2. \/ Closed(files)[p] = files[p]
        \/ Closed(files)[p] = [files[p] EXCEPT !.eof = TRUE]
    BY Zenon DEF Closed
  <2> QED BY ONLY <2>1, <2>2, Zenon
<1> HIDE DEF b
<1>6. /\ DOMAIN files' = DOMAIN files \cup {b} /\ files'[b].log = <<>>
      /\ \A p \in DOMAIN files : p # b => files'[p].log = files[p].log
  BY <1>1, <1>5, Zenon
<1>7. /\ DOMAIN logs' = DOMAIN logs \cup {b} /\ logs'[b] = acked
      /\ \A p \in DOMAIN logs : logs'[p] = logs[p]
  BY <1>1, <1>2, <1>4, Zenon
<1>8. FilesOK(files')
  <2>1. [log |-> <<>>, eof |-> FALSE] \in [log : Seq(1 .. MaxOffset), eof : BOOLEAN]
    OBVIOUS
  <2>2. files' \in [DOMAIN files' -> [log : Seq(1 .. MaxOffset), eof : BOOLEAN]]
    BY <1>1, <1>5, <2>1, Zenon
  <2>3. DOMAIN files' \subseteq Parts
    BY <1>2, <1>3, <1>6, Zenon DEF FilesOK
  <2>4. Len(<<>>) <= PartSize
    BY BinlogAssumption
  <2>5. \A p \in DOMAIN files' : Len(files'[p].log) <= PartSize
    BY <1>2, <1>6, <2>4, Zenon DEF FilesOK
  <2> QED BY <2>2, <2>3, <2>5, Zenon DEF FilesOK
<1>9. TypeOK' /\ FilesOK(files)'
  <2>1. LogsOK(logs')
    BY <1>2, <1>3, <1>7, Zenon DEF LogsOK, TypeOK
  <2> QED BY <1>1, <1>2, <1>3, <1>8, <2>1, TypeNext, Zenon
<1>10. \A p : p = b => Ent(p)' = {}
  <2>1. \A i \in 1 .. Len(<<>>) : FALSE
    OBVIOUS
  <2> QED BY <1>6, <2>1, Zenon DEF Ent
<1>11. \A p \in DOMAIN files : Ent(p)' = Ent(p)
  <2>1. b \in DOMAIN files => Ent(b) = {}
    BY <1>2, <1>3, Zenon DEF Logs, b
  <2>2. \A p \in DOMAIN files : p # b => Ent(p)' = Ent(p)
    BY <1>6, Zenon DEF Ent
  <2> QED BY <1>10, <2>1, <2>2, Zenon
<1>12. Disk'
  <2>1. snap' <= acked' /\ \A p \in DOMAIN files' : \A e \in Ent(p)' : e <= acked'
    <3>1. \A p \in DOMAIN files : \A e \in Ent(p) : e <= acked
      BY <1>2, Zenon DEF Disk
    <3>2. snap' <= acked'
      BY <1>1, <1>2, Zenon DEF Disk
    <3> QED BY <1>1, <1>6, <1>10, <1>11, <3>1, <3>2, Zenon
  <2>2. ASSUME NEW p \in DOMAIN files', NEW q \in DOMAIN files', p < q
        PROVE  \A e \in Ent(p)', f \in Ent(q)' : e < f
    <3>1. CASE p \in DOMAIN files /\ q \in DOMAIN files
      <4>1. \A e \in Ent(p), f \in Ent(q) : e < f
        BY <1>2, <2>2, <3>1, Zenon DEF Disk
      <4>2. Ent(p)' = Ent(p) /\ Ent(q)' = Ent(q)
        BY <1>11, <3>1, Zenon
      <4> QED BY <4>1, <4>2, Zenon
    <3>2. CASE p = b \/ q = b
      BY <1>10, <3>2, Zenon
    <3> QED BY <1>6, <3>1, <3>2, Zenon
  <2>3. \A e \in snap' + 1 .. acked' : \E p \in DOMAIN files' : e \in Ent(p)'
    BY <1>1, <1>2, <1>6, <1>11, Zenon DEF Disk
  <2> QED BY <2>1, <2>2, <2>3, Zenon DEF Disk
<1>13. DOMAIN logs = {} => acked <= snap
  <2>1. CASE acked <= snap
    BY <2>1, Zenon
  <2>2. CASE ~(acked <= snap)
    <3>1. acked \in snap + 1 .. acked
      BY ONLY <1>3, <2>2
    <3>2. \E p \in DOMAIN logs : acked \in Ent(p)
      BY <1>2, <3>1, LogsCover, Zenon
    <3> QED BY <3>2, Zenon
  <2> QED BY <2>1, <2>2, Zenon
<1>14. Logs'
  <2>0. \A p \in DOMAIN logs : p \in Nat /\ p < b /\ logs[p] <= acked
    BY <1>2, Nums, Zenon DEF Logs, b
  <2>1. \A p \in DOMAIN logs' : p < binlog_index' /\ logs'[p] <= acked'
    <3>1. \A p \in Nat : p < b => p < b + 1
      BY <1>3
    <3>2. acked <= acked
      BY <1>3
    <3> QED BY <1>1, <1>3, <1>7, <2>0, <3>1, <3>2, Zenon
  <2>2. ASSUME NEW p \in DOMAIN files', NEW q \in DOMAIN logs', p < q
        PROVE  \A e \in Ent(p)' : e <= logs'[q]
    <3>1. CASE p = b
      BY <1>10, <3>1, Zenon
    <3>2. CASE p \in DOMAIN files /\ q = b
      <4>1. \A e \in Ent(p) : e <= acked
        BY <1>2, <3>2, Zenon DEF Disk
      <4> QED BY <1>7, <1>11, <3>2, <4>1, Zenon
    <3>3. CASE p \in DOMAIN files /\ q \in DOMAIN logs
      <4>1. \A e \in Ent(p) : e <= logs[q]
        BY <1>2, <2>2, <3>3, Zenon DEF Logs
      <4> QED BY <1>7, <1>11, <3>3, <4>1, Zenon
    <3> QED BY <1>6, <1>7, <3>1, <3>2, <3>3, ZenonT(60)
  <2>3. ASSUME NEW p \in DOMAIN files' \ DOMAIN logs'
        PROVE  \A e \in Ent(p)' : e <= snap'
    <3>1. p \in DOMAIN files \ DOMAIN logs
      BY <1>6, <1>7, Zenon
    <3>2. \A e \in Ent(p) : e <= snap
      BY <1>2, <3>1, Zenon DEF Logs
    <3> QED BY <1>1, <1>11, <3>1, <3>2, Zenon
  <2>4. ASSUME NEW p \in DOMAIN files', p >= b + 1 PROVE Ent(p)' = {}
    <3>1. p # b /\ p >= b
      <4>1. p \in Nat
        BY <1>3, <1>6, <1>2, Nums, Zenon
      <4> QED BY ONLY <1>3, <2>4, <4>1
    <3>2. p \in DOMAIN files /\ Ent(p) = {}
      BY <1>2, <1>6, <3>1, Zenon DEF Logs, b
    <3> QED BY <1>11, <3>2, Zenon
  <2>5. \E p \in DOMAIN logs' : logs'[p] <= snap'
    <3>1. CASE DOMAIN logs = {}
      BY <1>1, <1>7, <1>13, <3>1, Zenon
    <3>2. CASE DOMAIN logs # {}
      <4>1. PICK p \in DOMAIN logs : logs[p] <= snap
        BY <1>1, <1>2, <3>2, Zenon DEF Logs
      <4> QED BY <1>1, <1>7, <4>1, Zenon
    <3> QED BY <3>1, <3>2, Zenon
  <2>6. DOMAIN logs' \subseteq DOMAIN files'
    BY <1>2, <1>6, <1>7, Zenon DEF Logs
  <2>7. wh' \in DOMAIN logs' /\ wh' = binlog_index' - 1
    BY <1>1, <1>3, <1>7, Zenon
  <2> QED BY <1>1, <2>1, <2>2, <2>3, <2>4, <2>5, <2>6, <2>7, Zenon DEF Logs
<1>15. Phase'
  BY <1>1, <1>2, Zenon DEF Phase
<1>16. Del'
  <2>1. snap_part >= 0 => snap_part \in DOMAIN logs /\ logs[snap_part] <= snap
    BY <1>2, Zenon DEF Del
  <2>2. ASSUME NEW p \in doomed PROVE p \in DOMAIN files' \ DOMAIN logs' /\ p < binlog_index'
    <3>1. p \in DOMAIN files \ DOMAIN logs /\ p < b /\ p \in Nat
      BY <1>2, Nums, Zenon DEF Del, b
    <3>2. p < b + 1 /\ p # b
      BY ONLY <1>3, <3>1
    <3> QED BY <1>1, <1>6, <1>7, <3>1, <3>2, Zenon
  <2> QED BY <1>1, <1>2, <1>7, <2>1, <2>2, Zenon DEF Del
<1>17. DOMAIN logs = {} => b > min_log_index
  <2>1. min_log_index \in Int /\ min_log_index >= -1 /\ snap_part \in Int
    BY <1>2, Nums, Zenon
  <2>2. min_log_index >= 0 => min_log_index < snap_part
    BY <1>2, Zenon DEF Del
  <2>3. snap_part >= 0 => snap_part \in DOMAIN logs
    BY <1>2, Zenon DEF Del
  <2> QED BY ONLY <1>3, <2>1, <2>2, <2>3
<1>18. ASSUME NEW n \in Nodes PROVE Node(n)'
  <2> SUFFICES ASSUME synced[n] >= 0, n \notin lost PROVE Node(n)'
    BY <1>1, Zenon DEF Node
  <2>1. /\ part[n] = -1 => \/ DOMAIN logs = {} /\ log_offset <= synced[n]
                           \/ \E p \in DOMAIN logs : p > min_log_index /\ logs[p] <= synced[n]
        /\ part[n] >= 0 =>
              /\ part[n] \in DOMAIN logs /\ part[n] > min_log_index
              /\ pos[n] <= Len(files[part[n]].log) + 1
              /\ \A i \in 1 .. Len(files[part[n]].log) :
                    i < pos[n] => files[part[n]].log[i] <= synced[n]
        /\ \A e \in synced[n] + 1 .. log_offset :
              \E p \in DOMAIN logs : p >= part[n] /\ e \in Ent(p)
    BY Zenon DEF IInv, Node
  <2>2. part[n] = -1 => \E p \in DOMAIN logs' : p > min_log_index /\ logs'[p] <= synced[n]
    BY <1>2, <1>7, <1>17, <2>1, Zenon
  <2>3. \A p \in DOMAIN logs : p \in DOMAIN files /\ files'[p].log = files[p].log
    BY <1>2, <1>4, <1>6, Zenon DEF Logs
  <2>4. part[n] >= 0 =>
              /\ part[n] \in DOMAIN logs' /\ part[n] > min_log_index
              /\ pos[n] <= Len(files'[part[n]].log) + 1
              /\ \A i \in 1 .. Len(files'[part[n]].log) :
                    i < pos[n] => files'[part[n]].log[i] <= synced[n]
    BY <1>7, <2>1, <2>3, Zenon
  <2>5. \A e \in synced[n] + 1 .. log_offset :
              \E p \in DOMAIN logs' : p >= part[n] /\ e \in Ent(p)'
    BY <1>7, <1>11, <2>1, <2>3, Zenon
  <2> QED BY <1>1, <2>1, <2>2, <2>4, <2>5, Zenon DEF Node
<1> QED BY <1>9, <1>12, <1>14, <1>15, <1>16, <1>18, Zenon DEF IInv

\* What a sequence holds after an Append.
LEMMA AppendFact ==
    ASSUME NEW S, NEW s \in Seq(S), NEW x \in S, NEW t, t = Append(s, x)
    PROVE  /\ t \in Seq(S) /\ Len(t) = Len(s) + 1 /\ Len(s) \in Nat
           /\ \A i \in 1 .. Len(s) : t[i] = s[i]
           /\ {t[i] : i \in 1 .. Len(t)} = {s[i] : i \in 1 .. Len(s)} \cup {x}
<1>1. /\ t \in Seq(S) /\ Len(t) = Len(s) + 1 /\ Len(s) \in Nat
      /\ \A i \in 1 .. Len(s) : t[i] = s[i]
      /\ t[Len(t)] = x
  OBVIOUS
<1>2. \A i : i \in 1 .. Len(t) <=> i \in 1 .. Len(s) \/ i = Len(t)
  BY <1>1
<1>3. {t[i] : i \in 1 .. Len(t)} = {s[i] : i \in 1 .. Len(s)} \cup {x}
  <2>1. ASSUME NEW y \in {t[i] : i \in 1 .. Len(t)}
        PROVE  y \in {s[i] : i \in 1 .. Len(s)} \cup {x}
    BY <1>1, <1>2, <2>1, Zenon
  <2>2. ASSUME NEW y \in {s[i] : i \in 1 .. Len(s)} \cup {x}
        PROVE  y \in {t[i] : i \in 1 .. Len(t)}
    BY <1>1, <1>2, <2>2, Zenon
  <2> QED BY <2>1, <2>2, Zenon
<1> QED BY <1>1, <1>3, Zenon

\* The new entry goes to the last part and is behind all others.
LEMMA AppendEntryStep ==
    ASSUME IInv, ~EarlyPut, AppendEntry
    PROVE  IInv'
<1> DEFINE o == acked + 1
<1>1. /\ stat = "kNormal" /\ loader = "idle" /\ log_offset < MaxOffset
      /\ wh # -1 /\ ~(Len(files[wh].log) >= PartSize)
      /\ files' = [files EXCEPT ![wh].log = Append(@, log_offset + 1)]
      /\ log_offset' = log_offset + 1 /\ acked' = log_offset + 1
      /\ UNCHANGED <<snap, logs, binlog_index, wh, snap_part, stat, loader, latest, part, pos,
                     synced, lost, min_log_index, doomed, crashes>>
  BY Zenon DEF AppendEntry, AcceptsPut, NeedsRoll, loadVars, nodeVars, delVars
<1>2. /\ TypeOK /\ FilesOK(files) /\ Disk /\ Logs /\ Phase /\ Del
      /\ log_offset = acked /\ stat # "down"
  BY <1>1, Zenon DEF IInv, Phase
<1>3. acked \in Nat /\ snap \in Nat /\ wh \in Int /\ binlog_index \in Nat
  BY <1>2, Nums, Zenon
<1>4. wh \in DOMAIN logs /\ wh \in DOMAIN files /\ wh = binlog_index - 1
  BY <1>1, <1>2, Zenon DEF Logs
<1>5. /\ o \in 1 .. MaxOffset /\ o \in Offsets /\ o <= o /\ acked < o
      /\ \A e \in Nat : e <= acked => e <= o /\ e < o
  BY ONLY SMTT(60), <1>1, <1>2, <1>3, BinlogAssumption DEF Offsets
<1>6. /\ files[wh].log \in Seq(1 .. MaxOffset) /\ Len(files[wh].log) <= PartSize
      /\ files[wh] \in [log : Seq(1 .. MaxOffset), eof : BOOLEAN]
  BY <1>2, <1>4, Zenon DEF FilesOK, TypeOK
<1>7. /\ DOMAIN files' = DOMAIN files
      /\ \A p \in DOMAIN files : p # wh => files'[p] = files[p]
      /\ files'[wh] = [files[wh] EXCEPT !.log = Append(@, o)]
  BY <1>1, <1>2, <1>4, Zenon
<1>8. log_offset' = o /\ acked' = o
  BY <1>1, <1>2, Zenon
<1> HIDE DEF o
<1>9. /\ files'[wh].log = Append(files[wh].log, o)
      /\ files'[wh].eof = files[wh].eof
      /\ files'[wh] = [log |-> Append(files[wh].log, o), eof |-> files[wh].eof]
  BY ONLY <1>6, <1>7, ZenonT(60)
<1>10. /\ files'[wh].log \in Seq(1 .. MaxOffset)
       /\ {files'[wh].log[i] : i \in 1 .. Len(files'[wh].log)} =
            {files[wh].log[i] : i \in 1 .. Len(files[wh].log)} \cup {o}
       /\ Len(files'[wh].log) = Len(files[wh].log) + 1 /\ Len(files[wh].log) \in Nat
       /\ \A i \in 1 .. Len(files[wh].log) : files'[wh].log[i] = files[wh].log[i]
  <2> DEFINE s == files[wh].log
  <2> DEFINE t == files'[wh].log
  <2>1. s \in Seq(1 .. MaxOffset) /\ o \in 1 .. MaxOffset /\ t = Append(s, o)
    BY <1>5, <1>6, <1>9, Zenon
  <2> HIDE DEF s, t
  <2>2. /\ t \in Seq(1 .. MaxOffset)
        /\ Len(t) = Len(s) + 1 /\ Len(s) \in Nat
        /\ \A i \in 1 .. Len(s) : t[i] = s[i]
        /\ {t[i] : i \in 1 .. Len(t)} = {s[i] : i \in 1 .. Len(s)} \cup {o}
    BY ONLY <2>1, AppendFact
  <2> QED BY <2>2, Zenon DEF s, t
<1>11. ASSUME NEW p, p = wh PROVE Ent(p)' = Ent(p) \cup {o}
  <2>1. Ent(p)' = {files'[wh].log[i] : i \in 1 .. Len(files'[wh].log)}
    BY <1>11, Zenon DEF Ent
  <2>2. Ent(p) = {files[wh].log[i] : i \in 1 .. Len(files[wh].log)}
    BY <1>11, Zenon DEF Ent
  <2> QED BY <1>10, <2>1, <2>2, Zenon
<1>12. ASSUME NEW p \in DOMAIN files, p # wh PROVE Ent(p)' = Ent(p)
  <2>1. files'[p] = files[p]
    BY <1>7, <1>12, Zenon
  <2> QED BY <2>1, Zenon DEF Ent
<1>13. TypeOK' /\ FilesOK(files)'
  <2>1. Len(files'[wh].log) <= PartSize
    BY ONLY SMTT(60), <1>1, <1>6, <1>10, BinlogAssumption
  <2>2. files'[wh] \in [log : Seq(1 .. MaxOffset), eof : BOOLEAN]
    BY ONLY <1>6, <1>9, <1>10
  <2>3. \A p \in DOMAIN files' :
           /\ files'[p] \in [log : Seq(1 .. MaxOffset), eof : BOOLEAN]
           /\ Len(files'[p].log) <= PartSize
    BY <1>2, <1>7, <2>1, <2>2, Zenon DEF FilesOK
  <2>4. files' \in [DOMAIN files' -> [log : Seq(1 .. MaxOffset), eof : BOOLEAN]]
    <3>1. files' = [p \in DOMAIN files' |-> files'[p]]
      BY <1>1, Zenon
    <3> QED BY <2>3, <3>1, Zenon
  <2>5. FilesOK(files')
    BY <1>2, <1>7, <2>3, <2>4, Zenon DEF FilesOK
  <2> QED BY <1>1, <1>2, <1>5, <1>8, <2>5, TypeNext, Zenon
<1>14. \A p \in DOMAIN files : \A e \in Ent(p) : e \in Nat /\ e <= acked
  BY <1>2, Nums, Zenon DEF Disk
<1>15. ASSUME NEW q \in DOMAIN files, wh < q PROVE Ent(q) = {}
  <2>1. q >= binlog_index
    <3>1. q \in Nat
      BY <1>2, Nums, Zenon
    <3> QED BY ONLY <1>3, <1>4, <1>15, <3>1
  <2> QED BY <1>2, <2>1, Zenon DEF Logs
<1>16. Disk'
  <2>1. \A p \in DOMAIN files' : \A e \in Ent(p)' : e <= acked'
    <3>1. ASSUME NEW p \in DOMAIN files, NEW e \in Ent(p)' PROVE e <= o
      <4>1. e \in Ent(p) \/ e = o
        <5>1. CASE p = wh
          <6>1. Ent(p)' = Ent(p) \cup {o}
            BY <1>11, <5>1, Zenon
          <6> QED BY <3>1, <6>1, Zenon
        <5>2. CASE p # wh
          BY <1>12, <3>1, <5>2, Zenon
        <5> QED BY <5>1, <5>2, Zenon
      <4> QED BY <1>5, <1>14, <4>1, Zenon
    <3> QED BY <1>7, <1>8, <3>1, Zenon
  <2>2. ASSUME NEW p \in DOMAIN files', NEW q \in DOMAIN files', p < q,
               NEW e \in Ent(p)', NEW f \in Ent(q)'
        PROVE  e < f
    <3>0. p \in DOMAIN files /\ q \in DOMAIN files /\ p \in Nat /\ q \in Nat
      BY <1>2, <1>7, Nums, Zenon
    <3>1. p # q
      BY ONLY <2>2, <3>0
    <3>2. p # wh
      <4>1. CASE p = wh
        BY <1>12, <1>15, <2>2, <3>0, <3>1, <4>1, Zenon
      <4> QED BY <4>1, Zenon
    <3>3. e \in Ent(p)
      BY <1>12, <2>2, <3>0, <3>2, Zenon
    <3>4. CASE f \in Ent(q)
      <4>1. \A x \in Ent(p), y \in Ent(q) : x < y
        BY <1>2, <2>2, <3>0, Zenon DEF Disk
      <4> QED BY <3>3, <3>4, <4>1, Zenon
    <3>5. CASE f = o
      BY <1>5, <1>14, <3>0, <3>3, <3>5, Zenon
    <3>6. f \in Ent(q) \/ f = o
      <4>1. CASE q = wh
        <5>1. Ent(q)' = Ent(q) \cup {o}
          BY <1>11, <4>1, Zenon
        <5> QED BY <2>2, <5>1, Zenon
      <4>2. CASE q # wh
        BY <1>12, <2>2, <3>0, <4>2, Zenon
      <4> QED BY <4>1, <4>2, Zenon
    <3> QED BY <3>4, <3>5, <3>6, Zenon
  <2>3. ASSUME NEW e \in snap' + 1 .. acked' PROVE \E p \in DOMAIN files' : e \in Ent(p)'
    <3>1. CASE e = o
      BY <1>4, <1>7, <1>11, <3>1, Zenon
    <3>2. CASE e # o
      <4>1. e \in snap + 1 .. o
        BY <1>1, <1>8, Zenon
      <4>2. e \in snap + 1 .. acked
        BY ONLY <1>3, <3>2, <4>1 DEF o
      <4>3. PICK p \in DOMAIN files : e \in Ent(p)
        BY <1>2, <4>2, Zenon DEF Disk
      <4> QED BY <1>7, <1>11, <1>12, <4>3, Zenon
    <3> QED BY <3>1, <3>2, Zenon
  <2>4. snap' <= acked'
    BY <1>1, <1>2, <1>3, <1>5, <1>8, Zenon DEF Disk
  <2> QED BY <2>1, <2>2, <2>3, <2>4, Zenon DEF Disk
<1>17. Logs'
  <2>0. \A p \in DOMAIN logs : p \in Nat /\ logs[p] \in Nat /\ p < binlog_index /\ logs[p] <= acked
    BY <1>2, Nums, Zenon DEF Logs
  <2>1. \A p \in DOMAIN logs' : p < binlog_index' /\ logs'[p] <= acked'
    BY <1>1, <1>5, <1>8, <2>0, Zenon
  <2>2. ASSUME NEW p \in DOMAIN files', NEW q \in DOMAIN logs', p < q
        PROVE  \A e \in Ent(p)' : e <= logs'[q]
    <3>0. p \in DOMAIN files /\ q \in DOMAIN logs /\ p \in Nat /\ q \in Nat /\ q < binlog_index
      BY <1>1, <1>2, <1>7, <2>0, Nums, Zenon
    <3>1. p # wh
      BY ONLY <1>3, <1>4, <2>2, <3>0
    <3>2. \A e \in Ent(p) : e <= logs[q]
      BY <1>2, <2>2, <3>0, Zenon DEF Logs
    <3> QED BY <1>1, <1>12, <3>0, <3>1, <3>2, Zenon
  <2>3. ASSUME NEW p \in DOMAIN files' \ DOMAIN logs' PROVE \A e \in Ent(p)' : e <= snap'
    <3>1. p \in DOMAIN files \ DOMAIN logs /\ p # wh
      BY <1>1, <1>4, <1>7, Zenon
    <3>2. \A e \in Ent(p) : e <= snap
      BY <1>2, <3>1, Zenon DEF Logs
    <3> QED BY <1>1, <1>12, <3>1, <3>2, Zenon
  <2>4. ASSUME NEW p \in DOMAIN files', p >= binlog_index PROVE Ent(p)' = {}
    <3>1. p \in DOMAIN files /\ Ent(p) = {} /\ p \in Nat
      BY <1>2, <1>7, <2>4, Nums, Zenon DEF Logs
    <3>2. p # wh
      BY ONLY <1>3, <1>4, <2>4, <3>1
    <3> QED BY <1>12, <3>1, <3>2, Zenon
  <2>5. /\ stat' = "kNormal" /\ DOMAIN logs' # {} => \E p \in DOMAIN logs' : logs'[p] <= snap'
        /\ DOMAIN logs' \subseteq DOMAIN files'
        /\ wh' # -1 => wh' \in DOMAIN logs' /\ wh' = binlog_index' - 1
    BY <1>1, <1>2, <1>7, Zenon DEF Logs
  <2> QED BY <1>1, <2>1, <2>2, <2>3, <2>4, <2>5, Zenon DEF Logs
<1>18. Phase'
  BY <1>1, <1>2, <1>8, Zenon DEF Phase
<1>19. Del'
  BY <1>1, <1>2, <1>7, Zenon DEF Del
<1>20. ASSUME NEW n \in Nodes PROVE Node(n)'
  <2> SUFFICES ASSUME synced[n] >= 0, n \notin lost PROVE Node(n)'
    BY <1>1, Zenon DEF Node
  <2>0. synced[n] \in Int /\ synced[n] >= -1 /\ pos[n] \in Nat /\ part[n] \in Int /\ part[n] >= -1
    BY <1>2, Nums, Zenon
  <2>1. part[n] = -1 => \E p \in DOMAIN logs : p > min_log_index /\ logs[p] <= synced[n]
    BY <1>2, <1>4, Zenon DEF IInv, Node
  <2>2. part[n] >= 0 =>
              /\ part[n] \in DOMAIN logs /\ part[n] > min_log_index
              /\ pos[n] <= Len(files[part[n]].log) + 1
              /\ \A i \in 1 .. Len(files[part[n]].log) :
                    i < pos[n] => files[part[n]].log[i] <= synced[n]
    BY Zenon DEF IInv, Node
  <2>3. \A e \in synced[n] + 1 .. acked : \E p \in DOMAIN logs : p >= part[n] /\ e \in Ent(p)
    BY <1>2, Zenon DEF IInv, Node
  <2>5. ASSUME part[n] >= 0
        PROVE  /\ pos[n] <= Len(files'[part[n]].log) + 1
               /\ \A i \in 1 .. Len(files'[part[n]].log) :
                     i < pos[n] => files'[part[n]].log[i] <= synced[n]
    <3>1. part[n] \in DOMAIN files
      BY <1>2, <2>2, <2>5, Zenon DEF Logs
    <3>2. CASE part[n] # wh
      BY <1>7, <2>2, <2>5, <3>1, <3>2, Zenon
    <3>3. CASE part[n] = wh
      <4>1. /\ pos[n] <= Len(files[wh].log) + 1
            /\ \A i \in 1 .. Len(files[wh].log) : i < pos[n] => files[wh].log[i] <= synced[n]
        BY <2>2, <2>5, <3>3, Zenon
      <4>2. pos[n] <= Len(files'[wh].log) + 1
        BY ONLY <1>10, <2>0, <4>1
      <4>3. \A i \in 1 .. Len(files'[wh].log) : i < pos[n] => i \in 1 .. Len(files[wh].log)
        BY ONLY <1>10, <2>0, <4>1
      <4> QED BY <1>10, <3>3, <4>1, <4>2, <4>3, Zenon
    <3> QED BY <3>2, <3>3, Zenon
  <2>6. wh >= part[n]
    <3>1. part[n] >= 0 => part[n] < binlog_index
      BY <1>2, <2>2, Zenon DEF Logs
    <3>2. wh >= -1
      BY <1>2, Nums, Zenon
    <3> QED BY ONLY <1>3, <1>4, <2>0, <3>1, <3>2
  <2>7. ASSUME NEW e \in synced[n] + 1 .. o
        PROVE  \E p \in DOMAIN logs' : p >= part[n] /\ e \in Ent(p)'
    <3>1. CASE e = o
      BY <1>1, <1>4, <1>11, <2>6, <3>1, Zenon
    <3>2. CASE e # o
      <4>1. e \in synced[n] + 1 .. acked
        BY ONLY <1>3, <2>0, <2>7, <3>2 DEF o
      <4>2. PICK p \in DOMAIN logs : p >= part[n] /\ e \in Ent(p)
        BY <2>3, <4>1, Zenon
      <4>3. p \in DOMAIN files
        BY <1>2, Zenon DEF Logs
      <4> QED BY <1>1, <1>11, <1>12, <4>2, <4>3, Zenon
    <3> QED BY <3>1, <3>2, Zenon
  <2> QED BY <1>1, <1>8, <2>1, <2>2, <2>5, <2>7, Zenon DEF Node
<1> QED BY <1>13, <1>16, <1>17, <1>18, <1>19, <1>20, Zenon DEF IInv

-----------------------------------------------------------------------------
(* The theorems.                                                           *)

\* A new table has no parts and no entries.
LEMMA InitInv ==
    ASSUME Init
    PROVE  IInv
<1>1. /\ files = Empty /\ logs = Empty /\ snap = 0 /\ acked = 0 /\ log_offset = 0 /\ latest = 0
      /\ binlog_index = 0 /\ wh = -1 /\ snap_part = -1 /\ min_log_index = -1 /\ doomed = {}
      /\ stat = "kNormal" /\ loader = "idle" /\ crashes = 0
      /\ part = [n \in Nodes |-> -1] /\ pos = [n \in Nodes |-> 1]
      /\ synced = [n \in Nodes |-> -1] /\ lost = {}
  BY Zenon DEF Init
<1>2. DOMAIN Empty = {} /\ \A p \in DOMAIN Empty : FALSE
  BY Zenon DEF Empty
<1>3. /\ 0 \in Offsets /\ 0 \in 0 .. MaxPart + 1 /\ -1 \in -1 .. MaxPart /\ 0 \in 0 .. MaxCrashes
      /\ 1 \in 1 .. PartSize + 1 /\ -1 \in -1 .. MaxOffset /\ 0 <= 0 /\ ~(-1 >= 0)
      /\ \A e \in 0 + 1 .. 0 : FALSE
  BY BinlogAssumption DEF Offsets
<1>4. DOMAIN files = {} /\ DOMAIN logs = {}
  BY <1>1, <1>2, Zenon
<1>5. TypeOK
  <2>1. /\ part \in [Nodes -> -1 .. MaxPart] /\ pos \in [Nodes -> 1 .. PartSize + 1]
        /\ synced \in [Nodes -> -1 .. MaxOffset] /\ lost \subseteq Nodes
    BY <1>1, <1>3, Zenon
  <2>2. /\ DOMAIN files \subseteq Parts /\ DOMAIN logs \subseteq Parts
        /\ \A p \in DOMAIN files :
              /\ files[p].log \in Seq(1 .. MaxOffset) /\ Len(files[p].log) <= PartSize
              /\ files[p].eof \in BOOLEAN
        /\ \A p \in DOMAIN logs : logs[p] \in Offsets
    BY <1>4, Zenon
  <2>3. doomed \subseteq Parts
    BY <1>1, Zenon
  <2> QED BY <1>1, <1>3, <2>1, <2>2, <2>3, Zenon DEF TypeOK
<1>6. FilesOK(files)
  <2>1. files = [p \in DOMAIN files |-> files[p]]
    BY <1>1, <1>2, Zenon DEF Empty
  <2>2. files \in [DOMAIN files -> [log : Seq(1 .. MaxOffset), eof : BOOLEAN]]
    BY <1>4, <2>1, Zenon
  <2> QED BY <1>4, <2>2, Zenon DEF FilesOK
<1>7. Disk /\ Logs
  <2>1. Disk
    BY <1>1, <1>3, <1>4, Zenon DEF Disk
  <2>2. Logs
    BY <1>1, <1>4, Zenon DEF Logs
  <2> QED BY <2>1, <2>2, Zenon
<1>8. Phase
  BY <1>1, <1>4, Zenon DEF Phase
<1>9. Del
  BY <1>1, <1>3, Zenon DEF Del
<1>10. ASSUME NEW n \in Nodes PROVE Node(n)
  <2>1. synced[n] = -1
    BY <1>1, Zenon
  <2> QED BY <1>3, <2>1, Zenon DEF Node
<1> QED BY <1>5, <1>6, <1>7, <1>8, <1>9, <1>10, Zenon DEF IInv

\* No step and no stutter breaks it, if no put comes before SetOffset.
LEMMA NextInv ==
    ASSUME IInv, ~EarlyPut, [Next]_vars
    PROVE  IInv'
<1>1. CASE RollWLogFile
  BY <1>1, RollWLogFileStep, Zenon
<1>2. CASE AppendEntry
  BY <1>2, AppendEntryStep, Zenon
<1>3. ASSUME NEW n \in Nodes, Read(n) \/ AddReplicateNode(n) \/ DelReplicateNode(n)
      PROVE  IInv'
  BY <1>3, ReadFirstStep, ReadRecordStep, ReadEofStep, AddReplicateNodeStep,
     DelReplicateNodeStep, Zenon DEF Read
<1>4. CASE MakeSnapshot
  BY <1>4, MakeSnapshotStep, Zenon
<1>5. CASE SetSnapshotLogPartIndex
  BY <1>5, SetSnapshotLogPartIndexStep, Zenon
<1>6. CASE ChooseParts
  BY <1>6, ChoosePartsStep, Zenon
<1>7. CASE SplitParts
  BY <1>7, SplitPartsStep, Zenon
<1>8. CASE UnlinkPart
  BY <1>8, UnlinkPartStep, Zenon
<1>9. CASE Crash
  BY <1>9, CrashStep, Zenon
<1>10. CASE Recover
  BY <1>10, RecoverStep, Zenon
<1>11. CASE RecoverFromBinlog
  BY <1>11, RecoverFromBinlogStep, Zenon
<1>12. CASE SetOffset
  BY <1>12, SetOffsetStep, Zenon
<1>13. CASE UNCHANGED vars
  <2>1. UNCHANGED <<files, snap, logs, binlog_index, wh, log_offset, snap_part, stat, loader,
                    latest, part, pos, synced, lost, min_log_index, doomed, acked, crashes>>
    BY <1>13, Zenon DEF vars, diskVars, logVars, loadVars, nodeVars, delVars
  <2>2. TypeOK' /\ FilesOK(files)'
    BY <2>1, TypeNext, Zenon DEF IInv
  <2>3. Disk' /\ Logs' /\ Phase' /\ Del'
    BY <2>1, SameDisk, SameLogs, SamePhase, SameDel, Zenon DEF IInv
  <2>4. \A n \in Nodes : Node(n)'
    BY <2>1, SameNode, Zenon DEF IInv
  <2> QED BY <2>2, <2>3, <2>4, Zenon DEF IInv
<1> QED
  BY <1>1, <1>2, <1>3, <1>4, <1>5, <1>6, <1>7, <1>8, <1>9, <1>10, <1>11, <1>12, <1>13,
     Zenon DEF Next

\* The parts on disk, logs_, the write side, DeleteBinlog and the readers stay
\* in step in every behaviour, through crashes and loads.
THEOREM Invariance ==
    ASSUME ~EarlyPut
    PROVE  Spec => []IInv
<1>1. Init => IInv
  BY InitInv
<1>2. IInv /\ [Next]_vars => IInv'
  BY NextInv
<1> QED BY <1>1, <1>2, PTL DEF Spec

\* Part numbers, offsets and the positions of readers stay in range, through rolls,
\* deletions and RecoverLogIndex, and no part outgrows its size.
THEOREM TypeCorrect ==
    ASSUME ~EarlyPut
    PROVE  Spec => []TypeOK
<1>1. IInv => TypeOK
  BY Zenon DEF IInv
<1> QED BY <1>1, Invariance, PTL

\* Loading a table brings back every entry whose append succeeded: what was
\* snapshotted, deleted, unlinked halfway or left open by crashes does not matter.
THEOREM RecoversAllHolds ==
    ASSUME ~EarlyPut
    PROVE  Spec => []RecoversAll
<1>1. IInv => RecoversAll
  BY Zenon DEF IInv, Phase, RecoversAll
<1> QED BY <1>1, Invariance, PTL

\* What a node still needs can be read from where its reader is.
LEMMA CanRead ==
    ASSUME IInv
    PROVE  NodesCanRead
<1>1. ASSUME NEW n \in Nodes \ lost, synced[n] >= 0, NEW e \in synced[n] + 1 .. log_offset
      PROVE  e \in IF part[n] = -1 THEN Readable(synced[n])
                   ELSE Entries({p \in DOMAIN logs : p >= part[n]})
  <2>1. PICK p \in DOMAIN logs : p >= part[n] /\ e \in Ent(p)
    BY <1>1, Zenon DEF IInv, Node
  <2>2. CASE part[n] # -1
    BY <2>1, <2>2, EntriesFact, Zenon
  <2>3. CASE part[n] = -1
    <3>1. synced[n] \in Nat
      <4>1. synced[n] \in Int
        BY Nums, Zenon DEF IInv
      <4> QED BY ONLY <1>1, <4>1
    <3>2. p \in DOMAIN files /\ e \in Nat
      BY <2>1, Nums, Zenon DEF IInv, Logs
    <3>3. e > synced[n]
      <4>1. log_offset \in Nat
        BY Nums, Zenon DEF IInv
      <4> QED BY ONLY <1>1, <3>1, <4>1
    <3>4. \E q \in DOMAIN logs : logs[q] <= synced[n]
      BY <1>1, <2>1, <2>3, Zenon DEF IInv, Node
    <3>5. StartPart(synced[n]) # -1
      BY <3>1, <3>4, StartFacts, Zenon DEF IInv
    <3>6. p >= StartPart(synced[n])
      BY <2>1, <3>1, <3>3, <3>5, Behindness, Zenon
    <3>7. e \in Readable(synced[n])
      BY <2>1, <3>2, <3>5, <3>6, EntriesFact, Zenon DEF Readable
    <3> QED BY <2>3, <3>7, Zenon
  <2> QED BY <2>2, <2>3, Zenon
<1> QED BY <1>1, Zenon DEF NodesCanRead

\* Deleting parts never takes an entry that a replica still has to get, however
\* DeleteBinlog interleaves with the readers, the writers and the snapshots.
THEOREM NodesCanReadHolds ==
    ASSUME ~EarlyPut
    PROVE  Spec => []NodesCanRead
<1>1. IInv => NodesCanRead
  BY CanRead
<1> QED BY <1>1, Invariance, PTL
=============================================================================
