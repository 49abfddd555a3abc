------------------------ MODULE LogReplicationProofs ------------------------
(***************************************************************************)
(* Proofs about LogReplication, for any number of replicas, offsets,       *)
(* handlers and faults, when the old ReplicateNode of a replica is gone    *)
(* before the replica loads its table again.                               *)
(***************************************************************************)
EXTENDS LogReplication, TLAPS

\* A step that names no prover has a minute for each.
USE SMTT(60), ZenonT(60)

\* What the leader knows of a replica.  A request it waits for, or keeps in
\* cache_, starts right after the last acknowledged entry.
NodeInv(r) ==
    /\ node[r] \in {"none", "match"} => ~cached[r]
    /\ node[r] = "wait" \/ cached[r] => first[r] = last_sync[r] + 1
    /\ up[r] /\ node[r] \in {"sync", "wait"} => last_sync[r] <= offset[r]
    /\ last[r] <= log_offset
    /\ r \in Remote => last[r] <= follower_offset

\* How far a handler can be ahead of the replica's log: at its next entry.
HandlerInv(h) ==
    /\ up[h.replica]
    /\ h.seen <= offset[h.replica]
    /\ h.next <= offset[h.replica] + 1
    /\ h.pc = "put" => h.next <= offset[h.replica] /\ h.next <= h.last
    /\ h.current => node[h.replica] = "wait" /\ h.last = last[h.replica]
    /\ h.replica \in Remote => h.last <= follower_offset

\* The inductive invariant.
Inv ==
    /\ TypeOK
    /\ NoGap
    /\ follower_offset <= log_offset
    /\ \A r \in Replicas : NodeInv(r)
    /\ \A h \in handlers : HandlerInv(h)

-----------------------------------------------------------------------------
(* Facts about the helpers.                                                *)

\* Deliver adds at most one handler, which is at the start of its request.
LEMMA DeliverFact ==
    ASSUME NEW r \in Replicas, NEW from \in 1 .. MaxOffset, NEW to \in Offsets,
           NEW h \in Deliver(r, from, to)
    PROVE  \/ h \in handlers
           \/ /\ up[r]
              /\ h \in Handler
              /\ h.replica = r /\ h.next = from /\ h.last = to /\ h.seen = 0
              /\ h.pc = "start"
<1>1. CASE up[r] /\ FreeIds(r) # {}
  <2> DEFINE i == CHOOSE j \in FreeIds(r) : TRUE
  <2>1. i \in FreeIds(r)
    BY <1>1
  <2>2. i \in 1 .. MaxHandlers
    BY <2>1 DEF FreeIds
  <2> HIDE DEF i
  <2> DEFINE g == [replica |-> r, id |-> i, next |-> from, last |-> to,
                   seen |-> 0, pc |-> "start", current |-> TRUE]
  <2>3. g \in Handler
    BY <2>2, LogReplicationAssumption DEF Handler, Offsets
  <2>4. h \in handlers \/ h = g
    BY <1>1 DEF Deliver, i
  <2>5. /\ g.replica = r /\ g.next = from /\ g.last = to /\ g.seen = 0
        /\ g.pc = "start"
    OBVIOUS
  <2> HIDE DEF g
  <2> QED BY <1>1, <2>3, <2>4, <2>5
<1>2. CASE ~(up[r] /\ FreeIds(r) # {})
  BY <1>2 DEF Deliver
<1> QED BY <1>1, <1>2

\* Abandon keeps every handler and only clears current.
LEMMA AbandonFact ==
    ASSUME NEW hs \in SUBSET Handler, NEW r \in Replicas, NEW h \in Abandon(hs, r)
    PROVE  \E g \in hs :
              /\ h \in Handler
              /\ h.replica = g.replica /\ h.id = g.id /\ h.next = g.next
              /\ h.last = g.last /\ h.seen = g.seen /\ h.pc = g.pc
              /\ h.replica = r => h.current = FALSE
              /\ h.replica # r => h = g
<1>1. PICK g \in hs :
        h = IF g.replica = r THEN [g EXCEPT !.current = FALSE] ELSE g
  BY DEF Abandon
<1> QED BY <1>1, Zenon DEF Handler


\* What the moves of a handler change.
LEMMA HandlerMoves ==
    ASSUME TypeOK, NEW h \in Handler
    PROVE  /\ /\ Started(h) \in Handler
              /\ Started(h).replica = h.replica /\ Started(h).next = h.next
              /\ Started(h).last = h.last /\ Started(h).pc = "apply"
              /\ Started(h).seen = offset[h.replica]
              /\ Started(h).current = h.current
           /\ /\ Applied(h) \in Handler
              /\ Applied(h).replica = h.replica /\ Applied(h).next = h.next
              /\ Applied(h).last = h.last /\ Applied(h).pc = "put"
              /\ Applied(h).seen = h.seen
              /\ Applied(h).current = h.current
           /\ h.next <= h.last =>
              /\ Skipped(h) \in Handler
              /\ Skipped(h).replica = h.replica /\ Skipped(h).next = h.next + 1
              /\ Skipped(h).last = h.last /\ Skipped(h).pc = h.pc
              /\ Skipped(h).seen = h.seen
              /\ Skipped(h).current = h.current
           /\ h.next <= h.last =>
              /\ Stored(h) \in Handler
              /\ Stored(h).replica = h.replica /\ Stored(h).next = h.next + 1
              /\ Stored(h).last = h.last /\ Stored(h).pc = "apply"
              /\ Stored(h).seen = h.seen
              /\ Stored(h).current = h.current
<1> USE LogReplicationAssumption DEF TypeOK, Handler, Offsets
<1>1. /\ Started(h) \in Handler
      /\ Started(h).replica = h.replica /\ Started(h).next = h.next
      /\ Started(h).last = h.last /\ Started(h).pc = "apply"
      /\ Started(h).seen = offset[h.replica]
      /\ Started(h).current = h.current
  BY Zenon DEF Started
<1>2. /\ Applied(h) \in Handler
      /\ Applied(h).replica = h.replica /\ Applied(h).next = h.next
      /\ Applied(h).last = h.last /\ Applied(h).pc = "put"
      /\ Applied(h).seen = h.seen
      /\ Applied(h).current = h.current
  BY Zenon DEF Applied
<1>3. ASSUME h.next <= h.last
      PROVE  /\ Skipped(h) \in Handler
             /\ Skipped(h).replica = h.replica /\ Skipped(h).next = h.next + 1
             /\ Skipped(h).last = h.last /\ Skipped(h).pc = h.pc
             /\ Skipped(h).seen = h.seen
             /\ Skipped(h).current = h.current
  <2>1. h.next + 1 \in 1 .. MaxOffset + 1
    BY <1>3
  <2> QED BY <2>1, Zenon DEF Skipped
<1>4. ASSUME h.next <= h.last
      PROVE  /\ Stored(h) \in Handler
             /\ Stored(h).replica = h.replica /\ Stored(h).next = h.next + 1
             /\ Stored(h).last = h.last /\ Stored(h).pc = "apply"
             /\ Stored(h).seen = h.seen
             /\ Stored(h).current = h.current
  <2>1. h.next + 1 \in 1 .. MaxOffset + 1
    BY <1>4
  <2> QED BY <2>1, Zenon DEF Stored
<1> QED BY <1>1, <1>2, <1>3, <1>4

\* What TypeOK says of the numbers the steps compare.
LEMMA TypeFacts ==
    ASSUME TypeOK
    PROVE  /\ log_offset \in Nat /\ follower_offset \in Nat
           /\ \A q \in Replicas :
                 offset[q] \in Nat /\ last[q] \in Nat /\ last_sync[q] \in Nat
           /\ \A h \in handlers :
                 /\ h \in Handler /\ h.replica \in Replicas
                 /\ h.next \in Nat /\ h.last \in Nat /\ h.seen \in Nat
<1> USE LogReplicationAssumption DEF TypeOK, Offsets
<1>1. log_offset \in Nat /\ follower_offset \in Nat
  OBVIOUS
<1>2. \A q \in Replicas :
        offset[q] \in Nat /\ last[q] \in Nat /\ last_sync[q] \in Nat
  OBVIOUS
<1>3. \A h \in handlers :
        /\ h \in Handler /\ h.replica \in Replicas
        /\ h.next \in Nat /\ h.last \in Nat /\ h.seen \in Nat
  BY DEF Handler
<1> QED BY ONLY <1>1, <1>2, <1>3

\* A handler that moved within its request keeps its invariant when its next
\* entry is at most one above the replica's log.
LEMMA HandlerMoved ==
    ASSUME NEW k, HandlerInv(k), NEW h,
           h.replica = k.replica, h.last = k.last, h.current = k.current,
           UNCHANGED <<up, node, last, follower_offset>>,
           h.seen <= offset'[h.replica], h.next <= offset'[h.replica] + 1,
           h.pc = "put" => h.next <= offset'[h.replica] /\ h.next <= h.last
    PROVE  HandlerInv(h)'
BY DEF HandlerInv

-----------------------------------------------------------------------------
(* The leader's steps.                                                     *)

\* The leader's own append only raises log_offset, so no node or handler is
\* disturbed; without local followers it raises follower_offset with it.
LEMMA AppendEntryStep == Inv /\ AppendEntry => Inv'
<1> SUFFICES ASSUME Inv, AppendEntry PROVE Inv'
  OBVIOUS
<1> USE LogReplicationAssumption DEF Inv, AppendEntry, nodeVars, replicaVars
<1>1. TypeOK'
  BY DEF TypeOK, Offsets
<1>2. NoGap'
  BY DEF NoGap
<1>3. \A r \in Replicas : NodeInv(r)'
  BY DEF NodeInv, TypeOK, Offsets
<1>4. \A h \in handlers' : HandlerInv(h)'
  BY DEF HandlerInv, TypeOK, Offsets, Handler
<1>5. follower_offset' <= log_offset'
  BY DEF TypeOK, Offsets
<1> QED BY <1>1, <1>2, <1>3, <1>4, <1>5

\* A new node starts in "match", where it claims nothing of its replica.
LEMMA AddReplicateNodeStep ==
    \A r \in Replicas : Inv /\ AddReplicateNode(r) => Inv'
<1> SUFFICES ASSUME NEW r \in Replicas, Inv, AddReplicateNode(r) PROVE Inv'
  OBVIOUS
<1> USE LogReplicationAssumption DEF Inv, AddReplicateNode, leaderVars, replicaVars
<1>1. TypeOK'
  BY DEF TypeOK, NodeState
<1>2. NoGap'
  BY DEF NoGap
<1>3. \A q \in Replicas : NodeInv(q)'
  BY DEF NodeInv, TypeOK
<1>4. \A h \in handlers' : HandlerInv(h)'
  BY DEF HandlerInv, TypeOK, Handler
<1>5. follower_offset' <= log_offset'
  BY DEF TypeOK, Offsets
<1> QED BY <1>1, <1>2, <1>3, <1>4, <1>5

\* A removed node leaves its handlers running, no longer current.
LEMMA DelReplicateNodeStep ==
    \A r \in Replicas : Inv /\ DelReplicateNode(r) => Inv'
<1> SUFFICES ASSUME NEW r \in Replicas, Inv, DelReplicateNode(r) PROVE Inv'
  OBVIOUS
<1> USE LogReplicationAssumption DEF Inv, DelReplicateNode, leaderVars, replicaVars
<1>0. handlers \in SUBSET Handler
  BY DEF TypeOK
<1>1. TypeOK'
  <2>1. handlers' \subseteq Handler
    BY <1>0, AbandonFact, Zenon
  <2> QED BY <2>1 DEF TypeOK, NodeState, Offsets
<1>2. NoGap'
  BY DEF NoGap
<1>3. \A q \in Replicas : NodeInv(q)'
  BY DEF NodeInv, TypeOK, Offsets
<1>4. ASSUME NEW h \in handlers' PROVE HandlerInv(h)'
  <2>1. PICK g \in handlers :
          /\ h \in Handler
          /\ h.replica = g.replica /\ h.id = g.id /\ h.next = g.next
          /\ h.last = g.last /\ h.seen = g.seen /\ h.pc = g.pc
          /\ h.replica = r => h.current = FALSE
          /\ h.replica # r => h = g
    BY <1>0, AbandonFact, Zenon
  <2> QED BY <2>1, Zenon DEF HandlerInv, TypeOK, Handler
<1>5. follower_offset' <= log_offset'
  BY DEF TypeOK, Offsets
<1> QED BY <1>1, <1>2, <1>3, <1>4, <1>5

\* Matching reads the replica's offset, so last_sync starts at or below it.
LEMMA MatchLogOffsetStep ==
    \A r \in Replicas : Inv /\ MatchLogOffset(r) => Inv'
<1> SUFFICES ASSUME NEW r \in Replicas, Inv, MatchLogOffset(r) PROVE Inv'
  OBVIOUS
<1> USE LogReplicationAssumption DEF Inv, MatchLogOffset, leaderVars, replicaVars
<1>1. TypeOK'
  BY DEF TypeOK, NodeState, Offsets
<1>2. NoGap'
  BY DEF NoGap
<1>3. \A q \in Replicas : NodeInv(q)'
  BY DEF NodeInv, TypeOK, Offsets
<1>4. \A h \in handlers' : HandlerInv(h)'
  BY Zenon DEF HandlerInv, TypeOK, Handler
<1>5. follower_offset' <= log_offset'
  BY DEF TypeOK, Offsets
<1> QED BY <1>1, <1>2, <1>3, <1>4, <1>5

\* The log reader moves without a claim about the replica.
LEMMA ReaderJumpsStep ==
    \A r \in Replicas : Inv /\ ReaderJumps(r) => Inv'
<1> SUFFICES ASSUME NEW r \in Replicas, Inv, ReaderJumps(r) PROVE Inv'
  OBVIOUS
<1> USE LogReplicationAssumption DEF Inv, ReaderJumps, leaderVars, replicaVars
<1>1. TypeOK'
  BY DEF TypeOK, Offsets
<1>2. NoGap'
  BY DEF NoGap
<1>3. \A q \in Replicas : NodeInv(q)'
  BY DEF NodeInv
<1>4. \A h \in handlers' : HandlerInv(h)'
  BY DEF HandlerInv
<1> QED BY <1>1, <1>2, <1>3, <1>4

\* Going back to last_sync moves only the reader.
LEMMA GoBackStep ==
    \A r \in Replicas : Inv /\ GoBack(r) => Inv'
<1> SUFFICES ASSUME NEW r \in Replicas, Inv, GoBack(r) PROVE Inv'
  OBVIOUS
<1> USE LogReplicationAssumption DEF Inv, GoBack, leaderVars, replicaVars
<1>1. TypeOK'
  BY DEF TypeOK, Offsets
<1>2. NoGap'
  BY DEF NoGap
<1>3. \A q \in Replicas : NodeInv(q)'
  BY DEF NodeInv
<1>4. \A h \in handlers' : HandlerInv(h)'
  BY DEF HandlerInv
<1> QED BY <1>1, <1>2, <1>3, <1>4, Zenon

\* A new request starts at last_sync + 1, so its handler is at most one entry
\* ahead of the replica.
LEMMA BuildRequestStep ==
    \A r \in Replicas : Inv /\ BuildRequest(r) => Inv'
<1> SUFFICES ASSUME NEW r \in Replicas, Inv, BuildRequest(r) PROVE Inv'
  OBVIOUS
<1> USE LogReplicationAssumption DEF Inv, leaderVars, replicaVars
<1>0. /\ node[r] = "sync" /\ ~cached[r] /\ reader[r] = last_sync[r] + 1
      /\ node' = [node EXCEPT ![r] = "wait"]
      /\ UNCHANGED <<leaderVars, last_sync, cached, replicaVars, faults>>
  BY Zenon DEF BuildRequest, Contiguous
<1>a. PICK to \in BatchEnds(r) :
        /\ first' = [first EXCEPT ![r] = reader[r]]
        /\ last' = [last EXCEPT ![r] = to]
        /\ reader' = [reader EXCEPT ![r] = to + 1]
        /\ handlers' = Deliver(r, reader[r], to)
  BY Zenon DEF BuildRequest
<1>b. /\ reader[r] \in 1 .. MaxOffset /\ to \in Offsets /\ to <= log_offset
      /\ r \in Remote => to <= follower_offset
  BY DEF BatchEnds, Limit, TypeOK, Offsets
<1>1. TypeOK'
  <2>1. handlers' \subseteq Handler
    BY <1>a, <1>b, DeliverFact DEF TypeOK
  <2> QED BY <1>0, <1>a, <1>b, <2>1 DEF TypeOK, NodeState, Offsets
<1>2. NoGap'
  BY <1>0, Zenon DEF NoGap
<1>3. \A q \in Replicas : NodeInv(q)'
  BY <1>0, <1>a, <1>b, Zenon DEF NodeInv, TypeOK, Offsets
<1>4. ASSUME NEW h \in handlers' PROVE HandlerInv(h)'
  <2>1. CASE h \in handlers
    BY <2>1, <1>0, <1>a, Zenon DEF HandlerInv, TypeOK, Handler
  <2>2. CASE h \notin handlers
    <3>1. /\ up[r] /\ h \in Handler
          /\ h.replica = r /\ h.next = reader[r] /\ h.last = to /\ h.seen = 0
          /\ h.pc = "start"
      <4>1. h \in Deliver(r, reader[r], to)
        BY <1>a
      <4> QED BY ONLY <4>1, <2>2, <1>b, r \in Replicas, DeliverFact
    <3> QED BY <3>1, <1>0, <1>a, <1>b DEF HandlerInv, NodeInv, TypeOK, Offsets
  <2> QED BY <2>1, <2>2
<1>5. follower_offset' <= log_offset'
  BY <1>0, Zenon
<1> QED BY <1>1, <1>2, <1>3, <1>4, <1>5

\* The cached request is sent as it was: it still starts at last_sync + 1.
LEMMA ResendCachedStep ==
    \A r \in Replicas : Inv /\ ResendCached(r) => Inv'
<1> SUFFICES ASSUME NEW r \in Replicas, Inv, ResendCached(r) PROVE Inv'
  OBVIOUS
<1> USE LogReplicationAssumption DEF Inv, ResendCached, leaderVars, replicaVars
<1>b. /\ first[r] = last_sync[r] + 1
      /\ first[r] \in 1 .. MaxOffset /\ last[r] \in Offsets
  BY DEF NodeInv, TypeOK, Offsets
<1>1. TypeOK'
  <2>1. handlers' \subseteq Handler
    <3>1. handlers \subseteq Handler
      BY DEF TypeOK
    <3>2. \A h \in Deliver(r, first[r], last[r]) : h \in Handler
      BY ONLY <1>b, <3>1, r \in Replicas, DeliverFact
    <3> QED BY <3>2
  <2> QED BY <2>1 DEF TypeOK, NodeState
<1>2. NoGap'
  BY DEF NoGap
<1>3. \A q \in Replicas : NodeInv(q)'
  BY SMTT(30), <1>b DEF NodeInv, TypeOK
<1>4. ASSUME NEW h \in handlers' PROVE HandlerInv(h)'
  <2>1. CASE h \in handlers
    BY <2>1, Zenon DEF HandlerInv, TypeOK, Handler
  <2>2. CASE h \notin handlers
    <3>1. /\ up[r] /\ h \in Handler
          /\ h.replica = r /\ h.next = first[r] /\ h.last = last[r] /\ h.seen = 0
          /\ h.pc = "start"
      <4>1. h \in Deliver(r, first[r], last[r])
        BY Zenon
      <4> QED BY ONLY SMTT(30), <4>1, <2>2, <1>b, r \in Replicas, DeliverFact
    <3> QED BY <3>1, <1>b DEF HandlerInv, NodeInv, TypeOK, Offsets
  <2> QED BY <2>1, <2>2, Zenon
<1> QED BY <1>1, <1>2, <1>3, <1>4, Zenon

\* A second handler of the same request is as far ahead as the first one.
LEMMA RetryCallStep ==
    \A r \in Replicas : Inv /\ RetryCall(r) => Inv'
<1> SUFFICES ASSUME NEW r \in Replicas, Inv, RetryCall(r) PROVE Inv'
  OBVIOUS
<1> USE LogReplicationAssumption DEF Inv, RetryCall, leaderVars, nodeVars, replicaVars
<1>b. /\ first[r] = last_sync[r] + 1
      /\ first[r] \in 1 .. MaxOffset /\ last[r] \in Offsets
  BY DEF NodeInv, TypeOK, Offsets
<1>1. TypeOK'
  <2>1. handlers' \subseteq Handler
    <3>1. handlers \subseteq Handler
      BY DEF TypeOK
    <3>2. \A h \in Deliver(r, first[r], last[r]) : h \in Handler
      BY ONLY <1>b, <3>1, r \in Replicas, DeliverFact
    <3> QED BY <3>2
  <2> QED BY <2>1 DEF TypeOK
<1>2. NoGap'
  BY Zenon DEF NoGap
<1>3. \A q \in Replicas : NodeInv(q)'
  BY Zenon DEF NodeInv
<1>4. ASSUME NEW h \in handlers' PROVE HandlerInv(h)'
  <2>1. CASE h \in handlers
    BY <2>1, Zenon DEF HandlerInv
  <2>2. CASE h \notin handlers
    <3>1. /\ up[r] /\ h \in Handler
          /\ h.replica = r /\ h.next = first[r] /\ h.last = last[r] /\ h.seen = 0
          /\ h.pc = "start"
      <4>1. h \in Deliver(r, first[r], last[r])
        BY Zenon
      <4> QED BY ONLY <4>1, <2>2, <1>b, r \in Replicas, DeliverFact
    <3> QED BY SMTT(30), <3>1, <1>b DEF HandlerInv, NodeInv, TypeOK, Offsets
  <2> QED BY <2>1, <2>2, Zenon
<1> QED BY <1>1, <1>2, <1>3, <1>4, Zenon

\* After a timeout the request is cached and its handlers may still run.
LEMMA CallFailedStep ==
    \A r \in Replicas : Inv /\ CallFailed(r) => Inv'
<1> SUFFICES ASSUME NEW r \in Replicas, Inv, CallFailed(r) PROVE Inv'
  OBVIOUS
<1> USE LogReplicationAssumption DEF Inv, CallFailed, leaderVars, replicaVars
<1>0. handlers \in SUBSET Handler
  BY DEF TypeOK
<1>1. TypeOK'
  <2>1. handlers' \subseteq Handler
    BY <1>0, AbandonFact, Zenon
  <2>2. faults' \in 0 .. MaxFaults
    BY DEF TypeOK
  <2> QED BY <2>1, <2>2, Zenon DEF TypeOK, NodeState
<1>2. NoGap'
  BY Zenon DEF NoGap
<1>3. \A q \in Replicas : NodeInv(q)'
  BY Zenon DEF NodeInv, TypeOK
<1>4. ASSUME NEW h \in handlers' PROVE HandlerInv(h)'
  <2>1. PICK g \in handlers :
          /\ h \in Handler
          /\ h.replica = g.replica /\ h.id = g.id /\ h.next = g.next
          /\ h.last = g.last /\ h.seen = g.seen /\ h.pc = g.pc
          /\ h.replica = r => h.current = FALSE
          /\ h.replica # r => h = g
    BY <1>0, AbandonFact, Zenon
  <2> QED BY <2>1, Zenon DEF HandlerInv, TypeOK, Handler
<1> QED BY <1>1, <1>2, <1>3, <1>4

-----------------------------------------------------------------------------
(* The steps of a handler.                                                 *)

\* An error answer disturbs only the node that waits for it.
LEMMA AnswerErrorStep ==
    ASSUME Inv, NEW k \in handlers, AnswerError(k), faults' \in 0 .. MaxFaults
    PROVE  Inv'
<1> DEFINE r == k.replica
<1> USE LogReplicationAssumption DEF Inv, leaderVars, replicaVars
<1>0. handlers \ {k} \in SUBSET Handler /\ r \in Replicas
  BY Zenon DEF TypeOK, Handler
<1>a. UNCHANGED <<leaderVars, last_sync, reader, first, last, replicaVars>>
  BY DEF AnswerError
<1>2. NoGap'
  BY <1>a, Zenon DEF NoGap
<1>5. follower_offset' <= log_offset'
  BY <1>a
<1>b. CASE k.current
  <2> USE <1>a, <1>b DEF AnswerError
  <2>1. TypeOK'
    <3>1. handlers' \subseteq Handler
      <4>1. handlers' = Abandon(handlers \ {k}, r)
        BY Zenon
      <4>2. \A h \in Abandon(handlers \ {k}, r) : h \in Handler
        BY ONLY ZenonT(30), <1>0, AbandonFact
      <4> QED BY ONLY <4>1, <4>2
    <3> QED BY ZenonT(30), <1>0, <3>1 DEF TypeOK, NodeState
  <2>2. \A q \in Replicas : NodeInv(q)'
    <3>1. node[r] = "wait"
      BY Zenon DEF HandlerInv
    <3> QED BY <1>0, <3>1 DEF NodeInv, TypeOK
  <2>3. ASSUME NEW h \in handlers' PROVE HandlerInv(h)'
    <3>0. h \in Abandon(handlers \ {k}, r)
      BY Zenon
    <3>1. PICK g \in handlers \ {k} :
            /\ h \in Handler
            /\ h.replica = g.replica /\ h.id = g.id /\ h.next = g.next
            /\ h.last = g.last /\ h.seen = g.seen /\ h.pc = g.pc
            /\ h.replica = r => h.current = FALSE
            /\ h.replica # r => h = g
      BY ONLY <1>0, <3>0, AbandonFact, Zenon
    <3>2. HandlerInv(g) /\ r \in Replicas
      BY <1>0, <3>1, Zenon
    <3>3. \A q \in Replicas : q # r => node'[q] = node[q]
      BY Zenon DEF TypeOK
    <3>4. g.replica \in Replicas /\ UNCHANGED <<up, offset, last, follower_offset>>
      BY <3>1, TypeFacts, Zenon
    <3> QED BY ONLY <3>1, <3>2, <3>3, <3>4, Zenon DEF HandlerInv
  <2> QED BY <2>1, <2>2, <2>3, <1>2, <1>5, Zenon
<1>c. CASE ~k.current
  <2> USE <1>a, <1>c DEF AnswerError
  <2>1. TypeOK'
    BY Zenon DEF TypeOK
  <2>2. \A q \in Replicas : NodeInv(q)'
    BY Zenon DEF NodeInv
  <2>3. \A h \in handlers' : HandlerInv(h)'
    BY Zenon DEF HandlerInv
  <2> QED BY <2>1, <2>2, <2>3, <1>2, <1>5, Zenon
<1> QED BY <1>b, <1>c

\* AppendEntries reads the log offset once; the log only grows afterwards.
LEMMA StartEntriesStep ==
    ASSUME Inv, NEW k \in handlers, StartEntries(k)
    PROVE  Inv'
<1> DEFINE r == k.replica
<1>0. /\ TypeOK /\ NoGap /\ follower_offset <= log_offset
      /\ k \in Handler /\ r \in Replicas /\ HandlerInv(k)
  BY TypeFacts DEF Inv
<1>u. UNCHANGED <<log_offset, follower_offset, node, last_sync, reader, first, last, cached,
                  offset, binlog, table, up, fenced, faults>>
  BY Zenon DEF StartEntries, leaderVars, nodeVars, replicaVars
<1>a. Started(k) \in Handler /\ handlers' = (handlers \ {k}) \cup {Started(k)}
  BY <1>0, HandlerMoves, Zenon DEF StartEntries, Advance, HandlerInv
<1>1. TypeOK'
  BY ONLY <1>0, <1>a, <1>u, Zenon DEF TypeOK
<1>2. NoGap' /\ follower_offset' <= log_offset'
  BY ONLY <1>0, <1>u, Zenon DEF NoGap
<1>3. \A q \in Replicas : NodeInv(q)'
  BY ONLY Inv, <1>u, Zenon DEF Inv, NodeInv
<1>4. ASSUME NEW h \in handlers' PROVE HandlerInv(h)'
  <2>1. CASE h = Started(k)
    <3>1. /\ h.replica = r /\ h.next = k.next /\ h.last = k.last
          /\ h.pc = "apply" /\ h.seen = offset[r] /\ h.current = k.current
      BY ONLY <2>1, <1>0, HandlerMoves, Zenon
    <3>2. k.next <= offset[r] + 1 /\ offset[r] <= offset[r]
      <4>1. offset[r] \in Nat
        BY ONLY <1>0, TypeFacts, Zenon
      <4>2. offset[r] <= offset[r]
        BY ONLY <4>1
      <4> QED BY ONLY <1>0, <4>2, Zenon DEF HandlerInv
    <3> QED BY ONLY <1>0, <1>u, <3>1, <3>2, HandlerMoved, Zenon
  <2>2. CASE h \in handlers
    <3>1. HandlerInv(h) /\ h.next \in Nat /\ h.seen \in Nat /\ offset[h.replica] \in Nat
      BY <2>2, <1>0, TypeFacts, Zenon DEF Inv
    <3> QED BY ONLY <1>u, <3>1, Zenon DEF HandlerInv
  <2> QED BY ONLY <2>1, <2>2, <1>a, h \in handlers'
<1> QED BY ONLY <1>1, <1>2, <1>3, <1>4 DEF Inv

\* An entry that the offset read at the start already covers is skipped.
LEMMA SkipEntryStep ==
    ASSUME Inv, NEW k \in handlers, SkipEntry(k)
    PROVE  Inv'
<1> DEFINE r == k.replica
<1>0. /\ TypeOK /\ NoGap /\ follower_offset <= log_offset
      /\ k \in Handler /\ r \in Replicas /\ HandlerInv(k)
  BY TypeFacts DEF Inv
<1>u. UNCHANGED <<log_offset, follower_offset, node, last_sync, reader, first, last, cached,
                  offset, binlog, table, up, fenced, faults>>
  BY DEF SkipEntry, leaderVars, nodeVars, replicaVars
<1>a. Skipped(k) \in Handler /\ handlers' = (handlers \ {k}) \cup {Skipped(k)}
  BY <1>0, HandlerMoves, Zenon DEF SkipEntry, Advance, HandlerInv
<1>1. TypeOK'
  BY ONLY <1>0, <1>a, <1>u, Zenon DEF TypeOK
<1>2. NoGap' /\ follower_offset' <= log_offset'
  BY ONLY <1>0, <1>u DEF NoGap
<1>3. \A q \in Replicas : NodeInv(q)'
  BY ONLY Inv, <1>u DEF Inv, NodeInv
<1>4. ASSUME NEW h \in handlers' PROVE HandlerInv(h)'
  <2>1. CASE h = Skipped(k)
    <3>1. /\ h.replica = r /\ h.next = k.next + 1 /\ h.last = k.last
          /\ h.pc = "apply" /\ h.seen = k.seen /\ h.current = k.current
      BY <2>1, <1>0, HandlerMoves, Zenon DEF SkipEntry, HandlerInv
    <3>2. k.next + 1 <= offset[r] + 1 /\ k.seen <= offset[r]
      BY <1>0, TypeFacts DEF SkipEntry, HandlerInv
    <3>3. h.seen <= offset'[h.replica] /\ h.next <= offset'[h.replica] + 1 /\ h.pc # "put"
      BY ONLY <1>u, <3>1, <3>2, Zenon
    <3> QED BY ONLY <1>0, <1>u, <3>1, <3>3, HandlerMoved, Zenon
  <2>2. CASE h \in handlers
    <3>1. HandlerInv(h) /\ h.next \in Nat /\ h.seen \in Nat /\ offset[h.replica] \in Nat
      BY <2>2, <1>0, TypeFacts DEF Inv
    <3> QED BY ONLY <1>u, <3>1 DEF HandlerInv
  <2> QED BY ONLY SMTT(30), <2>1, <2>2, <1>a, h \in handlers'
<1> QED BY ONLY <1>1, <1>2, <1>3, <1>4 DEF Inv

\* ApplyEntry writes the entry after the replica's last one, or does nothing
\* when another handler wrote it meanwhile: this is where a gap could appear.
LEMMA ApplyEntryStep ==
    ASSUME Inv, NEW k \in handlers, ApplyEntry(k)
    PROVE  Inv'
<1> DEFINE r == k.replica
<1> USE LogReplicationAssumption DEF Inv, ApplyEntry, leaderVars, nodeVars, replicaVars
<1>0. TypeOK /\ k \in Handler /\ r \in Replicas /\ HandlerInv(k)
  BY TypeFacts, Zenon
<1>a. Applied(k) \in Handler /\ handlers' = (handlers \ {k}) \cup {Applied(k)}
  BY <1>0, HandlerMoves, Zenon DEF Advance, HandlerInv
<1>1. TypeOK'
  BY <1>0, <1>a DEF TypeOK, Handler, Offsets
<1>2. NoGap'
  <2>1. k.next \in Nat /\ offset[r] \in Nat /\ k.next <= offset[r] + 1
    BY <1>0 DEF TypeOK, Handler, Offsets, HandlerInv
  <2>2. CASE k.next <= offset[r]
    BY <2>2 DEF NoGap
  <2>3. CASE ~(k.next <= offset[r])
    <3>1. k.next = offset[r] + 1
      BY <2>1, <2>3
    <3>2. binlog[r] \cup {k.next} = 1 .. k.next
      BY <1>0, <2>1, <3>1 DEF NoGap
    <3> QED BY ZenonT(30), <1>0, <2>3, <3>2 DEF NoGap, TypeOK
  <2> QED BY <2>2, <2>3
<1>b. /\ UNCHANGED <<up, node, last, follower_offset>>
      /\ offset'[r] = IF k.next <= offset[r] THEN offset[r] ELSE k.next
      /\ \A q \in Replicas \ {r} : offset'[q] = offset[q]
  BY <1>0, Zenon DEF TypeOK
<1>c. k.next \in Nat /\ \A q \in Replicas : offset[q] \in Nat
  BY <1>0 DEF TypeOK, Handler, Offsets
<1>d. k.next <= offset'[r] /\ \A q \in Replicas : offset'[q] \in Nat /\ offset[q] <= offset'[q]
  BY ONLY <1>0, <1>b, <1>c
<1>3. ASSUME NEW q \in Replicas PROVE NodeInv(q)'
  <2>1. NodeInv(q) /\ last_sync[q] \in Nat
    BY <1>0 DEF TypeOK, Offsets
  <2>2. UNCHANGED <<log_offset, follower_offset, node, last_sync, first, last, cached, up>>
    OBVIOUS
  <2> QED BY ONLY <2>1, <2>2, <1>c, <1>d DEF NodeInv
<1>4. ASSUME NEW h \in handlers' PROVE HandlerInv(h)'
  <2>1. CASE h = Applied(k)
    <3>1. /\ h.replica = r /\ h.next = k.next /\ h.last = k.last
          /\ h.pc = "put" /\ h.seen = k.seen /\ h.current = k.current
      BY <2>1, <1>0, HandlerMoves, Zenon DEF HandlerInv
    <3>2. k.last \in Nat /\ k.seen \in Nat /\ k.next <= k.last
      BY SMTT(30), <1>0 DEF TypeOK, Handler, Offsets
    <3>3. h.seen <= offset'[r] /\ h.next <= offset'[r] + 1
      <4>1. /\ k.seen <= offset[r] /\ offset[r] \in Nat /\ offset'[r] \in Nat
            /\ offset[r] <= offset'[r] /\ k.next \in Nat /\ k.next <= offset'[r] /\ k.seen \in Nat
        BY <1>0, <1>c, <1>d, <3>2, Zenon DEF HandlerInv
      <4>2. k.seen <= offset'[r] /\ k.next <= offset'[r] + 1
        BY ONLY <4>1
      <4> QED BY <3>1, <4>2, Zenon
    <3> QED BY ONLY SMTT(30), <1>0, <1>b, <1>d, <3>1, <3>2, <3>3 DEF HandlerInv
  <2>2. CASE h \in handlers
    <3>1. /\ HandlerInv(h) /\ h.replica \in Replicas
          /\ h.next \in Nat /\ h.seen \in Nat
      BY SMTT(30), <2>2, <1>0 DEF TypeOK, Handler, Offsets
    <3>2. PICK q \in Replicas : q = h.replica
      BY <3>1, Zenon
    <3>3. /\ h.seen <= offset[q] /\ h.next <= offset[q] + 1 /\ offset[q] \in Nat
          /\ offset'[q] \in Nat /\ offset[q] <= offset'[q]
      BY <1>c, <1>d, <3>1, <3>2, Zenon DEF HandlerInv
    <3>4. /\ h.seen <= offset'[q] /\ h.next <= offset'[q] + 1
          /\ h.next <= offset[q] => h.next <= offset'[q]
      BY ONLY <3>1, <3>3
    <3> QED BY ONLY <1>b, <3>1, <3>2, <3>3, <3>4, Zenon DEF HandlerInv
  <2> QED BY <2>1, <2>2, <1>a, Zenon
<1> QED BY <1>1, <1>2, <1>3, <1>4, <1>b, Zenon

\* Putting the entry in the table does not touch the log.
LEMMA PutEntryStep ==
    ASSUME Inv, NEW k \in handlers, PutEntry(k)
    PROVE  Inv'
<1> DEFINE r == k.replica
<1>0. /\ TypeOK /\ NoGap /\ follower_offset <= log_offset
      /\ k \in Handler /\ r \in Replicas /\ HandlerInv(k)
  BY TypeFacts DEF Inv
<1>u. UNCHANGED <<log_offset, follower_offset, node, last_sync, reader, first, last, cached,
                  offset, binlog, up, fenced, faults>>
  BY Zenon DEF PutEntry, leaderVars, nodeVars, replicaVars
<1>a. Stored(k) \in Handler /\ handlers' = (handlers \ {k}) \cup {Stored(k)}
  BY <1>0, HandlerMoves, Zenon DEF PutEntry, Advance, HandlerInv
<1>1. TypeOK'
  <2>1. k.next \in Offsets
    <3>1. k.pc = "put"
      BY DEF PutEntry
    <3>2. k.next \in Nat /\ k.last \in 0 .. MaxOffset /\ k.next <= k.last
      BY ONLY <1>0, <3>1, LogReplicationAssumption DEF Handler, Offsets, HandlerInv
    <3> QED BY ONLY <3>2, LogReplicationAssumption DEF Offsets
  <2>2. table' \in [Replicas -> SUBSET Offsets]
    BY ONLY <1>0, <2>1, PutEntry(k) DEF PutEntry, TypeOK
  <2> QED BY ONLY <1>0, <1>a, <1>u, <2>2, Zenon DEF TypeOK
<1>2. NoGap' /\ follower_offset' <= log_offset'
  BY ONLY <1>0, <1>u DEF NoGap
<1>3. \A q \in Replicas : NodeInv(q)'
  BY ONLY Inv, <1>u, Zenon DEF Inv, NodeInv
<1>4. ASSUME NEW h \in handlers' PROVE HandlerInv(h)'
  <2>1. CASE h = Stored(k)
    <3>1. /\ h.replica = r /\ h.next = k.next + 1 /\ h.last = k.last
          /\ h.pc = "apply" /\ h.seen = k.seen /\ h.current = k.current
      BY <2>1, <1>0, HandlerMoves, Zenon DEF PutEntry, HandlerInv
    <3>2. k.next + 1 <= offset[r] + 1 /\ k.seen <= offset[r]
      <4>1. k.pc = "put" /\ k.next \in Nat /\ offset[r] \in Nat
        BY <1>0, TypeFacts, Zenon DEF PutEntry
      <4>2. k.next <= offset[r] /\ k.seen <= offset[r]
        BY ONLY <1>0, <4>1, Zenon DEF HandlerInv
      <4> QED BY ONLY <4>1, <4>2
    <3>3. h.seen <= offset'[h.replica] /\ h.next <= offset'[h.replica] + 1 /\ h.pc # "put"
      BY ONLY <1>u, <3>1, <3>2, Zenon
    <3> QED BY ONLY <1>0, <1>u, <3>1, <3>3, HandlerMoved, Zenon
  <2>2. CASE h \in handlers
    <3>1. HandlerInv(h) /\ h.next \in Nat /\ h.seen \in Nat /\ offset[h.replica] \in Nat
      BY <2>2, <1>0, TypeFacts DEF Inv
    <3> QED BY ONLY <1>u, <3>1, Zenon DEF HandlerInv
  <2> QED BY ONLY <2>1, <2>2, <1>a, h \in handlers'
<1> QED BY ONLY <1>1, <1>2, <1>3, <1>4 DEF Inv

\* A good answer acknowledges last[r], which the replica has by now.
LEMMA AnswerStep ==
    ASSUME Inv, NEW k \in handlers, Answer(k)
    PROVE  Inv'
<1> DEFINE r == k.replica
<1> USE LogReplicationAssumption DEF Inv, replicaVars
<1>0. handlers \ {k} \in SUBSET Handler /\ k \in Handler /\ r \in Replicas
  BY Zenon DEF TypeOK, Handler
<1>a. UNCHANGED <<log_offset, reader, replicaVars, faults>>
  BY SMTT(30) DEF Answer
<1>b. CASE k.current
  <2> USE <1>a, <1>b DEF Answer
  <2>0. /\ node[r] = "wait" /\ last[r] <= offset[r] /\ last[r] <= log_offset
        /\ follower_offset' \in Offsets /\ follower_offset <= follower_offset'
        /\ follower_offset' <= log_offset
    BY <1>0 DEF HandlerInv, NodeInv, TypeOK, Handler, Offsets
  <2>1. TypeOK'
    <3>1. handlers' \subseteq Handler
      <4>1. handlers' = Abandon(handlers \ {k}, r)
        BY Zenon
      <4>2. \A h \in Abandon(handlers \ {k}, r) : h \in Handler
        BY ONLY <1>0, AbandonFact, Zenon
      <4> QED BY ONLY <4>1, <4>2
    <3>2. node' \in [Replicas -> NodeState]
      BY <1>0, Zenon DEF TypeOK, NodeState
    <3>4. last_sync' \in [Replicas -> Offsets]
      BY <1>0 DEF TypeOK
    <3>5. cached' \in [Replicas -> BOOLEAN]
      BY ZenonT(30), <1>0 DEF TypeOK
    <3>3. first' \in [Replicas -> Offsets] /\ last' \in [Replicas -> Offsets]
      BY <1>0 DEF TypeOK, Offsets
    <3> QED BY <2>0, <3>1, <3>2, <3>3, <3>4, <3>5, Zenon DEF TypeOK
  <2>2. \A q \in Replicas : NodeInv(q)'
    BY <1>0, <2>0 DEF NodeInv, TypeOK, Offsets
  <2>3. ASSUME NEW h \in handlers' PROVE HandlerInv(h)'
    <3>0. h \in Abandon(handlers \ {k}, r)
      BY Zenon
    <3>1. PICK g \in handlers \ {k} :
            /\ h \in Handler
            /\ h.replica = g.replica /\ h.id = g.id /\ h.next = g.next
            /\ h.last = g.last /\ h.seen = g.seen /\ h.pc = g.pc
            /\ h.replica = r => h.current = FALSE
            /\ h.replica # r => h = g
      BY ONLY <1>0, <3>0, AbandonFact, Zenon
    <3>2. HandlerInv(g) /\ r \in Replicas
      BY <1>0, <3>1, Zenon
    <3>3. \A q \in Replicas : q # r => node'[q] = node[q] /\ last'[q] = last[q]
      BY <2>0, Zenon DEF TypeOK
    <3>4. /\ g.replica \in Replicas /\ g.last \in Nat /\ follower_offset \in Nat
          /\ UNCHANGED <<up, offset>>
      BY <3>1, TypeFacts, Zenon
    <3>5. follower_offset' \in Nat /\ follower_offset <= follower_offset'
      BY ONLY <2>0, LogReplicationAssumption DEF Offsets
    <3>6. g.last <= follower_offset => g.last <= follower_offset'
      BY ONLY <3>4, <3>5
    <3> QED BY ONLY <3>1, <3>2, <3>3, <3>4, <3>6, Zenon DEF HandlerInv
  <2>4. NoGap'
    BY Zenon DEF NoGap
  <2> QED BY <2>0, <2>1, <2>2, <2>3, <2>4, Zenon
<1>c. CASE ~k.current
  <2> USE <1>a, <1>c DEF Answer
  <2>1. TypeOK'
    BY Zenon DEF TypeOK
  <2>2. \A q \in Replicas : NodeInv(q)'
    <3>1. UNCHANGED <<node, last_sync, first, last, cached, follower_offset>>
      BY ZenonT(60)
    <3> QED BY ONLY Inv, <1>a, <3>1, Zenon DEF Inv, NodeInv, replicaVars
  <2>3. \A h \in handlers' : HandlerInv(h)'
    <3>1. handlers' \subseteq handlers
      BY Zenon
    <3>2. UNCHANGED <<up, offset, node, last, follower_offset>>
      BY Zenon DEF replicaVars
    <3> QED BY ONLY Inv, <3>1, <3>2, Zenon DEF Inv, HandlerInv
  <2>4. NoGap'
    BY Zenon DEF NoGap
  <2> QED BY <2>1, <2>2, <2>3, <2>4, Zenon
<1> QED BY <1>b, <1>c

-----------------------------------------------------------------------------
(* What happens to the replicas.                                           *)

\* A replica that was told of a new term refuses requests and keeps its log.
LEMMA FenceStep ==
    ASSUME Inv, NEW r \in Replicas, Fence(r)
    PROVE  Inv'
<1> USE LogReplicationAssumption DEF Inv, Fence, leaderVars, nodeVars
<1>1. TypeOK'
  BY DEF TypeOK, Offsets
<1>2. NoGap'
  BY Zenon DEF NoGap, TypeOK, Offsets
<1>3. \A q \in Replicas : NodeInv(q)'
  BY Zenon DEF NodeInv, TypeOK
<1>4. \A h \in handlers' : HandlerInv(h)'
  BY Zenon DEF HandlerInv, TypeOK, Handler
<1> QED BY <1>1, <1>2, <1>3, <1>4, Zenon

\* A crash takes the handlers with it; the node on the leader stays.
LEMMA CrashStep ==
    ASSUME Inv, NEW r \in Replicas, Crash(r)
    PROVE  Inv'
<1> USE LogReplicationAssumption DEF Inv, Crash, leaderVars, nodeVars
<1>1. TypeOK'
  BY DEF TypeOK, Offsets
<1>2. NoGap'
  <2>1. 1 .. 0 = {}
    BY ONLY TRUE
  <2> QED BY <2>1, Zenon DEF NoGap, TypeOK
<1>3. \A q \in Replicas : NodeInv(q)'
  BY SMTT(30) DEF NodeInv, TypeOK
<1>4. \A h \in handlers' : HandlerInv(h)'
  BY Zenon DEF HandlerInv, TypeOK, Handler, HandlersOf
<1> QED BY <1>1, <1>2, <1>3, <1>4, Zenon

\* A replica is loaded again only without a node, so no claim is outdated.
LEMMA ReloadStep ==
    ASSUME Inv, NEW r \in Replicas, Reload(r), OfflineFirst
    PROVE  Inv'
<1> USE LogReplicationAssumption DEF Inv, Reload, leaderVars, nodeVars
<1>1. TypeOK'
  BY DEF TypeOK, Offsets
<1>2. NoGap'
  <2>1. PICK k \in 0 .. log_offset : /\ offset' = [offset EXCEPT ![r] = k]
                                     /\ binlog' = [binlog EXCEPT ![r] = 1 .. k]
    BY Zenon
  <2> QED BY ONLY Inv, r \in Replicas, <2>1, Zenon DEF Inv, NoGap, TypeOK
<1>3. \A q \in Replicas : NodeInv(q)'
  BY SMTT(30) DEF NodeInv, TypeOK, MayReload
<1>4. \A h \in handlers' : HandlerInv(h)'
  BY ZenonT(60) DEF HandlerInv, TypeOK, Handler, MayReload
<1> QED BY <1>1, <1>2, <1>3, <1>4, Zenon

-----------------------------------------------------------------------------
(* The theorems.                                                           *)

\* The new partition satisfies the invariant.
LEMMA InitInv == Init => Inv
<1> USE LogReplicationAssumption DEF Init
<1>1. Init => TypeOK
  BY DEF TypeOK, Offsets, NodeState
<1>2. Init => NoGap
  BY DEF NoGap
<1>3. Init => \A r \in Replicas : NodeInv(r)
  BY DEF NodeInv
<1> QED BY <1>1, <1>2, <1>3 DEF Inv

\* Every step preserves the invariant.
LEMMA NextInv == OfflineFirst /\ Inv /\ [Next]_vars => Inv'
<1> SUFFICES ASSUME OfflineFirst, Inv, [Next]_vars PROVE Inv'
  OBVIOUS
<1>1. CASE AppendEntry
  BY <1>1, AppendEntryStep
<1>2. ASSUME NEW r \in Replicas,
             \/ AddReplicateNode(r) \/ DelReplicateNode(r) \/ NodeStep(r)
             \/ ReaderJumps(r) \/ RetryCall(r)
             \/ Fence(r) \/ Crash(r) \/ Reload(r)
      PROVE  Inv'
  <2>1. CASE NodeStep(r)
    BY <2>1, MatchLogOffsetStep, BuildRequestStep, GoBackStep, ResendCachedStep,
       CallFailedStep DEF NodeStep
  <2>2. CASE AddReplicateNode(r) \/ DelReplicateNode(r) \/ ReaderJumps(r) \/ RetryCall(r)
    BY <2>2, AddReplicateNodeStep, DelReplicateNodeStep, ReaderJumpsStep, RetryCallStep
  <2>3. CASE Fence(r) \/ Crash(r) \/ Reload(r)
    BY <2>3, FenceStep, CrashStep, ReloadStep
  <2> QED BY <1>2, <2>1, <2>2, <2>3
<1>3. ASSUME NEW h \in handlers, HandlerStep(h) PROVE Inv'
  <2>1. CASE Refuse(h) \/ ApplyFails(h) \/ PutFails(h)
    <3>1. AnswerError(h) /\ faults' \in 0 .. MaxFaults
      BY <2>1, LogReplicationAssumption
         DEF Refuse, ApplyFails, PutFails, Inv, TypeOK
    <3> QED BY <3>1, AnswerErrorStep
  <2>2. CASE StartEntries(h) \/ SkipEntry(h) \/ ApplyEntry(h) \/ PutEntry(h) \/ Answer(h)
    BY <2>2, StartEntriesStep, SkipEntryStep, ApplyEntryStep, PutEntryStep, AnswerStep
  <2> QED BY <1>3, <2>1, <2>2 DEF HandlerStep
<1>4. CASE UNCHANGED vars
  <2> USE <1>4 DEF vars, leaderVars, nodeVars, replicaVars
  <2>1. TypeOK' /\ NoGap' /\ follower_offset' <= log_offset'
    BY Zenon DEF Inv, TypeOK, NoGap
  <2>2. \A r \in Replicas : NodeInv(r)'
    BY SMTT(30) DEF Inv, NodeInv
  <2>3. \A h \in handlers' : HandlerInv(h)'
    BY Zenon DEF Inv, HandlerInv
  <2> QED BY <2>1, <2>2, <2>3 DEF Inv
<1> QED BY <1>1, <1>2, <1>3, <1>4 DEF Next

\* The invariant holds in every behaviour, if a replica loads its table again
\* only after DelReplica has removed its node from the leader.
THEOREM Invariance == ASSUME OfflineFirst PROVE Spec => []Inv
<1>1. Inv /\ [Next]_vars => Inv'
  BY NextInv
<1> QED BY <1>1, InitInv, PTL DEF Spec

\* The variables keep their types: no step of the leader, of a handler or of a
\* crash and reload leaves the ranges of offsets and states.
THEOREM TypeCorrect == ASSUME OfflineFirst PROVE Spec => []TypeOK
<1>1. Inv => TypeOK
  BY DEF Inv
<1> QED BY <1>1, Invariance, PTL

\* AppendEntries never leaves a hole in a replica's log, with any number of late
\* and repeated handlers.
THEOREM NoGapHolds == ASSUME OfflineFirst PROVE Spec => []NoGap
<1>1. Inv => NoGap
  BY SMTT(30) DEF Inv
<1> QED BY <1>1, Invariance, PTL

\* last_sync_offset_ of a ReplicateNode is never above the replica's offset.
THEOREM NeverAheadHolds == ASSUME OfflineFirst PROVE Spec => []NeverAhead
<1>1. Inv => NeverAhead
  BY Zenon DEF Inv, NodeInv, NeverAhead
<1> QED BY <1>1, Invariance, PTL

\* A remote replica writes only entries at or below follower_offset_.
THEOREM RemoteAfterLocalHolds == ASSUME OfflineFirst PROVE Spec => RemoteAfterLocal
<1> DEFINE A == \A r \in Remote :
                   up[r] /\ offset'[r] > offset[r] => offset'[r] <= follower_offset
<1>1. Inv /\ [Next]_vars => [A]_vars
  <2> SUFFICES ASSUME Inv, Next, NEW r \in Remote, up[r], offset'[r] > offset[r]
               PROVE  offset'[r] <= follower_offset
    BY Zenon
  <2>0. r \in Replicas /\ offset[r] \in Nat
    BY TypeFacts, ZenonT(60) DEF Replicas, Inv
  <2>1. PICK h \in handlers : ApplyEntry(h)
    <3>1. \/ \E h \in handlers : ApplyEntry(h)
          \/ UNCHANGED offset
          \/ \E q \in Replicas : Crash(q) \/ Reload(q)
      <4>1. AppendEntry => UNCHANGED offset
        BY SMTT(30) DEF AppendEntry, replicaVars
      <4>2. \A q \in Replicas :
              \/ AddReplicateNode(q) \/ DelReplicateNode(q) \/ NodeStep(q)
              \/ ReaderJumps(q) \/ RetryCall(q) \/ Fence(q)
              => UNCHANGED offset
        BY ZenonT(30) DEF AddReplicateNode, DelReplicateNode, NodeStep, MatchLogOffset,
               BuildRequest, GoBack, ResendCached, CallFailed, ReaderJumps,
               RetryCall, Fence, replicaVars
      <4>3. \A h \in handlers : HandlerStep(h) => ApplyEntry(h) \/ UNCHANGED offset
        BY ZenonT(30) DEF HandlerStep, Refuse, StartEntries, SkipEntry, ApplyFails, PutEntry,
               PutFails, Answer, AnswerError, replicaVars
      <4> QED BY <4>1, <4>2, <4>3, Zenon DEF Next
    <3>2. ~ UNCHANGED offset
      BY <2>0
    <3>3. ASSUME NEW q \in Replicas, Crash(q) \/ Reload(q) PROVE FALSE
      <4>0. offset \in [Replicas -> Nat]
        BY LogReplicationAssumption DEF Inv, TypeOK, Offsets
      <4>1. CASE Crash(q)
        <5>1. offset' = [offset EXCEPT ![q] = 0]
          BY <4>1, Zenon DEF Crash
        <5> QED BY <2>0, <4>0, <5>1
      <4>2. CASE Reload(q)
        <5>1. q # r
          BY <4>2, Zenon DEF Reload
        <5>2. PICK k \in 0 .. log_offset : offset' = [offset EXCEPT ![q] = k]
          BY <4>2, Zenon DEF Reload
        <5> QED BY <2>0, <4>0, <5>1, <5>2
      <4> QED BY <3>3, <4>1, <4>2
    <3> QED BY ONLY <3>1, <3>2, <3>3, Zenon
  <2>2. h.replica = r /\ offset'[r] = h.next /\ h.next <= h.last
    BY <2>0, <2>1 DEF ApplyEntry, Inv, TypeOK
  <2> QED BY SMTT(30), <2>0, <2>2 DEF Inv, HandlerInv, TypeOK, Handler, Offsets
<1> QED BY <1>1, Invariance, PTL DEF Spec, RemoteAfterLocal
-----------------------------------------------------------------------------
(* The table of a replica and its log.                                     *)

\* Entry i is in the hands of a handler on replica q.
InHand(q, i) == \E h \in handlers : h.replica = q /\ h.pc = "put" /\ h.next = i

\* TableMatchesLog for one replica.
Matches(q) ==
    up[q] => /\ table[q] \subseteq binlog[q]
             /\ \A i \in binlog[q] : i \in table[q] \/ InHand(q, i)

\* TableMatchesLog, replica by replica, before and after a step.
LEMMA TableByReplica ==
    /\ TableMatchesLog <=> \A q \in Replicas : Matches(q)
    /\ TableMatchesLog' <=> \A q \in Replicas : Matches(q)'
<1>1. \A q, i : (\E h \in HandlersOf(q) : h.pc = "put" /\ h.next = i) <=> InHand(q, i)
  BY Zenon DEF HandlersOf, InHand
<1>2. \A q, i : (\E h \in HandlersOf(q)' : h.pc = "put" /\ h.next = i) <=> InHand(q, i)'
  BY Zenon DEF HandlersOf, InHand
<1>3. TableMatchesLog <=> \A q \in Replicas : Matches(q)
  BY <1>1, Zenon DEF TableMatchesLog, Matches
<1>4. TableMatchesLog' <=> \A q \in Replicas : Matches(q)'
  BY <1>2, Zenon DEF TableMatchesLog, Matches
<1> QED BY <1>3, <1>4, Zenon

\* A handler of the old set that is between ApplyEntry and Put has a successor
\* in the new one.
PutsKept(hs) ==
    \A g \in hs : g.pc = "put" =>
        InHand(g.replica, g.next)'

\* Then what is in hand stays in hand.
LEMMA InHandKept ==
    ASSUME PutsKept(handlers), NEW q, NEW i, InHand(q, i)
    PROVE  InHand(q, i)'
<1>1. PICK g \in handlers : g.replica = q /\ g.pc = "put" /\ g.next = i
  BY Zenon DEF InHand
<1> QED BY <1>1, Zenon DEF PutsKept

\* A step that leaves logs and tables alone and takes no handler away from Put.
LEMMA TableKept ==
    ASSUME TableMatchesLog, UNCHANGED <<up, binlog, table>>, PutsKept(handlers)
    PROVE  TableMatchesLog'
<1>1. \A q, i : InHand(q, i) => InHand(q, i)'
  BY InHandKept, Zenon
<1> QED BY <1>1, TableByReplica, Zenon DEF Matches

\* The handlers keep what they have in hand when the leader abandons a call.
LEMMA AbandonKeeps ==
    ASSUME NEW hs \in SUBSET Handler, NEW r, handlers' = Abandon(hs, r)
    PROVE  PutsKept(hs)
<1> SUFFICES ASSUME NEW g \in hs, g.pc = "put" PROVE InHand(g.replica, g.next)'
  BY Zenon DEF PutsKept
<1> DEFINE h == IF g.replica = r THEN [g EXCEPT !.current = FALSE] ELSE g
<1>1. h \in handlers'
  BY Zenon DEF Abandon
<1>2. h.replica = g.replica /\ h.pc = "put" /\ h.next = g.next
  <2>1. g \in Handler
    OBVIOUS
  <2> QED BY <2>1, Zenon DEF Handler
<1> QED BY <1>1, <1>2, Zenon DEF InHand

\* The steps of a handler that is not at Put and writes nothing.
LEMMA HandlerKeeps ==
    ASSUME TypeOK, NEW k \in handlers, k.pc # "put",
           \/ \E g : handlers' = Advance(k, g)
           \/ handlers' = handlers \ {k}
           \/ handlers' = Abandon(handlers \ {k}, k.replica)
    PROVE  PutsKept(handlers)
<1>1. CASE \/ \E g : handlers' = Advance(k, g)
           \/ handlers' = handlers \ {k}
  <2>1. handlers \ {k} \subseteq handlers'
    BY <1>1, Zenon DEF Advance
  <2> QED BY <2>1, Zenon DEF PutsKept, InHand
<1>2. CASE handlers' = Abandon(handlers \ {k}, k.replica)
  <2>1. handlers \ {k} \in SUBSET Handler
    BY Zenon DEF TypeOK
  <2>2. PutsKept(handlers \ {k})
    BY <1>2, <2>1, AbandonKeeps, Zenon
  <2> QED BY <2>2, Zenon DEF PutsKept
<1> QED BY <1>1, <1>2, Zenon

\* ApplyEntry logs at most the entry that its handler puts next.
LEMMA ApplyTable ==
    ASSUME Inv, TableMatchesLog, NEW k \in handlers, ApplyEntry(k)
    PROVE  TableMatchesLog'
<1> DEFINE r == k.replica
<1>1. TypeOK /\ k \in Handler /\ r \in Replicas
  BY TypeFacts, Zenon DEF Inv
<1>2. /\ Applied(k) \in handlers' /\ Applied(k).replica = r /\ Applied(k).pc = "put"
      /\ Applied(k).next = k.next /\ k.pc # "put" /\ handlers' = Advance(k, Applied(k))
  BY <1>1, HandlerMoves, Zenon DEF ApplyEntry, Advance
<1>3. PutsKept(handlers)
  BY <1>1, <1>2, HandlerKeeps, Zenon
<1>4. /\ UNCHANGED <<up, table>>
      /\ \A q \in Replicas : \/ binlog'[q] = binlog[q]
                             \/ q = r /\ binlog'[q] = binlog[q] \cup {k.next}
  <2>1. /\ binlog' = binlog \/ binlog' = [binlog EXCEPT ![r] = @ \cup {k.next}]
        /\ UNCHANGED <<up, table>>
    BY Zenon DEF ApplyEntry
  <2>2. binlog \in [Replicas -> SUBSET Offsets]
    BY <1>1, Zenon DEF TypeOK
  <2> QED BY <2>1, <2>2, Zenon
<1>5. \A q, i : InHand(q, i) => InHand(q, i)'
  BY <1>3, InHandKept, Zenon
<1>6. InHand(r, k.next)'
  BY <1>2, Zenon DEF InHand
<1>7. ASSUME NEW q \in Replicas, Matches(q) PROVE Matches(q)'
  BY <1>4, <1>5, <1>6, <1>7, Zenon DEF Matches
<1> QED BY <1>7, TableByReplica, Zenon

\* Put adds the entry its handler has in hand, which ApplyEntry made sure is in
\* the log.
LEMMA PutTable ==
    ASSUME Inv, TableMatchesLog, NEW k \in handlers, PutEntry(k)
    PROVE  TableMatchesLog'
<1> DEFINE r == k.replica
<1>1. TypeOK /\ k \in Handler /\ r \in Replicas /\ HandlerInv(k) /\ NoGap
  BY TypeFacts, Zenon DEF Inv
<1>2. /\ UNCHANGED <<up, binlog>> /\ k.pc = "put"
      /\ handlers \ {k} \subseteq handlers'
      /\ \A q \in Replicas : table'[q] = IF q = r THEN table[q] \cup {k.next} ELSE table[q]
  BY <1>1, Zenon DEF PutEntry, TypeOK, Advance
<1>3. k.next \in binlog[r]
  <2>1. k.next \in 1 .. MaxOffset + 1
    BY <1>1, Zenon DEF Handler
  <2>2. k.next <= offset[r] /\ offset[r] \in Nat /\ binlog[r] = 1 .. offset[r]
    BY <1>1, <1>2, TypeFacts, Zenon DEF HandlerInv, NoGap
  <2> QED BY ONLY <2>1, <2>2, LogReplicationAssumption
<1>4. \A q, i : InHand(q, i) => InHand(q, i)' \/ (q = r /\ i = k.next)
  BY <1>2, Zenon DEF InHand
<1>5. ASSUME NEW q \in Replicas, Matches(q) PROVE Matches(q)'
  BY <1>2, <1>3, <1>4, <1>5, ZenonT(60) DEF Matches
<1> QED BY <1>5, TableByReplica, Zenon

\* The steps of the leader do not touch a replica's log or table, and the calls
\* they send and give up leave the handlers at Put where they are.
LEMMA LeaderTable ==
    ASSUME TypeOK, TableMatchesLog, NEW r \in Replicas,
           \/ AppendEntry \/ AddReplicateNode(r) \/ DelReplicateNode(r) \/ NodeStep(r)
           \/ ReaderJumps(r) \/ RetryCall(r) \/ Fence(r)
    PROVE  TableMatchesLog'
<1>1. UNCHANGED <<up, binlog, table>>
  BY Zenon DEF AppendEntry, AddReplicateNode, DelReplicateNode, NodeStep, MatchLogOffset,
               BuildRequest, GoBack, ResendCached, CallFailed, ReaderJumps,
               RetryCall, Fence, replicaVars
<1>2. \/ handlers' = handlers
      \/ \E from, to : handlers' = Deliver(r, from, to)
      \/ handlers' = Abandon(handlers, r)
  BY Zenon DEF AppendEntry, AddReplicateNode, DelReplicateNode, NodeStep, MatchLogOffset,
               BuildRequest, GoBack, ResendCached, CallFailed, ReaderJumps,
               RetryCall, Fence
<1>3. CASE \/ handlers' = handlers
           \/ \E from, to : handlers' = Deliver(r, from, to)
  <2>1. handlers \subseteq handlers'
    BY <1>3, Zenon DEF Deliver
  <2>2. PutsKept(handlers)
    BY <2>1, Zenon DEF PutsKept, InHand
  <2> QED BY <1>1, <2>2, TableKept, Zenon
<1>4. CASE handlers' = Abandon(handlers, r)
  <2>1. PutsKept(handlers)
    BY <1>4, AbandonKeeps, Zenon DEF TypeOK
  <2> QED BY <1>1, <2>1, TableKept, Zenon
<1> QED BY <1>2, <1>3, <1>4, Zenon

\* A crash loses the table with the log; a reload brings both from one snapshot.
LEMMA ReloadTable ==
    ASSUME Inv, TableMatchesLog, NEW r \in Replicas, Crash(r) \/ Reload(r)
    PROVE  TableMatchesLog'
<1>1. TypeOK
  BY Zenon DEF Inv
<1>2. /\ up'[r] => table'[r] = binlog'[r]
      /\ \A q \in Replicas \ {r} : /\ up'[q] = up[q] /\ table'[q] = table[q]
                                   /\ binlog'[q] = binlog[q]
      /\ \A h \in handlers : h.replica # r => h \in handlers'
  <2>1. CASE Crash(r)
    BY <1>1, <2>1, Zenon DEF Crash, TypeOK, HandlersOf
  <2>2. CASE Reload(r)
    BY <1>1, <2>2, ZenonT(60) DEF Reload, TypeOK
  <2> QED BY <2>1, <2>2, Zenon
<1>3. \A q, i : q # r /\ InHand(q, i) => InHand(q, i)'
  BY <1>2, Zenon DEF InHand
<1>4. ASSUME NEW q \in Replicas, Matches(q) PROVE Matches(q)'
  BY <1>2, <1>3, <1>4, Zenon DEF Matches
<1> QED BY <1>4, TableByReplica, Zenon

\* Every step, if table->Put does not fail on a logged entry.
LEMMA NextTable ==
    ASSUME ~PutCanFail, Inv, TableMatchesLog, [Next]_vars
    PROVE  TableMatchesLog'
<1>1. TypeOK
  BY Zenon DEF Inv
<1>2. CASE AppendEntry
  <2>1. UNCHANGED <<up, binlog, table>> /\ handlers' = handlers
    BY <1>2, Zenon DEF AppendEntry, replicaVars
  <2> QED BY <2>1, TableKept, Zenon DEF PutsKept, InHand
<1>3. ASSUME NEW r \in Replicas,
             \/ AddReplicateNode(r) \/ DelReplicateNode(r) \/ NodeStep(r)
             \/ ReaderJumps(r) \/ RetryCall(r)
             \/ Fence(r) \/ Crash(r) \/ Reload(r)
      PROVE  TableMatchesLog'
  BY <1>1, <1>3, LeaderTable, ReloadTable, Zenon
<1>4. ASSUME NEW k \in handlers, HandlerStep(k) PROVE TableMatchesLog'
  <2>1. CASE Refuse(k) \/ ApplyFails(k)
    <3>1. AnswerError(k) /\ k.pc # "put"
      BY <2>1, Zenon DEF Refuse, ApplyFails
    <3>2. /\ UNCHANGED <<up, binlog, table>>
          /\ handlers' = handlers \ {k} \/ handlers' = Abandon(handlers \ {k}, k.replica)
      BY <3>1, Zenon DEF AnswerError, replicaVars
    <3> QED BY <1>1, <3>1, <3>2, HandlerKeeps, TableKept, Zenon
  <2>2. CASE StartEntries(k) \/ SkipEntry(k)
    <3>1. k.pc # "put" /\ UNCHANGED <<up, binlog, table>> /\ \E g : handlers' = Advance(k, g)
      BY <2>2, Zenon DEF StartEntries, SkipEntry, replicaVars
    <3> QED BY <1>1, <3>1, HandlerKeeps, TableKept, Zenon
  <2>3. CASE Answer(k)
    <3>1. /\ k.pc # "put" /\ UNCHANGED <<up, binlog, table>>
          /\ handlers' = handlers \ {k} \/ handlers' = Abandon(handlers \ {k}, k.replica)
      BY <2>3, Zenon DEF Answer, replicaVars
    <3> QED BY <1>1, <3>1, HandlerKeeps, TableKept, Zenon
  <2>4. ~PutFails(k)
    BY Zenon DEF PutFails
  <2> QED BY <1>4, <2>1, <2>2, <2>3, <2>4, ApplyTable, PutTable, Zenon DEF HandlerStep
<1>5. CASE UNCHANGED vars
  <2>1. UNCHANGED <<up, binlog, table>> /\ handlers' = handlers
    BY <1>5, Zenon DEF vars, replicaVars
  <2> QED BY <2>1, TableKept, Zenon DEF PutsKept, InHand
<1> QED BY <1>2, <1>3, <1>4, <1>5, Zenon DEF Next

\* What a replica has logged is in its table or in the hands of the handler that
\* puts it, with any number of late, repeated and abandoned handlers beside it.
\* A failing table->Put breaks this, so the theorem excludes it.
THEOREM TableMatchesLogHolds ==
    ASSUME OfflineFirst, ~PutCanFail PROVE Spec => []TableMatchesLog
<1>1. Init => TableMatchesLog
  BY Zenon DEF Init, TableMatchesLog
<1>2. Inv /\ TableMatchesLog /\ [Next]_vars => TableMatchesLog'
  BY NextTable, Zenon
<1> QED BY <1>1, <1>2, Invariance, PTL DEF Spec

-----------------------------------------------------------------------------
(* LogReplication implements ReplicatedLog: the initial states correspond, *)
(* and every step of the leader, of a handler or of a fault is a step of   *)
(* the abstract log or leaves it alone.                                    *)

\* No request, however late, holds an entry that the leader has not appended.
HandlersBehind == \A h \in handlers : h.last <= log_offset

\* What the abstract log sees.
LogVars == <<log_offset, follower_offset, binlog, up>>

\* The steps that concern threads, requests and handlers only.
LEMMA HiddenNodeStep ==
    ASSUME NEW r \in Replicas,
           \/ AddReplicateNode(r) \/ DelReplicateNode(r) \/ NodeStep(r)
           \/ ReaderJumps(r) \/ RetryCall(r) \/ Fence(r)
    PROVE  UNCHANGED LogVars
<1>1. CASE NodeStep(r)
  BY <1>1, Zenon DEF NodeStep, MatchLogOffset, BuildRequest, GoBack, ResendCached, CallFailed,
              LogVars, leaderVars, replicaVars
<1>2. CASE AddReplicateNode(r) \/ DelReplicateNode(r) \/ ReaderJumps(r)
  BY <1>2, Zenon DEF AddReplicateNode, DelReplicateNode, ReaderJumps, LogVars, leaderVars,
              replicaVars
<1>3. CASE RetryCall(r) \/ Fence(r)
  BY <1>3, Zenon DEF RetryCall, Fence, LogVars, leaderVars, replicaVars
<1> QED BY <1>1, <1>2, <1>3

LEMMA HiddenHandlerStep ==
    ASSUME NEW h \in handlers,
           \/ Refuse(h) \/ StartEntries(h) \/ SkipEntry(h)
           \/ ApplyFails(h) \/ PutEntry(h) \/ PutFails(h)
    PROVE  UNCHANGED LogVars
<1>1. CASE Refuse(h) \/ ApplyFails(h) \/ PutFails(h)
  BY <1>1, Zenon DEF Refuse, ApplyFails, PutFails, AnswerError, LogVars, leaderVars, replicaVars
<1>2. CASE StartEntries(h) \/ SkipEntry(h) \/ PutEntry(h)
  BY <1>2, Zenon DEF StartEntries, SkipEntry, PutEntry, LogVars, leaderVars, replicaVars
<1> QED BY <1>1, <1>2

-----------------------------------------------------------------------------
(* Requests stay behind the leader's log.                                  *)

\* A delivered call adds a handler for the entries up to the given one.
LEMMA DeliverBehind ==
    ASSUME Inv, HandlersBehind, NEW r \in Replicas, NEW from \in 1 .. MaxOffset,
           NEW to \in Offsets, to <= log_offset,
           handlers' = Deliver(r, from, to), UNCHANGED log_offset
    PROVE  HandlersBehind'
<1>1. ASSUME NEW h \in Deliver(r, from, to) PROVE h \in handlers \/ h.last = to
  BY DeliverFact
<1> QED BY <1>1, ZenonT(60) DEF HandlersBehind

\* Handlers only move, lose their caller or go away.
LEMMA KeptBehind ==
    ASSUME TypeOK, HandlersBehind, log_offset <= log_offset', log_offset' \in Nat,
           \A h \in handlers' : \E g \in handlers : h.last = g.last
    PROVE  HandlersBehind'
BY TypeFacts DEF HandlersBehind

LEMMA AbandonBehind ==
    ASSUME TypeOK, HandlersBehind, NEW hs \in SUBSET handlers, NEW r \in Replicas,
           handlers' = Abandon(hs, r), UNCHANGED log_offset
    PROVE  HandlersBehind'
<1>1. hs \in SUBSET Handler
  BY DEF TypeOK
<1>2. ASSUME NEW h \in Abandon(hs, r) PROVE \E g \in handlers : h.last = g.last
  <2>1. PICK g \in hs : h = IF g.replica = r THEN [g EXCEPT !.current = FALSE] ELSE g
    BY <1>2 DEF Abandon
  <2>2. h.last = g.last
    BY <1>1, <2>1 DEF Handler
  <2> QED BY <2>2
<1> QED BY <1>2, KeptBehind, TypeFacts

LEMMA MovedBehind ==
    ASSUME TypeOK, HandlersBehind, NEW h \in handlers, NEW g, g.last = h.last,
           handlers' = Advance(h, g), UNCHANGED log_offset
    PROVE  HandlersBehind'
<1>1. \A k \in handlers' : \E j \in handlers : k.last = j.last
  BY DEF Advance
<1> QED BY <1>1, KeptBehind, TypeFacts

LEMMA NodeStepBehind ==
    ASSUME Inv, HandlersBehind, NEW r \in Replicas, NodeStep(r) \/ RetryCall(r)
    PROVE  HandlersBehind'
<1>0. TypeOK /\ NodeInv(r) /\ follower_offset <= log_offset
  BY DEF Inv
<1>1. first[r] \in Offsets /\ last[r] \in Offsets /\ log_offset \in Offsets
      /\ last_sync[r] \in Offsets /\ reader[r] \in 1 .. MaxOffset + 1
      /\ follower_offset \in Offsets
  BY <1>0, ZenonT(60) DEF TypeOK
<1>2. CASE MatchLogOffset(r) \/ GoBack(r)
  <2>1. UNCHANGED <<handlers, log_offset>>
    BY <1>2, Zenon DEF MatchLogOffset, GoBack, leaderVars
  <2> QED BY <2>1, Zenon DEF HandlersBehind
<1>3. CASE BuildRequest(r)
  <2>1. PICK to \in BatchEnds(r) : handlers' = Deliver(r, reader[r], to)
    BY <1>3 DEF BuildRequest
  <2>2. to \in Offsets /\ to <= log_offset /\ reader[r] \in 1 .. MaxOffset
    BY <1>0, <1>1, <2>1, LogReplicationAssumption DEF BatchEnds, Limit, Offsets
  <2> QED BY <1>3, <2>1, <2>2, DeliverBehind DEF BuildRequest, leaderVars
<1>4. CASE ResendCached(r) \/ RetryCall(r)
  <2>1. first[r] = last_sync[r] + 1
    BY <1>0, <1>4, Zenon DEF NodeInv, ResendCached, RetryCall
  <2>2. first[r] \in 1 .. MaxOffset /\ last[r] <= log_offset
    BY <1>0, <1>1, <2>1, LogReplicationAssumption DEF NodeInv, Offsets
  <2> QED BY <1>1, <1>4, <2>2, DeliverBehind, Zenon DEF ResendCached, RetryCall, leaderVars
<1>5. CASE CallFailed(r)
  BY <1>0, <1>5, AbandonBehind DEF CallFailed, leaderVars
<1> QED BY <1>2, <1>3, <1>4, <1>5 DEF NodeStep

LEMMA HandlerStepBehind ==
    ASSUME Inv, HandlersBehind, NEW h \in handlers, HandlerStep(h)
    PROVE  HandlersBehind'
<1>0. TypeOK /\ h \in Handler /\ h.replica \in Replicas
  BY TypeFacts DEF Inv
<1>1. CASE Refuse(h) \/ ApplyFails(h) \/ PutFails(h) \/ Answer(h)
  <2>1. UNCHANGED log_offset
    BY <1>1, Zenon DEF Refuse, ApplyFails, PutFails, AnswerError, Answer, leaderVars
  <2>2. \/ handlers' = Abandon(handlers \ {h}, h.replica)
        \/ handlers' = handlers \ {h}
    BY <1>1, Zenon DEF Refuse, ApplyFails, PutFails, AnswerError, Answer
  <2>3. CASE handlers' = handlers \ {h}
    BY <1>0, <2>1, <2>3, KeptBehind, TypeFacts
  <2>4. CASE handlers' = Abandon(handlers \ {h}, h.replica)
    BY <1>0, <2>1, <2>4, AbandonBehind
  <2> QED BY <2>2, <2>3, <2>4
<1>2. CASE StartEntries(h)
  BY <1>0, <1>2, HandlerMoves, MovedBehind DEF StartEntries, leaderVars
<1>3. CASE SkipEntry(h)
  BY <1>0, <1>3, HandlerMoves, MovedBehind DEF SkipEntry, leaderVars
<1>4. CASE ApplyEntry(h)
  BY <1>0, <1>4, HandlerMoves, MovedBehind DEF ApplyEntry, leaderVars
<1>5. CASE PutEntry(h)
  <2>1. h.next <= h.last
    BY <1>5, Zenon DEF PutEntry, Inv, HandlerInv
  <2> QED BY <1>0, <1>5, <2>1, HandlerMoves, MovedBehind, Zenon DEF PutEntry, leaderVars
<1> QED BY <1>1, <1>2, <1>3, <1>4, <1>5 DEF HandlerStep

LEMMA NextBehind == Inv /\ HandlersBehind /\ [Next]_vars => HandlersBehind'
<1> SUFFICES ASSUME Inv, HandlersBehind, [Next]_vars PROVE HandlersBehind'
  OBVIOUS
<1>0. TypeOK
  BY DEF Inv
<1>1. CASE AppendEntry
  BY <1>0, <1>1, KeptBehind, TypeFacts DEF AppendEntry
<1>2. ASSUME NEW r \in Replicas, NodeStep(r) \/ RetryCall(r) PROVE HandlersBehind'
  BY <1>2, NodeStepBehind
<1>3. ASSUME NEW r \in Replicas, DelReplicateNode(r) PROVE HandlersBehind'
  BY <1>0, <1>3, AbandonBehind DEF DelReplicateNode, leaderVars
<1>4. ASSUME NEW r \in Replicas,
             AddReplicateNode(r) \/ ReaderJumps(r) \/ Fence(r) \/ Crash(r) \/ Reload(r)
      PROVE  HandlersBehind'
  <2>1. UNCHANGED log_offset /\ handlers' \subseteq handlers
    BY <1>4 DEF AddReplicateNode, ReaderJumps, Fence, Crash, Reload, leaderVars
  <2> QED BY <1>0, <2>1, KeptBehind, TypeFacts
<1>5. ASSUME NEW h \in handlers, HandlerStep(h) PROVE HandlersBehind'
  BY <1>5, HandlerStepBehind
<1>6. CASE UNCHANGED vars
  BY <1>0, <1>6, KeptBehind, TypeFacts DEF vars, leaderVars
<1> QED BY <1>1, <1>2, <1>3, <1>4, <1>5, <1>6 DEF Next

-----------------------------------------------------------------------------
(* The steps that the abstract log sees.                                   *)

\* AppendEntry appends; it releases the entry when there are no local nodes.
LEMMA AppendIsAppend == ASSUME AppendEntry PROVE Log!Append
BY DEF AppendEntry, Log!Append, replicaVars

\* ApplyEntry writes the entry right after the replica's last one, and for a
\* remote replica one that has been released.
LEMMA ApplyIsExtend ==
    ASSUME Inv, HandlersBehind, NEW h \in handlers, ApplyEntry(h)
    PROVE  Log!Extend(h.replica) \/ UNCHANGED LogVars
<1> DEFINE r == h.replica
<1>0. r \in Replicas /\ h.next \in Nat /\ h.last \in Nat /\ offset[r] \in Nat
      /\ log_offset \in Nat /\ follower_offset \in Nat
  BY TypeFacts DEF Inv
<1>1. CASE h.next <= offset[r]
  BY <1>1 DEF ApplyEntry, LogVars, leaderVars
<1>2. CASE ~(h.next <= offset[r])
  <2>1. HandlerInv(h) /\ NodeInv(r) /\ binlog[r] = 1 .. offset[r]
    BY <1>0 DEF Inv, NoGap
  <2>2. h.next = offset[r] + 1 /\ h.next <= h.last
    BY <1>0, <1>2, <2>1 DEF HandlerInv, ApplyEntry
  <2>3. up[r] /\ (r \in Remote => h.last <= follower_offset)
    BY <2>1 DEF HandlerInv
  <2>4. h.last <= log_offset
    BY DEF HandlersBehind
  <2>5. binlog' = [binlog EXCEPT ![r] = binlog[r] \cup {h.next}]
    BY <1>2 DEF ApplyEntry
  <2>6. binlog[r] \cup {h.next} = 1 .. h.next /\ binlog[r] = 1 .. h.next - 1
    BY <1>0, <2>1, <2>2
  <2>7. h.next \in 1 .. Log!Visible(r)
    BY <1>0, <2>2, <2>3, <2>4 DEF Log!Visible
  <2>8. UNCHANGED <<log_offset, follower_offset, up>>
    BY DEF ApplyEntry, leaderVars
  <2> QED BY <2>3, <2>5, <2>6, <2>7, <2>8, Zenon DEF Log!Extend
<1> QED BY <1>1, <1>2

\* An answer releases at most what the local replica holds.
LEMMA AnswerIsRelease ==
    ASSUME Inv, NEW h \in handlers, Answer(h)
    PROVE  (h.replica \in Local /\ Log!Release(h.replica)) \/ UNCHANGED LogVars
<1> DEFINE r == h.replica
<1>0. r \in Replicas /\ h.next \in Nat /\ h.last \in Nat /\ offset[r] \in Nat
      /\ follower_offset \in Nat
  BY TypeFacts DEF Inv
<1>1. HandlerInv(h) /\ binlog[r] = 1 .. offset[r]
  BY <1>0 DEF Inv, NoGap
<1>2. UNCHANGED <<log_offset, binlog, up>>
  BY DEF Answer, replicaVars
<1>3. CASE h.current /\ r \in Local /\ last[r] > follower_offset
  <2>1. follower_offset' = last[r]
    BY <1>3 DEF Answer
  <2>2. last[r] = h.last /\ h.last < h.next /\ h.next <= offset[r] + 1 /\ up[r]
    BY <1>0, <1>1, <1>3 DEF HandlerInv, Answer
  <2>3. last[r] \in binlog[r]
    BY <1>0, <1>1, <1>3, <2>2
  <2> QED BY <1>2, <1>3, <2>1, <2>2, <2>3 DEF Log!Release
<1>4. CASE ~(h.current /\ r \in Local /\ last[r] > follower_offset)
  <2>1. UNCHANGED follower_offset
    BY <1>4 DEF Answer
  <2> QED BY <1>2, <2>1 DEF LogVars
<1> QED BY <1>3, <1>4

LEMMA CrashIsLose == ASSUME NEW r \in Replicas, Crash(r) PROVE Log!Lose(r)
BY DEF Crash, Log!Lose, leaderVars

LEMMA ReloadIsRestore == ASSUME NEW r \in Replicas, Reload(r) PROVE Log!Restore(r)
BY Zenon DEF Reload, Log!Restore, leaderVars

\* Every step of the replication is a step of the abstract log, or none.
LEMMA StepSimulation == Inv /\ HandlersBehind /\ [Next]_vars => [Log!Next]_LogVars
<1> SUFFICES ASSUME Inv, HandlersBehind, [Next]_vars PROVE Log!Next \/ UNCHANGED LogVars
  OBVIOUS
<1>0. Replicas = Log!Replicas
  BY DEF Replicas, Log!Replicas
<1>1. CASE AppendEntry
  BY <1>1, AppendIsAppend DEF Log!Next
<1>2. ASSUME NEW r \in Replicas,
             \/ AddReplicateNode(r) \/ DelReplicateNode(r) \/ NodeStep(r)
             \/ ReaderJumps(r) \/ RetryCall(r)
             \/ Fence(r) \/ Crash(r) \/ Reload(r)
      PROVE  Log!Next \/ UNCHANGED LogVars
  <2>1. CASE Crash(r) \/ Reload(r)
    BY <1>0, <2>1, CrashIsLose, ReloadIsRestore DEF Log!Next
  <2>2. CASE ~(Crash(r) \/ Reload(r))
    BY <1>2, <2>2, HiddenNodeStep
  <2> QED BY <2>1, <2>2
<1>3. ASSUME NEW h \in handlers, HandlerStep(h) PROVE Log!Next \/ UNCHANGED LogVars
  <2>0. h.replica \in Replicas
    BY TypeFacts DEF Inv
  <2>1. CASE ApplyEntry(h)
    BY <1>0, <2>0, <2>1, ApplyIsExtend DEF Log!Next
  <2>2. CASE Answer(h)
    BY <2>2, AnswerIsRelease DEF Log!Next
  <2>3. CASE ~(ApplyEntry(h) \/ Answer(h))
    BY <1>3, <2>3, HiddenHandlerStep DEF HandlerStep
  <2> QED BY <2>1, <2>2, <2>3
<1>4. CASE UNCHANGED vars
  BY <1>4 DEF vars, leaderVars, replicaVars, LogVars
<1> QED BY <1>1, <1>2, <1>3, <1>4 DEF Next

\* Binlog replication, with its threads, requests, retries, late handlers,
\* crashes and reloads, implements one log of which every replica holds a
\* prefix, and gives a remote replica only what has been released.
THEOREM Refinement == ASSUME OfflineFirst PROVE Spec => Implements
<1>1. Init => Log!Init
  BY DEF Init, Log!Init, Replicas, Log!Replicas
<1>2. Init => HandlersBehind
  BY DEF Init, HandlersBehind
<1>3. Inv /\ HandlersBehind /\ [Next]_vars => [Log!Next]_<<log_offset, follower_offset, binlog, up>>
  BY StepSimulation DEF LogVars
<1>4. Inv /\ HandlersBehind /\ [Next]_vars => HandlersBehind'
  BY NextBehind
<1> QED BY <1>1, <1>2, <1>3, <1>4, Invariance, PTL DEF Spec, Implements, Log!Spec, Log!vars
=============================================================================
