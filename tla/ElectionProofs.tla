--------------------------- MODULE ElectionProofs ---------------------------
(***************************************************************************)
(* SelectLeader chooses well: once a leader is chosen, no follower that    *)
(* was asked has a longer log, for any number of tablets, faults and       *)
(* handlers.  A follower that answered refuses everybody with an older     *)
(* term, and no leader has a newer one until ChangeLeader makes the one    *)
(* that was chosen.  An entry that was let through before carries an older *)
(* term than the one the follower has stored since, so the handler that    *)
(* writes it is late, and the follower is one of those excepted.           *)
(***************************************************************************)
EXTENDS FailoverProofs

\* A step that names no prover has a minute for each.
USE SMTT(60), ZenonT(60)

-----------------------------------------------------------------------------
(* The tasks other than those of an election.                              *)

\* A task of an operation that is no election ends.
LEMMA PlainEnds ==
    ASSUME LInv, NEW do, do \notin {"SelectLeader", "ChangeLeader"}, Running(do),
           Answered \/ Failed
    PROVE  Phases' /\ DataTypes'
<1>1. OpsShape /\ ops # <<>> /\ ~Running("SelectLeader") /\ ~Running("ChangeLeader")
  BY Zenon DEF LInv, EInv, Running
<1>2. (\E children \in Seq(NewOps) : Done(data, children)) \/ Failed
  BY EmptySeq, Zenon DEF Answered
<1> QED BY <1>1, <1>2, EndsPhases

LEMMA NodeTaskLogs ==
    ASSUME LInv, DelReplica \/ AddReplica
    PROVE  TabTypes' /\ Phases' /\ DataTypes'
<1> DEFINE l == Current.at
           e == Current.ep
<1>1. /\ Running("DelReplica") \/ Running("AddReplica")
      /\ Answered \/ Failed
      /\ UNCHANGED <<tab, disk, callVars>>
      /\ \/ UNCHANGED node
         \/ node' = [node EXCEPT ![l][e] = NoNode]
         \/ node' = [node EXCEPT ![l][e] = IF @ = NoNode THEN Unmatched ELSE @]
  BY Zenon DEF DelReplica, AddReplica, TabletTask, Call
<1> HIDE DEF l, e
<1>2. TabTypes
  BY DEF LInv
<1>3. node' \in [Tablets -> [Tablets -> NodeType]]
  <2>1. CASE UNCHANGED node
    BY <1>2, <2>1 DEF TabTypes
  <2>2. CASE node' = [node EXCEPT ![l][e] = NoNode]
    <3>1. NoNode \in NodeType
      BY DEF NodeType, NoNode
    <3> QED BY <1>2, <2>2, <3>1, NodeUpdate, Zenon DEF TabTypes
  <2>3. CASE node' = [node EXCEPT ![l][e] = IF @ = NoNode THEN Unmatched ELSE @]
    <3> DEFINE v == IF node[l][e] = NoNode THEN Unmatched ELSE node[l][e]
    <3>1. node' = [node EXCEPT ![l][e] = v]
      BY <2>3
    <3>2. l \in Tablets /\ e \in Tablets => v \in NodeType
      BY <1>2 DEF TabTypes, NodeType, Unmatched
    <3> HIDE DEF v
    <3> QED BY <1>2, <3>1, <3>2, NodeUpdate, Zenon DEF TabTypes
  <2> QED BY <1>1, <2>1, <2>2, <2>3, Zenon
<1>4. CallTypes'
  BY <1>1, <1>2 DEF TabTypes, CallTypes, callVars
<1> QED BY <1>1, <1>2, <1>3, <1>4, PlainEnds, Zenon DEF TabTypes

LEMMA SnapshotTaskLogs ==
    ASSUME LInv, PauseSnapshot \/ RecoverSnapshot
    PROVE  TabTypes' /\ Phases' /\ DataTypes'
<1> DEFINE l == Current.at
<1>1. /\ Running("PauseSnapshot") \/ Running("RecoverSnapshot")
      /\ Answered \/ Failed
      /\ UNCHANGED <<disk, node, callVars>>
      /\ UNCHANGED tab \/ \E x \in BOOLEAN : tab' = [tab EXCEPT ![l].paused = x]
  BY Zenon DEF PauseSnapshot, RecoverSnapshot, TabletTask, Call
<1> HIDE DEF l
<1>2. TabTypes
  BY DEF LInv
<1>3. tab' \in [Tablets -> TabType] /\ CallTypes'
  <2>1. CASE UNCHANGED tab
    BY <1>1, <1>2, <2>1 DEF TabTypes, CallTypes, callVars
  <2>2. CASE \E x \in BOOLEAN : tab' = [tab EXCEPT ![l].paused = x]
    <3>1. PICK x \in BOOLEAN : tab' = [tab EXCEPT ![l].paused = x]
      BY <2>2, Zenon
    <3> DEFINE r == [tab[l] EXCEPT !.paused = x]
    <3>2. tab' = [tab EXCEPT ![l] = r]
      BY <3>1
    <3>3. l \in Tablets => r \in TabType /\ r.table = tab[l].table /\ r.log = tab[l].log
      BY <1>2, NewPaused DEF TabTypes
    <3> HIDE DEF r
    <3>4. /\ tab' \in [Tablets -> TabType]
          /\ \A t \in Tablets : tab'[t] = IF t = l THEN r ELSE tab[t]
      BY <1>2, <3>2, <3>3, TabUpdate, Zenon DEF TabTypes
    <3>5. \A t \in Tablets : tab'[t].table = tab[t].table /\ tab'[t].log = tab[t].log
      BY <3>3, <3>4
    <3>6. CallTypes'
      BY <1>1, <1>2, <3>5 DEF TabTypes, CallTypes, CallType, callVars
    <3> QED BY <3>4, <3>6
  <2> QED BY <1>1, <2>1, <2>2
<1> QED BY <1>1, <1>2, <1>3, PlainEnds DEF TabTypes

LEMMA SendSnapshotLogs ==
    ASSUME LInv, SendSnapshot
    PROVE  TabTypes' /\ Phases' /\ DataTypes'
<1> DEFINE l == Current.at
           e == Current.ep
<1>1. /\ Running("SendSnapshot") /\ (Answered \/ Failed)
      /\ UNCHANGED <<tab, node, callVars>>
      /\ UNCHANGED disk \/ disk' = [disk EXCEPT ![e] = disk[l]]
  BY Zenon DEF SendSnapshot, TabletTask, Call
<1>2. TabTypes
  BY DEF LInv
<1>3. l \in Tablets
  <2>1. Head(ops) \in GoodOps /\ ops # <<>>
    BY <1>1, HeadKind, Zenon DEF LInv, EInv, Running
  <2>2. Head(Head(ops).tasks) \in PlainTask
    BY <1>1, <2>1, FirstTask, Zenon DEF Running, GoodOps
  <2> QED BY <1>1, <2>2, Zenon DEF PlainTask, Current, Running
<1> HIDE DEF l, e
<1>4. disk' \in [Tablets -> DiskType]
  BY <1>1, <1>2, <1>3 DEF TabTypes
<1>5. CallTypes'
  BY <1>1, <1>2 DEF TabTypes, CallTypes, callVars
<1> QED BY <1>1, <1>2, <1>4, <1>5, PlainEnds DEF TabTypes

LEMMA TableTaskLogs ==
    ASSUME LInv, DropTable \/ LoadTable
    PROVE  TabTypes' /\ Phases' /\ DataTypes'
<1> DEFINE e == Current.ep
           r == [NoTable EXCEPT !.table = TRUE, !.log = disk[e].log]
<1>1. /\ Running("DropTable") \/ Running("LoadTable")
      /\ Answered \/ Failed
      /\ \/ UNCHANGED <<tab, callVars>>
         \/ tab' = [tab EXCEPT ![e] = NoTable] /\ TableGone(e)
         \/ tab' = [tab EXCEPT ![e] = r] /\ ~tab[e].table /\ UNCHANGED callVars
      /\ UNCHANGED disk \/ disk' = [disk EXCEPT ![e] = Empty]
      /\ UNCHANGED node \/ node' = [node EXCEPT ![e] = [f \in Tablets |-> NoNode]]
  BY Zenon DEF DropTable, LoadTable, TabletTask, Call, TableGone
<1>2. TabTypes
  BY DEF LInv
<1>3. e \in Tablets => r \in TabType
  <2> SUFFICES ASSUME e \in Tablets PROVE r \in TabType
    OBVIOUS
  <2> DEFINE x == disk[e].log
  <2>1. x \in Seq(Nat)
    BY <1>2 DEF TabTypes, DiskType
  <2>2. r = [table |-> TRUE, leader |-> FALSE, term |-> 0, log |-> x, paused |-> FALSE]
    BY LoadedFact, Zenon
  <2> HIDE DEF x, r
  <2> QED BY <2>1, <2>2, Zenon DEF TabType
<1> HIDE DEF r, e
<1>4. tab' \in [Tablets -> TabType]
  BY <1>1, <1>2, <1>3, NoTableFact, Zenon DEF TabTypes
<1>5. disk' \in [Tablets -> DiskType]
  <2>1. Empty \in DiskType
    BY DEF Empty, DiskType
  <2> QED BY <1>1, <1>2, <2>1 DEF TabTypes
<1>6. node' \in [Tablets -> [Tablets -> NodeType]]
  <2>1. node \in [Tablets -> [Tablets -> NodeType]]
    BY <1>2 DEF TabTypes
  <2>2. CASE node' = [node EXCEPT ![e] = [f \in Tablets |-> NoNode]]
    BY <2>1, <2>2, NodeClear, Zenon
  <2> QED BY <1>1, <2>1, <2>2, Zenon
<1>7. CallTypes'
  <2>1. CASE UNCHANGED <<tab, callVars>>
    BY <1>2, <2>1 DEF TabTypes, CallTypes, callVars
  <2>2. CASE TableGone(e)
    BY <1>2, <2>2, CallsLeave DEF TabTypes
  <2>3. CASE tab' = [tab EXCEPT ![e] = r] /\ ~tab[e].table /\ UNCHANGED callVars
    <3>1. \A t \in Tablets : tab[t].table => tab'[t] = tab[t] /\ tab[t].log \in Seq(Nat)
      BY <1>2, <2>3, TabFieldsOf DEF TabTypes
    <3>2. \A t \in Tablets : tab[t].table => Len(tab[t].log) >= Len(tab[t].log)
      BY <3>1
    <3> QED BY <1>2, <2>3, <3>1, <3>2, CallsStay DEF TabTypes, callVars
  <2> QED BY <1>1, <2>1, <2>2, <2>3
<1> QED BY <1>1, <1>4, <1>5, <1>6, <1>7, PlainEnds DEF TabTypes

LEMMA InfoTaskLogs ==
    ASSUME LInv, UpdatePartitionStatus \/ UpdateLeaderInfo
    PROVE  TabTypes' /\ Phases' /\ DataTypes'
<1>1. /\ Running("UpdatePartitionStatus") \/ Running("UpdateLeaderInfo")
      /\ Done(NoData, <<>>) \/ Failed
      /\ UNCHANGED <<tab, disk, node, callVars>>
  BY Zenon DEF UpdatePartitionStatus, UpdateLeaderInfo, tabletVars
<1>2. OpsShape /\ ops # <<>> /\ ~Running("SelectLeader") /\ ~Running("ChangeLeader")
  BY <1>1, Zenon DEF LInv, EInv, Running
<1>3. (\E children \in Seq(NewOps) : Done(NoData, children)) \/ Failed
  BY <1>1, EmptySeq, Zenon
<1>4. Phases' /\ DataTypes'
  BY <1>2, <1>3, EndsPhases
<1> QED BY <1>1, <1>4, TypesKept DEF LInv

LEMMA CallLostLogs ==
    ASSUME LInv, CallLost
    PROVE  TabTypes' /\ Phases' /\ DataTypes'
<1>1. ops # <<>> /\ Failed /\ UNCHANGED <<tab, disk, node, callVars>>
  BY DEF CallLost, tabletVars
<1>2. Phases' /\ DataTypes'
  BY <1>1, FailedPhases DEF LInv, EInv
<1> QED BY <1>1, <1>2, TypesKept DEF LInv

LEMMA RecoverTableLogs ==
    ASSUME LInv, GetTermPair \/ Demote \/ ChooseReAdd
    PROVE  TabTypes' /\ Phases' /\ DataTypes'
<1>1. /\ OpsShape /\ TabTypes
      /\ Running("RecoverTable") /\ ops # <<>>
      /\ ~Running("SelectLeader") /\ ~Running("ChangeLeader") /\ ~Running("UpdateLeaderInfo")
  BY Zenon DEF LInv, EInv, GetTermPair, Demote, ChooseReAdd, Running
<1>2. ASSUME UNCHANGED ops PROVE Phases' /\ DataTypes'
  BY <1>1, <1>2, Zenon DEF Phases, Idle, Asking, Chosen, Elected, DataTypes, Running
<1>3. CASE GetTermPair
  <2>1. /\ UNCHANGED <<tab, disk, node, callVars>>
        /\ Done(NoData, <<>>) \/ Failed \/ UNCHANGED ops
    BY <1>3 DEF GetTermPair, tabletVars
  <2>2. (\E children \in Seq(NewOps) : Done(NoData, children)) \/ Failed \/ UNCHANGED ops
    BY <2>1, EmptySeq, Zenon
  <2> QED BY <1>1, <1>2, <2>1, <2>2, EndsPhases, TypesKept
<1>4. CASE Demote
  <2> DEFINE e == Current.ep
  <2>1. /\ Failed \/ UNCHANGED ops
        /\ UNCHANGED <<disk, callVars>>
        /\ \/ UNCHANGED <<tab, node>>
           \/ /\ tab' = [tab EXCEPT ![e].leader = FALSE]
              /\ node' = [node EXCEPT ![e] = [f \in Tablets |-> NoNode]]
    BY <1>4, Zenon DEF Demote
  <2>2. TabTypes'
    <3>1. CASE UNCHANGED <<tab, node>>
      BY <1>1, <2>1, <3>1, TypesKept
    <3>2. CASE /\ tab' = [tab EXCEPT ![e].leader = FALSE]
               /\ node' = [node EXCEPT ![e] = [f \in Tablets |-> NoNode]]
      <4> DEFINE r == [tab[e] EXCEPT !.leader = FALSE]
      <4> HIDE DEF e
      <4>1. tab' = [tab EXCEPT ![e] = r]
        BY <3>2
      <4>2. e \in Tablets => r \in TabType /\ r.table = tab[e].table /\ r.log = tab[e].log
        <5>1. PICK y \in BOOLEAN : r = [tab[e] EXCEPT !.leader = y]
          BY Zenon
        <5> HIDE DEF r
        <5> QED BY <1>1, <5>1, NewLeader DEF TabTypes
      <4> HIDE DEF r
      <4>3. /\ tab' \in [Tablets -> TabType]
            /\ \A t \in Tablets : tab'[t] = IF t = e THEN r ELSE tab[t]
        BY <1>1, <4>1, <4>2, TabUpdate, Zenon DEF TabTypes
      <4>5. \A t \in Tablets : tab'[t].table = tab[t].table /\ tab'[t].log = tab[t].log
        BY <4>2, <4>3
      <4>6. CallTypes'
        BY <1>1, <2>1, <4>5 DEF TabTypes, CallTypes, CallType, callVars
      <4>4. node' \in [Tablets -> [Tablets -> NodeType]]
        BY <1>1, <3>2, NodeClear, Zenon DEF TabTypes
      <4> QED BY <1>1, <2>1, <4>3, <4>4, <4>6 DEF TabTypes
    <3> QED BY <2>1, <3>1, <3>2
  <2> QED BY <1>1, <1>2, <2>1, <2>2, FailedPhases
<1>5. CASE ChooseReAdd
  <2>1. UNCHANGED <<tab, disk, node, callVars>>
    BY <1>5, Zenon DEF ChooseReAdd, tabletVars
  <2>2. (\E children \in Seq(NewOps) : Done(NoData, children)) \/ Failed
    BY <1>5, ReAddChildren DEF LInv
  <2> QED BY <1>1, <2>1, <2>2, EndsPhases, TypesKept, Zenon
<1> QED BY <1>3, <1>4, <1>5

-----------------------------------------------------------------------------
(* The election.                                                           *)

LEMMA SelectLeaderLogs ==
    ASSUME LInv, SelectLeader
    PROVE  TabTypes' /\ Phases' /\ DataTypes'
<1>1. /\ OpsShape /\ TabTypes /\ term_ \in Nat
      /\ Running("SelectLeader") /\ ops # <<>> /\ UNCHANGED <<tab, disk, node, callVars>>
  BY DEF LInv, EInv, Shapes, SelectLeader, Running, tabletVars
<1>2. \/ Failed
      \/ /\ data' = [NoData EXCEPT !.pc = "ask", !.left = Followers, !.term = term_ + 1]
         /\ UNCHANGED ops
  BY Zenon DEF SelectLeader
<1>3. TabTypes'
  BY <1>1, TypesKept
<1>4. CASE Failed
  BY <1>1, <1>3, <1>4, FailedPhases
<1>5. CASE /\ data' = [NoData EXCEPT !.pc = "ask", !.left = Followers, !.term = term_ + 1]
           /\ UNCHANGED ops
  <2> DEFINE x == Followers
             y == term_ + 1
  <2>1. Followers' = x /\ (\A do : Running(do)' <=> Running(do)) /\ ops' # <<>>
    BY <1>1, <1>5 DEF Followers, Running
  <2>2. y \in Nat
    BY <1>1
  <2> HIDE DEF x, y
  <2>3. data' = [NoData EXCEPT !.pc = "ask", !.left = x, !.term = y]
    BY <1>5, Zenon DEF x, y
  <2>4. data' = [pc |-> "ask", left |-> x, best |-> {}, term |-> y, offset |-> 0,
                 has_table |-> FALSE, leader |-> None]
    BY <2>3, Zenon DEF NoData
  <2>5. /\ data'.leader = None /\ data'.left = x /\ data'.best = {}
        /\ data'.term = y /\ data'.offset = 0
    BY <2>4
  <2>6. ~Running("ChangeLeader")' /\ ~Running("UpdateLeaderInfo")'
    BY <1>1, <2>1, Zenon DEF Running
  <2>7. Asking'
    BY <2>1, <2>5, Zenon DEF Asking
  <2> QED BY <1>3, <2>1, <2>2, <2>5, <2>6, <2>7
          DEF Phases, Idle, Chosen, Elected, DataTypes
<1> QED BY <1>2, <1>4, <1>5

LEMMA FollowOfNoOneLogs ==
    ASSUME LInv, NEW f \in Tablets, FollowOfNoOne(f)
    PROVE  TabTypes' /\ Phases' /\ DataTypes'
<1>1. /\ OpsShape /\ TabTypes /\ Running("SelectLeader") /\ ops # <<>>
      /\ ~Running("ChangeLeader") /\ ~Running("UpdateLeaderInfo")
      /\ UNCHANGED <<tab, disk, node, raced, term_>> /\ data.term \in Nat
      /\ \/ Checked(None, f, data.term, 0, 0) /\ UNCHANGED <<ops, data>>
         \/ Failed /\ UNCHANGED calls
  BY Zenon DEF LInv, EInv, FollowOfNoOne, Running, infoVars
<1>2. CASE Checked(None, f, data.term, 0, 0) /\ UNCHANGED <<ops, data>>
  <2> DEFINE x == data.term
             z == 0
             from == None
  <2>1. x \in Nat /\ z \in Nat /\ from \in Tablets \cup {None} /\ Checked(from, f, x, z, z)
    BY <1>1, <1>2
  <2> HIDE DEF x, z, from
  <2> QED BY <1>1, <1>2, <2>1, CheckedLogs
<1>3. CASE Failed /\ UNCHANGED calls
  BY <1>1, <1>3, FailedPhases, TypesKept DEF callVars
<1> QED BY <1>1, <1>2, <1>3

\* What OffsetAnswered keeps of the answer: the longest log so far, the tablets
\* that have it, and the followers that have answered.
AnsFirst(c) == data.best = {} \/ c.offset > data.offset
AnsMax(c) == IF AnsFirst(c) THEN c.offset ELSE data.offset
AnsBest(c) == IF AnsFirst(c) THEN {c.to}
              ELSE IF c.offset = data.offset THEN data.best \cup {c.to} ELSE data.best
AnsAsked(c) == (Followers \ data.left) \cup {c.to}

\* One more follower has answered: the followers that answered are frozen, none has
\* a longer log than the longest seen, and the best ones have at least that length.
LEMMA LargerOf ==
    ASSUME NEW x \in Nat, NEW y \in Nat, NEW p \in BOOLEAN
    PROVE  /\ (IF p \/ x > y THEN x ELSE y) \in Nat
           /\ x <= (IF p \/ x > y THEN x ELSE y)
           /\ p \/ x > y \/ y <= (IF p \/ x > y THEN x ELSE y)
OBVIOUS

LEMMA AnswerLogs ==
    ASSUME LInv, NEW c \in calls, Asked(c), Finish(c)
    PROVE  /\ tab' \in [Tablets -> TabType] /\ CallTypes' /\ KeepLeaders /\ AnsMax(c) \in Nat
           /\ AnsBest(c) # {} /\ AnsBest(c) \subseteq AnsAsked(c) /\ AnsAsked(c) \subseteq Followers
           /\ \A g \in AnsAsked(c) :
                 /\ ~tab'[g].leader
                 /\ tab'[g].table => g \in raced' \/ tab'[g].term >= data.term
                 /\ g \in raced' \/ Len(tab'[g].log) <= AnsMax(c)
           /\ \A g \in AnsBest(c) : tab'[g].table => Len(tab'[g].log) >= AnsMax(c)
<1> DEFINE f == c.to
           offset == c.offset
           first == data.best = {} \/ offset > data.offset
           max == IF first THEN offset ELSE data.offset
           best == IF first THEN {f}
                   ELSE IF offset = data.offset THEN data.best \cup {f} ELSE data.best
           asked == (Followers \ data.left) \cup {f}
<1>1. /\ Running("SelectLeader") /\ data.pc = "ask" /\ f \in data.left /\ c.term = data.term
      /\ TabTypes /\ tab \in [Tablets -> TabType] /\ data.term \in Nat /\ data.offset \in Nat
      /\ Followers \in SUBSET Tablets /\ AskCalls(data.term) /\ CallShape
  BY HeadKind DEF LInv, TabTypes, DataTypes, EInv, Shapes, Running, Asked
<1>2. /\ data.left \subseteq Followers /\ data.best \subseteq Followers \ data.left
      /\ data.best = {} => data.left = Followers
      /\ \A g \in Followers \ data.left : Frozen(g, data.term) /\ Short(g, data.offset)
      /\ \A g \in data.best : tab[g].table => Len(tab[g].log) >= data.offset
  BY <1>1, Zenon DEF LInv, Phases, Asking
<1>3. /\ f \in Followers /\ f \in Tablets /\ c \in CallType
      /\ tab[f].table /\ offset <= Len(tab[f].log)
  BY <1>1, <1>2, Zenon DEF TabTypes, CallTypes
<1>4. /\ offset \in Nat /\ c.index = 0 /\ ~tab[f].leader /\ c.seen \in Nat /\ c.seen <= c.term
      /\ c.term \in Nat
  BY <1>1, <1>3 DEF AskCalls, CallShape, CallType
<1>5. /\ tab' \in [Tablets -> TabType] /\ CallTypes' /\ KeepLeaders
      /\ \A t \in Tablets : Tame(t)
  BY FinishTame
<1>6. \A t \in Tablets : /\ Len(tab[t].log) \in Nat /\ Len(tab'[t].log) \in Nat
                         /\ tab'[t].term \in Nat /\ tab[t].term \in Nat
                         /\ tab'[t].table => tab[t].table /\ Len(tab'[t].log) >= Len(tab[t].log)
  BY <1>1, <1>5, TabFieldsOf, NoTableFact DEF Tame
<1>7. ~tab'[f].leader
  BY <1>3, <1>4, <1>5, Zenon DEF KeepLeaders
<1>8. max \in Nat /\ offset <= max /\ (first \/ data.offset <= max)
  <2>1. (data.best = {}) \in BOOLEAN
    BY Zenon
  <2> QED BY <1>1, <1>4, <2>1, LargerOf, Zenon
<1>9. first \/ data.offset <= max
  BY <1>8, Zenon
<1>10. best # {} /\ best \subseteq asked /\ asked \subseteq Followers
  BY <1>2, <1>3
<1>11. ASSUME NEW g \in asked
       PROVE  /\ ~tab'[g].leader
              /\ tab'[g].table => g \in raced' \/ tab'[g].term >= data.term
              /\ g \in raced' \/ Len(tab'[g].log) <= max
  <2>1. CASE g = f
    <3> SUFFICES ASSUME f \notin raced'
                 PROVE  tab'[f].term >= data.term /\ Len(tab'[f].log) <= max
      BY <1>7, <2>1
    <3>1. tab[f].term = c.seen /\ Len(tab[f].log) = offset
      BY <1>4 DEF Finish, Late
    <3>2. tab' = IF c.term > c.seen THEN [tab EXCEPT ![f].term = c.term] ELSE tab
      BY <1>4 DEF Finish, Handled
    <3>3. CASE c.term > c.seen
      <4> DEFINE x == c.term
                 r == [tab[f] EXCEPT !.term = x]
      <4>1. tab'[f] = r
        BY <1>1, <1>3, <3>2, <3>3
      <4>2. r.log = tab[f].log /\ r.term = x
        BY <1>1, <1>3, <1>4, NewTerm
      <4> HIDE DEF r
      <4> QED BY <1>1, <1>4, <1>8, <3>1, <4>1, <4>2
    <3>4. CASE ~(c.term > c.seen)
      BY <1>1, <1>4, <1>8, <3>1, <3>2, <3>4
    <3> QED BY <3>3, <3>4
  <2>2. CASE g # f
    <3>1. g \in Followers \ data.left /\ g \in Tablets
      BY <1>1, <1>11, <2>2
    <3> DEFINE x == data.term
               n == data.offset
    <3>2. Frozen(g, x) /\ Short(g, n) /\ x \in Int /\ n \in Nat
      BY <1>1, <1>2, <3>1
    <3>3. data.best # {}
      BY <1>2, <3>1
    <3>4. n <= max
      BY <1>1, <1>8, <3>3
    <3>5. \A e \in calls : e.term >= x => e.index <= n
      <4> SUFFICES ASSUME NEW e \in calls, e.term >= x PROVE e.index <= n
        OBVIOUS
      <4>1. e.term \in Nat
        BY <1>1 DEF CallShape
      <4>2. e.index = 0
        BY <1>1, <4>1 DEF AskCalls
      <4> QED BY <1>1, <4>2
    <3> HIDE DEF x, n, max
    <3>6. /\ ~tab'[g].leader /\ (tab'[g].table => g \in raced' \/ tab'[g].term >= x)
          /\ g \in raced' \/ Len(tab'[g].log) <= max
      BY <1>1, <1>5, <1>8, <3>1, <3>2, <3>4, <3>5, FrozenStays, Zenon DEF Frozen
    <3> QED BY <3>6 DEF x
  <2> QED BY <2>1, <2>2
<1>12. ASSUME NEW g \in best, tab'[g].table
       PROVE  Len(tab'[g].log) >= max
  <2>1. g \in Tablets
    BY <1>1, <1>10, <1>12
  <2>2. CASE g = f
    <3>1. first \/ offset = data.offset
      BY <1>1, <1>2, <1>12, <2>2
    <3>2. max = offset
      BY <3>1
    <3> QED BY <1>3, <1>4, <1>6, <1>12, <2>2, <3>2
  <2>3. CASE g # f
    <3>1. ~first /\ g \in data.best
      BY <1>12, <2>3
    <3>2. max = data.offset /\ Len(tab[g].log) >= data.offset
      BY <1>2, <1>6, <1>12, <2>1, <3>1
    <3> QED BY <1>1, <1>6, <1>12, <2>1, <3>2
  <2> QED BY <2>2, <2>3, Zenon
<1>13. max = AnsMax(c) /\ best = AnsBest(c) /\ asked = AnsAsked(c)
  BY Zenon DEF AnsFirst, AnsMax, AnsBest, AnsAsked
<1> HIDE DEF max, best, asked
<1> QED BY <1>5, <1>8, <1>10, <1>11, <1>12, <1>13, ZenonT(60)

LEMMA OffsetAnsweredLogs ==
    ASSUME LInv, NEW c \in calls, OffsetAnswered(c)
    PROVE  TabTypes' /\ Phases' /\ DataTypes'
<1> DEFINE f == c.to
<1>1. /\ OpsShape /\ TabTypes /\ IsData(data) /\ term_ \in Nat /\ term_' = term_
      /\ Running("SelectLeader") /\ ops # <<>> /\ data.pc = "ask" /\ f \in data.left
      /\ UNCHANGED <<disk, node>> /\ data.leader = None
      /\ data.term + 1 = term_ /\ data.term \in Nat /\ LeadersBelow(data.term)
      /\ AskCalls(data.term) /\ TabShape /\ CallShape
  BY Zenon DEF LInv, EInv, Shapes, OffsetAnswered, Asked, Running, infoVars, Phases, Asking
<1> DEFINE max == AnsMax(c)
           best == AnsBest(c)
           asked == (Followers \ data.left) \cup {f}
<1>2. \/ /\ data' = [data EXCEPT !.left = @ \ {f}, !.best = best, !.offset = max]
         /\ UNCHANGED ops
      \/ /\ data.left = {f}
         /\ \E l \in best :
               Done([NoData EXCEPT !.leader = l, !.offset = max, !.term = data.term + 1], <<>>)
  BY Zenon DEF OffsetAnswered, AnsMax, AnsBest, AnsFirst
<1>4. /\ tab' \in [Tablets -> TabType] /\ CallTypes' /\ KeepLeaders
      /\ max \in Nat /\ best # {} /\ best \subseteq asked /\ asked \subseteq Followers
      /\ \A g \in asked : /\ ~tab'[g].leader
                          /\ tab'[g].table => g \in raced' \/ tab'[g].term >= data.term
                          /\ g \in raced' \/ Len(tab'[g].log) <= max
      /\ \A g \in best : tab'[g].table => Len(tab'[g].log) >= max
  <2>1. Asked(c) /\ Finish(c)
    BY Zenon DEF OffsetAnswered
  <2> QED BY <2>1, AnswerLogs, Zenon DEF AnsAsked
<1>5. TabTypes'
  BY <1>1, <1>4 DEF TabTypes
<1> HIDE DEF max, best, f
<1>6. CASE /\ data' = [data EXCEPT !.left = @ \ {f}, !.best = best, !.offset = max]
           /\ UNCHANGED ops
  <2>1. PICK x, y, z : /\ x = data.left \ {f} /\ y = best /\ z = max
                       /\ data' = [data EXCEPT !.left = x, !.best = y, !.offset = z]
    BY <1>6, Zenon
  <2>2. PICK pc, left, b, term, o, has, l :
           data = [pc |-> pc, left |-> left, best |-> b, term |-> term, offset |-> o,
                   has_table |-> has, leader |-> l]
    BY <1>1, Zenon DEF IsData
  <2>3. data' = [pc |-> pc, left |-> x, best |-> y, term |-> term, offset |-> z,
                 has_table |-> has, leader |-> l]
    BY <2>1, <2>2, Zenon
  <2>4. /\ data'.left = x /\ data'.best = y /\ data'.offset = z
        /\ data'.term = data.term /\ data'.leader = data.leader
    BY <2>2, <2>3, Zenon
  <2>5. Followers' = Followers /\ (\A do : Running(do)' <=> Running(do)) /\ ops' # <<>>
    BY <1>1, <1>6 DEF Followers, Running
  <2>6. ~Running("ChangeLeader")' /\ ~Running("UpdateLeaderInfo")'
    BY <1>1, <2>5, Zenon DEF Running
  <2>7. f \in Followers /\ data.left \subseteq Followers
    BY <1>1, Zenon DEF LInv, Phases, Asking
  <2>8. Followers \ x = asked
    BY <1>1, <2>1, <2>7
  <2> HIDE DEF asked
  <2>9. \A g \in asked : Frozen(g, data.term)' /\ Short(g, data.offset)'
    BY <1>4, <1>6, <2>1, <2>4 DEF Frozen, Short
  <2>10. \A g \in data'.best : tab'[g].table => Len(tab'[g].log) >= data'.offset
    BY <1>4, <1>6, <2>1, <2>4
  <2>11. data'.left \subseteq Followers /\ data'.best \subseteq asked /\ data'.best # {}
    BY <1>4, <1>6, <2>1, <2>4, <2>7
  <2>12. Asking'
    BY <1>1, <2>4, <2>5, <2>8, <2>9, <2>10, <2>11, Zenon DEF Asking
  <2> QED BY <1>1, <1>4, <1>5, <1>6, <2>1, <2>4, <2>5, <2>6, <2>12, Zenon
          DEF Phases, Idle, Chosen, Elected, DataTypes
<1>7. CASE /\ data.left = {f}
           /\ \E l \in best :
                 Done([NoData EXCEPT !.leader = l, !.offset = max, !.term = data.term + 1], <<>>)
  <2>1. PICK l, z, u :
           /\ l \in best /\ z = max /\ u = data.term + 1
           /\ Done([NoData EXCEPT !.leader = l, !.offset = z, !.term = u], <<>>)
    BY <1>7, Zenon
  <2> DEFINE d == [NoData EXCEPT !.leader = l, !.offset = z, !.term = u]
  <2>2. d.leader = l /\ d.offset = z /\ d.term = u
    <3>1. PICK pc, left, b, term, o, has, w :
             NoData = [pc |-> pc, left |-> left, best |-> b, term |-> term, offset |-> o,
                       has_table |-> has, leader |-> w]
      BY Zenon DEF NoData
    <3>2. d = [NoData EXCEPT !.leader = l, !.offset = z, !.term = u]
      BY Zenon
    <3> HIDE DEF d
    <3>3. d = [pc |-> pc, left |-> left, best |-> b, term |-> u, offset |-> z,
               has_table |-> has, leader |-> l]
      BY <3>1, <3>2, Zenon
    <3> QED BY <3>3, Zenon
  <2>3. Done(d, <<>>)
    BY <2>1
  <2> HIDE DEF d
  <2>4. \/ Phases' /\ DataTypes'
        \/ /\ data' = d /\ ops' # <<>> /\ Followers' = Followers
           /\ Running("UpdateLeaderInfo")' => Running("ChangeLeader")
           /\ ~Running("SelectLeader")'
    BY <1>1, <2>3, DoneRest, EmptySeq, Zenon
  <2>6. CASE /\ data' = d /\ ops' # <<>> /\ Followers' = Followers
             /\ Running("UpdateLeaderInfo")' => Running("ChangeLeader")
             /\ ~Running("SelectLeader")'
    <3>1. ~Running("UpdateLeaderInfo")'
      BY <1>1, <2>6, Zenon DEF Running
    <3>2. Followers = asked
      <4>1. f \in Followers
        BY <1>1, Zenon DEF LInv, Phases, Asking
      <4> QED BY <1>7, <4>1
    <3> HIDE DEF asked
    <3>3. term_ - 1 = data.term
      BY <1>1
    <3>4. LeadersBelow(term_ - 1)' /\ AskCalls(term_ - 1)'
      <4> DEFINE x == data.term
      <4>1. LeadersBelow(x) /\ AskCalls(x)
        BY <1>1
      <4>2. (term_ - 1)' = x
        BY <1>1, <3>3
      <4> HIDE DEF x
      <4>3. /\ \A t \in Tablets : tab'[t].leader => tab'[t].term \in Nat /\ tab'[t].term < x
            /\ \A e \in calls' : e.term < x \/ (e.term = x /\ e.index = 0 /\ ~tab'[e.to].leader)
        BY <1>1, <1>4, <4>1, StayBelow, Zenon
      <4> QED BY <4>2, <4>3 DEF LeadersBelow, AskCalls
    <3>5. \A g \in Followers : Frozen(g, term_ - 1)' /\ Short(g, data.offset)'
      BY <1>1, <1>4, <1>7, <2>1, <2>2, <2>6, <3>2, <3>3, ZenonT(60) DEF Frozen, Short
    <3>6. data'.leader \in Followers
      BY <1>4, <1>7, <2>1, <2>2, <2>6, <3>2
    <3>7. tab'[data'.leader].table => Len(tab'[data'.leader].log) >= data'.offset
      BY <1>4, <1>7, <2>1, <2>2, <2>6, Zenon
    <3>8. Chosen'
      BY <2>6, <3>4, <3>5, <3>6, <3>7, Zenon DEF Chosen
    <3>9. DataTypes'
      BY <1>1, <1>4, <1>7, <2>1, <2>2, <2>6 DEF DataTypes
    <3> QED BY <1>5, <2>6, <3>1, <3>8, <3>9, Zenon DEF Phases, Idle, Asking, Elected
  <2> QED BY <1>5, <2>4, <2>6
<1> QED BY <1>2, <1>6, <1>7, Zenon

\* The one that was chosen becomes the leader; its log and the others stay.
LEMMA ChangeLeaderLogs ==
    ASSUME LInv, ChangeLeader
    PROVE  TabTypes' /\ Phases' /\ DataTypes'
<1> DEFINE l == data.leader
           x == data.term
           np == [f \in Tablets |->
                    IF f \in Followers \ {l} /\ node[l][f] = NoNode THEN Unmatched ELSE node[l][f]]
<1>1. /\ OpsShape /\ TabTypes /\ term_ \in Nat /\ term_' = term_ /\ data.term = term_
      /\ Running("ChangeLeader") /\ ops # <<>> /\ data.offset \in Nat /\ UNCHANGED callVars
  BY Zenon DEF LInv, EInv, Shapes, ChangeLeader, TabletTask, Call, Running, infoVars, DataTypes
<1>2. /\ l \in Followers /\ Followers \in SUBSET Tablets
      /\ LeadersBelow(term_ - 1) /\ AskCalls(term_ - 1)
      /\ \A f \in Followers : Frozen(f, term_ - 1) /\ Short(f, data.offset)
      /\ tab[l].table => Len(tab[l].log) >= data.offset
  BY <1>1, HeadKind, Zenon DEF LInv, Phases, Chosen
<1>3. \/ Failed /\ UNCHANGED <<tab, disk, node>>
      \/ /\ tab[l].table /\ (Done(data, <<>>) \/ Failed)
         /\ tab' = [tab EXCEPT ![l].leader = TRUE, ![l].term = x]
         /\ node' = [node EXCEPT ![l] = [f \in Tablets |->
                       IF f \in Followers \ {l} /\ @[f] = NoNode THEN Unmatched ELSE @[f]]]
         /\ disk' = disk
  BY Zenon DEF ChangeLeader, TabletTask, Call, Answered
<1>4. CASE Failed /\ UNCHANGED <<tab, disk, node>>
  BY <1>1, <1>4, FailedPhases, TypesKept
<1>5. CASE /\ tab[l].table /\ (Done(data, <<>>) \/ Failed)
           /\ tab' = [tab EXCEPT ![l].leader = TRUE, ![l].term = x]
           /\ node' = [node EXCEPT ![l] = [f \in Tablets |->
                         IF f \in Followers \ {l} /\ @[f] = NoNode THEN Unmatched ELSE @[f]]]
           /\ disk' = disk
  <2>1. l \in Tablets /\ tab[l] \in TabType
    BY <1>1, <1>2 DEF TabTypes
  <2>p. PICK p, r : p = [tab[l] EXCEPT !.leader = TRUE] /\ r = [p EXCEPT !.term = x]
    BY Zenon
  <2>2. tab' = [tab EXCEPT ![l] = r]
    BY <1>1, <1>5, <2>1, <2>p, Zenon DEF TabTypes
  <2>3. p \in TabType /\ p.log = tab[l].log /\ p.table = tab[l].table
    <3>1. PICK y \in BOOLEAN : p = [tab[l] EXCEPT !.leader = y]
      BY <2>p, Zenon
    <3> QED BY <2>1, <3>1, NewLeader
  <2>4. r \in TabType /\ r.log = tab[l].log /\ r.table = tab[l].table
    <3>1. x \in Nat
      BY <1>1
    <3>2. r = [p EXCEPT !.term = x]
      BY <2>p, Zenon
    <3> HIDE DEF x
    <3> QED BY <2>3, <3>1, <3>2, NewTerm
  <2>5. /\ tab' \in [Tablets -> TabType]
        /\ \A t \in Tablets : tab'[t] = IF t = l THEN r ELSE tab[t]
    BY <1>1, <2>2, <2>4, TabUpdate, Zenon DEF TabTypes
  <2>6. node' \in [Tablets -> [Tablets -> NodeType]]
    <3>1. node[l] \in [Tablets -> NodeType]
      BY <1>1, <2>1 DEF TabTypes
    <3>2. np \in [Tablets -> NodeType]
      BY <3>1 DEF NodeType, Unmatched
    <3>3. node' = [node EXCEPT ![l] = np]
      BY <1>5
    <3> HIDE DEF np
    <3> QED BY <1>1, <2>1, <3>2, <3>3 DEF TabTypes
  <2>10. \A t \in Tablets : tab'[t].table = tab[t].table /\ tab'[t].log = tab[t].log
    BY <2>4, <2>5
  <2>7. TabTypes'
    <3>1. CallTypes'
      BY <1>1, <2>10 DEF TabTypes, CallTypes, CallType, callVars
    <3> QED BY <1>1, <1>5, <2>5, <2>6, <3>1, Zenon DEF TabTypes
  <2>8. CASE Failed
    BY <1>1, <2>7, <2>8, FailedPhases
  <2>9. CASE Done(data, <<>>)
    <3>1. \/ Phases' /\ DataTypes'
          \/ /\ data' = data /\ ops' # <<>> /\ Followers' = Followers
             /\ Running("ChangeLeader")' => Running("SelectLeader")
             /\ ~Running("SelectLeader")'
      BY <1>1, <2>9, DoneRest, EmptySeq, Zenon
    <3>2. CASE /\ data' = data /\ ops' # <<>> /\ Followers' = Followers
               /\ Running("ChangeLeader")' => Running("SelectLeader")
               /\ ~Running("SelectLeader")'
      <4>1. ~Running("ChangeLeader")'
        BY <1>1, <3>2 DEF Running
      <4>2. Leads(l)'
        <5>1. \A t \in Tablets : tab[t].leader => tab[t].term < term_ - 1 /\ tab[t].term \in Nat
          BY <1>1, <1>2, TabFieldsOf, Zenon DEF LeadersBelow, TabTypes
        <5>2. \A t \in Tablets : tab'[t].leader /\ tab'[t].term >= term_ - 1 => t = l
          BY <1>1, <2>5, <5>1
        <5>3. ASSUME NEW c \in calls, c.term >= term_ - 1
              PROVE  (tab'[c.to].leader => c.to = l) /\ c.index <= Len(tab'[l].log)
          <6>1. c.term \in Nat /\ c.to \in Tablets
            BY <1>1 DEF TabTypes, CallTypes, CallType
          <6>2. c.index = 0 /\ ~tab[c.to].leader
            BY <1>1, <1>2, <5>3, <6>1 DEF AskCalls
          <6>3. Len(tab'[l].log) \in Nat
            BY <2>1, <2>5, TabFieldsOf
          <6> QED BY <2>5, <6>1, <6>2, <6>3
        <5>4. data' = data /\ calls' = calls
          BY <1>1, <3>2 DEF callVars
        <5> QED BY <1>1, <5>2, <5>3, <5>4 DEF Leads
      <4>3. \A f \in Followers \ {l} : Frozen(f, term_ - 1)'
        BY <1>1, <1>2, <2>5, Zenon DEF Frozen, callVars
      <4>4. \A f \in Followers : f \in raced \/ Len(tab'[f].log) <= Len(tab'[l].log)
        <5> SUFFICES ASSUME NEW f \in Followers, f \notin raced
                     PROVE  Len(tab'[f].log) <= Len(tab'[l].log)
          OBVIOUS
        <5>1. /\ tab'[l].log = tab[l].log /\ tab'[f].log = tab[f].log
              /\ Len(tab[l].log) >= data.offset /\ Len(tab[f].log) <= data.offset
          BY <1>2, <1>5, <2>1, <2>10, Zenon DEF Short
        <5>2. Len(tab[l].log) \in Nat /\ Len(tab[f].log) \in Nat
          BY <1>1, <1>2, TabFieldsOf DEF TabTypes
        <5> QED BY <1>1, <5>1, <5>2
      <4>5. Elected'
        BY <1>1, <1>2, <3>2, <4>2, <4>3, <4>4, Zenon DEF Elected, Short, callVars
      <4> QED BY <2>7, <3>2, <4>1, <4>5, Zenon DEF Phases, Idle, Asking, Chosen, DataTypes
    <3> QED BY <2>7, <3>1, <3>2
  <2> QED BY <1>5, <2>8, <2>9
<1> QED BY <1>3, <1>4, <1>5

-----------------------------------------------------------------------------
(* The theorem.                                                            *)

LEMMA InitLInv == Init => LInv
<1> SUFFICES ASSUME Init PROVE LInv
  OBVIOUS
<1> DEFINE start == [i \in 1 .. Saved |-> 1]
<1>1. start \in Seq(Nat)
  BY FailoverAssumption
<1>2. /\ tab = [t \in Tablets |->
                  [table |-> TRUE, leader |-> t = First,
                   term |-> IF t = First \/ Saved > 0 THEN 1 ELSE 0,
                   log |-> start, paused |-> FALSE]]
      /\ disk = [t \in Tablets |-> IF Saved = 0 THEN Empty ELSE [log |-> start, term |-> 1]]
      /\ node = [t \in Tablets |-> [f \in Tablets |->
                   IF t = First /\ f # First
                   THEN IF Saved = 0 THEN Unmatched ELSE Saved ELSE NoNode]]
      /\ ops = <<>> /\ data = NoData /\ calls = {}
  BY Zenon DEF Init
<1> HIDE DEF start
<1>3. tab \in [Tablets -> TabType]
  BY <1>1, <1>2, Zenon DEF TabType
<1>4. disk \in [Tablets -> DiskType]
  <2>1. Empty \in DiskType /\ [log |-> start, term |-> 1] \in DiskType
    BY <1>1 DEF DiskType, Empty
  <2> QED BY <1>2, <2>1, Zenon
<1>5. node \in [Tablets -> [Tablets -> NodeType]]
  BY <1>2, FailoverAssumption DEF NodeType, Unmatched, NoNode
<1>6. Phases /\ DataTypes
  BY <1>2, Zenon DEF Phases, Idle, Asking, Chosen, Elected, DataTypes, Running
<1>7. CallTypes
  BY <1>2 DEF CallTypes
<1> QED BY <1>3, <1>4, <1>5, <1>6, <1>7, InitEInv DEF LInv, TabTypes

LEMMA OpStepLogs ==
    ASSUME LInv, OpStep
    PROVE  TabTypes' /\ Phases' /\ DataTypes'
BY NodeTaskLogs, SnapshotTaskLogs, SendSnapshotLogs, TableTaskLogs, InfoTaskLogs,
   RecoverTableLogs, SelectLeaderLogs, FollowOfNoOneLogs, ChangeLeaderLogs, Zenon DEF OpStep

LEMMA NextLInv == LInv /\ [Next]_vars => LInv'
<1> SUFFICES ASSUME LInv, [Next]_vars PROVE LInv'
  OBVIOUS
<1>1. EInv'
  BY NextEInv DEF LInv
<1> SUFFICES TabTypes' /\ Phases' /\ DataTypes'
  BY <1>1 DEF LInv
<1>2. ASSUME NEW t \in Tablets,
             \/ Put(t) \/ MakeSnapshot(t)
             \/ Crash(t) \/ SessionExpires(t) \/ Restart(t) \/ CheckZkClient(t)
             \/ HeartbeatTimeout(t)
             \/ OnTabletOffline(t) \/ OfflineAfterTimeout(t)
             \/ OnTabletOnline(t) \/ OfflineAtStartup(t) \/ RecoverOnline(t)
      PROVE  TabTypes' /\ Phases' /\ DataTypes'
  BY <1>2, TabletLogs, WatchLogs, Zenon
<1>3. ASSUME NEW l \in Tablets, NEW f \in Tablets, MatchLogOffset(l, f) \/ SyncData(l, f)
      PROVE  TabTypes' /\ Phases' /\ DataTypes'
  BY <1>3, ReplicationLogs, Zenon
<1>7. ASSUME NEW c \in calls, AppendEntries(c) \/ OffsetAnswered(c)
      PROVE  TabTypes' /\ Phases' /\ DataTypes'
  BY <1>7, HandlerLogs, OffsetAnsweredLogs, Zenon
<1>4. CASE UpdateTablets \/ UNCHANGED vars
  <2>1. UNCHANGED <<tab, disk, node, callVars, ops, data, term_>>
    BY <1>4, Zenon DEF UpdateTablets, vars, tabletVars, infoVars
  <2> QED BY <2>1, QuietLogs, TypesKept, Zenon DEF LInv
<1>5. CASE OpStep
  BY <1>5, OpStepLogs
<1>6. CASE CallLost
  BY <1>6, CallLostLogs
<1> QED BY <1>2, <1>3, <1>4, <1>5, <1>6, <1>7, Zenon DEF Next

LEMMA LongestOfPhases == LInv => ElectedIsLongest
<1> SUFFICES ASSUME LInv, NEW f \in Tablets, ops # <<>>, data.leader # None,
                    f \in Followers, tab[data.leader].table, f \notin raced
             PROVE  Len(tab[f].log) <= Len(tab[data.leader].log)
  BY DEF ElectedIsLongest, Followers
<1>1. Running("SelectLeader") \/ Running("ChangeLeader") \/ Running("UpdateLeaderInfo")
  BY HeadKind, Zenon DEF LInv, EInv
<1>2. CASE Running("SelectLeader")
  BY <1>2, Zenon DEF LInv, Phases, Asking
<1>3. CASE Running("ChangeLeader")
  <2>1. /\ Len(tab[f].log) <= data.offset /\ Len(tab[data.leader].log) >= data.offset
        /\ data.leader \in Followers /\ data.offset \in Nat
    BY <1>3, Zenon DEF LInv, Phases, Chosen, Short, DataTypes
  <2>2. data.leader \in Tablets
    BY <2>1, HeadKind DEF LInv, EInv
  <2>3. Len(tab[f].log) \in Nat /\ Len(tab[data.leader].log) \in Nat
    BY <2>2, TabFieldsOf DEF LInv, TabTypes
  <2> QED BY <2>1, <2>3
<1>4. CASE Running("UpdateLeaderInfo")
  BY <1>4, Zenon DEF LInv, Phases, Elected, Short
<1> QED BY <1>1, <1>2, <1>3, <1>4, Zenon

\* What is known of the followers, the leaders and the requests that are still
\* handled in every phase of an election.
THEOREM ElectionPhases == Spec => []LInv
BY InitLInv, NextLInv, PTL DEF Spec

\* Once SelectLeader has chosen, none of the followers it asked is ahead of the
\* new leader or gets there, whatever crashes and calls that are lost come between,
\* unless a handler of AppendEntries ended on it after what it had read had changed.
THEOREM ElectedIsLongestHolds == Spec => []ElectedIsLongest
BY ElectionPhases, LongestOfPhases, PTL

-----------------------------------------------------------------------------
(* Types and bounds.  An election is not started at MaxTerm or above and   *)
(* takes two terms, a log grows by copies of entries that fit, and only    *)
(* the last task of an operation creates another one.                      *)

BTerms == 0 .. MaxTerm + 1
Logs == {s \in Seq(BTerms) : Len(s) <= MaxLog}

TabBounds == \A t \in Tablets : tab[t].term \in BTerms /\ tab[t].log \in Logs
DiskBounds == \A t \in Tablets : disk[t].term \in BTerms /\ disk[t].log \in Logs
NodeBounds == \A t, f \in Tablets : node[t][f] <= MaxLog

Request == [from : Tablets \cup {None}, to : Tablets, term : BTerms, index : Offsets,
            entry : BTerms, seen : BTerms, offset : Offsets]
CallBounds == calls \subseteq Request /\ raced \subseteq Tablets

DataOK(d) ==
    /\ d.pc \in {"start", "ask", "demote", "match"}
    /\ d.left \subseteq Tablets /\ d.best \subseteq Tablets
    /\ d.term \in BTerms /\ d.offset \in Offsets /\ d.leader \in Tablets \cup {None}

StartType == [term : BTerms, offset : 0 .. MaxLog + 1]
InfoBounds == term_ \in BTerms /\ term_offset \in Seq(StartType) /\ DataOK(data)

Bounds == TabBounds /\ DiskBounds /\ NodeBounds /\ CallBounds /\ InfoBounds
BInv == LInv /\ Bounds /\ Queue /\ Watched /\ MetaOK

-----------------------------------------------------------------------------
(* Terms, offsets and what an operation has learnt.                        *)

LEMMA BoundFacts ==
    /\ 0 \in BTerms /\ 0 \in Offsets /\ 0 <= MaxLog /\ MaxLog \in Nat /\ MaxTerm \in Nat
    /\ BTerms \subseteq Nat /\ <<>> \in Logs
BY FailoverAssumption DEF BTerms, Offsets, Logs

LEMMA LogFacts ==
    ASSUME NEW s \in Logs
    PROVE  s \in Seq(BTerms) /\ Len(s) \in Offsets /\ Len(s) <= MaxLog
BY FailoverAssumption DEF Logs, Offsets

LEMMA LogNat ==
    ASSUME NEW s \in Seq(BTerms)
    PROVE  s \in Seq(Nat)
<1>1. BTerms \subseteq Nat
  BY BoundFacts, Zenon
<1>2. Len(s) \in Nat /\ s \in [1 .. Len(s) -> BTerms]
  OBVIOUS
<1>3. s \in [1 .. Len(s) -> Nat]
  BY <1>1, <1>2, Zenon
<1> QED BY <1>2, <1>3

LEMMA NoDataOK == DataOK(NoData)
<1>1. 0 \in BTerms /\ 0 \in Offsets
  BY BoundFacts
<1> QED BY <1>1 DEF DataOK, NoData

LEMMA DataSet ==
    ASSUME NEW pc \in {"start", "ask", "demote", "match"}, NEW left \in SUBSET Tablets,
           NEW best \in SUBSET Tablets, NEW term \in BTerms, NEW offset \in Offsets,
           NEW has, NEW leader \in Tablets \cup {None}, NEW d,
           d = [pc |-> pc, left |-> left, best |-> best, term |-> term, offset |-> offset,
                has_table |-> has, leader |-> leader]
    PROVE  DataOK(d)
BY Zenon DEF DataOK

LEMMA DataEnds ==
    ASSUME DataOK(data), NEW d, DataOK(d), Done(d, <<>>) \/ Failed
    PROVE  DataOK(data')
<1>1. data' \in {NoData, d}
  BY Zenon DEF Done, Failed
<1> QED BY <1>1, NoDataOK, Zenon

LEMMA SelectBounds ==
    ASSUME InfoBounds, Queue, SelectLeader
    PROVE  InfoBounds'
<1>1. ops # <<>> /\ term_offset' = term_offset
  BY Zenon DEF SelectLeader, Running
<1>2. CASE AliveLeaders # {}
  <2>1. Failed /\ term_' = term_
    BY <1>2, Zenon DEF SelectLeader
  <2> QED BY <1>1, <2>1, NoDataOK, Zenon DEF InfoBounds, Failed
<1>3. CASE AliveLeaders = {}
  <2>1. /\ term_ < MaxTerm /\ term_' = term_ + 2
        /\ \/ Failed
           \/ data' = [NoData EXCEPT !.pc = "ask", !.left = Followers, !.term = term_ + 1]
    BY <1>3, Zenon DEF SelectLeader, TermTaken
  <2> DEFINE x == Followers
             y == term_ + 1
  <2>2. y \in BTerms /\ term_' \in BTerms
    BY <2>1, BoundFacts DEF InfoBounds, BTerms
  <2>3. x \in SUBSET Tablets
    BY <1>1, QueueHead, Zenon
  <2> HIDE DEF x, y
  <2>4. Failed \/ data' = [NoData EXCEPT !.pc = "ask", !.left = x, !.term = y]
    BY <2>1, Zenon DEF x, y
  <2>5. ASSUME data' = [NoData EXCEPT !.pc = "ask", !.left = x, !.term = y] PROVE DataOK(data')
    <3>1. data' = [pc |-> "ask", left |-> x, best |-> {}, term |-> y, offset |-> 0,
                   has_table |-> FALSE, leader |-> None]
      BY <2>5, Zenon DEF NoData
    <3>2. 0 \in Offsets /\ {} \in SUBSET Tablets
      BY BoundFacts
    <3> QED BY <2>2, <2>3, <3>1, <3>2, DataSet, Zenon
  <2>6. DataOK(data')
    BY <2>4, <2>5, NoDataOK, Zenon DEF Failed
  <2> QED BY <1>1, <2>2, <2>6, Zenon DEF InfoBounds
<1> QED BY <1>2, <1>3

LEMMA AnswerBounds ==
    ASSUME LInv, InfoBounds, CallBounds, NEW c \in calls, OffsetAnswered(c)
    PROVE  InfoBounds'
<1>1. /\ term_' = term_ /\ term_offset' = term_offset /\ data.pc = "ask"
      /\ \/ data' = [data EXCEPT !.left = @ \ {c.to}, !.best = AnsBest(c), !.offset = AnsMax(c)]
         \/ \E l \in AnsBest(c) :
               Done([NoData EXCEPT !.leader = l, !.offset = AnsMax(c), !.term = data.term + 1], <<>>)
  BY Zenon DEF OffsetAnswered, Asked, AnsBest, AnsMax, AnsFirst, infoVars
<1>2. DataOK(data) /\ IsData(data) /\ data.term + 1 = term_ /\ term_ \in BTerms
  BY <1>1, Zenon DEF InfoBounds, LInv, EInv, Shapes
<1>3. AnsBest(c) \in SUBSET Tablets /\ AnsMax(c) \in Offsets
  <2>1. c.offset \in Offsets /\ c.to \in Tablets
    BY DEF CallBounds, Request
  <2> QED BY <1>2, <2>1, Zenon DEF AnsBest, AnsMax, AnsFirst, DataOK
<1>4. CASE data' = [data EXCEPT !.left = @ \ {c.to}, !.best = AnsBest(c), !.offset = AnsMax(c)]
  <2>1. PICK x, y, z : /\ x = data.left \ {c.to} /\ y = AnsBest(c) /\ z = AnsMax(c)
                       /\ data' = [data EXCEPT !.left = x, !.best = y, !.offset = z]
    BY <1>4, Zenon
  <2>2. PICK pc, left, b, term, o, has, l :
           data = [pc |-> pc, left |-> left, best |-> b, term |-> term, offset |-> o,
                   has_table |-> has, leader |-> l]
    BY <1>2, Zenon DEF IsData
  <2>3. data' = [pc |-> pc, left |-> x, best |-> y, term |-> term, offset |-> z,
                 has_table |-> has, leader |-> l]
    BY <2>1, <2>2, Zenon
  <2>4. /\ pc \in {"start", "ask", "demote", "match"} /\ term \in BTerms
        /\ l \in Tablets \cup {None} /\ left \in SUBSET Tablets
    BY <1>2, <2>2, Zenon DEF DataOK
  <2>5. x \in SUBSET Tablets /\ y \in SUBSET Tablets /\ z \in Offsets
    BY <1>2, <1>3, <2>1, Zenon DEF DataOK
  <2>6. DataOK(data')
    BY <2>3, <2>4, <2>5, DataSet, Zenon
  <2> QED BY <1>1, <1>2, <2>6, Zenon DEF InfoBounds
<1>5. ASSUME NEW l \in AnsBest(c),
             Done([NoData EXCEPT !.leader = l, !.offset = AnsMax(c), !.term = data.term + 1], <<>>)
      PROVE  InfoBounds'
  <2>1. PICK d, z, u : /\ z = AnsMax(c) /\ u = data.term + 1
                       /\ d = [NoData EXCEPT !.leader = l, !.offset = z, !.term = u]
    BY Zenon
  <2>2. Done(d, <<>>)
    BY <1>5, <2>1, Zenon
  <2>3. d = [pc |-> "start", left |-> {}, best |-> {}, term |-> u, offset |-> z,
             has_table |-> FALSE, leader |-> l]
    BY <2>1, Zenon DEF NoData
  <2>4. l \in Tablets \cup {None} /\ {} \in SUBSET Tablets /\ z \in Offsets /\ u \in BTerms
    BY <1>2, <1>3, <2>1, Zenon
  <2>5. DataOK(d)
    BY <2>3, <2>4, DataSet, Zenon
  <2> QED BY <1>1, <1>2, <2>2, <2>5, DataEnds, Zenon DEF InfoBounds
<1> QED BY <1>1, <1>4, <1>5, Zenon

LEMMA PairBounds ==
    ASSUME InfoBounds, TabBounds, DiskBounds, Queue, GetTermPair
    PROVE  InfoBounds'
<1> DEFINE e == Current.ep
           t == tab[e]
<1>1. /\ term_' = term_ /\ term_offset' = term_offset /\ ops # <<>> /\ e \in Tablets
      /\ \/ Done(NoData, <<>>) \/ Failed
         \/ data' = [NoData EXCEPT !.leader = GetLeader, !.has_table = t.table,
                  !.term = IF t.table THEN t.term ELSE disk[e].term,
                  !.offset = Len(IF t.table THEN t.log ELSE disk[e].log),
                  !.pc = IF t.table /\ ~t.leader THEN "match" ELSE "demote"]
  BY QueueHead, Zenon DEF GetTermPair, infoVars, Running
<1>2. CASE Done(NoData, <<>>) \/ Failed
  BY <1>1, <1>2, NoDataOK, DataEnds, Zenon DEF InfoBounds
<1>3. CASE data' = [NoData EXCEPT !.leader = GetLeader, !.has_table = t.table,
                  !.term = IF t.table THEN t.term ELSE disk[e].term,
                  !.offset = Len(IF t.table THEN t.log ELSE disk[e].log),
                  !.pc = IF t.table /\ ~t.leader THEN "match" ELSE "demote"]
  <2>1. PICK l, h, u, o, p :
           /\ l = GetLeader /\ u = IF t.table THEN t.term ELSE disk[e].term
           /\ o = Len(IF t.table THEN t.log ELSE disk[e].log)
           /\ p = IF t.table /\ ~t.leader THEN "match" ELSE "demote"
           /\ data' = [NoData EXCEPT !.leader = l, !.has_table = h, !.term = u, !.offset = o,
                                     !.pc = p]
    BY <1>3, Zenon
  <2>2. data' = [pc |-> p, left |-> {}, best |-> {}, term |-> u, offset |-> o,
                 has_table |-> h, leader |-> l]
    BY <2>1, Zenon DEF NoData
  <2>3. u \in BTerms /\ p \in {"start", "ask", "demote", "match"} /\ l \in Tablets \cup {None}
    BY <1>1, <2>1, GetLeaderFact, Zenon DEF TabBounds, DiskBounds
  <2>4. o \in Offsets /\ {} \in SUBSET Tablets
    BY <1>1, <2>1, LogFacts, Zenon DEF TabBounds, DiskBounds
  <2>5. DataOK(data')
    BY <2>2, <2>3, <2>4, DataSet, Zenon
  <2> QED BY <1>1, <2>5, Zenon DEF InfoBounds
<1> QED BY <1>1, <1>2, <1>3

LEMMA DemoteBounds ==
    ASSUME LInv, InfoBounds, Demote
    PROVE  InfoBounds'
<1>1. /\ term_' = term_ /\ term_offset' = term_offset
      /\ Failed \/ data' = [data EXCEPT !.pc = "match"]
  BY Zenon DEF Demote, infoVars
<1>2. DataOK(data) /\ IsData(data)
  BY Zenon DEF InfoBounds, LInv, EInv, Shapes
<1>3. ASSUME data' = [data EXCEPT !.pc = "match"] PROVE DataOK(data')
  <2>1. PICK pc, left, b, term, o, has, l :
           data = [pc |-> pc, left |-> left, best |-> b, term |-> term, offset |-> o,
                   has_table |-> has, leader |-> l]
    BY <1>2, Zenon DEF IsData
  <2>2. data' = [pc |-> "match", left |-> left, best |-> b, term |-> term, offset |-> o,
                 has_table |-> has, leader |-> l]
    BY <1>3, <2>1, Zenon
  <2> QED BY <1>2, <2>1, <2>2, Zenon DEF DataOK
<1>4. DataOK(data')
  BY <1>1, <1>3, NoDataOK, Zenon DEF Failed
<1> QED BY <1>1, <1>4, Zenon DEF InfoBounds

LEMMA InfoTaskBounds ==
    ASSUME InfoBounds, UpdatePartitionStatus \/ UpdateLeaderInfo \/ CallLost \/ ChooseReAdd
    PROVE  InfoBounds'
<1>1. /\ term_' = term_ /\ data' = NoData
      /\ term_offset' = term_offset \/ term_offset' = Append(term_offset, TermStart)
  BY Zenon DEF UpdatePartitionStatus, UpdateLeaderInfo, CallLost, ChooseReAdd, Done, Failed, infoVars
<1>2. TermStart \in StartType
  <2>1. data.term \in BTerms /\ data.offset \in Offsets
    BY Zenon DEF InfoBounds, DataOK
  <2>2. data.offset + 1 \in 0 .. MaxLog + 1
    BY <2>1, FailoverAssumption DEF Offsets
  <2> QED BY <2>1, <2>2, Zenon DEF TermStart, StartType
<1>3. term_offset' \in Seq(StartType)
  BY <1>1, <1>2 DEF InfoBounds
<1> QED BY <1>1, <1>3, NoDataOK, Zenon DEF InfoBounds

LEMMA InfoStep ==
    ASSUME BInv, [Next]_vars
    PROVE  InfoBounds'
<1>1. LInv /\ InfoBounds /\ TabBounds /\ DiskBounds /\ CallBounds /\ Queue
  BY Zenon DEF BInv, Bounds
<1>2. ASSUME UNCHANGED <<term_, term_offset, data>> PROVE InfoBounds'
  BY <1>1, <1>2, Zenon DEF InfoBounds
<1>3. ASSUME NEW t \in Tablets,
             \/ Put(t) \/ MakeSnapshot(t)
             \/ Crash(t) \/ SessionExpires(t) \/ Restart(t) \/ CheckZkClient(t)
             \/ HeartbeatTimeout(t)
             \/ OnTabletOffline(t) \/ OfflineAfterTimeout(t)
             \/ OnTabletOnline(t) \/ OfflineAtStartup(t) \/ RecoverOnline(t)
      PROVE  InfoBounds'
  <2>1. UNCHANGED <<term_, term_offset, data>>
    BY <1>3, Zenon DEF Put, MakeSnapshot, Crash, SessionExpires, Restart, CheckZkClient,
                HeartbeatTimeout, OnTabletOffline, OfflineAfterTimeout, OnTabletOnline,
                OfflineAtStartup, RecoverOnline, infoVars
  <2> QED BY <1>2, <2>1
<1>4. ASSUME \/ UpdateTablets \/ UNCHANGED vars
             \/ \E l, f \in Tablets : MatchLogOffset(l, f) \/ SyncData(l, f)
             \/ \E c \in calls : AppendEntries(c)
      PROVE  InfoBounds'
  <2>1. UNCHANGED <<term_, term_offset, data>>
    BY <1>4, Zenon DEF UpdateTablets, MatchLogOffset, SyncData, AppendEntries, vars, infoVars
  <2> QED BY <1>2, <2>1
<1>5. ASSUME \/ DelReplica \/ AddReplica \/ PauseSnapshot \/ RecoverSnapshot \/ SendSnapshot
             \/ DropTable \/ LoadTable \/ ChangeLeader
      PROVE  InfoBounds'
  <2>1. UNCHANGED <<term_, term_offset>> /\ (Done(data, <<>>) \/ Failed)
    BY <1>5, Zenon DEF DelReplica, AddReplica, PauseSnapshot, RecoverSnapshot, SendSnapshot,
                DropTable, LoadTable, ChangeLeader, TabletTask, Call, Answered, infoVars
  <2> QED BY <1>1, <2>1, DataEnds, Zenon DEF InfoBounds
<1>6. CASE UpdatePartitionStatus \/ UpdateLeaderInfo \/ CallLost \/ ChooseReAdd
  BY <1>1, <1>6, InfoTaskBounds
<1>7. CASE SelectLeader \/ GetTermPair \/ Demote \/ \E c \in calls : OffsetAnswered(c)
  BY <1>1, <1>7, SelectBounds, PairBounds, DemoteBounds, AnswerBounds, Zenon
<1>8. ASSUME NEW f \in Tablets, FollowOfNoOne(f) PROVE InfoBounds'
  <2>1. UNCHANGED <<term_, term_offset>> /\ (UNCHANGED data \/ Failed)
    BY <1>8, Zenon DEF FollowOfNoOne, infoVars
  <2> QED BY <1>1, <1>2, <2>1, NoDataOK, Zenon DEF InfoBounds, Failed
<1> QED BY <1>3, <1>4, <1>5, <1>6, <1>7, <1>8, Zenon DEF Next, OpStep

-----------------------------------------------------------------------------
(* Logs, snapshots and ReplicateNodes.                                     *)

LEMMA TabBoundsSet ==
    ASSUME tab \in [Tablets -> TabType], TabBounds, NEW e, NEW r, tab' = [tab EXCEPT ![e] = r],
           e \in Tablets => r.term \in BTerms /\ r.log \in Logs
    PROVE  TabBounds'
<1>1. \A t \in Tablets : tab'[t] = IF t = e THEN r ELSE tab[t]
  BY Zenon
<1> QED BY <1>1, Zenon DEF TabBounds

LEMMA DiskBoundsSet ==
    ASSUME disk \in [Tablets -> DiskType], DiskBounds, NEW e, NEW r,
           disk' = [disk EXCEPT ![e] = r],
           e \in Tablets => r.term \in BTerms /\ r.log \in Logs
    PROVE  DiskBounds'
<1>1. \A t \in Tablets : disk'[t] = IF t = e THEN r ELSE disk[t]
  BY Zenon
<1> QED BY <1>1, Zenon DEF DiskBounds

LEMMA NodeBoundsSet ==
    ASSUME node \in [Tablets -> [Tablets -> NodeType]], NodeBounds, NEW l, NEW e, NEW v,
           node' = [node EXCEPT ![l][e] = v], l \in Tablets /\ e \in Tablets => v <= MaxLog
    PROVE  NodeBounds'
<1> SUFFICES ASSUME NEW t \in Tablets, NEW f \in Tablets PROVE node'[t][f] <= MaxLog
  BY Zenon DEF NodeBounds
<1>1. node[t] \in [Tablets -> NodeType] /\ node[t][f] <= MaxLog
  BY Zenon DEF NodeBounds
<1>2. node'[t] = IF t = l THEN [node[l] EXCEPT ![e] = v] ELSE node[t]
  BY Zenon
<1>3. node'[t][f] = IF t = l /\ f = e THEN v ELSE node[t][f]
  BY <1>1, <1>2, Zenon
<1> QED BY <1>1, <1>3, Zenon

LEMMA NodeBoundsClear ==
    ASSUME node \in [Tablets -> [Tablets -> NodeType]], NodeBounds, NEW l, NEW m,
           node' = [node EXCEPT ![l] = m],
           l \in Tablets => \A f \in Tablets : m[f] <= MaxLog
    PROVE  NodeBounds'
<1>1. \A t \in Tablets : node'[t] = IF t = l THEN m ELSE node[t]
  BY Zenon
<1> QED BY <1>1, Zenon DEF NodeBounds

LEMMA NoNodeBound == NoNode <= MaxLog /\ Unmatched <= MaxLog
BY FailoverAssumption DEF NoNode, Unmatched

LEMMA TabletBounds ==
    ASSUME BInv, NEW t \in Tablets, Put(t) \/ MakeSnapshot(t) \/ Crash(t)
    PROVE  TabBounds' /\ DiskBounds' /\ NodeBounds'
<1>1. /\ TabBounds /\ DiskBounds /\ NodeBounds
      /\ tab \in [Tablets -> TabType] /\ disk \in [Tablets -> DiskType]
      /\ node \in [Tablets -> [Tablets -> NodeType]] /\ tab[t] \in TabType
      /\ tab[t].log \in Logs /\ tab[t].term \in BTerms
  BY Zenon DEF BInv, Bounds, LInv, TabTypes, TabBounds
<1>2. CASE Put(t)
  <2>1. PICK x, r : /\ x = Append(tab[t].log, tab[t].term) /\ r = [tab[t] EXCEPT !.log = x]
                    /\ tab' = [tab EXCEPT ![t] = r]
    <3>1. tab' = [tab EXCEPT ![t].log = Append(tab[t].log, tab[t].term)]
      BY <1>2 DEF Put
    <3> QED BY <1>1, <3>1, Zenon
  <2>2. Len(tab[t].log) < MaxLog /\ UNCHANGED <<disk, node>>
    BY <1>2, Zenon DEF Put
  <2>3. x \in Logs
    BY <1>1, <2>1, <2>2, FailoverAssumption DEF Logs
  <2>4. x \in Seq(Nat)
    BY <2>3, LogFacts, LogNat, Zenon
  <2>5. r.log = x /\ r.term = tab[t].term
    BY <1>1, <2>1, <2>4, NewLog
  <2>6. TabBounds'
    BY <1>1, <2>1, <2>3, <2>5, TabBoundsSet, Zenon
  <2> QED BY <1>1, <2>2, <2>6, Zenon DEF DiskBounds, NodeBounds
<1>3. CASE MakeSnapshot(t)
  <2> DEFINE log == tab[t].log
  <2>1. PICK n \in Len(disk[t].log) + 1 .. Len(log) :
           /\ disk' = [disk EXCEPT ![t] = [log |-> SubSeq(log, 1, n), term |-> log[n]]]
           /\ UNCHANGED <<tab, node>>
    BY <1>3, Zenon DEF MakeSnapshot
  <2>2. n \in 1 .. Len(log) /\ Len(log) \in Nat /\ Len(log) <= MaxLog /\ log \in Seq(BTerms)
    <3>1. Len(disk[t].log) \in Nat
      BY <1>1 DEF DiskType
    <3>2. Len(log) \in Nat /\ Len(log) <= MaxLog /\ log \in Seq(BTerms)
      BY <1>1 DEF Logs
    <3> QED BY <3>1, <3>2
  <2> HIDE DEF log
  <2>3. SubSeq(log, 1, n) \in Seq(BTerms) /\ Len(SubSeq(log, 1, n)) = n /\ log[n] \in BTerms
    BY <2>2
  <2>4. SubSeq(log, 1, n) \in Logs
    BY <2>2, <2>3, BoundFacts DEF Logs
  <2>5. PICK r : /\ r = [log |-> SubSeq(log, 1, n), term |-> log[n]]
                 /\ disk' = [disk EXCEPT ![t] = r]
    BY <2>1, Zenon
  <2>6. DiskBounds'
    BY <1>1, <2>3, <2>4, <2>5, DiskBoundsSet, Zenon
  <2> QED BY <1>1, <2>1, <2>6, Zenon DEF TabBounds, NodeBounds
<1>4. CASE Crash(t)
  <2>1. /\ tab' = [tab EXCEPT ![t] = NoTable] /\ disk' = disk
        /\ node' = [node EXCEPT ![t] = [f \in Tablets |-> NoNode]]
    BY <1>4, Zenon DEF Crash, TableGone
  <2>2. NoTable.term \in BTerms /\ NoTable.log \in Logs
    BY BoundFacts, Zenon DEF NoTable
  <2>3. TabBounds'
    BY <1>1, <2>1, <2>2, TabBoundsSet, Zenon
  <2>4. NodeBounds'
    BY <1>1, <2>1, NoNodeBound, NodeBoundsClear, Zenon
  <2> QED BY <1>1, <2>1, <2>3, <2>4, Zenon DEF DiskBounds
<1> QED BY <1>2, <1>3, <1>4

\* What a handler writes was in the request.
LEMMA FinishBounds ==
    ASSUME BInv, NEW c \in calls, Finish(c)
    PROVE  TabBounds'
<1>1. /\ TabBounds /\ tab \in [Tablets -> TabType] /\ c \in Request
  BY Zenon DEF BInv, Bounds, CallBounds, LInv, TabTypes
<1> DEFINE f == c.to
           k == c.index
           e == c.entry
           u == c.term
<1>2. f \in Tablets /\ k \in Offsets /\ e \in BTerms /\ u \in BTerms
  BY <1>1 DEF Request
<1>3. /\ tab[f] \in TabType /\ tab[f].log \in Logs /\ tab[f].term \in BTerms
      /\ u \in Nat /\ k \in Nat /\ k <= MaxLog
  <2>1. k \in Nat /\ k <= MaxLog
    BY <1>2, BoundFacts DEF Offsets
  <2> QED BY <1>1, <1>2, <2>1, BoundFacts, Zenon DEF TabBounds
<1> DEFINE own == tab[f].log
           x == [i \in 1 .. k |->
                   IF i <= Len(own) THEN own[i] ELSE IF i = k THEN e ELSE 0]
<1>4. \/ tab' = tab
      \/ tab' = [tab EXCEPT ![f].term = u]
      \/ tab' = [tab EXCEPT ![f].log = x]
  BY Zenon DEF Finish, Handled
<1>5. x \in Seq(BTerms) /\ Len(x) = k
  <2>1. own \in Seq(BTerms) /\ 0 \in BTerms
    BY <1>3, LogFacts, BoundFacts, Zenon
  <2>2. \A i \in Nat : 1 <= i /\ i <= Len(own) => own[i] \in BTerms
    BY <2>1
  <2> HIDE DEF own, e, k
  <2>3. \A i \in 1 .. k : (IF i <= Len(own) THEN own[i] ELSE IF i = k THEN e ELSE 0) \in BTerms
    BY <1>2, <1>3, <2>1, <2>2
  <2>4. x \in [1 .. k -> BTerms]
    BY <2>3, Zenon
  <2> HIDE DEF x
  <2> QED BY <1>3, <2>4
<1> HIDE DEF x, k, e, u, f
<1>6. CASE tab' = tab
  BY <1>1, <1>6, Zenon DEF TabBounds
<1>7. CASE tab' = [tab EXCEPT ![f].term = u]
  <2>1. PICK r : r = [tab[f] EXCEPT !.term = u] /\ tab' = [tab EXCEPT ![f] = r]
    BY <1>1, <1>2, <1>7, Zenon
  <2>2. r.log = tab[f].log /\ r.term = u
    BY <1>3, <2>1, NewTerm
  <2> QED BY <1>1, <1>2, <1>3, <2>1, <2>2, TabBoundsSet, Zenon
<1>8. CASE tab' = [tab EXCEPT ![f].log = x]
  <2>1. PICK r : r = [tab[f] EXCEPT !.log = x] /\ tab' = [tab EXCEPT ![f] = r]
    BY <1>1, <1>2, <1>8, Zenon
  <2>2. x \in Logs
    BY <1>3, <1>5, Zenon DEF Logs
  <2>3. x \in Seq(Nat)
    BY <1>5, LogNat, Zenon
  <2>4. r.log = x /\ r.term = tab[f].term
    BY <1>3, <2>1, <2>3, NewLog
  <2> QED BY <1>1, <1>3, <2>1, <2>2, <2>4, TabBoundsSet, Zenon
<1> QED BY <1>4, <1>6, <1>7, <1>8, Zenon

LEMMA HandlerBounds ==
    ASSUME BInv, NEW c \in calls, AppendEntries(c) \/ OffsetAnswered(c)
    PROVE  TabBounds' /\ DiskBounds' /\ NodeBounds'
<1>1. /\ Finish(c) /\ UNCHANGED disk
      /\ \/ UNCHANGED node
         \/ \E v \in {c.offset, c.index} : node' = [node EXCEPT ![c.from][c.to] = v]
  BY Zenon DEF AppendEntries, OffsetAnswered
<1>2. /\ DiskBounds /\ NodeBounds /\ node \in [Tablets -> [Tablets -> NodeType]] /\ c \in Request
  BY Zenon DEF BInv, Bounds, CallBounds, LInv, TabTypes
<1>3. TabBounds'
  BY <1>1, FinishBounds
<1>4. \A v \in {c.offset, c.index} : v <= MaxLog
  <2>1. c.offset \in Offsets /\ c.index \in Offsets
    BY <1>2 DEF Request
  <2> QED BY <2>1, BoundFacts DEF Offsets
<1>5. NodeBounds'
  BY <1>1, <1>2, <1>4, NodeBoundsSet, Zenon DEF NodeBounds
<1> QED BY <1>1, <1>2, <1>3, <1>5, Zenon DEF DiskBounds

\* A request that is let through comes from a leader's log or from SelectLeader.
LEMMA CheckedBounds ==
    ASSUME BInv, NEW from \in Tablets \cup {None}, NEW f \in Tablets, NEW term \in BTerms,
           NEW index \in Offsets, NEW entry \in BTerms, Checked(from, f, term, index, entry),
           raced' = raced
    PROVE  CallBounds'
<1> DEFINE c == [from |-> from, to |-> f, term |-> term, index |-> index, entry |-> entry,
                 seen |-> tab[f].term, offset |-> Len(tab[f].log)]
<1>1. calls' = calls \cup {c} /\ CallBounds
  BY Zenon DEF Checked, BInv, Bounds
<1>2. tab[f].term \in BTerms /\ tab[f].log \in Logs
  BY Zenon DEF BInv, Bounds, TabBounds
<1>3. Len(tab[f].log) \in Offsets
  BY <1>2, LogFacts, Zenon
<1>4. c \in Request
  BY <1>2, <1>3, Zenon DEF Request
<1> HIDE DEF c
<1> QED BY <1>1, <1>4, Zenon DEF CallBounds

LEMMA SentBounds ==
    ASSUME BInv, NEW l \in Tablets, NEW f \in Tablets, MatchLogOffset(l, f) \/ SyncData(l, f)
    PROVE  CallBounds'
<1>1. /\ tab[l].term \in BTerms /\ tab[l].log \in Logs /\ node[l][f] \in NodeType
      /\ l \in Tablets \cup {None}
  BY Zenon DEF BInv, Bounds, LInv, TabTypes, TabBounds
<1> DEFINE x == tab[l].term
           log == tab[l].log
<1>2. x \in BTerms /\ raced' = raced
  BY <1>1, Zenon DEF MatchLogOffset, SyncData
<1>3. CASE MatchLogOffset(l, f)
  <2> DEFINE z == 0
  <2>1. Checked(l, f, x, z, z) /\ z \in Offsets /\ z \in BTerms
    BY <1>3, BoundFacts, Zenon DEF MatchLogOffset
  <2> HIDE DEF x, z
  <2> QED BY <1>1, <1>2, <2>1, CheckedBounds, Zenon
<1>4. CASE SyncData(l, f)
  <2> DEFINE k == node[l][f] + 1
             e == log[k]
  <2>1. /\ Checked(l, f, x, k, e) /\ k <= Len(log)
        /\ node[l][f] # Unmatched /\ node[l][f] # NoNode
    BY <1>4, Zenon DEF SyncData, Sends
  <2>2. k \in Nat /\ k >= 1
    BY <1>1, <2>1 DEF NodeType, NoNode, Unmatched
  <2> HIDE DEF k
  <2>3. log \in Seq(BTerms) /\ Len(log) \in Nat /\ Len(log) <= MaxLog
    BY <1>1 DEF Logs
  <2> HIDE DEF log
  <2>4. k \in Offsets /\ e \in BTerms
    BY <2>1, <2>2, <2>3, BoundFacts DEF Offsets
  <2> HIDE DEF e, x
  <2> QED BY <1>1, <1>2, <2>1, <2>4, CheckedBounds, Zenon
<1> QED BY <1>3, <1>4

LEMMA GoneBounds ==
    ASSUME CallBounds, NEW t, TableGone(t)
    PROVE  CallBounds'
<1> SUFFICES ASSUME NEW c \in calls' PROVE c \in Request
  BY Zenon DEF CallBounds, TableGone
<1>1. PICK d \in calls : c = [d EXCEPT !.from = IF @ = t THEN None ELSE @]
  BY DEF TableGone
<1>2. d \in Request
  BY Zenon DEF CallBounds
<1>3. PICK x \in Tablets \cup {None} : c = [d EXCEPT !.from = x]
  BY <1>1, <1>2 DEF Request
<1> QED BY <1>2, <1>3 DEF Request

LEMMA CallStep ==
    ASSUME BInv, [Next]_vars
    PROVE  CallBounds'
<1>1. CallBounds
  BY Zenon DEF BInv, Bounds
<1>2. ASSUME UNCHANGED callVars PROVE CallBounds'
  BY <1>1, <1>2, Zenon DEF CallBounds, callVars
<1>3. ASSUME NEW t \in Tablets, Crash(t) PROVE CallBounds'
  BY <1>1, <1>3, GoneBounds, Zenon DEF Crash
<1>4. ASSUME NEW t \in Tablets,
             \/ Put(t) \/ MakeSnapshot(t) \/ SessionExpires(t) \/ Restart(t) \/ CheckZkClient(t)
             \/ HeartbeatTimeout(t)
             \/ OnTabletOffline(t) \/ OfflineAfterTimeout(t)
             \/ OnTabletOnline(t) \/ OfflineAtStartup(t) \/ RecoverOnline(t)
      PROVE  CallBounds'
  <2>1. UNCHANGED callVars
    BY <1>4, Zenon DEF Put, MakeSnapshot, SessionExpires, Restart, CheckZkClient,
                HeartbeatTimeout, OnTabletOffline, OfflineAfterTimeout, OnTabletOnline,
                OfflineAtStartup, RecoverOnline, tabletVars
  <2> QED BY <1>2, <2>1
<1>5. ASSUME NEW l \in Tablets, NEW f \in Tablets, MatchLogOffset(l, f) \/ SyncData(l, f)
      PROVE  CallBounds'
  BY <1>5, SentBounds
<1>6. ASSUME NEW c \in calls, AppendEntries(c) \/ OffsetAnswered(c) PROVE CallBounds'
  <2>1. Finish(c)
    BY <1>6, Zenon DEF AppendEntries, OffsetAnswered
  <2>2. c.to \in Tablets
    BY <1>1 DEF CallBounds, Request
  <2> QED BY <1>1, <2>1, <2>2, Zenon DEF CallBounds, Finish
<1>7. ASSUME NEW f \in Tablets, FollowOfNoOne(f) PROVE CallBounds'
  <2> DEFINE x == data.term
             z == 0
             from == None
  <2>1. /\ raced' = raced
        /\ Checked(from, f, x, z, z) \/ UNCHANGED calls
    BY <1>7, Zenon DEF FollowOfNoOne
  <2>2. /\ x \in BTerms /\ z \in Offsets /\ z \in BTerms /\ from \in Tablets \cup {None}
    BY BoundFacts, Zenon DEF BInv, Bounds, InfoBounds, DataOK
  <2> HIDE DEF x, z, from
  <2>3. CASE Checked(from, f, x, z, z)
    BY <2>1, <2>2, <2>3, CheckedBounds, Zenon
  <2>4. CASE UNCHANGED calls
    BY <1>2, <2>1, <2>4, Zenon DEF callVars
  <2> QED BY <2>1, <2>3, <2>4
<1>8. CASE DropTable
  <2>1. UNCHANGED callVars \/ TableGone(Current.ep)
    BY <1>8, Zenon DEF DropTable, TabletTask, Call
  <2> QED BY <1>1, <1>2, <2>1, GoneBounds, Zenon
<1>9. CASE \/ DelReplica \/ AddReplica \/ PauseSnapshot \/ RecoverSnapshot \/ SendSnapshot
           \/ LoadTable \/ ChangeLeader \/ Demote
  <2>1. UNCHANGED callVars
    BY <1>9, Zenon DEF DelReplica, AddReplica, PauseSnapshot, RecoverSnapshot, SendSnapshot,
                LoadTable, ChangeLeader, Demote, TabletTask, Call
  <2> QED BY <1>2, <2>1
<1>10. CASE \/ UpdateTablets \/ UNCHANGED vars \/ CallLost \/ UpdatePartitionStatus
            \/ UpdateLeaderInfo \/ SelectLeader \/ GetTermPair \/ ChooseReAdd
  <2>1. UNCHANGED callVars
    BY <1>10, Zenon DEF UpdateTablets, CallLost, UpdatePartitionStatus, UpdateLeaderInfo,
                SelectLeader, GetTermPair, ChooseReAdd, vars, tabletVars
  <2> QED BY <1>2, <2>1
<1> QED BY <1>3, <1>4, <1>5, <1>6, <1>7, <1>8, <1>9, <1>10, Zenon DEF Next, OpStep

LEMMA NodeTaskBounds ==
    ASSUME BInv, DelReplica \/ AddReplica
    PROVE  TabBounds' /\ DiskBounds' /\ NodeBounds'
<1> DEFINE l == Current.at
           e == Current.ep
<1>1. /\ UNCHANGED <<tab, disk>>
      /\ \/ UNCHANGED node
         \/ node' = [node EXCEPT ![l][e] = NoNode]
         \/ node' = [node EXCEPT ![l][e] = IF @ = NoNode THEN Unmatched ELSE @]
  BY Zenon DEF DelReplica, AddReplica, TabletTask, Call
<1>2. /\ TabBounds /\ DiskBounds /\ NodeBounds /\ node \in [Tablets -> [Tablets -> NodeType]]
  BY Zenon DEF BInv, Bounds, LInv, TabTypes
<1> HIDE DEF l, e
<1>3. CASE UNCHANGED node
  BY <1>1, <1>2, <1>3, Zenon DEF TabBounds, DiskBounds, NodeBounds
<1>4. CASE \/ node' = [node EXCEPT ![l][e] = NoNode]
           \/ node' = [node EXCEPT ![l][e] = IF @ = NoNode THEN Unmatched ELSE @]
  <2>1. PICK v : /\ v \in {NoNode, Unmatched, node[l][e]}
                 /\ node' = [node EXCEPT ![l][e] = v]
    BY <1>4, Zenon
  <2>2. l \in Tablets /\ e \in Tablets => v <= MaxLog
    BY <1>2, <2>1, NoNodeBound, Zenon DEF NodeBounds
  <2>3. NodeBounds'
    BY <1>2, <2>1, <2>2, NodeBoundsSet, Zenon
  <2> QED BY <1>1, <1>2, <2>3, Zenon DEF TabBounds, DiskBounds
<1> QED BY <1>1, <1>3, <1>4

LEMMA SnapshotTaskBounds ==
    ASSUME BInv, PauseSnapshot \/ RecoverSnapshot
    PROVE  TabBounds' /\ DiskBounds' /\ NodeBounds'
<1> DEFINE l == Current.at
<1>1. /\ UNCHANGED <<disk, node>>
      /\ UNCHANGED tab \/ \E x \in BOOLEAN : tab' = [tab EXCEPT ![l].paused = x]
  BY Zenon DEF PauseSnapshot, RecoverSnapshot, TabletTask, Call
<1>2. TabBounds /\ DiskBounds /\ NodeBounds /\ tab \in [Tablets -> TabType]
  BY Zenon DEF BInv, Bounds, LInv, TabTypes
<1> HIDE DEF l
<1>3. ASSUME NEW x \in BOOLEAN, tab' = [tab EXCEPT ![l].paused = x] PROVE TabBounds'
  <2>1. PICK r : r = [tab[l] EXCEPT !.paused = x] /\ tab' = [tab EXCEPT ![l] = r]
    BY <1>3, Zenon
  <2>2. l \in Tablets => r.log = tab[l].log /\ r.term = tab[l].term
    BY <1>2, <2>1, NewPaused, Zenon
  <2> QED BY <1>2, <2>1, <2>2, TabBoundsSet, Zenon DEF TabBounds
<1> QED BY <1>1, <1>2, <1>3, Zenon DEF TabBounds, DiskBounds, NodeBounds

LEMMA SendSnapshotBounds ==
    ASSUME BInv, SendSnapshot
    PROVE  TabBounds' /\ DiskBounds' /\ NodeBounds'
<1> DEFINE l == Current.at
           e == Current.ep
<1>1. /\ Running("SendSnapshot") /\ UNCHANGED <<tab, node>>
      /\ UNCHANGED disk \/ disk' = [disk EXCEPT ![e] = disk[l]]
  BY Zenon DEF SendSnapshot, TabletTask, Call
<1>2. TabBounds /\ DiskBounds /\ NodeBounds /\ disk \in [Tablets -> DiskType]
  BY Zenon DEF BInv, Bounds, LInv, TabTypes
<1>3. l \in Tablets
  <2>1. Head(ops) \in GoodOps /\ ops # <<>>
    BY <1>1, HeadKind, Zenon DEF BInv, LInv, EInv, Running
  <2>2. Head(Head(ops).tasks) \in PlainTask
    BY <1>1, <2>1, FirstTask, Zenon DEF Running, GoodOps
  <2> QED BY <1>1, <2>2, Zenon DEF PlainTask, Current, Running
<1> HIDE DEF l, e
<1>4. DiskBounds'
  <2>1. disk[l].term \in BTerms /\ disk[l].log \in Logs
    BY <1>2, <1>3, Zenon DEF DiskBounds
  <2>2. ASSUME disk' = [disk EXCEPT ![e] = disk[l]] PROVE DiskBounds'
    BY <1>2, <2>1, <2>2, DiskBoundsSet, Zenon
  <2> QED BY <1>1, <1>2, <2>2, Zenon DEF DiskBounds
<1> QED BY <1>1, <1>2, <1>4, Zenon DEF TabBounds, NodeBounds

LEMMA TableTaskBounds ==
    ASSUME BInv, DropTable \/ LoadTable
    PROVE  TabBounds' /\ DiskBounds' /\ NodeBounds'
<1> DEFINE e == Current.ep
           r == [NoTable EXCEPT !.table = TRUE, !.log = disk[e].log]
<1>1. /\ UNCHANGED tab \/ tab' = [tab EXCEPT ![e] = NoTable] \/ tab' = [tab EXCEPT ![e] = r]
      /\ UNCHANGED disk \/ disk' = [disk EXCEPT ![e] = Empty]
      /\ UNCHANGED node \/ node' = [node EXCEPT ![e] = [f \in Tablets |-> NoNode]]
  BY Zenon DEF DropTable, LoadTable, TabletTask, Call, TableGone
<1>2. /\ TabBounds /\ DiskBounds /\ NodeBounds
      /\ tab \in [Tablets -> TabType] /\ disk \in [Tablets -> DiskType]
      /\ node \in [Tablets -> [Tablets -> NodeType]]
  BY Zenon DEF BInv, Bounds, LInv, TabTypes
<1>3. r = [table |-> TRUE, leader |-> FALSE, term |-> 0, log |-> disk[e].log, paused |-> FALSE]
  BY LoadedFact, Zenon
<1> HIDE DEF r
<1>4. r.term = 0 /\ r.log = disk[e].log
  BY <1>3, Zenon
<1> HIDE DEF e
<1>5. /\ e \in Tablets => r.term \in BTerms /\ r.log \in Logs
      /\ NoTable.term \in BTerms /\ NoTable.log \in Logs
      /\ Empty.term \in BTerms /\ Empty.log \in Logs
  BY <1>2, <1>4, BoundFacts, Zenon DEF DiskBounds, NoTable, Empty
<1>6. TabBounds'
  <2>1. ASSUME tab' = [tab EXCEPT ![e] = NoTable] PROVE TabBounds'
    BY <1>2, <1>5, <2>1, TabBoundsSet, Zenon
  <2>2. ASSUME tab' = [tab EXCEPT ![e] = r] PROVE TabBounds'
    BY <1>2, <1>5, <2>2, TabBoundsSet, Zenon
  <2> QED BY <1>1, <1>2, <2>1, <2>2, Zenon DEF TabBounds
<1>7. DiskBounds'
  <2>1. ASSUME disk' = [disk EXCEPT ![e] = Empty] PROVE DiskBounds'
    BY <1>2, <1>5, <2>1, DiskBoundsSet, Zenon
  <2> QED BY <1>1, <1>2, <2>1, Zenon DEF DiskBounds
<1>8. NodeBounds'
  <2>1. ASSUME node' = [node EXCEPT ![e] = [f \in Tablets |-> NoNode]] PROVE NodeBounds'
    BY <1>2, <2>1, NoNodeBound, NodeBoundsClear, Zenon
  <2> QED BY <1>1, <1>2, <2>1, Zenon DEF NodeBounds
<1> QED BY <1>6, <1>7, <1>8

LEMMA ChangeBounds ==
    ASSUME BInv, ChangeLeader
    PROVE  TabBounds' /\ DiskBounds' /\ NodeBounds'
<1> DEFINE l == data.leader
           x == data.term
           np == [f \in Tablets |->
                    IF f \in Followers \ {l} /\ node[l][f] = NoNode THEN Unmatched ELSE node[l][f]]
<1>1. /\ TabBounds /\ DiskBounds /\ NodeBounds /\ tab \in [Tablets -> TabType]
      /\ node \in [Tablets -> [Tablets -> NodeType]] /\ x \in BTerms
  BY Zenon DEF BInv, Bounds, InfoBounds, DataOK, LInv, TabTypes
<1>2. l \in Tablets
  <2>1. Running("ChangeLeader") /\ ops # <<>>
    BY Zenon DEF ChangeLeader, TabletTask, Running
  <2>2. l \in Followers /\ Followers \subseteq Tablets
    BY <2>1, QueueHead, Zenon DEF BInv, LInv, Phases, Chosen
  <2> QED BY <2>2, Zenon
<1>3. \/ UNCHANGED <<tab, disk, node>>
      \/ /\ tab' = [tab EXCEPT ![l].leader = TRUE, ![l].term = x]
         /\ node' = [node EXCEPT ![l] = [f \in Tablets |->
                       IF f \in Followers \ {l} /\ @[f] = NoNode THEN Unmatched ELSE @[f]]]
         /\ disk' = disk
  BY Zenon DEF ChangeLeader, TabletTask, Call
<1>4. CASE UNCHANGED <<tab, disk, node>>
  BY <1>1, <1>4, Zenon DEF TabBounds, DiskBounds, NodeBounds
<1>5. CASE /\ tab' = [tab EXCEPT ![l].leader = TRUE, ![l].term = x]
           /\ node' = [node EXCEPT ![l] = [f \in Tablets |->
                         IF f \in Followers \ {l} /\ @[f] = NoNode THEN Unmatched ELSE @[f]]]
           /\ disk' = disk
  <2>1. tab[l] \in TabType /\ tab[l].log \in Logs /\ x \in Nat
    BY <1>1, <1>2, BoundFacts, Zenon DEF TabBounds
  <2>2. PICK p, r : p = [tab[l] EXCEPT !.leader = TRUE] /\ r = [p EXCEPT !.term = x]
    BY Zenon
  <2>3. tab' = [tab EXCEPT ![l] = r]
    BY <1>1, <1>2, <1>5, <2>1, <2>2, Zenon
  <2>4. p \in TabType /\ p.log = tab[l].log
    <3>1. PICK y \in BOOLEAN : p = [tab[l] EXCEPT !.leader = y]
      BY <2>2, Zenon
    <3> QED BY <2>1, <3>1, NewLeader
  <2>5. r.log = tab[l].log /\ r.term = x
    <3>1. r = [p EXCEPT !.term = x]
      BY <2>2, Zenon
    <3> HIDE DEF x
    <3> QED BY <2>1, <2>4, <3>1, NewTerm
  <2>6. TabBounds'
    BY <1>1, <2>1, <2>3, <2>5, TabBoundsSet, Zenon
  <2>7. node' = [node EXCEPT ![l] = np]
    BY <1>5
  <2>8. \A f \in Tablets : np[f] <= MaxLog
    BY <1>1, <1>2, NoNodeBound, Zenon DEF NodeBounds
  <2> HIDE DEF np
  <2>9. NodeBounds'
    BY <1>1, <2>7, <2>8, NodeBoundsClear, Zenon
  <2> QED BY <1>1, <1>5, <2>6, <2>9, Zenon DEF DiskBounds
<1> QED BY <1>3, <1>4, <1>5

LEMMA DemoteTabBounds ==
    ASSUME BInv, Demote
    PROVE  TabBounds' /\ DiskBounds' /\ NodeBounds'
<1> DEFINE e == Current.ep
<1>1. /\ UNCHANGED disk
      /\ \/ UNCHANGED <<tab, node>>
         \/ /\ tab' = [tab EXCEPT ![e].leader = FALSE]
            /\ node' = [node EXCEPT ![e] = [f \in Tablets |-> NoNode]]
  BY Zenon DEF Demote
<1>2. /\ TabBounds /\ DiskBounds /\ NodeBounds /\ tab \in [Tablets -> TabType]
      /\ node \in [Tablets -> [Tablets -> NodeType]]
  BY Zenon DEF BInv, Bounds, LInv, TabTypes
<1> HIDE DEF e
<1>3. ASSUME tab' = [tab EXCEPT ![e].leader = FALSE] PROVE TabBounds'
  <2>1. PICK y \in BOOLEAN : y = FALSE
    BY Zenon
  <2>2. PICK r : r = [tab[e] EXCEPT !.leader = y] /\ tab' = [tab EXCEPT ![e] = r]
    BY <1>3, <2>1, Zenon
  <2>3. e \in Tablets => r.log = tab[e].log /\ r.term = tab[e].term
    BY <1>2, <2>2, NewLeader
  <2> QED BY <1>2, <2>2, <2>3, TabBoundsSet, Zenon DEF TabBounds
<1>4. ASSUME node' = [node EXCEPT ![e] = [f \in Tablets |-> NoNode]] PROVE NodeBounds'
  BY <1>2, <1>4, NoNodeBound, NodeBoundsClear, Zenon
<1> QED BY <1>1, <1>2, <1>3, <1>4, Zenon DEF TabBounds, DiskBounds, NodeBounds

-----------------------------------------------------------------------------
(* The types hold.                                                         *)

LEMMA BoundsStep ==
    ASSUME BInv, [Next]_vars
    PROVE  TabBounds' /\ DiskBounds' /\ NodeBounds'
<1>1. ASSUME UNCHANGED <<tab, disk, node>> PROVE TabBounds' /\ DiskBounds' /\ NodeBounds'
  BY <1>1, Zenon DEF BInv, Bounds, TabBounds, DiskBounds, NodeBounds
<1>2. ASSUME NEW t \in Tablets, Put(t) \/ MakeSnapshot(t) \/ Crash(t)
      PROVE  TabBounds' /\ DiskBounds' /\ NodeBounds'
  BY <1>2, TabletBounds, Zenon
<1>3. ASSUME NEW t \in Tablets,
             \/ SessionExpires(t) \/ Restart(t) \/ CheckZkClient(t) \/ HeartbeatTimeout(t)
             \/ OnTabletOffline(t) \/ OfflineAfterTimeout(t)
             \/ OnTabletOnline(t) \/ OfflineAtStartup(t) \/ RecoverOnline(t)
      PROVE  TabBounds' /\ DiskBounds' /\ NodeBounds'
  <2>1. UNCHANGED <<tab, disk, node>>
    BY <1>3, Zenon DEF SessionExpires, Restart, CheckZkClient, HeartbeatTimeout,
                OnTabletOffline, OfflineAfterTimeout, OnTabletOnline, OfflineAtStartup,
                RecoverOnline, tabletVars
  <2> QED BY <1>1, <2>1
<1>4. ASSUME NEW c \in calls, AppendEntries(c) \/ OffsetAnswered(c)
      PROVE  TabBounds' /\ DiskBounds' /\ NodeBounds'
  BY <1>4, HandlerBounds, Zenon
<1>5. ASSUME \/ UpdateTablets \/ UNCHANGED vars \/ CallLost \/ UpdatePartitionStatus
             \/ UpdateLeaderInfo \/ SelectLeader \/ GetTermPair \/ ChooseReAdd
      PROVE  TabBounds' /\ DiskBounds' /\ NodeBounds'
  <2>1. UNCHANGED <<tab, disk, node>>
    BY <1>5, Zenon DEF UpdateTablets, CallLost, UpdatePartitionStatus, UpdateLeaderInfo,
                SelectLeader, GetTermPair, ChooseReAdd, vars, tabletVars
  <2> QED BY <1>1, <2>1
<1>6. ASSUME \/ \E f \in Tablets : FollowOfNoOne(f)
             \/ \E l, f \in Tablets : MatchLogOffset(l, f) \/ SyncData(l, f)
      PROVE  TabBounds' /\ DiskBounds' /\ NodeBounds'
  <2>1. UNCHANGED <<tab, disk, node>>
    BY <1>6, Zenon DEF FollowOfNoOne, MatchLogOffset, SyncData
  <2> QED BY <1>1, <2>1
<1>7. CASE \/ DelReplica \/ AddReplica \/ PauseSnapshot \/ RecoverSnapshot \/ SendSnapshot
           \/ DropTable \/ LoadTable \/ ChangeLeader \/ Demote
  BY <1>7, NodeTaskBounds, SnapshotTaskBounds, SendSnapshotBounds, TableTaskBounds,
     ChangeBounds, DemoteTabBounds, Zenon
<1> QED BY <1>2, <1>3, <1>4, <1>5, <1>6, <1>7, Zenon DEF Next, OpStep

LEMMA NextBInv == BInv /\ [Next]_vars => BInv'
<1> SUFFICES ASSUME BInv, [Next]_vars PROVE BInv'
  OBVIOUS
<1>1. LInv'
  BY NextLInv, Zenon DEF BInv
<1>2. Queue' /\ Watched' /\ MetaOK'
  BY QueueStep, WatchedStep, MetaStep, Zenon DEF BInv
<1>3. InfoBounds'
  BY InfoStep
<1>4. TabBounds' /\ DiskBounds' /\ NodeBounds' /\ CallBounds'
  BY BoundsStep, CallStep
<1> QED BY <1>1, <1>2, <1>3, <1>4, Zenon DEF BInv, Bounds

LEMMA InitBInv == Init => BInv
<1> SUFFICES ASSUME Init PROVE BInv
  OBVIOUS
<1> DEFINE start == [i \in 1 .. Saved |-> 1]
<1>1. 1 \in BTerms /\ 0 \in BTerms /\ Saved <= MaxLog /\ Saved \in Nat /\ <<>> \in Logs
  BY FailoverAssumption, BoundFacts DEF BTerms
<1>2. start \in Logs
  <2>1. start \in [1 .. Saved -> BTerms]
    BY <1>1
  <2> HIDE DEF start
  <2>2. start \in Seq(BTerms) /\ Len(start) = Saved
    BY <1>1, <2>1
  <2> QED BY <1>1, <2>2, Zenon DEF Logs
<1>3. /\ tab = [t \in Tablets |->
                  [table |-> TRUE, leader |-> t = First,
                   term |-> IF t = First \/ Saved > 0 THEN 1 ELSE 0,
                   log |-> start, paused |-> FALSE]]
      /\ disk = [t \in Tablets |-> IF Saved = 0 THEN Empty ELSE [log |-> start, term |-> 1]]
      /\ node = [t \in Tablets |-> [f \in Tablets |->
                   IF t = First /\ f # First
                   THEN IF Saved = 0 THEN Unmatched ELSE Saved ELSE NoNode]]
      /\ ops = <<>> /\ data = NoData /\ term_ = 1 /\ term_offset = <<[term |-> 1, offset |-> 0]>>
      /\ meta = [t \in Tablets |-> [leader |-> t = First, alive |-> TRUE]]
      /\ calls = {} /\ raced = {} /\ faults = 0
  BY Zenon DEF Init
<1> HIDE DEF start
<1>4. TabBounds
  BY <1>1, <1>2, <1>3, Zenon DEF TabBounds
<1>5. DiskBounds
  BY <1>1, <1>2, <1>3, Zenon DEF DiskBounds, Empty
<1>6. NodeBounds
  BY <1>1, <1>3, NoNodeBound, Zenon DEF NodeBounds
<1>11. CallBounds
  BY <1>3, Zenon DEF CallBounds
<1>7. InfoBounds
  <2>1. [term |-> 1, offset |-> 0] \in StartType
    BY <1>1, FailoverAssumption DEF StartType
  <2>2. term_offset \in Seq(StartType)
    BY <1>3, <2>1
  <2> QED BY <1>1, <1>3, <2>2, NoDataOK, Zenon DEF InfoBounds
<1>8. Queue
  BY <1>3, EmptySeq, FailoverAssumption DEF Queue
<1>9. MetaOK
  BY <1>3, Zenon DEF MetaOK, MetaType
<1>10. Watched
  <2>1. faults \in 0 .. MaxFaults
    BY <1>3, FailoverAssumption
  <2> QED BY <2>1, Zenon DEF Init, Watched
<1> QED BY <1>4, <1>5, <1>6, <1>7, <1>8, <1>9, <1>10, <1>11, InitLInv, ZenonT(60) DEF BInv, Bounds

LEMMA TypesOfBounds == BInv => TypeOK
<1> SUFFICES ASSUME BInv PROVE TypeOK
  OBVIOUS
<1>1. BTerms \subseteq Terms
  BY FailoverAssumption DEF BTerms, Terms
<1>2. \A s \in Logs : s \in Seq(Terms) /\ Len(s) <= MaxLog
  BY <1>1 DEF Logs
<1>3. \A t \in Tablets : /\ tab[t].table \in BOOLEAN /\ tab[t].leader \in BOOLEAN
                         /\ tab[t].paused \in BOOLEAN
                         /\ meta[t].leader \in BOOLEAN /\ meta[t].alive \in BOOLEAN
  <2>1. \A t \in Tablets : tab[t] \in TabType /\ meta[t] \in MetaType
    BY Zenon DEF BInv, LInv, TabTypes, MetaOK
  <2> QED BY <2>1 DEF TabType, MetaType
<1>4. \A t, f \in Tablets : node[t][f] \in {NoNode, Unmatched} \cup Offsets
  <2>1. \A t, f \in Tablets : node[t][f] \in NodeType /\ node[t][f] <= MaxLog
    BY Zenon DEF BInv, LInv, TabTypes, Bounds, NodeBounds
  <2> QED BY <2>1, FailoverAssumption DEF NodeType, NoNode, Unmatched, Offsets
<1>5. \A t \in Tablets :
         /\ tab[t].term \in Terms /\ tab[t].log \in Seq(Terms) /\ Len(tab[t].log) <= MaxLog
         /\ disk[t].term \in Terms /\ disk[t].log \in Seq(Terms) /\ Len(disk[t].log) <= MaxLog
  BY <1>1, <1>2, Zenon DEF BInv, Bounds, TabBounds, DiskBounds
<1>6. \A i \in DOMAIN term_offset :
         term_offset[i].term \in Terms /\ term_offset[i].offset \in 0 .. MaxLog + 1
  <2>1. \A i \in DOMAIN term_offset : term_offset[i] \in StartType
    BY DEF BInv, Bounds, InfoBounds
  <2> QED BY <1>1, <2>1 DEF StartType
<1>7. /\ Len(ops) <= MaxOps + 1
      /\ \A i \in DOMAIN ops :
            ops[i].followers \subseteq Tablets /\ ops[i].tasks \in Seq(Task) \ {<<>>}
  <2>1. ops \in Seq(QueueOps) /\ Len(ops) <= MaxOps
    BY Zenon DEF BInv, Queue
  <2>2. Len(ops) <= MaxOps + 1 /\ \A i \in DOMAIN ops : ops[i] \in QueueOps
    BY <2>1, FailoverAssumption
  <2>3. \A o \in QueueOps : o.followers \subseteq Tablets /\ o.tasks \in Seq(Task) \ {<<>>}
    BY DEF QueueOps, LastRecovers
  <2> QED BY <2>2, <2>3, Zenon
<1>8. DataOK(data) /\ data.term \in Terms /\ term_ \in Terms
  BY <1>1, Zenon DEF BInv, Bounds, InfoBounds, DataOK
<1>9. calls \subseteq Handler /\ raced \subseteq Tablets
  <2>1. Request \subseteq Handler
    BY <1>1, Zenon DEF Request, Handler
  <2> QED BY <2>1, Zenon DEF BInv, Bounds, CallBounds
<1> QED BY <1>3, <1>4, <1>5, <1>6, <1>7, <1>8, <1>9, ZenonT(60) DEF TypeOK, BInv, Watched, DataOK

\* Every term is one that elections can have handed out, logs stay within their
\* bound, and the queue of the partition does not grow past MaxOps although a
\* task adds an operation without asking: RecoverTable is always the last task of
\* its operation, which leaves the queue as the new one comes in.
THEOREM TypeCorrect == Spec => []TypeOK
BY InitBInv, NextBInv, TypesOfBounds, PTL DEF Spec
=============================================================================
