--------------------------- MODULE DistLockProofs ---------------------------
(***************************************************************************)
(* A name server that leads by its own lock request holds the first of all *)
(* requests, for any number of servers, faults and requests.  The argument *)
(* is that a request that was once read as the first child stays the first *)
(* for as long as it exists: later requests get larger sequence numbers,   *)
(* and the end of a session only takes requests away.  So it does not      *)
(* matter how old the list of children is that a thread works on.          *)
(*                                                                         *)
(* And a connected server that holds the lock serves as primary: a server  *)
(* that stopped serving without losing the lock was disconnected, unless   *)
(* its client connected just before OnLostLock, and the session term after *)
(* the reconnection makes it ask for the lock again.                       *)
(***************************************************************************)
EXTENDS DistLock, TLAPS, WellFoundedInduction

\* A step that names no prover has a minute for each.
USE SMTT(60), ZenonT(60)

\* Number q was given out, and if its request still exists, it is the first.
StillFirst(q) ==
    /\ q < next_seq
    /\ (\E n \in nodes : n.seq = q) => \A m \in nodes : q <= m.seq

FirstType == [Servers -> [Threads -> LockNodes \cup {NoNode}]]

FInv ==
    /\ next_seq \in Nat \ {0}
    /\ sid \in [Servers -> Nat]
    /\ nodes \subseteq LockNodes
    /\ \A n \in nodes : n.seq < next_seq
    /\ first \in FirstType
    /\ current_lock_node \in [Servers -> Nat]
    /\ \A s \in Servers : StillFirst(current_lock_node[s])
    /\ \A s \in Servers, t \in Threads : StillFirst(first[s][t].seq)

-----------------------------------------------------------------------------
LEMMA SmallestNumber ==
    ASSUME NEW T, T \subseteq Nat, T # {}
    PROVE  \E x \in T : \A y \in T : x <= y
<1>1. PICK x \in T : \A y \in T : ~ (<<y, x>> \in OpToRel(<, Nat))
  BY NatLessThanWellFounded, WFMin, Zenon
<1>2. \A y \in T : ~ (y < x)
  BY <1>1, Zenon DEF OpToRel
<1> QED BY <1>2

\* FirstOf returns the request with the smallest number.
LEMMA FirstOfFact ==
    ASSUME NEW ns, ns \subseteq LockNodes, ns # {}
    PROVE  FirstOf(ns) \in ns /\ \A m \in ns : FirstOf(ns).seq <= m.seq
<1> DEFINE T == {n.seq : n \in ns}
<1>1. T \subseteq Nat /\ T # {}
  BY DEF LockNodes
<1>2. PICK x \in T : \A y \in T : x <= y
  BY <1>1, SmallestNumber, Zenon
<1>3. \E n \in ns : \A m \in ns : n.seq <= m.seq
  BY <1>2
<1> QED BY <1>3 DEF FirstOf

\* What a thread reads is the first request now.
LEMMA ReadFact ==
    ASSUME FInv
    PROVE  FirstOf(nodes) \in LockNodes \cup {NoNode} /\ StillFirst(FirstOf(nodes).seq)
<1>1. CASE nodes = {}
  BY <1>1 DEF FInv, FirstOf, NoNode, StillFirst
<1>2. CASE nodes # {}
  BY <1>2, FirstOfFact DEF FInv, StillFirst
<1> QED BY <1>1, <1>2

\* Requests that go away leave the first one first.
LEMMA FewerNodes ==
    ASSUME FInv, nodes' \subseteq nodes, sid' \in [Servers -> Nat],
           UNCHANGED <<next_seq, first, current_lock_node>>
    PROVE  FInv'
<1>1. ASSUME NEW q, StillFirst(q) PROVE StillFirst(q)'
  BY <1>1 DEF StillFirst
<1> QED BY <1>1 DEF FInv

\* A new request has the largest number.
LEMMA NewNode ==
    ASSUME FInv, NEW s \in Servers,
           nodes' = nodes \cup {[seq |-> next_seq, value |-> s, session |-> sid[s]]},
           next_seq' = next_seq + 1,
           UNCHANGED <<sid, first, current_lock_node>>
    PROVE  FInv'
<1> DEFINE new == [seq |-> next_seq, value |-> s, session |-> sid[s]]
<1>1. new \in LockNodes /\ new.seq = next_seq
  BY DEF FInv, LockNodes
<1>2. nodes' \subseteq LockNodes /\ \A n \in nodes' : n.seq < next_seq'
  BY <1>1 DEF FInv, LockNodes
<1>3. ASSUME NEW q \in Nat, StillFirst(q) PROVE StillFirst(q)'
  <2>1. q < next_seq /\ q < next_seq'
    BY <1>3 DEF FInv, StillFirst
  <2>2. ASSUME NEW n \in nodes', n.seq = q PROVE \A m \in nodes' : q <= m.seq
    <3>1. n \in nodes
      BY <1>1, <2>1, <2>2 DEF FInv
    <3> QED BY <1>1, <1>3, <2>1, <2>2, <3>1 DEF FInv, StillFirst
  <2> QED BY <2>1, <2>2 DEF StillFirst
<1>4. \A u \in Servers, t \in Threads : first[u][t].seq \in Nat
  BY DEF FInv, FirstType, LockNodes, NoNode
<1>5. next_seq' \in Nat \ {0} /\ first' \in FirstType /\ sid' \in [Servers -> Nat]
      /\ current_lock_node' \in [Servers -> Nat]
  BY DEF FInv
<1>6. \A u \in Servers : StillFirst(current_lock_node[u])'
  BY <1>3 DEF FInv
<1>7. \A u \in Servers, t \in Threads : StillFirst(first[u][t].seq)'
  BY <1>3, <1>4 DEF FInv
<1> QED BY <1>2, <1>5, <1>6, <1>7 DEF FInv

\* A thread reads the children.
LEMMA ReadStep ==
    ASSUME FInv, NEW s \in Servers, NEW t \in Threads,
           first' = [first EXCEPT ![s][t] = FirstOf(nodes)],
           UNCHANGED <<nodes, next_seq, sid, current_lock_node>>
    PROVE  FInv'
<1>1. first' = [first EXCEPT ![s] = [first[s] EXCEPT ![t] = FirstOf(nodes)]]
  OBVIOUS
<1>2. first[s] \in [Threads -> LockNodes \cup {NoNode}]
  BY DEF FInv, FirstType
<1>3. [first[s] EXCEPT ![t] = FirstOf(nodes)] \in [Threads -> LockNodes \cup {NoNode}]
  BY <1>2, ReadFact
<1>4. first' \in FirstType
  BY <1>1, <1>3 DEF FInv, FirstType
<1>5. \A u \in Servers, v \in Threads : first'[u][v] \in {first[u][v], FirstOf(nodes)}
  BY <1>1, <1>2 DEF FInv, FirstType
<1>6. \A q : StillFirst(q) => StillFirst(q)'
  BY DEF StillFirst
<1>7. \A u \in Servers, v \in Threads : StillFirst(first'[u][v].seq)
  BY <1>5, ReadFact DEF FInv
<1> QED BY <1>4, <1>6, <1>7, Zenon DEF FInv, StillFirst

\* HandleChildrenChanged remembers what its thread read, however long ago.
LEMMA HandleStep ==
    ASSUME FInv, NEW s \in Servers, NEW t \in Threads,
           HandleChildrenChanged(s, t),
           UNCHANGED <<nodes, next_seq, sid, first>>
    PROVE  FInv'
<1>1. current_lock_node' = [current_lock_node EXCEPT ![s] = first[s][t].seq]
  BY DEF HandleChildrenChanged
<1>2. first[s][t].seq \in Nat
  BY DEF FInv, FirstType, LockNodes, NoNode
<1>3. /\ current_lock_node' \in [Servers -> Nat]
      /\ \A u \in Servers : current_lock_node'[u] \in {current_lock_node[u], first[s][t].seq}
  BY <1>1, <1>2 DEF FInv
<1>4. \A u \in Servers : StillFirst(current_lock_node'[u])
  BY <1>3 DEF FInv
<1> QED BY <1>3, <1>4 DEF FInv, StillFirst

\* The end of a session takes requests away.
LEMMA EndSessionFact ==
    ASSUME NEW s, NEW k, EndSession(s, k)
    PROVE  nodes' \subseteq nodes
BY DEF EndSession

LEMMA CloseHandleFact ==
    ASSUME NEW s, CloseHandle(s)
    PROVE  nodes' \subseteq nodes
<1>1. EndSession(s, sid[s]) \/ UNCHANGED nodes
  BY Zenon DEF CloseHandle
<1> QED BY <1>1, EndSessionFact

\* A new process remembers nothing.
LEMMA CrashStep ==
    ASSUME FInv, NEW s \in Servers, Crash(s)
    PROVE  FInv'
<1>1. /\ current_lock_node' = [current_lock_node EXCEPT ![s] = 0]
      /\ first' = [first EXCEPT ![s] = [t \in Threads |-> NoNode]]
      /\ UNCHANGED <<nodes, next_seq, sid>>
  BY DEF Crash
<1>2. StillFirst(0)
  BY DEF FInv, StillFirst, LockNodes
<1>3. /\ current_lock_node' \in [Servers -> Nat]
      /\ \A u \in Servers : current_lock_node'[u] \in {current_lock_node[u], 0}
  BY <1>1 DEF FInv
<1>4. /\ first' \in FirstType
      /\ \A u \in Servers, t \in Threads : first'[u][t] \in {first[u][t], NoNode}
  BY <1>1 DEF FInv, FirstType
<1>5. \A u \in Servers : StillFirst(current_lock_node'[u])
  BY <1>2, <1>3 DEF FInv
<1>6. \A u \in Servers, t \in Threads : StillFirst(first'[u][t].seq)
  BY <1>2, <1>4 DEF FInv, NoNode
<1> QED BY <1>1, <1>3, <1>4, <1>5, <1>6 DEF FInv, StillFirst

-----------------------------------------------------------------------------
\* One step per action, by what it does to the requests and to what the
\* threads remember of them.
LEMMA ServerStep ==
    ASSUME FInv, NEW s \in Servers,
           \/ LockRequest(s) \/ LockRead(s) \/ LockHandle(s)
           \/ EventRead(s) \/ EventHandle(s)
           \/ \E t \in Threads : OnLocked(s, t) \/ WatchChildren(s, t)
           \/ Disconnect(s) \/ Expire(s) \/ Lapse(s) \/ LogEvent(s)
           \/ CheckZkClient(s) \/ OnLostLock(s) \/ CheckZkClientReconnect(s)
           \/ ConnectZK(s) \/ DisConnectZK(s)
           \/ Crash(s) \/ Restart(s)
    PROVE  FInv'
<1> DEFINE Seen == <<nodes, next_seq, sid, first, current_lock_node>>
<1>1. sid \in [Servers -> Nat] /\ "lock" \in Threads /\ "event" \in Threads
  BY DEF FInv, Threads
<1>2. ASSUME UNCHANGED Seen PROVE FInv'
  BY <1>1, <1>2, FewerNodes
<1>3. CASE LockRequest(s)
  <2>1. UNCHANGED <<sid, first, current_lock_node>>
    BY <1>3, Zenon DEF LockRequest
  <2>2. CASE Usable(s)
    BY <1>3, <2>1, <2>2, NewNode, Zenon DEF LockRequest
  <2>3. CASE ~Usable(s)
    BY <1>2, <1>3, <2>1, <2>3, Zenon DEF LockRequest
  <2> QED BY <2>2, <2>3
<1>4. CASE LockRead(s)
  <2>1. UNCHANGED <<nodes, next_seq, sid, current_lock_node>>
    BY <1>4 DEF LockRead, zkVars
  <2>2. CASE Usable(s)
    BY <1>1, <1>4, <2>1, <2>2, ReadStep DEF LockRead
  <2>3. CASE ~Usable(s)
    BY <1>2, <1>4, <2>1, <2>3 DEF LockRead
  <2> QED BY <2>2, <2>3
<1>5. CASE LockHandle(s) \/ EventHandle(s)
  BY <1>1, <1>5, HandleStep, Zenon DEF LockHandle, EventHandle, zkVars
<1>6. CASE EventRead(s)
  <2>1. UNCHANGED <<nodes, next_seq, sid, current_lock_node>>
    BY <1>6 DEF EventRead
  <2>2. CASE callback[s] /\ Usable(s)
    BY <1>1, <1>6, <2>1, <2>2, ReadStep, Zenon DEF EventRead
  <2>3. CASE ~(callback[s] /\ Usable(s))
    BY <1>2, <1>6, <2>1, <2>3, Zenon DEF EventRead
  <2> QED BY <2>2, <2>3
<1>7. CASE \E t \in Threads : OnLocked(s, t) \/ WatchChildren(s, t)
  BY <1>2, <1>7, Zenon DEF OnLocked, WatchChildren, zkVars
<1>8. CASE Disconnect(s) \/ LogEvent(s) \/ CheckZkClient(s) \/ OnLostLock(s)
  BY <1>2, <1>8, Zenon DEF Disconnect, LogEvent, CheckZkClient, OnLostLock, zkVars, lockVars
<1>9. CASE Expire(s) \/ Lapse(s)
  <2>1. nodes' \subseteq nodes
    BY <1>9, EndSessionFact, Zenon DEF Expire, Lapse
  <2>2. UNCHANGED <<next_seq, sid, first, current_lock_node>>
    BY <1>9, Zenon DEF Expire, Lapse, lockVars
  <2> QED BY <1>1, <2>1, <2>2, FewerNodes
<1>10. CASE CheckZkClientReconnect(s) \/ ConnectZK(s)
  <2>1. Reconnect(s) /\ UNCHANGED <<first, current_lock_node>>
    BY <1>10, Zenon DEF CheckZkClientReconnect, ConnectZK, lockVars
  <2>2. nodes' \subseteq nodes /\ UNCHANGED next_seq
    BY <2>1, CloseHandleFact, Zenon DEF Reconnect
  <2>3. sid' = sid \/ sid' = [sid EXCEPT ![s] = sid[s] + 1]
    BY <2>1, Zenon DEF Reconnect
  <2>4. sid' \in [Servers -> Nat]
    BY <1>1, <2>3
  <2> QED BY <2>1, <2>2, <2>4, FewerNodes
<1>11. CASE DisConnectZK(s)
  <2>1. nodes' \subseteq nodes
    BY <1>11, CloseHandleFact, Zenon DEF DisConnectZK
  <2>2. UNCHANGED <<next_seq, sid, first, current_lock_node>>
    BY <1>11, Zenon DEF DisConnectZK, lockVars
  <2> QED BY <1>1, <2>1, <2>2, FewerNodes
<1>12. CASE Crash(s)
  BY <1>12, CrashStep
<1>13. CASE Restart(s)
  <2>1. /\ sid' = [sid EXCEPT ![s] = sid[s] + 1]
        /\ UNCHANGED <<nodes, next_seq, first, current_lock_node>>
    BY <1>13, Zenon DEF Restart, lockVars
  <2>2. sid' \in [Servers -> Nat]
    BY <1>1, <2>1
  <2> QED BY <2>1, <2>2, FewerNodes
<1> QED BY <1>3, <1>4, <1>5, <1>6, <1>7, <1>8, <1>9, <1>10, <1>11, <1>12, <1>13

LEMMA InitFInv == Init => FInv
<1> SUFFICES ASSUME Init PROVE FInv
  OBVIOUS
<1>1. NoNode.seq = 0
  BY DEF NoNode
<1>2. StillFirst(0)
  BY DEF Init, StillFirst
<1>3. first \in FirstType
  BY DEF Init, FirstType
<1> QED BY <1>1, <1>2, <1>3 DEF Init, FInv

LEMMA NextFInv == FInv /\ [Next]_vars => FInv'
<1> SUFFICES ASSUME FInv, [Next]_vars PROVE FInv'
  OBVIOUS
<1>1. CASE UNCHANGED vars
  BY <1>1, FewerNodes, Zenon DEF FInv, vars, zkVars, lockVars
<1>2. CASE Next
  BY <1>2, ServerStep DEF Next
<1> QED BY <1>1, <1>2

\* The inductive invariant: every request that a thread of a name server has
\* read or remembers as the first child still is, if it exists.
THEOREM FirstStaysFirst == Spec => []FInv
BY InitFInv, NextFInv, PTL DEF Spec

\* For any number of name servers, faults and lock requests, a server that took
\* the lock on its own request (DistLock::HandleChildrenChanged) holds the first
\* of all requests for as long as that request exists.
THEOREM FirstNodeLeadsHolds == Spec => []FirstNodeLeads
<1>1. FInv => FirstNodeLeads
  <2> SUFFICES ASSUME FInv, NEW s \in Servers,
                      current_lock_node[s] = assigned_path[s],
                      NEW n \in nodes, n.seq = assigned_path[s]
               PROVE  FirstOf(nodes).seq = assigned_path[s]
    BY DEF FirstNodeLeads
  <2>1. \A m \in nodes : assigned_path[s] <= m.seq
    BY DEF FInv, StillFirst
  <2>2. FirstOf(nodes) \in nodes /\ FirstOf(nodes).seq <= n.seq
    BY FirstOfFact DEF FInv
  <2> QED BY <2>1, <2>2 DEF FInv, LockNodes
<1> QED BY <1>1, FirstStaysFirst, PTL

-----------------------------------------------------------------------------
(* The server that holds the lock serves.                                  *)

Labels == {"idle", "read", "handle", "recover", "watch"}
PcType == pc \in [Servers -> [Threads -> Labels]]

ZkTypes ==
    /\ alive \in [Servers -> BOOLEAN] /\ link \in [Servers -> BOOLEAN]
    /\ opening \in [Servers -> BOOLEAN]
    /\ watch \in [Servers -> BOOLEAN] /\ events \in [Servers -> Nat]
ClientTypes ==
    /\ connected \in [Servers -> BOOLEAN] /\ session_term \in [Servers -> Nat]
    /\ callback \in [Servers -> BOOLEAN] /\ hung \in [Servers -> BOOLEAN]
LockTypes ==
    /\ lock_state \in [Servers -> {"kLocked", "kLostLock", "kTryLock"}]
    /\ assigned_path \in [Servers -> Nat]
    /\ current_lock_value \in [Servers -> Servers \cup {NoServer}]
    /\ client_session_term \in [Servers -> Nat] /\ cur_session_term \in [Servers -> Nat]
    /\ PcType
ServerTypes ==
    /\ up \in [Servers -> BOOLEAN] /\ running \in [Servers -> BOOLEAN]
    /\ checking \in [Servers -> {"no", "lost", "reconnect"}]
    /\ closing \in [Servers -> BOOLEAN] /\ history \in [Servers -> SUBSET {"connect", "late"}]
    /\ faults \in 0 .. MaxFaults
Types == ZkTypes /\ ClientTypes /\ LockTypes /\ ServerTypes

\* DistLock never knows a later session term than ZkClient, a new process starts
\* with neither the lock nor a term, and an OnLostLock that is still to come finds
\* the client disconnected, unless it is late.
Session(s) ==
    /\ client_session_term[s] <= session_term[s] /\ cur_session_term[s] <= session_term[s]
    /\ ~up[s] => /\ lock_state[s] = "kLostLock" /\ checking[s] = "no" /\ ~closing[s]
                 /\ client_session_term[s] = 0 /\ cur_session_term[s] = 0
                 /\ \A t \in Threads : pc[s][t] = "idle"
    /\ checking[s] = "lost" \/ closing[s] => ~connected[s] \/ "late" \in history[s]
    /\ /\ up[s] /\ connected[s] /\ "late" \notin history[s] /\ lock_state[s] = "kLocked"
       /\ session_term[s] = client_session_term[s]
       => running[s]

LInv == FInv /\ Types /\ \A s \in Servers : Session(s)

\* A step of server s leaves the other servers' locks alone.
Local(s) ==
    \A u \in Servers : u # s =>
        /\ client_session_term'[u] = client_session_term[u]
        /\ cur_session_term'[u] = cur_session_term[u] /\ session_term'[u] = session_term[u]
        /\ up'[u] = up[u] /\ connected'[u] = connected[u] /\ lock_state'[u] = lock_state[u]
        /\ running'[u] = running[u] /\ checking'[u] = checking[u] /\ pc'[u] = pc[u]
        /\ closing'[u] = closing[u] /\ history'[u] = history[u]

LEMMA LocalStep ==
    ASSUME LInv, NEW s \in Servers, Local(s), Session(s)'
    PROVE  \A u \in Servers : Session(u)'
<1> SUFFICES ASSUME NEW u \in Servers, u # s PROVE Session(u)'
  OBVIOUS
<1>1. Session(u)
  BY DEF LInv
<1> QED BY <1>1 DEF Local, Session

LEMMA FunSet ==
    ASSUME NEW S, NEW T, NEW f \in [S -> T], NEW x \in S, NEW v \in T, NEW g,
           g = [f EXCEPT ![x] = v]
    PROVE  /\ g \in [S -> T] /\ g[x] = v
           /\ \A u \in S : u # x => g[u] = f[u]
OBVIOUS

LEMMA GotoFact ==
    ASSUME PcType, NEW s \in Servers, NEW t \in Threads, NEW l \in Labels, Goto(s, t, l)
    PROVE  /\ PcType' /\ \A u \in Servers : u # s => pc'[u] = pc[u]
           /\ pc'[s][t] = l
<1>1. pc' = [pc EXCEPT ![s] = [pc[s] EXCEPT ![t] = l]]
  BY DEF Goto
<1>2. [pc[s] EXCEPT ![t] = l] \in [Threads -> Labels]
  BY DEF PcType
<1>3. [pc[s] EXCEPT ![t] = l][t] = l
  BY DEF PcType
<1> QED BY <1>1, <1>2, <1>3 DEF PcType

LEMMA EndSessionTypes ==
    ASSUME ZkTypes, NEW s, NEW k, EndSession(s, k)
    PROVE  events' \in [Servers -> Nat] /\ watch' \in [Servers -> BOOLEAN]
<1>1. \A u \in Servers : events[u] \in Nat /\ events[u] + 1 \in Nat
  BY DEF ZkTypes
<1>2. events' \in [Servers -> Nat]
  BY <1>1 DEF EndSession
<1>3. watch' \in [Servers -> BOOLEAN]
  BY Zenon DEF EndSession
<1> QED BY <1>2, <1>3

LEMMA CloseHandleTypes ==
    ASSUME ZkTypes, NEW s \in Servers, CloseHandle(s)
    PROVE  /\ events' \in [Servers -> Nat] /\ watch' \in [Servers -> BOOLEAN]
           /\ alive' \in [Servers -> BOOLEAN]
<1>1. alive' \in [Servers -> BOOLEAN]
  BY Zenon DEF CloseHandle, ZkTypes
<1>2. CASE EndSession(s, sid[s])
  BY <1>1, <1>2, EndSessionTypes, Zenon
<1>3. CASE /\ events' = [events EXCEPT ![s] = 0]
           /\ watch' = [watch EXCEPT ![s] = FALSE]
  <2>1. events' \in [Servers -> Nat]
    BY <1>3 DEF ZkTypes
  <2> QED BY <1>1, <1>3, <2>1, Zenon DEF ZkTypes
<1> QED BY <1>2, <1>3, Zenon DEF CloseHandle

\* The steps of the connection and of ZooKeeper that the lock does not see.
LEMMA QuietLock ==
    ASSUME LInv, NEW s \in Servers, Disconnect(s) \/ Expire(s) \/ Lapse(s)
    PROVE  Types' /\ \A u \in Servers : Session(u)'
<1>1. Types /\ ZkTypes /\ ClientTypes /\ LockTypes /\ ServerTypes
  BY DEF LInv, Types
<1>2. UNCHANGED <<clientVars, lockVars, serverVars>>
  BY Zenon DEF Disconnect, Expire, Lapse
<1>3. ClientTypes' /\ LockTypes'
  BY <1>1, <1>2, Zenon DEF ClientTypes, LockTypes, PcType, clientVars, lockVars
<1>4. faults' \in 0 .. MaxFaults
  <2>1. faults' = faults \/ (faults' = faults + 1 /\ faults < MaxFaults)
    BY Zenon DEF Disconnect, Expire, Lapse
  <2> QED BY <1>1, <2>1, DistLockAssumption DEF ServerTypes
<1>5. ServerTypes'
  BY <1>1, <1>2, <1>4, Zenon DEF ServerTypes, serverVars, callerVars
<1>6. ZkTypes'
  <2>1. /\ link' \in [Servers -> BOOLEAN] /\ alive' \in [Servers -> BOOLEAN]
        /\ opening' \in [Servers -> BOOLEAN]
    BY <1>1, Zenon DEF Disconnect, Expire, Lapse, ZkTypes
  <2>2. events' \in [Servers -> Nat] /\ watch' \in [Servers -> BOOLEAN]
    BY <1>1, EndSessionTypes, Zenon DEF Disconnect, Expire, Lapse, ZkTypes
  <2> QED BY <2>1, <2>2 DEF ZkTypes
<1>7. \A u \in Servers : Session(u)'
  BY <1>2, Zenon DEF LInv, Session, clientVars, lockVars, serverVars, callerVars
<1> QED BY <1>3, <1>5, <1>6, <1>7 DEF Types

\* The lock thread asks for the lock and reads the children.
LEMMA RequestLock ==
    ASSUME LInv, NEW s \in Servers, LockRequest(s)
    PROVE  Types' /\ \A u \in Servers : Session(u)'
<1>1. Types /\ ZkTypes /\ ClientTypes /\ LockTypes /\ ServerTypes /\ Session(s)
  BY DEF LInv, Types
<1>2. UNCHANGED <<alive, link, opening, connected, session_term, hung, lock_state,
                  current_lock_value, client_session_term, up, running, checking, closing,
                  history, faults>> /\ up[s]
  BY Zenon DEF LockRequest, serverVars, callerVars
<1>3. cur_session_term' = [cur_session_term EXCEPT ![s] = session_term[s]]
  BY Zenon DEF LockRequest
<1>4. cur_session_term' \in [Servers -> Nat] /\ session_term[s] \in Nat
  BY <1>1, <1>3 DEF LockTypes, ClientTypes
<1>5. ClientTypes'
  <2>1. callback' \in [Servers -> BOOLEAN]
    BY <1>1, Zenon DEF LockRequest, ClientTypes
  <2> QED BY <1>1, <1>2, <2>1 DEF ClientTypes
<1>6. PcType' /\ (\A u \in Servers : u # s => pc'[u] = pc[u]) /\ assigned_path' \in [Servers -> Nat]
      /\ events' \in [Servers -> Nat] /\ watch' \in [Servers -> BOOLEAN]
  <2>1. CASE Usable(s)
    <3>1. Goto(s, "lock", "read") /\ Notify /\ assigned_path' = [assigned_path EXCEPT ![s] = next_seq]
      BY <2>1, Zenon DEF LockRequest
    <3>2. PcType' /\ (\A u \in Servers : u # s => pc'[u] = pc[u])
      BY <1>1, <3>1, GotoFact, Zenon DEF LockTypes, Threads, Labels
    <3>3. next_seq \in Nat /\ assigned_path \in [Servers -> Nat]
      BY <1>1 DEF LInv, FInv, LockTypes
    <3>4. assigned_path' \in [Servers -> Nat]
      BY <3>1, <3>3
    <3>5. \A u \in Servers : events[u] + (IF watch[u] THEN 1 ELSE 0) \in Nat
      BY <1>1 DEF ZkTypes
    <3>6. events' \in [Servers -> Nat] /\ watch' \in [Servers -> BOOLEAN]
      BY <3>1, <3>5 DEF Notify
    <3> QED BY <3>2, <3>4, <3>6, Zenon
  <2>2. CASE ~Usable(s)
    BY <1>1, <2>2, Zenon DEF LockRequest, LockTypes, ZkTypes, PcType
  <2> QED BY <2>1, <2>2, Zenon
<1>7. Types'
  BY <1>1, <1>2, <1>4, <1>5, <1>6, Zenon DEF Types, ZkTypes, LockTypes, ServerTypes
<1>8. Local(s)
  BY <1>2, <1>3, <1>6, <1>1, Zenon DEF Local, LockTypes
<1>9. Session(s)'
  BY <1>1, <1>2, <1>3, <1>4 DEF Session, LockTypes
<1> QED BY <1>7, <1>8, <1>9, LocalStep

LEMMA ReadLock ==
    ASSUME LInv, NEW s \in Servers, LockRead(s)
    PROVE  Types' /\ \A u \in Servers : Session(u)'
<1>1. Types /\ ZkTypes /\ ClientTypes /\ LockTypes /\ ServerTypes /\ Session(s)
  BY DEF LInv, Types
<1>2. UNCHANGED <<alive, link, opening, watch, events, connected, session_term, callback, hung,
                  assigned_path, current_lock_value, cur_session_term, up, running, checking,
                  closing, history, faults>>
  BY Zenon DEF LockRead, zkVars, clientVars, serverVars, callerVars
<1>3. up[s]
  BY <1>1, Zenon DEF LockRead, Session, Threads
<1>4. PICK l \in Labels : Goto(s, "lock", l)
  BY DEF LockRead, Labels
<1>5. PcType' /\ \A u \in Servers : u # s => pc'[u] = pc[u]
  BY <1>1, <1>4, GotoFact, Zenon DEF LockTypes, Threads
<1>6. \/ UNCHANGED <<lock_state, client_session_term>>
      \/ /\ lock_state' = [lock_state EXCEPT ![s] = "kTryLock"]
         /\ client_session_term' = [client_session_term EXCEPT ![s] = cur_session_term[s]]
  BY DEF LockRead
<1>7. /\ lock_state' \in [Servers -> {"kLocked", "kLostLock", "kTryLock"}]
      /\ client_session_term' \in [Servers -> Nat]
  BY <1>1, <1>6 DEF LockTypes
<1>8. Types'
  BY <1>1, <1>2, <1>5, <1>7, Zenon DEF Types, ZkTypes, ClientTypes, LockTypes, ServerTypes
<1>9. Local(s)
  BY <1>1, <1>2, <1>5, <1>6, Zenon DEF Local, LockTypes
<1>10. Session(s)'
  BY <1>1, <1>2, <1>3, <1>6, Zenon DEF Session, LockTypes
<1> QED BY <1>8, <1>9, <1>10, LocalStep

\* HandleChildrenChanged and OnLocked, on either thread.
LEMMA HandleLock ==
    ASSUME LInv, NEW s \in Servers, NEW t \in Threads, pc[s][t] # "idle",
           HandleChildrenChanged(s, t),
           UNCHANGED <<zkVars, clientVars, assigned_path, client_session_term, cur_session_term,
                       up, callerVars, faults>>
    PROVE  Types' /\ \A u \in Servers : Session(u)'
<1>1. Types /\ ZkTypes /\ ClientTypes /\ LockTypes /\ ServerTypes /\ Session(s)
  BY Zenon DEF LInv, Types
<1>2. UNCHANGED <<alive, link, opening, watch, events, connected, session_term, callback, hung,
                  assigned_path, client_session_term, cur_session_term, up, checking, closing,
                  history, faults>>
  BY Zenon DEF zkVars, clientVars, callerVars
<1>3. up[s]
  BY <1>1, Zenon DEF Session
<1>4. PICK l \in Labels : Goto(s, t, l)
  BY Zenon DEF HandleChildrenChanged, Labels
<1>5. PcType' /\ \A u \in Servers : u # s => pc'[u] = pc[u]
  BY <1>1, <1>4, GotoFact, Zenon DEF LockTypes
<1>6. \/ UNCHANGED <<lock_state, running>>
      \/ /\ lock_state' = [lock_state EXCEPT ![s] = "kLostLock"]
         /\ running' = [running EXCEPT ![s] = FALSE]
  BY Zenon DEF HandleChildrenChanged
<1>7. /\ lock_state' \in [Servers -> {"kLocked", "kLostLock", "kTryLock"}]
      /\ running' \in [Servers -> BOOLEAN]
  BY <1>1, <1>6, Zenon DEF LockTypes, ServerTypes
<1>8. current_lock_value' \in [Servers -> Servers \cup {NoServer}]
  <2> DEFINE f == first[s][t]
             value == IF Answered(s) /\ f \in nodes THEN f.value ELSE current_lock_value[s]
  <2>1. value \in Servers \cup {NoServer}
    BY <1>1, Zenon DEF LInv, FInv, LockNodes, LockTypes
  <2>2. \/ current_lock_value' = current_lock_value
        \/ current_lock_value' = [current_lock_value EXCEPT ![s] = value]
    BY Zenon DEF HandleChildrenChanged
  <2> HIDE DEF value
  <2> QED BY <1>1, <2>1, <2>2, Zenon DEF LockTypes
<1>9. Types'
  BY <1>1, <1>2, <1>5, <1>7, <1>8, Zenon DEF Types, ZkTypes, ClientTypes, LockTypes, ServerTypes
<1>10. Local(s)
  BY <1>1, <1>2, <1>5, <1>6, Zenon DEF Local, LockTypes, ServerTypes
<1>11. Session(s)'
  BY <1>1, <1>2, <1>3, <1>6, Zenon DEF Session, LockTypes
<1> QED BY <1>9, <1>10, <1>11, LocalStep, Zenon

LEMMA TakeLock ==
    ASSUME LInv, NEW s \in Servers, NEW t \in Threads, OnLocked(s, t) \/ WatchChildren(s, t)
    PROVE  Types' /\ \A u \in Servers : Session(u)'
<1>1. Types /\ ZkTypes /\ ClientTypes /\ LockTypes /\ ServerTypes /\ Session(s)
  BY DEF LInv, Types
<1>2. UNCHANGED <<alive, link, opening, events, connected, session_term, hung, assigned_path,
                  client_session_term, cur_session_term, up, checking, closing, history, faults>>
  BY Zenon DEF OnLocked, WatchChildren, zkVars, clientVars, serverVars, callerVars
<1>3. up[s]
  BY <1>1, Zenon DEF Session, OnLocked, WatchChildren
<1>4. PICK l \in Labels : Goto(s, t, l)
  BY Zenon DEF OnLocked, WatchChildren, Labels
<1>5. PcType' /\ \A u \in Servers : u # s => pc'[u] = pc[u]
  BY <1>1, <1>4, GotoFact, Zenon DEF LockTypes
<1>6. \/ UNCHANGED <<lock_state, running, current_lock_value>>
      \/ /\ lock_state' = [lock_state EXCEPT ![s] = "kLocked"]
         /\ running' = [running EXCEPT ![s] = TRUE]
         /\ current_lock_value' = [current_lock_value EXCEPT ![s] = s]
  BY Zenon DEF OnLocked, WatchChildren, serverVars
<1>7. /\ lock_state' \in [Servers -> {"kLocked", "kLostLock", "kTryLock"}]
      /\ running' \in [Servers -> BOOLEAN]
      /\ current_lock_value' \in [Servers -> Servers \cup {NoServer}]
  <2>1. lock_state' \in [Servers -> {"kLocked", "kLostLock", "kTryLock"}]
    BY <1>1, <1>6 DEF LockTypes
  <2>2. running' \in [Servers -> BOOLEAN]
    BY <1>1, <1>6, Zenon DEF ServerTypes
  <2>3. current_lock_value' \in [Servers -> Servers \cup {NoServer}]
    BY <1>1, <1>6, Zenon DEF LockTypes
  <2> QED BY <2>1, <2>2, <2>3
<1>8. watch' \in [Servers -> BOOLEAN] /\ callback' \in [Servers -> BOOLEAN]
  BY <1>1, Zenon DEF OnLocked, WatchChildren, zkVars, clientVars, ZkTypes, ClientTypes
<1>9. Types'
  BY <1>1, <1>2, <1>5, <1>7, <1>8, Zenon DEF Types, ZkTypes, ClientTypes, LockTypes, ServerTypes
<1>10. Local(s)
  BY <1>1, <1>2, <1>5, <1>6, Zenon DEF Local, LockTypes, ServerTypes
<1>11. Session(s)'
  BY <1>1, <1>2, <1>3, <1>6, Zenon DEF Session, LockTypes, ServerTypes
<1> QED BY <1>9, <1>10, <1>11, LocalStep

\* The event thread reads the children.
LEMMA EventLock ==
    ASSUME LInv, NEW s \in Servers, EventRead(s)
    PROVE  Types' /\ \A u \in Servers : Session(u)'
<1>1. Types /\ ZkTypes /\ ClientTypes /\ LockTypes /\ ServerTypes /\ Session(s)
  BY DEF LInv, Types
<1>2. UNCHANGED <<alive, link, opening, watch, connected, session_term, callback, hung,
                  lock_state, assigned_path, current_lock_value, client_session_term,
                  cur_session_term, up, running, checking, closing, history, faults>> /\ up[s]
  BY Zenon DEF EventRead, clientVars, serverVars, callerVars
<1>3. PICK l \in Labels : Goto(s, "event", l)
  BY DEF EventRead, Labels
<1>4. PcType' /\ \A u \in Servers : u # s => pc'[u] = pc[u]
  BY <1>1, <1>3, GotoFact, Zenon DEF LockTypes, Threads
<1>5. events' \in [Servers -> Nat]
  <2>1. events' = [events EXCEPT ![s] = events[s] - 1] /\ events[s] > 0 /\ events[s] \in Nat
    BY <1>1 DEF EventRead, ZkTypes
  <2>2. events[s] - 1 \in Nat
    BY <2>1
  <2> QED BY <1>1, <2>1, <2>2 DEF ZkTypes
<1>6. Types'
  BY <1>1, <1>2, <1>4, <1>5, Zenon DEF Types, ZkTypes, ClientTypes, LockTypes, ServerTypes
<1>7. Local(s)
  BY <1>2, <1>4, Zenon DEF Local
<1>8. Session(s)'
  BY <1>1, <1>2, Zenon DEF Session
<1> QED BY <1>6, <1>7, <1>8, LocalStep

\* A connection starts a new session term, or ends the last one.
LEMMA TermLock ==
    ASSUME LInv, NEW s \in Servers, LogEvent(s)
    PROVE  Types' /\ \A u \in Servers : Session(u)'
<1>1. Types /\ ZkTypes /\ ClientTypes /\ LockTypes /\ ServerTypes /\ Session(s)
  BY DEF LInv, Types
<1>2. UNCHANGED <<watch, events, callback, hung, lockVars, up, running, checking, closing, faults>>
      /\ up[s]
  BY Zenon DEF LogEvent
<1>3. PICK on \in BOOLEAN :
        /\ on = (alive[s] \/ opening[s])
        /\ link' = [link EXCEPT ![s] = TRUE] /\ alive' = [alive EXCEPT ![s] = on]
        /\ opening' = [opening EXCEPT ![s] = FALSE] /\ connected' = [connected EXCEPT ![s] = on]
        /\ session_term' = [session_term EXCEPT ![s] = session_term[s] + (IF on THEN 1 ELSE 0)]
        /\ history' = IF on /\ (checking[s] = "lost" \/ closing[s])
                      THEN [history EXCEPT ![s] = history[s] \cup {"late"}] ELSE history
  <2>1. (alive[s] \/ opening[s]) \in BOOLEAN
    OBVIOUS
  <2> QED BY <2>1, Zenon DEF LogEvent
<1>4. /\ session_term[s] \in Nat /\ session_term' \in [Servers -> Nat]
      /\ session_term'[s] = session_term[s] + (IF on THEN 1 ELSE 0)
      /\ \A u \in Servers : u # s => session_term'[u] = session_term[u]
  BY <1>1, <1>3 DEF ClientTypes
<1>5. /\ connected' \in [Servers -> BOOLEAN] /\ connected'[s] = on
      /\ \A u \in Servers : u # s => connected'[u] = connected[u]
  BY <1>1, <1>3, FunSet, Zenon DEF ClientTypes
<1>6. ZkTypes'
  BY <1>1, <1>2, <1>3, Zenon DEF ZkTypes
<1>7. /\ history' \in [Servers -> SUBSET {"connect", "late"}]
      /\ \A u \in Servers : u # s => history'[u] = history[u]
      /\ on /\ (checking[s] = "lost" \/ closing[s]) => "late" \in history'[s]
  <2>1. history[s] \cup {"late"} \in SUBSET {"connect", "late"}
    BY <1>1 DEF ServerTypes
  <2>2. CASE on /\ (checking[s] = "lost" \/ closing[s])
    <3>1. history' = [history EXCEPT ![s] = history[s] \cup {"late"}]
      BY <1>3, <2>2, Zenon
    <3> QED BY <1>1, <2>1, <3>1 DEF ServerTypes
  <2>3. CASE ~(on /\ (checking[s] = "lost" \/ closing[s]))
    BY <1>1, <1>3, <2>3, Zenon DEF ServerTypes
  <2> QED BY <2>2, <2>3, Zenon
<1>8. Types'
  BY <1>1, <1>2, <1>4, <1>5, <1>6, <1>7, Zenon DEF Types, ClientTypes, LockTypes, PcType,
     ServerTypes, lockVars
<1>9. Local(s)
  BY <1>2, <1>4, <1>5, <1>7, Zenon DEF Local, lockVars
<1>10. Session(s)'
  <2>1. client_session_term[s] \in Nat /\ cur_session_term[s] \in Nat
    BY <1>1 DEF LockTypes
  <2>2. /\ client_session_term[s] <= session_term[s] /\ cur_session_term[s] <= session_term[s]
        /\ UNCHANGED <<client_session_term, cur_session_term, lock_state, pc, up, checking, closing>>
    BY <1>1, <1>2, Zenon DEF Session, lockVars
  <2>3. client_session_term'[s] <= session_term'[s] /\ cur_session_term'[s] <= session_term'[s]
    BY <1>4, <2>1, <2>2
  <2>4. on => session_term'[s] # client_session_term'[s]
    BY <1>4, <2>1, <2>2
  <2> QED BY <1>2, <1>5, <1>7, <2>2, <2>3, <2>4, Zenon DEF Session
<1> QED BY <1>8, <1>9, <1>10, LocalStep

\* Reconnect leaves the session term to LogEvent.
LEMMA ReconnectLock ==
    ASSUME LInv, NEW s \in Servers, CheckZkClientReconnect(s) \/ ConnectZK(s)
    PROVE  Types' /\ \A u \in Servers : Session(u)'
<1>1. Types /\ ZkTypes /\ ClientTypes /\ LockTypes /\ ServerTypes /\ Session(s)
  BY DEF LInv, Types
<1>2. /\ Reconnect(s)
      /\ UNCHANGED <<connected, session_term, callback, lockVars, up, running, closing>>
  BY Zenon DEF CheckZkClientReconnect, ConnectZK, Reconnect
<1>3. up[s]
  <2>1. "reconnect" # "no"
    OBVIOUS
  <2> QED BY <1>1, <2>1, Zenon DEF CheckZkClientReconnect, ConnectZK, Session
<1>4. /\ checking' = checking \/ checking' = [checking EXCEPT ![s] = "no"]
      /\ \/ history' = history
         \/ history' = [history EXCEPT ![s] = history[s] \cup {"connect"}]
      /\ faults' = faults \/ (faults' = faults + 1 /\ faults < MaxFaults)
  BY Zenon DEF CheckZkClientReconnect, ConnectZK
<1>5. /\ checking' \in [Servers -> {"no", "lost", "reconnect"}]
      /\ \A u \in Servers : u # s => checking'[u] = checking[u]
      /\ checking'[s] = "lost" => checking[s] = "lost"
  BY <1>1, <1>4 DEF ServerTypes
<1>6. /\ history' \in [Servers -> SUBSET {"connect", "late"}]
      /\ \A u \in Servers : u # s => history'[u] = history[u]
      /\ "late" \in history'[s] <=> "late" \in history[s]
  BY <1>1, <1>4 DEF ServerTypes
<1>7. faults' \in 0 .. MaxFaults
  BY <1>1, <1>4, DistLockAssumption DEF ServerTypes
<1>8. ZkTypes' /\ hung' \in [Servers -> BOOLEAN]
  <2>1. /\ events' \in [Servers -> Nat] /\ watch' \in [Servers -> BOOLEAN]
        /\ alive' \in [Servers -> BOOLEAN]
    BY <1>1, <1>2, CloseHandleTypes, Zenon DEF Reconnect
  <2>2. /\ link' = [link EXCEPT ![s] = FALSE]
        /\ opening' = opening \/ opening' = [opening EXCEPT ![s] = TRUE]
        /\ hung' = hung \/ hung' = [hung EXCEPT ![s] = TRUE]
    BY <1>2, Zenon DEF Reconnect
  <2> QED BY <1>1, <2>1, <2>2, Zenon DEF ZkTypes, ClientTypes
<1>9. Types'
  BY <1>1, <1>2, <1>5, <1>6, <1>7, <1>8, Zenon DEF Types, ClientTypes, LockTypes, PcType,
     ServerTypes, lockVars
<1>10. Local(s)
  BY <1>2, <1>5, <1>6, Zenon DEF Local, lockVars
<1>11. Session(s)'
  BY <1>1, <1>2, <1>3, <1>5, <1>6, Zenon DEF Session, lockVars
<1> QED BY <1>9, <1>10, <1>11, LocalStep

\* The server finds that it lost ZooKeeper and gives the lock up.
LEMMA LostLock ==
    ASSUME LInv, NEW s \in Servers, CheckZkClient(s) \/ OnLostLock(s)
    PROVE  Types' /\ \A u \in Servers : Session(u)'
<1>1. Types /\ ZkTypes /\ ClientTypes /\ LockTypes /\ ServerTypes /\ Session(s)
  BY DEF LInv, Types
<1>2. UNCHANGED <<zkVars, clientVars, lockVars, up, history, faults>>
  BY Zenon DEF CheckZkClient, OnLostLock
<1>3. /\ running' = running \/ running' = [running EXCEPT ![s] = FALSE]
      /\ closing' = closing \/ closing' = [closing EXCEPT ![s] = FALSE]
      /\ \/ checking' = checking \/ checking' = [checking EXCEPT ![s] = "lost"]
         \/ checking' = [checking EXCEPT ![s] = "reconnect"]
  BY Zenon DEF CheckZkClient, OnLostLock
<1>4. /\ running' \in [Servers -> BOOLEAN] /\ closing' \in [Servers -> BOOLEAN]
      /\ \A u \in Servers : u # s => running'[u] = running[u] /\ closing'[u] = closing[u]
  BY <1>1, <1>3, ZenonT(60) DEF ServerTypes
<1>5. /\ checking' \in [Servers -> {"no", "lost", "reconnect"}]
      /\ \A u \in Servers : u # s => checking'[u] = checking[u]
  BY <1>1, <1>3 DEF ServerTypes
<1>6. up[s] /\ (~connected[s] \/ "late" \in history[s])
  <2>1. "lost" # "no"
    OBVIOUS
  <2> QED BY <1>1, <2>1, Zenon DEF CheckZkClient, OnLostLock, Session
<1>7. Types'
  BY <1>1, <1>2, <1>4, <1>5, Zenon DEF Types, ZkTypes, ClientTypes, LockTypes, PcType,
     ServerTypes, zkVars, clientVars, lockVars
<1>8. Local(s)
  BY <1>2, <1>4, <1>5, Zenon DEF Local, clientVars, lockVars
<1>9. Session(s)'
  BY <1>1, <1>2, <1>6, Zenon DEF Session, clientVars, lockVars
<1> QED BY <1>7, <1>8, <1>9, LocalStep

\* The server is told to give ZooKeeper up.
LEMMA CloseLock ==
    ASSUME LInv, NEW s \in Servers, DisConnectZK(s)
    PROVE  Types' /\ \A u \in Servers : Session(u)'
<1>1. Types /\ ZkTypes /\ ClientTypes /\ LockTypes /\ ServerTypes /\ Session(s)
  BY DEF LInv, Types
<1>2. /\ UNCHANGED <<session_term, callback, hung, lockVars, up, running, checking, history>>
      /\ up[s] /\ CloseHandle(s)
      /\ link' = [link EXCEPT ![s] = TRUE] /\ opening' = [opening EXCEPT ![s] = FALSE]
      /\ connected' = [connected EXCEPT ![s] = FALSE] /\ closing' = [closing EXCEPT ![s] = TRUE]
      /\ faults' = faults + 1 /\ faults < MaxFaults
  BY Zenon DEF DisConnectZK
<1>3. ZkTypes'
  <2>1. /\ events' \in [Servers -> Nat] /\ watch' \in [Servers -> BOOLEAN]
        /\ alive' \in [Servers -> BOOLEAN]
    BY <1>1, <1>2, CloseHandleTypes, Zenon
  <2> QED BY <1>1, <1>2, <2>1, Zenon DEF ZkTypes
<1>4. /\ connected' \in [Servers -> BOOLEAN] /\ connected'[s] = FALSE
      /\ closing' \in [Servers -> BOOLEAN]
      /\ \A u \in Servers : u # s => connected'[u] = connected[u] /\ closing'[u] = closing[u]
  BY <1>1, <1>2, FunSet, Zenon DEF ClientTypes, ServerTypes
<1>5. faults' \in 0 .. MaxFaults
  BY <1>1, <1>2, DistLockAssumption DEF ServerTypes
<1>6. Types'
  BY <1>1, <1>2, <1>3, <1>4, <1>5, Zenon DEF Types, ClientTypes, LockTypes, PcType, ServerTypes,
     lockVars
<1>7. Local(s)
  BY <1>2, <1>4, Zenon DEF Local, lockVars
<1>8. Session(s)'
  BY <1>1, <1>2, <1>4, Zenon DEF Session, lockVars
<1> QED BY <1>6, <1>7, <1>8, LocalStep

LEMMA ProcessLock ==
    ASSUME LInv, NEW s \in Servers, Crash(s) \/ Restart(s)
    PROVE  Types' /\ \A u \in Servers : Session(u)'
<1>1. Types /\ ZkTypes /\ ClientTypes /\ LockTypes /\ ServerTypes /\ Session(s)
  BY DEF LInv, Types
<1>2. CASE Crash(s)
  <2>1. /\ up' = [up EXCEPT ![s] = FALSE] /\ running' = [running EXCEPT ![s] = FALSE]
        /\ checking' = [checking EXCEPT ![s] = "no"] /\ closing' = [closing EXCEPT ![s] = FALSE]
        /\ history' = [history EXCEPT ![s] = {}] /\ watch' = [watch EXCEPT ![s] = FALSE]
        /\ opening' = [opening EXCEPT ![s] = FALSE] /\ hung' = [hung EXCEPT ![s] = FALSE]
        /\ events' = [events EXCEPT ![s] = 0] /\ connected' = [connected EXCEPT ![s] = FALSE]
        /\ callback' = [callback EXCEPT ![s] = FALSE]
        /\ lock_state' = [lock_state EXCEPT ![s] = "kLostLock"]
        /\ assigned_path' = [assigned_path EXCEPT ![s] = 0]
        /\ current_lock_value' = [current_lock_value EXCEPT ![s] = NoServer]
        /\ client_session_term' = [client_session_term EXCEPT ![s] = 0]
        /\ session_term' = [session_term EXCEPT ![s] = 0]
        /\ cur_session_term' = [cur_session_term EXCEPT ![s] = 0]
        /\ pc' = [pc EXCEPT ![s] = [t \in Threads |-> "idle"]]
        /\ UNCHANGED <<alive, link>> /\ faults < MaxFaults /\ faults' = faults + 1
    BY <1>2, Zenon DEF Crash
  <2>2. [t \in Threads |-> "idle"] \in [Threads -> Labels]
    BY DEF Labels
  <2>3. LockTypes'
    BY <1>1, <2>1, <2>2, Zenon DEF LockTypes, PcType
  <2>4. ZkTypes' /\ ClientTypes'
    BY <1>1, <2>1, Zenon DEF ZkTypes, ClientTypes
  <2>5. ServerTypes'
    <3>1. faults' \in 0 .. MaxFaults
      BY <1>1, <2>1, DistLockAssumption DEF ServerTypes
    <3>2. "no" \in {"no", "lost", "reconnect"} /\ {} \in SUBSET {"connect", "late"}
      OBVIOUS
    <3> QED BY <1>1, <2>1, <3>1, <3>2, Zenon DEF ServerTypes
  <2>6. Local(s)
    BY <1>1, <2>1, Zenon DEF Local, ClientTypes, LockTypes, PcType, ServerTypes
  <2>7. /\ client_session_term'[s] = 0 /\ session_term'[s] = 0 /\ cur_session_term'[s] = 0
        /\ lock_state'[s] = "kLostLock" /\ checking'[s] = "no" /\ ~closing'[s]
        /\ connected'[s] = FALSE /\ \A t \in Threads : pc'[s][t] = "idle"
    BY <1>1, <2>1, Zenon DEF ClientTypes, LockTypes, PcType, ServerTypes
  <2>8. Session(s)'
    <3>1. 0 <= 0
      OBVIOUS
    <3> QED BY <2>7, <3>1, Zenon DEF Session
  <2> QED BY <2>3, <2>4, <2>5, <2>6, <2>8, LocalStep DEF Types
<1>3. CASE Restart(s)
  <2>1. /\ up' = [up EXCEPT ![s] = TRUE] /\ alive' = [alive EXCEPT ![s] = TRUE]
        /\ link' = [link EXCEPT ![s] = TRUE] /\ connected' = [connected EXCEPT ![s] = TRUE]
        /\ session_term' = [session_term EXCEPT ![s] = 1] /\ ~up[s]
        /\ UNCHANGED <<opening, watch, events, callback, hung, lockVars, running, callerVars, faults>>
    BY <1>3, Zenon DEF Restart
  <2>2. LockTypes'
    BY <1>1, <2>1, Zenon DEF LockTypes, PcType, lockVars
  <2>3. ZkTypes' /\ ClientTypes'
    BY <1>1, <2>1, Zenon DEF ZkTypes, ClientTypes
  <2>4. ServerTypes'
    BY <1>1, <2>1, Zenon DEF ServerTypes, callerVars
  <2>5. Local(s)
    BY <1>1, <2>1, Zenon DEF Local, ClientTypes, ServerTypes, lockVars, callerVars
  <2>6. session_term'[s] = 1 /\ up'[s]
    BY <1>1, <2>1, Zenon DEF ClientTypes, ServerTypes
  <2>7. Session(s)'
    <3>1. /\ client_session_term'[s] = 0 /\ cur_session_term'[s] = 0
          /\ lock_state'[s] = "kLostLock" /\ checking'[s] = "no" /\ ~closing'[s]
      BY <1>1, <2>1, Zenon DEF Session, lockVars, callerVars
    <3>2. 0 <= 1 /\ "kLostLock" # "kLocked" /\ "no" # "lost"
      OBVIOUS
    <3> QED BY <2>6, <3>1, <3>2, Zenon DEF Session
  <2> QED BY <2>2, <2>3, <2>4, <2>5, <2>7, LocalStep DEF Types
<1> QED BY <1>2, <1>3

\* The inductive invariant of a server's session: DistLock's term is never ahead
\* of ZkClient's, so a server that stopped serving has a term to catch up on.
THEOREM SessionTerms == Spec => []LInv
<1>1. Init => LInv
  <2> SUFFICES ASSUME Init PROVE LInv
    OBVIOUS
  <2>1. FInv
    BY InitFInv
  <2>2. Types
    BY DistLockAssumption DEF Init, Types, ZkTypes, ClientTypes, LockTypes, PcType, Labels, ServerTypes
  <2>3. \A s \in Servers : Session(s)
    BY DEF Init, Session
  <2> QED BY <2>1, <2>2, <2>3 DEF LInv
<1>2. LInv /\ [Next]_vars => Types' /\ \A s \in Servers : Session(s)'
  <2> SUFFICES ASSUME LInv, [Next]_vars PROVE Types' /\ \A s \in Servers : Session(s)'
    OBVIOUS
  <2>1. CASE UNCHANGED vars
    <3>1. UNCHANGED <<zkVars, clientVars, lockVars, serverVars, faults>>
      BY <2>1, Zenon DEF vars
    <3>2. Types'
      BY <3>1, Zenon DEF LInv, Types, ZkTypes, ClientTypes, LockTypes, PcType, ServerTypes,
         zkVars, clientVars, lockVars, serverVars, callerVars
    <3> QED BY <3>1, <3>2, Zenon DEF LInv, Session, clientVars, lockVars, serverVars, callerVars
  <2>2. ASSUME NEW s \in Servers, LockHandle(s) \/ EventHandle(s)
        PROVE  Types' /\ \A u \in Servers : Session(u)'
    <3>1. PICK t \in Threads : pc[s][t] # "idle" /\ HandleChildrenChanged(s, t)
      BY <2>2, Zenon DEF LockHandle, EventHandle, Threads
    <3>2. UNCHANGED <<zkVars, clientVars, assigned_path, client_session_term, cur_session_term,
                      up, callerVars, faults>>
      BY <2>2, Zenon DEF LockHandle, EventHandle
    <3> QED BY <3>1, <3>2, HandleLock, Zenon
  <2>3. CASE Next
    BY <2>2, <2>3, QuietLock, RequestLock, ReadLock, TakeLock, EventLock, TermLock,
       ReconnectLock, LostLock, CloseLock, ProcessLock, Zenon DEF Next
  <2> QED BY <2>1, <2>3
<1>3. LInv /\ [Next]_vars => LInv'
  BY <1>2, NextFInv DEF LInv
<1> QED BY <1>1, <1>3, PTL DEF Spec

\* The state of ZooKeeper, ZkClient, DistLock and the name server has its type.
THEOREM LockTypesHold == Spec => []TypeOK
<1>1. LInv => TypeOK
  <2> SUFFICES ASSUME LInv PROVE TypeOK
    OBVIOUS
  <2>1. \A s \in Servers : /\ client_session_term[s] \in 0 .. session_term[s]
                           /\ cur_session_term[s] \in 0 .. session_term[s]
    BY DEF LInv, Types, ClientTypes, LockTypes, Session
  <2> QED BY <2>1, Zenon DEF LInv, FInv, FirstType, Types, ZkTypes, ClientTypes, LockTypes,
             PcType, Labels, ServerTypes, TypeOK
<1> QED BY <1>1, SessionTerms, PTL

\* A connected server that holds the lock in the current session term serves as
\* primary: OnLostLock of CheckZkClient, on its own thread, never leaves a holder
\* that its lock thread has no reason to wake up, unless the client connected
\* between CheckZkClient's test, or CloseZK, and that OnLostLock.
THEOREM LockedIsPrimaryHolds == Spec => []LockedIsPrimary
<1>1. LInv => LockedIsPrimary
  BY Zenon DEF LInv, Session, LockedIsPrimary
<1> QED BY <1>1, SessionTerms, PTL
=============================================================================
