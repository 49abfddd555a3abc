------------------------------ MODULE DistLock ------------------------------
(***************************************************************************)
(* The election of the primary name server: DistLock (src/zk/dist_lock.cc) *)
(* over ZkClient (src/zk/zk_client.cc), with the callbacks of the name     *)
(* server that make it primary or standby.                                 *)
(*                                                                         *)
(* Every name server has three threads that matter: the lock thread, which *)
(* runs InternalLock; the event thread of the ZooKeeper library, which     *)
(* runs ZkClient::HandleChildrenChanged and LogEvent; and the timer of     *)
(* CheckZkClient.  The operator's ConnectZK and DisConnectZK come on their *)
(* own threads.  DistLock::mu_ is held by the lock thread for a whole      *)
(* round and by the event thread during HandleChildrenChangedLocked;       *)
(* ZkClient::mu_ is held for one call, and by Reconnect while it closes    *)
(* the handle.  ZooKeeper itself is external: ephemeral sequential nodes,  *)
(* one-shot child watches, sessions, and a close that waits for the event  *)
(* thread.  CloseZK stores connected_ and closes the handle in one step.   *)
(***************************************************************************)
EXTENDS Naturals, FiniteSets, FiniteSetsExt

CONSTANTS
    Servers,     \* the name servers; a server stands for its endpoint, its lock value
    Faults,      \* which of "disconnect", "expire", "crash", "restart", "close", "connect"
    MaxFaults,   \* bound on the number of faults
    MaxNode      \* bound on the number of lock requests ever created

ASSUME DistLockAssumption == MaxFaults \in Nat /\ MaxNode \in Nat

VARIABLES
    \* ZooKeeper: the lock requests, the next sequence number, and for every
    \* server the number of its handle's session, whether the handle has that
    \* session, whether the library has nothing to connect, whether what it
    \* connects is a new session, the child watch, and the number of child events
    \* on the way to the event thread.
    nodes, next_seq, sid, alive, link, opening, watch, events,
    \* ZkClient: connected_, session_term_, whether children_callbacks_ has the
    \* lock's path, and whether mu_ is never released again.
    connected, session_term, callback, hung,
    \* DistLock: its members, the program counters of the two threads that run
    \* it, the first child each of them read and the term the lock thread read.
    lock_state, assigned_path, current_lock_node, current_lock_value,
    client_session_term, pc, first, cur_session_term,
    \* The name server: whether the process runs, NameServerImpl::running_, where
    \* CheckZkClient is, and whether DisConnectZK is between CloseZK and OnLostLock.
    up, running, checking, closing,
    \* History of a process: ConnectZK was called ("connect"); its client connected
    \* when OnLostLock was still to come ("late").
    history,
    faults

zkVars == <<nodes, next_seq, sid, alive, link, opening, watch, events>>
clientVars == <<connected, session_term, callback, hung>>
lockVars == <<lock_state, assigned_path, current_lock_node, current_lock_value,
              client_session_term, pc, first, cur_session_term>>
callerVars == <<checking, closing, history>>
serverVars == <<up, running, callerVars>>
vars == <<zkVars, clientVars, lockVars, serverVars, faults>>

Threads == {"lock", "event"}
NoServer == "none"
NoNode == [seq |-> 0, value |-> NoServer, session |-> 0]

LockNodes == [seq : Nat \ {0}, value : Servers, session : Nat]

\* The types; the session terms that DistLock remembers are ones that ZkClient has
\* counted.
TypeOK ==
    /\ nodes \subseteq LockNodes
    /\ next_seq \in Nat \ {0}
    /\ sid \in [Servers -> Nat]
    /\ alive \in [Servers -> BOOLEAN]
    /\ link \in [Servers -> BOOLEAN]
    /\ opening \in [Servers -> BOOLEAN]
    /\ watch \in [Servers -> BOOLEAN]
    /\ events \in [Servers -> Nat]
    /\ connected \in [Servers -> BOOLEAN]
    /\ session_term \in [Servers -> Nat]
    /\ callback \in [Servers -> BOOLEAN]
    /\ hung \in [Servers -> BOOLEAN]
    /\ lock_state \in [Servers -> {"kLocked", "kLostLock", "kTryLock"}]
    /\ assigned_path \in [Servers -> Nat]
    /\ current_lock_node \in [Servers -> Nat]
    /\ current_lock_value \in [Servers -> Servers \cup {NoServer}]
    /\ \A s \in Servers : client_session_term[s] \in 0 .. session_term[s]
    /\ pc \in [Servers -> [Threads -> {"idle", "read", "handle", "recover", "watch"}]]
    /\ first \in [Servers -> [Threads -> LockNodes \cup {NoNode}]]
    /\ \A s \in Servers : cur_session_term[s] \in 0 .. session_term[s]
    /\ up \in [Servers -> BOOLEAN]
    /\ running \in [Servers -> BOOLEAN]
    /\ checking \in [Servers -> {"no", "lost", "reconnect"}]
    /\ closing \in [Servers -> BOOLEAN]
    /\ history \in [Servers -> SUBSET {"connect", "late"}]
    /\ faults \in 0..MaxFaults

\* A server whose ZkClient::Init succeeded, before DistLock::Lock's first round.
Init ==
    /\ nodes = {}
    /\ next_seq = 1
    /\ sid = [s \in Servers |-> 1]
    /\ alive = [s \in Servers |-> TRUE]
    /\ link = [s \in Servers |-> TRUE]
    /\ opening = [s \in Servers |-> FALSE]
    /\ watch = [s \in Servers |-> FALSE]
    /\ events = [s \in Servers |-> 0]
    /\ connected = [s \in Servers |-> TRUE]
    /\ session_term = [s \in Servers |-> 1]
    /\ callback = [s \in Servers |-> FALSE]
    /\ hung = [s \in Servers |-> FALSE]
    /\ lock_state = [s \in Servers |-> "kLostLock"]
    /\ assigned_path = [s \in Servers |-> 0]
    /\ current_lock_node = [s \in Servers |-> 0]
    /\ current_lock_value = [s \in Servers |-> NoServer]
    /\ client_session_term = [s \in Servers |-> 0]
    /\ pc = [s \in Servers |-> [t \in Threads |-> "idle"]]
    /\ first = [s \in Servers |-> [t \in Threads |-> NoNode]]
    /\ cur_session_term = [s \in Servers |-> 0]
    /\ up = [s \in Servers |-> TRUE]
    /\ running = [s \in Servers |-> FALSE]
    /\ checking = [s \in Servers |-> "no"]
    /\ closing = [s \in Servers |-> FALSE]
    /\ history = [s \in Servers |-> {}]
    /\ faults = 0

-----------------------------------------------------------------------------
(* ZooKeeper, as ZkClient uses it (external). *)

\* A call on the handle is answered.
Answered(s) == link[s] /\ alive[s]

\* The calls that ZkClient refuses while connected_ is false.
Usable(s) == connected[s] /\ Answered(s)

\* Mutant: the children are sorted the other way round.
FirstOfReversed(ns) == IF ns = {} THEN NoNode ELSE CHOOSE n \in ns : \A m \in ns : n.seq >= m.seq

\* children[0] of a sorted non-empty GetChildren.
FirstOf(ns) == IF ns = {} THEN NoNode ELSE CHOOSE n \in ns : \A m \in ns : n.seq <= m.seq

\* A change of the children uses up every watch that is set.
Notify ==
    /\ events' = [s \in Servers |-> events[s] + (IF watch[s] THEN 1 ELSE 0)]
    /\ watch' = [s \in Servers |-> FALSE]

\* Session k of s ends: its nodes go, and the watch of the handle's session.
EndSession(s, k) ==
    LET mine == {n \in nodes : n.value = s /\ n.session = k}
        told == {u \in Servers : mine # {} /\ watch[u]}
        closed == IF k = sid[s] THEN {s} ELSE {}
    IN  /\ nodes' = nodes \ mine
        /\ events' = [u \in Servers |-> CASE u \in closed -> 0
                                          [] u \in told \ closed -> events[u] + 1
                                          [] OTHER -> events[u]]
        /\ watch' = [u \in Servers |-> watch[u] /\ u \notin told \cup closed]

\* A handle is closed.  Its session ends at once if ZooKeeper can be told.
CloseHandle(s) ==
    /\ alive' = [alive EXCEPT ![s] = FALSE]
    /\ IF Answered(s) THEN EndSession(s, sid[s])
       ELSE /\ events' = [events EXCEPT ![s] = 0]
            /\ watch' = [watch EXCEPT ![s] = FALSE]
            /\ UNCHANGED nodes

Goto(s, t, label) == pc' = [pc EXCEPT ![s][t] = label]

\* DistLock::mu_ is free.
Unlocked(s) == pc[s]["lock"] = "idle" /\ pc[s]["event"] # "recover"

-----------------------------------------------------------------------------
(* The lock thread: one round of InternalLock, in the steps at which other   *)
(* threads and servers can come between.                                     *)

\* (ZkClient::mu_ can be taken unless hung: every action that calls ZkClient.)
\* From the test of the state and of the session term to CreateNode.
LockRequest(s) ==
    /\ up[s] /\ ~hung[s]
    /\ Unlocked(s)
    /\ lock_state[s] = "kLostLock" \/ session_term[s] # client_session_term[s]
    /\ next_seq <= MaxNode
    /\ callback' = [callback EXCEPT ![s] = FALSE]
    /\ cur_session_term' = [cur_session_term EXCEPT ![s] = session_term[s]]
    /\ IF Usable(s)
       THEN /\ nodes' = nodes \cup {[seq |-> next_seq, value |-> s, session |-> sid[s]]}
            /\ next_seq' = next_seq + 1
            /\ Notify
            /\ assigned_path' = [assigned_path EXCEPT ![s] = next_seq]
            /\ Goto(s, "lock", "read")
       ELSE UNCHANGED <<nodes, next_seq, watch, events, assigned_path, pc>>
    /\ UNCHANGED <<sid, alive, link, opening, connected, session_term, hung, lock_state,
                   current_lock_node, current_lock_value, client_session_term, first, serverVars, faults>>

\* GetChildren, and the assignments after it.
LockRead(s) ==
    /\ pc[s]["lock"] = "read" /\ ~hung[s]
    /\ IF Usable(s)
       THEN /\ first' = [first EXCEPT ![s]["lock"] = FirstOf(nodes)]
            /\ lock_state' = [lock_state EXCEPT ![s] = "kTryLock"]
            /\ client_session_term' = [client_session_term EXCEPT ![s] = cur_session_term[s]]
            /\ Goto(s, "lock", "handle")
       ELSE /\ Goto(s, "lock", "idle")
            /\ UNCHANGED <<first, lock_state, client_session_term>>
    /\ UNCHANGED <<zkVars, clientVars, assigned_path, current_lock_node, current_lock_value,
                   cur_session_term, serverVars, faults>>

\* HandleChildrenChanged up to the callback of the name server.  GetNodeValue
\* leaves current_lock_value_ alone when it fails.
HandleChildrenChanged(s, t) ==
    LET f == first[s][t]
        value == IF Answered(s) /\ f \in nodes THEN f.value ELSE current_lock_value[s]
        mine == f.seq = assigned_path[s]
        lost == ~mine /\ lock_state[s] = "kLocked"
        taken == lock_state[s] = "kTryLock" /\ (mine \/ value = s)
    IN  /\ mine \/ ~hung[s]
        /\ current_lock_node' = [current_lock_node EXCEPT ![s] = f.seq]
        /\ current_lock_value' = IF mine THEN current_lock_value
                                 ELSE [current_lock_value EXCEPT ![s] = value]
        /\ running' = IF lost THEN [running EXCEPT ![s] = FALSE] ELSE running
        /\ lock_state' = IF lost THEN [lock_state EXCEPT ![s] = "kLostLock"] ELSE lock_state
        /\ Goto(s, t, IF taken THEN "recover" ELSE "watch")

LockHandle(s) ==
    /\ pc[s]["lock"] = "handle"
    /\ HandleChildrenChanged(s, "lock")
    /\ UNCHANGED <<zkVars, clientVars, assigned_path, client_session_term, first,
                   cur_session_term, up, callerVars, faults>>

\* The end of OnLocked, whose Recover takes long, and of HandleChildrenChanged.
OnLocked(s, t) ==
    /\ pc[s][t] = "recover" /\ ~hung[s]
    /\ running' = [running EXCEPT ![s] = TRUE]
    /\ lock_state' = [lock_state EXCEPT ![s] = "kLocked"]
    /\ current_lock_value' = [current_lock_value EXCEPT ![s] = s]
    /\ Goto(s, t, "watch")
    /\ UNCHANGED <<zkVars, clientVars, assigned_path, current_lock_node, client_session_term,
                   first, cur_session_term, up, callerVars, faults>>

\* Mutant: an event does not set the watch again.
WatchChildrenOnce(s, t) ==
    /\ pc[s][t] = "watch" /\ ~hung[s]
    /\ callback' = [callback EXCEPT ![s] = TRUE]
    /\ watch' = IF Usable(s) /\ t = "lock" THEN [watch EXCEPT ![s] = TRUE] ELSE watch
    /\ Goto(s, t, "idle")
    /\ UNCHANGED <<nodes, next_seq, sid, alive, link, opening, events, connected, session_term,
                   hung, lock_state, assigned_path, current_lock_node, current_lock_value,
                   client_session_term, first, cur_session_term, serverVars, faults>>

\* WatchChildren, the last call of a round and of an event.
WatchChildren(s, t) ==
    /\ pc[s][t] = "watch" /\ ~hung[s]
    /\ callback' = [callback EXCEPT ![s] = TRUE]
    /\ watch' = IF Usable(s) THEN [watch EXCEPT ![s] = TRUE] ELSE watch
    /\ Goto(s, t, "idle")
    /\ UNCHANGED <<nodes, next_seq, sid, alive, link, opening, events, connected, session_term,
                   hung, lock_state, assigned_path, current_lock_node, current_lock_value,
                   client_session_term, first, cur_session_term, serverVars, faults>>

-----------------------------------------------------------------------------
(* The event thread: ZkClient::HandleChildrenChanged. *)

\* The event arrives: the callback is looked up and the children are read.
EventRead(s) ==
    /\ up[s] /\ ~hung[s]
    /\ events[s] > 0
    /\ Answered(s)
    /\ pc[s]["event"] = "idle"
    /\ events' = [events EXCEPT ![s] = events[s] - 1]
    /\ Goto(s, "event", CASE ~callback[s] -> "idle"
                          [] callback[s] /\ ~Usable(s) -> "watch"
                          [] OTHER -> "handle")
    /\ first' = IF callback[s] /\ Usable(s)
                THEN [first EXCEPT ![s]["event"] = FirstOf(nodes)] ELSE first
    /\ UNCHANGED <<nodes, next_seq, sid, alive, link, opening, watch, clientVars, lock_state,
                   assigned_path, current_lock_node, current_lock_value, client_session_term,
                   cur_session_term, serverVars, faults>>

\* The callback, HandleChildrenChangedLocked.
EventHandle(s) ==
    /\ pc[s]["event"] = "handle"
    /\ Unlocked(s)
    /\ HandleChildrenChanged(s, "event")
    /\ UNCHANGED <<zkVars, clientVars, assigned_path, client_session_term, first,
                   cur_session_term, up, callerVars, faults>>

-----------------------------------------------------------------------------
(* The connection, and what ZkClient::LogEvent makes of its session events.  *)

\* The connection breaks: a CONNECTING event, at which LogEvent just waits.
Disconnect(s) ==
    /\ "disconnect" \in Faults /\ faults < MaxFaults
    /\ up[s] /\ Answered(s)
    /\ link' = [link EXCEPT ![s] = FALSE]
    /\ faults' = faults + 1
    /\ UNCHANGED <<nodes, next_seq, sid, alive, opening, watch, events, clientVars, lockVars,
                   serverVars>>

\* ZooKeeper ends the session of a broken connection.
Expire(s) ==
    /\ "expire" \in Faults
    /\ up[s] /\ ~link[s] /\ alive[s]
    /\ alive' = [alive EXCEPT ![s] = FALSE]
    /\ EndSession(s, sid[s])
    /\ UNCHANGED <<next_seq, sid, link, opening, clientVars, lockVars, serverVars, faults>>

\* ZooKeeper ends a session that no handle keeps any more.
Lapse(s) ==
    \E n \in nodes :
        /\ n.value = s
        /\ ~up[s] \/ ~alive[s] \/ n.session # sid[s]
        /\ EndSession(s, n.session)
        /\ UNCHANGED <<next_seq, sid, alive, link, opening, clientVars, lockVars, serverVars,
                       faults>>

\* The library reaches ZooKeeper again.  The session goes on or a new one starts,
\* and Connected starts a new term, or the client learns that it has expired.
LogEvent(s) ==
    LET on == alive[s] \/ opening[s] IN
    /\ up[s] /\ ~link[s] /\ ~hung[s]
    /\ pc[s]["event"] = "idle"
    /\ link' = [link EXCEPT ![s] = TRUE]
    /\ alive' = [alive EXCEPT ![s] = on]
    /\ opening' = [opening EXCEPT ![s] = FALSE]
    /\ connected' = [connected EXCEPT ![s] = on]
    /\ session_term' = [session_term EXCEPT ![s] = session_term[s] + (IF on THEN 1 ELSE 0)]
    /\ history' = IF on /\ (checking[s] = "lost" \/ closing[s])
                  THEN [history EXCEPT ![s] = @ \cup {"late"}] ELSE history
    /\ UNCHANGED <<nodes, next_seq, sid, watch, events, callback, hung, lockVars, up, running,
                   checking, closing, faults>>

\* ZkClient::Reconnect closes the handle and opens another, both under mu_, and
\* waits for Connected as long as a session may take, connected_ being what it was.
\* A watcher that runs when the handle is closed needs mu_ to end.
Reconnect(s) ==
    /\ ~hung[s]
    /\ CloseHandle(s)
    /\ link' = [link EXCEPT ![s] = FALSE]
    /\ IF pc[s]["event"] = "idle"
       THEN /\ opening' = [opening EXCEPT ![s] = TRUE]
            /\ sid' = IF opening[s] THEN sid ELSE [sid EXCEPT ![s] = sid[s] + 1]
            /\ UNCHANGED hung
       ELSE /\ hung' = [hung EXCEPT ![s] = TRUE]
            /\ UNCHANGED <<opening, sid>>
    /\ UNCHANGED <<next_seq, connected, session_term, callback>>

-----------------------------------------------------------------------------
(* The name server. *)

\* Mutants: OnLostLock whatever the connection is; no OnLostLock.
CheckZkClientAlways(s) ==
    /\ up[s] /\ ~hung[s]
    /\ checking[s] = "no"
    /\ checking' = [checking EXCEPT ![s] = "lost"]
    /\ UNCHANGED <<zkVars, clientVars, lockVars, up, running, closing, history, faults>>

CheckZkClientKeeps(s) ==
    /\ up[s] /\ ~hung[s]
    /\ ~connected[s] /\ checking[s] = "no"
    /\ checking' = [checking EXCEPT ![s] = "reconnect"]
    /\ UNCHANGED <<zkVars, clientVars, lockVars, up, running, closing, history, faults>>

\* CheckZkClient finds the client disconnected: OnLostLock, then Reconnect.
CheckZkClient(s) ==
    /\ up[s] /\ ~hung[s]
    /\ ~connected[s] /\ checking[s] = "no"
    /\ checking' = [checking EXCEPT ![s] = "lost"]
    /\ UNCHANGED <<zkVars, clientVars, lockVars, up, running, closing, history, faults>>

\* OnLostLock, of CheckZkClient and of DisConnectZK.
OnLostLock(s) ==
    /\ running' = [running EXCEPT ![s] = FALSE]
    /\ \/ /\ checking[s] = "lost"
          /\ checking' = [checking EXCEPT ![s] = "reconnect"]
          /\ UNCHANGED closing
       \/ /\ closing[s]
          /\ closing' = [closing EXCEPT ![s] = FALSE]
          /\ UNCHANGED checking
    /\ UNCHANGED <<zkVars, clientVars, lockVars, up, history, faults>>

\* Whatever becomes of the wait, the next round comes after it.
CheckZkClientReconnect(s) ==
    /\ checking[s] = "reconnect"
    /\ Reconnect(s)
    /\ checking' = [checking EXCEPT ![s] = "no"]
    /\ UNCHANGED <<lockVars, up, running, closing, history, faults>>

\* The operator's ConnectZK and DisConnectZK.
ConnectZK(s) ==
    /\ "connect" \in Faults /\ faults < MaxFaults
    /\ up[s]
    /\ Reconnect(s)
    /\ history' = [history EXCEPT ![s] = @ \cup {"connect"}]
    /\ faults' = faults + 1
    /\ UNCHANGED <<lockVars, up, running, checking, closing>>

\* Mutant: the session term is reset with the other members.
DisConnectZKResets(s) ==
    /\ "close" \in Faults /\ faults < MaxFaults
    /\ up[s] /\ ~hung[s] /\ ~closing[s]
    /\ pc[s]["event"] = "idle"
    /\ CloseHandle(s)
    /\ link' = [link EXCEPT ![s] = TRUE]
    /\ opening' = [opening EXCEPT ![s] = FALSE]
    /\ connected' = [connected EXCEPT ![s] = FALSE]
    /\ session_term' = [session_term EXCEPT ![s] = 0]
    /\ closing' = [closing EXCEPT ![s] = TRUE]
    /\ faults' = faults + 1
    /\ UNCHANGED <<next_seq, sid, callback, hung, lockVars, up, running, checking, history>>

\* CloseZK, which does not hold mu_ when it waits for a watcher; OnLostLock follows.
DisConnectZK(s) ==
    /\ "close" \in Faults /\ faults < MaxFaults
    /\ up[s] /\ ~hung[s] /\ ~closing[s]
    /\ pc[s]["event"] = "idle"
    /\ CloseHandle(s)
    /\ link' = [link EXCEPT ![s] = TRUE]
    /\ opening' = [opening EXCEPT ![s] = FALSE]
    /\ connected' = [connected EXCEPT ![s] = FALSE]
    /\ closing' = [closing EXCEPT ![s] = TRUE]
    /\ faults' = faults + 1
    /\ UNCHANGED <<next_seq, sid, session_term, callback, hung, lockVars, up, running, checking,
                   history>>

\* The process dies; its session lives on until ZooKeeper ends it.
Crash(s) ==
    /\ "crash" \in Faults /\ faults < MaxFaults
    /\ up[s]
    /\ up' = [up EXCEPT ![s] = FALSE]
    /\ running' = [running EXCEPT ![s] = FALSE]
    /\ checking' = [checking EXCEPT ![s] = "no"]
    /\ closing' = [closing EXCEPT ![s] = FALSE]
    /\ history' = [history EXCEPT ![s] = {}]
    /\ watch' = [watch EXCEPT ![s] = FALSE]
    /\ events' = [events EXCEPT ![s] = 0]
    /\ connected' = [connected EXCEPT ![s] = FALSE]
    /\ callback' = [callback EXCEPT ![s] = FALSE]
    /\ hung' = [hung EXCEPT ![s] = FALSE]
    /\ opening' = [opening EXCEPT ![s] = FALSE]
    /\ lock_state' = [lock_state EXCEPT ![s] = "kLostLock"]
    /\ assigned_path' = [assigned_path EXCEPT ![s] = 0]
    /\ current_lock_node' = [current_lock_node EXCEPT ![s] = 0]
    /\ current_lock_value' = [current_lock_value EXCEPT ![s] = NoServer]
    /\ client_session_term' = [client_session_term EXCEPT ![s] = 0]
    /\ session_term' = [session_term EXCEPT ![s] = 0]
    /\ cur_session_term' = [cur_session_term EXCEPT ![s] = 0]
    /\ pc' = [pc EXCEPT ![s] = [t \in Threads |-> "idle"]]
    /\ first' = [first EXCEPT ![s] = [t \in Threads |-> NoNode]]
    /\ faults' = faults + 1
    /\ UNCHANGED <<nodes, next_seq, sid, alive, link>>

\* NameServerImpl::Init of a new process.
Restart(s) ==
    /\ "restart" \in Faults
    /\ ~up[s]
    /\ up' = [up EXCEPT ![s] = TRUE]
    /\ sid' = [sid EXCEPT ![s] = sid[s] + 1]
    /\ alive' = [alive EXCEPT ![s] = TRUE]
    /\ link' = [link EXCEPT ![s] = TRUE]
    /\ connected' = [connected EXCEPT ![s] = TRUE]
    /\ session_term' = [session_term EXCEPT ![s] = 1]
    /\ UNCHANGED <<nodes, next_seq, opening, watch, events, callback, hung, lockVars, running,
                   callerVars, faults>>

Next ==
    \E s \in Servers :
        \/ LockRequest(s) \/ LockRead(s) \/ LockHandle(s)
        \/ EventRead(s) \/ EventHandle(s)
        \/ \E t \in Threads : OnLocked(s, t) \/ WatchChildren(s, t)
        \/ Disconnect(s) \/ Expire(s) \/ Lapse(s) \/ LogEvent(s)
        \/ CheckZkClient(s) \/ OnLostLock(s) \/ CheckZkClientReconnect(s)
        \/ ConnectZK(s) \/ DisConnectZK(s)
        \/ Crash(s) \/ Restart(s)

Spec == Init /\ [][Next]_vars

\* The threads of a live process are scheduled, ZooKeeper delivers events and
\* ends the sessions of processes that are gone, and a connection comes back.
Fairness ==
    \A s \in Servers :
        /\ WF_vars(LockRequest(s) \/ LockRead(s) \/ LockHandle(s) \/ OnLocked(s, "lock")
                    \/ WatchChildren(s, "lock"))
        /\ WF_vars(EventRead(s)) /\ WF_vars(EventHandle(s))
        /\ WF_vars(OnLocked(s, "event") \/ WatchChildren(s, "event"))
        /\ WF_vars(Lapse(s)) /\ WF_vars(LogEvent(s))
        /\ WF_vars(CheckZkClient(s)) /\ WF_vars(OnLostLock(s))
        /\ WF_vars(CheckZkClientReconnect(s))
        /\ WF_vars(Restart(s))

FairSpec == Spec /\ Fairness

-----------------------------------------------------------------------------

\* NameServerImpl serves as the primary: every handler tests running_.
Primaries == {s \in Servers : running[s]}

\* A server that has taken the lock because its own request is the first child
\* (dist_lock.cc:92) holds the first of all requests as long as its session
\* lives: nobody else can take the lock on its own path in the meantime,
\* whatever both of its threads, the other servers and the sessions do.
FirstNodeLeads ==
    \A s \in Servers :
        /\ lock_state[s] = "kLocked"
        /\ current_lock_node[s] = assigned_path[s]
        /\ \E n \in nodes : n.seq = assigned_path[s]
        => FirstOf(nodes).seq = assigned_path[s]

\* A server that holds the lock, and whose lock thread has no reason to ask for
\* it again, serves as primary: OnLostLock of CheckZkClient, on its own thread,
\* never leaves a holder that answers "nameserver is not leader" for ever, unless
\* the client connects again between the test (1581), or CloseZK (2036), and the
\* OnLostLock that follows it.
LockedIsPrimary ==
    \A s \in Servers :
        /\ up[s] /\ connected[s] /\ "late" \notin history[s]
        /\ lock_state[s] = "kLocked"
        /\ session_term[s] = client_session_term[s]
        => running[s]

\* A primary whose session has ended, which no call reconnects yet, steps down,
\* unless the operator's ConnectZK has been called on it: that closes the session
\* and opens another with running_ left alone (name_server_impl.cc:2017).  And no
\* primary is without a session for ever, also where OnLocked ends after the
\* OnLostLock of CheckZkClient.  Neither holds once Reconnect waits for a watcher
\* that waits for its mutex (zk_client.cc:576).
StepsDown ==
    \A s \in Servers :
        /\ (running[s] /\ ~alive[s] /\ ~opening[s] /\ checking[s] = "no")
              ~> (~running[s] \/ "connect" \in history[s] \/ hung[s])
        /\ (running[s] /\ ~alive[s]) ~> (~running[s] \/ alive[s] \/ hung[s])

\* A server is at rest with a first child in mind that is no longer the first:
\* the children changed after it had read them and before it set its watch.
MissedChange(s) ==
    /\ up[s] /\ connected[s] /\ watch[s] /\ events[s] = 0
    /\ \A t \in Threads : pc[s][t] = "idle"
    /\ current_lock_node[s] # FirstOf(nodes).seq

\* A holder of the lock has been stopped by an OnLostLock that came late.
LateStop(s) == "late" \in history[s] /\ lock_state[s] = "kLocked" /\ ~running[s]

\* There is a primary again and again, whatever sessions end and connections
\* break.  There are three ways to be without one for ever: a server misses a
\* change, as the read (zk_client.cc:334, dist_lock.cc:69) comes before the watch;
\* the OnLostLock of DisConnectZK comes after a new session's OnLocked; Reconnect
\* hangs in all of them.  The bound on requests ends the claim.
PrimaryReturns ==
    []<>(\/ Primaries # {} \/ next_seq > MaxNode
         \/ \E s \in Servers : MissedChange(s) \/ LateStop(s)
         \/ \A s \in Servers : hung[s])

\* "Only one primary node can exist at the same time. [...] If the current
\* primary node unexpectedly goes offline, remaining secondary nodes will use
\* ZooKeeper to elect a new primary node." (docs/en/reference/arch/
\* online_arch.md:13): once the faults are over there are not two primaries.
OnePrimary == <>[](Cardinality(Primaries) <= 1 \/ next_seq > MaxNode)
=============================================================================
