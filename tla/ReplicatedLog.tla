---------------------------- MODULE ReplicatedLog ----------------------------
(***************************************************************************)
(* What binlog replication promises, without threads, requests, retries or *)
(* handlers: one log, of which every replica that runs holds a prefix.     *)
(* A prefix grows by the next entry or is replaced as a whole, when the    *)
(* replica loads its table again.  A replica of another cluster copies     *)
(* only what has been released to it.  LogReplication implements this      *)
(* specification.                                                          *)
(***************************************************************************)
EXTENDS Naturals

CONSTANTS
    Local,      \* replicas of the leader's cluster
    Remote      \* replicas of a follower cluster

VARIABLES
    length,     \* number of entries of the log
    released,   \* how much of it the remote replicas may copy
    copy,       \* the entries each replica holds
    live        \* the replicas that run

vars == <<length, released, copy, live>>

Replicas == Local \cup Remote

\* What a replica may copy at this moment.
Visible(r) == IF r \in Remote THEN released ELSE length

Init ==
    /\ length = 0 /\ released = 0
    /\ copy = [r \in Replicas |-> {}]
    /\ live = [r \in Replicas |-> TRUE]

\* The leader appends an entry.  It releases it at once only when it has no
\* replicas in its own cluster, which this module does not follow.
Append ==
    /\ length' = length + 1
    /\ released' \in {released, length + 1}
    /\ UNCHANGED <<copy, live>>

\* What a running local replica holds is released.
Release(r) ==
    /\ live[r]
    /\ \E i \in copy[r] : i > released /\ released' = i
    /\ UNCHANGED <<length, copy, live>>

\* A running replica that holds 1 .. n-1 takes entry n.
Extend(r) ==
    /\ live[r]
    /\ \E n \in 1 .. Visible(r) :
          /\ copy[r] = 1 .. n - 1
          /\ copy' = [copy EXCEPT ![r] = 1 .. n]
    /\ UNCHANGED <<length, released, live>>

\* A replica stops, and comes back with some prefix of the log.
Lose(r) ==
    /\ live[r]
    /\ live' = [live EXCEPT ![r] = FALSE]
    /\ copy' = [copy EXCEPT ![r] = {}]
    /\ UNCHANGED <<length, released>>

Restore(r) ==
    /\ ~live[r]
    /\ live' = [live EXCEPT ![r] = TRUE]
    /\ \E n \in 0 .. length : copy' = [copy EXCEPT ![r] = 1 .. n]
    /\ UNCHANGED <<length, released>>

Next ==
    \/ Append
    \/ \E r \in Local : Release(r)
    \/ \E r \in Replicas : Extend(r) \/ Lose(r) \/ Restore(r)

Spec == Init /\ [][Next]_vars
=============================================================================
