--------------------------- MODULE BulkLoadProofs ---------------------------
(***************************************************************************)
(* Bulk loads do not mix and do not outrun the binlog, for any number of   *)
(* importers and parts.  The argument: an importer that got past its part  *)
(* 0 owns the catalog entry until its own eof part removes it, so every    *)
(* lookup in between finds its own receiver.                               *)
(***************************************************************************)
EXTENDS BulkLoad, TLAPS

\* A step that names no prover has a minute for each.
USE SMTT(60), ZenonT(60)

\* The importer's load is under way: its part 0 has created a receiver and
\* neither an error nor its eof part has ended it.
Holds(i) ==
    \/ client[i].pc = "ready" /\ client[i].part > 0
    \/ handler[i].pc \in {"check", "append_get"} /\ client[i].part > 0
    \/ handler[i].pc \in {"append", "binlog_get", "binlog", "set_expire",
                          "load_get", "load", "remove"}
    \/ handler[i].pc = "ok" /\ ~IsEof(client[i].part)

\* One request at a time, and only the eof part removes the receiver.
Shape(i) ==
    /\ client[i].part \in Parts
    /\ client[i].pc = "ready" => handler[i].pc = "idle"
    /\ handler[i].pc \in {"remove", "enable_expire"} => IsEof(client[i].part)

\* The catalog entry belongs to the load under way, and so does every
\* receiver that its handler has looked up.
Owner(i) ==
    /\ Holds(i) => catalog = i
    /\ handler[i].pc \in {"append", "binlog", "load"} => handler[i].ref = i

\* Nothing was received before part 0.
Fresh(i) ==
    client[i].part = 0 /\ (client[i].pc = "ready" \/ handler[i].pc \in {"check", "append_get"})
        => receiver[i].data_blocks = <<>>

\* Between the append of a block and the write of its binlog the block is the
\* one that the binlog lacks, and it is that of the latest part.
Pending(i) ==
    handler[i].pc \in {"binlog_get", "binlog"} =>
        LET s == receiver[i].data_blocks IN
        /\ receiver[i].next_part_id = client[i].part + 1
        /\ Len(s) > 0
        /\ \A k \in 1 .. Len(s) - 1 : s[k] \in Range(binlog)

\* At any other point of the load the binlog holds every block.
Logged(i) ==
    Holds(i) /\ handler[i].pc \notin {"binlog_get", "binlog"}
        => \A b \in Range(receiver[i].data_blocks) : b \in Range(binlog)

ImporterInv(i) == Shape(i) /\ Owner(i) /\ Fresh(i) /\ Pending(i) /\ Logged(i)

IInv ==
    /\ TypeOK
    /\ \A i \in Importers : ImporterInv(i)
    /\ OneImporterPerLoad
    /\ TableRowsLogged

-----------------------------------------------------------------------------
(* Facts about the constants and about sequences.                          *)

LEMMA PartFacts ==
    /\ LastPart \in Nat \ {0}
    /\ NData \in Nat \ {0}
    /\ Parts = 0 .. LastPart
    /\ 0 \in Parts
    /\ HasData(0)
    /\ None \notin Importers
BY BulkLoadAssumption DEF LastPart, Parts, HasData

\* What Append does to a sequence, position by position.
LEMMA AppendFacts ==
    ASSUME NEW S, NEW b \in Seq(S), NEW d \in S
    PROVE  /\ DOMAIN Append(b, d) = 1 .. Len(b) + 1 /\ Len(b) \in Nat
           /\ DOMAIN b = 1 .. Len(b) /\ Append(b, d)[Len(b) + 1] = d
           /\ \A k \in 1 .. Len(b) : Append(b, d)[k] = b[k]
OBVIOUS

\* Append adds one element to the range of a sequence, its last.
LEMMA AppendRange ==
    ASSUME NEW S, NEW s \in Seq(S), NEW e \in S
    PROVE  /\ Append(s, e) \in Seq(S)
           /\ Len(Append(s, e)) = Len(s) + 1
           /\ \A k \in 1 .. Len(s) : Append(s, e)[k] \in Range(s)
           /\ Range(Append(s, e)) = Range(s) \cup {e}
<1>1. /\ Append(s, e) \in Seq(S)
      /\ Len(s) \in Nat
      /\ Len(Append(s, e)) = Len(s) + 1
      /\ DOMAIN s = 1 .. Len(s)
      /\ DOMAIN Append(s, e) = 1 .. Len(s) + 1
      /\ Append(s, e)[Len(s) + 1] = e
      /\ \A k \in 1 .. Len(s) : Append(s, e)[k] = s[k]
  OBVIOUS
<1>2. 1 .. Len(s) + 1 = (1 .. Len(s)) \cup {Len(s) + 1}
  BY <1>1
<1>3. Range(Append(s, e)) = Range(s) \cup {e}
  BY <1>1, <1>2 DEF Range
<1> QED BY <1>1, <1>3 DEF Range

\* The types of the three tables of importers, as sets of their own.
HandlerType == [Importers -> [pc : HandlerPc, ref : Importers \cup {None}]]
ReceiverType == [Importers -> [next_part_id : 0 .. LastPart + 1, data_blocks : Seq(Block)]]
ClientType == [Importers -> [pc : {"ready", "wait", "done", "failed"}, part : 0 .. LastPart + 1]]

LEMMA TypeParts ==
    ASSUME TypeOK
    PROVE  handler \in HandlerType /\ receiver \in ReceiverType /\ client \in ClientType
BY DEF TypeOK, HandlerType, ReceiverType, ClientType

\* TypeOK after a step, variable by variable.
LEMMA TypeNext ==
    ASSUME TypeOK,
           catalog' = catalog \/ catalog' \in Importers \cup {None},
           receiver' = receiver \/ receiver' \in ReceiverType,
           handler' = handler \/ handler' \in HandlerType,
           client' = client \/ client' \in ClientType,
           table' = table \/ table' \subseteq Parts \X Block,
           expire' = expire \/ expire' \in BOOLEAN,
           binlog' = binlog \/ binlog' \in Seq(Block)
    PROVE  TypeOK'
<1>1. handler' \in HandlerType /\ receiver' \in ReceiverType /\ client' \in ClientType
  BY TypeParts
<1>2. /\ catalog' \in Importers \cup {None}
      /\ table' \subseteq Parts \X Block
      /\ expire' \in BOOLEAN
      /\ binlog' \in Seq(Block)
  BY Zenon DEF TypeOK
<1> QED BY <1>1, <1>2, Zenon DEF TypeOK, HandlerType, ReceiverType, ClientType

\* Another record for one importer's handler.
LEMMA HandlerSet ==
    ASSUME TypeOK, NEW i \in Importers, NEW pc \in HandlerPc, NEW ref \in Importers \cup {None},
           handler' = [handler EXCEPT ![i] = [pc |-> pc, ref |-> ref]]
    PROVE  /\ handler' \in HandlerType
           /\ handler'[i].pc = pc
           /\ handler'[i].ref = ref
           /\ \A j \in Importers \ {i} : handler'[j] = handler[j]
BY TypeParts DEF HandlerType

\* Another progress of one importer.
LEMMA ClientPc ==
    ASSUME TypeOK, NEW i \in Importers, NEW pc \in {"ready", "wait", "done", "failed"},
           client' = [client EXCEPT ![i].pc = pc]
    PROVE  /\ client' \in ClientType
           /\ client'[i].pc = pc
           /\ client'[i].part = client[i].part
           /\ \A j \in Importers \ {i} : client'[j] = client[j]
<1>1. client \in ClientType
  BY TypeParts
<1>2. client' = [client EXCEPT ![i] = [client[i] EXCEPT !.pc = pc]]
  OBVIOUS
<1>3. /\ [client[i] EXCEPT !.pc = pc]
           \in [pc : {"ready", "wait", "done", "failed"}, part : 0 .. LastPart + 1]
      /\ [client[i] EXCEPT !.pc = pc].pc = pc
      /\ [client[i] EXCEPT !.pc = pc].part = client[i].part
  BY <1>1 DEF ClientType
<1> QED BY <1>1, <1>2, <1>3 DEF ClientType

\* Another next_part_id_ of one receiver.
LEMMA ReceiverPart ==
    ASSUME TypeOK, NEW i \in Importers, NEW n \in 0 .. LastPart + 1,
           receiver' = [receiver EXCEPT ![i].next_part_id = n]
    PROVE  /\ receiver' \in ReceiverType
           /\ receiver'[i].data_blocks = receiver[i].data_blocks
           /\ \A j \in Importers \ {i} : receiver'[j] = receiver[j]
<1>1. receiver \in ReceiverType
  BY TypeParts
<1>2. receiver' = [receiver EXCEPT ![i] = [receiver[i] EXCEPT !.next_part_id = n]]
  OBVIOUS
<1>3. /\ [receiver[i] EXCEPT !.next_part_id = n]
           \in [next_part_id : 0 .. LastPart + 1, data_blocks : Seq(Block)]
      /\ [receiver[i] EXCEPT !.next_part_id = n].data_blocks = receiver[i].data_blocks
  <2>1. receiver[i] \in [next_part_id : 0 .. LastPart + 1, data_blocks : Seq(Block)]
    BY <1>1, Zenon DEF ReceiverType
  <2>2. ASSUME NEW A, NEW B, NEW q \in [next_part_id : A, data_blocks : B], NEW m \in A
        PROVE  /\ [q EXCEPT !.next_part_id = m] \in [next_part_id : A, data_blocks : B]
               /\ [q EXCEPT !.next_part_id = m].data_blocks = q.data_blocks
    OBVIOUS
  <2> QED BY <2>1, <2>2, Zenon
<1> QED BY <1>1, <1>2, <1>3 DEF ReceiverType

\* Another record for one receiver.
LEMMA ReceiverSet ==
    ASSUME TypeOK, NEW i \in Importers, NEW n \in 0 .. LastPart + 1, NEW d \in Seq(Block),
           receiver' = [receiver EXCEPT ![i] = [next_part_id |-> n, data_blocks |-> d]]
    PROVE  /\ receiver' \in ReceiverType
           /\ receiver'[i].next_part_id = n
           /\ receiver'[i].data_blocks = d
           /\ \A j \in Importers \ {i} : receiver'[j] = receiver[j]
BY TypeParts DEF ReceiverType

\* The fields of the records that TypeOK is about.
LEMMA TypeFacts ==
    ASSUME TypeOK, NEW i \in Importers
    PROVE  /\ receiver[i].next_part_id \in 0 .. LastPart + 1
           /\ receiver[i].data_blocks \in Seq(Block)
           /\ handler[i].pc \in HandlerPc
           /\ handler[i].ref \in Importers \cup {None}
           /\ client[i].pc \in {"ready", "wait", "done", "failed"}
           /\ client[i].part \in 0 .. LastPart + 1
BY DEF TypeOK

\* A step of another importer's request keeps what is known of importer j.
LEMMA OthersKept ==
    ASSUME NEW j \in Importers, ImporterInv(j),
           handler'[j] = handler[j], client'[j] = client[j], receiver'[j] = receiver[j],
           catalog = j => catalog' = j,
           \A b \in Range(binlog) : b \in Range(binlog')
    PROVE  ImporterInv(j)'
<1>1. Holds(j)' <=> Holds(j)
  BY DEF Holds, IsEof
<1>2. Shape(j)' /\ Owner(j)' /\ Fresh(j)'
  BY <1>1 DEF ImporterInv, Shape, Owner, Fresh, IsEof
<1>3. Pending(j)'
  BY DEF ImporterInv, Pending
<1>4. Logged(j)'
  BY <1>1 DEF ImporterInv, Logged
<1> QED BY <1>2, <1>3, <1>4 DEF ImporterInv

\* A step that touches neither receivers, table nor binlog keeps the two
\* properties.
LEMMA BlocksKept ==
    ASSUME IInv, UNCHANGED <<receiver, table, binlog>>
    PROVE  OneImporterPerLoad' /\ TableRowsLogged'
BY DEF IInv, OneImporterPerLoad, TableRowsLogged

-----------------------------------------------------------------------------
(* The importer's steps.                                                   *)

LEMMA SendRequestStep ==
    ASSUME IInv, NEW i \in Importers, SendRequest(i)
    PROVE  IInv'
<1> USE PartFacts
<1>1. /\ client' \in ClientType
      /\ client'[i].pc = "wait" /\ client'[i].part = client[i].part
      /\ \A j \in Importers \ {i} : client'[j] = client[j]
  BY ClientPc, Zenon DEF IInv, SendRequest
<1>2. /\ handler' \in HandlerType
      /\ handler'[i].pc = "check"
      /\ \A j \in Importers \ {i} : handler'[j] = handler[j]
  BY HandlerSet, Zenon DEF IInv, SendRequest, HandlerPc
<1>3. TypeOK'
  BY <1>1, <1>2, TypeNext DEF IInv, SendRequest
<1>4. ImporterInv(i)'
  BY <1>1, <1>2, TypeFacts, Zenon
     DEF IInv, ImporterInv, Shape, Owner, Fresh, Pending, Logged, Holds, IsEof, SendRequest
<1>5. \A j \in Importers \ {i} : ImporterInv(j)'
  BY <1>1, <1>2, OthersKept DEF IInv, SendRequest
<1> QED BY <1>3, <1>4, <1>5, BlocksKept DEF IInv, SendRequest

LEMMA TimeoutStep ==
    ASSUME IInv, NEW i \in Importers, Timeout(i)
    PROVE  IInv'
<1> USE PartFacts
<1>1. /\ client' \in ClientType
      /\ client'[i].pc = "failed" /\ client'[i].part = client[i].part
      /\ \A j \in Importers \ {i} : client'[j] = client[j]
  BY ClientPc, Zenon DEF IInv, Timeout
<1>2. TypeOK'
  BY <1>1, TypeNext DEF IInv, Timeout
<1>3. ImporterInv(i)'
  BY <1>1, TypeFacts, Zenon
     DEF IInv, ImporterInv, Shape, Owner, Fresh, Pending, Logged, Holds, IsEof, Timeout
<1>4. \A j \in Importers \ {i} : ImporterInv(j)'
  BY <1>1, OthersKept DEF IInv, Timeout
<1> QED BY <1>2, <1>3, <1>4, BlocksKept DEF IInv, Timeout

\* The next part is sent only after an "ok" that was not the eof part's.
LEMMA RespondStep ==
    ASSUME IInv, NEW i \in Importers, Respond(i)
    PROVE  IInv'
<1> USE PartFacts
<1>1. client[i].part \in 0 .. LastPart
  BY DEF IInv, ImporterInv, Shape
<1>2. TypeOK'
  <2>1. TypeOK /\ "idle" \in HandlerPc /\ None \in Importers \cup {None}
    BY Zenon DEF IInv, HandlerPc
  <2>2. handler' = [handler EXCEPT ![i] = [pc |-> "idle", ref |-> None]]
    BY Zenon DEF Respond, Idle
  <2>3. handler' \in HandlerType
    BY <2>1, <2>2, HandlerSet, Zenon
  <2>4. [pc |-> "ready", part |-> client[i].part + 1]
           \in [pc : {"ready", "wait", "done", "failed"}, part : 0 .. LastPart + 1]
    <3>1. client[i].part + 1 \in 0 .. LastPart + 1
      BY <1>1
    <3> QED BY <3>1, Zenon
  <2>5. ASSUME client' = [client EXCEPT ![i] = [pc |-> "ready", part |-> @.part + 1]]
        PROVE  client' \in ClientType
    <3>1. ASSUME NEW R, NEW c \in [Importers -> R], [pc |-> "ready", part |-> c[i].part + 1] \in R
          PROVE  [c EXCEPT ![i] = [pc |-> "ready", part |-> @.part + 1]] \in [Importers -> R]
      BY <3>1, Zenon
    <3>2. client \in [Importers -> [pc : {"ready", "wait", "done", "failed"}, part : 0 .. LastPart + 1]]
      BY <2>1, TypeParts, Zenon DEF ClientType
    <3> QED BY <2>4, <2>5, <3>1, <3>2, Zenon DEF ClientType
  <2>6. ASSUME client' = [client EXCEPT ![i].pc = "failed"]
        PROVE  client' \in ClientType
    BY <2>1, <2>6, ClientPc, Zenon
  <2>7. ASSUME client' = [client EXCEPT ![i].pc = "done"]
        PROVE  client' \in ClientType
    BY <2>1, <2>7, ClientPc, Zenon
  <2>8. client' = client \/ client' \in ClientType
    BY <2>5, <2>6, <2>7, Zenon DEF Respond
  <2> QED BY <2>1, <2>3, <2>8, TypeNext, Zenon DEF Respond
<1>3. /\ handler'[i].pc = "idle"
      /\ \A j \in Importers \ {i} : handler'[j] = handler[j] /\ client'[j] = client[j]
      /\ \/ client' = client /\ client[i].pc # "wait"
         \/ client'[i].pc \in {"failed", "done"} /\ client'[i].part = client[i].part
         \/ /\ handler[i].pc = "ok" /\ ~IsEof(client[i].part)
            /\ client'[i].pc = "ready" /\ client'[i].part = client[i].part + 1
  BY DEF IInv, TypeOK, Respond, Idle
<1>4. ImporterInv(i)'
  <2>1. CASE client'[i].pc # "ready"
    BY <1>1, <1>3, <2>1, Zenon
       DEF IInv, ImporterInv, Shape, Owner, Fresh, Pending, Logged, Holds, IsEof, Respond
  <2>2. CASE client'[i].pc = "ready"
    <3>1. handler[i].pc \in {"ok", "error"} /\ client[i].pc # "ready"
      BY DEF IInv, ImporterInv, Shape, Respond
    <3>2. /\ handler[i].pc = "ok" /\ ~IsEof(client[i].part)
          /\ client'[i].part = client[i].part + 1
      BY <1>3, <2>2, <3>1
    <3> QED BY <1>1, <1>3, <2>2, <3>2
            DEF IInv, ImporterInv, Shape, Owner, Fresh, Pending, Logged, Holds, IsEof, Respond
  <2> QED BY <2>1, <2>2
<1>5. \A j \in Importers \ {i} : ImporterInv(j)'
  BY <1>3, OthersKept, Zenon DEF IInv, Respond
<1> QED BY <1>2, <1>4, <1>5, BlocksKept DEF IInv, Respond

-----------------------------------------------------------------------------
(* The handler's steps.                                                    *)

\* What AfterData and AfterIndex lead to.
LEMMA AfterFacts ==
    ASSUME NEW i \in Importers, NEW p \in Parts
    PROVE  /\ AfterData(i, p) \in {"set_expire", "remove", "ok"}
           /\ AfterIndex(p) \in {"remove", "ok"}
           /\ AfterIndex(p) = "remove" <=> IsEof(p)
           /\ AfterData(i, p) = "remove" => IsEof(p)
           /\ AfterData(i, p) = "ok" => ~IsEof(p)
BY DEF AfterData, AfterIndex

\* Goto changes the program counter of one handler.
LEMMA GotoFacts ==
    ASSUME TypeOK, NEW i \in Importers, NEW pc \in HandlerPc, Goto(i, pc)
    PROVE  /\ handler' \in HandlerType
           /\ handler'[i].pc = pc
           /\ handler'[i].ref = handler[i].ref
           /\ \A j \in Importers \ {i} : handler'[j] = handler[j]
<1>1. handler \in HandlerType
  BY TypeParts
<1>2. handler' = [handler EXCEPT ![i] = [handler[i] EXCEPT !.pc = pc]]
  BY DEF Goto
<1>3. /\ [handler[i] EXCEPT !.pc = pc] \in [pc : HandlerPc, ref : Importers \cup {None}]
      /\ [handler[i] EXCEPT !.pc = pc].pc = pc
      /\ [handler[i] EXCEPT !.pc = pc].ref = handler[i].ref
  BY <1>1 DEF HandlerType
<1> QED BY <1>1, <1>2, <1>3 DEF HandlerType

\* A step of importer i's handler that only moves on: what it needs to keep
\* the invariant of i.
LEMMA HandlerMoves ==
    ASSUME IInv, NEW i \in Importers, UNCHANGED <<receiver, client, binlog>>,
           handler[i].pc # "idle",
           Holds(i)' => Holds(i) /\ catalog' = i,
           handler'[i].pc \in {"append", "binlog", "load"} => handler'[i].ref = i,
           handler'[i].pc \in {"remove", "enable_expire"} => IsEof(client[i].part),
           handler'[i].pc \in {"check", "append_get"} => handler[i].pc = "check",
           handler'[i].pc \in {"binlog_get", "binlog"} <=> handler[i].pc \in {"binlog_get", "binlog"}
    PROVE  ImporterInv(i)'
<1> USE DEF IInv, ImporterInv
<1>1. client[i].pc # "ready"
  BY DEF Shape
<1>2. Shape(i)'
  BY <1>1 DEF Shape, IsEof
<1>3. Owner(i)' /\ Fresh(i)'
  BY <1>1 DEF Owner, Fresh
<1>4. Pending(i)'
  BY DEF Pending
<1>5. Logged(i)'
  BY DEF Logged
<1> QED BY <1>2, <1>3, <1>4, <1>5

LEMMA SetExpireFalseStep ==
    ASSUME IInv, NEW i \in Importers, SetExpireFalse(i)
    PROVE  IInv'
<1> USE PartFacts
<1>1. client[i].part \in Parts
  BY DEF IInv, ImporterInv, Shape
<1>2. /\ handler[i].pc = "set_expire" /\ handler'[i].pc = "load_get"
      /\ \A j \in Importers \ {i} : handler'[j] = handler[j]
  BY GotoFacts DEF IInv, SetExpireFalse, HandlerPc
<1>3. TypeOK'
  <2>1. handler' \in HandlerType
    BY GotoFacts DEF IInv, SetExpireFalse, HandlerPc
  <2> QED BY <2>1, TypeNext, Zenon DEF IInv, SetExpireFalse
<1>4. ImporterInv(i)'
  <2>1. Holds(i) /\ catalog' = i
    BY <1>2 DEF IInv, ImporterInv, Owner, Holds, SetExpireFalse
  <2> QED BY <1>2, <2>1, HandlerMoves DEF SetExpireFalse
<1>5. \A j \in Importers \ {i} : ImporterInv(j)'
  BY <1>2, OthersKept DEF IInv, SetExpireFalse
<1> QED BY <1>3, <1>4, <1>5, BlocksKept DEF IInv, SetExpireFalse

LEMMA SetExpireTrueStep ==
    ASSUME IInv, NEW i \in Importers, SetExpireTrue(i)
    PROVE  IInv'
<1> USE PartFacts
<1>1. client[i].part \in Parts
  BY DEF IInv, ImporterInv, Shape
<1>2. /\ handler[i].pc = "enable_expire" /\ handler'[i].pc = "ok"
      /\ \A j \in Importers \ {i} : handler'[j] = handler[j]
  BY GotoFacts DEF IInv, SetExpireTrue, HandlerPc
<1>3. TypeOK'
  <2>1. handler' \in HandlerType
    BY GotoFacts DEF IInv, SetExpireTrue, HandlerPc
  <2> QED BY <2>1, TypeNext DEF IInv, SetExpireTrue
<1>4. ImporterInv(i)'
  <2>1. IsEof(client[i].part) /\ client[i].pc # "ready" /\ ~Holds(i)'
    BY <1>2 DEF IInv, ImporterInv, Shape, Holds, IsEof, SetExpireTrue
  <2> QED BY <1>2, <2>1, HandlerMoves DEF SetExpireTrue
<1>5. \A j \in Importers \ {i} : ImporterInv(j)'
  BY <1>2, OthersKept DEF IInv, SetExpireTrue
<1> QED BY <1>3, <1>4, <1>5, BlocksKept DEF IInv, SetExpireTrue

\* The catalog entry that goes is the importer's own.
LEMMA RemoveReceiverStep ==
    ASSUME IInv, NEW i \in Importers, RemoveReceiver(i)
    PROVE  IInv'
<1> USE PartFacts
<1>1. client[i].part \in Parts
  BY DEF IInv, ImporterInv, Shape
<1>2. /\ handler[i].pc = "remove" /\ handler'[i].pc = "enable_expire"
      /\ \A j \in Importers \ {i} : handler'[j] = handler[j]
  BY GotoFacts DEF IInv, RemoveReceiver, HandlerPc
<1>3. TypeOK'
  <2>1. handler' \in HandlerType
    BY GotoFacts DEF IInv, RemoveReceiver, HandlerPc
  <2> QED BY <2>1, TypeNext DEF IInv, RemoveReceiver
<1>4. ImporterInv(i)'
  <2>1. IsEof(client[i].part) /\ client[i].pc # "ready" /\ ~Holds(i)'
    BY <1>2 DEF IInv, ImporterInv, Shape, Holds, IsEof, RemoveReceiver
  <2> QED BY <1>2, <2>1, HandlerMoves DEF RemoveReceiver
<1>5. \A j \in Importers \ {i} : ImporterInv(j)'
  BY <1>2, OthersKept, Zenon DEF IInv, RemoveReceiver, ImporterInv, Owner, Holds
<1> QED BY <1>3, <1>4, <1>5, BlocksKept DEF IInv, RemoveReceiver

LEMMA CheckStep ==
    ASSUME IInv, NEW i \in Importers, Check(i)
    PROVE  IInv'
<1> USE PartFacts
<1>1. client[i].part \in Parts
  BY DEF IInv, ImporterInv, Shape
<1>2. PICK pc \in HandlerPc :
         /\ Goto(i, pc)
         /\ \/ pc \in {"error", "append_get"}
            \/ pc = AfterData(i, client[i].part) /\ client[i].part > 0
  BY <1>1, AfterFacts DEF Check, HandlerPc
<1>3. TypeOK'
  <2>1. handler' \in HandlerType
    BY <1>2, GotoFacts DEF IInv
  <2> QED BY <2>1, TypeNext DEF IInv, Check
<1>4. /\ handler[i].pc = "check"
      /\ handler'[i].pc = pc
      /\ \A j \in Importers \ {i} : handler'[j] = handler[j]
  BY <1>2, GotoFacts DEF IInv, Check
<1>5. ImporterInv(i)'
  <2>1. Holds(i)' => Holds(i) /\ catalog' = i
    BY <1>1, <1>2, <1>4, AfterFacts, Zenon DEF IInv, ImporterInv, Shape, Owner, Holds, Check, IsEof
  <2> QED BY <1>1, <1>2, <1>4, <2>1, AfterFacts, HandlerMoves DEF Check
<1>6. \A j \in Importers \ {i} : ImporterInv(j)'
  BY <1>4, OthersKept, Zenon DEF IInv, Check
<1> QED BY <1>3, <1>5, <1>6, BlocksKept, Zenon DEF IInv, Check

\* The load under way finds its own receiver.
LEMMA LoadGetStep ==
    ASSUME IInv, NEW i \in Importers, LoadGet(i)
    PROVE  IInv'
<1> USE PartFacts
<1>1. catalog = i /\ GetDataReceiver(i, FALSE) = i
  BY DEF IInv, ImporterInv, Owner, Holds, LoadGet, GetDataReceiver
<1>2. /\ handler[i].pc = "load_get" /\ handler'[i].pc = "load" /\ handler'[i].ref = i
      /\ \A j \in Importers \ {i} : handler'[j] = handler[j]
      /\ handler' \in HandlerType
  BY <1>1, HandlerSet, ZenonT(30) DEF IInv, LoadGet, HandlerPc
<1>3. TypeOK'
  BY <1>2, TypeNext DEF IInv, LoadGet
<1>4. ImporterInv(i)'
  BY <1>1, <1>2, HandlerMoves, Zenon DEF Holds, LoadGet
<1>5. \A j \in Importers \ {i} : ImporterInv(j)'
  BY <1>2, OthersKept DEF IInv, LoadGet
<1> QED BY <1>3, <1>4, <1>5, BlocksKept DEF IInv, LoadGet

\* Part 0 creates the receiver and takes the free catalog entry, or fails;
\* a later part finds its own receiver.
LEMMA AppendGetStep ==
    ASSUME IInv, NEW i \in Importers, AppendGet(i)
    PROVE  IInv'
<1> USE PartFacts
<1>1. client[i].part \in Parts /\ client[i].pc # "ready" /\ handler[i].pc = "append_get"
  BY Zenon DEF IInv, ImporterInv, Shape, AppendGet
<1>2. \/ /\ catalog \in {None, i} /\ catalog' = i
         /\ client[i].part = 0 => catalog = None
         /\ handler' = [handler EXCEPT ![i] = [pc |-> "append", ref |-> i]]
      \/ /\ catalog' = catalog
         /\ handler' = [handler EXCEPT ![i] = [pc |-> "error", ref |-> None]]
  <2>1. CASE client[i].part = 0
    BY <2>1, Zenon DEF AppendGet, GetDataReceiver
  <2>2. CASE client[i].part # 0
    <3>1. catalog = i
      BY <1>1, <2>2 DEF IInv, ImporterInv, Owner, Holds
    <3> QED BY <2>2, <3>1, Zenon DEF AppendGet, GetDataReceiver
  <2> QED BY <2>1, <2>2
<1>3. TypeOK'
  BY <1>2 DEF IInv, TypeOK, AppendGet, HandlerPc
<1>4. /\ \A j \in Importers \ {i} : handler'[j] = handler[j]
      /\ \/ catalog' = i /\ handler'[i].pc = "append" /\ handler'[i].ref = i
         \/ handler'[i].pc = "error"
  BY <1>2, SMTT(30) DEF IInv, TypeOK
<1>5. ImporterInv(i)'
  <2>1. Shape(i)' /\ Owner(i)' /\ Fresh(i)' /\ Pending(i)'
    BY <1>1, <1>4, Zenon DEF Shape, Owner, Fresh, Pending, Holds, AppendGet
  <2>2. CASE client[i].part = 0
    <3>1. receiver[i].data_blocks = <<>>
      BY <1>1, <2>2 DEF IInv, ImporterInv, Fresh
    <3> QED BY <2>1, <3>1 DEF ImporterInv, Logged, AppendGet, Range
  <2>3. CASE client[i].part # 0
    <3>1. Holds(i)
      BY <1>1, <2>3 DEF Holds
    <3> QED BY <1>1, <2>1, <3>1, Zenon DEF IInv, ImporterInv, Logged, AppendGet
  <2> QED BY <2>2, <2>3
<1>6. \A j \in Importers \ {i} : ImporterInv(j)'
  BY <1>2, <1>4, OthersKept DEF IInv, AppendGet
<1> QED BY <1>3, <1>5, <1>6, BlocksKept DEF IInv, AppendGet

\* The block goes to the importer's own receiver, as its last one.
LEMMA AppendDataStep ==
    ASSUME IInv, NEW i \in Importers, AppendData(i)
    PROVE  IInv'
<1> USE PartFacts
<1> DEFINE p == client[i].part
           s == receiver[i].data_blocks
<1>1. /\ p \in Parts /\ client[i].pc # "ready" /\ handler[i].pc = "append"
      /\ handler[i].ref = i /\ Holds(i) /\ catalog = i
      /\ s \in Seq(Block) /\ <<i, p>> \in Block
  BY TypeFacts, Zenon DEF IInv, ImporterInv, Shape, Owner, Holds, AppendData, Block
<1>2. PICK pc \in HandlerPc :
         /\ Goto(i, pc)
         /\ \/ /\ pc = "error"
               /\ receiver' = receiver \/ receiver' = [receiver EXCEPT ![i].next_part_id = p + 1]
            \/ /\ pc = "binlog_get"
               /\ receiver' = [receiver EXCEPT ![i] = [next_part_id |-> p + 1,
                                                       data_blocks |-> Append(s, <<i, p>>)]]
  <2>1. "error" \in HandlerPc /\ "binlog_get" \in HandlerPc
    BY DEF HandlerPc
  <2>2. CASE UNCHANGED receiver /\ Goto(i, "error")
    BY <2>1, <2>2, Zenon
  <2>3. CASE /\ receiver' = [receiver EXCEPT ![i] = [next_part_id |-> p + 1,
                                                    data_blocks |-> Append(s, <<i, p>>)]]
             /\ Goto(i, "binlog_get")
    BY <2>1, <2>3, Zenon
  <2>4. CASE receiver' = [receiver EXCEPT ![i].next_part_id = p + 1] /\ Goto(i, "error")
    BY <2>1, <2>4, Zenon
  <2> QED BY <1>1, <2>2, <2>3, <2>4, Zenon DEF AppendData
<1>3. /\ handler' \in HandlerType
      /\ handler'[i].pc = pc
      /\ \A j \in Importers \ {i} : handler'[j] = handler[j]
  BY <1>2, GotoFacts DEF IInv
<1>4. /\ receiver' \in ReceiverType
      /\ \A j \in Importers \ {i} : receiver'[j] = receiver[j]
      /\ \/ pc = "error" /\ receiver'[i].data_blocks = s
         \/ /\ pc = "binlog_get" /\ receiver'[i].next_part_id = p + 1
            /\ receiver'[i].data_blocks = Append(s, <<i, p>>)
  <2>1. p + 1 \in 0 .. LastPart + 1
    BY <1>1
  <2>2. Append(s, <<i, p>>) \in Seq(Block)
    BY <1>1, AppendRange
  <2>3. CASE receiver' = receiver /\ pc = "error"
    BY <2>3, TypeParts DEF IInv
  <2>4. CASE receiver' = [receiver EXCEPT ![i].next_part_id = p + 1] /\ pc = "error"
    BY <2>1, <2>4, ReceiverPart, Zenon DEF IInv
  <2>5. CASE /\ pc = "binlog_get"
             /\ receiver' = [receiver EXCEPT ![i] = [next_part_id |-> p + 1,
                                                     data_blocks |-> Append(s, <<i, p>>)]]
    BY <2>1, <2>2, <2>5, ReceiverSet, ZenonT(30) DEF IInv
  <2> QED BY <1>2, <2>3, <2>4, <2>5, Zenon
<1>5. TypeOK'
  BY <1>3, <1>4, TypeNext, Zenon DEF IInv, AppendData
<1>6. ImporterInv(i)'
  <2>1. Shape(i)' /\ Owner(i)' /\ Fresh(i)' /\ Logged(i)'
    BY <1>1, <1>3, <1>4, Zenon DEF Shape, Owner, Fresh, Logged, Holds, AppendData
  <2>2. Pending(i)'
    <3>1. CASE pc = "binlog_get"
      <4>1. \A b \in Range(s) : b \in Range(binlog)
        BY <1>1, Zenon DEF IInv, ImporterInv, Logged
      <4>2. /\ Len(s) \in Nat
            /\ Len(Append(s, <<i, p>>)) = Len(s) + 1
            /\ \A k \in 1 .. Len(s) : Append(s, <<i, p>>)[k] \in Range(s)
        BY <1>1, AppendRange
      <4>3. /\ receiver'[i].next_part_id = p + 1
            /\ receiver'[i].data_blocks = Append(s, <<i, p>>)
        BY <1>4, <3>1, Zenon
      <4>4. client' = client /\ binlog' = binlog
        BY Zenon DEF AppendData
      <4> HIDE DEF s
      <4>5. \A k \in 1 .. Len(Append(s, <<i, p>>)) - 1 : Append(s, <<i, p>>)[k] \in Range(binlog)
        BY <4>1, <4>2
      <4> QED BY <4>2, <4>3, <4>4, <4>5 DEF Pending
    <3>2. CASE pc = "error"
      BY <1>3, <3>2 DEF Pending
    <3> QED BY <1>2, <3>1, <3>2
  <2> QED BY <2>1, <2>2 DEF ImporterInv
<1>7. \A j \in Importers \ {i} : ImporterInv(j)'
  BY <1>3, <1>4, OthersKept, Zenon DEF IInv, AppendData
<1>8. OneImporterPerLoad'
  <2>1. \A b \in Range(s) : b[1] = i
    BY DEF IInv, OneImporterPerLoad
  <2>2. Range(Append(s, <<i, p>>)) = Range(s) \cup {<<i, p>>}
    BY <1>1, AppendRange
  <2>3. \A b \in Range(receiver'[i].data_blocks) : b[1] = i
    <3>1. Range(receiver'[i].data_blocks) \subseteq Range(s) \cup {<<i, p>>}
      BY <1>4, <2>2, Zenon
    <3> QED BY <2>1, <3>1
  <2>4. \A j \in Importers \ {i} : \A b \in Range(receiver'[j].data_blocks) : b[1] = j
    BY <1>4, Zenon DEF IInv, OneImporterPerLoad
  <2> QED BY <2>3, <2>4 DEF OneImporterPerLoad
<1>9. TableRowsLogged'
  BY Zenon DEF IInv, TableRowsLogged, AppendData
<1> QED BY <1>5, <1>6, <1>7, <1>8, <1>9 DEF IInv

LEMMA BinlogGetStep ==
    ASSUME IInv, NEW i \in Importers, BinlogGet(i)
    PROVE  IInv'
<1> USE PartFacts
<1>1. handler[i].pc = "binlog_get" /\ catalog = i /\ GetDataReceiver(i, FALSE) = i
  BY Zenon DEF IInv, ImporterInv, Owner, Holds, BinlogGet, GetDataReceiver
<1>2. \/ Goto(i, "error")
      \/ handler' = [handler EXCEPT ![i] = [pc |-> "binlog", ref |-> i]]
  BY <1>1, Zenon DEF BinlogGet
<1>3. /\ handler' \in HandlerType
      /\ \A j \in Importers \ {i} : handler'[j] = handler[j]
      /\ \/ handler'[i].pc = "error"
         \/ handler'[i].pc = "binlog" /\ handler'[i].ref = i
  <2>1. CASE Goto(i, "error")
    BY <2>1, GotoFacts DEF IInv, HandlerPc
  <2>2. CASE handler' = [handler EXCEPT ![i] = [pc |-> "binlog", ref |-> i]]
    BY <2>2, HandlerSet, Zenon DEF IInv, HandlerPc
  <2> QED BY <1>2, <2>1, <2>2
<1>4. TypeOK'
  BY <1>3, TypeNext DEF IInv, BinlogGet
<1>5. ImporterInv(i)'
  <2> USE DEF IInv, ImporterInv
  <2>1. client[i].pc # "ready" /\ UNCHANGED <<catalog, receiver, client, binlog>>
    BY <1>1 DEF Shape, BinlogGet
  <2>2. Shape(i)' /\ Owner(i)' /\ Fresh(i)' /\ Logged(i)'
    BY <1>1, <1>3, <2>1, Zenon DEF Shape, Owner, Fresh, Logged, Holds
  <2>3. Pending(i)'
    BY <1>1, <2>1, Zenon DEF Pending
  <2> QED BY <2>2, <2>3
<1>6. \A j \in Importers \ {i} : ImporterInv(j)'
  BY <1>3, OthersKept, Zenon DEF IInv, BinlogGet
<1> QED BY <1>4, <1>5, <1>6, BlocksKept, Zenon DEF IInv, BinlogGet

\* The part is the latest one, so the block that was missing is written.
LEMMA WriteBinlogStep ==
    ASSUME IInv, NEW i \in Importers, WriteBinlogToReplicator(i)
    PROVE  IInv'
<1> USE PartFacts
<1> DEFINE s == receiver[i].data_blocks
           pc == AfterData(i, client[i].part)
<1>1. /\ client[i].part \in Parts /\ client[i].pc # "ready" /\ handler[i].pc = "binlog"
      /\ handler[i].ref = i /\ Holds(i) /\ catalog = i
      /\ receiver[i].next_part_id = client[i].part + 1
      /\ s \in Seq(Block) /\ Len(s) > 0
      /\ \A k \in 1 .. Len(s) - 1 : s[k] \in Range(binlog)
  BY TypeFacts, Zenon DEF IInv, ImporterInv, Shape, Owner, Pending, Holds, WriteBinlogToReplicator
<1>2. IsLatestPart(i, client[i].part)
  BY <1>1 DEF IsLatestPart
<1>3. s[Len(s)] \in Block /\ binlog \in Seq(Block)
  BY <1>1 DEF IInv, TypeOK
<1>4. binlog' = Append(binlog, s[Len(s)]) /\ Goto(i, pc)
  BY <1>1, <1>2, Zenon DEF WriteBinlogToReplicator
<1>5. binlog' \in Seq(Block) /\ Range(binlog') = Range(binlog) \cup {s[Len(s)]}
  BY <1>3, <1>4, AppendRange
<1>6. /\ handler' \in HandlerType
      /\ handler'[i].pc = pc
      /\ \A j \in Importers \ {i} : handler'[j] = handler[j]
  <2>1. TypeOK /\ pc \in HandlerPc
    BY <1>1, AfterFacts, Zenon DEF IInv, HandlerPc
  <2> QED BY <1>4, <2>1, GotoFacts, Zenon
<1>7. TypeOK'
  BY <1>5, <1>6, TypeNext, Zenon DEF IInv, WriteBinlogToReplicator
<1>8. ImporterInv(i)'
  <2>1. UNCHANGED <<catalog, receiver, client>>
    BY DEF WriteBinlogToReplicator
  <2>2. Shape(i)' /\ Owner(i)' /\ Fresh(i)' /\ Pending(i)'
    BY <1>1, <1>6, <2>1, AfterFacts, ZenonT(60) DEF Shape, Owner, Fresh, Pending, Holds
  <2>3. \A b \in Range(s) : b \in Range(binlog')
    <3>1. \A k \in DOMAIN s : k \in 1 .. Len(s) - 1 \/ k = Len(s)
      BY <1>1
    <3>2. \A k \in DOMAIN s : s[k] \in Range(binlog')
      BY <1>1, <1>5, <3>1, Zenon
    <3>3. \A b \in Range(s) : \E k \in DOMAIN s : b = s[k]
      BY DEF Range
    <3> QED BY <3>2, <3>3
  <2> QED BY <2>1, <2>2, <2>3, Zenon DEF ImporterInv, Logged
<1>9. \A j \in Importers \ {i} : ImporterInv(j)'
  BY <1>5, <1>6, OthersKept, Zenon DEF IInv, WriteBinlogToReplicator
<1>10. OneImporterPerLoad' /\ TableRowsLogged'
  BY <1>5, Zenon DEF IInv, OneImporterPerLoad, TableRowsLogged, WriteBinlogToReplicator
<1> QED BY <1>7, <1>8, <1>9, <1>10 DEF IInv

\* The rows that become visible are those of the importer's receiver, all of
\* which the binlog holds by now.
LEMMA LoadIndexStep ==
    ASSUME IInv, NEW i \in Importers, LoadIndex(i)
    PROVE  IInv'
<1> USE PartFacts
<1> DEFINE p == client[i].part
           s == receiver[i].data_blocks
<1>1. /\ p \in Parts /\ client[i].pc # "ready" /\ handler[i].pc = "load"
      /\ handler[i].ref = i /\ Holds(i) /\ catalog = i /\ s \in Seq(Block)
      /\ \A b \in Range(s) : b \in Range(binlog)
  BY TypeFacts, Zenon DEF IInv, ImporterInv, Shape, Owner, Logged, Holds, LoadIndex
<1>2. PICK pc \in HandlerPc :
         /\ Goto(i, pc)
         /\ \/ pc = "error" /\ receiver' = receiver /\ table' = table
            \/ /\ pc = AfterIndex(p)
               /\ receiver' = [receiver EXCEPT ![i].next_part_id = p + 1]
               /\ table' = table \cup {<<p, b>> : b \in Range(s)}
            \/ /\ pc = "error"
               /\ receiver' = [receiver EXCEPT ![i].next_part_id = p + 1]
               /\ \E linked \in SUBSET Range(s) :
                     table' = table \cup {<<p, b>> : b \in linked}
  <2>1. "error" \in HandlerPc /\ AfterIndex(p) \in HandlerPc
    BY <1>1, AfterFacts, Zenon DEF HandlerPc
  <2> QED BY <1>1, <2>1 DEF LoadIndex
<1>3. /\ handler' \in HandlerType
      /\ handler'[i].pc = pc
      /\ \A j \in Importers \ {i} : handler'[j] = handler[j]
  BY <1>2, GotoFacts DEF IInv
<1>4. /\ receiver' \in ReceiverType
      /\ \A j \in Importers : receiver'[j].data_blocks = receiver[j].data_blocks
      /\ \A j \in Importers \ {i} : receiver'[j] = receiver[j]
  <2>1. p + 1 \in 0 .. LastPart + 1
    BY <1>1
  <2>2. CASE receiver' = receiver
    BY <2>2, TypeParts DEF IInv
  <2>3. CASE receiver' = [receiver EXCEPT ![i].next_part_id = p + 1]
    BY <2>1, <2>3, ReceiverPart, Zenon DEF IInv
  <2> QED BY <1>2, <2>2, <2>3
<1>5. \A e \in table' : e \in table \/ (e[1] = p /\ e[2] \in Range(s) /\ e = <<e[1], e[2]>>)
  BY <1>2
<1>6. table' \subseteq Parts \X Block
  <2>1. \A b \in Range(s) : b \in Block
    BY <1>1 DEF Range
  <2> QED BY <1>1, <1>5, <2>1 DEF IInv, TypeOK
<1>7. TypeOK'
  BY <1>3, <1>4, <1>6, TypeNext DEF IInv, LoadIndex
<1>8. ImporterInv(i)'
  <2>1. UNCHANGED <<catalog, client, binlog>>
    BY DEF LoadIndex
  <2>2. pc = "error" \/ (pc \in {"remove", "ok"} /\ (pc = "remove" <=> IsEof(p)))
    BY <1>1, <1>2, AfterFacts
  <2>3. Shape(i)' /\ Owner(i)' /\ Fresh(i)' /\ Pending(i)'
    BY <1>1, <1>3, <2>1, <2>2, Zenon DEF Shape, Owner, Fresh, Pending, Holds, IsEof
  <2>4. Logged(i)'
    BY <1>1, <1>4, <2>1, Zenon DEF Logged
  <2> QED BY <2>3, <2>4 DEF ImporterInv
<1>9. \A j \in Importers \ {i} : ImporterInv(j)'
  BY <1>3, <1>4, OthersKept DEF IInv, LoadIndex
<1>10. OneImporterPerLoad'
  BY <1>4, Zenon DEF IInv, OneImporterPerLoad
<1>11. TableRowsLogged'
  BY <1>1, <1>5 DEF IInv, TableRowsLogged, LoadIndex
<1> QED BY <1>7, <1>8, <1>9, <1>10, <1>11 DEF IInv

-----------------------------------------------------------------------------
LEMMA InitIInv == Init => IInv
<1> SUFFICES ASSUME Init PROVE IInv
  OBVIOUS
<1> USE PartFacts
<1>1. TypeOK
  BY DEF Init, TypeOK, NewReceiver, Idle, HandlerPc
<1>2. ASSUME NEW i \in Importers PROVE ImporterInv(i)
  BY DEF Init, NewReceiver, Idle, ImporterInv, Shape, Owner, Fresh, Pending, Logged, Holds
<1>3. OneImporterPerLoad /\ TableRowsLogged
  BY DEF Init, NewReceiver, OneImporterPerLoad, TableRowsLogged, Range
<1> QED BY <1>1, <1>2, <1>3 DEF IInv

LEMMA StutterStep ==
    ASSUME IInv, UNCHANGED vars
    PROVE  IInv'
<1>1. TypeOK'
  BY Zenon DEF IInv, TypeOK, vars
<1>2. \A j \in Importers : ImporterInv(j)'
  BY OthersKept DEF IInv, vars
<1> QED BY <1>1, <1>2, BlocksKept DEF IInv, vars

\* The inductive invariant: whatever the order of the handlers' critical
\* sections (bulk_load_mgr.cc, data_receiver.cc), with timeouts and refusals at
\* any point, an importer past its part 0 owns the catalog entry.
THEOREM BulkLoadInvariant == Spec => []IInv
<1>1. IInv /\ [Next]_vars => IInv'
  <2> SUFFICES ASSUME IInv, [Next]_vars PROVE IInv'
    OBVIOUS
  <2>1. CASE UNCHANGED vars
    BY <2>1, StutterStep
  <2>2. CASE AllStopped
    BY <2>2, StutterStep DEF AllStopped
  <2>3. ASSUME NEW i \in Importers, SendRequest(i) \/ Timeout(i) PROVE IInv'
    BY <2>3, SendRequestStep, TimeoutStep
  <2>4. ASSUME NEW i \in Importers, HandlerStep(i) PROVE IInv'
    BY <2>4, CheckStep, AppendGetStep, AppendDataStep, BinlogGetStep, WriteBinlogStep,
       SetExpireFalseStep, LoadGetStep, LoadIndexStep, RemoveReceiverStep,
       SetExpireTrueStep, RespondStep DEF HandlerStep
  <2> QED BY <2>1, <2>2, <2>3, <2>4 DEF Next
<1> QED BY <1>1, InitIInv, PTL DEF Spec

\* For any number of importers and parts, the blocks in a DataReceiver all come
\* from the importer that created it (BulkLoadMgr::GetDataReceiver).
THEOREM LoadsNeverMix == Spec => []OneImporterPerLoad
<1>1. IInv => OneImporterPerLoad
  BY DEF IInv
<1> QED BY <1>1, BulkLoadInvariant, PTL

\* For any number of importers and parts, a row that DataReceiver::BulkLoad has
\* linked into the table was written to the binlog before.
THEOREM VisibleRowsAreLogged == Spec => []TableRowsLogged
<1>1. IInv => TableRowsLogged
  BY DEF IInv
<1> QED BY <1>1, BulkLoadInvariant, PTL

\* The state of the manager, the receivers and the importers has its type.
THEOREM BulkLoadTypes == Spec => []TypeOK
<1>1. IInv => TypeOK
  BY DEF IInv
<1> QED BY <1>1, BulkLoadInvariant, PTL

-----------------------------------------------------------------------------
(* A load that was acknowledged is complete.                               *)

\* No request of the importer has failed so far.
Going(i) == client[i].pc \in {"ready", "done"} \/ handler[i].pc \notin {"idle", "error"}

\* The first part whose block is not cached, not in the binlog, or whose index
\* region is not linked.
Got(i) ==
    IF client[i].pc = "ready" \/ handler[i].pc \in {"check", "append_get", "append"}
    THEN client[i].part ELSE client[i].part + 1
Wrote(i) ==
    IF client[i].pc = "ready"
       \/ handler[i].pc \in {"check", "append_get", "append", "binlog_get", "binlog"}
    THEN client[i].part ELSE client[i].part + 1
Linked(i) ==
    IF client[i].pc = "ready"
       \/ handler[i].pc \in {"check", "append_get", "append", "binlog_get", "binlog",
                             "set_expire", "load_get", "load"}
    THEN client[i].part ELSE client[i].part + 1

Complete(i) == Going(i) =>
    /\ \A q \in 0 .. NData - 1 : q < Got(i) => <<i, q>> \in Range(receiver[i].data_blocks)
    /\ \A q \in 0 .. NData - 1 : q < Wrote(i) => <<i, q>> \in Range(binlog)
    /\ \A x \in NData .. LastPart, q \in 0 .. NData - 1 :
          x < Linked(i) => <<x, <<i, q>>>> \in table

\* The block that is about to be written is that of the part.
Latest(i) ==
    /\ handler[i].pc \in {"append_get", "append", "binlog_get", "binlog"} => HasData(client[i].part)
    /\ handler[i].pc \in {"binlog_get", "binlog"} =>
          LET s == receiver[i].data_blocks IN s[Len(s)] = <<i, client[i].part>>
    /\ client[i].pc = "done" => handler[i].pc = "idle" /\ IsEof(client[i].part)

Ordered(i) ==
    /\ \A k \in DOMAIN binlog : binlog[k][1] = i =>
          binlog[k][2] < NData /\ binlog[k][2] < Wrote(i)
    /\ \A k, l \in DOMAIN binlog :
          k < l /\ binlog[k][1] = i /\ binlog[l][1] = i => binlog[k][2] < binlog[l][2]

RowsOf(i) == Complete(i) /\ Latest(i) /\ Ordered(i)
Rows == \A i \in Importers : RowsOf(i)

-----------------------------------------------------------------------------
\* The numbers that Ordered compares.
LEMMA WroteFacts ==
    ASSUME IInv, NEW i \in Importers
    PROVE  /\ client[i].part \in Nat /\ Wrote(i) \in Nat /\ Wrote(i) <= client[i].part + 1
           /\ Wrote(i) <= Wrote(i)
           /\ \A k \in DOMAIN binlog : binlog[k][2] \in Nat
<1>1. client[i].part \in Nat
  <2>1. client[i].part \in 0 .. LastPart + 1
    BY TypeFacts, Zenon DEF IInv
  <2> QED BY <2>1, PartFacts
<1>2. Wrote(i) = client[i].part \/ Wrote(i) = client[i].part + 1
  BY Zenon DEF Wrote
<1>3. Wrote(i) \in Nat /\ Wrote(i) <= client[i].part + 1 /\ Wrote(i) <= Wrote(i)
  BY <1>1, <1>2
<1>4. binlog \in Seq(Block)
  BY Zenon DEF IInv, TypeOK
<1>5. \A k \in DOMAIN binlog : binlog[k][2] \in Nat
  BY <1>4, PartFacts DEF Block
<1> QED BY <1>1, <1>3, <1>5, Zenon

\* A step of another importer's request keeps what is known of importer j.
LEMMA RowsOthers ==
    ASSUME NEW j \in Importers, RowsOf(j), binlog \in Seq(Block),
           handler'[j] = handler[j], client'[j] = client[j],
           receiver'[j].data_blocks = receiver[j].data_blocks,
           table \subseteq table',
           binlog' = binlog \/ \E e \in Block : e[1] # j /\ binlog' = Append(binlog, e)
    PROVE  RowsOf(j)'
<1>1. /\ Going(j)' <=> Going(j)
      /\ Got(j)' = Got(j) /\ Wrote(j)' = Wrote(j) /\ Linked(j)' = Linked(j)
  BY Zenon DEF Going, Got, Wrote, Linked
<1>2. Latest(j)'
  BY Zenon DEF RowsOf, Latest, HasData, IsEof
<1>3. Range(binlog) \subseteq Range(binlog')
  <2>1. ASSUME NEW e \in Block, binlog' = Append(binlog, e)
        PROVE  Range(binlog') = Range(binlog) \cup {e}
    BY <2>1, AppendRange
  <2> QED BY <2>1, Zenon
<1>4. Complete(j)'
  BY <1>1, <1>3, Zenon DEF RowsOf, Complete
<1>5. Ordered(j)'
  <2>1. CASE binlog' = binlog
    BY <1>1, <2>1, Zenon DEF RowsOf, Ordered
  <2>2. ASSUME NEW e \in Block, e[1] # j, binlog' = Append(binlog, e)
        PROVE  Ordered(j)'
    <3>1. \A k \in DOMAIN binlog' : binlog'[k][1] = j =>
             k \in DOMAIN binlog /\ binlog'[k] = binlog[k]
      BY <2>2
    <3> QED BY <1>1, <3>1, Zenon DEF RowsOf, Ordered
  <2> QED BY <2>1, <2>2, Zenon
<1> QED BY <1>2, <1>4, <1>5 DEF RowsOf

\* A step of importer i that neither receives, writes nor links.
LEMMA RowsMove ==
    ASSUME IInv, Rows, NEW i \in Importers,
           UNCHANGED <<receiver, table, binlog>>,
           client'[i].part \in Nat,
           \A j \in Importers \ {i} : handler'[j] = handler[j] /\ client'[j] = client[j],
           Going(i)' => Going(i),
           \A q \in 0 .. NData - 1 : q < Got(i)' => q < Got(i),
           \A q \in 0 .. NData - 1 : q < Wrote(i)' => q < Wrote(i),
           Wrote(i) <= Wrote(i)',
           \A x \in NData .. LastPart : x < Linked(i)' => x < Linked(i),
           Latest(i)'
    PROVE  Rows'
<1>1. \A j \in Importers \ {i} : RowsOf(j)'
  BY RowsOthers, Zenon DEF Rows, IInv, TypeOK
<1>2. Complete(i)'
  BY Zenon DEF Rows, RowsOf, Complete
<1>3. Ordered(i)'
  <2>1. client'[i].part + 1 \in Nat /\ (Wrote(i)' = client'[i].part \/ Wrote(i)' = client'[i].part + 1)
    <3>1. client'[i].part + 1 \in Nat
      OBVIOUS
    <3> QED BY <3>1, Zenon DEF Wrote
  <2>2. \A m, n, k \in Nat : k < m /\ m <= n => k < n
    OBVIOUS
  <2>3. \A k \in DOMAIN binlog : binlog[k][2] < Wrote(i) => binlog[k][2] < Wrote(i)'
    BY <2>1, <2>2, WroteFacts, Zenon
  <2> QED BY <2>3, Zenon DEF Rows, RowsOf, Ordered
<1> QED BY <1>1, <1>2, <1>3, Zenon DEF Rows, RowsOf

LEMMA RowsSend ==
    ASSUME IInv, Rows, NEW i \in Importers, SendRequest(i)
    PROVE  Rows'
<1> USE PartFacts
<1>1. /\ client'[i].pc = "wait" /\ client'[i].part = client[i].part
      /\ \A j \in Importers \ {i} : client'[j] = client[j]
  BY ClientPc, Zenon DEF IInv, SendRequest
<1>2. /\ handler'[i].pc = "check"
      /\ \A j \in Importers \ {i} : handler'[j] = handler[j]
  BY HandlerSet, Zenon DEF IInv, SendRequest, HandlerPc
<1>3. client[i].pc = "ready" /\ client[i].part \in Nat /\ UNCHANGED <<receiver, table, binlog>>
  BY TypeFacts DEF SendRequest, IInv
<1>4. /\ Got(i)' = Got(i) /\ Wrote(i)' = Wrote(i) /\ Linked(i)' = Linked(i)
      /\ Going(i) /\ Latest(i)' /\ Wrote(i) \in Nat
  BY <1>1, <1>2, <1>3, Zenon DEF Got, Wrote, Linked, Going, Latest
<1> QED BY <1>1, <1>2, <1>3, <1>4, RowsMove

LEMMA RowsTimeout ==
    ASSUME IInv, Rows, NEW i \in Importers, Timeout(i)
    PROVE  Rows'
<1> USE PartFacts
<1>1. /\ client'[i].pc = "failed" /\ client'[i].part = client[i].part
      /\ \A j \in Importers \ {i} : client'[j] = client[j]
  BY ClientPc, Zenon DEF IInv, Timeout
<1>2. /\ client[i].pc = "wait" /\ client[i].part \in Nat
      /\ UNCHANGED <<handler, receiver, table, binlog>>
  BY TypeFacts DEF Timeout, IInv
<1>3. /\ Got(i)' = Got(i) /\ Wrote(i)' = Wrote(i) /\ Linked(i)' = Linked(i)
      /\ Going(i)' => Going(i)
  BY <1>1, <1>2, Zenon DEF Got, Wrote, Linked, Going
<1>4. Latest(i)'
  BY <1>1, <1>2, Zenon DEF Rows, RowsOf, Latest, HasData
<1> QED BY <1>1, <1>2, <1>3, <1>4, RowsMove, WroteFacts, Zenon

\* An "ok" advances the part, so that nothing that was complete is undone.
LEMMA RowsRespond ==
    ASSUME IInv, Rows, NEW i \in Importers, Respond(i)
    PROVE  Rows'
<1> USE PartFacts
<1>1. /\ handler[i].pc \in {"ok", "error"} /\ handler'[i].pc = "idle"
      /\ client[i].part \in Nat /\ client[i].pc \notin {"ready", "done"}
      /\ UNCHANGED <<receiver, table, binlog>>
  <2>1. handler'[i] = Idle /\ UNCHANGED <<receiver, table, binlog>> /\ handler[i].pc \in {"ok", "error"}
    BY Zenon DEF IInv, TypeOK, Respond
  <2>2. Idle.pc = "idle"
    BY Zenon DEF Idle
  <2>3. client[i].pc \notin {"ready", "done"}
    BY <2>1, Zenon DEF IInv, ImporterInv, Shape, Rows, RowsOf, Latest
  <2> QED BY <2>1, <2>2, <2>3, WroteFacts, Zenon
<1>2. \A j \in Importers \ {i} : handler'[j] = handler[j] /\ client'[j] = client[j]
  BY DEF IInv, TypeOK, Respond, Idle
<1>3. \/ client'[i].pc \notin {"ready", "done"} /\ client'[i].part = client[i].part
      \/ /\ handler[i].pc = "ok" /\ IsEof(client[i].part)
         /\ client'[i].pc = "done" /\ client'[i].part = client[i].part
      \/ /\ handler[i].pc = "ok"
         /\ client'[i].pc = "ready" /\ client'[i].part = client[i].part + 1
  <2>1. CASE client' = client
    BY <1>1, <2>1, Zenon
  <2>2. CASE client' = [client EXCEPT ![i].pc = "failed"]
    BY <2>2, ClientPc, Zenon DEF IInv
  <2>3. CASE handler[i].pc = "ok" /\ IsEof(client[i].part) /\ client' = [client EXCEPT ![i].pc = "done"]
    BY <2>3, ClientPc, Zenon DEF IInv
  <2>4. CASE /\ handler[i].pc = "ok"
             /\ client' = [client EXCEPT ![i] = [pc |-> "ready", part |-> @.part + 1]]
    BY <2>4, Zenon DEF IInv, TypeOK
  <2> QED BY <1>1, <2>1, <2>2, <2>3, <2>4, Zenon DEF Respond
<1>4. /\ Got(i) = client[i].part + 1 /\ Wrote(i) = client[i].part + 1
      /\ Linked(i) = client[i].part + 1
  BY <1>1, Zenon DEF Got, Wrote, Linked
<1>5. /\ Got(i)' = client[i].part + 1 /\ Wrote(i)' = client[i].part + 1
      /\ Linked(i)' = client[i].part + 1
      /\ Going(i)' => Going(i)
  BY <1>1, <1>3, Zenon DEF Got, Wrote, Linked, Going
<1>6. Latest(i)'
  BY <1>1, <1>3, Zenon DEF Latest, IsEof
<1>7. client'[i].part \in Nat
  BY <1>1, <1>3
<1> QED BY <1>1, <1>2, <1>4, <1>5, <1>6, <1>7, RowsMove

-----------------------------------------------------------------------------
(* The handler's steps.                                                    *)

\* A handler that moves on or fails: no part becomes received, written or
\* linked that was not.
LEMMA RowsGo ==
    ASSUME IInv, Rows, NEW i \in Importers, UNCHANGED <<receiver, table, binlog, client>>,
           \A j \in Importers \ {i} : handler'[j] = handler[j],
           handler[i].pc # "idle",
           \/ handler'[i].pc = "error"
           \/ /\ handler[i].pc \notin {"idle", "error"}
              /\ Got(i)' = Got(i) /\ Wrote(i)' = Wrote(i) /\ Linked(i)' = Linked(i)
              /\ handler'[i].pc \in {"append_get", "append", "binlog_get", "binlog"} =>
                    HasData(client[i].part)
              /\ handler'[i].pc \in {"binlog_get", "binlog"} =>
                    handler[i].pc \in {"binlog_get", "binlog"}
    PROVE  Rows'
<1> USE PartFacts
<1>1. client[i].part \in Nat /\ client[i].pc \notin {"ready", "done"}
  <2>1. client[i].pc \notin {"ready", "done"}
    BY Zenon DEF IInv, ImporterInv, Shape, Rows, RowsOf, Latest
  <2> QED BY <2>1, WroteFacts, Zenon
<1>2. Wrote(i) \in Nat
  BY WroteFacts, Zenon
<1>3. Latest(i)'
  <2>1. CASE handler'[i].pc = "error"
    BY <1>1, <2>1, Zenon DEF Latest
  <2>2. CASE handler'[i].pc # "error"
    BY <1>1, <2>2, Zenon DEF Rows, RowsOf, Latest, HasData
  <2> QED BY <2>1, <2>2, Zenon
<1>4. CASE handler'[i].pc = "error"
  <2>1. ~Going(i)'
    BY <1>1, <1>4, Zenon DEF Going
  <2>2. Wrote(i)' = client[i].part + 1 /\ Wrote(i) <= client[i].part + 1
    <3>1. Wrote(i)' = client[i].part + 1
      BY <1>1, <1>4, Zenon DEF Wrote
    <3> QED BY <3>1, WroteFacts, Zenon
  <2>3. Ordered(i)'
    <3>1. \A k \in DOMAIN binlog : binlog[k][2] \in Nat
      BY WroteFacts, Zenon
    <3>2. \A k \in DOMAIN binlog : binlog[k][2] < Wrote(i) => binlog[k][2] < Wrote(i)'
      BY <1>1, <1>2, <2>2, <3>1
    <3> QED BY <3>2, Zenon DEF Rows, RowsOf, Ordered
  <2>4. \A j \in Importers \ {i} : RowsOf(j)'
    BY RowsOthers, Zenon DEF Rows, IInv, TypeOK
  <2>5. Complete(i)'
    BY <2>1, Zenon DEF Complete
  <2> QED BY <1>3, <2>3, <2>4, <2>5, Zenon DEF Rows, RowsOf
<1>5. CASE handler'[i].pc # "error"
  <2>1. Going(i)
    BY <1>5, Zenon DEF Going
  <2> QED BY <1>1, <1>2, <1>3, <1>5, <2>1, RowsMove, WroteFacts, Zenon
<1> QED BY <1>4, <1>5, Zenon

LEMMA RowsSetExpireFalse ==
    ASSUME IInv, Rows, NEW i \in Importers, SetExpireFalse(i)
    PROVE  Rows'
<1>1. /\ handler[i].pc = "set_expire" /\ handler'[i].pc = "load_get"
      /\ \A j \in Importers \ {i} : handler'[j] = handler[j]
  BY GotoFacts, Zenon DEF IInv, SetExpireFalse, HandlerPc
<1>2. UNCHANGED <<receiver, table, binlog, client>>
  BY DEF SetExpireFalse
<1>3. Got(i)' = Got(i) /\ Wrote(i)' = Wrote(i) /\ Linked(i)' = Linked(i)
  BY <1>1, <1>2, Zenon DEF Got, Wrote, Linked
<1> QED BY <1>1, <1>2, <1>3, RowsGo, Zenon

LEMMA RowsRemove ==
    ASSUME IInv, Rows, NEW i \in Importers, RemoveReceiver(i)
    PROVE  Rows'
<1>1. /\ handler[i].pc = "remove" /\ handler'[i].pc = "enable_expire"
      /\ \A j \in Importers \ {i} : handler'[j] = handler[j]
  BY GotoFacts, Zenon DEF IInv, RemoveReceiver, HandlerPc
<1>2. UNCHANGED <<receiver, table, binlog, client>>
  BY DEF RemoveReceiver
<1>3. Got(i)' = Got(i) /\ Wrote(i)' = Wrote(i) /\ Linked(i)' = Linked(i)
  BY <1>1, <1>2, Zenon DEF Got, Wrote, Linked
<1> QED BY <1>1, <1>2, <1>3, RowsGo, Zenon

LEMMA RowsSetExpireTrue ==
    ASSUME IInv, Rows, NEW i \in Importers, SetExpireTrue(i)
    PROVE  Rows'
<1>1. /\ handler[i].pc = "enable_expire" /\ handler'[i].pc = "ok"
      /\ \A j \in Importers \ {i} : handler'[j] = handler[j]
  BY GotoFacts, Zenon DEF IInv, SetExpireTrue, HandlerPc
<1>2. UNCHANGED <<receiver, table, binlog, client>>
  BY DEF SetExpireTrue
<1>3. Got(i)' = Got(i) /\ Wrote(i)' = Wrote(i) /\ Linked(i)' = Linked(i)
  BY <1>1, <1>2, Zenon DEF Got, Wrote, Linked
<1> QED BY <1>1, <1>2, <1>3, RowsGo, Zenon

LEMMA RowsLoadGet ==
    ASSUME IInv, Rows, NEW i \in Importers, LoadGet(i)
    PROVE  Rows'
<1>1. GetDataReceiver(i, FALSE) = i
  BY Zenon DEF IInv, ImporterInv, Owner, Holds, LoadGet, GetDataReceiver
<1>2. /\ handler[i].pc = "load_get" /\ handler'[i].pc = "load"
      /\ \A j \in Importers \ {i} : handler'[j] = handler[j]
  BY <1>1, PartFacts, HandlerSet, ZenonT(30) DEF IInv, LoadGet, HandlerPc
<1>3. UNCHANGED <<receiver, table, binlog, client>>
  BY DEF LoadGet
<1>4. Got(i)' = Got(i) /\ Wrote(i)' = Wrote(i) /\ Linked(i)' = Linked(i)
  BY <1>2, <1>3, Zenon DEF Got, Wrote, Linked
<1> QED BY <1>2, <1>3, <1>4, RowsGo, Zenon

LEMMA RowsAppendGet ==
    ASSUME IInv, Rows, NEW i \in Importers, AppendGet(i)
    PROVE  Rows'
<1>1. /\ handler[i].pc = "append_get" /\ HasData(client[i].part)
      /\ UNCHANGED <<receiver, table, binlog, client>>
  BY Zenon DEF AppendGet, Rows, RowsOf, Latest
<1>2. /\ handler'[i].pc \in {"append", "error"}
      /\ \A j \in Importers \ {i} : handler'[j] = handler[j]
  <2>1. PICK pc \in {"append", "error"}, ref \in Importers \cup {None} :
           handler' = [handler EXCEPT ![i] = [pc |-> pc, ref |-> ref]]
    BY Zenon DEF AppendGet, GetDataReceiver, IInv, TypeOK
  <2>2. pc \in HandlerPc
    BY <2>1 DEF HandlerPc
  <2> QED BY <2>1, <2>2, HandlerSet, ZenonT(60) DEF IInv
<1>3. handler'[i].pc = "append" =>
        Got(i)' = Got(i) /\ Wrote(i)' = Wrote(i) /\ Linked(i)' = Linked(i)
  BY <1>1, Zenon DEF Got, Wrote, Linked
<1> QED BY <1>1, <1>2, <1>3, RowsGo, Zenon

LEMMA RowsBinlogGet ==
    ASSUME IInv, Rows, NEW i \in Importers, BinlogGet(i)
    PROVE  Rows'
<1>1. /\ handler[i].pc = "binlog_get" /\ HasData(client[i].part)
      /\ GetDataReceiver(i, FALSE) = i
      /\ UNCHANGED <<receiver, table, binlog, client>>
  BY Zenon DEF IInv, ImporterInv, Owner, Holds, BinlogGet, GetDataReceiver, Rows, RowsOf, Latest
<1>2. /\ handler'[i].pc \in {"binlog", "error"}
      /\ \A j \in Importers \ {i} : handler'[j] = handler[j]
  <2>1. CASE Goto(i, "error")
    BY <2>1, GotoFacts, Zenon DEF IInv, HandlerPc
  <2>2. CASE handler' = [handler EXCEPT ![i] = [pc |-> "binlog", ref |-> i]]
    BY <2>2, HandlerSet, Zenon DEF IInv, HandlerPc
  <2> QED BY <1>1, <2>1, <2>2, PartFacts, Zenon DEF BinlogGet
<1>3. handler'[i].pc = "binlog" =>
        Got(i)' = Got(i) /\ Wrote(i)' = Wrote(i) /\ Linked(i)' = Linked(i)
  BY <1>1, Zenon DEF Got, Wrote, Linked
<1> QED BY <1>1, <1>2, <1>3, RowsGo, Zenon

\* A part without data skips to its index region: there is no row of that part.
LEMMA RowsCheck ==
    ASSUME IInv, Rows, NEW i \in Importers, Check(i)
    PROVE  Rows'
<1> USE PartFacts
<1>1. /\ handler[i].pc = "check" /\ client[i].part \in Parts
      /\ client[i].pc \notin {"ready", "done"}
      /\ UNCHANGED <<receiver, table, binlog, client>>
  BY Zenon DEF IInv, ImporterInv, Shape, Check, Rows, RowsOf, Latest
<1>2. PICK pc \in {"error", "append_get", "set_expire"} :
         /\ Goto(i, pc)
         /\ pc = "append_get" => HasData(client[i].part)
         /\ pc = "set_expire" => ~HasData(client[i].part)
  <2>1. ~HasData(client[i].part) => AfterData(i, client[i].part) = "set_expire"
    BY <1>1 DEF HasData, AfterData, HasIndex
  <2> QED BY <2>1, Zenon DEF Check
<1>3. /\ handler'[i].pc = pc
      /\ \A j \in Importers \ {i} : handler'[j] = handler[j]
  BY <1>2, GotoFacts, Zenon DEF IInv, HandlerPc
<1>4. CASE pc \in {"error", "append_get"}
  <2>1. pc = "append_get" =>
          Got(i)' = Got(i) /\ Wrote(i)' = Wrote(i) /\ Linked(i)' = Linked(i)
    BY <1>1, <1>3, Zenon DEF Got, Wrote, Linked
  <2> QED BY <1>1, <1>2, <1>3, <1>4, <2>1, RowsGo, Zenon
<1>5. CASE pc = "set_expire"
  <2>1. client[i].part \in Nat /\ client[i].part >= NData
    BY <1>1, <1>2, <1>5 DEF HasData
  <2>2. /\ Got(i) = client[i].part /\ Wrote(i) = client[i].part /\ Linked(i) = client[i].part
        /\ Going(i)
    BY <1>1, Zenon DEF Got, Wrote, Linked, Going
  <2>3. /\ Got(i)' = client[i].part + 1 /\ Wrote(i)' = client[i].part + 1
        /\ Linked(i)' = client[i].part
    BY <1>1, <1>3, <1>5, Zenon DEF Got, Wrote, Linked
  <2>4. Latest(i)'
    BY <1>1, <1>3, <1>5, Zenon DEF Latest
  <2> QED BY <1>1, <1>3, <2>1, <2>2, <2>3, <2>4, RowsMove
<1> QED BY <1>2, <1>4, <1>5, Zenon

\* The block that is received is that of the part.
LEMMA RowsAppendData ==
    ASSUME IInv, Rows, NEW i \in Importers, AppendData(i)
    PROVE  Rows'
<1> USE PartFacts
<1> DEFINE p == client[i].part
           s == receiver[i].data_blocks
<1>1. /\ p \in Parts /\ client[i].pc \notin {"ready", "done"} /\ handler[i].pc = "append"
      /\ handler[i].ref = i /\ s \in Seq(Block) /\ <<i, p>> \in Block
      /\ HasData(p) /\ receiver \in ReceiverType
      /\ UNCHANGED <<table, binlog, client>>
  <2>1. s \in Seq(Block) /\ receiver \in ReceiverType
    BY TypeFacts, TypeParts, Zenon DEF IInv
  <2>2. p \in Parts /\ handler[i].pc = "append" /\ handler[i].ref = i /\ client[i].pc # "ready"
    BY Zenon DEF IInv, ImporterInv, Shape, Owner, AppendData
  <2> QED BY <2>1, <2>2, Zenon DEF Block, Rows, RowsOf, Latest, AppendData
<1>2. CASE Goto(i, "error") /\ \A j \in Importers : receiver'[j].data_blocks = receiver[j].data_blocks
  <2>1. /\ handler'[i].pc = "error"
        /\ \A j \in Importers \ {i} : handler'[j] = handler[j]
    BY <1>2, GotoFacts, Zenon DEF IInv, HandlerPc
  <2>2. \A j \in Importers \ {i} : RowsOf(j)'
    BY <1>1, <1>2, <2>1, RowsOthers, Zenon DEF Rows, IInv, TypeOK
  <2>3. Latest(i)' /\ Complete(i)'
    BY <1>1, <2>1, Zenon DEF Latest, Complete, Going
  <2>4. Ordered(i)'
    <3>1. Wrote(i) = p /\ Wrote(i)' = p + 1
      BY <1>1, <2>1, Zenon DEF Wrote
    <3>2. \A k \in DOMAIN binlog : binlog[k][2] \in Nat
      BY DEF IInv, TypeOK, Block, Parts
    <3>3. \A k \in DOMAIN binlog : binlog[k][2] < Wrote(i) => binlog[k][2] < Wrote(i)'
      BY <1>1, <3>1, <3>2
    <3> QED BY <1>1, <3>3, Zenon DEF Rows, RowsOf, Ordered
  <2> QED BY <2>2, <2>3, <2>4 DEF Rows, RowsOf
<1>3. CASE /\ Goto(i, "binlog_get")
           /\ receiver' = [receiver EXCEPT ![i] = [next_part_id |-> p + 1,
                                                   data_blocks |-> Append(s, <<i, p>>)]]
  <2>1. /\ handler'[i].pc = "binlog_get"
        /\ \A j \in Importers \ {i} : handler'[j] = handler[j]
    BY <1>3, GotoFacts, Zenon DEF IInv, HandlerPc
  <2>2. /\ receiver'[i].data_blocks = Append(s, <<i, p>>)
        /\ \A j \in Importers \ {i} : receiver'[j] = receiver[j]
    BY <1>1, <1>3, Zenon DEF ReceiverType
  <2>3. \A j \in Importers \ {i} : RowsOf(j)'
    BY <1>1, <2>1, <2>2, RowsOthers, Zenon DEF Rows, IInv, TypeOK
  <2>4. /\ Wrote(i)' = Wrote(i) /\ Linked(i)' = Linked(i) /\ Going(i)
        /\ Got(i) = p /\ Got(i)' = p + 1
    BY <1>1, <2>1, Zenon DEF Got, Wrote, Linked, Going
  <2>5. Ordered(i)'
    BY <1>1, <2>4, Zenon DEF Rows, RowsOf, Ordered
  <2>6. Complete(i)'
    <3>1. /\ \A q \in 0 .. NData - 1 : q < p => <<i, q>> \in Range(s)
          /\ \A q \in 0 .. NData - 1 : q < Wrote(i) => <<i, q>> \in Range(binlog)
          /\ \A x \in NData .. LastPart, q \in 0 .. NData - 1 :
                x < Linked(i) => <<x, <<i, q>>>> \in table
      BY <2>4, Zenon DEF Rows, RowsOf, Complete
    <3>2. Range(Append(s, <<i, p>>)) = Range(s) \cup {<<i, p>>}
      BY <1>1, AppendRange
    <3>3. \A q \in 0 .. NData - 1 : q < p + 1 => q < p \/ q = p
      BY <1>1
    <3>4. \A q \in 0 .. NData - 1 : q < p + 1 => <<i, q>> \in Range(Append(s, <<i, p>>))
      BY <3>1, <3>2, <3>3, Zenon
    <3> QED BY <1>1, <2>2, <2>4, <3>1, <3>4, Zenon DEF Complete
  <2>7. Latest(i)'
    <3>1. Append(s, <<i, p>>)[Len(Append(s, <<i, p>>))] = <<i, p>>
      BY <1>1
    <3> QED BY <1>1, <2>1, <2>2, <3>1, Zenon DEF Latest, HasData
  <2> QED BY <2>3, <2>5, <2>6, <2>7 DEF Rows, RowsOf
<1>4. ASSUME receiver' = [receiver EXCEPT ![i].next_part_id = p + 1]
      PROVE  \A j \in Importers : receiver'[j].data_blocks = receiver[j].data_blocks
  <2>1. p + 1 \in 0 .. LastPart + 1
    BY <1>1
  <2> QED BY <1>4, <2>1, ReceiverPart, Zenon DEF IInv
<1> QED BY <1>1, <1>2, <1>3, <1>4, Zenon DEF AppendData

\* The block that is written is the next of the importer's rows.
LEMMA RowsWriteBinlog ==
    ASSUME IInv, Rows, NEW i \in Importers, WriteBinlogToReplicator(i)
    PROVE  Rows'
<1> USE PartFacts
<1> DEFINE p == client[i].part
           s == receiver[i].data_blocks
           e == <<i, p>>
           pc == AfterData(i, p)
<1>1. /\ p \in Parts /\ handler[i].pc = "binlog"
      /\ handler[i].ref = i /\ receiver[i].next_part_id = p + 1
      /\ UNCHANGED <<receiver, table, client>>
  BY Zenon DEF IInv, ImporterInv, Shape, Owner, Pending, WriteBinlogToReplicator
<1>2. s[Len(s)] = e /\ HasData(p) /\ client[i].pc \notin {"ready", "done"}
  BY <1>1, Zenon DEF IInv, ImporterInv, Shape, Rows, RowsOf, Latest
<1>3. e \in Block /\ binlog \in Seq(Block)
  BY <1>1, Zenon DEF IInv, TypeOK, Block
<1>4. binlog' = Append(binlog, e) /\ Goto(i, pc)
  <2>1. IsLatestPart(i, p)
    BY <1>1 DEF IsLatestPart
  <2> QED BY <1>1, <1>2, <2>1, Zenon DEF WriteBinlogToReplicator
<1>5. /\ handler'[i].pc = pc /\ pc \in {"set_expire", "remove", "ok"}
      /\ \A j \in Importers \ {i} : handler'[j] = handler[j]
  <2>1. TypeOK /\ pc \in {"set_expire", "remove", "ok"}
    BY <1>1, AfterFacts, Zenon DEF IInv
  <2>2. pc \in HandlerPc
    BY <2>1, Zenon DEF HandlerPc
  <2> QED BY <1>4, <2>1, <2>2, GotoFacts, Zenon
<1>6. \A j \in Importers \ {i} : RowsOf(j)'
  <2>1. \A j \in Importers \ {i} : e[1] # j
    OBVIOUS
  <2> QED BY <1>1, <1>3, <1>4, <1>5, <2>1, RowsOthers, Zenon DEF Rows
<1>7. /\ Going(i) /\ Wrote(i) = p /\ Wrote(i)' = p + 1 /\ Got(i)' = Got(i) /\ Linked(i) = p
      /\ Linked(i)' \in {p, p + 1}
  BY <1>1, <1>2, <1>5, Zenon DEF Going, Wrote, Got, Linked
<1>8. Latest(i)'
  BY <1>1, <1>2, <1>5, Zenon DEF Latest
<1>9. Complete(i)'
  <2>1. /\ \A q \in 0 .. NData - 1 : q < Got(i) => <<i, q>> \in Range(s)
        /\ \A q \in 0 .. NData - 1 : q < p => <<i, q>> \in Range(binlog)
        /\ \A x \in NData .. LastPart, q \in 0 .. NData - 1 : x < p => <<x, <<i, q>>>> \in table
    BY <1>7, Zenon DEF Rows, RowsOf, Complete
  <2>2. Range(binlog') = Range(binlog) \cup {e}
    BY <1>3, <1>4, AppendRange
  <2>3. /\ \A q \in 0 .. NData - 1 : q < p + 1 => q < p \/ q = p
        /\ \A x \in NData .. LastPart : x < Linked(i)' => x < p
    <3>1. /\ NData \in Nat /\ LastPart \in Nat /\ p \in 0 .. LastPart /\ p < NData
          /\ Linked(i)' \in {p, p + 1}
      BY <1>1, <1>2, <1>7, Zenon DEF HasData
    <3> HIDE DEF Linked
    <3> QED BY <3>1
  <2>4. \A q \in 0 .. NData - 1 : q < p + 1 => <<i, q>> \in Range(binlog')
    BY <2>1, <2>2, <2>3, Zenon
  <2> QED BY <1>1, <1>7, <2>1, <2>3, <2>4, Zenon DEF Complete
<1>10. Ordered(i)'
  <2>1. /\ DOMAIN binlog' = 1 .. Len(binlog) + 1 /\ Len(binlog) \in Nat
        /\ DOMAIN binlog = 1 .. Len(binlog)
        /\ binlog'[Len(binlog) + 1] = e
        /\ \A k \in 1 .. Len(binlog) : binlog'[k] = binlog[k]
    <3>1. ASSUME NEW b, b = Append(binlog, e)
          PROVE  /\ DOMAIN b = 1 .. Len(binlog) + 1 /\ b[Len(binlog) + 1] = e
                 /\ \A k \in 1 .. Len(binlog) : b[k] = binlog[k]
      BY <1>3, <3>1, AppendFacts
    <3>2. Len(binlog) \in Nat /\ DOMAIN binlog = 1 .. Len(binlog)
      BY <1>3, AppendFacts, Zenon
    <3> QED BY <1>4, <3>1, <3>2, Zenon
  <2>2. \A k \in DOMAIN binlog' : k \in DOMAIN binlog \/ k = Len(binlog) + 1
    BY <2>1
  <2>3. \A k \in DOMAIN binlog : binlog[k][2] \in Nat
    BY <1>3 DEF Block, Parts
  <2>4. \A k \in DOMAIN binlog : binlog[k][1] = i => binlog[k][2] < NData /\ binlog[k][2] < p
    BY <1>7, Zenon DEF Rows, RowsOf, Ordered
  <2>5. \A k \in DOMAIN binlog' : binlog'[k][1] = i =>
           binlog'[k][2] < NData /\ binlog'[k][2] < Wrote(i)'
    <3>1. e[1] = i /\ e[2] = p /\ p < NData /\ Wrote(i)' = p + 1 /\ p \in Nat
      BY <1>2, <1>7, WroteFacts, Zenon DEF HasData
    <3>2. p < p + 1 /\ \A n \in Nat : n < p => n < p + 1
      BY <3>1
    <3>3. ASSUME NEW k \in DOMAIN binlog', binlog'[k][1] = i
          PROVE  binlog'[k][2] < NData /\ binlog'[k][2] < p + 1
      <4>1. CASE k \in DOMAIN binlog
        BY <2>1, <2>3, <2>4, <3>2, <3>3, <4>1, Zenon
      <4>2. CASE k = Len(binlog) + 1
        BY <2>1, <3>1, <3>2, <4>2, Zenon
      <4> QED BY <2>2, <4>1, <4>2, Zenon
    <3> QED BY <3>1, <3>3, Zenon
  <2>6. ASSUME NEW k \in DOMAIN binlog', NEW l \in DOMAIN binlog',
               k < l, binlog'[k][1] = i, binlog'[l][1] = i
        PROVE  binlog'[k][2] < binlog'[l][2]
    <3>1. k \in DOMAIN binlog /\ binlog'[k] = binlog[k]
      BY <2>1, <2>6
    <3>2. CASE l \in DOMAIN binlog
      BY <2>1, <2>6, <3>1, <3>2, ZenonT(60) DEF Rows, RowsOf, Ordered
    <3>3. CASE l = Len(binlog) + 1
      BY <2>1, <2>4, <2>6, <3>1, <3>3
    <3> QED BY <2>2, <3>2, <3>3, Zenon
  <2> QED BY <2>5, <2>6, Zenon DEF Ordered
<1> QED BY <1>6, <1>8, <1>9, <1>10 DEF Rows, RowsOf

\* An index region links every row: they were all received before.  One that ends
\* in between fails the request, and nothing is claimed of the load any more.
LEMMA RowsLoadIndex ==
    ASSUME IInv, Rows, NEW i \in Importers, LoadIndex(i)
    PROVE  Rows'
<1> USE PartFacts
<1> DEFINE p == client[i].part
           s == receiver[i].data_blocks
<1>1. /\ p \in Parts /\ client[i].pc \notin {"ready", "done"} /\ handler[i].pc = "load"
      /\ handler[i].ref = i
      /\ UNCHANGED <<binlog, client>>
  BY Zenon DEF IInv, ImporterInv, Shape, Owner, LoadIndex, Rows, RowsOf, Latest
<1>2. CASE Goto(i, "error") /\ receiver' = receiver /\ table' = table
  <2>1. /\ handler'[i].pc = "error"
        /\ \A j \in Importers \ {i} : handler'[j] = handler[j]
    BY <1>2, GotoFacts, Zenon DEF IInv, HandlerPc
  <2> QED BY <1>1, <1>2, <2>1, RowsGo, Zenon
<1>3. CASE /\ Goto(i, AfterIndex(p))
           /\ receiver' = [receiver EXCEPT ![i].next_part_id = p + 1]
           /\ table' = table \cup {<<p, b>> : b \in Range(s)}
  <2>1. /\ handler'[i].pc \in {"remove", "ok"}
        /\ \A j \in Importers \ {i} : handler'[j] = handler[j]
    BY <1>1, <1>3, AfterFacts, GotoFacts, Zenon DEF IInv, HandlerPc
  <2>2. \A j \in Importers : receiver'[j].data_blocks = receiver[j].data_blocks
    <3>1. p + 1 \in 0 .. LastPart + 1
      BY <1>1
    <3> QED BY <1>3, <3>1, ReceiverPart, Zenon DEF IInv
  <2>3. table \subseteq table' /\ \A b \in Range(s) : <<p, b>> \in table'
    BY <1>3
  <2>4. \A j \in Importers \ {i} : RowsOf(j)'
    BY <1>1, <2>1, <2>2, <2>3, RowsOthers, Zenon DEF Rows, IInv, TypeOK
  <2>5. /\ Got(i)' = Got(i) /\ Wrote(i)' = Wrote(i) /\ Going(i)
        /\ Got(i) = p + 1 /\ Linked(i) = p /\ Linked(i)' = p + 1
    BY <1>1, <2>1, Zenon DEF Got, Wrote, Linked, Going
  <2>6. Latest(i)'
    BY <1>1, <2>1, Zenon DEF Latest
  <2>7. Ordered(i)'
    BY <1>1, <2>5, Zenon DEF Rows, RowsOf, Ordered
  <2>8. Complete(i)'
    <3>1. /\ \A q \in 0 .. NData - 1 : q < p + 1 => <<i, q>> \in Range(s)
          /\ \A q \in 0 .. NData - 1 : q < Wrote(i) => <<i, q>> \in Range(binlog)
          /\ \A x \in NData .. LastPart, q \in 0 .. NData - 1 : x < p => <<x, <<i, q>>>> \in table
      BY <2>5, Zenon DEF Rows, RowsOf, Complete
    <3>2. ASSUME NEW x \in NData .. LastPart, NEW q \in 0 .. NData - 1, x < p + 1
          PROVE  <<x, <<i, q>>>> \in table'
      <4>1. x < p \/ (x = p /\ q < p + 1)
        BY <1>1, <3>2
      <4> QED BY <2>3, <3>1, <4>1, Zenon
    <3> QED BY <1>1, <2>2, <2>5, <3>1, <3>2, Zenon DEF Complete
  <2> QED BY <2>4, <2>6, <2>7, <2>8 DEF Rows, RowsOf
<1>4. ASSUME NEW linked \in SUBSET Range(s), Goto(i, "error"),
             receiver' = [receiver EXCEPT ![i].next_part_id = p + 1],
             table' = table \cup {<<p, b>> : b \in linked}
      PROVE  Rows'
  <2>1. /\ handler'[i].pc = "error"
        /\ \A j \in Importers \ {i} : handler'[j] = handler[j]
    BY <1>4, GotoFacts, Zenon DEF IInv, HandlerPc
  <2>2. \A j \in Importers : receiver'[j].data_blocks = receiver[j].data_blocks
    <3>1. p + 1 \in 0 .. LastPart + 1
      BY <1>1
    <3> QED BY <1>4, <3>1, ReceiverPart, Zenon DEF IInv
  <2>3. table \subseteq table'
    BY <1>4
  <2>4. \A j \in Importers \ {i} : RowsOf(j)'
    BY <1>1, <2>1, <2>2, <2>3, RowsOthers, Zenon DEF Rows, IInv, TypeOK
  <2>5. ~Going(i)' /\ Wrote(i)' = Wrote(i)
    BY <1>1, <2>1, Zenon DEF Going, Wrote
  <2>6. Latest(i)' /\ Complete(i)'
    BY <1>1, <2>1, <2>5, Zenon DEF Latest, Complete
  <2>7. Ordered(i)'
    BY <1>1, <2>5, Zenon DEF Rows, RowsOf, Ordered
  <2> QED BY <2>4, <2>6, <2>7 DEF Rows, RowsOf
<1> QED BY <1>1, <1>2, <1>3, <1>4 DEF LoadIndex

LEMMA RowsStutter ==
    ASSUME IInv, Rows, UNCHANGED vars
    PROVE  Rows'
BY RowsOthers, Zenon DEF Rows, IInv, TypeOK, vars

LEMMA InitRows == Init => Rows
<1> SUFFICES ASSUME Init, NEW i \in Importers PROVE RowsOf(i)
  BY DEF Rows
<1> USE PartFacts
<1>1. /\ client[i].pc = "ready" /\ client[i].part = 0 /\ handler[i].pc = "idle"
      /\ binlog = <<>>
  BY DEF Init, Idle
<1>2. Got(i) = 0 /\ Wrote(i) = 0 /\ Linked(i) = 0
  BY <1>1, Zenon DEF Got, Wrote, Linked
<1> QED BY <1>1, <1>2 DEF RowsOf, Complete, Latest, Ordered

\* The rows of every load that has not failed are complete up to the part its
\* handler is at (DataReceiver::AppendData, WriteBinlogToReplicator, BulkLoad).
THEOREM LoadProgress == Spec => []Rows
<1>1. IInv /\ Rows /\ [Next]_vars => Rows'
  <2> SUFFICES ASSUME IInv, Rows, [Next]_vars PROVE Rows'
    OBVIOUS
  <2>1. CASE UNCHANGED vars
    BY <2>1, RowsStutter
  <2>2. CASE AllStopped
    BY <2>2, RowsStutter DEF AllStopped
  <2>3. ASSUME NEW i \in Importers, SendRequest(i) \/ Timeout(i) PROVE Rows'
    BY <2>3, RowsSend, RowsTimeout
  <2>4. ASSUME NEW i \in Importers, HandlerStep(i) PROVE Rows'
    BY <2>4, RowsCheck, RowsAppendGet, RowsAppendData, RowsBinlogGet, RowsWriteBinlog,
       RowsSetExpireFalse, RowsLoadGet, RowsLoadIndex, RowsRemove,
       RowsSetExpireTrue, RowsRespond DEF HandlerStep
  <2> QED BY <2>1, <2>2, <2>3, <2>4 DEF Next
<1> QED BY <1>1, InitRows, BulkLoadInvariant, PTL DEF Spec

\* For any number of importers and parts: when the eof part was acknowledged
\* (TabletImpl::BulkLoad), every index part links every row of the load, and
\* the binlog holds exactly those rows, in their order.
THEOREM DoneMeansCompleteHolds == Spec => []DoneMeansComplete
<1>1. IInv /\ Rows => DoneMeansComplete
  <2> SUFFICES ASSUME IInv, Rows, NEW i \in Importers, client[i].pc = "done"
               PROVE  /\ \A p \in NData .. LastPart, q \in 0 .. NData - 1 : <<p, <<i, q>>>> \in table
                      /\ \A q \in 0 .. NData - 1 : <<i, q>> \in Range(binlog)
                      /\ Ordered(i)
    BY Zenon DEF DoneMeansComplete, Ordered
  <2> USE PartFacts
  <2>1. handler[i].pc = "idle" /\ client[i].part = LastPart
    BY Zenon DEF Rows, RowsOf, Latest, IsEof
  <2>2. Going(i) /\ Wrote(i) = LastPart + 1 /\ Linked(i) = LastPart + 1
    BY <2>1, Zenon DEF Going, Wrote, Linked
  <2>3. /\ \A q \in 0 .. NData - 1 : q < LastPart + 1
        /\ \A x \in NData .. LastPart : x < LastPart + 1
    BY BulkLoadAssumption DEF LastPart
  <2> QED BY <2>2, <2>3, Zenon DEF Rows, RowsOf, Complete
<1> QED BY <1>1, BulkLoadInvariant, LoadProgress, PTL

=============================================================================
