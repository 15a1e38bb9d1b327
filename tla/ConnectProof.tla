---------------------------- MODULE ConnectProof ----------------------------
(***************************************************************************)
(* The handshake, for any number of slaves, any backlog, and any number of *)
(* processes killed.                                                       *)
(***************************************************************************)
EXTENDS Connect, SequenceTheorems, FiniteSetTheorems, TLAPS

Place == {"accept", "connect", "port", "resolve", "write", "read", "update",
          "init", "done", "syncing"}

ThreadState == [at : Place, conn : Sync \cup {<<>>}, matched : BOOLEAN]

PeerState ==
  [status : {"running", "absent", "aborted"},
   init_update_mutex : Thread \cup {None}, update_open : BOOLEAN,
   swapped : BOOLEAN, resolved : BOOLEAN]

Byte == Thread \cup {"port"}

Wire == [toSlave : Seq(Byte), toMaster : Seq(Byte)]

\* The types, without what bounds or orders the sequences.
Typed ==
  /\ thread \in [Side -> [Thread -> ThreadState]]
  /\ peer \in [Side -> PeerState]
  /\ wire \in [Sync -> Wire]
  /\ backlog \in Seq(Sync)
  /\ update_sock \in BOOLEAN
  /\ update_backlog \in Seq(Slaves)
  /\ kills \in 0..MaxKills

Attached == {"port", "resolve", "write", "read", "update", "init", "done", "syncing"}
Resolved == {"write", "read", "update", "init", "done", "syncing"}
Compared == {"update", "init", "done", "syncing"}

\* What holds of a thread by the place where it is.  It has a connection unless it
\* is about to get one; a slave uses its own.  Whoever has compared the answers
\* knows whose connection it has.  A thread that initialises the update connection
\* holds the mutex, and whoever is past that has the connection.
Placed(s, t) ==
  /\ IF thread[s][t].at \in Attached
     THEN Conn(s, t) \in Sync /\ (s # "master" => Conn(s, t) = <<s, t>>)
     ELSE Conn(s, t) = <<>> /\ (thread[s][t].at = "accept" <=> s = "master")
  /\ thread[s][t].at = "resolve" => s # "master"
  /\ thread[s][t].at \in Resolved => s = "master" \/ peer[s].resolved
  /\ thread[s][t].at \in Compared =>
       thread[s][t].matched = (s # "master" \/ Conn(s, t)[2] # t)
  /\ thread[s][t].at = "init" => peer[s].init_update_mutex = t /\ ~peer[s].update_open
  /\ thread[s][t].at \in {"done", "syncing"} => peer[s].update_open

AllPlaced == \A s \in Side, t \in Thread : Placed(s, t)

\* A slave writes to the master what the thread is for.
Ids == \A c \in Sync : \A k \in 1..Len(wire[c].toMaster) : wire[c].toMaster[k] = c[2]
-----------------------------------------------------------------------------
(* What a step changes. *)

\* One thread of one side goes on, to a place, with a connection and a verdict.
Moves(s, t, to, c, m) ==
  /\ thread' \in [Side -> [Thread -> ThreadState]]
  /\ thread'[s][t].at = to
  /\ thread'[s][t].conn = c
  /\ thread'[s][t].matched = m
  /\ \A r \in Side, u \in Thread : r # s \/ u # t => thread'[r][u] = thread[r][u]

\* A thread that gets a new state moves.
LEMMA Becomes ==
  ASSUME thread \in [Side -> [Thread -> ThreadState]],
         NEW s \in Side, NEW t \in Thread, NEW new \in ThreadState,
         thread' = [thread EXCEPT ![s][t] = new]
  PROVE  Moves(s, t, new.at, new.conn, new.matched)
BY DEF Moves

\* A thread that only goes on keeps its connection and its verdict.
LEMMA GoMoves ==
  ASSUME thread \in [Side -> [Thread -> ThreadState]],
         NEW s \in Side, NEW t \in Thread, NEW to \in Place, NEW from, Go(s, t, from, to)
  PROVE  /\ Moves(s, t, to, Conn(s, t), thread[s][t].matched)
         /\ Running(s) /\ thread[s][t].at = from
<1> DEFINE new == [thread[s][t] EXCEPT !.at = to]
<1>1. thread[s][t] \in ThreadState
  OBVIOUS
<1>2. new \in ThreadState /\ new.at = to /\ new.conn = thread[s][t].conn
        /\ new.matched = thread[s][t].matched
  BY <1>1 DEF ThreadState
<1>3. thread' = [thread EXCEPT ![s][t] = new]
  BY DEF Go
<1>4. Moves(s, t, new.at, new.conn, new.matched)
  BY <1>2, <1>3, Becomes
<1> QED
  BY <1>2, <1>4 DEF Conn, Go, At

\* A thread that gets a connection goes on to the port.
LEMMA AttachMoves ==
  ASSUME thread \in [Side -> [Thread -> ThreadState]],
         NEW s \in Side, NEW t \in Thread, NEW c \in Sync,
         thread' = [thread EXCEPT ![s][t].at = "port", ![s][t].conn = c]
  PROVE  Moves(s, t, "port", c, thread[s][t].matched)
<1> DEFINE new == [thread[s][t] EXCEPT !.at = "port", !.conn = c]
<1>1. thread[s][t] \in ThreadState
  OBVIOUS
<1>2. new \in ThreadState /\ new.at = "port" /\ new.conn = c
        /\ new.matched = thread[s][t].matched
  BY <1>1 DEF ThreadState, Place
<1>3. thread' = [thread EXCEPT ![s][t] = new]
  OBVIOUS
<1>4. Moves(s, t, new.at, new.conn, new.matched)
  BY <1>2, <1>3, Becomes
<1> QED
  BY <1>2, <1>4

\* A thread that compares the answers goes on with its verdict.
LEMMA CompareMoves ==
  ASSUME thread \in [Side -> [Thread -> ThreadState]],
         NEW s \in Side, NEW t \in Thread, NEW m \in BOOLEAN,
         thread' = [thread EXCEPT ![s][t].at = "update", ![s][t].matched = m]
  PROVE  Moves(s, t, "update", Conn(s, t), m)
<1> DEFINE new == [thread[s][t] EXCEPT !.at = "update", !.matched = m]
<1>1. thread[s][t] \in ThreadState
  OBVIOUS
<1>2. new \in ThreadState /\ new.at = "update" /\ new.conn = thread[s][t].conn
        /\ new.matched = m
  BY <1>1 DEF ThreadState, Place
<1>3. thread' = [thread EXCEPT ![s][t] = new]
  OBVIOUS
<1>4. Moves(s, t, new.at, new.conn, new.matched)
  BY <1>2, <1>3, Becomes
<1> QED
  BY <1>2, <1>4 DEF Conn

\* One side gets a new state.
LEMMA OnePeer ==
  ASSUME peer \in [Side -> PeerState], NEW s \in Side, NEW new \in PeerState,
         peer' = [peer EXCEPT ![s] = new]
  PROVE  /\ peer' \in [Side -> PeerState]
         /\ peer'[s] = new
         /\ \A r \in Side : r # s => peer'[r] = peer[r]
OBVIOUS

\* What a side sends is appended to what is in flight to the other one.
LEMMA SendWire ==
  ASSUME wire \in [Sync -> Wire], NEW s \in Side, NEW t \in Thread, NEW byte \in Byte,
         Conn(s, t) \in Sync, Send(s, t, byte)
  PROVE  /\ wire' \in [Sync -> Wire]
         /\ s = "master" =>
              /\ wire'[Conn(s, t)].toSlave = Append(wire[Conn(s, t)].toSlave, byte)
              /\ wire'[Conn(s, t)].toMaster = wire[Conn(s, t)].toMaster
         /\ s # "master" =>
              /\ wire'[Conn(s, t)].toMaster = Append(wire[Conn(s, t)].toMaster, byte)
              /\ wire'[Conn(s, t)].toSlave = wire[Conn(s, t)].toSlave
         /\ \A d \in Sync : d # Conn(s, t) => wire'[d] = wire[d]
<1> DEFINE c == Conn(s, t)
<1>1. PICK w \in Wire : w = wire[c]
  OBVIOUS
<1>2. CASE s = "master"
  <2> DEFINE new == [w EXCEPT !.toSlave = Append(w.toSlave, byte)]
  <2>1. Append(w.toSlave, byte) \in Seq(Byte)
    BY DEF Wire
  <2>2. new \in Wire /\ new.toSlave = Append(w.toSlave, byte) /\ new.toMaster = w.toMaster
    BY <2>1 DEF Wire
  <2>3. wire' = [wire EXCEPT ![c] = new]
    BY <1>1, <1>2 DEF Send, Outbox
  <2> HIDE DEF new, c
  <2>4. wire' \in [Sync -> Wire] /\ wire'[c] = new /\ \A d \in Sync : d # c => wire'[d] = wire[d]
    BY <2>2, <2>3 DEF c
  <2> QED
    BY <1>1, <1>2, <2>2, <2>4 DEF c
<1>3. CASE s # "master"
  <2> DEFINE new == [w EXCEPT !.toMaster = Append(w.toMaster, byte)]
  <2>1. Append(w.toMaster, byte) \in Seq(Byte)
    BY DEF Wire
  <2>2. new \in Wire /\ new.toMaster = Append(w.toMaster, byte) /\ new.toSlave = w.toSlave
    BY <2>1 DEF Wire
  <2>3. wire' = [wire EXCEPT ![c] = new]
    BY <1>1, <1>3 DEF Send, Outbox
  <2> HIDE DEF new, c
  <2>4. wire' \in [Sync -> Wire] /\ wire'[c] = new /\ \A d \in Sync : d # c => wire'[d] = wire[d]
    BY <2>2, <2>3 DEF c
  <2> QED
    BY <1>1, <1>3, <2>2, <2>4 DEF c
<1> QED
  BY <1>2, <1>3

\* What a side receives is taken from what is in flight to it.
LEMMA ReceiveWire ==
  ASSUME wire \in [Sync -> Wire], NEW s \in Side, NEW t \in Thread,
         Conn(s, t) \in Sync, Receive(s, t)
  PROVE  /\ wire' \in [Sync -> Wire]
         /\ s = "master" =>
              /\ wire[Conn(s, t)].toMaster # <<>>
              /\ wire'[Conn(s, t)].toMaster = Tail(wire[Conn(s, t)].toMaster)
              /\ wire'[Conn(s, t)].toSlave = wire[Conn(s, t)].toSlave
         /\ s # "master" =>
              /\ wire[Conn(s, t)].toSlave # <<>>
              /\ wire'[Conn(s, t)].toSlave = Tail(wire[Conn(s, t)].toSlave)
              /\ wire'[Conn(s, t)].toMaster = wire[Conn(s, t)].toMaster
         /\ \A d \in Sync : d # Conn(s, t) => wire'[d] = wire[d]
<1> DEFINE c == Conn(s, t)
<1>1. PICK w \in Wire : w = wire[c]
  OBVIOUS
<1>2. CASE s = "master"
  <2> DEFINE new == [w EXCEPT !.toMaster = Tail(w.toMaster)]
  <2>1. w.toMaster \in Seq(Byte) /\ w.toMaster # <<>>
    BY <1>1, <1>2 DEF Wire, Receive, Inbox
  <2>2. Tail(w.toMaster) \in Seq(Byte)
    BY <2>1
  <2>3. new \in Wire /\ new.toMaster = Tail(w.toMaster) /\ new.toSlave = w.toSlave
    BY <2>2 DEF Wire
  <2>4. wire' = [wire EXCEPT ![c] = new]
    BY <1>1, <1>2 DEF Receive, Inbox
  <2> HIDE DEF new, c
  <2>5. wire' \in [Sync -> Wire] /\ wire'[c] = new /\ \A d \in Sync : d # c => wire'[d] = wire[d]
    BY <2>3, <2>4 DEF c
  <2> QED
    BY <1>1, <1>2, <2>1, <2>3, <2>5 DEF c
<1>3. CASE s # "master"
  <2> DEFINE new == [w EXCEPT !.toSlave = Tail(w.toSlave)]
  <2>1. w.toSlave \in Seq(Byte) /\ w.toSlave # <<>>
    BY <1>1, <1>3 DEF Wire, Receive, Inbox
  <2>2. Tail(w.toSlave) \in Seq(Byte)
    BY <2>1
  <2>3. new \in Wire /\ new.toSlave = Tail(w.toSlave) /\ new.toMaster = w.toMaster
    BY <2>2 DEF Wire
  <2>4. wire' = [wire EXCEPT ![c] = new]
    BY <1>1, <1>3 DEF Receive, Inbox
  <2> HIDE DEF new, c
  <2>5. wire' \in [Sync -> Wire] /\ wire'[c] = new /\ \A d \in Sync : d # c => wire'[d] = wire[d]
    BY <2>3, <2>4 DEF c
  <2> QED
    BY <1>1, <1>3, <2>1, <2>3, <2>5 DEF c
<1> QED
  BY <1>2, <1>3
-----------------------------------------------------------------------------
(* Types and places. *)

\* While nothing but a thread's own place changes, the others are where they were.
LEMMA PlacedAlone ==
  ASSUME AllPlaced, NEW s \in Side, NEW t \in Thread, NEW to, NEW c, NEW m,
         Moves(s, t, to, c, m), peer' = peer, Placed(s, t)'
  PROVE  AllPlaced'
BY DEF AllPlaced, Placed, Moves, Conn

\* If the state of its side changes as well, it must suit the other thread there.
LEMMA PlacedTogether ==
  ASSUME AllPlaced, NEW s \in Side, NEW t \in Thread, NEW to, NEW c, NEW m,
         Moves(s, t, to, c, m), \A r \in Side : r # s => peer'[r] = peer[r],
         \A u \in Thread : Placed(s, u)'
  PROVE  AllPlaced'
BY DEF AllPlaced, Placed, Moves, Conn

\* A side that gets a new state keeps the status, unless it ends.
PeerBecomes(s, new) ==
  /\ peer' \in [Side -> PeerState]
  /\ peer'[s] = new
  /\ \A r \in Side : r # s => peer'[r] = peer[r]

\* Each way in which the state of a side is assigned, one field or two at a time.
LEMMA PeerSteps ==
  ASSUME peer \in [Side -> PeerState], NEW s \in Side
  PROVE  /\ peer' = [peer EXCEPT ![s].status = "aborted"] =>
              PeerBecomes(s, [peer[s] EXCEPT !.status = "aborted"])
         /\ peer' = [peer EXCEPT ![s].resolved = TRUE] =>
              PeerBecomes(s, [peer[s] EXCEPT !.resolved = TRUE])
         /\ \A t \in Thread : peer' = [peer EXCEPT ![s].init_update_mutex = t] =>
              PeerBecomes(s, [peer[s] EXCEPT !.init_update_mutex = t])
         /\ peer' = [peer EXCEPT ![s].update_open = TRUE, ![s].init_update_mutex = None] =>
              PeerBecomes(s, [peer[s] EXCEPT !.update_open = TRUE, !.init_update_mutex = None])
         /\ \A b \in BOOLEAN : peer' = [peer EXCEPT ![s].swapped = b] =>
              PeerBecomes(s, [peer[s] EXCEPT !.swapped = b])
<1> USE DEF PeerBecomes, PeerState
<1>1. peer[s] \in PeerState
  OBVIOUS
<1>2. [peer[s] EXCEPT !.status = "aborted"] \in PeerState
  BY <1>1
<1>3. [peer[s] EXCEPT !.resolved = TRUE] \in PeerState
  BY <1>1
<1>4. \A t \in Thread : [peer[s] EXCEPT !.init_update_mutex = t] \in PeerState
  BY <1>1
<1>5. [peer[s] EXCEPT !.update_open = TRUE, !.init_update_mutex = None] \in PeerState
  BY <1>1
<1>6. \A b \in BOOLEAN : [peer[s] EXCEPT !.swapped = b] \in PeerState
  BY <1>1
<1>7. peer' = [peer EXCEPT ![s].status = "aborted"] =>
        PeerBecomes(s, [peer[s] EXCEPT !.status = "aborted"])
  BY <1>2
<1>8. peer' = [peer EXCEPT ![s].resolved = TRUE] =>
        PeerBecomes(s, [peer[s] EXCEPT !.resolved = TRUE])
  BY <1>3
<1>9. \A t \in Thread : peer' = [peer EXCEPT ![s].init_update_mutex = t] =>
        PeerBecomes(s, [peer[s] EXCEPT !.init_update_mutex = t])
  BY <1>4
<1>10. peer' = [peer EXCEPT ![s].update_open = TRUE, ![s].init_update_mutex = None] =>
         PeerBecomes(s, [peer[s] EXCEPT !.update_open = TRUE, !.init_update_mutex = None])
  BY <1>5
<1>11. \A b \in BOOLEAN : peer' = [peer EXCEPT ![s].swapped = b] =>
         PeerBecomes(s, [peer[s] EXCEPT !.swapped = b])
  BY <1>6
<1> QED
  BY <1>7, <1>8, <1>9, <1>10, <1>11

IPlaced == Typed /\ AllPlaced /\ Ids

\* A process that ends leaves its threads where they are.
LEMMA EndPlaced ==
  ASSUME IPlaced, NEW s \in Side, End(s), kills' \in 0..MaxKills
  PROVE  IPlaced'
<1> USE DEF IPlaced, End, syncVars
<1>1. PeerBecomes(s, [peer[s] EXCEPT !.status = "aborted"])
  BY PeerSteps DEF Typed
<1>2. Typed'
  BY <1>1 DEF Typed, PeerBecomes
<1>3. \A r \in Side :
        /\ peer'[r].init_update_mutex = peer[r].init_update_mutex
        /\ peer'[r].update_open = peer[r].update_open
        /\ peer'[r].resolved = peer[r].resolved
  BY <1>1 DEF PeerBecomes, PeerState, Typed
<1>4. AllPlaced'
  BY <1>3 DEF AllPlaced, Placed, Conn
<1> QED
  BY <1>2, <1>4 DEF Ids

\* The head of a nonempty sequence of connections is one.
LEMMA HeadTyped ==
  ASSUME NEW S, NEW q \in Seq(S), q # <<>>
  PROVE  Head(q) \in S /\ Tail(q) \in Seq(S) /\ Head(q) = q[1] /\ Len(q) \in Nat \ {0}
OBVIOUS

\* A slave's thread gets its own connection.
LEMMA ConnectSyncPlaced ==
  ASSUME IPlaced, NEW s \in Slaves, NEW t \in Thread, ConnectSync(s, t)
  PROVE  IPlaced' /\ Moves(s, t, "port", <<s, t>>, thread[s][t].matched)
<1> USE ConnectAssumption DEF IPlaced, ConnectSync, updateVars
<1>1. s \in Side /\ s # "master" /\ <<s, t>> \in Sync
  BY DEF Side, Sync
<1>2. Moves(s, t, "port", <<s, t>>, thread[s][t].matched)
  BY <1>1, AttachMoves DEF Typed
<1>3. backlog' \in Seq(Sync)
  BY <1>1 DEF Typed
<1>4. Typed'
  BY <1>2, <1>3 DEF Typed, Moves
<1>5. Placed(s, t)'
  BY <1>1, <1>2 DEF Moves, Placed, Conn, Attached, Resolved, Compared
<1> QED
  BY <1>1, <1>2, <1>4, <1>5, PlacedAlone DEF Ids

\* A thread of the master gets the first connection of the backlog.
LEMMA AcceptSyncPlaced ==
  ASSUME IPlaced, NEW t \in Thread, AcceptSync(t)
  PROVE  IPlaced' /\ Moves("master", t, "port", Head(backlog), thread["master"][t].matched)
<1> USE DEF IPlaced, AcceptSync, updateVars
<1>1. "master" \in Side /\ Head(backlog) \in Sync /\ Tail(backlog) \in Seq(Sync)
  BY HeadTyped DEF Side, Typed
<1>2. Moves("master", t, "port", Head(backlog), thread["master"][t].matched)
  BY <1>1, AttachMoves DEF Typed
<1>3. Typed'
  BY <1>1, <1>2 DEF Typed, Moves
<1>4. Placed("master", t)'
  BY <1>1, <1>2 DEF Moves, Placed, Conn, Attached, Resolved, Compared
<1> QED
  BY <1>1, <1>2, <1>3, <1>4, PlacedAlone DEF Ids

\* A thread that has a connection and goes on keeps it.
LEMMA GoPlaced ==
  ASSUME IPlaced, NEW s \in Side, NEW t \in Thread, NEW from \in Attached, NEW to \in Attached,
         Go(s, t, from, to)
  PROVE  /\ Moves(s, t, to, Conn(s, t), thread[s][t].matched)
         /\ Running(s) /\ thread[s][t].at = from
         /\ Conn(s, t) \in Sync /\ Conn(s, t)[2] \in Thread
         /\ s # "master" => Conn(s, t) = <<s, t>>
<1>1. to \in Place /\ from \in Place
  BY DEF Place, Attached
<1>2. Moves(s, t, to, Conn(s, t), thread[s][t].matched) /\ Running(s) /\ thread[s][t].at = from
  BY <1>1, GoMoves DEF IPlaced, Typed
<1> QED
  BY <1>2 DEF IPlaced, AllPlaced, Placed, Sync

\* The first of what is left in flight was in flight before.
LEMMA TailIds ==
  ASSUME NEW q \in Seq(Byte), q # <<>>, NEW id, \A k \in 1..Len(q) : q[k] = id
  PROVE  \A k \in 1..Len(Tail(q)) : Tail(q)[k] = id
<1>1. Len(Tail(q)) = Len(q) - 1 /\ \A k \in 1..Len(Tail(q)) : Tail(q)[k] = q[k + 1]
  BY HeadTailProperties
<1>2. Len(q) \in Nat
  OBVIOUS
<1> QED
  BY <1>1, <1>2

\* What is sent joins others of its kind.
LEMMA AppendIds ==
  ASSUME NEW q \in Seq(Byte), NEW id \in Byte, \A k \in 1..Len(q) : q[k] = id
  PROVE  \A k \in 1..Len(Append(q, id)) : Append(q, id)[k] = id
<1>1. Len(Append(q, id)) = Len(q) + 1 /\ \A k \in 1..Len(q) + 1 :
        Append(q, id)[k] = IF k = Len(q) + 1 THEN id ELSE q[k]
  BY AppendProperties
<1>2. Len(q) \in Nat
  OBVIOUS
<1> QED
  BY <1>1, <1>2

\* The port goes to the slave, and nothing to the master.
LEMMA SendPortPlaced ==
  ASSUME IPlaced, NEW t \in Thread, SendPort(t)
  PROVE  IPlaced' /\ Moves("master", t, "write", Conn("master", t), thread["master"][t].matched)
<1> USE DEF IPlaced, SendPort, updateVars
<1>1. "master" \in Side /\ "port" \in Attached /\ "write" \in Attached /\ "port" \in Byte
  BY DEF Side, Attached, Byte
<1>2. /\ Moves("master", t, "write", Conn("master", t), thread["master"][t].matched)
      /\ thread["master"][t].at = "port" /\ Conn("master", t) \in Sync
  BY <1>1, GoPlaced
<1>3. wire' \in [Sync -> Wire] /\ \A c \in Sync : wire'[c].toMaster = wire[c].toMaster
  BY <1>1, <1>2, SendWire DEF Typed
<1>4. Typed'
  BY <1>2, <1>3 DEF Typed, Moves
<1>5. Placed("master", t)'
  BY <1>2 DEF Moves, Placed, Conn, Attached, Resolved, Compared
<1> QED
  BY <1>1, <1>2, <1>3, <1>4, <1>5, PlacedAlone DEF Ids

\* The port is taken by the slave.
LEMMA ReceivePortPlaced ==
  ASSUME IPlaced, NEW s \in Slaves, NEW t \in Thread, ReceivePort(s, t)
  PROVE  IPlaced' /\ Moves(s, t, "resolve", Conn(s, t), thread[s][t].matched)
<1> USE ConnectAssumption DEF IPlaced, ReceivePort, updateVars
<1>1. s \in Side /\ s # "master" /\ "port" \in Attached /\ "resolve" \in Attached
  BY DEF Side, Attached
<1>2. /\ Moves(s, t, "resolve", Conn(s, t), thread[s][t].matched)
      /\ thread[s][t].at = "port" /\ Conn(s, t) \in Sync /\ Conn(s, t) = <<s, t>>
  BY <1>1, GoPlaced
<1>3. wire' \in [Sync -> Wire] /\ \A c \in Sync : wire'[c].toMaster = wire[c].toMaster
  BY <1>1, <1>2, ReceiveWire DEF Typed
<1>4. Typed'
  BY <1>2, <1>3 DEF Typed, Moves
<1>5. Placed(s, t)'
  BY <1>1, <1>2 DEF Moves, Placed, Conn, Attached, Resolved, Compared
<1> QED
  BY <1>1, <1>2, <1>3, <1>4, <1>5, PlacedAlone DEF Ids

\* Either thread of a slave has an address from here on.
LEMMA ResolvePlaced ==
  ASSUME IPlaced, NEW s \in Slaves, NEW t \in Thread, Resolve(s, t)
  PROVE  IPlaced' /\ Moves(s, t, "write", Conn(s, t), thread[s][t].matched)
<1> USE ConnectAssumption DEF IPlaced, Resolve, updateVars, syncVars
<1>1. s \in Side /\ s # "master" /\ "resolve" \in Attached /\ "write" \in Attached
  BY DEF Side, Attached
<1>2. /\ Moves(s, t, "write", Conn(s, t), thread[s][t].matched)
      /\ thread[s][t].at = "resolve" /\ Conn(s, t) \in Sync /\ Conn(s, t) = <<s, t>>
  BY <1>1, GoPlaced
<1>3. PeerBecomes(s, [peer[s] EXCEPT !.resolved = TRUE])
  BY <1>1, PeerSteps DEF Typed
<1>4. Typed'
  BY <1>2, <1>3 DEF Typed, Moves, PeerBecomes
<1>5. /\ peer'[s].resolved /\ peer'[s].update_open = peer[s].update_open
      /\ peer'[s].init_update_mutex = peer[s].init_update_mutex
  BY <1>1, <1>3 DEF PeerBecomes, PeerState, Typed
<1>6. ASSUME NEW u \in Thread PROVE Placed(s, u)'
  <2>1. CASE u = t
    BY <1>1, <1>2, <1>5, <2>1 DEF Moves, Placed, Conn, Attached, Resolved, Compared
  <2>2. CASE u # t
    BY <1>1, <1>2, <1>5, <2>2 DEF AllPlaced, Moves, Placed, Conn
  <2> QED
    BY <2>1, <2>2
<1> QED
  BY <1>1, <1>2, <1>3, <1>4, <1>6, PlacedTogether DEF Ids, PeerBecomes

\* A slave says on its connection what the thread is for, which is its name.
LEMMA WriteIdPlaced ==
  ASSUME IPlaced, NEW s \in Side, NEW t \in Thread, WriteId(s, t)
  PROVE  IPlaced' /\ Moves(s, t, "read", Conn(s, t), thread[s][t].matched)
<1> USE DEF IPlaced, WriteId, updateVars
<1>1. "write" \in Attached /\ "read" \in Attached /\ t \in Byte
  BY DEF Attached, Byte
<1>2. /\ Moves(s, t, "read", Conn(s, t), thread[s][t].matched)
      /\ thread[s][t].at = "write" /\ Conn(s, t) \in Sync
      /\ s # "master" => Conn(s, t) = <<s, t>>
  BY <1>1, GoPlaced
<1>3. wire' \in [Sync -> Wire]
  BY <1>1, <1>2, SendWire DEF Typed
<1>4. Typed'
  BY <1>2, <1>3 DEF Typed, Moves
<1>5. Placed(s, t)'
  BY <1>2 DEF AllPlaced, Moves, Placed, Conn, Attached, Resolved, Compared
<1>6. Ids'
  <2> SUFFICES ASSUME NEW c \in Sync
               PROVE  \A k \in 1..Len(wire'[c].toMaster) : wire'[c].toMaster[k] = c[2]
    BY DEF Ids
  <2> DEFINE q == wire[c].toMaster
  <2>1. q \in Seq(Byte) /\ \A k \in 1..Len(q) : q[k] = c[2]
    BY DEF Typed, Wire, Ids
  <2>2. CASE s # "master" /\ c = Conn(s, t)
    <3>1. wire'[c].toMaster = Append(q, t) /\ c[2] = t
      BY <1>1, <1>2, <2>2, SendWire DEF Typed
    <3> HIDE DEF q
    <3> QED
      BY <1>1, <2>1, <3>1, AppendIds
  <2>3. CASE s = "master" \/ c # Conn(s, t)
    <3>1. wire'[c].toMaster = q
      BY <1>1, <1>2, <2>3, SendWire DEF Typed
    <3> QED
      BY <2>1, <3>1
  <2> QED
    BY <2>2, <2>3
<1> QED
  BY <1>2, <1>4, <1>5, <1>6, PlacedAlone

\* The master learns whose connection it has accepted.
LEMMA ReadIdPlaced ==
  ASSUME IPlaced, NEW s \in Side, NEW t \in Thread, ReadId(s, t)
  PROVE  /\ IPlaced' /\ Running(s) /\ thread[s][t].at = "read"
         /\ Moves(s, t, "update", Conn(s, t), s # "master" \/ Conn(s, t)[2] # t)
<1> USE DEF IPlaced, ReadId, updateVars
<1>1. /\ thread[s][t].at = "read" /\ Conn(s, t) \in Sync /\ Running(s)
      /\ s # "master" => Conn(s, t) = <<s, t>>
  BY DEF At, AllPlaced, Placed, Attached
<1> DEFINE m == s # "master" \/ OtherId(t, Head(wire[Conn(s, t)].toMaster))
<1>2. Moves(s, t, "update", Conn(s, t), m)
  BY CompareMoves DEF Typed
<1>3. s = "master" => Head(wire[Conn(s, t)].toMaster) = Conn(s, t)[2]
  <2> SUFFICES ASSUME s = "master" PROVE Head(wire[Conn(s, t)].toMaster) = Conn(s, t)[2]
    OBVIOUS
  <2> DEFINE q == wire[Conn(s, t)].toMaster
  <2>1. q \in Seq(Byte) /\ q # <<>>
    BY <1>1, ReceiveWire DEF Typed, Wire
  <2>2. \A k \in 1..Len(q) : q[k] = Conn(s, t)[2]
    BY <1>1 DEF Ids
  <2> HIDE DEF q
  <2>3. Head(q) = q[1] /\ 1 \in 1..Len(q)
    BY <2>1, HeadTyped
  <2> QED
    BY <2>2, <2>3 DEF q
<1>4. m = (s # "master" \/ Conn(s, t)[2] # t)
  BY <1>3 DEF OtherId
<1>5. Moves(s, t, "update", Conn(s, t), s # "master" \/ Conn(s, t)[2] # t)
  BY <1>2, <1>4
<1>6. wire' \in [Sync -> Wire]
  BY <1>1, ReceiveWire DEF Typed
<1>7. Typed'
  BY <1>5, <1>6 DEF Typed, Moves
<1>8. Placed(s, t)'
  <2>1. /\ thread'[s][t].at = "update" /\ Conn(s, t)' = Conn(s, t)
        /\ thread'[s][t].matched = (s # "master" \/ Conn(s, t)[2] # t)
    BY <1>5 DEF Moves, Conn
  <2>2. s = "master" \/ peer[s].resolved
    BY <1>1 DEF AllPlaced, Placed, Resolved
  <2>3. peer' = peer
    OBVIOUS
  <2> QED
    BY <1>1, <2>1, <2>2, <2>3 DEF Placed, Attached, Resolved, Compared
<1>9. Ids'
  <2> SUFFICES ASSUME NEW c \in Sync
               PROVE  \A k \in 1..Len(wire'[c].toMaster) : wire'[c].toMaster[k] = c[2]
    BY DEF Ids
  <2> DEFINE q == wire[c].toMaster
  <2>1. q \in Seq(Byte) /\ \A k \in 1..Len(q) : q[k] = c[2]
    BY DEF Typed, Wire, Ids
  <2>2. CASE s = "master" /\ c = Conn(s, t)
    <3>1. wire'[c].toMaster = Tail(q) /\ q # <<>>
      BY <1>1, <2>2, ReceiveWire DEF Typed
    <3> HIDE DEF q
    <3> QED
      BY <2>1, <3>1, TailIds
  <2>3. CASE s # "master" \/ c # Conn(s, t)
    <3>1. wire'[c].toMaster = q
      BY <1>1, <2>3, ReceiveWire DEF Typed
    <3> QED
      BY <2>1, <3>1
  <2> QED
    BY <2>2, <2>3
<1> QED
  BY <1>1, <1>5, <1>7, <1>8, <1>9, PlacedAlone

\* Whoever enters update_initializer finds the connection open, or takes the mutex.
LEMMA EnterPlaced ==
  ASSUME IPlaced, NEW s \in Side, NEW t \in Thread, EnterUpdate(s, t)
  PROVE  /\ IPlaced' /\ Running(s) /\ thread[s][t].at = "update"
         /\ \E to \in {"init", "done"} : Moves(s, t, to, Conn(s, t), thread[s][t].matched)
         /\ PeerBecomes(s, peer[s]) \/ PeerBecomes(s, [peer[s] EXCEPT !.init_update_mutex = t])
         /\ UNCHANGED <<syncVars, updateVars, kills>>
<1> USE DEF IPlaced, EnterUpdate, EnterInitializer, updateVars, syncVars
<1> DEFINE to == IF peer[s].update_open THEN "done" ELSE "init"
<1>1. "update" \in Attached /\ to \in Attached
  BY DEF Attached
<1>2. /\ Moves(s, t, to, Conn(s, t), thread[s][t].matched)
      /\ thread[s][t].at = "update" /\ Conn(s, t) \in Sync /\ Running(s)
      /\ s # "master" => Conn(s, t) = <<s, t>>
  BY <1>1, GoPlaced
<1>3. CASE peer[s].update_open
  <2>1. peer' = peer
    BY <1>3
  <2>2. Typed'
    BY <1>2, <2>1 DEF Typed, Moves
  <2>3. Placed(s, t)'
    BY <1>2, <1>3, <2>1 DEF AllPlaced, Moves, Placed, Conn, Attached, Resolved, Compared
  <2>4. AllPlaced'
    BY <1>2, <2>1, <2>3, PlacedAlone
  <2>5. PeerBecomes(s, peer[s])
    BY <2>1 DEF PeerBecomes, Typed
  <2> QED
    BY <1>2, <2>2, <2>4, <2>5 DEF Ids
<1>4. CASE ~peer[s].update_open
  <2>1. PeerBecomes(s, [peer[s] EXCEPT !.init_update_mutex = t])
    BY <1>4, PeerSteps DEF Typed
  <2>2. Typed'
    BY <1>2, <2>1 DEF Typed, Moves, PeerBecomes
  <2>3. /\ peer'[s].resolved = peer[s].resolved /\ peer'[s].update_open = peer[s].update_open
        /\ peer'[s].init_update_mutex = t
    BY <2>1 DEF PeerBecomes, PeerState, Typed
  <2>4. t # None
    BY DEF Thread, None
  <2>5. ASSUME NEW u \in Thread PROVE Placed(s, u)'
    <3>1. CASE u = t
      BY <1>2, <1>4, <2>3, <3>1 DEF AllPlaced, Moves, Placed, Conn, Attached, Resolved, Compared
    <3>2. CASE u # t
      <4>1. thread[s][u].at # "init"
        BY <3>2 DEF AllPlaced, Placed, Thread, None
      <4> QED
        BY <1>2, <2>3, <3>2, <4>1 DEF AllPlaced, Moves, Placed, Conn
    <3> QED
      BY <3>1, <3>2
  <2>6. AllPlaced'
    BY <1>2, <2>1, <2>5, PlacedTogether DEF PeerBecomes
  <2> QED
    BY <1>2, <1>4, <2>1, <2>2, <2>6 DEF Ids
<1> QED
  BY <1>3, <1>4

\* The update connection is there, and the mutex is free again.
LEMMA OpenedPlaced ==
  ASSUME IPlaced, NEW s \in Side, NEW t \in Thread, UpdateOpened(s, t),
         update_sock' \in BOOLEAN, update_backlog' \in Seq(Slaves), UNCHANGED <<syncVars, kills>>
  PROVE  /\ IPlaced' /\ Running(s) /\ thread[s][t].at = "init"
         /\ Moves(s, t, "done", Conn(s, t), thread[s][t].matched)
         /\ PeerBecomes(s, [peer[s] EXCEPT !.update_open = TRUE, !.init_update_mutex = None])
<1> USE DEF IPlaced, UpdateOpened, syncVars
<1>1. "init" \in Attached /\ "done" \in Attached
  BY DEF Attached
<1>2. /\ Moves(s, t, "done", Conn(s, t), thread[s][t].matched)
      /\ thread[s][t].at = "init" /\ Conn(s, t) \in Sync /\ Running(s)
      /\ s # "master" => Conn(s, t) = <<s, t>>
  BY <1>1, GoPlaced
<1>3. PeerBecomes(s, [peer[s] EXCEPT !.update_open = TRUE, !.init_update_mutex = None])
  BY PeerSteps DEF Typed
<1>4. Typed'
  BY <1>2, <1>3 DEF Typed, Moves, PeerBecomes
<1>5. peer'[s].resolved = peer[s].resolved /\ peer'[s].update_open
  BY <1>3 DEF PeerBecomes, PeerState, Typed
<1>6. ASSUME NEW u \in Thread PROVE Placed(s, u)'
  <2>1. CASE u = t
    BY <1>2, <1>5, <2>1 DEF AllPlaced, Moves, Placed, Conn, Attached, Resolved, Compared
  <2>2. CASE u # t
    <3>1. thread[s][u].at # "init"
      BY <1>2, <2>2 DEF AllPlaced, Placed
    <3> QED
      BY <1>2, <1>5, <2>2, <3>1 DEF AllPlaced, Moves, Placed, Conn
  <2> QED
    BY <2>1, <2>2
<1>7. AllPlaced'
  BY <1>2, <1>3, <1>6, PlacedTogether DEF PeerBecomes
<1> QED
  BY <1>2, <1>3, <1>4, <1>7 DEF Ids

\* The main thread is through, and its verdict becomes that of its side.
LEMMA JoinPlaced ==
  ASSUME IPlaced, NEW s \in Side, Join(s)
  PROVE  /\ IPlaced' /\ Running(s) /\ thread[s]["upload"].at = "done"
         /\ Moves(s, "upload", "syncing", Conn(s, "upload"), thread[s]["upload"].matched)
         /\ PeerBecomes(s, [peer[s] EXCEPT !.swapped = ~thread[s]["upload"].matched])
         /\ UNCHANGED <<syncVars, updateVars, kills>>
<1> USE DEF IPlaced, Join, syncVars, updateVars
<1>1. "done" \in Attached /\ "syncing" \in Attached /\ "upload" \in Thread
  BY DEF Attached, Thread
<1>2. /\ Moves(s, "upload", "syncing", Conn(s, "upload"), thread[s]["upload"].matched)
      /\ thread[s]["upload"].at = "done" /\ Conn(s, "upload") \in Sync /\ Running(s)
      /\ s # "master" => Conn(s, "upload") = <<s, "upload">>
  BY <1>1, GoPlaced
<1>3. PeerBecomes(s, [peer[s] EXCEPT !.swapped = ~thread[s]["upload"].matched])
  <2>1. (~thread[s]["upload"].matched) \in BOOLEAN
    OBVIOUS
  <2> QED
    BY <2>1, PeerSteps DEF Typed
<1>4. Typed'
  BY <1>2, <1>3 DEF Typed, Moves, PeerBecomes
<1>5. /\ peer'[s].resolved = peer[s].resolved /\ peer'[s].update_open = peer[s].update_open
      /\ peer'[s].init_update_mutex = peer[s].init_update_mutex
  BY <1>3 DEF PeerBecomes, PeerState, Typed
<1>6. ASSUME NEW u \in Thread PROVE Placed(s, u)'
  <2>1. CASE u = "upload"
    BY <1>2, <1>5, <2>1 DEF AllPlaced, Moves, Placed, Conn, Attached, Resolved, Compared
  <2>2. CASE u # "upload"
    BY <1>2, <1>5, <2>2 DEF AllPlaced, Moves, Placed, Conn
  <2> QED
    BY <2>1, <2>2
<1>7. AllPlaced'
  BY <1>1, <1>2, <1>3, <1>6, PlacedTogether DEF PeerBecomes
<1> QED
  BY <1>2, <1>3, <1>4, <1>7 DEF Ids

\* A slave has its update connection.
LEMMA ConnectUpdatePlaced ==
  ASSUME IPlaced, NEW s \in Slaves, NEW t \in Thread, ConnectUpdate(s, t)
  PROVE  /\ IPlaced' /\ Running(s) /\ thread[s][t].at = "init"
         /\ Moves(s, t, "done", Conn(s, t), thread[s][t].matched)
         /\ PeerBecomes(s, [peer[s] EXCEPT !.update_open = TRUE, !.init_update_mutex = None])
<1>1. s \in Side
  BY DEF Side
<1>2. update_backlog' \in Seq(Slaves)
  BY DEF ConnectUpdate, IPlaced, Typed
<1> QED
  BY <1>1, <1>2, OpenedPlaced DEF ConnectUpdate, IPlaced, Typed

\* The master has its update connection.
LEMMA AcceptUpdatePlaced ==
  ASSUME IPlaced, NEW t \in Thread, AcceptUpdate(t)
  PROVE  /\ IPlaced' /\ Running("master") /\ thread["master"][t].at = "init"
         /\ Moves("master", t, "done", Conn("master", t), thread["master"][t].matched)
         /\ PeerBecomes("master",
              [peer["master"] EXCEPT !.update_open = TRUE, !.init_update_mutex = None])
<1>1. "master" \in Side
  BY DEF Side
<1>2. update_backlog' \in Seq(Slaves) /\ update_sock' \in BOOLEAN
  BY HeadTyped DEF AcceptUpdate, IPlaced, Typed
<1> QED
  BY <1>1, <1>2, OpenedPlaced DEF AcceptUpdate

\* In the beginning no thread has a connection.
LEMMA InitPlaced == Init => IPlaced
<1> SUFFICES ASSUME Init PROVE IPlaced
  OBVIOUS
<1> USE ConnectAssumption
<1>1. thread \in [Side -> [Thread -> ThreadState]]
  BY DEF Init, ThreadState, Place
<1>2. peer \in [Side -> PeerState]
  BY DEF Init, PeerState
<1>3. wire \in [Sync -> Wire]
  BY DEF Init, Wire
<1>4. Typed
  BY <1>1, <1>2, <1>3 DEF Init, Typed
<1>5. AllPlaced
  BY DEF Init, AllPlaced, Placed, Conn, Attached, Resolved, Compared
<1>6. Ids
  BY DEF Init, Ids
<1> QED
  BY <1>4, <1>5, <1>6 DEF IPlaced

\* The steps in which a process ends.
Ending(s) ==
  \/ Kill(s)
  \/ \E t \in Thread : Cut(s, t) \/ (s # "master" /\ UpdateFails(s, t))

\* However a process ends, its threads stay where they are.
LEMMA EndingPlaced ==
  ASSUME IPlaced, NEW s \in Side, Ending(s)
  PROVE  IPlaced' /\ End(s) /\ Running(s)
<1>1. End(s) /\ Running(s) /\ kills' \in 0..MaxKills
  BY ConnectAssumption DEF Ending, Kill, Cut, UpdateFails, Abort, At, IPlaced, Typed
<1> QED
  BY <1>1, EndPlaced

\* The steps of the two kinds of processes, and those that either takes.
LEMMA Steps ==
  ASSUME [Next]_vars
  PROVE  \/ \E s \in Slaves, t \in Thread :
              ConnectSync(s, t) \/ ReceivePort(s, t) \/ Resolve(s, t) \/ ConnectUpdate(s, t)
         \/ \E t \in Thread : AcceptSync(t) \/ SendPort(t) \/ AcceptUpdate(t)
         \/ \E s \in Side, t \in Thread : WriteId(s, t) \/ ReadId(s, t) \/ EnterUpdate(s, t)
         \/ \E s \in Side : Join(s)
         \/ \E s \in Side : Ending(s)
         \/ UNCHANGED vars
BY DEF Next, Step, Terminated, Side, Ending

\* Every step keeps the types, the places and what slaves have written.
LEMMA NextPlaced == IPlaced /\ [Next]_vars => IPlaced'
<1> SUFFICES ASSUME IPlaced, [Next]_vars PROVE IPlaced'
  OBVIOUS
<1>1. ASSUME UNCHANGED vars PROVE IPlaced'
  BY <1>1 DEF IPlaced, Typed, AllPlaced, Placed, Conn, Ids, vars
<1> QED
  BY <1>1, Steps, ConnectSyncPlaced, ReceivePortPlaced, ResolvePlaced, ConnectUpdatePlaced,
     AcceptSyncPlaced, SendPortPlaced, AcceptUpdatePlaced, WriteIdPlaced, ReadIdPlaced,
     EnterPlaced, JoinPlaced, EndingPlaced
-----------------------------------------------------------------------------
(* Who is connected to whom. *)

\* A sync connection that a slave's thread has opened.
Known(c) == Conn(c[1], c[2]) = c

\* The master gets each connection once, whichever of its threads accepts it.
Accepted ==
  /\ \A k \in 1..Len(backlog) : Known(backlog[k])
  /\ \A j, k \in 1..Len(backlog) : backlog[j] = backlog[k] => j = k
  /\ \A t \in Thread : Conn("master", t) # <<>> =>
       /\ Known(Conn("master", t))
       /\ \A k \in 1..Len(backlog) : backlog[k] # Conn("master", t)
       /\ \A u \in Thread : u # t => Conn("master", u) # Conn("master", t)

Onward == {"resolve", "write", "read", "update", "init", "done", "syncing"}

\* A thread of the master has the connection c.
Served(c) == \E t \in Thread : Conn("master", t) = c

\* A slave's thread hears nothing, and does not go on, before the master has
\* accepted its connection.
Heard ==
  \A c \in Sync :
    wire[c].toSlave # <<>> \/ thread[c[1]][c[2]].at \in Onward => Served(c)

\* The main thread of a side synchronises once the other thread is through, and
\* swaps the connections if its own one did not match.
Joined ==
  \A s \in Side : Syncing(s) =>
    /\ thread[s]["download"].at = "done"
    /\ peer[s].swapped = ~thread[s]["upload"].matched

\* Steps in which no thread gets a connection.
ConnsKept ==
  /\ \A s \in Side, t \in Thread : thread'[s][t].conn = thread[s][t].conn
  /\ backlog' = backlog
  /\ \A c \in Sync : wire'[c].toSlave # <<>> => wire[c].toSlave # <<>> \/ Served(c)
  /\ \A c \in Sync : thread'[c[1]][c[2]].at \in Onward =>
       thread[c[1]][c[2]].at \in Onward \/ wire[c].toSlave # <<>>

\* A thread goes on beyond the port, or stays there.
LEMMA MovesKeepConns ==
  ASSUME IPlaced, NEW s \in Side, NEW t \in Thread, NEW to, NEW m,
         Moves(s, t, to, Conn(s, t), m), backlog' = backlog,
         thread[s][t].at \in Onward \/ s = "master" \/ wire[Conn(s, t)].toSlave # <<>>,
         s # "master" => Conn(s, t) = <<s, t>>,
         \A c \in Sync : wire'[c].toSlave # <<>> => wire[c].toSlave # <<>> \/ Served(c)
  PROVE  ConnsKept
<1>1. \A r \in Side, u \in Thread : thread'[r][u].conn = thread[r][u].conn
  BY DEF Moves, Conn
<1>2. ASSUME NEW c \in Sync, thread'[c[1]][c[2]].at \in Onward
      PROVE  thread[c[1]][c[2]].at \in Onward \/ wire[c].toSlave # <<>>
  <2>1. c[1] \in Side /\ c[1] # "master" /\ c[2] \in Thread /\ c = <<c[1], c[2]>>
    BY ConnectAssumption DEF Sync, Side
  <2>2. CASE c[1] = s /\ c[2] = t
    BY <2>1, <2>2
  <2>3. CASE c[1] # s \/ c[2] # t
    BY <1>2, <2>1, <2>3 DEF Moves
  <2> QED
    BY <2>2, <2>3
<1> QED
  BY <1>1, <1>2 DEF ConnsKept

\* A thread gets a connection by connecting or by accepting, and in no other way.
LEMMA StepsKeepConns ==
  ASSUME IPlaced, [Next]_vars
  PROVE  \/ \E s \in Slaves, t \in Thread : ConnectSync(s, t)
         \/ \E t \in Thread : AcceptSync(t)
         \/ ConnsKept
<1> USE ConnectAssumption
<1>1. \A s \in Slaves : s \in Side /\ s # "master"
  BY DEF Side
<1>2. "master" \in Side
  BY DEF Side
<1>3. \A s \in Side, t \in Thread : s # "master" /\ thread[s][t].at \in Attached =>
        Conn(s, t) = <<s, t>>
  BY DEF IPlaced, AllPlaced, Placed
<1>4. \A s \in Side, t \in Thread : thread[s][t].at \in Attached => Conn(s, t) \in Sync
  BY DEF IPlaced, AllPlaced, Placed
<1>5. ASSUME NEW s \in Slaves, NEW t \in Thread, ReceivePort(s, t) PROVE ConnsKept
  <2>1. /\ Moves(s, t, "resolve", Conn(s, t), thread[s][t].matched)
        /\ thread[s][t].at = "port"
    BY <1>5, ReceivePortPlaced DEF ReceivePort, Go, At
  <2>2. Conn(s, t) \in Sync /\ Conn(s, t) = <<s, t>>
    BY <1>1, <1>3, <1>4, <2>1 DEF Attached
  <2>3. /\ wire[Conn(s, t)].toSlave # <<>>
        /\ \A c \in Sync : c # Conn(s, t) => wire'[c] = wire[c]
    BY <1>1, <1>5, <2>2, ReceiveWire DEF ReceivePort, IPlaced, Typed
  <2>4. \A c \in Sync : wire'[c].toSlave # <<>> => wire[c].toSlave # <<>>
    BY <2>3
  <2>5. backlog' = backlog
    BY <1>5 DEF ReceivePort
  <2> QED
    BY <1>1, <2>1, <2>2, <2>3, <2>4, <2>5, MovesKeepConns
<1>6. ASSUME NEW s \in Slaves, NEW t \in Thread, Resolve(s, t) PROVE ConnsKept
  <2>1. /\ Moves(s, t, "write", Conn(s, t), thread[s][t].matched)
        /\ thread[s][t].at = "resolve"
    BY <1>6, ResolvePlaced DEF Resolve, Go, At
  <2> QED
    BY <1>1, <1>3, <1>6, <2>1, MovesKeepConns DEF Onward, Attached, Resolve, syncVars
<1>7. ASSUME NEW s \in Slaves, NEW t \in Thread, ConnectUpdate(s, t) PROVE ConnsKept
  <2>1. /\ Moves(s, t, "done", Conn(s, t), thread[s][t].matched)
        /\ thread[s][t].at = "init"
    BY <1>7, ConnectUpdatePlaced
  <2> QED
    BY <1>1, <1>3, <1>7, <2>1, MovesKeepConns DEF Onward, Attached, ConnectUpdate, syncVars
<1>8. ASSUME NEW t \in Thread, AcceptUpdate(t) PROVE ConnsKept
  <2>1. Moves("master", t, "done", Conn("master", t), thread["master"][t].matched)
    BY <1>8, AcceptUpdatePlaced
  <2> QED
    BY <1>2, <1>8, <2>1, MovesKeepConns DEF AcceptUpdate, syncVars
<1>9. ASSUME NEW t \in Thread, SendPort(t) PROVE ConnsKept
  <2>1. /\ Moves("master", t, "write", Conn("master", t), thread["master"][t].matched)
        /\ thread["master"][t].at = "port"
    BY <1>9, SendPortPlaced DEF SendPort, Go, At
  <2>2. Conn("master", t) \in Sync
    BY <1>2, <1>4, <2>1 DEF Attached
  <2>3. \A c \in Sync : c # Conn("master", t) => wire'[c] = wire[c]
    BY <1>2, <1>9, <2>2, SendWire DEF SendPort, IPlaced, Typed, Byte
  <2>4. \A c \in Sync : wire'[c].toSlave # <<>> => wire[c].toSlave # <<>> \/ Served(c)
    BY <2>3 DEF Served
  <2>5. backlog' = backlog
    BY <1>9 DEF SendPort
  <2> QED
    BY <1>2, <2>1, <2>4, <2>5, MovesKeepConns
<1>10. ASSUME NEW s \in Side, NEW t \in Thread, WriteId(s, t) PROVE ConnsKept
  <2>1. /\ Moves(s, t, "read", Conn(s, t), thread[s][t].matched)
        /\ thread[s][t].at = "write"
    BY <1>10, WriteIdPlaced DEF WriteId, Go, At
  <2>2. Conn(s, t) \in Sync /\ (s # "master" => Conn(s, t) = <<s, t>>)
    BY <1>3, <1>4, <2>1 DEF Attached
  <2>3. \A c \in Sync : wire'[c].toSlave # <<>> => wire[c].toSlave # <<>> \/ Served(c)
    <3>1. \A c \in Sync : c # Conn(s, t) => wire'[c] = wire[c]
      BY <1>10, <2>2, SendWire DEF WriteId, IPlaced, Typed, Byte
    <3>2. s # "master" => wire'[Conn(s, t)].toSlave = wire[Conn(s, t)].toSlave
      BY <1>10, <2>2, SendWire DEF WriteId, IPlaced, Typed, Byte
    <3> QED
      BY <3>1, <3>2 DEF Served
  <2>4. backlog' = backlog
    BY <1>10 DEF WriteId
  <2> QED
    BY <2>1, <2>2, <2>3, <2>4, MovesKeepConns DEF Onward
<1>11. ASSUME NEW s \in Side, NEW t \in Thread, ReadId(s, t) PROVE ConnsKept
  <2>1. /\ Moves(s, t, "update", Conn(s, t), s # "master" \/ Conn(s, t)[2] # t)
        /\ thread[s][t].at = "read"
    BY <1>11, ReadIdPlaced
  <2>2. Conn(s, t) \in Sync /\ (s # "master" => Conn(s, t) = <<s, t>>)
    BY <1>3, <1>4, <2>1 DEF Attached
  <2>3. \A c \in Sync : wire'[c].toSlave # <<>> => wire[c].toSlave # <<>> \/ Served(c)
    <3>1. \A c \in Sync : c # Conn(s, t) => wire'[c] = wire[c]
      BY <1>11, <2>2, ReceiveWire DEF ReadId, IPlaced, Typed
    <3>2. \/ wire'[Conn(s, t)].toSlave = wire[Conn(s, t)].toSlave
          \/ wire[Conn(s, t)].toSlave # <<>>
      BY <1>11, <2>2, ReceiveWire DEF ReadId, IPlaced, Typed
    <3> QED
      BY <3>1, <3>2
  <2>4. backlog' = backlog
    BY <1>11 DEF ReadId
  <2> QED
    BY <2>1, <2>2, <2>3, <2>4, MovesKeepConns DEF Onward
<1>12. ASSUME NEW s \in Side, NEW t \in Thread, EnterUpdate(s, t) PROVE ConnsKept
  <2>1. PICK to : Moves(s, t, to, Conn(s, t), thread[s][t].matched)
    BY <1>12, EnterPlaced
  <2>2. thread[s][t].at = "update" /\ UNCHANGED syncVars
    BY <1>12, EnterPlaced
  <2> QED
    BY <1>3, <2>1, <2>2, MovesKeepConns DEF Onward, Attached, syncVars
<1>13. ASSUME NEW s \in Side, Join(s) PROVE ConnsKept
  <2>1. /\ Moves(s, "upload", "syncing", Conn(s, "upload"), thread[s]["upload"].matched)
        /\ thread[s]["upload"].at = "done" /\ UNCHANGED syncVars /\ "upload" \in Thread
    BY <1>13, JoinPlaced DEF Thread
  <2> QED
    BY <1>3, <2>1, MovesKeepConns DEF Onward, Attached, syncVars
<1>14. ASSUME NEW s \in Side, Ending(s) PROVE ConnsKept
  BY <1>14, EndingPlaced DEF End, ConnsKept, syncVars
<1>15. CASE UNCHANGED vars
  BY <1>15 DEF vars, ConnsKept
<1> QED
  BY Steps, <1>5, <1>6, <1>7, <1>8, <1>9, <1>10, <1>11, <1>12, <1>13, <1>14, <1>15

\* A thread's connection is none, or one of the sync connections; a slave's is its own.
LEMMA ConnKinds ==
  ASSUME IPlaced, NEW s \in Side, NEW t \in Thread
  PROVE  /\ Conn(s, t) \in Sync \cup {<<>>}
         /\ s # "master" => Conn(s, t) \in {<<>>, <<s, t>>}
<1>1. Placed(s, t)
  BY DEF IPlaced, AllPlaced
<1> QED
  BY <1>1 DEF Placed

\* In the beginning nobody is connected.
LEMMA InitAccepted == Init => Accepted /\ Heard
<1> SUFFICES ASSUME Init PROVE Accepted /\ Heard
  OBVIOUS
<1>1. "master" \in Side /\ \A t \in Thread : Conn("master", t) = <<>>
  BY DEF Init, Conn, Side
<1>2. Len(backlog) = 0
  BY DEF Init
<1>3. Accepted
  BY <1>1, <1>2 DEF Accepted
<1>4. ASSUME NEW c \in Sync
      PROVE  wire[c].toSlave = <<>> /\ thread[c[1]][c[2]].at \notin Onward
  <2>1. c[1] \in Side /\ c[1] # "master" /\ c[2] \in Thread
    BY ConnectAssumption DEF Sync, Side
  <2> QED
    BY <2>1 DEF Init, Onward
<1> QED
  BY <1>3, <1>4 DEF Heard

\* Known connections stay known, and nobody else's connection appears.
LEMMA AcceptedKept ==
  ASSUME IPlaced, ConnsKept, Accepted, Heard
  PROVE  Accepted' /\ Heard'
<1>1. \A s \in Side, t \in Thread : Conn(s, t)' = Conn(s, t)
  BY DEF ConnsKept, Conn
<1>2. "master" \in Side /\ \A c \in Sync : c[1] \in Side /\ c[2] \in Thread
  BY DEF Side, Sync
<1>3. \A c \in Sync : Known(c)' = Known(c)
  BY <1>1, <1>2 DEF Known
<1>4. \A k \in 1..Len(backlog) : backlog[k] \in Sync
  BY DEF IPlaced, Typed
<1>5. \A t \in Thread : Conn("master", t) # <<>> => Conn("master", t) \in Sync
  BY <1>2, ConnKinds
<1>6. Accepted'
  <2>1. \A k \in 1..Len(backlog') : Known(backlog[k])'
    BY <1>3, <1>4 DEF Accepted, ConnsKept
  <2>2. \A t \in Thread : Conn("master", t)' # <<>> => Known(Conn("master", t))'
    BY <1>1, <1>2, <1>3, <1>5 DEF Accepted
  <2>3. \A t \in Thread : Conn("master", t)' = Conn("master", t)
    BY <1>1, <1>2
  <2>4. backlog' = backlog
    BY DEF ConnsKept
  <2> QED
    BY <2>1, <2>2, <2>3, <2>4 DEF Accepted
<1>7. \A c \in Sync : Served(c)' = Served(c)
  BY <1>1, <1>2 DEF Served
<1> QED
  BY <1>6, <1>7 DEF Heard, ConnsKept

\* A slave's connection joins the backlog; it was not there before.
LEMMA ConnectSyncAccepted ==
  ASSUME IPlaced, NEW s \in Slaves, NEW t \in Thread, ConnectSync(s, t), Accepted, Heard
  PROVE  Accepted' /\ Heard'
<1> DEFINE c == <<s, t>>
<1>1. /\ s \in Side /\ s # "master" /\ "master" \in Side /\ c \in Sync /\ c[1] = s /\ c[2] = t
      /\ \A d \in Sync : d[1] \in Side /\ d[1] # "master" /\ d[2] \in Thread /\ d = <<d[1], d[2]>>
  BY ConnectAssumption DEF Side, Sync
<1>2. Moves(s, t, "port", c, thread[s][t].matched)
  BY ConnectSyncPlaced
<1> HIDE DEF c
<1>3. Conn(s, t) = <<>> /\ Conn(s, t)' = c
  <2>1. thread[s][t].at \notin Attached
    BY DEF ConnectSync, At, Attached
  <2>2. Placed(s, t)
    BY <1>1 DEF IPlaced, AllPlaced
  <2>3. Conn(s, t) = <<>>
    BY <2>1, <2>2 DEF Placed
  <2> QED
    BY <1>2, <2>3 DEF Moves, Conn
<1>4. \A r \in Side, u \in Thread : r # s \/ u # t => Conn(r, u)' = Conn(r, u)
  BY <1>2 DEF Moves, Conn
<1>5. c # <<>>
  BY <1>1, ConnKinds DEF c
<1>6. ~Known(c)
  BY <1>1, <1>3, <1>5 DEF Known
<1>7. \A d \in Sync : Known(d) => Known(d)'
  BY <1>1, <1>3, <1>4 DEF Known
<1>8. Known(c)'
  BY <1>1, <1>3 DEF Known
<1>9. /\ Len(backlog) \in Nat /\ Len(backlog') = Len(backlog) + 1
      /\ \A k \in 1..Len(backlog) : backlog'[k] = backlog[k] /\ backlog[k] \in Sync
      /\ backlog'[Len(backlog) + 1] = c
  <2>1. backlog \in Seq(Sync) /\ backlog' = Append(backlog, c)
    BY DEF IPlaced, Typed, ConnectSync, c
  <2> HIDE DEF c
  <2> QED
    BY <1>1, <2>1
<1>10. \A k \in 1..Len(backlog) : backlog[k] # c
  BY <1>6 DEF Accepted
<1>11. \A u \in Thread : Conn("master", u)' = Conn("master", u) /\ Conn("master", u) # c
  BY <1>1, <1>4, <1>5, <1>6 DEF Accepted
<1>12. Accepted'
  <2>1. \A k \in 1..Len(backlog') : k \in 1..Len(backlog) \/ k = Len(backlog) + 1
    BY <1>9
  <2>2. \A k \in 1..Len(backlog') : Known(backlog[k])'
    BY <1>7, <1>8, <1>9, <2>1 DEF Accepted
  <2>3. \A j, k \in 1..Len(backlog') : backlog'[j] = backlog'[k] => j = k
    BY <1>9, <1>10, <2>1 DEF Accepted
  <2>4. \A u \in Thread : Conn("master", u)' # <<>> => Known(Conn("master", u))'
    BY <1>1, <1>7, <1>11, ConnKinds DEF Accepted
  <2>5. \A u \in Thread, k \in 1..Len(backlog') :
          Conn("master", u)' # <<>> => backlog'[k] # Conn("master", u)'
    BY <1>9, <1>11, <2>1 DEF Accepted
  <2>6. \A u, v \in Thread : Conn("master", u)' # <<>> /\ v # u =>
          Conn("master", v)' # Conn("master", u)'
    BY <1>11 DEF Accepted
  <2> QED
    BY <2>2, <2>3, <2>4, <2>5, <2>6 DEF Accepted
<1>13. Heard'
  <2> SUFFICES ASSUME NEW d \in Sync,
                      wire'[d].toSlave # <<>> \/ thread'[d[1]][d[2]].at \in Onward
               PROVE  Served(d)'
    BY DEF Heard
  <2>1. wire' = wire
    BY DEF ConnectSync
  <2>2. CASE d[1] = s /\ d[2] = t
    <3>1. thread'[d[1]][d[2]].at = "port"
      BY <1>2, <2>2 DEF Moves
    <3>2. wire[d].toSlave # <<>>
      BY <2>1, <3>1 DEF Onward
    <3>3. d = c /\ Served(d)
      BY <1>1, <2>2, <3>2 DEF Heard, c
    <3> QED
      BY <1>11, <3>3 DEF Served
  <2>3. CASE d[1] # s \/ d[2] # t
    <3>1. thread'[d[1]][d[2]] = thread[d[1]][d[2]]
      BY <1>1, <1>2, <2>3 DEF Moves
    <3>2. Served(d)
      BY <2>1, <3>1 DEF Heard
    <3> QED
      BY <1>11, <3>2 DEF Served
  <2> QED
    BY <2>2, <2>3
<1> QED
  BY <1>12, <1>13

\* The master takes the first connection of the backlog.
LEMMA AcceptSyncAccepted ==
  ASSUME IPlaced, NEW t \in Thread, AcceptSync(t), Accepted, Heard
  PROVE  Accepted' /\ Heard'
<1>1. /\ "master" \in Side
      /\ \A d \in Sync : d[1] \in Side /\ d[1] # "master" /\ d[2] \in Thread
  BY ConnectAssumption DEF Side, Sync
<1>2. PICK c : c = Head(backlog)
  OBVIOUS
<1>3. Moves("master", t, "port", c, thread["master"][t].matched)
  BY <1>2, AcceptSyncPlaced
<1>4. /\ c \in Sync /\ Len(backlog) \in Nat \ {0} /\ c = backlog[1]
      /\ Len(backlog') = Len(backlog) - 1
      /\ \A k \in 1..Len(backlog') : backlog'[k] = backlog[k + 1]
      /\ \A k \in 1..Len(backlog) : backlog[k] \in Sync
  <2>1. backlog \in Seq(Sync) /\ backlog # <<>> /\ backlog' = Tail(backlog)
    BY DEF IPlaced, Typed, AcceptSync
  <2>2. c \in Sync /\ Len(backlog) \in Nat \ {0} /\ c = backlog[1]
    BY <1>2, <2>1, HeadTyped
  <2> QED
    BY <2>1, <2>2, HeadTailProperties
<1>5. Conn("master", t) = <<>> /\ Conn("master", t)' = c
  <2>1. thread["master"][t].at = "accept"
    BY DEF AcceptSync, At
  <2> QED
    BY <1>1, <1>3, <2>1 DEF IPlaced, AllPlaced, Placed, Attached, Moves, Conn
<1>6. \A r \in Side, u \in Thread : r # "master" \/ u # t => Conn(r, u)' = Conn(r, u)
  BY <1>3 DEF Moves, Conn
<1>7. \A d \in Sync : Known(d)' = Known(d)
  BY <1>1, <1>6 DEF Known
<1>8. 1 \in 1..Len(backlog) /\ \A k \in 1..Len(backlog') : k + 1 \in 1..Len(backlog) /\ k + 1 # 1
  BY <1>4
<1>9. Accepted'
  <2>1. \A k \in 1..Len(backlog') : Known(backlog[k])'
    BY <1>4, <1>7, <1>8 DEF Accepted
  <2>2. \A j, k \in 1..Len(backlog') : backlog'[j] = backlog'[k] => j = k
    BY <1>4, <1>8 DEF Accepted
  <2>3. Known(c)' /\ \A k \in 1..Len(backlog') : backlog'[k] # c
    BY <1>4, <1>7, <1>8 DEF Accepted
  <2>4. ASSUME NEW u \in Thread, u # t, Conn("master", u) # <<>>
        PROVE  /\ Known(Conn("master", u))'
               /\ Conn("master", u) # c
               /\ \A k \in 1..Len(backlog') : backlog'[k] # Conn("master", u)
    <3>1. Conn("master", u) \in Sync
      BY <1>1, <2>4, ConnKinds
    <3>2. Known(Conn("master", u)) /\ \A k \in 1..Len(backlog) : backlog[k] # Conn("master", u)
      BY <2>4 DEF Accepted
    <3>3. Conn("master", u)' = Conn("master", u)
      BY <1>1, <1>6, <2>4
    <3>4. Known(Conn("master", u))'
      BY <1>7, <3>1, <3>2, <3>3
    <3> QED
      BY <1>4, <1>8, <3>2, <3>4
  <2>5. \A u \in Thread : u # t => Conn("master", u)' = Conn("master", u)
    BY <1>1, <1>6
  <2>6. \A u \in Thread : Conn("master", u)' # <<>> => Known(Conn("master", u))'
    BY <1>5, <2>3, <2>4, <2>5 DEF Accepted
  <2>7. \A u \in Thread, k \in 1..Len(backlog') :
          Conn("master", u)' # <<>> => backlog'[k] # Conn("master", u)'
    BY <1>5, <2>3, <2>4, <2>5 DEF Accepted
  <2>8. \A u, v \in Thread : Conn("master", u)' # <<>> /\ v # u =>
          Conn("master", v)' # Conn("master", u)'
    BY <1>5, <2>4, <2>5 DEF Accepted
  <2> QED
    BY <2>1, <2>2, <2>6, <2>7, <2>8 DEF Accepted
<1>10. \A d \in Sync : d # <<>>
  BY DEF Sync
<1>11. Heard'
  <2> SUFFICES ASSUME NEW d \in Sync,
                      wire'[d].toSlave # <<>> \/ thread'[d[1]][d[2]].at \in Onward
               PROVE  Served(d)'
    BY DEF Heard
  <2>1. wire' = wire /\ thread'[d[1]][d[2]] = thread[d[1]][d[2]]
    BY <1>1, <1>3 DEF AcceptSync, Moves
  <2>2. PICK u \in Thread : Conn("master", u) = d
    BY <2>1 DEF Heard, Served
  <2>3. u # t
    BY <1>5, <1>10, <2>2
  <2> QED
    BY <1>1, <1>6, <2>2, <2>3 DEF Served
<1> QED
  BY <1>9, <1>11

\* A thread that is not through, and goes on without joining, leaves the sides that
\* synchronise as they are.
LEMMA JoinedKept ==
  ASSUME Joined, NEW s \in Side, NEW t \in Thread, NEW to, NEW c, NEW m,
         Moves(s, t, to, c, m), thread[s][t].at \notin {"done", "syncing"}, to # "syncing",
         \A r \in Side : peer'[r].swapped = peer[r].swapped
  PROVE  Joined'
<1> SUFFICES ASSUME NEW r \in Side, thread'[r]["upload"].at = "syncing"
             PROVE  /\ thread'[r]["download"].at = "done"
                    /\ peer'[r].swapped = ~thread'[r]["upload"].matched
  BY DEF Joined, Syncing
<1>1. "upload" \in Thread /\ "download" \in Thread
  BY DEF Thread
<1>2. thread'[r]["upload"] = thread[r]["upload"]
  BY <1>1 DEF Moves
<1>3. thread[r]["download"].at = "done" /\ peer[r].swapped = ~thread[r]["upload"].matched
  BY <1>2 DEF Joined, Syncing
<1>4. thread'[r]["download"] = thread[r]["download"]
  BY <1>1, <1>3 DEF Moves
<1> QED
  BY <1>2, <1>3, <1>4

\* Only Join changes whether a side has swapped its connections.
LEMMA SwappedKept ==
  ASSUME Typed, NEW s \in Side, NEW new,
         PeerBecomes(s, new), new.swapped = peer[s].swapped
  PROVE  \A r \in Side : peer'[r].swapped = peer[r].swapped
BY DEF PeerBecomes

\* Every step keeps what holds of the sides that synchronise.
LEMMA NextJoined == IPlaced /\ Joined /\ [Next]_vars => Joined'
<1> SUFFICES ASSUME IPlaced, Joined, [Next]_vars PROVE Joined'
  OBVIOUS
<1>1. "master" \in Side /\ \A s \in Slaves : s \in Side
  BY DEF Side
<1>2. \A s \in Side : peer[s] \in PeerState
  BY DEF IPlaced, Typed
<1>3. ASSUME NEW s \in Side, NEW t \in Thread, NEW new,
             PeerBecomes(s, new), new.swapped = peer[s].swapped,
             thread[s][t].at \notin {"done", "syncing"},
             NEW to, NEW c, NEW m, Moves(s, t, to, c, m), to # "syncing"
      PROVE  Joined'
  BY <1>3, JoinedKept, SwappedKept DEF IPlaced
<1>4. ASSUME NEW s \in Side, NEW t \in Thread, peer' = peer,
             thread[s][t].at \notin {"done", "syncing"},
             NEW to, NEW c, NEW m, Moves(s, t, to, c, m), to # "syncing"
      PROVE  Joined'
  BY <1>4, JoinedKept
<1>5. ASSUME NEW s \in Slaves, NEW t \in Thread, ConnectSync(s, t) PROVE Joined'
  BY <1>1, <1>4, <1>5, ConnectSyncPlaced DEF ConnectSync, At
<1>6. ASSUME NEW s \in Slaves, NEW t \in Thread, ReceivePort(s, t) PROVE Joined'
  BY <1>1, <1>4, <1>6, ReceivePortPlaced DEF ReceivePort, Go, At
<1>7. ASSUME NEW s \in Slaves, NEW t \in Thread, Resolve(s, t) PROVE Joined'
  <2>1. PeerBecomes(s, [peer[s] EXCEPT !.resolved = TRUE])
    BY <1>1, <1>7, PeerSteps DEF Resolve, IPlaced, Typed
  <2>2. [peer[s] EXCEPT !.resolved = TRUE].swapped = peer[s].swapped
    BY <1>1, <1>2 DEF PeerState
  <2> QED
    BY <1>1, <1>3, <1>7, <2>1, <2>2, ResolvePlaced DEF Resolve, Go, At
<1>8. ASSUME NEW s \in Side, NEW t \in Thread, thread[s][t].at = "init",
             Moves(s, t, "done", Conn(s, t), thread[s][t].matched),
             PeerBecomes(s, [peer[s] EXCEPT !.update_open = TRUE, !.init_update_mutex = None])
      PROVE  Joined'
  <2>1. [peer[s] EXCEPT !.update_open = TRUE, !.init_update_mutex = None].swapped
          = peer[s].swapped
    BY <1>2 DEF PeerState
  <2> QED
    BY <1>3, <1>8, <2>1
<1>9. ASSUME NEW s \in Slaves, NEW t \in Thread, ConnectUpdate(s, t) PROVE Joined'
  BY <1>1, <1>8, <1>9, ConnectUpdatePlaced
<1>10. ASSUME NEW t \in Thread, AcceptUpdate(t) PROVE Joined'
  BY <1>1, <1>8, <1>10, AcceptUpdatePlaced
<1>11. ASSUME NEW t \in Thread, AcceptSync(t) PROVE Joined'
  BY <1>1, <1>4, <1>11, AcceptSyncPlaced DEF AcceptSync, At
<1>12. ASSUME NEW t \in Thread, SendPort(t) PROVE Joined'
  BY <1>1, <1>4, <1>12, SendPortPlaced DEF SendPort, Go, At
<1>13. ASSUME NEW s \in Side, NEW t \in Thread, WriteId(s, t) PROVE Joined'
  BY <1>4, <1>13, WriteIdPlaced DEF WriteId, Go, At
<1>14. ASSUME NEW s \in Side, NEW t \in Thread, ReadId(s, t) PROVE Joined'
  BY <1>4, <1>14, ReadIdPlaced DEF ReadId, At
<1>15. ASSUME NEW s \in Side, NEW t \in Thread, EnterUpdate(s, t) PROVE Joined'
  <2>1. PICK to \in {"init", "done"} : Moves(s, t, to, Conn(s, t), thread[s][t].matched)
    BY <1>15, EnterPlaced
  <2>2. thread[s][t].at = "update"
    BY <1>15, EnterPlaced
  <2>3. [peer[s] EXCEPT !.init_update_mutex = t].swapped = peer[s].swapped
    BY <1>2 DEF PeerState
  <2>4. PeerBecomes(s, peer[s]) \/ PeerBecomes(s, [peer[s] EXCEPT !.init_update_mutex = t])
    BY <1>15, EnterPlaced
  <2> QED
    BY <1>3, <2>1, <2>2, <2>3, <2>4
<1>16. ASSUME NEW s \in Side, Join(s) PROVE Joined'
  <2>1. /\ Moves(s, "upload", "syncing", Conn(s, "upload"), thread[s]["upload"].matched)
        /\ PeerBecomes(s, [peer[s] EXCEPT !.swapped = ~thread[s]["upload"].matched])
        /\ thread[s]["download"].at = "done"
    BY <1>16, JoinPlaced DEF Join
  <2>2. peer'[s].swapped = ~thread[s]["upload"].matched
    BY <1>2, <2>1 DEF PeerBecomes, PeerState
  <2>3. "upload" \in Thread /\ "download" \in Thread /\ "upload" # "download"
    BY DEF Thread
  <2>4. thread'[s]["download"].at = "done"
          /\ thread'[s]["upload"].matched = thread[s]["upload"].matched
    BY <2>1, <2>3 DEF Moves
  <2>5. \A r \in Side : r # s => thread'[r] = thread[r] /\ peer'[r] = peer[r]
    <3>1. \A r \in Side, u \in Thread : r # s => thread'[r][u] = thread[r][u]
      BY <2>1 DEF Moves
    <3>2. \A r \in Side : r # s => peer'[r] = peer[r]
      BY <2>1 DEF PeerBecomes
    <3>3. \A r \in Side : thread[r] \in [Thread -> ThreadState] /\ thread'[r] \in [Thread -> ThreadState]
      BY <2>1 DEF Moves, IPlaced, Typed
    <3> QED
      BY <3>1, <3>2, <3>3
  <2> QED
    BY <2>2, <2>4, <2>5 DEF Joined, Syncing
<1>17. ASSUME NEW s \in Side, Ending(s) PROVE Joined'
  <2>1. thread' = thread /\ PeerBecomes(s, [peer[s] EXCEPT !.status = "aborted"])
    BY <1>17, EndingPlaced, PeerSteps DEF End, IPlaced, Typed
  <2>2. [peer[s] EXCEPT !.status = "aborted"].swapped = peer[s].swapped
    BY <1>2 DEF PeerState
  <2> QED
    BY <2>1, <2>2, SwappedKept DEF Joined, Syncing, IPlaced
<1>18. CASE UNCHANGED vars
  BY <1>18 DEF vars, Joined, Syncing
<1> QED
  BY Steps, <1>5, <1>6, <1>7, <1>9, <1>10, <1>11, <1>12, <1>13, <1>14, <1>15, <1>16, <1>17, <1>18

IWired == IPlaced /\ Accepted /\ Heard /\ Joined

\* The invariant behind Wired.
LEMMA AlwaysWired == Spec => []IWired
<1>1. Init => Joined
  BY DEF Init, Joined, Syncing, Side, Thread
<1>2. Init => IWired
  BY <1>1, InitPlaced, InitAccepted DEF IWired
<1>3. IWired /\ [Next]_vars => IWired'
  BY NextPlaced, NextJoined, StepsKeepConns, AcceptedKept, ConnectSyncAccepted,
     AcceptSyncAccepted DEF IWired
<1> QED
  BY <1>2, <1>3, PTL DEF Spec

\* When the master and a slave have both set up their connections, the master has
\* accepted both connections of that slave, one with each thread.
LEMMA BothServed ==
  ASSUME IWired, NEW s \in Slaves, Syncing(s)
  PROVE  /\ Conn(s, "download") = <<s, "download">> /\ Conn(s, "upload") = <<s, "upload">>
         /\ ~peer[s].swapped
         /\ \/ /\ Conn("master", "download") = <<s, "upload">>
               /\ Conn("master", "upload") = <<s, "download">>
            \/ /\ Conn("master", "download") = <<s, "download">>
               /\ Conn("master", "upload") = <<s, "upload">>
<1>1. /\ s \in Side /\ s # "master" /\ "download" \in Thread /\ "upload" \in Thread
      /\ <<s, "download">> \in Sync /\ <<s, "upload">> \in Sync
      /\ <<s, "download">> # <<s, "upload">>
  BY ConnectAssumption DEF Side, Thread, Sync
<1>2. /\ thread[s]["download"].at = "done" /\ thread[s]["upload"].at = "syncing"
      /\ peer[s].swapped = ~thread[s]["upload"].matched
  BY <1>1 DEF IWired, Joined, Syncing
<1>3. Placed(s, "download") /\ Placed(s, "upload")
  BY <1>1 DEF IWired, IPlaced, AllPlaced
<1>4. Conn(s, "download") = <<s, "download">> /\ Conn(s, "upload") = <<s, "upload">>
  BY <1>1, <1>2, <1>3 DEF Placed, Attached
<1>5. ~peer[s].swapped
  BY <1>1, <1>2, <1>3 DEF Placed, Compared
<1>6. Served(<<s, "download">>) /\ Served(<<s, "upload">>)
  BY <1>1, <1>2 DEF IWired, Heard, Onward
<1> QED
  BY <1>1, <1>4, <1>5, <1>6 DEF Served, Thread

\* "ensure download_fd is connected to peer's upload_fd and vice-versa": whatever
\* order the connections are accepted in, and whoever else connects.
THEOREM AlwaysPaired == Spec => []Wired
<1>1. IWired => Wired
  <2> SUFFICES ASSUME IWired, NEW s \in Slaves, Syncing("master"), Syncing(s)
               PROVE  /\ DownloadOf("master") = UploadOf(s)
                      /\ UploadOf("master") = DownloadOf(s)
    BY DEF Wired
  <2>1. "master" \in Side /\ "upload" \in Thread /\ thread["master"]["upload"].at = "syncing"
    BY DEF Side, Thread, Syncing
  <2>2. /\ peer["master"].swapped = ~thread["master"]["upload"].matched
        /\ thread["master"]["upload"].matched = (Conn("master", "upload")[2] # "upload")
    BY <2>1 DEF IWired, IPlaced, AllPlaced, Placed, Compared, Joined, Syncing
  <2>3. peer["master"].swapped \in BOOLEAN /\ thread["master"]["upload"].matched \in BOOLEAN
    BY <2>1 DEF IWired, IPlaced, Typed, PeerState, ThreadState
  <2>4. DownloadOf(s) = <<s, "download">> /\ UploadOf(s) = <<s, "upload">>
    BY BothServed DEF DownloadOf, UploadOf
  <2>5. CASE /\ Conn("master", "download") = <<s, "upload">>
             /\ Conn("master", "upload") = <<s, "download">>
    <3>1. Conn("master", "upload")[2] = "download"
      BY <2>5
    <3>2. thread["master"]["upload"].matched
      BY <2>2, <3>1
    <3>3. ~peer["master"].swapped
      BY <2>2, <2>3, <3>2
    <3> QED
      BY <2>4, <2>5, <3>3 DEF DownloadOf, UploadOf
  <2>6. CASE /\ Conn("master", "download") = <<s, "download">>
             /\ Conn("master", "upload") = <<s, "upload">>
    <3>1. Conn("master", "upload")[2] = "upload"
      BY <2>6
    <3>2. ~thread["master"]["upload"].matched
      BY <2>2, <3>1
    <3>3. peer["master"].swapped
      BY <2>2, <2>3, <3>2
    <3> QED
      BY <2>4, <2>6, <3>3 DEF DownloadOf, UploadOf
  <2> QED
    BY <2>5, <2>6, BothServed
<1> QED
  BY <1>1, AlwaysWired, PTL
-----------------------------------------------------------------------------
(* The update connection. *)

\* A slave waits for the update connection once, after it has opened it.
Waiting ==
  /\ \A k \in 1..Len(update_backlog) : peer[update_backlog[k]].update_open
  /\ \A j, k \in 1..Len(update_backlog) : update_backlog[j] = update_backlog[k] => j = k

\* A slave that was never started has done nothing; the master has been started.
Absent ==
  /\ peer["master"].status # "absent"
  /\ \A s \in Slaves : peer[s].status = "absent" =>
       ~peer[s].update_open /\ \A t \in Thread : thread[s][t].at = "connect"

\* The master closes update_sock_ as it takes the connection of a slave, or dies.
Adopted ==
  /\ ~update_sock => peer["master"].status = "aborted" \/ peer["master"].update_open
  /\ peer["master"].update_open =>
       \E s \in Slaves :
         /\ peer[s].update_open
         /\ \A k \in 1..Len(update_backlog) : update_backlog[k] # s

Unhurt == kills = 0 /\ Alone => \A s \in Side : peer[s].status # "aborted"

\* Steps that have nothing to do with the update connection, nor end a process.
Quiet ==
  /\ UNCHANGED <<updateVars, kills>>
  /\ \A s \in Side :
       /\ peer'[s].update_open = peer[s].update_open
       /\ peer'[s].status = peer[s].status
       /\ peer[s].status = "absent" => thread'[s] = thread[s]

\* A thread of a running process moves: the threads of the others do not.
LEMMA MovesQuiet ==
  ASSUME Typed, NEW s \in Side, NEW t \in Thread, NEW to, NEW c, NEW m,
         Moves(s, t, to, c, m), Running(s),
         UNCHANGED <<updateVars, kills>>,
         NEW new, PeerBecomes(s, new), new.status = peer[s].status,
         new.update_open = peer[s].update_open
  PROVE  Quiet
<1>1. \A r \in Side : peer[r].status = "absent" => thread'[r] = thread[r]
  <2> SUFFICES ASSUME NEW r \in Side, peer[r].status = "absent" PROVE thread'[r] = thread[r]
    OBVIOUS
  <2>1. \A u \in Thread : thread'[r][u] = thread[r][u]
    BY DEF Moves, Running
  <2>2. thread[r] \in [Thread -> ThreadState] /\ thread'[r] \in [Thread -> ThreadState]
    BY DEF Typed, Moves
  <2> QED
    BY <2>1, <2>2
<1> QED
  BY <1>1 DEF Quiet, PeerBecomes

\* Few steps have to do with the update connection, or end a process.
LEMMA StepsQuiet ==
  ASSUME IPlaced, [Next]_vars
  PROVE  \/ \E s \in Slaves, t \in Thread : ConnectUpdate(s, t)
         \/ \E t \in Thread : AcceptUpdate(t)
         \/ \E s \in Side : Ending(s)
         \/ Quiet
<1>1. "master" \in Side /\ \A s \in Slaves : s \in Side
  BY DEF Side
<1>2. \A s \in Side : peer[s] \in PeerState
  BY DEF IPlaced, Typed
<1>3. ASSUME NEW s \in Side, peer' = peer PROVE PeerBecomes(s, peer[s])
  BY <1>3 DEF PeerBecomes, IPlaced, Typed
<1>4. ASSUME NEW s \in Side, NEW t \in Thread, NEW to, NEW c, NEW m,
             Moves(s, t, to, c, m), Running(s), peer' = peer, UNCHANGED <<updateVars, kills>>
      PROVE  Quiet
  BY <1>3, <1>4, MovesQuiet DEF IPlaced
<1>5. ASSUME NEW s \in Slaves, NEW t \in Thread, ConnectSync(s, t) PROVE Quiet
  BY <1>1, <1>4, <1>5, ConnectSyncPlaced DEF ConnectSync, At
<1>6. ASSUME NEW s \in Slaves, NEW t \in Thread, ReceivePort(s, t) PROVE Quiet
  BY <1>1, <1>4, <1>6, ReceivePortPlaced DEF ReceivePort, Go, At
<1>7. ASSUME NEW s \in Slaves, NEW t \in Thread, Resolve(s, t) PROVE Quiet
  <2>1. PeerBecomes(s, [peer[s] EXCEPT !.resolved = TRUE])
    BY <1>1, <1>7, PeerSteps DEF Resolve, IPlaced, Typed
  <2>2. /\ [peer[s] EXCEPT !.resolved = TRUE].status = peer[s].status
        /\ [peer[s] EXCEPT !.resolved = TRUE].update_open = peer[s].update_open
    BY <1>1, <1>2 DEF PeerState
  <2>3. Moves(s, t, "write", Conn(s, t), thread[s][t].matched)
    BY <1>7, ResolvePlaced
  <2>4. Running(s) /\ UNCHANGED <<updateVars, kills>>
    BY <1>7 DEF Resolve, Go, At
  <2> QED
    BY <1>1, <2>1, <2>2, <2>3, <2>4, MovesQuiet DEF IPlaced
<1>8. ASSUME NEW t \in Thread, AcceptSync(t) PROVE Quiet
  BY <1>1, <1>4, <1>8, AcceptSyncPlaced DEF AcceptSync, At
<1>9. ASSUME NEW t \in Thread, SendPort(t) PROVE Quiet
  BY <1>1, <1>4, <1>9, SendPortPlaced DEF SendPort, Go, At
<1>10. ASSUME NEW s \in Side, NEW t \in Thread, WriteId(s, t) PROVE Quiet
  BY <1>4, <1>10, WriteIdPlaced DEF WriteId, Go, At
<1>11. ASSUME NEW s \in Side, NEW t \in Thread, ReadId(s, t) PROVE Quiet
  BY <1>4, <1>11, ReadIdPlaced DEF ReadId
<1>12. ASSUME NEW s \in Side, NEW t \in Thread, EnterUpdate(s, t) PROVE Quiet
  <2>1. PICK to : Moves(s, t, to, Conn(s, t), thread[s][t].matched)
    BY <1>12, EnterPlaced
  <2>2. Running(s) /\ UNCHANGED <<updateVars, kills>>
    BY <1>12, EnterPlaced
  <2>3. /\ [peer[s] EXCEPT !.init_update_mutex = t].status = peer[s].status
        /\ [peer[s] EXCEPT !.init_update_mutex = t].update_open = peer[s].update_open
    BY <1>2 DEF PeerState
  <2>4. PeerBecomes(s, peer[s]) \/ PeerBecomes(s, [peer[s] EXCEPT !.init_update_mutex = t])
    BY <1>12, EnterPlaced
  <2> QED
    BY <2>1, <2>2, <2>3, <2>4, MovesQuiet DEF IPlaced
<1>13. ASSUME NEW s \in Side, Join(s) PROVE Quiet
  <2> DEFINE new == [peer[s] EXCEPT !.swapped = ~thread[s]["upload"].matched]
  <2>1. /\ Moves(s, "upload", "syncing", Conn(s, "upload"), thread[s]["upload"].matched)
        /\ PeerBecomes(s, new) /\ Running(s) /\ UNCHANGED <<updateVars, kills>>
        /\ "upload" \in Thread
    BY <1>13, JoinPlaced DEF Thread
  <2>2. new.status = peer[s].status /\ new.update_open = peer[s].update_open
    BY <1>2 DEF PeerState
  <2> QED
    BY <2>1, <2>2, MovesQuiet DEF IPlaced
<1>14. CASE UNCHANGED vars
  BY <1>14 DEF vars, Quiet, updateVars
<1> QED
  BY Steps, <1>5, <1>6, <1>7, <1>8, <1>9, <1>10, <1>11, <1>12, <1>13, <1>14

Sharing == Waiting /\ Absent /\ Adopted

\* The other steps leave the update connections alone.
LEMMA QuietShares ==
  ASSUME IPlaced, Sharing, Quiet
  PROVE  Sharing'
<1>1. \A k \in 1..Len(update_backlog) : update_backlog[k] \in Slaves
  BY DEF IPlaced, Typed
<1>2. "master" \in Side /\ \A s \in Slaves : s \in Side
  BY DEF Side
<1>3. update_backlog' = update_backlog /\ update_sock' = update_sock
  BY DEF Quiet, updateVars
<1>4. \A s \in Side : peer'[s].update_open = peer[s].update_open /\ peer'[s].status = peer[s].status
  BY DEF Quiet
<1>5. Waiting'
  BY <1>1, <1>2, <1>3, <1>4 DEF Sharing, Waiting
<1>6. Absent'
  BY <1>2, <1>4 DEF Sharing, Absent, Quiet
<1>7. Adopted'
  BY <1>2, <1>3, <1>4 DEF Sharing, Adopted
<1> QED
  BY <1>5, <1>6, <1>7 DEF Sharing

\* A slave joins those that wait, which it has not done before.
LEMMA ConnectUpdateShares ==
  ASSUME IPlaced, Sharing, NEW s \in Slaves, NEW t \in Thread, ConnectUpdate(s, t)
  PROVE  Sharing'
<1>1. s \in Side /\ s # "master" /\ "master" \in Side /\ \A r \in Slaves : r \in Side
  BY ConnectAssumption DEF Side
<1>2. /\ Moves(s, t, "done", Conn(s, t), thread[s][t].matched)
      /\ PeerBecomes(s, [peer[s] EXCEPT !.update_open = TRUE, !.init_update_mutex = None])
      /\ Running(s) /\ thread[s][t].at = "init"
  BY ConnectUpdatePlaced
<1>3. /\ peer'[s].update_open /\ peer'[s].status = "running"
      /\ \A r \in Side : r # s => peer'[r] = peer[r]
  BY <1>1, <1>2 DEF PeerBecomes, PeerState, IPlaced, Typed, Running
<1>4. ~peer[s].update_open
  BY <1>1, <1>2 DEF IPlaced, AllPlaced, Placed
<1>5. /\ Len(update_backlog) \in Nat /\ Len(update_backlog') = Len(update_backlog) + 1
      /\ \A k \in 1..Len(update_backlog) :
           update_backlog'[k] = update_backlog[k] /\ update_backlog[k] \in Slaves
      /\ update_backlog'[Len(update_backlog) + 1] = s
  BY DEF ConnectUpdate, IPlaced, Typed
<1>6. update_sock' = update_sock
  BY DEF ConnectUpdate
<1>7. \A k \in 1..Len(update_backlog) : update_backlog[k] # s
  BY <1>4 DEF Sharing, Waiting
<1>8. \A k \in 1..Len(update_backlog') :
        k \in 1..Len(update_backlog) \/ k = Len(update_backlog) + 1
  BY <1>5
<1>9. Waiting'
  <2>1. \A k \in 1..Len(update_backlog') : peer'[update_backlog'[k]].update_open
    BY <1>1, <1>3, <1>5, <1>7, <1>8 DEF Sharing, Waiting
  <2>2. \A j, k \in 1..Len(update_backlog') : update_backlog'[j] = update_backlog'[k] => j = k
    BY <1>5, <1>7, <1>8 DEF Sharing, Waiting
  <2> QED
    BY <2>1, <2>2 DEF Waiting
<1>10. Absent'
  <2>1. \A r \in Slaves : r # s => \A u \in Thread : thread'[r][u] = thread[r][u]
    BY <1>1, <1>2 DEF Moves
  <2> QED
    BY <1>1, <1>3, <2>1 DEF Sharing, Absent
<1>11. Adopted'
  <2>1. peer'["master"] = peer["master"]
    BY <1>1, <1>3
  <2>2. ASSUME peer["master"].update_open
        PROVE  \E r \in Slaves : /\ peer'[r].update_open
                                 /\ \A k \in 1..Len(update_backlog') : update_backlog'[k] # r
    <3>1. PICK r \in Slaves : /\ peer[r].update_open
                              /\ \A k \in 1..Len(update_backlog) : update_backlog[k] # r
      BY <2>2 DEF Sharing, Adopted
    <3>2. r # s
      BY <1>4, <3>1
    <3> QED
      BY <1>1, <1>3, <1>5, <1>8, <3>1, <3>2
  <2> QED
    BY <1>6, <2>1, <2>2 DEF Sharing, Adopted
<1> QED
  BY <1>9, <1>10, <1>11 DEF Sharing

\* The master adopts the slave that waits first.
LEMMA AcceptUpdateShares ==
  ASSUME IPlaced, Sharing, NEW t \in Thread, AcceptUpdate(t)
  PROVE  Sharing'
<1>1. "master" \in Side /\ \A r \in Slaves : r \in Side /\ r # "master"
  BY ConnectAssumption DEF Side
<1>2. /\ Moves("master", t, "done", Conn("master", t), thread["master"][t].matched)
      /\ PeerBecomes("master",
           [peer["master"] EXCEPT !.update_open = TRUE, !.init_update_mutex = None])
      /\ Running("master")
  BY AcceptUpdatePlaced
<1>3. /\ peer'["master"].update_open /\ peer'["master"].status = "running"
      /\ \A r \in Side : r # "master" => peer'[r] = peer[r]
  BY <1>1, <1>2 DEF PeerBecomes, PeerState, IPlaced, Typed, Running
<1>4. /\ Len(update_backlog) \in Nat \ {0} /\ Len(update_backlog') = Len(update_backlog) - 1
      /\ \A k \in 1..Len(update_backlog') : update_backlog'[k] = update_backlog[k + 1]
      /\ \A k \in 1..Len(update_backlog) : update_backlog[k] \in Slaves
  <2>1. /\ update_backlog \in Seq(Slaves) /\ update_backlog # <<>>
        /\ update_backlog' = Tail(update_backlog)
    BY DEF AcceptUpdate, IPlaced, Typed
  <2> QED
    BY <2>1, HeadTyped, HeadTailProperties
<1>5. /\ 1 \in 1..Len(update_backlog)
      /\ \A k \in 1..Len(update_backlog') : k + 1 \in 1..Len(update_backlog) /\ k + 1 # 1
  BY <1>4
<1>6. Waiting'
  <2>1. \A k \in 1..Len(update_backlog') : peer'[update_backlog'[k]].update_open
    BY <1>1, <1>3, <1>4, <1>5 DEF Sharing, Waiting
  <2>2. \A j, k \in 1..Len(update_backlog') : update_backlog'[j] = update_backlog'[k] => j = k
    BY <1>4, <1>5 DEF Sharing, Waiting
  <2> QED
    BY <2>1, <2>2 DEF Waiting
<1>7. Absent'
  <2>1. \A r \in Slaves, u \in Thread : thread'[r][u] = thread[r][u]
    BY <1>1, <1>2 DEF Moves
  <2> QED
    BY <1>1, <1>3, <2>1 DEF Sharing, Absent
<1>8. Adopted'
  <2>1. update_backlog[1] \in Slaves /\ peer'[update_backlog[1]].update_open
    BY <1>1, <1>3, <1>4, <1>5 DEF Sharing, Waiting
  <2>2. \A k \in 1..Len(update_backlog') : update_backlog'[k] # update_backlog[1]
    BY <1>4, <1>5 DEF Sharing, Waiting
  <2> QED
    BY <1>3, <2>1, <2>2 DEF Adopted
<1> QED
  BY <1>6, <1>7, <1>8 DEF Sharing

\* Only the end of the master closes update_sock_.
LEMMA EndingShares ==
  ASSUME IPlaced, Sharing, NEW s \in Side, Ending(s)
  PROVE  Sharing'
<1>1. "master" \in Side /\ \A r \in Slaves : r \in Side
  BY DEF Side
<1>2. End(s) /\ Running(s) /\ thread' = thread /\ update_backlog' = update_backlog
  BY EndingPlaced DEF End, updateVars
<1>3. PeerBecomes(s, [peer[s] EXCEPT !.status = "aborted"])
  BY <1>2, PeerSteps DEF End, IPlaced, Typed
<1>4. /\ \A r \in Side : peer'[r].update_open = peer[r].update_open
      /\ \A r \in Side : peer'[r].status = IF r = s THEN "aborted" ELSE peer[r].status
  <2>1. peer[s] \in PeerState
    BY DEF IPlaced, Typed
  <2>2. peer'[s].update_open = peer[s].update_open /\ peer'[s].status = "aborted"
    BY <1>3, <2>1 DEF PeerBecomes, PeerState
  <2> QED
    BY <1>3, <2>2 DEF PeerBecomes
<1>5. \A k \in 1..Len(update_backlog) : update_backlog[k] \in Slaves
  BY DEF IPlaced, Typed
<1>6. Waiting'
  BY <1>1, <1>2, <1>4, <1>5 DEF Sharing, Waiting
<1>7. Absent'
  BY <1>1, <1>2, <1>4 DEF Sharing, Absent
<1>8. Adopted'
  <2>1. ~update_sock' => s = "master" \/ ~update_sock
    BY <1>2 DEF End
  <2> QED
    BY <1>1, <1>2, <1>4, <2>1 DEF Sharing, Adopted
<1> QED
  BY <1>6, <1>7, <1>8 DEF Sharing

\* In the beginning nobody waits, and the master listens.
LEMMA InitShares == Init => Sharing
<1> SUFFICES ASSUME Init PROVE Sharing
  OBVIOUS
<1> USE ConnectAssumption
<1>1. "master" \in Side /\ \A s \in Slaves : s \in Side /\ s # "master"
  BY DEF Side
<1>2. \A s \in Side : ~peer[s].update_open
  BY DEF Init
<1>3. peer["master"].status = "running"
  BY <1>1 DEF Init
<1>4. \A s \in Slaves, t \in Thread : thread[s][t].at = "connect"
  BY <1>1 DEF Init
<1>5. Len(update_backlog) = 0 /\ update_sock
  BY DEF Init
<1> QED
  BY <1>1, <1>2, <1>3, <1>4, <1>5 DEF Sharing, Waiting, Absent, Adopted

\* Every step keeps who waits for whom.
LEMMA NextShares == IPlaced /\ Sharing /\ [Next]_vars => Sharing'
BY StepsQuiet, QuietShares, ConnectUpdateShares, AcceptUpdateShares, EndingShares
-----------------------------------------------------------------------------
(* Types, with the limits. *)

\* A slave connects while there is room.
LEMMA NextBacklog ==
  IPlaced /\ Len(backlog) <= Backlog /\ [Next]_vars => Len(backlog') <= Backlog
<1> SUFFICES ASSUME IPlaced, Len(backlog) <= Backlog, [Next]_vars
             PROVE  Len(backlog') <= Backlog
  OBVIOUS
<1>1. backlog \in Seq(Sync) /\ Len(backlog) \in Nat /\ Backlog \in Nat
  BY ConnectAssumption DEF IPlaced, Typed
<1>2. ASSUME NEW s \in Slaves, NEW t \in Thread, ConnectSync(s, t)
      PROVE  Len(backlog') <= Backlog
  <2>1. <<s, t>> \in Sync
    BY DEF Sync
  <2> QED
    BY <1>1, <1>2, <2>1 DEF ConnectSync
<1>3. ASSUME NEW t \in Thread, AcceptSync(t) PROVE Len(backlog') <= Backlog
  <2>1. backlog # <<>> /\ backlog' = Tail(backlog)
    BY <1>3 DEF AcceptSync
  <2>2. Len(backlog') = Len(backlog) - 1
    BY <1>1, <2>1, HeadTailProperties
  <2> QED
    BY <1>1, <2>2
<1>4. CASE ConnsKept
  BY <1>4 DEF ConnsKept
<1> QED
  BY <1>2, <1>3, <1>4, StepsKeepConns

\* Every thread has a connection or none, the backlogs keep their limits, and no
\* slave asks twice for the update connection.
THEOREM TypeCorrect == Spec => []TypeOK
<1> DEFINE Inv == IPlaced /\ Sharing /\ Len(backlog) <= Backlog
<1>1. Init => Inv
  <2>1. Init => Len(backlog) <= Backlog
    BY ConnectAssumption DEF Init
  <2> QED
    BY <2>1, InitPlaced, InitShares
<1>2. Inv /\ [Next]_vars => Inv'
  BY NextPlaced, NextShares, NextBacklog
<1>3. Inv => TypeOK
  <2> SUFFICES ASSUME Inv PROVE TypeOK
    OBVIOUS
  <2>1. ASSUME NEW c \in Sync
        PROVE  wire[c] \in [toSlave : Seq(Thread \cup {"port"}), toMaster : Seq(Thread)]
    <3>1. wire[c] \in Wire /\ c[2] \in Thread
      BY DEF IPlaced, Typed, Sync
    <3>2. wire[c].toMaster \in Seq(Byte) /\ wire[c].toSlave \in Seq(Byte)
      BY <3>1 DEF Wire
    <3>3. \A k \in 1..Len(wire[c].toMaster) : wire[c].toMaster[k] \in Thread
      BY <3>1 DEF IPlaced, Ids
    <3>4. wire[c].toMaster \in Seq(Thread)
      BY <3>2, <3>3
    <3> QED
      BY <3>1, <3>2, <3>4 DEF Wire, Byte
  <2>2. wire \in [Sync -> [toSlave : Seq(Thread \cup {"port"}), toMaster : Seq(Thread)]]
    BY <2>1 DEF IPlaced, Typed
  <2>3. IsInjective(update_backlog)
    <3>1. DOMAIN update_backlog = 1..Len(update_backlog)
      BY DEF IPlaced, Typed
    <3> QED
      BY <3>1 DEF IsInjective, Sharing, Waiting
  <2> QED
    BY <2>2, <2>3 DEF TypeOK, IPlaced, Typed, ThreadState, Place, PeerState
<1> QED
  BY <1>1, <1>2, <1>3, PTL DEF Spec
-----------------------------------------------------------------------------
(* Nobody falls. *)

\* With one slave at most, those that have been started are the same.
LEMMA OneStarted ==
  ASSUME Alone, NEW r \in Slaves, NEW s \in Slaves,
         peer[r].status # "absent", peer[s].status # "absent"
  PROVE  r = s
<1> DEFINE started == {q \in Slaves : peer[q].status # "absent"}
<1>1. IsFiniteSet(started) /\ Cardinality(started) <= 1 /\ Cardinality(started) \in Nat
  BY ConnectAssumption, FS_Subset, FS_CardinalityType DEF Alone
<1>2. r \in started /\ s \in started
  OBVIOUS
<1> HIDE DEF started
<1>3. ASSUME r # s PROVE FALSE
  <2>1. {r} \subseteq started \ {s}
    BY <1>2, <1>3
  <2>2. IsFiniteSet(started \ {s}) /\ Cardinality(started \ {s}) = Cardinality(started) - 1
    BY <1>1, <1>2, FS_RemoveElement
  <2>3. Cardinality({r}) <= Cardinality(started \ {s}) /\ Cardinality({r}) = 1
    BY <2>1, <2>2, FS_Subset, FS_Singleton
  <2> QED
    BY <1>1, <2>2, <2>3
<1> QED
  BY <1>3

\* Which slaves have been started never changes.
LEMMA AloneKept ==
  ASSUME IPlaced, NEW s \in Side, Ending(s), Alone'
  PROVE  Alone
<1>1. \A r \in Slaves : r \in Side
  BY DEF Side
<1>2. PeerBecomes(s, [peer[s] EXCEPT !.status = "aborted"]) /\ peer[s].status = "running"
  BY EndingPlaced, PeerSteps DEF End, IPlaced, Typed, Running
<1>3. peer'[s].status = "aborted"
  <2>1. peer[s] \in PeerState
    BY DEF IPlaced, Typed
  <2> QED
    BY <1>2, <2>1 DEF PeerBecomes, PeerState
<1>4. \A r \in Slaves : peer'[r].status # "absent" <=> peer[r].status # "absent"
  BY <1>1, <1>2, <1>3 DEF PeerBecomes
<1>5. {r \in Slaves : peer'[r].status # "absent"} = {r \in Slaves : peer[r].status # "absent"}
  BY <1>4
<1> QED
  BY <1>5 DEF Alone

\* While nobody has fallen, and nobody is killed, nobody has a reason to fall.
LEMMA NobodyEnds ==
  ASSUME IWired, Sharing, Unhurt, Alone, kills = 0, NEW s \in Side, Ending(s)
  PROVE  kills' # 0
<1> SUFFICES ASSUME kills' = 0 PROVE FALSE
  OBVIOUS
<1> USE ConnectAssumption
<1>1. \A r \in Side : peer[r] \in PeerState /\ peer[r].status # "aborted"
  BY DEF IWired, IPlaced, Typed, Unhurt
<1>2. "master" \in Side /\ \A r \in Slaves : r \in Side /\ r # "master"
  BY DEF Side
<1>3. ~Kill(s)
  BY DEF Kill, IWired, IPlaced, Typed
<1>4. Running("master")
  BY <1>1, <1>2 DEF Sharing, Absent, Running, PeerState
<1>5. ASSUME NEW t \in Thread, Cut(s, t) PROVE FALSE
  <2>1. CASE s = "master"
    <3>1. /\ thread["master"][t].at \in {"port", "connect", "write", "read"}
          /\ ~Running(Conn("master", t)[1])
      BY <1>5, <2>1 DEF Cut, At, PeerGone
    <3>2. thread["master"][t].at \in Attached /\ Conn("master", t) \in Sync
      BY <1>2, <3>1 DEF IWired, IPlaced, AllPlaced, Placed, Attached
    <3>3. PICK c \in Sync : c = Conn("master", t)
      BY <3>2
    <3>4. c[1] \in Slaves /\ c[2] \in Thread /\ c # <<>> /\ c = <<c[1], c[2]>>
      BY DEF Sync
    <3>5. Known(c)
      BY <3>3, <3>4 DEF IWired, Accepted
    <3>6. thread[c[1]][c[2]].at # "connect"
      BY <1>2, <3>4, <3>5 DEF IWired, IPlaced, AllPlaced, Placed, Known, Attached
    <3>7. peer[c[1]].status # "absent"
      BY <3>4, <3>6 DEF Sharing, Absent
    <3>8. Running(c[1])
      BY <1>1, <1>2, <3>4, <3>7 DEF Running, PeerState
    <3> QED
      BY <3>1, <3>3, <3>8
  <2>2. CASE s # "master"
    BY <1>4, <1>5, <2>2 DEF Cut, PeerGone
  <2> QED
    BY <2>1, <2>2
<1>6. ASSUME NEW t \in Thread, s # "master", UpdateFails(s, t) PROVE FALSE
  <2>1. s \in Slaves /\ Running(s) /\ thread[s][t].at = "init"
    BY <1>6 DEF Side, UpdateFails, At
  <2>2. peer[s].resolved /\ ~peer[s].update_open
    BY <1>6, <2>1 DEF IWired, IPlaced, AllPlaced, Placed, Resolved
  <2>3. ~update_sock
    BY <1>6, <2>2 DEF UpdateFails
  <2>4. PICK r \in Slaves : peer[r].update_open
    BY <1>1, <1>2, <2>3 DEF Sharing, Adopted
  <2>5. peer[r].status # "absent" /\ peer[s].status # "absent"
    BY <2>1, <2>4 DEF Sharing, Absent, Running
  <2>6. r = s
    BY <2>1, <2>5, OneStarted
  <2> QED
    BY <2>2, <2>4, <2>6
<1> QED
  BY <1>3, <1>5, <1>6 DEF Ending

\* Processes other than those that end keep their status.
LEMMA NextUnhurt ==
  IWired /\ Sharing /\ Unhurt /\ [Next]_vars => Unhurt'
<1> SUFFICES ASSUME IWired, Sharing, Unhurt, [Next]_vars, kills' = 0, Alone'
             PROVE  \A s \in Side : peer'[s].status # "aborted"
  BY DEF Unhurt
<1>1. \A s \in Slaves : s \in Side
  BY DEF Side
<1>2. ASSUME \A s \in Side : peer'[s].status = peer[s].status, kills' = kills
      PROVE  \A s \in Side : peer'[s].status # "aborted"
  <2>1. {r \in Slaves : peer'[r].status # "absent"} = {r \in Slaves : peer[r].status # "absent"}
    BY <1>1, <1>2
  <2>2. Alone
    BY <2>1 DEF Alone
  <2> QED
    BY <1>2, <2>2 DEF Unhurt
<1>3. ASSUME NEW s \in Side,
             PeerBecomes(s, [peer[s] EXCEPT !.update_open = TRUE, !.init_update_mutex = None])
      PROVE  \A r \in Side : peer'[r].status = peer[r].status
  <2>1. peer[s] \in PeerState
    BY DEF IWired, IPlaced, Typed
  <2>2. peer'[s].status = peer[s].status
    BY <1>3, <2>1 DEF PeerBecomes, PeerState
  <2> QED
    BY <1>3, <2>2 DEF PeerBecomes
<1>4. ASSUME NEW s \in Slaves, NEW t \in Thread, ConnectUpdate(s, t)
      PROVE  \A r \in Side : peer'[r].status # "aborted"
  BY <1>1, <1>2, <1>3, <1>4, ConnectUpdatePlaced DEF ConnectUpdate, IWired
<1>5. ASSUME NEW t \in Thread, AcceptUpdate(t)
      PROVE  \A r \in Side : peer'[r].status # "aborted"
  <2>1. "master" \in Side
    BY DEF Side
  <2> QED
    BY <1>2, <1>3, <1>5, <2>1, AcceptUpdatePlaced DEF AcceptUpdate, IWired
<1>6. ASSUME NEW s \in Side, Ending(s) PROVE FALSE
  <2>1. Alone
    BY <1>6, AloneKept DEF IWired
  <2>2. kills = 0
    BY <1>6, ConnectAssumption
    DEF Ending, Kill, Cut, UpdateFails, Abort, IWired, IPlaced, Typed
  <2> QED
    BY <1>6, <2>1, <2>2, NobodyEnds
<1>7. CASE Quiet
  BY <1>2, <1>7 DEF Quiet
<1> QED
  BY <1>4, <1>5, <1>6, <1>7, StepsQuiet DEF IWired

\* A master and one slave get through the handshake unless someone is killed, and
\* those that synchronise share one update connection.
THEOREM AlwaysStanding == Spec => []NobodyFalls
<1>1. Init => Sharing /\ Unhurt
  <2>1. Init => \A s \in Side : peer[s].status \in {"running", "absent"}
    BY DEF Init
  <2> QED
    BY <2>1, InitShares DEF Unhurt
<1>2. IWired /\ Sharing /\ Unhurt /\ [Next]_vars => Sharing' /\ Unhurt'
  BY NextShares, NextUnhurt DEF IWired
<1>3. IWired /\ Sharing /\ Unhurt => NobodyFalls
  <2> SUFFICES ASSUME IWired, Sharing, Unhurt, kills = 0, Alone,
                      NEW s \in Slaves, Syncing("master"), Syncing(s)
               PROVE  peer["master"].update_open /\ update_backlog = <<>>
    BY DEF NobodyFalls, Unhurt
  <2>1. "master" \in Side /\ "upload" \in Thread
    BY DEF Side, Thread
  <2>2. peer["master"].update_open
    BY <2>1 DEF IWired, IPlaced, AllPlaced, Placed, Syncing
  <2>3. PICK r \in Slaves : /\ peer[r].update_open
                            /\ \A k \in 1..Len(update_backlog) : update_backlog[k] # r
    BY <2>2 DEF Sharing, Adopted
  <2>4. update_backlog \in Seq(Slaves)
    BY DEF IWired, IPlaced, Typed
  <2>5. ASSUME NEW k \in 1..Len(update_backlog) PROVE FALSE
    <3>1. update_backlog[k] \in Slaves /\ peer[update_backlog[k]].update_open
      BY <2>4 DEF Sharing, Waiting
    <3>2. update_backlog[k] = r
      BY <2>3, <3>1, OneStarted DEF Sharing, Absent
    <3> QED
      BY <2>3, <3>2
  <2>6. update_backlog = <<>>
    <3>1. Len(update_backlog) \in Nat /\ ~(1 \in 1..Len(update_backlog))
      BY <2>4, <2>5
    <3>2. Len(update_backlog) = 0
      BY <3>1
    <3> QED
      BY <2>4, <3>2, EmptySeq
  <2> QED
    BY <2>2, <2>6
<1> QED
  BY <1>1, <1>2, <1>3, AlwaysWired, PTL DEF Spec
=============================================================================
