------------------------------ MODULE Connect ------------------------------
(***************************************************************************)
(* How a master and a slave set up their three connections                 *)
(* (src/src/peer.cpp:50-57, :68-91, src/src/master.cpp, src/src/slave.cpp),*)
(* when either may be killed and a second slave may try as well.           *)
(* In each process two threads initialise a sync connection each, one that *)
(* it wants to download on and one to upload on; then the first of them to *)
(* get there sets up the update connection.  The master accepts whatever   *)
(* connection comes first, so that its download may have met the slave's   *)
(* download: only then the master swaps the two.                           *)
(*                                                                         *)
(* A sync connection is named by the slave and the thread that opened it.  *)
(***************************************************************************)
EXTENDS SequencesExt

CONSTANTS
  Slaves,
  Backlog,           \* what sync_sock_ is told to listen with
  MaxKills           \* bound: how many processes are killed

ASSUME ConnectAssumption ==
  /\ IsFiniteSet(Slaves) /\ Slaves # {} /\ "master" \notin Slaves
  /\ Backlog \in Nat \ {0} /\ MaxKills \in Nat

Side == {"master"} \cup Slaves
Thread == {"download", "upload"}
Sync == Slaves \X Thread
None == "none"

VARIABLES
  thread,            \* of each side: at, conn (its sync connection), matched
                     \* (what InitSyncConnection has returned)
  peer,              \* each side: status, init_update_mutex (the thread that
                     \* holds it), update_open (whether update_fd is), swapped,
                     \* resolved (whether update_addr_info_ has an address)
  wire,              \* of each sync connection: what is in flight toSlave and
                     \* toMaster
  backlog,           \* connections that sync_sock_ has not accepted yet
  update_sock,       \* whether the socket of that name listens
  update_backlog,    \* the slaves it has not accepted yet
  kills

vars == <<thread, peer, wire, backlog, update_sock, update_backlog, kills>>
syncVars == <<wire, backlog>>
updateVars == <<update_sock, update_backlog>>

Running(s) == peer[s].status = "running"

\* Any of the slaves may be there or not.
Init ==
  /\ thread = [s \in Side |-> [t \in Thread |->
       [at |-> IF s = "master" THEN "accept" ELSE "connect",
        conn |-> <<>>, matched |-> FALSE]]]
  /\ \E present \in SUBSET Slaves :
       peer = [s \in Side |->
         [status |-> IF s \in present \cup {"master"} THEN "running" ELSE "absent",
          init_update_mutex |-> None, update_open |-> FALSE, swapped |-> FALSE,
          resolved |-> FALSE]]
  /\ wire = [c \in Sync |-> [toSlave |-> <<>>, toMaster |-> <<>>]]
  /\ backlog = <<>>
  /\ update_sock = TRUE
  /\ update_backlog = <<>>
  /\ kills = 0

At(s, t, place) == Running(s) /\ thread[s][t].at = place
Go(s, t, from, to) == At(s, t, from) /\ thread' = [thread EXCEPT ![s][t].at = to]

\* Fatal, or an exception: the process is gone, and with the master its sockets.
End(s) ==
  /\ peer' = [peer EXCEPT ![s].status = "aborted"]
  /\ update_sock' = (update_sock /\ s # "master")
  /\ UNCHANGED <<thread, syncVars, update_backlog>>

Abort(s) == End(s) /\ UNCHANGED kills
-----------------------------------------------------------------------------
(* InitSyncConnection. *)

\* The slave's connect succeeds before the master accepts, while there is room.
ConnectSync(s, t) ==
  /\ At(s, t, "connect") /\ Running("master")
  /\ Len(backlog) < Backlog
  /\ backlog' = Append(backlog, <<s, t>>)
  /\ thread' = [thread EXCEPT ![s][t].at = "port", ![s][t].conn = <<s, t>>]
  /\ UNCHANGED <<peer, wire, updateVars, kills>>

AcceptSync(t) ==
  /\ At("master", t, "accept")
  /\ backlog # <<>>
  /\ thread' = [thread EXCEPT !["master"][t].at = "port",
                              !["master"][t].conn = Head(backlog)]
  /\ backlog' = Tail(backlog)
  /\ UNCHANGED <<peer, wire, updateVars, kills>>

\* The sync connection of a thread, and what it sends and receives there.
Conn(s, t) == thread[s][t].conn
Inbox(s) == IF s = "master" THEN "toMaster" ELSE "toSlave"
Outbox(s) == IF s = "master" THEN "toSlave" ELSE "toMaster"
Send(s, t, byte) == wire' = [wire EXCEPT ![Conn(s, t)][Outbox(s)] = Append(@, byte)]
Receive(s, t) ==
  /\ wire[Conn(s, t)][Inbox(s)] # <<>>
  /\ wire' = [wire EXCEPT ![Conn(s, t)][Inbox(s)] = Tail(@)]

\* The master sends the port of update_sock_ first.
SendPort(t) ==
  /\ Go("master", t, "port", "write")
  /\ Send("master", t, "port")
  /\ UNCHANGED <<peer, backlog, updateVars, kills>>

ReceivePort(s, t) ==
  /\ Go(s, t, "port", "resolve")
  /\ Receive(s, t)
  /\ UNCHANGED <<peer, backlog, updateVars, kills>>

\* Mutant: one thread leaves it to the other.
ResolveOnce(s, t) ==
  /\ Go(s, t, "resolve", "write")
  /\ peer' = [peer EXCEPT ![s].resolved = @ \/ t = "download"]
  /\ UNCHANGED <<syncVars, updateVars, kills>>

\* Both threads of a slave do it, with one AddrInfo and the same port; the list
\* that the other one may be walking is replaced, but not freed.
Resolve(s, t) ==
  /\ Go(s, t, "resolve", "write")
  /\ peer' = [peer EXCEPT ![s].resolved = TRUE]
  /\ UNCHANGED <<syncVars, updateVars, kills>>

\* Either side tells whether it means to download or to upload ...
WriteId(s, t) ==
  /\ Go(s, t, "write", "read")
  /\ Send(s, t, t)
  /\ UNCHANGED <<peer, backlog, updateVars, kills>>

\* Mutant: a connection matches when both ends mean the same.
SameId(mine, id) == id = mine

\* A connection matches when the other end means the opposite.
OtherId(mine, id) == id # mine

\* ... and compares; the slave leaves a mismatch to the master.
ReadId(s, t) ==
  /\ At(s, t, "read")
  /\ Receive(s, t)
  /\ thread' = [thread EXCEPT
       ![s][t].at = "update",
       ![s][t].matched = s # "master" \/ OtherId(t, Head(wire[Conn(s, t)].toMaster))]
  /\ UNCHANGED <<peer, backlog, updateVars, kills>>

\* The process at the other end is gone, or refuses to listen.
PeerGone(s, t) ==
  IF s = "master" THEN ~Running(Conn(s, t)[1]) ELSE ~Running("master")

\* Mutant: the end of the connection is not noticed by a read.
CutWriting(s, t) ==
  /\ \E place \in {"connect", "port", "write"} : At(s, t, place)
  /\ PeerGone(s, t)
  /\ Abort(s)

\* Then connect and write throw, and a read does so or meets the end: Fatal.
Cut(s, t) ==
  /\ \E place \in {"connect", "port", "write", "read"} : At(s, t, place)
  /\ PeerGone(s, t)
  /\ Abort(s)
-----------------------------------------------------------------------------
(* update_initializer. *)

\* Either InitUpdateConnection is called, holding the mutex, or, as update_fd is
\* open, the other thread has been here before.
EnterInitializer(s, t) ==
  /\ Go(s, t, "update", IF peer[s].update_open THEN "done" ELSE "init")
  /\ peer' = IF peer[s].update_open THEN peer ELSE [peer EXCEPT ![s].init_update_mutex = t]
  /\ UNCHANGED <<syncVars, updateVars, kills>>

\* Mutant: nothing keeps the two threads apart.
EnterUnlocked(s, t) == EnterInitializer(s, t)

EnterUpdate(s, t) == peer[s].init_update_mutex = None /\ EnterInitializer(s, t)

\* InitUpdateConnection returns, and update_initializer with it.
UpdateOpened(s, t) ==
  /\ Go(s, t, "init", "done")
  /\ peer' = [peer EXCEPT ![s].update_open = TRUE, ![s].init_update_mutex = None]

ConnectUpdate(s, t) ==
  /\ update_sock /\ peer[s].resolved
  /\ update_backlog' = Append(update_backlog, s)
  /\ UpdateOpened(s, t)
  /\ UNCHANGED <<syncVars, update_sock, kills>>

\* Without an address Connect returns false: Fatal.  Refused, it throws.
UpdateFails(s, t) ==
  /\ At(s, t, "init")
  /\ ~(update_sock /\ peer[s].resolved)
  /\ Abort(s)

\* The master accepts, holding the mutex, and closes update_sock_ on its way out.
AcceptUpdate(t) ==
  /\ update_sock /\ update_backlog # <<>>
  /\ update_backlog' = Tail(update_backlog)
  /\ update_sock' = FALSE
  /\ UpdateOpened("master", t)
  /\ UNCHANGED <<syncVars, kills>>
-----------------------------------------------------------------------------
\* The main thread, the one that meant to upload, joins the other and swaps.
Join(s) ==
  /\ thread[s]["download"].at = "done"
  /\ Go(s, "upload", "done", "syncing")
  /\ peer' = [peer EXCEPT ![s].swapped = ~thread[s]["upload"].matched]
  /\ UNCHANGED <<syncVars, updateVars, kills>>

\* A process is killed, or one of its system calls fails.
Kill(s) ==
  /\ Running(s) /\ kills < MaxKills
  /\ kills' = kills + 1
  /\ End(s)

Syncing(s) == thread[s]["upload"].at = "syncing"

Settled(s) == ~Running(s) \/ Syncing(s)

Terminated == (\A s \in Side : Settled(s)) /\ UNCHANGED vars

Step(s, t) ==
  \/ /\ s # "master"
     /\ \/ ConnectSync(s, t) \/ ReceivePort(s, t) \/ Resolve(s, t)
        \/ ConnectUpdate(s, t) \/ UpdateFails(s, t)
  \/ s = "master" /\ (AcceptSync(t) \/ SendPort(t) \/ AcceptUpdate(t))
  \/ WriteId(s, t) \/ ReadId(s, t) \/ Cut(s, t) \/ EnterUpdate(s, t)
  \/ t = "upload" /\ Join(s)

Next ==
  \/ \E s \in Side : Kill(s) \/ \E t \in Thread : Step(s, t)
  \/ Terminated

\* Every thread keeps being scheduled; nobody need be killed.
Spec == Init /\ [][Next]_vars /\ \A s \in Side, t \in Thread : WF_vars(Step(s, t))
-----------------------------------------------------------------------------
TypeOK ==
  /\ thread \in [Side -> [Thread ->
       [at : {"accept", "connect", "port", "resolve", "write", "read", "update",
              "init", "done", "syncing"},
        conn : Sync \cup {<<>>}, matched : BOOLEAN]]]
  /\ peer \in [Side ->
       [status : {"running", "absent", "aborted"},
        init_update_mutex : Thread \cup {None}, update_open : BOOLEAN,
        swapped : BOOLEAN, resolved : BOOLEAN]]
  /\ wire \in [Sync -> [toSlave : Seq(Thread \cup {"port"}), toMaster : Seq(Thread)]]
  /\ backlog \in Seq(Sync) /\ Len(backlog) <= Backlog
  /\ update_sock \in BOOLEAN
  /\ update_backlog \in Seq(Slaves) /\ IsInjective(update_backlog)
  /\ kills \in 0..MaxKills

\* What each side takes for its download_fd and its upload_fd in the end.
DownloadOf(s) == Conn(s, IF peer[s].swapped THEN "upload" ELSE "download")
UploadOf(s) == Conn(s, IF peer[s].swapped THEN "download" ELSE "upload")

\* "ensure download_fd is connected to peer's upload_fd and vice-versa"
\* (peer.cpp:88), though the connections are accepted in any order, each side
\* looks at the answer of one of its threads only, and the slave never swaps.
Wired ==
  \A s \in Slaves : Syncing("master") /\ Syncing(s) =>
    /\ DownloadOf("master") = UploadOf(s)
    /\ UploadOf("master") = DownloadOf(s)

Alone == Cardinality({s \in Slaves : peer[s].status # "absent"}) <= 1

\* Two threads race for the update connection on either side, and the sides need
\* not agree on the winner (peer.cpp:70-77), and two threads of a slave resolve
\* its address at the same time (slave.cpp:122).  Still nobody is refused, finds
\* no address or falls in another way, unless someone is killed or there are two
\* slaves; and when master and slave synchronise they share one connection.
NobodyFalls ==
  kills = 0 /\ Alone =>
    /\ \A s \in Side : peer[s].status # "aborted"
    /\ \A s \in Slaves : Syncing("master") /\ Syncing(s) =>
         peer["master"].update_open /\ update_backlog = <<>>

\* The master waits in accept, with one thread or both, for slaves that were never
\* there or are gone, and has not been told so.
Stranded ==
  /\ \A s \in Slaves : ~Running(s)
  /\ \A t \in Thread : thread["master"][t].at \in {"accept", "update", "init", "done"}

\* The handshake ends: accepting while holding init_update_mutex (master.cpp:65)
\* blocks nobody whom the other side waits for, and a side that dies is noticed,
\* by the slave always, and by the master unless it is left in accept without a
\* connection to read from.  (With two slaves anyone may be left waiting.)
HandshakeEnds ==
  Alone => /\ \A s \in Slaves : <>Settled(s)
           /\ <>Settled("master") \/ <>[]Stranded

\* The message "Cannot connect to multiple slaves" (master.cpp:53-54): a master
\* does not go on with two.
OneSlave == Syncing("master") => Conn("master", "download")[1] = Conn("master", "upload")[1]
=============================================================================
