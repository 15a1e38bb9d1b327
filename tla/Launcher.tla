------------------------------ MODULE Launcher ------------------------------
(***************************************************************************)
(* jpgsync as the user starts it (src/src/jpgsync.cpp:308-374).  The       *)
(* launcher runs a master, reads the port from its output, runs a slave    *)
(* with that port, and waits for both; or it runs only one of the two, and *)
(* the other one is started elsewhere.  On a remote host the program must  *)
(* be there, or be sent there first (:268-290).  A child (:391-420) is     *)
(* followed as far as the launcher, or the other child, can tell: Connect  *)
(* and PeerSync tell what it does in between, CommandLine how it is called.*)
(***************************************************************************)
EXTENDS Naturals

CONSTANT Modes       \* what to run: "both", "master", "slave"

ASSUME ModesAssumption == Modes \subseteq {"both", "master", "slave"}

VARIABLES
  mode,
  root,              \* of a role: host, "local" (none is named), "localhost"
                     \* (or 127.0.0.1, by ssh), "remote" or "user" (remote, as
                     \* another user), and whether the program is there
  distribute,        \* whether -d was given
  launcher,          \* what the launcher does next
  exit_status,
  at,                \* where the child in a role is
  printed,           \* whether the master has printed its port
  result             \* how a child has ended

task == <<mode, distribute>>
launcherVars == <<task, root, launcher, exit_status>>
vars == <<launcherVars, at, printed, result>>

Role == {"master", "slave"}

LauncherAt == {"options", "run master", "port", "run slave", "wait slave",
               "wait master", "done", "crashed"}

\* "connecting": no connection yet; "handshake": at least one, but not all;
\* "stuck": in Sync, but waiting for the other one, which waits too.
ChildAt == {"none", "starting", "accepting", "connecting", "handshake",
            "syncing", "stuck", "ended"}

\* The exit status of a child that was not killed by a signal.
Code == [ok |-> 0, usage |-> 1, errors |-> 2, missing |-> 127]

Host == {"local", "localhost", "remote", "user"}

Root == {r \in [host : Host, program : BOOLEAN] : r.host = "local" => r.program}

Launched(role) == mode \in {"both", role}

\* A child that the launcher does not run is started by someone else.
Init ==
  /\ mode \in Modes
  /\ root \in [Role -> Root]
  /\ distribute \in BOOLEAN
  /\ launcher = "options"
  /\ exit_status = 0
  /\ at = [role \in Role |-> IF Launched(role) THEN "none" ELSE "starting"]
  /\ printed = FALSE
  /\ result = [role \in Role |-> "none"]
-----------------------------------------------------------------------------
(* The launcher. *)

\* Options or roots that the parser does not accept.
RejectOptions ==
  /\ launcher = "options"
  /\ launcher' = "done"
  /\ exit_status' = 1
  /\ UNCHANGED <<task, root, at, printed, result>>

First == IF mode = "slave" THEN "run slave" ELSE "run master"

\* Mutant: the roots stay in the order they were given in.
InitDefaultsInOrder ==
  /\ launcher = "options"
  /\ launcher' = First
  /\ UNCHANGED <<task, root, exit_status, at, printed, result>>

\* "swap the args such that the remote one comes first": any host that is named
\* counts as remote.
InitDefaults ==
  /\ launcher = "options"
  /\ root' = IF mode = "both" /\ root["master"].host = "local"
             THEN [master |-> root["slave"], slave |-> root["master"]]
             ELSE root
  /\ launcher' = First
  /\ UNCHANGED <<task, exit_status, at, printed, result>>

\* With -d, rsync brings the program to a remote host, but under the user's own
\* name there; that it fails is only reported.
Distribute(role) ==
  \/ UNCHANGED root
  \/ /\ distribute /\ root[role].host = "remote"
     /\ root' = [root EXCEPT ![role].program = TRUE]

\* popen: the shell, here or there, finds the program or ends.
Execute(role) ==
  /\ Distribute(role)
  /\ at' = [at EXCEPT ![role] = IF root'[role].program THEN "starting" ELSE "ended"]
  /\ result' = [result EXCEPT ![role] = IF root'[role].program THEN "none" ELSE "missing"]

RunMaster ==
  /\ launcher = "run master"
  /\ Execute("master")
  /\ launcher' = IF mode = "both" THEN "port" ELSE "wait master"
  /\ UNCHANGED <<task, exit_status, printed>>

\* fgets has a line, with the port in it.
CapturePort ==
  /\ launcher = "port" /\ printed
  /\ launcher' = "run slave"
  /\ UNCHANGED <<task, root, exit_status, at, printed, result>>

\* fgets meets the end of the output: an exception that nobody catches.
CaptureFails ==
  /\ launcher = "port" /\ ~printed
  /\ at["master"] = "ended"
  /\ launcher' = "crashed"
  /\ UNCHANGED <<task, root, exit_status, at, printed, result>>

RunSlave ==
  /\ launcher = "run slave"
  /\ Execute("slave")
  /\ launcher' = "wait slave"
  /\ UNCHANGED <<task, exit_status, printed>>

\* WEXITSTATUS of what pclose returns.  For a child killed by a signal it is 0
\* if the local shell has replaced itself with the child; another shell returns
\* 128 + SIGABRT, and ssh returns 255.
Statuses(role) ==
  IF result[role] # "killed" THEN {Code[result[role]]}
  ELSE IF root[role].host = "local" THEN {0, 134} ELSE {134, 255}

\* Mutant: the status of whoever ends last.
LastStatus(es) == es

\* Mutant: they are added up.
SummedStatus(es) == exit_status + es

\* The first status that is not 0 is kept.
KeptStatus(es) == IF exit_status = 0 THEN es ELSE exit_status

\* pclose waits for the child.
Wait(role, next) ==
  /\ at[role] = "ended"
  /\ \E es \in Statuses(role) : exit_status' = KeptStatus(es)
  /\ launcher' = next
  /\ UNCHANGED <<task, root, at, printed, result>>

WaitSlave ==
  /\ launcher = "wait slave"
  /\ Wait("slave", IF mode = "both" THEN "wait master" ELSE "done")

WaitMaster ==
  /\ launcher = "wait master"
  /\ Wait("master", "done")
-----------------------------------------------------------------------------
(* The children. *)

Ends(role, how) ==
  /\ at' = [at EXCEPT ![role] = "ended"]
  /\ result' = [result EXCEPT ![role] = how]
  /\ UNCHANGED <<launcherVars, printed>>

\* Mutant: the line with the port stays in a buffer.
ListenQuietly ==
  /\ at["master"] = "starting"
  /\ at' = [at EXCEPT !["master"] = "accepting"]
  /\ UNCHANGED <<launcherVars, printed, result>>

\* Both listening sockets are there, and the port is printed.
Listen ==
  /\ at["master"] = "starting"
  /\ at' = [at EXCEPT !["master"] = "accepting"]
  /\ printed' = TRUE
  /\ UNCHANGED <<launcherVars, result>>

Attach ==
  /\ at["slave"] = "starting"
  /\ at' = [at EXCEPT !["slave"] = "connecting"]
  /\ UNCHANGED <<launcherVars, printed, result>>

\* The host in the slave's -s option is that of the master's root, or localhost.
Reachable ==
  mode = "both" /\ root["slave"].host \in {"remote", "user"} =>
    root["master"].host \notin {"local", "localhost"}

FirstConnection ==
  /\ at["slave"] = "connecting"
  /\ at["master"] = "accepting" /\ Reachable
  /\ at' = [at EXCEPT !["slave"] = "handshake"]
  /\ UNCHANGED <<launcherVars, printed, result>>

AllConnections ==
  /\ at["slave"] = "handshake"
  /\ at["master"] = "accepting"
  /\ at' = [role \in Role |-> "syncing"]
  /\ UNCHANGED <<launcherVars, printed, result>>

\* Nobody listens: the slave meets Fatal.
Refused ==
  /\ at["slave"] \in {"connecting", "handshake"}
  /\ at["master"] \in {"none", "starting", "ended"} \/ ~Reachable
  /\ Ends("slave", "killed")

\* An offer is misread: the downloader takes files for offers and waits for what
\* is never sent, and the uploader at the other end waits for its mask.
Hang ==
  /\ \A role \in Role : at[role] = "syncing"
  /\ at' = [role \in Role |-> "stuck"]
  /\ UNCHANGED <<launcherVars, printed, result>>

\* Sync returns; "errors" if some file had to be given up.  One that is stuck
\* meets the end of its streams when the other one is gone.
Finish(role) ==
  /\ \/ at[role] = "syncing"
     \/ at[role] = "stuck" /\ \E other \in Role : at[other] = "ended"
  /\ \E how \in {"ok", "errors"} : Ends(role, how)

\* The child rejects its options (a slave does not reject those that the master
\* has accepted: what differs is its -s, which the launcher has made up itself).
RejectArguments(role) ==
  /\ at[role] = "starting"
  /\ mode = "both" => role = "master"
  /\ Ends(role, "usage")

\* Fatal, an exception, or a signal from outside, at any time.
Kill(role) ==
  /\ at[role] \notin {"none", "ended"}
  /\ Ends(role, "killed")

LauncherStep ==
  \/ InitDefaults \/ RunMaster \/ CapturePort \/ CaptureFails
  \/ RunSlave \/ WaitSlave \/ WaitMaster

ChildStep(role) ==
  \/ role = "master" /\ Listen
  \/ role = "slave" /\ (Attach \/ FirstConnection \/ AllConnections \/ Refused)
  \/ Finish(role)

Over == launcher \in {"done", "crashed"}

Terminated == Over /\ UNCHANGED vars

Next ==
  \/ LauncherStep \/ RejectOptions
  \/ \E role \in Role : ChildStep(role) \/ RejectArguments(role) \/ Kill(role)
  \/ Hang
  \/ Terminated

\* The launcher and the children go on as long as they can, and a sync that has
\* all its connections ends, unless an offer is misread (Termination of PeerSync
\* and what it excepts).  Nobody need be killed or get stuck.
Spec ==
  /\ Init /\ [][Next]_vars
  /\ WF_vars(LauncherStep)
  /\ \A role \in Role : WF_vars(ChildStep(role))
-----------------------------------------------------------------------------
TypeOK ==
  /\ mode \in Modes
  /\ root \in [Role -> Root] /\ distribute \in BOOLEAN
  /\ launcher \in LauncherAt
  /\ exit_status \in {0, 1, 2, 127, 134, 255}
  /\ at \in [Role -> ChildAt]
  /\ printed \in BOOLEAN
  /\ result \in [Role -> DOMAIN Code \cup {"none", "killed"}]

\* "sync succeeded" (jpgsync.cpp:369-372) is said over every child that the
\* launcher waited for: a failure of one is not covered up by the success of
\* the other, unless a signal killed a child behind a shell that hides it.
SuccessOfAll ==
  launcher = "done" /\ exit_status = 0 =>
    \A role \in Role : Launched(role) =>
      \/ result[role] = "ok"
      \/ result[role] = "killed" /\ root[role].host = "local"

\* A slave on another host is told to connect to localhost only if the user has
\* named localhost as the master's host, although the roots may be given in either
\* order (jpgsync.cpp:117-132, :341-344).
SlaveFindsMaster ==
  at["slave"] = "connecting" => Reachable \/ root["master"].host = "localhost"

\* The launcher waits forever only for a master that waits forever for a slave
\* which died before it had made all its connections (master.cpp:32-36), or for
\* two children of which one has misread an offer (peer.cpp:161-212).
EndsUnlessStranded ==
  \/ <>Over
  \/ <>[](at["master"] = "accepting" /\ at["slave"] = "ended")
  \/ <>[](\A role \in Role : at[role] = "stuck")
=============================================================================
