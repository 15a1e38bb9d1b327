--------------------------- MODULE LauncherProof ---------------------------
(***************************************************************************)
(* What the launcher makes of its children, for every set of modes.        *)
(***************************************************************************)
EXTENDS Launcher, ProgramOptions, FiniteSetTheorems, TLAPS

\* A child has a result exactly when it has ended.
Results ==
  \A role \in Role :
    IF at[role] = "ended" THEN result[role] # "none" ELSE result[role] = "none"

IType == TypeOK /\ Results

\* What a child or the launcher may exit with, or a shell in place of the child.
Status == {0, 1, 2, 127, 134, 255}

\* The launcher runs and waits for what the mode asks for.
Places ==
  /\ launcher = "run master" => mode # "slave"
  /\ launcher = "port" => mode = "both"
  /\ launcher \in {"run slave", "wait slave"} => mode # "master"
  /\ launcher = "wait master" => mode # "slave"

\* What a child with the exit status 0 may have come to.
Fine(role) ==
  \/ result[role] = "ok"
  \/ result[role] = "killed" /\ root[role].host = "local"

Waited(role) == at[role] = "ended" /\ (exit_status = 0 => Fine(role))

\* The exit status tells of each child that has been waited for.
Told ==
  /\ launcher \in {"options", "run master", "port", "run slave", "wait slave"} =>
       exit_status = 0
  /\ launcher = "wait master" =>
       IF mode = "both" THEN Waited("slave") ELSE exit_status = 0
  /\ launcher = "done" /\ exit_status = 0 =>
       \A role \in Role : Launched(role) => Waited(role)

\* The slave is told where the master is, or what the user called that place.
Named == Reachable \/ root["master"].host = "localhost"

\* Once the roots are in order, the slave can reach the master, or looks for it
\* where the user said it was; before, and when the options are rejected, the
\* launcher has not run it.
InOrder ==
  mode = "both" =>
    /\ launcher = "options" => at["slave"] = "none"
    /\ launcher \notin {"options", "done", "crashed"} => Named
    /\ at["slave"] # "none" => Named
-----------------------------------------------------------------------------
(* The children. *)

\* What the children do by themselves.
Child ==
  \/ \E role \in Role : ChildStep(role) \/ RejectArguments(role) \/ Kill(role)
  \/ Hang

\* A child does not touch the launcher; it ends once, with a result, and only if
\* it has been started.
ChildMoves ==
  /\ UNCHANGED launcherVars
  /\ printed' \in BOOLEAN
  /\ at' \in [Role -> ChildAt]
  /\ result' \in [Role -> DOMAIN Code \cup {"none", "killed"}]
  /\ \A role \in Role :
       /\ at[role] \in {"none", "ended"} =>
            at'[role] = at[role] /\ result'[role] = result[role]
       /\ at'[role] # "ended" => result'[role] = result[role]
       /\ at'[role] = "ended" => result'[role] # "none"

\* A child that was started, and has not ended, may end in any way.
LEMMA EndsMoves ==
  ASSUME IType, NEW role \in Role, at[role] \notin {"none", "ended"},
         NEW how \in {"ok", "usage", "errors", "killed"}, Ends(role, how)
  PROVE  ChildMoves
<1>1. at' \in [Role -> ChildAt]
  BY DEF IType, TypeOK, Ends, ChildAt
<1>2. how \in DOMAIN Code \cup {"none", "killed"} /\ how # "none"
  BY DEF Code
<1>3. result' \in [Role -> DOMAIN Code \cup {"none", "killed"}]
  BY <1>2 DEF IType, TypeOK, Ends
<1>4. printed' \in BOOLEAN
  BY DEF IType, TypeOK, Ends
<1>5. \A r \in Role : at'[r] = IF r = role THEN "ended" ELSE at[r]
  BY DEF IType, TypeOK, Ends
<1>6. \A r \in Role : result'[r] = IF r = role THEN how ELSE result[r]
  BY DEF IType, TypeOK, Ends
<1> QED
  BY <1>1, <1>2, <1>3, <1>4, <1>5, <1>6 DEF ChildMoves, IType, Results, Ends

\* Whatever a child does is a step of this kind.
LEMMA ChildStepMoves == IType /\ Child => ChildMoves
<1> SUFFICES ASSUME IType, Child PROVE ChildMoves
  OBVIOUS
<1>1. ASSUME NEW role \in Role,
             Finish(role) \/ RejectArguments(role) \/ Kill(role) \/ (role = "slave" /\ Refused)
      PROVE  ChildMoves
  BY <1>1, EndsMoves DEF Finish, RejectArguments, Kill, Refused
<1>2. ASSUME NEW r \in Role, NEW place \in ChildAt \ {"ended"},
             at[r] \notin {"none", "ended"}, at' = [at EXCEPT ![r] = place],
             UNCHANGED <<launcherVars, result>>, printed' \in BOOLEAN
      PROVE  ChildMoves
  BY <1>2 DEF ChildMoves, IType, TypeOK, Results
<1>3. CASE Listen
  BY <1>2, <1>3 DEF Listen, ChildAt, Role
<1>4. CASE Attach \/ FirstConnection
  BY <1>2, <1>4 DEF Attach, FirstConnection, ChildAt, Role, IType, TypeOK
<1>5. ASSUME NEW place \in {"syncing", "stuck"}, at' = [role \in Role |-> place],
             \A role \in Role : at[role] \notin {"none", "ended"},
             UNCHANGED <<launcherVars, printed, result>>
      PROVE  ChildMoves
  <2>1. at' \in [Role -> ChildAt] /\ \A role \in Role : at'[role] = place
    BY <1>5 DEF ChildAt
  <2> QED
    BY <1>5, <2>1 DEF ChildMoves, IType, TypeOK, Results
<1>6. CASE AllConnections
  <2>1. \A role \in Role : at[role] \notin {"none", "ended"}
    BY <1>6 DEF AllConnections, Role
  <2> QED
    BY <1>5, <1>6, <2>1 DEF AllConnections
<1>7. CASE Hang
  BY <1>5, <1>7 DEF Hang
<1> QED
  BY <1>1, <1>3, <1>4, <1>6, <1>7 DEF Child, ChildStep
-----------------------------------------------------------------------------
(* Types. *)

\* In the beginning no child has ended.
LEMMA InitType == Init => IType
<1> SUFFICES ASSUME Init PROVE IType
  OBVIOUS
<1>1. at \in [Role -> ChildAt] /\ \A role \in Role : at[role] # "ended"
  BY DEF Init, ChildAt
<1>2. result \in [Role -> DOMAIN Code \cup {"none", "killed"}]
  BY DEF Init
<1> QED
  BY <1>1, <1>2 DEF Init, IType, TypeOK, Results, LauncherAt

\* Running a child leaves the hosts as they are, and the other child.
LEMMA ExecuteRuns ==
  ASSUME IType, NEW role \in Role, Execute(role)
  PROVE  /\ root' \in [Role -> Root]
         /\ \A r \in Role : root'[r].host = root[r].host
         /\ at' \in [Role -> ChildAt]
         /\ result' \in [Role -> DOMAIN Code \cup {"none", "killed"}]
         /\ Results'
         /\ \A r \in Role : r # role => at'[r] = at[r] /\ result'[r] = result[r]
<1>1. root' \in [Role -> Root] /\ \A r \in Role : root'[r].host = root[r].host
  <2>1. CASE root' = root
    BY <2>1 DEF IType, TypeOK
  <2>2. CASE root' = [root EXCEPT ![role].program = TRUE]
    <3> DEFINE new == [root[role] EXCEPT !.program = TRUE]
    <3>1. new \in Root /\ new.host = root[role].host
      <4>1. root[role] \in [host : Host, program : BOOLEAN]
        BY DEF IType, TypeOK, Root
      <4>2. new \in [host : Host, program : BOOLEAN]
              /\ new.host = root[role].host /\ new.program = TRUE
        BY <4>1
      <4> QED
        BY <4>2 DEF Root
    <3>2. root' = [root EXCEPT ![role] = new]
      BY <2>2, <3>1
    <3> QED
      BY <3>1, <3>2 DEF IType, TypeOK
  <2> QED
    BY <2>1, <2>2 DEF Execute, Distribute
<1>2. PICK place \in {"starting", "ended"} : at' = [at EXCEPT ![role] = place]
                                  /\ (place = "ended" <=> ~root'[role].program)
  BY DEF Execute
<1>3. PICK how \in {"none", "missing"} : result' = [result EXCEPT ![role] = how]
                                  /\ (how = "missing" <=> ~root'[role].program)
  BY DEF Execute
<1>4. at' \in [Role -> ChildAt] /\ \A r \in Role : at'[r] = IF r = role THEN place ELSE at[r]
  BY <1>2 DEF IType, TypeOK, ChildAt
<1>5. how \in DOMAIN Code \cup {"none", "killed"}
  BY DEF Code
<1>6. /\ result' \in [Role -> DOMAIN Code \cup {"none", "killed"}]
      /\ \A r \in Role : result'[r] = IF r = role THEN how ELSE result[r]
  BY <1>3, <1>5 DEF IType, TypeOK
<1>7. Results'
  BY <1>2, <1>3, <1>4, <1>6 DEF IType, Results
<1> QED
  BY <1>1, <1>4, <1>6, <1>7

\* The status of a child is one of a few, and 0 only if it went well or died
\* behind a local shell.
LEMMA StatusKinds ==
  ASSUME IType, NEW role \in Role, at[role] = "ended", NEW es \in Statuses(role)
  PROVE  es \in Status /\ (es = 0 => Fine(role))
<1>1. result[role] \in DOMAIN Code \cup {"killed"}
  BY DEF IType, TypeOK, Results
<1>2. DOMAIN Code = {"ok", "usage", "errors", "missing"}
  BY DEF Code
<1>3. CASE result[role] = "killed"
  BY <1>3 DEF Statuses, Fine, Status
<1>4. CASE result[role] # "killed"
  <2>1. es = Code[result[role]]
    BY <1>4 DEF Statuses
  <2> QED
    BY <1>1, <1>2, <1>4, <2>1 DEF Code, Fine, Status
<1> QED
  BY <1>3, <1>4

\* Waiting for a child keeps its status if there was none before.
LEMMA WaitKeeps ==
  ASSUME IType, NEW role \in Role, NEW place, Wait(role, place)
  PROVE  /\ exit_status' \in Status
         /\ at[role] = "ended" /\ launcher' = place
         /\ exit_status' = 0 => exit_status = 0 /\ Fine(role)
<1>1. PICK es \in Statuses(role) : exit_status' = KeptStatus(es)
  BY DEF Wait
<1>2. es \in Status /\ (es = 0 => Fine(role))
  BY <1>1, StatusKinds DEF Wait
<1>3. exit_status \in Status
  BY DEF IType, TypeOK, Status
<1> QED
  BY <1>1, <1>2, <1>3 DEF Wait, KeptStatus

\* Every step keeps the types, and the results of the children.
LEMMA NextType == IType /\ [Next]_vars => IType'
<1> SUFFICES ASSUME IType, [Next]_vars PROVE IType'
  OBVIOUS
<1>1. CASE Child
  <2>1. ChildMoves
    BY <1>1, ChildStepMoves
  <2>2. Results'
    BY <2>1 DEF ChildMoves, IType, Results
  <2> QED
    BY <2>1, <2>2 DEF ChildMoves, IType, TypeOK, launcherVars, task
<1>2. CASE RejectOptions \/ CapturePort \/ CaptureFails
  <2>1. /\ launcher' \in {"done", "run slave", "crashed"} /\ exit_status' \in {1, exit_status}
        /\ UNCHANGED <<mode, distribute, root, at, printed, result>>
    BY <1>2 DEF RejectOptions, CapturePort, CaptureFails, task
  <2>2. exit_status' \in Status
    BY <2>1 DEF IType, TypeOK, Status
  <2>3. launcher' \in LauncherAt
    BY <2>1 DEF LauncherAt
  <2>4. Results'
    BY <2>1 DEF Results, IType
  <2> QED
    BY <2>1, <2>2, <2>3, <2>4 DEF IType, TypeOK, Status
<1>3. CASE InitDefaults
  <2>1. root' \in [Role -> Root]
    <3>1. CASE root' = root
      BY <3>1 DEF IType, TypeOK
    <3>2. CASE root' = [master |-> root["slave"], slave |-> root["master"]]
      <4>1. root["slave"] \in Root /\ root["master"] \in Root
        BY DEF IType, TypeOK, Role
      <4> QED
        BY <3>2, <4>1 DEF Role
    <3> QED
      BY <1>3, <3>1, <3>2 DEF InitDefaults
  <2>2. /\ launcher' \in {"run master", "run slave"}
        /\ UNCHANGED <<mode, distribute, exit_status, at, printed, result>>
    BY <1>3 DEF InitDefaults, First, task
  <2>3. launcher' \in LauncherAt
    BY <2>2 DEF LauncherAt
  <2>4. Results'
    BY <2>2 DEF IType, Results
  <2> QED
    BY <2>1, <2>2, <2>3, <2>4 DEF IType, TypeOK
<1>4. CASE RunMaster
  BY <1>4, ExecuteRuns DEF RunMaster, IType, TypeOK, task, LauncherAt, Role
<1>5. CASE RunSlave
  BY <1>5, ExecuteRuns DEF RunSlave, IType, TypeOK, task, LauncherAt, Role
<1>6. ASSUME NEW role \in Role, NEW place \in {"wait master", "done"}, Wait(role, place)
      PROVE  IType'
  <2>1. /\ exit_status' \in Status /\ launcher' = place
        /\ UNCHANGED <<mode, distribute, root, at, printed, result>>
    <3>1. exit_status' \in Status /\ launcher' = place
      BY <1>6, WaitKeeps
    <3>2. UNCHANGED <<task, root, at, printed, result>>
      BY <1>6 DEF Wait
    <3> QED
      BY <3>1, <3>2 DEF task
  <2>2. launcher' \in LauncherAt
    BY <2>1 DEF LauncherAt
  <2>3. Results'
    BY <2>1 DEF IType, Results
  <2> QED
    BY <2>1, <2>2, <2>3 DEF IType, TypeOK, Status
<1>7. CASE WaitSlave \/ WaitMaster
  BY <1>6, <1>7 DEF WaitSlave, WaitMaster, Role
<1>8. CASE UNCHANGED vars
  BY <1>8 DEF vars, launcherVars, task, IType, TypeOK, Results
<1> QED
  BY <1>1, <1>2, <1>3, <1>4, <1>5, <1>7, <1>8
  DEF Next, LauncherStep, Child, Terminated

\* The exit status is one of the few that the children and the shells have.
THEOREM TypeCorrect == Spec => []TypeOK
<1>1. IType => TypeOK
  BY DEF IType
<1> QED
  BY <1>1, InitType, NextType, PTL DEF Spec
-----------------------------------------------------------------------------
(* The exit status. *)

Telling == Places /\ Told

\* Every step keeps the exit status true to the children that have been waited for.
LEMMA NextTelling == IType /\ Telling /\ [Next]_vars => Telling'
<1> SUFFICES ASSUME IType, Telling, [Next]_vars PROVE Telling'
  OBVIOUS
<1>1. 1 # 0
  OBVIOUS
<1> USE DEF Telling, Places, Told
<1>2. "master" \in Role /\ "slave" \in Role /\ mode \in {"both", "master", "slave"}
  BY ModesAssumption DEF Role, IType, TypeOK
<1>3. CASE Child
  <2>1. ChildMoves
    BY <1>3, ChildStepMoves
  <2>2. ASSUME NEW role \in Role, Waited(role) PROVE Waited(role)'
    <3>1. at'[role] = "ended" /\ result'[role] = result[role] /\ root' = root
            /\ exit_status' = exit_status
      BY <2>1, <2>2 DEF ChildMoves, Waited, launcherVars
    <3> QED
      BY <2>2, <3>1 DEF Waited, Fine
  <2>3. launcher' = launcher /\ mode' = mode /\ exit_status' = exit_status
    BY <2>1 DEF ChildMoves, launcherVars, task
  <2> QED
    BY <1>2, <2>2, <2>3 DEF Launched
<1>4. CASE RejectOptions \/ CapturePort \/ CaptureFails
  <2>1. \/ launcher' = "done" /\ exit_status' = 1
        \/ launcher' = "crashed"
        \/ launcher = "port" /\ launcher' = "run slave" /\ exit_status' = exit_status
    BY <1>4 DEF RejectOptions, CapturePort, CaptureFails
  <2>2. mode' = mode
    BY <1>4 DEF RejectOptions, CapturePort, CaptureFails, task
  <2>3. Places'
    BY <2>1, <2>2
  <2>4. CASE launcher' = "done" /\ exit_status' = 1
    <3>1. exit_status' # 0
      BY <1>1, <2>4
    <3> QED
      BY <2>3, <2>4, <3>1
  <2>5. CASE launcher' # "done"
    <3>1. launcher' # "crashed" => exit_status' = 0
      BY <2>1, <2>5
    <3> QED
      BY <2>1, <2>3, <2>5, <3>1
  <2> QED
    BY <2>1, <2>4, <2>5
<1>5. CASE InitDefaults
  BY <1>2, <1>5 DEF InitDefaults, First, task
<1>6. CASE RunMaster
  <2>1. /\ launcher = "run master"
        /\ launcher' = IF mode = "both" THEN "port" ELSE "wait master"
        /\ mode' = mode /\ exit_status' = exit_status
    BY <1>6 DEF RunMaster, task
  <2> QED
    BY <1>2, <2>1
<1>7. CASE RunSlave
  BY <1>7 DEF RunSlave, task
<1>8. CASE WaitSlave
  <2>1. /\ at["slave"] = "ended"
        /\ launcher' = IF mode = "both" THEN "wait master" ELSE "done"
        /\ exit_status' = 0 => exit_status = 0 /\ Fine("slave")
        /\ UNCHANGED <<mode, root, at, result>>
    <3>1. PICK place : Wait("slave", place) /\ place = IF mode = "both" THEN "wait master" ELSE "done"
      BY <1>8 DEF WaitSlave
    <3> QED
      BY <1>2, <3>1, WaitKeeps DEF Wait, task
  <2>2. Waited("slave")'
    BY <2>1 DEF Waited, Fine
  <2>3. mode # "both" => \A role \in Role : Launched(role)' => role = "slave"
    BY <1>2, <1>8, <2>1 DEF Launched, Role, WaitSlave
  <2> QED
    BY <1>2, <1>8, <2>1, <2>2, <2>3 DEF WaitSlave
<1>9. CASE WaitMaster
  <2>1. /\ at["master"] = "ended"
        /\ launcher' = "done"
        /\ exit_status' = 0 => exit_status = 0 /\ Fine("master")
        /\ UNCHANGED <<mode, root, at, result>>
    BY <1>2, <1>9, WaitKeeps DEF WaitMaster, Wait, task
  <2>2. Waited("master")'
    BY <2>1 DEF Waited, Fine
  <2>3. mode = "both" => Waited("slave")'
    BY <1>9, <2>1 DEF Waited, Fine, WaitMaster
  <2>4. mode # "both" => \A role \in Role : Launched(role)' => role = "master"
    BY <1>2, <1>9, <2>1 DEF Launched, Role, WaitMaster
  <2> QED
    BY <2>1, <2>2, <2>3, <2>4 DEF Role
<1>10. CASE UNCHANGED vars
  BY <1>10 DEF vars, launcherVars, task, Waited, Fine, Launched
<1> QED
  BY <1>3, <1>4, <1>5, <1>6, <1>7, <1>8, <1>9, <1>10
  DEF Next, LauncherStep, Child, Terminated

\* An exit status of 0 is one of every child that was launched, but for those that
\* a signal killed behind a shell that hides it.
THEOREM AllSucceed == Spec => []SuccessOfAll
<1>1. Init => Telling
  BY DEF Init, Telling, Places, Told
<1>2. IType /\ Telling => SuccessOfAll
  BY DEF Telling, Told, Waited, Fine, SuccessOfAll
<1> QED
  BY <1>1, <1>2, InitType, NextType, NextTelling, PTL DEF Spec
-----------------------------------------------------------------------------
(* The slave's way to the master. *)

\* No step runs a slave that cannot reach its master.
LEMMA NextInOrder == IType /\ Places /\ InOrder /\ [Next]_vars => InOrder'
<1> SUFFICES ASSUME IType, Places, InOrder, [Next]_vars PROVE InOrder'
  OBVIOUS
<1> USE DEF InOrder
<1>1. "master" \in Role /\ "slave" \in Role
  BY DEF Role
<1>2. CASE Child
  <2>1. ChildMoves
    BY <1>2, ChildStepMoves
  <2>2. UNCHANGED launcherVars /\ (at["slave"] = "none" => at'["slave"] = "none")
    BY <1>1, <2>1 DEF ChildMoves
  <2> QED
    BY <2>2 DEF launcherVars, task, Named, Reachable
<1>3. CASE RejectOptions \/ CapturePort \/ CaptureFails
  BY <1>3 DEF RejectOptions, CapturePort, CaptureFails, task, Named, Reachable
<1>4. CASE InitDefaults
  BY <1>4 DEF InitDefaults, First, task, Named, Reachable
<1>5. ASSUME NEW role \in Role, Execute(role), launcher \notin {"options", "done", "crashed"},
             launcher' # "options", UNCHANGED task
      PROVE  InOrder'
  <2>1. root'["master"].host = root["master"].host /\ root'["slave"].host = root["slave"].host
    BY <1>1, <1>5, ExecuteRuns
  <2> QED
    BY <1>5, <2>1 DEF Named, Reachable, task
<1>6. CASE RunMaster \/ RunSlave
  BY <1>1, <1>5, <1>6 DEF RunMaster, RunSlave
<1>7. CASE WaitSlave \/ WaitMaster
  BY <1>7 DEF WaitSlave, WaitMaster, Wait, task, Named, Reachable
<1>8. CASE UNCHANGED vars
  BY <1>8 DEF vars, launcherVars, task, Named, Reachable
<1> QED
  BY <1>2, <1>3, <1>4, <1>6, <1>7, <1>8 DEF Next, LauncherStep, Child, Terminated

\* Whichever order the roots are given in, the slave is told a host where it finds
\* the master, unless the user called the master's own host localhost.
THEOREM SlaveArrives == Spec => []SlaveFindsMaster
<1>1. Init => Telling /\ InOrder
  BY DEF Init, Telling, Places, Told, InOrder, Role, Launched
<1>2. InOrder => SlaveFindsMaster
  BY DEF InOrder, SlaveFindsMaster, Named, Reachable
<1>3. IType /\ Telling /\ InOrder /\ [Next]_vars => InOrder'
  BY NextInOrder DEF Telling
<1> QED
  BY <1>1, <1>2, <1>3, InitType, NextType, NextTelling, PTL DEF Spec
-----------------------------------------------------------------------------
(* The command line that the launcher parses: sets of places, in order. *)

\* How many elements of a set are not behind j.
Rank(S, j) == Cardinality({l \in S : l <= j})

\* Of n places, each number up to n is the rank of one; a rank is at most the
\* place, and grows with it.
LEMMA RankTaken ==
  ASSUME NEW S \in SUBSET (Nat \ {0}), IsFiniteSet(S)
  PROVE  /\ \A j \in S : Rank(S, j) \in 1..Cardinality(S) /\ Rank(S, j) <= j
         /\ \A j, k \in S : j < k => Rank(S, j) < Rank(S, k)
         /\ \A i \in 1..Cardinality(S) : \E j \in S : Rank(S, j) = i
<1> DEFINE n == Cardinality(S)
           Upto(j) == {l \in S : l <= j}
           rank == [j \in S |-> Rank(S, j)]
<1>1. n \in Nat /\ \A l \in S : l \in Nat \ {0}
  BY FS_CardinalityType
<1>2. ASSUME NEW j \in S
      PROVE  IsFiniteSet(Upto(j)) /\ Cardinality(Upto(j)) \in 1..n /\ Cardinality(Upto(j)) <= j
  <2>1. Upto(j) \in SUBSET S /\ Upto(j) # {} /\ j \in Nat
    BY <1>1
  <2>2. IsFiniteSet(Upto(j)) /\ Cardinality(Upto(j)) <= n
    BY <2>1, FS_Subset
  <2>3. Cardinality(Upto(j)) \in Nat /\ Cardinality(Upto(j)) # 0
    BY <2>1, <2>2, FS_CardinalityType, FS_EmptySet
  <2>4. Upto(j) \in SUBSET (1..j)
    <3>1. ASSUME NEW l \in Upto(j) PROVE l \in 1..j
      BY <1>1, <2>1
    <3> QED
      BY <3>1
  <2>5. IsFiniteSet(1..j) /\ Cardinality(1..j) = j
    BY <2>1, FS_Interval
  <2>6. Cardinality(Upto(j)) <= j
    BY <2>4, <2>5, FS_Subset
  <2> QED
    BY <1>1, <2>2, <2>3, <2>6
<1>3. ASSUME NEW j \in S, NEW k \in S, j < k
      PROVE  Cardinality(Upto(j)) < Cardinality(Upto(k))
  <2>1. \A l \in Upto(j) : l \in Upto(k)
    BY <1>1, <1>3
  <2>2. k \in Upto(k) /\ k \notin Upto(j)
    BY <1>1, <1>3
  <2>3. Upto(j) \in SUBSET Upto(k) /\ k \in Upto(k) /\ k \notin Upto(j)
    BY <2>1, <2>2
  <2>4. Cardinality(Upto(j)) <= Cardinality(Upto(k)) /\ Cardinality(Upto(j)) # Cardinality(Upto(k))
    BY <1>2, <2>3, FS_Subset
  <2> QED
    BY <1>2, <2>4
<1>4. rank \in Injection(S, 1..n)
  <2>1. rank \in [S -> 1..n]
    BY <1>2 DEF Rank
  <2>2. ASSUME NEW j \in S, NEW k \in S, rank[j] = rank[k] PROVE j = k
    <3>1. ~(j < k) /\ ~(k < j)
      BY <1>2, <1>3, <2>2 DEF Rank
    <3> QED
      BY <1>1, <3>1
  <2> QED
    BY <2>1, <2>2 DEF Injection, IsInjective
<1>5. IsFiniteSet(1..n) /\ Cardinality(1..n) = n
  BY <1>1, FS_Interval
<1>6. rank \in Surjection(S, 1..n)
  BY <1>4, <1>5, FS_Injection
<1>7. \A i \in 1..n : \E j \in S : rank[j] = i
  BY <1>6 DEF Surjection
<1> QED
  BY <1>2, <1>3, <1>7 DEF Rank

\* Induction: a set with 0, and with the successor of each of its numbers, has
\* them all, for otherwise there is a first one that it has not.
LEMMA Inductively ==
  ASSUME NEW S \in SUBSET Nat, 0 \in S, \A n \in S : n + 1 \in S
  PROVE  S = Nat
<1> SUFFICES ASSUME NEW x \in Nat, x \notin S
             PROVE  FALSE
  OBVIOUS
<1> DEFINE T == {l \in 1..x : l \notin S}
<1>1. x \in T
  <2>1. x # 0
    OBVIOUS
  <2> QED
    BY <2>1
<1>2. T \in SUBSET (Nat \ {0}) /\ IsFiniteSet(T)
  <2>1. IsFiniteSet(1..x) /\ T \in SUBSET (1..x)
    BY FS_Interval
  <2>2. \A l \in T : l \in Nat \ {0}
    OBVIOUS
  <2>3. IsFiniteSet(T)
    BY <2>1, FS_Subset
  <2> HIDE DEF T
  <2> QED
    BY <2>2, <2>3
<1>3. Cardinality(T) \in Nat /\ Cardinality(T) # 0
  BY <1>1, <1>2, FS_CardinalityType, FS_EmptySet
<1>4. PICK m \in T : Rank(T, m) = 1
  <2>1. 1 \in 1..Cardinality(T)
    BY <1>3
  <2> HIDE DEF T
  <2> QED
    BY <1>2, <2>1, RankTaken
<1>5. m \in Nat \ {0} /\ m \notin S /\ m <= x
  OBVIOUS
<1>6. m - 1 \in S
  <2>1. CASE m = 1
    BY <2>1
  <2>2. CASE m # 1
    <3>1. m - 1 \in 1..x /\ m - 1 < m
      BY <1>5, <2>2
    <3>2. m - 1 \notin T
      <4>1. SUFFICES ASSUME m - 1 \in T PROVE FALSE
        OBVIOUS
      <4> HIDE DEF T
      <4>2. Rank(T, m - 1) < 1 /\ Rank(T, m - 1) \in 1..Cardinality(T)
        BY <1>2, <1>4, <3>1, <4>1, RankTaken
      <4> QED
        BY <4>2
    <3> QED
      BY <3>1, <3>2
  <2> QED
    BY <2>1, <2>2
<1>7. (m - 1) + 1 \in S
  BY <1>6
<1> QED
  BY <1>5, <1>7
-----------------------------------------------------------------------------
(* How argv is put in order. *)

\* The places of the arguments: none is in front of its number, and they grow.
LEMMA ArgIndsType ==
  ASSUME NEW args, Len(args) \in Nat, DOMAIN args = 1..Len(args)
  PROVE  /\ Len(ArgInds(args)) \in Nat
         /\ DOMAIN ArgInds(args) = 1..Len(ArgInds(args))
         /\ \A k \in 1..Len(ArgInds(args)) :
              /\ ArgInds(args)[k] \in DOMAIN args
              /\ ArgInds(args)[k] >= k
              /\ \A m \in 1..Len(ArgInds(args)) : k # m => ArgInds(args)[k] # ArgInds(args)[m]
<1> DEFINE S == DOMAIN args \ (Flags(args) \cup Values(args) \cup {Terminator(args)})
           list == ArgInds(args)
<1>1. S \in SUBSET (Nat \ {0}) /\ S \in SUBSET DOMAIN args /\ IsFiniteSet(S)
  <2>1. S \in SUBSET (1..Len(args)) /\ IsFiniteSet(1..Len(args))
    BY FS_Interval
  <2>2. IsFiniteSet(S)
    BY <2>1, FS_Subset
  <2> HIDE DEF S
  <2>3. S \in SUBSET (Nat \ {0})
    BY <2>1
  <2> QED
    BY <2>1, <2>2, <2>3
<1>2. list = [k \in 1..Cardinality(S) |-> CHOOSE j \in S : Rank(S, j) = k]
  BY DEF ArgInds, Rank
<1> HIDE DEF S, list
<1>3. Cardinality(S) \in Nat
  BY <1>1, FS_CardinalityType
<1>4. Len(list) = Cardinality(S) /\ DOMAIN list = 1..Cardinality(S)
  BY <1>2, <1>3
<1>5. ASSUME NEW k \in 1..Cardinality(S)
      PROVE  list[k] \in S /\ Rank(S, list[k]) = k
  <2>1. \E j \in S : Rank(S, j) = k
    BY <1>1, RankTaken
  <2>2. list[k] = CHOOSE j \in S : Rank(S, j) = k
    BY <1>2
  <2> QED
    BY <2>1, <2>2, Zenon
<1>6. ASSUME NEW k \in 1..Cardinality(S)
      PROVE  list[k] \in DOMAIN args /\ list[k] >= k
  <2>1. Rank(S, list[k]) <= list[k] /\ list[k] \in Nat
    BY <1>1, <1>5, RankTaken
  <2> QED
    BY <1>1, <1>5, <2>1
<1> QED
  BY <1>3, <1>4, <1>5, <1>6 DEF list

\* The swaps one by one: moved[k] is argv after k of them.
Moves(args, moved) ==
  moved = [k \in 0..Len(ArgInds(args)) |->
             IF k = 0 THEN args ELSE Swap(moved[k - 1], k, ArgInds(args)[k])]

\* There are such swaps, as many as arguments, and RootsMoved is what they end in.
LEMMA MovesExist ==
  ASSUME NEW args, Len(ArgInds(args)) \in Nat
  PROVE  \E moved : Moves(args, moved) /\ RootsMoved(args) = moved[Len(ArgInds(args))]
<1> DEFINE inds == ArgInds(args)
           Upto(m, g) == g = [k \in 0..m |-> IF k = 0 THEN args ELSE Swap(g[k - 1], k, inds[k])]
           S == {m \in Nat : \E g : Upto(m, g)}
<1>1. 0 \in S
  <2> DEFINE g == [k \in 0..0 |-> args]
  <2>1. Upto(0, g)
    OBVIOUS
  <2> QED
    BY <2>1
<1>2. ASSUME NEW m \in S PROVE m + 1 \in S
  <2>1. m \in Nat
    OBVIOUS
  <2>2. PICK g : Upto(m, g)
    OBVIOUS
  <2> DEFINE h == [k \in 0..(m + 1) |-> IF k = m + 1 THEN Swap(g[m], m + 1, inds[m + 1]) ELSE g[k]]
  <2>3. ASSUME NEW k \in 0..(m + 1)
        PROVE  h[k] = IF k = 0 THEN args ELSE Swap(h[k - 1], k, inds[k])
    <3>1. CASE k = 0
      <4>1. h[k] = g[0] /\ g[0] = args
        BY <2>1, <2>2, <3>1
      <4> QED
        BY <3>1, <4>1
    <3>2. CASE k = m + 1
      <4>1. h[k] = Swap(g[m], k, inds[k]) /\ h[k - 1] = g[m] /\ k # 0
        BY <2>1, <3>2
      <4> QED
        BY <4>1
    <3>3. CASE k \in 1..m
      <4>1. h[k] = g[k] /\ h[k - 1] = g[k - 1] /\ k # 0 /\ k \in 0..m
        BY <2>1, <3>3
      <4>2. g[k] = Swap(g[k - 1], k, inds[k])
        BY <2>2, <4>1
      <4> QED
        BY <4>1, <4>2
    <3> QED
      BY <2>1, <3>1, <3>2, <3>3
  <2>4. h = [k \in 0..(m + 1) |-> h[k]]
    OBVIOUS
  <2> HIDE DEF h
  <2>5. Upto(m + 1, h)
    BY <2>3, <2>4
  <2> HIDE DEF Upto
  <2> QED
    BY <2>1, <2>5
<1> HIDE DEF Upto
<1>3. S = Nat
  <2>1. S \in SUBSET Nat
    OBVIOUS
  <2> HIDE DEF S
  <2> QED
    BY <1>1, <1>2, <2>1, Inductively
<1>4. \E g : Upto(Len(inds), g)
  BY <1>3
<1> DEFINE moved == CHOOSE g : Upto(Len(inds), g)
<1>5. Upto(Len(inds), moved)
  BY <1>4, Zenon
<1>6. Moves(args, moved)
  <2> HIDE DEF moved
  <2> QED
    BY <1>5, Zenon DEF Moves, Upto
<1>7. RootsMoved(args) = moved[Len(inds)]
  BY Zenon DEF RootsMoved, Upto
<1> QED
  BY <1>6, <1>7

\* After k swaps the first k arguments are in front, and those behind them are
\* still where they were given.
InFront(args, moved, k) ==
  /\ DOMAIN moved[k] = DOMAIN args
  /\ \A i \in 1..Len(ArgInds(args)) :
       IF i <= k THEN moved[k][i] = args[ArgInds(args)[i]]
       ELSE moved[k][ArgInds(args)[i]] = args[ArgInds(args)[i]]

LEMMA OneMoreInFront ==
  ASSUME NEW args, Len(args) \in Nat, DOMAIN args = 1..Len(args),
         NEW moved, Moves(args, moved),
         NEW k \in Nat, k < Len(ArgInds(args)), InFront(args, moved, k)
  PROVE  InFront(args, moved, k + 1)
<1> DEFINE inds == ArgInds(args)
           n == Len(inds)
           old == moved[k]
           new == moved[k + 1]
           to == inds[k + 1]
<1>1. /\ n \in Nat /\ k + 1 \in 1..n /\ DOMAIN args = 1..Len(args)
      /\ \A i \in 1..n : /\ inds[i] \in DOMAIN args /\ inds[i] >= i
                         /\ \A m \in 1..n : i # m => inds[i] # inds[m]
  BY ArgIndsType
<1>2. new = Swap(old, k + 1, to)
  BY <1>1 DEF Moves
<1>3. /\ DOMAIN old = DOMAIN args
      /\ \A i \in 1..n : IF i <= k THEN old[i] = args[inds[i]] ELSE old[inds[i]] = args[inds[i]]
  BY DEF InFront
<1> HIDE DEF inds, n, old, new
<1>4. k + 1 \in DOMAIN args /\ to \in DOMAIN args /\ to \in Nat /\ to >= k + 1
  BY <1>1
<1>5. /\ DOMAIN new = DOMAIN old
      /\ new[k + 1] = old[to]
      /\ \A j \in DOMAIN old : j # k + 1 /\ j # to => new[j] = old[j]
  <2> HIDE DEF to
  <2>1. new = [old EXCEPT ![k + 1] = old[to], ![to] = old[k + 1]]
    BY <1>2 DEF Swap
  <2> QED
    BY <1>3, <1>4, <2>1
<1>6. ASSUME NEW i \in 1..n
      PROVE  IF i <= k + 1 THEN new[i] = args[inds[i]] ELSE new[inds[i]] = args[inds[i]]
  <2>1. i \in Nat /\ inds[i] \in DOMAIN args /\ inds[i] \in Nat /\ inds[i] >= i
    BY <1>1
  <2>2. CASE i = k + 1
    <3>1. old[inds[i]] = args[inds[i]]
      BY <1>3, <2>2
    <3> QED
      BY <1>5, <2>2, <3>1
  <2>3. CASE i <= k
    <3>1. i # k + 1 /\ i # to /\ i \in DOMAIN old /\ i <= k + 1
      <4>1. i \in 1..Len(args)
        BY <1>1, <1>4, <2>1, <2>3
      <4> QED
        BY <1>1, <1>3, <1>4, <2>1, <2>3, <4>1
    <3> QED
      BY <1>3, <1>5, <2>3, <3>1
  <2>4. CASE i > k + 1
    <3>1. inds[i] # k + 1 /\ inds[i] # to /\ ~(i <= k) /\ ~(i <= k + 1)
      BY <1>1, <2>1, <2>4
    <3> QED
      BY <1>3, <1>5, <2>1, <3>1
  <2> QED
    BY <2>1, <2>2, <2>3, <2>4
<1> QED
  BY <1>3, <1>5, <1>6 DEF InFront, inds, n, new

\* However roots and options are mixed in a command line, the swaps bring all the
\* roots to the front of argv, in the order they were given, although the places
\* they are taken from were found before the first swap (program_options.hpp:136-147).
THEOREM SwapsBringRootsFirst ==
  ASSUME NEW Words, NEW args \in Seq(Words)
  PROVE  RootsFirst(args)
<1> DEFINE inds == ArgInds(args)
           n == Len(inds)
<1>1. Len(args) \in Nat /\ DOMAIN args = 1..Len(args)
  OBVIOUS
<1>2. n \in Nat /\ DOMAIN inds = 1..n
  BY <1>1, ArgIndsType
<1>3. PICK moved : Moves(args, moved) /\ RootsMoved(args) = moved[n]
  BY <1>2, MovesExist
<1> DEFINE S == {k \in Nat : k <= n => InFront(args, moved, k)}
<1>4. 0 \in S
  <2>1. moved[0] = args
    BY <1>2, <1>3 DEF Moves
  <2>2. \A i \in 1..n : ~(i <= 0)
    BY <1>2
  <2> QED
    BY <2>1, <2>2 DEF InFront
<1>5. ASSUME NEW k \in S PROVE k + 1 \in S
  <2>1. k \in Nat /\ (k <= n => InFront(args, moved, k))
    OBVIOUS
  <2>2. k + 1 <= n => InFront(args, moved, k + 1)
    BY <1>1, <1>2, <1>3, <2>1, OneMoreInFront
  <2> QED
    BY <2>1, <2>2
<1>6. S = Nat
  <2>1. S \in SUBSET Nat
    OBVIOUS
  <2> HIDE DEF S
  <2> QED
    BY <1>4, <1>5, <2>1, Inductively
<1>7. InFront(args, moved, n)
  BY <1>2, <1>6
<1>8. ASSUME NEW k \in DOMAIN Roots(args)
      PROVE  RootsMoved(args)[k] = Roots(args)[k]
  <2>1. k \in 1..n /\ Roots(args)[k] = args[inds[k]]
    BY <1>2 DEF Roots
  <2> QED
    BY <1>2, <1>3, <1>7, <2>1 DEF InFront
<1> QED
  BY <1>8 DEF RootsFirst
=============================================================================
