---------------------------- MODULE CommandLine ----------------------------
(***************************************************************************)
(* How a command line of jpgsync reaches its children                      *)
(* (src/src/util/program_options.hpp:77-150, src/src/jpgsync.cpp:25-65,    *)
(* :105-147, :206-290, :292-367).  The launcher parses argv, which moves   *)
(* the roots to its front by swaps, rewrites it for each child, a shell    *)
(* splits what it has written, and the child parses that again.            *)
(*                                                                         *)
(* A word is a sequence of characters; the name of an option, or of a      *)
(* host, counts as one character.                                          *)
(***************************************************************************)
EXTENDS ProgramOptions

CONSTANTS
  Word,              \* what a user may type: words
  MaxArgs,           \* bound: how many of them
  MaxPort            \* 0xFFFF

ASSUME CommandLineAssumption ==
  /\ \A word \in Word : word \in Seq(STRING) /\ word # <<"-", "l">>
  /\ MaxArgs \in Nat /\ MaxPort \in Nat

VARIABLES
  given,             \* the command line
  argv,              \* argv of the launcher
  launcher,          \* "parse", "run", "rejected", "helped", "done"
  child              \* for each role the user, the host and the command line of
                     \* the child that is run, NoChild if none is

vars == <<given, argv, launcher, child>>

Role == {"master", "slave"}
NoChild == [user |-> <<>>, host |-> <<>>, args |-> <<>>]

Init ==
  /\ given \in UNION {[1..k -> Word] : k \in 0..MaxArgs}
  /\ argv = given
  /\ launcher = "parse"
  /\ child = [role \in Role |-> NoChild]
-----------------------------------------------------------------------------
(* Words. *)

IsDigit(c) == \E n \in 0..9 : ToString(n) = c
Decimal(digits) ==
  FoldLeft(LAMBDA n, c : 10 * n + (CHOOSE d \in 0..9 : ToString(d) = c), 0, digits)

\* atoi
Number(word) ==
  LET rest == SelectInSeq(word, LAMBDA c : ~IsDigit(c))
  IN  Decimal(IF rest = 0 THEN word ELSE SubSeq(word, 1, rest - 1))

\* The words that a shell, or operator>>, makes of one.
Split(word) ==
  LET First(k) == word[k] # " " /\ (k > 1 => word[k - 1] = " ")
      From(k) == LET blank == SelectInSubSeq(word, k, Len(word), LAMBDA c : c = " ")
                 IN  SubSeq(word, k, IF blank = 0 THEN Len(word) ELSE blank - 1)
      starts == SetToSortSeq({k \in DOMAIN word : First(k)}, <)
  IN  [k \in DOMAIN starts |-> From(starts[k])]

Colon(word) == SelectLastInSeq(word, LAMBDA c : c = ":")
Behind(word, k) == SubSeq(word, k + 1, Len(word))

\* Root::Init: [[USER@]HOST:]DIR.
At(where) == SelectInSeq(where, LAMBDA c : c = "@")

Root(word) ==
  LET where == SubSeq(word, 1, Colon(word) - 1)
  IN  [dir |-> IF Behind(word, Colon(word)) = <<>> THEN <<".">>
               ELSE Behind(word, Colon(word)),
       user |-> SubSeq(where, 1, At(where) - 1),
       host |-> Behind(where, At(where)),
       valid |-> Colon(word) # 1 /\ (At(where) = 0 \/ At(where) \in 2..(Len(where) - 1))]

IsRemote(word) == Colon(word) # 0

\* HOST:PORT, as in the value of -s.
IsAddress(word) ==
  LET port == Behind(word, Colon(word))
  IN  /\ Colon(word) > 1 /\ port # <<>>
      /\ \A k \in DOMAIN port : IsDigit(port[k])
      /\ Decimal(port) <= MaxPort
-----------------------------------------------------------------------------
(* Any command line, as JpgsyncOptions takes it. *)

\* The word that belongs to -s, up to a blank.
SlaveOf(args) ==
  LET words == Split(args[(CHOOSE j \in Uses(args, "slave") : TRUE) + 1])
  IN  IF words = <<>> THEN <<>> ELSE words[1]

\* -v adds one to the level, -v N sets it.
Verbosity(args) ==
  FoldLeftDomain(
    LAMBDA level, j :
      IF j \notin Uses(args, "verbosity") THEN level
      ELSE IF j + 1 \in Values(args) THEN Number(args[j + 1]) ELSE level + 1,
    0, args)

\* What InitDefaults throws at: the roles, the roots, the address.
DefaultsAccept(args) ==
  LET roles == {role \in Role : Has(args, role)} IN
  /\ Cardinality(roles) <= 1
  /\ Len(Roots(args)) = 2 - Cardinality(roles)
  /\ \A k \in DOMAIN Roots(args) : Root(Roots(args)[k]).valid
  /\ Has(args, "slave") => IsAddress(SlaveOf(args))

Accepted(args) == ParserAccepts(args) /\ DefaultsAccept(args)

\* Of two roots, the remote one comes first.
RemoteFirst(args) ==
  IF Len(Roots(given)) = 2 /\ IsRemote(args[2]) /\ ~IsRemote(args[1])
  THEN Swap(args, 1, 2) ELSE args
-----------------------------------------------------------------------------
Parse ==
  /\ launcher = "parse"
  /\ IF Accepted(given)
     THEN /\ launcher' = IF Has(given, "help") THEN "helped" ELSE "run"
          /\ argv' = RemoteFirst(RootsMoved(given))
     ELSE launcher' = "rejected" /\ UNCHANGED argv
  /\ UNCHANGED <<given, child>>

\* The options follow the roots in argv.
Options(roots) == SubSeq(argv, roots + 1, Len(argv)) \o << <<"-", "-", "local">> >>

\* The arguments are joined by blanks, and a shell, here or on the host of the
\* root, takes them apart.
Execute(root, options) ==
  [user |-> Root(root).user, host |-> Root(root).host,
   args |-> FlattenSeq([k \in 1..(Len(options) + 1) |->
              Split((<<Root(root).dir>> \o options)[k])])]

\* The port that the launcher has captured is 7.
MasterAddress ==
  (IF IsRemote(argv[1]) THEN Root(argv[1]).host ELSE <<"localhost">>) \o <<":", "7">>

\* Mutant: the -m of the master is not taken back for the slave.
RunBothKeepingM ==
  [master |-> Execute(argv[1], Options(2) \o << <<"-", "m">> >>),
   slave |-> Execute(argv[2],
               Options(2) \o << <<"-", "m">>, <<"-", "s">>, MasterAddress >>)]

\* Mutant: the directory of the master is passed to both.
RunBothOnce ==
  [master |-> Execute(argv[1], Options(2) \o << <<"-", "m">> >>),
   slave |-> [Execute(argv[1], Options(2) \o << <<"-", "s">>, MasterAddress >>)
              EXCEPT !.user = Root(argv[2]).user, !.host = Root(argv[2]).host]]

RunBoth ==
  [master |-> Execute(argv[1], Options(2) \o << <<"-", "m">> >>),
   slave |-> Execute(argv[2], Options(2) \o << <<"-", "s">>, MasterAddress >>)]

RunOne(role) == [child EXCEPT ![role] = Execute(argv[1], Options(1))]

Run ==
  /\ launcher = "run"
  /\ child' = IF Has(given, "slave") THEN RunOne("slave")
              ELSE IF Has(given, "master") THEN RunOne("master")
              ELSE RunBoth
  /\ launcher' = "done"
  /\ UNCHANGED <<given, argv>>

Terminated == launcher \in {"rejected", "helped", "done"} /\ UNCHANGED vars

Next == Parse \/ Run \/ Terminated

Spec == Init /\ [][Next]_vars
-----------------------------------------------------------------------------
\* The options in front of a root have no values: those behind all the roots
\* may have some.  The usage puts all of them behind the roots.
ValuesBehindRoots == \A j \in Values(given) : \A k \in ToSet(ArgInds(given)) : k < j

\* No word is taken apart by a shell.
WholeWords == \A j \in DOMAIN given : Len(Split(given[j])) = 1

NoTerminator == Terminator(given) > Len(given)

\* A directory that a child takes for an option, as in HOST:-v or behind "--".
DirLikeFlag == \E k \in DOMAIN Roots(given) : IsFlag(Root(Roots(given)[k]).dir)

\* However the user has mixed roots and options, argv starts with the roots
\* (program_options.hpp:136-147, on which jpgsync.cpp:311-313 relies).
RootsComeFirst == launcher = "run" => RootsFirst(given)

\* The root that a child is run for, as the user would have written it.
Written(role) ==
  LET c == child[role]
      where == IF c.user = <<>> THEN c.host ELSE c.user \o <<"@">> \o c.host
  IN  IF where = <<>> THEN Roots(c.args)[1] ELSE where \o <<":">> \o Roots(c.args)[1]

OrDot(root) == IF Behind(root, Colon(root)) = <<>> THEN root \o <<".">> ELSE root

\* A child is run where, and in the directory that, the user said, in the role
\* it was given, whatever the swaps of roots and arguments have done, or rejects
\* its command line, which the launcher reports: it never synchronises something
\* else.
NeverMisled ==
  launcher = "done" /\ WholeWords /\ ~DirLikeFlag =>
    \A role \in Role : child[role] # NoChild /\ Accepted(child[role].args) =>
      /\ \E k \in DOMAIN Roots(given) : Written(role) = OrDot(Roots(given)[k])
      /\ Has(child[role].args, role) /\ Has(child[role].args, "local")
      /\ child["master"] # NoChild /\ child["slave"] # NoChild /\ Len(Roots(given)) = 2 =>
           {Written(r) : r \in Role} = {OrDot(Roots(given)[k]) : k \in {1, 2}}

\* A child accepts what the user told the launcher, and takes it as the launcher
\* does (jpgsync.cpp:327-367), though the two never see the same command line.
\* (Any "--" makes it reject: the role is appended behind, as a root.)
ChildrenUnderstand ==
  launcher = "done" /\ ValuesBehindRoots /\ WholeWords /\ NoTerminator /\ ~DirLikeFlag =>
    \A role \in Role : child[role] # NoChild =>
      /\ Accepted(child[role].args)
      /\ Has(child[role].args, "distribute") <=> Has(given, "distribute")
      /\ Verbosity(child[role].args) = Verbosity(given)
      /\ Has(given, "slave") => SlaveOf(child[role].args) = SlaveOf(given)
=============================================================================
