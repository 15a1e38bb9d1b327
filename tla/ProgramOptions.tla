--------------------------- MODULE ProgramOptions ---------------------------
(***************************************************************************)
(* ProgramOptions::Parse (src/src/util/program_options.hpp:77-150), for    *)
(* the options of jpgsync: which words of a command line are flags, which  *)
(* are values of options, and which are arguments (here: roots), and how   *)
(* the arguments are moved to the front of argv.                           *)
(*                                                                         *)
(* A word is a sequence of characters; the name of an option counts as one *)
(* character.                                                              *)
(***************************************************************************)
EXTENDS SequencesExt

Alias == [m |-> "master", s |-> "slave", l |-> "local", d |-> "distribute",
          h |-> "help", v |-> "verbosity"]
OptionName == {Alias[c] : c \in DOMAIN Alias} \cup {"nc-test"}

IsFlag(word) == word # <<>> /\ word[1] = "-"

OptionOf(flag) ==
  CASE Len(flag) = 2 /\ flag[2] \in DOMAIN Alias -> Alias[flag[2]]
    [] Len(flag) = 3 /\ flag[2] = "-" /\ flag[3] \in OptionName -> flag[3]
    [] OTHER -> "unrecognized"

\* The place of "--", behind which nothing is a flag.
Terminator(args) ==
  LET k == SelectInSeq(args, LAMBDA word : word = <<"-", "-">>)
  IN  IF k = 0 THEN Len(args) + 1 ELSE k

Flags(args) == {j \in 1..(Terminator(args) - 1) : IsFlag(args[j])}
Uses(args, option) == {j \in Flags(args) : OptionOf(args[j]) = option}
Has(args, option) == Uses(args, option) # {}

\* The words that an option takes for its value, and those that remain.
Values(args) ==
  {j \in DOMAIN args : /\ j - 1 \in Uses(args, "slave") \cup Uses(args, "verbosity")
                       /\ ~IsFlag(args[j])}

\* The places of the words that remain, in order.
ArgInds(args) ==
  LET inds == DOMAIN args \ (Flags(args) \cup Values(args) \cup {Terminator(args)})
  IN  [k \in 1..Cardinality(inds) |->
         CHOOSE j \in inds : Cardinality({l \in inds : l <= j}) = k]

Roots(args) == [k \in DOMAIN ArgInds(args) |-> args[ArgInds(args)[k]]]

\* What Parse, and the parser of an option, throws at.
ParserAccepts(args) ==
  /\ ~Has(args, "unrecognized")
  /\ \A option \in OptionName \ {"verbosity"} : Cardinality(Uses(args, option)) <= 1
  /\ \A j \in Uses(args, "slave") : j + 1 \in Values(args)

Swap(args, j, k) == [args EXCEPT ![j] = args[k], ![k] = args[j]]

\* Mutant: the roots are taken out one after the other, by places that are
\* those of another argument by then.
MovedBackwards(args) ==
  FoldRight(LAMBDA k, moved : Swap(moved, k, ArgInds(args)[k]),
            [k \in DOMAIN ArgInds(args) |-> k], args)

\* "update argc and argv": each root in turn is swapped with what is in front.
RootsMoved(args) ==
  LET inds == ArgInds(args)
      moved[k \in 0..Len(inds)] ==
        IF k = 0 THEN args ELSE Swap(moved[k - 1], k, inds[k])
  IN  moved[Len(inds)]
-----------------------------------------------------------------------------
\* The places of the roots are found before any argument is moved, and used
\* while they are (:136-147): still no swap moves a root that is to be moved
\* later, and the roots come first, in the order they were given.
RootsFirst(args) ==
  \A k \in DOMAIN Roots(args) : RootsMoved(args)[k] = Roots(args)[k]
=============================================================================
