------------------------------ MODULE Exchange ------------------------------
(***************************************************************************)
(* What a synchronisation promises, whatever happens to updates, masks,    *)
(* threads and processes: of the images that a peer finds in its directory *)
(* some are given to the other one, as they are, in the order they were    *)
(* found and none twice, as long as that one runs.  (That all those the    *)
(* other one lacks are given is not promised: see LossIsExplained; nor is  *)
(* anything of a peer that has taken a file for an offer.)                 *)
(***************************************************************************)
EXTENDS Naturals, Sequences

CONSTANT Peers

VARIABLES
  library,           \* the images that each peer finds, in order
  given,             \* those of them the other one has stored, in order
  running            \* the peers whose process runs

vars == <<library, given, running>>

Other(p) == CHOOSE q \in Peers : q # p

Init ==
  /\ given = [p \in Peers |-> <<>>]
  /\ running = Peers

\* Neither the k-th image of p nor any behind it has been given.
Fresh(p, k) ==
  \A i \in DOMAIN given[p], j \in k..Len(library[p]) : given[p][i] # library[p][j]

Give(p) ==
  /\ Other(p) \in running
  /\ \E k \in DOMAIN library[p] :
       /\ Fresh(p, k)
       /\ given' = [given EXCEPT ![p] = Append(@, library[p][k])]
  /\ UNCHANGED <<library, running>>

\* A process ends, in one way or another.
End(p) ==
  /\ p \in running
  /\ running' = running \ {p}
  /\ UNCHANGED <<library, given>>

Spec == Init /\ [][\E p \in Peers : Give(p) \/ End(p)]_vars
=============================================================================
