---------------------------- MODULE BatchStream ----------------------------
(***************************************************************************)
(* What the background hasher promises the one thread that calls Get on    *)
(* it: the images of the directory come out once each, in directory order, *)
(* in batches of Request, and only the last batches may be shorter.  The   *)
(* empty batch says that nothing is left.  The process may abort at any    *)
(* point (a file that cannot be read ends it), and then nothing more       *)
(* comes out.                                                              *)
(***************************************************************************)
EXTENDS Naturals, Sequences

CONSTANT Request     \* the batch size asked for in every call of Get

VARIABLES
  images,            \* the images the stream delivers, in order
  delivered,         \* those handed out so far
  outcome            \* "open", "ended" (the empty batch was seen), "aborted"

vars == <<images, delivered, outcome>>

Left == Len(images) - Len(delivered)

Init ==
  /\ delivered = <<>>
  /\ outcome = "open"

\* One call of Get: a full batch, or all that is left.
Deliver ==
  /\ outcome = "open"
  /\ LET n == IF Left < Request THEN Left ELSE Request
     IN  /\ delivered' = SubSeq(images, 1, Len(delivered) + n)
         /\ outcome' = IF n = 0 THEN "ended" ELSE "open"
  /\ UNCHANGED images

Abort ==
  /\ outcome = "open"
  /\ outcome' = "aborted"
  /\ UNCHANGED <<images, delivered>>

Next == Deliver \/ Abort

Safety == Init /\ [][Next]_vars

\* The stream does not stall while there is a batch, or the end, to hand out.
Flow == WF_vars(Next)

Spec == Safety /\ Flow
=============================================================================
