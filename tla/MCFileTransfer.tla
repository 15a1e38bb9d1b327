--------------------------- MODULE MCFileTransfer ---------------------------
(* Two files; bytes of one bit, so that a size of four bytes is below 16:    *)
(* sixteen bytes are too many.                                               *)
EXTENDS FileTransfer

MCOffered == << <<1>>, <<0>> >>

Long(n) == [k \in 1..n |-> k % ByteValues]

MCVersions == { <<>>, <<1>>, <<0, 1>>, <<1, 1, 0>>, Long(5), Long(16), Long(17) }
=============================================================================
