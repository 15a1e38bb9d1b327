--------------------------- MODULE MCExifHasher ---------------------------
(* A bounded instance of ExifHasher. *)
EXTENDS ExifHasher

CONSTANTS h1, h2, h3, h4

MCHash == {h1, h2, h3, h4}

\* Every directory of up to four files, of which three digests occur, and some
\* larger ones: two full batches of two, and a fifth file.
MCDirectories ==
  UNION {[1..k -> {h1, h2, h3, NoExif, Unreadable}] : k \in 0..4} \cup
  { <<h1, h2, h3, h4>>, <<NoExif, h1, h2, h3, h4>>, <<h1, h1, h2, h2, h3>>,
    <<h1, h2, h3, h4, Unreadable>> }
=============================================================================
