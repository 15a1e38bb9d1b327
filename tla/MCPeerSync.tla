---------------------------- MODULE MCPeerSync ----------------------------
(* Bounded instances of PeerSync: who holds what. *)
EXTENDS PeerSync

CONSTANTS master, slave, a, b, c, d, e

MCPeers == {master, slave}
MCHash == {a, b, c, d, e}

Pair(m, s) == (master :> m) @@ (slave :> s)

\* Nothing in common, one image, two images, and one that is found last.
MCLibraries ==
  { Pair(<<a, b, c>>, <<>>),
    Pair(<<a, b>>, <<d>>),
    Pair(<<a, b, c>>, <<b>>),
    Pair(<<a, b>>, <<b, a>>),
    Pair(<<a, b, c>>, <<c, d>>),
    Pair(<<a, b, c, d>>, <<b, e>>) }

\* The same in less, and an offer that follows one in which b is found.
MCFewLibraries ==
  { Pair(<<a, b>>, <<d>>),
    Pair(<<a, b>>, <<b, a>>),
    Pair(<<a, b, c>>, <<c, d>>),
    Pair(<<a, b, c>>, <<b>>) }

\* Names longer than an offer has hashes, and one that is not.
MCLongNames == [h \in MCHash |-> 9]
MCShortName == [h \in MCHash |-> IF h = b THEN 1 ELSE 9]

\* Nothing in common: no hash is ever found, so that every offer is understood.
MCDisjoint == { Pair(<<a, b>>, <<>>) }
=============================================================================
