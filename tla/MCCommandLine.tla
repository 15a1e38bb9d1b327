--------------------------- MODULE MCCommandLine ---------------------------
(* Options with and without values, "--", local and remote roots, which may  *)
(* pass for addresses, and a word that a shell takes apart.                  *)
EXTENDS CommandLine

MCWord == { <<"-", "m">>, <<"-", "s">>, <<"-", "d">>, <<"-", "v">>, <<"-", "h">>, <<"-", "-">>,
            <<"a">>, <<"3">>, <<"h", ":", "1">>, <<"h", ":", "1", "0">>,
            <<"u", "@", "h", ":">>, <<"a", " ", "3">> }
=============================================================================
