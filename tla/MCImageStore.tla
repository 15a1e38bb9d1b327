---------------------------- MODULE MCImageStore ----------------------------
(* Other peers with three images, with one of them under the name of another, *)
(* and with one that shares its name with a third; directories with nothing   *)
(* in them, with a file of a name or two in the way, or with two images found. *)
EXTENDS ImageStore

CONSTANTS a, b, c, x, y, z

MCImage == {a, b, c}
MCName == {x, y, z}

Named(name, i) == [name |-> name, image |-> i]

MCLibraries ==
  { {Named(x, a), Named(y, b), Named(z, c)},
    {Named(y, c)},
    {Named(x, b), Named(y, a)} }

Nothing == [p \in Path |-> <<"absent">>]

MCDirectories ==
  { Nothing,
    [Nothing EXCEPT ![<<x, NoSuffix>>] = <<"whole", c>>],
    [Nothing EXCEPT ![<<x, NoSuffix>>] = <<"other">>, ![<<x, b>>] = <<"other">>],
    [Nothing EXCEPT ![<<x, NoSuffix>>] = <<"whole", a>>,
                    ![<<y, NoSuffix>>] = <<"whole", b>>] }

MCGarbage == { <<"other">>, <<"whole", c>> }
=============================================================================
