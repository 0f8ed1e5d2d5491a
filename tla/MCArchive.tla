------------------------------ MODULE MCArchive ------------------------------
(* The folders of the run "archive".                                       *)
EXTENDS Archive

Bytes(n) == [i \in 1 .. n |-> i]
Files(names, sizes, methods) ==
  [name : names, content : {Bytes(n) : n \in sizes}, method : methods]

(* One file of every size around the bounds, alone and next to another one *)
(* in a subdirectory, three files at the bound on the number of entries,   *)
(* and a path that is too long.                                            *)
MCTrees ==
  {{}}
  \cup {{f} : f \in Files({<<"a">>, <<"d", "b">>}, {0, 1, Max32, Max32 + 1},
                          Methods)}
  \cup {{f, g} : f \in Files({<<"a">>}, {0, 2, 5}, Methods),
                 g \in Files({<<"d", "b">>}, {0, 1, 3}, Methods)}
  \cup {{f, g, h} : f \in Files({<<"a">>}, {0, 2}, {"NO_COMPRESSION_64"}),
                    g \in Files({<<"d", "b">>}, {0, 1}, {"NO_COMPRESSION_64"}),
                    h \in Files({<<"d", "c">>}, {1}, {"NO_COMPRESSION_64", "NO_COMPRESSION_32"})}
  \cup {Files({<<"d", "e", "c">>}, {1}, {m}) : m \in Methods}

MCContents ==
  {<<>>, (<<"a">> :> Bytes(4)) @@ (<<"z">> :> Bytes(1))}
=============================================================================
