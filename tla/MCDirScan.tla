------------------------------ MODULE MCDirScan ------------------------------
(* Small trees for DirScan. *)
EXTENDS DirScan

MCSources == {<<"a">>, <<"a", "b">>, <<"a", "c">>, <<"a", "b", "x">>}
MCRoots == {<<"a">>}
MCLines == {[path |-> <<"a", "b">>, slash |-> TRUE], [path |-> <<"a", "c">>, slash |-> FALSE]}
MCOpts == [del : {FALSE}, delkey : {FALSE}] \cup [del : {TRUE}, delkey : BOOLEAN]
=============================================================================
