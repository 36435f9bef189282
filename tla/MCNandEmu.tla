------------------------------ MODULE MCNandEmu ------------------------------
(* A volume of a few clusters, one directory that is emptied when emulation *)
(* is switched on, and files in and outside it.                              *)
EXTENDS NandEmu, TLC

Symm == Permutations(Handles)

MCTmp == <<"t">>
MCDirs == {<<"t">>}
MCFiles == {<<"a">>, <<"t", "a">>}
(* A volume with a directory and two files, as the module makes them. *)
Blank0 == [disk |-> Formatted, win |-> Blank, winsect |-> 0, wflag |-> FALSE, last |-> 0, io |-> Enough,
           dead |-> FALSE, res |-> "ok", at |-> 0, dir |-> 0, clst |-> 0, ent |-> Blank, fp |-> NoFil,
           cnt |-> 0, buf |-> <<>>, part |-> "none"]
WithFile(v, p, x) == f_close(f_write(f_open(v, p, "always", {"w"}), x))
Populated == WithFile(WithFile(f_mkdir(Blank0, MCTmp), <<"a">>, <<"o">>), <<"t", "a">>, <<"p", "q", "p">>).disk
MCHome0 == {Formatted, Populated}

MCWrites == {<<"x">>, <<"y", "y">>}
=============================================================================
