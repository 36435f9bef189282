----------------------------- MODULE MCRaThread -----------------------------
(* Watch lists that fit, that are longer than the module has room for, and *)
(* that come in more chunks than it asks for; chain tables in order, out   *)
(* of order, too long and empty.                                           *)
EXTENDS RaThread

MCWatchLists ==
    {<<<<11, 12>>, <<13>>>>, <<<<11, 12>>, <<13, 14>>, <<15>>>>, <<<<11>>, <<12>>, <<13>>, <<14>>, <<15>>>>, <<<<>>>>}

MCChainTables ==
    {<<<<0, 1>>, <<2, 0>>, <<4>>>>, <<<<0, 0>>, <<4, 0>>>>, <<<<0, 0>>, <<0, 0>>, <<0, 0>>, <<0>>>>, <<<<>>>>}
=============================================================================
