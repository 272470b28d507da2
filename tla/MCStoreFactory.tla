--------------------------- MODULE MCStoreFactory ---------------------------
(* Two handler threads, and the one email dictionary that calls write and   *)
(* clear; the cleanup treats the other two alike.                           *)
EXTENDS StoreFactory, TLC

CONSTANTS w1, w2

MCWorkers == {w1, w2}
MCDicts   == <<"pending">>
Symmetry  == Permutations(MCWorkers)
=============================================================================
