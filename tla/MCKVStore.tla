------------------------------ MODULE MCKVStore -----------------------------
(***************************************************************************)
(* Small instance of KVStore: two clients, interchangeable, that write     *)
(* among the keys a listing returns.                                       *)
(***************************************************************************)
EXTENDS KVStore

CONSTANTS c1, c2

ClientSymmetry == Permutations({c1, c2})
=============================================================================
