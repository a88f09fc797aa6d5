---------------------------- MODULE MCMemLoader ----------------------------
(***************************************************************************)
(* MemLoader for TLC: windows of four words; files that are empty, of odd  *)
(* and of even length in words, not of whole words, full, and too long.    *)
(***************************************************************************)
EXTENDS MemLoader

SomeSizes == {0, 4, 10, 16, 20}
=============================================================================
