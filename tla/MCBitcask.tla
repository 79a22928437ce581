------------------------------ MODULE MCBitcask ------------------------------
(* Bitcask instantiated for TLC: the key and reader sets are model values *)
(* given in the .cfg files.                                                *)
EXTENDS Bitcask
====
