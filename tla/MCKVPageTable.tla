---------------------------- MODULE MCKVPageTable ----------------------------
(* A small page table for TLC: the constants are in the configuration.     *)
EXTENDS KVPageTable
=============================================================================
