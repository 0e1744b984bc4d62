-------------------------- MODULE MCUnorderedHeap --------------------------
(* UnorderedHeap with three keys, duplicates included, and blocks of two. *)
EXTENDS UnorderedHeap
=============================================================================
