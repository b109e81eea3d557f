----------------------------- MODULE MCKmalloc ------------------------------
(* Kmalloc with pages of 4 bytes.                                           *)
EXTENDS Kmalloc
=============================================================================
