---------------------------- MODULE MCMemoryPages ----------------------------
(* One page, with at most two changes by the user.                          *)
EXTENDS MemoryPages
=============================================================================
