------------------------ MODULE MCEvidenceDeletion --------------------------
(* A topic with two shards and a conversation of two turns, with one edit.  *)
EXTENDS EvidenceDeletion

CONSTANTS memory, work, health

Shards == (memory :> NoTopic) @@ (work :> memory) @@ (health :> memory)
=============================================================================
