------------------------------ MODULE MCReass ------------------------------
(* Three datagrams: one that is larger than the limit on queued pbufs, one *)
(* that just fits, and a small one.                                        *)
EXTENDS Reass

MCSize == [k \in Keys |-> CASE k = "a" -> 7 [] k = "b" -> 5 [] OTHER -> 3]
=============================================================================
