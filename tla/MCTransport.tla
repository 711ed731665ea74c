---------------------------- MODULE MCTransport ----------------------------
(***************************************************************************)
(* Two concurrent fetches over two keys.  Data d0 rides inline; d1 and d2  *)
(* are cut into two and three frames.  One cached text fills the cache, so *)
(* a transfer of one key can evict the other's.                            *)
(***************************************************************************)
EXTENDS Transport, TLC

MCVerbOf == [k \in Keys |-> k]
MCFrameTotal == [d \in Data |-> CASE d = "d0" -> 1 [] d = "d1" -> 2 [] OTHER -> 3]
\* Fetches are interchangeable, and every property is a safety property.
MCSymmetry == Permutations(Fetchers)
=============================================================================
