--------------------------- MODULE MCFreeRtosHeap ---------------------------
(***************************************************************************)
(* A heap of four cells of two bytes from address 4, a header as small as  *)
(* a cell: heap_2 before and since the allocated bit, heap_4, heap_5 with  *)
(* one region or with two, and an image without a heap GDR can walk.       *)
(* MCNoArray are images whose symbols lack ucHeap.                         *)
(***************************************************************************)
EXTENDS FreeRtosHeap

MCBuild(k, since, array, protector) ==
  [kind |-> k, bitSince |-> since, alignment |-> 2, array |-> array, protector |-> protector]
MCBuilds == {MCBuild(0, TRUE, FALSE, FALSE),
             MCBuild(2, FALSE, TRUE, FALSE), MCBuild(2, TRUE, TRUE, FALSE),
             MCBuild(4, TRUE, TRUE, FALSE),
             MCBuild(5, TRUE, FALSE, TRUE), MCBuild(5, TRUE, TRUE, TRUE),
             MCBuild(5, TRUE, TRUE, FALSE)}
MCNoArray == {MCBuild(2, TRUE, FALSE, FALSE), MCBuild(4, TRUE, FALSE, FALSE)}
MCRegions == [b \in Builds |->
  IF b.kind = 5 /\ b.array THEN << <<4, 2>>, <<8, 4>> >> ELSE << <<4, 8>> >>]
MCForged == {[next |-> 4, raw |-> 2]}
=============================================================================
