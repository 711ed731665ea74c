----------------------------- MODULE MCRtTarget -----------------------------
(***************************************************************************)
(* A small instance of RtTarget for TLC: two CPUs, threads and objects of  *)
(* one name that differ in nothing but their addresses, and a variable     *)
(* that has the name of an object; two timers; stores of as many places as *)
(* a walk may take; a heap of at most four blocks.                         *)
(***************************************************************************)
EXTENDS RtTarget, Naturals, TLC

CONSTANTS t1, t2, o1, o2, c1, c2

MCThread == {t1, t2}
MCObject == {o1, o2}
MCNameOf == (t1 :> "main") @@ (t2 :> "main") @@ (o1 :> "lock") @@ (o2 :> "lock")
MCHandle == {"lock"}
MCTimer == {c1, c2}
\* hard and soft, once and again
MCShapes == {[periodic |-> TRUE, soft |-> FALSE, init |-> 2], [periodic |-> FALSE, soft |-> TRUE, init |-> 1],
             [periodic |-> TRUE, soft |-> TRUE, init |-> 2]}
MCSymmetry == Permutations(MCThread) \cup Permutations(MCObject) \cup Permutations(MCTimer)

\* null, the base, inside a block, near the end, the sentinel, past the end
MCWords == {0, Base, Base + 3, Base + Size - Header - 2, Base + Size - Header, Base + Size + Header}
=============================================================================
