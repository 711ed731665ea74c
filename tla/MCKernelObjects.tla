--------------------------- MODULE MCKernelObjects ---------------------------
(***************************************************************************)
(* A small instance of KernelObjects for TLC.                              *)
(***************************************************************************)
EXTENDS KernelObjects, Integers, TLC

CONSTANTS o1, o2, o3

\* messages of the timer daemon's queue: the sign tells a callback
MCValue == {-1, 1, 2}
\* one core and two, notification slots as a scalar and as an array
MCTaskImages == {[smp |-> FALSE, array |-> FALSE], [smp |-> TRUE, array |-> TRUE]}

\* a semaphore handle and the buffer of a static queue
MCObj == {o1, o2, o3}
MCDeclared == <<[symbol |-> "xLock", kind |-> "semaphore", buffer |-> None],
                [symbol |-> "xBuffer", kind |-> "queue", buffer |-> o3]>>
MCKinds == {"queue", "mutex", "timer", "eventgroup"}
MCImages == {[trace |-> FALSE, registry |-> TRUE, mpu |-> FALSE],
             [trace |-> TRUE, registry |-> TRUE, mpu |-> TRUE]}
\* places o1 and o2 differ in nothing, nor do the tasks
MCSymmetry == Permutations({o1, o2}) \cup Permutations(Task)
=============================================================================
