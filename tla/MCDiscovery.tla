---------------------------- MODULE MCDiscovery ----------------------------
(***************************************************************************)
(* Three objects and an address inside another, two slots, one task; a        *)
(* semaphore handle and the buffer of a static queue.                      *)
(***************************************************************************)
EXTENDS Discovery

CONSTANTS o1, o2, o3

MCObj == {o1, o2, o3}

MCDeclared == <<[symbol |-> "xLock", kind |-> "semaphore", buffer |-> None],
                [symbol |-> "xBuffer", kind |-> "queue", buffer |-> o3]>>

MCKinds == {"queue", "mutex", "timer", "eventgroup"}

MCImages == {[trace |-> FALSE, registry |-> TRUE, mpu |-> FALSE],
             [trace |-> TRUE, registry |-> TRUE, mpu |-> TRUE]}
=============================================================================
