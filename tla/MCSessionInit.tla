--------------------------- MODULE MCSessionInit ---------------------------
(***************************************************************************)
(* Two sessions of two stops over one launch configuration.  Between them  *)
(* the firmware may change: board.elf is RT-Thread and exports its         *)
(* version, plain.elf has the markers of both RTOSes and exports none,     *)
(* mixed.elf has both and exports that of FreeRTOS only, and both.elf      *)
(* exports both.                                                           *)
(***************************************************************************)
EXTENDS SessionInit

MCRtos == {"rtthread", "freertos"}
MCSupported == [r \in Rtos |-> IF r = "rtthread" THEN {"4.1.0"} ELSE {"11.1.0"}]
MCMarkers == [i \in Images |-> IF i = "board.elf" THEN {"rtthread"} ELSE Rtos]
MCWritten == [i \in Images |-> [r \in Rtos |->
  CASE i \in {"board.elf", "both.elf"} /\ r = "rtthread" -> "4.1.0"
    [] i \in {"mixed.elf", "both.elf"} /\ r = "freertos" -> "11.1.0"
    [] OTHER -> None]]
MCKinds == [r \in Rtos |-> {"task"}]
MCSettings ==
  {[rtos |-> None, version |-> None, autoInit |-> TRUE],
   [rtos |-> None, version |-> None, autoInit |-> FALSE],
   [rtos |-> "freertos", version |-> None, autoInit |-> TRUE],
   [rtos |-> "freertos", version |-> "11.1.0", autoInit |-> TRUE]}
=============================================================================
