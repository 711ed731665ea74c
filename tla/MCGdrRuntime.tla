---------------------------- MODULE MCGdrRuntime ----------------------------
(***************************************************************************)
(* Both RTOSes and three images: board.elf is RT-Thread and exports its    *)
(* version, demo.elf is FreeRTOS and exports one, both.elf has the markers *)
(* of both and exports no version.  A session is long enough for a set-up, *)
(* a reset and a second set-up with a stop or an image load between them.  *)
(***************************************************************************)
EXTENDS GdrRuntime

MCRtos == {"rtthread", "freertos"}
MCSupported == [r \in Rtos |-> IF r = "rtthread" THEN {"4.1.0"} ELSE {"10.4.3", "11.1.0"}]
MCMarkers == [i \in Images |->
  CASE i = "board.elf" -> {"rtthread"} [] i = "demo.elf" -> {"freertos"} [] OTHER -> Rtos]
MCWritten == [i \in Images |-> [r \in Rtos |->
  CASE i = "board.elf" /\ r = "rtthread" -> "4.1.0"
    [] i = "demo.elf"  /\ r = "freertos" -> "11.1.0"
    [] OTHER -> None]]
MCKinds == [r \in Rtos |-> IF r = "rtthread" THEN {"task", "mailbox"} ELSE {"task", "queue"}]
=============================================================================
