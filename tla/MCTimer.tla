------------------------------- MODULE MCTimer -------------------------------
(* Two timers on one vector: sch_timer and a servo with DMA on the first, a  *)
(* servo without on the second; the stream is above that of the serial port. *)
EXTENDS Timer

CONSTANTS t1, t10, servo, sched, servo_dma

MCUses ==
  [u \in Users |->
     CASE u = servo -> [timer |-> t10, chan |-> 1, stream |-> NoStream, pin |-> TRUE,
                        kind |-> "servo"]
       [] u = sched -> [timer |-> t1, chan |-> 2, stream |-> NoStream, pin |-> FALSE,
                        kind |-> "sched"]
       [] OTHER -> [timer |-> t1, chan |-> 1, stream |-> 1, pin |-> TRUE,
                    kind |-> "servo"]]
MCVector == <<<<t1, t10>>>>
MCFactors == {0, 2}
=============================================================================
