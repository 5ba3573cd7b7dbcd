-------------------------------- MODULE MCUart --------------------------------
(***************************************************************************)
(* A serial port for TLC.  Reception and interrupt driven transmission     *)
(* share no variable, so that no interleaving of the two shows more than   *)
(* either alone: a behaviour is one of the half it chooses first.          *)
(***************************************************************************)
EXTENDS UartRx, UartTx

VARIABLE half  \* "rx" or "tx"

vars == <<rxVars, txVars, half>>

Init == RxInit /\ TxInit /\ half \in {"rx", "tx"}

Next ==
  /\ \/ half = "rx" /\ RxNext /\ UNCHANGED txVars
     \/ half = "tx" /\ TxNext /\ UNCHANGED rxVars
  /\ UNCHANGED half

\* The task keeps reading (the loops of fport_task and nfcp_rx_packet) and
\* runs when it is ready.  No timeout is assumed ever to expire.
Reads ==
  /\ WF_rxVars(half = "rx" /\ \E size \in DstSizes : uart_rx_read(size))
  /\ WF_rxVars(half = "rx" /\ Step)
  /\ WF_rxVars(half = "rx" /\ read_notified)

\* The writer runs, and the transmit register empties again and again.
Transmits ==
  /\ WF_txVars(half = "tx" /\ Write)
  /\ WF_txVars(half = "tx" /\ uart_irqhandler_tx)

FairSpec == Init /\ [][Next]_vars /\ Reads /\ Transmits
=============================================================================
