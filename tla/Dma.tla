--------------------------------- MODULE Dma ---------------------------------
(***************************************************************************)
(* platform/stm32/resource/dma.c: the streams of a DMA controller share a  *)
(* flag register, in which those of a higher stream have the higher bits.  *)
(* Only the transfer complete flag and its callback are used.              *)
(***************************************************************************)
EXTENDS Integers

CONSTANTS Streams  \* streams of one flag register, by number

ASSUME StreamAssumption == Streams \subseteq Nat

VARIABLES
  tc_flag,   \* streams with TCIF set in the register
  irq,       \* streams with a pending interrupt
  callback   \* streams with a callback, whose interrupt is enabled

dmaVars == <<tc_flag, irq, callback>>

DmaInit == tc_flag = {} /\ irq = {} /\ callback = {}

\* The hardware: a transfer of s ends.
complete(s) ==
  /\ tc_flag' = tc_flag \cup {s}
  /\ irq' = irq \cup ({s} \cap callback)
  /\ UNCHANGED callback

\* dma_enable_irq and dma_set_transfer_complete_cb
enable_irq(s) ==
  /\ callback' = callback \cup {s}
  /\ irq' = irq \ {s}
  /\ UNCHANGED tc_flag

\* Mutant of Seen: the flags are shifted beyond those of the stream.
seen_above(s) == {r \in tc_flag : r > s}

\* flags[0] >> flag_bit is not masked: it has the flags of all higher streams.
\* "Any missed flags will be taken next IRQ" (dma.c:136) is not true of those:
\* cleared here, they are found clear by the handler of their own stream.
Seen(s) == {r \in tc_flag : r >= s}

\* dma_irq_handler up to its call: all flags seen are cleared, the callback of
\* s alone is called, if its flag is among them.
irq_handler(s) ==
  /\ s \in irq
  /\ irq' = irq \ {s}
  /\ tc_flag' = tc_flag \ Seen(s)
  /\ UNCHANGED callback

Called(s) == s \in Seen(s)
=============================================================================
