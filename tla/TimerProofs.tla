----------------------------- MODULE TimerProofs -----------------------------
(***************************************************************************)
(* What runs from timers, in two parts that share no state.                *)
(*                                                                         *)
(* The clock, for every counter width W and every H: a time that           *)
(* systime_get_runtime returns is one the clock had during the call.       *)
(*                                                                         *)
(* The users of the timer channels, for any timers, channels, streams,     *)
(* users, factors and lengths: completions are only lost to lower streams, *)
(* a serial port that transmits by DMA sends what was written, whole and   *)
(* in order, and a decimating client fires at every factor-th run.         *)
(***************************************************************************)
EXTENDS Timer, Systime, SequenceTheorems, TLAPS

-----------------------------------------------------------------------------
(* The clock                                                               *)

USE WAssumption, HAssumption

\* What one overflow does to a high part that is d overflows ahead.
LEMMA AdvanceByOne ==
  ASSUME NEW h \in 0 .. (H - 1), NEW d \in 0 .. (H - 2)
  PROVE  /\ Inc(Advance(h, d)) = Advance(h, d + 1)
         /\ Advance(h, 0) = h
         /\ Advance(h, d + 1) # h
         /\ Advance(h, d) \in 0 .. (H - 1)
  BY DEF Inc, Advance

\* The inductive invariant holds initially.
LEMMA StInitIInv == StInit => StIInv
  <1> SUFFICES ASSUME StInit PROVE StIInv
    OBVIOUS
  <1>1. StTypeOK
    <2>1. uif \in BOOLEAN /\ seen \subseteq Times
      BY Zenon DEF StInit
    <2> QED BY <2>1 DEF StInit, StTypeOK
  <1>2. HighFollows
    BY DEF StInit, HighFollows
  <1>3. NowSeen /\ PassCounts /\ LowBelongs /\ ReturnsTimeOfCall
    BY DEF StInit, NowSeen, PassCounts, LowBelongs, ReturnsTimeOfCall, InPass
  <1> QED BY <1>1, <1>2, <1>3 DEF StIInv

\* Every step of the timer, its handler and the reader preserves it.
LEMMA StNextIInv == StIInv /\ [StNext]_stVars => StIInv'
  <1> SUFFICES ASSUME StIInv, [StNext]_stVars PROVE StIInv'
    OBVIOUS
  <1> USE DEF StIInv
  <1>1. CASE Tick
    <2>1. StTypeOK'
      BY <1>1 DEF Tick, StTypeOK, Times, Inc
    <2>2. HighFollows' /\ NowSeen' /\ PassCounts'
      BY <1>1 DEF Tick, StTypeOK, HighFollows, NowSeen, PassCounts, InPass, Inc,
                  Advance
    <2>3. LowBelongs' /\ ReturnsTimeOfCall'
      BY <1>1 DEF Tick, LowBelongs, ReturnsTimeOfCall
    <2> QED BY <2>1, <2>2, <2>3
  <1>2. CASE TIM7_IRQHandler
    <2>1. StTypeOK'
      <3>1. uif' \in BOOLEAN
        BY <1>2, Zenon DEF TIM7_IRQHandler
      <3>2. overflows' \in 0 .. (H - 1)
        BY <1>2 DEF TIM7_IRQHandler, StTypeOK, PassCounts
      <3>3. systime_high' \in 0 .. (H - 1)
        BY <1>2 DEF TIM7_IRQHandler, StTypeOK, Inc
      <3> QED BY <1>2, <3>1, <3>2, <3>3 DEF TIM7_IRQHandler, StTypeOK
    <2>2. HighFollows' /\ NowSeen'
      BY <1>2 DEF TIM7_IRQHandler, StTypeOK, HighFollows, NowSeen, Inc
    <2>3. PassCounts'
      <3>1. CASE InPass
        <4>1. overflows \in 0 .. (H - 2) /\ high_bits \in 0 .. (H - 1)
          BY <1>2, <3>1 DEF TIM7_IRQHandler, StTypeOK, PassCounts
        <4>2. Inc(Advance(high_bits, overflows)) = Advance(high_bits, overflows + 1)
          BY <4>1, AdvanceByOne
        <4> QED
          BY <1>2, <3>1, <4>2 DEF TIM7_IRQHandler, PassCounts, InPass, Advance
      <3>2. CASE ~InPass
        BY <1>2, <3>2 DEF TIM7_IRQHandler, PassCounts, InPass
      <3> QED BY <3>1, <3>2
    <2>4. LowBelongs' /\ ReturnsTimeOfCall'
      BY <1>2 DEF TIM7_IRQHandler, StTypeOK, LowBelongs, ReturnsTimeOfCall, InPass
    <2> QED BY <2>1, <2>2, <2>3, <2>4
  <1>3. CASE systime_get_runtime
    BY <1>3 DEF systime_get_runtime, StTypeOK, HighFollows, NowSeen, PassCounts,
                LowBelongs, ReturnsTimeOfCall, InPass, Times
  <1>4. CASE read_high
    BY <1>4 DEF read_high, StTypeOK, HighFollows, NowSeen, PassCounts,
                LowBelongs, ReturnsTimeOfCall, InPass, Advance
  <1>5. CASE read_low
    <2>1. StTypeOK' /\ HighFollows' /\ NowSeen' /\ PassCounts' /\ ReturnsTimeOfCall'
      BY <1>5 DEF read_low, StTypeOK, HighFollows, NowSeen, PassCounts,
                  ReturnsTimeOfCall, InPass, Advance
    <2>2. LowBelongs'
      BY <1>5 DEF read_low, StTypeOK, HighFollows, NowSeen, PassCounts,
                  LowBelongs, InPass, Advance
    <2> QED BY <2>1, <2>2
  <1>6. CASE read_check
    <2>1. StTypeOK' /\ HighFollows' /\ NowSeen' /\ PassCounts' /\ LowBelongs'
      BY <1>6 DEF read_check, StTypeOK, HighFollows, NowSeen, PassCounts,
                  LowBelongs, InPass
    <2>2. systime_high = high_bits => overflows = 0
      BY <1>6 DEF read_check, StTypeOK, PassCounts, InPass, Advance
    <2>3. ReturnsTimeOfCall'
      BY <1>6, <2>2 DEF read_check, LowBelongs, ReturnsTimeOfCall
    <2> QED BY <2>1, <2>2, <2>3
  <1>7. CASE read_return
    BY <1>7 DEF read_return, StTypeOK, HighFollows, NowSeen, PassCounts,
                LowBelongs, ReturnsTimeOfCall, InPass
  <1>8. CASE UNCHANGED stVars
    BY <1>8 DEF stVars, StTypeOK, HighFollows, NowSeen, PassCounts, LowBelongs,
                ReturnsTimeOfCall, InPass, Advance, Inc
  <1> QED
    BY <1>1, <1>2, <1>3, <1>4, <1>5, <1>6, <1>7, <1>8 DEF StNext

\* The types of systime.c's variables hold always.
THEOREM StTypeCorrect == StSpec => []StTypeOK
  <1>1. StIInv => StTypeOK
    BY DEF StIInv
  <1> QED
    BY <1>1, StInitIInv, StNextIInv, PTL DEF StSpec

\* systime_get_runtime never returns a torn time, for every W and H.
THEOREM RuntimeNotTorn == StSpec => []ReturnsTimeOfCall
  <1>1. StIInv => ReturnsTimeOfCall
    BY DEF StIInv
  <1> QED
    BY <1>1, StInitIInv, StNextIInv, PTL DEF StSpec

-----------------------------------------------------------------------------
(* Completions of DMA streams                                              *)

\* What timers and streams keep, whatever their users do.
DmaTypes ==
  /\ callback \subseteq Streams /\ irq \subseteq callback /\ tc_flag \subseteq Streams

\* What any step does to the registers of the streams: a stream completes, its
\* interrupt is enabled or taken, or nothing.
LEMMA DmaSteps ==
  ASSUME Next
  PROVE  \/ \E s \in Streams : complete(s) \/ enable_irq(s) \/ irq_handler(s)
         \/ UNCHANGED dmaVars
  <1> USE UsesAssumption, TxAssumption
  <1>0. \A u \in Users : Dmas(u) => Uses[u].stream \in Streams
    BY DEF Dmas
  <1>1. ASSUME NEW u \in Users, configure(u)
        PROVE  (\E s \in Streams : enable_irq(s)) \/ UNCHANGED dmaVars
    BY <1>0, <1>1 DEF configure
  <1>2. ASSUME NEW u \in Users, dma_pulse(u)
        PROVE  \E s \in Streams : complete(s)
    BY <1>0, <1>2 DEF dma_pulse
  <1>3. CASE init_rest
    BY <1>3 DEF init_rest
  <1>4. CASE boot_end
    BY <1>4 DEF boot_end
  <1>5. ASSUME NEW t \in Timers, tick(t) PROVE UNCHANGED dmaVars
    BY <1>5 DEF tick
  <1>6. CASE dma_byte
    BY <1>6 DEF dma_byte
  <1>7. ASSUME NEW v \in DOMAIN Vector, timer_irqhandler(v)
        PROVE  UNCHANGED dmaVars
    BY <1>7 DEF timer_irqhandler
  <1>8. ASSUME NEW u \in Users, dma_irq_timer(u)
        PROVE  \E s \in Streams : irq_handler(s)
    BY <1>0, <1>8 DEF dma_irq_timer
  <1>9. CASE dma_irq_uart
    BY <1>9 DEF dma_irq_uart
  <1>10. ASSUME NEW u \in Users, NEW p \in Pulses, servo_sched_run(u, p)
         PROVE  UNCHANGED dmaVars
    BY <1>10 DEF servo_sched_run
  <1>11. CASE sch_decim_src_run
    BY <1>11 DEF sch_decim_src_run
  <1>12. ASSUME NEW n \in Writes, uart_tx_write_dma(n) PROVE UNCHANGED dmaVars
    BY <1>12 DEF uart_tx_write_dma
  <1>13. CASE write_copy \/ write_start
    BY <1>13 DEF write_copy, write_start
  <1> QED
    BY <1>1, <1>2, <1>3, <1>4, <1>5, <1>6, <1>7, <1>8, <1>9, <1>10, <1>11,
       <1>12, <1>13 DEF Next, Handlers, Writer

\* Flags and interrupts are only those of streams.
LEMMA DmaTypesKept ==
  ASSUME DmaTypes, [Next]_vars
  PROVE  DmaTypes'
  <1> USE StreamAssumption
  <1>1. ASSUME NEW s \in Streams, complete(s) PROVE DmaTypes'
    BY <1>1 DEF complete, DmaTypes
  <1>2. ASSUME NEW s \in Streams, enable_irq(s) PROVE DmaTypes'
    BY <1>2 DEF enable_irq, DmaTypes
  <1>3. ASSUME NEW s \in Streams, irq_handler(s) PROVE DmaTypes'
    BY <1>3 DEF irq_handler, DmaTypes
  <1>4. CASE UNCHANGED dmaVars
    BY <1>4 DEF dmaVars, DmaTypes
  <1> QED BY <1>1, <1>2, <1>3, <1>4, DmaSteps DEF vars

-----------------------------------------------------------------------------
(* The decimating client                                                   *)

CounterTypes ==
  /\ factor \in Factors /\ since \in Nat /\ fired \in BOOLEAN
  /\ current_counter \in -(CountMod \div 2) .. (CountMod - 1 - CountMod \div 2)

\* The runs since the client fired and those that are left make the factor.
CounterRuns ==
  factor >= 1 =>
    IF fired THEN since = factor /\ current_counter = factor
    ELSE since + current_counter = factor /\ current_counter >= 1

\* A number within the width of the counter is not changed by it, and any
\* other comes to lie within it.
LEMMA WrapWithin ==
  ASSUME NEW n \in Int
  PROVE  /\ Wrap(n) \in -(CountMod \div 2) .. (CountMod - 1 - CountMod \div 2)
         /\ n \in -(CountMod \div 2) .. (CountMod - 1 - CountMod \div 2)
              => Wrap(n) = n
  <1> DEFINE half == CountMod \div 2
             k == n + half
  <1>1. half \in Nat /\ k \in Int /\ n = k - half
    BY FactorAssumption
  <1> HIDE DEF half, k
  <1>2. k % CountMod \in 0 .. (CountMod - 1)
    BY <1>1, FactorAssumption
  <1>3. k \in 0 .. (CountMod - 1) => k % CountMod = k
    BY FactorAssumption
  <1>4. Wrap(n) = (k % CountMod) - half
    BY DEF Wrap, half, k
  <1>5. /\ (k % CountMod) - half \in -half .. (CountMod - 1 - half)
        /\ n \in -half .. (CountMod - 1 - half) => (k % CountMod) - half = n
    BY <1>1, <1>2, <1>3, FactorAssumption
  <1> QED BY <1>4, <1>5 DEF half

\* The counter starts with the factor.
LEMMA InitCounter == Init => CounterTypes /\ CounterRuns
  <1> SUFFICES ASSUME Init PROVE CounterTypes /\ CounterRuns
    OBVIOUS
  <1>1. factor \in Int /\ factor \in Factors /\ current_counter = factor
    BY FactorAssumption DEF Init
  <1>2. fired \in BOOLEAN
    BY Zenon DEF Init
  <1> QED BY <1>1, <1>2, FactorAssumption DEF Init, CounterTypes, CounterRuns

\* Only a run of the client counts.
LEMMA CounterSteps ==
  ASSUME Next
  PROVE  sch_decim_src_run \/ UNCHANGED <<factor, current_counter, since, fired>>
  BY DEF Next, Handlers, Writer, schedVars, configure, init_rest, boot_end,
         tick, dma_pulse, dma_byte, timer_irqhandler, dma_irq_timer,
         dma_irq_uart, servo_sched_run, uart_tx_write_dma, write_copy,
         write_start

\* Counting down from the factor and up from the last time stay in step.
LEMMA CounterKept ==
  ASSUME CounterTypes, CounterRuns, [Next]_vars
  PROVE  CounterTypes' /\ CounterRuns'
  <1>1. CASE sch_decim_src_run
    <2> DEFINE n == Wrap(current_counter - 1)
    <2>1. fired' = (n = 0)
      BY <1>1 DEF sch_decim_src_run
    <2>2. /\ factor' = factor
          /\ current_counter' = IF n = 0 THEN factor ELSE n
          /\ since' = IF fired THEN 1
                      ELSE IF since < CountMod THEN since + 1 ELSE since
      BY <1>1 DEF sch_decim_src_run, Reload
    <2>3. /\ factor \in -(CountMod \div 2) .. (CountMod - 1 - CountMod \div 2)
          /\ current_counter \in Int /\ factor \in Int /\ CountMod \in Nat
          /\ CountMod \div 2 \in Nat /\ since \in Nat
      BY FactorAssumption DEF CounterTypes
    <2>4. n \in -(CountMod \div 2) .. (CountMod - 1 - CountMod \div 2)
      BY <2>3, WrapWithin
    <2>5. factor >= 1 => n = current_counter - 1
      BY <2>3, WrapWithin DEF CounterTypes, CounterRuns
    <2> HIDE DEF n
    <2>6. fired' \in BOOLEAN /\ (fired' <=> n = 0)
      BY <2>1, Zenon
    <2>7. CounterTypes'
      BY <2>2, <2>3, <2>4, <2>6 DEF CounterTypes
    <2>8. CounterRuns'
      <3> SUFFICES ASSUME factor >= 1 PROVE CounterRuns'
        BY <2>2 DEF CounterRuns
      <3>1. n = current_counter - 1 /\ factor < CountMod
        BY <2>3, <2>5
      <3>2. CASE fired
        BY <2>2, <2>3, <2>6, <3>1, <3>2 DEF CounterRuns
      <3>3. CASE ~fired
        <4>1. since + current_counter = factor /\ current_counter >= 1
          BY <3>3 DEF CounterRuns
        <4>2. since' = since + 1
          BY <2>2, <2>3, <3>1, <3>3, <4>1
        <4> QED BY <2>2, <2>3, <2>6, <3>1, <4>1, <4>2 DEF CounterRuns
      <3> QED BY <3>2, <3>3
    <2> QED BY <2>7, <2>8
  <1>2. CASE UNCHANGED <<factor, current_counter, since, fired>>
    BY <1>2 DEF CounterTypes, CounterRuns
  <1> QED BY <1>1, <1>2, CounterSteps DEF vars, schedVars

\* sch_decim_src_run triggers the next scheduler at every factor-th run and at
\* no other, for every factor of one or more and every width of the counter.
THEOREM DecimationIsExact == Spec => []DecimationExact
  <1>1. CounterTypes /\ CounterRuns => DecimationExact
    BY FactorAssumption DEF CounterTypes, CounterRuns, DecimationExact
  <1> QED BY <1>1, InitCounter, CounterKept, PTL DEF Spec

-----------------------------------------------------------------------------
(* The types of the users of timers                                        *)

\* What is configured, the values on their way to a pulse, and the flags.
UserTypes ==
  /\ want \in [Users -> Configs]
  /\ initing # NULL => initing \in Users
  /\ ready \subseteq Users
  /\ main_block \in [Timers -> Configs \cup {NULL}]
  /\ update \subseteq Timers /\ update_it \subseteq Timers
  /\ raw_value \in [Users -> Pulses \cup {0}]
  /\ pulses \in [Users -> Pulses \cup {0}]
  /\ compare \in [Users -> Pulses \cup {0}]

\* Every step of the boot, the hardware, the handlers and the tasks keeps the
\* types.
LEMMA UserTypesKept ==
  ASSUME UserTypes, [Next]_vars
  PROVE  UserTypes'
  <1> USE DEF UserTypes, bootVars, timerVars
  <1>1. ASSUME NEW u \in Users, configure(u) PROVE UserTypes'
    <2>1. Uses[u].timer \in Timers /\ want[u] \in Configs
      BY UsesAssumption
    <2>2. CASE ~Agrees(Uses[u].timer, want[u])
      BY <1>1, <2>2 DEF configure
    <2>3. CASE Agrees(Uses[u].timer, want[u])
      <3>1. /\ main_block' = [main_block EXCEPT ![Uses[u].timer] =
                                IF @ = NULL THEN want[u] ELSE @]
            /\ pulses' = [pulses EXCEPT ![u] = 0]
            /\ compare' = [compare EXCEPT ![u] = 0]
            /\ ready' = ready \cup {u} /\ initing' = u /\ UNCHANGED update
            /\ UNCHANGED update_it \/ update_it' = update_it \cup {Uses[u].timer}
            /\ UNCHANGED <<want, raw_value>>
        BY <1>1, <2>3 DEF configure
      <3>2. main_block' \in [Timers -> Configs \cup {NULL}]
        BY <2>1, <3>1
      <3>3. /\ pulses' \in [Users -> Pulses \cup {0}]
            /\ compare' \in [Users -> Pulses \cup {0}]
        BY <3>1
      <3> QED BY <2>1, <3>1, <3>2, <3>3
    <2> QED BY <2>2, <2>3
  <1>2. CASE init_rest
    <2>1. Center \in Pulses
      BY PulseAssumption DEF Center
    <2> QED BY <1>2, <2>1 DEF init_rest
  <1>3. CASE boot_end
    BY <1>3 DEF boot_end
  <1>4. ASSUME NEW t \in Timers, tick(t) PROVE UserTypes'
    BY <1>4 DEF tick
  <1>5. ASSUME NEW u \in Users, dma_pulse(u) PROVE UserTypes'
    BY <1>5 DEF dma_pulse
  <1>6. CASE dma_byte
    BY <1>6 DEF dma_byte
  <1>7. ASSUME NEW v \in DOMAIN Vector, timer_irqhandler(v) PROVE UserTypes'
    BY <1>7 DEF timer_irqhandler
  <1>8. ASSUME NEW u \in Users, dma_irq_timer(u) PROVE UserTypes'
    BY <1>8 DEF dma_irq_timer
  <1>9. CASE dma_irq_uart
    BY <1>9 DEF dma_irq_uart
  <1>10. ASSUME NEW u \in Users, NEW p \in Pulses, servo_sched_run(u, p)
         PROVE  UserTypes'
    BY <1>10 DEF servo_sched_run
  <1>11. CASE sch_decim_src_run
    BY <1>11 DEF sch_decim_src_run
  <1>12. ASSUME NEW n \in Writes, uart_tx_write_dma(n) PROVE UserTypes'
    BY <1>12 DEF uart_tx_write_dma
  <1>13. CASE write_copy \/ write_start
    BY <1>13 DEF write_copy, write_start
  <1>14. CASE UNCHANGED vars
    BY <1>14 DEF vars
  <1> QED
    BY <1>1, <1>2, <1>3, <1>4, <1>5, <1>6, <1>7, <1>8, <1>9, <1>10, <1>11,
       <1>12, <1>13, <1>14 DEF Next, Handlers, Writer

-----------------------------------------------------------------------------
(* Transmission by DMA                                                     *)

TransferTypes ==
  /\ writer \in {"idle", "wait", "start"} /\ enabled \in BOOLEAN
  /\ at \in Nat /\ left \in Nat /\ written \in Nat
  /\ tx_buf \in Seq(Nat) /\ sent \in Seq(Nat)

\* The buffer holds a transfer that has not ended.
Filled == enabled \/ writer = "start"

\* The byte the stream moves next is the one after those it has moved, and the
\* transfer ends with the last byte written.
InStep ==
  /\ \A i \in 1 .. Len(sent) : sent[i] = i
  /\ Filled => /\ at < Len(tx_buf)
               /\ written = Len(sent) - at + Len(tx_buf)
               /\ \A i \in 1 .. Len(tx_buf) : tx_buf[i] = Len(sent) - at + i
  /\ ~Filled => written = Len(sent)

\* The writer has something to write when it waits for the stream; it starts
\* a stream that is disabled.
WriterWaits ==
  /\ writer = "wait" => left > 0
  /\ writer = "start" => ~enabled /\ at = 0

\* While a completion of the serial port's stream waits for its handler no
\* transfer goes on that the handler could disable.
NoLateCompletion == UartStream \in irq => ~enabled

Transfers == TransferTypes /\ InStep /\ WriterWaits /\ NoLateCompletion

\* What the writer copies.
LEMMA Copied ==
  ASSUME NEW n \in Nat \ {0}, NEW w \in Nat
  PROVE  LET size == Min({n, TxSize})
             part == [i \in 1 .. size |-> w + i]
         IN  /\ size \in 1 .. n
             /\ part \in Seq(Nat) /\ Len(part) = size
             /\ \A i \in 1 .. Len(part) : part[i] = w + i
  <1> DEFINE size == Min({n, TxSize})
             part == [i \in 1 .. size |-> w + i]
  <1>1. TxSize \in Nat \ {0}
    BY TxAssumption
  <1>2. \E x \in {n, TxSize} : \A y \in {n, TxSize} : x <= y
    BY <1>1
  <1>3. size \in {n, TxSize} /\ \A y \in {n, TxSize} : size <= y
    BY <1>2 DEF Min
  <1>4. size \in 1 .. n
    BY <1>1, <1>3
  <1> HIDE DEF size
  <1>5. part \in Seq(Nat) /\ Len(part) = size
    BY <1>4
  <1> QED BY <1>4, <1>5 DEF size

\* Every step keeps the stream and the writer in step.
LEMMA TransfersKept ==
  ASSUME Transfers, [Next]_vars
  PROVE  Transfers'
  <1> USE DEF Transfers
  <1>1. CASE dma_byte
    <2>1. /\ enabled /\ sent' = Append(sent, tx_buf[at + 1]) /\ at' = at + 1
          /\ UNCHANGED <<tx_buf, writer, written, left>>
      BY <1>1 DEF dma_byte
    <2>2. /\ at + 1 \in 1 .. Len(tx_buf) /\ tx_buf[at + 1] = Len(sent) + 1
          /\ Len(sent) \in Nat /\ Len(tx_buf) \in Nat
      BY <2>1 DEF TransferTypes, InStep, Filled
    <2>3. /\ sent' \in Seq(Nat) /\ Len(sent') = Len(sent) + 1
          /\ \A i \in 1 .. Len(sent') : sent'[i] = i
      BY <2>1, <2>2 DEF TransferTypes, InStep
    <2>4. writer # "start"
      BY <2>1 DEF WriterWaits
    <2>5. CASE at' = Len(tx_buf)
      <3>1. ~enabled' /\ enabled' \in BOOLEAN
        BY <1>1, <2>5, Zenon DEF dma_byte
      <3>2. InStep'
        BY <2>1, <2>2, <2>3, <2>4, <2>5, <3>1 DEF TransferTypes, InStep, Filled
      <3> QED
        BY <2>1, <2>3, <2>4, <3>1, <3>2
           DEF TransferTypes, WriterWaits, NoLateCompletion
    <2>6. CASE at' # Len(tx_buf)
      <3>1. enabled' /\ enabled' \in BOOLEAN /\ irq' = irq
        BY <1>1, <2>1, <2>6, Zenon DEF dma_byte, dmaVars, TransferTypes
      <3>2. /\ written = Len(sent) - at + Len(tx_buf)
            /\ \A i \in 1 .. Len(tx_buf) : tx_buf[i] = Len(sent) - at + i
            /\ at \in Nat
        BY <2>1 DEF TransferTypes, InStep, Filled
      <3>3. at' < Len(tx_buf') /\ Len(sent') - at' = Len(sent) - at
        BY <2>1, <2>2, <2>3, <2>6, <3>2
      <3>4. InStep'
        BY <2>1, <2>3, <3>1, <3>2, <3>3 DEF InStep, Filled
      <3> QED
        BY <2>1, <2>3, <2>4, <3>1, <3>4
           DEF TransferTypes, WriterWaits, NoLateCompletion
    <2> QED BY <2>5, <2>6
  <1>2. ASSUME NEW n \in Writes, uart_tx_write_dma(n) PROVE Transfers'
    <2>1. n \in Nat \ {0}
      BY TxAssumption
    <2> QED
      BY <1>2, <2>1 DEF uart_tx_write_dma, dmaVars, TransferTypes, InStep,
         Filled, WriterWaits, NoLateCompletion
  <1>3. CASE write_copy
    <2> DEFINE size == Min({left, TxSize})
               part == [i \in 1 .. size |-> written + i]
    <2>1. /\ writer = "wait" /\ ~enabled /\ tx_buf' = part /\ at' = 0
          /\ written' = written + Len(tx_buf') /\ left' = left - Len(tx_buf')
          /\ writer' = "start" /\ UNCHANGED <<enabled, sent, irq>>
      BY <1>3 DEF write_copy, dmaVars
    <2>2. left \in Nat \ {0} /\ written \in Nat /\ written = Len(sent)
      BY <2>1 DEF TransferTypes, InStep, Filled, WriterWaits
    <2>3. /\ size \in 1 .. left /\ part \in Seq(Nat) /\ Len(part) = size
          /\ \A i \in 1 .. Len(part) : part[i] = written + i
      BY <2>2, Copied
    <2> HIDE DEF size, part
    <2>4. TransferTypes' /\ WriterWaits' /\ NoLateCompletion'
      BY <2>1, <2>2, <2>3 DEF TransferTypes, WriterWaits, NoLateCompletion
    <2>5. InStep'
      <3>1. /\ at' = 0 /\ sent' = sent /\ tx_buf' = part
            /\ written' = Len(sent) + Len(part)
            /\ \A i \in 1 .. Len(part) : part[i] = Len(sent) + i
            /\ Len(part) \in Nat \ {0} /\ Len(sent) \in Nat
        BY <2>1, <2>2, <2>3 DEF TransferTypes
      <3>2. Filled'
        BY <2>1 DEF Filled
      <3> QED BY <3>1, <3>2 DEF InStep
    <2> QED BY <2>4, <2>5
  <1>4. CASE write_start
    <2>1. /\ writer = "start" /\ enabled' = TRUE /\ irq = {} /\ irq' = irq
          /\ writer' = IF left > 0 THEN "wait" ELSE "idle"
          /\ UNCHANGED <<at, tx_buf, written, sent, left>>
      BY <1>4 DEF write_start, NoInterrupt, dmaVars
    <2>2. TransferTypes' /\ WriterWaits' /\ NoLateCompletion'
      BY <2>1 DEF TransferTypes, WriterWaits, NoLateCompletion
    <2>3. Filled /\ Filled'
      BY <2>1 DEF Filled
    <2>4. InStep'
      BY <2>1, <2>3 DEF InStep
    <2> QED BY <2>2, <2>4
  <1>5. CASE dma_irq_uart
    <2>1. UartStream \in irq /\ ~enabled /\ irq' \subseteq irq
      BY <1>5 DEF dma_irq_uart, irq_handler, NoLateCompletion
    <2>2. enabled' = FALSE /\ UNCHANGED <<writer, tx_buf, at, left, written, sent>>
      BY <1>5, <2>1 DEF dma_irq_uart, TransferTypes
    <2> QED
      BY <2>1, <2>2 DEF TransferTypes, InStep, Filled, WriterWaits,
                        NoLateCompletion
  <1>6. ASSUME UNCHANGED uartVars, UartStream \in irq' => UartStream \in irq
        PROVE  Transfers'
    BY <1>6 DEF uartVars, TransferTypes, InStep, Filled, WriterWaits,
                NoLateCompletion
  <1>7. ASSUME NEW u \in Users, configure(u) \/ dma_pulse(u) \/ dma_irq_timer(u)
        PROVE  UNCHANGED uartVars /\ (UartStream \in irq' => UartStream \in irq)
    BY <1>7, StreamsApart DEF configure, dma_pulse, dma_irq_timer, enable_irq,
       complete, irq_handler, dmaVars
  <1>8. CASE \/ init_rest \/ boot_end \/ sch_decim_src_run
             \/ \E t \in Timers : tick(t)
             \/ \E v \in DOMAIN Vector : timer_irqhandler(v)
             \/ \E u \in Users, p \in Pulses : servo_sched_run(u, p)
             \/ UNCHANGED vars
    <2>1. UNCHANGED uartVars /\ (UartStream \in irq' => UartStream \in irq)
      BY <1>8 DEF init_rest, boot_end, sch_decim_src_run, tick,
         timer_irqhandler, servo_sched_run, vars, dmaVars, enable_irq
    <2> QED BY <1>6, <2>1
  <1> QED
    BY <1>1, <1>2, <1>3, <1>4, <1>5, <1>6, <1>7, <1>8 DEF Next, Handlers, Writer

-----------------------------------------------------------------------------
(* Results about the users of timers                                       *)

\* The types of the timers, their users and the streams hold always, and the
\* counter of sch_decim stays within its width.
THEOREM TypeCorrect == Spec => []TypeOK
  <1> DEFINE Types == DmaTypes /\ CounterTypes /\ CounterRuns /\ UserTypes
  <1>1. Init => Types
    <2> SUFFICES ASSUME Init PROVE Types
      OBVIOUS
    <2>1. DmaTypes
      BY DEF Init, DmaInit, DmaTypes
    <2>2. CounterTypes /\ CounterRuns
      BY InitCounter
    <2>3. UserTypes
      BY DEF Init, UserTypes
    <2> QED BY <2>1, <2>2, <2>3
  <1>2. Types /\ [Next]_vars => Types'
    BY DmaTypesKept, CounterKept, UserTypesKept
  <1>3. Types => TypeOK
    BY DEF DmaTypes, CounterTypes, UserTypes, TypeOK
  <1> QED BY <1>1, <1>2, <1>3, PTL DEF Spec

\* uart_tx_write_dma sends what it was given, whole and in order, for every
\* size of the buffer and every mix of writes.
THEOREM TransfersAreWhole == Spec => []TransfersWhole
  <1>1. Init => Transfers
    <2> SUFFICES ASSUME Init PROVE Transfers
      OBVIOUS
    <2>1. /\ writer = "idle" /\ ~enabled /\ at = 0 /\ left = 0
          /\ written = 0 /\ tx_buf = <<>> /\ sent = <<>> /\ irq = {}
      BY DEF Init, DmaInit
    <2>2. enabled \in BOOLEAN
      BY Zenon DEF Init
    <2> QED
      BY <2>1, <2>2 DEF Transfers, TransferTypes, InStep, Filled, WriterWaits,
                        NoLateCompletion
  <1>2. Transfers => TransfersWhole
    <2> SUFFICES ASSUME Transfers PROVE TransfersWhole
      OBVIOUS
    <2>1. /\ sent \in Seq(Nat) /\ \A i \in 1 .. Len(sent) : sent[i] = i
          /\ Len(sent) \in Nat
      BY DEF Transfers, TransferTypes, InStep
    <2>2. sent = [i \in 1 .. Len(sent) |-> i]
      BY <2>1
    <2>3. Len(sent) <= written
      BY <2>1 DEF Transfers, TransferTypes, InStep
    <2> QED
      BY <2>1, <2>2, <2>3 DEF Transfers, InStep, Filled, TransfersWhole
  <1> QED BY <1>1, <1>2, TransfersKept, PTL DEF Spec
=============================================================================
