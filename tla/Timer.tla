-------------------------------- MODULE Timer --------------------------------
(***************************************************************************)
(* What runs from timer interrupts once the system is configured:          *)
(* platform/stm32/peripheral/timer.c with its users rc_io/servo.c and      *)
(* scheduler/sch_timer.c, the client scheduler/sch_decim.c of the          *)
(* scheduler sch_timer triggers, and a serial port that transmits by DMA   *)
(* (uart_tx_write_dma) on a stream next to that of a timer channel.        *)
(*                                                                         *)
(* A user is a module that configured a channel: Uses gives its timer,     *)
(* channel, stream (NoStream for none), whether it has a pin, and kind.    *)
(* Interrupt handlers run to their end, and no task runs while an enabled  *)
(* interrupt is pending.  Events come in bursts: they may be simultaneous, *)
(* but the handlers of a burst end before the next one (microseconds, to   *)
(* periods of a millisecond and more).                                     *)
(***************************************************************************)
EXTENDS Dma, Sequences, SequencesExt

CONSTANTS
  Users, Uses,
  Timers, Chans,
  Vector,     \* the timers each interrupt vector serves, in order
  Configs,    \* pairs of clock_hz and period_ticks
  ServoConfig, \* that of every servo; that of sch_timer is an argument
  Pulses,     \* values of raw_value
  UartStream, NoStream,
  TxSize,     \* tx_buf_size
  Writes,     \* lengths of the buffers written
  Factors,    \* decimation_factor
  CountMod,   \* values of current_counter (2^32)
  MaxNew,     \* bound: new values of the servos
  MaxBytes,   \* bound: bytes written
  NULL

ASSUME UsesAssumption ==
  Uses \in [Users -> [timer : Timers, chan : Chans, stream : Streams \cup {NoStream},
                      pin : BOOLEAN, kind : {"servo", "sched"}]]
ASSUME TxAssumption ==
  /\ TxSize \in Nat \ {0} /\ Writes \subseteq Nat \ {0}
  /\ UartStream \in Streams
\* A stream is a resource that is allocated once: no channel has that of the
\* serial port.
ASSUME StreamsApart == \A u \in Users : Uses[u].stream # UartStream
\* decimation_factor and current_counter are of the same integer type.
ASSUME FactorAssumption ==
  /\ CountMod \in Nat \ {0}
  /\ Factors \subseteq -(CountMod \div 2) .. (CountMod - 1 - CountMod \div 2)
ASSUME PulseAssumption == Pulses # {}

VARIABLES
  want,            \* what each user asks for
  phase,           \* main_task: "boot", "run", "halted"
  ready,           \* users whose interface is configured
  initing,         \* the user whose init goes on, or NULL
  main_block,      \* timer_t: NULL while reg is NULL
  no_dma_channel,
  update,          \* timers with their update flag set
  update_it,       \* timers with their update interrupt enabled
  serving,         \* handlers work off a burst
  pulses, compare, \* the DMA buffer of a user, the compare register of its channel
  raw_value,       \* servo_t
  news,            \* history: values computed
  pending,         \* the notification of the scheduler sch_timer triggers
  factor, current_counter, since, fired, \* sch_decim; runs since it fired last
  writer, tx_buf, enabled, at,   \* uart_tx_write_dma, the buffer and the stream
  left, written, sent            \* bytes to write; history

timerVars == <<main_block, no_dma_channel, update, update_it, pulses, compare>>
schedVars == <<pending, factor, current_counter, since, fired>>
uartVars == <<writer, tx_buf, enabled, at, left, written, sent>>
bootVars == <<want, phase, ready, initing>>
vars == <<bootVars, timerVars, serving, raw_value, news, schedVars, uartVars, dmaVars>>

Raised(v) == ToSet(Vector[v]) \cap update \cap update_it # {}

NoInterrupt == irq = {} /\ \A v \in DOMAIN Vector : ~Raised(v)

Dmas(u) == Uses[u].stream # NoStream /\ Uses[u].pin

Init ==
  /\ DmaInit
  /\ want \in {w \in [Users -> Configs] :
                 \A u \in Users : Uses[u].kind = "servo" => w[u] = ServoConfig}
  /\ phase = "boot" /\ ready = {} /\ initing = NULL
  /\ main_block = [t \in Timers |-> NULL]
  /\ no_dma_channel = [t \in Timers |-> [c \in Chans |-> NULL]]
  /\ update = {} /\ update_it = {} /\ serving = FALSE
  /\ pulses = [u \in Users |-> 0] /\ compare = [u \in Users |-> 0]
  /\ raw_value = [u \in Users |-> 0] /\ news = 0
  /\ pending = FALSE
  /\ factor \in Factors /\ current_counter = factor /\ since = 0 /\ fired = FALSE
  /\ writer = "idle" /\ tx_buf = <<>> /\ enabled = FALSE /\ at = 0
  /\ left = 0 /\ written = 0 /\ sent = <<>>

-----------------------------------------------------------------------------
(* Configuration                                                           *)

Center == CHOOSE p \in Pulses : TRUE

Agrees(t, cf) == main_block[t] \in {NULL, cf}

\* timer_init, and timer_configure as servo_init or sch_timer_init calls it.
\* The first user of a timer sets its main block.
configure(u) ==
  LET t == Uses[u].timer IN
  /\ phase = "boot" /\ initing = NULL /\ u \notin ready /\ NoInterrupt
  /\ IF ~Agrees(t, want[u])
     THEN /\ phase' = "halted"
          /\ UNCHANGED <<ready, initing, timerVars, dmaVars>>
     ELSE /\ main_block' = [main_block EXCEPT ![t] = IF @ = NULL THEN want[u] ELSE @]
          /\ pulses' = [pulses EXCEPT ![u] = 0]
          /\ compare' = [compare EXCEPT ![u] = 0]
          /\ IF Dmas(u)
             THEN /\ enable_irq(Uses[u].stream)
                  /\ UNCHANGED <<no_dma_channel, update_it>>
             ELSE /\ update_it' = update_it \cup {t}
                  /\ no_dma_channel' = [no_dma_channel EXCEPT ![t][Uses[u].chan] = u]
                  /\ UNCHANGED dmaVars
          /\ ready' = ready \cup {u}
          /\ initing' = u
          /\ UNCHANGED <<update, phase>>
  /\ UNCHANGED <<want, serving, raw_value, news, schedVars, uartVars>>

\* The rest of the init: servo_init sets the value after the interrupt that
\* reads it is enabled.
init_rest ==
  /\ initing # NULL /\ NoInterrupt
  /\ initing' = NULL
  /\ raw_value' = [raw_value EXCEPT ![initing] =
                     IF Uses[initing].kind = "servo" THEN Center ELSE 0]
  /\ UNCHANGED <<want, phase, ready, timerVars, serving, news, schedVars, uartVars,
                 dmaVars>>

\* uart_configure enables the interrupt of its stream; boot ends.
boot_end ==
  /\ phase = "boot" /\ ready = Users /\ initing = NULL /\ NoInterrupt
  /\ phase' = "run"
  /\ enable_irq(UartStream)
  /\ UNCHANGED <<want, ready, initing, timerVars, serving, raw_value, news, schedVars,
                 uartVars>>

-----------------------------------------------------------------------------
(* Hardware                                                                *)

\* A period of timer t ends.
tick(t) ==
  /\ main_block[t] # NULL /\ t \notin update /\ ~serving
  /\ update' = update \cup {t}
  /\ UNCHANGED <<bootVars, main_block, no_dma_channel, update_it, pulses, compare,
                 serving, raw_value, news, schedVars, uartVars, dmaVars>>

\* A circular stream moves the buffer's one value to the compare register.
dma_pulse(u) ==
  /\ u \in ready /\ Dmas(u) /\ Uses[u].stream \notin irq /\ ~serving
  /\ compare' = [compare EXCEPT ![u] = pulses[u]]
  /\ complete(Uses[u].stream)
  /\ UNCHANGED <<bootVars, main_block, no_dma_channel, update, update_it, pulses,
                 serving, raw_value, news, schedVars, uartVars>>

\* The stream of the serial port moves a byte, and is disabled with the last.
dma_byte ==
  /\ enabled /\ ~serving
  /\ sent' = Append(sent, tx_buf[at + 1])
  /\ at' = at + 1
  /\ IF at' = Len(tx_buf)
     THEN enabled' = FALSE /\ complete(UartStream)
     ELSE UNCHANGED <<enabled, dmaVars>>
  /\ UNCHANGED <<bootVars, timerVars, serving, raw_value, news, schedVars, writer, tx_buf,
                 left, written>>

-----------------------------------------------------------------------------
(* Interrupt handlers                                                      *)

\* Mutant of Listed: only the first channel is served.
listed_first(t) == {no_dma_channel[t][1]} \ {NULL}

\* The users whose callback timer_irqhandler calls for timer t.
Listed(t) == {no_dma_channel[t][c] : c \in Chans} \ {NULL}

\* Mutant of Served: a vector serves only the first of its timers.
served_first(v) == {t \in {Vector[v][1]} : t \in update}

\* The timers of a vector with their update flag set.  (For one that is not
\* in use the code reads the flag through a NULL register pointer; it is
\* taken as clear.)
Served(v) == {t \in ToSet(Vector[v]) : t \in update /\ main_block[t] # NULL}

\* The handler of a vector: servo_new_values and sch_timer_trigger.
timer_irqhandler(v) ==
  LET called == UNION {Listed(t) : t \in Served(v)} IN
  /\ Raised(v)
  /\ update' = update \ Served(v)
  /\ compare' = [u \in Users |-> IF u \in called THEN raw_value[u] ELSE compare[u]]
  /\ pending' = (pending \/ \E u \in called : Uses[u].kind = "sched")
  /\ UNCHANGED <<bootVars, main_block, no_dma_channel, update_it, pulses, raw_value,
                 news, factor, current_counter, since, fired, uartVars, dmaVars>>
  /\ serving' = ~NoInterrupt'

\* timer_update_values_cb
dma_irq_timer(u) ==
  /\ Dmas(u)
  /\ irq_handler(Uses[u].stream)
  /\ pulses' = [pulses EXCEPT ![u] = IF Called(Uses[u].stream) THEN raw_value[u] ELSE @]
  /\ UNCHANGED <<bootVars, main_block, no_dma_channel, update, update_it, compare,
                 raw_value, news, schedVars, uartVars>>
  /\ serving' = ~NoInterrupt'

\* uart_tx_tc_irq
dma_irq_uart ==
  /\ irq_handler(UartStream)
  /\ enabled' = IF Called(UartStream) THEN FALSE ELSE enabled
  /\ UNCHANGED <<bootVars, timerVars, raw_value, news, schedVars, writer, tx_buf, at,
                 left, written, sent>>
  /\ serving' = ~NoInterrupt'

-----------------------------------------------------------------------------
(* Tasks                                                                   *)

\* servo_sched_run: a scheduler's task computes a new value.
servo_sched_run(u, p) ==
  /\ phase = "run" /\ NoInterrupt
  /\ Uses[u].kind = "servo" /\ news < MaxNew
  /\ raw_value' = [raw_value EXCEPT ![u] = p]
  /\ news' = news + 1
  /\ UNCHANGED <<bootVars, timerVars, serving, schedVars, uartVars, dmaVars>>

Wrap(n) == ((n + CountMod \div 2) % CountMod) - CountMod \div 2

\* Mutant of Reload: one run less than the factor.
reload_less == factor - 1

Reload == factor

\* A pass of the scheduler that sch_timer triggers: sch_decim_src_run.
sch_decim_src_run ==
  LET n == Wrap(current_counter - 1) IN
  /\ phase = "run" /\ NoInterrupt
  /\ pending
  /\ pending' = FALSE
  /\ fired' = (n = 0)
  /\ current_counter' = IF n = 0 THEN Reload ELSE n
  /\ since' = IF fired THEN 1 ELSE IF since < CountMod THEN since + 1 ELSE since
  /\ UNCHANGED <<bootVars, timerVars, serving, raw_value, news, factor, uartVars, dmaVars>>

uart_tx_write_dma(n) ==
  /\ phase = "run" /\ NoInterrupt
  /\ writer = "idle" /\ written + n <= MaxBytes
  /\ left' = n
  /\ writer' = "wait"
  /\ UNCHANGED <<bootVars, timerVars, serving, raw_value, news, schedVars, tx_buf, enabled, at,
                 written, sent, dmaVars>>

\* Mutant of write_copy: the writer does not wait for the stream.
write_copy_early ==
  /\ writer = "wait" /\ NoInterrupt
  /\ tx_buf' = [i \in 1 .. Min({left, TxSize}) |-> written + i]
  /\ at' = 0
  /\ written' = written + Len(tx_buf')
  /\ left' = left - Len(tx_buf')
  /\ writer' = "start"
  /\ UNCHANGED <<bootVars, timerVars, serving, raw_value, news, schedVars, enabled, sent,
                 dmaVars>>

\* The loop that waits for the stream, then memcpy and the length.
write_copy ==
  /\ writer = "wait" /\ NoInterrupt
  /\ ~enabled
  /\ tx_buf' = [i \in 1 .. Min({left, TxSize}) |-> written + i]
  /\ at' = 0
  /\ written' = written + Len(tx_buf')
  /\ left' = left - Len(tx_buf')
  /\ writer' = "start"
  /\ UNCHANGED <<bootVars, timerVars, serving, raw_value, news, schedVars, enabled, sent,
                 dmaVars>>

\* Mutant of write_start: only the first part of a buffer is written.
write_start_once ==
  /\ writer = "start" /\ NoInterrupt
  /\ enabled' = TRUE
  /\ writer' = "idle"
  /\ UNCHANGED <<bootVars, timerVars, serving, raw_value, news, schedVars, tx_buf, at, left,
                 written, sent, dmaVars>>

write_start ==
  /\ writer = "start" /\ NoInterrupt
  /\ enabled' = TRUE
  /\ writer' = IF left > 0 THEN "wait" ELSE "idle"
  /\ UNCHANGED <<bootVars, timerVars, serving, raw_value, news, schedVars, tx_buf, at, left,
                 written, sent, dmaVars>>

Handlers ==
  \/ \E v \in DOMAIN Vector : timer_irqhandler(v)
  \/ \E u \in Users : dma_irq_timer(u)
  \/ dma_irq_uart

Writer == write_copy \/ write_start

Next ==
  \/ \E u \in Users : configure(u) \/ dma_pulse(u)
  \/ init_rest
  \/ boot_end
  \/ \E t \in Timers : tick(t)
  \/ dma_byte
  \/ Handlers
  \/ \E u \in Users, p \in Pulses : servo_sched_run(u, p)
  \/ sch_decim_src_run
  \/ \E n \in Writes : uart_tx_write_dma(n)
  \/ Writer

Spec == Init /\ [][Next]_vars

\* Timers and streams run, interrupts are taken, and the tasks are scheduled
\* between them, however often the interrupts come.
FairSpec ==
  /\ Spec
  /\ \A t \in Timers : SF_vars(tick(t))
  /\ \A u \in {w \in Users : Dmas(w)} : SF_vars(dma_pulse(u))
  /\ SF_vars(dma_byte)
  /\ WF_vars(Handlers)
  /\ SF_vars(sch_decim_src_run) /\ SF_vars(Writer)

-----------------------------------------------------------------------------
(* Properties                                                              *)

\* Every variable keeps its type; the counter stays within its width.
TypeOK ==
  /\ ready \subseteq Users
  /\ main_block \in [Timers -> Configs \cup {NULL}]
  /\ update \subseteq Timers /\ update_it \subseteq Timers
  /\ pulses \in [Users -> Pulses \cup {0}] /\ compare \in [Users -> Pulses \cup {0}]
  /\ current_counter \in -(CountMod \div 2) .. (CountMod - 1 - CountMod \div 2)
  /\ tc_flag \subseteq Streams /\ irq \subseteq callback

\* uart_tx_write_dma: what the stream has moved are the first of the bytes
\* written, in their order, and a stream that is found disabled has moved all
\* it was given: the buffer is not overwritten while the stream reads it, and
\* uart_tx_tc_irq does not disable the transfer that comes after the one it
\* was raised for.
TransfersWhole ==
  /\ sent = [i \in 1 .. Len(sent) |-> i] /\ Len(sent) <= written
  /\ ~enabled /\ writer # "start" => Len(sent) = written

\* uart_tx_write_dma: in the end every byte written has gone out, once and in
\* order.
AllSent ==
  <>[](phase = "run" => /\ left = 0 /\ writer = "idle"
                        /\ sent = [i \in 1 .. written |-> i])

\* When its value no longer changes, the pulse of a servo becomes that value,
\* with and without DMA, on whichever timer of a shared vector.
PulseFollowsServo ==
  <>[](phase = "run" =>
         \A u \in Users : Uses[u].kind = "servo" => compare[u] = raw_value[u])

\* sch_decim: a factor of one or more fires at every run that completes it, and
\* at no other.
DecimationExact == factor >= 1 => (fired <=> since = factor)

\* sch_decim goes on triggering the next scheduler; also with a factor below
\* one, if only after the counter has wrapped around.
Decimates == phase = "run" ~> fired

\* Users that share timers, a vector and the streams' flags do not keep each
\* other from getting done.
AllServed == AllSent /\ PulseFollowsServo /\ Decimates
=============================================================================
