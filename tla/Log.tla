---------------------------------- MODULE Log ----------------------------------
(***************************************************************************)
(* core/log.c: any task puts a line into a bounded queue; log_task takes   *)
(* the lines one by one and calls every registered handler with each.      *)
(* Registration links a handler in front of the list with the RTOS         *)
(* scheduler suspended, so it is one step, but log_task may be in the      *)
(* middle of a walk.                                                       *)
(*                                                                         *)
(* Line n is the n-th line printed; its text and its tick are left out.    *)
(* The handlers belong to other modules, which say what happens between    *)
(* log_call and log_return.                                                *)
(***************************************************************************)
EXTENDS Naturals, Sequences, SequencesExt

CONSTANTS
  Handlers,        \* the handlers modules register
  LOG_QUEUE_LEN,
  MaxLines         \* bound: lines printed in all

ASSUME LogAssumption == LOG_QUEUE_LEN \in Nat \ {0} /\ MaxLines \in Nat

VARIABLES
  log_queue,       \* lines not yet taken by log_task
  log_handlers,    \* the list of handlers, as a sequence
  printed,         \* lines printed so far
  lpc,             \* where log_task is
  line,            \* its log_line
  handler          \* its handler pointer: the rest of the list it walks

logVars == <<log_queue, log_handlers, printed, lpc, line, handler>>

\* Every variable of the log keeps its type, and the queue its length.
LogTypeOK ==
  /\ log_queue \in Seq(1 .. MaxLines) /\ Len(log_queue) <= LOG_QUEUE_LEN
  /\ log_handlers \in Seq(Handlers) /\ handler \in Seq(Handlers)
  /\ printed \in 0 .. MaxLines /\ line \in 0 .. MaxLines
  /\ lpc \in {"receive", "walk", "handler"}

LogInit ==
  /\ log_queue = << >> /\ log_handlers = << >> /\ handler = << >>
  /\ printed = 0 /\ line = 0
  /\ lpc = "receive"

\* log_println, or log_finish_line: with the queue full the caller waits.
log_println ==
  /\ printed < MaxLines
  /\ Len(log_queue) < LOG_QUEUE_LEN
  /\ printed' = printed + 1
  /\ log_queue' = Append(log_queue, printed + 1)
  /\ UNCHANGED <<log_handlers, lpc, line, handler>>

\* Mutant of log_register: the list loses its other handlers.
register_alone(h) == log_handlers' = <<h>>

\* log_register, by a module that registers once.
log_register(h) ==
  log_handlers' = <<h>> \o log_handlers

Registered(h) == h \in Range(log_handlers)

log_receive ==
  /\ lpc = "receive" /\ log_queue # << >>
  /\ line' = Head(log_queue) /\ log_queue' = Tail(log_queue)
  /\ handler' = log_handlers
  /\ lpc' = "walk"
  /\ UNCHANGED <<log_handlers, printed>>

log_call ==
  /\ lpc = "walk" /\ handler # << >>
  /\ lpc' = "handler"
  /\ UNCHANGED <<log_queue, log_handlers, printed, line, handler>>

\* The handler returns and the walk goes on.
log_return ==
  /\ lpc = "handler"
  /\ handler' = Tail(handler)
  /\ lpc' = "walk"
  /\ UNCHANGED <<log_queue, log_handlers, printed, line>>

log_end ==
  /\ lpc = "walk" /\ handler = << >>
  /\ lpc' = "receive" /\ line' = 0
  /\ UNCHANGED <<log_queue, log_handlers, printed, handler>>

================================================================================
