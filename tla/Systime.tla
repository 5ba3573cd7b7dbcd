------------------------------- MODULE Systime -------------------------------
(***************************************************************************)
(* platform/stm32f4xx/systime.c (stm32f7xx/systime.c is the same): a 32    *)
(* bit microsecond clock made of the 16 bit counter TIM7 and of            *)
(* systime_high, which the overflow interrupt advances.                    *)
(* systime_get_runtime reads the two parts separately and retries when the *)
(* high part changed meanwhile.  The time wraps around after 71 minutes.   *)
(*                                                                         *)
(* A time is the pair <<high, low>>; high counts units of 0x10000, so that *)
(* "low_bits | high_bits" is that pair.                                    *)
(***************************************************************************)
EXTENDS Integers

CONSTANTS
  W,  \* values of the hardware counter (0x10000)
  H   \* values of the high part (0x10000)

ASSUME WAssumption == W \in Nat \ {0}
ASSUME HAssumption == H \in Nat \ {0, 1}

VARIABLES
  cnt, epoch,       \* TIM7's counter, and how often it has overflowed (mod H)
  uif,              \* TIM7's UPDATE flag: the interrupt is pending
  systime_high,
  pc, high_bits, low_bits,  \* systime_get_runtime and its locals
  overflows,        \* history: those handled since high_bits was read
  seen              \* history: the true times since the call began

stVars == <<cnt, epoch, uif, systime_high, pc, high_bits, low_bits,
            overflows, seen>>

\* Between the read of the high part and the test that it is unchanged.
InPass == pc \in {"low", "check"}

Inc(h) == IF h = H - 1 THEN 0 ELSE h + 1

\* LL_TIM_Init itself generates an update event; it is handled before main
\* goes on and only shifts the origin of time.
StInit ==
  /\ cnt = 0 /\ epoch = 0
  /\ uif = FALSE
  /\ systime_high = 0
  /\ pc = "idle" /\ high_bits = 0 /\ low_bits = 0
  /\ overflows = 0
  /\ seen = {}

\* A microsecond passes.  The interrupt has priority 0 and takes far less
\* than W ticks, so the counter never overflows again before it was handled;
\* and no pass of the reader's loop lasts H overflows (71 minutes).
Tick ==
  /\ cnt = W - 1 => ~uif /\ (InPass => overflows < H - 1)
  /\ cnt' = IF cnt = W - 1 THEN 0 ELSE cnt + 1
  /\ epoch' = IF cnt = W - 1 THEN Inc(epoch) ELSE epoch
  /\ uif' = (uif \/ cnt = W - 1)
  /\ seen' = seen \cup {<<epoch', cnt'>>}
  /\ UNCHANGED <<systime_high, pc, high_bits, low_bits, overflows>>

TIM7_IRQHandler ==
  /\ uif
  /\ uif' = FALSE
  /\ systime_high' = Inc(systime_high)
  /\ overflows' = IF InPass THEN overflows + 1 ELSE 0
  /\ UNCHANGED <<cnt, epoch, pc, high_bits, low_bits, seen>>

-----------------------------------------------------------------------------
(* systime_get_runtime.  While the interrupt is pending no reader runs:    *)
(* nothing masks or outranks it.                                           *)

systime_get_runtime ==
  /\ ~uif
  /\ pc = "idle"
  /\ pc' = "high"
  /\ seen' = {<<epoch, cnt>>}
  /\ UNCHANGED <<cnt, epoch, uif, systime_high, high_bits, low_bits, overflows>>

read_high ==
  /\ ~uif
  /\ pc = "high"
  /\ high_bits' = systime_high
  /\ overflows' = 0
  /\ pc' = "low"
  /\ UNCHANGED <<cnt, epoch, uif, systime_high, low_bits, seen>>

read_low ==
  /\ ~uif
  /\ pc = "low"
  /\ low_bits' = cnt
  /\ pc' = "check"
  /\ UNCHANGED <<cnt, epoch, uif, systime_high, high_bits, overflows, seen>>

\* Mutant of read_check: no retry.
read_check_once ==
  /\ ~uif
  /\ pc = "check"
  /\ pc' = "return"
  /\ overflows' = 0
  /\ UNCHANGED <<cnt, epoch, uif, systime_high, high_bits, low_bits, seen>>

read_check ==
  /\ ~uif
  /\ pc = "check"
  /\ pc' = IF systime_high # high_bits THEN "high" ELSE "return"
  /\ overflows' = 0
  /\ UNCHANGED <<cnt, epoch, uif, systime_high, high_bits, low_bits, seen>>

read_return ==
  /\ ~uif
  /\ pc = "return"
  /\ pc' = "idle"
  /\ UNCHANGED <<cnt, epoch, uif, systime_high, high_bits, low_bits, overflows,
                 seen>>

-----------------------------------------------------------------------------
StNext ==
  \/ Tick \/ TIM7_IRQHandler
  \/ systime_get_runtime \/ read_high \/ read_low \/ read_check \/ read_return

StSpec == StInit /\ [][StNext]_stVars

-----------------------------------------------------------------------------
(* Properties                                                              *)

Times == (0 .. (H - 1)) \X (0 .. (W - 1))

\* Every variable keeps its type.
StTypeOK ==
  /\ cnt \in 0 .. (W - 1)
  /\ epoch \in 0 .. (H - 1)
  /\ uif \in BOOLEAN
  /\ systime_high \in 0 .. (H - 1)
  /\ pc \in {"idle", "high", "low", "check", "return"}
  /\ high_bits \in 0 .. (H - 1)
  /\ low_bits \in 0 .. (W - 1)
  /\ overflows \in 0 .. (H - 1)
  /\ seen \subseteq Times

\* "if overflow while reading, the high bits should have changed. Then
\* retry": the time returned is one the clock really had during the call, never
\* the high part of one overflow with the low part of another.  (The clock
\* starts again at zero when the high part wraps, after W * H microseconds:
\* 2^32, or 71 minutes, where systime.h:42 says "wraps around after ~25 days".)
ReturnsTimeOfCall == pc = "return" => <<high_bits, low_bits>> \in seen

-----------------------------------------------------------------------------
(* The inductive invariant                                                 *)

\* h advanced by d < H overflows.
Advance(h, d) == IF h + d < H THEN h + d ELSE h + d - H

\* The high part is behind the counter exactly while the interrupt pends.
HighFollows == epoch = IF uif THEN Inc(systime_high) ELSE systime_high

\* The present is part of the call.
NowSeen == pc # "idle" => <<epoch, cnt>> \in seen

\* Overflows of one pass never bring the high part back to where it was.
PassCounts ==
  /\ InPass => systime_high = Advance(high_bits, overflows)
  /\ InPass /\ uif => overflows < H - 1

LowBelongs == pc = "check" /\ overflows = 0 => <<high_bits, low_bits>> \in seen

StIInv ==
  /\ StTypeOK /\ HighFollows /\ NowSeen /\ PassCounts /\ LowBelongs
  /\ ReturnsTimeOfCall
=============================================================================
