-------------------------------- MODULE MCLib --------------------------------
(***************************************************************************)
(* Bounded inputs for Lib, and Systime beside it: the library's loops and  *)
(* the clock share no variable, so a behaviour is one of the part it       *)
(* chooses first.                                                          *)
(***************************************************************************)
EXTENDS Lib, Systime

VARIABLE part  \* "lib" or "clock"

MCVars == <<vars, stVars, part>>

MCInit == Init /\ StInit /\ part \in {"lib", "clock"}

MCNext ==
  /\ \/ part = "lib" /\ Next /\ UNCHANGED stVars
     \/ part = "clock" /\ StNext /\ UNCHANGED vars
  /\ UNCHANGED part

MCSpec == MCInit /\ [][MCNext]_MCVars

MCWords == {<<>>, <<"a">>, <<" ">>, <<"a", "a">>, <<"a", " ", "a">>}

\* Two commands to the card, GO_IDLE_STATE and SEND_IF_COND; packets of two
\* bytes stand for longer ones.
MCMessages == [crc16 |-> {<<0, 0>>, <<1, 254>>},
               crc7 |-> {<<64, 0, 0, 0, 0>>, <<72, 0, 0, 1, 170>>}]
MCMaxFlips == [crc16 |-> 3, crc7 |-> 2]
=============================================================================
