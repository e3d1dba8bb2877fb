---------------------------- MODULE MCAudioQueue ----------------------------
(* A ring of four slots, packets of up to two frames, blocks of two frames *)
(* and indices modulo eight, so that the indices wrap and the queue        *)
(* becomes full, empty and partly rendered in every alignment.             *)
EXTENDS AudioQueue

CONSTANTS silence, tone
MCFrame == {silence, tone}
MCPrimes == {0, 2}
=============================================================================
