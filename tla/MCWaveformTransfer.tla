------------------------- MODULE MCWaveformTransfer -------------------------
(***************************************************************************)
(* Model checking of WaveformTransfer: small rings and counts, and the     *)
(* settings of the runs.                                                   *)
(***************************************************************************)
EXTENDS WaveformTransfer

SomeCounts == {2, 5}     \* one block, and three with a short last one

\* A network that does everything, with commands at any time.
Hostile ==
  [duplicating |-> TRUE, prompt |-> FALSE, allocFails |-> TRUE,
   inFlight |-> 1, words |-> 6, arms |-> 2, sets |-> 1]

\* One that loses and reorders only, and one that does neither.
Reordering ==
  [duplicating |-> FALSE, prompt |-> FALSE, allocFails |-> TRUE,
   inFlight |-> 2, words |-> 6, arms |-> 2, sets |-> 0]
Sound ==
  [duplicating |-> FALSE, prompt |-> TRUE, allocFails |-> FALSE,
   inFlight |-> 2, words |-> 6, arms |-> 2, sets |-> 1]

AllSettings == {Hostile, Reordering, Sound}
OneReordering == {[Reordering EXCEPT !.allocFails = FALSE]}
=============================================================================
