-------------------------- MODULE MCWaveformRecorder --------------------------
(***************************************************************************)
(* Constants for model-checking WaveformRecorder.                          *)
(***************************************************************************)
EXTENDS WaveformRecorder

\* No pretrigger samples, some, and more of them than the window holds.
SomeRequests == {[pretrig |-> 0, count |-> 2], [pretrig |-> 1, count |-> 3],
                 [pretrig |-> 3, count |-> 2]}

=============================================================================
