------------------------- MODULE WaveformRecording -------------------------
(***************************************************************************)
(* What the gateware of a waveform recorder promises to its software, with *)
(* no trigger, no FIFO and no bus: the two status bits of its CSR, the     *)
(* count it was armed with, and the words recorded since the arm, which go *)
(* round the ring from its beginning.  Nothing is recorded but between an  *)
(* arm and the end of the acquisition, and FULL is shown only of as many   *)
(* words as were asked for.                                                *)
(* WaveformRecorder implements this specification, and the gateware that   *)
(* WaveformTransfer relies on is one of its implementations too.           *)
(***************************************************************************)
EXTENDS Integers

CONSTANTS
  Capacity,      \* words in the ring
  ArmCounts         \* the counts a recorder may be armed with

VARIABLES
  hwState,       \* the ARM and IS_FULL bits, never both set
  needed,        \* the count latched by the last arm
  written,       \* words recorded since the last arm
  recordings     \* arms that took effect; the number of the present recording

vars == <<hwState, needed, written, recordings>>

Init ==
  /\ hwState = "DISARMED" /\ needed \in Nat
  /\ written = 0 /\ recordings = 0

\* An arm of a recorder that is not armed starts over.
Arm(n) ==
  /\ hwState # "ARMED" /\ hwState' = "ARMED"
  /\ needed' = n /\ written' = 0 /\ recordings' = recordings + 1

Record ==
  /\ hwState = "ARMED" /\ written' = written + 1
  /\ UNCHANGED <<hwState, needed, recordings>>

Fill ==
  /\ hwState = "ARMED" /\ written >= needed /\ hwState' = "FULL"
  /\ UNCHANGED <<needed, written, recordings>>

\* A command or a failed burst ends the acquisition, or FULL is cleared; one
\* more word may come at the very same time.
Stop ==
  /\ hwState # "DISARMED" /\ hwState' = "DISARMED"
  /\ written' \in {written} \cup (IF hwState = "ARMED" THEN {written + 1} ELSE {})
  /\ UNCHANGED <<needed, recordings>>

Next == (\E n \in ArmCounts : Arm(n)) \/ Record \/ Fill \/ Stop
Spec == Init /\ [][Next]_vars

-----------------------------------------------------------------------------
(* How the ring is read.                                                   *)

NextAddress == written % Capacity

\* A ring holds the latest words: word k, until Capacity more have come, at
\* the address it was recorded to.
HeldBy(ring) ==
  \A k \in 0..(written - 1) :
    written <= k + Capacity => ring[k % Capacity] = <<recordings, k>>
=============================================================================
