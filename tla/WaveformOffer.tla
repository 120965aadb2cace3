--------------------------- MODULE WaveformOffer ---------------------------
(***************************************************************************)
(* What a waveform recorder promises its client, with no network, no       *)
(* retries and no buffer: waveforms are offered one at a time, each under  *)
(* a number larger than every number offered before, and the blocks of the *)
(* current offer are sent from block 0 upwards, one by one, until the      *)
(* offer is over (completed, withdrawn or abandoned).                      *)
(* WaveformTransfer implements this specification.                         *)
(***************************************************************************)
EXTENDS Integers

CONSTANT FirstNumber     \* the waveform number a recorder starts from

VARIABLES number,        \* the number of the latest offer
          block          \* NoOffer, HeaderSent, or the block being sent
vars == <<number, block>>

NoOffer    == -2
HeaderSent == -1

Init == number = FirstNumber /\ block = NoOffer

\* A completed acquisition is announced under a fresh number.
Offer ==
  /\ block = NoOffer
  /\ block' = HeaderSent
  /\ number' \in Nat /\ number' > number

\* The next block of the current offer goes out, none left out.
SendNext ==
  /\ block # NoOffer
  /\ block' = block + 1
  /\ UNCHANGED number

\* The offer ends: all blocks sent, a new arm, or too many retries.
Close ==
  /\ block # NoOffer
  /\ block' = NoOffer
  /\ UNCHANGED number

Next == Offer \/ SendNext \/ Close
Spec == Init /\ [][Next]_vars
=============================================================================
