------------------------ MODULE WaveformRecorderProofs ------------------------
(***************************************************************************)
(* Proofs about WaveformRecorder for every ring, burst length and FIFO:    *)
(* its registers keep their widths, no burst runs past the end of the      *)
(* ring, a sample the FIFO refused shows in OVERRUN, and a full recorder   *)
(* holds the window that was asked for.                                    *)
(***************************************************************************)
EXTENDS WaveformRecorder, Remainders, SequenceTheorems, TLAPS

-----------------------------------------------------------------------------
(* Type correctness, one group of registers at a time.                     *)

ArmTypes == acqPreArmed \in Bit /\ acqPreArmed_d \in Bit /\ acqArmed \in Bit
StatusTypes == full \in Bit /\ overrun \in Bit /\ csrBRESP \in {"okay", "error"}
CountTypes ==
  /\ acqPretrigLeft \in 0..ACQ_CAPACITY /\ acqLeft \in 0..ACQ_CAPACITY
  /\ acqWhenTriggered \in Nat /\ triggerFlag \in Bit /\ triggered \in Bit
FifoTypes ==
  /\ fifo \in Seq(Word) /\ Len(fifo) <= FIFO_CAPACITY
  /\ fifoRst \in Bit /\ fifoOut \in Word
AxiTypes ==
  /\ state \in {"WAIT", "ADDR", "DATA", "ACK", "PAUSE"}
  /\ beatCount \in 0..(MULTI_BEAT_LENGTH - 1)
  /\ pauseCount \in 0..PauseCycles
AddressTypes ==
  writeAddr \in 0..(ACQ_CAPACITY - 1) /\ busAddr \in 0..(ACQ_CAPACITY - 1)
HistoryTypes ==
  /\ request \in [pretrig : 0..ACQ_CAPACITY, count : 1..ACQ_CAPACITY]
  /\ samples \in Nat /\ lost \in Bit /\ failed \in {"no", "armed", "late"}
  /\ arms \in Nat

\* The groups together are TypeOK.
LEMMA TypeGroups ==
  TypeOK <=> /\ ArmTypes /\ StatusTypes /\ CountTypes /\ FifoTypes /\ AxiTypes
             /\ AddressTypes /\ HistoryTypes
             /\ memory \in [0..(ACQ_CAPACITY - 1) -> Word]
  BY DEF TypeOK, ArmTypes, StatusTypes, CountTypes, FifoTypes, AxiTypes,
         AddressTypes, HistoryTypes

\* What an arm finds in the registers is one of the requests.
LEMMA RegistersHoldRequests ==
  ASSUME RecorderAssumption
  PROVE  Next => \E in \in Inputs, with \in Requests : Clock(in, with)
<1>1. (CHOOSE r \in Requests : TRUE) \in Requests
  BY DEF RecorderAssumption
<1> QED BY <1>1 DEF Next, Registers

\* Less stays within its bound and takes one from anything but zero.
LEMMA LessFacts ==
  ASSUME NEW n \in Nat
  PROVE  /\ Less(n) \in Nat /\ Less(n) <= n
         /\ n # 0 => Less(n) = n - 1
  BY DEF Less

\* An address and its successor in the ring.
LEMMA NextAddress ==
  ASSUME RecorderAssumption, NEW a \in 0..(ACQ_CAPACITY - 1)
  PROVE  /\ (a + 1) % ACQ_CAPACITY \in 0..(ACQ_CAPACITY - 1)
         /\ a + 1 < ACQ_CAPACITY => (a + 1) % ACQ_CAPACITY = a + 1
  <1>1. ACQ_CAPACITY \in Nat \ {0}
    BY DEF RecorderAssumption
  <1>2. (a + 1) % ACQ_CAPACITY \in 0..(ACQ_CAPACITY - 1)
    BY <1>1
  <1>3. a + 1 < ACQ_CAPACITY => (a + 1) % ACQ_CAPACITY = a + 1
    BY <1>1
  <1>. QED
    BY <1>2, <1>3

\* The power-up values are of their types.
LEMMA InitTypes == RecorderAssumption /\ Init => TypeOK
  <1>. SUFFICES ASSUME RecorderAssumption, Init  PROVE TypeOK
    OBVIOUS
  <1>1. 0 \in 0..ACQ_CAPACITY /\ 0 \in 0..(MULTI_BEAT_LENGTH - 1)
        /\ 0 \in 0..PauseCycles /\ 0 \in 0..(ACQ_CAPACITY - 1)
        /\ 1 \in 1..ACQ_CAPACITY /\ 0 <= FIFO_CAPACITY
    BY DEF RecorderAssumption
  <1>2. <<0, 0>> \in Word
    BY DEF Word
  <1>3. memory \in [0..(ACQ_CAPACITY - 1) -> Word]
    BY <1>2 DEF Init
  <1>4. fifo \in Seq(Word) /\ Len(fifo) <= FIFO_CAPACITY
    BY <1>1, EmptySeq DEF Init
  <1>. QED
    BY <1>1, <1>2, <1>3, <1>4 DEF Init, TypeOK, Bit

\* A cycle keeps every register within its type.
LEMMA ClockTypes ==
  ASSUME RecorderAssumption, TypeOK,
         NEW in \in Inputs, NEW with \in Requests, Clock(in, with)
  PROVE  TypeOK'
  <1>. USE TypeGroups
  <1>w. with.pretrig \in 0..ACQ_CAPACITY /\ with.count \in 1..ACQ_CAPACITY
        /\ with \in [pretrig : 0..ACQ_CAPACITY, count : 1..ACQ_CAPACITY]
    BY DEF RecorderAssumption
  <1>1. ArmTypes'
    BY DEF ArmTypes, Clock, ArmBits, Bit
  <1>2. StatusTypes'
    BY DEF StatusTypes, Clock, StatusBits, OverrunBit, Bit
  <1>3. CountTypes'
    <2>1. CountTypes /\ samples \in Nat
      BY DEF HistoryTypes
    <2>2. acqPretrigLeft' \in 0..ACQ_CAPACITY
      BY <1>w, <2>1, LessFacts DEF CountTypes, Clock, Counts, RecorderAssumption
    <2>3. acqLeft' \in 0..ACQ_CAPACITY
      <3>1. acqLeft' \in {0, Less(acqLeft), with.count, acqLeft}
        BY DEF Clock, Counts
      <3>2. acqLeft \in 0..ACQ_CAPACITY /\ ACQ_CAPACITY \in Nat /\ acqLeft \in Nat
        BY <2>1 DEF CountTypes, RecorderAssumption
      <3>l. Less(acqLeft) \in Nat /\ Less(acqLeft) <= acqLeft
        BY <3>2, LessFacts
      <3>3. Less(acqLeft) \in 0..ACQ_CAPACITY
        BY <3>2, <3>l
      <3>4. 0 \in 0..ACQ_CAPACITY /\ with.count \in 0..ACQ_CAPACITY
        BY <1>w, <3>2
      <3>. QED
        BY <3>1, <3>2, <3>3, <3>4
    <2>4. acqWhenTriggered' \in Nat /\ triggerFlag' \in Bit /\ triggered' \in Bit
      BY <2>1 DEF CountTypes, Clock, Trigger, Bit
    <2>. QED
      BY <2>2, <2>3, <2>4 DEF CountTypes
  <1>4. FifoTypes'
    <2>1. /\ fifo \in Seq(Word) /\ Len(fifo) <= FIFO_CAPACITY
          /\ fifoOut \in Word /\ <<arms, samples>> \in Word
          /\ FIFO_CAPACITY \in Nat
      BY DEF FifoTypes, HistoryTypes, Word, RecorderAssumption
    <2>2. fifo # <<>> => /\ Head(fifo) \in Word /\ Tail(fifo) \in Seq(Word)
                         /\ Len(Tail(fifo)) = Len(fifo) - 1 /\ Len(fifo) > 0
      BY <2>1, HeadTailProperties, EmptySeq
    <2> DEFINE kept == IF Reads(in) /\ ~fifoEmpty THEN Tail(fifo) ELSE fifo
    <2>3. kept \in Seq(Word) /\ Len(kept) <= Len(fifo)
      BY <2>1, <2>2 DEF fifoEmpty
    <2>4. /\ Append(kept, <<arms, samples>>) \in Seq(Word)
          /\ Len(Append(kept, <<arms, samples>>)) = Len(kept) + 1
      BY <2>1, <2>3, AppendProperties
    <2>5. ~fifoFull => Len(fifo) < FIFO_CAPACITY
      BY <2>1 DEF fifoFull
    <2>6. fifo' \in {<<>>, kept}
          \/ (~fifoFull /\ fifo' = Append(kept, <<arms, samples>>))
      BY DEF Clock, Fifo
    <2>7. fifo' \in Seq(Word) /\ Len(fifo') <= FIFO_CAPACITY
      <3>. HIDE DEF kept
      <3>1. CASE fifo' = <<>>
        BY <3>1, <2>1, EmptySeq
      <3>2. CASE fifo' = kept
        BY <3>2, <2>1, <2>3
      <3>3. CASE ~fifoFull /\ fifo' = Append(kept, <<arms, samples>>)
        <4>1. Len(fifo') = Len(kept) + 1 /\ Len(kept) <= Len(fifo)
              /\ Len(fifo) < FIFO_CAPACITY /\ fifo' \in Seq(Word)
          BY <3>3, <2>3, <2>4, <2>5
        <4>. QED
          BY <4>1, <2>1, <2>3, LenProperties
      <3>. QED
        BY <2>6, <3>1, <3>2, <3>3
    <2>8. fifoRst' \in Bit /\ fifoOut' \in Word
      BY <2>1, <2>2 DEF Clock, Fifo, Bit, fifoEmpty
    <2>. QED
      BY <2>7, <2>8 DEF FifoTypes
  <1>5. AxiTypes'
    <2>1. AxiTypes /\ MULTI_BEAT_LENGTH \in Nat \ {0} /\ PauseCycles \in Nat
      BY DEF RecorderAssumption
    <2>2. state' \in {"WAIT", "ADDR", "DATA", "ACK", "PAUSE"}
      BY <2>1 DEF AxiTypes, Clock, AxiState, AxiWait,
         AxiAddress, AxiData, AxiAck, AxiPause, AfterAck
    <2>b. /\ beatCount \in 0..(MULTI_BEAT_LENGTH - 1) /\ pauseCount \in 0..PauseCycles
          /\ Less(beatCount) \in 0..(MULTI_BEAT_LENGTH - 1)
          /\ Less(pauseCount) \in 0..PauseCycles
          /\ 0 \in 0..(MULTI_BEAT_LENGTH - 1) /\ PauseCycles \in 0..PauseCycles
          /\ MULTI_BEAT_LENGTH - 1 \in 0..(MULTI_BEAT_LENGTH - 1)
      BY <2>1 DEF AxiTypes, Less
    <2>3. beatCount' \in 0..(MULTI_BEAT_LENGTH - 1)
      BY <2>b DEF AxiTypes, Clock, AxiState, AxiWait,
         AxiAddress, AxiData, AxiAck, AxiPause
    <2>4. pauseCount' \in 0..PauseCycles
      BY <2>b DEF Clock, AxiState, AxiWait,
         AxiAddress, AxiData, AxiAck, AxiPause
    <2>. QED
      BY <2>2, <2>3, <2>4 DEF AxiTypes
  <1>6. AddressTypes'
    <2>1. AddressTypes /\ 0 \in 0..(ACQ_CAPACITY - 1)
      BY DEF RecorderAssumption
    <2>2. /\ (writeAddr + 1) % ACQ_CAPACITY \in 0..(ACQ_CAPACITY - 1)
          /\ (busAddr + 1) % ACQ_CAPACITY \in 0..(ACQ_CAPACITY - 1)
      BY <2>1, NextAddress DEF AddressTypes
    <2>. QED
      BY <2>1, <2>2 DEF AddressTypes, Clock, WriteAddress, Memory
  <1>7. HistoryTypes'
    BY <1>w DEF HistoryTypes, Clock, History, Bit
  <1>8. (memory \in [0..(ACQ_CAPACITY - 1) -> Word])'
    BY DEF Clock, Memory, FifoTypes
  <1>. QED
    BY <1>1, <1>2, <1>3, <1>4, <1>5, <1>6, <1>7, <1>8
       DEF TypeOK, ArmTypes, StatusTypes, CountTypes, FifoTypes, AxiTypes,
           AddressTypes, HistoryTypes

\* Registers never leave their widths: no count goes below zero, no address
\* leaves the ring, the FIFO never holds more than it can.
THEOREM TypeCorrect == Spec => []TypeOK
  <1>1. RecorderAssumption /\ TypeOK /\ [Next]_vars => TypeOK'
    <2>. SUFFICES ASSUME RecorderAssumption, TypeOK, [Next]_vars  PROVE TypeOK'
      OBVIOUS
    <2>1. CASE Next
      BY <2>1, ClockTypes, RegistersHoldRequests
    <2>2. CASE UNCHANGED vars
      BY <2>2 DEF vars, armVars, countVars, axiVars, TypeOK
    <2>. QED
      BY <2>1, <2>2
  <1>2. RecorderAssumption
    BY RecorderAssumption
  <1>. QED
    BY <1>1, <1>2, InitTypes, PTL DEF Spec

-----------------------------------------------------------------------------
(* Bursts and the end of the ring.                                         *)

\* A cycle keeps the beats still to come inside the ring.
LEMMA ClockBurst ==
  ASSUME RecorderAssumption, TypeOK, BurstInRing,
         NEW in \in Inputs, NEW with \in Requests, Clock(in, with)
  PROVE  BurstInRing'
  <1>1. /\ ACQ_CAPACITY \in Nat \ {0} /\ MULTI_BEAT_LENGTH \in Nat \ {0}
        /\ MULTI_BEAT_LENGTH <= ACQ_CAPACITY
        /\ writeAddr \in 0..(ACQ_CAPACITY - 1)
        /\ beatCount \in 0..(MULTI_BEAT_LENGTH - 1)
    BY DEF RecorderAssumption, TypeOK
  <1>2. CASE state = "WAIT"
    <2>1. /\ (writeAddr' = 0 \/ writeAddr' = writeAddr)
          /\ state' = "ADDR" => \/ beatCount' = 0
                                \/ /\ beatCount' = MULTI_BEAT_LENGTH - 1
                                   /\ writeAddr <= ACQ_CAPACITY - MULTI_BEAT_LENGTH
          /\ state' \in {"WAIT", "ADDR"}
      BY <1>2 DEF Clock, AxiState, AxiWait,
         AxiAddress, AxiData, AxiAck, AxiPause, WriteAddress, Beat, BurstFits
    <2>. QED
      BY <1>1, <2>1 DEF BurstInRing
  <1>3. CASE state = "ADDR"
    <2>1. /\ (writeAddr' = 0 \/ writeAddr' = writeAddr) /\ beatCount' = beatCount
          /\ writeAddr + beatCount < ACQ_CAPACITY
      BY <1>3 DEF Clock, AxiState, AxiWait,
         AxiAddress, AxiData, AxiAck, AxiPause, WriteAddress, Beat, BurstInRing
    <2>. QED
      BY <1>1, <2>1 DEF BurstInRing
  <1>4. CASE state = "DATA" /\ in.bus = "ready"
    <2>1. /\ writeAddr' = (writeAddr + 1) % ACQ_CAPACITY
          /\ beatCount' = Less(beatCount)
          /\ state' = IF beatCount = 0 THEN "ACK" ELSE "DATA"
          /\ writeAddr + beatCount < ACQ_CAPACITY
      BY <1>4 DEF Clock, AxiState, AxiWait,
         AxiAddress, AxiData, AxiAck, AxiPause, WriteAddress, Beat, BurstInRing
    <2>2. CASE beatCount = 0
      BY <2>1, <2>2 DEF BurstInRing
    <2>3. CASE beatCount # 0
      <3>1. writeAddr + 1 < ACQ_CAPACITY
        BY <1>1, <2>1, <2>3
      <3>2. writeAddr' = writeAddr + 1 /\ beatCount' = beatCount - 1
        BY <1>1, <2>1, <2>3, <3>1, NextAddress, LessFacts
      <3>. QED
        BY <1>1, <2>1, <3>2 DEF BurstInRing
    <2>. QED
      BY <2>2, <2>3
  <1>5. CASE state = "DATA" /\ in.bus # "ready"
    <2>1. /\ (writeAddr' = 0 \/ writeAddr' = writeAddr) /\ beatCount' = beatCount
          /\ writeAddr + beatCount < ACQ_CAPACITY
      BY <1>5 DEF Clock, AxiState, AxiWait,
         AxiAddress, AxiData, AxiAck, AxiPause, WriteAddress, Beat, BurstInRing
    <2>. QED
      BY <1>1, <2>1 DEF BurstInRing
  <1>6. CASE state \in {"ACK", "PAUSE"}
    <2>1. state' \notin {"ADDR", "DATA"}
      BY <1>6 DEF Clock, AxiState, AxiWait,
         AxiAddress, AxiData, AxiAck, AxiPause, AfterAck
    <2>. QED
      BY <2>1 DEF BurstInRing
  <1>. QED
    BY <1>2, <1>3, <1>4, <1>5, <1>6 DEF TypeOK

\* No burst of any length leaves the ring, wherever an arm falls.
THEOREM BurstsStayInRing == Spec => []BurstInRing
  <1>1. Init => BurstInRing
    BY DEF Init, BurstInRing
  <1>2. RecorderAssumption /\ TypeOK /\ BurstInRing /\ [Next]_vars => BurstInRing'
    <2>. SUFFICES ASSUME RecorderAssumption, TypeOK, BurstInRing, [Next]_vars
                  PROVE  BurstInRing'
      OBVIOUS
    <2>1. CASE Next
      BY <2>1, ClockBurst, RegistersHoldRequests
    <2>2. CASE UNCHANGED vars
      BY <2>2 DEF vars, axiVars, BurstInRing
    <2>. QED
      BY <2>1, <2>2
  <1>3. RecorderAssumption
    BY RecorderAssumption
  <1>. QED
    BY <1>1, <1>2, <1>3, TypeCorrect, PTL DEF Spec

-----------------------------------------------------------------------------
(* Lost samples.                                                           *)

\* The bit is set in the cycle of the loss, and only an arm, which begins a
\* new acquisition, clears it.
THEOREM LossesAreReported == Spec => []LossIsReported
  <1>1. Init => LossIsReported
    BY DEF Init, LossIsReported
  <1>2. LossIsReported /\ [Next]_vars => LossIsReported'
    <2>. SUFFICES ASSUME LossIsReported, [Next]_vars  PROVE LossIsReported'
      OBVIOUS
    <2>1. ASSUME NEW in \in Inputs, NEW with \in Requests, Clock(in, with)
          PROVE  LossIsReported'
      <3>1. CASE Arms(in)
        BY <2>1, <3>1 DEF Clock, History, LossIsReported
      <3>2. CASE ~Arms(in)
        <4>1. /\ lost' = IF Takes(in) /\ fifoFull THEN "yes" ELSE lost
              /\ overrun' = IF fifoFull THEN "yes" ELSE overrun
          BY <2>1, <3>2 DEF Clock, History, StatusBits, OverrunBit
        <4>. QED
          BY <4>1 DEF LossIsReported
      <3>. QED
        BY <3>1, <3>2
    <2>2. CASE UNCHANGED vars
      BY <2>2 DEF vars, LossIsReported
    <2>. QED
      BY <2>1, <2>2, RecorderAssumption, RegistersHoldRequests
  <1>. QED
    BY <1>1, <1>2, PTL DEF Spec

-----------------------------------------------------------------------------
(* The counts of an acquisition; and its window, when no arm comes before   *)
(* the last one has drained.                                               *)

\* Between an arm and the first cycle of its acquisition nothing is taken.
ArmingInv ==
  /\ fifoRst = "yes" =>
       /\ acqPreArmed = "yes" /\ acqPreArmed_d = "no" /\ acqArmed = "no"
       /\ full = "no" /\ samples = 0
  /\ acqArmed = "yes" => acqPreArmed = "yes" /\ acqPreArmed_d = "yes" /\ full = "no"
  /\ acqPreArmed = "yes" /\ acqArmed = "no" => fifoRst = "yes"

\* Then the FIFO is empty and the master at rest, if the arm waited for that.
RestInv == fifoRst = "yes" => Drained

\* The samples wanted from the trigger on.
PastTrigger ==
  IF request.pretrig <= request.count THEN request.count - request.pretrig ELSE 0

\* What is left to count is what the request asks for less what was taken.
ArmedCounts ==
  /\ acqPretrigLeft = request.pretrig /\ acqLeft = request.count
WaitingCounts ==
  LET taken == request.pretrig - acqPretrigLeft
  IN  /\ taken >= 0 /\ samples >= taken
      /\ acqLeft = IF taken <= request.count THEN request.count - taken ELSE 0
TriggeredCounts ==
  /\ acqPretrigLeft = 0 /\ acqLeft <= PastTrigger
  /\ triggered = "no" => samples >= request.pretrig /\ acqLeft = PastTrigger
  /\ triggered = "yes" => /\ acqWhenTriggered >= request.pretrig
                          /\ samples = acqWhenTriggered + PastTrigger - acqLeft
CountInv ==
  /\ fifoRst = "yes" => ArmedCounts
  /\ acqArmed = "no" /\ acqPreArmed = "yes" => triggerFlag = "no" /\ triggered = "no"
  /\ acqArmed = "yes" =>
       IF triggerFlag = "yes" THEN TriggeredCounts
       ELSE WaitingCounts /\ triggered = "no"
  /\ full = "yes" =>
       /\ acqArmed = "no" /\ acqPreArmed = "no"
       /\ acqWhenTriggered >= request.pretrig
       /\ samples = acqWhenTriggered + PastTrigger

\* The words of a burst are in the FIFO when it begins, and stay there for it.
BurstInv ==
  /\ state = "ADDR" => Len(fifo) > beatCount
  /\ state = "DATA" => Len(fifo) >= beatCount

\* The words between the FIFO and the memory, and in the memory.
Driven == IF state = "DATA" THEN 1 ELSE 0
Stored == samples - Len(fifo) - Driven

\* A sample is in the FIFO, on the bus or in the memory, in order.
StreamInv ==
  overrun = "no" =>
    /\ Stored >= 0 /\ writeAddr = Stored % ACQ_CAPACITY
    /\ state = "DATA" => busAddr = writeAddr /\ fifoOut = <<arms, Stored>>
    /\ \A i \in 1..Len(fifo) : fifo[i] = <<arms, Stored + Driven + i - 1>>
    /\ \A i \in 0..(Stored - 1) :
         Stored <= i + ACQ_CAPACITY => memory[i % ACQ_CAPACITY] = <<arms, i>>

WindowInv == ArmingInv /\ RestInv /\ CountInv /\ BurstInv /\ StreamInv

-----------------------------------------------------------------------------
(* Each part is inductive with the ones before it.                         *)

LEMMA InitWindow ==
  ASSUME RecorderAssumption, Init
  PROVE  WindowInv
<1>1. /\ acqPreArmed = "no" /\ acqArmed = "no" /\ fifoRst = "no" /\ full = "no"
      /\ state = "WAIT" /\ fifo = <<>> /\ samples = 0 /\ writeAddr = 0
  BY DEF Init
<1>2. ArmingInv /\ RestInv /\ CountInv /\ BurstInv
  <2>1. acqPreArmed # "yes" /\ acqArmed # "yes" /\ fifoRst # "yes" /\ full # "yes"
    BY <1>1
  <2> QED BY <1>1, <2>1 DEF ArmingInv, RestInv, CountInv, BurstInv
<1>3. ACQ_CAPACITY \in Nat /\ ACQ_CAPACITY > 0
  BY DEF RecorderAssumption
<1>4. Stored = 0 /\ Len(fifo) = 0
  <2>1. Len(fifo) = 0
    BY <1>1
  <2>2. Driven = 0
    BY <1>1 DEF Driven
  <2>3. samples = 0 /\ 0 - 0 - 0 = 0
    BY <1>1
  <2> QED BY <2>1, <2>2, <2>3 DEF Stored
<1>5. 0 % ACQ_CAPACITY = 0
  BY <1>3
<1> QED BY <1>1, <1>2, <1>4, <1>5 DEF WindowInv, StreamInv

\* What an arm that takes effect finds, and does.
LEMMA ArmFinds ==
  ASSUME TypeOK, ArmingInv,
         NEW in \in Inputs, NEW with \in Requests, Clock(in, with), Arms(in)
  PROVE  /\ acqArmed = "no" /\ acqPreArmed = "no" /\ in.csr = "arm"
         /\ fifoRst = "no" /\ ~Takes(in) /\ ~Completes(in) /\ ~Aborts(in)
<1>1. in.csr = "arm" /\ acqPreArmed = "no" /\ Possible(in)
  BY DEF Arms, Clock
<1>2. acqArmed \in Bit /\ fifoRst \in Bit
  BY DEF TypeOK
<1>3. acqArmed = "no"
  BY <1>1, <1>2 DEF ArmingInv, Bit
<1>4. fifoRst = "no"
  BY <1>1, <1>2 DEF Possible, Bit
<1> QED BY <1>1, <1>3, <1>4 DEF Takes, Completes, Aborts

LEMMA ArmWaits ==
  ASSUME ~ArmsWhileDraining,
         NEW in \in Inputs, NEW with \in Requests, Clock(in, with), Arms(in)
  PROVE  Drained
BY DEF Arms, Clock, Possible

\* In the cycle after an arm nothing is taken, and no command comes.
LEMMA ResetCycle ==
  ASSUME ArmingInv, NEW in \in Inputs, NEW with \in Requests, Clock(in, with),
         fifoRst = "yes"
  PROVE  /\ in.csr = "none" /\ ~Arms(in) /\ ~Takes(in) /\ ~Completes(in)
         /\ acqPreArmed = "yes" /\ acqPreArmed_d = "no" /\ acqArmed = "no"
         /\ ~in.valid /\ full = "no" /\ samples = 0
<1>1. Possible(in)
  BY DEF Clock
<1>2. in.valid \in BOOLEAN /\ in.csr \in {"none", "arm", "disarm"}
  BY DEF Inputs
<1>3. /\ acqPreArmed = "yes" /\ acqPreArmed_d = "no" /\ acqArmed = "no"
      /\ full = "no" /\ samples = 0
  BY DEF ArmingInv
<1>4. in.csr = "none" /\ ~in.valid
  BY <1>1, <1>2, <1>3 DEF Possible
<1> QED BY <1>3, <1>4 DEF Arms, Takes, Completes

\* A master at rest with nothing to send stays at rest.
LEMMA RestStays ==
  ASSUME NEW in \in Inputs, AxiState(in), fifoEmpty, state \in {"WAIT", "PAUSE"}
  PROVE  state' \in {"WAIT", "PAUSE"}
BY DEF AxiState, AxiWait, AxiAddress, AxiData, AxiAck, AxiPause

LEMMA StepRest ==
  ASSUME ~ArmsWhileDraining, TypeOK, ArmingInv,
         NEW in \in Inputs, NEW with \in Requests, Clock(in, with)
  PROVE  RestInv'
<1>1. CASE Arms(in)
  <2>1. Drained /\ ~Takes(in) /\ fifoRst = "no"
    BY <1>1, ArmFinds, ArmWaits
  <2>2. fifo' = <<>> /\ state' \in {"WAIT", "PAUSE"}
    BY <2>1, RestStays DEF Clock, Fifo, Drained, fifoEmpty
  <2> QED BY <2>2 DEF RestInv, Drained, fifoEmpty
<1>2. CASE ~Arms(in)
  BY <1>2 DEF Clock, Fifo, RestInv
<1> QED BY <1>1, <1>2

LEMMA StepArming ==
  ASSUME TypeOK, ArmingInv,
         NEW in \in Inputs, NEW with \in Requests, Clock(in, with)
  PROVE  ArmingInv'
<1>t. /\ acqPreArmed \in Bit /\ acqPreArmed_d \in Bit /\ acqArmed \in Bit
      /\ full \in Bit /\ fifoRst \in Bit
  BY DEF TypeOK
<1>c. in.csr \in {"none", "arm", "disarm"}
  BY DEF Inputs
<1>1. CASE Arms(in)
  <2>1. /\ acqArmed = "no" /\ acqPreArmed = "no" /\ in.csr = "arm"
        /\ fifoRst = "no" /\ ~Takes(in) /\ ~Completes(in) /\ ~Aborts(in)
    BY <1>1, ArmFinds
  <2>2. /\ acqPreArmed' = "yes" /\ acqPreArmed_d' = "no" /\ acqArmed' = "no"
        /\ full' = "no" /\ fifoRst' = "yes" /\ samples' = 0
    BY <1>1, <2>1 DEF Clock, ArmBits, StatusBits, Fifo, History
  <2> QED BY <2>2 DEF ArmingInv
<1>2. CASE ~Arms(in)
  <2>0. fifoRst' = "no"
    BY <1>2 DEF Clock, Fifo
  <2>1. /\ acqPreArmed_d' = acqPreArmed
        /\ acqPreArmed' = IF Completes(in) \/ Aborts(in) \/ in.csr = "disarm" THEN "no"
                          ELSE IF in.csr = "arm" THEN "yes" ELSE acqPreArmed
        /\ acqArmed' = IF acqPreArmed = "yes" /\ acqPreArmed_d = "no"
                          /\ ~Aborts(in) /\ ~Completes(in)
                       THEN "yes"
                       ELSE IF Completes(in) \/ Aborts(in) \/ in.csr = "disarm"
                         THEN "no" ELSE acqArmed
        /\ full' = IF Completes(in) THEN "yes"
                   ELSE IF in.csr # "none" THEN "no" ELSE full
    BY DEF Clock, ArmBits, StatusBits
  <2>2. in.csr = "arm" => acqPreArmed = "yes"
    BY <1>2, <1>t DEF Arms, Bit
  <2>3. CASE fifoRst = "yes"
    <3>1. /\ in.csr = "none" /\ ~Completes(in) /\ acqPreArmed = "yes"
          /\ acqPreArmed_d = "no" /\ acqArmed = "no" /\ full = "no"
      BY <2>3, ResetCycle
    <3>2. CASE Aborts(in)
      BY <2>0, <2>1, <3>1, <3>2 DEF ArmingInv
    <3>3. CASE ~Aborts(in)
      BY <2>0, <2>1, <3>1, <3>3 DEF ArmingInv
    <3> QED BY <3>2, <3>3
  <2>4. CASE fifoRst # "yes"
    <3>1. acqPreArmed = "yes" => acqArmed = "yes" /\ acqPreArmed_d = "yes" /\ full = "no"
      BY <1>t, <2>4 DEF ArmingInv, Bit
    <3>2. acqPreArmed = "no" => acqArmed = "no"
      BY <1>t DEF ArmingInv, Bit
    <3>3. acqPreArmed' = "yes" => acqPreArmed = "yes" /\ acqArmed' = "yes" /\ ~Completes(in)
      BY <2>1, <2>2, <3>1
    <3>4. acqArmed' = "yes" => acqPreArmed' = "yes" /\ acqPreArmed = "yes"
      BY <1>t, <2>1, <2>2, <3>1, <3>2 DEF Bit
    <3>5. acqArmed' = "yes" => full' = "no"
      BY <2>1, <3>1, <3>3, <3>4
    <3>6. acqArmed' \in Bit
      BY <1>t, <2>1 DEF Bit
    <3> QED BY <2>0, <2>1, <3>3, <3>4, <3>5, <3>6 DEF ArmingInv, Bit
  <2> QED BY <2>3, <2>4
<1> QED BY <1>1, <1>2

\* The counts, from the arm to the last sample.
LEMMA StepCount ==
  ASSUME RecorderAssumption, TypeOK, ArmingInv, CountInv,
         NEW in \in Inputs, NEW with \in Requests, Clock(in, with)
  PROVE  CountInv'
<1>t. /\ acqPreArmed \in Bit /\ acqArmed \in Bit /\ full \in Bit /\ fifoRst \in Bit
      /\ triggerFlag \in Bit /\ triggered \in Bit
      /\ acqPretrigLeft \in Nat /\ acqLeft \in Nat /\ acqWhenTriggered \in Nat
      /\ samples \in Nat /\ request.pretrig \in Nat /\ request.count \in Nat
  BY DEF TypeOK, RecorderAssumption
<1>c. in.csr \in {"none", "arm", "disarm"} /\ in.valid \in BOOLEAN
  BY DEF Inputs
<1>p. PastTrigger \in Nat
  BY <1>t DEF PastTrigger
<1>1. CASE Arms(in)
  <2>1. /\ acqArmed = "no" /\ ~Takes(in) /\ ~Completes(in) /\ ~Aborts(in)
        /\ in.csr = "arm"
    BY <1>1, ArmFinds
  <2>2. /\ acqPretrigLeft' = with.pretrig /\ acqLeft' = with.count /\ request' = with
        /\ triggerFlag' = "no" /\ triggered' = "no" /\ full' = "no"
    BY <1>1, <2>1 DEF Clock, Counts, History, Trigger, StatusBits
  <2>3. acqArmed' # "yes"
    BY <1>1, <2>1 DEF Clock, ArmBits, Arms
  <2> QED BY <2>2, <2>3 DEF CountInv, ArmedCounts
<1>2. CASE ~Arms(in) /\ acqArmed = "no"
  <2>1. /\ UNCHANGED <<acqPretrigLeft, request, samples, acqWhenTriggered>>
        /\ acqLeft' = IF Aborts(in) THEN 0 ELSE acqLeft
        /\ triggerFlag' = "no" /\ triggered' = "no" /\ fifoRst' = "no"
    BY <1>2 DEF Clock, Counts, History, Trigger, Takes, Fifo
  <2>2. ~Completes(in) /\ full' = (IF in.csr # "none" THEN "no" ELSE full)
    BY <1>2 DEF Completes, Clock, StatusBits
  <2>3. PastTrigger' = PastTrigger
    BY <2>1 DEF PastTrigger
  <2>4. CASE fifoRst = "yes"
    <3>1. /\ in.csr = "none" /\ ~Completes(in) /\ acqPreArmed = "yes"
          /\ acqPreArmed_d = "no" /\ full = "no" /\ samples = 0
      BY <2>4, ResetCycle
    <3>2. ArmedCounts /\ full' # "yes"
      BY <2>2, <2>4, <3>1 DEF CountInv
    <3>3. CASE Aborts(in)
      <4>1. acqArmed' = "no" /\ acqPreArmed' = "no"
        BY <1>2, <3>3 DEF Clock, ArmBits
      <4> QED BY <2>1, <3>2, <4>1 DEF CountInv
    <3>4. CASE ~Aborts(in)
      <4>1. WaitingCounts'
        BY <1>t, <2>1, <3>1, <3>2, <3>4 DEF ArmedCounts, WaitingCounts
      <4> QED BY <2>1, <3>2, <4>1 DEF CountInv
    <3> QED BY <3>3, <3>4
  <2>5. CASE fifoRst # "yes"
    <3>1. acqPreArmed = "no"
      BY <1>t, <1>2, <2>5 DEF ArmingInv, Bit
    <3>2. acqPreArmed' = "no" /\ acqArmed' = "no"
      BY <1>2, <1>c, <3>1 DEF Clock, ArmBits, Arms
    <3>3. full' = "yes" => full = "yes"
      BY <2>2
    <3> QED BY <2>1, <2>3, <3>2, <3>3 DEF CountInv
  <2> QED BY <2>4, <2>5
<1>3. CASE ~Arms(in) /\ acqArmed = "yes"
  <2>0. /\ fifoRst' = "no" /\ UNCHANGED request /\ full = "no" /\ acqPreArmed = "yes"
        /\ acqPreArmed_d = "yes"
        /\ samples' = IF Takes(in) THEN samples + 1 ELSE samples
    BY <1>3 DEF Clock, Fifo, History, ArmingInv
  <2>1. /\ PastTrigger' = PastTrigger
    BY <2>0 DEF PastTrigger
  <2>2. acqArmed' = "no" <=> Completes(in) \/ Aborts(in) \/ in.csr = "disarm"
    BY <1>3, <2>0 DEF Clock, ArmBits
  <2>3. acqArmed' = "no" => acqPreArmed' = "no"
    BY <2>2 DEF Clock, ArmBits
  <2>a. acqArmed' \in Bit
    BY <1>t DEF Clock, ArmBits, Bit
  <2>b. full' = "yes" => Completes(in)
    BY <2>0 DEF Clock, StatusBits
  <2>c. acqArmed' = "yes" => ~Aborts(in)
    BY <2>2
  <2>4. CASE triggerFlag = "no"
    <3>1. WaitingCounts /\ triggered = "no" /\ triggered' = "no"
      BY <1>3, <2>4 DEF CountInv, Clock, Trigger
    <3>2. triggerFlag' = IF Triggers(in) THEN "yes" ELSE "no"
      BY <1>3, <2>4 DEF Clock, Trigger
    <3>3. Takes(in) <=> in.valid
      BY <1>3, <2>4 DEF Takes
    <3>4. ~Completes(in) /\ full' # "yes"
      BY <2>4, <2>b DEF Completes
    <3>5. acqPretrigLeft' = IF in.valid THEN Less(acqPretrigLeft) ELSE acqPretrigLeft
      BY <1>3, <2>4 DEF Clock, Counts
    <3>6. ~Aborts(in) => acqLeft' = IF in.valid /\ acqPretrigLeft # 0
                                    THEN Less(acqLeft) ELSE acqLeft
      BY <1>3, <2>4 DEF Clock, Counts
    <3>7. ~Aborts(in) => WaitingCounts'
      BY <1>t, <2>0, <3>1, <3>3, <3>5, <3>6 DEF WaitingCounts, Less
    <3>8. Triggers(in) /\ ~Aborts(in) => TriggeredCounts'
      <4> SUFFICES ASSUME Triggers(in), ~Aborts(in) PROVE TriggeredCounts'
        OBVIOUS
      <4>1. acqPretrigLeft = 0 /\ acqPretrigLeft' = 0 /\ acqLeft' = acqLeft
        BY <3>5, <3>6 DEF Triggers, Less
      <4>2. acqLeft = PastTrigger /\ samples >= request.pretrig
        BY <1>t, <3>1, <4>1 DEF WaitingCounts, PastTrigger
      <4>3. samples' >= samples
        BY <1>t, <2>0
      <4> QED BY <1>t, <1>p, <2>0, <2>1, <3>1, <4>1, <4>2, <4>3 DEF TriggeredCounts
    <3> QED BY <2>0, <2>3, <2>a, <2>c, <3>1, <3>2, <3>4, <3>7, <3>8 DEF CountInv, Bit
  <2>5. CASE triggerFlag = "yes"
    <3>1. TriggeredCounts
      BY <1>3, <2>5 DEF CountInv
    <3>2. /\ triggerFlag' = "yes"
          /\ triggered' = IF in.valid THEN "yes" ELSE triggered
          /\ acqWhenTriggered' = IF in.valid /\ triggered = "no" THEN samples
                                 ELSE acqWhenTriggered
      BY <1>3, <2>5 DEF Clock, Trigger
    <3>3. Takes(in) <=> in.valid /\ acqLeft # 0
      BY <1>3, <2>5 DEF Takes
    <3>4. acqPretrigLeft' = acqPretrigLeft
      BY <1>3, <2>5 DEF Clock, Counts
    <3>5. ~Aborts(in) => acqLeft' = IF in.valid THEN Less(acqLeft) ELSE acqLeft
      BY <1>3, <2>5 DEF Clock, Counts
    <3>6. ~Aborts(in) => TriggeredCounts'
      <4> SUFFICES ASSUME ~Aborts(in) PROVE TriggeredCounts'
        OBVIOUS
      <4>1. CASE ~in.valid
        BY <1>t, <1>p, <2>0, <2>1, <3>1, <3>2, <3>3, <3>4, <3>5, <4>1 DEF TriggeredCounts
      <4>2. CASE in.valid
        <5>1. /\ acqLeft' = IF acqLeft = 0 THEN 0 ELSE acqLeft - 1
              /\ samples' = IF acqLeft = 0 THEN samples ELSE samples + 1
              /\ triggered' = "yes"
          BY <2>0, <3>2, <3>3, <3>5, <4>2 DEF Less
        <5>2. CASE triggered = "no"
          BY <1>t, <1>p, <2>0, <2>1, <3>1, <3>2, <3>4, <4>2, <5>1, <5>2 DEF TriggeredCounts
        <5>3. CASE triggered = "yes"
          BY <1>t, <1>p, <2>0, <2>1, <3>1, <3>2, <3>4, <4>2, <5>1, <5>3 DEF TriggeredCounts
        <5> QED BY <1>t, <5>2, <5>3 DEF Bit
      <4> QED BY <4>1, <4>2
    <3>7. Completes(in) => /\ acqWhenTriggered' >= request.pretrig
                           /\ samples' = acqWhenTriggered' + PastTrigger
      <4> SUFFICES ASSUME Completes(in)
                   PROVE  /\ acqWhenTriggered' >= request.pretrig
                          /\ samples' = acqWhenTriggered' + PastTrigger
        OBVIOUS
      <4>1. in.valid /\ acqLeft = 0 /\ samples' = samples
        BY <2>0, <3>3 DEF Completes
      <4> QED BY <1>t, <1>p, <3>1, <3>2, <4>1 DEF TriggeredCounts, Bit
    <3>8. Completes(in) => acqArmed' = "no" /\ acqPreArmed' = "no"
      BY <2>2, <2>3
    <3> QED BY <2>0, <2>1, <2>3, <2>a, <2>b, <2>c, <3>2, <3>6, <3>7, <3>8 DEF CountInv, Bit
  <2> QED BY <1>t, <2>4, <2>5 DEF Bit
<1> QED BY <1>t, <1>1, <1>2, <1>3 DEF Bit

-----------------------------------------------------------------------------
(* The way of a sample.                                                    *)

\* Words that leave the FIFO and that enter it in a cycle.
Removed(in) == IF Reads(in) /\ ~fifoEmpty THEN 1 ELSE 0
Added(in) == IF Takes(in) /\ ~fifoFull THEN 1 ELSE 0

\* The FIFO is a queue, the cycle of its reset included.
LEMMA FifoStep ==
  ASSUME TypeOK, ArmingInv, RestInv,
         NEW in \in Inputs, NEW with \in Requests, Clock(in, with)
  PROVE  /\ Len(fifo) \in Nat /\ Removed(in) <= Len(fifo)
         /\ Len(fifo') = Len(fifo) - Removed(in) + Added(in)
         /\ \A i \in 1..(Len(fifo) - Removed(in)) : fifo'[i] = fifo[i + Removed(in)]
         /\ Added(in) = 1 => fifo'[Len(fifo) - Removed(in) + 1] = <<arms, samples>>
         /\ fifoOut' = IF Removed(in) = 1 THEN fifo[1] ELSE fifoOut
<1> DEFINE kept == IF Reads(in) /\ ~fifoEmpty THEN Tail(fifo) ELSE fifo
           word == <<arms, samples>>
<1>1. fifo \in Seq(Word) /\ Len(fifo) \in Nat /\ word \in Word
  BY DEF TypeOK, Word
<1>2. /\ kept \in Seq(Word) /\ Removed(in) <= Len(fifo)
      /\ Len(kept) = Len(fifo) - Removed(in)
      /\ \A i \in 1..(Len(fifo) - Removed(in)) : kept[i] = fifo[i + Removed(in)]
  <2>1. CASE Reads(in) /\ ~fifoEmpty
    <3>1. fifo # <<>>
      BY <2>1 DEF fifoEmpty
    <3>2. /\ Tail(fifo) \in Seq(Word) /\ Len(Tail(fifo)) = Len(fifo) - 1
          /\ \A i \in 1..Len(Tail(fifo)) : Tail(fifo)[i] = fifo[i + 1]
          /\ Len(fifo) >= 1
      BY <1>1, <3>1, HeadTailProperties, EmptySeq
    <3>3. kept = Tail(fifo) /\ Removed(in) = 1
      BY <2>1 DEF Removed
    <3> QED BY <1>1, <3>2, <3>3
  <2>2. CASE ~(Reads(in) /\ ~fifoEmpty)
    <3>1. kept = fifo /\ Removed(in) = 0
      BY <2>2 DEF Removed
    <3> HIDE DEF kept
    <3>2. \A i \in 1..Len(fifo) : i + 0 = i
      BY <1>1
    <3>3. Len(fifo) - 0 = Len(fifo) /\ 0 <= Len(fifo)
      BY <1>1
    <3> QED BY <1>1, <3>1, <3>2, <3>3
  <2> QED BY <2>1, <2>2
<1>3. fifo' = IF Added(in) = 1 THEN Append(kept, word) ELSE kept
  <2>1. CASE fifoRst = "yes"
    <3>1. ~Takes(in) /\ fifoEmpty
      BY <2>1, ResetCycle DEF RestInv, Drained
    <3> QED BY <2>1, <3>1 DEF Clock, Fifo, Added, fifoEmpty
  <2>2. CASE fifoRst # "yes"
    BY <2>2 DEF Clock, Fifo, Added
  <2> QED BY <2>1, <2>2
<1>4. fifoOut' = IF Removed(in) = 1 THEN fifo[1] ELSE fifoOut
  <2>1. fifoOut' = IF Removed(in) = 1 THEN Head(fifo) ELSE fifoOut
    <3>1. fifoOut' = IF Reads(in) /\ ~fifoEmpty THEN Head(fifo) ELSE fifoOut
      BY DEF Clock, Fifo
    <3> QED BY <3>1 DEF Removed
  <2>2. Removed(in) = 1 => Head(fifo) = fifo[1]
    BY <1>1 DEF Removed, fifoEmpty
  <2> QED BY <2>1, <2>2
<1> HIDE DEF kept, word
<1>5. CASE Added(in) = 1
  <2>1. fifo' = Append(kept, word)
    BY <1>3, <1>5
  <2>2. /\ Len(fifo') = Len(kept) + 1 /\ fifo'[Len(kept) + 1] = word
        /\ \A i \in 1..Len(kept) : fifo'[i] = kept[i]
    BY <1>1, <1>2, <2>1, AppendProperties
  <2> QED BY <1>1, <1>2, <1>4, <1>5, <2>2 DEF word
<1>6. CASE Added(in) = 0
  <2>1. fifo' = kept
    BY <1>3, <1>6
  <2> QED BY <1>1, <1>2, <1>4, <1>6, <2>1
<1> QED BY <1>5, <1>6 DEF Added

LEMMA StepBurst ==
  ASSUME RecorderAssumption, TypeOK, ArmingInv, RestInv, BurstInv,
         NEW in \in Inputs, NEW with \in Requests, Clock(in, with)
  PROVE  BurstInv'
<1>1. /\ Len(fifo) \in Nat /\ Removed(in) \in {0, 1} /\ Added(in) \in {0, 1}
      /\ Len(fifo') = Len(fifo) - Removed(in) + Added(in)
  BY FifoStep DEF Removed, Added
<1>2. /\ beatCount \in Nat /\ state \in {"WAIT", "ADDR", "DATA", "ACK", "PAUSE"}
      /\ MULTI_BEAT_LENGTH \in Nat \ {0}
  BY DEF TypeOK, RecorderAssumption
<1>x. AxiState(in)
  BY DEF Clock
<1>3. CASE state = "WAIT"
  <2>1. Removed(in) = 0
    BY <1>3 DEF Removed, Reads
  <2>2. state' \in {"WAIT", "ADDR"} /\ (state' = "ADDR" => ~fifoEmpty)
    BY <1>3, <1>x DEF AxiState, AxiWait, AxiAddress, AxiData, AxiAck, AxiPause
  <2>3. state' = "ADDR" => beatCount' = IF BurstFits THEN MULTI_BEAT_LENGTH - 1 ELSE 0
    BY <1>3, <1>x DEF AxiState, AxiWait, AxiAddress, AxiData, AxiAck, AxiPause
  <2>4. ~fifoEmpty => Len(fifo) > 0
    BY EmptySeq DEF fifoEmpty, TypeOK
  <2> QED BY <1>1, <1>2, <2>1, <2>2, <2>3, <2>4 DEF BurstInv, BurstFits
<1>4. CASE state = "ADDR"
  <2>1. state' \in {"ADDR", "DATA"} /\ beatCount' = beatCount
        /\ (state' = "ADDR" => Removed(in) = 0)
    BY <1>4, <1>x DEF AxiState, AxiWait, AxiAddress, AxiData, AxiAck, AxiPause, Removed, Reads
  <2> QED BY <1>1, <1>2, <1>4, <2>1 DEF BurstInv
<1>5. CASE state = "DATA"
  <2>1. /\ state' \in {"DATA", "ACK"}
        /\ beatCount' = IF in.bus = "ready" THEN Less(beatCount) ELSE beatCount
        /\ in.bus = "ready" /\ beatCount = 0 => state' = "ACK"
    BY <1>5, <1>x DEF AxiState, AxiWait, AxiAddress, AxiData, AxiAck, AxiPause
  <2>2. in.bus # "ready" => Removed(in) = 0
    BY DEF Removed, Reads
  <2>3. Len(fifo) >= beatCount
    BY <1>5 DEF BurstInv
  <2> QED BY <1>1, <1>2, <2>1, <2>2, <2>3 DEF BurstInv, Less
<1>6. CASE state \in {"ACK", "PAUSE"}
  <2>1. state' \notin {"ADDR", "DATA"}
    BY <1>6, <1>x DEF AxiState, AxiWait, AxiAddress, AxiData, AxiAck, AxiPause, AfterAck
  <2> QED BY <2>1 DEF BurstInv
<1> QED BY <1>2, <1>3, <1>4, <1>5, <1>6

\* What a cycle moves between the FIFO, the bus and the memory.
LEMMA BusStep ==
  ASSUME TypeOK, ArmingInv, BurstInv,
         NEW in \in Inputs, NEW with \in Requests, Clock(in, with), ~Arms(in)
  PROVE  /\ Beat(in) => /\ Driven = 1 /\ Driven' = Removed(in)
                        /\ writeAddr' = (writeAddr + 1) % ACQ_CAPACITY
                        /\ busAddr' = (busAddr + 1) % ACQ_CAPACITY
                        /\ memory' = [memory EXCEPT ![busAddr] = fifoOut]
         /\ ~Beat(in) => /\ Driven' = Driven + Removed(in)
                         /\ writeAddr' = writeAddr
                         /\ busAddr' = IF Removed(in) = 1 THEN writeAddr ELSE busAddr
                         /\ memory' = memory
<1>1. /\ beatCount \in Nat /\ state \in {"WAIT", "ADDR", "DATA", "ACK", "PAUSE"}
      /\ fifo \in Seq(Word) /\ Len(fifo) \in Nat
  BY DEF TypeOK
<1>2. fifoEmpty <=> Len(fifo) = 0
  BY <1>1, EmptySeq DEF fifoEmpty
<1>x. AxiState(in) /\ WriteAddress(in) /\ Memory(in)
  BY DEF Clock
<1>3. CASE Beat(in)
  <2>1. state = "DATA" /\ in.bus = "ready" /\ Driven = 1
    BY <1>3 DEF Beat, Driven
  <2>2. Reads(in) <=> beatCount # 0
    BY <2>1 DEF Reads
  <2>3. Len(fifo) >= beatCount
    BY <2>1 DEF BurstInv
  <2>4. Removed(in) = IF beatCount = 0 THEN 0 ELSE 1
    BY <1>1, <1>2, <2>2, <2>3 DEF Removed
  <2>5. state' = IF beatCount = 0 THEN "ACK" ELSE "DATA"
    BY <1>x, <2>1 DEF AxiState, AxiWait, AxiAddress, AxiData, AxiAck, AxiPause
  <2>6. Driven' = Removed(in)
    BY <2>4, <2>5 DEF Driven
  <2> QED BY <1>3, <1>x, <2>1, <2>6 DEF WriteAddress, Memory
<1>4. CASE ~Beat(in) /\ state = "ADDR" /\ in.bus = "ready"
  <2>1. Reads(in) /\ Len(fifo) > beatCount
    BY <1>4 DEF Reads, BurstInv
  <2>2. Removed(in) = 1
    BY <1>1, <1>2, <2>1 DEF Removed
  <2>3. state' = "DATA"
    BY <1>x, <1>4 DEF AxiState, AxiWait, AxiAddress, AxiData, AxiAck, AxiPause
  <2> QED BY <1>4, <1>x, <2>2, <2>3 DEF WriteAddress, Memory, Driven
<1>5. CASE ~Beat(in) /\ ~(state = "ADDR" /\ in.bus = "ready")
  <2>1. ~Reads(in) /\ Removed(in) = 0
    BY <1>5 DEF Reads, Removed, Beat
  <2>2. state' = "DATA" <=> state = "DATA"
    BY <1>x, <1>1, <1>5 DEF AxiState, AxiWait, AxiAddress, AxiData, AxiAck, AxiPause,
       Beat, AfterAck
  <2>3. Driven' = Driven
    BY <2>2 DEF Driven
  <2>4. Driven + 0 = Driven
    BY DEF Driven
  <2> QED BY <1>5, <1>x, <2>1, <2>3, <2>4 DEF WriteAddress, Memory
<1> QED BY <1>3, <1>4, <1>5

LEMMA StepStream ==
  ASSUME RecorderAssumption, ~ArmsWhileDraining, TypeOK, ArmingInv, RestInv, BurstInv, StreamInv,
         NEW in \in Inputs, NEW with \in Requests, Clock(in, with)
  PROVE  StreamInv'
<1> SUFFICES ASSUME overrun' = "no"
             PROVE  /\ Stored' >= 0 /\ writeAddr' = Stored' % ACQ_CAPACITY
                    /\ state' = "DATA" => busAddr' = writeAddr'
                                          /\ fifoOut' = <<arms', Stored'>>
                    /\ \A i \in 1..Len(fifo') :
                         fifo'[i] = <<arms', Stored' + Driven' + i - 1>>
                    /\ \A i \in 0..(Stored' - 1) :
                         Stored' <= i + ACQ_CAPACITY
                           => memory'[i % ACQ_CAPACITY] = <<arms', i>>
  BY DEF StreamInv
<1>t. /\ ACQ_CAPACITY \in Nat /\ ACQ_CAPACITY > 0 /\ samples \in Nat
      /\ busAddr \in 0..(ACQ_CAPACITY - 1) /\ fifo \in Seq(Word) /\ Len(fifo) \in Nat
      /\ memory \in [0..(ACQ_CAPACITY - 1) -> Word]
  BY DEF RecorderAssumption, TypeOK
<1>f. /\ Removed(in) \in {0, 1} /\ Removed(in) <= Len(fifo) /\ Added(in) \in {0, 1}
      /\ Len(fifo') = Len(fifo) - Removed(in) + Added(in)
      /\ \A i \in 1..(Len(fifo) - Removed(in)) : fifo'[i] = fifo[i + Removed(in)]
      /\ Added(in) = 1 => fifo'[Len(fifo) - Removed(in) + 1] = <<arms, samples>>
      /\ fifoOut' = IF Removed(in) = 1 THEN fifo[1] ELSE fifoOut
  BY FifoStep DEF Removed, Added
<1>1. CASE Arms(in)
  <2>1. Drained /\ ~Takes(in) /\ fifoRst = "no"
    BY <1>1, ArmFinds, ArmWaits
  <2>2. fifoEmpty /\ state \in {"WAIT", "PAUSE"}
    BY <2>1 DEF Drained
  <2>3. Len(fifo') = 0
    <3>1. fifo' = <<>>
      BY <2>1, <2>2 DEF Clock, Fifo, fifoEmpty
    <3> QED BY <3>1
  <2>4. state' \in {"WAIT", "PAUSE"} /\ samples' = 0 /\ writeAddr' = 0
    BY <1>1, <2>2, RestStays DEF Clock, History, WriteAddress, Beat
  <2>5. Stored' = 0
    <3>1. Driven' = 0
      BY <2>4 DEF Driven
    <3> QED BY <2>3, <2>4, <3>1 DEF Stored
  <2>6. 0 % ACQ_CAPACITY = 0
    BY <1>t
  <2> QED BY <2>3, <2>4, <2>5, <2>6
<1>2. CASE ~Arms(in)
  <2>1. overrun = "no" /\ ~fifoFull
    BY <1>2 DEF Clock, StatusBits, OverrunBit
  <2>2. samples' = samples + Added(in) /\ arms' = arms
    BY <1>2, <1>t, <2>1 DEF Clock, History, Added
  <2> DEFINE S == Stored
             M == ACQ_CAPACITY
             r == Removed(in)
             d == Driven
  <2>3. /\ S >= 0 /\ writeAddr = S % M
        /\ state = "DATA" => busAddr = writeAddr /\ fifoOut = <<arms, S>>
        /\ \A i \in 1..Len(fifo) : fifo[i] = <<arms, S + d + i - 1>>
        /\ \A i \in 0..(S - 1) : S <= i + M => memory[i % M] = <<arms, i>>
    BY <2>1 DEF StreamInv
  <2>4. d \in {0, 1} /\ S = samples - Len(fifo) - d /\ S \in Nat
    BY <1>t, <2>3 DEF Driven, Stored
  <2>5. Stored' = samples' - Len(fifo') - Driven'
    BY DEF Stored
  <2>n. /\ samples \in Nat /\ Len(fifo) \in Nat /\ r \in {0, 1} /\ Added(in) \in {0, 1}
        /\ Len(fifo') = Len(fifo) - r + Added(in)
    BY <1>t, <1>f
  <2>b. state' = "DATA" <=> Driven' = 1
    BY DEF Driven
  <2>f. /\ r <= Len(fifo)
        /\ \A i \in 1..(Len(fifo) - r) : fifo'[i] = fifo[i + r]
        /\ Added(in) = 1 => fifo'[Len(fifo) - r + 1] = <<arms, samples>>
        /\ fifoOut' = IF r = 1 THEN fifo[1] ELSE fifoOut
    BY <1>f
  <2> HIDE DEF S, r, d
  \* What enters comes after what is there, and what leaves is next.
  <2>6. ASSUME Stored' + Driven' = S + d + r
        PROVE  \A i \in 1..Len(fifo') : fifo'[i] = <<arms', Stored' + Driven' + i - 1>>
    <3> SUFFICES ASSUME NEW i \in 1..Len(fifo')
                 PROVE  fifo'[i] = <<arms, S + d + r + i - 1>>
      BY <2>2, <2>6
    <3>1. i \in Nat /\ i >= 1 /\ i <= Len(fifo) - r + Added(in)
      BY <1>t, <2>n, <2>f
    <3>2. CASE i <= Len(fifo) - r
      <4>1. i \in 1..(Len(fifo) - r) /\ i + r \in 1..Len(fifo)
        BY <1>t, <2>n, <2>f, <3>1, <3>2
      <4>2. fifo'[i] = fifo[i + r]
        BY <2>f, <4>1
      <4>3. fifo[i + r] = <<arms, S + d + (i + r) - 1>>
        BY <2>3, <4>1
      <4>4. S + d + (i + r) - 1 = S + d + r + i - 1
        BY <2>n, <2>f, <2>4, <3>1
      <4> QED BY <4>2, <4>3, <4>4
    <3>3. CASE ~(i <= Len(fifo) - r)
      <4>1. Added(in) = 1 /\ i = Len(fifo) - r + 1
        BY <1>t, <2>n, <2>f, <3>1, <3>3
      <4>2. fifo'[i] = <<arms, samples>>
        BY <2>f, <4>1
      <4>3. samples = S + d + r + i - 1
        BY <2>n, <2>4, <4>1
      <4> QED BY <4>2, <4>3
    <3> QED BY <3>2, <3>3
  <2>7. r = 1 => fifo[1] = <<arms, S + d>>
    <3> SUFFICES ASSUME r = 1 PROVE fifo[1] = <<arms, S + d>>
      OBVIOUS
    <3>1. 1 \in 1..Len(fifo)
      BY <1>t, <2>f
    <3>2. S + d + 1 - 1 = S + d
      BY <2>4
    <3> QED BY <2>3, <3>1, <3>2
  <2>8. CASE Beat(in)
    <3>1. /\ d = 1 /\ Driven' = r
          /\ writeAddr' = (writeAddr + 1) % M /\ busAddr' = (busAddr + 1) % M
          /\ memory' = [memory EXCEPT ![busAddr] = fifoOut]
      BY <1>2, <2>8, BusStep DEF d, r
    <3>2. busAddr = S % M /\ fifoOut = <<arms, S>> /\ writeAddr = busAddr
      BY <2>3, <2>8 DEF Beat
    <3>3. Stored' = S + 1
      <4>1. samples' - Len(fifo') = samples - Len(fifo) + r
        BY <2>n, <2>2
      <4>2. Stored' = (samples - Len(fifo) + r) - r
        BY <2>5, <3>1, <4>1
      <4> QED BY <2>n, <2>4, <3>1, <4>2
    <3>4. writeAddr' = (S + 1) % M
      <4> HIDE DEF M
      <4>1. ((S % M) + 1) % M = (S + 1) % M
        <5>1. M \in Nat /\ M > 0 /\ S \in Nat
          BY <1>t, <2>4 DEF M
        <5>2. \A b \in Nat : ((S % M) + b) % M = (S + b) % M
          BY <5>1, RemainderOfSum
        <5> QED BY <5>2
      <4> QED BY <3>1, <3>2, <4>1
    <3>5. r = 1 => fifoOut' = <<arms', Stored'>>
      BY <2>f, <2>2, <2>7, <3>1, <3>3
    <3>6. ASSUME NEW i \in 0..(Stored' - 1), Stored' <= i + M
          PROVE  memory'[i % M] = <<arms', i>>
      <4>1. i \in Nat /\ i <= S
        BY <2>4, <3>3, <3>6
      <4>2. i % M \in 0..(M - 1)
        <5> HIDE DEF M
        <5> QED BY <1>t, <4>1, Rounds DEF M
      <4>3. CASE i = S
        BY <1>t, <2>2, <3>1, <3>2, <4>2, <4>3
      <4>4. CASE i # S
        <5>1. i \in 0..(S - 1) /\ S <= i + M /\ S < i + M /\ i < S
          <6>1. S \in Nat /\ S + 1 <= i + M /\ M \in Nat
            BY <1>t, <2>4, <3>3, <3>6
          <6> HIDE DEF M
          <6> QED BY <4>1, <4>4, <6>1
        <5>2. i % M # S % M
          <6> SUFFICES ASSUME i % M = S % M PROVE FALSE
            OBVIOUS
          <6> HIDE DEF M
          <6>1. i + M <= S
            BY <1>t, <2>4, <4>1, <5>1, RemainderApart DEF M
          <6> QED BY <1>t, <2>4, <4>1, <5>1, <6>1 DEF M
        <5>3. memory[i % M] = <<arms, i>>
          BY <2>3, <5>1
        <5> QED BY <1>t, <2>2, <3>1, <3>2, <4>2, <5>2, <5>3
      <4> QED BY <4>3, <4>4
    <3>7. Stored' + Driven' = S + d + r
      BY <2>f, <2>4, <3>1, <3>3
    <3>8. busAddr' = writeAddr' /\ Stored' >= 0
      BY <2>4, <3>1, <3>2, <3>3
    <3> QED BY <2>6, <2>b, <3>1, <3>3, <3>4, <3>5, <3>6, <3>7, <3>8
  <2>9. CASE ~Beat(in)
    <3>1. /\ Driven' = d + r /\ writeAddr' = writeAddr /\ memory' = memory
          /\ busAddr' = IF r = 1 THEN writeAddr ELSE busAddr
      BY <1>2, <2>9, BusStep DEF d, r
    <3>2. Stored' = S
      <4>1. samples' - Len(fifo') = samples - Len(fifo) + r
        BY <2>n, <2>2
      <4>2. Stored' = (samples - Len(fifo) + r) - (d + r)
        BY <2>5, <3>1, <4>1
      <4> QED BY <2>n, <2>4, <4>2
    <3>3. Stored' + Driven' = S + d + r
      BY <2>n, <2>f, <2>4, <3>1, <3>2
    <3>4. state' = "DATA" => busAddr' = writeAddr' /\ fifoOut' = <<arms', Stored'>>
      <4> SUFFICES ASSUME state' = "DATA"
                   PROVE  busAddr' = writeAddr' /\ fifoOut' = <<arms', Stored'>>
        OBVIOUS
      <4>1. d + r = 1
        BY <2>b, <3>1
      <4>2. CASE r = 1
        <5>1. d = 0 /\ S + d = S
          BY <2>4, <4>1, <4>2
        <5> QED BY <2>f, <2>2, <2>7, <3>1, <3>2, <4>2, <5>1
      <4>3. CASE r = 0
        <5>1. state = "DATA"
          BY <4>1, <4>3 DEF Driven, d
        <5> QED BY <2>f, <2>2, <2>3, <3>1, <3>2, <4>3, <5>1
      <4> QED BY <2>n, <2>f, <4>2, <4>3
    <3>5. \A i \in 0..(Stored' - 1) : Stored' <= i + M => memory'[i % M] = <<arms', i>>
      BY <2>2, <2>3, <3>1, <3>2
    <3>6. writeAddr' = Stored' % M /\ Stored' >= 0
      BY <2>3, <2>4, <3>1, <3>2
    <3> QED BY <2>6, <3>3, <3>4, <3>5, <3>6
  <2> QED BY <2>8, <2>9
<1> QED BY <1>1, <1>2

\* The invariant shows the window.
LEMMA WindowFollows ==
  ASSUME RecorderAssumption, TypeOK, WindowInv
  PROVE  WindowRecorded
<1> DEFINE count == request.count
           past == IF request.pretrig <= count THEN count - request.pretrig ELSE 0
           first == acqWhenTriggered + past - count
           M == ACQ_CAPACITY
<1> SUFFICES ASSUME full = "yes", Drained, overrun = "no", NEW k \in 0..(count - 1)
             PROVE  memory[(writeAddr + M - count + k) % M] = <<arms, first + k>>
  BY DEF WindowRecorded
<1>1. /\ M \in Nat /\ M > 0 /\ samples \in Nat /\ count \in 1..M
      /\ request.pretrig \in Nat /\ acqWhenTriggered \in Nat /\ k \in Nat
      /\ count \in Nat /\ count <= M /\ k < count
  BY DEF RecorderAssumption, TypeOK
<1>2. samples = acqWhenTriggered + past /\ acqWhenTriggered >= request.pretrig
  BY DEF WindowInv, CountInv, PastTrigger
<1>3. count <= samples /\ first = samples - count
  BY <1>1, <1>2
<1>4. Stored = samples
  <2>1. Len(fifo) = 0 /\ Driven = 0
    BY DEF Drained, fifoEmpty, Driven
  <2> QED BY <1>1, <2>1 DEF Stored
<1>5. /\ writeAddr = samples % M
      /\ \A i \in 0..(samples - 1) : samples <= i + M => memory[i % M] = <<arms, i>>
  BY <1>4 DEF WindowInv, StreamInv
<1> HIDE DEF first
<1> DEFINE i == samples - count + k
           x == M - count + k
<1>6. i \in Nat /\ i \in 0..(samples - 1) /\ samples <= i + M /\ x \in Nat
  BY <1>1, <1>3
<1>7. writeAddr + M - count + k = (samples % M) + x
  <2>1. samples % M \in Nat
    BY <1>1, Rounds
  <2> QED BY <1>1, <1>5, <2>1
<1>8. samples + x = i + M
  BY <1>1, <1>3
<1> HIDE DEF i, x, M, count
<1>9. ((samples % M) + x) % M = (samples + x) % M
  BY <1>1, <1>6, RemainderOfSum
<1>10. (i + M) % M = i % M
  BY <1>1, <1>6, RemainderOfRound
<1>11. memory[i % M] = <<arms, i>>
  BY <1>5, <1>6
<1>12. i = first + k
  BY <1>1, <1>3 DEF i
<1> QED BY <1>7, <1>8, <1>9, <1>10, <1>11, <1>12

\* The counts do not depend on when the arms come.
LEMMA CountsHold == Spec => [](TypeOK /\ ArmingInv /\ CountInv)
<1>1. Init => ArmingInv /\ CountInv
  BY RecorderAssumption, InitWindow DEF WindowInv
<1>2. TypeOK /\ ArmingInv /\ CountInv /\ [Next]_vars => (ArmingInv /\ CountInv)'
  <2> SUFFICES ASSUME TypeOK, ArmingInv, CountInv, [Next]_vars PROVE (ArmingInv /\ CountInv)'
    OBVIOUS
  <2>1. CASE Next
    <3>1. PICK in \in Inputs, with \in Requests : Clock(in, with)
      BY <2>1, RecorderAssumption, RegistersHoldRequests
    <3> QED BY <3>1, RecorderAssumption, StepArming, StepCount
  <2>2. CASE UNCHANGED vars
    BY <2>2 DEF vars, armVars, countVars, ArmingInv, CountInv, ArmedCounts,
       WaitingCounts, TriggeredCounts, PastTrigger
  <2> QED BY <2>1, <2>2
<1> QED BY <1>1, <1>2, TypeCorrect, PTL DEF Spec

\* What is recorded is recorded in order, when the arms wait.
LEMMA WindowHolds ==
  ASSUME ~ArmsWhileDraining
  PROVE  Spec => [](TypeOK /\ WindowInv)
<1>1. Init => RestInv /\ BurstInv /\ StreamInv
  BY RecorderAssumption, InitWindow DEF WindowInv
<1>2. TypeOK /\ WindowInv /\ [Next]_vars => (RestInv /\ BurstInv /\ StreamInv)'
  <2> SUFFICES ASSUME TypeOK, WindowInv, [Next]_vars PROVE (RestInv /\ BurstInv /\ StreamInv)'
    OBVIOUS
  <2>1. CASE Next
    <3>1. PICK in \in Inputs, with \in Requests : Clock(in, with)
      BY <2>1, RecorderAssumption, RegistersHoldRequests
    <3>2. ArmingInv /\ RestInv /\ BurstInv /\ StreamInv
      BY DEF WindowInv
    <3>3. RestInv'
      BY <3>1, <3>2, StepRest
    <3>4. BurstInv' /\ StreamInv'
      BY <3>1, <3>2, RecorderAssumption, StepBurst, StepStream
    <3> QED BY <3>3, <3>4
  <2>2. CASE UNCHANGED vars
    BY <2>2 DEF WindowInv, vars, axiVars, RestInv, Drained, fifoEmpty, BurstInv,
       StreamInv, Stored, Driven
  <2> QED BY <2>1, <2>2
<1>3. TypeOK /\ ArmingInv /\ CountInv /\ RestInv /\ BurstInv /\ StreamInv => TypeOK /\ WindowInv
  BY DEF WindowInv
<1>4. TypeOK /\ ArmingInv /\ CountInv /\ (RestInv /\ BurstInv /\ StreamInv) /\ [Next]_vars
        => (RestInv /\ BurstInv /\ StreamInv)'
  BY <1>2, <1>3
<1> QED BY <1>1, <1>3, <1>4, CountsHold, PTL DEF Spec

\* When every arm waits for the last acquisition to drain, a full recorder
\* that reports no loss and no failed burst holds, once drained, the window
\* around the trigger that was asked for: for every ring, burst length, FIFO,
\* bus timing and number of acquisitions (the counters, the FIFO and the AXI
\* master of genericWaveformRecorder.v).
THEOREM WindowsAreRecorded ==
  ASSUME ~ArmsWhileDraining
  PROVE  Spec => []WindowRecorded
<1>1. TypeOK /\ WindowInv => WindowRecorded
  BY RecorderAssumption, WindowFollows
<1> QED BY <1>1, WindowHolds, PTL

\* Once everything has reached it the ring is that of the recording, all of it
\* that one lap holds, and the write address is the next one: what the software
\* reads of any full recorder, for every ring and request (writeAddr and the
\* beats of genericWaveformRecorder.v).
THEOREM RingHoldsRecording ==
  ASSUME ~ArmsWhileDraining
  PROVE  Spec => []RingIsRecording
<1>1. ASSUME TypeOK, WindowInv PROVE RingIsRecording
  <2> SUFFICES ASSUME Drained, overrun = "no"
               PROVE  writeAddr = Recorded!NextAddress /\ Recorded!HeldBy(memory)
    BY DEF RingIsRecording
  <2>1. Stored = samples
    <3>1. Len(fifo) = 0 /\ Driven = 0
      BY DEF Drained, fifoEmpty, Driven
    <3>2. samples \in Nat
      BY <1>1 DEF TypeOK
    <3> QED BY <3>1, <3>2 DEF Stored
  <2>2. /\ writeAddr = samples % ACQ_CAPACITY
        /\ \A i \in 0..(samples - 1) :
             samples <= i + ACQ_CAPACITY => memory[i % ACQ_CAPACITY] = <<arms, i>>
    BY <1>1, <2>1 DEF WindowInv, StreamInv
  <2> QED BY <2>2 DEF Recorded!NextAddress, Recorded!HeldBy
<1> QED BY <1>1, WindowHolds, PTL

-----------------------------------------------------------------------------
(* The abstract recorder.                                                  *)

LEMMA InitRecorded == Init => Recorded!Init
BY DEF Init, Recorded!Init, CsrBits

LEMMA RequestTypes ==
  ASSUME TypeOK
  PROVE  request.pretrig \in Nat /\ request.count \in Nat /\ acqWhenTriggered \in Nat
<1>1. request \in [pretrig : 0..ACQ_CAPACITY, count : 1..ACQ_CAPACITY]
  BY DEF TypeOK
<1>2. acqWhenTriggered \in Nat
  BY DEF TypeOK
<1> QED BY <1>1, <1>2, RecorderAssumption

\* A full recorder has counted down, from what it was armed with, to zero.
LEMMA FullHasCounted ==
  ASSUME TypeOK, CountInv, full = "yes"
  PROVE  samples >= request.count /\ acqPreArmed = "no" /\ acqArmed = "no"
<1>1. /\ acqWhenTriggered \in Nat /\ request.pretrig \in Nat /\ request.count \in Nat
  BY RequestTypes
<1>2. /\ acqArmed = "no" /\ acqPreArmed = "no" /\ acqWhenTriggered >= request.pretrig
      /\ samples = acqWhenTriggered + PastTrigger
  BY DEF CountInv
<1> QED BY <1>1, <1>2 DEF PastTrigger

LEMMA CycleRecorded ==
  ASSUME TypeOK, TypeOK', ArmingInv, CountInv, CountInv',
         NEW in \in Inputs, NEW with \in Requests, Clock(in, with)
  PROVE  [Recorded!Next]_(Recorded!vars)
<1>t. acqPreArmed \in Bit /\ acqArmed \in Bit /\ full \in Bit
  BY DEF TypeOK
<1>1. CASE Arms(in)
  <2>1. /\ acqPreArmed = "no" /\ in.csr = "arm" /\ ~Completes(in) /\ ~Aborts(in)
    BY <1>1, ArmFinds
  <2>2. CsrBits # "ARMED"
    BY <2>1 DEF CsrBits
  <2>3. CsrBits' = "ARMED"
    BY <2>1 DEF Clock, ArmBits, StatusBits, CsrBits
  <2>4. request'.count = with.count /\ samples' = 0 /\ arms' = arms + 1
    BY <1>1 DEF Clock, History
  <2>5. Recorded!Arm(with.count)
    BY <2>2, <2>3, <2>4 DEF Recorded!Arm
  <2> QED BY <2>5 DEF Recorded!Next
<1>2. CASE ~Arms(in) /\ full = "no" /\ acqPreArmed = "yes"
  <2>1. /\ UNCHANGED <<request, arms>>
        /\ samples' = IF Takes(in) THEN samples + 1 ELSE samples
    BY <1>2 DEF Clock, History
  <2>2. CsrBits = "ARMED"
    BY <1>2 DEF CsrBits
  <2>3. CASE Completes(in)
    <3>1. full' = "yes" /\ samples' = samples
      BY <2>1, <2>3 DEF Clock, StatusBits, Completes, Takes
    <3>2. samples >= request.count
      <4>1. request.pretrig \in Nat /\ request.count \in Nat
        BY RequestTypes
      <4>2. acqWhenTriggered' \in Nat
        BY DEF TypeOK
      <4>3. /\ acqWhenTriggered' >= request'.pretrig
            /\ samples' = acqWhenTriggered' + PastTrigger'
        BY <3>1 DEF CountInv
      <4> QED BY <2>1, <3>1, <4>1, <4>2, <4>3 DEF PastTrigger
    <3>3. Recorded!Fill
      BY <2>1, <2>2, <3>1, <3>2 DEF Recorded!Fill, CsrBits
    <3> QED BY <3>3 DEF Recorded!Next
  <2>4. CASE ~Completes(in)
    <3>1. full' = "no"
      BY <1>2, <2>4 DEF Clock, StatusBits
    <3>2. CASE acqPreArmed' = "yes"
      <4>1. CsrBits' = "ARMED"
        BY <3>1, <3>2 DEF CsrBits
      <4>2. CASE Takes(in)
        BY <2>1, <2>2, <4>1, <4>2 DEF Recorded!Record, Recorded!Next
      <4>3. CASE ~Takes(in)
        BY <2>1, <2>2, <4>1, <4>3 DEF Recorded!vars
      <4> QED BY <4>2, <4>3
    <3>3. CASE acqPreArmed' # "yes"
      <4>1. CsrBits' = "DISARMED"
        BY <3>1, <3>3 DEF CsrBits
      <4>2. Recorded!Stop
        BY <2>1, <2>2, <4>1 DEF Recorded!Stop
      <4> QED BY <4>2 DEF Recorded!Next
    <3> QED BY <3>2, <3>3
  <2> QED BY <2>3, <2>4
<1>3. CASE ~Arms(in) /\ ~(full = "no" /\ acqPreArmed = "yes")
  <2>1. acqPreArmed = "no" /\ acqArmed = "no"
    <3>1. CASE full = "yes"
      BY <3>1, FullHasCounted
    <3>2. CASE full # "yes"
      BY <1>3, <1>t, <3>2 DEF ArmingInv, Bit
    <3> QED BY <3>1, <3>2
  <2>2. ~Takes(in) /\ ~Completes(in) /\ in.csr # "arm"
    BY <1>3, <2>1 DEF Takes, Completes, Arms
  <2>3. UNCHANGED <<request, arms, samples>>
    BY <1>3, <2>2 DEF Clock, History
  <2>4. acqPreArmed' = "no" /\ full' = IF in.csr # "none" THEN "no" ELSE full
    BY <2>1, <2>2 DEF Clock, ArmBits, StatusBits
  <2>5. CASE CsrBits' = CsrBits
    BY <2>3, <2>5 DEF Recorded!vars
  <2>6. CASE CsrBits' # CsrBits
    <3>1. CsrBits = "FULL" /\ CsrBits' = "DISARMED"
      BY <2>1, <2>4, <2>6 DEF CsrBits
    <3>2. Recorded!Stop
      BY <2>3, <3>1 DEF Recorded!Stop
    <3> QED BY <3>2 DEF Recorded!Next
  <2> QED BY <2>5, <2>6
<1> QED BY <1>t, <1>1, <1>2, <1>3

\* The recorder implements WaveformRecording, whenever arms come and whatever
\* the bus answers: FULL means that as many samples were taken since the arm as
\* were asked for then, and nothing is taken but between the two (acqArmed,
\* acqLeft and full of genericWaveformRecorder.v).
THEOREM RecorderImplementsRecording == Spec => ImplementsRecording
<1>1. ASSUME TypeOK, ArmingInv, CountInv, TypeOK', CountInv', [Next]_vars
      PROVE  [Recorded!Next]_(Recorded!vars)
  <2>1. CASE Next
    <3>1. PICK in \in Inputs, with \in Requests : Clock(in, with)
      BY <2>1, RecorderAssumption, RegistersHoldRequests
    <3> QED BY <1>1, <3>1, CycleRecorded
  <2>2. CASE UNCHANGED vars
    BY <2>2 DEF vars, armVars, Recorded!vars, CsrBits
  <2> QED BY <1>1, <2>1, <2>2
<1> QED BY <1>1, InitRecorded, CountsHold, PTL DEF Spec, ImplementsRecording, Recorded!Spec

==============================================================================
