--------------------------- MODULE WaveformRecorder ---------------------------
(***************************************************************************)
(* One waveform recorder of the gateware, genericWaveformRecorder.v, in    *)
(* its data clock domain: the control bits, the trigger, the sample count, *)
(* the FIFO between the data and the bus, and the AXI write master, with   *)
(* the memory behind the bus.  A step is one rising edge of clk; every     *)
(* register takes its value from the registers before the edge and from    *)
(* the inputs of that cycle, as the nonblocking assignments do.            *)
(*                                                                         *)
(* A word is <<acquisition, index of its sample>>; test and diagnostic     *)
(* data, and the pairing of two samples in one word, only change what a    *)
(* word carries and are left out.  Address bits above the ring are left    *)
(* out too: an address is an index into the ring.                          *)
(***************************************************************************)
EXTENDS Integers, Sequences

CONSTANTS
  ACQ_CAPACITY,        \* words in the ring
  MULTI_BEAT_LENGTH,   \* beats of a long burst
  FIFO_CAPACITY,
  PauseCycles,         \* pauseCount when it is loaded; 0: no pause at all
  Requests,            \* [pretrig, count] the registers may hold at an arm
  ArmsWhileDraining,   \* TRUE: an arm may come before the last one has drained
  BusErrors,           \* TRUE: a burst may be answered with an error
  MaxArms,             \* bound: effective arms
  MaxWait              \* bound: samples of an acquisition before its trigger

ASSUME RecorderAssumption ==
  /\ MULTI_BEAT_LENGTH \in Nat \ {0}
  /\ ACQ_CAPACITY \in Nat /\ MULTI_BEAT_LENGTH <= ACQ_CAPACITY
  /\ FIFO_CAPACITY \in Nat /\ MULTI_BEAT_LENGTH <= FIFO_CAPACITY
  /\ PauseCycles \in Nat
  /\ Requests \subseteq [pretrig : 0..ACQ_CAPACITY, count : 1..ACQ_CAPACITY]
  /\ Requests # {}
  /\ ArmsWhileDraining \in BOOLEAN /\ BusErrors \in BOOLEAN
  /\ MaxArms \in Nat /\ MaxWait \in Nat

VARIABLES
  acqPreArmed, acqPreArmed_d, acqArmed,
  full, overrun, csrBRESP,              \* the status bits of the CSR
  acqPretrigLeft, acqLeft,
  triggerFlag, triggered,
  acqWhenTriggered,                     \* the time stamp: an index of sample
  fifo, fifoRst,
  fifoOut,                              \* the word last read, driven as WDATA
  state, beatCount, writeAddr, pauseCount,
  memory,                               \* what the bus has stored
  busAddr,                              \* the slave's address of the next beat
  \* history, for the properties and the bounds
  request,   \* what the present acquisition was armed with
  samples,   \* samples taken since the arm; the index of the next one
  lost,      \* "yes": the full FIFO refused one of them
  failed,    \* a burst was answered with an error while "armed", or "late"
  arms

armVars == <<acqPreArmed, acqPreArmed_d, acqArmed>>
countVars == <<acqPretrigLeft, acqLeft, triggerFlag, triggered, acqWhenTriggered>>
axiVars == <<state, beatCount, writeAddr, pauseCount>>
vars == <<armVars, full, overrun, csrBRESP, countVars, fifo, fifoRst, fifoOut,
          axiVars, memory, busAddr, request, samples, lost, failed, arms>>

-----------------------------------------------------------------------------
(* Inputs of one cycle.  csr is csrStrobe with csrArmed: "none" without a  *)
(* strobe.  bus is "ready" for AWREADY, WREADY or an OKAY BVALID,          *)
(* whichever the state waits for, and "error" for any other BVALID.        *)

Inputs == [valid : BOOLEAN, edge : BOOLEAN, csr : {"none", "arm", "disarm"},
           bus : {"wait", "ready", "error"}]

fifoEmpty == fifo = <<>>
fifoFull == Len(fifo) = FIFO_CAPACITY

\* Everything recorded has reached the memory.
Drained == fifoEmpty /\ state \in {"WAIT", "PAUSE"}

\* What the surroundings of the recorder can do in a cycle.  Commands come
\* through the clock crossing, so none comes in the cycle after an arm; a
\* sample and a trigger are ignored, and so not offered, while disarmed.
Possible(in) ==
  /\ in.valid => acqArmed = "yes" /\ (triggerFlag = "yes" \/ samples < MaxWait)
  /\ in.edge => acqArmed = "yes"
  /\ in.csr # "none" => fifoRst = "no"
  /\ in.csr = "arm" => \/ acqPreArmed = "yes"
                       \/ arms < MaxArms /\ (ArmsWhileDraining \/ Drained)
  /\ in.bus = "ready" => state \in {"ADDR", "DATA", "ACK"}
  /\ in.bus = "error" => BusErrors /\ state = "ACK"

-----------------------------------------------------------------------------
(* The events of a cycle.  The variants named ...Mutant here and below are *)
(* faults the properties must catch; nothing else uses them.               *)

\* An arm command takes effect.
Arms(in) == in.csr = "arm" /\ acqPreArmed = "no"

\* A sample is presented to the FIFO (fifo_wr_en).
Takes(in) ==
  in.valid /\ acqArmed = "yes" /\ (triggerFlag = "no" \/ acqLeft # 0)

\* The first sample past the last one wanted ends the acquisition.
CompletesMutant(in) ==
  /\ in.valid /\ acqArmed = "yes" /\ triggerFlag = "yes" /\ acqLeft <= 1
  /\ in.csr = "none"
Completes(in) ==
  /\ in.valid /\ acqArmed = "yes" /\ triggerFlag = "yes" /\ acqLeft = 0
  /\ in.csr = "none"

\* An error response disarms the recorder, except under a command.
Aborts(in) == in.bus = "error" /\ in.csr = "none"

\* A word leaves the FIFO (fifo_rd_en).
Reads(in) ==
  /\ in.bus = "ready"
  /\ state = "ADDR" \/ (state = "DATA" /\ beatCount # 0)

Beat(in) == in.bus = "ready" /\ state = "DATA"

-----------------------------------------------------------------------------
(* The registers.                                                          *)

ArmBits(in) ==
  LET stop == Completes(in) \/ Aborts(in) \/ in.csr = "disarm"
  IN  /\ acqPreArmed_d' = acqPreArmed
      /\ acqPreArmed' = IF stop THEN "no"
                        ELSE IF in.csr = "arm" THEN "yes" ELSE acqPreArmed
      /\ acqArmed' = IF acqPreArmed = "yes" /\ acqPreArmed_d = "no"
                        /\ ~Aborts(in) /\ ~Completes(in)
                     THEN "yes" ELSE IF stop THEN "no" ELSE acqArmed

\* overrun: a full FIFO sets it, lost sample or not; an arm clears it.
OverrunBit(in) ==
  overrun' = IF Arms(in) THEN "no" ELSE IF fifoFull THEN "yes" ELSE overrun

StatusBits(in) ==
  /\ OverrunBit(in)
  /\ full' = IF Completes(in) THEN "yes"
             ELSE IF in.csr # "none" THEN "no" ELSE full
  /\ csrBRESP' = IF state = "ACK" /\ in.bus # "wait"
                 THEN (IF in.bus = "error" THEN "error" ELSE "okay") ELSE csrBRESP

\* A trigger counts once the pretrigger samples have been taken.
TriggersMutant(in) == in.edge /\ acqArmed = "yes"
Triggers(in) == in.edge /\ acqArmed = "yes" /\ acqPretrigLeft = 0

Trigger(in) ==
  IF acqArmed = "yes"
    THEN /\ triggerFlag' = IF Triggers(in) THEN "yes" ELSE triggerFlag
         /\ triggered' = IF in.valid /\ triggerFlag = "yes" THEN "yes" ELSE triggered
         /\ acqWhenTriggered' =
              IF in.valid /\ triggerFlag = "yes" /\ triggered = "no"
              THEN samples ELSE acqWhenTriggered
    ELSE triggerFlag' = "no" /\ triggered' = "no" /\ UNCHANGED acqWhenTriggered

\* A count that stays at zero.
Less(n) == IF n = 0 THEN 0 ELSE n - 1

\* Before the trigger a sample counts until the pretrigger samples are in;
\* the ones after that only move the window along.
Counts(in, with) ==
  LET before == in.valid /\ acqArmed = "yes" /\ triggerFlag = "no"
      after  == in.valid /\ acqArmed = "yes" /\ triggerFlag = "yes"
  IN  /\ acqPretrigLeft' = IF before THEN Less(acqPretrigLeft)
                           ELSE IF Arms(in) THEN with.pretrig ELSE acqPretrigLeft
      /\ acqLeft' = IF Aborts(in) THEN 0
                    ELSE IF after \/ (before /\ acqPretrigLeft # 0)
                      THEN Less(acqLeft)
                    ELSE IF Arms(in) THEN with.count ELSE acqLeft

\* The FIFO: its output register keeps its word when nothing is read, and
\* nothing is read from an empty FIFO nor written to a full one.
Fifo(in) ==
  LET word == <<arms, samples>>
      kept == IF Reads(in) /\ ~fifoEmpty THEN Tail(fifo) ELSE fifo
  IN  /\ fifoRst' = IF Arms(in) THEN "yes" ELSE "no"
      /\ fifoOut' = IF Reads(in) /\ ~fifoEmpty THEN Head(fifo) ELSE fifoOut
      /\ fifo' = IF fifoRst = "yes" THEN <<>>
                 ELSE IF Takes(in) /\ ~fifoFull THEN Append(kept, word) ELSE kept

-----------------------------------------------------------------------------
(* The AXI write master and the memory behind it.                          *)

\* A long burst needs its words in the FIFO and its addresses in the ring.
BurstFitsMutant ==
  Len(fifo) >= MULTI_BEAT_LENGTH /\ writeAddr < ACQ_CAPACITY
BurstFits ==
  /\ Len(fifo) >= MULTI_BEAT_LENGTH
  /\ writeAddr <= ACQ_CAPACITY - MULTI_BEAT_LENGTH

\* The state after an answered burst: HIGH_BANDWIDTH_MODE has no pause.
AfterAckMutant == "ACK"
AfterAck == IF PauseCycles = 0 THEN "WAIT" ELSE "PAUSE"

AxiWait ==
  /\ state = "WAIT"
  /\ state' = IF fifoEmpty THEN "WAIT" ELSE "ADDR"
  /\ beatCount' = IF fifoEmpty THEN beatCount
                  ELSE IF BurstFits THEN MULTI_BEAT_LENGTH - 1 ELSE 0
  /\ UNCHANGED pauseCount

AxiAddress(in) ==
  /\ state = "ADDR"
  /\ state' = IF in.bus = "ready" THEN "DATA" ELSE "ADDR"
  /\ UNCHANGED <<beatCount, pauseCount>>

AxiData(in) ==
  /\ state = "DATA"
  /\ state' = IF in.bus = "ready" /\ beatCount = 0 THEN "ACK" ELSE "DATA"
  /\ beatCount' = IF in.bus = "ready" THEN Less(beatCount) ELSE beatCount
  /\ UNCHANGED pauseCount

AxiAck(in) ==
  /\ state = "ACK"
  /\ state' = IF in.bus # "wait" THEN AfterAck ELSE "ACK"
  /\ pauseCount' = IF in.bus # "wait" THEN PauseCycles ELSE pauseCount
  /\ UNCHANGED beatCount

AxiPause ==
  /\ state = "PAUSE"
  /\ state' = IF pauseCount = 0 THEN "WAIT" ELSE "PAUSE"
  /\ pauseCount' = Less(pauseCount)
  /\ UNCHANGED beatCount

AxiState(in) ==
  \/ AxiWait \/ AxiAddress(in) \/ AxiData(in) \/ AxiAck(in) \/ AxiPause

\* The beat's increment is assigned after an arm's reset, and wins.
WriteAddress(in) ==
  writeAddr' = IF Beat(in) THEN (writeAddr + 1) % ACQ_CAPACITY
               ELSE IF Arms(in) THEN 0 ELSE writeAddr

\* The slave takes the address with the address beat, and stores each beat.
Memory(in) ==
  /\ busAddr' = IF in.bus = "ready" /\ state = "ADDR" THEN writeAddr
                ELSE IF Beat(in) THEN (busAddr + 1) % ACQ_CAPACITY ELSE busAddr
  /\ memory' = IF Beat(in) THEN [memory EXCEPT ![busAddr] = fifoOut] ELSE memory

History(in, with) ==
  IF Arms(in)
    THEN /\ request' = with /\ samples' = 0 /\ arms' = arms + 1
         /\ lost' = "no" /\ failed' = "no"
    ELSE /\ UNCHANGED <<request, arms>>
         /\ samples' = IF Takes(in) THEN samples + 1 ELSE samples
         /\ lost' = IF Takes(in) /\ fifoFull THEN "yes" ELSE lost
         /\ failed' = IF in.bus # "error" THEN failed
                     ELSE IF acqArmed = "yes" \/ failed = "armed"
                       THEN "armed" ELSE "late"

\* The ARM and IS_FULL bits, as the software reads them.
CsrBits == IF full = "yes" THEN "FULL"
           ELSE IF acqPreArmed = "yes" THEN "ARMED" ELSE "DISARMED"

-----------------------------------------------------------------------------
Init ==
  /\ acqPreArmed = "no" /\ acqPreArmed_d = "no" /\ acqArmed = "no"
  /\ full = "no" /\ overrun = "no" /\ csrBRESP = "okay"
  /\ acqPretrigLeft = 0 /\ acqLeft = 0 /\ acqWhenTriggered = 0
  /\ triggerFlag = "no" /\ triggered = "no"
  /\ fifo = <<>> /\ fifoRst = "no" /\ fifoOut = <<0, 0>>
  /\ state = "WAIT" /\ beatCount = 0 /\ writeAddr = 0 /\ pauseCount = 0
  /\ memory = [a \in 0..(ACQ_CAPACITY - 1) |-> <<0, 0>>] /\ busAddr = 0
  /\ request = [pretrig |-> 0, count |-> 1] /\ samples = 0
  /\ lost = "no" /\ failed = "no" /\ arms = 0

Clock(in, with) ==
  /\ Possible(in)
  /\ ArmBits(in) /\ StatusBits(in) /\ Trigger(in) /\ Counts(in, with)
  /\ Fifo(in) /\ AxiState(in) /\ WriteAddress(in) /\ Memory(in)
  /\ History(in, with)

\* The registers matter only to a cycle in which an arm takes effect.
Registers(in) == IF Arms(in) THEN Requests ELSE {CHOOSE r \in Requests : TRUE}

Next == \E in \in Inputs : \E with \in Registers(in) : Clock(in, with)

Spec == Init /\ [][Next]_vars

\* The bus answers in the end, the data keep coming, and the clock runs:
\* commands are much rarer than samples, so some sample meets no command.
Answered == \E in \in Inputs : in.bus # "wait" /\ \E with \in Registers(in) : Clock(in, with)
Sampled == \E in \in Inputs :
             in.valid /\ in.csr = "none" /\ \E with \in Registers(in) : Clock(in, with)
Moves == Next /\ (~fifoEmpty \/ state = "PAUSE")

FairSpec == Spec /\ WF_vars(Answered) /\ WF_vars(Sampled) /\ WF_vars(Moves)

-----------------------------------------------------------------------------
(* Properties.                                                             *)

Bit == {"no", "yes"}
Word == Nat \X Nat

\* Every register holds a value of its width.
TypeOK ==
  /\ acqPreArmed \in Bit /\ acqPreArmed_d \in Bit /\ acqArmed \in Bit
  /\ full \in Bit /\ overrun \in Bit /\ csrBRESP \in {"okay", "error"}
  /\ acqPretrigLeft \in 0..ACQ_CAPACITY /\ acqLeft \in 0..ACQ_CAPACITY
  /\ acqWhenTriggered \in Nat
  /\ triggerFlag \in Bit /\ triggered \in Bit
  /\ fifo \in Seq(Word) /\ Len(fifo) <= FIFO_CAPACITY
  /\ fifoRst \in Bit /\ fifoOut \in Word
  /\ state \in {"WAIT", "ADDR", "DATA", "ACK", "PAUSE"}
  /\ beatCount \in 0..(MULTI_BEAT_LENGTH - 1)
  /\ writeAddr \in 0..(ACQ_CAPACITY - 1) /\ busAddr \in 0..(ACQ_CAPACITY - 1)
  /\ pauseCount \in 0..PauseCycles
  /\ memory \in [0..(ACQ_CAPACITY - 1) -> Word]
  /\ request \in [pretrig : 0..ACQ_CAPACITY, count : 1..ACQ_CAPACITY]
  /\ samples \in Nat /\ lost \in Bit /\ failed \in {"no", "armed", "late"} /\ arms \in Nat

\* What the software and the IOC take from a full recorder: counting back
\* from the write address, the ring holds exactly the "count" samples that
\* end "count - pretrig" samples after the trigger's time stamp, in order,
\* whatever the number of laps, the bursts they went out in and the samples
\* that the FIFO held at the trigger.
WindowRecorded ==
  (full = "yes" /\ Drained /\ overrun = "no" /\ failed = "no") =>
    LET count == request.count
        past == IF request.pretrig <= count THEN count - request.pretrig ELSE 0
        first == acqWhenTriggered + past - count
    IN  \A k \in 0..(count - 1) :
          memory[(writeAddr + ACQ_CAPACITY - count + k) % ACQ_CAPACITY]
            = <<arms, first + k>>

\* A sample that the full FIFO refused always shows in OVERRUN, until the
\* next acquisition.
LossIsReported == lost = "yes" => overrun = "yes"

\* A burst never runs past the end of the ring, even when an arm resets the
\* write address under it: the memory beyond is another recorder's.
BurstInRing ==
  state \in {"ADDR", "DATA"} => writeAddr + beatCount < ACQ_CAPACITY

\* FULL is never shown of an acquisition that met a bus error while armed
\* (genericWaveformRecorder_test.py, do_bresp_error_test: "FULL should not
\* assert for a BRESP-aborted acquisition").
NoFullAfterError == full = "yes" => failed # "armed"

\* A full recorder gets its last words to the memory, or is armed again.
FullDrains == full = "yes" ~> (Drained \/ full = "no")

Recorded == INSTANCE WaveformRecording
  WITH Capacity <- ACQ_CAPACITY, ArmCounts <- {r.count : r \in Requests},
       hwState <- CsrBits, needed <- request.count,
       written <- samples, recordings <- arms

\* The gateware implements WaveformRecording: whatever the commands, the
\* triggers and the failed bursts, even when an arm comes before the last
\* acquisition has drained, samples are taken only between an arm and the end
\* of its acquisition, and FULL comes only when as many of them as the register
\* held at the arm have been taken, and is not shown of an armed recorder.
ImplementsRecording == Recorded!Spec

\* Once a full recorder has drained, its ring is what WaveformRecording says,
\* the oldest words left in it included, and the write address that the
\* software reads is the address of the next word.
RingIsRecording ==
  (full = "yes" /\ Drained /\ overrun = "no" /\ failed = "no") =>
    writeAddr = Recorded!NextAddress /\ Recorded!HeldBy(memory)

=============================================================================
