----------------------------- MODULE ForwardData -----------------------------
(***************************************************************************)
(* forwardData.v, the clock-domain crossing that carries every register    *)
(* between the processor's clock and the data clocks: a latch in the input *)
(* domain, a request that toggles, and the request sampled back as the     *)
(* acknowledgement.  The two clocks are unrelated: a step is a rising edge *)
(* of either, in any order and at any rate.  A synchroniser that samples   *)
(* a changing bit gets the old or the new one, which is what the two       *)
(* orders of the edges give.                                               *)
(*                                                                         *)
(* A latch of many bits that is sampled while it may change gives bits of  *)
(* both values: such a sample is any value at all.                         *)
(***************************************************************************)
EXTENDS Integers

CONSTANT Values          \* what inData can be

VARIABLES
  inData,                            \* driven by the logic around it
  inReq, inLatch, inAck_m, inAck,    \* registers clocked by inClk
  outReq_m, outReq, outReq_d, outData \* registers clocked by outClk

inVars == <<inReq, inLatch, inAck_m, inAck>>
outVars == <<outReq_m, outReq, outReq_d, outData>>
crossingVars == <<inData, inVars, outVars>>

\* The registers without an initial value hold anything at power-up.
CrossingInit ==
  /\ inData \in Values /\ inLatch \in Values /\ outData \in Values
  /\ inReq = 0 /\ inAck_m = 0 /\ inAck = 0
  /\ outReq_m = 0 /\ outReq = 0 /\ outReq_d = 0

\* The variants named ...Mutant are faults the properties must catch;
\* nothing else uses them.

\* The last request has been acknowledged.
MayLatch == inReq = inAck

\* A request is the other level of inReq.
Request == 1 - inReq

\* The request has come through the synchroniser, and is new.
ArrivesMutant == outReq_m # outReq_d
Arrives == outReq # outReq_d

\* What the output register takes when the latch is, or is not, at rest.
Sampled == IF MayLatch THEN Values ELSE {inLatch}

\* posedge inClk
InClock ==
  /\ IF MayLatch THEN inReq' = Request /\ inLatch' = inData
                 ELSE UNCHANGED <<inReq, inLatch>>
  /\ inAck_m' = outReq_d
  /\ inAck' = inAck_m

\* posedge outClk
OutClock ==
  /\ outReq_m' = inReq
  /\ outReq' = outReq_m
  /\ outReq_d' = outReq
  /\ IF Arrives THEN outData' \in Sampled ELSE UNCHANGED outData

\* The logic that drives inData.
Change ==
  /\ inData' \in Values /\ inData' # inData
  /\ UNCHANGED <<inVars, outVars>>

InEdge == InClock /\ UNCHANGED <<inData, outVars>>
OutEdge == OutClock /\ UNCHANGED <<inData, inVars>>

CrossingNext == InEdge \/ OutEdge \/ Change
CrossingSpec == CrossingInit /\ [][CrossingNext]_crossingVars

\* Both clocks run.
CrossingFair == WF_crossingVars(InEdge) /\ WF_crossingVars(OutEdge)

-----------------------------------------------------------------------------
Bits == {0, 1}

CrossingTypes ==
  /\ {inData, inLatch, outData} \subseteq Values
  /\ {inReq, inAck_m, inAck, outReq_m, outReq, outReq_d} \subseteq Bits

(* The six registers form a ring, inverted once, through which one change  *)
(* of level travels: at most one register differs from the one before it.  *)
OneChangeInFlight ==
  \/ inReq = outReq_m /\ outReq_m = outReq /\ outReq = outReq_d /\ outReq_d = inAck_m
  \/ inReq # outReq_m /\ outReq_m = outReq /\ outReq = outReq_d /\ outReq_d = inAck_m
       /\ inAck_m = inAck
  \/ inReq = outReq_m /\ outReq_m # outReq /\ outReq = outReq_d /\ outReq_d = inAck_m
       /\ inAck_m = inAck
  \/ inReq = outReq_m /\ outReq_m = outReq /\ outReq # outReq_d /\ outReq_d = inAck_m
       /\ inAck_m = inAck
  \/ inReq = outReq_m /\ outReq_m = outReq /\ outReq = outReq_d /\ outReq_d # inAck_m
       /\ inAck_m = inAck

(* The latch is at rest from the moment the output domain can decide to    *)
(* sample it until it has done so, whatever the ratio of the clocks.       *)
LatchAtRest == outReq # outReq_d => ~MayLatch

(* The crossing is a mailbox, full from the latching of a value to its     *)
(* sampling: no value is torn, lost or delivered twice.                    *)
Box == INSTANCE Mailbox WITH
         box <- inLatch, out <- outData,
         status <- IF inReq = outReq_d THEN "empty" ELSE "full"
ImplementsMailbox == Box!Spec

(* A value that stays at the input reaches the output and stays there.     *)
=============================================================================
