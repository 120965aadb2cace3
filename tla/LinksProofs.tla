----------------------------- MODULE LinksProofs -----------------------------
(***************************************************************************)
(* Links between clocks and boxes.  For ForwardData, with any values: the  *)
(* ring of request and acknowledgement registers never has two changes in  *)
(* flight, so the latch is at rest when it is sampled and the crossing is  *)
(* a mailbox.  For CellLink, with any ends and any times: what a rung of   *)
(* the ladder finds in the control register and how long ago the           *)
(* transceiver left its reset.  For RxAligner, with any times: how long a  *)
(* misframed stream has kept quiet.  The three share no state.             *)
(***************************************************************************)
EXTENDS ForwardData, CellLink, RxAligner, TLAPS

-----------------------------------------------------------------------------
\* The crossing of clock domains.
CrossingInv == CrossingTypes /\ OneChangeInFlight

\* Each level is copied from a level.
LEMMA StepTypes == CrossingTypes /\ OneChangeInFlight /\ [CrossingNext]_crossingVars => CrossingTypes'
<1> SUFFICES ASSUME CrossingTypes, OneChangeInFlight, [CrossingNext]_crossingVars PROVE CrossingTypes'
  OBVIOUS
<1>0. /\ inReq \in Bits /\ inAck_m \in Bits /\ inAck \in Bits
      /\ outReq_m \in Bits /\ outReq \in Bits /\ outReq_d \in Bits
      /\ inData \in Values /\ inLatch \in Values /\ outData \in Values
  BY DEF CrossingTypes
<1>1. CASE InEdge
  <2>1. inReq' \in Bits /\ inLatch' \in Values
    BY <1>0, <1>1 DEF InEdge, InClock, Request, Bits
  <2> QED BY <1>0, <1>1, <2>1 DEF InEdge, InClock, outVars, CrossingTypes
<1>2. CASE OutEdge
  <2>1. outData' \in Values
    BY <1>0, <1>2 DEF OutEdge, OutClock, Sampled
  <2> QED BY <1>0, <1>2, <2>1 DEF OutEdge, OutClock, inVars, CrossingTypes
<1>3. CASE Change
  BY <1>0, <1>3 DEF Change, inVars, outVars, CrossingTypes
<1>4. CASE UNCHANGED crossingVars
  BY <1>0, <1>4 DEF crossingVars, inVars, outVars, CrossingTypes
<1> QED BY <1>1, <1>2, <1>3, <1>4 DEF CrossingNext

\* An edge of either clock moves the change on by one register at most, and
\* a new request enters only when the last change has left the ring.
LEMMA StepRing == CrossingInv /\ [CrossingNext]_crossingVars => OneChangeInFlight'
<1> SUFFICES ASSUME CrossingInv, [CrossingNext]_crossingVars PROVE OneChangeInFlight'
  OBVIOUS
<1>0. /\ inReq \in {0, 1} /\ inAck_m \in {0, 1} /\ inAck \in {0, 1}
      /\ outReq_m \in {0, 1} /\ outReq \in {0, 1} /\ outReq_d \in {0, 1}
      /\ OneChangeInFlight
  BY DEF CrossingInv, CrossingTypes, Bits
<1>1. CASE InEdge
  <2>1. /\ inReq' = IF inReq = inAck THEN 1 - inReq ELSE inReq
        /\ inAck_m' = outReq_d /\ inAck' = inAck_m
        /\ UNCHANGED <<outReq_m, outReq, outReq_d>>
    BY <1>1 DEF InEdge, InClock, MayLatch, Request, outVars
  <2> QED BY <1>0, <2>1 DEF OneChangeInFlight
<1>2. CASE OutEdge
  <2>1. /\ outReq_m' = inReq /\ outReq' = outReq_m /\ outReq_d' = outReq
        /\ UNCHANGED <<inReq, inAck_m, inAck>>
    BY <1>2 DEF OutEdge, OutClock, inVars
  <2> QED BY <1>0, <2>1 DEF OneChangeInFlight
<1>3. CASE Change \/ UNCHANGED crossingVars
  BY <1>0, <1>3 DEF Change, crossingVars, inVars, outVars, OneChangeInFlight
<1> QED BY <1>1, <1>2, <1>3 DEF CrossingNext

\* The power-up levels are equal.
LEMMA CrossingStart == CrossingInit => CrossingInv
  BY DEF CrossingInit, CrossingInv, CrossingTypes, Bits, OneChangeInFlight

\* Registers hold levels and values, and one change at most is in flight.
THEOREM RingInvariant == CrossingSpec => []CrossingInv
<1>1. CrossingInv /\ [CrossingNext]_crossingVars => CrossingInv'
  BY StepTypes, StepRing DEF CrossingInv
<1> QED BY <1>1, CrossingStart, PTL DEF CrossingSpec

\* Wherever the one change is, it is not both before outReq_d and after inAck.
LEMMA RestsWhenSampled == CrossingInv => LatchAtRest
  BY DEF CrossingInv, CrossingTypes, Bits, OneChangeInFlight, LatchAtRest, MayLatch

\* forwardData.v never lets the latch move while it may be sampled.
THEOREM LatchRests == CrossingSpec => []LatchAtRest
  BY RingInvariant, RestsWhenSampled, PTL

-----------------------------------------------------------------------------
(* Refinement.                                                             *)

\* Power-up is an empty mailbox.
LEMMA InitIsBox == CrossingInit => Box!Init
  BY DEF CrossingInit, Box!Init

\* Latching puts, sampling takes, and every other edge is a stutter.
LEMMA StepIsBox == CrossingInv /\ [CrossingNext]_crossingVars => [Box!Next]_(Box!vars)
<1> SUFFICES ASSUME CrossingInv, [CrossingNext]_crossingVars PROVE [Box!Next]_(Box!vars)
  OBVIOUS
<1>0. /\ inReq \in {0, 1} /\ inAck_m \in {0, 1} /\ inAck \in {0, 1}
      /\ outReq_m \in {0, 1} /\ outReq \in {0, 1} /\ outReq_d \in {0, 1}
      /\ inData \in Values /\ OneChangeInFlight /\ LatchAtRest
  BY RestsWhenSampled DEF CrossingInv, CrossingTypes, Bits
<1>1. CASE InEdge /\ MayLatch
  <2>1. /\ inReq = outReq_d /\ inReq' # outReq_d' /\ inLatch' \in Values
        /\ UNCHANGED outData
    BY <1>0, <1>1
    DEF InEdge, InClock, MayLatch, Request, outVars, OneChangeInFlight
  <2> QED BY <2>1 DEF Box!Next, Box!Put
<1>2. CASE InEdge /\ ~MayLatch
  BY <1>2 DEF InEdge, InClock, outVars, Box!vars
<1>3. CASE OutEdge /\ Arrives
  <2>1. /\ inReq # outReq_d /\ inReq' = outReq_d' /\ outData' = inLatch
        /\ UNCHANGED inLatch
    BY <1>0, <1>3
    DEF OutEdge, OutClock, Arrives, Sampled, LatchAtRest, inVars, OneChangeInFlight
  <2> QED BY <2>1 DEF Box!Next, Box!Take
<1>4. CASE OutEdge /\ ~Arrives
  <2>1. UNCHANGED <<inLatch, outData, inReq, outReq_d>>
    BY <1>4 DEF OutEdge, OutClock, Arrives, inVars
  <2> QED BY <2>1 DEF Box!vars
<1>5. CASE Change \/ UNCHANGED crossingVars
  BY <1>5 DEF Change, crossingVars, inVars, outVars, Box!vars
<1> QED BY <1>1, <1>2, <1>3, <1>4, <1>5 DEF CrossingNext

\* forwardData.v is a mailbox.
THEOREM CrossingIsMailbox == CrossingSpec => ImplementsMailbox
  BY RingInvariant, InitIsBox, StepIsBox, PTL
  DEF CrossingSpec, ImplementsMailbox, Box!Spec

-----------------------------------------------------------------------------
\* The link of a cell controller.

\* The resets the software remembers in each state.
ControlOf(s) ==
  IF s = "BOTH_RESET" THEN Resets
  ELSE IF s \in {"AURORA_RESET1", "AURORA_RESET2"} THEN {"aurora"} ELSE {}

\* How the state of one end hangs together: p its phase, s its state, c its
\* control, r its register, t its elapsed time and g its sinceGt.
Fits(p, s, c, r, t, g) ==
  /\ s # "UP" => p = "main"
  /\ c = ControlOf(s)
  /\ r = IF p = "both" THEN Resets ELSE IF p = "aurora" THEN {"aurora"} ELSE c
  /\ r = {} \/ s = "AURORA_RESET1" => g >= WaitTime
  /\ p = "aurora" \/ s = "AURORA_RESET2" => g >= WaitTime \/ g >= t

EndFits(e) == Fits(phase[e], state[e], control[e], register[e], elapsed[e], sinceGt[e])
Consistent == \A e \in Ends : EndFits(e)
IInv == TypeOK /\ Consistent

LEMMA Times ==
  /\ DownTime \in Nat /\ ResetTime \in Nat /\ WaitTime \in Nat
  /\ MaxLatency \in Nat /\ TrainTime \in Nat /\ MaxFaults \in Nat
  /\ Wrap \in Nat /\ Wrap >= 2
<1>1. Wrap \in Nat /\ WaitTime \in 0..(Wrap - 2)
  BY CellLinkAssumption
<1>2. Wrap - 2 >= 0
  BY <1>1
<1> QED BY <1>1, <1>2, CellLinkAssumption

LEMMA Sets ==
  /\ Resets \ {"gt"} = {"aurora"} /\ {"aurora"} \ {"aurora"} = {}
  /\ {} \cup {"aurora"} = {"aurora"} /\ {} \cup Resets = Resets
  /\ Resets # {} /\ {"aurora"} # {} /\ "gt" \notin {"aurora"} /\ "gt" \in Resets
  /\ "aurora" \in Resets /\ "gt" \notin {} /\ {} \in SUBSET Resets
  /\ {"aurora"} \in SUBSET Resets
  BY DEF Resets

\* A counter that wraps around stays in range and never gets ahead.
LEMMA Wrapping ==
  ASSUME NEW t \in 0..(Wrap - 1)
  PROVE  (t + 1) % Wrap \in 0..(Wrap - 1) /\ (t + 1) % Wrap <= t + 1
<1>1. CASE t + 1 < Wrap
  <2>1. (t + 1) % Wrap = t + 1
    BY <1>1, Times
  <2> QED BY <2>1, <1>1, Times
<1>2. CASE t + 1 = Wrap
  <2>1. (t + 1) % Wrap \in 0..(Wrap - 1)
    BY Times
  <2> QED BY <2>1, <1>2, Times
<1> QED BY <1>1, <1>2, Times

States == {"UP", "DOWN1", "AURORA_RESET1", "DOWN2", "BOTH_RESET", "AURORA_RESET2"}

\* What TypeOK says, piece by piece.
LEMMA Types ==
  ASSUME TypeOK, NEW e \in Ends
  PROVE  /\ phase[e] \in {"both", "aurora", "wait", "main"} /\ state[e] \in States
         /\ elapsed[e] \in 0..(Wrap - 1) /\ waited[e] \in 0..MaxLatency
         /\ sinceGt[e] \in 0..WaitTime
  BY DEF TypeOK, States

\* A write of the register of one end.
LEMMA Written ==
  ASSUME TypeOK, NEW e \in Ends, NEW rs \in SUBSET Resets, Write(e, rs)
  PROVE  /\ register' \in [Ends -> SUBSET Resets] /\ sinceGt' \in [Ends -> 0..WaitTime]
         /\ trained' \in 0..TrainTime
         /\ register'[e] = rs /\ sinceGt'[e] = IF "gt" \in rs THEN 0 ELSE sinceGt[e]
         /\ \A f \in Ends \ {e} : register'[f] = register[f] /\ sinceGt'[f] = sinceGt[f]
<1>1. /\ register \in [Ends -> SUBSET Resets] /\ sinceGt \in [Ends -> 0..WaitTime]
      /\ trained \in 0..TrainTime
  BY DEF TypeOK
<1>2. 0 \in 0..TrainTime /\ 0 \in 0..WaitTime
  BY Times
<1>3. register' = [register EXCEPT ![e] = rs] /\ trained' \in {0, trained}
  BY DEF Write
<1>4. sinceGt' = IF "gt" \in rs THEN [sinceGt EXCEPT ![e] = 0] ELSE sinceGt
  BY DEF Write
<1> QED BY <1>1, <1>2, <1>3, <1>4

\* A step of one end's state.
LEMMA Moved ==
  ASSUME TypeOK, NEW e \in Ends, NEW s \in States, Goto(e, s)
  PROVE  /\ state' \in [Ends -> States] /\ elapsed' \in [Ends -> 0..(Wrap - 1)]
         /\ state'[e] = s /\ elapsed'[e] = 0
         /\ \A f \in Ends \ {e} : state'[f] = state[f] /\ elapsed'[f] = elapsed[f]
<1>1. state \in [Ends -> States] /\ elapsed \in [Ends -> 0..(Wrap - 1)]
  BY DEF TypeOK, States
<1>2. 0 \in 0..(Wrap - 1)
  BY Times
<1> QED BY <1>1, <1>2 DEF Goto

\* What is to be shown of the end that moves, when the other one does not.
LEMMA Frame ==
  ASSUME IInv, NEW e \in Ends, EndFits(e)',
         \A f \in Ends \ {e} :
           /\ phase'[f] = phase[f] /\ state'[f] = state[f] /\ control'[f] = control[f]
           /\ register'[f] = register[f] /\ elapsed'[f] = elapsed[f] /\ sinceGt'[f] = sinceGt[f]
  PROVE  Consistent'
<1>1. ASSUME NEW f \in Ends \ {e} PROVE EndFits(f)'
  BY <1>1 DEF IInv, Consistent, EndFits
<1> QED BY <1>1 DEF Consistent

\* A rung that finds the control register c and the time g since the
\* transceiver's reset, and leaves what fits the next state.
LEMMA Climbs ==
  ASSUME IInv, NEW e \in Ends, NEW from \in States, NEW to \in States,
         NEW rs \in SUBSET Resets, Rung(e, from, rs, to), phase[e] = "main",
         UNCHANGED <<phase, cable, faults>>, waited' = [waited EXCEPT ![e] = 0],
         rs = ControlOf(to),
         (rs = {} \/ to = "AURORA_RESET1") => sinceGt[e] >= WaitTime
  PROVE  IInv'
<1>1. TypeOK /\ WaitTime \in Nat
  BY Times DEF IInv
<1>2. Write(e, rs) /\ Goto(e, to) /\ control' = [control EXCEPT ![e] = rs]
  BY DEF Rung
<1>3. /\ register' \in [Ends -> SUBSET Resets] /\ sinceGt' \in [Ends -> 0..WaitTime]
      /\ trained' \in 0..TrainTime
      /\ register'[e] = rs /\ sinceGt'[e] = IF "gt" \in rs THEN 0 ELSE sinceGt[e]
      /\ \A f \in Ends \ {e} : register'[f] = register[f] /\ sinceGt'[f] = sinceGt[f]
  BY <1>1, <1>2, Written
<1>4. /\ state' \in [Ends -> States] /\ elapsed' \in [Ends -> 0..(Wrap - 1)]
      /\ state'[e] = to /\ elapsed'[e] = 0
      /\ \A f \in Ends \ {e} : state'[f] = state[f] /\ elapsed'[f] = elapsed[f]
  BY <1>1, <1>2, Moved
<1>5. /\ control' \in [Ends -> SUBSET Resets] /\ control'[e] = rs
      /\ \A f \in Ends \ {e} : control'[f] = control[f]
  BY <1>1, <1>2 DEF TypeOK
<1>6. TypeOK'
  <2>1. waited' \in [Ends -> 0..MaxLatency]
    BY <1>1, Times DEF TypeOK
  <2> QED BY <1>1, <1>3, <1>4, <1>5, <2>1 DEF TypeOK, States
<1>7. EndFits(e)'
  <2>1. sinceGt'[e] \in 0..WaitTime /\ sinceGt'[e] >= 0
    BY <1>3, Times
  <2>2. rs = {} \/ to = "AURORA_RESET1" => sinceGt'[e] >= WaitTime
    BY <1>3, Sets DEF ControlOf
  <2>3. phase'[e] = "main"
    OBVIOUS
  <2> QED BY <1>3, <1>4, <1>5, <2>1, <2>2, <2>3 DEF EndFits, Fits
<1> QED BY <1>3, <1>4, <1>5, <1>6, <1>7, Frame DEF IInv

\* The main loop cranks the ladder of one end.
LEMMA CrankKeeps ==
  ASSUME IInv, NEW e \in Ends, Crank(e)
  PROVE  IInv'
<1>1. TypeOK /\ EndFits(e) /\ WaitTime \in Nat /\ ResetTime \in Nat /\ MaxLatency \in Nat
  BY Times DEF IInv, Consistent
<1>2. /\ phase[e] = "main" /\ waited' = [waited EXCEPT ![e] = 0]
      /\ UNCHANGED <<phase, cable, faults>>
  BY DEF Crank
<1>3. /\ state[e] \in States /\ elapsed[e] \in 0..(Wrap - 1) /\ sinceGt[e] \in 0..WaitTime
  BY <1>1, Types
<1>4. /\ control[e] = ControlOf(state[e]) /\ register[e] = control[e]
      /\ register[e] = {} \/ state[e] = "AURORA_RESET1" => sinceGt[e] >= WaitTime
      /\ state[e] = "AURORA_RESET2" => sinceGt[e] >= WaitTime \/ sinceGt[e] >= elapsed[e]
  BY <1>1, <1>2 DEF EndFits, Fits
<1>5. waited' \in [Ends -> 0..MaxLatency]
  BY <1>1, <1>2 DEF TypeOK
<1>6. CASE Down(e)
  <2>1. /\ state[e] = "UP" /\ Goto(e, "DOWN1") /\ control' = [control EXCEPT ![e] = {}]
        /\ UNCHANGED <<register, sinceGt, trained>>
    BY <1>6 DEF Down
  <2>2. /\ state' \in [Ends -> States] /\ elapsed' \in [Ends -> 0..(Wrap - 1)]
        /\ state'[e] = "DOWN1" /\ elapsed'[e] = 0
        /\ \A f \in Ends \ {e} : state'[f] = state[f] /\ elapsed'[f] = elapsed[f]
    BY <1>1, <2>1, Moved DEF States
  <2>3. /\ control' \in [Ends -> SUBSET Resets] /\ control'[e] = {}
        /\ \A f \in Ends \ {e} : control'[f] = control[f]
    BY <1>1, <2>1 DEF TypeOK
  <2>4. TypeOK'
    BY <1>1, <1>2, <1>5, <2>1, <2>2, <2>3 DEF TypeOK, States
  <2>5. EndFits(e)'
    BY <1>2, <1>4, <2>1, <2>2, <2>3 DEF EndFits, Fits, ControlOf
  <2> QED BY <1>2, <2>1, <2>2, <2>3, <2>4, <2>5, Frame DEF IInv
<1>7. CASE Up(e)
  <2>1. /\ state[e] \in {"DOWN1", "DOWN2"} /\ Goto(e, "UP")
        /\ UNCHANGED <<control, register, sinceGt, trained>>
    BY <1>7 DEF Up
  <2>2. /\ state' \in [Ends -> States] /\ elapsed' \in [Ends -> 0..(Wrap - 1)]
        /\ state'[e] = "UP" /\ elapsed'[e] = 0
        /\ \A f \in Ends \ {e} : state'[f] = state[f] /\ elapsed'[f] = elapsed[f]
    BY <1>1, <2>1, Moved DEF States
  <2>3. TypeOK'
    BY <1>1, <1>2, <1>5, <2>1, <2>2 DEF TypeOK, States
  <2>4. EndFits(e)'
    BY <1>2, <1>4, <2>1, <2>2 DEF EndFits, Fits, ControlOf
  <2> QED BY <1>2, <2>1, <2>2, <2>3, <2>4, Frame DEF IInv
<1>8. CASE Reset1(e)
  <2>1. state[e] = "DOWN1" /\ control[e] = {} /\ register[e] = {}
    BY <1>4, <1>8 DEF Reset1, Rung, ControlOf
  <2>2. Rung(e, "DOWN1", {"aurora"}, "AURORA_RESET1")
    BY <1>8, <2>1, Sets DEF Reset1
  <2>3. {"aurora"} = ControlOf("AURORA_RESET1") /\ sinceGt[e] >= WaitTime
    BY <1>4, <2>1 DEF ControlOf
  <2> QED BY <1>2, <2>2, <2>3, Sets, Climbs DEF States
<1>9. CASE Release1(e)
  <2>1. state[e] = "AURORA_RESET1" /\ control[e] = {"aurora"}
    BY <1>4, <1>9 DEF Release1, Rung, ControlOf
  <2>2. Rung(e, "AURORA_RESET1", {}, "DOWN2")
    BY <1>9, <2>1, Sets DEF Release1
  <2>3. {} = ControlOf("DOWN2") /\ sinceGt[e] >= WaitTime
    BY <1>4, <2>1 DEF ControlOf
  <2> QED BY <1>2, <2>2, <2>3, Sets, Climbs DEF States
<1>10. CASE Reset2(e)
  <2>1. state[e] = "DOWN2" /\ control[e] = {}
    BY <1>4, <1>10 DEF Reset2, Rung, ControlOf
  <2>2. Rung(e, "DOWN2", Resets, "BOTH_RESET")
    BY <1>10, <2>1, Sets DEF Reset2
  <2>3. Resets = ControlOf("BOTH_RESET") /\ Resets # {}
    BY Sets DEF ControlOf
  <2> QED BY <1>2, <2>2, <2>3, Climbs DEF States
<1>11. CASE ReleaseGt(e)
  <2>1. state[e] = "BOTH_RESET" /\ control[e] = Resets
    BY <1>4, <1>11 DEF ReleaseGt, Rung, ControlOf
  <2>2. Rung(e, "BOTH_RESET", {"aurora"}, "AURORA_RESET2")
    BY <1>11, <2>1, Sets DEF ReleaseGt
  <2>3. {"aurora"} = ControlOf("AURORA_RESET2") /\ {"aurora"} # {}
    BY Sets DEF ControlOf
  <2> QED BY <1>2, <2>2, <2>3, Sets, Climbs DEF States
<1>12. CASE Release2(e)
  <2>1. /\ state[e] = "AURORA_RESET2" /\ control[e] = {"aurora"} /\ elapsed[e] > WaitTime
    BY <1>4, <1>12 DEF Release2, Rung, ControlOf, Timeout, Limit
  <2>2. Rung(e, "AURORA_RESET2", {}, "DOWN1")
    BY <1>12, <2>1, Sets DEF Release2
  <2>3. {} = ControlOf("DOWN1") /\ sinceGt[e] >= WaitTime
    BY <1>1, <1>3, <1>4, <2>1, Times DEF ControlOf
  <2> QED BY <1>2, <2>2, <2>3, Sets, Climbs DEF States
<1>13. CASE Stay(e)
  <2>1. UNCHANGED <<state, control, register, elapsed, sinceGt, trained>>
    BY <1>13 DEF Stay
  <2>2. TypeOK'
    BY <1>1, <1>2, <1>5, <2>1 DEF TypeOK
  <2> QED BY <1>2, <2>1, <2>2 DEF IInv, Consistent, EndFits
<1> QED BY <1>6, <1>7, <1>8, <1>9, <1>10, <1>11, <1>12, <1>13 DEF Crank

\* Initialisation lets go of the transceiver, then of Aurora.
LEMMA InitKeeps ==
  ASSUME IInv, NEW e \in Ends, InitReleases(e) \/ InitReturns(e)
  PROVE  IInv'
<1>1. TypeOK /\ EndFits(e) /\ WaitTime \in Nat /\ MaxLatency \in Nat /\ 0 \in 0..(Wrap - 1)
  BY Times DEF IInv, Consistent
<1>2. /\ state[e] \in States /\ elapsed[e] \in 0..(Wrap - 1) /\ sinceGt[e] \in 0..WaitTime
  BY <1>1, Types
<1>3. waited' \in [Ends -> 0..MaxLatency]
  BY <1>1 DEF TypeOK, InitReleases, InitReturns
<1>4. CASE phase[e] = "both" /\ InitReleases(e)
  <2>1. /\ Write(e, {"aurora"}) /\ phase' = [phase EXCEPT ![e] = "aurora"]
        /\ elapsed' = [elapsed EXCEPT ![e] = 0] /\ UNCHANGED <<state, control, cable, faults>>
    BY <1>4 DEF InitReleases
  <2>2. /\ register' \in [Ends -> SUBSET Resets] /\ sinceGt' \in [Ends -> 0..WaitTime]
        /\ trained' \in 0..TrainTime
        /\ register'[e] = {"aurora"} /\ sinceGt'[e] = sinceGt[e]
        /\ \A f \in Ends \ {e} : register'[f] = register[f] /\ sinceGt'[f] = sinceGt[f]
    BY <1>1, <2>1, Sets, Written
  <2>3. TypeOK'
    BY <1>1, <1>3, <2>1, <2>2 DEF TypeOK
  <2>4. phase'[e] = "aurora" /\ elapsed'[e] = 0
    BY <1>1, <2>1 DEF TypeOK
  <2>5. state'[e] = "UP" /\ control'[e] = {}
    BY <1>1, <1>4, <2>1 DEF EndFits, Fits, ControlOf
  <2>6. EndFits(e)'
    BY <1>2, <2>2, <2>4, <2>5, Sets DEF EndFits, Fits, ControlOf
  <2>7. \A f \in Ends \ {e} : phase'[f] = phase[f] /\ elapsed'[f] = elapsed[f]
    BY <1>1, <2>1 DEF TypeOK
  <2> QED BY <2>1, <2>2, <2>3, <2>6, <2>7, Frame DEF IInv
<1>5. CASE phase[e] = "aurora" /\ InitReleases(e)
  <2>1. /\ Write(e, {}) /\ phase' = [phase EXCEPT ![e] = "wait"] /\ elapsed[e] >= WaitTime
        /\ elapsed' = [elapsed EXCEPT ![e] = 0] /\ UNCHANGED <<state, control, cable, faults>>
    BY <1>5 DEF InitReleases
  <2>2. /\ register' \in [Ends -> SUBSET Resets] /\ sinceGt' \in [Ends -> 0..WaitTime]
        /\ trained' \in 0..TrainTime
        /\ register'[e] = {} /\ sinceGt'[e] = sinceGt[e]
        /\ \A f \in Ends \ {e} : register'[f] = register[f] /\ sinceGt'[f] = sinceGt[f]
    BY <1>1, <2>1, Sets, Written
  <2>3. TypeOK'
    BY <1>1, <1>3, <2>1, <2>2 DEF TypeOK
  <2>4. phase'[e] = "wait" /\ elapsed'[e] = 0
    BY <1>1, <2>1 DEF TypeOK
  <2>5. state'[e] = "UP" /\ control'[e] = {}
    BY <1>1, <1>5, <2>1 DEF EndFits, Fits, ControlOf
  <2>6. sinceGt[e] >= WaitTime
    BY <1>1, <1>2, <1>5, <2>1, Times DEF EndFits, Fits
  <2>7. EndFits(e)'
    BY <2>2, <2>4, <2>5, <2>6 DEF EndFits, Fits, ControlOf
  <2>8. \A f \in Ends \ {e} : phase'[f] = phase[f] /\ elapsed'[f] = elapsed[f]
    BY <1>1, <2>1 DEF TypeOK
  <2> QED BY <2>1, <2>2, <2>3, <2>7, <2>8, Frame DEF IInv
<1>6. CASE InitReturns(e)
  <2>1. /\ phase[e] = "wait" /\ phase' = [phase EXCEPT ![e] = "main"]
        /\ UNCHANGED <<state, control, register, elapsed, sinceGt, cable, trained, faults>>
    BY <1>6 DEF InitReturns
  <2>2. TypeOK'
    BY <1>1, <1>3, <2>1 DEF TypeOK
  <2>3. phase'[e] = "main" /\ \A f \in Ends \ {e} : phase'[f] = phase[f]
    BY <1>1, <2>1 DEF TypeOK
  <2>4. EndFits(e)'
    BY <1>1, <2>1, <2>3 DEF EndFits, Fits
  <2> QED BY <2>1, <2>2, <2>3, <2>4, Frame DEF IInv
<1> QED BY <1>4, <1>5, <1>6 DEF InitReleases

\* A restart asserts both resets.
LEMMA RestartKeeps ==
  ASSUME IInv, NEW e \in Ends, Restart(e)
  PROVE  IInv'
<1>1. TypeOK /\ WaitTime \in Nat /\ MaxLatency \in Nat /\ MaxFaults \in Nat
  BY Times DEF IInv
<1>2. /\ Write(e, Resets) /\ Goto(e, "UP") /\ phase' = [phase EXCEPT ![e] = "both"]
      /\ control' = [control EXCEPT ![e] = {}] /\ UNCHANGED cable
      /\ waited' = [waited EXCEPT ![e] = 0] /\ faults < MaxFaults /\ faults' = faults + 1
  BY DEF Restart
<1>3. /\ register' \in [Ends -> SUBSET Resets] /\ sinceGt' \in [Ends -> 0..WaitTime]
      /\ trained' \in 0..TrainTime /\ register'[e] = Resets
      /\ \A f \in Ends \ {e} : register'[f] = register[f] /\ sinceGt'[f] = sinceGt[f]
  BY <1>1, <1>2, Written
<1>4. /\ state' \in [Ends -> States] /\ elapsed' \in [Ends -> 0..(Wrap - 1)]
      /\ state'[e] = "UP" /\ elapsed'[e] = 0
      /\ \A f \in Ends \ {e} : state'[f] = state[f] /\ elapsed'[f] = elapsed[f]
  BY <1>1, <1>2, Moved DEF States
<1>5. /\ phase'[e] = "both" /\ control'[e] = {}
      /\ \A f \in Ends \ {e} : phase'[f] = phase[f] /\ control'[f] = control[f]
  BY <1>1, <1>2 DEF TypeOK
<1>6. TypeOK'
  <2>1. waited' \in [Ends -> 0..MaxLatency] /\ faults' \in 0..MaxFaults
    BY <1>1, <1>2 DEF TypeOK
  <2>2. /\ phase' \in [Ends -> {"both", "aurora", "wait", "main"}]
        /\ control' \in [Ends -> SUBSET Resets] /\ cable' \in {"in", "out"}
    BY <1>1, <1>2 DEF TypeOK
  <2> QED BY <1>3, <1>4, <2>1, <2>2 DEF TypeOK, States
<1>7. EndFits(e)'
  BY <1>3, <1>4, <1>5, Sets DEF EndFits, Fits, ControlOf
<1> QED BY <1>3, <1>4, <1>5, <1>6, <1>7, Frame DEF IInv

\* Time keeps what an end knows of its transceiver's reset.
LEMMA TickKeeps == IInv /\ Tick => IInv'
<1> SUFFICES ASSUME IInv, Tick PROVE IInv'
  OBVIOUS
<1>1. TypeOK /\ WaitTime \in Nat /\ Wrap \in Nat /\ MaxLatency \in Nat /\ TrainTime \in Nat
  BY Times DEF IInv
<1>2. UNCHANGED <<phase, state, control, register, cable, faults>>
  BY DEF Tick
<1>3. ASSUME NEW e \in Ends
      PROVE  /\ elapsed'[e] \in 0..(Wrap - 1) /\ waited'[e] \in 0..MaxLatency
             /\ sinceGt'[e] \in 0..WaitTime /\ EndFits(e)'
  <2>1. EndFits(e)
    BY DEF IInv, Consistent
  <2>2. /\ phase[e] \in {"both", "aurora", "wait", "main"} /\ state[e] \in States
        /\ elapsed[e] \in 0..(Wrap - 1) /\ waited[e] \in 0..MaxLatency
        /\ sinceGt[e] \in 0..WaitTime
    BY <1>1, Types
  <2>3. elapsed'[e] = IF phase[e] \in {"main", "wait"} /\ state[e] = "UP" THEN 0
                      ELSE (elapsed[e] + 1) % Wrap
    BY DEF Tick
  <2>4. sinceGt'[e] = IF "gt" \in register[e] THEN 0
                      ELSE IF sinceGt[e] < WaitTime THEN sinceGt[e] + 1 ELSE sinceGt[e]
    BY DEF Tick
  <2>5. /\ waited'[e] = IF phase[e] \in {"main", "wait"} THEN waited[e] + 1 ELSE 0
        /\ phase[e] \in {"main", "wait"} => waited[e] < MaxLatency
    BY DEF Tick
  <2>6. elapsed'[e] \in 0..(Wrap - 1) /\ elapsed'[e] <= elapsed[e] + 1
    <3>1. (elapsed[e] + 1) % Wrap \in 0..(Wrap - 1) /\ (elapsed[e] + 1) % Wrap <= elapsed[e] + 1
      BY <2>2, Wrapping
    <3> QED BY <2>2, <2>3, <3>1, Times
  <2>7. waited'[e] \in 0..MaxLatency /\ sinceGt'[e] \in 0..WaitTime
    BY <1>1, <2>2, <2>4, <2>5
  <2>8. /\ phase'[e] = phase[e] /\ state'[e] = state[e] /\ control'[e] = control[e]
        /\ register'[e] = register[e]
    BY <1>2
  <2>9. /\ state[e] # "UP" => phase[e] = "main"
        /\ control[e] = ControlOf(state[e])
        /\ register[e] = IF phase[e] = "both" THEN Resets
                         ELSE IF phase[e] = "aurora" THEN {"aurora"} ELSE control[e]
        /\ register[e] = {} \/ state[e] = "AURORA_RESET1" => sinceGt[e] >= WaitTime
        /\ phase[e] = "aurora" \/ state[e] = "AURORA_RESET2" =>
             sinceGt[e] >= WaitTime \/ sinceGt[e] >= elapsed[e]
    BY <2>1 DEF EndFits, Fits
  <2>10. register[e] = {} \/ state[e] = "AURORA_RESET1" => sinceGt'[e] >= WaitTime
    <3>1. register[e] = {} \/ state[e] = "AURORA_RESET1" => "gt" \notin register[e]
      BY <2>9, Sets DEF ControlOf
    <3> QED BY <1>1, <2>2, <2>4, <2>9, <3>1
  <2>11. phase[e] = "aurora" \/ state[e] = "AURORA_RESET2" =>
           sinceGt'[e] >= WaitTime \/ sinceGt'[e] >= elapsed'[e]
    <3>1. phase[e] = "aurora" \/ state[e] = "AURORA_RESET2" => "gt" \notin register[e]
      BY <2>9, Sets DEF ControlOf
    <3> QED BY <1>1, <2>2, <2>4, <2>6, <2>9, <3>1
  <2>12. EndFits(e)'
    BY <2>8, <2>9, <2>10, <2>11 DEF EndFits, Fits
  <2> QED BY <2>6, <2>7, <2>12
<1>4. /\ elapsed' \in [Ends -> 0..(Wrap - 1)] /\ waited' \in [Ends -> 0..MaxLatency]
      /\ sinceGt' \in [Ends -> 0..WaitTime]
  <2>1. /\ elapsed' = [e \in Ends |-> elapsed'[e]] /\ waited' = [e \in Ends |-> waited'[e]]
        /\ sinceGt' = [e \in Ends |-> sinceGt'[e]]
    BY DEF Tick
  <2> QED BY <1>3, <2>1
<1>5. trained' \in 0..TrainTime
  BY <1>1 DEF Tick, TypeOK, ChannelUp
<1>6. TypeOK'
  BY <1>1, <1>2, <1>4, <1>5 DEF TypeOK
<1> QED BY <1>3, <1>6 DEF IInv, Consistent

\* All that can happen keeps the invariant.
LEMMA NextKeeps == IInv /\ [Next]_vars => IInv'
<1> SUFFICES ASSUME IInv, [Next]_vars PROVE IInv'
  OBVIOUS
<1>1. CASE \E e \in Ends : Crank(e) \/ InitReleases(e) \/ InitReturns(e) \/ Restart(e)
  BY <1>1, CrankKeeps, InitKeeps, RestartKeeps
<1>2. CASE Unplug \/ Plug
  <2>1. UNCHANGED <<phase, state, control, register, elapsed, waited, sinceGt>>
    BY <1>2 DEF Unplug, Plug
  <2>2. TypeOK'
    BY <1>2, <2>1, Times DEF Unplug, Plug, TypeOK, IInv
  <2> QED BY <2>1, <2>2 DEF IInv, Consistent, EndFits
<1>3. CASE Tick
  BY <1>3, TickKeeps
<1>4. CASE UNCHANGED vars
  <2>1. TypeOK'
    BY <1>4 DEF vars, IInv, TypeOK
  <2> QED BY <1>4, <2>1 DEF vars, IInv, Consistent, EndFits
<1> QED BY <1>1, <1>2, <1>3, <1>4 DEF Next

LEMMA InitInv == Init => IInv
<1> SUFFICES ASSUME Init PROVE IInv
  OBVIOUS
<1>1. TypeOK
  BY Times, Sets DEF Init, TypeOK
<1>2. ASSUME NEW e \in Ends PROVE EndFits(e)
  BY <1>2, Times, Sets DEF Init, EndFits, Fits, ControlOf
<1> QED BY <1>1, <1>2 DEF IInv, Consistent

\* In every reachable state each end is consistent, for any times.
THEOREM LadderInvariant == Spec => []IInv
  BY InitInv, NextKeeps, PTL DEF Spec

\* The state of the crank, its cached control word and its times keep their types.
THEOREM TypeCorrect == Spec => []TypeOK
<1>1. IInv => TypeOK
  BY DEF IInv
<1> QED BY <1>1, LadderInvariant, PTL

\* The register holds what cellp->control says, and nothing is left asserted
\* in a link that waits to come up.
THEOREM ResetsAreLetGo == Spec => []NothingLeftAsserted
<1>1. IInv => NothingLeftAsserted
  BY DEF IInv, Consistent, EndFits, Fits, ControlOf, NothingLeftAsserted
<1> QED BY <1>1, LadderInvariant, PTL

\* Aurora leaves its reset only when the transceiver has been out of its own
\* for the settling time, in cellCommInit and in every turn of the ladder.
THEOREM ResetsAreNested == Spec => []AuroraOutlastsTransceiver
<1>1. ASSUME IInv, NEW e \in Ends, "aurora" \notin register[e]
      PROVE  sinceGt[e] >= WaitTime
  <2>1. EndFits(e)
    BY <1>1 DEF IInv, Consistent
  <2>2. register[e] = {}
    BY <1>1, <2>1, Sets DEF EndFits, Fits, ControlOf
  <2> QED BY <2>1, <2>2 DEF EndFits, Fits
<1>2. IInv => AuroraOutlastsTransceiver
  BY <1>1 DEF AuroraOutlastsTransceiver
<1> QED BY <1>2, LadderInvariant, PTL

-----------------------------------------------------------------------------
\* The alignment of the event receiver.
RxStates == {"APPLY_RESET", "HOLD_RESET", "AWAIT_RESET_COMPLETION", "POST_RESET_DELAY",
             "CONFIRM_ALIGNMENT", "ALIGNMENT_ACHIEVED", "ALIGNED"}
RxTypes ==
  /\ rxState \in RxStates /\ rxElapsed \in Nat /\ stale \in Nat /\ held \in Nat
  /\ {gtReset} \subseteq {"on", "off"} /\ {resetsDone, framed, synced} \subseteq YesNo

\* The reset is asserted in one state only, for as long as that was entered;
\* the counter may have wrapped since.
HeldSinceEntered ==
  /\ gtReset = "on" <=> rxState = "HOLD_RESET"
  /\ gtReset = "on" => rxElapsed <= held \/ held > HoldTime

\* Past the reset the receiver is out of it, and a stream that is misframed
\* and shows no error has shown none since the state was entered.
Confirming == rxState \in {"POST_RESET_DELAY", "CONFIRM_ALIGNMENT"}
SilentSinceEntered ==
  /\ Confirming \/ rxState = "ALIGNMENT_ACHIEVED" => resetsDone = "yes"
  /\ Misleading => stale <= StaleTime
  /\ Misleading /\ Confirming => rxElapsed <= stale
AchievedIsFramed == rxState = "ALIGNMENT_ACHIEVED" => framed = "yes"

RxInv ==
  RxTypes /\ HeldSinceEntered /\ SilentSinceEntered /\ AchievedIsFramed /\ SyncedToFramed

LEMMA RxTimes ==
  /\ HoldTime \in Nat /\ ConfirmTime \in Nat /\ StaleTime \in Nat /\ StaleTime <= ConfirmTime
  /\ RxWrap \in Nat /\ RxWrap > 0
BY RxAlignerAssumption, ConfirmAssumption

\* A counter that wraps never gets ahead.
LEMMA LaterIsNoMore == ASSUME NEW t \in Nat PROVE Later(t) \in Nat /\ Later(t) <= t + 1
BY RxTimes, SMTT(30) DEF Later

LEMMA RxStart == RxInit => RxInv
BY RxTimes DEF RxInit, RxInv, RxTypes, RxStates, YesNo, HeldSinceEntered, SilentSinceEntered,
               Confirming, Misleading, AchievedIsFramed, SyncedToFramed

\* Each state of the machine leaves what the next one rests on.
LEMMA RxCrankKeeps == ASSUME RxInv, RxCrank PROVE RxInv'
<1> USE DEF RxInv, RxTypes, RxStates, YesNo, HeldSinceEntered, SilentSinceEntered, Confirming,
            Misleading, AchievedIsFramed, SyncedToFramed, KeepCsr, WriteCsr, RxGoto
<1>0. UNCHANGED <<framed, synced, stale>>
  BY DEF RxCrank
<1>1. CASE ApplyReset
  BY <1>0, <1>1, RxTimes DEF ApplyReset
<1>2. CASE HoldReset
  BY <1>0, <1>2, RxTimes DEF HoldReset
<1>3. CASE AwaitResetCompletion
  BY <1>0, <1>3, RxTimes DEF AwaitResetCompletion
<1>4. CASE PostResetDelay
  BY <1>0, <1>4, RxTimes DEF PostResetDelay, Confirm
<1>5. CASE ConfirmAlignment
  BY <1>0, <1>5, RxTimes DEF ConfirmAlignment, Confirm
<1>6. CASE AlignmentAchieved
  BY <1>0, <1>6, RxTimes DEF AlignmentAchieved
<1>7. CASE Aligned
  BY <1>0, <1>7, RxTimes DEF Aligned
<1> QED BY <1>1, <1>2, <1>3, <1>4, <1>5, <1>6, <1>7 DEF RxCrank

LEMMA RxStep == RxInv /\ [RxNext]_rxVars => RxInv'
<1> SUFFICES ASSUME RxInv, [RxNext]_rxVars PROVE RxInv'
  OBVIOUS
<1>1. CASE InitAligns \/ Poll
  BY <1>1, RxCrankKeeps DEF InitAligns, Poll
<1> USE DEF RxInv, RxTypes, RxStates, YesNo, HeldSinceEntered, SilentSinceEntered, Confirming,
            Misleading, AchievedIsFramed, SyncedToFramed
<1>2. CASE InitAwaits \/ EnterMain \/ UNCHANGED rxVars
  BY <1>2 DEF InitAwaits, EnterMain, rxVars, hardware
<1>3. ASSUME NEW f \in YesNo, ResetCompletes(f) PROVE RxInv'
  BY <1>3, RxTimes DEF ResetCompletes
<1>4. CASE DataError
  BY <1>4 DEF DataError
<1>5. CASE CommasSeen
  BY <1>5 DEF CommasSeen, Settling
<1>6. CASE RxTick
  BY <1>6, LaterIsNoMore, RxTimes DEF RxTick
<1> QED BY <1>1, <1>2, <1>3, <1>4, <1>5, <1>6 DEF RxNext, YesNo

\* The converters are synchronised to a receiver that is framed: a stream that
\* is not cannot keep the detector quiet for as long as alignment is confirmed,
\* though what it shows at first is of the time before the reset, and however
\* late or often the polls are. (mgtCrankRxAlignerFor)
THEOREM ConvertersFollowFramed == RxSpec => []SyncedToFramed
<1>1. RxInv => SyncedToFramed
  BY DEF RxInv
<1> QED BY RxStart, RxStep, <1>1, PTL DEF RxSpec

\* No reset of the transceiver is shorter than the hold time, wherever the
\* microsecond counter stands and wraps. (S_HOLD_RESET)
THEOREM ResetsAreHeld == RxSpec => ResetIsHeld
<1>1. RxInv /\ [RxNext]_rxVars => [gtReset = "on" /\ gtReset' = "off" => held > HoldTime]_rxVars
  <2> SUFFICES ASSUME RxInv, RxNext, gtReset = "on", gtReset' = "off" PROVE held > HoldTime
    OBVIOUS
  <2>1. rxState = "HOLD_RESET" /\ (rxElapsed <= held \/ held > HoldTime)
    BY DEF RxInv, HeldSinceEntered
  <2>2. HoldReset
    BY <2>1 DEF RxNext, InitAwaits, InitAligns, EnterMain, Poll, ResetCompletes, DataError,
                CommasSeen, RxTick, RxCrank, ApplyReset, AwaitResetCompletion, PostResetDelay,
                ConfirmAlignment, AlignmentAchieved, Aligned, hardware
  <2>3. rxElapsed > HoldTime
    BY <2>2 DEF HoldReset, KeepCsr
  <2> QED BY <2>1, <2>3, RxTimes DEF RxInv, RxTypes
<1> QED BY RxStart, RxStep, <1>1, PTL DEF RxSpec, ResetIsHeld
=============================================================================
