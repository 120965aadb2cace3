------------------------------ MODULE CellLink ------------------------------
(***************************************************************************)
(* The recovery of a link of the cell controller network, cellComm.c: the  *)
(* ladder of resets each end of a link climbs while its channel is down,   *)
(* and the initialisation that comes before it.  Both ends run this code,  *)
(* and a reset of either takes the channel down for both.                  *)
(*                                                                         *)
(* Time is counted in ticks.  elapsed is the unsigned difference of        *)
(* MICROSECONDS_SINCE_BOOT and base; in S_UP nothing looks at it, and it   *)
(* is not kept.  Every state has a limit of its own, so cellp->limit is    *)
(* the operator Limit.                                                     *)
(***************************************************************************)
EXTENDS Integers

CONSTANTS
  Ends,          \* the two ends of the link
  DownTime,      \* 30 s: the channel gets this long to come up by itself
  ResetTime,     \* 100 ms: how long a reset is asserted
  WaitTime,      \* 1 s: what follows a reset
  Wrap,          \* 2^32: the microsecond counter wraps around
  MaxLatency,    \* ticks between two polls of the main loop, at most
  TrainTime,     \* ticks a channel without a reset takes to come up
  MaxFaults      \* bound: unplugged cables and restarts

ASSUME CellLinkAssumption ==
  /\ {DownTime, ResetTime, WaitTime} \subseteq 0..(Wrap - 2) /\ Wrap \in Nat
  /\ {MaxLatency, TrainTime, MaxFaults} \subseteq Nat

VARIABLES
  phase,         \* of each end: cellCommInit's "both", "aurora" and "wait",
                 \* then "main"
  state,         \* of each end, without the S_
  control,       \* cellp->control, a subset of {"aurora", "gt"}
  register,      \* the resets in the link's control register
  elapsed,
  waited,        \* ticks since the last poll of an end
  sinceGt,       \* ticks since an end's transceiver was in reset
  cable,         \* "in" or "out"
  trained,       \* ticks the channel has been coming up for
  faults

vars == <<phase, state, control, register, elapsed, waited, sinceGt, cable, trained, faults>>

\* The variants named ...Mutant here and below are faults the properties must
\* catch; nothing else uses them.

Resets == {"aurora", "gt"}
ChannelUp == trained = TrainTime

\* cellp->limit as it was set on the way into a state.
LimitMutant(s) == IF s = "DOWN1" THEN WaitTime ELSE ResetTime
Limit(s) ==
  IF s = "DOWN1" THEN DownTime
  ELSE IF s \in {"DOWN2", "AURORA_RESET2"} THEN WaitTime ELSE ResetTime

Timeout(e) == elapsed[e] > Limit(state[e])

-----------------------------------------------------------------------------
(* crank() of one end.                                                     *)

\* GPIO_WRITE of the control register; a reset takes the channel down.
Write(e, resets) ==
  /\ register' = [register EXCEPT ![e] = resets]
  /\ sinceGt' = IF "gt" \in resets THEN [sinceGt EXCEPT ![e] = 0] ELSE sinceGt
  /\ trained' = IF resets # {} THEN 0 ELSE trained

Goto(e, s) ==
  /\ state' = [state EXCEPT ![e] = s]
  /\ elapsed' = [elapsed EXCEPT ![e] = 0]

\* A rung of the ladder: the timeout changes the resets and the state.
Rung(e, from, resets, to) ==
  /\ state[e] = from /\ Timeout(e)
  /\ control' = [control EXCEPT ![e] = resets]
  /\ Write(e, resets)
  /\ Goto(e, to)

\* The control register is not written; it has no reset in it.
Down(e) ==
  /\ state[e] = "UP" /\ ~ChannelUp
  /\ control' = [control EXCEPT ![e] = {}]
  /\ Goto(e, "DOWN1")
  /\ UNCHANGED <<register, sinceGt, trained>>

Up(e) ==
  /\ state[e] \in {"DOWN1", "DOWN2"} /\ ChannelUp
  /\ Goto(e, "UP")
  /\ UNCHANGED <<control, register, sinceGt, trained>>

Reset1(e) == ~ChannelUp /\ Rung(e, "DOWN1", control[e] \cup {"aurora"}, "AURORA_RESET1")
Release1Mutant(e) == Rung(e, "AURORA_RESET1", control[e], "DOWN2")
Release1(e) == Rung(e, "AURORA_RESET1", control[e] \ {"aurora"}, "DOWN2")
Reset2(e) == ~ChannelUp /\ Rung(e, "DOWN2", control[e] \cup Resets, "BOTH_RESET")
ReleaseGt(e) == Rung(e, "BOTH_RESET", control[e] \ {"gt"}, "AURORA_RESET2")
Release2(e) == Rung(e, "AURORA_RESET2", control[e] \ {"aurora"}, "DOWN1")

\* The channel is as it should be, or it is not yet time.
Stay(e) ==
  /\ \/ state[e] = "UP" /\ ChannelUp
     \/ state[e] \in {"DOWN1", "DOWN2"} /\ ~ChannelUp /\ ~Timeout(e)
     \/ state[e] \in {"AURORA_RESET1", "BOTH_RESET", "AURORA_RESET2"} /\ ~Timeout(e)
  /\ UNCHANGED <<state, control, register, elapsed, sinceGt, trained>>

Crank(e) ==
  /\ phase[e] = "main"
  /\ \/ Down(e) \/ Up(e) \/ Reset1(e) \/ Release1(e) \/ Reset2(e)
     \/ ReleaseGt(e) \/ Release2(e) \/ Stay(e)
  /\ waited' = [waited EXCEPT ![e] = 0]
  /\ UNCHANGED <<phase, cable, faults>>

-----------------------------------------------------------------------------
(* cellCommInit() of one end, and what leads to it.                        *)

\* The two spins, each of its full length.
InitReleases(e) ==
  /\ \/ /\ phase[e] = "both" /\ elapsed[e] >= ResetTime
        /\ phase' = [phase EXCEPT ![e] = "aurora"] /\ Write(e, {"aurora"})
     \/ /\ phase[e] = "aurora" /\ elapsed[e] >= WaitTime
        /\ phase' = [phase EXCEPT ![e] = "wait"] /\ Write(e, {})
  /\ elapsed' = [elapsed EXCEPT ![e] = 0]
  /\ waited' = [waited EXCEPT ![e] = 0]
  /\ UNCHANGED <<state, control, cable, faults>>

\* The channel is up, or not after all that initialisation waits for.
InitReturns(e) ==
  /\ phase[e] = "wait"
  /\ phase' = [phase EXCEPT ![e] = "main"]
  /\ waited' = [waited EXCEPT ![e] = 0]
  /\ UNCHANGED <<state, control, register, elapsed, sinceGt, cable, trained, faults>>

\* An end is restarted: its memory and its register are as they were first.
Restart(e) ==
  /\ faults < MaxFaults /\ faults' = faults + 1
  /\ phase' = [phase EXCEPT ![e] = "both"]
  /\ control' = [control EXCEPT ![e] = {}]
  /\ Write(e, Resets)
  /\ Goto(e, "UP")
  /\ waited' = [waited EXCEPT ![e] = 0]
  /\ UNCHANGED cable

Unplug ==
  /\ cable = "in" /\ faults < MaxFaults
  /\ cable' = "out" /\ trained' = 0 /\ faults' = faults + 1
  /\ UNCHANGED <<phase, state, control, register, elapsed, waited, sinceGt>>

Plug ==
  /\ cable = "out" /\ cable' = "in"
  /\ UNCHANGED <<phase, state, control, register, elapsed, waited, sinceGt, trained, faults>>

Tick ==
  /\ \A e \in Ends : phase[e] \in {"main", "wait"} => waited[e] < MaxLatency
  /\ \A e \in Ends : phase[e] = "both" => elapsed[e] < ResetTime
  /\ \A e \in Ends : phase[e] = "aurora" => elapsed[e] < WaitTime
  /\ elapsed' = [e \in Ends |->
       IF phase[e] \in {"main", "wait"} /\ state[e] = "UP" THEN 0 ELSE (elapsed[e] + 1) % Wrap]
  /\ waited' = [e \in Ends |->
       IF phase[e] \in {"main", "wait"} THEN waited[e] + 1 ELSE 0]
  /\ sinceGt' = [e \in Ends |-> IF "gt" \in register[e] THEN 0
                                ELSE IF sinceGt[e] < WaitTime THEN sinceGt[e] + 1
                                ELSE sinceGt[e]]
  /\ trained' = IF cable = "in" /\ (\A e \in Ends : register[e] = {}) /\ ~ChannelUp
                THEN trained + 1 ELSE trained
  /\ UNCHANGED <<phase, state, control, register, cable, faults>>

-----------------------------------------------------------------------------
Init ==
  /\ phase = [e \in Ends |-> "both"] /\ state = [e \in Ends |-> "UP"]
  /\ control = [e \in Ends |-> {}] /\ register = [e \in Ends |-> Resets]
  /\ elapsed = [e \in Ends |-> 0] /\ waited = [e \in Ends |-> 0]
  /\ sinceGt = [e \in Ends |-> 0] /\ cable = "in" /\ trained = 0 /\ faults = 0

Next ==
  \/ \E e \in Ends : Crank(e) \/ InitReleases(e) \/ InitReturns(e) \/ Restart(e)
  \/ Unplug \/ Plug \/ Tick

Spec == Init /\ [][Next]_vars

\* Each end's processor goes on, and so does the time; a cable that was
\* pulled out is put in again some day.
Fair ==
  /\ WF_vars(Tick) /\ WF_vars(Plug)
  /\ \A e \in Ends : WF_vars(Crank(e)) /\ WF_vars(InitReleases(e) \/ InitReturns(e))

-----------------------------------------------------------------------------
TypeOK ==
  /\ phase \in [Ends -> {"both", "aurora", "wait", "main"}]
  /\ state \in [Ends -> {"UP", "DOWN1", "AURORA_RESET1", "DOWN2", "BOTH_RESET", "AURORA_RESET2"}]
  /\ control \in [Ends -> SUBSET Resets] /\ register \in [Ends -> SUBSET Resets]
  /\ elapsed \in [Ends -> 0..(Wrap - 1)] /\ waited \in [Ends -> 0..MaxLatency]
  /\ sinceGt \in [Ends -> 0..WaitTime] /\ trained \in 0..TrainTime /\ cable \in {"in", "out"}
  /\ faults \in 0..MaxFaults

(* What the software remembers of the control register is what is in it,   *)
(* although S_UP forgets it without a write and a restart clears it, and a *)
(* link waiting to come up has no reset left asserted.                     *)
NothingLeftAsserted ==
  \A e \in Ends : phase[e] = "main" =>
    /\ register[e] = control[e]
    /\ state[e] \in {"UP", "DOWN1", "DOWN2"} => register[e] = {}

(* Aurora is never out of reset before its transceiver has been for the    *)
(* time it takes to settle, in initialisation and in recovery alike.       *)
AuroraOutlastsTransceiver ==
  \A e \in Ends : "aurora" \notin register[e] => sinceGt[e] >= WaitTime

(* When nothing goes wrong any more the channel comes up for good at both  *)
(* ends: their resets do not keep taking it away from one another.         *)
LinkRecovers == <>[](ChannelUp /\ \A e \in Ends : phase[e] = "main" /\ state[e] = "UP")
=============================================================================
