------------------------------- MODULE Clocks --------------------------------
(***************************************************************************)
(* The synthesizers of the sampling clocks (rfclk.c) and the MMCM behind   *)
(* them (mmcm.c): configuring an LMX2594, its lock status, the readback of *)
(* its registers, and the order in which main brings the clocks up.        *)
(* Register 0 holds configuration bits and the switch that makes the       *)
(* STATUS pin a readback or the lock detector, so every access of another  *)
(* register goes by way of register 0.  No access's success is checked; a  *)
(* failed read returns zero.                                               *)
(***************************************************************************)
EXTENDS Naturals, Sequences

CONSTANTS Synthesizers,   \* the LMX2594 of the ADC and of the DAC
          MaxFaults,      \* bound: accesses that fail
          MaxRequests     \* bound: requests of the control system

\* rfClkInit runs through the ADC's and then the DAC's, if the board has both.
ASSUME SynthesizersAssumption ==
  Len(Synthesizers) \in {1, 2} /\ DOMAIN Synthesizers = 1..Len(Synthesizers)

VARIABLES r0,             \* register 0 of each chip: configuration, STATUS pin
          v0Init,         \* lmx2594v0InitValues: its configuration, as remembered
          v0,             \* v0 of start2594: the configuration as read
          tableGood,      \* whether the table of each chip has a good header
          accesses,       \* the register accesses still to do
          answer,         \* what the last request returned: "good", or with what flaw
          bringUp,        \* the steps of main still to do
          mmcm,           \* the MMCM: its settings, and whether it is locked
          clkFaults, requests
clkVars == <<r0, v0Init, v0, tableGood, accesses, answer, bringUp, mmcm, clkFaults, requests>>
chips == <<r0, v0Init, v0>>

ResetValue == "reset"     \* 0x002410, the value both reset writes leave
Reg0(cfg, pin) == [cfg |-> cfg, pin |-> pin]

\* One access of a chip: op, and for a write of register 0 where its
\* configuration comes from and what the STATUS pin becomes.
Write0(c, from, pin) == [chip |-> c, op |-> "write", from |-> from, pin |-> pin]
ReadReg(c, r) == [chip |-> c, op |-> r, from |-> "none", pin |-> "none"]

\* init2594 and start2594: reset, the values, of which register 0 is written
\* with the pin in readback and remembered, calibration, lock status.
ConfigMutant(c, values, hasR0) ==
  <<Write0(c, ResetValue, "readback")>>
  \o (IF hasR0 THEN <<Write0(c, values, "lock")>> ELSE <<>>)
  \o <<ReadReg(c, "v0"), Write0(c, "v0", "readback"), ReadReg(c, "status"), Write0(c, "v0", "lock")>>
Config(c, values, hasR0) ==
  <<Write0(c, ResetValue, "readback")>>
  \o (IF hasR0 THEN <<Write0(c, values, "readback")>> ELSE <<>>)
  \o <<ReadReg(c, "v0"), Write0(c, "v0", "readback"), ReadReg(c, "status"), Write0(c, "v0", "lock")>>

\* lmx2594Status, of one chip.
StatusOfMutant(c) ==
  <<Write0(c, "v0Init", "readback"), ReadReg(c, "status")>>
StatusOf(c) ==
  <<Write0(c, "v0Init", "readback"), ReadReg(c, "status"), Write0(c, "v0Init", "lock")>>

\* lmx2594Readback: a table that is no good ends it before the pin is restored.
Readback(c) ==
  <<Write0(c, "v0Init", "readback")>>
  \o (IF tableGood[c] = "yes" THEN <<ReadReg(c, "row"), ReadReg(c, "row"), Write0(c, "v0Init", "lock")>>
      ELSE <<>>)

All(cs, Op(_)) == IF Len(cs) = 1 THEN Op(cs[1]) ELSE Op(cs[1]) \o Op(cs[2])

-----------------------------------------------------------------------------
\* main: defaults to have the MMCM lock, the MMCM, then the stored tables.
BringUp == <<"rfClkPreInit", "mmcmInit", "rfClkInit", "mmcmCheckLock">>

ClocksInit ==
  /\ r0 = [c \in {Synthesizers[i] : i \in DOMAIN Synthesizers} |-> Reg0(ResetValue, "readback")]
  /\ v0Init = [c \in DOMAIN r0 |-> "zero"] /\ v0 = "zero"
  /\ tableGood = [c \in DOMAIN r0 |-> "yes"]
  /\ accesses = <<>> /\ answer = "good" /\ bringUp = BringUp
  /\ mmcm = [settings |-> "built", locked |-> "no"]
  /\ clkFaults = 0 /\ requests = 0

Ready == accesses = <<>>
Stage(s) == Ready /\ bringUp # <<>> /\ Head(bringUp) = s /\ bringUp' = Tail(bringUp)

PreInit ==
  /\ Stage("rfClkPreInit")
  /\ accesses' = All(Synthesizers, LAMBDA c : Config(c, "default", TRUE))
  /\ UNCHANGED <<chips, tableGood, answer, mmcm, clkFaults, requests>>

\* mmcmInit and mmcmStartReconfig: reset and new settings; the lock is waited
\* for twice, a second each, and only warned about.
MmcmInit ==
  /\ Stage("mmcmInit")
  /\ mmcm' \in {[settings |-> "system", locked |-> l] : l \in {"yes", "no"}}
  /\ UNCHANGED <<chips, tableGood, accesses, answer, clkFaults, requests>>

\* rfClkInit: the stored table, or the default one when it is missing or no good.
RfClkInit ==
  /\ Stage("rfClkInit")
  /\ \E stored \in {"stored", "default"} :
       accesses' = All(Synthesizers, LAMBDA c : Config(c, stored, TRUE))
  /\ mmcm' = [mmcm EXCEPT !.locked = "no"]
  /\ UNCHANGED <<chips, tableGood, answer, clkFaults, requests>>

CheckLock ==
  /\ Stage("mmcmCheckLock")
  /\ mmcm' \in {[mmcm EXCEPT !.locked = l] : l \in {"yes", "no"}}
  /\ UNCHANGED <<chips, tableGood, accesses, answer, clkFaults, requests>>

\* The control system: lmx2594Status, lmx2594ReadbackFirst, lmx2594ConfigAllSame.
\* A table upload that is refused leaves its rows in the table all the same.
Request ==
  /\ Ready /\ bringUp = <<>> /\ requests < MaxRequests
  /\ requests' = requests + 1 /\ answer' = "good"
  /\ \/ accesses' = All(Synthesizers, StatusOf) /\ UNCHANGED tableGood
     \/ accesses' = Readback(Synthesizers[1]) /\ UNCHANGED tableGood
     \/ \E hasR0 \in BOOLEAN :
          accesses' = All(Synthesizers, LAMBDA c : Config(c, "command", hasR0)) /\ UNCHANGED tableGood
     \/ \E c \in DOMAIN r0 : tableGood' = [tableGood EXCEPT ![c] = "no"] /\ UNCHANGED accesses
  /\ UNCHANGED <<chips, bringUp, mmcm, clkFaults>>

-----------------------------------------------------------------------------
\* rfClkWrite and rfClkRead, each of which may fail.
Fails(happens) ==
  \/ happens = "yes" /\ UNCHANGED clkFaults
  \/ happens = "no" /\ clkFaults < MaxFaults /\ clkFaults' = clkFaults + 1

Source(a) == CASE a.from = "v0Init" -> v0Init[a.chip] [] a.from = "v0" -> v0 [] OTHER -> a.from
\* init2594 remembers register 0 when it is among the values.
Remembered(a) ==
  IF a.from \in {"v0", "v0Init", ResetValue} THEN v0Init ELSE [v0Init EXCEPT ![a.chip] = a.from]

WriteReg ==
  /\ accesses # <<>> /\ Head(accesses).op = "write"
  /\ LET a == Head(accesses) IN
       \E happens \in {"yes", "no"} :
         /\ Fails(happens)
         /\ r0' = IF happens = "yes" THEN [r0 EXCEPT ![a.chip] = Reg0(Source(a), a.pin)] ELSE r0
         /\ v0Init' = Remembered(a)
         /\ answer' = IF happens = "no" THEN "failed" ELSE answer
  /\ accesses' = Tail(accesses)
  /\ UNCHANGED <<v0, tableGood, bringUp, mmcm, requests>>

\* A read while the pin shows the lock is of no register.
ReadOne ==
  /\ accesses # <<>> /\ Head(accesses).op # "write"
  /\ LET a == Head(accesses) IN
       \E happens \in {"yes", "no"} :
         /\ Fails(happens)
         /\ v0' = IF a.op # "v0" THEN v0
                  ELSE IF happens = "yes" /\ r0[a.chip].pin = "readback" THEN r0[a.chip].cfg ELSE "zero"
         /\ answer' = IF happens = "no" THEN "failed"
                      ELSE IF answer = "good" /\ r0[a.chip].pin # "readback" THEN "wrong" ELSE answer
  /\ accesses' = Tail(accesses)
  /\ UNCHANGED <<r0, v0Init, tableGood, bringUp, mmcm, requests>>

ClocksNext ==
  \/ PreInit \/ MmcmInit \/ RfClkInit \/ CheckLock \/ Request \/ WriteReg \/ ReadOne
ClocksSpec == ClocksInit /\ [][ClocksNext]_clkVars

-----------------------------------------------------------------------------
\* No register is read through a STATUS pin that shows the lock, unless an
\* access of the same request failed.  (init2594, start2594, lmx2594Status)
ReadsAreReadbacks == answer # "wrong"

\* Between requests every chip shows its lock, and holds in register 0 what it
\* was configured with or, after a command without register 0, its reset value;
\* a failed access, or a table that is no good, excepted.  (start2594,
\* lmx2594Status, lmx2594Readback)
ChipsAreRestored ==
  (Ready /\ bringUp = <<>> /\ clkFaults = 0 /\ (\A c \in DOMAIN r0 : tableGood[c] = "yes")) =>
    \A c \in DOMAIN r0 : r0[c].pin = "lock" /\ r0[c].cfg \in {v0Init[c], ResetValue}
=============================================================================
