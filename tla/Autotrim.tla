------------------------------ MODULE Autotrim ------------------------------
(***************************************************************************)
(* The gain trims of a BPM, autotrim.v, clock by clock, with the part of   *)
(* preliminaryProcessing.v that holds off the trimming of a fast           *)
(* acquisition (FA) sample until the trims of its pilot tones are there.   *)
(*                                                                         *)
(* A gain is the pair of where it comes from and which one it is: of the   *)
(* n-th set of the processor or the n-th measurement of the pilot tones.   *)
(* The tones are what the comparisons make of the magnitudes: "low"        *)
(* (below the threshold), "varied" (the smallest less than half the        *)
(* largest) or "good".  The toggles are single bits as in the source.      *)
(***************************************************************************)
EXTENDS Integers

CONSTANTS
  LastChannel,   \* NADC - 1
  Delay,         \* 15: trimActiveDelay at its reset
  DivideClocks,  \* of scaleGain, 26; none when dividend and divisor agree
  Period,        \* clocks between two measurements: thousands, so more than
                 \* the RF sample and the gains of all channels take
  RfLatest,      \* clocks the RF sample follows its pilot tones within
  ToneChoices,   \* what the measurements may find
  MaxMeasures,   \* bound: measurements
  MaxSets,       \* bound: sets of gains from the processor
  MaxChanges     \* bound: changes of the mode

ASSUME AutotrimAssumption ==
  /\ {Delay, DivideClocks, MaxMeasures, MaxSets, MaxChanges} \subseteq Nat
  /\ {LastChannel, Period, RfLatest} \subseteq Nat \ {0}
  /\ Period > RfLatest + 1 /\ Period > 7 + (LastChannel + 1) * (DivideClocks + 2)

VARIABLES
  mode,          \* trimControl
  pending,       \* trimControlPending
  changes,       \* modes the processor has written
  sets,          \* gain sets the processor has begun to write
  buffer,        \* psGbuf, and in the last place the gain written last
  next,          \* channel whose gain the processor writes next
  gains,
  tones,         \* of plMags and phMags
  measured,      \* measurements made; ptToggle is its parity
  since,         \* clocks since the measurement
  rf,            \* measurement the RF sample is of; rfDecimatedToggle
  ptMatch,       \* also ptFaToggle_d: both are ptToggle one clock ago
  pairs,         \* plMin01, ... phMax23
  extremes,      \* plMin, ... phMax
  flags,         \* plLow, ... phVar
  state,         \* trimState without its TS_
  status,        \* trimStatus
  channel,       \* divChannel
  start,         \* divStartStrobe
  busy,          \* clocks until the dividers are done
  dividing,      \* measurement the quotients are of
  trims,
  active,        \* trimActive
  delay,         \* trimActiveDelay
  enable,        \* filterEnable
  filterIn,
  filterOut,
  filterDone,
  gainToggle,
  await,         \* awaitGainsAndRf
  gainMatch, rfMatch,
  faStrobe,
  passed,        \* FA samples handed on to be trimmed
  streak         \* measurements in a row that were found active

processor == <<pending, changes, sets, buffer, next>>
surroundings == <<tones, measured, since, rf>>
pipeline == <<ptMatch, pairs, extremes, flags>>
divider == <<busy, dividing>>
filter == <<filterOut, filterDone>>
holdOff == <<await, gainMatch, rfMatch, faStrobe, passed>>
machine == <<mode, state, status, channel, start, trims, active, delay, enable, filterIn,
             gainToggle, streak>>
vars == <<processor, gains, surroundings, pipeline, divider, filter, holdOff, machine>>

Channels == 0..LastChannel
Modes == {"OFF", "LOW", "HIGH", "DUAL"}
Classes == {"low", "varied", "good"}
Tones == [pl : Classes, ph : Classes]
Silence == [pl |-> "low", ph |-> "low"]
FromPs(n) == <<"ps", n>>
FromTrim(n) == <<"trim", n>>
Partial == <<"partial", 0>>
Bit(n) == n % 2

\* The variants named ...Mutant here and below are faults the properties must
\* catch; nothing else uses them.

-----------------------------------------------------------------------------
(* The processor writes a mode or the next gain of a set; with the last    *)
(* one all of them are taken, provided that the mode is OFF.               *)

NoWrite == UNCHANGED processor

WriteCsr ==
  /\ changes < MaxChanges /\ changes' = changes + 1
  /\ pending' \in Modes
  /\ UNCHANGED <<sets, buffer, next>>

WriteGain ==
  /\ IF next = 0 THEN sets < MaxSets /\ sets' = sets + 1 ELSE UNCHANGED sets
  /\ buffer' = [buffer EXCEPT ![next] = FromPs(sets')]
  /\ next' = IF next = LastChannel THEN 0 ELSE next + 1
  /\ UNCHANGED <<pending, changes>>

SetTakenMutant == next' # next /\ mode = "OFF"
SetTaken == next = LastChannel /\ next' # next /\ mode = "OFF"

StaticGains == IF SetTaken THEN buffer' ELSE gains

-----------------------------------------------------------------------------
(* The measurements: the pilot tones of a sample come first, its RF after. *)

MeasurePilotTones ==
  /\ since = Period /\ measured < MaxMeasures
  /\ tones' \in ToneChoices /\ measured' = measured + 1 /\ since' = 0
  /\ UNCHANGED rf

MeasureRf ==
  /\ rf < measured /\ rf' = measured
  /\ since' = since + 1
  /\ UNCHANGED <<tones, measured>>

MeasureNothing ==
  /\ since = Period => measured = MaxMeasures
  /\ since = RfLatest => rf = measured
  /\ since' = IF since = Period THEN since ELSE since + 1
  /\ UNCHANGED <<tones, measured, rf>>

-----------------------------------------------------------------------------
(* What every clock does beside the state machine.                         *)

\* The comparisons, one register after the other.
Compare ==
  /\ ptMatch' = Bit(measured)
  /\ pairs' = tones /\ extremes' = pairs /\ flags' = extremes

\* scaleGain, both of them.
Divide ==
  IF busy = 0 /\ start = 1
  THEN busy' \in {0, DivideClocks} /\ dividing' = measured
  ELSE busy' = (IF busy = 0 THEN 0 ELSE busy - 1) /\ UNCHANGED dividing

Quotient == IF busy = 0 THEN FromTrim(dividing) ELSE Partial

\* gainFilter, all of them.
Filter ==
  /\ filterDone' = enable
  /\ filterOut' = IF enable = "yes" THEN filterIn ELSE filterOut

\* preliminaryProcessing: hold off the trimming of the sample.
HoldOff ==
  LET new == ptMatch # Bit(measured)
      complete == await = "yes" /\ gainMatch # gainToggle /\ rfMatch # Bit(rf)
  IN /\ gainMatch' = IF new THEN gainToggle ELSE gainMatch
     /\ rfMatch' = IF new THEN Bit(rf) ELSE rfMatch
     /\ await' = IF new THEN "yes" ELSE IF complete THEN "no" ELSE await
     /\ faStrobe' = IF ~new /\ complete THEN "yes" ELSE "no"
     /\ passed' = IF faStrobe = "yes" THEN passed + 1 ELSE passed

-----------------------------------------------------------------------------
(* The state machine.                                                      *)

Verdict(t) ==
  LET used == CASE mode = "LOW"  -> {t.pl}
                [] mode = "HIGH" -> {t.ph}
                [] OTHER         -> {t.pl, t.ph}
  IN IF mode = "OFF" THEN "OFF"
     ELSE IF "low" \in used THEN "NO_TONE"
     ELSE IF "varied" \in used THEN "EXCESS_DIFF"
     ELSE "ACTIVE"

Idle ==
  /\ state = "IDLE" /\ mode' = pending
  /\ state' = IF ptMatch # Bit(measured) THEN "MINMAX_1" ELSE state
  /\ gains' = StaticGains
  /\ UNCHANGED <<status, channel, start, trims, active, delay, enable, filterIn, gainToggle, streak>>

MinMax ==
  /\ \/ state = "MINMAX_1" /\ state' = "MINMAX_2"
     \/ state = "MINMAX_2" /\ state' = "CHECK"
  /\ gains' = StaticGains
  /\ UNCHANGED <<mode, status, channel, start, trims, active, delay, enable, filterIn,
                 gainToggle, streak>>

Check ==
  /\ state = "CHECK" /\ state' = "START_DIVIDE"
  /\ status' = Verdict(flags)
  /\ streak' = IF Verdict(tones) = "ACTIVE" THEN streak + 1 ELSE 0
  /\ channel' = 0 /\ start' = 1
  /\ gains' = StaticGains
  /\ UNCHANGED <<mode, trims, active, delay, enable, filterIn, gainToggle>>

StartDivide ==
  /\ state = "START_DIVIDE" /\ state' = "FINISH_DIVIDE" /\ start' = 0
  /\ CASE status = "ACTIVE" /\ delay = 0 -> active' = "yes" /\ UNCHANGED delay
       [] status = "ACTIVE" /\ delay > 0 -> delay' = delay - 1 /\ UNCHANGED active
       [] OTHER                          -> delay' = Delay /\ active' = "no"
  /\ gains' = StaticGains
  /\ UNCHANGED <<mode, status, channel, trims, enable, filterIn, gainToggle, streak>>

FinishDivide ==
  /\ state = "FINISH_DIVIDE" /\ gains' = StaticGains
  /\ IF busy > 0 THEN UNCHANGED <<state, channel, start, trims>>
     ELSE /\ trims' = [trims EXCEPT ![channel] = Quotient]
          /\ IF channel = LastChannel
             THEN state' = "FILTER" /\ channel' = 0 /\ UNCHANGED start
             ELSE state' = "START_DIVIDE" /\ channel' = channel + 1 /\ start' = 1
  /\ UNCHANGED <<mode, status, active, delay, enable, filterIn, gainToggle, streak>>

ToFilter ==
  /\ state = "FILTER" /\ state' = "FINISH"
  /\ filterIn' = IF mode = "OFF" THEN filterIn ELSE trims
  /\ enable' = IF active = "yes" THEN "yes" ELSE enable
  /\ gains' = StaticGains
  /\ UNCHANGED <<mode, status, channel, start, trims, active, delay, gainToggle, streak>>

FinishMutant ==
  /\ state = "FINISH" /\ enable' = "no"
  /\ state' = "IDLE" /\ gainToggle' = 1 - gainToggle
  /\ gains' = IF active = "yes" THEN filterOut ELSE StaticGains
  /\ UNCHANGED <<mode, status, channel, start, trims, active, delay, filterIn, streak>>
Finish ==
  /\ state = "FINISH" /\ enable' = "no"
  /\ IF active = "yes" /\ filterDone = "no"
     THEN gains' = StaticGains /\ UNCHANGED <<state, gainToggle>>
     ELSE /\ state' = "IDLE" /\ gainToggle' = 1 - gainToggle
          /\ gains' = IF active = "yes" THEN filterOut ELSE StaticGains
  /\ UNCHANGED <<mode, status, channel, start, trims, active, delay, filterIn, streak>>

-----------------------------------------------------------------------------
Init ==
  LET unity == [c \in Channels |-> FromPs(0)]
  IN /\ mode = "OFF" /\ pending = "OFF" /\ changes = 0 /\ sets = 0 /\ next = 0
     /\ buffer = unity /\ gains = unity /\ trims = unity /\ filterIn = unity
     /\ filterOut = unity /\ filterDone = "no" /\ enable = "no"
     /\ tones = Silence /\ pairs = Silence /\ extremes = Silence /\ flags = Silence
     /\ measured = 0 /\ since = 0 /\ rf = 0 /\ ptMatch = 0
     /\ state = "IDLE" /\ status = "OFF" /\ channel = 0 /\ start = 0
     /\ busy = 0 /\ dividing = 0 /\ active = "no" /\ delay = Delay
     /\ gainToggle = 0 /\ gainMatch = 0 /\ rfMatch = 0 /\ await = "no"
     /\ faStrobe = "no" /\ passed = 0 /\ streak = 0

Machine ==
  \/ Idle \/ MinMax \/ Check \/ StartDivide \/ FinishDivide \/ ToFilter \/ Finish

\* One clock; the gains are the processor's or the machine's.
Next ==
  /\ NoWrite \/ WriteCsr \/ WriteGain
  /\ MeasurePilotTones \/ MeasureRf \/ MeasureNothing
  /\ Compare /\ Divide /\ Filter /\ HoldOff
  /\ Machine

Spec == Init /\ [][Next]_vars

-----------------------------------------------------------------------------
YesNo == {"yes", "no"}
Gains ==
  {Partial} \cup {FromPs(n) : n \in 0..MaxSets} \cup {FromTrim(n) : n \in 0..MaxMeasures}

TypeOK ==
  /\ {mode, pending} \subseteq Modes /\ changes \in 0..MaxChanges /\ sets \in 0..MaxSets
  /\ {next, channel} \subseteq Channels
  /\ {buffer, gains, trims, filterIn, filterOut} \subseteq [Channels -> Gains]
  /\ {tones, pairs, extremes, flags} \subseteq Tones
  /\ {measured, rf, dividing, passed, streak} \subseteq 0..MaxMeasures
  /\ since \in 0..Period /\ busy \in 0..DivideClocks /\ delay \in 0..Delay
  /\ {ptMatch, start, gainToggle, gainMatch, rfMatch} \subseteq {0, 1}
  /\ state \in {"IDLE", "MINMAX_1", "MINMAX_2", "CHECK", "START_DIVIDE", "FINISH_DIVIDE",
                "FILTER", "FINISH"}
  /\ status \in {"OFF", "NO_TONE", "EXCESS_DIFF", "ACTIVE"}
  /\ {active, enable, filterDone, await, faStrobe} \subseteq YesNo

(* The gains are at all times one set: of the processor, or of one and the *)
(* same measurement, whatever was written while they were computed.        *)
GainsAreOneSet == \A c \in Channels : gains[c] = gains[0] /\ gains[c] # Partial

(* With the mode OFF the gains change only to a set of the processor, even *)
(* when trimming was active until then.                                    *)
OffLeavesGains == [][mode = "OFF" /\ gains' # gains => gains'[0][1] = "ps"]_vars

(* A sample is trimmed when its pilot tones have been computed with, and   *)
(* once trimming is active by their gains, not those of an earlier sample  *)
(* (unless the processor has set its own since).                           *)
SampleHasItsGains ==
  faStrobe = "yes" =>
    /\ rf = measured /\ passed + 1 = measured /\ state = "IDLE"
    /\ active = "yes" => gains[0][1] = "ps" \/ gains[0] = FromTrim(measured)
=============================================================================
