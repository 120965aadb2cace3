------------------------------ MODULE Settings ------------------------------
(***************************************************************************)
(* Settings of the channels: the application's commands of the IOC         *)
(* (epicsApplicationCommands.c) reach the circuit of a channel through     *)
(* rfdc.c, ami.c, afe.c, autotrim.c, calibrationGains.c and positionCalc.c *)
(* of src/software/src, and the slow acquisition packet (publisher.c)      *)
(* shows the IOC what is in force.  A command names a channel by an index, *)
(* every circuit is wired in an order of its own.  MaxEvents bounds the       *)
(* number of commands and overranges.                                      *)
(***************************************************************************)
EXTENDS Integers, FiniteSets

CONSTANTS
    Bpms, PerBpm,        \* DSP chains, and channels of each
    PerTile,             \* converters of a tile
    MaxEvents

ASSUME SettingsAssumption ==
    /\ Bpms \in Nat \ {0} /\ PerTile \in Nat \ {0}
    /\ PerBpm \in Nat \ {0} /\ PerBpm % PerTile = 0 /\ MaxEvents \in Nat

VARIABLES
    inForce,   \* what each circuit is set to
    clipped,   \* converters with an overrange that was not read yet
    reported,  \* channels the last status word shows as clipped
    last,      \* the command before
    events

vars == <<inForce, clipped, reported, last, events>>

Chains == 0..(Bpms - 1)
Channels == 0..(PerBpm - 1)
Indices == 0..(Bpms * PerBpm - 1)
Circuits == Chains \X Channels

\* The kinds of settings, and the values commands are tried with: attenuation
\* in thousandths of a dB, on or off, and gains as raw factors.
Kinds == {"dsa", "vop", "afeAtt", "ptmAtt", "dacPwr", "ptRun", "gain"}
Attenuation == {"afeAtt", "ptmAtt"}
Values(k) == CASE k = "dsa" -> {0, 1000}
               [] k \in Attenuation -> {300, 31750, 32000}
               [] OTHER -> {0, 1}

\* Fault for the check: the chains are not told apart.
SwappedMutant(bpm) == Bpms - 1

\* CFG_SWAP_ADC_SETS, CFG_REVERSE_ADC_SET_ORDER, CFG_SWAP_DAC_SETS.
Swapped(bpm) == (bpm + Bpms - 1) % Bpms
AdcOf(bpm, ch) == <<Swapped(bpm), PerBpm - 1 - ch>>
DacOf(bpm, ch) == <<Swapped(bpm), ch>>

\* Circuit of a channel; all channels of a chain share the attenuators, and
\* the converters of a tile its power.
CircuitOf(k, bpm, ch) ==
    CASE k = "dsa"    -> AdcOf(bpm, ch)
      [] k = "vop"    -> DacOf(bpm, ch)
      [] k = "dacPwr" -> LET d == DacOf(bpm, ch) IN <<d[1], d[2] - (d[2] % PerTile)>>
      [] k \in {"afeAtt", "ptmAtt", "ptRun"} -> <<bpm, 0>>
      [] k = "gain"   -> <<bpm, ch>>

\* ATT_MDB_TO_STEPS and ATT_STEPS_TO_MDB: a quarter of a dB per
\* step.  The values tried are far from where the product wraps.
StepsOf(mdB) == (mdB * 4) \div 1000
InMdB(steps) == (steps * 1000) \div 4

Stored(k, v) == IF k \in Attenuation THEN InMdB(StepsOf(v)) ELSE v

\* Commands the handler refuses: a channel that has no such circuit, a chain
\* there is none of, an attenuation beyond 127 steps.
Accepted(k, bpm, ch, v) ==
    /\ bpm \in Chains
    /\ k \in {"ptmAtt", "ptRun"} => ch = 0
    /\ k = "dacPwr" => ch % 2 = 0
    /\ k \in Attenuation => StepsOf(v) <= 127

NoCommand == [kind |-> "none"]

Init ==
    /\ inForce = [k \in Kinds |-> [c \in Circuits |-> 0]]
    /\ clipped = {} /\ reported = {}
    /\ last = NoCommand /\ events = 0

\* epicsApplicationCommand.
Command(k, idx, v) ==
    LET bpm == idx \div PerBpm
        ch  == idx % PerBpm
        ok  == Accepted(k, bpm, ch, v)
    IN  /\ events < MaxEvents /\ events' = events + 1
        /\ last' = [kind |-> k, idx |-> idx, value |-> v, ok |-> ok]
        /\ inForce' = IF ok THEN [inForce EXCEPT ![k][CircuitOf(k, bpm, ch)] = Stored(k, v)]
                      ELSE inForce
        /\ UNCHANGED <<clipped, reported>>

\* The packet of publishSlowAcquisition: settings by index.
Published(k) ==
    [i \in Indices |-> inForce[k][CircuitOf(k, i \div PerBpm, i % PerBpm)]]

\* Fault for the check: the status is read in the order of the converters.

\* rfADCstatus: two bits per channel, read and cleared, for the publisher and
\* for the system monitor alike.
AdcStatus ==
    /\ reported' = {i \in Indices : AdcOf(i \div PerBpm, i % PerBpm) \in clipped}
    /\ clipped' = {}
    /\ UNCHANGED <<inForce, last, events>>

Overrange ==
    /\ \E c \in Circuits : clipped' = clipped \cup {c}
    /\ events < MaxEvents /\ events' = events + 1
    /\ UNCHANGED <<inForce, reported, last>>

Next ==
    \/ \E k \in Kinds, idx \in 0..((Bpms + 1) * PerBpm - 1) :
           \E v \in Values(k) : Command(k, idx, v)
    \/ AdcStatus \/ Overrange

Spec == Init /\ [][Next]_vars

----------------------------------------------------------------------------
\* What the packet shows for a channel changes only by an accepted command
\* for a channel on the same wiring, and shows that command's value from then
\* on, attenuations in whole steps downwards: swapped chains, reversed
\* channels and shared circuits never leak a setting to another channel.
ShownIsCommanded ==
    [][<<inForce, last>>' # <<inForce, last>> =>
       \A k \in Kinds :
          LET packet == Published(k) IN
          /\ \A i \in Indices : packet'[i] # packet[i] =>
                /\ last'.kind = k /\ last'.ok /\ last'.idx \div PerBpm = i \div PerBpm
                /\ k \in {"dsa", "vop", "gain"} => last'.idx = i
                /\ k = "dacPwr" =>
                       (last'.idx % PerBpm) \div PerTile = (i % PerBpm) \div PerTile
          /\ last' # last /\ last'.kind = k /\ last'.ok =>
                /\ packet'[last'.idx] <= last'.value
                /\ last'.value < packet'[last'.idx] + (IF k \in Attenuation THEN 250 ELSE 1)]_vars
============================================================================
