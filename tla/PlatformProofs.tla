---------------------------- MODULE PlatformProofs ---------------------------
(***************************************************************************)
(* Services of the platform: the time that evrCurrentTime returns, for any *)
(* resolution of the clock and however long the processor takes between    *)
(* its reads; whose count a point of the eye scan is plotted with, for any *)
(* grid, attempts and border; what is on the display, for any times, rows  *)
(* and messages; who answers on the IIC buses and who hears, for any       *)
(* registers, failures and restarts; and what the registers of the clock   *)
(* synthesizers read and are left as, for any tables.  The five share no   *)
(* state.                                                                  *)
(***************************************************************************)
EXTENDS Evr, Eyescan, Display, Iic, Clocks, SequenceTheorems, TLAPS

-----------------------------------------------------------------------------
\* The time of day.
\* The type of the clock and of the reading.
ClockType == evrClock \in Nat /\ asked \in Nat /\ asked <= evrClock
StampType == stamp \in [seconds : Nat, fraction : Nat]

\* What the reads so far have in common with the clock: the seconds are those
\* of an instant not after the one the fraction is of.
SecondsRead ==
  evrPc \in {"fraction", "again"} =>
    \E t \in asked..evrClock : stamp.seconds = Second(t)
FractionRead ==
  evrPc = "again" =>
    \E t, u \in asked..evrClock :
      t <= u /\ stamp.seconds = Second(t) /\ stamp.fraction = Fraction(u)
TimeInv == ClockType /\ StampType /\ SecondsRead /\ FractionRead /\ TimeIsAnInstant

\* Seconds never go back.
LEMMA SecondsGrow ==
  ASSUME NEW t \in Nat, NEW u \in Nat, t <= u
  PROVE  Second(t) <= Second(u)
BY ResolutionAssumption, SMTT(30) DEF Second

\* The clock and the stamp keep their types, and the reading never begins
\* after the clock.
LEMMA TimeInit == EvrInit => TimeInv
<1> SUFFICES ASSUME EvrInit PROVE TimeInv
  OBVIOUS
<1>1. ClockType /\ StampType
  BY DEF EvrInit, ClockType, StampType, NoTime
<1>2. SecondsRead /\ FractionRead /\ TimeIsAnInstant
  BY DEF EvrInit, SecondsRead, FractionRead, TimeIsAnInstant
<1> QED BY <1>1, <1>2 DEF TimeInv

\* A second is a number, and so is a fraction.
LEMMA ClockParts ==
  ASSUME NEW t \in Nat
  PROVE  Second(t) \in Nat /\ Fraction(t) \in Nat
BY ResolutionAssumption, SMTT(30) DEF Second, Fraction

\* An instant between two others is of their second when they are of the same.
LEMMA SameSecond ==
  ASSUME NEW t \in Nat, NEW u \in Nat, NEW v \in Nat, t <= u, u <= v,
         Second(t) = Second(v)
  PROVE  Second(u) = Second(t)
<1>1. Second(t) <= Second(u) /\ Second(u) <= Second(v)
  BY SecondsGrow
<1>2. Second(t) \in Nat /\ Second(u) \in Nat
  BY ClockParts
<1> QED BY <1>1, <1>2

\* A step that leaves the reading alone, the clock running on or not.
LEMMA OtherStep ==
  ASSUME TimeInv, UNCHANGED reading, evrClock' \in {evrClock, evrClock + 1},
         evrPc' = evrPc \/ {evrPc, evrPc'} \subseteq {"reset", "await", "run"}
  PROVE  TimeInv'
<1> USE DEF reading
<1>1. ClockType' /\ StampType'
  BY DEF TimeInv, ClockType, StampType
<1>2. asked..evrClock \subseteq asked'..evrClock'
  BY DEF TimeInv, ClockType
<1>3. SecondsRead'
  BY <1>2 DEF TimeInv, SecondsRead, Second
<1>4. FractionRead'
  BY <1>2 DEF TimeInv, FractionRead, Second, Fraction
<1>5. TimeIsAnInstant'
  BY <1>2 DEF TimeInv, TimeIsAnInstant, Second, Fraction
<1> QED BY <1>1, <1>3, <1>4, <1>5 DEF TimeInv

LEMMA TimeStep == TimeInv /\ [EvrNext]_evrVars => TimeInv'
<1> SUFFICES ASSUME TimeInv, [EvrNext]_evrVars PROVE TimeInv'
  OBVIOUS
<1>0. evrClock \in Nat /\ asked \in Nat /\ asked <= evrClock /\ evrClock \in asked..evrClock
  BY DEF TimeInv, ClockType
<1>1. CASE ReadSeconds
  <2>1. ClockType' /\ StampType'
    BY <1>0, <1>1, ClockParts DEF ReadSeconds, ClockType, StampType
  <2>2. evrPc' = "fraction" /\ evrClock \in asked'..evrClock' /\ stamp'.seconds = Second(evrClock)
    BY <1>0, <1>1 DEF ReadSeconds
  <2>3. SecondsRead' /\ FractionRead' /\ TimeIsAnInstant'
    BY <2>2 DEF SecondsRead, FractionRead, TimeIsAnInstant, Second
  <2> QED BY <2>1, <2>3 DEF TimeInv
<1>2. CASE ReadFraction
  <2>1. ClockType' /\ StampType'
    BY <1>0, <1>2, ClockParts DEF TimeInv, ReadFraction, ClockType, StampType
  <2>2. PICK t \in asked..evrClock : stamp.seconds = Second(t)
    BY <1>2 DEF TimeInv, ReadFraction, SecondsRead
  <2>3. /\ evrPc' = "again" /\ asked' = asked /\ evrClock' = evrClock
        /\ stamp'.seconds = stamp.seconds /\ stamp'.fraction = Fraction(evrClock)
    BY <1>2 DEF TimeInv, ReadFraction, StampType
  <2>4. t <= evrClock
    BY <1>0
  <2>5. FractionRead' /\ SecondsRead'
    BY <1>0, <2>2, <2>3, <2>4 DEF FractionRead, SecondsRead, Second, Fraction
  <2>6. TimeIsAnInstant'
    BY <2>3 DEF TimeIsAnInstant
  <2> QED BY <2>1, <2>5, <2>6 DEF TimeInv
<1>3. CASE ReadAgain
  <2>1. PICK t \in asked..evrClock, u \in asked..evrClock :
          t <= u /\ stamp.seconds = Second(t) /\ stamp.fraction = Fraction(u)
    BY <1>3 DEF TimeInv, ReadAgain, FractionRead
  <2>2. asked' = asked /\ evrClock' = evrClock
    BY <1>3 DEF ReadAgain
  <2>3. t \in Nat /\ u \in Nat /\ u <= evrClock
    BY <1>0
  <2>4. CASE Second(evrClock) = stamp.seconds
    <3>1. evrPc' = "read" /\ stamp' = stamp
      BY <1>3, <2>4 DEF TimeInv, StampType, ReadAgain, Agree
    <3>2. Second(u) = stamp.seconds
      BY <1>0, <2>1, <2>3, <2>4, SameSecond
    <3>3. TimeIsAnInstant'
      BY <2>1, <2>2, <3>1, <3>2 DEF TimeIsAnInstant, Second, Fraction
    <3>4. ClockType' /\ StampType' /\ SecondsRead' /\ FractionRead'
      BY <2>2, <3>1 DEF TimeInv, ClockType, StampType, SecondsRead, FractionRead
    <3> QED BY <3>3, <3>4 DEF TimeInv
  <2>5. CASE Second(evrClock) # stamp.seconds
    <3>1. evrPc' = "fraction" /\ stamp' = [stamp EXCEPT !.seconds = Second(evrClock)]
      BY <1>3, <2>5 DEF ReadAgain, Agree
    <3>2. StampType' /\ stamp'.seconds = Second(evrClock)
      BY <1>0, <3>1, ClockParts DEF TimeInv, StampType
    <3>3. SecondsRead'
      BY <1>0, <2>2, <3>2 DEF SecondsRead, Second
    <3>4. ClockType' /\ FractionRead' /\ TimeIsAnInstant'
      BY <2>2, <3>1 DEF TimeInv, ClockType, FractionRead, TimeIsAnInstant
    <3> QED BY <3>2, <3>3, <3>4 DEF TimeInv
  <2> QED BY <2>4, <2>5
<1>4. CASE Used
  <2>1. ClockType' /\ StampType'
    BY <1>0, <1>4 DEF Used, ClockType, StampType, NoTime
  <2>2. SecondsRead' /\ FractionRead' /\ TimeIsAnInstant'
    BY <1>4 DEF Used, SecondsRead, FractionRead, TimeIsAnInstant
  <2> QED BY <2>1, <2>2 DEF TimeInv
<1>5. CASE Reset
  BY <1>5, OtherStep DEF Reset
<1>6. CASE PollFifo
  BY <1>6, OtherStep DEF PollFifo
<1>7. CASE WaitOver
  BY <1>7, OtherStep DEF WaitOver
<1>8. CASE ActionCommand
  BY <1>8, OtherStep DEF ActionCommand
<1>9. CASE DelayCommand
  BY <1>9, OtherStep DEF DelayCommand
<1>10. CASE EvrTick
  BY <1>10, OtherStep DEF EvrTick
<1>11. CASE EventArrives
  BY <1>11, OtherStep DEF EventArrives
<1>12. CASE UNCHANGED evrVars
  BY <1>12, OtherStep DEF evrVars, reading
<1> QED
  BY <1>1, <1>2, <1>3, <1>4, <1>5, <1>6, <1>7, <1>8, <1>9, <1>10, <1>11, <1>12 DEF EvrNext

\* The time evrCurrentTime returns is that of an instant of the call, for any
\* resolution of the clock and any delay between the reads.
THEOREM StampIsAnInstant == EvrSpec => []TimeIsAnInstant
<1>1. TimeInv => TimeIsAnInstant
  BY DEF TimeInv
<1> QED BY TimeInit, TimeStep, <1>1, PTL DEF EvrSpec

-----------------------------------------------------------------------------
\* The eye scan.
\* The machine has left its end when a scan begins, and when a point does.
Rests ==
  /\ esPc \in {"idle", "sync"} => gtState = "wait"
  /\ esPc \in {"sync", "syncing"} => esAt = First
  /\ esPc = "scan" /\ esAcquiring = "no" => gtState = "wait" \/ esAt = First
\* A point under way has its own offsets, and the count at its end is of them.
CountIsOwn ==
  esPc = "scan" /\ esAcquiring = "yes" =>
    /\ gtOffset = esAt
    /\ gtState = "end" => gtCounted = esAt \/ esAt = First
ScanInv == Rests /\ CountIsOwn /\ PointsAreOwn

LEMMA ScanInit == EyescanInit => ScanInv
BY DEF EyescanInit, ScanInv, Rests, CountIsOwn, PointsAreOwn, NoPoint

LEMMA ScanStep == ScanInv /\ [EyescanNext]_esVars => ScanInv'
<1> SUFFICES ASSUME ScanInv, [EyescanNext]_esVars PROVE ScanInv'
  OBVIOUS
<1> USE DEF ScanInv, Rests, CountIsOwn, PointsAreOwn
<1>1. CASE ScanCommand
  BY <1>1 DEF ScanCommand
<1>2. CASE SyncRun
  BY <1>2 DEF SyncRun, SetRun
<1>3. CASE Synced
  BY <1>3 DEF Synced, gtVars
<1>4. CASE Resync
  BY <1>4 DEF Resync
<1>5. CASE SyncTimeout
  BY <1>5 DEF SyncTimeout, ClearRun
<1>6. CASE XBorderCrank
  BY <1>6 DEF XBorderCrank, gtVars
<1>7. CASE StartPoint
  BY <1>7 DEF StartPoint, SetRun
<1>8. CASE PlotPoint
  <2>1. esPoint'.at \notin {Centre, First} => esPoint'.counted = esPoint'.at
    BY <1>8 DEF PlotPoint
  <2>2. esPc' = "scan" /\ esAcquiring' = "no" /\ gtState' = "wait"
    BY <1>8 DEF PlotPoint, ClearRun
  <2> QED BY <2>1, <2>2
<1>9. CASE PointTimeout
  BY <1>9 DEF PointTimeout, ClearRun
<1>10. CASE ScanOver
  <2>1. esAt # First
    BY <1>10, GridAssumption DEF ScanOver, First
  <2> QED BY <1>10, <2>1 DEF ScanOver, gtVars
<1>11. CASE ScanCounted
  BY <1>11 DEF ScanCounted
<1>12. CASE UNCHANGED esVars
  BY <1>12 DEF esVars
<1> QED
  BY <1>1, <1>2, <1>3, <1>4, <1>5, <1>6, <1>7, <1>8, <1>9, <1>10, <1>11, <1>12
  DEF EyescanNext, Step, Timeouts

\* Every point of a scan but the first is plotted with a count at its own
\* offsets, for any grid.
THEOREM PlotsAreOwn == EyescanSpec => []PointsAreOwn
<1>1. ScanInv => PointsAreOwn
  BY DEF ScanInv
<1> QED BY ScanInit, ScanStep, <1>1, PTL DEF EyescanSpec

-----------------------------------------------------------------------------
\* The display.  A refresh clears the screen whenever it changes what is shown
\* on it, and draws rows of that page only.
LEMMA RefreshIsCurrent ==
  ASSUME NEW newMode, ScreenIsCurrent, Refresh(newMode)
  PROVE  ScreenIsCurrent'
<1> DEFINE mode == ModeFor(newMode)
           forgotten == IF mode # displayMode THEN "pageLast" ELSE currentPage
           page == IF mode = "PAGES" THEN PageFor ELSE forgotten
           redrawAll == mode # displayMode \/ page # forgotten
           row == IF mode = "PAGES" THEN {page} ELSE {}
<1>1. /\ displayMode' = mode /\ currentPage' = page
      /\ screen' = IF redrawAll THEN Cleared(mode, page) ELSE screen
      /\ drawn' = (IF redrawAll THEN {} ELSE drawn) \cup row
  BY DEF Refresh
<1>2. row \subseteq {Cleared(mode, page).page}
  BY DEF Cleared
<1> HIDE DEF page, row, mode
<1>3. CASE redrawAll
  BY <1>1, <1>2, <1>3 DEF ScreenIsCurrent
<1>4. CASE ~redrawAll
  <2>1. mode = displayMode /\ page = currentPage
    BY <1>4
  <2>2. screen' = Cleared(mode, page) /\ drawn' = drawn \cup row
    BY <1>1, <1>4, <2>1 DEF ScreenIsCurrent
  <2>3. drawn \subseteq {Cleared(mode, page).page}
    BY <2>1 DEF ScreenIsCurrent
  <2> QED BY <1>1, <1>2, <2>2, <2>3 DEF ScreenIsCurrent
<1> QED BY <1>3, <1>4

LEMMA DisplayStep == ScreenIsCurrent /\ [DisplayNext]_displayVars => ScreenIsCurrent'
<1> SUFFICES ASSUME ScreenIsCurrent, [DisplayNext]_displayVars PROVE ScreenIsCurrent'
  OBVIOUS
<1>1. CASE UNCHANGED <<displayMode, currentPage, screen, drawn>>
  BY <1>1 DEF ScreenIsCurrent, Cleared
<1>2. CASE DisplayUpdate
  BY <1>2, RefreshIsCurrent DEF DisplayUpdate
<1>3. CASE EnterMain
  BY <1>1, <1>3, RefreshIsCurrent DEF EnterMain
<1>4. CASE Warn
  BY <1>1, <1>4, RefreshIsCurrent DEF Warn
<1>5. CASE Fatal
  BY <1>5, RefreshIsCurrent DEF Fatal
<1>6. CASE MinuteOver \/ ButtonMoves \/ ButtonHeld
  BY <1>1, <1>6 DEF MinuteOver, ButtonMoves, ButtonHeld
<1>7. CASE UNCHANGED displayVars
  BY <1>1, <1>7 DEF displayVars
<1> QED BY <1>2, <1>3, <1>4, <1>5, <1>6, <1>7 DEF DisplayNext

\* The screen shows the mode and page the display is in and rows of no other,
\* for any times, any rows of a page and any number of messages.
THEOREM ScreenStaysCurrent == DisplaySpec => []ScreenIsCurrent
<1>1. DisplayInit => ScreenIsCurrent
  BY DEF DisplayInit, ScreenIsCurrent, Cleared
<1> QED BY <1>1, DisplayStep, PTL DEF DisplaySpec
-----------------------------------------------------------------------------
(* The IIC driver: who answers, and who hears.                             *)

LEMMA DevicesAre == Devices = {"expander", "vccint", "ir35215", "eeprom", "bridge", "rfmc", "sfp"}
BY DEF Devices, deviceTable

\* The multiplexer of each device.
LEMMA MuxesAre ==
    ASSUME NEW d \in Devices
    PROVE  MuxOf(d) = IF d \in {"expander", "vccint", "ir35215"} THEN 0
                      ELSE IF d = "sfp" THEN 2 ELSE 1
BY DevicesAre DEF MuxOf, deviceTable, Device

\* The other multiplexer of the second controller is closed, and the device's
\* own has enabled its port.
Shared(d) == deviceTable[d].controller # 0
Deselected(d) == Shared(d) => enabled[3 - MuxOf(d)] = MUXPORT_NONE
Selected(d) ==
    deviceTable[d].port # MUXPORT_NONE => enabled[MuxOf(d)] = deviceTable[d].port /\ Deselected(d)

\* A device that is selected answers alone.
LEMMA SelectedIsAlone ==
    ASSUME NEW d \in Devices, Selected(d)
    PROVE  Answering(d) = {d}
<1>1. \A x \in Devices : deviceTable[x].controller = (IF x \in {"expander", "vccint", "ir35215"} THEN 0 ELSE 1)
  BY DevicesAre DEF deviceTable, Device
<1>2. \A x \in Devices : deviceTable[x].address =
         CASE x = "expander" -> 32 [] x \in {"vccint", "ir35215"} -> 64
           [] x = "eeprom" -> 84 [] x = "bridge" -> 47 [] OTHER -> 80
  BY DevicesAre DEF deviceTable, Device
<1>3. \A x \in Devices : deviceTable[x].port =
         CASE x = "expander" -> MUXPORT_NONE [] x \in {"vccint", "eeprom"} -> 0
           [] x = "ir35215" -> 2 [] x = "bridge" -> 5 [] x = "rfmc" -> 6 [] OTHER -> 13
  BY DevicesAre DEF deviceTable, Device
<1>4. \A x \in Devices : MuxOf(x) = IF x \in {"expander", "vccint", "ir35215"} THEN 0
                                   ELSE IF x = "sfp" THEN 2 ELSE 1
  BY MuxesAre
<1>5. d \in Answering(d)
  BY DEF Answering, Selected
<1>6. ASSUME NEW x \in Answering(d) PROVE x = d
  <2>1. x \in Devices /\ deviceTable[x].controller = deviceTable[d].controller
        /\ deviceTable[x].address = deviceTable[d].address
        /\ deviceTable[x].port \in {MUXPORT_NONE, enabled[MuxOf(x)]}
    BY DEF Answering
  <2>2. CASE d = "expander"
    BY <1>2, <2>1, <2>2, DevicesAre
  <2>3. CASE d \in {"vccint", "ir35215"}
    <3>1. x \in {"vccint", "ir35215"}
      BY <1>2, <2>1, <2>3, DevicesAre
    <3>2. enabled[0] = deviceTable[d].port /\ deviceTable[x].port \in {MUXPORT_NONE, enabled[0]}
      BY <1>3, <1>4, <2>1, <2>3, <3>1 DEF Selected, MUXPORT_NONE
    <3> QED BY <1>3, <2>1, <2>3, <3>1, <3>2 DEF MUXPORT_NONE
  <2>4. CASE d \in {"eeprom", "bridge"}
    BY <1>2, <2>1, <2>4, DevicesAre
  <2>5. CASE d \in {"rfmc", "sfp"}
    <3>1. x \in {"rfmc", "sfp"}
      BY <1>2, <2>1, <2>5, DevicesAre
    <3>2. enabled[MuxOf(d)] = deviceTable[d].port /\ enabled[3 - MuxOf(d)] = MUXPORT_NONE
      BY <1>1, <1>3, <2>5 DEF Selected, Deselected, Shared, MUXPORT_NONE
    <3> QED BY <1>3, <1>4, <2>1, <2>5, <3>1, <3>2 DEF MUXPORT_NONE
  <2> QED BY <2>2, <2>3, <2>4, <2>5, DevicesAre
<1> QED BY <1>5, <1>6

-----------------------------------------------------------------------------
\* What the driver does with a call: the steps of its list of transfers.
Busy == {"reg", "page", "pageWrite", "spi", "recv"}
Steps == Busy \cup {"sdo", "deselect", "select"}
Values == Nat \cup Registers
Items == [step : Steps, device : Devices, value : Values]

\* A call: only that of the bridge has a chip, and asks for no register.
IsCall(c) ==
    /\ c = [kind |-> c.kind, device |-> c.device, page |-> c.page, reg |-> c.reg,
            chip |-> c.chip, result |-> c.result, got |-> c.got]
    /\ c.kind \in {"none", "write", "read", "version", "pmbus", "store", "command", "chip"}
    /\ c.device \in Devices /\ c.page \in Values /\ c.reg \in Values
    /\ c.kind \in {"read", "pmbus"} => c.device # "bridge" /\ c.chip = "none"
    /\ c.kind \in {"version", "command", "chip"} => c.device = "bridge"
    /\ c.kind = "store" => c.device = "eeprom"
    /\ c.kind = "chip" => c.reg = 0

\* What is left of the transfers of call c: a selection is of two transfers,
\* nothing is said to a device before it, a chip is routed first of all, and the
\* answer is read in the end.
InOrder(t) ==
    \A i \in 1..Len(t) : i + 1 <= Len(t) =>
        /\ t[i + 1].step = "select" => t[i].step = "deselect"
        /\ t[i + 1].step \in Busy => t[i].step \in Busy \cup {"select"}
        /\ t[i + 1].step # "sdo" /\ t[i].step # "recv"
IsFor(t, c) ==
    \A i \in 1..Len(t) :
        /\ t[i].device = c.device
        /\ t[i].step = "page" => c.kind = "pmbus" /\ t[i].value = c.page
        /\ t[i].step = "reg" /\ c.kind \in {"read", "pmbus"} => t[i].value = c.reg
        /\ t[i].step = "pageWrite" => c.kind = "store"
EndsInAnswer(t, c) ==
    c.kind \in {"read", "pmbus", "chip"} /\ t # <<>> => t[Len(t)].step = "recv"
Rest(t, c) == t \in Seq(Items) /\ InOrder(t) /\ IsFor(t, c) /\ EndsInAnswer(t, c)

\* Whether a step is still to be done.
Due(t, s) == \E i \in 1..Len(t) : t[i].step = s

LEMMA MuxIs ==
    ASSUME NEW d \in Devices
    PROVE  /\ Mux(d) \in Seq(Items) /\ Len(Mux(d)) = 2
           /\ Mux(d)[1] = Item("deselect", d, 0) /\ Mux(d)[2] = Item("select", d, 0)
BY DEF Mux, Item, Items, Steps, Values

\* A sequence of at most two items after another one.
LEMMA Joined ==
    ASSUME NEW a \in Seq(Items), NEW b \in Seq(Items)
    PROVE  /\ a \o b \in Seq(Items) /\ Len(a \o b) = Len(a) + Len(b)
           /\ \A i \in 1..(Len(a) + Len(b)) : (a \o b)[i] = IF i <= Len(a) THEN a[i] ELSE b[i - Len(a)]
BY ConcatProperties

LEMMA OneIs ==
    ASSUME NEW s \in Steps, NEW d \in Devices, NEW v \in Values
    PROVE  <<Item(s, d, v)>> \in Seq(Items) /\ Len(<<Item(s, d, v)>>) = 1
           /\ <<Item(s, d, v)>>[1] = Item(s, d, v)
BY DEF Item, Items

LEMMA TwoAre ==
    ASSUME NEW s \in Steps, NEW d \in Devices, NEW v \in Values, NEW r \in Steps, NEW w \in Values,
           NEW t, t = <<Item(s, d, v), Item(r, d, w)>>
    PROVE  t \in Seq(Items) /\ Len(t) = 2 /\ t[1] = Item(s, d, v) /\ t[2] = Item(r, d, w)
BY DEF Item, Items

LEMMA WriteIs ==
    ASSUME NEW d \in Devices, NEW s \in Steps, NEW v \in Values
    PROVE  LET t == IicWrite(d, s, v) IN
           /\ t \in Seq(Items) /\ Len(t) = 3
           /\ t[1] = Item("deselect", d, 0) /\ t[2] = Item("select", d, 0) /\ t[3] = Item(s, d, v)
<1> DEFINE a == Mux(d)
           b == <<Item(s, d, v)>>
<1>1. /\ a \in Seq(Items) /\ Len(a) = 2 /\ a[1] = Item("deselect", d, 0) /\ a[2] = Item("select", d, 0)
      /\ b \in Seq(Items) /\ Len(b) = 1 /\ b[1] = Item(s, d, v) /\ IicWrite(d, s, v) = a \o b
  BY MuxIs, OneIs DEF IicWrite
<1> HIDE DEF a, b
<1>2. /\ a \o b \in Seq(Items) /\ Len(a \o b) = Len(a) + Len(b)
      /\ \A i \in 1..(Len(a) + Len(b)) : (a \o b)[i] = IF i <= Len(a) THEN a[i] ELSE b[i - Len(a)]
  BY <1>1, Joined
<1>3. (a \o b)[1] = a[1] /\ (a \o b)[2] = a[2] /\ (a \o b)[3] = b[1]
  BY <1>1, <1>2
<1> QED BY <1>1, <1>2, <1>3

LEMMA ReadIs ==
    ASSUME NEW d \in Devices, NEW v \in Values
    PROVE  LET t == IicRead(d, v) IN
           /\ t \in Seq(Items) /\ Len(t) = 4
           /\ t[1] = Item("deselect", d, 0) /\ t[2] = Item("select", d, 0)
           /\ t[3] = Item("reg", d, v) /\ t[4] = Item("recv", d, 0)
<1> DEFINE a == Mux(d)
           b == <<Item("reg", d, v), Item("recv", d, 0)>>
<1>1. /\ a \in Seq(Items) /\ Len(a) = 2 /\ a[1] = Item("deselect", d, 0) /\ a[2] = Item("select", d, 0)
      /\ b \in Seq(Items) /\ Len(b) = 2 /\ b[1] = Item("reg", d, v) /\ b[2] = Item("recv", d, 0)
      /\ IicRead(d, v) = a \o b
  BY MuxIs, TwoAre DEF IicRead, Steps, Busy, Values
<1> HIDE DEF a, b
<1>2. /\ a \o b \in Seq(Items) /\ Len(a \o b) = Len(a) + Len(b)
      /\ \A i \in 1..(Len(a) + Len(b)) : (a \o b)[i] = IF i <= Len(a) THEN a[i] ELSE b[i - Len(a)]
  BY <1>1, Joined
<1>3. (a \o b)[1] = a[1] /\ (a \o b)[2] = a[2] /\ (a \o b)[3] = b[1] /\ (a \o b)[4] = b[2]
  BY <1>1, <1>2
<1> QED BY <1>1, <1>2, <1>3

LEMMA TransfersWrite ==
    ASSUME NEW c, IsCall(c), NEW t, NEW s \in Steps, NEW v \in Values,
           t \in Seq(Items), Len(t) = 3, s # "page", s # "sdo", s # "select", s # "deselect",
           s = "reg" => c.kind = "write", s # "pageWrite",
           t[1] = Item("deselect", c.device, 0), t[2] = Item("select", c.device, 0),
           t[3] = Item(s, c.device, v), c.kind \in {"write", "version", "command"}
    PROVE  Rest(t, c)
<1>1. \A i \in 1..3 : t[i].device = c.device
  BY DEF Item
<1>2. t[1].step = "deselect" /\ t[2].step = "select" /\ t[3].step = s
  BY DEF Item
<1>3. IsFor(t, c)
  BY <1>1, <1>2 DEF IsFor
<1>4. InOrder(t)
  BY <1>2 DEF InOrder, Busy
<1> QED BY <1>3, <1>4 DEF Rest, EndsInAnswer

\* What every call begins with, and that it does what it is named for.
Begins(t, c) ==
    /\ Len(t) > 0 /\ t[1].step \in {"sdo", "deselect"}
    /\ c.kind \in {"read", "pmbus"} => Due(t, "reg")
    /\ c.kind = "pmbus" => Due(t, "page")
    /\ c.kind = "chip" => Due(t, "sdo") /\ Due(t, "spi")

LEMMA TransfersAre ==
    ASSUME NEW c, IsCall(c), c.kind # "none"
    PROVE  Rest(Transfers(c), c) /\ Begins(Transfers(c), c)
<1> DEFINE t == Transfers(c)
           d == c.device
<1>0. d \in Devices /\ c.reg \in Values /\ c.page \in Values /\ 0 \in Values /\ 1 \in Values
  BY DEF IsCall, Values
<1>00. Steps = {"reg", "page", "pageWrite", "spi", "recv", "sdo", "deselect", "select"}
  BY DEF Steps, Busy
<1>1. CASE c.kind = "write"
  <2>1. t = IicWrite(d, "reg", c.reg)
    BY <1>1 DEF Transfers
  <2>2. /\ t \in Seq(Items) /\ Len(t) = 3 /\ t[1] = Item("deselect", d, 0)
        /\ t[2] = Item("select", d, 0) /\ t[3] = Item("reg", d, c.reg)
    BY <1>0, <1>00, <2>1, WriteIs
  <2> QED BY <1>0, <1>00, <1>1, <2>2, TransfersWrite DEF Begins, Item
<1>2. CASE c.kind = "command"
  <2>1. t = IicWrite(d, "spi", 0)
    BY <1>2 DEF Transfers, IsCall
  <2>2. /\ t \in Seq(Items) /\ Len(t) = 3 /\ t[1] = Item("deselect", d, 0)
        /\ t[2] = Item("select", d, 0) /\ t[3] = Item("spi", d, 0)
    BY <1>0, <1>00, <2>1, WriteIs
  <2> QED BY <1>0, <1>00, <1>2, <2>2, TransfersWrite DEF Begins, Item
<1>3. CASE c.kind = "version"
  <2>1. t = IicWrite(d, "recv", 0)
    BY <1>3 DEF Transfers, IsCall, IicReadNext, IicWrite
  <2>2. /\ t \in Seq(Items) /\ Len(t) = 3 /\ t[1] = Item("deselect", d, 0)
        /\ t[2] = Item("select", d, 0) /\ t[3] = Item("recv", d, 0)
    BY <1>0, <1>00, <2>1, WriteIs
  <2> QED BY <1>0, <1>00, <1>3, <2>2, TransfersWrite DEF Begins, Item
<1>4. CASE c.kind = "read"
  <2>1. t = IicRead(d, c.reg)
    BY <1>4 DEF Transfers
  <2>2. /\ t \in Seq(Items) /\ Len(t) = 4 /\ t[1] = Item("deselect", d, 0)
        /\ t[2] = Item("select", d, 0) /\ t[3] = Item("reg", d, c.reg) /\ t[4] = Item("recv", d, 0)
    BY <1>0, <2>1, ReadIs
  <2> HIDE DEF t
  <2>3. t[1].step = "deselect" /\ t[2].step = "select" /\ t[3].step = "reg" /\ t[4].step = "recv"
    BY <2>2 DEF Item
  <2>4. IsFor(t, c) /\ InOrder(t)
    BY <1>4, <2>2, <2>3 DEF IsFor, InOrder, Busy, Item
  <2>5. Rest(t, c)
    BY <2>2, <2>3, <2>4 DEF Rest, EndsInAnswer
  <2>6. Begins(t, c)
    BY <1>4, <2>2, <2>3 DEF Begins, Due
  <2> QED BY <2>5, <2>6 DEF t
<1>5. CASE c.kind = "store"
  <2> DEFINE a == Mux("eeprom")
             b == [p \in 1..2 |-> Item("pageWrite", "eeprom", p - 1)]
  <2>1. d = "eeprom" /\ t = a \o b
    BY <1>5 DEF Transfers, IsCall
  <2>2. /\ a \in Seq(Items) /\ Len(a) = 2 /\ a[1] = Item("deselect", d, 0) /\ a[2] = Item("select", d, 0)
    BY <1>0, <2>1, MuxIs
  <2>3. \A p \in 1..2 : Item("pageWrite", d, p - 1) \in Items
    BY <1>0, <1>00 DEF Item, Items, Values
  <2>4. b \in [1..2 -> Items]
    BY <2>1, <2>3
  <2>5. b \in Seq(Items) /\ Len(b) = 2 /\ b[1].step = "pageWrite" /\ b[2].step = "pageWrite"
        /\ b[1].device = d /\ b[2].device = d
    BY <2>1, <2>4, IsASeq DEF Item
  <2> HIDE DEF a, b, t
  <2>6. /\ a \o b \in Seq(Items) /\ Len(a \o b) = Len(a) + Len(b)
        /\ \A i \in 1..(Len(a) + Len(b)) : (a \o b)[i] = IF i <= Len(a) THEN a[i] ELSE b[i - Len(a)]
    BY <2>2, <2>5, Joined
  <2>7. t \in Seq(Items) /\ Len(t) = 4 /\ t[1] = a[1] /\ t[2] = a[2] /\ t[3] = b[1] /\ t[4] = b[2]
    BY <2>1, <2>2, <2>5, <2>6
  <2>8. t[1].step = "deselect" /\ t[2].step = "select" /\ t[3].step = "pageWrite" /\ t[4].step = "pageWrite"
        /\ \A i \in 1..4 : t[i].device = d
    BY <2>2, <2>5, <2>7 DEF Item
  <2>9. IsFor(t, c) /\ InOrder(t)
    BY <1>5, <2>7, <2>8 DEF IsFor, InOrder, Busy
  <2>10. Rest(t, c)
    BY <1>5, <2>7, <2>9 DEF Rest, EndsInAnswer
  <2>11. Begins(t, c)
    BY <1>5, <2>7, <2>8 DEF Begins
  <2> QED BY <2>10, <2>11 DEF t
<1>6. CASE c.kind = "pmbus"
  <2> DEFINE a == IicWrite(d, "page", c.page)
             b == IicRead(d, c.reg)
  <2>1. t = a \o b
    BY <1>6 DEF Transfers
  <2>2. /\ a \in Seq(Items) /\ Len(a) = 3 /\ a[1] = Item("deselect", d, 0) /\ a[2] = Item("select", d, 0)
        /\ a[3] = Item("page", d, c.page)
    BY <1>0, <1>00, WriteIs
  <2>3. /\ b \in Seq(Items) /\ Len(b) = 4 /\ b[1] = Item("deselect", d, 0)
        /\ b[2] = Item("select", d, 0) /\ b[3] = Item("reg", d, c.reg) /\ b[4] = Item("recv", d, 0)
    BY <1>0, ReadIs
  <2> HIDE DEF a, b, t
  <2>4. /\ a \o b \in Seq(Items) /\ Len(a \o b) = Len(a) + Len(b)
        /\ \A i \in 1..(Len(a) + Len(b)) : (a \o b)[i] = IF i <= Len(a) THEN a[i] ELSE b[i - Len(a)]
    BY <2>2, <2>3, Joined
  <2>5. /\ t \in Seq(Items) /\ Len(t) = 7 /\ t[1] = a[1] /\ t[2] = a[2] /\ t[3] = a[3]
        /\ t[4] = b[1] /\ t[5] = b[2] /\ t[6] = b[3] /\ t[7] = b[4]
    BY <2>1, <2>2, <2>3, <2>4
  <2>6. /\ t[1].step = "deselect" /\ t[2].step = "select" /\ t[3].step = "page" /\ t[4].step = "deselect"
        /\ t[5].step = "select" /\ t[6].step = "reg" /\ t[7].step = "recv"
        /\ \A i \in 1..7 : t[i].device = d
    BY <2>2, <2>3, <2>5 DEF Item
  <2>7. t[3].value = c.page /\ t[6].value = c.reg
    BY <2>2, <2>3, <2>5 DEF Item
  <2>8. IsFor(t, c)
    BY <1>6, <2>5, <2>6, <2>7 DEF IsFor
  <2>9. InOrder(t)
    BY <2>5, <2>6 DEF InOrder, Busy
  <2>10. Rest(t, c)
    BY <2>5, <2>6, <2>8, <2>9 DEF Rest, EndsInAnswer
  <2>11. Begins(t, c)
    BY <1>6, <2>5, <2>6 DEF Begins, Due
  <2> QED BY <2>10, <2>11 DEF t
<1>7. CASE c.kind = "chip"
  <2> DEFINE a == <<Item("sdo", d, 0)>>
             b == IicWrite(d, "spi", 0)
             r == IicWrite(d, "recv", 0)
  <2>1. t = a \o b \o r
    BY <1>7 DEF Transfers, IsCall, IicReadNext, IicWrite
  <2>2. a \in Seq(Items) /\ Len(a) = 1 /\ a[1] = Item("sdo", d, 0)
    BY <1>0, <1>00, OneIs
  <2>3. /\ b \in Seq(Items) /\ Len(b) = 3 /\ b[1] = Item("deselect", d, 0)
        /\ b[2] = Item("select", d, 0) /\ b[3] = Item("spi", d, 0)
        /\ r \in Seq(Items) /\ Len(r) = 3 /\ r[1] = Item("deselect", d, 0)
        /\ r[2] = Item("select", d, 0) /\ r[3] = Item("recv", d, 0)
    BY <1>0, <1>00, WriteIs
  <2> HIDE DEF a, b, r, t
  <2> DEFINE ab == a \o b
  <2>4. /\ ab \in Seq(Items) /\ Len(ab) = Len(a) + Len(b)
        /\ \A i \in 1..(Len(a) + Len(b)) : ab[i] = IF i <= Len(a) THEN a[i] ELSE b[i - Len(a)]
    BY <2>2, <2>3, Joined
  <2>40. t = ab \o r
    BY <2>1
  <2> HIDE DEF ab
  <2>5. /\ ab \o r \in Seq(Items) /\ Len(ab \o r) = Len(ab) + Len(r)
        /\ \A i \in 1..(Len(ab) + Len(r)) : (ab \o r)[i] = IF i <= Len(ab) THEN ab[i] ELSE r[i - Len(ab)]
    BY <2>3, <2>4, Joined
  <2>6. Len(ab) = 4 /\ ab[1] = a[1] /\ ab[2] = b[1] /\ ab[3] = b[2] /\ ab[4] = b[3]
    BY <2>2, <2>3, <2>4
  <2>7. /\ t \in Seq(Items) /\ Len(t) = 7 /\ t[1] = a[1] /\ t[2] = b[1] /\ t[3] = b[2] /\ t[4] = b[3]
        /\ t[5] = r[1] /\ t[6] = r[2] /\ t[7] = r[3]
    BY <2>3, <2>40, <2>5, <2>6
  <2>8. /\ t[1].step = "sdo" /\ t[2].step = "deselect" /\ t[3].step = "select" /\ t[4].step = "spi"
        /\ t[5].step = "deselect" /\ t[6].step = "select" /\ t[7].step = "recv"
        /\ \A i \in 1..7 : t[i].device = d
    BY <2>2, <2>3, <2>7 DEF Item
  <2>9. IsFor(t, c)
    BY <1>7, <2>7, <2>8 DEF IsFor
  <2>10. InOrder(t)
    BY <2>7, <2>8 DEF InOrder, Busy
  <2>11. Rest(t, c)
    BY <2>7, <2>8, <2>9, <2>10 DEF Rest, EndsInAnswer
  <2>12. Begins(t, c)
    BY <1>7, <2>7, <2>8 DEF Begins, Due
  <2> QED BY <2>11, <2>12 DEF t
<1> QED BY <1>1, <1>2, <1>3, <1>4, <1>5, <1>6, <1>7 DEF IsCall

-----------------------------------------------------------------------------
\* What the multiplexers have enabled as far as the driver believes to know:
\* a port it remembers is enabled, and one of the second controller's that it
\* takes for closed is.  After a restart it knows nothing of the first's.
MuxesAreKnown ==
    /\ muxPort \in [Muxes -> Nat] /\ enabled \in [Muxes -> Nat]
    /\ \A m \in Muxes :
         /\ muxPort[m] \notin {MUXPORT_NONE, MUXPORT_UNKNOWN} => enabled[m] = muxPort[m]
         /\ m # 0 /\ muxPort[m] = MUXPORT_NONE => enabled[m] = MUXPORT_NONE

CallIsUnderWay ==
    /\ IsCall(call) /\ Rest(todo, call)
    /\ todo # <<>> => call.result = "pending"

\* How far the selection of the device is.
Reached ==
    todo # <<>> =>
        /\ todo[1].step = "select" => Deselected(call.device)
        /\ todo[1].step \in Busy => Selected(call.device)

\* What the device has been told is in it.
Told ==
    todo # <<>> =>
        /\ call.kind \in {"read", "pmbus"} /\ ~Due(todo, "reg") => regs[call.device].reg = call.reg
        /\ call.kind = "pmbus" /\ ~Due(todo, "page") => regs[call.device].page = call.page
        /\ call.kind = "chip" /\ ~Due(todo, "sdo") => sdo = call.chip
        /\ call.kind = "chip" /\ ~Due(todo, "spi") /\ version = fitted => bridged = call.chip

\* The bridge has no pages.
RegistersAre == regs \in [Devices -> [page : Values, reg : Values]] /\ regs["bridge"].page = 0

IicInv == MuxesAreKnown /\ CallIsUnderWay /\ Reached /\ Told /\ RegistersAre /\ AnswerIsOwn

\* The first transfer done leaves the rest of a list.
LEMMA TailIsRest ==
    ASSUME NEW c, NEW t, Rest(t, c), t # <<>>, Tail(t) # <<>>
    PROVE  /\ Rest(Tail(t), c)
           /\ Tail(t)[1].step \in Busy => t[1].step \in Busy \cup {"select"}
           /\ Tail(t)[1].step = "select" => t[1].step = "deselect"
           /\ t[1].step # "recv"
           /\ \A s : Due(t, s) /\ t[1].step # s => Due(Tail(t), s)
<1> DEFINE u == Tail(t)
<1>1. /\ t \in Seq(Items) /\ u \in Seq(Items) /\ Len(u) = Len(t) - 1 /\ Len(u) > 0
      /\ \A i \in 1..Len(u) : u[i] = t[i + 1]
  BY HeadTailProperties, EmptySeq DEF Rest
<1> HIDE DEF u
<1>2. u[1] = t[2] /\ Len(t) \in Nat /\ Len(u) \in Nat
  BY <1>1
<1>3. InOrder(t) /\ IsFor(t, c) /\ EndsInAnswer(t, c)
  BY DEF Rest
<1>4. InOrder(u)
  <2> SUFFICES ASSUME NEW i \in 1..Len(u), i + 1 <= Len(u)
               PROVE  /\ u[i + 1].step = "select" => u[i].step = "deselect"
                      /\ u[i + 1].step \in Busy => u[i].step \in Busy \cup {"select"}
                      /\ u[i + 1].step # "sdo" /\ u[i].step # "recv"
    BY DEF InOrder
  <2>1. u[i] = t[i + 1] /\ u[i + 1] = t[(i + 1) + 1] /\ i + 1 \in 1..Len(t) /\ (i + 1) + 1 <= Len(t)
    BY <1>1, <1>2
  <2> QED BY <2>1, <1>3 DEF InOrder
<1>5. IsFor(u, c)
  <2> SUFFICES ASSUME NEW i \in 1..Len(u)
               PROVE  /\ u[i].device = c.device
                      /\ u[i].step = "page" => c.kind = "pmbus" /\ u[i].value = c.page
                      /\ u[i].step = "reg" /\ c.kind \in {"read", "pmbus"} => u[i].value = c.reg
                      /\ u[i].step = "pageWrite" => c.kind = "store"
    BY DEF IsFor
  <2>1. u[i] = t[i + 1] /\ i + 1 \in 1..Len(t)
    BY <1>1, <1>2
  <2> QED BY <2>1, <1>3 DEF IsFor
<1>6. EndsInAnswer(u, c)
  <2>1. u[Len(u)] = t[Len(u) + 1] /\ Len(u) + 1 = Len(t)
    BY <1>1, <1>2
  <2>2. u[Len(u)] = t[Len(t)] /\ t # <<>>
    BY <2>1
  <2> QED BY <2>2, <1>3 DEF EndsInAnswer
<1>7. /\ u[1].step \in Busy => t[1].step \in Busy \cup {"select"}
      /\ u[1].step = "select" => t[1].step = "deselect" /\ t[1].step # "recv"
  <2>1. 1 \in 1..Len(t) /\ 1 + 1 <= Len(t) /\ t[1 + 1] = u[1]
    BY <1>1, <1>2
  <2> QED BY <2>1, <1>3 DEF InOrder
<1>8. t[1].step # "recv"
  <2>1. 1 \in 1..Len(t) /\ 1 + 1 <= Len(t)
    BY <1>1, <1>2
  <2> QED BY <2>1, <1>3 DEF InOrder
<1>9. ASSUME NEW s, Due(t, s), t[1].step # s PROVE Due(u, s)
  <2>1. PICK i \in 1..Len(t) : t[i].step = s
    BY <1>9 DEF Due
  <2>2. i # 1 /\ i - 1 \in 1..Len(u)
    BY <1>1, <1>2, <1>9, <2>1
  <2>3. u[i - 1] = t[(i - 1) + 1]
    BY <1>1, <2>2
  <2>4. u[i - 1].step = s
    BY <2>1, <2>3
  <2> QED BY <2>2, <2>4 DEF Due
<1> QED BY <1>1, <1>4, <1>5, <1>6, <1>7, <1>8, <1>9 DEF Rest, u

\* Only how the call ends is noted.
SameCall(c, e) ==
    /\ c.kind = e.kind /\ c.device = e.device /\ c.page = e.page /\ c.reg = e.reg /\ c.chip = e.chip

LEMMA SameRest ==
    ASSUME NEW c, NEW e, NEW t, SameCall(c, e), Rest(t, c)
    PROVE  Rest(t, e)
BY DEF SameCall, Rest, IsFor, EndsInAnswer

LEMMA Ended ==
    ASSUME NEW c, IsCall(c), NEW r
    PROVE  LET e == [c EXCEPT !.result = r] IN
           IsCall(e) /\ SameCall(c, e) /\ e.result = r /\ e.got = c.got
<1> DEFINE e == [c EXCEPT !.result = r]
<1>1. c = [kind |-> c.kind, device |-> c.device, page |-> c.page, reg |-> c.reg,
           chip |-> c.chip, result |-> c.result, got |-> c.got]
  BY DEF IsCall
<1>2. e = [kind |-> c.kind, device |-> c.device, page |-> c.page, reg |-> c.reg,
           chip |-> c.chip, result |-> r, got |-> c.got]
  BY <1>1
<1> HIDE DEF e
<1>3. SameCall(c, e) /\ e.result = r /\ e.got = c.got
  BY <1>2 DEF SameCall
<1>4. IsCall(e)
  BY <1>2, <1>3 DEF IsCall
<1> QED BY <1>3, <1>4 DEF e

\* What a transfer that is done, or fails, leaves of the call.
AfterTransfer ==
    /\ IsCall(call') /\ SameCall(call, call') /\ Rest(todo', call')
    /\ todo' # <<>> =>
         /\ call'.result = "pending"
         /\ todo'[1].step \in Busy => todo[1].step \in Busy \cup {"select"}
         /\ todo'[1].step = "select" => todo[1].step = "deselect"
         /\ \A s : Due(todo, s) /\ todo[1].step # s => Due(todo', s)
    /\ call'.kind \in {"read", "pmbus", "chip"} /\ todo[1].step # "recv" => call'.result # "ok"

LEMMA EmptyRest == ASSUME NEW c PROVE Rest(<<>>, c)
BY DEF Rest, InOrder, IsFor, EndsInAnswer

LEMMA AfterContinue ==
    ASSUME CallIsUnderWay, todo # <<>>, NEW ok \in BOOLEAN, Continue(ok)
    PROVE  AfterTransfer
<1> DEFINE r == IF ~ok THEN "failed" ELSE IF Len(todo) = 1 THEN "ok" ELSE "pending"
<1>1. /\ IsCall(call) /\ Rest(todo, call) /\ todo \in Seq(Items)
      /\ todo' = IF ok THEN Tail(todo) ELSE <<>>
      /\ call' = [call EXCEPT !.result = r]
  BY DEF CallIsUnderWay, Rest, Continue
<1> HIDE DEF r
<1>2. IsCall(call') /\ SameCall(call, call') /\ call'.result = r
  BY <1>1, Ended
<1>3. CASE todo' = <<>>
  <2>1. Rest(todo', call')
    BY <1>3, EmptyRest
  <2>2. ASSUME call'.kind \in {"read", "pmbus", "chip"}, todo[1].step # "recv" PROVE r # "ok"
    <3>1. todo[Len(todo)].step = "recv"
      BY <1>1, <1>2, <2>2 DEF Rest, EndsInAnswer, SameCall
    <3>2. Len(todo) # 1
      BY <2>2, <3>1
    <3> QED BY <3>2 DEF r
  <2> QED BY <1>2, <1>3, <2>1, <2>2 DEF AfterTransfer
<1>4. CASE todo' # <<>>
  <2>1. ok /\ todo' = Tail(todo) /\ Tail(todo) # <<>>
    BY <1>1, <1>4
  <2>2. Len(todo) # 1
    BY <1>1, <2>1, HeadTailProperties, EmptySeq
  <2>3. r = "pending"
    BY <2>1, <2>2 DEF r
  <2>4. /\ Rest(todo', call)
        /\ todo'[1].step \in Busy => todo[1].step \in Busy \cup {"select"}
        /\ todo'[1].step = "select" => todo[1].step = "deselect"
        /\ \A s : Due(todo, s) /\ todo[1].step # s => Due(todo', s)
    BY <1>1, <2>1, TailIsRest
  <2>5. Rest(todo', call')
    BY <1>2, <2>4, SameRest
  <2> QED BY <1>2, <2>3, <2>4, <2>5 DEF AfterTransfer
<1> QED BY <1>3, <1>4

\* The transfer under way is for the device of the call.
LEMMA AtHead ==
    ASSUME CallIsUnderWay, NEW s, At(s)
    PROVE  todo # <<>> /\ todo[1].step = s /\ device = call.device /\ device \in Devices
           /\ Head(todo) = todo[1] /\ todo[1].value \in Values
<1>1. todo \in Seq(Items) /\ todo # <<>> /\ IsFor(todo, call) /\ Head(todo).step = s
  BY DEF At, CallIsUnderWay, Rest
<1>2. Head(todo) = todo[1] /\ 1 \in 1..Len(todo) /\ todo[1] \in Items
  BY <1>1
<1>3. todo[1].device = call.device
  BY <1>1, <1>2 DEF IsFor
<1> QED BY <1>1, <1>2, <1>3 DEF device, CallIsUnderWay, IsCall, Items

\* No call is answered while transfers are left, and none of the calls that
\* read ends but with an answer.
LEMMA AfterAnswer ==
    ASSUME AfterTransfer, todo[1].step # "recv"
    PROVE  AnswerIsOwn' /\ CallIsUnderWay'
BY DEF AfterTransfer, AnswerIsOwn, CallIsUnderWay

\* A transfer that says nothing leaves what was told.
LEMMA AfterTold ==
    ASSUME AfterTransfer, Told, todo # <<>>, todo[1].step \notin {"reg", "page", "sdo", "spi"},
           UNCHANGED <<regs, spiVars, version, fitted>>
    PROVE  Told'
<1> SUFFICES ASSUME todo' # <<>> PROVE Told'
  BY DEF Told
<1>1. \A s \in {"reg", "page", "sdo", "spi"} : ~Due(todo', s) => ~Due(todo, s)
  BY DEF AfterTransfer
<1>2. /\ call'.kind = call.kind /\ call'.device = call.device /\ call'.page = call.page
      /\ call'.reg = call.reg /\ call'.chip = call.chip
  BY DEF AfterTransfer, SameCall
<1>3. regs' = regs /\ sdo' = sdo /\ bridged' = bridged /\ version' = version /\ fitted' = fitted
  BY DEF spiVars
<1> QED BY <1>1, <1>2, <1>3 DEF Told

\* A device that was selected remains so while the multiplexers rest.
LEMMA AfterReached ==
    ASSUME AfterTransfer, Reached, todo # <<>>, todo[1].step \in Busy \cup {"sdo"}, UNCHANGED enabled
    PROVE  Reached'
<1> SUFFICES ASSUME todo' # <<>> PROVE Reached'
  BY DEF Reached
<1>1. call'.device = call.device /\ todo'[1].step # "select"
      /\ (todo'[1].step \in Busy => todo[1].step \in Busy)
  BY DEF AfterTransfer, SameCall, Busy
<1> QED BY <1>1 DEF Reached, Selected, Deselected

LEMMA NoCallIs == IsCall(NoCall) /\ NoCall.kind = "none" /\ NoCall.result = "ok"
BY DevicesAre DEF NoCall, Ask, IsCall, Values

LEMMA IicStart == IicInit => IicInv
<1> SUFFICES ASSUME IicInit PROVE IicInv
  OBVIOUS
<1>1. call = NoCall /\ todo = <<>> /\ regs = [d \in Devices |-> [page |-> 0, reg |-> 0]]
  BY DEF IicInit
<1>2. MuxesAreKnown
  BY DEF IicInit, MuxesAreKnown, AtStart, Muxes, MUXPORT_NONE, MUXPORT_UNKNOWN
<1>3. CallIsUnderWay
  BY <1>1, NoCallIs, EmptyRest DEF CallIsUnderWay
<1>4. Reached /\ Told
  BY <1>1 DEF Reached, Told
<1>5. RegistersAre
  BY <1>1, DevicesAre DEF RegistersAre, Values
<1>6. AnswerIsOwn
  BY <1>1, NoCallIs DEF AnswerIsOwn
<1> QED BY <1>2, <1>3, <1>4, <1>5, <1>6 DEF IicInv

LEMMA BeginKeeps ==
    ASSUME NEW c, IsCall(c), c.kind # "none", Begin(c), IicInv, UNCHANGED <<muxVars, regs>>
    PROVE  IicInv'
<1>1. IsCall(call') /\ SameCall(c, call') /\ call'.result = "pending" /\ todo' = Transfers(c)
  BY Ended DEF Begin
<1>2. Rest(todo', c) /\ Begins(todo', c)
  BY <1>1, TransfersAre
<1>3. CallIsUnderWay'
  BY <1>1, <1>2, SameRest DEF CallIsUnderWay
<1>4. Reached'
  BY <1>2 DEF Reached, Begins, Busy
<1>5. Told'
  BY <1>1, <1>2 DEF Told, Begins, SameCall
<1>6. AnswerIsOwn'
  BY <1>1 DEF AnswerIsOwn
<1>7. MuxesAreKnown' /\ RegistersAre'
  BY DEF IicInv, MuxesAreKnown, RegistersAre, muxVars
<1> QED BY <1>3, <1>4, <1>5, <1>6, <1>7 DEF IicInv

LEMMA RequestsAre == \A q \in Requests : IsCall(q) /\ q.kind # "none"
<1> DEFINE Good(q) == IsCall(q) /\ q.kind # "none"
<1>1. ASSUME NEW d \in {"vccint", "rfmc", "sfp"}, NEW r \in Registers
      PROVE  Good(Ask("read", d, 0, r, "none"))
  BY DevicesAre DEF Ask, IsCall, Values
<1>2. ASSUME NEW p \in Registers, NEW r \in Registers
      PROVE  Good(Ask("pmbus", "ir35215", p, r, "none"))
  BY DevicesAre DEF Ask, IsCall, Values
<1>3. Good(Ask("store", "eeprom", 0, 0, "none"))
  BY DevicesAre DEF Ask, IsCall, Values
<1>4. ASSUME NEW k \in {"chip", "command"}, NEW c \in Chips
      PROVE  Good(Ask(k, "bridge", 0, 0, c))
  BY DevicesAre DEF Ask, IsCall, Values
<1> HIDE DEF Good
<1>5. \A q \in Requests : Good(q)
  BY <1>1, <1>2, <1>3, <1>4 DEF Requests
<1> QED BY <1>5 DEF Good

LEMMA BootCallIs == \A s : IsCall(BootCall(s)) /\ BootCall(s).kind # "none"
BY DevicesAre DEF BootCall, Ask, IsCall, Values

LEMMA DeselectKeeps == ASSUME IicInv, Deselect PROVE IicInv'
<1>1. /\ todo # <<>> /\ todo[1].step = "deselect" /\ device = call.device /\ device \in Devices
      /\ todo[1].step \notin {"reg", "page", "sdo", "spi", "recv", "select"} \cup Busy
      /\ UNCHANGED <<regs, spiVars, version, fitted>>
  BY AtHead DEF IicInv, Deselect, Busy
<1>2. CASE deviceTable[device].controller = 0 \/ muxPort[Other] = MUXPORT_NONE
  <2>1. Continue(TRUE) /\ UNCHANGED muxVars
    BY <1>2 DEF Deselect
  <2>2. AfterTransfer
    BY <1>1, <2>1, AfterContinue DEF IicInv
  <2>3. Deselected(device)
    <3>1. ASSUME deviceTable[device].controller # 0 PROVE Other \in Muxes \ {0}
      <4>1. device \notin {"expander", "vccint", "ir35215"}
        BY <3>1 DEF deviceTable, Device
      <4> QED BY <1>1, <4>1, MuxesAre DEF Other, Muxes
    <3> QED BY <1>2, <3>1 DEF Deselected, Shared, Other, IicInv, MuxesAreKnown
  <2>4. enabled' = enabled /\ muxPort' = muxPort
    BY <2>1 DEF muxVars
  <2>5. Reached'
    BY <1>1, <2>2, <2>3, <2>4 DEF Reached, AfterTransfer, SameCall, Deselected, Busy
  <2>6. Told' /\ AnswerIsOwn' /\ CallIsUnderWay'
    BY <1>1, <2>2, AfterTold, AfterAnswer DEF IicInv
  <2>7. MuxesAreKnown' /\ RegistersAre'
    BY <1>1, <2>4 DEF IicInv, MuxesAreKnown, RegistersAre
  <2> QED BY <2>5, <2>6, <2>7 DEF IicInv
<1>3. CASE ~(deviceTable[device].controller = 0 \/ muxPort[Other] = MUXPORT_NONE)
  <2>1. PICK o \in Outcomes :
          /\ Continue(o = "done")
          /\ muxPort' = [muxPort EXCEPT ![Other] =
                           IF o = "done" THEN MUXPORT_NONE ELSE MUXPORT_UNKNOWN]
          /\ enabled' = IF Happens(o) THEN [enabled EXCEPT ![Other] = MUXPORT_NONE] ELSE enabled
    BY <1>3 DEF Deselect
  <2>2. AfterTransfer
    BY <1>1, <2>1, AfterContinue DEF IicInv
  <2>3. Other \in {1, 2} /\ Other = 3 - MuxOf(device)
    <3>1. device \notin {"expander", "vccint", "ir35215"}
      BY <1>3 DEF deviceTable, Device
    <3> QED BY <1>1, <3>1, MuxesAre DEF Other
  <2>4. MuxesAreKnown'
    <3> DEFINE w == Other
    <3>1. w \in {1, 2} /\ muxPort \in [Muxes -> Nat] /\ enabled \in [Muxes -> Nat]
      BY <2>3 DEF IicInv, MuxesAreKnown
    <3> HIDE DEF w
    <3>2. CASE o = "done"
      <4>1. /\ muxPort' = [muxPort EXCEPT ![w] = MUXPORT_NONE]
            /\ enabled' = [enabled EXCEPT ![w] = MUXPORT_NONE]
        BY <2>1, <3>2 DEF Happens, w
      <4> QED BY <3>1, <4>1 DEF IicInv, MuxesAreKnown, Muxes, MUXPORT_NONE, MUXPORT_UNKNOWN
    <3>3. CASE o # "done"
      <4>1. /\ muxPort' = [muxPort EXCEPT ![w] = MUXPORT_UNKNOWN]
            /\ enabled' \in {enabled, [enabled EXCEPT ![w] = MUXPORT_NONE]}
        BY <2>1, <3>3 DEF w
      <4> QED BY <3>1, <4>1 DEF IicInv, MuxesAreKnown, Muxes, MUXPORT_NONE, MUXPORT_UNKNOWN
    <3> QED BY <3>2, <3>3
  <2>5. ASSUME todo' # <<>> PROVE o = "done"
    BY <2>1, <2>5 DEF Continue
  <2>6. Reached'
    <3>1. ASSUME o = "done" PROVE enabled'[3 - MuxOf(call.device)] = MUXPORT_NONE
      <4>1. enabled' = [enabled EXCEPT ![Other] = MUXPORT_NONE] /\ Other \in DOMAIN enabled
        BY <2>1, <2>3, <3>1 DEF Happens, IicInv, MuxesAreKnown, Muxes
      <4> QED BY <1>1, <2>3, <4>1
    <3> QED BY <1>1, <2>2, <2>5, <3>1 DEF Reached, AfterTransfer, SameCall, Deselected, Busy
  <2>7. Told' /\ AnswerIsOwn' /\ CallIsUnderWay' /\ RegistersAre'
    BY <1>1, <2>2, AfterTold, AfterAnswer DEF IicInv, RegistersAre
  <2> QED BY <2>4, <2>6, <2>7 DEF IicInv
<1> QED BY <1>2, <1>3

LEMMA SelectKeeps == ASSUME IicInv, Select PROVE IicInv'
<1>1. /\ todo # <<>> /\ todo[1].step = "select" /\ device = call.device /\ device \in Devices
      /\ todo[1].step \notin {"reg", "page", "sdo", "spi", "recv", "deselect"} \cup Busy
      /\ UNCHANGED <<regs, spiVars, version, fitted>>
  BY AtHead DEF IicInv, Select, Busy
<1>2. MuxOf(device) \in Muxes /\ (Shared(device) => MuxOf(device) # 0 /\ 3 - MuxOf(device) # MuxOf(device))
      /\ port = deviceTable[device].port /\ port \in Nat /\ port # MUXPORT_UNKNOWN
  <2>1. deviceTable[device].port \in {126, 0, 2, 5, 6, 13}
    BY <1>1, DevicesAre DEF deviceTable, Device, MUXPORT_NONE
  <2>2. Shared(device) => device \in {"eeprom", "bridge", "rfmc", "sfp"}
    BY <1>1, DevicesAre DEF Shared, deviceTable, Device
  <2> QED BY <1>1, <2>1, <2>2, MuxesAre DEF Muxes, port, MUXPORT_UNKNOWN
<1>3. Deselected(device)
  BY <1>1 DEF IicInv, Reached
<1>4. CASE port \in {MUXPORT_NONE, muxPort[MuxOf(device)]}
  <2>1. Continue(TRUE) /\ UNCHANGED muxVars
    BY <1>4 DEF Select
  <2>2. AfterTransfer
    BY <1>1, <2>1, AfterContinue DEF IicInv
  <2>3. Selected(device)
    BY <1>2, <1>3, <1>4 DEF Selected, IicInv, MuxesAreKnown
  <2>4. enabled' = enabled /\ muxPort' = muxPort
    BY <2>1 DEF muxVars
  <2>5. Reached'
    BY <1>1, <2>2, <2>3, <2>4 DEF Reached, AfterTransfer, SameCall, Selected, Deselected, Busy
  <2>6. Told' /\ AnswerIsOwn' /\ CallIsUnderWay'
    BY <1>1, <2>2, AfterTold, AfterAnswer DEF IicInv
  <2>7. MuxesAreKnown' /\ RegistersAre'
    BY <1>1, <2>4 DEF IicInv, MuxesAreKnown, RegistersAre
  <2> QED BY <2>5, <2>6, <2>7 DEF IicInv
<1>5. CASE ~(port \in {MUXPORT_NONE, muxPort[MuxOf(device)]})
  <2>1. PICK o \in Outcomes :
          /\ Continue(o = "done")
          /\ muxPort' = [muxPort EXCEPT ![MuxOf(device)] =
                           IF o = "done" THEN port ELSE MUXPORT_UNKNOWN]
          /\ enabled' = IF Happens(o) THEN [enabled EXCEPT ![MuxOf(device)] = port] ELSE enabled
    BY <1>5 DEF Select
  <2>2. AfterTransfer
    BY <1>1, <2>1, AfterContinue DEF IicInv
  <2>3. MuxesAreKnown'
    <3> DEFINE w == MuxOf(device)
               p == port
    <3>1. w \in Muxes /\ muxPort \in [Muxes -> Nat] /\ enabled \in [Muxes -> Nat] /\ p \in Nat
          /\ p # MUXPORT_NONE
      BY <1>2, <1>5 DEF IicInv, MuxesAreKnown
    <3> HIDE DEF w, p
    <3>2. CASE o = "done"
      <4>1. muxPort' = [muxPort EXCEPT ![w] = p] /\ enabled' = [enabled EXCEPT ![w] = p]
        BY <2>1, <3>2 DEF Happens, w, p
      <4> QED BY <3>1, <4>1 DEF IicInv, MuxesAreKnown, Muxes, MUXPORT_NONE, MUXPORT_UNKNOWN
    <3>3. CASE o # "done"
      <4>1. /\ muxPort' = [muxPort EXCEPT ![w] = MUXPORT_UNKNOWN]
            /\ enabled' \in {enabled, [enabled EXCEPT ![w] = p]}
        BY <2>1, <3>3 DEF w, p
      <4> QED BY <3>1, <4>1 DEF IicInv, MuxesAreKnown, Muxes, MUXPORT_NONE, MUXPORT_UNKNOWN
    <3> QED BY <3>2, <3>3
  <2>4. ASSUME todo' # <<>> PROVE o = "done"
    BY <2>1, <2>4 DEF Continue
  <2>5. Reached'
    <3>1. ASSUME o = "done"
          PROVE  /\ enabled'[MuxOf(call.device)] = deviceTable[call.device].port
                 /\ Shared(call.device) => enabled'[3 - MuxOf(call.device)] = MUXPORT_NONE
      <4>1. enabled' = [enabled EXCEPT ![MuxOf(device)] = port] /\ MuxOf(device) \in DOMAIN enabled
        BY <1>2, <2>1, <3>1 DEF Happens, IicInv, MuxesAreKnown
      <4>2. enabled'[MuxOf(device)] = port
        BY <4>1
      <4>3. ASSUME Shared(device) PROVE enabled'[3 - MuxOf(device)] = MUXPORT_NONE
        BY <1>2, <1>3, <4>1, <4>3 DEF Deselected
      <4> QED BY <1>1, <1>2, <4>2, <4>3
    <3> QED BY <1>1, <2>2, <2>4, <3>1 DEF Reached, AfterTransfer, SameCall, Selected, Deselected, Busy
  <2>6. Told' /\ AnswerIsOwn' /\ CallIsUnderWay' /\ RegistersAre'
    BY <1>1, <2>2, AfterTold, AfterAnswer DEF IicInv, RegistersAre
  <2> QED BY <2>3, <2>5, <2>6 DEF IicInv
<1> QED BY <1>4, <1>5

\* The registers after something was said to the device of the call.
LEMMA HeardByOne ==
    ASSUME IicInv, todo # <<>>, todo[1].step \in Busy, device = call.device, device \in Devices
    PROVE  Answering(device) = {device}
BY SelectedIsAlone DEF IicInv, Reached

LEMMA SendKeeps ==
    ASSUME IicInv, Send
    PROVE  IicInv' /\ \A d \in Devices : regs'[d] # regs[d] => d = device
<1>1. /\ todo # <<>> /\ device = call.device /\ device \in Devices /\ Head(todo) = todo[1]
      /\ todo[1].step \in {"reg", "page"} /\ todo[1].step \in Busy /\ todo[1].step # "recv"
      /\ todo[1].value \in Values /\ UNCHANGED <<muxVars, spiVars, version, fitted>>
      /\ (At("reg") <=> todo[1].step = "reg")
  BY AtHead DEF IicInv, Send, Busy, At
<1> DEFINE said == todo[1].value
           d == call.device
           toReg == todo[1].step = "reg"
<1>2. PICK o \in Outcomes :
        /\ Continue(o = "done")
        /\ regs' = [x \in Devices |->
                      IF ~Happens(o) \/ x \notin {d} THEN regs[x]
                      ELSE IF toReg THEN [regs[x] EXCEPT !.reg = said]
                      ELSE [regs[x] EXCEPT !.page = said]]
  BY <1>1, HeardByOne DEF Send
<1>3. AfterTransfer
  BY <1>1, <1>2, AfterContinue DEF IicInv
<1>4. /\ regs \in [Devices -> [page : Values, reg : Values]] /\ regs["bridge"].page = 0
      /\ IsFor(todo, call) /\ 1 \in 1..Len(todo) /\ IsCall(call) /\ said \in Values /\ d \in Devices
  BY <1>1 DEF IicInv, RegistersAre, CallIsUnderWay, Rest
<1>5. todo[1].step = "page" => call.kind = "pmbus" /\ said = call.page
  BY <1>4 DEF IsFor
<1>6. toReg /\ call.kind \in {"read", "pmbus"} => said = call.reg
  BY <1>4 DEF IsFor
<1>7. call.kind = "pmbus" => d # "bridge"
  BY <1>4 DEF IsCall
<1> HIDE DEF said, d
<1>8. RegistersAre'
  <2>1. \A x \in Devices : regs'[x] \in [page : Values, reg : Values]
    BY <1>2, <1>4
  <2>2. regs'["bridge"].page = 0
    BY <1>1, <1>2, <1>4, <1>5, <1>7, DevicesAre
  <2> QED BY <1>2, <2>1, <2>2 DEF RegistersAre
<1>9. CallIsUnderWay' /\ AnswerIsOwn'
  BY <1>1, <1>3, AfterAnswer
<1>10. Reached' /\ MuxesAreKnown'
  BY <1>1, <1>3, AfterReached DEF IicInv, muxVars, MuxesAreKnown
<1>11. Told'
  <2> SUFFICES ASSUME todo' # <<>> PROVE Told'
    BY DEF Told
  <2>1. o = "done" /\ Happens(o)
    BY <1>2 DEF Continue, Happens
  <2>2. /\ call'.kind = call.kind /\ call'.device = d /\ call'.page = call.page
        /\ call'.reg = call.reg /\ call'.chip = call.chip
    BY <1>3 DEF AfterTransfer, SameCall, d
  <2>3. \A s : todo[1].step # s /\ ~Due(todo', s) => ~Due(todo, s)
    BY <1>3 DEF AfterTransfer
  <2>4. regs'[d] = IF toReg THEN [regs[d] EXCEPT !.reg = said] ELSE [regs[d] EXCEPT !.page = said]
    BY <1>2, <1>4, <2>1
  <2>5. ASSUME call.kind \in {"read", "pmbus"}, ~Due(todo', "reg") PROVE regs'[d].reg = call.reg
    <3>1. CASE toReg
      BY <1>4, <1>6, <2>4, <2>5, <3>1
    <3>2. CASE ~toReg
      BY <1>4, <2>3, <2>4, <2>5, <3>2 DEF IicInv, Told, d
    <3> QED BY <3>1, <3>2
  <2>6. ASSUME call.kind = "pmbus", ~Due(todo', "page") PROVE regs'[d].page = call.page
    <3>1. CASE toReg
      BY <1>1, <1>4, <2>3, <2>4, <2>6, <3>1 DEF IicInv, Told, d
    <3>2. CASE ~toReg
      BY <1>1, <1>4, <1>5, <2>4, <2>6, <3>2
    <3> QED BY <3>1, <3>2
  <2>7. sdo' = sdo /\ bridged' = bridged /\ version' = version /\ fitted' = fitted
    BY <1>1 DEF spiVars
  <2>8. (~Due(todo', "sdo") => ~Due(todo, "sdo")) /\ (~Due(todo', "spi") => ~Due(todo, "spi"))
    BY <1>1, <2>3
  <2> QED BY <1>1, <2>2, <2>5, <2>6, <2>7, <2>8 DEF Told, IicInv
<1>12. \A x \in Devices : regs'[x] # regs[x] => x = device
  BY <1>1, <1>2 DEF d
<1> QED BY <1>8, <1>9, <1>10, <1>11, <1>12 DEF IicInv

LEMMA PageWriteKeeps ==
    ASSUME IicInv, PageWrite
    PROVE  IicInv' /\ \A d \in Devices : regs'[d] # regs[d] => d = device
<1>1. /\ todo # <<>> /\ device = call.device /\ device \in Devices /\ Head(todo) = todo[1]
      /\ todo[1].step = "pageWrite" /\ todo[1].step \in Busy /\ todo[1].step # "recv"
      /\ todo[1].value \in Values /\ UNCHANGED <<muxVars, spiVars, version, fitted>>
  BY AtHead DEF IicInv, PageWrite, Busy
<1> DEFINE said == todo[1].value
           d == call.device
<1>2. PICK o \in Outcomes :
        /\ regs' = [x \in Devices |->
                      IF Happens(o) /\ x \in {d} THEN [regs[x] EXCEPT !.reg = said] ELSE regs[x]]
        /\ UNCHANGED <<todo, call>> \/ Continue(o = "done")
  BY <1>1, HeardByOne DEF PageWrite
<1>3. /\ regs \in [Devices -> [page : Values, reg : Values]] /\ regs["bridge"].page = 0
      /\ IsFor(todo, call) /\ 1 \in 1..Len(todo) /\ said \in Values /\ d \in Devices
      /\ CallIsUnderWay
  BY <1>1 DEF IicInv, RegistersAre, CallIsUnderWay, Rest
<1>4. call.kind = "store"
  BY <1>1, <1>3 DEF IsFor
<1> HIDE DEF said, d
<1>5. RegistersAre'
  <2>1. \A x \in Devices : regs'[x] \in [page : Values, reg : Values]
    BY <1>2, <1>3
  <2>2. regs'["bridge"].page = 0
    BY <1>2, <1>3, DevicesAre
  <2> QED BY <1>2, <2>1, <2>2 DEF RegistersAre
<1>6. CallIsUnderWay' /\ AnswerIsOwn' /\ Told' /\ Reached'
  <2>1. CASE UNCHANGED <<todo, call>>
    <3>1. todo' = todo /\ call' = call /\ enabled' = enabled
      BY <1>1, <2>1 DEF muxVars
    <3>2. CallIsUnderWay' /\ Reached'
      BY <3>1 DEF IicInv, CallIsUnderWay, Reached, Selected, Deselected
    <3>3. Told' /\ AnswerIsOwn'
      BY <1>4, <3>1 DEF Told, AnswerIsOwn
    <3> QED BY <3>2, <3>3
  <2>2. CASE Continue(o = "done")
    <3>1. AfterTransfer
      BY <1>1, <1>3, <2>2, AfterContinue
    <3>2. CallIsUnderWay' /\ AnswerIsOwn' /\ Reached'
      BY <1>1, <3>1, AfterAnswer, AfterReached DEF IicInv, muxVars
    <3>3. Told'
      BY <1>4, <3>1 DEF Told, AfterTransfer, SameCall
    <3> QED BY <3>2, <3>3
  <2> QED BY <1>2, <2>1, <2>2
<1>7. MuxesAreKnown'
  BY <1>1 DEF IicInv, muxVars, MuxesAreKnown
<1>8. \A x \in Devices : regs'[x] # regs[x] => x = device
  BY <1>1, <1>2 DEF d
<1> QED BY <1>5, <1>6, <1>7, <1>8 DEF IicInv

LEMMA SelectSDOKeeps == ASSUME IicInv, SelectSDO PROVE IicInv'
<1>1. /\ todo # <<>> /\ todo[1].step = "sdo" /\ Continue(TRUE) /\ sdo' = call.chip
      /\ UNCHANGED <<muxVars, regs, bridged, version, fitted>>
  BY AtHead DEF IicInv, SelectSDO
<1>2. AfterTransfer
  BY <1>1, AfterContinue DEF IicInv
<1>3. CallIsUnderWay' /\ AnswerIsOwn' /\ Reached'
  BY <1>1, <1>2, AfterAnswer, AfterReached DEF IicInv, muxVars
<1>4. Told'
  <2>1. call'.kind = call.kind /\ call'.device = call.device /\ call'.page = call.page
        /\ call'.reg = call.reg /\ call'.chip = call.chip
    BY <1>2 DEF AfterTransfer, SameCall
  <2>2. ASSUME todo' # <<>> PROVE \A s \in {"reg", "page", "spi"} : ~Due(todo', s) => ~Due(todo, s)
    BY <1>1, <1>2, <2>2 DEF AfterTransfer
  <2> QED BY <1>1, <2>1, <2>2 DEF Told, IicInv
<1>5. MuxesAreKnown' /\ RegistersAre'
  BY <1>1 DEF IicInv, muxVars, MuxesAreKnown, RegistersAre
<1> QED BY <1>3, <1>4, <1>5 DEF IicInv

\* A chip is routed before all else.
LEMMA RoutedFirst ==
    ASSUME NEW c, NEW t, Rest(t, c), t # <<>>, t[1].step # "sdo"
    PROVE  ~Due(t, "sdo")
<1> SUFFICES ASSUME NEW i \in 1..Len(t), t[i].step = "sdo" PROVE FALSE
  BY DEF Due
<1>1. t \in Seq(Items) /\ InOrder(t) /\ i # 1
  BY DEF Rest
<1>2. i - 1 \in 1..Len(t) /\ (i - 1) + 1 = i /\ (i - 1) + 1 <= Len(t)
  BY <1>1
<1>3. t[(i - 1) + 1].step # "sdo"
  BY <1>1, <1>2 DEF InOrder
<1> QED BY <1>2, <1>3

LEMMA SpiSendKeeps == ASSUME IicInv, SpiSend PROVE IicInv'
<1>1. /\ todo # <<>> /\ todo[1].step = "spi" /\ todo[1].step \in Busy
      /\ UNCHANGED <<muxVars, regs, sdo, version, fitted>>
  BY AtHead DEF IicInv, SpiSend, Busy
<1>2. PICK o \in Outcomes :
        /\ Continue(o = "done")
        /\ bridged' = IF ~Happens(o) THEN bridged
                      ELSE IF ChipSelect(call.chip, version) = ChipSelect(sdo, fitted) THEN sdo
                      ELSE "none"
  BY DEF SpiSend
<1>3. AfterTransfer
  BY <1>1, <1>2, AfterContinue DEF IicInv
<1>4. CallIsUnderWay' /\ AnswerIsOwn' /\ Reached'
  BY <1>1, <1>3, AfterAnswer, AfterReached DEF IicInv, muxVars
<1>5. Told'
  <2> SUFFICES ASSUME todo' # <<>> PROVE Told'
    BY DEF Told
  <2>1. call'.kind = call.kind /\ call'.device = call.device /\ call'.page = call.page
        /\ call'.reg = call.reg /\ call'.chip = call.chip
    BY <1>3 DEF AfterTransfer, SameCall
  <2>2. \A s \in {"reg", "page", "sdo"} : ~Due(todo', s) => ~Due(todo, s)
    BY <1>1, <1>3 DEF AfterTransfer
  <2>3. o = "done"
    BY <1>2 DEF Continue
  <2>4. ~Due(todo, "sdo")
    BY <1>1, RoutedFirst DEF IicInv, CallIsUnderWay
  <2>5. call.kind = "chip" /\ version = fitted => bridged' = call.chip
    <3> SUFFICES ASSUME call.kind = "chip", version = fitted PROVE bridged' = call.chip
      OBVIOUS
    <3>1. sdo = call.chip
      BY <1>1, <2>4 DEF IicInv, Told
    <3> QED BY <1>2, <2>3, <3>1 DEF Happens
  <2> QED BY <1>1, <2>1, <2>2, <2>5 DEF Told, IicInv
<1>6. MuxesAreKnown' /\ RegistersAre'
  BY <1>1 DEF IicInv, muxVars, MuxesAreKnown, RegistersAre
<1> QED BY <1>4, <1>5, <1>6 DEF IicInv

LEMMA RecvKeeps == ASSUME IicInv, Recv PROVE IicInv'
<1>1. /\ todo # <<>> /\ todo[1].step = "recv" /\ todo[1].step \in Busy
      /\ device = call.device /\ device \in Devices
      /\ todo' = <<>> /\ UNCHANGED <<muxVars, regs, spiVars, fitted>>
  BY AtHead DEF IicInv, Recv, Busy
<1>2. PICK o \in Outcomes \ {"late"} :
        /\ call' = [call EXCEPT !.result = IF o = "done" THEN "ok" ELSE "failed",
                                !.got = IF o = "done" THEN Received ELSE {}]
        /\ version' = IF call.kind = "version"
                      THEN (IF o = "done" THEN fitted ELSE "602B") ELSE version
  BY DEF Recv
<1>3. IsCall(call) /\ Rest(todo, call) /\ todo \in Seq(Items)
  BY DEF IicInv, CallIsUnderWay, Rest
<1> DEFINE r == IF o = "done" THEN "ok" ELSE "failed"
           g == IF o = "done" THEN Received ELSE {}
<1>4. /\ call' = [kind |-> call.kind, device |-> call.device, page |-> call.page, reg |-> call.reg,
                  chip |-> call.chip, result |-> r, got |-> g]
  <2>1. call = [kind |-> call.kind, device |-> call.device, page |-> call.page, reg |-> call.reg,
                chip |-> call.chip, result |-> call.result, got |-> call.got]
    BY <1>3 DEF IsCall
  <2>2. call' = [call EXCEPT !.result = r, !.got = g]
    BY <1>2
  <2> HIDE DEF r, g
  <2> QED BY <2>1, <2>2
<1>5. r = "ok" => o = "done" /\ g = Received
  OBVIOUS
<1> HIDE DEF r, g
<1>6. IsCall(call')
  BY <1>3, <1>4 DEF IsCall
<1>7. CallIsUnderWay' /\ Reached' /\ Told'
  BY <1>1, <1>6, EmptyRest DEF CallIsUnderWay, Reached, Told
<1>8. MuxesAreKnown' /\ RegistersAre'
  BY <1>1 DEF IicInv, muxVars, MuxesAreKnown, RegistersAre
<1>9. AnswerIsOwn'
  <2> SUFFICES ASSUME r = "ok", call.kind \in {"read", "pmbus", "chip"},
                      call.kind = "chip" => version = fitted
               PROVE  g = {[device |-> call.device, reg |-> call.reg, chip |-> call.chip,
                            page |-> IF call.kind = "pmbus" THEN call.page ELSE regs[call.device].page]}
    <3>1. call.kind # "version" => version' = version
      BY <1>2
    <3> QED BY <1>1, <1>4, <3>1 DEF AnswerIsOwn
  <2> DEFINE d == call.device
  <2>1. Answering(device) = {d} /\ d \in Devices
    BY <1>1, HeardByOne
  <2>2. g = { IF d = "bridge" THEN [device |-> d, page |-> 0, reg |-> 0, chip |-> bridged]
              ELSE [device |-> d, page |-> regs[d].page, reg |-> regs[d].reg, chip |-> "none"] }
    BY <1>5, <2>1 DEF Received
  <2>3. Len(todo) = 1
    <3> DEFINE m == Len(todo)
    <3>1. InOrder(todo) /\ m \in Nat \ {0} /\ 1 \in 1..m
      BY <1>1, <1>3 DEF Rest
    <3>2. ~(1 + 1 <= m)
      BY <1>1, <3>1 DEF InOrder
    <3> HIDE DEF m
    <3>3. m = 1
      BY <3>1, <3>2
    <3> QED BY <3>3 DEF m
  <2>4. ~Due(todo, "reg") /\ ~Due(todo, "page") /\ ~Due(todo, "spi")
    BY <1>1, <2>3 DEF Due
  <2>5. /\ call.kind \in {"read", "pmbus"} => regs[d].reg = call.reg
        /\ call.kind = "pmbus" => regs[d].page = call.page
        /\ call.kind = "chip" => bridged = call.chip
    BY <1>1, <2>4 DEF IicInv, Told
  <2>6. /\ call.kind \in {"read", "pmbus"} => d # "bridge" /\ call.chip = "none"
        /\ call.kind = "chip" => d = "bridge" /\ call.reg = 0
        /\ regs["bridge"].page = 0
    BY <1>3 DEF IsCall, IicInv, RegistersAre
  <2> HIDE DEF d
  <2>7. CASE call.kind = "chip"
    BY <2>2, <2>5, <2>6, <2>7 DEF d
  <2>8. CASE call.kind = "pmbus"
    BY <2>2, <2>5, <2>6, <2>8 DEF d
  <2>9. CASE call.kind = "read"
    BY <2>2, <2>5, <2>6, <2>9 DEF d
  <2> QED BY <2>7, <2>8, <2>9
<1> QED BY <1>7, <1>8, <1>9 DEF IicInv

LEMMA RestartKeeps == ASSUME IicInv, IicRestart PROVE IicInv'
<1>1. /\ muxPort' = AtStart.muxPort /\ todo' = <<>> /\ call' = NoCall
      /\ UNCHANGED <<enabled, regs>>
  BY DEF IicRestart
<1>2. MuxesAreKnown'
  BY <1>1 DEF IicInv, MuxesAreKnown, AtStart, Muxes, MUXPORT_NONE, MUXPORT_UNKNOWN
<1>3. CallIsUnderWay' /\ Reached' /\ Told' /\ AnswerIsOwn'
  BY <1>1, NoCallIs, EmptyRest DEF CallIsUnderWay, Reached, Told, AnswerIsOwn
<1>4. RegistersAre'
  BY <1>1 DEF IicInv, RegistersAre
<1> QED BY <1>2, <1>3, <1>4 DEF IicInv

\* Every step keeps the invariant, and only the device addressed hears it.
LEMMA IicStep ==
    ASSUME IicInv, [IicNext]_iicVars
    PROVE  IicInv' /\ [\A d \in Devices : regs'[d] # regs[d] => d = device]_iicVars
<1>1. CASE NextBootCall
  <2>1. regs' = regs /\ UNCHANGED <<muxVars, regs>> /\ Begin(BootCall(Head(boot)))
    BY <1>1 DEF NextBootCall
  <2> QED BY <2>1, BootCallIs, BeginKeeps
<1>2. CASE Call
  <2>1. PICK c \in Requests : Begin(c)
    BY <1>2 DEF Call
  <2>2. regs' = regs /\ UNCHANGED <<muxVars, regs>>
    BY <1>2 DEF Call
  <2> QED BY <2>1, <2>2, RequestsAre, BeginKeeps
<1>3. CASE Deselect
  BY <1>3, DeselectKeeps DEF Deselect
<1>4. CASE Select
  BY <1>4, SelectKeeps DEF Select
<1>5. CASE Send
  BY <1>5, SendKeeps
<1>6. CASE PageWrite
  BY <1>6, PageWriteKeeps
<1>7. CASE SelectSDO
  BY <1>7, SelectSDOKeeps DEF SelectSDO
<1>8. CASE SpiSend
  BY <1>8, SpiSendKeeps DEF SpiSend
<1>9. CASE Recv
  BY <1>9, RecvKeeps DEF Recv
<1>10. CASE IicRestart
  BY <1>10, RestartKeeps DEF IicRestart
<1>11. CASE UNCHANGED iicVars
  <2>1. UNCHANGED <<muxPort, enabled, regs, bridged, sdo, version, fitted, todo, call>>
    BY <1>11 DEF iicVars
  <2>2. MuxesAreKnown' /\ RegistersAre' /\ CallIsUnderWay'
    BY <2>1 DEF IicInv, MuxesAreKnown, RegistersAre, CallIsUnderWay
  <2>3. Reached' /\ Told' /\ AnswerIsOwn'
    BY <2>1 DEF IicInv, Reached, Selected, Deselected, Told, AnswerIsOwn
  <2> QED BY <1>11, <2>2, <2>3 DEF IicInv
<1> QED BY <1>1, <1>2, <1>3, <1>4, <1>5, <1>6, <1>7, <1>8, <1>9, <1>10, <1>11 DEF IicNext

\* What a call returns was said by the device it addressed and only by it, of
\* the page and register it asked for, for any registers, tries, failures and
\* restarts: a multiplexer is never taken to have a port it does not have.
\* (iicRead, pmbusRead, spiTransfer, setMux)
THEOREM AnswersComeFromTheDevice == IicSpec => []AnswerIsOwn
<1>1. IicInv => AnswerIsOwn
  BY DEF IicInv
<1>2. IicInv /\ [IicNext]_iicVars => IicInv'
  BY IicStep
<1> QED BY IicStart, <1>1, <1>2, PTL DEF IicSpec

\* Nothing but the device addressed hears a write, whatever failed before.
\* (setMux before iicSend)
THEOREM WritesAreHeardByOne == IicSpec => WritesReachTheirDevice
<1>1. IicInv /\ [IicNext]_iicVars => IicInv'
  BY IicStep
<1>2. IicInv /\ [IicNext]_iicVars => [\A d \in Devices : regs'[d] # regs[d] => d = device]_iicVars
  BY IicStep
<1> QED BY IicStart, <1>1, <1>2, PTL DEF IicSpec, WritesReachTheirDevice

-----------------------------------------------------------------------------
(* The synthesizers: what is read is a readback, and chips are left as     *)
(* they were configured.                                                   *)

AllChips == {Synthesizers[i] : i \in DOMAIN Synthesizers}
Configured == {"default", "stored", "command"}
Accesses ==
  [chip : AllChips, op : {"write", "v0", "status", "row"},
   from : Configured \cup {"none", "v0", "v0Init", ResetValue}, pin : {"none", "readback", "lock"}]

\* In a list of accesses a chip's register is read after its pin was put in
\* readback; what is written back of its configuration was read from it.
Chained(s) ==
  \A i \in 1..Len(s) :
    /\ s[i].op = "write" <=> s[i].from # "none"
    /\ s[i].op # "write" <=> s[i].pin = "none"
    /\ i + 1 <= Len(s) =>
         /\ s[i + 1].op # "write" =>
              s[i].chip = s[i + 1].chip /\ (s[i].op = "write" => s[i].pin = "readback")
         /\ s[i + 1].from = "v0" => s[i].chip = s[i + 1].chip /\ s[i].op \in {"v0", "status"}
         /\ i + 2 <= Len(s) =>
              (s[i + 1].op = "status" /\ s[i + 2].from = "v0" =>
                 s[i].from = "v0" /\ s[i].chip = s[i + 1].chip)
Chain(s) == s \in Seq(Accesses) /\ Chained(s)

\* A request begins by writing register 0 with what is known.
Starts(s) == s # <<>> => s[1].op = "write" /\ s[1].from # "v0"

\* Every chip whose pin is put in readback is accessed until it shows its lock.
Closed(s) ==
  \A i \in 1..Len(s) : s[i].pin # "lock" => i + 1 <= Len(s) /\ s[i + 1].chip = s[i].chip

\* The accesses of one chip for one purpose.
Block(s, c) ==
  /\ Chain(s) /\ Starts(s) /\ Closed(s) /\ Len(s) > 0
  /\ \A i \in 1..Len(s) : s[i].chip = c
Mentions(s, c) == \E i \in 1..Len(s) : s[i].chip = c

LEMMA AccessesJoined ==
  ASSUME NEW a \in Seq(Accesses), NEW b \in Seq(Accesses)
  PROVE  /\ a \o b \in Seq(Accesses) /\ Len(a \o b) = Len(a) + Len(b)
         /\ \A i \in 1..(Len(a) + Len(b)) : (a \o b)[i] = IF i <= Len(a) THEN a[i] ELSE b[i - Len(a)]
BY ConcatProperties

LEMMA WriteIsAccess ==
  ASSUME NEW c \in AllChips, NEW f \in Configured \cup {"v0", "v0Init", ResetValue},
         NEW p \in {"readback", "lock"}
  PROVE  Write0(c, f, p) \in Accesses /\ Write0(c, f, p).chip = c /\ Write0(c, f, p).op = "write"
         /\ Write0(c, f, p).from = f /\ Write0(c, f, p).pin = p
BY DEF Write0, Accesses

LEMMA ReadIsAccess ==
  ASSUME NEW c \in AllChips, NEW r \in {"v0", "status", "row"}
  PROVE  ReadReg(c, r) \in Accesses /\ ReadReg(c, r).chip = c /\ ReadReg(c, r).op = r
         /\ ReadReg(c, r).from = "none" /\ ReadReg(c, r).pin = "none"
BY DEF ReadReg, Accesses

LEMMA StatusIsBlock ==
  ASSUME NEW c \in AllChips
  PROVE  Block(StatusOf(c), c)
<1> DEFINE w == Write0(c, "v0Init", "readback")
           r == ReadReg(c, "status")
           z == Write0(c, "v0Init", "lock")
           s == <<w, r, z>>
<1>1. /\ w \in Accesses /\ w.chip = c /\ w.op = "write" /\ w.from = "v0Init" /\ w.pin = "readback"
      /\ r \in Accesses /\ r.chip = c /\ r.op = "status" /\ r.from = "none" /\ r.pin = "none"
      /\ z \in Accesses /\ z.chip = c /\ z.op = "write" /\ z.from = "v0Init" /\ z.pin = "lock"
  BY WriteIsAccess, ReadIsAccess
<1>2. StatusOf(c) = s
  BY DEF StatusOf
<1> HIDE DEF w, r, z
<1>3. s \in Seq(Accesses) /\ Len(s) = 3 /\ s[1] = w /\ s[2] = r /\ s[3] = z
  BY <1>1
<1> HIDE DEF s
<1>4. Chained(s)
  BY <1>1, <1>3 DEF Chained
<1>5. Starts(s) /\ Closed(s) /\ \A i \in 1..Len(s) : s[i].chip = c
  BY <1>1, <1>3 DEF Starts, Closed
<1> QED BY <1>2, <1>3, <1>4, <1>5 DEF Block, Chain

\* The end of a configuration, that of start2594.
LEMMA StartIs ==
  ASSUME NEW c \in AllChips
  PROVE  LET t == <<ReadReg(c, "v0"), Write0(c, "v0", "readback"), ReadReg(c, "status"), Write0(c, "v0", "lock")>> IN
         /\ t \in Seq(Accesses) /\ Len(t) = 4 /\ \A i \in 1..4 : t[i].chip = c
         /\ t[1].op = "v0" /\ t[1].from = "none" /\ t[1].pin = "none"
         /\ t[2].op = "write" /\ t[2].from = "v0" /\ t[2].pin = "readback"
         /\ t[3].op = "status" /\ t[3].from = "none" /\ t[3].pin = "none"
         /\ t[4].op = "write" /\ t[4].from = "v0" /\ t[4].pin = "lock"
<1> DEFINE p == ReadReg(c, "v0")
           q == Write0(c, "v0", "readback")
           r == ReadReg(c, "status")
           z == Write0(c, "v0", "lock")
           t == <<p, q, r, z>>
<1>1. /\ p \in Accesses /\ p.chip = c /\ p.op = "v0" /\ p.from = "none" /\ p.pin = "none"
      /\ q \in Accesses /\ q.chip = c /\ q.op = "write" /\ q.from = "v0" /\ q.pin = "readback"
      /\ r \in Accesses /\ r.chip = c /\ r.op = "status" /\ r.from = "none" /\ r.pin = "none"
      /\ z \in Accesses /\ z.chip = c /\ z.op = "write" /\ z.from = "v0" /\ z.pin = "lock"
  BY WriteIsAccess, ReadIsAccess
<1> HIDE DEF p, q, r, z
<1>2. t \in Seq(Accesses) /\ Len(t) = 4 /\ t[1] = p /\ t[2] = q /\ t[3] = r /\ t[4] = z
  BY <1>1
<1> HIDE DEF t
<1>3. /\ t \in Seq(Accesses) /\ Len(t) = 4 /\ \A i \in 1..4 : t[i].chip = c
      /\ t[1].op = "v0" /\ t[1].from = "none" /\ t[1].pin = "none"
      /\ t[2].op = "write" /\ t[2].from = "v0" /\ t[2].pin = "readback"
      /\ t[3].op = "status" /\ t[3].from = "none" /\ t[3].pin = "none"
      /\ t[4].op = "write" /\ t[4].from = "v0" /\ t[4].pin = "lock"
  BY <1>1, <1>2
<1> QED BY <1>3 DEF t, p, q, r, z

LEMMA ConfigIsBlock ==
  ASSUME NEW c \in AllChips, NEW v \in Configured, NEW h \in BOOLEAN
  PROVE  Block(Config(c, v, h), c)
<1> DEFINE a == <<Write0(c, ResetValue, "readback")>>
           b == IF h THEN <<Write0(c, v, "readback")>> ELSE <<>>
           t == <<ReadReg(c, "v0"), Write0(c, "v0", "readback"), ReadReg(c, "status"), Write0(c, "v0", "lock")>>
           ab == a \o b
           s == ab \o t
<1>1. /\ a \in Seq(Accesses) /\ Len(a) = 1 /\ a[1].chip = c /\ a[1].op = "write"
      /\ a[1].from = ResetValue /\ a[1].pin = "readback"
  BY WriteIsAccess
<1>2. /\ b \in Seq(Accesses) /\ Len(b) = IF h THEN 1 ELSE 0
      /\ h => b[1].chip = c /\ b[1].op = "write" /\ b[1].from = v /\ b[1].pin = "readback"
  BY WriteIsAccess
<1>3. /\ t \in Seq(Accesses) /\ Len(t) = 4 /\ \A i \in 1..4 : t[i].chip = c
      /\ t[1].op = "v0" /\ t[1].from = "none" /\ t[1].pin = "none"
      /\ t[2].op = "write" /\ t[2].from = "v0" /\ t[2].pin = "readback"
      /\ t[3].op = "status" /\ t[3].from = "none" /\ t[3].pin = "none"
      /\ t[4].op = "write" /\ t[4].from = "v0" /\ t[4].pin = "lock"
  BY StartIs
<1>4. Config(c, v, h) = s
  BY DEF Config
<1> HIDE DEF a, b, t
<1>5. /\ ab \in Seq(Accesses) /\ Len(ab) = Len(a) + Len(b)
      /\ \A i \in 1..(Len(a) + Len(b)) : ab[i] = IF i <= Len(a) THEN a[i] ELSE b[i - Len(a)]
  BY <1>1, <1>2, AccessesJoined
<1> HIDE DEF ab
<1>6. /\ s \in Seq(Accesses) /\ Len(s) = Len(ab) + Len(t)
      /\ \A i \in 1..(Len(ab) + Len(t)) : s[i] = IF i <= Len(ab) THEN ab[i] ELSE t[i - Len(ab)]
  BY <1>3, <1>5, AccessesJoined
<1> HIDE DEF s
<1>7. v # "none" /\ v # "v0" /\ ResetValue # "v0" /\ ResetValue # "none"
  BY DEF Configured, ResetValue
<1>8. CASE h
  <2>1. Len(ab) = 2 /\ ab[1] = a[1] /\ ab[2] = b[1]
    BY <1>1, <1>2, <1>5, <1>8
  <2>2. /\ Len(s) = 6 /\ s[1] = a[1] /\ s[2] = b[1] /\ s[3] = t[1] /\ s[4] = t[2]
        /\ s[5] = t[3] /\ s[6] = t[4]
    BY <1>3, <1>6, <2>1
  <2>3. Chained(s)
    BY <1>1, <1>2, <1>3, <1>7, <1>8, <2>2 DEF Chained
  <2>4. Starts(s) /\ Closed(s) /\ \A i \in 1..Len(s) : s[i].chip = c
    BY <1>1, <1>2, <1>3, <1>7, <1>8, <2>2 DEF Starts, Closed
  <2> QED BY <1>4, <1>6, <2>2, <2>3, <2>4 DEF Block, Chain
<1>9. CASE ~h
  <2>1. Len(ab) = 1 /\ ab[1] = a[1]
    BY <1>1, <1>2, <1>5, <1>9
  <2>2. Len(s) = 5 /\ s[1] = a[1] /\ s[2] = t[1] /\ s[3] = t[2] /\ s[4] = t[3] /\ s[5] = t[4]
    BY <1>3, <1>6, <2>1
  <2>3. Chained(s)
    BY <1>1, <1>3, <1>7, <2>2 DEF Chained
  <2>4. Starts(s) /\ Closed(s) /\ \A i \in 1..Len(s) : s[i].chip = c
    BY <1>1, <1>3, <1>7, <2>2 DEF Starts, Closed
  <2> QED BY <1>4, <1>6, <2>2, <2>3, <2>4 DEF Block, Chain
<1> QED BY <1>8, <1>9


LEMMA ReadbackIs ==
  ASSUME NEW c \in AllChips
  PROVE  /\ Chain(Readback(c)) /\ Starts(Readback(c)) /\ Len(Readback(c)) > 0
         /\ tableGood[c] = "yes" => Block(Readback(c), c)
<1> DEFINE w == Write0(c, "v0Init", "readback")
           r == ReadReg(c, "row")
           z == Write0(c, "v0Init", "lock")
           a == <<w>>
           b == IF tableGood[c] = "yes" THEN <<r, r, z>> ELSE <<>>
           s == a \o b
<1>1. /\ w \in Accesses /\ w.chip = c /\ w.op = "write" /\ w.from = "v0Init" /\ w.pin = "readback"
      /\ r \in Accesses /\ r.chip = c /\ r.op = "row" /\ r.from = "none" /\ r.pin = "none"
      /\ z \in Accesses /\ z.chip = c /\ z.op = "write" /\ z.from = "v0Init" /\ z.pin = "lock"
  BY WriteIsAccess, ReadIsAccess
<1>2. Readback(c) = s
  BY DEF Readback
<1> HIDE DEF w, r, z
<1>3. a \in Seq(Accesses) /\ Len(a) = 1 /\ a[1] = w
  BY <1>1
<1>4. CASE tableGood[c] = "yes"
  <2>1. b \in Seq(Accesses) /\ Len(b) = 3 /\ b[1] = r /\ b[2] = r /\ b[3] = z
    BY <1>1, <1>4
  <2> HIDE DEF a, b
  <2>2. /\ s \in Seq(Accesses) /\ Len(s) = Len(a) + Len(b)
        /\ \A i \in 1..(Len(a) + Len(b)) : s[i] = IF i <= Len(a) THEN a[i] ELSE b[i - Len(a)]
    BY <1>3, <2>1, AccessesJoined
  <2>3. Len(s) = 4 /\ s[1] = w /\ s[2] = r /\ s[3] = r /\ s[4] = z
    BY <1>3, <2>1, <2>2
  <2> HIDE DEF s
  <2>4. Chained(s)
    BY <1>1, <2>3 DEF Chained
  <2>5. Starts(s) /\ Closed(s) /\ \A i \in 1..Len(s) : s[i].chip = c
    BY <1>1, <2>3 DEF Starts, Closed
  <2> QED BY <1>2, <2>2, <2>3, <2>4, <2>5 DEF Block, Chain
<1>5. CASE tableGood[c] # "yes"
  <2>1. b = <<>> /\ b \in Seq(Accesses)
    BY <1>5
  <2> HIDE DEF a, b
  <2>2. s = a
    BY <1>3, <2>1, ConcatEmptySeq
  <2>0. Len(s) = 1 /\ s[1] = w
    BY <1>3, <2>2
  <2> HIDE DEF s
  <2>3. Chained(s)
    BY <1>1, <2>0 DEF Chained
  <2>4. Starts(s)
    BY <1>1, <2>0 DEF Starts
  <2> QED BY <1>2, <1>3, <1>5, <2>2, <2>3, <2>4 DEF Chain
<1> QED BY <1>4, <1>5

\* A list for all chips is as good as those for each.
LEMMA TwoBlocks ==
  ASSUME NEW c, NEW d, NEW a, NEW b, Block(a, c), Block(b, d)
  PROVE  LET s == a \o b IN
         Chain(s) /\ Starts(s) /\ Closed(s) /\ Len(s) > 0 /\ Mentions(s, c) /\ Mentions(s, d)
<1> DEFINE s == a \o b
           m == Len(a)
           n == Len(b)
<1>1. /\ a \in Seq(Accesses) /\ Chained(a) /\ Starts(a) /\ Closed(a) /\ m > 0 /\ \A i \in 1..m : a[i].chip = c
      /\ b \in Seq(Accesses) /\ Chained(b) /\ Starts(b) /\ Closed(b) /\ n > 0 /\ \A i \in 1..n : b[i].chip = d
      /\ m \in Nat /\ n \in Nat
  BY DEF Block, Chain
<1>2. /\ s \in Seq(Accesses) /\ Len(s) = m + n
      /\ \A i \in 1..(m + n) : s[i] = IF i <= m THEN a[i] ELSE b[i - m]
  BY <1>1, AccessesJoined
<1>3. b[1].op = "write" /\ b[1].from # "v0"
  BY <1>1 DEF Starts
<1> HIDE DEF s, m, n
<1>4. /\ \A i \in 1..m : s[i] = a[i]
      /\ \A i \in 1..n : s[m + i] = b[i]
      /\ s[m + 1] = b[1]
  <2>1. \A i \in 1..m : s[i] = a[i]
    BY <1>1, <1>2
  <2>2. ASSUME NEW i \in 1..n PROVE s[m + i] = b[i]
    <3>1. m + i \in 1..(m + n) /\ ~(m + i <= m) /\ (m + i) - m = i
      BY <1>1
    <3> QED BY <1>2, <3>1
  <2> QED BY <1>1, <2>1, <2>2
<1>5. Chained(s)
  <2> SUFFICES ASSUME NEW i \in 1..(m + n)
               PROVE  /\ s[i].op = "write" <=> s[i].from # "none"
                      /\ s[i].op # "write" <=> s[i].pin = "none"
                      /\ i + 1 <= m + n =>
                           /\ s[i + 1].op # "write" =>
                                s[i].chip = s[i + 1].chip /\ (s[i].op = "write" => s[i].pin = "readback")
                           /\ s[i + 1].from = "v0" => s[i].chip = s[i + 1].chip /\ s[i].op \in {"v0", "status"}
                           /\ i + 2 <= m + n =>
                                (s[i + 1].op = "status" /\ s[i + 2].from = "v0" =>
                                   s[i].from = "v0" /\ s[i].chip = s[i + 1].chip)
    BY <1>2 DEF Chained
  <2>1. CASE i + 2 <= m
    <3>1. i \in 1..m /\ i + 1 \in 1..m /\ i + 2 \in 1..m
      BY <1>1, <2>1
    <3>2. s[i] = a[i] /\ s[i + 1] = a[i + 1] /\ s[i + 2] = a[i + 2]
      BY <1>4, <3>1
    <3> QED BY <1>1, <2>1, <3>1, <3>2 DEF Chained, m
  <2>2. CASE i + 1 = m
    <3>1. i \in 1..m /\ i + 1 \in 1..m /\ i + 1 <= m /\ i + 2 = m + 1
      BY <1>1, <2>2
    <3>2. s[i] = a[i] /\ s[i + 1] = a[i + 1] /\ s[i + 2] = b[1]
      BY <1>4, <3>1
    <3> QED BY <1>1, <1>3, <2>2, <3>1, <3>2 DEF Chained, m
  <2>3. CASE i = m
    <3>1. i \in 1..m /\ s[i] = a[i] /\ s[i + 1] = b[1]
      BY <1>1, <1>4, <2>3
    <3>2. /\ s[i].op = "write" <=> s[i].from # "none"
          /\ s[i].op # "write" <=> s[i].pin = "none"
      BY <1>1, <3>1 DEF Chained, m
    <3>3. s[i + 1].op = "write" /\ s[i + 1].from # "v0"
      BY <1>3, <3>1
    <3> QED BY <3>2, <3>3
  <2>4. CASE i > m
    <3> DEFINE j == i - m
    <3>1. j \in 1..n /\ i = m + j /\ i + 1 = m + (j + 1) /\ i + 2 = m + (j + 2)
          /\ (i + 1 <= m + n <=> j + 1 <= n) /\ (i + 2 <= m + n <=> j + 2 <= n)
          /\ (j + 1 <= n => j + 1 \in 1..n) /\ (j + 2 <= n => j + 2 \in 1..n)
      BY <1>1, <2>4
    <3> HIDE DEF j
    <3>2. s[i] = b[j] /\ (j + 1 <= n => s[i + 1] = b[j + 1]) /\ (j + 2 <= n => s[i + 2] = b[j + 2])
      BY <1>4, <3>1
    <3>3. /\ b[j].op = "write" <=> b[j].from # "none"
          /\ b[j].op # "write" <=> b[j].pin = "none"
          /\ j + 1 <= n =>
               /\ b[j + 1].op # "write" =>
                    b[j].chip = b[j + 1].chip /\ (b[j].op = "write" => b[j].pin = "readback")
               /\ b[j + 1].from = "v0" => b[j].chip = b[j + 1].chip /\ b[j].op \in {"v0", "status"}
               /\ j + 2 <= n =>
                    (b[j + 1].op = "status" /\ b[j + 2].from = "v0" =>
                       b[j].from = "v0" /\ b[j].chip = b[j + 1].chip)
      BY <1>1, <3>1 DEF Chained, n
    <3> QED BY <3>1, <3>2, <3>3
  <2> QED BY <1>1, <2>1, <2>2, <2>3, <2>4
<1>6. Closed(s)
  <2> SUFFICES ASSUME NEW i \in 1..(m + n), s[i].pin # "lock"
               PROVE  i + 1 <= m + n /\ s[i + 1].chip = s[i].chip
    BY <1>2 DEF Closed
  <2>1. CASE i <= m
    <3>1. i \in 1..m /\ s[i] = a[i]
      BY <1>1, <1>4, <2>1
    <3>2. i + 1 <= m /\ a[i + 1].chip = a[i].chip
      BY <1>1, <3>1 DEF Closed, m
    <3> QED BY <1>1, <1>4, <3>1, <3>2
  <2>2. CASE i > m
    <3> DEFINE j == i - m
    <3>1. j \in 1..n /\ i = m + j /\ i + 1 = m + (j + 1)
          /\ (i + 1 <= m + n <=> j + 1 <= n) /\ (j + 1 <= n => j + 1 \in 1..n)
      BY <1>1, <2>2
    <3> HIDE DEF j
    <3>2. s[i] = b[j] /\ (j + 1 <= n => s[i + 1] = b[j + 1])
      BY <1>4, <3>1
    <3>3. j + 1 <= n /\ b[j + 1].chip = b[j].chip
      BY <1>1, <3>1, <3>2 DEF Closed, n
    <3> QED BY <3>1, <3>2, <3>3
  <2> QED BY <1>1, <2>1, <2>2
<1>7. Starts(s)
  <2>1. s[1] = a[1] /\ a[1].op = "write" /\ a[1].from # "v0"
    BY <1>1, <1>4 DEF Starts, m
  <2> QED BY <2>1 DEF Starts
<1>8. Mentions(s, c) /\ Mentions(s, d)
  <2>1. 1 \in 1..Len(s) /\ s[1].chip = c
    BY <1>1, <1>2, <1>4
  <2>2. m + 1 \in 1..Len(s) /\ s[m + 1].chip = d
    BY <1>1, <1>2, <1>4
  <2> QED BY <2>1, <2>2 DEF Mentions
<1>9. Len(s) > 0
  BY <1>1, <1>2
<1> QED BY <1>2, <1>5, <1>6, <1>7, <1>8, <1>9 DEF Chain, s

\* The requests for all chips, given that for each.
LEMMA ForAllChips ==
  ASSUME NEW a, NEW b, NEW s, Block(a, Synthesizers[1]),
         Len(Synthesizers) = 2 => Block(b, Synthesizers[2]),
         s = IF Len(Synthesizers) = 1 THEN a ELSE a \o b
  PROVE  Chain(s) /\ Starts(s) /\ Closed(s) /\ Len(s) > 0 /\ \A c \in AllChips : Mentions(s, c)
<1>1. CASE Len(Synthesizers) = 1
  <2>1. AllChips = {Synthesizers[1]}
    BY <1>1, SynthesizersAssumption DEF AllChips
  <2>2. Len(a) \in Nat /\ Len(a) > 0 /\ a[1].chip = Synthesizers[1]
    BY DEF Block, Chain
  <2>3. Mentions(a, Synthesizers[1])
    BY <2>2 DEF Mentions
  <2> QED BY <1>1, <2>1, <2>3 DEF Block
<1>2. CASE Len(Synthesizers) = 2
  <2>1. AllChips = {Synthesizers[1], Synthesizers[2]}
    BY <1>2, SynthesizersAssumption DEF AllChips
  <2>2. s = a \o b /\ Block(b, Synthesizers[2])
    BY <1>2
  <2>3. Chain(s) /\ Starts(s) /\ Closed(s) /\ Len(s) > 0
        /\ Mentions(s, Synthesizers[1]) /\ Mentions(s, Synthesizers[2])
    BY <2>2, TwoBlocks
  <2> QED BY <2>1, <2>3
<1> QED BY <1>1, <1>2, SynthesizersAssumption


-----------------------------------------------------------------------------
\* What main still has to do, and what the requests returned.
BringUps ==
  {BringUp, <<"mmcmInit", "rfClkInit", "mmcmCheckLock">>, <<"rfClkInit", "mmcmCheckLock">>,
   <<"mmcmCheckLock">>, <<>>}
Holds == Configured \cup {"zero", ResetValue}
ClockTypes ==
  /\ r0 \in [AllChips -> [cfg : Holds, pin : {"readback", "lock"}]]
  /\ v0Init \in [AllChips -> Holds] /\ v0 \in Holds
  /\ bringUp \in BringUps /\ clkFaults \in Nat
  /\ answer \in {"good", "failed"} /\ (answer = "failed" => clkFaults > 0)
  /\ Chain(accesses)

\* The pin of a chip that is read is a readback.
PinIsReadback ==
  accesses # <<>> /\ accesses[1].op # "write" /\ answer = "good" =>
    r0[accesses[1].chip].pin = "readback"

\* Register 0 holds what is remembered, or its reset value; and so does what
\* will be written back to it.
HoldsItsOwn ==
  clkFaults = 0 =>
    /\ \A c \in AllChips : r0[c].cfg \in {v0Init[c], ResetValue}
    /\ accesses # <<>> /\ accesses[1].from = "v0" => v0 \in {v0Init[accesses[1].chip], ResetValue}
    /\ Len(accesses) > 1 /\ accesses[1].op = "status" /\ accesses[2].from = "v0" =>
         v0 \in {v0Init[accesses[1].chip], ResetValue}

\* A chip either shows its lock or is accessed until it does.
AllGood == \A c \in AllChips : tableGood[c] = "yes"
WillShowLock ==
  clkFaults = 0 /\ AllGood /\ bringUp # BringUp =>
    /\ Closed(accesses)
    /\ \A c \in AllChips : Mentions(accesses, c) \/ r0[c].pin = "lock"

ClockInv == ClockTypes /\ PinIsReadback /\ HoldsItsOwn /\ WillShowLock

LEMMA NothingToDo == Chain(<<>>) /\ Closed(<<>>) /\ \A c : ~Mentions(<<>>, c)
BY DEF Chain, Chained, Closed, Mentions

LEMMA ClocksStart == ClocksInit => ClockInv
<1> SUFFICES ASSUME ClocksInit PROVE ClockInv
  OBVIOUS
<1>1. /\ r0 = [c \in AllChips |-> Reg0(ResetValue, "readback")] /\ v0Init = [c \in AllChips |-> "zero"]
      /\ accesses = <<>> /\ answer = "good" /\ bringUp = BringUp /\ clkFaults = 0 /\ v0 = "zero"
  BY DEF ClocksInit, AllChips
<1>2. ClockTypes
  BY <1>1, NothingToDo DEF ClockTypes, Reg0, Holds, BringUps
<1>3. PinIsReadback /\ WillShowLock
  BY <1>1 DEF PinIsReadback, WillShowLock
<1>4. HoldsItsOwn
  BY <1>1 DEF HoldsItsOwn, Reg0
<1> QED BY <1>2, <1>3, <1>4 DEF ClockInv

\* main's steps, one after the other.
LEMMA StageIs ==
  ASSUME ClockInv, NEW s, Stage(s)
  PROVE  /\ accesses = <<>> /\ bringUp' \in BringUps /\ bringUp' # BringUp
         /\ bringUp = BringUp <=> s = "rfClkPreInit"
<1>1. accesses = <<>> /\ bringUp # <<>> /\ Head(bringUp) = s /\ bringUp' = Tail(bringUp) /\ bringUp \in BringUps
  BY DEF Stage, Ready, ClockInv, ClockTypes
<1>2. CASE bringUp = BringUp
  BY <1>1, <1>2 DEF BringUp, BringUps
<1>3. CASE bringUp = <<"mmcmInit", "rfClkInit", "mmcmCheckLock">>
  BY <1>1, <1>3 DEF BringUp, BringUps
<1>4. CASE bringUp = <<"rfClkInit", "mmcmCheckLock">>
  BY <1>1, <1>4 DEF BringUp, BringUps
<1>5. CASE bringUp = <<"mmcmCheckLock">>
  BY <1>1, <1>5 DEF BringUp, BringUps
<1> QED BY <1>1, <1>2, <1>3, <1>4, <1>5 DEF BringUps

\* A list of accesses that is begun after the one before.
LEMMA BeginsList ==
  ASSUME ClockInv, accesses = <<>>, UNCHANGED <<chips, clkFaults>>,
         Chain(accesses'), Starts(accesses'),
         AllGood' => AllGood,
         bringUp' \in BringUps, bringUp' # BringUp,
         answer' \in {answer, "good"},
         AllGood' => /\ Closed(accesses')
                     /\ (bringUp = BringUp => \A c \in AllChips : Mentions(accesses', c))
  PROVE  ClockInv'
<1>1. r0' = r0 /\ v0Init' = v0Init /\ v0' = v0 /\ clkFaults' = clkFaults
  BY DEF chips
<1>2. ClockTypes'
  BY <1>1 DEF ClockInv, ClockTypes
<1>3. PinIsReadback'
  BY DEF PinIsReadback, Starts
<1>4. accesses' # <<>> => accesses'[1].op = "write" /\ accesses'[1].from # "v0"
  BY DEF Starts
<1>5. HoldsItsOwn'
  <2>1. accesses' = <<>> => Len(accesses') = 0
    OBVIOUS
  <2> QED BY <1>1, <1>4, <2>1 DEF ClockInv, HoldsItsOwn
<1>6. WillShowLock'
  <2> SUFFICES ASSUME clkFaults = 0, AllGood'
               PROVE  \A c \in AllChips : Mentions(accesses', c) \/ r0[c].pin = "lock"
    BY <1>1 DEF WillShowLock
  <2>1. CASE bringUp = BringUp
    BY <2>1
  <2>2. CASE bringUp # BringUp
    BY <2>2, NothingToDo DEF ClockInv, WillShowLock
  <2> QED BY <2>1, <2>2
<1> QED BY <1>2, <1>3, <1>5, <1>6 DEF ClockInv

LEMMA ChipsAre ==
  Synthesizers[1] \in AllChips /\ (Len(Synthesizers) = 2 => Synthesizers[2] \in AllChips)
<1>1. 1 \in DOMAIN Synthesizers /\ (Len(Synthesizers) = 2 => 2 \in DOMAIN Synthesizers)
  BY SynthesizersAssumption
<1> QED BY <1>1 DEF AllChips

LEMMA PreInitKeeps == ASSUME ClockInv, PreInit PROVE ClockInv'
<1> DEFINE a == Config(Synthesizers[1], "default", TRUE)
           b == Config(Synthesizers[2], "default", TRUE)
<1>1. accesses' = IF Len(Synthesizers) = 1 THEN a ELSE a \o b
  BY DEF PreInit, All
<1>2. Block(a, Synthesizers[1]) /\ (Len(Synthesizers) = 2 => Block(b, Synthesizers[2]))
  BY ChipsAre, ConfigIsBlock DEF Configured
<1> HIDE DEF a, b
<1>3. /\ Chain(accesses') /\ Starts(accesses') /\ Closed(accesses')
      /\ \A c \in AllChips : Mentions(accesses', c)
  BY <1>1, <1>2, ForAllChips
<1>4. accesses = <<>> /\ bringUp' \in BringUps /\ bringUp' # BringUp
  BY StageIs DEF PreInit
<1>5. UNCHANGED <<chips, clkFaults, tableGood, answer>>
  BY DEF PreInit
<1> QED BY <1>3, <1>4, <1>5, BeginsList DEF AllGood

LEMMA RfClkInitKeeps == ASSUME ClockInv, RfClkInit PROVE ClockInv'
<1>0. PICK stored \in {"stored", "default"} :
        accesses' = All(Synthesizers, LAMBDA c : Config(c, stored, TRUE))
  BY DEF RfClkInit
<1> DEFINE a == Config(Synthesizers[1], stored, TRUE)
           b == Config(Synthesizers[2], stored, TRUE)
<1>1. accesses' = IF Len(Synthesizers) = 1 THEN a ELSE a \o b
  BY <1>0 DEF All
<1>2. Block(a, Synthesizers[1]) /\ (Len(Synthesizers) = 2 => Block(b, Synthesizers[2]))
  BY ChipsAre, ConfigIsBlock DEF Configured
<1> HIDE DEF a, b
<1>3. /\ Chain(accesses') /\ Starts(accesses') /\ Closed(accesses')
      /\ \A c \in AllChips : Mentions(accesses', c)
  BY <1>1, <1>2, ForAllChips
<1>4. accesses = <<>> /\ bringUp' \in BringUps /\ bringUp' # BringUp
  BY StageIs DEF RfClkInit
<1>5. UNCHANGED <<chips, clkFaults, tableGood, answer>>
  BY DEF RfClkInit
<1> QED BY <1>3, <1>4, <1>5, BeginsList DEF AllGood

LEMMA MmcmKeeps == ASSUME ClockInv, MmcmInit \/ CheckLock PROVE ClockInv'
<1>1. accesses = <<>> /\ bringUp' \in BringUps /\ bringUp' # BringUp /\ bringUp # BringUp
  BY StageIs DEF MmcmInit, CheckLock
<1>2. UNCHANGED <<chips, clkFaults, tableGood, answer, accesses>>
  BY DEF MmcmInit, CheckLock
<1>3. Chain(accesses') /\ Starts(accesses') /\ Closed(accesses')
  BY <1>1, <1>2, NothingToDo DEF Starts
<1> QED BY <1>1, <1>2, <1>3, BeginsList DEF AllGood


LEMMA RequestKeeps == ASSUME ClockInv, Request PROVE ClockInv'
<1>1. /\ accesses = <<>> /\ bringUp' \in BringUps /\ bringUp' # BringUp /\ bringUp # BringUp
      /\ UNCHANGED <<chips, clkFaults>> /\ answer' = "good"
  <2>1. bringUp = <<>> /\ bringUp' = bringUp /\ UNCHANGED <<chips, clkFaults>>
        /\ answer' = "good" /\ accesses = <<>>
    BY DEF Request, Ready
  <2> QED BY <2>1 DEF BringUps, BringUp
<1>2. CASE accesses' = All(Synthesizers, StatusOf) /\ UNCHANGED tableGood
  <2> DEFINE a == StatusOf(Synthesizers[1])
             b == StatusOf(Synthesizers[2])
  <2>1. accesses' = IF Len(Synthesizers) = 1 THEN a ELSE a \o b
    BY <1>2 DEF All
  <2>2. Block(a, Synthesizers[1]) /\ (Len(Synthesizers) = 2 => Block(b, Synthesizers[2]))
    BY ChipsAre, StatusIsBlock
  <2> HIDE DEF a, b
  <2>3. Chain(accesses') /\ Starts(accesses') /\ Closed(accesses')
    BY <2>1, <2>2, ForAllChips
  <2> QED BY <1>1, <1>2, <2>3, BeginsList DEF AllGood
<1>3. CASE accesses' = Readback(Synthesizers[1]) /\ UNCHANGED tableGood
  <2>1. Chain(accesses') /\ Starts(accesses')
    BY <1>3, ChipsAre, ReadbackIs
  <2>2. AllGood => tableGood[Synthesizers[1]] = "yes"
    BY ChipsAre DEF AllGood
  <2>3. AllGood => Closed(accesses')
    BY <1>3, <2>2, ChipsAre, ReadbackIs DEF Block
  <2>4. AllGood' => AllGood
    BY <1>3 DEF AllGood
  <2> QED BY <1>1, <2>1, <2>3, <2>4, BeginsList
<1>4. ASSUME NEW hasR0 \in BOOLEAN,
             accesses' = All(Synthesizers, LAMBDA c : Config(c, "command", hasR0)), UNCHANGED tableGood
      PROVE  ClockInv'
  <2> DEFINE a == Config(Synthesizers[1], "command", hasR0)
             b == Config(Synthesizers[2], "command", hasR0)
  <2>1. accesses' = IF Len(Synthesizers) = 1 THEN a ELSE a \o b
    BY <1>4 DEF All
  <2>2. Block(a, Synthesizers[1]) /\ (Len(Synthesizers) = 2 => Block(b, Synthesizers[2]))
    BY ChipsAre, ConfigIsBlock DEF Configured
  <2> HIDE DEF a, b
  <2>3. Chain(accesses') /\ Starts(accesses') /\ Closed(accesses')
    BY <2>1, <2>2, ForAllChips
  <2> QED BY <1>1, <1>4, <2>3, BeginsList DEF AllGood
<1>5. ASSUME NEW c \in DOMAIN r0, tableGood' = [tableGood EXCEPT ![c] = "no"], UNCHANGED accesses
      PROVE  ClockInv'
  <2>1. accesses' = <<>> /\ Chain(accesses') /\ Starts(accesses') /\ Closed(accesses')
    BY <1>1, <1>5, NothingToDo DEF Starts
  <2>2. AllGood' => AllGood
    <3> SUFFICES ASSUME AllGood', NEW d \in AllChips PROVE tableGood[d] = "yes"
      BY DEF AllGood
    <3>1. tableGood'[d] = "yes"
      BY DEF AllGood
    <3> QED BY <1>5, <3>1
  <2> QED BY <1>1, <2>1, <2>2, BeginsList
<1> QED BY <1>2, <1>3, <1>4, <1>5 DEF Request

\* What a list leaves when its first access is done.
LEMMA TailIsChain ==
  ASSUME NEW s, Chain(s), s # <<>>
  PROVE  /\ s[1] \in Accesses /\ Head(s) = s[1] /\ Len(s) \in Nat /\ Len(s) > 0
         /\ Len(Tail(s)) = Len(s) - 1 /\ (Tail(s) = <<>> <=> Len(s) = 1)
         /\ \A i \in 1..Len(Tail(s)) : Tail(s)[i] = s[i + 1]
         /\ Chain(Tail(s))
         /\ Closed(s) => Closed(Tail(s))
         /\ \A c : Mentions(s, c) /\ s[1].chip # c => Mentions(Tail(s), c)
<1> DEFINE u == Tail(s)
           n == Len(s)
<1>1. /\ s \in Seq(Accesses) /\ u \in Seq(Accesses) /\ n \in Nat /\ n > 0 /\ Len(u) = n - 1
      /\ \A i \in 1..Len(u) : u[i] = s[i + 1]
      /\ Head(s) = s[1] /\ s[1] \in Accesses
  BY HeadTailProperties, EmptySeq DEF Chain
<1> HIDE DEF u, n
<1>2. u = <<>> <=> n = 1
  <2>1. u = <<>> <=> Len(u) = 0
    BY <1>1, EmptySeq
  <2> QED BY <1>1, <2>1
<1>3. \A i \in 1..Len(u) : u[i] = s[i + 1] /\ i + 1 \in 1..n
      /\ (i + 1 <= Len(u) => u[i + 1] = s[(i + 1) + 1] /\ (i + 1) + 1 \in 1..n)
      /\ (i + 2 <= Len(u) => u[i + 2] = s[(i + 1) + 2] /\ (i + 1) + 2 \in 1..n)
  BY <1>1
<1>4. Chained(u)
  <2>1. Chained(s)
    BY DEF Chain
  <2> SUFFICES ASSUME NEW i \in 1..Len(u)
               PROVE  /\ u[i].op = "write" <=> u[i].from # "none"
                      /\ u[i].op # "write" <=> u[i].pin = "none"
                      /\ i + 1 <= Len(u) =>
                           /\ u[i + 1].op # "write" =>
                                u[i].chip = u[i + 1].chip /\ (u[i].op = "write" => u[i].pin = "readback")
                           /\ u[i + 1].from = "v0" => u[i].chip = u[i + 1].chip /\ u[i].op \in {"v0", "status"}
                           /\ i + 2 <= Len(u) =>
                                (u[i + 1].op = "status" /\ u[i + 2].from = "v0" =>
                                   u[i].from = "v0" /\ u[i].chip = u[i + 1].chip)
    BY DEF Chained
  <2> DEFINE j == i + 1
  <2>2. /\ j \in 1..n /\ u[i] = s[j]
        /\ i + 1 <= Len(u) => u[i + 1] = s[j + 1] /\ j + 1 <= n
        /\ i + 2 <= Len(u) => u[i + 2] = s[j + 2] /\ j + 2 <= n
    BY <1>3
  <2> HIDE DEF j
  <2>3. /\ s[j].op = "write" <=> s[j].from # "none"
        /\ s[j].op # "write" <=> s[j].pin = "none"
        /\ j + 1 <= n =>
             /\ s[j + 1].op # "write" =>
                  s[j].chip = s[j + 1].chip /\ (s[j].op = "write" => s[j].pin = "readback")
             /\ s[j + 1].from = "v0" => s[j].chip = s[j + 1].chip /\ s[j].op \in {"v0", "status"}
             /\ j + 2 <= n =>
                  (s[j + 1].op = "status" /\ s[j + 2].from = "v0" =>
                     s[j].from = "v0" /\ s[j].chip = s[j + 1].chip)
    BY <2>1, <2>2 DEF Chained, n
  <2> QED BY <2>2, <2>3
<1>5. ASSUME Closed(s) PROVE Closed(u)
  <2> SUFFICES ASSUME NEW i \in 1..Len(u), u[i].pin # "lock"
               PROVE  i + 1 <= Len(u) /\ u[i + 1].chip = u[i].chip
    BY DEF Closed
  <2> DEFINE j == i + 1
  <2>1. j \in 1..n /\ u[i] = s[j] /\ (i + 1 <= Len(u) <=> j + 1 <= n)
        /\ (i + 1 <= Len(u) => u[i + 1] = s[j + 1])
    BY <1>1, <1>3
  <2> HIDE DEF j
  <2>2. j + 1 <= n /\ s[j + 1].chip = s[j].chip
    BY <1>5, <2>1 DEF Closed, n
  <2> QED BY <2>1, <2>2
<1>6. ASSUME NEW c, Mentions(s, c), s[1].chip # c PROVE Mentions(u, c)
  <2>1. PICK i \in 1..n : s[i].chip = c
    BY <1>6 DEF Mentions, n
  <2>2. i # 1 /\ i - 1 \in 1..Len(u)
    BY <1>1, <1>6, <2>1
  <2>3. u[i - 1] = s[(i - 1) + 1]
    BY <1>1, <2>2
  <2>4. u[i - 1].chip = c
    BY <2>1, <2>3
  <2> QED BY <2>2, <2>4 DEF Mentions
<1> QED BY <1>1, <1>2, <1>4, <1>5, <1>6 DEF Chain, u, n


\* The access under way, and what is left after it.
HeadOf(a) ==
  /\ accesses # <<>> /\ accesses[1] = a /\ Head(accesses) = a /\ a \in Accesses
  /\ a.op = "write" <=> a.from # "none"
  /\ a.op # "write" <=> a.pin = "none"
  /\ Chain(accesses')
  /\ Closed(accesses) => Closed(accesses')
  /\ \A c : Mentions(accesses, c) /\ a.chip # c => Mentions(accesses', c)
  /\ a.pin # "lock" /\ Closed(accesses) => Mentions(accesses', a.chip)
  /\ accesses' # <<>> =>
       LET b == accesses'[1] IN
       /\ Len(accesses) > 1 /\ accesses[2] = b /\ b \in Accesses
       /\ b.op # "write" => a.chip = b.chip /\ (a.op = "write" => a.pin = "readback")
       /\ b.from = "v0" => a.chip = b.chip /\ a.op \in {"v0", "status"}
       /\ Len(accesses') > 1 /\ b.op = "status" /\ accesses'[2].from = "v0" =>
            a.from = "v0" /\ a.chip = b.chip

LEMMA HeadIs ==
  ASSUME ClockTypes, accesses # <<>>, accesses' = Tail(accesses)
  PROVE  HeadOf(Head(accesses))
<1> DEFINE a == Head(accesses)
           n == Len(accesses)
           m == Len(accesses')
<1>1. /\ a \in Accesses /\ a = accesses[1] /\ n \in Nat /\ n > 0 /\ m = n - 1
      /\ (accesses' = <<>> <=> n = 1) /\ Chain(accesses')
      /\ \A i \in 1..m : accesses'[i] = accesses[i + 1]
      /\ Closed(accesses) => Closed(accesses')
      /\ \A c : Mentions(accesses, c) /\ a.chip # c => Mentions(accesses', c)
  BY TailIsChain DEF ClockTypes
<1>2. Chained(accesses)
  BY DEF ClockTypes, Chain
<1> HIDE DEF a, n, m
<1>3. /\ a.op = "write" <=> a.from # "none"
      /\ a.op # "write" <=> a.pin = "none"
  BY <1>1, <1>2 DEF Chained, n
<1>4. ASSUME accesses' # <<>>
      PROVE  LET b == accesses'[1] IN
             /\ n > 1 /\ accesses[2] = b /\ b \in Accesses
             /\ b.op # "write" => a.chip = b.chip /\ (a.op = "write" => a.pin = "readback")
             /\ b.from = "v0" => a.chip = b.chip /\ a.op \in {"v0", "status"}
             /\ m > 1 /\ b.op = "status" /\ accesses'[2].from = "v0" =>
                  a.from = "v0" /\ a.chip = b.chip
  <2>1. n > 1 /\ m > 0 /\ 1 \in 1..n /\ 1 + 1 <= n
    BY <1>1, <1>4
  <2>2. accesses'[1] = accesses[1 + 1] /\ accesses'[1] \in Accesses
    BY <1>1, <2>1, ElementOfSeq DEF Chain, m
  <2>3. m > 1 => accesses'[2] = accesses[2 + 1] /\ 2 + 1 <= n
    <3> SUFFICES ASSUME m > 1 PROVE accesses'[2] = accesses[2 + 1] /\ 2 + 1 <= n
      OBVIOUS
    <3>1. n \in Nat /\ n > 0 /\ m = n - 1
      BY <1>1
    <3>2. 2 \in 1..m /\ 2 + 1 <= n
      BY <3>1
    <3>3. \A i \in 1..m : accesses'[i] = accesses[i + 1]
      BY <1>1
    <3> QED BY <3>2, <3>3
  <2>4. /\ accesses[1 + 1].op # "write" =>
             accesses[1].chip = accesses[1 + 1].chip /\ (accesses[1].op = "write" => accesses[1].pin = "readback")
        /\ accesses[1 + 1].from = "v0" =>
             accesses[1].chip = accesses[1 + 1].chip /\ accesses[1].op \in {"v0", "status"}
        /\ 1 + 2 <= n =>
             (accesses[1 + 1].op = "status" /\ accesses[1 + 2].from = "v0" =>
                accesses[1].from = "v0" /\ accesses[1].chip = accesses[1 + 1].chip)
    BY <1>2, <2>1 DEF Chained, n
  <2> DEFINE b == accesses'[1]
             z == accesses'[2]
  <2>5. accesses[1] = a /\ accesses[1 + 1] = b /\ accesses[2] = b /\ (m > 1 => accesses[1 + 2] = z)
    <3>1. 1 + 1 = 2 /\ 1 + 2 = 2 + 1
      OBVIOUS
    <3> QED BY <1>1, <2>2, <2>3, <3>1
  <2>6. m > 1 => 1 + 2 <= n
    BY <2>3
  <2> HIDE DEF b, z
  <2>7. /\ b.op # "write" => a.chip = b.chip /\ (a.op = "write" => a.pin = "readback")
        /\ b.from = "v0" => a.chip = b.chip /\ a.op \in {"v0", "status"}
        /\ m > 1 /\ b.op = "status" /\ z.from = "v0" => a.from = "v0" /\ a.chip = b.chip
    BY <2>4, <2>5, <2>6
  <2> QED BY <2>1, <2>2, <2>5, <2>7 DEF b, z
<1>5. ASSUME a.pin # "lock", Closed(accesses) PROVE Mentions(accesses', a.chip)
  <2>1. 1 + 1 <= n /\ accesses[1 + 1].chip = a.chip
    BY <1>1, <1>5 DEF Closed, n
  <2>2. 1 \in 1..m /\ accesses'[1].chip = a.chip
    BY <1>1, <2>1
  <2> QED BY <2>2 DEF Mentions, m
<1>6. accesses # <<>> /\ accesses[1] = a /\ Head(accesses) = a /\ a \in Accesses
  BY <1>1 DEF a
<1> QED BY <1>1, <1>3, <1>4, <1>5, <1>6 DEF HeadOf, a, n, m

LEMMA WriteKeeps == ASSUME ClockInv, WriteReg PROVE ClockInv'
<1> DEFINE a == Head(accesses)
<1>0. HeadOf(a) /\ a.op = "write" /\ UNCHANGED <<v0, tableGood, bringUp>>
  BY HeadIs DEF WriteReg, ClockInv
<1>1. PICK happens \in {"yes", "no"} :
        /\ Fails(happens)
        /\ r0' = IF happens = "yes" THEN [r0 EXCEPT ![a.chip] = Reg0(Source(a), a.pin)] ELSE r0
        /\ v0Init' = Remembered(a)
        /\ answer' = IF happens = "no" THEN "failed" ELSE answer
  BY DEF WriteReg
<1> HIDE DEF a
<1>2. /\ clkFaults' \in Nat /\ (clkFaults' = 0 => clkFaults = 0 /\ happens = "yes")
      /\ (happens = "no" => clkFaults' > 0) /\ clkFaults' >= clkFaults
  BY <1>1 DEF Fails, ClockInv, ClockTypes
<1>3. /\ r0 \in [AllChips -> [cfg : Holds, pin : {"readback", "lock"}]]
      /\ v0Init \in [AllChips -> Holds] /\ v0 \in Holds
      /\ a.chip \in AllChips /\ a.pin \in {"readback", "lock"}
      /\ a.from \in Configured \cup {"v0", "v0Init", ResetValue}
  BY <1>0 DEF ClockInv, ClockTypes, Accesses, HeadOf
<1>4. Source(a) \in Holds /\ v0Init' \in [AllChips -> Holds]
      /\ (a.from # "v0" => Source(a) \in {v0Init'[a.chip], ResetValue})
      /\ (a.from = "v0" => Source(a) = v0 /\ v0Init' = v0Init)
      /\ \A c \in AllChips : c # a.chip => v0Init'[c] = v0Init[c]
  <2>1. CASE a.from = "v0Init"
    BY <1>1, <1>3, <2>1 DEF Source, Remembered, Holds
  <2>2. CASE a.from = "v0"
    BY <1>1, <1>3, <2>2 DEF Source, Remembered, Holds
  <2>3. CASE a.from = ResetValue
    BY <1>1, <1>3, <2>3 DEF Source, Remembered, Holds, ResetValue
  <2>4. CASE a.from \in Configured
    BY <1>1, <1>3, <2>4 DEF Source, Remembered, Holds, ResetValue, Configured
  <2> QED BY <1>3, <2>1, <2>2, <2>3, <2>4
<1>5. r0' \in [AllChips -> [cfg : Holds, pin : {"readback", "lock"}]]
      /\ \A c \in AllChips : c # a.chip => r0'[c] = r0[c]
  BY <1>1, <1>3, <1>4 DEF Reg0
<1>6. happens = "yes" => r0'[a.chip] = Reg0(Source(a), a.pin)
  BY <1>1, <1>3
<1>7. ClockTypes'
  <2>1. answer' \in {"good", "failed"} /\ (answer' = "failed" => clkFaults' > 0)
    BY <1>1, <1>2 DEF ClockInv, ClockTypes
  <2> QED BY <1>0, <1>2, <1>4, <1>5, <2>1 DEF ClockInv, ClockTypes, HeadOf
<1>8. PinIsReadback'
  <2> SUFFICES ASSUME accesses' # <<>>, accesses'[1].op # "write", answer' = "good"
               PROVE  r0'[accesses'[1].chip].pin = "readback"
    BY DEF PinIsReadback
  <2>1. accesses'[1].chip = a.chip /\ a.pin = "readback" /\ happens = "yes"
    BY <1>0, <1>1 DEF HeadOf
  <2> QED BY <1>6, <2>1 DEF Reg0
<1>9. HoldsItsOwn'
  <2> SUFFICES ASSUME clkFaults' = 0 PROVE HoldsItsOwn'
    BY DEF HoldsItsOwn
  <2>1. happens = "yes" /\ clkFaults = 0
    BY <1>2
  <2>2. a.from = "v0" => v0 \in {v0Init[a.chip], ResetValue}
    BY <1>0, <2>1 DEF ClockInv, HoldsItsOwn, HeadOf
  <2>3. r0'[a.chip].cfg \in {v0Init'[a.chip], ResetValue}
    BY <1>4, <1>6, <2>1, <2>2 DEF Reg0
  <2>4. \A c \in AllChips : r0'[c].cfg \in {v0Init'[c], ResetValue}
    BY <1>4, <1>5, <2>1, <2>3 DEF ClockInv, HoldsItsOwn
  <2>5. accesses' # <<>> => accesses'[1].from # "v0"
    BY <1>0 DEF HeadOf
  <2>6. ASSUME Len(accesses') > 1, accesses'[1].op = "status", accesses'[2].from = "v0"
        PROVE  v0' \in {v0Init'[accesses'[1].chip], ResetValue}
    <3>1. accesses' # <<>>
      BY <2>6
    <3>2. a.from = "v0" /\ accesses'[1].chip = a.chip
      BY <1>0, <2>6, <3>1 DEF HeadOf
    <3> QED BY <1>0, <1>4, <2>2, <3>2
  <2> QED BY <2>4, <2>5, <2>6 DEF HoldsItsOwn
<1>10. WillShowLock'
  <2> SUFFICES ASSUME clkFaults' = 0, AllGood', bringUp' # BringUp
               PROVE  /\ Closed(accesses')
                      /\ \A c \in AllChips : Mentions(accesses', c) \/ r0'[c].pin = "lock"
    BY DEF WillShowLock
  <2>1. Closed(accesses) /\ \A c \in AllChips : Mentions(accesses, c) \/ r0[c].pin = "lock"
    BY <1>0, <1>2 DEF ClockInv, WillShowLock, AllGood
  <2>2. Closed(accesses')
    BY <1>0, <2>1 DEF HeadOf
  <2>3. ASSUME NEW c \in AllChips, c # a.chip PROVE Mentions(accesses', c) \/ r0'[c].pin = "lock"
    BY <1>0, <1>5, <2>1, <2>3 DEF HeadOf
  <2>4. CASE a.pin = "lock"
    <3>1. r0'[a.chip].pin = "lock"
      BY <1>2, <1>6, <2>4 DEF Reg0
    <3> QED BY <2>2, <2>3, <3>1
  <2>5. CASE a.pin # "lock"
    <3>1. Mentions(accesses', a.chip)
      BY <1>0, <2>1, <2>5 DEF HeadOf
    <3> QED BY <2>2, <2>3, <3>1
  <2> QED BY <2>4, <2>5
<1> QED BY <1>7, <1>8, <1>9, <1>10 DEF ClockInv

LEMMA ReadKeeps == ASSUME ClockInv, ReadOne PROVE ClockInv'
<1> DEFINE a == Head(accesses)
<1>0. HeadOf(a) /\ a.op # "write" /\ UNCHANGED <<r0, v0Init, tableGood, bringUp>>
  BY HeadIs DEF ReadOne, ClockInv
<1>1. PICK happens \in {"yes", "no"} :
        /\ Fails(happens)
        /\ v0' = IF a.op # "v0" THEN v0
                 ELSE IF happens = "yes" /\ r0[a.chip].pin = "readback" THEN r0[a.chip].cfg ELSE "zero"
        /\ answer' = IF happens = "no" THEN "failed"
                     ELSE IF answer = "good" /\ r0[a.chip].pin # "readback" THEN "wrong" ELSE answer
  BY DEF ReadOne
<1> HIDE DEF a
<1>2. /\ clkFaults' \in Nat /\ (clkFaults' = 0 => clkFaults = 0 /\ happens = "yes")
      /\ (happens = "no" => clkFaults' > 0) /\ clkFaults' >= clkFaults
  BY <1>1 DEF Fails, ClockInv, ClockTypes
<1>3. /\ r0 \in [AllChips -> [cfg : Holds, pin : {"readback", "lock"}]] /\ v0 \in Holds
      /\ a.chip \in AllChips /\ a.from = "none" /\ a.pin = "none"
  BY <1>0 DEF ClockInv, ClockTypes, Accesses, HeadOf
<1>4. answer = "good" => r0[a.chip].pin = "readback"
  BY <1>0 DEF ClockInv, PinIsReadback, HeadOf
<1>5. answer' = IF happens = "no" THEN "failed" ELSE answer
  BY <1>1, <1>4
<1>6. ClockTypes'
  <2>1. answer' \in {"good", "failed"} /\ (answer' = "failed" => clkFaults' > 0)
    BY <1>2, <1>5 DEF ClockInv, ClockTypes
  <2>2. v0' \in Holds
    BY <1>1, <1>3 DEF Holds
  <2> QED BY <1>0, <1>2, <2>1, <2>2 DEF ClockInv, ClockTypes, HeadOf
<1>7. PinIsReadback'
  BY <1>0, <1>4, <1>5 DEF PinIsReadback, HeadOf
<1>8. HoldsItsOwn'
  <2> SUFFICES ASSUME clkFaults' = 0 PROVE HoldsItsOwn'
    BY DEF HoldsItsOwn
  <2>1. happens = "yes" /\ clkFaults = 0 /\ answer = "good"
    BY <1>2 DEF ClockInv, ClockTypes
  <2>2. \A c \in AllChips : r0[c].cfg \in {v0Init[c], ResetValue}
    BY <2>1 DEF ClockInv, HoldsItsOwn
  <2>3. a.op = "v0" => v0' \in {v0Init[a.chip], ResetValue}
    BY <1>1, <1>3, <1>4, <2>1, <2>2
  <2>4. ASSUME accesses' # <<>>, accesses'[1].from = "v0"
        PROVE  v0' \in {v0Init[accesses'[1].chip], ResetValue}
    <3>1. /\ a.chip = accesses'[1].chip /\ a.op \in {"v0", "status"}
          /\ Len(accesses) > 1 /\ accesses[2] = accesses'[1] /\ accesses[1] = a
      BY <1>0, <2>4 DEF HeadOf
    <3>2. CASE a.op = "v0"
      BY <2>3, <3>1, <3>2
    <3>3. CASE a.op = "status"
      BY <1>1, <2>1, <2>4, <3>1, <3>3 DEF ClockInv, HoldsItsOwn
    <3> QED BY <3>1, <3>2, <3>3
  <2>5. ~(Len(accesses') > 1 /\ accesses'[1].op = "status" /\ accesses'[2].from = "v0")
    <3> SUFFICES ASSUME Len(accesses') > 1, accesses'[1].op = "status", accesses'[2].from = "v0"
                 PROVE  FALSE
      OBVIOUS
    <3>1. accesses' # <<>>
      OBVIOUS
    <3> QED BY <1>0, <1>3, <3>1 DEF HeadOf
  <2> QED BY <1>0, <2>2, <2>4, <2>5 DEF HoldsItsOwn
<1>9. WillShowLock'
  <2> SUFFICES ASSUME clkFaults' = 0, AllGood', bringUp' # BringUp
               PROVE  /\ Closed(accesses')
                      /\ \A c \in AllChips : Mentions(accesses', c) \/ r0'[c].pin = "lock"
    BY DEF WillShowLock
  <2>1. Closed(accesses) /\ \A c \in AllChips : Mentions(accesses, c) \/ r0[c].pin = "lock"
    BY <1>0, <1>2 DEF ClockInv, WillShowLock, AllGood
  <2>2. Closed(accesses') /\ Mentions(accesses', a.chip)
    BY <1>0, <1>3, <2>1 DEF HeadOf
  <2>3. ASSUME NEW c \in AllChips, c # a.chip PROVE Mentions(accesses', c) \/ r0'[c].pin = "lock"
    BY <1>0, <2>1, <2>3 DEF HeadOf
  <2> QED BY <2>2, <2>3
<1> QED BY <1>6, <1>7, <1>8, <1>9 DEF ClockInv

LEMMA ClocksStep == ClockInv /\ [ClocksNext]_clkVars => ClockInv'
<1> SUFFICES ASSUME ClockInv, [ClocksNext]_clkVars PROVE ClockInv'
  OBVIOUS
<1>1. CASE UNCHANGED clkVars
  <2>1. UNCHANGED <<r0, v0Init, v0, tableGood, accesses, answer, bringUp, clkFaults>>
    BY <1>1 DEF clkVars
  <2>2. ClockTypes' /\ PinIsReadback'
    BY <2>1 DEF ClockInv, ClockTypes, PinIsReadback
  <2>3. HoldsItsOwn' /\ WillShowLock'
    BY <2>1 DEF ClockInv, HoldsItsOwn, WillShowLock, AllGood
  <2> QED BY <2>2, <2>3 DEF ClockInv
<1> QED BY <1>1, PreInitKeeps, MmcmKeeps, RfClkInitKeeps, RequestKeeps, WriteKeeps, ReadKeeps
        DEF ClocksNext

\* No register is read through a STATUS pin that shows the lock, unless an
\* access of the same request failed, for any requests, failures and tables.
\* (init2594, start2594, lmx2594Status, lmx2594Readback)
THEOREM RegistersAreReadBack == ClocksSpec => []ReadsAreReadbacks
<1>1. ClockInv => ReadsAreReadbacks
  BY DEF ClockInv, ClockTypes, ReadsAreReadbacks
<1> QED BY ClocksStart, ClocksStep, <1>1, PTL DEF ClocksSpec

\* Between requests every chip shows its lock and holds what it was configured
\* with or its reset value, as long as no access failed and the tables are good.
\* (start2594, lmx2594Status, lmx2594Readback)
THEOREM ChipsAreLeftConfigured == ClocksSpec => []ChipsAreRestored
<1>1. ClockInv => ChipsAreRestored
  <2> SUFFICES ASSUME ClockInv, Ready, bringUp = <<>>, clkFaults = 0,
                      \A c \in DOMAIN r0 : tableGood[c] = "yes", NEW c \in DOMAIN r0
               PROVE  r0[c].pin = "lock" /\ r0[c].cfg \in {v0Init[c], ResetValue}
    BY DEF ChipsAreRestored
  <2>1. DOMAIN r0 = AllChips /\ bringUp # BringUp /\ accesses = <<>>
    BY DEF ClockInv, ClockTypes, Ready, BringUp
  <2>2. AllGood /\ ~Mentions(accesses, c)
    BY <2>1, NothingToDo DEF AllGood
  <2> QED BY <2>1, <2>2 DEF ClockInv, WillShowLock, HoldsItsOwn
<1> QED BY ClocksStart, ClocksStep, <1>1, PTL DEF ClocksSpec
=============================================================================
