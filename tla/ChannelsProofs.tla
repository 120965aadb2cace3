--------------------------- MODULE ChannelsProofs ----------------------------
(***************************************************************************)
(* The boards and converters of the channels.  Serial buses: whose answer  *)
(* is stored and whose attenuation is in force, for any sensors,           *)
(* attenuations, time-outs and restarts.  Tiles: the order they are        *)
(* powered in, and what a command or a synchronisation leaves them and     *)
(* their requests as, for any number of tiles, place of the clock, command *)
(* and failed calls of the driver.  Gain trims: who may change the gains   *)
(* while trimming is off, that they are one set at all times, and that a   *)
(* sample is trimmed by its own, for any number of channels and any timing *)
(* in which the gains are done before the next measurement.  The three     *)
(* share no state.                                                         *)
(***************************************************************************)
EXTENDS Autotrim, RfTiles, SpiBoards, SequenceTheorems, TLAPS

-----------------------------------------------------------------------------
(* The serial buses.                                                       *)

\* The expander is told what to select, or has been.
Expander(select, raised) ==
    \/ spi["ami"] = [to |-> "expander", select |-> select, latch |-> raised]
    \/ spi["ami"] = BusIdle /\ selected = select /\ latch = raised

AsksAmi == op.to = "sensor" /\ op.sensor \in Ami

BoardsType ==
    /\ DOMAIN spi = Buses /\ spi["rpb"].to \notin {"expander", "attenuator"}
    /\ DOMAIN att = Attenuators /\ DOMAIN cache = Attenuators
    /\ DOMAIN info = Sensors /\ \A s \in Sensors : DOMAIN info[s] = Registers
    /\ timeouts \in Nat

\* What the call under way has done so far, whatever timed out.
CallInv ==
    /\ doing = "select" => AsksAmi
    /\ doing = "word" => op.to \in {"sensor", "attenuator"}
    /\ doing = "word" /\ AsksAmi => Expander({op.sensor}, 0)
    /\ doing = "wait" =>
           /\ op.to = "sensor"
           /\ AsksAmi => selected = {op.sensor} /\ spi["ami"] \in {op, BusIdle}
    /\ op.to = "attenuator" => op.which \in Attenuators

ReadInv == BoardsType /\ CallInv /\ ReadingIsOwn

LEMMA BoardsStart == BoardsInit => ReadInv
<1> SUFFICES ASSUME BoardsInit PROVE ReadInv
  OBVIOUS
<1>1. BoardsType
  BY DEF BoardsInit, BoardsType, Buses, BusIdle
<1>2. CallInv
  BY DEF BoardsInit, CallInv, AsksAmi, BusIdle
<1>3. ReadingIsOwn
  BY DEF BoardsInit, ReadingIsOwn
<1> QED BY <1>1, <1>2, <1>3 DEF ReadInv

\* A caller's step keeps the types.
LEMMA CallerKeepsType ==
    ASSUME ReadInv, Software \/ \E a \in Attenuators, steps \in Steps : AttenSet(a, steps)
    PROVE  BoardsType'
<1> USE DEF ReadInv, BoardsType, CallInv, Buses, Board
<1>1. CASE Boot
  BY <1>1 DEF Boot, Deselect, SetMux, Write, BusyTooLong
<1>2. CASE Fetch \/ Return \/ Crank
  BY <1>2 DEF Fetch, Return, Crank
<1>3. CASE Select
  BY <1>3 DEF Select, SetMux, Write, BusyTooLong
<1>4. CASE Word
  <2> DEFINE b == IF op.to = "attenuator" THEN "ami" ELSE BusOf(op.sensor)
  <2>1. b \in Buses /\ (b = "rpb" => op.to = "sensor")
    BY <1>4 DEF Word, BusOf
  <2>2. /\ (Write(b, op) /\ UNCHANGED timeouts) \/ BusyTooLong(b)
        /\ UNCHANGED <<att, cache, info>>
    BY <1>4 DEF Word
  <2> HIDE DEF b
  <2>3. CASE Write(b, op) /\ UNCHANGED timeouts
    BY <2>1, <2>2, <2>3 DEF Write
  <2>4. CASE BusyTooLong(b)
    BY <2>2, <2>4 DEF BusyTooLong
  <2> QED BY <2>2, <2>3, <2>4
<1>5. CASE Wait
  <2>1. PICK x :
          info' = [info EXCEPT ![op.sensor][op.reg] = x] \/ UNCHANGED info
    BY <1>5 DEF Wait
  <2>2. DOMAIN info' = Sensors /\ \A s \in Sensors : DOMAIN info'[s] = Registers
    BY <2>1
  <2>3. timeouts' \in Nat
    BY <1>5 DEF Wait, BusyTooLong
  <2> QED BY <1>5, <2>2, <2>3 DEF Wait, BusyTooLong
<1>6. CASE Latch
  BY <1>6 DEF Latch, SetMux, Write, BusyTooLong
<1>7. CASE None
  BY <1>7 DEF None, Deselect, SetMux, Write, BusyTooLong
<1>8. CASE \E a \in Attenuators, steps \in Steps : AttenSet(a, steps)
  BY <1>8 DEF AttenSet
<1> QED BY <1>1, <1>2, <1>3, <1>4, <1>5, <1>6, <1>7, <1>8 DEF Software

LEMMA CallerKeepsCall ==
    ASSUME ReadInv, Software \/ \E a \in Attenuators, steps \in Steps : AttenSet(a, steps)
    PROVE  CallInv'
<1> USE DEF ReadInv, BoardsType, CallInv, AsksAmi, Expander, Buses, Board
<1>1. CASE Boot
  BY <1>1 DEF Boot
<1>2. CASE Fetch
  BY <1>2 DEF Fetch
<1>3. CASE Return \/ Crank
  BY <1>3 DEF Return, Crank, BusIdle
<1>4. CASE Select
  BY <1>4 DEF Select, SetMux, Write, BusyTooLong
<1>5. CASE Word
  <2>1. CASE op.to = "sensor" /\ op.sensor \in Ami
    <3>1. CASE Write("ami", op)
      BY <1>5, <2>1, <3>1 DEF Word, Write, BusOf, BusIdle
    <3>2. CASE BusyTooLong("ami")
      BY <1>5, <2>1, <3>2 DEF Word, BusyTooLong, BusOf
    <3> QED BY <1>5, <2>1, <3>1, <3>2 DEF Word, BusOf
  <2>2. CASE ~(op.to = "sensor" /\ op.sensor \in Ami)
    BY <1>5, <2>2 DEF Word
  <2> QED BY <2>1, <2>2
<1>6. CASE Wait
  BY <1>6 DEF Wait
<1>7. CASE Latch \/ None
  BY <1>7 DEF Latch, None
<1>8. CASE \E a \in Attenuators, steps \in Steps : AttenSet(a, steps)
  BY <1>8 DEF AttenSet
<1> QED BY <1>1, <1>2, <1>3, <1>4, <1>5, <1>6, <1>7, <1>8 DEF Software

\* The sensor that answers is the one selected, which is the one asked.
LEMMA CallerKeepsReadings ==
    ASSUME ReadInv, Software \/ \E a \in Attenuators, steps \in Steps : AttenSet(a, steps)
    PROVE  ReadingIsOwn'
<1>1. CASE UNCHANGED info
  BY <1>1 DEF ReadInv, ReadingIsOwn
<1>2. CASE Wait
  <2>1. PICK s \in IF BusOf(op.sensor) = "ami" THEN selected ELSE {op.sensor} :
          info' = [info EXCEPT ![op.sensor][op.reg] = <<s, Register(op.sensor, op.reg)>>]
        \/ UNCHANGED info
    BY <1>2 DEF Wait, ReadInv, CallInv, AsksAmi, BusOf
  <2>2. s = op.sensor
    BY <1>2, <2>1 DEF Wait, ReadInv, CallInv, AsksAmi, BusOf
  <2>3. CASE info' = [info EXCEPT ![op.sensor][op.reg] = <<op.sensor, Register(op.sensor, op.reg)>>]
    BY <2>3 DEF ReadInv, BoardsType, ReadingIsOwn, Register
  <2> QED BY <1>1, <2>1, <2>2, <2>3
<1> QED
  BY <1>1, <1>2 DEF Software, Boot, Fetch, Return, Crank, Select, Word, Latch, None, AttenSet

\* The hardware's part: a word that completes selects what it says.
LEMMA HardwareKeeps ==
    ASSUME ReadInv, NEW b \in Buses, Complete(b)
    PROVE  ReadInv'
<1> USE DEF ReadInv, BoardsType, CallInv, AsksAmi, Expander, Buses
<1>1. BoardsType'
  <2>1. DOMAIN att' = Attenuators
    BY DEF Complete
  <2> QED BY <2>1 DEF Complete, Caller, BusIdle
<1>2. b = "rpb" => UNCHANGED selected /\ UNCHANGED latch /\ spi'["ami"] = spi["ami"]
  BY DEF Complete
<1>3. CallInv'
  <2>1. UNCHANGED <<doing, op>>
    BY DEF Complete, Caller
  <2>2. CASE b = "rpb"
    BY <1>2, <2>1, <2>2
  <2>3. CASE b = "ami"
    <3>1. spi'["ami"] = BusIdle /\ spi["ami"] # BusIdle
      BY <2>3 DEF Complete
    <3>2. spi["ami"].to = "expander" => selected' = spi["ami"].select /\ latch' = spi["ami"].latch
      BY <2>3 DEF Complete
    <3>3. spi["ami"].to # "expander" => selected' = selected
      BY <2>3 DEF Complete
    <3> QED BY <2>1, <3>1, <3>2, <3>3
  <2> QED BY <2>2, <2>3
<1>4. ReadingIsOwn'
  BY DEF Complete, Caller, ReadingIsOwn
<1> QED BY <1>1, <1>3, <1>4

LEMMA RestartKeeps == ReadInv /\ BoardsRestart => ReadInv'
<1> SUFFICES ASSUME ReadInv, BoardsRestart PROVE ReadInv'
  OBVIOUS
<1>1. BoardsType'
  BY DEF ReadInv, BoardsType, BoardsRestart, Buses, BusIdle, Board
<1>2. CallInv'
  BY DEF BoardsRestart, CallInv, AsksAmi, BusIdle
<1>3. ReadingIsOwn'
  BY DEF BoardsRestart, ReadingIsOwn
<1> QED BY <1>1, <1>2, <1>3 DEF ReadInv

LEMMA ReadStep == ReadInv /\ [BoardsNext]_boardVars => ReadInv'
<1>1. ASSUME ReadInv, Software \/ \E a \in Attenuators, steps \in Steps : AttenSet(a, steps)
      PROVE  ReadInv'
  BY <1>1, CallerKeepsType, CallerKeepsCall, CallerKeepsReadings DEF ReadInv
<1>2. ASSUME ReadInv, UNCHANGED boardVars PROVE ReadInv'
  BY <1>2 DEF boardVars, ReadInv, BoardsType, CallInv, AsksAmi, Expander, ReadingIsOwn
<1> QED BY <1>1, <1>2, HardwareKeeps, RestartKeeps DEF BoardsNext

\* What is stored as a reading of a sensor came from that sensor and register,
\* for any sensors, and whatever times out, however often.
THEOREM ReadingsAreOwn == BoardsSpec => []ReadingIsOwn
<1>1. ReadInv => ReadingIsOwn
  BY DEF ReadInv
<1> QED BY BoardsStart, ReadStep, <1>1, PTL DEF BoardsSpec

-----------------------------------------------------------------------------
\* As long as nothing timed out: the expander is at rest between the calls, and
\* a word finds its own device, and no latch raised.
OrderInv ==
    timeouts = 0 =>
        /\ spiStatus = 0
        /\ doing = "boot" => spi["ami"] = BusIdle
        /\ doing \in {"idle", "next", "select"} => Expander({}, 0)
        /\ doing \in {"word", "wait"} /\ ~AsksAmi => Expander({}, 0)
        /\ doing = "wait" /\ AsksAmi => latch = 0
        /\ doing = "latch" =>
               /\ op.to = "attenuator" /\ selected = {} /\ latch = 0
               /\ spi["ami"] = op \/ (spi["ami"] = BusIdle /\ shifted = op)
        /\ doing = "none" =>
               \/ AsksAmi /\ selected = {op.sensor} /\ latch = 0 /\ spi["ami"] = BusIdle
               \/ /\ op.to = "attenuator"
                  /\ \/ /\ spi["ami"] = [to |-> "expander", select |-> {}, latch |-> 1]
                        /\ shifted = op /\ latch = 0
                     \/ spi["ami"] = BusIdle /\ att[op.which] = op.steps

\* The attenuators written have what is published, but for one that a call has
\* attenuated already and not yet published.
CacheInv ==
    timeouts = 0 =>
        \A a \in written :
            /\ a \in Attenuators
            /\ att[a] = cache[a] \/ (doing = "none" /\ op.to = "attenuator" /\ op.which = a)

BusInv == ReadInv /\ doing \in {"boot", "idle", "next", "select", "word", "wait", "latch", "none"}
          /\ OrderInv /\ CacheInv

LEMMA BusStart == BoardsInit => BusInv
<1> SUFFICES ASSUME BoardsInit PROVE BusInv
  OBVIOUS
<1>1. ReadInv
  BY BoardsStart
<1>2. OrderInv /\ CacheInv
  BY DEF BoardsInit, OrderInv, CacheInv, Buses
<1> QED BY <1>1, <1>2 DEF BusInv, BoardsInit

\* A caller's step without a time-out keeps the order of words.
LEMMA CallerKeepsOrder ==
    ASSUME BusInv, Software \/ \E a \in Attenuators, steps \in Steps : AttenSet(a, steps)
    PROVE  OrderInv'
<1> SUFFICES ASSUME timeouts' = 0 PROVE OrderInv'
  BY DEF OrderInv
<1>0. BoardsType /\ CallInv
  BY DEF BusInv, ReadInv
<1>a. ASSUME NEW b, BusyTooLong(b) PROVE FALSE
  BY <1>0, <1>a DEF BoardsType, BusyTooLong
<1> USE DEF AsksAmi, Expander, Buses, Board
<1>1. CASE Boot
  BY <1>0, <1>1, <1>a DEF Boot, Deselect, SetMux, Write, BusInv, OrderInv, BoardsType
<1>2. CASE Fetch
  BY <1>2 DEF Fetch, BusInv, OrderInv
<1>3. CASE Return \/ Crank
  BY <1>3 DEF Return, Crank, BusInv, OrderInv
<1>4. CASE Select
  BY <1>0, <1>4, <1>a DEF Select, SetMux, Write, BusInv, OrderInv, BoardsType, CallInv
<1>5. CASE Word
  <2> DEFINE b == IF op.to = "attenuator" THEN "ami" ELSE BusOf(op.sensor)
  <2>1. /\ spi[b] = BusIdle /\ spi' = [spi EXCEPT ![b] = op] /\ doing = "word"
        /\ doing' = IF op.to = "attenuator" THEN "latch" ELSE "wait"
        /\ UNCHANGED <<Board, op, spiStatus, timeouts>>
    BY <1>5, <1>a DEF Word, Write
  <2>2. OrderInv /\ timeouts = 0
    BY <2>1 DEF BusInv
  <2>3. CASE op.to = "attenuator"
    <3>1. selected = {} /\ latch = 0
      BY <2>1, <2>2, <2>3 DEF OrderInv, BusIdle
    <3>2. spi'["ami"] = op
      BY <1>0, <2>1, <2>3 DEF BoardsType
    <3> QED BY <2>1, <2>2, <2>3, <3>1, <3>2 DEF OrderInv
  <2>4. CASE AsksAmi
    <3>1. b = "ami"
      BY <2>4 DEF BusOf
    <3> QED BY <1>0, <2>1, <2>2, <2>4, <3>1 DEF OrderInv, BoardsType, CallInv, BusIdle
  <2>5. CASE op.to = "sensor" /\ ~AsksAmi
    <3>1. b = "rpb"
      BY <2>5 DEF BusOf
    <3> QED BY <1>0, <2>1, <2>2, <2>5, <3>1 DEF OrderInv, BoardsType
  <2> QED BY <1>0, <2>1, <2>3, <2>4, <2>5 DEF CallInv
<1>6. CASE Wait
  <2> DEFINE b == BusOf(op.sensor)
  <2>1. /\ spi[b] = BusIdle /\ doing = "wait" /\ op.to = "sensor"
        /\ doing' = IF b = "ami" THEN "none" ELSE "next"
        /\ UNCHANGED <<spi, Board, op, spiStatus, timeouts>>
    BY <1>0, <1>6, <1>a DEF Wait, CallInv
  <2>2. OrderInv /\ timeouts = 0
    BY <2>1 DEF BusInv
  <2>3. CASE AsksAmi
    <3>1. b = "ami"
      BY <2>3 DEF BusOf
    <3> QED BY <1>0, <2>1, <2>2, <2>3, <3>1 DEF OrderInv, CallInv
  <2>4. CASE ~AsksAmi
    <3>1. b = "rpb"
      BY <2>1, <2>4 DEF BusOf
    <3> QED BY <1>0, <2>1, <2>2, <2>4, <3>1 DEF OrderInv
  <2> QED BY <2>3, <2>4
<1>7. CASE Latch
  BY <1>0, <1>7, <1>a DEF Latch, SetMux, Write, BusInv, OrderInv, BoardsType, BusIdle
<1>8. CASE None
  <2>1. /\ spi' = [spi EXCEPT !["ami"] = [to |-> "expander", select |-> {}, latch |-> 0]]
        /\ doing' = "next" /\ UNCHANGED <<Board, op, spiStatus, timeouts>>
    BY <1>8, <1>a DEF None, Deselect, SetMux, Write
  <2>2. OrderInv /\ timeouts = 0
    BY <2>1 DEF BusInv
  <2> QED BY <1>0, <2>1, <2>2 DEF OrderInv, BoardsType
<1>9. CASE \E a \in Attenuators, steps \in Steps : AttenSet(a, steps)
  BY <1>9 DEF AttenSet, BusInv, OrderInv
<1> QED BY <1>1, <1>2, <1>3, <1>4, <1>5, <1>6, <1>7, <1>8, <1>9 DEF Software

LEMMA HardwareKeepsOrder ==
    ASSUME BusInv, NEW b \in Buses, Complete(b)
    PROVE  OrderInv' /\ CacheInv'
<1> SUFFICES ASSUME timeouts = 0 PROVE OrderInv' /\ CacheInv'
  BY DEF OrderInv, CacheInv, Complete
<1>0. BoardsType /\ CallInv /\ OrderInv /\ CacheInv
  BY DEF BusInv, ReadInv
<1>1. spi[b] # BusIdle /\ spi' = [spi EXCEPT ![b] = BusIdle] /\ UNCHANGED <<Caller, timeouts>>
  BY DEF Complete
<1> USE DEF AsksAmi, Expander, Buses
<1>2. CASE b = "rpb"
  <2>1. UNCHANGED <<selected, latch, att, shifted>> /\ spi'["ami"] = spi["ami"]
    BY <1>0, <1>2 DEF Complete, BoardsType
  <2> QED BY <1>0, <1>1, <2>1 DEF OrderInv, CacheInv, Caller
<1>3. CASE b = "ami"
  <2> DEFINE word == spi["ami"]
  <2>1. word # BusIdle /\ spi'["ami"] = BusIdle
    BY <1>0, <1>1, <1>3 DEF BoardsType
  <2>2. word.to = "expander" => selected' = word.select /\ latch' = word.latch
    BY <1>3 DEF Complete
  <2>3. word.to # "expander" => UNCHANGED <<selected, latch, att>>
    BY <1>3 DEF Complete
  <2>4. CASE doing = "none"
    <3>1. /\ op.to = "attenuator" /\ shifted = op /\ latch = 0
          /\ word = [to |-> "expander", select |-> {}, latch |-> 1]
      BY <1>0, <2>1, <2>4 DEF OrderInv
    <3>2. att' = [att EXCEPT ![op.which] = op.steps]
      BY <1>3, <3>1 DEF Complete
    <3>3. op.which \in DOMAIN att
      BY <1>0, <3>1 DEF BoardsType, CallInv
    <3>4. OrderInv'
      BY <1>0, <1>1, <2>1, <2>4, <3>1, <3>2, <3>3 DEF OrderInv, Caller
    <3>5. CacheInv'
      BY <1>0, <1>1, <2>4, <3>1, <3>2 DEF CacheInv, Caller
    <3> QED BY <3>4, <3>5
  <2>5. CASE doing # "none"
    <3>1. word.to = "expander" => word.latch = 0
      BY <1>0, <2>1, <2>5 DEF BusInv, OrderInv, CallInv
    <3>2. att' = att
      BY <1>3, <2>3, <3>1 DEF Complete
    <3>3. doing = "latch" /\ word = op => shifted' = op
      BY <1>0, <1>3, <2>5 DEF Complete, OrderInv
    <3>4. OrderInv'
      BY <1>0, <1>1, <2>1, <2>2, <2>3, <2>5, <3>3 DEF OrderInv, CallInv, Caller
    <3>5. CacheInv'
      BY <1>0, <1>1, <2>5, <3>2 DEF CacheInv, Caller
    <3> QED BY <3>4, <3>5
  <2> QED BY <2>4, <2>5
<1> QED BY <1>2, <1>3

\* A caller's step without a time-out publishes what it attenuated.
LEMMA CallerKeepsCache ==
    ASSUME BusInv, Software \/ \E a \in Attenuators, steps \in Steps : AttenSet(a, steps)
    PROVE  CacheInv'
<1> SUFFICES ASSUME timeouts' = 0 PROVE CacheInv'
  BY DEF CacheInv
<1>0. BoardsType /\ CallInv
  BY DEF BusInv, ReadInv
<1>a. ASSUME NEW b, BusyTooLong(b) PROVE FALSE
  BY <1>0, <1>a DEF BoardsType, BusyTooLong
<1>1. CASE None
  <2>1. /\ doing = "none" /\ timeouts = 0 /\ att' = att
        /\ spi["ami"] = BusIdle
        /\ IF op.to = "attenuator" /\ spiStatus = 0
           THEN /\ cache' = [cache EXCEPT ![op.which] = op.steps]
                /\ written' = written \cup {op.which}
           ELSE UNCHANGED <<cache, written>>
    BY <1>1, <1>a DEF None, Deselect, SetMux, Write, Board
  <2>2. OrderInv /\ CacheInv
    BY DEF BusInv
  <2>3. CASE op.to = "attenuator"
    <3>1. spiStatus = 0 /\ att[op.which] = op.steps
      BY <2>1, <2>2, <2>3 DEF OrderInv, AsksAmi, BusIdle
    <3>2. op.which \in Attenuators /\ DOMAIN cache = Attenuators
      BY <1>0, <2>3 DEF BoardsType, CallInv
    <3>3. ASSUME NEW a \in written' PROVE a \in Attenuators /\ att'[a] = cache'[a]
      <4>1. a \in Attenuators /\ (a # op.which => att[a] = cache[a])
        BY <2>1, <2>2, <2>3, <3>1, <3>2, <3>3 DEF CacheInv
      <4> QED BY <2>1, <2>3, <3>1, <3>2, <4>1
    <3> QED BY <3>3 DEF CacheInv
  <2>4. CASE op.to # "attenuator"
    BY <2>1, <2>2, <2>4 DEF CacheInv
  <2> QED BY <2>3, <2>4
<1>2. CASE ~None
  <2>1. doing # "none" /\ UNCHANGED <<att, cache, written>>
    BY <1>2 DEF Software, Boot, Fetch, Return, Crank, Select, Word, Wait, Latch, AttenSet, Board
  <2>2. timeouts = 0
    BY <1>0, <1>2, <1>a DEF Software, Boot, Fetch, Return, Crank, Select, Word, Wait, Latch,
                            AttenSet
  <2> QED BY <2>1, <2>2 DEF BusInv, CacheInv
<1> QED BY <1>1, <1>2

LEMMA BusStep == BusInv /\ [BoardsNext]_boardVars => BusInv'
<1>1. ASSUME BusInv, Software \/ \E a \in Attenuators, steps \in Steps : AttenSet(a, steps)
      PROVE  BusInv'
  <2>1. doing' \in {"boot", "idle", "next", "select", "word", "wait", "latch", "none"}
    BY <1>1 DEF Software, Boot, Fetch, Return, Crank, Select, Word, Wait, Latch, None, AttenSet
  <2> QED BY <1>1, <2>1, ReadStep, CallerKeepsOrder, CallerKeepsCache DEF BusInv, BoardsNext
<1>2. ASSUME BusInv, NEW b \in Buses, Complete(b) PROVE BusInv'
  BY <1>2, HardwareKeeps, HardwareKeepsOrder DEF BusInv, Complete, Caller
<1>3. ASSUME BusInv, BoardsRestart PROVE BusInv'
  BY <1>3, RestartKeeps DEF BusInv, BoardsRestart, OrderInv, CacheInv, Buses
<1>4. ASSUME BusInv, UNCHANGED boardVars PROVE BusInv'
  <2>1. ReadInv'
    BY <1>4, ReadStep DEF BusInv
  <2> QED BY <1>4, <2>1 DEF boardVars, BusInv, OrderInv, CacheInv, AsksAmi, Expander
<1> QED BY <1>1, <1>2, <1>3, <1>4 DEF BoardsNext

\* Without a time-out an attenuator that was written attenuates by what is
\* published, whatever is read and set in between, and after any restart.
THEOREM CacheStaysInForce == BoardsSpec => []CacheIsInForce
<1>1. BusInv => CacheIsInForce
  BY DEF BusInv, CacheInv, CacheIsInForce
<1> QED BY BusStart, BusStep, <1>1, PTL DEF BoardsSpec

\* Without a time-out no device hears a word that is not its own.
THEOREM OneListens == BoardsSpec => []OneListener
<1>1. BusInv => OneListener
  <2> SUFFICES ASSUME BusInv, timeouts = 0 PROVE OneListener
    BY DEF OneListener
  <2> QED BY DEF BusInv, ReadInv, CallInv, OrderInv, OneListener, Expander, AsksAmi, BusIdle
<1> QED BY BusStart, BusStep, <1>1, PTL DEF BoardsSpec

-----------------------------------------------------------------------------
(* The order in which the tiles are visited.                               *)

Passes == {"down", "zero", "up"}
Visit == [pass : Passes, tile : Tiles]
PassOver(name, tiles) == [i \in DOMAIN tiles |-> [pass |-> name, tile |-> tiles[i]]]
Downwards == Below \o Above \o <<Ref>>
Upwards == <<Ref>> \o Reverse(Below) \o Reverse(Above)
DownVisits == PassOver("down", Downwards)
ZeroVisit == PassOver("zero", <<0>>)
UpVisits == PassOver("up", Upwards)

\* Where a pass comes by as its n-th tile.
DownTile(n) == IF n <= Ref THEN n - 1 ELSE IF n < N THEN N - (n - Ref) ELSE Ref
UpTile(n) == IF n = 1 THEN Ref ELSE IF n <= Ref + 1 THEN Ref - (n - 1) ELSE n - 1

LEMMA TilesNumbers == N \in Nat /\ Ref \in Nat /\ Ref > 0 /\ Ref < N /\ 0 \in Tiles /\ Ref \in Tiles
BY TilesAssumption DEF Tiles

LEMMA DownwardsAre ==
    Downwards \in Seq(Tiles) /\ Len(Downwards) = N /\ \A n \in 1..N : Downwards[n] = DownTile(n)
<1>1. /\ Below \in Seq(Tiles) /\ Len(Below) = Ref /\ \A n \in 1..Ref : Below[n] = n - 1
  BY TilesNumbers DEF Below, Tiles
<1> DEFINE a == N - 1 - Ref
<1>2. a \in Nat /\ Ref + a + 1 = N
  BY TilesNumbers
<1>3. Above \in Seq(Tiles) /\ Len(Above) = a /\ \A n \in 1..a : Above[n] = N - n
  BY TilesNumbers, <1>2 DEF Above, Tiles
<1> HIDE DEF a
<1>4. <<Ref>> \in Seq(Tiles) /\ Len(<<Ref>>) = 1 /\ <<Ref>>[1] = Ref
  BY TilesNumbers
<1>5. /\ Below \o Above \in Seq(Tiles) /\ Len(Below \o Above) = Ref + a
      /\ \A n \in 1..(Ref + a) : (Below \o Above)[n] = IF n <= Ref THEN n - 1 ELSE N - (n - Ref)
  <2>1. /\ Below \o Above \in Seq(Tiles) /\ Len(Below \o Above) = Ref + a
        /\ \A n \in 1..(Ref + a) : (Below \o Above)[n] = IF n <= Ref THEN Below[n] ELSE Above[n - Ref]
    BY <1>1, <1>3, ConcatProperties
  <2>2. ASSUME NEW n \in 1..(Ref + a) PROVE IF n <= Ref THEN n \in 1..Ref ELSE n - Ref \in 1..a
    BY TilesNumbers, <1>2
  <2> QED BY <1>1, <1>3, <2>1, <2>2
<1>6. /\ Downwards \in Seq(Tiles) /\ Len(Downwards) = N
      /\ \A n \in 1..N : Downwards[n] = IF n <= Ref + a THEN (Below \o Above)[n] ELSE <<Ref>>[n - (Ref + a)]
  BY <1>2, <1>4, <1>5, ConcatProperties DEF Downwards
<1>7. ASSUME NEW n \in 1..N PROVE Downwards[n] = DownTile(n)
  <2>1. CASE n <= Ref + a
    <3>1. n \in 1..(Ref + a) /\ n < N
      BY TilesNumbers, <1>2, <2>1
    <3> QED BY <1>5, <1>6, <2>1, <3>1 DEF DownTile
  <2>2. CASE ~(n <= Ref + a)
    <3>1. n = N /\ n - (Ref + a) = 1 /\ ~(n <= Ref) /\ ~(n < N)
      BY TilesNumbers, <1>2, <2>2
    <3> QED BY <1>4, <1>6, <2>2, <3>1 DEF DownTile
  <2> QED BY <2>1, <2>2
<1> QED BY <1>6, <1>7

LEMMA UpwardsAre ==
    Upwards \in Seq(Tiles) /\ Len(Upwards) = N /\ \A n \in 1..N : Upwards[n] = UpTile(n)
<1> DEFINE a == N - 1 - Ref
<1>2. a \in Nat /\ 1 + Ref + a = N
  BY TilesNumbers
<1>1. /\ Reverse(Below) \in Seq(Tiles) /\ Len(Reverse(Below)) = Ref /\ \A n \in 1..Ref : Reverse(Below)[n] = Ref - n
  <2>1. Len(Below) = Ref /\ Reverse(Below) = [n \in 1..Ref |-> Below[(Ref - n) + 1]]
    BY TilesNumbers DEF Below, Reverse
  <2>2. ASSUME NEW n \in 1..Ref PROVE Below[(Ref - n) + 1] = Ref - n /\ Ref - n \in Tiles
    BY TilesNumbers DEF Below, Tiles
  <2> QED BY TilesNumbers, <2>1, <2>2
<1>3. Reverse(Above) \in Seq(Tiles) /\ Len(Reverse(Above)) = a /\ \A n \in 1..a : Reverse(Above)[n] = Ref + n
  <2>1. Len(Above) = a /\ Reverse(Above) = [n \in 1..a |-> Above[(a - n) + 1]]
    BY TilesNumbers, <1>2 DEF Above, Reverse
  <2>2. ASSUME NEW n \in 1..a PROVE Above[(a - n) + 1] = Ref + n /\ Ref + n \in Tiles
    BY TilesNumbers DEF Above, Tiles
  <2> QED BY TilesNumbers, <1>2, <2>1, <2>2
<1> HIDE DEF a
<1>4. <<Ref>> \in Seq(Tiles) /\ Len(<<Ref>>) = 1 /\ <<Ref>>[1] = Ref
  BY TilesNumbers
<1>5. /\ <<Ref>> \o Reverse(Below) \in Seq(Tiles) /\ Len(<<Ref>> \o Reverse(Below)) = 1 + Ref
      /\ \A n \in 1..(1 + Ref) : (<<Ref>> \o Reverse(Below))[n] = IF n <= 1 THEN Ref ELSE Ref - (n - 1)
  <2>1. /\ <<Ref>> \o Reverse(Below) \in Seq(Tiles) /\ Len(<<Ref>> \o Reverse(Below)) = 1 + Ref
        /\ \A n \in 1..(1 + Ref) : (<<Ref>> \o Reverse(Below))[n] = IF n <= 1 THEN <<Ref>>[n] ELSE Reverse(Below)[n - 1]
    BY <1>1, <1>4, ConcatProperties
  <2>2. ASSUME NEW n \in 1..(1 + Ref) PROVE IF n <= 1 THEN n = 1 ELSE n - 1 \in 1..Ref
    BY TilesNumbers
  <2> QED BY <1>1, <1>4, <2>1, <2>2
<1>6. /\ Upwards \in Seq(Tiles) /\ Len(Upwards) = N
      /\ \A n \in 1..N : Upwards[n] = IF n <= 1 + Ref THEN (<<Ref>> \o Reverse(Below))[n] ELSE Reverse(Above)[n - (1 + Ref)]
  <2>1. Upwards = (<<Ref>> \o Reverse(Below)) \o Reverse(Above)
    BY DEF Upwards
  <2>2. <<Ref>> \o Reverse(Below) \in Seq(Tiles) /\ Len(<<Ref>> \o Reverse(Below)) = 1 + Ref /\ Reverse(Above) \in Seq(Tiles) /\ Len(Reverse(Above)) = a
    BY <1>3, <1>5
  <2>3. /\ (<<Ref>> \o Reverse(Below)) \o Reverse(Above) \in Seq(Tiles) /\ Len((<<Ref>> \o Reverse(Below)) \o Reverse(Above)) = Len((<<Ref>> \o Reverse(Below))) + Len(Reverse(Above))
        /\ \A i \in 1..(Len((<<Ref>> \o Reverse(Below))) + Len(Reverse(Above))) :
               ((<<Ref>> \o Reverse(Below)) \o Reverse(Above))[i] = IF i <= Len((<<Ref>> \o Reverse(Below))) THEN (<<Ref>> \o Reverse(Below))[i] ELSE Reverse(Above)[i - Len((<<Ref>> \o Reverse(Below)))]
    BY <2>2, ConcatProperties
  <2> QED BY <1>2, <2>1, <2>2, <2>3
<1>7. ASSUME NEW n \in 1..N PROVE Upwards[n] = UpTile(n)
  <2>1. CASE n <= 1 + Ref
    <3>1. n \in 1..(1 + Ref) /\ (n <= 1 <=> n = 1) /\ n <= Ref + 1
      BY TilesNumbers, <2>1
    <3> QED BY <1>5, <1>6, <2>1, <3>1 DEF UpTile
  <2>2. CASE ~(n <= 1 + Ref)
    <3>1. n - (1 + Ref) \in 1..a /\ Ref + (n - (1 + Ref)) = n - 1 /\ n # 1 /\ ~(n <= Ref + 1)
      BY TilesNumbers, <1>2, <2>2
    <3> QED BY <1>3, <1>6, <2>2, <3>1 DEF UpTile
  <2> QED BY <2>1, <2>2
<1> QED BY <1>6, <1>7

\* All visits: down to the source, tile 0, and up from the source.
LEMMA VisitsAre ==
    /\ Len(Visits) = N + 1 + N
    /\ \A n \in 1..N : Visits[n] = [pass |-> "down", tile |-> DownTile(n)]
    /\ Visits[N + 1] = [pass |-> "zero", tile |-> 0]
    /\ \A n \in 1..N : Visits[N + 1 + n] = [pass |-> "up", tile |-> UpTile(n)]
    /\ \A i \in 1..(N + 1 + N) : Visits[i] \in Visit
<1>0. Visits = DownVisits \o ZeroVisit \o UpVisits
  BY DEF Visits, DownVisits, ZeroVisit, UpVisits, PassOver, Downwards, Upwards
<1>1. DownVisits \in Seq(Visit) /\ Len(DownVisits) = N /\ \A n \in 1..N : DownVisits[n] = [pass |-> "down", tile |-> DownTile(n)]
  BY DownwardsAre, TilesNumbers DEF DownVisits, ZeroVisit, UpVisits, PassOver, Visit, Passes
<1>2. ZeroVisit \in Seq(Visit) /\ Len(ZeroVisit) = 1 /\ ZeroVisit[1] = [pass |-> "zero", tile |-> 0]
  BY TilesNumbers DEF DownVisits, ZeroVisit, UpVisits, PassOver, Visit, Passes
<1>3. UpVisits \in Seq(Visit) /\ Len(UpVisits) = N /\ \A n \in 1..N : UpVisits[n] = [pass |-> "up", tile |-> UpTile(n)]
  BY UpwardsAre, TilesNumbers DEF DownVisits, ZeroVisit, UpVisits, PassOver, Visit, Passes
<1>4. /\ DownVisits \o ZeroVisit \in Seq(Visit) /\ Len(DownVisits \o ZeroVisit) = N + 1
      /\ \A i \in 1..(N + 1) : (DownVisits \o ZeroVisit)[i] = IF i <= N THEN DownVisits[i] ELSE ZeroVisit[i - N]
  <2>1. DownVisits \in Seq(Visit) /\ Len(DownVisits) = N /\ ZeroVisit \in Seq(Visit) /\ Len(ZeroVisit) = 1
    BY <1>1, <1>2
  <2>3. /\ DownVisits \o ZeroVisit \in Seq(Visit) /\ Len(DownVisits \o ZeroVisit) = Len(DownVisits) + Len(ZeroVisit)
        /\ \A i \in 1..(Len(DownVisits) + Len(ZeroVisit)) :
               (DownVisits \o ZeroVisit)[i] = IF i <= Len(DownVisits) THEN DownVisits[i] ELSE ZeroVisit[i - Len(DownVisits)]
    BY <2>1, ConcatProperties
  <2> QED BY <2>1, <2>3
<1>5. /\ Visits \in Seq(Visit) /\ Len(Visits) = N + 1 + N
      /\ \A i \in 1..(N + 1 + N) : Visits[i] = IF i <= N + 1 THEN (DownVisits \o ZeroVisit)[i] ELSE UpVisits[i - (N + 1)]
  <2>1. DownVisits \o ZeroVisit \in Seq(Visit) /\ Len(DownVisits \o ZeroVisit) = N + 1 /\ UpVisits \in Seq(Visit) /\ Len(UpVisits) = N
    BY <1>3, <1>4
  <2>2. Visits = (DownVisits \o ZeroVisit) \o UpVisits
    BY <1>0
  <2>3. /\ (DownVisits \o ZeroVisit) \o UpVisits \in Seq(Visit) /\ Len((DownVisits \o ZeroVisit) \o UpVisits) = Len((DownVisits \o ZeroVisit)) + Len(UpVisits)
        /\ \A i \in 1..(Len((DownVisits \o ZeroVisit)) + Len(UpVisits)) :
               ((DownVisits \o ZeroVisit) \o UpVisits)[i] = IF i <= Len((DownVisits \o ZeroVisit)) THEN (DownVisits \o ZeroVisit)[i] ELSE UpVisits[i - Len((DownVisits \o ZeroVisit))]
    BY <2>1, ConcatProperties
  <2> QED BY <2>1, <2>2, <2>3
<1>6. ASSUME NEW n \in 1..N
      PROVE  /\ Visits[n] = [pass |-> "down", tile |-> DownTile(n)]
             /\ Visits[N + 1 + n] = [pass |-> "up", tile |-> UpTile(n)]
  <2>1. /\ n \in 1..(N + 1 + N) /\ n <= N + 1 /\ n \in 1..(N + 1) /\ n <= N
        /\ N + 1 + n \in 1..(N + 1 + N) /\ ~(N + 1 + n <= N + 1) /\ N + 1 + n - (N + 1) = n
    BY TilesNumbers
  <2>2. Visits[n] = (DownVisits \o ZeroVisit)[n]
    BY <1>5, <2>1
  <2>3. (DownVisits \o ZeroVisit)[n] = DownVisits[n]
    BY <1>4, <2>1
  <2>4. Visits[N + 1 + n] = UpVisits[n]
    <3> DEFINE m == N + 1 + n
    <3>1. m \in 1..(N + 1 + N) /\ ~(m <= N + 1) /\ m - (N + 1) = n
      BY <2>1, TilesNumbers
    <3> HIDE DEF m
    <3>2. Visits[m] = UpVisits[n]
      BY <1>5, <3>1
    <3> QED BY <3>2 DEF m
  <2> QED BY <1>1, <1>3, <2>2, <2>3, <2>4
<1>7. Visits[N + 1] = [pass |-> "zero", tile |-> 0]
  <2>1. N + 1 \in 1..(N + 1 + N) /\ N + 1 \in 1..(N + 1) /\ ~(N + 1 <= N) /\ N + 1 - N = 1
    BY TilesNumbers
  <2> DEFINE m == N + 1
  <2>2. m \in 1..(N + 1 + N) /\ m <= N + 1 /\ m \in 1..(N + 1) /\ ~(m <= N) /\ m - N = 1
    BY <2>1, TilesNumbers
  <2> HIDE DEF m
  <2>3. Visits[m] = (DownVisits \o ZeroVisit)[m] /\ (DownVisits \o ZeroVisit)[m] = ZeroVisit[1]
    BY <1>4, <1>5, <2>2
  <2> QED BY <1>2, <2>3 DEF m
<1>8. \A i \in 1..(N + 1 + N) : Visits[i] \in Visit
  <2>1. \A i \in 1..Len(Visits) : Visits[i] \in Visit
    BY <1>5
  <2> QED BY <1>5, <2>1
<1> QED BY <1>5, <1>6, <1>7, <1>8

\* What the order is good for: every tile is visited on the way down and on the
\* way up, tile 0 in between, and on the way up the source first and every tile
\* after those its clock passes through.
EndsAt == Len(Visits)
Earlier(i, name, t) == \E j \in 1..(i - 1) : Visits[j] = [pass |-> name, tile |-> t]

LEMMA VisitsInOrder ==
    /\ EndsAt \in Nat
    /\ \A t \in Tiles : Earlier(EndsAt + 1, "down", t) /\ Earlier(EndsAt + 1, "up", t)
    /\ \A i \in 1..EndsAt :
        /\ Visits[i] \in Visit
        /\ Visits[i].pass = "zero" => /\ Visits[i].tile = 0
                                       /\ \A j \in 1..(i - 1) : Visits[j].pass = "down"
        /\ Visits[i].pass # "down" => \A t \in Tiles : Earlier(i, "down", t)
        /\ Visits[i].pass = "up" =>
            /\ Earlier(i, "zero", 0)
            /\ \A u \in Path(Visits[i].tile) \ {Visits[i].tile} : Earlier(i, "up", u)
<1>0. EndsAt = N + 1 + N /\ N \in Nat /\ Ref \in Nat /\ EndsAt \in Nat
  BY VisitsAre, TilesNumbers DEF EndsAt
<1>1. ASSUME NEW i \in Nat, i > N, NEW t \in Tiles PROVE Earlier(i, "down", t)
  <2> DEFINE n == IF t < Ref THEN t + 1 ELSE IF t = Ref THEN N ELSE Ref + (N - t)
  <2>1. n \in 1..N /\ DownTile(n) = t /\ n \in 1..(i - 1)
    BY <1>1, TilesNumbers DEF DownTile, Tiles
  <2> HIDE DEF n
  <2> QED BY <2>1, VisitsAre DEF Earlier
<1>2. ASSUME NEW n \in 1..N, NEW t \in Tiles, UpTile(n) = t, NEW i \in Nat, i > N + 1 + n
      PROVE  Earlier(i, "up", t)
  <2> DEFINE j == N + 1 + n
  <2>1. j \in 1..(i - 1)
    BY <1>0, <1>2
  <2>2. Visits[j] = [pass |-> "up", tile |-> t]
    BY <1>2, VisitsAre
  <2> HIDE DEF j
  <2> QED BY <2>1, <2>2 DEF Earlier
<1> DEFINE Place(t) == IF t <= Ref THEN Ref - t + 1 ELSE t + 1
<1>3. ASSUME NEW t \in Tiles PROVE Place(t) \in 1..N /\ UpTile(Place(t)) = t
  BY <1>3, TilesNumbers DEF UpTile, Tiles
<1>4. ASSUME NEW t \in Tiles PROVE Earlier(EndsAt + 1, "up", t)
  <2>1. EndsAt + 1 \in Nat /\ \A n \in 1..N : EndsAt + 1 > N + 1 + n
    BY <1>0
  <2> HIDE DEF Place
  <2> QED BY <1>2, <1>3, <2>1
<1>5. ASSUME NEW n \in 1..N
      PROVE  /\ Earlier(N + 1 + n, "zero", 0)
             /\ UpTile(n) \in Tiles
             /\ \A u \in Path(UpTile(n)) \ {UpTile(n)} : Earlier(N + 1 + n, "up", u)
  <2>1. Earlier(N + 1 + n, "zero", 0)
    <3>1. N + 1 \in 1..((N + 1 + n) - 1)
      BY <1>0
    <3> QED BY <3>1, VisitsAre DEF Earlier
  <2>2. UpTile(n) \in Tiles
    BY TilesNumbers DEF UpTile, Tiles
  <2>3. ASSUME NEW u \in Path(UpTile(n)) \ {UpTile(n)} PROVE Earlier(N + 1 + n, "up", u)
    <3>1. u \in Tiles /\ Place(u) < n
      BY TilesNumbers DEF UpTile, Tiles, Path
    <3>2. Place(u) \in 1..N /\ UpTile(Place(u)) = u /\ N + 1 + n \in Nat /\ N + 1 + n > N + 1 + Place(u)
      BY <1>0, <1>3, <3>1
    <3> HIDE DEF Place
    <3> QED BY <1>2, <3>1, <3>2
  <2> QED BY <2>1, <2>2, <2>3
<1>6. ASSUME NEW n \in 1..N
      PROVE  /\ Visits[n].pass = "down"
             /\ Visits[N + 1 + n].pass = "up" /\ Visits[N + 1 + n].tile = UpTile(n)
  <2>1. /\ Visits[n] = [pass |-> "down", tile |-> DownTile(n)]
        /\ Visits[N + 1 + n] = [pass |-> "up", tile |-> UpTile(n)]
    BY VisitsAre
  <2> QED BY <2>1
<1>8. ASSUME NEW i \in 1..EndsAt
      PROVE  /\ Visits[i] \in Visit
             /\ Visits[i].pass = "zero" => /\ Visits[i].tile = 0
                                            /\ \A j \in 1..(i - 1) : Visits[j].pass = "down"
             /\ Visits[i].pass # "down" => \A t \in Tiles : Earlier(i, "down", t)
             /\ Visits[i].pass = "up" =>
                 /\ Earlier(i, "zero", 0)
                 /\ \A u \in Path(Visits[i].tile) \ {Visits[i].tile} : Earlier(i, "up", u)
  <2>1. Visits[i] \in Visit
    BY <1>0, VisitsAre
  <2>2. CASE i \in 1..N
    <3>1. Visits[i].pass = "down"
      BY <1>6, <2>2
    <3> QED BY <2>1, <3>1
  <2>3. CASE i = N + 1
    <3>1. Visits[i].pass = "zero" /\ Visits[i].tile = 0
      BY <2>3, VisitsAre
    <3>2. i \in Nat /\ i > N /\ 1..(i - 1) = 1..N
      BY <1>0, <2>3
    <3> QED BY <1>1, <1>6, <2>1, <3>1, <3>2
  <2>4. CASE i > N + 1
    <3> DEFINE n == i - (N + 1)
    <3>1. n \in 1..N /\ i = N + 1 + n /\ i \in Nat /\ i > N
      BY <1>0, <2>4
    <3> HIDE DEF n
    <3>2. Visits[i].pass = "up" /\ Visits[i].tile = UpTile(n)
      BY <1>6, <3>1
    <3> QED BY <1>1, <1>5, <2>1, <3>1, <3>2
  <2> QED BY <1>0, <2>2, <2>3, <2>4
<1>7. ASSUME NEW t \in Tiles PROVE Earlier(EndsAt + 1, "down", t)
  <2>1. EndsAt + 1 \in Nat /\ EndsAt + 1 > N
    BY <1>0
  <2> QED BY <1>1, <2>1
<1> QED BY <1>0, <1>4, <1>8, <1>7

-----------------------------------------------------------------------------
(* What the tiles have to be.                                              *)

Targets == {Shutdown, ClkDet, Full}

\* A tile asked on is to be on; what is on has its source, its clock and the
\* bandgap trim; and nothing is up that no tile asked on needs.
LEMMA TargetsAreRight ==
    ASSUME NEW req \in [Tiles -> {0, 1}]
    PROVE  LET ts == TargetState(req)
           IN  /\ ts \in [Tiles -> Targets]
               /\ \A t \in Tiles :
                   /\ req[t] = 1 => ts[t] = Full
                   /\ ts[t] = Full => /\ ts[Ref] = Full /\ ts[0] >= ClkDet
                                      /\ \A u \in Path(t) : ts[u] >= ClkDet
                   /\ ts[t] > Shutdown => \E u \in Tiles :
                          req[u] = 1 /\ (t = 0 \/ t \in Path(u) \cup Path(0))
<1> DEFINE anyOn == \E t \in Tiles : req[t] # 0
           on == {t \in Tiles : req[t] # 0} \cup (IF anyOn THEN {0} ELSE {})
           needed(t) == \E u \in on : t \in Path(u)
           level(t) == IF t \in on \/ (t = Ref /\ needed(t)) THEN Full
                       ELSE IF needed(t) THEN ClkDet ELSE Shutdown
           ts == TargetState(req)
<1>1. ts = [t \in Tiles |-> IF t = 0 /\ anyOn /\ req[0] = 0 THEN ClkDet ELSE level(t)]
  BY DEF TargetState
<1>2. Shutdown = 1 /\ ClkDet = 6 /\ Full = 15
  BY DEF Shutdown, ClkDet, Full
<1>3. /\ anyOn => 0 \in on
      /\ \A t \in Tiles : t \in on <=> (req[t] # 0 \/ (t = 0 /\ anyOn))
      /\ \A t \in on : t \in Tiles /\ anyOn
  BY TilesNumbers
<1>4. \A t \in Tiles : Path(t) \subseteq Tiles /\ t \in Path(t) /\ Ref \in Path(t)
  BY TilesNumbers DEF Path, Tiles
<1>5. Path(Ref) = {Ref} /\ Ref # 0 /\ Ref \in Tiles /\ 0 \in Tiles
  BY TilesNumbers DEF Path
<1> HIDE DEF anyOn, on
<1>6. \A t \in Tiles : (t \in on => needed(t)) /\ (needed(t) => anyOn)
  BY <1>3, <1>4
<1>7. anyOn => needed(Ref)
  BY <1>3, <1>4, <1>5
<1>8. \A t \in on : \A u \in Path(t) : needed(u)
  OBVIOUS
<1>9. \A t \in Tiles : needed(t) => \E u \in Tiles :
          req[u] = 1 /\ (t = 0 \/ t \in Path(u) \cup Path(0))
  <2> SUFFICES ASSUME NEW t \in Tiles, needed(t)
      PROVE \E u \in Tiles : req[u] = 1 /\ (t = 0 \/ t \in Path(u) \cup Path(0))
    OBVIOUS
  <2>1. PICK v \in on : t \in Path(v)
    OBVIOUS
  <2>2. CASE req[v] # 0
    <3>1. v \in Tiles /\ req[v] = 1
      BY <1>3, <2>2
    <3> QED BY <2>1, <3>1
  <2>3. CASE req[v] = 0
    <3>1. v = 0
      BY <1>3, <2>3
    <3>2. \E u \in Tiles : req[u] = 1
      BY <1>3 DEF anyOn
    <3> QED BY <2>1, <3>1, <3>2
  <2> QED BY <2>2, <2>3
<1> HIDE DEF needed
<1>10. \A t \in Tiles : level(t) \in Targets /\ (needed(t) <=> level(t) # Shutdown)
       /\ (level(t) = Full <=> t \in on \/ (t = Ref /\ needed(t)))
  BY <1>2, <1>6 DEF Targets
<1> HIDE DEF level, ts
<1>11. \A t \in Tiles : ts[t] = IF t = 0 /\ anyOn /\ req[0] = 0 THEN ClkDet ELSE level(t)
  BY <1>1
<1>12. ts \in [Tiles -> Targets]
  BY <1>1, <1>10 DEF Targets
<1>13. ASSUME NEW t \in Tiles, needed(t) PROVE ts[t] >= ClkDet
  <2>1. level(t) \in {ClkDet, Full}
    BY <1>10, <1>13 DEF Targets
  <2> QED BY <1>2, <1>11, <2>1
<1>14. ASSUME NEW t \in Tiles, req[t] = 1 PROVE ts[t] = Full
  <2>1. t \in on /\ ~(t = 0 /\ anyOn /\ req[0] = 0)
    BY <1>3, <1>14
  <2> QED BY <1>10, <1>11, <2>1
<1>15. ASSUME NEW t \in Tiles, ts[t] = Full
       PROVE  ts[Ref] = Full /\ ts[0] >= ClkDet /\ \A u \in Path(t) : ts[u] >= ClkDet
  <2>1. level(t) = Full
    BY <1>2, <1>11, <1>15
  <2>2. t \in on \/ (t = Ref /\ needed(t))
    BY <1>10, <2>1
  <2>3. anyOn /\ needed(Ref) /\ needed(0)
    BY <1>3, <1>5, <1>6, <1>7, <2>2
  <2>4. ts[Ref] = Full
    BY <1>5, <1>10, <1>11, <2>3
  <2>5. \A u \in Path(t) : u \in Tiles /\ needed(u)
    BY <1>4, <1>5, <1>8, <2>2
  <2> QED BY <1>5, <1>13, <2>3, <2>4, <2>5
<1>16. ASSUME NEW t \in Tiles, ts[t] > Shutdown
       PROVE  \E u \in Tiles : req[u] = 1 /\ (t = 0 \/ t \in Path(u) \cup Path(0))
  <2>1. CASE t = 0 /\ anyOn
    <3>1. PICK u \in Tiles : req[u] # 0
      BY <2>1 DEF anyOn
    <3> QED BY <2>1, <3>1
  <2>2. CASE ~(t = 0 /\ anyOn)
    <3>1. level(t) # Shutdown
      BY <1>2, <1>11, <1>16, <2>2
    <3> QED BY <1>9, <1>10, <3>1
  <2> QED BY <2>1, <2>2
<1> QED BY <1>12, <1>14, <1>15, <1>16 DEF ts

-----------------------------------------------------------------------------
(* A command at work: what it has visited is as it has to be.              *)

Answers == {Unknown, 0, 1}
TilesType ==
    /\ power \in [Tiles -> States] /\ request \in [Tiles -> Answers]
    /\ asked \in [Tiles -> Answers] /\ saved \in [Tiles -> Answers]
    /\ failures \in Nat /\ visit \in Nat
    /\ tilePc \in {"idle", "apply", "decide", "resync", "mts", "sync"}
    /\ then \in {"idle", "decide", "mts"}

\* While the tiles are visited, those visited need no more.
OnTheWay ==
    tilePc = "apply" =>
        /\ request \in [Tiles -> {0, 1}] /\ target = TargetState(request) /\ visit > 0
        /\ \A j \in 1..(visit - 1) : j \in 1..EndsAt => ~Needed(Visits[j])

\* After them all tiles are as the requests ask for.
Settled ==
    tilePc = "decide" \/ (tilePc = "idle" /\ ok = "yes") =>
        request \in [Tiles -> {0, 1}] /\ power = TargetState(request)

\* What a synchronisation will put back is known.
SavedIsKnown ==
    tilePc \in {"mts", "sync"} \/ (tilePc = "apply" /\ then = "mts") =>
        saved \in [Tiles -> {0, 1}]

\* As long as no call failed the user's requests are in force or kept, and the
\* capture of SYSREF is on for a synchronisation only.
UserAsks == [t \in Tiles |-> IF asked[t] = Unknown THEN 1 ELSE asked[t]]
Traceless ==
    failures = 0 =>
        /\ tilePc # "sync" => sysref = 0
        /\ tilePc \in {"idle", "decide"} \/ (tilePc = "apply" /\ then \in {"idle", "decide"}) =>
               request = UserAsks
        /\ tilePc \in {"mts", "sync"} \/ (tilePc = "apply" /\ then = "mts") => saved = UserAsks
        /\ tilePc = "resync" =>
               \/ request = UserAsks
               \/ /\ \A t \in Tiles : power[t] = Full /\ request[t] = Unknown
                  /\ UserAsks = [t \in Tiles |-> 1]

TilesInv == TilesType /\ OnTheWay /\ Settled /\ SavedIsKnown /\ Traceless

LEMMA Levels == Shutdown = 1 /\ PwrUp = 3 /\ ClkDet = 6 /\ Cal = 13 /\ Full = 15 /\ Unknown = -1
BY DEF Shutdown, PwrUp, ClkDet, Cal, Full, Unknown

LEMMA KnownIs ==
    ASSUME request \in [Tiles -> Answers]
    PROVE  /\ Known \in [Tiles -> {0, 1}]
           /\ request \in [Tiles -> {0, 1}] => Known = request
           /\ (\A t \in Tiles : power[t] = Full /\ request[t] = Unknown) => Known = [t \in Tiles |-> 1]
<1>1. Unknown \notin {0, 1}
  BY Levels
<1>2. ASSUME NEW t \in Tiles PROVE Known[t] \in {0, 1} /\ (request[t] \in {0, 1} => Known[t] = request[t])
  BY <1>1 DEF Known, Answers
<1>3. Known = [t \in Tiles |-> Known[t]]
  BY DEF Known
<1>4. ASSUME request \in [Tiles -> {0, 1}] PROVE Known = request
  BY <1>2, <1>3, <1>4
<1>5. ASSUME \A t \in Tiles : power[t] = Full /\ request[t] = Unknown PROVE Known = [t \in Tiles |-> 1]
  BY <1>5 DEF Known
<1> QED BY <1>2, <1>3, <1>4, <1>5

\* A call for the tiles starts with nothing visited.
LEMMA StartsOnTheWay ==
    ASSUME NEW req \in [Tiles -> {0, 1}], NEW after, ChangeTilePwrRaw(req, after)
    PROVE  OnTheWay' /\ Settled' /\ request' = req /\ tilePc' = "apply" /\ then' = after /\ visit' = 1
BY DEF ChangeTilePwrRaw, OnTheWay, Settled

\* A visit that succeeds makes the tile what the visit wants, one that fails
\* never more than that; other tiles are left alone.
LEMMA VisitOfTile ==
    ASSUME power \in [Tiles -> States], failures \in Nat, NEW t \in Tiles, NEW level \in Targets,
           tilePc = "apply", ChangeTileState(t, level)
    PROVE  /\ power' \in [Tiles -> States]
           /\ \/ /\ power' = [power EXCEPT ![t] = level]
                 /\ tilePc' = "apply" /\ UNCHANGED failures
              \/ /\ tilePc' = "idle" /\ ok' = "no" /\ failures' \in Nat /\ failures' > 0
                 /\ \A u \in Tiles : power'[u] = Full => power[u] = Full
<1> DEFINE drops == level = Shutdown \/ (level = ClkDet /\ power[t] > ClkDet)
           low == IF drops THEN Shutdown ELSE power[t]
<1>1. Targets \subseteq States /\ level \in States /\ \A s \in States : s \in Int /\ s <= Full
  BY Levels DEF Targets, States
<1>2. low \in States /\ (low = Full => power[t] = Full)
  BY Levels DEF States
<1>3. CASE power' = [power EXCEPT ![t] = level] /\ UNCHANGED <<tilePc, failures, ok>>
  BY <1>1, <1>3
<1>4. CASE /\ TileCallFails
           /\ \/ UNCHANGED power
              \/ power' = [power EXCEPT ![t] = low]
              \/ \E s \in States : s < level /\ power' = [power EXCEPT ![t] = s]
  <2> HIDE DEF low
  <2>1. tilePc' = "idle" /\ ok' = "no" /\ failures' \in Nat /\ failures' > 0
    BY <1>4 DEF TileCallFails
  <2>2. \/ power' = power
        \/ \E s \in States : (s = Full => power[t] = Full) /\ power' = [power EXCEPT ![t] = s]
    BY <1>1, <1>2, <1>4
  <2>3. power' \in [Tiles -> States] /\ \A u \in Tiles : power'[u] = Full => power[u] = Full
    BY <2>2
  <2> QED BY <2>1, <2>3
<1>5. \/ power' = [power EXCEPT ![t] = level] /\ UNCHANGED <<tilePc, failures, ok>>
      \/ /\ TileCallFails
         /\ \/ UNCHANGED power
            \/ power' = [power EXCEPT ![t] = low]
            \/ \E s \in States : s < level /\ power' = [power EXCEPT ![t] = s]
  BY DEF ChangeTileState
<1> QED BY <1>3, <1>4, <1>5

LEMMA TilesStart == TilesInit => TilesInv
<1> SUFFICES ASSUME TilesInit PROVE TilesInv
  OBVIOUS
<1>1. TilesType
  BY DEF TilesInit, TilesType, States, Answers
<1>2. OnTheWay /\ Settled /\ SavedIsKnown
  BY DEF TilesInit, OnTheWay, Settled, SavedIsKnown
<1>3. Traceless
  BY DEF TilesInit, Traceless, UserAsks
<1> QED BY <1>1, <1>2, <1>3 DEF TilesInv

\* One visit of rfDCApplyTileStates.
LEMMA ApplyStep ==
    ASSUME TilesInv, ApplyTileStates
    PROVE  TilesInv'
<1> USE DEF TilesInv
<1>1. PICK i \in visit..Len(Visits) :
        /\ Needed(Visits[i]) /\ \A j \in visit..(i - 1) : ~Needed(Visits[j])
        /\ visit' = i + 1
        /\ ChangeTileState(Visits[i].tile, Level(Visits[i]))
  BY DEF ApplyTileStates
<1> DEFINE v == Visits[i]
           t == v.tile
<1>2. /\ i \in Nat /\ visit \in Nat /\ visit > 0 /\ i \in 1..EndsAt /\ v \in Visit /\ t \in Tiles
      /\ target = TargetState(request) /\ target \in [Tiles -> Targets] /\ tilePc = "apply"
      /\ UNCHANGED <<request, sysref, then, target, saved, asked>>
      /\ failures \in Nat /\ power \in [Tiles -> States]
  <2>1. tilePc = "apply" /\ UNCHANGED <<request, sysref, then, target, saved, asked>>
    BY DEF ApplyTileStates
  <2>2. visit > 0 /\ visit \in Nat /\ request \in [Tiles -> {0, 1}] /\ target = TargetState(request)
    BY <2>1 DEF OnTheWay, TilesType
  <2>3. i \in Nat /\ i \in 1..EndsAt
    BY <2>2, VisitsInOrder DEF EndsAt
  <2>4. v \in Visit
    BY <2>3, VisitsInOrder
  <2>5. t \in Tiles
    BY <2>4 DEF Visit
  <2>6. target \in [Tiles -> Targets]
    BY <2>2, TargetsAreRight
  <2> QED BY <2>1, <2>2, <2>3, <2>4, <2>5, <2>6 DEF TilesType
<1>3. Level(v) \in Targets /\ (Level(v) = target[t] \/ (v.pass = "zero" /\ Level(v) = ClkDet))
  BY <1>2 DEF Level, Targets
<1>4. /\ power' \in [Tiles -> States]
      /\ \/ /\ power' = [power EXCEPT ![t] = Level(v)]
            /\ tilePc' = "apply" /\ UNCHANGED failures
         \/ /\ tilePc' = "idle" /\ ok' = "no" /\ failures' \in Nat /\ failures' > 0
            /\ \A u \in Tiles : power'[u] = Full => power[u] = Full
  BY <1>1, <1>2, <1>3, VisitOfTile
<1> HIDE DEF t
<1>5. TilesType'
  BY <1>1, <1>2, <1>4 DEF TilesType
<1>6. CASE tilePc' = "idle" /\ ok' = "no" /\ failures' > 0
  BY <1>2, <1>5, <1>6 DEF OnTheWay, Settled, SavedIsKnown, Traceless
<1>7. CASE power' = [power EXCEPT ![t] = Level(v)] /\ tilePc' = "apply" /\ UNCHANGED failures
  <2>1. ASSUME NEW j \in 1..i, j \in 1..EndsAt PROVE ~Needed(Visits[j])'
    <3>0. PICK w \in Visit : w = Visits[j]
      BY <2>1, VisitsInOrder
    <3> SUFFICES ~Needed(w)'
      BY <3>0
    <3>1. w.pass = "zero" => w.tile = 0
      BY <2>1, <3>0, VisitsInOrder
    <3>2. w.tile \in Tiles /\ w.pass \in Passes
      BY DEF Visit
    <3>6. Needed(w)' <=> \/ w.pass = "down" /\ target'[w.tile] < power'[w.tile]
                         \/ w.pass = "zero" /\ target'[0] > Shutdown /\ power'[0] < ClkDet
                         \/ w.pass = "up" /\ target'[w.tile] > power'[w.tile]
      BY <3>2 DEF Needed, Passes
    <3>3. CASE w.tile # t
      <4>1. j # i /\ j < i
        BY <1>2, <2>1, <3>0, <3>3 DEF t
      <4>2. ~Needed(w)
        BY <1>1, <1>2, <2>1, <3>0, <4>1 DEF OnTheWay
      <4>3. power'[w.tile] = power[w.tile]
        BY <1>7, <1>2, <3>2, <3>3
      <4> QED BY <1>2, <3>1, <3>2, <4>2, <4>3 DEF Needed, Passes
    <3>4. CASE w.tile = t
      <4>1. power'[t] = Level(v) /\ target[t] \in Targets
        BY <1>2, <1>7
      <4>2. CASE Level(v) = target[t]
        <5>1. power'[t] \in Targets /\ target'[t] = power'[t] /\ power'[t] \in Int
          BY <1>2, <4>1, <4>2, Levels DEF Targets
        <5>2. power'[t] > Shutdown => ~(power'[t] < ClkDet)
          BY <5>1, Levels DEF Targets
        <5>3. w.pass = "zero" => t = 0
          BY <3>1, <3>4
        <5> QED BY <3>4, <3>6, <5>1, <5>2, <5>3
      <4>3. CASE v.pass = "zero" /\ Level(v) = ClkDet
        <5>1. target[t] >= ClkDet /\ t = 0
          BY <1>1, <1>2, <4>1, <4>3, VisitsInOrder, Levels DEF Needed, Targets, t
        <5>2. w.pass = "down" \/ (w.pass = "zero" /\ j = i)
          <6>1. j \in 1..(i - 1) \/ j = i
            BY <1>2, <2>1
          <6> QED BY <1>2, <3>0, <4>3, <6>1, VisitsInOrder
        <5>3. target[t] \in Int /\ power'[t] = ClkDet /\ target' = target
          BY <1>2, <4>1, <4>3, Levels DEF Targets
        <5> QED BY <3>4, <3>6, <5>1, <5>2, <5>3, Levels
      <4> QED BY <1>3, <4>2, <4>3
    <3> QED BY <3>0, <3>3, <3>4
  <2>2. visit' - 1 = i /\ visit' > 0
    BY <1>1, <1>2
  <2>3. OnTheWay'
    BY <1>2, <2>1, <2>2 DEF OnTheWay
  <2>4. Settled' /\ SavedIsKnown' /\ Traceless'
    BY <1>2, <1>7 DEF Settled, SavedIsKnown, Traceless, UserAsks
  <2> QED BY <1>5, <2>3, <2>4
<1> QED BY <1>4, <1>6, <1>7

LEMMA NeededIs ==
    ASSUME NEW t
    PROVE  /\ Needed([pass |-> "down", tile |-> t]) <=> target[t] < power[t]
           /\ Needed([pass |-> "zero", tile |-> t]) <=> target[0] > Shutdown /\ power[0] < ClkDet
           /\ Needed([pass |-> "up", tile |-> t]) <=> target[t] > power[t]
BY DEF Needed

\* The tiles are done: all are as they have to be.
LEMMA AllVisited ==
    ASSUME TilesInv, Applied
    PROVE  power = target
<1>1. /\ tilePc = "apply" /\ \A i \in visit..Len(Visits) : ~Needed(Visits[i])
      /\ visit > 0 /\ visit \in Nat /\ target = TargetState(request) /\ request \in [Tiles -> {0, 1}]
      /\ \A j \in 1..(visit - 1) : j \in 1..EndsAt => ~Needed(Visits[j])
      /\ power \in [Tiles -> States]
  BY DEF Applied, TilesInv, OnTheWay, TilesType
<1>2. target \in [Tiles -> Targets]
  BY <1>1, TargetsAreRight
<1>3. ASSUME NEW j \in 1..EndsAt PROVE ~Needed(Visits[j])
  <2>1. EndsAt \in Nat /\ EndsAt = Len(Visits)
    BY VisitsInOrder DEF EndsAt
  <2>2. j \in 1..(visit - 1) \/ j \in visit..Len(Visits)
    BY <1>1, <2>1
  <2> QED BY <1>1, <2>2
<1>4. ASSUME NEW t \in Tiles PROVE power[t] = target[t]
  <2>1. EndsAt \in Nat /\ (EndsAt + 1) - 1 = EndsAt
    BY VisitsInOrder
  <2>2. PICK i \in 1..EndsAt : Visits[i] = [pass |-> "down", tile |-> t]
    BY <2>1, VisitsInOrder DEF Earlier
  <2>3. PICK j \in 1..EndsAt : Visits[j] = [pass |-> "up", tile |-> t]
    BY <2>1, VisitsInOrder DEF Earlier
  <2>4. ~(target[t] < power[t])
    BY <1>3, <2>2, NeededIs
  <2>5. ~(target[t] > power[t])
    BY <1>3, <2>3, NeededIs
  <2>6. target[t] \in Int /\ power[t] \in Int
    BY <1>1, <1>2, Levels DEF Targets, States
  <2> QED BY <2>4, <2>5, <2>6
<1> QED BY <1>1, <1>2, <1>4

LEMMA TilesStep == TilesInv /\ [TilesNext]_tileVars => TilesInv'
<1> SUFFICES ASSUME TilesInv, [TilesNext]_tileVars PROVE TilesInv'
  OBVIOUS
<1>0. TilesType /\ OnTheWay /\ Settled /\ SavedIsKnown /\ Traceless /\ failures \in Nat
  BY DEF TilesInv, TilesType
<1>1. /\ Known \in [Tiles -> {0, 1}] /\ Known \in [Tiles -> Answers]
      /\ request \in [Tiles -> {0, 1}] => Known = request
      /\ (\A t \in Tiles : power[t] = Full /\ request[t] = Unknown) => Known = [t \in Tiles |-> 1]
  BY <1>0, KnownIs DEF TilesType, Answers
<1>2. ASSUME NEW f \in [Tiles -> {0, 1}] PROVE f \in [Tiles -> Answers]
  BY DEF Answers
<1>3. 0 \in Tiles /\ Unknown \notin {0, 1}
  BY TilesNumbers, Levels
<1>4. ASSUME NEW t \in Tiles, NEW on \in {0, 1}, SetShutdownMode(t, on) PROVE TilesInv'
  <2> DEFINE req == [Known EXCEPT ![t] = on]
  <2>1. req \in [Tiles -> {0, 1}]
    BY <1>1
  <2> HIDE DEF req
  <2>2. /\ tilePc = "idle" /\ asked' = [asked EXCEPT ![t] = on] /\ ok' = "yes"
        /\ ChangeTilePwrRaw(req, "decide") /\ UNCHANGED <<power, sysref, saved, failures>>
    BY <1>4 DEF SetShutdownMode, req
  <2>3. OnTheWay' /\ Settled' /\ request' = req /\ tilePc' = "apply" /\ then' = "decide" /\ visit' = 1
    BY <2>1, <2>2, StartsOnTheWay
  <2>4. TilesType'
    BY <1>0, <1>2, <2>1, <2>2, <2>3 DEF TilesType, Answers
  <2>5. Traceless'
    <3> SUFFICES ASSUME failures = 0 PROVE sysref = 0 /\ req = UserAsks'
      BY <2>2, <2>3 DEF Traceless
    <3>1. sysref = 0 /\ request = UserAsks
      BY <1>0, <2>2 DEF Traceless
    <3>2. UserAsks \in [Tiles -> {0, 1}]
      BY <1>0, <1>3 DEF UserAsks, TilesType, Answers
    <3>3. req = [UserAsks EXCEPT ![t] = on]
      BY <1>1, <3>1, <3>2 DEF req
    <3>4. UserAsks' = [UserAsks EXCEPT ![t] = on]
      BY <1>0, <1>3, <2>2 DEF UserAsks, TilesType
    <3> QED BY <3>1, <3>3, <3>4
  <2>6. SavedIsKnown'
    BY <2>3 DEF SavedIsKnown
  <2> QED BY <2>3, <2>4, <2>5, <2>6 DEF TilesInv
<1>5. CASE ApplyTileStates
  BY <1>5, ApplyStep
<1>6. CASE Applied
  <2>1. power = target /\ tilePc = "apply" /\ tilePc' = then
        /\ UNCHANGED <<power, request, sysref, then, visit, target, saved, asked, failures, ok>>
    BY <1>6, AllVisited DEF Applied
  <2>2. TilesType' /\ OnTheWay'
    BY <1>0, <2>1 DEF TilesType, OnTheWay
  <2>3. Settled'
    BY <1>0, <2>1 DEF Settled, OnTheWay
  <2>4. Traceless'
    BY <1>0, <2>1 DEF Traceless, UserAsks, TilesType
  <2>5. SavedIsKnown'
    BY <1>0, <2>1 DEF SavedIsKnown, TilesType
  <2> QED BY <2>2, <2>3, <2>4, <2>5 DEF TilesInv
<1>7. ASSUME SyncType, asked' = asked, power' = power, failures' \in Nat,
             failures' = 0 => failures = 0 /\ tilePc \in {"decide", "resync"} /\ sysref' = 0
      PROVE  TilesInv'
  <2> DEFINE req == [Known EXCEPT ![0] = 1]
  <2>1. req \in [Tiles -> {0, 1}]
    BY <1>1
  <2> HIDE DEF req
  <2>2. saved' = Known /\ ChangeTilePwrRaw(req, "mts")
    BY <1>7 DEF SyncType, req
  <2>3. OnTheWay' /\ Settled' /\ request' = req /\ tilePc' = "apply" /\ then' = "mts" /\ visit' = 1
    BY <2>1, <2>2, StartsOnTheWay
  <2>4. TilesType' /\ SavedIsKnown'
    BY <1>0, <1>1, <1>2, <1>7, <2>1, <2>2, <2>3 DEF TilesType, SavedIsKnown
  <2>5. Traceless'
    <3> SUFFICES ASSUME failures' = 0 PROVE sysref' = 0 /\ Known = UserAsks'
      BY <2>2, <2>3 DEF Traceless
    <3>1. UserAsks' = UserAsks /\ UserAsks \in [Tiles -> {0, 1}]
      BY <1>0, <1>3, <1>7 DEF UserAsks, TilesType, Answers
    <3>2. request = UserAsks => Known = UserAsks
      BY <1>1, <3>1
    <3> QED BY <1>0, <1>1, <1>7, <3>1, <3>2 DEF Traceless
  <2> QED BY <2>3, <2>4, <2>5 DEF TilesInv
<1>8. CASE Decide
  <2>1. tilePc = "decide" /\ UNCHANGED <<power, sysref, asked, failures>>
    BY <1>8 DEF Decide
  <2>2. failures = 0 => sysref = 0 /\ request = UserAsks
    BY <1>0, <2>1 DEF Traceless
  <2>3. CASE SyncType
    BY <1>0, <1>7, <2>1, <2>2, <2>3
  <2>4. CASE tilePc' = "idle" /\ UNCHANGED <<request, target, visit, then, saved>>
    BY <1>0, <2>1, <2>2, <2>4
       DEF TilesInv, TilesType, OnTheWay, Settled, SavedIsKnown, Traceless, UserAsks
  <2> QED BY <1>8, <2>3, <2>4 DEF Decide
<1>9. CASE Resync
  <2>1. /\ tilePc = "resync" /\ SyncType /\ UNCHANGED <<power, asked>>
        /\ \/ sysref' = 0 /\ failures' = failures
           \/ failures' = failures + 1
    BY <1>9 DEF Resync
  <2>2. failures' \in Nat /\ (failures' = 0 => failures = 0 /\ sysref' = 0)
    BY <1>0, <2>1
  <2> QED BY <1>7, <2>1, <2>2
<1>10. CASE TilesRestart \/ SyncRequest
  <2>1. /\ tilePc = "idle" /\ tilePc' = "resync"
        /\ UNCHANGED <<request, sysref, then, visit, saved, asked>>
    BY <1>10 DEF TilesRestart, SyncRequest
  <2>2. power' \in [Tiles -> States] /\ failures' \in Nat /\ (failures' = 0 => failures = 0)
    <3>1. Full \in States
      BY DEF States
    <3> QED BY <1>0, <1>10, <3>1 DEF TilesRestart, SyncRequest, TilesType
  <2>3. TilesType' /\ OnTheWay' /\ Settled' /\ SavedIsKnown'
    BY <1>0, <2>1, <2>2 DEF TilesType, OnTheWay, Settled, SavedIsKnown
  <2>4. Traceless'
    BY <1>0, <2>1, <2>2 DEF Traceless, UserAsks
  <2> QED BY <2>3, <2>4 DEF TilesInv
<1>11. CASE Mts
  <2>1. /\ tilePc = "mts" /\ UNCHANGED <<power, request, then, visit, saved, asked>>
        /\ \/ sysref' = 1 /\ tilePc' = "sync" /\ failures' = failures
           \/ tilePc' = "idle" /\ ok' = "no" /\ failures' = failures + 1
    BY <1>11 DEF Mts, TileCallFails
  <2>2. failures' \in Nat /\ (failures' = 0 => failures = 0 /\ tilePc' = "sync")
    BY <1>0, <2>1
  <2>3. TilesType' /\ OnTheWay' /\ Settled' /\ SavedIsKnown'
    BY <1>0, <2>1, <2>2 DEF TilesType, OnTheWay, Settled, SavedIsKnown
  <2>4. Traceless'
    BY <1>0, <2>1, <2>2 DEF Traceless, UserAsks
  <2> QED BY <2>3, <2>4 DEF TilesInv
<1>12. CASE Synced
  <2>0. tilePc = "sync" /\ UNCHANGED <<power, saved, asked>> /\ saved \in [Tiles -> {0, 1}]
    BY <1>0, <1>12 DEF Synced, SavedIsKnown
  <2>1. CASE sysref' = 0 /\ ChangeTilePwrRaw(saved, "idle") /\ UNCHANGED <<failures, ok>>
    <3>1. OnTheWay' /\ Settled' /\ request' = saved /\ tilePc' = "apply" /\ then' = "idle" /\ visit' = 1
      BY <2>0, <2>1, StartsOnTheWay
    <3>2. TilesType' /\ SavedIsKnown'
      BY <1>0, <1>2, <2>0, <2>1, <3>1 DEF TilesType, SavedIsKnown
    <3>3. Traceless'
      BY <1>0, <2>0, <2>1, <3>1 DEF Traceless, UserAsks
    <3> QED BY <3>1, <3>2, <3>3 DEF TilesInv
  <2>2. CASE TileCallFails /\ UNCHANGED <<sysref, request, target, visit, then>>
    <3>1. tilePc' = "idle" /\ ok' = "no" /\ failures' \in Nat /\ failures' # 0
      BY <1>0, <2>2 DEF TileCallFails
    <3> QED BY <1>0, <2>0, <2>2, <3>1
            DEF TilesInv, TilesType, OnTheWay, Settled, SavedIsKnown, Traceless
  <2> QED BY <1>12, <2>1, <2>2 DEF Synced
<1>13. CASE UNCHANGED tileVars
  BY <1>0, <1>13 DEF tileVars, TilesInv, TilesType, OnTheWay, Settled, SavedIsKnown, Traceless,
     UserAsks, Needed
<1> QED BY <1>4, <1>5, <1>6, <1>8, <1>9, <1>10, <1>11, <1>12, <1>13 DEF TilesNext

\* After a command without a failed call every tile is as the requests ask for,
\* whatever the command found: what was asked on is on, what is on has its clock
\* and its trim, and nothing else is up.
THEOREM TilesRestRight == TilesSpec => []RestIsRight
<1>1. TilesInv => RestIsRight
  <2> SUFFICES ASSUME TilesInv, tilePc = "idle", ok = "yes", NEW t \in Tiles
      PROVE  /\ request[t] = 1 => power[t] = Full
             /\ power[t] = Full =>
                 /\ power[Ref] = Full /\ power[0] >= ClkDet
                 /\ \A u \in Path(t) : power[u] >= ClkDet
             /\ power[t] > Shutdown => \E u \in Tiles :
                    request[u] = 1 /\ (t = 0 \/ t \in Path(u) \cup Path(0))
             /\ ReportedMode(t).forced # "off"
    BY DEF RestIsRight
  <2>1. request \in [Tiles -> {0, 1}] /\ power = TargetState(request)
    BY DEF TilesInv, Settled
  <2>2. /\ request[t] = 1 => power[t] = Full
        /\ power[t] = Full => /\ power[Ref] = Full /\ power[0] >= ClkDet
                              /\ \A u \in Path(t) : power[u] >= ClkDet
        /\ power[t] > Shutdown => \E u \in Tiles :
               request[u] = 1 /\ (t = 0 \/ t \in Path(u) \cup Path(0))
    BY <2>1, TargetsAreRight
  <2>3. Known = request
    BY <2>1, KnownIs DEF TilesInv, TilesType
  <2>4. ReportedMode(t).forced # "off"
    BY <2>2, <2>3, Levels DEF ReportedMode
  <2> QED BY <2>2, <2>4
<1> QED BY TilesStart, TilesStep, <1>1, PTL DEF TilesSpec

\* A synchronisation, which turns tile 0 on for its time, leaves the requests
\* as the user made them and SYSREF off, as long as no call of the driver fails.
THEOREM NoTraceOfSync == TilesSpec => []SyncLeavesNoTrace
<1>1. TilesInv => SyncLeavesNoTrace
  BY DEF TilesInv, Traceless, UserAsks, SyncLeavesNoTrace
<1> QED BY TilesStart, TilesStep, <1>1, PTL DEF TilesSpec

\* A tile comes fully on only after everything it depends on, in every command
\* and whatever an earlier one that failed half way has left.
THEOREM TilesPowerInOrder == TilesSpec => PoweredInOrder
<1> DEFINE InOrder ==
        tilePc = "apply" => \A t \in Tiles : power[t] # Full /\ power'[t] = Full =>
          /\ power[0] >= ClkDet
          /\ \A u \in Path(t) \ {t} : power[u] >= ClkDet
          /\ t # Ref => power[Ref] = Full
<1>1. TilesInv /\ [TilesNext]_tileVars => [InOrder]_tileVars
  <2> SUFFICES ASSUME TilesInv, TilesNext, tilePc = "apply",
                      NEW t \in Tiles, power[t] # Full, power'[t] = Full
      PROVE  /\ power[0] >= ClkDet
             /\ \A u \in Path(t) \ {t} : power[u] >= ClkDet
             /\ t # Ref => power[Ref] = Full
    OBVIOUS
  <2>1. ApplyTileStates
    BY DEF TilesNext, SetShutdownMode, Applied, Decide, TilesRestart, SyncRequest, Resync, Mts, Synced
  <2>2. PICK i \in visit..Len(Visits) :
          /\ Needed(Visits[i]) /\ \A j \in visit..(i - 1) : ~Needed(Visits[j])
          /\ ChangeTileState(Visits[i].tile, Level(Visits[i]))
    BY <2>1 DEF ApplyTileStates
  <2>3. /\ visit \in Nat /\ visit > 0 /\ power \in [Tiles -> States] /\ failures \in Nat
        /\ request \in [Tiles -> {0, 1}] /\ target = TargetState(request)
        /\ \A j \in 1..(visit - 1) : j \in 1..EndsAt => ~Needed(Visits[j])
    BY DEF TilesInv, OnTheWay, TilesType
  <2>4. i \in 1..EndsAt /\ \A j \in 1..(i - 1) : ~Needed(Visits[j])
    <3>1. EndsAt \in Nat /\ EndsAt = Len(Visits)
      BY VisitsInOrder DEF EndsAt
    <3>2. \A j \in 1..(i - 1) : (j \in 1..(visit - 1) /\ j \in 1..EndsAt) \/ j \in visit..(i - 1)
      BY <2>3, <3>1
    <3> QED BY <2>2, <2>3, <3>1, <3>2
  <2>5. PICK v \in Visit : v = Visits[i]
    BY <2>4, VisitsInOrder
  <2>6. target \in [Tiles -> Targets] /\ v.tile \in Tiles /\ v.pass \in Passes
    BY <2>3, TargetsAreRight DEF Visit
  <2>7. Level(v) \in Targets
    BY <2>6 DEF Level, Targets
  <2>8. power' = [power EXCEPT ![v.tile] = Level(v)]
    BY <2>2, <2>3, <2>5, <2>6, <2>7, VisitOfTile
  <2>9. t = v.tile /\ Level(v) = Full
    BY <2>3, <2>6, <2>8
  <2>10. v.pass = "up" /\ target[t] = Full
    <3>1. v.pass # "zero" /\ target[t] = Full
      BY <2>9, Levels DEF Level
    <3>2. ~(target[t] < power[t])
      BY <2>3, <3>1, Levels DEF States
    <3> QED BY <2>2, <2>5, <2>6, <2>9, <3>1, <3>2 DEF Needed, Passes
  <2>11. target[Ref] = Full /\ target[0] >= ClkDet /\ \A u \in Path(t) : target[u] >= ClkDet
    BY <2>3, <2>10, TargetsAreRight
  <2>12. power[0] >= ClkDet
    <3>1. PICK j \in 1..(i - 1) : Visits[j] = [pass |-> "zero", tile |-> 0]
      BY <2>4, <2>5, <2>10, VisitsInOrder DEF Earlier
    <3>2. ~(target[0] > Shutdown /\ power[0] < ClkDet)
      BY <2>4, <3>1, NeededIs
    <3>3. target[0] \in Int /\ power[0] \in Int
      BY <2>3, <2>6, TilesNumbers, Levels DEF Targets, States
    <3> QED BY <2>11, <3>2, <3>3, Levels
  <2>13. ASSUME NEW u \in Path(t) \ {t} PROVE u \in Tiles /\ power[u] >= target[u]
    <3>1. u \in Tiles
      BY TilesNumbers DEF Path, Tiles
    <3>2. PICK j \in 1..(i - 1) : Visits[j] = [pass |-> "up", tile |-> u]
      BY <2>4, <2>5, <2>9, <2>10, VisitsInOrder DEF Earlier
    <3>3. ~(target[u] > power[u])
      BY <2>4, <3>2, NeededIs
    <3>4. target[u] \in Int /\ power[u] \in Int
      BY <2>3, <2>6, <3>1, Levels DEF Targets, States
    <3> QED BY <3>1, <3>3, <3>4
  <2>14. ASSUME NEW u \in Path(t) \ {t} PROVE power[u] >= ClkDet
    <3>1. target[u] \in Int /\ power[u] \in Int
      BY <2>3, <2>6, <2>13, Levels DEF Targets, States
    <3> QED BY <2>11, <2>13, <3>1, Levels
  <2>15. t # Ref => power[Ref] = Full
    <3>1. t # Ref => Ref \in Path(t) \ {t}
      BY TilesNumbers DEF Path, Tiles
    <3>2. power[Ref] \in States
      BY <2>3, TilesNumbers
    <3> QED BY <2>11, <2>13, <3>1, <3>2, Levels DEF States
  <2> QED BY <2>12, <2>14, <2>15
<1>2. TilesSpec => []TilesInv
  BY TilesStart, TilesStep, PTL DEF TilesSpec
<1> QED BY <1>1, <1>2, PTL DEF TilesSpec, PoweredInOrder

-----------------------------------------------------------------------------
(* The gain trims.                                                         *)

\* The buffer holds only what the processor wrote.
BufferIsPs == buffer \in [Channels -> {<<"ps", n>> : n \in Nat}] /\ sets \in Nat

\* A computation that began with the mode OFF finds its tones not active and
\* has deactivated the trims before it comes to an end.
OffIsInactive ==
  mode = "OFF" =>
    /\ state \in {"START_DIVIDE", "FINISH_DIVIDE", "FILTER", "FINISH"} => status # "ACTIVE"
    /\ state \in {"FINISH_DIVIDE", "FILTER", "FINISH"} => active # "yes"

OffInv == BufferIsPs /\ OffIsInactive

LEMMA InitOff == Init => OffInv
<1>1. ASSUME Init PROVE BufferIsPs
  BY <1>1 DEF Init, BufferIsPs, FromPs
<1>2. ASSUME Init PROVE OffIsInactive
  BY <1>2 DEF Init, OffIsInactive
<1> QED BY <1>1, <1>2 DEF OffInv

\* The processor's part of a clock keeps its buffer its own.
LEMMA WritesStayPs ==
  ASSUME BufferIsPs, NoWrite \/ WriteCsr \/ WriteGain
  PROVE  BufferIsPs'
<1>1. CASE NoWrite \/ WriteCsr
  BY <1>1 DEF NoWrite, processor, WriteCsr, BufferIsPs
<1>2. CASE WriteGain
  <2>1. sets' \in Nat
    BY <1>2 DEF WriteGain, BufferIsPs
  <2>2. FromPs(sets') \in {<<"ps", n>> : n \in Nat}
    BY <2>1 DEF FromPs
  <2> QED BY <1>2, <2>1, <2>2 DEF WriteGain, BufferIsPs
<1> QED BY <1>1, <1>2

\* The state machine's part of a clock keeps an OFF computation inactive.
LEMMA MachineStaysInactive ==
  ASSUME OffIsInactive, Machine
  PROVE  OffIsInactive'
<1>1. CASE Idle
  BY <1>1 DEF Idle, OffIsInactive
<1>2. CASE MinMax
  BY <1>2 DEF MinMax, OffIsInactive
<1>3. CASE Check
  <2>1. mode = "OFF" => status' = "OFF"
    BY <1>3 DEF Check, Verdict
  <2> QED BY <1>3, <2>1 DEF Check, OffIsInactive
<1>4. CASE StartDivide
  <2>1. mode = "OFF" => status # "ACTIVE"
    BY <1>4 DEF StartDivide, OffIsInactive
  <2>2. mode = "OFF" => active' = "no"
    BY <1>4, <2>1 DEF StartDivide
  <2> QED BY <1>4, <2>1, <2>2 DEF StartDivide, OffIsInactive
<1>5. CASE FinishDivide
  BY <1>5 DEF FinishDivide, OffIsInactive
<1>6. CASE ToFilter
  BY <1>6 DEF ToFilter, OffIsInactive
<1>7. CASE Finish
  BY <1>7 DEF Finish, OffIsInactive
<1> QED BY <1>1, <1>2, <1>3, <1>4, <1>5, <1>6, <1>7 DEF Machine

LEMMA NextOff == OffInv /\ [Next]_vars => OffInv'
<1>1. ASSUME OffInv, Next PROVE OffInv'
  BY <1>1, WritesStayPs, MachineStaysInactive DEF OffInv, Next
<1>2. ASSUME OffInv, UNCHANGED vars PROVE OffInv'
  BY <1>2 DEF OffInv, BufferIsPs, OffIsInactive, vars, processor, machine
<1> QED BY <1>1, <1>2

(* With the mode OFF and trims active until then, a computation under way  *)
(* or begun later never replaces the gains: they change only to a set that *)
(* the processor has completed.                                            *)
THEOREM GainsAreLeft == Spec => OffLeavesGains
<1> DEFINE Left == mode = "OFF" /\ gains' # gains => gains'[0][1] = "ps"
<1>1. ASSUME OffInv, Next PROVE Left
  <2> SUFFICES ASSUME mode = "OFF", gains' # gains PROVE gains'[0][1] = "ps"
    OBVIOUS
  <2>1. gains' = StaticGains
    <3>1. CASE Finish
      BY <1>1, <3>1 DEF Finish, OffInv, OffIsInactive
    <3>2. CASE Idle \/ MinMax \/ Check \/ StartDivide
      BY <3>2 DEF Idle, MinMax, Check, StartDivide
    <3>3. CASE FinishDivide \/ ToFilter
      BY <3>3 DEF FinishDivide, ToFilter
    <3> QED BY <1>1, <3>1, <3>2, <3>3 DEF Next, Machine
  <2>2. gains' = buffer'
    BY <2>1 DEF StaticGains
  <2>3. BufferIsPs'
    BY <1>1, WritesStayPs DEF Next, OffInv
  <2>4. 0 \in Channels
    BY AutotrimAssumption DEF Channels
  <2>5. PICK n \in Nat : buffer'[0] = <<"ps", n>>
    BY <2>3, <2>4 DEF BufferIsPs
  <2> QED BY <2>2, <2>5
<1>2. ASSUME OffInv, UNCHANGED vars PROVE Left
  BY <1>2 DEF vars
<1>3. OffInv /\ [Next]_vars => Left
  BY <1>1, <1>2
<1>4. Spec => []OffInv
  BY InitOff, NextOff, PTL DEF Spec
<1>5. OffInv /\ [Next]_vars => [Left]_vars
  BY <1>3
<1> QED BY <1>4, <1>5, PTL DEF Spec, OffLeavesGains
-----------------------------------------------------------------------------
(* The gains are one set: what has to hold at every clock for it.  The     *)
(* state machine has gone idle again before the next measurement comes, so *)
(* all it computes is of the one measurement that started it.              *)

Share == DivideClocks + 2
Upto(n) == n * Share
TrimClocks == 7 + Upto(LastChannel + 1)
New == ptMatch # Bit(measured)
LoopStates == {"IDLE", "MINMAX_1", "MINMAX_2", "CHECK", "START_DIVIDE", "FINISH_DIVIDE",
           "FILTER", "FINISH"}
AnyGain == {"ps", "trim", "partial"} \X Nat
Surroundings == MeasurePilotTones \/ MeasureRf \/ MeasureNothing

TrimTypes ==
  /\ measured \in Nat /\ rf \in Nat /\ since \in 0..Period /\ busy \in Nat /\ dividing \in Nat
  /\ channel \in Channels /\ next \in Channels /\ sets \in Nat
  /\ state \in LoopStates /\ trims \in [Channels -> AnyGain] /\ buffer \in [Channels -> AnyGain]
  /\ active \in YesNo /\ enable \in YesNo /\ filterDone \in YesNo

\* Where the state machine can be so many clocks after the measurement.
InTime ==
  /\ state = "MINMAX_1" => since = 1
  /\ state = "MINMAX_2" => since = 2
  /\ state = "CHECK" => since = 3
  /\ state = "START_DIVIDE" => since > 3 /\ since <= 4 + Upto(channel)
  /\ state = "FINISH_DIVIDE" => since > 3 /\ since + busy <= 3 + Upto(channel + 1)
  /\ state = "FILTER" => since > 3 /\ since + 3 <= TrimClocks
  /\ state = "FINISH" =>
       /\ since > 3 /\ since + 1 <= TrimClocks
       /\ filterDone = "no" => since + 2 <= TrimClocks

NewIsIdle == New => state = "IDLE" /\ since = 0 /\ measured > 0

DividerRests ==
  /\ start = (IF state = "START_DIVIDE" THEN 1 ELSE 0)
  /\ state # "FINISH_DIVIDE" => busy = 0

FilterRests ==
  /\ enable = "yes" => state = "FINISH" /\ filterDone = "no" /\ active = "yes"
  /\ filterDone = "yes" => state = "FINISH"

RfInTime == rf = measured \/ (rf + 1 = measured /\ since <= RfLatest)

\* What is computed with is of the measurement that is there.
TrimsAreOwn ==
  /\ state = "FINISH_DIVIDE" => dividing = measured
  /\ state \in {"START_DIVIDE", "FINISH_DIVIDE"} =>
       \A c \in Channels : c < channel => trims[c] = FromTrim(measured)
  /\ state = "FILTER" => \A c \in Channels : trims[c] = FromTrim(measured)
  /\ state = "FINISH" /\ active = "yes" =>
       /\ filterDone = "no" =>
            enable = "yes" /\ \A c \in Channels : filterIn[c] = FromTrim(measured)
       /\ filterDone = "yes" => \A c \in Channels : filterOut[c] = FromTrim(measured)

\* The processor's set, as far as it is written.
BufferIsOneSet == \A c \in Channels : c < next => buffer[c] = FromPs(sets)

OneSet ==
  \E n \in Nat : \/ \A c \in Channels : gains[c] = FromPs(n)
                 \/ \A c \in Channels : gains[c] = FromTrim(n)

TrimInv ==
  /\ TrimTypes /\ InTime /\ RfInTime /\ NewIsIdle /\ DividerRests /\ FilterRests
  /\ TrimsAreOwn /\ BufferIsOneSet /\ OneSet /\ OffIsInactive

\* The channels divide their time: so much for each, and all in time.
LEMMA UptoFacts ==
  /\ Share \in Nat /\ Share = DivideClocks + 2 /\ Upto(0) = 0 /\ TrimClocks \in Nat
  /\ TrimClocks < Period
  /\ \A c \in Channels : /\ Upto(c) \in Nat /\ Upto(c + 1) = Upto(c) + Share
                         /\ Upto(c + 1) + 7 <= TrimClocks
<1>1. Share \in Nat /\ LastChannel \in Nat /\ DivideClocks \in Nat
  BY AutotrimAssumption DEF Share
<1>2. ASSUME NEW c \in Channels
      PROVE  Upto(c) \in Nat /\ Upto(c + 1) = Upto(c) + Share /\ Upto(c + 1) + 7 <= TrimClocks
  <2>1. c \in Nat /\ c <= LastChannel
    BY <1>1 DEF Channels
  <2>2. c * Share \in Nat /\ (c + 1) * Share = c * Share + Share
    BY <1>1, <2>1
  <2> DEFINE d == LastChannel - c
  <2>3. d \in Nat /\ LastChannel + 1 = (c + 1) + d
    BY <1>1, <2>1
  <2> HIDE DEF d
  <2>4. ((c + 1) + d) * Share = (c + 1) * Share + d * Share /\ d * Share \in Nat
    BY <1>1, <2>1, <2>3
  <2>5. TrimClocks = 7 + (Upto(c + 1) + d * Share)
    BY <2>3, <2>4 DEF Upto, TrimClocks
  <2>6. Upto(c) \in Nat /\ Upto(c + 1) = Upto(c) + Share
    BY <2>2 DEF Upto
  <2>7. ASSUME NEW x \in Nat, NEW y \in Nat PROVE x + 7 <= 7 + (x + y)
    OBVIOUS
  <2> QED BY <1>1, <2>4, <2>5, <2>6, <2>7
<1>3. (LastChannel + 1) * Share \in Nat /\ 0 * Share = 0
  BY <1>1
<1>4. TrimClocks < Period
  BY <1>1, AutotrimAssumption DEF TrimClocks, Upto, Share
<1> QED BY <1>1, <1>2, <1>3, <1>4 DEF Upto, TrimClocks, Share

\* No measurement comes while the state machine computes.
LEMMA OneMeasurement ==
  ASSUME TrimTypes, InTime, state # "IDLE", Surroundings, Compare
  PROVE  measured' = measured /\ since' = since + 1 /\ ~New' /\ since < Period /\ since' \in Nat
<1>1. since < Period /\ since \in Nat /\ Period \in Nat /\ measured \in Nat
  <2>1. Upto(channel) \in Nat /\ Upto(channel + 1) + 7 <= TrimClocks
        /\ Upto(channel + 1) = Upto(channel) + Share
    BY UptoFacts DEF TrimTypes
  <2>2. since <= TrimClocks
    BY <2>1, UptoFacts DEF InTime, TrimTypes, LoopStates
  <2> QED BY <2>2, UptoFacts, AutotrimAssumption DEF TrimTypes
<1>2. measured' = measured /\ since' = since + 1
  BY <1>1 DEF Surroundings, MeasurePilotTones, MeasureRf, MeasureNothing
<1> QED BY <1>1, <1>2 DEF Compare, New

\* The surroundings in any state.
LEMMA SurroundingsStep ==
  ASSUME TrimTypes, RfInTime, NewIsIdle, Surroundings, Compare
  PROVE  /\ measured' \in Nat /\ rf' \in Nat /\ since' \in 0..Period /\ RfInTime'
         /\ New' => /\ since = Period /\ ~New /\ since' = 0 /\ measured' = measured + 1
                    /\ rf' = rf
         /\ ~New' => measured' = measured /\ since' > 0
<1>1. Period \in Nat \ {0} /\ RfLatest \in Nat /\ Period > RfLatest + 1
  BY AutotrimAssumption
<1>2. CASE MeasurePilotTones
  <2>1. measured' = measured + 1 /\ since' = 0 /\ since = Period /\ ptMatch' = Bit(measured)
        /\ rf' = rf
    BY <1>2 DEF MeasurePilotTones, Compare
  <2>2. Bit(measured + 1) # Bit(measured)
    BY DEF Bit, TrimTypes
  <2>3. rf = measured
    BY <1>1, <2>1 DEF RfInTime, TrimTypes
  <2> QED BY <1>1, <2>1, <2>2, <2>3 DEF TrimTypes, New, NewIsIdle, RfInTime
<1>3. CASE MeasureRf \/ MeasureNothing
  <2>1. measured' = measured /\ ptMatch' = Bit(measured) /\ rf' \in {rf, measured}
    BY <1>3 DEF MeasureRf, MeasureNothing, Compare
  <2>2. since' \in 1..Period
    BY <1>1, <1>3 DEF MeasureRf, MeasureNothing, TrimTypes, RfInTime
  <2>3. RfInTime'
    <3>1. CASE MeasureRf
      BY <2>1, <3>1 DEF MeasureRf, RfInTime
    <3>2. CASE MeasureNothing /\ rf + 1 = measured /\ rf # measured
      <4>1. since <= RfLatest /\ since # RfLatest /\ rf' = rf /\ since' = since + 1
        BY <1>1, <3>2 DEF MeasureNothing, RfInTime, TrimTypes
      <4> QED BY <1>1, <2>1, <3>2, <4>1 DEF RfInTime, TrimTypes
    <3>3. CASE MeasureNothing /\ rf = measured
      BY <2>1, <3>3 DEF MeasureNothing, RfInTime
    <3> QED BY <1>3, <3>1, <3>2, <3>3 DEF RfInTime
  <2> QED BY <1>1, <2>1, <2>2, <2>3 DEF TrimTypes, New
<1> QED BY <1>2, <1>3 DEF Surroundings

LEMMA InitTrim == Init => TrimInv
<1> SUFFICES ASSUME Init PROVE TrimInv
  OBVIOUS
<1>1. 0 \in Channels /\ 0 \in 0..Period /\ \A c \in Channels : c \in Nat
  BY AutotrimAssumption DEF Channels
<1>2. TrimTypes
  <2>1. FromPs(0) \in AnyGain
    BY DEF FromPs, AnyGain
  <2> QED BY <1>1, <2>1 DEF Init, TrimTypes, LoopStates, YesNo
<1>3. ~New
  BY DEF Init, New, Bit
<1>4. BufferIsOneSet /\ OneSet
  BY <1>1 DEF Init, BufferIsOneSet, OneSet
<1>5. InTime /\ RfInTime /\ NewIsIdle /\ DividerRests /\ FilterRests /\ TrimsAreOwn
  BY <1>3 DEF Init, InTime, RfInTime, NewIsIdle, DividerRests, FilterRests, TrimsAreOwn
<1> QED BY <1>2, <1>4, <1>5, InitOff DEF TrimInv, OffInv

\* The processor's part of a clock: its buffer, and the set it completes.
LEMMA ProcessorStep ==
  ASSUME TrimTypes, BufferIsOneSet, NoWrite \/ WriteCsr \/ WriteGain
  PROVE  /\ sets' \in Nat /\ next' \in Channels /\ buffer' \in [Channels -> AnyGain]
         /\ BufferIsOneSet'
         /\ SetTaken => \A c \in Channels : buffer'[c] = FromPs(sets')
<1>1. LastChannel \in Nat \ {0} /\ \A c \in Channels : c \in Nat /\ c <= LastChannel
  BY AutotrimAssumption DEF Channels
<1>2. CASE NoWrite \/ WriteCsr
  BY <1>2 DEF NoWrite, processor, WriteCsr, TrimTypes, BufferIsOneSet, SetTaken
<1>3. CASE WriteGain
  <2>1. sets' \in Nat /\ next \in Channels /\ (next # 0 => sets' = sets)
    BY <1>3 DEF WriteGain, TrimTypes
  <2>2. next' \in Channels /\ (next = LastChannel => next' = 0) /\ (next # LastChannel => next' = next + 1)
    BY <1>1, <1>3, <2>1 DEF WriteGain, Channels
  <2>3. FromPs(sets') \in AnyGain
    BY <2>1 DEF FromPs, AnyGain
  <2>4. buffer' \in [Channels -> AnyGain]
    BY <1>3, <2>1, <2>3 DEF WriteGain, TrimTypes
  <2>5. ASSUME NEW c \in Channels, c <= next PROVE buffer'[c] = FromPs(sets')
    <3>1. CASE c = next
      BY <1>3, <2>1, <3>1 DEF WriteGain, TrimTypes
    <3>2. CASE c # next
      <4>1. c < next /\ next # 0
        BY <1>1, <2>1, <2>5, <3>2
      <4> QED BY <1>3, <2>1, <3>2, <4>1 DEF WriteGain, TrimTypes, BufferIsOneSet
    <3> QED BY <3>1, <3>2
  <2>6. ASSUME NEW c \in Channels, c < next' PROVE c <= next
    BY <1>1, <2>1, <2>2, <2>6
  <2> QED BY <1>1, <2>1, <2>2, <2>4, <2>5, <2>6 DEF BufferIsOneSet, SetTaken
<1> QED BY <1>2, <1>3

\* The typing of the state machine's part.
LEMMA MachineTypes ==
  ASSUME TrimTypes, Machine, Divide
  PROVE  /\ channel' \in Channels /\ state' \in LoopStates /\ trims' \in [Channels -> AnyGain]
         /\ active' \in YesNo /\ enable' \in YesNo
         /\ busy' \in Nat
<1>1. LastChannel \in Nat /\ DivideClocks \in Nat /\ 0 \in Channels
  BY AutotrimAssumption DEF Channels
<1>2. busy' \in Nat
  BY <1>1 DEF Divide, TrimTypes
<1>3. CASE Idle \/ MinMax \/ Check
  BY <1>1, <1>2, <1>3 DEF Idle, MinMax, Check, TrimTypes, LoopStates
<1>4. CASE StartDivide
  <2>1. active' \in {active, "yes", "no"}
    BY <1>4 DEF StartDivide
  <2> QED BY <1>2, <1>4, <2>1 DEF StartDivide, TrimTypes, LoopStates, YesNo
<1>5. CASE FinishDivide
  <2>1. Quotient \in AnyGain
    BY DEF Quotient, FromTrim, Partial, AnyGain, TrimTypes
  <2>2. channel' \in Channels
    BY <1>1, <1>5 DEF FinishDivide, TrimTypes, Channels
  <2>3. trims' \in [Channels -> AnyGain]
    BY <1>5, <2>1 DEF FinishDivide, TrimTypes
  <2> QED BY <1>2, <1>5, <2>2, <2>3 DEF FinishDivide, TrimTypes, LoopStates
<1>6. CASE ToFilter \/ Finish
  BY <1>2, <1>6 DEF ToFilter, Finish, TrimTypes, LoopStates, YesNo
<1> QED BY <1>3, <1>4, <1>5, <1>6 DEF Machine

LEMMA TypesStep == TrimInv /\ Next => TrimTypes'
<1> SUFFICES ASSUME TrimInv, Next PROVE TrimTypes'
  OBVIOUS
<1>1. TrimTypes /\ Surroundings /\ Compare /\ Divide /\ Machine /\ Filter
  BY DEF TrimInv, Next, Surroundings
<1>2. measured' \in Nat /\ rf' \in Nat /\ since' \in 0..Period
  BY <1>1, SurroundingsStep DEF TrimInv
<1>3. sets' \in Nat /\ next' \in Channels /\ buffer' \in [Channels -> AnyGain]
  BY ProcessorStep DEF TrimInv, Next
<1>4. dividing' \in Nat /\ filterDone' \in YesNo
  BY <1>1 DEF Divide, Filter, TrimTypes
<1> QED BY <1>1, <1>2, <1>3, <1>4, MachineTypes DEF TrimTypes

\* No clock finds the state machine later than it may be.
LEMMA InTimeStep == TrimInv /\ Next => InTime'
<1> SUFFICES ASSUME TrimInv, Next PROVE InTime'
  OBVIOUS
<1> USE DEF TrimInv
<1>1. /\ Surroundings /\ Compare /\ Divide /\ Machine /\ Filter
      /\ LastChannel \in Nat /\ Period \in Nat \ {0} /\ DivideClocks \in Nat
      /\ since \in Nat /\ busy \in Nat
  BY AutotrimAssumption DEF Next, Surroundings, TrimTypes
<1>2. /\ Upto(0) = 0 /\ Upto(channel) \in Nat /\ Share = DivideClocks + 2 /\ TrimClocks \in Nat
      /\ Upto(channel + 1) = Upto(channel) + Share
      /\ Upto(LastChannel + 1) = TrimClocks - 7
  <2>1. LastChannel \in Channels /\ channel \in Channels
    BY AutotrimAssumption DEF Channels, TrimTypes
  <2>2. Upto(LastChannel + 1) \in Nat
    BY <2>1, UptoFacts, <1>1
  <2> QED BY <2>1, <2>2, UptoFacts DEF TrimClocks
<1>3. state # "IDLE" => since' = since + 1
  BY <1>1, OneMeasurement
<1>4. CASE Idle
  <2>1. state' = "MINMAX_1" => since = 0
    BY <1>4 DEF Idle, NewIsIdle, New
  <2>2. since = 0 => since' = 1
    BY <1>1, <2>1 DEF Surroundings, MeasurePilotTones, MeasureRf, MeasureNothing
  <2> QED BY <1>4, <2>1, <2>2 DEF Idle, InTime
<1>5. CASE MinMax
  BY <1>3, <1>5 DEF MinMax, InTime
<1>6. CASE Check
  BY <1>2, <1>3, <1>6 DEF Check, InTime
<1>7. CASE StartDivide
  <2>1. busy' <= DivideClocks
    BY <1>1, <1>7 DEF StartDivide, Divide, DividerRests
  <2>2. since + 1 > 3 /\ (since + 1) + busy' <= 3 + (Upto(channel) + Share)
    <3>1. since > 3 /\ since <= 4 + Upto(channel)
      BY <1>7 DEF StartDivide, InTime
    <3>2. busy' \in Nat
      BY <1>1, MachineTypes
    <3>3. ASSUME NEW x \in Nat, x = Upto(channel) PROVE (since + 1) + busy' <= 3 + (x + Share)
      BY <1>1, <1>2, <2>1, <3>1, <3>2, <3>3
    <3> QED BY <1>1, <1>2, <3>1, <3>3
  <2>3. channel' = channel /\ state' = "FINISH_DIVIDE" /\ since' = since + 1
    BY <1>3, <1>7 DEF StartDivide
  <2> QED BY <1>2, <2>2, <2>3 DEF InTime
<1>8. CASE FinishDivide
  <2>1. since > 3 /\ since + busy <= 3 + Upto(channel + 1) /\ since' = since + 1 /\ since' > 3
    BY <1>1, <1>3, <1>8 DEF FinishDivide, InTime
  <2>2. CASE busy > 0
    <3>1. busy' = busy - 1 /\ since' + busy' = since + busy
      BY <1>1, <1>8, <2>1, <2>2 DEF Divide, FinishDivide
    <3>2. state' = "FINISH_DIVIDE" /\ channel' = channel
      BY <1>8, <2>2 DEF FinishDivide
    <3> QED BY <2>1, <3>1, <3>2 DEF InTime
  <2>3. CASE busy = 0 /\ channel # LastChannel
    <3>1. state' = "START_DIVIDE" /\ channel' = channel + 1
      BY <1>8, <2>3 DEF FinishDivide
    <3>2. Upto(channel + 1) \in Nat
      BY UptoFacts, <1>2
    <3> DEFINE x == Upto(channel + 1)
    <3>3. x \in Nat /\ since <= 3 + x
      BY <1>1, <2>1, <2>3, <3>2
    <3> HIDE DEF x
    <3>4. since' <= 4 + x
      BY <1>1, <2>1, <3>3
    <3> QED BY <2>1, <3>1, <3>4 DEF InTime, x
  <2>4. CASE busy = 0 /\ channel = LastChannel
    <3>1. state' = "FILTER"
      BY <1>8, <2>4 DEF FinishDivide
    <3>2. since <= 3 + (TrimClocks - 7)
      BY <1>1, <1>2, <2>1, <2>4
    <3>3. since' + 3 <= TrimClocks
      BY <1>1, <1>2, <2>1, <3>2
    <3> QED BY <2>1, <3>1, <3>3 DEF InTime
  <2> QED BY <1>1, <2>2, <2>3, <2>4
<1>9. CASE ToFilter
  <2>1. state' = "FINISH" /\ since > 3 /\ since + 3 <= TrimClocks /\ since' = since + 1
    BY <1>3, <1>9 DEF ToFilter, InTime
  <2> QED BY <1>1, <1>2, <2>1 DEF InTime
<1>10. CASE Finish
  <2>1. since > 3 /\ since' = since + 1
    BY <1>3, <1>10 DEF Finish, InTime
  <2>2. CASE active = "yes" /\ filterDone = "no"
    <3>1. state' = "FINISH" /\ since + 2 <= TrimClocks /\ enable = "yes"
      BY <1>10, <2>2 DEF Finish, InTime, TrimsAreOwn
    <3>2. filterDone' = "yes"
      BY <1>1, <3>1 DEF Filter
    <3> QED BY <1>1, <1>2, <2>1, <3>1, <3>2 DEF InTime
  <2>3. CASE ~(active = "yes" /\ filterDone = "no")
    BY <1>10, <2>3 DEF Finish, InTime
  <2> QED BY <2>2, <2>3
<1> QED BY <1>1, <1>4, <1>5, <1>6, <1>7, <1>8, <1>9, <1>10 DEF Machine

\* A new measurement finds the state machine idle, and starts it.
LEMMA NewIsIdleStep == TrimInv /\ Next => NewIsIdle' /\ RfInTime'
<1> SUFFICES ASSUME TrimInv, Next PROVE NewIsIdle' /\ RfInTime'
  OBVIOUS
<1>1. TrimTypes /\ InTime /\ RfInTime /\ NewIsIdle /\ Surroundings /\ Compare /\ Machine
  BY DEF TrimInv, Next, Surroundings
<1>2. RfInTime'
  BY <1>1, SurroundingsStep
<1>3. ASSUME New' PROVE state' = "IDLE" /\ since' = 0 /\ measured' > 0
  <2>1. ~New /\ since' = 0 /\ measured' = measured + 1
    BY <1>1, <1>3, SurroundingsStep
  <2>2. state = "IDLE"
    BY <1>1, <1>3, OneMeasurement
  <2>3. Idle
    BY <1>1, <2>2 DEF Machine, Idle, MinMax, Check, StartDivide, FinishDivide, ToFilter, Finish
  <2> QED BY <1>1, <2>1, <2>3 DEF Idle, New, TrimTypes
<1> QED BY <1>2, <1>3 DEF NewIsIdle

LEMMA RestsStep == TrimInv /\ Next => DividerRests' /\ FilterRests'
<1> SUFFICES ASSUME TrimInv, Next PROVE DividerRests' /\ FilterRests'
  OBVIOUS
<1>1. TrimTypes /\ DividerRests /\ FilterRests /\ Machine /\ Divide /\ Filter /\ TrimsAreOwn
  BY DEF TrimInv, Next
<1>2. CASE Idle
  BY <1>1, <1>2 DEF Idle, DividerRests, FilterRests, Divide, Filter, TrimTypes, YesNo
<1>3. CASE MinMax \/ Check
  BY <1>1, <1>3 DEF MinMax, Check, DividerRests, FilterRests, Divide, Filter, TrimTypes, YesNo
<1>4. CASE StartDivide
  BY <1>1, <1>4 DEF StartDivide, DividerRests, FilterRests, Divide, Filter, TrimTypes, YesNo
<1>5. CASE FinishDivide
  BY <1>1, <1>5 DEF FinishDivide, DividerRests, FilterRests, Divide, Filter, TrimTypes, YesNo
<1>6. CASE ToFilter
  BY <1>1, <1>6 DEF ToFilter, DividerRests, FilterRests, Divide, Filter, TrimTypes, YesNo
<1>7. CASE Finish
  BY <1>1, <1>7 DEF Finish, DividerRests, FilterRests, Divide, Filter, TrimTypes, YesNo, TrimsAreOwn
<1> QED BY <1>1, <1>2, <1>3, <1>4, <1>5, <1>6, <1>7 DEF Machine

LEMMA TrimsAreOwnStep == TrimInv /\ Next => TrimsAreOwn'
<1> SUFFICES ASSUME TrimInv, Next PROVE TrimsAreOwn'
  OBVIOUS
<1> USE DEF TrimInv
<1>1. /\ Surroundings /\ Compare /\ Divide /\ Machine /\ Filter
      /\ LastChannel \in Nat /\ channel \in Nat /\ channel <= LastChannel
      /\ \A c \in Channels : c \in Nat /\ c <= LastChannel
  BY AutotrimAssumption DEF Next, Surroundings, TrimTypes, Channels
<1>2. state # "IDLE" => measured' = measured
  BY <1>1, OneMeasurement
<1>3. CASE Idle \/ MinMax
  BY <1>3 DEF Idle, MinMax, TrimsAreOwn
<1>4. CASE Check
  <2>1. state' = "START_DIVIDE" /\ channel' = 0
    BY <1>4 DEF Check
  <2> QED BY <1>1, <2>1 DEF TrimsAreOwn
<1>5. CASE StartDivide
  <2>1. /\ state' = "FINISH_DIVIDE" /\ channel' = channel /\ trims' = trims /\ measured' = measured
        /\ state = "START_DIVIDE"
    BY <1>2, <1>5 DEF StartDivide
  <2>2. dividing' = measured
    BY <1>1, <1>5 DEF StartDivide, Divide, DividerRests
  <2> QED BY <2>1, <2>2 DEF TrimsAreOwn
<1>6. CASE FinishDivide
  <2>1. measured' = measured /\ state = "FINISH_DIVIDE" /\ dividing = measured
    BY <1>2, <1>6 DEF FinishDivide, TrimsAreOwn
  <2>2. CASE busy > 0
    <3>1. state' = state /\ channel' = channel /\ trims' = trims
      BY <1>6, <2>2 DEF FinishDivide
    <3>2. dividing' = dividing
      BY <1>1, <2>1, <2>2 DEF Divide, TrimTypes
    <3> QED BY <2>1, <3>1, <3>2 DEF TrimsAreOwn
  <2>3. CASE busy = 0
    <3>1. trims' = [trims EXCEPT ![channel] = FromTrim(measured)]
      BY <1>6, <2>1, <2>3 DEF FinishDivide, Quotient
    <3>2. ASSUME NEW c \in Channels, c <= channel PROVE trims'[c] = FromTrim(measured')
      <4>1. c = channel \/ c < channel
        BY <1>1, <3>2
      <4>2. trims'[c] = IF c = channel THEN FromTrim(measured) ELSE trims[c]
        BY <3>1 DEF TrimTypes
      <4> QED BY <2>1, <4>1, <4>2 DEF TrimsAreOwn
    <3>3. \/ channel = LastChannel /\ state' = "FILTER"
          \/ state' = "START_DIVIDE" /\ channel' = channel + 1
      BY <1>6, <2>3 DEF FinishDivide
    <3>4. ASSUME NEW c \in Channels, c < channel + 1 PROVE c <= channel
      BY <1>1, <3>4
    <3> QED BY <1>1, <3>2, <3>3, <3>4 DEF TrimsAreOwn
  <2> QED BY <2>2, <2>3 DEF TrimTypes
<1>7. CASE ToFilter
  <2>1. /\ state' = "FINISH" /\ measured' = measured /\ active' = active
        /\ \A c \in Channels : trims[c] = FromTrim(measured)
    BY <1>2, <1>7 DEF ToFilter, TrimsAreOwn
  <2>2. filterDone' = "no"
    BY <1>1, <1>7 DEF ToFilter, Filter, FilterRests, TrimTypes, YesNo
  <2>3. active = "yes" => enable' = "yes" /\ filterIn' = trims
    BY <1>7 DEF ToFilter, OffIsInactive
  <2> QED BY <2>1, <2>2, <2>3 DEF TrimsAreOwn
<1>8. CASE Finish
  <2>1. CASE active = "yes" /\ filterDone = "no"
    <3>1. /\ state' = "FINISH" /\ measured' = measured /\ enable = "yes"
          /\ \A c \in Channels : filterIn[c] = FromTrim(measured)
      BY <1>2, <1>8, <2>1 DEF Finish, TrimsAreOwn
    <3>2. filterDone' = "yes" /\ filterOut' = filterIn
      BY <1>1, <3>1 DEF Filter
    <3> QED BY <3>1, <3>2 DEF TrimsAreOwn
  <2>2. CASE ~(active = "yes" /\ filterDone = "no")
    BY <1>8, <2>2 DEF Finish, TrimsAreOwn
  <2> QED BY <2>1, <2>2
<1> QED BY <1>1, <1>3, <1>4, <1>5, <1>6, <1>7, <1>8 DEF Machine

\* A clock of the state machine leaves the gains to the processor or takes all
\* of the filters' results.
LEMMA GainsStep ==
  ASSUME TrimInv, Next
  PROVE  \/ gains' = StaticGains
         \/ /\ gains' = filterOut /\ \A c \in Channels : filterOut[c] = FromTrim(measured)
            /\ state = "FINISH"
<1>1. Machine /\ TrimsAreOwn /\ TrimTypes
  BY DEF Next, TrimInv
<1>2. CASE Idle \/ MinMax \/ Check \/ StartDivide
  BY <1>2 DEF Idle, MinMax, Check, StartDivide
<1>3. CASE FinishDivide \/ ToFilter
  BY <1>3 DEF FinishDivide, ToFilter
<1>4. CASE Finish
  <2>1. gains' = StaticGains \/ (gains' = filterOut /\ active = "yes" /\ filterDone # "no")
    BY <1>4 DEF Finish
  <2> QED BY <1>1, <1>4, <2>1 DEF Finish, TrimsAreOwn, TrimTypes, YesNo
<1> QED BY <1>1, <1>2, <1>3, <1>4 DEF Machine

LEMMA OneSetStep == TrimInv /\ Next => OneSet'
<1> SUFFICES ASSUME TrimInv, Next PROVE OneSet'
  OBVIOUS
<1>1. OneSet /\ sets' \in Nat /\ measured \in Nat
  BY ProcessorStep DEF TrimInv, Next, TrimTypes
<1>2. SetTaken => \A c \in Channels : buffer'[c] = FromPs(sets')
  BY ProcessorStep DEF TrimInv, Next
<1>3. CASE gains' = StaticGains
  <2>1. gains' = gains \/ (gains' = buffer' /\ SetTaken)
    BY <1>3 DEF StaticGains
  <2> QED BY <1>1, <1>2, <2>1 DEF OneSet
<1>4. CASE gains' = filterOut /\ \A c \in Channels : filterOut[c] = FromTrim(measured)
  BY <1>1, <1>4 DEF OneSet
<1> QED BY <1>3, <1>4, GainsStep

LEMMA NextTrim == TrimInv /\ [Next]_vars => TrimInv'
<1>1. ASSUME TrimInv, Next PROVE TrimInv'
  <2>1. BufferIsOneSet'
    BY <1>1, ProcessorStep DEF TrimInv, Next
  <2>2. OffIsInactive'
    BY <1>1, MachineStaysInactive DEF TrimInv, Next
  <2> QED BY <1>1, <2>1, <2>2, TypesStep, InTimeStep, NewIsIdleStep, RestsStep, TrimsAreOwnStep,
             OneSetStep DEF TrimInv
<1>2. ASSUME TrimInv, UNCHANGED vars PROVE TrimInv'
  <2> USE <1>2 DEF vars, processor, surroundings, divider, filter, machine, pipeline, TrimInv
  <2>1. TrimTypes' /\ InTime' /\ RfInTime'
    BY DEF TrimTypes, InTime, RfInTime
  <2>2. NewIsIdle' /\ DividerRests' /\ FilterRests'
    BY DEF NewIsIdle, New, DividerRests, FilterRests
  <2>3. TrimsAreOwn' /\ BufferIsOneSet'
    BY DEF TrimsAreOwn, BufferIsOneSet
  <2>4. OneSet' /\ OffIsInactive'
    BY DEF OneSet, OffIsInactive
  <2> QED BY <2>1, <2>2, <2>3, <2>4
<1> QED BY <1>1, <1>2

(* Whatever is written or measured while trims are computed, the gains in  *)
(* force are one set: the processor's, or that of one measurement.         *)
THEOREM OneSetOfGains == Spec => []GainsAreOneSet
<1>1. TrimInv => GainsAreOneSet
  <2> SUFFICES ASSUME OneSet PROVE GainsAreOneSet
    BY DEF TrimInv
  <2>1. 0 \in Channels
    BY AutotrimAssumption DEF Channels
  <2>2. PICK n \in Nat : \/ \A c \in Channels : gains[c] = FromPs(n)
                         \/ \A c \in Channels : gains[c] = FromTrim(n)
    BY DEF OneSet
  <2>3. FromPs(n) # Partial /\ FromTrim(n) # Partial
    BY DEF FromPs, FromTrim, Partial
  <2> QED BY <2>1, <2>2, <2>3 DEF GainsAreOneSet
<1> QED BY <1>1, InitTrim, NextTrim, PTL DEF Spec

-----------------------------------------------------------------------------
(* A sample is trimmed by its own gains: between two measurements exactly  *)
(* one sample is handed on, when both its gains and its RF are there.      *)

HoldTypes ==
  /\ passed \in Nat /\ gainToggle \in {0, 1} /\ gainMatch \in {0, 1} /\ rfMatch \in {0, 1}
  /\ await \in YesNo /\ faStrobe \in YesNo

OneAtATime ==
  /\ New => passed + 1 = measured /\ await = "no" /\ faStrobe = "no" /\ rf + 1 = measured
  /\ ~New /\ state # "IDLE" => await = "yes" /\ gainMatch = gainToggle
  /\ ~New /\ await = "yes" =>
       /\ faStrobe = "no" /\ passed + 1 = measured /\ rfMatch # Bit(measured)
       /\ state = "IDLE" => gainMatch # gainToggle
  /\ ~New /\ await = "no" =>
       /\ rf = measured
       /\ IF faStrobe = "yes" THEN passed + 1 = measured ELSE passed = measured

AwaitInTime == await = "yes" => since <= RfLatest + 1 \/ since <= TrimClocks

FreshGains ==
  state = "IDLE" /\ ~New /\ active = "yes" =>
    gains[0][1] = "ps" \/ gains[0] = FromTrim(measured)

HoldInv == TrimInv /\ HoldTypes /\ OneAtATime /\ AwaitInTime /\ FreshGains

LEMMA InitHold == Init => HoldInv
<1> SUFFICES ASSUME Init PROVE HoldInv
  OBVIOUS
<1>1. ~New
  BY DEF Init, New, Bit
<1>2. HoldTypes /\ OneAtATime /\ AwaitInTime /\ FreshGains
  BY <1>1 DEF Init, HoldTypes, OneAtATime, AwaitInTime, FreshGains, YesNo
<1> QED BY <1>2, InitTrim DEF HoldInv

LEMMA HoldTypesStep == HoldInv /\ Next => HoldTypes'
<1> SUFFICES ASSUME HoldInv, Next PROVE HoldTypes'
  OBVIOUS
<1>1. HoldTypes /\ HoldOff /\ Machine /\ rf \in Nat
  BY DEF HoldInv, Next, TrimInv, TrimTypes
<1>2. gainToggle' = gainToggle \/ gainToggle' = 1 - gainToggle
  BY <1>1 DEF Machine, Idle, MinMax, Check, StartDivide, FinishDivide, ToFilter, Finish
<1>3. Bit(rf) \in {0, 1}
  BY <1>1 DEF Bit
<1>4. gainToggle' \in {0, 1} /\ gainMatch' \in {0, 1} /\ rfMatch' \in {0, 1}
  BY <1>1, <1>2, <1>3 DEF HoldTypes, HoldOff
<1>5. passed' \in Nat /\ await' \in YesNo /\ faStrobe' \in YesNo
  BY <1>1 DEF HoldTypes, HoldOff, YesNo
<1> QED BY <1>4, <1>5 DEF HoldTypes

\* A state machine that is not idle will be in time, however it goes on.
LEMMA LateAtMost == TrimInv /\ state # "IDLE" => since + 1 <= TrimClocks
<1> SUFFICES ASSUME TrimTypes, InTime, state # "IDLE" PROVE since + 1 <= TrimClocks
  BY DEF TrimInv
<1>1. /\ since \in Nat /\ busy \in Nat /\ TrimClocks \in Nat /\ Share \in Nat
      /\ Upto(channel) \in Nat /\ Upto(channel + 1) + 7 <= TrimClocks
      /\ Upto(channel + 1) = Upto(channel) + Share
  BY UptoFacts, AutotrimAssumption DEF TrimTypes
<1>2. CASE state = "FINISH_DIVIDE"
  <2>1. since + busy <= 3 + Upto(channel + 1)
    BY <1>2 DEF InTime
  <2> QED BY <1>1, <2>1
<1>3. CASE state # "FINISH_DIVIDE"
  BY <1>1, <1>3 DEF InTime, TrimTypes, LoopStates
<1> QED BY <1>2, <1>3

\* The gate opens only for a sample whose gains and whose RF are there.
LEMMA CompleteIsOwn ==
  ASSUME HoldInv, ~New, await = "yes"
  PROVE  (gainMatch # gainToggle /\ rfMatch # Bit(rf)) <=> (state = "IDLE" /\ rf = measured)
<1>1. /\ rf \in Nat /\ measured \in Nat /\ rfMatch \in {0, 1} /\ rfMatch # Bit(measured)
      /\ rf = measured \/ rf + 1 = measured
  BY DEF HoldInv, HoldTypes, TrimInv, TrimTypes, OneAtATime, RfInTime
<1>2. rf + 1 = measured => rfMatch = Bit(rf) /\ rf # measured
  BY <1>1 DEF Bit
<1>3. state = "IDLE" <=> gainMatch # gainToggle
  BY DEF HoldInv, OneAtATime
<1> QED BY <1>1, <1>2, <1>3

LEMMA AwaitStep == HoldInv /\ Next => OneAtATime' /\ AwaitInTime'
<1> SUFFICES ASSUME HoldInv, Next PROVE OneAtATime' /\ AwaitInTime'
  OBVIOUS
<1> USE DEF HoldInv
<1>1. /\ TrimTypes /\ InTime /\ RfInTime /\ NewIsIdle /\ Surroundings /\ Compare /\ Machine
      /\ HoldOff /\ since \in Nat /\ since' \in 0..Period /\ passed \in Nat
      /\ measured \in Nat /\ rf \in Nat /\ TrimClocks \in Nat
      /\ RfLatest \in Nat \ {0} /\ Period \in Nat \ {0} /\ Period > RfLatest + 1
      /\ Period > TrimClocks
  <2>1. /\ TrimTypes /\ InTime /\ RfInTime /\ NewIsIdle /\ Surroundings /\ Compare /\ Machine
        /\ HoldOff /\ passed \in Nat
    BY DEF TrimInv, Next, Surroundings, HoldTypes
  <2>2. since' \in 0..Period
    BY <2>1, SurroundingsStep
  <2> QED BY <2>1, <2>2, AutotrimAssumption, UptoFacts DEF TrimTypes
<1>2. /\ New' => /\ since = Period /\ ~New /\ measured' = measured + 1 /\ rf' = rf
      /\ ~New' => measured' = measured
      /\ RfInTime'
  BY <1>1, SurroundingsStep
<1>3. since' <= since + 1 /\ since' \in Nat
  BY <1>1 DEF Surroundings, MeasurePilotTones, MeasureRf, MeasureNothing
<1>4. rf = measured /\ ~New' => rf' = measured'
  BY <1>1, <1>2 DEF Surroundings, MeasurePilotTones, MeasureRf, MeasureNothing
<1>5. /\ state = "IDLE" => Idle
      /\ state # "IDLE" => measured' = measured /\ ~New'
  BY <1>1, OneMeasurement DEF Machine, Idle, MinMax, Check, StartDivide, FinishDivide, ToFilter,
     Finish
<1>6. CASE New
  <2>1. state = "IDLE" /\ since = 0 /\ ~New' /\ rf + 1 = measured /\ passed + 1 = measured
        /\ faStrobe = "no"
    BY <1>1, <1>2, <1>6 DEF NewIsIdle, OneAtATime
  <2>2. state' = "MINMAX_1" /\ gainToggle' = gainToggle
    BY <1>5, <1>6, <2>1 DEF Idle, New
  <2>3. /\ gainMatch' = gainToggle /\ rfMatch' = Bit(rf) /\ await' = "yes" /\ faStrobe' = "no"
        /\ passed' = passed
    BY <1>1, <1>6, <2>1 DEF HoldOff, New
  <2>4. Bit(rf) # Bit(measured)
    BY <1>1, <2>1 DEF Bit
  <2> QED BY <1>1, <1>2, <1>3, <2>1, <2>2, <2>3, <2>4 DEF OneAtATime, AwaitInTime
<1>7. CASE New'
  <2>1. since = Period /\ ~New /\ measured' = measured + 1 /\ rf' = rf /\ state = "IDLE"
    BY <1>2, <1>5, <1>7
  <2>2. await = "no"
    BY <1>1, <2>1 DEF AwaitInTime, HoldTypes, YesNo
  <2>3. rf = measured /\ IF faStrobe = "yes" THEN passed + 1 = measured ELSE passed = measured
    BY <2>1, <2>2 DEF OneAtATime
  <2>4. await' = "no" /\ faStrobe' = "no" /\ passed' = measured
    BY <1>1, <2>1, <2>2, <2>3 DEF HoldOff, New
  <2> QED BY <1>1, <1>7, <2>1, <2>3, <2>4 DEF OneAtATime, AwaitInTime
<1>8. CASE ~New /\ ~New' /\ await = "no"
  <2>1. state = "IDLE" /\ rf = measured
        /\ IF faStrobe = "yes" THEN passed + 1 = measured ELSE passed = measured
    BY <1>8 DEF OneAtATime
  <2>2. state' = "IDLE"
    BY <1>5, <1>8, <2>1 DEF Idle, New
  <2>3. await' = "no" /\ faStrobe' = "no" /\ passed' = measured
    BY <1>1, <1>8, <2>1 DEF HoldOff, New
  <2> QED BY <1>2, <1>4, <1>8, <2>1, <2>2, <2>3 DEF OneAtATime, AwaitInTime
<1>9. CASE ~New /\ ~New' /\ await = "yes" /\ state = "IDLE" /\ rf = measured
  <2>1. gainMatch # gainToggle /\ rfMatch # Bit(rf) /\ faStrobe = "no" /\ passed + 1 = measured
    BY <1>9, CompleteIsOwn DEF OneAtATime
  <2>2. state' = "IDLE"
    BY <1>5, <1>9 DEF Idle, New
  <2>3. await' = "no" /\ faStrobe' = "yes" /\ passed' = passed
    BY <1>1, <1>9, <2>1 DEF HoldOff, New
  <2> QED BY <1>2, <1>4, <1>9, <2>1, <2>2, <2>3 DEF OneAtATime, AwaitInTime
<1>10. CASE ~New /\ ~New' /\ await = "yes" /\ ~(state = "IDLE" /\ rf = measured)
  <2>1. ~(gainMatch # gainToggle /\ rfMatch # Bit(rf)) /\ faStrobe = "no" /\ passed + 1 = measured
        /\ rfMatch # Bit(measured) /\ (state = "IDLE" <=> gainMatch # gainToggle)
    BY <1>10, CompleteIsOwn DEF OneAtATime
  <2>2. /\ await' = "yes" /\ faStrobe' = "no" /\ passed' = passed /\ rfMatch' = rfMatch
        /\ gainMatch' = gainMatch
    BY <1>1, <1>10, <2>1 DEF HoldOff, New
  <2>3. CASE state = "IDLE"
    <3>1. state' = "IDLE" /\ gainToggle' = gainToggle
      BY <1>5, <1>10, <2>3 DEF Idle, New
    <3>2. since <= RfLatest
      BY <1>1, <1>10, <2>3 DEF RfInTime
    <3>3. since' <= RfLatest + 1
      BY <1>1, <1>3, <3>2
    <3> QED BY <1>2, <1>10, <2>1, <2>2, <2>3, <3>1, <3>3 DEF OneAtATime, AwaitInTime
  <2>4. CASE state # "IDLE"
    <3>1. since' <= TrimClocks
      BY <1>1, <1>3, <2>4, LateAtMost
    <3>2. IF state' = "IDLE" THEN gainToggle' # gainToggle ELSE gainToggle' = gainToggle
      BY <1>1, <2>4 DEF Machine, Idle, MinMax, Check, StartDivide, FinishDivide, ToFilter, Finish,
         HoldTypes
    <3>3. gainToggle \in {0, 1} /\ gainMatch \in {0, 1}
      BY DEF HoldTypes
    <3> QED BY <1>2, <1>10, <2>1, <2>2, <2>4, <3>1, <3>2, <3>3 DEF OneAtATime, AwaitInTime
  <2> QED BY <2>3, <2>4
<1> QED BY <1>6, <1>7, <1>8, <1>9, <1>10 DEF HoldTypes, YesNo

LEMMA FreshStep == HoldInv /\ Next => FreshGains'
<1> SUFFICES ASSUME HoldInv, Next, state' = "IDLE", ~New', active' = "yes"
    PROVE gains'[0][1] = "ps" \/ gains'[0] = FromTrim(measured')
  BY DEF FreshGains
<1>1. TrimInv /\ FreshGains /\ Machine /\ 0 \in Channels /\ measured' = measured
  BY AutotrimAssumption, SurroundingsStep DEF HoldInv, TrimInv, Next, Surroundings, Channels
<1>2. CASE state = "IDLE"
  <2>1. ~New /\ active = "yes" /\ gains' = StaticGains
    BY <1>1, <1>2 DEF Machine, Idle, New, MinMax, Check, StartDivide, FinishDivide, ToFilter, Finish
  <2>2. SetTaken => buffer'[0] = FromPs(sets')
    BY <1>1, ProcessorStep DEF TrimInv, Next
  <2>3. gains'[0] = gains[0] \/ gains'[0] = FromPs(sets')
    BY <2>1, <2>2 DEF StaticGains
  <2>4. FromPs(sets')[1] = "ps"
    BY DEF FromPs
  <2> QED BY <1>1, <1>2, <2>1, <2>3, <2>4 DEF FreshGains
<1>3. CASE state # "IDLE"
  <2>1. gains' = filterOut /\ active = "yes" /\ filterDone # "no" /\ state = "FINISH"
    BY <1>1, <1>3 DEF Machine, Idle, MinMax, Check, StartDivide, FinishDivide, ToFilter, Finish
  <2>2. filterDone = "yes"
    BY <1>1, <2>1 DEF TrimInv, TrimTypes, YesNo
  <2> QED BY <1>1, <2>1, <2>2 DEF TrimInv, TrimsAreOwn
<1> QED BY <1>2, <1>3

LEMMA NextHold == HoldInv /\ [Next]_vars => HoldInv'
<1>1. ASSUME HoldInv, Next PROVE HoldInv'
  BY <1>1, HoldTypesStep, AwaitStep, FreshStep, NextTrim DEF HoldInv
<1>2. ASSUME HoldInv, UNCHANGED vars PROVE HoldInv'
  <2>1. TrimInv'
    BY <1>2, NextTrim DEF HoldInv
  <2> USE <1>2 DEF vars, surroundings, pipeline, holdOff, machine, HoldInv
  <2>2. HoldTypes' /\ OneAtATime'
    BY DEF HoldTypes, OneAtATime, New
  <2>3. AwaitInTime' /\ FreshGains'
    BY DEF AwaitInTime, FreshGains, New
  <2> QED BY <2>1, <2>2, <2>3
<1> QED BY <1>1, <1>2

(* When a sample is handed on to be trimmed it is the newest, its RF has   *)
(* arrived, none before it was skipped, and once trimming is active the    *)
(* gains in force are the processor's or those of its own pilot tones.     *)
THEOREM TrimmedByItsTones == Spec => []SampleHasItsGains
<1>1. HoldInv => SampleHasItsGains
  BY DEF HoldInv, SampleHasItsGains, OneAtATime, FreshGains, HoldTypes, YesNo, TrimInv, TrimTypes
<1> QED BY <1>1, InitHold, NextHold, PTL DEF Spec
=============================================================================
