----------------------------- MODULE SpiBoards -----------------------------
(***************************************************************************)
(* The serial buses of the analog boards: ami.c, rpb.c and genericSPI.c    *)
(* (src/software/src).  On the AMI bus every device hears the same data    *)
(* line.  A port expander, itself behind the bus on channel 0, selects the *)
(* power sensors and holds the latch of the attenuators, which take over   *)
(* whatever was shifted last when the latch rises.  The RPB bus selects    *)
(* its sensors by the channel of the transaction.  A transaction is        *)
(* started and completes later; the software waits at most 1 ms for the    *)
(* one before.  The board keeps its state over a restart of the software.  *)
(* One of the two identical AMI controllers is modelled.                   *)
(***************************************************************************)
EXTENDS Naturals, Sequences, SequencesExt, FiniteSets

CONSTANTS
    Ami, Rpb,       \* power sensors on each board
    Steps,          \* attenuations in steps, 0 among them
    MaxTimeouts, MaxRestarts

ASSUME BoardsAssumption ==
    /\ Ami \cap Rpb = {} /\ Ami # {} /\ Rpb # {} /\ 0 \in Steps
    /\ MaxTimeouts \in Nat /\ MaxRestarts \in Nat

VARIABLES
    spi,        \* transaction under way on each bus, or BusIdle
    selected, latch,  \* outputs of the port expander
    shifted,    \* what the AMI devices shifted in last
    att,        \* attenuations in force
    cache,      \* amiAfeAttenuation, amiPtmAttenuation
    info,       \* psInfos: register of a sensor -> origin of the reading
    doing, op, spiStatus,   \* call under way and the spiStatus of its transfer
    todo,       \* readings the caller still makes
    turn,       \* sensor the crank reads next
    written,    \* attenuators written since the last restart
    timeouts, restarts

boardVars == <<spi, selected, latch, shifted, att, cache, info, doing, op, spiStatus,
          todo, turn, written, timeouts, restarts>>

Buses == {"ami", "rpb"}
Attenuators == {"afe", "ptm"}
Registers == {"mfrId", "devId", "vi", "temp"}
Sensors == Ami \cup Rpb
BusOf(s) == IF s \in Ami THEN "ami" ELSE "rpb"
BusIdle == [to |-> "nothing"]
Nothing == <<"nothing", "nothing">>

\* Order in which the cranks and the initialisation visit the sensors.
Order == SetToSeq(Ami) \o SetToSeq(Rpb)
Readings(sensors, regs) ==
    [i \in 1..(Len(sensors) * Len(regs)) |->
        [sensor |-> sensors[1 + ((i - 1) \div Len(regs))],
         reg |-> regs[1 + ((i - 1) % Len(regs))]]]

BoardsInit ==
    /\ spi = [b \in Buses |-> BusIdle] /\ selected = {} /\ latch = 0
    /\ shifted = [to |-> "other"]
    /\ att \in [Attenuators -> Steps] /\ cache = [a \in Attenuators |-> 0]
    /\ info = [s \in Sensors |-> [r \in Registers |-> Nothing]]
    /\ doing = "boot" /\ op = BusIdle /\ spiStatus = 0 /\ todo = <<>> /\ turn = 1
    /\ written = {} /\ timeouts = 0 /\ restarts = 0

Caller == <<doing, op, spiStatus, todo, turn, written, cache, info>>
Board == <<selected, latch, shifted, att>>

----------------------------------------------------------------------------
\* The variants named ...Mutant here and below are faults the properties must
\* catch; nothing else uses them.
\* genericSPIWrite, genericSPITransaction: wait for the transaction before,
\* then start this one.  It is not waited for.
Write(b, word) == spi[b] = BusIdle /\ spi' = [spi EXCEPT ![b] = word]

\* genericSPIBusyWait gives up after 100 looks: GSPI_EAGAIN.
BusyTooLong(b) ==
    /\ spi[b] # BusIdle /\ timeouts < MaxTimeouts
    /\ timeouts' = timeouts + 1 /\ spi' = spi

\* The hardware completes a transaction.  A word on channel 1 is shifted into
\* every device; the latch rising hands it to the attenuators.
Complete(b) ==
    /\ spi[b] # BusIdle
    /\ spi' = [spi EXCEPT ![b] = BusIdle]
    /\ LET word == spi[b]
       IN  /\ IF word.to = "expander"
              THEN /\ selected' = word.select /\ latch' = word.latch
                   /\ IF word.latch = 1 /\ latch = 0
                      THEN IF shifted.to = "attenuator"
                           THEN att' = [att EXCEPT ![shifted.which] = shifted.steps]
                           ELSE \E a \in Attenuators, x \in Steps :
                                    att' = [att EXCEPT ![a] = x]
                      ELSE att' = att
              ELSE UNCHANGED <<selected, latch, att>>
           /\ shifted' = IF word.to = "attenuator" THEN word
                         ELSE IF word.to = "sensor" /\ b = "ami" THEN [to |-> "other"]
                         ELSE shifted
    /\ UNCHANGED <<Caller, timeouts, restarts>>

\* amiSetMcp23s08: outputs of the port expander.
SetMux(select, raised) ==
    Write("ami", [to |-> "expander", select |-> select, latch |-> raised])

\* amiSetMux with MUXPORT_NONE.
Deselect == SetMux({}, 0)

----------------------------------------------------------------------------
\* amiInit, rpbInit: the expander's outputs, then every register of every
\* sensor.  A failure is only logged.
Boot ==
    /\ doing = "boot"
    /\ \/ Deselect /\ UNCHANGED timeouts
       \/ BusyTooLong("ami")
    /\ doing' = "next"
    /\ todo' = Readings(Order, <<"mfrId", "devId", "vi", "temp">>)
    /\ UNCHANGED <<Board, op, spiStatus, turn, written, cache, info, restarts>>

\* fetchId, fetchVIRaw, fetchTempRaw: the next register, whatever became of
\* the one before.
Fetch ==
    /\ doing = "next" /\ todo # <<>>
    /\ op' = [to |-> "sensor", sensor |-> Head(todo).sensor, reg |-> Head(todo).reg]
    /\ todo' = Tail(todo) /\ spiStatus' = 0
    /\ doing' = IF Head(todo).sensor \in Ami THEN "select" ELSE "word"
    /\ UNCHANGED <<spi, Board, turn, written, cache, info, timeouts, restarts>>

Return ==
    /\ doing = "next" /\ todo = <<>> /\ doing' = "idle" /\ op' = BusIdle
    /\ UNCHANGED <<spi, Board, spiStatus, todo, turn, written, cache, info, timeouts, restarts>>

\* amiCrank, rpbCrank: every 100 ms one sensor.
Crank ==
    /\ doing = "idle" /\ doing' = "next"
    /\ todo' = Readings(<<Order[turn]>>, <<"vi", "temp">>)
    /\ turn' = 1 + (turn % Len(Order))
    /\ UNCHANGED <<spi, Board, op, spiStatus, written, cache, info, timeouts, restarts>>

\* amiAfeAttenSet, amiPtmAttenSet: a value the cache holds is not written.
AttenSet(a, steps) ==
    /\ doing = "idle" /\ cache[a] # steps
    /\ op' = [to |-> "attenuator", which |-> a, steps |-> steps]
    /\ doing' = "word" /\ spiStatus' = 0
    /\ UNCHANGED <<spi, Board, todo, turn, written, cache, info, timeouts, restarts>>

\* amiSPIRead: select the device.
Select ==
    /\ doing = "select"
    /\ \/ SetMux({op.sensor}, 0) /\ doing' = "word" /\ UNCHANGED timeouts
       \/ BusyTooLong("ami") /\ doing' = "next"
    /\ UNCHANGED <<Board, op, spiStatus, todo, turn, written, cache, info, restarts>>

\* genericSPIWrite of the device's own word, on channel 1.
Word ==
    LET b == IF op.to = "attenuator" THEN "ami" ELSE BusOf(op.sensor)
    IN  /\ doing = "word"
        /\ \/ /\ Write(b, op) /\ UNCHANGED <<spiStatus, timeouts>>
              /\ doing' = IF op.to = "attenuator" THEN "latch" ELSE "wait"
           \/ /\ BusyTooLong(b) /\ spiStatus' = 1
              /\ doing' = IF op.to = "attenuator" THEN "latch"
                       ELSE IF b = "ami" THEN "none" ELSE "next"
        /\ UNCHANGED <<Board, op, todo, turn, written, cache, info, restarts>>

\* amiGetIna239Reading, rpbGetIna239Reading: the register that is asked for.
\* fetchId of ami.c asks for the manufacturer twice.
Register(s, reg) == IF s \in Ami /\ reg = "devId" THEN "mfrId" ELSE reg

WaitMutant ==
    /\ doing = "wait" /\ doing' = IF BusOf(op.sensor) = "ami" THEN "none" ELSE "next"
    /\ \E s \in selected \cup {"nothing"} :
          info' = [info EXCEPT ![op.sensor][op.reg] = <<s, Register(op.sensor, op.reg)>>]
    /\ UNCHANGED <<spi, Board, op, spiStatus, todo, turn, written, cache, timeouts, restarts>>
\* genericSPIRead: wait for the reply of the sensor that is selected.
Wait ==
    LET b == BusOf(op.sensor)
        talking == IF b = "ami" THEN selected ELSE {op.sensor}
    IN  /\ doing = "wait"
        /\ \/ /\ spi[b] = BusIdle /\ UNCHANGED <<spi, spiStatus, timeouts>>
              /\ \E s \in IF talking = {} THEN {"nothing"} ELSE talking :
                    info' = [info EXCEPT ![op.sensor][op.reg] =
                                <<s, Register(op.sensor, op.reg)>>]
           \/ BusyTooLong(b) /\ spiStatus' = 1 /\ UNCHANGED info
        /\ doing' = IF b = "ami" THEN "none" ELSE "next"
        /\ UNCHANGED <<Board, op, todo, turn, written, cache, restarts>>

LatchMutant ==
    /\ doing = "latch" /\ doing' = "none"
    /\ UNCHANGED <<spi, Board, op, spiStatus, todo, turn, written, cache, info, timeouts, restarts>>
\* amiSPIWrite: the latch rises; whether it did is not looked at.
Latch ==
    /\ doing = "latch" /\ doing' = "none"
    /\ \/ SetMux({}, 1) /\ UNCHANGED timeouts
       \/ BusyTooLong("ami")
    /\ UNCHANGED <<Board, op, spiStatus, todo, turn, written, cache, info, restarts>>

\* amiSPIWrite, amiSPIRead: deselect, and the cache follows a good write.
None ==
    /\ doing = "none" /\ doing' = "next"
    /\ \/ /\ Deselect /\ UNCHANGED timeouts
          /\ IF op.to = "attenuator" /\ spiStatus = 0
             THEN /\ cache' = [cache EXCEPT ![op.which] = op.steps]
                  /\ written' = written \cup {op.which}
             ELSE UNCHANGED <<cache, written>>
       \/ BusyTooLong("ami") /\ UNCHANGED <<cache, written>>
    /\ UNCHANGED <<Board, op, spiStatus, todo, turn, info, restarts>>

\* The FPGA is loaded again: what was under way stops, the boards keep on.
BoardsRestart ==
    /\ restarts < MaxRestarts /\ restarts' = restarts + 1
    /\ spi' = [b \in Buses |-> BusIdle]
    /\ cache' = [a \in Attenuators |-> 0] /\ written' = {}
    /\ info' = [s \in Sensors |-> [r \in Registers |-> Nothing]]
    /\ doing' = "boot" /\ op' = BusIdle /\ spiStatus' = 0 /\ todo' = <<>> /\ turn' = 1
    /\ UNCHANGED <<Board, timeouts>>

Software == Boot \/ Fetch \/ Return \/ Crank \/ Select \/ Word \/ Wait \/ Latch \/ None

BoardsNext ==
    \/ Software \/ BoardsRestart
    \/ \E b \in Buses : Complete(b)
    \/ \E a \in Attenuators, steps \in Steps : AttenSet(a, steps)
BoardsSpec == BoardsInit /\ [][BoardsNext]_boardVars

----------------------------------------------------------------------------
\* What is stored, published and displayed as a reading of a sensor came from
\* that sensor and that register, whichever transfers timed out and wherever
\* the software restarted.  The device id, which is read off the wrong
\* register on the AMI, is excepted.
ReadingIsOwn ==
    \A s \in Sensors, r \in Registers \ {"devId"} :
        info[s][r] # Nothing => info[s][r] = <<s, r>>

\* As long as nothing timed out, an attenuator that was written since the
\* software started attenuates by what is published for it (ami.c:425).
CacheIsInForce ==
    timeouts = 0 =>
        \A a \in written : doing \in {"idle", "next"} /\ spi["ami"] = BusIdle => att[a] = cache[a]

\* No sensor hears the word of another device: while a word is under way on
\* the AMI bus nobody but its addressee is selected and the latch is low.
OneListener ==
    timeouts = 0 =>
        LET word == spi["ami"]
        IN  /\ word.to = "sensor" => selected = {word.sensor} /\ latch = 0
            /\ word.to = "attenuator" => selected = {} /\ latch = 0
============================================================================
