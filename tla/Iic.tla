--------------------------------- MODULE Iic ---------------------------------
(***************************************************************************)
(* The IIC driver (iic.c): two controllers, the first behind one           *)
(* multiplexer, the second behind two, and devices that answer to the same *)
(* address on different ports.  A call is a list of transfers; the driver  *)
(* remembers which port each multiplexer has enabled and writes to a       *)
(* multiplexer only when what it remembers differs.  Any transfer may      *)
(* fail, before or after it took effect, and the software may restart      *)
(* while the multiplexers keep their setting.                              *)
(***************************************************************************)
EXTENDS Naturals, Sequences, FiniteSets

CONSTANTS Registers,    \* registers (and pages) of a device
          MaxFailures,  \* bound: transfers that fail
          MaxCalls,     \* bound: calls between restarts
          MaxRestarts,  \* bound: restarts of the software
          Tries         \* times a page write to the EEPROM is tried

MUXPORT_NONE == 126
MUXPORT_UNKNOWN == 127

Chips == {"LMK", "ADC", "DAC"}

\* One device of each kind of conflict: same address behind two ports of one
\* multiplexer, behind two multiplexers, and on the bus itself.
Device(c, p, a) == [controller |-> c, port |-> p, address |-> a]
deviceTable ==
  [ expander |-> Device(0, MUXPORT_NONE, 32),  vccint |-> Device(0, 0, 64),
    ir35215  |-> Device(0, 2, 64),             eeprom |-> Device(1, 0, 84),
    bridge   |-> Device(1, 5, 47),             rfmc   |-> Device(1, 6, 80),
    sfp      |-> Device(1, 13, 80) ]
Devices == DOMAIN deviceTable

\* Multiplexer 0 is the first controller's, 1 and 2 the second's.
Muxes == 0..2
MuxOf(d) == IF deviceTable[d].controller = 0 THEN 0 ELSE 1 + (deviceTable[d].port \div 8)

VARIABLES muxPort,   \* controllers[].muxPort: the port each is believed to have enabled
          enabled,   \* the port each really has enabled
          regs,      \* the page and register each device was last told
          bridged,   \* the chip whose answer the SPI bridge holds
          sdo,       \* the chip whose output the gateware routes to the bridge
          version,   \* i2c2spiVersion
          fitted,    \* the version of the bridge on the board
          boot,      \* the steps of iicInit still to do
          todo,      \* the transfers of the call in progress
          call,      \* the call in progress, or the last one
          tries, failures, calls, restarts
iicVars == <<muxPort, enabled, regs, bridged, sdo, version, fitted, boot, todo, call,
             tries, failures, calls, restarts>>
bounds == <<calls, restarts>>
spiVars == <<bridged, sdo>>
muxVars == <<muxPort, enabled>>

\* A device answers on the bus of its controller when it is on the bus itself
\* or behind the port that a multiplexer has enabled.
Answering(d) ==
  { x \in Devices :
      /\ deviceTable[x].controller = deviceTable[d].controller
      /\ deviceTable[x].address = deviceTable[d].address
      /\ deviceTable[x].port \in {MUXPORT_NONE, enabled[MuxOf(x)]} }

-----------------------------------------------------------------------------
\* A call, with how it ended and what it got.
Ask(kind, d, page, reg, chip) ==
  [kind |-> kind, device |-> d, page |-> page, reg |-> reg, chip |-> chip,
   result |-> "ok", got |-> {}]
NoCall == Ask("none", "expander", 0, 0, "none")

\* The transfers each entry point makes: iicRead, iicWrite, pmbusRead,
\* eepromRead, eepromWrite, spiTransfer and spiSend.
Item(s, d, v) == [step |-> s, device |-> d, value |-> v]
Mux(d) == <<Item("deselect", d, 0), Item("select", d, 0)>>
IicWrite(d, s, v) == Mux(d) \o <<Item(s, d, v)>>
IicReadNext(d) == Mux(d) \o <<Item("recv", d, 0)>>
IicRead(d, r) == Mux(d) \o <<Item("reg", d, r), Item("recv", d, 0)>>

Transfers(c) ==
  CASE c.kind = "write"   -> IicWrite(c.device, "reg", c.reg)
    [] c.kind = "read"    -> IicRead(c.device, c.reg)
    [] c.kind = "version" -> IicReadNext("bridge")
    [] c.kind = "pmbus"   -> IicWrite(c.device, "page", c.page) \o IicRead(c.device, c.reg)
    [] c.kind = "store"   -> Mux("eeprom") \o [p \in 1..2 |-> Item("pageWrite", "eeprom", p - 1)]
    [] c.kind = "command" -> IicWrite("bridge", "spi", 0)
    [] c.kind = "chip"    -> <<Item("sdo", "bridge", 0)>> \o IicWrite("bridge", "spi", 0)
                               \o IicReadNext("bridge")

Requests ==
  { Ask("read", d, 0, r, "none") : d \in {"vccint", "rfmc", "sfp"}, r \in Registers } \cup
  { Ask("pmbus", "ir35215", p, r, "none") : p \in Registers, r \in Registers } \cup
  { Ask("store", "eeprom", 0, 0, "none") } \cup
  { Ask(k, "bridge", 0, 0, c) : k \in {"chip", "command"}, c \in Chips }

\* The steps of iicInit.
BootCalls == <<"expander", "ask", "version", "configure">>
BootCall(step) ==
  Ask(IF step = "version" THEN "version" ELSE "write",
      IF step = "expander" THEN "expander" ELSE "bridge", 0, 0, "none")

Begin(c) ==
  /\ call' = [c EXCEPT !.result = "pending"]
  /\ todo' = Transfers(c)
  /\ tries' = 0

-----------------------------------------------------------------------------
AtStart ==
  [muxPort |-> [m \in Muxes |-> IF m = 0 THEN MUXPORT_NONE ELSE MUXPORT_UNKNOWN],
   version |-> "602B"]

IicInit ==
  /\ muxPort = AtStart.muxPort /\ version = AtStart.version
  /\ enabled = [m \in Muxes |-> MUXPORT_NONE]
  /\ fitted \in {"602B", "606"}
  /\ regs = [d \in Devices |-> [page |-> 0, reg |-> 0]]
  /\ bridged = "none" /\ sdo = "LMK"
  /\ boot = BootCalls /\ todo = <<>> /\ call = NoCall
  /\ tries = 0 /\ failures = 0 /\ calls = 0 /\ restarts = 0

NextBootCall ==
  /\ boot # <<>> /\ todo = <<>>
  /\ Begin(BootCall(Head(boot)))
  /\ boot' = Tail(boot)
  /\ UNCHANGED <<muxVars, regs, spiVars, version, fitted, failures, bounds>>

Call ==
  /\ boot = <<>> /\ todo = <<>> /\ calls < MaxCalls
  /\ \E c \in Requests : Begin(c)
  /\ calls' = calls + 1
  /\ UNCHANGED <<muxVars, regs, spiVars, version, fitted, boot, failures, restarts>>

-----------------------------------------------------------------------------
\* iicSend and iicRecv: a transfer is done, or fails without effect (the bus
\* stays busy through four tries and a reset, or nobody acknowledges) or after
\* it took effect.
Outcomes == {"done", "lost", "late"}
Happens(o) == o # "lost"
CountFault(o) ==
  /\ o # "done" => failures < MaxFailures
  /\ failures' = failures + (IF o = "done" THEN 0 ELSE 1)

At(step) == todo # <<>> /\ Head(todo).step = step
device == Head(todo).device
port == deviceTable[device].port

\* The rest of the call, or its end: iicInit only warns of a failed step, and
\* takes the bridge for the older version when it cannot ask.
Asked == call.kind = "write" /\ call.device = "bridge" /\ Len(boot) = 2
Continue(ok) ==
  /\ todo' = IF ok THEN Tail(todo) ELSE <<>>
  /\ call' = [call EXCEPT !.result = IF ~ok THEN "failed"
                                     ELSE IF Len(todo) = 1 THEN "ok" ELSE "pending"]
  /\ boot' = IF ~ok /\ Asked THEN Tail(boot) ELSE boot

\* setMux: on the second controller the other multiplexer is closed first.
Other == 3 - MuxOf(device)
\* A multiplexer that could not be closed is taken for closed.
DeselectMutant ==
  /\ At("deselect")
  /\ IF deviceTable[device].controller = 0 \/ muxPort[Other] = MUXPORT_NONE
     THEN Continue(TRUE) /\ UNCHANGED <<muxVars, failures>>
     ELSE \E o \in Outcomes :
            /\ CountFault(o) /\ Continue(o = "done")
            /\ muxPort' = [muxPort EXCEPT ![Other] = MUXPORT_NONE]
            /\ enabled' = IF Happens(o) THEN [enabled EXCEPT ![Other] = MUXPORT_NONE] ELSE enabled
  /\ UNCHANGED <<regs, spiVars, version, fitted, tries, bounds>>

Deselect ==
  /\ At("deselect")
  /\ IF deviceTable[device].controller = 0 \/ muxPort[Other] = MUXPORT_NONE
     THEN Continue(TRUE) /\ UNCHANGED <<muxVars, failures>>
     ELSE \E o \in Outcomes :
            /\ CountFault(o) /\ Continue(o = "done")
            /\ muxPort' = [muxPort EXCEPT ![Other] =
                             IF o = "done" THEN MUXPORT_NONE ELSE MUXPORT_UNKNOWN]
            /\ enabled' = IF Happens(o) THEN [enabled EXCEPT ![Other] = MUXPORT_NONE] ELSE enabled
  /\ UNCHANGED <<regs, spiVars, version, fitted, tries, bounds>>

\* A port that could not be enabled leaves the earlier one remembered.
SelectMutant ==
  /\ At("select")
  /\ IF port \in {MUXPORT_NONE, muxPort[MuxOf(device)]}
     THEN Continue(TRUE) /\ UNCHANGED <<muxVars, failures>>
     ELSE \E o \in Outcomes :
            /\ CountFault(o) /\ Continue(o = "done")
            /\ muxPort' = [muxPort EXCEPT ![MuxOf(device)] =
                             IF o = "done" THEN port ELSE muxPort[MuxOf(device)]]
            /\ enabled' = IF Happens(o) THEN [enabled EXCEPT ![MuxOf(device)] = port] ELSE enabled
  /\ UNCHANGED <<regs, spiVars, version, fitted, tries, bounds>>

Select ==
  /\ At("select")
  /\ IF port \in {MUXPORT_NONE, muxPort[MuxOf(device)]}
     THEN Continue(TRUE) /\ UNCHANGED <<muxVars, failures>>
     ELSE \E o \in Outcomes :
            /\ CountFault(o) /\ Continue(o = "done")
            /\ muxPort' = [muxPort EXCEPT ![MuxOf(device)] =
                             IF o = "done" THEN port ELSE MUXPORT_UNKNOWN]
            /\ enabled' = IF Happens(o) THEN [enabled EXCEPT ![MuxOf(device)] = port] ELSE enabled
  /\ UNCHANGED <<regs, spiVars, version, fitted, tries, bounds>>

\* A page or register number, heard by every device that answers.
Send ==
  /\ At("reg") \/ At("page")
  /\ \E o \in Outcomes :
       /\ CountFault(o) /\ Continue(o = "done")
       /\ regs' = [x \in Devices |->
                     IF ~Happens(o) \/ x \notin Answering(device) THEN regs[x]
                     ELSE IF At("reg") THEN [regs[x] EXCEPT !.reg = Head(todo).value]
                     ELSE [regs[x] EXCEPT !.page = Head(todo).value]]
  /\ UNCHANGED <<muxVars, spiVars, version, fitted, tries, bounds>>

\* eepromWrite: a page is tried Tries times, then the call is given up.
PageWrite ==
  /\ At("pageWrite")
  /\ \E o \in Outcomes :
       /\ CountFault(o)
       /\ regs' = [x \in Devices |->
                     IF Happens(o) /\ x \in Answering(device)
                     THEN [regs[x] EXCEPT !.reg = Head(todo).value] ELSE regs[x]]
       /\ IF o # "done" /\ tries + 1 < Tries
          THEN tries' = tries + 1 /\ UNCHANGED <<todo, call, boot>>
          ELSE tries' = 0 /\ Continue(o = "done")
  /\ UNCHANGED <<muxVars, spiVars, version, fitted, bounds>>

SelectSDO ==
  /\ At("sdo")
  /\ sdo' = call.chip
  /\ Continue(TRUE)
  /\ UNCHANGED <<muxVars, regs, bridged, version, fitted, tries, failures, bounds>>

\* spiSend: the chip select of the ADC synthesizer depends on the version.
ChipSelect(c, v) ==
  CASE c = "LMK" -> 2
    [] c = "DAC" -> 4
    [] c = "ADC" /\ v = "606" -> 1
    [] OTHER -> 8
SpiSend ==
  /\ At("spi")
  /\ \E o \in Outcomes :
       /\ CountFault(o) /\ Continue(o = "done")
       /\ bridged' = IF ~Happens(o) THEN bridged
                     ELSE IF ChipSelect(call.chip, version) = ChipSelect(sdo, fitted) THEN sdo
                     ELSE "none"
  /\ UNCHANGED <<muxVars, regs, sdo, version, fitted, tries, bounds>>

\* What is read is what every device that answers has to say.
Received ==
  { IF x = "bridge" THEN [device |-> x, page |-> 0, reg |-> 0, chip |-> bridged]
    ELSE [device |-> x, page |-> regs[x].page, reg |-> regs[x].reg, chip |-> "none"] :
      x \in Answering(device) }
Recv ==
  /\ At("recv")
  /\ \E o \in Outcomes \ {"late"} :
       /\ CountFault(o)
       /\ todo' = <<>>
       /\ call' = [call EXCEPT !.result = IF o = "done" THEN "ok" ELSE "failed",
                               !.got = IF o = "done" THEN Received ELSE {}]
       /\ version' = IF call.kind = "version"
                     THEN (IF o = "done" THEN fitted ELSE "602B") ELSE version
  /\ UNCHANGED <<muxVars, regs, spiVars, fitted, boot, tries, bounds>>

\* The software starts anew, the multiplexers and devices keep their state.
IicRestart ==
  /\ restarts < MaxRestarts
  /\ restarts' = restarts + 1
  /\ muxPort' = AtStart.muxPort /\ version' = AtStart.version
  /\ boot' = BootCalls /\ todo' = <<>> /\ call' = NoCall /\ tries' = 0 /\ calls' = 0
  /\ UNCHANGED <<enabled, regs, spiVars, fitted, failures>>

IicNext ==
  \/ NextBootCall \/ Call
  \/ Deselect \/ Select \/ Send \/ PageWrite \/ SelectSDO \/ SpiSend \/ Recv
  \/ IicRestart

IicSpec == IicInit /\ [][IicNext]_iicVars

-----------------------------------------------------------------------------
\* What a call returns was said by the device it addressed, and only by it, of
\* the page and register it asked for; an answer through the SPI bridge is the
\* chip's whenever the bridge was recognised.  (iicRead, pmbusRead, spiTransfer)
AnswerIsOwn ==
  (call.result = "ok" /\ call.kind \in {"read", "pmbus", "chip"}) =>
    \/ call.got = {[device |-> call.device, reg |-> call.reg, chip |-> call.chip,
                    page |-> IF call.kind = "pmbus" THEN call.page ELSE regs[call.device].page]}
    \/ call.kind = "chip" /\ version # fitted

\* Nothing but the device addressed hears a write.  (setMux before iicSend)
WritesReachTheirDevice ==
  [][\A d \in Devices : regs'[d] # regs[d] => d = device]_iicVars
=============================================================================
