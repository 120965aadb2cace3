# Verification of the DSBPM

The DSBPM is a direct-sampling beam position monitor: an RFSoC whose gateware
digitises the signals of the pick-up buttons, reduces them to positions, records
waveforms to memory and exchanges fast positions with its neighbours, and whose
bare-metal software (one polled loop on one processor core) serves an EPICS IOC
over UDP. This directory holds TLA+ models of the parts of it whose correctness
depends on order, timing and failure, the TLC runs that check them on small
instances, and the TLAPS proofs that hold for every instance. Paths below are
relative to the repository; file names without a directory are in
`software/src` or `gateware/modules`.

## Inventory

The software's main loop (`software/src/main.c:265`) calls, for ever and in this
order: the reset button check, `mgtCrankRxAligner`, `cellCommCrank`, `amiCrank`,
`rpbCrank`, the network input (which calls the UDP handlers), `publisherCheck`
and the console and display. Nothing in it is preemptive. Everything concurrent is
elsewhere: the gateware in its own clock domains, the network, the IOC, the chips
and boards behind serial buses, and the other ends of the links. Software and
gateware meet in registers (general purpose I/O) and in the recorders' DDR memory.

| Component | Source | State | Operations | Interacts with | What makes it correct |
|---|---|---|---|---|---|
| Waveform recorder (gateware) | `genericWaveformRecorder.v` | arm bits, trigger flag, two down counters, FIFO, AXI write master, status | arm, disarm, sample, trigger, bus beat and response | software by CSR, memory by AXI | the ring holds the window around the trigger; nothing leaves the ring; a loss shows; it stops and drains |
| Waveform transfer | `waveformRecorder.c` | per recorder: transfer state, block, bytes left, retries, time of the last packet | commands, poll, request packets | recorder CSR, publisher, IOC | what is sent is one recording, complete and in order, under a number of its own; it ends |
| Publisher | `publisher.c` | subscriber, time of the last fast and slow packets | subscription, request, poll | recorders, settings, IOC | it serves requests and the poll in turn; shows what is in force |
| Command server | `epics.c` | nonce, static reply, reboot sequence, client seen last | datagram handler | all components with commands | once, in order; no reset by accident |
| Channel settings | `epicsApplicationCommands.c`, `calibrationGains.c`, and those of the circuits | what each circuit is set to | commands, readings, overrange bits | converters, boards, publisher | a setting reaches its channel and no other, and is shown there |
| TFTP server | `tftp.c` | static session: file, position, block, buffer | datagram handler | card, parameters, tables | only whole files are committed and fetched |
| System parameters | `systemParameters.c`, `user_mgt_refclk.c` | parameters in force, the candidate, the file | parse, commit, write back, startup | TFTP, console, network, clock | a file is taken whole or not at all; what was stored survives |
| Tables | `localOscillator.c`, `ptGen.c`, `rfclk.c`, `ffs.c` | table in memory, rows in hardware, good tables, mount | upload, commit, download, startup | TFTP, oscillators, clock chips | an oscillator runs with both its tables; a refused file leaves the one in force |
| Clocks | `rfclk.c`, `mmcm.c` | register 0 and its memory, the STATUS pin, lock | bring-up, configuration, status, readback | synthesizers, IOC | what is read is a readback; chips are left as configured |
| Converter tiles | `rfdc.c` | power state and request of each tile, SYSREF | power command, restart, synchronisation | Xilinx driver | tiles that are on have their clock; those not needed are off |
| AMI and RPB boards | `ami.c`, `rpb.c`, `genericSPI.c` | transaction on each bus, selection, latch, caches, readings | poll, attenuation command | SPI devices | an answer is of the device asked; the cache is what is in force |
| IIC driver | `target/common_dsbpm/iic.c` | ports remembered, ports enabled | register, page, EEPROM and bridge calls | multiplexers and devices | an answer is of the device asked; only it hears a write |
| Event receiver link | `mgt.c`, `evrGTYwrapper.v` | alignment state machine, comma counter | poll, reset, errors | converters' synchronisation | it ends up framed, and nobody synchronises to it before |
| Event receiver | `evr.c` | actions and delays, marker check | initialisation, commands, reading of the time | event decoder | the time read is of one moment |
| Eye scan | `eyescan.c` | state of the scan, the transceiver's measuring machine | command, crank | transceiver, console | a point is of its own offsets; the scan ends |
| Cell controller links | `cellComm.c` | reset ladder and cached control register of each link | poll, initialisation | the same code at the other end | the link recovers; resets are let go |
| Cell controller data | `bpm_comm/*.v`, `bpmComm.c` | arbiter, packet FIFOs | local and forwarded packets | Aurora, FA data | packets whole and marked when bad |
| Gain trims | `autotrim.v`, `gainFilter.v`, `preliminaryProcessing.v` | gains, trim state machine, filter, hand-over toggles | measurement, gain writes, mode writes | processing pipeline | a sample is trimmed by one set of gains, its own |
| Clock domain crossings | `forwardData.v` and others | latch, request and acknowledge levels | an edge of either clock | everything between domains | values whole, in order, none twice |
| Console | `console.c` | line, mode and open question, input that is being read, startup text | characters of two inputs, commands | parameters, eye scan, event log | nothing is stored that was not shown and confirmed |
| Display | `display.c`, `sysmon.c` | mode, page, what is on the screen, button, messages | refresh, warnings, fatal errors | all that warn | the screen shows one page, the current one |
| Signal processing | `adcProcessing.v`, `positionCalc.v`, ... | pipelines | samples | trims, recorders, cell controller | arithmetic |
| Acquisition synchronisation, monitoring | `acqSync.v`, `sysrefSync.v`, `lossOfBeam.v`, `fanCtl.c` | counters and flags | strobes | recorders' time stamps | lost synchronisation shows |

The behaviours that are hard, and to which the models are addressed:

* *Gateware runs under the software.* Between the software's read of a status and
  its write of a command the recorder can complete (`waveformRecorder.c:649`);
  within one clock a completion, a bus error and a command can meet
  (`genericWaveformRecorder.v:383`); a clock goes on between two reads of it.
* *UDP.* Datagrams are lost, late, duplicated and reordered; the handlers keep
  their sessions in static variables and know the datagrams by a nonce, a block
  number or a waveform number.
* *Time.* Times are 32 bits of microseconds, compared by unsigned differences (or
  not, `epics.c:27`); polls can be late.
* *Two ends.* Each end of a cell controller link resets the channel of both.
* *Failure of one step in several.* Buffers that cannot be allocated, files that
  cannot be written, driver calls that fail in the middle of a walk over tiles,
  transfers on shared buses that select one device for the next transfer.
* *Stale data.* What a stopped clock domain shows, what a cached register says,
  which port a multiplexer is believed to have, rows of a table that was refused,
  results that arrive when the mode has changed.
* *Restarts.* The board, its multiplexers and the card keep what a restart of the
  software forgets.

`PROJECT.json` lists these as hazards, each at its line.

## Plan

The order was that of importance to what the instrument is for: the waveforms,
then the state they depend on, then the links, then the services, then what sets
them up. All of it is done except:

1. The pair of switches of the cell controller network, once it is settled what
   the Aurora core does with a packet it pauses: `cellCommBPMCore.v` never drives
   the streams it hands to the second switch from those the first received.
2. A product of `WaveformTransfer` and `WaveformRecorder`. Each is shown to
   implement `WaveformRecording`; nothing yet puts the one in the place of the
   gateware of the other.

## The modules

A module `...Proofs` holds the theorems of the module before the word;
`PlatformProofs` those of `Evr`, `Eyescan`, `Display`, `Iic` and `Clocks`,
`LinksProofs` those of `ForwardData`, `CellLink` and `RxAligner`, `ServerProofs` those
of `EpicsServer`, `Tftp` and `IocCheck`, `ChannelsProofs` those of `Autotrim`,
`RfTiles` and `SpiBoards`, `ConfigurationProofs` those of `Tables`, `Settings`,
`Parameters` and `Console`. `Remainders` has the lemmas about rings and rounds that
they share. A module `MC...` gives the constants their values for TLC. The operators
named `...Mutant` are variants of the definition that follows them with a plausible
fault; a property is kept only if some variant breaks it.

| Module | Models | Checked by |
|---|---|---|
| `WaveformTransfer`, `WaveformOffer` | transfer of a waveform; its abstract specification | `transfer`, `transfer_skip`, proofs |
| `WaveformRecorder` | the recorder in gateware | `recorder`, `recorder_full_error`, proofs |
| `WaveformRecording` | abstract specification of the recorder, of both modules above | `recorder`, proofs |
| `RxAligner` | alignment of the event receiver's transceiver | `links`, proofs |
| `CellLink` | both ends of a cell controller link | `links`, proofs |
| `ForwardData`, `Mailbox` | a clock domain crossing; its abstract specification | `links`, proofs |
| `Tftp` | the TFTP server | `server`, `tftp_failures`, proofs |
| `EpicsServer` | commands of the IOC and the reboot sequence | `server`, proofs |
| `IocCheck` | detection of a second IOC | `ioc_wrap`, proofs |
| `Autotrim` | the gain trims | `channels`, proofs |
| `RfTiles` | power of the converters' tiles | `channels`, proofs |
| `SpiBoards` | the serial buses of the analog boards | `channels`, proofs |
| `Iic` | the IIC driver | `platform`, proofs |
| `Evr` | the event receiver's software | `platform`, proofs |
| `Clocks` | synthesizers and MMCM | `platform`, proofs |
| `Eyescan` | the eye scan | `platform`, proofs |
| `Display` | the front panel | `platform`, proofs |
| `Settings` | settings of the channels | `platform`, proofs |
| `Tables` | tables on the card | `platform`, proofs |
| `Parameters` | the system parameters and startup | `console`, proofs |
| `Console` | the command interpreter, on top of `Parameters` | `console`, `console_offset`, proofs |

Components that share no state are checked in one run: `MCLinks`, `MCServer`,
`MCChannels` and `MCPlatform` have a variable `subject`, chosen at the start, and
the components that are not the subject rest. The run is the union of their
behaviours, not their product. A liveness property of one is stated for the
behaviours in which it is the subject, where the others could only rest.

`WaveformTransfer` and `Tftp` have in addition a variable `setting`, chosen in
`Init` and never changed: a record that says what the network may do and how far
the model goes, so that one run covers a hostile, a reordering and a sound
network. Properties that need a sound one have it as a premise.

### WaveformTransfer

One recorder's software and the conversation about its waveforms. The unit of data is
one AXI word; a word is the pair of its acquisition and its index, so a property can
tell the right data from stale or shifted data. `SendHeader` and `Retry` are the two
branches of `wfrCheckForWork`, `ReceiveRequest` is `publisher_callback` with
`wfrAckPacket`, `HeaderPacket` and `DataPacket` are the functions of those names with
their failing allocations. `ArmRead` and `ArmWrite` are the two register accesses of
the ARM command: nothing of the software comes between them, but the gateware does:
`Record`, `Fill`, and `Abort`, in which a failed burst ends the acquisition. The
client (external) does what `dsbpmProtocol.h` says: it asks for block 0 when it sees a
header, and for the next block by naming the one received.

The abstract specification `WaveformOffer` knows only the number offered and the
block reached: offers are made under fresh numbers, blocks go up by one, an offer
may be closed at any time.

Run `transfer`: ring of 5 words, packets of 2, counts 2 and 5 (one block; three
with a short last one and a window that fills the ring), RETRY_LIMIT 2, two arms.
Six words in an acquisition make the ring wrap. With one datagram in flight in
each direction and duplication every stale request is still possible, since the
datagram may stay there for ever; the setting that reorders has two. Retry limits
and numbers of arms beyond 2 only repeat what 2 shows, and the theorems have no
bounds. Run `transfer_skip` shows that the server can go past block 0 unasked, which
BlocksFollowRequests excludes for a client that has seen one header of the waveform
on a network that repeats nothing.

*Fairness.* The main loop polls, finishes the ARM it is in, and time goes by. Only
in the sound setting datagrams arrive and the client answers.

*Proved* (`WaveformTransferProofs`), for any ring, packet and retry limit, any network
and any number of waveforms: TypeOK, NothingRecordedUnderTransfer, RetriesBounded,
FreshNumberPerOffer, PayloadIsTheRecording, BlocksFollowRequests, RingIsRead, that the
server implements `WaveformOffer`, and that its gateware implements
`WaveformRecording`. The inductive invariant adds to TypeOK that a half-done ARM
excludes a transfer (the ARM handler sets CS_IDLE before it writes the CSR), that
whatever is recording, full or about to be armed has a number no header has used, that
the packets unanswered are at most one more than the retries counted, and that
CS_HEADER is at block 0. NothingRecordedUnderTransfer, RetriesBounded and FreshNumberPerOffer are not
inductive without it: the ARM
that finds the recorder armed keeps the number although the recorder may fill before
the write. PayloadIsTheRecording needs three parts more: what is full, or being sent,
ended with at least the count in the counter register (which an ARM may change in
between only while no poll looks); the offset and the count left are those the header
announced; and a packet in flight is of an acquisition that has ended, which no later
arm touches. That the words found from there on are the right ones is a lemma about
remainders. RingIsRead and the refinement rest on ArmedInv: an arm that comes, or half
of one, finds a count of the operator's in the register, and what is full was armed
with one. BlocksFollowRequests rests on RequestInv: until block 0 is sent there is at
most one request for it under way, so none is left that could be taken for the
acknowledgement of it, and from then on every request under way names a block that the
client holds.

### WaveformRecording

What the two models of a recorder have in common: the ARM and FULL bits, the count
latched at the arm, the number of words recorded since, and the ring as `HeldBy`
reads it (word k at address k modulo the ring, until as many words again overwrote
it). `WaveformRecorder` implements it with its FIFO, bus, trigger and failed bursts,
and the gateware inside `WaveformTransfer` with its one action per event. So the two
agree on the registers in which software and gateware meet. That is less than a
composition: the recorder shows FULL while the last words are still in its FIFO and
its ring is proved right once they have drained, where the transfer's model has them
in the ring at FULL, as it takes a poll and a datagram to read them.

### WaveformRecorder

`genericWaveformRecorder.v` in its data clock domain, one step per clock. Each
register has an operator for its next value, with the order of the nonblocking
assignments: a completion overrules a command's FULL, a beat's address increment
overrules an arm's reset, an error overrules the enabling of `acqArmed`. The FIFO
counts its fill; the source's FIFO reports one less than its fill, and the
threshold in the source is written for that. The memory behind the bus is external.

Run `recorder`: ring of 4, bursts of 2, FIFO of 3, any sample, trigger, bus and
command timing, errors, two arms, and requests with no pretrigger samples, some,
and more than the window. Four samples may go by before the trigger, so the ring
wraps before and after it; a FIFO shorter than the ring overflows. Arms wait for
the last acquisition to drain, as the software's do in practice; of the properties
proved WindowRecorded and RingIsRecording need it. Run
`recorder_full_error` shows FULL set for an acquisition with a failed burst.

*Fairness.* The bus answers in the end, samples keep coming (some of them
without a command in the same clock) and the clock runs.

*Proved* (`WaveformRecorderProofs`), arms at any moment included: TypeOK, BurstInRing,
LossIsReported, and that the recorder implements `WaveformRecording`: samples are
taken only between an arm and the end of its acquisition, and FULL comes only of as
many as the register held at the arm. BurstInRing is inductive together with TypeOK:
an arm that resets the write address under a burst only moves it down. With arms that
wait (`~ArmsWhileDraining`) also WindowRecorded and RingIsRecording, by which every
word the ring has room for, not only the window, is at the address of its number.
Their invariant has four parts: an arm meets a recorder at rest (which alone needs the
premise), and its acquisition begins in the cycle after next; the two counters say how
much of the request has been taken, before the trigger and after it; a burst's words
are in the FIFO when it begins; and, as long as OVERRUN is not set, the samples are in
order in the memory, on the bus and in the FIFO, the write address being the number
stored. The theorem is false without the premise: a burst under way when the arm comes
moves the new write address.

### ForwardData

`forwardData.v` as edges of two unrelated clocks in any order. Its abstract
specification `Mailbox` delivers each value once, whole, before the next is taken,
and every value in the end. The synchroniser in front of each level is two
registers; metastability is the choice of the edge that sees a change. In run
`links` three values are enough for one at rest, one in flight and one waiting.
*Fairness:* both clocks run. *Proved* (`LinksProofs`): LatchAtRest and the
implementation of `Mailbox`'s safety, for any set of values. The six level
registers, `inReq`, `outReq_m`, `outReq`, `outReq_d`, `inAck_m` and `inAck`, are a
ring; the invariant is that neighbours differ in at most one place of it: one
change is in flight at most.

### RxAligner

`mgtCrankRxAlignerFor`, first from `mgtInit` and then from the main loop, against
the comma detector of `evrGTYwrapper.v`, whose counter keeps its value while the
recovered clock stands still. Times keep their order (hold < delay < confirmation
< time-out < wrap). The missing `break` after S_POST_RESET_DELAY is in the model.
Run `links` checks that the converters are synchronised to a framed receiver only
and that alignment comes for good. *Fairness:* the loop and time go on, commas
and errors show, and a reset that is tried again and again comes up framed some
time (about 1 in 20 does). *Proved* (`LinksProofs`), for any times and latency of
the polls, and wherever the counter wraps: SyncedToFramed, given that a misframed
stream shows an error within the confirmation time (`ConfirmAssumption`: 1 ms are
thousands of characters), and ResetIsHeld, that no reset is let go before the hold
time is over. The invariant is that the time the machine has been in the delay or
the confirmation is not more than the misframed stream has kept quiet for, so the
machine leaves the confirmation for a framed receiver only, whatever the detector
showed when the reset completed.

### CellLink

`cellComm.c` at both ends of one link, each with its own ladder of resets, with
initialisation, restart and cables pulled out and put in. In run `links` DownTime
exceeds what both ladders and training take together, as 30 s do. *Fairness:* both
processors and time go on, a cable is put back.

*Proved* (`LinksProofs`), for any times: the invariant is TypeOK and, for each
state of the ladder, what the cached control word and the register are and how
long the transceiver has been out of reset at least. From it follow
NothingLeftAsserted and AuroraOutlastsTransceiver however late a poll is.

### Tftp

`tftp.c` serving one table file that shadows an EEPROM. A file is a sequence of
chunks labelled with session and index. The server's replies, its static buffer
(sent again when it gets any acknowledgement but the expected one), the two
counters of the block, and the stash and commit after a short block are the
code's; the client is RFC 1350's stop-and-wait. Run `server` takes four settings:
a network that loses, duplicates and reorders, two sessions of any kind; the same
with accesses that fail; two writing sessions that overlap in the network; and a
sound network with five blocks counted modulo three. The modulus is 2^16 in the
code; a datagram 65536 blocks old is not modelled, so the lossy settings have a
modulus beyond the file's length. Run `tftp_failures` shows a client told of
success when the stash failed.

*Fairness.* On the sound network datagrams arrive and a client that hears nothing
repeats.

*Proved* (`ServerProofs`), for any settings in which nothing fails and sessions do not
overlap: SuccessIsReal, StashedIsWhole (what is committed is a whole file of one
session) and FetchedIsStashed (a file that was fetched is the one that is kept).
`SettingsAssumption` asks that the block numbers tell the blocks of a file from one
another or that the network neither loses nor repeats, as `Sound` does. The
invariant is one of three, for a session that stores, one that fetches, and none:
the datagrams under way are all of the session; the server is at some block of its
file, or has not heard of the session or has finished it; and an acknowledgement of
the last block is only under way when the file is kept. Where numbers wrap this does
not tell which block an acknowledgement is of, and the invariant has instead that
one datagram is under way and both ends are in step.

### EpicsServer and IocCheck

`epics_callback` with its nonce and static reply, the reboot sequence 1, 100,
10000, and a reset that takes the nonce with it. The network of this model loses
and duplicates but does not reorder: with a remembered nonce only the last command
is known again, so over a network that reorders a command can be executed twice.
Two datagrams each way and four commands cover a repetition of every command of a
complete reboot sequence and a fifth kind between them. *Proved*
(`ServerProofs`), for any commands and any number of datagrams under way,
lost or repeated: OnceInOrder, AnswersAreOwn and RebootsInSequence. The invariant is
that nonces do not fall along the queue of commands nor below one executed or
remembered; that the static reply is that of the command remembered, or has the
header of one refused since, after which no repetition of the former can follow; and
that what `match` counts is among the commands executed since the last reset, in
order and with no other command of the sequence after the first, so that the steps of
a reset are commands of their own by OnceInOrder. Across a reset a command can be
executed again, the last of the reboot sequence for one.

`IocCheck` is `duplicateIOCcheck`, in seconds, with the wrap of the microseconds
they are made of. Run `ioc_wrap`: a single IOC is reported as two after a wrap.
*Proved* (`ServerProofs`), for any times with ChangeTime and ReportTime above 0 and
seconds of fewer bits than their differences: two senders that do alternate are
reported for ReportTime from each change that came too soon, until the seconds begin
again (DuplicateIsReported; a change in the first ChangeTime of a new round, whose
predecessor may lie in the round before, is left out); and up to the first wrap
nothing else is reported, if the network comes up later than both times after the boot
(RealBeforeWrap). The invariant is that the second kept of a change is that of the
real one, and that the second kept of a duplicate is that of the last real one or of
a later moment. No passing run extends `IocCheck`; TLC found both formulas and the
invariant true for two senders over three rounds of 15 seconds.

### Autotrim

`autotrim.v` clock by clock, with `gainFilter.v` and the part of
`preliminaryProcessing.v` that holds a fast sample back until its trims are there.
Gains are labelled with the set or measurement they come from. Run `channels` has
the four channels and the delay of the source, tones that come and go, a mode that
changes at any clock and a set of gains written at any pace; one measurement is
long enough for a computation, as in the source (a divider takes 26 clocks, a
measurement thousands). Six measurements let the delay run down and start again.
*Proved* (`ChannelsProofs`), for any number of channels and delay: OffLeavesGains
for any timing, and GainsAreOneSet and SampleHasItsGains for any timing in which a
measurement outlasts a computation (`AutotrimAssumption`: 7 clocks and, for each
channel, two more than a division, or 119 in the source against the thousands of
`CIC_FA_DECIMATE` turns of the ring between two measurements). Neither is inductive:
that the gains are one set rests on where each partial result is while the machine
is under way (the divider, the filter and the buffer hold results of one measurement
only, and the processor's buffer those of one set), and a sample meets its own gains
because each state bounds the clocks since the measurement, so that no measurement
comes before the machine is idle again and no new sample before the trims of the
last are out.

### RfTiles

The power states of the tiles of one kind. `TargetState` is
`rfDCTileTargetState`, `Visits` and `ApplyTileStates` the two walks of
`rfDCApplyTileStates` (leaves to source down, source to leaves up, with tile 0
taken to clock detection between them), `ChangeTileState` a start-up or shutdown
that stops at any state when the driver fails. `SyncRequest`, `Resync`, `Mts` and
`Synced` are a synchronisation with its early returns; `Resync` is the shutdown,
reset and restart it finds. Run `channels` has four tiles with the source at the
third, as the DAC's, and two failures at any calls of any sequence of commands:
RestIsRight looks at the end of a command without failures whatever failed commands
went before, PoweredInOrder at every step. *Proved* (`ChannelsProofs`), for any
number of tiles, source and failures: RestIsRight, SyncLeavesNoTrace and
PoweredInOrder. The invariant says of a walk under way that the tiles visited need
nothing more, so that at its end all are at their targets (the two walks together
visit every tile, and the second meets a tile after those its clock comes through);
and, while no call failed, where the user's requests are kept in each step of a
synchronisation.

### SpiBoards

Both buses, with the transaction under way as a variable of each, since the caller
may stop waiting for it. On the AMI bus the port expander, which selects the
sensors and drives the latch, is itself written over the bus. The model keeps what
the devices shifted in last, which is what a rising latch takes over. Run
`channels`: two sensors on the one board and one on the other, three attenuations,
one time-out anywhere, one restart at any moment, which leaves the boards as they
are. With one time-out CacheIsInForce and OneListener, by which a word meant for one
device is shifted into no other, no longer hold (see *Flaws*);
ReadingIsOwn holds with it. *Proved* (`ChannelsProofs`), for any sensors and
attenuations and any number of time-outs and restarts: all three, of which runs check
ReadingIsOwn and CacheIsInForce. ReadingIsOwn
rests on that a word for an AMI sensor finds the expander told to select that
sensor, by the word before it or already, whatever timed out. The other two need
what every step of a call leaves behind while nothing timed out: between calls
nobody is selected and the latch is low or about to be; before the latch rises the
devices have shifted in the call's own word; after it the attenuator has the call's
value, which is published last.

### Settings

The commands of the IOC through the wiring of each kind of circuit (swapped chains,
reversed channels, converters and tiles that share a circuit) and back through the
readings of the slow packet. Run `platform`: two chains of four channels and tiles
of two, any two commands or overranges, an index out of range included. Swaps are
of their own inverse, so two chains and four channels show every confusion of a
forward with a backward one. *Proved* (`ConfigurationProofs`), for any number of
chains, channels and converters of a tile (`SettingsAssumption`): ShownIsCommanded.
No invariant is needed but that every circuit there is keeps its place; the work is
in the arithmetic: an index is of one channel of one chain (IndexIs), the swap of the
chains is a rotation and keeps them apart (SwapsApart), and circuits that are equal
are of one chain, and of one channel or tile as their kind has it (CircuitsApart).

### Iic

Each call is a list of transfers after the selection of the port: `Deselect` and
`Select` are the two writes of `setMux`, each of which may fail before or after it
took effect. `muxPort` is what the driver remembers, `enabled` what is. Devices are
one of each kind of conflict: one address behind two ports of one multiplexer,
behind two multiplexers, and on the bus itself. Run `platform`: one failure, two
calls, one restart, which forgets `muxPort` and keeps `enabled`. *Proved*
(`PlatformProofs`), for any registers, tries, failures and restarts: AnswerIsOwn and
WritesReachTheirDevice. The invariant is in four parts: a port the driver remembers
is the one enabled, and the multiplexer of the second controller's first bus, once
taken for closed, is; the transfers left of a call are a rest of the list it began
with, so that a transfer to a device comes after both writes of `setMux` or finds
the port remembered; past the selection only the device's own port is enabled; and
what a device was told (register, page, answer of the bridge) is of the call under
way. The failures leave the driver with *less* remembered than enabled, never more,
since `setMux` forgets before it writes.

### Evr

`evrInit` with its wait for two heartbeats and pulses, the commands for event
actions and delays, and `evrCurrentTime`, one action for each of its register
reads, with the clock running in between. Run `platform` has two ticks to a second
and seven ticks, so a reading can begin in any phase and see the second change
under it more than once. *Proved* (`PlatformProofs`), for any resolution of the clock
(`ResolutionAssumption`: a second has a tick) and any delay between reads:
TimeIsAnInstant. The invariant says of each read what instant its value is of:
the seconds of one not before the reading began, the fraction of one not before
that; the last read, being of the same second, leaves no room for a change between.

### Clocks

A request of `rfclk.c` is a list of register accesses. Every access of another
register needs register 0 for the pin, so the configuration in register 0 passes
through the software's memory (`v0Init`) or through a readback (`v0`). Run
`platform`: both synthesizers, three requests after the bring-up of main, one
failed access anywhere. A read through the wrong pin is counted against the code
only in a request without a failed access. *Proved* (`PlatformProofs`), for one or
two chips (`SynthesizersAssumption`), any tables, requests and failures:
ReadsAreReadbacks and ChipsAreRestored. The invariant follows the accesses left of a
request: the first, if it reads, finds the pin a readback's (a read is preceded, in
its list, by a write to the same chip that makes it one); register 0 of a chip, the
software's memory of it and what was read of it to be written back are all of the
same configuration or the reset value; and, as long as nothing failed, a chip that
does not show its lock has the write that restores it among the accesses to come.

### Eyescan

`eyescanSync` and the cranked scan against the transceiver's measuring machine,
which stays at its end until RUN is cleared. Run `platform` has a grid of 3 by 2.
*Fairness:* the console goes on, and so does the time a count may take; the
machine itself owes nothing. *Proved* (`PlatformProofs`), for any grid with a point
(`GridAssumption`): PointsAreOwn. The invariant is that the machine has left its
end whenever a point is about to start, the first excepted, and that the offsets in
force and a count at its end are those of the point under way.

### Display

The modes with their transitions from startup, the button with its debouncing and
its long press, the backlight, the messages kept, and the drawing of a page a row
at a time. Run `platform`: two rows, two messages kept of three warnings, times of
1, 3 and 4 ticks in the order of the source's. *Proved*
(`PlatformProofs`), for any pages, times and messages: ScreenIsCurrent. A refresh
that changes what is shown clears the screen first, and rows are only drawn by a
refresh of their page.

### Tables

The four kinds of table. A file is the identity of its contents, its number of rows
and the row where it stops being good; `ParsedTable` is what the row-wise parsers
leave in memory, `Commit` what a commit does for each kind, `LoInit` the defaults
at startup, and `FfsCheck` the mount of a card that may have been changed. Run
`platform`: good files, files with a bad row, full tables and one that is too
long; three uploads, downloads or swaps of the card, and a restart. *Proved*
(`ConfigurationProofs`), for any files, sizes and BPMs (`TableAssumption`: a table has
room for more rows than it must have; `UploadAssumption`: files come under the four
names, and the rows of one are labelled alike): LoHasBothTables and TablesAreWhole.
The first rests on that a table committed has rows, that the startup either ran the
oscillators with two good tables or loads both defaults, and that no commit removes
one; the second on that the header of a table in memory is of the rows of one file
(its check sum is left behind when a refused upload leaves rows of two) and that a
commit takes only rows that fit their header.

### Parameters and Console

`Parameters` is the file on the card, the candidate it is parsed into, the
parameters in force and the startup that takes them; `Console` is the interpreter
on top of it. A character is a word or the newline. Run `console`: good files,
files with a value that does not parse, with a rotation that is refused, with a
missing and an unknown line; boards with and without a MAC address and with the
recovery switch pressed; a write-back that may be cut by a restart after it emptied
the file; the serial line and one UDP console with three pieces of input between
them. Three are an open question, an answer and a word of the other console. Run
`console_offset` shows that `umgt` adjusts the clock to the offset before. *Proved*
(`ConfigurationProofs`), for any files, boards, words and consoles
(`ParametersAssumption`: a file is a sequence of lines): FilesAreTakenWhole,
StoredSurvives and ShownBeforeStored. The invariant: what is in force has a value
that parses for every parameter, and so has the candidate, whatever was refused half
way; a file that is being written is of what is in force, and the card keeps one that
was written whole until something else is written; and an open question is about what
was shown last. A file with every line means the same whatever the candidate held
(MeansTheSame), and a file written back is read as what it was written from
(WrittenMeans). Which line of a name counts is the largest of a set of numbers; that
there is one is proved from the well-founded order of the naturals (Largest).

## Runs

| Run | Expected | Shows |
|---|---|---|
| `transfer` | pass | one recording per transfer, blocks sent as requested, offers under fresh numbers with blocks in order, transfers end, and delivery over a sound network |
| `transfer_skip` | violation | "It then sends each block when requested" (`dsbpmProtocol.h:108`) does not hold when a header is retransmitted |
| `recorder` | pass | the window around the trigger, FULL only of as many samples as were asked for, bursts inside the ring, stopping and draining |
| `recorder_full_error` | violation | FULL of an acquisition with a bus error, against the bench's assertion |
| `links` | pass | synchronised to a framed receiver only, resets let go, both links come back; nothing torn, lost or twice across clocks |
| `server` | pass | whole files only, success is real, sessions end; commands once and in order, no reset by accident |
| `tftp_failures` | violation | the error of a failed stash is followed by a success reply |
| `ioc_wrap` | violation | a single IOC reported as a duplicate |
| `channels` | pass | one set of gains, the sample's own; tiles right after any failures and never without a clock; readings and attenuations of the device meant |
| `platform` | pass | answers and writes of the IIC device meant; the time of one instant; registers read as such and put back; points of their own offsets, a scan that ends; one page on the screen; settings that do not leak; tables whole and both there |
| `console` | pass | parameter files taken whole, what was stored survives, nothing stored unseen |
| `console_offset` | violation | the reference clock is not adjusted to the offset shown |

`CHECK_DEADLOCK FALSE` is in `transfer`, `server`, `console` and `platform` (and
the violations of the same modules), whose bounds on commands, sessions, input or
failures let the system come to rest. The others have a clock that always ticks
or commands that can always be given.

## What is proved and what is only checked

The theorems assume only the named `ASSUME` of each module, which say that sizes
are positive and fit one another as the source's parameters do; TLC evaluates them
in every run of the module. Two kinds of theorem have a hypothesis of their own
besides: those of the window name `~ArmsWhileDraining`, and those of `IocCheck` its
`TimesOfTheCode`, which the source's 10, 15 and 4294 seconds and 32 bits satisfy
(RealBeforeWrap asks besides for a network that comes up later than the first two).
Each proof of a safety property goes by an inductive
invariant: the initial states satisfy it, each action preserves it (one step per
action), and it implies the property.

Where a theorem and a run state the same property the run found the formula true
first. Proved and not run are TypeOK of the transfer and the recorder,
RetriesBounded, FreshNumberPerOffer, the transfer's ImplementsRecording and
RingIsRead, the recorder's LossIsReported and RingIsRecording, LatchAtRest,
AuroraOutlastsTransceiver, OffLeavesGains, OneListener, AnswersAreOwn, ResetIsHeld,
StashedIsWhole, FetchedIsStashed, DuplicateIsReported and RealBeforeWrap.

Every safety and action property of a passing run is the statement of a theorem.
Only model-checked: everything about liveness (TransferEnds, FilledIsDelivered,
FullDrains, ReceiverRealigns, CellLinkRecovers, SessionsEnd, ScanEnds), since
fairness and ENABLED are beyond the prover. The five violations are counterexamples
and leave nothing to prove. Two definitions are written without a fold or a selection
from a sequence, so that they can be reasoned about: `Parsed` says which lines of a
file are read and which of a name counts, where the source goes line by line, and
RebootsInSequence names the commands by their places.

## Flaws

Besides the five findings in `PROJECT.json`, met while modelling and not put into
runs, since the repository says nothing they contradict or since the model leaves
the value out:

* A completed acquisition whose header cannot be allocated is never announced
  (`waveformRecorder.c:568`).
* An acknowledgement left over from a reading session makes a writing one skip a
  block (`tftp.c:365`).
* A synchronisation that fails after it turned tile 0 on leaves the request, and
  after it enabled SYSREF leaves that (`rfdc.c:736`).
* Once a parameter file with every line was read, a file with lines missing is
  accepted and the values of the file before stand in for them, those of a refused
  one included (`visited` is never reset, `systemParameters.c:549`).
* An AMI transfer that times out after its device was selected, or before its latch,
  leaves the cache and the attenuator at odds; a cache of 0 after a restart skips a
  first command of 0 (`ami.c:429`, `ami.c:533`). The AMI's device id is read from
  another register than it is kept for.
* A readback of a synthesizer whose table was refused leaves the STATUS pin in
  readback, and the lock display with it (`rfclk.c:265`).
* A single-pass event that is one of the markers replaces the marker's action
  (`evr.c:140`).
* Until 15 s after the boot the check for a second IOC reports one, as it counts from
  second 0 (`epics.c:40`).
* The first point of an eye scan shows the count of `eyescanSync` at the centre.
* The CIC shift is not set back when a table fits the build again
  (`localOscillator.c:226`); table values above 1 are not refused, as the range
  test's negation covers its first half only (`localOscillator.c:284`).
* An arm during a stalled address moves AWADDR (`genericWaveformRecorder.v:342`), and
  the beats that a burst under way still has to send are counted into the write
  address of the new acquisition, whose window is then found displaced by them.

## Not modelled

Signal processing is arithmetic of fixed latency. The data path of the cell
controller network depends on how the Aurora core pauses a packet, which is not in
the repository. Acquisition synchronisation and monitoring are counters and
thresholds that are read. Bring-up beyond clocks, parameters and tables writes
registers of chips whose correct order is not in the repository. Vendor cores
(Aurora, GTY, the FIFOs and the AXI fabric), the Xilinx drivers, lwIP, FatFs and the
IOC are external: they appear in the models as far as the code relies on them.
Fonts, look-up tables, the panel's driver and the text of messages carry no control.
The notes of the components in `PROJECT.json` say what a modelled component leaves
out.
