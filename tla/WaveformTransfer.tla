-------------------------- MODULE WaveformTransfer --------------------------
(***************************************************************************)
(* One waveform recorder of the DSBPM and the transfer of its recordings   *)
(* to the IOC: the handlers of waveformRecorder.c and publisher.c, the     *)
(* arm/full/disarm behaviour of genericWaveformRecorder.v they drive, the  *)
(* UDP network, and the IOC as the protocol header describes it.           *)
(*                                                                         *)
(* The unit of data is one AXI word (bytesPerSample * cyclesPerWord        *)
(* bytes): 1440-byte payloads hold a whole number of words, so counting    *)
(* words instead of bytes is exact.  A word is the pair <<acquisition,     *)
(* index of the word within it>>, which is what lets a property tell the   *)
(* right data from stale or shifted data.                                  *)
(*                                                                         *)
(* The software is one polled thread; the gateware runs beside it, so the  *)
(* two register accesses of the ARM command are separate steps.            *)
(***************************************************************************)
EXTENDS Integers, Sequences, Bags

CONSTANTS
  Capacity,        \* words in the ring buffer     (acqByteCapacity)
  BlockWords,      \* words in one data packet     (WAVEFORM_PAYLOAD_CAPACITY)
  RetryLimit,      \* RETRY_LIMIT
  AcqCounts,       \* the acquisition counts an operator may ask for
  Settings         \* the networks and the bounds to choose from, see below

ASSUME TransferAssumption ==
  /\ Capacity \in Nat \ {0} /\ BlockWords \in Nat \ {0}
  /\ RetryLimit \in Nat \ {0}
  /\ AcqCounts \subseteq 1..Capacity /\ AcqCounts # {}

VARIABLES
  \* struct recorderData, and the subscription kept by publisher.c
  commState, waveformNumber, acqCount, txBlock, bytesLeft,
  bytesInPreviousPacket, startOffset, retryCount,
  timer,           \* "expired": over TIMEOUT_US since sysUsAtPreviousPacket
  subscriber,      \* "none" while subscriberPort = 0
  handler,         \* "arming": the ARM handler is about to write the CSR
  \* the recorder gateware
  hwState,         \* the ARM and IS_FULL bits of the CSR, never both set
  acqCountReg,     \* the ACQUISITION_COUNT register
  acqNeeded,       \* the count latched by the last arm (acqLeft)
  written,         \* words written since the last arm; address = % Capacity
  ended,           \* history, per arm: the words written when it filled, or 0
  \* the network and the client
  toClient, toServer, client,
  \* bookkeeping for the properties and the bounds
  offered,         \* the last waveform number a header was sent for
  announced,       \* what that header said, for the data packets to be judged by
  unanswered,      \* packets sent since the last accepted request
  arms, sets,
  setting          \* what the behaviour takes place in, chosen once

recorderVars == <<commState, txBlock, bytesLeft, bytesInPreviousPacket,
                  startOffset, retryCount, timer>>
hwVars     == <<hwState, acqNeeded, written, ended>>
countVars  == <<waveformNumber, acqCount, acqCountReg, handler>>
netVars    == <<toClient, toServer>>
historyVars == <<offered, announced, unanswered>>
boundVars  == <<arms, sets>>
moving == <<recorderVars, hwVars, countVars, netVars, historyVars, boundVars,
            subscriber, client>>
vars == <<moving, setting>>

\* A setting: what the network and the memory may do,
Duplicating == setting.duplicating  \* a datagram may be delivered twice
Prompt      == setting.prompt       \* none is lost or takes TIMEOUT_US
AllocFails  == setting.allocFails   \* pbuf_alloc may return NULL
\* and the bounds of the model:
NetCapacity == setting.inFlight     \* datagrams in flight in one direction
MaxRun      == setting.words        \* words written in one acquisition
MaxArms     == setting.arms         \* ARM commands
MaxSets     == setting.sets         \* ACQUISITION_COUNT commands

NoWaveform == 0
FirstNumber == 1

-----------------------------------------------------------------------------
(* The network: a bag of datagrams each way, that loses, delays, reorders  *)
(* and, when Duplicating, duplicates them.                                 *)

\* What may be in flight once m has been sent: m may be lost at once, and
\* is lost when the channel is at its bound.
Sent(net, m) ==
  LET room == BagCardinality(net) < NetCapacity
  IN  (IF room THEN {net (+) SetToBag({m})} ELSE {})
        \cup (IF room /\ Prompt THEN {} ELSE {net})

\* What may remain in flight once m has been received.
Left(net, m) ==
  {net (-) SetToBag({m})} \cup (IF Duplicating THEN {net} ELSE {})

-----------------------------------------------------------------------------
(* The ring buffer.                                                        *)

\* The latest word written at an address since the arm; <<0, 0>> is data
\* that the present acquisition did not write.
WordAt(address) ==
  LET laps == {k \in 0..(written - 1) : k % Capacity = address}
  IN  IF laps = {} THEN <<0, 0>>
      ELSE <<Len(ended), CHOOSE k \in laps : \A j \in laps : j <= k>>

Minimum(a, b) == IF a <= b THEN a ELSE b

-----------------------------------------------------------------------------
(* Packets.  "of" is what the properties judge a data packet by: the count *)
(* its header announced, and the count the start offset was computed from  *)
(* (acqCount at that time, which commands may change).                     *)

Header(n, count) == [type |-> "header", wf |-> n, count |-> count]

Data(n, block, words) ==
  [type |-> "data", wf |-> n, block |-> block, words |-> words,
   of |-> announced]

Ack(n, block) == [wf |-> n, block |-> block]

\* A count of packets unanswered; more than RETRY_LIMIT + 1 is not told apart.
OneMore(n) == IF n <= RetryLimit THEN n + 1 ELSE n

\* The variants named ...Mutant below are faults the properties must catch;
\* nothing else uses them.

\* Where the recording begins, from the gateware's next address.
StartOffset == ((written % Capacity) + Capacity - acqCount) % Capacity

\* The block number a header starts from.
FirstBlockMutant == txBlock
FirstBlock == 0

\* dataPacket(), called with the block and the count left that the caller
\* has just decided, sent being the packets unanswered so far.  Without a
\* packet (nothing left, or no pbuf) the transfer is over.
DataPacket(block, left, sent) ==
  LET size    == Minimum(left, BlockWords)
      first   == (startOffset + block * BlockWords) % Capacity
      payload == [j \in 1..size |-> WordAt((first + j - 1) % Capacity)]
  IN  /\ txBlock' = block
      /\ bytesLeft' = left
      /\ \/ /\ left > 0
            /\ commState' = "ACTIVE"
            /\ bytesInPreviousPacket' = size
            /\ timer' = "running"
            /\ unanswered' = OneMore(sent)
            /\ toClient' \in Sent(toClient, Data(waveformNumber, block, payload))
         \/ /\ left = 0 \/ AllocFails
            /\ commState' = "IDLE"
            /\ bytesInPreviousPacket' = 0
            /\ unanswered' = sent
            /\ UNCHANGED <<timer, toClient>>
      /\ UNCHANGED <<startOffset, offered, announced>>

\* headerPacket(): the count and the position of the recording are read
\* back from the gateware each time.  Without a pbuf only the offset and
\* bytesInPreviousPacket change.
HeaderPacket(sent) ==
  LET count == Minimum(acqCountReg, acqCount)
  IN  /\ startOffset' = StartOffset
      /\ bytesInPreviousPacket' = 0
      /\ \/ /\ commState' = "HEADER"
            /\ txBlock' = FirstBlock
            /\ bytesLeft' = count
            /\ timer' = "running"
            /\ offered' = waveformNumber
            /\ announced' = [count |-> count, from |-> acqCount]
            /\ unanswered' = OneMore(sent)
            /\ toClient' \in Sent(toClient, Header(waveformNumber, count))
         \/ /\ AllocFails
            /\ announced' = [announced EXCEPT !.from = acqCount]
            /\ unanswered' = sent
            /\ UNCHANGED <<commState, txBlock, bytesLeft, timer, offered,
                           toClient>>

-----------------------------------------------------------------------------
(* Register writes.                                                        *)

\* A write of the recorder's CSR, bit being "ARMED" when it has the ARM bit
\* and "DISARMED" when not.  It clears FULL; an arm while armed changes
\* nothing else.
WriteCSR(bit) ==
  /\ hwState' = bit
  /\ IF bit = "ARMED" /\ hwState # "ARMED"
     THEN /\ acqNeeded' = acqCountReg
          /\ written' = 0
          /\ ended' = Append(ended, 0)
     ELSE UNCHANGED <<acqNeeded, written, ended>>

-----------------------------------------------------------------------------
(* The polled software: publisherCheck, publisher_callback and the         *)
(* recorder commands.  None runs between the two halves of ARM.            *)

\* wfrCheckForWork(), commState IDLE and the recorder full.
SendHeader ==
  /\ handler = "none" /\ subscriber = "IOC"
  /\ commState = "IDLE" /\ hwState = "FULL"
  /\ WriteCSR("DISARMED")
  /\ retryCount' = 0
  /\ HeaderPacket(0)
  /\ UNCHANGED <<countVars, toServer, client, subscriber, boundVars>>

\* Whether the n-th retry is still made.
MayRetry(n) == n < RetryLimit

\* The retries counted once another is due.
RetriedMutant == 1
Retried == retryCount + 1

\* wfrCheckForWork(), no request for more than TIMEOUT_US.
Retry ==
  /\ handler = "none" /\ subscriber = "IOC"
  /\ commState # "IDLE" /\ timer = "expired"
  /\ retryCount' = Retried
  /\ IF MayRetry(retryCount')
     THEN \/ commState = "HEADER" /\ HeaderPacket(unanswered)
          \/ commState = "ACTIVE" /\ DataPacket(txBlock, bytesLeft, unanswered)
     ELSE /\ commState' = "IDLE"
          /\ UNCHANGED <<txBlock, bytesLeft, bytesInPreviousPacket, startOffset,
                         timer, historyVars, toClient>>
  /\ UNCHANGED <<hwVars, countVars, toServer, client, subscriber, boundVars>>

\* wfrAckPacket() accepts the request m.
AcceptsMutant(m) ==
  subscriber = "IOC" /\ commState # "IDLE" /\ m.wf = waveformNumber
Accepts(m) ==
  /\ subscriber = "IOC"
  /\ commState # "IDLE"
  /\ m.wf = waveformNumber
  /\ m.block = txBlock

\* What is left to send once the previous packet is known to have arrived.
LeftAfterMutant == bytesLeft
LeftAfter == bytesLeft - Minimum(bytesInPreviousPacket, bytesLeft)

\* publisher_callback(), a request packet: the first moves a transfer from
\* its header to block 0, each later one on to the next block.
ReceiveRequest(m) ==
  /\ handler = "none"
  /\ BagIn(m, toServer)
  /\ toServer' \in Left(toServer, m)
  /\ IF Accepts(m)
     THEN /\ retryCount' = 0
          /\ IF commState = "HEADER"
             THEN DataPacket(txBlock, bytesLeft, 0)
             ELSE DataPacket(txBlock + 1, LeftAfter, 0)
     ELSE UNCHANGED <<recorderVars, historyVars, toClient>>
  /\ UNCHANGED <<hwVars, countVars, client, subscriber, boundVars>>

\* The number of the waveform a recorder not yet armed is to record, and
\* what an ARM command does to a transfer in progress.
NumberOnArmMutant == waveformNumber
NumberOnArm == waveformNumber + 1
StateOnArmMutant == commState
StateOnArm == "IDLE"

\* ARM, first half: look at the CSR, and give a recorder that is not armed
\* its counts and the waveform its number.
ArmRead ==
  /\ handler = "none" /\ arms < MaxArms
  /\ arms' = arms + 1
  /\ IF hwState = "ARMED"
     THEN UNCHANGED <<acqCountReg, waveformNumber>>
     ELSE /\ acqCountReg' = acqCount
          /\ waveformNumber' = NumberOnArm
  /\ commState' = StateOnArm
  /\ handler' = "arming"
  /\ UNCHANGED <<txBlock, bytesLeft, bytesInPreviousPacket, startOffset,
                 retryCount, timer, acqCount, hwVars, netVars, client,
                 historyVars, subscriber, sets>>

\* ARM, second half: write the CSR, whatever the gateware did meanwhile.
ArmWrite ==
  /\ handler = "arming"
  /\ handler' = "none"
  /\ WriteCSR("ARMED")
  /\ UNCHANGED <<recorderVars, waveformNumber, acqCount, acqCountReg, netVars,
                 client, historyVars, subscriber, boundVars>>

\* ARM with value 0: the CSR is written without the ARM bit.
Disarm ==
  /\ handler = "none" /\ arms < MaxArms
  /\ arms' = arms + 1
  /\ WriteCSR("DISARMED")
  /\ UNCHANGED <<recorderVars, countVars, netVars, client, historyVars,
                 subscriber, sets>>

\* ACQUISITION_COUNT: kept in software until the next arm.
SetAcquisitionCount(n) ==
  /\ handler = "none" /\ sets < MaxSets
  /\ sets' = sets + 1
  /\ acqCount' = n
  /\ UNCHANGED <<recorderVars, hwVars, waveformNumber, acqCountReg, handler,
                 netVars, client, historyVars, subscriber, arms>>

\* publisher_callback(), a subscription packet.
Subscribe ==
  /\ handler = "none" /\ subscriber = "none"
  /\ subscriber' = "IOC"
  /\ UNCHANGED <<recorderVars, hwVars, countVars, netVars, client,
                 historyVars, boundVars>>

-----------------------------------------------------------------------------
(* The gateware.                                                           *)

\* Another word reaches the ring buffer.
Record ==
  /\ hwState = "ARMED" /\ written < MaxRun
  /\ written' = written + 1
  /\ UNCHANGED <<recorderVars, hwState, acqNeeded, ended, countVars,
                 netVars, client, historyVars, subscriber, boundVars>>

\* Triggered, and the count asked for has been recorded.
Fill ==
  /\ hwState = "ARMED" /\ written >= acqNeeded
  /\ hwState' = "FULL"
  /\ ended' = [ended EXCEPT ![Len(ended)] = written]
  /\ UNCHANGED <<recorderVars, acqNeeded, written, countVars, netVars, client,
                 historyVars, subscriber, boundVars>>

\* A burst that the memory answers with an error disarms the recorder.
Abort ==
  /\ hwState = "ARMED" /\ hwState' = "DISARMED"
  /\ UNCHANGED <<recorderVars, acqNeeded, written, ended, countVars, netVars,
                 client, historyVars, subscriber, boundVars>>

-----------------------------------------------------------------------------
(* Time, and the client.                                                   *)

\* More than TIMEOUT_US go by after a packet.
TimePasses ==
  /\ commState # "IDLE" /\ timer = "running"
  /\ Prompt => toClient = EmptyBag /\ toServer = EmptyBag
  /\ timer' = "expired"
  /\ UNCHANGED <<commState, txBlock, bytesLeft, bytesInPreviousPacket,
                 startOffset, retryCount, hwVars, countVars, netVars, client,
                 historyVars, subscriber, boundVars>>

\* The client takes up the newest waveform it has heard of and asks for
\* block 0 every time it sees that waveform's header.
ClientHeader(m) ==
  /\ m.type = "header"
  /\ IF m.wf >= client.wf
     THEN /\ client' = IF m.wf = client.wf
                       THEN [client EXCEPT !.count = m.count,
                                           !.asked = Minimum(@ + 1, 2)]
                       ELSE [wf |-> m.wf, count |-> m.count, blocks |-> {},
                             asked |-> 1]
          /\ toServer' \in Sent(toServer, Ack(m.wf, 0))
     ELSE UNCHANGED <<client, toServer>>

\* It keeps the blocks of that waveform, and a block received asks for the
\* next one by naming the block received.
ClientData(m) ==
  /\ m.type = "data"
  /\ IF m.wf = client.wf
     THEN /\ client' = [client EXCEPT !.blocks = @ \cup {m.block}]
          /\ toServer' \in Sent(toServer, Ack(m.wf, m.block))
     ELSE UNCHANGED <<client, toServer>>

ClientReceive(m) ==
  /\ BagIn(m, toClient)
  /\ toClient' \in Left(toClient, m)
  /\ ClientHeader(m) \/ ClientData(m)
  /\ UNCHANGED <<recorderVars, hwVars, countVars, historyVars, subscriber,
                 boundVars>>

-----------------------------------------------------------------------------
Init ==
  /\ setting \in Settings
  /\ commState = "IDLE" /\ waveformNumber = FirstNumber
  /\ acqCount \in AcqCounts
  /\ txBlock = 0 /\ bytesLeft = 0 /\ bytesInPreviousPacket = 0
  /\ startOffset = 0 /\ retryCount = 0 /\ timer = "running"
  /\ subscriber = "none" /\ handler = "none"
  /\ hwState = "DISARMED"
  /\ acqCountReg = 0 /\ acqNeeded = 0 /\ written = 0 /\ ended = <<>>
  /\ toClient = EmptyBag /\ toServer = EmptyBag
  /\ client = [wf |-> NoWaveform, count |-> 0, blocks |-> {}, asked |-> 0]
  /\ offered = FirstNumber
  /\ announced = [count |-> 0, from |-> 0]
  /\ unanswered = 0 /\ arms = 0 /\ sets = 0

Poll == SendHeader \/ Retry
ServerReceive == \E m \in BagToSet(toServer) : ReceiveRequest(m)
ClientStep == \E m \in BagToSet(toClient) : ClientReceive(m)
Command == ArmRead \/ Disarm \/ Subscribe
             \/ \E n \in AcqCounts : SetAcquisitionCount(n)
Gateware == Record \/ Fill \/ Abort

Step == Poll \/ ServerReceive \/ ClientStep \/ Command \/ ArmWrite
          \/ Gateware \/ TimePasses

Next == Step /\ UNCHANGED setting

Spec == Init /\ [][Next]_vars

\* The main loop polls for ever and finishes the command it is in, and
\* time goes by.
Fairness == WF_moving(Poll) /\ WF_moving(ArmWrite) /\ WF_moving(TimePasses)

\* A prompt network delivers, and the client answers.
Delivery == WF_moving(Prompt /\ ServerReceive) /\ WF_moving(Prompt /\ ClientStep)

FairSpec == Spec /\ Fairness /\ Delivery

-----------------------------------------------------------------------------
TypeOK ==
  /\ commState \in {"IDLE", "HEADER", "ACTIVE"}
  /\ waveformNumber \in Nat /\ offered \in Nat
  /\ acqCount \in AcqCounts /\ acqCountReg \in 0..Capacity
  /\ txBlock \in Nat
  /\ bytesLeft \in 0..Capacity /\ bytesInPreviousPacket \in 0..BlockWords
  /\ startOffset \in 0..(Capacity - 1)
  /\ retryCount \in 0..RetryLimit /\ unanswered \in Nat
  /\ timer \in {"running", "expired"} /\ subscriber \in {"none", "IOC"}
  /\ handler \in {"none", "arming"} /\ hwState \in {"DISARMED", "ARMED", "FULL"}
  /\ acqNeeded \in 0..Capacity /\ written \in Nat /\ ended \in Seq(Nat)

(* No recording runs, and no newer one waits, while a waveform is being    *)
(* sent: the buffer that dataPacket copies from is never written under it, *)
(* whatever commands and gateware steps come in between.                   *)
NothingRecordedUnderTransfer ==
  commState # "IDLE" => hwState = "DISARMED"

(* RETRY_LIMIT bounds what is sent to a client that stopped asking: a      *)
(* packet goes out at most RETRY_LIMIT times without a request in between, *)
(* even when pbuf_alloc fails now and then.                                *)
RetriesBounded ==
  /\ unanswered <= RetryLimit
  /\ commState # "IDLE" => retryCount < RetryLimit

(* Every data packet in flight holds the words its header promised: the    *)
(* block-th group of the last "count" words of one acquisition, in order,  *)
(* across the end of the ring buffer, and none of an earlier acquisition.  *)
(* (Not claimed when ACQUISITION_COUNT changed after the arm so that the   *)
(* start offset came from another count than the one announced.)           *)
PayloadIsTheRecording ==
  \A m \in BagToSet(toClient) :
    m.type = "data" /\ m.of.from = m.of.count =>
      LET before == m.block * BlockWords
          acq    == m.words[1][1]
      IN  /\ acq \in 1..Len(ended)
          /\ Len(m.words) = Minimum(m.of.count - before, BlockWords)
          /\ \A j \in DOMAIN m.words :
               m.words[j] = <<acq, ended[acq] - m.of.count + before + j - 1>>

(* Waveform numbers identify acquisitions: when a transfer is opened, its  *)
(* number is larger than that of every header sent before, so a late       *)
(* request or data packet is never taken for one of the new waveform.      *)
FreshNumberPerOffer ==
  [][commState = "IDLE" /\ commState' = "HEADER" =>
       waveformNumber > offered]_vars

(* The server is at block b only when the client holds every earlier       *)
(* block, as "It then sends each block when requested" (dsbpmProtocol.h)   *)
(* says.                                                                   *)
EachBlockWhenRequested ==
  commState = "ACTIVE" /\ client.wf = waveformNumber =>
    0..(txBlock - 1) \subseteq client.blocks

(* The server is at block b only when the client holds every earlier       *)
(* block, as long as the client has seen the header only once and the      *)
(* network repeats nothing: a header's request is the one that may be      *)
(* taken for a block's, and it takes a second one for that.                *)
BlocksFollowRequests ==
  commState = "ACTIVE" /\ client.wf = waveformNumber /\ client.asked <= 1 /\ ~Duplicating =>
    0..(txBlock - 1) \subseteq client.blocks

(* Every transfer ends, with or without a client.                          *)
TransferEnds == commState # "IDLE" ~> commState = "IDLE"

ArmsBound == CHOOSE n \in {s.arms : s \in Settings} : \A s \in Settings : n >= s.arms

ClientHasAll ==
  /\ client.wf = waveformNumber
  /\ \A b \in 0..((client.count - 1) \div BlockWords) : b \in client.blocks

(* With a subscribed client and a network that neither loses nor delays,   *)
(* a filled recorder's waveform reaches the client, unless it is armed or  *)
(* disarmed again.                                                         *)
FilledIsDelivered ==
  \A n \in 0..ArmsBound :
    (Prompt /\ hwState = "FULL" /\ handler = "none" /\ subscriber = "IOC" /\ arms = n)
      ~> (ClientHasAll \/ arms > n)

\* How far the offer has got, in the terms of WaveformOffer.
OfferedBlock ==
  IF commState = "IDLE" THEN -2 ELSE IF commState = "HEADER" THEN -1 ELSE txBlock

Offers == INSTANCE WaveformOffer WITH number <- offered, block <- OfferedBlock

(* The recorder implements WaveformOffer: one offer at a time, fresh       *)
(* numbers, and blocks in order without a gap, through retries, failed     *)
(* allocations, commands and stale requests.                               *)
ImplementsOffers == Offers!Spec

Recorded == INSTANCE WaveformRecording
  WITH ArmCounts <- AcqCounts, needed <- acqNeeded, recordings <- Len(ended)

(* The recorder that the software drives here is one that WaveformRecording*)
(* describes, as WaveformRecorder is: the two models agree on the bits, the*)
(* count and the words that software and gateware meet in.                 *)
ImplementsRecording == Recorded!Spec

(* ARM leaves the count that the operator asked for latched, although the  *)
(* recorder may fill, or an ARM be repeated, between its two halves: a     *)
(* full recorder holds that many words, and they are where they are read.  *)
RingIsRead ==
  /\ hwState = "FULL" => acqNeeded \in AcqCounts /\ written >= acqNeeded
  /\ Recorded!HeldBy([a \in 0..(Capacity - 1) |-> WordAt(a)])

=============================================================================
