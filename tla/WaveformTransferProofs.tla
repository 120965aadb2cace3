----------------------- MODULE WaveformTransferProofs -----------------------
(***************************************************************************)
(* Safety of the waveform transfer for every ring size, packet size, retry *)
(* limit and network, with no bound on waveforms: the inductive invariant  *)
(* behind NothingRecordedUnderTransfer and RetriesBounded, the freshness   *)
(* of waveform numbers, the implementation of WaveformOffer, and what the  *)
(* data packets hold.                                                      *)
(***************************************************************************)
EXTENDS WaveformTransfer, Remainders, SequenceTheorems, TLAPS

\* A transfer excludes a recording, a waiting one, and a half-done ARM.
ExclusionInv ==
  /\ commState # "IDLE" => hwState = "DISARMED"
  /\ handler = "arming" => commState = "IDLE"

\* Whatever is or may become full has a number no header has used.
NumberInv ==
  /\ offered <= waveformNumber
  /\ hwState # "DISARMED" \/ handler = "arming" => offered < waveformNumber
  /\ commState # "IDLE" => offered = waveformNumber

\* Packets unanswered are counted by the retry counter.
RetryInv ==
  /\ unanswered <= RetryLimit
  /\ commState # "IDLE" => retryCount < RetryLimit
                             /\ unanswered <= retryCount + 1

BlockInv == commState = "HEADER" => txBlock = 0

\* An armed recorder has its entry in the history of acquisitions.
HistoryInv == hwState = "ARMED" => Len(ended) > 0

IInv == TypeOK /\ HistoryInv /\ ExclusionInv /\ NumberInv /\ RetryInv /\ BlockInv

-----------------------------------------------------------------------------
(* What the two packet makers and the register write leave behind.         *)

\* dataPacket(): the transfer goes on at the block it was given, or is over.
LEMMA DataPacketResult ==
  ASSUME TypeOK, NEW block \in Nat, NEW left \in 0..Capacity, NEW sent \in Nat,
         sent <= RetryLimit,
         DataPacket(block, left, sent)
  PROVE  /\ commState' \in {"ACTIVE", "IDLE"}
         /\ txBlock' = block /\ bytesLeft' \in 0..Capacity
         /\ bytesInPreviousPacket' \in 0..BlockWords
         /\ unanswered' \in {sent, sent + 1}
         /\ timer' \in {"running", "expired"}
         /\ UNCHANGED <<startOffset, offered>>
  BY TransferAssumption DEF DataPacket, TypeOK, Minimum, OneMore

\* headerPacket(): the offer is made under the present number, or nothing
\* but the start offset changes.
LEMMA HeaderPacketResult ==
  ASSUME TypeOK, NEW sent \in Nat, sent <= RetryLimit, HeaderPacket(sent)
  PROVE  /\ \/ /\ commState' = "HEADER" /\ txBlock' = 0
               /\ offered' = waveformNumber /\ unanswered' = sent + 1
            \/ /\ UNCHANGED <<commState, txBlock, offered>>
               /\ unanswered' = sent
         /\ bytesLeft' \in 0..Capacity
         /\ bytesInPreviousPacket' \in 0..BlockWords
         /\ startOffset' \in 0..(Capacity - 1)
         /\ timer' \in {"running", "expired"}
<1>1. startOffset' \in 0..(Capacity - 1)
  <2>1. /\ Capacity \in Nat \ {0} /\ written \in Nat /\ acqCount \in 1..Capacity
        /\ startOffset' = ((written % Capacity) + Capacity - acqCount) % Capacity
    BY TransferAssumption DEF TypeOK, HeaderPacket, StartOffset
  <2>2. written % Capacity \in 0..(Capacity - 1)
    BY <2>1
  <2> DEFINE from == (written % Capacity) + Capacity - acqCount
  <2>3. from \in Nat
    BY <2>1, <2>2
  <2>4. from % Capacity \in 0..(Capacity - 1)
    BY <2>1, <2>3
  <2> QED BY <2>1, <2>4
<1>2. Minimum(acqCountReg, acqCount) \in 0..Capacity
  BY TransferAssumption DEF Minimum, TypeOK
<1>3. bytesInPreviousPacket' \in 0..BlockWords
  BY TransferAssumption DEF HeaderPacket
<1>4. CASE commState' = "HEADER" /\ txBlock' = 0 /\ timer' = "running"
           /\ bytesLeft' = Minimum(acqCountReg, acqCount)
           /\ offered' = waveformNumber /\ unanswered' = sent + 1
  BY <1>1, <1>2, <1>3, <1>4
<1>5. CASE UNCHANGED <<commState, txBlock, bytesLeft, timer, offered>>
           /\ unanswered' = sent
  BY <1>1, <1>3, <1>5 DEF TypeOK
<1>6. QED BY <1>4, <1>5 DEF HeaderPacket, FirstBlock, OneMore

\* A write of the CSR sets the state to the ARM bit.
LEMMA WriteCSRResult ==
  ASSUME TypeOK, NEW bit \in {"ARMED", "DISARMED"}, WriteCSR(bit)
  PROVE  /\ hwState' = bit
         /\ acqNeeded' \in 0..Capacity /\ written' \in Nat
         /\ ended' \in Seq(Nat)
         /\ bit = "ARMED" /\ (hwState = "ARMED" => Len(ended) > 0) => Len(ended') > 0
<1>1. Append(ended, 0) \in Seq(Nat) /\ Len(Append(ended, 0)) > 0
  BY DEF TypeOK
<1>2. CASE bit = "ARMED" /\ hwState # "ARMED"
  <2>1. /\ hwState' = bit /\ acqNeeded' = acqCountReg
        /\ written' = 0 /\ ended' = Append(ended, 0)
    BY <1>2 DEF WriteCSR
  <2> QED BY <1>1, <2>1 DEF TypeOK
<1>3. CASE ~(bit = "ARMED" /\ hwState # "ARMED")
  <2>1. hwState' = bit /\ UNCHANGED <<acqNeeded, written, ended>>
    BY <1>3 DEF WriteCSR
  <2> QED BY <1>3, <2>1 DEF TypeOK
<1> QED BY <1>2, <1>3
-----------------------------------------------------------------------------
LEMMA InitInv == Init => IInv
  BY TransferAssumption
  DEF Init, IInv, TypeOK, HistoryInv, ExclusionInv, NumberInv, RetryInv,
      BlockInv, FirstNumber

LEMMA StepInv == IInv /\ [Next]_vars => IInv'
<1> SUFFICES ASSUME IInv, [Next]_vars PROVE IInv'
  OBVIOUS
<1> USE TransferAssumption DEF IInv, HistoryInv, ExclusionInv, NumberInv,
        RetryInv, BlockInv
<1>1. CASE SendHeader
  <2>1. HeaderPacket(0) /\ WriteCSR("DISARMED") /\ commState = "IDLE" /\ hwState = "FULL"
    BY <1>1 DEF SendHeader
  <2>2. UNCHANGED <<countVars, subscriber>> /\ retryCount' = 0 /\ handler = "none"
    BY <1>1 DEF SendHeader
  <2>3. /\ hwState' = "DISARMED" /\ acqNeeded' \in 0..Capacity
        /\ written' \in Nat /\ ended' \in Seq(Nat)
    <3>1. TypeOK /\ "DISARMED" \in {"ARMED", "DISARMED"}
      OBVIOUS
    <3> HIDE TransferAssumption DEF IInv, HistoryInv, ExclusionInv, NumberInv, RetryInv, BlockInv
    <3> QED BY <2>1, <3>1, WriteCSRResult
  <2>4. /\ \/ /\ commState' = "HEADER" /\ txBlock' = 0
              /\ offered' = waveformNumber /\ unanswered' = 1
           \/ /\ UNCHANGED <<commState, txBlock, offered>>
              /\ unanswered' = 0
        /\ bytesLeft' \in 0..Capacity
        /\ bytesInPreviousPacket' \in 0..BlockWords
        /\ startOffset' \in 0..(Capacity - 1)
        /\ timer' \in {"running", "expired"}
    BY <2>1, HeaderPacketResult
  <2>5. TypeOK'
    BY <2>1, <2>2, <2>3, <2>4 DEF TypeOK, countVars
  <2>6. QED
    <3>1. HistoryInv' /\ ExclusionInv' /\ BlockInv'
      BY <2>1, <2>2, <2>3, <2>4 DEF countVars
    <3>2. NumberInv' /\ RetryInv'
      BY <2>1, <2>2, <2>3, <2>4 DEF TypeOK, countVars
    <3> QED BY <2>5, <3>1, <3>2
<1>2. CASE Retry
  <2>1. /\ UNCHANGED <<hwVars, countVars, subscriber>> /\ handler = "none"
        /\ retryCount' = retryCount + 1 /\ commState # "IDLE"
    BY <1>2 DEF Retry, Retried
  <2>2. CASE retryCount' < RetryLimit /\ HeaderPacket(unanswered)
    <3>1. /\ \/ /\ commState' = "HEADER" /\ txBlock' = 0
                /\ offered' = waveformNumber /\ unanswered' = unanswered + 1
             \/ /\ UNCHANGED <<commState, txBlock, offered>>
                /\ unanswered' = unanswered
          /\ bytesLeft' \in 0..Capacity
          /\ bytesInPreviousPacket' \in 0..BlockWords
          /\ startOffset' \in 0..(Capacity - 1)
          /\ timer' \in {"running", "expired"}
      <4>1. TypeOK /\ unanswered \in Nat /\ unanswered <= RetryLimit
        BY DEF TypeOK
      <4> HIDE TransferAssumption DEF IInv, HistoryInv, ExclusionInv, NumberInv, RetryInv, BlockInv
      <4> QED BY <2>2, <4>1, HeaderPacketResult
    <3>2. TypeOK'
      BY <2>1, <2>2, <3>1 DEF TypeOK, countVars, hwVars
    <3>3. HistoryInv' /\ ExclusionInv' /\ BlockInv'
      BY <2>1, <3>1 DEF countVars, hwVars
    <3>4. NumberInv' /\ RetryInv'
      BY <2>1, <2>2, <3>1 DEF TypeOK, countVars, hwVars
    <3> QED BY <3>2, <3>3, <3>4
  <2>3. CASE /\ retryCount' < RetryLimit /\ commState = "ACTIVE"
             /\ DataPacket(txBlock, bytesLeft, unanswered)
    <3>1. /\ commState' \in {"ACTIVE", "IDLE"}
          /\ txBlock' = txBlock /\ bytesLeft' \in 0..Capacity
          /\ bytesInPreviousPacket' \in 0..BlockWords
          /\ unanswered' \in {unanswered, unanswered + 1}
          /\ timer' \in {"running", "expired"}
          /\ UNCHANGED <<startOffset, offered>>
      BY <2>3, DataPacketResult DEF TypeOK
    <3> QED BY <2>1, <2>3, <3>1 DEF TypeOK, countVars, hwVars
  <2>4. CASE /\ ~(retryCount' < RetryLimit) /\ commState' = "IDLE"
             /\ UNCHANGED <<txBlock, bytesLeft, bytesInPreviousPacket, startOffset,
                            timer, historyVars, toClient>>
    BY <2>1, <2>4 DEF TypeOK, countVars, hwVars, historyVars
  <2>5. QED BY <1>2, <2>2, <2>3, <2>4 DEF Retry, MayRetry
<1>3. CASE ServerReceive
  <2>1. PICK m : ReceiveRequest(m)
    BY <1>3 DEF ServerReceive
  <2>2. UNCHANGED <<hwVars, countVars, subscriber>> /\ handler = "none"
    BY <2>1 DEF ReceiveRequest
  <2>3. CASE ~Accepts(m)
    <3>1. UNCHANGED <<recorderVars, historyVars>>
      BY <2>1, <2>3 DEF ReceiveRequest
    <3> QED BY <2>2, <3>1 DEF TypeOK, countVars, hwVars, recorderVars, historyVars
  <2>4. CASE Accepts(m)
    <3>1. retryCount' = 0 /\ commState # "IDLE"
      BY <2>1, <2>4 DEF ReceiveRequest, Accepts
    <3>2. PICK block \in Nat, n \in 0..Capacity : DataPacket(block, n, 0)
      <4>1. /\ txBlock \in Nat /\ txBlock + 1 \in Nat
            /\ Capacity \in Nat /\ bytesLeft \in 0..Capacity
            /\ bytesInPreviousPacket \in Nat
        BY DEF TypeOK
      <4>2. LeftAfter \in 0..Capacity
        BY <4>1 DEF Minimum, LeftAfter
      <4>3. DataPacket(txBlock, bytesLeft, 0) \/ DataPacket(txBlock + 1, LeftAfter, 0)
        BY <2>1, <2>4 DEF ReceiveRequest
      <4> QED BY <4>1, <4>2, <4>3
    <3>3. /\ commState' \in {"ACTIVE", "IDLE"}
          /\ txBlock' \in Nat /\ bytesLeft' \in 0..Capacity
          /\ bytesInPreviousPacket' \in 0..BlockWords
          /\ unanswered' \in {0, 1}
          /\ timer' \in {"running", "expired"}
          /\ UNCHANGED <<startOffset, offered>>
      <4>1. TypeOK /\ 0 \in Nat /\ 0 <= RetryLimit
        OBVIOUS
      <4> HIDE TransferAssumption DEF IInv, HistoryInv, ExclusionInv, NumberInv, RetryInv, BlockInv
      <4> QED BY <3>2, <4>1, DataPacketResult
    <3>4. TypeOK'
      BY <2>2, <3>1, <3>3 DEF TypeOK, countVars, hwVars
    <3>5. HistoryInv' /\ ExclusionInv' /\ NumberInv' /\ BlockInv'
      BY <2>2, <3>1, <3>3 DEF TypeOK, countVars, hwVars
    <3>6. RetryInv'
      BY <3>1, <3>3
    <3> QED BY <3>4, <3>5, <3>6
  <2>5. QED BY <2>3, <2>4
<1>4. CASE ArmRead
  BY <1>4 DEF ArmRead, NumberOnArm, StateOnArm, TypeOK, hwVars, historyVars
<1>5. CASE ArmWrite
  <2>1. WriteCSR("ARMED") /\ handler = "arming" /\ handler' = "none"
    BY <1>5 DEF ArmWrite
  <2>2. UNCHANGED <<recorderVars, waveformNumber, acqCount, acqCountReg,
                    historyVars, subscriber>>
    BY <1>5 DEF ArmWrite
  <2>3. /\ hwState' = "ARMED" /\ acqNeeded' \in 0..Capacity
        /\ written' \in Nat /\ ended' \in Seq(Nat) /\ Len(ended') > 0
    <3>1. /\ TypeOK /\ "ARMED" \in {"ARMED", "DISARMED"}
          /\ hwState = "ARMED" => Len(ended) > 0
      OBVIOUS
    <3> HIDE TransferAssumption DEF IInv, HistoryInv, ExclusionInv, NumberInv, RetryInv, BlockInv
    <3> QED BY <2>1, <3>1, WriteCSRResult
  <2>4. QED BY <2>1, <2>2, <2>3 DEF TypeOK, recorderVars, historyVars
<1>6. CASE Disarm
  <2>1. WriteCSR("DISARMED")
    BY <1>6 DEF Disarm
  <2>2. UNCHANGED <<recorderVars, countVars, historyVars, subscriber>>
    BY <1>6 DEF Disarm
  <2>3. QED BY <2>1, <2>2, WriteCSRResult DEF TypeOK, recorderVars, countVars, historyVars
<1>7. ASSUME NEW n \in AcqCounts, SetAcquisitionCount(n) PROVE IInv'
  BY <1>7 DEF SetAcquisitionCount, TypeOK, recorderVars, hwVars, historyVars
<1>8. CASE Subscribe
  BY <1>8 DEF Subscribe, TypeOK, recorderVars, hwVars, countVars, historyVars
<1>9. CASE Record
  BY <1>9 DEF Record, TypeOK, recorderVars, countVars, historyVars
<1>10. CASE Fill
  <2>1. ended' \in Seq(Nat)
    <3>1. ended \in Seq(Nat) /\ written \in Nat
          /\ ended' = [ended EXCEPT ![Len(ended)] = written]
      BY <1>10 DEF Fill, TypeOK
    <3>2. Len(ended) \in 1..Len(ended)
      BY <3>1, <1>10 DEF Fill
    <3> QED BY <3>1, <3>2, ExceptSeq
  <2>2. QED BY <1>10, <2>1 DEF Fill, TypeOK, recorderVars, countVars, historyVars
<1>11. CASE TimePasses
  BY <1>11 DEF TimePasses, TypeOK, hwVars, countVars, historyVars
<1>12. CASE ClientStep
  <2>1. UNCHANGED <<recorderVars, hwVars, countVars, historyVars, subscriber>>
    BY <1>12 DEF ClientStep, ClientReceive
  <2>2. QED BY <2>1 DEF TypeOK, recorderVars, hwVars, countVars, historyVars
<1>13. CASE UNCHANGED vars
  BY <1>13 DEF vars, moving, TypeOK, recorderVars, hwVars, countVars, historyVars
<1>14. CASE Abort
  BY <1>14 DEF Abort, TypeOK, recorderVars, countVars, historyVars
<1>15. QED
  BY <1>1, <1>2, <1>3, <1>4, <1>5, <1>6, <1>7, <1>8, <1>9, <1>10, <1>11, <1>12,
     <1>13, <1>14 DEF Next, Step, Poll, Command, Gateware

\* Every reachable state satisfies the inductive invariant.
LEMMA InvHolds == Spec => []IInv
  BY InitInv, StepInv, PTL DEF Spec

-----------------------------------------------------------------------------
(* The variables of the recorder keep their types, for any number of       *)
(* waveforms: blocks, counts, offsets and counters stay in their ranges.   *)
THEOREM TypeCorrect == Spec => []TypeOK
<1>1. IInv => TypeOK
  BY DEF IInv
<1> QED BY <1>1, InvHolds, PTL

(* The buffer a waveform is sent from is never being recorded into, nor    *)
(* does a newer recording wait in it (wfrCheckForWork, ARM, wfrAckPacket). *)
THEOREM TransferExcludesRecording == Spec => []NothingRecordedUnderTransfer
<1>1. IInv => NothingRecordedUnderTransfer
  BY DEF IInv, ExclusionInv, NothingRecordedUnderTransfer
<1> QED BY <1>1, InvHolds, PTL

(* At most RETRY_LIMIT packets go out without an accepted request.         *)
THEOREM RetriesAreBounded == Spec => []RetriesBounded
<1>1. IInv => RetriesBounded
  BY DEF IInv, RetryInv, RetriesBounded
<1> QED BY <1>1, InvHolds, PTL

-----------------------------------------------------------------------------
\* A step that opens a transfer is SendHeader, and what is full has a
\* number no header has used.
LEMMA OpeningStep ==
  ASSUME IInv, [Next]_vars, commState = "IDLE", commState' = "HEADER"
  PROVE  waveformNumber' = waveformNumber /\ waveformNumber > offered
<1>1. CASE SendHeader
  BY <1>1 DEF SendHeader, countVars, IInv, NumberInv, TypeOK
<1>2. CASE Retry
  BY <1>2 DEF Retry
<1>3. CASE ServerReceive
  <2>1. PICK m : ReceiveRequest(m)
    BY <1>3 DEF ServerReceive
  <2>2. ~Accepts(m)
    BY DEF Accepts
  <2> QED BY <2>1, <2>2 DEF ReceiveRequest, recorderVars
<1>4. CASE ~(SendHeader \/ Retry \/ ServerReceive)
  BY <1>4 DEF Next, Step, Poll, Command, Gateware, ClientStep, ArmRead, StateOnArm, ArmWrite, Disarm,
     Subscribe, SetAcquisitionCount, Record, Fill, Abort, TimePasses, ClientReceive,
     recorderVars, vars, moving
<1> QED BY <1>1, <1>2, <1>3, <1>4

(* No waveform number is offered twice: a late packet of one waveform      *)
(* cannot be taken for one of a later waveform.                            *)
THEOREM NumbersAreFresh == Spec => FreshNumberPerOffer
<1>1. IInv /\ [Next]_vars =>
        [commState = "IDLE" /\ commState' = "HEADER" => waveformNumber > offered]_vars
  BY OpeningStep
<1> QED BY <1>1, InvHolds, PTL DEF Spec, FreshNumberPerOffer

-----------------------------------------------------------------------------
LEMMA InitOffers == Init => Offers!Init
  BY DEF Init, Offers!Init, Offers!NoOffer, OfferedBlock

\* Every step of the recorder is a step of the abstract offer or leaves it.
LEMMA StepOffers == IInv /\ [Next]_vars => [Offers!Next]_(Offers!vars)
<1> SUFFICES ASSUME IInv, [Next]_vars PROVE [Offers!Next]_(Offers!vars)
  OBVIOUS
<1>t. /\ commState \in {"IDLE", "HEADER", "ACTIVE"} /\ txBlock \in Nat
      /\ waveformNumber \in Nat /\ offered \in Nat
      /\ commState = "HEADER" => txBlock = 0
      /\ commState # "IDLE" => offered = waveformNumber
  BY DEF IInv, TypeOK, BlockInv, NumberInv
\* The three ways a recorder changes its offer.
<1>o. ASSUME commState = "IDLE", commState' = "HEADER",
             offered' = waveformNumber, waveformNumber > offered
      PROVE  Offers!Offer
  BY <1>t, <1>o DEF Offers!Offer, Offers!NoOffer, Offers!HeaderSent, OfferedBlock
<1>n. ASSUME commState # "IDLE", commState' = "ACTIVE", offered' = offered,
             txBlock' = IF commState = "HEADER" THEN 0 ELSE txBlock + 1
      PROVE  Offers!SendNext
  BY <1>t, <1>n DEF Offers!SendNext, Offers!NoOffer, OfferedBlock
<1>c. ASSUME commState # "IDLE", commState' = "IDLE", offered' = offered
      PROVE  Offers!Close
  BY <1>t, <1>c DEF Offers!Close, Offers!NoOffer, OfferedBlock
<1>u. ASSUME UNCHANGED <<commState, txBlock, offered>>
      PROVE  UNCHANGED Offers!vars
  BY <1>u DEF Offers!vars, OfferedBlock
<1>1. CASE SendHeader
  <2>1. HeaderPacket(0) /\ commState = "IDLE" /\ waveformNumber > offered
    BY <1>1 DEF SendHeader, IInv, NumberInv, TypeOK
  <2>2. \/ commState' = "HEADER" /\ offered' = waveformNumber
        \/ UNCHANGED <<commState, txBlock, offered>>
    BY <2>1 DEF HeaderPacket
  <2> QED BY <2>1, <2>2, <1>o, <1>u DEF Offers!Next
<1>2. CASE Retry
  <2>1. CASE commState = "HEADER" /\ HeaderPacket(unanswered)
    <3>1. UNCHANGED <<commState, txBlock, offered>>
      BY <2>1, <1>t DEF HeaderPacket, FirstBlock, OneMore
    <3> QED BY <3>1, <1>u
  <2>2. CASE commState = "ACTIVE" /\ DataPacket(txBlock, bytesLeft, unanswered)
    <3>1. /\ commState' \in {"ACTIVE", "IDLE"}
          /\ UNCHANGED <<txBlock, offered>>
      BY <2>2 DEF DataPacket
    <3> QED BY <2>2, <3>1, <1>c, <1>u DEF Offers!Next
  <2>3. CASE /\ commState' = "IDLE" /\ commState # "IDLE"
             /\ UNCHANGED <<txBlock, offered>>
    BY <2>3, <1>c DEF Offers!Next
  <2> QED BY <1>2, <2>1, <2>2, <2>3 DEF Retry, historyVars
<1>3. CASE ServerReceive
  <2>1. PICK m : ReceiveRequest(m)
    BY <1>3 DEF ServerReceive
  <2>2. CASE ~Accepts(m)
    BY <2>1, <2>2, <1>u DEF ReceiveRequest, recorderVars, historyVars
  <2>3. CASE Accepts(m) /\ commState = "HEADER"
    <3>1. DataPacket(txBlock, bytesLeft, 0)
      BY <2>1, <2>3 DEF ReceiveRequest
    <3>2. commState' \in {"ACTIVE", "IDLE"} /\ txBlock' = 0 /\ offered' = offered
      BY <3>1, <2>3, <1>t DEF DataPacket
    <3> QED BY <2>3, <3>2, <1>n, <1>c DEF Offers!Next
  <2>4. CASE Accepts(m) /\ commState = "ACTIVE"
    <3>1. DataPacket(txBlock + 1, LeftAfter, 0)
      BY <2>1, <2>4 DEF ReceiveRequest
    <3>2. commState' \in {"ACTIVE", "IDLE"} /\ txBlock' = txBlock + 1
          /\ offered' = offered
      BY <3>1 DEF DataPacket
    <3> QED BY <2>4, <3>2, <1>n, <1>c DEF Offers!Next
  <2> QED BY <2>2, <2>3, <2>4, <1>t DEF Accepts
<1>4. CASE ArmRead
  <2>1. commState' = "IDLE" /\ UNCHANGED <<txBlock, offered>>
    BY <1>4 DEF ArmRead, StateOnArm, historyVars
  <2> QED BY <2>1, <1>c, <1>u DEF Offers!Next
<1>5. CASE ~(SendHeader \/ Retry \/ ServerReceive \/ ArmRead)
  <2>1. UNCHANGED <<commState, txBlock, offered>>
    BY <1>5 DEF Next, Step, Poll, Command, Gateware, ClientStep, ArmWrite, Disarm,
       Subscribe, SetAcquisitionCount, Record, Fill, Abort, TimePasses, ClientReceive,
       recorderVars, historyVars, vars, moving
  <2> QED BY <2>1, <1>u
<1> QED BY <1>1, <1>2, <1>3, <1>4, <1>5

(* The polled server with its retries, failed allocations, concurrent      *)
(* gateware and hostile network implements the abstract sequence of offers.*)
THEOREM TransferImplementsOffers == Spec => ImplementsOffers
  BY InitOffers, StepOffers, InvHolds, PTL DEF Spec, ImplementsOffers, Offers!Spec

-----------------------------------------------------------------------------
(* The data that is sent.                                                  *)

\* What a transfer sends, and what a poll may find full, ended where the
\* buffer ends and holds the count its counter register names.
RecordingInv ==
  /\ hwState = "ARMED" \/ (hwState = "FULL" /\ handler = "none") \/ commState # "IDLE"
       => acqNeeded = acqCountReg
  /\ hwState = "FULL" \/ commState # "IDLE"
       => Len(ended) > 0 /\ ended[Len(ended)] = written /\ acqNeeded <= written

\* Where an offset computed from a count puts the beginning of the recording.
BeginsAt(count) == ((written % Capacity) + Capacity - count) % Capacity

\* The transfer is where its header said it would be.
AnnouncedInv ==
  /\ announced \in [count : Nat, from : Nat]
  /\ commState # "IDLE" =>
       /\ announced.count <= acqCountReg /\ announced.from \in AcqCounts
       /\ startOffset = BeginsAt(announced.from)
       /\ commState = "HEADER" => bytesLeft = announced.count
       /\ commState = "ACTIVE" =>
            /\ bytesLeft > 0
            /\ bytesLeft = announced.count - txBlock * BlockWords
            /\ bytesInPreviousPacket = Minimum(bytesLeft, BlockWords)

\* The data packets that PayloadIsTheRecording is about.
Judged(m) == m.type = "data" /\ m.of.from = m.of.count

\* A packet with the words its header promised, of an acquisition that has
\* ended: no later one can change what is known of it.
Faithful(m) ==
  LET before == m.block * BlockWords
      acq    == m.words[1][1]
  IN  /\ acq \in 1..Len(ended)
      /\ hwState = "ARMED" => acq < Len(ended)
      /\ Len(m.words) = Minimum(m.of.count - before, BlockWords)
      /\ \A j \in DOMAIN m.words :
           m.words[j] = <<acq, ended[acq] - m.of.count + before + j - 1>>

PacketsInv == \A m \in BagToSet(toClient) : Judged(m) => Faithful(m)

DataInv == RecordingInv /\ AnnouncedInv /\ PacketsInv
-----------------------------------------------------------------------------
(* The word found at an address of the ring buffer.                        *)

\* Of the last Capacity words written, each is found at its address.
LEMMA WordFound ==
  ASSUME Capacity \in Nat \ {0}, written \in Nat,
         NEW p \in Nat, p < written, written <= p + Capacity
  PROVE  WordAt(p % Capacity) = <<Len(ended), p>>
<1> DEFINE laps == {k \in 0..(written - 1) : k % Capacity = p % Capacity}
<1>1. p \in laps
  OBVIOUS
<1>2. ASSUME NEW k \in laps PROVE k <= p
  <2>1. k \in Nat /\ k < written /\ k % Capacity = p % Capacity
    OBVIOUS
  <2> SUFFICES ASSUME p < k PROVE FALSE
    BY <2>1
  <2>2. p + Capacity <= k
    <3> HIDE DEF laps
    <3> QED BY <2>1, RemainderApart
  <2> QED BY <2>1, <2>2
<1>3. (CHOOSE k \in laps : \A j \in laps : j <= k) = p
  <2> DEFINE c == CHOOSE k \in laps : \A j \in laps : j <= k
  <2>1. c \in laps /\ \A j \in laps : j <= c
    <3> HIDE DEF laps
    <3> QED BY <1>1, <1>2
  <2>2. c \in Nat /\ p <= c
    BY <1>1, <2>1
  <2>3. c <= p
    BY <1>2, <2>1
  <2> HIDE DEF c
  <2>4. c = p
    BY <2>2, <2>3
  <2> QED BY <2>4 DEF c
<1>4. WordAt(p % Capacity) =
        IF laps = {} THEN <<0, 0>>
        ELSE <<Len(ended), CHOOSE k \in laps : \A j \in laps : j <= k>>
  BY DEF WordAt
<1> HIDE DEF laps
<1> QED BY <1>1, <1>3, <1>4

\* The words from where the recording of a count begins are its words in
\* order, wherever it lies in the ring.
LEMMA WordsFromBeginning ==
  ASSUME Capacity \in Nat \ {0}, written \in Nat,
         NEW count \in 1..Capacity, count <= written,
         NEW b \in Nat, NEW e \in Nat, b + e < count
  PROVE  WordAt((((BeginsAt(count) + b) % Capacity) + e) % Capacity)
           = <<Len(ended), written - count + b + e>>
<1> DEFINE M == Capacity
           p == written - count + b + e
           a == (written % M) + M - count
           x == M - count + b + e
<1>0. M \in Nat /\ M > 0 /\ count \in Nat /\ count <= M
  OBVIOUS
<1>1. written % M \in 0..(M - 1)
  BY <1>0, Rounds
<1>2. a \in Nat /\ x \in Nat /\ p \in Nat
  BY <1>0, <1>1
<1>3. BeginsAt(count) = a % M /\ BeginsAt(count) \in Nat
  <2>1. BeginsAt(count) = a % M
    BY DEF BeginsAt
  <2> HIDE DEF a, M
  <2>2. a % M \in 0..(M - 1)
    BY <1>0, <1>2, Rounds
  <2> QED BY <2>1, <2>2, <1>0
<1>4. ((a % M) + b) \in Nat
  <2> HIDE DEF a
  <2> QED BY <1>3
<1>5. ((((a % M) + b) % M) + e) % M = ((a % M) + b + e) % M
  <2> DEFINE y == (a % M) + b
  <2> HIDE DEF M, a, y
  <2>1. y \in Nat
    BY <1>4 DEF y
  <2>2. ((y % M) + e) % M = (y + e) % M
    BY <1>0, <2>1, RemainderOfSum
  <2> QED BY <2>2 DEF y
<1>6. ((a % M) + b + e) % M = (a + b + e) % M
  <2> DEFINE z == b + e
  <2> HIDE DEF M, a
  <2>1. z \in Nat
    OBVIOUS
  <2>3. a % M \in Nat
    BY <1>0, <1>2, Rounds
  <2>4. (a % M) + b + e = (a % M) + z /\ a + b + e = a + z
    BY <1>2, <2>3
  <2> HIDE DEF z
  <2>2. ((a % M) + z) % M = (a + z) % M
    BY <1>0, <1>2, <2>1, RemainderOfSum
  <2> QED BY <2>2, <2>4
<1>7. a + b + e = (written % M) + x
  BY <1>0, <1>1
<1>8. ((written % M) + x) % M = (written + x) % M
  <2> HIDE DEF M, x
  <2> QED BY <1>0, <1>2, RemainderOfSum
<1>9. written + x = p + M
  BY <1>0
<1>10. (p + M) % M = p % M
  <2> HIDE DEF M, p
  <2> QED BY <1>0, <1>2, RemainderOfRound
<1>11. WordAt(p % M) = <<Len(ended), p>>
  <2>1. p < written /\ written <= p + M
    BY <1>0
  <2> HIDE DEF p
  <2> QED BY <1>2, <2>1, WordFound
<1>12. (((BeginsAt(count) + b) % M) + e) % M = p % M
  <2> HIDE DEF M, p, x, a
  <2> QED BY <1>3, <1>5, <1>6, <1>7, <1>8, <1>9, <1>10
<1> HIDE DEF p
<1> QED BY <1>11, <1>12 DEF p
-----------------------------------------------------------------------------
(* The network holds what was in it and, at most, what was sent.           *)

LEMMA SentHolds ==
  ASSUME NEW net, NEW m, NEW after \in Sent(net, m)
  PROVE  BagToSet(after) \subseteq BagToSet(net) \cup {m}
<1>1. CASE after = net
  BY <1>1
<1>2. CASE after = net (+) SetToBag({m})
  BY <1>2 DEF (+), SetToBag, BagToSet
<1> QED BY <1>1, <1>2 DEF Sent

LEMMA LeftHolds ==
  ASSUME NEW net, NEW m, NEW after \in Left(net, m)
  PROVE  BagToSet(after) \subseteq BagToSet(net)
<1>1. CASE after = net
  BY <1>1
<1>2. CASE after = net (-) SetToBag({m})
  BY <1>2 DEF (-), SetToBag, BagToSet
<1> QED BY <1>1, <1>2 DEF Left
-----------------------------------------------------------------------------
(* What is known of the acquisitions that ended is never changed.          *)

\* The history of acquisitions grows by whole acquisitions, and only the
\* entry of the one being recorded may change.
HistoryKept ==
  /\ Len(ended) <= Len(ended')
  /\ \A i \in 1..Len(ended) :
       i < Len(ended) \/ hwState # "ARMED" => ended'[i] = ended[i]
  /\ hwState' = "ARMED" => hwState = "ARMED" \/ Len(ended) < Len(ended')

LEMMA WriteKeepsHistory ==
  ASSUME TypeOK, NEW bit \in {"ARMED", "DISARMED"}, WriteCSR(bit)
  PROVE  HistoryKept
<1>t. ended \in Seq(Nat) /\ Len(ended) \in Nat
  BY DEF TypeOK
<1>1. CASE bit = "ARMED" /\ hwState # "ARMED"
  <2>1. ended' = Append(ended, 0)
    BY <1>1 DEF WriteCSR
  <2>2. /\ Len(ended') = Len(ended) + 1
        /\ \A i \in 1..Len(ended) : ended'[i] = ended[i]
    BY <1>t, <2>1
  <2> QED BY <1>t, <2>2 DEF HistoryKept
<1>2. CASE ~(bit = "ARMED" /\ hwState # "ARMED")
  BY <1>t, <1>2 DEF WriteCSR, HistoryKept
<1> QED BY <1>1, <1>2

LEMMA HistoryStep == IInv /\ [Next]_vars => HistoryKept
<1> SUFFICES ASSUME IInv, [Next]_vars PROVE HistoryKept
  OBVIOUS
<1>t. TypeOK /\ ended \in Seq(Nat) /\ Len(ended) \in Nat /\ written \in Nat
  BY DEF IInv, TypeOK
<1>1. CASE SendHeader \/ Disarm
  BY <1>t, <1>1, WriteKeepsHistory DEF SendHeader, Disarm
<1>2. CASE ArmWrite
  BY <1>t, <1>2, WriteKeepsHistory DEF ArmWrite
<1>3. CASE Fill
  <2>1. /\ hwState = "ARMED" /\ hwState' = "FULL"
        /\ ended' = [ended EXCEPT ![Len(ended)] = written]
    BY <1>3 DEF Fill
  <2>2. /\ Len(ended') = Len(ended)
        /\ \A i \in 1..Len(ended) : i < Len(ended) => ended'[i] = ended[i]
    BY <1>t, <2>1
  <2>3. hwState = "ARMED" /\ hwState' # "ARMED"
    BY <2>1
  <2> QED BY <1>t, <2>2, <2>3 DEF HistoryKept
<1>4. CASE Abort
  BY <1>t, <1>4 DEF Abort, HistoryKept
<1>5. CASE ~(SendHeader \/ Disarm \/ ArmWrite \/ Fill \/ Abort)
  <2>1. UNCHANGED <<hwState, ended>>
    BY <1>5 DEF Next, Step, Poll, Command, Gateware, Retry, ServerReceive,
       ReceiveRequest, ClientStep, ClientReceive, ArmRead, Subscribe,
       SetAcquisitionCount, Record, TimePasses, hwVars, vars, moving
  <2> QED BY <1>t, <2>1 DEF HistoryKept
<1> QED BY <1>1, <1>2, <1>3, <1>4, <1>5

\* So a packet that was faithful remains so.
LEMMA FaithfulStays ==
  ASSUME TypeOK, HistoryKept, ended' \in Seq(Nat), NEW m, Faithful(m)
  PROVE  Faithful(m)'
<1> DEFINE acq == m.words[1][1]
           before == m.block * BlockWords
<1>1. /\ acq \in 1..Len(ended)
      /\ hwState = "ARMED" => acq < Len(ended)
      /\ Len(m.words) = Minimum(m.of.count - before, BlockWords)
      /\ \A j \in DOMAIN m.words :
           m.words[j] = <<acq, ended[acq] - m.of.count + before + j - 1>>
  BY DEF Faithful
<1>2. Len(ended) \in Nat /\ Len(ended') \in Nat
  BY DEF TypeOK
<1>3. acq \in 1..Len(ended') /\ ended'[acq] = ended[acq]
  <2> HIDE DEF acq
  <2> QED BY <1>1, <1>2 DEF HistoryKept
<1>4. hwState' = "ARMED" => acq < Len(ended')
  <2> HIDE DEF acq
  <2> QED BY <1>1, <1>2 DEF HistoryKept
<1> QED BY <1>1, <1>3, <1>4 DEF Faithful

-----------------------------------------------------------------------------
(* What the two packet makers put into the network.                        *)

\* A packet made of words in order is faithful.
LEMMA DataPacketIsFaithful ==
  ASSUME TypeOK, commState # "IDLE", hwState = "DISARMED", UNCHANGED <<hwState, ended>>,
         RecordingInv, AnnouncedInv,
         NEW block \in Nat, NEW left \in 0..Capacity, NEW sent,
         left > 0 => left = announced.count - block * BlockWords,
         DataPacket(block, left, sent),
         NEW m \in BagToSet(toClient'), m \notin BagToSet(toClient), Judged(m)
  PROVE  Faithful(m)'
<1> DEFINE size == Minimum(left, BlockWords)
           first == (startOffset + block * BlockWords) % Capacity
           payload == [j \in 1..size |-> WordAt((first + j - 1) % Capacity)]
           packet == Data(waveformNumber, block, payload)
<1>1. left > 0 /\ toClient' \in Sent(toClient, packet)
  <2>1. toClient' # toClient
    OBVIOUS
  <2> QED BY <2>1 DEF DataPacket
<1>2. m = packet
  <2> HIDE DEF packet
  <2> QED BY <1>1, SentHolds
<1>3. /\ m.block = block /\ m.words = payload /\ m.of = announced
  <2> HIDE DEF payload
  <2> QED BY <1>2 DEF Data
<1> DEFINE count == announced.count
           b == block * BlockWords
<1>4. /\ Capacity \in Nat \ {0} /\ BlockWords \in Nat \ {0} /\ written \in Nat
      /\ AcqCounts \subseteq 1..Capacity /\ ended \in Seq(Nat)
      /\ acqCountReg \in Nat
  BY TransferAssumption DEF TypeOK
<1>5. b \in Nat
  <2>1. BlockWords \in Nat
    BY <1>4
  <2> QED BY <2>1, SMTT(30)
<1>6. /\ count \in Nat /\ count <= written /\ announced.from = count
      /\ count \in 1..Capacity /\ startOffset = BeginsAt(count)
  <2>1. count \in Nat /\ count <= acqCountReg /\ announced.from \in AcqCounts
        /\ startOffset = BeginsAt(announced.from)
    BY DEF AnnouncedInv
  <2>2. acqNeeded = acqCountReg /\ acqNeeded <= written
    BY DEF RecordingInv
  <2>3. announced.from = count
    BY <1>3 DEF Judged
  <2> QED BY <1>4, <2>1, <2>2, <2>3
<1>7. left = count - b /\ size \in Nat \ {0} /\ size <= left /\ b < count
  BY <1>1, <1>4, <1>5, <1>6 DEF Minimum
<1>8. ASSUME NEW j \in 1..size
      PROVE  payload[j] = <<Len(ended), written - count + b + j - 1>>
  <2> DEFINE e == j - 1
  <2>0. j \in Nat /\ j >= 1 /\ j <= size
    BY <1>7
  <2>1. e \in Nat /\ b + e < count
    <3> HIDE DEF size, b, count
    <3> QED BY <2>0, <1>5, <1>6, <1>7
  <2>2. WordAt((((BeginsAt(count) + b) % Capacity) + e) % Capacity)
          = <<Len(ended), written - count + b + e>>
    <3> HIDE DEF e, b, count
    <3> QED BY <1>4, <1>5, <1>6, <2>1, WordsFromBeginning
  <2>3. first = (BeginsAt(count) + b) % Capacity
    BY <1>6
  <2>4. first \in Nat
    <3>1. BeginsAt(count) \in Nat
      BY <1>6 DEF TypeOK
    <3>2. BeginsAt(count) + b \in Nat
      BY <3>1, <1>5
    <3> DEFINE y == BeginsAt(count) + b
    <3> HIDE DEF y
    <3>3. y % Capacity \in Nat
      BY <1>4, <3>2, Rounds DEF y
    <3> QED BY <2>3, <3>3 DEF y
  <2>5. first + j - 1 = first + e
    <3> HIDE DEF first
    <3> QED BY <2>0, <2>4
  <2>6. payload[j] = WordAt((first + j - 1) % Capacity)
    <3> HIDE DEF first, size
    <3> QED OBVIOUS
  <2>7. written - count + b + e = written - count + b + j - 1
    <3> HIDE DEF b, count
    <3> QED BY <2>0, <1>4, <1>5, <1>6
  <2> HIDE DEF first, payload, b, count, e, size
  <2> QED BY <2>2, <2>3, <2>5, <2>6, <2>7
<1>9. /\ Len(payload) = size /\ DOMAIN payload = 1..size
      /\ payload[1][1] = Len(ended)
  <2>1. 1 \in 1..size
    BY <1>7
  <2>2. payload[1][1] = Len(ended)
    <3> HIDE DEF payload, size, b, count
    <3> QED BY <1>8, <2>1
  <2>3. DOMAIN payload = 1..size
    <3> HIDE DEF size, first
    <3> QED OBVIOUS
  <2>5. payload = [j \in 1..size |-> payload[j]]
    <3> HIDE DEF size, first
    <3> QED OBVIOUS
  <2>4. Len(payload) = size
    <3> DEFINE S == {payload[j] : j \in 1..size}
    <3> HIDE DEF payload, size
    <3>1. size \in Nat /\ payload \in [1..size -> S]
      BY <1>7, <2>3, <2>5
    <3>2. payload \in Seq(S)
      <4> HIDE DEF S
      <4> QED BY <3>1, SeqDef
    <3> HIDE DEF S
    <3>3. DOMAIN payload = 1..Len(payload) /\ Len(payload) \in Nat
      BY <3>2, LenProperties
    <3> QED BY <2>3, <3>1, <3>3
  <2> QED BY <2>2, <2>3, <2>4
<1>10. Len(ended) \in 1..Len(ended) /\ ended[Len(ended)] = written
  BY <1>4 DEF RecordingInv
<1>11. size = Minimum(count - b, BlockWords)
  BY <1>7
<1> HIDE DEF payload, size, packet, first
<1> QED BY <1>3, <1>8, <1>9, <1>10, <1>11 DEF Faithful

\* headerPacket() sends a header of the present waveform, which it offers.
LEMMA HeaderPacketSends ==
  ASSUME NEW sent, HeaderPacket(sent),
         NEW m \in BagToSet(toClient'), m \notin BagToSet(toClient)
  PROVE  m.type = "header" /\ m.wf = waveformNumber /\ offered' = waveformNumber
<1> DEFINE count == Minimum(acqCountReg, acqCount)
<1>1. /\ toClient' \in Sent(toClient, Header(waveformNumber, count))
      /\ offered' = waveformNumber
  <2>1. toClient' # toClient
    OBVIOUS
  <2> QED BY <2>1 DEF HeaderPacket
<1>2. m = Header(waveformNumber, count)
  <2> HIDE DEF count
  <2> QED BY <1>1, SentHolds
<1> HIDE DEF count
<1> QED BY <1>1, <1>2 DEF Header

\* Which is no data packet.
LEMMA HeaderPacketIsHeader ==
  ASSUME NEW sent, HeaderPacket(sent),
         NEW m \in BagToSet(toClient'), m \notin BagToSet(toClient)
  PROVE  ~Judged(m)
BY HeaderPacketSends DEF Judged

\* dataPacket() sends data of the present waveform.
LEMMA DataPacketSends ==
  ASSUME NEW block, NEW left, NEW sent, DataPacket(block, left, sent),
         NEW m \in BagToSet(toClient'), m \notin BagToSet(toClient)
  PROVE  m.type = "data" /\ m.wf = waveformNumber
<1>1. PICK words : toClient' \in Sent(toClient, Data(waveformNumber, block, words))
  <2>1. toClient' # toClient
    OBVIOUS
  <2> QED BY <2>1 DEF DataPacket
<1>2. m = Data(waveformNumber, block, words)
  BY <1>1, SentHolds
<1> QED BY <1>2 DEF Data

-----------------------------------------------------------------------------
(* DataInv is inductive.                                                   *)

LEMMA InitData == Init => DataInv
<1> SUFFICES ASSUME Init PROVE DataInv
  OBVIOUS
<1>1. BagToSet(toClient) = {}
  BY DEF Init, EmptyBag, SetToBag, BagToSet
<1>2. RecordingInv /\ AnnouncedInv
  BY DEF Init, RecordingInv, AnnouncedInv
<1> QED BY <1>1, <1>2 DEF DataInv, PacketsInv

\* What a transfer has to send next, from what it sent.
LEMMA NextBlock ==
  ASSUME TypeOK, AnnouncedInv, commState # "IDLE", NEW block \in Nat, NEW left,
         \/ commState = "HEADER" /\ txBlock = 0 /\ block = txBlock /\ left = bytesLeft
         \/ commState = "ACTIVE" /\ block = txBlock /\ left = bytesLeft
         \/ commState = "ACTIVE" /\ block = txBlock + 1 /\ left = LeftAfter
  PROVE  /\ left \in 0..Capacity
         /\ left > 0 => left = announced.count - block * BlockWords
<1>t. /\ BlockWords \in Nat /\ txBlock \in Nat /\ Capacity \in Nat
      /\ bytesLeft \in 0..Capacity /\ acqCountReg \in Nat
  BY TransferAssumption DEF TypeOK
<1>c. announced.count \in Nat
  BY <1>t DEF AnnouncedInv
<1>1. CASE commState = "HEADER" /\ txBlock = 0 /\ block = txBlock /\ left = bytesLeft
  <2>1. left = announced.count
    BY <1>1 DEF AnnouncedInv
  <2>2. block * BlockWords = 0
    <3>1. 0 * BlockWords = 0
      BY <1>t
    <3> QED BY <1>1, <3>1
  <2> QED BY <1>1, <1>t, <1>c, <2>1, <2>2
<1>2. CASE commState = "ACTIVE" /\ block = txBlock /\ left = bytesLeft
  BY <1>2, <1>t DEF AnnouncedInv
<1>3. CASE commState = "ACTIVE" /\ block = txBlock + 1 /\ left = LeftAfter
  <2> DEFINE b == txBlock * BlockWords
  <2>1. b \in Nat /\ block * BlockWords = b + BlockWords
    <3>1. (txBlock + 1) * BlockWords = txBlock * BlockWords + BlockWords
      BY <1>t, SMTT(30)
    <3>2. txBlock * BlockWords \in Nat
      BY <1>t, SMTT(30)
    <3> QED BY <1>3, <3>1, <3>2
  <2>2. /\ bytesLeft > 0 /\ bytesLeft = announced.count - b
        /\ bytesInPreviousPacket = Minimum(bytesLeft, BlockWords)
    BY <1>3 DEF AnnouncedInv
  <2> HIDE DEF b
  <2>3. LeftAfter = IF bytesLeft <= BlockWords THEN 0 ELSE bytesLeft - BlockWords
    BY <1>t, <2>2 DEF LeftAfter, Minimum
  <2> QED BY <1>3, <1>t, <1>c, <2>1, <2>2, <2>3
<1> QED BY <1>1, <1>2, <1>3

\* dataPacket() leaves the transfer where its header said.
LEMMA DataPacketAnnounced ==
  ASSUME TypeOK, AnnouncedInv, commState # "IDLE",
         NEW block \in Nat, NEW left \in 0..Capacity, NEW sent,
         left > 0 => left = announced.count - block * BlockWords,
         DataPacket(block, left, sent),
         UNCHANGED <<written, acqCountReg>>
  PROVE  AnnouncedInv'
<1>1. UNCHANGED <<announced, startOffset>> /\ commState' \in {"ACTIVE", "IDLE"}
  BY DEF DataPacket
<1>2. CASE commState' = "IDLE"
  BY <1>1, <1>2 DEF AnnouncedInv
<1>3. CASE commState' = "ACTIVE"
  <2>1. /\ left > 0 /\ bytesLeft' = left /\ txBlock' = block
        /\ bytesInPreviousPacket' = Minimum(left, BlockWords)
    BY <1>3 DEF DataPacket
  <2>2. BeginsAt(announced.from)' = BeginsAt(announced.from)
    BY <1>1 DEF BeginsAt
  <2>3. Minimum(left, BlockWords) = Minimum(bytesLeft, BlockWords)'
    BY <2>1 DEF Minimum
  <2> QED BY <1>1, <1>3, <2>1, <2>2, <2>3 DEF AnnouncedInv
<1> QED BY <1>1, <1>2, <1>3

\* headerPacket() announces what the gateware's counter allows, and where
\* the offset it computes puts it.
LEMMA HeaderPacketAnnounced ==
  ASSUME TypeOK, AnnouncedInv, commState # "ACTIVE", NEW sent, HeaderPacket(sent),
         UNCHANGED <<written, acqCountReg>>
  PROVE  AnnouncedInv'
<1>t. /\ acqCountReg \in Nat /\ acqCount \in AcqCounts
      /\ AcqCounts \subseteq 1..Capacity /\ Capacity \in Nat
  BY TransferAssumption DEF TypeOK
<1>2. startOffset' = BeginsAt(acqCount)
  BY DEF HeaderPacket, StartOffset, BeginsAt
<1>3. /\ Minimum(acqCountReg, acqCount) \in Nat /\ acqCount \in Nat
      /\ Minimum(acqCountReg, acqCount) <= acqCountReg
  BY <1>t DEF Minimum
<1>4. announced \in [count : Nat, from : Nat]
  BY DEF AnnouncedInv
<1>5. CASE /\ commState' = "HEADER" /\ bytesLeft' = Minimum(acqCountReg, acqCount)
           /\ announced' = [count |-> Minimum(acqCountReg, acqCount), from |-> acqCount]
  <2>1. /\ announced' \in [count : Nat, from : Nat]
        /\ announced'.count = Minimum(acqCountReg, acqCount) /\ announced'.from = acqCount
    BY <1>3, <1>5
  <2>2. BeginsAt(announced.from)' = BeginsAt(acqCount)
    BY <2>1 DEF BeginsAt
  <2> QED BY <1>t, <1>2, <1>3, <1>5, <2>1, <2>2 DEF AnnouncedInv
<1>6. CASE /\ announced' = [announced EXCEPT !.from = acqCount]
           /\ UNCHANGED <<commState, bytesLeft>>
  <2>1. /\ announced' \in [count : Nat, from : Nat]
        /\ announced'.count = announced.count /\ announced'.from = acqCount
    BY <1>3, <1>4, <1>6
  <2>2. BeginsAt(announced.from)' = BeginsAt(acqCount)
    BY <2>1 DEF BeginsAt
  <2> QED BY <1>t, <1>2, <1>6, <2>1, <2>2 DEF AnnouncedInv, TypeOK
<1> QED BY <1>5, <1>6 DEF HeaderPacket

\* What became known of the recorder holds after every step.
LEMMA StepRecording == IInv /\ RecordingInv /\ [Next]_vars => RecordingInv'
<1> SUFFICES ASSUME IInv, RecordingInv, [Next]_vars PROVE RecordingInv'
  OBVIOUS
<1>t. /\ TypeOK /\ ExclusionInv /\ HistoryInv
      /\ ended \in Seq(Nat) /\ Len(ended) \in Nat /\ written \in Nat
      /\ acqNeeded \in Nat /\ acqCountReg \in Nat
      /\ commState \in {"IDLE", "HEADER", "ACTIVE"}
      /\ hwState \in {"DISARMED", "ARMED", "FULL"}
  BY DEF IInv, TypeOK
<1>1. CASE SendHeader
  <2>1. /\ hwState = "FULL" /\ hwState' = "DISARMED" /\ handler = "none"
        /\ UNCHANGED <<acqNeeded, written, ended, acqCountReg, handler>>
    BY <1>1 DEF SendHeader, WriteCSR, countVars
  <2> QED BY <2>1 DEF RecordingInv
<1>2. CASE Retry
  <2>1. commState # "IDLE" /\ UNCHANGED <<hwVars, countVars>>
    BY <1>2 DEF Retry
  <2> QED BY <2>1 DEF RecordingInv, hwVars, countVars
<1>3. CASE ServerReceive
  <2>1. PICK m : ReceiveRequest(m)
    BY <1>3 DEF ServerReceive
  <2>2. UNCHANGED <<hwVars, countVars>> /\ (commState = "IDLE" => commState' = "IDLE")
    BY <2>1 DEF ReceiveRequest, Accepts, recorderVars
  <2> QED BY <2>2 DEF RecordingInv, hwVars, countVars
<1>4. CASE ArmRead
  <2>1. /\ commState' = "IDLE" /\ handler' = "arming" /\ UNCHANGED hwVars
        /\ hwState = "ARMED" => UNCHANGED acqCountReg
    BY <1>4 DEF ArmRead, StateOnArm
  <2> QED BY <2>1 DEF RecordingInv, hwVars
<1>5. CASE ArmWrite
  <2>1. /\ handler = "arming" /\ WriteCSR("ARMED") /\ hwState' = "ARMED"
        /\ UNCHANGED <<commState, acqCountReg>>
    BY <1>5 DEF ArmWrite, WriteCSR, recorderVars
  <2>2. commState = "IDLE"
    BY <1>t, <2>1 DEF ExclusionInv
  <2>3. acqNeeded' = acqCountReg
    BY <2>1 DEF WriteCSR, RecordingInv
  <2> QED BY <2>1, <2>2, <2>3 DEF RecordingInv
<1>6. CASE Disarm
  <2>1. /\ hwState' = "DISARMED"
        /\ UNCHANGED <<acqNeeded, written, ended, acqCountReg, commState, handler>>
    BY <1>6 DEF Disarm, WriteCSR, recorderVars, countVars
  <2> QED BY <2>1 DEF RecordingInv
<1>7. ASSUME NEW n \in AcqCounts, SetAcquisitionCount(n) PROVE RecordingInv'
  BY <1>7 DEF SetAcquisitionCount, RecordingInv, recorderVars, hwVars
<1>8. CASE Record
  <2>1. /\ hwState = "ARMED"
        /\ UNCHANGED <<hwState, acqNeeded, acqCountReg, commState>>
    BY <1>8 DEF Record, recorderVars, countVars
  <2>2. commState = "IDLE"
    BY <1>t, <2>1 DEF ExclusionInv
  <2> QED BY <2>1, <2>2 DEF RecordingInv
<1>9. CASE Fill
  <2>1. /\ hwState = "ARMED" /\ written >= acqNeeded
        /\ ended' = [ended EXCEPT ![Len(ended)] = written]
        /\ UNCHANGED <<acqNeeded, written, acqCountReg, commState, handler>>
    BY <1>9 DEF Fill, recorderVars, countVars
  <2>2. Len(ended) > 0
    BY <1>t, <2>1 DEF HistoryInv
  <2>3. Len(ended') = Len(ended) /\ ended'[Len(ended)] = written
    BY <1>t, <2>1, <2>2
  <2>4. acqNeeded = acqCountReg /\ acqNeeded <= written
    BY <1>t, <2>1 DEF RecordingInv
  <2>5. UNCHANGED <<acqNeeded, written, acqCountReg>>
    BY <2>1
  <2> QED BY <2>2, <2>3, <2>4, <2>5 DEF RecordingInv
<1>10. CASE Abort
  <2>1. /\ hwState = "ARMED" /\ hwState' = "DISARMED"
        /\ UNCHANGED <<acqNeeded, written, ended, acqCountReg, commState, handler>>
    BY <1>10 DEF Abort, recorderVars, countVars
  <2>2. commState = "IDLE"
    BY <1>t, <2>1 DEF ExclusionInv
  <2> QED BY <2>1, <2>2 DEF RecordingInv
<1>11. CASE Subscribe \/ TimePasses \/ ClientStep \/ UNCHANGED vars
  <2>1. UNCHANGED <<hwState, acqNeeded, written, ended, acqCountReg, commState, handler>>
    BY <1>11 DEF Subscribe, TimePasses, ClientStep, ClientReceive, recorderVars,
       hwVars, countVars, vars, moving
  <2> QED BY <2>1 DEF RecordingInv
<1> QED
  BY <1>1, <1>2, <1>3, <1>4, <1>5, <1>6, <1>7, <1>8, <1>9, <1>10, <1>11
  DEF Next, Step, Poll, Command, Gateware

\* What an accepted request has sent: the block to send and the count left.
LEMMA RequestSends ==
  ASSUME IInv, AnnouncedInv, NEW m, ReceiveRequest(m), Accepts(m)
  PROVE  /\ commState # "IDLE"
         /\ \E block \in Nat, left \in 0..Capacity :
              /\ left > 0 => left = announced.count - block * BlockWords
              /\ DataPacket(block, left, 0)
<1>t. /\ TypeOK /\ txBlock \in Nat /\ commState \in {"IDLE", "HEADER", "ACTIVE"}
      /\ commState = "HEADER" => txBlock = 0
  BY DEF IInv, TypeOK, BlockInv
<1>1. commState # "IDLE"
  BY DEF Accepts
<1>2. CASE commState = "HEADER"
  <2>1. DataPacket(txBlock, bytesLeft, 0)
    BY <1>2 DEF ReceiveRequest
  <2>2. /\ bytesLeft \in 0..Capacity
        /\ bytesLeft > 0 => bytesLeft = announced.count - txBlock * BlockWords
    BY <1>t, <1>1, <1>2, NextBlock
  <2> QED BY <1>t, <1>1, <2>1, <2>2
<1>3. CASE commState = "ACTIVE"
  <2>1. DataPacket(txBlock + 1, LeftAfter, 0)
    BY <1>3 DEF ReceiveRequest
  <2>2. txBlock + 1 \in Nat
    BY <1>t
  <2>3. /\ LeftAfter \in 0..Capacity
        /\ LeftAfter > 0 => LeftAfter = announced.count - (txBlock + 1) * BlockWords
    BY <1>t, <1>1, <1>3, <2>2, NextBlock
  <2> QED BY <1>1, <2>1, <2>2, <2>3
<1> QED BY <1>t, <1>1, <1>2, <1>3

\* What a retry in the middle of a waveform sends again.
LEMMA RetrySends ==
  ASSUME IInv, AnnouncedInv, commState = "ACTIVE"
  PROVE  /\ txBlock \in Nat /\ bytesLeft \in 0..Capacity
         /\ bytesLeft > 0 => bytesLeft = announced.count - txBlock * BlockWords
<1>t. TypeOK /\ txBlock \in Nat
  BY DEF IInv, TypeOK
<1> QED BY <1>t, NextBlock

LEMMA StepAnnounced == IInv /\ AnnouncedInv /\ [Next]_vars => AnnouncedInv'
<1> SUFFICES ASSUME IInv, AnnouncedInv, [Next]_vars PROVE AnnouncedInv'
  OBVIOUS
<1>t. TypeOK /\ ExclusionInv
  BY DEF IInv
<1>1. CASE SendHeader
  <2>1. HeaderPacket(0) /\ commState = "IDLE" /\ UNCHANGED <<written, acqCountReg>>
    BY <1>1 DEF SendHeader, WriteCSR, countVars
  <2> QED BY <1>t, <2>1, HeaderPacketAnnounced
<1>2. CASE Retry
  <2>1. commState # "IDLE" /\ UNCHANGED <<written, acqCountReg>>
    BY <1>2 DEF Retry, hwVars, countVars
  <2>2. CASE commState = "HEADER" /\ HeaderPacket(unanswered)
    BY <1>t, <2>1, <2>2, HeaderPacketAnnounced
  <2>3. CASE commState = "ACTIVE" /\ DataPacket(txBlock, bytesLeft, unanswered)
    BY <1>t, <2>1, <2>3, RetrySends, DataPacketAnnounced
  <2>4. CASE commState' = "IDLE" /\ UNCHANGED announced
    BY <2>4 DEF AnnouncedInv
  <2> QED BY <1>2, <2>2, <2>3, <2>4 DEF Retry, historyVars
<1>3. CASE ServerReceive
  <2>1. PICK m : ReceiveRequest(m)
    BY <1>3 DEF ServerReceive
  <2>2. UNCHANGED <<written, acqCountReg>>
    BY <2>1 DEF ReceiveRequest, hwVars, countVars
  <2>3. CASE Accepts(m)
    <3>1. commState # "IDLE"
      BY <2>1, <2>3, RequestSends
    <3>2. PICK block \in Nat, left \in 0..Capacity :
            /\ left > 0 => left = announced.count - block * BlockWords
            /\ DataPacket(block, left, 0)
      BY <2>1, <2>3, RequestSends
    <3> QED BY <1>t, <2>2, <3>1, <3>2, DataPacketAnnounced
  <2>4. CASE ~Accepts(m)
    <3>1. UNCHANGED <<recorderVars, historyVars>>
      BY <2>1, <2>4 DEF ReceiveRequest
    <3> QED BY <2>2, <3>1 DEF recorderVars, historyVars, AnnouncedInv, BeginsAt, Minimum
  <2> QED BY <2>3, <2>4
<1>4. CASE ArmRead
  BY <1>4 DEF ArmRead, StateOnArm, historyVars, AnnouncedInv
<1>5. CASE ArmWrite
  <2>1. commState = "IDLE" /\ UNCHANGED <<commState, announced>>
    BY <1>5, <1>t DEF ArmWrite, ExclusionInv, recorderVars, historyVars
  <2> QED BY <2>1 DEF AnnouncedInv
<1>6. CASE Record
  <2>1. commState = "IDLE" /\ UNCHANGED <<commState, announced>>
    BY <1>6, <1>t DEF Record, ExclusionInv, recorderVars, historyVars
  <2> QED BY <2>1 DEF AnnouncedInv
<1>7. CASE ~(SendHeader \/ Retry \/ ServerReceive \/ ArmRead \/ ArmWrite \/ Record)
  <2>1. UNCHANGED <<commState, announced, acqCountReg, startOffset, bytesLeft,
                    txBlock, bytesInPreviousPacket, written>>
    BY <1>7 DEF Next, Step, Poll, Command, Gateware, Disarm, WriteCSR, Subscribe,
       SetAcquisitionCount, Fill, Abort, TimePasses, ClientStep, ClientReceive,
       recorderVars, hwVars, countVars, historyVars, vars, moving
  <2> QED BY <2>1 DEF AnnouncedInv, BeginsAt, Minimum
<1> QED BY <1>1, <1>2, <1>3, <1>4, <1>5, <1>6, <1>7

LEMMA StepPackets == IInv /\ DataInv /\ [Next]_vars => PacketsInv'
<1> SUFFICES ASSUME IInv, DataInv, [Next]_vars,
                    NEW m \in BagToSet(toClient'), Judged(m)
             PROVE  Faithful(m)'
  BY DEF PacketsInv
<1>t. /\ TypeOK /\ ExclusionInv /\ RecordingInv /\ AnnouncedInv /\ PacketsInv
  BY DEF IInv, DataInv
<1>h. HistoryKept /\ ended' \in Seq(Nat)
  <2>1. TypeOK'
    BY StepInv DEF IInv
  <2> QED BY <2>1, HistoryStep DEF TypeOK
<1>o. CASE m \in BagToSet(toClient)
  <2>1. Faithful(m)
    BY <1>t, <1>o DEF PacketsInv
  <2> QED BY <1>t, <1>h, <2>1, FaithfulStays
<1>n. CASE m \notin BagToSet(toClient)
  <2>1. CASE SendHeader
    <3>1. HeaderPacket(0)
      BY <2>1 DEF SendHeader
    <3> QED BY <1>n, <3>1, HeaderPacketIsHeader
  <2>2. CASE Retry
    <3>1. commState # "IDLE" /\ UNCHANGED <<hwState, ended>>
      BY <2>2 DEF Retry, hwVars
    <3>2. hwState = "DISARMED"
      BY <1>t, <3>1 DEF ExclusionInv
    <3>3. CASE HeaderPacket(unanswered)
      BY <1>n, <3>3, HeaderPacketIsHeader
    <3>4. CASE commState = "ACTIVE" /\ DataPacket(txBlock, bytesLeft, unanswered)
      BY <1>t, <1>n, <3>1, <3>2, <3>4, RetrySends, DataPacketIsFaithful
    <3>5. CASE UNCHANGED toClient
      BY <1>n, <3>5
    <3> QED BY <2>2, <3>3, <3>4, <3>5 DEF Retry
  <2>3. CASE ServerReceive
    <3>1. PICK r : ReceiveRequest(r)
      BY <2>3 DEF ServerReceive
    <3>2. CASE Accepts(r)
      <4>1. commState # "IDLE"
        BY <3>1, <3>2, <1>t, RequestSends
      <4>2. PICK block \in Nat, left \in 0..Capacity :
              /\ left > 0 => left = announced.count - block * BlockWords
              /\ DataPacket(block, left, 0)
        BY <3>1, <3>2, <1>t, RequestSends
      <4>3. hwState = "DISARMED" /\ UNCHANGED <<hwState, ended>>
        BY <1>t, <3>1, <4>1 DEF ExclusionInv, ReceiveRequest, hwVars
      <4> QED BY <1>t, <1>n, <4>1, <4>2, <4>3, DataPacketIsFaithful
    <3>3. CASE ~Accepts(r)
      <4>1. UNCHANGED toClient
        BY <3>1, <3>3 DEF ReceiveRequest
      <4> QED BY <1>n, <4>1
    <3> QED BY <3>2, <3>3
  <2>4. CASE ClientStep
    <3>1. PICK r : toClient' \in Left(toClient, r)
      BY <2>4 DEF ClientStep, ClientReceive
    <3> QED BY <1>n, <3>1, LeftHolds
  <2>5. CASE ~(SendHeader \/ Retry \/ ServerReceive \/ ClientStep)
    <3>1. UNCHANGED toClient
      BY <2>5 DEF Next, Step, Poll, Command, Gateware, ArmRead, ArmWrite, Disarm,
         Subscribe, SetAcquisitionCount, Record, Fill, Abort, TimePasses, netVars, vars, moving
    <3> QED BY <1>n, <3>1
  <2> QED BY <2>1, <2>2, <2>3, <2>4, <2>5
<1> QED BY <1>o, <1>n

LEMMA DataHolds == Spec => []DataInv
<1>1. IInv /\ DataInv /\ [Next]_vars => DataInv'
  BY StepRecording, StepAnnounced, StepPackets DEF DataInv
<1> QED BY <1>1, InitData, InvHolds, PTL DEF Spec

(* Every data packet in flight holds the words its header promised, in     *)
(* order and of one acquisition, wherever the recording lies in the ring   *)
(* and whatever was lost, repeated or armed since (headerPacket,           *)
(* dataPacket, wfrAckPacket).                                              *)
THEOREM PayloadsAreTheRecording == Spec => []PayloadIsTheRecording
<1>1. DataInv => PayloadIsTheRecording
  <2> SUFFICES ASSUME DataInv, NEW m \in BagToSet(toClient),
                      m.type = "data" /\ m.of.from = m.of.count
               PROVE  Faithful(m)
    BY DEF PayloadIsTheRecording, Faithful
  <2> QED BY DEF DataInv, PacketsInv, Judged
<1> QED BY <1>1, DataHolds, PTL
-----------------------------------------------------------------------------
(* The recorder that the software drives.                                  *)

\* The count that is armed with is one that was asked for, in either half of
\* ARM and whatever the gateware does between them, and FULL comes after it.
ArmedInv ==
  /\ handler = "arming" \/ hwState = "ARMED" => acqCountReg \in AcqCounts
  /\ hwState # "DISARMED" => acqNeeded \in AcqCounts
  /\ hwState = "FULL" => written >= acqNeeded

\* A write of the CSR, in the terms of the abstract recorder.
LEMMA WriteRecorded ==
  ASSUME TypeOK, ArmedInv, NEW bit \in {"ARMED", "DISARMED"}, WriteCSR(bit),
         bit = "ARMED" => acqCountReg \in AcqCounts /\ hwState \in {"DISARMED", "ARMED", "FULL"}
  PROVE  [Recorded!Next]_(Recorded!vars)
<1>t. ended \in Seq(Nat) /\ Len(ended) \in Nat
  BY DEF TypeOK
<1>1. CASE bit = "ARMED" /\ hwState # "ARMED"
  <2>1. /\ hwState' = "ARMED" /\ acqNeeded' = acqCountReg
        /\ written' = 0 /\ ended' = Append(ended, 0)
    BY <1>1 DEF WriteCSR
  <2>2. Len(ended') = Len(ended) + 1
    BY <1>t, <2>1
  <2>3. Recorded!Arm(acqCountReg)
    BY <1>1, <2>1, <2>2 DEF Recorded!Arm
  <2> QED BY <1>1, <2>3 DEF Recorded!Next
<1>2. CASE bit = "ARMED" /\ hwState = "ARMED"
  BY <1>2 DEF WriteCSR, Recorded!vars
<1>3. CASE bit = "DISARMED" /\ hwState = "DISARMED"
  BY <1>3 DEF WriteCSR, Recorded!vars
<1>4. CASE bit = "DISARMED" /\ hwState # "DISARMED"
  <2>1. hwState' = "DISARMED" /\ UNCHANGED <<acqNeeded, written, ended>>
    BY <1>4 DEF WriteCSR
  <2>2. Recorded!Stop
    BY <1>4, <2>1 DEF Recorded!Stop
  <2> QED BY <2>2 DEF Recorded!Next
<1> QED BY <1>1, <1>2, <1>3, <1>4

LEMMA StepArmed == IInv /\ ArmedInv /\ [Next]_vars => ArmedInv'
<1> SUFFICES ASSUME IInv, ArmedInv, [Next]_vars PROVE ArmedInv'
  OBVIOUS
<1>t. /\ TypeOK /\ written \in Nat /\ acqCount \in AcqCounts
      /\ hwState \in {"DISARMED", "ARMED", "FULL"}
  BY DEF IInv, TypeOK
<1>1. CASE SendHeader \/ Disarm
  <2>1. /\ hwState' = "DISARMED" /\ handler = "none"
        /\ UNCHANGED <<handler, acqCountReg>>
    BY <1>1 DEF SendHeader, Disarm, WriteCSR, countVars
  <2> QED BY <2>1 DEF ArmedInv
<1>2. CASE ArmRead
  <2>1. /\ UNCHANGED <<hwState, acqNeeded, written>>
        /\ acqCountReg' = IF hwState = "ARMED" THEN acqCountReg ELSE acqCount
    BY <1>2 DEF ArmRead, hwVars
  <2> QED BY <1>t, <2>1 DEF ArmedInv
<1>3. CASE ArmWrite
  <2>1. /\ handler = "arming" /\ handler' = "none" /\ WriteCSR("ARMED")
        /\ hwState' = "ARMED" /\ UNCHANGED acqCountReg
    BY <1>3 DEF ArmWrite, WriteCSR
  <2>2. acqNeeded' \in AcqCounts
    BY <2>1 DEF WriteCSR, ArmedInv
  <2> QED BY <2>1, <2>2 DEF ArmedInv
<1>4. CASE Record
  BY <1>4 DEF Record, ArmedInv, countVars
<1>5. CASE Fill
  BY <1>5 DEF Fill, ArmedInv, countVars
<1>6. CASE Abort
  BY <1>6 DEF Abort, ArmedInv, countVars
<1>7. CASE ~(SendHeader \/ Disarm \/ ArmRead \/ ArmWrite \/ Record \/ Fill \/ Abort)
  <2>1. UNCHANGED <<hwState, acqNeeded, written, acqCountReg, handler>>
    BY <1>7 DEF Next, Step, Poll, Command, Gateware, Retry, ServerReceive,
       ReceiveRequest, ClientStep, ClientReceive, Subscribe,
       SetAcquisitionCount, TimePasses, hwVars, countVars, vars, moving
  <2> QED BY <2>1 DEF ArmedInv
<1> QED BY <1>1, <1>2, <1>3, <1>4, <1>5, <1>6, <1>7

LEMMA ArmedHolds == Spec => []ArmedInv
<1>1. Init => ArmedInv
  BY DEF Init, ArmedInv
<1> QED BY <1>1, StepArmed, InvHolds, PTL DEF Spec

\* Every step is one of the abstract recorder's, or none of it.
LEMMA StepRecorded == IInv /\ ArmedInv /\ [Next]_vars => [Recorded!Next]_(Recorded!vars)
<1> SUFFICES ASSUME IInv, ArmedInv, [Next]_vars PROVE [Recorded!Next]_(Recorded!vars)
  OBVIOUS
<1>t. /\ TypeOK /\ HistoryInv /\ ended \in Seq(Nat) /\ Len(ended) \in Nat
      /\ hwState \in {"DISARMED", "ARMED", "FULL"}
  BY DEF IInv, TypeOK
<1>1. CASE SendHeader \/ Disarm
  BY <1>t, <1>1, WriteRecorded DEF SendHeader, Disarm
<1>2. CASE ArmWrite
  <2>1. WriteCSR("ARMED") /\ acqCountReg \in AcqCounts
    BY <1>2 DEF ArmWrite, ArmedInv
  <2> QED BY <1>t, <2>1, WriteRecorded
<1>3. CASE Record
  <2>1. Recorded!Record
    BY <1>3 DEF Record, Recorded!Record
  <2> QED BY <2>1 DEF Recorded!Next
<1>4. CASE Fill
  <2>1. /\ hwState = "ARMED" /\ written >= acqNeeded /\ hwState' = "FULL"
        /\ ended' = [ended EXCEPT ![Len(ended)] = written]
        /\ UNCHANGED <<acqNeeded, written>>
    BY <1>4 DEF Fill
  <2>2. Len(ended') = Len(ended)
    BY <1>t, <2>1
  <2>3. Recorded!Fill
    BY <2>1, <2>2 DEF Recorded!Fill
  <2> QED BY <2>3 DEF Recorded!Next
<1>5. CASE Abort
  <2>1. Recorded!Stop
    BY <1>5 DEF Abort, Recorded!Stop
  <2> QED BY <2>1 DEF Recorded!Next
<1>6. CASE ~(SendHeader \/ Disarm \/ ArmWrite \/ Record \/ Fill \/ Abort)
  <2>1. UNCHANGED hwVars
    BY <1>6 DEF Next, Step, Poll, Command, Gateware, Retry, ServerReceive,
       ReceiveRequest, ClientStep, ClientReceive, ArmRead, Subscribe,
       SetAcquisitionCount, TimePasses, vars, moving
  <2> QED BY <2>1 DEF hwVars, Recorded!vars
<1> QED BY <1>1, <1>2, <1>3, <1>4, <1>5, <1>6

(* The gateware that the transfer drives is one that WaveformRecording     *)
(* describes, through both halves of ARM and whatever is commanded: the    *)
(* specification that WaveformRecorder is proved to implement.             *)
THEOREM TransferUsesRecording == Spec => ImplementsRecording
<1>1. Init => Recorded!Init
  BY DEF Init, Recorded!Init
<1> QED
  BY <1>1, StepRecorded, ArmedHolds, InvHolds, PTL
  DEF Spec, ImplementsRecording, Recorded!Spec

(* A full recorder holds as many words as an operator asked for, although  *)
(* it may fill, or be armed again, between the halves of ARM; and the      *)
(* latest words are where the ring is read.                                *)
THEOREM RingsAreRead == Spec => []RingIsRead
<1>1. IInv /\ ArmedInv => RingIsRead
  <2> SUFFICES ASSUME IInv, ArmedInv PROVE RingIsRead
    OBVIOUS
  <2>t. Capacity \in Nat \ {0} /\ written \in Nat
    BY TransferAssumption DEF IInv, TypeOK
  <2>1. hwState = "FULL" => acqNeeded \in AcqCounts /\ written >= acqNeeded
    BY DEF ArmedInv
  <2> DEFINE ring == [a \in 0..(Capacity - 1) |-> WordAt(a)]
  <2>2. ASSUME NEW k \in 0..(written - 1), written <= k + Capacity
        PROVE  ring[k % Capacity] = <<Len(ended), k>>
    <3>1. k \in Nat /\ k < written
      BY <2>t
    <3>2. k % Capacity \in 0..(Capacity - 1)
      BY <2>t, <3>1, Rounds
    <3>3. WordAt(k % Capacity) = <<Len(ended), k>>
      BY <2>t, <2>2, <3>1, WordFound
    <3> QED BY <3>2, <3>3
  <2>3. Recorded!HeldBy(ring)
    BY <2>2 DEF Recorded!HeldBy
  <2> QED BY <2>1, <2>3 DEF RingIsRead
<1> QED BY <1>1, ArmedHolds, InvHolds, PTL
-----------------------------------------------------------------------------
(* The blocks that are sent, and the requests they follow.                 *)

\* What is in the network and what the client knows is of numbers that have
\* been offered, and no request is of a waveform the client has not seen.
NumberedInv ==
  /\ client = [wf |-> client.wf, count |-> client.count,
               blocks |-> client.blocks, asked |-> client.asked]
  /\ client.wf \in NoWaveform..offered /\ client.asked \in 0..2
  /\ client.wf # NoWaveform => client.asked > 0
  /\ offered >= FirstNumber
  /\ \A m \in BagToSet(toClient) : m.wf \in Nat /\ m.wf <= offered
  /\ \A m \in BagToSet(toServer) : m.wf \in Nat /\ m.wf <= client.wf

\* Until block 0 is sent, one request at most is under way; from then on,
\* every request names a block that the client holds.
RequestInv ==
  /\ commState = "HEADER" =>
       \A m \in BagToSet(toClient) : m.wf = waveformNumber => m.type = "header"
  /\ commState = "ACTIVE" => client.wf = waveformNumber
  /\ ~Duplicating /\ client.wf = waveformNumber /\ client.asked <= 1 =>
       /\ commState = "HEADER" =>
            \A m \in BagToSet(toServer) : m.wf = waveformNumber =>
              m = Ack(waveformNumber, 0) /\ toServer[m] = 1
       /\ commState = "ACTIVE" =>
            /\ 0..(txBlock - 1) \subseteq client.blocks
            /\ \A m \in BagToSet(toServer) : m.wf = waveformNumber =>
                 m.block \in client.blocks

\* A datagram that is not in the network yet is there once when it is sent.
LEMMA SentOnce ==
  ASSUME NEW net, NEW m, NEW after \in Sent(net, m), m \notin BagToSet(net),
         m \in BagToSet(after)
  PROVE  after[m] = 1
<1>1. after = net (+) SetToBag({m})
  BY DEF Sent
<1>2. SetToBag({m}) = [e \in {m} |-> 1]
  BY DEF SetToBag
<1> QED BY <1>1, <1>2 DEF (+), BagToSet

\* Without repetitions the one copy of a datagram is gone once received.
LEMMA LeftOnce ==
  ASSUME ~Duplicating, NEW net, NEW m \in BagToSet(net), NEW after \in Left(net, m),
         NEW b \in BagToSet(after), net[b] = 1
  PROVE  after[b] = 1 /\ b # m
<1>1. after = net (-) SetToBag({m})
  BY DEF Left
<1>2. SetToBag({m}) = [e \in {m} |-> 1]
  BY DEF SetToBag
<1>3. b \in BagToSet(net)
  BY LeftHolds
<1>4. after[b] = (IF b = m THEN net[b] - 1 ELSE net[b]) /\ after[b] > 0
  BY <1>1, <1>2, <1>3 DEF (-), BagToSet
<1> QED BY <1>4

\* What the client makes of a packet.
LEMMA ClientTakes ==
  ASSUME IInv, NumberedInv, NEW m \in BagToSet(toClient), ClientReceive(m)
  PROVE  \/ UNCHANGED <<client, toServer>>
         \/ /\ m.type = "header" /\ m.wf > client.wf
            /\ client' = [wf |-> m.wf, count |-> m.count, blocks |-> {}, asked |-> 1]
            /\ toServer' \in Sent(toServer, Ack(m.wf, 0))
         \/ /\ m.type = "header" /\ m.wf = client.wf
            /\ client' = [client EXCEPT !.count = m.count, !.asked = Minimum(@ + 1, 2)]
            /\ toServer' \in Sent(toServer, Ack(m.wf, 0))
         \/ /\ m.type = "data" /\ m.wf = client.wf
            /\ client' = [client EXCEPT !.blocks = @ \cup {m.block}]
            /\ toServer' \in Sent(toServer, Ack(m.wf, m.block))
<1>1. m.wf \in Nat /\ client.wf \in Nat
  BY DEF NumberedInv, NoWaveform, IInv, TypeOK
<1> QED BY <1>1 DEF ClientReceive, ClientHeader, ClientData

\* What the server adds to the network is of the number it has offered.
LEMMA ServerSends ==
  ASSUME IInv, [Next]_vars, ~ClientStep, NEW m \in BagToSet(toClient'),
         m \notin BagToSet(toClient)
  PROVE  m.wf = waveformNumber /\ offered' = waveformNumber
<1>1. CASE SendHeader
  BY <1>1, HeaderPacketSends DEF SendHeader
<1>2. CASE Retry
  <2>1. commState # "IDLE" /\ toClient' # toClient
    BY <1>2 DEF Retry
  <2>2. CASE HeaderPacket(unanswered)
    BY <2>2, HeaderPacketSends
  <2>3. CASE DataPacket(txBlock, bytesLeft, unanswered)
    <3>1. offered' = offered
      BY <2>3 DEF DataPacket
    <3> QED BY <2>1, <2>3, <3>1, DataPacketSends DEF IInv, NumberInv
  <2> QED BY <1>2, <2>1, <2>2, <2>3 DEF Retry
<1>3. CASE ServerReceive
  <2>1. PICK r : ReceiveRequest(r)
    BY <1>3 DEF ServerReceive
  <2>2. toClient' # toClient
    OBVIOUS
  <2>3. Accepts(r)
    BY <2>1, <2>2 DEF ReceiveRequest
  <2>4. PICK block, left : DataPacket(block, left, 0)
    BY <2>1, <2>3 DEF ReceiveRequest
  <2>5. offered' = offered /\ commState # "IDLE"
    BY <2>3, <2>4 DEF DataPacket, Accepts
  <2> QED BY <2>4, <2>5, DataPacketSends DEF IInv, NumberInv
<1>4. CASE ~(SendHeader \/ Retry \/ ServerReceive)
  BY <1>4 DEF Next, Step, Poll, Command, Gateware, ArmRead, ArmWrite, Disarm,
     Subscribe, SetAcquisitionCount, Record, Fill, Abort, TimePasses, netVars, vars, moving
<1> QED BY <1>1, <1>2, <1>3, <1>4

\* And what it takes from the network is all that it changes there.
LEMMA ServerTakes ==
  ASSUME [Next]_vars, ~ClientStep
  PROVE  client' = client /\ BagToSet(toServer') \subseteq BagToSet(toServer)
<1>1. CASE ServerReceive
  <2>1. PICK r : ReceiveRequest(r)
    BY <1>1 DEF ServerReceive
  <2>2. client' = client /\ toServer' \in Left(toServer, r)
    BY <2>1 DEF ReceiveRequest
  <2> QED BY <2>2, LeftHolds
<1>2. CASE ~ServerReceive
  <2>1. UNCHANGED <<client, toServer>>
    BY <1>2 DEF Next, Step, Poll, Command, Gateware, SendHeader, Retry, ArmRead,
       ArmWrite, Disarm, Subscribe, SetAcquisitionCount, Record, Fill, Abort, TimePasses,
       netVars, vars, moving
  <2> QED BY <2>1
<1> QED BY <1>1, <1>2

LEMMA OfferedGrows ==
  ASSUME IInv, [Next]_vars
  PROVE  offered' \in Nat /\ offered <= offered' /\ (ClientStep => offered' = offered)
<1>t. offered \in Nat /\ waveformNumber \in Nat /\ offered <= waveformNumber
  BY DEF IInv, TypeOK, NumberInv
<1>1. offered' \in {offered, waveformNumber}
  BY DEF Next, Step, Poll, Command, Gateware, SendHeader, Retry, ServerReceive,
     ReceiveRequest, HeaderPacket, DataPacket, ClientStep, ClientReceive, ArmRead,
     ArmWrite, Disarm, Subscribe, SetAcquisitionCount, Record, Fill, Abort, TimePasses,
     historyVars, vars, moving
<1>2. ClientStep => offered' = offered
  BY DEF ClientStep, ClientReceive, historyVars
<1> QED BY <1>t, <1>1, <1>2

LEMMA StepNumbered == IInv /\ NumberedInv /\ [Next]_vars => NumberedInv'
<1> SUFFICES ASSUME IInv, NumberedInv, [Next]_vars PROVE NumberedInv'
  OBVIOUS
<1>o. /\ offered \in Nat /\ offered' \in Nat /\ offered <= offered'
      /\ offered >= FirstNumber
      /\ ClientStep => offered' = offered
  BY OfferedGrows DEF IInv, TypeOK, NumberedInv
<1>c. /\ client = [wf |-> client.wf, count |-> client.count,
                   blocks |-> client.blocks, asked |-> client.asked]
      /\ client.wf \in Nat /\ client.wf <= offered /\ client.asked \in 0..2
      /\ client.wf # NoWaveform => client.asked > 0
  BY <1>o DEF NumberedInv, NoWaveform
<1>1. CASE ~ClientStep
  <2>1. ASSUME NEW m \in BagToSet(toClient')
        PROVE  m.wf \in Nat /\ m.wf <= offered'
    <3>1. CASE m \in BagToSet(toClient)
      BY <1>o, <3>1 DEF NumberedInv
    <3>2. CASE m \notin BagToSet(toClient)
      <4>1. m.wf = offered'
        BY <1>1, <3>2, ServerSends
      <4> QED BY <1>o, <4>1
    <3> QED BY <3>1, <3>2
  <2>2. client' = client /\ BagToSet(toServer') \subseteq BagToSet(toServer)
    BY <1>1, ServerTakes
  <2>3. client'.wf \in NoWaveform..offered'
    BY <1>o, <1>c, <2>2 DEF NoWaveform
  <2>4. offered' >= FirstNumber
    BY <1>o DEF FirstNumber
  <2> QED BY <1>c, <2>1, <2>2, <2>3, <2>4 DEF NumberedInv
<1>2. CASE ClientStep
  <2>1. PICK m \in BagToSet(toClient) : ClientReceive(m)
    BY <1>2 DEF ClientStep
  <2>2. offered' = offered
    BY <1>2, <1>o
  <2>3. BagToSet(toClient') \subseteq BagToSet(toClient)
    BY <2>1, LeftHolds DEF ClientReceive
  <2>4. \A r \in BagToSet(toClient') : r.wf \in Nat /\ r.wf <= offered'
    BY <2>2, <2>3 DEF NumberedInv
  <2>5. m.wf \in Nat /\ m.wf <= offered
    BY DEF NumberedInv
  <2>6. CASE UNCHANGED <<client, toServer>>
    BY <2>2, <2>4, <2>6 DEF NumberedInv
  <2>7. ASSUME NEW block, toServer' \in Sent(toServer, Ack(m.wf, block)),
               m.wf >= client.wf, client'.wf = m.wf, client'.asked \in 0..2,
               client'.wf # NoWaveform => client'.asked > 0,
               client' = [wf |-> client'.wf, count |-> client'.count,
                          blocks |-> client'.blocks, asked |-> client'.asked]
        PROVE  NumberedInv'
    <3>1. ASSUME NEW r \in BagToSet(toServer')
          PROVE  r.wf \in Nat /\ r.wf <= client'.wf
      <4>1. CASE r \in BagToSet(toServer)
        <5>1. r.wf \in Nat /\ r.wf <= client.wf
          BY <4>1 DEF NumberedInv
        <5> QED BY <1>c, <2>5, <2>7, <5>1
      <4>2. CASE r = Ack(m.wf, block)
        <5>1. r.wf = m.wf
          BY <4>2 DEF Ack
        <5> QED BY <2>5, <2>7, <5>1
      <4> QED BY <2>7, <4>1, <4>2, SentHolds
    <3>2. client'.wf \in NoWaveform..offered'
      BY <1>o, <2>2, <2>5, <2>7 DEF NoWaveform
    <3>3. offered' >= FirstNumber
      BY <1>o, <2>2
    <3> QED BY <2>4, <2>7, <3>1, <3>2, <3>3 DEF NumberedInv
  <2>8. CASE /\ m.type = "header" /\ m.wf > client.wf
             /\ client' = [wf |-> m.wf, count |-> m.count, blocks |-> {}, asked |-> 1]
             /\ toServer' \in Sent(toServer, Ack(m.wf, 0))
    BY <1>c, <2>5, <2>7, <2>8
  <2>9. CASE /\ m.type = "header" /\ m.wf = client.wf
             /\ client' = [client EXCEPT !.count = m.count, !.asked = Minimum(@ + 1, 2)]
             /\ toServer' \in Sent(toServer, Ack(m.wf, 0))
    <3>1. client' = [wf |-> client.wf, count |-> m.count, blocks |-> client.blocks,
                     asked |-> Minimum(client.asked + 1, 2)]
      BY <1>c, <2>9
    <3>2. Minimum(client.asked + 1, 2) \in 1..2
      BY <1>c DEF Minimum
    <3>3. /\ client'.wf = m.wf /\ client'.asked \in 0..2 /\ client'.asked > 0
          /\ client' = [wf |-> client'.wf, count |-> client'.count,
                        blocks |-> client'.blocks, asked |-> client'.asked]
          /\ m.wf >= client.wf
      <4>1. m.wf = client.wf
        BY <2>9
      <4>2. m.wf >= client.wf
        BY <2>5, <4>1
      <4> QED BY <3>1, <3>2, <4>1, <4>2
    <3> QED BY <2>7, <2>9, <3>3
  <2>10. CASE /\ m.type = "data" /\ m.wf = client.wf
              /\ client' = [client EXCEPT !.blocks = @ \cup {m.block}]
              /\ toServer' \in Sent(toServer, Ack(m.wf, m.block))
    <3>1. client' = [wf |-> client.wf, count |-> client.count,
                     blocks |-> client.blocks \cup {m.block}, asked |-> client.asked]
      BY <1>c, <2>10
    <3> QED BY <1>c, <2>5, <2>7, <2>10, <3>1
  <2> QED BY <2>1, <2>6, <2>8, <2>9, <2>10, ClientTakes
<1> QED BY <1>1, <1>2

\* A request that is taken off the network, when nothing is repeated.
LEMMA RequestsLeft ==
  ASSUME NumberedInv, RequestInv, ~Duplicating, client.wf = waveformNumber,
         client.asked <= 1, NEW r \in BagToSet(toServer), toServer' \in Left(toServer, r),
         NEW m \in BagToSet(toServer'), m.wf = waveformNumber
  PROVE  /\ commState = "HEADER" => m = Ack(waveformNumber, 0) /\ toServer'[m] = 1 /\ m # r
         /\ commState = "ACTIVE" => m.block \in client.blocks
<1>1. m \in BagToSet(toServer)
  BY LeftHolds
<1>2. CASE commState = "HEADER"
  <2>1. m = Ack(waveformNumber, 0) /\ toServer[m] = 1
    BY <1>1, <1>2 DEF RequestInv
  <2> QED BY <1>2, <2>1, LeftOnce
<1>3. CASE commState = "ACTIVE"
  BY <1>1, <1>3 DEF RequestInv
<1> QED BY <1>2, <1>3

\* wfrAckPacket() accepts a request for the present block: the client has it,
\* and after the one for block 0 no request is left but of blocks it has.
LEMMA RequestAccepted ==
  ASSUME IInv, NumberedInv, RequestInv, NEW r, ReceiveRequest(r), Accepts(r),
         UNCHANGED setting
  PROVE  RequestInv'
<1>1. /\ r \in BagToSet(toServer) /\ toServer' \in Left(toServer, r)
      /\ UNCHANGED <<client, waveformNumber>>
  BY DEF ReceiveRequest, BagIn, countVars
<1>2. r.wf = waveformNumber /\ r.block = txBlock /\ commState # "IDLE"
  BY DEF Accepts
<1>3. client.wf = waveformNumber
  <2>1. offered = waveformNumber /\ waveformNumber \in Nat
    BY <1>2 DEF IInv, NumberInv, TypeOK
  <2>2. r.wf <= client.wf /\ client.wf \in Nat /\ client.wf <= offered
    BY <1>1, <2>1 DEF NumberedInv, NoWaveform
  <2> QED BY <1>2, <2>1, <2>2
<1>4. /\ commState' \in {"ACTIVE", "IDLE"}
      /\ txBlock' = IF commState = "HEADER" THEN txBlock ELSE txBlock + 1
  <2>1. IF commState = "HEADER" THEN DataPacket(txBlock, bytesLeft, 0)
                                ELSE DataPacket(txBlock + 1, LeftAfter, 0)
    BY DEF ReceiveRequest
  <2> QED BY <2>1 DEF DataPacket
<1>5. ASSUME ~Duplicating, client.asked <= 1, commState' = "ACTIVE"
      PROVE  /\ 0..(txBlock' - 1) \subseteq client.blocks
             /\ \A m \in BagToSet(toServer') : m.wf = waveformNumber =>
                  m.block \in client.blocks
  <2>1. CASE commState = "HEADER"
    <3>1. txBlock' = 0
      BY <1>4, <2>1 DEF IInv, BlockInv
    <3>2. r = Ack(waveformNumber, 0)
      BY <1>1, <1>2, <1>3, <1>5, <2>1 DEF RequestInv
    <3>3. ASSUME NEW m \in BagToSet(toServer'), m.wf = waveformNumber PROVE FALSE
      BY <1>1, <1>3, <1>5, <2>1, <3>2, <3>3, RequestsLeft
    <3> QED BY <3>1, <3>3
  <2>2. CASE commState = "ACTIVE"
    <3>1. txBlock \in Nat /\ txBlock' = txBlock + 1
      BY <1>4, <2>2 DEF IInv, TypeOK
    <3>2. 0..(txBlock - 1) \subseteq client.blocks /\ txBlock \in client.blocks
      BY <1>1, <1>2, <1>3, <1>5, <2>2 DEF RequestInv
    <3>3. 0..(txBlock' - 1) \subseteq client.blocks
      <4>1. \A k \in 0..(txBlock' - 1) : k = txBlock \/ k \in 0..(txBlock - 1)
        BY <3>1
      <4> QED BY <3>2, <4>1
    <3>4. ASSUME NEW m \in BagToSet(toServer'), m.wf = waveformNumber
          PROVE  m.block \in client.blocks
      BY <1>1, <1>3, <1>5, <2>2, <3>4, RequestsLeft
    <3> QED BY <3>3, <3>4
  <2>3. commState \in {"HEADER", "ACTIVE"}
    BY <1>2 DEF IInv, TypeOK
  <2> QED BY <2>1, <2>2, <2>3
<1>6. Duplicating' = Duplicating
  BY DEF Duplicating
<1> QED BY <1>1, <1>3, <1>4, <1>5, <1>6 DEF RequestInv

\* The client's requests name a block that it holds, or are the first.
LEMMA ClientRequests ==
  ASSUME IInv, NumberedInv, NumberedInv', RequestInv, ClientStep, UNCHANGED setting
  PROVE  RequestInv'
<1>1. PICK p \in BagToSet(toClient) : ClientReceive(p)
  BY DEF ClientStep
<1>2. /\ UNCHANGED <<commState, txBlock, waveformNumber, offered>>
      /\ BagToSet(toClient') \subseteq BagToSet(toClient)
      /\ Duplicating' = Duplicating
  BY <1>1, LeftHolds
  DEF ClientReceive, recorderVars, countVars, historyVars, Duplicating
<1>t. /\ offered \in Nat /\ client.wf \in Nat /\ p.wf \in Nat
      /\ client.wf <= offered /\ p.wf <= offered
      /\ commState # "IDLE" => offered = waveformNumber
      /\ client.asked \in 0..2 /\ (client.wf # NoWaveform => client.asked > 0)
  BY DEF IInv, TypeOK, NumberInv, NumberedInv, NoWaveform
<1>h. commState' = "HEADER" =>
        \A m \in BagToSet(toClient') : m.wf = waveformNumber' => m.type = "header"
  BY <1>2 DEF RequestInv
<1>3. CASE UNCHANGED <<client, toServer>>
  BY <1>2, <1>3, <1>h DEF RequestInv
<1>4. CASE /\ p.type = "header" /\ p.wf > client.wf
           /\ client' = [wf |-> p.wf, count |-> p.count, blocks |-> {}, asked |-> 1]
           /\ toServer' \in Sent(toServer, Ack(p.wf, 0))
  <2>1. commState # "ACTIVE"
    <3>1. commState = "ACTIVE" => client.wf = waveformNumber
      BY DEF RequestInv
    <3> QED BY <1>t, <1>4, <3>1
  <2>2. ASSUME p.wf = waveformNumber, NEW m \in BagToSet(toServer'), m.wf = waveformNumber
        PROVE  m = Ack(waveformNumber, 0) /\ toServer'[m] = 1
    <3>1. m \notin BagToSet(toServer)
      <4>1. m \in BagToSet(toServer) => m.wf \in Nat /\ m.wf <= client.wf
        BY DEF NumberedInv
      <4> QED BY <1>t, <1>4, <2>2, <4>1
    <3>2. m = Ack(p.wf, 0)
      BY <1>4, <3>1, SentHolds
    <3> QED BY <1>4, <2>2, <3>1, <3>2, SentOnce
  <2>3. client'.wf = p.wf
    BY <1>4
  <2> QED BY <1>2, <1>h, <2>1, <2>2, <2>3 DEF RequestInv
<1>5. CASE /\ p.type = "header" /\ p.wf = client.wf
           /\ client' = [client EXCEPT !.count = p.count, !.asked = Minimum(@ + 1, 2)]
           /\ toServer' \in Sent(toServer, Ack(p.wf, 0))
  <2>1. client'.wf = client.wf /\ client'.asked = Minimum(client.asked + 1, 2)
    BY <1>5 DEF NumberedInv
  <2>2. CASE client.wf = NoWaveform
    <3>1. waveformNumber # client.wf
      BY <2>2 DEF IInv, NumberInv, TypeOK, NumberedInv, NoWaveform, FirstNumber
    <3>2. commState # "ACTIVE"
      BY <3>1 DEF RequestInv
    <3> QED BY <1>2, <1>h, <2>1, <3>1, <3>2 DEF RequestInv
  <2>3. CASE client.wf # NoWaveform
    <3>1. ~(client'.asked <= 1)
      BY <1>t, <2>1, <2>3 DEF Minimum
    <3> QED BY <1>2, <1>h, <2>1, <3>1 DEF RequestInv
  <2> QED BY <2>2, <2>3
<1>6. CASE /\ p.type = "data" /\ p.wf = client.wf
           /\ client' = [client EXCEPT !.blocks = @ \cup {p.block}]
           /\ toServer' \in Sent(toServer, Ack(p.wf, p.block))
  <2>1. /\ client'.wf = client.wf /\ client'.asked = client.asked
        /\ client'.blocks = client.blocks \cup {p.block}
    BY <1>6 DEF NumberedInv
  <2>2. commState = "HEADER" => client.wf # waveformNumber
    BY <1>6 DEF RequestInv
  <2>3. ASSUME ~Duplicating, client.wf = waveformNumber, client.asked <= 1,
               commState = "ACTIVE", NEW m \in BagToSet(toServer'), m.wf = waveformNumber
        PROVE  m.block \in client'.blocks
    <3>1. CASE m \in BagToSet(toServer)
      BY <2>1, <2>3, <3>1 DEF RequestInv
    <3>2. CASE m = Ack(p.wf, p.block)
      BY <2>1, <3>2 DEF Ack
    <3> QED BY <1>6, <3>1, <3>2, SentHolds
  <2>4. ASSUME ~Duplicating, client.wf = waveformNumber, client.asked <= 1,
               commState = "ACTIVE"
        PROVE  0..(txBlock - 1) \subseteq client'.blocks
    BY <2>1, <2>4 DEF RequestInv
  <2> QED BY <1>2, <1>h, <2>1, <2>2, <2>3, <2>4 DEF RequestInv
<1> QED BY <1>1, <1>3, <1>4, <1>5, <1>6, ClientTakes

LEMMA StepRequest == IInv /\ NumberedInv /\ RequestInv /\ [Next]_vars => RequestInv'
<1> SUFFICES ASSUME IInv, NumberedInv, RequestInv, [Next]_vars PROVE RequestInv'
  OBVIOUS
<1>t. /\ offered \in Nat /\ waveformNumber \in Nat /\ offered <= waveformNumber
      /\ commState \in {"IDLE", "HEADER", "ACTIVE"}
      /\ client.wf \in Nat /\ client.wf <= offered
  BY DEF IInv, TypeOK, NumberInv, NumberedInv, NoWaveform
<1>d. UNCHANGED setting /\ Duplicating' = Duplicating
  BY DEF Next, vars, Duplicating
<1>i. ASSUME commState' = "IDLE" PROVE RequestInv'
  BY <1>i DEF RequestInv
<1>1. CASE SendHeader
  <2>1. /\ HeaderPacket(0) /\ commState = "IDLE" /\ hwState = "FULL"
        /\ UNCHANGED <<waveformNumber, client, toServer>>
    BY <1>1 DEF SendHeader, countVars
  <2>2. commState' \in {"IDLE", "HEADER"}
    BY <2>1 DEF HeaderPacket
  <2>3. offered < waveformNumber
    BY <2>1 DEF IInv, NumberInv
  <2>4. client'.wf # waveformNumber'
    BY <1>t, <2>1, <2>3
  <2>5. ASSUME NEW m \in BagToSet(toClient'), m.wf = waveformNumber
        PROVE  m.type = "header"
    <3>1. m \in BagToSet(toClient) => m.wf \in Nat /\ m.wf <= offered
      BY DEF NumberedInv
    <3>2. m \notin BagToSet(toClient)
      BY <1>t, <2>3, <2>5, <3>1
    <3> QED BY <2>1, <3>2, HeaderPacketSends
  <2> QED BY <2>1, <2>2, <2>4, <2>5 DEF RequestInv
<1>2. CASE Retry
  <2>1. commState # "IDLE" /\ UNCHANGED <<waveformNumber, client, toServer>>
    BY <1>2 DEF Retry, countVars
  <2>2. CASE commState = "HEADER" /\ HeaderPacket(unanswered)
    <3>1. commState' = "HEADER"
      BY <2>2 DEF HeaderPacket
    <3>2. ASSUME NEW m \in BagToSet(toClient'), m.wf = waveformNumber
          PROVE  m.type = "header"
      BY <2>2, <3>2, HeaderPacketSends DEF RequestInv
    <3> QED BY <1>d, <2>1, <2>2, <3>1, <3>2 DEF RequestInv
  <2>3. CASE commState = "ACTIVE" /\ DataPacket(txBlock, bytesLeft, unanswered)
    <3>1. commState' \in {"ACTIVE", "IDLE"} /\ txBlock' = txBlock
      BY <2>3 DEF DataPacket
    <3> QED BY <1>d, <2>1, <2>3, <3>1 DEF RequestInv
  <2>4. CASE commState' = "IDLE"
    BY <2>4, <1>i
  <2> QED BY <1>2, <2>2, <2>3, <2>4 DEF Retry
<1>3. CASE ServerReceive
  <2>1. PICK r \in BagToSet(toServer) : ReceiveRequest(r)
    BY <1>3 DEF ServerReceive
  <2>2. CASE Accepts(r)
    BY <1>d, <2>1, <2>2, RequestAccepted
  <2>3. CASE ~Accepts(r)
    <3>1. /\ toServer' \in Left(toServer, r)
          /\ UNCHANGED <<commState, txBlock, waveformNumber, toClient, client>>
      BY <2>1, <2>3 DEF ReceiveRequest, recorderVars, countVars
    <3>2. ASSUME ~Duplicating, client.wf = waveformNumber, client.asked <= 1,
                 NEW m \in BagToSet(toServer'), m.wf = waveformNumber
          PROVE  /\ commState = "HEADER" => m = Ack(waveformNumber, 0) /\ toServer'[m] = 1
                 /\ commState = "ACTIVE" => m.block \in client.blocks
      BY <2>1, <3>1, <3>2, RequestsLeft
    <3> QED BY <1>d, <3>1, <3>2 DEF RequestInv
  <2> QED BY <2>2, <2>3
<1>4. CASE ClientStep
  BY <1>4, <1>d, StepNumbered, ClientRequests
<1>5. CASE ArmRead
  BY <1>5, <1>i DEF ArmRead, StateOnArm
<1>6. CASE ~(SendHeader \/ Retry \/ ServerReceive \/ ClientStep \/ ArmRead)
  <2>1. UNCHANGED <<commState, txBlock, waveformNumber, toClient, toServer, client>>
    BY <1>6 DEF Next, Step, Poll, Command, Gateware, ArmWrite, Disarm, Subscribe,
       SetAcquisitionCount, Record, Fill, Abort, TimePasses, recorderVars, countVars,
       netVars, vars, moving
  <2> QED BY <1>d, <2>1 DEF RequestInv
<1> QED BY <1>1, <1>2, <1>3, <1>4, <1>5, <1>6

LEMMA InitRequests == Init => NumberedInv /\ RequestInv
<1> SUFFICES ASSUME Init PROVE NumberedInv /\ RequestInv
  OBVIOUS
<1>1. BagToSet(toClient) = {} /\ BagToSet(toServer) = {}
  BY DEF Init, EmptyBag, SetToBag, BagToSet
<1>2. client = [wf |-> NoWaveform, count |-> 0, blocks |-> {}, asked |-> 0]
  BY DEF Init
<1>3. offered = FirstNumber /\ commState = "IDLE"
  BY DEF Init
<1> QED BY <1>1, <1>2, <1>3 DEF NumberedInv, RequestInv, NoWaveform, FirstNumber

(* Blocks are sent as dsbpmProtocol.h says, each when requested, as long   *)
(* as the client has seen one header of the waveform and the network       *)
(* repeats nothing: however datagrams are lost, delayed and reordered, and *)
(* whatever is retried and armed, the server is at no block before the     *)
(* client has the earlier ones (wfrAckPacket).                             *)
THEOREM BlocksAreRequested == Spec => []BlocksFollowRequests
<1>1. RequestInv => BlocksFollowRequests
  BY DEF RequestInv, BlocksFollowRequests
<1> QED
  BY <1>1, InitRequests, StepNumbered, StepRequest, InvHolds, PTL DEF Spec
=============================================================================
