----------------------------- MODULE RxAligner -----------------------------
(***************************************************************************)
(* The event receiver's alignment, mgt.c: the rxState machine that resets    *)
(* the transceiver until it comes up with the right word framing, cranked  *)
(* by mgtInit and then by the main loop, against the comma detector of     *)
(* evrGTYwrapper.v.                                                        *)
(*                                                                         *)
(* Time is counted in ticks, of which every poll but the first takes one   *)
(* at least; rxElapsed is the unsigned difference of MICROSECONDS_SINCE_BOOT *)
(* and whenEntered.  The recovered clock stops in a reset, and the comma   *)
(* detector with it: what it shows afterwards may be of the time before.   *)
(***************************************************************************)
EXTENDS Integers

CONSTANTS
  HoldTime,      \* 10 us: a reset is held for longer than this
  ResetTimeout,  \* 250 ms: the reset is repeated when it takes longer
  DelayTime,     \* 200 us, after the reset
  ConfirmTime,   \* 1 ms: alignment has to be seen for longer than this
  RxWrap,          \* 2^32: the microsecond counter wraps around
  RxLatency,    \* ticks between two polls of the main loop, at most
  StaleTime,     \* ticks until a misframed stream shows its first error
  MaxErrors      \* bound: errors of an aligned stream

ASSUME RxAlignerAssumption ==
  /\ {HoldTime, ResetTimeout, DelayTime, ConfirmTime} \subseteq 0..(RxWrap - 2)
  /\ RxWrap \in Nat /\ {RxLatency, StaleTime, MaxErrors} \subseteq Nat

\* Alignment is confirmed for longer than a misframed stream takes to show an
\* error: the 1 ms are thousands of characters of the stream.
ASSUME ConfirmAssumption == StaleTime <= ConfirmTime

VARIABLES
  rxPhase,         \* "reset", "align" (mgtInit), "setup", "main" (main)
  rxState,         \* of the rxState machine, without its S_
  rxElapsed,
  gtReset,       \* CSR_RW_GT_RESET_ALL as written last
  resetsDone,    \* CSR_R_RESETS_DONE
  framed,        \* whether the words are framed as they are sent
  synced,        \* CSR_R_RX_ALIGNED, evrRxSynchronized
  rxWaited,        \* ticks since the last poll
  stale,         \* ticks a misframed stream has shown no error for
  held,          \* ticks the present or last reset was held for
  rfdc,          \* "none", or framed when rfDCsync was called last
  errors

hardware == <<resetsDone, framed, synced, stale>>
rxVars == <<rxPhase, rxState, rxElapsed, gtReset, hardware, rxWaited, held, rfdc, errors>>

\* The variants named ...Mutant here and below are faults the properties must
\* catch; nothing else uses them.

-----------------------------------------------------------------------------
(* The software.                                                           *)

RxGoto(s) == rxState' = s /\ rxElapsed' = IF s = rxState THEN rxElapsed ELSE 0

\* GPIO_WRITE of the control register; asserting the reset resets.
WriteCsr(r) ==
  /\ gtReset' = r
  /\ held' = IF r = "on" THEN 0 ELSE held
  /\ resetsDone' = IF r = "on" THEN "no" ELSE resetsDone

KeepCsr == UNCHANGED <<gtReset, held, resetsDone>>

ApplyReset == rxState = "APPLY_RESET" /\ WriteCsr("on") /\ RxGoto("HOLD_RESET") /\ UNCHANGED rfdc

HoldReset ==
  /\ rxState = "HOLD_RESET" /\ UNCHANGED rfdc
  /\ IF rxElapsed > HoldTime
     THEN WriteCsr("off") /\ RxGoto("AWAIT_RESET_COMPLETION")
     ELSE KeepCsr /\ RxGoto(rxState)

AwaitResetCompletion ==
  /\ rxState = "AWAIT_RESET_COMPLETION" /\ KeepCsr /\ UNCHANGED rfdc
  /\ RxGoto(IF resetsDone = "yes" THEN "POST_RESET_DELAY"
          ELSE IF rxElapsed > ResetTimeout THEN "APPLY_RESET" ELSE rxState)

\* What the states of the delay and of the confirmation share: alignment
\* missed once has the receiver reset again.
ConfirmMutant(s) == IF rxElapsed > ConfirmTime THEN "ALIGNMENT_ACHIEVED" ELSE s
Confirm(s) ==
  IF synced = "no" THEN "APPLY_RESET"
  ELSE IF rxElapsed > ConfirmTime THEN "ALIGNMENT_ACHIEVED" ELSE s

\* The delay falls through to the confirmation, so it waits for nothing.
PostResetDelay ==
  /\ rxState = "POST_RESET_DELAY" /\ KeepCsr /\ UNCHANGED rfdc
  /\ RxGoto(Confirm(IF rxElapsed > DelayTime THEN "CONFIRM_ALIGNMENT" ELSE rxState))

ConfirmAlignment ==
  /\ rxState = "CONFIRM_ALIGNMENT" /\ KeepCsr /\ UNCHANGED rfdc
  /\ RxGoto(Confirm(rxState))

AlignmentAchieved ==
  /\ rxState = "ALIGNMENT_ACHIEVED" /\ WriteCsr("off")
  /\ rfdc' = framed
  /\ RxGoto("ALIGNED")

AlignedMutant == rxState = "ALIGNED" /\ KeepCsr /\ UNCHANGED rfdc /\ RxGoto("ALIGNED")
Aligned ==
  /\ rxState = "ALIGNED" /\ KeepCsr /\ UNCHANGED rfdc
  /\ RxGoto(IF synced = "no" THEN "APPLY_RESET" ELSE rxState)

\* mgtCrankRxAligner()
RxCrank ==
  /\ \/ ApplyReset \/ HoldReset \/ AwaitResetCompletion \/ PostResetDelay
     \/ ConfirmAlignment \/ AlignmentAchieved \/ Aligned
  /\ rxWaited > 0 /\ rxWaited' = 0
  /\ UNCHANGED <<framed, synced, stale, errors>>

\* mgtInit(), whose first reset is over: without a completion it gives up,
\* without alignment it does so after ten times two seconds.
InitAwaits ==
  /\ rxPhase = "reset"
  /\ rxPhase' \in IF resetsDone = "yes" THEN {"align"} ELSE {"setup"}
  /\ UNCHANGED <<rxState, rxElapsed, gtReset, hardware, rxWaited, held, rfdc, errors>>

InitAligns ==
  /\ rxPhase = "align" /\ RxCrank
  /\ rxPhase' \in IF rxState' = "ALIGNED" THEN {"setup"} ELSE {"align", "setup"}

EnterMain ==
  /\ rxPhase = "setup" /\ rxPhase' = "main" /\ rxWaited' = 0
  /\ UNCHANGED <<rxState, rxElapsed, gtReset, hardware, held, rfdc, errors>>

Poll == rxPhase = "main" /\ RxCrank /\ UNCHANGED rxPhase

-----------------------------------------------------------------------------
(* The transceiver and the comma detector.                                 *)

ResetCompletes(f) ==
  /\ gtReset = "off" /\ resetsDone = "no"
  /\ resetsDone' = "yes" /\ framed' = f /\ stale' = 0
  /\ UNCHANGED <<rxPhase, rxState, rxElapsed, gtReset, synced, rxWaited, held, rfdc, errors>>

\* A code error reloads the comma counter.
DataError ==
  /\ synced = "yes"
  /\ IF resetsDone = "yes" /\ framed = "yes"
     THEN errors < MaxErrors /\ errors' = errors + 1
     ELSE UNCHANGED errors
  /\ synced' = "no"
  /\ UNCHANGED <<rxPhase, rxState, rxElapsed, gtReset, resetsDone, framed, stale, rxWaited, held, rfdc>>

Settling == resetsDone = "yes" /\ framed = "yes" /\ synced = "no"

\* Enough commas without an error.
CommasSeen ==
  /\ Settling /\ synced' = "yes"
  /\ UNCHANGED <<rxPhase, rxState, rxElapsed, gtReset, resetsDone, framed, stale, rxWaited, held, rfdc, errors>>

Misleading == resetsDone = "yes" /\ framed = "no" /\ synced = "yes"

Later(t) == (t + 1) % RxWrap

\* Time passes; the commas come faster than that, and so does the main loop.
RxTick ==
  /\ ~Settling
  /\ Misleading => stale < StaleTime
  /\ rxPhase # "setup" => rxWaited < RxLatency
  /\ rxElapsed' = Later(rxElapsed)
  /\ rxWaited' = IF rxWaited < RxLatency THEN rxWaited + 1 ELSE rxWaited
  /\ stale' = IF Misleading THEN stale + 1 ELSE stale
  /\ held' = IF gtReset = "on" /\ held <= HoldTime THEN held + 1 ELSE held
  /\ UNCHANGED <<rxPhase, rxState, gtReset, resetsDone, framed, synced, rfdc, errors>>

-----------------------------------------------------------------------------
RxInit ==
  /\ rxPhase = "reset" /\ rxState = "ALIGNED" /\ rxElapsed = 0
  /\ gtReset = "off" /\ resetsDone = "no" /\ framed = "no" /\ synced = "no"
  /\ rxWaited = 0 /\ stale = 0 /\ held = HoldTime + 1 /\ rfdc = "none" /\ errors = 0

RxNext ==
  \/ InitAwaits \/ InitAligns \/ EnterMain \/ Poll
  \/ \E f \in {"yes", "no"} : ResetCompletes(f)
  \/ DataError \/ CommasSeen \/ RxTick

RxSpec == RxInit /\ [][RxNext]_rxVars

\* The main loop and the time go on, resets complete, and one in many (1 of
\* 20 in the hardware) comes up framed before it is taken for incomplete.
RxFair ==
  /\ WF_rxVars(RxTick) /\ WF_rxVars(InitAwaits) /\ WF_rxVars(InitAligns)
  /\ WF_rxVars(EnterMain) /\ WF_rxVars(Poll)
  /\ WF_rxVars(DataError /\ Misleading) /\ WF_rxVars(CommasSeen)
  /\ WF_rxVars(\E f \in {"yes", "no"} : ResetCompletes(f))
  /\ SF_rxVars(rxState = "AWAIT_RESET_COMPLETION" /\ ResetCompletes("yes"))

-----------------------------------------------------------------------------
YesNo == {"yes", "no"}

(* The data converters are only ever synchronised to a receiver that is    *)
(* framed, although the comma detector may still show the alignment of the *)
(* time before the reset when the reset completes.                         *)
SyncedToFramed == rfdc # "no"

(* A reset of the transceiver is never shorter than the hold time.         *)
ResetIsHeld == [][gtReset = "on" /\ gtReset' = "off" => held > HoldTime]_rxVars

(* Once the errors have ended the receiver is aligned for good, whatever   *)
(* mgtInit made of it.                                                     *)
Realigns == <>[](rxPhase = "main" /\ rxState = "ALIGNED" /\ synced = "yes" /\ framed = "yes")
=============================================================================
