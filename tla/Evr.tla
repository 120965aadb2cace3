--------------------------------- MODULE Evr ---------------------------------
(***************************************************************************)
(* The event receiver's software (evr.c): evrInit, which checks that the   *)
(* heartbeat and the pulse per second arrive and then has each event code  *)
(* drive its triggers, the commands that change what an event code does    *)
(* (setEventAction of epics.c), and evrCurrentTime, which reads a clock of *)
(* two registers that goes on counting between the reads.                  *)
(***************************************************************************)
EXTENDS Integers, FiniteSets

CONSTANTS SinglePassEvents,  \* what systemParameters.singlePassEvent may be
          Fractions,         \* ticks of a second
          InitTimeout,       \* ticks of the six seconds evrInit waits at most
          MaxTicks,          \* bound: ticks of the clock
          MaxCommands        \* bound: commands that change an action

\* The seconds and the fraction are two registers of one count.
ASSUME ResolutionAssumption == Fractions \in Nat \ {0}

Heartbeat == 122
Pps == 125
None == 0                    \* no event; evrInit takes the spurious event 0 for none
Events == {Heartbeat, Pps} \cup SinglePassEvents
Triggers == 0..7
ToFifo == 13                 \* EVR_RAM_WRITE_FIFO: the code is put into the FIFO
UserTriggers == 4..7         \* the triggers the control system may change

VARIABLES evrPc,             \* "reset", "await", "run", and the reads of the time
          evrRam,            \* the action of each event code: its triggers and flags
          evrDelay,          \* the delay of each trigger, 0 before it is set
          evrCount,          \* struct eventCheck: the arrivals counted
          evrWhen,           \* and the ticks of the first two
          evrPresent,        \* what evChk concluded of each marker
          evrClock,          \* ticks since the receiver started
          evrWaiting,        \* ticks since evrInit began to wait
          evrCode,           \* the event code in the FIFO, None when it is empty
          singlePass,        \* systemParameters.singlePassEvent
          stamp,             \* the time being read
          asked,             \* the clock when the reading began
          evrCommands
evrVars == <<evrPc, evrRam, evrDelay, evrCount, evrWhen, evrPresent, evrClock,
             evrWaiting, evrCode, singlePass, stamp, asked, evrCommands>>
config == <<evrRam, evrDelay>>
checks == <<evrCount, evrWhen, evrPresent>>
reading == <<stamp, asked>>

Second(t) == t \div Fractions
Fraction(t) == t % Fractions
NoTime == [seconds |-> 0, fraction |-> 0]

EvrInit ==
  /\ evrPc = "reset"
  /\ evrRam = [e \in Events |-> {}] /\ evrDelay = [t \in Triggers |-> 0]
  /\ evrCount = [e \in {Heartbeat, Pps} |-> 0]
  /\ evrWhen = [e \in {Heartbeat, Pps} |-> <<0, 0>>]
  /\ evrPresent = [e \in {Heartbeat, Pps} |-> "unknown"]
  /\ evrClock = 0 /\ evrWaiting = 0 /\ evrCode = None
  /\ singlePass \in SinglePassEvents
  /\ stamp = NoTime /\ asked = 0 /\ evrCommands = 0

-----------------------------------------------------------------------------
\* evrInit, up to the wait: only the two markers are put into the FIFO.
Reset ==
  /\ evrPc = "reset" /\ evrPc' = "await"
  /\ evrRam' = [e \in Events |-> IF e \in {Heartbeat, Pps} THEN {ToFifo} ELSE {}]
  /\ evrWaiting' = 0
  /\ UNCHANGED <<evrDelay, checks, evrClock, evrCode, singlePass, reading, evrCommands>>

\* evGot: the first two arrivals are timed, all are counted.
EvGot(e) ==
  /\ evrCount' = [evrCount EXCEPT ![e] = IF @ < 3 THEN @ + 1 ELSE @]
  /\ evrWhen' = IF evrCount[e] < 2
                THEN [evrWhen EXCEPT ![e][evrCount[e] + 1] = evrClock] ELSE evrWhen

PollFifo ==
  /\ evrPc = "await" /\ evrCode # None
  /\ IF evrCode \in {Heartbeat, Pps} THEN EvGot(evrCode) ELSE UNCHANGED <<evrCount, evrWhen>>
  /\ evrCode' = None
  /\ UNCHANGED <<evrPc, config, evrPresent, evrClock, evrWaiting, singlePass, reading, evrCommands>>

\* evChk: two arrivals a second apart, within a tenth.
EvChk(e) ==
  CASE evrCount[e] = 0 -> "none"
    [] evrCount[e] = 1 -> "one"
    [] OTHER -> IF evrWhen[e][2] - evrWhen[e][1] = Fractions THEN "regular" ELSE "irregular"

\* The end of the wait, and the triggers: the single pass event, when there is
\* one, may be one of the markers, whose action it replaces.
InitialRam(single) ==
  LET marked == [e \in Events |-> CASE e = Heartbeat -> {0} [] e = Pps -> {1} [] OTHER -> {}]
      passed == IF single > 0 THEN [marked EXCEPT ![single] = {2}] ELSE marked
  IN [passed EXCEPT ![Heartbeat] = @ \cup {3}]
WaitOver ==
  /\ evrPc = "await" /\ evrCode = None
  /\ \/ evrWaiting > InitTimeout
     \/ evrCount[Heartbeat] >= 2 /\ evrCount[Pps] >= 2
  /\ evrPc' = "run"
  /\ evrPresent' = [e \in {Heartbeat, Pps} |-> EvChk(e)]
  /\ evrRam' = InitialRam(singlePass)
  /\ evrDelay' = [t \in Triggers |-> 1]
  \* nothing reads the check's counts again
  /\ evrCount' = [e \in {Heartbeat, Pps} |-> 0]
  /\ evrWhen' = [e \in {Heartbeat, Pps} |-> <<0, 0>>] /\ evrWaiting' = 0
  /\ UNCHANGED <<evrClock, evrCode, singlePass, reading, evrCommands>>

-----------------------------------------------------------------------------
\* setEventAction of epics.c, with evrGetEventAction and evrSetEventAction; and
\* evrSetTriggerDelay, which takes no delay below one.
SetEventAction(e, action) ==
  evrRam' = IF e \in Events
            THEN [evrRam EXCEPT ![e] = (@ \ UserTriggers) \cup (action \cap UserTriggers)]
            ELSE evrRam
ActionCommand ==
  /\ evrPc = "run" /\ evrCommands < MaxCommands
  /\ \E e \in Events, action \in {{}, {0, 5}, {1, 4, 5}} : SetEventAction(e, action)
  /\ evrCommands' = evrCommands + 1
  /\ UNCHANGED <<evrPc, evrDelay, checks, evrClock, evrWaiting, evrCode, singlePass, reading>>
DelayCommand ==
  /\ evrPc = "run" /\ evrCommands < MaxCommands
  /\ \E t \in {4, 8}, ticks \in {-1, 2} :
       evrDelay' = IF t \in Triggers
                   THEN [evrDelay EXCEPT ![t] = IF ticks <= 0 THEN 1 ELSE ticks] ELSE evrDelay
  /\ evrCommands' = evrCommands + 1
  /\ UNCHANGED <<evrPc, evrRam, checks, evrClock, evrWaiting, evrCode, singlePass, reading>>

-----------------------------------------------------------------------------
\* evrCurrentTime: the seconds, the fraction, the seconds again, until they agree.
ReadSeconds ==
  /\ evrPc = "run" /\ evrPc' = "fraction"
  /\ asked' = evrClock
  /\ stamp' = [seconds |-> Second(evrClock), fraction |-> 0]
  /\ UNCHANGED <<config, checks, evrClock, evrWaiting, evrCode, singlePass, evrCommands>>
ReadFraction ==
  /\ evrPc = "fraction" /\ evrPc' = "again"
  /\ stamp' = [stamp EXCEPT !.fraction = Fraction(evrClock)]
  /\ UNCHANGED <<config, checks, evrClock, evrWaiting, evrCode, singlePass, asked, evrCommands>>
AgreeMutant(s) == "read"
Agree(s) == IF s = stamp.seconds THEN "read" ELSE "fraction"
ReadAgain ==
  /\ evrPc = "again"
  /\ evrPc' = Agree(Second(evrClock))
  /\ stamp' = [stamp EXCEPT !.seconds = IF evrPc' = "read" THEN @ ELSE Second(evrClock)]
  /\ UNCHANGED <<config, checks, evrClock, evrWaiting, evrCode, singlePass, asked, evrCommands>>
Used ==
  /\ evrPc = "read" /\ evrPc' = "run"
  /\ stamp' = NoTime /\ asked' = 0
  /\ UNCHANGED <<config, checks, evrClock, evrWaiting, evrCode, singlePass, evrCommands>>

-----------------------------------------------------------------------------
\* Time goes on; an event may arrive whenever the FIFO has been emptied.
EvrTick ==
  /\ evrClock < MaxTicks
  /\ evrPc = "await" => evrCode = None
  /\ evrClock' = evrClock + 1
  /\ evrWaiting' = IF evrPc = "await" THEN evrWaiting + 1 ELSE evrWaiting
  /\ UNCHANGED <<evrPc, config, checks, evrCode, singlePass, reading, evrCommands>>
EventArrives ==
  /\ evrPc = "await" /\ evrCode = None
  /\ evrCode' \in {e \in {Heartbeat, Pps} : ToFifo \in evrRam[e] /\ evrCount[e] < 3}
  /\ UNCHANGED <<evrPc, config, checks, evrClock, evrWaiting, singlePass, reading, evrCommands>>

EvrNext ==
  \/ Reset \/ PollFifo \/ WaitOver
  \/ ActionCommand \/ DelayCommand
  \/ ReadSeconds \/ ReadFraction \/ ReadAgain \/ Used
  \/ EvrTick \/ EventArrives
EvrSpec == EvrInit /\ [][EvrNext]_evrVars

-----------------------------------------------------------------------------
\* The time evrCurrentTime returns was the time at an instant of the call,
\* although the clock moved on between its reads.  (evr.c)
TimeIsAnInstant ==
  evrPc = "read" =>
    \E t \in asked..evrClock :
      stamp.seconds = Second(t) /\ stamp.fraction = Fraction(t)
=============================================================================
