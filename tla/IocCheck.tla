------------------------------ MODULE IocCheck ------------------------------
(***************************************************************************)
(* duplicateIOCcheck() of epics.c: whether two IOCs are talking to this    *)
(* DSBPM, told from how soon the sender of commands changes, and reported  *)
(* for a while by sysmonFetch().                                           *)
(*                                                                         *)
(* Time is counted in seconds.  MICROSECONDS_SINCE_BOOT()/1000000 starts   *)
(* again from 0 when the 32 bits of microseconds wrap around, while        *)
(* differences of it are taken modulo 2^32.                                *)
(***************************************************************************)
EXTENDS Integers

CONSTANTS
  Clients,       \* senders of commands, address and port together
  ChangeTime,    \* 10 s: the sender changing sooner than this is suspect
  ReportTime,    \* 15 s: for so long it is reported
  SecondsWrap,   \* 4294 s: then the seconds start again
  WordModulus,   \* 2^32
  BootTime,      \* when the network is up
  MaxTime        \* bound: seconds

VARIABLES
  time,          \* seconds since boot, the real ones
  oldClient,     \* oldAddress and oldPort
  whenChanged, whenDuplicate,
  lastChange,    \* when the sender really changed last
  lastDuplicate  \* when it really changed too soon last

iocVars == <<time, oldClient, whenChanged, whenDuplicate, lastChange, lastDuplicate>>

Nobody == "0.0.0.0"
Never == 0 - ChangeTime - ReportTime

Now(t) == t % SecondsWrap

\* Unsigned difference.
Since(t) == (Now(time) - t) % WordModulus

Reported == Since(whenDuplicate) < ReportTime

\* A command from another sender than the last has the check remember it.
Check(c) ==
  /\ c # oldClient
  /\ oldClient' = c
  /\ lastChange' = time
  /\ lastDuplicate' = IF time - lastChange < ChangeTime THEN time ELSE lastDuplicate
  /\ whenDuplicate' = IF Since(whenChanged) < ChangeTime THEN Now(time) ELSE whenDuplicate
  /\ whenChanged' = Now(time)
  /\ UNCHANGED time

\* One more command of the same sender changes nothing.
CheckSame(c) == c = oldClient /\ UNCHANGED iocVars

SecondPasses ==
  /\ time < MaxTime /\ time' = time + 1
  /\ UNCHANGED <<oldClient, whenChanged, whenDuplicate, lastChange, lastDuplicate>>

IocInit ==
  /\ time = BootTime /\ oldClient = Nobody /\ whenChanged = 0 /\ whenDuplicate = 0
  /\ lastChange = Never /\ lastDuplicate = Never

IocNext == SecondPasses \/ \E c \in Clients : Check(c) \/ CheckSame(c)
IocSpec == IocInit /\ [][IocNext]_iocVars

-----------------------------------------------------------------------------
\* What the times of the code satisfy: 10 s and 15 s, and seconds that fewer
\* bits hold than the microseconds they are divided from.
TimesOfTheCode ==
  /\ ChangeTime \in Nat \ {0} /\ ReportTime \in Nat \ {0} /\ BootTime \in Nat
  /\ SecondsWrap \in Nat \ {0} /\ WordModulus \in Nat /\ SecondsWrap <= WordModulus

ReallyDuplicate == time - lastDuplicate < ReportTime

(* What is reported are such senders and nothing else.                     *)
DuplicateIsReal == Reported => ReallyDuplicate

\* When the seconds began to count again last.
RoundStart == time - Now(time)

(* Two senders that alternate are reported, for ReportTime from each change*)
(* between them that comes within ChangeTime of the one before, until the  *)
(* seconds start again; in the first ChangeTime after that, which the      *)
(* change before may lie on the other side of, it is not claimed.          *)
DuplicateIsReported ==
  ReallyDuplicate /\ lastDuplicate >= RoundStart + ChangeTime => Reported

(* Until the seconds start again for the first time, such senders alone are*)
(* reported.                                                               *)
RealBeforeWrap == time < SecondsWrap => DuplicateIsReal
=============================================================================
