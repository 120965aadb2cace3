---------------------------- MODULE EpicsServer ----------------------------
(***************************************************************************)
(* The command server of epics.c, with the nonce of the command executed   *)
(* last and the one static reply, the reboot sequence among the commands   *)
(* it executes, and an IOC that sends a command again when no reply comes  *)
(* and gives it up some day.                                               *)
(*                                                                         *)
(* The IOC numbers its commands from 1; the numbers are their nonces.      *)
(***************************************************************************)
EXTENDS Integers, Sequences

CONSTANTS
  Kinds,         \* what the IOC may send, of AllKinds
  Capacity,      \* bound: datagrams in flight in one direction
  MaxCommands    \* bound: commands of the IOC

\* A command that sets something, one that is refused, the values of the
\* reboot sequence in turn, and another value of the same command.
Steps == <<"1", "100", "10000">>
RebootKinds == {"1", "100", "10000", "0"}
AllKinds == {"set", "bad"} \cup RebootKinds

ASSUME EpicsServerAssumption ==
  /\ Kinds \subseteq AllKinds
  /\ Capacity \in Nat /\ MaxCommands \in Nat

VARIABLES
  lastNonce,
  reply,         \* [nonce, of]: its header, and whose arguments it carries
  match,         \* i of crankRebootStateMachine, from 0
  executed,      \* the commands executed since the beginning
  boots,         \* how many of those had been at each reset of the FPGA
  commands,      \* datagrams to the server
  replies,       \* datagrams to the IOC
  ioc            \* the command of the IOC and how it stands

server == <<lastNonce, reply, match, executed, boots>>
epicsVars == <<server, commands, replies, ioc>>

\* The variants named ...Mutant here and below are faults the properties must
\* catch; nothing else uses them.

-----------------------------------------------------------------------------
(* The network: what is in flight one way stays in order.                  *)

\* What may be in flight after m was sent: it may be lost.
EpicsSent(net, m) == {net} \cup (IF Len(net) < Capacity THEN {Append(net, m)} ELSE {})

\* What may be in flight after the first arrived: it may have a duplicate.
EpicsLeft(net) == {net, Tail(net)}

-----------------------------------------------------------------------------
(* The server.                                                             *)

\* crankRebootStateMachine(): the reset takes everything with it.
CrankRebootMutant(kind) ==
  IF kind = Steps[match + 1]
  THEN IF match = 2 THEN "reset" ELSE "next" ELSE "stay"
CrankReboot(kind) ==
  IF kind \notin RebootKinds THEN "stay"
  ELSE IF kind = Steps[match + 1]
  THEN IF match = 2 THEN "reset" ELSE "next" ELSE "start"

FreshMutant(m) == TRUE
Fresh(m) == m.nonce # lastNonce

\* A command with the nonce of the last one has its reply sent again, with
\* the header that is in it by now.
RepeatReply(m) ==
  /\ ~Fresh(m)
  /\ replies' \in EpicsSent(replies, reply)
  /\ UNCHANGED server

\* A command that is refused has left its header in the reply.
Refuse(m) ==
  /\ Fresh(m) /\ m.kind = "bad"
  /\ reply' = [reply EXCEPT !.nonce = m.nonce]
  /\ UNCHANGED <<lastNonce, match, executed, boots, replies>>

Execute(m) ==
  /\ Fresh(m) /\ m.kind # "bad" /\ CrankReboot(m.kind) # "reset"
  /\ executed' = Append(executed, m)
  /\ match' = IF CrankReboot(m.kind) = "next" THEN match + 1
              ELSE IF CrankReboot(m.kind) = "start" THEN 0 ELSE match
  /\ reply' = [nonce |-> m.nonce, of |-> m.nonce] /\ lastNonce' = m.nonce
  /\ replies' \in EpicsSent(replies, reply')
  /\ UNCHANGED boots

\* The last step of the reboot sequence: there is no reply, and the server
\* starts with its memory as it was first.
Reboot(m) ==
  /\ Fresh(m) /\ CrankReboot(m.kind) = "reset"
  /\ executed' = Append(executed, m) /\ boots' = boots \cup {Len(executed')}
  /\ lastNonce' = 0 /\ reply' = [nonce |-> 0, of |-> 0] /\ match' = 0
  /\ UNCHANGED replies

\* epics_callback()
EpicsReceive ==
  /\ commands # <<>>
  /\ commands' \in EpicsLeft(commands)
  /\ LET m == Head(commands)
     IN  RepeatReply(m) \/ Refuse(m) \/ Execute(m) \/ Reboot(m)
  /\ UNCHANGED ioc

-----------------------------------------------------------------------------
(* The IOC.                                                                *)

Command == [nonce |-> ioc.nonce, kind |-> ioc.kind]

Issue(kind) ==
  /\ ioc.state # "waiting" /\ ioc.nonce < MaxCommands
  /\ ioc' = [nonce |-> ioc.nonce + 1, kind |-> kind, state |-> "waiting", answer |-> 0]
  /\ commands' \in EpicsSent(commands, Command')
  /\ UNCHANGED <<server, replies>>

EpicsResend ==
  /\ ioc.state = "waiting"
  /\ commands' \in EpicsSent(commands, Command)
  /\ UNCHANGED <<server, replies, ioc>>

EpicsGiveUp ==
  /\ ioc.state = "waiting"
  /\ ioc' = [ioc EXCEPT !.state = "given up"]
  /\ UNCHANGED <<server, commands, replies>>

IocReceive ==
  /\ replies # <<>>
  /\ replies' \in EpicsLeft(replies)
  /\ ioc' = IF ioc.state = "waiting" /\ Head(replies).nonce = ioc.nonce
            THEN [ioc EXCEPT !.state = "answered", !.answer = Head(replies).of]
            ELSE ioc
  /\ UNCHANGED <<server, commands>>

-----------------------------------------------------------------------------
EpicsInit ==
  /\ lastNonce = 0 /\ reply = [nonce |-> 0, of |-> 0] /\ match = 0
  /\ executed = <<>> /\ boots = {}
  /\ commands = <<>> /\ replies = <<>>
  /\ ioc = [nonce |-> 0, kind |-> "set", state |-> "answered", answer |-> 0]

EpicsNext ==
  \/ EpicsReceive \/ IocReceive
  \/ \E kind \in Kinds : Issue(kind)
  \/ EpicsResend \/ EpicsGiveUp

EpicsSpec == EpicsInit /\ [][EpicsNext]_epicsVars

-----------------------------------------------------------------------------
(* Commands are executed in the order they were issued, and each of them   *)
(* once at most, unless the FPGA was reset in between.                     *)
OnceInOrder ==
  \A i, j \in 1..Len(executed) : i < j =>
    IF \E b \in boots : b \in i..(j - 1) THEN executed[i].nonce <= executed[j].nonce
    ELSE executed[i].nonce < executed[j].nonce

(* A command that is answered was executed, and the answer is its own: one *)
(* that is refused is never answered.                                      *)
AnswersAreOwn ==
  ioc.state = "answered" /\ ioc.nonce > 0 =>
    /\ ioc.answer = ioc.nonce /\ ioc.kind # "bad"
    /\ \E i \in 1..Len(executed) : executed[i] = Command

(* The FPGA is reset by the three values one after the other, each of a    *)
(* command of its own, whatever was sent again or lost, and whatever other *)
(* commands came between them.                                             *)
RebootsInSequence ==
  \A b \in boots : \E i, j \in 1..(b - 1) :
    /\ i < j
    /\ executed[i].kind = Steps[1] /\ executed[j].kind = Steps[2] /\ executed[b].kind = Steps[3]
    /\ \A k \in i..b : executed[k].kind \in RebootKinds => k \in {i, j, b}
    /\ executed[i].nonce < executed[j].nonce /\ executed[j].nonce < executed[b].nonce
=============================================================================
