---------------------------- MODULE ServerProofs -----------------------------
(***************************************************************************)
(* The servers of the main loop.  For EpicsServer, with any kinds, any     *)
(* number of commands and any number of datagrams in flight: nonces never  *)
(* fall along a queue and never fall below what was executed.  For Tftp,   *)
(* with any settings: the datagrams under way are of the session, and the  *)
(* server is at a block of its file.  For IocCheck, with any times: the    *)
(* seconds kept are those of the changes.  The three share no state.       *)
(***************************************************************************)
EXTENDS EpicsServer, Tftp, IocCheck, Remainders, SequenceTheorems, TLAPS

-----------------------------------------------------------------------------
\* Commands of EPICS.
Datagrams == [nonce : Nat, kind : AllKinds]
EpicsReplies == [nonce : Nat, of : Nat]

EpicsTypes ==
  /\ lastNonce \in Nat /\ reply \in EpicsReplies
  /\ executed \in Seq(Datagrams) /\ boots \subseteq Nat
  /\ commands \in Seq(Datagrams) /\ replies \in Seq(EpicsReplies)
  /\ ioc \in [nonce : Nat, kind : AllKinds, answer : Nat,
              state : {"waiting", "answered", "given up"}]

\* What is under way to the server: of the IOC's commands, the earlier ones
\* first, and none from before what was executed or remembered.
CommandsInv ==
  /\ \A i \in 1..Len(commands) :
       /\ 0 < commands[i].nonce /\ commands[i].nonce <= ioc.nonce
       /\ lastNonce <= commands[i].nonce
       /\ commands[i].nonce = ioc.nonce => commands[i] = Command
  /\ \A i, j \in 1..Len(commands) : i <= j => commands[i].nonce <= commands[j].nonce
  /\ \A i \in 1..Len(executed), j \in 1..Len(commands) :
       executed[i].nonce <= commands[j].nonce
  /\ ioc.state = "waiting" => 0 < ioc.nonce

\* The server remembers the command it executed last, until it is reset.
MemoryInv ==
  /\ lastNonce <= ioc.nonce /\ reply.nonce <= ioc.nonce
  /\ \A i \in 1..Len(executed) : executed[i].nonce <= ioc.nonce
  /\ \A b \in boots : b <= Len(executed)
  /\ executed # <<>> /\ Len(executed) \notin boots =>
       lastNonce = executed[Len(executed)].nonce

\* A reply that is not to another command of the IOC than its own, and to none
\* that was not executed.
OwnOf(r, c, done) ==
  /\ 0 < r.nonce /\ r.nonce = r.of /\ r.nonce <= c.nonce
  /\ r.nonce = c.nonce =>
       /\ c.kind # "bad"
       /\ \E k \in 1..Len(done) : done[k] = [nonce |-> c.nonce, kind |-> c.kind]
Own(r) == OwnOf(r, ioc, executed)

\* The static reply is that of the command remembered, or has the header of one
\* refused since, and then no repetition of the former can follow.
RepliesInv ==
  /\ \A i \in 1..Len(replies) : Own(replies[i])
  /\ \/ reply.nonce = lastNonce /\ (lastNonce > 0 => Own(reply))
     \/ lastNonce < reply.nonce /\ \A i \in 1..Len(commands) : reply.nonce <= commands[i].nonce

\* What the reboot sequence has matched so far: its steps are among the commands
\* executed since the last reset, and no other command of it came after the first.
MatchInv ==
  /\ match \in 0..2
  /\ match = 1 => \E i \in 1..Len(executed) :
       /\ executed[i].kind = "1"
       /\ \A k \in i..Len(executed) : executed[k].kind \in RebootKinds => k = i
       /\ \A b \in boots : b < i
  /\ match = 2 => \E i, j \in 1..Len(executed) :
       /\ i < j /\ executed[i].kind = "1" /\ executed[j].kind = "100"
       /\ \A k \in i..Len(executed) : executed[k].kind \in RebootKinds => k \in {i, j}
       /\ \A b \in boots : b < i

EpicsInv ==
  EpicsTypes /\ CommandsInv /\ MemoryInv /\ RepliesInv /\ OnceInOrder /\ AnswersAreOwn

RebootInv == EpicsInv /\ MatchInv /\ RebootsInSequence

-----------------------------------------------------------------------------
\* What the network leaves of a queue when its first arrived.
LEMMA Leaves ==
  ASSUME NEW D, NEW net \in Seq(D), net # <<>>, NEW after \in EpicsLeft(net)
  PROVE  /\ after \in Seq(D)
         /\ \E d \in {0, 1} : /\ Len(after) = Len(net) - d
                              /\ \A i \in 1..Len(after) : after[i] = net[i + d]
<1>1. CASE after = net
  BY <1>1
<1>2. CASE after = Tail(net)
  BY <1>2
<1> QED BY <1>1, <1>2 DEF EpicsLeft

\* What it makes of a queue when one is sent.
LEMMA Sends ==
  ASSUME NEW D, NEW net \in Seq(D), NEW m \in D, NEW after \in EpicsSent(net, m)
  PROVE  /\ after \in Seq(D) /\ Len(after) \in {Len(net), Len(net) + 1}
         /\ \A i \in 1..Len(net) : after[i] = net[i]
         /\ Len(after) = Len(net) + 1 => after[Len(after)] = m
<1>1. CASE after = net
  BY <1>1
<1>2. CASE after = Append(net, m)
  BY <1>2
<1> QED BY <1>1, <1>2 DEF EpicsSent

LEMMA EpicsStart == EpicsInit => EpicsInv
  BY DEF EpicsInit, EpicsInv, EpicsTypes, CommandsInv, MemoryInv, RepliesInv, OnceInOrder,
         AnswersAreOwn, Datagrams, EpicsReplies, AllKinds

\* The command that arrives, and what is still under way after it.
LEMMA Arrives ==
  ASSUME EpicsInv, EpicsReceive
  PROVE  LET m == Head(commands)
         IN  /\ m \in Datagrams /\ 0 < m.nonce /\ m.nonce <= ioc.nonce
             /\ lastNonce <= m.nonce
             /\ m.nonce = ioc.nonce => m = Command
             /\ RepliesInv /\ reply.nonce > lastNonce => reply.nonce <= m.nonce
             /\ \A i \in 1..Len(executed) : executed[i].nonce <= m.nonce
             /\ commands' \in Seq(Datagrams)
             /\ \A i \in 1..Len(commands') :
                  \E k \in 1..Len(commands) : commands'[i] = commands[k]
             /\ \A i \in 1..Len(commands') : m.nonce <= commands'[i].nonce
             /\ \A i, j \in 1..Len(commands') :
                  i <= j => commands'[i].nonce <= commands'[j].nonce
<1> DEFINE m == Head(commands)
<1>1. commands \in Seq(Datagrams) /\ commands # <<>> /\ commands' \in EpicsLeft(commands)
  BY DEF EpicsReceive, EpicsInv, EpicsTypes
<1>2. m = commands[1] /\ 1 \in 1..Len(commands) /\ m \in Datagrams /\ m.nonce \in Nat
  <2>1. m = commands[1] /\ 1 \in 1..Len(commands) /\ m \in Datagrams
    BY <1>1
  <2> QED BY <2>1 DEF Datagrams
<1>3. commands' \in Seq(Datagrams)
  BY <1>1, Leaves
<1>4. PICK d \in {0, 1} : /\ Len(commands') = Len(commands) - d
                          /\ \A i \in 1..Len(commands') : commands'[i] = commands[i + d]
  BY <1>1, Leaves
<1>5. \A i \in 1..Len(commands') : i + d \in 1..Len(commands)
  BY <1>1, <1>3, <1>4
<1>6. \A i, j \in 1..Len(commands) : i <= j => commands[i].nonce <= commands[j].nonce
  BY DEF EpicsInv, CommandsInv
<1>7. \A i \in 1..Len(commands') : m.nonce <= commands'[i].nonce
  BY <1>2, <1>4, <1>5, <1>6
<1>8. ASSUME NEW i \in 1..Len(commands'), NEW j \in 1..Len(commands'), i <= j
      PROVE  commands'[i].nonce <= commands'[j].nonce
  <2>1. i + d <= j + d
    BY <1>8
  <2> QED BY <1>4, <1>5, <1>6, <2>1
<1>9. /\ 0 < m.nonce /\ m.nonce <= ioc.nonce /\ lastNonce <= m.nonce
      /\ m.nonce = ioc.nonce => m = Command
      /\ \A i \in 1..Len(executed) : executed[i].nonce <= m.nonce
  BY <1>2 DEF EpicsInv, CommandsInv
<1>10. RepliesInv /\ reply.nonce > lastNonce => reply.nonce <= m.nonce
  <2>1. lastNonce \in Nat /\ reply.nonce \in Nat
    BY DEF EpicsInv, EpicsTypes, EpicsReplies
  <2> HIDE DEF m
  <2> QED BY <1>2, <2>1 DEF RepliesInv
<1> HIDE DEF m
<1>11. \A i \in 1..Len(commands') : \E k \in 1..Len(commands) : commands'[i] = commands[k]
  BY <1>4, <1>5
<1> QED BY <1>2, <1>3, <1>7, <1>8, <1>9, <1>10, <1>11 DEF m

\* What is under way to the server keeps its order when one arrives, provided
\* that what is remembered and executed is no later than what arrived.
LEMMA CommandsStay ==
  ASSUME EpicsInv, EpicsReceive, lastNonce' <= Head(commands).nonce,
         \A i \in 1..Len(executed') : executed'[i].nonce <= Head(commands).nonce,
         lastNonce' \in Nat, executed' \in Seq(Datagrams)
  PROVE  CommandsInv'
<1> DEFINE m == Head(commands)
<1>1. ioc' = ioc /\ ioc.nonce \in Nat
  BY DEF EpicsReceive, EpicsInv, EpicsTypes
<1>2. /\ m \in Datagrams /\ commands' \in Seq(Datagrams)
      /\ \A i \in 1..Len(commands') : \E k \in 1..Len(commands) : commands'[i] = commands[k]
      /\ \A i \in 1..Len(commands') : m.nonce <= commands'[i].nonce
      /\ \A i, j \in 1..Len(commands') :
           i <= j => commands'[i].nonce <= commands'[j].nonce
  BY Arrives
<1>3. \A i \in 1..Len(commands) :
        /\ 0 < commands[i].nonce /\ commands[i].nonce <= ioc.nonce
        /\ commands[i].nonce = ioc.nonce => commands[i] = Command
  BY DEF EpicsInv, CommandsInv
<1>4. m.nonce \in Nat
  BY <1>2 DEF Datagrams
<1>5. Command' = Command
  BY <1>1 DEF Command
<1> HIDE DEF m
<1>6. ASSUME NEW i \in 1..Len(commands')
      PROVE  /\ 0 < commands'[i].nonce /\ commands'[i].nonce <= ioc'.nonce
             /\ lastNonce' <= commands'[i].nonce
             /\ commands'[i].nonce = ioc'.nonce => commands'[i] = Command'
  <2>1. commands'[i] \in Datagrams
    BY <1>2
  <2>2. commands'[i].nonce \in Nat
    BY <2>1 DEF Datagrams
  <2>3. PICK k \in 1..Len(commands) : commands'[i] = commands[k]
    BY <1>2
  <2>4. /\ 0 < commands[k].nonce /\ commands[k].nonce <= ioc.nonce
        /\ commands[k].nonce = ioc.nonce => commands[k] = Command
    BY <1>3
  <2>5. m.nonce <= commands'[i].nonce /\ lastNonce' <= m.nonce
    BY <1>2 DEF m
  <2>6. lastNonce' <= commands'[i].nonce
    BY <1>4, <2>2, <2>5
  <2> QED BY <1>1, <1>5, <2>3, <2>4, <2>6
<1>7. ASSUME NEW i \in 1..Len(executed'), NEW j \in 1..Len(commands')
      PROVE  executed'[i].nonce <= commands'[j].nonce
  <2>1. commands'[j] \in Datagrams /\ executed'[i] \in Datagrams
    BY <1>2
  <2>2. commands'[j].nonce \in Nat /\ executed'[i].nonce \in Nat
    BY <2>1 DEF Datagrams
  <2> QED BY <1>2, <1>4, <2>2 DEF m
<1>8. ioc'.state = "waiting" => 0 < ioc'.nonce
  BY <1>1 DEF EpicsInv, CommandsInv
<1> QED BY <1>2, <1>6, <1>7, <1>8 DEF CommandsInv

\* A command that is not the one remembered is executed after all before it.
LEMMA ExecutesOnce ==
  ASSUME EpicsInv, EpicsReceive, Fresh(Head(commands)),
         executed' = Append(executed, Head(commands)),
         boots' \in {boots, boots \cup {Len(executed')}}
  PROVE  OnceInOrder'
<1> DEFINE m == Head(commands)
           n == Len(executed)
<1>1. /\ m \in Datagrams
      /\ \A i \in 1..n : executed[i].nonce <= m.nonce
  BY Arrives
<1>2. /\ executed \in Seq(Datagrams) /\ boots \subseteq Nat /\ \A b \in boots : b <= n
      /\ executed # <<>> /\ n \notin boots => lastNonce = executed[n].nonce
      /\ OnceInOrder /\ n \in Nat
  <2>1. executed \in Seq(Datagrams) /\ boots \subseteq Nat
    BY DEF EpicsInv, EpicsTypes
  <2>2. MemoryInv /\ OnceInOrder
    BY DEF EpicsInv
  <2> QED BY <2>1, <2>2 DEF MemoryInv
<1>3. /\ Len(executed') = n + 1 /\ executed'[n + 1] = m
      /\ \A i \in 1..n : executed'[i] = executed[i] /\ executed[i].nonce \in Nat
      /\ m.nonce \in Nat /\ m.nonce # lastNonce
  <2>1. \A i \in 1..n : executed[i] \in Datagrams
    BY <1>2
  <2>2. \A d \in Datagrams : d.nonce \in Nat
    BY DEF Datagrams
  <2>3. m.nonce # lastNonce
    BY DEF Fresh
  <2>4. /\ Len(executed') = n + 1 /\ executed'[n + 1] = m
        /\ \A i \in 1..n : executed'[i] = executed[i]
    <3>1. executed' = Append(executed, m)
      OBVIOUS
    <3> HIDE DEF m
    <3> QED BY <1>1, <1>2, <3>1
  <2> QED BY <1>1, <2>1, <2>2, <2>3, <2>4
<1> HIDE DEF m, n
<1>4. SUFFICES ASSUME NEW i \in 1..(n + 1), NEW j \in 1..(n + 1), i < j
               PROVE  IF \E b \in boots' : b \in i..(j - 1)
                      THEN executed'[i].nonce <= executed'[j].nonce
                      ELSE executed'[i].nonce < executed'[j].nonce
  BY <1>3 DEF OnceInOrder
<1>5. (\E b \in boots' : b \in i..(j - 1)) <=> \E b \in boots : b \in i..(j - 1)
  BY <1>2, <1>3
<1>6. CASE j <= n
  <2>1. i \in 1..n /\ j \in 1..n
    BY <1>2, <1>4, <1>6
  <2>2. IF \E b \in boots : b \in i..(j - 1)
        THEN executed[i].nonce <= executed[j].nonce
        ELSE executed[i].nonce < executed[j].nonce
    BY <1>2, <1>4, <2>1 DEF OnceInOrder, n
  <2> QED BY <1>3, <1>5, <2>1, <2>2
<1>7. CASE j = n + 1
  <2>1. i \in 1..n
    BY <1>2, <1>4, <1>7
  <2>2. executed'[i].nonce = executed[i].nonce /\ executed'[j].nonce = m.nonce
        /\ executed[i].nonce <= m.nonce /\ executed[i].nonce \in Nat /\ m.nonce \in Nat
    BY <1>1, <1>3, <1>7, <2>1
  <2>3. CASE \E b \in boots : b \in i..(j - 1)
    BY <1>5, <2>2, <2>3
  <2>4. CASE ~\E b \in boots : b \in i..(j - 1)
    <3>1. n \notin boots /\ n \in 1..n
      BY <1>2, <1>7, <2>1, <2>4
    <3>2. executed[n].nonce # m.nonce /\ executed[n].nonce <= m.nonce /\ executed[n].nonce \in Nat
      <4>1. executed # <<>>
        BY <3>1 DEF n
      <4> QED BY <1>1, <1>2, <1>3, <3>1, <4>1
    <3>3. executed[i].nonce <= executed[n].nonce
      <4>1. CASE i < n
        <5>1. \A b \in boots : b \notin i..(n - 1)
          BY <1>2, <1>7, <2>1, <2>4
        <5>2. executed[i].nonce < executed[n].nonce
          BY <1>2, <2>1, <3>1, <4>1, <5>1 DEF OnceInOrder, n
        <5> QED BY <2>2, <3>2, <5>2
      <4>2. CASE i = n
        BY <4>2, <3>2
      <4>3. i < n \/ i = n
        BY <1>2, <2>1
      <4> QED BY <4>1, <4>2, <4>3
    <3>4. executed[i].nonce < m.nonce
      <4> DEFINE x == executed[i].nonce
                 y == executed[n].nonce
                 z == m.nonce
      <4>1. x \in Nat /\ y \in Nat /\ z \in Nat /\ x <= y /\ y <= z /\ y # z
        BY <2>2, <3>2, <3>3
      <4> HIDE DEF x, y, z
      <4>2. x < z
        BY <4>1
      <4> QED BY <4>2 DEF x, z
    <3> QED BY <1>5, <2>2, <2>4, <3>4
  <2> QED BY <2>3, <2>4
<1>8. j <= n \/ j = n + 1
  BY <1>2, <1>4
<1> QED BY <1>6, <1>7, <1>8

-----------------------------------------------------------------------------
\* A reply stays what it is as long as nothing executed is taken back.
LEMMA StaysOwn ==
  ASSUME NEW r, NEW c, NEW d, NEW done \in Seq(Datagrams), NEW after,
         OwnOf(r, c, done), d.nonce = c.nonce, d.kind = c.kind,
         after = done \/ \E m \in Datagrams : after = Append(done, m)
  PROVE  OwnOf(r, d, after)
<1>1. ASSUME NEW k \in 1..Len(done)
      PROVE  k \in 1..Len(after) /\ after[k] = done[k]
  OBVIOUS
<1> QED BY <1>1 DEF OwnOf

\* The server has the command that arrived repeated, refused or executed.
LEMMA ServerKeepsMemory ==
  ASSUME EpicsInv, EpicsReceive
  PROVE  EpicsTypes' /\ CommandsInv' /\ MemoryInv' /\ OnceInOrder'
<1> DEFINE m == Head(commands)
<1>1. /\ m \in Datagrams /\ m.nonce <= ioc.nonce /\ lastNonce <= m.nonce
      /\ \A i \in 1..Len(executed) : executed[i].nonce <= m.nonce
      /\ commands' \in Seq(Datagrams)
  BY Arrives
<1>2. EpicsTypes /\ MemoryInv /\ OnceInOrder /\ ioc' = ioc
  BY DEF EpicsInv, EpicsReceive
<1>3. m.nonce \in Nat
  BY <1>1 DEF Datagrams
<1>4. ioc.nonce \in Nat /\ lastNonce \in Nat /\ executed \in Seq(Datagrams) /\ replies \in Seq(EpicsReplies)
  BY <1>2 DEF EpicsTypes
<1>5. ASSUME NEW r \in EpicsReplies, replies' \in EpicsSent(replies, r) PROVE replies' \in Seq(EpicsReplies)
  BY <1>4, <1>5, Sends
<1>6. RepeatReply(m) \/ Refuse(m) \/ Execute(m) \/ Reboot(m)
  BY DEF EpicsReceive
<1>7. \A r \in EpicsReplies : [r EXCEPT !.nonce = m.nonce] \in EpicsReplies
  BY <1>3 DEF EpicsReplies
<1>8. [nonce |-> m.nonce, of |-> m.nonce] \in EpicsReplies /\ [nonce |-> 0, of |-> 0] \in EpicsReplies
  BY <1>3 DEF EpicsReplies
<1> HIDE DEF m
<1>9. CASE RepeatReply(m) \/ Refuse(m)
  <2>1. UNCHANGED <<lastNonce, executed, boots>>
    BY <1>9 DEF RepeatReply, Refuse, server
  <2>2. CommandsInv'
    BY <1>1, <1>4, <2>1, CommandsStay DEF m
  <2>3. reply' = reply \/ reply' = [reply EXCEPT !.nonce = m.nonce]
    BY <1>9 DEF RepeatReply, Refuse, server
  <2>4. reply' \in EpicsReplies /\ replies' \in Seq(EpicsReplies)
    BY <1>2, <1>4, <1>5, <1>7, <1>9, <2>3 DEF EpicsTypes, RepeatReply, Refuse
  <2>5. reply'.nonce <= ioc.nonce
    BY <1>1, <1>2, <2>3 DEF MemoryInv, EpicsTypes, EpicsReplies
  <2>6. EpicsTypes'
    BY <1>1, <1>2, <2>1, <2>4 DEF EpicsTypes
  <2>7. MemoryInv'
    BY <1>2, <2>1, <2>5 DEF MemoryInv
  <2>8. OnceInOrder'
    BY <1>2, <2>1 DEF OnceInOrder
  <2> QED BY <2>2, <2>6, <2>7, <2>8
<1>10. CASE Execute(m) \/ Reboot(m)
  <2>1. /\ Fresh(m) /\ executed' = Append(executed, m)
        /\ \/ boots' = boots /\ lastNonce' = m.nonce
           \/ boots' = boots \cup {Len(executed')} /\ lastNonce' = 0
    BY <1>10 DEF Execute, Reboot
  <2>2. /\ executed' \in Seq(Datagrams) /\ Len(executed') = Len(executed) + 1
        /\ executed'[Len(executed')] = m /\ Len(executed') \in Nat
        /\ \A i \in 1..Len(executed) : executed'[i] = executed[i]
    BY <1>1, <1>4, <2>1
  <2>3. \A i \in 1..Len(executed') : executed'[i].nonce <= m.nonce
    <3> SUFFICES ASSUME NEW i \in 1..Len(executed') PROVE executed'[i].nonce <= m.nonce
      OBVIOUS
    <3>1. CASE i = Len(executed')
      BY <1>3, <2>2, <3>1
    <3>2. CASE i # Len(executed')
      <4>1. i \in 1..Len(executed)
        BY <1>4, <2>2, <3>2
      <4> QED BY <1>1, <2>2, <4>1
    <3> QED BY <3>1, <3>2
  <2>4. lastNonce' \in Nat /\ lastNonce' <= m.nonce
    BY <1>3, <2>1
  <2>5. CommandsInv'
    BY <2>2, <2>3, <2>4, CommandsStay DEF m
  <2>6. OnceInOrder'
    BY <2>1, ExecutesOnce DEF m
  <2>7. reply' \in EpicsReplies /\ reply'.nonce <= m.nonce /\ replies' \in Seq(EpicsReplies)
    BY <1>3, <1>4, <1>5, <1>8, <1>10 DEF Execute, Reboot
  <2>8. EpicsTypes'
    BY <1>1, <1>2, <2>1, <2>2, <2>4, <2>7 DEF EpicsTypes
  <2>9. MemoryInv'
    <3>1. reply'.nonce \in Nat
      BY <2>7 DEF EpicsReplies
    <3>2. lastNonce' <= ioc.nonce /\ reply'.nonce <= ioc.nonce
      BY <1>1, <1>3, <1>4, <2>4, <2>7, <3>1
    <3>3. \A i \in 1..Len(executed') : executed'[i].nonce <= ioc.nonce
      <4>1. \A i \in 1..Len(executed') : executed'[i] \in Datagrams
        BY <2>2
      <4>2. \A i \in 1..Len(executed') : executed'[i].nonce \in Nat
        BY <4>1 DEF Datagrams
      <4> QED BY <1>1, <1>3, <1>4, <2>3, <4>2
    <3>4. \A b \in boots' : b <= Len(executed')
      <4>1. \A b \in boots : b \in Nat /\ b <= Len(executed)
        BY <1>2 DEF MemoryInv, EpicsTypes
      <4> QED BY <1>4, <2>1, <2>2, <4>1
    <3>5. Len(executed') \notin boots' => lastNonce' = executed'[Len(executed')].nonce
      BY <2>1, <2>2
    <3> QED BY <1>2, <3>2, <3>3, <3>4, <3>5 DEF MemoryInv
  <2> QED BY <2>5, <2>6, <2>8, <2>9
<1> QED BY <1>6, <1>9, <1>10

\* What is sent is the reply of the command remembered, since no repetition of
\* it is under way once another was refused.
LEMMA ServerKeepsReplies ==
  ASSUME EpicsInv, EpicsReceive
  PROVE  RepliesInv' /\ AnswersAreOwn'
<1> DEFINE m == Head(commands)
<1>1. /\ m \in Datagrams /\ 0 < m.nonce /\ m.nonce <= ioc.nonce /\ lastNonce <= m.nonce
      /\ m.nonce = ioc.nonce => m = Command
      /\ reply.nonce > lastNonce => reply.nonce <= m.nonce
      /\ \A i \in 1..Len(commands') : m.nonce <= commands'[i].nonce
  BY Arrives DEF EpicsInv
<1>2. EpicsTypes /\ RepliesInv /\ AnswersAreOwn /\ ioc' = ioc
  BY DEF EpicsInv, EpicsReceive
<1>3. lastNonce \in Nat /\ reply \in EpicsReplies /\ executed \in Seq(Datagrams) /\ replies \in Seq(EpicsReplies)
  BY <1>2 DEF EpicsTypes
<1>4. m.nonce \in Nat /\ reply.nonce \in Nat /\ ioc.nonce \in Nat
  BY <1>1, <1>2, <1>3 DEF Datagrams, EpicsReplies, EpicsTypes
<1>5. RepeatReply(m) \/ Refuse(m) \/ Execute(m) \/ Reboot(m)
  BY DEF EpicsReceive
<1> HIDE DEF m
<1>6. executed' = executed \/ executed' = Append(executed, m)
  BY <1>5 DEF RepeatReply, Refuse, Execute, Reboot, server
<1>7. \A r : Own(r) => OwnOf(r, ioc', executed')
  BY <1>1, <1>2, <1>3, <1>6, StaysOwn DEF Own
<1>8. AnswersAreOwn'
  <2>1. Command' = Command
    BY <1>2 DEF Command
  <2>2. ASSUME NEW k \in 1..Len(executed), executed[k] = Command
        PROVE  \E l \in 1..Len(executed') : executed'[l] = Command
    <3>1. k \in 1..Len(executed') /\ executed'[k] = executed[k]
      BY <1>1, <1>3, <1>6
    <3> QED BY <2>2, <3>1
  <2> QED BY <1>2, <2>1, <2>2 DEF AnswersAreOwn
<1>9. ASSUME NEW r \in EpicsReplies, OwnOf(r, ioc', executed'), replies' \in EpicsSent(replies, r)
      PROVE  \A i \in 1..Len(replies') : OwnOf(replies'[i], ioc', executed')
  <2>1. /\ replies' \in Seq(EpicsReplies) /\ Len(replies') \in {Len(replies), Len(replies) + 1}
        /\ \A i \in 1..Len(replies) : replies'[i] = replies[i]
        /\ Len(replies') = Len(replies) + 1 => replies'[Len(replies')] = r
    BY <1>3, <1>9, Sends
  <2>2. \A i \in 1..Len(replies) : OwnOf(replies[i], ioc', executed')
    BY <1>2, <1>7 DEF RepliesInv
  <2>3. TAKE i \in 1..Len(replies')
  <2>4. i \in 1..Len(replies) \/ i = Len(replies')
    BY <1>3, <2>1
  <2>5. CASE i \in 1..Len(replies)
    <3>1. replies'[i] = replies[i]
      BY <2>1, <2>5
    <3>2. OwnOf(replies[i], ioc', executed')
      BY <2>2, <2>5
    <3> QED BY <3>1, <3>2
  <2>6. CASE i \notin 1..Len(replies)
    <3>1. replies'[i] = r
      BY <1>3, <2>1, <2>4, <2>6
    <3> QED BY <1>9, <3>1
  <2> QED BY <2>5, <2>6
<1>10. CASE RepeatReply(m)
  <2>1. lastNonce = m.nonce /\ UNCHANGED <<lastNonce, reply>> /\ replies' \in EpicsSent(replies, reply)
    BY <1>10 DEF RepeatReply, Fresh, server
  <2>2. reply.nonce = lastNonce /\ Own(reply)
    BY <1>1, <1>2, <1>4, <2>1 DEF RepliesInv
  <2>3. OwnOf(reply, ioc', executed')
    BY <2>2, <1>7
  <2>4. \A i \in 1..Len(replies') : OwnOf(replies'[i], ioc', executed')
    BY <1>3, <1>9, <2>1, <2>3
  <2> QED BY <1>8, <2>1, <2>2, <2>3, <2>4 DEF RepliesInv, Own
<1>11. CASE Refuse(m)
  <2>1. /\ m.nonce # lastNonce /\ reply' = [reply EXCEPT !.nonce = m.nonce]
        /\ UNCHANGED <<lastNonce, executed, replies>>
    BY <1>11 DEF Refuse, Fresh
  <2>2. reply'.nonce = m.nonce /\ lastNonce < m.nonce
    BY <1>1, <1>3, <1>4, <2>1 DEF EpicsReplies
  <2>3. \A i \in 1..Len(replies') : OwnOf(replies'[i], ioc', executed')
    BY <1>2, <1>7, <2>1 DEF RepliesInv
  <2> QED BY <1>1, <1>8, <2>1, <2>2, <2>3 DEF RepliesInv, Own
<1>12. CASE Execute(m)
  <2>1. /\ reply' = [nonce |-> m.nonce, of |-> m.nonce] /\ lastNonce' = m.nonce /\ m.kind # "bad"
        /\ executed' = Append(executed, m) /\ replies' \in EpicsSent(replies, reply')
    BY <1>12 DEF Execute
  <2>2. ASSUME m.nonce = ioc.nonce
        PROVE  ioc.kind # "bad" /\ \E k \in 1..Len(executed') : executed'[k] = Command
    <3>1. m = Command /\ m.kind = ioc.kind
      BY <1>1, <2>2 DEF Command
    <3>2. Len(executed') \in 1..Len(executed') /\ executed'[Len(executed')] = m
      BY <1>1, <1>3, <2>1
    <3> QED BY <2>1, <3>1, <3>2
  <2>3. OwnOf(reply', ioc', executed')
    BY <1>1, <1>2, <2>1, <2>2 DEF OwnOf, Command
  <2>4. reply' \in EpicsReplies
    BY <1>4, <2>1 DEF EpicsReplies
  <2>5. \A i \in 1..Len(replies') : OwnOf(replies'[i], ioc', executed')
    BY <1>9, <2>1, <2>3, <2>4
  <2> QED BY <1>8, <2>1, <2>3, <2>5 DEF RepliesInv, Own
<1>13. CASE Reboot(m)
  <2>1. reply'.nonce = 0 /\ lastNonce' = 0 /\ replies' = replies
    BY <1>13 DEF Reboot
  <2>2. \A i \in 1..Len(replies') : OwnOf(replies'[i], ioc', executed')
    BY <1>2, <1>7, <2>1 DEF RepliesInv
  <2> QED BY <1>8, <2>1, <2>2 DEF RepliesInv, Own
<1> QED BY <1>5, <1>10, <1>11, <1>12, <1>13

\* What the IOC sends is no earlier than anything under way or remembered.
LEMMA IocSends ==
  ASSUME EpicsInv, UNCHANGED <<server, replies>>,
         commands' \in EpicsSent(commands, Command'),
         ioc' \in [nonce : Nat, kind : AllKinds, answer : Nat, state : {"waiting"}],
         0 < ioc'.nonce, ioc' = ioc \/ ioc.nonce < ioc'.nonce
  PROVE  EpicsInv'
<1>1. /\ EpicsTypes /\ CommandsInv /\ MemoryInv /\ RepliesInv /\ OnceInOrder
      /\ UNCHANGED <<lastNonce, reply, executed, boots, replies>>
  BY DEF EpicsInv, server
<1>2. /\ ioc.nonce \in Nat /\ ioc'.nonce \in Nat /\ ioc.nonce <= ioc'.nonce
      /\ lastNonce \in Nat /\ reply.nonce \in Nat
  <2>1. ioc.nonce \in Nat /\ ioc'.nonce \in Nat /\ lastNonce \in Nat /\ reply.nonce \in Nat
    BY <1>1 DEF EpicsTypes, EpicsReplies
  <2> QED BY <2>1
<1>0. /\ commands \in Seq(Datagrams) /\ executed \in Seq(Datagrams)
      /\ reply \in EpicsReplies /\ replies \in Seq(EpicsReplies)
  BY <1>1 DEF EpicsTypes
<1>3. Command' \in Datagrams /\ Command'.nonce = ioc'.nonce
  BY DEF Command, Datagrams
<1>4. /\ commands' \in Seq(Datagrams) /\ Len(commands') \in {Len(commands), Len(commands) + 1}
      /\ \A i \in 1..Len(commands) : commands'[i] = commands[i]
      /\ Len(commands') = Len(commands) + 1 => commands'[Len(commands')] = Command'
  BY <1>0, <1>3, Sends
<1>5. ASSUME NEW i \in 1..Len(commands')
      PROVE  i \in 1..Len(commands) \/ (i = Len(commands') /\ commands'[i] = Command')
  <2>1. Len(commands) \in Nat
    BY <1>0
  <2> QED BY <1>4, <2>1
<1>6. /\ \A i \in 1..Len(commands) : commands[i] \in Datagrams
      /\ \A i \in 1..Len(executed) : executed[i] \in Datagrams
      /\ \A d \in Datagrams : d.nonce \in Nat
  <2>1. \A d \in Datagrams : d.nonce \in Nat
    BY DEF Datagrams
  <2> QED BY <1>0, <2>1
<1>7. ASSUME NEW i \in 1..Len(commands)
      PROVE  /\ commands'[i] = commands[i] /\ commands[i].nonce \in Nat
             /\ 0 < commands[i].nonce /\ commands[i].nonce <= ioc.nonce
             /\ lastNonce <= commands[i].nonce
             /\ commands[i].nonce = ioc.nonce => commands[i] = Command
  BY <1>1, <1>4, <1>6 DEF CommandsInv
<1>8. ASSUME NEW i \in 1..Len(commands')
      PROVE  /\ 0 < commands'[i].nonce /\ commands'[i].nonce <= ioc'.nonce
             /\ lastNonce <= commands'[i].nonce
             /\ commands'[i].nonce = ioc'.nonce => commands'[i] = Command'
  <2>1. CASE i \in 1..Len(commands)
    <3>1. CASE ioc' = ioc
      BY <1>7, <2>1, <3>1 DEF Command
    <3>2. CASE ioc.nonce < ioc'.nonce
      BY <1>2, <1>7, <2>1, <3>2
    <3> QED BY <3>1, <3>2
  <2>2. CASE commands'[i] = Command'
    BY <1>1, <1>2, <1>3, <2>2 DEF MemoryInv
  <2> QED BY <1>5, <2>1, <2>2
<1>9. ASSUME NEW i \in 1..Len(commands'), NEW j \in 1..Len(commands'), i <= j
      PROVE  commands'[i].nonce <= commands'[j].nonce
  <2>1. CASE j \in 1..Len(commands)
    <3>1. i \in 1..Len(commands)
      BY <1>9, <2>1
    <3>2. commands[i].nonce <= commands[j].nonce
      BY <1>1, <1>9, <2>1, <3>1 DEF CommandsInv
    <3> QED BY <1>7, <2>1, <3>1, <3>2
  <2>2. CASE commands'[j] = Command'
    BY <1>3, <1>8, <2>2
  <2> QED BY <1>5, <2>1, <2>2
<1>10. ASSUME NEW i \in 1..Len(executed), NEW j \in 1..Len(commands')
       PROVE  executed[i].nonce <= commands'[j].nonce
  <2>1. CASE j \in 1..Len(commands)
    BY <1>1, <1>7, <2>1 DEF CommandsInv
  <2>2. CASE commands'[j] = Command'
    BY <1>1, <1>2, <1>3, <1>6, <2>2 DEF MemoryInv
  <2> QED BY <1>5, <2>1, <2>2
<1>11. CommandsInv'
  BY <1>1, <1>8, <1>9, <1>10 DEF CommandsInv
<1>12. MemoryInv'
  <2>1. \A i \in 1..Len(executed) : executed[i].nonce <= ioc'.nonce
    BY <1>1, <1>2, <1>6 DEF MemoryInv
  <2>2. lastNonce <= ioc'.nonce /\ reply.nonce <= ioc'.nonce
    BY <1>1, <1>2 DEF MemoryInv
  <2> QED BY <1>1, <2>1, <2>2 DEF MemoryInv
<1>13. ASSUME NEW r \in EpicsReplies, Own(r) PROVE OwnOf(r, ioc', executed')
  <2>1. CASE ioc' = ioc
    BY <1>1, <1>13, <2>1 DEF Own
  <2>2. CASE ioc.nonce < ioc'.nonce
    <3>1. r.nonce \in Nat /\ 0 < r.nonce /\ r.nonce = r.of /\ r.nonce <= ioc.nonce
      BY <1>13 DEF EpicsReplies, Own, OwnOf
    <3>2. r.nonce <= ioc'.nonce /\ r.nonce # ioc'.nonce
      BY <1>2, <2>2, <3>1
    <3> QED BY <3>1, <3>2 DEF OwnOf
  <2> QED BY <2>1, <2>2
<1>14. RepliesInv'
  <2>1. \A i \in 1..Len(replies) : OwnOf(replies[i], ioc', executed')
    BY <1>0, <1>1, <1>13 DEF RepliesInv
  <2>2. CASE reply.nonce = lastNonce /\ (lastNonce > 0 => Own(reply))
    BY <1>0, <1>1, <1>13, <2>1, <2>2 DEF RepliesInv, Own
  <2>3. CASE lastNonce < reply.nonce /\ \A i \in 1..Len(commands) : reply.nonce <= commands[i].nonce
    <3>1. ASSUME NEW i \in 1..Len(commands') PROVE reply.nonce <= commands'[i].nonce
      <4>1. CASE i \in 1..Len(commands)
        BY <1>7, <2>3, <4>1
      <4>2. CASE commands'[i] = Command'
        BY <1>1, <1>2, <1>3, <4>2 DEF MemoryInv
      <4> QED BY <1>5, <4>1, <4>2
    <3> QED BY <1>1, <2>1, <2>3, <3>1 DEF RepliesInv, Own
  <2> QED BY <1>1, <2>2, <2>3 DEF RepliesInv
<1>15. EpicsTypes' /\ OnceInOrder' /\ AnswersAreOwn'
  BY <1>1, <1>4 DEF EpicsTypes, OnceInOrder, AnswersAreOwn
<1> QED BY <1>11, <1>12, <1>14, <1>15 DEF EpicsInv

LEMMA EpicsStep == EpicsInv /\ [EpicsNext]_epicsVars => EpicsInv'
<1> SUFFICES ASSUME EpicsInv, [EpicsNext]_epicsVars PROVE EpicsInv'
  OBVIOUS
<1>1. CASE EpicsReceive
  BY <1>1, ServerKeepsMemory, ServerKeepsReplies DEF EpicsInv
<1>2. ASSUME NEW kind \in Kinds, Issue(kind) PROVE EpicsInv'
  <2>1. ioc.nonce \in Nat /\ kind \in AllKinds
    BY EpicsServerAssumption DEF EpicsInv, EpicsTypes
  <2> QED BY <1>2, <2>1, IocSends DEF Issue
<1>3. CASE EpicsResend
  <2>1. ioc \in [nonce : Nat, kind : AllKinds, answer : Nat, state : {"waiting"}] /\ 0 < ioc.nonce
    BY <1>3 DEF EpicsResend, EpicsInv, EpicsTypes, CommandsInv
  <2>2. Command' = Command
    BY <1>3 DEF EpicsResend, Command
  <2> QED BY <1>3, <2>1, <2>2, IocSends DEF EpicsResend
<1>4. CASE EpicsGiveUp \/ IocReceive \/ UNCHANGED epicsVars
  <2>1. /\ UNCHANGED <<lastNonce, reply, executed, boots, commands>>
        /\ ioc'.nonce = ioc.nonce /\ ioc'.kind = ioc.kind
        /\ ioc'.state = "waiting" => ioc.state = "waiting"
    BY <1>4 DEF EpicsGiveUp, IocReceive, server, epicsVars, EpicsInv, EpicsTypes
  <2>2. Command' = Command
    BY <2>1 DEF Command
  <2>3. replies \in Seq(EpicsReplies) /\ executed \in Seq(Datagrams) /\ RepliesInv
    BY DEF EpicsInv, EpicsTypes
  <2>4. /\ replies' \in Seq(EpicsReplies)
        /\ \A i \in 1..Len(replies') : \E k \in 1..Len(replies) : replies'[i] = replies[k]
    <3>1. CASE replies' = replies
      BY <2>3, <3>1
    <3>2. CASE IocReceive
      <4>1. replies # <<>> /\ replies' \in EpicsLeft(replies)
        BY <3>2 DEF IocReceive
      <4>2. replies' \in Seq(EpicsReplies)
        BY <2>3, <4>1, Leaves
      <4>3. PICK d \in {0, 1} : /\ Len(replies') = Len(replies) - d
                                /\ \A i \in 1..Len(replies') : replies'[i] = replies[i + d]
        BY <2>3, <4>1, Leaves
      <4>4. \A i \in 1..Len(replies') : i + d \in 1..Len(replies)
        BY <2>3, <4>2, <4>3
      <4> QED BY <4>2, <4>3, <4>4
    <3> QED BY <1>4, <3>1, <3>2 DEF EpicsGiveUp, epicsVars
  <2>5. /\ ioc'.state \in {"waiting", "answered", "given up"} /\ ioc'.answer \in Nat
        /\ ioc' \in [nonce : Nat, kind : AllKinds, answer : Nat,
                     state : {"waiting", "answered", "given up"}]
    <3>1. CASE IocReceive
      <4>1. Head(replies).of \in Nat
        <5>1. Head(replies) \in EpicsReplies
          BY <2>3, <3>1 DEF IocReceive
        <5> QED BY <5>1 DEF EpicsReplies
      <4> QED BY <3>1, <4>1 DEF IocReceive, EpicsInv, EpicsTypes
    <3> QED BY <1>4, <3>1 DEF EpicsGiveUp, epicsVars, EpicsInv, EpicsTypes
  <2>6. EpicsTypes'
    BY <2>1, <2>4, <2>5 DEF EpicsInv, EpicsTypes
  <2>7. CommandsInv' /\ MemoryInv' /\ OnceInOrder'
    BY <2>1, <2>2 DEF EpicsInv, CommandsInv, MemoryInv, OnceInOrder
  <2>8. \A r : Own(r) => OwnOf(r, ioc', executed')
    BY <2>1 DEF Own, OwnOf
  <2>9. RepliesInv'
    BY <2>1, <2>3, <2>4, <2>8 DEF RepliesInv, Own
  <2>10. AnswersAreOwn'
    <3>1. CASE IocReceive /\ ioc.state = "waiting" /\ Head(replies).nonce = ioc.nonce
      <4>1. ioc'.answer = Head(replies).of
        BY <3>1 DEF IocReceive, EpicsInv, EpicsTypes
      <4>2. Own(Head(replies))
        <5>1. 1 \in 1..Len(replies) /\ Head(replies) = replies[1]
          BY <2>3, <3>1 DEF IocReceive
        <5> QED BY <2>3, <5>1 DEF RepliesInv
      <4> QED BY <2>1, <2>2, <3>1, <4>1, <4>2 DEF Own, OwnOf, AnswersAreOwn, Command
    <3>2. CASE ~(IocReceive /\ ioc.state = "waiting" /\ Head(replies).nonce = ioc.nonce)
      <4>1. ioc'.state = "answered" => ioc' = ioc
        BY <1>4, <3>2 DEF EpicsGiveUp, IocReceive, epicsVars, EpicsInv, EpicsTypes
      <4> QED BY <2>1, <4>1 DEF AnswersAreOwn, EpicsInv, Command
    <3> QED BY <3>1, <3>2
  <2> QED BY <2>6, <2>7, <2>9, <2>10 DEF EpicsInv
<1> QED BY <1>1, <1>2, <1>3, <1>4 DEF EpicsNext

\* Each command is executed once at most, in the order they were issued, unless
\* the FPGA was reset in between: for any commands, and however many are lost,
\* repeated or under way.  (the nonce in epics_callback)
THEOREM CommandsOnceInOrder == EpicsSpec => []OnceInOrder
<1>1. EpicsInv => OnceInOrder
  BY DEF EpicsInv
<1> QED BY EpicsStart, EpicsStep, <1>1, PTL DEF EpicsSpec

\* The IOC takes for an answer only that to the command it waits for, which was
\* executed, though a refused command leaves its header in the static reply.
THEOREM AnswersStayOwn == EpicsSpec => []AnswersAreOwn
<1>1. EpicsInv => AnswersAreOwn
  BY DEF EpicsInv
<1> QED BY EpicsStart, EpicsStep, <1>1, PTL DEF EpicsSpec

\* What is executed stays, and what was reset.
LEMMA Executes ==
  ASSUME EpicsInv, EpicsReceive, executed' # executed \/ boots' # boots \/ match' # match
  PROVE  \E m \in Datagrams :
           /\ executed' = Append(executed, m) /\ executed \in Seq(Datagrams)
           /\ Fresh(m) /\ m.kind # "bad" /\ OnceInOrder'
           /\ \/ Execute(m) \/ Reboot(m)
<1> DEFINE m == Head(commands)
<1>1. m \in Datagrams /\ OnceInOrder' /\ executed \in Seq(Datagrams)
  BY Arrives, ServerKeepsMemory DEF EpicsInv, EpicsTypes
<1>2. RepeatReply(m) \/ Refuse(m) \/ Execute(m) \/ Reboot(m)
  BY DEF EpicsReceive
<1> HIDE DEF m
<1>3. Execute(m) \/ Reboot(m)
  BY <1>2 DEF RepeatReply, Refuse, server
<1>4. executed' = Append(executed, m) /\ Fresh(m) /\ m.kind # "bad"
  BY <1>3 DEF Execute, Reboot, CrankReboot, RebootKinds
<1> QED BY <1>1, <1>3, <1>4

\* The resets there were stay as they were when more is executed.
LEMMA ResetsStay ==
  ASSUME NEW m, executed \in Seq(Datagrams), executed' = Append(executed, m), RebootsInSequence,
         NEW b \in boots, boots \subseteq Nat, b <= Len(executed)
  PROVE  \E i, j \in 1..(b - 1) :
           /\ i < j
           /\ executed'[i].kind = Steps[1] /\ executed'[j].kind = Steps[2]
           /\ executed'[b].kind = Steps[3]
           /\ \A k \in i..b : executed'[k].kind \in RebootKinds => k \in {i, j, b}
           /\ executed'[i].nonce < executed'[j].nonce /\ executed'[j].nonce < executed'[b].nonce
<1>1. \A k \in 1..Len(executed) : executed'[k] = executed[k]
  OBVIOUS
<1>2. PICK i \in 1..(b - 1), j \in 1..(b - 1) :
        /\ i < j
        /\ executed[i].kind = Steps[1] /\ executed[j].kind = Steps[2]
        /\ executed[b].kind = Steps[3]
        /\ \A k \in i..b : executed[k].kind \in RebootKinds => k \in {i, j, b}
        /\ executed[i].nonce < executed[j].nonce /\ executed[j].nonce < executed[b].nonce
  BY DEF RebootsInSequence
<1>3. b \in Nat /\ Len(executed) \in Nat
  OBVIOUS
<1>4. \A k \in i..b : k \in 1..Len(executed)
  BY <1>3
<1>5. b \in i..b /\ j \in i..b /\ i \in i..b
  BY <1>2, <1>3
<1>6. \A k \in i..b : executed'[k] = executed[k]
  BY <1>1, <1>4
<1> QED BY <1>2, <1>5, <1>6

\* One more command is executed: the steps matched stay, and one may be added.
LEMMA MatchesOn ==
  ASSUME RebootInv, NEW m \in Datagrams, Execute(m), executed' = Append(executed, m),
         executed \in Seq(Datagrams)
  PROVE  MatchInv'
<1>1. /\ Len(executed') = Len(executed) + 1 /\ Len(executed) \in Nat
      /\ executed'[Len(executed')] = m
      /\ \A k \in 1..Len(executed) : executed'[k] = executed[k]
  OBVIOUS
<1>2. /\ boots' = boots /\ boots \subseteq Nat /\ \A b \in boots : b <= Len(executed)
      /\ match \in 0..2 /\ CrankReboot(m.kind) # "reset"
      /\ match' = IF CrankReboot(m.kind) = "next" THEN match + 1
                  ELSE IF CrankReboot(m.kind) = "start" THEN 0 ELSE match
  BY DEF Execute, RebootInv, EpicsInv, EpicsTypes, MemoryInv, MatchInv
<1>3. CASE CrankReboot(m.kind) = "start"
  BY <1>2, <1>3 DEF MatchInv
<1>4. CASE CrankReboot(m.kind) = "stay"
  <2>1. m.kind \notin RebootKinds /\ match' = match
    BY <1>2, <1>4 DEF CrankReboot
  <2>2. ASSUME NEW i \in 1..Len(executed), NEW k \in i..Len(executed'),
               executed'[k].kind \in RebootKinds
        PROVE  k \in i..Len(executed) /\ executed'[k] = executed[k]
    <3>1. k # Len(executed')
      BY <1>1, <2>1, <2>2
    <3> QED BY <1>1, <3>1
  <2>3. CASE match = 0
    BY <2>1, <2>3 DEF MatchInv
  <2>4. CASE match = 1
    <3>1. PICK i \in 1..Len(executed) :
            /\ executed[i].kind = "1"
            /\ \A k \in i..Len(executed) : executed[k].kind \in RebootKinds => k = i
            /\ \A b \in boots : b < i
      BY <2>4 DEF RebootInv, MatchInv
    <3>2. /\ i \in 1..Len(executed') /\ executed'[i].kind = "1"
          /\ \A k \in i..Len(executed') : executed'[k].kind \in RebootKinds => k = i
      BY <1>1, <2>2, <3>1
    <3> QED BY <1>2, <2>1, <2>4, <3>1, <3>2 DEF MatchInv
  <2>5. CASE match = 2
    <3>1. PICK i \in 1..Len(executed), j \in 1..Len(executed) :
            /\ i < j /\ executed[i].kind = "1" /\ executed[j].kind = "100"
            /\ \A k \in i..Len(executed) : executed[k].kind \in RebootKinds => k \in {i, j}
            /\ \A b \in boots : b < i
      BY <2>5 DEF RebootInv, MatchInv
    <3>2. /\ i \in 1..Len(executed') /\ j \in 1..Len(executed')
          /\ executed'[i].kind = "1" /\ executed'[j].kind = "100"
          /\ \A k \in i..Len(executed') : executed'[k].kind \in RebootKinds => k \in {i, j}
      BY <1>1, <2>2, <3>1
    <3> QED BY <1>2, <2>1, <2>5, <3>1, <3>2 DEF MatchInv
  <2> QED BY <1>2, <2>3, <2>4, <2>5
<1>5. CASE CrankReboot(m.kind) = "next"
  <2>1. m.kind = Steps[match + 1] /\ match # 2 /\ match' = match + 1
    BY <1>2, <1>5 DEF CrankReboot
  <2> DEFINE n == Len(executed')
  <2>2. n \in 1..n /\ executed'[n] = m /\ \A b \in boots : b < n
    <3>1. n = Len(executed) + 1 /\ Len(executed) \in Nat /\ executed'[n] = m
      BY <1>1
    <3> HIDE DEF n
    <3> QED BY <1>2, <3>1
  <2>3. CASE match = 0
    <3>1. m.kind = "1" /\ match' = 1
      BY <2>1, <2>3 DEF Steps
    <3>2. \A k \in n..n : k = n
      BY <1>1
    <3> HIDE DEF n
    <3>3. \E i \in 1..n :
            /\ executed'[i].kind = "1"
            /\ \A k \in i..n : executed'[k].kind \in RebootKinds => k = i
            /\ \A b \in boots : b < i
      BY <2>2, <3>1, <3>2
    <3> QED BY <1>2, <3>1, <3>3 DEF MatchInv, n
  <2>4. CASE match = 1
    <3>1. m.kind = "100" /\ match' = 2
      BY <2>1, <2>4 DEF Steps
    <3>2. PICK i \in 1..Len(executed) :
            /\ executed[i].kind = "1"
            /\ \A k \in i..Len(executed) : executed[k].kind \in RebootKinds => k = i
            /\ \A b \in boots : b < i
      BY <2>4 DEF RebootInv, MatchInv
    <3>3. /\ n = Len(executed) + 1 /\ Len(executed) \in Nat
          /\ \A k \in 1..Len(executed) : executed'[k] = executed[k]
      BY <1>1
    <3> HIDE DEF n
    <3>4. i \in 1..n /\ i < n /\ executed'[i].kind = "1"
      BY <3>2, <3>3
    <3>5. ASSUME NEW k \in i..n, executed'[k].kind \in RebootKinds PROVE k \in {i, n}
      <4>1. CASE k = n
        BY <4>1
      <4>2. CASE k # n
        <5>1. k \in i..Len(executed) /\ k \in 1..Len(executed)
          BY <3>2, <3>3, <4>2
        <5>2. executed[k].kind \in RebootKinds
          BY <3>3, <3>5, <5>1
        <5> QED BY <3>2, <5>1, <5>2
      <4> QED BY <4>1, <4>2
    <3>6. \E p, q \in 1..n :
            /\ p < q /\ executed'[p].kind = "1" /\ executed'[q].kind = "100"
            /\ \A k \in p..n : executed'[k].kind \in RebootKinds => k \in {p, q}
            /\ \A b \in boots : b < p
      BY <2>2, <3>1, <3>2, <3>4, <3>5
    <3> QED BY <1>2, <3>1, <3>6 DEF MatchInv, n
  <2> QED BY <1>2, <2>1, <2>3, <2>4
<1>6. CrankReboot(m.kind) \in {"start", "stay", "next", "reset"}
  BY DEF CrankReboot
<1> QED BY <1>2, <1>3, <1>4, <1>5, <1>6

\* The FPGA is reset by the third step, after the two that were matched.
LEMMA ResetsInSequence ==
  ASSUME RebootInv, NEW m \in Datagrams, Reboot(m), executed' = Append(executed, m),
         executed \in Seq(Datagrams), OnceInOrder'
  PROVE  MatchInv' /\ RebootsInSequence'
<1> DEFINE n == Len(executed')
<1>1. /\ n = Len(executed) + 1 /\ Len(executed) \in Nat /\ executed'[n] = m
      /\ \A k \in 1..Len(executed) : executed'[k] = executed[k]
  OBVIOUS
<1>2. /\ boots' = boots \cup {n} /\ match' = 0 /\ boots \subseteq Nat
      /\ \A b \in boots : b <= Len(executed)
      /\ match = 2 /\ m.kind = "10000" /\ RebootsInSequence
  <2>1. boots' = boots \cup {n} /\ match' = 0 /\ CrankReboot(m.kind) = "reset"
    BY DEF Reboot
  <2>2. boots \subseteq Nat /\ (\A b \in boots : b <= Len(executed)) /\ RebootsInSequence
    BY DEF RebootInv, EpicsInv, EpicsTypes, MemoryInv
  <2>3. match = 2 /\ m.kind = Steps[match + 1]
    BY <2>1 DEF CrankReboot
  <2> HIDE DEF n
  <2> QED BY <2>1, <2>2, <2>3 DEF Steps
<1>3. PICK i \in 1..Len(executed), j \in 1..Len(executed) :
        /\ i < j /\ executed[i].kind = "1" /\ executed[j].kind = "100"
        /\ \A k \in i..Len(executed) : executed[k].kind \in RebootKinds => k \in {i, j}
        /\ \A b \in boots : b < i
  BY <1>2 DEF RebootInv, MatchInv
<1>4. i \in 1..(n - 1) /\ j \in 1..(n - 1) /\ i \in 1..n /\ j \in 1..n /\ n \in 1..n /\ j < n
  BY <1>1
<1> HIDE DEF n
<1>5. ASSUME NEW k \in i..n, executed'[k].kind \in RebootKinds PROVE k \in {i, j, n}
  <2>1. CASE k = n
    BY <2>1
  <2>2. CASE k # n
    <3>1. k \in i..Len(executed) /\ k \in 1..Len(executed)
      BY <1>1, <2>2
    <3>2. executed[k].kind \in RebootKinds
      BY <1>1, <1>5, <3>1
    <3> QED BY <1>3, <3>1, <3>2
  <2> QED BY <2>1, <2>2
<1>6. ~(\E b \in boots' : b \in i..(j - 1)) /\ ~(\E b \in boots' : b \in j..(n - 1))
  <2> SUFFICES ASSUME NEW b \in boots' PROVE b \notin i..(j - 1) /\ b \notin j..(n - 1)
    OBVIOUS
  <2>1. b = n \/ (b \in boots /\ b \in Nat /\ b < i)
    BY <1>2, <1>3
  <2> QED BY <1>1, <1>3, <2>1
<1>7. executed'[i].nonce < executed'[j].nonce /\ executed'[j].nonce < executed'[n].nonce
  <2>1. \A p, q \in 1..n :
          p < q /\ ~(\E b \in boots' : b \in p..(q - 1)) => executed'[p].nonce < executed'[q].nonce
    BY DEF OnceInOrder, n
  <2> QED BY <1>3, <1>4, <1>6, <2>1
<1>8. /\ executed'[i].kind = Steps[1] /\ executed'[j].kind = Steps[2]
      /\ executed'[n].kind = Steps[3]
  BY <1>1, <1>2, <1>3 DEF Steps
<1>9. MatchInv'
  BY <1>2 DEF MatchInv
<1>10. \E p, q \in 1..(n - 1) :
         /\ p < q
         /\ executed'[p].kind = Steps[1] /\ executed'[q].kind = Steps[2]
         /\ executed'[n].kind = Steps[3]
         /\ \A k \in p..n : executed'[k].kind \in RebootKinds => k \in {p, q, n}
         /\ executed'[p].nonce < executed'[q].nonce /\ executed'[q].nonce < executed'[n].nonce
  BY <1>3, <1>4, <1>5, <1>7, <1>8
<1>11. ASSUME NEW b \in boots'
       PROVE  \E p, q \in 1..(b - 1) :
         /\ p < q
         /\ executed'[p].kind = Steps[1] /\ executed'[q].kind = Steps[2]
         /\ executed'[b].kind = Steps[3]
         /\ \A k \in p..b : executed'[k].kind \in RebootKinds => k \in {p, q, b}
         /\ executed'[p].nonce < executed'[q].nonce /\ executed'[q].nonce < executed'[b].nonce
  BY <1>2, <1>10, ResetsStay
<1> QED BY <1>9, <1>11 DEF RebootsInSequence

LEMMA RebootStep == RebootInv /\ [EpicsNext]_epicsVars => RebootInv'
<1> SUFFICES ASSUME RebootInv, [EpicsNext]_epicsVars PROVE RebootInv'
  OBVIOUS
<1>1. EpicsInv' /\ EpicsInv /\ RebootsInSequence
  BY EpicsStep DEF RebootInv
<1>2. CASE UNCHANGED <<executed, boots, match>>
  <2>1. MatchInv' /\ RebootsInSequence'
    BY <1>2 DEF RebootInv, MatchInv, RebootsInSequence
  <2> QED BY <1>1, <2>1 DEF RebootInv
<1>3. CASE ~ UNCHANGED <<executed, boots, match>>
  <2>1. EpicsReceive
    BY <1>3 DEF EpicsNext, IocReceive, Issue, EpicsResend, EpicsGiveUp, server, epicsVars
  <2>2. PICK m \in Datagrams :
          /\ executed' = Append(executed, m) /\ executed \in Seq(Datagrams)
          /\ OnceInOrder' /\ (Execute(m) \/ Reboot(m))
    BY <1>1, <1>3, <2>1, Executes
  <2>3. CASE Reboot(m)
    BY <1>1, <2>2, <2>3, ResetsInSequence DEF RebootInv
  <2>4. CASE Execute(m)
    <3>1. MatchInv'
      BY <2>2, <2>4, MatchesOn
    <3>2. boots' = boots /\ boots \subseteq Nat /\ \A b \in boots : b <= Len(executed)
      BY <1>1, <2>4 DEF Execute, EpicsInv, EpicsTypes, MemoryInv
    <3>3. RebootsInSequence'
      <4> SUFFICES ASSUME NEW b \in boots
                   PROVE  \E i, j \in 1..(b - 1) :
                     /\ i < j
                     /\ executed'[i].kind = Steps[1] /\ executed'[j].kind = Steps[2]
                     /\ executed'[b].kind = Steps[3]
                     /\ \A k \in i..b : executed'[k].kind \in RebootKinds => k \in {i, j, b}
                     /\ executed'[i].nonce < executed'[j].nonce
                     /\ executed'[j].nonce < executed'[b].nonce
        BY <3>2 DEF RebootsInSequence
      <4> QED BY <1>1, <2>2, <3>2, ResetsStay
    <3> QED BY <1>1, <3>1, <3>3 DEF RebootInv
  <2> QED BY <2>2, <2>3, <2>4
<1> QED BY <1>2, <1>3

LEMMA RebootStart == EpicsInit => RebootInv
  BY EpicsStart DEF EpicsInit, RebootInv, MatchInv, RebootsInSequence

\* The FPGA is reset only by the three steps in turn, each of a command of its
\* own and with no other command of the sequence between them: for any commands,
\* however many are lost or repeated, the last step included, which is not
\* answered.  (crankRebootStateMachine)
THEOREM ResetsTakeTheSequence == EpicsSpec => []RebootsInSequence
<1>1. RebootInv => RebootsInSequence
  BY DEF RebootInv
<1> QED BY RebootStart, RebootStep, <1>1, PTL DEF EpicsSpec

-----------------------------------------------------------------------------
\* Files over TFTP.  The first blocks of a file.
FirstOf(s, n) == [i \in 1..n |-> <<s, i>>]

WRQ == Request("WRQ", "table")
RRQ == Request("RRQ", "table")
Numbered(k) == k % BlockModulus
Block(s, k) == DATA(Numbered(k), <<s, k>>)
Lockstep == Lossless /\ ~Duplicating
Mine == client.session

\* The server since it took the request of a session that stores a file.
Writing(n) ==
  /\ fileIndex = "table" /\ fp = "writing" /\ lastBlock = Numbered(n)
  /\ disk = FirstOf(Mine, n)
Stored == fileIndex = "none" /\ stashed = FileOf(Mine)

\* In such a session: the datagrams under way are its own, an acknowledgement
\* of the last block means that the file is kept.
OfPut(m) == m = WRQ \/ \E k \in 1..client.next : m = Block(Mine, k)
AckOf(m, k) == m = ACK(Numbered(k)) /\ (k = Blocks => stashed = FileOf(Mine))
PutSession ==
  /\ client.op \in {"put", "stored", "failed"} /\ client.next \in 0..Blocks
  /\ \A m \in toServer : OfPut(m)
  /\ \A m \in toClient : \E k \in 0..Blocks : AckOf(m, k)
  /\ client.op = "stored" => stashed = FileOf(Mine)
  /\ \/ client.next = 0 /\ toClient = {}
     \/ \E n \in 0..(Blocks - 1) : Writing(n)
     \/ Stored

\* On a network that neither loses nor repeats one datagram is under way.
PutInStep ==
  \/ client.op = "put" /\ client.next = 0 /\ toServer = {WRQ} /\ toClient = {}
  \/ /\ client.op = "put" /\ client.next > 0 /\ toServer = {Block(Mine, client.next)}
     /\ toClient = {} /\ Writing(client.next - 1)
  \/ /\ client.op = "put" /\ toServer = {} /\ toClient = {ACK(Numbered(client.next))}
     /\ IF client.next < Blocks THEN Writing(client.next) ELSE Stored
  \/ client.op = "stored" /\ Quiet

\* The server since it took the request of a session that fetches the file of
\* session s, the one that is kept.
Reading(s, n) ==
  /\ fileIndex = "table" /\ fp = "reading" /\ lastBlock = Numbered(n) /\ position = n
  /\ disk = FileOf(s) /\ cbuf = <<s, n>>
  /\ lastSend = IF n = Blocks THEN "less" ELSE "full"
OfGet(m) == m = RRQ \/ \E k \in 1..(client.next - 1) : m = ACK(Numbered(k))
GetSession(s) ==
  /\ client.op \in {"get", "fetched", "failed"} /\ client.next \in 1..(Blocks + 1)
  /\ \A m \in toServer : OfGet(m)
  /\ \A m \in toClient : \E k \in 1..Blocks : m = Block(s, k)
  /\ client.got = FirstOf(s, client.next - 1)
  /\ client.op = "get" => client.next <= Blocks
  /\ client.op = "fetched" => client.next = Blocks + 1
  /\ \/ client.next = 1 /\ toClient = {}
     \/ \E n \in 1..Blocks : Reading(s, n)
     \/ fileIndex = "none"

GetInStep(s) ==
  \/ client.op = "get" /\ client.next = 1 /\ toServer = {RRQ} /\ toClient = {}
  \/ /\ client.op = "get" /\ toServer = {} /\ toClient = {Block(s, client.next)}
     /\ Reading(s, client.next)
  \/ /\ client.op \in {"get", "fetched"} /\ client.next > 1
     /\ toServer = {ACK(Numbered(client.next - 1))} /\ toClient = {}
     /\ Reading(s, client.next - 1)
  \/ client.op = "fetched" /\ Quiet

\* Neither: a request for a file there is none of, or none at all.
NoSession ==
  /\ client.op \in {"idle", "failed"}
  /\ \A m \in toServer : m = Request("RRQ", "unknown")
  /\ \A m \in toClient : m = ERR

LEMMA SettingFacts ==
  ASSUME setting \in Settings
  PROVE  /\ Blocks \in Nat /\ Blocks > 0 /\ BlockModulus \in Nat /\ BlockModulus > 1
         /\ FetchLimit \in Nat /\ Blocks <= FetchLimit
         /\ Blocks < BlockModulus \/ Lockstep
BY SettingsAssumption DEF Blocks, BlockModulus, FetchLimit, Lockstep, Lossless, Duplicating

\* Numbers go round, one after the other; as long as they do not they tell the
\* blocks of a file apart.
LEMMA Numbers ==
  ASSUME setting \in Settings
  PROVE  /\ Numbered(0) = 0 /\ Numbered(1) = 1
         /\ \A k \in Nat : Succ(Numbered(k)) = Numbered(k + 1)
         /\ \A k \in Nat : Numbered(k + 1) # Numbered(k)
         /\ Blocks < BlockModulus =>
              \A j, k \in 0..Blocks : Numbered(j) = Numbered(k) => j = k
<1> DEFINE M == BlockModulus
<1>0. M \in Nat /\ M > 1 /\ Blocks \in Nat
  BY SettingFacts
<1> HIDE DEF M
<1>1. 0 % M = 0
  BY <1>0, SMTT(30)
<1>2. ASSUME NEW k \in Nat PROVE ((k % M) + 1) % M = (k + 1) % M
  <2> DEFINE r == k % M
  <2>1. r \in 0..(M - 1)
    BY <1>0
  <2>2. (k + 1) % M = (IF r = M - 1 THEN 0 ELSE r + 1)
    BY <1>0, NextRemainder
  <2>3. r % M = r
    BY <1>0, <2>1
  <2> HIDE DEF r
  <2>5. r \in Nat
    BY <1>0, <2>1
  <2>4. (r + 1) % M = (IF r % M = M - 1 THEN 0 ELSE (r % M) + 1)
    BY <1>0, <2>5, NextRemainder
  <2> QED BY <2>2, <2>3, <2>4 DEF r
<1>3. ASSUME NEW k \in Nat PROVE (k + 1) % M # k % M
  <2> DEFINE r == k % M
  <2>1. r \in 0..(M - 1)
    BY <1>0
  <2>2. (k + 1) % M = (IF r = M - 1 THEN 0 ELSE r + 1)
    BY <1>0, NextRemainder
  <2>r. r = k % M
    OBVIOUS
  <2> HIDE DEF r
  <2> QED BY <1>0, <2>1, <2>2, <2>r
<1>4. ASSUME NEW k \in Nat, k < M PROVE k % M = k
  BY <1>0, <1>4, SMTT(30)
<1>5. /\ \A k : Numbered(k) = k % M
      /\ \A k : Succ(k) = (k + 1) % M
  BY DEF M, Numbered, Succ
<1>6. ASSUME Blocks < M, NEW j \in 0..Blocks, NEW k \in 0..Blocks, Numbered(j) = Numbered(k)
      PROVE  j = k
  <2>1. j \in Nat /\ k \in Nat /\ j < M /\ k < M
    BY <1>0, <1>6
  <2> QED BY <1>4, <1>5, <1>6, <2>1
<1>7. Blocks < BlockModulus => \A j, k \in 0..Blocks : Numbered(j) = Numbered(k) => j = k
  BY <1>6 DEF M
<1>8. \A k \in Nat : Succ(Numbered(k)) = Numbered(k + 1)
  BY <1>2, <1>5
<1>9. \A k \in Nat : Numbered(k + 1) # Numbered(k)
  BY <1>3, <1>5
<1>10. Numbered(0) = 0 /\ Numbered(1) = 1
  <2>1. 1 \in Nat /\ 1 < M
    BY <1>0
  <2> QED BY <1>1, <1>4, <1>5, <2>1
<1> QED BY <1>7, <1>8, <1>9, <1>10

LEMMA SentIs ==
  ASSUME NEW net, NEW ms, NEW x \in Sent(net, ms)
  PROVE  x \subseteq net \cup ms /\ (Lossless => x = net \cup ms)
BY DEF Sent

LEMMA LeftIs ==
  ASSUME NEW net, NEW m, NEW x \in Left(net, m)
  PROVE  x \subseteq net /\ (~Duplicating => x = net \ {m})
BY DEF Left

\* The beginning of a file grows by its next block until it is the file.
LEMMA Grows ==
  ASSUME NEW s \in Nat, NEW n \in Nat
  PROVE  /\ FirstOf(s, n) \in Seq(Nat \X Nat) /\ Len(FirstOf(s, n)) = n
         /\ Append(FirstOf(s, n), <<s, n + 1>>) = FirstOf(s, n + 1)
<1>1. ASSUME NEW k \in Nat PROVE FirstOf(s, k) \in Seq(Nat \X Nat) /\ Len(FirstOf(s, k)) = k
  <2>1. FirstOf(s, k) \in [1..k -> Nat \X Nat]
    BY DEF FirstOf
  <2>2. FirstOf(s, k) \in Seq(Nat \X Nat)
    BY <2>1, SeqDef
  <2>3. DOMAIN FirstOf(s, k) = 1..k
    BY DEF FirstOf
  <2> QED BY <2>2, <2>3, LenProperties
<1> DEFINE a == FirstOf(s, n)
           b == Append(a, <<s, n + 1>>)
           c == FirstOf(s, n + 1)
<1>2. a \in Seq(Nat \X Nat) /\ Len(a) = n /\ c \in Seq(Nat \X Nat) /\ Len(c) = n + 1
  BY <1>1
<1>3. /\ \A i \in 1..n : a[i] = <<s, i>>
      /\ \A i \in 1..(n + 1) : c[i] = <<s, i>>
  BY DEF FirstOf
<1> HIDE DEF a, c
<1>4. b \in Seq(Nat \X Nat) /\ Len(b) = n + 1
      /\ \A i \in 1..(n + 1) : b[i] = IF i = n + 1 THEN <<s, n + 1>> ELSE a[i]
  BY <1>2
<1> HIDE DEF b
<1>5. ASSUME NEW i \in 1..(n + 1) PROVE b[i] = c[i]
  <2>1. CASE i = n + 1
    BY <1>3, <1>4, <2>1
  <2>2. CASE i # n + 1
    <3>1. i \in 1..n
      BY <2>2
    <3> QED BY <1>3, <1>4, <2>2, <3>1
  <2> QED BY <2>1, <2>2
<1>6. b = c
  BY <1>2, <1>4, <1>5, SeqEqual
<1> QED BY <1>2, <1>6 DEF a, b, c

LEMMA WholeFile == \A s : FileOf(s) = FirstOf(s, Blocks)
BY DEF FileOf, FirstOf

LEMMA NothingFails == Undisturbed => Outcomes = {"ok"}
BY DEF Undisturbed, Outcomes

Kept == \E s \in 0..sessions : stashed = FileOf(s)
Setting == setting \in Settings /\ Undisturbed /\ sessions \in Nat /\ Mine = sessions
PutInv == Setting /\ Kept /\ PutSession /\ (Lockstep => PutInStep)

\* What tftp_recv_callback does with a datagram.
Handle(m) ==
  \/ /\ m.type \in {"RRQ", "WRQ"}
     /\ RefuseRequest(m) \/ ReadRequest(m) \/ WriteRequest(m)
  \/ RepeatData(m) \/ NextData(m)
  \/ NextAck(m) \/ OtherAck(m) \/ Ignore(m)
Others == UNCHANGED <<client, sessions, setting>>

LEMMA SettingStays ==
  ASSUME setting' = setting
  PROVE  /\ Blocks' = Blocks /\ BlockModulus' = BlockModulus /\ FetchLimit' = FetchLimit
         /\ Lockstep' = Lockstep /\ Lossless' = Lossless /\ Undisturbed' = Undisturbed
         /\ Duplicating' = Duplicating
         /\ \A k : Numbered(k)' = Numbered(k)
         /\ \A s : FileOf(s)' = FileOf(s)
         /\ \A s, k : Block(s, k)' = Block(s, k)
BY DEF Blocks, BlockModulus, FetchLimit, Lockstep, Lossless, Duplicating, Undisturbed, Failures,
       Overlapping, Numbered, FileOf, Block

\* The request empties the file and is acknowledged.
LEMMA PutRequest ==
  ASSUME PutInv, Handle(WRQ), Others
  PROVE  Writing(0)' /\ stashed' = stashed /\ toClient' \in Sent(toClient, {ACK(0)})
<1>1. WRQ.type = "WRQ" /\ WRQ.name = "table"
  BY DEF WRQ, Request
<1>2. WriteRequest(WRQ)
  BY <1>1 DEF Handle, RefuseRequest, ReadRequest, RepeatData, NextData, NextAck, OtherAck, Ignore
<1>3. Undisturbed
  BY DEF PutInv, Setting
<1>4. /\ fileIndex' = "table" /\ lastBlock' = 0 /\ fp' = "writing" /\ disk' = <<>>
      /\ stashed' = stashed /\ toClient' \in Sent(toClient, {ACK(0)})
  BY <1>2, <1>3, NothingFails DEF WriteRequest
<1>5. Numbered(0)' = 0
  BY SettingStays, Numbers DEF Others, PutInv, Setting
<1>6. FirstOf(Mine', 0) = <<>>
  BY DEF FirstOf
<1>7. Writing(0)'
  BY <1>4, <1>5, <1>6 DEF Writing, Mine
<1> QED BY <1>4, <1>7

\* A block is written in its turn, acknowledged again when it was the last one
\* written, and dropped otherwise.
Dropped == ~Lockstep /\ UNCHANGED <<serverVars, toClient>>
AckedAgain ==
  /\ ~Lockstep /\ UNCHANGED serverVars
  /\ \E n \in 0..(Blocks - 1) : Writing(n) /\ toClient' \in Sent(toClient, {ACK(Numbered(n))})
WrittenAs(k) ==
  /\ Writing(k - 1) /\ toClient' \in Sent(toClient, {ACK(Numbered(k))})
  /\ (Lockstep => k = client.next)
  /\ IF k < Blocks THEN Writing(k)' /\ stashed' = stashed ELSE Stored'

LEMMA BlockIs ==
  /\ \A s, k : Block(s, k).type = "DATA" /\ Block(s, k).block = Numbered(k)
               /\ Block(s, k).chunk = <<s, k>>
  /\ \A s, j, k : Block(s, j) = Block(s, k) => j = k
  /\ \A s, k, x : Block(s, k) # WRQ /\ Block(s, k) # RRQ /\ Block(s, k) # ACK(x)
  /\ \A x : ACK(x).type = "ACK" /\ ACK(x).block = x /\ ACK(x) # WRQ /\ ACK(x) # RRQ
  /\ WRQ # RRQ /\ RRQ.type = "RRQ" /\ RRQ.name = "table" /\ WRQ.type = "WRQ" /\ WRQ.name = "table"
<1>1. \A s, k : Block(s, k).type = "DATA" /\ Block(s, k).block = Numbered(k)
                /\ Block(s, k).chunk = <<s, k>>
  BY DEF Block, DATA
<1>2. \A x : ACK(x).type = "ACK" /\ ACK(x).block = x
  BY DEF ACK
<1>3. RRQ.type = "RRQ" /\ RRQ.name = "table" /\ WRQ.type = "WRQ" /\ WRQ.name = "table"
  BY DEF RRQ, WRQ, Request
<1>4. ASSUME NEW s, NEW j, NEW k, Block(s, j) = Block(s, k) PROVE j = k
  BY <1>1, <1>4
<1>5. /\ \A s, k, x : Block(s, k) # WRQ /\ Block(s, k) # RRQ /\ Block(s, k) # ACK(x)
      /\ \A x : ACK(x) # WRQ /\ ACK(x) # RRQ
      /\ WRQ # RRQ
  BY <1>1, <1>2, <1>3
<1> QED BY <1>1, <1>2, <1>3, <1>4, <1>5

\* In step the file has the blocks before the one that is under way.
LEMMA OneWriting ==
  ASSUME PutInv, NEW i \in Nat, NEW j \in Nat, Writing(i), Writing(j)
  PROVE  i = j
<1>1. FirstOf(Mine, i) = FirstOf(Mine, j) /\ Mine \in Nat
  BY DEF PutInv, Setting, Writing
<1>2. Len(FirstOf(Mine, i)) = i /\ Len(FirstOf(Mine, j)) = j
  BY <1>1, Grows
<1> QED BY <1>1, <1>2

LEMMA BlockInStep ==
  ASSUME PutInv, NEW k \in 1..client.next, Block(Mine, k) \in toServer, Lockstep
  PROVE  k = client.next /\ Writing(k - 1)
BY BlockIs DEF PutInv, PutInStep, Quiet

LEMMA PutBlock ==
  ASSUME PutInv, NEW k \in 1..client.next, Block(Mine, k) \in toServer, Handle(Block(Mine, k)), Others
  PROVE  Dropped \/ AckedAgain \/ WrittenAs(k)
<1> DEFINE m == Block(Mine, k)
<1>1. m.type = "DATA" /\ m.block = Numbered(k) /\ m.chunk = <<Mine, k>>
  BY BlockIs
<1>2. m \in toServer /\ Handle(m)
  OBVIOUS
<1>k. k \in 1..Blocks /\ k \in 0..Blocks /\ client.next \in 0..Blocks
      /\ Blocks \in Nat /\ Blocks > 0 /\ k \in Nat /\ k - 1 \in Nat
  BY SettingFacts DEF PutInv, Setting, PutSession
<1>l. Lockstep => k = client.next /\ Writing(k - 1)
  BY BlockInStep
<1>s. client.next # 0
  BY <1>k
<1>0. Stored \/ \E n \in 0..(Blocks - 1) : Writing(n)
  BY <1>s DEF PutInv, PutSession
<1> HIDE DEF m
<1>3. RepeatData(m) \/ NextData(m) \/ Ignore(m)
  BY <1>1, <1>2 DEF Handle, NextAck, OtherAck
<1>4. CASE Ignore(m)
  <2>1. UNCHANGED <<serverVars, toClient>>
    BY <1>4 DEF Ignore
  <2>2. ASSUME Lockstep PROVE FALSE
    <3>1. fileIndex = "table" /\ lastBlock = Numbered(k - 1)
      BY <1>l, <2>2 DEF Writing
    <3>2. Succ(Numbered(k - 1)) = Numbered(k)
      BY <1>k, Numbers DEF PutInv, Setting
    <3> QED BY <1>1, <1>4, <3>1, <3>2 DEF Ignore, Expected
  <2> QED BY <2>1, <2>2 DEF Dropped
<1>5. CASE RepeatData(m)
  <2>0. fileIndex = "table"
    BY <1>5 DEF RepeatData
  <2>1. PICK n \in 0..(Blocks - 1) : Writing(n)
    BY <1>0, <2>0 DEF Stored
  <2>2. m.block = Numbered(n) /\ UNCHANGED serverVars /\ toClient' \in Sent(toClient, {ACK(Numbered(n))})
    BY <1>5, <2>1 DEF RepeatData, Repeated, Writing
  <2>3. ASSUME Lockstep PROVE FALSE
    <3>1. lastBlock = Numbered(k - 1)
      BY <1>l, <2>3 DEF Writing
    <3>2. Numbered((k - 1) + 1) # Numbered(k - 1)
      BY <1>k, Numbers DEF PutInv, Setting
    <3>3. (k - 1) + 1 = k
      BY <1>k
    <3> QED BY <1>1, <2>1, <2>2, <3>1, <3>2, <3>3 DEF Writing
  <2> QED BY <2>1, <2>2, <2>3 DEF AckedAgain
<1>6. CASE NextData(m)
  <2>0. fileIndex = "table" /\ m.block = Succ(lastBlock)
    BY <1>6 DEF NextData, Expected
  <2>1. PICK n \in 0..(Blocks - 1) : Writing(n)
    BY <1>0, <2>0 DEF Stored
  <2>n. n \in Nat /\ n + 1 \in 0..Blocks
    BY <1>k
  <2>2. Numbered(k) = Numbered(n + 1)
    BY <1>1, <2>0, <2>1, <2>n, Numbers DEF PutInv, Setting, Writing
  <2>3. k = n + 1
    <3>1. CASE Lockstep
      BY <1>k, <1>l, <2>1, <2>n, <3>1, OneWriting
    <3>2. CASE ~Lockstep
      <4>1. Blocks < BlockModulus
        BY <3>2, SettingFacts DEF PutInv, Setting
      <4> QED BY <1>k, <2>2, <2>n, <4>1, Numbers DEF PutInv, Setting
    <3> QED BY <3>1, <3>2
  <2>4. Writing(k - 1)
    BY <2>1, <2>3, <2>n
  <2>5. fp = "writing" /\ disk = FirstOf(Mine, n) /\ Outcomes = {"ok"}
    BY <2>1, NothingFails DEF Writing, PutInv, Setting
  <2>6. Append(disk, m.chunk) = FirstOf(Mine, k)
    BY <1>1, <2>3, <2>5, <2>n, Grows DEF PutInv, Setting
  <2>7. IsShort(m.chunk) <=> k = Blocks
    BY <1>1, <1>k DEF IsShort
  <2>8. /\ lastBlock' = m.block /\ disk' = FirstOf(Mine, k)
        /\ toClient' \in Sent(toClient, {ACK(Numbered(k))})
        /\ IF k = Blocks THEN fileIndex' = "none" /\ stashed' = disk'
           ELSE UNCHANGED <<fp, fileIndex, stashed>>
    <3>1. Replies(m, "ok", "ok", "ok") = {ACK(Numbered(k))}
      BY <1>1 DEF Replies
    <3> QED BY <1>6, <2>5, <2>6, <2>7, <3>1 DEF NextData
  <2>9. CASE k = Blocks
    <3>1. stashed' = FileOf(Mine)'
      BY <2>8, <2>9, WholeFile, SettingStays DEF Others, Mine
    <3> QED BY <1>l, <2>4, <2>8, <2>9, <3>1, <1>k DEF WrittenAs, Stored
  <2>10. CASE k # Blocks
    <3>1. Writing(k)'
      BY <1>1, <2>0, <2>5, <2>8, <2>10, SettingStays DEF Others, Mine, Writing
    <3> QED BY <1>l, <2>4, <2>8, <2>10, <3>1, <1>k DEF WrittenAs
  <2> QED BY <2>9, <2>10
<1> QED BY <1>3, <1>4, <1>5, <1>6 DEF m

\* The server's part of such a session.
LEMMA PutServer ==
  ASSUME PutInv, NEW m \in toServer, toServer' \in Left(toServer, m), Handle(m), Others
  PROVE  PutInv'
<1>0. /\ setting \in Settings /\ Undisturbed /\ sessions \in Nat /\ Mine = sessions
      /\ Kept /\ PutSession /\ (Lockstep => PutInStep)
  BY DEF PutInv, Setting
<1>s. /\ Blocks' = Blocks /\ Lockstep' = Lockstep /\ Undisturbed' = Undisturbed
      /\ \A k : Numbered(k)' = Numbered(k)
      /\ \A s : FileOf(s)' = FileOf(s)
      /\ \A s, k : Block(s, k)' = Block(s, k)
  BY SettingStays DEF Others
<1>u. client' = client /\ sessions' = sessions /\ setting' = setting /\ Mine' = Mine
  BY DEF Others, Mine
<1>1. Setting'
  BY <1>0, <1>s, <1>u DEF Setting
<1>b. Blocks \in Nat /\ Blocks > 0 /\ client.next \in 0..Blocks
  BY <1>0, SettingFacts DEF PutSession
<1>l. toServer' \subseteq toServer /\ (Lockstep => toServer' = toServer \ {m})
  BY LeftIs DEF Lockstep
<1>2. /\ client'.op \in {"put", "stored", "failed"} /\ client'.next \in 0..Blocks'
      /\ \A x \in toServer' : OfPut(x)'
  <2>1. \A x \in toServer' : OfPut(x)
    BY <1>0, <1>l DEF PutSession
  <2>2. \A x : OfPut(x)' <=> OfPut(x)
    BY <1>s, <1>u DEF OfPut
  <2> QED BY <1>0, <1>s, <1>u, <2>1, <2>2 DEF PutSession
\* What is known of acknowledgements stays so while the file is kept.
<1>a. ASSUME stashed' = stashed \/ stashed' = FileOf(Mine), NEW x, NEW k, AckOf(x, k)
      PROVE  AckOf(x, k)'
  BY <1>a, <1>s, <1>u DEF AckOf
<1>c. ASSUME stashed' = stashed \/ stashed' = FileOf(Mine),
             NEW k \in 0..Blocks, k = Blocks => stashed' = FileOf(Mine),
             toClient' \subseteq toClient \cup {ACK(Numbered(k))}
      PROVE  \A x \in toClient' : \E i \in 0..Blocks' : AckOf(x, i)'
  <2> SUFFICES ASSUME NEW x \in toClient' PROVE \E i \in 0..Blocks' : AckOf(x, i)'
    OBVIOUS
  <2>1. CASE x \in toClient
    <3>1. PICK i \in 0..Blocks : AckOf(x, i)
      BY <1>0, <2>1 DEF PutSession
    <3>2. AckOf(x, i)'
      BY <1>a, <1>c, <3>1
    <3> QED BY <1>s, <3>2
  <2>2. CASE x = ACK(Numbered(k))
    <3>1. AckOf(x, k)'
      BY <1>c, <1>s, <1>u, <2>2 DEF AckOf
    <3> QED BY <1>s, <3>1
  <2> QED BY <1>c, <2>1, <2>2
<1>k. ASSUME stashed' = stashed \/ stashed' = FileOf(Mine) PROVE Kept'
  <2>1. Mine \in 0..sessions
    BY <1>0
  <2> QED BY <1>0, <1>k, <1>s, <1>u, <2>1 DEF Kept
<1>e. ASSUME stashed' = stashed \/ stashed' = FileOf(Mine)
      PROVE  client'.op = "stored" => stashed' = FileOf(Mine)'
  BY <1>0, <1>e, <1>s, <1>u DEF PutSession
<1>3. CASE m = WRQ
  <2>1. Writing(0)' /\ stashed' = stashed /\ toClient' \in Sent(toClient, {ACK(0)})
    BY <1>3, PutRequest
  <2>2. /\ toClient' \subseteq toClient \cup {ACK(Numbered(0))}
        /\ Lossless => toClient' = toClient \cup {ACK(Numbered(0))}
    BY <1>0, <2>1, SentIs, Numbers
  <2>3. \A x \in toClient' : \E i \in 0..Blocks' : AckOf(x, i)'
    <3>1. 0 \in 0..Blocks /\ 0 # Blocks
      BY <1>b
    <3> QED BY <1>c, <2>1, <2>2, <3>1
  <2>4. PutSession'
    <3>1. 0 \in 0..(Blocks' - 1)
      BY <1>b, <1>s
    <3> QED BY <1>2, <1>e, <2>1, <2>3, <3>1 DEF PutSession
  <2>5. ASSUME Lockstep PROVE PutInStep'
    <3>1. client.op = "put" /\ client.next = 0 /\ toServer = {WRQ} /\ toClient = {}
      BY <1>0, <1>3, <2>5, BlockIs DEF PutInStep, Quiet
    <3>2. toServer' = {} /\ toClient' = {ACK(Numbered(0))}
      BY <1>3, <1>l, <2>2, <2>5, <3>1 DEF Lockstep
    <3> QED BY <1>b, <1>s, <1>u, <2>1, <3>1, <3>2 DEF PutInStep
  <2> QED BY <1>1, <1>k, <1>s, <2>1, <2>4, <2>5 DEF PutInv
<1>4. ASSUME NEW k \in 1..client.next, m = Block(Mine, k) PROVE PutInv'
  <2>0. Dropped \/ AckedAgain \/ WrittenAs(k)
    BY <1>4, PutBlock
  <2>s. client.next # 0 /\ k \in Nat /\ k - 1 \in 0..(Blocks - 1) /\ k \in 0..Blocks
    BY <1>b
  <2>r. Stored \/ \E n \in 0..(Blocks - 1) : Writing(n)
    BY <1>0, <2>s DEF PutSession
  <2>w. ASSUME UNCHANGED serverVars
        PROVE  Stored' \/ \E n \in 0..(Blocks' - 1) : Writing(n)'
    <3>1. CASE Stored
      BY <1>s, <1>u, <2>w, <3>1 DEF Stored, serverVars
    <3>2. ASSUME NEW n \in 0..(Blocks - 1), Writing(n) PROVE Writing(n)'
      BY <1>s, <1>u, <2>w, <3>2 DEF Writing, serverVars
    <3> QED BY <1>s, <2>r, <3>1, <3>2
  <2>1. CASE Dropped
    <3>1. UNCHANGED <<serverVars, toClient>> /\ ~Lockstep /\ stashed' = stashed
      BY <2>1 DEF Dropped, serverVars
    <3>2. \A x \in toClient' : \E i \in 0..Blocks' : AckOf(x, i)'
      <4>1. ASSUME NEW x \in toClient PROVE \E i \in 0..Blocks : AckOf(x, i)'
        BY <1>0, <1>a, <3>1 DEF PutSession
      <4> QED BY <1>s, <3>1, <4>1
    <3>3. PutSession'
      BY <1>2, <1>e, <2>w, <3>1, <3>2 DEF PutSession
    <3> QED BY <1>1, <1>k, <1>s, <3>1, <3>3 DEF PutInv
  <2>2. CASE AckedAgain
    <3>1. UNCHANGED serverVars /\ ~Lockstep /\ stashed' = stashed
      BY <2>2 DEF AckedAgain, serverVars
    <3>2. PICK n \in 0..(Blocks - 1) : Writing(n) /\ toClient' \in Sent(toClient, {ACK(Numbered(n))})
      BY <2>2 DEF AckedAgain
    <3>3. n \in 0..Blocks /\ n # Blocks
      BY <1>b
    <3>4. toClient' \subseteq toClient \cup {ACK(Numbered(n))}
      BY <3>2, SentIs
    <3>5. \A x \in toClient' : \E i \in 0..Blocks' : AckOf(x, i)'
      BY <1>c, <3>1, <3>3, <3>4
    <3>6. PutSession'
      BY <1>2, <1>e, <2>w, <3>1, <3>5 DEF PutSession
    <3> QED BY <1>1, <1>k, <1>s, <3>1, <3>6 DEF PutInv
  <2>3. CASE WrittenAs(k)
    <3>1. /\ toClient' \subseteq toClient \cup {ACK(Numbered(k))}
          /\ Lossless => toClient' = toClient \cup {ACK(Numbered(k))}
      BY <2>3, SentIs DEF WrittenAs
    <3>2. IF k < Blocks THEN Writing(k)' /\ stashed' = stashed ELSE Stored' /\ stashed' = FileOf(Mine)
      BY <1>s, <1>u, <2>3 DEF WrittenAs, Stored
    <3>3. stashed' = stashed \/ stashed' = FileOf(Mine)
      BY <3>2
    <3>4. k = Blocks => stashed' = FileOf(Mine)
      BY <1>b, <3>2
    <3>5. \A x \in toClient' : \E i \in 0..Blocks' : AckOf(x, i)'
      BY <1>c, <2>s, <3>1, <3>3, <3>4
    <3>6. Stored' \/ \E n \in 0..(Blocks' - 1) : Writing(n)'
      <4>1. k < Blocks => k \in 0..(Blocks' - 1)
        BY <1>b, <1>s, <2>s
      <4> QED BY <3>2, <4>1
    <3>7. PutSession'
      BY <1>2, <1>e, <3>3, <3>5, <3>6 DEF PutSession
    <3>8. ASSUME Lockstep PROVE PutInStep'
      <4>1. k = client.next /\ client.next > 0
        BY <1>b, <2>3, <2>s, <3>8 DEF WrittenAs
      <4>2. client.op = "put" /\ toServer = {Block(Mine, client.next)} /\ toClient = {}
        BY <1>0, <1>4, <3>8, <4>1, BlockIs DEF PutInStep, Quiet
      <4>3. toServer' = {} /\ toClient' = {ACK(Numbered(client.next))}
        BY <1>4, <1>l, <3>1, <3>8, <4>1, <4>2 DEF Lockstep
      <4>4. IF client'.next < Blocks' THEN Writing(client.next)' ELSE Stored'
        BY <1>s, <1>u, <3>2, <4>1
      <4> QED BY <1>s, <1>u, <4>2, <4>3, <4>4 DEF PutInStep
    <3> QED BY <1>1, <1>k, <1>s, <3>3, <3>7, <3>8 DEF PutInv
  <2> QED BY <2>0, <2>1, <2>2, <2>3
<1> QED BY <1>0, <1>3, <1>4 DEF PutSession, OfPut

\* The client's part: an acknowledgement is taken for that of the block the
\* client waits for only when it is.
LEMMA PutAcked ==
  ASSUME PutInv, NEW m \in toClient, ClientAck(m) \/ ClientData(m) \/ ClientIgnore(m)
  PROVE  \/ UNCHANGED <<client, toServer>> /\ ~Lockstep
         \/ /\ client.op = "put" /\ client.next = Blocks /\ stashed = FileOf(Mine)
            /\ client' = [client EXCEPT !.op = "stored"] /\ UNCHANGED toServer
         \/ /\ client.op = "put" /\ client.next < Blocks
            /\ client' = [client EXCEPT !.next = @ + 1]
            /\ toServer' \in Sent(toServer, {LastSent(client')})
<1>0. /\ setting \in Settings /\ PutSession /\ (Lockstep => PutInStep)
  BY DEF PutInv, Setting
<1>b. Blocks \in Nat /\ Blocks > 0 /\ client.next \in 0..Blocks
  BY <1>0, SettingFacts DEF PutSession
<1>1. PICK k \in 0..Blocks : AckOf(m, k)
  BY <1>0 DEF PutSession
<1>2. m.type = "ACK" /\ m.block = Numbered(k) /\ (k = Blocks => stashed = FileOf(Mine))
  BY <1>1, BlockIs DEF AckOf
<1>3. Lockstep =>
        /\ client.op = "put" /\ m.block = Numbered(client.next)
        /\ client.next = Blocks => stashed = FileOf(Mine)
  <2> SUFFICES ASSUME Lockstep
               PROVE  /\ client.op = "put" /\ m.block = Numbered(client.next)
                      /\ client.next = Blocks => stashed = FileOf(Mine)
    OBVIOUS
  <2>1. client.op = "put" /\ toClient = {ACK(Numbered(client.next))}
        /\ (client.next < Blocks \/ Stored)
    BY <1>0 DEF PutInStep, Quiet
  <2> QED BY <1>b, <2>1, BlockIs DEF Stored
<1>4. ~Lockstep => (m.block = Numbered(client.next) => k = client.next)
  BY <1>0, <1>2, <1>b, SettingFacts, Numbers
<1>5. CASE client.op = "put"
  <2>1. ClientAck(m)
    BY <1>2, <1>5 DEF ClientData, ClientIgnore
  <2>2. client.next % BlockModulus = Numbered(client.next)
    BY DEF Numbered
  <2>3. CASE m.block # Numbered(client.next)
    BY <1>3, <2>1, <2>2, <2>3 DEF ClientAck
  <2>4. CASE m.block = Numbered(client.next)
    <3>1. client.next = Blocks => stashed = FileOf(Mine)
      BY <1>2, <1>3, <1>4, <2>4
    <3>2. CASE client.next = Blocks
      BY <1>5, <2>1, <2>2, <2>4, <3>1, <3>2 DEF ClientAck
    <3>3. CASE client.next # Blocks
      BY <1>5, <1>b, <2>1, <2>2, <2>4, <3>3 DEF ClientAck
    <3> QED BY <3>2, <3>3
  <2> QED BY <2>3, <2>4
<1>6. CASE client.op # "put"
  <2>1. client.op \in {"stored", "failed"}
    BY <1>0, <1>6 DEF PutSession
  <2>2. UNCHANGED <<client, toServer>>
    BY <1>2, <1>6, <2>1 DEF ClientAck, ClientData, ClientIgnore
  <2> QED BY <1>3, <1>6, <2>2
<1> QED BY <1>5, <1>6

\* What a datagram of the session is when the client repeats it.
LEMMA PutRepeats ==
  ASSUME NEW c, c.op = "put", c.next \in 0..Blocks, Blocks \in Nat
  PROVE  LastSent(c) = (IF c.next = 0 THEN WRQ ELSE Block(c.session, c.next))
<1>1. c.next # 0 => FileOf(c.session)[c.next] = <<c.session, c.next>>
  BY DEF FileOf
<1> QED BY <1>1 DEF LastSent, WRQ, Block, Numbered

\* The client knows no more of the file than what is under way.
LEMMA PutClient ==
  ASSUME PutInv, UNCHANGED <<serverVars, sessions, setting>>,
         \/ GiveUp \/ Resend
         \/ \E m \in toClient : /\ toClient' \in Left(toClient, m)
                                /\ ClientAck(m) \/ ClientData(m) \/ ClientIgnore(m)
  PROVE  PutInv'
<1>0. /\ setting \in Settings /\ Undisturbed /\ sessions \in Nat /\ Mine = sessions
      /\ Kept /\ PutSession /\ (Lockstep => PutInStep)
  BY DEF PutInv, Setting
<1>s. /\ Blocks' = Blocks /\ Lockstep' = Lockstep /\ Undisturbed' = Undisturbed
      /\ \A k : Numbered(k)' = Numbered(k)
      /\ \A s : FileOf(s)' = FileOf(s)
      /\ \A s, k : Block(s, k)' = Block(s, k)
  BY SettingStays
<1>b. Blocks \in Nat /\ Blocks > 0 /\ client.next \in 0..Blocks
      /\ client.op \in {"put", "stored", "failed"}
  BY <1>0, SettingFacts DEF PutSession
<1>u. sessions' = sessions /\ setting' = setting /\ stashed' = stashed /\ fileIndex' = fileIndex
      /\ fp' = fp /\ lastBlock' = lastBlock /\ disk' = disk
  BY DEF serverVars
<1>k. Kept'
  BY <1>0, <1>s, <1>u DEF Kept
\* All that the session asks of the client and the datagrams.
<1>p. ASSUME client'.session = client.session,
             client'.op \in {"put", "stored", "failed"}, client'.next \in 0..Blocks,
             client.next <= client'.next,
             client'.op = "stored" => stashed = FileOf(Mine),
             \A x \in toServer' : x \in toServer \/ x = WRQ \/ \E k \in 1..client'.next : x = Block(Mine, k),
             toClient' \subseteq toClient,
             client'.next # 0 => client.next # 0 \/ toClient # {}
      PROVE  Setting' /\ Kept' /\ PutSession'
  <2>o. Mine' = Mine
    BY <1>p DEF Mine
  <2>1. Setting'
    BY <1>0, <1>s, <1>u, <2>o DEF Setting
  <2>2. ASSUME NEW x \in toServer' PROVE OfPut(x)'
    <3>1. x = WRQ \/ \E k \in 1..client'.next : x = Block(Mine, k)
      <4>1. x \in toServer => OfPut(x)
        BY <1>0 DEF PutSession
      <4>2. 1..client.next \subseteq 1..client'.next
        BY <1>b, <1>p
      <4> QED BY <1>p, <2>2, <4>1, <4>2 DEF OfPut
    <3> QED BY <1>s, <2>o, <3>1 DEF OfPut
  <2>3. ASSUME NEW x \in toClient' PROVE \E k \in 0..Blocks' : AckOf(x, k)'
    <3>1. PICK k \in 0..Blocks : AckOf(x, k)
      BY <1>0, <1>p, <2>3 DEF PutSession
    <3>2. AckOf(x, k)'
      BY <1>s, <1>u, <2>o, <3>1 DEF AckOf
    <3> QED BY <1>s, <3>2
  <2>4. \/ client'.next = 0 /\ toClient' = {}
        \/ \E n \in 0..(Blocks' - 1) : Writing(n)'
        \/ Stored'
    <3>1. CASE client.next = 0 /\ toClient = {}
      BY <1>p, <3>1
    <3>2. CASE Stored
      BY <1>s, <1>u, <2>o, <3>2 DEF Stored
    <3>3. ASSUME NEW n \in 0..(Blocks - 1), Writing(n) PROVE Writing(n)'
      BY <1>s, <1>u, <2>o, <3>3 DEF Writing
    <3> QED BY <1>0, <1>s, <3>1, <3>2, <3>3 DEF PutSession
  <2>5. client'.op = "stored" => stashed' = FileOf(Mine)'
    BY <1>p, <1>s, <1>u, <2>o
  <2> QED BY <1>k, <1>p, <1>s, <2>1, <2>2, <2>3, <2>4, <2>5 DEF PutSession
<1>1. CASE GiveUp
  <2>1. ~Lockstep /\ client' = [client EXCEPT !.op = "failed"] /\ UNCHANGED <<toServer, toClient>>
    BY <1>1 DEF GiveUp, Lockstep
  <2>2. client'.session = client.session /\ client'.op = "failed" /\ client'.next = client.next
    BY <2>1, <1>1 DEF GiveUp, Busy
  <2>3. Setting' /\ Kept' /\ PutSession'
    BY <1>b, <1>p, <2>1, <2>2
  <2> QED BY <1>s, <2>1, <2>3 DEF PutInv
<1>2. CASE Resend
  <2>1. client.op = "put" /\ (Lossless => Quiet) /\ toServer' \in Sent(toServer, {LastSent(client)})
        /\ UNCHANGED <<toClient, client>>
    BY <1>2, <1>b DEF Resend, Busy
  <2>2. LastSent(client) = (IF client.next = 0 THEN WRQ ELSE Block(Mine, client.next))
    BY <1>b, <2>1, PutRepeats DEF Mine
  <2>3. toServer' \subseteq toServer \cup {LastSent(client)}
    BY <2>1, SentIs
  <2>4. ASSUME NEW x \in toServer'
        PROVE  x \in toServer \/ x = WRQ \/ \E k \in 1..client'.next : x = Block(Mine, k)
    BY <1>b, <2>1, <2>2, <2>3
  <2>5. client.op = "stored" => stashed = FileOf(Mine)
    BY <1>0 DEF PutSession
  <2>6. Setting' /\ Kept' /\ PutSession'
    BY <1>b, <1>p, <2>1, <2>4, <2>5
  <2>7. ~Lockstep
    BY <1>0, <2>1 DEF PutInStep, Lockstep, Quiet
  <2> QED BY <1>s, <2>6, <2>7 DEF PutInv
<1>3. ASSUME NEW m \in toClient, toClient' \in Left(toClient, m),
             ClientAck(m) \/ ClientData(m) \/ ClientIgnore(m)
      PROVE  PutInv'
  <2>1. toClient' \subseteq toClient /\ (Lockstep => toClient' = toClient \ {m})
    BY <1>3, LeftIs DEF Lockstep
  <2>2. CASE UNCHANGED <<client, toServer>> /\ ~Lockstep
    <3>1. client.op = "stored" => stashed = FileOf(Mine)
      BY <1>0 DEF PutSession
    <3>2. Setting' /\ Kept' /\ PutSession'
      BY <1>b, <1>p, <2>1, <2>2, <3>1
    <3> QED BY <1>s, <2>2, <3>2 DEF PutInv
  <2>3. CASE /\ client.op = "put" /\ client.next = Blocks /\ stashed = FileOf(Mine)
             /\ client' = [client EXCEPT !.op = "stored"] /\ UNCHANGED toServer
    <3>1. client'.op = "stored" /\ client'.next = client.next /\ client'.session = client.session
      BY <2>3
    <3>2. Setting' /\ Kept' /\ PutSession'
      BY <1>b, <1>p, <2>1, <2>3, <3>1
    <3>3. ASSUME Lockstep PROVE Quiet'
      <4>1. toServer = {} /\ toClient = {ACK(Numbered(client.next))}
        BY <1>0, <1>3, <2>3, <3>3 DEF PutInStep, Quiet
      <4> QED BY <1>3, <2>1, <2>3, <3>3, <4>1 DEF Quiet
    <3> QED BY <1>s, <3>1, <3>2, <3>3 DEF PutInv, PutInStep
  <2>4. CASE /\ client.op = "put" /\ client.next < Blocks
             /\ client' = [client EXCEPT !.next = @ + 1]
             /\ toServer' \in Sent(toServer, {LastSent(client')})
    <3>1. client'.op = "put" /\ client'.next = client.next + 1 /\ client'.session = client.session
      BY <2>4
    <3>2. LastSent(client') = Block(Mine, client'.next)
      <4> DEFINE c == client'
      <4>1. c.op = "put" /\ c.next \in 0..Blocks /\ c.next # 0 /\ c.session = Mine
        BY <1>b, <2>4, <3>1 DEF Mine
      <4> HIDE DEF c
      <4>2. LastSent(c) = Block(Mine, c.next)
        BY <1>b, <4>1, PutRepeats
      <4> QED BY <4>2 DEF c
    <3>3. /\ toServer' \subseteq toServer \cup {Block(Mine, client'.next)}
          /\ Lossless => toServer' = toServer \cup {Block(Mine, client'.next)}
      BY <2>4, <3>2, SentIs
    <3>4. client'.next \in 1..client'.next
      BY <1>b, <3>1
    <3>5. Setting' /\ Kept' /\ PutSession'
      BY <1>3, <1>b, <1>p, <2>1, <2>4, <3>1, <3>3, <3>4
    <3>6. ASSUME Lockstep PROVE PutInStep'
      <4>1. toServer = {} /\ toClient = {ACK(Numbered(client.next))} /\ Writing(client.next)
        BY <1>0, <1>3, <2>4, <3>6 DEF PutInStep, Quiet
      <4>2. toServer' = {Block(Mine, client'.next)} /\ toClient' = {}
        BY <1>3, <2>1, <3>3, <3>6, <4>1 DEF Lockstep
      <4>3. Mine' = Mine
        BY <3>1 DEF Mine
      <4>4. client'.next - 1 = client.next /\ client'.next > 0
        BY <1>b, <3>1
      <4>5. Writing(client.next - 1)'
        BY <1>s, <1>u, <4>1, <4>3, <4>4 DEF Writing
      <4> QED BY <1>s, <3>1, <4>2, <4>3, <4>4, <4>5 DEF PutInStep
    <3> QED BY <1>s, <3>5, <3>6 DEF PutInv
  <2> QED BY <1>3, <2>2, <2>3, <2>4, PutAcked
<1> QED BY <1>1, <1>2, <1>3

-----------------------------------------------------------------------------
\* Sessions that fetch the file.
GetInv(s) ==
  /\ Setting /\ s \in 0..sessions /\ stashed = FileOf(s)
  /\ GetSession(s) /\ (Lockstep => GetInStep(s))

LEMMA Chunks ==
  ASSUME setting \in Settings, NEW s \in Nat, NEW n \in 1..Blocks
  PROVE  /\ FileOf(s)[n] = <<s, n>> /\ Len(FileOf(s)) = Blocks
         /\ IsShort(<<s, n>>) <=> n = Blocks
<1>1. Blocks \in Nat /\ n # 0
  BY SettingFacts
<1>2. FileOf(s) = FirstOf(s, Blocks)
  BY WholeFile
<1>3. Len(FileOf(s)) = Blocks
  BY <1>1, <1>2, Grows
<1> QED BY <1>1, <1>3 DEF IsShort, FileOf

\* The first block goes out.
SentAs(s, n) ==
  Reading(s, n)' /\ stashed' = stashed /\ toClient' \in Sent(toClient, {Block(s, n)})

LEMMA Served ==
  ASSUME setting \in Settings, setting' = setting, Undisturbed, NEW s \in Nat,
         NEW n \in 1..Blocks, fp' = "reading", fileIndex' = "table", lastBlock' = Numbered(n),
         disk' = FileOf(s), stashed' = stashed, SendNext(Numbered(n), FileOf(s), n - 1)
  PROVE  SentAs(s, n)
<1>1. Outcomes = {"ok"}
  BY NothingFails
<1>2. Blocks \in Nat /\ n - 1 < Blocks /\ (n - 1) + 1 = n
  BY SettingFacts
<1>3. FileOf(s)[n] = <<s, n>> /\ Len(FileOf(s)) = Blocks /\ (IsShort(<<s, n>>) <=> n = Blocks)
  BY Chunks
<1>4. /\ cbuf' = <<s, n>> /\ position' = n
      /\ lastSend' = IF ~IsShort(<<s, n>>) THEN "full" ELSE "less"
      /\ toClient' \in Sent(toClient, {DATA(Numbered(n), <<s, n>>)})
  BY <1>1, <1>2, <1>3 DEF SendNext
<1>5. Numbered(n)' = Numbered(n) /\ FileOf(s)' = FileOf(s) /\ Blocks' = Blocks
  BY SettingStays
<1> QED BY <1>3, <1>4, <1>5 DEF SentAs, Reading, Block

LEMMA GetRequest ==
  ASSUME NEW s, GetInv(s), Handle(RRQ), Others
  PROVE  SentAs(s, 1)
<1>0. setting \in Settings /\ setting' = setting /\ Undisturbed /\ s \in Nat /\ stashed = FileOf(s)
  BY DEF GetInv, Setting, Others
<1>1. ReadRequest(RRQ)
  BY BlockIs DEF Handle, RefuseRequest, WriteRequest, RepeatData, NextData, NextAck, OtherAck, Ignore
<1>2. /\ fileIndex' = "table" /\ stashed' = stashed /\ lastBlock' = 1 /\ fp' = "reading"
      /\ disk' = stashed /\ SendNext(1, stashed, 0)
  BY <1>0, <1>1, NothingFails DEF ReadRequest
<1>3. 1 = Numbered(1) /\ 0 = 1 - 1 /\ 1 \in 1..Blocks
  BY <1>0, Numbers, SettingFacts
<1>4. SendNext(Numbered(1), FileOf(s), 1 - 1) /\ lastBlock' = Numbered(1) /\ disk' = FileOf(s)
  BY <1>0, <1>2, <1>3
<1> QED BY <1>0, <1>2, <1>3, <1>4, Served

\* An acknowledgement brings the next block, or the one before again, or the end.
SentAgain(s) ==
  /\ ~Lockstep /\ UNCHANGED serverVars
  /\ \E n \in 1..Blocks : Reading(s, n) /\ toClient' \in Sent(toClient, {Block(s, n)})
Finished ==
  /\ fileIndex' = "none" /\ UNCHANGED <<stashed, toClient>>
  /\ Lockstep => client.next = Blocks + 1
GoesOn(s) ==
  \E n \in 1..(Blocks - 1) : SentAs(s, n + 1) /\ (Lockstep => client.next = n + 1)

LEMMA AckInStep ==
  ASSUME NEW s, GetInv(s), NEW k \in 1..(client.next - 1), ACK(Numbered(k)) \in toServer, Lockstep
  PROVE  /\ client.op \in {"get", "fetched"} /\ client.next > 1
         /\ toServer = {ACK(Numbered(client.next - 1))} /\ toClient = {}
         /\ Reading(s, client.next - 1) /\ Numbered(k) = Numbered(client.next - 1)
<1>1. GetInStep(s)
  BY DEF GetInv
<1>2. ACK(Numbered(k)) # RRQ
  BY BlockIs
<1>3. /\ client.op \in {"get", "fetched"} /\ client.next > 1
      /\ toServer = {ACK(Numbered(client.next - 1))} /\ toClient = {}
      /\ Reading(s, client.next - 1)
  BY <1>1, <1>2 DEF GetInStep, Quiet
<1>4. ACK(Numbered(k)) = ACK(Numbered(client.next - 1))
  BY <1>3
<1> QED BY <1>3, <1>4, BlockIs

LEMMA GetAck ==
  ASSUME NEW s, GetInv(s), NEW k \in 1..(client.next - 1), ACK(Numbered(k)) \in toServer,
         Handle(ACK(Numbered(k))), Others
  PROVE  Dropped \/ SentAgain(s) \/ Finished \/ GoesOn(s)
<1> DEFINE m == ACK(Numbered(k))
<1>1. m.type = "ACK" /\ m.block = Numbered(k) /\ Handle(m)
  BY BlockIs
<1>l. Lockstep =>
        /\ client.next > 1 /\ Reading(s, client.next - 1) /\ Numbered(k) = Numbered(client.next - 1)
  BY AckInStep
<1> HIDE DEF m
<1>0. /\ setting \in Settings /\ setting' = setting /\ Undisturbed /\ s \in Nat /\ stashed = FileOf(s)
      /\ client.next \in 1..(Blocks + 1) /\ Blocks \in Nat /\ Blocks > 0
  BY SettingFacts DEF GetInv, Setting, Others, GetSession
<1>r. fileIndex = "none" \/ \E n \in 1..Blocks : Reading(s, n)
  BY <1>0 DEF GetInv, GetSession
<1>2. NextAck(m) \/ OtherAck(m) \/ Ignore(m)
  BY <1>1 DEF Handle, RepeatData, NextData
<1>3. CASE Ignore(m)
  <2>1. fileIndex = "none" /\ UNCHANGED <<serverVars, toClient>>
    BY <1>1, <1>3 DEF Ignore
  <2> QED BY <1>l, <2>1 DEF Dropped, Reading
<1>4. CASE OtherAck(m)
  <2>1. PICK n \in 1..Blocks : Reading(s, n)
    BY <1>4, <1>r DEF OtherAck
  <2>2. cbuf = <<s, n>> /\ lastBlock = Numbered(n) /\ (IsShort(cbuf) <=> n = Blocks)
    BY <1>0, <2>1, Chunks DEF Reading
  <2>3. /\ UNCHANGED serverVars
        /\ toClient' \in Sent(toClient, {Block(s, n)})
    BY <1>0, <1>4, <2>1, <2>2, NothingFails DEF OtherAck, SendAgain, serverVars, Block, Reading
  <2>4. ~Lockstep
    BY <1>1, <1>4, <1>l, <2>1 DEF OtherAck, Reading
  <2> QED BY <2>1, <2>3, <2>4 DEF SentAgain
<1>5. CASE NextAck(m)
  <2>1. PICK n \in 1..Blocks : Reading(s, n)
    BY <1>5, <1>r DEF NextAck
  <2>0. n \in Nat /\ n + 1 \in Nat
    BY <1>0
  <2>l. Lockstep => client.next = n + 1
    BY <1>0, <1>l, <2>0, <2>1 DEF Reading
  <2>2. lastBlock' = Numbered(n + 1)
    BY <1>0, <1>5, <2>0, <2>1, Numbers DEF NextAck, Reading
  <2>3. CASE n = Blocks
    <3>1. lastSend = "less"
      BY <2>1, <2>3 DEF Reading
    <3>2. fileIndex' = "none" /\ UNCHANGED <<stashed, toClient>>
      BY <1>5, <3>1 DEF NextAck
    <3> QED BY <2>3, <2>l, <3>2 DEF Finished
  <2>4. CASE n # Blocks
    <3>1. lastSend = "full" /\ fp = "reading" /\ disk = FileOf(s) /\ position = n
      BY <2>1, <2>4 DEF Reading
    <3>2. /\ fp' = "reading" /\ fileIndex' = "table" /\ UNCHANGED <<disk, stashed>>
          /\ SendNext(lastBlock', disk, position)
      BY <1>5, <3>1 DEF NextAck
    <3>3. n + 1 \in 1..Blocks /\ (n + 1) - 1 = n /\ n \in 1..(Blocks - 1)
      BY <1>0, <2>4
    <3>4. SendNext(Numbered(n + 1), FileOf(s), (n + 1) - 1)
      BY <2>2, <3>1, <3>2, <3>3
    <3>5. SentAs(s, n + 1)
      BY <1>0, <2>2, <3>1, <3>2, <3>3, <3>4, Served
    <3> QED BY <2>l, <3>3, <3>5 DEF GoesOn
  <2> QED BY <2>3, <2>4
<1> QED BY <1>2, <1>3, <1>4, <1>5

LEMMA GetServer ==
  ASSUME NEW s, GetInv(s), NEW m \in toServer, toServer' \in Left(toServer, m), Handle(m), Others
  PROVE  GetInv(s)'
<1>0. /\ setting \in Settings /\ setting' = setting /\ Undisturbed /\ s \in Nat
      /\ stashed = FileOf(s) /\ GetSession(s) /\ Setting /\ s \in 0..sessions
      /\ client.next \in 1..(Blocks + 1) /\ Blocks \in Nat /\ Blocks > 0
  BY SettingFacts DEF GetInv, Setting, Others, GetSession
<1>s. /\ Blocks' = Blocks /\ Lockstep' = Lockstep /\ Undisturbed' = Undisturbed
      /\ \A k : Numbered(k)' = Numbered(k)
      /\ FileOf(s)' = FileOf(s)
      /\ \A k : Block(s, k)' = Block(s, k)
  BY <1>0, SettingStays
<1>u. client' = client /\ sessions' = sessions /\ Mine' = Mine
  BY DEF Others, Mine
<1>1. Setting'
  BY <1>0, <1>s, <1>u DEF Setting
<1>l. toServer' \subseteq toServer /\ (Lockstep => toServer' = toServer \ {m})
  BY LeftIs DEF Lockstep
\* All that the session asks of the server and the datagrams.
<1>p. ASSUME stashed' = stashed,
             \A x \in toClient' : x \in toClient \/ \E k \in 1..Blocks : x = Block(s, k),
             fileIndex' = "none" \/ \E n \in 1..Blocks : Reading(s, n)',
             Lockstep => GetInStep(s)'
      PROVE  GetInv(s)'
  <2>1. ASSUME NEW x \in toServer' PROVE OfGet(x)'
    <3>1. OfGet(x)
      BY <1>0, <1>l, <2>1 DEF GetSession
    <3> QED BY <1>s, <1>u, <3>1 DEF OfGet
  <2>2. ASSUME NEW x \in toClient' PROVE \E k \in 1..Blocks' : x = Block(s, k)'
    BY <1>0, <1>p, <1>s, <2>2 DEF GetSession
  <2>3. \/ fileIndex' = "none"
        \/ \E n \in 1..Blocks' : Reading(s, n)'
    BY <1>p, <1>s
  <2>4. /\ client'.op \in {"get", "fetched", "failed"} /\ client'.next \in 1..(Blocks' + 1)
        /\ client'.got = FirstOf(s, client'.next - 1)
        /\ client'.op = "get" => client'.next <= Blocks'
        /\ client'.op = "fetched" => client'.next = Blocks' + 1
    BY <1>0, <1>s, <1>u DEF GetSession
  <2>5. GetSession(s)'
    BY <2>1, <2>2, <2>3, <2>4 DEF GetSession
  <2> QED BY <1>0, <1>1, <1>p, <1>s, <1>u, <2>5 DEF GetInv
<1>r. ASSUME UNCHANGED serverVars, NEW n \in 1..Blocks, Reading(s, n) PROVE Reading(s, n)'
  BY <1>s, <1>r DEF Reading, serverVars
\* In step: the datagram that was under way is gone, the server's answer is there.
<1>2. CASE m = RRQ
  <2>1. SentAs(s, 1) /\ Reading(s, 1)' /\ stashed' = stashed
        /\ toClient' \in Sent(toClient, {Block(s, 1)})
    BY <1>2, GetRequest DEF SentAs
  <2>2. /\ toClient' \subseteq toClient \cup {Block(s, 1)}
        /\ Lossless => toClient' = toClient \cup {Block(s, 1)}
    BY <2>1, SentIs
  <2>3. ASSUME Lockstep PROVE GetInStep(s)'
    <3>1. client.op = "get" /\ client.next = 1 /\ toServer = {RRQ} /\ toClient = {}
      BY <1>2, <2>3, BlockIs DEF GetInv, GetInStep, Quiet
    <3>2. toServer' = {} /\ toClient' = {Block(s, 1)}
      BY <1>2, <1>l, <2>2, <2>3, <3>1 DEF Lockstep
    <3> QED BY <1>s, <1>u, <2>1, <3>1, <3>2 DEF GetInStep
  <2>4. 1 \in 1..Blocks
    BY <1>0
  <2> QED BY <1>p, <2>1, <2>2, <2>3, <2>4
<1>3. ASSUME NEW k \in 1..(client.next - 1), m = ACK(Numbered(k)) PROVE GetInv(s)'
  <2>0. Dropped \/ SentAgain(s) \/ Finished \/ GoesOn(s)
    BY <1>3, GetAck
  <2>l. Lockstep =>
          /\ client.op \in {"get", "fetched"} /\ client.next > 1
          /\ toServer = {m} /\ toClient = {}
    <3> SUFFICES ASSUME Lockstep
                 PROVE  /\ client.op \in {"get", "fetched"} /\ client.next > 1
                        /\ toServer = {m} /\ toClient = {}
      OBVIOUS
    <3>1. ACK(Numbered(k)) \in toServer
      BY <1>3
    <3>2. /\ client.op \in {"get", "fetched"} /\ client.next > 1
          /\ toServer = {ACK(Numbered(client.next - 1))} /\ toClient = {}
      BY <3>1, AckInStep
    <3> QED BY <3>2
  <2>n. client.next # 1
    BY <1>0
  <2>r. fileIndex = "none" \/ \E n \in 1..Blocks : Reading(s, n)
    BY <1>0, <2>n DEF GetSession
  <2>1. CASE Dropped
    <3>1. ~Lockstep /\ UNCHANGED serverVars /\ UNCHANGED <<toClient, stashed, fileIndex>>
      BY <2>1 DEF Dropped, serverVars
    <3> QED BY <1>p, <1>r, <2>r, <3>1
  <2>2. CASE SentAgain(s)
    <3>1. ~Lockstep /\ UNCHANGED serverVars /\ UNCHANGED <<stashed, fileIndex>>
      BY <2>2 DEF SentAgain, serverVars
    <3>2. PICK n \in 1..Blocks : toClient' \in Sent(toClient, {Block(s, n)})
      BY <2>2 DEF SentAgain
    <3>3. toClient' \subseteq toClient \cup {Block(s, n)}
      BY <3>2, SentIs
    <3> QED BY <1>p, <1>r, <2>r, <3>1, <3>3
  <2>3. CASE Finished
    <3>1. ASSUME Lockstep PROVE GetInStep(s)'
      <4>1. client.op = "fetched"
        BY <1>0, <2>3, <2>l, <3>1 DEF Finished, GetSession
      <4>2. toServer' = {} /\ toClient' = {}
        BY <1>l, <2>3, <2>l, <3>1 DEF Finished
      <4> QED BY <1>u, <4>1, <4>2 DEF GetInStep, Quiet
    <3> QED BY <1>p, <2>3, <3>1 DEF Finished
  <2>4. CASE GoesOn(s)
    <3>1. PICK n \in 1..(Blocks - 1) : SentAs(s, n + 1) /\ (Lockstep => client.next = n + 1)
      BY <2>4 DEF GoesOn
    <3>2. Reading(s, n + 1)' /\ stashed' = stashed /\ toClient' \in Sent(toClient, {Block(s, n + 1)})
      BY <3>1 DEF SentAs
    <3>3. /\ toClient' \subseteq toClient \cup {Block(s, n + 1)}
          /\ Lossless => toClient' = toClient \cup {Block(s, n + 1)}
      BY <3>2, SentIs
    <3>4. n + 1 \in 1..Blocks /\ n + 1 <= Blocks
      BY <1>0
    <3>5. ASSUME Lockstep PROVE GetInStep(s)'
      <4>1. client.next = n + 1
        BY <3>1, <3>5
      <4>2. client.op = "get"
        BY <1>0, <2>l, <3>4, <3>5, <4>1 DEF GetSession
      <4>3. toServer' = {} /\ toClient' = {Block(s, client.next)}
        BY <1>l, <2>l, <3>3, <3>5, <4>1 DEF Lockstep
      <4>4. Reading(s, client.next)'
        BY <1>u, <3>2, <4>1
      <4> QED BY <1>s, <1>u, <4>2, <4>3, <4>4 DEF GetInStep
    <3> QED BY <1>p, <3>2, <3>3, <3>4, <3>5
  <2> QED BY <2>0, <2>1, <2>2, <2>3, <2>4
<1> QED BY <1>0, <1>2, <1>3 DEF GetSession, OfGet

\* A block is taken for the one the client waits for only when it is.
LEMMA GetReceived ==
  ASSUME NEW s, GetInv(s), NEW m \in toClient, ClientAck(m) \/ ClientData(m) \/ ClientIgnore(m)
  PROVE  \/ /\ ~Lockstep /\ UNCHANGED client
            /\ \/ UNCHANGED toServer
               \/ /\ client.next > 1
                  /\ toServer' \in Sent(toServer, {ACK(Numbered(client.next - 1))})
         \/ /\ client.op = "get" /\ client.next <= Blocks
            /\ client' = [client EXCEPT !.next = @ + 1, !.got = Append(@, <<s, client.next>>),
                            !.op = IF client.next = Blocks THEN "fetched" ELSE @]
            /\ toServer' \in Sent(toServer, {ACK(Numbered(client.next))})
<1>0. /\ setting \in Settings /\ Undisturbed /\ s \in Nat
      /\ stashed = FileOf(s) /\ GetSession(s) /\ (Lockstep => GetInStep(s))
      /\ client.next \in 1..(Blocks + 1) /\ Blocks \in Nat /\ Blocks > 0
      /\ FetchLimit \in Nat /\ Blocks <= FetchLimit
  BY SettingFacts DEF GetInv, Setting, GetSession
<1>1. PICK k \in 1..Blocks : m = Block(s, k)
  BY <1>0 DEF GetSession
<1>2. m.type = "DATA" /\ m.block = Numbered(k) /\ m.chunk = <<s, k>> /\ (IsShort(<<s, k>>) <=> k = Blocks)
  BY <1>0, <1>1, BlockIs, Chunks
<1>3. Lockstep => client.op = "get" /\ m = Block(s, client.next)
  BY <1>0 DEF GetInStep, Quiet
<1>4. Lockstep => k = client.next
  BY <1>1, <1>3, BlockIs
<1>5. CASE client.op = "get"
  <2>1. ClientData(m)
    BY <1>2, <1>5 DEF ClientAck, ClientIgnore
  <2>n. client.next <= Blocks /\ client.next <= FetchLimit /\ client.next \in 0..Blocks /\ k \in 0..Blocks
    BY <1>0, <1>5 DEF GetSession
  <2>2. client.next % BlockModulus = Numbered(client.next)
        /\ (client.next - 1) % BlockModulus = Numbered(client.next - 1)
    BY DEF Numbered
  <2>3. CASE m.block # Numbered(client.next)
    <3>1. ~Lockstep
      BY <1>2, <1>4, <2>3
    <3>2. UNCHANGED client
          /\ \/ UNCHANGED toServer
             \/ client.next > 1 /\ toServer' \in Sent(toServer, {ACK(Numbered(client.next - 1))})
      BY <2>1, <2>2, <2>3 DEF ClientData
    <3> QED BY <3>1, <3>2
  <2>4. CASE m.block = Numbered(client.next)
    <3>1. k = client.next
      <4>1. CASE Lockstep
        BY <1>4, <4>1
      <4>2. CASE ~Lockstep
        <5>1. Blocks < BlockModulus
          BY <1>0, <4>2, SettingFacts
        <5> QED BY <1>0, <1>2, <2>4, <2>n, <5>1, Numbers
      <4> QED BY <4>1, <4>2
    <3>2. m.chunk = <<s, client.next>> /\ (IsShort(m.chunk) <=> client.next = Blocks)
      BY <1>2, <3>1
    <3>3. /\ client' = [client EXCEPT !.next = @ + 1, !.got = Append(@, m.chunk),
                          !.op = IF IsShort(m.chunk) THEN "fetched" ELSE @]
          /\ toServer' \in Sent(toServer, {ACK(m.block)})
      BY <2>1, <2>2, <2>4, <2>n DEF ClientData
    <3> QED BY <1>5, <2>4, <2>n, <3>2, <3>3
  <2> QED BY <2>3, <2>4
<1>6. CASE client.op # "get"
  <2>1. client.op \in {"fetched", "failed"}
    BY <1>0, <1>6 DEF GetSession
  <2>2. UNCHANGED <<client, toServer>>
    BY <1>2, <1>6, <2>1 DEF ClientAck, ClientData, ClientIgnore
  <2> QED BY <1>3, <1>6, <2>2
<1> QED BY <1>5, <1>6

LEMMA GetRepeats ==
  ASSUME NEW c, c.op = "get"
  PROVE  LastSent(c) = (IF c.next = 1 THEN RRQ ELSE ACK(Numbered(c.next - 1)))
BY DEF LastSent, RRQ, Numbered

LEMMA GetClient ==
  ASSUME NEW s, GetInv(s), UNCHANGED <<serverVars, sessions, setting>>,
         \/ GiveUp \/ Resend
         \/ \E m \in toClient : /\ toClient' \in Left(toClient, m)
                                /\ ClientAck(m) \/ ClientData(m) \/ ClientIgnore(m)
  PROVE  GetInv(s)'
<1>0. /\ setting \in Settings /\ Undisturbed /\ sessions \in Nat /\ Mine = sessions /\ s \in Nat
      /\ s \in 0..sessions /\ stashed = FileOf(s) /\ GetSession(s) /\ (Lockstep => GetInStep(s))
  BY DEF GetInv, Setting
<1>s. /\ Blocks' = Blocks /\ Lockstep' = Lockstep /\ Undisturbed' = Undisturbed
      /\ \A k : Numbered(k)' = Numbered(k)
      /\ FileOf(s)' = FileOf(s)
      /\ \A k : Block(s, k)' = Block(s, k)
  BY SettingStays
<1>b. Blocks \in Nat /\ Blocks > 0 /\ client.next \in 1..(Blocks + 1)
      /\ client.op \in {"get", "fetched", "failed"} /\ client.got = FirstOf(s, client.next - 1)
      /\ (client.op = "get" => client.next <= Blocks)
      /\ (client.op = "fetched" => client.next = Blocks + 1)
  BY <1>0, SettingFacts DEF GetSession
<1>u. sessions' = sessions /\ setting' = setting /\ stashed' = stashed /\ fileIndex' = fileIndex
      /\ \A n : Reading(s, n)' <=> Reading(s, n)
  BY <1>s DEF serverVars, Reading
\* All that the session asks of the client and the datagrams.
<1>p. ASSUME client'.session = client.session,
             client'.op \in {"get", "fetched", "failed"}, client'.next \in 1..(Blocks + 1),
             client.next <= client'.next, client'.got = FirstOf(s, client'.next - 1),
             client'.op = "get" => client'.next <= Blocks,
             client'.op = "fetched" => client'.next = Blocks + 1,
             \A x \in toServer' : x \in toServer \/ x = RRQ \/ \E k \in 1..(client'.next - 1) : x = ACK(Numbered(k)),
             toClient' \subseteq toClient,
             client'.next # 1 => client.next # 1 \/ toClient # {},
             Lockstep => GetInStep(s)'
      PROVE  GetInv(s)'
  <2>1. Setting'
    BY <1>0, <1>p, <1>s, <1>u DEF Setting, Mine
  <2>2. ASSUME NEW x \in toServer' PROVE OfGet(x)'
    <3>1. x = RRQ \/ \E k \in 1..(client'.next - 1) : x = ACK(Numbered(k))
      <4>1. x \in toServer => OfGet(x)
        BY <1>0 DEF GetSession
      <4>2. 1..(client.next - 1) \subseteq 1..(client'.next - 1)
        BY <1>b, <1>p
      <4> QED BY <1>p, <2>2, <4>1, <4>2 DEF OfGet
    <3> QED BY <1>s, <3>1 DEF OfGet
  <2>3. ASSUME NEW x \in toClient' PROVE \E k \in 1..Blocks' : x = Block(s, k)'
    BY <1>0, <1>p, <1>s, <2>3 DEF GetSession
  <2>4. \/ client'.next = 1 /\ toClient' = {}
        \/ \E n \in 1..Blocks' : Reading(s, n)'
        \/ fileIndex' = "none"
    <3>1. CASE client.next = 1 /\ toClient = {}
      BY <1>p, <3>1
    <3>2. CASE client.next # 1 \/ toClient # {}
      <4>1. fileIndex = "none" \/ \E n \in 1..Blocks : Reading(s, n)
        BY <1>0, <3>2 DEF GetSession
      <4> QED BY <1>s, <1>u, <4>1
    <3> QED BY <3>1, <3>2
  <2>5. GetSession(s)'
    BY <1>p, <1>s, <2>2, <2>3, <2>4 DEF GetSession
  <2> QED BY <1>0, <1>p, <1>s, <1>u, <2>1, <2>5 DEF GetInv
<1>1. CASE GiveUp
  <2>1. ~Lockstep /\ client' = [client EXCEPT !.op = "failed"] /\ UNCHANGED <<toServer, toClient>>
    BY <1>1 DEF GiveUp, Lockstep
  <2>2. client'.session = client.session /\ client'.op = "failed" /\ client'.next = client.next
        /\ client'.got = client.got
    BY <2>1, <1>1 DEF GiveUp, Busy
  <2> QED BY <1>b, <1>p, <2>1, <2>2
<1>2. CASE Resend
  <2>1. client.op = "get" /\ (Lossless => Quiet) /\ toServer' \in Sent(toServer, {LastSent(client)})
        /\ UNCHANGED <<toClient, client>>
    BY <1>2, <1>b DEF Resend, Busy
  <2>2. LastSent(client) = (IF client.next = 1 THEN RRQ ELSE ACK(Numbered(client.next - 1)))
    BY <2>1, GetRepeats
  <2>3. toServer' \subseteq toServer \cup {LastSent(client)}
    BY <2>1, SentIs
  <2>4. client.next # 1 => client.next - 1 \in 1..(client'.next - 1)
    BY <1>b, <2>1
  <2>5. ASSUME NEW x \in toServer'
        PROVE  x \in toServer \/ x = RRQ \/ \E k \in 1..(client'.next - 1) : x = ACK(Numbered(k))
    BY <2>2, <2>3, <2>4
  <2>6. ~Lockstep
    BY <1>0, <2>1 DEF GetInStep, Lockstep, Quiet
  <2> QED BY <1>b, <1>p, <2>1, <2>5, <2>6
<1>3. ASSUME NEW m \in toClient, toClient' \in Left(toClient, m),
             ClientAck(m) \/ ClientData(m) \/ ClientIgnore(m)
      PROVE  GetInv(s)'
  <2>1. toClient' \subseteq toClient /\ (Lockstep => toClient' = toClient \ {m})
    BY <1>3, LeftIs DEF Lockstep
  <2>2. CASE /\ ~Lockstep /\ UNCHANGED client
             /\ \/ UNCHANGED toServer
                \/ /\ client.next > 1
                   /\ toServer' \in Sent(toServer, {ACK(Numbered(client.next - 1))})
    <3>1. ASSUME NEW x \in toServer'
          PROVE  x \in toServer \/ \E k \in 1..(client'.next - 1) : x = ACK(Numbered(k))
      <4>1. CASE UNCHANGED toServer
        BY <3>1, <4>1
      <4>2. CASE /\ client.next > 1
                 /\ toServer' \in Sent(toServer, {ACK(Numbered(client.next - 1))})
        <5>1. toServer' \subseteq toServer \cup {ACK(Numbered(client.next - 1))}
          BY <4>2, SentIs
        <5>2. client.next - 1 \in 1..(client'.next - 1)
          BY <1>b, <2>2, <4>2
        <5> QED BY <3>1, <5>1, <5>2
      <4> QED BY <2>2, <4>1, <4>2
    <3> QED BY <1>b, <1>p, <2>1, <2>2, <3>1
  <2>3. CASE /\ client.op = "get" /\ client.next <= Blocks
             /\ client' = [client EXCEPT !.next = @ + 1, !.got = Append(@, <<s, client.next>>),
                             !.op = IF client.next = Blocks THEN "fetched" ELSE @]
             /\ toServer' \in Sent(toServer, {ACK(Numbered(client.next))})
    <3>1. /\ client'.next = client.next + 1 /\ client'.session = client.session
          /\ client'.got = Append(client.got, <<s, client.next>>)
          /\ client'.op = IF client.next = Blocks THEN "fetched" ELSE "get"
      BY <2>3
    <3>2. client'.got = FirstOf(s, client'.next - 1)
      <4>1. client.next - 1 \in Nat /\ (client.next - 1) + 1 = client.next /\ client'.next - 1 = client.next
        BY <1>b, <3>1
      <4>2. Append(FirstOf(s, client.next - 1), <<s, (client.next - 1) + 1>>)
              = FirstOf(s, (client.next - 1) + 1)
        BY <1>0, <4>1, Grows
      <4> QED BY <1>b, <3>1, <4>1, <4>2
    <3>3. /\ toServer' \subseteq toServer \cup {ACK(Numbered(client.next))}
          /\ Lossless => toServer' = toServer \cup {ACK(Numbered(client.next))}
      BY <2>3, SentIs
    <3>4. client.next \in 1..(client'.next - 1) /\ client'.next \in 1..(Blocks + 1)
          /\ client.next <= client'.next
          /\ (client'.op = "get" => client'.next <= Blocks)
          /\ (client'.op = "fetched" => client'.next = Blocks + 1)
      BY <1>b, <2>3, <3>1
    <3>5. ASSUME NEW x \in toServer'
          PROVE  x \in toServer \/ \E k \in 1..(client'.next - 1) : x = ACK(Numbered(k))
      BY <3>3, <3>4
    <3>6. ASSUME Lockstep PROVE GetInStep(s)'
      <4>1. toServer = {} /\ toClient = {Block(s, client.next)} /\ Reading(s, client.next)
        BY <1>0, <1>3, <2>3, <3>6 DEF GetInStep, Quiet
      <4>2. toServer' = {ACK(Numbered(client.next))} /\ toClient' = {}
        BY <1>3, <2>1, <3>3, <3>6, <4>1 DEF Lockstep
      <4>3. client'.next - 1 = client.next /\ client'.next > 1
        BY <1>b, <3>1
      <4>4. client'.op \in {"get", "fetched"}
        BY <3>1
      <4>5. toServer' = {ACK(Numbered(client.next - 1)')}
        BY <1>s, <4>2, <4>3
      <4>6. Reading(s, client.next - 1)'
        BY <1>u, <4>1, <4>3
      <4> QED BY <4>2, <4>3, <4>4, <4>5, <4>6 DEF GetInStep
    <3> QED BY <1>3, <1>b, <1>p, <2>1, <3>1, <3>2, <3>4, <3>5, <3>6
  <2> QED BY <1>3, <2>2, <2>3, GetReceived
<1> QED BY <1>1, <1>2, <1>3

-----------------------------------------------------------------------------
\* Between sessions, and their beginning.
IdleInv == Setting /\ Kept /\ NoSession

LEMMA IdleKeeps ==
  ASSUME IdleInv,
         \/ /\ \E m \in toServer : toServer' \in Left(toServer, m) /\ Handle(m)
            /\ Others
         \/ /\ \/ GiveUp \/ Resend
               \/ \E m \in toClient : /\ toClient' \in Left(toClient, m)
                                      /\ ClientAck(m) \/ ClientData(m) \/ ClientIgnore(m)
            /\ UNCHANGED <<serverVars, sessions, setting>>
  PROVE  IdleInv'
<1>0. /\ Undisturbed /\ Setting /\ Kept /\ setting' = setting /\ sessions' = sessions
      /\ client.op \in {"idle", "failed"}
      /\ \A m \in toServer : m = Request("RRQ", "unknown")
      /\ \A m \in toClient : m = ERR
  BY DEF IdleInv, Setting, NoSession, Others
<1>s. Undisturbed' = Undisturbed /\ \A s : FileOf(s)' = FileOf(s)
  BY <1>0, SettingStays
<1>1. ASSUME NEW m \in toServer, toServer' \in Left(toServer, m), Handle(m), Others
      PROVE  IdleInv'
  <2>1. m.type = "RRQ" /\ m.name = "unknown"
    BY <1>0 DEF Request
  <2>2. RefuseRequest(m)
    BY <1>1, <2>1 DEF Handle, ReadRequest, WriteRequest, RepeatData, NextData, NextAck, OtherAck, Ignore
  <2>3. stashed' = stashed /\ toClient' \in Sent(toClient, {ERR}) /\ client' = client
    BY <1>1, <2>2 DEF RefuseRequest, Others
  <2>4. toClient' \subseteq toClient \cup {ERR} /\ toServer' \subseteq toServer
    BY <1>1, <2>3, SentIs, LeftIs
  <2>5. Setting' /\ Kept'
    BY <1>0, <1>s, <2>3 DEF Setting, Mine, Kept
  <2>6. NoSession'
    BY <1>0, <2>3, <2>4 DEF NoSession
  <2> QED BY <2>5, <2>6 DEF IdleInv
<1>2. ASSUME NEW m \in toClient, toClient' \in Left(toClient, m), UNCHANGED <<serverVars, sessions, setting>>,
             ClientAck(m) \/ ClientData(m) \/ ClientIgnore(m)
      PROVE  IdleInv'
  <2>1. UNCHANGED <<client, toServer>>
    BY <1>0, <1>2 DEF ClientAck, ClientData, ClientIgnore, Busy
  <2>2. toClient' \subseteq toClient /\ stashed' = stashed
    BY <1>2, LeftIs DEF serverVars
  <2>3. Setting' /\ Kept'
    BY <1>0, <1>s, <2>1, <2>2 DEF Setting, Mine, Kept
  <2>4. NoSession'
    BY <1>0, <2>1, <2>2 DEF NoSession
  <2> QED BY <2>3, <2>4 DEF IdleInv
<1>3. ~GiveUp /\ ~Resend
  BY <1>0 DEF GiveUp, Resend, Busy
<1> QED BY <1>1, <1>2, <1>3

\* A session begins in a quiet network, whatever became of the one before.
LEMMA Begins ==
  ASSUME Setting, Kept, NEW op \in Ops, Start(op), setting' = setting
  PROVE  PutInv' \/ (\E s \in 0..sessions' : GetInv(s)') \/ IdleInv'
<1>0. setting \in Settings /\ Undisturbed /\ sessions \in Nat /\ op \in {"put", "get", "unknown"}
      /\ Quiet /\ Blocks \in Nat /\ Blocks > 0
  BY SettingFacts, SettingsAssumption DEF Setting, Ops, Start, Undisturbed
<1>s. /\ Blocks' = Blocks /\ Lockstep' = Lockstep /\ Undisturbed' = Undisturbed
      /\ \A s : FileOf(s)' = FileOf(s)
  BY SettingStays
<1>1. /\ sessions' = sessions + 1 /\ stashed' = stashed /\ toClient' = {}
      /\ client'.op = (IF op = "unknown" THEN "failed" ELSE op) /\ client'.session = sessions + 1
      /\ client'.next = (IF op = "get" THEN 1 ELSE 0) /\ client'.got = <<>>
  BY <1>0 DEF Start, Quiet, serverVars
<1>2. Setting'
  BY <1>0, <1>1, <1>s DEF Setting, Mine
<1>3. PICK s \in 0..sessions : stashed = FileOf(s)
  BY DEF Kept
<1>4. s \in 0..sessions' /\ stashed' = FileOf(s)'
  BY <1>0, <1>1, <1>3, <1>s
<1>5. Kept'
  BY <1>4 DEF Kept
<1>6. toServer = {} /\ (Lockstep => Lossless)
  BY <1>0 DEF Quiet, Lockstep
<1>7. CASE op = "put"
  <2>1. toServer' \in Sent(toServer, {WRQ})
    BY <1>7 DEF Start, WRQ
  <2>2. toServer' \subseteq {WRQ} /\ (Lockstep => toServer' = {WRQ})
    BY <1>6, <2>1, SentIs
  <2>3. PutSession'
    BY <1>0, <1>1, <1>7, <1>s, <2>2 DEF PutSession, OfPut
  <2>4. Lockstep' => PutInStep'
    BY <1>1, <1>7, <1>s, <2>2 DEF PutInStep
  <2> QED BY <1>2, <1>5, <2>3, <2>4 DEF PutInv
<1>8. CASE op = "get"
  <2>1. toServer' \in Sent(toServer, {RRQ})
    BY <1>8 DEF Start, RRQ
  <2>2. toServer' \subseteq {RRQ} /\ (Lockstep => toServer' = {RRQ})
    BY <1>6, <2>1, SentIs
  <2>3. client'.next = 1 /\ client'.op = "get" /\ client'.got = FirstOf(s, client'.next - 1)
    <3>1. FirstOf(s, 0) = <<>>
      BY DEF FirstOf
    <3>2. client'.next - 1 = 0
      BY <1>1, <1>8
    <3> QED BY <1>1, <1>8, <3>1, <3>2
  <2>4. GetSession(s)'
    BY <1>0, <1>1, <1>s, <2>2, <2>3 DEF GetSession, OfGet
  <2>5. Lockstep' => GetInStep(s)'
    BY <1>1, <1>s, <2>2, <2>3 DEF GetInStep
  <2> QED BY <1>2, <1>4, <2>4, <2>5 DEF GetInv
<1>9. CASE op = "unknown"
  <2>1. toServer' \in Sent(toServer, {Request("RRQ", "unknown")})
    BY <1>9 DEF Start
  <2>2. toServer' \subseteq {Request("RRQ", "unknown")}
    BY <1>6, <2>1, SentIs
  <2>3. NoSession'
    BY <1>1, <1>9, <2>2 DEF NoSession
  <2> QED BY <1>2, <1>5, <2>3 DEF IdleInv
<1> QED BY <1>0, <1>7, <1>8, <1>9

-----------------------------------------------------------------------------
TftpInv ==
  /\ setting \in Settings
  /\ Undisturbed => PutInv \/ (\E s \in 0..sessions : GetInv(s)) \/ IdleInv

LEMMA TftpStart == Init => TftpInv
<1> SUFFICES ASSUME Init PROVE TftpInv
  OBVIOUS
<1>1. /\ setting \in Settings /\ stashed = FileOf(0) /\ toServer = {} /\ toClient = {} /\ sessions = 0
      /\ client.op = "idle" /\ client.session = 0
  BY DEF Init
<1>2. ASSUME Undisturbed PROVE IdleInv
  BY <1>1, <1>2 DEF IdleInv, Setting, Mine, Kept, NoSession
<1> QED BY <1>1, <1>2 DEF TftpInv

LEMMA TftpStep == TftpInv /\ [Next]_vars => TftpInv'
<1> SUFFICES ASSUME TftpInv, [Next]_vars PROVE TftpInv'
  OBVIOUS
<1>0. setting' = setting /\ setting' \in Settings /\ (Undisturbed' <=> Undisturbed)
  BY SettingStays DEF TftpInv, Next, vars
<1> SUFFICES ASSUME Undisturbed PROVE PutInv' \/ (\E s \in 0..sessions' : GetInv(s)') \/ IdleInv'
  BY <1>0 DEF TftpInv
<1>1. PutInv \/ (\E s \in 0..sessions : GetInv(s)) \/ IdleInv
  BY DEF TftpInv
<1>2. CASE ServerReceive
  <2>1. PICK m \in toServer : toServer' \in Left(toServer, m) /\ Handle(m) /\ UNCHANGED <<client, sessions>>
    BY <1>2 DEF ServerReceive, Handle
  <2>2. Others /\ sessions' = sessions
    BY <1>0, <2>1 DEF Others
  <2>3. CASE PutInv
    BY <2>1, <2>2, <2>3, PutServer
  <2>4. ASSUME NEW s \in 0..sessions, GetInv(s) PROVE GetInv(s)'
    BY <2>1, <2>2, <2>4, GetServer
  <2>5. CASE IdleInv
    BY <2>1, <2>2, <2>5, IdleKeeps
  <2> QED BY <1>1, <2>2, <2>3, <2>4, <2>5
<1>3. CASE Resend \/ GiveUp \/ ClientReceive
  <2>1. UNCHANGED <<serverVars, sessions, setting>>
    BY <1>0, <1>3 DEF Resend, GiveUp, ClientReceive
  <2>2. \/ GiveUp \/ Resend
        \/ \E m \in toClient : /\ toClient' \in Left(toClient, m)
                               /\ ClientAck(m) \/ ClientData(m) \/ ClientIgnore(m)
    BY <1>3 DEF ClientReceive
  <2>3. CASE PutInv
    BY <2>1, <2>2, <2>3, PutClient
  <2>4. ASSUME NEW s \in 0..sessions, GetInv(s) PROVE GetInv(s)'
    BY <2>1, <2>2, <2>4, GetClient
  <2>5. CASE IdleInv
    BY <2>1, <2>2, <2>5, IdleKeeps
  <2>6. sessions' = sessions
    BY <2>1
  <2> QED BY <1>1, <2>3, <2>4, <2>5, <2>6
<1>4. ASSUME NEW op \in Ops, Start(op)
      PROVE  PutInv' \/ (\E s \in 0..sessions' : GetInv(s)') \/ IdleInv'
  <2>1. Setting /\ Kept
    BY <1>1 DEF PutInv, GetInv, IdleInv, Kept, Setting
  <2> QED BY <1>0, <1>4, <2>1, Begins
<1>5. CASE UNCHANGED vars
  <2>1. /\ fileIndex' = fileIndex /\ fp' = fp /\ lastBlock' = lastBlock /\ lastSend' = lastSend
        /\ cbuf' = cbuf /\ disk' = disk /\ position' = position /\ stashed' = stashed
        /\ toServer' = toServer /\ toClient' = toClient /\ client' = client /\ sessions' = sessions
    BY <1>5 DEF vars, moving, serverVars
  <2>2. CASE PutInv
    <3>1. PutInv'
      BY <1>0, <2>1, <2>2, SettingStays
         DEF PutInv, Setting, Kept, Mine, PutSession, PutInStep, OfPut, AckOf, Writing, Stored, Quiet
    <3> QED BY <3>1
  <2>3. ASSUME NEW s \in 0..sessions, GetInv(s) PROVE GetInv(s)'
    BY <1>0, <2>1, <2>3, SettingStays
       DEF GetInv, Setting, Mine, GetSession, GetInStep, OfGet, Reading, Quiet
  <2>4. CASE IdleInv
    <3>1. IdleInv'
      BY <1>0, <2>1, <2>4, SettingStays DEF IdleInv, Setting, Mine, Kept, NoSession
    <3> QED BY <3>1
  <2> QED BY <1>1, <2>1, <2>2, <2>3, <2>4
<1> QED BY <1>2, <1>3, <1>4, <1>5 DEF Next, Step

\* A client that is told that its last block arrived has had its file kept, for
\* files of any length and however datagrams are lost, repeated and reordered:
\* where the numbers of a file's blocks wrap around, on a network that keeps
\* them in step. (tftp_recv_callback, the acknowledgements of DATA)
THEOREM SuccessStaysReal == Spec => []SuccessIsReal
<1>1. TftpInv => SuccessIsReal
  <2> SUFFICES ASSUME TftpInv, Undisturbed, client.op = "stored" PROVE stashed = FileOf(client.session)
    BY DEF SuccessIsReal, StoredIsStashed
  <2>1. PutInv
    BY DEF TftpInv, GetInv, GetSession, IdleInv, NoSession
  <2> QED BY <2>1 DEF PutInv, PutSession, Mine
<1> QED BY TftpStart, TftpStep, <1>1, PTL DEF Spec

\* What is kept is a whole file of one session. (tftp_recv_callback, the commit
\* after a short block)
THEOREM WholeFilesAreKept == Spec => []StashedIsWhole
<1>1. TftpInv => StashedIsWhole
  BY DEF TftpInv, PutInv, GetInv, IdleInv, Kept, StashedIsWhole
<1> QED BY TftpStart, TftpStep, <1>1, PTL DEF Spec

\* A file that was fetched is the one that is kept. (sendBlock and its buffer)
THEOREM WholeFilesAreFetched == Spec => []FetchedIsStashed
<1>1. TftpInv => FetchedIsStashed
  <2> SUFFICES ASSUME TftpInv, Undisturbed, client.op = "fetched" PROVE client.got = stashed
    BY DEF FetchedIsStashed
  <2>1. PICK s \in 0..sessions : GetInv(s)
    BY DEF TftpInv, PutInv, PutSession, IdleInv, NoSession
  <2>2. client.got = FirstOf(s, client.next - 1) /\ client.next = Blocks + 1 /\ stashed = FileOf(s)
    BY <2>1 DEF GetInv, GetSession
  <2>3. client.next - 1 = Blocks
    BY <2>1, <2>2, SettingFacts DEF GetInv, Setting
  <2> QED BY <2>2, <2>3, WholeFile
<1> QED BY TftpStart, TftpStep, <1>1, PTL DEF Spec
-----------------------------------------------------------------------------
(***************************************************************************)
(* The check for duplicate IOCs (IocCheck): what its seconds, which begin  *)
(* again, tell of the real ones.                                           *)
(***************************************************************************)

\* As long as the seconds have not begun again since, the difference of the
\* seconds that are read is that of the real ones.
LEMMA SecondsSince ==
  ASSUME TimesOfTheCode, NEW t \in Nat, NEW a \in Nat, a <= t, t - a <= Now(t)
  PROVE  /\ Now(a) = Now(t) - (t - a)
         /\ (Now(t) - Now(a)) % WordModulus = t - a
<1>1. SecondsWrap \in Nat /\ SecondsWrap > 0 /\ WordModulus \in Nat /\ SecondsWrap <= WordModulus
  BY DEF TimesOfTheCode
<1> DEFINE m == SecondsWrap
           n == t % m
           r == n - (t - a)
<1>2. n \in 0..(m - 1) /\ \E q \in Nat : t = m * q + n
  BY <1>1, Rounds
<1>3. PICK q \in Nat : t = m * q + n
  BY <1>2
<1>4. r \in 0..(m - 1)
  BY <1>1, <1>2 DEF Now
<1>5. m * q \in Nat /\ m \in Nat /\ m > 0
  BY <1>1, SMTT(30)
<1>6. a = m * q + r
  <2> HIDE DEF n, m
  <2> QED BY <1>3, <1>5, <1>2
<1>7. (m * q + r) % m = r
  <2> HIDE DEF r, m
  <2> QED BY <1>4, <1>5, RemainderIs
<1>8. Now(a) = r /\ Now(t) = n
  <2> HIDE DEF r
  <2> QED BY <1>6, <1>7 DEF Now
<1> DEFINE d == t - a
<1>9. d \in 0..(WordModulus - 1) /\ d = Now(t) - Now(a)
  BY <1>1, <1>2, <1>4, <1>8
<1>10. d % WordModulus = d
  <2>1. PICK z \in Nat : z = 0
    OBVIOUS
  <2>2. d \in 0..(WordModulus - 1) /\ WordModulus \in Nat /\ WordModulus > 0
    BY <1>1, <1>9
  <2> HIDE DEF d
  <2>3. (WordModulus * z + d) % WordModulus = d
    BY <2>2, RemainderIs
  <2>4. WordModulus * z + d = d
    BY <2>1, <2>2
  <2> QED BY <2>3, <2>4
<1> QED BY <1>8, <1>9, <1>10

\* In the first round the seconds that are read are the real ones.
LEMMA FirstRound ==
  ASSUME TimesOfTheCode, NEW t \in Nat, t < SecondsWrap
  PROVE  Now(t) = t
<1>1. SecondsWrap \in Nat /\ SecondsWrap > 0 /\ t \in 0..(SecondsWrap - 1)
  BY DEF TimesOfTheCode
<1>2. PICK z \in Nat : z = 0
  OBVIOUS
<1>3. (SecondsWrap * z + t) % SecondsWrap = t
  BY <1>1, RemainderIs
<1> QED BY <1>1, <1>2, <1>3 DEF Now

\* A second that is known is that of the change: unless the seconds began
\* again within ChangeTime before a change that came too soon, that change
\* or one after it is when the check last found one.  In the first round
\* the check knows the times themselves.
IocInv ==
  /\ time \in Nat
  /\ \/ lastChange = Never /\ whenChanged = 0
     \/ lastChange \in Nat /\ lastChange <= time /\ whenChanged = Now(lastChange)
  /\ \/ lastDuplicate = Never
     \/ /\ lastDuplicate \in Nat /\ lastDuplicate <= time
        /\ Now(lastDuplicate) >= ChangeTime =>
             \E t \in Nat : lastDuplicate <= t /\ t <= time /\ whenDuplicate = Now(t)

FirstRoundInv ==
  /\ time >= BootTime
  /\ time < SecondsWrap => whenDuplicate = (IF lastDuplicate = Never THEN 0 ELSE lastDuplicate)

LEMMA NeverIs ==
  ASSUME TimesOfTheCode
  PROVE  Never \in Int /\ Never < 0 /\ 0 - Never >= ChangeTime + ReportTime
BY DEF TimesOfTheCode, Never

\* What the check finds of a change: it finds it too soon if it is, unless
\* the seconds began again within ChangeTime before it.
LEMMA FindsDuplicate ==
  ASSUME TimesOfTheCode, IocInv, time - lastChange < ChangeTime, Now(time) >= ChangeTime
  PROVE  Since(whenChanged) < ChangeTime
<1>1. lastChange \in Nat /\ lastChange <= time /\ whenChanged = Now(lastChange)
  BY NeverIs DEF IocInv, TimesOfTheCode
<1>2. time \in Nat /\ ChangeTime \in Nat
  BY DEF IocInv, TimesOfTheCode
<1>3. Now(time) \in Int
  BY <1>2, Rounds DEF Now, TimesOfTheCode
<1>4. time - lastChange <= Now(time)
  BY <1>1, <1>2, <1>3
<1>5. (Now(time) - Now(lastChange)) % WordModulus = time - lastChange
  BY <1>1, <1>2, <1>4, SecondsSince
<1> QED BY <1>1, <1>5 DEF Since

LEMMA IocStep ==
  ASSUME TimesOfTheCode, IocInv, [IocNext]_iocVars
  PROVE  IocInv'
<1>1. CASE UNCHANGED iocVars
  BY <1>1 DEF IocInv, iocVars, Now
<1>2. CASE SecondPasses
  <2>1. time' = time + 1 /\ time \in Nat /\ UNCHANGED <<whenChanged, whenDuplicate, lastChange, lastDuplicate>>
    BY <1>2 DEF SecondPasses, IocInv
  <2>2. ASSUME NEW t \in Nat, t <= time PROVE t <= time'
    BY <2>1, <2>2
  <2>3. time' \in Nat
    BY <2>1
  <2> QED BY <2>1, <2>2, <2>3 DEF IocInv, Now
<1>3. ASSUME NEW c \in Clients, Check(c) PROVE IocInv'
  <2>1. time' = time /\ time \in Nat /\ lastChange' = time /\ whenChanged' = Now(time)
    BY <1>3 DEF Check, IocInv
  <2>2. CASE time - lastChange < ChangeTime
    <3>1. lastDuplicate' = time
      BY <1>3, <2>2 DEF Check
    <3>2. ASSUME Now(time) >= ChangeTime PROVE whenDuplicate' = Now(time)
      <4>1. Since(whenChanged) < ChangeTime
        BY <2>2, <3>2, FindsDuplicate
      <4> QED BY <1>3, <4>1 DEF Check
    <3> QED BY <2>1, <3>1, <3>2 DEF IocInv, Now
  <2>3. CASE ~(time - lastChange < ChangeTime)
    <3>1. lastDuplicate' = lastDuplicate
      BY <1>3, <2>3 DEF Check
    <3>2. whenDuplicate' = Now(time) \/ whenDuplicate' = whenDuplicate
      BY <1>3 DEF Check
    <3> QED BY <2>1, <3>1, <3>2 DEF IocInv, Now
  <2> QED BY <2>2, <2>3
<1> QED BY <1>1, <1>2, <1>3 DEF IocNext, CheckSame

LEMMA IocStart ==
  ASSUME TimesOfTheCode, IocInit
  PROVE  IocInv
BY DEF TimesOfTheCode, IocInit, IocInv

\* When the invariant holds, so does what the check promises.
LEMMA Reports ==
  ASSUME TimesOfTheCode, IocInv
  PROVE  DuplicateIsReported
<1> SUFFICES ASSUME ReallyDuplicate, lastDuplicate >= RoundStart + ChangeTime
             PROVE  Reported
  BY DEF DuplicateIsReported
<1>1. time \in Nat /\ ChangeTime \in Nat /\ ReportTime \in Nat
  BY DEF IocInv, TimesOfTheCode
<1>2. Now(time) \in Int
  BY <1>1, Rounds DEF Now, TimesOfTheCode
<1>3. lastDuplicate \in Nat /\ lastDuplicate <= time
  BY <1>1, NeverIs DEF IocInv, ReallyDuplicate
<1>4. time - lastDuplicate <= Now(time) /\ Now(time) - (time - lastDuplicate) >= ChangeTime
  BY <1>1, <1>2, <1>3 DEF RoundStart
<1>5. Now(lastDuplicate) >= ChangeTime
  BY <1>1, <1>3, <1>4, SecondsSince
<1>6. PICK t \in Nat : lastDuplicate <= t /\ t <= time /\ whenDuplicate = Now(t)
  BY <1>3, <1>5, NeverIs DEF IocInv
<1>7. time - t <= Now(time) /\ time - t < ReportTime
  BY <1>1, <1>2, <1>3, <1>4, <1>6 DEF ReallyDuplicate
<1>8. (Now(time) - Now(t)) % WordModulus = time - t
  BY <1>1, <1>6, <1>7, SecondsSince
<1> QED BY <1>6, <1>7, <1>8 DEF Reported, Since

(* Two senders that alternate are reported (sysmonFetch of epics.c), for   *)
(* as long as the seconds since boot have not begun again: every change    *)
(* between them that comes too soon after the one before is found, and     *)
(* stays reported for its time, until the seconds begin again.             *)
THEOREM DuplicatesAreReported ==
  ASSUME TimesOfTheCode
  PROVE  IocSpec => []DuplicateIsReported
<1>1. IocInit => IocInv
  BY IocStart
<1>2. IocInv /\ [IocNext]_iocVars => IocInv'
  BY IocStep
<1>3. IocInv => DuplicateIsReported
  BY Reports
<1> QED BY <1>1, <1>2, <1>3, PTL DEF IocSpec

LEMMA FirstRoundStep ==
  ASSUME TimesOfTheCode, BootTime >= ChangeTime, IocInv, FirstRoundInv, [IocNext]_iocVars
  PROVE  FirstRoundInv'
<1>1. time \in Nat /\ ChangeTime \in Nat /\ SecondsWrap \in Nat /\ BootTime \in Nat
  BY DEF IocInv, TimesOfTheCode
<1>2. CASE UNCHANGED iocVars
  BY <1>2 DEF FirstRoundInv, iocVars
<1>3. CASE SecondPasses
  BY <1>1, <1>3 DEF FirstRoundInv, SecondPasses
<1>4. ASSUME NEW c \in Clients, Check(c) PROVE FirstRoundInv'
  <2>1. time' = time
    BY <1>4 DEF Check
  <2> SUFFICES ASSUME time < SecondsWrap
               PROVE  whenDuplicate' = (IF lastDuplicate' = Never THEN 0 ELSE lastDuplicate')
    BY <2>1 DEF FirstRoundInv
  <2>2. Now(time) = time
    BY <1>1, FirstRound
  <2>3. (Since(whenChanged) < ChangeTime) <=> (time - lastChange < ChangeTime)
    <3>1. CASE lastChange = Never /\ whenChanged = 0
      <4>1. PICK z \in Nat : z = 0
        OBVIOUS
      <4>2. Now(z) = z
        BY <1>1, <4>1, FirstRound
      <4>3. (Now(time) - Now(z)) % WordModulus = time - z
        BY <1>1, <2>2, <4>1, SecondsSince
      <4>4. Since(whenChanged) = time
        BY <1>1, <3>1, <4>1, <4>2, <4>3 DEF Since
      <4>5. time >= ChangeTime
        BY <1>1 DEF FirstRoundInv
      <4> QED BY <1>1, <3>1, <4>4, <4>5, NeverIs DEF TimesOfTheCode
    <3>2. CASE lastChange \in Nat /\ lastChange <= time /\ whenChanged = Now(lastChange)
      <4>1. (Now(time) - Now(lastChange)) % WordModulus = time - lastChange
        BY <1>1, <2>2, <3>2, SecondsSince
      <4> QED BY <3>2, <4>1 DEF Since
    <3> QED BY <3>1, <3>2 DEF IocInv
  <2>4. CASE time - lastChange < ChangeTime
    <3>1. lastDuplicate' = time /\ whenDuplicate' = Now(time)
      BY <1>4, <2>3, <2>4 DEF Check
    <3> QED BY <1>1, <2>2, <3>1, NeverIs
  <2>5. CASE ~(time - lastChange < ChangeTime)
    <3>1. lastDuplicate' = lastDuplicate /\ whenDuplicate' = whenDuplicate
      BY <1>4, <2>3, <2>5 DEF Check
    <3> QED BY <3>1 DEF FirstRoundInv
  <2> QED BY <2>4, <2>5
<1> QED BY <1>2, <1>3, <1>4 DEF IocNext, CheckSame

LEMMA FirstReports ==
  ASSUME TimesOfTheCode, BootTime >= ReportTime, IocInv, FirstRoundInv
  PROVE  RealBeforeWrap
<1> SUFFICES ASSUME time < SecondsWrap, Reported
             PROVE  ReallyDuplicate
  BY DEF RealBeforeWrap, DuplicateIsReal
<1>1. time \in Nat /\ ReportTime \in Nat /\ BootTime \in Nat /\ SecondsWrap \in Nat
  BY DEF IocInv, TimesOfTheCode
<1>2. Now(time) = time
  BY <1>1, FirstRound
<1>3. CASE lastDuplicate = Never
  <2>1. PICK z \in Nat : z = 0
    OBVIOUS
  <2>2. Now(z) = z
    BY <1>1, <2>1, FirstRound
  <2>3. (Now(time) - Now(z)) % WordModulus = time - z
    BY <1>1, <1>2, <2>1, SecondsSince
  <2>4. whenDuplicate = 0
    BY <1>3 DEF FirstRoundInv
  <2>5. Since(whenDuplicate) = time
    BY <1>1, <2>1, <2>2, <2>3, <2>4 DEF Since
  <2> QED BY <1>1, <2>5 DEF Reported, FirstRoundInv
<1>4. CASE lastDuplicate # Never
  <2>1. lastDuplicate \in Nat /\ lastDuplicate <= time /\ whenDuplicate = lastDuplicate
    BY <1>4 DEF IocInv, FirstRoundInv
  <2>2. Now(lastDuplicate) = lastDuplicate
    BY <1>1, <2>1, FirstRound
  <2>3. (Now(time) - Now(lastDuplicate)) % WordModulus = time - lastDuplicate
    BY <1>1, <1>2, <2>1, SecondsSince
  <2> QED BY <2>1, <2>2, <2>3 DEF Reported, ReallyDuplicate, Since
<1> QED BY <1>3, <1>4

(* Nothing but senders that alternate is reported before the seconds since *)
(* boot begin again, when the network is up later than the two times of    *)
(* the check: sooner, the check reports that no sender changed at boot.    *)
THEOREM ReportsAreRealBeforeWrap ==
  ASSUME TimesOfTheCode, BootTime >= ChangeTime, BootTime >= ReportTime
  PROVE  IocSpec => []RealBeforeWrap
<1>1. IocInit => IocInv /\ FirstRoundInv
  <2>1. IocInit => FirstRoundInv
    BY DEF TimesOfTheCode, IocInit, FirstRoundInv
  <2> QED BY <2>1, IocStart
<1>2. IocInv /\ FirstRoundInv /\ [IocNext]_iocVars => (IocInv /\ FirstRoundInv)'
  BY IocStep, FirstRoundStep
<1>3. IocInv /\ FirstRoundInv => RealBeforeWrap
  BY FirstReports
<1> QED BY <1>1, <1>2, <1>3, PTL DEF IocSpec
=============================================================================
