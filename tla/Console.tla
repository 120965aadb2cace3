------------------------------ MODULE Console ------------------------------
(***************************************************************************)
(* The command interpreter, console.c (src/software/src), on the serial    *)
(* line and over UDP, and what its commands change.  consoleCheck takes    *)
(* one character in a call; what it means depends on the mode.  Characters *)
(* are words and the newline; both inputs share one line.  A datagram that *)
(* comes while another is being read is dropped.                           *)
(***************************************************************************)
EXTENDS Parameters

CONSTANTS
    Clients,        \* UDP ports of consoles; 0 is the serial line
    Words,          \* [cmd, arg], what an operator types
    LineSize,       \* words a line holds
    StartSize,      \* STARTBUF_SIZE: pieces of output kept from startup
    UdpSize,        \* UDP_CONSOLE_BUF_SIZE: pieces of output in a datagram
    LogSize,        \* bound: entries of the event log
    MaxInput        \* bound: pieces of input

VARIABLES
    mode,           \* consoleMode
    line, port,     \* the line so far; fromPort
    datagram,       \* pbufIn, what is left of it
    out,            \* udpConsole.outIndex
    isStartup, started, replayed,   \* startBuf: length, and the part replayed
    asked,          \* what a question is about: ipv4 and macBuf
    shown,          \* what the last question showed
    tlog,           \* event logger: active, and rAddr
    typed           \* pieces of input so far

consoleVars == <<mode, line, port, datagram, out, isStartup, started, replayed,
                 asked, shown, tlog, typed>>
systemVars == <<parameterVars, consoleVars>>

NoArg == 98
NL == [cmd |-> "newline", arg |-> NoArg]
NoDatagram == <<>>
Queries == {"ipv4", "mac", "boot"}

ConsoleStart ==
    /\ mode' = "command" /\ line' = <<>> /\ port' = 0 /\ datagram' = NoDatagram
    /\ out' = 0 /\ isStartup' = TRUE /\ started' = 1 /\ replayed' = 0
    /\ asked' = [ipv4 |-> 0, mac |-> 0] /\ shown' = {}
    /\ tlog' = [active |-> FALSE, read |-> 0]
ConsoleInit ==
    /\ ParametersInit
    /\ mode = "command" /\ line = <<>> /\ port = 0 /\ datagram = NoDatagram
    /\ out = 0 /\ isStartup = TRUE /\ started \in 1..StartSize /\ replayed = 0
    /\ asked = [ipv4 |-> 0, mac |-> 0] /\ shown = {}
    /\ tlog = [active |-> FALSE, read |-> 0] /\ typed = 0

\* outbyte: the startup buffer, and the datagram for the UDP console, which
\* is sent when it is full.
Output(to, starting) ==
    /\ started' = IF starting /\ started < StartSize THEN started + 1 ELSE started
    /\ out' = IF to # 0 THEN (out + 1) % UdpSize ELSE out

----------------------------------------------------------------------------
\* netQueryCallback and macQueryCallback without an answer: show the value,
\* and ask when it is not the stored one or the question is open.
Ask(kind, value) ==
    /\ shown' = {value}
    /\ asked' = [asked EXCEPT ![kind] = value]
    /\ mode' = IF mode # "command" \/ value # parameters[kind] THEN kind ELSE mode
    /\ UNCHANGED parameterVars

StoreParameters(p) == parameters' = p /\ Fetch(p)
Kept == UNCHANGED <<candidate, checksum, visited, inUse, board, restarts, uploads>>

\* netQueryCallback, macQueryCallback: the answer to the question.
AnswerMutant(kind, word) ==
    /\ mode = kind
    /\ \/ /\ StoreParameters([parameters EXCEPT ![kind] = asked[kind]])
          /\ mode' = "command" /\ Kept /\ UNCHANGED <<asked, shown, offset>>
       \/ Ask(kind, asked[kind])
Answer(kind, word) ==
    /\ mode = kind
    /\ \/ /\ word.cmd = "y"
          /\ StoreParameters([parameters EXCEPT ![kind] = asked[kind]])
          /\ mode' = "command" /\ Kept /\ UNCHANGED <<asked, shown, offset>>
       \/ /\ word.cmd = "n" /\ mode' = "command"
          /\ UNCHANGED <<parameterVars, asked, shown>>
       \/ word.cmd \notin {"y", "n"} /\ Ask(kind, asked[kind])

\* cmdNET, cmdMAC: without an argument the value in use.  An argument that
\* does not parse may have changed the copy, which is not asked about then.
ChangeNetwork(kind, word) ==
    /\ mode = "command" /\ word.cmd = kind
    /\ \/ word.arg = NoArg /\ Ask(kind, inUse[kind])
       \/ word.arg \notin {NoArg, Invalid} /\ Ask(kind, word.arg)
       \/ /\ word.arg = Invalid /\ \E v \in {asked[kind], 9} :
                 asked' = [asked EXCEPT ![kind] = v]
          /\ UNCHANGED <<parameterVars, mode, shown>>

\* cmdUMGT: the clock is given the offset stored so far, then the new one is
\* stored, unless it does not parse or the clock refuses.
ChangeOffset(word) ==
    /\ mode = "command" /\ word.cmd = "offset"
    /\ \/ /\ offset' = parameters["offset"]
          /\ word.arg \notin {NoArg, Invalid}
          /\ StoreParameters([parameters EXCEPT !["offset"] = word.arg])
       \/ UNCHANGED <<parameters, offset, card, toWrite, kept>>
    /\ Kept /\ UNCHANGED <<mode, asked, shown>>

\* cmdDEBUG with -s: flags that do not parse stay as they are.
ChangeFlags(word) ==
    /\ mode = "command" /\ word.cmd = "flags"
    /\ StoreParameters([parameters EXCEPT !["flags"] =
                            IF word.arg \in {NoArg, Invalid} THEN @ ELSE word.arg])
    /\ Kept /\ UNCHANGED <<mode, asked, shown, offset>>

\* cmdLOG, cmdBOOT and bootQueryCallback, the commands that only show, and
\* what is not a command; a line without words.
Others(word) ==
    /\ \/ mode = "command" /\ word.cmd \in {"log", "boot"} /\ mode' = word.cmd
       \/ mode = "command" /\ word.cmd \in {"tlog", "y", "n", "newline"} /\ mode' = mode
       \/ mode = "boot" /\ word.cmd # "y"
          /\ mode' = IF word.cmd = "n" THEN "command" ELSE mode
    /\ UNCHANGED <<parameterVars, asked, shown>>

\* handleLine and commandCallback: one word in an answer, arguments else.
HandleLine(words) ==
    LET word == IF words = <<>> THEN NL
                ELSE IF Len(words) = 1 THEN Head(words)
                ELSE IF mode \in Queries THEN NL
                ELSE [Head(words) EXCEPT !.arg =
                          IF Head(words).cmd \in {"ipv4", "mac"} THEN Invalid ELSE @]
    IN  /\ \/ \E kind \in {"ipv4", "mac"} : Answer(kind, word) \/ ChangeNetwork(kind, word)
           \/ ChangeOffset(word) \/ ChangeFlags(word) \/ Others(word)
        /\ tlog' = [tlog EXCEPT !.active = word.cmd = "tlog" /\ mode = "command",
                                !.read = IF word.cmd = "tlog" /\ mode = "command"
                                         THEN 0 ELSE @]

\* consoleCheck with a character: a newline ends the startup output before it
\* is echoed; the event log stops.
Take(c, from) ==
    /\ port' = from
    /\ isStartup' = (isStartup /\ c # NL) /\ Output(from, isStartup')
    /\ IF c = NL
       THEN line' = <<>> /\ HandleLine(line)
       ELSE /\ line' = IF Len(line) < LineSize THEN Append(line, c) ELSE line
            /\ tlog' = [tlog EXCEPT !.active = FALSE]
            /\ UNCHANGED <<parameterVars, mode, asked, shown>>
    /\ UNCHANGED replayed

\* The main loop is not in the middle of a write, and the log is not being
\* replayed: a reboot that was confirmed is Reboot.
Free == toWrite = NoFile /\ mode # "log"
Confirmed(c) == mode = "boot" /\ c = NL /\ line = <<[cmd |-> "y", arg |-> NoArg]>>

\* consoleCheck: the serial line is looked at first.
Serial(c) ==
    /\ Free /\ ~Confirmed(c) /\ typed < MaxInput /\ typed' = typed + 1
    /\ Take(c, 0) /\ UNCHANGED datagram

Udp ==
    /\ Free /\ datagram # NoDatagram /\ ~Confirmed(Head(datagram))
    /\ Take(Head(datagram), port) /\ datagram' = Tail(datagram)
    /\ UNCHANGED typed

\* console_callback: the sender is answered from now on.
Datagram(words, from) ==
    /\ toWrite = NoFile /\ typed < MaxInput /\ typed' = typed + 1
    /\ IF datagram = NoDatagram THEN datagram' = words /\ port' = from
       ELSE UNCHANGED <<datagram, port>>
    /\ UNCHANGED <<parameterVars, mode, line, out, isStartup, started, replayed,
                   asked, shown, tlog>>

\* udpConsoleDrain after 100 ms.
Drain ==
    /\ out # 0 /\ toWrite = NoFile /\ out' = 0
    /\ UNCHANGED <<parameterVars, mode, line, port, datagram, isStartup, started,
                   replayed, asked, shown, tlog, typed>>

\* cmdLOGactive: a piece of the startup output, until all was replayed.
Replay ==
    /\ mode = "log" /\ toWrite = NoFile
    /\ IF replayed < started
       THEN replayed' = replayed + 1 /\ Output(port, isStartup) /\ mode' = mode
       ELSE replayed' = 0 /\ mode' = "command" /\ UNCHANGED <<started, out>>
    /\ UNCHANGED <<parameterVars, line, port, datagram, isStartup, asked, shown,
                   tlog, typed>>

\* cmdTLOG without input: print the entries up to the write address, which
\* has moved on, unless that is unstable or there are too many.
PollLog ==
    /\ Free /\ tlog.active /\ datagram = NoDatagram
    /\ \/ \E n \in 0..(LogSize - 1) :
              tlog' = [active |-> n < LogSize - 1, read |-> (tlog.read + n) % LogSize]
       \/ tlog' = [tlog EXCEPT !.active = FALSE]
    /\ Output(port, isStartup)
    /\ UNCHANGED <<parameterVars, mode, line, port, datagram, isStartup, replayed,
                   asked, shown, typed>>

\* resetFPGA, confirmed at the console or for another reason.
Reboot == Restart /\ ConsoleStart /\ typed' = typed
WriteEnds == Written /\ UNCHANGED consoleVars
Uploads ==
    /\ \E file \in Files : Upload(file) \/ Abandoned(file)
    /\ UNCHANGED consoleVars

Software == WriteEnds \/ Udp \/ Drain \/ Replay \/ PollLog
ConsoleNext ==
    \/ Software \/ Reboot \/ Uploads
    \/ \E w \in Words \cup {NL} : Serial(w)
    \/ \E w \in Words, c \in Clients : Datagram(<<w, NL>>, c)

ConsoleSpec == ConsoleInit /\ [][ConsoleNext]_systemVars

----------------------------------------------------------------------------
\* The stored address or MAC changes at the console only after the new value
\* was shown and the question about it was open (netQueryCallback,
\* macQueryCallback); lines from both inputs go to the same question.
ShownBeforeStored ==
    [][\A kind \in {"ipv4", "mac"} :
           parameters'[kind] # parameters[kind] /\ <<restarts, uploads>>' = <<restarts, uploads>>
           => mode = kind /\ shown = {parameters'[kind]}
              /\ Len(line) = 1 /\ Head(line).cmd = "y"]_systemVars

\* What the console shows as the user MGT reference clock offset is what the
\* clock was told ("User MGT reference clock offset", cmdUMGT).
OffsetShownIsInForce ==
    [][parameters'["offset"] # parameters["offset"]
           /\ <<restarts, uploads>>' = <<restarts, uploads>>
       => offset' = parameters'["offset"]]_systemVars
=============================================================================
