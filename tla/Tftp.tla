-------------------------------- MODULE Tftp --------------------------------
(***************************************************************************)
(* The TFTP server of the DSBPM, tftp.c, serving one table file that       *)
(* shadows an EEPROM: tftp_recv_callback with its static session state,    *)
(* sendBlock with its static buffer, the network, and an RFC 1350 client   *)
(* as the server's replies assume it.                                      *)
(*                                                                         *)
(* A file is a sequence of chunks <<session, index>>, one per block; all   *)
(* but the last fill a block.  Datagrams may be lost and reordered, and    *)
(* duplicated when Duplicating.                                            *)
(***************************************************************************)
EXTENDS Integers, Sequences, FiniteSets

CONSTANT Settings   \* the files, networks and bounds to choose from, see below

\* A file has a block and a session can take all of it; block numbers tell the
\* blocks of a file from one another, or the network neither loses nor repeats.
ASSUME SettingsAssumption ==
  \A s \in Settings :
    /\ s.blocks \in Nat \ {0} /\ s.blockModulus \in Nat \ {0, 1}
    /\ s.ops \subseteq {"put", "get", "unknown"}
    /\ s.fetches \in Nat /\ s.blocks <= s.fetches
    /\ s.blocks < s.blockModulus \/ (s.lossless /\ ~s.duplicating)

VARIABLES
  fileIndex,     \* "none" (-1) or "table"
  fp,            \* "closed" (NULL), "reading" or "writing"
  lastBlock,
  lastSend,      \* "full" when the last block sent had 512 bytes, else "less"
  cbuf,          \* the chunk in sendBlock's static buffer
  disk,          \* the chunks of the file on the card
  position,      \* chunks read through fp
  stashed,       \* the chunks kept in the EEPROM and committed
  toServer, toClient,
  client, sessions,
  setting        \* what the behaviour takes place in, chosen once

serverVars == <<fileIndex, fp, lastBlock, lastSend, cbuf, disk, position, stashed>>
moving == <<serverVars, toServer, toClient, client, sessions>>
vars == <<moving, setting>>

Blocks       == setting.blocks       \* blocks of a file
BlockModulus == setting.blockModulus \* block numbers are modulo this (2^16)
Ops          == setting.ops          \* what the client starts: put, get, unknown
Duplicating  == setting.duplicating  \* a datagram may arrive more than once
Lossless     == setting.lossless     \* none is lost, no time-out is too early
Failures     == setting.failures     \* accesses and allocations may fail
Overlapping  == setting.overlapping  \* sessions start with old datagrams in flight
NetCapacity  == setting.inFlight     \* bound: datagrams in flight one way
MaxSessions  == setting.sessions     \* bound: sessions of the client
FetchLimit   == setting.fetches      \* bound: blocks a client takes in a session

\* The variants named ...Mutant here and below are faults the properties must
\* catch; nothing else uses them.

FileOf(s) == [i \in 1..Blocks |-> <<s, i>>]
Nothing == <<0, 0>>               \* what a read past the end gives
IsShort(chunk) == chunk[2] \in {0, Blocks}

SuccMutant(block) == block + 1
Succ(block) == (block + 1) % BlockModulus

-----------------------------------------------------------------------------
(* The network.                                                            *)

\* What may be in flight after the datagrams ms have been sent.
Sent(net, ms) ==
  IF Lossless THEN {net \cup ms}
  ELSE {net \cup some : some \in {x \in SUBSET ms :
                                    Cardinality(net \cup x) <= NetCapacity}}

\* What may be in flight after m has been received.
Left(net, m) == {net \ {m}} \cup (IF Duplicating THEN {net} ELSE {})

ERR == [type |-> "ERROR"]
ACK(block) == [type |-> "ACK", block |-> block]
DATA(block, chunk) == [type |-> "DATA", block |-> block, chunk |-> chunk]
Request(type, name) == [type |-> type, name |-> name]

\* How an access that may fail turns out.
Outcomes == IF Failures THEN {"ok", "failed"} ELSE {"ok"}

-----------------------------------------------------------------------------
(* The server.                                                             *)

\* sendBlock() of the chunk after the first "at" of a file: an error is
\* reported instead, and without a pbuf nothing is sent at all.
SendNext(block, file, at) ==
  \E read, alloc \in Outcomes :
    LET chunk == IF at < Len(file) THEN file[at + 1] ELSE Nothing
    IN  IF read = "failed" \/ fp' # "reading"
        THEN /\ toClient' \in Sent(toClient, {ERR})
             /\ lastSend' = "less" /\ position' = at
             /\ UNCHANGED cbuf
        ELSE /\ cbuf' = chunk /\ position' = at + 1
             /\ lastSend' = IF alloc = "ok" /\ ~IsShort(chunk) THEN "full" ELSE "less"
             /\ toClient' \in Sent(toClient,
                                IF alloc = "ok" THEN {DATA(block, chunk)} ELSE {})

\* sendBlock() of the block before, from its buffer.
SendAgain(block) ==
  \E alloc \in Outcomes :
    /\ lastSend' = IF alloc = "ok" /\ ~IsShort(cbuf) THEN "full" ELSE "less"
    /\ toClient' \in Sent(toClient,
                       IF alloc = "ok" THEN {DATA(block, cbuf)} ELSE {})
    /\ UNCHANGED <<cbuf, position>>

\* A read or write request that names no file of the table.
RefuseRequest(m) ==
  /\ m.name = "unknown"
  /\ lastBlock' = 0 /\ fileIndex' = "none"
  /\ toClient' \in Sent(toClient, {ERR})
  /\ UNCHANGED <<fp, lastSend, cbuf, disk, position, stashed>>

\* A read request: preTransmit writes the file from the EEPROM; a failure
\* there leaves the file of the session before open.
ReadRequest(m) ==
  /\ m.type = "RRQ" /\ m.name = "table"
  /\ fileIndex' = "table"
  /\ UNCHANGED stashed
  /\ \E fetch, open \in Outcomes :
       \/ /\ fetch = "failed"
          /\ lastBlock' = 0
          /\ toClient' \in Sent(toClient, {ERR})
          /\ UNCHANGED <<fp, lastSend, cbuf, disk, position>>
       \/ /\ fetch = "ok" /\ open = "failed"
          /\ lastBlock' = 0 /\ fp' = "closed" /\ disk' = stashed
          /\ toClient' \in Sent(toClient, {ERR})
          /\ UNCHANGED <<lastSend, cbuf, position>>
       \/ /\ fetch = "ok" /\ open = "ok"
          /\ lastBlock' = 1 /\ fp' = "reading" /\ disk' = stashed
          /\ SendNext(1, stashed, 0)

\* A write request: the file is created, or emptied.
WriteRequest(m) ==
  /\ m.type = "WRQ" /\ m.name = "table"
  /\ fileIndex' = "table" /\ lastBlock' = 0
  /\ \E open \in Outcomes :
       /\ fp' = IF open = "ok" THEN "writing" ELSE "closed"
       /\ disk' = IF open = "ok" THEN <<>> ELSE disk
       /\ toClient' \in Sent(toClient, {IF open = "ok" THEN ACK(0) ELSE ERR})
  /\ UNCHANGED <<lastSend, cbuf, position, stashed>>

\* The block acknowledged last comes again.
RepeatedMutant(m) == m.block # Succ(lastBlock)
Repeated(m) == m.block = lastBlock

RepeatData(m) ==
  /\ m.type = "DATA" /\ fileIndex = "table" /\ Repeated(m)
  /\ toClient' \in Sent(toClient, {ACK(m.block)})
  /\ UNCHANGED serverVars

\* The next block is the one expected.
Expected(m) == m.block = Succ(lastBlock)

\* The replies to a block that was written, closed and stashed so: errors
\* of the stash are reported and the block is acknowledged all the same.
Replies(m, write, close, stash) ==
  (IF "failed" \in {write, close, stash} THEN {ERR} ELSE {})
    \cup (IF "failed" \in {write, close} THEN {} ELSE {ACK(m.block)})

\* A block in turn: it counts as received even if it cannot be written.
\* The last, short, one closes the file, which is stashed and committed
\* whatever became of the writes.
NextData(m) ==
  /\ m.type = "DATA" /\ fileIndex = "table" /\ Expected(m)
  /\ lastBlock' = m.block
  /\ \E write, close, stash \in Outcomes :
       LET last  == IsShort(m.chunk) /\ fp # "closed"
           wrote == IF fp = "writing" THEN write ELSE "failed"
       IN  /\ disk' = IF wrote = "ok" THEN Append(disk, m.chunk) ELSE disk
           /\ IF last
              THEN /\ fp' = "closed" /\ fileIndex' = "none"
                   /\ stashed' = IF stash = "ok" THEN disk' ELSE stashed
                   /\ toClient' \in Sent(toClient, Replies(m, wrote, close, stash))
              ELSE /\ UNCHANGED <<fp, fileIndex, stashed>>
                   /\ toClient' \in Sent(toClient, Replies(m, wrote, "ok", "ok"))
  /\ UNCHANGED <<lastSend, cbuf, position>>

\* The acknowledgement of the last block sent: send the next, or finish.
NextAck(m) ==
  /\ m.type = "ACK" /\ fileIndex = "table" /\ m.block = lastBlock
  /\ lastBlock' = Succ(lastBlock)
  /\ IF lastSend = "full"
     THEN fp' = fp /\ fileIndex' = "table" /\ SendNext(lastBlock', disk, position)
     ELSE /\ fp' = "closed" /\ fileIndex' = "none"
          /\ UNCHANGED <<lastSend, cbuf, position, toClient>>
  /\ UNCHANGED <<disk, stashed>>

\* Any other acknowledgement has the last block sent again.
OtherAck(m) ==
  /\ m.type = "ACK" /\ fileIndex = "table" /\ m.block # lastBlock
  /\ UNCHANGED <<fp, fileIndex, lastBlock, disk, stashed>>
  /\ SendAgain(lastBlock)

\* A block or an acknowledgement out of turn, or without a session.
Ignore(m) ==
  /\ \/ m.type \in {"DATA", "ACK"} /\ fileIndex = "none"
     \/ m.type = "DATA" /\ fileIndex = "table" /\ ~Repeated(m) /\ ~Expected(m)
  /\ UNCHANGED <<serverVars, toClient>>

\* tftp_recv_callback()
ServerReceive ==
  \E m \in toServer :
    /\ toServer' \in Left(toServer, m)
    /\ \/ /\ m.type \in {"RRQ", "WRQ"}
          /\ RefuseRequest(m) \/ ReadRequest(m) \/ WriteRequest(m)
       \/ RepeatData(m) \/ NextData(m)
       \/ NextAck(m) \/ OtherAck(m) \/ Ignore(m)
    /\ UNCHANGED <<client, sessions>>

-----------------------------------------------------------------------------
(* The client: one session at a time, stop and wait.  next is the block it *)
(* waits for an acknowledgement of (put) or for (get).                     *)

\* The datagram a client c repeats when nothing comes.
LastSent(c) ==
  IF c.op = "put"
  THEN IF c.next = 0 THEN Request("WRQ", "table")
       ELSE DATA(c.next % BlockModulus, FileOf(c.session)[c.next])
  ELSE IF c.next = 1 THEN Request("RRQ", "table")
       ELSE ACK((c.next - 1) % BlockModulus)

Quiet == toServer = {} /\ toClient = {}
Busy == client.op \in {"put", "get"}

Start(op) ==
  /\ ~Busy /\ sessions < MaxSessions
  /\ Overlapping \/ Quiet
  /\ sessions' = sessions + 1
  /\ client' = [op |-> IF op = "unknown" THEN "failed" ELSE op,
                session |-> sessions + 1,
                next |-> IF op = "get" THEN 1 ELSE 0, got |-> <<>>]
  /\ toServer' \in Sent(toServer, {IF op = "put" THEN Request("WRQ", "table")
                                   ELSE IF op = "get" THEN Request("RRQ", "table")
                                   ELSE Request("RRQ", "unknown")})
  /\ UNCHANGED <<serverVars, toClient>>

Resend ==
  /\ Busy /\ (Lossless => Quiet)
  /\ toServer' \in Sent(toServer, {LastSent(client)})
  /\ UNCHANGED <<serverVars, toClient, client, sessions>>

GiveUp ==
  /\ Busy /\ ~Lossless
  /\ client' = [client EXCEPT !.op = "failed"]
  /\ UNCHANGED <<serverVars, toServer, toClient, sessions>>

\* An acknowledgement of the block waited for brings the next one out.
ClientAck(m) ==
  /\ client.op = "put" /\ m.type = "ACK"
  /\ IF m.block # client.next % BlockModulus
     THEN UNCHANGED <<client, toServer>>
     ELSE IF client.next = Blocks
     THEN client' = [client EXCEPT !.op = "stored"] /\ UNCHANGED toServer
     ELSE /\ client' = [client EXCEPT !.next = @ + 1]
          /\ toServer' \in Sent(toServer, {LastSent(client')})

\* The block waited for is kept and acknowledged; the one before is
\* acknowledged again.
ClientData(m) ==
  /\ client.op = "get" /\ m.type = "DATA"
  /\ IF m.block = client.next % BlockModulus /\ client.next <= FetchLimit
     THEN /\ client' = [client EXCEPT !.next = @ + 1, !.got = Append(@, m.chunk),
                          !.op = IF IsShort(m.chunk) THEN "fetched" ELSE @]
          /\ toServer' \in Sent(toServer, {ACK(m.block)})
     ELSE /\ UNCHANGED client
          /\ IF client.next > 1 /\ m.block = (client.next - 1) % BlockModulus
             THEN toServer' \in Sent(toServer, {ACK(m.block)})
             ELSE UNCHANGED toServer

ClientIgnore(m) ==
  /\ ~(client.op = "put" /\ m.type = "ACK") /\ ~(client.op = "get" /\ m.type = "DATA")
  /\ client' = IF m.type = "ERROR" /\ Busy THEN [client EXCEPT !.op = "failed"] ELSE client
  /\ UNCHANGED toServer

ClientReceive ==
  \E m \in toClient :
    /\ toClient' \in Left(toClient, m)
    /\ ClientAck(m) \/ ClientData(m) \/ ClientIgnore(m)
    /\ UNCHANGED <<serverVars, sessions>>

-----------------------------------------------------------------------------
Init ==
  /\ setting \in Settings
  /\ fileIndex = "none" /\ fp = "closed" /\ lastBlock = 0 /\ lastSend = "less"
  /\ cbuf = Nothing /\ position = 0
  /\ disk = FileOf(0) /\ stashed = FileOf(0)
  /\ toServer = {} /\ toClient = {} /\ sessions = 0
  /\ client = [op |-> "idle", session |-> 0, next |-> 0, got |-> <<>>]

Step ==
  \/ ServerReceive
  \/ \E op \in Ops : Start(op)
  \/ Resend \/ GiveUp \/ ClientReceive

Next == Step /\ UNCHANGED setting

Spec == Init /\ [][Next]_vars

\* On a sound network datagrams in flight arrive, and a client that hears
\* nothing repeats.
Delivery ==
  /\ WF_moving(Lossless /\ ServerReceive)
  /\ WF_moving(Lossless /\ ClientReceive)
  /\ WF_moving(Lossless /\ Resend)

FairSpec == Spec /\ Delivery

-----------------------------------------------------------------------------
Chunk == (0..MaxSessions) \X (0..Blocks)

TypeOK ==
  /\ fileIndex \in {"none", "table"} /\ fp \in {"closed", "reading", "writing"}
  /\ lastBlock \in 0..(BlockModulus - 1) /\ lastSend \in {"full", "less"}
  /\ cbuf \in Chunk /\ disk \in Seq(Chunk) /\ stashed \in Seq(Chunk)
  /\ position \in Nat /\ sessions \in 0..MaxSessions
  /\ client.op \in {"idle", "put", "get", "stored", "fetched", "failed"}
  /\ client.session \in 0..sessions /\ client.next \in 0..(FetchLimit + 1)
  /\ client.got \in Seq(Chunk)

\* Nothing fails, and a session starts when the network is quiet.
Undisturbed == ~Failures /\ ~Overlapping

(* What is committed is a whole file of one session, each block once and   *)
(* in order, however datagrams are lost, repeated, duplicated and          *)
(* reordered, and wherever the client gives up and starts again.           *)
StashedIsWhole == Undisturbed => \E s \in 0..sessions : stashed = FileOf(s)

(* A client told that its last block arrived has had its file committed.   *)
StoredIsStashed == client.op = "stored" => stashed = FileOf(client.session)

(* The same where nothing fails: no late or repeated acknowledgement of an *)
(* earlier block or session has a client believe it.                       *)
SuccessIsReal == Undisturbed => StoredIsStashed

(* A file that was fetched is what the EEPROM holds, block by block,       *)
(* although a repeated acknowledgement makes the server send one again.    *)
FetchedIsStashed == Undisturbed /\ client.op = "fetched" => client.got = stashed

(* A session comes to an end when the network is sound, also for files so  *)
(* long that their block numbers wrap around.                              *)
SessionsEnd == (Lossless /\ Busy) ~> client.op \in {"stored", "fetched"}
=============================================================================
