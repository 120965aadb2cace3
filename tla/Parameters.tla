----------------------------- MODULE Parameters -----------------------------
(***************************************************************************)
(* The system parameters: systemParameters.c, user_mgt_refclk.c and the    *)
(* startup of main.c (src/software/src).  A file on the card has a line    *)
(* for each parameter.  It is read into a candidate, line by line, and     *)
(* committed when its checksum fits; what changes at run time is written   *)
(* back as a whole file.  A write opens the file, which empties it, and    *)
(* may be interrupted by a restart.  An uploaded file is written to the    *)
(* card by the TFTP server before it is read.                              *)
(***************************************************************************)
EXTENDS Naturals, Sequences, SequencesExt

CONSTANTS
    Files,          \* files an operator uploads
    Boards,         \* [board]: MAC address of the board's EEPROM, or
                    \* Invalid, and whether the recovery switch is pressed
    BlockLines,     \* lines in the first block of an upload
    MaxRestarts, MaxUploads

ASSUME ParametersAssumption ==
    /\ \A file \in Files : file \in Seq([name : STRING, value : Nat])
    /\ BlockLines \in Nat

VARIABLES
    parameters,     \* systemParameters
    candidate, checksum,   \* systemParametersCandidate and its checksum
    visited,        \* lines of conv[] a file has had since the restart
    card,           \* sysParms.csv
    inUse,          \* currentNetConfig
    offset,         \* offset the MGT reference clock was given
    board,          \* one of Boards
    toWrite,        \* table systemParametersFetchEEPROM is writing, or NoFile
    kept,           \* parameters written whole, nothing uploaded since
    restarts, uploads

parameterVars == <<parameters, candidate, checksum, visited, card, inUse,
                   offset, board, toWrite, kept, restarts, uploads>>

\* The lines of conv[]: the network and the others are told apart.
Names == <<"mac", "ipv4", "offset", "flags", "rotation">>
Fields == ToSet(Names)

Invalid == 99       \* no value of a parameter
NoSum == <<>>
NoFile == <<"none">>

\* systemParametersSetDefaults, netDefault.
Default == [f \in Fields |-> IF f = "rotation" THEN 45 ELSE 0]

\* A file is a sequence of lines; a value that does not parse is Invalid.
\* systemParametersGetTable: every line, in the order of conv[].
Table(p) == [i \in 1..Len(Names) |-> [name |-> Names[i], value |-> p[Names[i]]]]

\* parseTable: lines set their parameter in the candidate, until one is refused
\* whose value does not parse or whose name matches two: its value is Invalid.
\* An unknown name is skipped, and of two lines for a parameter the last counts.
Read(file) == {i \in 1..Len(file) : \A j \in 1..i : file[j].value # Invalid}
Setting(file, f) == {i \in Read(file) : file[i].name = f}
Parsed(file, to, seen) ==
    [to   |-> [f \in Fields |-> IF Setting(file, f) = {} THEN to[f]
                                ELSE file[Max(Setting(file, f))].value],
     seen |-> seen \cup {f \in Fields : Setting(file, f) # {}},
     bad  |-> Read(file) # 1..Len(file)]
Missing(s) == s.seen # Fields

\* What a file says when it is read from scratch.
Meaning(file) ==
    LET s == Parsed(file, Default, {})
        p == [s.to EXCEPT !["rotation"] = IF @ = 90 THEN 0 ELSE @]
    IN  IF s.bad \/ Missing(s) \/ p["rotation"] \notin {0, 45} THEN Default ELSE p

\* systemParametersStashEEPROM and SetTable: the candidate, its checksum and
\* the lines seen afterwards, and whether the file was good.
StashedMutant(file, c, sum, seen) ==
    LET s == Parsed(file, c, seen)
    IN  [to |-> s.to, sum |-> s.to, seen |-> s.seen,
         good |-> ~s.bad /\ ~Missing(s)]
Stashed(file, c, sum, seen) ==
    LET s == Parsed(file, c, seen)
        p == [s.to EXCEPT !["rotation"] = IF @ = 90 THEN 0 ELSE @]
        read == ~s.bad /\ ~Missing(s)
        good == read /\ p["rotation"] \in {0, 45}
    IN  IF file = <<>> THEN [to |-> c, sum |-> sum, seen |-> seen, good |-> FALSE]
        ELSE [to |-> IF read THEN p ELSE s.to, sum |-> IF good THEN p ELSE sum,
              seen |-> s.seen, good |-> good]

\* systemParametersCommit: the candidate as it is committed.
Committed(c, sum) == IF sum = c THEN c ELSE Default

\* userMGTrefClkAdjust fails when its I2C writes do.
Adjusted(o) == {o, offset}

\* systemParametersFetchEEPROM of parameters p: opening the file empties it,
\* or fails, which no caller looks at.
FetchMutant(p) ==
    \/ card' = <<>> /\ toWrite' = Table(parameters) /\ kept' = {}
    \/ UNCHANGED <<card, toWrite, kept>>
Fetch(p) ==
    \/ card' = <<>> /\ toWrite' = Table(p) /\ kept' = {}
    \/ UNCHANGED <<card, toWrite, kept>>

\* Its f_write and f_close, or a failure of theirs.
Written ==
    /\ toWrite # NoFile /\ toWrite' = NoFile
    /\ \/ card' = toWrite /\ kept' = {parameters}
       \/ UNCHANGED <<card, kept>>
    /\ UNCHANGED <<parameters, candidate, checksum, visited, inUse, offset,
                   board, restarts, uploads>>

----------------------------------------------------------------------------
\* setDefaultNetAddress.
NetworkAtStart(p) ==
    IF board.recovery THEN [mac |-> Default["mac"], ipv4 |-> Default["ipv4"]]
    ELSE [mac |-> IF board.eeprom = Invalid THEN p["mac"] ELSE board.eeprom,
          ipv4 |-> p["ipv4"]]

\* main, filesystemReadbacks: the candidate is a new one; it is committed
\* whether the file was read or not.
Started(file) ==
    LET s == Stashed(file, [f \in Fields |-> 0], NoSum, {})
        p == Committed(s.to, s.sum)
    IN  /\ parameters' = p /\ candidate' = p
        /\ checksum' = IF s.sum = s.to THEN s.sum ELSE NoSum
        /\ visited' = s.seen
        /\ offset' \in {p["offset"], 0}
        /\ inUse' = NetworkAtStart(p)

ParametersInit ==
    /\ parameters = Default /\ candidate = Default /\ checksum = NoSum
    /\ visited = {} /\ card = <<>> /\ offset = 0
    /\ board \in Boards
    /\ inUse = NetworkAtStart(Default)
    /\ toWrite = NoFile /\ kept = {} /\ restarts = 0 /\ uploads = 0

\* The FPGA is reset, perhaps before the file being written was closed.
Restart ==
    /\ restarts < MaxRestarts /\ restarts' = restarts + 1
    /\ Started(card) /\ toWrite' = NoFile
    /\ UNCHANGED <<card, board, kept, uploads>>

\* An upload that is given up leaves the blocks that came.
Abandoned(file) ==
    /\ uploads < MaxUploads /\ uploads' = uploads + 1 /\ toWrite = NoFile
    /\ \E n \in {0, BlockLines} : card' = SubSeq(file, 1, n)
    /\ kept' = {}
    /\ UNCHANGED <<parameters, candidate, checksum, visited, inUse, offset,
                   board, toWrite, restarts>>

\* A file was uploaded: the card has it, and it is committed when it is good.
Upload(file) ==
    /\ uploads < MaxUploads /\ uploads' = uploads + 1 /\ toWrite = NoFile
    /\ card' = file /\ kept' = {}
    /\ LET s == Stashed(file, candidate, checksum, visited)
           p == Committed(s.to, s.sum)
       IN  /\ visited' = s.seen
           /\ IF s.good
              THEN parameters' = p /\ candidate' = p /\ checksum' = s.sum
                   /\ offset' \in Adjusted(p["offset"])
              ELSE candidate' = s.to /\ checksum' = s.sum
                   /\ UNCHANGED <<parameters, offset>>
    /\ UNCHANGED <<inUse, board, toWrite, restarts>>

----------------------------------------------------------------------------
\* A restart or an upload puts in force exactly what the file on the card
\* says, or the defaults, whatever was read, refused or half parsed before
\* (checksum, systemParametersCommit).  A file with lines missing is left out:
\* the lines seen are never forgotten, see the README.
Lines(file) == {file[i].name : i \in 1..Len(file)}
FilesAreTakenWhole ==
    [][\/ restarts' # restarts
       \/ uploads' # uploads /\ parameters' # parameters /\ Fields \subseteq Lines(card')
       => parameters' \in {Default, Meaning(card')}]_parameterVars

\* What was written back whole is what the next restart puts in force
\* (systemParametersFetchEEPROM and StashEEPROM), network and clock included.
StoredSurvives ==
    [][restarts' # restarts /\ kept # {}
       => /\ kept = {parameters'}
          /\ ~board.recovery => inUse'.ipv4 = parameters'["ipv4"]]_parameterVars

=============================================================================
