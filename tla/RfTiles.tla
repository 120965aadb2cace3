------------------------------ MODULE RfTiles ------------------------------
(***************************************************************************)
(* Power states of the converter tiles of one kind (ADC or DAC) of the RF  *)
(* data converter, src/software/src/rfdc.c.  The sampling clock enters at  *)
(* tile Ref and is handed from tile to tile in both directions, tile 0     *)
(* carries the bandgap trim.  A command asks for one tile on or off; the   *)
(* software derives a target state for every tile, takes tiles down from   *)
(* the leaves to Ref, puts tile 0 into clock detection and brings tiles up *)
(* from Ref to the leaves, then synchronises the tiles that are up, for    *)
(* which it turns tile 0 fully on and afterwards back.  Every call of the  *)
(* Xilinx driver may fail, MaxFailures bounds how often.  The software is  *)
(* single-threaded: a command begins when the one before has returned.     *)
(***************************************************************************)
EXTENDS Integers, Sequences, SequencesExt

CONSTANTS N, Ref, MaxFailures

\* A clock source at tile 0 would be taken down to clock detection by the
\* last statement of rfDCTileTargetState; the board's are tiles 1 and 2.
ASSUME TilesAssumption == N \in Nat /\ Ref \in 1..(N - 1) /\ MaxFailures \in Nat

VARIABLES
    power,     \* power state machine of each tile
    pll,       \* tiles whose clock configuration is applied
    request,   \* adcTileRequest / dacTileRequest
    sysref,    \* 1 while the SYSREF capture is enabled
    tilePc, then,  \* what the call in progress does next, and after the tiles
    visit,     \* next visit of rfDCApplyTileStates
    target, before, saved, turnOn,  \* locals of the calls
    asked,     \* what was last asked for each tile
    failures, ok  \* failed driver calls, and whether the last command had none

tileVars == <<power, pll, request, sysref, tilePc, then, visit, target, before, saved,
          turnOn, asked, failures, ok>>

Tiles == 0..(N - 1)

\* XRFDC_STATE_*; Cal stands for the states a start-up passes after clock
\* detection.
Shutdown == 1
PwrUp == 3
ClkDet == 6
Cal == 13
Full == 15
States == {Shutdown, PwrUp, ClkDet, Cal, Full}
Unknown == -1

\* Tiles between t and the tile the clock enters at, t and Ref included.
Path(t) == IF t < Ref THEN t..Ref ELSE Ref..t

\* The variants named ...Mutant here and below are faults the properties must
\* catch; nothing else uses them.  Here the way of the clock is forgotten.
TargetStateMutant(req) ==
    [t \in Tiles |-> IF req[t] # 0 THEN Full
                     ELSE IF t \in {0, Ref} /\ \E u \in Tiles : req[u] # 0 THEN ClkDet
                     ELSE Shutdown]
\* rfDCTileTargetState: what each tile has to be for these requests.
TargetState(req) ==
    LET anyOn  == \E t \in Tiles : req[t] # 0
        on     == {t \in Tiles : req[t] # 0} \cup (IF anyOn THEN {0} ELSE {})
        needed(t) == \E u \in on : t \in Path(u)
        level(t) ==
            IF t \in on \/ (t = Ref /\ needed(t)) THEN Full
            ELSE IF needed(t) THEN ClkDet ELSE Shutdown
    IN  [t \in Tiles |-> IF t = 0 /\ anyOn /\ req[0] = 0 THEN ClkDet ELSE level(t)]

\* rfDCCopyTileRequest: a request nobody made yet is read off the tile.
Known == [t \in Tiles |-> IF request[t] # Unknown THEN request[t]
                          ELSE IF power[t] = Full THEN 1 ELSE 0]

\* The passes of rfDCApplyTileStates, in the order they visit the tiles.
Below == [i \in 1..Ref |-> i - 1]
Above == [i \in 1..(N - 1 - Ref) |-> N - i]
VisitsMutant ==
    LET pass(name, tiles) == [i \in DOMAIN tiles |-> [pass |-> name, tile |-> tiles[i]]]
    IN  pass("down", Below \o Above \o <<Ref>>) \o pass("up", Below \o Above \o <<Ref>>)
Visits ==
    LET pass(name, tiles) == [i \in DOMAIN tiles |-> [pass |-> name, tile |-> tiles[i]]]
    IN  pass("down", Below \o Above \o <<Ref>>) \o pass("zero", <<0>>)
        \o pass("up", <<Ref>> \o Reverse(Below) \o Reverse(Above))

Level(v) == IF v.pass = "zero" THEN ClkDet ELSE target[v.tile]

Needed(v) ==
    CASE v.pass = "down" -> target[v.tile] < power[v.tile]
      [] v.pass = "zero" -> target[0] > Shutdown /\ power[0] < ClkDet
      [] v.pass = "up"   -> target[v.tile] > power[v.tile]

\* rfDCinit: the bitstream starts every tile, no request is known, and main
\* synchronises the tiles first.
TilesInit ==
    /\ power = [t \in Tiles |-> Full] /\ pll = Tiles
    /\ request = [t \in Tiles |-> Unknown] /\ asked = request
    /\ sysref = 0 /\ tilePc = "resync" /\ then = "idle" /\ visit = 1
    /\ target = power /\ before = power
    /\ saved = [t \in Tiles |-> 0] /\ turnOn = 0
    /\ failures = 0 /\ ok = "yes"

----------------------------------------------------------------------------
\* A driver call fails and the command is given up.
TileCallFails ==
    /\ failures < MaxFailures
    /\ failures' = failures + 1 /\ ok' = "no" /\ tilePc' = "idle"

\* rfDCChangeTilePwrRaw: remember the requests and start on the tiles.
ChangeTilePwrRaw(req, next) ==
    /\ request' = req /\ target' = TargetState(req)
    /\ visit' = 1 /\ tilePc' = "apply" /\ then' = next

\* rfDCSetShutdownMode, up to rfDCApplyTileStates.
SetShutdownMode(t, on) ==
    /\ tilePc = "idle"
    /\ asked' = [asked EXCEPT ![t] = on]
    /\ before' = power /\ turnOn' = on /\ ok' = "yes"
    /\ ChangeTilePwrRaw([Known EXCEPT ![t] = on], "decide")
    /\ UNCHANGED <<power, pll, sysref, saved, failures>>

\* rfDCChangeTileState: a state can only be lowered by shutting the tile
\* down, which erases the configuration of its clock.
ChangeTileState(t, level) ==
    LET drops == level = Shutdown \/ (level = ClkDet /\ power[t] > ClkDet)
        low   == IF drops THEN Shutdown ELSE power[t]
        kept  == IF drops THEN pll \ {t} ELSE pll
        configured ==
            IF \/ level = ClkDet /\ low = Shutdown
               \/ level = Full /\ power[t] < PwrUp
            THEN kept \cup {t} ELSE kept
    IN  \/ /\ power' = [power EXCEPT ![t] = level] /\ pll' = configured
           /\ UNCHANGED <<tilePc, failures, ok>>
        \/ /\ TileCallFails
           /\ \/ UNCHANGED <<power, pll>>
              \/ /\ level # Shutdown
                 /\ power' = [power EXCEPT ![t] = low] /\ pll' = kept
              \/ \E s \in States :
                    /\ level # Shutdown /\ low <= s /\ s < level
                    /\ power' = [power EXCEPT ![t] = s] /\ pll' = configured

\* rfDCApplyTileStates: the next tile that is not as it has to be.
ApplyTileStates ==
    /\ tilePc = "apply"
    /\ \E i \in visit..Len(Visits) :
        /\ Needed(Visits[i]) /\ \A j \in visit..(i - 1) : ~Needed(Visits[j])
        /\ visit' = i + 1
        /\ ChangeTileState(Visits[i].tile, Level(Visits[i]))
    /\ UNCHANGED <<request, sysref, then, target, before, saved, turnOn, asked>>

Applied ==
    /\ tilePc = "apply" /\ \A i \in visit..Len(Visits) : ~Needed(Visits[i])
    /\ tilePc' = then
    /\ UNCHANGED <<power, pll, request, sysref, then, visit, target, before,
                   saved, turnOn, asked, failures, ok>>

\* rfDCsyncType up to the driver's synchronisation: tile 0 is asked on.
SyncType ==
    /\ saved' = Known
    /\ ChangeTilePwrRaw([Known EXCEPT ![0] = 1], "mts")

\* End of rfDCSetShutdownMode: synchronise when a tile came on.
Decide ==
    /\ tilePc = "decide"
    /\ \/ turnOn = 1 /\ power # before /\ SyncType
       \/ /\ turnOn = 0 \/ power = before
          /\ tilePc' = "idle" /\ UNCHANGED <<request, target, visit, then, saved>>
    /\ UNCHANGED <<power, pll, sysref, before, turnOn, asked, failures, ok>>

\* rfADCrestart, rfDACrestart: the driver resets all tiles, which start up
\* or stay where they fail; what was requested is kept.
TilesRestart ==
    /\ tilePc = "idle" /\ ok' = "yes" /\ tilePc' = "resync"
    /\ \/ power' = [t \in Tiles |-> Full] /\ failures' = failures
       \/ /\ failures < MaxFailures /\ failures' = failures + 1
          /\ \E t \in Tiles, s \in States :
                power' = [u \in Tiles |-> IF u = t THEN s ELSE Full]
    /\ pll' = Tiles
    /\ UNCHANGED <<request, sysref, then, visit, target, before, saved, turnOn, asked>>

SyncRequest ==
    /\ tilePc = "idle" /\ tilePc' = "resync" /\ ok' = "yes"
    /\ UNCHANGED <<power, pll, request, sysref, then, visit, target, before,
                   saved, turnOn, asked, failures>>

\* rfDCADCsync, rfDCDACsync: configure the clocks of all tiles and reset the
\* oscillators on a SYSREF that is enabled for the purpose, then synchronise.
\* A failure to enable or disable SYSREF is not seen by the caller.
Resync ==
    /\ tilePc = "resync" /\ pll' = Tiles
    /\ \/ sysref' = 0 /\ UNCHANGED <<failures, ok>>
       \/ /\ failures < MaxFailures /\ failures' = failures + 1 /\ ok' = "no"
          /\ sysref' \in {sysref, 1}
    /\ SyncType
    /\ UNCHANGED <<power, before, turnOn, asked>>

\* rfDCsyncType: SYSREF on, and up to eight attempts, whose failure is only
\* logged.
Mts ==
    /\ tilePc = "mts"
    /\ \/ sysref' = 1 /\ tilePc' = "sync" /\ UNCHANGED <<failures, ok>>
       \/ TileCallFails /\ sysref' = sysref
    /\ UNCHANGED <<power, pll, request, then, visit, target, before, saved, turnOn, asked>>

SyncedMutant ==
    /\ tilePc = "sync" /\ sysref' = 0 /\ tilePc' = "idle"
    /\ UNCHANGED <<power, pll, request, then, visit, target, before, saved, turnOn,
                   asked, failures, ok>>
\* rfDCsyncType: SYSREF off, and tile 0 back to what it was asked to be.
Synced ==
    /\ tilePc = "sync"
    /\ \/ sysref' = 0 /\ ChangeTilePwrRaw(saved, "idle") /\ UNCHANGED <<failures, ok>>
       \/ TileCallFails /\ UNCHANGED <<sysref, request, target, visit, then>>
    /\ UNCHANGED <<power, pll, before, saved, turnOn, asked>>

TilesNext ==
    \/ \E t \in Tiles, on \in {0, 1} : SetShutdownMode(t, on)
    \/ ApplyTileStates \/ Applied \/ Decide \/ TilesRestart \/ SyncRequest \/ Resync
    \/ Mts \/ Synced

TilesSpec == TilesInit /\ [][TilesNext]_tileVars

----------------------------------------------------------------------------
\* rfDCGetShutdownMode: the state, and whether it is forced to differ from
\* the request.
ReportedMode(t) ==
    [state |-> power[t],
     forced |-> IF Known[t] = 1 /\ power[t] < ClkDet THEN "off"
                ELSE IF Known[t] = 0 /\ power[t] > Shutdown THEN "on" ELSE "no"]

\* When a command has returned without a failed driver call, every tile that
\* was asked on is fully on, every tile on has its clock handed to it all the
\* way from a fully running source and the bandgap trim from tile 0, and a
\* tile that nothing needs is shut down - whatever the state the command
\* found, the remains of failed commands included.
RestIsRight ==
    tilePc = "idle" /\ ok = "yes" =>
        \A t \in Tiles :
            /\ request[t] = 1 => power[t] = Full
            /\ power[t] = Full =>
                /\ power[Ref] = Full /\ power[0] >= ClkDet
                /\ \A u \in Path(t) : power[u] >= ClkDet
            /\ power[t] > Shutdown => \E u \in Tiles :
                   request[u] = 1 /\ (t = 0 \/ t \in Path(u) \cup Path(0))
            /\ ReportedMode(t).forced # "off"

\* A tile is turned fully on only when its clock reaches it: the source is on
\* and every tile on the way forwards the clock, and tile 0 is at least in
\* clock detection - also when an earlier command stopped half way.
PoweredInOrder ==
    [][tilePc = "apply" => \A t \in Tiles : power[t] # Full /\ power'[t] = Full =>
          /\ power[0] >= ClkDet
          /\ \A u \in Path(t) \ {t} : power[u] >= ClkDet
          /\ t # Ref => power[Ref] = Full]_tileVars

\* As long as no driver call failed, a command leaves the requests as the
\* user made them - tile 0 is turned on for a synchronisation only - and
\* SYSREF disabled.
SyncLeavesNoTrace ==
    tilePc = "idle" /\ failures = 0 =>
        /\ sysref = 0
        /\ \A t \in Tiles : request[t] = IF asked[t] = Unknown THEN 1 ELSE asked[t]

============================================================================
