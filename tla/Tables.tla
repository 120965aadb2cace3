------------------------------- MODULE Tables -------------------------------
(***************************************************************************)
(* The tables kept on the card: local oscillators (localOscillator.c, "rf" *)
(* and "pt"), pilot tone generator (ptGen.c, "gen") and clock chips        *)
(* (rfclk.c, "clk"); and the mounting of the card, ffs.c (src/software/    *)
(* src).  A file is parsed row by row into the table in memory, whose      *)
(* header, row count and checksum, is set when all of it was good.  A      *)
(* commit that finds the header right writes the rows to the hardware of   *)
(* every BPM.  A download writes the table in memory to the card.          *)
(***************************************************************************)
EXTENDS Naturals, Sequences, SequencesExt, FiniteSets

CONSTANTS
    LoBpms, Uploadable,       \* uploads: [kind, file]
    MinRows, Capacity,      \* rows a table has at least (29, 11); its capacity
    BuildRows,              \* rows of the "pt" table the filter was built for
    TableRestarts, MaxOps     \* bounds: restarts; uploads, downloads and swaps

\* CFG_LO_RF_ROW_CAPACITY and its like leave room for the rows required.
ASSUME TableAssumption ==
    MinRows \in Nat \ {0} /\ Capacity \in Nat /\ MinRows < Capacity
\* The TFTP server hands a file to the parser of its name.  A row stands for the
\* file it is of: all rows of a file are alike.
OneFile(cells) == \A i, j \in 1..Len(cells) : cells[i] = cells[j]
ASSUME UploadAssumption ==
    \A u \in Uploadable : /\ u.kind \in {"rf", "pt", "gen", "clk"}
                          /\ u.file \in [cells : Seq(Nat), stop : Nat] /\ OneFile(u.file.cells)

VARIABLES
    medium,         \* card of each kind: a file, or NoRows
    mount,          \* "none", "mounted", or "stale": changed since it was
    table,          \* rfTable, ptTable, ptGenTable, rfClkConfigs[].table
    loaded,         \* rows last committed to each BPM
    goodTables, tablesRunning,    \* localOscWrite: good tables; the run bits
    faShift,        \* FA CIC shift, as the "pt" rows it fits, or Unset
    rms,            \* NOBANK_DSP_USE_RMS_BIT
    laundered,      \* kinds of which an unfinished table was downloaded
    tableRestarts, ops

tableVars == <<medium, mount, table, loaded, goodTables, tablesRunning, faShift, rms,
               laundered, tableRestarts, ops>>

TableKinds == {"rf", "pt", "gen", "clk"}
Lo == {"rf", "pt"}
NoRows == [cells |-> <<>>, stop |-> 0]
Unset == 0
DefaultCells == [i \in 1..MinRows |-> 0]
TableRows(cells) == [cells |-> cells, stop |-> 0]

\* The header covers the rows it was made for.
Blank == [body |-> [i \in 1..Capacity |-> 0], rows |-> 0, sum |-> <<>>]
Formatted(cells) ==
    [body |-> [i \in 1..Capacity |-> IF i <= Len(cells) THEN cells[i] ELSE 0],
     rows |-> Len(cells), sum |-> cells]
Content(t) == [i \in 1..t.rows |-> t.body[i]]

\* localOscSetTable, ptGenSetTable, rfClkSetTable: the rows before the one that
\* stops it are in the table, the header is not touched.
StoredRows(file, t) ==
    LET upto == IF file.stop # 0 THEN file.stop - 1 ELSE Len(file.cells)
    IN  [i \in 1..Capacity |-> IF i <= upto THEN file.cells[i] ELSE t.body[i]]
ParsedTableMutant(file, t) ==
    LET body == StoredRows(file, t)
    IN  IF file.stop = 0 /\ Len(file.cells) \in MinRows..Capacity
        THEN [body |-> body, rows |-> Len(file.cells), sum |-> file.cells]
        ELSE [t EXCEPT !.body = body, !.sum = [i \in 1..t.rows |-> body[i]]]
ParsedTable(file, t) ==
    IF file.stop = 0 /\ Len(file.cells) \in MinRows..Capacity
    THEN [body |-> StoredRows(file, t), rows |-> Len(file.cells), sum |-> file.cells]
    ELSE [t EXCEPT !.body = StoredRows(file, t)]
Readable(file) == file.stop = 0 /\ Len(file.cells) \in MinRows..Capacity

\* localOscillatorStashEEPROM, ptGenStashEEPROM, rfClkStashEEPROM.
Stashable(k, m, on) == on = "mounted" /\ m[k] # NoRows /\ Readable(m[k])
StashedTable(k, m, on, t) ==
    IF on = "mounted" /\ m[k] # NoRows THEN ParsedTable(m[k], t) ELSE t

\* localOscWrite, ptGenWrite, tableGetRowCount: the header must fit the rows.
Valid(t) == t.rows >= MinRows /\ t.rows < Capacity /\ t.sum = Content(t)

\* optimizeCicShift sets the shift only when the decimation is not the one of
\* the build.
Shift(rows, old) == IF rows # BuildRows THEN rows ELSE old

\* State of the hardware after a commit of table t for a BPM.
Hardware(b) == [loaded |-> loaded[b], good |-> goodTables[b], running |-> tablesRunning[b],
                shift |-> faShift[b]]
Restarted == [loaded |-> [k \in TableKinds |-> <<>>], good |-> 0, running |-> {},
              shift |-> Unset]
WriteRows(h, k, t) == IF Valid(t) THEN [h.loaded EXCEPT ![k] = Content(t)] ELSE h.loaded

\* localOscCommit writes the table of one kind, and starts the oscillators when
\* it finds two good ones.  ptGenCommit starts the generator whatever it wrote.
LoCommit(h, k, t) ==
    LET count == h.good + (IF Valid(t) THEN 1 ELSE 0)
    IN  [loaded |-> WriteRows(h, k, t),
         good |-> IF count > 3 THEN 3 ELSE count,     \* only 2 is looked at
         running |-> h.running \cup (IF count = 2 THEN {"lo"} ELSE {}),
         shift |-> IF k = "pt" THEN Shift(t.rows, h.shift) ELSE h.shift]
GenCommit(h, t) ==
    [h EXCEPT !.loaded = WriteRows(h, "gen", t), !.running = @ \cup {"gen"}]
ClkCommit(h, t) == [h EXCEPT !.loaded = WriteRows(h, "clk", t)]
Commit(h, k, t) ==
    CASE k \in Lo -> LoCommit(h, k, t)
      [] k = "gen" -> GenCommit(h, t)
      [] k = "clk" -> ClkCommit(h, t)

SetHardware(h) ==
    /\ loaded' = [b \in LoBpms |-> h[b].loaded] /\ goodTables' = [b \in LoBpms |-> h[b].good]
    /\ tablesRunning' = [b \in LoBpms |-> h[b].running] /\ faShift' = [b \in LoBpms |-> h[b].shift]

----------------------------------------------------------------------------
\* filesystemReadbacks and rfClkInit: what the card has, or the default for the
\* clock chips; then localOscillatorInit, which takes both defaults unless the
\* oscillators run.
ReadBack(m, on) == [k \in TableKinds |->
    LET t == StashedTable(k, m, on, Blank)
    IN  IF k = "clk" /\ ~(Stashable(k, m, on) /\ Valid(t)) THEN Formatted(DefaultCells)
        ELSE t]
CommittedBack(m, on, t) ==
    LET rf == IF Stashable("rf", m, on) THEN Commit(Restarted, "rf", t["rf"]) ELSE Restarted
        pt == IF Stashable("pt", m, on) THEN Commit(rf, "pt", t["pt"]) ELSE rf
        gen == IF Stashable("gen", m, on) THEN Commit(pt, "gen", t["gen"]) ELSE pt
    IN  Commit(gen, "clk", t["clk"])
LoInitMutant(h, d) == Commit(h, "rf", d)
LoInit(h, d) == Commit(Commit(h, "rf", d), "pt", d)

Boot(m, on) ==
    LET t == ReadBack(m, on)
        h == CommittedBack(m, on, t)
        d == Formatted(DefaultCells)
    IN  /\ table' = IF "lo" \in h.running THEN t ELSE [t EXCEPT !["rf"] = d, !["pt"] = d]
        /\ SetHardware([b \in LoBpms |-> IF "lo" \in h.running THEN h ELSE LoInit(h, d)])

TablesInit ==
    /\ medium = [k \in TableKinds |-> NoRows] /\ mount = "mounted"
    /\ LET d == Formatted(DefaultCells)
           h == LoInit(Commit(Restarted, "clk", d), d)
       IN  /\ table = [k \in TableKinds |-> IF k = "gen" THEN Blank ELSE d]
           /\ loaded = [b \in LoBpms |-> h.loaded] /\ goodTables = [b \in LoBpms |-> h.good]
           /\ tablesRunning = [b \in LoBpms |-> h.running] /\ faShift = [b \in LoBpms |-> h.shift]
    /\ rms = [b \in LoBpms |-> FALSE] /\ laundered = {} /\ tableRestarts = 0 /\ ops = 0

Counted == ops < MaxOps /\ ops' = ops + 1
Same == UNCHANGED <<rms, tableRestarts>>

\* The FPGA is reset; ffsCheck mounts the card before anything is read.
RestartTables ==
    /\ tableRestarts < TableRestarts /\ tableRestarts' = tableRestarts + 1
    /\ mount' = IF mount = "none" THEN "none" ELSE "mounted"
    /\ Boot(medium, mount')
    /\ rms' = [b \in LoBpms |-> FALSE] /\ UNCHANGED <<medium, laundered, ops>>

\* A file is uploaded, stashed and committed by every BPM; it may also end
\* short on the card.
UploadTable(k, file) ==
    /\ Counted /\ mount = "mounted"
    /\ medium' = [medium EXCEPT ![k] = file] /\ UNCHANGED laundered
    /\ table' = [table EXCEPT ![k] = ParsedTable(file, @)]
    /\ SetHardware([b \in LoBpms |-> IF Readable(file)
                                   THEN Commit(Hardware(b), k, table'[k]) ELSE Hardware(b)])
    /\ mount' = mount /\ Same
UploadIsCut(k, file) ==
    /\ Counted /\ mount = "mounted"
    /\ medium' = [medium EXCEPT ![k] = IF file.cells = <<>> THEN NoRows
                     ELSE [file EXCEPT !.cells = Front(@), !.stop = 0]]
    /\ UNCHANGED <<mount, laundered, table, loaded, goodTables, tablesRunning, faShift>> /\ Same

DownloadedRows(t) == TableRows(Content(t))

\* localOscillatorFetchEEPROM, ptGenFetchEEPROM, rfClkFetchEEPROM: the rows the
\* header counts; a failed write leaves the file empty.
Download(k) ==
    /\ Counted /\ mount = "mounted"
    /\ \/ /\ medium' = [medium EXCEPT ![k] = DownloadedRows(table[k])]
          /\ laundered' = IF table[k].sum = Content(table[k]) THEN laundered
                          ELSE laundered \cup {k}
       \/ medium' = [medium EXCEPT ![k] = NoRows] /\ UNCHANGED laundered
    /\ UNCHANGED <<mount, table, loaded, goodTables, tablesRunning, faShift>> /\ Same

\* The card is taken out, or put back in.
Swap ==
    /\ Counted /\ mount' = IF mount = "none" THEN "stale" ELSE "none"
    /\ UNCHANGED <<medium, table, loaded, goodTables, tablesRunning, faShift, laundered>> /\ Same

\* ffsCheck, once a second: a changed card is mounted, or fails to.
FfsCheck ==
    /\ mount = "stale" /\ mount' \in {"mounted", "stale"}
    /\ UNCHANGED <<medium, table, loaded, goodTables, tablesRunning, faShift, laundered, ops>>
    /\ Same

\* localOscSetDspAlgorithm and ptGenRun, commands of EPICS.
SetRms(b) ==
    /\ rms' = [rms EXCEPT ![b] = ~@]
    /\ UNCHANGED <<medium, mount, table, loaded, goodTables, tablesRunning, faShift,
                   laundered, tableRestarts, ops>>
PtGenRun(b) ==
    /\ \/ tablesRunning' = [tablesRunning EXCEPT ![b] = @ \cup {"gen"}]
       \/ tablesRunning' = [tablesRunning EXCEPT ![b] = @ \ {"gen"}]
    /\ UNCHANGED <<medium, mount, table, loaded, goodTables, faShift, rms, laundered,
                   tableRestarts, ops>>

TablesNext ==
    \/ RestartTables \/ Swap \/ FfsCheck
    \/ \E u \in Uploadable : UploadTable(u.kind, u.file) \/ UploadIsCut(u.kind, u.file)
    \/ \E k \in TableKinds : Download(k)
    \/ \E b \in LoBpms : SetRms(b) \/ PtGenRun(b)

TablesSpec == TablesInit /\ [][TablesNext]_tableVars

----------------------------------------------------------------------------
\* A running local oscillator has both its tables, whatever the card had at
\* startup and in whatever order good and bad files came (goodTables).
LoHasBothTables ==
    \A b \in LoBpms : "lo" \in tablesRunning[b] => \A k \in Lo : loaded[b][k] # <<>>

\* The rows the hardware has are those of one file: never rows of a refused
\* file before rows of the one before it (checkSum).  Left out is a file that
\* was itself downloaded from such a table.
TablesAreWhole ==
    \A b \in LoBpms, k \in TableKinds : OneFile(loaded[b][k]) \/ k \in laundered
=============================================================================
