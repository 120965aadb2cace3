------------------------ MODULE ConfigurationProofs -------------------------
(***************************************************************************)
(* What the instrument is configured with.  The tables in force: a running *)
(* local oscillator has both of its own, and each is of one file; for any  *)
(* size of the tables, any files, any number of BPMs and restarts.  The    *)
(* settings of the channels: none leaks to another, for any number of      *)
(* chains, channels and converters of a tile.  The system parameters: they *)
(* are taken whole, survive a restart once stored and change at the        *)
(* console only as they were shown; for any files, words and consoles.     *)
(* The three share no state.                                               *)
(***************************************************************************)
EXTENDS Tables, Settings, Console, Remainders, WellFoundedInduction, TLAPS

HardwareFields == {"loaded", "good", "running", "shift"}
\* A table, a state of the hardware, and one whose local oscillator has its tables.
IsTable(t) == DOMAIN t = {"body", "rows", "sum"} /\ t.rows \in Nat
IsHardware(h) == DOMAIN h = HardwareFields /\ DOMAIN h.loaded = TableKinds
HasBoth(h) == \A k \in Lo : h.loaded[k] # <<>>

\* The local oscillators have their tables from the start: what localOscillatorInit
\* loads unless they run, and never an empty table after that.
BothLoaded ==
    \A b \in LoBpms : DOMAIN loaded[b] = TableKinds /\ \A k \in Lo : loaded[b][k] # <<>>
TablesInv == BothLoaded /\ DOMAIN table = TableKinds /\ \A k \in TableKinds : IsTable(table[k])

\* A table that is committed has rows.
LEMMA ValidHasRows ==
    ASSUME NEW t, Valid(t), IsTable(t)
    PROVE  Content(t) # <<>>
<1>1. t.rows >= 1
  BY TableAssumption DEF Valid, IsTable
<1>2. 1 \in DOMAIN Content(t)
  BY <1>1 DEF Content, IsTable
<1> QED BY <1>2

\* The default has a header that fits it.
LEMMA DefaultIsValid ==
    LET d == Formatted(DefaultCells) IN IsTable(d) /\ Valid(d)
<1> DEFINE d == Formatted(DefaultCells)
<1>1. Len(DefaultCells) = MinRows /\ DefaultCells = [i \in 1..MinRows |-> 0]
  BY TableAssumption DEF DefaultCells
<1>2. IsTable(d) /\ d.rows = MinRows /\ d.sum = [i \in 1..MinRows |-> 0]
  BY <1>1, TableAssumption DEF Formatted, IsTable
<1>3. \A i \in 1..MinRows : d.body[i] = 0
  BY <1>1, TableAssumption DEF Formatted
<1>4. Content(d) = [i \in 1..MinRows |-> 0]
  BY <1>2, <1>3 DEF Content
<1> HIDE DEF d
<1>5. Valid(d)
  BY <1>2, <1>4, TableAssumption DEF Valid
<1> QED BY <1>2, <1>5 DEF d

\* Parsing and reading back leave tables.
LEMMA ParsedIsTable ==
    ASSUME NEW file, NEW t, IsTable(t)
    PROVE  IsTable(ParsedTable(file, t))
<1>1. CASE file.stop = 0 /\ Len(file.cells) \in MinRows..Capacity
  BY <1>1, TableAssumption DEF ParsedTable, IsTable
<1>2. CASE ~(file.stop = 0 /\ Len(file.cells) \in MinRows..Capacity)
  <2>1. ParsedTable(file, t) = [t EXCEPT !.body = StoredRows(file, t)]
    BY <1>2 DEF ParsedTable
  <2> QED BY <2>1 DEF IsTable
<1> QED BY <1>1, <1>2

LEMMA ReadBackAreTables ==
    ASSUME NEW m, NEW on, NEW k \in TableKinds
    PROVE  IsTable(ReadBack(m, on)[k])
<1>1. IsTable(Blank)
  BY DEF Blank, IsTable
<1>2. IsTable(StashedTable(k, m, on, Blank))
  BY <1>1, ParsedIsTable DEF StashedTable
<1>3. IsTable(Formatted(DefaultCells))
  BY DefaultIsValid
<1> QED BY <1>2, <1>3 DEF ReadBack

\* A commit writes rows of its own table only.
LEMMA CommitLoads ==
    ASSUME NEW h, NEW k \in TableKinds, NEW t, IsHardware(h)
    PROVE  /\ Commit(h, k, t).loaded = WriteRows(h, k, t)
           /\ DOMAIN Commit(h, k, t) = HardwareFields
<1>1. CASE k \in Lo
  <2>1. Commit(h, k, t) = LoCommit(h, k, t)
    BY <1>1 DEF Commit, Lo
  <2> QED BY <2>1 DEF LoCommit, HardwareFields
<1>2. CASE k = "gen"
  <2>1. Commit(h, k, t) = GenCommit(h, t)
    BY <1>2 DEF Commit, Lo
  <2> QED BY <1>2, <2>1 DEF GenCommit, HardwareFields, IsHardware
<1>3. CASE k = "clk"
  <2>1. Commit(h, k, t) = ClkCommit(h, t)
    BY <1>3 DEF Commit, Lo
  <2> QED BY <1>3, <2>1 DEF ClkCommit, HardwareFields, IsHardware
<1> QED BY <1>1, <1>2, <1>3 DEF TableKinds, Lo

\* A commit keeps the hardware a hardware and a table that is there there, and
\* one of a good table of an oscillator loads it.
LEMMA CommitKeeps ==
    ASSUME NEW h, NEW k \in TableKinds, NEW t, IsHardware(h), IsTable(t)
    PROVE  /\ IsHardware(Commit(h, k, t))
           /\ \A j \in TableKinds : h.loaded[j] # <<>> => Commit(h, k, t).loaded[j] # <<>>
           /\ Valid(t) => Commit(h, k, t).loaded[k] # <<>>
<1> DEFINE w == WriteRows(h, k, t)
<1>1. /\ DOMAIN w = TableKinds
      /\ \A j \in TableKinds : h.loaded[j] # <<>> => w[j] # <<>>
      /\ Valid(t) => w[k] # <<>>
  BY ValidHasRows DEF WriteRows, IsHardware
<1>2. Commit(h, k, t).loaded = w /\ DOMAIN Commit(h, k, t) = HardwareFields
  BY CommitLoads
<1> HIDE DEF w
<1> QED BY <1>1, <1>2 DEF IsHardware

\* localOscillatorInit loads both defaults, whatever was there.
LEMMA LoInitLoadsBoth ==
    ASSUME NEW h, IsHardware(h)
    PROVE  LET g == LoInit(h, Formatted(DefaultCells)) IN IsHardware(g) /\ HasBoth(g)
<1> DEFINE d == Formatted(DefaultCells)
           rf == Commit(h, "rf", d)
           pt == Commit(rf, "pt", d)
<1>0. IsTable(d) /\ Valid(d) /\ "rf" \in TableKinds /\ "pt" \in TableKinds
  BY DefaultIsValid DEF TableKinds
<1> HIDE DEF d
<1>1. IsHardware(rf) /\ rf.loaded["rf"] # <<>>
  BY <1>0, CommitKeeps
<1> HIDE DEF rf
<1>2. IsHardware(pt) /\ pt.loaded["pt"] # <<>> /\ pt.loaded["rf"] # <<>>
  BY <1>0, <1>1, CommitKeeps
<1> QED BY <1>2 DEF LoInit, HasBoth, Lo, d, rf, pt

\* What the card puts in force runs the oscillators only with both tables.
LEMMA CommittedBackHasBoth ==
    ASSUME NEW m, NEW on, NEW t, \A k \in TableKinds : IsTable(t[k])
    PROVE  LET h == CommittedBack(m, on, t)
           IN  IsHardware(h) /\ ("lo" \in h.running => HasBoth(h))
<1> DEFINE rf == IF Stashable("rf", m, on) THEN Commit(Restarted, "rf", t["rf"]) ELSE Restarted
           pt == IF Stashable("pt", m, on) THEN Commit(rf, "pt", t["pt"]) ELSE rf
           gen == IF Stashable("gen", m, on) THEN Commit(pt, "gen", t["gen"]) ELSE pt
           clk == Commit(gen, "clk", t["clk"])
<1>0. {"rf", "pt", "gen", "clk"} = TableKinds /\ Lo = {"rf", "pt"}
  BY DEF TableKinds, Lo
<1>1. IsHardware(Restarted) /\ Restarted.good = 0 /\ Restarted.running = {}
  BY DEF Restarted, IsHardware, HardwareFields
<1>2. /\ IsHardware(rf) /\ rf.good \in {0, 1} /\ "lo" \notin rf.running
      /\ rf.good = 1 => rf.loaded["rf"] # <<>>
  <2>1. CASE Stashable("rf", m, on)
    <3>1. rf = Commit(Restarted, "rf", t["rf"]) /\ rf = LoCommit(Restarted, "rf", t["rf"])
      BY <2>1, <1>0 DEF Commit
    <3>2. IsHardware(rf) /\ (Valid(t["rf"]) => rf.loaded["rf"] # <<>>)
      BY <1>0, <1>1, <3>1, CommitKeeps
    <3>3. rf.good = (IF Valid(t["rf"]) THEN 1 ELSE 0) /\ rf.running = {}
      BY <1>1, <3>1 DEF LoCommit
    <3> QED BY <3>2, <3>3
  <2>2. CASE ~Stashable("rf", m, on)
    BY <1>1, <2>2
  <2> QED BY <2>1, <2>2
<1> HIDE DEF rf
<1>3. IsHardware(pt) /\ ("lo" \in pt.running => HasBoth(pt))
  <2>1. CASE Stashable("pt", m, on)
    <3>1. pt = Commit(rf, "pt", t["pt"]) /\ pt = LoCommit(rf, "pt", t["pt"])
      BY <2>1, <1>0 DEF Commit
    <3>2. /\ IsHardware(pt) /\ (Valid(t["pt"]) => pt.loaded["pt"] # <<>>)
          /\ rf.loaded["rf"] # <<>> => pt.loaded["rf"] # <<>>
      BY <1>0, <1>2, <3>1, CommitKeeps
    <3>3. "lo" \in pt.running => rf.good = 1 /\ Valid(t["pt"])
      BY <1>2, <3>1 DEF LoCommit
    <3> QED BY <1>0, <1>2, <3>2, <3>3 DEF HasBoth
  <2>2. CASE ~Stashable("pt", m, on)
    BY <1>2, <2>2
  <2> QED BY <2>1, <2>2
<1> HIDE DEF pt
<1>4. IsHardware(gen) /\ ("lo" \in gen.running => HasBoth(gen))
  <2>1. CASE Stashable("gen", m, on)
    <3>1. gen = Commit(pt, "gen", t["gen"]) /\ gen = GenCommit(pt, t["gen"])
      BY <2>1, <1>0 DEF Commit
    <3>2. IsHardware(gen) /\ \A j \in TableKinds : pt.loaded[j] # <<>> => gen.loaded[j] # <<>>
      BY <1>0, <1>3, <3>1, CommitKeeps
    <3>3. gen = [pt EXCEPT !.loaded = WriteRows(pt, "gen", t["gen"]),
                           !.running = pt.running \cup {"gen"}]
      BY <3>1 DEF GenCommit
    <3>4. DOMAIN pt = {"loaded", "good", "running", "shift"}
      BY <1>3 DEF IsHardware, HardwareFields
    <3> HIDE DEF gen
    <3>5. gen.running = pt.running \cup {"gen"}
      BY <3>3, <3>4
    <3>6. "lo" \in gen.running => "lo" \in pt.running
      BY <3>5
    <3> QED BY <1>0, <1>3, <3>2, <3>6 DEF HasBoth
  <2>2. CASE ~Stashable("gen", m, on)
    BY <1>3, <2>2
  <2> QED BY <2>1, <2>2
<1> HIDE DEF gen
<1>5. IsHardware(clk) /\ ("lo" \in clk.running => HasBoth(clk))
  <2>1. clk = ClkCommit(gen, t["clk"])
    BY <1>0 DEF Commit
  <2>2. IsHardware(clk) /\ \A j \in TableKinds : gen.loaded[j] # <<>> => clk.loaded[j] # <<>>
    BY <1>0, <1>4, CommitKeeps
  <2>3. clk.running = gen.running
    BY <1>4, <2>1 DEF ClkCommit, IsHardware, HardwareFields
  <2> QED BY <1>0, <1>4, <2>2, <2>3 DEF HasBoth
<1> QED BY <1>5 DEF CommittedBack, rf, pt, gen, clk

\* Hardware whose oscillators have their tables is what BothLoaded asks for.
LEMMA SetHasBoth ==
    ASSUME NEW h, SetHardware(h), \A b \in LoBpms : IsHardware(h[b]) /\ HasBoth(h[b])
    PROVE  BothLoaded'
BY DEF SetHardware, BothLoaded, IsHardware, HasBoth

LEMMA HardwareHasBoth ==
    ASSUME BothLoaded, NEW b \in LoBpms
    PROVE  IsHardware(Hardware(b)) /\ HasBoth(Hardware(b))
BY DEF BothLoaded, Hardware, IsHardware, HasBoth, HardwareFields

LEMMA TablesStart == TablesInit => TablesInv
<1> SUFFICES ASSUME TablesInit PROVE TablesInv
  OBVIOUS
<1> DEFINE d == Formatted(DefaultCells)
           h == LoInit(Commit(Restarted, "clk", d), d)
<1>0. IsTable(d) /\ IsTable(Blank) /\ "clk" \in TableKinds
  BY DefaultIsValid DEF Blank, IsTable, TableKinds
<1>1. IsHardware(Restarted)
  BY DEF Restarted, IsHardware, HardwareFields
<1>2. IsHardware(Commit(Restarted, "clk", d))
  BY <1>0, <1>1, CommitKeeps
<1>3. IsHardware(h) /\ HasBoth(h)
  BY <1>2, LoInitLoadsBoth
<1>4. table = [k \in TableKinds |-> IF k = "gen" THEN Blank ELSE d] /\ loaded = [b \in LoBpms |-> h.loaded]
  BY DEF TablesInit
<1> HIDE DEF d, h
<1>5. BothLoaded
  BY <1>3, <1>4 DEF BothLoaded, IsHardware, HasBoth
<1> QED BY <1>0, <1>4, <1>5 DEF TablesInv

LEMMA TablesStep == TablesInv /\ [TablesNext]_tableVars => TablesInv'
<1> SUFFICES ASSUME TablesInv, [TablesNext]_tableVars PROVE TablesInv'
  OBVIOUS
<1>1. CASE RestartTables
  <2> DEFINE t == ReadBack(medium, mount')
             h == CommittedBack(medium, mount', t)
             d == Formatted(DefaultCells)
             set == [b \in LoBpms |-> IF "lo" \in h.running THEN h ELSE LoInit(h, d)]
  <2>1. \A k \in TableKinds : IsTable(t[k])
    BY ReadBackAreTables
  <2>2. DOMAIN t = TableKinds /\ IsTable(d)
    BY DefaultIsValid DEF ReadBack
  <2>3. /\ table' = (IF "lo" \in h.running THEN t ELSE [t EXCEPT !["rf"] = d, !["pt"] = d])
        /\ SetHardware(set)
    BY <1>1 DEF RestartTables, Boot
  <2> HIDE DEF t
  <2>4. IsHardware(h) /\ ("lo" \in h.running => HasBoth(h))
    BY <2>1, CommittedBackHasBoth
  <2> HIDE DEF h
  <2>5. IsHardware(LoInit(h, d)) /\ HasBoth(LoInit(h, d))
    BY <2>4, LoInitLoadsBoth
  <2> HIDE DEF d
  <2>6. \A b \in LoBpms : IsHardware(set[b]) /\ HasBoth(set[b])
    BY <2>4, <2>5
  <2> HIDE DEF set
  <2>7. BothLoaded'
    BY <2>3, <2>6, SetHasBoth
  <2>8. DOMAIN table' = TableKinds /\ \A k \in TableKinds : IsTable(table'[k])
    BY <2>1, <2>2, <2>3
  <2> QED BY <2>7, <2>8 DEF TablesInv, IsTable
<1>2. ASSUME NEW u \in Uploadable, UploadTable(u.kind, u.file) PROVE TablesInv'
  <2> DEFINE k == u.kind
             set == [b \in LoBpms |-> IF Readable(u.file)
                                      THEN Commit(Hardware(b), k, table'[k]) ELSE Hardware(b)]
  <2>1. table' = [table EXCEPT ![k] = ParsedTable(u.file, @)] /\ SetHardware(set)
    BY <1>2 DEF UploadTable
  <2>2. DOMAIN table' = TableKinds /\ \A j \in TableKinds : IsTable(table'[j])
    BY <2>1, ParsedIsTable DEF TablesInv
  <2>3. k \in TableKinds
    BY UploadAssumption DEF TableKinds
  <2>4. \A b \in LoBpms : IsHardware(set[b]) /\ HasBoth(set[b])
    <3> SUFFICES ASSUME NEW b \in LoBpms PROVE IsHardware(set[b]) /\ HasBoth(set[b])
      OBVIOUS
    <3>1. IsHardware(Hardware(b)) /\ HasBoth(Hardware(b))
      BY HardwareHasBoth DEF TablesInv
    <3>2. IsHardware(Commit(Hardware(b), k, table'[k])) /\ HasBoth(Commit(Hardware(b), k, table'[k]))
      <4>1. IsTable(table'[k])
        BY <2>2, <2>3
      <4>2. IsHardware(Commit(Hardware(b), k, table'[k]))
        BY <2>3, <3>1, <4>1, CommitKeeps
      <4>3. \A j \in TableKinds : Hardware(b).loaded[j] # <<>>
                                => Commit(Hardware(b), k, table'[k]).loaded[j] # <<>>
        BY <2>3, <3>1, <4>1, CommitKeeps
      <4> QED BY <3>1, <4>2, <4>3 DEF HasBoth, Lo, TableKinds
    <3> QED BY <3>1, <3>2
  <2>5. BothLoaded'
    BY <2>1, <2>4, SetHasBoth
  <2> QED BY <2>2, <2>5 DEF TablesInv, IsTable
<1>3. ASSUME UNCHANGED <<table, loaded>> PROVE TablesInv'
  BY <1>3 DEF TablesInv, BothLoaded, IsTable
<1>4. CASE Swap \/ FfsCheck
  BY <1>3, <1>4 DEF Swap, FfsCheck
<1>5. ASSUME NEW u \in Uploadable, UploadIsCut(u.kind, u.file) PROVE TablesInv'
  BY <1>3, <1>5 DEF UploadIsCut
<1>6. ASSUME NEW k \in TableKinds, Download(k) PROVE TablesInv'
  BY <1>3, <1>6 DEF Download
<1>7. ASSUME NEW b \in LoBpms, SetRms(b) \/ PtGenRun(b) PROVE TablesInv'
  BY <1>3, <1>7 DEF SetRms, PtGenRun
<1>8. CASE UNCHANGED tableVars
  BY <1>3, <1>8 DEF tableVars
<1> QED
  BY <1>1, <1>2, <1>4, <1>5, <1>6, <1>7, <1>8 DEF TablesNext

\* A running local oscillator has both its tables, for any tables, files and
\* BPMs: localOscillatorInit sees to it at every start, and nothing that comes
\* later takes a table away.
THEOREM OscillatorsHaveTables == TablesSpec => []LoHasBothTables
<1>1. TablesInv => LoHasBothTables
  BY DEF TablesInv, BothLoaded, LoHasBothTables
<1> QED BY TablesStart, TablesStep, <1>1, PTL DEF TablesSpec
-----------------------------------------------------------------------------
(* The tables in force are each of one file: the header of a table in      *)
(* memory covers the rows of one file, whatever rows of a refused file are *)
(* in the table, and only a table whose rows fit it is written.            *)

OneOf(cells, k, L) == OneFile(cells) \/ k \in L

\* Hardware all of whose tables are whole, but for the kinds of L.
IsWhole(h, L) == \A k \in TableKinds : OneOf(h.loaded[k], k, L)

WholeInv ==
    /\ TablesInv /\ DOMAIN medium = TableKinds
    /\ \A k \in TableKinds : /\ OneOf(medium[k].cells, k, laundered)
                             /\ OneOf(table[k].sum, k, laundered)
    /\ \A b \in LoBpms, k \in TableKinds : OneOf(loaded[b][k], k, laundered)

LEMMA CommitKeepsWhole ==
    ASSUME NEW h, NEW k \in TableKinds, NEW t, NEW L, IsHardware(h), IsWhole(h, L),
           OneOf(t.sum, k, L)
    PROVE  IsWhole(Commit(h, k, t), L)
<1>1. Commit(h, k, t).loaded = WriteRows(h, k, t) /\ DOMAIN h.loaded = TableKinds
  BY CommitLoads DEF IsHardware
<1>2. Valid(t) => OneOf(Content(t), k, L)
  BY DEF Valid
<1>3. ASSUME NEW j \in TableKinds PROVE OneOf(WriteRows(h, k, t)[j], j, L)
  <2>1. WriteRows(h, k, t)[j] = IF Valid(t) /\ j = k THEN Content(t) ELSE h.loaded[j]
    BY <1>1 DEF WriteRows
  <2> QED BY <1>2, <2>1 DEF IsWhole
<1> QED BY <1>1, <1>3 DEF IsWhole

LEMMA ParsedIsOne ==
    ASSUME NEW file, NEW t, NEW k, NEW L, IsTable(t), OneOf(file.cells, k, L), OneOf(t.sum, k, L)
    PROVE  OneOf(ParsedTable(file, t).sum, k, L)
<1>1. CASE file.stop = 0 /\ Len(file.cells) \in MinRows..Capacity
  <2>1. ParsedTable(file, t).sum = file.cells
    BY <1>1 DEF ParsedTable
  <2> QED BY <2>1
<1>2. CASE ~(file.stop = 0 /\ Len(file.cells) \in MinRows..Capacity)
  <2>1. ParsedTable(file, t) = [t EXCEPT !.body = StoredRows(file, t)]
    BY <1>2 DEF ParsedTable
  <2>2. ParsedTable(file, t).sum = t.sum
    BY <2>1 DEF IsTable
  <2> QED BY <2>2
<1> QED BY <1>1, <1>2

LEMMA DefaultIsOne ==
    ASSUME NEW k, NEW L
    PROVE  OneOf(Formatted(DefaultCells).sum, k, L) /\ OneOf(Blank.sum, k, L)
           /\ OneOf(NoRows.cells, k, L) /\ IsWhole(Restarted, L) /\ IsHardware(Restarted)
<1>1. Len(DefaultCells) = MinRows /\ \A i \in 1..MinRows : DefaultCells[i] = 0
  BY TableAssumption DEF DefaultCells
<1>2. OneFile(DefaultCells)
  BY <1>1 DEF OneFile
<1>3. Formatted(DefaultCells).sum = DefaultCells /\ Blank.sum = <<>> /\ NoRows.cells = <<>>
  BY DEF Formatted, Blank, NoRows
<1>4. OneFile(<<>>)
  BY DEF OneFile
<1>5. \A j \in TableKinds : Restarted.loaded[j] = <<>>
  BY DEF Restarted
<1> QED BY <1>2, <1>3, <1>4, <1>5 DEF OneOf, IsWhole, Restarted, IsHardware, HardwareFields

LEMMA LoInitIsWhole ==
    ASSUME NEW h, NEW L, IsHardware(h), IsWhole(h, L)
    PROVE  IsWhole(LoInit(h, Formatted(DefaultCells)), L)
<1> DEFINE d == Formatted(DefaultCells)
           rf == Commit(h, "rf", d)
           pt == Commit(rf, "pt", d)
<1>1. IsTable(d) /\ "rf" \in TableKinds /\ "pt" \in TableKinds
      /\ \A k : OneOf(d.sum, k, L)
  BY DefaultIsValid, DefaultIsOne DEF TableKinds
<1> HIDE DEF d
<1>2. IsHardware(rf) /\ IsWhole(rf, L)
  BY <1>1, CommitKeeps, CommitKeepsWhole
<1> HIDE DEF rf
<1>3. IsWhole(pt, L)
  BY <1>1, <1>2, CommitKeepsWhole
<1> QED BY <1>3 DEF LoInit, d, rf, pt

LEMMA ReadBackIsOne ==
    ASSUME NEW m, NEW on, NEW k \in TableKinds, NEW L, OneOf(m[k].cells, k, L)
    PROVE  OneOf(ReadBack(m, on)[k].sum, k, L)
<1>1. IsTable(Blank)
  BY DEF Blank, IsTable
<1>2. OneOf(StashedTable(k, m, on, Blank).sum, k, L)
  BY <1>1, ParsedIsOne, DefaultIsOne DEF StashedTable
<1> QED BY <1>2, DefaultIsOne DEF ReadBack

LEMMA CommittedBackIsWhole ==
    ASSUME NEW m, NEW on, NEW t, NEW L,
           \A k \in TableKinds : IsTable(t[k]) /\ OneOf(t[k].sum, k, L)
    PROVE  IsWhole(CommittedBack(m, on, t), L)
<1> DEFINE rf == IF Stashable("rf", m, on) THEN Commit(Restarted, "rf", t["rf"]) ELSE Restarted
           pt == IF Stashable("pt", m, on) THEN Commit(rf, "pt", t["pt"]) ELSE rf
           gen == IF Stashable("gen", m, on) THEN Commit(pt, "gen", t["gen"]) ELSE pt
           clk == Commit(gen, "clk", t["clk"])
<1>0. {"rf", "pt", "gen", "clk"} = TableKinds
  BY DEF TableKinds
<1>1. IsHardware(rf) /\ IsWhole(rf, L)
  BY <1>0, DefaultIsOne, CommitKeeps, CommitKeepsWhole
<1> HIDE DEF rf
<1>2. IsHardware(pt) /\ IsWhole(pt, L)
  BY <1>0, <1>1, CommitKeeps, CommitKeepsWhole
<1> HIDE DEF pt
<1>3. IsHardware(gen) /\ IsWhole(gen, L)
  BY <1>0, <1>2, CommitKeeps, CommitKeepsWhole
<1> HIDE DEF gen
<1>4. IsWhole(clk, L)
  BY <1>0, <1>3, CommitKeepsWhole
<1> QED BY <1>4 DEF CommittedBack, rf, pt, gen, clk

\* Hardware that is whole is what WholeInv asks for.
LEMMA SetIsWhole ==
    ASSUME NEW h, NEW L, SetHardware(h), \A b \in LoBpms : IsWhole(h[b], L)
    PROVE  \A b \in LoBpms, k \in TableKinds : OneOf(loaded'[b][k], k, L)
BY DEF SetHardware, IsWhole

LEMMA WholeStart == TablesInit => WholeInv
<1> SUFFICES ASSUME TablesInit PROVE WholeInv
  OBVIOUS
<1> DEFINE d == Formatted(DefaultCells)
           clk == Commit(Restarted, "clk", d)
           h == LoInit(clk, d)
<1>1. "clk" \in TableKinds /\ IsTable(d) /\ \A k : OneOf(d.sum, k, laundered)
      /\ OneOf(Blank.sum, k, laundered) /\ OneOf(NoRows.cells, k, laundered)
  BY DefaultIsValid, DefaultIsOne DEF TableKinds
<1>2. IsHardware(clk) /\ IsWhole(clk, laundered)
  BY <1>1, DefaultIsOne, CommitKeeps, CommitKeepsWhole
<1>3. IsWhole(h, laundered)
  BY <1>2, LoInitIsWhole
<1>4. /\ table = [k \in TableKinds |-> IF k = "gen" THEN Blank ELSE d]
      /\ loaded = [b \in LoBpms |-> h.loaded] /\ medium = [k \in TableKinds |-> NoRows]
  BY DEF TablesInit
<1> HIDE DEF d, h
<1> QED BY <1>1, <1>3, <1>4, TablesStart DEF WholeInv, IsWhole

\* An upload that ends short on the card leaves rows of its file.
LEMMA FrontIsOne ==
    ASSUME NEW u \in Uploadable, u.file.cells # <<>>
    PROVE  OneFile(Front(u.file.cells))
<1> DEFINE c == u.file.cells
           n == Len(c) - 1
<1>1. c \in Seq(Nat) /\ OneFile(c) /\ c # <<>>
  BY UploadAssumption
<1> HIDE DEF c
<1>2. n \in Nat /\ Len(c) = n + 1
  BY <1>1
<1>3. Front(c) = [i \in 1..n |-> c[i]] /\ Len(Front(c)) = n
  BY <1>2 DEF Front
<1>4. \A i \in 1..n : i \in 1..Len(c) /\ Front(c)[i] = c[i]
  BY <1>2, <1>3
<1> HIDE DEF n
<1>5. OneFile(Front(c))
  BY <1>1, <1>3, <1>4 DEF OneFile
<1> QED BY <1>5 DEF c

LEMMA WholeStep == WholeInv /\ [TablesNext]_tableVars => WholeInv'
<1> SUFFICES ASSUME WholeInv, [TablesNext]_tableVars PROVE WholeInv'
  OBVIOUS
<1>0. TablesInv' /\ TablesInv
  BY TablesStep DEF WholeInv
<1>1. CASE RestartTables
  <2> DEFINE t == ReadBack(medium, mount')
             h == CommittedBack(medium, mount', t)
             d == Formatted(DefaultCells)
             set == [b \in LoBpms |-> IF "lo" \in h.running THEN h ELSE LoInit(h, d)]
  <2>1. \A k \in TableKinds : IsTable(t[k]) /\ OneOf(t[k].sum, k, laundered)
    BY ReadBackAreTables, ReadBackIsOne DEF WholeInv
  <2>2. /\ table' = (IF "lo" \in h.running THEN t ELSE [t EXCEPT !["rf"] = d, !["pt"] = d])
        /\ SetHardware(set) /\ UNCHANGED <<medium, laundered>> /\ DOMAIN t = TableKinds
    BY <1>1 DEF RestartTables, Boot, ReadBack
  <2> HIDE DEF t
  <2>3. IsHardware(h) /\ IsWhole(h, laundered)
    BY <2>1, CommittedBackHasBoth, CommittedBackIsWhole
  <2> HIDE DEF h
  <2>4. IsWhole(LoInit(h, d), laundered) /\ \A k : OneOf(d.sum, k, laundered)
    BY <2>3, LoInitIsWhole, DefaultIsOne
  <2> HIDE DEF d
  <2>5. \A b \in LoBpms : IsWhole(set[b], laundered)
    BY <2>3, <2>4
  <2> HIDE DEF set
  <2>6. \A b \in LoBpms, k \in TableKinds : OneOf(loaded'[b][k], k, laundered)
    BY <2>2, <2>5, SetIsWhole
  <2>7. \A k \in TableKinds : OneOf(table'[k].sum, k, laundered)
    BY <2>1, <2>2, <2>4
  <2> QED BY <1>0, <2>2, <2>6, <2>7 DEF WholeInv
<1>2. ASSUME NEW u \in Uploadable, UploadTable(u.kind, u.file) PROVE WholeInv'
  <2> DEFINE k == u.kind
             set == [b \in LoBpms |-> IF Readable(u.file)
                                      THEN Commit(Hardware(b), k, table'[k]) ELSE Hardware(b)]
  <2>1. /\ table' = [table EXCEPT ![k] = ParsedTable(u.file, @)] /\ SetHardware(set)
        /\ medium' = [medium EXCEPT ![k] = u.file] /\ laundered' = laundered
    BY <1>2 DEF UploadTable
  <2>2. k \in TableKinds /\ OneOf(u.file.cells, k, laundered)
    BY UploadAssumption DEF TableKinds, OneOf
  <2>3. \A j \in TableKinds : OneOf(table'[j].sum, j, laundered)
    BY <1>0, <2>1, <2>2, ParsedIsOne DEF WholeInv, TablesInv
  <2>4. \A b \in LoBpms : IsWhole(set[b], laundered)
    <3> SUFFICES ASSUME NEW b \in LoBpms PROVE IsWhole(set[b], laundered)
      OBVIOUS
    <3>1. IsHardware(Hardware(b)) /\ Hardware(b).loaded = loaded[b]
      BY <1>0, HardwareHasBoth DEF TablesInv, Hardware
    <3>2. IsWhole(Hardware(b), laundered)
      BY <3>1 DEF IsWhole, WholeInv
    <3>3. IsWhole(Commit(Hardware(b), k, table'[k]), laundered)
      BY <2>2, <2>3, <3>1, <3>2, CommitKeepsWhole
    <3> QED BY <3>2, <3>3
  <2>5. \A b \in LoBpms, j \in TableKinds : OneOf(loaded'[b][j], j, laundered)
    BY <2>1, <2>4, SetIsWhole
  <2>6. DOMAIN medium' = TableKinds /\ \A j \in TableKinds : OneOf(medium'[j].cells, j, laundered)
    BY <2>1, <2>2 DEF WholeInv
  <2> QED BY <1>0, <2>1, <2>3, <2>5, <2>6 DEF WholeInv
<1>3. ASSUME UNCHANGED <<medium, table, loaded, laundered>> PROVE WholeInv'
  BY <1>0, <1>3 DEF WholeInv
<1>4. CASE Swap \/ FfsCheck
  BY <1>3, <1>4 DEF Swap, FfsCheck
<1>5. ASSUME NEW u \in Uploadable, UploadIsCut(u.kind, u.file) PROVE WholeInv'
  <2> DEFINE k == u.kind
             new == IF u.file.cells = <<>> THEN NoRows
                    ELSE [u.file EXCEPT !.cells = Front(@), !.stop = 0]
  <2>1. /\ medium' = [medium EXCEPT ![k] = new] /\ UNCHANGED <<table, loaded, laundered>>
    BY <1>5 DEF UploadIsCut
  <2>2. OneOf(new.cells, k, laundered)
    <3>1. CASE u.file.cells = <<>>
      BY <3>1, DefaultIsOne
    <3>2. CASE u.file.cells # <<>>
      <4>1. new.cells = Front(u.file.cells)
        BY <3>2, UploadAssumption
      <4> QED BY <3>2, <4>1, FrontIsOne DEF OneOf
    <3> QED BY <3>1, <3>2
  <2> HIDE DEF new
  <2>3. DOMAIN medium' = TableKinds /\ \A j \in TableKinds : OneOf(medium'[j].cells, j, laundered)
    BY <2>1, <2>2 DEF WholeInv
  <2> QED BY <1>0, <2>1, <2>3 DEF WholeInv
<1>6. ASSUME NEW k \in TableKinds, Download(k) PROVE WholeInv'
  <2>1. UNCHANGED <<table, loaded>> /\ laundered \subseteq laundered'
    BY <1>6 DEF Download
  <2>2. DOMAIN medium' = TableKinds /\ \A j \in TableKinds : OneOf(medium'[j].cells, j, laundered')
    <3>1. CASE /\ medium' = [medium EXCEPT ![k] = DownloadedRows(table[k])]
               /\ laundered' = IF table[k].sum = Content(table[k]) THEN laundered
                               ELSE laundered \cup {k}
      <4>1. DownloadedRows(table[k]).cells = Content(table[k])
        BY DEF DownloadedRows, TableRows
      <4>2. OneOf(Content(table[k]), k, laundered')
        BY <3>1 DEF WholeInv, OneOf
      <4> QED BY <2>1, <3>1, <4>1, <4>2 DEF WholeInv, OneOf
    <3>2. CASE medium' = [medium EXCEPT ![k] = NoRows]
      BY <2>1, <3>2, DefaultIsOne DEF WholeInv, OneOf
    <3> QED BY <1>6, <3>1, <3>2 DEF Download
  <2> QED BY <1>0, <2>1, <2>2 DEF WholeInv, OneOf
<1>7. ASSUME NEW b \in LoBpms, SetRms(b) \/ PtGenRun(b) PROVE WholeInv'
  BY <1>3, <1>7 DEF SetRms, PtGenRun
<1>8. CASE UNCHANGED tableVars
  BY <1>3, <1>8 DEF tableVars
<1> QED
  BY <1>1, <1>2, <1>4, <1>5, <1>6, <1>7, <1>8 DEF TablesNext

\* The rows the hardware has are those of one file, for any tables and files:
\* a refused file spoils the rows in memory but never a table in force, at
\* once or after a restart, unless the spoilt rows were downloaded to the card.
THEOREM TablesInForceAreWhole == TablesSpec => []TablesAreWhole
<1>1. WholeInv => TablesAreWhole
  BY DEF WholeInv, OneOf, TablesAreWhole
<1> QED BY WholeStart, WholeStep, <1>1, PTL DEF TablesSpec
-----------------------------------------------------------------------------
(* The settings of the channels: every command reaches the circuit of its  *)
(* channel only, and every index shows the circuit of its own.  No circuit *)
(* is shared but by the channels that share its wiring.                    *)

\* A circuit there is keeps its place.
SettingsInv == inForce \in [Kinds -> [Circuits -> Int]]

\* An index is that of a channel on a chain, and of no other; one past the last
\* chain is of none.
LEMMA IndexIs ==
  ASSUME NEW i \in Nat
  PROVE  /\ i % PerBpm \in Channels /\ i \div PerBpm \in Nat
         /\ i = PerBpm * (i \div PerBpm) + (i % PerBpm)
         /\ i \div PerBpm \in Chains <=> i \in Indices
<1> DEFINE q == i \div PerBpm
           r == i % PerBpm
<1>1. /\ PerBpm \in Nat /\ PerBpm > 0 /\ Bpms \in Nat /\ Bpms > 0
      /\ Bpms * PerBpm = PerBpm * Bpms /\ PerBpm * Bpms \in Nat
  BY SettingsAssumption
<1>2. r \in 0..(PerBpm - 1) /\ q \in Nat /\ i = PerBpm * q + r
  BY <1>1, SMTT(30)
<1> HIDE DEF q, r
<1>3. ASSUME q < Bpms PROVE i < PerBpm * Bpms
  <2> DEFINE d == Bpms - 1 - q
  <2>1. d \in Nat /\ Bpms = (q + 1) + d
    BY <1>1, <1>2, <1>3
  <2> HIDE DEF d
  <2>2. PerBpm * Bpms = PerBpm * q + PerBpm + PerBpm * d /\ PerBpm * d \in Nat /\ PerBpm * q \in Nat
    BY <1>1, <1>2, <2>1, SMTT(30)
  <2> QED BY <1>1, <1>2, <2>2
<1>4. ASSUME q >= Bpms PROVE i >= PerBpm * Bpms
  <2> DEFINE d == q - Bpms
  <2>1. d \in Nat /\ q = Bpms + d
    BY <1>1, <1>2, <1>4
  <2> HIDE DEF d
  <2>2. PerBpm * q = PerBpm * Bpms + PerBpm * d /\ PerBpm * d >= 0 /\ PerBpm * d \in Int
    BY <1>1, <1>2, <2>1, SMTT(30)
  <2> QED BY <1>1, <1>2, <2>2
<1>5. q \in Chains <=> i \in Indices
  BY <1>1, <1>2, <1>3, <1>4 DEF Chains, Indices
<1> QED BY <1>2, <1>5 DEF q, r, Channels

\* Swapping the chains keeps them apart.
LEMMA SwapsApart ==
  /\ \A b \in Chains : Swapped(b) \in Chains
  /\ \A a, b \in Chains : Swapped(a) = Swapped(b) => a = b
<1>1. Bpms \in Nat /\ Bpms > 0
  BY SettingsAssumption
<1>2. ASSUME NEW b \in Chains PROVE b + Bpms - 1 \in Nat /\ Swapped(b) \in Chains
  <2>1. b + Bpms - 1 \in Nat
    BY <1>1 DEF Chains
  <2> QED BY <1>1, <2>1, Rounds DEF Swapped, Chains
<1>3. ASSUME NEW a \in Chains, NEW b \in Chains, Swapped(a) = Swapped(b), a < b PROVE FALSE
  <2>1. (a + Bpms - 1) + Bpms <= b + Bpms - 1
    <3>1. a + Bpms - 1 < b + Bpms - 1
      BY <1>1, <1>3 DEF Chains
    <3>2. (a + Bpms - 1) % Bpms = (b + Bpms - 1) % Bpms
      BY <1>3 DEF Swapped
    <3> QED BY <1>1, <1>2, <3>1, <3>2, RemainderApart
  <2> QED BY <1>1, <2>1 DEF Chains
<1>4. \A a, b \in Chains : a < b \/ a = b \/ b < a
  BY <1>1 DEF Chains
<1> QED BY <1>2, <1>3, <1>4

\* The first converter of a tile is one of the chain's, and tells its tile.
LEMMA TileOf ==
  ASSUME NEW c \in Channels
  PROVE  /\ c - (c % PerTile) \in Channels
         /\ \A d \in Channels : c - (c % PerTile) = d - (d % PerTile) => c \div PerTile = d \div PerTile
<1>1. PerTile \in Nat /\ PerTile > 0 /\ PerBpm \in Nat
  BY SettingsAssumption
<1>2. ASSUME NEW d \in Channels
      PROVE  /\ d \in Nat /\ d % PerTile \in 0..(PerTile - 1) /\ d \div PerTile \in Nat
             /\ d = PerTile * (d \div PerTile) + (d % PerTile)
  <2>1. d \in Nat
    BY <1>1 DEF Channels
  <2> QED BY <1>1, <2>1, SMTT(30)
<1> DEFINE q == c \div PerTile
           r == c % PerTile
<1>3. c - r \in Channels
  <2>1. r \in 0..(PerTile - 1) /\ q \in Nat /\ c = PerTile * q + r /\ c \in Nat
    BY <1>2
  <2> HIDE DEF q, r
  <2>2. PerTile * q \in Nat
    BY <1>1, <2>1, SMTT(30)
  <2> QED BY <1>1, <2>1, <2>2 DEF Channels
<1>4. ASSUME NEW d \in Channels, c - r = d - (d % PerTile) PROVE q = d \div PerTile
  <2> DEFINE p == d \div PerTile
             s == d % PerTile
  <2>1. r \in 0..(PerTile - 1) /\ q \in Nat /\ c = PerTile * q + r /\ c \in Nat
    BY <1>2
  <2>2. s \in 0..(PerTile - 1) /\ p \in Nat /\ d = PerTile * p + s /\ d \in Nat
    BY <1>2
  <2>3. c - r = d - s
    BY <1>4
  <2> HIDE DEF q, r, p, s
  <2>4. PerTile * q \in Int /\ PerTile * p \in Int
    BY <1>1, <2>1, <2>2, SMTT(30)
  <2>5. PerTile * q = PerTile * p
    BY <1>1, <2>1, <2>2, <2>3, <2>4
  <2>6. q = p
    BY <1>1, <2>1, <2>2, <2>5, SMTT(30)
  <2> QED BY <2>6 DEF p
<1> QED BY <1>3, <1>4

\* Every channel that has a circuit of a kind has one there is.
LEMMA CircuitIsThere ==
  ASSUME NEW k \in Kinds, NEW b \in Chains, NEW c \in Channels
  PROVE  CircuitOf(k, b, c) \in Circuits
<1>1. 0 \in Channels /\ PerBpm - 1 - c \in Channels
  BY SettingsAssumption DEF Channels
<1>2. Swapped(b) \in Chains /\ c - (c % PerTile) \in Channels
  BY SwapsApart, TileOf
<1> QED BY <1>1, <1>2 DEF CircuitOf, AdcOf, DacOf, Circuits, Kinds

\* Channels with the same circuit are of one chain; they are the same channel
\* where it has its own, and of one tile where the tile has one.
LEMMA CircuitsApart ==
  ASSUME NEW k \in Kinds, NEW a \in Chains, NEW c \in Channels, NEW b \in Chains, NEW d \in Channels,
         CircuitOf(k, a, c) = CircuitOf(k, b, d)
  PROVE  /\ a = b
         /\ k \in {"dsa", "vop", "gain"} => c = d
         /\ k = "dacPwr" => c \div PerTile = d \div PerTile
<1>1. CASE k = "dsa"
  <2>1. <<Swapped(a), PerBpm - 1 - c>> = <<Swapped(b), PerBpm - 1 - d>>
    BY <1>1 DEF CircuitOf, AdcOf
  <2>2. Swapped(a) = Swapped(b) /\ PerBpm - 1 - c = PerBpm - 1 - d
    BY <2>1
  <2>3. c = d
    BY <2>2, SettingsAssumption DEF Channels
  <2> QED BY <1>1, <2>2, <2>3, SwapsApart
<1>2. CASE k = "vop"
  <2>1. <<Swapped(a), c>> = <<Swapped(b), d>>
    BY <1>2 DEF CircuitOf, DacOf
  <2> QED BY <1>2, <2>1, SwapsApart
<1>3. CASE k = "dacPwr"
  <2>1. <<Swapped(a), c - (c % PerTile)>> = <<Swapped(b), d - (d % PerTile)>>
    BY <1>3 DEF CircuitOf, DacOf
  <2>2. Swapped(a) = Swapped(b) /\ c - (c % PerTile) = d - (d % PerTile)
    BY <2>1
  <2> QED BY <1>3, <2>2, SwapsApart, TileOf
<1>4. CASE k \in {"afeAtt", "ptmAtt", "ptRun"}
  <2>1. <<a, 0>> = <<b, 0>>
    BY <1>4 DEF CircuitOf
  <2> QED BY <1>4, <2>1
<1>5. CASE k = "gain"
  <2>1. <<a, c>> = <<b, d>>
    BY <1>5 DEF CircuitOf
  <2> QED BY <1>5, <2>1
<1> QED BY <1>1, <1>2, <1>3, <1>4, <1>5 DEF Kinds

\* A value is stored as it is, an attenuation in quarters of a dB downwards.
LEMMA StoredIs ==
  ASSUME NEW k \in Kinds, NEW v \in Values(k)
  PROVE  /\ Stored(k, v) \in Int /\ Stored(k, v) <= v
         /\ v < Stored(k, v) + (IF k \in Attenuation THEN 250 ELSE 1)
<1>1. CASE k \in Attenuation
  <2>1. v \in {300, 31750, 32000} /\ Stored(k, v) = (((v * 4) \div 1000) * 1000) \div 4
    BY <1>1 DEF Values, Attenuation, Stored, InMdB, StepsOf
  <2> QED BY <1>1, <2>1
<1>2. CASE k \notin Attenuation
  <2>1. v \in {0, 1, 1000} /\ Stored(k, v) = v
    BY <1>2 DEF Values, Stored
  <2> QED BY <1>2, <2>1
<1> QED BY <1>1, <1>2

\* What a command does to the settings: one circuit of one kind, if any.
LEMMA CommandSets ==
  ASSUME SettingsInv, NEW kind \in Kinds, NEW idx \in Nat, NEW v \in Values(kind),
         Command(kind, idx, v)
  PROVE  LET bpm == idx \div PerBpm
             ch  == idx % PerBpm
         IN  /\ SettingsInv'
             /\ last' = [kind |-> kind, idx |-> idx, value |-> v, ok |-> Accepted(kind, bpm, ch, v)]
             /\ last'.ok => /\ bpm \in Chains /\ ch \in Channels
                            /\ inForce'[kind][CircuitOf(kind, bpm, ch)] = Stored(kind, v)
             /\ \A k \in Kinds, c \in Circuits :
                  inForce'[k][c] # inForce[k][c] =>
                     k = kind /\ last'.ok /\ c = CircuitOf(kind, bpm, ch)
<1> DEFINE bpm == idx \div PerBpm
           ch  == idx % PerBpm
           ok  == Accepted(kind, bpm, ch, v)
           at  == CircuitOf(kind, bpm, ch)
           to  == Stored(kind, v)
<1>1. /\ last' = [kind |-> kind, idx |-> idx, value |-> v, ok |-> ok]
      /\ inForce' = IF ok THEN [inForce EXCEPT ![kind][at] = to] ELSE inForce
  BY DEF Command
<1>2. ch \in Channels /\ (ok => bpm \in Chains)
  BY IndexIs DEF Accepted
<1>3. ok => at \in Circuits
  BY <1>2, CircuitIsThere
<1>4. to \in Int
  BY StoredIs
<1>5. last'.ok = ok
  BY <1>1
<1> HIDE DEF bpm, ch, ok, at, to
<1>6. inForce \in [Kinds -> [Circuits -> Int]]
  BY DEF SettingsInv
<1>7. SettingsInv'
  BY <1>1, <1>3, <1>4, <1>6 DEF SettingsInv
<1>8. ok => inForce'[kind][at] = to
  BY <1>1, <1>3, <1>6
<1>9. \A k \in Kinds, c \in Circuits :
         inForce'[k][c] # inForce[k][c] => k = kind /\ ok /\ c = at
  BY <1>1, <1>6
<1> QED BY <1>1, <1>2, <1>5, <1>7, <1>8, <1>9 DEF bpm, ch, ok, at, to

LEMMA SettingsStep == SettingsInv /\ [Next]_vars => SettingsInv'
<1>1. ASSUME SettingsInv, NEW k \in Kinds, NEW idx \in 0..((Bpms + 1) * PerBpm - 1),
             NEW v \in Values(k), Command(k, idx, v)
      PROVE  SettingsInv'
  BY <1>1, CommandSets
<1>2. ASSUME SettingsInv, AdcStatus \/ Overrange \/ UNCHANGED vars PROVE SettingsInv'
  BY <1>2 DEF SettingsInv, AdcStatus, Overrange, vars
<1> QED BY <1>1, <1>2 DEF Next

LEMMA SettingsStart == Init => SettingsInv
  BY DEF Init, SettingsInv

\* What an index shows changes only by an accepted command for a channel of the
\* same wiring, and is then what was commanded: for any number of chains, of
\* channels of a chain and converters of a tile.  (epicsApplicationCommand,
\* publishSlowAcquisition and the CFG_ options that swap and reverse)
THEOREM ChannelsKeepTheirSettings == Spec => ShownIsCommanded
<1> DEFINE Commanded ==
      <<inForce, last>>' # <<inForce, last>> =>
       \A k \in Kinds :
          LET packet == Published(k) IN
          /\ \A i \in Indices : packet'[i] # packet[i] =>
                /\ last'.kind = k /\ last'.ok /\ last'.idx \div PerBpm = i \div PerBpm
                /\ k \in {"dsa", "vop", "gain"} => last'.idx = i
                /\ k = "dacPwr" =>
                       (last'.idx % PerBpm) \div PerTile = (i % PerBpm) \div PerTile
          /\ last' # last /\ last'.kind = k /\ last'.ok =>
                /\ packet'[last'.idx] <= last'.value
                /\ last'.value < packet'[last'.idx] + (IF k \in Attenuation THEN 250 ELSE 1)
<1>1. SettingsInv /\ [Next]_vars => [Commanded]_vars
  <2> SUFFICES ASSUME SettingsInv, [Next]_vars, <<inForce, last>>' # <<inForce, last>>,
                      NEW k \in Kinds
               PROVE  /\ \A i \in Indices : Published(k)'[i] # Published(k)[i] =>
                           /\ last'.kind = k /\ last'.ok /\ last'.idx \div PerBpm = i \div PerBpm
                           /\ k \in {"dsa", "vop", "gain"} => last'.idx = i
                           /\ k = "dacPwr" =>
                                  (last'.idx % PerBpm) \div PerTile = (i % PerBpm) \div PerTile
                      /\ last' # last /\ last'.kind = k /\ last'.ok =>
                           /\ Published(k)'[last'.idx] <= last'.value
                           /\ last'.value < Published(k)'[last'.idx] + (IF k \in Attenuation THEN 250 ELSE 1)
    OBVIOUS
  <2>1. PICK kind \in Kinds, idx \in 0..((Bpms + 1) * PerBpm - 1) :
             \E v \in Values(kind) : Command(kind, idx, v)
    BY DEF Next, AdcStatus, Overrange, vars
  <2>2. PICK v \in Values(kind) : Command(kind, idx, v)
    BY <2>1
  <2> DEFINE bpm == idx \div PerBpm
             ch  == idx % PerBpm
  <2>3. idx \in Nat
    OBVIOUS
  <2>4. /\ last' = [kind |-> kind, idx |-> idx, value |-> v, ok |-> Accepted(kind, bpm, ch, v)]
        /\ last'.ok => /\ bpm \in Chains /\ ch \in Channels
                       /\ inForce'[kind][CircuitOf(kind, bpm, ch)] = Stored(kind, v)
        /\ \A q \in Kinds, c \in Circuits :
             inForce'[q][c] # inForce[q][c] =>
                q = kind /\ last'.ok /\ c = CircuitOf(kind, bpm, ch)
    BY <2>2, <2>3, CommandSets
  <2>5. last'.kind = kind /\ last'.idx = idx /\ last'.value = v
    BY <2>4
  <2>6. idx = PerBpm * bpm + ch /\ (bpm \in Chains => idx \in Indices)
    BY <2>3, IndexIs
  <2>7. ASSUME NEW i \in Indices, Published(k)'[i] # Published(k)[i]
        PROVE  /\ k = kind /\ last'.ok /\ bpm = i \div PerBpm
               /\ k \in {"dsa", "vop", "gain"} => idx = i
               /\ k = "dacPwr" => ch \div PerTile = (i % PerBpm) \div PerTile
    <3> DEFINE b == i \div PerBpm
               d == i % PerBpm
    <3>1. i \in Nat
      BY SettingsAssumption DEF Indices
    <3>2. b \in Chains /\ d \in Channels /\ i = PerBpm * b + d
      BY <3>1, IndexIs
    <3>3. CircuitOf(k, b, d) \in Circuits
      BY <3>2, CircuitIsThere
    <3>4. inForce'[k][CircuitOf(k, b, d)] # inForce[k][CircuitOf(k, b, d)]
      BY <2>7 DEF Published
    <3>5. k = kind /\ last'.ok /\ CircuitOf(k, b, d) = CircuitOf(k, bpm, ch)
      BY <2>4, <3>3, <3>4
    <3>6. bpm \in Chains /\ ch \in Channels
      BY <2>4, <3>5
    <3> HIDE DEF b, d, bpm, ch
    <3>7. /\ b = bpm /\ (k \in {"dsa", "vop", "gain"} => d = ch)
          /\ k = "dacPwr" => d \div PerTile = ch \div PerTile
      BY <3>2, <3>5, <3>6, CircuitsApart
    <3>8. k \in {"dsa", "vop", "gain"} => idx = i
      BY <2>6, <3>2, <3>7
    <3> QED BY <3>5, <3>7, <3>8 DEF b, d
  <2>8. ASSUME kind = k, last'.ok
        PROVE  /\ Published(k)'[idx] <= v
               /\ v < Published(k)'[idx] + (IF k \in Attenuation THEN 250 ELSE 1)
    <3>1. idx \in Indices
      BY <2>4, <2>6, <2>8
    <3>2. Published(k)'[idx] = Stored(k, v)
      BY <2>4, <2>8, <3>1 DEF Published
    <3> QED BY <2>8, <3>2, StoredIs
  <2> QED BY <2>5, <2>7, <2>8
<1>2. Spec => []SettingsInv
  BY SettingsStart, SettingsStep, PTL DEF Spec
<1> QED BY <1>1, <1>2, PTL DEF Spec, ShownIsCommanded
-----------------------------------------------------------------------------
(* The system parameters and the console.                                  *)

\* A set of numbers has a smallest one, and one of indices a largest.
LEMMA Smallest ==
  ASSUME NEW T \in SUBSET Nat, T # {}
  PROVE  \E x \in T : \A y \in T : x <= y
<1> DEFINE R == {ss \in Nat \X Nat : ss[1] < ss[2]}
<1>1. IsWellFoundedOn(R, Nat)
  BY NatLessThanWellFounded DEF OpToRel
<1>2. \A x, y \in Nat : y < x => <<y, x>> \in R
  OBVIOUS
<1> HIDE DEF R
<1>3. PICK x \in T : \A y \in T : ~ (<<y, x>> \in R)
  BY <1>1, WFMin
<1>4. \A y \in T : x <= y
  <2> SUFFICES ASSUME NEW y \in T PROVE ~ (y < x)
    OBVIOUS
  <2> QED BY <1>2, <1>3
<1> QED BY <1>4

LEMMA Largest ==
  ASSUME NEW n \in Nat, NEW S \in SUBSET (1..n), S # {}
  PROVE  Max(S) \in S
<1> DEFINE T == {n - i : i \in S}
<1>1. \A i \in S : i \in Int /\ n - i \in Nat
  OBVIOUS
<1>2. T \in SUBSET Nat /\ T # {}
  BY <1>1
<1> HIDE DEF T
<1>3. PICK x \in T : \A y \in T : x <= y
  BY <1>2, Smallest
<1>4. PICK i \in S : x = n - i
  BY <1>3 DEF T
<1>5. \A j \in S : n - i <= n - j
  BY <1>3, <1>4 DEF T
<1>6. \A j \in S : i >= j
  BY <1>1, <1>5
<1> QED BY <1>6 DEF Max

LEMMA FieldsAre == Fields = {"mac", "ipv4", "offset", "flags", "rotation"}
BY DEF Fields, Names, ToSet

\* A value for every parameter, and parameters that may be in force.
AreValues(p) == p = [f \in Fields |-> p[f]] /\ \A f \in Fields : p[f] # Invalid
AreParameters(p) == AreValues(p) /\ p["rotation"] \in {0, 45}

LEMMA DefaultsAre == AreParameters(Default)
BY FieldsAre DEF AreParameters, AreValues, Default, Invalid

\* Reading a file sets no parameter to what does not parse.
LEMMA ParsedAre ==
  ASSUME NEW file, Len(file) \in Nat, NEW to, AreValues(to), NEW seen
  PROVE  AreValues(Parsed(file, to, seen).to)
<1>1. ASSUME NEW f, Setting(file, f) # {}
      PROVE  file[Max(Setting(file, f))].value # Invalid
  <2> DEFINE set == Setting(file, f)
  <2>1. set \in SUBSET (1..Len(file)) /\ \A i \in set : i \in 1..i /\ i \in Read(file)
    BY DEF Setting, Read
  <2>2. \A i \in set : file[i].value # Invalid
    BY <2>1 DEF Read
  <2> HIDE DEF set
  <2>3. set # {}
    BY <1>1 DEF set
  <2>4. Max(set) \in set
    BY <2>1, <2>3, Largest
  <2> QED BY <2>2, <2>4 DEF set
<1> DEFINE p == [f \in Fields |-> IF Setting(file, f) = {} THEN to[f]
                                  ELSE file[Max(Setting(file, f))].value]
<1>2. \A f \in Fields : p[f] # Invalid
  BY <1>1 DEF AreValues
<1>3. p = [f \in Fields |-> p[f]]
  OBVIOUS
<1>4. Parsed(file, to, seen).to = p
  BY DEF Parsed
<1> HIDE DEF p
<1> QED BY <1>2, <1>3, <1>4 DEF AreValues

\* The rotation of the old form is the same as none.
Normal(p) == [p EXCEPT !["rotation"] = IF @ = 90 THEN 0 ELSE @]
LEMMA NormalAre ==
  ASSUME NEW p, AreValues(p)
  PROVE  AreValues(Normal(p)) /\ (p["rotation"] # 90 => Normal(p) = p)
BY FieldsAre, Zenon, SMTT(30) DEF AreValues, Normal, Invalid

\* What a file is stashed as: the values it was read into, with their checksum
\* when they are good.
LEMMA StashedIs ==
  ASSUME NEW file, Len(file) \in Nat, NEW c, AreValues(c), NEW sum, NEW seen
  PROVE  LET s == Stashed(file, c, sum, seen)
             r == Parsed(file, c, seen)
         IN  /\ AreValues(s.to)
             /\ s.good => /\ s.sum = s.to /\ AreParameters(s.to) /\ s.to = Normal(r.to)
                          /\ ~ r.bad /\ r.seen = Fields
             /\ ~ s.good => s.sum = sum
<1> DEFINE r == Parsed(file, c, seen)
           p == Normal(r.to)
           read == ~ r.bad /\ r.seen = Fields
           good == read /\ p["rotation"] \in {0, 45}
           s == Stashed(file, c, sum, seen)
<1>1. AreValues(r.to) /\ AreValues(p)
  BY ParsedAre, NormalAre
<1>2. CASE file = <<>>
  <2>1. s = [to |-> c, sum |-> sum, seen |-> seen, good |-> FALSE]
    BY <1>2 DEF Stashed
  <2> QED BY <2>1
<1>3. CASE file # <<>>
  <2>1. s = [to |-> IF read THEN p ELSE r.to, sum |-> IF good THEN p ELSE sum,
             seen |-> r.seen, good |-> good]
    BY <1>3 DEF Stashed, Missing, Normal
  <2>2. /\ s.to = IF read THEN p ELSE r.to
        /\ s.sum = IF good THEN p ELSE sum
        /\ s.good <=> good
    <3> HIDE DEF s, r, p
    <3> QED BY <2>1
  <2> HIDE DEF s, r, p
  <2>3. AreValues(s.to)
    BY <1>1, <2>2
  <2>4. good => s.to = p /\ s.sum = p /\ AreParameters(p) /\ ~ r.bad /\ r.seen = Fields
    BY <1>1, <2>2 DEF AreParameters
  <2>5. ~ good => s.sum = sum
    BY <2>2
  <2> HIDE DEF good
  <2> QED BY <2>2, <2>3, <2>4, <2>5 DEF s, r, p
<1> QED BY <1>2, <1>3

\* A file that sets every parameter means the same whatever the values before.
LEMMA MeansTheSame ==
  ASSUME NEW file, NEW c, NEW seen, ~ Parsed(file, c, seen).bad,
         \A f \in Fields : Setting(file, f) # {},
         Normal(Parsed(file, c, seen).to)["rotation"] \in {0, 45}
  PROVE  Meaning(file) = Normal(Parsed(file, c, seen).to)
<1> DEFINE r == Parsed(file, c, seen)
           d == Parsed(file, Default, {})
<1>1. d.to = r.to /\ d.bad = r.bad /\ d.seen = Fields
  BY DEF Parsed
<1>2. ~ d.bad /\ ~ Missing(d) /\ Normal(d.to)["rotation"] \in {0, 45}
  BY <1>1 DEF Missing
<1>3. Meaning(file) = IF d.bad \/ Missing(d) \/ Normal(d.to)["rotation"] \notin {0, 45}
                      THEN Default ELSE Normal(d.to)
  BY DEF Meaning, Normal
<1> QED BY <1>1, <1>2, <1>3

Zeros == [f \in Fields |-> 0]
StartsWith(file) ==
  LET s == Stashed(file, Zeros, NoSum, {}) IN Committed(s.to, s.sum)

\* At the start either the whole of the file is committed, or the defaults.
LEMMA StartIs ==
  ASSUME NEW file, Len(file) \in Nat
  PROVE  AreParameters(StartsWith(file)) /\ StartsWith(file) \in {Default, Meaning(file)}
<1> DEFINE s == Stashed(file, Zeros, NoSum, {})
           r == Parsed(file, Zeros, {})
<1>1. AreValues(Zeros)
  BY DEF AreValues, Zeros, Invalid
<1>2. /\ AreValues(s.to)
      /\ s.good => /\ s.sum = s.to /\ AreParameters(s.to) /\ s.to = Normal(r.to)
                   /\ ~ r.bad /\ r.seen = Fields
      /\ ~ s.good => s.sum = NoSum
  BY <1>1, StashedIs
<1>3. StartsWith(file) = IF s.sum = s.to THEN s.to ELSE Default
  BY DEF StartsWith, Committed
<1>4. NoSum # s.to
  <2>1. DOMAIN s.to = Fields /\ Fields # {} /\ DOMAIN NoSum = {}
    BY <1>2, FieldsAre DEF AreValues, NoSum
  <2> QED BY <2>1
<1>5. CASE s.good
  <2>1. \A f \in Fields : Setting(file, f) # {}
    BY <1>2, <1>5 DEF Parsed
  <2>2. Normal(r.to)["rotation"] \in {0, 45}
    BY <1>2, <1>5 DEF AreParameters
  <2>3. Meaning(file) = s.to
    <3>1. ~ r.bad /\ Meaning(file) = Normal(r.to)
      BY <1>2, <1>5, <2>1, <2>2, MeansTheSame
    <3>2. s.to = Normal(r.to)
      BY <1>2, <1>5
    <3> QED BY <3>1, <3>2
  <2> QED BY <1>2, <1>3, <1>5, <2>3
<1>6. CASE ~ s.good
  BY <1>2, <1>3, <1>4, <1>6, DefaultsAre
<1> QED BY <1>5, <1>6

\* What was written is a file that means what was stored.
LEMMA WrittenMeans ==
  ASSUME NEW p, AreParameters(p)
  PROVE  Len(Table(p)) \in Nat /\ StartsWith(Table(p)) = p
<1> DEFINE file == Table(p)
           r == Parsed(file, Zeros, {})
           s == Stashed(file, Zeros, NoSum, {})
<1>1. /\ Len(file) = 5
      /\ \A i \in 1..5 : Names[i] \in Fields /\ file[i].name = Names[i] /\ file[i].value = p[Names[i]]
  BY FieldsAre DEF Table, Names
<1> HIDE DEF file
<1>2. Read(file) = 1..5
  <2>1. \A i \in 1..5 : file[i].value # Invalid
    BY <1>1 DEF AreParameters, AreValues
  <2> QED BY <1>1, <2>1 DEF Read
<1>3. \A i \in 1..5 : Setting(file, Names[i]) = {i}
  BY <1>1, <1>2 DEF Setting, Names
<1>4. \A f \in Fields : \E i \in 1..5 : f = Names[i]
  BY FieldsAre DEF Names
<1>5. \A i \in 1..5 : Max({i}) = i
  <2>1. ASSUME NEW i \in 1..5 PROVE Max({i}) = i
    <3>1. Max({i}) \in {i}
      BY Largest
    <3> QED BY <3>1
  <2> QED BY <2>1
<1>6. \A f \in Fields : Setting(file, f) # {} /\ file[Max(Setting(file, f))].value = p[f]
  <2>1. ASSUME NEW f \in Fields PROVE Setting(file, f) # {} /\ file[Max(Setting(file, f))].value = p[f]
    <3>1. PICK i \in 1..5 : f = Names[i]
      BY <1>4
    <3>2. Setting(file, f) = {i}
      BY <1>3, <3>1
    <3> QED BY <1>1, <1>5, <3>1, <3>2
  <2> QED BY <2>1
<1>7. r.to = [f \in Fields |-> p[f]] /\ ~ r.bad /\ r.seen = Fields
  BY <1>1, <1>2, <1>6 DEF Parsed
<1>8. r.to = p /\ Normal(p) = p /\ p["rotation"] \in {0, 45}
  BY <1>7, NormalAre DEF AreParameters, AreValues
<1>9. file # <<>>
  <2>1. 1 \in DOMAIN file
    BY DEF file, Table, Names
  <2> QED BY <2>1
<1>10. s.to = p /\ s.sum = p
  BY <1>7, <1>8, <1>9 DEF Stashed, Missing, Normal
<1> QED BY <1>1, <1>10 DEF StartsWith, Committed, file
\* What may be in force, and what the next file is read into.
InForceInv ==
  /\ AreParameters(parameters) /\ AreValues(candidate)
  /\ inUse.mac # Invalid /\ inUse.ipv4 # Invalid
  /\ restarts \in Nat /\ uploads \in Nat

\* A table that is being written is of what is in force, and the card keeps what
\* was written whole until something else is.
CardInv ==
  /\ Len(card) \in Nat
  /\ toWrite # NoFile => toWrite = Table(parameters)
  /\ kept # {} => \E p \in kept : AreParameters(p) /\ kept = {p} /\ card = Table(p)

\* An open question is about what was shown last.
QuestionInv ==
  /\ DOMAIN asked = {"ipv4", "mac"} /\ asked["ipv4"] # Invalid /\ asked["mac"] # Invalid
  /\ mode \in {"ipv4", "mac"} => shown = {asked[mode]}

ConsoleInv == InForceInv /\ CardInv /\ QuestionInv

LEMMA ConsoleBegins == ConsoleInit => ConsoleInv
<1> SUFFICES ASSUME ConsoleInit PROVE ConsoleInv
  OBVIOUS
<1>1. AreParameters(Default) /\ Default["mac"] = 0 /\ Default["ipv4"] = 0
  BY DefaultsAre, FieldsAre DEF Default
<1>2. inUse.mac # Invalid /\ inUse.ipv4 # Invalid
  BY <1>1 DEF ConsoleInit, ParametersInit, NetworkAtStart, Invalid
<1>3. InForceInv
  BY <1>1, <1>2 DEF ConsoleInit, ParametersInit, InForceInv, AreParameters
<1>4. CardInv
  BY DEF ConsoleInit, ParametersInit, CardInv
<1>5. QuestionInv
  BY DEF ConsoleInit, QuestionInv, Invalid
<1> QED BY <1>3, <1>4, <1>5 DEF ConsoleInv

\* Good parameters are put in force, and perhaps begun to be written.
LEMMA Stores ==
  ASSUME ConsoleInv, toWrite = NoFile, NEW p, AreParameters(p), StoreParameters(p), Kept
  PROVE  InForceInv' /\ CardInv'
<1>1. InForceInv'
  BY DEF ConsoleInv, InForceInv, StoreParameters, Kept
<1>2. CASE card' = <<>> /\ toWrite' = Table(p) /\ kept' = {}
  <2>1. Len(<<>>) \in Nat
    OBVIOUS
  <2> QED BY <1>1, <1>2, <2>1 DEF CardInv, StoreParameters
<1>3. CASE UNCHANGED <<card, toWrite, kept>>
  BY <1>1, <1>3 DEF CardInv, ConsoleInv
<1> QED BY <1>2, <1>3 DEF StoreParameters, Fetch

\* One parameter is replaced.
LEMMA Replaces ==
  ASSUME AreParameters(parameters), NEW f \in Fields \ {"rotation"}, NEW v, v # Invalid
  PROVE  /\ AreParameters([parameters EXCEPT ![f] = v])
         /\ [parameters EXCEPT ![f] = v][f] = v
         /\ \A g \in Fields \ {f} : [parameters EXCEPT ![f] = v][g] = parameters[g]
BY FieldsAre DEF AreParameters, AreValues

\* What was stored, if anything, was asked about, and confirmed by these words.
Confirms(words) ==
  \A kind \in {"ipv4", "mac"} : parameters'[kind] # parameters[kind] =>
    mode = kind /\ shown = {parameters'[kind]} /\ Len(words) = 1 /\ Head(words).cmd = "y"

LEMMA Asks ==
  ASSUME ConsoleInv, NEW kind \in {"ipv4", "mac"}, NEW value, value # Invalid, Ask(kind, value)
  PROVE  ConsoleInv' /\ parameters' = parameters
<1>1. QuestionInv'
  BY DEF Ask, ConsoleInv, QuestionInv
<1>2. UNCHANGED parameterVars
  BY DEF Ask
<1> QED BY <1>1, <1>2 DEF parameterVars, ConsoleInv, InForceInv, CardInv

LEMMA Lined ==
  ASSUME ConsoleInv, toWrite = NoFile, NEW words, HandleLine(words)
  PROVE  ConsoleInv' /\ Confirms(words) /\ UNCHANGED <<restarts, uploads>>
<1> DEFINE word == IF words = <<>> THEN NL
                   ELSE IF Len(words) = 1 THEN Head(words)
                   ELSE IF mode \in Queries THEN NL
                   ELSE [Head(words) EXCEPT !.arg =
                             IF Head(words).cmd \in {"ipv4", "mac"} THEN Invalid ELSE @]
<1>1. \/ \E kind \in {"ipv4", "mac"} : Answer(kind, word) \/ ChangeNetwork(kind, word)
      \/ ChangeOffset(word) \/ ChangeFlags(word) \/ Others(word)
  BY DEF HandleLine
<1>2. mode \in Queries /\ word.cmd = "y" => Len(words) = 1 /\ Head(words).cmd = "y"
  BY DEF NL
<1> HIDE DEF word
<1>3. AreParameters(parameters) /\ InForceInv /\ CardInv /\ QuestionInv
  BY DEF ConsoleInv, InForceInv
<1>4. "ipv4" \in Fields /\ "mac" \in Fields /\ "offset" \in Fields /\ "flags" \in Fields
  BY FieldsAre
<1>5. ASSUME UNCHANGED parameterVars, QuestionInv'
      PROVE  ConsoleInv' /\ Confirms(words) /\ UNCHANGED <<restarts, uploads>>
  BY <1>3, <1>5 DEF parameterVars, ConsoleInv, InForceInv, CardInv, Confirms
<1>6. ASSUME NEW kind \in {"ipv4", "mac"}, Answer(kind, word)
      PROVE  ConsoleInv' /\ Confirms(words) /\ UNCHANGED <<restarts, uploads>>
  <2>1. mode = kind /\ asked[kind] # Invalid /\ shown = {asked[kind]}
    BY <1>3, <1>6 DEF Answer, QuestionInv
  <2> DEFINE p == [parameters EXCEPT ![kind] = asked[kind]]
  <2>2. CASE /\ word.cmd = "y" /\ StoreParameters(p)
             /\ mode' = "command" /\ Kept /\ UNCHANGED <<asked, shown, offset>>
    <3>1. /\ AreParameters(p) /\ p[kind] = asked[kind]
          /\ \A g \in {"ipv4", "mac"} \ {kind} : p[g] = parameters[g]
      BY <1>3, <1>4, <2>1, Replaces
    <3> HIDE DEF p
    <3>2. InForceInv' /\ CardInv'
      BY <2>2, <3>1, Stores
    <3>3. QuestionInv'
      BY <1>3, <2>2 DEF QuestionInv
    <3>4. parameters' = p /\ UNCHANGED <<restarts, uploads>>
      BY <2>2 DEF StoreParameters, Kept
    <3>5. Len(words) = 1 /\ Head(words).cmd = "y"
      BY <1>2, <2>1, <2>2 DEF Queries
    <3>6. Confirms(words)
      BY <2>1, <3>1, <3>4, <3>5 DEF Confirms
    <3> QED BY <3>2, <3>3, <3>4, <3>6 DEF ConsoleInv
  <2>3. CASE mode' = "command" /\ UNCHANGED <<parameterVars, asked, shown>>
    <3>1. QuestionInv'
      BY <1>3, <2>3 DEF QuestionInv
    <3> QED BY <1>5, <2>3, <3>1
  <2>4. CASE Ask(kind, asked[kind])
    <3>1. UNCHANGED parameterVars /\ QuestionInv'
      BY <2>1, <2>4, Asks DEF Ask, ConsoleInv
    <3> QED BY <1>5, <3>1
  <2> QED BY <1>6, <2>2, <2>3, <2>4 DEF Answer
<1>7. ASSUME NEW kind \in {"ipv4", "mac"}, ChangeNetwork(kind, word)
      PROVE  ConsoleInv' /\ Confirms(words) /\ UNCHANGED <<restarts, uploads>>
  <2>1. inUse[kind] # Invalid
    BY <1>3 DEF InForceInv
  <2>2. ASSUME NEW value, value # Invalid, Ask(kind, value)
        PROVE  UNCHANGED parameterVars /\ QuestionInv'
    BY <2>2, Asks DEF Ask, ConsoleInv
  <2>3. CASE word.arg = NoArg /\ Ask(kind, inUse[kind])
    BY <1>5, <2>1, <2>2, <2>3
  <2>4. CASE word.arg \notin {NoArg, Invalid} /\ Ask(kind, word.arg)
    BY <1>5, <2>2, <2>4
  <2>5. CASE \E v \in {asked[kind], 9} : /\ asked' = [asked EXCEPT ![kind] = v]
                                         /\ UNCHANGED <<parameterVars, mode, shown>>
    <3>1. mode = "command" /\ asked[kind] # Invalid /\ 9 # Invalid
      BY <1>3, <1>7 DEF ChangeNetwork, QuestionInv, Invalid
    <3>2. QuestionInv'
      BY <1>3, <2>5, <3>1 DEF QuestionInv
    <3> QED BY <1>5, <2>5, <3>2
  <2> QED BY <1>7, <2>3, <2>4, <2>5 DEF ChangeNetwork
<1>8. ASSUME NEW f \in {"offset", "flags"}, NEW v, v # Invalid, Kept,
             StoreParameters([parameters EXCEPT ![f] = v]), mode = "command", UNCHANGED <<mode, asked, shown>>
      PROVE  ConsoleInv' /\ Confirms(words) /\ UNCHANGED <<restarts, uploads>>
  <2> DEFINE p == [parameters EXCEPT ![f] = v]
  <2>1. AreParameters(p) /\ \A g \in {"ipv4", "mac"} : p[g] = parameters[g]
    BY <1>3, <1>4, <1>8, Replaces
  <2>2. StoreParameters(p)
    BY <1>8
  <2> HIDE DEF p
  <2>3. InForceInv' /\ CardInv'
    BY <1>8, <2>1, <2>2, Stores
  <2>4. QuestionInv' /\ UNCHANGED <<restarts, uploads>>
    BY <1>3, <1>8 DEF QuestionInv, Kept
  <2>5. Confirms(words)
    BY <2>1, <2>2 DEF Confirms, StoreParameters
  <2> QED BY <2>3, <2>4, <2>5 DEF ConsoleInv
<1>9. CASE ChangeOffset(word)
  <2>1. CASE UNCHANGED <<parameters, offset, card, toWrite, kept>>
    <3>1. QuestionInv' /\ UNCHANGED parameterVars
      BY <1>3, <1>9, <2>1 DEF ChangeOffset, QuestionInv, Kept, parameterVars
    <3> QED BY <1>5, <3>1
  <2>2. CASE /\ word.arg \notin {NoArg, Invalid}
             /\ StoreParameters([parameters EXCEPT !["offset"] = word.arg])
    BY <1>8, <1>9, <2>2 DEF ChangeOffset
  <2> QED BY <1>9, <2>1, <2>2 DEF ChangeOffset
<1>10. CASE ChangeFlags(word)
  <2> DEFINE v == IF word.arg \in {NoArg, Invalid} THEN parameters["flags"] ELSE word.arg
  <2>1. v # Invalid
    BY <1>3, <1>4 DEF AreParameters, AreValues
  <2>2. StoreParameters([parameters EXCEPT !["flags"] = v])
    BY <1>10 DEF ChangeFlags
  <2> HIDE DEF v
  <2> QED BY <1>8, <1>10, <2>1, <2>2 DEF ChangeFlags
<1>11. CASE Others(word)
  <2>1. mode' \notin {"ipv4", "mac"} /\ UNCHANGED <<parameterVars, asked, shown>>
    BY <1>11 DEF Others
  <2>2. QuestionInv'
    BY <1>3, <2>1 DEF QuestionInv
  <2> QED BY <1>5, <2>1, <2>2
<1> QED BY <1>1, <1>6, <1>7, <1>9, <1>10, <1>11

\* A character: a newline hands the line over.
LEMMA Takes ==
  ASSUME ConsoleInv, toWrite = NoFile, NEW c, NEW from, Take(c, from)
  PROVE  ConsoleInv' /\ Confirms(line) /\ UNCHANGED <<restarts, uploads>>
<1>1. CASE c = NL
  BY <1>1, Lined DEF Take
<1>2. CASE c # NL
  BY <1>2 DEF Take, parameterVars, ConsoleInv, InForceInv, CardInv, QuestionInv, Confirms
<1> QED BY <1>1, <1>2

\* A restart takes the file on the card or the defaults.
LEMMA Reboots ==
  ASSUME ConsoleInv, Reboot
  PROVE  /\ ConsoleInv' /\ parameters' = StartsWith(card) /\ card' = card
         /\ uploads' = uploads /\ restarts' # restarts
<1>1. /\ parameters' = StartsWith(card) /\ candidate' = StartsWith(card)
      /\ inUse' = NetworkAtStart(StartsWith(card))
      /\ UNCHANGED <<card, kept, uploads>> /\ toWrite' = NoFile /\ restarts' = restarts + 1
  BY DEF Reboot, Restart, Started, StartsWith, Zeros
<1>2. AreParameters(StartsWith(card))
  BY StartIs DEF ConsoleInv, CardInv
<1>3. inUse'.mac # Invalid /\ inUse'.ipv4 # Invalid
  <2>1. Default["mac"] = 0 /\ Default["ipv4"] = 0 /\ Invalid # 0
    BY FieldsAre DEF Default, Invalid
  <2>2. StartsWith(card)["mac"] # Invalid /\ StartsWith(card)["ipv4"] # Invalid
    BY <1>2, FieldsAre DEF AreParameters, AreValues
  <2> QED BY <1>1, <2>1, <2>2 DEF NetworkAtStart
<1>4. InForceInv' /\ restarts' # restarts
  BY <1>1, <1>2, <1>3 DEF ConsoleInv, InForceInv, AreParameters
<1>5. CardInv'
  BY <1>1 DEF ConsoleInv, CardInv
<1>6. QuestionInv'
  BY DEF Reboot, ConsoleStart, QuestionInv, Invalid
<1> QED BY <1>1, <1>4, <1>5, <1>6 DEF ConsoleInv

\* An upload, whole or given up.
LEMMA UploadsFile ==
  ASSUME ConsoleInv, NEW file \in Files, Upload(file), UNCHANGED consoleVars
  PROVE  /\ ConsoleInv' /\ restarts' = restarts /\ card' = file
         /\ parameters' # parameters /\ Fields \subseteq Lines(file) =>
              parameters' \in {Default, Meaning(file)}
<1> DEFINE s == Stashed(file, candidate, checksum, visited)
           r == Parsed(file, candidate, visited)
<1>1. Len(file) \in Nat
  BY ParametersAssumption
<1>2. /\ AreValues(s.to)
      /\ s.good => /\ s.sum = s.to /\ AreParameters(s.to) /\ s.to = Normal(r.to)
                   /\ ~ r.bad /\ r.seen = Fields
  BY <1>1, StashedIs DEF ConsoleInv, InForceInv
<1>3. /\ card' = file /\ kept' = {} /\ uploads' = uploads + 1
      /\ UNCHANGED <<inUse, toWrite, restarts>> /\ toWrite = NoFile
      /\ IF s.good THEN parameters' = Committed(s.to, s.sum) /\ candidate' = Committed(s.to, s.sum)
         ELSE candidate' = s.to /\ parameters' = parameters
  BY DEF Upload
<1>4. s.good => Committed(s.to, s.sum) = s.to
  BY <1>2 DEF Committed
<1> HIDE DEF s, r
<1>5. InForceInv'
  BY <1>2, <1>3, <1>4 DEF ConsoleInv, InForceInv, AreParameters
<1>6. CardInv'
  BY <1>1, <1>3 DEF CardInv
<1>7. QuestionInv'
  BY DEF ConsoleInv, QuestionInv, consoleVars
<1>8. ASSUME s.good, Fields \subseteq Lines(file) PROVE s.to = Meaning(file)
  <2>1. Read(file) = 1..Len(file)
    BY <1>2, <1>8 DEF r, Parsed
  <2>2. \A f \in Fields : Setting(file, f) # {}
    BY <1>8, <2>1 DEF Setting, Lines
  <2>3. Normal(r.to)["rotation"] \in {0, 45}
    BY <1>2, <1>8 DEF AreParameters
  <2> QED BY <1>2, <1>8, <2>2, <2>3, MeansTheSame DEF r
<1> QED BY <1>3, <1>4, <1>5, <1>6, <1>7, <1>8 DEF ConsoleInv

LEMMA Abandons ==
  ASSUME ConsoleInv, NEW file \in Files, Abandoned(file), UNCHANGED consoleVars
  PROVE  ConsoleInv' /\ parameters' = parameters /\ restarts' = restarts
<1>1. PICK n \in {0, BlockLines} : card' = SubSeq(file, 1, n)
  BY DEF Abandoned
<1>2. Len(card') \in Nat
  <2>1. n \in Nat
    BY ParametersAssumption
  <2>2. SubSeq(file, 1, n) = [i \in 1..n |-> file[i]]
    BY <2>1
  <2> QED BY <1>1, <2>1, <2>2
<1>3. InForceInv' /\ QuestionInv'
  BY DEF Abandoned, ConsoleInv, InForceInv, QuestionInv, consoleVars
<1>4. CardInv'
  BY <1>2 DEF Abandoned, CardInv
<1> QED BY <1>3, <1>4 DEF Abandoned, ConsoleInv

\* Every step, and how it may change what is in force.
LEMMA ConsoleStep ==
  ASSUME ConsoleInv, [ConsoleNext]_systemVars
  PROVE  /\ ConsoleInv'
         /\ \/ UNCHANGED <<restarts, uploads>> /\ Confirms(line)
            \/ Reboot
            \/ restarts' = restarts /\ parameters' = parameters
            \/ \E file \in Files : Upload(file) /\ UNCHANGED consoleVars
<1>1. CASE WriteEnds
  <2>1. InForceInv' /\ QuestionInv' /\ UNCHANGED <<parameters, restarts, uploads>>
    BY <1>1 DEF WriteEnds, Written, ConsoleInv, InForceInv, QuestionInv, consoleVars
  <2>2. CardInv'
    <3>1. CASE card' = toWrite /\ kept' = {parameters}
      <4>1. card' = Table(parameters) /\ AreParameters(parameters)
        BY <1>1, <3>1 DEF WriteEnds, Written, ConsoleInv, CardInv, InForceInv
      <4>2. Len(card') \in Nat
        BY <4>1, WrittenMeans
      <4> QED BY <1>1, <2>1, <3>1, <4>1, <4>2 DEF WriteEnds, Written, CardInv
    <3>2. CASE UNCHANGED <<card, kept>>
      BY <1>1, <2>1, <3>2 DEF WriteEnds, Written, ConsoleInv, CardInv
    <3> QED BY <1>1, <3>1, <3>2 DEF WriteEnds, Written
  <2> QED BY <2>1, <2>2 DEF ConsoleInv
<1>2. CASE Udp
  <2>1. toWrite = NoFile /\ Take(Head(datagram), port)
    BY <1>2 DEF Udp, Free
  <2> QED BY <2>1, Takes
<1>3. CASE UNCHANGED <<parameterVars, asked, shown>> /\ (mode' = mode \/ mode' \notin {"ipv4", "mac"})
  BY <1>3 DEF parameterVars, ConsoleInv, InForceInv, CardInv, QuestionInv
<1>4. CASE Drain \/ PollLog \/ UNCHANGED systemVars
  BY <1>3, <1>4 DEF Drain, PollLog, systemVars, consoleVars
<1>5. CASE Replay
  BY <1>3, <1>5 DEF Replay
<1>6. ASSUME NEW w \in Words, NEW c \in Clients, Datagram(<<w, NL>>, c)
      PROVE  UNCHANGED <<parameterVars, asked, shown, mode>>
  BY <1>6 DEF Datagram
<1>7. ASSUME NEW w \in Words \cup {NL}, Serial(w)
      PROVE  ConsoleInv' /\ Confirms(line) /\ UNCHANGED <<restarts, uploads>>
  <2>1. toWrite = NoFile /\ Take(w, 0)
    BY <1>7 DEF Serial, Free
  <2> QED BY <2>1, Takes
<1>8. CASE Reboot
  BY <1>8, Reboots
<1>9. CASE Uploads
  <2>1. PICK file \in Files : (Upload(file) \/ Abandoned(file)) /\ UNCHANGED consoleVars
    BY <1>9 DEF Uploads
  <2> QED BY <2>1, UploadsFile, Abandons
<1> QED BY <1>1, <1>2, <1>3, <1>4, <1>5, <1>6, <1>7, <1>8, <1>9 DEF ConsoleNext, Software

LEMMA ConsoleKeeps == ConsoleSpec => []ConsoleInv
<1>1. ConsoleInv /\ [ConsoleNext]_systemVars => ConsoleInv'
  BY ConsoleStep
<1> QED BY ConsoleBegins, <1>1, PTL DEF ConsoleSpec

\* The address and the MAC change at the console only as they were shown last,
\* by an answer to an open question: for any commands of any number of consoles
\* and the serial line, any uploads, restarts and failures.  (netQueryCallback,
\* macQueryCallback)
THEOREM ConfirmedBeforeStored == ConsoleSpec => ShownBeforeStored
<1> DEFINE Confirmation ==
      \A kind \in {"ipv4", "mac"} :
           parameters'[kind] # parameters[kind] /\ <<restarts, uploads>>' = <<restarts, uploads>>
           => mode = kind /\ shown = {parameters'[kind]}
              /\ Len(line) = 1 /\ Head(line).cmd = "y"
<1>1. ConsoleInv /\ [ConsoleNext]_systemVars => [Confirmation]_systemVars
  <2> SUFFICES ASSUME ConsoleInv, [ConsoleNext]_systemVars PROVE Confirmation
    OBVIOUS
  <2>1. CASE Confirms(line)
    BY <2>1 DEF Confirms
  <2>2. CASE Reboot
    BY <2>2, Reboots
  <2>3. CASE parameters' = parameters
    BY <2>3
  <2>4. CASE \E file \in Files : Upload(file)
    <3>1. uploads' = uploads + 1 /\ uploads \in Nat
      BY <2>4 DEF Upload, ConsoleInv, InForceInv
    <3> QED BY <3>1
  <2> QED BY <2>1, <2>2, <2>3, <2>4, ConsoleStep
<1> QED BY <1>1, ConsoleKeeps, PTL DEF ConsoleSpec, ShownBeforeStored

\* A restart or an upload with every parameter puts in force what the file says
\* or the defaults, whatever the candidate held and however the file came to be.
\* (parseTable, systemParametersSetTable, systemParametersCommit)
THEOREM FilesTakenWhole == ConsoleSpec => FilesAreTakenWhole
<1> DEFINE Whole ==
       \/ restarts' # restarts
       \/ uploads' # uploads /\ parameters' # parameters /\ Fields \subseteq Lines(card')
       => parameters' \in {Default, Meaning(card')}
<1>1. ConsoleInv /\ [ConsoleNext]_systemVars => [Whole]_parameterVars
  <2> SUFFICES ASSUME ConsoleInv, [ConsoleNext]_systemVars PROVE Whole
    OBVIOUS
  <2>1. CASE Reboot
    <3>1. parameters' = StartsWith(card) /\ card' = card /\ Len(card) \in Nat
      BY <2>1, Reboots DEF ConsoleInv, CardInv
    <3> QED BY <3>1, StartIs
  <2>2. CASE \E file \in Files : Upload(file) /\ UNCHANGED consoleVars
    <3>1. PICK file \in Files : Upload(file) /\ UNCHANGED consoleVars
      BY <2>2
    <3> QED BY <3>1, UploadsFile
  <2>3. CASE restarts' = restarts /\ (uploads' = uploads \/ parameters' = parameters)
    BY <2>3
  <2> QED BY <2>1, <2>2, <2>3, ConsoleStep
<1> QED BY <1>1, ConsoleKeeps, PTL DEF ConsoleSpec, FilesAreTakenWhole

\* What was written back whole is what the next restart puts in force, the
\* network included: for any values of the parameters, and whatever was refused,
\* cut short or changed without being written before.  (systemParametersGetTable,
\* systemParametersFetchEEPROM, setDefaultNetAddress)
THEOREM StoredSurvivesRestarts == ConsoleSpec => StoredSurvives
<1> DEFINE Survives ==
       restarts' # restarts /\ kept # {}
       => /\ kept = {parameters'}
          /\ ~board.recovery => inUse'.ipv4 = parameters'["ipv4"]
<1>1. ConsoleInv /\ [ConsoleNext]_systemVars => [Survives]_parameterVars
  <2> SUFFICES ASSUME ConsoleInv, [ConsoleNext]_systemVars, restarts' # restarts, kept # {}
               PROVE  kept = {parameters'} /\ (~board.recovery => inUse'.ipv4 = parameters'["ipv4"])
    OBVIOUS
  <2>1. Reboot
    BY ConsoleStep, UploadsFile
  <2>2. parameters' = StartsWith(card)
    BY <2>1, Reboots
  <2>3. PICK p \in kept : AreParameters(p) /\ kept = {p} /\ card = Table(p)
    BY DEF ConsoleInv, CardInv
  <2>4. parameters' = p
    BY <2>2, <2>3, WrittenMeans
  <2>5. inUse' = NetworkAtStart(parameters')
    BY <2>1 DEF Reboot, Restart, Started
  <2>6. ~board.recovery => inUse'.ipv4 = parameters'["ipv4"]
    BY <2>5 DEF NetworkAtStart
  <2> QED BY <2>3, <2>4, <2>6
<1> QED BY <1>1, ConsoleKeeps, PTL DEF ConsoleSpec, StoredSurvives
=============================================================================
