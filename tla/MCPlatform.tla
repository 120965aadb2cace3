----------------------------- MODULE MCPlatform ------------------------------
(***************************************************************************)
(* The platform's services, one at a time: the IIC driver, the event       *)
(* receiver, the clocks, the eye scan, the display, the settings of the    *)
(* channels and the tables on the card.  They share no state but the       *)
(* hardware below them, so a run picks its subject at the start and the    *)
(* others rest.                                                            *)
(***************************************************************************)
EXTENDS Iic, Evr, Clocks, Eyescan, Display, Settings, Tables

VARIABLE subject

Both == <<"ADC", "DAC">>
Subjects == {"iic", "evr", "clocks", "eyescan", "display", "settings", "tables"}

\* Table files: good ones, one with a bad row, one of the size of the table,
\* one too long.
F(kind, id, rows, stop) ==
    [kind |-> kind, file |-> [cells |-> [i \in 1..rows |-> id], stop |-> stop]]

Tried ==
    {F("rf", 1, 3, 0), F("rf", 2, 3, 3), F("rf", 3, 4, 0), F("rf", 4, 5, 0),
     F("pt", 1, 3, 0), F("pt", 2, 2, 0), F("pt", 3, 3, 2), F("gen", 1, 3, 0),
     F("gen", 2, 1, 0), F("clk", 1, 3, 0), F("clk", 2, 3, 3)}

PlatformInit ==
  /\ subject \in Subjects
  /\ IicInit /\ EvrInit /\ ClocksInit /\ EyescanInit /\ DisplayInit /\ Init /\ TablesInit
  /\ subject # "iic" => fitted = "606"
  /\ subject # "evr" => singlePass = Heartbeat

restIic == <<evrVars, clkVars, esVars, displayVars, vars, tableVars, subject>>
restEvr == <<iicVars, clkVars, esVars, displayVars, vars, tableVars, subject>>
restClocks == <<iicVars, evrVars, esVars, displayVars, vars, tableVars, subject>>
restEyescan == <<iicVars, evrVars, clkVars, displayVars, vars, tableVars, subject>>
restDisplay == <<iicVars, evrVars, clkVars, esVars, vars, tableVars, subject>>
restSettings == <<iicVars, evrVars, clkVars, esVars, displayVars, tableVars, subject>>
restTables == <<iicVars, evrVars, clkVars, esVars, displayVars, vars, subject>>

PlatformNext ==
  \/ subject = "iic" /\ IicNext /\ UNCHANGED restIic
  \/ subject = "evr" /\ EvrNext /\ UNCHANGED restEvr
  \/ subject = "clocks" /\ ClocksNext /\ UNCHANGED restClocks
  \/ subject = "eyescan" /\ EyescanNext /\ UNCHANGED restEyescan
  \/ subject = "display" /\ DisplayNext /\ UNCHANGED restDisplay
  \/ subject = "settings" /\ Next /\ UNCHANGED restSettings
  \/ subject = "tables" /\ TablesNext /\ UNCHANGED restTables

platformVars == <<iicVars, evrVars, clkVars, esVars, displayVars, vars, tableVars, subject>>
PlatformSpec == PlatformInit /\ [][PlatformNext]_platformVars /\ EyescanFair
=============================================================================
