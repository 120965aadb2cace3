------------------------------- MODULE Eyescan -------------------------------
(***************************************************************************)
(* The eye scan of the event receiver's transceiver (eyescan.c): a command *)
(* synchronises the scan and starts it, the console then cranks it one     *)
(* step at a time, and handles no input before it is over.  The measuring  *)
(* machine of the transceiver waits, counts from the moment RUN is set,    *)
(* and stays at its end until RUN is cleared.                              *)
(***************************************************************************)
EXTENDS Naturals

CONSTANTS HPoints, VPoints,  \* points of a row, and rows
          SyncPasses,        \* attempts of eyescanSync
          BorderLength       \* characters of the border

\* A scan has a point at least (V_RANGE and V_STRIDE, the width of the eye).
ASSUME GridAssumption == HPoints \in Nat \ {0} /\ VPoints \in Nat \ {0}

Centre == <<0, 0>>
First == <<1, 1>>
Formats == {"FMT_ASCII_ART", "FMT_NUMERIC", "FMT_RAW"}

VARIABLES esPc,          \* "idle", "sync", "syncing" (eyescanSync), "scan" (eyescanActive)
          esAcquiring,   \* eyescanAcquiring
          esBorder,      \* characters of the border still to print
          esAt,          \* the next point: column and row
          eyescanFormat,
          esPass,
          esPoint,       \* the point plotted last, and the offsets it was counted at
          gtRun,         \* ES_CONTROL_RUN
          gtState,       \* "wait", "count", "end" (ES_STATUS_DONE)
          gtOffset,      \* the offsets in force
          gtCounted,     \* the offsets of the last count
          gtErrors       \* "few", "many" (65535 or more)
esVars == <<esPc, esAcquiring, esBorder, esAt, eyescanFormat, esPass, esPoint,
            gtRun, gtState, gtOffset, gtCounted, gtErrors>>
gtVars == <<gtRun, gtState, gtOffset, gtCounted, gtErrors>>
gtCount == <<gtCounted, gtErrors>>

NoPoint == [at |-> Centre, counted |-> Centre]

EyescanInit ==
  /\ esPc = "idle" /\ esAcquiring = "no" /\ esBorder = 0 /\ esAt = First
  /\ eyescanFormat = "FMT_ASCII_ART" /\ esPass = 0 /\ esPoint = NoPoint
  /\ gtRun = "off" /\ gtState = "wait" /\ gtOffset = Centre
  /\ gtCounted = Centre /\ gtErrors = "few"

-----------------------------------------------------------------------------
\* drp_set and drp_clr of RUN.
SetRun == gtRun' = "on" /\ gtState' = (IF gtState = "wait" THEN "count" ELSE gtState)
ClearRun == gtRun' = "off" /\ gtState' = "wait"

\* eyescanCommand and the first part of eyescanStep.
ScanCommand ==
  /\ esPc = "idle"
  /\ esPc' = "sync" /\ esPass' = 0 /\ esAt' = First
  /\ eyescanFormat' \in Formats
  /\ gtOffset' = Centre
  /\ UNCHANGED <<esAcquiring, esBorder, esPoint, gtRun, gtState, gtCount>>

\* eyescanSync: a count at the centre; too many errors have the machine reset.
SyncRun ==
  /\ esPc = "sync" /\ esPc' = "syncing"
  /\ SetRun
  /\ UNCHANGED <<esAcquiring, esBorder, esAt, eyescanFormat, esPass, esPoint, gtOffset, gtCount>>
Synced ==
  /\ esPc = "syncing" /\ gtState = "end" /\ gtErrors = "few"
  /\ esPc' = "scan" /\ esAcquiring' = "no" /\ esBorder' = BorderLength
  /\ UNCHANGED <<esAt, eyescanFormat, esPass, esPoint, gtVars>>
Resync ==
  /\ esPc = "syncing" /\ gtState = "end" /\ gtErrors = "many"
  /\ esPass' = esPass + 1
  /\ esPc' = IF esPass + 1 < SyncPasses THEN "sync" ELSE "idle"
  /\ gtState' = "wait"
  /\ UNCHANGED <<esAcquiring, esBorder, esAt, eyescanFormat, esPoint, gtRun, gtOffset, gtCount>>
SyncTimeout ==
  /\ esPc = "syncing" /\ gtState = "count"
  /\ esPc' = "idle"
  /\ ClearRun
  /\ UNCHANGED <<esAcquiring, esBorder, esAt, eyescanFormat, esPass, esPoint, gtOffset, gtCount>>

-----------------------------------------------------------------------------
\* eyescanStep: the border first, one character a call, unless the format is raw.
BorderLeft == esBorder > 0 /\ eyescanFormat # "FMT_RAW"
XBorderCrank ==
  /\ esPc \in {"idle", "scan"} /\ BorderLeft
  /\ esBorder' = esBorder - 1
  /\ UNCHANGED <<esPc, esAcquiring, esAt, eyescanFormat, esPass, esPoint, gtVars>>

StartPoint ==
  /\ esPc = "scan" /\ ~BorderLeft /\ esAcquiring = "no" /\ esAt[2] <= VPoints
  /\ gtOffset' = esAt
  /\ SetRun
  /\ esAcquiring' = "yes"
  /\ UNCHANGED <<esPc, esBorder, esAt, eyescanFormat, esPass, esPoint, gtCount>>

Following(at) == IF at[1] < HPoints THEN <<at[1] + 1, at[2]>> ELSE <<1, at[2] + 1>>
\* The count is plotted and RUN cleared for the next point.
PlotPointMutant ==
  /\ esPc = "scan" /\ ~BorderLeft /\ esAcquiring = "yes" /\ gtState = "end"
  /\ esPoint' = [at |-> esAt, counted |-> gtCounted]
  /\ esAt' = Following(esAt) /\ esAcquiring' = "no"
  /\ UNCHANGED <<esPc, esBorder, eyescanFormat, esPass, gtVars>>
PlotPoint ==
  /\ esPc = "scan" /\ ~BorderLeft /\ esAcquiring = "yes" /\ gtState = "end"
  /\ esPoint' = [at |-> esAt, counted |-> gtCounted]
  /\ esAt' = Following(esAt) /\ esAcquiring' = "no"
  /\ ClearRun
  /\ UNCHANGED <<esPc, esBorder, eyescanFormat, esPass, gtOffset, gtCount>>

\* A count that takes too long is the end of the scan.
PointTimeoutMutant ==
  /\ esPc = "scan" /\ ~BorderLeft /\ esAcquiring = "yes" /\ gtState = "count"
  /\ esAcquiring' = "no"
  /\ ClearRun
  /\ UNCHANGED <<esPc, esBorder, esAt, eyescanFormat, esPass, esPoint, gtOffset, gtCount>>
PointTimeout ==
  /\ esPc = "scan" /\ ~BorderLeft /\ esAcquiring = "yes" /\ gtState = "count"
  /\ esPc' = "idle" /\ esAcquiring' = "no"
  /\ ClearRun
  /\ UNCHANGED <<esBorder, esAt, eyescanFormat, esPass, esPoint, gtOffset, gtCount>>

ScanOver ==
  /\ esPc = "scan" /\ ~BorderLeft /\ esAcquiring = "no" /\ esAt[2] > VPoints
  /\ esPc' = "idle" /\ esBorder' = IF eyescanFormat = "FMT_RAW" THEN esBorder ELSE BorderLength
  /\ UNCHANGED <<esAcquiring, esAt, eyescanFormat, esPass, esPoint, gtVars>>

-----------------------------------------------------------------------------
\* The transceiver: a count ends, if it does, with few errors or with many.
ScanCounted ==
  /\ gtState = "count" /\ gtState' = "end"
  /\ gtCounted' = gtOffset
  /\ gtErrors' \in {"few", "many"}
  /\ UNCHANGED <<esPc, esAcquiring, esBorder, esAt, eyescanFormat, esPass, esPoint, gtRun, gtOffset>>

Step == SyncRun \/ Synced \/ Resync \/ XBorderCrank \/ StartPoint \/ PlotPoint \/ ScanOver
Timeouts == SyncTimeout \/ PointTimeout
EyescanNext == ScanCommand \/ Step \/ Timeouts \/ ScanCounted
EyescanSpec == EyescanInit /\ [][EyescanNext]_esVars

\* The main loop goes on, and so does the time that a count may take.
EyescanFair == WF_esVars(Step) /\ WF_esVars(Timeouts)

-----------------------------------------------------------------------------
\* Every point but the first is plotted with the count made at its own
\* offsets; the first finds the machine still at the end of the count that
\* eyescanSync made at the centre.  (eyescanStep, eyescanSync)
PointsAreOwn == esPoint.at \notin {Centre, First} => esPoint.counted = esPoint.at

\* A scan ends and gives the console back, whether or not the transceiver
\* ever finishes a count.  (eyescanStep, consoleCheck)
ScanEnds == (esPc # "idle") ~> (esPc = "idle")
=============================================================================
