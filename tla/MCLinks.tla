------------------------------- MODULE MCLinks -------------------------------
(***************************************************************************)
(* The links of the FPGA, one at a time: the transceiver of the event      *)
(* receiver, a link of the cell controller network, and the crossing that  *)
(* carries a register from one clock to another.  They share no state: a   *)
(* run picks its subject at the start and the others rest.                 *)
(***************************************************************************)
EXTENDS RxAligner, CellLink, ForwardData

VARIABLE subject

CONSTANTS a, b, c
ThreeValues == {a, b, c}

LinksInit ==
  /\ subject \in {"receiver", "cell", "crossing"}
  /\ RxInit /\ Init /\ CrossingInit
  /\ subject # "crossing" => inData = a /\ inLatch = a /\ outData = a

LinksNext ==
  \/ subject = "receiver" /\ RxNext /\ UNCHANGED <<vars, crossingVars, subject>>
  \/ subject = "cell" /\ Next /\ UNCHANGED <<rxVars, crossingVars, subject>>
  \/ subject = "crossing" /\ CrossingNext /\ UNCHANGED <<rxVars, vars, subject>>

LinksSpec ==
  /\ LinksInit /\ [][LinksNext]_<<rxVars, vars, crossingVars, subject>>
  /\ subject = "receiver" => RxFair
  /\ subject = "cell" => Fair
  /\ subject = "crossing" => CrossingFair

\* The promises of the subject (RxAligner, CellLink).
ReceiverRealigns == subject = "receiver" => Realigns
CellLinkRecovers == subject = "cell" => LinkRecovers
=============================================================================
