------------------------------ MODULE MCServer ------------------------------
(***************************************************************************)
(* The servers of the main loop, one at a time: files over TFTP and the    *)
(* commands of EPICS.  They share no state: a run picks its subject at the *)
(* start and the other rests.                                              *)
(***************************************************************************)
EXTENDS MCTftp, EpicsServer

VARIABLE subject

ServerInit ==
  /\ subject \in {"files", "commands"}
  /\ Init /\ EpicsInit
  /\ subject # "files" => setting = Network

ServerNext ==
  \/ subject = "files" /\ Next /\ UNCHANGED <<epicsVars, subject>>
  \/ subject = "commands" /\ EpicsNext /\ UNCHANGED <<vars, subject>>

ServerSpec ==
  /\ ServerInit /\ [][ServerNext]_<<vars, epicsVars, subject>>
  /\ Delivery
=============================================================================
