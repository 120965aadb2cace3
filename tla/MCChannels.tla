----------------------------- MODULE MCChannels ------------------------------
(***************************************************************************)
(* What the channels of the receiver depend on, one at a time: the gains   *)
(* trimmed by the pilot tones, the power of the converters' tiles and the  *)
(* serial buses of the analog boards.  They share no state: a run picks    *)
(* its subject at the start and the others rest.                           *)
(***************************************************************************)
EXTENDS Autotrim, RfTiles, SpiBoards

VARIABLE subject

Found(l, h) == [pl |-> l, ph |-> h]
AnyTones == {Found("good", "good"), Found("low", "good"), Found("good", "varied")}

ChannelsInit ==
  /\ subject \in {"trim", "tiles", "boards"}
  /\ Init /\ TilesInit /\ BoardsInit
  /\ subject # "boards" => att = [x \in Attenuators |-> 0]

ChannelsNext ==
  \/ subject = "trim" /\ Next /\ UNCHANGED <<tileVars, boardVars, subject>>
  \/ subject = "tiles" /\ TilesNext /\ UNCHANGED <<vars, boardVars, subject>>
  \/ subject = "boards" /\ BoardsNext /\ UNCHANGED <<vars, tileVars, subject>>

ChannelsSpec == ChannelsInit /\ [][ChannelsNext]_<<vars, tileVars, boardVars, subject>>
=============================================================================
