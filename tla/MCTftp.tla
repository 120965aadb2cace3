------------------------------- MODULE MCTftp -------------------------------
(***************************************************************************)
(* Model-checking Tftp: the settings of the runs.                          *)
(***************************************************************************)
EXTENDS Tftp

\* A network that loses, duplicates and reorders, under sessions of all
\* kinds one after the other.
Network ==
  [blocks |-> 3, blockModulus |-> 4, ops |-> {"put", "get", "unknown"},
   duplicating |-> TRUE, lossless |-> FALSE, failures |-> FALSE,
   overlapping |-> FALSE, inFlight |-> 3, sessions |-> 2, fetches |-> 5]

\* The same with accesses that fail, and with sessions that overlap.
Hostile ==
  [Network EXCEPT !.blockModulus = 8, !.failures = TRUE, !.ops = {"put", "get"},
                  !.inFlight = 2, !.fetches = 4]
Overlap ==
  [Network EXCEPT !.blockModulus = 8, !.ops = {"put"}, !.overlapping = TRUE,
                  !.inFlight = 2]

\* A sound network, and files whose block numbers wrap around.
Sound ==
  [Network EXCEPT !.blocks = 5, !.blockModulus = 3, !.ops = {"put", "get"},
                  !.duplicating = FALSE, !.lossless = TRUE, !.sessions = 3,
                  !.fetches = 8]

AllSettings == {Network, Hostile, Overlap, Sound}

OneFailing == {[Network EXCEPT !.blockModulus = 8, !.ops = {"put"},
                  !.failures = TRUE, !.inFlight = 2, !.sessions = 1]}
=============================================================================
