--------------------------- MODULE MCOcoreProtocol ---------------------------
(* Model checking of OcoreProtocol on two work tasks and two Ocore tasks:    *)
(* a bound on the calls of each work task, and which block is written first. *)
EXTENDS OcoreProtocol, TLC

\* The master makes enough calls to pop a record and write it again, to
\* another owner; the other task interferes once.
OneLongTask == 0 :> 3 @@ 1 :> 1

\* Blocks are interchangeable, so the first one the master writes may be
\* fixed.  Bound: the other task writes a different one.
FirstBlock == CHOOSE d \in Data : TRUE

NotWritten ==
  /\ DOMAIN rank_map[Master] = {}
  /\ \A c \in Ocore : \A k \in DOMAIN records[c] : k[1] # Master

BlocksFixed ==
  /\ NotWritten => call'[Master].data \in {NoBlock, FirstBlock}
  /\ \A w \in Work \ {Master} : call'[w].data # FirstBlock
=============================================================================
