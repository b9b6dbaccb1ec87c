----------------------------- MODULE RecordStore -----------------------------
(***************************************************************************)
(* What one Ocore task promises to the work tasks it serves: a map from    *)
(* keys to data blocks.  A write sets the block of its key and nothing     *)
(* else, a read returns the block last written under its key.  Where a     *)
(* block lives (ramdisk slot or file slot) and when it moves is not        *)
(* visible at this level.                                                  *)
(*                                                                         *)
(* The task may also abort the whole MPI job instead of accepting a NEW    *)
(* key; an update or a read of a key it holds is never refused.            *)
(***************************************************************************)
CONSTANTS Keys, Data, NoReply

VARIABLES
  records,   \* partial map Keys -> Data
  reply,     \* the block most recently sent back to a work task
  up         \* FALSE once the task has aborted the job

vars == <<records, reply, up>>

Init ==
  /\ records = [k \in {} |-> NoReply]
  /\ reply = NoReply
  /\ up = TRUE

Put(k, d) ==
  /\ up
  /\ records' = [x \in DOMAIN records \cup {k} |->
                    IF x = k THEN d ELSE records[x]]
  /\ UNCHANGED <<reply, up>>

Get(k) ==
  /\ up
  /\ k \in DOMAIN records
  /\ reply' = records[k]
  /\ UNCHANGED <<records, up>>

Refuse(k) ==
  /\ up
  /\ k \notin DOMAIN records
  /\ up' = FALSE
  /\ UNCHANGED <<records, reply>>

Next == \E k \in Keys : Get(k) \/ Refuse(k) \/ \E d \in Data : Put(k, d)

Spec == Init /\ [][Next]_vars
=============================================================================
