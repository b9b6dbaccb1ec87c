----------------------------- MODULE OcoreMemory -----------------------------
(***************************************************************************)
(* What the out-of-core library promises to the application: every work    *)
(* task has a private memory from offsets to data blocks.  A call is       *)
(* begun, and ended later; a task has at most one call open.  No task sees *)
(* or disturbs the memory of another, and nothing here says on which MPI   *)
(* rank a block lives or which messages carry it.                          *)
(***************************************************************************)
EXTENDS Integers

CONSTANTS Work, Offsets, Data, Zero, NoBlock, AllowEmpty

VARIABLES
  mem,      \* mem[w]: partial map Offsets -> Data
  call,     \* call[w]: the call w has open, Idle if none
  result,   \* result[w]: the block w's last read or pop returned
  aborted

vars == <<mem, call, result, aborted>>

Call(op, o, d) == [op |-> op, off |-> o, data |-> d]
Idle == Call("none", 0, NoBlock)

Least(S) == CHOOSE o \in S : \A p \in S : o <= p

Init ==
  /\ mem = [w \in Work |-> [o \in {} |-> NoBlock]]
  /\ call = [w \in Work |-> Idle]
  /\ result = [w \in Work |-> NoBlock]
  /\ aborted = FALSE

\* A write takes effect when it is called: nobody else can look.
BeginWrite(w, o, d) ==
  /\ call[w] = Idle
  /\ call' = [call EXCEPT ![w] = Call("write", o, d)]
  /\ mem' = [mem EXCEPT ![w] = [x \in DOMAIN mem[w] \cup {o} |->
                                  IF x = o THEN d ELSE mem[w][x]]]
  /\ UNCHANGED <<result, aborted>>

BeginRead(w, o) ==
  /\ call[w] = Idle /\ o \in DOMAIN mem[w]
  /\ call' = [call EXCEPT ![w] = Call("read", o, NoBlock)]
  /\ UNCHANGED <<mem, result, aborted>>

\* A read of an offset never written: a block of zeros, or the end of the job.
EmptyRead(w, o) ==
  /\ call[w] = Idle /\ o \notin DOMAIN mem[w]
  /\ IF AllowEmpty[w]
     THEN result' = [result EXCEPT ![w] = Zero] /\ UNCHANGED aborted
     ELSE aborted' = TRUE /\ UNCHANGED result
  /\ UNCHANGED <<mem, call>>

\* Retrieval starts from the least offset; there must be one.
BeginPop(w) ==
  /\ call[w] = Idle
  /\ IF DOMAIN mem[w] = {}
     THEN aborted' = TRUE /\ UNCHANGED call
     ELSE /\ call' = [call EXCEPT ![w] = Call("pop", Least(DOMAIN mem[w]), NoBlock)]
          /\ UNCHANGED aborted
  /\ UNCHANGED <<mem, result>>

BeginFinalize(w) ==
  /\ call[w] = Idle
  /\ call' = [call EXCEPT ![w] = Call("finalize", 0, NoBlock)]
  /\ UNCHANGED <<mem, result, aborted>>

EndWrite(w) ==
  /\ call[w].op = "write"
  /\ call' = [call EXCEPT ![w] = Idle]
  /\ UNCHANGED <<mem, result, aborted>>

\* A read or a pop returns the block last written, a pop removes it.
EndRead(w) ==
  /\ call[w].op \in {"read", "pop"}
  /\ result' = [result EXCEPT ![w] = mem[w][call[w].off]]
  /\ mem' = IF call[w].op = "read" THEN mem
            ELSE [mem EXCEPT ![w] = [x \in DOMAIN mem[w] \ {call[w].off} |-> mem[w][x]]]
  /\ call' = [call EXCEPT ![w] = Idle]
  /\ UNCHANGED aborted

Next ==
  /\ ~ aborted
  /\ \E w \in Work :
       \/ BeginPop(w) \/ BeginFinalize(w) \/ EndWrite(w) \/ EndRead(w)
       \/ \E o \in Offsets : BeginRead(w, o) \/ EmptyRead(w, o)
       \/ \E o \in Offsets, d \in Data : BeginWrite(w, o, d)

Spec == Init /\ [][Next]_vars
=============================================================================
