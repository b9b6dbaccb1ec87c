----------------------------- MODULE TimingLog -----------------------------
(***************************************************************************)
(* What the historical timing file promises: for each host a log to which  *)
(* every save adds its measurement once, at the end.  A fault (a process   *)
(* that dies inside a save, an operation on the file that fails) may leave *)
(* the file unreadable, or void the log of its host while that log is      *)
(* still empty; nothing is promised about a void log.  A fault never       *)
(* changes a measurement that is in a log that is not void.                *)
(***************************************************************************)
EXTENDS Naturals, Sequences

CONSTANTS Saves, Hosts

VARIABLES
  host,      \* host[s]: the host whose timing save s records
  log,       \* log[h]: the saves recorded for host h, oldest first
  void,      \* hosts whose log was damaged before its first entry
  lost,      \* the file is unreadable
  returned,  \* saves that returned to the application
  faults     \* number of faults so far

vars == <<host, log, void, lost, returned, faults>>

Init ==
  /\ host \in [Saves -> Hosts]
  /\ log = [h \in Hosts |-> << >>]
  /\ void = {} /\ lost = FALSE
  /\ returned = {} /\ faults = 0

\* Only the log of host h changes.
Only(h) ==
  /\ \A g \in Hosts \ {h} : log'[g] = log[g] /\ (g \in void' <=> g \in void)
  /\ UNCHANGED lost

\* The measurement of save s enters the log of its host.
Record(s) ==
  /\ Only(host[s])
  /\ host[s] \notin void =>
       log' = [log EXCEPT ![host[s]] = Append(@, s)] /\ UNCHANGED void

Save(s) ==
  /\ s \notin returned /\ ~ lost
  /\ Record(s)
  /\ returned' = returned \cup {s}
  /\ UNCHANGED <<host, faults>>

\* The outcomes of a fault: no effect, the measurement is in the log although
\* the save did not return, the log is void, the file is lost.
Fault(s) ==
  /\ s \notin returned
  /\ faults' = faults + 1
  /\ \/ UNCHANGED <<log, void, lost>>
     \/ ~ lost /\ Record(s)
     \/ log[host[s]] = << >> /\ void' = void \cup {host[s]} /\ UNCHANGED <<log, lost>>
     \/ lost' = TRUE /\ log' = [h \in Hosts |-> << >>] /\ void' = {}
  /\ UNCHANGED <<host, returned>>

Next == \E s \in Saves : Save(s) \/ Fault(s)

Spec == Init /\ [][Next]_vars
=============================================================================
