------------------------------ MODULE PathCheck ------------------------------
(***************************************************************************)
(* grvy_check_file_path: several processes create the parent directories   *)
(* of their files at once, on one file system.  Paths that share nothing   *)
(* do not interact, so all lie on one chain of directories: level k is the *)
(* k-th directory of the path and a process wants the first n of them.     *)
(* Nothing removes a directory.                                            *)
(***************************************************************************)
EXTENDS Integers

CONSTANTS
    Procs,
    MaxLevels,    \* bound: directories above a file
    MAX_DEPTH,    \* the function's limit, 50 in the code
    Nobody        \* not made by one of the processes

PathConstants ==
    /\ Procs # {} /\ Nobody \notin Procs
    /\ MaxLevels \in Nat /\ MAX_DEPTH \in Nat \ {0}

Levels == 1 .. MaxLevels

VARIABLES
    entry,    \* what each level is: "none", "file", or a directory
    maker,    \* which process made it
    denied,   \* the file system refuses mkdir
    wants,    \* directories above each process's file
    level,    \* the directory each process checks
    pc,       \* "stat", "mkdir" or "returned"
    ret       \* what the function returned

vars == <<entry, maker, denied, wants, level, pc, ret>>

Init ==
    /\ entry \in {e \in [Levels -> {"none", "file", "directory"}] :
                    \A k \in Levels : k > 1 /\ e[k] # "none" => e[k - 1] = "directory"}
    /\ maker = [k \in Levels |-> Nobody]
    /\ denied \in BOOLEAN
    /\ wants \in [Procs -> 0 .. MaxLevels]
    /\ level = [p \in Procs |-> 1]
    /\ pc = [p \in Procs |-> "stat"]
    /\ ret = [p \in Procs |-> 0]

Return(p, value) ==
    /\ pc' = [pc EXCEPT ![p] = "returned"]
    /\ ret' = [ret EXCEPT ![p] = value]
    /\ UNCHANGED level

(* Defect: the limit is tested one level early. *)
TooDeepEarly(depth) == depth + 1 >= MAX_DEPTH

(* The first level is checked before the loop, which runs MAX_DEPTH times
   and takes depth = MAX_DEPTH for too deep: MAX_DEPTH remaining levels are
   all made and the call fails. *)
TooDeep(depth) == depth >= MAX_DEPTH

Advance(p) ==
    LET depth == level[p] - 1     \* completed turns of the loop
    IN  IF level[p] = wants[p] \/ TooDeep(depth)
        THEN Return(p, IF TooDeep(depth) THEN -1 ELSE 0)
        ELSE /\ level' = [level EXCEPT ![p] = @ + 1]
             /\ pc' = [pc EXCEPT ![p] = "stat"]
             /\ UNCHANGED ret

(* A file in the current directory or the root has nothing to check. *)
NoParents(p) ==
    /\ pc[p] = "stat" /\ wants[p] = 0
    /\ Return(p, 0)
    /\ UNCHANGED <<entry, maker, denied, wants>>

(* _GRVY_CheckDir: stat, and for a level that is not there ... *)
Stat(p) ==
    LET found == entry[level[p]]
    IN  /\ pc[p] = "stat" /\ wants[p] > 0
        /\ \/ /\ found = "none"
              /\ pc' = [pc EXCEPT ![p] = "mkdir"] /\ UNCHANGED <<level, ret>>
           \/ found = "file" /\ Return(p, -1)
           \/ found = "directory" /\ Advance(p)
        /\ UNCHANGED <<entry, maker, denied, wants>>

(* ... mkdir, which fails if another process has made it since. *)
Mkdir(p) ==
    /\ pc[p] = "mkdir"
    /\ IF denied \/ entry[level[p]] # "none"
       THEN Return(p, -1) /\ UNCHANGED <<entry, maker>>
       ELSE /\ entry' = [entry EXCEPT ![level[p]] = "directory"]
            /\ maker' = [maker EXCEPT ![level[p]] = p]
            /\ Advance(p)
    /\ UNCHANGED <<denied, wants>>

Next == \E p \in Procs : NoParents(p) \/ Stat(p) \/ Mkdir(p)

Spec == Init /\ [][Next]_vars

(***************************************************************************)
(* Properties                                                              *)
(***************************************************************************)

(* Every variable has its type. *)
TypeOK ==
    /\ entry \in [Levels -> {"none", "file", "directory"}]
    /\ maker \in [Levels -> Procs \cup {Nobody}]
    /\ level \in [Procs -> Nat] /\ wants \in [Procs -> 0 .. MaxLevels]
    /\ pc \in [Procs -> {"stat", "mkdir", "returned"}] /\ ret \in [Procs -> {0, -1}]

Obstructed(p) ==
    \/ wants[p] > MAX_DEPTH
    \/ \E k \in 1 .. wants[p] : entry[k] = "file" \/ (denied /\ entry[k] = "none")

(* A call that succeeds has all its parent directories in place. A call that
   fails without an obstacle has lost a level to another process; and such
   calls cannot all lose: when every process has returned and none met an
   obstacle, one of them succeeded (99-135, 152-166). *)
PathsMade ==
    /\ \A p \in Procs : pc[p] = "returned" =>
          IF ret[p] = 0 THEN \A k \in 1 .. wants[p] : entry[k] = "directory"
          ELSE Obstructed(p) \/ maker[level[p]] \in Procs \ {p}
    /\ (\A p \in Procs : pc[p] = "returned" /\ ~Obstructed(p)) => \E p \in Procs : ret[p] = 0

=============================================================================
