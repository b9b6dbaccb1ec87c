----------------------------- MODULE ScratchDirs -----------------------------
(***************************************************************************)
(* grvy_create_scratch_dir: the stack of scratch directories of a process, *)
(* the handler that removes them when the process exits, and what happens  *)
(* around it: the program changes its working directory, forks, fills and  *)
(* removes directories itself, or dies without running its handlers.       *)
(*                                                                         *)
(* A directory is a number; its name is absolute or relative to the        *)
(* working directory it was created from.  Names are unique (mkdtemp).     *)
(***************************************************************************)
EXTENDS Naturals, Sequences, SequencesExt

CONSTANTS
    Parent, Child,   \* the program, and a process it may fork
    Places,          \* working directories
    MaxDirs          \* bound: scratch directories created

ScratchConstants == Parent # Child /\ Places # {} /\ MaxDirs \in Nat

Procs == {Parent, Child}
Dirs == 1 .. MaxDirs

VARIABLES
    state,      \* of each process: "unborn", "running", "exiting", "gone", "killed"
    cwd,        \* its working directory
    stack,      \* _grvy_create_scratch_dir_paths, top last
    handlers,   \* how often the handler is registered with atexit
    emptied,    \* an exiting process has emptied the directory on top
    made,       \* directories created so far
    creator,    \* of each: the process,
    place,      \*   its working directory then,
    form,       \*   and the name: "absolute", "relative", or "unlisted" if
                \*   the function failed with the directory made
    inherited,  \* history: directories on the parent's stack when it forked
    exists,     \* directories that exist
    full,       \* those with something in them
    removed,    \* those the program removed itself
    reported    \* those the handler could not remove: perror

process == <<state, cwd, stack, handlers, emptied>>
directories == <<made, creator, place, form>>
vars == <<process, directories, inherited, exists, full, removed, reported>>

Init ==
    /\ state = [p \in Procs |-> IF p = Parent THEN "running" ELSE "unborn"]
    /\ cwd \in [Procs -> Places] /\ cwd[Child] = cwd[Parent]
    /\ stack = [p \in Procs |-> <<>>]
    /\ handlers = [p \in Procs |-> 0]
    /\ emptied = [p \in Procs |-> FALSE]
    /\ made = 0
    /\ creator = [d \in Dirs |-> Parent]
    /\ place = [d \in Dirs |-> cwd[Parent]]
    /\ form = [d \in Dirs |-> "absolute"]
    /\ inherited = {}
    /\ exists = {} /\ full = {} /\ removed = {} /\ reported = {}

(***************************************************************************)
(* The function. A template without the six X's is refused, and a failed   *)
(* mkdtemp changes nothing; if memory runs out or atexit fails, it reports *)
(* an error and leaves the directory behind.                               *)
(***************************************************************************)
(* Defect: one list for all processes. *)
PushedShared(p, d) == stack' = [q \in Procs |-> Append(stack[q], d)]

Pushed(p, d) == stack' = [stack EXCEPT ![p] = Append(@, d)]

CreateScratchDir(p, name) ==
    LET d == made + 1
        register == stack[p] = <<>>
    IN  /\ state[p] = "running" /\ d \in Dirs
        /\ made' = d /\ exists' = exists \cup {d}
        /\ creator' = [creator EXCEPT ![d] = p]
        /\ place' = [place EXCEPT ![d] = cwd[p]]
        /\ \/ /\ handlers' = [handlers EXCEPT ![p] = IF register THEN @ + 1 ELSE @]
              /\ form' = [form EXCEPT ![d] = name]
              /\ Pushed(p, d)
           \/ /\ form' = [form EXCEPT ![d] = "unlisted"]
              /\ UNCHANGED <<handlers, stack>>
        /\ UNCHANGED <<state, cwd, emptied, inherited, full, removed, reported>>

(***************************************************************************)
(* The program                                                             *)
(***************************************************************************)
Fill(p, d) ==
    /\ state[p] = "running" /\ d \in exists
    /\ full' = full \cup {d}
    /\ UNCHANGED <<process, directories, inherited, exists, removed, reported>>

RemoveDir(p, d) ==
    /\ state[p] = "running" /\ d \in exists
    /\ exists' = exists \ {d} /\ full' = full \ {d}
    /\ removed' = removed \cup {d}
    /\ UNCHANGED <<process, directories, inherited, reported>>

ChangeDir(p, w) ==
    /\ state[p] = "running"
    /\ cwd' = [cwd EXCEPT ![p] = w]
    /\ UNCHANGED <<state, stack, handlers, emptied, directories, inherited, exists, full, removed, reported>>

(* The child inherits the stack and the registered handler. *)
Fork ==
    /\ state[Parent] = "running" /\ state[Child] = "unborn"
    /\ state' = [state EXCEPT ![Child] = "running"]
    /\ cwd' = [cwd EXCEPT ![Child] = cwd[Parent]]
    /\ stack' = [stack EXCEPT ![Child] = stack[Parent]]
    /\ handlers' = [handlers EXCEPT ![Child] = handlers[Parent]]
    /\ inherited' = ToSet(stack[Parent])
    /\ UNCHANGED <<emptied, directories, exists, full, removed, reported>>

Kill(p) ==
    /\ state[p] \in {"running", "exiting"}
    /\ state' = [state EXCEPT ![p] = "killed"]
    /\ UNCHANGED <<cwd, stack, handlers, emptied, directories, inherited, exists, full, removed, reported>>

Exit(p) ==
    /\ state[p] = "running"
    /\ state' = [state EXCEPT ![p] = IF handlers[p] > 0 THEN "exiting" ELSE "gone"]
    /\ UNCHANGED <<cwd, stack, handlers, emptied, directories, inherited, exists, full, removed, reported>>

(***************************************************************************)
(* The handler: from the top of the stack, RemoveAll and pop               *)
(***************************************************************************)
Top(p) == Last(stack[p])

(* The directory a path leads to from the working directory of now. *)
Found(p) == Top(p) \in exists /\ (form[Top(p)] = "relative" => place[Top(p)] = cwd[p])

Pop(p) == /\ stack' = [stack EXCEPT ![p] = Front(@)]
          /\ emptied' = [emptied EXCEPT ![p] = FALSE]

(* A path that is not there counts as removed. *)
SkipTop(p) ==
    /\ state[p] = "exiting" /\ stack[p] # <<>> /\ ~emptied[p] /\ ~Found(p)
    /\ Pop(p)
    /\ UNCHANGED <<state, cwd, handlers, directories, inherited, exists, full, removed, reported>>

(* nftw visits the contents before the directory: unlink, then rmdir. *)
EmptyTop(p) ==
    /\ state[p] = "exiting" /\ stack[p] # <<>> /\ ~emptied[p] /\ Found(p)
    /\ full' = full \ {Top(p)}
    /\ emptied' = [emptied EXCEPT ![p] = TRUE]
    /\ UNCHANGED <<state, cwd, stack, handlers, directories, inherited, exists, removed, reported>>

(* Defect: a failure is not reported. *)
RemoveTopSilently(p) ==
    LET d == Top(p)
    IN  /\ state[p] = "exiting" /\ emptied[p]
        /\ exists' = IF d \in full THEN exists ELSE exists \ {d}
        /\ Pop(p)
        /\ UNCHANGED <<state, cwd, handlers, directories, inherited, full, removed, reported>>

(* rmdir fails if someone has put a file there, or removed it, meanwhile. *)
RemoveTop(p) ==
    LET d == Top(p)
    IN  /\ state[p] = "exiting" /\ emptied[p]
        /\ IF d \in exists /\ d \notin full
           THEN exists' = exists \ {d} /\ UNCHANGED reported
           ELSE reported' = reported \cup {d} /\ UNCHANGED exists
        /\ Pop(p)
        /\ UNCHANGED <<state, cwd, handlers, directories, inherited, full, removed>>

HandlerDone(p) ==
    /\ state[p] = "exiting" /\ stack[p] = <<>>
    /\ state' = [state EXCEPT ![p] = "gone"]
    /\ UNCHANGED <<cwd, stack, handlers, emptied, directories, inherited, exists, full, removed, reported>>

Next ==
    \/ Fork
    \/ \E p \in Procs :
        \/ \E name \in {"absolute", "relative"} : CreateScratchDir(p, name)
        \/ \E d \in Dirs : Fill(p, d) \/ RemoveDir(p, d)
        \/ \E w \in Places : ChangeDir(p, w)
        \/ Kill(p) \/ Exit(p) \/ SkipTop(p) \/ EmptyTop(p) \/ RemoveTop(p) \/ HandlerDone(p)

Spec == Init /\ [][Next]_vars

(***************************************************************************)
(* Properties                                                              *)
(***************************************************************************)

(* Every variable has its type. *)
TypeOK ==
    /\ state \in [Procs -> {"unborn", "running", "exiting", "gone", "killed"}]
    /\ cwd \in [Procs -> Places]
    /\ stack \in [Procs -> Seq(Dirs)]
    /\ handlers \in [Procs -> Nat] /\ emptied \in [Procs -> BOOLEAN]
    /\ made \in 0 .. MaxDirs
    /\ creator \in [Dirs -> Procs] /\ place \in [Dirs -> Places]
    /\ form \in [Dirs -> {"absolute", "relative", "unlisted"}]
    /\ exists \subseteq Dirs /\ full \subseteq exists
    /\ inherited \subseteq Dirs /\ removed \subseteq Dirs /\ reported \subseteq Dirs

(* A directory the function promised to delete: it returned 0, and the
   program did not remove the directory itself. *)
Promised == {d \in 1 .. made : form[d] # "unlisted"} \ removed

(* "the new directory and all of its contents are deleted when the process
   exits" (grvy.h.in:905-906): is a directory there while the process that
   asked for it runs, and gone once that has exited, unless the handler has
   reported that it could not delete it? *)
DeletedAtExit ==
    \A d \in Promised :
        /\ state[creator[d]] = "running" => d \in exists
        /\ state[creator[d]] = "gone" => d \notin exists \/ d \in reported

(* Of the promise above, what the code keeps. A process that ran its handler
   leaves a directory behind only if it reports that, or if the name is
   relative and the process has moved to another working directory since:
   whatever the program, another process or the handler of a forked one did
   to the directory, no other entry of the list is skipped (353-376). *)
ScratchGone ==
    \A d \in Promised :
        state[creator[d]] = "gone" /\ d \in exists
        => d \in reported \/ (form[d] = "relative" /\ place[d] # cwd[creator[d]])

(* And while its creator runs, a directory is taken only by the exit of a
   process that was forked with the directory on its list: none that was
   made after the fork, on either side, is taken early (335-337, 353-366). *)
NotTakenEarly ==
    \A d \in Promised :
        state[creator[d]] = "running" /\ d \notin exists
        => d \in inherited /\ state[Child] \in {"exiting", "gone", "killed"}

=============================================================================
