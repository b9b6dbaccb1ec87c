---------------------------- MODULE SessionProofs ----------------------------
(***************************************************************************)
(* The checks, the options, the statistics file and the assertion of an    *)
(* Ocore session, for any number of MPI tasks and any input files.         *)
(***************************************************************************)
EXTENDS OcoreSession, Sums

First == StartingRank         \* the Ocore task of rank 0 in MPI_COMM_OCORE
Rejects == config.ocores < 1 \/ ~ EnoughTasks

(* The stages of a rank, by what has happened. *)
Fresh  == {"start", "groups", "comms", "ranks", "enable"}
Agreed == {"config", "setup", "ready", "work", "poll", "drain", "notify", "gate", "header",
           "written", "turn", "took", "reduce", "gather", "close", "finished"}
Places == Fresh \cup {"options", "bcast"} \cup Agreed \cup Stopped
OnWork  == {"work", "drain", "notify", "reduce"}
OnOcore == {"setup", "poll", "header", "written", "turn", "took", "empty_dump"}
Before  == Fresh \cup {"options", "bcast", "config", "setup", "ready", "work", "poll", "drain",
                       "notify", "gate", "header", "written", "aborted"}

(* Before, during and after the turns of the statistics, on a rank where the
   library is on or off. *)
Early(stage, on) == stage \in Before \/ (stage = "finished" /\ ~ on)
Turning(stage) == stage \in {"turn", "took", "empty_dump", "aborted"}
Late(stage, on) == stage \in {"gather", "close"} \/ (stage = "finished" /\ on)

Fields == {"use_disk_overflow", "allow_empty_records", "blocksize", "dump_stats", "statsfile"}
Shared == {"blocksize", "dump_stats", "statsfile"}

Same(mine, root) == \A f \in Shared : mine[f] = root[f]

-----------------------------------------------------------------------------
Types ==
  /\ config \in [nprocs : 1 .. MaxProcs, ocores : 0 .. MaxProcs,
                 file : InputFiles \cup {NoFile}, ownsMPI : BOOLEAN, buffers : BOOLEAN]
  /\ job \in {"running", "killed"}
  /\ pc \in [Ranks -> Places]
  /\ enabled \in [Ranks -> BOOLEAN] /\ spilled \in [Ranks -> BOOLEAN]
  /\ distrib \in [Ranks -> 0 .. MaxProcs]
  /\ wrote \in [Ranks -> Nat] /\ made \in [Ranks -> Nat]
  /\ mastersWrites \in [Ranks -> Nat] /\ othersWrites \in [Ranks -> Nat]
  /\ held \in [Ranks -> Nat]
  /\ DOMAIN options = Ranks /\ \A r \in Ranks : DOMAIN options[r] = Fields

(* A job that is rejected never leaves the first barrier. *)
Rejected == Rejects =>
  /\ pc[Master] \in {"start", "aborted"}
  /\ \A r \in Ranks : pc[r] \in {"start", "groups", "aborted"}
  /\ stats.blocks = << >> /\ turn = 1

(* Work tasks and Ocore tasks run different stages, and only an Ocore task
   that dumps its statistics reaches the dump. *)
Roles == \A r \in Ranks :
  /\ r \in OcoreTasks => pc[r] \notin OnWork
  /\ r \notin OcoreTasks => pc[r] \notin OnOcore
  /\ r # Master => pc[r] # "options"
  /\ pc[r] \in {"header", "written"} => options[r].dump_stats

(* What a rank knows of the options follows the master. *)
Options ==
  /\ \A r \in Ranks : pc[r] \in Fresh => enabled[r] /\ options[r] = Constructed
  /\ ~ enabled[Master] => pc[Master] = "finished" /\ options[Master] = Constructed
  /\ \A r \in Ranks \ {Master} :
       /\ pc[r] = "bcast" => enabled[r] /\ enabled[Master] /\ pc[Master] \notin Fresh
       /\ pc[r] \in Agreed \ {"finished"} => enabled[r]
       /\ pc[r] \in Agreed => /\ pc[Master] \in Agreed /\ (enabled[r] <=> enabled[Master])
                              /\ Same(options[r], options[Master])

(* The Ocore tasks go through the dump together, the first of them without
   a turn of its own; block i is in the file once rank i took its turn. *)
Upto(n) == stats.blocks = [i \in 1 .. n |-> i]

Dump == ~ Rejects =>
  /\ Early(pc[First], enabled[First]) =>
       /\ Upto(0) /\ turn = 1
       /\ \A o \in OcoreTasks : Early(pc[o], enabled[o])
  /\ pc[First] \in {"turn", "took"} =>
       /\ turn \in 1 .. config.ocores - 1
       /\ \A o \in OcoreTasks : Turning(pc[o]) /\ enabled[o] /\ options[o].dump_stats
       /\ pc[First + turn] = "took" => Upto(turn)
       /\ pc[First + turn] # "took" => Upto(turn - 1)
  /\ Late(pc[First], enabled[First]) =>
       /\ \A o \in OcoreTasks : Late(pc[o], enabled[o])
       /\ turn \in 1 .. config.ocores
       /\ options[First].dump_stats => Upto(config.ocores - 1)
       /\ ~ options[First].dump_stats => Upto(0)
  /\ pc[First] # "empty_dump"

(* The stages an Ocore task is in while the statistics are dumped, those of
   a work task by then, and those of the master once it sends no more. *)
Dumping == {"header", "written", "turn", "took", "empty_dump"}
Leaving == {"reduce", "gather", "close", "finished"}
Stopping == {"gate"} \cup Leaving

(* Writes under way to Ocore task o, w's among them. *)
UnderWay(w, o) == IF w = Master THEN mastersWrites[o] ELSE othersWrites[o]

(* A work task deals its records round the Ocore tasks. One that does not
   poll any more has every record of the master, which has stopped, and all
   work tasks are done when the Ocore tasks dump their statistics. *)
Dealt == ~ Rejects =>
  /\ \A w \in Ranks :
       /\ distrib[w] \in 0 .. config.ocores - 1
       /\ made[w] < config.ocores => distrib[w] = made[w]
       /\ \A k \in 0 .. config.ocores - 1 :
            made[w] > k => held[First + k] > 0 \/ (config.buffers /\ UnderWay(w, First + k) > 0)
  /\ \A o \in OcoreTasks :
       /\ pc[o] \in Dumping => \A w \in WorkTasks : pc[w] \in Leaving
       /\ pc[o] \in {"gate"} \cup Dumping => mastersWrites[o] = 0 /\ pc[Master] \in Stopping
       /\ pc[o] = "empty_dump" => held[o] = 0

IInv == Types /\ Rejected /\ Roles /\ Options /\ Dump /\ Dealt

-----------------------------------------------------------------------------
(* Stages and ranks.                                                        *)

LEMMA StageIndex ==
  /\ DOMAIN Stages = 1 .. 23
  /\ \A i, j \in 1 .. 23 : Stages[i] = Stages[j] => i = j
BY DEF Stages

LEMMA PositionIs == \A i \in 1 .. 23 : Position(Stages[i]) = i
BY StageIndex DEF Position

LEMMA PlacesAre == Places = Range(Stages) \cup Stopped
BY StageIndex DEF Range, Stages, Places, Fresh, Agreed, Stopped

LEMMA PastIs ==
  ASSUME NEW r, pc[r] \in Places
  PROVE  /\ Past(r, "groups") <=> pc[r] \notin {"start", "groups"} \cup Stopped
         /\ Past(r, "enable") <=> pc[r] \notin Fresh \cup Stopped
         /\ Past(r, "bcast") <=> pc[r] \in Agreed
         /\ Past(r, "notify") => pc[r] \in {"gate", "header", "written", "turn", "took",
                                            "reduce", "gather", "close", "finished"}
         /\ Past(r, "took") <=> pc[r] \in {"reduce", "gather", "close", "finished"}
BY PositionIs, StageIndex DEF Past, Places, Stopped, Stages, Fresh, Agreed

LEMMA Fixed ==
  ASSUME config' = config
  PROVE  /\ Ranks' = Ranks /\ First' = First /\ OcoreTasks' = OcoreTasks
         /\ WorkTasks' = WorkTasks /\ (Rejects' <=> Rejects)
BY DEF Ranks, First, StartingRank, OcoreTasks, WorkTasks, Rejects, EnoughTasks

LEMMA RankFacts ==
  ASSUME Types
  PROVE  /\ Master \in Ranks /\ config.ocores \in 0 .. MaxProcs /\ config.ocores \in Nat
         /\ OcoreTasks \subseteq Ranks /\ WorkTasks = Ranks \ OcoreTasks /\ Ranks \subseteq Nat
         /\ ~ Rejects => /\ Master \notin OcoreTasks /\ First \in OcoreTasks /\ First \in Nat
                         /\ config.ocores > 0
                         /\ \A o \in OcoreTasks : o - First \in 0 .. config.ocores - 1
                         /\ \A k \in 0 .. config.ocores - 1 : First + k \in OcoreTasks
BY SessionBounds DEF Types, Master, Ranks, OcoreTasks, WorkTasks, First, StartingRank,
                     Rejects, EnoughTasks

LEMMA InitInvariant == Init => IInv
<1> SUFFICES ASSUME Init PROVE IInv
  OBVIOUS
<1>1. Types
  <2>1. pc \in [Ranks -> Places] /\ job \in {"running", "killed"}
    BY DEF Init, Places, Fresh
  <2>2. 0 \in 0 .. MaxProcs
    BY SessionBounds
  <2>3. /\ distrib \in [Ranks -> 0 .. MaxProcs]
        /\ wrote \in [Ranks -> Nat] /\ made \in [Ranks -> Nat]
        /\ mastersWrites \in [Ranks -> Nat] /\ othersWrites \in [Ranks -> Nat]
        /\ held \in [Ranks -> Nat]
    BY <2>2 DEF Init
  <2>4. enabled \in [Ranks -> BOOLEAN] /\ spilled \in [Ranks -> BOOLEAN]
    BY Zenon DEF Init
  <2>5. DOMAIN options = Ranks /\ \A r \in Ranks : DOMAIN options[r] = Fields
    BY DEF Init, Constructed, Fields
  <2>6. config \in [nprocs : 1 .. MaxProcs, ocores : 0 .. MaxProcs,
                   file : InputFiles \cup {NoFile}, ownsMPI : BOOLEAN, buffers : BOOLEAN]
    BY DEF Init
  <2> QED BY <2>1, <2>3, <2>4, <2>5, <2>6 DEF Types
<1>2. Master \in Ranks /\ OcoreTasks \subseteq Ranks
  BY <1>1, RankFacts
<1>3. \A r \in Ranks : pc[r] = "start" /\ enabled[r] = TRUE /\ options[r] = Constructed
                       /\ distrib[r] = 0 /\ made[r] = 0
  BY DEF Init
<1>4. stats.blocks = << >> /\ turn = 1
  BY DEF Init
<1>5. Rejected /\ Roles /\ Options
  BY <1>2, <1>3, <1>4 DEF Rejected, Roles, Options, OnWork, OnOcore, Agreed
<1>6. Dump
  <2>1. << >> = [i \in 1 .. 0 |-> i]
    OBVIOUS
  <2> QED BY <1>1, <1>2, <1>3, <1>4, <2>1, RankFacts
          DEF Dump, Early, Late, Before, Fresh, Upto
<1>7. Dealt
  BY <1>1, <1>2, <1>3, RankFacts DEF Dealt, Dumping
<1> QED BY <1>1, <1>5, <1>6, <1>7 DEF IInv

-----------------------------------------------------------------------------
(* How pc changes.                                                          *)

LEMMA GotoIs ==
  ASSUME Types, NEW r \in Ranks, NEW x \in Places, Goto(r, x)
  PROVE  pc' \in [Ranks -> Places] /\ pc'[r] = x /\ \A q \in Ranks \ {r} : pc'[q] = pc[q]
BY DEF Types, Goto

LEMMA MeetIs ==
  ASSUME Types, NEW group, NEW here, NEW next, group \subseteq Ranks, Meet(group, here, next),
         \A r \in group : next[r] \in Places
  PROVE  /\ pc' \in [Ranks -> Places]
         /\ \A r \in group : pc[r] = here /\ pc'[r] = next[r]
         /\ \A r \in Ranks \ group : pc'[r] = pc[r]
BY DEF Types, Meet

(* The first Ocore task is before, in or after the turns. *)
LEMMA Phases ==
  ASSUME IInv, ~ Rejects
  PROVE  /\ First \in OcoreTasks
         /\ \/ Early(pc[First], enabled[First])
            \/ pc[First] \in {"turn", "took"}
            \/ Late(pc[First], enabled[First])
         /\ Early(pc[First], enabled[First]) => /\ pc[First] \notin {"turn", "took"}
                                                /\ ~ Late(pc[First], enabled[First])
         /\ pc[First] \in {"turn", "took"} => ~ Late(pc[First], enabled[First])
<1>1. Types /\ Roles /\ Dump
  BY DEF IInv
<1>2. First \in OcoreTasks /\ First \in Ranks
  BY <1>1, RankFacts
<1>3. pc[First] \in Places /\ pc[First] \notin OnWork /\ pc[First] # "empty_dump"
  BY <1>1, <1>2 DEF Types, Roles, Dump
<1> QED BY <1>2, <1>3 DEF Places, OnWork, Stopped, Fresh, Agreed, Early, Late, Before

(* The record of the dump stands while no Ocore task moves from one side of
   it to the other. *)
LEMMA DumpKept ==
  ASSUME IInv, ~ Rejects, UNCHANGED <<config, stats, turn>>,
         \A o \in OcoreTasks :
           \/ pc'[o] = pc[o] /\ (enabled'[o] <=> enabled[o]) /\ options'[o] = options[o]
           \/ /\ Early(pc[o], enabled[o]) /\ Early(pc'[o], enabled'[o])
              /\ pc[o] # "aborted"
           \/ /\ Late(pc[o], enabled[o]) /\ Late(pc'[o], enabled'[o])
              /\ options'[o] = options[o]
  PROVE  Dump'
<1>1. Types /\ Dump
  BY DEF IInv
<1>2. /\ First' = First /\ OcoreTasks' = OcoreTasks /\ ~ Rejects'
      /\ First \in OcoreTasks /\ \A k \in 0 .. config.ocores - 1 : First + k \in OcoreTasks
  BY <1>1, Fixed, RankFacts
<1>3. \A o \in OcoreTasks :
        /\ Early(pc'[o], enabled'[o]) <=> Early(pc[o], enabled[o])
        /\ Late(pc'[o], enabled'[o]) <=> Late(pc[o], enabled[o])
        /\ Late(pc[o], enabled[o]) => options'[o] = options[o]
        /\ Turning(pc[o]) => /\ pc'[o] = pc[o] /\ (enabled'[o] <=> enabled[o])
                             /\ options'[o] = options[o]
        /\ pc'[o] \in {"turn", "took", "empty_dump"} => pc'[o] = pc[o]
  BY DEF Early, Late, Turning, Before, Fresh
<1>4. CASE Early(pc[First], enabled[First])
  BY <1>1, <1>2, <1>3, <1>4, Phases DEF Dump, Upto
<1>5. CASE pc[First] \in {"turn", "took"}
  <2>1. /\ turn \in 1 .. config.ocores - 1 /\ First + turn \in OcoreTasks
        /\ \A o \in OcoreTasks : Turning(pc[o]) /\ enabled[o] /\ options[o].dump_stats
    BY <1>1, <1>2, <1>5 DEF Dump
  <2>2. pc'[First] = pc[First] /\ pc'[First + turn] = pc[First + turn]
    BY <1>2, <1>3, <2>1
  <2> QED BY <1>1, <1>2, <1>3, <1>5, <2>1, <2>2, Phases DEF Dump, Upto
<1>6. CASE Late(pc[First], enabled[First])
  BY <1>1, <1>2, <1>3, <1>6, Phases DEF Dump, Upto
<1> QED BY <1>4, <1>5, <1>6, Phases

LEMMA DealtKept ==
  ASSUME IInv, ~ Rejects, UNCHANGED <<config, distrib, made, mastersWrites, othersWrites, held>>,
         \A o \in OcoreTasks :
           /\ pc'[o] \in Dumping => pc[o] \in Dumping
           /\ pc'[o] = "empty_dump" => pc[o] = "empty_dump"
           /\ pc'[o] = "gate" =>
                \/ pc[o] = "gate"
                \/ mastersWrites[o] = 0 /\ pc'[Master] \in Stopping,
         pc[Master] \in Stopping => pc'[Master] \in Stopping,
         \A w \in WorkTasks : pc[w] \in Leaving => pc'[w] \in Leaving
  PROVE  Dealt'
<1>1. Types /\ Dealt
  BY DEF IInv
<1>2. /\ Ranks' = Ranks /\ First' = First /\ OcoreTasks' = OcoreTasks /\ WorkTasks' = WorkTasks
      /\ ~ Rejects'
  BY <1>1, Fixed
<1> QED BY <1>1, <1>2 DEF Dealt, Dumping, UnderWay

(* Moves that concern neither the options nor the statistics. *)
Middle == {"config", "setup", "ready", "work", "poll", "drain", "notify", "gate"}

Quiet(r, a, b) ==
  \/ a \in Fresh /\ b \in Fresh
  \/ /\ a \in Middle /\ b \in Middle
     /\ r \in OcoreTasks => b \notin OnWork
     /\ r \notin OcoreTasks => b \notin OnOcore
  \/ a = "setup" /\ b = "aborted"
  \/ a = "header" /\ b = "written"
  \/ a = "reduce" /\ b = "gather"
  \/ a = "gather" /\ b = "close"
  \/ a = "close" /\ b = "finished"

LEMMA QuietStep ==
  ASSUME IInv, ~ Rejects, pc' \in [Ranks -> Places],
         \A r \in Ranks : pc'[r] = pc[r] \/ Quiet(r, pc[r], pc'[r]),
         pc[Master] \in Stopping => pc'[Master] \in Stopping,
         \A o \in OcoreTasks : pc'[o] = "gate" =>
           pc[o] = "gate" \/ (mastersWrites[o] = 0 /\ pc'[Master] \in Stopping),
         UNCHANGED <<config, job, local, stats, turn>>
  PROVE  IInv'
<1>1. /\ Types /\ Roles /\ Options /\ Dump /\ Dealt
      /\ UNCHANGED <<enabled, options, distrib, wrote, made, mastersWrites, othersWrites, held, spilled>>
  BY DEF IInv, local, records
<1>2. /\ Ranks' = Ranks /\ First' = First /\ OcoreTasks' = OcoreTasks /\ WorkTasks' = WorkTasks
      /\ ~ Rejects' /\ Master \in Ranks /\ Master \notin OcoreTasks /\ OcoreTasks \subseteq Ranks
      /\ First \in OcoreTasks /\ WorkTasks = Ranks \ OcoreTasks
      /\ \A k \in 0 .. config.ocores - 1 : First + k \in OcoreTasks
  BY <1>1, Fixed, RankFacts
<1>3. Types' /\ Rejected'
  BY <1>1, <1>2 DEF Types, Rejected
<1>4. Roles'
  BY <1>1, <1>2 DEF Roles, Quiet, Fresh, Middle, OnWork, OnOcore
<1>5. Options'
  <2>1. pc[Master] \notin OnOcore
    BY <1>1, <1>2 DEF Roles
  <2>2. \A r \in Ranks : /\ pc'[r] \in Fresh => pc[r] \in Fresh
                         /\ pc[r] = "finished" => pc'[r] = "finished"
                         /\ pc[r] \in Fresh => pc'[r] \in Fresh
                         /\ pc'[r] = "bcast" => pc[r] = "bcast"
                         /\ pc'[r] \in Agreed => pc[r] \in Agreed
                         /\ pc'[r] \in Agreed \ {"finished"} => pc[r] \in Agreed \ {"finished"}
    BY DEF Quiet, Fresh, Middle, Agreed
  <2>3. pc[Master] \in Agreed => pc'[Master] \in Agreed
    BY <1>2, <2>1 DEF Quiet, Fresh, Middle, Agreed, OnOcore
  <2> QED BY <1>1, <1>2, <2>2, <2>3 DEF Options
<1>6. \A o \in OcoreTasks :
        \/ pc'[o] = pc[o]
        \/ /\ Early(pc[o], enabled[o]) /\ Early(pc'[o], enabled[o])
           /\ pc[o] # "aborted"
        \/ Late(pc[o], enabled[o]) /\ Late(pc'[o], enabled[o])
  <2> TAKE o \in OcoreTasks
  <2>1. pc[o] = "close" => enabled[o]
    BY <1>1, <1>2 DEF Options, Agreed
  <2>2. pc[o] # "reduce"
    BY <1>1, <1>2 DEF Roles, OnWork
  <2> QED BY <1>2, <2>1, <2>2 DEF Quiet, Early, Late, Before, Fresh, Middle
<1>7. Dump'
  BY <1>1, <1>2, <1>6, DumpKept
<1>8. Dealt'
  <2>1. \A o \in OcoreTasks : /\ pc'[o] \in Dumping => pc[o] \in Dumping
                              /\ pc'[o] = "empty_dump" => pc[o] = "empty_dump"
    BY <1>2 DEF Quiet, Fresh, Middle, Dumping
  <2>2. \A w \in WorkTasks : pc[w] \in Leaving => pc'[w] \in Leaving
    BY <1>2 DEF Quiet, Fresh, Middle, Leaving
  <2> QED BY <1>1, <2>1, <2>2, DealtKept
<1> QED BY <1>3, <1>4, <1>5, <1>7, <1>8 DEF IInv

-----------------------------------------------------------------------------
(* A job that is rejected: its ranks stop at the check or the first barrier. *)

LEMMA RejectedStep ==
  ASSUME IInv, Rejects, Step
  PROVE  IInv'
<1>1. /\ Types /\ Rejected /\ Roles /\ Options /\ UNCHANGED <<config, job>>
      /\ (\E r \in Ranks : RankStep(r)) \/ Collective
  BY DEF IInv, Step
<1>2. /\ Ranks' = Ranks /\ OcoreTasks' = OcoreTasks /\ WorkTasks' = WorkTasks /\ Rejects'
      /\ Master \in Ranks /\ WorkTasks \subseteq Ranks /\ OcoreTasks \subseteq Ranks
  BY <1>1, Fixed, RankFacts
<1>3. /\ pc[Master] \in {"start", "aborted"}
      /\ \A r \in Ranks : pc[r] \in {"start", "groups", "aborted"}
      /\ stats.blocks = << >> /\ turn = 1
  BY <1>1 DEF Rejected
<1>4. ~ Collective
  <2>1. ~ BuildCommunicators
    BY <1>2, <1>3 DEF BuildCommunicators, Setup, Meet
  <2>2. ~ MasterEnable /\ ~ ReadOptions /\ ~ NotifyOcoreTasks
    BY <1>3 DEF MasterEnable, ReadOptions, NotifyOcoreTasks
  <2>3. ~ ShowConfiguration /\ ~ Ready /\ ~ PassGate
    BY <1>2, <1>3 DEF ShowConfiguration, Ready, PassGate, Meet
  <2>4. ~ DrainWork
    BY <1>2, <1>3 DEF DrainWork, Meet
  <2>5. ~ HeaderBarrier /\ ~ TurnBarrier
    BY <1>2, <1>3 DEF HeaderBarrier, TurnBarrier, Meet
  <2>6. ~ Close
    BY <1>2, <1>3 DEF Close, Meet
  <2> QED BY <2>1, <2>2, <2>3, <2>4, <2>5, <2>6 DEF Collective
<1>5. PICK r \in Ranks : RankStep(r)
  BY <1>1, <1>4
<1>6. CheckConfiguration(r)
  BY <1>3, <1>5 DEF RankStep, OtherEnable, BcastOptions, SetUpOcoreTask, Write,
                    StoreData, CallFinalize, LeavePolling, WriteHeader, TakeTurn, Reduce, Gather
<1>7. UNCHANGED <<local, outputs>> /\ pc[r] = "start"
  BY <1>6 DEF CheckConfiguration
<1>8. PICK x \in {"aborted", "groups"} : Goto(r, x) /\ (r = Master => x = "aborted")
  <2>1. r = Master => config.ocores < 1 \/ ~ EnoughTasks
    BY DEF Rejects
  <2> QED BY <1>6, <2>1 DEF CheckConfiguration
<1>9. x \in Places
  BY <1>8 DEF Places, Fresh, Stopped
<1>10. /\ pc' \in [Ranks -> Places] /\ pc'[r] = x /\ \A q \in Ranks \ {r} : pc'[q] = pc[q]
  BY <1>1, <1>8, <1>9, GotoIs
<1>11. Types' /\ Rejected'
  BY <1>1, <1>2, <1>3, <1>7, <1>8, <1>10 DEF Types, Rejected, local, outputs, records
<1>12. \A q \in Ranks : pc'[q] \in {"start", "groups", "aborted"}
  BY <1>3, <1>8, <1>10
<1>13. Roles'
  BY <1>2, <1>12 DEF Roles, OnWork, OnOcore
<1>14. Options'
  BY <1>1, <1>2, <1>3, <1>7, <1>8, <1>10, <1>12 DEF Options, local, records, Fresh, Agreed
<1>15. Dump' /\ Dealt'
  BY <1>2 DEF Dump, Dealt
<1> QED BY <1>11, <1>13, <1>14, <1>15 DEF IInv

-----------------------------------------------------------------------------
(* The options reach the ranks.                                             *)

(* What every step of an accepted job may use. *)
LEMMA Accepted ==
  ASSUME IInv, ~ Rejects, config' = config
  PROVE  /\ Types /\ Roles /\ Options /\ Dump /\ Dealt
         /\ Ranks' = Ranks /\ First' = First /\ OcoreTasks' = OcoreTasks
         /\ WorkTasks' = WorkTasks /\ ~ Rejects'
         /\ Master \in Ranks /\ Master \notin OcoreTasks /\ Master \in WorkTasks
         /\ OcoreTasks \subseteq Ranks /\ WorkTasks = Ranks \ OcoreTasks
         /\ First \in OcoreTasks /\ First \in Nat /\ config.ocores \in Nat /\ config.ocores > 0
         /\ \A o \in OcoreTasks : o - First \in 0 .. config.ocores - 1
         /\ \A k \in 0 .. config.ocores - 1 : First + k \in OcoreTasks
<1>1. Types /\ Roles /\ Options /\ Dump /\ Dealt
  BY DEF IInv
<1> QED BY <1>1, Fixed, RankFacts

LEMMA RejectedKept ==
  ASSUME ~ Rejects, config' = config
  PROVE  Rejected'
BY Fixed DEF Rejected

(* No Ocore task dumps before the master is past the gate. *)
LEMMA MasterFirst ==
  ASSUME IInv, ~ Rejects, pc[Master] \in Fresh \cup {"options", "bcast"}
  PROVE  \A o \in Ranks : pc[o] \notin Agreed /\ (o \in OcoreTasks => pc[o] # "empty_dump")
<1>1. /\ Options /\ Dealt /\ Master \in Ranks /\ Master \in WorkTasks
  BY Accepted, RankFacts DEF IInv
<1>2. pc[Master] \notin Agreed /\ pc[Master] \notin {"reduce", "gather", "close", "finished"}
  BY DEF Fresh, Agreed
<1> QED BY <1>1, <1>2 DEF Options, Dealt, Dumping, Leaving

LEMMA MasterEnableStep ==
  ASSUME IInv, ~ Rejects, MasterEnable, UNCHANGED <<config, job>>
  PROVE  IInv'
<1>1. /\ Types /\ Roles /\ Options /\ Dump /\ Dealt
      /\ Ranks' = Ranks /\ OcoreTasks' = OcoreTasks /\ WorkTasks' = WorkTasks
      /\ Master \in Ranks /\ Master \notin OcoreTasks /\ OcoreTasks \subseteq Ranks
      /\ WorkTasks = Ranks \ OcoreTasks
  BY Accepted
<1>2. /\ pc[Master] = "enable" /\ UNCHANGED <<options, distrib, wrote, made, mastersWrites, othersWrites, held, spilled, stats, turn>>
  BY DEF MasterEnable, outputs, records
<1>3. PICK on \in BOOLEAN : /\ enabled' = [enabled EXCEPT ![Master] = on]
                            /\ Goto(Master, IF on THEN "options" ELSE "finished")
  BY DEF MasterEnable
<1>4. (IF on THEN "options" ELSE "finished") \in Places
  BY DEF Places, Agreed
<1>5. /\ pc' \in [Ranks -> Places]
      /\ pc'[Master] = IF on THEN "options" ELSE "finished"
      /\ \A q \in Ranks \ {Master} : pc'[q] = pc[q]
  BY <1>1, <1>3, <1>4, GotoIs
<1>6. /\ enabled' \in [Ranks -> BOOLEAN] /\ enabled'[Master] = on
      /\ \A q \in Ranks \ {Master} : enabled'[q] = enabled[q]
  BY <1>1, <1>3 DEF Types
<1>7. \A o \in Ranks : pc[o] \notin Agreed /\ (o \in OcoreTasks => pc[o] # "empty_dump")
  BY <1>2, MasterFirst DEF Fresh
<1>8. Types'
  BY <1>1, <1>2, <1>5, <1>6 DEF Types
<1>9. Rejected' /\ Roles'
  BY <1>1, <1>2, <1>5, RejectedKept DEF Roles, OnWork, OnOcore
<1>10. Options'
  BY <1>1, <1>2, <1>5, <1>6, <1>7 DEF Options, Fresh, Agreed
<1>11. Dump'
  BY <1>1, <1>2, <1>5, <1>6, DumpKept
<1>12. Dealt'
  BY <1>1, <1>2, <1>5, DealtKept DEF Leaving, Stopping
<1> QED BY <1>8, <1>9, <1>10, <1>11, <1>12 DEF IInv

LEMMA OtherEnableStep ==
  ASSUME IInv, ~ Rejects, NEW r \in Ranks, OtherEnable(r), UNCHANGED <<config, job>>
  PROVE  IInv'
<1>1. /\ Types /\ Roles /\ Options /\ Dump /\ Dealt
      /\ Ranks' = Ranks /\ OcoreTasks' = OcoreTasks /\ WorkTasks' = WorkTasks
      /\ Master \in Ranks /\ OcoreTasks \subseteq Ranks
      /\ WorkTasks = Ranks \ OcoreTasks
  BY Accepted
<1>2. /\ r # Master /\ pc[r] = "enable" /\ Past(Master, "enable")
      /\ enabled' = [enabled EXCEPT ![r] = enabled[Master]]
      /\ Goto(r, IF enabled[Master] THEN "bcast" ELSE "finished")
      /\ UNCHANGED <<options, distrib, wrote, made, mastersWrites, othersWrites, held, spilled, stats, turn>>
  BY DEF OtherEnable, outputs, records
<1>3. (IF enabled[Master] THEN "bcast" ELSE "finished") \in Places
  BY DEF Places, Agreed
<1>4. /\ pc' \in [Ranks -> Places]
      /\ pc'[r] = IF enabled[Master] THEN "bcast" ELSE "finished"
      /\ \A q \in Ranks \ {r} : pc'[q] = pc[q]
  BY <1>1, <1>2, <1>3, GotoIs
<1>5. /\ enabled' \in [Ranks -> BOOLEAN] /\ (enabled'[r] <=> enabled[Master])
      /\ \A q \in Ranks \ {r} : enabled'[q] = enabled[q]
  BY <1>1, <1>2 DEF Types
<1>6. pc[Master] \notin Fresh \cup Stopped
  BY <1>1, <1>2, PastIs DEF Types
<1>7. Types'
  BY <1>1, <1>2, <1>4, <1>5 DEF Types
<1>8. Rejected' /\ Roles'
  BY <1>1, <1>2, <1>4, RejectedKept DEF Roles, OnWork, OnOcore
<1>9. Options'
  <2>1. enabled[r] /\ options[r] = Constructed
    BY <1>1, <1>2 DEF Options, Fresh
  <2>2. CASE enabled[Master]
    BY <1>1, <1>2, <1>4, <1>5, <1>6, <2>1, <2>2 DEF Options, Fresh, Agreed
  <2>3. CASE ~ enabled[Master]
    <3>1. pc[Master] = "finished" /\ options[Master] = Constructed
      BY <1>1, <2>3 DEF Options
    <3> QED BY <1>1, <1>2, <1>4, <1>5, <2>1, <2>3, <3>1 DEF Options, Fresh, Agreed, Same
  <2> QED BY <2>2, <2>3
<1>10. Dump'
  <2>1. \A o \in OcoreTasks :
          \/ pc'[o] = pc[o] /\ (enabled'[o] <=> enabled[o]) /\ options'[o] = options[o]
          \/ Early(pc[o], enabled[o]) /\ Early(pc'[o], enabled'[o]) /\ pc[o] # "aborted"
    BY <1>1, <1>2, <1>4, <1>5 DEF Early, Before, Fresh
  <2> QED BY <1>2, <2>1, DumpKept
<1>11. Dealt'
  BY <1>1, <1>2, <1>4, DealtKept DEF Leaving, Stopping, Dumping
<1> QED BY <1>7, <1>8, <1>9, <1>10, <1>11 DEF IInv

LEMMA ReadOptionsStep ==
  ASSUME IInv, ~ Rejects, ReadOptions, UNCHANGED <<config, job>>
  PROVE  IInv'
<1>1. /\ Types /\ Roles /\ Options /\ Dump /\ Dealt
      /\ Ranks' = Ranks /\ OcoreTasks' = OcoreTasks /\ WorkTasks' = WorkTasks
      /\ Master \in Ranks /\ Master \notin OcoreTasks /\ OcoreTasks \subseteq Ranks
      /\ WorkTasks = Ranks \ OcoreTasks
  BY Accepted
<1>2. /\ pc[Master] = "options" /\ options' = [options EXCEPT ![Master] = ParsedOptions]
      /\ UNCHANGED <<enabled, distrib, wrote, made, mastersWrites, othersWrites, held, spilled, stats, turn>>
  BY DEF ReadOptions, outputs, records
<1>3. PICK x \in {"bcast", "aborted"} : Goto(Master, x)
  BY DEF ReadOptions
<1>4. x \in Places
  BY DEF Places, Stopped
<1>5. /\ pc' \in [Ranks -> Places] /\ pc'[Master] = x
      /\ \A q \in Ranks \ {Master} : pc'[q] = pc[q]
  BY <1>1, <1>3, <1>4, GotoIs
<1>6. /\ DOMAIN options' = Ranks /\ DOMAIN options'[Master] = Fields
      /\ \A q \in Ranks \ {Master} : options'[q] = options[q]
  BY <1>1, <1>2 DEF Types, ParsedOptions, Fields
<1>7. \A o \in Ranks : pc[o] \notin Agreed /\ (o \in OcoreTasks => pc[o] # "empty_dump")
  BY <1>2, MasterFirst
<1>8. Types'
  BY <1>1, <1>2, <1>5, <1>6 DEF Types
<1>9. Rejected' /\ Roles'
  BY <1>1, <1>2, <1>5, <1>6, RejectedKept DEF Roles, OnWork, OnOcore
<1>10. Options'
  BY <1>1, <1>2, <1>5, <1>6, <1>7 DEF Options, Fresh, Agreed
<1>11. Dump'
  BY <1>1, <1>2, <1>5, <1>6, DumpKept
<1>12. Dealt'
  BY <1>1, <1>2, <1>5, DealtKept DEF Leaving, Stopping
<1> QED BY <1>8, <1>9, <1>10, <1>11, <1>12 DEF IInv

LEMMA BcastOptionsStep ==
  ASSUME IInv, ~ Rejects, NEW r \in Ranks, BcastOptions(r), UNCHANGED <<config, job>>
  PROVE  IInv'
<1>1. /\ Types /\ Roles /\ Options /\ Dump /\ Dealt
      /\ Ranks' = Ranks /\ OcoreTasks' = OcoreTasks /\ WorkTasks' = WorkTasks
      /\ Master \in Ranks /\ OcoreTasks \subseteq Ranks
      /\ WorkTasks = Ranks \ OcoreTasks
  BY Accepted
<1>2. /\ pc[r] = "bcast" /\ (r = Master \/ Past(Master, "bcast"))
      /\ options' = [options EXCEPT ![r] = Received(options[r], options[Master])]
      /\ Goto(r, "config")
      /\ UNCHANGED <<enabled, distrib, wrote, made, mastersWrites, othersWrites, held, spilled, stats, turn>>
  BY DEF BcastOptions, outputs, records
<1>3. "config" \in Places
  BY DEF Places, Agreed
<1>4. /\ pc' \in [Ranks -> Places] /\ pc'[r] = "config"
      /\ \A q \in Ranks \ {r} : pc'[q] = pc[q]
  BY <1>1, <1>2, <1>3, GotoIs
<1>5. /\ DOMAIN options' = Ranks /\ DOMAIN options'[r] = Fields
      /\ Same(options'[r], options[Master])
      /\ \A q \in Ranks \ {r} : options'[q] = options[q]
  <2>1. DOMAIN options[r] = Fields /\ DOMAIN options = Ranks
    BY <1>1 DEF Types
  <2>2. options'[r] = Received(options[r], options[Master])
    BY <1>2, <2>1
  <2>3. /\ DOMAIN Received(options[r], options[Master]) = Fields
        /\ Same(Received(options[r], options[Master]), options[Master])
    BY <2>1 DEF Received, Fields, Same, Shared
  <2> QED BY <1>2, <2>1, <2>2, <2>3
<1>6. r = Master \/ pc[Master] \in Agreed
  BY <1>1, <1>2, PastIs DEF Types
<1>7. enabled[r] /\ enabled[Master]
  BY <1>1, <1>2 DEF Options
<1>8. Types'
  BY <1>1, <1>2, <1>4, <1>5 DEF Types
<1>9. Rejected' /\ Roles'
  BY <1>1, <1>2, <1>4, <1>5, RejectedKept DEF Roles, OnWork, OnOcore
<1>10. Options'
  <2>1. CASE r = Master
    <3>1. \A q \in Ranks : pc[q] \notin Agreed
      BY <1>2, <2>1, MasterFirst
    <3> QED BY <1>1, <1>2, <1>4, <1>5, <1>7, <2>1, <3>1 DEF Options, Fresh, Agreed
  <2>2. CASE r # Master
    BY <1>1, <1>2, <1>4, <1>5, <1>6, <1>7, <2>2 DEF Options, Fresh, Agreed
  <2> QED BY <2>1, <2>2
<1>11. Dump'
  <2>1. \A o \in OcoreTasks :
          \/ pc'[o] = pc[o] /\ (enabled'[o] <=> enabled[o]) /\ options'[o] = options[o]
          \/ Early(pc[o], enabled[o]) /\ Early(pc'[o], enabled'[o]) /\ pc[o] # "aborted"
    BY <1>1, <1>2, <1>4, <1>5 DEF Early, Before
  <2> QED BY <1>2, <2>1, DumpKept
<1>12. Dealt'
  BY <1>1, <1>2, <1>4, DealtKept DEF Leaving, Stopping, Dumping
<1> QED BY <1>8, <1>9, <1>10, <1>11, <1>12 DEF IInv

-----------------------------------------------------------------------------
(* Records are dealt out.                                                   *)

LEMMA StoredIs ==
  ASSUME Types, NEW o \in Ranks, Stored(o)
  PROVE  /\ held' \in [Ranks -> Nat] /\ held'[o] = held[o] + 1 /\ held[o] \in Nat
         /\ \A q \in Ranks \ {o} : held'[q] = held[q]
         /\ spilled' \in [Ranks -> BOOLEAN]
         /\ \A q \in Ranks \ {o} : spilled'[q] = spilled[q]
<1>1. held \in [Ranks -> Nat] /\ spilled \in [Ranks -> BOOLEAN]
  BY DEF Types
<1>2. /\ held' = [held EXCEPT ![o] = @ + 1]
      /\ spilled' = spilled \/ spilled' = [spilled EXCEPT ![o] = TRUE]
  BY DEF Stored
<1>3. /\ held' \in [Ranks -> Nat] /\ held'[o] = held[o] + 1 /\ held[o] \in Nat
      /\ \A q \in Ranks \ {o} : held'[q] = held[q]
  BY <1>1, <1>2
<1>4. spilled' \in [Ranks -> BOOLEAN] /\ \A q \in Ranks \ {o} : spilled'[q] = spilled[q]
  <2>1. CASE spilled' = spilled
    BY <1>1, <2>1
  <2>2. CASE spilled' = [spilled EXCEPT ![o] = TRUE]
    BY <1>1, <2>2
  <2> QED BY <1>2, <2>1, <2>2
<1> QED BY <1>3, <1>4

Grows(f, g, o) == g[o] = f[o] + 1 /\ \A q \in Ranks \ {o} : g[q] = f[q]

(* A new record is counted once: at its task or on its way there. *)
LEMMA SentIs ==
  ASSUME Types, NEW w, NEW o \in Ranks, Sent(w, o)
  PROVE  /\ held' \in [Ranks -> Nat] /\ spilled' \in [Ranks -> BOOLEAN]
         /\ mastersWrites' \in [Ranks -> Nat] /\ othersWrites' \in [Ranks -> Nat]
         /\ \/ Stored(o) /\ Grows(held, held', o) /\ UNCHANGED <<mastersWrites, othersWrites>>
            \/ /\ w = Master /\ config.buffers /\ Grows(mastersWrites, mastersWrites', o)
               /\ UNCHANGED <<held, spilled, othersWrites>>
            \/ /\ w # Master /\ config.buffers /\ Grows(othersWrites, othersWrites', o)
               /\ UNCHANGED <<held, spilled, mastersWrites>>
<1>1. /\ held \in [Ranks -> Nat] /\ spilled \in [Ranks -> BOOLEAN]
      /\ mastersWrites \in [Ranks -> Nat] /\ othersWrites \in [Ranks -> Nat]
  BY DEF Types
<1>2. CASE ~ config.buffers
  BY <1>1, <1>2, StoredIs DEF Sent, Grows
<1>3. CASE config.buffers /\ w = Master
  BY <1>1, <1>3 DEF Sent, Grows
<1>4. CASE config.buffers /\ w # Master
  BY <1>1, <1>4 DEF Sent, Grows
<1> QED BY <1>2, <1>3, <1>4

(* The two ways of Write: what it does besides the count. *)
Updated == UNCHANGED <<distrib, made, mastersWrites, othersWrites, held, spilled>>

Assigned(w) ==
  /\ distrib' = [distrib EXCEPT ![w] = NextOwner(@)]
  /\ made' = [made EXCEPT ![w] = @ + 1]
  /\ \/ Sent(w, First + distrib[w])
     \/ /\ made[w] >= config.ocores
        /\ UNCHANGED <<mastersWrites, othersWrites, held, spilled>>

LEMMA WriteIs ==
  ASSUME IInv, ~ Rejects, NEW w \in Ranks, Write(w)
  PROVE  /\ pc[w] = "work" /\ w \in WorkTasks
         /\ UNCHANGED <<pc, enabled, options, stats, turn, report>>
         /\ wrote' \in [Ranks -> Nat] /\ Grows(wrote, wrote', w)
         /\ Updated \/ Assigned(w)
         /\ distrib[w] \in 0 .. config.ocores - 1
         /\ First + distrib[w] \in OcoreTasks /\ First + distrib[w] \in Ranks
<1>1. /\ Types /\ Roles /\ Dealt /\ OcoreTasks \subseteq Ranks /\ First \in Nat
      /\ WorkTasks = Ranks \ OcoreTasks
      /\ \A n \in 0 .. config.ocores - 1 : First + n \in OcoreTasks
  BY RankFacts DEF IInv
<1>2. pc[w] = "work" /\ UNCHANGED <<pc, enabled, options, stats, turn, report>>
      /\ wrote' = [wrote EXCEPT ![w] = @ + 1]
  BY DEF Write, outputs
<1>3. w \in WorkTasks
  BY <1>1, <1>2 DEF Roles, OnWork
<1>4. wrote' \in [Ranks -> Nat] /\ Grows(wrote, wrote', w)
  BY <1>1, <1>2 DEF Types, Grows
<1>5. /\ distrib[w] \in 0 .. config.ocores - 1
      /\ First + distrib[w] \in OcoreTasks /\ First + distrib[w] \in Ranks
  BY <1>1 DEF Dealt
<1>6. distrib[w] + StartingRank = First + distrib[w]
  BY <1>1, <1>5 DEF First
<1>7. Updated \/ Assigned(w)
  BY <1>6 DEF Write, Updated, Assigned
<1> QED BY <1>2, <1>3, <1>4, <1>5, <1>7

LEMMA AssignedDealt ==
  ASSUME IInv, ~ Rejects, NEW w \in Ranks, Write(w), Assigned(w), UNCHANGED <<config, job>>
  PROVE  Dealt'
<1> DEFINE k == distrib[w]
<1>1. /\ Types /\ Roles /\ Dealt
      /\ Ranks' = Ranks /\ First' = First /\ OcoreTasks' = OcoreTasks /\ WorkTasks' = WorkTasks
      /\ OcoreTasks \subseteq Ranks /\ First \in Nat
      /\ config.ocores \in Nat /\ config.ocores > 0
      /\ \A n \in 0 .. config.ocores - 1 : First + n \in OcoreTasks
  BY Accepted
<1>2. /\ pc[w] = "work" /\ w \in WorkTasks /\ UNCHANGED pc
      /\ k \in 0 .. config.ocores - 1 /\ First + k \in Ranks
  BY WriteIs
<1>3. /\ distrib'[w] = NextOwner(k) /\ made'[w] = made[w] + 1
      /\ \A q \in Ranks \ {w} : distrib'[q] = distrib[q] /\ made'[q] = made[q]
  BY <1>1 DEF Assigned, Types
<1>4. /\ \A q \in Ranks : /\ held[q] \in Nat /\ held'[q] \in Nat /\ held'[q] >= held[q]
                          /\ mastersWrites[q] \in Nat /\ mastersWrites'[q] \in Nat
                          /\ mastersWrites'[q] >= mastersWrites[q]
                          /\ othersWrites[q] \in Nat /\ othersWrites'[q] \in Nat
                          /\ othersWrites'[q] >= othersWrites[q]
      /\ w # Master => mastersWrites' = mastersWrites
      /\ \/ made[w] >= config.ocores
         \/ held'[First + k] > 0
         \/ config.buffers /\ w = Master /\ mastersWrites'[First + k] > 0
         \/ config.buffers /\ w # Master /\ othersWrites'[First + k] > 0
  <2>1. \A q \in Ranks : held[q] \in Nat /\ mastersWrites[q] \in Nat /\ othersWrites[q] \in Nat
    BY <1>1 DEF Types
  <2>2. CASE made[w] >= config.ocores /\ UNCHANGED <<mastersWrites, othersWrites, held, spilled>>
    BY <2>1, <2>2
  <2>3. CASE Sent(w, First + k)
    <3> HIDE DEF k
    <3>1. \/ Grows(held, held', First + k) /\ UNCHANGED <<mastersWrites, othersWrites>>
          \/ /\ w = Master /\ config.buffers /\ Grows(mastersWrites, mastersWrites', First + k)
             /\ UNCHANGED <<held, othersWrites>>
          \/ /\ w # Master /\ config.buffers /\ Grows(othersWrites, othersWrites', First + k)
             /\ UNCHANGED <<held, mastersWrites>>
      BY <1>1, <1>2, <2>3, SentIs
    <3> QED BY <1>2, <2>1, <3>1 DEF Grows
  <2> QED BY <2>2, <2>3 DEF Assigned
<1>5. \A q \in Ranks : made[q] \in Nat
  BY <1>1 DEF Types
<1>6. ASSUME NEW v \in Ranks
      PROVE  /\ distrib'[v] \in 0 .. config.ocores - 1
             /\ made'[v] < config.ocores => distrib'[v] = made'[v]
  <2>1. CASE v # w
    BY <1>1, <1>3, <2>1 DEF Dealt
  <2>2. CASE v = w
    <3>1. NextOwner(k) \in 0 .. config.ocores - 1
      BY <1>1, <1>2 DEF NextOwner
    <3>2. made[w] < config.ocores => k = made[w]
      BY <1>1 DEF Dealt
    <3> QED BY <1>1, <1>2, <1>3, <1>5, <2>2, <3>1, <3>2 DEF NextOwner
  <2> QED BY <2>1, <2>2
<1>7. ASSUME NEW v \in Ranks, NEW n \in 0 .. config.ocores - 1, made'[v] > n
      PROVE  held'[First + n] > 0 \/ (config.buffers /\ UnderWay(v, First + n)' > 0)
  <2>1. First + n \in Ranks
    BY <1>1
  <2>2. CASE made[v] > n
    <3>1. held[First + n] > 0 \/ (config.buffers /\ UnderWay(v, First + n) > 0)
      BY <1>1, <2>2 DEF Dealt
    <3> QED BY <1>1, <1>4, <2>1, <3>1 DEF UnderWay, Master
  <2>3. CASE ~ made[v] > n
    <3>1. v = w
      BY <1>3, <1>7, <2>3
    <3>2. n = made[w]
      BY <1>3, <1>5, <1>7, <2>3, <3>1
    <3>3. n = k /\ ~ made[w] >= config.ocores
      BY <1>1, <1>2, <3>2 DEF Dealt
    <3> QED BY <1>1, <1>4, <2>1, <3>1, <3>3 DEF UnderWay, Master
  <2> QED BY <2>2, <2>3
<1>8. ASSUME NEW o \in OcoreTasks
      PROVE  /\ pc[o] \notin Dumping
             /\ pc[o] = "gate" => mastersWrites'[o] = 0 /\ pc[Master] \in Stopping
  <2>1. pc[o] \notin Dumping
    BY <1>1, <1>2 DEF Dealt, Leaving
  <2>2. pc[o] = "gate" => mastersWrites[o] = 0 /\ pc[Master] \in Stopping
    BY <1>1 DEF Dealt
  <2>3. pc[Master] \in Stopping => w # Master
    BY <1>2 DEF Stopping, Leaving
  <2> QED BY <1>4, <2>1, <2>2, <2>3
<1> QED BY <1>1, <1>2, <1>6, <1>7, <1>8 DEF Dealt, Dumping

LEMMA WriteStep ==
  ASSUME IInv, ~ Rejects, NEW w \in Ranks, Write(w), UNCHANGED <<config, job>>
  PROVE  IInv'
<1>1. /\ Types /\ Roles /\ Options /\ Dump /\ Dealt /\ Ranks' = Ranks
      /\ OcoreTasks' = OcoreTasks
  BY Accepted
<1>2. /\ UNCHANGED <<pc, enabled, options, stats, turn>> /\ wrote' \in [Ranks -> Nat]
      /\ Updated \/ Assigned(w)
      /\ distrib[w] \in 0 .. config.ocores - 1 /\ First + distrib[w] \in Ranks
  BY WriteIs
<1>3. Types'
  <2>1. CASE Updated
    BY <1>1, <1>2, <2>1 DEF Types, Updated
  <2>2. CASE Assigned(w)
    <3>1. /\ held' \in [Ranks -> Nat] /\ spilled' \in [Ranks -> BOOLEAN]
          /\ mastersWrites' \in [Ranks -> Nat] /\ othersWrites' \in [Ranks -> Nat]
      BY <1>1, <1>2, <2>2, SentIs DEF Assigned, Types
    <3>2. NextOwner(distrib[w]) \in 0 .. MaxProcs
      <4>1. config.ocores \in 0 .. MaxProcs /\ MaxProcs \in Nat
        BY <1>1, SessionBounds DEF Types
      <4> QED BY <1>2, <4>1 DEF NextOwner
    <3>3. distrib' \in [Ranks -> 0 .. MaxProcs] /\ made' \in [Ranks -> Nat]
      BY <1>1, <2>2, <3>2 DEF Assigned, Types
    <3> QED BY <1>1, <1>2, <3>1, <3>3 DEF Types
  <2> QED BY <1>2, <2>1, <2>2
<1>4. Rejected' /\ Roles' /\ Options'
  BY <1>1, <1>2, RejectedKept DEF Roles, Options
<1>5. Dump'
  BY <1>2, DumpKept
<1>6. Dealt'
  <2>1. CASE Updated
    BY <1>1, <1>2, <2>1, DealtKept DEF Updated, Stopping
  <2> QED BY <1>2, <2>1, AssignedDealt
<1> QED BY <1>3, <1>4, <1>5, <1>6 DEF IInv

(* A write under way arrives. *)
LEMMA StoreDataIs ==
  ASSUME Types, NEW o \in Ranks, StoreData(o)
  PROVE  /\ pc[o] = "poll" /\ Stored(o)
         /\ UNCHANGED <<pc, enabled, options, distrib, wrote, made, stats, turn, report>>
         /\ mastersWrites' \in [Ranks -> Nat] /\ othersWrites' \in [Ranks -> Nat]
         /\ \/ /\ Grows(mastersWrites', mastersWrites, o) /\ UNCHANGED othersWrites
            \/ /\ Grows(othersWrites', othersWrites, o) /\ UNCHANGED mastersWrites
<1>1. mastersWrites \in [Ranks -> Nat] /\ othersWrites \in [Ranks -> Nat]
  BY DEF Types
<1>2. /\ pc[o] = "poll" /\ Stored(o)
      /\ UNCHANGED <<pc, enabled, options, distrib, wrote, made, stats, turn, report>>
  BY DEF StoreData, outputs
<1>3. CASE /\ mastersWrites[o] > 0
           /\ mastersWrites' = [mastersWrites EXCEPT ![o] = @ - 1] /\ UNCHANGED othersWrites
  BY <1>1, <1>2, <1>3 DEF Grows
<1>4. CASE /\ othersWrites[o] > 0
           /\ othersWrites' = [othersWrites EXCEPT ![o] = @ - 1] /\ UNCHANGED mastersWrites
  BY <1>1, <1>2, <1>4 DEF Grows
<1> QED BY <1>3, <1>4 DEF StoreData

LEMMA StoreDataStep ==
  ASSUME IInv, ~ Rejects, NEW o \in Ranks, StoreData(o), UNCHANGED <<config, job>>
  PROVE  IInv'
<1>1. /\ Types /\ Roles /\ Options /\ Dump /\ Dealt
      /\ Ranks' = Ranks /\ First' = First /\ OcoreTasks' = OcoreTasks /\ WorkTasks' = WorkTasks
      /\ OcoreTasks \subseteq Ranks
      /\ \A n \in 0 .. config.ocores - 1 : First + n \in OcoreTasks
  BY Accepted
<1>2. /\ pc[o] = "poll" /\ Stored(o)
      /\ UNCHANGED <<pc, enabled, options, distrib, wrote, made, stats, turn>>
      /\ mastersWrites' \in [Ranks -> Nat] /\ othersWrites' \in [Ranks -> Nat]
      /\ \/ Grows(mastersWrites', mastersWrites, o) /\ UNCHANGED othersWrites
         \/ Grows(othersWrites', othersWrites, o) /\ UNCHANGED mastersWrites
  BY <1>1, StoreDataIs
<1>3. /\ held' \in [Ranks -> Nat] /\ held'[o] = held[o] + 1 /\ held[o] \in Nat
      /\ \A q \in Ranks \ {o} : held'[q] = held[q]
      /\ spilled' \in [Ranks -> BOOLEAN]
  BY <1>1, <1>2, StoredIs
<1>4. Types'
  BY <1>1, <1>2, <1>3 DEF Types
<1>5. Rejected' /\ Roles' /\ Options'
  BY <1>1, <1>2, RejectedKept DEF Roles, Options
<1>6. Dump'
  BY <1>2, DumpKept
<1>7. \A q \in Ranks \ {o} : /\ held'[q] = held[q] /\ mastersWrites'[q] = mastersWrites[q]
                            /\ othersWrites'[q] = othersWrites[q]
  BY <1>2, <1>3 DEF Grows
<1>8. ASSUME NEW v \in Ranks, NEW n \in 0 .. config.ocores - 1, made[v] > n
      PROVE  held'[First + n] > 0 \/ (config.buffers /\ UnderWay(v, First + n)' > 0)
  <2>1. First + n \in Ranks
    BY <1>1
  <2>2. CASE First + n = o
    BY <1>3, <2>2
  <2>3. CASE First + n # o
    <3>1. held[First + n] > 0 \/ (config.buffers /\ UnderWay(v, First + n) > 0)
      BY <1>1, <1>8 DEF Dealt
    <3> QED BY <1>1, <1>7, <2>1, <2>3, <3>1 DEF UnderWay, Master
  <2> QED BY <2>2, <2>3
<1>9. ASSUME NEW p \in OcoreTasks, pc[p] \in {"gate"} \cup Dumping
      PROVE  /\ p # o /\ p \in Ranks /\ mastersWrites[p] = 0 /\ pc[Master] \in Stopping
             /\ pc[p] = "empty_dump" => held[p] = 0
  BY <1>1, <1>2, <1>9 DEF Dealt, Dumping
<1>10. Dealt'
  <2>1. ASSUME NEW p \in OcoreTasks, pc[p] \in {"gate"} \cup Dumping
        PROVE  /\ mastersWrites'[p] = 0 /\ pc[Master] \in Stopping
               /\ pc[p] = "empty_dump" => held'[p] = 0
    BY <1>7, <1>9, <2>1
  <2>2. /\ \A v \in Ranks : /\ distrib[v] \in 0 .. config.ocores - 1
                           /\ made[v] < config.ocores => distrib[v] = made[v]
        /\ \A p \in OcoreTasks : pc[p] \in Dumping => \A w \in WorkTasks : pc[w] \in Leaving
    BY <1>1 DEF Dealt
  <2>3. "empty_dump" \in Dumping
    BY DEF Dumping
  <2> QED BY <1>1, <1>2, <1>8, <2>1, <2>2, <2>3 DEF Dealt
<1> QED BY <1>4, <1>5, <1>6, <1>10 DEF IInv

-----------------------------------------------------------------------------
(* The statistics are dumped.                                               *)

LEMMA PassGateStep ==
  ASSUME IInv, ~ Rejects, PassGate, UNCHANGED <<config, job>>
  PROVE  IInv'
<1>1. /\ Types /\ Roles /\ Options /\ Dump /\ Dealt
      /\ Ranks' = Ranks /\ First' = First /\ OcoreTasks' = OcoreTasks /\ WorkTasks' = WorkTasks
      /\ ~ Rejects' /\ Master \in Ranks /\ OcoreTasks \subseteq Ranks
      /\ WorkTasks = Ranks \ OcoreTasks /\ First \in OcoreTasks
      /\ config.ocores \in Nat /\ config.ocores > 0
  BY Accepted
<1>2. /\ Meet(Ranks, "gate", [r \in Ranks |-> AfterGate(r)])
      /\ UNCHANGED <<enabled, options, distrib, wrote, made, mastersWrites, othersWrites, held, spilled, stats, turn>>
  BY DEF PassGate, local, outputs, records
<1>3. \A r \in Ranks : AfterGate(r) \in Places
  BY DEF AfterGate, Places, Agreed
<1>4. /\ pc' \in [Ranks -> Places]
      /\ \A r \in Ranks : pc[r] = "gate" /\ pc'[r] = AfterGate(r)
  BY <1>1, <1>2, <1>3, MeetIs
<1>5. \A r \in Ranks : enabled[r] /\ (options[r].dump_stats <=> options[First].dump_stats)
  <2>1. \A r \in Ranks : enabled[r]
    BY <1>1, <1>4 DEF Options, Agreed
  <2>2. \A r \in Ranks : Same(options[r], options[Master]) \/ r = Master
    BY <1>1, <1>4 DEF Options, Agreed
  <2> QED BY <1>1, <2>1, <2>2 DEF Same, Shared
<1>6. Types' /\ Rejected'
  BY <1>1, <1>2, <1>4, RejectedKept DEF Types
<1>7. Roles'
  BY <1>1, <1>2, <1>4 DEF Roles, AfterGate, OnWork, OnOcore
<1>8. Options'
  BY <1>1, <1>2, <1>4 DEF Options, AfterGate, Fresh, Agreed
<1>9. Early(pc[First], enabled[First]) /\ Upto(0) /\ turn = 1
  BY <1>1, <1>4 DEF Dump, Early, Before
<1>10. Dump'
  <2>1. CASE options[First].dump_stats
    <3>1. \A o \in OcoreTasks : pc'[o] = "header"
      BY <1>1, <1>4, <1>5, <2>1 DEF AfterGate
    <3> QED BY <1>1, <1>2, <1>9, <3>1 DEF Dump, Early, Late, Before, Fresh, Upto
  <2>2. CASE ~ options[First].dump_stats
    <3>1. \A o \in OcoreTasks : pc'[o] = "gather"
      BY <1>1, <1>4, <1>5, <2>2 DEF AfterGate
    <3> QED BY <1>1, <1>2, <1>9, <2>2, <3>1 DEF Dump, Early, Late, Before, Fresh, Upto
  <2> QED BY <2>1, <2>2
<1>11. Dealt'
  <2>1. /\ \A w \in WorkTasks : pc'[w] \in Leaving
        /\ pc'[Master] \in Stopping
        /\ \A o \in OcoreTasks : /\ mastersWrites[o] = 0
                                /\ pc'[o] # "empty_dump" /\ pc'[o] # "gate"
    BY <1>1, <1>4, Accepted DEF Dealt, AfterGate, Leaving, Stopping
  <2> QED BY <1>1, <1>2, <2>1 DEF Dealt, UnderWay
<1> QED BY <1>6, <1>7, <1>8, <1>10, <1>11 DEF IInv

LEMMA WriteHeaderStep ==
  ASSUME IInv, ~ Rejects, NEW r \in Ranks, WriteHeader(r), UNCHANGED <<config, job>>
  PROVE  IInv'
<1>1. /\ Types /\ Roles /\ Options /\ Dump /\ Dealt
      /\ Ranks' = Ranks /\ First' = First /\ OcoreTasks' = OcoreTasks /\ WorkTasks' = WorkTasks
      /\ ~ Rejects' /\ Master \in Ranks /\ OcoreTasks \subseteq Ranks
      /\ WorkTasks = Ranks \ OcoreTasks /\ First \in OcoreTasks
  BY Accepted
<1>2. /\ pc[r] = "header" /\ (stats' = stats \/ stats'.blocks = << >>)
      /\ UNCHANGED <<enabled, options, distrib, wrote, made, mastersWrites, othersWrites, held, spilled, turn>>
  BY DEF WriteHeader, local, records
<1>3. PICK x \in {"written", "aborted"} : Goto(r, x)
  BY DEF WriteHeader
<1>4. x \in Places
  BY DEF Places, Agreed, Stopped
<1>5. /\ pc' \in [Ranks -> Places] /\ pc'[r] = x
      /\ \A q \in Ranks \ {r} : pc'[q] = pc[q]
  BY <1>1, <1>3, <1>4, GotoIs
<1>6. r \in OcoreTasks /\ r # Master
  BY <1>1, <1>2, Accepted DEF Roles, OnOcore
<1>7. Types' /\ Rejected'
  BY <1>1, <1>2, <1>5, RejectedKept DEF Types
<1>8. Roles'
  BY <1>1, <1>2, <1>5 DEF Roles, OnWork, OnOcore
<1>9. Options'
  BY <1>1, <1>2, <1>5, <1>6 DEF Options, Fresh, Agreed
<1>10. Dump'
  <2>1. Early(pc[First], enabled[First])
    BY <1>1, <1>2, <1>6, Phases DEF Dump, Turning, Late
  <2>2. Upto(0) /\ turn = 1 /\ \A o \in OcoreTasks : Early(pc[o], enabled[o])
    BY <1>1, <2>1 DEF Dump
  <2>3. stats'.blocks = [i \in 1 .. 0 |-> i]
    BY <1>2, <2>2 DEF Upto
  <2>4. \A o \in OcoreTasks : Early(pc'[o], enabled'[o])
    BY <1>1, <1>2, <1>5, <2>2 DEF Early, Before
  <2>5. pc'[First] \notin {"turn", "took", "empty_dump"} /\ ~ Late(pc'[First], enabled'[First])
    BY <1>1, <2>4 DEF Early, Late, Before, Fresh
  <2> QED BY <1>1, <1>2, <2>2, <2>3, <2>4, <2>5 DEF Dump, Upto
<1>11. Dealt'
  BY <1>1, <1>2, <1>5, <1>6, DealtKept DEF Leaving, Stopping, Dumping
<1> QED BY <1>7, <1>8, <1>9, <1>10, <1>11 DEF IInv

(* While an Ocore task waits for the turns they have not begun; while one
   has a turn they are going on. *)
LEMMA TurnsGoOn ==
  ASSUME IInv, ~ Rejects, NEW r \in OcoreTasks
  PROVE  /\ pc[r] = "written" => Early(pc[First], enabled[First])
         /\ pc[r] \in {"turn", "took"} => pc[First] \in {"turn", "took"}
<1>1. /\ Dump /\ (Early(pc[First], enabled[First]) \/ pc[First] \in {"turn", "took"}
                  \/ Late(pc[First], enabled[First]))
  BY Phases DEF IInv
<1> QED BY <1>1 DEF Dump, Early, Late, Turning, Before, Fresh

LEMMA HeaderBarrierStep ==
  ASSUME IInv, ~ Rejects, HeaderBarrier, UNCHANGED <<config, job>>
  PROVE  IInv'
<1>1. /\ Types /\ Roles /\ Options /\ Dump /\ Dealt
      /\ Ranks' = Ranks /\ First' = First /\ OcoreTasks' = OcoreTasks /\ WorkTasks' = WorkTasks
      /\ ~ Rejects' /\ Master \in Ranks /\ Master \notin OcoreTasks /\ OcoreTasks \subseteq Ranks
      /\ WorkTasks = Ranks \ OcoreTasks /\ First \in OcoreTasks
      /\ config.ocores \in Nat /\ config.ocores > 0
      /\ \A n \in 0 .. config.ocores - 1 : First + n \in OcoreTasks
  BY Accepted
<1>2. /\ Meet(OcoreTasks, "written", [r \in OcoreTasks |-> NextTurn(1)])
      /\ UNCHANGED <<enabled, options, distrib, wrote, made, mastersWrites, othersWrites, held, spilled, stats, turn>>
  BY DEF HeaderBarrier, local, outputs, records
<1>3. NextTurn(1) \in Places
  BY DEF NextTurn, Places, Agreed
<1>4. /\ pc' \in [Ranks -> Places]
      /\ \A r \in OcoreTasks : pc[r] = "written" /\ pc'[r] = NextTurn(1)
      /\ \A r \in Ranks \ OcoreTasks : pc'[r] = pc[r]
  BY <1>1, <1>2, <1>3, MeetIs
<1>5. Types' /\ Rejected'
  BY <1>1, <1>2, <1>4, RejectedKept DEF Types
<1>6. Roles'
  BY <1>1, <1>2, <1>4 DEF Roles, NextTurn, OnWork, OnOcore
<1>7. Options'
  BY <1>1, <1>2, <1>4 DEF Options, NextTurn, Fresh, Agreed
<1>8. /\ Upto(0) /\ turn = 1
      /\ \A o \in OcoreTasks : enabled[o] /\ options[o].dump_stats
  <2>1. Early(pc[First], enabled[First])
    BY <1>1, <1>4, TurnsGoOn
  <2> QED BY <1>1, <1>4, <2>1 DEF Dump, Roles, Options, Agreed
<1>9. Dump'
  <2>1. CASE config.ocores > 1
    <3>1. \A o \in OcoreTasks : pc'[o] = "turn"
      BY <1>4, <2>1 DEF NextTurn
    <3>2. First + turn \in OcoreTasks
      BY <1>1, <1>8, <2>1
    <3> QED BY <1>1, <1>2, <1>8, <2>1, <3>1, <3>2
            DEF Dump, Early, Late, Turning, Before, Fresh, Upto
  <2>2. CASE config.ocores = 1
    <3>1. \A o \in OcoreTasks : pc'[o] = "gather"
      BY <1>4, <2>2 DEF NextTurn
    <3> QED BY <1>1, <1>2, <1>8, <2>2, <3>1 DEF Dump, Early, Late, Before, Fresh, Upto
  <2> QED BY <1>1, <2>1, <2>2
<1>10. Dealt'
  BY <1>1, <1>2, <1>4, DealtKept DEF Leaving, Stopping, Dumping, NextTurn
<1> QED BY <1>5, <1>6, <1>7, <1>9, <1>10 DEF IInv

LEMMA TakeTurnStep ==
  ASSUME IInv, ~ Rejects, NEW r \in Ranks, TakeTurn(r), UNCHANGED <<config, job>>
  PROVE  IInv'
<1>1. /\ Types /\ Roles /\ Options /\ Dump /\ Dealt
      /\ Ranks' = Ranks /\ First' = First /\ OcoreTasks' = OcoreTasks /\ WorkTasks' = WorkTasks
      /\ ~ Rejects' /\ Master \in Ranks /\ Master \notin OcoreTasks /\ OcoreTasks \subseteq Ranks
      /\ WorkTasks = Ranks \ OcoreTasks /\ First \in OcoreTasks
      /\ First \in Nat /\ config.ocores \in Nat /\ Ranks \subseteq Nat
      /\ \A n \in 0 .. config.ocores - 1 : First + n \in OcoreTasks
  BY Accepted, RankFacts
<1>2. /\ pc[r] = "turn" /\ UNCHANGED <<enabled, options, distrib, wrote, made, mastersWrites, othersWrites, held, spilled, turn>>
  BY DEF TakeTurn, local, records
<1>3. PICK x \in {"took", "empty_dump", "aborted"} :
        /\ Goto(r, x)
        /\ \/ /\ stats' = stats
              /\ x = "took" => r # First + turn
              /\ x # "took" => r = First + turn
              /\ x = "empty_dump" => held[r] = 0
           \/ /\ stats'.blocks = Append(stats.blocks, turn)
              /\ x = "took" /\ r = First + turn
  <2>1. OcoreRank(r) = turn <=> r = First + turn
    <3>1. r \in OcoreTasks
      BY <1>1, <1>2 DEF Roles, OnOcore
    <3>2. turn \in Nat
      BY <1>1, <1>2, <3>1, TurnsGoOn DEF Dump
    <3> QED BY <1>1, <3>2 DEF OcoreRank, First, StartingRank
  <2> QED BY <2>1 DEF TakeTurn
<1>4. x \in Places
  BY DEF Places, Agreed, Stopped
<1>5. /\ pc' \in [Ranks -> Places] /\ pc'[r] = x
      /\ \A q \in Ranks \ {r} : pc'[q] = pc[q]
  BY <1>1, <1>3, <1>4, GotoIs
<1>6. r \in OcoreTasks
  BY <1>1, <1>2 DEF Roles, OnOcore
<1>7. /\ pc[First] \in {"turn", "took"} /\ turn \in 1 .. config.ocores - 1
      /\ First + turn \in OcoreTasks /\ First + turn # First
      /\ \A o \in OcoreTasks : Turning(pc[o]) /\ enabled[o] /\ options[o].dump_stats
      /\ pc[First + turn] = "took" => Upto(turn)
      /\ pc[First + turn] # "took" => Upto(turn - 1)
  <2>1. pc[First] \in {"turn", "took"}
    BY <1>2, <1>6, TurnsGoOn
  <2> QED BY <1>1, <2>1 DEF Dump
<1>8. Types' /\ Rejected'
  BY <1>1, <1>2, <1>5, RejectedKept DEF Types
<1>9. Roles'
  BY <1>1, <1>2, <1>5, <1>6 DEF Roles, OnWork, OnOcore
<1>10. Options'
  BY <1>1, <1>2, <1>5, <1>6 DEF Options, Fresh, Agreed
<1>11. Dump'
  <2>1. /\ pc'[First + turn] = "took" => stats'.blocks = [i \in 1 .. turn |-> i]
        /\ pc'[First + turn] # "took" => stats'.blocks = [i \in 1 .. turn - 1 |-> i]
    <3>1. CASE stats' = stats /\ (r = First + turn => x # "took")
      BY <1>1, <1>2, <1>5, <1>7, <3>1 DEF Upto
    <3>2. CASE stats'.blocks = Append(stats.blocks, turn) /\ x = "took" /\ r = First + turn
      <4>1. stats.blocks = [i \in 1 .. turn - 1 |-> i] /\ turn \in Nat \ {0}
        BY <1>2, <1>7, <3>2 DEF Upto
      <4>2. Append([i \in 1 .. turn - 1 |-> i], turn) = [i \in 1 .. turn |-> i]
        BY <4>1
      <4> QED BY <1>5, <3>2, <4>1, <4>2
    <3> QED BY <1>3, <3>1, <3>2
  <2>2. \A o \in OcoreTasks : Turning(pc'[o])
    BY <1>1, <1>5, <1>7 DEF Turning
  <2>3. CASE pc'[First] \in {"turn", "took"}
    <3>1. ~ Early(pc'[First], enabled'[First]) /\ ~ Late(pc'[First], enabled'[First])
      BY <2>3 DEF Early, Late, Before, Fresh
    <3> QED BY <1>1, <1>2, <1>7, <2>1, <2>2, <2>3, <3>1 DEF Dump, Upto
  <2>4. pc'[First] \in {"turn", "took"}
    <3>1. CASE r = First
      BY <1>3, <1>5, <1>7, <3>1
    <3>2. CASE r # First
      BY <1>1, <1>5, <1>7, <3>2
    <3> QED BY <3>1, <3>2
  <2> QED BY <2>3, <2>4
<1>12. Dealt'
  <2>1. \A w \in WorkTasks : w # r /\ pc'[w] = pc[w]
    BY <1>1, <1>5, <1>6
  <2>2. \A o \in OcoreTasks : pc'[o] = "empty_dump" => held[o] = 0
    BY <1>1, <1>3, <1>5 DEF Dealt
  <2>3. \A o \in OcoreTasks :
          pc'[o] \in {"gate"} \cup Dumping => pc[o] \in {"gate"} \cup Dumping
    BY <1>1, <1>2, <1>5, <1>6 DEF Dumping
  <2>4. \A o \in OcoreTasks : pc'[o] \in Dumping => pc[o] \in Dumping
    BY <1>1, <1>2, <1>5, <1>6 DEF Dumping
  <2>5. pc'[Master] = pc[Master]
    BY <1>1, <1>5, <1>6
  <2> QED BY <1>1, <1>2, <2>1, <2>2, <2>3, <2>4, <2>5 DEF Dealt, UnderWay
<1> QED BY <1>8, <1>9, <1>10, <1>11, <1>12 DEF IInv

LEMMA TurnBarrierStep ==
  ASSUME IInv, ~ Rejects, TurnBarrier, UNCHANGED <<config, job>>
  PROVE  IInv'
<1>1. /\ Types /\ Roles /\ Options /\ Dump /\ Dealt
      /\ Ranks' = Ranks /\ First' = First /\ OcoreTasks' = OcoreTasks /\ WorkTasks' = WorkTasks
      /\ ~ Rejects' /\ Master \in Ranks /\ Master \notin OcoreTasks /\ OcoreTasks \subseteq Ranks
      /\ WorkTasks = Ranks \ OcoreTasks /\ First \in OcoreTasks
      /\ First \in Nat /\ config.ocores \in Nat
      /\ \A n \in 0 .. config.ocores - 1 : First + n \in OcoreTasks
  BY Accepted
<1>2. /\ Meet(OcoreTasks, "took", [r \in OcoreTasks |-> NextTurn(turn + 1)]) /\ turn' = turn + 1
      /\ UNCHANGED <<enabled, options, distrib, wrote, made, mastersWrites, othersWrites, held, spilled, stats>>
  BY DEF TurnBarrier, local, records
<1>3. NextTurn(turn + 1) \in Places
  BY DEF NextTurn, Places, Agreed
<1>4. /\ pc' \in [Ranks -> Places]
      /\ \A r \in OcoreTasks : pc[r] = "took" /\ pc'[r] = NextTurn(turn + 1)
      /\ \A r \in Ranks \ OcoreTasks : pc'[r] = pc[r]
  <2>1. \A r \in OcoreTasks : [o \in OcoreTasks |-> NextTurn(turn + 1)][r] \in Places
    BY <1>3
  <2>2. /\ pc' = [r \in Ranks |-> IF r \in OcoreTasks
                                THEN [o \in OcoreTasks |-> NextTurn(turn + 1)][r] ELSE pc[r]]
        /\ \A r \in OcoreTasks : pc[r] = "took"
    BY <1>2 DEF Meet
  <2> QED BY <1>1, <2>1, <2>2 DEF Types
<1>5. /\ turn \in 1 .. config.ocores - 1 /\ Upto(turn)
      /\ \A o \in OcoreTasks : enabled[o] /\ options[o].dump_stats
  BY <1>1, <1>4 DEF Dump
<1>6. Types' /\ Rejected'
  BY <1>1, <1>2, <1>4, RejectedKept DEF Types
<1>7. Roles'
  BY <1>1, <1>2, <1>4 DEF Roles, NextTurn, OnWork, OnOcore
<1>8. Options'
  BY <1>1, <1>2, <1>4 DEF Options, NextTurn, Fresh, Agreed
<1>9. Dump'
  <2>1. CASE turn + 1 < config.ocores
    <3>1. \A o \in OcoreTasks : pc'[o] = "turn"
      BY <1>4, <2>1 DEF NextTurn
    <3>2. /\ turn + 1 \in 1 .. config.ocores - 1 /\ First + (turn + 1) \in OcoreTasks
          /\ (turn + 1) - 1 = turn
      BY <1>1, <1>5, <2>1
    <3> QED BY <1>1, <1>2, <1>5, <3>1, <3>2
            DEF Dump, Early, Late, Turning, Before, Fresh, Upto
  <2>2. CASE ~ turn + 1 < config.ocores
    <3>1. \A o \in OcoreTasks : pc'[o] = "gather"
      BY <1>4, <2>2 DEF NextTurn
    <3>2. turn = config.ocores - 1 /\ turn + 1 \in 1 .. config.ocores
      BY <1>1, <1>5, <2>2
    <3> QED BY <1>1, <1>2, <1>5, <3>1, <3>2 DEF Dump, Early, Late, Before, Fresh, Upto
  <2> QED BY <2>1, <2>2
<1>10. Dealt'
  BY <1>1, <1>2, <1>4, DealtKept DEF Leaving, Stopping, Dumping, NextTurn
<1> QED BY <1>6, <1>7, <1>8, <1>9, <1>10 DEF IInv

-----------------------------------------------------------------------------
(* The steps that move ranks on and change nothing else of interest.        *)

Silent(r) ==
  \/ CheckConfiguration(r) \/ SetUpOcoreTask(r) \/ CallFinalize(r) \/ LeavePolling(r)
  \/ Reduce(r) \/ Gather(r)

LEMMA SilentStep ==
  ASSUME IInv, ~ Rejects, NEW r \in Ranks, Silent(r), UNCHANGED <<config, job>>
  PROVE  IInv'
<1>1. Types /\ Roles /\ Master \in Ranks /\ WorkTasks = Ranks \ OcoreTasks
  BY Accepted
<1>2. UNCHANGED <<config, job, local, stats, turn>>
  BY DEF Silent, CheckConfiguration, SetUpOcoreTask, CallFinalize, LeavePolling, Reduce,
         Gather, outputs, records
<1>3. PICK x \in Places : Goto(r, x) /\ Quiet(r, pc[r], x)
  <2>1. CASE CheckConfiguration(r)
    BY <2>1 DEF CheckConfiguration, Rejects, Quiet, Fresh, Places
  <2>2. CASE SetUpOcoreTask(r)
    BY <2>2 DEF SetUpOcoreTask, Quiet, Middle, Places, Agreed, Stopped, OnWork, OnOcore
  <2>3. CASE CallFinalize(r)
    BY <1>1, <2>3 DEF CallFinalize, Quiet, Middle, Places, Agreed, Roles, OnWork, OnOcore
  <2>4. CASE LeavePolling(r)
    BY <2>4 DEF LeavePolling, Quiet, Middle, Places, Agreed, OnWork, OnOcore
  <2>5. CASE Reduce(r)
    <3>1. pc[r] = "reduce" /\ Goto(r, "gather")
      BY <2>5 DEF Reduce
    <3> QED BY <3>1 DEF Quiet, Places, Agreed
  <2>6. CASE Gather(r)
    <3>1. pc[r] = "gather" /\ Goto(r, "close")
      BY <2>6 DEF Gather
    <3> QED BY <3>1 DEF Quiet, Places, Agreed
  <2> QED BY <2>1, <2>2, <2>3, <2>4, <2>5, <2>6 DEF Silent
<1>4. /\ pc' \in [Ranks -> Places]
      /\ pc'[r] = x /\ \A q \in Ranks \ {r} : pc'[q] = pc[q]
  BY <1>1, <1>3, GotoIs
<1>5. pc[Master] \in Stopping => pc'[Master] \in Stopping
  <2>1. CASE r # Master
    BY <1>1, <1>4, <2>1
  <2>2. CASE r = Master /\ (Reduce(r) \/ Gather(r))
    <3>1. Goto(r, "gather") \/ Goto(r, "close")
      BY <2>2 DEF Reduce, Gather
    <3>2. x \in {"gather", "close"}
      BY <1>1, <1>3, <1>4, <3>1 DEF Goto, Types
    <3> QED BY <1>4, <2>2, <3>2 DEF Stopping, Leaving
  <2>3. CASE r = Master /\ ~ (Reduce(r) \/ Gather(r))
    <3>1. pc[r] \in {"start", "setup", "work", "poll"}
      BY <2>3 DEF Silent, CheckConfiguration, SetUpOcoreTask, CallFinalize, LeavePolling
    <3> QED BY <2>3, <3>1 DEF Stopping, Leaving
  <2> QED BY <2>1, <2>2, <2>3
<1>6. ASSUME NEW o \in OcoreTasks, pc'[o] = "gate"
      PROVE  pc[o] = "gate" \/ (mastersWrites[o] = 0 /\ pc'[Master] \in Stopping)
  <2>1. o \in Ranks /\ o # Master
    BY <1>1, Accepted
  <2>2. CASE LeavePolling(r) /\ r = o
    <3>1. mastersWrites[o] = 0 /\ Past(Master, "notify")
      BY <2>2 DEF LeavePolling
    <3>2. pc[Master] \in Stopping
      BY <1>1, <2>1, <3>1, PastIs, Accepted DEF Types, Roles, OnOcore, Stopping, Leaving
    <3> QED BY <1>5, <3>1, <3>2
  <2>3. CASE ~ LeavePolling(r) /\ r = o
    <3>1. \E y \in {"aborted", "groups", "ready", "drain", "gather", "close"} : Goto(r, y)
      BY <2>3 DEF Silent, CheckConfiguration, SetUpOcoreTask, CallFinalize, Reduce, Gather
    <3>2. pc'[r] \in {"aborted", "groups", "ready", "drain", "gather", "close"}
      BY <1>1, <3>1 DEF Goto, Types
    <3> QED BY <1>6, <2>3, <3>2
  <2> QED BY <1>4, <1>6, <2>1, <2>2, <2>3
<1>7. \A q \in Ranks : pc'[q] = pc[q] \/ Quiet(q, pc[q], pc'[q])
  BY <1>3, <1>4
<1> QED BY <1>2, <1>4, <1>5, <1>6, <1>7, QuietStep

Moving == BuildCommunicators \/ ShowConfiguration \/ Ready \/ DrainWork \/ NotifyOcoreTasks
          \/ Close

LEMMA MovingStep ==
  ASSUME IInv, ~ Rejects, Moving, UNCHANGED <<config, job>>
  PROVE  IInv'
<1>1. Types /\ Roles /\ Master \in Ranks /\ WorkTasks = Ranks \ OcoreTasks
      /\ Master \in WorkTasks
  BY Accepted
<1>2. UNCHANGED <<config, job, local, stats, turn>>
  BY DEF Moving, BuildCommunicators, ShowConfiguration, Ready, DrainWork, NotifyOcoreTasks,
         Close, outputs, records
<1>3. /\ pc' \in [Ranks -> Places]
      /\ \A q \in Ranks : pc'[q] = pc[q] \/ Quiet(q, pc[q], pc'[q])
      /\ pc[Master] \in Stopping => pc'[Master] \in Stopping
      /\ \A q \in Ranks : pc'[q] = "gate" => pc[q] = "gate" \/ q \notin OcoreTasks
  <2>1. CASE BuildCommunicators
    <3>1. PICK s \in Setup : Meet(Ranks, s[1], [r \in Ranks |-> s[2]])
      BY <2>1 DEF BuildCommunicators
    <3>2. s[1] \in Fresh /\ s[2] \in Fresh /\ s[2] \in Places
      BY DEF Setup, Fresh, Places
    <3>3. /\ pc' \in [Ranks -> Places]
          /\ \A r \in Ranks : pc[r] = s[1] /\ pc'[r] = s[2]
      BY <1>1, <3>1, <3>2, MeetIs
    <3> QED BY <1>1, <3>2, <3>3 DEF Quiet, Stopping, Leaving, Fresh
  <2>2. CASE ShowConfiguration
    <3> DEFINE next == [r \in Ranks |-> IF r \in OcoreTasks THEN "setup" ELSE "ready"]
    <3>1. \A r \in Ranks : next[r] \in Places
      BY DEF Places, Agreed
    <3>2. /\ pc' \in [Ranks -> Places]
          /\ \A r \in Ranks : pc[r] = "config" /\ pc'[r] = next[r]
      BY <1>1, <2>2, <3>1, MeetIs DEF ShowConfiguration
    <3> QED BY <1>1, <3>2 DEF Quiet, Middle, OnWork, OnOcore, Stopping, Leaving
  <2>3. CASE Ready
    <3> DEFINE next == [r \in Ranks |-> IF r \in OcoreTasks THEN "poll" ELSE "work"]
    <3>1. \A r \in Ranks : next[r] \in Places
      BY DEF Places, Agreed
    <3>2. /\ pc' \in [Ranks -> Places]
          /\ \A r \in Ranks : pc[r] = "ready" /\ pc'[r] = next[r]
      BY <1>1, <2>3, <3>1, MeetIs DEF Ready
    <3> QED BY <1>1, <3>2 DEF Quiet, Middle, OnWork, OnOcore, Stopping, Leaving
  <2>4. CASE DrainWork
    <3> DEFINE next == [r \in WorkTasks |-> IF r = Master THEN "notify" ELSE "gate"]
    <3>1. \A r \in WorkTasks : next[r] \in Places
      BY DEF Places, Agreed
    <3>2. /\ pc' \in [Ranks -> Places]
          /\ \A r \in WorkTasks : pc[r] = "drain" /\ pc'[r] = next[r]
          /\ \A r \in Ranks \ WorkTasks : pc'[r] = pc[r]
      BY <1>1, <2>4, <3>1, MeetIs DEF DrainWork
    <3> QED BY <1>1, <3>2 DEF Quiet, Middle, OnOcore, Stopping, Leaving
  <2>5. CASE NotifyOcoreTasks
    <3>1. pc[Master] = "notify" /\ Goto(Master, "gate") /\ "gate" \in Places
      BY <2>5 DEF NotifyOcoreTasks, Places, Agreed
    <3>2. /\ pc' \in [Ranks -> Places] /\ pc'[Master] = "gate"
          /\ \A q \in Ranks \ {Master} : pc'[q] = pc[q]
      BY <1>1, <3>1, GotoIs
    <3> QED BY <1>1, <3>1, <3>2 DEF Quiet, Middle, OnWork, OnOcore, Stopping
  <2>6. CASE Close
    <3>1. "finished" \in Places
      BY DEF Places, Agreed
    <3>2. CASE config.ownsMPI
      <4>1. Meet(Ranks, "close", [r \in Ranks |-> "finished"])
        BY <2>6, <3>2 DEF Close
      <4>2. /\ pc' \in [Ranks -> Places]
            /\ \A r \in Ranks : pc[r] = "close" /\ pc'[r] = "finished"
        BY <1>1, <3>1, <4>1, MeetIs
      <4> QED BY <1>1, <4>2 DEF Quiet, Stopping, Leaving
    <3>3. CASE ~ config.ownsMPI
      <4>1. PICK r \in Ranks : pc[r] = "close" /\ Goto(r, "finished")
        BY <2>6, <3>3 DEF Close
      <4>2. /\ pc' \in [Ranks -> Places] /\ pc[r] = "close" /\ pc'[r] = "finished"
            /\ \A q \in Ranks \ {r} : pc'[q] = pc[q]
        BY <1>1, <3>1, <4>1, GotoIs
      <4> QED BY <1>1, <4>2 DEF Quiet, Stopping, Leaving
    <3> QED BY <3>2, <3>3
  <2> QED BY <2>1, <2>2, <2>3, <2>4, <2>5, <2>6 DEF Moving
<1>4. \A o \in OcoreTasks : pc'[o] = "gate" => pc[o] = "gate"
  BY <1>3, Accepted
<1> QED BY <1>2, <1>3, <1>4, QuietStep

-----------------------------------------------------------------------------
(* The invariant.                                                           *)

LEMMA NextInvariant == IInv /\ [Next]_vars => IInv'
<1> SUFFICES ASSUME IInv, [Next]_vars PROVE IInv'
  OBVIOUS
<1>1. CASE Step /\ Rejects
  BY <1>1, RejectedStep
<1>2. CASE Step /\ ~ Rejects
  <2>1. UNCHANGED <<config, job>> /\ ((\E r \in Ranks : RankStep(r)) \/ Collective)
    BY <1>2 DEF Step
  <2>2. ASSUME NEW r \in Ranks, RankStep(r)
        PROVE  IInv'
    <3>1. \/ Silent(r) \/ OtherEnable(r) \/ BcastOptions(r) \/ Write(r) \/ StoreData(r)
          \/ WriteHeader(r) \/ TakeTurn(r)
      BY <2>2 DEF RankStep, Silent
    <3> QED BY <1>2, <2>1, <3>1, SilentStep, OtherEnableStep, BcastOptionsStep, WriteStep,
               StoreDataStep,
               WriteHeaderStep, TakeTurnStep
  <2>3. ASSUME Collective
        PROVE  IInv'
    <3>1. \/ Moving \/ MasterEnable \/ ReadOptions \/ PassGate \/ HeaderBarrier \/ TurnBarrier
      BY <2>3 DEF Collective, Moving
    <3> QED BY <1>2, <2>1, <3>1, MovingStep, MasterEnableStep, ReadOptionsStep, PassGateStep,
               HeaderBarrierStep, TurnBarrierStep
  <2> QED BY <2>1, <2>2, <2>3
<1>3. CASE Kill \/ UNCHANGED vars
  <2>1. /\ UNCHANGED <<config, pc, enabled, options, distrib, wrote, made, mastersWrites, othersWrites, held, spilled, stats, turn>>
        /\ job' = job \/ job' = "killed"
    BY <1>3 DEF Kill, vars, local, outputs, records
  <2>2. /\ Ranks' = Ranks /\ First' = First /\ OcoreTasks' = OcoreTasks
        /\ WorkTasks' = WorkTasks /\ (Rejects' <=> Rejects)
    BY <2>1, Fixed
  <2>3. Types' /\ Rejected' /\ Roles' /\ Options'
    BY <2>1, <2>2 DEF IInv, Types, Rejected, Roles, Options
  <2>4. Dump' /\ Dealt'
    BY <2>1, <2>2 DEF IInv, Dump, Dealt, Upto, UnderWay
  <2> QED BY <2>3, <2>4 DEF IInv
<1> QED BY <1>1, <1>2, <1>3 DEF Next

LEMMA Invariance == Spec => []IInv
<1>1. Init => IInv
  BY InitInvariant
<1>2. IInv /\ [Next]_vars => IInv'
  BY NextInvariant
<1> QED BY <1>1, <1>2, PTL DEF Spec

-----------------------------------------------------------------------------
(* What the invariant gives.                                                *)

LEMMA TypesFollow == IInv => SessionTypeOK
<1> SUFFICES ASSUME IInv PROVE SessionTypeOK
  OBVIOUS
<1>1. Types
  BY DEF IInv
<1>2. pc \in [Ranks -> Range(Stages) \cup Stopped]
  BY <1>1, PlacesAre DEF Types
<1>3. turn \in 1 .. MaxProcs + 1
  <2>1. config.ocores \in 0 .. MaxProcs /\ MaxProcs \in Nat \ {0}
    BY <1>1, SessionBounds DEF Types
  <2>2. CASE Rejects
    BY <2>1, <2>2 DEF IInv, Rejected
  <2>3. CASE ~ Rejects
    BY <2>1, <2>3, Phases DEF IInv, Dump
  <2> QED BY <2>2, <2>3
<1> QED BY <1>1, <1>2, <1>3 DEF Types, SessionTypeOK

(* Every variable has its type in every session. *)
THEOREM TypeCorrect == Spec => []SessionTypeOK
<1> QED BY Invariance, TypesFollow, PTL

LEMMA RejectedFollows == IInv => RejectedStops
<1> SUFFICES ASSUME IInv, Rejects, NEW r \in Ranks PROVE ~ Past(r, "groups")
  BY DEF RejectedStops, Rejects
<1>1. pc[r] \in {"start", "groups", "aborted"} /\ pc[r] \in Places
  BY DEF IInv, Rejected, Types
<1> QED BY <1>1, PastIs DEF Stopped

(* A job that Initialize has to reject builds no communicator on any rank,
   however many ranks there are. *)
THEOREM NoneBuilt == Spec => []RejectedStops
<1> QED BY Invariance, RejectedFollows, PTL

LEMMA OptionsFollow == IInv => OptionsAgree
<1> SUFFICES ASSUME IInv, NEW r \in Ranks, NEW s \in Ranks, Past(r, "bcast"), Past(s, "bcast")
             PROVE  /\ enabled[r] <=> enabled[s]
                    /\ \A f \in Shared : options[r][f] = options[s][f]
  BY DEF OptionsAgree, Shared
<1>1. Types /\ Options
  BY DEF IInv
<1>2. pc[r] \in Agreed /\ pc[s] \in Agreed
  BY <1>1, PastIs DEF Types
<1>3. ASSUME NEW q \in {r, s}
      PROVE  (enabled[q] <=> enabled[Master]) /\ Same(options[q], options[Master])
  BY <1>1, <1>2, <1>3 DEF Options, Same
<1> QED BY <1>3 DEF Same

(* Ranks that have the broadcast options agree on them, whatever the file. *)
THEOREM BroadcastAgrees == Spec => []OptionsAgree
<1> QED BY Invariance, OptionsFollow, PTL

LEMMA BlocksAre ==
  ASSUME IInv, NEW n \in Nat, Upto(n)
  PROVE  stats.blocks = [i \in 1 .. Len(stats.blocks) |-> i] /\ Len(stats.blocks) = n
BY DEF Upto

LEMMA StatsFollow == IInv => StatsInOrder
<1> SUFFICES ASSUME IInv PROVE StatsInOrder
  OBVIOUS
<1>1. Types /\ Rejected /\ Roles /\ Options /\ Dump
  BY DEF IInv
<1>2. CASE Rejects
  <2>1. Upto(0)
    BY <1>1, <1>2 DEF Rejected, Upto
  <2>2. \A o \in Ranks : ~ Past(o, "took")
    BY <1>1, <1>2, PastIs DEF Rejected, Types
  <2> QED BY <2>1, <2>2, BlocksAre DEF StatsInOrder
<1>3. CASE ~ Rejects
  <2>1. /\ First \in OcoreTasks /\ OcoreTasks \subseteq Ranks
        /\ config.ocores \in Nat /\ config.ocores > 0
    BY <1>1, <1>3, RankFacts
  <2>2. stats.blocks = [i \in 1 .. Len(stats.blocks) |-> i]
    <3>1. \E n \in Nat : Upto(n)
      <4>1. CASE Early(pc[First], enabled[First])
        BY <1>1, <1>3, <4>1 DEF Dump
      <4>2. CASE pc[First] \in {"turn", "took"}
        <5>1. turn \in Nat /\ turn - 1 \in Nat
          BY <1>1, <1>3, <4>2 DEF Dump
        <5> QED BY <1>1, <1>3, <4>2, <5>1 DEF Dump
      <4>3. CASE Late(pc[First], enabled[First])
        <5>1. config.ocores - 1 \in Nat
          BY <2>1
        <5> QED BY <1>1, <1>3, <4>3, <5>1 DEF Dump
      <4> QED BY <1>3, <4>1, <4>2, <4>3, Phases
    <3> QED BY <3>1, BlocksAre
  <2>3. ASSUME NEW o \in OcoreTasks, enabled[o], options[o].dump_stats, Past(o, "took")
        PROVE  Len(stats.blocks) = config.ocores - 1
    <3>1. pc[o] \in {"gather", "close", "finished"} /\ o \in Ranks
      <4>1. pc[o] \in {"reduce", "gather", "close", "finished"}
        BY <1>1, <2>1, <2>3, PastIs DEF Types
      <4> QED BY <1>1, <2>1, <4>1 DEF Roles, OnWork
    <3>2. ~ Early(pc[o], enabled[o]) /\ ~ Turning(pc[o])
      BY <2>3, <3>1 DEF Early, Turning, Before, Fresh
    <3>3. Late(pc[First], enabled[First])
      BY <1>1, <1>3, <3>2, Phases DEF Dump
    <3>4. options[First].dump_stats
      <4>1. pc[o] \in Agreed /\ pc[First] \in Agreed
        BY <3>1, <3>3 DEF Late, Agreed
      <4>2. \A r \in {o, First} : options[r].dump_stats <=> options[Master].dump_stats
        BY <1>1, <2>1, <4>1 DEF Options, Same, Shared
      <4> QED BY <2>3, <4>2
    <3>5. Upto(config.ocores - 1) /\ config.ocores - 1 \in Nat
      BY <1>1, <1>3, <2>1, <3>3, <3>4 DEF Dump
    <3> QED BY <3>5, BlocksAre
  <2> QED BY <2>2, <2>3 DEF StatsInOrder
<1> QED BY <1>2, <1>3

(* The statistics file holds the blocks of the Ocore ranks from 1 in rank
   order, none twice, and all of these when the dump is over, for any number
   of Ocore tasks. *)
THEOREM DumpInOrder == Spec => []StatsInOrder
<1> QED BY Invariance, StatsFollow, PTL

LEMMA AssertionFollows == IInv => DumpNeedsRecords
<1> SUFFICES ASSUME IInv, NEW o \in Ranks, pc[o] = "empty_dump", NEW w \in Ranks
             PROVE  \/ made[w] <= OcoreRank(o)
                    \/ w # Master /\ config.buffers /\ othersWrites[o] > 0
  <2>1. WorkTasks \subseteq Ranks
    BY DEF WorkTasks
  <2>2. IInv => Master \in Ranks
    BY RankFacts DEF IInv
  <2> QED BY <2>1, <2>2 DEF DumpNeedsRecords
<1>1. Types /\ Rejected /\ Roles /\ Dealt
  BY DEF IInv
<1>2. ~ Rejects
  BY <1>1 DEF Rejected
<1>3. o \in OcoreTasks /\ held[o] = 0 /\ mastersWrites[o] = 0
  BY <1>1, <1>2 DEF Roles, OnOcore, Dealt, Dumping
<1> DEFINE k == o - First
<1>4. k \in 0 .. config.ocores - 1 /\ First + k = o /\ OcoreRank(o) = k
  BY <1>1, <1>2, <1>3, RankFacts DEF OcoreRank, First
<1>5. made[w] > k => config.buffers /\ UnderWay(w, o) > 0
  BY <1>1, <1>2, <1>3, <1>4 DEF Dealt
<1>6. made[w] \in Nat /\ k \in Nat
  BY <1>1, <1>4 DEF Types
<1> QED BY <1>3, <1>4, <1>5, <1>6 DEF UnderWay

(* The assertion of the dump fails on an Ocore task only if neither the
   master nor any other work task wrote enough new records for its round
   robin to reach that task, except where a buffered write of one of the
   others is still under way when the task has stopped polling. *)
THEOREM EmptyDumpExplained == Spec => []DumpNeedsRecords
<1> QED BY Invariance, AssertionFollows, PTL

-----------------------------------------------------------------------------
(* What the summary counts.                                                 *)

(* Every record that is stored or under way was written, and no write is
   made and none received any more when the master adds up the counts of the
   work tasks; it keeps what it got. *)
Counted == ~ Rejects =>
  /\ DOMAIN report = {"written", "upper", "spilled"}
  /\ SumFunctionOnSet(held, OcoreTasks) + SumFunctionOnSet(mastersWrites, OcoreTasks)
       + SumFunctionOnSet(othersWrites, OcoreTasks) <= SumFunctionOnSet(wrote, WorkTasks)
  /\ \A o \in OcoreTasks : spilled[o] => held[o] > 0
  /\ enabled[Master] /\ pc[Master] \in Leaving =>
       /\ \A w \in WorkTasks : pc[w] # "work"
       /\ \A o \in OcoreTasks : pc[o] # "poll"
       /\ pc[Master] # "reduce" => report.written = SumFunctionOnSet(wrote, WorkTasks)
       /\ pc[Master] \in {"close", "finished"} => report.spilled = {o \in OcoreTasks : spilled[o]}

LEMMA FiniteRanks ==
  ASSUME Types
  PROVE  IsFiniteSet(OcoreTasks) /\ IsFiniteSet(WorkTasks)
<1>1. Ranks = 0 .. config.nprocs - 1 /\ config.nprocs \in Int /\ 0 \in Int
  BY SessionBounds DEF Types, Ranks
<1>2. IsFiniteSet(Ranks)
  BY <1>1, FS_Interval
<1>3. OcoreTasks \in SUBSET Ranks /\ WorkTasks \in SUBSET Ranks
  BY DEF OcoreTasks, WorkTasks
<1> QED BY <1>2, <1>3, FS_Subset

LEMMA SumNat ==
  ASSUME NEW S, IsFiniteSet(S), NEW f, \A x \in S : f[x] \in Nat
  PROVE  SumFunctionOnSet(f, S) \in Nat
<1> DEFINE z == [x \in S |-> 0]
<1>1. SumFunctionOnSet(z, S) = 0
  BY SumZero
<1>2. \A x \in S : z[x] \in Int /\ f[x] \in Int /\ z[x] <= f[x]
  OBVIOUS
<1>3. SumFunctionOnSet(f, S) \in Int
  BY <1>2, SumType
<1> HIDE DEF z
<1>4. SumFunctionOnSet(z, S) <= SumFunctionOnSet(f, S)
  BY <1>2, SumMonotone
<1> QED BY <1>1, <1>3, <1>4

LEMMA CountsTyped ==
  ASSUME Types
  PROVE  /\ \A o \in OcoreTasks : /\ held[o] \in Nat /\ mastersWrites[o] \in Nat
                                  /\ othersWrites[o] \in Nat
         /\ \A w \in WorkTasks : wrote[w] \in Nat
         /\ SumFunctionOnSet(held, OcoreTasks) \in Nat
         /\ SumFunctionOnSet(mastersWrites, OcoreTasks) \in Nat
         /\ SumFunctionOnSet(othersWrites, OcoreTasks) \in Nat
         /\ SumFunctionOnSet(wrote, WorkTasks) \in Nat
<1>1. \A r \in Ranks : /\ held[r] \in Nat /\ mastersWrites[r] \in Nat /\ othersWrites[r] \in Nat
                       /\ wrote[r] \in Nat
  BY DEF Types
<1>2. OcoreTasks \subseteq Ranks /\ WorkTasks \subseteq Ranks
  BY DEF OcoreTasks, WorkTasks
<1>3. /\ \A o \in OcoreTasks : /\ held[o] \in Nat /\ mastersWrites[o] \in Nat
                               /\ othersWrites[o] \in Nat
      /\ \A w \in WorkTasks : wrote[w] \in Nat
  BY <1>1, <1>2
<1> QED BY <1>3, FiniteRanks, SumNat

LEMMA InitCounted == Init => Counted
<1> SUFFICES ASSUME Init, ~ Rejects PROVE Counted
  BY DEF Counted
<1>1. Types /\ Master \in Ranks
  BY InitInvariant, RankFacts DEF IInv
<1>2. \A r \in Ranks : /\ wrote[r] = 0 /\ held[r] = 0 /\ mastersWrites[r] = 0
                       /\ othersWrites[r] = 0 /\ spilled[r] = FALSE /\ pc[r] = "start"
  BY DEF Init
<1>3. OcoreTasks \subseteq Ranks /\ WorkTasks \subseteq Ranks
  BY DEF OcoreTasks, WorkTasks
<1>4. /\ \A w \in WorkTasks : wrote[w] = 0
      /\ \A o \in OcoreTasks : held[o] = 0 /\ mastersWrites[o] = 0 /\ othersWrites[o] = 0
  BY <1>2, <1>3
<1>5. /\ SumFunctionOnSet(wrote, WorkTasks) = 0 /\ SumFunctionOnSet(held, OcoreTasks) = 0
      /\ SumFunctionOnSet(mastersWrites, OcoreTasks) = 0
      /\ SumFunctionOnSet(othersWrites, OcoreTasks) = 0
  BY <1>1, <1>4, FiniteRanks, SumZero
<1>6. DOMAIN report = {"written", "upper", "spilled"}
  BY DEF Init
<1> QED BY <1>1, <1>2, <1>3, <1>5, <1>6 DEF Counted, Leaving

(* A step that writes and receives nothing, on whatever rank. *)
LEMMA CountedKept ==
  ASSUME IInv, Counted, ~ Rejects,
         UNCHANGED <<config, wrote, mastersWrites, othersWrites, held, spilled>>,
         DOMAIN report' = DOMAIN report, enabled'[Master] => enabled[Master],
         enabled'[Master] /\ pc'[Master] \in Leaving =>
           \/ /\ pc[Master] \in Leaving
              /\ \A w \in WorkTasks : pc'[w] = "work" => pc[w] = "work"
              /\ \A o \in OcoreTasks : pc'[o] = "poll" => pc[o] = "poll"
              /\ \/ pc'[Master] = pc[Master] /\ UNCHANGED report
                 \/ pc[Master] = "close" /\ pc'[Master] = "finished" /\ UNCHANGED report
                 \/ /\ pc[Master] = "reduce" /\ pc'[Master] = "gather"
                    /\ report'.written = Written
                 \/ /\ pc[Master] = "gather" /\ pc'[Master] = "close"
                    /\ report'.written = report.written
                    /\ report'.spilled = IF report.written > 0 \/ report.upper > 0
                                         THEN {s \in OcoreTasks : spilled[s]} ELSE {}
           \/ /\ pc'[Master] = "reduce" /\ \A w \in WorkTasks : pc'[w] # "work"
              /\ \A o \in OcoreTasks : pc'[o] # "poll"
  PROVE  Counted'
<1>0. DOMAIN report' = {"written", "upper", "spilled"}
  BY DEF Counted
<1>1. /\ Types /\ OcoreTasks' = OcoreTasks /\ WorkTasks' = WorkTasks /\ ~ Rejects'
  BY Accepted
<1>2. /\ SumFunctionOnSet(wrote', WorkTasks') = SumFunctionOnSet(wrote, WorkTasks)
      /\ SumFunctionOnSet(held', OcoreTasks') = SumFunctionOnSet(held, OcoreTasks)
      /\ SumFunctionOnSet(mastersWrites', OcoreTasks') = SumFunctionOnSet(mastersWrites, OcoreTasks)
      /\ SumFunctionOnSet(othersWrites', OcoreTasks') = SumFunctionOnSet(othersWrites, OcoreTasks)
  BY <1>1
<1>3. /\ SumFunctionOnSet(held, OcoreTasks) + SumFunctionOnSet(mastersWrites, OcoreTasks)
           + SumFunctionOnSet(othersWrites, OcoreTasks) <= SumFunctionOnSet(wrote, WorkTasks)
      /\ \A o \in OcoreTasks : spilled[o] => held[o] > 0
  BY DEF Counted
<1>4. ~ SumFunctionOnSet(wrote, WorkTasks) > 0 => {s \in OcoreTasks : spilled[s]} = {}
  <2> SUFFICES ASSUME ~ SumFunctionOnSet(wrote, WorkTasks) > 0,
                      NEW o \in OcoreTasks, spilled[o]
               PROVE  FALSE
    OBVIOUS
  <2>1. /\ held[o] \in Nat /\ held[o] > 0
        /\ SumFunctionOnSet(held, OcoreTasks) \in Nat
        /\ SumFunctionOnSet(mastersWrites, OcoreTasks) \in Nat
        /\ SumFunctionOnSet(othersWrites, OcoreTasks) \in Nat
        /\ SumFunctionOnSet(wrote, WorkTasks) \in Nat
    BY <1>1, <1>3, CountsTyped
  <2>2. held[o] <= SumFunctionOnSet(held, OcoreTasks)
    BY <1>1, FiniteRanks, CountsTyped, SumCovers
  <2> QED BY <1>3, <2>1, <2>2
<1>5. ASSUME enabled'[Master], pc'[Master] \in Leaving
      PROVE  /\ \A w \in WorkTasks : pc'[w] # "work"
             /\ \A o \in OcoreTasks : pc'[o] # "poll"
             /\ pc'[Master] # "reduce" => report'.written = SumFunctionOnSet(wrote, WorkTasks)
             /\ pc'[Master] \in {"close", "finished"}
                  => report'.spilled = {o \in OcoreTasks : spilled[o]}
  <2>1. CASE /\ pc'[Master] = "reduce" /\ \A w \in WorkTasks : pc'[w] # "work"
             /\ \A o \in OcoreTasks : pc'[o] # "poll"
    BY <2>1
  <2>2. CASE /\ pc[Master] \in Leaving
             /\ \A w \in WorkTasks : pc'[w] = "work" => pc[w] = "work"
             /\ \A o \in OcoreTasks : pc'[o] = "poll" => pc[o] = "poll"
    <3>1. /\ \A w \in WorkTasks : pc[w] # "work"
          /\ \A o \in OcoreTasks : pc[o] # "poll"
          /\ pc[Master] # "reduce" => report.written = SumFunctionOnSet(wrote, WorkTasks)
          /\ pc[Master] \in {"close", "finished"}
               => report.spilled = {o \in OcoreTasks : spilled[o]}
      BY <1>5, <2>2 DEF Counted
    <3>2. /\ \A w \in WorkTasks : pc'[w] # "work"
          /\ \A o \in OcoreTasks : pc'[o] # "poll"
      BY <2>2, <3>1
    <3>3. CASE pc'[Master] = pc[Master] /\ UNCHANGED report
      BY <3>1, <3>2, <3>3
    <3>4. CASE pc[Master] = "close" /\ pc'[Master] = "finished" /\ UNCHANGED report
      BY <3>1, <3>2, <3>4
    <3>5. CASE pc[Master] = "reduce" /\ pc'[Master] = "gather" /\ report'.written = Written
      BY <3>2, <3>5 DEF Written
    <3>6. CASE /\ pc[Master] = "gather" /\ pc'[Master] = "close"
               /\ report'.written = report.written
               /\ report'.spilled = IF report.written > 0 \/ report.upper > 0
                                    THEN {s \in OcoreTasks : spilled[s]} ELSE {}
      <4>1. report.written = SumFunctionOnSet(wrote, WorkTasks)
        BY <3>1, <3>6
      <4>2. report'.spilled = {s \in OcoreTasks : spilled[s]}
        BY <1>4, <3>6, <4>1
      <4> QED BY <3>2, <3>6, <4>1, <4>2
    <3>7. CASE /\ pc'[Master] = "reduce" /\ \A w \in WorkTasks : pc'[w] # "work"
               /\ \A o \in OcoreTasks : pc'[o] # "poll"
      BY <3>7
    <3> QED BY <1>5, <3>3, <3>4, <3>5, <3>6, <3>7
  <2> QED BY <1>5, <2>1, <2>2
<1> QED BY <1>0, <1>1, <1>2, <1>3, <1>5 DEF Counted

(* The sum over the Ocore tasks of what grows at one of them. *)
LEMMA SumOfGrows ==
  ASSUME Types, NEW f, NEW g, NEW o \in OcoreTasks, Grows(f, g, o),
         \A r \in OcoreTasks : f[r] \in Nat
  PROVE  SumFunctionOnSet(g, OcoreTasks) = SumFunctionOnSet(f, OcoreTasks) + 1
<1>1. OcoreTasks \subseteq Ranks /\ IsFiniteSet(OcoreTasks)
  BY FiniteRanks DEF OcoreTasks
<1>2. g[o] = f[o] + 1 /\ \A r \in OcoreTasks \ {o} : g[r] = f[r]
  BY <1>1 DEF Grows
<1>3. \A r \in OcoreTasks : f[r] \in Int
  OBVIOUS
<1> QED BY <1>1, <1>2, <1>3, SumGrows

LEMMA StoredCounted ==
  ASSUME Types, NEW o \in OcoreTasks, Stored(o),
         \A p \in OcoreTasks : spilled[p] => held[p] > 0
  PROVE  /\ SumFunctionOnSet(held', OcoreTasks) = SumFunctionOnSet(held, OcoreTasks) + 1
         /\ \A p \in OcoreTasks : spilled'[p] => held'[p] > 0
<1>1. OcoreTasks \subseteq Ranks
  BY DEF OcoreTasks
<1>2. /\ held'[o] = held[o] + 1 /\ held[o] \in Nat
      /\ \A q \in Ranks \ {o} : held'[q] = held[q] /\ spilled'[q] = spilled[q]
  BY <1>1, StoredIs
<1>3. Grows(held, held', o)
  BY <1>2 DEF Grows
<1> QED BY <1>1, <1>2, <1>3, SumOfGrows, CountsTyped

LEMMA WriteCounted ==
  ASSUME IInv, Counted, ~ Rejects, NEW w \in Ranks, Write(w), UNCHANGED <<config, job>>
  PROVE  Counted'
<1> DEFINE o == First + distrib[w]
<1>1. /\ Types /\ OcoreTasks' = OcoreTasks /\ WorkTasks' = WorkTasks /\ ~ Rejects'
      /\ WorkTasks \subseteq Ranks
  BY Accepted
<1>2. /\ pc[w] = "work" /\ w \in WorkTasks /\ UNCHANGED <<pc, enabled, report>>
      /\ Grows(wrote, wrote', w) /\ (Updated \/ Assigned(w)) /\ o \in OcoreTasks
      /\ o \in Ranks
  BY WriteIs
<1> HIDE DEF o
<1>3. SumFunctionOnSet(wrote', WorkTasks) = SumFunctionOnSet(wrote, WorkTasks) + 1
  <2>1. wrote'[w] = wrote[w] + 1 /\ \A v \in WorkTasks \ {w} : wrote'[v] = wrote[v]
    BY <1>1, <1>2 DEF Grows
  <2>2. \A v \in WorkTasks : wrote[v] \in Int
    BY <1>1, CountsTyped
  <2> QED BY <1>1, <1>2, <2>1, <2>2, FiniteRanks, SumGrows
<1>4. /\ SumFunctionOnSet(held, OcoreTasks) + SumFunctionOnSet(mastersWrites, OcoreTasks)
           + SumFunctionOnSet(othersWrites, OcoreTasks) <= SumFunctionOnSet(wrote, WorkTasks)
      /\ \A p \in OcoreTasks : spilled[p] => held[p] > 0
      /\ DOMAIN report = {"written", "upper", "spilled"}
      /\ ~ (enabled[Master] /\ pc[Master] \in Leaving)
  BY <1>2 DEF Counted
<1>5. /\ SumFunctionOnSet(held, OcoreTasks) \in Nat
      /\ SumFunctionOnSet(mastersWrites, OcoreTasks) \in Nat
      /\ SumFunctionOnSet(othersWrites, OcoreTasks) \in Nat
      /\ SumFunctionOnSet(wrote, WorkTasks) \in Nat
      /\ \A p \in OcoreTasks : mastersWrites[p] \in Nat /\ othersWrites[p] \in Nat
  BY <1>1, CountsTyped
<1>6. /\ SumFunctionOnSet(held', OcoreTasks) + SumFunctionOnSet(mastersWrites', OcoreTasks)
           + SumFunctionOnSet(othersWrites', OcoreTasks) <= SumFunctionOnSet(wrote, WorkTasks) + 1
      /\ \A p \in OcoreTasks : spilled'[p] => held'[p] > 0
  <2>1. CASE UNCHANGED <<mastersWrites, othersWrites, held, spilled>>
    BY <1>4, <1>5, <2>1
  <2>2. CASE Stored(o) /\ UNCHANGED <<mastersWrites, othersWrites>>
    BY <1>1, <1>2, <1>4, <1>5, <2>2, StoredCounted
  <2>3. CASE Grows(mastersWrites, mastersWrites', o) /\ UNCHANGED <<held, spilled, othersWrites>>
    <3>1. SumFunctionOnSet(mastersWrites', OcoreTasks)
            = SumFunctionOnSet(mastersWrites, OcoreTasks) + 1
      BY <1>1, <1>2, <1>5, <2>3, SumOfGrows
    <3> QED BY <1>4, <1>5, <2>3, <3>1
  <2>4. CASE Grows(othersWrites, othersWrites', o) /\ UNCHANGED <<held, spilled, mastersWrites>>
    <3>1. SumFunctionOnSet(othersWrites', OcoreTasks)
            = SumFunctionOnSet(othersWrites, OcoreTasks) + 1
      BY <1>1, <1>2, <1>5, <2>4, SumOfGrows
    <3> QED BY <1>4, <1>5, <2>4, <3>1
  <2>5. Sent(w, o) \/ UNCHANGED <<mastersWrites, othersWrites, held, spilled>>
    BY <1>2 DEF Updated, Assigned, o
  <2> QED BY <1>1, <1>2, <2>1, <2>2, <2>3, <2>4, <2>5, SentIs
<1> QED BY <1>1, <1>2, <1>3, <1>4, <1>5, <1>6 DEF Counted

LEMMA StoreDataCounted ==
  ASSUME IInv, Counted, ~ Rejects, NEW o \in Ranks, StoreData(o), UNCHANGED <<config, job>>
  PROVE  Counted'
<1>1. /\ Types /\ Roles /\ OcoreTasks' = OcoreTasks /\ WorkTasks' = WorkTasks /\ ~ Rejects'
  BY Accepted
<1>2. /\ pc[o] = "poll" /\ Stored(o) /\ UNCHANGED <<pc, enabled, wrote, report>>
      /\ mastersWrites' \in [Ranks -> Nat] /\ othersWrites' \in [Ranks -> Nat]
      /\ \/ Grows(mastersWrites', mastersWrites, o) /\ UNCHANGED othersWrites
         \/ Grows(othersWrites', othersWrites, o) /\ UNCHANGED mastersWrites
  BY <1>1, StoreDataIs
<1>3. o \in OcoreTasks
  BY <1>1, <1>2 DEF Roles, OnOcore
<1>4. /\ SumFunctionOnSet(held, OcoreTasks) + SumFunctionOnSet(mastersWrites, OcoreTasks)
           + SumFunctionOnSet(othersWrites, OcoreTasks) <= SumFunctionOnSet(wrote, WorkTasks)
      /\ \A p \in OcoreTasks : spilled[p] => held[p] > 0
      /\ DOMAIN report = {"written", "upper", "spilled"}
      /\ ~ (enabled[Master] /\ pc[Master] \in Leaving)
  BY <1>2, <1>3 DEF Counted
<1>5. /\ SumFunctionOnSet(held', OcoreTasks) = SumFunctionOnSet(held, OcoreTasks) + 1
      /\ \A p \in OcoreTasks : spilled'[p] => held'[p] > 0
  BY <1>1, <1>2, <1>3, <1>4, StoredCounted
<1>6. OcoreTasks \subseteq Ranks /\ IsFiniteSet(OcoreTasks)
  BY <1>1, FiniteRanks DEF OcoreTasks
<1>7. /\ \A p \in OcoreTasks : mastersWrites'[p] \in Nat /\ othersWrites'[p] \in Nat
      /\ SumFunctionOnSet(mastersWrites', OcoreTasks) \in Nat
      /\ SumFunctionOnSet(othersWrites', OcoreTasks) \in Nat
  <2>1. \A p \in OcoreTasks : mastersWrites'[p] \in Nat /\ othersWrites'[p] \in Nat
    BY <1>2, <1>6
  <2> QED BY <1>6, <2>1, SumNat
<1>8. SumFunctionOnSet(mastersWrites', OcoreTasks) + SumFunctionOnSet(othersWrites', OcoreTasks) + 1
        = SumFunctionOnSet(mastersWrites, OcoreTasks) + SumFunctionOnSet(othersWrites, OcoreTasks)
  <2>1. CASE Grows(mastersWrites', mastersWrites, o) /\ UNCHANGED othersWrites
    <3>1. SumFunctionOnSet(mastersWrites, OcoreTasks)
            = SumFunctionOnSet(mastersWrites', OcoreTasks) + 1
      BY <1>1, <1>3, <1>7, <2>1, SumOfGrows
    <3> QED BY <1>7, <2>1, <3>1
  <2>2. CASE Grows(othersWrites', othersWrites, o) /\ UNCHANGED mastersWrites
    <3>1. SumFunctionOnSet(othersWrites, OcoreTasks)
            = SumFunctionOnSet(othersWrites', OcoreTasks) + 1
      BY <1>1, <1>3, <1>7, <2>2, SumOfGrows
    <3> QED BY <1>7, <2>2, <3>1
  <2> QED BY <1>2, <2>1, <2>2
<1>9. /\ SumFunctionOnSet(held, OcoreTasks) \in Nat
      /\ SumFunctionOnSet(mastersWrites, OcoreTasks) \in Nat
      /\ SumFunctionOnSet(othersWrites, OcoreTasks) \in Nat
      /\ SumFunctionOnSet(wrote, WorkTasks) \in Nat
  BY <1>1, CountsTyped
<1>10. SumFunctionOnSet(held', OcoreTasks) + SumFunctionOnSet(mastersWrites', OcoreTasks)
         + SumFunctionOnSet(othersWrites', OcoreTasks) <= SumFunctionOnSet(wrote, WorkTasks)
  BY <1>4, <1>5, <1>7, <1>8, <1>9
<1> QED BY <1>1, <1>2, <1>4, <1>5, <1>10 DEF Counted

(* A step that leaves the report and the master's part in it alone. *)
LEMMA CountedSilent ==
  ASSUME IInv, Counted, ~ Rejects,
         UNCHANGED <<config, wrote, mastersWrites, othersWrites, held, spilled, report>>,
         enabled'[Master] => enabled[Master],
         \/ enabled'[Master] => pc'[Master] \notin Leaving
         \/ /\ pc'[Master] = pc[Master]
            /\ \A w \in WorkTasks : pc'[w] = "work" => pc[w] = "work"
            /\ \A o \in OcoreTasks : pc'[o] = "poll" => pc[o] = "poll"
  PROVE  Counted'
BY CountedKept

LEMMA RankCounted ==
  ASSUME IInv, Counted, ~ Rejects, UNCHANGED <<config, job>>, NEW r \in Ranks, RankStep(r)
  PROVE  Counted'
<1>1. /\ Types /\ Roles /\ Master \in Ranks /\ Master \notin OcoreTasks /\ Master \in WorkTasks
      /\ WorkTasks \subseteq Ranks /\ OcoreTasks \subseteq Ranks /\ Ranks' = Ranks
      /\ DOMAIN report = {"written", "upper", "spilled"}
  BY Accepted DEF Counted
<1>2. ASSUME NEW x, Goto(r, x), x \notin {"work", "poll"}
      PROVE  /\ pc'[Master] = IF r = Master THEN x ELSE pc[Master]
             /\ \A w \in WorkTasks : pc'[w] = "work" => pc[w] = "work"
             /\ \A o \in OcoreTasks : pc'[o] = "poll" => pc[o] = "poll"
  BY <1>1, <1>2 DEF Goto, Types
<1>3. CASE Write(r) \/ StoreData(r)
  BY <1>3, WriteCounted, StoreDataCounted
<1>4. CASE OtherEnable(r)
  <2>1. /\ enabled' = [enabled EXCEPT ![r] = enabled[Master]] /\ r # Master
        /\ UNCHANGED <<wrote, mastersWrites, othersWrites, held, spilled, report>>
        /\ \E x \in {"bcast", "finished"} : Goto(r, x)
    BY <1>4 DEF OtherEnable, outputs, records
  <2>2. enabled'[Master] = enabled[Master]
    BY <1>1, <2>1 DEF Types
  <2>3. /\ pc'[Master] = pc[Master]
        /\ \A w \in WorkTasks : pc'[w] = "work" => pc[w] = "work"
        /\ \A o \in OcoreTasks : pc'[o] = "poll" => pc[o] = "poll"
    BY <1>2, <2>1
  <2> QED BY <2>1, <2>2, <2>3, CountedSilent
<1>5. CASE Reduce(r)
  <2>1. UNCHANGED <<enabled, wrote, mastersWrites, othersWrites, held, spilled>> /\ pc[r] = "reduce" /\ Goto(r, "gather")
    BY <1>5 DEF Reduce, local, records
  <2>2. CASE r # Master
    <3>1. UNCHANGED report
      BY <1>5, <2>2 DEF Reduce
    <3> QED BY <1>2, <2>1, <2>2, <3>1, CountedSilent
  <2>3. CASE r = Master
    <3>1. PICK upper : report' = [report EXCEPT !.written = Written, !.upper = upper]
      BY <1>5, <2>3 DEF Reduce
    <3>2. report'.written = Written /\ DOMAIN report' = DOMAIN report
      BY <1>1, <3>1
    <3> QED BY <1>2, <2>1, <2>3, <3>2, CountedKept DEF Leaving
  <2> QED BY <2>2, <2>3
<1>6. CASE Gather(r)
  <2>1. UNCHANGED <<enabled, wrote, mastersWrites, othersWrites, held, spilled>> /\ pc[r] = "gather" /\ Goto(r, "close")
    BY <1>6 DEF Gather, local, records
  <2>2. CASE r # Master
    <3>1. UNCHANGED report
      BY <1>6, <2>2 DEF Gather
    <3> QED BY <1>2, <2>1, <2>2, <3>1, CountedSilent
  <2>3. CASE r = Master
    <3>1. report' = [report EXCEPT !.spilled =
                            IF report.written > 0 \/ report.upper > 0
                            THEN {s \in OcoreTasks : spilled[s]} ELSE {}]
      BY <1>6, <2>3 DEF Gather
    <3>2. /\ report'.written = report.written /\ DOMAIN report' = DOMAIN report
          /\ report'.spilled = IF report.written > 0 \/ report.upper > 0
                               THEN {s \in OcoreTasks : spilled[s]} ELSE {}
      BY <1>1, <3>1
    <3> QED BY <1>2, <2>1, <2>3, <3>2, CountedKept DEF Leaving
  <2> QED BY <2>2, <2>3
<1>7. CASE \/ CheckConfiguration(r) \/ BcastOptions(r) \/ SetUpOcoreTask(r) \/ CallFinalize(r)
           \/ LeavePolling(r) \/ WriteHeader(r) \/ TakeTurn(r)
  <2>1. /\ UNCHANGED <<enabled, wrote, mastersWrites, othersWrites, held, spilled, report>>
        /\ \E x \in {"aborted", "groups", "config", "ready", "drain", "gate", "written", "took",
                     "empty_dump"} : Goto(r, x)
    BY <1>7, Zenon DEF CheckConfiguration, BcastOptions, SetUpOcoreTask, CallFinalize,
       LeavePolling, WriteHeader, TakeTurn, local, outputs, records
  <2> QED BY <1>2, <2>1, CountedSilent DEF Leaving
<1> QED BY <1>3, <1>4, <1>5, <1>6, <1>7 DEF RankStep

LEMMA CollectiveCounted ==
  ASSUME IInv, Counted, ~ Rejects, UNCHANGED <<config, job>>, Collective
  PROVE  Counted'
<1>1. /\ Types /\ Roles /\ Options /\ Master \in Ranks /\ Master \notin OcoreTasks
      /\ Master \in WorkTasks /\ WorkTasks = Ranks \ OcoreTasks /\ OcoreTasks \subseteq Ranks
      /\ Ranks' = Ranks
  BY Accepted
<1>2. ASSUME NEW x, Goto(Master, x)
      PROVE  pc'[Master] = x /\ \A w \in WorkTasks \ {Master} : pc'[w] = pc[w]
  BY <1>1, <1>2 DEF Goto, Types
<1>3. CASE BuildCommunicators
  <2>1. /\ UNCHANGED <<enabled, wrote, mastersWrites, othersWrites, held, spilled, report>>
        /\ pc'[Master] \in {"comms", "ranks", "enable"}
    BY <1>1, <1>3 DEF BuildCommunicators, Setup, Meet, local, outputs, records
  <2> QED BY <2>1, CountedSilent DEF Leaving
<1>4. CASE MasterEnable
  <2>1. /\ UNCHANGED <<wrote, mastersWrites, othersWrites, held, spilled, report>> /\ pc[Master] = "enable"
        /\ \E on : /\ enabled' = [enabled EXCEPT ![Master] = on]
                   /\ Goto(Master, IF on THEN "options" ELSE "finished")
    BY <1>4 DEF MasterEnable, outputs, records
  <2>2. enabled[Master]
    BY <1>1, <2>1 DEF Options, Fresh
  <2>3. enabled'[Master] => pc'[Master] = "options"
    BY <1>1, <1>2, <2>1 DEF Types
  <2> QED BY <2>1, <2>2, <2>3, CountedSilent DEF Leaving
<1>5. CASE ReadOptions \/ NotifyOcoreTasks
  <2>1. /\ UNCHANGED <<enabled, wrote, mastersWrites, othersWrites, held, spilled, report>>
        /\ \E x \in {"bcast", "aborted", "gate"} : Goto(Master, x)
    BY <1>5, Zenon DEF ReadOptions, NotifyOcoreTasks, local, outputs, records
  <2> QED BY <1>2, <2>1, CountedSilent DEF Leaving
<1>6. CASE ShowConfiguration \/ Ready \/ DrainWork
  <2>1. /\ UNCHANGED <<enabled, wrote, mastersWrites, othersWrites, held, spilled, report>>
        /\ pc'[Master] \in {"ready", "work", "notify"}
    BY <1>1, <1>6 DEF ShowConfiguration, Ready, DrainWork, Meet, local, outputs, records
  <2> QED BY <2>1, CountedSilent DEF Leaving
<1>7. CASE PassGate
  <2>1. UNCHANGED <<enabled, wrote, mastersWrites, othersWrites, held, spilled, report>>
        /\ \A w \in WorkTasks : pc'[w] = "reduce"
        /\ \A o \in OcoreTasks : pc'[o] # "poll"
    BY <1>1, <1>7 DEF PassGate, Meet, AfterGate, local, outputs, records
  <2> QED BY <1>1, <2>1, CountedKept
<1>8. CASE HeaderBarrier \/ TurnBarrier
  <2>1. UNCHANGED <<enabled, wrote, mastersWrites, othersWrites, held, spilled, report>>
        /\ \A w \in WorkTasks : pc'[w] = pc[w]
        /\ \A o \in OcoreTasks : pc'[o] # "poll"
    BY <1>1, <1>8 DEF HeaderBarrier, TurnBarrier, NextTurn, Meet, local, outputs, records
  <2> QED BY <1>1, <2>1, CountedSilent
<1>9. CASE Close
  <2>1. /\ UNCHANGED <<enabled, wrote, mastersWrites, othersWrites, held, spilled, report>>
        /\ \A w \in Ranks : pc'[w] = pc[w] \/ (pc[w] = "close" /\ pc'[w] = "finished")
    BY <1>1, <1>9 DEF Close, Meet, Goto, Types, local, outputs, records
  <2> QED BY <1>1, <2>1, CountedKept DEF Leaving
<1> QED BY <1>3, <1>4, <1>5, <1>6, <1>7, <1>8, <1>9 DEF Collective

LEMMA NextCounted == IInv /\ Counted /\ [Next]_vars => Counted'
<1> SUFFICES ASSUME IInv, Counted, [Next]_vars PROVE Counted'
  OBVIOUS
<1>1. CASE Step
  <2>1. CASE Rejects
    BY <1>1, <2>1, Fixed DEF Step, Counted
  <2>2. CASE ~ Rejects
    BY <1>1, <2>2, RankCounted, CollectiveCounted DEF Step
  <2> QED BY <2>1, <2>2
<1>2. CASE ~ Step
  <2>1. UNCHANGED <<config, pc, enabled, wrote, mastersWrites, othersWrites, held, spilled, report>>
    BY <1>2 DEF Next, Kill, local, outputs, records, vars
  <2>2. CASE Rejects
    BY <2>1, <2>2, Fixed DEF Counted
  <2>3. CASE ~ Rejects
    BY <2>1, <2>3, CountedSilent
  <2> QED BY <2>2, <2>3
<1> QED BY <1>1, <1>2

LEMMA ReportFollows == IInv /\ Counted => ReportTrue
<1> SUFFICES ASSUME IInv, Counted, enabled[Master], Past(Master, "gather")
             PROVE  /\ report.written = SumFunctionOnSet(wrote, WorkTasks)
                    /\ SumFunctionOnSet(held, OcoreTasks)
                         + SumFunctionOnSet(othersWrites, OcoreTasks) <= report.written
                    /\ report.spilled = {o \in OcoreTasks : spilled[o]}
  BY DEF ReportTrue
<1>1. Types /\ Rejected /\ Master \in Ranks
  BY RankFacts DEF IInv
<1>2. pc[Master] \in {"close", "finished"}
  BY <1>1, PositionIs, StageIndex DEF Types, Past, Places, Stopped, Stages, Fresh, Agreed
<1>3. ~ Rejects
  BY <1>1, <1>2 DEF Rejected
<1>4. /\ report.written = SumFunctionOnSet(wrote, WorkTasks)
      /\ SumFunctionOnSet(held, OcoreTasks) + SumFunctionOnSet(mastersWrites, OcoreTasks)
           + SumFunctionOnSet(othersWrites, OcoreTasks) <= SumFunctionOnSet(wrote, WorkTasks)
      /\ report.spilled = {o \in OcoreTasks : spilled[o]}
  BY <1>2, <1>3 DEF Counted, Leaving
<1> QED BY <1>1, <1>4, CountsTyped

(* The summary the master prints counts every write of every work task, no
   less than the records stored and lost, and names those Ocore tasks that
   went to disk, for any number of tasks, writes and spills. *)
THEOREM SummaryRight == Spec => []ReportTrue
<1>1. Spec => []Counted
  <2>1. IInv /\ Counted /\ [Next]_vars => Counted'
    BY NextCounted
  <2> QED BY <2>1, InitCounted, Invariance, PTL DEF Spec
<1> QED BY <1>1, Invariance, ReportFollows, PTL
=============================================================================
