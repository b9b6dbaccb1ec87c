--------------------------- MODULE MCOcoreSession ---------------------------
(* Input files: all defaults, disabled, options given, a rejected size, and
   a keyword whose text does not convert. *)
EXTENDS OcoreSession

Given(f) == [k \in Keywords |-> IF k \in DOMAIN f THEN f[k] ELSE Missing]

EnabledFile == Given([enable_ocore |-> 1])

MCInputFiles == {
    Given([blocksize |-> 2]),
    EnabledFile,
    Given([enable_ocore |-> 1, use_disk_overflow |-> 0, blocksize |-> 2, statsfile |-> "mine"]),
    Given([enable_ocore |-> 1, dump_raw_statistics |-> FALSE, allow_empty_records |-> 1]),
    Given([enable_ocore |-> 1, blocksize |-> 0]),
    Given([enable_ocore |-> Unreadable, blocksize |-> 2]) }

(* The largest jobs are run with the first enabled file, MPI being ours. *)
JobsRun == config.nprocs = MaxProcs => config.ownsMPI /\ config.file = EnabledFile
=============================================================================
