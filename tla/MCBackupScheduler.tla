------------------------- MODULE MCBackupScheduler -------------------------
(* Small instances of BackupScheduler for TLC: a daemon that boots with one   *)
(* schedule, and archives to restore.                                        *)
EXTENDS BackupScheduler, TLC

CONSTANTS s1, s2, s3, x, y, p, q

BootStore == [chans  |-> {x},
              scheds |-> {[id |-> s1, chan |-> x, pool |-> p, on |-> TRUE]}]

\* Two archives of the daemon's own, one that holds its schedule only and one
\* its channel only, and one of another daemon whose schedule backs up to the
\* same pool: restoring it leaves the job of the schedule it replaces at work
\* beside that of the new one.
ArchiveStores ==
    {[chans  |-> {},
      scheds |-> {[id |-> s1, chan |-> x, pool |-> p, on |-> FALSE]}],
     [chans |-> {x}, scheds |-> {}],
     [chans  |-> {x},
      scheds |-> {[id |-> s2, chan |-> x, pool |-> p, on |-> FALSE]}]}

\* The handlers are interchangeable, and so are the slots.
Symmetry == Permutations(Callers) \cup Permutations(Jobs)
=============================================================================
