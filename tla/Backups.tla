------------------------------- MODULE Backups -------------------------------
(***************************************************************************)
(* The backup directory: ludex-core/src/backup.rs.  A file is named after  *)
(* the second its snapshot was begun in, and only the order of the names   *)
(* matters: a directory maps the names it holds, numbers, to whether the   *)
(* file is a complete copy.                                                *)
(***************************************************************************)
EXTENDS Naturals, FiniteSets, Functions

Copy == {"partial", "complete"}

\* Plausible mistake: the listing is the wrong way round.
DoomedNewest(dir, keep) ==
  {n \in DOMAIN dir :
     Cardinality({m \in DOMAIN dir : m < n}) >= (IF keep = 0 THEN 1 ELSE keep)}

\* Every file of the directory beyond the `keep' newest; nought counts as one.
Doomed(dir, keep) ==
  {n \in DOMAIN dir :
     Cardinality({m \in DOMAIN dir : m > n}) >= (IF keep = 0 THEN 1 ELSE keep)}

\* VACUUM INTO opens its file before it fills it.
Opened(dir, name) == [n \in DOMAIN dir \cup {name} |->
                        IF n = name THEN "partial" ELSE dir[n]]

\* The file may have been pruned while it was being filled.
Filled(dir, name) == [n \in DOMAIN dir |->
                        IF n = name THEN "complete" ELSE dir[n]]

\* A file that is already gone is no error.
Without(dir, name) == Restrict(dir, DOMAIN dir \ {name})
=============================================================================
