------------------------------ MODULE Durability ------------------------------
(***************************************************************************)
(* What the operating system promises the run directories: an entry made   *)
(* or removed (mkdir, rename, unlink) is seen at once by every process and *)
(* is on disk only when the directory that holds it has been fsynced; when *)
(* the machine stops, each entry not yet on disk may be found in either    *)
(* state.  The live entries and those on disk are two sets of names.       *)
(***************************************************************************)

\* fsync of the directory that holds the given entries.
Synced(live, disk, entries) == (disk \ entries) \union (live \intersect entries)

\* The sets of entries a restarted machine may find.
Survivors(live, disk) ==
    {found \in SUBSET (live \union disk) : live \intersect disk \subseteq found}
=============================================================================
