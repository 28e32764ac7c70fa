--------------------- MODULE DirectiveLeasesProperties ---------------------
(* What audit mode promises about the files of its user. *)
EXTENDS DirectiveLeases

\* The shapes of the disk and of the leases.
TypeOK ==
  /\ disk \in [File -> Version \cup {Torn}]
  /\ backup \in [Root -> [File -> Version \cup {Torn, None}]]
  /\ lease \in [File -> Lease \cup {None}]
  /\ handler \in Handler \cup {None}
  /\ \A s \in Scan :
       /\ scan[s].state \in States
       /\ scan[s].leased \subseteq Scope(s) /\ scan[s].blocked \subseteq Below(s)
  /\ disturbed \subseteq File
  /\ crashes \in 0 .. MaxCrashes /\ failures \in 0 .. MaxFailures

\* Whatever is killed, fails or is edited, what the user last saved is either in
\* the file or in a backup of it.
NothingIsLost ==
  \A f \in File : disk[f] = wanted[f] \/ \E r \in Root : backup[r][f] = wanted[f]

\* A lease counts exactly the scans that hold it, so that the last of them, and
\* no earlier one, restores the file.
LeasesAreCounted ==
  handler = None =>
    \A f \in File :
      LET holders == {s \in Scan : f \in scan[s].leased}
      IN  IF lease[f] = None THEN holders = {} ELSE lease[f].count = Cardinality(holders)

AuditSeesEverything ==
  \A s \in Scan : scan[s].state = "ready" /\ ~scan[s].recoverOnly /\ handler = None /\ ~exiting =>
    \A f \in Scope(s) \ disturbed : disk[f].neutral

\* While a scan lints in audit mode it sees no directive: no overlapping scan
\* restores a file under it, and none is missed because another scan had
\* rewritten it when the directives were searched.  After a crash, see below.
NoDirectiveIsVisible == crashes = 0 => AuditSeesEverything

\* "every inline suppression is neutralized so react-doctor reports every
\* diagnostic regardless of historical hide-comments" (types/config.ts:360):
\* the same after the process was killed.
EverySuppressionIsNeutralized == AuditSeesEverything

\* When the recovery of a root ends, the only backups left there belong to active
\* leases: what a crash left is restored.  A backup that was passed over because a
\* scan of a nested root leased the file is a copy of the file when that lease has
\* gone; no file stays rewritten.
RecoveryIsComplete ==
  /\ At({"recover"}, "next") /\ handler.todo = {} =>
       LET root == scan[handler.scan].root
       IN  \A f \in FilesOf[root] \ disturbed : backup[root][f] # None => lease[f] # None
  /\ handler = None =>
       \A s \in Scan : scan[s].state \in {"recovered", "discovered", "ready"} =>
         \A f \in Below(s) \ disturbed :
           backup[scan[s].root][f] # None /\ lease[f] = None => disk[f] = wanted[f]

\* When no scan is active any more, every file is as the user saved it and no
\* backup is left, in whatever order overlapping scans began, failed, ended or
\* were interrupted by process.exit.
FilesAreRestored ==
  Active = {} /\ ~exiting /\ crashes = 0 =>
    \A f \in File \ disturbed :
      disk[f] = wanted[f] /\ \A r \in Root : backup[r][f] = None

\* The queue of overlapping initialisations never locks up.
InitializationsEnd == \A s \in Scan : s \in Initializing ~> s \notin Initializing
=============================================================================
