-------------------------- MODULE DirectiveLeases --------------------------
(***************************************************************************)
(* neutralizeDisableDirectives (neutralize-disable-directives.ts): in      *)
(* audit mode a scan rewrites the disable directives of the user's source  *)
(* files on disk, after writing a backup, and restores the files when it   *)
(* ends.  Scans of one process share the rewritten files through counted   *)
(* leases; what a crash leaves behind is recovered from the backups by the *)
(* next scan of the same root.                                             *)
(*                                                                         *)
(* JavaScript runs a handler to its end, so only one handler is active at  *)
(* a time; but the process can be killed between two of its file           *)
(* operations, and each of them can fail.  The model has one process at a  *)
(* time, and an editor that does not save in the middle of a handler.      *)
(***************************************************************************)
EXTENDS Integers, FiniteSets

CONSTANTS
  Root,         \* directories that are scanned
  File,         \* source files
  FilesOf,      \* the files below each root
  Scan,         \* calls of neutralizeDisableDirectives
  MaxEdits,     \* bound: saves of the user
  MaxCrashes,   \* bound: times the process is killed
  MaxFailures,  \* bound: file operations that fail
  None          \* no backup, no lease, no handler

ASSUME LeasesAssumption ==
  /\ FilesOf \in [Root -> SUBSET File] /\ IsFiniteSet(Scan)
  /\ MaxEdits \in Nat /\ MaxCrashes \in Nat /\ MaxFailures \in Nat

VARIABLES
  disk,      \* content of each source file
  backup,    \* content of its backup below each root, None if there is none
  lease,     \* neutralizedFileLeases
  scan,      \* the state of each call, its leasedPaths and blockedPaths included
  handler,   \* the synchronous handler that runs
  exiting,   \* process.exit was called
  wanted,    \* history: what the user last saved
  disturbed, \* history: files the user saved or a failed operation touched
  crashes, failures

vars == <<disk, backup, lease, scan, handler, exiting, wanted, disturbed, crashes, failures>>
history == <<wanted, disturbed, crashes, failures>>

\* A file is one of the user's versions, with its directives or without.
\* A version whose neutral flag is set has no directive to rewrite.
Torn == [text |-> 0 - 1, neutral |-> TRUE]
Version == [text : 0 .. MaxEdits, neutral : BOOLEAN]
Neutral(c) == [c EXCEPT !.neutral = TRUE]

Lease == [root : Root, original : Version, count : Nat \ {0}]

States == {"new", "waiting", "recovered", "discovered", "ready", "ended"}

Handler ==
  [kind : {"recover", "lease", "restore"}, scan : Scan, todo : SUBSET File,
   step : {"next", "write", "remove"}, file : File \cup {None}, root : Root,
   original : Version \cup {Torn, None}]

ASSUME NoneAssumption == None \notin Version \cup {Torn} \cup Lease \cup Handler

Init ==
  /\ disk \in [File -> [text : {0}, neutral : BOOLEAN]]
  /\ backup = [r \in Root |-> [f \in File |-> None]]
  /\ lease = [f \in File |-> None]
  /\ scan \in [Scan ->
        UNION {[state : {"new"}, root : {r}, include : SUBSET FilesOf[r] \ {{}},
                recoverOnly : BOOLEAN, blockers : {{}}, found : {{}}, leased : {{}},
                blocked : {{}}] : r \in Root}]
  /\ handler = None
  /\ exiting = FALSE
  /\ wanted = disk
  /\ disturbed = {}
  /\ crashes = 0 /\ failures = 0

\* Definitions marked as wrong variants are used by no action: each stands for a
\* plausible bug that a property below must notice.

Leases == {f \in File : lease[f] # None}
Below(s) == FilesOf[scan[s].root]
Scope(s) == scan[s].include

\* activeNeutralizationInitializations
Initializing == {s \in Scan : scan[s].state \in {"waiting", "recovered", "discovered"}}
Active == {s \in Scan : scan[s].state \notin {"new", "ended"}}

\* directoriesOverlap, for roots that are equal or nested or have no file in common
Overlap(s, t) == scan[s].root = scan[t].root \/ Below(s) \cap Below(t) # {}

Idle == handler = None /\ ~exiting

\* The handler leaves a file alone and goes on, or does something to the file
\* whose original content is in the backup below root.
Pass(f) == [handler EXCEPT !.todo = @ \ {f}, !.step = "next"]
Go(step, f, root, original) ==
  [handler EXCEPT !.step = step, !.file = f, !.root = root, !.original = original]

At(kinds, step) == handler # None /\ handler.kind \in kinds /\ handler.step = step

Run(kind, s, files) ==
  handler' = [kind |-> kind, scan |-> s, todo |-> files, step |-> "next",
              file |-> None, root |-> scan[s].root, original |-> None]

\* A file operation fails.
Fails(f) ==
  /\ failures < MaxFailures
  /\ failures' = failures + 1
  /\ disturbed' = disturbed \cup {f}
  /\ UNCHANGED <<wanted, crashes>>

Block(f) == scan' = [scan EXCEPT ![handler.scan].blocked = @ \cup {f}]

---------------------------------------------------------------------------
(* withOverlappingInitializationLock *)

\* Wrong variants: no queue at all, and a call that waits for itself.
NoBlockers(s) == {}
BlockedByItself(s) == {t \in Initializing \cup {s} : Overlap(s, t)}

Blockers(s) == {t \in Initializing : Overlap(s, t)}

Call(s) ==
  /\ Idle
  /\ scan[s].state = "new"
  /\ scan' = [scan EXCEPT ![s].state = "waiting", ![s].blockers = Blockers(s)]
  /\ UNCHANGED <<disk, backup, lease, handler, exiting, history>>

---------------------------------------------------------------------------
(* recoverOrphanedBackups *)

\* Wrong variant: the stale backup of a file that is as it was is left there.
OrphansOfChanged(r) ==
  {f \in FilesOf[r] : backup[r][f] # None /\ lease[f] = None /\ disk[f] # backup[r][f]}

Orphans(r) == {f \in FilesOf[r] : backup[r][f] # None /\ lease[f] = None}

Recover(s) ==
  /\ Idle
  /\ scan[s].state = "waiting"
  /\ scan[s].blockers \cap Initializing = {}
  /\ Run("recover", s, Orphans(scan[s].root))
  /\ UNCHANGED <<disk, backup, lease, scan, exiting, history>>

\* Wrong variant: a file changed by the user is overwritten too.
IsAnything(c, b) == TRUE

\* What may be overwritten with its backup: the rewritten form of that backup.
IsRewritten(c, b) == c = Neutral(b)

RecoverFile ==
  /\ At({"recover"}, "next")
  /\ \E f \in handler.todo :
       LET r == scan[handler.scan].root
           b == backup[r][f]
       IN  \/ /\ disk[f] = b
              /\ handler' = Go("remove", f, r, b)
              /\ UNCHANGED scan
           \/ /\ disk[f] # b /\ IsRewritten(disk[f], b)
              /\ handler' = Go("write", f, r, b)
              /\ UNCHANGED scan
           \/ /\ disk[f] # b /\ ~IsRewritten(disk[f], b)
              /\ handler' = Pass(f)
              /\ Block(f)
  /\ UNCHANGED <<disk, backup, lease, exiting, history>>

\* The recovery and the end of a scan write the original content back ...
WriteBack ==
  /\ At({"recover", "restore"}, "write")
  /\ LET f == handler.file
     IN  \/ /\ disk' = [disk EXCEPT ![f] = handler.original]
            /\ handler' = [handler EXCEPT !.step = "remove"]
            /\ UNCHANGED <<scan, history>>
         \/ /\ Fails(f)
            /\ \E c \in {disk[f], Torn} : disk' = [disk EXCEPT ![f] = c]
            /\ handler' = Pass(f)
            /\ IF handler.kind = "recover" THEN Block(f) ELSE UNCHANGED scan
  /\ UNCHANGED <<backup, lease, exiting>>

\* ... and then delete the backup.
RemoveBackup ==
  /\ At({"recover", "restore"}, "remove")
  /\ LET f == handler.file
     IN  \/ /\ backup' = [backup EXCEPT ![handler.root][f] = None]
            /\ UNCHANGED <<scan, history>>
         \/ /\ Fails(f)
            /\ IF handler.kind = "recover" THEN Block(f) ELSE UNCHANGED scan
            /\ UNCHANGED backup
  /\ handler' = Pass(handler.file)
  /\ UNCHANGED <<disk, lease, exiting>>

---------------------------------------------------------------------------
(* Discovery and leases *)

Adopt(s) == Leases \cap Scope(s)

\* Wrong variant: a shared lease is not counted.
NotCounted(files) == lease

CountUp(files) ==
  [f \in File |-> IF f \in files THEN [lease[f] EXCEPT !.count = @ + 1] ELSE lease[f]]

\* After the recovery, and before the asynchronous discovery, the active leases
\* of the scope are adopted.
Recovered ==
  /\ At({"recover"}, "next")
  /\ handler.todo = {}
  /\ LET s == handler.scan
     IN  IF scan[s].recoverOnly
         THEN /\ scan' = [scan EXCEPT ![s].state = "ready"]
              /\ UNCHANGED lease
         ELSE /\ scan' = [scan EXCEPT ![s].state = "recovered", ![s].leased = Adopt(s)]
              /\ lease' = CountUp(Adopt(s))
  /\ handler' = None
  /\ UNCHANGED <<disk, backup, exiting, history>>

\* git grep, or the walk of the tree, sees the files at some moment ...
Discover(s) ==
  /\ Idle
  /\ scan[s].state = "recovered"
  /\ scan' = [scan EXCEPT ![s].state = "discovered",
                          ![s].found = {f \in Scope(s) : ~disk[f].neutral}]
  /\ UNCHANGED <<disk, backup, lease, handler, exiting, history>>

\* ... and its result is used later.
Discovered(s) ==
  /\ Idle
  /\ scan[s].state = "discovered"
  /\ Run("lease", s, (scan[s].found \cup Adopt(s)) \ (scan[s].leased \cup scan[s].blocked))
  /\ UNCHANGED <<disk, backup, lease, scan, exiting, history>>

\* leaseCandidatePath: share a lease, or write the backup first, which fails if
\* one is there already.
LeaseFile ==
  /\ At({"lease"}, "next")
  /\ \E f \in handler.todo :
       LET s == handler.scan
           r == scan[s].root
       IN  \/ /\ lease[f] # None
              /\ lease' = CountUp({f})
              /\ scan' = [scan EXCEPT ![s].leased = @ \cup {f}]
              /\ handler' = Pass(f)
              /\ UNCHANGED <<backup, history>>
           \/ /\ lease[f] = None
              /\ disk[f].neutral \/ backup[r][f] # None
              /\ handler' = Pass(f)
              /\ UNCHANGED <<backup, lease, scan, history>>
           \/ /\ lease[f] = None /\ ~disk[f].neutral /\ backup[r][f] = None
              /\ backup' = [backup EXCEPT ![r][f] = disk[f]]
              /\ handler' = Go("write", f, r, disk[f])
              /\ UNCHANGED <<lease, scan, history>>
           \/ /\ lease[f] = None /\ ~disk[f].neutral /\ backup[r][f] = None
              /\ Fails(f)
              /\ \E b \in {None, Torn} : backup' = [backup EXCEPT ![r][f] = b]
              /\ handler' = Pass(f)
              /\ UNCHANGED <<lease, scan>>
  /\ UNCHANGED <<disk, exiting>>

\* A failed write rejects the call, after it has restored what it leased before.
LeaseWrite ==
  /\ At({"lease"}, "write")
  /\ LET f == handler.file
         s == handler.scan
     IN  \/ /\ disk' = [disk EXCEPT ![f] = Neutral(@)]
            /\ lease' = [lease EXCEPT ![f] =
                           [root |-> handler.root, original |-> handler.original, count |-> 1]]
            /\ scan' = [scan EXCEPT ![s].leased = @ \cup {f}]
            /\ handler' = Pass(f)
            /\ UNCHANGED history
         \/ /\ Fails(f)
            /\ \E c \in {disk[f], Torn} : disk' = [disk EXCEPT ![f] = c]
            /\ Run("restore", s, scan[s].leased)
            /\ UNCHANGED <<lease, scan>>
  /\ UNCHANGED <<backup, exiting>>

Leased ==
  /\ At({"lease"}, "next")
  /\ handler.todo = {}
  /\ scan' = [scan EXCEPT ![handler.scan].state = "ready"]
  /\ handler' = None
  /\ UNCHANGED <<disk, backup, lease, exiting, history>>

---------------------------------------------------------------------------
(* restore *)

\* The scan has ended, or the exit listener runs, in whatever state the scan is.
Restore(s) ==
  /\ handler = None
  /\ scan[s].state = "ready" \/ (exiting /\ s \in Active)
  /\ Run("restore", s, scan[s].leased)
  /\ UNCHANGED <<disk, backup, lease, scan, exiting, history>>

\* Wrong variant: off by one.
IsUnused(f) == lease[f].count = 0

IsLastUse(f) == lease[f].count = 1

\* The lease is forgotten before the file is restored, and even if that fails.
RestoreFile ==
  /\ At({"restore"}, "next")
  /\ \E f \in handler.todo :
       \/ /\ lease[f] = None
          /\ handler' = Pass(f)
          /\ UNCHANGED lease
       \/ /\ lease[f] # None /\ ~IsLastUse(f)
          /\ handler' = Pass(f)
          /\ lease' = [lease EXCEPT ![f].count = @ - 1]
       \/ /\ lease[f] # None /\ IsLastUse(f)
          /\ LET l == lease[f]
             IN  handler' = IF IsRewritten(disk[f], l.original)
                            THEN Go("write", f, l.root, l.original)
                            ELSE IF disk[f] = l.original
                                 THEN Go("remove", f, l.root, l.original) ELSE Pass(f)
          /\ lease' = [lease EXCEPT ![f] = None]
  /\ UNCHANGED <<disk, backup, scan, exiting, history>>

Restored ==
  /\ At({"restore"}, "next")
  /\ handler.todo = {}
  /\ scan' = [scan EXCEPT ![handler.scan].state = "ended", ![handler.scan].leased = {}]
  /\ handler' = None
  /\ UNCHANGED <<disk, backup, lease, exiting, history>>

---------------------------------------------------------------------------
(* The process and its user *)

\* process.exit runs the exit listeners of all scans before the process ends.
Exit ==
  /\ Idle
  /\ Active # {}
  /\ exiting' = TRUE
  /\ UNCHANGED <<disk, backup, lease, scan, handler, history>>

\* What a process leaves behind is on the disk; the next one starts with no lease.
NewProcess ==
  /\ lease' = [f \in File |-> None]
  /\ scan' = [s \in Scan |-> IF s \in Active
                             THEN [scan[s] EXCEPT !.state = "ended", !.leased = {}] ELSE scan[s]]
  /\ handler' = None
  /\ exiting' = FALSE

Exited ==
  /\ exiting /\ handler = None /\ Active = {}
  /\ NewProcess
  /\ UNCHANGED <<disk, backup, history>>

\* The process is killed, maybe in the middle of writing a file or a backup.
Killed ==
  /\ crashes < MaxCrashes
  /\ Active # {}
  /\ crashes' = crashes + 1
  /\ NewProcess
  /\ \/ UNCHANGED <<disk, backup, disturbed>>
     \/ /\ handler # None /\ handler.step = "write"
        /\ disk' = [disk EXCEPT ![handler.file] = Torn]
        /\ disturbed' = disturbed \cup {handler.file}
        /\ UNCHANGED backup
     \/ /\ At({"lease"}, "write")
        /\ backup' = [backup EXCEPT ![scan[handler.scan].root][handler.file] = Torn]
        /\ disturbed' = disturbed \cup {handler.file}
        /\ UNCHANGED disk
  /\ UNCHANGED <<wanted, failures>>

\* The user saves a new version, with or without directives.
Edit(f) ==
  /\ handler = None
  /\ wanted[f].text < MaxEdits
  /\ \E neutral \in BOOLEAN :
       LET saved == [text |-> wanted[f].text + 1, neutral |-> neutral]
       IN  disk' = [disk EXCEPT ![f] = saved] /\ wanted' = [wanted EXCEPT ![f] = saved]
  /\ disturbed' = disturbed \cup {f}
  /\ UNCHANGED <<backup, lease, scan, handler, exiting, crashes, failures>>

---------------------------------------------------------------------------
HandlerStep ==
  \/ RecoverFile \/ WriteBack \/ RemoveBackup \/ Recovered
  \/ LeaseFile \/ LeaseWrite \/ Leased
  \/ RestoreFile \/ Restored \/ Exited

ScanStep(s) == Recover(s) \/ Discover(s) \/ Discovered(s) \/ Restore(s)

Next ==
  \/ HandlerStep
  \/ \E s \in Scan : Call(s) \/ ScanStep(s)
  \/ Exit \/ Killed
  \/ \E f \in File : Edit(f)

Spec == Init /\ [][Next]_vars

\* A handler that started ends; promises resolve and scans end in their time.
FairSpec == Spec /\ WF_vars(HandlerStep) /\ \A s \in Scan : WF_vars(ScanStep(s))

=============================================================================
