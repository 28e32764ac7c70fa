----------------------- MODULE DirectiveLeasesProofs -----------------------
(***************************************************************************)
(* What audit mode promises about the files of its user, for any number of *)
(* roots, files, scans, edits, kills and failures.                         *)
(***************************************************************************)
EXTENDS DirectiveLeasesProperties, FiniteSetTheorems, TLAPS

ScanRecord ==
  [state : States, root : Root, include : SUBSET File, recoverOnly : BOOLEAN,
   blockers : SUBSET Scan, found : SUBSET File, leased : SUBSET File, blocked : SUBSET File]

Shapes ==
  /\ disk \in [File -> Version \cup {Torn}]
  /\ wanted \in [File -> Version]
  /\ backup \in [Root -> [File -> Version \cup {Torn, None}]]
  /\ lease \in [File -> Lease \cup {None}]
  /\ scan \in [Scan -> ScanRecord]
  /\ handler \in Handler \cup {None}

\* Between the two file operations on a file, the original content is in the
\* backup, and the file is as the first operation found or left it.
HandlerInv ==
  handler # None /\ handler.step # "next" =>
    /\ handler.file \in File
    /\ lease[handler.file] = None
    /\ handler.original # None
    /\ backup[handler.root][handler.file] = handler.original
    /\ handler.kind = "lease" => /\ handler.step = "write"
                                 /\ handler.root = scan[handler.scan].root
                                 /\ handler.original \in Version
    /\ disk[handler.file] = IF handler.kind # "lease" /\ handler.step = "write"
                            THEN Neutral(handler.original) ELSE handler.original

\* The recovery has the files left that nobody leases and that have a backup.
RecoverInv ==
  handler # None /\ handler.kind = "recover" =>
    \A f \in handler.todo : lease[f] = None /\ backup[scan[handler.scan].root][f] # None

LeaseInv == \A f \in File : lease[f] # None => backup[lease[f].root][f] = lease[f].original

\* No version is newer than what the user saved last, and one that is as new is it.
NoneNewer ==
  \A f \in File :
    /\ disk[f].text <= wanted[f].text
    /\ disk[f].text = wanted[f].text => disk[f] \in {wanted[f], Neutral(wanted[f])}
    /\ \A r \in Root : backup[r][f] # None =>
         /\ backup[r][f].text <= wanted[f].text
         /\ backup[r][f].text = wanted[f].text => backup[r][f] = wanted[f]

ContentInv == Shapes /\ HandlerInv /\ RecoverInv /\ LeaseInv /\ NoneNewer /\ NothingIsLost

---------------------------------------------------------------------------
\* The files are the same; the handler is between two files, or has gone.
LEMMA QuietFiles ==
  ASSUME ContentInv, UNCHANGED <<disk, backup, wanted>>,
         scan' \in [Scan -> ScanRecord], handler' \in Handler \cup {None},
         lease' \in [File -> Lease \cup {None}],
         \A f \in File : lease'[f] # None =>
           lease[f] # None /\ lease'[f].root = lease[f].root /\ lease'[f].original = lease[f].original,
         handler' # None => handler'.step = "next",
         RecoverInv'
  PROVE  ContentInv'
BY DEF ContentInv, Shapes, HandlerInv, LeaseInv, NoneNewer, NothingIsLost

\* Hiding the directives changes nothing else of a version.
LEMMA NeutralVersion ==
  ASSUME NEW c \in Version \cup {Torn}
  PROVE  /\ c \in Version => Neutral(c) \in Version
         /\ Neutral(c).text = c.text
         /\ Neutral(c).neutral = TRUE
         /\ c.text \in Int
<1>1. CASE c \in Version
  <2>1. Neutral(c) \in Version /\ Neutral(c).text = c.text /\ Neutral(c).neutral = TRUE
    BY <1>1 DEF Version, Neutral
  <2>2. c.text \in Int
    BY <1>1, LeasesAssumption DEF Version
  <2> QED
    BY <2>1, <2>2
<1>2. CASE c = Torn
  BY <1>2, LeasesAssumption DEF Version, Neutral, Torn
<1> QED
  BY <1>1, <1>2

\* What the handler knows of the file it has in hand.
LEMMA HandlerShape ==
  ASSUME Shapes, handler # None
  PROVE  /\ handler \in Handler
         /\ handler.kind \in {"recover", "lease", "restore"} /\ handler.scan \in Scan
         /\ handler.todo \subseteq File /\ handler.root \in Root
         /\ scan[handler.scan] \in ScanRecord /\ scan[handler.scan].root \in Root
         /\ handler.step \in {"next", "write", "remove"}
         /\ handler.original \in Version \cup {Torn, None}
BY DEF Shapes, Handler, ScanRecord

\* The handler after it has left a file alone, or taken one in hand.
LEMMA HandlerMoves ==
  ASSUME handler \in Handler
  PROVE  /\ \A f \in File :
              /\ Pass(f) \in Handler /\ Pass(f) # None
              /\ Pass(f).kind = handler.kind /\ Pass(f).scan = handler.scan
              /\ Pass(f).todo = handler.todo \ {f} /\ Pass(f).step = "next"
         /\ \A step \in {"write", "remove"}, f \in File, r \in Root, c \in Version \cup {Torn, None} :
              /\ Go(step, f, r, c) \in Handler /\ Go(step, f, r, c) # None
              /\ Go(step, f, r, c).kind = handler.kind /\ Go(step, f, r, c).scan = handler.scan
              /\ Go(step, f, r, c).todo = handler.todo /\ Go(step, f, r, c).step = step
              /\ Go(step, f, r, c).file = f /\ Go(step, f, r, c).root = r
              /\ Go(step, f, r, c).original = c
<1>1. None \notin Handler
  BY NoneAssumption
<1>2. ASSUME NEW f \in File
      PROVE  /\ Pass(f) \in Handler
             /\ Pass(f).kind = handler.kind /\ Pass(f).scan = handler.scan
             /\ Pass(f).todo = handler.todo \ {f} /\ Pass(f).step = "next"
  BY DEF Pass, Handler
<1>3. ASSUME NEW step \in {"write", "remove"}, NEW f \in File, NEW r \in Root, NEW c \in Version \cup {Torn, None}
      PROVE  /\ Go(step, f, r, c) \in Handler
             /\ Go(step, f, r, c).kind = handler.kind /\ Go(step, f, r, c).scan = handler.scan
             /\ Go(step, f, r, c).todo = handler.todo /\ Go(step, f, r, c).step = step
             /\ Go(step, f, r, c).file = f /\ Go(step, f, r, c).root = r
             /\ Go(step, f, r, c).original = c
  BY DEF Go, Handler
<1> QED
  BY <1>1, <1>2, <1>3

\* A file that cannot be handled is noted in the scan, which is otherwise the same.
LEMMA Blocked ==
  ASSUME Shapes, handler # None, NEW f \in File, Block(f) \/ UNCHANGED scan
  PROVE  /\ scan' \in [Scan -> ScanRecord]
         /\ \A s \in Scan : /\ scan'[s].root = scan[s].root /\ scan'[s].leased = scan[s].leased
                            /\ scan'[s].state = scan[s].state
<1>1. CASE UNCHANGED scan
  BY <1>1 DEF Shapes
<1>2. CASE Block(f)
  <2> DEFINE s == handler.scan
             blocked == [scan[s] EXCEPT !.blocked = @ \cup {f}]
  <2>1. s \in Scan /\ scan[s] \in ScanRecord /\ scan \in [Scan -> ScanRecord]
    BY HandlerShape DEF Shapes
  <2>2. /\ blocked \in ScanRecord /\ blocked.root = scan[s].root
        /\ blocked.leased = scan[s].leased /\ blocked.state = scan[s].state
    BY <2>1 DEF ScanRecord
  <2>3. scan' = [scan EXCEPT ![s] = blocked]
    BY <1>2 DEF Block
  <2> HIDE DEF blocked, s
  <2> QED
    BY <2>1, <2>2, <2>3
<1> QED
  BY <1>1, <1>2

---------------------------------------------------------------------------
(* The operations on files *)

\* Recovery reads a backup and decides: it writes it back, deletes it, or keeps it
\* because the user has changed the file since.
LEMMA RecoverFileSafe ==
  ASSUME ContentInv, RecoverFile
  PROVE  ContentInv'
<1> USE DEF ContentInv
<1>1. /\ handler # None /\ handler.kind = "recover" /\ handler.step = "next"
      /\ UNCHANGED <<disk, backup, lease, wanted>>
  BY DEF RecoverFile, At, history
<1> DEFINE r == scan[handler.scan].root
<1>2. PICK f \in handler.todo :
        \/ disk[f] = backup[r][f] /\ handler' = Go("remove", f, r, backup[r][f]) /\ UNCHANGED scan
        \/ disk[f] = Neutral(backup[r][f]) /\ handler' = Go("write", f, r, backup[r][f]) /\ UNCHANGED scan
        \/ handler' = Pass(f) /\ Block(f)
  BY DEF RecoverFile, IsRewritten
<1>3. /\ handler \in Handler /\ handler.scan \in Scan /\ handler.todo \subseteq File /\ r \in Root
      /\ scan[handler.scan] \in ScanRecord
  BY <1>1, HandlerShape
<1>4. f \in File /\ lease[f] = None /\ backup[r][f] # None /\ backup[r][f] \in Version \cup {Torn, None}
  BY <1>1, <1>2, <1>3 DEF RecoverInv, Shapes
<1>5. scan' \in [Scan -> ScanRecord] /\ \A s \in Scan : scan'[s].root = scan[s].root
  BY <1>1, <1>2, <1>4, Blocked
<1>6. scan'[handler.scan].root = r
  BY <1>3, <1>5
<1>7. CASE handler' = Pass(f)
  <2>1. handler' \in Handler /\ handler'.step = "next" /\ handler'.kind = "recover"
        /\ handler'.todo = handler.todo \ {f} /\ handler'.scan = handler.scan
    BY <1>1, <1>3, <1>4, <1>7, HandlerMoves
  <2>2. RecoverInv'
    BY <1>1, <1>6, <2>1 DEF RecoverInv
  <2> QED
    BY <1>1, <1>5, <2>1, <2>2, QuietFiles DEF Shapes
<1>8. CASE \E step \in {"remove", "write"} : handler' = Go(step, f, r, backup[r][f])
  <2>1. PICK step \in {"remove", "write"} :
             /\ handler' = Go(step, f, r, backup[r][f])
             /\ disk[f] = IF step = "write" THEN Neutral(backup[r][f]) ELSE backup[r][f]
    <3>1. \A x \in {"remove", "write"} : handler' = Go(x, f, r, backup[r][f]) => handler'.step = x
      BY <1>3, <1>4, HandlerMoves
    <3>2. Pass(f).step = "next"
      BY <1>3, <1>4, HandlerMoves
    <3> QED
      BY <1>2, <1>8, <3>1, <3>2
  <2>2. /\ handler' \in Handler /\ handler'.kind = "recover" /\ handler'.scan = handler.scan
        /\ handler'.todo = handler.todo /\ handler'.step = step /\ handler'.file = f
        /\ handler'.root = r /\ handler'.original = backup[r][f]
    BY <1>1, <1>3, <1>4, <2>1, HandlerMoves
  <2>3. Shapes'
    BY <1>1, <1>5, <2>2 DEF Shapes
  <2>4. HandlerInv'
    BY <1>1, <1>4, <2>1, <2>2 DEF HandlerInv
  <2>5. RecoverInv'
    BY <1>1, <1>6, <2>2 DEF RecoverInv
  <2>6. LeaseInv' /\ NoneNewer' /\ NothingIsLost'
    BY <1>1 DEF LeaseInv, NoneNewer, NothingIsLost
  <2> QED
    BY <2>3, <2>4, <2>5, <2>6
<1> QED
  BY <1>2, <1>7, <1>8

\* What is written back over the rewritten form of a backup is as new as what the
\* user saved last, or the file did not hold that.
LEMMA WriteBackSafe ==
  ASSUME ContentInv, WriteBack
  PROVE  ContentInv'
<1> USE DEF ContentInv
<1> DEFINE f == handler.file
           r == handler.root
           o == handler.original
<1>1. /\ handler # None /\ handler.kind \in {"recover", "restore"} /\ handler.step = "write"
      /\ UNCHANGED <<backup, lease, wanted>>
  BY DEF WriteBack, At, history, Fails
<1>2. /\ f \in File /\ lease[f] = None /\ o # None /\ backup[r][f] = o /\ disk[f] = Neutral(o)
  BY <1>1 DEF HandlerInv
<1>3. /\ handler \in Handler /\ handler.scan \in Scan /\ handler.todo \subseteq File /\ r \in Root
      /\ scan[handler.scan] \in ScanRecord /\ o \in Version \cup {Torn}
  BY <1>1, <1>2, HandlerShape
<1>4. \/ /\ disk' = [disk EXCEPT ![f] = o]
         /\ handler' = [handler EXCEPT !.step = "remove"]
         /\ UNCHANGED scan
      \/ /\ \E c \in {disk[f], Torn} : disk' = [disk EXCEPT ![f] = c]
         /\ handler' = Pass(f)
         /\ Block(f) \/ UNCHANGED scan
  BY DEF WriteBack
<1>5. /\ Neutral(o).text = o.text /\ o.text \in Int /\ disk[f].text = o.text
      /\ wanted[f] \in Version /\ wanted[f].text \in Int
      /\ Torn.text \in Int /\ Torn.text < wanted[f].text /\ Torn # wanted[f]
  <2>1. Neutral(o).text = o.text /\ o.text \in Int
    BY <1>3, NeutralVersion
  <2>2. wanted[f] \in Version
    BY <1>2 DEF Shapes
  <2>3. wanted[f].text \in Nat
    BY <2>2, LeasesAssumption DEF Version
  <2>4. Torn.text = 0 - 1
    BY DEF Torn
  <2> QED
    BY <1>2, <2>1, <2>2, <2>3, <2>4
<1>6. o.text <= wanted[f].text /\ (o.text = wanted[f].text => o = wanted[f])
  BY <1>2, <1>3 DEF NoneNewer
<1>7. \A c \in {o, disk[f], Torn} : disk' = [disk EXCEPT ![f] = c] => NoneNewer' /\ NothingIsLost'
  <2> SUFFICES ASSUME NEW c \in {o, disk[f], Torn}, disk' = [disk EXCEPT ![f] = c]
               PROVE  NoneNewer' /\ NothingIsLost'
    OBVIOUS
  <2>1. \A g \in File \ {f} : disk'[g] = disk[g]
    BY DEF Shapes
  <2>2. disk'[f] = c
    BY <1>2 DEF Shapes
  <2>3. NoneNewer'
    BY <1>1, <1>2, <1>5, <1>6, <2>1, <2>2 DEF NoneNewer
  <2>4. disk[f] = wanted[f] => o = wanted[f]
    BY <1>5, <1>6
  <2>5. NothingIsLost'
    BY <1>1, <1>2, <1>3, <2>1, <2>2, <2>4 DEF NothingIsLost
  <2> QED
    BY <2>3, <2>5
<1>8. scan' \in [Scan -> ScanRecord] /\ \A s \in Scan : scan'[s].root = scan[s].root
  BY <1>1, <1>2, <1>4, Blocked
<1>9. CASE disk' = [disk EXCEPT ![f] = o] /\ handler' = [handler EXCEPT !.step = "remove"]
  <2>1. /\ handler' \in Handler /\ handler'.kind = handler.kind /\ handler'.scan = handler.scan
        /\ handler'.todo = handler.todo /\ handler'.step = "remove" /\ handler'.file = f
        /\ handler'.root = r /\ handler'.original = o
    BY <1>3, <1>9 DEF Handler
  <2>2. Shapes'
    BY <1>1, <1>3, <1>8, <1>9, <2>1 DEF Shapes
  <2>3. HandlerInv'
    BY <1>1, <1>2, <1>9, <2>1 DEF HandlerInv, Shapes
  <2>4. RecoverInv'
    BY <1>1, <1>3, <1>8, <2>1 DEF RecoverInv
  <2> QED
    BY <1>1, <1>7, <1>9, <2>2, <2>3, <2>4 DEF LeaseInv
<1>10. CASE (\E c \in {disk[f], Torn} : disk' = [disk EXCEPT ![f] = c]) /\ handler' = Pass(f)
  <2>1. handler' \in Handler /\ handler'.step = "next" /\ handler'.kind = handler.kind
        /\ handler'.todo = handler.todo \ {f} /\ handler'.scan = handler.scan
    BY <1>2, <1>3, <1>10, HandlerMoves
  <2>2. disk[f] \in Version \cup {Torn}
    BY <1>2 DEF Shapes
  <2>3. Shapes'
    BY <1>1, <1>8, <1>10, <2>1, <2>2 DEF Shapes
  <2>4. HandlerInv'
    BY <2>1 DEF HandlerInv
  <2>5. RecoverInv'
    BY <1>1, <1>3, <1>8, <2>1 DEF RecoverInv
  <2> QED
    BY <1>1, <1>7, <1>10, <2>3, <2>4, <2>5 DEF LeaseInv
<1> QED
  BY <1>4, <1>9, <1>10

\* A backup is deleted when the file holds what is in it.
LEMMA RemoveBackupSafe ==
  ASSUME ContentInv, RemoveBackup
  PROVE  ContentInv'
<1> USE DEF ContentInv
<1> DEFINE f == handler.file
           r == handler.root
<1>1. /\ handler # None /\ handler.kind \in {"recover", "restore"} /\ handler.step = "remove"
      /\ UNCHANGED <<disk, lease, wanted>> /\ handler' = Pass(f)
  BY DEF RemoveBackup, At, history, Fails
<1>2. f \in File /\ lease[f] = None /\ backup[r][f] = disk[f]
  BY <1>1 DEF HandlerInv
<1>3. /\ handler \in Handler /\ handler.scan \in Scan /\ handler.todo \subseteq File /\ r \in Root
      /\ scan[handler.scan] \in ScanRecord
  BY <1>1, HandlerShape
<1>4. /\ backup' = [backup EXCEPT ![r][f] = None] \/ UNCHANGED backup
      /\ Block(f) \/ UNCHANGED scan
  BY DEF RemoveBackup
<1>5. scan' \in [Scan -> ScanRecord] /\ \A s \in Scan : scan'[s].root = scan[s].root
  BY <1>1, <1>2, <1>4, Blocked
<1>6. handler' \in Handler /\ handler'.step = "next" /\ handler'.kind = handler.kind
      /\ handler'.todo = handler.todo \ {f} /\ handler'.scan = handler.scan
  BY <1>1, <1>2, <1>3, HandlerMoves
<1>7. /\ backup' \in [Root -> [File -> Version \cup {Torn, None}]]
      /\ \A q \in Root, g \in File :
           backup'[q][g] = backup[q][g] \/ (q = r /\ g = f /\ backup'[q][g] = None)
  BY <1>2, <1>3, <1>4 DEF Shapes
<1>8. Shapes'
  BY <1>1, <1>5, <1>6, <1>7 DEF Shapes
<1>9. HandlerInv'
  BY <1>6 DEF HandlerInv
<1>10. RecoverInv'
  <2> SUFFICES ASSUME handler'.kind = "recover", NEW g \in handler'.todo
               PROVE  lease'[g] = None /\ backup'[scan'[handler'.scan].root][g] # None
    BY DEF RecoverInv
  <2>1. g # f /\ g \in handler.todo /\ g \in File /\ scan'[handler'.scan].root = scan[handler.scan].root
        /\ scan[handler.scan].root \in Root
    BY <1>3, <1>5, <1>6, HandlerShape, <1>1
  <2> QED
    BY <1>1, <1>6, <1>7, <2>1 DEF RecoverInv
<1>11. LeaseInv'
  <2> SUFFICES ASSUME NEW g \in File, lease'[g] # None
               PROVE  backup'[lease'[g].root][g] = lease'[g].original
    BY DEF LeaseInv
  <2>1. g # f /\ lease[g] \in Lease
    BY <1>1, <1>2 DEF Shapes
  <2>2. lease[g].root \in Root
    BY <2>1 DEF Lease
  <2> QED
    BY <1>1, <1>7, <2>1, <2>2 DEF LeaseInv
<1>12. NoneNewer'
  BY <1>1, <1>7 DEF NoneNewer
<1>13. NothingIsLost'
  BY <1>1, <1>2, <1>7 DEF NothingIsLost
<1> QED
  BY <1>8, <1>9, <1>10, <1>11, <1>12, <1>13

\* The backup is written first, from a file that still has its directives.
LEMMA LeaseFileSafe ==
  ASSUME ContentInv, LeaseFile
  PROVE  ContentInv'
<1> USE DEF ContentInv
<1>1. /\ handler # None /\ handler.kind = "lease" /\ handler.step = "next"
      /\ UNCHANGED <<disk, wanted>>
  BY DEF LeaseFile, At, history, Fails
<1> DEFINE s == handler.scan
           r == scan[s].root
<1>2. /\ handler \in Handler /\ s \in Scan /\ handler.todo \subseteq File /\ r \in Root
      /\ scan[s] \in ScanRecord /\ scan \in [Scan -> ScanRecord]
  BY <1>1, HandlerShape DEF Shapes
<1>3. PICK f \in handler.todo :
        \/ /\ lease[f] # None
           /\ lease' = CountUp({f})
           /\ scan' = [scan EXCEPT ![s].leased = @ \cup {f}]
           /\ handler' = Pass(f) /\ UNCHANGED backup
        \/ handler' = Pass(f) /\ UNCHANGED <<backup, lease, scan>>
        \/ /\ lease[f] = None /\ ~disk[f].neutral /\ backup[r][f] = None
           /\ backup' = [backup EXCEPT ![r][f] = disk[f]]
           /\ handler' = Go("write", f, r, disk[f]) /\ UNCHANGED <<lease, scan>>
        \/ /\ lease[f] = None /\ backup[r][f] = None
           /\ \E b \in {None, Torn} : backup' = [backup EXCEPT ![r][f] = b]
           /\ handler' = Pass(f) /\ UNCHANGED <<lease, scan>>
  BY DEF LeaseFile
<1>4. f \in File /\ wanted[f] \in Version /\ disk[f] \in Version \cup {Torn}
  BY <1>2, <1>3 DEF Shapes
<1>5. /\ Pass(f) \in Handler /\ Pass(f).step = "next" /\ Pass(f).kind = "lease"
  BY <1>1, <1>2, <1>4, HandlerMoves
<1>6. CASE UNCHANGED <<backup, lease, scan>> /\ handler' = Pass(f)
  BY <1>1, <1>5, <1>6, QuietFiles DEF RecoverInv, Shapes
<1>7. CASE /\ lease[f] # None
           /\ lease' = CountUp({f})
           /\ scan' = [scan EXCEPT ![s].leased = @ \cup {f}]
           /\ handler' = Pass(f) /\ UNCHANGED backup
  <2> DEFINE l == [lease[f] EXCEPT !.count = @ + 1]
             v == [scan[s] EXCEPT !.leased = @ \cup {f}]
  <2>1. l \in Lease /\ l.root = lease[f].root /\ l.original = lease[f].original
    BY <1>4, <1>7 DEF Shapes, Lease
  <2>2. v \in ScanRecord
    BY <1>2, <1>4 DEF ScanRecord
  <2>3. \A g \in File : lease'[g] = IF g = f THEN l ELSE lease[g]
    BY <1>7 DEF CountUp
  <2>4. lease' \in [File -> Lease \cup {None}]
    BY <1>7, <2>1 DEF CountUp, Shapes
  <2>5. scan' \in [Scan -> ScanRecord]
    BY <1>2, <1>7, <2>2
  <2>6. \A g \in File : lease'[g] # None =>
           lease[g] # None /\ lease'[g].root = lease[g].root /\ lease'[g].original = lease[g].original
    BY <1>4, <1>7, <2>1, <2>3
  <2> QED
    BY <1>1, <1>5, <1>7, <2>4, <2>5, <2>6, QuietFiles DEF RecoverInv
<1>8. ASSUME NEW b \in Version \cup {Torn, None}, backup[r][f] = None, lease[f] = None,
             backup' = [backup EXCEPT ![r][f] = b],
             b # None => b.text <= wanted[f].text /\ (b.text = wanted[f].text => b = wanted[f]),
             UNCHANGED <<lease, scan>>
      PROVE  /\ backup' \in [Root -> [File -> Version \cup {Torn, None}]]
             /\ backup'[r][f] = b
             /\ LeaseInv' /\ NoneNewer' /\ NothingIsLost'
  <2>1. /\ backup' \in [Root -> [File -> Version \cup {Torn, None}]]
        /\ backup'[r][f] = b
        /\ \A q \in Root, g \in File : backup'[q][g] = IF q = r /\ g = f THEN b ELSE backup[q][g]
    BY <1>2, <1>4, <1>8 DEF Shapes
  <2>2. \A g \in File : lease[g] # None => lease[g].root \in Root
    BY DEF Shapes, Lease
  <2>3. LeaseInv'
    BY <1>8, <2>1, <2>2 DEF LeaseInv
  <2>4. NoneNewer'
    BY <1>1, <1>8, <2>1 DEF NoneNewer
  <2>5. None \notin Version
    BY NoneAssumption
  <2>6. wanted[f] # None
    BY <1>4, <2>5
  <2>7. NothingIsLost'
    BY <1>1, <1>8, <2>1, <2>6 DEF NothingIsLost
  <2> QED
    BY <2>1, <2>3, <2>4, <2>7
<1>9. CASE /\ lease[f] = None /\ ~disk[f].neutral /\ backup[r][f] = None
           /\ backup' = [backup EXCEPT ![r][f] = disk[f]]
           /\ handler' = Go("write", f, r, disk[f]) /\ UNCHANGED <<lease, scan>>
  <2>1. disk[f] \in Version
    BY <1>4, <1>9 DEF Torn
  <2>2. disk[f] # Neutral(wanted[f])
    BY <1>4, <1>9, NeutralVersion
  <2>3. disk[f].text <= wanted[f].text /\ (disk[f].text = wanted[f].text => disk[f] = wanted[f])
    BY <1>4, <2>2 DEF NoneNewer
  <2>4. /\ backup' \in [Root -> [File -> Version \cup {Torn, None}]]
        /\ backup'[r][f] = disk[f]
        /\ LeaseInv' /\ NoneNewer' /\ NothingIsLost'
    BY <1>8, <1>9, <2>1, <2>3
  <2>5. /\ handler' \in Handler /\ handler'.kind = "lease" /\ handler'.scan = s
        /\ handler'.todo = handler.todo /\ handler'.step = "write" /\ handler'.file = f
        /\ handler'.root = r /\ handler'.original = disk[f]
    BY <1>1, <1>2, <1>4, <1>9, HandlerMoves
  <2>6. Shapes'
    BY <1>1, <1>9, <2>4, <2>5 DEF Shapes
  <2>7. None \notin Version
    BY NoneAssumption
  <2>8. HandlerInv'
    BY <1>1, <1>4, <1>9, <2>1, <2>4, <2>5, <2>7 DEF HandlerInv
  <2>9. RecoverInv'
    BY <2>5 DEF RecoverInv
  <2> QED
    BY <2>4, <2>6, <2>8, <2>9
<1>10. CASE /\ lease[f] = None /\ backup[r][f] = None
            /\ \E b \in {None, Torn} : backup' = [backup EXCEPT ![r][f] = b]
            /\ handler' = Pass(f) /\ UNCHANGED <<lease, scan>>
  <2>1. PICK b \in {None, Torn} : backup' = [backup EXCEPT ![r][f] = b]
    BY <1>10
  <2>2. Torn.text < wanted[f].text /\ Torn.text \in Int /\ wanted[f].text \in Int
    BY <1>4, LeasesAssumption DEF Torn, Version
  <2>6. b \in Version \cup {Torn, None}
        /\ (b # None => b.text <= wanted[f].text /\ (b.text = wanted[f].text => b = wanted[f]))
    BY <2>1, <2>2
  <2>3. /\ backup' \in [Root -> [File -> Version \cup {Torn, None}]]
        /\ LeaseInv' /\ NoneNewer' /\ NothingIsLost'
    BY <1>8, <1>10, <2>1, <2>6
  <2>4. Shapes'
    BY <1>1, <1>5, <1>10, <2>3 DEF Shapes
  <2>5. HandlerInv' /\ RecoverInv'
    BY <1>5, <1>10 DEF HandlerInv, RecoverInv
  <2> QED
    BY <2>3, <2>4, <2>5
<1> QED
  BY <1>3, <1>6, <1>7, <1>9, <1>10

\* The directives are hidden while the backup holds the file as it was.
LEMMA LeaseWriteSafe ==
  ASSUME ContentInv, LeaseWrite
  PROVE  ContentInv'
<1> USE DEF ContentInv
<1> DEFINE f == handler.file
           s == handler.scan
           r == handler.root
           o == handler.original
<1>1. /\ handler # None /\ handler.kind = "lease" /\ handler.step = "write"
      /\ UNCHANGED <<backup, wanted>>
  BY DEF LeaseWrite, At, history, Fails
<1>2. /\ f \in File /\ lease[f] = None /\ o \in Version /\ backup[r][f] = o /\ disk[f] = o
      /\ r = scan[s].root
  BY <1>1 DEF HandlerInv
<1>3. /\ handler \in Handler /\ s \in Scan /\ handler.todo \subseteq File /\ r \in Root
      /\ scan[s] \in ScanRecord /\ scan \in [Scan -> ScanRecord] /\ scan[s].leased \subseteq File
  BY <1>1, HandlerShape DEF Shapes, ScanRecord
<1>4. \/ /\ disk' = [disk EXCEPT ![f] = Neutral(@)]
         /\ lease' = [lease EXCEPT ![f] = [root |-> r, original |-> o, count |-> 1]]
         /\ scan' = [scan EXCEPT ![s].leased = @ \cup {f}]
         /\ handler' = Pass(f)
      \/ /\ \E c \in {disk[f], Torn} : disk' = [disk EXCEPT ![f] = c]
         /\ Run("restore", s, scan[s].leased)
         /\ UNCHANGED <<lease, scan>>
  BY DEF LeaseWrite
<1>5. /\ wanted[f] \in Version /\ wanted[f].text \in Nat /\ Torn.text = 0 - 1
      /\ Neutral(o) \in Version /\ Neutral(o).text = o.text
      /\ o # None
  <2>1. wanted[f] \in Version /\ None \notin Version
    BY <1>2, NoneAssumption DEF Shapes
  <2>2. wanted[f].text \in Nat
    BY <2>1, LeasesAssumption DEF Version
  <2>3. Torn.text = 0 - 1
    BY DEF Torn
  <2> QED
    BY <1>2, <2>1, <2>2, <2>3, NeutralVersion
<1>6. o.text <= wanted[f].text /\ (o.text = wanted[f].text => o = wanted[f])
  BY <1>2, <1>3, <1>5 DEF NoneNewer
<1>7. \A c \in {Neutral(o), o, Torn} : disk' = [disk EXCEPT ![f] = c] =>
         disk' \in [File -> Version \cup {Torn}] /\ NoneNewer' /\ NothingIsLost'
  <2> SUFFICES ASSUME NEW c \in {Neutral(o), o, Torn}, disk' = [disk EXCEPT ![f] = c]
               PROVE  disk' \in [File -> Version \cup {Torn}] /\ NoneNewer' /\ NothingIsLost'
    OBVIOUS
  <2>1. \A g \in File \ {f} : disk'[g] = disk[g]
    BY DEF Shapes
  <2>2. disk'[f] = c
    BY <1>2 DEF Shapes
  <2>3. disk' \in [File -> Version \cup {Torn}]
    BY <1>2, <1>5 DEF Shapes
  <2>4. NoneNewer'
    BY <1>1, <1>2, <1>5, <1>6, <2>1, <2>2 DEF NoneNewer
  <2>5. NothingIsLost'
    BY <1>1, <1>2, <1>3, <2>1, <2>2 DEF NothingIsLost
  <2> QED
    BY <2>3, <2>4, <2>5
<1>8. CASE /\ disk' = [disk EXCEPT ![f] = Neutral(@)]
           /\ lease' = [lease EXCEPT ![f] = [root |-> r, original |-> o, count |-> 1]]
           /\ scan' = [scan EXCEPT ![s].leased = @ \cup {f}]
           /\ handler' = Pass(f)
  <2> DEFINE l == [root |-> r, original |-> o, count |-> 1]
             v == [scan[s] EXCEPT !.leased = @ \cup {f}]
  <2>1. l \in Lease /\ l.root = r /\ l.original = o
    BY <1>2, <1>3 DEF Lease
  <2>2. v \in ScanRecord
    BY <1>2, <1>3 DEF ScanRecord
  <2>3. handler' \in Handler /\ handler'.step = "next" /\ handler'.kind = "lease"
    BY <1>1, <1>2, <1>3, <1>8, HandlerMoves
  <2>4. disk' = [disk EXCEPT ![f] = Neutral(o)]
    BY <1>2, <1>8
  <2>5. lease' = [lease EXCEPT ![f] = l] /\ scan' = [scan EXCEPT ![s] = v]
    BY <1>8
  <2> HIDE DEF l, v
  <2>6. Shapes'
    BY <1>1, <1>3, <1>7, <2>1, <2>2, <2>3, <2>4, <2>5 DEF Shapes
  <2>7. HandlerInv' /\ RecoverInv'
    BY <2>3 DEF HandlerInv, RecoverInv
  <2>8. LeaseInv'
    BY <1>1, <1>2, <2>1, <2>5 DEF LeaseInv, Shapes
  <2> QED
    BY <1>7, <2>4, <2>6, <2>7, <2>8
<1>9. CASE /\ \E c \in {disk[f], Torn} : disk' = [disk EXCEPT ![f] = c]
           /\ Run("restore", s, scan[s].leased)
           /\ UNCHANGED <<lease, scan>>
  <2>1. handler' \in Handler /\ handler'.step = "next" /\ handler'.kind = "restore"
    BY <1>2, <1>3, <1>9 DEF Run, Handler
  <2>2. disk' \in [File -> Version \cup {Torn}] /\ NoneNewer' /\ NothingIsLost'
    BY <1>2, <1>7, <1>9
  <2>3. Shapes'
    BY <1>1, <1>9, <2>1, <2>2 DEF Shapes
  <2>4. HandlerInv' /\ RecoverInv' /\ LeaseInv'
    BY <1>1, <1>9, <2>1 DEF HandlerInv, RecoverInv, LeaseInv
  <2> QED
    BY <2>2, <2>3, <2>4
<1> QED
  BY <1>4, <1>8, <1>9

\* The last scan that needs a file writes it back, unless the user has changed it;
\* the others only give their lease up.
LEMMA RestoreFileSafe ==
  ASSUME ContentInv, RestoreFile
  PROVE  ContentInv'
<1> USE DEF ContentInv
<1>1. /\ handler # None /\ handler.kind = "restore" /\ handler.step = "next"
      /\ UNCHANGED <<disk, backup, scan, wanted>>
  BY DEF RestoreFile, At, history
<1>2. handler \in Handler /\ handler.todo \subseteq File
  BY <1>1, HandlerShape
<1>3. PICK f \in handler.todo :
        \/ handler' = Pass(f) /\ UNCHANGED lease
        \/ /\ lease[f] # None /\ ~IsLastUse(f)
           /\ handler' = Pass(f)
           /\ lease' = [lease EXCEPT ![f].count = @ - 1]
        \/ /\ lease[f] # None
           /\ handler' = IF IsRewritten(disk[f], lease[f].original)
                         THEN Go("write", f, lease[f].root, lease[f].original)
                         ELSE IF disk[f] = lease[f].original
                              THEN Go("remove", f, lease[f].root, lease[f].original) ELSE Pass(f)
           /\ lease' = [lease EXCEPT ![f] = None]
  BY DEF RestoreFile
<1>4. f \in File /\ Pass(f) \in Handler /\ Pass(f).step = "next" /\ Pass(f).kind = "restore"
  BY <1>1, <1>2, HandlerMoves
<1>5. CASE handler' = Pass(f) /\ UNCHANGED lease
  BY <1>1, <1>4, <1>5, QuietFiles DEF RecoverInv, Shapes
<1>6. CASE /\ lease[f] # None /\ ~IsLastUse(f)
           /\ handler' = Pass(f)
           /\ lease' = [lease EXCEPT ![f].count = @ - 1]
  <2> DEFINE l == [lease[f] EXCEPT !.count = @ - 1]
  <2>1. l \in Lease /\ l.root = lease[f].root /\ l.original = lease[f].original
    <3>1. lease[f] \in Lease
      BY <1>4, <1>6 DEF Shapes
    <3>2. lease[f].count \in Nat \ {0} /\ lease[f].count # 1
      BY <1>6, <3>1 DEF Lease, IsLastUse
    <3> QED
      BY <3>1, <3>2 DEF Lease
  <2>2. lease' = [lease EXCEPT ![f] = l]
    BY <1>6
  <2> HIDE DEF l
  <2>3. /\ lease' \in [File -> Lease \cup {None}]
        /\ \A g \in File : lease'[g] # None =>
             lease[g] # None /\ lease'[g].root = lease[g].root /\ lease'[g].original = lease[g].original
    BY <1>4, <1>6, <2>1, <2>2 DEF Shapes
  <2> QED
    BY <1>1, <1>4, <1>6, <2>3, QuietFiles DEF RecoverInv, Shapes
<1>7. CASE /\ lease[f] # None
           /\ handler' = IF IsRewritten(disk[f], lease[f].original)
                         THEN Go("write", f, lease[f].root, lease[f].original)
                         ELSE IF disk[f] = lease[f].original
                              THEN Go("remove", f, lease[f].root, lease[f].original) ELSE Pass(f)
           /\ lease' = [lease EXCEPT ![f] = None]
  <2>1. lease[f] \in Lease
    BY <1>4, <1>7 DEF Shapes
  <2>2. lease[f].root \in Root /\ lease[f].original \in Version /\ lease[f].original # None
    BY <2>1, NoneAssumption DEF Lease
  <2>3. /\ lease' \in [File -> Lease \cup {None}] /\ lease'[f] = None
        /\ \A g \in File : lease'[g] # None => lease'[g] = lease[g]
    BY <1>4, <1>7 DEF Shapes
  <2>4. CASE handler' = Pass(f)
    BY <1>1, <1>4, <2>3, <2>4, QuietFiles DEF RecoverInv, Shapes
  <2>5. ASSUME NEW step \in {"write", "remove"},
               handler' = Go(step, f, lease[f].root, lease[f].original),
               disk[f] = IF step = "write" THEN Neutral(lease[f].original) ELSE lease[f].original
        PROVE  ContentInv'
    <3>1. /\ handler' \in Handler /\ handler'.kind = "restore" /\ handler'.step = step
          /\ handler'.file = f /\ handler'.root = lease[f].root /\ handler'.original = lease[f].original
      BY <1>1, <1>2, <1>4, <2>2, <2>5, HandlerMoves
    <3>2. Shapes'
      BY <1>1, <2>3, <3>1 DEF Shapes
    <3>3. HandlerInv'
      BY <1>1, <1>4, <1>7, <2>2, <2>3, <2>5, <3>1 DEF HandlerInv, LeaseInv
    <3>4. RecoverInv'
      BY <3>1 DEF RecoverInv
    <3>5. LeaseInv' /\ NoneNewer' /\ NothingIsLost'
      BY <1>1, <2>3 DEF LeaseInv, NoneNewer, NothingIsLost
    <3> QED
      BY <3>2, <3>3, <3>4, <3>5
  <2> QED
    BY <1>7, <2>4, <2>5 DEF IsRewritten
<1> QED
  BY <1>3, <1>5, <1>6, <1>7

---------------------------------------------------------------------------
(* Everything else *)

\* A new process starts with no lease and no handler, whatever the files hold.
LEMMA NewProcessSafe ==
  ASSUME Shapes, NewProcess
  PROVE  /\ lease' \in [File -> Lease \cup {None}] /\ \A f \in File : lease'[f] = None
         /\ scan' \in [Scan -> ScanRecord] /\ handler' = None
<1>1. ASSUME NEW s \in Scan
      PROVE  [scan[s] EXCEPT !.state = "ended", !.leased = {}] \in ScanRecord
  <2>1. scan[s] \in ScanRecord
    BY DEF Shapes
  <2> QED
    BY <2>1 DEF ScanRecord, States
<1> QED
  BY <1>1 DEF NewProcess, Shapes

\* A kill leaves what is on the disk; in the middle of a write it tears the file
\* or the backup, and the other one of the two still holds the content.
LEMMA KilledSafe ==
  ASSUME ContentInv, Killed
  PROVE  ContentInv'
<1> USE DEF ContentInv
<1>1. /\ lease' \in [File -> Lease \cup {None}] /\ \A f \in File : lease'[f] = None
      /\ scan' \in [Scan -> ScanRecord] /\ handler' = None /\ UNCHANGED wanted
  BY NewProcessSafe DEF Killed
<1>2. HandlerInv' /\ RecoverInv' /\ LeaseInv'
  BY <1>1 DEF HandlerInv, RecoverInv, LeaseInv
<1>3. CASE UNCHANGED <<disk, backup>>
  BY <1>1, <1>2, <1>3, QuietFiles
<1> DEFINE f == handler.file
           r == handler.root
           o == handler.original
<1>4. ASSUME handler # None, handler.step = "write"
      PROVE  /\ f \in File /\ r \in Root /\ backup[r][f] = o /\ o # None
             /\ o \in Version \cup {Torn}
             /\ disk[f] = wanted[f] => o = wanted[f]
             /\ Torn \in Version \cup {Torn, None} /\ Torn # None
             /\ Torn.text < wanted[f].text /\ Torn.text \in Int /\ wanted[f].text \in Int
  <2>1. f \in File /\ backup[r][f] = o /\ o # None /\ disk[f] \in {o, Neutral(o)}
    BY <1>4 DEF HandlerInv
  <2>2. r \in Root /\ o \in Version \cup {Torn}
    BY <1>4, <2>1, HandlerShape
  <2>3. wanted[f] \in Version
    BY <2>1 DEF Shapes
  <2>4. wanted[f].text \in Nat /\ Torn.text = 0 - 1 /\ Torn # None
    BY <2>3, LeasesAssumption, NoneAssumption DEF Version, Torn
  <2>5. disk[f].text = o.text
    BY <2>1, <2>2, NeutralVersion
  <2>6. disk[f] = wanted[f] => o = wanted[f]
    BY <2>1, <2>2, <2>5 DEF NoneNewer
  <2> QED
    BY <2>1, <2>2, <2>4, <2>6
<1>5. CASE handler # None /\ handler.step = "write" /\ disk' = [disk EXCEPT ![f] = Torn] /\ UNCHANGED backup
  <2>1. /\ disk' \in [File -> Version \cup {Torn}] /\ disk'[f] = Torn
        /\ \A g \in File \ {f} : disk'[g] = disk[g]
    BY <1>4, <1>5 DEF Shapes
  <2>2. Shapes'
    BY <1>1, <1>5, <2>1 DEF Shapes
  <2>3. NoneNewer'
    BY <1>1, <1>4, <1>5, <2>1 DEF NoneNewer
  <2>4. NothingIsLost'
    BY <1>1, <1>4, <1>5, <2>1 DEF NothingIsLost
  <2> QED
    BY <1>2, <2>2, <2>3, <2>4
<1>6. CASE /\ handler # None /\ handler.kind = "lease" /\ handler.step = "write"
           /\ backup' = [backup EXCEPT ![scan[handler.scan].root][f] = Torn] /\ UNCHANGED disk
  <2>1. r = scan[handler.scan].root /\ disk[f] = o
    BY <1>6 DEF HandlerInv
  <2>2. /\ backup' \in [Root -> [File -> Version \cup {Torn, None}]]
        /\ \A q \in Root, g \in File : backup'[q][g] = IF q = r /\ g = f THEN Torn ELSE backup[q][g]
    BY <1>4, <1>6, <2>1 DEF Shapes
  <2>3. Shapes'
    BY <1>1, <1>6, <2>2 DEF Shapes
  <2>4. NoneNewer'
    BY <1>1, <1>4, <1>6, <2>2 DEF NoneNewer
  <2>5. NothingIsLost'
    BY <1>1, <1>4, <1>6, <2>1, <2>2 DEF NothingIsLost
  <2> QED
    BY <1>2, <2>3, <2>4, <2>5
<1> QED
  BY <1>3, <1>5, <1>6 DEF Killed, At

\* What the user saves is newer than anything on disk or in a backup.
LEMMA EditSafe ==
  ASSUME ContentInv, NEW f \in File, Edit(f)
  PROVE  ContentInv'
<1> USE DEF ContentInv
<1>1. handler = None /\ wanted[f].text < MaxEdits /\ UNCHANGED <<backup, lease, scan, handler>>
  BY DEF Edit
<1>2. PICK neutral \in BOOLEAN :
        LET saved == [text |-> wanted[f].text + 1, neutral |-> neutral]
        IN  disk' = [disk EXCEPT ![f] = saved] /\ wanted' = [wanted EXCEPT ![f] = saved]
  BY DEF Edit
<1> DEFINE saved == [text |-> wanted[f].text + 1, neutral |-> neutral]
<1>3. wanted[f] \in Version /\ disk[f] \in Version \cup {Torn}
  BY DEF Shapes
<1>4. wanted[f].text \in 0 .. MaxEdits
  BY <1>3 DEF Version
<1>5. saved \in Version /\ saved.text = wanted[f].text + 1
  BY <1>1, <1>4, LeasesAssumption DEF Version
<1>6. disk' = [disk EXCEPT ![f] = saved] /\ wanted' = [wanted EXCEPT ![f] = saved]
  BY <1>2
<1> HIDE DEF saved
<1>7. \A g \in File : /\ disk'[g] = IF g = f THEN saved ELSE disk[g]
                      /\ wanted'[g] = IF g = f THEN saved ELSE wanted[g]
  BY <1>6 DEF Shapes
<1>8. Shapes'
  BY <1>1, <1>5, <1>6 DEF Shapes
<1>9. ASSUME NEW q \in Root, backup[q][f] # None
      PROVE  backup[q][f].text \in Int
  <2>1. backup[q][f] \in Version \cup {Torn}
    BY <1>9 DEF Shapes
  <2> QED
    BY <2>1, NeutralVersion
<1>10. NoneNewer'
  BY <1>1, <1>4, <1>5, <1>7, <1>9 DEF NoneNewer
<1>11. NothingIsLost'
  BY <1>1, <1>7 DEF NothingIsLost
<1>12. HandlerInv' /\ RecoverInv' /\ LeaseInv'
  BY <1>1 DEF HandlerInv, RecoverInv, LeaseInv
<1> QED
  BY <1>8, <1>10, <1>11, <1>12

\* What changes no file: the calls, the searches, the ends of handlers, the exit.
LEMMA OtherSteps ==
  ASSUME ContentInv,
         \/ UNCHANGED vars \/ Exit \/ Exited \/ Recovered \/ Leased \/ Restored
         \/ \E s \in Scan : Call(s) \/ Recover(s) \/ Discover(s) \/ Discovered(s) \/ Restore(s)
  PROVE  ContentInv'
<1> USE DEF ContentInv
<1>0. None \notin Handler
  BY NoneAssumption
<1>1. ASSUME NEW s \in Scan, NEW files \in SUBSET File, NEW kind \in {"recover", "lease", "restore"},
             Run(kind, s, files), UNCHANGED <<disk, backup, lease, wanted, scan>>,
             kind = "recover" => files = Orphans(scan[s].root)
      PROVE  ContentInv'
  <2>1. scan[s].root \in Root
    BY DEF Shapes, ScanRecord
  <2>2. /\ handler' \in Handler /\ handler'.kind = kind /\ handler'.scan = s
        /\ handler'.todo = files /\ handler'.step = "next"
    BY <1>1, <2>1 DEF Run, Handler
  <2>3. RecoverInv'
    BY <1>1, <2>2 DEF RecoverInv, Orphans
  <2> QED
    BY <1>1, <2>2, <2>3, QuietFiles DEF Shapes
<1>2. ASSUME NEW s \in Scan, NEW record \in ScanRecord, scan' = [scan EXCEPT ![s] = record],
             handler' = None, UNCHANGED <<disk, backup, wanted>>,
             \/ UNCHANGED lease
             \/ \E files \in SUBSET File : lease' = CountUp(files) /\ \A f \in files : lease[f] # None
      PROVE  ContentInv'
  <2>1. scan' \in [Scan -> ScanRecord]
    BY <1>2 DEF Shapes
  <2>2. CASE UNCHANGED lease
    BY <1>2, <2>1, <2>2, QuietFiles DEF Shapes, RecoverInv
  <2>3. ASSUME NEW files \in SUBSET File, lease' = CountUp(files), \A f \in files : lease[f] # None
        PROVE  ContentInv'
    <3>1. ASSUME NEW f \in files
          PROVE  LET l == [lease[f] EXCEPT !.count = @ + 1]
                 IN  l \in Lease /\ l.root = lease[f].root /\ l.original = lease[f].original
      <4>1. lease[f] \in Lease
        BY <2>3 DEF Shapes
      <4> QED
        BY <4>1 DEF Lease
    <3>2. \A f \in File : lease'[f] = IF f \in files THEN [lease[f] EXCEPT !.count = @ + 1] ELSE lease[f]
      BY <2>3 DEF CountUp
    <3>3. \A f \in File :
            /\ lease'[f] \in Lease \cup {None}
            /\ lease'[f] # None =>
                 lease[f] # None /\ lease'[f].root = lease[f].root /\ lease'[f].original = lease[f].original
      BY <2>3, <3>1, <3>2 DEF Shapes
    <3>4. lease' \in [File -> Lease \cup {None}]
      BY <2>3, <3>3 DEF CountUp
    <3> QED
      BY <1>2, <2>1, <3>3, <3>4, QuietFiles DEF RecoverInv
  <2> QED
    BY <1>2, <2>2, <2>3
<1>3. ASSUME NEW s \in Scan
      PROVE  /\ \A x \in States : [scan[s] EXCEPT !.state = x] \in ScanRecord
             /\ [scan[s] EXCEPT !.state = "waiting", !.blockers = Blockers(s)] \in ScanRecord
             /\ [scan[s] EXCEPT !.state = "recovered", !.leased = Adopt(s)] \in ScanRecord
             /\ [scan[s] EXCEPT !.state = "discovered",
                                !.found = {f \in Scope(s) : ~disk[f].neutral}] \in ScanRecord
             /\ [scan[s] EXCEPT !.state = "ended", !.leased = {}] \in ScanRecord
  <2>1. scan[s] \in ScanRecord
    BY DEF Shapes
  <2>2. Blockers(s) \subseteq Scan /\ Adopt(s) \subseteq File /\ Scope(s) \subseteq File
    BY <2>1 DEF Blockers, Initializing, Adopt, Leases, Scope, ScanRecord
  <2> QED
    BY <2>1, <2>2 DEF ScanRecord, States
<1>4. CASE UNCHANGED vars \/ Exit
  BY <1>4 DEF vars, history, Exit, Shapes, HandlerInv, RecoverInv, LeaseInv, NoneNewer, NothingIsLost
<1>5. CASE Exited
  <2>1. /\ lease' \in [File -> Lease \cup {None}] /\ \A f \in File : lease'[f] = None
        /\ scan' \in [Scan -> ScanRecord] /\ handler' = None
    BY <1>5, NewProcessSafe DEF Exited
  <2> QED
    BY <1>5, <2>1, QuietFiles DEF Exited, history, RecoverInv
<1>6. CASE Recovered
  <2>1. handler # None /\ handler.scan \in Scan
    BY <1>6, HandlerShape DEF Recovered, At
  <2>2. CASE scan[handler.scan].recoverOnly
    BY <1>6, <1>2, <1>3, <2>1, <2>2 DEF Recovered, history, States
  <2>3. CASE ~scan[handler.scan].recoverOnly
    <3>1. Adopt(handler.scan) \in SUBSET File /\ \A f \in Adopt(handler.scan) : lease[f] # None
      BY DEF Adopt, Leases
    <3> DEFINE s == handler.scan
               record == [scan[s] EXCEPT !.state = "recovered", !.leased = Adopt(s)]
    <3>2. /\ scan' = [scan EXCEPT ![s] = record] /\ lease' = CountUp(Adopt(s))
          /\ handler' = None /\ UNCHANGED <<disk, backup, wanted>>
      BY <1>6, <2>1, <2>3 DEF Recovered, history, Shapes
    <3>3. record \in ScanRecord
      BY <1>3, <2>1
    <3> HIDE DEF record
    <3> QED
      BY <1>2, <2>1, <3>1, <3>2, <3>3
  <2> QED
    BY <2>2, <2>3
<1>7. CASE Leased \/ Restored
  <2>1. handler # None /\ handler.scan \in Scan
    BY <1>7, HandlerShape DEF Leased, Restored, At
  <2>2. CASE Leased
    BY <1>2, <1>3, <2>1, <2>2 DEF Leased, history, States
  <2>3. CASE Restored
    BY <1>2, <1>3, <2>1, <2>3 DEF Restored, history
  <2> QED
    BY <1>7, <2>2, <2>3
<1>8. ASSUME NEW s \in Scan, Call(s) \/ Discover(s)
      PROVE  ContentInv'
  <2>1. CASE Call(s)
    <3> DEFINE record == [scan[s] EXCEPT !.state = "waiting", !.blockers = Blockers(s)]
    <3>1. /\ scan' = [scan EXCEPT ![s] = record]
          /\ handler' = None /\ UNCHANGED <<disk, backup, lease, wanted>>
      BY <2>1 DEF Call, Idle, history, Shapes
    <3>2. record \in ScanRecord
      BY <1>3
    <3> HIDE DEF record
    <3> QED
      BY <1>2, <3>1, <3>2
  <2>2. CASE Discover(s)
    <3> DEFINE record == [scan[s] EXCEPT !.state = "discovered",
                                         !.found = {f \in Scope(s) : ~disk[f].neutral}]
    <3>1. /\ scan' = [scan EXCEPT ![s] = record]
          /\ handler' = None /\ UNCHANGED <<disk, backup, lease, wanted>>
      BY <2>2 DEF Discover, Idle, history, Shapes
    <3>2. record \in ScanRecord
      BY <1>3
    <3> HIDE DEF record
    <3> QED
      BY <1>2, <3>1, <3>2
  <2> QED
    BY <1>8, <2>1, <2>2
<1>9. ASSUME NEW s \in Scan, Recover(s) \/ Discovered(s) \/ Restore(s)
      PROVE  ContentInv'
  <2>1. scan[s] \in ScanRecord /\ scan[s].root \in Root
    BY DEF Shapes, ScanRecord
  <2>2. /\ Orphans(scan[s].root) \in SUBSET File
        /\ (scan[s].found \cup Adopt(s)) \ (scan[s].leased \cup scan[s].blocked) \in SUBSET File
        /\ scan[s].leased \in SUBSET File
    BY <2>1, LeasesAssumption DEF Orphans, Adopt, Leases, ScanRecord
  <2>3. CASE Recover(s)
    BY <1>1, <2>2, <2>3 DEF Recover, history
  <2>4. CASE Discovered(s)
    BY <1>1, <2>2, <2>4 DEF Discovered, history
  <2>5. CASE Restore(s)
    BY <1>1, <2>2, <2>5 DEF Restore, history
  <2> QED
    BY <1>9, <2>3, <2>4, <2>5
<1> QED
  BY <1>4, <1>5, <1>6, <1>7, <1>8, <1>9

\* Every step keeps the content of the user's files on disk or in a backup.
LEMMA ContentStep ==
  ASSUME ContentInv, [Next]_vars
  PROVE  ContentInv'
BY RecoverFileSafe, WriteBackSafe, RemoveBackupSafe, LeaseFileSafe, LeaseWriteSafe, RestoreFileSafe,
   KilledSafe, EditSafe, OtherSteps DEF Next, HandlerStep, ScanStep

\* At first all files are as the user saved them, and there are no backups.
LEMMA ContentInit == Init => ContentInv
<1> SUFFICES ASSUME Init
             PROVE  ContentInv
  OBVIOUS
<1>1. disk \in [File -> Version]
  BY LeasesAssumption DEF Init, Version
<1>2. \A f \in File : disk[f].text \in Int
  BY <1>1, NeutralVersion
<1>3. scan \in [Scan -> ScanRecord]
  <2> SUFFICES ASSUME NEW s \in Scan
               PROVE  scan[s] \in ScanRecord
    BY DEF Init
  <2>1. PICK r \in Root :
          scan[s] \in [state : {"new"}, root : {r}, include : SUBSET FilesOf[r] \ {{}},
                       recoverOnly : BOOLEAN, blockers : {{}}, found : {{}}, leased : {{}}, blocked : {{}}]
    BY DEF Init
  <2>2. FilesOf[r] \subseteq File
    BY LeasesAssumption
  <2> QED
    BY <2>1, <2>2 DEF ScanRecord, States
<1>4. Shapes
  BY <1>1, <1>3 DEF Init, Shapes
<1>5. HandlerInv /\ RecoverInv /\ LeaseInv
  BY DEF Init, HandlerInv, RecoverInv, LeaseInv
<1>6. NoneNewer /\ NothingIsLost
  BY <1>1, <1>2 DEF Init, NoneNewer, NothingIsLost
<1> QED
  BY <1>4, <1>5, <1>6 DEF ContentInv

\* Nothing the user saved is lost, however often the process is killed and
\* whatever fails.
THEOREM UserFilesAreSafe == Spec => []NothingIsLost
<1>1. Init => ContentInv
  BY ContentInit
<1>2. ContentInv /\ [Next]_vars => ContentInv'
  BY ContentStep
<1>3. ContentInv => NothingIsLost
  BY DEF ContentInv
<1> QED
  BY <1>1, <1>2, <1>3, PTL DEF Spec

---------------------------------------------------------------------------
(* The counts *)

\* The files that a scan holds: those it has leased or, while it gives them back,
\* those it has not come to yet.
Held(s) ==
  IF handler # None /\ handler.kind = "restore" /\ handler.scan = s
  THEN IF handler.step = "next" THEN handler.todo ELSE handler.todo \ {handler.file}
  ELSE scan[s].leased
Holders(f) == {s \in Scan : f \in Held(s)}

Counted(f) == IF lease[f] = None THEN Holders(f) = {} ELSE lease[f].count = Cardinality(Holders(f))

\* Who has leases, and what the handler may still do with them.
StateInv ==
  /\ \A s \in Scan : scan[s].state \in {"new", "waiting", "ended"} => scan[s].leased = {}
  /\ handler # None /\ handler.kind = "recover" => scan[handler.scan].state = "waiting"
  /\ handler # None /\ handler.kind = "lease" =>
       scan[handler.scan].state = "discovered" /\ handler.todo \cap scan[handler.scan].leased = {}

CountInv == ContentInv /\ StateInv /\ \A f \in File : Counted(f)

\* How the number of holders of a file changes with one scan more or less.
LEMMA HoldersCount ==
  ASSUME NEW f \in File
  PROVE  /\ Cardinality(Holders(f)) \in Nat
         /\ Cardinality({}) = 0
         /\ \A s \in Scan \ Holders(f) : Cardinality(Holders(f) \cup {s}) = Cardinality(Holders(f)) + 1
         /\ \A s \in Holders(f) : /\ Cardinality(Holders(f) \ {s}) = Cardinality(Holders(f)) - 1
                                  /\ Cardinality(Holders(f)) = 1 => Holders(f) = {s}
<1>1. IsFiniteSet(Holders(f))
  BY LeasesAssumption, FS_Subset DEF Holders
<1>2. ASSUME NEW s \in Holders(f), Cardinality(Holders(f)) = 1
      PROVE  Holders(f) = {s}
  <2>1. Cardinality(Holders(f) \ {s}) = 0 /\ IsFiniteSet(Holders(f) \ {s})
    BY <1>1, <1>2, FS_RemoveElement
  <2>2. Holders(f) \ {s} = {}
    BY <2>1, FS_EmptySet
  <2> QED
    BY <1>2, <2>2
<1> QED
  BY <1>1, <1>2, FS_CardinalityType, FS_EmptySet, FS_AddElement, FS_RemoveElement DEF Holders

\* Steps that give or take no lease.
LEMMA SameCounts ==
  ASSUME CountInv, ContentInv', StateInv', UNCHANGED lease, \A s \in Scan : Held(s)' = Held(s)
  PROVE  CountInv'
<1>1. ASSUME NEW f \in File
      PROVE  Counted(f)'
  <2>1. Holders(f)' = Holders(f)
    BY DEF Holders
  <2> QED
    BY <2>1 DEF Counted, CountInv
<1> QED
  BY <1>1 DEF CountInv

\* Steps that add a scan to the holders of some files.
LEMMA MoreCounts ==
  ASSUME CountInv, ContentInv', StateInv', NEW s \in Scan, NEW files \in SUBSET File,
         lease' = CountUp(files), \A f \in files : lease[f] # None,
         Held(s) \cap files = {}, Held(s)' = Held(s) \cup files,
         \A t \in Scan \ {s} : Held(t)' = Held(t)
  PROVE  CountInv'
<1>1. ASSUME NEW f \in File
      PROVE  Counted(f)'
  <2>1. CASE f \in files
    <3>1. Holders(f)' = Holders(f) \cup {s} /\ s \in Scan \ Holders(f)
      BY <2>1 DEF Holders
    <3>2. lease[f] \in Lease
      BY <2>1 DEF CountInv, ContentInv, Shapes
    <3>3. lease'[f] = [lease[f] EXCEPT !.count = @ + 1]
      BY <2>1 DEF CountUp
    <3>4. lease'[f] \in Lease /\ lease'[f].count = lease[f].count + 1
      BY <3>2, <3>3 DEF Lease
    <3>5. lease'[f] # None /\ lease[f].count = Cardinality(Holders(f))
      BY <2>1, <3>4, NoneAssumption DEF CountInv, Counted
    <3> QED
      BY <3>1, <3>4, <3>5, HoldersCount DEF Counted
  <2>2. CASE f \notin files
    <3>1. Holders(f)' = Holders(f)
      BY <2>2 DEF Holders
    <3>2. lease'[f] = lease[f]
      BY <2>2 DEF CountUp
    <3> QED
      BY <3>1, <3>2 DEF Counted, CountInv
  <2> QED
    BY <2>1, <2>2
<1> QED
  BY <1>1 DEF CountInv

\* A step that takes a scan from the holders of a file, the last one or not.
LEMMA LessCounts ==
  ASSUME CountInv, ContentInv', StateInv', NEW s \in Scan, NEW f \in File, f \in Held(s),
         Held(s)' = Held(s) \ {f}, \A t \in Scan \ {s} : Held(t)' = Held(t),
         IF lease[f].count = 1 THEN lease' = [lease EXCEPT ![f] = None]
         ELSE lease' = [lease EXCEPT ![f].count = @ - 1]
  PROVE  CountInv'
<1>1. s \in Holders(f) /\ Holders(f)' = Holders(f) \ {s}
  BY DEF Holders
<1>2. lease[f] \in Lease /\ lease[f].count = Cardinality(Holders(f)) /\ lease \in [File -> Lease \cup {None}]
  BY <1>1 DEF CountInv, ContentInv, Shapes, Counted
<1>3. Counted(f)'
  <2>1. CASE lease[f].count = 1
    <3>1. lease'[f] = None /\ Holders(f)' = {}
      BY <1>1, <1>2, <2>1, HoldersCount
    <3> QED
      BY <3>1 DEF Counted
  <2>2. CASE lease[f].count # 1
    <3>1. lease'[f] = [lease[f] EXCEPT !.count = @ - 1]
      BY <1>2, <2>2
    <3>2. lease[f].count \in Nat \ {0}
      BY <1>2 DEF Lease
    <3>3. lease'[f] \in Lease /\ lease'[f].count = lease[f].count - 1
      BY <1>2, <2>2, <3>1, <3>2 DEF Lease
    <3>4. lease'[f] # None
      BY <3>3, NoneAssumption
    <3> QED
      BY <1>1, <1>2, <3>3, <3>4, HoldersCount DEF Counted
  <2> QED
    BY <2>1, <2>2
<1>4. ASSUME NEW g \in File \ {f}
      PROVE  Counted(g)'
  <2>1. Holders(g)' = Holders(g)
    BY <1>4 DEF Holders
  <2>2. lease'[g] = lease[g]
    BY <1>2, <1>4
  <2> QED
    BY <2>1, <2>2 DEF Counted, CountInv
<1> QED
  BY <1>3, <1>4 DEF CountInv

\* The recovery gives and takes no lease, nor does a restore once it has a file
\* in hand.
LEMMA CountRecovery ==
  ASSUME CountInv, ContentInv', RecoverFile \/ WriteBack \/ RemoveBackup
  PROVE  CountInv'
<1> USE DEF CountInv
<1>1. /\ handler # None /\ handler.kind \in {"recover", "restore"} /\ UNCHANGED lease
      /\ Shapes
  BY DEF RecoverFile, WriteBack, RemoveBackup, At, ContentInv
<1>2. handler \in Handler /\ handler.scan \in Scan /\ handler.todo \subseteq File
  BY <1>1, HandlerShape
<1>3. \E f \in File : Block(f) \/ UNCHANGED scan
  <2>1. CASE RecoverFile
    BY <1>2, <2>1 DEF RecoverFile
  <2>2. CASE WriteBack \/ RemoveBackup
    <3>1. handler.file \in File
      BY <2>2 DEF WriteBack, RemoveBackup, At, ContentInv, HandlerInv
    <3> QED
      BY <2>2, <3>1 DEF WriteBack, RemoveBackup
  <2> QED
    BY <2>1, <2>2
<1>4. \A s \in Scan : scan'[s].leased = scan[s].leased /\ scan'[s].state = scan[s].state
  BY <1>1, <1>3, Blocked
<1>5. /\ handler' # None /\ handler'.kind = handler.kind /\ handler'.scan = handler.scan
      /\ handler.kind = "restore" =>
           (IF handler'.step = "next" THEN handler'.todo ELSE handler'.todo \ {handler'.file})
             = (IF handler.step = "next" THEN handler.todo ELSE handler.todo \ {handler.file})
  <2>1. CASE RecoverFile
    <3>1. PICK f \in handler.todo :
            \/ \E step \in {"remove", "write"} :
                 handler' = Go(step, f, scan[handler.scan].root, backup[scan[handler.scan].root][f])
            \/ handler' = Pass(f)
      BY <2>1 DEF RecoverFile
    <3>2. handler.kind = "recover" /\ f \in File /\ scan[handler.scan].root \in Root
      BY <1>1, <1>2, <2>1, HandlerShape DEF RecoverFile, At
    <3>3. backup[scan[handler.scan].root][f] \in Version \cup {Torn, None}
      BY <1>1, <3>2 DEF Shapes
    <3> QED
      BY <1>2, <3>1, <3>2, <3>3, HandlerMoves
  <2>2. CASE handler' = Pass(handler.file) /\ handler.step # "next"
    <3>1. handler.file \in File
      BY <1>1, <2>2 DEF ContentInv, HandlerInv
    <3> QED
      BY <1>2, <2>2, <3>1, HandlerMoves
  <2>3. CASE handler' = [handler EXCEPT !.step = "remove"] /\ handler.step = "write"
    <3>1. handler' \in Handler /\ handler'.kind = handler.kind /\ handler'.scan = handler.scan
          /\ handler'.todo = handler.todo /\ handler'.step = "remove" /\ handler'.file = handler.file
      BY <1>2, <2>3 DEF Handler
    <3> QED
      BY <2>3, <3>1, NoneAssumption
  <2> QED
    BY <2>1, <2>2, <2>3 DEF WriteBack, RemoveBackup, At
<1>6. \A s \in Scan : Held(s)' = Held(s)
  BY <1>1, <1>4, <1>5 DEF Held
<1>7. StateInv'
  BY <1>1, <1>2, <1>4, <1>5 DEF StateInv
<1> QED
  BY <1>1, <1>6, <1>7, SameCounts

\* A file that is leased already gets one more holder; for others the backup comes first.
LEMMA CountLeaseFile ==
  ASSUME CountInv, ContentInv', LeaseFile
  PROVE  CountInv'
<1> USE DEF CountInv
<1>1. handler # None /\ handler.kind = "lease" /\ handler.step = "next" /\ Shapes
  BY DEF LeaseFile, At, ContentInv
<1>0. PICK s \in Scan : s = handler.scan
  BY <1>1, HandlerShape
<1>2. handler \in Handler /\ s \in Scan /\ handler.todo \subseteq File /\ scan[s] \in ScanRecord
      /\ scan[s].root \in Root /\ scan \in [Scan -> ScanRecord]
  BY <1>0, <1>1, HandlerShape DEF Shapes
<1>3. PICK f \in handler.todo :
        \/ /\ lease[f] # None
           /\ lease' = CountUp({f})
           /\ scan' = [scan EXCEPT ![s].leased = @ \cup {f}]
           /\ handler' = Pass(f)
        \/ handler' = Pass(f) /\ UNCHANGED <<lease, scan>>
        \/ handler' = Go("write", f, scan[s].root, disk[f]) /\ UNCHANGED <<lease, scan>>
  BY <1>0 DEF LeaseFile
<1>4. f \in File /\ disk[f] \in Version \cup {Torn, None} /\ f \notin scan[s].leased
      /\ scan[s].state = "discovered"
  BY <1>0, <1>1, <1>2, <1>3 DEF Shapes, StateInv
<1>5. /\ handler' # None /\ handler'.kind = "lease" /\ handler'.scan = s
      /\ handler'.todo \in {handler.todo, handler.todo \ {f}}
      /\ handler' = Pass(f) => handler'.todo = handler.todo \ {f}
  BY <1>0, <1>1, <1>2, <1>3, <1>4, HandlerMoves
<1>6. CASE UNCHANGED <<lease, scan>>
  <2>1. \A t \in Scan : Held(t)' = Held(t)
    BY <1>0, <1>1, <1>5, <1>6 DEF Held
  <2>2. StateInv'
    BY <1>0, <1>1, <1>5, <1>6 DEF StateInv
  <2> QED
    BY <1>6, <2>1, <2>2, SameCounts
<1>7. CASE /\ lease[f] # None
           /\ lease' = CountUp({f})
           /\ scan' = [scan EXCEPT ![s].leased = @ \cup {f}]
           /\ handler' = Pass(f)
  <2> DEFINE v == [scan[s] EXCEPT !.leased = @ \cup {f}]
  <2>1. v.leased = scan[s].leased \cup {f} /\ v.state = scan[s].state
    BY <1>2 DEF ScanRecord
  <2>2. scan' = [scan EXCEPT ![s] = v]
    BY <1>7
  <2> HIDE DEF v
  <2>3. /\ scan'[s].leased = scan[s].leased \cup {f} /\ scan'[s].state = scan[s].state
        /\ \A t \in Scan \ {s} : scan'[t] = scan[t]
    BY <1>2, <2>1, <2>2
  <2>4. Held(s)' = Held(s) \cup {f} /\ Held(s) = scan[s].leased /\ \A t \in Scan \ {s} : Held(t)' = Held(t)
    BY <1>0, <1>1, <1>5, <2>3 DEF Held
  <2>5. StateInv'
    BY <1>0, <1>1, <1>2, <1>4, <1>5, <1>7, <2>3 DEF StateInv
  <2> QED
    BY <1>2, <1>4, <1>7, <2>4, <2>5, MoreCounts
<1> QED
  BY <1>3, <1>6, <1>7

\* A file that has just been rewritten has one holder.
LEMMA CountLeaseWrite ==
  ASSUME CountInv, ContentInv', LeaseWrite
  PROVE  CountInv'
<1> USE DEF CountInv
<1>1. handler # None /\ handler.kind = "lease" /\ handler.step = "write" /\ Shapes
  BY DEF LeaseWrite, At, ContentInv
<1>0. PICK s \in Scan, f \in File : s = handler.scan /\ f = handler.file
  BY <1>1, HandlerShape DEF ContentInv, HandlerInv
<1>2. /\ handler \in Handler /\ s \in Scan /\ handler.todo \subseteq File /\ scan[s] \in ScanRecord
      /\ scan[s].root \in Root /\ scan \in [Scan -> ScanRecord]
      /\ f \in File /\ lease[f] = None /\ scan[s].state = "discovered"
  BY <1>0, <1>1, HandlerShape DEF Shapes, ContentInv, HandlerInv, StateInv
<1>3. \/ /\ lease' = [lease EXCEPT ![f] = [root |-> handler.root, original |-> handler.original, count |-> 1]]
         /\ scan' = [scan EXCEPT ![s].leased = @ \cup {f}]
         /\ handler' = Pass(f)
      \/ Run("restore", s, scan[s].leased) /\ UNCHANGED <<lease, scan>>
  BY <1>0 DEF LeaseWrite
<1>4. CASE Run("restore", s, scan[s].leased) /\ UNCHANGED <<lease, scan>>
  <2>1. handler' \in Handler /\ handler'.kind = "restore" /\ handler'.scan = s
        /\ handler'.todo = scan[s].leased /\ handler'.step = "next"
    BY <1>2, <1>4 DEF Run, Handler, ScanRecord
  <2>2. handler' # None
    BY <2>1, NoneAssumption
  <2>3. \A t \in Scan : Held(t)' = Held(t)
    BY <1>0, <1>1, <1>4, <2>1, <2>2 DEF Held
  <2>4. StateInv'
    BY <1>4, <2>1 DEF StateInv
  <2> QED
    BY <1>4, <2>3, <2>4, SameCounts
<1>5. CASE /\ lease' = [lease EXCEPT ![f] = [root |-> handler.root, original |-> handler.original, count |-> 1]]
           /\ scan' = [scan EXCEPT ![s].leased = @ \cup {f}]
           /\ handler' = Pass(f)
  <2> DEFINE v == [scan[s] EXCEPT !.leased = @ \cup {f}]
             l == [root |-> handler.root, original |-> handler.original, count |-> 1]
  <2>1. v.leased = scan[s].leased \cup {f} /\ v.state = scan[s].state
    BY <1>2 DEF ScanRecord
  <2>2. scan' = [scan EXCEPT ![s] = v] /\ lease' = [lease EXCEPT ![f] = l] /\ l.count = 1
    BY <1>5
  <2> HIDE DEF v, l
  <2>3. /\ scan'[s].leased = scan[s].leased \cup {f} /\ scan'[s].state = scan[s].state
        /\ \A t \in Scan \ {s} : scan'[t] = scan[t]
    BY <1>2, <2>1, <2>2
  <2>4. /\ handler' # None /\ handler'.kind = "lease" /\ handler'.scan = s
        /\ handler'.todo = handler.todo \ {f}
    BY <1>0, <1>1, <1>2, <1>5, HandlerMoves
  <2>5. Held(s)' = Held(s) \cup {f} /\ \A t \in Scan \ {s} : Held(t)' = Held(t)
    BY <1>0, <1>1, <2>3, <2>4 DEF Held
  <2>6. StateInv'
    BY <1>0, <1>1, <1>2, <2>3, <2>4 DEF StateInv
  <2>7. Holders(f) = {}
    BY <1>2 DEF Counted
  <2>8. Holders(f)' = {s} /\ \A g \in File \ {f} : Holders(g)' = Holders(g)
    BY <1>2, <2>5, <2>7 DEF Holders
  <2>9. lease'[f] = l /\ lease'[f].count = 1 /\ \A g \in File \ {f} : lease'[g] = lease[g]
    BY <1>1, <1>2, <2>2 DEF Shapes
  <2>10. Cardinality({s}) = 1
    BY FS_Singleton
  <2>11. lease'[f] # None
    <3>1. l \in Lease
      BY <1>0, <1>1, <1>2, HandlerShape DEF l, Lease, ContentInv, HandlerInv
    <3> QED
      BY <2>9, <3>1, NoneAssumption
  <2>12. Counted(f)'
    BY <2>8, <2>9, <2>10, <2>11 DEF Counted
  <2>13. \A g \in File \ {f} : Counted(g)'
    BY <2>8, <2>9 DEF Counted
  <2> QED
    BY <2>6, <2>12, <2>13
<1> QED
  BY <1>3, <1>4, <1>5

\* A scan that gives a file back is not one of its holders any more.
LEMMA CountRestoreFile ==
  ASSUME CountInv, ContentInv', RestoreFile
  PROVE  CountInv'
<1> USE DEF CountInv
<1>1. handler # None /\ handler.kind = "restore" /\ handler.step = "next" /\ Shapes /\ UNCHANGED scan
  BY DEF RestoreFile, At, ContentInv
<1>0. PICK s \in Scan : s = handler.scan
  BY <1>1, HandlerShape
<1>2. handler \in Handler /\ s \in Scan /\ handler.todo \subseteq File
  BY <1>1, HandlerShape
<1>3. PICK f \in handler.todo :
        \/ lease[f] = None
        \/ /\ lease[f].count # 1
           /\ handler' = Pass(f)
           /\ lease' = [lease EXCEPT ![f].count = @ - 1]
        \/ /\ lease[f] # None /\ lease[f].count = 1
           /\ \/ \E step \in {"write", "remove"} :
                   handler' = Go(step, f, lease[f].root, lease[f].original)
              \/ handler' = Pass(f)
           /\ lease' = [lease EXCEPT ![f] = None]
  BY DEF RestoreFile, IsLastUse
<1>4. f \in File /\ f \in Held(s) /\ s \in Holders(f)
  BY <1>0, <1>1, <1>2, <1>3 DEF Held, Holders
<1>5. lease[f] # None /\ lease[f] \in Lease
  BY <1>1, <1>4 DEF Counted, Shapes
<1>6. lease[f].root \in Root /\ lease[f].original \in Version
  BY <1>5 DEF Lease
<1>7. /\ handler' # None /\ handler'.kind = "restore" /\ handler'.scan = s
      /\ (IF handler'.step = "next" THEN handler'.todo ELSE handler'.todo \ {handler'.file}) = handler.todo \ {f}
  BY <1>0, <1>1, <1>2, <1>3, <1>4, <1>5, <1>6, HandlerMoves
<1>8. Held(s)' = Held(s) \ {f} /\ \A t \in Scan \ {s} : Held(t)' = Held(t)
  BY <1>0, <1>1, <1>7 DEF Held
<1>9. StateInv'
  BY <1>1, <1>7 DEF StateInv
<1>10. IF lease[f].count = 1 THEN lease' = [lease EXCEPT ![f] = None]
       ELSE lease' = [lease EXCEPT ![f].count = @ - 1]
  BY <1>3, <1>5
<1> QED
  BY <1>2, <1>4, <1>8, <1>9, <1>10, LessCounts

\* A new process holds no lease.
LEMMA CountNewProcess ==
  ASSUME CountInv, ContentInv', NewProcess
  PROVE  CountInv'
<1> USE DEF CountInv
<1>1. /\ \A f \in File : lease'[f] = None
      /\ handler' = None
  BY DEF NewProcess
<1>2. ASSUME NEW s \in Scan
      PROVE  scan'[s].leased = {} /\ (scan'[s].state = scan[s].state \/ scan'[s].state = "ended")
  <2>1. scan[s] \in ScanRecord
    BY DEF ContentInv, Shapes
  <2>2. CASE s \in Active
    <3>1. scan'[s] = [scan[s] EXCEPT !.state = "ended", !.leased = {}]
      BY <2>2 DEF NewProcess
    <3> QED
      BY <2>1, <3>1 DEF ScanRecord
  <2>3. CASE s \notin Active
    BY <2>3 DEF NewProcess, Active, StateInv
  <2> QED
    BY <2>2, <2>3
<1>3. \A s \in Scan : Held(s)' = {}
  BY <1>1, <1>2 DEF Held
<1>4. \A f \in File : Counted(f)'
  BY <1>1, <1>3 DEF Counted, Holders
<1>5. StateInv'
  BY <1>1, <1>2 DEF StateInv
<1> QED
  BY <1>4, <1>5

\* A handler begins: it holds what its scan holds.
LEMMA CountBegins ==
  ASSUME CountInv, ContentInv', NEW s \in Scan, Recover(s) \/ Discovered(s) \/ Restore(s)
  PROVE  CountInv'
<1> USE DEF CountInv
<1>0. scan[s] \in ScanRecord /\ scan[s].root \in Root /\ scan[s].found \subseteq File /\ scan[s].leased \subseteq File
  BY DEF ContentInv, Shapes, ScanRecord
<1>1. handler = None /\ UNCHANGED <<lease, scan>> /\ handler' # None
  <2>1. PICK kind \in {"recover", "lease", "restore"}, files \in SUBSET File : Run(kind, s, files)
    <3>1. /\ Orphans(scan[s].root) \in SUBSET File
          /\ (scan[s].found \cup Adopt(s)) \ (scan[s].leased \cup scan[s].blocked) \in SUBSET File
      BY <1>0, LeasesAssumption DEF Orphans, Adopt, Leases
    <3> QED
      BY <1>0, <3>1 DEF Recover, Discovered, Restore
  <2>2. handler' \in Handler
    BY <1>0, <2>1 DEF Run, Handler
  <2> QED
    BY <2>2, NoneAssumption DEF Recover, Discovered, Restore, Idle
<1>2. /\ handler'.scan = s /\ handler'.step = "next"
      /\ \/ handler'.kind = "recover" /\ scan[s].state = "waiting"
         \/ /\ handler'.kind = "lease" /\ scan[s].state = "discovered"
            /\ handler'.todo \cap scan[s].leased = {}
         \/ handler'.kind = "restore" /\ handler'.todo = scan[s].leased
  BY DEF Recover, Discovered, Restore, Run
<1>3. \A t \in Scan : Held(t)' = Held(t)
  BY <1>1, <1>2 DEF Held
<1>4. StateInv'
  BY <1>1, <1>2 DEF StateInv
<1> QED
  BY <1>1, <1>3, <1>4, SameCounts

\* A handler ends.
LEMMA CountEnds ==
  ASSUME CountInv, ContentInv', Recovered \/ Leased \/ Restored
  PROVE  CountInv'
<1> USE DEF CountInv
<1>1. handler # None /\ handler.step = "next" /\ handler.todo = {} /\ handler' = None /\ Shapes
  BY DEF Recovered, Leased, Restored, At, ContentInv
<1>2. PICK s \in Scan : s = handler.scan
  BY <1>1, HandlerShape
<1>3. scan[s] \in ScanRecord /\ scan \in [Scan -> ScanRecord]
  BY <1>1 DEF Shapes
<1>4. ASSUME NEW record, scan' = [scan EXCEPT ![s] = record], UNCHANGED lease,
             record.leased = Held(s), record.state \in {"new", "waiting", "ended"} => record.leased = {}
      PROVE  CountInv'
  <2>1. scan'[s] = record /\ \A t \in Scan \ {s} : scan'[t] = scan[t]
    BY <1>3, <1>4
  <2>2. \A t \in Scan : Held(t)' = Held(t)
    BY <1>1, <1>2, <1>4, <2>1 DEF Held
  <2>3. StateInv'
    BY <1>1, <1>4, <2>1 DEF StateInv
  <2> QED
    BY <1>4, <2>2, <2>3, SameCounts
<1>5. CASE Leased \/ (Recovered /\ scan[s].recoverOnly)
  <2> DEFINE record == [scan[s] EXCEPT !.state = "ready"]
  <2>1. scan' = [scan EXCEPT ![s] = record] /\ UNCHANGED lease
    BY <1>2, <1>5 DEF Leased, Recovered
  <2>2. record.leased = scan[s].leased /\ record.state = "ready"
    BY <1>3 DEF ScanRecord
  <2>3. Held(s) = scan[s].leased
    BY <1>1, <1>5 DEF Held, Leased, Recovered, At
  <2> HIDE DEF record
  <2> QED
    BY <1>4, <2>1, <2>2, <2>3
<1>6. CASE Restored
  <2> DEFINE record == [scan[s] EXCEPT !.state = "ended", !.leased = {}]
  <2>1. scan' = [scan EXCEPT ![s] = record] /\ UNCHANGED lease
    BY <1>2, <1>3, <1>6 DEF Restored
  <2>2. record.leased = {}
    BY <1>3 DEF ScanRecord
  <2>3. Held(s) = {}
    BY <1>1, <1>2, <1>6 DEF Held, Restored, At
  <2> HIDE DEF record
  <2> QED
    BY <1>4, <2>1, <2>2, <2>3
<1>7. CASE Recovered /\ ~scan[s].recoverOnly
  <2> DEFINE record == [scan[s] EXCEPT !.state = "recovered", !.leased = Adopt(s)]
  <2>1. scan' = [scan EXCEPT ![s] = record] /\ lease' = CountUp(Adopt(s))
    BY <1>2, <1>3, <1>7 DEF Recovered
  <2>2. record.leased = Adopt(s) /\ record.state = "recovered"
    BY <1>3 DEF ScanRecord
  <2> HIDE DEF record
  <2>3. scan'[s] = record /\ \A t \in Scan \ {s} : scan'[t] = scan[t]
    BY <1>3, <2>1
  <2>4. Held(s) = {}
    BY <1>1, <1>2, <1>7 DEF Held, Recovered, At, StateInv
  <2>5. Held(s)' = Adopt(s) /\ \A t \in Scan \ {s} : Held(t)' = Held(t)
    BY <1>1, <1>2, <2>2, <2>3 DEF Held
  <2>6. StateInv'
    BY <1>1, <2>2, <2>3 DEF StateInv
  <2>7. PICK files \in SUBSET File : files = Adopt(s)
    BY DEF Adopt, Leases
  <2>8. \A f \in files : lease[f] # None
    BY <2>7 DEF Adopt, Leases
  <2> QED
    BY <2>1, <2>4, <2>5, <2>6, <2>7, <2>8, MoreCounts
<1> QED
  BY <1>5, <1>6, <1>7

\* Calls, searches, edits and the exit change no lease.
LEMMA CountOthers ==
  ASSUME CountInv, ContentInv',
         \/ UNCHANGED vars \/ Exit
         \/ \E f \in File : Edit(f)
         \/ \E s \in Scan : Call(s) \/ Discover(s)
  PROVE  CountInv'
<1> USE DEF CountInv
<1>1. CASE UNCHANGED vars \/ Exit \/ \E f \in File : Edit(f)
  <2>1. UNCHANGED <<lease, scan, handler>>
    BY <1>1 DEF vars, Exit, Edit
  <2>2. (\A s \in Scan : Held(s)' = Held(s)) /\ StateInv'
    BY <2>1 DEF Held, StateInv
  <2> QED
    BY <2>1, <2>2, SameCounts
<1>2. ASSUME NEW s \in Scan, Call(s) \/ Discover(s)
      PROVE  CountInv'
  <2>1. handler = None /\ UNCHANGED <<lease, handler>> /\ scan[s] \in ScanRecord /\ scan \in [Scan -> ScanRecord]
    BY <1>2 DEF Call, Discover, Idle, ContentInv, Shapes
  <2>2. PICK record :
          /\ scan' = [scan EXCEPT ![s] = record] /\ record.leased = scan[s].leased
          /\ record.state \in {"new", "waiting", "ended"} => record.leased = {}
    <3>1. CASE Call(s)
      <4> DEFINE record == [scan[s] EXCEPT !.state = "waiting", !.blockers = Blockers(s)]
      <4>1. scan' = [scan EXCEPT ![s] = record] /\ scan[s].leased = {}
        BY <2>1, <3>1 DEF Call, StateInv
      <4>2. record.leased = scan[s].leased
        BY <2>1 DEF ScanRecord
      <4> HIDE DEF record
      <4> QED
        BY <4>1, <4>2
    <3>2. CASE Discover(s)
      <4> DEFINE record == [scan[s] EXCEPT !.state = "discovered",
                                           !.found = {f \in Scope(s) : ~disk[f].neutral}]
      <4>1. scan' = [scan EXCEPT ![s] = record]
        BY <2>1, <3>2 DEF Discover
      <4>2. record.leased = scan[s].leased /\ record.state = "discovered"
        BY <2>1 DEF ScanRecord
      <4> HIDE DEF record
      <4> QED
        BY <4>1, <4>2
    <3> QED
      BY <1>2, <3>1, <3>2
  <2>3. scan'[s] = record /\ \A t \in Scan \ {s} : scan'[t] = scan[t]
    BY <2>1, <2>2
  <2>4. (\A t \in Scan : Held(t)' = Held(t)) /\ StateInv'
    BY <2>1, <2>2, <2>3 DEF Held, StateInv
  <2> QED
    BY <2>1, <2>4, SameCounts
<1> QED
  BY <1>1, <1>2

\* At first no scan holds anything.
LEMMA CountInit == Init => CountInv
<1> SUFFICES ASSUME Init
             PROVE  CountInv
  OBVIOUS
<1>1. \A s \in Scan : scan[s].leased = {}
  BY DEF Init
<1>2. StateInv /\ \A f \in File : Counted(f)
  BY <1>1 DEF Init, StateInv, Counted, Holders, Held
<1> QED
  BY <1>2, ContentInit DEF CountInv

\* Every step keeps the count of the scans that hold a file.
LEMMA CountStep ==
  ASSUME CountInv, [Next]_vars
  PROVE  CountInv'
<1>1. ContentInv'
  BY ContentStep DEF CountInv
<1>2. Exited \/ Killed => NewProcess
  BY DEF Exited, Killed
<1> QED
  BY <1>1, <1>2, CountRecovery, CountLeaseFile, CountLeaseWrite, CountRestoreFile, CountNewProcess,
     CountBegins, CountEnds, CountOthers DEF Next, HandlerStep, ScanStep

\* What the counts say between two handlers.
LEMMA CountsBetweenHandlers == CountInv => LeasesAreCounted
<1> SUFFICES ASSUME CountInv, handler = None, NEW f \in File
             PROVE  IF lease[f] = None THEN {s \in Scan : f \in scan[s].leased} = {}
                    ELSE lease[f].count = Cardinality({s \in Scan : f \in scan[s].leased})
  BY DEF LeasesAreCounted
<1>1. Holders(f) = {s \in Scan : f \in scan[s].leased}
  BY DEF Holders, Held
<1> QED
  BY <1>1 DEF CountInv, Counted

\* The last scan to end, and no earlier one, restores a file, in whatever order
\* scans begin, fail, end or are interrupted.
THEOREM LeasesStayCounted == Spec => []LeasesAreCounted
<1>1. Init => CountInv
  BY CountInit
<1>2. CountInv /\ [Next]_vars => CountInv'
  BY CountStep
<1>3. CountInv => LeasesAreCounted
  BY CountsBetweenHandlers
<1> QED
  BY <1>1, <1>2, <1>3, PTL DEF Spec

---------------------------------------------------------------------------
(* What became of the files that nobody disturbed *)

Untouched == File \ disturbed

\* The handler is between two operations on the file and its backup below root.
InHand(f) == handler # None /\ handler.step # "next" /\ handler.file = f
InHandAt(f, r) == InHand(f) /\ handler.root = r

\* Such a file is as the user saved it, or that without its directives, which it
\* is while it is leased; its backups hold what the user saved.
UntouchedInv ==
  \A f \in Untouched :
    /\ disk[f] \in {wanted[f], Neutral(wanted[f])}
    /\ \A r \in Root : backup[r][f] \in {None, wanted[f]}
    /\ lease[f] # None => disk[f] = Neutral(wanted[f])

\* A recovery has the orphans of its root left to do; when it is over, a file that
\* has a backup there and no lease is as the user saved it, or is just being given back.
RecoveryInv ==
  /\ handler # None /\ handler.kind = "recover" =>
       /\ handler.root = scan[handler.scan].root
       /\ Orphans(handler.root) \cap Untouched \subseteq handler.todo
  /\ \A s \in Scan : scan[s].state \in {"recovered", "discovered", "ready"} =>
       \A f \in Below(s) \cap Untouched :
         backup[scan[s].root][f] # None /\ lease[f] = None => disk[f] = wanted[f] \/ InHand(f)

\* What happens to the process and to files stays within the bounds.
BoundsInv ==
  disturbed \subseteq File /\ crashes \in 0 .. MaxCrashes /\ failures \in 0 .. MaxFailures

\* A scan finds and leases files of its scope only.
ScopeInv ==
  /\ \A s \in Scan : /\ Scope(s) \subseteq Below(s)
                     /\ scan[s].found \subseteq Scope(s)
                     /\ scan[s].leased \subseteq Scope(s)
                     /\ scan[s].blocked \subseteq Below(s)
  /\ handler # None =>
       /\ handler.kind = "recover" => handler.todo \subseteq Below(handler.scan)
       /\ handler.kind = "lease" => handler.todo \subseteq Scope(handler.scan)
       /\ handler.step # "next" => handler.file \in handler.todo

\* A handler runs for a scan that has begun and has not ended.
WorkInv == handler # None => handler.scan \in Active

\* Initialisations that overlap wait for each other: of two of them, one has the
\* other among its blockers, and it does not begin before that one has ended.
Begun == {s \in Scan : scan[s].state \in {"recovered", "discovered"}}
QueueInv ==
  /\ \A s, t \in Scan : t \in scan[s].blockers => scan[t].state # "new"
  /\ \A s, t \in Initializing :
       s # t /\ Overlap(s, t) => s \in scan[t].blockers \/ t \in scan[s].blockers
  /\ \A s \in Begun : scan[s].blockers \cap Initializing = {}
  /\ handler # None /\ handler.kind = "recover" => scan[handler.scan].blockers \cap Initializing = {}

\* As long as no process was killed, every backup belongs to a lease or to the
\* file in hand, and no scan has given a file up.
OrphanInv ==
  \A f \in Untouched :
    /\ \A r \in Root : backup[r][f] # None =>
         (lease[f] # None /\ lease[f].root = r) \/ InHandAt(f, r)
    /\ \A s \in Scan : f \notin scan[s].blocked

\* Then a scan that searches misses no directive: it has leased the file, has it
\* among what it found or has to lease, or the file has none.
SearchInv ==
  \A s \in Scan : ~scan[s].recoverOnly =>
    /\ scan[s].state = "recovered" => Adopt(s) \cap Untouched \subseteq scan[s].leased
    /\ \A f \in Scope(s) \cap Untouched :
         /\ scan[s].state = "discovered" => f \in scan[s].leased \cup scan[s].found \/ wanted[f].neutral
         /\ handler # None /\ handler.kind = "lease" /\ handler.scan = s =>
              f \in scan[s].leased \cup handler.todo \/ wanted[f].neutral
         /\ scan[s].state = "ready" => f \in scan[s].leased \/ wanted[f].neutral

PromiseInv ==
  CountInv /\ BoundsInv /\ UntouchedInv /\ RecoveryInv /\ ScopeInv /\ WorkInv /\ QueueInv
  /\ (crashes = 0 => OrphanInv /\ SearchInv)

---------------------------------------------------------------------------
(* What a step does to a file that it does not disturb *)

SameBackups(f) == \A r \in Root : backup'[r][f] = backup[r][f]
Stays(f) == disk'[f] = disk[f] /\ SameBackups(f)
Unleased(f) == lease[f] = None /\ lease'[f] = None

\* Nothing but, maybe, one holder more or less.
Quiet(f) ==
  /\ Stays(f)
  /\ IF lease[f] = None THEN lease'[f] = None ELSE lease'[f] # None /\ lease'[f].root = lease[f].root
  /\ InHand(f)' <=> InHand(f)
  /\ \A r \in Root : InHandAt(f, r)' <=> InHandAt(f, r)

\* The recovery takes the file in hand, ...
Claimed(f) ==
  /\ Stays(f) /\ Unleased(f) /\ ~InHand(f) /\ InHand(f)'
  /\ \E r \in Root : backup[r][f] # None

\* ... it, or the end of a scan, puts the content back, ...
WrittenBack(f) == \E r \in Root :
  /\ SameBackups(f) /\ Unleased(f) /\ InHandAt(f, r) /\ InHandAt(f, r)'
  /\ disk'[f] = backup[r][f] /\ backup[r][f] # None

\* ... and deletes the backup.
BackupRemoved(f) == \E r \in Root :
  /\ Unleased(f) /\ InHandAt(f, r) /\ ~InHand(f)'
  /\ disk'[f] = disk[f] /\ disk[f] = backup[r][f]
  /\ \A q \in Root : backup'[q][f] = IF q = r THEN None ELSE backup[q][f]

\* A lease begins with the backup ...
BackedUp(f) == \E r \in Root :
  /\ Unleased(f) /\ ~InHand(f) /\ InHandAt(f, r)'
  /\ disk'[f] = disk[f] /\ ~disk[f].neutral
  /\ \A q \in Root : backup'[q][f] = IF q = r THEN disk[f] ELSE backup[q][f]

\* ... and the file is rewritten.
Rewritten(f) == \E r \in Root :
  /\ SameBackups(f) /\ lease[f] = None /\ lease'[f] # None /\ lease'[f].root = r
  /\ InHandAt(f, r) /\ handler.kind = "lease" /\ ~InHand(f)'
  /\ disk[f] = backup[r][f] /\ backup[r][f] # None /\ disk'[f] = Neutral(disk[f])

\* The lease ends, and the file is taken in hand unless somebody has changed it.
GivenUp(f) == \E r \in Root :
  /\ Stays(f) /\ lease[f] # None /\ lease[f].root = r /\ lease'[f] = None /\ ~InHand(f)
  /\ disk[f] \in {backup[r][f], Neutral(backup[r][f])} => InHandAt(f, r)'

\* The process ends: all leases are gone, unless there were none.
Forgotten(f) ==
  /\ Stays(f) /\ lease'[f] = None /\ ~InHand(f)'
  /\ \A s \in Scan : scan'[s].state \in {"new", "ended"}
  /\ crashes' # 0 \/ (lease[f] = None /\ ~InHand(f))

\* A file that is not in hand when a step begins and when it ends, and whose
\* content and backups are the same, is left alone.
LEMMA NotInHand ==
  ASSUME NEW f \in File, Stays(f), ~InHand(f), ~InHand(f)',
         IF lease[f] = None THEN lease'[f] = None ELSE lease'[f] # None /\ lease'[f].root = lease[f].root
  PROVE  Quiet(f)
BY DEF Quiet, InHandAt

\* The recovery of a file takes it in hand or passes it over.
LEMMA RecoverFileEffect ==
  ASSUME CountInv, RecoverFile, NEW f \in File, f \notin disturbed'
  PROVE  f \notin disturbed /\ wanted'[f] = wanted[f] /\ (Quiet(f) \/ Claimed(f))
<1>1. /\ handler # None /\ handler.kind = "recover" /\ handler.step = "next"
      /\ UNCHANGED <<disk, backup, lease, wanted, disturbed>> /\ Shapes /\ RecoverInv
  BY DEF RecoverFile, At, history, CountInv, ContentInv
<1>2. PICK r \in Root : r = scan[handler.scan].root
  BY <1>1, HandlerShape
<1>3. PICK g \in handler.todo :
        \/ handler' = Go("remove", g, r, backup[r][g])
        \/ handler' = Go("write", g, r, backup[r][g])
        \/ handler' = Pass(g)
  BY <1>2 DEF RecoverFile
<1>4. handler \in Handler /\ g \in File
  BY <1>1, <1>3, HandlerShape
<1>5. lease[g] = None /\ backup[r][g] # None /\ backup[r][g] \in Version \cup {Torn, None}
  BY <1>1, <1>2, <1>3, <1>4 DEF RecoverInv, Shapes
<1>6. ~InHand(f) /\ Stays(f) /\ lease'[f] = lease[f]
  BY <1>1 DEF InHand, Stays, SameBackups
<1>7. CASE handler' = Pass(g)
  <2>1. ~InHand(f)'
    BY <1>4, <1>7, HandlerMoves DEF InHand
  <2> QED
    BY <1>1, <1>6, <2>1, NotInHand
<1>8. CASE handler' = Go("remove", g, r, backup[r][g]) \/ handler' = Go("write", g, r, backup[r][g])
  <2>1. handler' # None /\ handler'.file = g /\ handler'.step # "next"
    BY <1>4, <1>5, <1>8, HandlerMoves
  <2>2. CASE f = g
    BY <1>1, <1>5, <1>6, <2>1, <2>2 DEF Claimed, Unleased, InHand
  <2>3. CASE f # g
    <3>1. ~InHand(f)'
      BY <2>1, <2>3 DEF InHand
    <3> QED
      BY <1>1, <1>6, <3>1, NotInHand
  <2> QED
    BY <2>2, <2>3
<1> QED
  BY <1>3, <1>7, <1>8

\* The content of the file in hand is put back.
LEMMA WriteBackEffect ==
  ASSUME CountInv, WriteBack, NEW f \in File, f \notin disturbed'
  PROVE  f \notin disturbed /\ wanted'[f] = wanted[f] /\ (Quiet(f) \/ WrittenBack(f))
<1>1. /\ handler # None /\ handler.kind \in {"recover", "restore"} /\ handler.step = "write"
      /\ UNCHANGED <<backup, lease, wanted>> /\ Shapes /\ HandlerInv
  BY DEF WriteBack, At, history, Fails, CountInv, ContentInv
<1>2. PICK g \in File, r \in Root, o \in Version \cup {Torn, None} :
        g = handler.file /\ r = handler.root /\ o = handler.original
  BY <1>1, HandlerShape DEF HandlerInv
<1>3. handler \in Handler /\ lease[g] = None /\ o # None /\ backup[r][g] = o
  BY <1>1, <1>2, HandlerShape DEF HandlerInv
<1>4. \/ /\ disk' = [disk EXCEPT ![g] = o]
         /\ handler' = [handler EXCEPT !.step = "remove"]
         /\ UNCHANGED disturbed
      \/ /\ \E c \in {disk[g], Torn} : disk' = [disk EXCEPT ![g] = c]
         /\ handler' = Pass(g)
         /\ disturbed' = disturbed \cup {g}
  BY <1>2 DEF WriteBack, history, Fails
<1>5. f # g => disk'[f] = disk[f] /\ ~InHand(f)
  BY <1>1, <1>2, <1>4 DEF Shapes, InHand
<1>6. CASE /\ disk' = [disk EXCEPT ![g] = o]
           /\ handler' = [handler EXCEPT !.step = "remove"]
           /\ UNCHANGED disturbed
  <2>1. handler' # None /\ handler'.file = g /\ handler'.step = "remove" /\ handler'.root = r
    <3>1. handler' \in Handler /\ handler'.file = g /\ handler'.step = "remove" /\ handler'.root = r
      BY <1>2, <1>3, <1>6 DEF Handler
    <3> QED
      BY <3>1, NoneAssumption
  <2>2. CASE f = g
    <3>1. disk'[g] = o
      BY <1>1, <1>6 DEF Shapes
    <3> QED
      BY <1>1, <1>2, <1>3, <1>6, <2>1, <2>2, <3>1
      DEF WrittenBack, SameBackups, Unleased, InHandAt, InHand
  <2>3. CASE f # g
    <3>1. ~InHand(f)'
      BY <2>1, <2>3 DEF InHand
    <3> QED
      BY <1>1, <1>5, <1>6, <2>3, <3>1, NotInHand DEF Stays, SameBackups
  <2> QED
    BY <2>2, <2>3
<1>7. CASE handler' = Pass(g) /\ disturbed' = disturbed \cup {g}
  <2>1. f # g /\ f \notin disturbed
    BY <1>7
  <2>2. ~InHand(f)'
    BY <1>3, <1>7, HandlerMoves DEF InHand
  <2> QED
    BY <1>1, <1>5, <2>1, <2>2, NotInHand DEF Stays, SameBackups
<1> QED
  BY <1>4, <1>6, <1>7

\* The backup of the file in hand is deleted.
LEMMA RemoveBackupEffect ==
  ASSUME CountInv, RemoveBackup, NEW f \in File, f \notin disturbed'
  PROVE  f \notin disturbed /\ wanted'[f] = wanted[f] /\ (Quiet(f) \/ BackupRemoved(f))
<1>1. /\ handler # None /\ handler.kind \in {"recover", "restore"} /\ handler.step = "remove"
      /\ UNCHANGED <<disk, lease, wanted>> /\ Shapes /\ HandlerInv
  BY DEF RemoveBackup, At, history, Fails, CountInv, ContentInv
<1>2. PICK g \in File, r \in Root : g = handler.file /\ r = handler.root
  BY <1>1, HandlerShape DEF HandlerInv
<1>3. handler \in Handler /\ lease[g] = None /\ disk[g] = backup[r][g]
  BY <1>1, <1>2, HandlerShape DEF HandlerInv
<1>4. /\ handler' = Pass(g)
      /\ \/ backup' = [backup EXCEPT ![r][g] = None] /\ UNCHANGED disturbed
         \/ UNCHANGED backup /\ disturbed' = disturbed \cup {g}
  BY <1>2 DEF RemoveBackup, history, Fails
<1>5. ~InHand(f)'
  BY <1>3, <1>4, HandlerMoves DEF InHand
<1>6. CASE backup' = [backup EXCEPT ![r][g] = None] /\ UNCHANGED disturbed
  <2>1. \A q \in Root : backup'[q][f] = IF q = r /\ f = g THEN None ELSE backup[q][f]
    BY <1>1, <1>6 DEF Shapes
  <2>2. CASE f = g
    <3>1. InHandAt(f, r)
      BY <1>1, <1>2, <2>2 DEF InHandAt, InHand
    <3> QED
      BY <1>1, <1>3, <1>5, <1>6, <2>1, <2>2, <3>1 DEF BackupRemoved, Unleased
  <2>3. CASE f # g
    <3>1. ~InHand(f)
      BY <1>2, <2>3 DEF InHand
    <3> QED
      BY <1>1, <1>5, <1>6, <2>1, <2>3, <3>1, NotInHand DEF Stays, SameBackups
  <2> QED
    BY <2>2, <2>3
<1>7. CASE UNCHANGED backup /\ disturbed' = disturbed \cup {g}
  <2>1. f # g /\ f \notin disturbed
    BY <1>7
  <2>2. ~InHand(f)
    BY <1>2, <2>1 DEF InHand
  <2> QED
    BY <1>1, <1>5, <1>7, <2>1, <2>2, NotInHand DEF Stays, SameBackups
<1> QED
  BY <1>4, <1>6, <1>7

\* One more holder changes neither which files are leased nor below which root.
LEMMA CountUpKeeps ==
  ASSUME Shapes, NEW files \in SUBSET File, lease' = CountUp(files), \A f \in files : lease[f] # None,
         NEW f \in File
  PROVE  IF lease[f] = None THEN lease'[f] = None ELSE lease'[f] # None /\ lease'[f].root = lease[f].root
<1>1. CASE f \notin files
  BY <1>1 DEF CountUp
<1>2. CASE f \in files
  <2>1. lease[f] \in Lease /\ lease'[f] = [lease[f] EXCEPT !.count = @ + 1]
    BY <1>2 DEF Shapes, CountUp
  <2>2. lease'[f] \in Lease /\ lease'[f].root = lease[f].root
    BY <2>1 DEF Lease
  <2> QED
    BY <1>2, <2>2, NoneAssumption
<1> QED
  BY <1>1, <1>2

\* A lease is shared, or begins with the backup of a file that has directives.
LEMMA LeaseFileEffect ==
  ASSUME CountInv, LeaseFile, NEW f \in File, f \notin disturbed'
  PROVE  f \notin disturbed /\ wanted'[f] = wanted[f] /\ (Quiet(f) \/ BackedUp(f))
<1>1. /\ handler # None /\ handler.kind = "lease" /\ handler.step = "next"
      /\ UNCHANGED <<disk, wanted>> /\ Shapes
  BY DEF LeaseFile, At, history, Fails, CountInv, ContentInv
<1>2. PICK r \in Root : r = scan[handler.scan].root
  BY <1>1, HandlerShape
<1>3. PICK g \in handler.todo :
        \/ /\ lease[g] # None /\ lease' = CountUp({g})
           /\ handler' = Pass(g) /\ UNCHANGED <<backup, disturbed>>
        \/ handler' = Pass(g) /\ UNCHANGED <<backup, lease, disturbed>>
        \/ /\ lease[g] = None /\ ~disk[g].neutral
           /\ backup' = [backup EXCEPT ![r][g] = disk[g]]
           /\ handler' = Go("write", g, r, disk[g]) /\ UNCHANGED <<lease, disturbed>>
        \/ /\ disturbed' = disturbed \cup {g}
           /\ \E b \in {None, Torn} : backup' = [backup EXCEPT ![r][g] = b]
           /\ handler' = Pass(g) /\ UNCHANGED lease
  BY <1>2 DEF LeaseFile, history, Fails
<1>4. handler \in Handler /\ g \in File /\ disk[g] \in Version \cup {Torn, None}
  BY <1>1, <1>3, HandlerShape DEF Shapes
<1>5. ~InHand(f) /\ (handler' = Pass(g) => ~InHand(f)')
  BY <1>1, <1>4, HandlerMoves DEF InHand
<1>6. CASE /\ lease[g] # None /\ lease' = CountUp({g})
           /\ handler' = Pass(g) /\ UNCHANGED <<backup, disturbed>>
  <2>1. IF lease[f] = None THEN lease'[f] = None ELSE lease'[f] # None /\ lease'[f].root = lease[f].root
    BY <1>1, <1>4, <1>6, CountUpKeeps
  <2> QED
    BY <1>1, <1>5, <1>6, <2>1, NotInHand DEF Stays, SameBackups
<1>7. CASE handler' = Pass(g) /\ UNCHANGED <<backup, lease, disturbed>>
  BY <1>1, <1>5, <1>7, NotInHand DEF Stays, SameBackups
<1>8. CASE /\ lease[g] = None /\ ~disk[g].neutral
           /\ backup' = [backup EXCEPT ![r][g] = disk[g]]
           /\ handler' = Go("write", g, r, disk[g]) /\ UNCHANGED <<lease, disturbed>>
  <2>1. \A q \in Root : backup'[q][f] = IF q = r /\ f = g THEN disk[g] ELSE backup[q][f]
    BY <1>1, <1>8 DEF Shapes
  <2>2. handler' # None /\ handler'.file = g /\ handler'.step = "write" /\ handler'.root = r
    BY <1>4, <1>8, HandlerMoves
  <2>3. CASE f = g
    <3>1. InHandAt(f, r)'
      BY <2>2, <2>3 DEF InHandAt, InHand
    <3> QED
      BY <1>1, <1>5, <1>8, <2>1, <2>3, <3>1 DEF BackedUp, Unleased
  <2>4. CASE f # g
    <3>1. ~InHand(f)'
      BY <2>2, <2>4 DEF InHand
    <3> QED
      BY <1>1, <1>5, <1>8, <2>1, <2>4, <3>1, NotInHand DEF Stays, SameBackups
  <2> QED
    BY <2>3, <2>4
<1>9. CASE /\ disturbed' = disturbed \cup {g}
           /\ \E b \in {None, Torn} : backup' = [backup EXCEPT ![r][g] = b]
           /\ handler' = Pass(g) /\ UNCHANGED lease
  <2>1. f # g /\ f \notin disturbed
    BY <1>9
  <2>2. \A q \in Root : backup'[q][f] = backup[q][f]
    BY <1>1, <1>9, <2>1 DEF Shapes
  <2> QED
    BY <1>1, <1>5, <1>9, <2>1, <2>2, NotInHand DEF Stays, SameBackups
<1> QED
  BY <1>3, <1>6, <1>7, <1>8, <1>9

\* The file in hand is rewritten.
LEMMA LeaseWriteEffect ==
  ASSUME CountInv, LeaseWrite, NEW f \in File, f \notin disturbed'
  PROVE  f \notin disturbed /\ wanted'[f] = wanted[f] /\ (Quiet(f) \/ Rewritten(f))
<1>1. /\ handler # None /\ handler.kind = "lease" /\ handler.step = "write"
      /\ UNCHANGED <<backup, wanted>> /\ Shapes /\ HandlerInv
  BY DEF LeaseWrite, At, history, Fails, CountInv, ContentInv
<1>2. PICK g \in File, r \in Root, o \in Version, s \in Scan :
        g = handler.file /\ r = handler.root /\ o = handler.original /\ s = handler.scan
  BY <1>1, HandlerShape DEF HandlerInv
<1>3. handler \in Handler /\ lease[g] = None /\ o # None /\ backup[r][g] = o /\ disk[g] = o
  BY <1>1, <1>2, HandlerShape DEF HandlerInv
<1>4. \/ /\ disk' = [disk EXCEPT ![g] = Neutral(@)]
         /\ lease' = [lease EXCEPT ![g] = [root |-> r, original |-> o, count |-> 1]]
         /\ handler' = Pass(g)
         /\ UNCHANGED disturbed
      \/ /\ \E c \in {disk[g], Torn} : disk' = [disk EXCEPT ![g] = c]
         /\ Run("restore", s, scan[s].leased)
         /\ UNCHANGED lease
         /\ disturbed' = disturbed \cup {g}
  BY <1>2 DEF LeaseWrite, history, Fails
<1>5. ~InHand(f)'
  <2>1. CASE handler' = Pass(g)
    BY <1>3, <2>1, HandlerMoves DEF InHand
  <2>2. CASE Run("restore", s, scan[s].leased)
    BY <2>2 DEF Run, InHand
  <2> QED
    BY <1>4, <2>1, <2>2
<1>6. f # g => ~InHand(f) /\ disk'[f] = disk[f] /\ lease'[f] = lease[f]
  BY <1>1, <1>2, <1>4 DEF Shapes, InHand
<1>7. CASE f # g
  BY <1>1, <1>4, <1>5, <1>6, <1>7, NotInHand DEF Stays, SameBackups
<1>8. CASE f = g
  <2>1. /\ disk' = [disk EXCEPT ![g] = Neutral(@)]
        /\ lease' = [lease EXCEPT ![g] = [root |-> r, original |-> o, count |-> 1]]
        /\ UNCHANGED disturbed
    BY <1>4, <1>8
  <2> DEFINE l == [root |-> r, original |-> o, count |-> 1]
  <2>2. l \in Lease /\ l.root = r
    BY DEF Lease
  <2>3. disk'[f] = Neutral(disk[f]) /\ lease'[f] = l
    BY <1>1, <1>8, <2>1 DEF Shapes
  <2> HIDE DEF l
  <2>4. lease'[f] # None /\ lease'[f].root = r
    BY <2>2, <2>3, NoneAssumption
  <2>5. InHandAt(f, r)
    BY <1>1, <1>2, <1>8 DEF InHandAt, InHand
  <2> QED
    BY <1>1, <1>3, <1>5, <1>8, <2>1, <2>3, <2>4, <2>5 DEF Rewritten, SameBackups
<1> QED
  BY <1>7, <1>8

\* A lease loses a holder, or ends.
LEMMA RestoreFileEffect ==
  ASSUME CountInv, RestoreFile, NEW f \in File, f \notin disturbed'
  PROVE  f \notin disturbed /\ wanted'[f] = wanted[f] /\ (Quiet(f) \/ GivenUp(f))
<1>1. /\ handler # None /\ handler.kind = "restore" /\ handler.step = "next"
      /\ UNCHANGED <<disk, backup, wanted, disturbed>> /\ Shapes /\ LeaseInv
  BY DEF RestoreFile, At, history, CountInv, ContentInv
<1>2. PICK g \in handler.todo :
        \/ handler' = Pass(g) /\ UNCHANGED lease
        \/ /\ lease[g] # None /\ ~IsLastUse(g)
           /\ handler' = Pass(g)
           /\ lease' = [lease EXCEPT ![g].count = @ - 1]
        \/ /\ lease[g] # None
           /\ handler' = IF IsRewritten(disk[g], lease[g].original)
                         THEN Go("write", g, lease[g].root, lease[g].original)
                         ELSE IF disk[g] = lease[g].original
                              THEN Go("remove", g, lease[g].root, lease[g].original) ELSE Pass(g)
           /\ lease' = [lease EXCEPT ![g] = None]
  BY DEF RestoreFile
<1>3. handler \in Handler /\ g \in File
  BY <1>1, <1>2, HandlerShape
<1>4. ~InHand(f) /\ Stays(f) /\ (handler' = Pass(g) => ~InHand(f)')
  BY <1>1, <1>3, HandlerMoves DEF InHand, Stays, SameBackups
<1>5. CASE handler' = Pass(g) /\ UNCHANGED lease
  BY <1>1, <1>4, <1>5, NotInHand
<1>6. CASE /\ lease[g] # None /\ ~IsLastUse(g)
           /\ handler' = Pass(g)
           /\ lease' = [lease EXCEPT ![g].count = @ - 1]
  <2> DEFINE l == [lease[g] EXCEPT !.count = @ - 1]
  <2>1. l \in Lease /\ l.root = lease[g].root
    <3>1. lease[g] \in Lease
      BY <1>1, <1>3, <1>6 DEF Shapes
    <3>2. lease[g].count \in Nat \ {0} /\ lease[g].count # 1
      BY <1>6, <3>1 DEF Lease, IsLastUse
    <3> QED
      BY <3>1, <3>2 DEF Lease
  <2>2. lease' = [lease EXCEPT ![g] = l]
    BY <1>6
  <2> HIDE DEF l
  <2>3. lease'[f] = IF f = g THEN l ELSE lease[f]
    BY <1>1, <2>2 DEF Shapes
  <2>4. IF lease[f] = None THEN lease'[f] = None ELSE lease'[f] # None /\ lease'[f].root = lease[f].root
    BY <1>6, <2>1, <2>3, NoneAssumption
  <2> QED
    BY <1>1, <1>4, <1>6, <2>4, NotInHand
<1>7. CASE /\ lease[g] # None
           /\ handler' = IF IsRewritten(disk[g], lease[g].original)
                         THEN Go("write", g, lease[g].root, lease[g].original)
                         ELSE IF disk[g] = lease[g].original
                              THEN Go("remove", g, lease[g].root, lease[g].original) ELSE Pass(g)
           /\ lease' = [lease EXCEPT ![g] = None]
  <2>1. lease[g] \in Lease
    BY <1>1, <1>3, <1>7 DEF Shapes
  <2>2. PICK r \in Root, o \in Version : r = lease[g].root /\ o = lease[g].original
    BY <2>1 DEF Lease
  <2>3. backup[r][g] = o /\ o \in Version \cup {Torn, None}
    BY <1>1, <1>3, <1>7, <2>2 DEF LeaseInv
  <2>4. lease'[f] = IF f = g THEN None ELSE lease[f]
    BY <1>1, <1>7 DEF Shapes
  <2>5. /\ disk[g] \in {o, Neutral(o)} => \E step \in {"write", "remove"} : handler' = Go(step, g, r, o)
        /\ disk[g] \notin {o, Neutral(o)} => handler' = Pass(g)
    BY <1>7, <2>2 DEF IsRewritten
  <2>6. \A step \in {"write", "remove"} : handler' = Go(step, g, r, o) =>
          handler' # None /\ handler'.file = g /\ handler'.root = r /\ handler'.step # "next"
    BY <1>3, <2>3, HandlerMoves
  <2>7. CASE f = g
    <3>1. disk[f] \in {o, Neutral(o)} => InHandAt(f, r)'
      BY <2>5, <2>6, <2>7 DEF InHandAt, InHand
    <3> QED
      BY <1>1, <1>4, <1>7, <2>2, <2>3, <2>4, <2>7, <3>1 DEF GivenUp
  <2>8. CASE f # g
    <3>1. ~InHand(f)'
      BY <1>4, <2>5, <2>6, <2>8 DEF InHand
    <3> QED
      BY <1>1, <1>4, <2>4, <2>8, <3>1, NotInHand
  <2> QED
    BY <2>7, <2>8
<1> QED
  BY <1>2, <1>5, <1>6, <1>7

\* A new process has no lease and nothing in hand.  One that exits has given all
\* leases up before.
LEMMA NewProcessEffect ==
  ASSUME CountInv, BoundsInv, Exited \/ Killed, NEW f \in File, f \notin disturbed'
  PROVE  f \notin disturbed /\ wanted'[f] = wanted[f] /\ Forgotten(f)
<1>1. /\ lease' = [g \in File |-> None] /\ handler' = None /\ UNCHANGED wanted /\ Shapes
      /\ scan' = [s \in Scan |-> IF s \in Active
                                 THEN [scan[s] EXCEPT !.state = "ended", !.leased = {}] ELSE scan[s]]
  BY DEF Exited, Killed, NewProcess, history, CountInv, ContentInv
<1>2. ASSUME NEW s \in Scan
      PROVE  scan'[s].state \in {"new", "ended"}
  <2>1. scan[s] \in ScanRecord
    BY <1>1 DEF Shapes
  <2>2. CASE s \in Active
    <3>1. scan'[s] = [scan[s] EXCEPT !.state = "ended", !.leased = {}]
      BY <1>1, <2>2
    <3> QED
      BY <2>1, <3>1 DEF ScanRecord
  <2>3. CASE s \notin Active
    BY <1>1, <2>3 DEF Active
  <2> QED
    BY <2>2, <2>3
<1>3. lease'[f] = None /\ ~InHand(f)'
  BY <1>1 DEF InHand
<1>4. CASE Exited
  <2>1. handler = None /\ Active = {} /\ UNCHANGED <<disk, backup, disturbed>>
    BY <1>4 DEF Exited, history
  <2>2. \A s \in Scan : scan[s].leased = {}
    BY <2>1 DEF Active, CountInv, StateInv
  <2>3. Holders(f) = {}
    BY <2>1, <2>2 DEF Holders, Held
  <2>4. lease[f] = None
    <3> SUFFICES ASSUME lease[f] # None
                 PROVE  FALSE
      OBVIOUS
    <3>1. lease[f] \in Lease
      BY <1>1 DEF Shapes
    <3>2. lease[f].count \in Nat \ {0}
      BY <3>1 DEF Lease
    <3>3. lease[f].count = Cardinality({})
      BY <2>3 DEF CountInv, Counted
    <3> QED
      BY <3>2, <3>3, FS_EmptySet
  <2> QED
    BY <1>1, <1>2, <1>3, <2>1, <2>4 DEF Forgotten, Stays, SameBackups, InHand
<1>5. CASE Killed
  <2>1. f \notin disturbed /\ Stays(f)
    <3>1. CASE UNCHANGED <<disk, backup, disturbed>>
      BY <3>1 DEF Stays, SameBackups
    <3>2. ASSUME handler # None, handler.step = "write", disturbed' = disturbed \cup {handler.file}
          PROVE  handler.file \in File /\ f # handler.file /\ f \notin disturbed
      BY <3>2 DEF CountInv, ContentInv, HandlerInv
    <3>3. CASE /\ handler # None /\ handler.step = "write"
               /\ disk' = [disk EXCEPT ![handler.file] = Torn]
               /\ disturbed' = disturbed \cup {handler.file}
               /\ UNCHANGED backup
      BY <1>1, <3>2, <3>3 DEF Stays, SameBackups, Shapes
    <3>4. CASE /\ handler # None /\ handler.step = "write"
               /\ backup' = [backup EXCEPT ![scan[handler.scan].root][handler.file] = Torn]
               /\ disturbed' = disturbed \cup {handler.file}
               /\ UNCHANGED disk
      BY <1>1, <3>2, <3>4 DEF Stays, SameBackups, Shapes
    <3> QED
      BY <1>5, <3>1, <3>3, <3>4 DEF Killed, At
  <2>2. crashes' # 0
    BY <1>5, LeasesAssumption DEF Killed, BoundsInv
  <2> QED
    BY <1>1, <1>2, <1>3, <2>1, <2>2 DEF Forgotten
<1> QED
  BY <1>4, <1>5

\* All other steps leave the file, its backups and its lease alone, or adopt it.
LEMMA OtherEffect ==
  ASSUME CountInv, NEW f \in File, f \notin disturbed',
         \/ UNCHANGED vars \/ Exit \/ Recovered \/ Leased \/ Restored
         \/ \E g \in File : Edit(g)
         \/ \E s \in Scan : Call(s) \/ Recover(s) \/ Discover(s) \/ Discovered(s) \/ Restore(s)
  PROVE  f \notin disturbed /\ wanted'[f] = wanted[f] /\ Quiet(f)
<1>1. Shapes
  BY DEF CountInv, ContentInv
<1>2. CASE UNCHANGED vars \/ Exit
  BY <1>2 DEF vars, Exit, history, Quiet, Stays, SameBackups, InHand, InHandAt
<1>3. ASSUME NEW g \in File, Edit(g)
      PROVE  f \notin disturbed /\ wanted'[f] = wanted[f] /\ Quiet(f)
  <2>1. /\ UNCHANGED <<backup, lease, handler>> /\ disturbed' = disturbed \cup {g}
        /\ \E c \in {[text |-> wanted[g].text + 1, neutral |-> neutral] : neutral \in BOOLEAN} :
             disk' = [disk EXCEPT ![g] = c] /\ wanted' = [wanted EXCEPT ![g] = c]
    BY <1>3 DEF Edit
  <2>2. f # g /\ f \notin disturbed
    BY <2>1
  <2>3. disk'[f] = disk[f] /\ wanted'[f] = wanted[f]
    BY <1>1, <2>1, <2>2 DEF Shapes
  <2> QED
    BY <2>1, <2>2, <2>3 DEF Quiet, Stays, SameBackups, InHand, InHandAt
<1>4. ASSUME UNCHANGED <<disk, backup, wanted, disturbed>>, ~InHand(f), ~InHand(f)',
             \/ UNCHANGED lease
             \/ \E files \in SUBSET File : lease' = CountUp(files) /\ \A g \in files : lease[g] # None
      PROVE  f \notin disturbed /\ wanted'[f] = wanted[f] /\ Quiet(f)
  BY <1>1, <1>4, CountUpKeeps, NotInHand DEF Stays, SameBackups
<1>5. CASE Recovered \/ Leased \/ Restored
  <2>1. ~InHand(f) /\ ~InHand(f)' /\ UNCHANGED <<disk, backup, wanted, disturbed>>
    BY <1>5 DEF Recovered, Leased, Restored, At, InHand, history
  <2>2. CASE UNCHANGED lease
    BY <1>4, <2>1, <2>2
  <2>3. CASE Recovered /\ lease' = CountUp(Adopt(handler.scan))
    BY <1>4, <2>1, <2>3 DEF Adopt, Leases
  <2> QED
    BY <1>5, <2>2, <2>3 DEF Recovered, Leased, Restored
<1>6. ASSUME NEW s \in Scan, Call(s) \/ Recover(s) \/ Discover(s) \/ Discovered(s) \/ Restore(s)
      PROVE  f \notin disturbed /\ wanted'[f] = wanted[f] /\ Quiet(f)
  <2>1. handler = None /\ (handler' = None \/ handler'.step = "next")
        /\ UNCHANGED <<disk, backup, lease, wanted, disturbed>>
    BY <1>6 DEF Call, Recover, Discover, Discovered, Restore, Idle, Run, history
  <2> QED
    BY <1>4, <2>1 DEF InHand
<1> QED
  BY <1>2, <1>3, <1>5, <1>6

\* What a step does to a file that it does not disturb.
LEMMA FileEffects ==
  ASSUME CountInv, BoundsInv, [Next]_vars, NEW f \in File, f \notin disturbed'
  PROVE  /\ f \notin disturbed /\ wanted'[f] = wanted[f]
         /\ \/ Quiet(f) \/ Claimed(f) \/ WrittenBack(f) \/ BackupRemoved(f)
            \/ BackedUp(f) \/ Rewritten(f) \/ GivenUp(f) \/ Forgotten(f)
BY RecoverFileEffect, WriteBackEffect, RemoveBackupEffect, LeaseFileEffect, LeaseWriteEffect,
   RestoreFileEffect, NewProcessEffect, OtherEffect DEF Next, HandlerStep, ScanStep

---------------------------------------------------------------------------
(* Files that nobody disturbed *)

\* An untouched file is as it was saved, or rewritten; so are its backups.
LEMMA UntouchedStep ==
  ASSUME CountInv, BoundsInv, UntouchedInv, [Next]_vars
  PROVE  UntouchedInv'
<1> SUFFICES ASSUME NEW f \in File, f \notin disturbed'
             PROVE  /\ disk'[f] \in {wanted'[f], Neutral(wanted'[f])}
                    /\ \A r \in Root : backup'[r][f] \in {None, wanted'[f]}
                    /\ lease'[f] # None => disk'[f] = Neutral(wanted'[f])
  BY DEF UntouchedInv, Untouched, Neutral
<1>1. /\ f \notin disturbed /\ wanted'[f] = wanted[f]
      /\ \/ Quiet(f) \/ Claimed(f) \/ WrittenBack(f) \/ BackupRemoved(f)
         \/ BackedUp(f) \/ Rewritten(f) \/ GivenUp(f) \/ Forgotten(f)
  BY FileEffects
<1>2. /\ disk[f] \in {wanted[f], Neutral(wanted[f])}
      /\ \A r \in Root : backup[r][f] \in {None, wanted[f]}
      /\ lease[f] # None => disk[f] = Neutral(wanted[f])
  BY <1>1 DEF UntouchedInv, Untouched
<1>3. wanted[f] \in Version
  BY DEF CountInv, ContentInv, Shapes
<1>4. Neutral(wanted[f]).neutral = TRUE
  BY <1>3, NeutralVersion
<1>5. CASE Quiet(f) \/ Claimed(f) \/ GivenUp(f) \/ Forgotten(f)
  BY <1>1, <1>2, <1>5 DEF Quiet, Claimed, GivenUp, Forgotten, Stays, SameBackups, Unleased
<1>6. CASE WrittenBack(f)
  BY <1>1, <1>2, <1>6 DEF WrittenBack, SameBackups, Unleased
<1>7. CASE BackupRemoved(f)
  BY <1>1, <1>2, <1>7 DEF BackupRemoved, Unleased
<1>8. CASE BackedUp(f)
  <2>1. disk[f] = wanted[f]
    BY <1>2, <1>4, <1>8 DEF BackedUp
  <2> QED
    BY <1>1, <1>2, <1>8, <2>1 DEF BackedUp, Unleased
<1>9. CASE Rewritten(f)
  BY <1>1, <1>2, <1>9 DEF Rewritten, SameBackups
<1> QED
  BY <1>1, <1>5, <1>6, <1>7, <1>8, <1>9

---------------------------------------------------------------------------
(* What a step does to a scan *)

\* What a scan was called with stays; so does what it keeps for itself.
SameCall(t) ==
  /\ scan'[t].root = scan[t].root /\ scan'[t].include = scan[t].include
  /\ scan'[t].recoverOnly = scan[t].recoverOnly
SameQueue(t) == scan'[t].blockers = scan[t].blockers
SameFiles(t) ==
  /\ scan'[t].found = scan[t].found /\ scan'[t].leased = scan[t].leased
  /\ scan'[t].blocked = scan[t].blocked

\* It queues, ...
Queues(t) ==
  /\ handler = None /\ handler' = None /\ SameFiles(t)
  /\ scan[t].state = "new" /\ scan'[t].state = "waiting" /\ scan'[t].blockers = Blockers(t)
  /\ \A s \in Scan \ {t} : scan'[s] = scan[s]

\* ... ends its recovery, ...
Recovers(t) ==
  /\ handler # None /\ handler.kind = "recover" /\ handler.step = "next"
  /\ handler.scan = t /\ handler.todo = {} /\ handler' = None
  /\ SameQueue(t) /\ scan'[t].found = scan[t].found /\ scan'[t].blocked = scan[t].blocked
  /\ IF scan[t].recoverOnly THEN scan'[t].state = "ready" /\ scan'[t].leased = scan[t].leased
     ELSE scan'[t].state = "recovered" /\ scan'[t].leased = Adopt(t)

\* ... searches, ...
Searches(t) ==
  /\ handler = None /\ handler' = None /\ SameQueue(t)
  /\ scan[t].state = "recovered" /\ scan'[t].state = "discovered"
  /\ scan'[t].found = {f \in Scope(t) : ~disk[f].neutral}
  /\ scan'[t].leased = scan[t].leased /\ scan'[t].blocked = scan[t].blocked

\* ... is ready to lint, ...
GetsReady(t) ==
  /\ handler # None /\ handler.kind = "lease" /\ handler.step = "next"
  /\ handler.scan = t /\ handler.todo = {} /\ handler' = None
  /\ SameQueue(t) /\ SameFiles(t)
  /\ scan'[t].state = "ready"

\* ... and ends.
Ends(t) ==
  /\ SameQueue(t) /\ scan'[t].found = scan[t].found /\ scan'[t].blocked = scan[t].blocked
  /\ scan'[t].state = "ended" /\ scan'[t].leased = {}

\* Meanwhile it leases the files it has to, and notes those it must not touch.
Works(t) ==
  /\ SameQueue(t) /\ scan'[t].state = scan[t].state /\ scan'[t].found = scan[t].found
  /\ scan[t].leased \subseteq scan'[t].leased
  /\ \A f \in scan'[t].leased \ scan[t].leased :
       /\ handler # None /\ handler.kind = "lease" /\ handler.scan = t /\ f \in handler.todo
  /\ \A f \in scan'[t].blocked \ scan[t].blocked :
       /\ handler # None /\ handler.kind = "recover" /\ handler.scan = t /\ f \in handler.todo
       /\ handler.step = "next" \/ f \in disturbed'

\* Another scan moves, or none.
LEMMA SameScan ==
  ASSUME NEW t \in Scan, scan'[t] = scan[t]
  PROVE  SameCall(t) /\ Works(t)
BY DEF SameCall, Works, SameQueue

\* What a step of a handler that works on a file does to a scan.
LEMMA FileStepScan ==
  ASSUME CountInv, ScopeInv, NEW t \in Scan,
         RecoverFile \/ WriteBack \/ RemoveBackup \/ LeaseFile \/ LeaseWrite \/ RestoreFile
  PROVE  SameCall(t) /\ Works(t)
<1>1. handler # None /\ Shapes /\ HandlerInv
  BY DEF RecoverFile, WriteBack, RemoveBackup, LeaseFile, LeaseWrite, RestoreFile, At, CountInv, ContentInv
<1>2. PICK s \in Scan : s = handler.scan
  BY <1>1, HandlerShape
<1>3. scan[s] \in ScanRecord /\ scan[t] \in ScanRecord /\ scan \in [Scan -> ScanRecord]
  BY <1>1 DEF Shapes
<1>4. CASE UNCHANGED scan
  BY <1>4, SameScan
<1>5. ASSUME NEW f \in File, Block(f), handler.kind = "recover", f \in handler.todo,
             handler.step = "next" \/ f \in disturbed'
      PROVE  SameCall(t) /\ Works(t)
  <2> DEFINE record == [scan[s] EXCEPT !.blocked = @ \cup {f}]
  <2>1. scan' = [scan EXCEPT ![s] = record]
    BY <1>2, <1>5 DEF Block
  <2>2. /\ record.root = scan[s].root /\ record.include = scan[s].include
        /\ record.recoverOnly = scan[s].recoverOnly /\ record.blockers = scan[s].blockers
        /\ record.state = scan[s].state /\ record.found = scan[s].found
        /\ record.leased = scan[s].leased /\ record.blocked = scan[s].blocked \cup {f}
    BY <1>3 DEF ScanRecord
  <2> HIDE DEF record
  <2>3. scan'[t] = IF t = s THEN record ELSE scan[t]
    BY <1>3, <2>1
  <2>4. CASE t = s
    BY <1>1, <1>2, <1>5, <2>2, <2>3, <2>4 DEF SameCall, Works, SameQueue
  <2> QED
    BY <2>3, <2>4, SameScan
<1>6. ASSUME NEW f \in File, scan' = [scan EXCEPT ![s].leased = @ \cup {f}],
             handler.kind = "lease", f \in handler.todo
      PROVE  SameCall(t) /\ Works(t)
  <2> DEFINE record == [scan[s] EXCEPT !.leased = @ \cup {f}]
  <2>1. scan' = [scan EXCEPT ![s] = record]
    BY <1>6
  <2>2. /\ record.root = scan[s].root /\ record.include = scan[s].include
        /\ record.recoverOnly = scan[s].recoverOnly /\ record.blockers = scan[s].blockers
        /\ record.state = scan[s].state /\ record.found = scan[s].found
        /\ record.leased = scan[s].leased \cup {f} /\ record.blocked = scan[s].blocked
    BY <1>3 DEF ScanRecord
  <2> HIDE DEF record
  <2>3. scan'[t] = IF t = s THEN record ELSE scan[t]
    BY <1>3, <2>1
  <2>4. CASE t = s
    BY <1>1, <1>2, <1>6, <2>2, <2>3, <2>4 DEF SameCall, Works, SameQueue
  <2> QED
    BY <2>3, <2>4, SameScan
<1>7. CASE RecoverFile
  <2>1. PICK f \in handler.todo : Block(f) \/ UNCHANGED scan
    BY <1>7 DEF RecoverFile
  <2>2. f \in File /\ handler.kind = "recover" /\ handler.step = "next"
    BY <1>1, <1>7, <2>1, HandlerShape DEF RecoverFile, At
  <2> QED
    BY <1>4, <1>5, <2>1, <2>2
<1>8. CASE WriteBack \/ RemoveBackup
  <2>1. PICK f \in File : f = handler.file /\ f \in handler.todo
    BY <1>1, <1>8 DEF WriteBack, RemoveBackup, At, HandlerInv, ScopeInv
  <2>2. UNCHANGED scan \/ (Block(f) /\ handler.kind = "recover" /\ f \in disturbed')
    BY <1>8, <2>1 DEF WriteBack, RemoveBackup, Fails
  <2> QED
    BY <1>4, <1>5, <2>1, <2>2
<1>9. CASE LeaseFile
  <2>1. PICK f \in handler.todo : scan' = [scan EXCEPT ![s].leased = @ \cup {f}] \/ UNCHANGED scan
    BY <1>2, <1>9 DEF LeaseFile
  <2>2. f \in File /\ handler.kind = "lease"
    BY <1>1, <1>9, <2>1, HandlerShape DEF LeaseFile, At
  <2> QED
    BY <1>4, <1>6, <2>1, <2>2
<1>10. CASE LeaseWrite
  <2>1. PICK f \in File : f = handler.file /\ f \in handler.todo
    BY <1>1, <1>10 DEF LeaseWrite, At, HandlerInv, ScopeInv
  <2>2. handler.kind = "lease" /\ (scan' = [scan EXCEPT ![s].leased = @ \cup {f}] \/ UNCHANGED scan)
    BY <1>2, <1>10, <2>1 DEF LeaseWrite, At
  <2> QED
    BY <1>4, <1>6, <2>1, <2>2
<1>11. CASE RestoreFile
  BY <1>4, <1>11 DEF RestoreFile
<1> QED
  BY <1>7, <1>8, <1>9, <1>10, <1>11

\* What any step does to a scan.
LEMMA ScanEffects ==
  ASSUME CountInv, ScopeInv, NEW t \in Scan, [Next]_vars
  PROVE  /\ SameCall(t)
         /\ Queues(t) \/ Recovers(t) \/ Searches(t) \/ GetsReady(t) \/ Ends(t) \/ Works(t)
<1> DEFINE Goal == /\ SameCall(t)
                   /\ Queues(t) \/ Recovers(t) \/ Searches(t) \/ GetsReady(t) \/ Ends(t) \/ Works(t)
<1>1. Shapes /\ scan \in [Scan -> ScanRecord] /\ scan[t] \in ScanRecord
  BY DEF CountInv, ContentInv, Shapes
<1>2. CASE RecoverFile \/ WriteBack \/ RemoveBackup \/ LeaseFile \/ LeaseWrite \/ RestoreFile
  BY <1>2, FileStepScan
<1>3. CASE UNCHANGED scan
  BY <1>3, SameScan
<1>4. ASSUME NEW s \in Scan, NEW record, scan' = [scan EXCEPT ![s] = record],
             s = t /\ scan'[t] = record => Goal
      PROVE  Goal
  <2>1. CASE s = t
    BY <1>1, <1>4, <2>1
  <2>2. CASE s # t
    BY <1>1, <1>4, <2>2, SameScan
  <2> QED
    BY <2>1, <2>2
<1> HIDE DEF Goal
<1>5. ASSUME NEW s \in Scan, Call(s)
      PROVE  Goal
  <2> DEFINE record == [scan[s] EXCEPT !.state = "waiting", !.blockers = Blockers(s)]
  <2>1. scan' = [scan EXCEPT ![s] = record]
    BY <1>5 DEF Call
  <2>2. s = t => /\ record.root = scan[t].root /\ record.include = scan[t].include
                 /\ record.recoverOnly = scan[t].recoverOnly /\ record.blockers = Blockers(t)
                 /\ record.state = "waiting" /\ record.found = scan[t].found
                 /\ record.leased = scan[t].leased /\ record.blocked = scan[t].blocked
    BY <1>1 DEF ScanRecord
  <2> HIDE DEF record
  <2>3. s = t /\ scan'[t] = record => Goal
    BY <1>1, <1>5, <2>1, <2>2 DEF Goal, SameCall, Queues, SameFiles, Call, Idle
  <2> QED
    BY <1>4, <2>1, <2>3
<1>6. ASSUME NEW s \in Scan, Discover(s)
      PROVE  Goal
  <2> DEFINE record == [scan[s] EXCEPT !.state = "discovered", !.found = {f \in Scope(s) : ~disk[f].neutral}]
  <2>1. scan' = [scan EXCEPT ![s] = record]
    BY <1>6 DEF Discover
  <2>2. s = t => /\ record.root = scan[t].root /\ record.include = scan[t].include
                 /\ record.recoverOnly = scan[t].recoverOnly /\ record.blockers = scan[t].blockers
                 /\ record.state = "discovered" /\ record.found = {f \in Scope(t) : ~disk[f].neutral}
                 /\ record.leased = scan[t].leased /\ record.blocked = scan[t].blocked
    BY <1>1 DEF ScanRecord
  <2> HIDE DEF record
  <2>3. s = t /\ scan'[t] = record => Goal
    BY <1>6, <2>2 DEF Goal, SameCall, Searches, SameQueue, Discover, Idle
  <2> QED
    BY <1>4, <2>1, <2>3
<1>7. CASE Recovered \/ Leased \/ Restored
  <2>1. handler # None /\ handler.step = "next" /\ handler.todo = {} /\ handler' = None
    BY <1>7 DEF Recovered, Leased, Restored, At
  <2>2. PICK s \in Scan : s = handler.scan
    BY <1>1, <2>1, HandlerShape
  <2>3. CASE Recovered
    <3> DEFINE record == IF scan[s].recoverOnly THEN [scan[s] EXCEPT !.state = "ready"]
                         ELSE [scan[s] EXCEPT !.state = "recovered", !.leased = Adopt(s)]
    <3>1. scan' = [scan EXCEPT ![s] = record]
      BY <1>1, <2>2, <2>3 DEF Recovered
    <3>2. s = t => /\ record.root = scan[t].root /\ record.include = scan[t].include
                   /\ record.recoverOnly = scan[t].recoverOnly /\ record.blockers = scan[t].blockers
                   /\ record.found = scan[t].found /\ record.blocked = scan[t].blocked
                   /\ IF scan[t].recoverOnly THEN record.state = "ready" /\ record.leased = scan[t].leased
                      ELSE record.state = "recovered" /\ record.leased = Adopt(t)
      <4>1. CASE scan[s].recoverOnly
        BY <1>1, <4>1 DEF ScanRecord
      <4>2. CASE ~scan[s].recoverOnly
        BY <1>1, <4>2 DEF ScanRecord
      <4> QED
        BY <4>1, <4>2
    <3>3. handler.kind = "recover"
      BY <2>3 DEF Recovered, At
    <3> HIDE DEF record
    <3>4. s = t /\ scan'[t] = record => Goal
      BY <2>1, <2>2, <3>2, <3>3 DEF Goal, SameCall, Recovers, SameQueue
    <3> QED
      BY <1>4, <3>1, <3>4 DEF Goal
  <2>4. CASE Leased
    <3> DEFINE record == [scan[s] EXCEPT !.state = "ready"]
    <3>1. scan' = [scan EXCEPT ![s] = record] /\ handler.kind = "lease"
      BY <2>2, <2>4 DEF Leased, At
    <3>2. s = t => /\ record.root = scan[t].root /\ record.include = scan[t].include
                   /\ record.recoverOnly = scan[t].recoverOnly /\ record.blockers = scan[t].blockers
                   /\ record.state = "ready" /\ record.found = scan[t].found
                   /\ record.leased = scan[t].leased /\ record.blocked = scan[t].blocked
      BY <1>1 DEF ScanRecord
    <3> HIDE DEF record
    <3>3. s = t /\ scan'[t] = record => Goal
      BY <2>1, <2>2, <3>1, <3>2 DEF Goal, SameCall, GetsReady, SameQueue, SameFiles
    <3> QED
      BY <1>4, <3>1, <3>3 DEF Goal
  <2>5. CASE Restored
    <3> DEFINE record == [scan[s] EXCEPT !.state = "ended", !.leased = {}]
    <3>1. scan' = [scan EXCEPT ![s] = record]
      BY <1>1, <2>2, <2>5 DEF Restored
    <3>2. s = t => /\ record.root = scan[t].root /\ record.include = scan[t].include
                   /\ record.recoverOnly = scan[t].recoverOnly /\ record.blockers = scan[t].blockers
                   /\ record.state = "ended" /\ record.found = scan[t].found
                   /\ record.leased = {} /\ record.blocked = scan[t].blocked
      BY <1>1 DEF ScanRecord
    <3> HIDE DEF record
    <3>3. s = t /\ scan'[t] = record => Goal
      BY <3>2 DEF Goal, SameCall, Ends, SameQueue
    <3> QED
      BY <1>4, <3>1, <3>3 DEF Goal
  <2> QED
    BY <1>7, <2>3, <2>4, <2>5
<1>8. CASE Exited \/ Killed
  <2>1. scan'[t] = IF t \in Active THEN [scan[t] EXCEPT !.state = "ended", !.leased = {}] ELSE scan[t]
    BY <1>8 DEF Exited, Killed, NewProcess
  <2>2. CASE t \in Active
    <3>1. scan'[t] = [scan[t] EXCEPT !.state = "ended", !.leased = {}]
      BY <2>1, <2>2
    <3> QED
      BY <1>1, <3>1 DEF Goal, SameCall, Ends, SameQueue, ScanRecord
  <2>3. CASE t \notin Active
    BY <2>1, <2>3, SameScan DEF Goal
  <2> QED
    BY <2>2, <2>3
<1>9. UNCHANGED vars \/ Exit \/ (\E f \in File : Edit(f))
        \/ (\E s \in Scan : Recover(s) \/ Discovered(s) \/ Restore(s)) => UNCHANGED scan
  BY DEF vars, Exit, Edit, Recover, Discovered, Restore
<1> QED
  BY <1>2, <1>3, <1>5, <1>6, <1>7, <1>8, <1>9 DEF Goal, Next, HandlerStep, ScanStep

---------------------------------------------------------------------------
(* What a step does to the handler *)

HasFile == handler.step # "next" => handler.file \in handler.todo

\* The recovery drops a file that has lost its backup, or that is not the
\* rewritten form of it.
RecoveryGoesOn ==
  /\ handler # None /\ handler.kind = "recover" /\ handler'.kind = "recover"
  /\ handler'.scan = handler.scan
  /\ handler.root = scan[handler.scan].root => handler'.root = handler.root
  /\ UNCHANGED lease /\ \A r \in Root, f \in File : backup'[r][f] \in {backup[r][f], None}
  /\ handler'.todo \subseteq handler.todo /\ HasFile'
  /\ \A f \in handler.todo \ handler'.todo :
       \/ f \in disturbed'
       \/ backup'[handler.root][f] = None
       \/ LET b == backup[scan[handler.scan].root][f] IN disk[f] # b /\ disk[f] # Neutral(b)

\* A scan drops a file that it has leased, that has no directive, or that has a
\* backup and no lease.
LeasingGoesOn ==
  /\ handler # None /\ handler.kind = "lease" /\ handler'.kind = "lease"
  /\ handler'.scan = handler.scan
  /\ scan[handler.scan].leased \subseteq scan'[handler.scan].leased
  /\ handler'.todo \subseteq handler.todo /\ HasFile'
  /\ \A f \in handler.todo \ handler'.todo :
       \/ f \in disturbed'
       \/ f \in scan'[handler.scan].leased
       \/ /\ lease[f] = None /\ ~InHand(f)
          /\ disk[f].neutral \/ \E r \in Root : backup[r][f] # None

Restoring == handler.kind = "restore" /\ HasFile

\* What any step does to the handler.
LEMMA HandlerEffects ==
  ASSUME CountInv, ScopeInv, [Next]_vars
  PROVE  \/ handler' = None \/ RecoveryGoesOn \/ LeasingGoesOn \/ Restoring'
         \/ \E s \in Scan : Recover(s) \/ Discovered(s)
<1>1. Shapes /\ HandlerInv /\ (handler # None => HasFile)
  BY DEF CountInv, ContentInv, ScopeInv, HasFile
<1>2. CASE UNCHANGED vars
  BY <1>1, <1>2, HandlerShape DEF vars, RecoveryGoesOn, LeasingGoesOn, Restoring, HasFile
<1>3. CASE \/ Exit \/ Exited \/ Killed \/ Recovered \/ Leased \/ Restored
           \/ \E f \in File : Edit(f)
           \/ \E s \in Scan : Call(s) \/ Discover(s)
  BY <1>3 DEF Exit, Idle, Exited, Killed, NewProcess, Recovered, Leased, Restored, Edit, Call, Discover
<1>4. ASSUME NEW s \in Scan, Restore(s)
      PROVE  Restoring'
  BY <1>4 DEF Restore, Run, Restoring, HasFile
<1>5. CASE RecoverFile
  <2>1. handler # None /\ handler.kind = "recover" /\ handler.step = "next" /\ handler \in Handler
        /\ UNCHANGED <<backup, lease>>
    BY <1>1, <1>5, HandlerShape DEF RecoverFile, At
  <2>2. PICK r \in Root : r = scan[handler.scan].root
    BY <1>1, <2>1, HandlerShape
  <2>3. PICK f \in handler.todo :
          \/ handler' = Go("remove", f, r, backup[r][f])
          \/ handler' = Go("write", f, r, backup[r][f])
          \/ handler' = Pass(f) /\ disk[f] # backup[r][f] /\ disk[f] # Neutral(backup[r][f])
    BY <1>5, <2>2 DEF RecoverFile, IsRewritten
  <2>4. f \in File /\ backup[r][f] \in Version \cup {Torn, None}
    BY <1>1, <2>1, <2>3, HandlerShape DEF Shapes
  <2>5. CASE handler' = Pass(f) /\ disk[f] # backup[r][f] /\ disk[f] # Neutral(backup[r][f])
    <3>1. /\ handler'.kind = "recover" /\ handler'.scan = handler.scan
          /\ handler'.todo = handler.todo \ {f} /\ handler'.step = "next"
      BY <2>1, <2>4, <2>5, HandlerMoves
    <3>2. handler'.root = handler.root
      BY <2>1, <2>5 DEF Pass, Handler
    <3> QED
      BY <2>1, <2>2, <2>5, <3>1, <3>2 DEF RecoveryGoesOn, HasFile
  <2>6. CASE handler' = Go("remove", f, r, backup[r][f]) \/ handler' = Go("write", f, r, backup[r][f])
    <3>1. /\ handler'.kind = "recover" /\ handler'.scan = handler.scan
          /\ handler'.todo = handler.todo /\ handler'.file = f /\ handler'.root = r
      BY <2>1, <2>4, <2>6, HandlerMoves
    <3> QED
      BY <2>1, <2>2, <2>3, <3>1 DEF RecoveryGoesOn, HasFile
  <2> QED
    BY <2>3, <2>5, <2>6
<1>6. CASE WriteBack \/ RemoveBackup
  <2>1. handler # None /\ handler.step # "next" /\ handler.kind \in {"recover", "restore"} /\ handler \in Handler
    BY <1>1, <1>6, HandlerShape DEF WriteBack, RemoveBackup, At
  <2>2. PICK g \in File, r \in Root, s \in Scan : g = handler.file /\ r = handler.root /\ s = handler.scan
    BY <1>1, <2>1, HandlerShape DEF HandlerInv
  <2>3. g \in handler.todo
    BY <1>1, <2>1, <2>2 DEF HasFile
  <2>4. UNCHANGED lease /\ \A q \in Root, f \in File : backup'[q][f] \in {backup[q][f], None}
    BY <1>1, <1>6, <2>2 DEF WriteBack, RemoveBackup, Shapes
  <2>5. CASE handler' = [handler EXCEPT !.step = "remove"]
    <3>1. /\ handler'.kind = handler.kind /\ handler'.scan = handler.scan /\ handler'.root = handler.root
          /\ handler'.todo = handler.todo /\ handler'.file = handler.file
      BY <2>1, <2>5 DEF Handler
    <3> QED
      BY <2>1, <2>2, <2>3, <2>4, <3>1 DEF RecoveryGoesOn, Restoring, HasFile
  <2>6. CASE /\ handler' = Pass(g)
             /\ g \in disturbed' \/ backup' = [backup EXCEPT ![r][g] = None]
    <3>1. /\ handler'.kind = handler.kind /\ handler'.scan = handler.scan
          /\ handler'.todo = handler.todo \ {g} /\ handler'.step = "next"
      BY <2>1, <2>6, HandlerMoves
    <3>2. handler'.root = handler.root
      BY <2>1, <2>6 DEF Pass, Handler
    <3>3. g \in disturbed' \/ backup'[r][g] = None
      BY <1>1, <2>6 DEF Shapes
    <3> QED
      BY <2>1, <2>2, <2>4, <3>1, <3>2, <3>3 DEF RecoveryGoesOn, Restoring, HasFile
  <2> QED
    BY <1>6, <2>2, <2>5, <2>6 DEF WriteBack, RemoveBackup, Fails
<1>7. CASE LeaseFile
  <2>1. handler # None /\ handler.kind = "lease" /\ handler.step = "next" /\ handler \in Handler
    BY <1>1, <1>7, HandlerShape DEF LeaseFile, At
  <2>2. PICK s \in Scan, r \in Root : s = handler.scan /\ r = scan[s].root
    BY <1>1, <2>1, HandlerShape
  <2>3. PICK f \in handler.todo :
          \/ handler' = Go("write", f, r, disk[f])
          \/ /\ handler' = Pass(f)
             /\ \/ scan' = [scan EXCEPT ![s].leased = @ \cup {f}]
                \/ f \in disturbed'
                \/ lease[f] = None /\ (disk[f].neutral \/ backup[r][f] # None)
    BY <1>7, <2>2 DEF LeaseFile, Fails
  <2>4. f \in File /\ disk[f] \in Version \cup {Torn, None}
    BY <1>1, <2>1, <2>3, HandlerShape DEF Shapes
  <2>5. scan[s].leased \subseteq scan'[s].leased
    BY <1>1, <1>7, <2>2 DEF LeaseFile, Shapes, ScanRecord
  <2>6. CASE handler' = Go("write", f, r, disk[f])
    <3>1. /\ handler'.kind = "lease" /\ handler'.scan = handler.scan
          /\ handler'.todo = handler.todo /\ handler'.file = f
      BY <2>1, <2>4, <2>6, HandlerMoves
    <3> QED
      BY <2>1, <2>2, <2>3, <2>5, <3>1 DEF LeasingGoesOn, HasFile
  <2>7. CASE /\ handler' = Pass(f)
             /\ \/ scan' = [scan EXCEPT ![s].leased = @ \cup {f}]
                \/ f \in disturbed'
                \/ lease[f] = None /\ (disk[f].neutral \/ backup[r][f] # None)
    <3>1. /\ handler'.kind = "lease" /\ handler'.scan = handler.scan
          /\ handler'.todo = handler.todo \ {f} /\ handler'.step = "next"
      BY <2>1, <2>4, <2>7, HandlerMoves
    <3>2. scan' = [scan EXCEPT ![s].leased = @ \cup {f}] => f \in scan'[s].leased
      BY <1>1 DEF Shapes, ScanRecord
    <3>3. ~InHand(f)
      BY <2>1 DEF InHand
    <3> QED
      BY <2>1, <2>2, <2>7, <2>5, <3>1, <3>2, <3>3 DEF LeasingGoesOn, HasFile
  <2> QED
    BY <2>3, <2>6, <2>7
<1>8. CASE LeaseWrite
  <2>1. handler # None /\ handler.kind = "lease" /\ handler.step = "write" /\ handler \in Handler
    BY <1>1, <1>8, HandlerShape DEF LeaseWrite, At
  <2>2. PICK g \in File, s \in Scan : g = handler.file /\ s = handler.scan
    BY <1>1, <2>1, HandlerShape DEF HandlerInv
  <2>3. CASE Run("restore", s, scan[s].leased)
    BY <2>3 DEF Run, Restoring, HasFile
  <2>4. CASE scan' = [scan EXCEPT ![s].leased = @ \cup {g}] /\ handler' = Pass(g)
    <3>1. /\ handler'.kind = "lease" /\ handler'.scan = handler.scan
          /\ handler'.todo = handler.todo \ {g} /\ handler'.step = "next"
      BY <2>1, <2>4, HandlerMoves
    <3>2. g \in scan'[s].leased /\ scan[s].leased \subseteq scan'[s].leased
      BY <1>1, <2>4 DEF Shapes, ScanRecord
    <3> QED
      BY <2>1, <2>2, <3>1, <3>2 DEF LeasingGoesOn, HasFile
  <2> QED
    BY <1>8, <2>2, <2>3, <2>4 DEF LeaseWrite
<1>9. CASE RestoreFile
  <2>1. handler # None /\ handler.kind = "restore" /\ handler.step = "next" /\ handler \in Handler
    BY <1>1, <1>9, HandlerShape DEF RestoreFile, At
  <2>2. PICK f \in handler.todo :
          \/ handler' = Pass(f)
          \/ /\ lease[f] # None
             /\ \E step \in {"write", "remove"} : handler' = Go(step, f, lease[f].root, lease[f].original)
    BY <1>9 DEF RestoreFile
  <2>3. f \in File
    BY <1>1, <2>1, <2>2, HandlerShape
  <2>4. lease[f] # None => lease[f].root \in Root /\ lease[f].original \in Version
    BY <1>1, <2>3 DEF Shapes, Lease
  <2>5. handler'.kind = "restore" /\ (handler'.step = "next" \/ (handler'.file = f /\ handler'.todo = handler.todo))
    BY <2>1, <2>2, <2>3, <2>4, HandlerMoves
  <2> QED
    BY <2>2, <2>5 DEF Restoring, HasFile
<1> QED
  BY <1>2, <1>3, <1>4, <1>5, <1>6, <1>7, <1>8, <1>9 DEF Next, HandlerStep, ScanStep

---------------------------------------------------------------------------
(* The scopes, the queue and the bounds *)

\* Nothing is counted beyond its bound, and a kill is never forgotten.
LEMMA BoundsStep ==
  ASSUME CountInv, BoundsInv, [Next]_vars
  PROVE  BoundsInv' /\ (crashes' = 0 => crashes = 0)
<1>1. Shapes /\ HandlerInv
  BY DEF CountInv, ContentInv
<1>2. CASE UNCHANGED <<disturbed, crashes, failures>>
  BY <1>2 DEF BoundsInv
<1>3. ASSUME NEW f \in File, Fails(f)
      PROVE  BoundsInv' /\ (crashes' = 0 => crashes = 0)
  BY <1>3, LeasesAssumption DEF Fails, BoundsInv
<1>4. CASE RecoverFile \/ RestoreFile
  BY <1>2, <1>4 DEF RecoverFile, RestoreFile, history
<1>5. CASE WriteBack \/ RemoveBackup \/ LeaseWrite
  <2>1. handler.file \in File
    BY <1>1, <1>5 DEF WriteBack, RemoveBackup, LeaseWrite, At, HandlerInv
  <2> QED
    BY <1>2, <1>3, <1>5, <2>1 DEF WriteBack, RemoveBackup, LeaseWrite, history
<1>6. CASE LeaseFile
  <2>1. PICK f \in handler.todo : UNCHANGED history \/ Fails(f)
    BY <1>6 DEF LeaseFile
  <2>2. f \in File
    BY <1>1, <1>6, <2>1, HandlerShape DEF LeaseFile, At
  <2> QED
    BY <1>2, <1>3, <2>1, <2>2 DEF history
<1>7. CASE Killed
  <2>1. crashes' = crashes + 1 /\ crashes < MaxCrashes /\ UNCHANGED failures
    BY <1>7 DEF Killed
  <2>2. disturbed' \subseteq File
    BY <1>1, <1>7 DEF Killed, At, HandlerInv, BoundsInv
  <2> QED
    BY <2>1, <2>2, LeasesAssumption DEF BoundsInv
<1>8. ASSUME NEW f \in File, Edit(f)
      PROVE  BoundsInv' /\ (crashes' = 0 => crashes = 0)
  BY <1>8 DEF Edit, BoundsInv
<1>9. CASE \/ UNCHANGED vars \/ Exit \/ Exited \/ Recovered \/ Leased \/ Restored
           \/ \E s \in Scan : Call(s) \/ Recover(s) \/ Discover(s) \/ Discovered(s) \/ Restore(s)
  BY <1>2, <1>9 DEF vars, Exit, Exited, Recovered, Leased, Restored, Call, Recover, Discover,
                    Discovered, Restore, history
<1> QED
  BY <1>4, <1>5, <1>6, <1>7, <1>8, <1>9 DEF Next, HandlerStep, ScanStep

\* A scan looks at nothing but its scope, or its root.
LEMMA ScopeKept ==
  ASSUME CountInv, ScopeInv, [Next]_vars
  PROVE  ScopeInv'
<1>1. ASSUME NEW t \in Scan
      PROVE  /\ Scope(t)' = Scope(t) /\ Below(t)' = Below(t) /\ Scope(t) \subseteq Below(t)
             /\ scan'[t].found \subseteq Scope(t)
             /\ scan'[t].leased \subseteq Scope(t)
             /\ scan'[t].blocked \subseteq Below(t)
  <2>1. /\ SameCall(t)
        /\ Queues(t) \/ Recovers(t) \/ Searches(t) \/ GetsReady(t) \/ Ends(t) \/ Works(t)
    BY ScanEffects
  <2>2. /\ Scope(t) \subseteq Below(t) /\ scan[t].found \subseteq Scope(t)
        /\ scan[t].leased \subseteq Scope(t) /\ scan[t].blocked \subseteq Below(t)
    BY DEF ScopeInv
  <2>3. Scope(t)' = Scope(t) /\ Below(t)' = Below(t)
    BY <2>1 DEF SameCall, Scope, Below
  <2>4. CASE Queues(t) \/ GetsReady(t) \/ Ends(t)
    BY <2>2, <2>3, <2>4 DEF Queues, GetsReady, Ends, SameFiles
  <2>5. CASE Recovers(t) \/ Searches(t)
    BY <2>2, <2>3, <2>5 DEF Recovers, Searches, Adopt
  <2>6. CASE Works(t)
    BY <2>2, <2>3, <2>6 DEF Works, ScopeInv
  <2> QED
    BY <2>1, <2>2, <2>3, <2>4, <2>5, <2>6
<1>2. handler' # None =>
        /\ handler'.kind = "recover" => handler'.todo \subseteq FilesOf[scan'[handler'.scan].root]
        /\ handler'.kind = "lease" => handler'.todo \subseteq scan'[handler'.scan].include
        /\ HasFile'
  <2>1. Shapes
    BY DEF CountInv, ContentInv
  <2>2. CASE RecoveryGoesOn
    <3>1. PICK s \in Scan : s = handler.scan
      BY <2>1, <2>2, HandlerShape DEF RecoveryGoesOn
    <3> QED
      BY <1>1, <2>2, <3>1 DEF RecoveryGoesOn, ScopeInv, Scope, Below
  <2>3. CASE LeasingGoesOn
    <3>1. PICK s \in Scan : s = handler.scan
      BY <2>1, <2>3, HandlerShape DEF LeasingGoesOn
    <3> QED
      BY <1>1, <2>3, <3>1 DEF LeasingGoesOn, ScopeInv, Scope, Below
  <2>4. CASE Restoring'
    BY <2>4 DEF Restoring
  <2>5. ASSUME NEW s \in Scan, Recover(s)
        PROVE  /\ handler'.kind = "recover" => handler'.todo \subseteq FilesOf[scan'[handler'.scan].root]
               /\ handler'.kind # "lease" /\ HasFile'
    <3>1. /\ handler'.kind = "recover" /\ handler'.scan = s /\ handler'.step = "next"
          /\ handler'.todo = Orphans(scan[s].root) /\ UNCHANGED scan
      BY <2>5 DEF Recover, Run
    <3> QED
      BY <3>1 DEF Below, Orphans, HasFile
  <2>6. ASSUME NEW s \in Scan, Discovered(s)
        PROVE  /\ handler'.kind = "lease" => handler'.todo \subseteq scan'[handler'.scan].include
               /\ handler'.kind # "recover" /\ HasFile'
    <3>1. /\ handler'.kind = "lease" /\ handler'.scan = s /\ handler'.step = "next"
          /\ handler'.todo \subseteq scan[s].found \cup Adopt(s) /\ UNCHANGED scan
      BY <2>6 DEF Discovered, Run
    <3>2. scan[s].found \cup Adopt(s) \subseteq Scope(s)
      BY DEF ScopeInv, Adopt
    <3> QED
      BY <3>1, <3>2 DEF Scope, HasFile
  <2> QED
    BY <2>2, <2>3, <2>4, <2>5, <2>6, HandlerEffects
<1> QED
  BY <1>1, <1>2 DEF ScopeInv, HasFile, Scope, Below

\* Of two scans that are initialised, neither or both called in this step.
LEMMA QueueMoves ==
  ASSUME CountInv, ScopeInv, [Next]_vars, NEW t \in Scan
  PROVE  /\ scan'[t].root = scan[t].root
         /\ scan'[t].state = "new" => scan[t].state = "new"
         /\ ~Queues(t) => /\ scan'[t].blockers = scan[t].blockers
                          /\ t \in Initializing' => t \in Initializing
         /\ t \in Begun' =>
              \/ t \in Begun
              \/ handler # None /\ handler.kind = "recover" /\ handler.scan = t
         /\ t \in Begun' => ~Queues(t)
<1>1. /\ SameCall(t)
      /\ Queues(t) \/ Recovers(t) \/ Searches(t) \/ GetsReady(t) \/ Ends(t) \/ Works(t)
  BY ScanEffects
<1>2. CASE Queues(t)
  BY <1>1, <1>2 DEF Queues, SameCall, Begun
<1>3. CASE Recovers(t)
  <2>1. scan[t].state = "waiting"
    BY <1>3 DEF Recovers, CountInv, StateInv
  <2> QED
    BY <1>1, <1>3, <2>1 DEF Recovers, Queues, SameCall, SameQueue, Begun, Initializing
<1>4. CASE Searches(t) \/ Works(t)
  BY <1>1, <1>4 DEF Searches, Works, Queues, SameCall, SameQueue, Begun, Initializing
<1>5. CASE GetsReady(t) \/ Ends(t)
  BY <1>1, <1>5 DEF GetsReady, Ends, SameCall, SameQueue, Begun, Initializing
<1> QED
  BY <1>1, <1>2, <1>3, <1>4, <1>5

\* Overlapping initialisations stay in line.
LEMMA QueueKept ==
  ASSUME CountInv, ScopeInv, QueueInv, [Next]_vars
  PROVE  QueueInv'
<1>1. \A s, t \in Scan : Overlap(s, t)' <=> Overlap(s, t)
  BY QueueMoves DEF Overlap, Below
<1>2. \A s, t \in Scan : Overlap(s, t) <=> Overlap(t, s)
  BY DEF Overlap
<1>3. ASSUME NEW s \in Scan, NEW t \in Scan, t \in scan'[s].blockers
      PROVE  scan'[t].state # "new"
  <2>1. CASE Queues(s)
    <3>1. t \in Initializing
      BY <1>3, <2>1 DEF Queues, Blockers
    <3> QED
      BY <3>1, QueueMoves DEF Initializing
  <2>2. CASE ~Queues(s)
    <3>1. t \in scan[s].blockers
      BY <1>3, <2>2, QueueMoves
    <3> QED
      BY <3>1, QueueMoves DEF QueueInv
  <2> QED
    BY <2>1, <2>2
<1>4. ASSUME NEW s \in Initializing', NEW t \in Initializing', s # t, Overlap(s, t)'
      PROVE  s \in scan'[t].blockers \/ t \in scan'[s].blockers
  <2>1. s \in Scan /\ t \in Scan /\ Overlap(s, t) /\ Overlap(t, s)
    BY <1>1, <1>2, <1>4 DEF Initializing
  <2>2. ASSUME NEW u \in {s, t}, NEW v \in {s, t}, u # v, Queues(u)
        PROVE  v \in scan'[u].blockers
    <3>1. scan'[v] = scan[v]
      BY <2>1, <2>2 DEF Queues
    <3>2. v \in Initializing /\ Overlap(u, v)
      BY <1>4, <2>1, <2>2, <3>1 DEF Initializing
    <3> QED
      BY <2>2, <3>2 DEF Queues, Blockers
  <2>3. CASE ~Queues(s) /\ ~Queues(t)
    BY <1>4, <2>1, <2>3, QueueMoves DEF QueueInv
  <2> QED
    BY <1>4, <2>2, <2>3
<1>5. ASSUME NEW s \in Scan, scan'[s].blockers = scan[s].blockers, scan[s].blockers \cap Initializing = {}
      PROVE  scan'[s].blockers \cap Initializing' = {}
  <2> SUFFICES ASSUME NEW t \in scan[s].blockers, t \in Initializing'
               PROVE  FALSE
    BY <1>5
  <2>1. t \in Scan /\ scan[t].state # "new"
    BY DEF QueueInv, Initializing
  <2>2. ~Queues(t)
    BY <2>1 DEF Queues
  <2> QED
    BY <1>5, <2>1, <2>2, QueueMoves
<1>6. ASSUME NEW s \in Begun'
      PROVE  scan'[s].blockers \cap Initializing' = {}
  <2>1. s \in Scan
    BY DEF Begun
  <2>2. scan'[s].blockers = scan[s].blockers
    BY <2>1, QueueMoves
  <2>3. scan[s].blockers \cap Initializing = {}
    BY <2>1, QueueMoves DEF QueueInv
  <2> QED
    BY <1>5, <2>1, <2>2, <2>3
<1>7. ASSUME handler' # None, handler'.kind = "recover"
      PROVE  scan'[handler'.scan].blockers \cap Initializing' = {}
  <2>1. PICK s \in Scan : Recover(s) \/ (RecoveryGoesOn /\ s = handler.scan)
    <3>1. Shapes
      BY DEF CountInv, ContentInv
    <3>2. RecoveryGoesOn \/ \E s \in Scan : Recover(s)
      BY <1>7, HandlerEffects DEF LeasingGoesOn, Restoring, Discovered, Run
    <3>3. RecoveryGoesOn => handler.scan \in Scan
      BY <3>1, HandlerShape DEF RecoveryGoesOn
    <3> QED
      BY <3>2, <3>3
  <2>2. CASE Recover(s)
    BY <2>2 DEF Recover, Run, Initializing
  <2>3. CASE RecoveryGoesOn /\ s = handler.scan
    <3>1. scan[s].state = "waiting" /\ scan[s].blockers \cap Initializing = {}
      BY <2>3 DEF RecoveryGoesOn, CountInv, StateInv, QueueInv
    <3>2. ~Queues(s)
      BY <3>1 DEF Queues
    <3> QED
      BY <1>5, <2>3, <3>1, <3>2, QueueMoves DEF RecoveryGoesOn
  <2> QED
    BY <2>1, <2>2, <2>3
<1> QED
  BY <1>3, <1>4, <1>6, <1>7 DEF QueueInv

\* A handler runs for a scan that has begun and has not ended.
LEMMA WorkKept ==
  ASSUME CountInv, WorkInv, [Next]_vars
  PROVE  WorkInv'
<1> SUFFICES ASSUME handler' # None
             PROVE  handler'.scan \in Active'
  BY DEF WorkInv
<1>1. Shapes /\ HandlerInv
  BY DEF CountInv, ContentInv
<1>2. CASE UNCHANGED vars
  BY <1>2 DEF vars, WorkInv, Active
<1>3. CASE \E s \in Scan : Recover(s) \/ Discovered(s) \/ Restore(s)
  <2>1. PICK s \in Scan : Recover(s) \/ Discovered(s) \/ Restore(s)
    BY <1>3
  <2>2. UNCHANGED scan /\ handler'.scan = s /\ s \in Active
    BY <2>1 DEF Recover, Discovered, Restore, Run, Active
  <2> QED
    BY <2>2 DEF Active
<1>4. CASE RecoverFile \/ WriteBack \/ RemoveBackup \/ LeaseFile \/ LeaseWrite \/ RestoreFile
  <2>1. handler # None /\ handler \in Handler
    BY <1>1, <1>4, HandlerShape DEF RecoverFile, WriteBack, RemoveBackup, LeaseFile, LeaseWrite, RestoreFile, At
  <2>2. PICK s \in Scan : s = handler.scan
    BY <2>1, HandlerShape, <1>1
  <2>3. \A f \in File, step \in {"write", "remove"} :
          /\ Pass(f).scan = s /\ [handler EXCEPT !.step = step].scan = s
          /\ \A r, c : Go(step, f, r, c).scan = s
    BY <2>1, <2>2 DEF Pass, Go, Handler
  <2>4. ASSUME NEW g \in File,
               \/ UNCHANGED scan
               \/ scan' = [scan EXCEPT ![s].leased = @ \cup {g}]
               \/ scan' = [scan EXCEPT ![s].blocked = @ \cup {g}]
        PROVE  scan'[s].state = scan[s].state
    <3>1. scan \in [Scan -> ScanRecord] /\ scan[s] \in ScanRecord
      BY <1>1 DEF Shapes
    <3>2. /\ [scan[s] EXCEPT !.leased = @ \cup {g}].state = scan[s].state
          /\ [scan[s] EXCEPT !.blocked = @ \cup {g}].state = scan[s].state
      BY <3>1 DEF ScanRecord
    <3> QED
      BY <2>4, <3>1, <3>2
  <2>5. handler.todo \subseteq File /\ (handler.step # "next" => handler.file \in File)
    BY <1>1, <2>1, HandlerShape DEF HandlerInv
  <2>6. PICK g \in File :
          /\ handler'.scan = s
          /\ \/ UNCHANGED scan
             \/ scan' = [scan EXCEPT ![s].leased = @ \cup {g}]
             \/ scan' = [scan EXCEPT ![s].blocked = @ \cup {g}]
    <3>1. CASE RecoverFile
      <4>1. PICK f \in handler.todo :
              /\ handler' = Pass(f) \/ \E step \in {"write", "remove"} : \E r, c : handler' = Go(step, f, r, c)
              /\ UNCHANGED scan \/ Block(f)
        BY <3>1 DEF RecoverFile
      <4>2. f \in File /\ handler'.scan = s
        BY <2>3, <2>5, <4>1
      <4>3. UNCHANGED scan \/ scan' = [scan EXCEPT ![s].blocked = @ \cup {f}]
        BY <2>2, <4>1 DEF Block
      <4> QED
        BY <4>2, <4>3
    <3>2. CASE WriteBack
      <4>1. handler.file \in File
        BY <2>5, <3>2 DEF WriteBack, At
      <4> QED
        BY <2>2, <2>3, <3>2, <4>1 DEF WriteBack, Block
    <3>3. CASE RemoveBackup
      <4>1. handler.file \in File
        BY <2>5, <3>3 DEF RemoveBackup, At
      <4> QED
        BY <2>2, <2>3, <3>3, <4>1 DEF RemoveBackup, Block
    <3>4. CASE LeaseFile
      <4>1. PICK f \in handler.todo :
              /\ handler' = Pass(f) \/ \E r, c : handler' = Go("write", f, r, c)
              /\ UNCHANGED scan \/ scan' = [scan EXCEPT ![s].leased = @ \cup {f}]
        BY <2>2, <3>4 DEF LeaseFile
      <4> QED
        BY <2>3, <2>5, <4>1
    <3>5. CASE LeaseWrite
      <4>1. handler.file \in File
        BY <2>5, <3>5 DEF LeaseWrite, At
      <4>2. handler' = Pass(handler.file) \/ Run("restore", s, scan[s].leased)
        BY <2>2, <3>5 DEF LeaseWrite
      <4>3. handler'.scan = s
        BY <2>3, <4>1, <4>2 DEF Run
      <4> QED
        BY <2>2, <3>5, <4>1, <4>3 DEF LeaseWrite
    <3>6. CASE RestoreFile
      <4>1. PICK f \in handler.todo :
              handler' = Pass(f) \/ \E step \in {"write", "remove"} : \E r, c : handler' = Go(step, f, r, c)
        BY <3>6 DEF RestoreFile
      <4> QED
        BY <2>3, <2>5, <3>6, <4>1 DEF RestoreFile
    <3> QED
      BY <1>4, <3>1, <3>2, <3>3, <3>4, <3>5, <3>6
  <2>7. scan'[s].state = scan[s].state
    BY <2>4, <2>6
  <2> QED
    BY <2>1, <2>2, <2>6, <2>7 DEF WorkInv, Active
<1> QED
  BY <1>2, <1>3, <1>4 DEF Next, HandlerStep, ScanStep, Exit, Idle, Exited, Killed, NewProcess,
                          Recovered, Leased, Restored, Edit, Call, Discover

---------------------------------------------------------------------------
(* Recovery *)

\* The content of an untouched file is a version, and the backup of one that is
\* in hand at its end, or was leased, is what the user saved.
LEMMA UntouchedFacts ==
  ASSUME CountInv, UntouchedInv, NEW f \in File, f \notin disturbed
  PROVE  /\ wanted[f] # None /\ Neutral(wanted[f]) # None
         /\ disk[f] \in {wanted[f], Neutral(wanted[f])}
         /\ \A r \in Root : backup[r][f] \in {None, wanted[f]}
         /\ \A r \in Root : disk[f] = backup[r][f] => disk[f] = wanted[f]
         /\ lease[f] # None => backup[lease[f].root][f] = wanted[f] /\ lease[f].root \in Root
         /\ wanted[f].neutral => disk[f].neutral
         /\ lease[f] # None => disk[f].neutral
<1>1. /\ disk[f] \in {wanted[f], Neutral(wanted[f])}
      /\ \A r \in Root : backup[r][f] \in {None, wanted[f]}
      /\ lease[f] # None => disk[f] = Neutral(wanted[f])
  BY DEF UntouchedInv, Untouched
<1>2. wanted[f] \in Version /\ Neutral(wanted[f]) \in Version /\ Neutral(wanted[f]).neutral = TRUE
  BY NeutralVersion DEF CountInv, ContentInv, Shapes
<1>3. lease[f] # None => backup[lease[f].root][f] # None /\ lease[f].root \in Root
  <2> SUFFICES ASSUME lease[f] # None
               PROVE  backup[lease[f].root][f] # None /\ lease[f].root \in Root
    OBVIOUS
  <2>1. lease[f] \in Lease
    BY DEF CountInv, ContentInv, Shapes
  <2>2. lease[f].root \in Root /\ lease[f].original \in Version
    BY <2>1 DEF Lease
  <2> QED
    BY <2>2, NoneAssumption DEF CountInv, ContentInv, LeaseInv
<1> QED
  BY <1>1, <1>2, <1>3, NoneAssumption

\* A step that leaves an untouched file without a lease leaves it as it was saved
\* or in hand, if it was so before or if it was leased.
LEMMA GivenBack ==
  ASSUME CountInv, BoundsInv, UntouchedInv, [Next]_vars,
         NEW f \in File, f \notin disturbed', lease'[f] = None, ~Forgotten(f), NEW r \in Root,
         backup'[r][f] # None,
         backup[r][f] # None /\ lease[f] = None => disk[f] = wanted[f] \/ InHand(f)
  PROVE  disk'[f] = wanted'[f] \/ InHand(f)'
<1>1. /\ f \notin disturbed /\ wanted'[f] = wanted[f]
      /\ \/ Quiet(f) \/ Claimed(f) \/ WrittenBack(f) \/ BackupRemoved(f)
         \/ BackedUp(f) \/ Rewritten(f) \/ GivenUp(f)
  BY FileEffects
<1>2. CASE Quiet(f)
  BY <1>1, <1>2 DEF Quiet, Stays, SameBackups
<1>3. CASE Claimed(f) \/ WrittenBack(f) \/ BackedUp(f) \/ Rewritten(f)
  BY <1>3 DEF Claimed, WrittenBack, BackedUp, Rewritten, InHandAt
<1>4. CASE BackupRemoved(f)
  BY <1>1, <1>4, UntouchedFacts DEF BackupRemoved
<1>5. CASE GivenUp(f)
  BY <1>1, <1>5, UntouchedFacts DEF GivenUp, InHandAt
<1> QED
  BY <1>1, <1>2, <1>3, <1>4, <1>5

\* A recovery that goes on has every orphan of its root ahead of it.
LEMMA OrphansAhead ==
  ASSUME CountInv, BoundsInv, UntouchedInv, RecoveryInv, ScopeInv, [Next]_vars,
         handler' # None, handler'.kind = "recover"
  PROVE  /\ handler'.root = scan'[handler'.scan].root
         /\ Orphans(handler.root)' \cap Untouched' \subseteq handler'.todo
<1>1. Shapes /\ RecoverInv /\ RecoverInv'
  BY CountStep DEF CountInv, ContentInv
<1>2. RecoveryGoesOn \/ \E s \in Scan : Recover(s)
  BY HandlerEffects DEF LeasingGoesOn, Restoring, Discovered, Run
<1>3. ASSUME NEW s \in Scan, Recover(s)
      PROVE  /\ handler'.root = scan'[handler'.scan].root
             /\ Orphans(handler.root)' \cap Untouched' \subseteq handler'.todo
  BY <1>3 DEF Recover, Run, Orphans
<1>4. CASE RecoveryGoesOn
  <2>1. PICK s \in Scan, r \in Root : s = handler.scan /\ r = scan[s].root /\ r = handler.root
    BY <1>1, <1>4, HandlerShape DEF RecoveryGoesOn, RecoveryInv
  <2>2. handler'.root = r /\ scan'[s].root = r /\ handler'.scan = s
    BY <1>4, <2>1, QueueMoves DEF RecoveryGoesOn
  <2>3. ASSUME NEW f \in Orphans(r)', f \in File, f \notin disturbed'
        PROVE  f \in handler'.todo
    <3>1. lease[f] = None /\ backup[r][f] # None
      BY <1>4, <2>3 DEF Orphans, RecoveryGoesOn
    <3>2. f \notin disturbed
      BY <2>3, FileEffects
    <3>3. f \in handler.todo
      BY <1>4, <2>1, <2>3, <3>1, <3>2 DEF RecoveryGoesOn, RecoveryInv, Orphans, Untouched
    <3>4. backup[r][f] = wanted[f] /\ disk[f] \in {wanted[f], Neutral(wanted[f])}
      BY <2>3, <3>1, <3>2, UntouchedFacts
    <3> QED
      BY <1>4, <2>1, <2>3, <3>3, <3>4 DEF RecoveryGoesOn, Orphans
  <2>4. Orphans(r)' \subseteq File
    BY LeasesAssumption DEF Orphans
  <2>5. Orphans(handler.root)' = Orphans(r)'
    BY <2>2 DEF Orphans
  <2> QED
    BY <2>2, <2>3, <2>4, <2>5 DEF Untouched
<1> QED
  BY <1>2, <1>3, <1>4

\* What a recovery has put in order stays in order.
LEMMA RecoveryKept ==
  ASSUME CountInv, BoundsInv, UntouchedInv, RecoveryInv, ScopeInv, [Next]_vars
  PROVE  RecoveryInv'
<1>1. ASSUME handler' # None, handler'.kind = "recover"
      PROVE  /\ handler'.root = scan'[handler'.scan].root
             /\ Orphans(handler.root)' \cap Untouched' \subseteq handler'.todo
  BY <1>1, OrphansAhead
<1>2. ASSUME NEW s \in Scan, scan'[s].state \in {"recovered", "discovered", "ready"},
             NEW f \in File, f \in FilesOf[scan'[s].root], f \notin disturbed',
             backup'[scan'[s].root][f] # None, lease'[f] = None
      PROVE  disk'[f] = wanted'[f] \/ InHand(f)'
  <2>1. PICK r \in Root : r = scan[s].root
    BY DEF CountInv, ContentInv, Shapes, ScanRecord
  <2>2. /\ SameCall(s)
        /\ Queues(s) \/ Recovers(s) \/ Searches(s) \/ GetsReady(s) \/ Ends(s) \/ Works(s)
    BY ScanEffects
  <2>3. f \notin disturbed /\ scan'[s].root = r /\ f \in FilesOf[r] /\ ~Forgotten(f)
    BY <1>2, <2>1, <2>2, FileEffects DEF SameCall, Forgotten
  <2>4. backup[r][f] # None /\ lease[f] = None => disk[f] = wanted[f] \/ InHand(f)
    <3>1. CASE Recovers(s)
      <4>1. Orphans(r) \cap Untouched = {}
        BY <2>1, <3>1 DEF Recovers, RecoveryInv
      <4> QED
        BY <2>3, <4>1 DEF Orphans, Untouched
    <3>2. CASE Searches(s) \/ Works(s) \/ GetsReady(s)
      <4>1. scan[s].state \in {"recovered", "discovered", "ready"}
        BY <1>2, <3>2 DEF Searches, Works, GetsReady, CountInv, StateInv
      <4> QED
        BY <2>1, <2>3, <4>1 DEF RecoveryInv, Below, Untouched
    <3> QED
      BY <1>2, <2>2, <3>1, <3>2 DEF Queues, Ends
  <2> QED
    BY <1>2, <2>3, <2>4, GivenBack
<1>3. \A s \in Scan : FilesOf[scan'[s].root] \subseteq File
  BY LeasesAssumption, CountStep DEF CountInv, ContentInv, Shapes, ScanRecord
<1> QED
  BY <1>1, <1>2, <1>3 DEF RecoveryInv, Below, Untouched

---------------------------------------------------------------------------
(* As long as no process was killed *)

\* Nothing that belongs to no lease lies about.
LEMMA NoOrphan ==
  ASSUME CountInv, UntouchedInv, OrphanInv, NEW f \in File, f \notin disturbed,
         lease[f] = None, ~InHand(f)
  PROVE  disk[f] = wanted[f] /\ \A r \in Root : backup[r][f] = None
<1>1. \A r \in Root : backup[r][f] = None
  BY DEF OrphanInv, Untouched, InHandAt
<1>2. wanted[f] # None
  BY UntouchedFacts
<1> QED
  BY <1>1, <1>2 DEF CountInv, ContentInv, NothingIsLost

\* Every backup still has its lease, or its file in hand.
LEMMA OrphanKept ==
  ASSUME CountInv, BoundsInv, UntouchedInv, ScopeInv, OrphanInv, [Next]_vars, crashes' = 0
  PROVE  OrphanInv'
<1>1. ASSUME NEW f \in File, f \notin disturbed', NEW r \in Root, backup'[r][f] # None
      PROVE  (lease'[f] # None /\ lease'[f].root = r) \/ InHandAt(f, r)'
  <2>1. /\ f \notin disturbed /\ wanted'[f] = wanted[f]
        /\ \/ Quiet(f) \/ Claimed(f) \/ WrittenBack(f) \/ BackupRemoved(f)
           \/ BackedUp(f) \/ Rewritten(f) \/ GivenUp(f) \/ Forgotten(f)
    BY <1>1, FileEffects
  <2>2. \A q \in Root : backup[q][f] # None =>
          (lease[f] # None /\ lease[f].root = q) \/ InHandAt(f, q)
    BY <2>1 DEF OrphanInv, Untouched
  <2>3. CASE Quiet(f)
    BY <1>1, <2>2, <2>3 DEF Quiet, Stays, SameBackups
  <2>4. CASE Claimed(f)
    BY <2>2, <2>4 DEF Claimed, Unleased, InHandAt
  <2>5. CASE WrittenBack(f)
    BY <1>1, <2>2, <2>5 DEF WrittenBack, SameBackups, Unleased, InHandAt
  <2>6. CASE BackupRemoved(f)
    BY <1>1, <2>2, <2>6 DEF BackupRemoved, Unleased, InHandAt
  <2>7. CASE BackedUp(f)
    BY <1>1, <2>2, <2>7 DEF BackedUp, Unleased, InHandAt
  <2>8. CASE Rewritten(f)
    BY <1>1, <2>2, <2>8 DEF Rewritten, SameBackups, InHandAt
  <2>9. CASE GivenUp(f)
    <3>1. disk[f] \in {wanted[f], Neutral(wanted[f])} /\ backup[lease[f].root][f] = wanted[f]
      BY <2>1, <2>9, UntouchedFacts DEF GivenUp
    <3>2. lease[f].root = r
      BY <1>1, <2>2, <2>9 DEF GivenUp, Stays, SameBackups, InHandAt
    <3> QED
      BY <2>9, <3>1, <3>2 DEF GivenUp
  <2>10. CASE Forgotten(f)
    BY <1>1, <2>1, <2>10, NoOrphan DEF Forgotten, Stays, SameBackups
  <2> QED
    BY <2>1, <2>3, <2>4, <2>5, <2>6, <2>7, <2>8, <2>9, <2>10
<1>2. ASSUME NEW f \in File, f \notin disturbed', NEW t \in Scan
      PROVE  f \notin scan'[t].blocked
  <2>1. f \notin disturbed /\ f \notin scan[t].blocked
    BY <1>2, FileEffects DEF OrphanInv, Untouched
  <2>2. Queues(t) \/ Recovers(t) \/ Searches(t) \/ GetsReady(t) \/ Ends(t) \/ Works(t)
    BY ScanEffects
  <2>3. CASE Works(t)
    <3> SUFFICES ASSUME f \in scan'[t].blocked
                 PROVE  FALSE
      OBVIOUS
    <3>1. /\ handler # None /\ handler.kind = "recover" /\ f \in handler.todo /\ handler.step = "next"
          /\ handler.scan = t
      BY <1>2, <2>1, <2>3 DEF Works
    <3>2. lease[f] = None /\ backup[scan[t].root][f] # None /\ scan[t].root \in Root
      BY <3>1, HandlerShape DEF CountInv, ContentInv, RecoverInv
    <3>3. ~InHand(f)
      BY <3>1 DEF InHand
    <3> QED
      BY <2>1, <3>2, <3>3, NoOrphan
  <2> QED
    BY <2>1, <2>2, <2>3 DEF Queues, Recovers, Searches, GetsReady, Ends, SameFiles
<1> QED
  BY <1>1, <1>2 DEF OrphanInv, Untouched

\* No scan is searching, and none leases a file, below the root of another that
\* has begun.
LEMMA OneAtATime ==
  ASSUME CountInv, ScopeInv, QueueInv, NEW s \in Begun, NEW f \in Scope(s),
         handler # None, handler.kind = "lease", f \in handler.todo
  PROVE  handler.scan = s
<1>1. PICK t \in Scan : t = handler.scan
  BY HandlerShape DEF CountInv, ContentInv
<1>2. scan[t].state = "discovered" /\ f \in Below(t) /\ f \in Below(s) /\ s \in Scan
  BY <1>1 DEF CountInv, StateInv, ScopeInv, Begun
<1>3. Overlap(s, t) /\ Overlap(t, s)
  BY <1>2 DEF Overlap
<1>4. s \in Initializing /\ t \in Initializing /\ t \in Begun
  BY <1>2 DEF Initializing, Begun
<1> QED
  BY <1>1, <1>3, <1>4 DEF QueueInv

\* What is leased after the recovery of a scan has been leased by it.
LEMMA AdoptedStays ==
  ASSUME CountInv, BoundsInv, ScopeInv, QueueInv, [Next]_vars, NEW s \in Scan, ~scan[s].recoverOnly,
         scan'[s].state = "recovered", NEW f \in Scope(s), f \in File, f \notin disturbed', lease'[f] # None,
         scan[s].state = "recovered" /\ lease[f] # None => f \in scan[s].leased
  PROVE  f \in scan'[s].leased
<1>1. Queues(s) \/ Recovers(s) \/ Searches(s) \/ GetsReady(s) \/ Ends(s) \/ Works(s)
  BY ScanEffects
<1>2. Quiet(f) \/ Rewritten(f)
  BY FileEffects DEF Claimed, WrittenBack, BackupRemoved, BackedUp, GivenUp, Forgotten, Unleased
<1>3. CASE Recovers(s)
  <2>1. ~Rewritten(f)
    BY <1>3 DEF Recovers, Rewritten, InHandAt, InHand
  <2>2. lease[f] # None
    BY <1>2, <2>1 DEF Quiet
  <2> QED
    BY <1>3, <2>2 DEF Recovers, Adopt, Leases
<1>4. CASE Works(s)
  <2>1. s \in Begun /\ scan[s].state = "recovered"
    BY <1>4 DEF Works, Begun
  <2>2. CASE Quiet(f)
    <3>1. lease[f] # None
      BY <2>2 DEF Quiet
    <3> QED
      BY <1>4, <2>1, <3>1 DEF Works
  <2>3. CASE Rewritten(f)
    <3>1. handler # None /\ handler.kind = "lease" /\ f \in handler.todo
      BY <2>3 DEF Rewritten, InHandAt, InHand, ScopeInv
    <3>2. handler.scan = s
      BY <2>1, <3>1, OneAtATime
    <3> QED
      BY <2>1, <3>1, <3>2 DEF CountInv, StateInv
  <2> QED
    BY <1>2, <2>2, <2>3
<1> QED
  BY <1>1, <1>3, <1>4 DEF Queues, Searches, GetsReady, Ends

\* The search misses no directive, nor does the scan lose one before it lints.
LEMMA SearchKept ==
  ASSUME CountInv, BoundsInv, UntouchedInv, ScopeInv, QueueInv, OrphanInv, SearchInv, [Next]_vars
  PROVE  SearchInv'
<1> SUFFICES ASSUME NEW s \in Scan, ~scan'[s].recoverOnly
             PROVE  /\ scan'[s].state = "recovered" => Adopt(s)' \cap Untouched' \subseteq scan'[s].leased
                    /\ \A f \in Scope(s)' \cap Untouched' :
                         /\ scan'[s].state = "discovered" =>
                              f \in scan'[s].leased \cup scan'[s].found \/ wanted'[f].neutral
                         /\ handler' # None /\ handler'.kind = "lease" /\ handler'.scan = s =>
                              f \in scan'[s].leased \cup handler'.todo \/ wanted'[f].neutral
                         /\ scan'[s].state = "ready" => f \in scan'[s].leased \/ wanted'[f].neutral
  BY DEF SearchInv
<1>1. /\ SameCall(s)
      /\ Queues(s) \/ Recovers(s) \/ Searches(s) \/ GetsReady(s) \/ Ends(s) \/ Works(s)
  BY ScanEffects
<1>2. ~scan[s].recoverOnly /\ Scope(s)' = Scope(s) /\ Scope(s) \subseteq File
  <2>1. scan[s].include \subseteq File
    BY DEF CountInv, ContentInv, Shapes, ScanRecord
  <2> QED
    BY <1>1, <2>1 DEF SameCall, Scope
<1>3. Adopt(s)' \cap Untouched' \subseteq scan'[s].leased \/ scan'[s].state # "recovered"
  <2> SUFFICES ASSUME scan'[s].state = "recovered", NEW f \in Adopt(s)', f \in File, f \notin disturbed'
               PROVE  f \in scan'[s].leased
    BY DEF Untouched
  <2>1. f \in Scope(s) /\ lease'[f] # None
    BY <1>2 DEF Adopt, Leases
  <2>2. f \notin disturbed
    BY FileEffects
  <2>3. scan[s].state = "recovered" /\ lease[f] # None => f \in scan[s].leased
    BY <1>2, <2>1, <2>2 DEF SearchInv, Adopt, Leases, Untouched
  <2> QED
    BY <1>2, <2>1, <2>3, AdoptedStays
<1>4. ASSUME NEW f \in Scope(s), f \notin disturbed'
      PROVE  /\ scan'[s].state = "discovered" =>
                  f \in scan'[s].leased \cup scan'[s].found \/ wanted'[f].neutral
             /\ handler' # None /\ handler'.kind = "lease" /\ handler'.scan = s =>
                  f \in scan'[s].leased \cup handler'.todo \/ wanted'[f].neutral
             /\ scan'[s].state = "ready" => f \in scan'[s].leased \/ wanted'[f].neutral
  <2>1. f \in File /\ f \notin disturbed /\ wanted'[f] = wanted[f] /\ f \in Untouched
    BY <1>2, <1>4, FileEffects DEF Untouched
  <2>2. /\ scan[s].state = "recovered" /\ lease[f] # None => f \in scan[s].leased
        /\ scan[s].state = "discovered" => f \in scan[s].leased \cup scan[s].found \/ wanted[f].neutral
        /\ handler # None /\ handler.kind = "lease" /\ handler.scan = s =>
             f \in scan[s].leased \cup handler.todo \/ wanted[f].neutral
        /\ scan[s].state = "ready" => f \in scan[s].leased \/ wanted[f].neutral
    BY <1>2, <1>4, <2>1 DEF SearchInv, Adopt, Leases
  <2>3. ASSUME lease[f] = None, ~InHand(f)
        PROVE  disk[f] = wanted[f] /\ \A r \in Root : backup[r][f] = None
    BY <2>1, <2>3, NoOrphan
  <2>4. ASSUME scan'[s].state = "discovered"
        PROVE  f \in scan'[s].leased \cup scan'[s].found \/ wanted'[f].neutral
    <3>1. CASE Searches(s)
      <4>1. ~InHand(f)
        BY <3>1 DEF Searches, InHand
      <4> QED
        BY <1>4, <2>1, <2>2, <2>3, <3>1, <4>1 DEF Searches
    <3>2. CASE Works(s)
      BY <2>1, <2>2, <2>4, <3>2 DEF Works
    <3> QED
      BY <1>1, <1>2, <2>4, <3>1, <3>2 DEF Queues, Recovers, GetsReady, Ends
  <2>5. ASSUME scan'[s].state = "ready"
        PROVE  f \in scan'[s].leased \/ wanted'[f].neutral
    <3>1. CASE GetsReady(s)
      BY <2>1, <2>2, <3>1 DEF GetsReady, SameFiles
    <3>2. CASE Works(s)
      BY <2>1, <2>2, <2>5, <3>2 DEF Works
    <3> QED
      BY <1>1, <1>2, <2>5, <3>1, <3>2 DEF Queues, Recovers, Searches, Ends
  <2>6. ASSUME handler' # None, handler'.kind = "lease", handler'.scan = s
        PROVE  f \in scan'[s].leased \cup handler'.todo \/ wanted'[f].neutral
    <3>1. LeasingGoesOn \/ \E t \in Scan : Discovered(t)
      BY <2>6, HandlerEffects DEF RecoveryGoesOn, Restoring, Recover, Run
    <3>2. CASE LeasingGoesOn
      BY <1>4, <2>1, <2>2, <2>3, <2>6, <3>2 DEF LeasingGoesOn
    <3>3. ASSUME NEW t \in Scan, Discovered(t)
          PROVE  f \in scan'[s].leased \cup handler'.todo \/ wanted'[f].neutral
      <4>1. t = s /\ scan[s].state = "discovered" /\ UNCHANGED scan
            /\ handler'.todo = (scan[s].found \cup Adopt(s)) \ (scan[s].leased \cup scan[s].blocked)
        BY <2>6, <3>3 DEF Discovered, Run
      <4>2. f \notin scan[s].blocked
        BY <2>1 DEF OrphanInv
      <4> QED
        BY <2>1, <2>2, <4>1, <4>2
    <3> QED
      BY <3>1, <3>2, <3>3
  <2> QED
    BY <2>4, <2>5, <2>6
<1> QED
  BY <1>2, <1>3, <1>4 DEF Untouched

---------------------------------------------------------------------------
(* What audit mode promises *)

\* At first nothing is disturbed, and no scan has begun.
LEMMA PromiseInit == Init => PromiseInv
<1> SUFFICES ASSUME Init
             PROVE  PromiseInv
  OBVIOUS
<1>1. CountInv
  BY CountInit
<1>2. handler = None /\ disturbed = {} /\ wanted = disk /\ crashes = 0 /\ failures = 0
      /\ lease = [f \in File |-> None] /\ backup = [r \in Root |-> [f \in File |-> None]]
  BY DEF Init
<1>3. ASSUME NEW s \in Scan
      PROVE  /\ scan[s].state = "new" /\ scan[s].include \subseteq FilesOf[scan[s].root]
             /\ scan[s].blockers = {} /\ scan[s].found = {} /\ scan[s].leased = {} /\ scan[s].blocked = {}
  BY DEF Init
<1>4. BoundsInv
  BY <1>2, LeasesAssumption DEF BoundsInv
<1>5. UntouchedInv /\ OrphanInv
  <2>1. \A f \in File : lease[f] = None /\ \A r \in Root : backup[r][f] = None
    BY <1>2
  <2>2. \A f \in File : disk[f] = wanted[f]
    BY <1>2
  <2> QED
    BY <1>3, <2>1, <2>2 DEF UntouchedInv, OrphanInv, Untouched
<1>6. RecoveryInv /\ ScopeInv /\ WorkInv /\ QueueInv /\ SearchInv
  BY <1>2, <1>3 DEF RecoveryInv, ScopeInv, WorkInv, QueueInv, SearchInv, Scope, Below, Begun, Initializing
<1> QED
  BY <1>1, <1>4, <1>5, <1>6 DEF PromiseInv

\* Every step keeps the promises.
LEMMA PromiseStep ==
  ASSUME PromiseInv, [Next]_vars
  PROVE  PromiseInv'
<1> USE DEF PromiseInv
<1>1. CountInv' /\ BoundsInv' /\ (crashes' = 0 => crashes = 0)
  BY CountStep, BoundsStep
<1>2. UntouchedInv' /\ RecoveryInv' /\ ScopeInv' /\ WorkInv' /\ QueueInv'
  BY UntouchedStep, RecoveryKept, ScopeKept, WorkKept, QueueKept
<1>3. ASSUME crashes' = 0
      PROVE  OrphanInv' /\ SearchInv'
  BY <1>1, <1>3, OrphanKept, SearchKept
<1> QED
  BY <1>1, <1>2, <1>3

\* The shapes of the disk, the leases and the scans.
THEOREM TypeCorrect == Spec => []TypeOK
<1>1. PromiseInv => TypeOK
  BY DEF PromiseInv, BoundsInv, ScopeInv, CountInv, ContentInv, Shapes, ScanRecord, TypeOK
<1>2. Init => PromiseInv
  BY PromiseInit
<1>3. PromiseInv /\ [Next]_vars => PromiseInv'
  BY PromiseStep
<1> QED
  BY <1>1, <1>2, <1>3, PTL DEF Spec

\* While a scan lints in audit mode it sees no directive, if no process was killed
\* before: none was missed by the search, and no overlapping scan, however it ends,
\* gives a file back that this one still needs.
THEOREM NoDirectiveIsSeen == Spec => []NoDirectiveIsVisible
<1>1. PromiseInv => NoDirectiveIsVisible
  <2> SUFFICES ASSUME PromiseInv, crashes = 0, handler = None,
                      NEW s \in Scan, scan[s].state = "ready", ~scan[s].recoverOnly,
                      NEW f \in Scope(s), f \notin disturbed
               PROVE  disk[f].neutral
    BY DEF NoDirectiveIsVisible, AuditSeesEverything
  <2>1. f \in File
    BY DEF PromiseInv, CountInv, ContentInv, Shapes, ScanRecord, Scope
  <2>2. f \in scan[s].leased \/ wanted[f].neutral
    BY <2>1 DEF PromiseInv, SearchInv, Untouched
  <2>3. f \in scan[s].leased => lease[f] # None
    BY <2>1, CountsBetweenHandlers DEF PromiseInv, LeasesAreCounted
  <2> QED
    BY <2>1, <2>2, <2>3, UntouchedFacts DEF PromiseInv
<1>2. Init => PromiseInv
  BY PromiseInit
<1>3. PromiseInv /\ [Next]_vars => PromiseInv'
  BY PromiseStep
<1> QED
  BY <1>1, <1>2, <1>3, PTL DEF Spec

\* Whatever was killed before, a recovery leaves no orphan below its root, and what
\* it passed over is not left rewritten.
THEOREM RecoveriesAreComplete == Spec => []RecoveryIsComplete
<1>1. PromiseInv => RecoveryIsComplete
  <2> SUFFICES ASSUME PromiseInv
               PROVE  RecoveryIsComplete
    OBVIOUS
  <2>1. ASSUME At({"recover"}, "next"), handler.todo = {}, NEW f \in FilesOf[scan[handler.scan].root],
               f \notin disturbed, backup[scan[handler.scan].root][f] # None
        PROVE  lease[f] # None
    <3>1. PICK r \in Root : r = scan[handler.scan].root
      BY <2>1, HandlerShape DEF At, PromiseInv, CountInv, ContentInv
    <3>2. f \in File /\ f \in Untouched /\ handler.root = r
      BY <2>1, <3>1, LeasesAssumption DEF Untouched, At, PromiseInv, RecoveryInv
    <3>3. f \notin Orphans(r)
      BY <2>1, <3>1, <3>2 DEF At, PromiseInv, RecoveryInv
    <3> QED
      BY <2>1, <3>1, <3>3 DEF Orphans
  <2>2. ASSUME handler = None, NEW s \in Scan, scan[s].state \in {"recovered", "discovered", "ready"},
               NEW f \in Below(s), f \notin disturbed, backup[scan[s].root][f] # None, lease[f] = None
        PROVE  disk[f] = wanted[f]
    <3>1. f \in File
      BY LeasesAssumption DEF Below, PromiseInv, CountInv, ContentInv, Shapes, ScanRecord
    <3> QED
      BY <2>2, <3>1 DEF PromiseInv, RecoveryInv, Untouched, InHand
  <2> QED
    BY <2>1, <2>2 DEF RecoveryIsComplete
<1>2. Init => PromiseInv
  BY PromiseInit
<1>3. PromiseInv /\ [Next]_vars => PromiseInv'
  BY PromiseStep
<1> QED
  BY <1>1, <1>2, <1>3, PTL DEF Spec

\* When the last scan has ended, by itself, by a failure or by process.exit, all
\* files are as the user saved them, and no backup is left.
THEOREM AllFilesAreRestored == Spec => []FilesAreRestored
<1>1. PromiseInv => FilesAreRestored
  <2> SUFFICES ASSUME PromiseInv, Active = {}, crashes = 0, NEW f \in File, f \notin disturbed
               PROVE  disk[f] = wanted[f] /\ \A r \in Root : backup[r][f] = None
    BY DEF FilesAreRestored
  <2>1. handler = None
    BY DEF PromiseInv, WorkInv
  <2>2. \A s \in Scan : scan[s].leased = {}
    BY DEF Active, PromiseInv, CountInv, StateInv
  <2>3. lease[f] = None
    <3>1. {s \in Scan : f \in scan[s].leased} = {}
      BY <2>2
    <3>2. lease[f] # None => lease[f].count \in Nat \ {0}
      BY DEF PromiseInv, CountInv, ContentInv, Shapes, Lease
    <3> QED
      BY <2>1, <3>1, <3>2, CountsBetweenHandlers, FS_EmptySet DEF PromiseInv, LeasesAreCounted
  <2> QED
    BY <2>1, <2>3, NoOrphan DEF PromiseInv, InHand
<1>2. Init => PromiseInv
  BY PromiseInit
<1>3. PromiseInv /\ [Next]_vars => PromiseInv'
  BY PromiseStep
<1> QED
  BY <1>1, <1>2, <1>3, PTL DEF Spec
===========================================================================
