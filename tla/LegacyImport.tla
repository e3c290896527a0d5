---------------------------- MODULE LegacyImport ----------------------------
(* The import of a diagnostic report into a case (importer/legacyreport).   *)
(*                                                                          *)
(* A report is reduced to what later decisions read: the firmware modes it  *)
(* names, its disks with number and partition style, its partitions with    *)
(* disk number, drive letter and kind, the drive letters in the paths of    *)
(* the Windows installations and boot stores, the BitLocker inventory and   *)
(* the classes of its drive health records.  The imported case keeps one    *)
(* target and one evidence bundle for each of them; a target is the         *)
(* identity of the thing the report lists.                                  *)
EXTENDS Naturals, FiniteSets

None == ""                    \* no letter, no target

(* The locators a target gets: only a partition gets a drive letter, only   *)
(* a disk could get a partition style and it gets none.                     *)
Letters(r) ==
  [t \in DOMAIN r.part \cup DOMAIN r.win \cup DOMAIN r.store |->
     IF t \in DOMAIN r.part THEN r.part[t].letter ELSE None]

Unique(S) == IF Cardinality(S) = 1 THEN S ELSE {}

(* A relation the importer cannot tell apart is left out.                   *)
RelatedTargetIDs(r) ==
  LET atLetter(l) == Unique({p \in DOMAIN r.part : l # None /\ r.part[p].letter = l}) IN
  [t \in DOMAIN r.part \cup DOMAIN r.win \cup DOMAIN r.store |->
     CASE t \in DOMAIN r.part -> Unique({d \in DOMAIN r.disk : r.disk[d].number = r.part[t].number})
       [] t \in DOMAIN r.win -> atLetter(r.win[t])
       [] OTHER -> atLetter(r.store[t])]

(* What the case holds of the report.  Volumes exist only where the         *)
(* BitLocker inventory was available; that it was not is a limitation of    *)
(* the firmware evidence and not of the firmware target.                    *)
Imported(r) ==
  [ modes |-> r.modes, health |-> r.health, disk |-> r.disk, part |-> r.part,
    win |-> DOMAIN r.win, store |-> DOMAIN r.store,
    volumes |-> IF r.inventory = "unavailable" THEN {} ELSE r.volumes,
    letter |-> Letters(r), related |-> RelatedTargetIDs(r),
    style |-> [d \in DOMAIN r.disk |-> None],
    limitations |-> {"report_scoped"} ]
=============================================================================
