------------------------------ MODULE Analysis ------------------------------
(* A report is imported, its boot topology is resolved, automatically or as *)
(* a technician pins it and again when asked, and the Boot Doctor analyses  *)
(* the topology: importer/legacyreport, targetresolver and bootdoctor as    *)
(* the coordinator strings them together.                                   *)
EXTENDS BootDoctor

CONSTANT Reports                   \* the reports a collector hands over

(* A report lists finitely many things, each of its own kind.               *)
IsReport(r) ==
  /\ \A field \in {r.disk, r.part, r.win, r.store} : IsFiniteSet(DOMAIN field)
  /\ DOMAIN r.part \cap DOMAIN r.win = {} /\ DOMAIN r.part \cap DOMAIN r.store = {}
  /\ DOMAIN r.win \cap DOMAIN r.store = {}
  /\ \A p \in DOMAIN r.part : r.part[p].kind \in {"efi", "system", "data"}
  /\ r.health \subseteq {"healthy", "unknown", "unsafe"}
  /\ r.volumes \subseteq {"unlocked", "locked", "unknown"}

ASSUME ReportsAssumption == \A r \in Reports : IsReport(r)

VARIABLES
  report,      \* the machine as the report shows it
  case,        \* what was imported, NoCase before
  topology,    \* the topology resolved last, NoTopology before
  findings,    \* the findings of the analysis of that topology, {} before
  refused      \* whether the last resolution returned an error
avars == <<report, case, topology, findings, refused>>

NoCase == [modes |-> {}]
NoTopology == [mode |-> None]

Pins(k) ==
  [ source : {"technician"}, win : k.win \cup {None}, part : DOMAIN k.part, disk : DOMAIN k.disk,
    esp : DOMAIN k.part, bcd : k.store \cup {None} ]

AInit ==
  /\ report \in Reports
  /\ case = NoCase /\ topology = NoTopology /\ findings = {} /\ refused = FALSE

ImportReport ==
  /\ case = NoCase
  /\ case' = Imported(report)
  /\ UNCHANGED <<report, topology, findings, refused>>

(* A resolution that fails leaves the topology that was there.              *)
ResolveTopology ==
  /\ case # NoCase
  /\ \E pinned \in {NoSelection} \cup Pins(case) :
        IF Refused(case, pinned)
        THEN refused' = TRUE /\ UNCHANGED <<topology, findings>>
        ELSE refused' = FALSE /\ topology' = Resolve(case, pinned) /\ findings' = {}
  /\ UNCHANGED <<report, case>>

AnalyzeTopology ==
  /\ topology # NoTopology /\ findings = {}
  /\ findings' = Analyze(case, topology)
  /\ UNCHANGED <<report, case, topology, refused>>

ANext == ImportReport \/ ResolveTopology \/ AnalyzeTopology
ASpec == AInit /\ [][ANext]_avars

-----------------------------------------------------------------------------
(* What the machine of the report really is, read off the report itself.    *)

AtLetter(l) == {p \in DOMAIN report.part : l # None /\ report.part[p].letter = l}
WithNumber(n) == {d \in DOMAIN report.disk : report.disk[d].number = n}
SafeToJudge ==
  /\ report.modes = {"uefi"}
  /\ report.health = {"healthy"}
  /\ report.inventory # "unavailable" => report.volumes \subseteq {"unlocked"}

OneChain(s) ==
  /\ AtLetter(report.win[s.win]) = {s.part}
  /\ WithNumber(report.part[s.part].number) = {s.disk}
  /\ report.disk[s.disk].style = "GPT"
  /\ report.part[s.esp].kind = "efi" /\ report.part[s.esp].number = report.disk[s.disk].number
  /\ s.bcd # None => AtLetter(report.store[s.bcd]) = {s.esp}

NothingElse ==
  /\ Cardinality(DOMAIN report.win) = 1 /\ Cardinality(DOMAIN report.store) <= 1
  /\ Cardinality({p \in DOMAIN report.part : report.part[p].kind # "data"}) = 1

(* A topology that is called eligible for a repair plan is one the report   *)
(* proves: UEFI only, all storage healthy, no volume that is not known to   *)
(* be unlocked, and one chain of GPT disk, proven EFI system partition,     *)
(* Windows partition and boot store; chosen automatically only where        *)
(* nothing else could have been chosen.  A technician's pins clear none of  *)
(* it ("never silently chosen as healthy").  That a BitLocker inventory was *)
(* available is not asked (resolver.go:594).                                *)
EligibleIsProven ==
  topology # NoTopology /\ topology.eligible =>
    /\ SafeToJudge
    /\ OneChain(topology.selection)
    /\ topology.selection.source = "automatic" => NothingElse

Doubts ==
  {"boot_topology_incomplete", "boot_topology_ambiguous", "boot_topology_conflicting",
   "efi_system_partition_cross_disk", "bcd_cross_disk_mismatch", "windows_installation_missing",
   "storage_health_critical", "storage_health_unknown", "bitlocker_locked", "bitlocker_status_unknown"}

(* An analysis always gives one verdict: the topology is consistent, or a   *)
(* finding says what stands against it, never both and never neither.  The  *)
(* consistent verdict is given only where the report proves one single      *)
(* chain; a failing disk, and Windows and EFI system partition on different *)
(* disks with nothing selected, are called unsafe (suppress.go, rules 1-7). *)
VerdictGiven ==
  findings # {} =>
    /\ ("boot_topology_consistent" \in findings) # (findings \cap Doubts # {})
    /\ "boot_topology_consistent" \in findings =>
         SafeToJudge /\ OneChain(topology.selection) /\ NothingElse
    /\ "unsafe" \in report.health => "unsafe_to_attempt_boot_repair" \in findings
    /\ \A w \in DOMAIN report.win, d, e \in DOMAIN report.disk, p, q \in DOMAIN report.part :
         (/\ NothingElse /\ topology.selection = NoSelection
          /\ AtLetter(report.win[w]) = {p} /\ WithNumber(report.part[p].number) = {d}
          /\ report.part[q].kind # "data" /\ WithNumber(report.part[q].number) = {e} /\ d # e)
         => "unsafe_to_attempt_boot_repair" \in findings

(* "Otherwise `selection.source = none` and blockers are recorded": asked   *)
(* for no particular target, with every installation on a drive of its own, *)
(* the resolver answers with a topology.  Two installations on one disk     *)
(* refute it: the disk becomes a candidate twice and the topology fails its *)
(* own validation.                                                          *)
AutomaticAnswers ==
  case # NoCase /\ (\A v, w \in DOMAIN report.win : v # w => report.win[v] # report.win[w])
    => ~Refused(case, NoSelection)

(* ... and that is all that refutes it: without a choice, a machine is      *)
(* refused exactly when two of its installations share a partition or the   *)
(* one disk their partitions are on (windows_boot_topology.go:165).         *)
Share(v, w) ==
  \E p, q \in DOMAIN report.part :
    /\ AtLetter(report.win[v]) = {p} /\ AtLetter(report.win[w]) = {q}
    /\ p = q \/ \E d \in DOMAIN report.disk :
                  WithNumber(report.part[p].number) = {d} /\ WithNumber(report.part[q].number) = {d}

RefusedOnlyShared ==
  case # NoCase => (Refused(case, NoSelection) <=> \E v, w \in DOMAIN report.win : v # w /\ Share(v, w))
=============================================================================
