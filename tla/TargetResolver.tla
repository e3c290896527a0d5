--------------------------- MODULE TargetResolver ---------------------------
(* The Windows boot topology a case implies (targetresolver/resolver.go):   *)
(* which installation starts from which partition, disk, EFI system         *)
(* partition and boot store, and whether anything blocks a repair plan.     *)
(*                                                                          *)
(* A candidate or relation remembers in "from" the installation it was made *)
(* for: two of one role (or type) and target then have one id.              *)
EXTENDS LegacyImport

On(condition, S) == IF condition THEN S ELSE {}

NoSelection == [source |-> "none", win |-> None, part |-> None, disk |-> None, esp |-> None, bcd |-> None]
Roles(s) == {s.win, s.part, s.disk, s.esp, s.bcd} \ {None}

Candidate(role, target, from) == [role |-> role, target |-> target, from |-> from]
Relation(type, a, b, confidence, from) ==
  [type |-> type, a |-> a, b |-> b, confidence |-> confidence, from |-> from]

FirmwareMode(k) ==
  CASE k.modes = {"uefi"} -> "uefi"
    [] k.modes = {"bios"} -> "bios"
    [] Cardinality(k.modes) > 1 -> "conflicting"
    [] OTHER -> "unknown"

FirmwareBlockers(mode) ==
  CASE mode = "unknown" -> {"firmware_unknown"}
    [] mode = "conflicting" -> {"firmware_conflicting"}
    [] mode = "bios" -> {"firmware_not_uefi", "unsupported_layout"}
    [] OTHER -> {}

-----------------------------------------------------------------------------
(* Relations between the targets.                                           *)

RelatedPartitions(k, t) == k.related[t]

(* By the relation the importer found, and again by disk number.            *)
RelatedDisks(k, p) == k.related[p] \cup {d \in DOMAIN k.disk : k.disk[d].number = k.part[p].number}

LetterOnly(k, t, p) == k.letter[t] # None /\ k.letter[t] = k.letter[p]
LinkConfidence(k, t, p) == IF LetterOnly(k, t, p) THEN "runtime_only" ELSE "strong_inference"

Linked(k, t) == Cardinality(RelatedPartitions(k, t)) = 1
PartitionOf(k, t) == CHOOSE p \in RelatedPartitions(k, t) : TRUE
OnDisk(k, w) == Linked(k, w) /\ Cardinality(RelatedDisks(k, PartitionOf(k, w))) = 1
DiskOf(k, w) == CHOOSE d \in RelatedDisks(k, PartitionOf(k, w)) : TRUE

WindowsCandidates(k) ==
  {Candidate("windows", w, w) : w \in k.win}
    \cup {Candidate("windows_partition", PartitionOf(k, w), w) : w \in {v \in k.win : Linked(k, v)}}
    \cup {Candidate("system_disk", DiskOf(k, w), w) : w \in {v \in k.win : OnDisk(k, v)}}

WindowsRelations(k) ==
  {Relation("hosts_windows", PartitionOf(k, w), w, LinkConfidence(k, w, PartitionOf(k, w)), w)
      : w \in {v \in k.win : Linked(k, v)}}
    \cup {Relation("contains", DiskOf(k, w), PartitionOf(k, w), "strong_inference", w)
            : w \in {v \in k.win : OnDisk(k, v)}}

WindowsAmbiguities(k) ==
  On(\E w \in k.win : Cardinality(RelatedPartitions(k, w)) > 1
                        \/ (RelatedPartitions(k, w) = {} /\ k.letter[w] # None),
     {"windows_partition_unresolved"})
    \cup On(\E w \in k.win : Linked(k, w) /\ Cardinality(RelatedDisks(k, PartitionOf(k, w))) > 1,
            {"system_disk_unresolved"})

(* An EFI system partition is proven by its GPT type and only suspected by  *)
(* the words of its type.                                                   *)
ESPs(k) == {p \in DOMAIN k.part : k.part[p].kind \in {"efi", "system"}}
ESPConfidence(k, p) == IF k.part[p].kind = "efi" THEN "proven" ELSE "ambiguous"

ESPCandidates(k) == {Candidate("esp", p, p) : p \in ESPs(k)}
ESPRelations(k) ==
  UNION {{Relation("hosts_esp", d, p, ESPConfidence(k, p), p) : d \in RelatedDisks(k, p)} : p \in ESPs(k)}

BCDCandidates(k) == {Candidate("bcd", b, b) : b \in k.store}
BCDRelations(k) ==
  {Relation("contains_bcd", PartitionOf(k, b), b, LinkConfidence(k, b, PartitionOf(k, b)), b)
      : b \in {c \in k.store : Linked(k, c)}}
BCDAmbiguities(k) ==
  On(\E b \in k.store : RelatedPartitions(k, b) = {}, {"bcd_missing"})
    \cup On(\E b \in k.store : Cardinality(RelatedPartitions(k, b)) > 1, {"bcd_ambiguous"})

Candidates(k) == WindowsCandidates(k) \cup ESPCandidates(k) \cup BCDCandidates(k)
Relations(k) == WindowsRelations(k) \cup ESPRelations(k) \cup BCDRelations(k)

-----------------------------------------------------------------------------
(* BitLocker and storage: a status that is not known to be safe blocks.     *)

BitLockerBlockers(k) ==
  On("locked" \in k.volumes, {"bitlocker_inaccessible"})
    \cup On("unknown" \in k.volumes, {"bitlocker_status_unknown"})
BitLockerLimitations(k) ==
  On("bitlocker_unavailable" \in k.limitations, {"bitlocker_inventory_unavailable"})

Unsafe(k) == "unsafe" \in k.health
HealthBlockers(k) ==
  IF Unsafe(k) THEN {"storage_health_unsafe"}
  ELSE On(k.health = {} \/ "unknown" \in k.health, {"storage_health_unknown"})
HealthAmbiguities(k) == HealthBlockers(k) \ On(k.health = {}, {"storage_health_unknown"})
HealthLimitations(k) == HealthBlockers(k) \cap {"storage_health_unknown"}

-----------------------------------------------------------------------------
(* The selection: the automatic one, or the one a technician asks for.      *)

DiskIsGPT(k, d) == k.disk[d].style = "GPT" \/ k.style[d] = "GPT"

HasRelation(k, type, a, b) ==
  \E r \in Relations(k) : /\ r.type = type /\ r.a = a /\ r.b = b
                          /\ r.confidence \notin {"ambiguous", "unknown"}

ConnectedAnywhere(k, s) ==
  /\ HasRelation(k, "hosts_windows", s.part, s.win)
  /\ HasRelation(k, "contains", s.disk, s.part)
  /\ \E d \in DOMAIN k.disk : HasRelation(k, "hosts_esp", d, s.esp)
  /\ s.bcd # None => HasRelation(k, "contains_bcd", s.esp, s.bcd)

Connected(k, s) ==
  /\ HasRelation(k, "hosts_windows", s.part, s.win)
  /\ HasRelation(k, "contains", s.disk, s.part)
  /\ HasRelation(k, "hosts_esp", s.disk, s.esp)
  /\ s.bcd # None => HasRelation(k, "contains_bcd", s.esp, s.bcd)

ValidTechnicianSelection(k, s) ==
  /\ None \notin {s.win, s.part, s.disk, s.esp}
  /\ s.win \in k.win /\ s.part \in DOMAIN k.part /\ s.disk \in DOMAIN k.disk
  /\ s.esp \in DOMAIN k.part /\ s.bcd \in k.store \cup {None}
  /\ DiskIsGPT(k, s.disk)
  /\ Connected(k, s)

(* What stops the automatic selection, at the first of its checks that does *)
(* ("ok" when none does).                                                   *)
AutomaticCheck(k) ==
  LET w == CHOOSE v \in k.win : TRUE IN
  IF FirmwareMode(k) # "uefi" THEN "technician_selection_required"
  ELSE IF Cardinality(k.win) # 1 THEN "silent"
  ELSE IF ~OnDisk(k, w) THEN "windows_partition_unresolved"
  ELSE IF ~DiskIsGPT(k, DiskOf(k, w)) THEN "disk_not_gpt"
  ELSE IF Cardinality(ESPs(k)) # 1 THEN "silent"
  ELSE IF Cardinality(k.store) > 1 THEN "bcd_ambiguous"
  ELSE IF \E r \in Relations(k) : r.confidence = "ambiguous" THEN "evidence_incomplete"
  ELSE "ok"

AutomaticCandidate(k) ==
  LET w == CHOOSE v \in k.win : TRUE IN
  [ source |-> "automatic", win |-> w, part |-> PartitionOf(k, w), disk |-> DiskOf(k, w),
    esp |-> CHOOSE p \in ESPs(k) : TRUE,
    bcd |-> IF k.store = {} THEN None ELSE CHOOSE b \in k.store : TRUE ]

AutomaticSelection(k) ==
  IF AutomaticCheck(k) = "ok" /\ Connected(k, AutomaticCandidate(k)) THEN AutomaticCandidate(k) ELSE NoSelection

AutomaticBlockers(k) ==
  CASE AutomaticCheck(k) = "ok" -> On(~Connected(k, AutomaticCandidate(k)), {"unsupported_layout"})
    [] AutomaticCheck(k) = "silent" -> {}
    [] OTHER -> {AutomaticCheck(k)}

RuntimeOnlySelected(k, s) ==
  \E r \in Relations(k) : r.confidence = "runtime_only" /\ {r.a, r.b} \cap Roles(s) # {}

-----------------------------------------------------------------------------
(* The topology.                                                            *)

(* Mutant: a candidate is known by its target alone.                        *)
DuplicateTargets(k) ==
  \/ \E c, d \in Candidates(k) : c.from # d.from /\ c.target = d.target
  \/ \E r, q \in Relations(k) : r.from # q.from /\ r.type = q.type /\ r.a = q.a /\ r.b = q.b

(* Two candidates of one role and target, or two relations of one type and  *)
(* pair, have one id: the topology does not pass its own validation.        *)
DuplicateIDs(k) ==
  \/ \E c, d \in Candidates(k) : c.from # d.from /\ c.role = d.role /\ c.target = d.target
  \/ \E r, q \in Relations(k) : r.from # q.from /\ r.type = q.type /\ r.a = q.a /\ r.b = q.b

Blockers(k, pinned, selected) ==
  FirmwareBlockers(FirmwareMode(k)) \cup BitLockerBlockers(k) \cup HealthBlockers(k)
    \cup On(pinned = NoSelection, AutomaticBlockers(k))
    \cup On(k.win = {}, {"windows_missing"})
    \cup On(Cardinality(k.win) > 1 /\ pinned = NoSelection, {"windows_ambiguous"})
    \cup On(ESPs(k) = {}, {"esp_missing"})
    \cup On(Cardinality(ESPs(k)) > 1 /\ pinned.esp = None, {"esp_ambiguous"})
    \cup On(RuntimeOnlySelected(k, selected), {"relation_runtime_only"})

Refused(k, pinned) ==
  \/ pinned # NoSelection /\ ~ValidTechnicianSelection(k, pinned)
  \/ DuplicateIDs(k)

Resolve(k, pinned) ==
  LET chosen == IF pinned = NoSelection THEN AutomaticSelection(k) ELSE pinned
      blockers == Blockers(k, pinned, chosen)
      eligible == blockers = {} /\ chosen # NoSelection
  IN [ mode |-> FirmwareMode(k), candidates |-> Candidates(k), relations |-> Relations(k),
       selection |-> IF ~eligible /\ chosen.source = "automatic" THEN NoSelection ELSE chosen,
       ambiguities |-> WindowsAmbiguities(k) \cup BCDAmbiguities(k) \cup BitLockerBlockers(k)
                         \cup HealthAmbiguities(k)
                         \cup On(FirmwareMode(k) = "conflicting", {"firmware_conflicting"})
                         \cup On(Cardinality(ESPs(k)) > 1, {"esp_ambiguous"})
                         \cup On(pinned = NoSelection /\ AutomaticBlockers(k) = {"unsupported_layout"},
                                 {"unsupported_layout"}),
       limitations |-> HealthLimitations(k) \cup BitLockerLimitations(k),
       blockers |-> blockers, eligible |-> eligible ]
=============================================================================
