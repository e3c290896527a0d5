--------------------------- MODULE AnalysisProofs ---------------------------
(* What the resolver and the Boot Doctor conclude from any report: proofs   *)
(* of the properties of Analysis for every set of reports.                  *)
EXTENDS Analysis, FiniteSetTheorems, TLAPS

(* The state of an analysis is what the code computed from the report.      *)
Resolved(k, t) ==
  \E pinned \in {NoSelection} \cup Pins(k) : ~Refused(k, pinned) /\ t = Resolve(k, pinned)

AInv ==
  /\ report \in Reports
  /\ case = NoCase \/ case = Imported(report)
  /\ topology = NoTopology \/ (case = Imported(report) /\ Resolved(case, topology))
  /\ findings = {} \/ (topology # NoTopology /\ findings = Analyze(case, topology))

LEMMA AlwaysComputed == ASpec => []AInv
<1>1. AInit => AInv
  BY DEF AInit, AInv
<1>2. AInv /\ [ANext]_avars => AInv'
  <2> SUFFICES ASSUME AInv, [ANext]_avars PROVE AInv'
    OBVIOUS
  <2>1. CASE ImportReport
    BY <2>1 DEF AInv, ImportReport
  <2>2. CASE ResolveTopology
    <3>1. PICK pinned \in {NoSelection} \cup Pins(case) :
            IF Refused(case, pinned)
            THEN refused' = TRUE /\ UNCHANGED <<topology, findings>>
            ELSE refused' = FALSE /\ topology' = Resolve(case, pinned) /\ findings' = {}
      BY <2>2 DEF ResolveTopology
    <3>2. case = Imported(report) /\ report' = report /\ case' = case
      BY <2>2 DEF ResolveTopology, AInv
    <3>3. CASE Refused(case, pinned)
      BY <3>1, <3>2, <3>3 DEF AInv
    <3>4. CASE ~Refused(case, pinned)
      <4>1. Resolved(case, topology') /\ findings' = {}
        BY <3>1, <3>4 DEF Resolved
      <4> QED
        BY <3>2, <4>1 DEF AInv
    <3> QED
      BY <3>3, <3>4
  <2>3. CASE AnalyzeTopology
    BY <2>3 DEF AInv, AnalyzeTopology
  <2>4. CASE UNCHANGED avars
    BY <2>4 DEF AInv, avars
  <2> QED
    BY <2>1, <2>2, <2>3, <2>4 DEF ANext
<1> QED
  BY <1>1, <1>2, PTL DEF ASpec

-----------------------------------------------------------------------------
(* Sets of one.                                                             *)

LEMMA OneIsSingleton ==
  ASSUME NEW S, IsFiniteSet(S)
  PROVE  /\ Cardinality(S) \in Nat
         /\ Cardinality(S) = 1 <=> \E x : S = {x}
         /\ Cardinality(S) = 0 <=> S = {}
         /\ Cardinality(S) <= 1 <=> \A x, y \in S : x = y
         /\ Cardinality(S) > 1 <=> \E x, y \in S : x # y
<1>1. Cardinality(S) \in Nat /\ (Cardinality(S) = 0 <=> S = {}) /\ (Cardinality(S) = 1 <=> \E x : S = {x})
  BY FS_CardinalityType, FS_EmptySet, FS_Singleton
<1>2. Cardinality(S) <= 1 <=> Cardinality(S) = 0 \/ Cardinality(S) = 1
  BY <1>1
<1>3. (S = {} \/ \E x : S = {x}) <=> \A x, y \in S : x = y
  OBVIOUS
<1>4. Cardinality(S) > 1 <=> ~(Cardinality(S) <= 1)
  BY <1>1
<1> QED
  BY <1>1, <1>2, <1>3, <1>4

LEMMA UniqueIs ==
  ASSUME NEW S, IsFiniteSet(S)
  PROVE  /\ Unique(S) \subseteq S /\ IsFiniteSet(Unique(S))
         /\ \A x : Unique(S) = {x} <=> S = {x}
         /\ \A x \in Unique(S) : S = {x}
         /\ Cardinality(Unique(S)) \in {0, 1}
<1>1. Cardinality(S) = 1 <=> \E x : S = {x}
  BY OneIsSingleton
<1>2. Unique(S) = S \/ Unique(S) = {}
  BY DEF Unique
<1>3. IsFiniteSet(Unique(S)) /\ IsFiniteSet({}) /\ Cardinality({}) = 0
  BY <1>2, FS_EmptySet
<1>4. \A x : S = {x} => Unique(S) = S
  BY <1>1 DEF Unique
<1>5. \A x \in Unique(S) : S = {x}
  BY <1>1 DEF Unique
<1>6. Cardinality(Unique(S)) \in {0, 1}
  BY <1>3 DEF Unique
<1>7. \A x : Unique(S) = {x} => S = {x}
  BY <1>2, <1>5
<1> QED
  BY <1>2, <1>3, <1>4, <1>5, <1>6, <1>7

-----------------------------------------------------------------------------
(* The case that was imported, read off the report.                         *)

LEMMA CaseIs ==
  ASSUME report \in Reports, case = Imported(report)
  PROVE  /\ case.modes = report.modes /\ case.health = report.health
         /\ case.part = report.part /\ case.disk = report.disk
         /\ case.win = DOMAIN report.win /\ case.store = DOMAIN report.store
         /\ case.volumes = IF report.inventory = "unavailable" THEN {} ELSE report.volumes
         /\ \A w \in case.win : RelatedPartitions(case, w) = Unique(AtLetter(report.win[w]))
         /\ \A b \in case.store : RelatedPartitions(case, b) = Unique(AtLetter(report.store[b]))
         /\ \A q \in DOMAIN case.part : RelatedDisks(case, q) = WithNumber(report.part[q].number)
         /\ \A d \in DOMAIN case.disk : case.style[d] = None
<1> DEFINE R == RelatedTargetIDs(report)
<1>1. /\ case.modes = report.modes /\ case.health = report.health
      /\ case.part = report.part /\ case.disk = report.disk
      /\ case.win = DOMAIN report.win /\ case.store = DOMAIN report.store
      /\ case.volumes = IF report.inventory = "unavailable" THEN {} ELSE report.volumes
      /\ case.related = R /\ case.style = [d \in DOMAIN report.disk |-> None]
  BY DEF Imported
<1>2. /\ DOMAIN report.part \cap DOMAIN report.win = {} /\ DOMAIN report.part \cap DOMAIN report.store = {}
      /\ DOMAIN report.win \cap DOMAIN report.store = {}
  BY ReportsAssumption DEF IsReport
<1>3. \A w \in DOMAIN report.win : R[w] = Unique(AtLetter(report.win[w]))
  BY <1>2 DEF RelatedTargetIDs, AtLetter
<1>4. \A b \in DOMAIN report.store : R[b] = Unique(AtLetter(report.store[b]))
  BY <1>2 DEF RelatedTargetIDs, AtLetter
<1>5. \A q \in DOMAIN report.part : R[q] = Unique(WithNumber(report.part[q].number))
  BY <1>2 DEF RelatedTargetIDs, WithNumber
<1> HIDE DEF R
<1>6. \A q \in DOMAIN case.part : RelatedDisks(case, q) = WithNumber(report.part[q].number)
  <2> SUFFICES ASSUME NEW q \in DOMAIN report.part
               PROVE  RelatedDisks(case, q) = WithNumber(report.part[q].number)
    BY <1>1
  <2>1. RelatedDisks(case, q) = R[q] \cup WithNumber(report.part[q].number)
    BY <1>1 DEF RelatedDisks, WithNumber
  <2>2. R[q] \subseteq WithNumber(report.part[q].number)
    BY <1>5 DEF Unique
  <2> QED
    BY <2>1, <2>2
<1> QED
  BY <1>1, <1>3, <1>4, <1>6 DEF RelatedPartitions

LEMMA CaseFinite ==
  ASSUME report \in Reports, case = Imported(report)
  PROVE  /\ IsFiniteSet(case.win) /\ IsFiniteSet(case.store) /\ IsFiniteSet(ESPs(case))
         /\ \A l : IsFiniteSet(AtLetter(l))
         /\ \A n : IsFiniteSet(WithNumber(n))
<1>1. /\ IsFiniteSet(DOMAIN report.part) /\ IsFiniteSet(DOMAIN report.disk)
      /\ IsFiniteSet(DOMAIN report.win) /\ IsFiniteSet(DOMAIN report.store)
  BY ReportsAssumption DEF IsReport
<1>2. case.win = DOMAIN report.win /\ case.store = DOMAIN report.store /\ case.part = report.part
  BY CaseIs
<1>3. ESPs(case) \subseteq DOMAIN report.part
  BY <1>2 DEF ESPs
<1>4. \A l : AtLetter(l) \subseteq DOMAIN report.part
  BY DEF AtLetter
<1>5. \A n : WithNumber(n) \subseteq DOMAIN report.disk
  BY DEF WithNumber
<1> QED
  BY <1>1, <1>2, <1>3, <1>4, <1>5, FS_Subset

(* A link is there exactly where the report leaves no choice.               *)
LEMMA LinkedIs ==
  ASSUME report \in Reports, case = Imported(report), NEW t, NEW l,
         \/ t \in case.win /\ l = report.win[t]
         \/ t \in case.store /\ l = report.store[t]
  PROVE  /\ Linked(case, t) => AtLetter(l) = {PartitionOf(case, t)} /\ PartitionOf(case, t) \in DOMAIN case.part
         /\ \A p : AtLetter(l) = {p} => Linked(case, t) /\ PartitionOf(case, t) = p
<1>1. RelatedPartitions(case, t) = Unique(AtLetter(l)) /\ IsFiniteSet(AtLetter(l))
  BY CaseIs, CaseFinite
<1>2. IsFiniteSet(RelatedPartitions(case, t))
  BY <1>1, UniqueIs
<1>3. Linked(case, t) <=> \E x : RelatedPartitions(case, t) = {x}
  BY <1>2, OneIsSingleton DEF Linked
<1>4. \A x : RelatedPartitions(case, t) = {x} => PartitionOf(case, t) = x
  BY DEF PartitionOf
<1>5. \A x : RelatedPartitions(case, t) = {x} <=> AtLetter(l) = {x}
  BY <1>1, UniqueIs
<1>6. AtLetter(l) \subseteq DOMAIN case.part
  BY CaseIs DEF AtLetter
<1> QED
  BY <1>3, <1>4, <1>5, <1>6

LEMMA OnDiskIs ==
  ASSUME report \in Reports, case = Imported(report), NEW w \in case.win
  PROVE  /\ OnDisk(case, w) => /\ Linked(case, w) /\ DiskOf(case, w) \in DOMAIN case.disk
                               /\ WithNumber(report.part[PartitionOf(case, w)].number) = {DiskOf(case, w)}
         /\ \A d : Linked(case, w) /\ WithNumber(report.part[PartitionOf(case, w)].number) = {d}
                     => OnDisk(case, w) /\ DiskOf(case, w) = d
<1> SUFFICES ASSUME Linked(case, w)
             PROVE  /\ OnDisk(case, w) => /\ DiskOf(case, w) \in DOMAIN case.disk
                                          /\ WithNumber(report.part[PartitionOf(case, w)].number) = {DiskOf(case, w)}
                    /\ \A d : WithNumber(report.part[PartitionOf(case, w)].number) = {d}
                                => OnDisk(case, w) /\ DiskOf(case, w) = d
  BY DEF OnDisk
<1> DEFINE p == PartitionOf(case, w)
           D == WithNumber(report.part[p].number)
<1>1. p \in DOMAIN case.part
  BY LinkedIs
<1>2. RelatedDisks(case, p) = D /\ IsFiniteSet(D)
  BY <1>1, CaseIs, CaseFinite
<1>3. (OnDisk(case, w) => \E x : D = {x}) /\ ((\E x : D = {x}) => OnDisk(case, w))
  <2>1. Cardinality(D) = 1 <=> \E x : D = {x}
    BY <1>2, OneIsSingleton
  <2>2. OnDisk(case, w) <=> Cardinality(D) = 1
    BY <1>2 DEF OnDisk
  <2> HIDE DEF D
  <2> QED
    BY <2>1, <2>2, Zenon
<1>4. \A x : D = {x} => DiskOf(case, w) = x
  BY <1>2 DEF DiskOf
<1>5. D \subseteq DOMAIN case.disk
  BY CaseIs DEF WithNumber
<1> QED
  BY <1>3, <1>4, <1>5

(* The relations of a case, kind by kind.                                   *)
LEMMA RelationsAre ==
  ASSUME NEW k, NEW r
  PROVE  r \in Relations(k) <=>
           \/ \E w \in k.win : Linked(k, w) /\ r = Relation("hosts_windows", PartitionOf(k, w), w,
                                                            LinkConfidence(k, w, PartitionOf(k, w)), w)
           \/ \E w \in k.win : OnDisk(k, w) /\ r = Relation("contains", DiskOf(k, w), PartitionOf(k, w),
                                                            "strong_inference", w)
           \/ \E p \in ESPs(k) : \E d \in RelatedDisks(k, p) :
                r = Relation("hosts_esp", d, p, ESPConfidence(k, p), p)
           \/ \E b \in k.store : Linked(k, b) /\ r = Relation("contains_bcd", PartitionOf(k, b), b,
                                                              LinkConfidence(k, b, PartitionOf(k, b)), b)
<1>1. r \in WindowsRelations(k) <=>
           \/ \E w \in k.win : Linked(k, w) /\ r = Relation("hosts_windows", PartitionOf(k, w), w,
                                                            LinkConfidence(k, w, PartitionOf(k, w)), w)
           \/ \E w \in k.win : OnDisk(k, w) /\ r = Relation("contains", DiskOf(k, w), PartitionOf(k, w),
                                                            "strong_inference", w)
  BY DEF WindowsRelations
<1>2. r \in ESPRelations(k) <=> \E p \in ESPs(k) : \E d \in RelatedDisks(k, p) :
                                  r = Relation("hosts_esp", d, p, ESPConfidence(k, p), p)
  BY DEF ESPRelations
<1>3. r \in BCDRelations(k) <=>
        \E b \in k.store : Linked(k, b) /\ r = Relation("contains_bcd", PartitionOf(k, b), b,
                                                        LinkConfidence(k, b, PartitionOf(k, b)), b)
  BY DEF BCDRelations
<1> QED
  BY <1>1, <1>2, <1>3 DEF Relations

LEMMA RelationFields ==
  ASSUME NEW k, NEW r \in Relations(k)
  PROVE  /\ r.type \in {"hosts_windows", "contains", "hosts_esp", "contains_bcd"}
         /\ r.type = "hosts_windows" =>
              r.from = r.b /\ r.b \in k.win /\ Linked(k, r.b) /\ r.a = PartitionOf(k, r.b)
         /\ r.type = "contains" =>
              r.from \in k.win /\ OnDisk(k, r.from) /\ r.a = DiskOf(k, r.from) /\ r.b = PartitionOf(k, r.from)
         /\ r.type = "hosts_esp" =>
              r.from = r.b /\ r.b \in ESPs(k) /\ r.a \in RelatedDisks(k, r.b)
              /\ r.confidence = ESPConfidence(k, r.b)
         /\ r.type = "contains_bcd" =>
              r.from = r.b /\ r.b \in k.store /\ Linked(k, r.b) /\ r.a = PartitionOf(k, r.b)
<1>1. CASE \E w \in k.win : Linked(k, w) /\ r = Relation("hosts_windows", PartitionOf(k, w), w,
                                                         LinkConfidence(k, w, PartitionOf(k, w)), w)
  BY <1>1 DEF Relation
<1>2. CASE \E w \in k.win : OnDisk(k, w) /\ r = Relation("contains", DiskOf(k, w), PartitionOf(k, w),
                                                         "strong_inference", w)
  BY <1>2 DEF Relation
<1>3. CASE \E p \in ESPs(k) : \E d \in RelatedDisks(k, p) :
             r = Relation("hosts_esp", d, p, ESPConfidence(k, p), p)
  BY <1>3 DEF Relation
<1>4. CASE \E b \in k.store : Linked(k, b) /\ r = Relation("contains_bcd", PartitionOf(k, b), b,
                                                           LinkConfidence(k, b, PartitionOf(k, b)), b)
  BY <1>4 DEF Relation
<1> QED
  BY <1>1, <1>2, <1>3, <1>4, RelationsAre

LEMMA HasRelationIs ==
  ASSUME NEW k, NEW a, NEW b
  PROVE  /\ HasRelation(k, "hosts_windows", a, b) => b \in k.win /\ Linked(k, b) /\ a = PartitionOf(k, b)
         /\ HasRelation(k, "contains", a, b) =>
              \E w \in k.win : OnDisk(k, w) /\ a = DiskOf(k, w) /\ b = PartitionOf(k, w)
         /\ HasRelation(k, "hosts_esp", a, b) => b \in ESPs(k) /\ a \in RelatedDisks(k, b) /\ k.part[b].kind = "efi"
         /\ HasRelation(k, "contains_bcd", a, b) => b \in k.store /\ Linked(k, b) /\ a = PartitionOf(k, b)
<1>1. \A type : HasRelation(k, type, a, b) =>
        \E r \in Relations(k) : r.type = type /\ r.a = a /\ r.b = b /\ r.confidence # "ambiguous"
  BY DEF HasRelation
<1>2. \A p : ESPConfidence(k, p) # "ambiguous" => k.part[p].kind = "efi"
  BY DEF ESPConfidence
<1> QED
  BY <1>1, <1>2, RelationFields

-----------------------------------------------------------------------------
(* The resolver.                                                            *)

(* What is known of a topology that is called eligible.                     *)
LEMMA EligibleIs ==
  ASSUME NEW k, NEW t, Resolved(k, t), t.eligible
  PROVE  /\ t.blockers = {} /\ t.selection # NoSelection
         /\ Connected(k, t.selection) /\ DiskIsGPT(k, t.selection.disk)
         /\ t.selection.source = "automatic" =>
              t.selection = AutomaticCandidate(k) /\ AutomaticCheck(k) = "ok"
<1>1. PICK pinned \in {NoSelection} \cup Pins(k) : ~Refused(k, pinned) /\ t = Resolve(k, pinned)
  BY DEF Resolved
<1> DEFINE chosen == IF pinned = NoSelection THEN AutomaticSelection(k) ELSE pinned
<1>2. /\ t.blockers = Blockers(k, pinned, chosen)
      /\ t.eligible = (t.blockers = {} /\ chosen # NoSelection)
      /\ t.selection = IF ~t.eligible /\ chosen.source = "automatic" THEN NoSelection ELSE chosen
  BY <1>1 DEF Resolve
<1>3. t.blockers = {} /\ chosen # NoSelection /\ t.selection = chosen
  BY <1>2
<1>4. CASE pinned = NoSelection
  <2>1. chosen = AutomaticCandidate(k) /\ AutomaticCheck(k) = "ok" /\ Connected(k, chosen)
    BY <1>3, <1>4 DEF AutomaticSelection
  <2>2. chosen.disk = DiskOf(k, CHOOSE v \in k.win : TRUE)
    BY <2>1 DEF AutomaticCandidate
  <2>3. DiskIsGPT(k, chosen.disk)
    BY <2>1, <2>2 DEF AutomaticCheck
  <2> QED
    BY <1>3, <2>1, <2>3
<1>5. CASE pinned # NoSelection
  <2>1. chosen = pinned /\ ValidTechnicianSelection(k, pinned)
    BY <1>1, <1>5 DEF Refused
  <2>2. pinned.source = "technician"
    BY <1>5 DEF Pins
  <2> QED
    BY <1>3, <2>1, <2>2 DEF ValidTechnicianSelection
<1> QED
  BY <1>4, <1>5

(* Every blocker of a topology is one of these, whoever chose.              *)
LEMMA BlockersInclude ==
  ASSUME NEW k, NEW t, Resolved(k, t)
  PROVE  /\ FirmwareBlockers(FirmwareMode(k)) \cup BitLockerBlockers(k) \cup HealthBlockers(k) \subseteq t.blockers
         /\ k.win = {} => "windows_missing" \in t.blockers
         /\ t.mode = FirmwareMode(k) /\ t.candidates = Candidates(k) /\ t.relations = Relations(k)
         /\ "storage_health_unsafe" \in t.ambiguities => "storage_health_unsafe" \in t.blockers
         /\ t.ambiguities \cap {"unsupported_layout", "storage_health_unsafe", "bitlocker_inaccessible",
                                "bitlocker_status_unknown"} \subseteq t.blockers
<1>1. PICK pinned \in {NoSelection} \cup Pins(k) : t = Resolve(k, pinned)
  BY DEF Resolved
<1> DEFINE chosen == IF pinned = NoSelection THEN AutomaticSelection(k) ELSE pinned
<1>2. /\ t.mode = FirmwareMode(k) /\ t.candidates = Candidates(k) /\ t.relations = Relations(k)
      /\ t.blockers = Blockers(k, pinned, chosen)
      /\ t.ambiguities = WindowsAmbiguities(k) \cup BCDAmbiguities(k) \cup BitLockerBlockers(k)
                           \cup HealthAmbiguities(k)
                           \cup On(FirmwareMode(k) = "conflicting", {"firmware_conflicting"})
                           \cup On(Cardinality(ESPs(k)) > 1, {"esp_ambiguous"})
                           \cup On(pinned = NoSelection /\ AutomaticBlockers(k) = {"unsupported_layout"},
                                   {"unsupported_layout"})
  BY <1>1 DEF Resolve
<1>3. /\ FirmwareBlockers(FirmwareMode(k)) \cup BitLockerBlockers(k) \cup HealthBlockers(k) \subseteq t.blockers
      /\ On(pinned = NoSelection, AutomaticBlockers(k)) \subseteq t.blockers
      /\ On(k.win = {}, {"windows_missing"}) \subseteq t.blockers
  BY <1>2 DEF Blockers
<1>4. HealthAmbiguities(k) \subseteq HealthBlockers(k)
  BY DEF HealthAmbiguities
<1>5. /\ WindowsAmbiguities(k) \subseteq {"windows_partition_unresolved", "system_disk_unresolved"}
      /\ BCDAmbiguities(k) \subseteq {"bcd_missing", "bcd_ambiguous"}
  BY DEF WindowsAmbiguities, BCDAmbiguities, On
<1>6. ASSUME NEW a \in t.ambiguities,
             a \in {"unsupported_layout", "storage_health_unsafe", "bitlocker_inaccessible",
                    "bitlocker_status_unknown"}
      PROVE  a \in t.blockers
  <2>1. \/ a \in BitLockerBlockers(k) \/ a \in HealthAmbiguities(k)
        \/ a \in On(pinned = NoSelection /\ AutomaticBlockers(k) = {"unsupported_layout"}, {"unsupported_layout"})
    BY <1>2, <1>5, <1>6 DEF On
  <2>2. a \in On(pinned = NoSelection /\ AutomaticBlockers(k) = {"unsupported_layout"}, {"unsupported_layout"})
          => a \in On(pinned = NoSelection, AutomaticBlockers(k))
    BY DEF On
  <2> QED
    BY <1>3, <1>4, <2>1, <2>2
<1>7. k.win = {} => "windows_missing" \in t.blockers
  BY <1>3 DEF On
<1> QED
  BY <1>2, <1>3, <1>6, <1>7

(* Nothing blocks only a machine that is safe to judge.                     *)
LEMMA SafeIs ==
  ASSUME report \in Reports, case = Imported(report), NEW t, Resolved(case, t), t.blockers = {}
  PROVE  SafeToJudge /\ t.mode = "uefi"
<1>1. /\ FirmwareBlockers(FirmwareMode(case)) = {} /\ BitLockerBlockers(case) = {} /\ HealthBlockers(case) = {}
      /\ t.mode = FirmwareMode(case)
  BY BlockersInclude
<1>2. /\ case.modes = report.modes /\ case.health = report.health
      /\ case.volumes = IF report.inventory = "unavailable" THEN {} ELSE report.volumes
  BY CaseIs
<1>3. FirmwareMode(case) = "uefi"
  BY <1>1 DEF FirmwareBlockers, FirmwareMode
<1>4. report.modes = {"uefi"}
  BY <1>2, <1>3 DEF FirmwareMode
<1>5. report.health = {"healthy"}
  <2>1. "unsafe" \notin report.health /\ report.health # {} /\ "unknown" \notin report.health
    BY <1>1, <1>2 DEF HealthBlockers, Unsafe, On
  <2>2. report.health \subseteq {"healthy", "unknown", "unsafe"}
    BY ReportsAssumption DEF IsReport
  <2> QED
    BY <2>1, <2>2
<1>6. report.inventory # "unavailable" => report.volumes \subseteq {"unlocked"}
  <2>1. "locked" \notin case.volumes /\ "unknown" \notin case.volumes
    BY <1>1 DEF BitLockerBlockers, On
  <2>2. report.volumes \subseteq {"unlocked", "locked", "unknown"}
    BY ReportsAssumption DEF IsReport
  <2> QED
    BY <1>2, <2>1, <2>2
<1> QED
  BY <1>1, <1>3, <1>4, <1>5, <1>6 DEF SafeToJudge

(* A connected selection on a GPT disk is one chain of the report.          *)
LEMMA ChainIs ==
  ASSUME report \in Reports, case = Imported(report), NEW s, Connected(case, s), DiskIsGPT(case, s.disk)
  PROVE  OneChain(s) /\ s.esp \in ESPs(case) /\ s.win \in case.win
<1>1. s.win \in case.win /\ Linked(case, s.win) /\ s.part = PartitionOf(case, s.win)
  BY HasRelationIs DEF Connected
<1>2. PICK w \in case.win : OnDisk(case, w) /\ s.disk = DiskOf(case, w) /\ s.part = PartitionOf(case, w)
  BY HasRelationIs DEF Connected
<1>3. s.esp \in ESPs(case) /\ s.disk \in RelatedDisks(case, s.esp) /\ case.part[s.esp].kind = "efi"
  BY HasRelationIs DEF Connected
<1>4. s.bcd # None => s.bcd \in case.store /\ Linked(case, s.bcd) /\ s.esp = PartitionOf(case, s.bcd)
  BY HasRelationIs DEF Connected
<1>5. AtLetter(report.win[s.win]) = {s.part}
  BY <1>1, LinkedIs
<1>6. WithNumber(report.part[s.part].number) = {s.disk} /\ s.disk \in DOMAIN case.disk
  BY <1>2, OnDiskIs
<1>7. report.disk[s.disk].style = "GPT"
  BY <1>6, CaseIs DEF DiskIsGPT, None
<1>8. report.part[s.esp].kind = "efi" /\ report.part[s.esp].number = report.disk[s.disk].number
  <2>1. s.esp \in DOMAIN case.part /\ case.part = report.part
    BY <1>3, CaseIs DEF ESPs
  <2>2. s.disk \in WithNumber(report.part[s.esp].number)
    BY <1>3, <2>1, CaseIs
  <2> QED
    BY <1>3, <2>1, <2>2 DEF WithNumber
<1>9. s.bcd # None => AtLetter(report.store[s.bcd]) = {s.esp}
  BY <1>4, LinkedIs
<1> QED
  BY <1>1, <1>3, <1>5, <1>6, <1>7, <1>8, <1>9 DEF OneChain

(* The report's partitions that may be EFI system partitions.               *)
LEMMA ESPsAre ==
  ASSUME report \in Reports, case = Imported(report)
  PROVE  ESPs(case) = {p \in DOMAIN report.part : report.part[p].kind # "data"}
<1>1. case.part = report.part
  BY CaseIs
<1>2. \A p \in DOMAIN report.part : report.part[p].kind \in {"efi", "system", "data"}
  BY ReportsAssumption DEF IsReport
<1> QED
  BY <1>1, <1>2 DEF ESPs

(* The automatic choice is made only where there is no other.               *)
LEMMA OnlyChoice ==
  ASSUME report \in Reports, case = Imported(report), AutomaticCheck(case) = "ok"
  PROVE  NothingElse
<1>1. Cardinality(case.win) = 1 /\ Cardinality(ESPs(case)) = 1 /\ ~(Cardinality(case.store) > 1)
  BY DEF AutomaticCheck
<1>2. Cardinality(case.store) \in Nat
  BY CaseFinite, FS_CardinalityType
<1>3. case.win = DOMAIN report.win /\ case.store = DOMAIN report.store
  BY CaseIs
<1>4. Cardinality(DOMAIN report.store) <= 1
  BY <1>1, <1>2, <1>3
<1>5. Cardinality({p \in DOMAIN report.part : report.part[p].kind # "data"}) = 1
  BY <1>1, ESPsAre
<1> QED
  BY <1>1, <1>3, <1>4, <1>5 DEF NothingElse

LEMMA ProvenIs ==
  ASSUME report \in Reports, case = Imported(report), NEW t, Resolved(case, t), t.eligible
  PROVE  /\ SafeToJudge /\ OneChain(t.selection)
         /\ t.selection.source = "automatic" => NothingElse
         /\ t.selection.esp \in ESPs(case) /\ t.selection.win \in case.win
<1>1. /\ t.blockers = {} /\ Connected(case, t.selection) /\ DiskIsGPT(case, t.selection.disk)
      /\ t.selection.source = "automatic" => AutomaticCheck(case) = "ok"
  BY EligibleIs
<1>2. SafeToJudge
  BY <1>1, SafeIs
<1>3. OneChain(t.selection) /\ t.selection.esp \in ESPs(case) /\ t.selection.win \in case.win
  BY <1>1, ChainIs
<1>4. t.selection.source = "automatic" => NothingElse
  BY <1>1, OnlyChoice
<1> QED
  BY <1>2, <1>3, <1>4

-----------------------------------------------------------------------------
(* The findings.                                                            *)

Unrepairable == "unsafe_to_attempt_boot_repair"
Consistent   == "boot_topology_consistent"

(* What takes the verdict "consistent" back.                                *)
Suppressors ==
  (Doubts \ {"windows_installation_missing"})
    \cup {"storage_evidence_missing", "firmware_mode_conflicting", "firmware_mode_unknown"}

(* Suppression drops no doubt, and "consistent" for all doubts but one.     *)
LEMMA KeptIs ==
  ASSUME NEW codes
  PROVE  /\ \A c \in Doubts \cup {Unrepairable} : c \in ApplySuppression(codes) <=> c \in codes
         /\ Consistent \in ApplySuppression(codes) <=> Consistent \in codes /\ codes \cap Suppressors = {}
<1> DEFINE Droppable == Membership \cup Layout \cup {"windows_partition_relation_unknown",
                          "windows_system_disk_relation_unknown", "windows_installation_incomplete"}
<1>1. \A c : SuppressWhenPresent(c) \subseteq Droppable
  BY DEF SuppressWhenPresent, Layout
<1>2. Droppable \cap (Doubts \cup {Unrepairable}) = {}
  BY DEF Membership, Layout, Doubts, Unrepairable
<1>3. \A c : Consistent \in SuppressWhenPresent(c) <=> c \in Suppressors
  <2> SUFFICES ASSUME NEW c PROVE Consistent \in SuppressWhenPresent(c) <=> c \in Suppressors
    OBVIOUS
  <2>1. Consistent \notin Membership /\ Consistent \in Layout
    BY DEF Membership, Layout, Consistent
  <2>2. c \in Suppressors <=>
          \/ c \in {"firmware_mode_conflicting", "firmware_mode_unknown"}
          \/ c \in {"bitlocker_locked", "bitlocker_status_unknown", "storage_health_critical",
                    "storage_health_unknown", "storage_evidence_missing", "boot_topology_ambiguous",
                    "boot_topology_incomplete", "boot_topology_conflicting",
                    "efi_system_partition_cross_disk", "bcd_cross_disk_mismatch"}
    BY DEF Suppressors, Doubts
  <2>3. CASE c = "windows_installation_missing"
    BY <2>1, <2>2, <2>3 DEF SuppressWhenPresent, Consistent
  <2>4. CASE c \in {"multiple_windows_installations", "windows_installation_ambiguous"}
    BY <2>1, <2>2, <2>4 DEF SuppressWhenPresent
  <2>5. CASE c \in {"firmware_mode_conflicting", "firmware_mode_unknown"}
    BY <2>1, <2>2, <2>5 DEF SuppressWhenPresent
  <2>6. CASE c \notin {"windows_installation_missing", "multiple_windows_installations",
                       "windows_installation_ambiguous", "firmware_mode_conflicting", "firmware_mode_unknown"}
    BY <2>2, <2>6 DEF SuppressWhenPresent, Consistent
  <2> QED
    BY <2>3, <2>4, <2>5, <2>6
<1> HIDE DEF Droppable
<1>4. \A c : c \in ApplySuppression(codes) <=> c \in codes /\ \A d \in codes : c \notin SuppressWhenPresent(d)
  BY DEF ApplySuppression
<1>5. \A c \in Doubts \cup {Unrepairable} : c \in ApplySuppression(codes) <=> c \in codes
  BY <1>1, <1>2, <1>4
<1>6. Consistent \in ApplySuppression(codes) <=> Consistent \in codes /\ codes \cap Suppressors = {}
  BY <1>3, <1>4
<1> QED
  BY <1>5, <1>6

(* Which findings the groups of analyzers may draw.                         *)
LEMMA DraftsAre ==
  ASSUME NEW k, NEW t
  PROVE  /\ FirmwareFindings(k, t) \subseteq
              {"firmware_mode_unknown", "firmware_mode_conflicting", "boot_topology_conflicting",
               "unsupported_legacy_boot_topology", "legacy_with_gpt_layout", "uefi_with_mbr_system_disk"}
         /\ WindowsFindings(t) \subseteq
              {"windows_installation_missing", "multiple_windows_installations",
               "windows_installation_ambiguous", "boot_topology_ambiguous",
               "windows_partition_relation_unknown", "windows_installation_incomplete",
               "windows_system_disk_relation_unknown"}
         /\ ESPFindings(t) \subseteq
              {"efi_system_partition_missing", "multiple_efi_system_partitions",
               "efi_system_partition_ambiguous", "boot_topology_ambiguous",
               "efi_system_partition_cross_disk", "unsafe_to_attempt_boot_repair",
               "efi_system_partition_relation_unknown"}
         /\ BCDFindings(t) \subseteq
              {"bcd_store_ambiguous", "boot_topology_ambiguous", "bcd_store_missing",
               "bcd_membership_unknown", "bcd_windows_entry_missing", "bcd_points_to_unknown_installation",
               "bcd_cross_disk_mismatch", "unsafe_to_attempt_boot_repair"}
         /\ SafetyFindings(t) \subseteq
              {"bitlocker_locked", "bitlocker_recovery_material_required", "bitlocker_blocks_boot_analysis",
               "bitlocker_status_unknown", "storage_health_critical", "unsafe_to_attempt_boot_repair",
               "storage_health_unknown", "storage_evidence_missing"}
         /\ CompletenessFindings(t) \subseteq
              {"technician_selection_required", "boot_topology_incomplete",
               "insufficient_evidence_for_repair_plan", "boot_topology_conflicting",
               "boot_topology_consistent"}
<1>1. FirmwareFindings(k, t) \subseteq
        {"firmware_mode_unknown", "firmware_mode_conflicting", "boot_topology_conflicting",
         "unsupported_legacy_boot_topology", "legacy_with_gpt_layout", "uefi_with_mbr_system_disk"}
  BY DEF FirmwareFindings, On
<1> QED
  BY <1>1 DEF WindowsFindings, ESPFindings, BCDFindings, SafetyFindings, CompletenessFindings, On

(* When "consistent" is drafted, and when what takes it back is.            *)
LEMMA VerdictDrafts ==
  ASSUME NEW k, NEW t
  PROVE  LET D == CollectDrafts(k, t) IN
         /\ Consistent \in D <=>
              /\ t.eligible /\ t.selection.source # "none" /\ t.mode = "uefi" /\ t.blockers = {}
              /\ t.ambiguities \cap {"unsupported_layout", "storage_health_unsafe",
                                     "bitlocker_inaccessible", "bitlocker_status_unknown"} = {}
         /\ Incomplete(t) => "boot_topology_incomplete" \in D
         /\ "windows_installation_missing" \in D <=> Of(t, "windows") = {}
         /\ "storage_evidence_missing" \in D => "storage_health_unknown" \in t.blockers
         /\ t.mode = "uefi" => "firmware_mode_unknown" \notin D /\ "firmware_mode_conflicting" \notin D
<1> DEFINE F == FirmwareFindings(k, t)
           W == WindowsFindings(t)
           E == ESPFindings(t)
           B == BCDFindings(t)
           S == SafetyFindings(t)
           C == CompletenessFindings(t)
           D == CollectDrafts(k, t)
<1>1. \A c : c \in D <=> c \in F \/ c \in W \/ c \in E \/ c \in B \/ c \in S \/ c \in C
  BY DEF CollectDrafts
<1>2. Consistent \in C <=>
        /\ t.eligible /\ t.selection.source # "none" /\ t.mode = "uefi" /\ t.blockers = {}
        /\ t.ambiguities \cap {"unsupported_layout", "storage_health_unsafe",
                               "bitlocker_inaccessible", "bitlocker_status_unknown"} = {}
  BY DEF CompletenessFindings, On, Consistent
<1>3. Incomplete(t) => "boot_topology_incomplete" \in C
  BY DEF CompletenessFindings, On
<1>4. "windows_installation_missing" \in W <=> Of(t, "windows") = {}
  BY DEF WindowsFindings, On
<1>5. "storage_evidence_missing" \in S => "storage_health_unknown" \in t.blockers
  BY DEF SafetyFindings, On
<1>6. t.mode = "uefi" => "firmware_mode_unknown" \notin F /\ "firmware_mode_conflicting" \notin F
  BY DEF FirmwareFindings, On
<1> HIDE DEF F, W, E, B, S, C, D
<1>7. Consistent \notin F \cup W \cup E \cup B \cup S
  BY DraftsAre DEF F, W, E, B, S, Consistent
<1>8. "windows_installation_missing" \notin F \cup E \cup B \cup S \cup C
  BY DraftsAre DEF F, E, B, S, C
<1>9. "storage_evidence_missing" \notin F \cup W \cup E \cup B \cup C
  BY DraftsAre DEF F, W, E, B, C
<1>10. {"firmware_mode_unknown", "firmware_mode_conflicting"} \cap (W \cup E \cup B \cup S \cup C) = {}
  BY DraftsAre DEF W, E, B, S, C
<1>11. Consistent \in D <=> Consistent \in C
  BY <1>1, <1>7
<1>12. "windows_installation_missing" \in D <=> "windows_installation_missing" \in W
  BY <1>1, <1>8
<1>13. "storage_evidence_missing" \in D => "storage_evidence_missing" \in S
  BY <1>1, <1>9
<1>14. \A c \in {"firmware_mode_unknown", "firmware_mode_conflicting"} : c \in D => c \in F
  BY <1>1, <1>10
<1> QED
  BY <1>1, <1>2, <1>3, <1>4, <1>5, <1>6, <1>11, <1>12, <1>13, <1>14 DEF D

(* ... and the ones that say more than one chain, or an unsafe one.         *)
LEMMA UnsafeDrafts ==
  ASSUME NEW k, NEW t
  PROVE  LET D == CollectDrafts(k, t) IN
         /\ Cardinality(Of(t, "windows")) > 1 \/ Cardinality(Of(t, "esp")) > 1 \/ Cardinality(Of(t, "bcd")) > 1
              => "boot_topology_ambiguous" \in D
         /\ "storage_health_unsafe" \in t.blockers \/ CrossDiskESP(t) => Unrepairable \in D
<1>1. Cardinality(Of(t, "windows")) > 1 => "boot_topology_ambiguous" \in WindowsFindings(t)
  BY DEF WindowsFindings, On
<1>2. Cardinality(Of(t, "esp")) > 1 => "boot_topology_ambiguous" \in ESPFindings(t)
  BY DEF ESPFindings, On
<1>3. Cardinality(Of(t, "bcd")) > 1 => "boot_topology_ambiguous" \in BCDFindings(t)
  BY DEF BCDFindings, On
<1>4. "storage_health_unsafe" \in t.blockers => Unrepairable \in SafetyFindings(t)
  BY DEF SafetyFindings, On, Unrepairable
<1>5. CrossDiskESP(t) => Unrepairable \in ESPFindings(t)
  BY DEF ESPFindings, On, Unrepairable
<1> QED
  BY <1>1, <1>2, <1>3, <1>4, <1>5 DEF CollectDrafts

-----------------------------------------------------------------------------
(* The verdict.                                                             *)

(* The candidates of a case, role by role.                                  *)
LEMMA CandidatesAre ==
  ASSUME NEW k, NEW c
  PROVE  c \in Candidates(k) <=>
           \/ \E w \in k.win : c = Candidate("windows", w, w)
           \/ \E w \in k.win : Linked(k, w) /\ c = Candidate("windows_partition", PartitionOf(k, w), w)
           \/ \E w \in k.win : OnDisk(k, w) /\ c = Candidate("system_disk", DiskOf(k, w), w)
           \/ \E p \in ESPs(k) : c = Candidate("esp", p, p)
           \/ \E b \in k.store : c = Candidate("bcd", b, b)
BY DEF Candidates, WindowsCandidates, ESPCandidates, BCDCandidates

LEMMA CandidateFields ==
  ASSUME NEW k, NEW c \in Candidates(k)
  PROVE  /\ c.role \in {"windows", "windows_partition", "system_disk", "esp", "bcd"}
         /\ c.role = "windows" => c.target \in k.win /\ c.from = c.target
         /\ c.role = "windows_partition" =>
              c.from \in k.win /\ Linked(k, c.from) /\ c.target = PartitionOf(k, c.from)
         /\ c.role = "system_disk" =>
              c.from \in k.win /\ OnDisk(k, c.from) /\ c.target = DiskOf(k, c.from)
         /\ c.role = "esp" => c.target \in ESPs(k) /\ c.from = c.target
         /\ c.role = "bcd" => c.target \in k.store /\ c.from = c.target
<1>1. CASE \E w \in k.win : c = Candidate("windows", w, w)
  BY <1>1 DEF Candidate
<1>2. CASE \E w \in k.win : Linked(k, w) /\ c = Candidate("windows_partition", PartitionOf(k, w), w)
  BY <1>2 DEF Candidate
<1>3. CASE \E w \in k.win : OnDisk(k, w) /\ c = Candidate("system_disk", DiskOf(k, w), w)
  BY <1>3 DEF Candidate
<1>4. CASE \E p \in ESPs(k) : c = Candidate("esp", p, p)
  BY <1>4 DEF Candidate
<1>5. CASE \E b \in k.store : c = Candidate("bcd", b, b)
  BY <1>5 DEF Candidate
<1> QED
  BY <1>1, <1>2, <1>3, <1>4, <1>5, CandidatesAre

(* The candidates of a topology for the roles that are counted.             *)
LEMMA OfIs ==
  ASSUME NEW k, NEW t, t.candidates = Candidates(k)
  PROVE  Of(t, "windows") = k.win /\ Of(t, "esp") = ESPs(k) /\ Of(t, "bcd") = k.store
<1>1. \A w \in k.win : Candidate("windows", w, w) \in Candidates(k) /\ Candidate("windows", w, w).role = "windows"
                       /\ Candidate("windows", w, w).target = w
  BY CandidatesAre DEF Candidate
<1>2. \A p \in ESPs(k) : Candidate("esp", p, p) \in Candidates(k) /\ Candidate("esp", p, p).role = "esp"
                         /\ Candidate("esp", p, p).target = p
  BY CandidatesAre DEF Candidate
<1>3. \A b \in k.store : Candidate("bcd", b, b) \in Candidates(k) /\ Candidate("bcd", b, b).role = "bcd"
                         /\ Candidate("bcd", b, b).target = b
  BY CandidatesAre DEF Candidate
<1>4. \A role, x : x \in Of(t, role) <=> \E c \in Candidates(k) : c.role = role /\ x = c.target
  BY DEF Of
<1>5. /\ \A x : x \in Of(t, "windows") => x \in k.win
      /\ \A x : x \in Of(t, "esp") => x \in ESPs(k)
      /\ \A x : x \in Of(t, "bcd") => x \in k.store
  BY <1>4, CandidateFields
<1>6. /\ \A x \in k.win : x \in Of(t, "windows")
      /\ \A x \in ESPs(k) : x \in Of(t, "esp")
      /\ \A x \in k.store : x \in Of(t, "bcd")
  BY <1>1, <1>2, <1>3, <1>4
<1> QED
  BY <1>5, <1>6

(* One Windows on one disk, one EFI system partition on another.            *)
LEMMA CrossIs ==
  ASSUME report \in Reports, case = Imported(report), NEW t, t.relations = Relations(case),
         t.selection = NoSelection, NothingElse,
         NEW w \in DOMAIN report.win, NEW p \in DOMAIN report.part, NEW q \in DOMAIN report.part,
         NEW d, NEW e, d # e,
         AtLetter(report.win[w]) = {p}, WithNumber(report.part[p].number) = {d},
         report.part[q].kind # "data", WithNumber(report.part[q].number) = {e}
  PROVE  CrossDiskESP(t)
<1>1. case.win = DOMAIN report.win /\ case.part = report.part /\ IsFiniteSet(case.win)
  BY CaseIs, CaseFinite
<1>2. case.win = {w}
  BY <1>1, OneIsSingleton DEF NothingElse
<1>3. Linked(case, w) /\ PartitionOf(case, w) = p
  BY <1>1, LinkedIs
<1>4. OnDisk(case, w) /\ DiskOf(case, w) = d
  BY <1>1, <1>3, OnDiskIs
<1>5. q \in ESPs(case) /\ RelatedDisks(case, q) = {e}
  BY <1>1, ESPsAre, CaseIs
<1> DEFINE winParts == {r.a : r \in OfType(t, "hosts_windows")}
           winDisks == {r.a : r \in {s \in OfType(t, "contains") : winParts = {} \/ s.b \in winParts}}
<1>6. \A r \in Relations(case) : r.type = "hosts_windows" => r.a = p
  BY <1>2, <1>3, RelationFields
<1>7. \A r \in Relations(case) : r.type = "contains" => r.a = d /\ r.b = p
  BY <1>2, <1>3, <1>4, RelationFields
<1>8. \E r \in Relations(case) : r.type = "hosts_windows" /\ r.a = p
  <2> DEFINE r == Relation("hosts_windows", PartitionOf(case, w), w,
                           LinkConfidence(case, w, PartitionOf(case, w)), w)
  <2>1. r.type = "hosts_windows" /\ r.a = p
    BY <1>3 DEF Relation
  <2>2. r \in Relations(case)
    BY <1>2, <1>3, RelationsAre
  <2> QED
    BY <2>1, <2>2
<1>9. \E r \in Relations(case) : r.type = "contains" /\ r.a = d /\ r.b = p
  <2> DEFINE r == Relation("contains", DiskOf(case, w), PartitionOf(case, w), "strong_inference", w)
  <2>1. r.type = "contains" /\ r.a = d /\ r.b = p
    BY <1>3, <1>4 DEF Relation
  <2>2. r \in Relations(case)
    BY <1>2, <1>4, RelationsAre
  <2> QED
    BY <2>1, <2>2
<1>10. \E r \in Relations(case) : r.type = "hosts_esp" /\ r.a = e
  <2> DEFINE r == Relation("hosts_esp", e, q, ESPConfidence(case, q), q)
  <2>1. r.type = "hosts_esp" /\ r.a = e
    BY DEF Relation
  <2>2. r \in Relations(case)
    BY <1>5, RelationsAre
  <2> QED
    BY <2>1, <2>2
<1>11. winParts = {p}
  BY <1>6, <1>8 DEF OfType
<1> HIDE DEF winParts
<1>12. winDisks = {d}
  BY <1>7, <1>9, <1>11 DEF OfType
<1> HIDE DEF winDisks
<1>13. winDisks # {} /\ \E r \in OfType(t, "hosts_esp") : r.a \notin winDisks
  BY <1>10, <1>12 DEF OfType
<1>14. t.selection.esp = None
  BY DEF NoSelection
<1> QED
  BY <1>13, <1>14 DEF CrossDiskESP, winDisks, winParts

(* One installation and at most one boot store and EFI system partition.    *)
LEMMA NothingElseIs ==
  ASSUME report \in Reports, case = Imported(report), NEW t, t.candidates = Candidates(case),
         "boot_topology_ambiguous" \notin CollectDrafts(case, t), case.win # {}, ESPs(case) # {}
  PROVE  NothingElse
<1>1. /\ Of(t, "windows") = case.win /\ Of(t, "esp") = ESPs(case) /\ Of(t, "bcd") = case.store
      /\ ~(Cardinality(Of(t, "windows")) > 1) /\ ~(Cardinality(Of(t, "esp")) > 1)
      /\ ~(Cardinality(Of(t, "bcd")) > 1)
  BY OfIs, UnsafeDrafts
<1>2. IsFiniteSet(case.win) /\ IsFiniteSet(case.store) /\ IsFiniteSet(ESPs(case))
  BY CaseFinite
<1>3. /\ Cardinality(case.win) \in Nat /\ Cardinality(case.store) \in Nat /\ Cardinality(ESPs(case)) \in Nat
      /\ Cardinality(case.win) # 0 /\ Cardinality(ESPs(case)) # 0
  BY <1>2, OneIsSingleton
<1>4. Cardinality(case.win) = 1 /\ Cardinality(case.store) <= 1 /\ Cardinality(ESPs(case)) = 1
  BY <1>1, <1>3
<1>5. case.win = DOMAIN report.win /\ case.store = DOMAIN report.store
  BY CaseIs
<1> QED
  BY <1>4, <1>5, ESPsAre DEF NothingElse

(* The verdict on a topology.                                               *)
LEMMA VerdictIs ==
  ASSUME report \in Reports, case = Imported(report), NEW t, Resolved(case, t)
  PROVE  LET verdict == Analyze(case, t) IN
         /\ (Consistent \in verdict) # (verdict \cap Doubts # {})
         /\ Consistent \in verdict => SafeToJudge /\ OneChain(t.selection) /\ NothingElse
         /\ "unsafe" \in report.health => Unrepairable \in verdict
         /\ CrossDiskESP(t) => Unrepairable \in verdict
<1> DEFINE D == CollectDrafts(case, t)
           verdict == Analyze(case, t)
<1>1. /\ \A c \in Doubts \cup {Unrepairable} : c \in verdict <=> c \in D
      /\ Consistent \in verdict <=> Consistent \in D /\ D \cap Suppressors = {}
  BY KeptIs DEF Analyze
<1>2. /\ t.candidates = Candidates(case) /\ t.mode = FirmwareMode(case)
      /\ case.win = {} => "windows_missing" \in t.blockers
      /\ HealthBlockers(case) \subseteq t.blockers
      /\ t.ambiguities \cap {"unsupported_layout", "storage_health_unsafe", "bitlocker_inaccessible",
                             "bitlocker_status_unknown"} \subseteq t.blockers
  BY BlockersInclude
<1>3. /\ Consistent \in D => t.eligible /\ t.blockers = {} /\ t.mode = "uefi"
      /\ Incomplete(t) => "boot_topology_incomplete" \in D
      /\ "windows_installation_missing" \in D => Of(t, "windows") = {}
      /\ "storage_evidence_missing" \in D => t.blockers # {}
      /\ t.mode = "uefi" => "firmware_mode_unknown" \notin D /\ "firmware_mode_conflicting" \notin D
  BY VerdictDrafts
<1>4. ASSUME D \cap Doubts = {}
      PROVE  Consistent \in D /\ D \cap Suppressors = {}
  <2>1. ~Incomplete(t)
    BY <1>3, <1>4 DEF Doubts
  <2>2. t.eligible /\ t.selection.source # "none"
    BY <2>1 DEF Incomplete
  <2>3. t.blockers = {}
    BY <2>2, EligibleIs
  <2>4. t.mode = "uefi"
    BY <2>3, SafeIs
  <2>5. t.ambiguities \cap {"unsupported_layout", "storage_health_unsafe", "bitlocker_inaccessible",
                            "bitlocker_status_unknown"} = {}
    BY <1>2, <2>3
  <2>6. Consistent \in D
    BY <2>2, <2>3, <2>4, <2>5, VerdictDrafts
  <2>7. D \cap Suppressors = {}
    BY <1>3, <1>4, <2>3, <2>4 DEF Suppressors
  <2> QED
    BY <2>6, <2>7
<1>5. ASSUME Consistent \in D, D \cap Suppressors = {}
      PROVE  D \cap Doubts = {}
  <2>1. case.win # {}
    BY <1>2, <1>3, <1>5
  <2>2. "windows_installation_missing" \notin D
    BY <1>2, <1>3, <2>1, OfIs
  <2> QED
    BY <1>5, <2>2 DEF Suppressors
<1>6. verdict \cap Doubts = D \cap Doubts
  BY <1>1
<1>7. ASSUME Consistent \in verdict
      PROVE  SafeToJudge /\ OneChain(t.selection) /\ NothingElse
  <2>1. Consistent \in D /\ D \cap Suppressors = {}
    BY <1>1, <1>7
  <2>2. t.eligible
    BY <1>3, <2>1
  <2>3. SafeToJudge /\ OneChain(t.selection) /\ t.selection.esp \in ESPs(case) /\ t.selection.win \in case.win
    BY <2>2, ProvenIs
  <2>4. "boot_topology_ambiguous" \notin D
    BY <2>1 DEF Suppressors, Doubts
  <2> QED
    BY <1>2, <2>3, <2>4, NothingElseIs
<1>8. ASSUME "unsafe" \in report.health PROVE Unrepairable \in verdict
  <2>1. "storage_health_unsafe" \in HealthBlockers(case)
    BY <1>8, CaseIs DEF HealthBlockers, Unsafe
  <2> QED
    BY <1>1, <1>2, <2>1, UnsafeDrafts
<1>9. CrossDiskESP(t) => Unrepairable \in verdict
  BY <1>1, UnsafeDrafts
<1>10. Consistent \in verdict <=> ~(verdict \cap Doubts # {})
  BY <1>1, <1>4, <1>5, <1>6
<1> HIDE DEF verdict
<1>11. (Consistent \in verdict) # (verdict \cap Doubts # {})
  BY <1>10
<1> QED
  BY <1>7, <1>8, <1>9, <1>11 DEF verdict

-----------------------------------------------------------------------------
(* What makes two identities collide.                                       *)

(* Two installations for which the case names one partition, or one disk.   *)
Shared(k, v, w) ==
  /\ Linked(k, v) /\ Linked(k, w)
  /\ \/ PartitionOf(k, v) = PartitionOf(k, w)
     \/ OnDisk(k, v) /\ OnDisk(k, w) /\ DiskOf(k, v) = DiskOf(k, w)

(* Candidates and relations are told apart but for shared installations.    *)
LEMMA DuplicatesShare ==
  ASSUME NEW k, DuplicateIDs(k)
  PROVE  \E v, w \in k.win : v # w /\ Shared(k, v, w)
<1>0. \A w \in k.win : OnDisk(k, w) => Linked(k, w)
  BY DEF OnDisk
<1>1. ASSUME NEW c \in Candidates(k), NEW d \in Candidates(k), c.from # d.from, c.role = d.role,
             c.target = d.target
      PROVE  \E v, w \in k.win : v # w /\ Shared(k, v, w)
  <2>1. CASE c.role \in {"windows", "esp", "bcd"}
    <3>1. c.from = c.target /\ d.from = d.target
      BY <1>1, <2>1, CandidateFields
    <3> QED
      BY <1>1, <3>1
  <2>2. CASE c.role = "windows_partition"
    <3>1. /\ c.from \in k.win /\ Linked(k, c.from) /\ c.target = PartitionOf(k, c.from)
          /\ d.from \in k.win /\ Linked(k, d.from) /\ d.target = PartitionOf(k, d.from)
      BY <1>1, <2>2, CandidateFields
    <3> QED
      BY <1>1, <3>1 DEF Shared
  <2>3. CASE c.role = "system_disk"
    <3>1. /\ c.from \in k.win /\ OnDisk(k, c.from) /\ c.target = DiskOf(k, c.from)
          /\ d.from \in k.win /\ OnDisk(k, d.from) /\ d.target = DiskOf(k, d.from)
      BY <1>1, <2>3, CandidateFields
    <3> QED
      BY <1>0, <1>1, <3>1 DEF Shared
  <2>4. c.role \in {"windows", "esp", "bcd", "windows_partition", "system_disk"}
    BY CandidateFields
  <2> QED
    BY <2>1, <2>2, <2>3, <2>4
<1>2. ASSUME NEW r \in Relations(k), NEW q \in Relations(k), r.from # q.from, r.type = q.type,
             r.a = q.a, r.b = q.b
      PROVE  \E v, w \in k.win : v # w /\ Shared(k, v, w)
  <2>1. CASE r.type \in {"hosts_windows", "hosts_esp", "contains_bcd"}
    <3>1. r.from = r.b /\ q.from = q.b
      BY <1>2, <2>1, RelationFields
    <3> QED
      BY <1>2, <3>1
  <2>2. CASE r.type = "contains"
    <3>1. /\ r.from \in k.win /\ OnDisk(k, r.from) /\ r.b = PartitionOf(k, r.from)
          /\ q.from \in k.win /\ OnDisk(k, q.from) /\ q.b = PartitionOf(k, q.from)
      BY <1>2, <2>2, RelationFields
    <3> QED
      BY <1>0, <1>2, <3>1 DEF Shared
  <2>3. r.type \in {"hosts_windows", "hosts_esp", "contains_bcd", "contains"}
    BY RelationFields
  <2> QED
    BY <2>1, <2>2, <2>3
<1> QED
  BY <1>1, <1>2 DEF DuplicateIDs

LEMMA SharedDuplicates ==
  ASSUME NEW k, NEW v \in k.win, NEW w \in k.win, v # w, Shared(k, v, w)
  PROVE  DuplicateIDs(k)
<1>1. CASE PartitionOf(k, v) = PartitionOf(k, w)
  <2> DEFINE c(x) == Candidate("windows_partition", PartitionOf(k, x), x)
  <2>1. c(v) \in Candidates(k) /\ c(w) \in Candidates(k)
    BY CandidatesAre DEF Shared
  <2>2. c(v).from # c(w).from /\ c(v).role = c(w).role /\ c(v).target = c(w).target
    BY <1>1 DEF Candidate
  <2> HIDE DEF c
  <2> QED
    BY <2>1, <2>2 DEF DuplicateIDs
<1>2. CASE OnDisk(k, v) /\ OnDisk(k, w) /\ DiskOf(k, v) = DiskOf(k, w)
  <2> DEFINE c(x) == Candidate("system_disk", DiskOf(k, x), x)
  <2>1. c(v) \in Candidates(k) /\ c(w) \in Candidates(k)
    BY <1>2, CandidatesAre
  <2>2. c(v).from # c(w).from /\ c(v).role = c(w).role /\ c(v).target = c(w).target
    BY <1>2 DEF Candidate
  <2> HIDE DEF c
  <2> QED
    BY <2>1, <2>2 DEF DuplicateIDs
<1> QED
  BY <1>1, <1>2 DEF Shared

(* The report says which installations share.                               *)
LEMMA SharedIs ==
  ASSUME report \in Reports, case = Imported(report), NEW v \in case.win, NEW w \in case.win
  PROVE  Shared(case, v, w) <=> Share(v, w)
<1>1. ASSUME Shared(case, v, w) PROVE Share(v, w)
  <2> DEFINE p == PartitionOf(case, v)
             q == PartitionOf(case, w)
  <2>1. /\ AtLetter(report.win[v]) = {p} /\ AtLetter(report.win[w]) = {q}
        /\ p \in DOMAIN report.part /\ q \in DOMAIN report.part
    BY <1>1, LinkedIs, CaseIs DEF Shared
  <2>2. CASE p = q
    BY <2>1, <2>2 DEF Share
  <2>3. CASE OnDisk(case, v) /\ OnDisk(case, w) /\ DiskOf(case, v) = DiskOf(case, w)
    <3>1. /\ WithNumber(report.part[p].number) = {DiskOf(case, v)}
          /\ WithNumber(report.part[q].number) = {DiskOf(case, v)}
          /\ DiskOf(case, v) \in DOMAIN report.disk
      BY <2>3, OnDiskIs, CaseIs
    <3> QED
      BY <2>1, <3>1 DEF Share
  <2> QED
    BY <1>1, <2>2, <2>3 DEF Shared
<1>2. ASSUME Share(v, w) PROVE Shared(case, v, w)
  <2>1. PICK p, q \in DOMAIN report.part :
          /\ AtLetter(report.win[v]) = {p} /\ AtLetter(report.win[w]) = {q}
          /\ p = q \/ \E d \in DOMAIN report.disk :
                        WithNumber(report.part[p].number) = {d} /\ WithNumber(report.part[q].number) = {d}
    BY <1>2 DEF Share
  <2>2. /\ Linked(case, v) /\ PartitionOf(case, v) = p
        /\ Linked(case, w) /\ PartitionOf(case, w) = q
    BY <2>1, LinkedIs
  <2>3. CASE p = q
    BY <2>2, <2>3 DEF Shared
  <2>4. ASSUME NEW d \in DOMAIN report.disk,
               WithNumber(report.part[p].number) = {d}, WithNumber(report.part[q].number) = {d}
        PROVE  Shared(case, v, w)
    <3>1. OnDisk(case, v) /\ DiskOf(case, v) = d /\ OnDisk(case, w) /\ DiskOf(case, w) = d
      BY <2>2, <2>4, OnDiskIs
    <3> QED
      BY <2>2, <3>1 DEF Shared
  <2> QED
    BY <2>1, <2>3, <2>4
<1> QED
  BY <1>1, <1>2

-----------------------------------------------------------------------------
(* The theorems.                                                            *)

(* Whatever the report lists and whatever a technician pins, a topology     *)
(* that may be repaired is proven by the report.                            *)
THEOREM RepairIsProven == ASpec => []EligibleIsProven
<1>1. AInv => EligibleIsProven
  <2> SUFFICES ASSUME AInv, topology # NoTopology, topology.eligible
               PROVE  /\ SafeToJudge /\ OneChain(topology.selection)
                      /\ topology.selection.source = "automatic" => NothingElse
    BY DEF EligibleIsProven
  <2>1. report \in Reports /\ case = Imported(report) /\ Resolved(case, topology)
    BY DEF AInv
  <2> QED
    BY <2>1, ProvenIs
<1> QED
  BY <1>1, AlwaysComputed, PTL

(* Whatever the report lists, an analysis gives one verdict, calls only one *)
(* proven chain consistent, and calls a failing disk and an EFI system      *)
(* partition on another disk unsafe.                                        *)
THEOREM OneVerdict == ASpec => []VerdictGiven
<1>1. AInv => VerdictGiven
  <2> SUFFICES ASSUME AInv, findings # {} PROVE VerdictGiven
    BY DEF VerdictGiven
  <2>1. /\ report \in Reports /\ case = Imported(report) /\ Resolved(case, topology)
        /\ findings = Analyze(case, topology)
    BY DEF AInv
  <2>2. /\ (Consistent \in findings) # (findings \cap Doubts # {})
        /\ Consistent \in findings => SafeToJudge /\ OneChain(topology.selection) /\ NothingElse
        /\ "unsafe" \in report.health => Unrepairable \in findings
        /\ CrossDiskESP(topology) => Unrepairable \in findings
    BY <2>1, VerdictIs
  <2>3. ASSUME NEW w \in DOMAIN report.win, NEW d \in DOMAIN report.disk, NEW e \in DOMAIN report.disk,
               NEW p \in DOMAIN report.part, NEW q \in DOMAIN report.part,
               NothingElse, topology.selection = NoSelection,
               AtLetter(report.win[w]) = {p}, WithNumber(report.part[p].number) = {d},
               report.part[q].kind # "data", WithNumber(report.part[q].number) = {e}, d # e
        PROVE  Unrepairable \in findings
    <3>1. topology.relations = Relations(case)
      BY <2>1, BlockersInclude
    <3>2. CrossDiskESP(topology)
      BY <2>1, <2>3, <3>1, CrossIs
    <3> QED
      BY <2>2, <3>2
  <2> QED
    BY <2>2, <2>3 DEF VerdictGiven, Consistent, Unrepairable
<1> QED
  BY <1>1, AlwaysComputed, PTL

(* The resolver answers for every machine but one with two installations on *)
(* one partition or disk: nothing else the report lists makes it fail.      *)
THEOREM RefusesSharedOnly == ASpec => []RefusedOnlyShared
<1>1. ASSUME report \in Reports, case = Imported(report)
      PROVE  Refused(case, NoSelection) <=> \E v, w \in DOMAIN report.win : v # w /\ Share(v, w)
  <2>1. case.win = DOMAIN report.win
    BY <1>1, CaseIs
  <2>2. Refused(case, NoSelection) <=> DuplicateIDs(case)
    BY DEF Refused
  <2>3. ASSUME DuplicateIDs(case) PROVE \E v, w \in case.win : v # w /\ Shared(case, v, w)
    BY <2>3, DuplicatesShare
  <2>4. ASSUME NEW v \in case.win, NEW w \in case.win, v # w, Shared(case, v, w) PROVE DuplicateIDs(case)
    BY <2>4, SharedDuplicates
  <2>5. \A v, w \in case.win : Shared(case, v, w) <=> Share(v, w)
    BY <1>1, SharedIs
  <2> QED
    BY <2>1, <2>2, <2>3, <2>4, <2>5
<1>2. AInv => RefusedOnlyShared
  BY <1>1 DEF AInv, RefusedOnlyShared
<1> QED
  BY <1>2, AlwaysComputed, PTL

-----------------------------------------------------------------------------
(* What no analysis can say.                                                *)

NoMembership == {"bcd_store_missing", "bcd_windows_entry_missing"}

(* Both findings about the boot store outlive the suppression where there   *)
(* is one installation.                                                     *)
LEMMA MembershipStays ==
  ASSUME NEW codes, NEW c \in NoMembership \cap codes,
         codes \cap {"windows_installation_missing", "multiple_windows_installations",
                     "windows_installation_ambiguous"} = {}
  PROVE  c \in ApplySuppression(codes)
<1>1. ASSUME NEW d \in codes PROVE c \notin SuppressWhenPresent(d)
  <2>1. c \notin Layout /\ c # "boot_topology_consistent"
    BY DEF Layout, NoMembership
  <2> QED
    BY <1>1, <2>1 DEF SuppressWhenPresent
<1> QED
  BY <1>1 DEF ApplySuppression

(* No relation says which installation a boot store starts, so one of the   *)
(* two is always drafted.                                                   *)
LEMMA MembershipDrafted ==
  ASSUME NEW k, NEW t, t.candidates = Candidates(k), t.relations = Relations(k),
         t.selection.source # "none", "boot_topology_ambiguous" \notin CollectDrafts(k, t),
         Cardinality(k.win) = 1
  PROVE  NoMembership \cap CollectDrafts(k, t) # {}
<1>1. Of(t, "windows") = k.win
  BY OfIs
<1>2. Trusted(t, "boot_store_for_windows") = {}
  BY RelationFields DEF Trusted, OfType
<1>3. "boot_topology_ambiguous" \notin BCDFindings(t)
  BY DEF CollectDrafts
<1>4. CASE Of(t, "bcd") = {}
  BY <1>3, <1>4 DEF BCDFindings, On, CollectDrafts, NoMembership
<1>5. CASE Of(t, "bcd") # {}
  BY <1>1, <1>2, <1>5 DEF BCDFindings, On, CollectDrafts, NoMembership
<1> QED
  BY <1>4, <1>5

(* A topology called consistent is never free of doubt about its boot       *)
(* store: the resolver emits no relation "boot_store_for_windows", which    *)
(* BCDFindings looks for, from any report.                                  *)
THEOREM ConsistentIsDoubted ==
  ASpec => []("boot_topology_consistent" \in findings => NoMembership \cap findings # {})
<1>1. ASSUME AInv, "boot_topology_consistent" \in findings
      PROVE  NoMembership \cap findings # {}
  <2> DEFINE D == CollectDrafts(case, topology)
  <2>1. /\ report \in Reports /\ case = Imported(report) /\ Resolved(case, topology)
        /\ findings = ApplySuppression(D)
    BY <1>1 DEF AInv, Analyze
  <2>2. /\ topology.candidates = Candidates(case) /\ topology.relations = Relations(case)
    BY <2>1, BlockersInclude
  <2>3. NothingElse
    BY <1>1, <2>1, VerdictIs DEF Consistent, Analyze
  <2>4. Consistent \in D /\ D \cap Suppressors = {}
    BY <1>1, <2>1, KeptIs DEF Consistent
  <2>5. topology.selection.source # "none"
    BY <2>4, VerdictDrafts
  <2>6. D \cap {"boot_topology_ambiguous", "windows_installation_missing"} = {}
    BY <2>4, <1>1, <2>1, VerdictIs, KeptIs DEF Suppressors, Doubts, Consistent, Analyze
  <2>7. Cardinality(case.win) = 1
    BY <2>1, <2>3, CaseIs DEF NothingElse
  <2>8. D \cap {"multiple_windows_installations", "windows_installation_ambiguous"} = {}
    <3>1. Of(topology, "windows") = case.win
      BY <2>2, OfIs
    <3>2. WindowsFindings(topology) \cap
            {"multiple_windows_installations", "windows_installation_ambiguous"} = {}
      BY <2>7, <3>1 DEF WindowsFindings, On
    <3> QED
      BY <3>2, DraftsAre DEF CollectDrafts
  <2>9. PICK c \in NoMembership : c \in D
    BY <2>2, <2>5, <2>6, <2>7, MembershipDrafted
  <2> HIDE DEF D
  <2> QED
    BY <2>1, <2>6, <2>8, <2>9, MembershipStays
<1> QED
  BY <1>1, AlwaysComputed, PTL
=============================================================================
