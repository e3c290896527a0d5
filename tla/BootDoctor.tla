----------------------------- MODULE BootDoctor -----------------------------
(* The findings the Boot Doctor draws from a boot topology (bootdoctor).    *)
(* A finding is its code; the targets and evidence it cites are left out.   *)
EXTENDS TargetResolver

Of(t, role) == {c.target : c \in {d \in t.candidates : d.role = role}}
OfType(t, type) == {r \in t.relations : r.type = type}
Trusted(t, type) == {r \in OfType(t, type) : r.confidence \notin {"ambiguous", "unknown"}}

(* The disk whose layout counts, and the style its target's locators name.  *)
PreferredDisk(t) ==
  IF t.selection.disk # None THEN {t.selection.disk} ELSE Unique(Of(t, "system_disk"))
DiskStyle(k, D) == {k.style[d] : d \in D}

CrossDiskESP(t) ==
  LET s == t.selection
      own == {r \in OfType(t, "hosts_esp") : r.b = s.esp}
      winParts == {r.a : r \in OfType(t, "hosts_windows")}
      winDisks == {r.a : r \in {q \in OfType(t, "contains") : winParts = {} \/ q.b \in winParts}}
      elsewhere == winDisks # {} /\ \E r \in OfType(t, "hosts_esp") : r.a \notin winDisks
  IN IF s.esp # None /\ s.disk # None /\ own # {}
     THEN \A r \in own : r.a # s.disk
     ELSE elsewhere

BCDCrossDisk(t) ==
  LET s == t.selection IN
  s.esp # None /\ s.part # None /\ \E r \in OfType(t, "contains_bcd") : r.a \notin {s.esp, s.part}

-----------------------------------------------------------------------------
FirmwareFindings(k, t) ==
  LET style == DiskStyle(k, PreferredDisk(t)) IN
  CASE t.mode = "unknown" -> {"firmware_mode_unknown"}
    [] t.mode = "conflicting" -> {"firmware_mode_conflicting", "boot_topology_conflicting"}
    [] t.mode = "bios" -> {"unsupported_legacy_boot_topology"} \cup On("GPT" \in style, {"legacy_with_gpt_layout"})
    [] OTHER -> On("MBR" \in style \/ "disk_not_gpt" \in t.blockers, {"uefi_with_mbr_system_disk"})

WindowsFindings(t) ==
  LET windows == Of(t, "windows") IN
  On(windows = {}, {"windows_installation_missing"})
    \cup On(Cardinality(windows) > 1, {"multiple_windows_installations", "windows_installation_ambiguous",
                                        "boot_topology_ambiguous"})
    \cup On("windows_partition_unresolved" \in t.blockers
              \/ (Cardinality(windows) = 1 /\ Of(t, "windows_partition") = {}),
            {"windows_partition_relation_unknown", "windows_installation_incomplete"})
    \cup On("system_disk_unresolved" \in t.blockers \/ (Cardinality(windows) = 1 /\ Of(t, "system_disk") = {}),
            {"windows_system_disk_relation_unknown", "windows_installation_incomplete"})
    \cup On(windows # {} /\ Trusted(t, "hosts_windows") = {}, {"windows_partition_relation_unknown"})

ESPFindings(t) ==
  LET esps == Of(t, "esp") IN
  On(esps = {}, {"efi_system_partition_missing"})
    \cup On(Cardinality(esps) > 1, {"multiple_efi_system_partitions", "efi_system_partition_ambiguous",
                                     "boot_topology_ambiguous"})
    \cup On(CrossDiskESP(t), {"efi_system_partition_cross_disk", "unsafe_to_attempt_boot_repair"})
    \cup On(esps # {} /\ Trusted(t, "hosts_esp") = {}, {"efi_system_partition_relation_unknown"})

BCDFindings(t) ==
  LET bcds == Of(t, "bcd")
      windows == Of(t, "windows")
      ambiguous == Cardinality(bcds) > 1 \/ "bcd_ambiguous" \in t.blockers \cup t.ambiguities
  IN On(ambiguous, {"bcd_store_ambiguous", "boot_topology_ambiguous"})
       \cup On(~ambiguous /\ bcds = {} /\ t.selection.source # "none", {"bcd_store_missing"})
       \cup On(bcds # {} /\ Cardinality(windows) = 1
                 /\ {r \in Trusted(t, "boot_store_for_windows") : r.b \in windows} = {},
               {"bcd_membership_unknown", "bcd_windows_entry_missing"})
       \cup On({r \in OfType(t, "boot_store_for_windows") : r.b \notin windows} # {},
               {"bcd_points_to_unknown_installation"})
       \cup On(BCDCrossDisk(t), {"bcd_cross_disk_mismatch", "unsafe_to_attempt_boot_repair"})

SafetyFindings(t) ==
  LET said == t.blockers \cup t.ambiguities IN
  On("bitlocker_inaccessible" \in said,
     {"bitlocker_locked", "bitlocker_recovery_material_required", "bitlocker_blocks_boot_analysis"})
    \cup On("bitlocker_status_unknown" \in said, {"bitlocker_status_unknown", "bitlocker_blocks_boot_analysis"})
    \cup On("storage_health_unsafe" \in said, {"storage_health_critical", "unsafe_to_attempt_boot_repair"})
    \cup On("storage_health_unknown" \in t.blockers,
            {"storage_health_unknown"}
              \cup On("storage_health_unknown" \in t.limitations
                        /\ t.ambiguities \cap {"storage_health_unknown", "storage_health_unsafe"} = {},
                      {"storage_evidence_missing"}))

Incomplete(t) == ~t.eligible \/ t.selection.source = "none" \/ None \in {t.selection.win, t.selection.part,
                                                                        t.selection.disk, t.selection.esp}

CompletenessFindings(t) ==
  On(~t.eligible /\ ("technician_selection_required" \in t.blockers \/ t.selection.source = "none"),
     {"technician_selection_required"})
    \cup On(Incomplete(t) \/ t.blockers \cap {"evidence_incomplete", "relation_runtime_only"} # {},
            {"boot_topology_incomplete", "insufficient_evidence_for_repair_plan"})
    \cup On("unsupported_layout" \in t.blockers, {"boot_topology_conflicting"})
    \cup On(/\ t.eligible /\ t.selection.source # "none" /\ t.mode = "uefi" /\ t.blockers = {}
            /\ t.ambiguities \cap {"unsupported_layout", "storage_health_unsafe",
                                   "bitlocker_inaccessible", "bitlocker_status_unknown"} = {},
            {"boot_topology_consistent"})

CollectDrafts(k, t) ==
  FirmwareFindings(k, t) \cup WindowsFindings(t) \cup ESPFindings(t) \cup BCDFindings(t)
    \cup SafetyFindings(t) \cup CompletenessFindings(t)

-----------------------------------------------------------------------------
(* The findings a finding drops.                                            *)
Membership == {"bcd_membership_unknown", "bcd_windows_entry_missing", "bcd_points_to_unknown_installation"}
Layout == {"uefi_with_mbr_system_disk", "legacy_with_gpt_layout", "boot_topology_consistent"}

SuppressOnlyMissing(code) ==
  IF code = "boot_topology_incomplete" THEN {"boot_topology_consistent"} ELSE {}

SuppressWhenPresent(code) ==
  CASE code = "windows_installation_missing" ->
         Membership \cup {"windows_partition_relation_unknown", "windows_system_disk_relation_unknown",
                          "windows_installation_incomplete"}
    [] code \in {"multiple_windows_installations", "windows_installation_ambiguous"} -> Membership
    [] code \in {"firmware_mode_conflicting", "firmware_mode_unknown"} -> Layout
    [] code \in {"bitlocker_locked", "bitlocker_status_unknown", "storage_health_critical",
                 "storage_health_unknown", "storage_evidence_missing", "boot_topology_ambiguous",
                 "boot_topology_incomplete", "boot_topology_conflicting",
                 "efi_system_partition_cross_disk", "bcd_cross_disk_mismatch"} -> {"boot_topology_consistent"}
    [] OTHER -> {}

ApplySuppression(codes) == codes \ UNION {SuppressWhenPresent(c) : c \in codes}

Analyze(k, t) == ApplySuppression(CollectDrafts(k, t))
=============================================================================
