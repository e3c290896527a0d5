----------------------------- MODULE MCAnalysis -----------------------------
(* Two disks, three partitions, two installations, two boot stores.  Every  *)
(* layout of a base machine with one or two deviations is combined with the *)
(* plain surroundings, the base machine with all of them.                   *)
EXTENDS Analysis, TLC

CONSTANTS d1, d2, p1, p2, p3, w1, w2, b1, b2

Part(number, letter, kind) == [number |-> number, letter |-> letter, kind |-> kind]
Places == {Part(n, l, k) : n \in {0, 1}, l \in {None, "C", "D", "S"}, k \in {"efi", "data"}}
Windows == {<<>>, w1 :> "C", w1 :> "X", w1 :> "C" @@ w2 :> "C", w1 :> "C" @@ w2 :> "D"}
Stores == {<<>>, b1 :> "S", b1 :> "C", b1 :> "X", b1 :> "S" @@ b2 :> "C"}
Disks ==
  {d1 :> [number |-> 0, style |-> s] @@ d2 :> [number |-> n, style |-> "GPT"] : s \in {"GPT", "MBR"}, n \in {0, 1}}

Base ==
  [ modes |-> {"uefi"}, health |-> {"healthy"}, inventory |-> "ok", volumes |-> {"unlocked"},
    disk |-> d1 :> [number |-> 0, style |-> "GPT"] @@ d2 :> [number |-> 1, style |-> "GPT"],
    part |-> p1 :> Part(0, "S", "efi") @@ p2 :> Part(0, "C", "data"),
    win |-> w1 :> "C", store |-> b1 :> "S" ]

Layouts ==
  {[Base EXCEPT !.part = p1 :> x @@ p2 :> y, !.win = w, !.store = b] :
      x \in Places, y \in {q \in Places : q.kind = "data" \/ q.letter = "C"}, w \in Windows, b \in Stores}
  \cup {[Base EXCEPT !.part = @ @@ p3 :> x, !.win = w, !.store = b, !.disk = d] :
      x \in Places \cup {Part(0, None, "system")}, w \in Windows, b \in Stores, d \in Disks}
  \cup {[Base EXCEPT !.part = p1 :> Part(n, "S", "system") @@ p2 :> Part(0, "C", "data"), !.disk = d] :
      n \in {0, 1}, d \in Disks}

Surroundings ==
  {[Base EXCEPT !.modes = m, !.health = h, !.inventory = i, !.volumes = v, !.part[p1].number = n] :
      m \in SUBSET {"uefi", "bios", "unknown"}, h \in SUBSET {"healthy", "unknown", "unsafe"},
      i \in {"ok", "unavailable"}, v \in SUBSET {"unlocked", "locked", "unknown"}, n \in {0, 1}}

MCReports == Layouts \cup {r \in Surroundings : r.inventory = "unavailable" => r.volumes = {}}
=============================================================================
