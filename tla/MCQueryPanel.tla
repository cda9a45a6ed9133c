---------------------------- MODULE MCQueryPanel -----------------------------
(* QueryPanel for TLC, with two sessions a window may have stored: Q1 and a   *)
(* worksheet, each with a result and the worksheet's still spinning, in the   *)
(* order a reload leaves them; and a Q1 whose only result was cleaned up.     *)
EXTENDS QueryPanel

Restored(t, c, l) == [NoResult EXCEPT !.parent = t, !.copy = c, !.loading = l]

AtWork ==
  [tabAt    |-> [t \in Tab |-> IF t <= 2 THEN t - 1 ELSE Absent],
   tab      |-> [t \in Tab |-> IF t <= 2 THEN [NewTab(t) EXCEPT !.loading = t = 2] ELSE NoTab],
   selectedTabId |-> 2,
   resultAt |-> [r \in Result |-> IF r <= 2 THEN r - 1 ELSE Absent],
   result   |-> [r \in Result |-> IF r = 1 THEN Restored(1, "failed", "off")
                                ELSE IF r = 2 THEN Restored(2, "good", "idle") ELSE NoResult]]

Bare ==
  [tabAt    |-> [t \in Tab |-> IF t = 1 THEN 0 ELSE Absent],
   tab      |-> [t \in Tab |-> IF t = 1 THEN NewTab(1) ELSE NoTab],
   selectedTabId |-> stray,
   resultAt |-> [r \in Result |-> Absent],
   result   |-> [r \in Result |-> NoResult]]

Stored == {AtWork, Bare}

(* A pinned result, an idle spinner, a read of the cache: one at a time, and    *)
(* none beside a third worksheet.                                              *)
FewAtOnce ==
  Cardinality({r \in Results : result[r].pinned})
    + Cardinality({r \in Results : result[r].loading = "idle"}) + Cardinality(pulls)
      <= IF lastTab > 2 THEN 0 ELSE 1
==============================================================================
