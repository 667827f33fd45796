----------------------------- MODULE CommitPlan -----------------------------
(***************************************************************************)
(* scan_plan.rs: what one observation of an append-log leads to.  The      *)
(* index, the store, the cursor and the sync target are decided together,  *)
(* from what the scan saw (obs), why it ran (reasons) and whether the      *)
(* store already has a projection of the source (prior).                   *)
(***************************************************************************)
Change == {"appended", "rewritten"}
Quality == {"clean", "degraded", "poison", "stat_failed", "read_failed"}
Reason == {"initial", "force", "parser_stale", "attribution_stale", "sync_debt"}
Prior == {"present", "absent", "no_store"}

WantsReparse(reasons) == reasons \intersect {"parser_stale", "attribution_stale"} # {}
WantsFullRead(reasons) == reasons \intersect {"initial", "force", "sync_debt"} # {}

(* Nothing usable was read: every layer stays as it is, the cursor freezes. *)
Unusable(quality, events) ==
  \/ quality \in {"poison", "stat_failed", "read_failed"}
  \/ quality = "degraded" /\ events = {}

Held == [index |-> "preserve", store |-> "preserve", cursor |-> "freeze", sync |-> "hold"]

(* What was observed outranks why it was scanned; without a known prior    *)
(* projection no new generation is opened.                                 *)
Projection(change, reasons, prior) ==
  IF prior # "present" THEN "append"
  ELSE IF change = "rewritten" THEN "rollback"
  ELSE IF WantsReparse(reasons) THEN "reparse"
  ELSE "append"

ReplacesIndex(change, quality, reasons) ==
  \/ change = "rewritten"
  \/ WantsReparse(reasons)
  \/ WantsFullRead(reasons)
  \/ quality = "degraded"

Plan(obs, reasons, prior) ==
  IF Unusable(obs.quality, obs.events) THEN Held
  ELSE [index |-> IF ReplacesIndex(obs.change, obs.quality, reasons)
                    THEN "replace_file" ELSE "append_facts",
        store |-> Projection(obs.change, reasons, prior),
        cursor |-> "advance",
        sync |-> "advance"]
=============================================================================
