---------------------------- MODULE MCMigration ----------------------------
(* Stores of three eras, and what an interrupted rewrite leaves, for TLC.  *)
EXTENDS Migration

CONSTANTS f1, p1, p2

Row(off, seq, gen, aad, by, ms) ==
  LET r == [off |-> off, file |-> f1, seq |-> seq, srev |-> gen, prev |-> 0, aad |-> aad,
            env |-> None, ms |-> ms, event |-> <<"found", off>>]
  IN  [r EXCEPT !.env = [by |-> by, aad |-> IF by = "plain" THEN <<>> ELSE EventAad(r)]]

Seen == [observed |-> TRUE,
         rows |-> {[root |-> "r", by |-> "claude", first |-> 1, last |-> 2],
                   [root |-> "r", by |-> "codex", first |-> 2, last |-> 3]}]
Unseen == [observed |-> FALSE, rows |-> {}]

Store(r, l, i, t, h, m, k) ==
  [raw |-> r, left |-> l, identity |-> i, tables |-> t, head |-> [f \in File |-> h],
   ledger |-> IF h = None THEN {} ELSE {<<f, h[1], h[2]>> : f \in File}, marks |-> m, keys |-> k]

Fresh == Store(NoTable, NoTable, Unseen, {}, None, {}, {})

OldRows == {Row(1, 1, 0, 1, "plain", FALSE), Row(2, 2, 0, 1, "master", FALSE)}
Flat == Store([shape |-> "flat", rows |-> OldRows], NoTable, Seen, {}, None, {}, {})

Generations(by) == {Row(1, 1, 0, 1, by, FALSE), Row(2, 1, 1, 1, by, FALSE)}
OfGenerations(t, by, m, k) ==
  Store([shape |-> "generation", rows |-> Generations(by)], NoTable, Seen, t, None, m, k)
Generation == OfGenerations({}, "master", {}, {})
GenerationSealed == OfGenerations({"data_keys"}, "group", {"encryption_version"}, {f1})

Untimed == Store([shape |-> "revisions", rows |-> {Row(1, 1, 0, 2, "group", FALSE)}], NoTable,
                 Unseen, Others, <<0, 0>>, {"coords_backfilled", "encryption_version"}, {f1})

(* Cut short between RENAME and CREATE, and between CREATE and INSERT.     *)
Renamed == Store(NoTable, Generation.raw, Seen, {}, None, {}, {})
Emptied == Store(EmptyTable, Generation.raw, Seen, {}, None, {}, {})
EmptiedFlat == Store(EmptyTable, Flat.raw, Unseen, {}, None, {}, {})
EmptiedCurrent ==
  Store(EmptyTable, [shape |-> "current", rows |-> {Row(1, 1, 0, 2, "group", TRUE)}], Unseen,
        Others, <<0, 0>>, {"coords_backfilled", "encryption_version"}, {f1})

Found == {Fresh, Flat, Generation, GenerationSealed, Untimed, Renamed, Emptied, EmptiedFlat,
          EmptiedCurrent}
=============================================================================
