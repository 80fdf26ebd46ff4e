--------------------------- MODULE MCSchedulePass ---------------------------
(* SchedulePass on small sets.  Rows, keys and passes are interchangeable. *)
EXTENDS SchedulePass, TLC

Symmetry == Permutations(Draft) \cup Permutations(RowId) \cup Permutations(Key)
              \cup Permutations(Tick)
=============================================================================
