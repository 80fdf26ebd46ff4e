----------------------- MODULE MCScheduledPublishing -----------------------
(* ScheduledPublishing on small sets.  One draft, so its rows and keys come *)
(* in the order they are minted; passes are interchangeable.                *)
EXTENDS ScheduledPublishing, TLC

PublishReasons == {"session_lost", "read_failed", "draft_gone", "unconfirmed",
                   "pds_unreachable", "threw", "refused"}

Symmetry == Permutations(RowId) \cup Permutations(Key) \cup Permutations(OwnKey)
              \cup Permutations(Tick)
=============================================================================
