----------------------------- MODULE FixtureStore -----------------------------
(***************************************************************************)
(* What specsync promises of the fixtures it keeps: "The command verifies  *)
(* their pinned SHA-256 digests before replacing the local copies"         *)
(* (testdata/spec/NOTICE.md:13).  Each copy is replaced as a whole, by     *)
(* what is pinned for it, and in no other way.  A copy is the set of what  *)
(* its path shows: one content, or none while it is missing.               *)
(***************************************************************************)
CONSTANTS Fixtures, Pinned

VARIABLE copies

Replace(fixture) == copies' = [copies EXCEPT ![fixture] = {Pinned[fixture]}]

StoreNext == \E fixture \in Fixtures : Replace(fixture)

StoreInit == \A fixture \in Fixtures : \A c, d \in copies[fixture] : c = d
StoreSpec == StoreInit /\ [][StoreNext]_copies
=============================================================================
