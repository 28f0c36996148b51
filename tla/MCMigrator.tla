----------------------------- MODULE MCMigrator -----------------------------
(* Instances of Migrator for TLC: two services of one project root, and a     *)
(* second root that has the one's migrations, share a database; the first     *)
(* migration of the one service has the suffix of the first of the other.     *)
EXTENDS Migrator, TLC

CONSTANTS a, b, p, q, r, f, g

TwoProjects == {a, b}
ThreeProcs == {p, q, r}
ThreeNames == 1..3
Twins == {<<1, 2>>, <<2, 1>>}
Owns == a :> {1, 3} @@ b :> {2}
Runs == p :> a @@ q :> b @@ r :> a
RootLocks == p :> f @@ q :> f @@ r :> g
=============================================================================
