---------------------------- MODULE MCRealmStore ----------------------------
(* RealmStore with all seven types, two ids per type and at most MaxObjects *)
(* stored objects: enough for an object, its two targets and a bystander.   *)
EXTENDS RealmStore, FiniteSets, Naturals, TLC

CONSTANT MaxObjects

StoreBound == Cardinality(objects) <= MaxObjects

Symmetry == Permutations(Id)
=============================================================================
