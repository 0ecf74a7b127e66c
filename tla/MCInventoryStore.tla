-------------------------- MODULE MCInventoryStore --------------------------
(***************************************************************************)
(* A small instance of InventoryStore: the reconcile worker and an HTTP    *)
(* handler share three records of two providers.  Both may do everything a *)
(* client can, so that the mutex is tested by two writers too, and they    *)
(* are symmetric.                                                          *)
(***************************************************************************)
EXTENDS Catalog, TLC

MCKeys == {<<1, 1>>, <<1, 2>>, <<2, 1>>}

\* The first and the last Upsert are for the same instance.
MCInstanceOf == <<1, 2, 1>>

Symmetry == Permutations(Clients)
=============================================================================
