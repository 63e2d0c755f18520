---------------------------- MODULE MCController ----------------------------
(***************************************************************************)
(* Small instances of the reconcile loop.  Two items, u and p: the         *)
(* SealedSecrets seal u, the Secrets that users write hold p.              *)
(***************************************************************************)
EXTENDS ControllerProperties

Strict == "strict"
MCScopes == {Strict, "cluster-wide"}
MCDataKeys == {"u", "p"}
MCValues == {"v1", "v2", "own"}
Missing == "absent"

Seals(v, annotations, immutable) ==
    [sealedFor |-> Strict, items |-> [u |-> v, p |-> Missing],
     annotations |-> annotations, immutable |-> immutable]

V1 == Seals("v1", {}, FALSE)
V2 == Seals("v2", {}, FALSE)
Independent == Seals("v1", {"skip-set-owner-references"}, FALSE)
Frozen == Seals("v2", {}, TRUE)
Adopting == Seals("v2", {"managed"}, FALSE)

UserHas(annotations) ==
    [items |-> [u |-> Missing, p |-> "own"], annotations |-> annotations,
     immutable |-> FALSE]

OneScope == {Strict}
PlainSpecs == {V1, V2}
FrozenSpecs == {V1, Frozen}
AdoptingSpecs == {V1, Adopting}
IndependentSpecs == {Independent}
OneSpec == {V1}
AnySecrets == {UserHas({}), UserHas({"managed"}), UserHas({"patch"}),
               UserHas({"patch", "managed"})}
PlainSecrets == {UserHas({})}
NoSecrets == {}

AllDeeds == Deeds
SealedSecretDeeds == {"create", "update spec", "delete"}
CreateOnly == {"create"}
CreateAndDelete == {"create", "delete"}
SpecDeeds == {"create", "update spec", "update scope"}

AllTroubles == TroubleKinds
NoTroubles == {}
GetFails == {"get"}
=============================================================================
