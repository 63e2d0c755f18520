---------------------------- MODULE MCSealedFile ----------------------------
(***************************************************************************)
(* A small instance of the life of a file.                                 *)
(***************************************************************************)
EXTENDS SealedFile, TLC

CONSTANTS n1, n2, a1, a2, i1, i2, v1, v2

TheNotes == {SkipSetOwnerReferences}

Meta(ns, name, annotations) == [ns |-> ns, name |-> name, annotations |-> annotations]

Command(meta, data, scope, name, explicit, allowEmpty) ==
    [secret |-> [meta |-> meta, data |-> data],
     opts |-> [scope |-> scope, name |-> name, ns |-> None, context |-> n1,
               explicit |-> explicit, allowEmpty |-> allowEmpty]]

\* Strict, with the namespace and the name from the options; namespace-wide by
\* an annotation; cluster-wide by an option that overrules an annotation; and
\* two that fail: an empty Secret, and one of another namespace.
SomeCommands ==
    {Command(Meta(None, None, {}), i1 :> v1, "strict", a1, FALSE, FALSE),
     Command(Meta(n1, a1, {}), i2 :> v2, "strict", None, TRUE, FALSE),
     Command(Meta(n1, a1, {"namespace-wide", SkipSetOwnerReferences}), i2 :> v1,
             "strict", None, FALSE, FALSE),
     Command(Meta(None, a1, {"namespace-wide"}), i1 :> v2, "cluster-wide", None, FALSE, FALSE),
     Command(Meta(n1, a1, {}), <<>>, "strict", None, FALSE, FALSE),
     Command(Meta(n2, a1, {}), i1 :> v1, "strict", None, TRUE, FALSE)}

\* A Secret and an annotated one, both strict and of one name.
StrictCommands ==
    {Command(Meta(n1, a1, {}), i1 :> v1, "strict", None, FALSE, FALSE),
     Command(Meta(n1, a1, {SkipSetOwnerReferences}), i2 :> v1, "strict", None, FALSE, FALSE)}

\* A strict one, and a cluster-wide one without a namespace.
SomeOldSecrets ==
    {[meta |-> Meta(n1, a1, {}), data |-> i1 :> v1],
     [meta |-> Meta(None, a1, {"cluster-wide"}), data |-> i2 :> v2]}

SomeMetas ==
    {Meta(n1, a1, {}), Meta(n2, a1, {"namespace-wide"}), Meta(n1, a2, {"namespace-wide"}),
     Meta(n2, a2, {"cluster-wide", "namespace-wide"}), Meta(None, a1, {"namespace-wide"})}

KeySymmetry == Permutations(Keys)
=============================================================================
