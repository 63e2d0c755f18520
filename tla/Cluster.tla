------------------------------ MODULE Cluster ------------------------------
(***************************************************************************)
(* The Kubernetes API server as the controller meets it: the SealedSecret  *)
(* and the Secret of each name, the watch streams that report their        *)
(* changes, optimistic concurrency by resourceVersion, the users, and the  *)
(* garbage collector that deletes the dependents of objects that are gone. *)
(* None of it is code of this repository: it is what controller.go relies  *)
(* on through client-go.                                                   *)
(*                                                                         *)
(* A SealedSecret unseals to the Secret of its own namespace and name      *)
(* (SealedSecret.Unseal), so one name stands for both.                     *)
(***************************************************************************)
EXTENDS Objects, Naturals, Sequences

CONSTANTS
    Specs,        \* the specs that users give their SealedSecrets
    Scopes,       \* strict, namespace-wide, cluster-wide
    DataKeys,     \* the items of a Secret
    Values,       \* what the items hold; Absent: there is no such item
    Absent,
    UserSecrets,  \* the contents of the Secrets that users write themselves
    UserDeeds,    \* what the users do in a run, see Deeds
    MaxOps,       \* how often the users act
    MaxRevision   \* from here on the garbage collector rests: a controller that
                  \* works on a stale copy may recreate what it deletes for ever

Annotations == {"managed", "patch", "skip-set-owner-references"}

\* The items of a Secret, as a function that is total on DataKeys.
Items == [DataKeys -> Values \cup {Absent}]

\* The status of the condition Synced; Unset stands for a nil Status.
Unset == "Unset"
ConditionStatus == {"True", "False"}

\* A template with the items it carries and the scope it was sealed for.
SealedSpec == [sealedFor : Scopes, items : Items,
               annotations : SUBSET Annotations, immutable : BOOLEAN]

SealedSecret == [uid : Nat \ {0}, rv : Nat, generation : Nat, spec : Specs,
                 scope : Scopes, synced : ConditionStatus \cup {Unset},
                 observed : Nat]

\* controller = 0: no ownerReference says that something controls the Secret.
Secret == [rv : Nat, controller : Nat, items : Items,
           annotations : SUBSET Annotations, immutable : BOOLEAN]

SealedSecretEvent == [type : {"put", "delete", "tombstone"}, object : SealedSecret]
SecretEvent == [type : {"delete", "tombstone"}, object : Secret]

Deeds == {"create", "update spec", "update scope", "delete", "write secret",
          "delete secret"}

ASSUME ClusterAssumption ==
    /\ Specs \subseteq SealedSpec
    /\ UserSecrets \subseteq [items : Items, annotations : SUBSET Annotations,
                              immutable : BOOLEAN]
    /\ None \notin SealedSecret /\ None \notin Secret /\ None \notin Specs
    /\ UserDeeds \subseteq Deeds
    /\ Absent \notin Values
    /\ MaxOps \in Nat /\ MaxRevision \in Nat

VARIABLES
    revision,     \* the store's revision: source of uids and resourceVersions
    ss,           \* the SealedSecret of each name, or None
    secret,       \* the Secret of each name, or None
    ssWatch,      \* changes to SealedSecrets that the informer has yet to see
    secretWatch,  \* deletions of Secrets that the informer has yet to see
    ops           \* what the users did so far, a bound for TLC

clusterVars == <<revision, ss, secret, ssWatch, secretWatch, ops>>

ClusterTypeOK ==
    /\ revision \in Nat
    /\ ss \in [Names -> SealedSecret \cup {None}]
    /\ secret \in [Names -> Secret \cup {None}]
    /\ ssWatch \in [Names -> Seq(SealedSecretEvent)]
    /\ secretWatch \in [Names -> Seq(SecretEvent)]
    /\ ops \in Nat

ClusterInit ==
    /\ revision = 0
    /\ ss = [n \in Names |-> None]
    /\ secret = [n \in Names |-> None]
    /\ ssWatch = [n \in Names |-> << >>]
    /\ secretWatch = [n \in Names |-> << >>]
    /\ ops = 0

-----------------------------------------------------------------------------
(***************************************************************************)
(* Writes.  Each takes the next revision as the object's resourceVersion   *)
(* and tells the watchers.                                                 *)
(***************************************************************************)
PutSealedSecret(n, o) ==
    LET new == [o EXCEPT !.rv = revision + 1] IN
    /\ revision' = revision + 1
    /\ ss' = [ss EXCEPT ![n] = new]
    /\ ssWatch' = [ssWatch EXCEPT ![n] = Append(@, [type |-> "put", object |-> new])]
    /\ UNCHANGED <<secret, secretWatch>>

PutSecret(n, s) ==
    /\ revision' = revision + 1
    /\ secret' = [secret EXCEPT ![n] = [s EXCEPT !.rv = revision + 1]]
    /\ UNCHANGED <<ss, ssWatch, secretWatch>>

RemoveSecret(n) ==
    /\ secret' = [secret EXCEPT ![n] = None]
    /\ secretWatch' = [secretWatch EXCEPT
                         ![n] = Append(@, [type |-> "delete", object |-> secret[n]])]
    /\ UNCHANGED <<revision, ss, ssWatch>>

\* An update of a Secret is refused when it is of another version than the
\* stored one (0: of any version), and when it changes the items of an
\* immutable Secret.
IsCurrentSecret(n, s) == secret[n] # None /\ s.rv \in {0, secret[n].rv}
BreaksImmutability(n, s) == secret[n].immutable /\ secret[n].items # s.items

\* An update of a SealedSecret's status is refused in the same way.
IsCurrent(n, o) == ss[n] # None /\ ss[n].uid = o.uid /\ ss[n].rv = o.rv

-----------------------------------------------------------------------------
(***************************************************************************)
(* What users do to SealedSecrets and Secrets, through kubectl or GitOps.  *)
(***************************************************************************)
UserActs(deed) == deed \in UserDeeds /\ ops < MaxOps /\ ops' = ops + 1

UserCreatesSealedSecret(n) ==
    /\ UserActs("create")
    /\ ss[n] = None
    /\ \E spec \in Specs, scope \in Scopes :
         PutSealedSecret(n, [uid |-> revision + 1, rv |-> 0, generation |-> 1,
                             spec |-> spec, scope |-> scope,
                             synced |-> Unset, observed |-> 0])

UserUpdatesSpec(n) ==
    /\ UserActs("update spec")
    /\ ss[n] # None
    /\ \E spec \in Specs \ {ss[n].spec} :
         PutSealedSecret(n, [ss[n] EXCEPT !.spec = spec, !.generation = @ + 1])

\* The scope is an annotation of the SealedSecret: no new generation.
UserUpdatesScope(n) ==
    /\ UserActs("update scope")
    /\ ss[n] # None
    /\ \E scope \in Scopes \ {ss[n].scope} :
         PutSealedSecret(n, [ss[n] EXCEPT !.scope = scope])

UserDeletesSealedSecret(n) ==
    /\ UserActs("delete")
    /\ ss[n] # None
    /\ ss' = [ss EXCEPT ![n] = None]
    /\ ssWatch' = [ssWatch EXCEPT
                     ![n] = Append(@, [type |-> "delete", object |-> ss[n]])]
    /\ UNCHANGED <<revision, secret, secretWatch>>

\* Any Secret, whoever created it, may be overwritten by a user, who keeps or
\* drops the ownerReference.
UserWritesSecret(n) ==
    /\ UserActs("write secret")
    /\ \E u \in UserSecrets,
          c \in {0} \cup (IF secret[n] = None THEN {} ELSE {secret[n].controller}) :
         LET s == [rv |-> 0, controller |-> c, items |-> u.items,
                   annotations |-> u.annotations, immutable |-> u.immutable]
         IN  /\ secret[n] # None => ~secret[n].immutable
             /\ PutSecret(n, s)

UserDeletesSecret(n) ==
    /\ UserActs("delete secret")
    /\ secret[n] # None
    /\ RemoveSecret(n)

-----------------------------------------------------------------------------
\* The garbage collector deletes a Secret whose controller is gone.
Orphaned(n) ==
    /\ secret[n] # None
    /\ secret[n].controller # 0
    /\ ~(ss[n] # None /\ ss[n].uid = secret[n].controller)

CollectGarbage(n) ==
    /\ Orphaned(n) /\ revision < MaxRevision
    /\ RemoveSecret(n)
    /\ UNCHANGED ops

\* A watch breaks and the informer lists again: of what it has not seen yet it
\* learns the outcome only, and of an object that is gone a tombstone.
RelistSealedSecret(n, cached) ==
    /\ ssWatch[n] # << >>
    /\ ssWatch' = [ssWatch EXCEPT ![n] =
         IF ss[n] # None THEN <<[type |-> "put", object |-> ss[n]]>>
         ELSE IF cached # None THEN <<[type |-> "tombstone", object |-> cached]>>
         ELSE << >>]
    /\ UNCHANGED <<revision, ss, secret, secretWatch, ops>>

RelistSecret(n) ==
    /\ secretWatch[n] # << >>
    /\ secretWatch' = [secretWatch EXCEPT ![n] =
         IF secret[n] # None THEN << >>
         ELSE <<[Head(@) EXCEPT !.type = "tombstone"]>>]
    /\ UNCHANGED <<revision, ss, secret, ssWatch, ops>>
=============================================================================
