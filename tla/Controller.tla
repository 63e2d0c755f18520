----------------------------- MODULE Controller -----------------------------
(***************************************************************************)
(* The reconcile loop of the sealed-secrets controller                     *)
(* (pkg/controller/controller.go): the informers and their handlers, the   *)
(* work queue, and the worker that unseals one SealedSecret at a time.     *)
(*                                                                         *)
(* The worker's calls to the API server are steps of their own, so that    *)
(* users, the garbage collector, the informers and crashes come between    *)
(* them.  A worker's step is named by pc:                                  *)
(*                                                                         *)
(*   idle -> fetch -> get -> create -> update -> status -> observe -> idle *)
(*                                                                         *)
(* with delete for the old garbage collection, and finish for a pass that  *)
(* ends without a look at the condition.                                   *)
(***************************************************************************)
EXTENDS WorkQueue, Cluster

CONSTANTS
    MaxRetries,       \* --max-unseal-retries
    OldGCBehavior,    \* --old-gc-behaviour
    UpdateStatusFlag, \* --update-status
    WatchSecrets,     \* ~ --skip-recreate: is there an informer of Secrets
    Troubles,         \* what may go wrong in a run
    MaxTroubles       \* how often, a bound for TLC

Calls == {"get", "create", "update", "delete", "status"}
TroubleKinds == Calls \cup {"lookup", "relist", "crash"}

ASSUME ControllerAssumption ==
    /\ MaxRetries \in Nat
    /\ OldGCBehavior \in BOOLEAN
    /\ UpdateStatusFlag \in BOOLEAN
    /\ WatchSecrets \in BOOLEAN
    /\ Troubles \subseteq TroubleKinds
    /\ MaxTroubles \in Nat

VARIABLES
    cache,     \* the informer's copy of each SealedSecret
    listing,   \* the names of the initial list that are yet to be delivered
    pc,        \* where the worker is
    key,       \* the key it works on
    obj,       \* the SealedSecret it works on: the cached object, not a copy
    read,      \* the Secret it read or created
    err,       \* the result of the pass: none, retry or immutable
    gauge,     \* the condition_info metric of each name
    troubles,  \* what went wrong so far
    tried,     \* history: the spec of the last pass, None if there was none
    excuse     \* history: why the Secret may be left behind, see Excuses

informerVars == <<cache, listing>>
workerVars == <<pc, key, obj, read, err>>
historyVars == <<tried, excuse>>
vars == <<clusterVars, queueVars, informerVars, workerVars, gauge, troubles,
          historyVars>>

Errors == {"none", "retry", "immutable"}
Steps == {"idle", "fetch", "delete", "get", "create", "update", "status",
          "observe", "finish"}

\* gaveUp: the pass failed and is not retried.  suppressed: an update of a
\* SealedSecret did not change its spec.  missed: the deletion of a Secret was
\* not followed.  edited: a user wrote the Secret, which nobody watches.
Excuses == {"gaveUp", "suppressed", "missed", "edited"}

TypeOK ==
    /\ ClusterTypeOK
    /\ WorkQueueTypeOK
    /\ cache \in [Names -> SealedSecret \cup {None}]
    /\ listing \subseteq Names
    /\ pc \in Steps
    /\ key \in Names \cup {None}
    /\ pc # "idle" => key \in Names
    /\ obj \in SealedSecret \cup {None}
    /\ pc \in {"get", "create", "update", "status", "observe"} => obj \in SealedSecret
    /\ read \in Secret \cup {None}
    /\ pc = "update" => read \in Secret
    /\ err \in Errors
    /\ gauge \in [Names -> ConditionStatus \cup {Unset}]
    /\ troubles \in Nat
    /\ tried \in [Names -> Specs \cup {None}]
    /\ excuse \in [Names -> SUBSET Excuses]

-----------------------------------------------------------------------------
(***************************************************************************)
(* What the worker computes.                                               *)
(***************************************************************************)
\* SealedSecret.Unseal succeeds for what was sealed for the scope that the
\* SealedSecret's own annotations ask for.
CanUnseal(o) == o.spec.sealedFor = o.scope

\* The Secret that SealedSecret.Unseal returns.
NewSecret(o) ==
    [rv |-> 0,
     controller |-> IF "skip-set-owner-references" \in o.spec.annotations
                    THEN 0 ELSE o.uid,
     items |-> o.spec.items,
     annotations |-> o.spec.annotations,
     immutable |-> o.spec.immutable]

IsControlledBy(s, o) == s.controller = o.uid
IsAnnotatedToBeManaged(s) == "managed" \in s.annotations
IsAnnotatedToBePatched(s) == "patch" \in s.annotations

\* May the pass for o write the existing Secret s?
MayWrite(s, o) ==
    IsControlledBy(s, o) \/ IsAnnotatedToBeManaged(s) \/ IsAnnotatedToBePatched(s)

\* Mutant: the items are replaced, not merged.
MergeReplaces(old, new) == new
Merge(old, new) == [k \in DataKeys |-> IF new[k] # Absent THEN new[k] ELSE old[k]]

\* The template's annotations are merged before the Secret is asked whether
\* it is managed.
Patched(s, new) ==
    LET merged == [s EXCEPT !.items = Merge(@, new.items),
                            !.annotations = @ \cup new.annotations]
    IN  IF IsAnnotatedToBeManaged(merged)
        THEN [merged EXCEPT !.controller = new.controller]
        ELSE merged

\* Mutant: the unsealed Secret is sent as it is, with no resourceVersion.
OverwrittenAfresh(s, new) == new
Overwritten(s, new) ==
    [s EXCEPT !.items = new.items, !.annotations = new.annotations,
              !.controller = new.controller]

\* What the pass for o makes of the existing Secret s.  Immutable is left as
\* it is.
Target(s, o) ==
    IF IsAnnotatedToBePatched(s) THEN Patched(s, NewSecret(o))
                                 ELSE Overwritten(s, NewSecret(o))

-----------------------------------------------------------------------------
(***************************************************************************)
(* Informers and handlers.                                                 *)
(***************************************************************************)
HasSynced == listing = {}

\* UpdateFunc enqueues the key only when the spec has changed.
\* Mutant: it compares the metadata instead.
MetadataChanged(old, new) == old.scope # new.scope
SealedSecretChanged(old, new) == old.spec # new.spec

\* What the informer's store holds next, and which handler it calls.
DeliverPut(n, new) ==
    /\ cache' = [cache EXCEPT ![n] = new]
    /\ UNCHANGED gauge
    /\ IF cache[n] # None /\ ~SealedSecretChanged(cache[n], new)
       THEN /\ excuse' = IF cache[n].uid = new.uid /\ cache[n].scope = new.scope
                         THEN excuse ELSE [excuse EXCEPT ![n] = @ \cup {"suppressed"}]
            /\ UNCHANGED queueVars
       ELSE /\ Add(n)
            /\ UNCHANGED excuse

\* UnregisterCondition drops the gauge of an object whose status is not nil;
\* DeleteFunc does not call it for a tombstone.
DeliverDelete(n, event) ==
    /\ cache' = [cache EXCEPT ![n] = None]
    /\ Add(n)
    /\ gauge' = IF event.type = "delete" /\ event.object.synced # Unset
                THEN [gauge EXCEPT ![n] = Unset] ELSE gauge
    /\ UNCHANGED excuse

DeliverSealedSecret(n) ==
    /\ ssWatch[n] # << >>
    /\ LET event == Head(ssWatch[n]) IN
         IF event.type = "put" THEN DeliverPut(n, event.object)
                               ELSE DeliverDelete(n, event)
    /\ ssWatch' = [ssWatch EXCEPT ![n] = Tail(@)]
    /\ listing' = listing \ {n}
    /\ UNCHANGED <<revision, ss, secret, secretWatch, ops, workerVars, troubles, tried>>

\* The process starts again with nothing in memory: the informer lists all
\* SealedSecrets, and the worker waits until it has seen them.
Restart ==
    /\ queue' = << >> /\ dirty' = {} /\ processing' = {} /\ delayed' = {}
    /\ requeues' = [n \in Names |-> 0]
    /\ cache' = [n \in Names |-> None]
    /\ listing' = {n \in Names : ss[n] # None}
    /\ ssWatch' = [n \in Names |-> IF ss[n] = None THEN << >>
                                   ELSE <<[type |-> "put", object |-> ss[n]]>>]
    /\ secretWatch' = [n \in Names |-> << >>]
    /\ pc' = "idle" /\ key' = None /\ obj' = None /\ read' = None /\ err' = "none"
    /\ gauge' = [n \in Names |-> Unset]
    /\ tried' = [n \in Names |-> None]
    /\ excuse' = [n \in Names |-> {}]
    /\ UNCHANGED <<revision, ss, secret, ops>>

Miss(n) ==
    /\ excuse' = IF ss[n] = None THEN excuse
                 ELSE [excuse EXCEPT ![n] = @ \cup {"missed"}]
    /\ UNCHANGED queueVars

\* The DeleteFunc of watchSecrets, once it has looked the SealedSecret up: a
\* Secret that was controlled by it, or managed, is to be recreated.
\* Mutant: it asks whether the Secret is controlled by a SealedSecret only when
\* it is managed.
FollowManagedDeletion(n, s) ==
    IF ss[n] # None /\ IsControlledBy(s, ss[n]) /\ IsAnnotatedToBeManaged(s)
    THEN Add(n) /\ UNCHANGED excuse
    ELSE UNCHANGED <<queueVars, excuse>>
FollowDeletion(n, s) ==
    IF ss[n] # None /\ (IsControlledBy(s, ss[n]) \/ IsAnnotatedToBeManaged(s))
    THEN Add(n) /\ UNCHANGED excuse
    ELSE Miss(n)

\* The handler asserts that what was deleted is a Secret.  A tombstone is not:
\* the process dies, unless there is no SealedSecret.
SecretDeleted(n) ==
    /\ secretWatch[n] # << >>
    /\ LET event == Head(secretWatch[n]) IN
       \/ /\ event.type = "delete" \/ ss[n] = None
          /\ FollowDeletion(n, event.object)
          /\ secretWatch' = [secretWatch EXCEPT ![n] = Tail(@)]
          /\ UNCHANGED <<revision, ss, secret, ssWatch, ops, informerVars,
                         workerVars, gauge, tried>>
       \/ /\ event.type = "tombstone" /\ ss[n] # None
          /\ Restart
    /\ WatchSecrets
    /\ UNCHANGED troubles

-----------------------------------------------------------------------------
(***************************************************************************)
(* The worker: processNextItem and unseal.                                 *)
(***************************************************************************)
\* A step of the worker that leaves the informers and their handlers alone.
WorkerStep(from) ==
    /\ pc = from
    /\ UNCHANGED <<secretWatch, listing, troubles>>

TakeKey ==
    /\ WorkerStep("idle")
    /\ HasSynced
    /\ Get
    /\ key' = Head(queue)
    /\ pc' = "fetch"
    /\ UNCHANGED <<clusterVars, cache, obj, read, err, gauge, historyVars>>

\* The pass looks the object up in the informer's store, and decrypts it.
Fetch ==
    /\ WorkerStep("fetch")
    /\ obj' = cache[key]
    /\ tried' = [tried EXCEPT ![key] = IF cache[key] = None THEN None ELSE cache[key].spec]
    /\ excuse' = [excuse EXCEPT ![key] = {}]
    /\ \/ /\ cache[key] = None
          /\ pc' = IF OldGCBehavior THEN "delete" ELSE "finish"
          /\ err' = "none"
       \/ /\ cache[key] # None /\ CanUnseal(cache[key])
          /\ pc' = "get"
          /\ err' = "none"
       \/ /\ cache[key] # None /\ ~CanUnseal(cache[key])
          /\ pc' = "status"
          /\ err' = "retry"
    /\ UNCHANGED <<clusterVars, queueVars, cache, key, read, gauge>>

\* The old garbage collection deletes the Secret, whoever owns it.
DeleteSecret ==
    /\ pc = "delete"
    /\ IF secret[key] = None THEN UNCHANGED clusterVars
                             ELSE RemoveSecret(key) /\ UNCHANGED ops
    /\ pc' = "finish"
    /\ UNCHANGED <<queueVars, informerVars, key, obj, read, err, gauge, troubles,
                   historyVars>>

\* The pass has the Secret s before it: it may not write it, need not, or will.
\* Mutant: the Secret is assigned to a variable that shadows the one used later.
JudgeShadowed(s) ==
    /\ err' = IF MayWrite(s, obj) THEN "none" ELSE "retry"
    /\ pc' = IF MayWrite(s, obj) /\ Target(s, obj) # s THEN "update" ELSE "status"
    /\ UNCHANGED read
Judge(s) ==
    /\ read' = s
    /\ err' = IF MayWrite(s, obj) THEN "none" ELSE "retry"
    /\ pc' = IF MayWrite(s, obj) /\ Target(s, obj) # s THEN "update" ELSE "status"

GetSecret ==
    /\ WorkerStep("get")
    /\ \/ /\ secret[key] = None
          /\ pc' = "create"
          /\ UNCHANGED <<read, err>>
       \/ /\ secret[key] # None
          /\ Judge(secret[key])
    /\ UNCHANGED <<clusterVars, queueVars, cache, key, obj, gauge, historyVars>>

CreateSecret ==
    /\ WorkerStep("create")
    /\ \/ /\ secret[key] = None
          /\ PutSecret(key, NewSecret(obj))
          /\ Judge(secret'[key])
       \/ /\ secret[key] # None                  \* already exists
          /\ pc' = "status" /\ err' = "retry"
          /\ UNCHANGED <<revision, ss, secret, ssWatch, read>>
    /\ UNCHANGED <<ops, queueVars, cache, key, obj, gauge, historyVars>>

Accepted(s) == IsCurrentSecret(key, s) /\ ~BreaksImmutability(key, s)

UpdateSecret ==
    /\ WorkerStep("update")
    /\ \/ /\ Accepted(Target(read, obj))
          /\ PutSecret(key, Target(read, obj))
          /\ err' = "none"
       \/ /\ ~Accepted(Target(read, obj))
          /\ err' = IF IsCurrentSecret(key, Target(read, obj)) THEN "immutable" ELSE "retry"
          /\ UNCHANGED <<revision, ss, secret, ssWatch>>
    /\ pc' = "status"
    /\ UNCHANGED <<ops, queueVars, cache, key, obj, read, gauge, historyVars>>

-----------------------------------------------------------------------------
\* updateSealedSecretsStatusConditions and updateSealedSecretStatus.

\* Mutant: an immutable Secret counts as updated, since it is not retried.
NewStatusOfForgotten == IF err \in {"none", "immutable"} THEN "True" ELSE "False"
NewStatus == IF err = "none" THEN "True" ELSE "False"
StatusRequired == obj.synced # NewStatus \/ obj.observed # obj.generation
WithStatus(o) == [o EXCEPT !.synced = NewStatus, !.observed = obj.generation]

\* The pass writes the status into the object that the informer's store holds,
\* for as long as the store holds it, and before it asks the API server.
SetStatus ==
    /\ obj' = WithStatus(obj)
    /\ cache' = IF cache[key] # None /\ cache[key].uid = obj.uid /\ cache[key].rv = obj.rv
                THEN [cache EXCEPT ![key] = WithStatus(@)] ELSE cache

\* UpdateStatus sends the whole object, with the resourceVersion that the pass
\* worked on.  Mutant: the status is sent without a resourceVersion.
StatusAcceptedAnyway == ss[key] # None /\ ss[key].uid = obj.uid
StatusAccepted == IsCurrent(key, obj)

UpdateStatus ==
    /\ WorkerStep("status")
    /\ \/ /\ ~UpdateStatusFlag \/ ~StatusRequired
          /\ pc' = "observe"
          /\ UNCHANGED <<revision, ss, secret, ssWatch, cache, obj>>
       \/ /\ UpdateStatusFlag /\ StatusRequired
          /\ StatusAccepted
          /\ PutSealedSecret(key, WithStatus(ss[key]))
          /\ SetStatus
          /\ pc' = "observe"
       \/ /\ UpdateStatusFlag /\ StatusRequired
          /\ ~StatusAccepted
          /\ SetStatus
          /\ pc' = "finish"
          /\ UNCHANGED <<revision, ss, secret, ssWatch>>
    /\ UNCHANGED <<ops, queueVars, key, read, err, gauge, historyVars>>

ObserveCondition ==
    gauge' = [gauge EXCEPT ![key] = IF obj.synced = Unset THEN @ ELSE obj.synced]

\* What processNextItem makes of the result of the pass.
\* Mutant: one retry too many.
GivesUpLate == err = "immutable" \/ (err = "retry" /\ requeues[key] > MaxRetries)
GivesUp == err = "immutable" \/ (err = "retry" /\ requeues[key] >= MaxRetries)

\* Mutant: the key is not marked as done.
ReturnKeyNotDone ==
    /\ IF err = "none" \/ GivesUp THEN Forget(key) ELSE AddRateLimited(key)
    /\ UNCHANGED <<queue, dirty, processing>>
\* Mutant: a failed key is not put back.
ReturnKeyForgets == Forget(key) /\ Done(key)
ReturnKey ==
    /\ IF err = "none" \/ GivesUp THEN Forget(key) ELSE AddRateLimited(key)
    /\ Done(key)

Finish ==
    /\ pc \in {"observe", "finish"}
    /\ IF pc = "observe" THEN ObserveCondition ELSE UNCHANGED gauge
    /\ ReturnKey
    /\ excuse' = IF GivesUp THEN [excuse EXCEPT ![key] = @ \cup {"gaveUp"}] ELSE excuse
    /\ pc' = "idle" /\ key' = None /\ obj' = None /\ read' = None /\ err' = "none"
    /\ UNCHANGED <<clusterVars, informerVars, troubles, tried>>

-----------------------------------------------------------------------------
(***************************************************************************)
(* Troubles: calls that fail before or after they took effect, watches     *)
(* that break, and crashes.                                                *)
(***************************************************************************)
Trouble(kind) ==
    /\ kind \in Troubles
    /\ troubles < MaxTroubles
    /\ troubles' = troubles + 1

NoEffect == UNCHANGED <<revision, ss, secret, ssWatch, secretWatch>>

CallFails ==
    /\ pc \in Calls /\ Trouble(pc)
    /\ \/ pc = "get" /\ NoEffect
       \/ pc = "create" /\ (NoEffect \/ (secret[key] = None /\ PutSecret(key, NewSecret(obj))))
       \/ pc = "update" /\ (NoEffect \/ (/\ Accepted(Target(read, obj))
                                         /\ PutSecret(key, Target(read, obj))))
       \/ pc = "delete" /\ (NoEffect \/ (secret[key] # None /\ RemoveSecret(key)))
    /\ err' = "retry"
    /\ pc' = IF pc = "delete" THEN "finish" ELSE "status"
    /\ UNCHANGED <<ops, queueVars, informerVars, key, obj, read, gauge, historyVars>>

\* A failure to write the status is logged; the pass has the result it had.
StatusFails ==
    /\ pc = "status" /\ Trouble("status")
    /\ UpdateStatusFlag /\ StatusRequired
    /\ \/ NoEffect
       \/ /\ StatusAccepted
          /\ PutSealedSecret(key, WithStatus(ss[key]))
    /\ SetStatus
    /\ pc' = "finish"
    /\ UNCHANGED <<ops, queueVars, listing, key, read, err, gauge, historyVars>>

\* The handler of a deletion cannot look the SealedSecret up, and logs that.
LookupFails(n) ==
    /\ WatchSecrets /\ Trouble("lookup")
    /\ secretWatch[n] # << >>
    /\ Miss(n)
    /\ secretWatch' = [secretWatch EXCEPT ![n] = Tail(@)]
    /\ UNCHANGED <<revision, ss, secret, ssWatch, ops, informerVars, workerVars,
                   gauge, tried>>

Relist(n) ==
    /\ Trouble("relist")
    /\ RelistSealedSecret(n, cache[n]) \/ RelistSecret(n)
    /\ listing' = IF ssWatch'[n] = << >> THEN listing \ {n} ELSE listing
    /\ UNCHANGED <<queueVars, cache, workerVars, gauge, historyVars>>

Crash == Trouble("crash") /\ Restart

-----------------------------------------------------------------------------
Users(n) ==
    /\ \/ /\ \/ UserCreatesSealedSecret(n) \/ UserUpdatesSpec(n) \/ UserUpdatesScope(n)
             \/ UserDeletesSealedSecret(n) \/ UserDeletesSecret(n)
          /\ UNCHANGED excuse
       \/ /\ UserWritesSecret(n)
          /\ excuse' = [excuse EXCEPT ![n] = @ \cup {"edited"}]
    /\ UNCHANGED <<queueVars, informerVars, workerVars, gauge, troubles, tried>>

\* Steps of the cluster and of the queue's timers.
GarbageCollected(n) ==
    /\ CollectGarbage(n)
    /\ UNCHANGED <<queueVars, informerVars, workerVars, gauge, troubles, historyVars>>

Backoff(n) ==
    /\ BackoffElapses(n)
    /\ UNCHANGED <<clusterVars, informerVars, workerVars, gauge, troubles, historyVars>>

Init ==
    /\ ClusterInit
    /\ WorkQueueInit
    /\ cache = [n \in Names |-> None]
    /\ listing = {}
    /\ pc = "idle" /\ key = None /\ obj = None /\ read = None /\ err = "none"
    /\ gauge = [n \in Names |-> Unset]
    /\ troubles = 0
    /\ tried = [n \in Names |-> None]
    /\ excuse = [n \in Names |-> {}]

Worker ==
    \/ TakeKey \/ Fetch \/ DeleteSecret \/ GetSecret \/ CreateSecret
    \/ UpdateSecret \/ UpdateStatus \/ Finish

Informers(n) == DeliverSealedSecret(n) \/ SecretDeleted(n)

Next ==
    \/ Worker
    \/ CallFails \/ StatusFails \/ Crash
    \/ \E n \in Names : \/ Informers(n) \/ Backoff(n) \/ GarbageCollected(n)
                        \/ Users(n) \/ LookupFails(n) \/ Relist(n)

\* The worker and the informers are goroutines that never rest, a backoff
\* elapses, and the garbage collector works; users and troubles may stop.
Fairness ==
    /\ WF_vars(Worker)
    /\ \A n \in Names : /\ WF_vars(DeliverSealedSecret(n))
                        /\ WF_vars(SecretDeleted(n))
                        /\ WF_vars(Backoff(n))
                        /\ WF_vars(GarbageCollected(n))

Spec == Init /\ [][Next]_vars
FairSpec == Spec /\ Fairness
=============================================================================
