------------------------ MODULE ControllerProperties ------------------------
(***************************************************************************)
(* What the reconcile loop promises.                                       *)
(***************************************************************************)
EXTENDS Controller

\* Does the Secret s hold every item that the SealedSecret o seals?
Holds(s, o) ==
    \A k \in DataKeys : o.spec.items[k] # Absent => s.items[k] = o.spec.items[k]

-----------------------------------------------------------------------------
(***************************************************************************)
(* Nothing is lost between the informer and the worker: when the store     *)
(* holds another spec than the last pass saw (or none any more), the key   *)
(* is dirty, or the worker has just taken it and is about to look          *)
(* (watchSealedSecrets, processNextItem, and the look-up in unseal).       *)
(***************************************************************************)
CachedSpec(n) == IF cache[n] = None THEN None ELSE cache[n].spec

NoLostWork ==
    \A n \in Names :
        CachedSpec(n) # tried[n] => n \in dirty \/ (pc = "fetch" /\ key = n)

(***************************************************************************)
(* A dirty key is one the worker will get to: it is in the queue, once, or *)
(* held by the worker, who queues it again when done.  The worker holds    *)
(* exactly the key it works on.                                            *)
(***************************************************************************)
QueueSound ==
    /\ processing = IF pc = "idle" THEN {} ELSE {key}
    /\ \A n \in Names :
         LET places == {i \in DOMAIN queue : queue[i] = n}
         IN  IF n \in dirty \ processing THEN \E i \in DOMAIN queue : places = {i}
                                         ELSE places = {}

\* A key is requeued at most --max-unseal-retries times before it is forgotten
\* (processNextItem).
RetryBudget == \A n \in Names : requeues[n] <= MaxRetries

(***************************************************************************)
(* A pass overwrites or patches a Secret only while the Secret says that   *)
(* it may: at the very moment of the write it is controlled by the         *)
(* SealedSecret of the pass, or annotated as managed or to be patched,     *)
(* whatever users did since the pass read it (unseal).                     *)
(***************************************************************************)
ForeignSecretsUntouched ==
    [][\A n \in Names :
         pc = "update" /\ pc' = "status" /\ secret'[n] # secret[n]
            => n = key /\ secret[n] # None /\ MayWrite(secret[n], obj)]_vars

(***************************************************************************)
(* A pass never takes an item, or the ownership, from a Secret that is     *)
(* annotated to be patched: what the SealedSecret does not mention stays,  *)
(* and it becomes the owner only if the result is annotated as managed     *)
(* (unseal, README "Patching existing secrets").                           *)
(***************************************************************************)
PatchKeepsTheRest ==
    [][pc = "update" /\ pc' = "status" /\ secret' # secret
          /\ IsAnnotatedToBePatched(secret[key])
        => /\ \A k \in DataKeys :
                secret'[key].items[k] # secret[key].items[k]
                    => secret'[key].items[k] = obj.spec.items[k] /\ obj.spec.items[k] # Absent
           /\ secret'[key].controller # secret[key].controller
                => IsAnnotatedToBeManaged(secret'[key])]_vars

(***************************************************************************)
(* A status that is written fits the SealedSecret it is attached to, not   *)
(* an older one: the pass tried the spec that is stored, and the condition *)
(* is true only if what is stored can be unsealed in its present scope,    *)
(* which no generation tells (updateSealedSecretStatus, whose UpdateStatus *)
(* sends the resourceVersion that the pass worked on).                     *)
(***************************************************************************)
StatusFitsTheObject ==
    [][\A n \in Names :
         /\ ss[n] # None /\ ss'[n] # None /\ ss'[n].uid = ss[n].uid
         /\ <<ss'[n].synced, ss'[n].observed>> # <<ss[n].synced, ss[n].observed>>
         => /\ ss'[n].observed = ss'[n].generation
            /\ tried[n] = ss'[n].spec
            /\ ss'[n].synced = "True" => CanUnseal(ss'[n])]_vars

(***************************************************************************)
(* Synced at the current generation means that the Secret is there and     *)
(* holds what the SealedSecret seals, as long as users leave Secrets alone *)
(* and no template is annotated to be patched.  Whatever calls fail,       *)
(* however stale the informer's copy, and whenever the process crashes     *)
(* (unseal, updateSealedSecretStatus).                                     *)
(***************************************************************************)
SyncedIsHonest ==
    \A n \in Names :
        ss[n] # None /\ ss[n].synced = "True" /\ ss[n].observed = ss[n].generation
            => secret[n] # None /\ Holds(secret[n], ss[n])

-----------------------------------------------------------------------------
(***************************************************************************)
(* Liveness, under Fairness: in the end every SealedSecret that can be     *)
(* unsealed has its Secret, and no Secret survives the SealedSecret that   *)
(* controls it -- unless one of the Excuses applies, and those are the     *)
(* only ways in which the controller leaves a Secret behind.               *)
(***************************************************************************)
InStep(n) ==
    IF ss[n] = None THEN secret[n] = None \/ secret[n].controller = 0
    ELSE CanUnseal(ss[n]) => secret[n] # None /\ Holds(secret[n], ss[n])

Converges == <>[](\A n \in Names : InStep(n) \/ excuse[n] # {})

(***************************************************************************)
(* When nothing is left to do for a name -- no event that its informers    *)
(* have yet to report, no key in the queue, in a backoff or with the       *)
(* worker, no Secret for the garbage collector -- its Secret is in step,   *)
(* or one of the Excuses says why not.  So a controller that is stuck with *)
(* a Secret that is missing or old has always said so, by an error that it *)
(* gave up or by a deletion or an update that it did not follow.           *)
(***************************************************************************)
AtRest(n) ==
    /\ ssWatch[n] = << >> /\ secretWatch[n] = << >> /\ ~Orphaned(n)
    /\ n \notin dirty \cup delayed /\ key # n

NothingLeftBehind == \A n \in Names : AtRest(n) => InStep(n) \/ excuse[n] # {}

(***************************************************************************)
(* The queue, its timers and the worker together are a Worklist, of which  *)
(* a key is also while it waits for a backoff: none is dropped, worked on  *)
(* without having been asked for, or retried too often (processNextItem,   *)
(* and the handlers of watchSealedSecrets and watchSecrets).               *)
(***************************************************************************)
Work == INSTANCE Worklist WITH
    todo <- dirty \cup delayed,
    job <- IF pc = "idle" THEN None ELSE key,
    fails <- requeues

WorksThroughList == Work!Spec

-----------------------------------------------------------------------------
(***************************************************************************)
(* What the documentation says beyond that, and the code does not do.      *)
(***************************************************************************)
\* pkg/apis/sealedsecrets/v1alpha1/types.go:95, "SealedSecretSynced means the
\* SealedSecret has been decrypted and the Secret has been updated
\* successfully": in the end the condition is true of a SealedSecret whose
\* Secret is what it unseals to, at least when users do not write Secrets.
StatusSettles ==
    <>[](\A n \in Names :
           ss[n] # None /\ secret[n] # None /\ CanUnseal(ss[n])
              /\ [secret[n] EXCEPT !.rv = 0] = NewSecret(ss[n])
           => ss[n].synced = "True")

\* README.md:181-182, the Secret "is a dependent object of the SealedSecret and
\* as such it will be updated and deleted whenever the SealedSecret object gets
\* updated or deleted": in the end every Secret is in step, without excuses.
AlwaysInStep == <>[](\A n \in Names : InStep(n))

\* RELEASE-NOTES.md:730, "Unregister Prometheus Gauges associated to removed
\* SealedSecrets conditions": in the end a SealedSecret that is gone has no gauge
\* (UnregisterCondition in the informer's handler, ObserveCondition in the worker).
GaugesAreRemoved == <>[](\A n \in Names : ss[n] = None => gauge[n] = Unset)
=============================================================================
