------------------------------ MODULE StatusProofs ------------------------------
(***************************************************************************)
(* What the status of a SealedSecret says.  A pass works on a copy that    *)
(* may be old by the time it writes the status.  Versions says that a copy *)
(* with the stored object's resourceVersion is that object but for the     *)
(* status, so that a status that the API server accepts is about what is   *)
(* stored (StatusFits).  Fresh says that when a copy is that recent so is  *)
(* everything a later pass can meet; Settled, that a SealedSecret whose    *)
(* condition is true has its Secret and nothing on its way that could take *)
(* it away again (SyncedHonestly).                                         *)
(***************************************************************************)
EXTENDS ControllerProofs

USE DEF clusterVars, queueVars, informerVars, workerVars, historyVars

\* Two versions of an object that differ in the status at most.
SameVersion(o, s) ==
    /\ o.uid = s.uid /\ o.generation = s.generation
    /\ o.spec = s.spec /\ o.scope = s.scope

Known(o, n) ==
    o # None =>
        /\ o.uid <= revision /\ o.rv <= revision
        /\ ss[n] # None /\ o.rv = ss[n].rv => SameVersion(o, ss[n])

\* Copies of n: in the informer's store, with the worker, on their way.
Versions ==
    \A n \in Names :
        /\ ss[n] # None => ss[n].uid <= revision /\ ss[n].rv <= revision
        /\ Known(cache[n], n)
        /\ key = n => Known(obj, n)
        /\ \A i \in DOMAIN ssWatch[n] :
              ssWatch[n][i].type = "put" => Known(ssWatch[n][i].object, n)

Passing ==
    /\ pc \in {"idle", "fetch"} => obj = None
    /\ pc \in {"get", "create", "update", "status"} => tried[key] = obj.spec
    /\ pc \in {"get", "create", "update"} => CanUnseal(obj)
    /\ pc = "status" /\ err = "none" => CanUnseal(obj)

-----------------------------------------------------------------------------
(* What a step does to the SealedSecrets and to their copies.              *)

\* The pass writes the status into its copy.
Restated(p, o) ==
    \/ p = o
    \/ p \in SealedSecret /\ o \in SealedSecret /\ p.rv = o.rv /\ SameVersion(p, o)

CopiesStay ==
    /\ key' = key /\ Restated(obj', obj)
    /\ \A n \in Names : Restated(cache'[n], cache[n])

StoreStays == UNCHANGED <<ss, ssWatch>> /\ revision' \in Nat /\ revision' >= revision

UserPuts(n) ==
    /\ UserCreatesSealedSecret(n) \/ UserUpdatesSpec(n) \/ UserUpdatesScope(n)
    /\ CopiesStay /\ UNCHANGED <<pc, listing>>

StatusIsWritten ==
    /\ pc = "status" /\ pc' \in {"observe", "finish"}
    /\ key \in Names /\ obj \in SealedSecret
    /\ StatusAccepted /\ PutSealedSecret(key, WithStatus(ss[key]))
    /\ CopiesStay /\ UNCHANGED listing

\* The worker is between two passes, or about to begin one.
Between == UNCHANGED cache /\ StoreStays /\ obj' = None /\ pc' \in {"fetch", "idle"}

Elsewhere == CopiesStay /\ StoreStays /\ (pc' = "delete" => pc = "delete")

LEMMA WithStatusKeeps ==
  ASSUME NEW o \in SealedSecret, obj \in SealedSecret
  PROVE  /\ WithStatus(o) \in SealedSecret
         /\ WithStatus(o).rv = o.rv /\ SameVersion(WithStatus(o), o)
         /\ WithStatus(o).synced = NewStatus /\ WithStatus(o).observed = obj.generation
  BY WithStatusTyped DEF WithStatus, SealedSecret, SameVersion

LEMMA SetStatusRestates ==
  ASSUME TypeOK, key \in Names, obj \in SealedSecret, SetStatus, UNCHANGED key
  PROVE  CopiesStay
  <1>1. Restated(obj', obj)
    BY WithStatusKeeps DEF SetStatus, Restated
  <1>2. ASSUME NEW n \in Names PROVE Restated(cache'[n], cache[n])
    <2>1. cache \in [Names -> SealedSecret \cup {None}]
      BY DEF TypeOK
    <2>2. CASE cache'[n] = cache[n]
      BY <2>2 DEF Restated
    <2>3. CASE cache[n] # None /\ cache'[n] = WithStatus(cache[n])
      <3>1. cache[n] \in SealedSecret
        BY <2>1, <2>3
      <3> QED BY <2>3, <3>1, WithStatusKeeps DEF Restated
    <2> QED BY <2>1, <2>2, <2>3 DEF SetStatus
  <1> QED BY <1>1, <1>2 DEF CopiesStay

LEMMA UnchangedCopiesStay ==
  ASSUME UNCHANGED <<cache, key, obj>>
  PROVE  CopiesStay
  BY DEF CopiesStay, Restated

LEMMA UnchangedStoreStays ==
  ASSUME TypeOK, UNCHANGED <<ss, ssWatch, revision>>
  PROVE  StoreStays
  BY DEF StoreStays, TypeOK, ClusterTypeOK

LEMMA SecretStoreStays ==
  ASSUME TypeOK, NEW n, NEW s, PutSecret(n, s) \/ RemoveSecret(n)
  PROVE  StoreStays
  BY DEF StoreStays, PutSecret, RemoveSecret, TypeOK, ClusterTypeOK

LEMMA StatusKinds ==
  ASSUME TypeOK, UpdateStatus \/ StatusFails
  PROVE  StatusIsWritten \/ Elsewhere
  <1>1. /\ pc = "status" /\ pc' \in {"observe", "finish"} /\ key \in Names /\ obj \in SealedSecret
        /\ UNCHANGED <<key, listing>>
    BY DEF UpdateStatus, StatusFails, WorkerStep, TypeOK
  <1>2. CopiesStay
    <2>1. CASE SetStatus
      BY <1>1, <2>1, SetStatusRestates
    <2>2. CASE UNCHANGED <<cache, obj>>
      BY <1>1, <2>2, UnchangedCopiesStay
    <2> QED BY <2>1, <2>2 DEF UpdateStatus, StatusFails
  <1>3. CASE StatusAccepted /\ PutSealedSecret(key, WithStatus(ss[key]))
    BY <1>1, <1>2, <1>3 DEF StatusIsWritten
  <1>4. CASE UNCHANGED <<ss, ssWatch, revision>>
    BY <1>1, <1>2, <1>4, UnchangedStoreStays DEF Elsewhere
  <1> QED BY <1>3, <1>4 DEF UpdateStatus, StatusFails, NoEffect

LEMMA WorkerKinds ==
  ASSUME TypeOK, Passing, Worker \/ CallFails
  PROVE  Fetch \/ Between \/ StatusIsWritten \/ Elsewhere
  <1>1. CASE TakeKey
    <2>1. obj' = None /\ UNCHANGED <<cache, ss, ssWatch, revision>> /\ pc' = "fetch"
      BY <1>1 DEF TakeKey, WorkerStep, Passing
    <2> QED BY <2>1, UnchangedStoreStays DEF Between
  <1>2. CASE Finish
    <2>1. obj' = None /\ UNCHANGED <<cache, ss, ssWatch, revision>> /\ pc' = "idle"
      BY <1>2 DEF Finish
    <2> QED BY <2>1, UnchangedStoreStays DEF Between
  <1>3. CASE DeleteSecret
    <2>1. UNCHANGED <<cache, key, obj>> /\ pc' # "delete"
      BY <1>3 DEF DeleteSecret
    <2>2. StoreStays
      BY <1>3, SecretStoreStays, UnchangedStoreStays DEF DeleteSecret
    <2> QED BY <2>1, <2>2, UnchangedCopiesStay DEF Elsewhere
  <1>4. CASE GetSecret
    <2>1. UNCHANGED <<cache, key, obj, ss, ssWatch, revision>> /\ pc' # "delete"
      BY <1>4 DEF GetSecret, Judge
    <2> QED BY <2>1, UnchangedStoreStays, UnchangedCopiesStay DEF Elsewhere
  <1>5. CASE CreateSecret
    <2>1. UNCHANGED <<cache, key, obj>> /\ pc' # "delete"
      BY <1>5 DEF CreateSecret, Judge
    <2>2. StoreStays
      BY <1>5, SecretStoreStays, UnchangedStoreStays DEF CreateSecret
    <2> QED BY <2>1, <2>2, UnchangedCopiesStay DEF Elsewhere
  <1>6. CASE UpdateSecret
    <2>1. UNCHANGED <<cache, key, obj>> /\ pc' # "delete"
      BY <1>6 DEF UpdateSecret
    <2>2. StoreStays
      BY <1>6, SecretStoreStays, UnchangedStoreStays DEF UpdateSecret
    <2> QED BY <2>1, <2>2, UnchangedCopiesStay DEF Elsewhere
  <1>7. CASE CallFails
    <2>1. UNCHANGED <<cache, key, obj>> /\ pc' # "delete"
      BY <1>7 DEF CallFails
    <2>2. StoreStays
      BY <1>7, SecretStoreStays, UnchangedStoreStays DEF CallFails, NoEffect
    <2> QED BY <2>1, <2>2, UnchangedCopiesStay DEF Elsewhere
  <1> QED BY <1>1, <1>2, <1>3, <1>4, <1>5, <1>6, <1>7, StatusKinds DEF Worker

\* What others do to SealedSecrets.
OthersAct ==
    \E n \in Names :
        \/ UserPuts(n)
        \/ UserDeletesSealedSecret(n) /\ CopiesStay /\ UNCHANGED <<pc, listing>>
        \/ RelistSealedSecret(n, cache[n]) /\ CopiesStay /\ UNCHANGED pc
        \/ DeliverSealedSecret(n)

LEMMA OthersKinds ==
  ASSUME TypeOK, NEW n \in Names,
         \/ Informers(n) \/ Backoff(n) \/ GarbageCollected(n)
         \/ Users(n) \/ LookupFails(n) \/ Relist(n)
  PROVE  Restart \/ OthersAct \/ Elsewhere
  <1>1. CASE DeliverSealedSecret(n)
    BY <1>1 DEF OthersAct
  <1>2. CASE SecretDeleted(n) /\ ~Restart
    <2>1. UNCHANGED <<cache, key, obj, pc, ss, ssWatch, revision>>
      BY <1>2 DEF SecretDeleted
    <2> QED BY <2>1, UnchangedStoreStays, UnchangedCopiesStay DEF Elsewhere
  <1>3. CASE Backoff(n) \/ LookupFails(n)
    <2>1. UNCHANGED <<cache, key, obj, pc, ss, ssWatch, revision>>
      BY <1>3 DEF Backoff, LookupFails
    <2> QED BY <2>1, UnchangedStoreStays, UnchangedCopiesStay DEF Elsewhere
  <1>4. CASE GarbageCollected(n)
    <2>1. UNCHANGED <<cache, key, obj, pc>> /\ RemoveSecret(n)
      BY <1>4 DEF GarbageCollected, CollectGarbage
    <2> QED BY <2>1, SecretStoreStays, UnchangedCopiesStay DEF Elsewhere
  <1>5. CASE Users(n)
    <2>1. UNCHANGED <<cache, key, obj, pc, listing>>
      BY <1>5 DEF Users
    <2>2. CASE UserDeletesSecret(n) \/ UserWritesSecret(n)
      <3>1. \E s : PutSecret(n, s) \/ RemoveSecret(n)
        BY <2>2 DEF UserDeletesSecret, UserWritesSecret
      <3> QED BY <2>1, <3>1, SecretStoreStays, UnchangedCopiesStay DEF Elsewhere
    <2>3. CASE ~(UserDeletesSecret(n) \/ UserWritesSecret(n))
      BY <1>5, <2>1, <2>3, UnchangedCopiesStay DEF Users, UserPuts, OthersAct
    <2> QED BY <2>2, <2>3
  <1>6. CASE Relist(n)
    <2>1. UNCHANGED <<cache, key, obj, pc>>
      BY <1>6 DEF Relist
    <2>2. CASE RelistSealedSecret(n, cache[n])
      BY <2>1, <2>2, UnchangedCopiesStay DEF OthersAct
    <2>3. CASE RelistSecret(n)
      BY <2>1, <2>3, UnchangedStoreStays, UnchangedCopiesStay DEF RelistSecret, Elsewhere
    <2> QED BY <1>6, <2>2, <2>3 DEF Relist
  <1> QED BY <1>1, <1>2, <1>3, <1>4, <1>5, <1>6 DEF Informers

LEMMA CopyKinds ==
  ASSUME TypeOK, Passing, [Next]_vars
  PROVE  Restart \/ Fetch \/ Between \/ StatusIsWritten \/ OthersAct \/ Elsewhere
  <1>1. CASE UNCHANGED vars
    <2>1. UNCHANGED <<cache, key, obj, pc, ss, ssWatch, revision>>
      BY <1>1 DEF vars
    <2> QED BY <2>1, UnchangedStoreStays, UnchangedCopiesStay DEF Elsewhere
  <1>2. CASE StatusFails
    BY <1>2, StatusKinds
  <1>3. CASE Crash
    BY <1>3 DEF Crash
  <1> QED BY <1>1, <1>2, <1>3, WorkerKinds, OthersKinds DEF Next

-----------------------------------------------------------------------------
(* A copy of the stored version is the stored object, but for the status.  *)

LEMMA AppendEvent ==
  ASSUME NEW q \in Seq(SealedSecretEvent), NEW e, NEW i \in DOMAIN Append(q, e)
  PROVE  \/ i \in DOMAIN q /\ i # Len(q) + 1 /\ Append(q, e)[i] = q[i]
         \/ i = Len(q) + 1 /\ Append(q, e)[i] = e
  OBVIOUS

LEMMA TailEvent ==
  ASSUME NEW q \in Seq(SealedSecretEvent), q # << >>, NEW i \in DOMAIN Tail(q)
  PROVE  i \in Nat /\ i + 1 \in DOMAIN q /\ Tail(q)[i] = q[i + 1] /\ Head(q) = q[1] /\ 1 \in DOMAIN q
  OBVIOUS

LEMMA CopiesTyped ==
  ASSUME TypeOK
  PROVE  /\ revision \in Nat
         /\ ss \in [Names -> SealedSecret \cup {None}]
         /\ cache \in [Names -> SealedSecret \cup {None}]
         /\ obj \in SealedSecret \cup {None}
         /\ ssWatch \in [Names -> Seq(SealedSecretEvent)]
         /\ \A n \in Names : \A i \in DOMAIN ssWatch[n] :
               /\ ssWatch[n][i].object \in SealedSecret /\ ssWatch[n][i].object # None
               /\ ssWatch[n][i].type \in {"put", "delete", "tombstone"}
         /\ None \notin SealedSecret
  <1>1. ssWatch \in [Names -> Seq(SealedSecretEvent)]
    BY DEF TypeOK, ClusterTypeOK
  <1>2. ASSUME NEW n \in Names, NEW i \in DOMAIN ssWatch[n]
        PROVE  /\ ssWatch[n][i].object \in SealedSecret
               /\ ssWatch[n][i].type \in {"put", "delete", "tombstone"}
    <2>1. ssWatch[n][i] \in SealedSecretEvent
      BY <1>1, <1>2
    <2> QED BY <2>1 DEF SealedSecretEvent
  <1>3. None \notin SealedSecret
    BY ClusterAssumption
  <1>4. \A n \in Names : \A i \in DOMAIN ssWatch[n] :
               /\ ssWatch[n][i].object \in SealedSecret /\ ssWatch[n][i].object # None
               /\ ssWatch[n][i].type \in {"put", "delete", "tombstone"}
    BY <1>2, <1>3, Zenon
  <1> QED BY <1>1, <1>3, <1>4 DEF TypeOK, ClusterTypeOK

LEMMA SealedSecretTyped ==
  ASSUME NEW o \in SealedSecret
  PROVE  o.uid \in Nat \ {0} /\ o.rv \in Nat /\ o.generation \in Nat /\ o.observed \in Nat
         /\ o.spec \in Specs
  BY DEF SealedSecret

\* What a write to the SealedSecret m leaves behind.
LEMMA PutMoves ==
  ASSUME TypeOK, NEW m \in Names, NEW o \in SealedSecret, PutSealedSecret(m, o)
  PROVE  /\ revision' = revision + 1 /\ secret' = secret /\ secretWatch' = secretWatch
         /\ \A n \in Names \ {m} : ss'[n] = ss[n] /\ ssWatch'[n] = ssWatch[n]
         /\ \E new \in SealedSecret :
               /\ new # None /\ new.rv = revision + 1
               /\ SameVersion(new, o) /\ new.synced = o.synced /\ new.observed = o.observed
               /\ ss'[m] = new
               /\ ssWatch'[m] = Append(ssWatch[m], [type |-> "put", object |-> new])
  <1> DEFINE new == [o EXCEPT !.rv = revision + 1]
  <1>1. /\ revision' = revision + 1 /\ secret' = secret /\ secretWatch' = secretWatch
        /\ ss' = [ss EXCEPT ![m] = new]
        /\ ssWatch' = [ssWatch EXCEPT ![m] = Append(ssWatch[m], [type |-> "put", object |-> new])]
    BY DEF PutSealedSecret
  <1>2. /\ new \in SealedSecret /\ new.rv = revision + 1
        /\ SameVersion(new, o) /\ new.synced = o.synced /\ new.observed = o.observed
    <2>1. revision + 1 \in Nat
      BY DEF TypeOK, ClusterTypeOK
    <2> QED BY <2>1 DEF SealedSecret, SameVersion
  <1> HIDE DEF new
  <1>3. new # None
    BY <1>2, ClusterAssumption
  <1>4. /\ ss'[m] = new
        /\ ssWatch'[m] = Append(ssWatch[m], [type |-> "put", object |-> new])
        /\ \A n \in Names \ {m} : ss'[n] = ss[n] /\ ssWatch'[n] = ssWatch[n]
    BY <1>1, CopiesTyped
  <1> QED BY <1>1, <1>2, <1>3, <1>4

\* The objects that users put.
LEMMA UserPutsObject ==
  ASSUME TypeOK, NEW n \in Names, UserPuts(n)
  PROVE  \E o \in SealedSecret :
           /\ PutSealedSecret(n, o)
           /\ \/ /\ ss[n] = None /\ o.uid = revision + 1 /\ o.synced = Unset
                 /\ o.observed = 0
              \/ /\ ss[n] # None /\ o.uid = ss[n].uid /\ o.synced = ss[n].synced
                 /\ o.observed = ss[n].observed
                 /\ \/ o.generation = ss[n].generation + 1
                    \/ o.generation = ss[n].generation /\ o.spec = ss[n].spec
  <1>1. CASE UserCreatesSealedSecret(n)
    <2>1. PICK spec \in Specs, scope \in Scopes :
            PutSealedSecret(n, [uid |-> revision + 1, rv |-> 0, generation |-> 1, spec |-> spec,
                                scope |-> scope, synced |-> Unset, observed |-> 0])
      BY <1>1 DEF UserCreatesSealedSecret
    <2>2. [uid |-> revision + 1, rv |-> 0, generation |-> 1, spec |-> spec,
           scope |-> scope, synced |-> Unset, observed |-> 0] \in SealedSecret
      BY DEF TypeOK, ClusterTypeOK, SealedSecret
    <2> QED BY <1>1, <2>1, <2>2 DEF UserCreatesSealedSecret
  <1>2. CASE UserUpdatesSpec(n)
    <2>1. PICK spec \in Specs :
            PutSealedSecret(n, [ss[n] EXCEPT !.spec = spec, !.generation = @ + 1])
      BY <1>2 DEF UserUpdatesSpec
    <2> DEFINE o == ss[n]
               generation == o.generation + 1
               new == [o EXCEPT !.spec = spec, !.generation = generation]
    <2>2. o \in SealedSecret /\ o # None
      BY <1>2, CopiesTyped DEF UserUpdatesSpec
    <2>3. generation \in Nat
      BY <2>2, SealedSecretTyped
    <2>4. PutSealedSecret(n, new)
      BY <2>1
    <2> HIDE DEF generation, o
    <2>5. /\ new \in SealedSecret /\ new.uid = o.uid /\ new.synced = o.synced
          /\ new.observed = o.observed /\ new.generation = generation
      BY <2>2, <2>3 DEF SealedSecret
    <2> HIDE DEF new
    <2> QED BY <2>2, <2>4, <2>5 DEF o, generation
  <1>3. CASE UserUpdatesScope(n)
    <2>1. PICK scope \in Scopes : PutSealedSecret(n, [ss[n] EXCEPT !.scope = scope])
      BY <1>3 DEF UserUpdatesScope
    <2> DEFINE o == ss[n]
               new == [o EXCEPT !.scope = scope]
    <2>2. o \in SealedSecret /\ o # None
      BY <1>3, CopiesTyped DEF UserUpdatesScope
    <2>3. PutSealedSecret(n, new)
      BY <2>1
    <2> HIDE DEF o
    <2>4. /\ new \in SealedSecret /\ new.uid = o.uid /\ new.synced = o.synced
          /\ new.observed = o.observed /\ new.generation = o.generation /\ new.spec = o.spec
      BY <2>2 DEF SealedSecret
    <2> HIDE DEF new
    <2> QED BY <2>2, <2>3, <2>4 DEF o
  <1> QED BY <1>1, <1>2, <1>3 DEF UserPuts

LEMMA StatusPutsObject ==
  ASSUME TypeOK, StatusIsWritten
  PROVE  LET o == WithStatus(ss[key]) IN
         /\ ss[key] \in SealedSecret /\ ss[key] # None
         /\ o \in SealedSecret /\ PutSealedSecret(key, o)
         /\ SameVersion(o, ss[key]) /\ o.synced = NewStatus /\ o.observed = obj.generation
         /\ ss[key].uid = obj.uid /\ ss[key].rv = obj.rv
  <1>1. /\ key \in Names /\ obj \in SealedSecret /\ PutSealedSecret(key, WithStatus(ss[key]))
        /\ ss[key] # None /\ ss[key].uid = obj.uid /\ ss[key].rv = obj.rv
    BY DEF StatusIsWritten, StatusAccepted, IsCurrent
  <1>2. ss[key] \in SealedSecret
    BY <1>1, CopiesTyped
  <1> QED BY <1>1, <1>2, WithStatusKeeps

\* A copy is known for as long as nothing but the store's object moves on.
LEMMA KnownStays ==
  ASSUME TypeOK, TypeOK', NEW n \in Names, NEW o \in SealedSecret \cup {None}, NEW p,
         Known(o, n), Restated(p, o), revision' >= revision,
         \/ ss'[n] \in {ss[n], None}
         \/ ss'[n] # None /\ ss'[n].rv = revision + 1
  PROVE  (p # None =>
            /\ p.uid <= revision' /\ p.rv <= revision'
            /\ ss'[n] # None /\ p.rv = ss'[n].rv => SameVersion(p, ss'[n]))
  <1> SUFFICES ASSUME p # None
               PROVE  /\ p.uid <= revision' /\ p.rv <= revision'
                      /\ ss'[n] # None /\ p.rv = ss'[n].rv => SameVersion(p, ss'[n])
    OBVIOUS
  <1>1. /\ o # None /\ o \in SealedSecret /\ p.uid = o.uid /\ p.rv = o.rv /\ SameVersion(p, o)
    BY CopiesTyped DEF Restated, SameVersion
  <1>2. /\ o.uid <= revision /\ o.rv <= revision
        /\ ss[n] # None /\ o.rv = ss[n].rv => SameVersion(o, ss[n])
    BY <1>1 DEF Known
  <1>3. o.uid \in Nat /\ o.rv \in Nat /\ revision \in Nat /\ revision' \in Nat
    BY <1>1, SealedSecretTyped, CopiesTyped DEF TypeOK, ClusterTypeOK
  <1>4. p.uid <= revision' /\ p.rv <= revision'
    BY <1>1, <1>2, <1>3
  <1>5. ASSUME ss'[n] # None, p.rv = ss'[n].rv PROVE SameVersion(p, ss'[n])
    <2>1. ss'[n] = ss[n]
      BY <1>1, <1>2, <1>3, <1>5
    <2> QED BY <1>1, <1>2, <1>5, <2>1 DEF SameVersion
  <1> QED BY <1>4, <1>5

EventsKnown(n) ==
    \A i \in DOMAIN ssWatch[n] :
        ssWatch[n][i].type = "put" => Known(ssWatch[n][i].object, n)

StoredKnown(n) == ss[n] # None => ss[n].uid <= revision /\ ss[n].rv <= revision

LEMMA VersionsParts ==
  /\ Versions <=> \A n \in Names : /\ StoredKnown(n) /\ Known(cache[n], n)
                                   /\ key = n => Known(obj, n)
                                   /\ EventsKnown(n)
  /\ Versions' <=> \A n \in Names : /\ StoredKnown(n)' /\ Known(cache[n], n)'
                                    /\ key' = n => Known(obj, n)'
                                    /\ EventsKnown(n)'
  BY DEF Versions, StoredKnown, EventsKnown

\* The store's object of n is another only with the next revision.
StoredMoves(n) ==
    /\ revision' >= revision
    /\ \/ ss'[n] \in {ss[n], None}
       \/ ss'[n] # None /\ ss'[n].rv = revision + 1

LEMMA CopiesStayKnown ==
  ASSUME TypeOK, TypeOK', Versions, CopiesStay, NEW n \in Names, StoredMoves(n)
  PROVE  Known(cache[n], n)' /\ (key' = n => Known(obj, n)')
  <1>1. Known(cache[n], n)'
    <2>1. Known(cache[n], n) /\ Restated(cache'[n], cache[n]) /\ cache[n] \in SealedSecret \cup {None}
      BY CopiesTyped DEF Versions, CopiesStay
    <2> QED BY <2>1, KnownStays DEF StoredMoves, Known
  <1>2. ASSUME key' = n PROVE Known(obj, n)'
    <2>1. Known(obj, n) /\ Restated(obj', obj) /\ obj \in SealedSecret \cup {None}
      BY <1>2, CopiesTyped DEF Versions, CopiesStay
    <2> QED BY <2>1, KnownStays DEF StoredMoves, Known
  <1> QED BY <1>1, <1>2

\* What was known of an object that does not change.
LEMMA ObjectStaysKnown ==
  ASSUME TypeOK, TypeOK', NEW n \in Names, StoredMoves(n), NEW o \in SealedSecret, Known(o, n)
  PROVE  /\ o.uid <= revision' /\ o.rv <= revision'
         /\ ss'[n] # None /\ o.rv = ss'[n].rv => SameVersion(o, ss'[n])
  <1>1. Restated(o, o) /\ o # None
    BY CopiesTyped DEF Restated
  <1> QED BY <1>1, KnownStays DEF StoredMoves

LEMMA EventsStayKnown ==
  ASSUME TypeOK, TypeOK', Versions, NEW n \in Names, StoredMoves(n), ssWatch'[n] = ssWatch[n]
  PROVE  EventsKnown(n)'
  <1> SUFFICES ASSUME NEW i \in DOMAIN ssWatch'[n], ssWatch'[n][i].type = "put"
               PROVE  Known(ssWatch[n][i].object, n)'
    BY DEF EventsKnown
  <1>1. /\ ssWatch[n][i].object \in SealedSecret /\ Known(ssWatch[n][i].object, n)
        /\ ssWatch'[n][i] = ssWatch[n][i]
    BY CopiesTyped DEF Versions
  <1> QED BY <1>1, ObjectStaysKnown DEF Known

LEMMA AppendedStayKnown ==
  ASSUME TypeOK, TypeOK', Versions, NEW n \in Names, StoredMoves(n),
         NEW e, ssWatch'[n] = Append(ssWatch[n], e),
         e.type = "put" => e.object = ss'[n] /\ StoredKnown(n)'
  PROVE  EventsKnown(n)'
  <1> SUFFICES ASSUME NEW i \in DOMAIN ssWatch'[n], ssWatch'[n][i].type = "put"
               PROVE  Known(ssWatch[n][i].object, n)'
    BY DEF EventsKnown
  <1>1. CASE i \in DOMAIN ssWatch[n] /\ ssWatch'[n][i] = ssWatch[n][i]
    <2>1. ssWatch[n][i].object \in SealedSecret /\ Known(ssWatch[n][i].object, n)
      BY <1>1, CopiesTyped DEF Versions
    <2> QED BY <1>1, <2>1, ObjectStaysKnown DEF Known
  <1>2. CASE ssWatch'[n][i] = e
    BY <1>2 DEF Known, StoredKnown, SameVersion
  <1> QED BY <1>1, <1>2, AppendEvent, CopiesTyped

LEMMA PutKeepsVersions ==
  ASSUME TypeOK, TypeOK', Versions, CopiesStay, NEW m \in Names, NEW o \in SealedSecret,
         PutSealedSecret(m, o), o.uid <= revision + 1
  PROVE  Versions'
  <1>1. revision \in Nat /\ revision' = revision + 1
    BY CopiesTyped, PutMoves
  <1>2. ASSUME NEW n \in Names
        PROVE  StoredMoves(n) /\ StoredKnown(n)' /\ EventsKnown(n)'
    <2>1. CASE n = m
      <3>1. PICK new \in SealedSecret :
              /\ ss'[m] = new /\ new # None /\ new.rv = revision + 1 /\ new.uid = o.uid
              /\ ssWatch'[m] = Append(ssWatch[m], [type |-> "put", object |-> new])
        BY PutMoves DEF SameVersion
      <3>2. StoredMoves(n) /\ StoredKnown(n)'
        BY <1>1, <2>1, <3>1 DEF StoredMoves, StoredKnown
      <3> QED BY <2>1, <3>1, <3>2, AppendedStayKnown
    <2>2. CASE n # m
      <3>1. ss'[n] = ss[n] /\ ssWatch'[n] = ssWatch[n]
        BY <2>2, PutMoves
      <3>2. StoredMoves(n)
        BY <1>1, <3>1 DEF StoredMoves
      <3>3. ss[n] # None => ss[n].uid \in Nat /\ ss[n].rv \in Nat
        BY CopiesTyped, SealedSecretTyped
      <3>4. StoredKnown(n)'
        BY <1>1, <3>1, <3>3 DEF Versions, StoredKnown
      <3> QED BY <3>1, <3>2, <3>4, EventsStayKnown
    <2> QED BY <2>1, <2>2
  <1> QED BY <1>2, CopiesStayKnown, VersionsParts

LEMMA StatusKeepsVersions ==
  ASSUME TypeOK, TypeOK', Versions, StatusIsWritten
  PROVE  Versions'
  <1>1. /\ WithStatus(ss[key]) \in SealedSecret /\ PutSealedSecret(key, WithStatus(ss[key]))
        /\ WithStatus(ss[key]).uid = ss[key].uid /\ ss[key] \in SealedSecret /\ ss[key] # None
        /\ key \in Names /\ CopiesStay
    BY StatusPutsObject DEF StatusIsWritten, SameVersion
  <1>2. ss[key].uid <= revision + 1
    BY <1>1, CopiesTyped, SealedSecretTyped DEF Versions
  <1> QED BY <1>1, <1>2, PutKeepsVersions

LEMMA OthersKeepVersions ==
  ASSUME TypeOK, TypeOK', Versions, OthersAct
  PROVE  Versions'
  <1>1. ASSUME NEW m \in Names, UserPuts(m) PROVE Versions'
    <2>1. PICK o \in SealedSecret :
            /\ PutSealedSecret(m, o)
            /\ o.uid = revision + 1 \/ (ss[m] # None /\ o.uid = ss[m].uid)
      BY <1>1, UserPutsObject
    <2>2. o.uid <= revision + 1
      BY <2>1, CopiesTyped, SealedSecretTyped DEF Versions
    <2> QED BY <1>1, <2>1, <2>2, PutKeepsVersions DEF UserPuts
  <1>2. ASSUME NEW m \in Names, UserDeletesSealedSecret(m), CopiesStay PROVE Versions'
    <2>1. /\ revision' = revision /\ revision \in Nat
          /\ ss' = [ss EXCEPT ![m] = None]
          /\ ssWatch' = [ssWatch EXCEPT
                           ![m] = Append(@, [type |-> "delete", object |-> ss[m]])]
      BY <1>2, CopiesTyped DEF UserDeletesSealedSecret
    <2>2. ASSUME NEW n \in Names
          PROVE  StoredMoves(n) /\ StoredKnown(n)' /\ EventsKnown(n)'
      <3>1. StoredMoves(n) /\ StoredKnown(n)'
        BY <2>1, CopiesTyped DEF StoredMoves, StoredKnown, Versions
      <3>2. CASE n = m
        <4>1. ssWatch'[n] = Append(ssWatch[n], [type |-> "delete", object |-> ss[n]])
          BY <2>1, <3>2, CopiesTyped
        <4> QED BY <3>1, <4>1, AppendedStayKnown
      <3>3. CASE n # m
        <4>1. ssWatch'[n] = ssWatch[n]
          BY <2>1, <3>3, CopiesTyped
        <4> QED BY <3>1, <4>1, EventsStayKnown
      <3> QED BY <3>1, <3>2, <3>3
    <2> QED BY <1>2, <2>2, CopiesStayKnown, VersionsParts
  <1>3. ASSUME NEW m \in Names, RelistSealedSecret(m, cache[m]), CopiesStay PROVE Versions'
    <2>1. /\ revision' = revision /\ revision \in Nat /\ ss' = ss
          /\ \A n \in Names \ {m} : ssWatch'[n] = ssWatch[n]
          /\ \/ ss[m] # None /\ ssWatch'[m] = <<[type |-> "put", object |-> ss[m]]>>
             \/ ssWatch'[m] = <<[type |-> "tombstone", object |-> cache[m]]>>
             \/ ssWatch'[m] = << >>
      BY <1>3, CopiesTyped DEF RelistSealedSecret
    <2>2. ASSUME NEW n \in Names
          PROVE  StoredMoves(n) /\ StoredKnown(n)' /\ EventsKnown(n)'
      <3>1. StoredMoves(n) /\ StoredKnown(n)'
        BY <2>1, CopiesTyped DEF StoredMoves, StoredKnown, Versions
      <3>2. CASE n = m
        <4>1. EventsKnown(n)'
          BY <2>1, <3>1, <3>2 DEF EventsKnown, StoredKnown, Known, SameVersion
        <4> QED BY <3>1, <4>1
      <3>3. CASE n # m
        BY <2>1, <3>1, <3>3, EventsStayKnown
      <3> QED BY <3>2, <3>3
    <2> QED BY <1>3, <2>2, CopiesStayKnown, VersionsParts
  <1>4. ASSUME NEW m \in Names, DeliverSealedSecret(m) PROVE Versions'
    <2>1. /\ UNCHANGED <<revision, ss, key, obj>> /\ revision \in Nat
          /\ ssWatch[m] # << >> /\ ssWatch' = [ssWatch EXCEPT ![m] = Tail(@)]
      BY <1>4, CopiesTyped DEF DeliverSealedSecret
    <2> DEFINE event == Head(ssWatch[m])
    <2>2. cache' = [cache EXCEPT ![m] = IF event.type = "put" THEN event.object ELSE None]
      BY <1>4 DEF DeliverSealedSecret, DeliverPut, DeliverDelete
    <2>3. event = ssWatch[m][1] /\ 1 \in DOMAIN ssWatch[m]
      BY <2>1, CopiesTyped
    <2> HIDE DEF event
    <2>4. ASSUME NEW n \in Names
          PROVE  /\ StoredKnown(n)' /\ EventsKnown(n)' /\ Known(cache[n], n)'
                 /\ key' = n => Known(obj, n)'
      <3>1. StoredKnown(n)' /\ (key' = n => Known(obj, n)')
        BY <2>1 DEF StoredKnown, Versions, Known
      <3>2. Known(cache[n], n)'
        BY <2>1, <2>2, <2>3, CopiesTyped DEF Versions, Known
      <3>3. EventsKnown(n)'
        <4> SUFFICES ASSUME NEW i \in DOMAIN ssWatch'[n], ssWatch'[n][i].type = "put"
                     PROVE  Known(ssWatch[n][i].object, n)'
          BY DEF EventsKnown
        <4>1. PICK j \in DOMAIN ssWatch[n] : ssWatch'[n][i] = ssWatch[n][j]
          <5>1. CASE n = m
            <6>1. ssWatch'[n] = Tail(ssWatch[n])
              BY <2>1, <5>1, CopiesTyped
            <6> QED BY <2>1, <5>1, <6>1, TailEvent, CopiesTyped
          <5>2. CASE n # m
            BY <2>1, <5>2, CopiesTyped
          <5> QED BY <5>1, <5>2
        <4> QED BY <2>1, <4>1 DEF Versions, Known
      <3> QED BY <3>1, <3>2, <3>3
    <2> QED BY <2>4, VersionsParts
  <1> QED BY <1>1, <1>2, <1>3, <1>4 DEF OthersAct

LEMMA NextVersions ==
  ASSUME TypeOK, TypeOK', Passing, Versions, [Next]_vars
  PROVE  Versions'
  <1>1. CASE Elsewhere
    <2>1. ASSUME NEW n \in Names
          PROVE  StoredMoves(n) /\ StoredKnown(n)' /\ EventsKnown(n)'
      <3>1. StoredMoves(n) /\ ssWatch'[n] = ssWatch[n] /\ ss'[n] = ss[n]
        BY <1>1 DEF Elsewhere, StoreStays, StoredMoves
      <3>2. revision' \in Nat /\ revision' >= revision /\ revision \in Nat
        BY <1>1, CopiesTyped DEF Elsewhere, StoreStays
      <3>3. ss[n] # None => ss[n].uid \in Nat /\ ss[n].rv \in Nat
        BY CopiesTyped, SealedSecretTyped
      <3>4. StoredKnown(n)'
        BY <3>1, <3>2, <3>3 DEF Versions, StoredKnown
      <3> QED BY <3>1, <3>4, EventsStayKnown
    <2> QED BY <1>1, <2>1, CopiesStayKnown, VersionsParts DEF Elsewhere
  <1>2. CASE Fetch
    <2>1. /\ key' = key /\ obj' = cache[key]
          /\ UNCHANGED <<revision, ss, ssWatch, cache>>
      BY <1>2 DEF Fetch, WorkerStep
    <2> QED BY <2>1 DEF Versions, Known
  <1>3. CASE Between
    <2>1. UNCHANGED <<cache, ss, ssWatch>> /\ obj' = None /\ revision' >= revision
      BY <1>3 DEF Between, StoreStays
    <2>2. ASSUME NEW n \in Names
          PROVE  /\ StoredKnown(n)' /\ EventsKnown(n)' /\ Known(cache[n], n)'
                 /\ Known(obj, n)'
      <3>1. StoredMoves(n)
        BY <2>1 DEF StoredMoves
      <3>2. EventsKnown(n)'
        BY <2>1, <3>1, EventsStayKnown
      <3>3. Known(cache[n], n)'
        <4>1. CASE cache[n] = None
          BY <2>1, <4>1 DEF Known
        <4>2. CASE cache[n] \in SealedSecret
          BY <2>1, <3>1, <4>2, ObjectStaysKnown DEF Known, Versions
        <4> QED BY <4>1, <4>2, CopiesTyped
      <3>4. StoredKnown(n)'
        <4>1. ss[n] # None => ss[n].uid \in Nat /\ ss[n].rv \in Nat
          BY CopiesTyped, SealedSecretTyped
        <4>2. revision' \in Nat /\ revision \in Nat
          BY <1>3, CopiesTyped DEF Between, StoreStays
        <4> QED BY <2>1, <4>1, <4>2 DEF Versions, StoredKnown
      <3> QED BY <2>1, <3>2, <3>3, <3>4 DEF Known
    <2> QED BY <2>2, VersionsParts
  <1>4. CASE Restart
    <2>1. /\ revision' = revision /\ ss' = ss /\ key' = None
          /\ cache' = [n \in Names |-> None] /\ obj' = None
          /\ ssWatch' = [n \in Names |-> IF ss[n] = None THEN << >>
                                         ELSE <<[type |-> "put", object |-> ss[n]]>>]
      BY <1>4 DEF Restart
    <2> QED BY <2>1 DEF Versions, Known, SameVersion
  <1> QED BY <1>1, <1>2, <1>3, <1>4, CopyKinds, StatusKeepsVersions, OthersKeepVersions

-----------------------------------------------------------------------------
(* A pass tries what it says it tried.                                     *)

LEMMA PassStays ==
  ASSUME Passing, UNCHANGED <<pc, key, obj, err, tried>>
  PROVE  Passing'
  BY DEF Passing, CanUnseal

LEMMA PassGoesOn ==
  ASSUME Passing, UNCHANGED <<key, obj, tried>>,
         pc \in {"get", "create", "update"}, pc' \in {"create", "update", "status"}
  PROVE  Passing'
  BY DEF Passing, CanUnseal

LEMMA PassEnds ==
  ASSUME pc' \in {"observe", "finish"}
  PROVE  Passing'
  BY DEF Passing

LEMMA NextPassing == TypeOK /\ Passing /\ [Next]_vars => Passing'
  <1> SUFFICES ASSUME TypeOK, Passing, [Next]_vars PROVE Passing'
    OBVIOUS
  <1>1. CASE UNCHANGED vars
    BY <1>1, PassStays DEF vars
  <1>2. CASE Restart
    BY <1>2 DEF Restart, Passing
  <1>3. CASE TakeKey
    BY <1>3 DEF TakeKey, WorkerStep, Passing
  <1>4. CASE Fetch
    <2>1. key \in Names /\ key' = key /\ obj' = cache[key] /\ cache[key] \in SealedSecret \cup {None}
      BY <1>4 DEF Fetch, WorkerStep, TypeOK
    <2>2. CASE cache[key] = None /\ pc' \in {"delete", "finish"}
      BY <2>2 DEF Passing
    <2>3. CASE /\ cache[key] # None
               /\ \/ pc' = "get" /\ CanUnseal(cache[key])
                  \/ pc' = "status" /\ err' = "retry"
      <3>1. tried'[key] = cache[key].spec
        BY <1>4, <2>1, <2>3 DEF Fetch, TypeOK
      <3> QED BY <2>1, <2>3, <3>1 DEF Passing, CanUnseal
    <2> QED BY <1>4, <2>2, <2>3 DEF Fetch
  <1>5. CASE GetSecret
    BY <1>5, PassGoesOn DEF GetSecret, WorkerStep, Judge
  <1>6. CASE CreateSecret
    BY <1>6, PassGoesOn DEF CreateSecret, WorkerStep, Judge
  <1>7. CASE UpdateSecret
    BY <1>7, PassGoesOn DEF UpdateSecret, WorkerStep
  <1>8. CASE DeleteSecret \/ UpdateStatus \/ StatusFails
    BY <1>8, PassEnds DEF DeleteSecret, UpdateStatus, StatusFails
  <1>9. CASE Finish
    BY <1>9 DEF Finish, Passing
  <1>10. CASE CallFails
    <2>1. pc \in Calls /\ UNCHANGED <<key, obj, tried>> /\ pc # "status"
          /\ pc' = IF pc = "delete" THEN "finish" ELSE "status"
      BY <1>10 DEF CallFails
    <2> QED BY <2>1, PassGoesOn, PassEnds DEF Calls
  <1>11. ASSUME NEW n \in Names,
                \/ Informers(n) \/ Backoff(n) \/ GarbageCollected(n)
                \/ Users(n) \/ LookupFails(n) \/ Relist(n)
         PROVE  Passing'
    <2>1. Restart \/ UNCHANGED <<pc, key, obj, err, tried>>
      BY <1>11 DEF Informers, DeliverSealedSecret, DeliverPut, DeliverDelete, SecretDeleted,
                   FollowDeletion, Miss, Backoff, GarbageCollected, Users, LookupFails, Relist
    <2> QED BY <1>2, <2>1, PassStays
  <1>12. CASE Crash
    BY <1>2, <1>12 DEF Crash
  <1> QED BY <1>1, <1>3, <1>4, <1>5, <1>6, <1>7, <1>8, <1>9, <1>10, <1>11, <1>12
       DEF Next, Worker

CopiesInv == TypeOK /\ Passing /\ Versions

LEMMA InitCopies == Init => CopiesInv
  <1> SUFFICES ASSUME Init PROVE Passing /\ Versions
    BY InitTyped DEF CopiesInv
  <1> QED BY DEF Init, ClusterInit, Passing, Versions, Known

LEMMA NextCopies == CopiesInv /\ [Next]_vars => CopiesInv'
  BY NextTyped, NextPassing, NextVersions DEF CopiesInv

-----------------------------------------------------------------------------
(* Who writes a status.                                                    *)

\* What a status write leaves: the condition of this pass, on what it tried.
StatusWritten ==
    /\ StatusIsWritten
    /\ ss[key] # None /\ ss'[key] # None
    /\ SameVersion(ss'[key], ss[key]) /\ SameVersion(obj, ss[key])
    /\ ss'[key].synced = NewStatus /\ ss'[key].observed = obj.generation
    /\ ss'[key].rv = revision + 1 /\ ss[key].rv = obj.rv
    /\ UNCHANGED secret
    /\ ssWatch'[key] = Append(ssWatch[key], [type |-> "put", object |-> ss'[key]])
    /\ \A n \in Names \ {key} : ss'[n] = ss[n] /\ ssWatch'[n] = ssWatch[n]

LEMMA StatusIsFit ==
  ASSUME CopiesInv, StatusIsWritten
  PROVE  StatusWritten
  <1>1. /\ key \in Names /\ obj \in SealedSecret /\ TypeOK
        /\ ss[key] # None /\ ss[key].rv = obj.rv
        /\ WithStatus(ss[key]) \in SealedSecret /\ PutSealedSecret(key, WithStatus(ss[key]))
    BY StatusPutsObject DEF StatusIsWritten, CopiesInv
  <1>2. SameVersion(obj, ss[key])
    <2>1. Known(obj, key) /\ obj # None
      BY <1>1, CopiesTyped DEF CopiesInv, Versions
    <2> QED BY <1>1, <2>1 DEF Known
  <1>3. /\ UNCHANGED secret
        /\ \A n \in Names \ {key} : ss'[n] = ss[n] /\ ssWatch'[n] = ssWatch[n]
        /\ ss'[key] # None /\ ss'[key].rv = revision + 1
        /\ SameVersion(ss'[key], WithStatus(ss[key]))
        /\ ss'[key].synced = WithStatus(ss[key]).synced
        /\ ss'[key].observed = WithStatus(ss[key]).observed
        /\ ssWatch'[key] = Append(ssWatch[key], [type |-> "put", object |-> ss'[key]])
    <2> DEFINE o == WithStatus(ss[key])
    <2>1. o \in SealedSecret /\ PutSealedSecret(key, o)
      BY <1>1
    <2> HIDE DEF o
    <2>2. PICK new \in SealedSecret :
               /\ new # None /\ new.rv = revision + 1
               /\ SameVersion(new, o) /\ new.synced = o.synced /\ new.observed = o.observed
               /\ ss'[key] = new
               /\ ssWatch'[key] = Append(ssWatch[key], [type |-> "put", object |-> new])
      BY <1>1, <2>1, PutMoves, Zenon
    <2>3. /\ UNCHANGED secret
          /\ \A n \in Names \ {key} : ss'[n] = ss[n] /\ ssWatch'[n] = ssWatch[n]
      BY <1>1, <2>1, PutMoves
    <2> QED BY <2>2, <2>3, Zenon DEF o
  <1>4. /\ SameVersion(WithStatus(ss[key]), ss[key])
        /\ WithStatus(ss[key]).synced = NewStatus
        /\ WithStatus(ss[key]).observed = obj.generation
    BY <1>1, StatusPutsObject
  <1> QED BY <1>1, <1>2, <1>3, <1>4 DEF StatusWritten, SameVersion

\* No other step touches the status of an object that stays.
LEMMA WhoWritesStatus ==
  ASSUME CopiesInv, [Next]_vars, NEW n \in Names, ss[n] # None, ss'[n] # None,
         ss'[n].uid = ss[n].uid
  PROVE  \/ StatusWritten /\ n = key
         \/ /\ ss'[n].synced = ss[n].synced /\ ss'[n].observed = ss[n].observed
            /\ \/ ss'[n].generation = ss[n].generation + 1
               \/ ss'[n].generation = ss[n].generation /\ ss'[n].spec = ss[n].spec
  <1>1. CASE ss'[n] = ss[n]
    BY <1>1
  <1>2. CASE StatusIsWritten
    <2>1. StatusWritten
      BY <1>2, StatusIsFit
    <2>2. n # key => ss'[n] = ss[n]
      BY <2>1 DEF StatusWritten
    <2> QED BY <2>1, <2>2
  <1>3. ASSUME NEW m \in Names, UserPuts(m)
        PROVE  /\ ss'[n].synced = ss[n].synced /\ ss'[n].observed = ss[n].observed
               /\ \/ ss'[n].generation = ss[n].generation + 1
                  \/ ss'[n].generation = ss[n].generation /\ ss'[n].spec = ss[n].spec
    <2>1. TypeOK
      BY DEF CopiesInv
    <2>2. PICK o \in SealedSecret :
            /\ PutSealedSecret(m, o)
            /\ \/ ss[m] = None
               \/ /\ o.synced = ss[m].synced /\ o.observed = ss[m].observed
                  /\ \/ o.generation = ss[m].generation + 1
                     \/ o.generation = ss[m].generation /\ o.spec = ss[m].spec
      BY <1>3, <2>1, UserPutsObject
    <2>3. CASE n # m
      BY <2>1, <2>2, <2>3, PutMoves
    <2>4. CASE n = m
      <3>1. /\ SameVersion(ss'[m], o) /\ ss'[m].synced = o.synced /\ ss'[m].observed = o.observed
        <4>1. \E new \in SealedSecret :
                 /\ new # None /\ new.rv = revision + 1
                 /\ SameVersion(new, o) /\ new.synced = o.synced /\ new.observed = o.observed
                 /\ ss'[m] = new
                 /\ ssWatch'[m] = Append(ssWatch[m], [type |-> "put", object |-> new])
          BY <2>1, <2>2, PutMoves
        <4> QED BY <4>1, Zenon
      <3> QED BY <2>2, <2>4, <3>1 DEF SameVersion
    <2> QED BY <2>3, <2>4
  <1>4. CASE OthersAct
    <2>1. ASSUME NEW m \in Names, UserDeletesSealedSecret(m) PROVE ss'[n] = ss[n]
      BY <2>1 DEF UserDeletesSealedSecret, CopiesInv, TypeOK, ClusterTypeOK
    <2>2. ASSUME NEW m \in Names,
                 RelistSealedSecret(m, cache[m]) \/ DeliverSealedSecret(m)
          PROVE  ss'[n] = ss[n]
      BY <2>2 DEF RelistSealedSecret, DeliverSealedSecret
    <2> QED BY <1>1, <1>3, <1>4, <2>1, <2>2 DEF OthersAct
  <1>5. CASE Restart \/ Fetch \/ Between \/ Elsewhere
    <2>1. ss' = ss
      BY <1>5 DEF Restart, Fetch, Between, Elsewhere, StoreStays
    <2> QED BY <1>1, <2>1
  <1> QED BY <1>2, <1>4, <1>5, CopyKinds DEF CopiesInv

(***************************************************************************)
(* A status that is written fits the SealedSecret it is attached to: it is *)
(* of the generation, the spec and the scope that the pass tried, though   *)
(* the pass worked on a copy and users act meanwhile (unseal,              *)
(* updateSealedSecretStatus).                                              *)
(***************************************************************************)
THEOREM StatusFits == Spec => StatusFitsTheObject
  <1> DEFINE Fit ==
        \A n \in Names :
          /\ ss[n] # None /\ ss'[n] # None /\ ss'[n].uid = ss[n].uid
          /\ <<ss'[n].synced, ss'[n].observed>> # <<ss[n].synced, ss[n].observed>>
          => /\ ss'[n].observed = ss'[n].generation
             /\ tried[n] = ss'[n].spec
             /\ ss'[n].synced = "True" => CanUnseal(ss'[n])
  <1>1. ASSUME CopiesInv, [Next]_vars PROVE Fit
    <2> SUFFICES ASSUME NEW n \in Names,
                        ss[n] # None, ss'[n] # None, ss'[n].uid = ss[n].uid,
                        <<ss'[n].synced, ss'[n].observed>> # <<ss[n].synced, ss[n].observed>>
                 PROVE  /\ ss'[n].observed = ss'[n].generation
                        /\ tried[n] = ss'[n].spec
                        /\ ss'[n].synced = "True" => CanUnseal(ss'[n])
      OBVIOUS
    <2>1. StatusWritten /\ n = key
      BY <1>1, WhoWritesStatus
    <2>2. /\ ss'[n].observed = obj.generation /\ ss'[n].synced = NewStatus
          /\ ss'[n].generation = obj.generation /\ ss'[n].spec = obj.spec
          /\ ss'[n].scope = obj.scope
      BY <2>1 DEF StatusWritten, SameVersion
    <2>3. pc = "status"
      BY <2>1 DEF StatusWritten, StatusIsWritten
    <2> QED BY <1>1, <2>1, <2>2, <2>3 DEF CopiesInv, Passing, NewStatus, CanUnseal
  <1>2. Spec => []CopiesInv
    BY InitCopies, NextCopies, PTL DEF Spec
  <1>3. CopiesInv /\ [Next]_vars => [Fit]_vars
    BY <1>1
  <1>4. Spec => [][Fit]_vars
    BY <1>2, <1>3, PTL DEF Spec
  <1> QED BY <1>4 DEF StatusFitsTheObject

-----------------------------------------------------------------------------
(* When a copy is the stored version, so is all that comes after it.       *)

Current(o, n) == o # None /\ ss[n] # None /\ o.rv = ss[n].rv
Recent(e, n) == e.type = "put" /\ Current(e.object, n)
AllRecent(n) == \A i \in DOMAIN ssWatch[n] : Recent(ssWatch[n][i], n)

EventsFresh(n) ==
    \A i, j \in DOMAIN ssWatch[n] :
        i < j /\ Recent(ssWatch[n][i], n) => Recent(ssWatch[n][j], n)

CopiesFresh(n) ==
    /\ Current(cache[n], n) => AllRecent(n)
    /\ key = n /\ Current(obj, n) => Current(cache[n], n)

Fresh == \A n \in Names : EventsFresh(n) /\ CopiesFresh(n)

LEMMA FreshStays ==
  ASSUME TypeOK, Fresh, CopiesStay, NEW n \in Names, ss'[n] = ss[n], ssWatch'[n] = ssWatch[n]
  PROVE  EventsFresh(n)' /\ CopiesFresh(n)'
  <1>1. \A e : Recent(e, n)' <=> Recent(e, n)
    BY DEF Recent, Current
  <1>2. EventsFresh(n)' /\ (AllRecent(n) => AllRecent(n)')
    BY <1>1 DEF EventsFresh, AllRecent, Fresh, Recent, Current
  <1>3. Current(cache[n], n)' <=> Current(cache[n], n)
    BY CopiesTyped DEF CopiesStay, Restated, Current
  <1>4. Current(obj, n)' <=> Current(obj, n)
    BY CopiesTyped DEF CopiesStay, Restated, Current
  <1> QED BY <1>2, <1>3, <1>4 DEF CopiesFresh, Fresh, CopiesStay

LEMMA FreshWhenGone ==
  ASSUME NEW n \in Names, ss'[n] = None
  PROVE  EventsFresh(n)' /\ CopiesFresh(n)'
  BY DEF EventsFresh, CopiesFresh, Recent, Current

\* A new version is nobody's yet, but for the event that reports it.
LEMMA FreshWhenPut ==
  ASSUME TypeOK, Versions, CopiesStay, NEW n \in Names,
         ss'[n] # None, ss'[n].rv = revision + 1,
         ssWatch'[n] = Append(ssWatch[n], [type |-> "put", object |-> ss'[n]])
  PROVE  EventsFresh(n)' /\ CopiesFresh(n)'
  <1>1. revision \in Nat
    BY CopiesTyped
  <1>2. ~Current(cache[n], n)'
    <2>1. Restated(cache'[n], cache[n]) /\ Known(cache[n], n) /\ cache[n] \in SealedSecret \cup {None}
      BY CopiesTyped DEF CopiesStay, Versions
    <2>2. cache'[n] # None => cache'[n].rv \in Nat /\ cache'[n].rv <= revision
      BY <2>1, CopiesTyped, SealedSecretTyped DEF Restated, Known
    <2> QED BY <1>1, <2>2 DEF Current
  <1>3. key' = n => ~Current(obj, n)'
    <2> SUFFICES ASSUME key' = n PROVE ~Current(obj, n)'
      OBVIOUS
    <2>1. Restated(obj', obj) /\ Known(obj, n) /\ obj \in SealedSecret \cup {None}
      BY CopiesTyped DEF CopiesStay, Versions
    <2>2. obj' # None => obj'.rv \in Nat /\ obj'.rv <= revision
      BY <2>1, CopiesTyped, SealedSecretTyped DEF Restated, Known
    <2> QED BY <1>1, <2>2 DEF Current
  <1>4. ASSUME NEW i \in DOMAIN ssWatch'[n], Recent(ssWatch[n][i], n)'
        PROVE  i = Len(ssWatch[n]) + 1
    <2>1. CASE i \in DOMAIN ssWatch[n] /\ ssWatch'[n][i] = ssWatch[n][i]
      <3>1. ssWatch[n][i].type = "put" /\ ssWatch[n][i].object.rv = revision + 1
        BY <1>4, <2>1 DEF Recent, Current
      <3>2. ssWatch[n][i].object \in SealedSecret /\ ssWatch[n][i].object.rv <= revision
        BY <2>1, <3>1, CopiesTyped DEF Versions, Known
      <3> QED BY <1>1, <3>1, <3>2
    <2> QED BY <2>1, AppendEvent, CopiesTyped
  <1>5. EventsFresh(n)'
    <2> SUFFICES ASSUME NEW i \in DOMAIN ssWatch'[n], NEW j \in DOMAIN ssWatch'[n],
                        i < j, Recent(ssWatch[n][i], n)'
                 PROVE  FALSE
      BY DEF EventsFresh
    <2>1. i = Len(ssWatch[n]) + 1
      BY <1>4
    <2>2. j \in 1..(Len(ssWatch[n]) + 1) /\ Len(ssWatch[n]) \in Nat
      BY CopiesTyped
    <2> QED BY <2>1, <2>2
  <1> QED BY <1>2, <1>3, <1>5 DEF CopiesFresh

LEMMA DeliverKeepsFresh ==
  ASSUME TypeOK, Fresh, NEW m \in Names, DeliverSealedSecret(m)
  PROVE  Fresh'
  <1>1. /\ UNCHANGED <<ss, key, obj>>
        /\ ssWatch[m] # << >> /\ ssWatch' = [ssWatch EXCEPT ![m] = Tail(@)]
    BY DEF DeliverSealedSecret
  <1> DEFINE event == Head(ssWatch[m])
  <1>2. cache' = [cache EXCEPT ![m] = IF event.type = "put" THEN event.object ELSE None]
    BY DEF DeliverSealedSecret, DeliverPut, DeliverDelete
  <1> HIDE DEF event
  <1>3. ASSUME NEW n \in Names, n # m PROVE EventsFresh(n)' /\ CopiesFresh(n)'
    <2>1. cache'[n] = cache[n] /\ ssWatch'[n] = ssWatch[n] /\ ss'[n] = ss[n]
      BY <1>1, <1>2, <1>3, CopiesTyped
    <2>2. EventsFresh(n) /\ CopiesFresh(n)
      BY DEF Fresh
    <2>3. EventsFresh(n)' /\ (AllRecent(n)' <=> AllRecent(n))
      BY <2>1, <2>2 DEF EventsFresh, AllRecent, Recent, Current
    <2>4. /\ Current(cache[n], n)' <=> Current(cache[n], n)
          /\ Current(obj, n)' <=> Current(obj, n)
      BY <1>1, <2>1 DEF Current
    <2> QED BY <1>1, <2>2, <2>3, <2>4 DEF CopiesFresh
  <1>4. EventsFresh(m)' /\ CopiesFresh(m)'
    <2>1. /\ ssWatch'[m] = Tail(ssWatch[m])
          /\ event = ssWatch[m][1] /\ 1 \in DOMAIN ssWatch[m]
      BY <1>1, CopiesTyped DEF event
    <2>2. \A i \in DOMAIN ssWatch'[m] :
            i \in Nat /\ i + 1 \in DOMAIN ssWatch[m] /\ ssWatch'[m][i] = ssWatch[m][i + 1]
      BY <1>1, <2>1, TailEvent, CopiesTyped
    <2>3. \A e : Recent(e, m)' <=> Recent(e, m)
      BY <1>1 DEF Recent, Current
    <2>4. EventsFresh(m) /\ CopiesFresh(m)
      BY DEF Fresh
    <2>5. EventsFresh(m)'
      <3> SUFFICES ASSUME NEW i \in DOMAIN ssWatch'[m], NEW j \in DOMAIN ssWatch'[m],
                          i < j, Recent(ssWatch[m][i], m)'
                   PROVE  Recent(ssWatch[m][j], m)'
        BY DEF EventsFresh
      <3>1. Recent(ssWatch[m][i + 1], m)
        BY <2>2, <1>1 DEF Recent, Current
      <3>2. Recent(ssWatch[m][j + 1], m)
        BY <2>2, <2>4, <3>1 DEF EventsFresh
      <3> QED BY <2>2, <3>2, <1>1 DEF Recent, Current
    <2>6. AllRecent(m) => AllRecent(m)' /\ Current(cache[m], m)'
      <3>1. ASSUME AllRecent(m) PROVE Current(cache[m], m)'
        <4>1. Recent(event, m)
          BY <2>1, <3>1 DEF AllRecent
        <4>2. cache'[m] = event.object
          BY <1>2, <4>1, CopiesTyped DEF Recent
        <4> QED BY <1>1, <4>1, <4>2 DEF Recent, Current
      <3>2. ASSUME AllRecent(m) PROVE AllRecent(m)'
        <4> SUFFICES ASSUME NEW i \in DOMAIN ssWatch'[m] PROVE Recent(ssWatch[m][i], m)'
          BY DEF AllRecent
        <4>1. Recent(ssWatch[m][i + 1], m)
          BY <2>2, <3>2 DEF AllRecent
        <4> QED BY <2>2, <4>1, <1>1 DEF Recent, Current
      <3> QED BY <3>1, <3>2
    <2>7. Current(cache[m], m)' => AllRecent(m)'
      <3> SUFFICES ASSUME Current(cache[m], m)', NEW i \in DOMAIN ssWatch'[m]
                   PROVE  Recent(ssWatch[m][i], m)'
        BY DEF AllRecent
      <3>1. Recent(event, m)
        <4>1. cache'[m] = IF event.type = "put" THEN event.object ELSE None
          BY <1>2, CopiesTyped
        <4> QED BY <1>1, <4>1 DEF Recent, Current
      <3>2. 1 < i + 1 /\ i + 1 \in DOMAIN ssWatch[m]
        <4>1. i \in Nat \ {0}
          BY <2>1, CopiesTyped, <1>1
        <4> QED BY <2>2, <4>1
      <3>3. Recent(ssWatch[m][i + 1], m)
        BY <2>1, <2>4, <3>1, <3>2 DEF EventsFresh
      <3> QED BY <2>2, <3>3, <1>1 DEF Recent, Current
    <2>8. key' = m /\ Current(obj, m)' => Current(cache[m], m)'
      <3>1. key' = m /\ Current(obj, m)' => key = m /\ Current(obj, m)
        BY <1>1 DEF Current
      <3> QED BY <2>4, <2>6, <3>1 DEF CopiesFresh
    <2> QED BY <2>5, <2>7, <2>8 DEF CopiesFresh
  <1> QED BY <1>3, <1>4 DEF Fresh

LEMMA OthersKeepFresh ==
  ASSUME CopiesInv, Fresh, OthersAct
  PROVE  Fresh'
  <1> USE DEF CopiesInv
  <1>1. ASSUME NEW m \in Names, UserPuts(m) PROVE Fresh'
    <2>1. CopiesStay
      BY <1>1 DEF UserPuts
    <2>3. PICK o \in SealedSecret : PutSealedSecret(m, o)
      BY <1>1, UserPutsObject
    <2>4. PICK new \in SealedSecret :
              /\ new # None /\ new.rv = revision + 1 /\ ss'[m] = new
              /\ ssWatch'[m] = Append(ssWatch[m], [type |-> "put", object |-> new])
      BY <2>3, PutMoves
    <2>2. /\ \A n \in Names \ {m} : ss'[n] = ss[n] /\ ssWatch'[n] = ssWatch[n]
          /\ ss'[m] # None /\ ss'[m].rv = revision + 1
          /\ ssWatch'[m] = Append(ssWatch[m], [type |-> "put", object |-> ss'[m]])
      BY <2>3, <2>4, PutMoves
    <2> QED BY <2>1, <2>2, FreshWhenPut, FreshStays DEF Fresh
  <1>2. ASSUME NEW m \in Names, UserDeletesSealedSecret(m), CopiesStay PROVE Fresh'
    <2>1. /\ ss'[m] = None
          /\ \A n \in Names \ {m} : ss'[n] = ss[n] /\ ssWatch'[n] = ssWatch[n]
      BY <1>2, CopiesTyped DEF UserDeletesSealedSecret
    <2> QED BY <1>2, <2>1, FreshWhenGone, FreshStays DEF Fresh
  <1>3. ASSUME NEW m \in Names, RelistSealedSecret(m, cache[m]), CopiesStay PROVE Fresh'
    <2>1. /\ ss' = ss /\ \A n \in Names \ {m} : ssWatch'[n] = ssWatch[n]
          /\ ss[m] # None => ssWatch'[m] = <<[type |-> "put", object |-> ss[m]]>>
      BY <1>3, CopiesTyped DEF RelistSealedSecret
    <2>2. ASSUME ss[m] # None PROVE EventsFresh(m)' /\ CopiesFresh(m)'
      <3>1. AllRecent(m)' /\ EventsFresh(m)'
        BY <2>1, <2>2 DEF AllRecent, EventsFresh, Recent, Current
      <3>2. Current(cache[m], m)' <=> Current(cache[m], m)
        BY <1>3, <2>1, CopiesTyped DEF CopiesStay, Restated, Current
      <3>3. Current(obj, m)' <=> Current(obj, m)
        BY <1>3, <2>1, CopiesTyped DEF CopiesStay, Restated, Current
      <3> QED BY <1>3, <3>1, <3>2, <3>3 DEF Fresh, CopiesFresh, CopiesStay
    <2> QED BY <1>3, <2>1, <2>2, FreshWhenGone, FreshStays DEF Fresh
  <1> QED BY <1>1, <1>2, <1>3, DeliverKeepsFresh DEF OthersAct

LEMMA NextFresh ==
  ASSUME CopiesInv, Fresh, [Next]_vars
  PROVE  Fresh'
  <1>1. CASE Elsewhere
    BY <1>1, FreshStays DEF Elsewhere, StoreStays, Fresh, CopiesInv
  <1>2. CASE Fetch
    <2>1. /\ key' = key /\ obj' = cache[key] /\ UNCHANGED <<ss, ssWatch, cache>>
      BY <1>2 DEF Fetch, WorkerStep
    <2> QED BY <2>1 DEF Fresh, EventsFresh, CopiesFresh, AllRecent, Recent, Current
  <1>3. CASE Between
    <2>1. UNCHANGED <<cache, ss, ssWatch>> /\ obj' = None
      BY <1>3 DEF Between, StoreStays
    <2> QED BY <2>1 DEF Fresh, EventsFresh, CopiesFresh, AllRecent, Recent, Current
  <1>4. CASE Restart
    <2>1. /\ cache' = [n \in Names |-> None] /\ obj' = None
          /\ ssWatch' = [n \in Names |-> IF ss[n] = None THEN << >>
                                         ELSE <<[type |-> "put", object |-> ss[n]]>>]
      BY <1>4 DEF Restart
    <2> QED BY <2>1 DEF Fresh, EventsFresh, CopiesFresh, Recent, Current
  <1>5. CASE StatusIsWritten
    <2>1. StatusWritten /\ CopiesStay /\ key \in Names /\ TypeOK /\ Versions
      BY <1>5, StatusIsFit DEF StatusIsWritten, CopiesInv
    <2>2. ASSUME NEW n \in Names, n = key PROVE EventsFresh(n)' /\ CopiesFresh(n)'
      <3>1. /\ ss'[n] # None /\ ss'[n].rv = revision + 1
            /\ ssWatch'[n] = Append(ssWatch[n], [type |-> "put", object |-> ss'[n]])
        BY <2>1, <2>2 DEF StatusWritten
      <3> QED BY <2>1, <3>1, FreshWhenPut
    <2>3. ASSUME NEW n \in Names, n # key PROVE EventsFresh(n)' /\ CopiesFresh(n)'
      BY <2>1, <2>3, FreshStays DEF StatusWritten
    <2> QED BY <2>2, <2>3 DEF Fresh
  <1> QED BY <1>1, <1>2, <1>3, <1>4, <1>5, CopyKinds, OthersKeepFresh DEF CopiesInv

-----------------------------------------------------------------------------
(* What becomes of a Secret that only the controller writes.               *)

\* Users leave Secrets alone, and nothing is to be patched.
SecretsLeftAlone ==
    /\ "write secret" \notin UserDeeds /\ "delete secret" \notin UserDeeds
    /\ \A spec \in Specs : "patch" \notin spec.annotations

\* The Secret s is what the pass for o makes of it.
Fits(s, o) == s # None /\ Holds(s, o) /\ s.controller \in {0, o.uid}

Unpatched ==
    /\ \A n \in Names : secret[n] # None => ~IsAnnotatedToBePatched(secret[n])
    /\ read # None => ~IsAnnotatedToBePatched(read)

LEMMA NewFits ==
  ASSUME SecretsLeftAlone, NEW o \in SealedSecret, NEW r \in Nat
  PROVE  LET s == [NewSecret(o) EXCEPT !.rv = r] IN
         s \in Secret /\ Fits(s, o) /\ ~IsAnnotatedToBePatched(s)
  <1> DEFINE new == NewSecret(o)
             s == [new EXCEPT !.rv = r]
  <1>1. o.spec \in Specs /\ "patch" \notin o.spec.annotations
    BY SealedSecretTyped DEF SecretsLeftAlone
  <1>2. /\ new \in Secret /\ new.items = o.spec.items /\ new.annotations = o.spec.annotations
        /\ new.controller \in {0, o.uid}
    BY NewSecretTyped DEF NewSecret
  <1> HIDE DEF new
  <1>3. /\ s \in Secret /\ s.items = new.items /\ s.annotations = new.annotations
        /\ s.controller = new.controller
    BY <1>2 DEF Secret
  <1> HIDE DEF s
  <1>4. s # None
    BY <1>3, ClusterAssumption
  <1>5. Fits(s, o) /\ ~IsAnnotatedToBePatched(s)
    BY <1>1, <1>2, <1>3, <1>4 DEF Fits, Holds, IsAnnotatedToBePatched
  <1> QED BY <1>3, <1>5 DEF s, new

LEMMA TargetFits ==
  ASSUME SecretsLeftAlone, NEW o \in SealedSecret, NEW t \in Secret,
         ~IsAnnotatedToBePatched(t)
  PROVE  /\ Target(t, o) \in Secret
         /\ Fits(Target(t, o), o) /\ ~IsAnnotatedToBePatched(Target(t, o))
  <1> DEFINE new == NewSecret(o)
             s == Overwritten(t, new)
  <1>1. o.spec \in Specs /\ "patch" \notin o.spec.annotations
    BY SealedSecretTyped DEF SecretsLeftAlone
  <1>2. /\ new \in Secret /\ new.items = o.spec.items /\ new.annotations = o.spec.annotations
        /\ new.controller \in {0, o.uid}
    BY NewSecretTyped DEF NewSecret
  <1>3. Target(t, o) = s /\ s \in Secret
    BY TargetTyped DEF Target
  <1> HIDE DEF new
  <1>4. /\ s.items = new.items /\ s.annotations = new.annotations
        /\ s.controller = new.controller
    BY DEF Overwritten, Secret
  <1> HIDE DEF s
  <1>5. s # None
    BY <1>3, ClusterAssumption
  <1>6. Fits(s, o) /\ ~IsAnnotatedToBePatched(s)
    BY <1>1, <1>2, <1>4, <1>5 DEF Fits, Holds, IsAnnotatedToBePatched
  <1> QED BY <1>3, <1>6

LEMMA RestampedFits ==
  ASSUME NEW o, NEW t \in Secret, NEW r \in Nat, Fits(t, o), ~IsAnnotatedToBePatched(t)
  PROVE  LET s == [t EXCEPT !.rv = r] IN
         s \in Secret /\ Fits(s, o) /\ ~IsAnnotatedToBePatched(s)
  <1> DEFINE s == [t EXCEPT !.rv = r]
  <1>1. /\ s \in Secret /\ s.items = t.items /\ s.annotations = t.annotations
        /\ s.controller = t.controller
    BY DEF Secret
  <1> HIDE DEF s
  <1>2. s # None
    BY <1>1, ClusterAssumption
  <1>3. Fits(s, o) /\ ~IsAnnotatedToBePatched(s)
    BY <1>1, <1>2 DEF Fits, Holds, IsAnnotatedToBePatched
  <1> QED BY <1>1, <1>3 DEF s

SecretStays(n) == secret'[n] = secret[n]
SecretCollected(n) == Orphaned(n) /\ secret'[n] = None /\ UNCHANGED <<ss, workerVars>>
SecretDeletedByPass(n) == key = n /\ pc = "delete" /\ pc' = "finish" /\ secret'[n] = None /\ UNCHANGED ss
SecretWritten(n) ==
    /\ key = n /\ pc \in {"create", "update"} /\ obj \in SealedSecret
    /\ Fits(secret'[n], obj) /\ ~IsAnnotatedToBePatched(secret'[n])
    /\ UNCHANGED <<ss, key, obj>>

LEMMA PassWritesSecret ==
  ASSUME SecretsLeftAlone, TypeOK, Unpatched, UNCHANGED <<key, obj>>,
         \/ pc = "create" /\ PutSecret(key, NewSecret(obj))
         \/ pc = "update" /\ PutSecret(key, Target(read, obj))
  PROVE  /\ SecretWritten(key)
         /\ \A n \in Names \ {key} : SecretStays(n)
  <1>1. key \in Names /\ obj \in SealedSecret /\ revision + 1 \in Nat
    BY DEF TypeOK, ClusterTypeOK
  <1>2. PICK s : PutSecret(key, s) /\ Fits([s EXCEPT !.rv = revision + 1], obj)
                 /\ ~IsAnnotatedToBePatched([s EXCEPT !.rv = revision + 1])
    <2>1. CASE pc = "create" /\ PutSecret(key, NewSecret(obj))
      BY <1>1, <2>1, NewFits
    <2>2. CASE pc = "update" /\ PutSecret(key, Target(read, obj))
      <3>1. read \in Secret /\ ~IsAnnotatedToBePatched(read)
        BY <2>2, ClusterAssumption DEF TypeOK, Unpatched
      <3>2. /\ Target(read, obj) \in Secret /\ Fits(Target(read, obj), obj)
            /\ ~IsAnnotatedToBePatched(Target(read, obj))
        BY <1>1, <3>1, TargetFits
      <3> QED BY <1>1, <2>2, <3>2, RestampedFits
    <2> QED BY <2>1, <2>2
  <1>3. /\ secret'[key] = [s EXCEPT !.rv = revision + 1] /\ UNCHANGED ss
        /\ \A n \in Names \ {key} : secret'[n] = secret[n]
    BY <1>1, <1>2 DEF PutSecret, TypeOK, ClusterTypeOK
  <1>4. Fits(secret'[key], obj) /\ ~IsAnnotatedToBePatched(secret'[key])
    BY <1>2, <1>3, Zenon
  <1> QED BY <1>1, <1>3, <1>4 DEF SecretWritten, SecretStays

LEMMA SecretKinds ==
  ASSUME SecretsLeftAlone, TypeOK, Unpatched, [Next]_vars, NEW n \in Names
  PROVE  SecretStays(n) \/ SecretCollected(n) \/ SecretDeletedByPass(n) \/ SecretWritten(n)
  <1>1. CASE secret' = secret
    BY <1>1 DEF SecretStays
  <1>2. CASE Restart \/ TakeKey \/ Fetch \/ GetSecret \/ UpdateStatus \/ Finish \/ StatusFails
    <2>1. secret' = secret
      BY <1>2 DEF Restart, TakeKey, Fetch, GetSecret, UpdateStatus, Finish, StatusFails,
                  PutSealedSecret, NoEffect
    <2> QED BY <1>1, <2>1
  <1>3. ASSUME RemoveSecret(key), pc = "delete", pc' = "finish"
        PROVE  SecretStays(n) \/ SecretDeletedByPass(n)
    BY <1>3 DEF RemoveSecret, SecretStays, SecretDeletedByPass, TypeOK, ClusterTypeOK
  <1>4. CASE DeleteSecret
    BY <1>1, <1>3, <1>4 DEF DeleteSecret
  <1>5. ASSUME \/ pc = "create" /\ PutSecret(key, NewSecret(obj))
               \/ pc = "update" /\ PutSecret(key, Target(read, obj)),
               UNCHANGED <<key, obj>>
        PROVE  SecretStays(n) \/ SecretWritten(n)
    <2>1. SecretWritten(key) /\ \A m \in Names \ {key} : SecretStays(m)
      BY <1>5, PassWritesSecret
    <2> QED BY <2>1
  <1>6. CASE CreateSecret
    BY <1>1, <1>5, <1>6 DEF CreateSecret, WorkerStep
  <1>7. CASE UpdateSecret
    BY <1>1, <1>5, <1>7 DEF UpdateSecret, WorkerStep
  <1>8. CASE CallFails
    <2>1. UNCHANGED <<key, obj>> /\ pc' = IF pc = "delete" THEN "finish" ELSE "status"
      BY <1>8 DEF CallFails
    <2>2. \/ secret' = secret
          \/ pc = "create" /\ PutSecret(key, NewSecret(obj))
          \/ pc = "update" /\ PutSecret(key, Target(read, obj))
          \/ pc = "delete" /\ RemoveSecret(key)
      BY <1>8 DEF CallFails, NoEffect
    <2> QED BY <1>1, <1>3, <1>5, <2>1, <2>2
  <1>9. ASSUME NEW m \in Names,
               \/ Informers(m) \/ Backoff(m) \/ LookupFails(m) \/ Relist(m)
        PROVE  secret' = secret
    BY <1>9 DEF Informers, DeliverSealedSecret, SecretDeleted, Restart, Backoff, LookupFails,
                Relist, RelistSealedSecret, RelistSecret
  <1>10. ASSUME NEW m \in Names, Users(m) PROVE secret' = secret
    <2>1. ~UserWritesSecret(m) /\ ~UserDeletesSecret(m)
      BY DEF SecretsLeftAlone, UserWritesSecret, UserDeletesSecret, UserActs
    <2> QED BY <1>10, <2>1 DEF Users, UserCreatesSealedSecret, UserUpdatesSpec,
                                UserUpdatesScope, UserDeletesSealedSecret, PutSealedSecret
  <1>11. ASSUME NEW m \in Names, GarbageCollected(m)
         PROVE  SecretStays(n) \/ SecretCollected(n)
    BY <1>11 DEF GarbageCollected, CollectGarbage, RemoveSecret, SecretStays, SecretCollected,
                 TypeOK, ClusterTypeOK
  <1>12. CASE UNCHANGED vars
    BY <1>1, <1>12 DEF vars
  <1>13. CASE Crash
    BY <1>2, <1>13 DEF Crash
  <1> QED BY <1>1, <1>2, <1>4, <1>6, <1>7, <1>8, <1>9, <1>10, <1>11, <1>12, <1>13
       DEF Next, Worker

LEMMA NextUnpatched ==
  ASSUME SecretsLeftAlone, TypeOK, Unpatched, [Next]_vars
  PROVE  Unpatched'
  <1>1. ASSUME NEW n \in Names, secret'[n] # None
        PROVE  ~IsAnnotatedToBePatched(secret'[n])
    <2>1. secret[n] # None => ~IsAnnotatedToBePatched(secret[n])
      BY DEF Unpatched
    <2> QED BY <1>1, <2>1, SecretKinds
        DEF SecretStays, SecretCollected, SecretDeletedByPass, SecretWritten
  <1>2. \/ read' \in {read, None}
        \/ key \in Names /\ secret'[key] # None /\ read' = secret'[key]
    <2>1. CASE GetSecret
      BY <2>1 DEF GetSecret, WorkerStep, Judge, TypeOK
    <2>2. CASE CreateSecret
      <3>1. CASE PutSecret(key, NewSecret(obj)) /\ Judge(secret'[key])
        <4>1. key \in Names /\ obj \in SealedSecret
          BY <2>2 DEF CreateSecret, WorkerStep, TypeOK
        <4>2. secret'[key] # None
          <5> DEFINE s == [NewSecret(obj) EXCEPT !.rv = revision + 1]
          <5>1. NewSecret(obj) \in Secret /\ revision + 1 \in Nat
            BY <4>1, NewSecretTyped DEF TypeOK, ClusterTypeOK
          <5>2. s \in Secret
            BY <5>1 DEF Secret
          <5>3. secret' = [secret EXCEPT ![key] = s] /\ secret \in [Names -> Secret \cup {None}]
            BY <3>1 DEF PutSecret, TypeOK, ClusterTypeOK
          <5> HIDE DEF s
          <5>4. secret'[key] \in Secret
            BY <4>1, <5>2, <5>3
          <5> QED BY <5>4, ClusterAssumption
        <4> QED BY <3>1, <4>1, <4>2 DEF Judge
      <3>2. CASE UNCHANGED read
        BY <3>2
      <3> QED BY <2>2, <3>1, <3>2 DEF CreateSecret
    <2>3. CASE Restart \/ Finish
      BY <2>3 DEF Restart, Finish
    <2>4. CASE TakeKey \/ Fetch \/ DeleteSecret \/ UpdateSecret \/ UpdateStatus \/ CallFails
               \/ StatusFails
      BY <2>4 DEF TakeKey, Fetch, DeleteSecret, UpdateSecret, UpdateStatus, CallFails,
                  StatusFails
    <2>5. ASSUME NEW m \in Names,
                 \/ Informers(m) \/ Backoff(m) \/ GarbageCollected(m)
                 \/ Users(m) \/ LookupFails(m) \/ Relist(m)
          PROVE  read' \in {read, None}
      BY <2>5 DEF Informers, DeliverSealedSecret, SecretDeleted, Restart, Backoff,
                  GarbageCollected, Users, LookupFails, Relist
    <2>6. CASE UNCHANGED vars
      BY <2>6 DEF vars
    <2>7. CASE Crash
      BY <2>3, <2>7 DEF Crash
    <2> QED BY <2>1, <2>2, <2>3, <2>4, <2>5, <2>6, <2>7 DEF Next, Worker
  <1>3. ASSUME read' # None PROVE ~IsAnnotatedToBePatched(read')
    <2>1. CASE read' = read
      BY <1>3, <2>1 DEF Unpatched
    <2>2. CASE key \in Names /\ secret'[key] # None /\ read' = secret'[key]
      BY <1>1, <2>2
    <2> QED BY <1>2, <1>3, <2>1, <2>2
  <1> QED BY <1>1, <1>3 DEF Unpatched, IsAnnotatedToBePatched

-----------------------------------------------------------------------------
(* Which SealedSecrets become synced.                                      *)

\* Versions that differ in scope and status at most.
Observed == \A n \in Names : ss[n] # None => ss[n].observed <= ss[n].generation

LEMMA WhoCreates ==
  ASSUME CopiesInv, [Next]_vars, NEW n \in Names, ss'[n] # None
  PROVE  \/ ss[n] # None /\ ss'[n].uid = ss[n].uid
         \/ ss'[n].synced = Unset /\ ss'[n].observed = 0 /\ ss'[n].uid = revision + 1
  <1>1. CASE ss'[n] = ss[n]
    BY <1>1
  <1>2. CASE StatusIsWritten
    <2>1. StatusWritten
      BY <1>2, StatusIsFit
    <2> QED BY <1>1, <2>1 DEF StatusWritten, SameVersion
  <1>3. ASSUME NEW m \in Names, UserPuts(m)
        PROVE  \/ ss[n] # None /\ ss'[n].uid = ss[n].uid
               \/ ss'[n].synced = Unset /\ ss'[n].observed = 0 /\ ss'[n].uid = revision + 1
    <2>1. TypeOK
      BY DEF CopiesInv
    <2>2. PICK o \in SealedSecret :
            /\ PutSealedSecret(m, o)
            /\ \/ ss[m] # None /\ o.uid = ss[m].uid
               \/ o.synced = Unset /\ o.observed = 0 /\ o.uid = revision + 1
      BY <1>3, <2>1, UserPutsObject
    <2>3. CASE n # m
      BY <1>1, <2>1, <2>2, <2>3, PutMoves
    <2>4. CASE n = m
      <3>1. PICK new \in SealedSecret :
               /\ new # None /\ new.rv = revision + 1
               /\ SameVersion(new, o) /\ new.synced = o.synced /\ new.observed = o.observed
               /\ ss'[m] = new
               /\ ssWatch'[m] = Append(ssWatch[m], [type |-> "put", object |-> new])
        BY <2>1, <2>2, PutMoves
      <3> QED BY <2>2, <2>4, <3>1 DEF SameVersion
    <2> QED BY <2>3, <2>4
  <1>4. CASE OthersAct
    <2>1. ASSUME NEW m \in Names, UserDeletesSealedSecret(m) PROVE ss'[n] = ss[n]
      BY <2>1 DEF UserDeletesSealedSecret, CopiesInv, TypeOK, ClusterTypeOK
    <2>2. ASSUME NEW m \in Names,
                 RelistSealedSecret(m, cache[m]) \/ DeliverSealedSecret(m)
          PROVE  ss'[n] = ss[n]
      BY <2>2 DEF RelistSealedSecret, DeliverSealedSecret
    <2> QED BY <1>1, <1>3, <1>4, <2>1, <2>2 DEF OthersAct
  <1>5. CASE Restart \/ Fetch \/ Between \/ Elsewhere
    <2>1. ss' = ss
      BY <1>5 DEF Restart, Fetch, Between, Elsewhere, StoreStays
    <2> QED BY <1>1, <2>1
  <1> QED BY <1>2, <1>4, <1>5, CopyKinds DEF CopiesInv

LEMMA NextObserved ==
  ASSUME CopiesInv, Observed, [Next]_vars
  PROVE  Observed'
  <1> SUFFICES ASSUME NEW n \in Names, ss'[n] # None
               PROVE  ss'[n].observed <= ss'[n].generation
    BY DEF Observed
  <1>1. ss'[n] \in SealedSecret
    BY NextCopies DEF CopiesInv, TypeOK, ClusterTypeOK
  <1>2. ss'[n].observed \in Nat /\ ss'[n].generation \in Nat
    BY <1>1, SealedSecretTyped
  <1>3. CASE ss'[n].observed = 0
    BY <1>2, <1>3
  <1>4. CASE ss[n] # None /\ ss'[n].uid = ss[n].uid
    <2>1. CASE StatusWritten /\ n = key
      BY <1>2, <2>1 DEF StatusWritten, SameVersion
    <2>2. CASE /\ ss'[n].observed = ss[n].observed
               /\ ss'[n].generation \in {ss[n].generation, ss[n].generation + 1}
      <3>1. ss[n].observed <= ss[n].generation
        BY <1>4 DEF Observed
      <3>2. ss[n].observed \in Nat /\ ss[n].generation \in Nat
        BY <1>4, CopiesTyped, SealedSecretTyped DEF CopiesInv
      <3> QED BY <2>2, <3>1, <3>2
    <2> QED BY <1>4, <2>1, <2>2, WhoWritesStatus
  <1> QED BY <1>3, <1>4, WhoCreates

Synced(n) == ss[n] # None /\ ss[n].synced = "True" /\ ss[n].observed = ss[n].generation

LEMMA WhoSyncs ==
  ASSUME CopiesInv, Observed, [Next]_vars, NEW n \in Names, Synced(n)'
  PROVE  \/ StatusWritten /\ n = key /\ err = "none"
         \/ Synced(n) /\ ss'[n].uid = ss[n].uid /\ ss'[n].spec = ss[n].spec
  <1>1. ss'[n] # None /\ ss'[n].synced = "True" /\ ss'[n].observed = ss'[n].generation
    BY DEF Synced
  <1>2. ss[n] # None /\ ss'[n].uid = ss[n].uid
    BY <1>1, WhoCreates DEF Unset
  <1>3. CASE StatusWritten /\ n = key
    BY <1>1, <1>3 DEF StatusWritten, NewStatus
  <1>4. CASE /\ ss'[n].synced = ss[n].synced /\ ss'[n].observed = ss[n].observed
             /\ \/ ss'[n].generation = ss[n].generation + 1
                \/ ss'[n].generation = ss[n].generation /\ ss'[n].spec = ss[n].spec
    <2>1. ss[n].observed <= ss[n].generation
      BY <1>2 DEF Observed
    <2>2. ss[n].observed \in Nat /\ ss[n].generation \in Nat
      BY <1>2, CopiesTyped, SealedSecretTyped DEF CopiesInv
    <2>3. ss'[n].generation # ss[n].generation + 1
      BY <1>1, <1>4, <2>1, <2>2
    <2> QED BY <1>1, <1>2, <1>4, <2>3 DEF Synced
  <1> QED BY <1>1, <1>2, <1>3, <1>4, WhoWritesStatus

-----------------------------------------------------------------------------
(* A pass that is about to report success has its Secret in place.         *)

Ready ==
    pc = "status" /\ err = "none" /\ ss[key] # None /\ ss[key].uid = obj.uid
        => Fits(secret[key], obj)

LEMMA WhoReports ==
  ASSUME [Next]_vars, pc' = "status"
  PROVE  \/ GetSecret \/ CreateSecret \/ UpdateSecret \/ err' = "retry"
         \/ UNCHANGED <<pc, key, obj, err>>
  <1>1. Worker => GetSecret \/ CreateSecret \/ UpdateSecret \/ err' = "retry"
    BY DEF Worker, TakeKey, Fetch, DeleteSecret, UpdateStatus, Finish
  <1>2. CallFails => err' = "retry"
    BY DEF CallFails
  <1>3. ~StatusFails /\ ~Restart /\ ~Crash
    BY DEF StatusFails, Restart, Crash
  <1>4. ASSUME NEW n \in Names,
               \/ Informers(n) \/ Backoff(n) \/ GarbageCollected(n)
               \/ Users(n) \/ LookupFails(n) \/ Relist(n)
        PROVE  UNCHANGED <<pc, key, obj, err>>
    BY <1>3, <1>4 DEF Informers, DeliverSealedSecret, SecretDeleted, Backoff, GarbageCollected,
                      Users, LookupFails, Relist
  <1>5. UNCHANGED vars => UNCHANGED <<pc, key, obj, err>>
    BY DEF vars
  <1> QED BY <1>1, <1>2, <1>3, <1>4, <1>5 DEF Next

LEMMA NextReady ==
  ASSUME SecretsLeftAlone, CopiesInv, Unpatched, Ready, [Next]_vars
  PROVE  Ready'
  <1> SUFFICES ASSUME pc' = "status", err' = "none", ss'[key'] # None, ss'[key'].uid = obj'.uid
               PROVE  Fits(secret'[key'], obj')
    BY DEF Ready, Fits, Holds
  <1> USE DEF CopiesInv
  <1>1. CASE GetSecret
    <2>1. /\ key \in Names /\ obj \in SealedSecret /\ UNCHANGED <<key, obj, secret>>
          /\ secret[key] # None /\ Judge(secret[key]) /\ secret[key] \in Secret
      BY <1>1 DEF GetSecret, WorkerStep, TypeOK, ClusterTypeOK
    <2>2. Target(secret[key], obj) = secret[key]
      BY <2>1 DEF Judge
    <2>3. ~IsAnnotatedToBePatched(secret[key])
      BY <2>1 DEF Unpatched
    <2>4. Fits(secret[key], obj)
      BY <2>1, <2>2, <2>3, TargetFits
    <2> QED BY <2>1, <2>4
  <1>2. ASSUME \/ pc = "create" /\ PutSecret(key, NewSecret(obj))
               \/ pc = "update" /\ PutSecret(key, Target(read, obj)),
               UNCHANGED <<key, obj>>
        PROVE  Fits(secret'[key'], obj')
    BY <1>2, PassWritesSecret DEF SecretWritten
  <1>3. CASE CreateSecret
    BY <1>2, <1>3 DEF CreateSecret, WorkerStep
  <1>4. CASE UpdateSecret
    BY <1>2, <1>4 DEF UpdateSecret, WorkerStep
  <1>5. CASE UNCHANGED <<pc, key, obj, err>>
    <2>1. key \in Names /\ obj \in SealedSecret /\ obj.uid <= revision /\ revision \in Nat
      BY <1>5, CopiesTyped DEF TypeOK, Versions, Known
    <2>2. ss[key] # None /\ ss[key].uid = obj.uid
      <3>1. ss'[key] # None /\ ss'[key].uid = obj.uid
        BY <1>5
      <3>2. ss'[key].uid # revision + 1
        BY <2>1, <3>1, SealedSecretTyped
      <3> QED BY <2>1, <3>1, <3>2, WhoCreates
    <2>3. Fits(secret[key], obj)
      BY <1>5, <2>2 DEF Ready
    <2>4. ~Orphaned(key)
      BY <2>2, <2>3 DEF Fits, Orphaned
    <2>5. secret'[key] = secret[key]
      BY <1>5, <2>1, <2>4, SecretKinds
         DEF SecretStays, SecretCollected, SecretDeletedByPass, SecretWritten
    <2> QED BY <1>5, <2>3, <2>5
  <1> QED BY <1>1, <1>3, <1>4, <1>5, WhoReports

-----------------------------------------------------------------------------
(* The worker waits until the initial list has been delivered.             *)

Listed ==
    /\ pc # "idle" => listing = {}
    /\ \A n \in listing : ssWatch[n] # << >>

\* Steps that at most add an event to those on their way.
WatchGrows ==
    /\ UNCHANGED listing
    /\ pc = "idle" => pc' = "idle" \/ listing = {}
    /\ \/ UNCHANGED ssWatch
       \/ \E m \in Names : \E e : ssWatch' = [ssWatch EXCEPT ![m] = Append(ssWatch[m], e)]

LEMMA WatchMoves ==
  ASSUME TypeOK, [Next]_vars
  PROVE  WatchGrows \/ Restart \/ \E m \in Names : DeliverSealedSecret(m) \/ Relist(m)
  <1>1. CASE UNCHANGED vars
    <2>1. UNCHANGED <<listing, pc, ssWatch>>
      BY <1>1 DEF vars
    <2> QED BY <2>1 DEF WatchGrows
  <1>2. CASE TakeKey \/ Fetch \/ GetSecret \/ Finish
    <2>1. UNCHANGED <<listing, ssWatch>> /\ (pc = "idle" => pc' = "idle" \/ listing = {})
      BY <1>2 DEF TakeKey, Fetch, GetSecret, Finish, WorkerStep, HasSynced
    <2> QED BY <2>1 DEF WatchGrows
  <1>3. CASE DeleteSecret \/ CreateSecret \/ UpdateSecret \/ CallFails
    <2>1. UNCHANGED <<listing, ssWatch>> /\ pc # "idle"
      BY <1>3 DEF DeleteSecret, CreateSecret, UpdateSecret, CallFails, WorkerStep, Calls,
                  PutSecret, RemoveSecret, NoEffect
    <2> QED BY <2>1 DEF WatchGrows
  <1>4. CASE UpdateStatus \/ StatusFails
    <2>1. UNCHANGED listing /\ pc = "status" /\ key \in Names
      BY <1>4 DEF UpdateStatus, StatusFails, WorkerStep, TypeOK
    <2>2. UNCHANGED ssWatch \/ PutSealedSecret(key, WithStatus(ss[key]))
      BY <1>4 DEF UpdateStatus, StatusFails, NoEffect
    <2> QED BY <2>1, <2>2 DEF WatchGrows, PutSealedSecret
  <1>5. ASSUME NEW n \in Names, Users(n) PROVE WatchGrows
    <2>1. UNCHANGED <<listing, pc>>
      BY <1>5 DEF Users
    <2>2. \/ UNCHANGED ssWatch
          \/ \E e : ssWatch' = [ssWatch EXCEPT ![n] = Append(ssWatch[n], e)]
      BY <1>5 DEF Users, UserCreatesSealedSecret, UserUpdatesSpec, UserUpdatesScope,
                  UserDeletesSealedSecret, UserDeletesSecret, UserWritesSecret,
                  PutSealedSecret, PutSecret, RemoveSecret
    <2> QED BY <2>1, <2>2 DEF WatchGrows
  <1>6. ASSUME NEW n \in Names,
               SecretDeleted(n) \/ Backoff(n) \/ GarbageCollected(n) \/ LookupFails(n)
        PROVE  WatchGrows \/ Restart
    <2>1. Restart \/ UNCHANGED <<listing, pc, ssWatch>>
      BY <1>6 DEF SecretDeleted, Backoff, GarbageCollected, LookupFails, CollectGarbage,
                  RemoveSecret
    <2> QED BY <2>1 DEF WatchGrows
  <1>7. CASE Crash
    BY <1>7 DEF Crash
  <1> QED BY <1>1, <1>2, <1>3, <1>4, <1>5, <1>6, <1>7 DEF Next, Worker, Informers

LEMMA AppendIsNotEmpty ==
  ASSUME NEW q \in Seq(SealedSecretEvent), NEW e
  PROVE  Append(q, e) # << >>
  <1>1. Len(q) \in Nat /\ Len(Append(q, e)) = Len(q) + 1
    OBVIOUS
  <1>2. Len(<< >>) = 0
    OBVIOUS
  <1>3. Len(q) + 1 # 0
    BY <1>1
  <1> QED BY <1>1, <1>2, <1>3

LEMMA NextListed ==
  ASSUME TypeOK, Listed, [Next]_vars
  PROVE  Listed'
  <1>1. CASE WatchGrows
    <2>1. pc' # "idle" => listing' = {}
      BY <1>1 DEF WatchGrows, Listed
    <2>2. ASSUME NEW n \in listing' PROVE ssWatch'[n] # << >>
      <3>1. n \in listing /\ n \in Names /\ ssWatch[n] # << >>
        BY <1>1, <2>2 DEF WatchGrows, Listed, TypeOK
      <3>2. ASSUME NEW m \in Names, NEW e,
                   ssWatch' = [ssWatch EXCEPT ![m] = Append(ssWatch[m], e)]
            PROVE  ssWatch'[n] # << >>
        <4>1. ssWatch[n] \in Seq(SealedSecretEvent)
          BY <3>1, CopiesTyped
        <4>2. Append(ssWatch[n], e) # << >>
          BY <4>1, AppendIsNotEmpty
        <4>3. ssWatch'[n] = IF n = m THEN Append(ssWatch[n], e) ELSE ssWatch[n]
          BY <3>1, <3>2, CopiesTyped
        <4> QED BY <3>1, <4>2, <4>3
      <3> QED BY <1>1, <3>1, <3>2 DEF WatchGrows
    <2> QED BY <2>1, <2>2 DEF Listed
  <1>2. CASE Restart
    BY <1>2 DEF Restart, Listed
  <1>3. ASSUME NEW m \in Names, DeliverSealedSecret(m) PROVE Listed'
    <2>1. /\ UNCHANGED pc /\ listing' = listing \ {m}
          /\ \A n \in Names \ {m} : ssWatch'[n] = ssWatch[n]
      BY <1>3, CopiesTyped DEF DeliverSealedSecret
    <2> QED BY <2>1 DEF Listed, TypeOK
  <1>4. ASSUME NEW m \in Names, Relist(m) PROVE Listed'
    <2>1. /\ UNCHANGED pc
          /\ listing' = IF ssWatch'[m] = << >> THEN listing \ {m} ELSE listing
          /\ \A n \in Names \ {m} : ssWatch'[n] = ssWatch[n]
      BY <1>4, CopiesTyped DEF Relist, RelistSealedSecret, RelistSecret
    <2> QED BY <2>1 DEF Listed, TypeOK
  <1> QED BY <1>1, <1>2, <1>3, <1>4, WatchMoves

-----------------------------------------------------------------------------
(* Once a SealedSecret is synced, every copy of it is of the same spec.    *)

Same(o, n) == o.uid = ss[n].uid /\ o.spec = ss[n].spec

EventsSettled(n) ==
    \A i \in DOMAIN ssWatch[n] : ssWatch[n][i].type = "put" /\ Same(ssWatch[n][i].object, n)
CacheSettled(n) == IF cache[n] = None THEN n \in listing ELSE Same(cache[n], n)
PassSettled(n) == key = n => pc # "delete" /\ (obj # None => Same(obj, n))
SecretSettled(n) == Fits(secret[n], ss[n])

Settled ==
    \A n \in Names : Synced(n) =>
        SecretSettled(n) /\ EventsSettled(n) /\ CacheSettled(n) /\ PassSettled(n)

\* A step that leaves the SealedSecret's spec as it is.
SpecStays(n) ==
    /\ ss[n] # None /\ ss'[n] # None
    /\ ss'[n].uid = ss[n].uid /\ ss'[n].spec = ss[n].spec

LEMMA EventsKinds ==
  ASSUME CopiesInv, [Next]_vars, NEW n \in Names, SpecStays(n)
  PROVE  \/ ssWatch'[n] = ssWatch[n]
         \/ ssWatch'[n] = Append(ssWatch[n], [type |-> "put", object |-> ss'[n]])
         \/ ssWatch'[n] = <<[type |-> "put", object |-> ss'[n]]>>
         \/ DeliverSealedSecret(n)
  <1> USE DEF CopiesInv
  <1>1. CASE Fetch \/ Between \/ Elsewhere
    BY <1>1 DEF Fetch, WorkerStep, Between, Elsewhere, StoreStays, clusterVars
  <1>2. CASE Restart
    BY <1>2 DEF Restart, SpecStays
  <1>3. CASE StatusIsWritten
    <2>1. StatusWritten
      BY <1>3, StatusIsFit
    <2> QED BY <2>1 DEF StatusWritten
  <1>4. ASSUME NEW m \in Names, UserPuts(m)
        PROVE  \/ ssWatch'[n] = ssWatch[n]
               \/ ssWatch'[n] = Append(ssWatch[n], [type |-> "put", object |-> ss'[n]])
    <2>1. \E o \in SealedSecret : PutSealedSecret(m, o)
      BY <1>4, UserPutsObject
    <2> QED BY <2>1, PutMoves
  <1>5. ASSUME NEW m \in Names, UserDeletesSealedSecret(m) PROVE ssWatch'[n] = ssWatch[n]
    BY <1>5, CopiesTyped DEF UserDeletesSealedSecret, SpecStays
  <1>6. ASSUME NEW m \in Names, RelistSealedSecret(m, cache[m])
        PROVE  \/ ssWatch'[n] = ssWatch[n]
               \/ ssWatch'[n] = <<[type |-> "put", object |-> ss'[n]]>>
    BY <1>6, CopiesTyped DEF RelistSealedSecret, SpecStays
  <1>7. ASSUME NEW m \in Names, DeliverSealedSecret(m)
        PROVE  ssWatch'[n] = ssWatch[n] \/ DeliverSealedSecret(n)
    BY <1>7, CopiesTyped DEF DeliverSealedSecret
  <1> QED BY <1>1, <1>2, <1>3, <1>4, <1>5, <1>6, <1>7, CopyKinds DEF OthersAct

LEMMA EventsStaySettled ==
  ASSUME CopiesInv, [Next]_vars, NEW n \in Names, SpecStays(n), EventsSettled(n)
  PROVE  EventsSettled(n)'
  <1> SUFFICES ASSUME NEW i \in DOMAIN ssWatch'[n]
               PROVE  /\ ssWatch'[n][i].type = "put"
                      /\ ssWatch'[n][i].object.uid = ss'[n].uid
                      /\ ssWatch'[n][i].object.spec = ss'[n].spec
    BY DEF EventsSettled, Same
  <1> DEFINE put == [type |-> "put", object |-> ss'[n]]
  <1>1. \A o : Same(o, n) => o.uid = ss'[n].uid /\ o.spec = ss'[n].spec
    BY DEF Same, SpecStays
  <1>2. ssWatch[n] \in Seq(SealedSecretEvent) /\ put.type = "put" /\ put.object = ss'[n]
    BY CopiesTyped DEF CopiesInv
  <1> HIDE DEF put
  <1>3. (\E j \in DOMAIN ssWatch[n] : ssWatch'[n][i] = ssWatch[n][j]) \/ ssWatch'[n][i] = put
    <2>1. CASE ssWatch'[n] = ssWatch[n]
      BY <2>1
    <2>2. CASE ssWatch'[n] = Append(ssWatch[n], put)
      BY <1>2, <2>2, AppendEvent
    <2>3. CASE ssWatch'[n] = <<put>>
      BY <2>3
    <2>4. CASE DeliverSealedSecret(n)
      <3>1. ssWatch[n] # << >> /\ ssWatch'[n] = Tail(ssWatch[n])
        BY <2>4, CopiesTyped DEF DeliverSealedSecret, CopiesInv
      <3> QED BY <1>2, <3>1, TailEvent
    <2> QED BY <2>1, <2>2, <2>3, <2>4, EventsKinds DEF put
  <1> QED BY <1>1, <1>2, <1>3 DEF EventsSettled

\* A copy that is restated is still a copy of the same spec.
LEMMA RestatedIsSame ==
  ASSUME TypeOK, NEW n \in Names, SpecStays(n), NEW o \in SealedSecret \cup {None}, NEW p,
         Restated(p, o), o # None => Same(o, n)
  PROVE  /\ p = None <=> o = None
         /\ p # None => p.uid = ss'[n].uid /\ p.spec = ss'[n].spec
  BY CopiesTyped DEF Restated, SameVersion, Same, SpecStays

\* What is delivered while every event is settled.
LEMMA DeliveredIsSettled ==
  ASSUME TypeOK, NEW n \in Names, EventsSettled(n), DeliverSealedSecret(n)
  PROVE  /\ cache'[n] # None /\ Same(cache'[n], n)
         /\ UNCHANGED <<ss, key, obj, pc>>
  <1>1. /\ ssWatch[n] # << >> /\ ssWatch[n] \in Seq(SealedSecretEvent)
        /\ UNCHANGED <<ss, key, obj, pc>>
    BY CopiesTyped DEF DeliverSealedSecret
  <1>2. Head(ssWatch[n]) = ssWatch[n][1] /\ 1 \in DOMAIN ssWatch[n]
    BY <1>1
  <1>3. /\ Head(ssWatch[n]).type = "put" /\ Same(Head(ssWatch[n]).object, n)
        /\ Head(ssWatch[n]).object # None
    BY <1>2, CopiesTyped DEF EventsSettled
  <1>4. cache' = [cache EXCEPT ![n] = Head(ssWatch[n]).object]
    BY <1>3 DEF DeliverSealedSecret, DeliverPut
  <1> QED BY <1>1, <1>3, <1>4, CopiesTyped

LEMMA CacheStaysSettled ==
  ASSUME CopiesInv, Listed, [Next]_vars, NEW n \in Names, SpecStays(n),
         EventsSettled(n), CacheSettled(n)
  PROVE  IF cache'[n] = None THEN n \in listing'
         ELSE cache'[n].uid = ss'[n].uid /\ cache'[n].spec = ss'[n].spec
  <1> USE DEF CopiesInv
  <1>1. CASE DeliverSealedSecret(n)
    BY <1>1, DeliveredIsSettled DEF Same
  <1>2. CASE Restart
    BY <1>2 DEF Restart, SpecStays
  <1>3. CASE Restated(cache'[n], cache[n])
    <2>1. cache[n] \in SealedSecret \cup {None}
      BY CopiesTyped
    <2>2. /\ cache'[n] = None <=> cache[n] = None
          /\ cache'[n] # None => cache'[n].uid = ss'[n].uid /\ cache'[n].spec = ss'[n].spec
      BY <1>3, <2>1, RestatedIsSame DEF CacheSettled
    <2>3. ASSUME cache[n] = None, ~DeliverSealedSecret(n), ~Restart PROVE n \in listing'
      <3>1. n \in listing /\ ssWatch[n] # << >>
        BY <2>3 DEF CacheSettled, Listed
      <3>2. CASE WatchGrows
        BY <3>1, <3>2 DEF WatchGrows
      <3>3. ASSUME NEW m \in Names, DeliverSealedSecret(m) PROVE n \in listing'
        BY <2>3, <3>1, <3>3 DEF DeliverSealedSecret
      <3>4. ASSUME NEW m \in Names, Relist(m) PROVE n \in listing'
        <4>1. listing' = IF ssWatch'[m] = << >> THEN listing \ {m} ELSE listing
          BY <3>4 DEF Relist
        <4>2. ASSUME n = m PROVE ssWatch'[n] # << >>
          <5>1. ss[n] # None /\ ssWatch[n] # << >>
            BY <3>1 DEF SpecStays
          <5>2. \/ ssWatch'[n] = <<[type |-> "put", object |-> ss[n]]>>
                \/ UNCHANGED ssWatch
            BY <3>4, <4>2, <5>1, CopiesTyped DEF Relist, RelistSealedSecret, RelistSecret
          <5>3. \A e : <<e>> # << >>
            OBVIOUS
          <5> QED BY <5>1, <5>2, <5>3
        <4> QED BY <3>1, <4>1, <4>2
      <3> QED BY <2>3, <3>2, <3>3, <3>4, WatchMoves
    <2> QED BY <1>1, <1>2, <2>2, <2>3
  <1>4. CASE Fetch \/ Between
    <2>1. cache' = cache
      BY <1>4 DEF Fetch, WorkerStep, Between
    <2> QED BY <1>3, <2>1 DEF Restated
  <1>5. CASE StatusIsWritten \/ Elsewhere
    BY <1>3, <1>5 DEF StatusIsWritten, Elsewhere, CopiesStay
  <1>6. CASE OthersAct
    <2>1. ASSUME NEW m \in Names, m # n, DeliverSealedSecret(m) PROVE cache'[n] = cache[n]
      BY <2>1, CopiesTyped DEF DeliverSealedSecret, DeliverPut, DeliverDelete
    <2>2. CASE CopiesStay
      BY <1>3, <2>2 DEF CopiesStay
    <2>3. CASE cache'[n] = cache[n]
      BY <1>3, <2>3 DEF Restated
    <2>4. CopiesStay \/ \E m \in Names : DeliverSealedSecret(m)
      BY <1>6 DEF OthersAct, UserPuts
    <2> QED BY <1>1, <2>1, <2>2, <2>3, <2>4
  <1> QED BY <1>2, <1>4, <1>5, <1>6, CopyKinds

LEMMA PassStaysSettled ==
  ASSUME CopiesInv, Listed, [Next]_vars, NEW n \in Names, SpecStays(n),
         EventsSettled(n), CacheSettled(n), PassSettled(n), key' = n
  PROVE  pc' # "delete" /\ (obj' # None => obj'.uid = ss'[n].uid /\ obj'.spec = ss'[n].spec)
  <1> USE DEF CopiesInv
  <1>1. CASE CopiesStay /\ (pc' = "delete" => pc = "delete")
    <2>1. key = n /\ Restated(obj', obj) /\ obj \in SealedSecret \cup {None}
      BY <1>1, CopiesTyped DEF CopiesStay
    <2> QED BY <1>1, <2>1, RestatedIsSame DEF PassSettled
  <1>2. CASE Fetch
    <2>1. /\ key = n /\ pc = "fetch" /\ obj' = cache[n] /\ UNCHANGED ss
          /\ cache[n] # None => pc' # "delete"
      BY <1>2 DEF Fetch, WorkerStep, clusterVars
    <2>2. cache[n] # None /\ Same(cache[n], n)
      BY <2>1 DEF Listed, CacheSettled
    <2> QED BY <2>1, <2>2 DEF Same
  <1>3. CASE Restart \/ Between
    BY <1>3 DEF Restart, Between
  <1>4. CASE Elsewhere
    BY <1>1, <1>4 DEF Elsewhere
  <1>5. CASE StatusIsWritten
    BY <1>1, <1>5 DEF StatusIsWritten
  <1>6. CASE OthersAct
    <2>1. ASSUME NEW m \in Names, DeliverSealedSecret(m)
          PROVE  CopiesStay \/ UNCHANGED <<ss, key, obj, pc>>
      BY <2>1 DEF DeliverSealedSecret
    <2>2. CASE UNCHANGED <<ss, key, obj, pc>>
      BY <2>2 DEF PassSettled, Same
    <2>3. ASSUME NEW m \in Names, ~DeliverSealedSecret(m),
                 \/ UserPuts(m)
                 \/ UserDeletesSealedSecret(m) /\ CopiesStay /\ UNCHANGED <<pc, listing>>
                 \/ RelistSealedSecret(m, cache[m]) /\ CopiesStay /\ UNCHANGED pc
          PROVE  CopiesStay /\ UNCHANGED pc
      BY <2>3 DEF UserPuts
    <2>4. ASSUME NEW m \in Names, DeliverSealedSecret(m) PROVE UNCHANGED <<ss, key, obj, pc>>
      BY <2>4 DEF DeliverSealedSecret
    <2> QED BY <1>1, <1>6, <2>2, <2>3, <2>4 DEF OthersAct
  <1> QED BY <1>2, <1>3, <1>4, <1>5, <1>6, CopyKinds

LEMMA SecretStaysSettled ==
  ASSUME SecretsLeftAlone, TypeOK, Unpatched, [Next]_vars, NEW n \in Names, SpecStays(n),
         SecretSettled(n), PassSettled(n)
  PROVE  Fits(secret'[n], ss'[n])
  <1>1. \A s : \A o : Fits(s, o) /\ o.uid = ss'[n].uid /\ o.spec = ss'[n].spec => Fits(s, ss'[n])
    BY DEF Fits, Holds
  <1>2. CASE SecretStays(n)
    BY <1>1, <1>2 DEF SecretStays, SecretSettled, SpecStays
  <1>3. ~SecretCollected(n)
    BY DEF SecretCollected, Orphaned, SecretSettled, Fits, SpecStays
  <1>4. ~SecretDeletedByPass(n)
    BY DEF SecretDeletedByPass, PassSettled
  <1>5. CASE SecretWritten(n)
    <2>1. obj # None /\ key = n /\ Fits(secret'[n], obj)
      BY <1>5, CopiesTyped DEF SecretWritten
    <2>2. obj.uid = ss'[n].uid /\ obj.spec = ss'[n].spec
      BY <2>1 DEF PassSettled, Same, SpecStays
    <2> QED BY <1>1, <2>1, <2>2
  <1> QED BY <1>2, <1>3, <1>4, <1>5, SecretKinds

\* The status of a pass that succeeded: it worked on the stored version, as did
\* the informer, and so has every event that is on its way.
LEMMA SuccessSettles ==
  ASSUME CopiesInv, Fresh, Ready, StatusWritten, err = "none", NEW n \in Names, n = key
  PROVE  /\ Fits(secret'[n], ss'[n]) /\ EventsSettled(n)
         /\ cache'[n] # None /\ cache'[n].uid = ss'[n].uid /\ cache'[n].spec = ss'[n].spec
         /\ pc' # "delete" /\ obj'.uid = ss'[n].uid /\ obj'.spec = ss'[n].spec
         /\ SpecStays(n)
  <1> USE DEF CopiesInv
  <1>1. /\ pc = "status" /\ pc' # "delete" /\ obj \in SealedSecret /\ obj # None /\ CopiesStay
        /\ ss[n] # None /\ ss[n].rv = obj.rv /\ secret' = secret
        /\ SameVersion(obj, ss[n]) /\ SameVersion(ss'[n], ss[n]) /\ SpecStays(n)
    BY CopiesTyped DEF StatusWritten, StatusIsWritten, SameVersion, SpecStays
  <1>2. Fits(secret'[n], ss'[n])
    <2>1. Fits(secret[n], obj)
      BY <1>1 DEF Ready, SameVersion
    <2> QED BY <1>1, <2>1 DEF Fits, Holds, SameVersion
  <1>3. Current(cache[n], n) /\ AllRecent(n)
    BY <1>1 DEF Fresh, CopiesFresh, Current
  <1>4. Same(cache[n], n) /\ cache[n] # None /\ Same(obj, n)
    BY <1>1, <1>3 DEF Current, Versions, Known, Same, SameVersion
  <1>5. EventsSettled(n)
    <2> SUFFICES ASSUME NEW i \in DOMAIN ssWatch[n]
                 PROVE  ssWatch[n][i].type = "put" /\ Same(ssWatch[n][i].object, n)
      BY DEF EventsSettled
    <2>1. ssWatch[n][i].type = "put" /\ Current(ssWatch[n][i].object, n)
      BY <1>3 DEF AllRecent, Recent
    <2>2. Known(ssWatch[n][i].object, n)
      BY <2>1 DEF Versions
    <2> QED BY <2>1, <2>2 DEF Current, Known, Same, SameVersion
  <1>6. /\ cache'[n] # None /\ cache'[n].uid = ss'[n].uid /\ cache'[n].spec = ss'[n].spec
        /\ obj'.uid = ss'[n].uid /\ obj'.spec = ss'[n].spec
    <2>1. Restated(cache'[n], cache[n]) /\ Restated(obj', obj)
      BY <1>1 DEF CopiesStay
    <2>2. cache[n] \in SealedSecret
      BY <1>4, CopiesTyped
    <2>3. /\ cache'[n] # None /\ cache'[n].uid = ss'[n].uid /\ cache'[n].spec = ss'[n].spec
      BY <1>1, <1>4, <2>1, <2>2, RestatedIsSame
    <2>4. obj' # None /\ obj'.uid = ss'[n].uid /\ obj'.spec = ss'[n].spec
      BY <1>1, <1>4, <2>1, RestatedIsSame
    <2> QED BY <2>3, <2>4
  <1> QED BY <1>1, <1>2, <1>5, <1>6

HonestInv ==
    CopiesInv /\ Observed /\ Fresh /\ Listed /\ Unpatched /\ Ready /\ Settled

LEMMA NextSettled ==
  ASSUME SecretsLeftAlone, HonestInv, [Next]_vars
  PROVE  Settled'
  <1> USE DEF HonestInv
  <1> SUFFICES ASSUME NEW n \in Names, Synced(n)'
               PROVE  (SecretSettled(n) /\ EventsSettled(n) /\ CacheSettled(n) /\ PassSettled(n))'
    BY DEF Settled
  <1>1. CASE StatusWritten /\ n = key /\ err = "none"
    <2>1. EventsSettled(n)'
      BY <1>1, SuccessSettles, EventsStaySettled
    <2> QED BY <1>1, <2>1, SuccessSettles
            DEF SecretSettled, CacheSettled, PassSettled, Same
  <1>2. CASE Synced(n) /\ ss'[n].uid = ss[n].uid /\ ss'[n].spec = ss[n].spec
    <2>1. SpecStays(n) /\ TypeOK
      BY <1>2 DEF SpecStays, Synced, CopiesInv
    <2>2. SecretSettled(n) /\ EventsSettled(n) /\ CacheSettled(n) /\ PassSettled(n)
      BY <1>2 DEF Settled
    <2>3. SecretSettled(n)'
      BY <2>1, <2>2, SecretStaysSettled DEF SecretSettled
    <2>4. EventsSettled(n)'
      BY <2>1, <2>2, EventsStaySettled
    <2>5. CacheSettled(n)'
      BY <2>1, <2>2, CacheStaysSettled DEF CacheSettled, Same
    <2>6. PassSettled(n)'
      BY <2>1, <2>2, PassStaysSettled DEF PassSettled, Same
    <2> QED BY <2>3, <2>4, <2>5, <2>6
  <1> QED BY <1>1, <1>2, WhoSyncs

LEMMA InitHonest == Init => HonestInv
  <1> SUFFICES ASSUME Init PROVE HonestInv
    OBVIOUS
  <1>1. /\ \A n \in Names : ss[n] = None /\ secret[n] = None
        /\ pc = "idle" /\ listing = {} /\ read = None
    BY DEF Init, ClusterInit
  <1>2. Observed /\ Listed /\ Unpatched /\ Ready /\ Settled
    BY <1>1 DEF Observed, Listed, Unpatched, Ready, Settled, Synced
  <1>3. Fresh
    BY <1>1 DEF Fresh, EventsFresh, CopiesFresh, Recent, Current
  <1> QED BY <1>2, <1>3, InitCopies DEF HonestInv

LEMMA NextHonest == ASSUME SecretsLeftAlone PROVE HonestInv /\ [Next]_vars => HonestInv'
  BY NextCopies, NextObserved, NextFresh, NextListed, NextUnpatched, NextReady, NextSettled
     DEF HonestInv, CopiesInv

(***************************************************************************)
(* Synced at the current generation means that the Secret is there and     *)
(* holds what the SealedSecret seals, as long as users leave Secrets alone *)
(* and no template is annotated to be patched, whatever calls fail,        *)
(* however stale the copies and whenever the process crashes (unseal,      *)
(* updateSealedSecretStatus).                                              *)
(***************************************************************************)
THEOREM SyncedHonestly == ASSUME SecretsLeftAlone PROVE Spec => []SyncedIsHonest
  <1>1. HonestInv => SyncedIsHonest
    BY DEF HonestInv, Settled, Synced, SecretSettled, Fits, SyncedIsHonest
  <1> QED BY <1>1, InitHonest, NextHonest, PTL DEF Spec

=============================================================================
