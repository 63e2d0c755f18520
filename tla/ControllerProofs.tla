---------------------------- MODULE ControllerProofs ----------------------------
(***************************************************************************)
(* Proofs about the reconcile loop, for any number of SealedSecrets, any   *)
(* flags, any number of failures and crashes, and whatever users do: its   *)
(* types first, then what the queue and the worker owe each other, then    *)
(* what a pass may write.                                                  *)
(***************************************************************************)
EXTENDS ControllerProperties, TLAPS

USE DEF clusterVars, queueVars, informerVars, workerVars, historyVars

-----------------------------------------------------------------------------
(* Objects.                                                                *)

LEMMA SpecTyped ==
  ASSUME NEW spec \in Specs
  PROVE  /\ spec.sealedFor \in Scopes /\ spec.items \in Items
         /\ spec.annotations \subseteq Annotations /\ spec.immutable \in BOOLEAN
  BY ClusterAssumption DEF SealedSpec

LEMMA NewSecretTyped ==
  ASSUME NEW o \in SealedSecret
  PROVE  NewSecret(o) \in Secret
  <1>1. o.uid \in Nat /\ o.spec \in Specs
    BY DEF SealedSecret
  <1> QED BY <1>1, SpecTyped DEF NewSecret, Secret

LEMMA MergeTyped ==
  ASSUME NEW old \in Items, NEW new \in Items
  PROVE  Merge(old, new) \in Items
  BY DEF Merge, Items

LEMMA TargetTyped ==
  ASSUME NEW s \in Secret, NEW o \in SealedSecret
  PROVE  Target(s, o) \in Secret
  <1> DEFINE new == NewSecret(o)
  <1>1. new \in Secret
    BY NewSecretTyped
  <1> HIDE DEF new
  <1>2. /\ s.items \in Items /\ new.items \in Items
        /\ new.annotations \subseteq Annotations /\ s.annotations \subseteq Annotations
        /\ new.controller \in Nat
    BY <1>1 DEF Secret
  <1>3. Merge(s.items, new.items) \in Items
    BY <1>2, MergeTyped
  <1>4. Overwritten(s, new) \in Secret
    BY <1>2 DEF Overwritten, Secret
  <1> DEFINE merged == [s EXCEPT !.items = Merge(@, new.items),
                                 !.annotations = @ \cup new.annotations]
  <1>5. merged \in Secret
    BY <1>2, <1>3 DEF Secret
  <1>6. Patched(s, new) \in {merged, [merged EXCEPT !.controller = new.controller]}
    BY DEF Patched
  <1> HIDE DEF merged
  <1>7. Patched(s, new) \in Secret
    BY <1>2, <1>5, <1>6 DEF Secret
  <1> QED BY <1>4, <1>7 DEF Target, new

LEMMA WithStatusTyped ==
  ASSUME NEW o \in SealedSecret, obj \in SealedSecret
  PROVE  WithStatus(o) \in SealedSecret
  BY DEF WithStatus, SealedSecret, NewStatus, ConditionStatus

-----------------------------------------------------------------------------
(* Sequences.                                                              *)

LEMMA AppendTyped ==
  ASSUME NEW S, NEW s \in Seq(S), NEW e \in S
  PROVE  Append(s, e) \in Seq(S)
  OBVIOUS

LEMMA TailTyped ==
  ASSUME NEW S, NEW s \in Seq(S), s # << >>
  PROVE  Head(s) \in S /\ Tail(s) \in Seq(S)
  OBVIOUS

LEMMA SingletonTyped ==
  ASSUME NEW S, NEW e \in S
  PROVE  <<e>> \in Seq(S)
  OBVIOUS

-----------------------------------------------------------------------------
(* The cluster.                                                            *)

LEMMA PutSealedSecretTyped ==
  ASSUME ClusterTypeOK, NEW n \in Names, NEW o \in SealedSecret,
         PutSealedSecret(n, o), ops' \in Nat
  PROVE  ClusterTypeOK'
  <1> DEFINE new == [o EXCEPT !.rv = revision + 1]
             event == [type |-> "put", object |-> new]
  <1>1. revision' = revision + 1 /\ revision \in Nat
    BY DEF PutSealedSecret, ClusterTypeOK
  <1>2. new \in SealedSecret
    BY <1>1 DEF SealedSecret
  <1>3. ss' = [ss EXCEPT ![n] = new] /\ ssWatch' = [ssWatch EXCEPT ![n] = Append(@, event)]
    BY DEF PutSealedSecret
  <1> HIDE DEF new
  <1>4. event \in SealedSecretEvent
    BY <1>2 DEF SealedSecretEvent
  <1> HIDE DEF event
  <1>5. ss' \in [Names -> SealedSecret \cup {None}]
    BY <1>2, <1>3 DEF ClusterTypeOK
  <1>6. Append(ssWatch[n], event) \in Seq(SealedSecretEvent)
    BY <1>4, AppendTyped DEF ClusterTypeOK
  <1>7. ssWatch' \in [Names -> Seq(SealedSecretEvent)]
    BY <1>3, <1>6 DEF ClusterTypeOK
  <1> QED BY <1>1, <1>5, <1>7 DEF ClusterTypeOK, PutSealedSecret

LEMMA PutSecretTyped ==
  ASSUME ClusterTypeOK, NEW n \in Names, NEW s \in Secret, PutSecret(n, s), ops' \in Nat
  PROVE  ClusterTypeOK' /\ secret'[n] \in Secret
  <1> DEFINE new == [s EXCEPT !.rv = revision + 1]
  <1>1. revision' = revision + 1 /\ revision \in Nat /\ secret' = [secret EXCEPT ![n] = new]
    BY DEF PutSecret, ClusterTypeOK
  <1>2. new \in Secret
    BY <1>1 DEF Secret
  <1> HIDE DEF new
  <1>3. secret' \in [Names -> Secret \cup {None}] /\ secret'[n] \in Secret
    BY <1>1, <1>2 DEF ClusterTypeOK
  <1> QED BY <1>1, <1>3 DEF ClusterTypeOK, PutSecret

LEMMA RemoveSecretTyped ==
  ASSUME ClusterTypeOK, NEW n \in Names, secret[n] # None, RemoveSecret(n), ops' \in Nat
  PROVE  ClusterTypeOK'
  <1> DEFINE event == [type |-> "delete", object |-> secret[n]]
  <1>1. event \in SecretEvent
    BY DEF SecretEvent, ClusterTypeOK
  <1>2. /\ secretWatch' = [secretWatch EXCEPT ![n] = Append(@, event)]
        /\ secret' = [secret EXCEPT ![n] = None]
    BY DEF RemoveSecret
  <1> HIDE DEF event
  <1>3. Append(secretWatch[n], event) \in Seq(SecretEvent)
    BY <1>1, AppendTyped DEF ClusterTypeOK
  <1>4. secretWatch' \in [Names -> Seq(SecretEvent)]
    BY <1>2, <1>3 DEF ClusterTypeOK
  <1>5. secret' \in [Names -> Secret \cup {None}]
    BY <1>2 DEF ClusterTypeOK
  <1> QED BY <1>4, <1>5 DEF ClusterTypeOK, RemoveSecret

LEMMA UserTyped ==
  ASSUME ClusterTypeOK, NEW n \in Names,
         \/ UserCreatesSealedSecret(n) \/ UserUpdatesSpec(n) \/ UserUpdatesScope(n)
         \/ UserDeletesSealedSecret(n) \/ UserDeletesSecret(n) \/ UserWritesSecret(n)
  PROVE  ClusterTypeOK'
  <1>1. ops' \in Nat
    <2>1. \E deed : UserActs(deed)
      BY Zenon DEF UserCreatesSealedSecret, UserUpdatesSpec, UserUpdatesScope,
                   UserDeletesSealedSecret, UserDeletesSecret, UserWritesSecret
    <2> QED BY <2>1 DEF UserActs, ClusterTypeOK
  <1>2. CASE UserCreatesSealedSecret(n)
    <2>1. PICK spec \in Specs, scope \in Scopes :
            PutSealedSecret(n, [uid |-> revision + 1, rv |-> 0, generation |-> 1, spec |-> spec,
                                scope |-> scope, synced |-> Unset, observed |-> 0])
      BY <1>2 DEF UserCreatesSealedSecret
    <2>2. [uid |-> revision + 1, rv |-> 0, generation |-> 1, spec |-> spec,
           scope |-> scope, synced |-> Unset, observed |-> 0] \in SealedSecret
      BY DEF ClusterTypeOK, SealedSecret
    <2> QED BY <1>1, <2>1, <2>2, PutSealedSecretTyped
  <1>3. CASE UserUpdatesSpec(n)
    <2>1. PICK spec \in Specs :
            PutSealedSecret(n, [ss[n] EXCEPT !.spec = spec, !.generation = @ + 1])
      BY <1>3 DEF UserUpdatesSpec
    <2>2. ss[n] \in SealedSecret
      BY <1>3 DEF UserUpdatesSpec, ClusterTypeOK
    <2> DEFINE o == ss[n]
               generation == o.generation + 1
    <2>3. [o EXCEPT !.spec = spec, !.generation = generation] \in SealedSecret
      <3>1. generation \in Nat
        BY <2>2 DEF SealedSecret
      <3> HIDE DEF generation, o
      <3>2. o \in SealedSecret
        BY <2>2 DEF o
      <3> QED BY <3>1, <3>2 DEF SealedSecret
    <2> QED BY <1>1, <2>1, <2>3, PutSealedSecretTyped
  <1>4. CASE UserUpdatesScope(n)
    <2>1. PICK scope \in Scopes : PutSealedSecret(n, [ss[n] EXCEPT !.scope = scope])
      BY <1>4 DEF UserUpdatesScope
    <2>2. ss[n] \in SealedSecret
      BY <1>4 DEF UserUpdatesScope, ClusterTypeOK
    <2>3. [ss[n] EXCEPT !.scope = scope] \in SealedSecret
      BY <2>2 DEF SealedSecret
    <2> QED BY <1>1, <2>1, <2>3, PutSealedSecretTyped
  <1>5. CASE UserDeletesSealedSecret(n)
    <2> DEFINE event == [type |-> "delete", object |-> ss[n]]
    <2>1. event \in SealedSecretEvent
      BY <1>5 DEF UserDeletesSealedSecret, SealedSecretEvent, ClusterTypeOK
    <2>2. ssWatch' = [ssWatch EXCEPT ![n] = Append(@, event)] /\ ss' = [ss EXCEPT ![n] = None]
      BY <1>5 DEF UserDeletesSealedSecret
    <2> HIDE DEF event
    <2>3. Append(ssWatch[n], event) \in Seq(SealedSecretEvent)
      BY <2>1, AppendTyped DEF ClusterTypeOK
    <2>4. ssWatch' \in [Names -> Seq(SealedSecretEvent)]
      BY <2>2, <2>3 DEF ClusterTypeOK
    <2>5. ss' \in [Names -> SealedSecret \cup {None}]
      BY <2>2 DEF ClusterTypeOK
    <2> QED BY <1>1, <1>5, <2>4, <2>5 DEF UserDeletesSealedSecret, ClusterTypeOK
  <1>6. CASE UserDeletesSecret(n)
    BY <1>1, <1>6, RemoveSecretTyped DEF UserDeletesSecret
  <1>7. CASE UserWritesSecret(n)
    <2>1. PICK u \in UserSecrets,
               c \in {0} \cup (IF secret[n] = None THEN {} ELSE {secret[n].controller}) :
            PutSecret(n, [rv |-> 0, controller |-> c, items |-> u.items,
                          annotations |-> u.annotations, immutable |-> u.immutable])
      BY <1>7 DEF UserWritesSecret
    <2>2. c \in Nat
      BY DEF ClusterTypeOK, Secret
    <2>3. [rv |-> 0, controller |-> c, items |-> u.items,
           annotations |-> u.annotations, immutable |-> u.immutable] \in Secret
      BY <2>2, ClusterAssumption DEF Secret
    <2> QED BY <1>1, <2>1, <2>3, PutSecretTyped
  <1> QED BY <1>2, <1>3, <1>4, <1>5, <1>6, <1>7

LEMMA RelistTyped ==
  ASSUME ClusterTypeOK, NEW n \in Names, NEW cached \in SealedSecret \cup {None},
         RelistSealedSecret(n, cached) \/ RelistSecret(n)
  PROVE  ClusterTypeOK'
  <1>1. CASE RelistSealedSecret(n, cached)
    <2> DEFINE put == [type |-> "put", object |-> ss[n]]
               tombstone == [type |-> "tombstone", object |-> cached]
    <2>1. ss[n] # None => put \in SealedSecretEvent
      BY DEF ClusterTypeOK, SealedSecretEvent
    <2>2. cached # None => tombstone \in SealedSecretEvent
      BY DEF SealedSecretEvent
    <2>3. PICK news : /\ ssWatch' = [ssWatch EXCEPT ![n] = news]
                      /\ \/ ss[n] # None /\ news = <<put>>
                         \/ cached # None /\ news = <<tombstone>>
                         \/ news = << >>
      BY <1>1 DEF RelistSealedSecret
    <2> HIDE DEF put, tombstone
    <2>4. news \in Seq(SealedSecretEvent)
      <3>1. CASE ss[n] # None /\ news = <<put>>
        BY <2>1, <3>1, SingletonTyped
      <3>2. CASE cached # None /\ news = <<tombstone>>
        BY <2>2, <3>2, SingletonTyped
      <3>3. CASE news = << >>
        BY <3>3
      <3> QED BY <2>3, <3>1, <3>2, <3>3
    <2>5. ssWatch' \in [Names -> Seq(SealedSecretEvent)]
      BY <2>3, <2>4 DEF ClusterTypeOK
    <2> QED BY <1>1, <2>5 DEF RelistSealedSecret, ClusterTypeOK
  <1>2. CASE RelistSecret(n)
    <2> DEFINE head == Head(secretWatch[n])
               tombstone == [head EXCEPT !.type = "tombstone"]
    <2>1. head \in SecretEvent
      BY <1>2, TailTyped DEF RelistSecret, ClusterTypeOK
    <2>2. secretWatch' \in {[secretWatch EXCEPT ![n] = << >>],
                            [secretWatch EXCEPT ![n] = <<tombstone>>]}
      BY <1>2 DEF RelistSecret
    <2> HIDE DEF head
    <2>3. tombstone \in SecretEvent
      BY <2>1 DEF SecretEvent
    <2> HIDE DEF tombstone
    <2>4. <<tombstone>> \in Seq(SecretEvent) /\ << >> \in Seq(SecretEvent)
      BY <2>3, SingletonTyped
    <2>5. secretWatch' \in [Names -> Seq(SecretEvent)]
      BY <2>2, <2>4 DEF ClusterTypeOK
    <2> QED BY <1>2, <2>5 DEF RelistSecret, ClusterTypeOK
  <1> QED BY <1>1, <1>2

-----------------------------------------------------------------------------
(* The work queue.                                                         *)

LEMMA EnqueueTyped ==
  ASSUME WorkQueueTypeOK, NEW n \in Names, Enqueue(n)
  PROVE  queue' \in Seq(Names) /\ dirty' \subseteq Names
  <1>1. Append(queue, n) \in Seq(Names)
    BY AppendTyped DEF WorkQueueTypeOK
  <1> QED BY <1>1 DEF Enqueue, WorkQueueTypeOK

LEMMA AddTyped ==
  ASSUME WorkQueueTypeOK, NEW n \in Names, Add(n)
  PROVE  WorkQueueTypeOK'
  BY EnqueueTyped DEF Add, WorkQueueTypeOK

LEMMA GetTyped ==
  ASSUME WorkQueueTypeOK, Get
  PROVE  WorkQueueTypeOK' /\ Head(queue) \in Names
  <1>1. Head(queue) \in Names /\ Tail(queue) \in Seq(Names)
    BY TailTyped DEF Get, WorkQueueTypeOK
  <1> QED BY <1>1 DEF Get, WorkQueueTypeOK

LEMMA ReturnKeyTyped ==
  ASSUME WorkQueueTypeOK, key \in Names, ReturnKey
  PROVE  WorkQueueTypeOK'
  <1>1. queue' \in Seq(Names) /\ dirty' = dirty /\ processing' \subseteq Names
    <2>1. Append(queue, key) \in Seq(Names)
      BY AppendTyped DEF WorkQueueTypeOK
    <2> QED BY <2>1 DEF ReturnKey, Done, WorkQueueTypeOK
  <1>2. requeues' \in [Names -> Nat] /\ delayed' \subseteq Names
    BY DEF ReturnKey, Forget, AddRateLimited, WorkQueueTypeOK
  <1> QED BY <1>1, <1>2 DEF WorkQueueTypeOK

-----------------------------------------------------------------------------
(* The types of the whole, action by action.                               *)

WorkerTypeOK ==
    /\ pc \in Steps
    /\ key \in Names \cup {None}
    /\ pc # "idle" => key \in Names
    /\ obj \in SealedSecret \cup {None}
    /\ pc \in {"get", "create", "update", "status", "observe"} => obj \in SealedSecret
    /\ read \in Secret \cup {None}
    /\ pc = "update" => read \in Secret
    /\ err \in Errors

HandlerTypeOK ==
    /\ cache \in [Names -> SealedSecret \cup {None}]
    /\ listing \subseteq Names
    /\ gauge \in [Names -> ConditionStatus \cup {Unset}]
    /\ troubles \in Nat
    /\ tried \in [Names -> Specs \cup {None}]
    /\ excuse \in [Names -> SUBSET Excuses]

LEMMA TypeParts ==
  /\ TypeOK <=> ClusterTypeOK /\ WorkQueueTypeOK /\ WorkerTypeOK /\ HandlerTypeOK
  /\ TypeOK' <=> ClusterTypeOK' /\ WorkQueueTypeOK' /\ WorkerTypeOK' /\ HandlerTypeOK'
  BY DEF TypeOK, WorkerTypeOK, HandlerTypeOK

LEMMA UnchangedTyped ==
  /\ ClusterTypeOK /\ UNCHANGED clusterVars => ClusterTypeOK'
  /\ WorkQueueTypeOK /\ UNCHANGED queueVars => WorkQueueTypeOK'
  /\ WorkerTypeOK /\ UNCHANGED workerVars => WorkerTypeOK'
  /\ HandlerTypeOK /\ UNCHANGED <<informerVars, gauge, troubles, historyVars>>
     => HandlerTypeOK'
  BY DEF ClusterTypeOK, WorkQueueTypeOK, WorkerTypeOK, HandlerTypeOK

LEMMA InitTyped == Init => TypeOK
  <1> SUFFICES ASSUME Init PROVE TypeOK
    OBVIOUS
  <1>1. ClusterTypeOK
    BY DEF Init, ClusterInit, ClusterTypeOK
  <1>2. WorkQueueTypeOK
    BY DEF Init, WorkQueueInit, WorkQueueTypeOK
  <1>3. WorkerTypeOK
    BY DEF Init, WorkerTypeOK, Steps, Errors
  <1>4. HandlerTypeOK
    BY DEF Init, HandlerTypeOK
  <1> QED BY <1>1, <1>2, <1>3, <1>4, TypeParts

LEMMA RestartTyped ==
  ASSUME TypeOK, Restart, troubles' \in Nat
  PROVE  TypeOK'
  <1>1. \A n \in Names : ss[n] # None => <<[type |-> "put", object |-> ss[n]]>>
                                            \in Seq(SealedSecretEvent)
    <2> SUFFICES ASSUME NEW n \in Names, ss[n] # None
                 PROVE  <<[type |-> "put", object |-> ss[n]]>> \in Seq(SealedSecretEvent)
      OBVIOUS
    <2>1. [type |-> "put", object |-> ss[n]] \in SealedSecretEvent
      BY DEF TypeOK, ClusterTypeOK, SealedSecretEvent
    <2> QED BY <2>1, SingletonTyped
  <1>2. ssWatch' \in [Names -> Seq(SealedSecretEvent)]
    BY <1>1 DEF Restart
  <1>3. ClusterTypeOK'
    BY <1>2 DEF Restart, TypeOK, ClusterTypeOK
  <1>4. WorkQueueTypeOK'
    BY DEF Restart, WorkQueueTypeOK
  <1>5. WorkerTypeOK'
    BY DEF Restart, WorkerTypeOK, Steps, Errors
  <1>6. HandlerTypeOK'
    BY DEF Restart, HandlerTypeOK
  <1> QED BY <1>3, <1>4, <1>5, <1>6, TypeParts

LEMMA DeliverTyped ==
  ASSUME TypeOK, NEW n \in Names, DeliverSealedSecret(n)
  PROVE  TypeOK'
  <1> DEFINE event == Head(ssWatch[n])
  <1>1. event \in SealedSecretEvent /\ Tail(ssWatch[n]) \in Seq(SealedSecretEvent)
    BY TailTyped DEF DeliverSealedSecret, TypeOK, ClusterTypeOK
  <1>2. event.object \in SealedSecret
    BY <1>1 DEF SealedSecretEvent
  <1>3. DeliverPut(n, event.object) \/ DeliverDelete(n, event)
    BY DEF DeliverSealedSecret
  <1> HIDE DEF event
  <1>4. ClusterTypeOK'
    <2>1. ssWatch' = [ssWatch EXCEPT ![n] = Tail(@)]
      BY DEF DeliverSealedSecret
    <2>2. ssWatch' \in [Names -> Seq(SealedSecretEvent)]
      BY <1>1, <2>1 DEF TypeOK, ClusterTypeOK
    <2> QED BY <2>2 DEF DeliverSealedSecret, TypeOK, ClusterTypeOK
  <1>5. WorkQueueTypeOK'
    BY <1>3, AddTyped, UnchangedTyped DEF TypeOK, DeliverPut, DeliverDelete
  <1>6. HandlerTypeOK'
    <2>1. cache' \in [Names -> SealedSecret \cup {None}]
      BY <1>2, <1>3 DEF DeliverPut, DeliverDelete, TypeOK
    <2>2. gauge' \in [Names -> ConditionStatus \cup {Unset}]
      BY <1>3 DEF DeliverPut, DeliverDelete, TypeOK
    <2>3. excuse' \in [Names -> SUBSET Excuses]
      BY <1>3 DEF DeliverPut, DeliverDelete, TypeOK, Excuses
    <2> QED BY <2>1, <2>2, <2>3 DEF DeliverSealedSecret, TypeOK, HandlerTypeOK
  <1>7. WorkerTypeOK'
    BY TypeParts, UnchangedTyped DEF DeliverSealedSecret
  <1> QED BY <1>4, <1>5, <1>6, <1>7, TypeParts

LEMMA MissTyped ==
  ASSUME TypeOK, NEW n \in Names, Miss(n)
  PROVE  WorkQueueTypeOK' /\ excuse' \in [Names -> SUBSET Excuses]
  <1>1. excuse' \in [Names -> SUBSET Excuses]
    BY DEF Miss, TypeOK, Excuses
  <1> QED BY <1>1, UnchangedTyped DEF Miss, TypeOK

LEMMA SecretWatchTyped ==
  ASSUME TypeOK, NEW n \in Names, secretWatch[n] # << >>,
         secretWatch' = [secretWatch EXCEPT ![n] = Tail(@)],
         UNCHANGED <<revision, ss, secret, ssWatch, ops>>
  PROVE  ClusterTypeOK'
  <1>1. Tail(secretWatch[n]) \in Seq(SecretEvent)
    BY TailTyped DEF TypeOK, ClusterTypeOK
  <1>2. secretWatch' \in [Names -> Seq(SecretEvent)]
    BY <1>1 DEF TypeOK, ClusterTypeOK
  <1> QED BY <1>2 DEF TypeOK, ClusterTypeOK

LEMMA SecretDeletedTyped ==
  ASSUME TypeOK, NEW n \in Names, SecretDeleted(n)
  PROVE  TypeOK'
  <1>1. CASE Restart
    BY <1>1, RestartTyped DEF SecretDeleted, TypeOK
  <1>2. ASSUME NEW s, FollowDeletion(n, s),
               secretWatch' = [secretWatch EXCEPT ![n] = Tail(@)],
               UNCHANGED <<revision, ss, secret, ssWatch, ops, informerVars,
                           workerVars, gauge, tried>>
        PROVE  TypeOK'
    <2>1. ClusterTypeOK'
      BY <1>2, SecretWatchTyped DEF SecretDeleted
    <2>2. WorkQueueTypeOK' /\ excuse' \in [Names -> SUBSET Excuses]
      BY <1>2, AddTyped, MissTyped, UnchangedTyped DEF FollowDeletion, TypeOK
    <2>3. WorkerTypeOK'
      BY <1>2, TypeParts, UnchangedTyped
    <2>4. HandlerTypeOK'
      BY <1>2, <2>2, TypeParts DEF HandlerTypeOK, SecretDeleted
    <2> QED BY <2>1, <2>2, <2>3, <2>4, TypeParts
  <1> QED BY <1>1, <1>2 DEF SecretDeleted

LEMMA LookupFailsTyped ==
  ASSUME TypeOK, NEW n \in Names, LookupFails(n)
  PROVE  TypeOK'
  <1>1. ClusterTypeOK'
    BY SecretWatchTyped DEF LookupFails
  <1>2. WorkQueueTypeOK' /\ excuse' \in [Names -> SUBSET Excuses]
    BY MissTyped DEF LookupFails
  <1>3. WorkerTypeOK'
    BY TypeParts, UnchangedTyped DEF LookupFails
  <1>4. HandlerTypeOK'
    BY <1>2, TypeParts DEF HandlerTypeOK, LookupFails, Trouble
  <1> QED BY <1>1, <1>2, <1>3, <1>4, TypeParts

LEMMA RelistStepTyped ==
  ASSUME TypeOK, NEW n \in Names, Relist(n)
  PROVE  TypeOK'
  <1>1. ClusterTypeOK'
    BY RelistTyped DEF Relist, TypeOK
  <1>2. WorkQueueTypeOK' /\ WorkerTypeOK'
    BY TypeParts, UnchangedTyped DEF Relist
  <1>3. HandlerTypeOK'
    BY TypeParts DEF HandlerTypeOK, Relist, Trouble
  <1> QED BY <1>1, <1>2, <1>3, TypeParts

LEMMA TakeKeyTyped ==
  ASSUME TypeOK, TakeKey
  PROVE  TypeOK'
  <1>1. WorkQueueTypeOK' /\ key' \in Names
    BY GetTyped DEF TakeKey, TypeOK
  <1>2. WorkerTypeOK'
    BY <1>1 DEF TakeKey, TypeOK, WorkerTypeOK, Steps
  <1>3. ClusterTypeOK' /\ HandlerTypeOK'
    BY TypeParts, UnchangedTyped DEF TakeKey, WorkerStep
  <1> QED BY <1>1, <1>2, <1>3, TypeParts

LEMMA FetchTyped ==
  ASSUME TypeOK, Fetch
  PROVE  TypeOK'
  <1>1. key \in Names /\ cache[key] \in SealedSecret \cup {None}
    BY DEF Fetch, WorkerStep, TypeOK
  <1>2. cache[key] # None => cache[key].spec \in Specs
    BY <1>1 DEF SealedSecret
  <1>3. WorkerTypeOK'
    BY <1>1 DEF Fetch, TypeOK, WorkerTypeOK, Steps, Errors
  <1>4. tried' \in [Names -> Specs \cup {None}] /\ excuse' \in [Names -> SUBSET Excuses]
    BY <1>1, <1>2 DEF Fetch, TypeOK
  <1>5. HandlerTypeOK'
    BY <1>4 DEF Fetch, WorkerStep, TypeOK, HandlerTypeOK
  <1>6. ClusterTypeOK' /\ WorkQueueTypeOK'
    BY TypeParts, UnchangedTyped DEF Fetch
  <1> QED BY <1>3, <1>5, <1>6, TypeParts

LEMMA DeleteSecretTyped ==
  ASSUME TypeOK, DeleteSecret
  PROVE  TypeOK'
  <1>1. key \in Names
    BY DEF DeleteSecret, TypeOK
  <1>3. ClusterTypeOK'
    <2>1. CASE secret[key] = None
      BY <2>1, UnchangedTyped DEF DeleteSecret, TypeOK
    <2>2. CASE secret[key] # None
      BY <1>1, <2>2, RemoveSecretTyped DEF DeleteSecret, TypeOK, ClusterTypeOK
    <2> QED BY <2>1, <2>2
  <1>4. WorkerTypeOK'
    BY DEF DeleteSecret, TypeOK, WorkerTypeOK, Steps
  <1>5. WorkQueueTypeOK' /\ HandlerTypeOK'
    BY TypeParts, UnchangedTyped DEF DeleteSecret
  <1> QED BY <1>3, <1>4, <1>5, TypeParts

LEMMA JudgeTyped ==
  ASSUME NEW s \in Secret, Judge(s)
  PROVE  pc' \in {"update", "status"} /\ read' \in Secret /\ err' \in Errors
  BY DEF Judge, Errors

LEMMA GetSecretTyped ==
  ASSUME TypeOK, GetSecret
  PROVE  TypeOK'
  <1>1. key \in Names /\ obj \in SealedSecret /\ secret[key] \in Secret \cup {None}
    BY DEF GetSecret, WorkerStep, TypeOK, ClusterTypeOK
  <1>2. /\ pc' \in {"create", "update", "status"} /\ err' \in Errors
        /\ read' \in Secret \cup {None}
        /\ pc' = "update" => read' \in Secret
    BY <1>1, JudgeTyped DEF GetSecret, TypeOK
  <1>3. WorkerTypeOK'
    BY <1>1, <1>2 DEF GetSecret, WorkerTypeOK, Steps
  <1>4. ClusterTypeOK' /\ WorkQueueTypeOK' /\ HandlerTypeOK'
    BY TypeParts, UnchangedTyped DEF GetSecret, WorkerStep
  <1> QED BY <1>3, <1>4, TypeParts

LEMMA CreateSecretTyped ==
  ASSUME TypeOK, CreateSecret
  PROVE  TypeOK'
  <1>1. key \in Names /\ obj \in SealedSecret
    BY DEF CreateSecret, WorkerStep, TypeOK
  <1>2. CASE PutSecret(key, NewSecret(obj)) /\ Judge(secret'[key])
    <2>1. ClusterTypeOK' /\ secret'[key] \in Secret
      BY <1>1, <1>2, NewSecretTyped, PutSecretTyped DEF CreateSecret, TypeOK, ClusterTypeOK
    <2>2. pc' \in {"update", "status"} /\ read' \in Secret /\ err' \in Errors
      BY <1>2, <2>1, JudgeTyped
    <2>3. WorkerTypeOK'
      BY <1>1, <2>2 DEF CreateSecret, WorkerTypeOK, Steps
    <2>4. WorkQueueTypeOK' /\ HandlerTypeOK'
      BY TypeParts, UnchangedTyped DEF CreateSecret, WorkerStep
    <2> QED BY <2>1, <2>3, <2>4, TypeParts
  <1>3. CASE /\ pc' = "status" /\ err' = "retry"
             /\ UNCHANGED <<revision, ss, secret, ssWatch, read>>
    <2>1. WorkerTypeOK'
      BY <1>1, <1>3 DEF CreateSecret, TypeOK, WorkerTypeOK, Steps, Errors
    <2>2. ClusterTypeOK' /\ WorkQueueTypeOK' /\ HandlerTypeOK'
      BY <1>3, TypeParts, UnchangedTyped DEF CreateSecret, WorkerStep
    <2> QED BY <2>1, <2>2, TypeParts
  <1> QED BY <1>2, <1>3 DEF CreateSecret

LEMMA UpdateSecretTyped ==
  ASSUME TypeOK, UpdateSecret
  PROVE  TypeOK'
  <1>1. key \in Names /\ obj \in SealedSecret /\ read \in Secret
    BY DEF UpdateSecret, WorkerStep, TypeOK
  <1>2. ClusterTypeOK'
    <2>1. CASE PutSecret(key, Target(read, obj))
      BY <1>1, <2>1, TargetTyped, PutSecretTyped
      DEF UpdateSecret, WorkerStep, TypeOK, ClusterTypeOK
    <2>2. CASE UNCHANGED <<revision, ss, secret, ssWatch>>
      BY <2>2, UnchangedTyped DEF UpdateSecret, WorkerStep, TypeOK
    <2> QED BY <2>1, <2>2 DEF UpdateSecret
  <1>3. WorkerTypeOK'
    BY <1>1 DEF UpdateSecret, WorkerTypeOK, Steps, Errors
  <1>4. WorkQueueTypeOK' /\ HandlerTypeOK'
    BY TypeParts, UnchangedTyped DEF UpdateSecret, WorkerStep
  <1> QED BY <1>2, <1>3, <1>4, TypeParts

LEMMA SetStatusTyped ==
  ASSUME TypeOK, key \in Names, obj \in SealedSecret, SetStatus
  PROVE  obj' \in SealedSecret /\ cache' \in [Names -> SealedSecret \cup {None}]
  <1>1. obj' \in SealedSecret
    BY WithStatusTyped DEF SetStatus
  <1>2. cache[key] # None => WithStatus(cache[key]) \in SealedSecret
    BY WithStatusTyped DEF TypeOK
  <1>3. cache' \in [Names -> SealedSecret \cup {None}]
    BY <1>2 DEF SetStatus, TypeOK
  <1> QED BY <1>1, <1>3

LEMMA PutStatusTyped ==
  ASSUME TypeOK, key \in Names, obj \in SealedSecret, StatusAccepted,
         PutSealedSecret(key, WithStatus(ss[key])), UNCHANGED ops
  PROVE  ClusterTypeOK'
  <1>1. WithStatus(ss[key]) \in SealedSecret
    BY WithStatusTyped DEF StatusAccepted, IsCurrent, TypeOK, ClusterTypeOK
  <1> QED BY <1>1, PutSealedSecretTyped DEF TypeOK, ClusterTypeOK

LEMMA UpdateStatusTyped ==
  ASSUME TypeOK, UpdateStatus
  PROVE  TypeOK'
  <1>1. key \in Names /\ obj \in SealedSecret
    BY DEF UpdateStatus, WorkerStep, TypeOK
  <1>2. ClusterTypeOK'
    <2>1. CASE UNCHANGED <<revision, ss, secret, ssWatch>>
      BY <2>1, UnchangedTyped DEF UpdateStatus, WorkerStep, TypeOK
    <2>2. CASE StatusAccepted /\ PutSealedSecret(key, WithStatus(ss[key]))
      BY <1>1, <2>2, PutStatusTyped DEF UpdateStatus
    <2> QED BY <2>1, <2>2 DEF UpdateStatus
  <1>3. obj' \in SealedSecret /\ cache' \in [Names -> SealedSecret \cup {None}]
    BY <1>1, SetStatusTyped DEF UpdateStatus, TypeOK
  <1>4. WorkerTypeOK'
    BY <1>1, <1>3 DEF UpdateStatus, TypeOK, WorkerTypeOK, Steps
  <1>5. HandlerTypeOK'
    BY <1>3 DEF UpdateStatus, WorkerStep, TypeOK, HandlerTypeOK
  <1>6. WorkQueueTypeOK'
    BY UnchangedTyped DEF UpdateStatus, TypeOK
  <1> QED BY <1>2, <1>4, <1>5, <1>6, TypeParts

LEMMA StatusFailsTyped ==
  ASSUME TypeOK, StatusFails
  PROVE  TypeOK'
  <1>1. key \in Names /\ obj \in SealedSecret
    BY DEF StatusFails, TypeOK
  <1>2. ClusterTypeOK'
    <2>1. CASE NoEffect
      BY <2>1, UnchangedTyped DEF StatusFails, NoEffect, TypeOK
    <2>2. CASE StatusAccepted /\ PutSealedSecret(key, WithStatus(ss[key]))
      BY <1>1, <2>2, PutStatusTyped DEF StatusFails
    <2> QED BY <2>1, <2>2 DEF StatusFails
  <1>3. obj' \in SealedSecret /\ cache' \in [Names -> SealedSecret \cup {None}]
    BY <1>1, SetStatusTyped DEF StatusFails
  <1>4. WorkerTypeOK'
    BY <1>1, <1>3 DEF StatusFails, TypeOK, WorkerTypeOK, Steps
  <1>5. HandlerTypeOK'
    BY <1>3 DEF StatusFails, Trouble, TypeOK, HandlerTypeOK
  <1>6. WorkQueueTypeOK'
    BY UnchangedTyped DEF StatusFails, TypeOK
  <1> QED BY <1>2, <1>4, <1>5, <1>6, TypeParts

LEMMA FinishTyped ==
  ASSUME TypeOK, Finish
  PROVE  TypeOK'
  <1>1. key \in Names /\ (pc = "observe" => obj \in SealedSecret)
    BY DEF Finish, TypeOK
  <1>2. WorkQueueTypeOK'
    BY <1>1, ReturnKeyTyped DEF Finish, TypeOK
  <1>3. gauge' \in [Names -> ConditionStatus \cup {Unset}]
    <2>1. CASE pc = "observe"
      BY <1>1, <2>1 DEF Finish, ObserveCondition, SealedSecret, TypeOK
    <2> QED BY <2>1 DEF Finish, TypeOK
  <1>4. excuse' \in [Names -> SUBSET Excuses]
    BY <1>1 DEF Finish, TypeOK, Excuses
  <1>5. WorkerTypeOK'
    BY DEF Finish, WorkerTypeOK, Steps, Errors
  <1>6. HandlerTypeOK'
    BY <1>3, <1>4 DEF Finish, TypeOK, HandlerTypeOK
  <1>7. ClusterTypeOK'
    BY UnchangedTyped DEF Finish, TypeOK
  <1> QED BY <1>2, <1>5, <1>6, <1>7, TypeParts

LEMMA CallFailsTyped ==
  ASSUME TypeOK, CallFails
  PROVE  TypeOK'
  <1>1. key \in Names /\ pc \in {"get", "create", "update", "delete"}
    BY DEF CallFails, TypeOK, Calls
  <1>2. pc # "delete" => obj \in SealedSecret
    BY <1>1 DEF TypeOK
  <1>3. ClusterTypeOK'
    <2>1. ops' = ops /\ ops' \in Nat /\ ClusterTypeOK
      BY DEF CallFails, TypeOK, ClusterTypeOK
    <2>2. CASE NoEffect
      BY <2>1, <2>2, UnchangedTyped DEF NoEffect
    <2>3. CASE pc = "create" /\ PutSecret(key, NewSecret(obj))
      BY <1>1, <1>2, <2>1, <2>3, NewSecretTyped, PutSecretTyped
    <2>4. CASE pc = "update" /\ PutSecret(key, Target(read, obj))
      <3>1. read \in Secret
        BY <2>4 DEF TypeOK
      <3> QED BY <1>1, <1>2, <2>1, <2>4, <3>1, TargetTyped, PutSecretTyped
    <2>5. CASE secret[key] # None /\ RemoveSecret(key)
      BY <1>1, <2>1, <2>5, RemoveSecretTyped
    <2> QED BY <2>2, <2>3, <2>4, <2>5 DEF CallFails
  <1>4. WorkerTypeOK'
    BY <1>1, <1>2 DEF CallFails, TypeOK, WorkerTypeOK, Steps, Errors
  <1>5. HandlerTypeOK' /\ WorkQueueTypeOK'
    BY TypeParts, UnchangedTyped DEF CallFails, Trouble, TypeOK, HandlerTypeOK
  <1> QED BY <1>3, <1>4, <1>5, TypeParts

LEMMA WorkerStepsTyped == TypeOK /\ Worker => TypeOK'
  BY TakeKeyTyped, FetchTyped, DeleteSecretTyped, GetSecretTyped, CreateSecretTyped,
     UpdateSecretTyped, UpdateStatusTyped, FinishTyped
  DEF Worker

\* The users, the garbage collector and the timers.
LEMMA EnvironmentTyped ==
  ASSUME TypeOK, NEW n \in Names, Users(n) \/ GarbageCollected(n) \/ Backoff(n)
  PROVE  TypeOK'
  <1>1. CASE Users(n)
    <2>1. ClusterTypeOK'
      BY <1>1, UserTyped DEF Users, TypeOK
    <2>2. excuse' \in [Names -> SUBSET Excuses]
      BY <1>1 DEF Users, TypeOK, Excuses
    <2>3. WorkQueueTypeOK' /\ WorkerTypeOK'
      BY <1>1, TypeParts, UnchangedTyped DEF Users
    <2>4. HandlerTypeOK'
      BY <1>1, <2>2, TypeParts DEF Users, HandlerTypeOK
    <2> QED BY <2>1, <2>3, <2>4, TypeParts
  <1>2. CASE GarbageCollected(n)
    <2>1. ClusterTypeOK'
      BY <1>2, RemoveSecretTyped
      DEF GarbageCollected, CollectGarbage, Orphaned, TypeOK, ClusterTypeOK
    <2>2. WorkQueueTypeOK' /\ WorkerTypeOK' /\ HandlerTypeOK'
      BY <1>2, TypeParts, UnchangedTyped DEF GarbageCollected
    <2> QED BY <2>1, <2>2, TypeParts
  <1>3. CASE Backoff(n)
    <2>1. WorkQueueTypeOK'
      BY <1>3, EnqueueTyped DEF Backoff, BackoffElapses, TypeOK, WorkQueueTypeOK
    <2>2. ClusterTypeOK' /\ WorkerTypeOK' /\ HandlerTypeOK'
      BY <1>3, TypeParts, UnchangedTyped DEF Backoff
    <2> QED BY <2>1, <2>2, TypeParts
  <1> QED BY <1>1, <1>2, <1>3

LEMMA NextTyped == TypeOK /\ [Next]_vars => TypeOK'
  <1> SUFFICES ASSUME TypeOK, [Next]_vars PROVE TypeOK'
    OBVIOUS
  <1>1. CASE UNCHANGED vars
    BY <1>1, TypeParts, UnchangedTyped DEF vars
  <1>2. CASE Worker
    BY <1>2, WorkerStepsTyped
  <1>3. CASE CallFails
    BY <1>3, CallFailsTyped
  <1>4. CASE StatusFails
    BY <1>4, StatusFailsTyped
  <1>5. CASE Crash
    BY <1>5, RestartTyped DEF Crash, Trouble, TypeOK
  <1>6. ASSUME NEW n \in Names,
               \/ Informers(n) \/ Backoff(n) \/ GarbageCollected(n)
               \/ Users(n) \/ LookupFails(n) \/ Relist(n)
        PROVE  TypeOK'
    BY <1>6, DeliverTyped, SecretDeletedTyped, EnvironmentTyped, LookupFailsTyped,
       RelistStepTyped
    DEF Informers
  <1> QED BY <1>1, <1>2, <1>3, <1>4, <1>5, <1>6 DEF Next

(***************************************************************************)
(* The reconcile loop keeps its types, whatever fails and whoever acts in  *)
(* between (unseal, processNextItem and the informers' handlers).          *)
(***************************************************************************)
THEOREM TypeCorrect == Spec => []TypeOK
  BY InitTyped, NextTyped, PTL DEF Spec

-----------------------------------------------------------------------------
(* What a step may do to the queue and to the worker's hold on it.         *)

Wakes == \E n \in Names : Add(n) \/ BackoffElapses(n)

LEMMA StepKinds ==
  ASSUME TypeOK, [Next]_vars
  PROVE  \/ Wakes /\ UNCHANGED <<pc, key>>
         \/ UNCHANGED queueVars /\ key' = key /\ (pc = "idle" <=> pc' = "idle")
         \/ TakeKey
         \/ Finish
         \/ Restart
  <1> DEFINE Works == UNCHANGED queueVars /\ key' = key /\ (pc = "idle" <=> pc' = "idle")
  <1>1. CASE UNCHANGED vars
    BY <1>1 DEF vars
  <1>2. CASE Worker
    <2>1. Fetch => Works
      BY DEF Fetch, WorkerStep
    <2>2. DeleteSecret => Works
      BY DEF DeleteSecret
    <2>3. GetSecret => Works
      BY DEF GetSecret, WorkerStep, Judge
    <2>4. CreateSecret => Works
      BY DEF CreateSecret, WorkerStep, Judge
    <2>5. UpdateSecret => Works
      BY DEF UpdateSecret, WorkerStep
    <2>6. UpdateStatus => Works
      BY DEF UpdateStatus, WorkerStep
    <2> QED BY <1>2, <2>1, <2>2, <2>3, <2>4, <2>5, <2>6 DEF Worker
  <1>3. CASE CallFails
    BY <1>3 DEF CallFails, Calls
  <1>4. CASE StatusFails
    BY <1>4 DEF StatusFails
  <1>5. CASE Crash
    BY <1>5 DEF Crash
  <1>6. ASSUME NEW n \in Names,
               \/ Informers(n) \/ Backoff(n) \/ GarbageCollected(n)
               \/ Users(n) \/ LookupFails(n) \/ Relist(n)
        PROVE  \/ Wakes /\ UNCHANGED <<pc, key>>
               \/ Works
               \/ Restart
    <2>1. CASE DeliverSealedSecret(n)
      <3>1. Add(n) \/ UNCHANGED queueVars
        BY <2>1 DEF DeliverSealedSecret, DeliverPut, DeliverDelete
      <3>2. UNCHANGED <<pc, key>>
        BY <2>1 DEF DeliverSealedSecret
      <3> QED BY <3>1, <3>2 DEF Wakes
    <2>2. CASE SecretDeleted(n)
      <3>1. CASE \E s : FollowDeletion(n, s) /\ UNCHANGED workerVars
        <4>1. Add(n) \/ UNCHANGED queueVars
          BY <3>1 DEF FollowDeletion, Miss
        <4> QED BY <3>1, <4>1 DEF Wakes
      <3> QED BY <2>2, <3>1 DEF SecretDeleted
    <2>3. CASE Backoff(n)
      BY <2>3 DEF Backoff, Wakes
    <2>4. CASE GarbageCollected(n) \/ Users(n) \/ LookupFails(n) \/ Relist(n)
      BY <2>4 DEF GarbageCollected, Users, LookupFails, Miss, Relist
    <2> QED BY <1>6, <2>1, <2>2, <2>3, <2>4 DEF Informers
  <1> QED BY <1>1, <1>2, <1>3, <1>4, <1>5, <1>6 DEF Next

-----------------------------------------------------------------------------
(* Retries.                                                                *)

LEMMA NextRetryBudget == TypeOK /\ RetryBudget /\ [Next]_vars => RetryBudget'
  <1> SUFFICES ASSUME TypeOK, RetryBudget, [Next]_vars PROVE RetryBudget'
    OBVIOUS
  <1>1. CASE UNCHANGED requeues
    BY <1>1 DEF RetryBudget
  <1>2. CASE Restart
    BY <1>2, ControllerAssumption DEF Restart, RetryBudget
  <1>3. CASE Finish
    <2>1. err \in Errors /\ requeues \in [Names -> Nat] /\ MaxRetries \in Nat
      BY ControllerAssumption DEF TypeOK, WorkQueueTypeOK
    <2>2. CASE err = "none" \/ GivesUp
      BY <1>3, <2>1, <2>2 DEF Finish, ReturnKey, Forget, RetryBudget
    <2>3. CASE ~(err = "none" \/ GivesUp)
      <3>1. requeues[key] < MaxRetries \/ key \notin Names
        BY <2>1, <2>3 DEF GivesUp, Errors
      <3> QED BY <1>3, <2>1, <2>3, <3>1 DEF Finish, ReturnKey, AddRateLimited, RetryBudget
    <2> QED BY <2>2, <2>3
  <1>4. Wakes \/ TakeKey => UNCHANGED requeues
    BY DEF Wakes, Add, BackoffElapses, TakeKey, Get
  <1> QED BY <1>1, <1>2, <1>3, <1>4, StepKinds

(***************************************************************************)
(* No key is retried more often than --max-unseal-retries allows before it *)
(* is forgotten (processNextItem).                                         *)
(***************************************************************************)
THEOREM RetriesAreBounded == Spec => []RetryBudget
  <1>1. Init => RetryBudget
    <2> SUFFICES ASSUME Init, NEW n \in Names PROVE requeues[n] <= MaxRetries
      BY DEF RetryBudget
    <2>1. requeues[n] = 0
      BY DEF Init, WorkQueueInit
    <2> QED BY <2>1, ControllerAssumption
  <1> QED BY <1>1, InitTyped, NextTyped, NextRetryBudget, PTL DEF Spec

-----------------------------------------------------------------------------
(* The places of a key in the queue.                                       *)

Never(q, n) == {i \in DOMAIN q : q[i] = n} = {}
Once(q, n) == \E i \in DOMAIN q : {j \in DOMAIN q : q[j] = n} = {i}

LEMMA AppendPlaces ==
  ASSUME NEW q \in Seq(Names), NEW m \in Names, NEW n \in Names
  PROVE  /\ n # m /\ Never(q, n) => Never(Append(q, m), n)
         /\ n # m /\ Once(q, n) => Once(Append(q, m), n)
         /\ n = m /\ Never(q, n) => Once(Append(q, m), n)
  <1> DEFINE r == Append(q, m)
  <1>1. /\ Len(q) \in Nat /\ DOMAIN q = 1..Len(q) /\ DOMAIN r = 1..(Len(q) + 1)
        /\ \A i \in 1..Len(q) : r[i] = q[i]
        /\ r[Len(q) + 1] = m
    OBVIOUS
  <1> HIDE DEF r
  <1>2. ASSUME n # m, Never(q, n) PROVE Never(r, n)
    BY <1>1, <1>2 DEF Never
  <1>3. ASSUME n # m, Once(q, n) PROVE Once(r, n)
    <2>1. PICK i \in DOMAIN q : {j \in DOMAIN q : q[j] = n} = {i}
      BY <1>3 DEF Once
    <2>2. i \in DOMAIN r /\ r[i] = n
      BY <1>1, <2>1
    <2>3. \A j \in DOMAIN r : r[j] = n => j = i
      BY <1>1, <1>3, <2>1
    <2> QED BY <2>2, <2>3 DEF Once
  <1>4. ASSUME n = m, Never(q, n) PROVE Once(r, n)
    <2>1. Len(q) + 1 \in DOMAIN r /\ r[Len(q) + 1] = n
      BY <1>1, <1>4
    <2>2. \A j \in DOMAIN r : r[j] = n => j = Len(q) + 1
      BY <1>1, <1>4 DEF Never
    <2> QED BY <2>1, <2>2 DEF Once
  <1> QED BY <1>2, <1>3, <1>4 DEF r

LEMMA TailPlaces ==
  ASSUME NEW q \in Seq(Names), q # << >>, NEW n \in Names
  PROVE  /\ n # Head(q) /\ Never(q, n) => Never(Tail(q), n)
         /\ n # Head(q) /\ Once(q, n) => Once(Tail(q), n)
         /\ n = Head(q) => ~Never(q, n)
         /\ n = Head(q) /\ Once(q, n) => Never(Tail(q), n)
  <1> DEFINE r == Tail(q)
  <1>1. /\ Len(q) \in Nat \ {0} /\ DOMAIN q = 1..Len(q) /\ DOMAIN r = 1..(Len(q) - 1)
        /\ \A i \in DOMAIN r : r[i] = q[i + 1]
        /\ Head(q) = q[1]
    OBVIOUS
  <1> HIDE DEF r
  <1>2. ASSUME n # Head(q), Never(q, n) PROVE Never(r, n)
    BY <1>1, <1>2 DEF Never
  <1>3. ASSUME n # Head(q), Once(q, n) PROVE Once(r, n)
    <2>1. PICK i \in DOMAIN q : {j \in DOMAIN q : q[j] = n} = {i}
      BY <1>3 DEF Once
    <2>2. i # 1
      BY <1>1, <1>3, <2>1
    <2>3. i - 1 \in DOMAIN r /\ r[i - 1] = n
      BY <1>1, <2>1, <2>2
    <2>4. \A j \in DOMAIN r : r[j] = n => j = i - 1
      BY <1>1, <2>1
    <2> QED BY <2>3, <2>4 DEF Once
  <1>4. ASSUME n = Head(q) PROVE ~Never(q, n)
    BY <1>1, <1>4 DEF Never
  <1>5. ASSUME n = Head(q), Once(q, n) PROVE Never(r, n)
    <2>1. PICK i \in DOMAIN q : {j \in DOMAIN q : q[j] = n} = {i}
      BY <1>5 DEF Once
    <2>2. i = 1
      BY <1>1, <1>5, <2>1
    <2> QED BY <1>1, <2>1, <2>2 DEF Never
  <1> QED BY <1>2, <1>3, <1>4, <1>5 DEF r

Held == processing = IF pc = "idle" THEN {} ELSE {key}
Queued == \A n \in Names : IF n \in dirty \ processing THEN Once(queue, n) ELSE Never(queue, n)

LEMMA QueueSoundParts ==
  /\ QueueSound <=> Held /\ Queued
  /\ QueueSound' <=> Held' /\ Queued'
  BY DEF QueueSound, Held, Queued, Once, Never

LEMMA EnqueueSound ==
  ASSUME TypeOK, Queued, NEW n \in Names, Enqueue(n), UNCHANGED processing
  PROVE  Queued'
  <1>1. queue \in Seq(Names)
    BY DEF TypeOK, WorkQueueTypeOK
  <1>2. CASE n \in dirty \cup processing
    BY <1>2 DEF Enqueue, Queued
  <1>3. CASE n \notin dirty \cup processing
    <2>1. queue' = Append(queue, n) /\ dirty' = dirty \cup {n}
      BY <1>3 DEF Enqueue
    <2> QED BY <1>1, <1>3, <2>1, AppendPlaces DEF Queued
  <1> QED BY <1>2, <1>3

LEMMA TakeKeySound ==
  ASSUME TypeOK, QueueSound, TakeKey
  PROVE  QueueSound'
  <1>1. /\ queue \in Seq(Names) /\ queue # << >> /\ Head(queue) \in Names
        /\ queue' = Tail(queue)
        /\ dirty' = dirty \ {Head(queue)} /\ processing' = processing \cup {Head(queue)}
    BY GetTyped DEF TakeKey, Get, TypeOK, WorkQueueTypeOK
  <1>2. processing = {} /\ pc' = "fetch" /\ key' = Head(queue)
    BY QueueSoundParts DEF Held, TakeKey, WorkerStep
  <1>3. Held'
    BY <1>1, <1>2 DEF Held
  <1>4. ASSUME NEW n \in Names
        PROVE  IF n \in dirty' \ processing' THEN Once(queue', n) ELSE Never(queue', n)
    <2>1. IF n \in dirty \ processing THEN Once(queue, n) ELSE Never(queue, n)
      BY QueueSoundParts DEF Queued
    <2> QED BY <1>1, <1>2, <2>1, TailPlaces
  <1>5. Queued'
    BY <1>4 DEF Queued
  <1> QED BY <1>3, <1>5, QueueSoundParts

LEMMA FinishSound ==
  ASSUME TypeOK, QueueSound, Finish
  PROVE  QueueSound'
  <1>1. /\ queue \in Seq(Names) /\ key \in Names /\ processing = {key} /\ pc' = "idle"
    BY QueueSoundParts DEF Held, Finish, TypeOK, WorkQueueTypeOK
  <1>2. /\ dirty' = dirty /\ processing' = {}
        /\ queue' = IF key \in dirty THEN Append(queue, key) ELSE queue
    BY <1>1 DEF Finish, ReturnKey, Done
  <1>3. Held'
    BY <1>1, <1>2 DEF Held
  <1>4. ASSUME NEW n \in Names
        PROVE  IF n \in dirty' \ processing' THEN Once(queue', n) ELSE Never(queue', n)
    <2>1. IF n \in dirty \ processing THEN Once(queue, n) ELSE Never(queue, n)
      BY QueueSoundParts DEF Queued
    <2> QED BY <1>1, <1>2, <2>1, AppendPlaces
  <1>5. Queued'
    BY <1>4 DEF Queued
  <1> QED BY <1>3, <1>5, QueueSoundParts

LEMMA NextQueueSound == TypeOK /\ QueueSound /\ [Next]_vars => QueueSound'
  <1> SUFFICES ASSUME TypeOK, QueueSound, [Next]_vars PROVE QueueSound'
    OBVIOUS
  <1>1. CASE Wakes /\ UNCHANGED <<pc, key>>
    <2>1. PICK n \in Names : Add(n) \/ BackoffElapses(n)
      BY <1>1 DEF Wakes
    <2>2. Enqueue(n) /\ UNCHANGED processing
      BY <2>1 DEF Add, BackoffElapses
    <2>3. Queued'
      BY <2>2, EnqueueSound, QueueSoundParts
    <2>4. Held'
      BY <1>1, <2>2, QueueSoundParts DEF Held
    <2> QED BY <2>3, <2>4, QueueSoundParts
  <1>2. CASE UNCHANGED queueVars /\ key' = key /\ (pc = "idle" <=> pc' = "idle")
    <2>1. Queued'
      BY <1>2, QueueSoundParts DEF Queued
    <2>2. Held'
      BY <1>2, QueueSoundParts DEF Held
    <2> QED BY <2>1, <2>2, QueueSoundParts
  <1>3. CASE Restart
    <2>1. Held' /\ Queued'
      BY <1>3 DEF Restart, Held, Queued, Never
    <2> QED BY <2>1, QueueSoundParts
  <1> QED BY <1>1, <1>2, <1>3, TakeKeySound, FinishSound, StepKinds

LEMMA InitQueueSound == Init => QueueSound
  BY QueueSoundParts DEF Init, WorkQueueInit, Held, Queued, Never

(***************************************************************************)
(* A key that needs processing is in the queue exactly once, or in the     *)
(* worker's hands, and the worker holds no other (processNextItem, which   *)
(* calls Done once for each Get).                                          *)
(***************************************************************************)
THEOREM QueueIsSound == Spec => []QueueSound
  BY InitQueueSound, InitTyped, NextTyped, NextQueueSound, PTL DEF Spec

-----------------------------------------------------------------------------
(* The queue and the worker are a Worklist.                                *)

Todo == dirty \cup delayed

LEMMA WakeIsHeard ==
  ASSUME TypeOK, Wakes, UNCHANGED <<pc, key>>
  PROVE  Work!Hear
  <1>1. PICK n \in Names : Add(n) \/ BackoffElapses(n)
    BY DEF Wakes
  <1>2. /\ dirty' = dirty \cup {n} /\ requeues' = requeues
        /\ delayed' = delayed \/ (n \in delayed /\ delayed' = delayed \ {n})
    BY <1>1 DEF Add, BackoffElapses, Enqueue
  <1>3. Todo \subseteq Todo' /\ Todo' \subseteq Names
    BY <1>2 DEF TypeOK, WorkQueueTypeOK, Todo
  <1> QED BY <1>2, <1>3 DEF Work!Hear, Todo

LEMMA TakeKeyTakes ==
  ASSUME TypeOK, QueueSound, TakeKey
  PROVE  Work!Take
  <1>1. /\ pc = "idle" /\ pc' = "fetch" /\ key' = Head(queue)
        /\ dirty' = dirty \ {Head(queue)} /\ UNCHANGED <<delayed, requeues>>
    BY DEF TakeKey, WorkerStep, Get
  <1>2. Head(queue) \in dirty
    <2>1. queue \in Seq(Names) /\ queue # << >> /\ Head(queue) \in Names
      BY GetTyped DEF TakeKey, Get, TypeOK, WorkQueueTypeOK
    <2>2. ~Never(queue, Head(queue))
      BY <2>1, TailPlaces
    <2> QED BY <2>1, <2>2, QueueSoundParts DEF Queued
  <1>3. Todo' \in {Todo, Todo \ {key'}}
    BY <1>1, <1>2 DEF Todo
  <1>4. key' \in Todo
    BY <1>1, <1>2 DEF Todo
  <1> QED BY <1>1, <1>3, <1>4 DEF Work!Take, Todo

LEMMA FinishReturns ==
  ASSUME TypeOK, Finish
  PROVE  Work!Settle \/ Work!PutBack
  <1>1. /\ pc # "idle" /\ key \in Names /\ pc' = "idle" /\ dirty' = dirty
        /\ requeues \in [Names -> Nat] /\ err \in Errors /\ MaxRetries \in Nat
    BY ControllerAssumption DEF Finish, ReturnKey, Done, TypeOK, WorkQueueTypeOK
  <1>2. CASE err = "none" \/ GivesUp
    <2>1. delayed' = delayed /\ requeues' = [requeues EXCEPT ![key] = 0]
      BY <1>2 DEF Finish, ReturnKey, Forget
    <2> QED BY <1>1, <2>1 DEF Work!Settle
  <1>3. CASE ~(err = "none" \/ GivesUp)
    <2>1. /\ delayed' = delayed \cup {key}
          /\ requeues' = [requeues EXCEPT ![key] = requeues[key] + 1]
      BY <1>3 DEF Finish, ReturnKey, AddRateLimited
    <2>2. requeues[key] < MaxRetries
      BY <1>1, <1>3 DEF GivesUp, Errors
    <2>3. Todo' = Todo \cup {key}
      BY <1>1, <2>1 DEF Todo
    <2> QED BY <1>1, <2>1, <2>2, <2>3 DEF Work!PutBack, Todo
  <1> QED BY <1>2, <1>3

LEMMA RestartEnds == Restart => Work!End
  BY DEF Restart, Work!End

(***************************************************************************)
(* The queue, its timers and the worker implement the Worklist: whatever   *)
(* they do is to hear of keys, to take one, to be done with it, to put it  *)
(* back while it has retries left, or to end (processNextItem, and the     *)
(* handlers of watchSealedSecrets and watchSecrets).                       *)
(***************************************************************************)
THEOREM WorklistIsKept == Spec => WorksThroughList
  <1>1. Init => Work!Init
    BY DEF Init, WorkQueueInit, Work!Init
  <1>2. TypeOK /\ QueueSound /\ [Next]_vars => [Work!Next]_(Work!vars)
    <2> SUFFICES ASSUME TypeOK, QueueSound, [Next]_vars PROVE [Work!Next]_(Work!vars)
      OBVIOUS
    <2>1. CASE UNCHANGED queueVars /\ key' = key /\ (pc = "idle" <=> pc' = "idle")
      BY <2>1 DEF Work!vars
    <2>2. CASE ~(UNCHANGED queueVars /\ key' = key /\ (pc = "idle" <=> pc' = "idle"))
      BY <2>2, StepKinds, WakeIsHeard, TakeKeyTakes, FinishReturns, RestartEnds DEF Work!Next
    <2> QED BY <2>1, <2>2
  <1> QED BY <1>1, <1>2, InitTyped, NextTyped, InitQueueSound, NextQueueSound, PTL
          DEF Spec, WorksThroughList, Work!Spec

-----------------------------------------------------------------------------
(* Work.                                                                   *)

LEMMA KnownSpec ==
  ASSUME TypeOK, NEW n \in Names, cache'[n] = cache[n], tried'[n] = tried[n]
  PROVE  CachedSpec(n)' # tried'[n] => CachedSpec(n) # tried[n]
  BY DEF CachedSpec

LEMMA DeliverKeepsWork ==
  ASSUME TypeOK, NoLostWork, NEW n \in Names, DeliverSealedSecret(n)
  PROVE  NoLostWork'
  <1> DEFINE event == Head(ssWatch[n])
  <1>1. event.object \in SealedSecret
    <2>1. event \in SealedSecretEvent
      BY TailTyped DEF DeliverSealedSecret, TypeOK, ClusterTypeOK
    <2> QED BY <2>1 DEF SealedSecretEvent
  <1>2. event.object # None
    BY <1>1, ClusterAssumption
  <1>3. DeliverPut(n, event.object) \/ DeliverDelete(n, event)
    BY DEF DeliverSealedSecret
  <1> HIDE DEF event
  <1>4. /\ UNCHANGED <<pc, key, tried>> /\ dirty \subseteq dirty'
        /\ \A m \in Names \ {n} : cache'[m] = cache[m]
    BY <1>3 DEF DeliverSealedSecret, DeliverPut, DeliverDelete, Add, Enqueue, TypeOK
  <1>5. n \in dirty' \/ CachedSpec(n)' = CachedSpec(n)
    <2>1. CASE Add(n)
      BY <2>1 DEF Add, Enqueue
    <2>2. CASE /\ cache[n] # None /\ ~SealedSecretChanged(cache[n], event.object)
               /\ cache' = [cache EXCEPT ![n] = event.object]
      BY <1>2, <2>2 DEF SealedSecretChanged, CachedSpec, TypeOK
    <2> QED BY <1>3, <2>1, <2>2 DEF DeliverPut, DeliverDelete
  <1>6. ASSUME NEW m \in Names, CachedSpec(m)' # tried'[m]
        PROVE  m \in dirty' \/ (pc' = "fetch" /\ key' = m)
    BY <1>4, <1>5, <1>6 DEF CachedSpec, NoLostWork
  <1> QED BY <1>6 DEF NoLostWork

LEMMA FetchKeepsWork ==
  ASSUME TypeOK, NoLostWork, Fetch
  PROVE  NoLostWork'
  <1>1. key \in Names /\ UNCHANGED <<cache, dirty, key>>
    BY DEF Fetch, WorkerStep, TypeOK
  <1>2. /\ tried'[key] = CachedSpec(key)
        /\ \A m \in Names \ {key} : tried'[m] = tried[m]
    BY <1>1 DEF Fetch, CachedSpec, TypeOK
  <1>3. ASSUME NEW m \in Names, CachedSpec(m)' # tried'[m]
        PROVE  m \in dirty' \/ (pc' = "fetch" /\ key' = m)
    BY <1>1, <1>2, <1>3 DEF CachedSpec, NoLostWork
  <1> QED BY <1>3 DEF NoLostWork

\* The status that the pass writes into the store's object is no other spec.
LEMMA SetStatusKeepsWork ==
  ASSUME TypeOK, NoLostWork, pc = "status", pc' # "fetch", SetStatus,
         UNCHANGED <<dirty, key, tried>>
  PROVE  NoLostWork'
  <1>1. key \in Names /\ obj \in SealedSecret /\ cache \in [Names -> SealedSecret \cup {None}]
    BY DEF TypeOK
  <1>2. ASSUME NEW m \in Names PROVE CachedSpec(m)' = CachedSpec(m)
    <2>1. CASE cache'[m] = cache[m]
      BY <2>1 DEF CachedSpec
    <2>2. CASE cache[m] # None /\ cache'[m] = WithStatus(cache[m])
      <3>1. cache[m] \in SealedSecret
        BY <1>1, <2>2
      <3>2. cache'[m] \in SealedSecret /\ cache'[m].spec = cache[m].spec
        BY <1>1, <2>2, <3>1, WithStatusTyped DEF WithStatus, SealedSecret
      <3> QED BY <2>2, <3>2, ClusterAssumption DEF CachedSpec
    <2> QED BY <1>1, <2>1, <2>2 DEF SetStatus
  <1> QED BY <1>2 DEF NoLostWork

LEMMA QuietKeepsWork ==
  ASSUME NoLostWork, UNCHANGED <<cache, tried>>, dirty \subseteq dirty',
         pc = "fetch" => pc' = "fetch" /\ key' = key
  PROVE  NoLostWork'
  BY DEF NoLostWork, CachedSpec

LEMMA NextNoLostWork == TypeOK /\ NoLostWork /\ [Next]_vars => NoLostWork'
  <1> SUFFICES ASSUME TypeOK, NoLostWork, [Next]_vars PROVE NoLostWork'
    OBVIOUS
  <1> DEFINE Quiet == /\ UNCHANGED <<cache, tried>> /\ dirty \subseteq dirty'
                      /\ pc = "fetch" => pc' = "fetch" /\ key' = key
  <1>1. CASE Quiet
    BY <1>1, QuietKeepsWork
  <1>2. UNCHANGED vars => Quiet
    BY DEF vars
  <1>3. CASE Restart
    BY <1>3 DEF Restart, NoLostWork, CachedSpec
  <1>4. CASE Fetch
    BY <1>4, FetchKeepsWork
  <1>5. CASE TakeKey
    <2>1. /\ pc = "idle" /\ pc' = "fetch" /\ UNCHANGED <<cache, tried>>
          /\ dirty \subseteq dirty' \cup {key'}
      BY <1>5 DEF TakeKey, WorkerStep, Get
    <2> QED BY <2>1 DEF NoLostWork, CachedSpec
  <1>6. DeleteSecret \/ GetSecret \/ CreateSecret \/ UpdateSecret => Quiet
    BY DEF DeleteSecret, GetSecret, CreateSecret, UpdateSecret, WorkerStep
  <1>7. CASE UpdateStatus
    <2>1. CASE SetStatus
      BY <1>7, <2>1, SetStatusKeepsWork DEF UpdateStatus, WorkerStep
    <2>2. CASE UNCHANGED cache
      BY <1>1, <1>7, <2>2 DEF UpdateStatus, WorkerStep
    <2> QED BY <1>7, <2>1, <2>2 DEF UpdateStatus
  <1>8. CASE StatusFails
    BY <1>8, SetStatusKeepsWork DEF StatusFails
  <1>9. Finish => Quiet
    BY DEF Finish, ReturnKey, Done
  <1>10. CallFails => Quiet
    BY DEF CallFails, Calls
  <1>11. ASSUME NEW n \in Names,
                \/ Informers(n) \/ Backoff(n) \/ GarbageCollected(n)
                \/ Users(n) \/ LookupFails(n) \/ Relist(n)
         PROVE  NoLostWork'
    <2>1. CASE SecretDeleted(n)
      <3>1. CASE \E s : FollowDeletion(n, s) /\ UNCHANGED <<informerVars, workerVars, tried>>
        <4>1. Quiet
          BY <3>1 DEF FollowDeletion, Miss, Add, Enqueue
        <4> QED BY <1>1, <4>1
      <3> QED BY <1>3, <2>1, <3>1 DEF SecretDeleted
    <2>2. Backoff(n) => Quiet
      BY DEF Backoff, BackoffElapses, Enqueue
    <2>3. GarbageCollected(n) \/ Users(n) \/ LookupFails(n) \/ Relist(n) => Quiet
      BY DEF GarbageCollected, Users, LookupFails, Miss, Relist
    <2> QED BY <1>1, <1>11, <2>1, <2>2, <2>3, DeliverKeepsWork DEF Informers
  <1>12. CASE Crash
    BY <1>3, <1>12 DEF Crash
  <1> QED BY <1>1, <1>2, <1>4, <1>5, <1>6, <1>7, <1>8, <1>9, <1>10, <1>11, <1>12
       DEF Next, Worker

(***************************************************************************)
(* No change of a spec is lost between the informer's store and the        *)
(* worker: what the store holds and the last pass did not see, some pass   *)
(* is still to come for (watchSealedSecrets, processNextItem, unseal).     *)
(***************************************************************************)
THEOREM NothingIsLost == Spec => []NoLostWork
  <1>1. Init => NoLostWork
    BY DEF Init, NoLostWork, CachedSpec
  <1> QED BY <1>1, InitTyped, NextTyped, NextNoLostWork, PTL DEF Spec

-----------------------------------------------------------------------------
(* What a pass of the worker overwrites.  The decision is made on a copy   *)
(* of the Secret, the update comes later, and users act in between.  What  *)
(* makes it safe is the copy's resourceVersion: Versioned says that as     *)
(* long as the Secret still has the copy's version it is the copy, so an   *)
(* update that the API server accepts falls on what was judged.            *)

SecretVersions == \A n \in Names : secret[n] # None => secret[n].rv \in 1..revision

Judged ==
    pc = "update" =>
        /\ read.rv \in 1..revision
        /\ MayWrite(read, obj)
        /\ secret[key] # None /\ secret[key].rv = read.rv => secret[key] = read

Versioned == SecretVersions /\ Judged

-----------------------------------------------------------------------------
(* What happens to a Secret.                                               *)

\* Each Secret stays, goes, or is written with the next version.
SecretsMove ==
    /\ revision' \in Nat /\ revision' >= revision
    /\ \A n \in Names : \/ secret'[n] = secret[n]
                        \/ secret'[n] = None
                        \/ secret'[n] # None /\ secret'[n].rv = revision' /\ revision' > revision

LEMMA PutSecretMoves ==
  ASSUME TypeOK, NEW n \in Names, NEW s \in Secret, PutSecret(n, s)
  PROVE  SecretsMove /\ secret'[n].rv = revision' /\ revision' = revision + 1
  <1>1. revision \in Nat /\ secret \in [Names -> Secret \cup {None}]
    BY DEF TypeOK, ClusterTypeOK
  <1>2. /\ revision' = revision + 1
        /\ secret' = [secret EXCEPT ![n] = [s EXCEPT !.rv = revision + 1]]
    BY DEF PutSecret
  <1> DEFINE new == [s EXCEPT !.rv = revision + 1]
  <1>3. new \in Secret /\ new.rv = revision + 1
    BY <1>1 DEF Secret
  <1>4. new # None
    BY <1>3, ClusterAssumption
  <1>5. secret'[n] = new /\ \A m \in Names \ {n} : secret'[m] = secret[m]
    BY <1>1, <1>2
  <1> HIDE DEF new
  <1> QED BY <1>1, <1>2, <1>3, <1>4, <1>5 DEF SecretsMove

LEMMA RemoveSecretMoves ==
  ASSUME TypeOK, NEW n \in Names, RemoveSecret(n)
  PROVE  SecretsMove
  BY DEF RemoveSecret, SecretsMove, TypeOK, ClusterTypeOK

LEMMA PutSealedSecretMoves ==
  ASSUME TypeOK, NEW n, NEW o, PutSealedSecret(n, o)
  PROVE  SecretsMove
  BY DEF PutSealedSecret, SecretsMove, TypeOK, ClusterTypeOK

LEMMA UnchangedMoves ==
  ASSUME TypeOK, UNCHANGED <<revision, secret>>
  PROVE  SecretsMove
  BY DEF SecretsMove, TypeOK, ClusterTypeOK

LEMMA UsersMove ==
  ASSUME TypeOK, NEW n \in Names, Users(n)
  PROVE  SecretsMove
  <1>1. CASE UserWritesSecret(n)
    <2>1. PICK u \in UserSecrets,
               c \in {0} \cup (IF secret[n] = None THEN {} ELSE {secret[n].controller}) :
            PutSecret(n, [rv |-> 0, controller |-> c, items |-> u.items,
                          annotations |-> u.annotations, immutable |-> u.immutable])
      BY <1>1 DEF UserWritesSecret
    <2>2. c \in Nat
      BY DEF TypeOK, ClusterTypeOK, Secret
    <2>3. [rv |-> 0, controller |-> c, items |-> u.items,
           annotations |-> u.annotations, immutable |-> u.immutable] \in Secret
      BY <2>2, ClusterAssumption DEF Secret
    <2> QED BY <2>1, <2>3, PutSecretMoves
  <1>2. CASE UserDeletesSecret(n)
    BY <1>2, RemoveSecretMoves DEF UserDeletesSecret
  <1>3. CASE UserDeletesSealedSecret(n)
    BY <1>3, UnchangedMoves DEF UserDeletesSealedSecret
  <1>4. CASE UserCreatesSealedSecret(n) \/ UserUpdatesSpec(n) \/ UserUpdatesScope(n)
    <2>1. \E o : PutSealedSecret(n, o)
      BY <1>4 DEF UserCreatesSealedSecret, UserUpdatesSpec, UserUpdatesScope
    <2> QED BY <2>1, PutSealedSecretMoves
  <1> QED BY <1>1, <1>2, <1>3, <1>4 DEF Users

-----------------------------------------------------------------------------
(* Versioned is an invariant.                                              *)

LEMMA MovesKeepVersions ==
  ASSUME TypeOK, SecretVersions, SecretsMove
  PROVE  SecretVersions'
  <1>1. revision \in Nat
    BY DEF TypeOK, ClusterTypeOK
  <1>2. SUFFICES ASSUME NEW n \in Names, secret'[n] # None
                 PROVE  secret'[n].rv \in 1..revision'
    BY DEF SecretVersions
  <1>3. CASE secret'[n] = secret[n]
    <2>1. secret[n].rv \in 1..revision
      BY <1>2, <1>3 DEF SecretVersions
    <2> QED BY <1>1, <1>3, <2>1 DEF SecretsMove
  <1>4. CASE secret'[n].rv = revision' /\ revision' > revision
    BY <1>1, <1>4 DEF SecretsMove
  <1> QED BY <1>2, <1>3, <1>4 DEF SecretsMove

\* While the worker waits to update, others may come.
LEMMA OthersKeepJudged ==
  ASSUME TypeOK, Judged, SecretsMove, UNCHANGED <<pc, key, obj, read>>
  PROVE  Judged'
  <1> SUFFICES ASSUME pc = "update" PROVE Judged'
    BY DEF Judged
  <1>1. /\ key \in Names /\ revision \in Nat /\ read.rv \in 1..revision
        /\ MayWrite(read, obj)
        /\ secret[key] # None /\ secret[key].rv = read.rv => secret[key] = read
    BY DEF Judged, TypeOK, ClusterTypeOK
  <1>2. revision' \in Nat /\ revision' >= revision
    BY DEF SecretsMove
  <1>3. read.rv \in 1..revision'
    BY <1>1, <1>2
  <1>4. ASSUME secret'[key] # None, secret'[key].rv = read.rv PROVE secret'[key] = read
    BY <1>1, <1>2, <1>4 DEF SecretsMove
  <1>5. MayWrite(read, obj)'
    BY <1>1 DEF MayWrite, IsControlledBy, IsAnnotatedToBeManaged, IsAnnotatedToBePatched
  <1> QED BY <1>3, <1>4, <1>5 DEF Judged

\* A pass that sets out to update has read the Secret as it is.
LEMMA JudgeIsJudged ==
  ASSUME NEW s, Judge(s), pc' = "update", key' = key, obj' = obj,
         s = secret'[key], s.rv \in 1..revision'
  PROVE  Judged'
  <1>1. MayWrite(s, obj) /\ read' = s
    BY DEF Judge
  <1>2. MayWrite(read, obj)'
    BY <1>1 DEF MayWrite, IsControlledBy, IsAnnotatedToBeManaged, IsAnnotatedToBePatched
  <1> QED BY <1>1, <1>2 DEF Judged

LEMMA NextVersioned == TypeOK /\ Versioned /\ [Next]_vars => Versioned'
  <1> SUFFICES ASSUME TypeOK, Versioned, [Next]_vars PROVE Versioned'
    OBVIOUS
  <1>1. ASSUME SecretsMove, pc' # "update" \/ UNCHANGED <<pc, key, obj, read>>
        PROVE  Versioned'
    BY <1>1, MovesKeepVersions, OthersKeepJudged DEF Versioned, Judged
  <1>2. CASE UNCHANGED vars
    BY <1>1, <1>2, UnchangedMoves DEF vars
  <1>3. CASE Restart
    BY <1>1, <1>3, UnchangedMoves DEF Restart
  <1>4. CASE TakeKey \/ Fetch \/ Finish
    BY <1>1, <1>4, UnchangedMoves DEF TakeKey, Fetch, Finish
  <1>5. CASE DeleteSecret
    <2>1. key \in Names /\ pc' = "finish"
      BY <1>5 DEF DeleteSecret, TypeOK
    <2>2. SecretsMove
      BY <1>5, <2>1, UnchangedMoves, RemoveSecretMoves DEF DeleteSecret
    <2> QED BY <1>1, <2>1, <2>2
  <1>6. CASE GetSecret
    <2>1. SecretsMove /\ UNCHANGED <<secret, revision, key, obj>>
      BY <1>6, UnchangedMoves DEF GetSecret
    <2>2. CASE pc' = "update"
      <3>1. Judge(secret[key]) /\ secret[key] # None /\ key \in Names
        BY <1>6, <2>2 DEF GetSecret, WorkerStep, TypeOK
      <3>2. secret[key].rv \in 1..revision
        BY <3>1 DEF Versioned, SecretVersions
      <3>3. Judged'
        BY <2>1, <2>2, <3>1, <3>2, JudgeIsJudged
      <3> QED BY <2>1, <3>3, MovesKeepVersions DEF Versioned
    <2> QED BY <1>1, <2>1, <2>2
  <1>7. CASE CreateSecret
    <2>1. key \in Names /\ obj \in SealedSecret /\ UNCHANGED <<key, obj>>
      BY <1>7 DEF CreateSecret, WorkerStep, TypeOK
    <2>2. CASE PutSecret(key, NewSecret(obj)) /\ Judge(secret'[key])
      <3>1. SecretsMove /\ secret'[key].rv = revision' /\ revision' = revision + 1
        BY <2>1, <2>2, NewSecretTyped, PutSecretMoves
      <3>2. secret'[key].rv \in 1..revision'
        BY <3>1 DEF TypeOK, ClusterTypeOK
      <3>3. CASE pc' = "update"
        <4>1. Judged'
          BY <2>1, <2>2, <3>2, <3>3, JudgeIsJudged
        <4> QED BY <3>1, <4>1, MovesKeepVersions DEF Versioned
      <3> QED BY <1>1, <3>1, <3>3
    <2>3. CASE pc' = "status" /\ UNCHANGED <<revision, secret>>
      BY <1>1, <2>3, UnchangedMoves
    <2> QED BY <1>7, <2>2, <2>3 DEF CreateSecret
  <1>8. CASE UpdateSecret
    <2>1. pc' = "status" /\ key \in Names /\ obj \in SealedSecret /\ read \in Secret
      BY <1>8 DEF UpdateSecret, WorkerStep, TypeOK
    <2>2. SecretsMove
      BY <1>8, <2>1, TargetTyped, PutSecretMoves, UnchangedMoves DEF UpdateSecret
    <2> QED BY <1>1, <2>1, <2>2
  <1>9. CASE UpdateStatus
    <2>1. pc' \in {"observe", "finish"}
      BY <1>9 DEF UpdateStatus
    <2>2. SecretsMove
      BY <1>9, PutSealedSecretMoves, UnchangedMoves DEF UpdateStatus
    <2> QED BY <1>1, <2>1, <2>2
  <1>10. CASE StatusFails
    <2>1. pc' = "finish"
      BY <1>10 DEF StatusFails
    <2>2. SecretsMove
      BY <1>10, PutSealedSecretMoves, UnchangedMoves DEF StatusFails, NoEffect
    <2> QED BY <1>1, <2>1, <2>2
  <1>11. CASE CallFails
    <2>1. key \in Names /\ pc' \in {"status", "finish"}
      BY <1>11 DEF CallFails, Calls, TypeOK
    <2>2. CASE NoEffect
      BY <1>1, <2>1, <2>2, UnchangedMoves DEF NoEffect
    <2>3. CASE pc = "create" /\ PutSecret(key, NewSecret(obj))
      <3>1. obj \in SealedSecret
        BY <2>3 DEF TypeOK
      <3> QED BY <1>1, <2>1, <2>3, <3>1, NewSecretTyped, PutSecretMoves
    <2>4. CASE pc = "update" /\ PutSecret(key, Target(read, obj))
      <3>1. obj \in SealedSecret /\ read \in Secret
        BY <2>4 DEF TypeOK
      <3> QED BY <1>1, <2>1, <2>4, <3>1, TargetTyped, PutSecretMoves
    <2>5. CASE RemoveSecret(key)
      BY <1>1, <2>1, <2>5, RemoveSecretMoves
    <2> QED BY <1>11, <2>2, <2>3, <2>4, <2>5 DEF CallFails
  <1>12. ASSUME NEW n \in Names,
                \/ Informers(n) \/ Backoff(n) \/ GarbageCollected(n)
                \/ Users(n) \/ LookupFails(n) \/ Relist(n)
         PROVE  Versioned'
    <2>1. CASE DeliverSealedSecret(n) \/ Backoff(n) \/ LookupFails(n) \/ Relist(n)
      <3>1. UNCHANGED <<revision, secret, workerVars>>
        BY <2>1 DEF DeliverSealedSecret, Backoff, LookupFails, Relist, RelistSealedSecret,
                    RelistSecret
      <3> QED BY <1>1, <3>1, UnchangedMoves
    <2>2. CASE SecretDeleted(n)
      <3>1. Restart \/ UNCHANGED <<revision, secret, workerVars>>
        BY <2>2 DEF SecretDeleted
      <3> QED BY <1>1, <1>3, <3>1, UnchangedMoves
    <2>3. CASE GarbageCollected(n)
      <3>1. SecretsMove /\ UNCHANGED workerVars
        BY <2>3, RemoveSecretMoves DEF GarbageCollected, CollectGarbage
      <3> QED BY <1>1, <3>1
    <2>4. CASE Users(n)
      <3>1. SecretsMove /\ UNCHANGED workerVars
        BY <2>4, UsersMove DEF Users
      <3> QED BY <1>1, <3>1
    <2> QED BY <1>12, <2>1, <2>2, <2>3, <2>4 DEF Informers
  <1>13. CASE Crash
    BY <1>3, <1>13 DEF Crash
  <1> QED BY <1>2, <1>4, <1>5, <1>6, <1>7, <1>8, <1>9, <1>10, <1>11, <1>12, <1>13
       DEF Next, Worker

LEMMA VersionedIsInvariant == Spec => [](TypeOK /\ Versioned)
  <1>1. Init => Versioned
    BY DEF Init, ClusterInit, Versioned, SecretVersions, Judged
  <1> QED BY <1>1, InitTyped, NextTyped, NextVersioned, PTL DEF Spec

-----------------------------------------------------------------------------
(* What an update writes.                                                  *)

LEMMA WhoUpdates ==
  ASSUME [Next]_vars, pc = "update", pc' = "status"
  PROVE  UpdateSecret \/ CallFails
  <1>1. UNCHANGED vars => pc' = pc
    BY DEF vars
  <1>2. Worker => UpdateSecret
    BY DEF Worker, TakeKey, Fetch, DeleteSecret, GetSecret, CreateSecret, UpdateStatus,
           Finish, WorkerStep
  <1>3. ~StatusFails
    BY DEF StatusFails
  <1>4. ~Restart /\ ~Crash
    BY DEF Restart, Crash
  <1>5. ASSUME NEW n \in Names PROVE SecretDeleted(n) => UNCHANGED pc
    BY <1>4 DEF SecretDeleted
  <1>6. ASSUME NEW n \in Names,
               \/ Informers(n) \/ Backoff(n) \/ GarbageCollected(n)
               \/ Users(n) \/ LookupFails(n) \/ Relist(n)
        PROVE  pc' = pc
    BY <1>5, <1>6
    DEF Informers, DeliverSealedSecret, Backoff, GarbageCollected, Users, LookupFails, Relist
  <1> QED BY <1>1, <1>2, <1>3, <1>4, <1>6 DEF Next

LEMMA UpdateWrites ==
  ASSUME TypeOK, Versioned, [Next]_vars, pc = "update", pc' = "status",
         NEW n \in Names, secret'[n] # secret[n]
  PROVE  /\ n = key /\ secret[key] # None /\ secret[key] = read
         /\ MayWrite(read, obj)
         /\ secret'[key] = [Target(read, obj) EXCEPT !.rv = revision + 1]
  <1> DEFINE target == Target(read, obj)
  <1>1. /\ key \in Names /\ read \in Secret /\ obj \in SealedSecret
        /\ secret \in [Names -> Secret \cup {None}]
    BY DEF TypeOK, ClusterTypeOK
  <1>2. Accepted(target) /\ PutSecret(key, target)
    BY WhoUpdates DEF UpdateSecret, CallFails, NoEffect
  <1>3. target.rv = read.rv
    BY <1>1 DEF Target, Patched, Overwritten, Secret
  <1> HIDE DEF target
  <1>4. n = key /\ secret'[key] = [target EXCEPT !.rv = revision + 1]
    BY <1>1, <1>2 DEF PutSecret
  <1>5. secret[key] # None /\ target.rv \in {0, secret[key].rv}
    BY <1>2 DEF Accepted, IsCurrentSecret
  <1>6. /\ read.rv \in 1..revision /\ MayWrite(read, obj)
        /\ secret[key] # None /\ secret[key].rv = read.rv => secret[key] = read
    BY DEF Versioned, Judged
  <1>7. read.rv # 0
    BY <1>6 DEF TypeOK, ClusterTypeOK
  <1> QED BY <1>3, <1>4, <1>5, <1>6, <1>7 DEF target

(***************************************************************************)
(* Whatever users do between a pass's look at a Secret and its update, the *)
(* pass overwrites no Secret that is neither controlled by its             *)
(* SealedSecret nor annotated to be managed or patched (unseal).           *)
(***************************************************************************)
THEOREM ForeignSecretsAreSafe == Spec => ForeignSecretsUntouched
  <1> DEFINE Untouched ==
        \A n \in Names :
          pc = "update" /\ pc' = "status" /\ secret'[n] # secret[n]
             => n = key /\ secret[n] # None /\ MayWrite(secret[n], obj)
  <1>1. TypeOK /\ Versioned /\ [Next]_vars => [Untouched]_vars
    BY UpdateWrites
  <1>2. Spec => [][Untouched]_vars
    BY <1>1, VersionedIsInvariant, PTL DEF Spec
  <1> QED BY <1>2 DEF ForeignSecretsUntouched

LEMMA PatchAdds ==
  ASSUME NEW s \in Secret, NEW o \in SealedSecret, IsAnnotatedToBePatched(s)
  PROVE  LET target == Target(s, o) IN
         /\ \A k \in DataKeys :
              target.items[k] # s.items[k]
                 => target.items[k] = o.spec.items[k] /\ o.spec.items[k] # Absent
         /\ target.controller # s.controller => IsAnnotatedToBeManaged(target)
  <1> DEFINE new == NewSecret(o)
             items == Merge(s.items, new.items)
             annotations == s.annotations \cup new.annotations
             merged == [s EXCEPT !.items = items, !.annotations = annotations]
             target == Target(s, o)
  <1>1. /\ s.items \in Items /\ new.items = o.spec.items
    BY DEF Secret, NewSecret
  <1>2. target = IF IsAnnotatedToBeManaged(merged)
                 THEN [merged EXCEPT !.controller = new.controller] ELSE merged
    BY DEF Target, Patched
  <1> HIDE DEF new, items, annotations
  <1>3. merged = [rv |-> s.rv, controller |-> s.controller, items |-> items,
                  annotations |-> annotations, immutable |-> s.immutable]
    <2>1. s = [rv |-> s.rv, controller |-> s.controller, items |-> s.items,
               annotations |-> s.annotations, immutable |-> s.immutable]
      BY DEF Secret
    <2>2. [s EXCEPT !.items = items]
            = [rv |-> s.rv, controller |-> s.controller, items |-> items,
               annotations |-> s.annotations, immutable |-> s.immutable]
      BY <2>1
    <2>3. merged = [[s EXCEPT !.items = items] EXCEPT !.annotations = annotations]
      OBVIOUS
    <2> HIDE DEF merged
    <2> QED BY <2>2, <2>3
  <1> HIDE DEF merged, target
  <1>4. /\ target.items = merged.items /\ target.annotations = merged.annotations
        /\ target.controller # s.controller => IsAnnotatedToBeManaged(merged)
    BY <1>2, <1>3
  <1>5. \A k \in DataKeys : target.items[k] # s.items[k]
           => target.items[k] = o.spec.items[k] /\ o.spec.items[k] # Absent
    BY <1>1, <1>3, <1>4 DEF Merge, items
  <1>6. target.controller # s.controller => IsAnnotatedToBeManaged(target)
    BY <1>4 DEF IsAnnotatedToBeManaged
  <1> QED BY <1>5, <1>6 DEF target

(***************************************************************************)
(* An update of a Secret that is annotated to be patched adds what is      *)
(* sealed and takes nothing away, neither the other items nor, unless the  *)
(* result is managed, the ownership (unseal).                              *)
(***************************************************************************)
THEOREM PatchesAdd == Spec => PatchKeepsTheRest
  <1> DEFINE Kept ==
        pc = "update" /\ pc' = "status" /\ secret' # secret
           /\ IsAnnotatedToBePatched(secret[key])
        => /\ \A k \in DataKeys :
                secret'[key].items[k] # secret[key].items[k]
                    => secret'[key].items[k] = obj.spec.items[k] /\ obj.spec.items[k] # Absent
           /\ secret'[key].controller # secret[key].controller
                => IsAnnotatedToBeManaged(secret'[key])
  <1>1. ASSUME TypeOK, Versioned, [Next]_vars PROVE [Kept]_vars
    <2> SUFFICES ASSUME pc = "update", pc' = "status", secret' # secret,
                        IsAnnotatedToBePatched(secret[key])
                 PROVE  Kept
      OBVIOUS
    <2>1. PICK n \in Names : secret'[n] # secret[n]
      <3>1. TypeOK'
        BY <1>1, NextTyped
      <3> QED BY <1>1, <3>1 DEF TypeOK, ClusterTypeOK
    <2>2. /\ secret[key] = read
          /\ secret'[key] = [Target(read, obj) EXCEPT !.rv = revision + 1]
      BY <1>1, <2>1, UpdateWrites
    <2>3. read \in Secret /\ obj \in SealedSecret
      BY <1>1 DEF TypeOK
    <2>4. Target(read, obj) \in Secret
      BY <2>3, TargetTyped
    <2> DEFINE target == Target(read, obj)
    <2> HIDE DEF target
    <2>5. /\ secret'[key].items = target.items /\ secret'[key].controller = target.controller
          /\ secret'[key].annotations = target.annotations
      BY <2>2, <2>4 DEF target, Secret
    <2>6. /\ \A k \in DataKeys :
               target.items[k] # read.items[k]
                  => target.items[k] = obj.spec.items[k] /\ obj.spec.items[k] # Absent
          /\ target.controller # read.controller => IsAnnotatedToBeManaged(target)
      BY <2>2, <2>3, PatchAdds DEF target
    <2> QED BY <2>2, <2>5, <2>6 DEF IsAnnotatedToBeManaged
  <1>2. Spec => [][Kept]_vars
    BY <1>1, VersionedIsInvariant, PTL DEF Spec
  <1> QED BY <1>2 DEF PatchKeepsTheRest
=============================================================================
