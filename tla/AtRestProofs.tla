------------------------------ MODULE AtRestProofs ------------------------------
(***************************************************************************)
(* Why nothing is left behind: a Secret that is missing or old is followed *)
(* by an event, a key in the queue, a pass, or an excuse.  Told says that  *)
(* the informer's store, or the last event on its way, is the SealedSecret *)
(* as it is.  Served says that from the moment a pass has succeeded the    *)
(* Secret holds what the informer's store seals, or its deletion is yet to *)
(* be reported, for as long as nothing makes the key dirty and no excuse   *)
(* is made.                                                                *)
(***************************************************************************)
EXTENDS StatusProofs

USE DEF clusterVars, queueVars, informerVars, workerVars, historyVars

Last(q) == q[Len(q)]

\* The event says that the object of n is what is stored, but for the status.
Reports(e, n) == e.type = "put" /\ SameVersion(e.object, ss[n])

ToldOf(n) ==
    ss[n] # None =>
        IF Len(ssWatch[n]) = 0 THEN cache[n] # None /\ SameVersion(cache[n], ss[n])
                               ELSE Reports(Last(ssWatch[n]), n)
Told == \A n \in Names : ToldOf(n)

\* A pass for an object that was gone has tried nothing.
Deleting == pc = "delete" => tried[key] = None

\* No pass is at n, but for one that has succeeded.
Succeeded(n) ==
    key = n /\ pc # "idle" => pc \in {"status", "observe", "finish"} /\ err = "none"

Settling(n) ==
    /\ n \notin dirty \cup delayed /\ excuse[n] = {} /\ Succeeded(n)
    /\ ss[n] # None /\ cache[n] # None /\ cache[n].uid = ss[n].uid
    /\ CanUnseal(cache[n])

ServedOf(n) ==
    Settling(n) => IF secret[n] = None THEN secretWatch[n] # << >>
                                       ELSE Holds(secret[n], cache[n])
Served == \A n \in Names : ServedOf(n)

AtRestInv == CopiesInv /\ NoLostWork /\ Told /\ Deleting /\ Served

-----------------------------------------------------------------------------
(* The informer is told.                                                   *)

LEMMA LastOfAppend ==
  ASSUME NEW q \in Seq(SealedSecretEvent), NEW e \in SealedSecretEvent
  PROVE  Len(Append(q, e)) # 0 /\ Last(Append(q, e)) = e
  <1>1. Len(q) \in Nat /\ Len(Append(q, e)) = Len(q) + 1 /\ Append(q, e)[Len(q) + 1] = e
    OBVIOUS
  <1>2. Len(q) + 1 # 0
    BY <1>1
  <1> QED BY <1>1, <1>2 DEF Last

LEMMA LastOfOne ==
  ASSUME NEW e
  PROVE  Len(<<e>>) # 0 /\ Last(<<e>>) = e
  BY DEF Last

LEMMA LastOfTail ==
  ASSUME NEW q \in Seq(SealedSecretEvent), q # << >>
  PROVE  IF Len(Tail(q)) = 0 THEN Last(q) = Head(q) ELSE Last(Tail(q)) = Last(q)
  <1>1. Len(q) \in Nat /\ Len(q) # 0 /\ Len(Tail(q)) = Len(q) - 1 /\ Head(q) = q[1]
    OBVIOUS
  <1>2. CASE Len(q) = 1
    <2>1. Last(q) = q[1]
      BY <1>2 DEF Last
    <2>2. Len(Tail(q)) = 0
      BY <1>1, <1>2
    <2> QED BY <1>1, <2>1, <2>2
  <1>3. CASE Len(q) > 1
    <2>1. Tail(q)[Len(q) - 1] = q[Len(q)]
      BY <1>1, <1>3
    <2>2. Len(q) - 1 # 0
      <3>1. \A i \in Nat : i > 1 => i - 1 # 0
        OBVIOUS
      <3> QED BY <1>1, <1>3, <3>1, Zenon
    <2>3. Last(Tail(q)) = Tail(q)[Len(q) - 1] /\ Last(q) = q[Len(q)]
      BY <1>1 DEF Last
    <2> QED BY <1>1, <2>1, <2>2, <2>3
  <1> QED BY <1>1, <1>2, <1>3

\* Nothing happens to n.
LEMMA ToldStays ==
  ASSUME TypeOK, NEW n \in Names, ToldOf(n), ss'[n] = ss[n], ssWatch'[n] = ssWatch[n],
         Restated(cache'[n], cache[n])
  PROVE  ToldOf(n)'
  <1>1. cache[n] # None => cache'[n] # None /\ (SameVersion(cache[n], ss[n])
                                                => SameVersion(cache'[n], ss'[n]))
    BY CopiesTyped DEF Restated, SameVersion
  <1> QED BY <1>1 DEF ToldOf, Reports

\* A new object is put.
LEMMA ToldWhenPut ==
  ASSUME TypeOK, NEW n \in Names, NEW o \in SealedSecret, ss'[n] = o,
         ssWatch'[n] = Append(ssWatch[n], [type |-> "put", object |-> o])
  PROVE  ToldOf(n)'
  <1> DEFINE e == [type |-> "put", object |-> o]
  <1>1. ssWatch[n] \in Seq(SealedSecretEvent) /\ e \in SealedSecretEvent
        /\ e.type = "put" /\ e.object = o
    BY CopiesTyped DEF SealedSecretEvent
  <1>2. ssWatch'[n] = Append(ssWatch[n], e)
    OBVIOUS
  <1> HIDE DEF e
  <1>3. Len(ssWatch'[n]) # 0 /\ Last(ssWatch'[n]) = e
    BY <1>1, <1>2, LastOfAppend
  <1> QED BY <1>1, <1>3 DEF ToldOf, Reports, SameVersion

\* What is stored is listed.
LEMMA ToldWhenListed ==
  ASSUME NEW n \in Names, ss'[n] = None \/ ssWatch'[n] = <<[type |-> "put", object |-> ss'[n]]>>
  PROVE  ToldOf(n)'
  <1> DEFINE e == [type |-> "put", object |-> ss'[n]]
  <1>1. e.type = "put" /\ e.object = ss'[n]
    OBVIOUS
  <1> HIDE DEF e
  <1>2. ss'[n] = None \/ (Len(ssWatch'[n]) # 0 /\ Last(ssWatch'[n]) = e)
    BY LastOfOne DEF e
  <1> QED BY <1>1, <1>2 DEF ToldOf, Reports, SameVersion

LEMMA ToldWhenDelivered ==
  ASSUME TypeOK, NEW n \in Names, ToldOf(n), DeliverSealedSecret(n)
  PROVE  ToldOf(n)'
  <1> DEFINE event == Head(ssWatch[n])
  <1>1. /\ ssWatch[n] \in Seq(SealedSecretEvent) /\ ssWatch[n] # << >>
        /\ ssWatch'[n] = Tail(ssWatch[n]) /\ ss' = ss
    BY CopiesTyped DEF DeliverSealedSecret
  <1>2. cache'[n] = IF event.type = "put" THEN event.object ELSE None
    <2>1. cache' = [cache EXCEPT ![n] = IF event.type = "put" THEN event.object ELSE None]
      BY DEF DeliverSealedSecret, DeliverPut, DeliverDelete
    <2> QED BY <2>1, CopiesTyped
  <1>3. event = ssWatch[n][1] /\ 1 \in DOMAIN ssWatch[n]
    BY <1>1
  <1>4. event.object # None
    BY <1>3, CopiesTyped
  <1> HIDE DEF event
  <1> SUFFICES ASSUME ss[n] # None
               PROVE  IF Len(Tail(ssWatch[n])) = 0
                      THEN cache'[n] # None /\ SameVersion(cache'[n], ss[n])
                      ELSE Reports(Last(Tail(ssWatch[n])), n)
    BY <1>1 DEF ToldOf, Reports
  <1>5. Reports(Last(ssWatch[n]), n)
    <2>1. Len(ssWatch[n]) # 0
      BY <1>1
    <2> QED BY <2>1 DEF ToldOf
  <1>6. CASE Len(Tail(ssWatch[n])) = 0
    <2>1. Last(ssWatch[n]) = event
      BY <1>1, <1>6, LastOfTail DEF event
    <2> QED BY <1>2, <1>4, <1>5, <1>6, <2>1 DEF Reports
  <1>7. CASE Len(Tail(ssWatch[n])) # 0
    BY <1>1, <1>5, <1>7, LastOfTail
  <1> QED BY <1>6, <1>7

LEMMA NextTold ==
  ASSUME CopiesInv, Told, [Next]_vars
  PROVE  Told'
  <1> USE DEF CopiesInv
  <1> SUFFICES ASSUME NEW n \in Names PROVE ToldOf(n)'
    BY DEF Told
  <1>0. ToldOf(n)
    BY DEF Told
  <1>1. ASSUME ss'[n] = ss[n], ssWatch'[n] = ssWatch[n], CopiesStay \/ cache'[n] = cache[n]
        PROVE  ToldOf(n)'
    <2>1. Restated(cache'[n], cache[n])
      BY <1>1 DEF CopiesStay, Restated
    <2> QED BY <1>0, <1>1, <2>1, ToldStays
  <1>2. CASE Elsewhere \/ Between
    BY <1>1, <1>2 DEF Elsewhere, Between, StoreStays
  <1>3. CASE Fetch
    <2>1. UNCHANGED <<ss, ssWatch, cache>>
      BY <1>3 DEF Fetch, WorkerStep
    <2> QED BY <1>1, <2>1
  <1>4. CASE Restart
    <2>1. ss'[n] = ss[n]
          /\ ssWatch'[n] = IF ss[n] = None THEN << >>
                                           ELSE <<[type |-> "put", object |-> ss[n]]>>
      BY <1>4 DEF Restart
    <2> QED BY <2>1, ToldWhenListed
  <1>5. CASE StatusIsWritten
    <2>1. StatusWritten /\ CopiesStay
      BY <1>5, StatusIsFit DEF StatusIsWritten
    <2>2. CASE n = key
      <3>1. ss'[n] \in SealedSecret
        BY <2>1, <2>2, NextTyped DEF StatusWritten, TypeOK, ClusterTypeOK
      <3> QED BY <2>1, <2>2, <3>1, ToldWhenPut DEF StatusWritten
    <2>3. CASE n # key
      BY <1>1, <2>1, <2>3 DEF StatusWritten
    <2> QED BY <2>2, <2>3
  <1>6. ASSUME NEW m \in Names, UserPuts(m) PROVE ToldOf(n)'
    <2>1. CopiesStay
      BY <1>6 DEF UserPuts
    <2>2. PICK o \in SealedSecret : PutSealedSecret(m, o)
      BY <1>6, UserPutsObject
    <2>3. PICK new \in SealedSecret :
              /\ ss'[m] = new
              /\ ssWatch'[m] = Append(ssWatch[m], [type |-> "put", object |-> new])
      BY <2>2, PutMoves
    <2>4. \A x \in Names \ {m} : ss'[x] = ss[x] /\ ssWatch'[x] = ssWatch[x]
      BY <2>2, PutMoves
    <2> QED BY <1>1, <2>1, <2>3, <2>4, ToldWhenPut
  <1>7. ASSUME NEW m \in Names, UserDeletesSealedSecret(m), CopiesStay PROVE ToldOf(n)'
    <2>1. /\ ss'[m] = None
          /\ \A x \in Names \ {m} : ss'[x] = ss[x] /\ ssWatch'[x] = ssWatch[x]
      BY <1>7, CopiesTyped DEF UserDeletesSealedSecret
    <2> QED BY <1>1, <1>7, <2>1, ToldWhenListed
  <1>8. ASSUME NEW m \in Names, RelistSealedSecret(m, cache[m]), CopiesStay PROVE ToldOf(n)'
    <2>1. /\ ss' = ss /\ \A x \in Names \ {m} : ssWatch'[x] = ssWatch[x]
          /\ ss[m] # None => ssWatch'[m] = <<[type |-> "put", object |-> ss[m]]>>
      BY <1>8, CopiesTyped DEF RelistSealedSecret
    <2> QED BY <1>1, <1>8, <2>1, ToldWhenListed
  <1>9. ASSUME NEW m \in Names, DeliverSealedSecret(m) PROVE ToldOf(n)'
    <2>1. CASE m = n
      BY <1>0, <1>9, <2>1, ToldWhenDelivered
    <2>2. CASE m # n
      <3>1. ss'[n] = ss[n] /\ ssWatch'[n] = ssWatch[n] /\ cache'[n] = cache[n]
        BY <1>9, <2>2, CopiesTyped DEF DeliverSealedSecret, DeliverPut, DeliverDelete
      <3> QED BY <1>1, <3>1
    <2> QED BY <2>1, <2>2
  <1>10. CASE OthersAct
    BY <1>6, <1>7, <1>8, <1>9, <1>10 DEF OthersAct
  <1> QED BY <1>2, <1>3, <1>4, <1>5, <1>10, CopyKinds

LEMMA NextDeleting ==
  ASSUME TypeOK, Deleting, [Next]_vars
  PROVE  Deleting'
  <1>1. CASE pc' # "delete"
    BY <1>1 DEF Deleting
  <1>2. CASE UNCHANGED <<pc, key, tried>>
    BY <1>2 DEF Deleting
  <1>3. CASE Fetch
    <2>1. /\ key \in Names /\ key' = key /\ (pc' = "delete" => cache[key] = None)
          /\ tried' = [tried EXCEPT ![key] = IF cache[key] = None THEN None ELSE cache[key].spec]
      BY <1>3 DEF Fetch, WorkerStep, TypeOK
    <2> QED BY <2>1 DEF Deleting, TypeOK
  <1>4. CASE Restart \/ TakeKey \/ Finish
    BY <1>1, <1>4 DEF Restart, TakeKey, Finish
  <1>5. CASE DeleteSecret \/ GetSecret \/ CreateSecret \/ UpdateSecret \/ UpdateStatus
    BY <1>1, <1>5 DEF DeleteSecret, GetSecret, CreateSecret, UpdateSecret, UpdateStatus, Judge
  <1>6. CASE CallFails \/ StatusFails
    BY <1>1, <1>6 DEF CallFails, StatusFails
  <1>7. ASSUME NEW n \in Names,
               \/ Informers(n) \/ Backoff(n) \/ GarbageCollected(n)
               \/ Users(n) \/ LookupFails(n) \/ Relist(n)
        PROVE  Restart \/ UNCHANGED <<pc, key, tried>>
    BY <1>7 DEF Informers, DeliverSealedSecret, SecretDeleted, Backoff, GarbageCollected,
                Users, LookupFails, Relist
  <1>8. CASE UNCHANGED vars
    BY <1>2, <1>8 DEF vars
  <1>9. CASE Crash
    BY <1>4, <1>9 DEF Crash
  <1> QED BY <1>2, <1>3, <1>4, <1>5, <1>6, <1>7, <1>8, <1>9 DEF Next, Worker

-----------------------------------------------------------------------------
(* What a pass writes holds what the SealedSecret seals.                   *)

LEMMA NewHolds ==
  ASSUME NEW o \in SealedSecret
  PROVE  Holds(NewSecret(o), o)
  BY DEF Holds, NewSecret

LEMMA TargetHolds ==
  ASSUME NEW s \in Secret, NEW o \in SealedSecret
  PROVE  Holds(Target(s, o), o)
  <1> DEFINE new == NewSecret(o)
  <1>1. new \in Secret /\ new.items = o.spec.items
    BY NewSecretTyped DEF NewSecret
  <1> HIDE DEF new
  <1>2. Overwritten(s, new).items = new.items
    BY DEF Overwritten, Secret
  <1>3. Patched(s, new).items = Merge(s.items, new.items)
    <2> DEFINE merged == [s EXCEPT !.items = Merge(@, new.items),
                                   !.annotations = @ \cup new.annotations]
    <2>1. merged.items = Merge(s.items, new.items)
          /\ [merged EXCEPT !.controller = new.controller].items = merged.items
      BY DEF Secret
    <2>2. Patched(s, new) \in {merged, [merged EXCEPT !.controller = new.controller]}
      BY DEF Patched
    <2> HIDE DEF merged
    <2> QED BY <2>1, <2>2
  <1>4. Target(s, o) \in {Patched(s, new), Overwritten(s, new)}
    BY DEF Target, new
  <1>5. Target(s, o).items \in {Merge(s.items, new.items), new.items}
    BY <1>2, <1>3, <1>4, Zenon
  <1>6. \A k \in DataKeys : new.items[k] # Absent => Merge(s.items, new.items)[k] = new.items[k]
    BY DEF Merge
  <1> QED BY <1>1, <1>5, <1>6 DEF Holds

LEMMA PutHolds ==
  ASSUME TypeOK, key \in Names, NEW t \in Secret, Holds(t, obj), PutSecret(key, t)
  PROVE  /\ secret'[key] # None /\ Holds(secret'[key], obj)
         /\ \A n \in Names \ {key} : secret'[n] = secret[n]
         /\ UNCHANGED <<ss, secretWatch>>
  <1> DEFINE new == [t EXCEPT !.rv = revision + 1]
  <1>1. new \in Secret /\ new.items = t.items
    <2>1. revision + 1 \in Nat
      BY DEF TypeOK, ClusterTypeOK
    <2> QED BY <2>1 DEF Secret
  <1>2. new # None /\ Holds(new, obj)
    BY <1>1, ClusterAssumption DEF Holds
  <1>3. secret' = [secret EXCEPT ![key] = new] /\ UNCHANGED <<ss, secretWatch>>
    BY DEF PutSecret
  <1> HIDE DEF new
  <1>4. secret'[key] = new /\ \A n \in Names \ {key} : secret'[n] = secret[n]
    BY <1>3 DEF TypeOK, ClusterTypeOK
  <1> QED BY <1>2, <1>3, <1>4

-----------------------------------------------------------------------------
(* Served is an invariant.                                                 *)

LEMMA ServedStays ==
  ASSUME NEW n \in Names, ServedOf(n), secret'[n] = secret[n],
         secretWatch'[n] = << >> => secretWatch[n] = << >> \/ secret[n] # None,
         Settling(n)' => Settling(n) /\ cache'[n].spec = cache[n].spec
  PROVE  ServedOf(n)'
  BY DEF ServedOf, Holds

\* What a step that is not about n leaves alone.
Alone(n) ==
    /\ cache'[n] = cache[n] /\ ss'[n] = ss[n] /\ excuse'[n] = excuse[n]
    /\ secret'[n] = secret[n] /\ secretWatch'[n] = secretWatch[n]
    /\ n \in dirty => n \in dirty'
    /\ n \in delayed => n \in dirty' \cup delayed'
    /\ Succeeded(n)' => Succeeded(n)

LEMMA AloneStays ==
  ASSUME NEW n \in Names, ServedOf(n), Alone(n)
  PROVE  ServedOf(n)'
  BY DEF ServedOf, Settling, CanUnseal, Holds, Alone

\* The pass has found the Secret, or written it.
LEMMA PassServes ==
  ASSUME TypeOK, NoLostWork, Passing, NEW n \in Names, n = key,
         pc \in {"get", "create", "update"}, UNCHANGED <<key, obj, cache, dirty>>,
         secret'[n] # None, Holds(secret'[n], obj)
  PROVE  ServedOf(n)'
  <1> SUFFICES ASSUME Settling(n)' PROVE Holds(secret'[n], cache'[n])
    BY DEF ServedOf, Holds
  <1>1. n \notin dirty /\ cache[n] # None
    BY DEF Settling
  <1>2. cache[n].spec = tried[n]
    BY <1>1 DEF NoLostWork, CachedSpec
  <1>3. tried[n] = obj.spec
    BY DEF Passing
  <1> QED BY <1>2, <1>3 DEF Holds

LEMMA TakeKeyServes ==
  ASSUME TypeOK, TakeKey, NEW n \in Names, ServedOf(n)
  PROVE  ServedOf(n)'
  <1>1. /\ pc = "idle" /\ pc' = "fetch" /\ key' = Head(queue)
        /\ dirty' = dirty \ {key'}
        /\ UNCHANGED <<ss, secret, secretWatch, cache, excuse, delayed>>
    BY DEF TakeKey, WorkerStep, Get
  <1>2. CASE key' = n
    BY <1>1, <1>2 DEF ServedOf, Settling, Succeeded
  <1>3. CASE key' # n
    BY <1>1, <1>3, AloneStays DEF Alone, Succeeded
  <1> QED BY <1>2, <1>3

LEMMA FetchServes ==
  ASSUME TypeOK, Fetch, NEW n \in Names, ServedOf(n)
  PROVE  ServedOf(n)'
  <1>1. /\ pc = "fetch" /\ key \in Names /\ key' = key
        /\ UNCHANGED <<ss, secret, secretWatch, cache, dirty, delayed>>
        /\ excuse' = [excuse EXCEPT ![key] = {}]
        /\ cache[key] = None \/ pc' = "get" \/ err' = "retry"
        /\ pc' # "idle"
    BY DEF Fetch, WorkerStep, TypeOK
  <1>2. CASE key = n
    BY <1>1, <1>2 DEF ServedOf, Settling, Succeeded
  <1>3. CASE key # n
    <2>1. excuse'[n] = excuse[n]
      BY <1>1, <1>3 DEF TypeOK
    <2> QED BY <1>1, <1>3, <2>1, AloneStays DEF Alone, Succeeded
  <1> QED BY <1>2, <1>3

\* A step of a pass for another SealedSecret.
LEMMA OtherPassServes ==
  ASSUME TypeOK, NEW n \in Names, ServedOf(n), key # n, key' = key,
         secret'[n] = secret[n], secretWatch'[n] = secretWatch[n],
         UNCHANGED <<ss, cache, dirty, delayed, excuse>>
  PROVE  ServedOf(n)'
  BY AloneStays DEF Alone, Succeeded

LEMMA DeleteSecretServes ==
  ASSUME TypeOK, NoLostWork, Deleting, DeleteSecret, NEW n \in Names, ServedOf(n)
  PROVE  ServedOf(n)'
  <1>1. /\ pc = "delete" /\ key \in Names /\ key' = key
        /\ UNCHANGED <<ss, cache, dirty, delayed, excuse>>
        /\ UNCHANGED clusterVars \/ RemoveSecret(key)
    BY DEF DeleteSecret, RemoveSecret, TypeOK
  <1>2. CASE key = n
    <2>1. tried[n] = None
      BY <1>1, <1>2 DEF Deleting
    <2>2. cache[n] # None => cache[n].spec # None
      <3>1. cache[n] # None => cache[n].spec \in Specs
        BY CopiesTyped, SealedSecretTyped
      <3> QED BY <3>1, ClusterAssumption
    <2>3. n \in dirty \/ cache[n] = None
      BY <1>1, <2>1, <2>2 DEF NoLostWork, CachedSpec
    <2> QED BY <1>1, <2>3 DEF ServedOf, Settling
  <1>3. CASE key # n
    <2>1. secret'[n] = secret[n] /\ secretWatch'[n] = secretWatch[n]
      BY <1>1, <1>3 DEF RemoveSecret, TypeOK, ClusterTypeOK
    <2> QED BY <1>1, <1>3, <2>1, OtherPassServes
  <1> QED BY <1>2, <1>3

LEMMA JudgeServes ==
  ASSUME NEW s, s = secret'[key], Judge(s), pc' # "update", err' = "none"
  PROVE  Target(s, obj) = s
  BY DEF Judge

LEMMA GetSecretServes ==
  ASSUME TypeOK, NoLostWork, Passing, GetSecret, NEW n \in Names, ServedOf(n)
  PROVE  ServedOf(n)'
  <1>1. /\ pc = "get" /\ key \in Names /\ obj \in SealedSecret /\ UNCHANGED <<key, obj>>
        /\ UNCHANGED <<ss, secret, secretWatch, cache, dirty, delayed, excuse>>
        /\ pc' = "create" \/ (secret[key] # None /\ Judge(secret[key]))
        /\ pc' # "idle"
    BY DEF GetSecret, WorkerStep, TypeOK, Judge
  <1>2. CASE key = n /\ pc' # "create" /\ pc' # "update" /\ err' = "none"
    <2>1. secret[n] # None /\ secret[n] \in Secret
      BY <1>1, <1>2 DEF TypeOK, ClusterTypeOK
    <2>2. Target(secret[n], obj) = secret[n]
      BY <1>1, <1>2, JudgeServes
    <2>3. Holds(secret'[n], obj)
      BY <1>1, <2>1, <2>2, TargetHolds
    <2> QED BY <1>1, <1>2, <2>1, <2>3, PassServes
  <1>3. CASE key = n /\ (pc' \in {"create", "update"} \/ err' # "none")
    BY <1>1, <1>3 DEF ServedOf, Settling, Succeeded
  <1>4. CASE key # n
    BY <1>1, <1>4, OtherPassServes
  <1> QED BY <1>2, <1>3, <1>4

\* The pass writes the Secret, whether or not it learns of it.
LEMMA WriteServes ==
  ASSUME TypeOK, NoLostWork, Passing, NEW n \in Names, ServedOf(n),
         pc \in {"create", "update"}, pc' # "idle",
         UNCHANGED <<key, obj, cache, dirty, delayed, excuse>>,
         \/ pc = "create" /\ PutSecret(key, NewSecret(obj))
         \/ pc = "update" /\ PutSecret(key, Target(read, obj))
  PROVE  ServedOf(n)'
  <1>1. key \in Names /\ obj \in SealedSecret /\ (pc = "update" => read \in Secret)
    BY DEF TypeOK
  <1>2. PICK t \in Secret : Holds(t, obj) /\ PutSecret(key, t)
    BY <1>1, NewSecretTyped, NewHolds, TargetTyped, TargetHolds
  <1>3. /\ secret'[key] # None /\ Holds(secret'[key], obj)
        /\ \A m \in Names \ {key} : secret'[m] = secret[m]
        /\ UNCHANGED <<ss, secretWatch>>
    BY <1>1, <1>2, PutHolds
  <1>4. CASE key = n
    BY <1>3, <1>4, PassServes
  <1>5. CASE key # n
    BY <1>3, <1>5, OtherPassServes
  <1> QED BY <1>4, <1>5

\* The pass writes nothing, and ends with an error.
LEMMA FailureServes ==
  ASSUME TypeOK, NEW n \in Names, ServedOf(n), pc' # "idle", err' # "none",
         UNCHANGED <<key, ss, cache, secret, secretWatch, dirty, delayed, excuse>>
  PROVE  ServedOf(n)'
  <1>1. CASE key = n
    BY <1>1 DEF ServedOf, Settling, Succeeded
  <1>2. CASE key # n
    BY <1>2, OtherPassServes
  <1> QED BY <1>1, <1>2

LEMMA CreateSecretServes ==
  ASSUME TypeOK, NoLostWork, Passing, CreateSecret, NEW n \in Names, ServedOf(n)
  PROVE  ServedOf(n)'
  <1>1. /\ pc = "create" /\ pc' # "idle"
        /\ UNCHANGED <<key, obj, cache, dirty, delayed, excuse, secretWatch>>
        /\ \/ PutSecret(key, NewSecret(obj))
           \/ err' = "retry" /\ UNCHANGED <<ss, secret>>
    BY DEF CreateSecret, WorkerStep, Judge
  <1> QED BY <1>1, WriteServes, FailureServes

LEMMA UpdateSecretServes ==
  ASSUME TypeOK, NoLostWork, Passing, UpdateSecret, NEW n \in Names, ServedOf(n)
  PROVE  ServedOf(n)'
  <1>1. /\ pc = "update" /\ pc' = "status"
        /\ UNCHANGED <<key, obj, cache, dirty, delayed, excuse, secretWatch>>
        /\ \/ PutSecret(key, Target(read, obj))
           \/ err' # "none" /\ UNCHANGED <<ss, secret>>
    BY DEF UpdateSecret, WorkerStep
  <1> QED BY <1>1, WriteServes, FailureServes

LEMMA CallFailsServes ==
  ASSUME TypeOK, NoLostWork, Passing, CallFails, NEW n \in Names, ServedOf(n)
  PROVE  ServedOf(n)'
  <1>1. /\ pc' # "idle" /\ err' # "none" /\ key \in Names
        /\ UNCHANGED <<key, obj, cache, dirty, delayed, excuse>>
    BY DEF CallFails, Calls, TypeOK
  <1>2. \/ UNCHANGED <<ss, secret, secretWatch>>
        \/ pc = "create" /\ PutSecret(key, NewSecret(obj))
        \/ pc = "update" /\ PutSecret(key, Target(read, obj))
        \/ RemoveSecret(key)
    BY DEF CallFails, NoEffect
  <1>3. CASE RemoveSecret(key)
    <2>1. CASE key = n
      <3>1. pc' # "idle" /\ ~Succeeded(n)'
        BY <1>1, <2>1 DEF Succeeded
      <3> QED BY <3>1 DEF ServedOf, Settling
    <2>2. CASE key # n
      <3>1. secret'[n] = secret[n] /\ secretWatch'[n] = secretWatch[n] /\ UNCHANGED ss
        BY <1>1, <1>3, <2>2 DEF RemoveSecret, TypeOK, ClusterTypeOK
      <3> QED BY <1>1, <2>2, <3>1, OtherPassServes
    <2> QED BY <2>1, <2>2
  <1> QED BY <1>1, <1>2, <1>3, WriteServes, FailureServes

\* Objects get another status at most.
LEMMA StatusStays ==
  ASSUME TypeOK, NEW n \in Names, ServedOf(n), CopiesStay, UNCHANGED <<dirty, delayed, excuse>>,
         secret'[n] = secret[n], secretWatch'[n] = secretWatch[n],
         ss'[n] # None => ss[n] # None /\ ss'[n].uid = ss[n].uid,
         Succeeded(n)' => Succeeded(n)
  PROVE  ServedOf(n)'
  <1>1. cache'[n] # None => /\ cache[n] # None /\ cache'[n].uid = cache[n].uid
                            /\ cache'[n].spec = cache[n].spec /\ cache'[n].scope = cache[n].scope
    BY CopiesTyped DEF CopiesStay, Restated, SameVersion
  <1>2. Settling(n)' => Settling(n) /\ cache'[n].spec = cache[n].spec
    BY <1>1 DEF Settling, CanUnseal
  <1> QED BY <1>2, ServedStays

\* The status that the pass writes is no other spec.
LEMMA StatusServes ==
  ASSUME CopiesInv, UpdateStatus \/ StatusFails, NEW n \in Names, ServedOf(n)
  PROVE  ServedOf(n)'
  <1> USE DEF CopiesInv
  <1>1. /\ pc = "status" /\ UNCHANGED <<secret, secretWatch, dirty, delayed, excuse>>
        /\ Succeeded(n)' => Succeeded(n)
    BY DEF UpdateStatus, StatusFails, WorkerStep, NoEffect, PutSealedSecret, Succeeded
  <1>2. CASE StatusIsWritten
    <2>1. StatusWritten /\ CopiesStay
      BY <1>2, StatusIsFit DEF StatusIsWritten
    <2>2. n # key => ss'[n] = ss[n]
      BY <2>1 DEF StatusWritten
    <2>3. n = key => ss[n] # None /\ ss'[n].uid = ss[n].uid
      BY <2>1 DEF StatusWritten, SameVersion
    <2> QED BY <1>1, <2>1, <2>2, <2>3, StatusStays
  <1>3. CASE Elsewhere
    BY <1>1, <1>3, StatusStays DEF Elsewhere, StoreStays
  <1> QED BY <1>2, <1>3, StatusKinds

LEMMA FinishServes ==
  ASSUME TypeOK, Finish, NEW n \in Names, ServedOf(n)
  PROVE  ServedOf(n)'
  <1>1. /\ pc \in {"observe", "finish"} /\ key \in Names
        /\ UNCHANGED <<ss, secret, secretWatch, cache, dirty>>
        /\ excuse' = IF GivesUp THEN [excuse EXCEPT ![key] = @ \cup {"gaveUp"}] ELSE excuse
        /\ pc' = "idle"
        /\ IF err = "none" \/ GivesUp THEN delayed' = delayed
                                      ELSE delayed' = delayed \cup {key}
    BY DEF Finish, ReturnKey, Done, Forget, AddRateLimited, TypeOK
  <1>2. CASE key # n
    <2>1. excuse'[n] = excuse[n]
      BY <1>1, <1>2 DEF TypeOK
    <2> QED BY <1>1, <1>2, <2>1, AloneStays DEF Alone, Succeeded
  <1>3. CASE key = n /\ err = "none"
    <2>1. ~GivesUp
      BY <1>3 DEF GivesUp
    <2> QED BY <1>1, <1>3, <2>1, AloneStays DEF Alone, Succeeded
  <1>4. CASE key = n /\ GivesUp
    <2>1. excuse'[n] # {}
      BY <1>1, <1>4 DEF TypeOK
    <2> QED BY <2>1 DEF ServedOf, Settling
  <1>5. CASE key = n /\ err # "none" /\ ~GivesUp
    BY <1>1, <1>5 DEF ServedOf, Settling
  <1> QED BY <1>2, <1>3, <1>4, <1>5

LEMMA RestartServes ==
  ASSUME Restart, NEW n \in Names
  PROVE  ServedOf(n)'
  BY DEF Restart, ServedOf, Settling

\* An object that the handler makes nothing of is no other spec.
LEMMA DeliverServes ==
  ASSUME TypeOK, NEW n \in Names, ServedOf(n), DeliverSealedSecret(n)
  PROVE  ServedOf(n)'
  <1> DEFINE new == Head(ssWatch[n]).object
  <1>1. UNCHANGED <<ss, secret, secretWatch, workerVars>>
    BY DEF DeliverSealedSecret
  <1>2. \/ DeliverPut(n, new) \/ cache' = [cache EXCEPT ![n] = None]
    BY DEF DeliverSealedSecret, DeliverDelete
  <1> HIDE DEF new
  <1>3. CASE cache' = [cache EXCEPT ![n] = None]
    <2>1. cache'[n] = None
      BY <1>3, CopiesTyped
    <2> QED BY <2>1 DEF ServedOf, Settling
  <1>4. CASE DeliverPut(n, new)
    <2>1. cache'[n] = new
      BY <1>4, CopiesTyped DEF DeliverPut
    <2>2. CASE Add(n)
      <3>1. n \in dirty'
        BY <2>2 DEF Add, Enqueue
      <3> QED BY <3>1 DEF ServedOf, Settling
    <2>3. CASE /\ cache[n] # None /\ cache[n].spec = new.spec /\ UNCHANGED queueVars
               /\ cache[n].uid = new.uid /\ cache[n].scope = new.scope /\ UNCHANGED excuse
      <3>1. Settling(n)' => Settling(n)
        BY <1>1, <2>1, <2>3 DEF Settling, Succeeded, CanUnseal
      <3> QED BY <1>1, <2>1, <2>3, <3>1, ServedStays
    <2>4. CASE excuse' = [excuse EXCEPT ![n] = @ \cup {"suppressed"}]
      <3>1. excuse'[n] # {}
        BY <2>4 DEF TypeOK
      <3> QED BY <3>1 DEF ServedOf, Settling
    <2> QED BY <1>4, <2>2, <2>3, <2>4 DEF DeliverPut, SealedSecretChanged
  <1> QED BY <1>2, <1>3, <1>4

\* The handler of a deletion, or the failure to look the SealedSecret up.
LEMMA DeletionServes ==
  ASSUME TypeOK, NEW n \in Names, Add(n) \/ Miss(n), UNCHANGED ss
  PROVE  ServedOf(n)'
  <1>1. CASE Add(n)
    <2>1. n \in dirty'
      BY <1>1 DEF Add, Enqueue
    <2> QED BY <2>1 DEF ServedOf, Settling
  <1>2. CASE Miss(n)
    <2>1. ss[n] = None \/ excuse'[n] # {}
      BY <1>2 DEF Miss, TypeOK
    <2> QED BY <2>1 DEF ServedOf, Settling
  <1> QED BY <1>1, <1>2

LEMMA RemovalServes ==
  ASSUME TypeOK, NEW n \in Names, RemoveSecret(n)
  PROVE  ServedOf(n)'
  <1> DEFINE e == [type |-> "delete", object |-> secret[n]]
  <1>1. secretWatch[n] \in Seq(SecretEvent)
    BY DEF TypeOK, ClusterTypeOK
  <1>2. secretWatch'[n] = Append(secretWatch[n], e) /\ secret'[n] = None
    BY DEF RemoveSecret, TypeOK, ClusterTypeOK
  <1> HIDE DEF e
  <1>3. Len(Append(secretWatch[n], e)) = Len(secretWatch[n]) + 1 /\ Len(secretWatch[n]) \in Nat
    BY <1>1
  <1>4. Append(secretWatch[n], e) # << >>
    <2>1. \A i \in Nat : i + 1 # 0
      OBVIOUS
    <2>2. Len(<< >>) = 0
      OBVIOUS
    <2> QED BY <1>3, <2>1, <2>2, Zenon
  <1> QED BY <1>2, <1>4 DEF ServedOf

\* A new SealedSecret is none that the informer has seen.
LEMMA UserServes ==
  ASSUME CopiesInv, NEW n \in Names, ServedOf(n), UserPuts(n),
         UNCHANGED <<dirty, delayed, excuse, key, pc, err, cache>>
  PROVE  ServedOf(n)'
  <1> USE DEF CopiesInv
  <1>1. PICK o \in SealedSecret :
           /\ PutSealedSecret(n, o)
           /\ \/ ss[n] = None /\ o.uid = revision + 1
              \/ ss[n] # None /\ o.uid = ss[n].uid
    <2>1. TypeOK
      OBVIOUS
    <2> QED BY <2>1, UserPutsObject
  <1>2. /\ ss'[n] # None /\ ss'[n].uid = o.uid
        /\ secret' = secret /\ secretWatch' = secretWatch
    <2>1. PICK new \in SealedSecret : new # None /\ SameVersion(new, o) /\ ss'[n] = new
      BY <1>1, PutMoves
    <2>2. secret' = secret /\ secretWatch' = secretWatch
      BY <1>1, PutMoves
    <2> QED BY <2>1, <2>2 DEF SameVersion
  <1>3. CASE ss[n] # None
    <2>1. Settling(n)' => Settling(n)
      BY <1>1, <1>2, <1>3 DEF Settling, Succeeded, CanUnseal
    <2> QED BY <1>2, <2>1, ServedStays
  <1>4. CASE ss[n] = None
    <2>1. cache[n] # None => cache[n].uid <= revision /\ cache[n].uid \in Nat
      BY CopiesTyped, SealedSecretTyped DEF Versions, Known
    <2>2. cache[n] # None => cache[n].uid # revision + 1
      BY <2>1, CopiesTyped
    <2> QED BY <1>1, <1>2, <1>4, <2>2 DEF ServedOf, Settling
  <1> QED BY <1>3, <1>4

LEMMA RelistServes ==
  ASSUME TypeOK, NEW n \in Names, ServedOf(n), RelistSecret(n),
         UNCHANGED <<dirty, delayed, excuse, key, pc, err, cache>>
  PROVE  ServedOf(n)'
  <1> DEFINE e == [Head(secretWatch[n]) EXCEPT !.type = "tombstone"]
  <1>1. UNCHANGED <<ss, secret>>
    BY DEF RelistSecret
  <1>2. secret[n] # None \/ secretWatch'[n] # << >>
    <2>1. secretWatch' = [secretWatch EXCEPT ![n] = IF secret[n] # None THEN << >> ELSE <<e>>]
      BY DEF RelistSecret
    <2> HIDE DEF e
    <2>2. secretWatch'[n] = IF secret[n] # None THEN << >> ELSE <<e>>
      BY <2>1 DEF TypeOK, ClusterTypeOK
    <2>3. Len(<<e>>) # Len(<< >>)
      OBVIOUS
    <2> QED BY <2>2, <2>3, Zenon
  <1>3. Settling(n)' => Settling(n)
    BY <1>1 DEF Settling, Succeeded
  <1> QED BY <1>1, <1>2, <1>3, ServedStays

LEMMA WorkerServes ==
  ASSUME CopiesInv, NoLostWork, Deleting, Worker \/ CallFails \/ StatusFails,
         NEW n \in Names, ServedOf(n)
  PROVE  ServedOf(n)'
  <1> USE DEF CopiesInv
  <1>1. CASE TakeKey \/ Fetch \/ DeleteSecret \/ GetSecret
    BY <1>1, TakeKeyServes, FetchServes, DeleteSecretServes, GetSecretServes
  <1>2. CASE CreateSecret \/ UpdateSecret \/ CallFails
    BY <1>2, CreateSecretServes, UpdateSecretServes, CallFailsServes
  <1>3. CASE UpdateStatus \/ StatusFails
    BY <1>3, StatusServes
  <1>4. CASE Finish
    BY <1>4, FinishServes
  <1> QED BY <1>1, <1>2, <1>3, <1>4 DEF Worker

\* A step of the informers or the cluster about n itself.
LEMMA OwnStepServes ==
  ASSUME CopiesInv, NEW n \in Names, ServedOf(n),
         \/ Informers(n) \/ Backoff(n) \/ GarbageCollected(n)
         \/ Users(n) \/ LookupFails(n) \/ Relist(n)
  PROVE  ServedOf(n)'
  <1> USE DEF CopiesInv
  <1>1. CASE DeliverSealedSecret(n)
    BY <1>1, DeliverServes
  <1>2. CASE SecretDeleted(n)
    <2>1. ~Restart => UNCHANGED ss /\ (Add(n) \/ Miss(n))
      BY <1>2 DEF SecretDeleted, FollowDeletion
    <2> QED BY <2>1, RestartServes, DeletionServes
  <1>3. CASE LookupFails(n)
    BY <1>3, DeletionServes DEF LookupFails
  <1>4. CASE Backoff(n)
    <2>1. n \in dirty'
      BY <1>4 DEF Backoff, BackoffElapses, Enqueue
    <2> QED BY <2>1 DEF ServedOf, Settling
  <1>5. CASE RemoveSecret(n)
    BY <1>5, RemovalServes
  <1>6. CASE Users(n) /\ UserPuts(n) /\ UNCHANGED excuse
    BY <1>6, UserServes DEF Users
  <1>7. CASE UserDeletesSealedSecret(n)
    <2>1. ss'[n] = None
      BY <1>7, CopiesTyped DEF UserDeletesSealedSecret
    <2> QED BY <2>1 DEF ServedOf, Settling
  <1>8. CASE excuse' = [excuse EXCEPT ![n] = @ \cup {"edited"}]
    <2>1. excuse'[n] # {}
      BY <1>8 DEF TypeOK
    <2> QED BY <2>1 DEF ServedOf, Settling
  <1>9. CASE Relist(n) /\ RelistSecret(n)
    BY <1>9, RelistServes DEF Relist
  <1>10. CASE Relist(n) /\ RelistSealedSecret(n, cache[n])
    <2>1. UNCHANGED <<ss, secret, secretWatch, cache, dirty, delayed, excuse, workerVars>>
      BY <1>10 DEF Relist, RelistSealedSecret
    <2> QED BY <2>1, AloneStays DEF Alone, Succeeded
  <1>11. CASE Users(n)
    <2>1. \/ UserCreatesSealedSecret(n) \/ UserUpdatesSpec(n) \/ UserUpdatesScope(n) => UserPuts(n)
      BY <1>11, UnchangedCopiesStay DEF Users, UserPuts
    <2> QED BY <1>5, <1>6, <1>7, <1>8, <1>11, <2>1 DEF Users, UserDeletesSecret
  <1>12. CASE GarbageCollected(n)
    BY <1>5, <1>12 DEF GarbageCollected, CollectGarbage
  <1>13. CASE Relist(n)
    BY <1>9, <1>10, <1>13 DEF Relist
  <1> QED BY <1>1, <1>2, <1>3, <1>4, <1>11, <1>12, <1>13 DEF Informers

\* A step of the informers or the cluster about another name.
LEMMA OtherStepServes ==
  ASSUME TypeOK, NEW n \in Names, ServedOf(n), NEW m \in Names, m # n,
         \/ Informers(m) \/ Backoff(m) \/ GarbageCollected(m)
         \/ Users(m) \/ LookupFails(m) \/ Relist(m)
  PROVE  ServedOf(n)'
  <1>1. CASE Restart
    BY <1>1, RestartServes
  <1>2. ASSUME ~Restart
        PROVE  /\ UNCHANGED workerVars
               /\ cache'[n] = cache[n] /\ ss'[n] = ss[n] /\ excuse'[n] = excuse[n]
               /\ secret'[n] = secret[n] /\ secretWatch'[n] = secretWatch[n]
               /\ n \in dirty => n \in dirty'
               /\ n \in delayed => n \in delayed'
    <2> USE DEF TypeOK, ClusterTypeOK
    <2>1. CASE DeliverSealedSecret(m)
      BY <2>1 DEF DeliverSealedSecret, DeliverPut, DeliverDelete, Add, Enqueue
    <2>2. CASE SecretDeleted(m) \/ LookupFails(m)
      <3>1. /\ UNCHANGED <<workerVars, cache, ss, secret>>
            /\ secretWatch' = [secretWatch EXCEPT ![m] = Tail(@)]
            /\ (Add(m) /\ UNCHANGED excuse) \/ Miss(m)
        BY <1>2, <2>2 DEF SecretDeleted, LookupFails, FollowDeletion
      <3>2. CASE Add(m) /\ UNCHANGED excuse
        BY <3>1, <3>2 DEF Add, Enqueue
      <3>3. CASE Miss(m)
        BY <3>1, <3>3 DEF Miss
      <3> QED BY <3>1, <3>2, <3>3
    <2>3. CASE Backoff(m)
      BY <2>3 DEF Backoff, BackoffElapses, Enqueue
    <2>4. CASE GarbageCollected(m)
      BY <2>4 DEF GarbageCollected, CollectGarbage, RemoveSecret
    <2>5. CASE Users(m)
      <3>1. UNCHANGED <<queueVars, informerVars, workerVars>> /\ excuse'[n] = excuse[n]
        BY <2>5 DEF Users
      <3>2. CASE \E o : PutSealedSecret(m, o)
        BY <3>1, <3>2 DEF PutSealedSecret
      <3>3. CASE \E s : PutSecret(m, s)
        BY <3>1, <3>3 DEF PutSecret
      <3>4. CASE RemoveSecret(m)
        BY <3>1, <3>4 DEF RemoveSecret
      <3>5. CASE UserDeletesSealedSecret(m)
        BY <3>1, <3>5 DEF UserDeletesSealedSecret
      <3>6. UserWritesSecret(m) => \E s : PutSecret(m, s)
        BY DEF UserWritesSecret
      <3>7. UserCreatesSealedSecret(m) \/ UserUpdatesSpec(m) \/ UserUpdatesScope(m)
              => \E o : PutSealedSecret(m, o)
        BY DEF UserCreatesSealedSecret, UserUpdatesSpec, UserUpdatesScope
      <3> QED BY <2>5, <3>2, <3>3, <3>4, <3>5, <3>6, <3>7 DEF Users, UserDeletesSecret
    <2>6. CASE Relist(m)
      BY <2>6 DEF Relist, RelistSealedSecret, RelistSecret
    <2> QED BY <2>1, <2>2, <2>3, <2>4, <2>5, <2>6 DEF Informers
  <1>3. CASE ~Restart
    BY <1>2, <1>3, AloneStays DEF Alone, Succeeded
  <1> QED BY <1>1, <1>3

LEMMA NextServed ==
  ASSUME CopiesInv, NoLostWork, Deleting, Served, [Next]_vars
  PROVE  Served'
  <1> SUFFICES ASSUME NEW n \in Names PROVE ServedOf(n)'
    BY DEF Served
  <1>0. ServedOf(n) /\ TypeOK
    BY DEF Served, CopiesInv
  <1>1. CASE Worker \/ CallFails \/ StatusFails
    BY <1>0, <1>1, WorkerServes
  <1>2. CASE Crash
    BY <1>2, RestartServes DEF Crash
  <1>3. ASSUME NEW m \in Names,
               \/ Informers(m) \/ Backoff(m) \/ GarbageCollected(m)
               \/ Users(m) \/ LookupFails(m) \/ Relist(m)
        PROVE  ServedOf(n)'
    BY <1>0, <1>3, OwnStepServes, OtherStepServes
  <1>4. CASE UNCHANGED vars
    BY <1>0, <1>4, AloneStays DEF vars, Alone, Succeeded
  <1> QED BY <1>1, <1>2, <1>3, <1>4 DEF Next

-----------------------------------------------------------------------------
(* At rest.                                                                *)

LEMMA InitAtRest == Init => AtRestInv
  <1> SUFFICES ASSUME Init PROVE AtRestInv
    OBVIOUS
  <1>1. NoLostWork
    BY DEF Init, NoLostWork, CachedSpec
  <1>2. Told /\ Deleting /\ Served
    BY DEF Init, ClusterInit, Told, ToldOf, Deleting, Served, ServedOf, Settling
  <1> QED BY <1>1, <1>2, InitCopies DEF AtRestInv

LEMMA NextAtRest == AtRestInv /\ [Next]_vars => AtRestInv'
  <1> SUFFICES ASSUME AtRestInv, [Next]_vars PROVE AtRestInv'
    OBVIOUS
  <1>1. CopiesInv' /\ NoLostWork'
    BY NextCopies, NextNoLostWork DEF AtRestInv, CopiesInv
  <1>2. Told' /\ Deleting' /\ Served'
    BY NextTold, NextDeleting, NextServed DEF AtRestInv, CopiesInv
  <1> QED BY <1>1, <1>2 DEF AtRestInv

\* Nothing is on its way, so the store holds the SealedSecret as it is, and
\* nothing is to be done, so the Secret holds what the store seals.
LEMMA AtRestIsInStep == AtRestInv => NothingLeftBehind
  <1> SUFFICES ASSUME AtRestInv, NEW n \in Names, AtRest(n), excuse[n] = {}
               PROVE  InStep(n)
    BY DEF NothingLeftBehind
  <1>1. CASE ss[n] = None
    BY <1>1 DEF AtRest, Orphaned, InStep
  <1>2. CASE ss[n] # None
    <2>1. cache[n] # None /\ SameVersion(cache[n], ss[n])
      <3>1. Len(ssWatch[n]) = 0
        BY DEF AtRest
      <3> QED BY <1>2, <3>1 DEF AtRestInv, Told, ToldOf
    <2>2. CanUnseal(ss[n]) => Settling(n)
      BY <1>2, <2>1 DEF AtRest, Settling, Succeeded, SameVersion, CanUnseal
    <2>3. Settling(n) => secret[n] # None /\ Holds(secret[n], cache[n])
      BY DEF AtRestInv, Served, ServedOf, AtRest
    <2> QED BY <1>2, <2>1, <2>2, <2>3 DEF InStep, SameVersion, Holds
  <1> QED BY <1>1, <1>2

(***************************************************************************)
(* The controller leaves nothing behind without having said so: when       *)
(* neither an informer, nor the queue, nor the worker, nor the garbage     *)
(* collector has anything left to do for a name, its Secret holds what the *)
(* SealedSecret seals, or is gone with it, or an excuse was made since the *)
(* last pass (watchSealedSecrets and watchSecrets with their handlers,     *)
(* processNextItem and unseal), whatever crashes, fails or breaks.  It is  *)
(* the safety half of Converges, for any number of names and of troubles.  *)
(***************************************************************************)
THEOREM NothingIsLeftBehind == Spec => []NothingLeftBehind
  <1>1. Spec => []AtRestInv
    BY InitAtRest, NextAtRest, PTL DEF Spec
  <1> QED BY <1>1, AtRestIsInStep, PTL
=============================================================================
