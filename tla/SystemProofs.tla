---------------------------- MODULE SystemProofs ----------------------------
(***************************************************************************)
(* Proofs about the process of the controller: its state has its type, no  *)
(* two workers meet at one SealedSecret, and keys reach the registry that  *)
(* all loops share, whatever the flags name and whatever fails.            *)
(***************************************************************************)
EXTENDS System, TLAPS

AtStartHeld == atStart \subseteq held

\* A loop in the place of an additional namespace is the first of that name, and
\* not the controller's own.
LoopsPlaced ==
    \A l \in loops : l = 0 \/ (l < next /\ ~IsRepeated(l) /\ Additional[l] # First)

InScope(l) ==
    /\ events[l] \subseteq Scope(l) /\ queue[l] \subseteq Scope(l)
    /\ job[l] \in Scope(l) \cup {None}

WorkInScope == \A l \in Places : InScope(l)

IInv == TypeOK /\ AtStartHeld /\ LoopsPlaced /\ WorkInScope /\ KeysArriveForAll

-----------------------------------------------------------------------------
\* The places and their names have their types.
LEMMA PlacesOK ==
    /\ 0 \in Places
    /\ \A l \in Places \ {0} : Additional[l] \in Namespaces
    /\ First \in Namespaces \cup {Everywhere}
    /\ \A l \in Places : Scope(l) \subseteq Namespaces
    /\ Len(Additional) \in Nat
    /\ Own \in Namespaces /\ None \notin Namespaces /\ None \notin Keys
<1>1. Additional \in Seq(Namespaces) /\ Own \in Namespaces /\ Everywhere \notin Namespaces
      /\ None \notin Namespaces /\ None \notin Keys
  BY SystemAssumption
<1>2. Len(Additional) \in Nat /\ \A l \in 1 .. Len(Additional) : Additional[l] \in Namespaces
  BY <1>1
<1>3. Places \ {0} = 1 .. Len(Additional) /\ 0 \in Places
  BY <1>2 DEF Places
<1>4. First \in Namespaces \cup {Everywhere}
  BY <1>1 DEF First
<1>5. \A l \in Places : Scope(l) \subseteq Namespaces
  BY <1>1, <1>2, <1>3, <1>4 DEF Scope, Namespace
<1> QED BY <1>1, <1>2, <1>3, <1>4, <1>5

\* No two running loops have a SealedSecret in common.
LEMMA ScopesAreDisjoint ==
    ASSUME LoopsPlaced, loops \subseteq Places,
           NEW l \in loops, NEW m \in loops, l # m
    PROVE  Scope(l) \cap Scope(m) = {}
<1> USE PlacesOK
<1>1. \A x \in loops : x # 0 => Scope(x) = {Additional[x]}
  BY SystemAssumption DEF Scope, Namespace
<1>2. \A x \in loops : x # 0 => First = Own
  <2> SUFFICES ASSUME NEW x \in loops, x # 0 PROVE First = Own
    OBVIOUS
  <2>1. Len(Additional) # 0
    BY DEF Places
  <2>2. Additional # <<>>
    BY <2>1
  <2> QED BY <2>2 DEF First
<1>3. \A x \in loops : x # 0 => Scope(0) = {Own}
  BY <1>2, SystemAssumption DEF Scope, Namespace
<1>4. \A x \in loops : x # 0 => Additional[x] # Own
  BY <1>2 DEF LoopsPlaced
<1>5. CASE l = 0 \/ m = 0
  BY <1>1, <1>3, <1>4, <1>5
<1>6. CASE l # 0 /\ m # 0
  <2>1. l < m \/ m < l
    BY DEF Places
  <2>2. l \in 1 .. Len(Additional) /\ m \in 1 .. Len(Additional)
    BY <1>6 DEF Places
  <2>3. Additional[l] # Additional[m]
    BY <1>6, <2>1, <2>2 DEF LoopsPlaced, IsRepeated
  <2> QED BY <1>1, <1>6, <2>3
<1> QED BY <1>5, <1>6

\* The inductive invariant holds two workers apart.
LEMMA IInvImplies == IInv => OneWorkerPerObject
<1> SUFFICES ASSUME IInv, NEW l \in loops, NEW m \in loops, l # m, job[l] # None
             PROVE  job[l] # job[m]
  BY DEF OneWorkerPerObject
<1>1. LoopsPlaced /\ loops \subseteq Places /\ InScope(l) /\ InScope(m)
  BY DEF IInv, TypeOK, WorkInScope
<1>2. Scope(l) \cap Scope(m) = {}
  BY <1>1, ScopesAreDisjoint
<1> QED BY <1>1, <1>2 DEF InScope

-----------------------------------------------------------------------------
\* The end of the process re-establishes the invariant.
LEMMA DownPreserves ==
    ASSUME IInv, Down, UNCHANGED <<clusterVars, opened, gaveUp>>,
           changes' \in Nat, troubles' \in Nat
    PROVE  IInv'
<1> USE PlacesOK, SystemAssumption DEF Down, clusterVars
<1>1. TypeOK'
  BY DEF IInv, TypeOK
<1>2. AtStartHeld' /\ LoopsPlaced' /\ KeysArriveForAll'
  BY DEF AtStartHeld, LoopsPlaced, KeysArriveForAll
<1>3. WorkInScope'
  BY DEF WorkInScope, InScope
<1> QED BY <1>1, <1>2, <1>3 DEF IInv

\* A loop that is launched in a place that is free and fit for it.
LEMMA LaunchPreserves ==
    ASSUME IInv, NEW l \in Places, Launch(l),
           UNCHANGED <<clusterVars, held, atStart>>,
           phase \in {"loaded", "additional"}, phase' = "additional"
    PROVE  /\ loops' \subseteq Places
           /\ unseen' \in [Places -> SUBSET Keys]
           /\ events' \in [Places -> SUBSET Namespaces]
           /\ WorkInScope' /\ KeysArriveForAll'
<1> USE PlacesOK DEF Launch, clusterVars
<1>1. TypeOK /\ WorkInScope /\ KeysArriveForAll
  BY DEF IInv
<1>2. /\ loops' \subseteq Places
      /\ unseen' \in [Places -> SUBSET Keys]
      /\ events' \in [Places -> SUBSET Namespaces]
  BY <1>1 DEF TypeOK, Good, Unreadable
<1>3. WorkInScope'
  <2> SUFFICES ASSUME NEW m \in Places PROVE InScope(m)'
    BY DEF WorkInScope
  <2>1. events'[m] \subseteq Scope(m)
    BY <1>1 DEF TypeOK, WorkInScope, InScope
  <2> QED BY <1>1, <2>1 DEF WorkInScope, InScope
<1>4. KeysArriveForAll'
  <2> SUFFICES ASSUME NEW k \in Good, k \notin held
               PROVE  k \notin atStart /\ (WatchForSecrets => \A m \in loops' : k \in unseen'[m])
    BY DEF KeysArriveForAll, Good
  <2>1. k \notin atStart /\ (WatchForSecrets => \A m \in loops : k \in unseen[m])
    BY <1>1 DEF KeysArriveForAll
  <2> QED BY <1>1, <2>1 DEF TypeOK
<1> QED BY <1>2, <1>3, <1>4

\* Main.
LEMMA MainPreserves == IInv /\ MainSteps => IInv'
<1> SUFFICES ASSUME IInv, MainSteps PROVE IInv'
  OBVIOUS
<1> USE PlacesOK
<1>0. TypeOK /\ AtStartHeld /\ LoopsPlaced /\ WorkInScope /\ KeysArriveForAll
  BY DEF IInv
<1>1. CASE InitKeyRegistry
  <2> USE <1>1 DEF InitKeyRegistry, counters, loopVars
  <2>1. stored' \in [Keys -> {"none", "good", "bad", "gone"}]
    BY <1>0 DEF TypeOK
  <2>2. TypeOK'
    BY <1>0, <2>1 DEF TypeOK
  <2>3. AtStartHeld' /\ LoopsPlaced' /\ WorkInScope'
    BY <1>0 DEF AtStartHeld, LoopsPlaced, WorkInScope, InScope
  <2>4. KeysArriveForAll'
    BY DEF KeysArriveForAll, Good
  <2> QED BY <2>2, <2>3, <2>4 DEF IInv
<1>2. CASE StartFirst
  <2> USE <1>2 DEF StartFirst, counters
  <2>1. /\ loops' \subseteq Places
        /\ unseen' \in [Places -> SUBSET Keys]
        /\ events' \in [Places -> SUBSET Namespaces]
        /\ WorkInScope' /\ KeysArriveForAll'
    BY LaunchPreserves
  <2>2. TypeOK'
    BY <1>0, <2>1 DEF TypeOK, Launch, clusterVars
  <2>3. LoopsPlaced'
    BY <1>0 DEF LoopsPlaced, Launch
  <2> QED BY <1>0, <2>1, <2>2, <2>3 DEF IInv, AtStartHeld
<1>3. CASE NextAdditional
  <2> USE <1>3 DEF NextAdditional, counters
  <2>1. next \in 1 .. Len(Additional) /\ next \in Places \ {0}
    BY <1>0 DEF TypeOK, Places
  <2>2. CASE UNCHANGED <<loops, loopVars>>
    <3>1. TypeOK'
      <4>1. /\ UNCHANGED <<clusterVars, opened, phase, held, atStart, gaveUp, counters>>
            /\ UNCHANGED <<loops, unseen, events, queue, job, tries>>
            /\ next' \in 1 .. Len(Additional) + 1
        BY <2>1, <2>2 DEF loopVars
      <4> HIDE DEF NextAdditional
      <4> QED BY <1>0, <4>1 DEF TypeOK, clusterVars
    <3>2. LoopsPlaced'
      BY <1>0, <2>1, <2>2 DEF LoopsPlaced, TypeOK, Places
    <3>3. WorkInScope' /\ KeysArriveForAll' /\ AtStartHeld'
      BY <1>0, <2>2 DEF WorkInScope, InScope, KeysArriveForAll, AtStartHeld, Good, loopVars,
         clusterVars
    <3> QED BY <3>1, <3>2, <3>3 DEF IInv
  <2>3. CASE ~IsRepeated(next) /\ Additional[next] # First /\ Launch(next)
    <3>1. /\ loops' \subseteq Places
          /\ unseen' \in [Places -> SUBSET Keys]
          /\ events' \in [Places -> SUBSET Namespaces]
          /\ WorkInScope' /\ KeysArriveForAll'
      BY <2>1, <2>3, LaunchPreserves
    <3>2. TypeOK'
      <4>1. /\ UNCHANGED <<clusterVars, opened, phase, held, atStart, gaveUp, counters>>
            /\ UNCHANGED <<queue, job, tries>> /\ phase = "additional"
            /\ next' \in 1 .. Len(Additional) + 1
        BY <2>1, <2>3 DEF Launch
      <4> HIDE DEF NextAdditional
      <4> QED BY <1>0, <3>1, <4>1 DEF TypeOK, clusterVars
    <3>3. LoopsPlaced'
      <4> SUFFICES ASSUME NEW l \in loops \cup {next}, l # 0
                   PROVE  l < next + 1 /\ ~IsRepeated(l) /\ Additional[l] # First
        BY <2>3 DEF LoopsPlaced, Launch
      <4>1. CASE l = next
        BY <2>1, <2>3, <4>1
      <4>2. CASE l \in loops
        BY <1>0, <2>1, <4>2 DEF LoopsPlaced, TypeOK, Places
      <4> QED BY <4>1, <4>2
    <3> QED BY <1>0, <3>1, <3>2, <3>3 DEF IInv, AtStartHeld
  <2> QED BY <2>2, <2>3
<1>4. CASE Serve
  <2> USE <1>4 DEF Serve, counters, loopVars, clusterVars
  <2>1. TypeOK'
    BY <1>0 DEF TypeOK
  <2>2. AtStartHeld' /\ LoopsPlaced' /\ WorkInScope' /\ KeysArriveForAll'
    BY <1>0 DEF AtStartHeld, LoopsPlaced, WorkInScope, InScope, KeysArriveForAll, Good
  <2> QED BY <2>1, <2>2 DEF IInv
<1> QED BY <1>1, <1>2, <1>3, <1>4 DEF MainSteps

\* The ways in which the process ends.
LEMMA EndPreserves ==
    ASSUME IInv, NEW l \in loops, NamespaceCallFails \/ Crash \/ MapFault(l)
    PROVE  IInv'
<1>1. changes' \in Nat /\ troubles' \in Nat /\ Down /\ UNCHANGED <<clusterVars, opened, gaveUp>>
  BY DEF IInv, TypeOK, NamespaceCallFails, Crash, MapFault, Trouble
<1> QED BY <1>1, DownPreserves

LEMMA EndPreservesAlone == IInv /\ (NamespaceCallFails \/ Crash) => IInv'
<1> SUFFICES ASSUME IInv, NamespaceCallFails \/ Crash PROVE IInv'
  OBVIOUS
<1>1. changes' \in Nat /\ troubles' \in Nat /\ Down /\ UNCHANGED <<clusterVars, opened, gaveUp>>
  BY DEF IInv, TypeOK, NamespaceCallFails, Crash, Trouble
<1> QED BY <1>1, DownPreserves

\* Key Secrets.
LEMMA KeysPreserve ==
    ASSUME IInv, NEW k \in Keys, Renew(k) \/ ImportKey(k) \/ RemoveUnreadable(k)
    PROVE  IInv'
<1> USE PlacesOK
<1>0. TypeOK /\ AtStartHeld /\ LoopsPlaced /\ WorkInScope /\ KeysArriveForAll
  BY DEF IInv
<1>a. UNCHANGED <<exists, sealed, opened, mainVars, events, queue, job, tries, gaveUp>>
  BY DEF Renew, ImportKey, RemoveUnreadable, loopVars
<1>b. LoopsPlaced' /\ WorkInScope'
  BY <1>0, <1>a DEF LoopsPlaced, WorkInScope, InScope, mainVars
<1>c. /\ stored' \in [Keys -> {"none", "good", "bad", "gone"}]
      /\ unseen' \in [Places -> SUBSET Keys]
      /\ changes' \in Nat /\ troubles' \in Nat
  <2>1. stored' \in [Keys -> {"none", "good", "bad", "gone"}]
    BY <1>0 DEF TypeOK, Renew, ImportKey, RemoveUnreadable, KeyStored
  <2>2. unseen' \in [Places -> SUBSET Keys]
    <3>1. CASE \E how \in {"good", "bad"} : KeyStored(k, how)
      BY <1>0, <3>1 DEF TypeOK, KeyStored
    <3>2. CASE RemoveUnreadable(k)
      BY <1>0, <3>2 DEF TypeOK, RemoveUnreadable, loopVars
    <3> QED BY <3>1, <3>2 DEF Renew, ImportKey
  <2>3. changes' \in Nat /\ troubles' \in Nat
    <3>1. CASE Change
      BY <1>0, <3>1 DEF TypeOK, Change
    <3>2. CASE UNCHANGED counters
      BY <1>0, <3>2 DEF TypeOK, counters
    <3> QED BY <3>1, <3>2 DEF Renew, ImportKey, RemoveUnreadable
  <2> QED BY <2>1, <2>2, <2>3
<1>d. k \notin held
  BY <1>0 DEF Renew, ImportKey, RemoveUnreadable, TypeOK, InUse
<1>e. held' \subseteq {x \in Keys : stored'[x] = "good"}
  BY <1>0, <1>d DEF Renew, ImportKey, RemoveUnreadable, KeyStored, TypeOK
<1>1. TypeOK'
  BY <1>0, <1>a, <1>c, <1>e DEF TypeOK, mainVars
<1>2. AtStartHeld'
  BY <1>0, <1>a DEF AtStartHeld, Renew, ImportKey, RemoveUnreadable, mainVars
<1>3. KeysArriveForAll'
  <2> SUFFICES ASSUME phase' # "down", NEW x \in Good', x \notin held'
               PROVE  x \notin atStart' /\ (WatchForSecrets => \A l \in loops' : x \in unseen'[l])
    BY DEF KeysArriveForAll
  <2>1. x \in Keys /\ phase # "down" /\ x \notin held /\ atStart' = atStart /\ loops' = loops
    BY <1>a DEF Good, mainVars, Renew, ImportKey, RemoveUnreadable
  <2>2. CASE x = k
    <3>1. ImportKey(k)
      BY <1>0, <2>1, <2>2 DEF Good, Renew, RemoveUnreadable, KeyStored, TypeOK
    <3>2. \A l \in loops : WatchForSecrets => x \in unseen'[l]
      BY <1>0, <2>2, <3>1 DEF ImportKey, KeyStored, TypeOK
    <3>3. x \notin atStart
      BY <1>0, <1>d, <2>2 DEF AtStartHeld
    <3> QED BY <2>1, <3>2, <3>3
  <2>3. CASE x # k
    <3>1. x \in Good
      BY <1>0, <2>1, <2>3 DEF Good, Renew, ImportKey, RemoveUnreadable, KeyStored, TypeOK
    <3>2. x \notin atStart /\ (WatchForSecrets => \A l \in loops : x \in unseen[l])
      BY <1>0, <2>1, <3>1 DEF KeysArriveForAll
    <3>3. \A l \in loops : unseen[l] \subseteq unseen'[l]
      BY <1>0 DEF Renew, ImportKey, RemoveUnreadable, KeyStored, TypeOK, loopVars
    <3> QED BY <2>1, <3>2, <3>3
  <2> QED BY <2>2, <2>3
<1> QED BY <1>b, <1>1, <1>2, <1>3 DEF IInv

\* The informer of key Secrets.
LEMMA SeeKeyPreserves ==
    ASSUME IInv, NEW l \in loops, SeeKey(l)
    PROVE  IInv'
<1> USE PlacesOK
<1>0. TypeOK /\ AtStartHeld /\ LoopsPlaced /\ WorkInScope /\ KeysArriveForAll
  BY DEF IInv
<1>1. PICK k \in unseen[l] :
        /\ \/ /\ stored[k] = "good"
              /\ unseen' = [unseen EXCEPT ![l] = @ \ {k}]
              /\ held' = held \cup {k}
              /\ UNCHANGED <<mainVars, events, queue, job, tries>>
           \/ Down
        /\ UNCHANGED <<clusterVars, opened, gaveUp, counters>>
  BY DEF SeeKey
<1>2. CASE Down
  <2>1. changes' \in Nat /\ troubles' \in Nat
    BY <1>0, <1>1 DEF TypeOK, counters
  <2> QED BY <1>1, <1>2, <2>1, DownPreserves
<1>3. CASE ~Down
  <2>a. /\ stored[k] = "good" /\ unseen' = [unseen EXCEPT ![l] = @ \ {k}]
        /\ held' = held \cup {k}
        /\ UNCHANGED <<mainVars, events, queue, job, tries>>
        /\ UNCHANGED <<clusterVars, opened, gaveUp, counters>>
    BY <1>1, <1>3
  <2> USE <2>a DEF clusterVars, mainVars, counters
  <2>1. l \in Places /\ k \in Keys
    BY <1>0 DEF TypeOK
  <2>2. TypeOK'
    <3>1. held' \subseteq {x \in Keys : stored'[x] = "good"}
      BY <1>0, <2>1 DEF TypeOK
    <3>2. unseen' \in [Places -> SUBSET Keys]
      BY <1>0, <2>1 DEF TypeOK
    <3> QED BY <1>0, <3>1, <3>2 DEF TypeOK
  <2>3. AtStartHeld' /\ LoopsPlaced' /\ WorkInScope'
    BY <1>0 DEF AtStartHeld, LoopsPlaced, WorkInScope, InScope
  <2>4. KeysArriveForAll'
    <3> SUFFICES ASSUME phase' # "down", NEW x \in Good', x \notin held'
                 PROVE  x \notin atStart' /\ (WatchForSecrets => \A m \in loops' : x \in unseen'[m])
      BY DEF KeysArriveForAll
    <3>1. x \in Good /\ phase # "down" /\ x \notin held /\ x # k
      BY DEF Good
    <3>2. x \notin atStart /\ (WatchForSecrets => \A m \in loops : x \in unseen[m])
      BY <1>0, <3>1 DEF KeysArriveForAll
    <3>3. \A m \in loops : unseen[m] \ {k} \subseteq unseen'[m]
      BY <1>0, <2>1 DEF TypeOK
    <3> QED BY <3>1, <3>2, <3>3
  <2> QED BY <2>2, <2>3, <2>4 DEF IInv
<1> QED BY <1>2, <1>3

\* SealedSecrets, and the loops.
LEMMA ApplyPreserves ==
    ASSUME IInv, NEW n \in Namespaces, NEW k \in Keys \cup {None}, Apply(n, k)
    PROVE  IInv'
<1> USE PlacesOK DEF Apply, mainVars
<1>0. TypeOK /\ AtStartHeld /\ LoopsPlaced /\ WorkInScope /\ KeysArriveForAll
  BY DEF IInv
<1>1. sealed' \in [Namespaces -> Keys \cup {None}] /\ opened' \in [Namespaces -> BOOLEAN]
      /\ gaveUp' \in [Namespaces -> BOOLEAN] /\ events' \in [Places -> SUBSET Namespaces]
      /\ changes' \in Nat /\ troubles' \in Nat
  BY <1>0 DEF TypeOK, Change
<1>2. TypeOK'
  BY <1>0, <1>1 DEF TypeOK
<1>3. AtStartHeld' /\ LoopsPlaced' /\ KeysArriveForAll'
  BY <1>0 DEF AtStartHeld, LoopsPlaced, KeysArriveForAll, Good
<1>4. WorkInScope'
  <2> SUFFICES ASSUME NEW l \in Places PROVE InScope(l)'
    BY DEF WorkInScope
  <2>1. events'[l] \subseteq Scope(l)
    BY <1>0 DEF WorkInScope, InScope
  <2> QED BY <1>0, <2>1 DEF WorkInScope, InScope
<1> QED BY <1>2, <1>3, <1>4 DEF IInv

LEMMA CreateNamespacePreserves ==
    ASSUME IInv, NEW n \in Namespaces, CreateNamespace(n)
    PROVE  IInv'
<1> USE DEF CreateNamespace, mainVars, loopVars
<1>0. TypeOK /\ AtStartHeld /\ LoopsPlaced /\ WorkInScope /\ KeysArriveForAll
  BY DEF IInv
<1>1. TypeOK'
  BY <1>0 DEF TypeOK, Change
<1>2. AtStartHeld' /\ LoopsPlaced' /\ WorkInScope' /\ KeysArriveForAll'
  BY <1>0 DEF AtStartHeld, LoopsPlaced, WorkInScope, InScope, KeysArriveForAll, Good
<1> QED BY <1>1, <1>2 DEF IInv

\* A step of a loop that leaves the registry and its keys alone.
LEMMA LoopPreserves ==
    ASSUME IInv, NEW l \in loops, Notify(l) \/ Take(l) \/ Pass(l)
    PROVE  IInv'
<1> USE PlacesOK
<1>0. TypeOK /\ AtStartHeld /\ LoopsPlaced /\ WorkInScope /\ KeysArriveForAll /\ l \in Places
  BY DEF IInv, TypeOK
<1>a. UNCHANGED <<clusterVars, mainVars, held, unseen>>
  BY DEF Notify, Take, Pass, Opens, PassFails
<1>b. AtStartHeld' /\ LoopsPlaced' /\ KeysArriveForAll'
  BY <1>0, <1>a DEF AtStartHeld, LoopsPlaced, KeysArriveForAll, Good, clusterVars, mainVars
<1>1. CASE Notify(l)
  <2> USE <1>1 DEF Notify, counters
  <2>1. TypeOK'
    BY <1>0, <1>a DEF TypeOK, clusterVars, mainVars
  <2>2. WorkInScope'
    BY <1>0 DEF TypeOK, WorkInScope, InScope
  <2> QED BY <1>b, <2>1, <2>2 DEF IInv
<1>2. CASE Take(l)
  <2> USE <1>2 DEF Take, counters
  <2>1. TypeOK'
    BY <1>0, <1>a DEF TypeOK, clusterVars, mainVars
  <2>2. WorkInScope'
    BY <1>0 DEF TypeOK, WorkInScope, InScope
  <2> QED BY <1>b, <2>1, <2>2 DEF IInv
<1>3. CASE Pass(l)
  <2>1. job[l] \in Namespaces /\ job[l] \in Scope(l)
    BY <1>0, <1>3 DEF Pass, Opens, PassFails, TypeOK, WorkInScope, InScope
  <2>2. job' \in [Places -> Namespaces \cup {None}] /\ events' = events
    BY <1>0, <1>3 DEF Pass, Opens, PassFails, Done, TypeOK
  <2>3. tries' \in [Places -> [Namespaces -> 0..MaxRetries]]
    <3>1. CASE tries' = [tries EXCEPT ![l][job[l]] = 0]
      BY <1>0, <2>1, <3>1, SystemAssumption DEF TypeOK
    <3>2. CASE tries[l][job[l]] < MaxRetries
               /\ tries' = [tries EXCEPT ![l][job[l]] = tries[l][job[l]] + 1]
      <4>1. tries[l][job[l]] + 1 \in 0..MaxRetries
        BY <1>0, <2>1, <3>2, SystemAssumption DEF TypeOK
      <4> QED BY <1>0, <2>1, <3>2, <4>1 DEF TypeOK
    <3> QED BY <1>3, <3>1, <3>2 DEF Pass, Opens, PassFails, Retries, Forget
  <2>4. queue' \in [Places -> SUBSET Namespaces]
        /\ \A m \in Places : queue'[m] \subseteq Scope(m)
    <3>1. CASE queue' = queue
      BY <1>0, <3>1 DEF TypeOK, WorkInScope, InScope
    <3>2. CASE queue' = [queue EXCEPT ![l] = @ \cup {job[l]}]
      BY <1>0, <2>1, <3>2 DEF TypeOK, WorkInScope, InScope
    <3> QED BY <1>3, <3>1, <3>2 DEF Pass, Opens, PassFails, Retries
  <2>5. opened' \in [Namespaces -> BOOLEAN] /\ changes' \in Nat /\ troubles' \in Nat
    <3>1. opened' \in [Namespaces -> BOOLEAN]
      <4>1. opened' = opened \/ opened' = [opened EXCEPT ![job[l]] = TRUE]
        BY <1>3 DEF Pass, Opens, PassFails
      <4> QED BY <1>0, <4>1 DEF TypeOK
    <3>2. UNCHANGED counters \/ Trouble
      BY <1>3 DEF Pass, Opens, PassFails
    <3> QED BY <1>0, <3>1, <3>2 DEF TypeOK, Trouble, counters
  <2>6. gaveUp' \in [Namespaces -> BOOLEAN]
    <3>1. CASE gaveUp' = gaveUp
      BY <1>0, <3>1 DEF TypeOK
    <3>2. CASE \E b \in BOOLEAN : gaveUp' = [gaveUp EXCEPT ![job[l]] = b]
      BY <1>0, <3>2 DEF TypeOK
    <3>3. (job[l] \notin events[l] \cup queue[l]) \in BOOLEAN
      OBVIOUS
    <3> QED BY <1>3, <3>1, <3>2, <3>3 DEF Pass, Opens, PassFails, Retries
  <2>7. TypeOK'
    BY <1>0, <1>a, <2>2, <2>3, <2>4, <2>5, <2>6 DEF TypeOK, clusterVars, mainVars
  <2>8. WorkInScope'
    BY <1>0, <1>3, <2>2, <2>4 DEF Pass, Opens, PassFails, Done, TypeOK, WorkInScope, InScope
  <2> QED BY <1>b, <2>7, <2>8 DEF IInv
<1> QED BY <1>1, <1>2, <1>3

-----------------------------------------------------------------------------
LEMMA InitEstablishes == Init => IInv
<1> SUFFICES ASSUME Init PROVE IInv
  OBVIOUS
<1> USE PlacesOK, SystemAssumption DEF Init
<1>1. TypeOK
  BY DEF TypeOK
<1>2. AtStartHeld /\ LoopsPlaced /\ WorkInScope /\ KeysArriveForAll
  BY DEF AtStartHeld, LoopsPlaced, WorkInScope, InScope, KeysArriveForAll
<1> QED BY <1>1, <1>2 DEF IInv

LEMMA StepPreserves == IInv /\ [Next]_vars => IInv'
<1> SUFFICES ASSUME IInv, [Next]_vars PROVE IInv'
  OBVIOUS
<1>1. CASE MainSteps
  BY <1>1, MainPreserves
<1>2. CASE NamespaceCallFails \/ Crash
  BY <1>2, EndPreservesAlone
<1>3. CASE \E k \in Keys : Renew(k) \/ ImportKey(k) \/ RemoveUnreadable(k)
  BY <1>3, KeysPreserve
<1>4. CASE \E n \in Namespaces : CreateNamespace(n)
  BY <1>4, CreateNamespacePreserves
<1>5. CASE \E n \in Namespaces : \E k \in Keys \cup {None} : Apply(n, k)
  BY <1>5, ApplyPreserves
<1>6. CASE \E l \in loops : SeeKey(l)
  BY <1>6, SeeKeyPreserves
<1>7. CASE \E l \in loops : MapFault(l)
  BY <1>7, EndPreserves
<1>8. CASE \E l \in loops : Notify(l) \/ Take(l) \/ Pass(l)
  BY <1>8, LoopPreserves
<1>9. CASE UNCHANGED vars
  <2> USE <1>9 DEF vars, clusterVars, mainVars, loopVars, counters
  <2>1. TypeOK'
    BY DEF IInv, TypeOK
  <2>2. AtStartHeld' /\ LoopsPlaced' /\ WorkInScope' /\ KeysArriveForAll'
    BY DEF IInv, AtStartHeld, LoopsPlaced, WorkInScope, InScope, KeysArriveForAll, Good
  <2> QED BY <2>1, <2>2 DEF IInv
<1> QED BY <1>1, <1>2, <1>3, <1>4, <1>5, <1>6, <1>7, <1>8, <1>9 DEF Next

-----------------------------------------------------------------------------
(* No SealedSecret in the scope of a loop is forgotten.                    *)

Handled(l, n) == sealed[n] # None => opened[n] \/ gaveUp[n] \/ Pending(l, n)

\* Steps that have nothing to do with SealedSecrets.
Elsewhere == UNCHANGED <<sealed, opened, gaveUp, loops, events, queue, job>>

LEMMA MainHandles ==
    ASSUME IInv, NothingForgotten, MainSteps
    PROVE  NothingForgotten'
<1> USE PlacesOK
<1>0. TypeOK /\ loops \subseteq Places
  BY DEF IInv, TypeOK
<1>1. ASSUME NEW l \in Places, Launch(l), UNCHANGED <<sealed, opened, gaveUp>>
      PROVE  NothingForgotten'
  <2> SUFFICES ASSUME NEW m \in loops', NEW n \in Scope(m) PROVE Handled(m, n)'
    BY DEF NothingForgotten, Handled
  <2>1. CASE m = l
    <3>1. events'[m] = {x \in Scope(m) : sealed[x] # None}
      BY <1>0, <1>1, <2>1 DEF Launch, TypeOK
    <3> QED BY <1>1, <3>1 DEF Handled, Pending
  <2>2. CASE m # l
    <3>1. m \in loops /\ m \in Places
      BY <1>0, <1>1, <2>2 DEF Launch
    <3>2. events'[m] = events[m] /\ UNCHANGED <<queue, job>>
      BY <1>0, <1>1, <2>2, <3>1 DEF Launch, TypeOK
    <3>3. Handled(m, n)
      BY <3>1 DEF NothingForgotten, Handled
    <3> QED BY <1>1, <3>2, <3>3 DEF Handled, Pending
  <2> QED BY <2>1, <2>2
<1>2. CASE Elsewhere
  BY <1>2 DEF Elsewhere, NothingForgotten, Pending
<1>3. CASE InitKeyRegistry
  <2>1. loops' = {}
    BY <1>0, <1>3 DEF InitKeyRegistry, TypeOK
  <2> QED BY <2>1 DEF NothingForgotten
<1>4. CASE StartFirst
  <2>1. Launch(0) /\ UNCHANGED <<sealed, opened, gaveUp>>
    BY <1>4 DEF StartFirst, clusterVars
  <2> QED BY <1>1, <2>1
<1>5. CASE NextAdditional
  <2>1. UNCHANGED <<sealed, opened, gaveUp>> /\ next \in Places
    BY <1>0, <1>5 DEF NextAdditional, clusterVars, TypeOK, Places
  <2>2. Launch(next) \/ UNCHANGED <<loops, loopVars>>
    BY <1>5 DEF NextAdditional
  <2> QED BY <1>1, <1>2, <2>1, <2>2 DEF Elsewhere, loopVars
<1>6. CASE Serve
  BY <1>2, <1>6 DEF Serve, Elsewhere, clusterVars, loopVars
<1> QED BY <1>3, <1>4, <1>5, <1>6 DEF MainSteps

\* A pass ends for the SealedSecret that the worker of loop l was at: no other
\* loop has it in its scope.
LEMMA PassHandles ==
    ASSUME IInv, NothingForgotten, NEW l \in loops, Pass(l)
    PROVE  NothingForgotten'
<1> USE PlacesOK
<1>0. TypeOK /\ loops \subseteq Places /\ LoopsPlaced /\ InScope(l)
  BY DEF IInv, TypeOK, WorkInScope
<1>a. job[l] \in Scope(l) /\ job[l] \in Namespaces
  BY <1>0 DEF Pass, Opens, PassFails, InScope
<1>b. PICK j \in Namespaces : j = job[l]
  BY <1>a
<1> USE <1>b
<1>1. /\ j \in Scope(l) /\ j \in Namespaces
      /\ job' = [job EXCEPT ![l] = None]
      /\ UNCHANGED <<loops, sealed, events>>
  BY <1>a DEF Pass, Opens, PassFails, Done, clusterVars, mainVars
<1>2. /\ \A n \in Namespaces \ {j} : opened'[n] = opened[n] /\ gaveUp'[n] = gaveUp[n]
      /\ \A m \in Places : queue[m] \subseteq queue'[m]
  <2>1. opened' = opened \/ opened' = [opened EXCEPT ![j] = TRUE]
    BY DEF Pass, Opens, PassFails
  <2>2. queue' = queue \/ queue' = [queue EXCEPT ![l] = @ \cup {j}]
    BY DEF Pass, Opens, PassFails, Retries
  <2>3. \/ gaveUp' = gaveUp
        \/ gaveUp' = [gaveUp EXCEPT ![j] = FALSE]
        \/ gaveUp' = [gaveUp EXCEPT ![j] = j \notin events[l] \cup queue[l]]
    BY DEF Pass, Opens, PassFails, Retries
  <2>4. \A n \in Namespaces \ {j} : opened'[n] = opened[n]
    BY <1>0, <2>1 DEF TypeOK
  <2>5. \A n \in Namespaces \ {j} : gaveUp'[n] = gaveUp[n]
    BY <1>0, <2>3 DEF TypeOK
  <2>6. ASSUME NEW m \in Places PROVE queue[m] \subseteq queue'[m]
    <3>1. queue'[m] = queue[m] \/ queue'[m] = queue[m] \cup {j}
      BY <1>0, <2>2 DEF TypeOK
    <3> QED BY <3>1
  <2> QED BY <2>4, <2>5, <2>6
<1>3. Handled(l, j)'
  <2>1. CASE Opens(l)
    <3>1. opened'[j] \/ sealed[j] = None \/ j \in events[l]
      BY <1>0, <1>1, <2>1 DEF Opens, TypeOK
    <3> QED BY <1>1, <3>1 DEF Handled, Pending
  <2>2. CASE PassFails(l)
    <3>1. CASE queue' = [queue EXCEPT ![l] = @ \cup {j}]
      BY <1>0, <1>1, <3>1 DEF Handled, Pending, TypeOK
    <3>2. CASE /\ queue' = queue
               /\ gaveUp' = [gaveUp EXCEPT ![j] = j \notin events[l] \cup queue[l]]
      BY <1>0, <1>1, <3>2 DEF Handled, Pending, TypeOK
    <3> QED BY <2>2, <3>1, <3>2 DEF PassFails, Retries
  <2> QED BY <2>1, <2>2 DEF Pass
<1> SUFFICES ASSUME NEW m \in loops, NEW n \in Scope(m), ~(m = l /\ n = j)
             PROVE  Handled(m, n)'
  BY <1>1, <1>3 DEF NothingForgotten, Handled
<1>4. n # j
  BY <1>0, <1>1, ScopesAreDisjoint
<1>5. Handled(m, n) /\ n \in Namespaces /\ m \in Places
  BY <1>0 DEF NothingForgotten, Handled
<1>6. Pending(m, n) => Pending(m, n)'
  BY <1>0, <1>1, <1>2, <1>4, <1>5 DEF Pending, TypeOK
<1> QED BY <1>1, <1>2, <1>4, <1>5, <1>6 DEF Handled

LEMMA NextHandles == IInv /\ NothingForgotten /\ [Next]_vars => NothingForgotten'
<1> SUFFICES ASSUME IInv, NothingForgotten, [Next]_vars PROVE NothingForgotten'
  OBVIOUS
<1> USE PlacesOK
<1>0. TypeOK /\ loops \subseteq Places
  BY DEF IInv, TypeOK
<1>1. CASE Elsewhere
  BY <1>1 DEF Elsewhere, NothingForgotten, Pending
<1>2. CASE Down
  BY <1>2 DEF Down, NothingForgotten
<1>3. CASE NamespaceCallFails \/ Crash \/ \E l \in loops : MapFault(l)
  BY <1>2, <1>3 DEF NamespaceCallFails, Crash, MapFault
<1>4. ASSUME NEW k \in Keys, Renew(k) \/ ImportKey(k) \/ RemoveUnreadable(k)
      PROVE  Elsewhere
  BY <1>4 DEF Renew, ImportKey, RemoveUnreadable, Elsewhere, mainVars, loopVars
<1>5. ASSUME NEW n \in Namespaces, CreateNamespace(n) PROVE Elsewhere
  BY <1>5 DEF CreateNamespace, Elsewhere, mainVars, loopVars
<1>6. ASSUME NEW n \in Namespaces, NEW k \in Keys \cup {None}, Apply(n, k)
      PROVE  NothingForgotten'
  <2> SUFFICES ASSUME NEW l \in loops, NEW x \in Scope(l) PROVE Handled(l, x)'
    BY <1>6 DEF NothingForgotten, Handled, Apply, mainVars
  <2>1. events'[l] = (IF x = n THEN events[l] \cup {n} ELSE events'[l])
        /\ events[l] \subseteq events'[l] /\ UNCHANGED <<queue, job>>
    BY <1>0, <1>6 DEF Apply
  <2>2. CASE x = n
    BY <2>1, <2>2 DEF Handled, Pending
  <2>3. CASE x # n
    <3>1. sealed'[x] = sealed[x] /\ opened'[x] = opened[x] /\ gaveUp'[x] = gaveUp[x]
      BY <1>0, <1>6, <2>3 DEF Apply, TypeOK
    <3> QED BY <2>1, <3>1 DEF NothingForgotten, Handled, Pending
  <2> QED BY <2>2, <2>3
<1>7. ASSUME NEW l \in loops, SeeKey(l) PROVE Down \/ Elsewhere
  BY <1>7 DEF SeeKey, Elsewhere, clusterVars, mainVars
<1>8. ASSUME NEW l \in loops, Notify(l) \/ Take(l) PROVE NothingForgotten'
  <2>1. UNCHANGED <<sealed, opened, gaveUp, loops>>
    BY <1>8 DEF Notify, Take, clusterVars, mainVars
  <2>2. ASSUME NEW m \in loops, NEW x \in Scope(m), Pending(m, x) PROVE Pending(m, x)'
    <3>1. CASE Notify(l)
      BY <1>0, <2>2, <3>1 DEF Notify, Pending, TypeOK
    <3>2. CASE Take(l)
      <4>1. m \in Places /\ x # None
        BY <1>0
      <4> QED BY <1>0, <2>2, <3>2, <4>1 DEF Take, Pending, TypeOK
    <3> QED BY <1>8, <3>1, <3>2
  <2> QED BY <2>1, <2>2 DEF NothingForgotten
<1>9. CASE UNCHANGED vars
  BY <1>1, <1>9 DEF vars, Elsewhere, clusterVars, mainVars, loopVars
<1> QED BY <1>1, <1>2, <1>3, <1>4, <1>5, <1>6, <1>7, <1>8, <1>9, MainHandles, PassHandles
     DEF Next

-----------------------------------------------------------------------------
(* Each loop is a Worklist.                                                *)

\* A loop that does not run has heard of nothing.
Silent == \A l \in Places : l \notin loops => events[l] = {}

Todo(l) == events[l] \cup queue[l]

Rests(l) == Todo(l)' = Todo(l) /\ job'[l] = job[l] /\ tries'[l] = tries[l]
Ends(l) == Todo(l)' = {} /\ job'[l] = None /\ tries'[l] = [n \in Namespaces |-> 0]

LEMMA RestIsStep == ASSUME NEW l \in Places, Rests(l) PROVE Work(l)!Step
BY DEF Rests, Todo, Work!Step, Work!vars

LEMMA EndIsStep == ASSUME NEW l \in Places, Ends(l) PROVE Work(l)!Step
BY DEF Ends, Todo, Work!Step, Work!Next, Work!End

LEMMA HearIsStep ==
    ASSUME NEW l \in Places, Todo(l) \subseteq Todo(l)', Todo(l)' \subseteq Namespaces,
           job'[l] = job[l], tries'[l] = tries[l]
    PROVE  Work(l)!Step
BY DEF Todo, Work!Step, Work!Next, Work!Hear

LEMMA MainWork ==
    ASSUME IInv, Silent, MainSteps, NEW l \in Places
    PROVE  Work(l)!Step
<1> USE PlacesOK
<1>0. TypeOK /\ LoopsPlaced
  BY DEF IInv
<1>1. ASSUME NEW m \in Places \ loops, Launch(m) PROVE Work(l)!Step
  <2>1. /\ queue' = queue /\ job' = job /\ tries' = tries
        /\ events' = [events EXCEPT ![m] = {n \in Scope(m) : sealed[n] # None}]
    BY <1>1 DEF Launch
  <2>2. CASE m = l
    <3>1. events[l] = {} /\ events'[l] \subseteq Namespaces /\ queue[l] \subseteq Namespaces
      BY <1>0, <2>1, <2>2 DEF Silent, TypeOK
    <3> QED BY <2>1, <3>1, HearIsStep DEF Todo
  <2>3. CASE m # l
    <3>1. events'[l] = events[l]
      BY <1>0, <2>1, <2>3 DEF TypeOK
    <3> QED BY <2>1, <3>1, RestIsStep DEF Rests, Todo
  <2> QED BY <2>2, <2>3
<1>2. CASE UNCHANGED loopVars
  BY <1>2, RestIsStep DEF Rests, Todo, loopVars
<1>3. CASE StartFirst
  <2>1. Launch(0) /\ 0 \notin loops
    BY <1>0, <1>3 DEF StartFirst, TypeOK
  <2> QED BY <1>1, <2>1
<1>4. CASE NextAdditional
  <2>1. next \in Places /\ next \notin loops
    BY <1>0, <1>4 DEF NextAdditional, TypeOK, Places, LoopsPlaced
  <2>2. Launch(next) \/ UNCHANGED loopVars
    BY <1>4 DEF NextAdditional
  <2> QED BY <1>1, <1>2, <2>1, <2>2
<1> QED BY <1>2, <1>3, <1>4 DEF MainSteps, InitKeyRegistry, Serve

LEMMA PassSteps ==
    ASSUME IInv, NEW m \in loops, Pass(m), NEW l \in Places
    PROVE  Work(l)!Step
<1> USE PlacesOK
<1>0. TypeOK /\ m \in Places
  BY DEF IInv, TypeOK
<1>1. PICK j \in Namespaces : j = job[m]
  BY <1>0 DEF Pass, Opens, PassFails, TypeOK
<1>2. /\ job' = [job EXCEPT ![m] = None] /\ events' = events
      /\ \/ /\ queue' = queue
            /\ tries' = [tries EXCEPT ![m][j] = 0]
         \/ /\ tries[m][j] < MaxRetries
            /\ queue' = [queue EXCEPT ![m] = @ \cup {j}]
            /\ tries' = [tries EXCEPT ![m][j] = @ + 1]
  BY <1>1 DEF Pass, Opens, PassFails, Done, Forget, Retries
<1>3. CASE m = l
  <2>1. job'[l] = None /\ job[l] = j
    BY <1>0, <1>1, <1>2, <1>3 DEF TypeOK
  <2>2. CASE queue' = queue /\ tries' = [tries EXCEPT ![m][j] = 0]
    <3>1. tries'[l] = [tries[l] EXCEPT ![j] = 0]
      BY <1>0, <1>3, <2>2 DEF TypeOK
    <3> QED BY <1>2, <2>1, <2>2, <3>1 DEF Work!Step, Work!Next, Work!Settle
  <2>3. CASE /\ tries[m][j] < MaxRetries
             /\ queue' = [queue EXCEPT ![m] = @ \cup {j}]
             /\ tries' = [tries EXCEPT ![m][j] = @ + 1]
    <3>1. tries'[l] = [tries[l] EXCEPT ![j] = @ + 1]
      BY <1>0, <1>3, <2>3 DEF TypeOK
    <3>2. Todo(l)' = Todo(l) \cup {j}
      BY <1>0, <1>2, <1>3, <2>3 DEF TypeOK, Todo
    <3> QED BY <1>3, <2>1, <2>3, <3>1, <3>2 DEF Todo, Work!Step, Work!Next, Work!PutBack
  <2> QED BY <1>2, <2>2, <2>3
<1>4. CASE m # l
  <2>1. job'[l] = job[l] /\ queue'[l] = queue[l] /\ tries'[l] = tries[l]
    BY <1>0, <1>2, <1>4 DEF TypeOK
  <2> QED BY <1>2, <2>1, RestIsStep DEF Rests, Todo
<1> QED BY <1>3, <1>4

LEMMA LoopSteps ==
    ASSUME IInv, NEW m \in loops, Notify(m) \/ Take(m), NEW l \in Places
    PROVE  Work(l)!Step
<1> USE PlacesOK
<1>0. TypeOK /\ m \in Places
  BY DEF IInv, TypeOK
<1>1. CASE Notify(m)
  <2>1. /\ UNCHANGED <<job, tries>>
        /\ \E n \in events[m] : /\ events' = [events EXCEPT ![m] = @ \ {n}]
                                 /\ queue' = [queue EXCEPT ![m] = @ \cup {n}]
    BY <1>1 DEF Notify
  <2>2. Todo(l)' = Todo(l)
    BY <1>0, <2>1 DEF TypeOK, Todo
  <2> QED BY <2>1, <2>2, RestIsStep DEF Rests
<1>2. CASE Take(m)
  <2>1. PICK n \in queue[m] : /\ job' = [job EXCEPT ![m] = n]
                              /\ queue' = [queue EXCEPT ![m] = @ \ {n}]
    BY <1>2 DEF Take
  <2>2. job[m] = None /\ UNCHANGED <<events, tries>>
    BY <1>2 DEF Take
  <2>3. CASE m = l
    <3>1. job'[l] = n /\ n \in Todo(l) /\ queue'[l] = queue[l] \ {n}
      BY <1>0, <2>1, <2>3 DEF TypeOK, Todo
    <3>2. Todo(l)' \in {Todo(l), Todo(l) \ {n}}
      BY <2>2, <3>1 DEF Todo
    <3> QED BY <2>2, <2>3, <3>1, <3>2 DEF Todo, Work!Step, Work!Next, Work!Take
  <2>4. CASE m # l
    <3>1. job'[l] = job[l] /\ queue'[l] = queue[l]
      BY <1>0, <2>1, <2>4 DEF TypeOK
    <3> QED BY <2>2, <3>1, RestIsStep DEF Rests, Todo
  <2> QED BY <2>3, <2>4
<1> QED BY <1>1, <1>2

LEMMA NextWork ==
    ASSUME IInv, Silent, [Next]_vars, NEW l \in Places
    PROVE  Work(l)!Step
<1> USE PlacesOK
<1>0. TypeOK /\ loops \subseteq Places
  BY DEF IInv, TypeOK
<1>1. CASE UNCHANGED <<events, queue, job, tries>>
  BY <1>1, RestIsStep DEF Rests, Todo
<1>2. CASE Down
  BY <1>2, EndIsStep DEF Down, Ends, Todo
<1>3. CASE NamespaceCallFails \/ Crash \/ \E m \in loops : SeeKey(m) \/ MapFault(m)
  BY <1>1, <1>2, <1>3 DEF NamespaceCallFails, Crash, SeeKey, MapFault
<1>4. ASSUME NEW k \in Keys, Renew(k) \/ ImportKey(k) \/ RemoveUnreadable(k)
      PROVE  Work(l)!Step
  BY <1>1, <1>4 DEF Renew, ImportKey, RemoveUnreadable, loopVars
<1>5. ASSUME NEW n \in Namespaces, CreateNamespace(n) PROVE Work(l)!Step
  BY <1>1, <1>5 DEF CreateNamespace, loopVars
<1>6. ASSUME NEW n \in Namespaces, NEW k \in Keys \cup {None}, Apply(n, k)
      PROVE  Work(l)!Step
  <2>1. UNCHANGED <<queue, job, tries>> /\ events'[l] \in {events[l], events[l] \cup {n}}
    BY <1>6 DEF Apply
  <2>2. events[l] \subseteq Namespaces /\ queue[l] \subseteq Namespaces
    BY <1>0 DEF TypeOK
  <2> QED BY <2>1, <2>2, HearIsStep DEF Todo
<1>7. CASE UNCHANGED vars
  BY <1>1, <1>7 DEF vars, loopVars
<1> QED BY <1>3, <1>4, <1>5, <1>6, <1>7, MainWork, PassSteps, LoopSteps DEF Next

LEMMA NextSilent == IInv /\ Silent /\ [Next]_vars => Silent'
<1> SUFFICES ASSUME IInv, Silent, [Next]_vars PROVE Silent'
  OBVIOUS
<1> USE PlacesOK
<1>0. TypeOK /\ loops \subseteq Places
  BY DEF IInv, TypeOK
<1>1. CASE UNCHANGED <<events, loops>>
  BY <1>1 DEF Silent
<1>2. CASE Down
  BY <1>2 DEF Down, Silent
<1>3. ASSUME NEW l \in Places, Launch(l) PROVE Silent'
  BY <1>0, <1>3 DEF Launch, Silent, TypeOK
<1>4. CASE MainSteps
  <2>1. NextAdditional => next \in Places
    BY <1>0 DEF NextAdditional, TypeOK, Places
  <2>2. UNCHANGED <<events, loops>> \/ \E l \in Places : Launch(l)
    BY <1>4, <2>1 DEF MainSteps, InitKeyRegistry, StartFirst, NextAdditional, Serve, loopVars
  <2> QED BY <1>1, <1>3, <2>2
<1>5. CASE NamespaceCallFails \/ Crash \/ \E m \in loops : SeeKey(m) \/ MapFault(m)
  BY <1>1, <1>2, <1>5 DEF NamespaceCallFails, Crash, SeeKey, MapFault, mainVars
<1>6. ASSUME NEW k \in Keys, Renew(k) \/ ImportKey(k) \/ RemoveUnreadable(k)
      PROVE  Silent'
  BY <1>1, <1>6 DEF Renew, ImportKey, RemoveUnreadable, mainVars, loopVars
<1>7. ASSUME NEW n \in Namespaces,
             CreateNamespace(n) \/ \E k \in Keys \cup {None} : Apply(n, k)
      PROVE  Silent'
  BY <1>7 DEF CreateNamespace, Apply, Silent, mainVars, loopVars
<1>8. ASSUME NEW m \in loops, Notify(m) \/ Take(m) \/ Pass(m) PROVE Silent'
  <2>1. loops' = loops /\ \A l \in Places \ {m} : events'[l] = events[l]
    BY <1>0, <1>8 DEF Notify, Take, Pass, Opens, PassFails, mainVars, TypeOK
  <2> QED BY <2>1 DEF Silent
<1>9. CASE UNCHANGED vars
  BY <1>1, <1>9 DEF vars, mainVars, loopVars
<1> QED BY <1>4, <1>5, <1>6, <1>7, <1>8, <1>9 DEF Next

-----------------------------------------------------------------------------
(***************************************************************************)
(* The state of the process has its type: the registry holds no key that   *)
(* is not stored and readable, for any flags (registryNewKeyWithSecret,    *)
(* generateKey).                                                           *)
(***************************************************************************)
THEOREM TypeCorrect == Spec => []TypeOK
<1>1. IInv => TypeOK
  BY DEF IInv
<1> QED BY <1>1, InitEstablishes, StepPreserves, PTL DEF Spec

(***************************************************************************)
(* Two workers are never at the same SealedSecret, for any namespaces that *)
(* the flags may name, however often (Main, removeDuplicates).             *)
(***************************************************************************)
THEOREM WorkersStayApart == Spec => []OneWorkerPerObject
BY InitEstablishes, StepPreserves, IInvImplies, PTL DEF Spec

(***************************************************************************)
(* The keys that were there at the start are held, and a key that is not   *)
(* held is one that no informer has reported (initKeyRegistry,             *)
(* watchKeySecrets).                                                       *)
(***************************************************************************)
THEOREM KeysArrive == Spec => []KeysArriveForAll
<1>1. IInv => KeysArriveForAll
  BY DEF IInv
<1> QED BY <1>1, InitEstablishes, StepPreserves, PTL DEF Spec

(***************************************************************************)
(* What a loop has in its scope is opened, given up as it is, or in that   *)
(* loop's hands, for any flags, however often SealedSecrets are replaced   *)
(* and the process ends (Run, watchSealedSecrets, processNextItem).        *)
(***************************************************************************)
THEOREM NothingIsForgotten == Spec => []NothingForgotten
<1>1. Init => NothingForgotten
  BY DEF Init, NothingForgotten
<1> QED BY <1>1, InitEstablishes, StepPreserves, NextHandles, PTL DEF Spec

(***************************************************************************)
(* Each loop implements the Worklist, as Controller does in all detail:    *)
(* this is what a loop is here for, whatever the flags name and however    *)
(* often the process ends (Run, watchSealedSecrets, processNextItem).      *)
(***************************************************************************)
THEOREM LoopsAreWorklists == Spec => LoopsWorkThroughLists
<1>1. Init => Silent /\ \A l \in Places : Work(l)!Init
  BY DEF Init, Silent, Work!Init
<1>2. IInv /\ Silent /\ [Next]_vars => \A l \in Places : Work(l)!Step
  BY NextWork
<1> QED BY <1>1, <1>2, InitEstablishes, StepPreserves, NextSilent, PTL
        DEF Spec, LoopsWorkThroughLists
=============================================================================
