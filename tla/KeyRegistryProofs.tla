-------------------------- MODULE KeyRegistryProofs --------------------------
(***************************************************************************)
(* Proofs about the key registry, for any number of keys, any timing, any  *)
(* flags and any number of failures and crashes.                           *)
(*                                                                         *)
(* The inductive invariant has three parts besides TypeOK: Placed says     *)
(* what the goroutines hold while they register a key, Kept that           *)
(* everything that is registered or was sealed with is stored, and Ready   *)
(* that a key is there by the time the process runs.                       *)
(***************************************************************************)
EXTENDS KeyRegistry, TLAPS

Placed ==
    /\ phase = "down" => gpc = "idle" /\ gkey = None
    /\ phase # "running" => wpc = "idle" /\ unseen = {}
    /\ gpc \in {"map", "latest"} => gkey \in Durable
    /\ gpc = "latest" => gkey \in Registered
    /\ wpc # "idle" => wkey \in Durable
    /\ wpc = "latest" => wkey \in Registered
    /\ unseen \subseteq Durable

Kept ==
    /\ Registered \subseteq Durable
    /\ sealedWith \subseteq Durable
    /\ phase # "down" => sealedWith \subseteq Registered

Ready ==
    /\ latest # None => latest \in Registered
    /\ phase = "running" => latest # None
    /\ phase = "renew" /\ gpc = "idle" /\ gkey # None => latest # None

IInv == TypeOK /\ Placed /\ Kept /\ Ready

\* A time that went through a Secret is still a time.
LEMMA TruncatedNat == ASSUME NEW t \in Nat PROVE Truncated(t) \in Nat
  BY KeyRegistryAssumption DEF Truncated

\* A later time does not become an earlier one.
LEMMA TruncatedGrows == ASSUME NEW t \in Nat PROVE Truncated(t) <= Truncated(t + 1)
  <1> DEFINE a == t \div Second  b == (t + 1) \div Second
             x == t % Second  y == (t + 1) % Second
  <1>1. /\ Second \in Nat /\ Second > 0
    BY KeyRegistryAssumption
  <1>2. /\ a \in Nat /\ x \in 0 .. (Second - 1) /\ t = Second * a + x
        /\ b \in Nat /\ y \in 0 .. (Second - 1) /\ t + 1 = Second * b + y
    BY <1>1
  <1> HIDE DEF a, b, x, y
  <1>3. a <= b
    <2> SUFFICES ASSUME b + 1 <= a PROVE FALSE
      BY <1>2
    <2>1. Second * (b + 1) <= Second * a
      BY <1>1, <1>2
    <2>2. Second * (b + 1) = Second * b + Second
      BY <1>1, <1>2
    <2> QED BY <1>1, <1>2, <2>1, <2>2
  <1>4. Second * a <= Second * b
    BY <1>1, <1>2, <1>3
  <1>5. Truncated(t) = t - x /\ Truncated(t + 1) = (t + 1) - y
    BY DEF Truncated, x, y
  <1> QED BY <1>1, <1>2, <1>4, <1>5

LEMMA OrderingTimeNat ==
    ASSUME TypeOK, NEW k \in Durable PROVE OrderingTime(k) \in Nat
  BY KeyRegistryAssumption DEF OrderingTime, TypeOK, KeySecret, Durable

USE DEF secretVars, registryVars, jobVars, watchVars, triggerVars

\* The initial state, before the process is first started.
LEMMA InitIInv == Init => IInv
  <1> SUFFICES ASSUME Init PROVE IInv
    OBVIOUS
  <1>1. TypeOK
    <2>1. /\ stored \in [Keys -> KeySecret \cup {None}]
          /\ keys \in [Keys -> Nat \cup {None}]
      BY DEF Init
    <2>2. phase = "down" /\ gpc = "idle" /\ wpc = "idle"
          /\ listener = "wait" /\ timer = "sleep"
      BY DEF Init
    <2> QED BY <2>1, <2>2 DEF Init, TypeOK
  <1>2. Durable = {} /\ Registered = {}
    BY DEF Init, Durable, Registered
  <1>3. Placed /\ Kept /\ Ready
    BY <1>2 DEF Init, Placed, Kept, Ready
  <1> QED BY <1>1, <1>3 DEF IInv

\* When the process ends, what is stored stays, and the rest is forgotten.
LEMMA ForgottenIInv ==
    ASSUME IInv, Forgotten, troubles' \in Nat,
           stored' \in [Keys -> KeySecret \cup {None}],
           \A k \in Keys : stored[k] # None => stored'[k] # None
    PROVE  IInv'
  <1>1. TypeOK'
    BY KeyRegistryAssumption DEF IInv, TypeOK, Forgotten
  <1>2. Placed' /\ Kept' /\ Ready'
    BY KeyRegistryAssumption
    DEF IInv, TypeOK, Forgotten, Placed, Kept, Ready, Durable, Registered
  <1> QED BY <1>1, <1>2 DEF IInv

LEMMA CrashIInv == IInv /\ (Crash \/ MapFault) => IInv'
  <1> SUFFICES ASSUME IInv, Crash \/ MapFault PROVE IInv'
    OBVIOUS
  <1>1. /\ Forgotten /\ stored' = stored /\ troubles' \in Nat
    BY DEF Crash, MapFault, Trouble, IInv, TypeOK
  <1> QED BY <1>1, ForgottenIInv DEF IInv, TypeOK

LEMMA InitKeyRegistryIInv == IInv /\ InitKeyRegistry => IInv'
  <1> SUFFICES ASSUME IInv, InitKeyRegistry PROVE IInv'
    OBVIOUS
  <1>1. \A k \in Durable : OrderingTime(k) \in Nat
    BY OrderingTimeNat DEF IInv
  <1>2. keys' \in [Keys -> Nat \cup {None}] /\ Registered' = Durable /\ Durable' = Durable
    BY <1>1, KeyRegistryAssumption
    DEF InitKeyRegistry, IInv, TypeOK, Registered, Durable
  <1>3. \/ UNCHANGED <<latest, latestTime>>
        \/ latest' \in Durable /\ latestTime' \in Nat
    BY <1>1 DEF InitKeyRegistry, MostRecentOf
  <1>4. TypeOK'
    BY <1>2, <1>3 DEF InitKeyRegistry, IInv, TypeOK, Durable
  <1>5. Placed'
    BY <1>2 DEF InitKeyRegistry, IInv, Placed
  <1>6. Kept'
    BY <1>2 DEF InitKeyRegistry, IInv, Kept
  <1>7. Ready'
    BY <1>2, <1>3 DEF InitKeyRegistry, IInv, Ready, Kept, Placed
  <1> QED BY <1>4, <1>5, <1>6, <1>7 DEF IInv

\* generateKey begins: the new key is neither stored nor registered yet.
LEMMA GenerateKeyIInv ==
    ASSUME IInv, GenerateKey, phase # "down", phase' = phase,
           signal' \in BOOLEAN, listener' \in {"wait", "send"}, timer' \in {"sleep", "send"}
    PROVE  IInv'
  <1>1. gtime' \in Nat
    BY TruncatedNat DEF GenerateKey, IInv, TypeOK
  <1>2. TypeOK'
    BY <1>1 DEF GenerateKey, IInv, TypeOK
  <1>3. Durable' = Durable /\ Registered' = Registered
    BY DEF GenerateKey, Durable, Registered
  <1>4. Placed'
    BY <1>3 DEF GenerateKey, IInv, Placed
  <1>5. Kept' /\ Ready'
    BY <1>3 DEF GenerateKey, IInv, Kept, Ready
  <1> QED BY <1>2, <1>4, <1>5 DEF IInv

\* The start-up ends with a key: one that was stored, or one just generated.
LEMMA InitKeyRenewalIInv == IInv /\ InitKeyRenewal => IInv'
  <1> SUFFICES ASSUME IInv, InitKeyRenewal PROVE IInv'
    OBVIOUS
  <1>1. CASE NeedsKey /\ gkey = None
    BY <1>1, GenerateKeyIInv DEF InitKeyRenewal, IInv, TypeOK
  <1>2. CASE ~(NeedsKey /\ gkey = None)
    <2>1. /\ phase = "renew" /\ phase' = "running"
          /\ gpc = "idle" /\ gpc' = "idle" /\ gkey' = None
          /\ unseen' \subseteq Durable
          /\ UNCHANGED <<clock, stored, used, registryVars, gtime, watchVars,
                         triggerVars, unsealing, troubles, made, sealedWith>>
      BY <1>2 DEF InitKeyRenewal
    <2>2. TypeOK'
      BY <2>1 DEF IInv, TypeOK, Durable
    <2>3. Durable' = Durable /\ Registered' = Registered
      BY <2>1 DEF Durable, Registered
    <2>4. Placed' /\ Kept'
      BY <2>1, <2>3 DEF IInv, Placed, Kept
    <2>5. latest # None
      BY <1>2, <2>1 DEF IInv, Ready, NeedsKey
    <2>6. Ready'
      BY <2>1, <2>3, <2>5 DEF IInv, Ready
    <2> QED BY <2>2, <2>4, <2>6 DEF IInv
  <1> QED BY <1>1, <1>2

\* The triggers of the job.
LEMMA TriggersIInv ==
    IInv /\ (UserSignals \/ TakeSignal \/ TimerElapses \/ StartJob) => IInv'
  <1> SUFFICES ASSUME IInv, UserSignals \/ TakeSignal \/ TimerElapses \/ StartJob
               PROVE IInv'
    OBVIOUS
  <1>1. CASE UserSignals \/ TakeSignal \/ TimerElapses
    <2>1. /\ UNCHANGED <<clock, stored, used, unseen, phase, keys, latest, latestTime, gpc, gkey,
                         gtime, wpc, wkey, unsealing, troubles, made, sealedWith>>
      BY <1>1 DEF UserSignals, TakeSignal, TimerElapses
    <2>2. TypeOK'
      <3>1. signal' \in BOOLEAN
        BY <1>1, Zenon DEF UserSignals, TakeSignal, TimerElapses, IInv, TypeOK
      <3>2. listener' \in {"wait", "send"} /\ timer' \in {"sleep", "send"}
        BY <1>1 DEF UserSignals, TakeSignal, TimerElapses, IInv, TypeOK
      <3> QED BY <2>1, <3>1, <3>2 DEF IInv, TypeOK
    <2>3. Durable' = Durable /\ Registered' = Registered
      BY <2>1 DEF Durable, Registered
    <2>4. Placed'
      BY <2>1, <2>3 DEF IInv, Placed
    <2>5. Kept' /\ Ready'
      BY <2>1, <2>3 DEF IInv, Kept, Ready
    <2> QED BY <2>2, <2>4, <2>5 DEF IInv
  <1>2. CASE StartJob
    BY <1>2, GenerateKeyIInv DEF StartJob, IInv, TypeOK
  <1> QED BY <1>1, <1>2

\* A key Secret that is written takes nothing away.
LEMMA StoreKeeps ==
    ASSUME TypeOK, NEW k \in Keys, NEW t \in Nat, Store(k, t)
    PROVE  /\ stored' \in [Keys -> KeySecret \cup {None}]
           /\ Durable' = Durable \cup {k}
           /\ unseen' \subseteq unseen \cup {k}
           /\ phase # "running" => unseen' = unseen
           /\ \A j \in Keys : stored[j] # None => stored'[j] # None
  <1>1. [notBefore |-> t, created |-> Truncated(clock)] \in KeySecret
    BY TruncatedNat DEF TypeOK, KeySecret
  <1>2. [notBefore |-> t, created |-> Truncated(clock)] # None
    BY <1>1, KeyRegistryAssumption DEF KeySecret
  <1>3. stored' = [stored EXCEPT ![k] = [notBefore |-> t, created |-> Truncated(clock)]]
    BY DEF Store
  <1>4. \A j \in Keys : stored'[j] = IF j = k
                THEN [notBefore |-> t, created |-> Truncated(clock)] ELSE stored[j]
    BY <1>3 DEF TypeOK
  <1>5. stored' \in [Keys -> KeySecret \cup {None}]
    BY <1>1, <1>3 DEF TypeOK
  <1>6. Durable' = Durable \cup {k}
    BY <1>2, <1>4 DEF Durable
  <1>7. \A j \in Keys : stored[j] # None => stored'[j] # None
    BY <1>2, <1>4
  <1>8. unseen' \subseteq unseen \cup {k} /\ (phase # "running" => unseen' = unseen)
    BY DEF Store
  <1> QED BY <1>5, <1>6, <1>7, <1>8

LEMMA WriteKeyIInv == IInv /\ WriteKey => IInv'
  <1> SUFFICES ASSUME IInv, WriteKey PROVE IInv'
    OBVIOUS
  <1>1. gkey \in Keys /\ gtime \in Nat /\ phase # "down"
    BY DEF WriteKey, IInv, TypeOK, Placed
  <1>2. /\ stored' \in [Keys -> KeySecret \cup {None}]
        /\ Durable' = Durable \cup {gkey}
        /\ unseen' \subseteq unseen \cup {gkey}
        /\ phase # "running" => unseen' = unseen
    BY <1>1, StoreKeeps DEF WriteKey, IInv
  <1>3. Registered' = Registered
    BY DEF WriteKey, Registered
  <1>4. TypeOK'
    BY <1>1, <1>2 DEF WriteKey, IInv, TypeOK
  <1>5. Placed'
    BY <1>1, <1>2, <1>3 DEF WriteKey, IInv, Placed
  <1>6. Kept' /\ Ready'
    BY <1>2, <1>3 DEF WriteKey, IInv, Kept, Ready
  <1> QED BY <1>4, <1>5, <1>6 DEF IInv

\* A Secret that could not be written leaves no key behind that is registered.
LEMMA WriteKeyFailsIInv == IInv /\ WriteKeyFails => IInv'
  <1> SUFFICES ASSUME IInv, WriteKeyFails PROVE IInv'
    OBVIOUS
  <1>1. gkey \in Keys /\ gtime \in Nat /\ troubles' \in Nat
    BY DEF WriteKeyFails, Trouble, IInv, TypeOK
  <1>2. /\ stored' \in [Keys -> KeySecret \cup {None}]
        /\ Durable \subseteq Durable'
        /\ unseen' \subseteq unseen \cup Durable' /\ Durable' \subseteq Keys
        /\ \A j \in Keys : stored[j] # None => stored'[j] # None
    <2>1. CASE Store(gkey, gtime)
      BY <1>1, <2>1, StoreKeeps DEF IInv, Durable
    <2>2. CASE UNCHANGED <<stored, unseen>>
      BY <2>2 DEF IInv, TypeOK, Durable
    <2> QED BY <2>1, <2>2 DEF WriteKeyFails
  <1>3. CASE phase = "renew" /\ Forgotten
    BY <1>1, <1>2, <1>3, ForgottenIInv
  <1>4. CASE /\ phase = "running"
             /\ gpc' = "idle" /\ gkey' = None /\ gtime' = 0
             /\ UNCHANGED <<clock, used, phase, registryVars, watchVars, triggerVars,
                            unsealing, sealedWith, made>>
    <2>1. TypeOK'
      BY <1>1, <1>2, <1>4 DEF IInv, TypeOK, Placed
    <2>2. Registered' = Registered
      BY <1>4 DEF Registered
    <2>3. Placed'
      BY <1>2, <1>4, <2>2 DEF IInv, Placed
    <2>4. Kept' /\ Ready'
      BY <1>2, <1>4, <2>2 DEF IInv, Kept, Ready
    <2> QED BY <2>1, <2>3, <2>4 DEF IInv
  <1> QED BY <1>3, <1>4 DEF WriteKeyFails

\* The job registers its key, which is stored by then.
LEMMA RegisterIInv == IInv /\ (RegisterInMap \/ RegisterAsLatest) => IInv'
  <1> SUFFICES ASSUME IInv, RegisterInMap \/ RegisterAsLatest PROVE IInv'
    OBVIOUS
  <1>1. Durable' = Durable /\ unseen' = unseen
    BY DEF RegisterInMap, RegisterAsLatest, Durable
  <1>2. CASE RegisterInMap
    <2>1. gkey \in Keys /\ gkey \in Durable
      BY <1>2 DEF RegisterInMap, IInv, TypeOK, Placed
    <2>2. keys' \in [Keys -> Nat \cup {None}] /\ Registered' = Registered \cup {gkey}
      BY <1>2, <2>1, KeyRegistryAssumption DEF RegisterInMap, IInv, TypeOK, Registered
    <2>3. TypeOK'
      BY <1>2, <2>2 DEF RegisterInMap, IInv, TypeOK
    <2>4. Placed'
      BY <1>1, <1>2, <2>1, <2>2 DEF RegisterInMap, IInv, Placed
    <2>5. Kept'
      BY <1>1, <1>2, <2>1, <2>2 DEF RegisterInMap, IInv, Kept
    <2>6. Ready'
      BY <1>2, <2>2, KeyRegistryAssumption
      DEF RegisterInMap, IsMoreRecent, IInv, TypeOK, Ready
    <2> QED BY <2>3, <2>4, <2>5, <2>6 DEF IInv
  <1>3. CASE RegisterAsLatest
    <2>1. Registered' = Registered /\ gkey \in Registered
      BY <1>3 DEF RegisterAsLatest, IInv, Placed, Registered
    <2>2. TypeOK'
      BY <1>3 DEF RegisterAsLatest, IInv, TypeOK
    <2>3. Placed' /\ Kept' /\ Ready'
      BY <1>1, <1>3, <2>1, KeyRegistryAssumption
      DEF RegisterAsLatest, IInv, Placed, Kept, Ready, Registered
    <2> QED BY <2>2, <2>3 DEF IInv
  <1> QED BY <1>2, <1>3

\* So does the handler of key Secrets.
LEMMA WatcherIInv == IInv /\ Watcher => IInv'
  <1> SUFFICES ASSUME IInv, Watcher PROVE IInv'
    OBVIOUS
  <1>1. Durable' = Durable
    BY DEF Watcher, SeeKeySecret, WatchInMap, WatchAsLatest, Durable
  <1>2. CASE SeeKeySecret
    <2>1. wkey' \in unseen /\ unseen' \subseteq unseen
      BY <1>2 DEF SeeKeySecret
    <2>2. Registered' = Registered
      BY <1>2 DEF SeeKeySecret, Registered
    <2>3. TypeOK'
      BY <1>2, <2>1 DEF SeeKeySecret, IInv, TypeOK
    <2>4. Placed' /\ Kept' /\ Ready'
      BY <1>1, <1>2, <2>1, <2>2 DEF SeeKeySecret, IInv, Placed, Kept, Ready
    <2> QED BY <2>3, <2>4 DEF IInv
  <1>3. CASE WatchInMap
    <2>1. wkey \in Keys /\ wkey \in Durable /\ OrderingTime(wkey) \in Nat
      BY <1>3, OrderingTimeNat DEF WatchInMap, IInv, TypeOK, Placed
    <2>2. keys' \in [Keys -> Nat \cup {None}] /\ Registered' = Registered \cup {wkey}
      BY <1>3, <2>1, KeyRegistryAssumption DEF WatchInMap, IInv, TypeOK, Registered
    <2>3. TypeOK'
      BY <1>3, <2>2 DEF WatchInMap, IInv, TypeOK
    <2>4. Placed'
      BY <1>1, <1>3, <2>1, <2>2 DEF WatchInMap, IInv, Placed
    <2>5. Kept' /\ Ready'
      BY <1>1, <1>3, <2>1, <2>2 DEF WatchInMap, IInv, Kept, Ready
    <2> QED BY <2>3, <2>4, <2>5 DEF IInv
  <1>4. CASE WatchAsLatest
    <2>1. Registered' = Registered /\ wkey \in Registered /\ OrderingTime(wkey) \in Nat
      BY <1>4, OrderingTimeNat DEF WatchAsLatest, IInv, Placed, Registered
    <2>2. TypeOK'
      BY <1>4, <2>1 DEF WatchAsLatest, IInv, TypeOK
    <2>3. Placed' /\ Kept' /\ Ready'
      BY <1>1, <1>4, <2>1, KeyRegistryAssumption
      DEF WatchAsLatest, IInv, Placed, Kept, Ready, Registered
    <2> QED BY <2>2, <2>3 DEF IInv
  <1> QED BY <1>2, <1>3, <1>4 DEF Watcher

\* Users and administrators, and the clock.
LEMMA UsersIInv == IInv /\ (Seal \/ AttemptUnseal \/ ImportKey \/ Tick) => IInv'
  <1> SUFFICES ASSUME IInv, Seal \/ AttemptUnseal \/ ImportKey \/ Tick PROVE IInv'
    OBVIOUS
  <1>1. Registered' = Registered
    BY DEF Seal, AttemptUnseal, ImportKey, Tick, Registered
  <1>2. CASE Seal
    <2>1. latest \in Registered /\ Durable' = Durable
      BY <1>2 DEF Seal, IInv, Ready, Durable
    <2>2. TypeOK'
      BY <1>2, <2>1 DEF Seal, IInv, TypeOK
    <2>3. Placed' /\ Kept' /\ Ready'
      BY <1>1, <1>2, <2>1 DEF Seal, IInv, Placed, Kept, Ready
    <2> QED BY <2>2, <2>3 DEF IInv
  <1>3. CASE AttemptUnseal \/ Tick
    <2>1. Durable' = Durable
      BY <1>3 DEF AttemptUnseal, Tick, Durable
    <2>2. TypeOK'
      <3>1. unsealing \in BOOLEAN /\ clock \in Nat
        BY DEF IInv, TypeOK
      <3>2. unsealing' \in BOOLEAN
        BY <1>3, <3>1, Zenon DEF AttemptUnseal, Tick
      <3>3. clock' \in Nat
        BY <1>3, <3>1 DEF AttemptUnseal, Tick
      <3>4. UNCHANGED <<secretVars, phase, registryVars, jobVars, watchVars, triggerVars,
                       troubles, made, sealedWith>>
        BY <1>3 DEF AttemptUnseal, Tick
      <3> QED BY <3>2, <3>3, <3>4 DEF IInv, TypeOK
    <2>3. Placed' /\ Kept' /\ Ready'
      BY <1>1, <1>3, <2>1 DEF AttemptUnseal, Tick, IInv, Placed, Kept, Ready
    <2> QED BY <2>2, <2>3 DEF IInv
  <1>4. CASE ImportKey
    <2>1. PICK k \in Keys, t \in ImportTimes : used' = used \cup {k} /\ Store(k, t)
      BY <1>4 DEF ImportKey
    <2>2. t \in Nat
      BY KeyRegistryAssumption
    <2>3. /\ stored' \in [Keys -> KeySecret \cup {None}]
          /\ Durable' = Durable \cup {k}
          /\ unseen' \subseteq unseen \cup {k}
          /\ phase # "running" => unseen' = unseen
      BY <2>1, <2>2, StoreKeeps DEF IInv
    <2>4. TypeOK'
      BY <1>4, <2>1, <2>3 DEF ImportKey, IInv, TypeOK
    <2>5. Placed' /\ Kept' /\ Ready'
      BY <1>1, <1>4, <2>3 DEF ImportKey, IInv, Placed, Kept, Ready
    <2> QED BY <2>4, <2>5 DEF IInv
  <1> QED BY <1>2, <1>3, <1>4

\* Every step preserves the invariant, and so does one of the environment alone.
LEMMA NextIInv == IInv /\ [Next]_vars => IInv'
  <1> SUFFICES ASSUME IInv, [Next]_vars PROVE IInv'
    OBVIOUS
  <1>1. CASE Startup
    BY <1>1, InitKeyRegistryIInv, InitKeyRenewalIInv DEF Startup
  <1>2. CASE Job \/ WriteKeyFails
    BY <1>2, WriteKeyIInv, RegisterIInv, WriteKeyFailsIInv DEF Job
  <1>3. CASE Watcher
    BY <1>3, WatcherIInv
  <1>4. CASE Users \/ Tick
    BY <1>4, UsersIInv, TriggersIInv DEF Users
  <1>5. CASE TakeSignal \/ TimerElapses \/ StartJob
    BY <1>5, TriggersIInv
  <1>6. CASE Crash \/ MapFault
    BY <1>6, CrashIInv
  <1>7. CASE UNCHANGED vars
    BY <1>7 DEF vars, IInv, TypeOK, Placed, Kept, Ready, Durable, Registered
  <1> QED BY <1>1, <1>2, <1>3, <1>4, <1>5, <1>6, <1>7 DEF Next

THEOREM Inductive == Spec => []IInv
  BY InitIInv, NextIInv, PTL DEF Spec

-----------------------------------------------------------------------------
(***************************************************************************)
(* The registry's state has its type: in particular the goroutines that    *)
(* register a key have one (generateKey, registryNewKeyWithSecret).        *)
(***************************************************************************)
THEOREM TypeCorrect == Spec => []TypeOK
  BY Inductive, PTL DEF IInv

(***************************************************************************)
(* What was sealed with a key that the controller served can be opened     *)
(* whenever the controller runs, whatever fails and however often it       *)
(* restarts: generateKey stores before it registers, initKeyRegistry       *)
(* registers all that is stored.                                           *)
(***************************************************************************)
THEOREM SealedIsOpenable == Spec => []SealedCanBeOpened
  <1>1. IInv => SealedCanBeOpened
    BY DEF IInv, Kept, SealedCanBeOpened
  <1> QED BY <1>1, Inductive, PTL

(***************************************************************************)
(* There is a key to serve by the time the servers start, and from then on *)
(* (initKeyRenewal): getCert and latestPrivateKey find one.                *)
(***************************************************************************)
THEOREM AlwaysAKey == Spec => []ServesSomeKey
  <1>1. IInv => ServesSomeKey
    BY DEF IInv, Ready, ServesSomeKey
  <1> QED BY <1>1, Inductive, PTL

-----------------------------------------------------------------------------
(***************************************************************************)
(* The registry implements SealingKeys.  Active and Current are what the   *)
(* refinement mapping makes of the registry.                               *)
(***************************************************************************)
Active == IF phase = "running" THEN Registered ELSE {}
Current == IF phase = "running" THEN latest ELSE None

LEMMA PromiseInit == Init => Promise!Init
  BY DEF Init, Promise!Init, Durable

\* A key Secret is written: a key becomes durable, and nothing else changes.
LEMMA StorePersists ==
    ASSUME IInv, NEW k \in Keys, NEW t \in Nat, Store(k, t),
           UNCHANGED <<Active, Current, sealedWith>>
    PROVE  Promise!Next
  <1>1. Durable' = Durable \cup {k}
    BY StoreKeeps DEF IInv
  <1>2. Promise!Persist(k)
    BY <1>1 DEF Promise!Persist, Active, Current
  <1> QED BY <1>2 DEF Promise!Next

\* The process ends: the service goes down, and a key may have become durable.
LEMMA ForgottenIsDown == Forgotten => Active' = {} /\ Current' = None
  BY DEF Forgotten, Active, Current

LEMMA StartupKeepsPromise == IInv /\ Startup => [Promise!Next]_(Promise!vars)
  <1> SUFFICES ASSUME IInv, Startup PROVE [Promise!Next]_(Promise!vars)
    OBVIOUS
  <1>1. CASE phase' # "running"
    <2>1. phase # "running" /\ UNCHANGED <<stored, sealedWith>>
      BY <1>1 DEF Startup, InitKeyRegistry, InitKeyRenewal, GenerateKey
    <2> QED BY <1>1, <2>1 DEF Promise!vars, Durable
  <1>2. CASE phase' = "running"
    <2>1. /\ phase = "renew" /\ latest' = latest /\ keys' = keys
          /\ UNCHANGED <<stored, sealedWith>>
          /\ latest # None
      BY <1>2 DEF Startup, InitKeyRegistry, InitKeyRenewal, NeedsKey, IInv, Ready
    <2>2. /\ Registered' = Registered /\ Registered \subseteq Durable
          /\ sealedWith \subseteq Registered /\ latest \in Registered
      BY <2>1 DEF IInv, Kept, Ready, Registered
    <2>3. Promise!ComeUp
      BY <1>2, <2>1, <2>2 DEF Promise!ComeUp, Promise!Up, Durable
    <2> QED BY <2>3 DEF Promise!Next
  <1> QED BY <1>1, <1>2

\* A key that is stored gets registered, and another may become the current one.
LEMMA RegisterKeepsPromise ==
    IInv /\ (RegisterInMap \/ RegisterAsLatest \/ Watcher) => [Promise!Next]_(Promise!vars)
  <1> SUFFICES ASSUME IInv, RegisterInMap \/ RegisterAsLatest \/ Watcher
               PROVE [Promise!Next]_(Promise!vars)
    OBVIOUS
  <1>1. UNCHANGED <<phase, stored, sealedWith>>
    BY DEF RegisterInMap, RegisterAsLatest, Watcher, SeeKeySecret, WatchInMap, WatchAsLatest
  <1>2. Durable' = Durable
    BY <1>1 DEF Durable
  <1>3. CASE phase # "running" \/ UNCHANGED <<keys, latest>>
    BY <1>1, <1>2, <1>3 DEF Promise!vars, Registered
  <1>4. CASE phase = "running" /\ ~UNCHANGED <<keys, latest>>
    <2>1. latest # None
      BY <1>4 DEF IInv, Ready
    <2>2. CASE RegisterInMap \/ WatchInMap
      <3>1. PICK k \in Durable : Registered' = Registered \cup {k} /\ latest' = latest
        <4>1. \A k \in Keys, t \in Nat : keys' = [keys EXCEPT ![k] = t]
                 => Registered' = Registered \cup {k}
          BY KeyRegistryAssumption DEF IInv, TypeOK, Registered
        <4>2. CASE RegisterInMap
          BY <4>1, <4>2 DEF RegisterInMap, IInv, TypeOK, Placed
        <4>3. CASE WatchInMap
          BY <4>1, <4>3, OrderingTimeNat DEF WatchInMap, IInv, TypeOK, Placed
        <4> QED BY <2>2, <4>2, <4>3
      <3>2. Promise!Activate(k)
        BY <1>1, <1>2, <1>4, <2>1, <3>1 DEF Promise!Activate, Promise!Up
      <3> QED BY <3>1, <3>2 DEF Promise!Next, Durable
    <2>3. CASE RegisterAsLatest \/ WatchAsLatest
      <3>1. PICK k \in Registered : latest' = k /\ keys' = keys
        BY <2>3 DEF RegisterAsLatest, WatchAsLatest, IInv, Placed
      <3>2. Promise!Switch(k)
        BY <1>1, <1>2, <1>4, <2>1, <3>1 DEF Promise!Switch, Promise!Up, Registered
      <3> QED BY <3>1, <3>2 DEF Promise!Next, Registered
    <2>4. CASE SeeKeySecret
      BY <1>4, <2>4 DEF SeeKeySecret
    <2> QED BY <2>2, <2>3, <2>4 DEF Watcher
  <1> QED BY <1>3, <1>4

LEMMA EndKeepsPromise ==
    IInv /\ (Crash \/ MapFault) => [Promise!Next]_(Promise!vars)
  <1> SUFFICES ASSUME IInv, Crash \/ MapFault PROVE [Promise!Next]_(Promise!vars)
    OBVIOUS
  <1>1. Forgotten /\ stored' = stored /\ sealedWith' = sealedWith
    BY DEF Crash, MapFault, Forgotten
  <1>2. Promise!GoDown
    BY <1>1, ForgottenIsDown DEF Promise!GoDown, Active, Current, Durable
  <1> QED BY <1>2 DEF Promise!Next

LEMMA WriteKeepsPromise ==
    IInv /\ (WriteKey \/ WriteKeyFails) => [Promise!Next]_(Promise!vars)
  <1> SUFFICES ASSUME IInv, WriteKey \/ WriteKeyFails PROVE [Promise!Next]_(Promise!vars)
    OBVIOUS
  <1>1. gkey \in Keys /\ gtime \in Nat
    BY DEF WriteKey, WriteKeyFails, IInv, TypeOK
  <1>2. UNCHANGED <<Active, Current, sealedWith>>
    <2>1. CASE UNCHANGED <<phase, keys, latest, sealedWith>>
      BY <2>1 DEF Active, Current, Registered
    <2>2. CASE phase = "renew" /\ Forgotten
      BY <2>2 DEF Forgotten, Active, Current
    <2> QED BY <2>1, <2>2 DEF WriteKey, WriteKeyFails
  <1>3. CASE Store(gkey, gtime)
    BY <1>1, <1>2, <1>3, StorePersists
  <1>4. CASE UNCHANGED <<stored, unseen>>
    BY <1>2, <1>4 DEF Promise!vars, Durable, Active, Current
  <1> QED BY <1>3, <1>4 DEF WriteKey, WriteKeyFails

LEMMA UsersKeepPromise ==
    IInv /\ (Users \/ Tick \/ TakeSignal \/ TimerElapses \/ StartJob)
        => [Promise!Next]_(Promise!vars)
  <1> SUFFICES ASSUME IInv, Users \/ Tick \/ TakeSignal \/ TimerElapses \/ StartJob
               PROVE [Promise!Next]_(Promise!vars)
    OBVIOUS
  <1>1. UNCHANGED <<phase, keys, latest>>
    BY DEF Users, UserSignals, Seal, AttemptUnseal, ImportKey, Tick, TakeSignal,
           TimerElapses, StartJob, GenerateKey
  <1>2. UNCHANGED <<Active, Current>>
    BY <1>1 DEF Active, Current, Registered
  <1>3. CASE Seal
    <2>1. Promise!Seal
      BY <1>1, <1>2, <1>3 DEF Seal, Promise!Seal, Promise!Up, Active, Current, Durable
    <2> QED BY <2>1 DEF Promise!Next
  <1>4. CASE ImportKey
    <2>1. PICK k \in Keys, t \in ImportTimes : Store(k, t)
      BY <1>4 DEF ImportKey
    <2> QED BY <1>2, <1>4, <2>1, StorePersists, KeyRegistryAssumption DEF ImportKey
  <1>5. CASE UNCHANGED <<stored, sealedWith>>
    BY <1>2, <1>5 DEF Promise!vars, Durable, Active, Current
  <1> QED BY <1>3, <1>4, <1>5
      DEF Users, UserSignals, AttemptUnseal, Tick, TakeSignal, TimerElapses, StartJob, GenerateKey

(***************************************************************************)
(* The registry implements SealingKeys: every step of its goroutines, of   *)
(* the administrators and of failures is one of the abstract steps, or     *)
(* shows nothing.                                                          *)
(***************************************************************************)
THEOREM Implementation == Spec => KeepsPromise
  <1>1. IInv /\ [Next]_vars => [Promise!Next]_(Promise!vars)
    <2> SUFFICES ASSUME IInv, [Next]_vars PROVE [Promise!Next]_(Promise!vars)
      OBVIOUS
    <2>1. CASE UNCHANGED vars
      BY <2>1 DEF vars, Promise!vars, Durable, Registered
    <2> QED BY <2>1, StartupKeepsPromise, RegisterKeepsPromise, EndKeepsPromise,
               WriteKeepsPromise, UsersKeepPromise DEF Next, Job
  <1> QED BY <1>1, PromiseInit, Inductive, PTL DEF Spec, KeepsPromise, Promise!Spec

-----------------------------------------------------------------------------
(***************************************************************************)
(* Which key the registry serves, when key Secrets are not watched.  Then  *)
(* the job is the only goroutine that writes to the registry: with         *)
(* --watch-for-secrets a second one does, without a lock, and these        *)
(* theorems are false.                                                     *)
(***************************************************************************)
\* No key Secret is reported, so that the job is the only one to register keys.
Unwatched == ~WatchForSecrets /\ unseen = {} /\ wpc = "idle"

\* An empty registry serves the time 0.
FromScratch ==
    /\ phase = "down" => latest = None /\ Registered = {}
    /\ latest = None => latestTime = 0

\* The served key is the youngest, or the job is about to make its own the youngest.
Youngest ==
    /\ \A k \in Registered : keys[k] <= latestTime \/ (gpc = "latest" /\ k = gkey)
    /\ gpc = "latest" => keys[gkey] = gtime /\ latestTime <= gtime

\* The job registers a key that it has generated; the start-up ends with one if
\* it had to generate it.
StartedWithKey ==
    /\ made \subseteq Registered
    /\ gpc = "latest" => gkey \in made
    /\ phase = "renew" /\ gpc = "idle" /\ gkey # None => gkey \in made

\* A key that is being made is new.
Fresh ==
    /\ Durable \subseteq used
    /\ gpc = "create" => gkey \in used \ Durable
    /\ gpc = "map" => gkey \notin Registered

AgeInv ==
    IInv /\ Unwatched /\ FromScratch /\ Youngest /\ StartedWithKey /\ Fresh /\ CutoffHonoured

LEMMA InitAgeInv == ~WatchForSecrets /\ Init => AgeInv
  <1> SUFFICES ASSUME ~WatchForSecrets, Init PROVE AgeInv
    OBVIOUS
  <1>1. Registered = {} /\ Durable = {}
    BY DEF Init, Registered, Durable
  <1>2. Unwatched /\ FromScratch /\ Youngest /\ StartedWithKey /\ Fresh /\ CutoffHonoured
    BY <1>1 DEF Init, Unwatched, FromScratch, Youngest, StartedWithKey, Fresh, CutoffHonoured
  <1> QED BY <1>2, InitIInv DEF AgeInv

\* A step that leaves the registry and the job alone.
LEMMA ElsewhereAgeInv ==
    ASSUME AgeInv, IInv', Unwatched', Fresh', UNCHANGED <<phase, registryVars, jobVars, made>>
    PROVE  AgeInv'
  <1>1. Registered' = Registered
    BY DEF Registered
  <1>2. FromScratch'
    BY <1>1 DEF AgeInv, FromScratch
  <1>3. Youngest' /\ StartedWithKey'
    BY <1>1 DEF AgeInv, Youngest, StartedWithKey
  <1>4. CutoffHonoured'
    BY <1>1 DEF AgeInv, CutoffHonoured
  <1> QED BY <1>2, <1>3, <1>4 DEF AgeInv

\* The process ends.
LEMMA ForgottenAgeInv ==
    ASSUME AgeInv, IInv', Unwatched', Fresh', Forgotten PROVE AgeInv'
  <1>1. Registered' = {}
    BY DEF Forgotten, Registered
  <1>2. FromScratch' /\ Youngest' /\ StartedWithKey' /\ CutoffHonoured'
    BY <1>1
    DEF Forgotten, AgeInv, FromScratch, Youngest, StartedWithKey, CutoffHonoured
  <1> QED BY <1>2 DEF AgeInv

\* The start-up registers what is stored; the greatest ordering time is served.
LEMMA InitKeyRegistryAgeInv ==
    ASSUME AgeInv, IInv', Unwatched', Fresh', InitKeyRegistry PROVE AgeInv'
  <1>1. \A k \in Durable : OrderingTime(k) \in Nat /\ k \in Keys
    BY OrderingTimeNat DEF AgeInv, IInv, Durable
  <1>2. \A k \in Registered' : k \in Durable /\ keys'[k] = OrderingTime(k)
    BY DEF InitKeyRegistry, Registered
  <1>3. FromScratch'
    BY <1>1, KeyRegistryAssumption DEF InitKeyRegistry, MostRecentOf, AgeInv, FromScratch
  <1>4. Youngest'
    <2>1. gpc' = "idle"
      BY DEF InitKeyRegistry, AgeInv, IInv, Placed
    <2>2. \A k \in Registered' : keys'[k] <= latestTime'
      BY <1>1, <1>2 DEF InitKeyRegistry, MostRecentOf
    <2> QED BY <2>1, <2>2 DEF Youngest
  <1>5. StartedWithKey'
    <2>1. made' = {} /\ gpc' = "idle" /\ gkey' = None
      BY DEF InitKeyRegistry, AgeInv, IInv, Placed, StartedWithKey, FromScratch
    <2> QED BY <2>1 DEF StartedWithKey
  <1>6. CutoffHonoured'
    BY DEF InitKeyRegistry, CutoffHonoured
  <1> QED BY <1>3, <1>4, <1>5, <1>6 DEF AgeInv

\* A new key pair is made: it is not registered yet.
LEMMA GenerateKeyAgeInv ==
    ASSUME AgeInv, IInv', Unwatched', Fresh', GenerateKey, phase' = phase PROVE AgeInv'
  <1>1. Registered' = Registered /\ gpc = "idle" /\ gpc' = "create"
    BY DEF GenerateKey, Registered
  <1>2. UNCHANGED <<keys, latest, latestTime, made>>
    BY DEF GenerateKey
  <1>3. FromScratch' /\ Youngest' /\ StartedWithKey'
    BY <1>1, <1>2 DEF AgeInv, FromScratch, Youngest, StartedWithKey
  <1>4. CutoffHonoured'
    BY <1>1, <1>2 DEF AgeInv, CutoffHonoured
  <1> QED BY <1>3, <1>4 DEF AgeInv

LEMMA InitKeyRenewalAgeInv ==
    ASSUME AgeInv, IInv', Unwatched', Fresh', InitKeyRenewal PROVE AgeInv'
  <1>1. CASE NeedsKey /\ gkey = None
    BY <1>1, GenerateKeyAgeInv DEF InitKeyRenewal
  <1>2. CASE ~(NeedsKey /\ gkey = None)
    <2>1. /\ phase = "renew" /\ phase' = "running" /\ gpc = "idle" /\ gpc' = "idle"
          /\ UNCHANGED <<keys, latest, latestTime, made>>
      BY <1>2 DEF InitKeyRenewal
    <2>2. Registered' = Registered
      BY <2>1 DEF Registered
    <2>3. FromScratch' /\ Youngest' /\ StartedWithKey'
      BY <2>1, <2>2 DEF AgeInv, FromScratch, Youngest, StartedWithKey
    <2>4. ASSUME latestTime < CutoffTime
          PROVE  gkey \in made \cap Registered /\ keys[gkey] <= latestTime
      BY <1>2, <2>1, <2>4 DEF NeedsKey, AgeInv, StartedWithKey, Youngest
    <2>5. CutoffHonoured'
      BY <2>1, <2>2, <2>4 DEF CutoffHonoured
    <2> QED BY <2>3, <2>5 DEF AgeInv
  <1> QED BY <1>1, <1>2

\* The job registers its key.
LEMMA RegisterAgeInv ==
    ASSUME AgeInv, IInv', Unwatched', Fresh', RegisterInMap \/ RegisterAsLatest
    PROVE  AgeInv'
  <1>1. /\ UNCHANGED phase
        /\ clock \in Nat /\ latestTime \in Nat
        /\ gkey \in Keys /\ gtime \in Nat
        /\ phase # "down"
    BY DEF RegisterInMap, RegisterAsLatest, AgeInv, IInv, TypeOK, Placed
  <1>2. \A k \in Registered : keys[k] \in Nat
    BY DEF Registered, AgeInv, IInv, TypeOK
  <1>3. CASE RegisterInMap
    <2>1. /\ gtime' = clock /\ UNCHANGED <<latest, latestTime, gkey>>
          /\ gpc' = IF IsMoreRecent(clock) THEN "latest" ELSE "idle"
          /\ gpc = "map" /\ made' = made \cup {gkey}
      BY <1>3 DEF RegisterInMap
    <2>2. /\ keys'[gkey] = clock /\ gkey \notin Registered
          /\ Registered' = Registered \cup {gkey}
          /\ \A k \in Registered : keys'[k] = keys[k]
      BY <1>1, <1>3, <2>1, KeyRegistryAssumption
      DEF RegisterInMap, Registered, AgeInv, IInv, TypeOK, Fresh
    <2>3. FromScratch'
      BY <1>1, <2>1 DEF AgeInv, FromScratch
    <2>4. gpc' = "latest" => latestTime <= clock
      BY <1>1, <2>1 DEF IsMoreRecent, AgeInv, FromScratch
    <2>5. gpc' # "latest" => clock <= latestTime
      BY <1>1, <2>1 DEF IsMoreRecent
    <2>6. Youngest'
      BY <2>1, <2>2, <2>4, <2>5 DEF AgeInv, Youngest
    <2>7. StartedWithKey'
      BY <2>1, <2>2 DEF AgeInv, StartedWithKey
    <2>8. CutoffHonoured'
      BY <1>1, <2>1, <2>2 DEF AgeInv, CutoffHonoured
    <2> QED BY <2>3, <2>6, <2>7, <2>8 DEF AgeInv
  <1>4. CASE RegisterAsLatest
    <2>1. /\ latest' = gkey /\ latestTime' = gtime /\ UNCHANGED <<keys, gkey, gtime, made>>
          /\ gpc = "latest" /\ gpc' = "idle"
          /\ keys[gkey] = gtime /\ latestTime <= gtime
      BY <1>4 DEF RegisterAsLatest, AgeInv, Youngest
    <2>2. Registered' = Registered /\ gkey # None
      BY <1>1, <2>1, KeyRegistryAssumption DEF Registered
    <2>3. FromScratch' /\ StartedWithKey'
      BY <1>1, <2>1, <2>2 DEF AgeInv, FromScratch, StartedWithKey
    <2>4. gkey \in made \cap Registered
      BY <2>1 DEF AgeInv, StartedWithKey
    <2>5. CutoffHonoured'
      BY <1>1, <2>1, <2>2, <2>4 DEF CutoffHonoured
    <2>6. Youngest'
      <3>1. \A k \in Registered : keys[k] <= gtime
        BY <1>1, <1>2, <2>1 DEF AgeInv, Youngest
      <3> QED BY <2>1, <2>2, <3>1 DEF Youngest
    <2> QED BY <2>3, <2>5, <2>6 DEF AgeInv
  <1> QED BY <1>3, <1>4

\* The Secret is written, or not, and then the job waits for the next trigger.
LEMMA WriteKeyAgeInv ==
    ASSUME AgeInv, IInv', Unwatched', Fresh', WriteKey \/ WriteKeyFails PROVE AgeInv'
  <1>1. CASE Forgotten
    BY <1>1, ForgottenAgeInv
  <1>2. CASE ~Forgotten
    <2>1. /\ UNCHANGED <<phase, keys, latest, latestTime, made>>
          /\ gpc = "create" /\ gpc' \in {"map", "idle"}
          /\ phase = "renew" => gpc' = "map"
      BY <1>2 DEF WriteKey, WriteKeyFails
    <2>2. Registered' = Registered
      BY <2>1 DEF Registered
    <2>3. FromScratch' /\ Youngest' /\ StartedWithKey'
      BY <2>1, <2>2 DEF AgeInv, FromScratch, Youngest, StartedWithKey
    <2>4. CutoffHonoured'
      BY <2>1, <2>2 DEF AgeInv, CutoffHonoured
    <2> QED BY <2>3, <2>4 DEF AgeInv
  <1> QED BY <1>1, <1>2

LEMMA NextUnwatched == IInv /\ Unwatched /\ [Next]_vars => Unwatched'
  <1> SUFFICES ASSUME IInv, Unwatched, [Next]_vars PROVE Unwatched'
    OBVIOUS
  <1>1. \A k, t : Store(k, t) => unseen' = unseen
    BY DEF Store, Unwatched
  <1>2. CASE Startup
    BY <1>2 DEF Startup, InitKeyRegistry, InitKeyRenewal, GenerateKey, Unwatched
  <1>3. CASE Job \/ WriteKeyFails
    BY <1>1, <1>3
    DEF Job, WriteKey, RegisterInMap, RegisterAsLatest, WriteKeyFails, Forgotten, Unwatched
  <1>4. CASE Watcher
    BY <1>4 DEF Watcher, SeeKeySecret, WatchInMap, WatchAsLatest, Unwatched
  <1>5. CASE Users \/ Tick
    BY <1>1, <1>5
    DEF Users, UserSignals, Seal, AttemptUnseal, ImportKey, Tick, Unwatched
  <1>6. CASE TakeSignal \/ TimerElapses \/ StartJob
    BY <1>6 DEF TakeSignal, TimerElapses, StartJob, GenerateKey, Unwatched
  <1>7. CASE Crash \/ MapFault
    BY <1>7 DEF Crash, MapFault, Forgotten, Unwatched
  <1>8. CASE UNCHANGED vars
    BY <1>8 DEF vars, Unwatched
  <1> QED BY <1>2, <1>3, <1>4, <1>5, <1>6, <1>7, <1>8 DEF Next

LEMMA NextFresh == IInv /\ Unwatched /\ Fresh /\ [Next]_vars => Fresh'
  <1> SUFFICES ASSUME IInv, Unwatched, Fresh, [Next]_vars PROVE Fresh'
    OBVIOUS
  <1>1. Durable \subseteq used
    BY DEF Fresh
  <1>2. ASSUME GenerateKey PROVE Fresh'
    <2>1. /\ gpc' = "create" /\ gkey' \in used' \ used /\ used \subseteq used'
          /\ Durable' = Durable
      BY <1>2 DEF GenerateKey, Durable
    <2> QED BY <1>1, <2>1 DEF Fresh
  <1>3. ASSUME WriteKey \/ WriteKeyFails PROVE Fresh'
    <2>1. gpc = "create" /\ gkey \in Keys /\ gkey \in used /\ gtime \in Nat
      BY <1>3 DEF WriteKey, WriteKeyFails, Fresh, IInv, TypeOK
    <2>2. Durable' \subseteq Durable \cup {gkey}
      <3>1. CASE Store(gkey, gtime)
        BY <2>1, <3>1, StoreKeeps DEF IInv
      <3>2. CASE UNCHANGED stored
        BY <3>2 DEF Durable
      <3> QED BY <1>3, <3>1, <3>2 DEF WriteKey, WriteKeyFails
    <2>3. used' = used /\ gpc' \in {"map", "idle"}
      BY <1>3 DEF WriteKey, WriteKeyFails, Forgotten
    <2>4. gpc' = "map" => gkey' = gkey /\ Registered' = Registered
      BY <1>3 DEF WriteKey, WriteKeyFails, Forgotten, Registered
    <2>5. gkey \notin Registered
      BY <2>1 DEF Fresh, IInv, Kept
    <2> QED BY <1>1, <2>1, <2>2, <2>3, <2>4, <2>5 DEF Fresh
  <1>4. ASSUME RegisterInMap \/ RegisterAsLatest PROVE Fresh'
    <2>1. gpc' \notin {"create", "map"} /\ UNCHANGED used /\ Durable' = Durable
      BY <1>4 DEF RegisterInMap, RegisterAsLatest, Durable
    <2> QED BY <1>1, <2>1 DEF Fresh
  <1>5. ASSUME ImportKey PROVE Fresh'
    <2>1. PICK k \in Keys \ used, t \in ImportTimes : used' = used \cup {k} /\ Store(k, t)
      BY <1>5 DEF ImportKey
    <2>2. Durable' = Durable \cup {k}
      BY <2>1, StoreKeeps, KeyRegistryAssumption DEF IInv
    <2>3. UNCHANGED <<gpc, gkey>> /\ Registered' = Registered
      BY <1>5 DEF ImportKey, Registered
    <2> QED BY <1>1, <2>1, <2>2, <2>3 DEF Fresh
  <1>6. ASSUME InitKeyRegistry \/ Crash \/ MapFault PROVE Fresh'
    <2>1. gpc' = "idle" /\ UNCHANGED used /\ Durable' = Durable
      BY <1>6 DEF InitKeyRegistry, Crash, MapFault, Forgotten, Durable, IInv, Placed
    <2> QED BY <1>1, <2>1 DEF Fresh
  <1>7. ASSUME InitKeyRenewal, ~GenerateKey PROVE Fresh'
    <2>1. gpc' = "idle" /\ UNCHANGED used /\ Durable' = Durable
      BY <1>7 DEF InitKeyRenewal, Durable
    <2> QED BY <1>1, <2>1 DEF Fresh
  <1>8. ASSUME \/ Watcher \/ UserSignals \/ Seal \/ AttemptUnseal \/ Tick
               \/ TakeSignal \/ TimerElapses \/ UNCHANGED vars
        PROVE  Fresh'
    <2>1. UNCHANGED <<used, stored, gpc, gkey, keys>>
      BY <1>8 DEF Watcher, SeeKeySecret, WatchInMap, WatchAsLatest, UserSignals, Seal,
                  AttemptUnseal, Tick, TakeSignal, TimerElapses, vars, Unwatched
    <2>2. Durable' = Durable /\ Registered' = Registered
      BY <2>1 DEF Durable, Registered
    <2> QED BY <2>1, <2>2 DEF Fresh
  <1> QED BY <1>2, <1>3, <1>4, <1>5, <1>6, <1>7, <1>8 DEF Next, Startup, Job, Users, StartJob

LEMMA NextAgeInv == AgeInv /\ [Next]_vars => AgeInv'
  <1> SUFFICES ASSUME AgeInv, [Next]_vars PROVE AgeInv'
    OBVIOUS
  <1>1. IInv' /\ Unwatched' /\ Fresh'
    BY NextIInv, NextUnwatched, NextFresh DEF AgeInv
  <1>2. CASE Startup
    BY <1>1, <1>2, InitKeyRegistryAgeInv, InitKeyRenewalAgeInv DEF Startup
  <1>3. CASE Job \/ WriteKeyFails
    BY <1>1, <1>3, WriteKeyAgeInv, RegisterAgeInv DEF Job
  <1>4. CASE Watcher
    BY <1>4 DEF Watcher, SeeKeySecret, WatchInMap, WatchAsLatest, AgeInv, Unwatched
  <1>5. CASE Crash \/ MapFault
    BY <1>1, <1>5, ForgottenAgeInv DEF Crash, MapFault
  <1>6. CASE StartJob
    BY <1>1, <1>6, GenerateKeyAgeInv DEF StartJob
  <1>7. CASE Users \/ Tick \/ TakeSignal \/ TimerElapses \/ UNCHANGED vars
    <2>1. UNCHANGED <<phase, registryVars, jobVars, made>>
      BY <1>7 DEF Users, UserSignals, Seal, AttemptUnseal, ImportKey, Tick, TakeSignal,
                  TimerElapses, vars
    <2> QED BY <1>1, <2>1, ElsewhereAgeInv
  <1> QED BY <1>2, <1>3, <1>4, <1>5, <1>6, <1>7 DEF Next

LEMMA AgeInductive == ASSUME ~WatchForSecrets PROVE Spec => []AgeInv
  BY InitAgeInv, NextAgeInv, PTL DEF Spec

(***************************************************************************)
(* Without the watch, users seal with the youngest key that is registered, *)
(* between the registrations (registerNewKey).                             *)
(***************************************************************************)
THEOREM ServesYoungest == ASSUME ~WatchForSecrets PROVE Spec => []YoungestIsServed
  <1>1. AgeInv => YoungestIsServed
    BY DEF AgeInv, Youngest, YoungestIsServed
  <1> QED BY <1>1, AgeInductive, PTL

-----------------------------------------------------------------------------
(***************************************************************************)
(* Across restarts, the order of keys is that of what their Secrets say.   *)
(***************************************************************************)
\* What bounds the keys that were there before the one that is being made.
Begun == IF gpc = "create" THEN gtime ELSE stored[gkey].notBefore

Dated ==
    /\ \A k \in Durable : stored[k].created <= Truncated(clock)
    /\ gpc # "idle" => \A k \in Registered \ {gkey} : stored[k].created <= Begun
    /\ gpc = "create" => gtime <= Truncated(clock)
    /\ gpc \in {"map", "latest"} => stored[gkey].notBefore <= stored[gkey].created

Follows(k) == OrderingTime(k) <= OrderingTime(latest) \/ DatedAhead(k)

ServedLast == phase # "down" => \A k \in sealedWith : latest # None /\ Follows(k)

OrderInv == AgeInv /\ Dated /\ ServedLast

LEMMA DatesNat ==
    ASSUME TypeOK, NEW k \in Durable
    PROVE  stored[k].notBefore \in Nat /\ stored[k].created \in Nat
  BY DEF TypeOK, KeySecret, Durable

LEMMA InitOrderInv == ~WatchForSecrets /\ Init => OrderInv
  <1> SUFFICES ASSUME ~WatchForSecrets, Init PROVE OrderInv
    OBVIOUS
  <1>1. Durable = {}
    BY DEF Init, Durable
  <1>2. Dated /\ ServedLast
    BY <1>1 DEF Init, Dated, ServedLast
  <1> QED BY <1>2, InitAgeInv DEF OrderInv

\* A step that writes no key Secret, and no key or time of the job.
LEMMA ElsewhereDated ==
    ASSUME AgeInv, Dated, UNCHANGED <<stored, keys, jobVars>>,
           clock' = clock \/ clock' = clock + 1
    PROVE  Dated'
  <1>1. Durable' = Durable /\ Registered' = Registered /\ Begun' = Begun
    BY DEF Durable, Registered, Begun
  <1>2. clock \in Nat /\ gtime \in Nat /\ \A k \in Durable : stored[k].created \in Nat
    BY DatesNat DEF AgeInv, IInv, TypeOK
  <1>3. Truncated(clock) \in Nat /\ Truncated(clock') \in Nat
        /\ Truncated(clock) <= Truncated(clock')
    <2>1. CASE clock' = clock
      BY <1>2, <2>1, TruncatedNat
    <2>2. CASE clock' = clock + 1
      BY <1>2, <2>2, TruncatedNat, TruncatedGrows
    <2> QED BY <2>1, <2>2
  <1>4. \A k \in Durable' : stored'[k].created <= Truncated(clock')
    BY <1>1, <1>2, <1>3 DEF Dated
  <1>5. gpc' = "create" => gtime' <= Truncated(clock')
    BY <1>2, <1>3 DEF Dated
  <1>6. gpc' # "idle" => \A k \in Registered' \ {gkey'} : stored'[k].created <= Begun'
    BY <1>1 DEF Dated
  <1>7. gpc' \in {"map", "latest"} => stored'[gkey'].notBefore <= stored'[gkey'].created
    BY DEF Dated
  <1>8. Truncated(clock)' = Truncated(clock')
    BY DEF Truncated
  <1> QED BY <1>4, <1>5, <1>6, <1>7, <1>8 DEF Dated

\* A step that leaves what is served and was sealed with.
LEMMA ElsewhereServed ==
    ASSUME IInv, ServedLast, UNCHANGED <<latest, sealedWith>>, phase # "down" \/ phase' = "down",
           \A k \in Durable : stored'[k] = stored[k]
    PROVE  ServedLast'
  <1>1. SUFFICES ASSUME phase' # "down", NEW k \in sealedWith
                 PROVE  latest' # None /\ Follows(k)'
    BY DEF ServedLast
  <1>2. latest # None /\ Follows(k)
    BY <1>1 DEF ServedLast
  <1>3. k \in Durable /\ latest \in Durable
    BY <1>1, <1>2 DEF IInv, Kept, Ready
  <1> QED BY <1>2, <1>3 DEF Follows, DatedAhead, OrderingTime

\* The start-up serves a key with the greatest ordering time of all.
LEMMA InitKeyRegistryOrder ==
    ASSUME AgeInv, Dated, InitKeyRegistry PROVE Dated' /\ ServedLast'
  <1>1. phase = "down" /\ gpc' = "idle" /\ UNCHANGED <<stored, sealedWith, clock>>
    BY DEF InitKeyRegistry, AgeInv, IInv, Placed
  <1>2. Durable' = Durable /\ Truncated(clock)' = Truncated(clock)
    BY <1>1 DEF Durable, Truncated
  <1>3. Dated'
    BY <1>1, <1>2 DEF Dated
  <1>4. ASSUME NEW k \in sealedWith PROVE latest' # None /\ Follows(k)'
    <2>1. k \in Durable /\ \A j \in Durable : j \in Keys /\ OrderingTime(j) \in Nat
      BY OrderingTimeNat DEF AgeInv, IInv, Kept, Durable
    <2>2. latest' \in MostRecentOf(Durable)
      BY <2>1 DEF InitKeyRegistry
    <2>3. latest' \in Durable /\ OrderingTime(k) <= OrderingTime(latest')
      BY <2>1, <2>2 DEF MostRecentOf
    <2>4. OrderingTime(k)' = OrderingTime(k) /\ OrderingTime(latest)' = OrderingTime(latest')
      BY <1>1 DEF OrderingTime
    <2> QED BY <2>1, <2>3, <2>4, KeyRegistryAssumption DEF Follows
  <1> QED BY <1>1, <1>3, <1>4 DEF ServedLast

\* A key that is made now comes after all that are registered.
LEMMA GenerateKeyOrder ==
    ASSUME AgeInv, Dated, ServedLast, GenerateKey, phase' = phase PROVE Dated' /\ ServedLast'
  <1>1. /\ gpc' = "create" /\ gtime' = Truncated(clock)
        /\ UNCHANGED <<stored, keys, clock, latest, sealedWith>>
    BY DEF GenerateKey
  <1>2. /\ Durable' = Durable /\ Registered' = Registered /\ Begun' = Truncated(clock)
        /\ Truncated(clock)' = Truncated(clock) /\ Truncated(clock) \in Nat
    BY <1>1, TruncatedNat DEF Durable, Registered, Begun, Truncated, AgeInv, IInv, TypeOK
  <1>3. Registered \subseteq Durable
    BY DEF AgeInv, IInv, Kept
  <1>4. Dated'
    BY <1>1, <1>2, <1>3 DEF Dated
  <1> QED BY <1>1, <1>4, ElsewhereServed DEF AgeInv

\* What a new Secret says; the others stay as they are.
LEMMA StoreDates ==
    ASSUME TypeOK, NEW k \in Keys, k \notin Durable, NEW t \in Nat, Store(k, t)
    PROVE  /\ \A j \in Durable : stored'[j] = stored[j]
           /\ stored'[k].notBefore = t /\ stored'[k].created = Truncated(clock)
  BY DEF Store, TypeOK, Durable

\* The same of all Secrets, whoever writes them.
LEMMA StoreOrder ==
    ASSUME IInv, Dated, NEW k \in Keys, k \notin Durable, NEW t \in Nat, Store(k, t),
           clock' = clock
    PROVE  \A j \in Durable' : stored'[j].created <= Truncated(clock)'
  <1>1. Truncated(clock)' = Truncated(clock) /\ Truncated(clock) \in Nat
    BY TruncatedNat DEF Truncated, IInv, TypeOK
  <1>2. Durable' = Durable \cup {k}
    BY StoreKeeps DEF IInv
  <1> QED BY <1>1, <1>2, StoreDates DEF IInv, Dated

LEMMA WriteKeyOrder ==
    ASSUME AgeInv, Dated, ServedLast, WriteKey \/ WriteKeyFails PROVE Dated' /\ ServedLast'
  <1>1. /\ gpc = "create" /\ gkey \in Keys /\ gkey \notin Durable /\ gtime \in Nat
        /\ clock' = clock
    BY DEF WriteKey, WriteKeyFails, Forgotten, AgeInv, IInv, TypeOK, Fresh
  <1>2. Store(gkey, gtime) \/ UNCHANGED stored
    BY DEF WriteKey, WriteKeyFails
  <1>3. \A j \in Durable : stored'[j] = stored[j]
    BY <1>1, <1>2, StoreDates DEF AgeInv, IInv
  <1>4. \A j \in Durable' : stored'[j].created <= Truncated(clock)'
    <2>1. CASE Store(gkey, gtime)
      BY <1>1, <2>1, StoreOrder DEF AgeInv
    <2>2. CASE UNCHANGED stored
      BY <1>1, <2>2 DEF Dated, Durable, Truncated
    <2> QED BY <1>2, <2>1, <2>2
  <1>5. Dated'
    <2>1. CASE WriteKey
      <3>1. /\ gpc' = "map" /\ UNCHANGED <<gkey, keys>> /\ Registered' = Registered
            /\ stored'[gkey].notBefore = gtime /\ stored'[gkey].created = Truncated(clock)
        BY <1>1, <2>1, StoreDates DEF WriteKey, Registered, AgeInv, IInv
      <3>2. Registered \subseteq Durable /\ Begun = gtime /\ Begun' = gtime
        BY <1>1, <3>1 DEF AgeInv, IInv, Kept, Begun
      <3>3. \A k \in Registered \ {gkey} : stored'[k].created <= gtime
        BY <1>1, <1>3, <3>2 DEF Dated
      <3>4. stored'[gkey].notBefore <= stored'[gkey].created
        BY <1>1, <3>1 DEF Dated
      <3> QED BY <1>4, <3>1, <3>2, <3>3, <3>4 DEF Dated
    <2>2. CASE WriteKeyFails
      <3>1. gpc' = "idle"
        BY <2>2 DEF WriteKeyFails, Forgotten
      <3> QED BY <1>4, <3>1 DEF Dated
    <2> QED BY <2>1, <2>2
  <1>6. ServedLast'
    <2>1. CASE phase' = "down"
      BY <2>1 DEF ServedLast
    <2>2. CASE phase' # "down"
      <3>1. phase' = phase /\ UNCHANGED <<latest, sealedWith>>
        BY <2>2 DEF WriteKey, WriteKeyFails, Forgotten
      <3> QED BY <1>3, <2>2, <3>1, ElsewhereServed DEF AgeInv
    <2> QED BY <2>1, <2>2
  <1> QED BY <1>5, <1>6

\* The key that becomes the most recent one was begun after the others were stored.
LEMMA RegisterOrder ==
    ASSUME AgeInv, Dated, ServedLast, RegisterInMap \/ RegisterAsLatest
    PROVE  Dated' /\ ServedLast'
  <1>1. /\ UNCHANGED <<stored, clock, phase, sealedWith, gkey>> /\ Durable' = Durable
        /\ Truncated(clock)' = Truncated(clock)
        /\ gpc \in {"map", "latest"}
    BY DEF RegisterInMap, RegisterAsLatest, Durable, Truncated
  <1>2. gkey \in Durable
    BY <1>1 DEF AgeInv, IInv, Placed
  <1>3. CASE RegisterInMap
    <2>1. gpc = "map" /\ gpc' \in {"latest", "idle"} /\ latest' = latest
      BY <1>3 DEF RegisterInMap
    <2>2. Registered' \ {gkey} \subseteq Registered \ {gkey}
      BY <1>3 DEF RegisterInMap, Registered, AgeInv, IInv, TypeOK
    <2>3. gpc' # "idle" => Begun' = Begun
      BY <1>1, <2>1 DEF Begun
    <2>4. Dated'
      BY <1>1, <2>1, <2>2, <2>3 DEF Dated
    <2>5. ServedLast'
      BY <1>1, <2>1, ElsewhereServed DEF AgeInv
    <2> QED BY <2>4, <2>5
  <1>4. CASE RegisterAsLatest
    <2>1. gpc = "latest" /\ gpc' = "idle" /\ latest' = gkey
      BY <1>4 DEF RegisterAsLatest
    <2>2. Dated'
      BY <1>1, <2>1 DEF Dated
    <2>3. ASSUME phase # "down", NEW k \in sealedWith
          PROVE  OrderingTime(k) <= OrderingTime(gkey) \/ DatedAhead(k)
      <3>1. k \in Registered /\ k \in Durable
        BY <2>3 DEF AgeInv, IInv, Kept
      <3>2. /\ stored[k].created \in Nat /\ OrderingTime(k) \in Nat
            /\ stored[gkey].created \in Nat /\ stored[gkey].notBefore \in Nat
            /\ stored[gkey].notBefore <= stored[gkey].created
            /\ OrderingTime(gkey) \in Nat
        BY <1>1, <1>2, <3>1, DatesNat, OrderingTimeNat DEF AgeInv, IInv, Dated
      <3>3. CASE k = gkey
        BY <3>2, <3>3
      <3>4. CASE k # gkey
        <4>1. stored[k].created <= stored[gkey].notBefore
          BY <2>1, <3>1, <3>4 DEF Dated, Begun
        <4>2. OrderingTime(gkey) \in {stored[gkey].notBefore, stored[gkey].created}
          BY DEF OrderingTime
        <4>3. stored[k].created <= OrderingTime(gkey)
          BY <3>2, <4>1, <4>2
        <4> QED BY <3>2, <4>3 DEF DatedAhead
      <3> QED BY <3>3, <3>4
    <2>4. \A k \in sealedWith : /\ OrderingTime(k)' = OrderingTime(k)
                                /\ OrderingTime(latest)' = OrderingTime(gkey)
                                /\ DatedAhead(k)' = DatedAhead(k)
      BY <1>1, <2>1 DEF OrderingTime, DatedAhead
    <2>5. latest' # None
      BY <1>2, <2>1, KeyRegistryAssumption DEF Durable
    <2>6. ServedLast'
      BY <1>1, <2>3, <2>4, <2>5 DEF ServedLast, Follows
    <2> QED BY <2>2, <2>6
  <1> QED BY <1>3, <1>4

\* Users seal with the key that is served.
LEMMA SealOrder == ASSUME AgeInv, Dated, ServedLast, Seal PROVE Dated' /\ ServedLast'
  <1>1. UNCHANGED <<stored, keys, latest, phase, clock, jobVars>> /\ latest # None
        /\ sealedWith' = sealedWith \cup {latest}
    BY DEF Seal
  <1>2. latest \in Durable
    BY <1>1 DEF AgeInv, IInv, Kept, Ready
  <1>3. Follows(latest)
    BY <1>2, OrderingTimeNat DEF Follows, AgeInv, IInv
  <1>4. \A k \in sealedWith' : Follows(k)' = Follows(k)
    BY <1>1 DEF Follows, DatedAhead, OrderingTime
  <1>5. ServedLast'
    BY <1>1, <1>3, <1>4 DEF ServedLast
  <1> QED BY <1>1, <1>5, ElsewhereDated

LEMMA ImportKeyOrder ==
    ASSUME AgeInv, Dated, ServedLast, ImportKey PROVE Dated' /\ ServedLast'
  <1>1. PICK k \in Keys \ used, t \in ImportTimes : used' = used \cup {k} /\ Store(k, t)
    BY DEF ImportKey
  <1>2. /\ UNCHANGED <<phase, keys, latest, jobVars, clock, sealedWith>>
        /\ Truncated(clock)' = Truncated(clock)
    BY DEF ImportKey, Truncated
  <1>3. k \notin Durable /\ t \in Nat
    BY <1>1, KeyRegistryAssumption DEF AgeInv, Fresh
  <1>4. \A j \in Durable : stored'[j] = stored[j]
    BY <1>1, <1>3, StoreDates DEF AgeInv, IInv
  <1>5. \A j \in Durable' : stored'[j].created <= Truncated(clock)'
    BY <1>1, <1>2, <1>3, StoreOrder DEF AgeInv
  <1>6. Registered' = Registered /\ Registered \subseteq Durable
    BY <1>2 DEF Registered, AgeInv, IInv, Kept
  <1>7. gpc \in {"map", "latest"} => gkey \in Durable
    BY DEF AgeInv, IInv, Placed
  <1>8. gpc \in {"idle", "create", "map", "latest"}
    BY DEF AgeInv, IInv, TypeOK
  <1>9. gpc # "idle" => Begun' = Begun
    BY <1>2, <1>4, <1>7, <1>8 DEF Begun
  <1>10. Dated'
    <2>1. gpc' = "create" => gtime' <= Truncated(clock)'
      BY <1>2 DEF Dated
    <2>2. gpc' # "idle" => \A j \in Registered' \ {gkey'} : stored'[j].created <= Begun'
      BY <1>2, <1>4, <1>6, <1>9 DEF Dated
    <2>3. gpc' \in {"map", "latest"} => stored'[gkey'].notBefore <= stored'[gkey'].created
      BY <1>2, <1>4, <1>7 DEF Dated
    <2> QED BY <1>5, <2>1, <2>2, <2>3 DEF Dated
  <1> QED BY <1>2, <1>4, <1>10, ElsewhereServed DEF AgeInv

LEMMA NextOrderInv == OrderInv /\ [Next]_vars => OrderInv'
  <1> SUFFICES ASSUME OrderInv, [Next]_vars PROVE OrderInv'
    OBVIOUS
  <1>1. AgeInv /\ AgeInv' /\ Dated /\ ServedLast
    BY NextAgeInv DEF OrderInv
  <1>2. SUFFICES Dated' /\ ServedLast'
    BY <1>1 DEF OrderInv
  <1>3. CASE InitKeyRegistry
    BY <1>1, <1>3, InitKeyRegistryOrder
  <1>4. CASE StartJob
    BY <1>1, <1>4, GenerateKeyOrder DEF StartJob
  <1>5. CASE Job \/ WriteKeyFails
    BY <1>1, <1>5, WriteKeyOrder, RegisterOrder DEF Job
  <1>6. CASE Seal
    BY <1>1, <1>6, SealOrder
  <1>7. CASE ImportKey
    BY <1>1, <1>7, ImportKeyOrder
  <1>8. CASE Watcher
    BY <1>1, <1>8 DEF Watcher, SeeKeySecret, WatchInMap, WatchAsLatest, AgeInv, Unwatched
  <1>9. CASE Crash \/ MapFault
    <2>1. gpc' = "idle" /\ phase' = "down" /\ UNCHANGED <<stored, clock>>
      BY <1>9 DEF Crash, MapFault, Forgotten
    <2>2. Durable' = Durable /\ Truncated(clock)' = Truncated(clock)
      BY <2>1 DEF Durable, Truncated
    <2> QED BY <1>1, <2>1, <2>2 DEF Dated, ServedLast
  <1>10. CASE InitKeyRenewal
    <2>1. CASE NeedsKey /\ gkey = None
      <3>1. GenerateKey /\ phase' = phase
        BY <1>10, <2>1 DEF InitKeyRenewal
      <3> QED BY <1>1, <3>1, GenerateKeyOrder
    <2>2. CASE ~(NeedsKey /\ gkey = None)
      <3>1. /\ gpc' = "idle" /\ phase # "down"
            /\ UNCHANGED <<stored, clock, latest, sealedWith>>
        BY <1>10, <2>2 DEF InitKeyRenewal
      <3>2. Durable' = Durable /\ Truncated(clock)' = Truncated(clock)
        BY <3>1 DEF Durable, Truncated
      <3>3. Dated'
        BY <1>1, <3>1, <3>2 DEF Dated
      <3> QED BY <1>1, <3>1, <3>3, ElsewhereServed DEF AgeInv
    <2> QED BY <2>1, <2>2
  <1>11. CASE UserSignals \/ AttemptUnseal \/ Tick \/ TakeSignal \/ TimerElapses \/ UNCHANGED vars
    <2>1. /\ UNCHANGED <<stored, keys, jobVars, latest, sealedWith, phase>>
          /\ clock' = clock \/ clock' = clock + 1
      BY <1>11 DEF UserSignals, AttemptUnseal, Tick, TakeSignal, TimerElapses, vars
    <2>2. Dated'
      BY <1>1, <2>1, ElsewhereDated
    <2>3. ServedLast'
      <3>1. CASE phase = "down"
        BY <2>1, <3>1 DEF ServedLast
      <3>2. CASE phase # "down"
        BY <1>1, <2>1, <3>2, ElsewhereServed DEF AgeInv
      <3> QED BY <3>1, <3>2
    <2> QED BY <2>2, <2>3
  <1> QED BY <1>3, <1>4, <1>5, <1>6, <1>7, <1>8, <1>9, <1>10, <1>11 DEF Next, Startup, Users

(***************************************************************************)
(* Without the watch, no registration and no restart takes users back to a *)
(* key that is older than one they sealed with before, for any clock and   *)
(* any number of crashes (registerNewKey, initKeyRegistry).                *)
(***************************************************************************)
THEOREM ServesNoOlder == ASSUME ~WatchForSecrets PROVE Spec => []NeverServesOlder
  <1>1. OrderInv => NeverServesOlder
    BY DEF OrderInv, ServedLast, Follows, NeverServesOlder
  <1> QED BY <1>1, InitOrderInv, NextOrderInv, PTL DEF Spec

(***************************************************************************)
(* Without the watch, the key that is served is not older than the cutoff  *)
(* time, or at least as young as one that the process has generated, which *)
(* only a key that is dated later can have kept from being served          *)
(* (initKeyRenewal, registerNewKey).                                       *)
(***************************************************************************)
THEOREM HonoursCutoff == ASSUME ~WatchForSecrets PROVE Spec => []CutoffHonoured
  <1>1. AgeInv => CutoffHonoured
    BY DEF AgeInv
  <1> QED BY <1>1, AgeInductive, PTL
=============================================================================
