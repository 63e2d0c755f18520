---------------------------- MODULE KeyRegistry ----------------------------
(***************************************************************************)
(* The key registry of the controller (pkg/controller/keyregistry.go,      *)
(* keys.go, and initKeyRegistry and initKeyRenewal of main.go): key pairs  *)
(* are kept in Secrets of the cluster, read back when the process starts,  *)
(* and generated by a timer, on SIGUSR1, and when there is none that is    *)
(* young enough.  The youngest is the one users seal with.                 *)
(*                                                                         *)
(* The goroutines: the job that generates keys, with the timer and the     *)
(* signal listener that trigger it; the handler of the informer of key     *)
(* Secrets; and the readers, which are the worker, the HTTP handlers, and  *)
(* the users behind them.  Only getCert takes the registry's lock.         *)
(*                                                                         *)
(* Timestamps in Secrets and certificates are whole seconds; time.Now() is *)
(* finer.  A second has Second ticks.                                      *)
(***************************************************************************)
EXTENDS Naturals

CONSTANTS
    Keys,             \* key pairs, a bound on how many are ever made
    None,             \* no key, no Secret, not registered
    Second,           \* ticks of the clock in a second
    MaxClock,         \* a bound on time
    WatchForSecrets,  \* --watch-for-secrets
    Renewal,          \* --key-renew-period is not 0
    KeyOrderPriority, \* --key-order-priority
    CutoffTime,       \* --key-cutoff-time
    ImportTimes,      \* the NotBefore of keys that administrators bring
    MaxTroubles       \* a bound on failed calls and crashes

ASSUME KeyRegistryAssumption ==
    /\ None \notin Keys /\ None \notin Nat
    /\ Second \in Nat \ {0}
    /\ MaxClock \in Nat
    /\ WatchForSecrets \in BOOLEAN
    /\ Renewal \in BOOLEAN
    /\ KeyOrderPriority \in {"CertNotBefore", "SecretCreationTimestamp"}
    /\ CutoffTime \in Nat
    /\ ImportTimes \subseteq Nat
    /\ None \notin [notBefore : Nat, created : Nat]
    /\ MaxTroubles \in Nat

VARIABLES
    clock,
    stored,      \* the Secret of each key, or None
    used,        \* the keys that exist somewhere
    phase,       \* the process: down, renew (in initKeyRenewal), running
    keys,        \* kr.keys: the orderingTime of each registered key, or None
    latest,      \* kr.mostRecentKey, and its orderingTime
    latestTime,
    gpc,         \* generateKey: idle, create, map, latest
    gkey,        \* the key it makes, its NotBefore, its orderingTime
    gtime,
    wpc,         \* the handler of key Secrets: idle, map, latest
    wkey,
    unseen,      \* the key Secrets that the informer has yet to report
    signal,      \* sigChannel holds a signal
    listener,    \* the signal listener: wait, send
    timer,       \* the timer: sleep, send
    unsealing,   \* somebody iterates over kr.keys
    troubles,
    made,        \* history: the keys that this process has generated
    sealedWith   \* history: the keys users sealed with

secretVars == <<stored, used, unseen>>
registryVars == <<keys, latest, latestTime>>
jobVars == <<gpc, gkey, gtime>>
watchVars == <<wpc, wkey>>
triggerVars == <<signal, listener, timer>>
vars == <<clock, secretVars, phase, registryVars, jobVars, watchVars, triggerVars,
          unsealing, troubles, made, sealedWith>>

KeySecret == [notBefore : Nat, created : Nat]

TypeOK ==
    /\ clock \in Nat
    /\ stored \in [Keys -> KeySecret \cup {None}]
    /\ used \subseteq Keys
    /\ phase \in {"down", "renew", "running"}
    /\ keys \in [Keys -> Nat \cup {None}]
    /\ latest \in Keys \cup {None}
    /\ latestTime \in Nat
    /\ gpc \in {"idle", "create", "map", "latest"}
    /\ gkey \in Keys \cup {None}
    /\ gpc # "idle" => gkey \in Keys
    /\ gtime \in Nat
    /\ wpc \in {"idle", "map", "latest"}
    /\ wkey \in Keys \cup {None}
    /\ wpc # "idle" => wkey \in Keys
    /\ unseen \subseteq Keys
    /\ signal \in BOOLEAN
    /\ listener \in {"wait", "send"}
    /\ timer \in {"sleep", "send"}
    /\ unsealing \in BOOLEAN
    /\ troubles \in Nat
    /\ made \subseteq Keys
    /\ sealedWith \subseteq Keys

-----------------------------------------------------------------------------
Durable == {k \in Keys : stored[k] # None}
Registered == {k \in Keys : keys[k] # None}

\* What is left of a time in a Secret or a certificate.
Truncated(t) == t - (t % Second)

\* getKeyOrderPriority
OrderingTime(k) ==
    IF KeyOrderPriority = "CertNotBefore" THEN stored[k].notBefore ELSE stored[k].created

\* registerNewKey replaces the most recent key by one that is younger.
\* Mutant: the last one to be registered is the most recent.
IsLastRegistered(time) == TRUE
IsMoreRecent(time) == latest = None \/ latestTime < time

\* initKeyRegistry registers the Secrets in the order of their creation: of
\* those with the greatest ordering time the first one is the most recent.
\* Which one comes first is open when they were created in the same second.
\* Mutant: the last of them is.
LastCreatedOf(S) == {k \in S : \A j \in S : stored[j].created <= stored[k].created}
MostRecentOf(S) ==
    {k \in S : \A j \in S :
        \/ OrderingTime(j) < OrderingTime(k)
        \/ OrderingTime(j) = OrderingTime(k) /\ stored[k].created <= stored[j].created}

-----------------------------------------------------------------------------
(***************************************************************************)
(* Start-up and its end.                                                   *)
(***************************************************************************)
Trouble == troubles < MaxTroubles /\ troubles' = troubles + 1

Forgotten ==
    /\ phase' = "down"
    /\ keys' = [k \in Keys |-> None] /\ latest' = None /\ latestTime' = 0
    /\ gpc' = "idle" /\ gkey' = None /\ gtime' = 0
    /\ wpc' = "idle" /\ wkey' = None
    /\ unseen' = {}
    /\ signal' = FALSE /\ listener' = "wait" /\ timer' = "sleep"
    /\ unsealing' = FALSE
    /\ made' = {}
    /\ UNCHANGED <<clock, used, sealedWith>>

Crash == phase # "down" /\ Trouble /\ Forgotten /\ UNCHANGED stored

\* A goroutine changes kr.keys while another one changes it or iterates over it:
\* the Go runtime may notice and end the process.
ConcurrentMapAccess ==
    \/ gpc = "map" /\ (wpc = "map" \/ unsealing)
    \/ wpc = "map" /\ unsealing

MapFault == ConcurrentMapAccess /\ Forgotten /\ UNCHANGED <<stored, troubles>>

\* initKeyRegistry: all key Secrets there are get registered.
InitKeyRegistry ==
    /\ phase = "down"
    /\ phase' = "renew"
    /\ keys' = [k \in Keys |-> IF k \in Durable THEN OrderingTime(k) ELSE None]
    /\ IF Durable = {} THEN UNCHANGED <<latest, latestTime>>
       ELSE \E k \in MostRecentOf(Durable) : latest' = k /\ latestTime' = OrderingTime(k)
    /\ UNCHANGED <<clock, secretVars, jobVars, watchVars, triggerVars, unsealing,
                   troubles, made, sealedWith>>

\* generateKey begins with a new key pair and its certificate.
\* Mutant: the key pair is lost on the way.
GenerateNoKey ==
    /\ gpc = "idle"
    /\ gpc' = "create"
    /\ \E k \in Keys \ used : used' = used \cup {k}
    /\ gtime' = Truncated(clock)
    /\ UNCHANGED <<clock, stored, gkey, unseen, registryVars, watchVars, unsealing,
                   troubles, made, sealedWith>>
GenerateKey ==
    /\ gpc = "idle"
    /\ gpc' = "create"
    /\ \E k \in Keys \ used : gkey' = k /\ used' = used \cup {k}
    /\ gtime' = Truncated(clock)
    /\ UNCHANGED <<clock, stored, unseen, registryVars, watchVars, unsealing,
                   troubles, made, sealedWith>>

\* Mutants: the cutoff is not looked at; an empty registry is not noticed.
NeedsFirstKey == latest = None
NeedsNewerKey == latest # None /\ latestTime < CutoffTime
NeedsKey == latest = None \/ latestTime < CutoffTime

\* initKeyRenewal generates a key if there is none, or none that is young
\* enough, and starts the timer; then the informers and the servers start.
InitKeyRenewal ==
    /\ phase = "renew" /\ gpc = "idle"
    /\ IF NeedsKey /\ gkey = None
       THEN GenerateKey /\ UNCHANGED <<phase, triggerVars>>
       ELSE /\ phase' = "running"
            /\ gkey' = None
            /\ unseen' = IF WatchForSecrets THEN Durable ELSE {}
            /\ UNCHANGED <<clock, stored, used, registryVars, gpc, gtime, watchVars,
                           triggerVars, unsealing, troubles, made, sealedWith>>

-----------------------------------------------------------------------------
(***************************************************************************)
(* The triggers of the job: ScheduleJobWithTrigger and                     *)
(* initKeyGenSignalListener.  A trigger is handed over when the job is     *)
(* idle, and its sender waits until then.  A signal that comes while       *)
(* another is in the channel is dropped.  Without renewal the listener     *)
(* runs the job itself.                                                    *)
(***************************************************************************)
UserSignals ==
    /\ phase = "running"
    /\ signal' = TRUE
    /\ UNCHANGED <<clock, secretVars, phase, registryVars, jobVars, watchVars, listener,
                   timer, unsealing, troubles, made, sealedWith>>

TakeSignal ==
    /\ phase = "running" /\ signal
    /\ listener = "wait" /\ (Renewal \/ gpc = "idle")
    /\ listener' = "send" /\ signal' = FALSE
    /\ UNCHANGED <<clock, secretVars, phase, registryVars, jobVars, watchVars, timer,
                   unsealing, troubles, made, sealedWith>>

TimerElapses ==
    /\ phase = "running" /\ Renewal
    /\ timer = "sleep"
    /\ timer' = "send"
    /\ UNCHANGED <<clock, secretVars, phase, registryVars, jobVars, watchVars, signal,
                   listener, unsealing, troubles, made, sealedWith>>

\* Mutant: the timer triggers nothing.
StartJobOnSignal ==
    /\ phase = "running"
    /\ listener = "send" /\ listener' = "wait" /\ UNCHANGED <<signal, timer>>
    /\ GenerateKey
    /\ UNCHANGED phase
StartJob ==
    /\ phase = "running"
    /\ \/ listener = "send" /\ listener' = "wait" /\ UNCHANGED <<signal, timer>>
       \/ timer = "send" /\ timer' = "sleep" /\ UNCHANGED <<signal, listener>>
    /\ GenerateKey
    /\ UNCHANGED phase

-----------------------------------------------------------------------------
(***************************************************************************)
(* The rest of generateKey, and registerNewKey as the job calls it.        *)
(***************************************************************************)
Store(k, notBefore) ==
    /\ stored' = [stored EXCEPT ![k] = [notBefore |-> notBefore,
                                         created |-> Truncated(clock)]]
    /\ unseen' = IF WatchForSecrets /\ phase = "running" THEN unseen \cup {k} ELSE unseen

WriteKey ==
    /\ gpc = "create"
    /\ Store(gkey, gtime)
    /\ gpc' = "map"
    /\ UNCHANGED <<clock, used, phase, registryVars, gkey, gtime, watchVars, triggerVars,
                   unsealing, troubles, made, sealedWith>>

\* The Secret cannot be created, or is and the answer is lost.  At start-up the
\* process gives up; later the job logs the error and waits for its triggers.
\* Mutant: the error is ignored.
WriteKeyFailsUnnoticed ==
    /\ gpc = "create"
    /\ Trouble
    /\ gpc' = "map"
    /\ UNCHANGED <<clock, secretVars, phase, registryVars, gkey, gtime, watchVars,
                   triggerVars, unsealing, sealedWith, made>>
WriteKeyFails ==
    /\ gpc = "create"
    /\ Trouble
    /\ Store(gkey, gtime) \/ UNCHANGED <<stored, unseen>>
    /\ \/ phase = "renew" /\ Forgotten
       \/ /\ phase = "running"
          /\ gpc' = "idle" /\ gkey' = None /\ gtime' = 0
          /\ UNCHANGED <<clock, used, phase, registryVars, watchVars, triggerVars,
                         unsealing, sealedWith, made>>

RegisterInMap ==
    /\ gpc = "map"
    /\ keys' = [keys EXCEPT ![gkey] = clock]
    /\ gtime' = clock
    /\ gpc' = IF IsMoreRecent(clock) THEN "latest" ELSE "idle"
    /\ made' = made \cup {gkey}
    /\ UNCHANGED <<clock, secretVars, phase, latest, latestTime, gkey, watchVars,
                   triggerVars, unsealing, troubles, sealedWith>>

RegisterAsLatest ==
    /\ gpc = "latest"
    /\ latest' = gkey /\ latestTime' = gtime
    /\ gpc' = "idle"
    /\ UNCHANGED <<clock, secretVars, phase, keys, gkey, gtime, watchVars, triggerVars,
                   unsealing, troubles, made, sealedWith>>

-----------------------------------------------------------------------------
(***************************************************************************)
(* registryNewKeyWithSecret, as the informer of key Secrets calls it.      *)
(***************************************************************************)
SeeKeySecret ==
    /\ phase = "running" /\ wpc = "idle"
    /\ \E k \in unseen : wkey' = k /\ unseen' = unseen \ {k}
    /\ wpc' = "map"
    /\ UNCHANGED <<clock, stored, used, phase, registryVars, jobVars, triggerVars,
                   unsealing, troubles, made, sealedWith>>

WatchInMap ==
    /\ wpc = "map"
    /\ keys' = [keys EXCEPT ![wkey] = OrderingTime(wkey)]
    /\ wpc' = IF IsMoreRecent(OrderingTime(wkey)) THEN "latest" ELSE "idle"
    /\ UNCHANGED <<clock, secretVars, phase, latest, latestTime, jobVars, wkey,
                   triggerVars, unsealing, troubles, made, sealedWith>>

WatchAsLatest ==
    /\ wpc = "latest"
    /\ latest' = wkey /\ latestTime' = OrderingTime(wkey)
    /\ wpc' = "idle"
    /\ UNCHANGED <<clock, secretVars, phase, keys, jobVars, wkey, triggerVars,
                   unsealing, troubles, made, sealedWith>>

-----------------------------------------------------------------------------
(***************************************************************************)
(* Readers.                                                                *)
(***************************************************************************)
\* A user gets the certificate (getCert) and seals with it, or has a
\* SealedSecret re-encrypted (Rotate, latestPrivateKey).
Seal ==
    /\ phase = "running"
    /\ latest # None
    /\ sealedWith' = sealedWith \cup {latest}
    /\ UNCHANGED <<clock, secretVars, phase, registryVars, jobVars, watchVars,
                   triggerVars, unsealing, troubles, made>>

\* attemptUnseal iterates over kr.keys.
AttemptUnseal ==
    /\ phase = "running"
    /\ unsealing' = ~unsealing
    /\ UNCHANGED <<clock, secretVars, phase, registryVars, jobVars, watchVars,
                   triggerVars, troubles, made, sealedWith>>

-----------------------------------------------------------------------------
\* An administrator brings a key: a Secret with the label of key Secrets.
ImportKey ==
    /\ \E k \in Keys \ used, notBefore \in ImportTimes :
         used' = used \cup {k} /\ Store(k, notBefore)
    /\ UNCHANGED <<clock, phase, registryVars, jobVars, watchVars, triggerVars,
                   unsealing, troubles, made, sealedWith>>

Tick ==
    /\ clock < MaxClock
    /\ clock' = clock + 1
    /\ UNCHANGED <<secretVars, phase, registryVars, jobVars, watchVars, triggerVars,
                   unsealing, troubles, made, sealedWith>>

Init ==
    /\ clock = 0
    /\ stored = [k \in Keys |-> None] /\ used = {} /\ unseen = {}
    /\ phase = "down"
    /\ keys = [k \in Keys |-> None] /\ latest = None /\ latestTime = 0
    /\ gpc = "idle" /\ gkey = None /\ gtime = 0
    /\ wpc = "idle" /\ wkey = None
    /\ signal = FALSE /\ listener = "wait" /\ timer = "sleep"
    /\ unsealing = FALSE
    /\ troubles = 0
    /\ made = {}
    /\ sealedWith = {}

Job == WriteKey \/ RegisterInMap \/ RegisterAsLatest
Watcher == SeeKeySecret \/ WatchInMap \/ WatchAsLatest
Startup == InitKeyRegistry \/ InitKeyRenewal
Users == UserSignals \/ Seal \/ AttemptUnseal \/ ImportKey

Next ==
    \/ Startup \/ Job \/ Watcher \/ Users \/ Tick
    \/ TakeSignal \/ TimerElapses \/ StartJob
    \/ WriteKeyFails \/ Crash \/ MapFault

\* The process is restarted when it ends, and its goroutines never rest.
Fairness ==
    /\ WF_vars(Startup) /\ WF_vars(Job) /\ WF_vars(Watcher)
    /\ WF_vars(TakeSignal) /\ WF_vars(TimerElapses) /\ WF_vars(StartJob)

Spec == Init /\ [][Next]_vars
FairSpec == Spec /\ Fairness

-----------------------------------------------------------------------------
(***************************************************************************)
(* A key that anybody sealed with is in the cluster, and whenever the      *)
(* process runs it can be opened: generateKey stores a key before it       *)
(* registers it, and initKeyRegistry registers all that are stored.        *)
(***************************************************************************)
SealedCanBeOpened ==
    \A k \in sealedWith : k \in Durable /\ (phase = "running" => k \in Registered)

\* While the process runs there is a key to seal with, and to open with: getCert
\* does not fail, and latestPrivateKey has a key to return.
ServesSomeKey == phase = "running" => latest \in Registered

(***************************************************************************)
(* When nobody is registering a key, the one that users seal with is the   *)
(* youngest of those registered (registerNewKey; keyregistry_test.go:37,   *)
(* "key1 is older, so it shouldn't replace key2 as the mostRecentKey").    *)
(***************************************************************************)
YoungestIsServed ==
    phase = "running" /\ gpc # "latest" /\ wpc # "latest"
        => \A k \in Registered : keys[k] <= latestTime

(***************************************************************************)
(* No key that users ever sealed with, in this process or an earlier one,  *)
(* is younger than the one they are given now: neither a registration nor  *)
(* a restart, which sorts the keys anew by what their Secrets say, sends   *)
(* them back (registerNewKey, initKeyRegistry; README.md:620, "The most    *)
(* recently created sealing key is the one used to seal new secrets").     *)
(* Within a second any of its keys may follow any other.  An imported key  *)
(* that was dated ahead gives way to a key that the job registers after    *)
(* that date and may come back with the next start.                        *)
(***************************************************************************)
DatedAhead(k) == stored[k].created < OrderingTime(k)

NeverServesOlder ==
    phase = "running" => \A k \in sealedWith :
        OrderingTime(k) <= OrderingTime(latest) \/ DatedAhead(k)

(***************************************************************************)
(* A process serves a key that is older than the cutoff only if it has     *)
(* generated a key itself, and then none that is older than that: a key    *)
(* that was imported with a later date may stay (initKeyRenewal,           *)
(* registerNewKey).                                                        *)
(***************************************************************************)
CutoffHonoured ==
    phase = "running" /\ latestTime < CutoffTime
        => \E k \in made \cap Registered : keys[k] <= latestTime

\* With renewal, keys are generated as long as there are any to make, in spite
\* of failures and crashes (initKeyRenewal, ScheduleJobWithTrigger).
RenewalNeverStops == <>(used = Keys)

\* The registry keeps what SealingKeys promises, while it runs.
Promise == INSTANCE SealingKeys WITH
    durable <- Durable,
    active <- IF phase = "running" THEN Registered ELSE {},
    current <- IF phase = "running" THEN latest ELSE None

KeepsPromise == Promise!Spec
=============================================================================
