------------------------------- MODULE System -------------------------------
(***************************************************************************)
(* The process of the controller (Main, initKeyRegistry and                *)
(* prepareController of pkg/controller/main.go, Run of controller.go): one *)
(* reconcile loop for its namespace, or for all, and one for each of the   *)
(* --additional-namespaces.  The loops share one key registry, which every *)
(* loop's informer of key Secrets adds to.                                 *)
(*                                                                         *)
(* A loop is known by the place of its namespace in the flag; the first    *)
(* one has place 0.  What is left of the modules of the parts: a pass      *)
(* opens the SealedSecret of a namespace if the registry has its key, and  *)
(* is retried a few times.                                                 *)
(***************************************************************************)
EXTENDS Naturals, Sequences

CONSTANTS
    Namespaces,
    Own,              \* the namespace of the controller
    Everywhere,       \* NamespaceAll
    AllNamespaces,    \* --all-namespaces
    Additional,       \* --additional-namespaces, split at the commas
    WatchForSecrets,  \* --watch-for-secrets
    MaxRetries,       \* --max-unseal-retries
    Keys, None,
    MaxChanges,       \* bound: changes of SealedSecrets and key Secrets
    MaxTroubles       \* bound: failed calls and crashes

ASSUME SystemAssumption ==
    /\ Own \in Namespaces /\ Everywhere \notin Namespaces
    /\ AllNamespaces \in BOOLEAN /\ WatchForSecrets \in BOOLEAN
    /\ Additional \in Seq(Namespaces)
    /\ None \notin Namespaces \cup Keys
    /\ MaxRetries \in Nat /\ MaxChanges \in Nat /\ MaxTroubles \in Nat

VARIABLES
    exists,   \* the namespaces there are
    stored,   \* the Secret of each key: none, good, bad (unreadable), gone (was bad)
    sealed,   \* the key of each namespace's SealedSecret, None if there is none
    opened,   \* its Secret is up to date
    phase,    \* Main: down, loaded (the registry), additional (its loop), up
    next,     \* the place in Additional that it has come to
    held,     \* the keys in the registry
    loops,    \* the places of the loops that run
    unseen,   \* per loop: key Secrets that its informer has yet to report,
    events,   \*           SealedSecrets that its informer has yet to report,
    queue,    \*           SealedSecrets that are due,
    job,      \*           the one its worker is at,
    tries,    \*           and how often each failed
    gaveUp,   \* history: SealedSecrets that failed too often as they are
    atStart,  \* history: the keys that were stored when the process started
    changes, troubles

clusterVars == <<exists, stored, sealed>>
mainVars == <<phase, next, loops, atStart>>
loopVars == <<unseen, events, queue, job, tries>>
counters == <<changes, troubles>>
vars == <<clusterVars, opened, mainVars, held, loopVars, gaveUp, counters>>

Places == 0 .. Len(Additional)

First == IF AllNamespaces /\ Additional = <<>> THEN Everywhere ELSE Own
Namespace(l) == IF l = 0 THEN First ELSE Additional[l]
Scope(l) == IF Namespace(l) = Everywhere THEN Namespaces ELSE {Namespace(l)}

TypeOK ==
    /\ exists \subseteq Namespaces /\ Own \in exists
    /\ stored \in [Keys -> {"none", "good", "bad", "gone"}]
    /\ sealed \in [Namespaces -> Keys \cup {None}]
    /\ opened \in [Namespaces -> BOOLEAN]
    /\ phase \in {"down", "loaded", "additional", "up"}
    /\ next \in 1 .. Len(Additional) + 1
    /\ held \subseteq {k \in Keys : stored[k] = "good"}
    /\ loops \subseteq Places
    /\ phase \in {"down", "loaded"} => loops = {}
    /\ unseen \in [Places -> SUBSET Keys]
    /\ events \in [Places -> SUBSET Namespaces]
    /\ queue \in [Places -> SUBSET Namespaces]
    /\ job \in [Places -> Namespaces \cup {None}]
    /\ tries \in [Places -> [Namespaces -> 0..MaxRetries]]
    /\ gaveUp \in [Namespaces -> BOOLEAN]
    /\ atStart \subseteq Keys
    /\ changes \in Nat /\ troubles \in Nat

InUse == {k \in Keys : stored[k] # "none"}
Good == {k \in Keys : stored[k] = "good"}
Unreadable == {k \in Keys : stored[k] = "bad"}

Trouble == troubles < MaxTroubles /\ troubles' = troubles + 1 /\ UNCHANGED changes
Change == changes < MaxChanges /\ changes' = changes + 1 /\ UNCHANGED troubles

Init ==
    /\ \E S \in SUBSET Namespaces : exists = S \cup {Own}
    /\ stored = [k \in Keys |-> "none"]
    /\ sealed = [n \in Namespaces |-> None] /\ opened = [n \in Namespaces |-> FALSE]
    /\ phase = "down" /\ next = 1 /\ held = {} /\ loops = {} /\ atStart = {}
    /\ unseen = [l \in Places |-> {}] /\ events = [l \in Places |-> {}]
    /\ queue = [l \in Places |-> {}] /\ job = [l \in Places |-> None]
    /\ tries = [l \in Places |-> [n \in Namespaces |-> 0]]
    /\ gaveUp = [n \in Namespaces |-> FALSE]
    /\ changes = 0 /\ troubles = 0

-----------------------------------------------------------------------------
(***************************************************************************)
(* Main.                                                                   *)
(***************************************************************************)
Down ==
    /\ phase' = "down" /\ next' = 1 /\ held' = {} /\ loops' = {} /\ atStart' = {}
    /\ unseen' = [l \in Places |-> {}] /\ events' = [l \in Places |-> {}]
    /\ queue' = [l \in Places |-> {}] /\ job' = [l \in Places |-> None]
    /\ tries' = [l \in Places |-> [n \in Namespaces |-> 0]]

Crash == phase # "down" /\ Trouble /\ Down /\ UNCHANGED <<clusterVars, opened, gaveUp>>

\* initKeyRegistry and initKeyRenewal: a key Secret that cannot be read ends the
\* process; if there is no key at all one is made.
InitKeyRegistry ==
    /\ phase = "down" /\ Unreadable = {}
    /\ \/ /\ Good # {}
          /\ UNCHANGED stored
       \/ /\ Good = {}
          /\ \E k \in Keys \ InUse : stored' = [stored EXCEPT ![k] = "good"]
    /\ held' = {k \in Keys : stored'[k] = "good"} /\ atStart' = held'
    /\ phase' = "loaded"
    /\ gaveUp' = [n \in Namespaces |-> FALSE]
    /\ UNCHANGED <<exists, sealed, opened, next, loops, loopVars, counters>>

\* prepareController and Run: the informers list what there is.  Mutant: a loop
\* that starts later hears of changes only.
LaunchLate(l) ==
    /\ loops' = loops \cup {l}
    /\ unseen' = [unseen EXCEPT ![l] = IF WatchForSecrets THEN Good \cup Unreadable ELSE {}]
    /\ events' = [events EXCEPT ![l] = {n \in Scope(l) : l = 0 /\ sealed[n] # None}]
    /\ UNCHANGED <<queue, job, tries>>
Launch(l) ==
    /\ loops' = loops \cup {l}
    /\ unseen' = [unseen EXCEPT ![l] = IF WatchForSecrets THEN Good \cup Unreadable ELSE {}]
    /\ events' = [events EXCEPT ![l] = {n \in Scope(l) : sealed[n] # None}]
    /\ UNCHANGED <<queue, job, tries>>

StartFirst ==
    /\ phase = "loaded"
    /\ phase' = "additional"
    /\ Launch(0)
    /\ UNCHANGED <<clusterVars, opened, next, held, atStart, gaveUp, counters>>

\* removeDuplicates keeps the first. Mutant: it keeps all.
IsNeverRepeated(i) == FALSE
IsRepeated(i) == \E j \in 1 .. i - 1 : Additional[j] = Additional[i]

\* A namespace that does not exist is logged and left out.
\* Mutant: it is an error like any other, and ends the process.
AdditionalMustExist ==
    LET ns == Additional[next]
    IN  /\ phase = "additional" /\ next <= Len(Additional)
        /\ IF ns \notin exists THEN Down
           ELSE /\ next' = next + 1
                /\ UNCHANGED <<phase, held, atStart>>
                /\ IF IsRepeated(next) \/ ns = First THEN UNCHANGED <<loops, loopVars>>
                   ELSE Launch(next)
        /\ UNCHANGED <<clusterVars, opened, gaveUp, counters>>
NextAdditional ==
    LET ns == Additional[next]
    IN  /\ phase = "additional" /\ next <= Len(Additional)
        /\ next' = next + 1
        /\ IF IsRepeated(next) \/ ns \notin exists \/ ns = First
           THEN UNCHANGED <<loops, loopVars>>
           ELSE Launch(next)
        /\ UNCHANGED <<clusterVars, opened, phase, held, atStart, gaveUp, counters>>

\* Any other error of the API does end it, and the loops that run already.
NamespaceCallFails ==
    /\ phase = "additional" /\ next <= Len(Additional)
    /\ Trouble /\ Down
    /\ UNCHANGED <<clusterVars, opened, gaveUp>>

Serve ==
    /\ phase = "additional" /\ next > Len(Additional)
    /\ phase' = "up"
    /\ UNCHANGED <<clusterVars, opened, next, held, loops, atStart, loopVars, gaveUp,
                   counters>>

-----------------------------------------------------------------------------
(***************************************************************************)
(* Key Secrets, and the informers that add them to the registry.           *)
(***************************************************************************)
KeyStored(k, how) ==
    /\ stored' = [stored EXCEPT ![k] = how]
    /\ unseen' = [l \in Places |-> IF WatchForSecrets /\ l \in loops
                                   THEN unseen[l] \cup {k} ELSE unseen[l]]

\* generateKey. Mutant: the key is registered although it was not stored.
RenewUnstored(k) ==
    /\ phase # "down" /\ k \notin InUse
    /\ Change
    /\ held' = held \cup {k}
    /\ UNCHANGED <<clusterVars, opened, mainVars, loopVars, gaveUp>>
Renew(k) ==
    /\ phase # "down" /\ k \notin InUse
    /\ Change
    /\ KeyStored(k, "good") /\ held' = held \cup {k}
    /\ UNCHANGED <<exists, sealed, opened, mainVars, events, queue, job, tries, gaveUp>>

\* An administrator brings a key, or a Secret with its label that holds none.
\* (A bound: one key pair is left for the controller to make.)
ImportKey(k) ==
    /\ k \notin InUse
    /\ \E j \in Keys \ {k} : stored[j] \in {"none", "good"}
    /\ Change
    /\ KeyStored(k, "good") \/ KeyStored(k, "bad")
    /\ UNCHANGED <<exists, sealed, opened, mainVars, held, events, queue, job, tries,
                   gaveUp>>

RemoveUnreadable(k) ==
    /\ stored[k] = "bad"
    /\ stored' = [stored EXCEPT ![k] = "gone"]
    /\ UNCHANGED <<exists, sealed, opened, mainVars, held, loopVars, gaveUp, counters>>

\* watchKeySecrets. Mutant: later loops have a registry of their own.
SeeKeyOfFirst(l) ==
    \E k \in unseen[l] :
        /\ unseen' = [unseen EXCEPT ![l] = @ \ {k}]
        /\ held' = IF l = 0 /\ stored[k] = "good" THEN held \cup {k} ELSE held
        /\ UNCHANGED <<clusterVars, opened, mainVars, events, queue, job, tries, gaveUp,
                       counters>>
SeeKey(l) ==
    \E k \in unseen[l] :
        /\ IF stored[k] = "good"
           THEN /\ unseen' = [unseen EXCEPT ![l] = @ \ {k}]
                /\ held' = held \cup {k}
                /\ UNCHANGED <<mainVars, events, queue, job, tries>>
           ELSE Down
        /\ UNCHANGED <<clusterVars, opened, gaveUp, counters>>

\* The registry is a map, written without its lock while others read or write it:
\* the Go runtime may notice and end the process.
MapFault(l) ==
    /\ unseen[l] # {}
    /\ \E m \in loops : job[m] # None \/ (m # l /\ unseen[m] # {})
    /\ Trouble /\ Down
    /\ UNCHANGED <<clusterVars, opened, gaveUp>>

-----------------------------------------------------------------------------
(***************************************************************************)
(* SealedSecrets, and the loops that work on them.                         *)
(***************************************************************************)
CreateNamespace(n) ==
    /\ n \notin exists
    /\ Change
    /\ exists' = exists \cup {n}
    /\ UNCHANGED <<stored, sealed, opened, mainVars, held, loopVars, gaveUp>>

\* A user creates, replaces or deletes the SealedSecret of a namespace.
Apply(n, k) ==
    /\ n \in exists /\ k # sealed[n]
    /\ Change
    /\ sealed' = [sealed EXCEPT ![n] = k]
    /\ opened' = [opened EXCEPT ![n] = FALSE]
    /\ gaveUp' = [gaveUp EXCEPT ![n] = FALSE]
    /\ events' = [l \in Places |-> IF l \in loops /\ n \in Scope(l)
                                   THEN events[l] \cup {n} ELSE events[l]]
    /\ UNCHANGED <<exists, stored, mainVars, held, unseen, queue, job, tries>>

\* The informer's handler puts it into the queue.  Mutant: not while the worker
\* has it.
NotifyIdle(l) ==
    /\ \E n \in events[l] :
          /\ events' = [events EXCEPT ![l] = @ \ {n}]
          /\ queue' = [queue EXCEPT ![l] = IF job[l] = n THEN @ ELSE @ \cup {n}]
    /\ UNCHANGED <<clusterVars, opened, mainVars, held, unseen, job, tries, gaveUp, counters>>
Notify(l) ==
    /\ \E n \in events[l] :
          /\ events' = [events EXCEPT ![l] = @ \ {n}]
          /\ queue' = [queue EXCEPT ![l] = @ \cup {n}]
    /\ UNCHANGED <<clusterVars, opened, mainVars, held, unseen, job, tries, gaveUp, counters>>

Take(l) ==
    /\ job[l] = None
    /\ \E n \in queue[l] :
          /\ job' = [job EXCEPT ![l] = n]
          /\ queue' = [queue EXCEPT ![l] = @ \ {n}]
    /\ UNCHANGED <<clusterVars, opened, mainVars, held, unseen, events, tries, gaveUp,
                   counters>>

Done(l, n) == job' = [job EXCEPT ![l] = None]
Forget(l, n) == tries' = [tries EXCEPT ![l][n] = 0]

\* A pass opens it, or finds none, or still sees what was there before a change.
Opens(l) ==
    LET n == job[l]
    IN  /\ n # None /\ Done(l, n) /\ Forget(l, n)
        /\ \/ /\ sealed[n] \in held
              /\ opened' = [opened EXCEPT ![n] = TRUE]
              /\ gaveUp' = [gaveUp EXCEPT ![n] = FALSE]
           \/ /\ sealed[n] = None \/ n \in events[l]
              /\ UNCHANGED <<opened, gaveUp>>
        /\ UNCHANGED <<clusterVars, mainVars, held, unseen, events, queue, counters>>

\* A pass fails for want of the key, and is retried, or given up.
\* Mutant: it is not retried.
RetriesNever(l, n) ==
    /\ UNCHANGED <<queue, gaveUp>> /\ Forget(l, n)
Retries(l, n) ==
    IF tries[l][n] < MaxRetries
    THEN /\ queue' = [queue EXCEPT ![l] = @ \cup {n}]
         /\ tries' = [tries EXCEPT ![l][n] = @ + 1]
         /\ UNCHANGED gaveUp
    ELSE /\ Forget(l, n) /\ UNCHANGED queue
         /\ gaveUp' = [gaveUp EXCEPT ![n] = n \notin events[l] \cup queue[l]]

PassFails(l) ==
    LET n == job[l]
    IN  /\ n # None /\ Done(l, n) /\ Retries(l, n)
        /\ sealed[n] # None \/ n \in events[l]
        /\ \/ sealed[n] \notin held /\ UNCHANGED counters
           \/ Trouble
        /\ UNCHANGED <<clusterVars, opened, mainVars, held, unseen, events>>

Pass(l) == Opens(l) \/ PassFails(l)

-----------------------------------------------------------------------------
MainSteps == InitKeyRegistry \/ StartFirst \/ NextAdditional \/ Serve

Next ==
    \/ MainSteps \/ NamespaceCallFails \/ Crash
    \/ \E k \in Keys : Renew(k) \/ ImportKey(k) \/ RemoveUnreadable(k)
    \/ \E n \in Namespaces : CreateNamespace(n) \/ \E k \in Keys \cup {None} : Apply(n, k)
    \/ \E l \in loops : SeeKey(l) \/ MapFault(l) \/ Notify(l) \/ Take(l) \/ Pass(l)

\* The process is restarted when it ends, and its goroutines never rest.
Fairness ==
    /\ WF_vars(MainSteps)
    /\ \A l \in Places :
          /\ WF_vars(l \in loops /\ SeeKey(l))
          /\ WF_vars(l \in loops /\ Notify(l))
          /\ WF_vars(l \in loops /\ Take(l))
          /\ WF_vars(l \in loops /\ Pass(l))

Spec == Init /\ [][Next]_vars
FairSpec == Spec /\ Fairness

-----------------------------------------------------------------------------
(***************************************************************************)
(* No two workers are ever at the same SealedSecret, whatever namespaces   *)
(* the flags name, repeat, or name although they are the controller's own  *)
(* (removeDuplicates, and Main's test that the namespace is another one).  *)
(***************************************************************************)
OneWorkerPerObject ==
    \A l, m \in loops : l # m /\ job[l] # None => job[l] # job[m]

(***************************************************************************)
(* A key that was stored when the process started is in the registry       *)
(* before any loop runs; with --watch-for-secrets a key that came later is *)
(* there as soon as any of the loops has seen it, for all of them          *)
(* (initKeyRegistry before prepareController, watchKeySecrets on the       *)
(* shared registry; HasSynced does not wait for the key Secrets).          *)
(***************************************************************************)
KeysArriveForAll ==
    phase # "down" => \A k \in Good :
        \/ k \in held
        \/ k \notin atStart /\ (WatchForSecrets => \A l \in loops : k \in unseen[l])

(***************************************************************************)
(* The process comes up whatever the flag names, also namespaces that do   *)
(* not exist, unless a key Secret that cannot be read is left in place     *)
(* (Main's loop, which calls continue when errors.IsNotFound).             *)
(***************************************************************************)
ComesUp == <>[](phase = "up") \/ <>[](Unreadable # {})

(***************************************************************************)
(* A SealedSecret in the scope of a loop that runs is opened, or given up  *)
(* as it is, or that loop has it in hand: since the loop was launched,     *)
(* before the process was or after, whatever other loops do and however    *)
(* often it was replaced meanwhile (Run, watchSealedSecrets,               *)
(* processNextItem).                                                       *)
(***************************************************************************)
Pending(l, n) == n \in events[l] \cup queue[l] \/ job[l] = n

NothingForgotten ==
    \A l \in loops : \A n \in Scope(l) :
        sealed[n] # None => opened[n] \/ gaveUp[n] \/ Pending(l, n)

(***************************************************************************)
(* Each loop, which is here a set of keys and a worker, is a Worklist as   *)
(* the reconcile loop of Controller is, through all restarts (Run,         *)
(* watchSealedSecrets, processNextItem).                                   *)
(***************************************************************************)
Work(l) == INSTANCE Worklist WITH
    Names <- Namespaces,
    todo <- events[l] \cup queue[l],
    job <- job[l],
    fails <- tries[l]

LoopsWorkThroughLists ==
    /\ \A l \in Places : Work(l)!Init
    /\ [][\A l \in Places : Work(l)!Step]_vars

(***************************************************************************)
(* A SealedSecret in a namespace that some loop watches, sealed with a key *)
(* that is stored, is opened in the end, in spite of crashes, failed calls *)
(* and keys that come late, unless a worker gave it up after all its       *)
(* retries (processNextItem, watchKeySecrets).                             *)
(***************************************************************************)
Watched(n) == \E l \in loops : n \in Scope(l)

EventuallyOpened ==
    \/ <>[](Unreadable # {})
    \/ \A n \in Namespaces :
          <>[](Watched(n) /\ sealed[n] \in Good => opened[n] \/ gaveUp[n])
=============================================================================
