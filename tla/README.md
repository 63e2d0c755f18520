# Sealed Secrets in TLA+

A SealedSecret holds items encrypted with a public key of the sealed-secrets
controller. The controller decrypts it into a Secret of the same namespace and
name, keeps that Secret in step, and looks after the key pairs; `kubeseal` makes
SealedSecrets and edits the files that hold them. This directory models both
from their source, checks the models with TLC, and proves
the properties that matter most with TLAPS.

## 1. Inventory

| Part | Source | State | Operations | Talks to |
|---|---|---|---|---|
| Reconcile loop | `pkg/controller/controller.go` | work queue, informer stores, what one pass of `unseal` holds | `watchSealedSecrets` and `watchSecrets` (handlers), `processNextItem`, `unseal`, `updateSealedSecretStatus` | API server (watches and calls), key registry (`attemptUnseal`), metrics |
| Key registry and renewal | `keyregistry.go`, `keys.go`, `funcs.go`, `signal_notwin.go`, `initKeyRegistry` and `initKeyRenewal` of `main.go` | `keys`, `mostRecentKey`; the key Secrets in the cluster; the channels that trigger the job | start-up, `generateKey`, `registerNewKey`, `watchKeySecrets`, `ScheduleJobWithTrigger`, `getCert`, `latestPrivateKey` | API server; read by the worker and by the HTTP handlers |
| Sealing | `pkg/apis/.../sealedsecret_expansion.go`, `pkg/crypto`, `Rotate` of `controller.go`, `pkg/kubeseal` | none: objects in, objects out | `NewSealedSecret`, `Unseal`, `Rotate`, `Seal` | the certificate that the controller serves, the keys it holds |
| HTTP server | `pkg/controller/server.go` | the rate limiter's debts | `/v1/cert.pem`, `/v1/verify`, `/v1/rotate` | key registry |
| Metrics | `pkg/controller/metrics.go` | a gauge per SealedSecret and condition | `ObserveCondition`, `UnregisterCondition` | called by the worker and by a handler |
| `kubeseal` command | `cmd/kubeseal/main.go`, `pkg/kubeseal` | the files that are sealed, merged into and re-encrypted; the open and the temporary file of a process | seal, merge, raw, validate, re-encrypt, unseal | HTTP server |
| Process of the controller | `pkg/controller/main.go` | the loops that run, the registry they share | start-up, one loop per namespace, the end | everything above |
| Controller command | `cmd/controller/main.go`, `pkg/flagenv` | flags | | |
| Generated clients, deployment, logging | `pkg/client`, `helm`, `pkg/log`, ... | | | |

What is hard about it:

* **Concurrency.** The informers' handlers, the workers (one per namespace), the
  renewal job, the handlers of key Secrets and the HTTP handlers are goroutines.
  A queue serialises passes over one name; the registry has a lock that only
  `getCert` takes. `kubeseal` runs many times at once, on files without locks.
* **Stale copies.** A pass works on the informer's copy, reads the Secret, and
  writes both the Secret and the SealedSecret's status later. Users, the garbage
  collector and the informer act in between.
* **Failures.** Each call can fail before or after it took effect; a watch can
  break, so that deletions arrive as tombstones; the process can die at any
  point and starts again with nothing in memory.
* **Budgets.** A caller of `/v1/verify` has a burst and a rate. A failing key is
  retried `--max-unseal-retries` times, then dropped until something else wakes it.
* **Long histories.** A file lives for years: it is sealed, merged into, edited by
  hand and encrypted again, with certificates of different age, while keys are
  renewed and old ones removed.
* **Time.** Keys are compared by timestamps of different resolution and origin.

`PROJECT.json` lists these hazards at their lines, with the properties that
would catch them.

## 2. Modules

    Objects -- WorkQueue --\
            \- Cluster   ---+- Controller -- ControllerProperties -- MCController
                                                    \-- ControllerProofs -- StatusProofs -- AtRestProofs

    Worklist (abstract)
        ^ implemented by Controller (in ControllerProperties) and by each loop of System

    System -- MCSystem
        \-- SystemProofs

    SealingKeys (abstract)
        ^ implemented by
    KeyRegistry -- MCKeyRegistry
         \-- KeyRegistryProofs

    Sealing -- SealedFile -- MCSealedFile
                     \-- SealedFileProofs -- FileContentProofs

    HttpServer -- Kubeseal -- MCKubeseal
                      \-- KubesealProofs

### Controller

`Cluster` is the environment: the SealedSecret and the Secret of each name, the
streams of events that informers have not seen yet, optimistic concurrency by
`resourceVersion`, users and the garbage collector. `WorkQueue` is client-go's
rate-limited queue. Both are external: they say what `controller.go` relies on.

`Controller` is the loop itself. `pc` says where the worker is in `unseal`:

| `pc` | action | code in `controller.go` |
|---|---|---|
| idle | `TakeKey` | `queue.Get` (299) |
| fetch | `Fetch` | look-up in the store, `attemptUnseal` (329-380) |
| delete | `DeleteSecret` | old garbage collection (341-351) |
| get | `GetSecret` | `Get`, and the decision what to do with the Secret (382, 392-435) |
| create | `CreateSecret` | `Create`, and the same decision (384, 392-435) |
| update | `UpdateSecret` | `Update` (436) |
| status | `UpdateStatus`, `StatusFails` | the deferred status update (365-373, 468-486) |
| observe, finish | `Finish` | `ObserveCondition`, and the result in `processNextItem` (305-322) |

A step ends where the code calls the API server, so that everything else comes
between two calls. `CallFails` and `StatusFails` are those calls failing, with
or without effect. `obj` is the store's own object: `SetStatus` changes the
store as well as the object, unless the informer has replaced it in the meantime
(lines 474-480 do not copy it).

The handlers are `DeliverSealedSecret` (`watchSealedSecrets`; the informer puts
the event into its store and calls the handler in one step) and `SecretDeleted`
(`watchSecrets`; its look-up of the SealedSecret is a live call, with
`LookupFails`). A tombstone makes its type assertion panic (line 225): the
process starts again, as after a `Crash`.

What a pass computes is data: items, annotations, controller and `immutable` of
a Secret (`NewSecret`, `Patched`, `Overwritten`, `Target`). Labels and the
Secret's type behave as annotations and items do and are left out. Decryption
is whether the scope of the metadata is the one that the items were sealed for.

`tried` and `excuse` are history variables for the properties.

`Worklist` is what queue, timers and worker come to: a list of names to do, the
name at work, and how often each was put back. A name that was heard of stays on the
list until it is taken, a failed pass puts it back at most `MaxRetries` times in a
row, and only the end of the process clears the list. In `ControllerProperties`
the list is `dirty \cup delayed`; `TakeKey` is `Take`, `Finish` is `Settle` or
`PutBack`, every handler is `Hear`.

### KeyRegistry

Every key pair has a Secret (`stored`) with a `NotBefore` and a creation time,
and an entry in the registry (`keys`, its ordering time) once it is registered.
`phase` is the process: down, renew (between `initKeyRegistry` and the end of
`initKeyRenewal`), running. The job is `GenerateKey`, `WriteKey` (or
`WriteKeyFails`), `RegisterInMap`, `RegisterAsLatest`; the handler of key Secrets
is `SeeKeySecret`, `WatchInMap`, `WatchAsLatest`. The last two steps of each are
`registerNewKey`, cut between the comparison with the most recent key and its
replacement, because nothing keeps another goroutine out. `AttemptUnseal` is an
iteration over the map in progress; when a write meets it, or another write, the
Go runtime may end the process (`MapFault`).

The clock has `Second` ticks in a second: timestamps in Secrets and
certificates are truncated to seconds, `time.Now()` is not. So a key that is
registered when it is made has another ordering time than it has after a restart.

Two variables are history: `sealedWith`, the keys that users ever sealed with, in
this process or an earlier one, and `made`, the keys that this process generated.
`NeverServesOlder` relates the first to the key that is served now, and
`CutoffHonoured` the second to the cutoff time.

`SealingKeys` says what the registry is for, without how: keys become durable,
the service comes up with all the keys that users sealed with, and the current
key is one it can open with.

### Sealing and SealedFile

`Sealing` has the functions that controller and `kubeseal` share, under the names
they have in the code: `SecretScope`, `EncryptionLabel`, `HybridEncrypt`,
`HybridDecrypt`, `NewSealedSecret`, `Unseal`, `Rotate`, `Seal`, the merge of
`SealMergingInto`. A ciphertext is the record of its key, label and plaintext;
`SingleDecrypt` returns the plaintext for the same key and label, and None
otherwise, which is what RSA-OAEP with a label and AES-GCM promise. A label is the
list of the parts that the code joins with a slash. Labels and annotations are one
set, because sealing, merging and unsealing treat them alike; a template with only
one of the two, to which a merge adds the other, is not told apart from one with
both. A SealedSecret of the deprecated format has a `blob`, a whole Secret in one
ciphertext (`NewSealedSecretV1`), which `Unseal` opens if `AcceptDeprecatedV1Data`:
that is a flag of the controller, on by default. A template text is the item it quotes, or one that cannot be executed.
`Rotate` unseals and seals again whatever it is given, as the code does; the
comment above it (`controller.go:560-562`) says that what is already sealed with
the latest key is returned as it is.

`SealedFile` is what happens to one file: `NewFile`, `OldFile` (an older `kubeseal`
wrote it in the deprecated format), `SealMergingInto`,
`KilledMerging` (the process dies between `Truncate` and `Copy`), `ReEncrypt`
(the `/v1/rotate` of the controller), the owner's edits (`Move`,
`EditTemplateMetadata`, `EditTemplateData`, `RemoveItem`), and `PasteRawItem`
(`kubeseal --raw`, as README.md describes it). `RegisterKey`, `FetchCert` and
`PurgeKeys` are the keys: the controller's, the certificate the owner has, which
may be an old one kept for offline use, and the removal of the old keys once the
file has been encrypted again.

Three variables are history. `meant` is what the owner put in; `tidy` says that
everything was put in under the label of the file, which `README.md:518` asks of
the owner; `retired` are the keys that a re-encryption made superfluous. So that
scopes can be spoken of, a plaintext carries the scope, namespace and name it was
sealed for; the functions never look at it.

### HttpServer and Kubeseal

`HttpServer` is the controller as its callers see it: the keys it holds and the one
that it publishes, and the rate limiter in front of `/v1/verify`. The limiter is
throttled's GCRA, a leaky bucket per caller: a request costs `Interval` ticks,
and is refused while the caller owes more than `Burst` requests. `served` and
`elapsed` count since somebody began to observe (`Observe`), at any moment, and
start again with the process.

`Kubeseal` puts commands on top of it, as processes whose steps are the calls to the
server and to the file system:

| `at` | action | code |
|---|---|---|
| idle | `Start` | the input is opened, the temporary file is made (`cmd/kubeseal/main.go:143-182`) |
| cert | `FetchCert` | `OpenCert`, and `Seal` without `--merge-into` (199-214, 262) |
| read | `Read` | `readSealedSecrets` (`kubeseal.go:195-218`) |
| request | `Validate`, `ValidateRefused`, `ReEncrypt`, `AllDone` | the loops over the documents (313-327, 360-388) |
| open | `MergeOpen` | `SealMergingInto` up to the rendering (432-477) |
| truncate, write | `Truncate`, `Write`, `WriteFails` | the file is changed in place (479-492) |
| finish | `Finish`, `FinishFails`, `FinishShort` | the deferred replacement (`main.go:175-179`), whose errors are dropped, as are those of writing (`kubeseal.go:410`) |

`Fails` and `Kill` are a command that fails or dies at any of them. A file is the
sequence of its documents, and a document the key that each of its items is sealed
with; what is in the items is the business of `SealedFile`. A file that was
replaced while a process has it open is `Detached` for that process: it reads
what was there and writes to nobody. A controller that starts anew may choose another
latest key of those it holds (`Restart`), also while commands run. The owner removes
old keys when no command runs and no file needs them (`Restart`, `Needed`), which is
the owner's discipline and not the code's: a key that is removed while a validation
runs could make its answer stale. The owner also pastes documents of another cluster
(`Paste`), which this one cannot open.

`meant` and `needs` are what the owner takes each file to hold, and which keys it
needs; `since` are the keys that were the latest while a command runs; `clean` says
that no other command wrote its file at the same time, and that a merge was one
Secret into one document, since `SealMergingInto` decodes the first document and
drops the rest. The owner has to notice what no exit code says: commands
that race for a file, a kill while the file is written, and a disk that fails.

### System

`System` is `Main`: `InitKeyRegistry` (which panics on a key Secret it cannot read,
so that the action is not possible while there is one), `StartFirst`,
`NextAdditional` for each name in `--additional-namespaces`, `Serve`. A loop is known
by the place of its namespace in the flag, and has what its goroutines share no
further: the key Secrets and SealedSecrets that its informers have not reported
(`SeeKey`, `Notify`), its queue, the job of its worker and the retries (`Take`,
`Pass`). A pass is one step here, its steps are in `Controller`. All loops add
to one registry, `held`; an unreadable key Secret that any of them sees ends the
process (`Down`), and so may a write that meets another use of the map (`MapFault`).
`Work(l)` is a loop seen as a `Worklist`: its list is `events[l] \cup queue[l]`.

## 3. Runs

Passing runs:

| run | question | bounds |
|---|---|---|
| `ControllerObject` | what may a pass overwrite, does everything converge, and is whatever was left behind excused? | one name, 3 user actions of all kinds, scope changes, 1 trouble, patch and managed annotations in templates and in users' Secrets, under `Fairness` |
| `ControllerQueue` | is every change worked on, every failure retried as promised (`Worklist`), and is `Synced` honest? | two names that share queue and worker, 3 user actions, immutable specs, old garbage collection, 1 trouble; users leave Secrets alone, since the condition cannot know what they do, and no template is annotated to be patched: see below |
| `KeyRegistryWatch` | is every sealed-with key kept and openable? does the registry implement `SealingKeys`? | 3 keys, watch of key Secrets, 1 trouble |
| `KeyRegistryAge` | which key is served, before and after a restart, and does renewal go on? | 3 keys, seconds of 2 ticks, imported keys from the past and the future, restarts, 1 trouble |
| `SealedFile` | does every value stay within its scope, and does the file unseal to what was put in? | 2 keys, 2 edits by hand, 6 commands, 5 metadata |
| `Kubeseal` | do overlapping commands lose anything, can every file still be opened, does the limiter hold? | 2 processes, 2 files, 2 keys, 7 command lines, 4 commands, 1 trouble, a burst of 1 and 1 tick; keys and processes are symmetric |
| `System` | does the process come up, does every loop get every key and work as a `Worklist`, is every SealedSecret opened or in some loop's hands? | 2 namespaces, `--additional-namespaces=other,own,other` with `--all-namespaces`, 2 keys, 3 changes, 1 trouble, under `Fairness` |

Runs that show a disagreement (`findings` in `PROJECT.json` has the quotes):

* `ControllerStatus`: `types.go:95` says what the condition Synced means. One
  failed `Get` is enough for it to stay False for ever although the Secret is
  right: the retry creates the Secret and reports it with a stale
  `resourceVersion`, and the conflict is only logged. With `IndependentSpecs` in
  place of `OneSpec` the property is refuted without any failure: a template
  that skips owner references and does not say managed yields a Secret that the
  pass which created it may not write (`controller.go:392`).
* `ControllerRecreate`: `README.md:181-182` says that the Secret follows its
  SealedSecret. A SealedSecret deleted and created again finds the old one's
  Secret, uses up its retries before the garbage collector comes, and is not
  woken by the deletion.
* `KeyRegistryRace`: a test comment (`keyregistry_test.go:37`) says that an older
  key does not replace a younger one. With `--watch-for-secrets` it can.
* `SealedFileMerge`: `README.md:520` offers `--merge-into` to update a SealedSecret.
  When its template has no annotations (or no labels), which is what `kubeseal`
  writes for a Secret without them, and the merged Secret has some, the command
  stores into a nil map and panics. The file is left as it was.
* `ControllerGauges`: `RELEASE-NOTES.md:730` says that the gauges of removed
  SealedSecrets are unregistered. A pass that ends after the deletion was handled
  sets its gauge again (`controller.go:371`), and it is exported until the process
  ends.

### Bounds, and why they are enough

`MaxOps` and `MaxTroubles` bound users and failures; an interesting history needs
two or three of the first and one or two of the second, and the counterexamples
above, as those of the mutants, are shorter. `MaxRetries` is 1 instead of 5:
only `requeues[key] < MaxRetries` looks at it. `MaxRevision` bounds the store's
revision: from there on the garbage collector rests, because a controller that
works on a stale copy recreates for a dead uid what the collector deletes, each
time with a new revision; in `ControllerQueue` it is reached by such histories
only, in `ControllerObject` it is far beyond what the users can cause. Names are
one, where a property speaks of one object, and two, where queue and worker are
shared. Three keys let two be made while one is there; the clock's bound lets
keys fall into the same second and into different ones. In `KeyRegistryAge` imported
certificates have the first second or the second one, as certificates hold whole
seconds, the clock ends in the third one, and the cutoff is the beginning of the
second one: keys are dated before it and not before it, and before and after the
second in which they are imported.

`SealedFile` has two keys (the current one and an old one, in both orders, since
`RegisterKey` may import one), two namespaces, names, items and values, so that
each can be the right one or another, and commands and metadata of every scope,
by annotation, by option and by both. `MaxEdits` bounds what is done by hand to
two; commands and renewals are not bounded, since they only lead back to files
that are already there. Two Secrets come in the deprecated format, a strict one and
a cluster-wide one without a namespace. The proofs do without these bounds.

`Kubeseal` needs two processes for commands that overlap, two files so that a
re-encryption can read one and write another, two keys so that one can be renewed
and removed, and four commands: seal, re-encrypt, and two that overlap. Its
commands seal one document or two, merge, validate, and re-encrypt in place and
to another file. One tick and a burst of one bring the limiter to its boundary
with the requests of two documents. No property speaks of a key or a process by
name, so that permuting them is sound.

`System` has the flag that matters for `removeDuplicates` and for the comparison
with the own namespace: a repeated name, the own name, and a name that may not
exist yet. The three changes are a SealedSecret, its key and one more; one key
pair is left for the controller to make, or it could not start.

`SyncedIsHonest` would not hold with templates that are annotated to be patched.
When a SealedSecret is deleted and created again, the pass patches the Secret of
the old one; unless the result is annotated as managed the patch leaves the
ownerReference as it is (`controller.go:402-425`), the condition becomes true,
and then the garbage collector deletes the Secret of an owner that is gone.

Every cfg has `CHECK_DEADLOCK FALSE`: when users and troubles have used up their
bounds and everything is in step the system rests, as it should.

### Fairness

`Controller!Fairness`: the worker, the informers' deliveries and handlers are
goroutines that run whenever they can; backoffs elapse; the garbage collector
works. Each is weakly fair, since nothing but its own steps disables it. Users,
failures and crashes have no fairness. `KeyRegistry!Fairness`: the process is
restarted, and the job, the handler, the listener and the timer run; the timer
elapses (`--key-renew-period` is finite). `System!Fairness`: the process is
restarted when it ends and `Main` goes on, and the informers and workers of the
loops that run do so; users, failures and crashes have none. Unreadable key
Secrets are removed or not: both properties say what holds if they stay.

`Converges` names the only reasons for a Secret to be out of step (`Excuses`):
the retries are used up, an update was suppressed since it changed the scope
only or the object was replaced under the same spec, the deletion of a Secret
was missed or belonged to another uid, a user wrote the Secret (there is no
handler for that).

## 4. Proofs

`ControllerProofs`, `StatusProofs` and `AtRestProofs` prove, for every set of
names, specs and flags and any number of users' actions, failures and crashes, from
`ClusterAssumption` and `ControllerAssumption`:

* `TypeCorrect`, `RetriesAreBounded`, `QueueIsSound`, `NothingIsLost` -- the type
  invariant of `ControllerObject` and three invariants of `ControllerQueue`;
* `ForeignSecretsAreSafe`, `PatchesAdd` -- two action properties of
  `ControllerObject`;
* `StatusFits` -- another, and `SyncedHonestly` -- the fourth invariant of
  `ControllerQueue`, from the assumption `SecretsLeftAlone`: users neither write
  nor delete Secrets, and no template is annotated to be patched;
* `WorklistIsKept` -- `Spec => WorksThroughList`: the loop implements `Worklist`,
  crashes and tombstones included;
* `NothingIsLeftBehind` -- `NothingLeftBehind`, an invariant of `ControllerObject`
  and the safety half of `Converges`: when no event, no queued key and no pass is
  left for a name, its Secret is what its SealedSecret asks for, or `excuse` says
  why not.

The invariants of the queue are inductive together with `TypeOK`. `StepKinds`
sorts the steps by what they do to the queue: add a key, take one, give one back,
start afresh, or nothing; `AppendPlaces` and `TailPlaces` say where a key then is.
`NoLostWork` needs the types because the pass writes its status into the store's
object: that object is a SealedSecret, and the write leaves its spec.

The action properties need the invariant `Versioned`: what the worker is about to
update it has judged, and as long as the stored Secret still has the
`resourceVersion` that was read it is what was read, since every write takes a new
revision. So an update that the API server accepts falls on the Secret that was
judged (`UpdateWrites`), though users may have acted in between.

What a status says rests on four more. `Versions`: a copy (the informer's, the
worker's, an event's) with the stored `resourceVersion` is the stored object but for
the status, which the code writes into its copy before it asks. `Passing`: what the
worker tried is its copy's spec. These two give `StatusFits`. `Fresh`: when the
worker's copy is the stored version, so is the informer's, and so is every event
that is on its way. `Ready`: a pass that is about to report success has its Secret
in place, unless the SealedSecret is another by now. Then a status of success leaves
nothing behind that could undo it, which is `Settled`: while a SealedSecret is
synced, every event, the informer's copy and the worker's copy have its uid and
spec, and no pass is about to delete its Secret. Nobody else takes the Secret away:
the garbage collector would need it to be `Orphaned`. `Settled` survives a restart
since the worker waits for the initial list (`Listed`).

`NothingLeftBehind` says something only of states at rest; what leads there is
`AtRestInv`. It adds three parts to the copies above (`CopiesInv`) and to
`NoLostWork`. `Told`: the last event on its way for a name, or when there is none
the informer's copy, is the stored SealedSecret but for the status. `Deleting`: the
pass that deletes has tried nothing. `Served` speaks of a name that is neither
queued nor waiting, whose copy is that of the stored object and can be unsealed,
with no excuse, and where the worker is done or has just succeeded: the Secret
holds what the copy seals, or it is gone and its deletion has yet to be reported.
At rest the copy is the stored object by `Told`, and `Served` is the claim. The
assumptions are those of the constants alone: what a user writes into a Secret is
an excuse from then on, and so is each update that the code suppresses, until the
next pass for the name begins or the process starts again and works on every name.

`WorklistIsKept` is a step simulation from `TypeOK` and the soundness of the queue.
A key may be both queued and waiting for its backoff, so that `Take` leaves it on
the list then; that a pass is put back at most `MaxRetries` times is the guard of
the code itself, that nothing else changes `requeues` or clears the list is what
all other steps are checked for.

`KeyRegistryProofs` proves, for every number of keys, every clock and every number
of failures, from `KeyRegistryAssumption` alone:

* `TypeCorrect`, `SealedIsOpenable`, `AlwaysAKey` -- the invariants of
  `KeyRegistryWatch`;
* `Implementation` -- `Spec => KeepsPromise`: the registry implements
  `SealingKeys`;
* `ServesYoungest`, `ServesNoOlder`, `HonoursCutoff` -- the invariants of
  `KeyRegistryAge`, from the assumption `~WatchForSecrets`, without which
  `KeyRegistryRace` refutes the first.

`SealedCanBeOpened` is not inductive: a user seals with `latest`, so that
`latest` must be registered; it is, since a goroutine that is about to replace it
has put its key into the map; and that key is stored, since the job gets there
only through `WriteKey`, and the handler only reports Secrets that exist. The
inductive invariant `IInv` is this chain: `TypeOK`, `Placed` (what the goroutines
hold at each step), `Kept` (sealed-with keys are registered while the process is
up, registered keys are stored), `Ready` (a key is there by the time the process
runs). `ForgottenIInv` carries it over crashes.

`AgeInv` adds what holds when the job is alone: `Unwatched` (the handler never
runs), `Youngest` (every registered key but the one being registered is at most
as young as the served one, and that one is at least as young), `StartedWithKey`
(the keys that a process made are registered, and the start-up ends with one if it
had to generate it), `FromScratch` (what an empty registry serves), `Fresh`
(the key that is being made has no Secret yet), and `CutoffHonoured` itself.
`HonoursCutoff` is about keys that the process made, not about those it serves:
`registerNewKey` leaves an imported key in its place when that is dated later than
the new one, be it before the cutoff.

`NeverServesOlder` spans processes, so it speaks of what the Secrets say and not of
the registry. `OrderInv` adds two parts to `AgeInv`. `Dated`: no Secret was created
after now, and every registered key but the one being made has a Secret that was
written no later than that one was begun (`Begun`); thus the key that the job puts
in the first place comes, by either order, after all that users sealed with, but for
keys that are dated ahead (`DatedAhead`). `ServedLast`: every key that users sealed
with comes no later than the one that is served, between the start-up and the end of
the process as well. A restart keeps it because all those keys are stored (`Kept`) and
`MostRecentOf` takes the last of all Secrets. The excuse is needed: an imported key
that is dated ahead is served until the job registers one after that date, and comes
back with the next start if the certificate of the new one was begun before it.

The refinement is proved step by step: `WriteKey` and `ImportKey` are `Persist`,
the end of `InitKeyRenewal` is `ComeUp`, the steps of `registerNewKey` are
`Activate` and `Switch`, every end of the process is `GoDown`, the rest stutters.

`SealedFileProofs` and `FileContentProofs` prove, for all sets of keys,
namespaces, names, items, values, commands and metadata, any number of edits,
from the assumptions of `Sealing` and `SealedFile` (commands and metadata have
their types; None and Malformed are not values):

* `TypeCorrect`, `ScopesAreKept`, `TidyFilesUnseal` -- the invariants of the run
  `SealedFile`;
* `RotationIsFaithful` -- its action property.

`ScopeHolds` speaks of what `Unseal` returns. The inductive invariant is about
what is in the file: `Labelled`, every ciphertext has the label of the scope,
namespace and name its plaintext was sealed for, and a value that is not
cluster-wide has a namespace (an empty one would give the label of cluster-wide).
`LabelPermits` then turns equal labels into permission. A rendered item is a
decrypted one, or blank, so that `Rotate` seals it for the place it was allowed
in. `TidyFileUnseals` needs `Whole` besides: the ciphertexts of a tidy file are
those of the values meant, all with the label of the file, under keys that are
held and not retired. A file with a blob has nothing beside it, and the label of
the blob is that of the Secret in it and of the file: the Secret that it unseals to
thus has the file's label again although it brings its own scope
(`UnsealedBlobLabel`), so that `Rotate` seals its items for the same place. The
proofs are for either value of `AcceptDeprecatedV1Data`; the runs have TRUE.


`KubesealProofs` proves, for all sets of processes, files, items, keys, callers
and command lines, any burst and rate, and any number of commands, failures,
kills, renewals and removals of keys, from `LimiterAssumption` and the assumptions
of `Kubeseal`, all six properties of the run `Kubeseal`: `TypeCorrect`,
`CallersAreLimited`, `FilesStayReadable`, `ReEncryptionIsFaithful`,
`ValidationHolds`, `ItemsAreKept`. The invariants build on each other:

* `ServerInv`: a caller's requests since the observation began cost at most what
  it owes and what time paid back, and it owes at most the burst and one request
  (`DebtIsEarned`). `VerifyIsBounded` alone is not inductive, since it says
  nothing of the debt that `IsAdmitted` looks at.
* `Typed`: the types, and what a process has at each stage of its command
  (`InStage`).
* `KeysKept`: the keys of every file, and of what any running command is about to
  write, are held. Old keys are removed only while no command runs, and only those
  that no file needs; `SinceHeld` says that the keys a command met since it began
  are held, `OutputOpens` and `FileOpens` that what it writes, and what files hold,
  has keys that it met or that the file needs.
* `InProgress`: the documents of a re-encryption so far are those read so far; a
  validation can open the ones it is done with (`Progress`).
* `AllKept`: a command whose file is nobody else's (`Alone`) has in hand what the
  file is meant to hold (`Careful`), and so no file lacks any of it (`Kept`), which
  is `NothingIsLost`.

`SystemProofs` proves, for all sets of namespaces and keys, every value of the flags
and any number of changes and failures, from `SystemAssumption`, the four
invariants of `System`, `TypeCorrect`, `WorkersStayApart`, `KeysArrive` and
`NothingIsForgotten`, and its refinement, `LoopsAreWorklists`. Workers
stay apart because scopes do: `ScopesAreDisjoint` says that two places of the flag
from which loops were launched (`LoopsPlaced`: no repetition, not the first
loop's namespace) have no namespace in common, and a worker only takes what lies
in its scope (`WorkInScope`). `KeysArriveForAll` needs `AtStartHeld`: the registry
holds the keys of the start until the process ends. `NothingForgotten` is the safety
half of `EventuallyOpened`: a SealedSecret in the scope of a loop that runs is
opened, given up, or known to that loop. It is inductive with `IInv`, because a loop
is launched with every SealedSecret of its scope on its list. `LoopsAreWorklists`
needs `Silent` too: a loop that does not run has heard of nothing, so that the
launch only adds to its list.

Only model-checked: liveness under fairness (`Converges`, `RenewalNeverStops`,
`ComesUp`, `EventuallyOpened`), which is out of the prover's reach.

## 5. Not modelled, and why

* An informer's update of its store and the call of the handler are one step:
  client-go serialises them per informer, and nothing the code does lies between.
* `Controller` takes the keys as given. `System` composes loops and registry, with
  a pass as one step; the steps of a pass and the scopes of a SealedSecret stay
  in `Controller`. Both are a `Worklist` to the outside; what a pass computes is not
  related between them.
* Messages, events, the Secret's type, and the wording of templates; in the
  reconcile loop also labels and templates as such.
* `initialDelay` and `period`: the timer may elapse at any time, which includes
  the times the code chooses.
* Of the HTTP server: `/healthz`, timeouts, requests that are no SealedSecret, and
  the metrics server. The limiter's store holds 65536 callers in the code and
  all of them in the model. Of the other metrics, counters have no effect.
* Of `kubeseal`: `--recovery-unseal` (it is `Unseal` with other keys),
  `--fetch-cert`, `-w` together with `--validate` or `--merge-into` (both write
  nothing to it, so that the file is replaced by an empty one), several commands
  in one process.
* Namespaces that are deleted, and names in `--additional-namespaces` that are empty
  or no valid names: the API server refuses them with another error than NotFound,
  so that every start fails (`main.go:253-258`). In `System` only a passing failure
  does that.
* The values of annotations in the reconcile loop: there they are names, which a
  patch adds to (`Patched`), while `controller.go:419-421` also gives an annotation
  that is there its new value. Which items a patch may change is told apart.
* A reader of SealedSecrets that fails for good: `readSealedSecrets` goes on after
  a document that it cannot decode (`kubeseal.go:204-209`), and would do so for ever
  when every further read fails. The model skips such a document, or fails.
* How the controller's HTTP server finds its latest key after a restart: there it is
  any of those it holds, which `KeyRegistry` narrows to the youngest.
* The flags of the controller and their parsing, generated clients, logging,
  deployment.

## 6. Plan

Done: the reconcile loop, the registry, the sealing functions with the life of a
file, the commands of `kubeseal` against the HTTP server, and the process with
its namespaces, each with proofs. Left, in this order:

1. That what a pass of `System` does to its name is what the steps of a pass of
   `Controller` come to; that both schedule passes alike is `Worklist`.
2. `--recovery-unseal`.
3. The limiter's store at its limit: callers that are forgotten owe nothing.
