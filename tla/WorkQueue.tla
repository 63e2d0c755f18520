----------------------------- MODULE WorkQueue -----------------------------
(***************************************************************************)
(* The rate-limited work queue of k8s.io/client-go, as far as the          *)
(* sealed-secrets controller uses it (pkg/controller/controller.go).  It   *)
(* is not code of this repository: the operators say what its callers      *)
(* rely on.  The keys are the names of the SealedSecrets.                  *)
(*                                                                         *)
(* A key is dirty from the moment it is added until a worker takes it, and *)
(* processing from then until the worker is done with it.  A key that is   *)
(* added while it is processing waits in dirty, and enters the queue when  *)
(* the worker is done: one key is never worked on twice at a time, and no  *)
(* addition is forgotten.                                                  *)
(***************************************************************************)
EXTENDS Objects, Naturals, Sequences

VARIABLES
    queue,        \* the keys a worker may take, oldest first
    dirty,        \* the keys that need processing
    processing,   \* the keys a worker holds
    delayed,      \* the keys that wait for their backoff to elapse
    requeues      \* how often each key was requeued since it was forgotten

queueVars == <<queue, dirty, processing, delayed, requeues>>

WorkQueueTypeOK ==
    /\ queue \in Seq(Names)
    /\ dirty \subseteq Names
    /\ processing \subseteq Names
    /\ delayed \subseteq Names
    /\ requeues \in [Names -> Nat]

WorkQueueInit ==
    /\ queue = << >>
    /\ dirty = {}
    /\ processing = {}
    /\ delayed = {}
    /\ requeues = [n \in Names |-> 0]

-----------------------------------------------------------------------------

\* queue.Add(n), of a key that may be dirty already or in a worker's hands.
\* Mutant: a key that a worker holds is not marked again.
EnqueueIdle(n) ==
    IF n \in processing THEN UNCHANGED <<dirty, queue>>
    ELSE /\ dirty' = dirty \cup {n}
         /\ queue' = IF n \in dirty THEN queue ELSE Append(queue, n)
Enqueue(n) ==
    /\ dirty' = dirty \cup {n}
    /\ queue' = IF n \in dirty \cup processing THEN queue ELSE Append(queue, n)

Add(n) == Enqueue(n) /\ UNCHANGED <<processing, delayed, requeues>>

\* queue.Get(): the worker takes the oldest key.
Get ==
    /\ queue # << >>
    /\ queue' = Tail(queue)
    /\ dirty' = dirty \ {Head(queue)}
    /\ processing' = processing \cup {Head(queue)}
    /\ UNCHANGED <<delayed, requeues>>

\* queue.Done(n): a key that became dirty in the meantime is queued again.
Done(n) ==
    /\ processing' = processing \ {n}
    /\ queue' = IF n \in dirty THEN Append(queue, n) ELSE queue
    /\ UNCHANGED dirty

\* queue.Forget(n): the failures counted against the key are forgotten.  A
\* backoff that is running is not cancelled.
Forget(n) ==
    /\ requeues' = [requeues EXCEPT ![n] = 0]
    /\ UNCHANGED delayed

\* queue.AddRateLimited(n): one more failure; the key comes back after a
\* backoff.
AddRateLimited(n) ==
    /\ requeues' = [requeues EXCEPT ![n] = @ + 1]
    /\ delayed' = delayed \cup {n}

\* The backoff of n elapses.
BackoffElapses(n) ==
    /\ n \in delayed
    /\ delayed' = delayed \ {n}
    /\ Enqueue(n)
    /\ UNCHANGED <<processing, requeues>>
=============================================================================
