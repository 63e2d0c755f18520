------------------------------ MODULE Kubeseal ------------------------------
(***************************************************************************)
(* Commands of kubeseal (runCLI of cmd/kubeseal/main.go, and               *)
(* pkg/kubeseal/kubeseal.go) that run at the same time on files of several *)
(* SealedSecrets, against the controller's HTTP server, while keys are     *)
(* renewed, and removed once the files do not need them.                   *)
(*                                                                         *)
(* A command that writes to a file has a temporary file renamed to it when *)
(* it succeeds; whoever has the old one open keeps the old one.  Only      *)
(* --merge-into writes the file itself: it truncates and then writes.      *)
(***************************************************************************)
EXTENDS HttpServer, Sequences

CONSTANTS
    Procs,        \* processes of kubeseal
    Files,        \* files of SealedSecrets
    Items,
    None,         \* no file, no key, no command
    Foreign,      \* a key of another cluster
    Detached,     \* an open file that has been replaced
    Commands,     \* command lines with their input
    Caller,       \* who a process is for the rate limiter
    MaxCommands,  \* bound: commands
    MaxTroubles   \* bound: failures and kills

Ops == {"seal", "merge", "validate", "re-encrypt"}

ASSUME KubesealAssumption ==
    /\ None \notin Files \cup Keys \cup Commands
    /\ Detached \notin Files \cup {None}
    /\ Foreign \notin Keys \cup {None}
    /\ Caller \in [Procs -> Callers]
    /\ MaxCommands \in Nat /\ MaxTroubles \in Nat

(***************************************************************************)
(* op, the input or merged file, the Secrets on standard input, each as    *)
(* the set of its items, and the file given with -w.                       *)
(***************************************************************************)
ASSUME CommandsAssumption ==
    Commands \subseteq
        [op : Ops, file : Files \cup {None}, secrets : Seq(SUBSET Items),
         out : Files \cup {None}]
ASSUME FilesAssumption ==
    \A c \in Commands :
        /\ c.op = "seal" <=> c.file = None
        /\ c.op \in {"seal", "merge"} => c.secrets # <<>>
        /\ c.op \in {"validate", "merge"} => c.out = None

VARIABLES
    docs,     \* the SealedSecrets of each file: the key of every item
    state,    \* of each file: missing, whole, or torn (ending in remains)
    at,       \* where each process is
    cmd,      \* its command
    handle,   \* the file it has open
    input,    \* the documents that it read
    done,     \* how many of them the controller dealt with
    cert,     \* the key of the certificate it fetched
    output,   \* what it will write
    commands, troubles,
    since,    \* history: the keys that were the latest since it began
    clean,    \* history: its file is nobody else's, and it drops no document
    meant,    \* history: the items that commands put in each file
    needs     \* history: the keys that its owner must keep for each file

fileVars == <<docs, state>>
procVars == <<at, cmd, handle, input, done, cert, output, since, clean>>
ownerVars == <<meant, needs>>
counters == <<commands, troubles>>
vars == <<serverVars, fileVars, procVars, ownerVars, counters>>

IsDoc(d) == d \in [DOMAIN d -> Keys \cup {Foreign}] /\ DOMAIN d \subseteq Items
AreDocs(s) == s \in Seq({s[j] : j \in DOMAIN s}) /\ \A j \in DOMAIN s : IsDoc(s[j])

TypeOK ==
    /\ ServerTypeOK
    /\ DOMAIN docs = Files /\ \A f \in Files : AreDocs(docs[f])
    /\ state \in [Files -> {"missing", "whole", "torn"}]
    /\ at \in [Procs -> {"idle", "cert", "read", "request", "open", "truncate", "write",
                         "finish"}]
    /\ cmd \in [Procs -> Commands \cup {None}]
    /\ \A p \in Procs : cmd[p] = None <=> at[p] = "idle"
    /\ handle \in [Procs -> Files \cup {None, Detached}]
    /\ DOMAIN input = Procs /\ \A p \in Procs : AreDocs(input[p])
    /\ DOMAIN output = Procs /\ \A p \in Procs : AreDocs(output[p])
    /\ done \in [Procs -> Nat]
    /\ cert \in [Procs -> Keys \cup {None}]
    /\ commands \in Nat /\ troubles \in Nat
    /\ since \in [Procs -> SUBSET Keys]
    /\ clean \in [Procs -> BOOLEAN]
    /\ meant \in [Files -> SUBSET Items]
    /\ needs \in [Files -> SUBSET Keys]

Init ==
    /\ ServerInit
    /\ docs = [f \in Files |-> <<>>] /\ state = [f \in Files |-> "missing"]
    /\ at = [p \in Procs |-> "idle"] /\ cmd = [p \in Procs |-> None]
    /\ handle = [p \in Procs |-> None]
    /\ input = [p \in Procs |-> <<>>] /\ done = [p \in Procs |-> 0]
    /\ cert = [p \in Procs |-> None] /\ output = [p \in Procs |-> <<>>]
    /\ commands = 0 /\ troubles = 0
    /\ since = [p \in Procs |-> {}] /\ clean = [p \in Procs |-> FALSE]
    /\ meant = [f \in Files |-> {}] /\ needs = [f \in Files |-> {}]

Trouble == troubles < MaxTroubles /\ troubles' = troubles + 1 /\ UNCHANGED commands

Running == {p \in Procs : at[p] # "idle"}

\* A re-encryption of a file without -w is in place.
OutputFile(c) == IF c.op = "re-encrypt" /\ c.out = None THEN c.file ELSE c.out
Target(c) == IF c.op = "merge" THEN c.file ELSE OutputFile(c)

Holds(content) == UNION {DOMAIN content[j] : j \in DOMAIN content}

-----------------------------------------------------------------------------
(***************************************************************************)
(* The ends of a command.                                                  *)
(***************************************************************************)
Ends(p) ==
    /\ at' = [at EXCEPT ![p] = "idle"] /\ cmd' = [cmd EXCEPT ![p] = None]
    /\ done' = [done EXCEPT ![p] = 0] /\ cert' = [cert EXCEPT ![p] = None]
    /\ output' = [output EXCEPT ![p] = <<>>]
    /\ since' = [since EXCEPT ![p] = {}] /\ clean' = [clean EXCEPT ![p] = FALSE]

Closes(p) ==
    /\ handle' = [handle EXCEPT ![p] = None]
    /\ input' = [input EXCEPT ![p] = <<>>]

\* A command that could not do its work leaves the files alone.
\* Mutant: the temporary file replaces the output file all the same.
ErrsButReplaces(p) ==
    LET f == OutputFile(cmd[p])
    IN  /\ Ends(p) /\ Closes(p)
        /\ IF f = None THEN UNCHANGED fileVars
           ELSE /\ docs' = [docs EXCEPT ![f] = output[p]]
                /\ state' = [state EXCEPT ![f] = "whole"]
        /\ UNCHANGED ownerVars
Errs(p) == Ends(p) /\ Closes(p) /\ UNCHANGED <<fileVars, ownerVars>>

\* The input, the disk or the cluster fails a command.
Fails(p) ==
    /\ at[p] \in {"cert", "read", "request", "open", "truncate"}
    /\ Trouble /\ Errs(p)
    /\ UNCHANGED serverVars

Kill(p) ==
    /\ at[p] # "idle"
    /\ Trouble /\ Ends(p) /\ Closes(p)
    /\ LET f == cmd[p].file
       IN  IF at[p] = "write" THEN meant' = [meant EXCEPT ![f] = Holds(docs[f])]
                              ELSE UNCHANGED meant
    /\ UNCHANGED <<serverVars, fileVars, needs>>

(***************************************************************************)
(* The temporary file takes the place of f.  Who has the old one open will *)
(* read what it held, and write to it in vain.                             *)
(***************************************************************************)
OldOnesAreDetached(p, f) ==
    /\ handle' = [q \in Procs |-> IF q = p THEN None
                                  ELSE IF handle[q] = f THEN Detached ELSE handle[q]]
    /\ input' = [q \in Procs |-> IF q = p THEN <<>>
                                 ELSE IF handle[q] = f /\ at[q] = "read" THEN docs[f]
                                 ELSE input[q]]

Replaces(p, f) ==
    /\ docs' = [docs EXCEPT ![f] = output[p]]
    /\ state' = [state EXCEPT ![f] = "whole"]
    /\ OldOnesAreDetached(p, f)

\* What the owner now takes file f to hold, and which keys for.
Owns(p, f) ==
    /\ meant' = [meant EXCEPT ![f] =
                    IF ~clean[p] THEN Holds(docs'[f])
                    ELSE IF cmd[p].op = "re-encrypt" /\ cmd[p].file = f THEN @
                    ELSE IF cmd[p].op = "re-encrypt" THEN Holds(input[p])
                    ELSE UNION {cmd[p].secrets[j] : j \in DOMAIN cmd[p].secrets}]
    /\ needs' = [needs EXCEPT ![f] = since[p]]

Finish(p) ==
    LET f == OutputFile(cmd[p])
    IN  /\ at[p] = "finish"
        /\ Ends(p)
        /\ IF f = None THEN Closes(p) /\ UNCHANGED <<fileVars, ownerVars>>
           ELSE Replaces(p, f) /\ Owns(p, f)
        /\ UNCHANGED <<serverVars, counters>>

\* Errors of the replacement are dropped; its owner has to notice.
FinishFails(p) ==
    /\ at[p] = "finish" /\ OutputFile(cmd[p]) # None
    /\ Trouble /\ Ends(p) /\ Closes(p)
    /\ UNCHANGED <<serverVars, fileVars, ownerVars>>

\* So are those of writing to the temporary file.
Cut(p, n) == SubSeq(output[p], 1, n)

FinishShort(p) ==
    LET f == OutputFile(cmd[p])
    IN  /\ at[p] = "finish" /\ f # None
        /\ Trouble /\ Ends(p)
        /\ \E n \in 0..Len(output[p]) :
              /\ n < Len(output[p])
              /\ docs' = [docs EXCEPT ![f] = Cut(p, n)]
              /\ meant' = [meant EXCEPT ![f] = Holds(Cut(p, n))]
        /\ state' = [state EXCEPT ![f] = "torn"]
        /\ needs' = [needs EXCEPT ![f] = since[p]]
        /\ OldOnesAreDetached(p, f)
        /\ UNCHANGED serverVars

-----------------------------------------------------------------------------
(***************************************************************************)
(* How a command begins: its input file is opened.                         *)
(***************************************************************************)
Reads(c) == c.op \in {"validate", "re-encrypt"}

Rivals(p, c) ==
    {q \in Running \ {p} : Target(c) # None /\ Target(cmd[q]) = Target(c)}

Start(p, c) ==
    /\ at[p] = "idle" /\ commands < MaxCommands
    /\ commands' = commands + 1 /\ UNCHANGED troubles
    /\ IF Reads(c) /\ state[c.file] = "missing"
       THEN UNCHANGED procVars
       ELSE /\ at' = [at EXCEPT ![p] = IF Reads(c) THEN "read" ELSE "cert"]
            /\ cmd' = [cmd EXCEPT ![p] = c]
            /\ handle' = [handle EXCEPT ![p] = IF Reads(c) THEN c.file ELSE None]
            /\ since' = [since EXCEPT ![p] = {latest}]
            /\ clean' = [q \in Procs |-> IF q = p THEN Rivals(p, c) = {}
                                         ELSE clean[q] /\ q \notin Rivals(p, c)]
            /\ UNCHANGED <<input, done, cert, output>>
    /\ UNCHANGED <<serverVars, fileVars, ownerVars>>

\* OpenCert; Seal encrypts all the Secrets of its input.
FetchCert(p) ==
    /\ at[p] = "cert"
    /\ cert' = [cert EXCEPT ![p] = latest]
    /\ IF cmd[p].op = "merge"
       THEN at' = [at EXCEPT ![p] = "open"] /\ UNCHANGED output
       ELSE /\ at' = [at EXCEPT ![p] = "finish"]
            /\ output' = [output EXCEPT ![p] =
                  [j \in DOMAIN cmd[p].secrets |-> [i \in cmd[p].secrets[j] |-> latest]]]
    /\ UNCHANGED <<serverVars, fileVars, cmd, handle, input, done, since, clean, ownerVars,
                   counters>>

\* readSealedSecrets: what cannot be decoded is skipped, or is an error.
Read(p) ==
    LET f == handle[p]
    IN  /\ at[p] = "read"
        /\ \/ /\ at' = [at EXCEPT ![p] = "request"]
              /\ input' = IF f = Detached THEN input ELSE [input EXCEPT ![p] = docs[f]]
              /\ UNCHANGED <<cmd, handle, done, cert, output, since, clean, fileVars,
                             ownerVars>>
           \/ f # Detached /\ state[f] = "torn" /\ Errs(p)
        /\ UNCHANGED <<serverVars, counters>>

-----------------------------------------------------------------------------
(***************************************************************************)
(* The requests of a command, one for each document that it read.          *)
(***************************************************************************)
Doc(p) == input[p][done[p] + 1]

NextDocument(p) ==
    /\ done' = [done EXCEPT ![p] = @ + 1]
    /\ UNCHANGED <<at, cmd, handle, input, cert, since, clean, fileVars, ownerVars>>

AllDone(p) ==
    /\ at[p] = "request" /\ done[p] = Len(input[p])
    /\ at' = [at EXCEPT ![p] = "finish"]
    /\ UNCHANGED <<serverVars, fileVars, cmd, handle, input, done, cert, output, since,
                   clean, ownerVars, counters>>

Requests(p, op) == at[p] = "request" /\ cmd[p].op = op /\ done[p] < Len(input[p])

\* Mutant: the first answer is that of all.
ValidateFirst(p) ==
    /\ Requests(p, "validate")
    /\ Admit(Caller[p])
    /\ IF done[p] > 0 \/ Opens(Doc(p)) THEN NextDocument(p) /\ UNCHANGED output ELSE Errs(p)
    /\ UNCHANGED counters
Validate(p) ==
    /\ Requests(p, "validate")
    /\ Admit(Caller[p])
    /\ IF Opens(Doc(p)) THEN NextDocument(p) /\ UNCHANGED output ELSE Errs(p)
    /\ UNCHANGED counters

\* It is refused time and again, and gives up.
ValidateRefused(p) ==
    /\ Requests(p, "validate") /\ ~IsAdmitted(Caller[p])
    /\ Errs(p)
    /\ UNCHANGED <<serverVars, counters>>

\* Mutant: documents that cannot be opened are left out.
ReEncryptSome(p) ==
    /\ Requests(p, "re-encrypt")
    /\ NextDocument(p)
    /\ output' = IF Opens(Doc(p))
                 THEN [output EXCEPT ![p] = Append(@, Rotated(Doc(p)))] ELSE output
    /\ UNCHANGED <<serverVars, counters>>
ReEncrypt(p) ==
    /\ Requests(p, "re-encrypt")
    /\ IF Opens(Doc(p))
       THEN /\ output' = [output EXCEPT ![p] = Append(@, Rotated(Doc(p)))]
            /\ NextDocument(p)
       ELSE Errs(p)
    /\ UNCHANGED <<serverVars, counters>>

-----------------------------------------------------------------------------
(***************************************************************************)
(* SealMergingInto: one document of the file, and one Secret, are merged   *)
(* in memory; then the file is truncated; then it is written.              *)
(***************************************************************************)
Merged(doc, secret, k) ==
    [i \in DOMAIN doc \cup secret |-> IF i \in secret THEN k ELSE doc[i]]

MergeOpen(p) ==
    LET f == cmd[p].file
        secrets == cmd[p].secrets
        single == Len(docs[f]) = 1 /\ Len(secrets) = 1 /\ state[f] # "torn"
    IN  /\ at[p] = "open"
        /\ \/ /\ docs[f] # <<>>
              /\ at' = [at EXCEPT ![p] = "truncate"]
              /\ handle' = [handle EXCEPT ![p] = f]
              /\ output' = [output EXCEPT ![p] =
                               <<Merged(docs[f][1], secrets[1], cert[p])>>]
              /\ clean' = [clean EXCEPT ![p] = @ /\ single]
              /\ UNCHANGED <<cmd, input, done, cert, since, fileVars, ownerVars>>
           \/ ~single /\ Errs(p)
        /\ UNCHANGED <<serverVars, counters>>

Truncate(p) ==
    LET f == handle[p]
    IN  /\ at[p] = "truncate"
        /\ at' = [at EXCEPT ![p] = "write"]
        /\ IF f = Detached THEN UNCHANGED fileVars
           ELSE /\ docs' = [docs EXCEPT ![f] = <<>>]
                /\ state' = [state EXCEPT ![f] = "whole"]
        /\ UNCHANGED <<serverVars, cmd, handle, input, done, cert, output, since, clean,
                       ownerVars, counters>>

\* What another merge wrote in between may show behind the end.
Write(p) ==
    LET f == cmd[p].file
        secret == cmd[p].secrets[1]
    IN  /\ at[p] = "write"
        /\ at' = [at EXCEPT ![p] = "finish"]
        /\ output' = [output EXCEPT ![p] = <<>>]
        /\ IF handle[p] = Detached THEN UNCHANGED fileVars
           ELSE /\ docs' = [docs EXCEPT ![f] = output[p]]
                /\ \/ state' = [state EXCEPT ![f] = "whole"]
                   \/ docs[f] # <<>> /\ state' = [state EXCEPT ![f] = "torn"]
        /\ meant' = [meant EXCEPT ![f] = IF clean[p] THEN @ \cup secret ELSE Holds(docs'[f])]
        /\ needs' = [needs EXCEPT ![f] = @ \cup since[p]]
        /\ UNCHANGED <<serverVars, cmd, handle, input, done, cert, since, clean, counters>>

WriteFails(p) ==
    LET f == cmd[p].file
    IN  /\ at[p] = "write"
        /\ Trouble /\ Ends(p) /\ Closes(p)
        /\ IF handle[p] = Detached THEN UNCHANGED fileVars
           ELSE docs' = [docs EXCEPT ![f] = <<>>] /\ state' = [state EXCEPT ![f] = "torn"]
        /\ meant' = [meant EXCEPT ![f] = Holds(docs'[f])]
        /\ UNCHANGED <<serverVars, needs>>

-----------------------------------------------------------------------------
(***************************************************************************)
(* The keys.  A renewal makes the new key the latest; an imported key may  *)
(* be older, or become the latest when the controller starts anew.  When   *)
(* no command runs, the owner may delete the keys that no file needs and   *)
(* restart the controller ("Re-encryption" in the README).                 *)
(***************************************************************************)
CommandsSeeTheLatest ==
    since' = [p \in Procs |-> IF at[p] = "idle" THEN {} ELSE since[p] \cup {latest'}]

\* Mutant: it becomes the latest without being registered.
RegisterKeyNowhere(k) ==
    /\ k \notin held
    /\ latest' = k
    /\ CommandsSeeTheLatest
    /\ UNCHANGED <<held, limiterVars, fileVars, at, cmd, handle, input, done, cert, output,
                   clean, ownerVars, counters>>
RegisterKey(k) ==
    /\ k \notin held
    /\ held' = held \cup {k}
    /\ latest' \in {latest, k}
    /\ CommandsSeeTheLatest
    /\ UNCHANGED <<limiterVars, fileVars, at, cmd, handle, input, done, cert, output, clean,
                   ownerVars, counters>>

Needed == {latest} \cup UNION {needs[f] : f \in Files}

Restart ==
    /\ \/ RestartWith(held)
       \/ Running = {} /\ RestartWith(held \cap Needed)
    /\ CommandsSeeTheLatest
    /\ UNCHANGED <<fileVars, at, cmd, handle, input, done, cert, output, clean, ownerVars,
                   counters>>

\* The owner adds a SealedSecret of another cluster to a file.
Paste(f, i) ==
    /\ Running = {} /\ state[f] # "torn" /\ commands < MaxCommands
    /\ commands' = commands + 1 /\ UNCHANGED troubles
    /\ docs' = [docs EXCEPT ![f] = Append(@, [x \in {i} |-> Foreign])]
    /\ state' = [state EXCEPT ![f] = IF @ = "missing" THEN "whole" ELSE @]
    /\ meant' = [meant EXCEPT ![f] = @ \cup {i}]
    /\ UNCHANGED <<serverVars, procVars, needs>>

TimePasses ==
    /\ Tick \/ Observe
    /\ UNCHANGED <<fileVars, procVars, ownerVars, counters>>

Command(p) ==
    \/ FetchCert(p) \/ Read(p)
    \/ Validate(p) \/ ValidateRefused(p) \/ ReEncrypt(p) \/ AllDone(p)
    \/ MergeOpen(p) \/ Truncate(p) \/ Write(p)
    \/ Finish(p)

Next ==
    \/ \E p \in Procs :
          \/ \E c \in Commands : Start(p, c)
          \/ Command(p)
          \/ Fails(p) \/ WriteFails(p) \/ FinishFails(p) \/ FinishShort(p)
          \/ Kill(p)
    \/ \E k \in Keys : RegisterKey(k)
    \/ \E f \in Files, i \in Items : Paste(f, i)
    \/ Restart \/ TimePasses

Spec == Init /\ [][Next]_vars

-----------------------------------------------------------------------------
(***************************************************************************)
(* Whatever succeeded is still in the file, although other commands failed *)
(* or were killed since, or read the file meanwhile (the deferred          *)
(* replacement of runCLI, "only write the output file if the run function  *)
(* exits without errors"; the buffers of SealMergingInto).  Two commands   *)
(* that write one file at the same time, a merge into more than one        *)
(* document, and one that dies or finds the disk full while it writes are  *)
(* what may lose items.                                                    *)
(***************************************************************************)
Writing(f) == \E p \in Procs : at[p] = "write" /\ cmd[p].file = f
NothingIsLost == \A f \in Files : Writing(f) \/ meant[f] \subseteq Holds(docs[f])

(***************************************************************************)
(* What replaces a file after a re-encryption are the documents that were  *)
(* read, all of them, in their order and with their items, each sealed     *)
(* with a key that was the latest at some time since the command began     *)
(* (ReEncryptSealedSecret, one request per document).                      *)
(***************************************************************************)
ReEncryptIsFaithful ==
    \A p \in Procs :
        at[p] = "finish" /\ cmd[p].op = "re-encrypt" =>
            /\ Len(output[p]) = Len(input[p])
            /\ \A j \in DOMAIN input[p] :
                  /\ DOMAIN output[p][j] = DOMAIN input[p][j]
                  /\ \A i \in DOMAIN output[p][j] : output[p][j][i] \in since[p]

(***************************************************************************)
(* When a validation succeeds, every document that it read can be opened   *)
(* by the controller then and there, although each was asked about at a    *)
(* time of its own (ValidateSealedSecret).                                 *)
(***************************************************************************)
ValidatedOpens ==
    [][\A p \in Procs :
          at[p] = "finish" /\ cmd[p].op = "validate" /\ at'[p] = "idle" =>
              \A j \in DOMAIN input[p] : Opens(input[p][j])]_vars

(***************************************************************************)
(* Keys may be deleted as soon as the files were sealed or re-encrypted    *)
(* after newer ones came: what this cluster's keys sealed in any file can  *)
(* still be opened, whatever commands overlapped, failed or were killed    *)
(* before (README.md:713, "Before you can get rid of some old sealing keys *)
(* you need to re-encrypt your SealedSecrets with the latest private       *)
(* key").                                                                  *)
(***************************************************************************)
Within(content, S) ==
    \A j \in DOMAIN content : \A i \in DOMAIN content[j] : content[j][i] \in S

FilesOpen == \A f \in Files : Within(docs[f], held \cup {Foreign})
=============================================================================
