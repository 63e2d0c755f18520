--------------------------- MODULE KubesealProofs ---------------------------
(***************************************************************************)
(* Proofs about the commands of kubeseal and the server behind them: what  *)
(* a caller may have verified is bounded, a re-encryption hands out what   *)
(* it read, what is validated opens, files open after old keys are gone,   *)
(* and nothing that a command wrote is lost, for any commands, files and   *)
(* keys and any number of processes.                                       *)
(***************************************************************************)
EXTENDS Kubeseal, SequenceTheorems, TLAPS

\* What is known of the constants.
LEMMA ConstantsOK ==
    /\ None \notin Files /\ None \notin Keys /\ None \notin Commands
    /\ Detached \notin Files /\ Detached # None /\ Foreign \notin Keys
    /\ Caller \in [Procs -> Callers]
    /\ MaxCommands \in Nat /\ MaxTroubles \in Nat
    /\ Burst \in Nat /\ Interval \in Nat /\ Interval > 0
BY KubesealAssumption, LimiterAssumption

LEMMA CommandsOK ==
    ASSUME NEW c \in Commands
    PROVE  /\ c.op \in Ops /\ c.secrets \in Seq(SUBSET Items)
           /\ c.file \in Files \cup {None} /\ c.out \in Files \cup {None}
           /\ c.op = "seal" <=> c.file = None
           /\ c.op \in {"seal", "merge"} => 1 \in DOMAIN c.secrets
           /\ c.op \in {"validate", "merge"} => c.out = None
<1>1. c \in [op : Ops, file : Files \cup {None}, secrets : Seq(SUBSET Items),
             out : Files \cup {None}]
  BY CommandsAssumption
<1>2. c.secrets \in Seq(SUBSET Items)
  BY <1>1
<1>3. c.secrets # <<>> => 1 \in DOMAIN c.secrets
  BY <1>2, LenProperties, EmptySeq
<1> QED BY <1>1, <1>2, <1>3, FilesAssumption

-----------------------------------------------------------------------------
(***************************************************************************)
(* The server.                                                             *)
(***************************************************************************)
DebtIsEarned ==
    \A c \in Callers :
        /\ debt[c] <= Interval * (Burst + 1)
        /\ Interval * served[c] <= debt[c] + elapsed

ServerInv == ServerTypeOK /\ DebtIsEarned

LEMMA ServerStep ==
    ASSUME [Next]_vars
    PROVE  \/ UNCHANGED serverVars
           \/ \E c \in Callers : Admit(c)
           \/ Tick \/ Observe
           \/ \E k \in Keys : RegisterKey(k)
           \/ Restart
<1> USE ConstantsOK
<1>1. ASSUME NEW p \in Procs, NEW c \in Commands, Start(p, c) PROVE UNCHANGED serverVars
  BY <1>1 DEF Start
<1>2. ASSUME NEW p \in Procs, Command(p)
      PROVE  UNCHANGED serverVars \/ \E c \in Callers : Admit(c)
  <2>1. Validate(p) => Admit(Caller[p]) /\ Caller[p] \in Callers
    BY DEF Validate
  <2>2. FetchCert(p) \/ Read(p) \/ ValidateRefused(p) \/ ReEncrypt(p) \/ AllDone(p) =>
            UNCHANGED serverVars
    BY DEF FetchCert, Read, ValidateRefused, ReEncrypt, AllDone
  <2>3. MergeOpen(p) \/ Truncate(p) \/ Write(p) \/ Finish(p) => UNCHANGED serverVars
    BY DEF MergeOpen, Truncate, Write, Finish
  <2> QED BY <1>2, <2>1, <2>2, <2>3 DEF Command
<1>3. ASSUME NEW p \in Procs,
             Fails(p) \/ WriteFails(p) \/ FinishFails(p) \/ FinishShort(p) \/ Kill(p)
      PROVE  UNCHANGED serverVars
  BY <1>3 DEF Fails, WriteFails, FinishFails, FinishShort, Kill
<1>4. ASSUME NEW f \in Files, NEW i \in Items, Paste(f, i) PROVE UNCHANGED serverVars
  BY <1>4 DEF Paste
<1>5. TimePasses => Tick \/ Observe
  BY DEF TimePasses
<1>6. UNCHANGED vars => UNCHANGED serverVars
  BY DEF vars
<1> QED BY <1>1, <1>2, <1>3, <1>4, <1>5, <1>6 DEF Next

LEMMA ServerPreserves == ServerInv /\ [Next]_vars => ServerInv'
<1> SUFFICES ASSUME ServerInv, [Next]_vars PROVE ServerInv'
  OBVIOUS
<1> USE ConstantsOK DEF keyVars
<1>0. ServerTypeOK /\ DebtIsEarned
  BY DEF ServerInv
<1>a. /\ Interval * (Burst + 1) \in Nat
      /\ Interval * (Burst + 1) = Interval * Burst + Interval
      /\ Interval * Burst \in Nat
  OBVIOUS
<1>1. CASE UNCHANGED serverVars
  BY <1>0, <1>1 DEF ServerInv, ServerTypeOK, DebtIsEarned, serverVars, limiterVars
<1>2. ASSUME NEW d \in Callers, Admit(d) PROVE ServerInv'
  <2> USE <1>2 DEF Admit, IsAdmitted
  <2>1. ServerTypeOK'
    BY <1>0 DEF ServerTypeOK
  <2>2. DebtIsEarned'
    <3> SUFFICES ASSUME NEW c \in Callers
                 PROVE  /\ debt'[c] <= Interval * (Burst + 1)
                        /\ Interval * served'[c] <= debt'[c] + elapsed
      BY DEF DebtIsEarned
    <3>1. CASE c # d
      BY <1>0, <3>1 DEF DebtIsEarned, ServerTypeOK
    <3>2. CASE c = d
      <4>1. /\ debt'[d] = debt[d] + Interval /\ served'[d] = served[d] + 1
            /\ debt[d] \in Nat /\ served[d] \in Nat /\ elapsed \in Nat
        BY <1>0 DEF ServerTypeOK
      <4>2. Interval * (served[d] + 1) = Interval * served[d] + Interval
            /\ Interval * served[d] \in Nat
        BY <4>1
      <4>3. Interval * served[d] <= debt[d] + elapsed /\ debt[d] <= Interval * Burst
        BY <1>0 DEF DebtIsEarned
      <4> QED BY <1>a, <3>2, <4>1, <4>2, <4>3
    <3> QED BY <3>1, <3>2
  <2> QED BY <2>1, <2>2 DEF ServerInv
<1>3. CASE Tick
  <2> USE <1>3 DEF Tick
  <2>1. ServerTypeOK'
    BY <1>0 DEF ServerTypeOK
  <2>2. DebtIsEarned'
    <3> SUFFICES ASSUME NEW c \in Callers
                 PROVE  /\ debt'[c] <= Interval * (Burst + 1)
                        /\ Interval * served[c] <= debt'[c] + (elapsed + 1)
      BY DEF DebtIsEarned
    <3>1. /\ debt'[c] = IF debt[c] = 0 THEN 0 ELSE debt[c] - 1
          /\ debt[c] \in Nat /\ elapsed \in Nat
      BY <1>0 DEF ServerTypeOK
    <3>2. /\ debt[c] <= Interval * (Burst + 1) /\ Interval * served[c] <= debt[c] + elapsed
          /\ Interval * served[c] \in Nat
      BY <1>0 DEF DebtIsEarned, ServerTypeOK
    <3> QED BY <1>a, <3>1, <3>2
  <2> QED BY <2>1, <2>2 DEF ServerInv
<1>4. CASE Observe
  <2>1. ServerTypeOK'
    BY <1>0, <1>4 DEF ServerTypeOK, Observe
  <2>2. DebtIsEarned'
    BY <1>0, <1>4 DEF ServerTypeOK, DebtIsEarned, Observe
  <2> QED BY <2>1, <2>2 DEF ServerInv
<1>5. ASSUME NEW kept, RestartWith(kept), kept \subseteq held
      PROVE  ServerInv'
  <2>1. ServerTypeOK'
    BY <1>0, <1>5 DEF ServerTypeOK, RestartWith
  <2>2. DebtIsEarned'
    BY <1>0, <1>5, <1>a DEF DebtIsEarned, RestartWith
  <2> QED BY <2>1, <2>2 DEF ServerInv
<1>6. CASE Restart
  BY <1>0, <1>5, <1>6 DEF Restart, ServerTypeOK
<1>7. ASSUME NEW k \in Keys, RegisterKey(k) PROVE ServerInv'
  BY <1>0, <1>7 DEF RegisterKey, limiterVars, ServerInv, ServerTypeOK, DebtIsEarned
<1> QED BY <1>1, <1>2, <1>3, <1>4, <1>6, <1>7, ServerStep

LEMMA ServerInitEstablishes == Init => ServerInv
<1> SUFFICES ASSUME Init PROVE ServerInv
  OBVIOUS
<1>1. ServerTypeOK
  BY DEF Init, ServerInit, ServerTypeOK
<1>2. DebtIsEarned
  BY ConstantsOK DEF Init, ServerInit, DebtIsEarned
<1> QED BY <1>1, <1>2 DEF ServerInv

LEMMA ServerInvImplies == ServerInv => VerifyIsBounded
<1> SUFFICES ASSUME ServerInv, NEW c \in Callers
             PROVE  Interval * served[c] <= Interval * (Burst + 1) + elapsed
  BY DEF VerifyIsBounded
<1>1. /\ debt[c] <= Interval * (Burst + 1)
      /\ Interval * served[c] <= debt[c] + elapsed
      /\ debt[c] \in Nat /\ served[c] \in Nat /\ elapsed \in Nat
  BY DEF ServerInv, ServerTypeOK, DebtIsEarned
<1>2. Interval * served[c] \in Nat /\ Interval * (Burst + 1) \in Nat
  BY <1>1, ConstantsOK
<1> QED BY <1>1, <1>2

(***************************************************************************)
(* No caller has more of its requests verified than the burst, one, and    *)
(* what the rate earned it, whatever the rate and the burst, and whoever   *)
(* else calls (rateLimiter).                                               *)
(***************************************************************************)
THEOREM CallersAreLimited == Spec => []VerifyIsBounded
BY ServerInitEstablishes, ServerPreserves, ServerInvImplies, PTL DEF Spec

-----------------------------------------------------------------------------
(***************************************************************************)
(* The state has its type, and what a command has done so far is what its  *)
(* stage says.                                                             *)
(***************************************************************************)
Docs == UNION {[S -> Keys \cup {Foreign}] : S \in SUBSET Items}

FilesTyped ==
    /\ docs \in [Files -> Seq(Docs)]
    /\ state \in [Files -> {"missing", "whole", "torn"}]
    /\ meant \in [Files -> SUBSET Items] /\ needs \in [Files -> SUBSET Keys]
    /\ commands \in Nat /\ troubles \in Nat

Stages == {"idle", "cert", "read", "request", "open", "truncate", "write", "finish"}

ProcsTyped ==
    /\ at \in [Procs -> Stages] /\ cmd \in [Procs -> Commands \cup {None}]
    /\ handle \in [Procs -> Files \cup {None, Detached}]
    /\ input \in [Procs -> Seq(Docs)] /\ output \in [Procs -> Seq(Docs)]
    /\ done \in [Procs -> Nat] /\ cert \in [Procs -> Keys \cup {None}]
    /\ since \in [Procs -> SUBSET Keys] /\ clean \in [Procs -> BOOLEAN]

InStage(p) ==
    /\ cmd[p] = None <=> at[p] = "idle"
    /\ at[p] \in {"read", "request"} => cmd[p].op \in {"validate", "re-encrypt"}
    /\ at[p] = "cert" => cmd[p].op \in {"seal", "merge"}
    /\ at[p] \in {"open", "truncate", "write"} => cmd[p].op = "merge" /\ cert[p] \in Keys
    /\ at[p] \in {"idle", "cert", "read", "open"} => output[p] = <<>> /\ done[p] = 0
    /\ at[p] \in {"idle", "cert", "open"} => handle[p] = None
    /\ at[p] = "read" => handle[p] \in {cmd[p].file, Detached}
    /\ at[p] \in {"truncate", "write"} => handle[p] \in {cmd[p].file, Detached}
    /\ at[p] = "finish" /\ cmd[p].op = "merge" => output[p] = <<>>

Typed ==
    /\ ServerTypeOK /\ FilesTyped /\ ProcsTyped
    /\ \A p \in Procs : InStage(p)

\* A document is a function of some items.
LEMMA DocsOfItems ==
    ASSUME NEW S \in SUBSET Items, NEW d \in [S -> Keys \cup {Foreign}]
    PROVE  d \in Docs
BY DEF Docs

LEMMA DocsAreFunctions ==
    ASSUME NEW d \in Docs
    PROVE  d \in [DOMAIN d -> Keys \cup {Foreign}] /\ DOMAIN d \subseteq Items
<1>1. PICK S \in SUBSET Items : d \in [S -> Keys \cup {Foreign}]
  BY DEF Docs
<1> QED BY <1>1

LEMMA DocsAreDocs ==
    ASSUME NEW s \in Seq(Docs)
    PROVE  AreDocs(s)
<1>1. DOMAIN s = 1 .. Len(s) /\ \A j \in DOMAIN s : s[j] \in Docs
  BY LenProperties
<1>2. \A j \in DOMAIN s : IsDoc(s[j])
  BY <1>1, DocsAreFunctions DEF IsDoc
<1>3. s \in Seq({s[j] : j \in DOMAIN s})
  BY <1>1
<1> QED BY <1>2, <1>3 DEF AreDocs

LEMMA TypedImplies == Typed => TypeOK
<1> SUFFICES ASSUME Typed PROVE TypeOK
  OBVIOUS
<1>1. DOMAIN docs = Files /\ \A f \in Files : AreDocs(docs[f])
  BY DocsAreDocs DEF Typed, FilesTyped
<1>2. /\ DOMAIN input = Procs /\ \A p \in Procs : AreDocs(input[p])
      /\ DOMAIN output = Procs /\ \A p \in Procs : AreDocs(output[p])
  BY DocsAreDocs DEF Typed, ProcsTyped
<1>3. \A p \in Procs : cmd[p] = None <=> at[p] = "idle"
  BY DEF Typed, InStage
<1> QED BY <1>1, <1>2, <1>3 DEF Typed, FilesTyped, ProcsTyped, TypeOK, Stages

LEMMA TypedInit == Init => Typed
<1> SUFFICES ASSUME Init PROVE Typed
  OBVIOUS
<1> USE DEF Init
<1>0. <<>> \in Seq(Docs)
  BY EmptySeq
<1>1. FilesTyped
  BY <1>0 DEF FilesTyped
<1>2. ProcsTyped
  BY <1>0 DEF ProcsTyped, Stages
<1>3. ServerTypeOK
  BY ServerInitEstablishes DEF ServerInv
<1>4. \A p \in Procs : InStage(p)
  BY DEF InStage
<1> QED BY <1>1, <1>2, <1>3, <1>4 DEF Typed

\* A running process has a command.
LEMMA RunningOK ==
    ASSUME Typed, NEW p \in Procs, at[p] # "idle"
    PROVE  /\ cmd[p] \in Commands
           /\ cmd[p].file \in Files \cup {None} /\ cmd[p].out \in Files \cup {None}
           /\ cmd[p].secrets \in Seq(SUBSET Items)
           /\ OutputFile(cmd[p]) \in Files \cup {None}
           /\ at[p] \in {"open", "truncate", "write"} => cmd[p].file \in Files
           /\ cmd[p].op = "merge" => /\ cmd[p].file \in Files /\ 1 \in DOMAIN cmd[p].secrets
                                     /\ OutputFile(cmd[p]) = None
           /\ cmd[p].op = "validate" => OutputFile(cmd[p]) = None
<1>1. cmd[p] \in Commands
  BY DEF Typed, ProcsTyped, InStage
<1>2. at[p] \in {"open", "truncate", "write"} => cmd[p].op = "merge"
  BY DEF Typed, InStage
<1> QED BY <1>1, <1>2, CommandsOK DEF OutputFile, Ops

\* A command that ends, and the others.
LEMMA EndsMoves ==
    ASSUME ProcsTyped, NEW p \in Procs, Ends(p)
    PROVE  /\ at'[p] = "idle" /\ cmd'[p] = None /\ output'[p] = <<>> /\ done'[p] = 0
           /\ since'[p] = {} /\ clean'[p] = FALSE /\ cert'[p] = None
           /\ \A q \in Procs \ {p} :
                 /\ at'[q] = at[q] /\ cmd'[q] = cmd[q] /\ output'[q] = output[q]
                 /\ done'[q] = done[q] /\ cert'[q] = cert[q]
                 /\ since'[q] = since[q] /\ clean'[q] = clean[q]
BY DEF ProcsTyped, Ends

LEMMA EndsTyped ==
    ASSUME Typed, NEW p \in Procs, Ends(p)
    PROVE  /\ at' \in [Procs -> Stages] /\ cmd' \in [Procs -> Commands \cup {None}]
           /\ output' \in [Procs -> Seq(Docs)]
           /\ done' \in [Procs -> Nat] /\ cert' \in [Procs -> Keys \cup {None}]
           /\ since' \in [Procs -> SUBSET Keys] /\ clean' \in [Procs -> BOOLEAN]
<1> USE DEF Typed, ProcsTyped, Ends
<1>1. <<>> \in Seq(Docs)
  BY EmptySeq
<1>2. at' \in [Procs -> Stages] /\ cmd' \in [Procs -> Commands \cup {None}]
  BY DEF Stages
<1>3. output' \in [Procs -> Seq(Docs)] /\ done' \in [Procs -> Nat]
  BY <1>1
<1>4. /\ cert' \in [Procs -> Keys \cup {None}]
      /\ since' \in [Procs -> SUBSET Keys] /\ clean' \in [Procs -> BOOLEAN]
  OBVIOUS
<1> QED BY <1>2, <1>3, <1>4

LEMMA ClosesTyped ==
    ASSUME Typed, NEW p \in Procs, Closes(p)
    PROVE  /\ handle' \in [Procs -> Files \cup {None, Detached}]
           /\ input' \in [Procs -> Seq(Docs)]
           /\ \A q \in Procs \ {p} : handle'[q] = handle[q] /\ input'[q] = input[q]
           /\ handle'[p] = None /\ input'[p] = <<>>
<1>1. <<>> \in Seq(Docs)
  BY EmptySeq
<1> QED BY <1>1 DEF Typed, ProcsTyped, Closes

LEMMA DetachedTyped ==
    ASSUME Typed, NEW p \in Procs, NEW f \in Files, OldOnesAreDetached(p, f)
    PROVE  /\ handle' \in [Procs -> Files \cup {None, Detached}]
           /\ input' \in [Procs -> Seq(Docs)]
           /\ \A q \in Procs \ {p} :
                 /\ handle'[q] = IF handle[q] = f THEN Detached ELSE handle[q]
                 /\ at[q] # "read" => input'[q] = input[q]
           /\ handle'[p] = None /\ input'[p] = <<>>
<1>1. <<>> \in Seq(Docs)
  BY EmptySeq
<1> QED BY <1>1 DEF Typed, FilesTyped, ProcsTyped, OldOnesAreDetached

\* A process that another one does not disturb is in its stage.
LEMMA OthersInStage ==
    ASSUME Typed, NEW q \in Procs,
           at'[q] = at[q], cmd'[q] = cmd[q], output'[q] = output[q], done'[q] = done[q],
           cert'[q] = cert[q],
           handle'[q] \in {handle[q], Detached}, handle[q] = None => handle'[q] = None
    PROVE  InStage(q)'
BY DEF Typed, InStage

LEMMA EndedInStage ==
    ASSUME Typed, NEW p \in Procs, Ends(p),
           handle'[p] = None,
           \A q \in Procs \ {p} : /\ handle'[q] \in {handle[q], Detached}
                                  /\ handle[q] = None => handle'[q] = None
    PROVE  \A q \in Procs : InStage(q)'
<1>1. /\ at'[p] = "idle" /\ cmd'[p] = None /\ output'[p] = <<>> /\ done'[p] = 0
      /\ \A q \in Procs \ {p} :
            /\ at'[q] = at[q] /\ cmd'[q] = cmd[q] /\ output'[q] = output[q]
            /\ done'[q] = done[q] /\ cert'[q] = cert[q]
  BY EndsMoves DEF Typed
<1>2. InStage(p)'
  BY <1>1 DEF InStage
<1>3. ASSUME NEW q \in Procs \ {p} PROVE InStage(q)'
  <2>1. /\ at'[q] = at[q] /\ cmd'[q] = cmd[q] /\ output'[q] = output[q]
        /\ done'[q] = done[q] /\ cert'[q] = cert[q]
    BY <1>1, <1>3
  <2>2. handle'[q] \in {handle[q], Detached} /\ (handle[q] = None => handle'[q] = None)
    BY <1>3
  <2> QED BY <2>1, <2>2, OthersInStage
<1> QED BY <1>2, <1>3

\* What is to be shown of a step, apart from the server.
StateTyped == FilesTyped /\ ProcsTyped /\ \A p \in Procs : InStage(p)

LEMMA HeldItems ==
    ASSUME NEW s \in Seq(Docs)
    PROVE  Holds(s) \subseteq Items
<1>1. \A j \in DOMAIN s : s[j] \in Docs
  BY LenProperties
<1> QED BY <1>1, DocsAreFunctions DEF Holds

\* A command that ends without a replacement of a file.
LEMMA EndKeepsTyped ==
    ASSUME Typed, NEW p \in Procs, Ends(p), Closes(p), FilesTyped'
    PROVE  StateTyped'
<1>1. \A q \in Procs : InStage(q)'
  BY ClosesTyped, EndedInStage
<1> QED BY <1>1, EndsTyped, ClosesTyped DEF StateTyped, ProcsTyped

\* One with it.
LEMMA ReplacementKeepsTyped ==
    ASSUME Typed, NEW p \in Procs, NEW f \in Files,
           Ends(p), OldOnesAreDetached(p, f), FilesTyped'
    PROVE  StateTyped'
<1>0. \A q \in Procs \ {p} : /\ handle'[q] \in {handle[q], Detached}
                            /\ handle[q] = None => handle'[q] = None
  BY DetachedTyped, ConstantsOK
<1>1. \A q \in Procs : InStage(q)'
  BY <1>0, DetachedTyped, EndedInStage
<1> QED BY <1>1, EndsTyped, DetachedTyped DEF StateTyped, ProcsTyped

LEMMA FilesStay ==
    ASSUME Typed, UNCHANGED <<fileVars, ownerVars>>, UNCHANGED counters \/ Trouble
    PROVE  FilesTyped'
BY DEF Typed, FilesTyped, fileVars, ownerVars, counters, Trouble

LEMMA TroublesTyped ==
    ASSUME Typed, Trouble \/ UNCHANGED counters
    PROVE  commands' \in Nat /\ troubles' \in Nat
BY DEF Typed, FilesTyped, Trouble, counters

LEMMA OwnedTyped ==
    ASSUME Typed, NEW p \in Procs, at[p] = "finish", NEW f \in Files,
           docs' \in [Files -> Seq(Docs)], Owns(p, f)
    PROVE  meant' \in [Files -> SUBSET Items] /\ needs' \in [Files -> SUBSET Keys]
<1> USE DEF Typed, FilesTyped, ProcsTyped
<1>1. Holds(docs'[f]) \subseteq Items /\ Holds(input[p]) \subseteq Items
  BY HeldItems
<1>2. UNION {cmd[p].secrets[j] : j \in DOMAIN cmd[p].secrets} \subseteq Items
  <2>1. cmd[p].secrets \in Seq(SUBSET Items)
    BY RunningOK
  <2>2. \A j \in DOMAIN cmd[p].secrets : cmd[p].secrets[j] \in SUBSET Items
    BY <2>1, LenProperties
  <2> QED BY <2>2
<1>3. \E S \in SUBSET Items : meant' = [meant EXCEPT ![f] = S]
  <2>1. CASE meant' = [meant EXCEPT ![f] = Holds(docs'[f])]
    BY <1>1, <2>1
  <2>2. CASE meant' = [meant EXCEPT ![f] = @]
    BY <2>2
  <2>3. CASE meant' = [meant EXCEPT ![f] = Holds(input[p])]
    BY <1>1, <2>3
  <2>4. CASE meant' = [meant EXCEPT ![f] = UNION {cmd[p].secrets[j] : j \in DOMAIN cmd[p].secrets}]
    BY <1>2, <2>4
  <2> QED BY <2>1, <2>2, <2>3, <2>4 DEF Owns
<1>4. meant' \in [Files -> SUBSET Items]
  BY <1>3
<1>5. needs' \in [Files -> SUBSET Keys]
  BY DEF Owns
<1> QED BY <1>4, <1>5

LEMMA FinishTyped ==
    ASSUME Typed, NEW p \in Procs, Finish(p)
    PROVE  StateTyped'
<1> DEFINE f == OutputFile(cmd[p])
<1>0. at[p] = "finish" /\ Ends(p) /\ UNCHANGED counters
  BY DEF Finish
<1>1. CASE f = None
  <2>1. Closes(p) /\ UNCHANGED <<fileVars, ownerVars>>
    BY <1>1 DEF Finish
  <2> QED BY <1>0, <2>1, FilesStay, EndKeepsTyped
<1>2. CASE f # None
  <2>1. f \in Files
    BY <1>0, <1>2, RunningOK
  <2>2. Replaces(p, f) /\ Owns(p, f)
    BY <1>2 DEF Finish
  <2>3. /\ docs' \in [Files -> Seq(Docs)]
        /\ state' \in [Files -> {"missing", "whole", "torn"}]
    BY <2>1, <2>2 DEF Replaces, Typed, FilesTyped, ProcsTyped
  <2>4. FilesTyped'
    BY <1>0, <2>1, <2>2, <2>3, OwnedTyped, TroublesTyped DEF FilesTyped
  <2> QED BY <1>0, <2>1, <2>2, <2>4, ReplacementKeepsTyped DEF Replaces
<1> QED BY <1>1, <1>2

LEMMA CutTyped ==
    ASSUME Typed, NEW p \in Procs, NEW n \in 0 .. Len(output[p])
    PROVE  /\ Cut(p, n) \in Seq(Docs) /\ DOMAIN Cut(p, n) = 1 .. n
           /\ \A j \in 1 .. n : Cut(p, n)[j] = output[p][j]
           /\ 1 .. n \subseteq DOMAIN output[p]
<1>1. output[p] \in Seq(Docs) /\ DOMAIN output[p] = 1 .. Len(output[p]) /\ Len(output[p]) \in Nat
  BY LenProperties DEF Typed, ProcsTyped
<1>2. \A j \in 1 .. n : output[p][j] \in Docs
  BY <1>1
<1>3. n \in Int /\ n >= 0
  BY <1>1
<1>4. /\ Cut(p, n) \in Seq(Docs) /\ Len(Cut(p, n)) = n
      /\ \A j \in 1 .. n : Cut(p, n)[j] = output[p][j]
  BY <1>2, <1>3, SubSeqProperties DEF Cut
<1> QED BY <1>1, <1>3, <1>4, LenProperties

LEMMA FinishShortTyped ==
    ASSUME Typed, NEW p \in Procs, FinishShort(p)
    PROVE  StateTyped'
<1> DEFINE f == OutputFile(cmd[p])
<1>0. at[p] = "finish" /\ Ends(p) /\ Trouble /\ f # None /\ OldOnesAreDetached(p, f)
  BY DEF FinishShort
<1>1. f \in Files
  BY <1>0, RunningOK
<1>2. PICK n \in 0 .. Len(output[p]) :
        docs' = [docs EXCEPT ![f] = Cut(p, n)] /\ meant' = [meant EXCEPT ![f] = Holds(Cut(p, n))]
  BY DEF FinishShort
<1>3. Cut(p, n) \in Seq(Docs)
  BY CutTyped
<1>4. Holds(Cut(p, n)) \subseteq Items
  BY <1>3, HeldItems
<1>5. docs' \in [Files -> Seq(Docs)] /\ meant' \in [Files -> SUBSET Items]
  BY <1>2, <1>3, <1>4 DEF Typed, FilesTyped
<1>6. state' \in [Files -> {"missing", "whole", "torn"}] /\ needs' \in [Files -> SUBSET Keys]
  BY DEF FinishShort, Typed, FilesTyped, ProcsTyped
<1>7. FilesTyped'
  BY <1>0, <1>5, <1>6, TroublesTyped DEF FilesTyped
<1> QED BY <1>0, <1>1, <1>7, ReplacementKeepsTyped

\* The other ways in which a command ends.
LEMMA OtherEndsTyped ==
    ASSUME Typed, NEW p \in Procs,
           Fails(p) \/ Kill(p) \/ FinishFails(p) \/ WriteFails(p) \/ ValidateRefused(p)
    PROVE  StateTyped'
<1>1. CASE Fails(p) \/ ValidateRefused(p)
  <2>1. Errs(p) /\ (Trouble \/ UNCHANGED counters)
    BY <1>1 DEF Fails, ValidateRefused
  <2> QED BY <2>1, FilesStay, EndKeepsTyped DEF Errs
<1>2. CASE FinishFails(p)
  BY <1>2, FilesStay, EndKeepsTyped DEF FinishFails
<1>3. CASE Kill(p)
  <2>1. meant' \in [Files -> SUBSET Items]
    <3>1. CASE at[p] = "write"
      <4>1. cmd[p].file \in Files
        BY <3>1, RunningOK
      <4>2. Holds(docs[cmd[p].file]) \subseteq Items
        BY <4>1, HeldItems DEF Typed, FilesTyped
      <4> QED BY <1>3, <3>1, <4>2 DEF Kill, Typed, FilesTyped
    <3>2. CASE at[p] # "write"
      BY <1>3, <3>2 DEF Kill, Typed, FilesTyped
    <3> QED BY <3>1, <3>2
  <2>2. FilesTyped'
    BY <1>3, <2>1, TroublesTyped DEF Kill, Typed, FilesTyped, fileVars
  <2> QED BY <1>3, <2>2, EndKeepsTyped DEF Kill
<1>4. CASE WriteFails(p)
  <2>0. <<>> \in Seq(Docs) /\ cmd[p].file \in Files
    BY <1>4, EmptySeq, RunningOK DEF WriteFails
  <2>1. docs' \in [Files -> Seq(Docs)] /\ state' \in [Files -> {"missing", "whole", "torn"}]
    BY <1>4, <2>0 DEF WriteFails, Typed, FilesTyped, fileVars
  <2>2. Holds(docs'[cmd[p].file]) \subseteq Items
    BY <2>0, <2>1, HeldItems
  <2>3. meant' \in [Files -> SUBSET Items]
    BY <1>4, <2>2 DEF WriteFails, Typed, FilesTyped
  <2>4. FilesTyped'
    BY <1>4, <2>1, <2>3, TroublesTyped DEF WriteFails, Typed, FilesTyped
  <2> QED BY <1>4, <2>4, EndKeepsTyped DEF WriteFails
<1> QED BY <1>1, <1>2, <1>3, <1>4

\* The steps of a command up to its end.
LEMMA StartTyped ==
    ASSUME Typed, NEW p \in Procs, NEW c \in Commands, Start(p, c)
    PROVE  StateTyped'
<1> USE ConstantsOK DEF Start
<1>0. at[p] = "idle"
  OBVIOUS
<1>1. FilesTyped'
  BY DEF Typed, FilesTyped, fileVars, ownerVars
<1>2. c.file \in Files \cup {None} /\ c.op \in Ops /\ (Reads(c) => c.file \in Files)
  BY CommandsOK DEF Reads
<1>3. CASE Reads(c) /\ state[c.file] = "missing"
  <2>1. UNCHANGED procVars
    BY <1>3
  <2>2. ProcsTyped'
    BY <2>1 DEF Typed, ProcsTyped, procVars
  <2>3. \A q \in Procs : InStage(q)'
    BY <2>1 DEF Typed, InStage, procVars
  <2> QED BY <1>1, <2>2, <2>3 DEF StateTyped
<1>4. CASE ~(Reads(c) /\ state[c.file] = "missing")
  <2>a. /\ at' = [at EXCEPT ![p] = IF Reads(c) THEN "read" ELSE "cert"]
        /\ cmd' = [cmd EXCEPT ![p] = c]
        /\ handle' = [handle EXCEPT ![p] = IF Reads(c) THEN c.file ELSE None]
        /\ since' = [since EXCEPT ![p] = {latest}]
        /\ clean' = [q \in Procs |-> IF q = p THEN Rivals(p, c) = {}
                                      ELSE clean[q] /\ q \notin Rivals(p, c)]
        /\ UNCHANGED <<input, done, cert, output>>
    BY <1>4
  <2> HIDE DEF Start
  <2>b. ProcsTyped /\ latest \in Keys /\ \A q \in Procs : InStage(q)
    BY DEF Typed, ServerTypeOK
  <2>1. ProcsTyped'
    <3>1. at' \in [Procs -> Stages]
      BY <2>a, <2>b DEF ProcsTyped, Stages
    <3>2. cmd' \in [Procs -> Commands \cup {None}]
      BY <2>a, <2>b DEF ProcsTyped
    <3>3. handle' \in [Procs -> Files \cup {None, Detached}]
      BY <1>2, <2>a, <2>b DEF ProcsTyped
    <3>4. since' \in [Procs -> SUBSET Keys]
      BY <2>a, <2>b DEF ProcsTyped
    <3>5. clean' \in [Procs -> BOOLEAN]
      <4>1. \A q \in Procs : (clean[q] /\ q \notin Rivals(p, c)) \in BOOLEAN
        OBVIOUS
      <4>2. (Rivals(p, c) = {}) \in BOOLEAN
        OBVIOUS
      <4>3. \A q \in Procs : (IF q = p THEN Rivals(p, c) = {}
                              ELSE clean[q] /\ q \notin Rivals(p, c)) \in BOOLEAN
        BY <4>1, <4>2
      <4> QED BY <2>a, <4>3, Zenon
    <3>6. /\ input' \in [Procs -> Seq(Docs)] /\ output' \in [Procs -> Seq(Docs)]
          /\ done' \in [Procs -> Nat] /\ cert' \in [Procs -> Keys \cup {None}]
      BY <2>a, <2>b DEF ProcsTyped
    <3> QED BY <3>1, <3>2, <3>3, <3>4, <3>5, <3>6 DEF ProcsTyped
  <2>2. ASSUME NEW q \in Procs PROVE InStage(q)'
    <3>1. CASE q # p
      <4>1. /\ at'[q] = at[q] /\ cmd'[q] = cmd[q] /\ output'[q] = output[q]
            /\ done'[q] = done[q] /\ cert'[q] = cert[q] /\ handle'[q] = handle[q]
        BY <2>a, <2>b, <3>1 DEF ProcsTyped
      <4> QED BY <4>1, OthersInStage
    <3>2. CASE q = p
      <4>1. output[p] = <<>> /\ done[p] = 0 /\ handle[p] = None
        BY <1>0, <2>b DEF InStage
      <4>2. /\ cmd'[p] = c /\ at'[p] = IF Reads(c) THEN "read" ELSE "cert"
            /\ handle'[p] = IF Reads(c) THEN c.file ELSE None
            /\ output'[p] = <<>> /\ done'[p] = 0
        BY <2>a, <2>b, <4>1 DEF ProcsTyped
      <4> QED BY <1>2, <3>2, <4>2 DEF InStage, Reads, Ops
    <3> QED BY <3>1, <3>2
  <2> QED BY <1>1, <2>1, <2>2 DEF StateTyped
<1> QED BY <1>3, <1>4

\* What Seal makes of the Secrets on standard input.
LEMMA SealedTyped ==
    ASSUME NEW c \in Commands, NEW k \in Keys
    PROVE  [j \in DOMAIN c.secrets |-> [i \in c.secrets[j] |-> k]] \in Seq(Docs)
<1> DEFINE s == [j \in DOMAIN c.secrets |-> [i \in c.secrets[j] |-> k]]
<1>1. c.secrets \in Seq(SUBSET Items)
  BY CommandsOK
<1>2. /\ Len(c.secrets) \in Nat /\ DOMAIN c.secrets = 1 .. Len(c.secrets)
      /\ \A j \in DOMAIN c.secrets : c.secrets[j] \in SUBSET Items
  BY <1>1, LenProperties
<1>3. \A j \in DOMAIN c.secrets : [i \in c.secrets[j] |-> k] \in Docs
  BY <1>2, DocsOfItems
<1>4. s \in [1 .. Len(c.secrets) -> Docs]
  BY <1>2, <1>3
<1> QED BY <1>2, <1>4

LEMMA FetchCertTyped ==
    ASSUME Typed, NEW p \in Procs, FetchCert(p)
    PROVE  StateTyped'
<1> DEFINE s == [j \in DOMAIN cmd[p].secrets |-> [i \in cmd[p].secrets[j] |-> latest]]
<1>a. /\ at[p] = "cert" /\ cert' = [cert EXCEPT ![p] = latest]
      /\ UNCHANGED <<fileVars, cmd, handle, input, done, since, clean, ownerVars,
                     counters>>
      /\ \/ /\ cmd[p].op = "merge" /\ at' = [at EXCEPT ![p] = "open"] /\ output' = output
         \/ /\ cmd[p].op # "merge" /\ at' = [at EXCEPT ![p] = "finish"]
            /\ output' = [output EXCEPT ![p] = s]
  BY DEF FetchCert
<1>b. FilesTyped /\ ProcsTyped /\ InStage(p)
  BY DEF Typed
<1>0. cmd[p] \in Commands /\ latest \in Keys
  BY <1>a, RunningOK DEF Typed, ServerTypeOK
<1>c. s \in Seq(Docs)
  BY <1>0, SealedTyped
<1> HIDE DEF s
<1>1. FilesTyped'
  BY <1>a, <1>b DEF FilesTyped, fileVars, ownerVars, counters
<1>2. ProcsTyped'
  <2>1. output' \in [Procs -> Seq(Docs)]
    BY <1>a, <1>b, <1>c DEF ProcsTyped
  <2>2. at' \in [Procs -> Stages] /\ cert' \in [Procs -> Keys \cup {None}]
    BY <1>0, <1>a, <1>b DEF ProcsTyped, Stages
  <2> QED BY <1>a, <1>b, <2>1, <2>2 DEF ProcsTyped
<1>3. ASSUME NEW q \in Procs PROVE InStage(q)'
  <2>1. CASE q # p
    <3>1. /\ at'[q] = at[q] /\ cmd'[q] = cmd[q] /\ output'[q] = output[q]
          /\ done'[q] = done[q] /\ cert'[q] = cert[q] /\ handle'[q] = handle[q]
      BY <1>a, <1>b, <2>1 DEF ProcsTyped
    <3> QED BY <3>1, OthersInStage
  <2>2. CASE q = p
    <3>1. /\ cert'[p] \in Keys /\ cmd'[p] = cmd[p] /\ done'[p] = done[p] /\ handle'[p] = handle[p]
          /\ \/ cmd[p].op = "merge" /\ at'[p] = "open" /\ output'[p] = output[p]
             \/ cmd[p].op # "merge" /\ at'[p] = "finish"
      BY <1>0, <1>a, <1>b DEF ProcsTyped
    <3> QED BY <1>0, <1>a, <1>b, <2>2, <3>1, ConstantsOK DEF InStage
  <2> QED BY <2>1, <2>2
<1> QED BY <1>1, <1>2, <1>3 DEF StateTyped

LEMMA ReadTyped ==
    ASSUME Typed, NEW p \in Procs, Read(p)
    PROVE  StateTyped'
<1>1. CASE Errs(p)
  BY <1>1, FilesStay, EndKeepsTyped DEF Errs, Read
<1>2. CASE /\ at' = [at EXCEPT ![p] = "request"]
           /\ input' = IF handle[p] = Detached THEN input
                       ELSE [input EXCEPT ![p] = docs[handle[p]]]
           /\ UNCHANGED <<cmd, handle, done, cert, output, since, clean, fileVars,
                          ownerVars, counters>>
  <2>1. FilesTyped'
    BY <1>2 DEF Typed, FilesTyped, fileVars, ownerVars, counters
  <2>2. at[p] = "read" /\ cmd[p].file \in Files
    <3>1. at[p] = "read" /\ cmd[p].op \in {"validate", "re-encrypt"} /\ cmd[p] \in Commands
      BY RunningOK DEF Read, Typed, InStage
    <3> QED BY <3>1, CommandsOK
  <2>3. input' \in [Procs -> Seq(Docs)]
    BY <1>2, <2>2 DEF Typed, FilesTyped, ProcsTyped, InStage
  <2>4. ProcsTyped'
    BY <1>2, <2>3 DEF Typed, ProcsTyped, Stages
  <2>5. ASSUME NEW q \in Procs PROVE InStage(q)'
    <3>1. CASE q # p
      BY <1>2, <3>1, OthersInStage DEF Typed, ProcsTyped
    <3>2. CASE q = p
      BY <1>2, <2>2, <3>2 DEF Typed, ProcsTyped, InStage
    <3> QED BY <3>1, <3>2
  <2> QED BY <2>1, <2>4, <2>5 DEF StateTyped
<1> QED BY <1>1, <1>2 DEF Read

\* One more document is done.
LEMMA NextDocumentTyped ==
    ASSUME Typed, NEW p \in Procs, at[p] = "request", NextDocument(p),
           output' \in [Procs -> Seq(Docs)],
           \A q \in Procs \ {p} : output'[q] = output[q],
           UNCHANGED counters
    PROVE  StateTyped'
<1> USE DEF NextDocument
<1>1. FilesTyped'
  BY DEF Typed, FilesTyped, fileVars, ownerVars, counters
<1>2. ProcsTyped'
  <2>1. done[p] + 1 \in Nat
    BY DEF Typed, ProcsTyped
  <2>2. done' \in [Procs -> Nat]
    BY <2>1 DEF Typed, ProcsTyped
  <2> QED BY <2>2 DEF Typed, ProcsTyped
<1>3. ASSUME NEW q \in Procs PROVE InStage(q)'
  <2>1. CASE q # p
    BY <2>1, OthersInStage DEF Typed, ProcsTyped
  <2>2. CASE q = p
    BY <2>2 DEF Typed, ProcsTyped, InStage
  <2> QED BY <2>1, <2>2
<1> QED BY <1>1, <1>2, <1>3 DEF StateTyped

\* The document that is next.
LEMMA DocTyped ==
    ASSUME Typed, NEW p \in Procs, done[p] < Len(input[p])
    PROVE  Doc(p) \in Docs /\ done[p] + 1 \in DOMAIN input[p]
<1>1. /\ input[p] \in Seq(Docs) /\ Len(input[p]) \in Nat /\ DOMAIN input[p] = 1 .. Len(input[p])
      /\ done[p] \in Nat
  BY LenProperties DEF Typed, ProcsTyped
<1>2. done[p] + 1 \in DOMAIN input[p]
  BY <1>1
<1> QED BY <1>1, <1>2, ElementOfSeq DEF Doc

LEMMA RotatedTyped ==
    ASSUME Typed, NEW d \in Docs
    PROVE  Rotated(d) \in Docs
<1>1. DOMAIN d \subseteq Items /\ latest \in Keys
  BY DocsAreFunctions DEF Typed, ServerTypeOK
<1>2. Rotated(d) \in [DOMAIN d -> Keys \cup {Foreign}]
  BY <1>1 DEF Rotated
<1> QED BY <1>1, <1>2, DocsOfItems

LEMMA RequestsTyped ==
    ASSUME Typed, NEW p \in Procs, Validate(p) \/ ReEncrypt(p) \/ AllDone(p)
    PROVE  StateTyped'
<1>1. CASE Errs(p) /\ UNCHANGED counters
  BY <1>1, FilesStay, EndKeepsTyped DEF Errs
<1>2. CASE Validate(p) /\ ~Errs(p)
  <2>1. at[p] = "request" /\ NextDocument(p) /\ UNCHANGED <<output, counters>>
    BY <1>2 DEF Validate, Requests
  <2> QED BY <2>1, NextDocumentTyped DEF Typed, ProcsTyped
<1>3. CASE ReEncrypt(p) /\ ~Errs(p)
  <2>1. /\ at[p] = "request" /\ NextDocument(p) /\ UNCHANGED counters
        /\ done[p] < Len(input[p])
        /\ output' = [output EXCEPT ![p] = Append(@, Rotated(Doc(p)))]
    BY <1>3 DEF ReEncrypt, Requests
  <2>2. Rotated(Doc(p)) \in Docs
    BY <2>1, DocTyped, RotatedTyped
  <2>3. Append(output[p], Rotated(Doc(p))) \in Seq(Docs)
    BY <2>2 DEF Typed, ProcsTyped
  <2> QED BY <2>1, <2>3, NextDocumentTyped DEF Typed, ProcsTyped
<1>4. CASE AllDone(p)
  <2> USE <1>4 DEF AllDone
  <2>1. FilesTyped'
    BY DEF Typed, FilesTyped, fileVars, ownerVars, counters
  <2>2. ProcsTyped'
    BY DEF Typed, ProcsTyped, Stages
  <2>3. ASSUME NEW q \in Procs PROVE InStage(q)'
    <3>1. CASE q # p
      BY <3>1, OthersInStage DEF Typed, ProcsTyped
    <3>2. CASE q = p
      BY <3>2 DEF Typed, ProcsTyped, InStage
    <3> QED BY <3>1, <3>2
  <2> QED BY <2>1, <2>2, <2>3 DEF StateTyped
<1> QED BY <1>1, <1>2, <1>3, <1>4 DEF Validate, ReEncrypt

\* The steps of a merge.
LEMMA MergedTyped ==
    ASSUME NEW d \in Docs, NEW s \in SUBSET Items, NEW k \in Keys
    PROVE  Merged(d, s, k) \in Docs /\ DOMAIN Merged(d, s, k) = DOMAIN d \cup s
<1>1. d \in [DOMAIN d -> Keys \cup {Foreign}] /\ DOMAIN d \subseteq Items
  BY DocsAreFunctions
<1>2. Merged(d, s, k) \in [DOMAIN d \cup s -> Keys \cup {Foreign}]
  BY <1>1 DEF Merged
<1>3. DOMAIN d \cup s \in SUBSET Items
  BY <1>1
<1> QED BY <1>2, <1>3, DocsOfItems

\* What a merge has in hand when its file is open.
LEMMA MergeOpened ==
    ASSUME Typed, NEW p \in Procs, at[p] = "open", docs[cmd[p].file] # <<>>
    PROVE  /\ cmd[p].file \in Files /\ cert[p] \in Keys
           /\ docs[cmd[p].file][1] \in Docs /\ 1 \in DOMAIN docs[cmd[p].file]
           /\ cmd[p].secrets[1] \in SUBSET Items /\ 1 \in DOMAIN cmd[p].secrets
<1>1. /\ cmd[p].file \in Files /\ cmd[p].secrets \in Seq(SUBSET Items)
      /\ cmd[p].op = "merge" /\ cert[p] \in Keys /\ 1 \in DOMAIN cmd[p].secrets
  BY RunningOK DEF Typed, InStage
<1>2. docs[cmd[p].file] \in Seq(Docs)
  BY <1>1 DEF Typed, FilesTyped
<1>3. 1 \in DOMAIN docs[cmd[p].file]
  BY <1>2, LenProperties, EmptySeq
<1> QED BY <1>1, <1>2, <1>3, LenProperties

LEMMA MergeOpenTyped ==
    ASSUME Typed, NEW p \in Procs, MergeOpen(p)
    PROVE  StateTyped'
<1> DEFINE f == cmd[p].file
           d == Merged(docs[f][1], cmd[p].secrets[1], cert[p])
<1>1. CASE Errs(p)
  BY <1>1, FilesStay, EndKeepsTyped DEF Errs, MergeOpen
<1>2. CASE ~Errs(p)
  <2>1. /\ at[p] = "open" /\ docs[f] # <<>>
        /\ at' = [at EXCEPT ![p] = "truncate"]
        /\ handle' = [handle EXCEPT ![p] = f]
        /\ output' = [output EXCEPT ![p] = <<d>>]
        /\ \E b \in BOOLEAN : clean' = [clean EXCEPT ![p] = clean[p] /\ b]
        /\ UNCHANGED <<cmd, input, done, cert, since, fileVars, ownerVars, counters>>
    BY <1>2 DEF MergeOpen
  <2>2. f \in Files /\ d \in Docs
    BY <2>1, MergeOpened, MergedTyped
  <2> HIDE DEF d
  <2>3. FilesTyped'
    BY <2>1 DEF Typed, FilesTyped, fileVars, ownerVars, counters
  <2>4. clean' \in [Procs -> BOOLEAN]
    <3>1. PICK b \in BOOLEAN : clean' = [clean EXCEPT ![p] = clean[p] /\ b]
      BY <2>1
    <3>2. (clean[p] /\ b) \in BOOLEAN
      OBVIOUS
    <3> QED BY <3>1, <3>2, Zenon DEF Typed, ProcsTyped
  <2>5. output' \in [Procs -> Seq(Docs)]
    <3>1. <<d>> \in Seq(Docs)
      BY <2>2
    <3> QED BY <2>1, <3>1 DEF Typed, ProcsTyped
  <2>6. ProcsTyped'
    BY <2>1, <2>2, <2>4, <2>5 DEF Typed, ProcsTyped, Stages
  <2>7. ASSUME NEW q \in Procs PROVE InStage(q)'
    <3>1. CASE q # p
      BY <2>1, <3>1, OthersInStage DEF Typed, ProcsTyped
    <3>2. CASE q = p
      BY <2>1, <3>2 DEF Typed, ProcsTyped, InStage
    <3> QED BY <3>1, <3>2
  <2> QED BY <2>3, <2>6, <2>7 DEF StateTyped
<1> QED BY <1>1, <1>2

LEMMA TruncateTyped ==
    ASSUME Typed, NEW p \in Procs, Truncate(p)
    PROVE  StateTyped'
<1> USE DEF Truncate
<1>0. <<>> \in Seq(Docs)
  BY EmptySeq
<1>1. FilesTyped'
  <2>1. CASE handle[p] = Detached
    BY <2>1 DEF Typed, FilesTyped, fileVars, ownerVars, counters
  <2>2. CASE handle[p] # Detached
    <3>1. docs' = [docs EXCEPT ![handle[p]] = <<>>]
          /\ state' = [state EXCEPT ![handle[p]] = "whole"]
      BY <2>2
    <3> QED BY <1>0, <3>1 DEF Typed, FilesTyped, ownerVars, counters
  <2> QED BY <2>1, <2>2
<1>2. ProcsTyped'
  BY DEF Typed, ProcsTyped, Stages
<1>3. ASSUME NEW q \in Procs PROVE InStage(q)'
  <2>1. CASE q # p
    BY <2>1, OthersInStage DEF Typed, ProcsTyped
  <2>2. CASE q = p
    BY <2>2 DEF Typed, ProcsTyped, InStage
  <2> QED BY <2>1, <2>2
<1> QED BY <1>1, <1>2, <1>3 DEF StateTyped

LEMMA WriteTyped ==
    ASSUME Typed, NEW p \in Procs, Write(p)
    PROVE  StateTyped'
<1> DEFINE f == cmd[p].file
<1>0. /\ at[p] = "write" /\ f \in Files /\ <<>> \in Seq(Docs)
      /\ cmd[p].secrets[1] \in SUBSET Items
  <2>1. at[p] = "write" /\ cmd[p].op = "merge" /\ cmd[p] \in Commands
    BY RunningOK DEF Write, Typed, InStage
  <2>2. cmd[p].secrets \in Seq(SUBSET Items) /\ 1 \in DOMAIN cmd[p].secrets /\ f \in Files
    BY <2>1, CommandsOK
  <2> QED BY <2>1, <2>2, EmptySeq, LenProperties
<1>1. /\ docs' \in [Files -> Seq(Docs)]
      /\ state' \in [Files -> {"missing", "whole", "torn"}]
  <2>1. CASE handle[p] = Detached
    BY <2>1 DEF Write, Typed, FilesTyped, fileVars
  <2>2. CASE handle[p] # Detached
    <3>1. /\ docs' = [docs EXCEPT ![f] = output[p]]
          /\ \E how \in {"whole", "torn"} : state' = [state EXCEPT ![f] = how]
      BY <2>2 DEF Write
    <3> QED BY <1>0, <3>1 DEF Typed, FilesTyped, ProcsTyped
  <2> QED BY <2>1, <2>2
<1>2. meant' \in [Files -> SUBSET Items]
  <2>1. Holds(docs'[f]) \subseteq Items
    BY <1>0, <1>1, HeldItems
  <2>2. meant[f] \cup cmd[p].secrets[1] \subseteq Items
    BY <1>0 DEF Typed, FilesTyped
  <2> QED BY <1>0, <2>1, <2>2 DEF Write, Typed, FilesTyped
<1>3. needs' \in [Files -> SUBSET Keys]
  BY <1>0 DEF Write, Typed, FilesTyped, ProcsTyped
<1>4. FilesTyped'
  BY <1>1, <1>2, <1>3, TroublesTyped DEF Write, FilesTyped
<1>5. ProcsTyped'
  BY <1>0 DEF Write, Typed, ProcsTyped, Stages
<1>6. ASSUME NEW q \in Procs PROVE InStage(q)'
  <2>1. CASE q # p
    BY <2>1, OthersInStage DEF Write, Typed, ProcsTyped
  <2>2. CASE q = p
    BY <1>0, <2>2 DEF Write, Typed, ProcsTyped, InStage
  <2> QED BY <2>1, <2>2
<1> QED BY <1>4, <1>5, <1>6 DEF StateTyped

\* What is not done by a command.
LEMMA SurroundingsTyped ==
    ASSUME Typed,
           \/ \E k \in Keys : RegisterKey(k)
           \/ Restart \/ TimePasses \/ UNCHANGED vars
    PROVE  StateTyped'
<1>1. UNCHANGED <<fileVars, ownerVars, counters, at, cmd, handle, input, done, cert, output,
                  clean>>
  BY DEF RegisterKey, Restart, TimePasses, vars, procVars
<1>2. since' \in [Procs -> SUBSET Keys]
  <2>1. CASE UNCHANGED since
    BY <2>1 DEF Typed, ProcsTyped
  <2>2. CASE (\E k \in Keys : RegisterKey(k)) \/ Restart
    <3>1. CommandsSeeTheLatest /\ latest' \in Keys
      BY <2>2 DEF RegisterKey, Restart, RestartWith, Typed, ServerTypeOK
    <3> QED BY <3>1 DEF CommandsSeeTheLatest, Typed, ProcsTyped
  <2> QED BY <2>1, <2>2 DEF TimePasses, vars, procVars
<1>3. FilesTyped'
  BY <1>1 DEF Typed, FilesTyped, fileVars, ownerVars, counters
<1>4. ProcsTyped'
  BY <1>1, <1>2 DEF Typed, ProcsTyped
<1>5. \A q \in Procs : InStage(q)'
  BY <1>1 DEF Typed, InStage
<1> QED BY <1>3, <1>4, <1>5 DEF StateTyped

LEMMA PasteTyped ==
    ASSUME Typed, NEW f \in Files, NEW i \in Items, Paste(f, i)
    PROVE  StateTyped'
<1>1. [x \in {i} |-> Foreign] \in Docs
  <2>1. {i} \in SUBSET Items /\ [x \in {i} |-> Foreign] \in [{i} -> Keys \cup {Foreign}]
    OBVIOUS
  <2> QED BY <2>1, DocsOfItems
<1>2. docs' \in [Files -> Seq(Docs)]
  <2>1. Append(docs[f], [x \in {i} |-> Foreign]) \in Seq(Docs)
    BY <1>1 DEF Typed, FilesTyped
  <2> QED BY <2>1 DEF Paste, Typed, FilesTyped
<1>3. commands' \in Nat /\ troubles' \in Nat
  BY DEF Paste, Typed, FilesTyped
<1>4. meant' \in [Files -> SUBSET Items] /\ needs' \in [Files -> SUBSET Keys]
  BY DEF Paste, Typed, FilesTyped
<1>5. state' \in [Files -> {"missing", "whole", "torn"}]
  BY DEF Paste, Typed, FilesTyped
<1>6. FilesTyped'
  BY <1>2, <1>3, <1>4, <1>5 DEF FilesTyped
<1>7. ProcsTyped' /\ \A q \in Procs : InStage(q)'
  BY DEF Paste, Typed, ProcsTyped, InStage, procVars
<1> QED BY <1>6, <1>7 DEF StateTyped

LEMMA TypedPreserves == ServerInv /\ Typed /\ [Next]_vars => Typed'
<1> SUFFICES ASSUME ServerInv, Typed, [Next]_vars PROVE Typed'
  OBVIOUS
<1>0. ServerTypeOK'
  BY ServerPreserves DEF ServerInv
<1>1. ASSUME NEW p \in Procs, NEW c \in Commands, Start(p, c) PROVE StateTyped'
  BY <1>1, StartTyped
<1>2. ASSUME NEW p \in Procs, Command(p) PROVE StateTyped'
  BY <1>2, FetchCertTyped, ReadTyped, RequestsTyped, OtherEndsTyped, MergeOpenTyped,
     TruncateTyped, WriteTyped, FinishTyped DEF Command
<1>3. ASSUME NEW p \in Procs,
             Fails(p) \/ WriteFails(p) \/ FinishFails(p) \/ FinishShort(p) \/ Kill(p)
      PROVE  StateTyped'
  BY <1>3, OtherEndsTyped, FinishShortTyped
<1>4. ASSUME NEW f \in Files, NEW i \in Items, Paste(f, i) PROVE StateTyped'
  BY <1>4, PasteTyped
<1>5. StateTyped'
  BY <1>1, <1>2, <1>3, <1>4, SurroundingsTyped DEF Next
<1> QED BY <1>0, <1>5 DEF StateTyped, Typed

(***************************************************************************)
(* The state has its type, for any commands, files and keys: whatever a    *)
(* file is left with after overlapping and failed commands are             *)
(* SealedSecrets of known items (runCLI).                                  *)
(***************************************************************************)
THEOREM TypeCorrect == Spec => []TypeOK
<1>1. ServerInv /\ Typed /\ [Next]_vars => (ServerInv /\ Typed)'
  BY ServerPreserves, TypedPreserves
<1>2. Init => ServerInv /\ Typed
  BY ServerInitEstablishes, TypedInit
<1> QED BY <1>1, <1>2, TypedImplies, PTL DEF Spec

-----------------------------------------------------------------------------
(***************************************************************************)
(* Which keys the files, and the commands that will write them, rely on.   *)
(* The owner keeps the keys of needs[f]; a command adds those that were    *)
(* the latest while it ran, and no key goes while one runs.                *)
(***************************************************************************)
SinceHeld(p) ==
    /\ since[p] \subseteq held /\ cert[p] \in since[p] \cup {None}
    /\ at[p] = "idle" => since[p] = {} /\ cert[p] = None
    /\ at[p] # "idle" => latest \in since[p]

OutputOpens(p) ==
    /\ at[p] # "idle" /\ cmd[p].op # "merge" => Within(output[p], since[p])
    /\ at[p] \in {"truncate", "write"} /\ handle[p] # Detached =>
           Within(output[p], needs[cmd[p].file] \cup since[p] \cup {Foreign})

FileOpens(f) == needs[f] \subseteq held /\ Within(docs[f], needs[f] \cup {Foreign})

KeysKept ==
    /\ \A p \in Procs : SinceHeld(p) /\ OutputOpens(p)
    /\ \A f \in Files : FileOpens(f)

LEMMA WithinGrows ==
    ASSUME NEW s, NEW S, NEW T, Within(s, S), S \subseteq T
    PROVE  Within(s, T)
BY DEF Within

LEMMA EmptyWithin ==
    ASSUME NEW S
    PROVE  Within(<<>>, S)
BY DEF Within

LEMMA KeysKeptImplies == KeysKept => FilesOpen
<1> SUFFICES ASSUME KeysKept, NEW f \in Files PROVE Within(docs[f], held \cup {Foreign})
  BY DEF FilesOpen
<1>1. needs[f] \subseteq held /\ Within(docs[f], needs[f] \cup {Foreign})
  BY DEF KeysKept, FileOpens
<1> QED BY <1>1, WithinGrows

LEMMA KeysInit == Init => KeysKept
<1> SUFFICES ASSUME Init PROVE KeysKept
  OBVIOUS
<1> QED BY EmptyWithin DEF Init, KeysKept, SinceHeld, OutputOpens, FileOpens

\* The processes that a step of another one does not disturb.
LEMMA OthersKeepKeys ==
    ASSUME Typed, KeysKept, NEW q \in Procs, UNCHANGED keyVars,
           at'[q] = at[q], cmd'[q] = cmd[q], output'[q] = output[q], cert'[q] = cert[q],
           since'[q] = since[q], handle[q] = Detached => handle'[q] = Detached,
           \/ at[q] \notin {"truncate", "write"} \/ handle'[q] = Detached
           \/ needs[cmd[q].file] \subseteq needs'[cmd[q].file]
    PROVE  SinceHeld(q)' /\ OutputOpens(q)'
<1>1. SinceHeld(q) /\ OutputOpens(q)
  BY DEF KeysKept
<1>2. SinceHeld(q)'
  BY <1>1 DEF SinceHeld, keyVars
<1>3. at[q] # "idle" /\ cmd[q].op # "merge" => Within(output[q], since[q])
  BY <1>1 DEF OutputOpens
<1>4. ASSUME at[q] \in {"truncate", "write"}, handle'[q] # Detached
      PROVE  Within(output[q], needs'[cmd[q].file] \cup since[q] \cup {Foreign})
  <2>1. Within(output[q], needs[cmd[q].file] \cup since[q] \cup {Foreign})
    BY <1>1, <1>4 DEF OutputOpens
  <2>2. needs[cmd[q].file] \subseteq needs'[cmd[q].file]
    BY <1>4
  <2> QED BY <2>1, <2>2, WithinGrows
<1>5. OutputOpens(q)'
  BY <1>3, <1>4 DEF OutputOpens
<1> QED BY <1>2, <1>5

\* The end of a command, which leaves the files in order.
LEMMA EndKeepsKeys ==
    ASSUME Typed, KeysKept, NEW p \in Procs, Ends(p), UNCHANGED keyVars, \A f \in Files : FileOpens(f)',
           \A q \in Procs \ {p} :
              /\ handle[q] = Detached => handle'[q] = Detached
              /\ \/ at[q] \notin {"truncate", "write"} \/ handle'[q] = Detached
                 \/ needs[cmd[q].file] \subseteq needs'[cmd[q].file]
    PROVE  KeysKept'
<1> SUFFICES ASSUME NEW q \in Procs PROVE SinceHeld(q)' /\ OutputOpens(q)'
  BY DEF KeysKept
<1>1. CASE q = p
  <2>1. at'[p] = "idle" /\ since'[p] = {} /\ cert'[p] = None
    BY EndsMoves, EndsTyped DEF Ends, Typed, ProcsTyped
  <2> QED BY <1>1, <2>1 DEF SinceHeld, OutputOpens
<1>2. CASE q # p
  BY <1>2, EndsMoves, OthersKeepKeys DEF Typed
<1> QED BY <1>1, <1>2

LEMMA FilesStayOpen ==
    ASSUME KeysKept, UNCHANGED <<docs, needs, keyVars>>
    PROVE  \A f \in Files : FileOpens(f)'
BY DEF KeysKept, FileOpens, keyVars

\* A command that ends without a replacement of a file.
LEMMA ClosingKeepsKeys ==
    ASSUME Typed, KeysKept, NEW p \in Procs, Ends(p), Closes(p), UNCHANGED keyVars, UNCHANGED needs,
           \A f \in Files : FileOpens(f)'
    PROVE  KeysKept'
<1>1. \A q \in Procs \ {p} : handle'[q] = handle[q]
  BY ClosesTyped
<1> QED BY <1>1, EndKeepsKeys

\* One with it: what takes the place of f is within the keys of the command.
LEMMA ReplacementKeepsKeys ==
    ASSUME Typed, KeysKept, NEW p \in Procs, NEW f \in Files, NEW s \in Seq(Docs),
           Ends(p), OldOnesAreDetached(p, f), UNCHANGED keyVars,
           docs' = [docs EXCEPT ![f] = s], needs' = [needs EXCEPT ![f] = since[p]],
           Within(s, since[p])
    PROVE  KeysKept'
<1>1. ASSUME NEW g \in Files PROVE FileOpens(g)'
  <2>1. CASE g = f
    <3>1. docs'[f] = s /\ needs'[f] = since[p] /\ since[p] \subseteq held /\ held' = held
      BY DEF Typed, FilesTyped, KeysKept, SinceHeld, keyVars
    <3>2. Within(s, since[p] \cup {Foreign})
      BY WithinGrows
    <3> QED BY <2>1, <3>1, <3>2 DEF FileOpens
  <2>2. CASE g # f
    <3>1. docs'[g] = docs[g] /\ needs'[g] = needs[g] /\ held' = held
      BY <2>2 DEF Typed, FilesTyped, keyVars
    <3> QED BY <3>1 DEF KeysKept, FileOpens
  <2> QED BY <2>1, <2>2
<1>2. ASSUME NEW q \in Procs \ {p}
      PROVE  /\ handle[q] = Detached => handle'[q] = Detached
             /\ \/ at[q] \notin {"truncate", "write"} \/ handle'[q] = Detached
                \/ needs[cmd[q].file] \subseteq needs'[cmd[q].file]
  <2>1. handle'[q] = IF handle[q] = f THEN Detached ELSE handle[q]
    BY DetachedTyped
  <2>2. ASSUME at[q] \in {"truncate", "write"}, handle'[q] # Detached
        PROVE  needs[cmd[q].file] = needs'[cmd[q].file]
    <3>1. handle[q] = cmd[q].file /\ cmd[q].file \in Files
      BY <2>1, <2>2, RunningOK DEF Typed, InStage
    <3>2. cmd[q].file # f
      BY <2>1, <2>2, <3>1
    <3> QED BY <3>1, <3>2 DEF Typed, FilesTyped
  <2> QED BY <2>1, <2>2
<1> QED BY <1>1, <1>2, EndKeepsKeys

LEMMA EndsKeepKeys ==
    ASSUME Typed, KeysKept, NEW p \in Procs,
           \/ Finish(p) \/ FinishShort(p) \/ FinishFails(p)
           \/ Fails(p) \/ Kill(p) \/ WriteFails(p) \/ ValidateRefused(p)
    PROVE  KeysKept'
<1> DEFINE f == OutputFile(cmd[p])
<1>a. ASSUME at[p] = "finish", f # None PROVE f \in Files /\ Within(output[p], since[p])
  <2>1. f \in Files /\ cmd[p].op # "merge"
    BY <1>a, RunningOK
  <2> QED BY <1>a, <2>1 DEF KeysKept, OutputOpens
<1>b. output[p] \in Seq(Docs)
  BY DEF Typed, ProcsTyped
<1>1. CASE Finish(p) /\ f # None
  <2>1. /\ at[p] = "finish" /\ Ends(p) /\ OldOnesAreDetached(p, f)
        /\ docs' = [docs EXCEPT ![f] = output[p]]
        /\ needs' = [needs EXCEPT ![f] = since[p]] /\ UNCHANGED keyVars
    BY <1>1 DEF Finish, Replaces, Owns, serverVars
  <2> QED BY <1>1, <1>a, <1>b, <2>1, ReplacementKeepsKeys
<1>2. CASE FinishShort(p)
  <2>1. PICK n \in 0 .. Len(output[p]) : docs' = [docs EXCEPT ![f] = Cut(p, n)]
    BY <1>2 DEF FinishShort
  <2>2. /\ at[p] = "finish" /\ f # None /\ Ends(p) /\ OldOnesAreDetached(p, f)
        /\ needs' = [needs EXCEPT ![f] = since[p]] /\ UNCHANGED keyVars
    BY <1>2 DEF FinishShort, serverVars
  <2>3. f \in Files /\ Within(output[p], since[p])
    BY <1>a, <2>2
  <2>4. Cut(p, n) \in Seq(Docs) /\ Within(Cut(p, n), since[p])
    BY <2>3, CutTyped DEF Within
  <2> QED BY <2>1, <2>2, <2>3, <2>4, ReplacementKeepsKeys
<1>3. ASSUME Ends(p), Closes(p),
             UNCHANGED <<serverVars, fileVars, needs>>
      PROVE  KeysKept'
  BY <1>3, FilesStayOpen, ClosingKeepsKeys DEF serverVars, fileVars
<1>4. CASE Finish(p) /\ f = None
  BY <1>3, <1>4 DEF Finish, ownerVars
<1>5. CASE FinishFails(p)
  BY <1>3, <1>5 DEF FinishFails, ownerVars
<1>6. CASE Fails(p) \/ ValidateRefused(p)
  BY <1>3, <1>6 DEF Fails, ValidateRefused, Errs, ownerVars
<1>7. CASE Kill(p)
  BY <1>3, <1>7 DEF Kill
<1>8. CASE WriteFails(p)
  <2>1. /\ Ends(p) /\ Closes(p) /\ UNCHANGED keyVars /\ UNCHANGED needs
        /\ \/ UNCHANGED docs
           \/ docs' = [docs EXCEPT ![cmd[p].file] = <<>>]
    BY <1>8 DEF WriteFails, serverVars, fileVars
  <2>2. ASSUME NEW g \in Files PROVE FileOpens(g)'
    <3>1. docs'[g] \in {docs[g], <<>>} /\ needs'[g] = needs[g] /\ held' = held
      BY <2>1 DEF Typed, FilesTyped, keyVars
    <3> QED BY <3>1, EmptyWithin DEF KeysKept, FileOpens
  <2> QED BY <2>1, <2>2, ClosingKeepsKeys
<1> QED BY <1>1, <1>2, <1>4, <1>5, <1>6, <1>7, <1>8

\* A step of a command that goes on.
OnlyMoves(p) ==
    \A q \in Procs \ {p} :
        /\ at'[q] = at[q] /\ cmd'[q] = cmd[q] /\ output'[q] = output[q]
        /\ cert'[q] = cert[q] /\ since'[q] = since[q] /\ handle'[q] = handle[q]

LEMMA MoveKeepsKeys ==
    ASSUME Typed, KeysKept, NEW p \in Procs, OnlyMoves(p), UNCHANGED keyVars,
           \A f \in Files : needs[f] \subseteq needs'[f] /\ FileOpens(f)',
           SinceHeld(p)', OutputOpens(p)'
    PROVE  KeysKept'
<1> SUFFICES ASSUME NEW q \in Procs, q # p PROVE SinceHeld(q)' /\ OutputOpens(q)'
  BY DEF KeysKept
<1>1. at[q] \notin {"truncate", "write"} \/ needs[cmd[q].file] \subseteq needs'[cmd[q].file]
  BY RunningOK
<1> QED BY <1>1, OthersKeepKeys DEF OnlyMoves

LEMMA CommandKeepsKeys ==
    ASSUME Typed, Typed', KeysKept, NEW p \in Procs, Command(p)
    PROVE  KeysKept'
<1>0. SinceHeld(p) /\ OutputOpens(p) /\ InStage(p)
  BY DEF KeysKept, Typed
<1>a. ASSUME UNCHANGED <<keyVars, fileVars, ownerVars>>, OnlyMoves(p),
             SinceHeld(p)', OutputOpens(p)'
      PROVE  KeysKept'
  BY <1>a, FilesStayOpen, MoveKeepsKeys DEF fileVars, ownerVars
<1>b. CASE /\ Ends(p) /\ Closes(p)
           /\ UNCHANGED <<fileVars, ownerVars, keyVars>>
  BY <1>b, FilesStayOpen, ClosingKeepsKeys DEF fileVars, ownerVars
<1>1. CASE FetchCert(p)
  <2> USE <1>1 DEF FetchCert
  <2>1. OnlyMoves(p) /\ UNCHANGED <<keyVars, fileVars, ownerVars>>
    BY DEF OnlyMoves, Typed, ProcsTyped, serverVars
  <2>2. SinceHeld(p)'
    BY <1>0 DEF SinceHeld, Typed, ProcsTyped, serverVars, keyVars
  <2>3. OutputOpens(p)'
    <3>1. at'[p] \in {"open", "finish"} /\ cmd'[p] = cmd[p] /\ latest \in since'[p]
      BY <1>0 DEF SinceHeld, Typed, ProcsTyped
    <3>2. CASE cmd[p].op # "merge"
      <4>1. output'[p] = [j \in DOMAIN cmd[p].secrets |-> [i \in cmd[p].secrets[j] |-> latest]]
        BY <3>2 DEF Typed, ProcsTyped
      <4>2. Within(output'[p], since'[p])
        BY <3>1, <4>1 DEF Within
      <4> QED BY <3>1, <4>2 DEF OutputOpens
    <3>3. CASE cmd[p].op = "merge"
      BY <3>1, <3>3 DEF OutputOpens
    <3> QED BY <3>2, <3>3
  <2> QED BY <1>a, <2>1, <2>2, <2>3
<1>2. CASE Read(p)
  <2>1. CASE Errs(p)
    BY <1>2, <1>b, <2>1 DEF Read, Errs, serverVars
  <2>2. CASE ~Errs(p)
    <3> USE <1>2, <2>2 DEF Read
    <3>1. OnlyMoves(p) /\ UNCHANGED <<keyVars, fileVars, ownerVars>>
      BY DEF OnlyMoves, Typed, ProcsTyped, serverVars
    <3>2. /\ at'[p] = "request" /\ at[p] = "read"
          /\ UNCHANGED <<cmd, output, since, cert, held, latest>>
      BY DEF Typed, ProcsTyped, serverVars, keyVars
    <3>3. SinceHeld(p)' /\ OutputOpens(p)'
      BY <1>0, <3>2 DEF SinceHeld, OutputOpens
    <3> QED BY <1>a, <3>1, <3>3
  <2> QED BY <2>1, <2>2
<1>3. CASE Validate(p) \/ AllDone(p)
  <2>1. CASE Errs(p)
    BY <1>3, <1>b, <2>1 DEF Validate, AllDone, Admit, Errs, serverVars
  <2>2. CASE ~Errs(p)
    <3> USE <1>3, <2>2 DEF Validate, AllDone, NextDocument, Requests
    <3>1. /\ at[p] = "request" /\ at'[p] \in {"request", "finish"}
          /\ \A q \in Procs \ {p} : at'[q] = at[q]
          /\ UNCHANGED <<cmd, output, since, cert, handle, keyVars, fileVars, ownerVars>>
      BY DEF Typed, ProcsTyped, Admit, serverVars
    <3>2. SinceHeld(p)' /\ OutputOpens(p)'
      BY <1>0, <3>1 DEF SinceHeld, OutputOpens, keyVars
    <3> QED BY <1>a, <3>1, <3>2 DEF OnlyMoves
  <2> QED BY <2>1, <2>2
<1>4. CASE ReEncrypt(p)
  <2>1. CASE Errs(p)
    BY <1>4, <1>b, <2>1 DEF ReEncrypt, Errs, serverVars
  <2>2. CASE ~Errs(p)
    <3>1. /\ at[p] = "request" /\ cmd[p].op = "re-encrypt" /\ done[p] < Len(input[p])
          /\ output' = [output EXCEPT ![p] = Append(@, Rotated(Doc(p)))]
          /\ UNCHANGED <<at, cmd, since, cert, handle, keyVars, fileVars, ownerVars>>
      BY <1>4, <2>2 DEF ReEncrypt, NextDocument, Requests, serverVars
    <3>2. Within(output[p], since[p]) /\ latest \in since[p]
      BY <1>0, <3>1 DEF OutputOpens, SinceHeld
    <3>3. output[p] \in Seq(Docs) /\ output'[p] = Append(output[p], Rotated(Doc(p)))
      BY <3>1 DEF Typed, ProcsTyped
    <3>4. Within(output'[p], since[p])
      <4> SUFFICES ASSUME NEW j \in DOMAIN output'[p], NEW i \in DOMAIN output'[p][j]
                   PROVE  output'[p][j][i] \in since[p]
        BY DEF Within
      <4>1. /\ Len(output[p]) \in Nat /\ DOMAIN output[p] = 1 .. Len(output[p])
            /\ DOMAIN output'[p] = 1 .. Len(output[p]) + 1
            /\ output'[p][j] = IF j = Len(output[p]) + 1 THEN Rotated(Doc(p))
                               ELSE output[p][j]
        BY <3>3
      <4>2. CASE j = Len(output[p]) + 1
        BY <3>2, <4>1, <4>2 DEF Rotated
      <4>3. CASE j # Len(output[p]) + 1
        BY <3>2, <4>1, <4>3 DEF Within
      <4> QED BY <4>2, <4>3
    <3>5. SinceHeld(p)' /\ OutputOpens(p)'
      BY <1>0, <3>1, <3>4 DEF SinceHeld, OutputOpens, keyVars
    <3>6. OnlyMoves(p)
      BY <3>1 DEF OnlyMoves, Typed, ProcsTyped
    <3> QED BY <1>a, <3>1, <3>5, <3>6
  <2> QED BY <2>1, <2>2
<1>5. CASE MergeOpen(p)
  <2> DEFINE f == cmd[p].file
  <2>1. CASE Errs(p)
    BY <1>5, <1>b, <2>1 DEF MergeOpen, Errs, serverVars
  <2>2. CASE ~Errs(p)
    <3>1. /\ at[p] = "open" /\ docs[f] # <<>> /\ cmd[p].op = "merge"
          /\ at' = [at EXCEPT ![p] = "truncate"] /\ handle' = [handle EXCEPT ![p] = f]
          /\ output' = [output EXCEPT ![p] =
                           <<Merged(docs[f][1], cmd[p].secrets[1], cert[p])>>]
          /\ UNCHANGED <<cmd, since, cert, keyVars, fileVars, ownerVars>>
      BY <1>0, <1>5, <2>2 DEF MergeOpen, InStage, serverVars
    <3>2. OnlyMoves(p) /\ at'[p] = "truncate" /\ cmd'[p].op = "merge"
      BY <3>1 DEF OnlyMoves, Typed, ProcsTyped
    <3>3. f \in Files /\ cert[p] \in Keys /\ 1 \in DOMAIN docs[f]
      BY <3>1, MergeOpened
    <3>4. cert[p] \in since[p] /\ Within(docs[f], needs[f] \cup {Foreign})
      BY <1>0, <3>3, ConstantsOK DEF SinceHeld, KeysKept, FileOpens
    <3>5. output'[p] = <<Merged(docs[f][1], cmd[p].secrets[1], cert[p])>>
      BY <3>1 DEF Typed, ProcsTyped
    <3>6. Within(output'[p], needs[f] \cup since[p] \cup {Foreign})
      <4> DEFINE m == Merged(docs[f][1], cmd[p].secrets[1], cert[p])
      <4>1. ASSUME NEW i \in DOMAIN m PROVE m[i] \in needs[f] \cup since[p] \cup {Foreign}
        <5>1. \A k \in DOMAIN docs[f][1] : docs[f][1][k] \in needs[f] \cup {Foreign}
          BY <3>3, <3>4 DEF Within
        <5> QED BY <3>4, <4>1, <5>1 DEF Merged
      <4> HIDE DEF m
      <4>2. DOMAIN <<m>> = {1} /\ <<m>>[1] = m
        OBVIOUS
      <4>3. output'[p] = <<m>>
        BY <3>5 DEF m
      <4> QED BY <4>1, <4>2, <4>3 DEF Within
    <3>7. /\ at'[p] = "truncate" /\ cmd'[p] = cmd[p] /\ since' = since /\ cert' = cert
          /\ UNCHANGED keyVars /\ needs' = needs
      BY <3>1, <3>2 DEF ownerVars
    <3>8. SinceHeld(p)'
      BY <1>0, <3>1, <3>7 DEF SinceHeld, keyVars
    <3>9. OutputOpens(p)'
      BY <3>1, <3>6, <3>7 DEF OutputOpens
    <3> QED BY <1>a, <3>1, <3>2, <3>8, <3>9
  <2> QED BY <2>1, <2>2
<1>6. CASE Truncate(p)
  <2> USE <1>6 DEF Truncate
  <2>1. OnlyMoves(p) /\ at'[p] = "write" /\ at[p] = "truncate"
        /\ UNCHANGED <<cmd, handle, output, since, cert, held, latest, needs>>
    BY DEF OnlyMoves, Typed, ProcsTyped, serverVars, keyVars, ownerVars
  <2>2. ASSUME NEW g \in Files PROVE FileOpens(g)'
    <3>1. docs'[g] \in {docs[g], <<>>}
      BY DEF Typed, FilesTyped, fileVars
    <3> QED BY <2>1, <3>1, EmptyWithin DEF KeysKept, FileOpens
  <2>3. SinceHeld(p)' /\ OutputOpens(p)'
    BY <1>0, <2>1 DEF SinceHeld, OutputOpens
  <2> QED BY <2>1, <2>2, <2>3, MoveKeepsKeys DEF keyVars
<1>7. CASE Write(p)
  <2> DEFINE f == cmd[p].file
  <2>1. /\ at[p] = "write" /\ cmd[p].op = "merge" /\ f \in Files
        /\ UNCHANGED <<cmd, handle, since, cert, held, latest>>
        /\ at' = [at EXCEPT ![p] = "finish"] /\ output' = [output EXCEPT ![p] = <<>>]
        /\ needs' = [needs EXCEPT ![f] = @ \cup since[p]]
        /\ IF handle[p] = Detached THEN UNCHANGED docs
           ELSE docs' = [docs EXCEPT ![f] = output[p]]
    BY <1>0, <1>7, RunningOK DEF Write, InStage, serverVars, keyVars, fileVars
  <2>2. OnlyMoves(p) /\ at'[p] = "finish" /\ cmd'[p].op = "merge"
    BY <2>1 DEF OnlyMoves, Typed, ProcsTyped
  <2>3. ASSUME NEW g \in Files PROVE needs[g] \subseteq needs'[g] /\ FileOpens(g)'
    <3>1. needs'[g] = IF g = f THEN needs[f] \cup since[p] ELSE needs[g]
      BY <2>1 DEF Typed, FilesTyped
    <3>2. needs'[g] \subseteq held'
      <4>1. needs[g] \subseteq held /\ needs[f] \subseteq held
        BY <2>1 DEF KeysKept, FileOpens
      <4>2. since[p] \subseteq held /\ held' = held
        BY <1>0, <2>1 DEF SinceHeld
      <4> QED BY <3>1, <4>1, <4>2
    <3>3. CASE docs'[g] = docs[g]
      <4>1. Within(docs[g], needs'[g] \cup {Foreign})
        BY <3>1, WithinGrows DEF KeysKept, FileOpens
      <4> QED BY <3>1, <3>2, <3>3, <4>1 DEF FileOpens
    <3>4. CASE g = f /\ handle[p] # Detached /\ docs'[g] = output[p]
      <4>1. Within(output[p], needs[f] \cup since[p] \cup {Foreign})
        BY <1>0, <2>1, <3>4 DEF OutputOpens
      <4> QED BY <3>1, <3>2, <3>4, <4>1 DEF FileOpens
    <3> QED BY <2>1, <3>3, <3>4 DEF Typed, FilesTyped
  <2>4. SinceHeld(p)' /\ OutputOpens(p)'
    BY <1>0, <2>1, <2>2 DEF SinceHeld, OutputOpens
  <2> QED BY <2>1, <2>2, <2>3, <2>4, MoveKeepsKeys DEF keyVars
<1> QED BY <1>1, <1>2, <1>3, <1>4, <1>5, <1>6, <1>7, EndsKeepKeys DEF Command

LEMMA StartKeepsKeys ==
    ASSUME Typed, KeysKept, NEW p \in Procs, NEW c \in Commands, Start(p, c)
    PROVE  KeysKept'
<1> USE DEF Start
<1>0. SinceHeld(p) /\ OutputOpens(p) /\ InStage(p) /\ latest \in held
  BY DEF KeysKept, Typed, ServerTypeOK
<1>1. OnlyMoves(p) /\ UNCHANGED <<keyVars, fileVars, ownerVars>>
  BY DEF OnlyMoves, Typed, ProcsTyped, serverVars, procVars
<1>2. SinceHeld(p)' /\ OutputOpens(p)'
  <2>1. CASE UNCHANGED procVars
    BY <1>0, <1>1, <2>1 DEF SinceHeld, OutputOpens, procVars, keyVars
  <2>2. CASE /\ at'[p] \in {"read", "cert"} /\ since'[p] = {latest}
             /\ UNCHANGED <<cert, output>>
    <3>1. output'[p] = <<>> /\ cert'[p] = None
      BY <1>0, <2>2 DEF InStage, SinceHeld
    <3> QED BY <1>0, <1>1, <2>2, <3>1, EmptyWithin DEF SinceHeld, OutputOpens, keyVars
  <2> QED BY <2>1, <2>2 DEF Typed, ProcsTyped
<1> QED BY <1>1, <1>2, FilesStayOpen, MoveKeepsKeys DEF fileVars, ownerVars

\* The keys, and the owner.
LEMMA SurroundingsKeepKeys ==
    ASSUME Typed, KeysKept,
           \/ \E k \in Keys : RegisterKey(k)
           \/ Restart \/ TimePasses \/ UNCHANGED vars
           \/ \E f \in Files, i \in Items : Paste(f, i)
    PROVE  KeysKept'
<1>1. CASE (\E k \in Keys : RegisterKey(k)) \/ Restart
  <2>1. /\ UNCHANGED <<docs, needs, at, cmd, handle, output, cert>>
        /\ CommandsSeeTheLatest /\ latest' \in held'
    BY <1>1 DEF RegisterKey, Restart, RestartWith, Typed, ServerTypeOK, fileVars, ownerVars
  <2>2. ASSUME NEW f \in Files PROVE FileOpens(f)'
    <3>1. needs[f] \subseteq held'
      BY <1>1 DEF RegisterKey, Restart, RestartWith, Needed, KeysKept, FileOpens
    <3> QED BY <2>1, <3>1 DEF KeysKept, FileOpens
  <2>3. ASSUME NEW p \in Procs PROVE SinceHeld(p)' /\ OutputOpens(p)'
    <3>1. at[p] = "idle" \/ held \subseteq held'
      BY <1>1 DEF RegisterKey, Restart, RestartWith, Running
    <3>2. since'[p] = IF at[p] = "idle" THEN {} ELSE since[p] \cup {latest'}
      BY <2>1 DEF CommandsSeeTheLatest
    <3>3. SinceHeld(p)'
      BY <2>1, <3>1, <3>2 DEF KeysKept, SinceHeld
    <3>4. ASSUME at[p] # "idle", cmd[p].op # "merge" PROVE Within(output[p], since'[p])
      BY <3>2, <3>4, WithinGrows DEF KeysKept, OutputOpens
    <3>5. ASSUME at[p] \in {"truncate", "write"}, handle[p] # Detached
          PROVE  Within(output[p], needs[cmd[p].file] \cup since'[p] \cup {Foreign})
      <4>1. Within(output[p], needs[cmd[p].file] \cup since[p] \cup {Foreign})
        BY <3>5 DEF KeysKept, OutputOpens
      <4> QED BY <3>2, <3>5, <4>1, WithinGrows
    <3>6. OutputOpens(p)'
      BY <2>1, <3>4, <3>5 DEF OutputOpens
    <3> QED BY <3>3, <3>6
  <2> QED BY <2>2, <2>3 DEF KeysKept
<1>2. CASE TimePasses \/ UNCHANGED vars
  <2>1. UNCHANGED <<docs, needs, at, cmd, handle, output, cert, since, held, latest>>
    BY <1>2 DEF TimePasses, Tick, Observe, vars, serverVars, keyVars, fileVars, procVars,
       ownerVars
  <2> QED BY <2>1 DEF KeysKept, SinceHeld, OutputOpens, FileOpens
<1>3. ASSUME NEW f \in Files, NEW i \in Items, Paste(f, i) PROVE KeysKept'
  <2>1. UNCHANGED <<needs, at, cmd, handle, output, cert, since, held, latest>>
    BY <1>3 DEF Paste, serverVars, keyVars, procVars
  <2>2. ASSUME NEW g \in Files PROVE FileOpens(g)'
    <3>1. CASE g # f
      BY <1>3, <2>1, <3>1 DEF Paste, Typed, FilesTyped, KeysKept, FileOpens
    <3>2. CASE g = f
      <4> DEFINE d == [x \in {i} |-> Foreign]
      <4>1. /\ docs'[f] = Append(docs[f], d) /\ docs[f] \in Seq(Docs)
            /\ Within(docs[f], needs[f] \cup {Foreign})
        BY <1>3 DEF Paste, Typed, FilesTyped, KeysKept, FileOpens
      <4>2. /\ Len(docs[f]) \in Nat /\ DOMAIN docs[f] = 1 .. Len(docs[f])
            /\ DOMAIN docs'[f] = 1 .. Len(docs[f]) + 1
            /\ \A j \in DOMAIN docs'[f] :
                  docs'[f][j] = IF j = Len(docs[f]) + 1 THEN d ELSE docs[f][j]
        BY <4>1
      <4>3. Within(docs'[f], needs[f] \cup {Foreign})
        BY <4>1, <4>2 DEF Within
      <4> QED BY <2>1, <3>2, <4>3 DEF KeysKept, FileOpens
    <3> QED BY <3>1, <3>2
  <2> QED BY <2>1, <2>2 DEF KeysKept, SinceHeld, OutputOpens
<1> QED BY <1>1, <1>2, <1>3

LEMMA KeysPreserve == Typed /\ Typed' /\ KeysKept /\ [Next]_vars => KeysKept'
<1> SUFFICES ASSUME Typed, Typed', KeysKept, [Next]_vars PROVE KeysKept'
  OBVIOUS
<1> QED BY StartKeepsKeys, CommandKeepsKeys, EndsKeepKeys, SurroundingsKeepKeys DEF Next

(***************************************************************************)
(* Once no command runs, the keys that no file was sealed or re-encrypted  *)
(* with since, or might have been, can go: whatever was left in the files  *)
(* still opens (runCLI, ReEncryptSealedSecret, SealMergingInto;            *)
(* README.md:713).                                                         *)
(***************************************************************************)
THEOREM FilesStayReadable == Spec => []FilesOpen
<1> DEFINE I == ServerInv /\ Typed /\ KeysKept
<1>1. I /\ [Next]_vars => I'
  BY ServerPreserves, TypedPreserves, KeysPreserve
<1>2. Init => I
  BY ServerInitEstablishes, TypedInit, KeysInit
<1>3. I => FilesOpen
  BY KeysKeptImplies
<1> QED BY <1>1, <1>2, <1>3, PTL DEF Spec

-----------------------------------------------------------------------------
(***************************************************************************)
(* How far a validation or a re-encryption has come.                       *)
(***************************************************************************)
Progress(p) ==
    at[p] \in {"request", "finish"} =>
        /\ cmd[p].op \in {"validate", "re-encrypt"} =>
               /\ done[p] <= Len(input[p])
               /\ at[p] = "finish" => done[p] = Len(input[p])
        /\ cmd[p].op = "validate" => \A j \in 1 .. done[p] : Opens(input[p][j])
        /\ cmd[p].op = "re-encrypt" =>
               /\ Len(output[p]) = done[p]
               /\ \A j \in 1 .. done[p] : DOMAIN output[p][j] = DOMAIN input[p][j]

InProgress == \A p \in Procs : Progress(p)

\* A process that is not disturbed, while no key goes.
LEMMA OthersProgress ==
    ASSUME Typed, InProgress, NEW q \in Procs,
           at'[q] = at[q], cmd'[q] = cmd[q], output'[q] = output[q], done'[q] = done[q],
           at[q] \in {"request", "finish"} => input'[q] = input[q] /\ held \subseteq held'
    PROVE  Progress(q)'
<1>1. ASSUME at[q] \in {"request", "finish"} PROVE Progress(q)'
  <2>1. input'[q] = input[q] /\ held \subseteq held' /\ Progress(q)
    BY <1>1 DEF InProgress
  <2>2. \A d : Opens(d) => Opens(d)'
    BY <2>1 DEF Opens
  <2> QED BY <1>1, <2>1, <2>2 DEF Progress
<1>2. at[q] \notin {"request", "finish"} => Progress(q)'
  BY DEF Progress
<1> QED BY <1>1, <1>2

LEMMA EndsProgress ==
    ASSUME Typed, InProgress, NEW p \in Procs, UNCHANGED held,
           \/ Finish(p) \/ FinishShort(p) \/ FinishFails(p)
           \/ Fails(p) \/ Kill(p) \/ WriteFails(p) \/ ValidateRefused(p)
           \/ Errs(p)
    PROVE  InProgress'
<1>1. Ends(p)
  BY DEF Finish, FinishShort, FinishFails, Fails, Kill, WriteFails, ValidateRefused, Errs
<1>2. Closes(p) \/ \E f \in Files : OldOnesAreDetached(p, f)
  <2>1. Finish(p) \/ FinishShort(p) => OutputFile(cmd[p]) \in Files \cup {None}
    BY RunningOK DEF Finish, FinishShort
  <2> QED BY <2>1 DEF Finish, Replaces, FinishShort, FinishFails, Fails, Kill, WriteFails,
            ValidateRefused, Errs
<1>3. ASSUME NEW q \in Procs \ {p} PROVE at[q] # "read" => input'[q] = input[q]
  BY <1>2, ClosesTyped, DetachedTyped
<1>4. ASSUME NEW q \in Procs PROVE Progress(q)'
  <2>1. CASE q = p
    BY <1>1, <2>1, EndsMoves DEF Progress, Typed
  <2>2. CASE q # p
    <3>1. /\ at'[q] = at[q] /\ cmd'[q] = cmd[q] /\ output'[q] = output[q]
          /\ done'[q] = done[q] /\ since'[q] = since[q]
      BY <1>1, <2>2, EndsMoves DEF Typed
    <3> QED BY <1>3, <2>2, <3>1, OthersProgress
  <2> QED BY <2>1, <2>2
<1> QED BY <1>4 DEF InProgress

LEMMA CommandProgress ==
    ASSUME Typed, InProgress, NEW p \in Procs, Command(p)
    PROVE  InProgress'
<1>0. UNCHANGED held
  BY DEF Command, FetchCert, Read, Validate, ValidateRefused, ReEncrypt, AllDone, MergeOpen,
     Truncate, Write, Finish, Admit, serverVars, keyVars
<1>1. CASE Errs(p) \/ ValidateRefused(p) \/ Finish(p)
  BY <1>0, <1>1, EndsProgress
<1>2. CASE ~Errs(p) /\ ~ValidateRefused(p) /\ ~Finish(p)
  <2>1. \A q \in Procs \ {p} :
           /\ at'[q] = at[q] /\ cmd'[q] = cmd[q] /\ output'[q] = output[q]
           /\ done'[q] = done[q] /\ input'[q] = input[q]
    BY <1>2 DEF Command, FetchCert, Read, Validate, ReEncrypt, AllDone, MergeOpen, Truncate,
       Write, NextDocument, Typed, ProcsTyped
  <2>2. \A q \in Procs \ {p} : Progress(q)'
    BY <1>0, <2>1, OthersProgress
  <2>a. InStage(p) /\ Progress(p)
    BY DEF Typed, InProgress
  <2>3. CASE FetchCert(p) \/ MergeOpen(p) \/ Truncate(p) \/ Write(p)
    <3>1. at'[p] \in {"open", "truncate", "write", "finish"} /\ cmd' = cmd
          /\ cmd[p].op \in {"seal", "merge"}
      BY <1>2, <2>3, <2>a DEF FetchCert, MergeOpen, Truncate, Write, InStage, Typed, ProcsTyped
    <3> QED BY <2>2, <3>1 DEF Progress, InProgress
  <2>4. CASE Read(p)
    <3>1. at'[p] = "request" /\ cmd' = cmd /\ output'[p] = <<>> /\ done'[p] = 0
      BY <1>2, <2>4, <2>a DEF Read, InStage, Typed, ProcsTyped
    <3>2. input'[p] \in Seq(Docs)
      <4>1. handle[p] = Detached \/ handle[p] \in Files
        <5>1. at[p] = "read" /\ cmd[p].op \in {"validate", "re-encrypt"} /\ cmd[p] \in Commands
          BY <2>4, <2>a, RunningOK DEF Read, InStage
        <5> QED BY <2>a, <5>1, CommandsOK DEF InStage
      <4> QED BY <1>2, <2>4, <4>1 DEF Read, Typed, FilesTyped, ProcsTyped
    <3>3. Len(input'[p]) \in Nat /\ Len(<<>>) = 0
      BY <3>2, LenProperties
    <3>4. Progress(p)'
      BY <3>1, <3>3 DEF Progress
    <3> QED BY <2>2, <3>4 DEF InProgress
  <2>5. CASE AllDone(p)
    <3>1. at[p] = "request" /\ done[p] = Len(input[p]) /\ at'[p] = "finish"
          /\ UNCHANGED <<cmd, input, output, done>>
      BY <2>5 DEF AllDone, Typed, ProcsTyped
    <3>2. Progress(p)'
      BY <1>0, <2>a, <3>1 DEF Progress, Opens
    <3> QED BY <2>2, <3>2 DEF InProgress
  <2>6. CASE Validate(p)
    <3>1. /\ at[p] = "request" /\ cmd[p].op = "validate" /\ done[p] < Len(input[p])
          /\ Opens(Doc(p)) /\ done'[p] = done[p] + 1 /\ done[p] \in Nat
          /\ UNCHANGED <<at, cmd, input, output>>
      BY <1>2, <2>6 DEF Validate, Requests, NextDocument, Typed, ProcsTyped
    <3>2. \A j \in 1 .. done[p] : Opens(input[p][j])
      BY <2>a, <3>1 DEF Progress
    <3>3. \A j \in 1 .. done[p] + 1 : Opens(input[p][j])
      BY <3>1, <3>2 DEF Doc
    <3>4. Len(input[p]) \in Nat
      BY LenProperties DEF Typed, ProcsTyped
    <3>5. Progress(p)'
      BY <1>0, <3>1, <3>3, <3>4 DEF Progress, Opens
    <3> QED BY <2>2, <3>5 DEF InProgress
  <2>7. CASE ReEncrypt(p)
    <3>1. /\ at[p] = "request" /\ cmd[p].op = "re-encrypt" /\ done[p] < Len(input[p])
          /\ done'[p] = done[p] + 1 /\ done[p] \in Nat
          /\ output[p] \in Seq(Docs) /\ output'[p] = Append(output[p], Rotated(Doc(p)))
          /\ UNCHANGED <<at, cmd, input>>
      BY <1>2, <2>7 DEF ReEncrypt, Requests, NextDocument, Typed, ProcsTyped
    <3>2. /\ Len(output[p]) = done[p]
          /\ \A j \in 1 .. done[p] : DOMAIN output[p][j] = DOMAIN input[p][j]
      BY <2>a, <3>1 DEF Progress
    <3>3. /\ Len(output'[p]) = done[p] + 1
          /\ output'[p][done[p] + 1] = Rotated(Doc(p))
          /\ \A j \in 1 .. done[p] : output'[p][j] = output[p][j]
      BY <3>1, <3>2
    <3>4. DOMAIN Rotated(Doc(p)) = DOMAIN input[p][done[p] + 1]
      BY DEF Rotated, Doc
    <3>5. \A j \in 1 .. done[p] + 1 : DOMAIN output'[p][j] = DOMAIN input[p][j]
      <4> SUFFICES ASSUME NEW j \in 1 .. done[p] + 1
                   PROVE  DOMAIN output'[p][j] = DOMAIN input[p][j]
        OBVIOUS
      <4>1. CASE j = done[p] + 1
        BY <3>3, <3>4, <4>1
      <4>2. CASE j # done[p] + 1
        <5>1. j \in 1 .. done[p]
          BY <3>1, <4>2
        <5> QED BY <3>2, <3>3, <5>1
      <4> QED BY <4>1, <4>2
    <3>6. Len(input[p]) \in Nat
      BY LenProperties DEF Typed, ProcsTyped
    <3>7. Progress(p)'
      BY <3>1, <3>3, <3>5, <3>6 DEF Progress
    <3> QED BY <2>2, <3>7 DEF InProgress
  <2> QED BY <1>2, <2>3, <2>4, <2>5, <2>6, <2>7 DEF Command
<1> QED BY <1>1, <1>2

LEMMA ProgressPreserves == Typed /\ InProgress /\ [Next]_vars => InProgress'
<1> SUFFICES ASSUME Typed, InProgress, [Next]_vars PROVE InProgress'
  OBVIOUS
<1>1. ASSUME NEW p \in Procs, NEW c \in Commands, Start(p, c) PROVE InProgress'
  <2>1. UNCHANGED <<input, output, done, held>>
    BY <1>1 DEF Start, procVars, serverVars, keyVars
  <2>2. at[p] = "idle" /\ at'[p] \in {"idle", "read", "cert"}
        /\ \A q \in Procs \ {p} : at'[q] = at[q] /\ cmd'[q] = cmd[q]
    BY <1>1 DEF Start, procVars, Typed, ProcsTyped
  <2>3. Progress(p)'
    BY <2>2 DEF Progress
  <2> QED BY <2>1, <2>2, <2>3, OthersProgress DEF InProgress
<1>2. ASSUME NEW p \in Procs, Command(p) PROVE InProgress'
  BY <1>2, CommandProgress
<1>3. ASSUME NEW p \in Procs,
             Fails(p) \/ WriteFails(p) \/ FinishFails(p) \/ FinishShort(p) \/ Kill(p)
      PROVE  InProgress'
  <2>1. UNCHANGED held
    BY <1>3 DEF Fails, WriteFails, FinishFails, FinishShort, Kill, serverVars, keyVars
  <2> QED BY <1>3, <2>1, EndsProgress
<1>4. ASSUME \/ \E f \in Files, i \in Items : Paste(f, i)
             \/ \E k \in Keys : RegisterKey(k)
             \/ Restart \/ TimePasses \/ UNCHANGED vars
      PROVE  InProgress'
  <2>1. UNCHANGED <<at, cmd, input, output, done>>
    BY <1>4 DEF Paste, RegisterKey, Restart, TimePasses, vars, procVars
  <2>2. ASSUME NEW p \in Procs, at[p] # "idle" PROVE held \subseteq held'
    BY <1>4, <2>2 DEF Paste, RegisterKey, Restart, RestartWith, Running, TimePasses, Tick,
       Observe, vars, serverVars, keyVars
  <2> QED BY <2>1, <2>2, OthersProgress DEF InProgress
<1> QED BY <1>1, <1>2, <1>3, <1>4 DEF Next

LEMMA ProgressImplies ==
    ASSUME Typed, KeysKept, InProgress
    PROVE  ReEncryptIsFaithful
<1> SUFFICES ASSUME NEW p \in Procs, at[p] = "finish", cmd[p].op = "re-encrypt"
             PROVE  /\ Len(output[p]) = Len(input[p])
                    /\ \A j \in DOMAIN input[p] :
                          /\ DOMAIN output[p][j] = DOMAIN input[p][j]
                          /\ \A i \in DOMAIN output[p][j] : output[p][j][i] \in since[p]
  BY DEF ReEncryptIsFaithful
<1>1. /\ DOMAIN input[p] = 1 .. Len(input[p]) /\ DOMAIN output[p] = 1 .. Len(output[p])
  BY LenProperties DEF Typed, ProcsTyped
<1>2. /\ done[p] = Len(input[p]) /\ Len(output[p]) = done[p]
      /\ \A j \in 1 .. done[p] : DOMAIN output[p][j] = DOMAIN input[p][j]
  BY DEF InProgress, Progress
<1>3. Within(output[p], since[p])
  BY DEF KeysKept, OutputOpens
<1> QED BY <1>1, <1>2, <1>3 DEF Within

(***************************************************************************)
(* What replaces a file after a re-encryption is what was read, re-sealed  *)
(* with keys of the time of the command, for any documents and however     *)
(* often keys are renewed meanwhile (ReEncryptSealedSecret).               *)
(***************************************************************************)
THEOREM ReEncryptionIsFaithful == Spec => []ReEncryptIsFaithful
<1> DEFINE I == ServerInv /\ Typed /\ KeysKept /\ InProgress
<1>1. I /\ [Next]_vars => I'
  BY ServerPreserves, TypedPreserves, KeysPreserve, ProgressPreserves
<1>2. Init => I
  BY ServerInitEstablishes, TypedInit, KeysInit DEF Init, InProgress, Progress
<1>3. I => ReEncryptIsFaithful
  BY ProgressImplies
<1> QED BY <1>1, <1>2, <1>3, PTL DEF Spec

(***************************************************************************)
(* When a validation succeeds, all that it read opens at that moment, for  *)
(* any documents and however their requests fell between renewals          *)
(* (ValidateSealedSecret).                                                 *)
(***************************************************************************)
THEOREM ValidationHolds == Spec => ValidatedOpens
<1> DEFINE I == ServerInv /\ Typed /\ InProgress
           A == \A p \in Procs :
                   at[p] = "finish" /\ cmd[p].op = "validate" /\ at'[p] = "idle" =>
                       \A j \in DOMAIN input[p] : Opens(input[p][j])
<1>1. I /\ [Next]_vars => I'
  BY ServerPreserves, TypedPreserves, ProgressPreserves
<1>2. Init => I
  BY ServerInitEstablishes, TypedInit DEF Init, InProgress, Progress
<1>3. I => A
  <2> SUFFICES ASSUME Typed, InProgress, NEW p \in Procs, at[p] = "finish",
                      cmd[p].op = "validate", NEW j \in DOMAIN input[p]
               PROVE  Opens(input[p][j])
    OBVIOUS
  <2>1. j \in 1 .. Len(input[p])
    BY LenProperties DEF Typed, ProcsTyped
  <2> QED BY <2>1 DEF InProgress, Progress
<1> QED BY <1>1, <1>2, <1>3, PTL DEF Spec, ValidatedOpens

-----------------------------------------------------------------------------
(***************************************************************************)
(* What is in the files.  A command that is alone with the file it will    *)
(* write has all that the file should hold in hand.                        *)
(***************************************************************************)
Alone(p) ==
    clean[p] /\ at[p] # "idle" /\ Target(cmd[p]) # None =>
        \A q \in Procs \ {p} : at[q] # "idle" => Target(cmd[q]) # Target(cmd[p])

InPlace(p) == cmd[p].op = "re-encrypt" /\ OutputFile(cmd[p]) = cmd[p].file

Careful(p) ==
    /\ clean[p] /\ at[p] \in {"truncate", "write"} =>
           /\ handle[p] = cmd[p].file
           /\ meant[cmd[p].file] \cup cmd[p].secrets[1] \subseteq Holds(output[p])
    /\ clean[p] /\ at[p] = "read" /\ InPlace(p) => handle[p] = cmd[p].file
    /\ clean[p] /\ at[p] \in {"request", "finish"} /\ InPlace(p) =>
           meant[cmd[p].file] \subseteq Holds(input[p])
    /\ at[p] = "finish" /\ cmd[p].op = "seal" =>
           Holds(output[p]) = UNION {cmd[p].secrets[j] : j \in DOMAIN cmd[p].secrets}

Kept(f) == Writing(f) \/ meant[f] \subseteq Holds(docs[f])

AllKept == (\A p \in Procs : Alone(p) /\ Careful(p)) /\ \A f \in Files : Kept(f)

\* What a clean command will write is its target, and its alone.
LEMMA CleanTargets ==
    ASSUME Typed, NEW p \in Procs, at[p] # "idle"
    PROVE  /\ Target(cmd[p]) \in Files \cup {None}
           /\ at[p] \in {"open", "truncate", "write"} => Target(cmd[p]) = cmd[p].file
           /\ cmd[p].op = "merge" => Target(cmd[p]) = cmd[p].file
           /\ cmd[p].op # "merge" => Target(cmd[p]) = OutputFile(cmd[p])
           /\ InPlace(p) => Target(cmd[p]) = cmd[p].file /\ cmd[p].file \in Files
<1>1. at[p] \in {"open", "truncate", "write"} => cmd[p].op = "merge"
  BY DEF Typed, InStage
<1>2. InPlace(p) => cmd[p].file \in Files
  BY RunningOK, CommandsOK DEF InPlace
<1> QED BY <1>1, <1>2, RunningOK DEF Target, InPlace

LEMMA NobodyElseWrites ==
    ASSUME Typed, AllKept, NEW p \in Procs, clean[p], at[p] \notin {"idle", "write"},
           Target(cmd[p]) \in Files
    PROVE  meant[Target(cmd[p])] \subseteq Holds(docs[Target(cmd[p])])
<1> DEFINE f == Target(cmd[p])
<1>1. ASSUME NEW q \in Procs, at[q] = "write", cmd[q].file = f PROVE FALSE
  <2>1. Target(cmd[q]) = f /\ q # p
    BY <1>1, CleanTargets
  <2> QED BY <1>1, <2>1, ConstantsOK DEF AllKept, Alone
<1>2. ~Writing(f)
  BY <1>1 DEF Writing
<1> QED BY <1>2 DEF AllKept, Kept

\* A step of p touches no file but its target, and nobody else but who has it open.
Touches(p) ==
    /\ at[p] # "idle" /\ (cmd'[p] = cmd[p] \/ at'[p] = "idle") /\ (clean'[p] => clean[p])
    /\ \A q \in Procs \ {p} :
          /\ at'[q] = at[q] /\ cmd'[q] = cmd[q] /\ output'[q] = output[q]
          /\ clean'[q] = clean[q]
          /\ handle'[q] = handle[q] \/ handle[q] = Target(cmd[p])
          /\ at[q] # "read" => input'[q] = input[q]
    /\ \A f \in Files : f # Target(cmd[p]) => docs'[f] = docs[f] /\ meant'[f] = meant[f]

LEMMA TouchesOthers ==
    ASSUME Typed, AllKept, NEW p \in Procs, Touches(p), NEW q \in Procs, q # p
    PROVE  Careful(q)'
<1>0. /\ at'[q] = at[q] /\ cmd'[q] = cmd[q] /\ output'[q] = output[q] /\ clean'[q] = clean[q]
      /\ handle'[q] = handle[q] \/ handle[q] = Target(cmd[p])
      /\ at[q] # "read" => input'[q] = input[q]
      /\ Careful(q)
  BY DEF Touches, AllKept
<1>1. ASSUME clean[q], at[q] # "idle", Target(cmd[q]) \in Files
      PROVE  Target(cmd[q]) # Target(cmd[p]) /\ meant'[Target(cmd[q])] = meant[Target(cmd[q])]
  <2>1. Target(cmd[q]) # Target(cmd[p])
    BY <1>1, ConstantsOK DEF AllKept, Alone, Touches
  <2> QED BY <1>1, <2>1 DEF Touches
<1>2. ASSUME clean[q], at[q] \in {"truncate", "write"}
      PROVE  /\ handle'[q] = cmd[q].file
             /\ meant'[cmd[q].file] \cup cmd[q].secrets[1] \subseteq Holds(output[q])
  <2>1. Target(cmd[q]) = cmd[q].file /\ cmd[q].file \in Files
    BY <1>2, CleanTargets, RunningOK
  <2> QED BY <1>0, <1>1, <1>2, <2>1 DEF Careful
<1>3. ASSUME clean[q], at[q] \in {"read", "request", "finish"}, InPlace(q)
      PROVE  /\ at[q] = "read" => handle'[q] = cmd[q].file
             /\ at[q] # "read" => meant'[cmd[q].file] \subseteq Holds(input'[q])
  <2>1. Target(cmd[q]) = cmd[q].file /\ cmd[q].file \in Files
    BY <1>3, CleanTargets
  <2> QED BY <1>0, <1>1, <1>3, <2>1 DEF Careful
<1>4. InPlace(q)' <=> InPlace(q)
  BY <1>0 DEF InPlace
<1> QED BY <1>0, <1>2, <1>3, <1>4 DEF Careful

LEMMA TouchesKeeps ==
    ASSUME Typed, AllKept, NEW p \in Procs, Touches(p), Careful(p)',
           \A f \in Files : f = Target(cmd[p]) => Kept(f)'
    PROVE  AllKept'
<1>1. ASSUME NEW q \in Procs PROVE Alone(q)'
  <2> SUFFICES ASSUME clean'[q], at'[q] # "idle", Target(cmd'[q]) # None,
                      NEW r \in Procs \ {q}, at'[r] # "idle"
               PROVE  Target(cmd'[r]) # Target(cmd'[q])
    BY DEF Alone
  <2>1. /\ clean[q] /\ at[q] # "idle" /\ cmd'[q] = cmd[q]
        /\ at[r] # "idle" /\ cmd'[r] = cmd[r]
    BY DEF Touches
  <2> QED BY <2>1 DEF AllKept, Alone
<1>2. ASSUME NEW q \in Procs PROVE Careful(q)'
  BY TouchesOthers
<1>3. ASSUME NEW f \in Files PROVE Kept(f)'
  <2>1. CASE f = Target(cmd[p])
    BY <2>1
  <2>2. CASE f # Target(cmd[p])
    <3>1. Writing(f) => Writing(f)'
      <4> SUFFICES ASSUME NEW q \in Procs, at[q] = "write", cmd[q].file = f PROVE Writing(f)'
        BY DEF Writing
      <4>1. q # p
        BY <2>2, CleanTargets
      <4> QED BY <4>1 DEF Touches, Writing
    <3> QED BY <2>2, <3>1 DEF Touches, AllKept, Kept
  <2> QED BY <2>1, <2>2
<1> QED BY <1>1, <1>2, <1>3 DEF AllKept

\* A step that leaves the files alone, and is not that of a writer.
LEMMA QuietKeeps ==
    ASSUME Typed, AllKept, NEW p \in Procs, Touches(p), Careful(p)',
           UNCHANGED <<docs, meant>>, at[p] # "write"
    PROVE  AllKept'
<1> SUFFICES ASSUME NEW f \in Files PROVE Kept(f)'
  BY TouchesKeeps
<1>1. Writing(f) => Writing(f)'
  BY DEF Writing, Touches
<1> QED BY <1>1 DEF AllKept, Kept

LEMMA EndedIsCareful ==
    ASSUME Typed, NEW p \in Procs, Ends(p)
    PROVE  Careful(p)'
<1>1. clean'[p] = FALSE /\ at'[p] = "idle"
  BY EndsMoves DEF Typed
<1> QED BY <1>1 DEF Careful

LEMMA HoldsMember ==
    ASSUME NEW s, NEW x
    PROVE  x \in Holds(s) <=> \E j \in DOMAIN s : x \in DOMAIN s[j]
BY DEF Holds

\* What a replacement leaves in the file.
LEMMA FinishKeeps ==
    ASSUME Typed, InProgress, AllKept, NEW p \in Procs, at[p] = "finish", NEW f \in Files,
           f = OutputFile(cmd[p]), Owns(p, f), docs'[f] = output[p]
    PROVE  meant'[f] \subseteq Holds(docs'[f])
<1>0. cmd[p] \in Commands /\ cmd[p].op \in {"seal", "re-encrypt"}
  BY RunningOK, CommandsOK, ConstantsOK DEF Ops
<1>1. CASE ~clean[p]
  BY <1>1 DEF Owns, Typed, FilesTyped
<1>2. CASE clean[p] /\ cmd[p].op = "seal"
  <2>1. meant'[f] = UNION {cmd[p].secrets[j] : j \in DOMAIN cmd[p].secrets}
    BY <1>2 DEF Owns, Typed, FilesTyped
  <2> QED BY <1>2, <2>1 DEF AllKept, Careful
<1>3. CASE clean[p] /\ cmd[p].op = "re-encrypt"
  <2>1. Holds(input[p]) \subseteq Holds(output[p])
    <3>1. /\ DOMAIN input[p] = 1 .. Len(input[p]) /\ DOMAIN output[p] = 1 .. Len(output[p])
      BY LenProperties DEF Typed, ProcsTyped
    <3>2. /\ done[p] = Len(input[p]) /\ Len(output[p]) = done[p]
          /\ \A j \in 1 .. done[p] : DOMAIN output[p][j] = DOMAIN input[p][j]
      BY <1>3 DEF InProgress, Progress
    <3> QED BY <3>1, <3>2, HoldsMember
  <2>2. CASE cmd[p].file = f
    <3>1. InPlace(p) /\ meant'[f] = meant[f]
      BY <1>3, <2>2 DEF InPlace, Owns, Typed, FilesTyped
    <3> QED BY <1>3, <2>1, <2>2, <3>1 DEF AllKept, Careful
  <2>3. CASE cmd[p].file # f
    <3>1. meant'[f] = Holds(input[p])
      BY <1>3, <2>3 DEF Owns, Typed, FilesTyped
    <3> QED BY <2>1, <3>1
  <2> QED BY <2>2, <2>3
<1> QED BY <1>0, <1>1, <1>2, <1>3

LEMMA EndsKeep ==
    ASSUME Typed, InProgress, AllKept, NEW p \in Procs,
           \/ Finish(p) \/ FinishShort(p) \/ FinishFails(p)
           \/ Fails(p) \/ Kill(p) \/ WriteFails(p) \/ ValidateRefused(p)
           \/ (at[p] \notin {"idle", "write"} /\ Errs(p))
    PROVE  AllKept'
<1> DEFINE f == OutputFile(cmd[p])
<1>a. ASSUME Ends(p), Closes(p), at[p] # "idle",
             \A g \in Files : g # Target(cmd[p]) => docs'[g] = docs[g] /\ meant'[g] = meant[g]
      PROVE  Touches(p) /\ Careful(p)'
  <2>1. /\ at'[p] = "idle" /\ clean'[p] = FALSE
        /\ \A q \in Procs \ {p} :
              /\ at'[q] = at[q] /\ cmd'[q] = cmd[q] /\ output'[q] = output[q]
              /\ clean'[q] = clean[q]
    BY <1>a, EndsMoves DEF Typed
  <2>2. \A q \in Procs \ {p} : handle'[q] = handle[q] /\ input'[q] = input[q]
    BY <1>a, ClosesTyped
  <2>3. Touches(p)
    BY <1>a, <2>1, <2>2 DEF Touches
  <2>4. Careful(p)'
    BY <1>a, EndedIsCareful
  <2> QED BY <2>3, <2>4
<1>b. ASSUME f \in Files, at[p] = "finish", Ends(p), OldOnesAreDetached(p, f),
             \A g \in Files : g # f => docs'[g] = docs[g] /\ meant'[g] = meant[g],
             meant'[f] \subseteq Holds(docs'[f])
      PROVE  AllKept'
  <2>1. Target(cmd[p]) = f
    BY <1>b, CleanTargets, RunningOK, ConstantsOK
  <2>2. Touches(p) /\ Careful(p)'
    <3>1. \A q \in Procs \ {p} :
             /\ handle'[q] = handle[q] \/ handle[q] = f
             /\ at[q] # "read" => input'[q] = input[q]
      BY <1>b, DetachedTyped
    <3>2. Ends(p) /\ at[p] # "idle"
      BY <1>b
    <3> HIDE DEF f
    <3> QED BY <1>b, <2>1, <3>1, <3>2, EndsMoves, EndedIsCareful DEF Touches, Typed
  <2> QED BY <1>b, <2>1, <2>2, TouchesKeeps DEF Kept
<1>c. ASSUME Ends(p), Closes(p),
             at[p] \notin {"idle", "write"}, UNCHANGED <<docs, meant>>
      PROVE  AllKept'
  BY <1>a, <1>c, QuietKeeps
<1>1. CASE Finish(p) /\ f # None
  <2>1. f \in Files /\ at[p] = "finish"
    BY <1>1, RunningOK DEF Finish
  <2>2. docs'[f] = output[p] /\ \A g \in Files : g # f => docs'[g] = docs[g] /\ meant'[g] = meant[g]
    BY <1>1, <2>1 DEF Finish, Replaces, Owns, Typed, FilesTyped
  <2> QED BY <1>1, <1>b, <2>1, <2>2, FinishKeeps DEF Finish, Replaces
<1>2. CASE Finish(p) /\ f = None
  BY <1>2, <1>c DEF Finish, fileVars, ownerVars
<1>3. CASE FinishShort(p)
  <2>1. f \in Files /\ at[p] = "finish" /\ Ends(p) /\ OldOnesAreDetached(p, f)
    BY <1>3, RunningOK DEF FinishShort
  <2>2. \E s : /\ docs' = [docs EXCEPT ![f] = s]
               /\ meant' = [meant EXCEPT ![f] = Holds(s)]
    BY <1>3 DEF FinishShort
  <2>3. /\ docs \in [Files -> Seq(Docs)] /\ meant \in [Files -> SUBSET Items]
    BY DEF Typed, FilesTyped
  <2>4. meant'[f] = Holds(docs'[f])
        /\ \A g \in Files : g # f => docs'[g] = docs[g] /\ meant'[g] = meant[g]
    BY <2>1, <2>2, <2>3
  <2> QED BY <1>b, <2>1, <2>4
<1>4. CASE FinishFails(p) \/ Fails(p)
  BY <1>4, <1>c DEF FinishFails, Fails, Errs, fileVars, ownerVars
<1>5. CASE ValidateRefused(p) \/ (at[p] \notin {"idle", "write"} /\ Errs(p))
  BY <1>5, <1>c DEF ValidateRefused, Requests, Errs, fileVars, ownerVars
<1>6. CASE Kill(p) /\ at[p] # "write"
  BY <1>6, <1>c DEF Kill, fileVars
<1>7. CASE (Kill(p) /\ at[p] = "write") \/ WriteFails(p)
  <2> DEFINE g == cmd[p].file
  <2>1. at[p] = "write" /\ g \in Files /\ Target(cmd[p]) = g
    BY <1>7, RunningOK, CleanTargets DEF WriteFails
  <2>2. /\ meant' = [meant EXCEPT ![g] = Holds(docs'[g])]
        /\ docs' = docs \/ docs' = [docs EXCEPT ![g] = <<>>]
        /\ Closes(p) /\ Ends(p)
    BY <1>7 DEF Kill, WriteFails, fileVars
  <2>3. /\ meant'[g] = Holds(docs'[g])
        /\ \A h \in Files : h # g => docs'[h] = docs[h] /\ meant'[h] = meant[h]
    BY <2>1, <2>2 DEF Typed, FilesTyped
  <2>4. Touches(p) /\ Careful(p)'
    BY <1>a, <2>1, <2>2, <2>3
  <2> QED BY <2>1, <2>3, <2>4, TouchesKeeps DEF Kept
<1>8. Finish(p) => AllKept'
  BY <1>1, <1>2
<1>9. Kill(p) => AllKept'
  BY <1>6, <1>7
<1>10. WriteFails(p) => AllKept'
  BY <1>7
<1> QED BY <1>3, <1>4, <1>5, <1>8, <1>9, <1>10

\* The file of a merge, and what is merged into it.
LEMMA MergeKeeps ==
    ASSUME Typed, AllKept, NEW p \in Procs, MergeOpen(p), ~Errs(p)
    PROVE  AllKept'
<1> DEFINE f == cmd[p].file
           d == Merged(docs[f][1], cmd[p].secrets[1], cert[p])
<1>1. /\ at[p] = "open" /\ docs[f] # <<>>
      /\ at' = [at EXCEPT ![p] = "truncate"] /\ handle' = [handle EXCEPT ![p] = f]
      /\ output' = [output EXCEPT ![p] = <<d>>]
      /\ UNCHANGED <<cmd, input, docs, meant>>
  BY DEF MergeOpen, fileVars, ownerVars
<1>2. /\ f \in Files /\ cert[p] \in Keys /\ docs[f][1] \in Docs
      /\ cmd[p].secrets[1] \in SUBSET Items /\ Target(cmd[p]) = f
  BY <1>1, MergeOpened, CleanTargets
<1>3. DOMAIN d = DOMAIN docs[f][1] \cup cmd[p].secrets[1]
  BY <1>2, MergedTyped
<1> HIDE DEF d
<1>4. /\ clean'[p] => clean[p] /\ Len(docs[f]) = 1
      /\ \A q \in Procs \ {p} : clean'[q] = clean[q]
  BY <1>1 DEF MergeOpen, Typed, ProcsTyped
<1>5. Touches(p)
  BY <1>1, <1>4 DEF Touches, Typed, ProcsTyped
<1>6. at'[p] = "truncate" /\ handle'[p] = f /\ output'[p] = <<d>>
  BY <1>1 DEF Typed, ProcsTyped
<1>7. ASSUME clean'[p] PROVE meant[f] \cup cmd[p].secrets[1] \subseteq Holds(output'[p])
  <2>1. meant[f] \subseteq Holds(docs[f])
    BY <1>1, <1>2, <1>4, <1>7, NobodyElseWrites
  <2>2. DOMAIN docs[f] = {1}
    <3>1. docs[f] \in Seq(Docs) /\ Len(docs[f]) = 1
      BY <1>2, <1>4, <1>7 DEF Typed, FilesTyped
    <3> QED BY <3>1, LenProperties
  <2>3. Holds(docs[f]) = DOMAIN docs[f][1]
    BY <2>2 DEF Holds
  <2>4. Holds(output'[p]) = DOMAIN d
    BY <1>6 DEF Holds
  <2> QED BY <1>3, <2>1, <2>3, <2>4
<1>8. Careful(p)'
  BY <1>1, <1>6, <1>7 DEF Careful
<1> QED BY <1>1, <1>5, <1>8, QuietKeeps

\* What is sealed holds the items of the Secrets.
LEMMA SealedHolds ==
    ASSUME NEW s, NEW t, DOMAIN t = DOMAIN s, \A j \in DOMAIN s : DOMAIN t[j] = s[j]
    PROVE  Holds(t) = UNION {s[j] : j \in DOMAIN s}
BY DEF Holds

LEMMA WriteKeeps ==
    ASSUME Typed, AllKept, NEW p \in Procs, Write(p)
    PROVE  AllKept'
<1> DEFINE f == cmd[p].file
<1>1. at[p] = "write" /\ f \in Files /\ Target(cmd[p]) = f /\ cmd[p].op = "merge"
  BY RunningOK, CleanTargets DEF Write, Typed, InStage
<1>2. /\ at'[p] = "finish" /\ UNCHANGED <<cmd, handle, input, clean>>
      /\ \A q \in Procs \ {p} : at'[q] = at[q] /\ output'[q] = output[q]
      /\ IF handle[p] = Detached THEN UNCHANGED docs
         ELSE docs' = [docs EXCEPT ![f] = output[p]]
      /\ meant' = [meant EXCEPT ![f] = IF clean[p] THEN @ \cup cmd[p].secrets[1]
                                                   ELSE Holds(docs'[f])]
  BY DEF Write, fileVars, Typed, ProcsTyped
<1>3. \A g \in Files : g # f => docs'[g] = docs[g] /\ meant'[g] = meant[g]
  BY <1>1, <1>2 DEF Typed, FilesTyped
<1>4. Touches(p)
  BY <1>1, <1>2, <1>3 DEF Touches
<1>5. Careful(p)'
  BY <1>1, <1>2 DEF Careful, InPlace
<1>6. meant'[f] \subseteq Holds(docs'[f])
  <2>1. CASE ~clean[p]
    BY <1>1, <1>2, <2>1 DEF Typed, FilesTyped
  <2>2. CASE clean[p]
    <3>1. handle[p] = f /\ meant[f] \cup cmd[p].secrets[1] \subseteq Holds(output[p])
      BY <1>1, <2>2 DEF AllKept, Careful
    <3>2. meant'[f] = meant[f] \cup cmd[p].secrets[1]
      BY <1>1, <1>2, <2>2 DEF Typed, FilesTyped
    <3>3. docs'[f] = output[p]
      BY <1>1, <1>2, <3>1, ConstantsOK DEF Typed, FilesTyped
    <3> QED BY <3>1, <3>2, <3>3
  <2> QED BY <2>1, <2>2
<1> QED BY <1>1, <1>4, <1>5, <1>6, TouchesKeeps DEF Kept

LEMMA CommandKeeps ==
    ASSUME Typed, InProgress, AllKept, NEW p \in Procs, Command(p)
    PROVE  AllKept'
<1>0. InStage(p) /\ Careful(p)
  BY DEF Typed, AllKept
<1>1. CASE Finish(p) \/ ValidateRefused(p)
  BY <1>1, EndsKeep
<1>2. CASE Errs(p) /\ ~Finish(p) /\ ~Write(p) /\ ~Truncate(p)
  <2>1. at[p] \notin {"idle", "write"}
    BY <1>2 DEF Command, FetchCert, Read, Validate, ValidateRefused, ReEncrypt, AllDone,
       MergeOpen, Requests
  <2> QED BY <1>2, <2>1, EndsKeep
<1>3. CASE FetchCert(p)
  <2> USE <1>3 DEF FetchCert
  <2>1. /\ at[p] = "cert" /\ at'[p] \in {"open", "finish"} /\ cmd[p] \in Commands
        /\ UNCHANGED <<docs, meant, cmd>> /\ cmd[p].op \in {"seal", "merge"}
        /\ \A q \in Procs \ {p} : at'[q] = at[q] /\ output'[q] = output[q]
        /\ UNCHANGED <<clean, handle, input>>
    BY <1>0, RunningOK DEF InStage, Typed, ProcsTyped, fileVars, ownerVars
  <2>2. Touches(p)
    BY <2>1 DEF Touches
  <2>3. ASSUME cmd[p].op = "seal"
        PROVE  Holds(output'[p]) = UNION {cmd[p].secrets[j] : j \in DOMAIN cmd[p].secrets}
    <3>1. output'[p] = [j \in DOMAIN cmd[p].secrets |-> [i \in cmd[p].secrets[j] |-> latest]]
      BY <2>3 DEF Typed, ProcsTyped
    <3>2. /\ DOMAIN output'[p] = DOMAIN cmd[p].secrets
          /\ \A j \in DOMAIN cmd[p].secrets : DOMAIN output'[p][j] = cmd[p].secrets[j]
      BY <3>1
    <3> QED BY <3>2, SealedHolds
  <2>4. Careful(p)'
    BY <2>1, <2>3 DEF Careful, InPlace
  <2> QED BY <2>1, <2>2, <2>4, QuietKeeps
<1>4. CASE Read(p) /\ ~Errs(p)
  <2>1. /\ at[p] = "read" /\ at'[p] = "request" /\ UNCHANGED <<docs, meant, cmd>>
        /\ \A q \in Procs \ {p} : at'[q] = at[q] /\ input'[q] = input[q]
        /\ UNCHANGED <<clean, handle, output>>
        /\ handle[p] # Detached => input' = [input EXCEPT ![p] = docs[handle[p]]]
    BY <1>4 DEF Read, Typed, ProcsTyped, fileVars, ownerVars
  <2>2. Touches(p)
    BY <2>1 DEF Touches
  <2>3. ASSUME clean[p], InPlace(p) PROVE meant[cmd[p].file] \subseteq Holds(input'[p])
    <3>1. cmd[p].file \in Files /\ Target(cmd[p]) = cmd[p].file
      BY <2>1, <2>3, CleanTargets
    <3>2. handle[p] = cmd[p].file /\ handle[p] # Detached
      BY <1>0, <2>1, <2>3, <3>1, ConstantsOK DEF Careful
    <3>3. input'[p] = docs[cmd[p].file]
      BY <2>1, <3>2 DEF Typed, ProcsTyped
    <3> QED BY <2>1, <2>3, <3>1, <3>3, NobodyElseWrites
  <2>4. Careful(p)'
    BY <2>1, <2>3 DEF Careful, InPlace
  <2> QED BY <2>1, <2>2, <2>4, QuietKeeps
<1>5. CASE (Validate(p) \/ ReEncrypt(p) \/ AllDone(p)) /\ ~Errs(p)
  <2>1. /\ at[p] = "request" /\ at'[p] \in {"request", "finish"}
        /\ cmd[p].op \in {"validate", "re-encrypt"}
        /\ UNCHANGED <<docs, meant, cmd, input, clean, handle>>
        /\ \A q \in Procs \ {p} : at'[q] = at[q] /\ output'[q] = output[q]
    BY <1>0, <1>5 DEF Validate, ReEncrypt, AllDone, NextDocument, Requests, InStage, Typed,
       ProcsTyped, fileVars, ownerVars
  <2>2. Touches(p)
    BY <2>1 DEF Touches
  <2>3. Careful(p)'
    BY <1>0, <2>1 DEF Careful, InPlace
  <2> QED BY <2>1, <2>2, <2>3, QuietKeeps
<1>6. CASE MergeOpen(p) /\ ~Errs(p)
  BY <1>6, MergeKeeps
<1>7. CASE Truncate(p)
  <2> DEFINE f == cmd[p].file
  <2>1. at[p] = "truncate" /\ f \in Files /\ Target(cmd[p]) = f
    BY <1>7, RunningOK, CleanTargets DEF Truncate
  <2>2. /\ at'[p] = "write" /\ UNCHANGED <<cmd, handle, input, output, clean, meant>>
        /\ \A q \in Procs \ {p} : at'[q] = at[q]
        /\ docs' = docs \/ docs' = [docs EXCEPT ![f] = <<>>]
    BY <1>0, <1>7 DEF Truncate, InStage, Typed, ProcsTyped, fileVars, ownerVars
  <2>3. Touches(p)
    BY <2>1, <2>2 DEF Touches, Typed, FilesTyped
  <2>4. Careful(p)'
    BY <1>0, <2>1, <2>2 DEF Careful
  <2>5. \A g \in Files : g = f => Writing(g)'
    BY <2>2 DEF Writing
  <2> QED BY <2>1, <2>3, <2>4, <2>5, TouchesKeeps DEF Kept
<1>8. CASE Write(p)
  BY <1>8, WriteKeeps
<1> QED BY <1>1, <1>2, <1>3, <1>4, <1>5, <1>6, <1>7, <1>8 DEF Command

LEMMA StartKeeps ==
    ASSUME Typed, AllKept, NEW p \in Procs, NEW c \in Commands, Start(p, c)
    PROVE  AllKept'
<1> USE DEF Start
<1>0. at[p] = "idle" /\ UNCHANGED <<docs, meant, input, output>>
  BY DEF fileVars, ownerVars, procVars
<1>1. CASE UNCHANGED procVars
  <2> HIDE DEF Start
  <2>1. UNCHANGED <<docs, meant, at, cmd, handle, input, output, clean>>
    BY <1>0, <1>1 DEF procVars
  <2>2. ASSUME NEW q \in Procs PROVE Alone(q)'
    BY <2>1 DEF AllKept, Alone
  <2>3. ASSUME NEW q \in Procs PROVE Careful(q)'
    <3>1. InPlace(q)' <=> InPlace(q)
      BY <2>1 DEF InPlace
    <3> QED BY <2>1, <3>1 DEF AllKept, Careful
  <2>4. ASSUME NEW f \in Files PROVE Kept(f)'
    BY <2>1 DEF AllKept, Kept, Writing
  <2> QED BY <2>2, <2>3, <2>4 DEF AllKept
<1>2. CASE ~UNCHANGED procVars
  <2>1. /\ at'[p] \in {"read", "cert"} /\ cmd'[p] = c
        /\ at'[p] = "read" => handle'[p] = c.file
        /\ \A q \in Procs \ {p} : at'[q] = at[q] /\ cmd'[q] = cmd[q] /\ handle'[q] = handle[q]
    BY <1>2 DEF Typed, ProcsTyped
  <2>2. /\ clean'[p] => Rivals(p, c) = {}
        /\ \A q \in Procs \ {p} : clean'[q] => clean[q] /\ q \notin Rivals(p, c)
    BY <1>2
  <2> HIDE DEF Start
  <2>3. ASSUME NEW q \in Procs PROVE Alone(q)'
    <3> SUFFICES ASSUME clean'[q], at'[q] # "idle", Target(cmd'[q]) # None,
                        NEW r \in Procs \ {q}, at'[r] # "idle"
                 PROVE  Target(cmd'[r]) # Target(cmd'[q])
      BY DEF Alone
    <3>1. CASE q = p
      BY <2>1, <2>2, <3>1 DEF Rivals, Running
    <3>2. CASE r = p
      BY <2>1, <2>2, <3>2 DEF Rivals, Running
    <3>3. CASE q # p /\ r # p
      BY <2>1, <2>2, <3>3 DEF AllKept, Alone
    <3> QED BY <3>1, <3>2, <3>3
  <2>4. ASSUME NEW q \in Procs PROVE Careful(q)'
    <3>1. CASE q = p
      BY <2>1, <3>1 DEF Careful
    <3>2. CASE q # p
      <4>1. Careful(q) /\ (clean'[q] => clean[q])
        BY <2>2, <3>2 DEF AllKept
      <4> QED BY <1>0, <2>1, <3>2, <4>1 DEF Careful, InPlace
    <3> QED BY <3>1, <3>2
  <2>5. ASSUME NEW f \in Files PROVE Kept(f)'
    <3>1. Writing(f) => Writing(f)'
      BY <1>0, <2>1 DEF Writing
    <3> QED BY <1>0, <3>1 DEF AllKept, Kept
  <2> QED BY <2>3, <2>4, <2>5 DEF AllKept
<1> QED BY <1>1, <1>2

LEMMA SurroundingsKeep ==
    ASSUME Typed, AllKept,
           \/ \E k \in Keys : RegisterKey(k)
           \/ Restart \/ TimePasses \/ UNCHANGED vars
           \/ \E f \in Files, i \in Items : Paste(f, i)
    PROVE  AllKept'
<1>1. CASE \/ \E k \in Keys : RegisterKey(k)
           \/ Restart \/ TimePasses \/ UNCHANGED vars
  <2>1. UNCHANGED <<at, cmd, handle, input, output, clean, docs, meant>>
    BY <1>1 DEF RegisterKey, Restart, TimePasses, vars, procVars, fileVars, ownerVars
  <2> QED BY <2>1 DEF AllKept, Alone, Careful, InPlace, Kept, Writing
<1>2. ASSUME NEW f \in Files, NEW i \in Items, Paste(f, i) PROVE AllKept'
  <2>1. /\ UNCHANGED <<at, cmd, handle, input, output, clean>>
        /\ \A q \in Procs : at[q] = "idle"
    BY <1>2 DEF Paste, Running, procVars
  <2>2. \A q \in Procs : Alone(q)' /\ Careful(q)'
    BY <2>1 DEF Alone, Careful
  <2>3. ASSUME NEW g \in Files PROVE Kept(g)'
    <3>1. meant[g] \subseteq Holds(docs[g])
      BY <2>1 DEF AllKept, Kept, Writing
    <3>2. CASE g # f
      BY <1>2, <3>1, <3>2 DEF Paste, Typed, FilesTyped, Kept
    <3>3. CASE g = f
      <4> DEFINE d == [x \in {i} |-> Foreign]
      <4>1. /\ docs[f] \in Seq(Docs) /\ docs'[f] = Append(docs[f], d)
            /\ meant'[f] = meant[f] \cup {i} /\ DOMAIN d = {i}
        BY <1>2 DEF Paste, Typed, FilesTyped
      <4> HIDE DEF d
      <4>2. /\ DOMAIN docs[f] = 1 .. Len(docs[f]) /\ Len(docs[f]) \in Nat
            /\ DOMAIN docs'[f] = 1 .. Len(docs[f]) + 1
            /\ docs'[f][Len(docs[f]) + 1] = d
            /\ \A j \in DOMAIN docs[f] : docs'[f][j] = docs[f][j]
        BY <4>1
      <4>3. Holds(docs[f]) \cup {i} \subseteq Holds(docs'[f])
        <5> SUFFICES ASSUME NEW x \in Holds(docs[f]) \cup {i} PROVE x \in Holds(docs'[f])
          OBVIOUS
        <5>1. CASE x = i
          <6>1. Len(docs[f]) + 1 \in DOMAIN docs'[f]
            BY <4>2
          <6> QED BY <4>1, <4>2, <5>1, <6>1, HoldsMember
        <5>2. CASE x \in Holds(docs[f])
          <6>1. PICK j \in DOMAIN docs[f] : x \in DOMAIN docs[f][j]
            BY <5>2, HoldsMember
          <6>2. j \in DOMAIN docs'[f] /\ docs'[f][j] = docs[f][j]
            BY <4>2
          <6> QED BY <6>1, <6>2, HoldsMember
        <5> QED BY <5>1, <5>2
      <4> QED BY <3>1, <3>3, <4>1, <4>3 DEF Kept
    <3> QED BY <3>2, <3>3
  <2> QED BY <2>2, <2>3 DEF AllKept
<1> QED BY <1>1, <1>2

LEMMA AllKeptPreserves == Typed /\ InProgress /\ AllKept /\ [Next]_vars => AllKept'
<1> SUFFICES ASSUME Typed, InProgress, AllKept, [Next]_vars PROVE AllKept'
  OBVIOUS
<1> QED BY StartKeeps, CommandKeeps, EndsKeep, SurroundingsKeep DEF Next

(***************************************************************************)
(* What a command put into a file is there until another one replaces it   *)
(* knowing of it, for any commands and files, however they overlap, fail   *)
(* or are killed (runCLI, SealMergingInto).                                *)
(***************************************************************************)
THEOREM ItemsAreKept == Spec => []NothingIsLost
<1> DEFINE I == ServerInv /\ Typed /\ InProgress /\ AllKept
<1>1. I /\ [Next]_vars => I'
  BY ServerPreserves, TypedPreserves, ProgressPreserves, AllKeptPreserves
<1>2. Init => I
  <2> SUFFICES ASSUME Init PROVE I
    OBVIOUS
  <2>1. InProgress
    BY DEF Init, InProgress, Progress
  <2>2. AllKept
    BY DEF Init, AllKept, Alone, Careful, Kept
  <2> QED BY <2>1, <2>2, ServerInitEstablishes, TypedInit
<1>3. I => NothingIsLost
  BY DEF AllKept, Kept, NothingIsLost
<1> QED BY <1>1, <1>2, <1>3, PTL DEF Spec
=============================================================================
