----------------------------- MODULE SealedFile -----------------------------
(***************************************************************************)
(* The life of a file that holds a SealedSecret.  Its owner seals a Secret *)
(* into it, merges other Secrets into it, edits it, pastes items that were *)
(* sealed raw, and has the controller encrypt it again, while the          *)
(* controller's keys are renewed and old ones removed.  Commands of        *)
(* kubeseal on one file do not overlap here.                               *)
(***************************************************************************)
EXTENDS Sealing, Naturals

CONSTANTS
    Keys, Values,
    Commands,    \* the Secrets that are piped to kubeseal, with its options
    OldSecrets,  \* the Secrets that were sealed in the deprecated format
    Metas,       \* the metadata that the owner writes by hand
    MaxEdits     \* bound: hand edits and raw items

IsPartial(f, S, T) == DOMAIN f \subseteq S /\ f \in [DOMAIN f -> T]

Options ==
    [scope : Scopes, name : SecretNames \cup {None}, ns : {None}, context : Namespaces,
     explicit : BOOLEAN, allowEmpty : BOOLEAN]

ASSUME CommandsAssumption ==
    \A c \in Commands :
        /\ c.secret.meta \in Metadata
        /\ IsPartial(c.secret.data, Items, Values)
        /\ c.opts \in Options
ASSUME MetasAssumption == Metas \subseteq Metadata
ASSUME EditsAssumption == MaxEdits \in Nat

VARIABLES
    held,       \* the keys that the controller holds
    latest,     \* the one it publishes and rotates to
    cert,       \* the one whose certificate the owner has
    file,       \* the SealedSecret in the file, None if there is none
    outcome,    \* of the last kubeseal command: "ok", "error", "panic" or "killed"
    edits,      \* how many edits there were
    meant,      \* what the owner means the Secret to hold, by item
    tidy,       \* the owner did nothing that the scopes forbid
    retired     \* the keys that the owner's files no longer need

vars == <<held, latest, cert, file, outcome, edits, meant, tidy, retired>>
keyVars == <<held, latest, cert>>

(***************************************************************************)
(* A plaintext carries the scope, namespace and name it was sealed for.    *)
(***************************************************************************)
Plaintexts == [value : Values, scope : Scopes,
               ns : Namespaces \cup {None}, name : SecretNames \cup {None}]

ASSUME ContentsAssumption == {None, Malformed} \cap (Plaintexts \cup {Blank}) = {}

Tagged(data, meta) ==
    [i \in DOMAIN data |-> [value |-> data[i], scope |-> SecretScope(meta),
                            ns |-> meta.ns, name |-> meta.name]]

TaggedSecret(secret) == [meta |-> secret.meta, data |-> Tagged(secret.data, secret.meta)]

ASSUME OldSecretsAssumption ==
    \A s \in OldSecrets :
        /\ s.meta \in Metadata /\ IsPartial(s.data, Items, Values)
        /\ TaggedSecret(s) # None
        /\ \A k \in Keys : HybridEncrypt(k, TaggedSecret(s), LabelFor(s.meta)) # None

\* The Secret as kubeseal seals it with these options, each value tagged.
Sealed(secret, opts) ==
    Seal(cert, [meta  |-> secret.meta,
                data  |-> Tagged(secret.data, InContext(Overridden(secret.meta, opts), opts))],
         opts)

Init ==
    /\ \E k \in Keys : held = {k} /\ latest = k /\ cert = k
    /\ file = None /\ outcome = "ok" /\ edits = 0
    /\ meant = NoEntries /\ tidy = TRUE /\ retired = {}

-----------------------------------------------------------------------------
(* The keys.                                                               *)

\* A renewal; an imported key may be older than the latest.
RegisterKey(k) ==
    /\ k \notin held
    /\ held' = held \cup {k}
    /\ latest' \in {latest, k}
    /\ UNCHANGED <<cert, file, outcome, edits, meant, tidy, retired>>

FetchCert ==
    /\ cert' = latest
    /\ UNCHANGED <<held, latest, file, outcome, edits, meant, tidy, retired>>

\* The keys that no file needs are deleted and the controller restarted; the
\* owner has replaced a certificate that was stored for offline use.
PurgeKeys ==
    /\ retired # {} /\ cert \notin retired
    /\ held' = held \ retired
    /\ retired' = {}
    /\ UNCHANGED <<latest, cert, file, outcome, edits, meant, tidy>>

-----------------------------------------------------------------------------
(* kubeseal.                                                               *)

Fails(how) ==
    /\ outcome' = how
    /\ UNCHANGED <<held, latest, cert, file, edits, meant, tidy, retired>>

NewFile(secret, opts) ==
    LET new == Sealed(secret, opts)
    IN  IF new = None
        THEN Fails("error")
        ELSE /\ file' = new /\ outcome' = "ok" /\ tidy' = TRUE
             /\ meant' = [i \in DOMAIN new.encrypted |-> new.encrypted[i].plaintext]
             /\ retired' = retired \ {cert}
             /\ UNCHANGED <<held, latest, cert, edits>>

\* An older kubeseal wrote the file in the deprecated format.
OldFile(secret) ==
    LET new == NewSealedSecretV1(cert, TaggedSecret(secret))
    IN  /\ secret.meta.name # None /\ new # None
        /\ file' = new /\ outcome' = "ok" /\ tidy' = TRUE
        /\ meant' = TaggedSecret(secret).data
        /\ retired' = retired \ {cert}
        /\ UNCHANGED <<held, latest, cert, edits>>

\* The name and namespace of the file win over those of the Secret.
Update(secret, opts) ==
    Sealed(secret, [opts EXCEPT !.name = file.meta.name, !.ns = file.meta.ns])

Merges(update) == update # None /\ ~MergePanics(file, update)

SealMergingInto(secret, opts) ==
    LET update == Update(secret, opts)
    IN  /\ file # None
        /\ \/ update = None /\ Fails("error")
           \/ update # None /\ MergePanics(file, update) /\ Fails("panic")
           \/ /\ Merges(update)
              /\ file' = Merged(file, update) /\ outcome' = "ok"
              /\ meant' = Overlay(meant, [i \in DOMAIN update.encrypted |->
                                             update.encrypted[i].plaintext])
              /\ tidy' = (tidy /\ LabelFor(update.meta) = LabelFor(file.meta))
              /\ retired' = retired \ {cert}
              /\ UNCHANGED <<held, latest, cert, edits>>

\* Killed between the truncation of the file and its writing.
KilledMerging(secret, opts) ==
    /\ file # None /\ Merges(Update(secret, opts))
    /\ file' = None /\ outcome' = "killed" /\ meant' = NoEntries /\ tidy' = TRUE
    /\ UNCHANGED <<held, latest, cert, edits, retired>>

Expected ==
    IF file.blob = None THEN Overlay(meant, Rendered(file.template.data, meant)) ELSE meant

ReEncrypt ==
    LET rotated == Rotate(held, latest, file)
    IN  /\ file # None
        /\ IF rotated = None
           THEN Fails("error")
           ELSE /\ file' = rotated /\ outcome' = "ok"
                /\ meant' = Expected
                /\ retired' = held \ {latest}
                /\ UNCHANGED <<held, latest, cert, edits, tidy>>

-----------------------------------------------------------------------------
(* The owner's editor.                                                     *)

Edit ==
    /\ file # None /\ edits < MaxEdits
    /\ edits' = edits + 1
    /\ UNCHANGED keyVars /\ UNCHANGED outcome

Move(meta) ==
    /\ Edit
    /\ file' = [file EXCEPT !.meta = meta]
    /\ tidy' = (tidy /\ LabelFor(meta) = LabelFor(file.meta))
    /\ UNCHANGED <<meant, retired>>

EditTemplateMetadata(meta) ==
    /\ Edit
    /\ file' = [file EXCEPT !.template.meta = meta]
    /\ UNCHANGED <<meant, tidy, retired>>

EditTemplateData(i, text) ==
    /\ Edit
    /\ file' = [file EXCEPT !.template.data = Overlay(@, [x \in {i} |-> text])]
    /\ UNCHANGED <<meant, tidy, retired>>

RemoveItem(i) ==
    /\ Edit
    /\ i \in DOMAIN file.encrypted
    /\ file' = [file EXCEPT !.encrypted = [x \in DOMAIN @ \ {i} |-> @[x]]]
    /\ meant' = [x \in DOMAIN meant \ {i} |-> meant[x]]
    /\ UNCHANGED <<tidy, retired>>

\* An item sealed with --raw for the scope, namespace and name of meta; beside
\* a blob there may be none.
PasteRawItem(i, value, meta) ==
    LET scope == SecretScope(meta)
        plaintext == Tagged([x \in {i} |-> value], meta)[i]
        item == EncryptSecretItem(cert, meta.name, meta.ns, plaintext, scope)
    IN  /\ Edit
        /\ scope # "cluster-wide" => meta.ns # None
        /\ scope = "strict" => meta.name # None
        /\ file' = [file EXCEPT !.encrypted = Overlay(@, [x \in {i} |-> item])]
        /\ tidy' = (tidy /\ file.blob = None /\ item.label = LabelFor(file.meta))
        /\ meant' = Overlay(meant, [x \in {i} |-> plaintext])
        /\ retired' = retired \ {cert}

-----------------------------------------------------------------------------
Next ==
    \/ \E k \in Keys : RegisterKey(k)
    \/ FetchCert \/ PurgeKeys
    \/ \E c \in Commands :
          \/ NewFile(c.secret, c.opts)
          \/ SealMergingInto(c.secret, c.opts)
          \/ KilledMerging(c.secret, c.opts)
    \/ \E secret \in OldSecrets : OldFile(secret)
    \/ ReEncrypt
    \/ \E meta \in Metas : Move(meta) \/ EditTemplateMetadata(meta)
    \/ \E i \in Items :
          \/ \E text \in Items \cup {Malformed} : EditTemplateData(i, text)
          \/ RemoveItem(i)
          \/ \E value \in Values, meta \in Metas : PasteRawItem(i, value, meta)

Spec == Init /\ [][Next]_vars

-----------------------------------------------------------------------------
Labels == {EncryptionLabel(ns, name, scope) : ns \in Namespaces \cup {None},
              name \in SecretNames \cup {None}, scope \in Scopes}

Ciphertexts == [key : Keys, label : Labels, plaintext : Plaintexts \cup {Blank}]

IsBlob(b) ==
    /\ b = HybridEncrypt(b.key, [meta |-> b.plaintext.meta, data |-> b.plaintext.data], b.label)
    /\ b.key \in Keys /\ b.label \in Labels
    /\ b.plaintext # None /\ b.plaintext.meta \in Metadata
    /\ IsPartial(b.plaintext.data, Items, Plaintexts)

IsSealedSecret(s) ==
    /\ s = [meta |-> s.meta,
            template |-> [meta |-> s.template.meta, data |-> s.template.data],
            encrypted |-> s.encrypted,
            blob |-> s.blob]
    /\ s.meta \in Metadata
    /\ s.template.meta \in Metadata
    /\ IsPartial(s.template.data, Items, Items \cup {Malformed})
    /\ IsPartial(s.encrypted, Items, Ciphertexts)
    /\ s.blob # None => IsBlob(s.blob)

\* The types of the variables.
TypeOK ==
    /\ held \subseteq Keys /\ latest \in held /\ cert \in held
    /\ retired \subseteq held \ {latest}
    /\ file # None => IsSealedSecret(file)
    /\ outcome \in {"ok", "error", "panic", "killed"}
    /\ edits \in 0..MaxEdits
    /\ IsPartial(meant, Items, Plaintexts \cup {Blank})
    /\ tidy \in BOOLEAN

Permits(plaintext, meta) ==
    \/ plaintext.scope = "cluster-wide"
    \/ /\ plaintext.ns = meta.ns
       /\ plaintext.scope = "namespace-wide" \/ plaintext.name = meta.name

(***************************************************************************)
(* However the file was merged, edited and encrypted again, what it        *)
(* unseals to holds no value outside of the namespace and name that the    *)
(* value's scope pinned it to when its owner sealed it (Unseal and the     *)
(* label it passes to HybridDecrypt; Rotate, which must not widen a scope).*)
(***************************************************************************)
ScopeHolds ==
    LET secret == Unseal(held, file)
    IN  file # None /\ ~UnsealErrs(held, file) =>
            \A i \in DOMAIN secret.data :
                secret.data[i] # Blank => Permits(secret.data[i], secret.meta)

(***************************************************************************)
(* A file whose owner merged and pasted only items of the file's own scope *)
(* unseals to exactly the last values put in, whatever keys they were      *)
(* sealed with, after every renewal, and after the removal of the old keys *)
(* that a re-encryption made superfluous (HybridDecrypt tries every key,   *)
(* Rotate seals with the latest).                                          *)
(***************************************************************************)
TidyFileUnseals ==
    /\ file # None /\ tidy
    /\ file.blob # None => AcceptDeprecatedV1Data
    /\ \A i \in DOMAIN file.template.data : file.template.data[i] # Malformed
    => /\ ~UnsealErrs(held, file)
       /\ Unseal(held, file).data = Expected

(***************************************************************************)
(* A re-encryption leaves the values, the place and the label of a file as *)
(* they are, and everything in it sealed with the latest key, item by item *)
(* also where there was a blob (Rotate).                                   *)
(***************************************************************************)
RotationKeepsContent ==
    [][ReEncrypt /\ file' # file =>
          /\ ~UnsealErrs(held, file) /\ ~UnsealErrs(held, file')
          /\ Unseal(held, file').data = Unseal(held, file).data
          /\ file'.meta.ns = file.meta.ns /\ file'.meta.name = file.meta.name
          /\ LabelFor(file'.meta) = LabelFor(file.meta)
          /\ file'.blob = None
          /\ \A i \in DOMAIN file'.encrypted : file'.encrypted[i].key = latest]_vars

(***************************************************************************)
(* --merge-into updates an existing file, or says why it cannot            *)
(* (SealMergingInto).                                                      *)
(***************************************************************************)
MergeNeverPanics == outcome # "panic"
=============================================================================
