------------------------------ MODULE Sealing ------------------------------
(***************************************************************************)
(* The functions that turn a Secret into a SealedSecret and back, shared   *)
(* by kubeseal and the controller: the scope and the label it stands for,  *)
(* hybrid encryption, NewSealedSecret, Unseal, Rotate and kubeseal's Seal. *)
(* A function that returns an error returns None.                          *)
(*                                                                         *)
(* A Secret is [meta, owned, data] and a SealedSecret is [meta, template,  *)
(* encrypted, blob] with template = [meta, data]; blob is None but in the  *)
(* deprecated format, where it is a whole Secret in one ciphertext.        *)
(* Labels and annotations are treated alike and modelled together as the   *)
(* set of those that are present (the scope annotations: whose value is    *)
(* "true").  The type and the immutable flag are copied both ways and left *)
(* out.                                                                    *)
(***************************************************************************)
CONSTANTS
    Namespaces, SecretNames, Items,
    Notes,        \* the annotations and labels that do not select a scope
    Malformed,    \* a template text that does not parse or execute
    Blank,        \* what a template renders for an item that is not there
    None,         \* an empty name or namespace, no blob, or an error
    AcceptDeprecatedV1Data   \* a flag: TRUE by default in the controller

ScopeAnnotations == {"namespace-wide", "cluster-wide"}
DefaultScope == "strict"
Scopes == ScopeAnnotations \cup {DefaultScope}

SkipSetOwnerReferences == "skip-set-owner-references"
LastApplied == "last-applied-configuration"

ASSUME AcceptAssumption == AcceptDeprecatedV1Data \in BOOLEAN
ASSUME NoneAssumption == None \notin Namespaces \cup SecretNames

Metadata == [ns : Namespaces \cup {None}, name : SecretNames \cup {None},
             annotations : SUBSET (ScopeAnnotations \cup Notes)]

NoEntries == [i \in {} |-> None]

\* The entries of g are written over those of f.
Overlay(f, g) == [x \in DOMAIN f \cup DOMAIN g |-> IF x \in DOMAIN g THEN g[x] ELSE f[x]]

SecretScope(meta) ==
    IF "cluster-wide" \in meta.annotations THEN "cluster-wide"
    ELSE IF "namespace-wide" \in meta.annotations THEN "namespace-wide"
    ELSE "strict"

\* The label is the namespace and name as far as the scope pins them.  The
\* slash between them occurs in neither, so a label is the list of its parts.
EncryptionLabel(ns, name, scope) ==
    IF scope = "cluster-wide" THEN <<>>
    ELSE IF scope = "namespace-wide" THEN IF ns = None THEN <<>> ELSE <<ns>>
    ELSE <<ns, name>>

LabelFor(meta) == EncryptionLabel(meta.ns, meta.name, SecretScope(meta))

UpdateScopeAnnotationsUnfiltered(annotations, scope) ==
    (annotations \ ScopeAnnotations) \cup {scope}

UpdateScopeAnnotations(annotations, scope) ==
    (annotations \ ScopeAnnotations) \cup ({scope} \cap ScopeAnnotations)

HybridEncrypt(key, plaintext, label) == [key |-> key, label |-> label, plaintext |-> plaintext]

SingleDecrypt(key, ciphertext, label) ==
    IF ciphertext.key = key /\ ciphertext.label = label THEN ciphertext.plaintext ELSE None

HybridDecryptOneKey(keys, ciphertext, label) ==
    SingleDecrypt(CHOOSE k \in keys : TRUE, ciphertext, label)

\* Every key that the process holds is tried.
HybridDecrypt(keys, ciphertext, label) ==
    IF \E k \in keys : SingleDecrypt(k, ciphertext, label) # None
    THEN ciphertext.plaintext
    ELSE None

StripLastAppliedAnnotations(annotations) == annotations \ {LastApplied}

NewSealedSecret(key, secret) ==
    LET scope == SecretScope(secret.meta)
    IN  IF scope # "cluster-wide" /\ secret.meta.ns = None
        THEN None
        ELSE [meta |-> [ns |-> secret.meta.ns, name |-> secret.meta.name,
                        annotations |-> UpdateScopeAnnotations({}, scope)],
              template |-> [meta |-> [secret.meta EXCEPT
                                !.annotations = StripLastAppliedAnnotations(@)],
                            data |-> NoEntries],
              encrypted |-> [i \in DOMAIN secret.data |->
                                HybridEncrypt(key, secret.data[i], LabelFor(secret.meta))],
              blob |-> None]

\* The deprecated format: the whole Secret in one blob, and no template.
NewSealedSecretV1(key, secret) ==
    LET scope == SecretScope(secret.meta)
    IN  IF scope # "cluster-wide" /\ secret.meta.ns = None
        THEN None
        ELSE [meta |-> [ns |-> secret.meta.ns, name |-> secret.meta.name,
                        annotations |-> UpdateScopeAnnotations({}, scope)],
              template |-> [meta |-> [ns |-> None, name |-> None, annotations |-> {}],
                            data |-> NoEntries],
              encrypted |-> NoEntries,
              blob |-> HybridEncrypt(key, secret, LabelFor(secret.meta))]

\* A template text is the item it quotes, or Malformed.
Execute(text, data) ==
    IF text = Malformed THEN Malformed
    ELSE IF text \in DOMAIN data THEN data[text] ELSE Blank

Decrypted(keys, s) ==
    [i \in DOMAIN s.encrypted |-> HybridDecrypt(keys, s.encrypted[i], LabelFor(s.meta))]

Rendered(texts, data) == [i \in DOMAIN texts |-> Execute(texts[i], data)]

Opened(keys, s) == HybridDecrypt(keys, s.blob, LabelFor(s.meta))

ItemErrs(keys, s) ==
    LET data == Decrypted(keys, s)
    IN  \/ \E i \in DOMAIN data : data[i] = None
        \/ \E i \in DOMAIN s.template.data :
               Rendered(s.template.data, data)[i] = Malformed

BlobErrs(keys, s) ==
    \/ ~AcceptDeprecatedV1Data
    \/ DOMAIN s.encrypted # {}
    \/ Opened(keys, s) = None

UnsealErrs(keys, s) == IF s.blob = None THEN ItemErrs(keys, s) ELSE BlobErrs(keys, s)

\* The rendered items are written over the decrypted ones; the template of a
\* SealedSecret with a blob counts only for the owner.
Content(keys, s) ==
    IF s.blob = None
    THEN [meta |-> s.template.meta,
          data |-> Overlay(Decrypted(keys, s),
                           Rendered(s.template.data, Decrypted(keys, s)))]
    ELSE Opened(keys, s)

Unseal(keys, s) ==
    IF UnsealErrs(keys, s)
    THEN None
    ELSE [meta |-> [Content(keys, s).meta EXCEPT !.ns = s.meta.ns, !.name = s.meta.name],
          owned |-> SkipSetOwnerReferences \notin s.template.meta.annotations,
          data |-> Content(keys, s).data]

RotateAsIs(keys, latest, s) ==
    LET secret == Unseal(keys, s)
    IN  IF secret = None THEN None ELSE NewSealedSecret(latest, secret)

RotateAnyKey(keys, latest, s) ==
    LET secret == Unseal(keys, [s EXCEPT !.template.meta = s.meta])
    IN  IF secret = None THEN None ELSE NewSealedSecret(CHOOSE k \in keys : TRUE, secret)

\* The template first takes the metadata of the SealedSecret itself, so that
\* the scope that opens the items is also the one they are sealed again with.
\* What was in a blob comes out as items, of the scope of the blob's Secret.
Rotate(keys, latest, s) ==
    LET secret == Unseal(keys, [s EXCEPT !.template.meta = s.meta])
    IN  IF secret = None THEN None ELSE NewSealedSecret(latest, secret)

(***************************************************************************)
(* kubeseal's options: the scope, whose default is the same as no scope;   *)
(* a name and namespace that override the Secret's; the context, which is  *)
(* the namespace of the kubeconfig or, if explicit, of --namespace; and    *)
(* whether the Secret may be empty.                                        *)
(***************************************************************************)
Overridden(meta, opts) ==
    [name |-> IF opts.name # None THEN opts.name ELSE meta.name,
     ns   |-> IF opts.ns # None THEN opts.ns ELSE meta.ns,
     annotations |-> IF opts.scope # DefaultScope
                     THEN UpdateScopeAnnotations(meta.annotations, opts.scope)
                     ELSE meta.annotations]

InContext(meta, opts) ==
    IF SecretScope(meta) # "cluster-wide" /\ meta.ns = None
    THEN [meta EXCEPT !.ns = opts.context]
    ELSE meta

Seal(key, secret, opts) ==
    LET meta == Overridden(secret.meta, opts)
    IN  IF \/ DOMAIN secret.data = {} /\ ~opts.allowEmpty
           \/ meta.name = None
           \/ /\ SecretScope(meta) # "cluster-wide" /\ opts.explicit
              /\ meta.ns \notin {None, opts.context}
        THEN None
        ELSE NewSealedSecret(key, [secret EXCEPT !.meta = InContext(meta, opts)])

\* What --merge-into merges; orig keeps its own metadata and thus its scope.
Merged(orig, update) ==
    [orig EXCEPT !.encrypted = Overlay(@, update.encrypted),
                 !.template.meta.annotations = @ \cup update.template.meta.annotations]

\* A map that the file leaves out, or has as null (the items beside a blob), is
\* a nil map once decoded, and storing into it panics.
MergePanics(orig, update) ==
    \/ /\ orig.template.meta.annotations = {}
       /\ update.template.meta.annotations # {}
    \/ /\ orig.blob # None /\ DOMAIN orig.encrypted = {}
       /\ DOMAIN update.encrypted # {}

EncryptSecretItem(key, name, ns, plaintext, scope) ==
    HybridEncrypt(key, plaintext, EncryptionLabel(ns, name, scope))
=============================================================================
