-------------------------- MODULE SealedFileProofs --------------------------
(***************************************************************************)
(* For every set of keys, commands and edits: the types of SealedFile, and *)
(* that no value is unsealed outside of its scope.  ScopeHolds speaks of   *)
(* what Unseal returns; the inductive invariant is about the ciphertexts:  *)
(* Labelled says that each has the label of the place it was sealed for.   *)
(***************************************************************************)
EXTENDS SealedFile, TLAPS

Contents == Plaintexts \cup {Blank}

\* The place that p is pinned to is a real one, and this is its label.
LabelledFor(p, label) ==
    p # Blank => /\ label = EncryptionLabel(p.ns, p.name, p.scope)
                 /\ p.scope # "cluster-wide" => p.ns # None

\* So is the Secret of a blob, and each of its values.
BlobLabelled(b) ==
    /\ b.label = LabelFor(b.plaintext.meta)
    /\ SecretScope(b.plaintext.meta) = "cluster-wide" \/ b.plaintext.meta.ns # None
    /\ \A i \in DOMAIN b.plaintext.data : LabelledFor(b.plaintext.data[i], b.label)

WellLabelled(s) ==
    /\ \A i \in DOMAIN s.encrypted : LabelledFor(s.encrypted[i].plaintext, s.encrypted[i].label)
    /\ s.blob # None => BlobLabelled(s.blob)

Labelled == file # None => WellLabelled(file)

IInv == TypeOK /\ Labelled

-----------------------------------------------------------------------------
(* Scopes and labels.                                                      *)

LEMMA ScopeTyped == \A meta : SecretScope(meta) \in Scopes
  BY DEF SecretScope, Scopes, ScopeAnnotations, DefaultScope

\* A label pins a value to the places that its scope permits.
LEMMA LabelPermits ==
  ASSUME NEW p, NEW meta, p.scope \in Scopes,
         p.scope # "cluster-wide" => p.ns # None,
         EncryptionLabel(p.ns, p.name, p.scope) = LabelFor(meta)
  PROVE  Permits(p, meta)
  <1>1. CASE p.scope = "cluster-wide"
    BY <1>1 DEF Permits
  <1>2. CASE p.scope = "namespace-wide"
    <2>1. LabelFor(meta) = <<p.ns>>
      BY <1>2 DEF EncryptionLabel
    <2>2. meta.ns = p.ns
      BY <2>1 DEF LabelFor, EncryptionLabel
    <2> QED BY <1>2, <2>2 DEF Permits
  <1>3. CASE p.scope = "strict"
    <2>1. LabelFor(meta) = <<p.ns, p.name>>
      BY <1>3 DEF EncryptionLabel
    <2>2. meta.ns = p.ns /\ meta.name = p.name
      BY <2>1 DEF LabelFor, EncryptionLabel
    <2> QED BY <1>3, <2>2 DEF Permits
  <1> QED BY <1>1, <1>2, <1>3 DEF Scopes, ScopeAnnotations, DefaultScope

\* Only the right label opens a ciphertext.
LEMMA DecryptedIsLabelled ==
  ASSUME NEW keys, NEW c, NEW label, HybridDecrypt(keys, c, label) # None
  PROVE  c.label = label /\ HybridDecrypt(keys, c, label) = c.plaintext
  BY DEF HybridDecrypt, SingleDecrypt

LEMMA OverlayTyped ==
  ASSUME NEW S, NEW T, NEW f, NEW g, IsPartial(f, S, T), IsPartial(g, S, T)
  PROVE  IsPartial(Overlay(f, g), S, T)
  BY DEF IsPartial, Overlay

-----------------------------------------------------------------------------
(* Sealing and unsealing.                                                  *)

\* The annotations that stand for a scope give it back, and so the label.
LEMMA AnnotatedLabel ==
  ASSUME NEW meta, NEW new, new.ns = meta.ns, new.name = meta.name,
         new.annotations = {SecretScope(meta)} \cap ScopeAnnotations
  PROVE  LabelFor(new) = LabelFor(meta)
  <1>1. SecretScope(meta) \in {"strict", "namespace-wide", "cluster-wide"}
    BY DEF SecretScope
  <1>2. SecretScope(new) = SecretScope(meta)
    <2> DEFINE scope == SecretScope(meta)
    <2>1. new.annotations = {scope} \cap ScopeAnnotations
      OBVIOUS
    <2> HIDE DEF scope
    <2>2. SecretScope(new) = scope
      BY <1>1, <2>1 DEF SecretScope, ScopeAnnotations, scope
    <2> QED BY <2>2 DEF scope
  <1> QED BY <1>2 DEF LabelFor

LEMMA LabelTyped ==
  ASSUME NEW meta \in Metadata
  PROVE  LabelFor(meta) \in Labels
  BY ScopeTyped DEF LabelFor, Metadata, Labels

LEMMA NewSealedSecretTyped ==
  ASSUME NEW key \in Keys, NEW secret, secret.meta \in Metadata,
         IsPartial(secret.data, Items, Contents),
         NewSealedSecret(key, secret) # None
  PROVE  /\ IsSealedSecret(NewSealedSecret(key, secret))
         /\ NewSealedSecret(key, secret).blob = None
         /\ LabelFor(NewSealedSecret(key, secret).meta) = LabelFor(secret.meta)
         /\ SecretScope(secret.meta) = "cluster-wide" \/ secret.meta.ns # None
  <1> DEFINE new == NewSealedSecret(key, secret)
             scope == SecretScope(secret.meta)
             label == LabelFor(secret.meta)
  <1>1. /\ scope = "cluster-wide" \/ secret.meta.ns # None
        /\ new = [meta |-> [ns |-> secret.meta.ns, name |-> secret.meta.name,
                            annotations |-> UpdateScopeAnnotations({}, scope)],
                  template |-> [meta |-> [secret.meta EXCEPT
                                    !.annotations = StripLastAppliedAnnotations(@)],
                                data |-> NoEntries],
                  encrypted |-> [i \in DOMAIN secret.data |->
                                    HybridEncrypt(key, secret.data[i], label)],
                  blob |-> None]
    BY DEF NewSealedSecret
  <1>2. new.meta \in Metadata
    BY <1>1, ScopeTyped DEF Metadata, UpdateScopeAnnotations
  <1>3. new.template.meta \in Metadata
    BY <1>1 DEF Metadata, StripLastAppliedAnnotations
  <1>4. IsPartial(new.template.data, Items, Items \cup {Malformed})
    <2>1. new.template.data = NoEntries
      BY <1>1
    <2> QED BY <2>1 DEF IsPartial, NoEntries
  <1>5. label \in Labels
    BY LabelTyped
  <1>6. IsPartial(new.encrypted, Items, Ciphertexts)
    <2>1. new.encrypted = [i \in DOMAIN secret.data |->
                              HybridEncrypt(key, secret.data[i], label)]
      BY <1>1
    <2>2. \A i \in DOMAIN secret.data : i \in Items /\ secret.data[i] \in Contents
      BY DEF IsPartial
    <2>3. \A i \in DOMAIN secret.data :
             HybridEncrypt(key, secret.data[i], label) \in Ciphertexts
      BY <1>5, <2>2 DEF Ciphertexts, HybridEncrypt, Contents
    <2> HIDE DEF label
    <2> QED BY <2>1, <2>2, <2>3 DEF IsPartial
  <1>7. LabelFor(new.meta) = label
    <2>1. new.meta.ns = secret.meta.ns /\ new.meta.name = secret.meta.name
          /\ new.meta.annotations = {scope} \cap ScopeAnnotations
      BY <1>1 DEF UpdateScopeAnnotations
    <2> HIDE DEF new
    <2> QED BY <2>1, AnnotatedLabel
  <1>8. IsSealedSecret(new)
    BY <1>1, <1>2, <1>3, <1>4, <1>6 DEF IsSealedSecret
  <1> QED BY <1>1, <1>7, <1>8

LEMMA NewSealedSecretLabelled ==
  ASSUME NEW key, NEW secret, NewSealedSecret(key, secret) # None,
         \A i \in DOMAIN secret.data : LabelledFor(secret.data[i], LabelFor(secret.meta))
  PROVE  WellLabelled(NewSealedSecret(key, secret))
  BY DEF NewSealedSecret, WellLabelled, HybridEncrypt

\* The deprecated format, for the Secrets that are tagged with their place.
LEMMA OldSealedSecret ==
  ASSUME NEW key \in Keys, NEW secret \in OldSecrets,
         NewSealedSecretV1(key, TaggedSecret(secret)) # None
  PROVE  LET new == NewSealedSecretV1(key, TaggedSecret(secret))
         IN  /\ IsSealedSecret(new) /\ WellLabelled(new)
             /\ new.encrypted = NoEntries
             /\ new.blob # None /\ new.blob.key = key
             /\ new.blob.plaintext = TaggedSecret(secret)
             /\ new.blob.label = LabelFor(new.meta)
  <1> DEFINE tagged == TaggedSecret(secret)
             new == NewSealedSecretV1(key, tagged)
             scope == SecretScope(secret.meta)
             label == LabelFor(secret.meta)
             blob == HybridEncrypt(key, tagged, label)
             blank == [ns |-> None, name |-> None, annotations |-> {}]
  <1>1. /\ secret.meta \in Metadata /\ IsPartial(secret.data, Items, Values)
        /\ blob # None /\ tagged # None
    BY OldSecretsAssumption
  <1>2. /\ tagged = [meta |-> secret.meta, data |-> tagged.data]
        /\ tagged.meta = secret.meta
        /\ tagged.data = Tagged(secret.data, secret.meta)
    BY DEF TaggedSecret
  <1> HIDE DEF tagged
  <1>3. /\ scope = "cluster-wide" \/ secret.meta.ns # None
        /\ new = [meta |-> [ns |-> secret.meta.ns, name |-> secret.meta.name,
                            annotations |-> UpdateScopeAnnotations({}, scope)],
                  template |-> [meta |-> blank, data |-> NoEntries],
                  encrypted |-> NoEntries,
                  blob |-> blob]
    BY <1>2 DEF NewSealedSecretV1, tagged
  <1>4. /\ blob.key = key /\ blob.plaintext = tagged /\ blob.label = label
        /\ blob = HybridEncrypt(key, tagged, label)
    BY DEF HybridEncrypt
  <1>5. label \in Labels
    BY <1>1, LabelTyped
  <1>6. IsPartial(tagged.data, Items, Plaintexts)
    BY <1>1, <1>2, ScopeTyped DEF Tagged, IsPartial, Plaintexts, Metadata
  <1> HIDE DEF blob
  <1>7. IsBlob(blob)
    BY <1>1, <1>2, <1>4, <1>5, <1>6 DEF IsBlob
  <1>8. \A i \in DOMAIN tagged.data : LabelledFor(tagged.data[i], label)
    BY <1>2, <1>3 DEF Tagged, LabelledFor, LabelFor
  <1>9. BlobLabelled(blob)
    BY <1>2, <1>3, <1>4, <1>8 DEF BlobLabelled
  <1>10. new.meta \in Metadata /\ blank \in Metadata
    BY <1>1, <1>3, ScopeTyped DEF Metadata, UpdateScopeAnnotations
  <1>11. LabelFor(new.meta) = label
    <2>1. /\ new.meta.ns = secret.meta.ns /\ new.meta.name = secret.meta.name
          /\ new.meta.annotations = {SecretScope(secret.meta)} \cap ScopeAnnotations
      BY <1>3 DEF UpdateScopeAnnotations
    <2> HIDE DEF new
    <2> QED BY <2>1, AnnotatedLabel
  <1>12. /\ IsPartial(NoEntries, Items, Items \cup {Malformed})
         /\ IsPartial(NoEntries, Items, Ciphertexts)
    BY DEF IsPartial, NoEntries
  <1> HIDE DEF blank, label
  <1>13. IsSealedSecret(new)
    BY <1>3, <1>7, <1>10, <1>12 DEF IsSealedSecret
  <1>14. WellLabelled(new)
    BY <1>3, <1>9 DEF WellLabelled, NoEntries
  <1> QED BY <1>1, <1>3, <1>4, <1>11, <1>13, <1>14 DEF tagged

\* A blob that opens is the Secret in it, sealed for the label of the place.
LEMMA OpenedBlob ==
  ASSUME NEW keys, NEW s, s.blob # None, ~UnsealErrs(keys, s)
  PROVE  /\ Opened(keys, s) = s.blob.plaintext /\ s.blob.label = LabelFor(s.meta)
         /\ AcceptDeprecatedV1Data /\ DOMAIN s.encrypted = {}
  BY DecryptedIsLabelled DEF UnsealErrs, BlobErrs, Opened

LEMMA UnsealedData ==
  ASSUME NEW keys, NEW s, ~UnsealErrs(keys, s)
  PROVE  Unseal(keys, s).data = Content(keys, s).data
  BY DEF Unseal

LEMMA UnsealedMeta ==
  ASSUME NEW keys, NEW s, ~UnsealErrs(keys, s),
         Content(keys, s).meta \in Metadata, s.meta \in Metadata
  PROVE  /\ Unseal(keys, s).meta \in Metadata
         /\ Unseal(keys, s).meta.ns = s.meta.ns /\ Unseal(keys, s).meta.name = s.meta.name
         /\ Unseal(keys, s).meta.annotations = Content(keys, s).meta.annotations
  <1> DEFINE inner == Content(keys, s).meta
             m == [inner EXCEPT !.ns = s.meta.ns, !.name = s.meta.name]
  <1>1. Unseal(keys, s).meta = m
    BY DEF Unseal
  <1>2. inner \in Metadata
    OBVIOUS
  <1> HIDE DEF inner
  <1>3. m \in Metadata
    BY <1>2 DEF Metadata
  <1>4. m.ns = s.meta.ns /\ m.name = s.meta.name /\ m.annotations = inner.annotations
    BY <1>2 DEF Metadata
  <1> HIDE DEF m
  <1> QED BY <1>1, <1>3, <1>4 DEF inner

LEMMA ItemsOpen ==
  ASSUME NEW keys, NEW s, s.blob = None, ~UnsealErrs(keys, s)
  PROVE  /\ \A i \in DOMAIN Decrypted(keys, s) : Decrypted(keys, s)[i] # None
         /\ \A i \in DOMAIN s.template.data :
               Rendered(s.template.data, Decrypted(keys, s))[i] # Malformed
         /\ Content(keys, s).meta = s.template.meta
         /\ Content(keys, s).data = Overlay(Decrypted(keys, s),
                                        Rendered(s.template.data, Decrypted(keys, s)))
  BY DEF UnsealErrs, ItemErrs, Content

LEMMA BlobOpens ==
  ASSUME NEW keys, NEW s, IsSealedSecret(s), s.blob # None, ~UnsealErrs(keys, s)
  PROVE  /\ Content(keys, s) = s.blob.plaintext
         /\ Content(keys, s).meta \in Metadata
         /\ IsPartial(Content(keys, s).data, Items, Contents)
         /\ s.blob.label = LabelFor(s.meta)
  <1>1. Content(keys, s) = s.blob.plaintext /\ s.blob.label = LabelFor(s.meta)
    BY OpenedBlob DEF Content
  <1>2. IsBlob(s.blob)
    BY DEF IsSealedSecret
  <1> QED BY <1>1, <1>2 DEF IsBlob, IsPartial, Contents

LEMMA UnsealTyped ==
  ASSUME NEW keys, NEW s, IsSealedSecret(s), ~UnsealErrs(keys, s)
  PROVE  /\ Unseal(keys, s).meta \in Metadata
         /\ Unseal(keys, s).meta.ns = s.meta.ns /\ Unseal(keys, s).meta.name = s.meta.name
         /\ Unseal(keys, s).meta.annotations = Content(keys, s).meta.annotations
         /\ IsPartial(Unseal(keys, s).data, Items, Contents)
  <1> DEFINE data == Decrypted(keys, s)
             rendered == Rendered(s.template.data, data)
  <1>1. Content(keys, s).meta \in Metadata /\ IsPartial(Content(keys, s).data, Items, Contents)
    <2>1. CASE s.blob = None
      <3>1. /\ \A i \in DOMAIN data : data[i] # None
            /\ \A i \in DOMAIN rendered : rendered[i] # Malformed
            /\ Content(keys, s).data = Overlay(data, rendered)
            /\ Content(keys, s).meta = s.template.meta
        BY <2>1, ItemsOpen DEF Rendered
      <3>2. IsPartial(data, Items, Contents)
        BY <3>1, DecryptedIsLabelled
           DEF Decrypted, IsSealedSecret, IsPartial, Ciphertexts, Contents
      <3>3. IsPartial(rendered, Items, Contents)
        BY <3>1, <3>2 DEF Rendered, Execute, IsSealedSecret, IsPartial, Contents
      <3>4. s.template.meta \in Metadata
        BY DEF IsSealedSecret
      <3> QED BY <3>1, <3>2, <3>3, <3>4, OverlayTyped
    <2>2. CASE s.blob # None
      BY <2>2, BlobOpens
    <2> QED BY <2>1, <2>2
  <1>2. s.meta \in Metadata
    BY DEF IsSealedSecret
  <1> QED BY <1>1, <1>2, UnsealedData, UnsealedMeta

\* What is unsealed was sealed for the label of the SealedSecret itself.
LEMMA UnsealLabelled ==
  ASSUME NEW keys, NEW s, IsSealedSecret(s), WellLabelled(s), ~UnsealErrs(keys, s)
  PROVE  \A i \in DOMAIN Unseal(keys, s).data :
            LabelledFor(Unseal(keys, s).data[i], LabelFor(s.meta))
  <1> DEFINE data == Decrypted(keys, s)
             rendered == Rendered(s.template.data, data)
  <1>1. CASE s.blob = None
    <2>1. /\ \A i \in DOMAIN data : data[i] # None
          /\ \A i \in DOMAIN rendered : rendered[i] # Malformed
          /\ Unseal(keys, s).data = Overlay(data, rendered)
      BY <1>1, ItemsOpen, UnsealedData DEF Rendered
    <2>2. \A i \in DOMAIN data : LabelledFor(data[i], LabelFor(s.meta))
      BY <2>1, DecryptedIsLabelled DEF Decrypted, WellLabelled
    <2>3. \A i \in DOMAIN rendered : LabelledFor(rendered[i], LabelFor(s.meta))
      <3> SUFFICES ASSUME NEW i \in DOMAIN rendered
                   PROVE  LabelledFor(rendered[i], LabelFor(s.meta))
        OBVIOUS
      <3>1. rendered[i] = Blank
            \/ \E j \in DOMAIN data : rendered[i] = data[j]
        BY <2>1 DEF Rendered, Execute
      <3>2. CASE rendered[i] = Blank
        BY <3>2 DEF LabelledFor
      <3>3. CASE \E j \in DOMAIN data : rendered[i] = data[j]
        BY <3>3, <2>2
      <3> QED BY <3>1, <3>2, <3>3
    <2> QED BY <2>1, <2>2, <2>3 DEF Overlay
  <1>2. CASE s.blob # None
    <2>1. Unseal(keys, s).data = s.blob.plaintext.data /\ s.blob.label = LabelFor(s.meta)
      BY <1>2, BlobOpens, UnsealedData
    <2> QED BY <1>2, <2>1 DEF WellLabelled, BlobLabelled
  <1> QED BY <1>1, <1>2

\* The Secret of a blob gets its place from the SealedSecret, and keeps its label.
LEMMA UnsealedBlobLabel ==
  ASSUME NEW keys, NEW s, IsSealedSecret(s), WellLabelled(s), s.blob # None,
         ~UnsealErrs(keys, s)
  PROVE  LabelFor(Unseal(keys, s).meta) = LabelFor(s.meta)
  <1> DEFINE m == Unseal(keys, s).meta
             inner == s.blob.plaintext.meta
  <1>1. /\ m.ns = s.meta.ns /\ m.name = s.meta.name
        /\ m.annotations = inner.annotations
    BY UnsealTyped, BlobOpens
  <1>2. /\ LabelFor(inner) = LabelFor(s.meta)
        /\ SecretScope(inner) = "cluster-wide" \/ inner.ns # None
    BY BlobOpens DEF WellLabelled, BlobLabelled
  <1>3. SecretScope(m) = SecretScope(inner)
    <2> HIDE DEF m, inner
    <2> QED BY <1>1 DEF SecretScope
  <1> HIDE DEF m, inner
  <1>4. CASE SecretScope(inner) = "cluster-wide"
    BY <1>2, <1>3, <1>4 DEF LabelFor, EncryptionLabel, m
  <1>5. CASE SecretScope(inner) = "namespace-wide"
    <2>1. LabelFor(inner) = <<inner.ns>>
      BY <1>2, <1>5 DEF LabelFor, EncryptionLabel
    <2>2. s.meta.ns = inner.ns
      BY <1>2, <2>1 DEF LabelFor, EncryptionLabel
    <2>3. LabelFor(m) = <<inner.ns>>
      BY <1>1, <1>2, <1>3, <1>5, <2>2 DEF LabelFor, EncryptionLabel
    <2> QED BY <1>2, <2>1, <2>3 DEF m
  <1>6. CASE SecretScope(inner) = "strict"
    <2>1. LabelFor(inner) = <<inner.ns, inner.name>>
      BY <1>6 DEF LabelFor, EncryptionLabel
    <2>2. s.meta.ns = inner.ns /\ s.meta.name = inner.name
      BY <1>2, <2>1 DEF LabelFor, EncryptionLabel
    <2>3. LabelFor(m) = <<inner.ns, inner.name>>
      BY <1>1, <1>3, <1>6, <2>2 DEF LabelFor, EncryptionLabel
    <2> QED BY <1>2, <2>1, <2>3 DEF m
  <1>7. SecretScope(inner) \in {"cluster-wide", "namespace-wide", "strict"}
    BY DEF SecretScope
  <1> QED BY <1>4, <1>5, <1>6, <1>7 DEF m

\* Rotate seals a Secret whose label is that of what it unseals.
LEMMA RotateDoes ==
  ASSUME NEW keys, NEW key \in Keys, NEW s, IsSealedSecret(s), WellLabelled(s),
         Rotate(keys, key, s) # None
  PROVE  \E t :
           /\ IsSealedSecret(t) /\ WellLabelled(t) /\ ~UnsealErrs(keys, t)
           /\ t.meta = s.meta /\ t.template.data = s.template.data
           /\ t.encrypted = s.encrypted /\ t.blob = s.blob
           /\ Rotate(keys, key, s) = NewSealedSecret(key, Unseal(keys, t))
           /\ Unseal(keys, t).meta \in Metadata
           /\ Unseal(keys, t).meta.ns = s.meta.ns /\ Unseal(keys, t).meta.name = s.meta.name
           /\ IsPartial(Unseal(keys, t).data, Items, Contents)
           /\ LabelFor(Unseal(keys, t).meta) = LabelFor(s.meta)
  <1> DEFINE t == [s EXCEPT !.template.meta = s.meta]
  <1>1. t = [meta |-> s.meta, template |-> [meta |-> s.meta, data |-> s.template.data],
             encrypted |-> s.encrypted, blob |-> s.blob]
    BY DEF IsSealedSecret
  <1>2. ~UnsealErrs(keys, t) /\ Rotate(keys, key, s) = NewSealedSecret(key, Unseal(keys, t))
    BY DEF Rotate, Unseal
  <1> HIDE DEF t
  <1>3. IsSealedSecret(t) /\ WellLabelled(t)
    BY <1>1 DEF IsSealedSecret, WellLabelled
  <1>4. /\ t.meta = s.meta /\ t.template = [meta |-> s.meta, data |-> s.template.data]
        /\ t.encrypted = s.encrypted /\ t.blob = s.blob
    BY <1>1
  <1>5. /\ Unseal(keys, t).meta \in Metadata
        /\ Unseal(keys, t).meta.ns = s.meta.ns /\ Unseal(keys, t).meta.name = s.meta.name
        /\ Unseal(keys, t).meta.annotations = Content(keys, t).meta.annotations
        /\ IsPartial(Unseal(keys, t).data, Items, Contents)
    BY <1>2, <1>3, <1>4, UnsealTyped
  <1>6. LabelFor(Unseal(keys, t).meta) = LabelFor(s.meta)
    <2>1. CASE t.blob = None
      <3>1. Content(keys, t).meta.annotations = s.meta.annotations
        BY <1>2, <1>4, <2>1, ItemsOpen
      <3> QED BY <1>5, <3>1 DEF LabelFor, SecretScope
    <2>2. CASE t.blob # None
      BY <1>2, <1>3, <1>4, <2>2, UnsealedBlobLabel
    <2> QED BY <2>1, <2>2
  <1> QED BY <1>2, <1>3, <1>4, <1>5, <1>6

LEMMA RotateInv ==
  ASSUME NEW keys, NEW key \in Keys, NEW s, IsSealedSecret(s), WellLabelled(s),
         Rotate(keys, key, s) # None
  PROVE  IsSealedSecret(Rotate(keys, key, s)) /\ WellLabelled(Rotate(keys, key, s))
  <1>1. PICK t :
           /\ IsSealedSecret(t) /\ WellLabelled(t) /\ ~UnsealErrs(keys, t)
           /\ t.meta = s.meta
           /\ Rotate(keys, key, s) = NewSealedSecret(key, Unseal(keys, t))
           /\ Unseal(keys, t).meta \in Metadata
           /\ IsPartial(Unseal(keys, t).data, Items, Contents)
           /\ LabelFor(Unseal(keys, t).meta) = LabelFor(s.meta)
    BY RotateDoes
  <1> DEFINE secret == Unseal(keys, t)
  <1>2. \A i \in DOMAIN secret.data : LabelledFor(secret.data[i], LabelFor(secret.meta))
    BY <1>1, UnsealLabelled
  <1> HIDE DEF secret
  <1>3. /\ secret.meta \in Metadata /\ IsPartial(secret.data, Items, Contents)
        /\ Rotate(keys, key, s) = NewSealedSecret(key, secret)
    BY <1>1 DEF secret
  <1> QED BY <1>2, <1>3, NewSealedSecretTyped, NewSealedSecretLabelled

\* kubeseal passes NewSealedSecret a Secret whose values are tagged with the
\* metadata that they are sealed for.
LEMMA SealedIsNew ==
  ASSUME NEW secret, NEW opts,
         secret.meta \in Metadata, IsPartial(secret.data, Items, Values),
         opts.scope \in Scopes, opts.name \in SecretNames \cup {None},
         opts.ns \in Namespaces \cup {None}, opts.context \in Namespaces,
         Sealed(secret, opts) # None
  PROVE  \E final :
            /\ Sealed(secret, opts) = NewSealedSecret(cert, final)
            /\ final.meta \in Metadata
            /\ final.data = Tagged(secret.data, final.meta)
            /\ IsPartial(final.data, Items, Contents)
  <1> DEFINE overridden == Overridden(secret.meta, opts)
             m == InContext(overridden, opts)
             tagged == Tagged(secret.data, m)
             given == [meta |-> secret.meta, data |-> tagged]
             final == [given EXCEPT !.meta = m]
  <1>1. overridden \in Metadata
    BY DEF Overridden, Metadata, UpdateScopeAnnotations
  <1>2. m \in Metadata
    <2> HIDE DEF overridden
    <2> QED BY <1>1 DEF InContext, Metadata
  <1>3. final.meta = m /\ final.data = tagged
    OBVIOUS
  <1>4. Sealed(secret, opts) = NewSealedSecret(cert, final)
    BY DEF Sealed, Seal
  <1> HIDE DEF final, m
  <1>5. IsPartial(tagged, Items, Contents)
    BY <1>2, ScopeTyped DEF Tagged, IsPartial, Contents, Plaintexts, Metadata
  <1> QED BY <1>2, <1>3, <1>4, <1>5

\* kubeseal, for the Secrets and the options that it is run with.
LEMMA SealedInv ==
  ASSUME NEW secret, NEW opts, cert \in Keys,
         secret.meta \in Metadata, IsPartial(secret.data, Items, Values),
         opts.scope \in Scopes, opts.name \in SecretNames \cup {None},
         opts.ns \in Namespaces \cup {None}, opts.context \in Namespaces,
         Sealed(secret, opts) # None
  PROVE  IsSealedSecret(Sealed(secret, opts)) /\ WellLabelled(Sealed(secret, opts))
  <1>1. PICK final :
            /\ Sealed(secret, opts) = NewSealedSecret(cert, final)
            /\ final.meta \in Metadata
            /\ final.data = Tagged(secret.data, final.meta)
            /\ IsPartial(final.data, Items, Contents)
    BY SealedIsNew
  <1>2. /\ IsSealedSecret(Sealed(secret, opts))
        /\ SecretScope(final.meta) = "cluster-wide" \/ final.meta.ns # None
    BY <1>1, NewSealedSecretTyped
  <1>3. \A i \in DOMAIN final.data : LabelledFor(final.data[i], LabelFor(final.meta))
    BY <1>1, <1>2 DEF Tagged, LabelledFor, LabelFor
  <1> QED BY <1>1, <1>2, <1>3, NewSealedSecretLabelled

LEMMA MergedInv ==
  ASSUME NEW orig, NEW update, IsSealedSecret(orig), IsSealedSecret(update),
         WellLabelled(orig), WellLabelled(update)
  PROVE  IsSealedSecret(Merged(orig, update)) /\ WellLabelled(Merged(orig, update))
  <1> DEFINE new == Merged(orig, update)
             union == orig.template.meta.annotations \cup update.template.meta.annotations
             tmeta == [orig.template.meta EXCEPT !.annotations = union]
             both == Overlay(orig.encrypted, update.encrypted)
  <1>1. new = [meta |-> orig.meta,
               template |-> [meta |-> tmeta, data |-> orig.template.data],
               encrypted |-> both, blob |-> orig.blob]
    <2>1. orig = [meta |-> orig.meta,
                  template |-> [meta |-> orig.template.meta, data |-> orig.template.data],
                  encrypted |-> orig.encrypted, blob |-> orig.blob]
      BY DEF IsSealedSecret
    <2>2. new = [orig EXCEPT !.encrypted = both, !.template = [@ EXCEPT !.meta = tmeta]]
      BY DEF Merged
    <2>3. orig.template = [meta |-> orig.template.meta, data |-> orig.template.data]
      BY <2>1
    <2> HIDE DEF new, tmeta, both
    <2>4. [orig.template EXCEPT !.meta = tmeta] = [meta |-> tmeta, data |-> orig.template.data]
      BY <2>3
    <2>5. new = [orig EXCEPT !.encrypted = both, !.template = [meta |-> tmeta, data |-> orig.template.data]]
      BY <2>2, <2>4
    <2>6. DOMAIN orig = {"meta", "template", "encrypted", "blob"}
      BY <2>1
    <2> QED BY <2>1, <2>5, <2>6
  <1>2. tmeta \in Metadata
    BY DEF IsSealedSecret, Metadata
  <1>3. IsPartial(both, Items, Ciphertexts)
    BY OverlayTyped DEF IsSealedSecret
  <1>4. \A i \in DOMAIN both :
           LabelledFor(both[i].plaintext, both[i].label)
    <2> SUFFICES ASSUME NEW i \in DOMAIN both
                 PROVE  LabelledFor(both[i].plaintext, both[i].label)
      OBVIOUS
    <2>1. \/ i \in DOMAIN update.encrypted /\ both[i] = update.encrypted[i]
          \/ i \in DOMAIN orig.encrypted /\ both[i] = orig.encrypted[i]
      BY DEF Overlay
    <2> HIDE DEF both
    <2> QED BY <2>1 DEF WellLabelled
  <1> HIDE DEF new, tmeta, both
  <1>5. IsSealedSecret(new)
    BY <1>1, <1>2, <1>3 DEF IsSealedSecret
  <1>6. WellLabelled(new)
    BY <1>1, <1>4 DEF WellLabelled
  <1> QED BY <1>5, <1>6 DEF new

LEMMA PlaintextsTyped ==
  ASSUME NEW s, IsSealedSecret(s)
  PROVE  IsPartial([i \in DOMAIN s.encrypted |-> s.encrypted[i].plaintext], Items, Contents)
  <1>1. \A i \in DOMAIN s.encrypted : i \in Items /\ s.encrypted[i] \in Ciphertexts
    BY DEF IsSealedSecret, IsPartial
  <1>2. \A i \in DOMAIN s.encrypted : s.encrypted[i].plaintext \in Contents
    BY <1>1 DEF Ciphertexts, Contents
  <1> QED BY <1>1, <1>2 DEF IsPartial

-----------------------------------------------------------------------------
(* The inductive invariant.                                                *)

THEOREM InitInv == Init => IInv
  BY EditsAssumption DEF Init, IInv, TypeOK, Labelled, IsPartial, NoEntries

LEMMA StutterInv == IInv /\ UNCHANGED vars => IInv'
  BY DEF IInv, TypeOK, Labelled, vars

LEMMA FailsInv ==
  ASSUME IInv, NEW how \in {"error", "panic"}, Fails(how)
  PROVE  IInv'
  BY DEF Fails, IInv, TypeOK, Labelled

\* A command that stores a sound file keeps the invariant.
LEMMA StoreInv ==
  ASSUME IInv, UNCHANGED <<held, latest, cert>>,
         file' # None => IsSealedSecret(file') /\ WellLabelled(file'),
         IsPartial(meant', Items, Contents),
         outcome' \in {"ok", "error", "panic", "killed"}, edits' \in 0..MaxEdits,
         tidy' \in BOOLEAN, retired' \subseteq held \ {latest}
  PROVE  IInv'
  <1>1. TypeOK'
    <2>1. held' \subseteq Keys /\ latest' \in held' /\ cert' \in held'
          /\ retired' \subseteq held' \ {latest'}
      BY DEF IInv, TypeOK
    <2>2. IsPartial(meant', Items, Plaintexts \cup {Blank})
      BY DEF Contents
    <2> QED BY <2>1, <2>2 DEF TypeOK
  <1>2. Labelled'
    BY DEF Labelled
  <1> QED BY <1>1, <1>2 DEF IInv

LEMMA NewFileInv ==
  ASSUME IInv, NEW c \in Commands, NewFile(c.secret, c.opts)
  PROVE  IInv'
  <1> DEFINE new == Sealed(c.secret, c.opts)
  <1>1. CASE new = None
    BY <1>1, FailsInv DEF NewFile
  <1>2. CASE new # None
    <2>1. /\ file' = new /\ outcome' = "ok" /\ tidy' = TRUE
          /\ meant' = [i \in DOMAIN new.encrypted |-> new.encrypted[i].plaintext]
          /\ retired' = retired \ {cert}
          /\ UNCHANGED <<held, latest, cert, edits>>
      BY <1>2 DEF NewFile
    <2>2. IsSealedSecret(new) /\ WellLabelled(new)
      <3>1. IsPartial(c.secret.data, Items, Values)
        BY CommandsAssumption
      <3>2. c.secret.meta \in Metadata /\ c.opts \in Options
        BY CommandsAssumption
      <3>3. cert \in Keys
        BY DEF IInv, TypeOK
      <3>4. /\ c.opts.scope \in Scopes /\ c.opts.context \in Namespaces
            /\ c.opts.name \in SecretNames \cup {None}
            /\ c.opts.ns \in Namespaces \cup {None}
        BY <3>2 DEF Options
      <3> QED BY <1>2, <3>1, <3>2, <3>3, <3>4, SealedInv
    <2> HIDE DEF new
    <2>3. IsPartial(meant', Items, Contents)
      BY <2>1, <2>2, PlaintextsTyped
    <2> QED BY <2>1, <2>2, <2>3, StoreInv DEF IInv, TypeOK
  <1> QED BY <1>1, <1>2

LEMMA OldFileInv ==
  ASSUME IInv, NEW secret \in OldSecrets, OldFile(secret)
  PROVE  IInv'
  <1> DEFINE new == NewSealedSecretV1(cert, TaggedSecret(secret))
  <1>1. /\ new # None /\ file' = new /\ outcome' = "ok" /\ tidy' = TRUE
        /\ meant' = TaggedSecret(secret).data
        /\ retired' = retired \ {cert}
        /\ UNCHANGED <<held, latest, cert, edits>>
    BY DEF OldFile
  <1>2. IsSealedSecret(new) /\ WellLabelled(new)
        /\ new.blob # None /\ new.blob.plaintext = TaggedSecret(secret)
    BY <1>1, OldSealedSecret DEF IInv, TypeOK
  <1> HIDE DEF new
  <1>3. IsPartial(meant', Items, Contents)
    BY <1>1, <1>2 DEF IsSealedSecret, IsBlob, IsPartial, Contents
  <1>4. edits' \in 0..MaxEdits /\ retired' \subseteq held \ {latest}
    BY <1>1 DEF IInv, TypeOK
  <1> QED BY <1>1, <1>2, <1>3, <1>4, StoreInv

LEMMA MergeInv ==
  ASSUME IInv, NEW c \in Commands, SealMergingInto(c.secret, c.opts)
  PROVE  IInv'
  <1> DEFINE opts == [c.opts EXCEPT !.name = file.meta.name, !.ns = file.meta.ns]
             update == Sealed(c.secret, opts)
             merged == Merged(file, update)
  <1>1. CASE update = None \/ MergePanics(file, update)
    BY <1>1, FailsInv DEF SealMergingInto, Update, Merges
  <1>2. CASE update # None /\ ~MergePanics(file, update)
    <2>1. /\ file # None
          /\ file' = merged /\ outcome' = "ok"
          /\ meant' = Overlay(meant, [i \in DOMAIN update.encrypted |->
                                         update.encrypted[i].plaintext])
          /\ tidy' = (tidy /\ LabelFor(update.meta) = LabelFor(file.meta))
          /\ retired' = retired \ {cert}
          /\ UNCHANGED <<held, latest, cert, edits>>
      BY <1>2 DEF SealMergingInto, Update, Merges
    <2>2. IsSealedSecret(file) /\ WellLabelled(file)
      BY <2>1 DEF IInv, TypeOK, Labelled
    <2>3. IsSealedSecret(update) /\ WellLabelled(update)
      <3>1. IsPartial(c.secret.data, Items, Values)
        BY CommandsAssumption
      <3>2. c.secret.meta \in Metadata /\ c.opts \in Options
        BY CommandsAssumption
      <3>3. cert \in Keys
        BY DEF IInv, TypeOK
      <3>4. file.meta.ns \in Namespaces \cup {None} /\ file.meta.name \in SecretNames \cup {None}
        BY <2>2 DEF IsSealedSecret, Metadata
      <3>5. /\ opts.scope \in Scopes /\ opts.context \in Namespaces
            /\ opts.name \in SecretNames \cup {None}
            /\ opts.ns \in Namespaces \cup {None}
        BY <3>2, <3>4 DEF Options
      <3> HIDE DEF opts
      <3> QED BY <1>2, <3>1, <3>2, <3>3, <3>5, SealedInv
    <2> HIDE DEF update
    <2>4. IsSealedSecret(merged) /\ WellLabelled(merged)
      BY <2>2, <2>3, MergedInv
    <2>5. IsPartial(meant', Items, Contents)
      <3>1. IsPartial(meant, Items, Contents)
        BY DEF IInv, TypeOK, Contents
      <3> QED BY <2>1, <2>3, <3>1, PlaintextsTyped, OverlayTyped
    <2>6. tidy' \in BOOLEAN
      BY <2>1
    <2> HIDE DEF merged
    <2>7. /\ outcome' \in {"ok", "error", "panic", "killed"} /\ edits' \in 0..MaxEdits
          /\ retired' \subseteq held \ {latest}
      BY <2>1 DEF IInv, TypeOK
    <2> QED BY <2>1, <2>4, <2>5, <2>6, <2>7, StoreInv
  <1> QED BY <1>1, <1>2

LEMMA KilledInv ==
  ASSUME IInv, NEW c \in Commands, KilledMerging(c.secret, c.opts)
  PROVE  IInv'
  <1>1. IsPartial(NoEntries, Items, Contents)
    BY DEF IsPartial, NoEntries
  <1> QED BY <1>1, StoreInv DEF KilledMerging, IInv, TypeOK

LEMMA ExpectedTyped ==
  ASSUME IInv, file # None,
         file.blob = None =>
            \A i \in DOMAIN file.template.data : file.template.data[i] # Malformed
  PROVE  IsPartial(Expected, Items, Contents)
  <1>1. IsPartial(meant, Items, Contents)
    BY DEF IInv, TypeOK, Contents
  <1>2. IsPartial(file.template.data, Items, Items \cup {Malformed})
    BY DEF IInv, TypeOK, IsSealedSecret
  <1>3. file.blob = None => IsPartial(Rendered(file.template.data, meant), Items, Contents)
    BY <1>1, <1>2 DEF IsPartial, Rendered, Execute, Contents
  <1> QED BY <1>1, <1>3, OverlayTyped DEF Expected

LEMMA ReEncryptInv == IInv /\ ReEncrypt => IInv'
  <1> SUFFICES ASSUME IInv, ReEncrypt PROVE IInv'
    OBVIOUS
  <1> DEFINE rotated == Rotate(held, latest, file)
  <1>1. CASE rotated = None
    BY <1>1, FailsInv DEF ReEncrypt
  <1>2. CASE rotated # None
    <2>1. /\ file # None /\ file' = rotated /\ outcome' = "ok" /\ meant' = Expected
          /\ retired' = held \ {latest}
          /\ UNCHANGED <<held, latest, cert, edits, tidy>>
      BY <1>2 DEF ReEncrypt
    <2>2. IsSealedSecret(file) /\ WellLabelled(file) /\ latest \in Keys
      BY <2>1 DEF IInv, TypeOK, Labelled
    <2>3. IsSealedSecret(rotated) /\ WellLabelled(rotated)
      BY <1>2, <2>2, RotateInv
    <2>4. ASSUME file.blob = None
          PROVE  \A i \in DOMAIN file.template.data : file.template.data[i] # Malformed
      <3>1. PICK t :
               /\ ~UnsealErrs(held, t)
               /\ t.template.data = file.template.data /\ t.blob = file.blob
        BY <1>2, <2>2, RotateDoes
      <3>2. \A i \in DOMAIN t.template.data :
               Rendered(t.template.data, Decrypted(held, t))[i] # Malformed
        BY <2>4, <3>1, ItemsOpen
      <3> QED BY <3>1, <3>2 DEF Rendered, Execute
    <2>5. IsPartial(meant', Items, Contents)
      BY <2>1, <2>4, ExpectedTyped
    <2> HIDE DEF rotated
    <2> QED BY <2>1, <2>3, <2>5, StoreInv DEF IInv, TypeOK
  <1> QED BY <1>1, <1>2

-----------------------------------------------------------------------------
(* The owner's edits.                                                      *)

\* An edit changes the file and what is meant by it, and may drop retired keys.
LEMMA EditInv ==
  ASSUME IInv, Edit,
         file # None /\ IsSealedSecret(file) /\ WellLabelled(file)
            => IsSealedSecret(file') /\ WellLabelled(file'),
         IsPartial(meant', Items, Contents), tidy' \in BOOLEAN, retired' \subseteq retired
  PROVE  IInv'
  <1>1. IsSealedSecret(file') /\ WellLabelled(file')
    BY DEF Edit, IInv, TypeOK, Labelled
  <1>2. edits' \in 0..MaxEdits
    BY EditsAssumption DEF Edit, IInv, TypeOK
  <1>3. /\ UNCHANGED <<held, latest, cert>>
        /\ outcome' \in {"ok", "error", "panic", "killed"}
        /\ retired' \subseteq held \ {latest}
    BY DEF Edit, keyVars, IInv, TypeOK
  <1> QED BY <1>1, <1>2, <1>3, StoreInv

LEMMA MeantTyped ==
  ASSUME IInv
  PROVE  IsPartial(meant, Items, Contents) /\ tidy \in BOOLEAN
  BY DEF IInv, TypeOK, Contents

LEMMA MoveInv ==
  ASSUME IInv, NEW meta \in Metas, Move(meta)
  PROVE  IInv'
  <1>1. Edit /\ file' = [file EXCEPT !.meta = meta]
        /\ tidy' \in BOOLEAN /\ UNCHANGED <<meant, retired>>
    BY MeantTyped DEF Move
  <1>2. ASSUME IsSealedSecret(file), WellLabelled(file)
        PROVE  IsSealedSecret(file') /\ WellLabelled(file')
    <2>1. file' = [meta |-> meta, template |-> file.template, encrypted |-> file.encrypted,
                   blob |-> file.blob]
      BY <1>1, <1>2 DEF IsSealedSecret
    <2> QED BY <1>2, <2>1, MetasAssumption DEF IsSealedSecret, WellLabelled
  <1> QED BY <1>1, <1>2, MeantTyped, EditInv

LEMMA TemplateMetadataInv ==
  ASSUME IInv, NEW meta \in Metas, EditTemplateMetadata(meta)
  PROVE  IInv'
  <1>1. Edit /\ file' = [file EXCEPT !.template.meta = meta]
        /\ UNCHANGED <<meant, tidy, retired>>
    BY DEF EditTemplateMetadata
  <1>2. ASSUME IsSealedSecret(file), WellLabelled(file)
        PROVE  IsSealedSecret(file') /\ WellLabelled(file')
    <2>1. file' = [meta |-> file.meta,
                   template |-> [meta |-> meta, data |-> file.template.data],
                   encrypted |-> file.encrypted,
                   blob |-> file.blob]
      BY <1>1, <1>2 DEF IsSealedSecret
    <2> QED BY <1>2, <2>1, MetasAssumption DEF IsSealedSecret, WellLabelled
  <1> QED BY <1>1, <1>2, MeantTyped, EditInv

LEMMA TemplateDataInv ==
  ASSUME IInv, NEW i \in Items, NEW text \in Items \cup {Malformed}, EditTemplateData(i, text)
  PROVE  IInv'
  <1> DEFINE entry == [x \in {i} |-> text]
             texts == Overlay(file.template.data, entry)
  <1>1. Edit /\ file' = [file EXCEPT !.template.data = texts]
        /\ UNCHANGED <<meant, tidy, retired>>
    BY DEF EditTemplateData
  <1>2. ASSUME IsSealedSecret(file), WellLabelled(file)
        PROVE  IsSealedSecret(file') /\ WellLabelled(file')
    <2>1. IsPartial(entry, Items, Items \cup {Malformed})
      BY DEF IsPartial
    <2>2. IsPartial(texts, Items, Items \cup {Malformed})
      BY <1>2, <2>1, OverlayTyped DEF IsSealedSecret
    <2> HIDE DEF texts
    <2>3. file' = [meta |-> file.meta,
                   template |-> [meta |-> file.template.meta, data |-> texts],
                   encrypted |-> file.encrypted,
                   blob |-> file.blob]
      BY <1>1, <1>2 DEF IsSealedSecret
    <2> QED BY <1>2, <2>2, <2>3 DEF IsSealedSecret, WellLabelled
  <1> QED BY <1>1, <1>2, MeantTyped, EditInv

LEMMA RemoveItemInv ==
  ASSUME IInv, NEW i \in Items, RemoveItem(i)
  PROVE  IInv'
  <1> DEFINE rest == [x \in DOMAIN file.encrypted \ {i} |-> file.encrypted[x]]
  <1>1. /\ Edit /\ file' = [file EXCEPT !.encrypted = rest]
        /\ meant' = [x \in DOMAIN meant \ {i} |-> meant[x]]
        /\ UNCHANGED <<tidy, retired>>
    BY DEF RemoveItem
  <1>2. ASSUME IsSealedSecret(file), WellLabelled(file)
        PROVE  IsSealedSecret(file') /\ WellLabelled(file')
    <2>1. IsPartial(rest, Items, Ciphertexts)
      BY <1>2 DEF IsSealedSecret, IsPartial
    <2>2. \A x \in DOMAIN rest : LabelledFor(rest[x].plaintext, rest[x].label)
      BY <1>2 DEF WellLabelled
    <2> HIDE DEF rest
    <2>3. file' = [meta |-> file.meta, template |-> file.template, encrypted |-> rest,
                   blob |-> file.blob]
      BY <1>1, <1>2 DEF IsSealedSecret
    <2> QED BY <1>2, <2>1, <2>2, <2>3 DEF IsSealedSecret, WellLabelled
  <1>3. IsPartial(meant', Items, Contents)
    BY <1>1, MeantTyped DEF IsPartial
  <1> QED BY <1>1, <1>2, <1>3, MeantTyped, EditInv

LEMMA PasteInv ==
  ASSUME IInv, NEW i \in Items, NEW value \in Values, NEW meta \in Metas,
         PasteRawItem(i, value, meta)
  PROVE  IInv'
  <1> DEFINE scope == SecretScope(meta)
             plaintext == Tagged([x \in {i} |-> value], meta)[i]
             item == EncryptSecretItem(cert, meta.name, meta.ns, plaintext, scope)
             all == Overlay(file.encrypted, [x \in {i} |-> item])
  <1>1. /\ Edit
        /\ scope # "cluster-wide" => meta.ns # None
        /\ file' = [file EXCEPT !.encrypted = all]
        /\ tidy' \in BOOLEAN
        /\ meant' = Overlay(meant, [x \in {i} |-> plaintext])
        /\ retired' = retired \ {cert}
    BY DEF PasteRawItem
  <1>2. plaintext = [value |-> value, scope |-> scope, ns |-> meta.ns, name |-> meta.name]
    BY DEF Tagged
  <1>3. plaintext \in Plaintexts
    BY <1>2, ScopeTyped, MetasAssumption DEF Plaintexts, Metadata
  <1>4. /\ item.key = cert /\ item.plaintext = plaintext
        /\ item.label = EncryptionLabel(meta.ns, meta.name, scope)
        /\ item \in [key : {cert}, label : {item.label}, plaintext : {plaintext}]
    BY DEF EncryptSecretItem, HybridEncrypt
  <1>5. item \in Ciphertexts
    <2>1. item.label \in Labels
      BY <1>4, ScopeTyped, MetasAssumption DEF Metadata, Labels
    <2>2. cert \in Keys
      BY DEF IInv, TypeOK
    <2> HIDE DEF item, plaintext
    <2> QED BY <1>3, <1>4, <2>1, <2>2 DEF Ciphertexts
  <1>6. LabelledFor(item.plaintext, item.label)
    <2> HIDE DEF item, plaintext
    <2> QED BY <1>1, <1>2, <1>4 DEF LabelledFor
  <1> HIDE DEF item, plaintext
  <1>7. ASSUME IsSealedSecret(file), WellLabelled(file)
        PROVE  IsSealedSecret(file') /\ WellLabelled(file')
    <2>1. IsPartial([x \in {i} |-> item], Items, Ciphertexts)
      BY <1>5 DEF IsPartial
    <2>2. IsPartial(all, Items, Ciphertexts)
      BY <1>7, <2>1, OverlayTyped DEF IsSealedSecret
    <2>3. \A x \in DOMAIN all : LabelledFor(all[x].plaintext, all[x].label)
      <3>1. \A x \in DOMAIN all :
               \/ all[x] = item
               \/ x \in DOMAIN file.encrypted /\ all[x] = file.encrypted[x]
        BY DEF Overlay
      <3> HIDE DEF all
      <3> QED BY <1>6, <1>7, <3>1 DEF WellLabelled
    <2> HIDE DEF all
    <2>4. file' = [meta |-> file.meta, template |-> file.template, encrypted |-> all,
                   blob |-> file.blob]
      BY <1>1, <1>7 DEF IsSealedSecret
    <2> QED BY <1>7, <2>2, <2>3, <2>4 DEF IsSealedSecret, WellLabelled
  <1>8. IsPartial(meant', Items, Contents)
    <2>1. IsPartial([x \in {i} |-> plaintext], Items, Contents)
      BY <1>3 DEF IsPartial, Contents
    <2> QED BY <1>1, <2>1, MeantTyped, OverlayTyped
  <1>9. Edit /\ tidy' \in BOOLEAN /\ retired' \subseteq retired
    BY <1>1
  <1> QED BY <1>7, <1>8, <1>9, EditInv

-----------------------------------------------------------------------------
(* The keys.                                                               *)

LEMMA KeysInv ==
  ASSUME IInv, (\E k \in Keys : RegisterKey(k)) \/ FetchCert \/ PurgeKeys
  PROVE  IInv'
  <1>1. /\ held' \subseteq Keys /\ latest' \in held' /\ cert' \in held'
        /\ retired' \subseteq held' \ {latest'}
    BY DEF RegisterKey, FetchCert, PurgeKeys, IInv, TypeOK
  <1>2. UNCHANGED <<file, outcome, edits, meant, tidy>>
    BY DEF RegisterKey, FetchCert, PurgeKeys
  <1>3. TypeOK'
    BY <1>1, <1>2 DEF IInv, TypeOK
  <1> QED BY <1>2, <1>3 DEF IInv, Labelled

\* Every step keeps the types and the labels.
THEOREM NextInv == IInv /\ [Next]_vars => IInv'
  <1> SUFFICES ASSUME IInv, [Next]_vars PROVE IInv'
    OBVIOUS
  <1>1. CASE UNCHANGED vars
    BY <1>1, StutterInv
  <1>2. CASE (\E k \in Keys : RegisterKey(k)) \/ FetchCert \/ PurgeKeys
    BY <1>2, KeysInv
  <1>3. CASE \E c \in Commands : NewFile(c.secret, c.opts)
    BY <1>3, NewFileInv
  <1>4. CASE \E c \in Commands : SealMergingInto(c.secret, c.opts)
    BY <1>4, MergeInv
  <1>5. CASE \E c \in Commands : KilledMerging(c.secret, c.opts)
    BY <1>5, KilledInv
  <1>6. CASE ReEncrypt
    BY <1>6, ReEncryptInv
  <1>7. CASE \E meta \in Metas : Move(meta)
    BY <1>7, MoveInv
  <1>8. CASE \E meta \in Metas : EditTemplateMetadata(meta)
    BY <1>8, TemplateMetadataInv
  <1>9. CASE \E i \in Items, text \in Items \cup {Malformed} : EditTemplateData(i, text)
    BY <1>9, TemplateDataInv
  <1>10. CASE \E i \in Items : RemoveItem(i)
    BY <1>10, RemoveItemInv
  <1>11. CASE \E i \in Items, value \in Values, meta \in Metas : PasteRawItem(i, value, meta)
    BY <1>11, PasteInv
  <1>12. CASE \E secret \in OldSecrets : OldFile(secret)
    BY <1>12, OldFileInv
  <1> QED
    BY <1>1, <1>2, <1>3, <1>4, <1>5, <1>6, <1>7, <1>8, <1>9, <1>10, <1>11, <1>12 DEF Next

-----------------------------------------------------------------------------
(* The theorems.                                                           *)

LEMMA IInvScopeHolds == IInv => ScopeHolds
  <1> SUFFICES ASSUME IInv, file # None, ~UnsealErrs(held, file),
                      NEW i \in DOMAIN Unseal(held, file).data,
                      Unseal(held, file).data[i] # Blank
               PROVE  Permits(Unseal(held, file).data[i], Unseal(held, file).meta)
    BY DEF ScopeHolds
  <1> DEFINE secret == Unseal(held, file)
             p == secret.data[i]
  <1>1. IsSealedSecret(file) /\ WellLabelled(file)
    BY DEF IInv, TypeOK, Labelled
  <1>2. /\ secret.meta.ns = file.meta.ns /\ secret.meta.name = file.meta.name
        /\ IsPartial(secret.data, Items, Contents)
    BY <1>1, UnsealTyped
  <1>3. LabelledFor(p, LabelFor(file.meta))
    BY <1>1, UnsealLabelled
  <1> HIDE DEF secret
  <1>4. p \in Plaintexts
    BY <1>2 DEF IsPartial, Contents, secret
  <1> HIDE DEF p
  <1>5. p # Blank
    BY DEF p, secret
  <1>6. Permits(p, file.meta)
    BY <1>3, <1>4, <1>5, LabelPermits DEF LabelledFor, Plaintexts
  <1>7. Permits(p, secret.meta)
    BY <1>2, <1>6 DEF Permits
  <1> QED BY <1>7 DEF p, secret

\* The types, and that each ciphertext has the label of its place, always hold.
THEOREM Inductive == Spec => []IInv
  BY InitInv, NextInv, PTL DEF Spec

\* The variables of SealedFile keep their types.
THEOREM TypeCorrect == Spec => []TypeOK
  <1>1. IInv => TypeOK
    BY DEF IInv
  <1> QED BY <1>1, Inductive, PTL

\* Whatever the owner merges, edits and re-encrypts, and whichever keys come
\* and go, no value is unsealed outside of the scope it was sealed for.
THEOREM ScopesAreKept == Spec => []ScopeHolds
  BY IInvScopeHolds, Inductive, PTL
=============================================================================
