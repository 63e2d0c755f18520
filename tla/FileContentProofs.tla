------------------------- MODULE FileContentProofs -------------------------
(***************************************************************************)
(* What a file unseals to: a re-encryption changes nothing but the keys,   *)
(* and a file whose owner kept to its scope unseals to what was put in.    *)
(* The second needs more than the types and labels of SealedFileProofs:    *)
(* Whole says that the ciphertexts of such a file are those of the values  *)
(* put in, have the label of the file, and need no key that is retired.    *)
(***************************************************************************)
EXTENDS SealedFileProofs

WholeItems(f, m) ==
    /\ DOMAIN m = DOMAIN f.encrypted
    /\ \A i \in DOMAIN m : f.encrypted[i].plaintext = m[i]
                           /\ f.encrypted[i].label = LabelFor(f.meta)

WholeBlob(f, m) ==
    /\ DOMAIN f.encrypted = {}
    /\ f.blob.plaintext.data = m /\ f.blob.label = LabelFor(f.meta)

WholeFile(f, m) == IF f.blob = None THEN WholeItems(f, m) ELSE WholeBlob(f, m)

KeysAtHand(f, keys) ==
    /\ \A i \in DOMAIN f.encrypted : f.encrypted[i].key \in keys
    /\ f.blob # None => f.blob.key \in keys

Whole == file # None /\ tidy = TRUE => WholeFile(file, meant) /\ KeysAtHand(file, held \ retired)

-----------------------------------------------------------------------------
(* Sealing and unsealing.                                                  *)

\* The right key and the right label open a ciphertext.
LEMMA Decrypts ==
  ASSUME NEW keys, NEW c, c.key \in keys, c.plaintext # None
  PROVE  HybridDecrypt(keys, c, c.label) = c.plaintext
  BY DEF HybridDecrypt, SingleDecrypt

LEMMA RenderedIsSound ==
  ASSUME NEW texts, NEW data, NEW i \in DOMAIN texts, texts[i] # Malformed,
         \A j \in DOMAIN data : data[j] \in Contents
  PROVE  Rendered(texts, data)[i] \in Contents
  BY DEF Rendered, Execute, Contents

\* A whole file unseals to what is meant by it.
LEMMA WholeUnseals ==
  ASSUME NEW keys, NEW f, NEW m, IsSealedSecret(f), f.blob = None,
         WholeFile(f, m), KeysAtHand(f, keys),
         IsPartial(m, Items, Contents),
         \A i \in DOMAIN f.template.data : f.template.data[i] # Malformed
  PROVE  /\ ~UnsealErrs(keys, f)
         /\ Unseal(keys, f).data = Overlay(m, Rendered(f.template.data, m))
  <1> DEFINE data == Decrypted(keys, f)
  <1>1. \A i \in DOMAIN m : m[i] \in Contents /\ m[i] # None
    BY ContentsAssumption DEF IsPartial, Contents
  <1>2. DOMAIN data = DOMAIN m /\ \A i \in DOMAIN m : data[i] = m[i]
    BY <1>1, Decrypts DEF Decrypted, WholeFile, WholeItems, KeysAtHand
  <1>3. data = m
    <2>1. data = [i \in DOMAIN data |-> data[i]]
      BY DEF Decrypted
    <2>2. m = [i \in DOMAIN m |-> m[i]]
      BY DEF IsPartial
    <2> HIDE DEF data
    <2> QED BY <1>2, <2>1, <2>2
  <1>4. \A i \in DOMAIN f.template.data : Rendered(f.template.data, m)[i] # Malformed
    BY <1>1, RenderedIsSound, ContentsAssumption DEF Contents
  <1>5. ~UnsealErrs(keys, f)
    BY <1>1, <1>3, <1>4 DEF UnsealErrs, ItemErrs
  <1>6. Content(keys, f).data = Overlay(data, Rendered(f.template.data, data))
    BY <1>5, ItemsOpen
  <1> QED BY <1>3, <1>5, <1>6, UnsealedData

LEMMA WholeBlobUnseals ==
  ASSUME NEW keys, NEW f, NEW m, IsSealedSecret(f), f.blob # None, AcceptDeprecatedV1Data,
         f.blob.plaintext # None, WholeFile(f, m), KeysAtHand(f, keys)
  PROVE  ~UnsealErrs(keys, f) /\ Unseal(keys, f).data = m
  <1>1. /\ DOMAIN f.encrypted = {}
        /\ f.blob.plaintext.data = m /\ f.blob.label = LabelFor(f.meta)
        /\ f.blob.key \in keys
    BY DEF WholeFile, WholeBlob, KeysAtHand
  <1>2. Opened(keys, f) = f.blob.plaintext
    BY <1>1, Decrypts DEF Opened
  <1>3. ~UnsealErrs(keys, f)
    BY <1>1, <1>2 DEF UnsealErrs, BlobErrs
  <1>4. Content(keys, f) = f.blob.plaintext
    BY <1>2 DEF Content
  <1> QED BY <1>1, <1>3, <1>4, UnsealedData

\* What is in a new SealedSecret.
LEMMA NewIsWhole ==
  ASSUME NEW key \in Keys, NEW secret, secret.meta \in Metadata,
         IsPartial(secret.data, Items, Contents), NewSealedSecret(key, secret) # None
  PROVE  LET new == NewSealedSecret(key, secret)
         IN  /\ WholeFile(new, secret.data) /\ KeysAtHand(new, {key})
             /\ new.template.data = NoEntries /\ new.blob = None
             /\ new.meta.ns = secret.meta.ns /\ new.meta.name = secret.meta.name
             /\ LabelFor(new.meta) = LabelFor(secret.meta)
  <1> DEFINE new == NewSealedSecret(key, secret)
             label == LabelFor(secret.meta)
  <1>1. LabelFor(new.meta) = label /\ new.blob = None
    BY NewSealedSecretTyped
  <1>2. /\ new.encrypted = [i \in DOMAIN secret.data |-> HybridEncrypt(key, secret.data[i], label)]
        /\ new.template.data = NoEntries
        /\ new.meta.ns = secret.meta.ns /\ new.meta.name = secret.meta.name
    BY DEF NewSealedSecret
  <1> HIDE DEF new, label
  <1>3. WholeFile(new, secret.data) /\ KeysAtHand(new, {key})
    BY <1>1, <1>2 DEF WholeFile, WholeItems, KeysAtHand, HybridEncrypt
  <1> QED BY <1>1, <1>2, <1>3 DEF new, label

\* Rotate seals what the SealedSecret unseals to, for the same place.
LEMMA RotateContent ==
  ASSUME NEW keys \in SUBSET Keys, NEW key \in keys, NEW s, IsSealedSecret(s),
         WellLabelled(s), Rotate(keys, key, s) # None
  PROVE  LET new == Rotate(keys, key, s)
         IN  /\ ~UnsealErrs(keys, s)
             /\ WholeFile(new, Unseal(keys, s).data) /\ KeysAtHand(new, {key})
             /\ IsPartial(Unseal(keys, s).data, Items, Contents)
             /\ new.template.data = NoEntries /\ new.blob = None
             /\ new.meta.ns = s.meta.ns /\ new.meta.name = s.meta.name
             /\ LabelFor(new.meta) = LabelFor(s.meta)
  <1>1. PICK t :
           /\ IsSealedSecret(t) /\ WellLabelled(t) /\ ~UnsealErrs(keys, t)
           /\ t.meta = s.meta /\ t.template.data = s.template.data
           /\ t.encrypted = s.encrypted /\ t.blob = s.blob
           /\ Rotate(keys, key, s) = NewSealedSecret(key, Unseal(keys, t))
           /\ Unseal(keys, t).meta \in Metadata
           /\ Unseal(keys, t).meta.ns = s.meta.ns /\ Unseal(keys, t).meta.name = s.meta.name
           /\ IsPartial(Unseal(keys, t).data, Items, Contents)
           /\ LabelFor(Unseal(keys, t).meta) = LabelFor(s.meta)
    BY RotateDoes
  <1> DEFINE secret == Unseal(keys, t)
  <1>2. Decrypted(keys, t) = Decrypted(keys, s) /\ Opened(keys, t) = Opened(keys, s)
    BY <1>1 DEF Decrypted, Opened
  <1>3. ~UnsealErrs(keys, s)
    BY <1>1, <1>2 DEF UnsealErrs, ItemErrs, BlobErrs
  <1>4. Content(keys, t).data = Content(keys, s).data
    BY <1>1, <1>2 DEF Content
  <1>5. secret.data = Unseal(keys, s).data
    BY <1>1, <1>3, <1>4, UnsealedData
  <1> HIDE DEF secret
  <1>6. /\ secret.meta \in Metadata /\ IsPartial(secret.data, Items, Contents)
        /\ secret.meta.ns = s.meta.ns /\ secret.meta.name = s.meta.name
        /\ LabelFor(secret.meta) = LabelFor(s.meta)
        /\ Rotate(keys, key, s) = NewSealedSecret(key, secret)
    BY <1>1 DEF secret
  <1> QED BY <1>3, <1>5, <1>6, NewIsWhole

-----------------------------------------------------------------------------
(* Re-encryption.                                                          *)

LEMMA ReEncrypted ==
  ASSUME ReEncrypt, Rotate(held, latest, file) # None
  PROVE  /\ file # None
         /\ file' = Rotate(held, latest, file)
         /\ retired' = held \ {latest} /\ meant' = Expected
         /\ UNCHANGED <<held, latest, cert, tidy>>
  BY DEF ReEncrypt

LEMMA StepKeepsContent ==
  ASSUME IInv, ReEncrypt, file' # file
  PROVE  /\ ~UnsealErrs(held, file) /\ ~UnsealErrs(held, file')
         /\ Unseal(held, file').data = Unseal(held, file).data
         /\ file'.meta.ns = file.meta.ns /\ file'.meta.name = file.meta.name
         /\ LabelFor(file'.meta) = LabelFor(file.meta)
         /\ file'.blob = None
         /\ \A i \in DOMAIN file'.encrypted : file'.encrypted[i].key = latest
  <1> DEFINE new == Rotate(held, latest, file)
             content == Unseal(held, file).data
  <1>1. file # None /\ new # None /\ file' = new
    <2>1. new # None
      BY DEF ReEncrypt, Fails
    <2> QED BY <2>1, ReEncrypted
  <1>2. IsSealedSecret(file) /\ WellLabelled(file)
        /\ held \in SUBSET Keys /\ latest \in held /\ latest \in Keys
    BY <1>1 DEF IInv, TypeOK, Labelled
  <1>3. IsSealedSecret(new)
    BY <1>1, <1>2, RotateInv
  <1>4. /\ ~UnsealErrs(held, file)
        /\ WholeFile(new, content) /\ KeysAtHand(new, {latest})
        /\ IsPartial(content, Items, Contents)
        /\ new.template.data = NoEntries /\ new.blob = None
        /\ new.meta.ns = file.meta.ns /\ new.meta.name = file.meta.name
        /\ LabelFor(new.meta) = LabelFor(file.meta)
    BY <1>1, <1>2, RotateContent
  <1> HIDE DEF new, content
  <1>5. KeysAtHand(new, held)
    BY <1>2, <1>4 DEF KeysAtHand
  <1>6. \A i \in DOMAIN new.template.data : new.template.data[i] # Malformed
    BY <1>4 DEF NoEntries
  <1>7. /\ ~UnsealErrs(held, new)
        /\ Unseal(held, new).data = Overlay(content, Rendered(new.template.data, content))
    BY <1>3, <1>4, <1>5, <1>6, WholeUnseals
  <1>8. Overlay(content, Rendered(new.template.data, content)) = content
    <2>1. content = [i \in DOMAIN content |-> content[i]]
      BY <1>4 DEF IsPartial
    <2>2. DOMAIN Rendered(new.template.data, content) = {}
      BY <1>4 DEF Rendered, NoEntries
    <2> QED BY <2>1, <2>2 DEF Overlay
  <1> QED BY <1>1, <1>4, <1>7, <1>8 DEF KeysAtHand, content

\* Re-encryption keeps the values, the place and the scope, for any file that
\* an owner can make, and leaves no ciphertext that needs an older key.
THEOREM RotationIsFaithful == Spec => RotationKeepsContent
  <1>1. IInv /\ [Next]_vars =>
          [ReEncrypt /\ file' # file =>
              /\ ~UnsealErrs(held, file) /\ ~UnsealErrs(held, file')
              /\ Unseal(held, file').data = Unseal(held, file).data
              /\ file'.meta.ns = file.meta.ns /\ file'.meta.name = file.meta.name
              /\ LabelFor(file'.meta) = LabelFor(file.meta)
              /\ file'.blob = None
              /\ \A i \in DOMAIN file'.encrypted : file'.encrypted[i].key = latest]_vars
    BY StepKeepsContent
  <1> QED BY <1>1, Inductive, PTL DEF Spec, RotationKeepsContent

-----------------------------------------------------------------------------
(* Whole is inductive.                                                     *)

LEMMA OverlayWhole ==
  ASSUME NEW f, NEW m, NEW g, NEW n, NEW enc, NEW keys,
         WholeFile(f, m), KeysAtHand(f, keys),
         DOMAIN n = DOMAIN enc,
         \A i \in DOMAIN n : /\ enc[i].plaintext = n[i]
                             /\ enc[i].label = LabelFor(f.meta)
                             /\ enc[i].key \in keys,
         f.blob = None, g.blob = None, g.meta = f.meta, g.encrypted = Overlay(f.encrypted, enc)
  PROVE  WholeFile(g, Overlay(m, n)) /\ KeysAtHand(g, keys)
  <1>1. DOMAIN Overlay(m, n) = DOMAIN g.encrypted
    BY DEF Overlay, WholeFile, WholeItems
  <1>2. ASSUME NEW i \in DOMAIN g.encrypted
        PROVE  /\ g.encrypted[i].plaintext = Overlay(m, n)[i]
               /\ g.encrypted[i].label = LabelFor(g.meta)
               /\ g.encrypted[i].key \in keys
    <2>1. CASE i \in DOMAIN enc
      <3>1. g.encrypted[i] = enc[i] /\ Overlay(m, n)[i] = n[i]
        BY <2>1 DEF Overlay, WholeFile, WholeItems
      <3> QED BY <2>1, <3>1
    <2>2. CASE i \notin DOMAIN enc
      <3>1. /\ i \in DOMAIN f.encrypted
            /\ g.encrypted[i] = f.encrypted[i] /\ Overlay(m, n)[i] = m[i]
        BY <2>2 DEF Overlay, WholeFile, WholeItems
      <3> QED BY <3>1 DEF WholeFile, WholeItems, KeysAtHand
    <2> QED BY <2>1, <2>2
  <1> QED BY <1>1, <1>2 DEF WholeFile, WholeItems, KeysAtHand

\* What kubeseal seals is whole, and opens with the key of the certificate.
LEMMA SealedWhole ==
  ASSUME cert \in Keys, NEW secret, NEW opts,
         secret.meta \in Metadata, IsPartial(secret.data, Items, Values),
         opts.scope \in Scopes, opts.name \in SecretNames \cup {None},
         opts.ns \in Namespaces \cup {None}, opts.context \in Namespaces,
         Sealed(secret, opts) # None
  PROVE  /\ Sealed(secret, opts).blob = None
         /\ \A i \in DOMAIN Sealed(secret, opts).encrypted :
               /\ Sealed(secret, opts).encrypted[i].label = LabelFor(Sealed(secret, opts).meta)
               /\ Sealed(secret, opts).encrypted[i].key = cert
  <1>1. PICK final :
            /\ Sealed(secret, opts) = NewSealedSecret(cert, final)
            /\ final.meta \in Metadata
            /\ IsPartial(final.data, Items, Contents)
    BY SealedIsNew
  <1>2. /\ WholeFile(Sealed(secret, opts), final.data) /\ KeysAtHand(Sealed(secret, opts), {cert})
        /\ Sealed(secret, opts).blob = None
    BY <1>1, NewIsWhole
  <1> QED BY <1>2 DEF WholeFile, WholeItems, KeysAtHand

\* The commands of kubeseal and the metadata of a file are fit for SealedWhole.
LEMMA CommandsFit ==
  ASSUME IInv, NEW c \in Commands
  PROVE  /\ c.secret.meta \in Metadata /\ IsPartial(c.secret.data, Items, Values)
         /\ c.opts.scope \in Scopes /\ c.opts.context \in Namespaces
         /\ c.opts.name \in SecretNames \cup {None}
         /\ c.opts.ns \in Namespaces \cup {None}
         /\ cert \in Keys
  <1>1. c.opts \in Options
    BY CommandsAssumption
  <1> QED BY <1>1, CommandsAssumption DEF Options, IInv, TypeOK

LEMMA UpdateFits ==
  ASSUME IInv, NEW c \in Commands, file # None, Update(c.secret, c.opts) # None
  PROVE  \A i \in DOMAIN Update(c.secret, c.opts).encrypted :
            /\ Update(c.secret, c.opts).encrypted[i].label
                  = LabelFor(Update(c.secret, c.opts).meta)
            /\ Update(c.secret, c.opts).encrypted[i].key = cert
  <1> DEFINE opts == [c.opts EXCEPT !.name = file.meta.name, !.ns = file.meta.ns]
  <1>1. file.meta.ns \in Namespaces \cup {None} /\ file.meta.name \in SecretNames \cup {None}
    BY DEF IInv, TypeOK, IsSealedSecret, Metadata
  <1>2. c.opts \in Options
    BY CommandsAssumption
  <1>3. /\ opts.scope \in Scopes /\ opts.context \in Namespaces
        /\ opts.name \in SecretNames \cup {None}
        /\ opts.ns \in Namespaces \cup {None}
    BY <1>1, <1>2 DEF Options
  <1>4. Update(c.secret, c.opts) = Sealed(c.secret, opts)
    BY DEF Update
  <1> HIDE DEF opts
  <1> QED BY <1>3, <1>4, CommandsFit, SealedWhole

LEMMA WholeNewFile ==
  ASSUME IInv, NEW c \in Commands, NewFile(c.secret, c.opts), Sealed(c.secret, c.opts) # None
  PROVE  Whole'
  <1> DEFINE new == Sealed(c.secret, c.opts)
  <1>1. /\ file' = new /\ held' = held
        /\ meant' = [i \in DOMAIN new.encrypted |-> new.encrypted[i].plaintext]
        /\ retired' = retired \ {cert}
    BY DEF NewFile
  <1>2. /\ new.blob = None
        /\ \A i \in DOMAIN new.encrypted : /\ new.encrypted[i].label = LabelFor(new.meta)
                                            /\ new.encrypted[i].key = cert
    BY CommandsFit, SealedWhole
  <1>3. cert \in held
    BY DEF IInv, TypeOK
  <1> HIDE DEF new
  <1>4. WholeFile(new, meant') /\ KeysAtHand(new, held' \ retired')
    BY <1>1, <1>2, <1>3 DEF WholeFile, WholeItems, KeysAtHand
  <1> QED BY <1>1, <1>4 DEF Whole

LEMMA WholeOldFile ==
  ASSUME IInv, NEW secret \in OldSecrets, OldFile(secret)
  PROVE  Whole'
  <1> DEFINE new == NewSealedSecretV1(cert, TaggedSecret(secret))
  <1>1. /\ new # None /\ file' = new /\ held' = held
        /\ meant' = TaggedSecret(secret).data
        /\ retired' = retired \ {cert}
    BY DEF OldFile
  <1>2. /\ new.encrypted = NoEntries
        /\ new.blob # None /\ new.blob.key = cert
        /\ new.blob.plaintext = TaggedSecret(secret)
        /\ new.blob.label = LabelFor(new.meta)
    BY <1>1, OldSealedSecret DEF IInv, TypeOK
  <1>3. cert \in held
    BY DEF IInv, TypeOK
  <1> HIDE DEF new
  <1>4. WholeFile(new, meant') /\ KeysAtHand(new, held' \ retired')
    BY <1>1, <1>2, <1>3 DEF WholeFile, WholeBlob, KeysAtHand, NoEntries
  <1> QED BY <1>1, <1>4 DEF Whole

LEMMA MergeDoes ==
  ASSUME NEW secret, NEW opts, SealMergingInto(secret, opts), Merges(Update(secret, opts))
  PROVE  /\ file # None /\ file' = Merged(file, Update(secret, opts))
         /\ held' = held /\ retired' = retired \ {cert}
         /\ meant' = Overlay(meant, [i \in DOMAIN Update(secret, opts).encrypted |->
                                        Update(secret, opts).encrypted[i].plaintext])
         /\ tidy' = (tidy /\ LabelFor(Update(secret, opts).meta) = LabelFor(file.meta))
  BY Zenon DEF SealMergingInto, Merges

LEMMA WholeMerge ==
  ASSUME IInv, Whole, NEW c \in Commands, SealMergingInto(c.secret, c.opts),
         Merges(Update(c.secret, c.opts)), tidy' = TRUE
  PROVE  Whole'
  <1> DEFINE update == Update(c.secret, c.opts)
             added == [i \in DOMAIN update.encrypted |-> update.encrypted[i].plaintext]
  <1>1. /\ file # None /\ update # None /\ file' = Merged(file, update)
        /\ held' = held /\ retired' = retired \ {cert}
        /\ meant' = Overlay(meant, added)
        /\ tidy' = (tidy /\ LabelFor(update.meta) = LabelFor(file.meta))
    BY MergeDoes DEF Merges
  <1>2. tidy = TRUE /\ LabelFor(update.meta) = LabelFor(file.meta)
    BY <1>1 DEF IInv, TypeOK
  <1>3. /\ IsSealedSecret(file) /\ cert \in held
        /\ WholeFile(file, meant) /\ KeysAtHand(file, held \ retired)
    BY <1>1, <1>2 DEF IInv, TypeOK, Whole
  <1>4. KeysAtHand(file, held' \ retired') /\ cert \in held' \ retired'
    BY <1>1, <1>3 DEF KeysAtHand
  <1>5. \A i \in DOMAIN added : /\ update.encrypted[i].plaintext = added[i]
                               /\ update.encrypted[i].label = LabelFor(file.meta)
                               /\ update.encrypted[i].key = cert
    BY <1>1, <1>2, UpdateFits
  <1>6. /\ file'.meta = file.meta /\ file'.blob = file.blob
        /\ file'.encrypted = Overlay(file.encrypted, update.encrypted)
    BY <1>1, <1>3 DEF Merged, IsSealedSecret
  <1>7. DOMAIN added = DOMAIN update.encrypted
    OBVIOUS
  <1>8. file.blob # None /\ DOMAIN file.encrypted = {} => DOMAIN added = {}
    BY <1>1, <1>7, MergeDoes DEF Merges, MergePanics
  <1> HIDE DEF update, added
  <1>9. ASSUME file.blob # None
        PROVE  WholeFile(file', meant') /\ KeysAtHand(file', held' \ retired')
    <2>1. DOMAIN file.encrypted = {} /\ file.blob.plaintext.data = meant
          /\ file.blob.label = LabelFor(file.meta)
      BY <1>3, <1>9 DEF WholeFile, WholeBlob
    <2>2. DOMAIN file'.encrypted = {}
      BY <1>6, <1>7, <1>8, <1>9, <2>1 DEF Overlay
    <2>3. meant' = meant
      <3>1. meant = [x \in DOMAIN meant |-> meant[x]]
        BY DEF IInv, TypeOK, IsPartial
      <3> QED BY <1>1, <1>8, <1>9, <2>1, <3>1 DEF Overlay, added
    <2>4. WholeFile(file', meant')
      BY <1>6, <1>9, <2>1, <2>2, <2>3 DEF WholeFile, WholeBlob
    <2> QED BY <1>4, <1>6, <2>2, <2>4 DEF KeysAtHand
  <1>10. ASSUME file.blob = None
         PROVE  WholeFile(file', meant') /\ KeysAtHand(file', held' \ retired')
    <2> DEFINE keys == held' \ retired'
    <2>1. \A i \in DOMAIN added : /\ update.encrypted[i].plaintext = added[i]
                                 /\ update.encrypted[i].label = LabelFor(file.meta)
                                 /\ update.encrypted[i].key \in keys
      BY <1>4, <1>5
    <2>2. WholeFile(file, meant) /\ KeysAtHand(file, keys)
      BY <1>3, <1>4
    <2> HIDE DEF keys
    <2>3. WholeFile(file', Overlay(meant, added)) /\ KeysAtHand(file', keys)
      BY <1>6, <1>7, <1>10, <2>1, <2>2, OverlayWhole
    <2> QED BY <1>1, <2>3 DEF keys, added
  <1> QED BY <1>9, <1>10 DEF Whole

LEMMA WholeReEncrypt ==
  ASSUME IInv, Whole, ReEncrypt, Rotate(held, latest, file) # None, tidy' = TRUE
  PROVE  Whole'
  <1> DEFINE content == Unseal(held, file).data
  <1>1. /\ file # None /\ file' = Rotate(held, latest, file) /\ file' # None
        /\ retired' = held \ {latest} /\ meant' = Expected /\ held' = held /\ tidy = TRUE
    BY ReEncrypted
  <1>2. /\ IsSealedSecret(file) /\ WellLabelled(file)
        /\ held \in SUBSET Keys /\ latest \in held
        /\ IsPartial(meant, Items, Contents)
        /\ WholeFile(file, meant) /\ KeysAtHand(file, held)
    BY <1>1 DEF IInv, TypeOK, Labelled, Whole, KeysAtHand, Contents
  <1>3. /\ ~UnsealErrs(held, file)
        /\ WholeFile(file', content) /\ KeysAtHand(file', {latest})
    BY <1>1, <1>2, RotateContent
  <1>4. ASSUME file.blob = None PROVE content = Expected
    <2>1. \A i \in DOMAIN file.template.data : file.template.data[i] # Malformed
      BY <1>3, <1>4, ItemsOpen DEF Rendered, Execute
    <2> QED BY <1>2, <1>4, <2>1, WholeUnseals DEF Expected
  <1>5. content = Expected
    <2>1. ASSUME file.blob # None PROVE content = meant
      BY <1>2, <1>3, <2>1, BlobOpens, UnsealedData DEF WholeFile, WholeBlob
    <2> QED BY <1>4, <2>1 DEF Expected
  <1>6. KeysAtHand(file', held' \ retired')
    BY <1>1, <1>2, <1>3 DEF KeysAtHand
  <1> HIDE DEF content
  <1>7. WholeFile(file', meant')
    BY <1>1, <1>3, <1>5
  <1> QED BY <1>6, <1>7 DEF Whole

LEMMA WholeEdits ==
  ASSUME IInv, Whole,
         \/ \E meta \in Metas : Move(meta) \/ EditTemplateMetadata(meta)
         \/ \E i \in Items, text \in Items \cup {Malformed} : EditTemplateData(i, text),
         tidy' = TRUE
  PROVE  Whole'
  <1>1. /\ Edit /\ tidy = TRUE /\ UNCHANGED <<meant, retired>>
        /\ LabelFor(file'.meta) = LabelFor(file.meta)
        /\ file'.encrypted = file.encrypted /\ file'.blob = file.blob
    <2>1. IsSealedSecret(file)
      BY DEF Move, EditTemplateMetadata, EditTemplateData, Edit, IInv, TypeOK
    <2>2. ASSUME NEW meta \in Metas, Move(meta) PROVE <1>1!:
      BY <2>1, <2>2 DEF Move, IsSealedSecret
    <2>3. ASSUME NEW meta \in Metas, EditTemplateMetadata(meta) PROVE <1>1!:
      BY <2>1, <2>3 DEF EditTemplateMetadata, IsSealedSecret
    <2>4. ASSUME NEW i \in Items, NEW text \in Items \cup {Malformed}, EditTemplateData(i, text)
          PROVE  <1>1!:
      BY <2>1, <2>4 DEF EditTemplateData, IsSealedSecret
    <2> QED BY <2>2, <2>3, <2>4
  <1>2. held' = held /\ file # None
    BY <1>1 DEF Edit, keyVars
  <1>3. WholeFile(file', meant') /\ KeysAtHand(file', held' \ retired')
    BY <1>1, <1>2 DEF Whole, WholeFile, WholeItems, WholeBlob, KeysAtHand
  <1> QED BY <1>3 DEF Whole

LEMMA WholeRemove ==
  ASSUME IInv, Whole, NEW i \in Items, RemoveItem(i), tidy' = TRUE
  PROVE  Whole'
  <1>1. /\ Edit /\ tidy = TRUE /\ retired' = retired
        /\ i \in DOMAIN file.encrypted
        /\ file' = [file EXCEPT !.encrypted = [x \in DOMAIN @ \ {i} |-> @[x]]]
        /\ meant' = [x \in DOMAIN meant \ {i} |-> meant[x]]
    BY DEF RemoveItem
  <1>2. file # None /\ held' = held
    BY <1>1 DEF Edit, keyVars
  <1>3. /\ IsSealedSecret(file)
        /\ WholeFile(file, meant) /\ KeysAtHand(file, held \ retired)
    BY <1>1, <1>2 DEF IInv, TypeOK, Whole
  <1>4. /\ file'.meta = file.meta /\ file'.blob = file.blob
        /\ file'.encrypted = [x \in DOMAIN file.encrypted \ {i} |-> file.encrypted[x]]
    BY <1>1, <1>3 DEF IsSealedSecret
  <1>5. file.blob = None /\ WholeItems(file, meant)
    BY <1>1, <1>3 DEF WholeFile, WholeBlob
  <1>6. WholeFile(file', meant') /\ KeysAtHand(file', held' \ retired')
    BY <1>1, <1>2, <1>3, <1>4, <1>5 DEF WholeFile, WholeItems, KeysAtHand
  <1> QED BY <1>6 DEF Whole

LEMMA WholePaste ==
  ASSUME IInv, Whole, NEW i \in Items, NEW value \in Values, NEW meta \in Metas,
         PasteRawItem(i, value, meta), tidy' = TRUE
  PROVE  Whole'
  <1> DEFINE plaintext == Tagged([x \in {i} |-> value], meta)[i]
             item == EncryptSecretItem(cert, meta.name, meta.ns, plaintext, SecretScope(meta))
             entry == [x \in {i} |-> item]
             added == [x \in {i} |-> plaintext]
  <1>1. /\ Edit
        /\ file' = [file EXCEPT !.encrypted = Overlay(@, entry)]
        /\ tidy' = (tidy /\ file.blob = None /\ item.label = LabelFor(file.meta))
        /\ meant' = Overlay(meant, added)
        /\ retired' = retired \ {cert}
    BY DEF PasteRawItem
  <1>2. tidy = TRUE /\ file.blob = None /\ item.label = LabelFor(file.meta)
    <2> HIDE DEF item
    <2> QED BY <1>1 DEF IInv, TypeOK
  <1>3. file # None /\ held' = held
    BY <1>1 DEF Edit, keyVars
  <1>4. /\ IsSealedSecret(file) /\ cert \in held
        /\ WholeFile(file, meant) /\ KeysAtHand(file, held \ retired)
    BY <1>2, <1>3 DEF IInv, TypeOK, Whole
  <1>5. item.key = cert /\ item.plaintext = plaintext
    BY DEF EncryptSecretItem, HybridEncrypt
  <1> HIDE DEF item, plaintext
  <1>6. KeysAtHand(file, held' \ retired') /\ cert \in held' \ retired'
    BY <1>1, <1>3, <1>4 DEF KeysAtHand
  <1>7. /\ DOMAIN added = DOMAIN entry
        /\ \A x \in DOMAIN added : /\ entry[x].plaintext = added[x]
                                   /\ entry[x].label = LabelFor(file.meta)
                                   /\ entry[x].key = cert
    BY <1>2, <1>5
  <1>8. /\ file'.meta = file.meta /\ file'.blob = file.blob
        /\ file'.encrypted = Overlay(file.encrypted, entry)
    BY <1>1, <1>4 DEF IsSealedSecret
  <1> HIDE DEF entry, added
  <1>9. WholeFile(file', meant') /\ KeysAtHand(file', held' \ retired')
    <2> DEFINE keys == held' \ retired'
    <2>1. \A x \in DOMAIN added : /\ entry[x].plaintext = added[x]
                                 /\ entry[x].label = LabelFor(file.meta)
                                 /\ entry[x].key \in keys
      BY <1>6, <1>7
    <2>2. WholeFile(file, meant) /\ KeysAtHand(file, keys)
      BY <1>4, <1>6
    <2> HIDE DEF keys
    <2>3. WholeFile(file', Overlay(meant, added)) /\ KeysAtHand(file', keys)
      BY <1>2, <1>7, <1>8, <2>1, <2>2, OverlayWhole
    <2> QED BY <1>1, <2>3 DEF keys, added
  <1> QED BY <1>9 DEF Whole

\* A step that leaves the file alone, or ends it.
LEMMA WholeKept ==
  ASSUME Whole, UNCHANGED <<file, meant, tidy>>, held \ retired \subseteq held' \ retired'
  PROVE  Whole'
  BY DEF Whole, WholeFile, WholeItems, WholeBlob, KeysAtHand

LEMMA NextWhole == IInv /\ Whole /\ [Next]_vars => Whole'
  <1> SUFFICES ASSUME IInv, Whole, [Next]_vars, file' # None, tidy' = TRUE PROVE Whole'
    BY DEF Whole
  <1>1. CASE UNCHANGED vars
    BY <1>1, WholeKept DEF vars
  <1>2. CASE \/ \E k \in Keys : RegisterKey(k)
             \/ FetchCert \/ PurgeKeys
    <2>1. held \ retired \subseteq held' \ retired' /\ UNCHANGED <<file, meant, tidy>>
      BY <1>2 DEF RegisterKey, FetchCert, PurgeKeys, IInv, TypeOK
    <2> QED BY <2>1, WholeKept
  <1>3. ASSUME NEW how, Fails(how) PROVE Whole'
    BY <1>3, WholeKept DEF Fails
  <1>4. ASSUME NEW c \in Commands, NewFile(c.secret, c.opts) PROVE Whole'
    <2>1. CASE Sealed(c.secret, c.opts) = None
      BY <1>3, <1>4, <2>1 DEF NewFile
    <2>2. CASE Sealed(c.secret, c.opts) # None
      BY <1>4, <2>2, WholeNewFile
    <2> QED BY <2>1, <2>2
  <1>5. ASSUME NEW c \in Commands, SealMergingInto(c.secret, c.opts) PROVE Whole'
    <2>1. CASE Merges(Update(c.secret, c.opts))
      BY <1>5, <2>1, WholeMerge
    <2>2. CASE ~Merges(Update(c.secret, c.opts))
      BY <1>3, <1>5, <2>2 DEF SealMergingInto
    <2> QED BY <2>1, <2>2
  <1>6. ASSUME NEW c \in Commands, KilledMerging(c.secret, c.opts) PROVE Whole'
    BY <1>6 DEF KilledMerging
  <1>7. CASE ReEncrypt
    <2>1. CASE Rotate(held, latest, file) = None
      BY <1>3, <1>7, <2>1 DEF ReEncrypt
    <2>2. CASE Rotate(held, latest, file) # None
      BY <1>7, <2>2, WholeReEncrypt
    <2> QED BY <2>1, <2>2
  <1>8. ASSUME NEW meta \in Metas, Move(meta) \/ EditTemplateMetadata(meta) PROVE Whole'
    BY <1>8, WholeEdits
  <1>9. ASSUME NEW i \in Items, NEW text \in Items \cup {Malformed}, EditTemplateData(i, text)
        PROVE  Whole'
    BY <1>9, WholeEdits
  <1>10. ASSUME NEW i \in Items, RemoveItem(i) PROVE Whole'
    BY <1>10, WholeRemove
  <1>11. ASSUME NEW i \in Items, NEW value \in Values, NEW meta \in Metas,
                PasteRawItem(i, value, meta)
         PROVE  Whole'
    BY <1>11, WholePaste
  <1>12. ASSUME NEW secret \in OldSecrets, OldFile(secret) PROVE Whole'
    BY <1>12, WholeOldFile
  <1> QED
    BY <1>1, <1>2, <1>4, <1>5, <1>6, <1>7, <1>8, <1>9, <1>10, <1>11, <1>12 DEF Next

\* A file whose owner kept to its scope unseals to the last values put in,
\* through renewals, re-encryptions and the removal of the keys they freed.
THEOREM TidyFilesUnseal == Spec => []TidyFileUnseals
  <1>1. Init => Whole
    BY DEF Init, Whole
  <1>2. IInv /\ Whole => TidyFileUnseals
    <2> SUFFICES ASSUME IInv, Whole, file # None, tidy,
                        file.blob # None => AcceptDeprecatedV1Data,
                        \A i \in DOMAIN file.template.data : file.template.data[i] # Malformed
                 PROVE  ~UnsealErrs(held, file) /\ Unseal(held, file).data = Expected
      BY DEF TidyFileUnseals
    <2>1. tidy = TRUE
      BY DEF IInv, TypeOK
    <2>2. /\ IsSealedSecret(file) /\ IsPartial(meant, Items, Contents)
          /\ WholeFile(file, meant) /\ KeysAtHand(file, held)
      BY <2>1 DEF IInv, TypeOK, Whole, KeysAtHand, Contents
    <2>3. CASE file.blob = None
      BY <2>2, <2>3, WholeUnseals DEF Expected
    <2>4. CASE file.blob # None
      <3>1. file.blob.plaintext # None
        BY <2>2, <2>4 DEF IsSealedSecret, IsBlob
      <3> QED BY <2>2, <2>4, <3>1, WholeBlobUnseals DEF Expected
    <2> QED BY <2>3, <2>4
  <1> QED BY <1>1, <1>2, NextWhole, Inductive, PTL DEF Spec
=============================================================================
