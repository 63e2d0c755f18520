----------------------------- MODULE MCKubeseal -----------------------------
(***************************************************************************)
(* Small instances of kubeseal's commands and the server behind them.      *)
(***************************************************************************)
EXTENDS Kubeseal, TLC

CONSTANTS f1, f2, i1, i2, ci

SealTwo == [op |-> "seal", file |-> None, secrets |-> <<{i1}, {i2}>>, out |-> f1]
SealOne == [op |-> "seal", file |-> None, secrets |-> <<{i1}>>, out |-> f1]
MergeInto == [op |-> "merge", file |-> f1, secrets |-> <<{i2}>>, out |-> None]
ValidateFile == [op |-> "validate", file |-> f1, secrets |-> <<>>, out |-> None]
ReEncryptFile == [op |-> "re-encrypt", file |-> f1, secrets |-> <<>>, out |-> None]

ReEncryptToOther == [op |-> "re-encrypt", file |-> f1, secrets |-> <<>>, out |-> f2]
ValidateOther == [op |-> "validate", file |-> f2, secrets |-> <<>>, out |-> None]

OneFile == {SealTwo, SealOne, MergeInto, ValidateFile, ReEncryptFile}
TwoFiles == OneFile \cup {ReEncryptToOther, ValidateOther}

SharedCaller == [p \in Procs |-> ci]

Symmetries == Permutations(Keys) \cup Permutations(Procs)
=============================================================================
