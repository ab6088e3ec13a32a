------------------------- MODULE MC_DatasetSelector -------------------------
(***************************************************************************)
(* Model-checking instance of DatasetSelector.  d1 passes the size        *)
(* filters (3 * 10^8 bytes in 2 files); d2 is an empty dataset (no bytes, *)
(* no files), which every size filter rejects.                            *)
(***************************************************************************)
EXTENDS DatasetSelector, TLC

MCDsBytes == [d \in Datasets |-> IF d = "d1" THEN 3 ELSE 0]
MCDsLength == [d \in Datasets |-> IF d = "d1" THEN 2 ELSE 0]

=============================================================================
