----------------------------- MODULE MCArrays -----------------------------
(***************************************************************************)
(* Every array of the seven documents, with any few items.                 *)
(***************************************************************************)
EXTENDS ArrayProps

Items == [id : 1 .. 3, rank : 0 .. 2]
ModelArrays == UNION {[1 .. n -> Items] : n \in 0 .. 3}
=============================================================================
