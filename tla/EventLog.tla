------------------------------ MODULE EventLog ------------------------------
(***************************************************************************)
(* What the lifecycle events of the proxy promise to the readers of the    *)
(* metrics table, whatever is dropped on the way: a row is stored at most  *)
(* once, rows are stored in the order of their emission, and what is       *)
(* stored stays.                                                           *)
(*                                                                         *)
(* A row is the number of its emission.                                    *)
(***************************************************************************)
EXTENDS Naturals, Sequences, SequencesExt

VARIABLES
  emitted,   \* how many rows were emitted
  stored     \* the rows of the table, in the order of their insertion

lvars == <<emitted, stored>>

InOrder(rows) == \A i, j \in DOMAIN rows : i < j => rows[i] < rows[j]

LInit == emitted = 0 /\ stored = <<>>

EmitRow == emitted' = emitted + 1 /\ UNCHANGED stored

StoreRows ==
  /\ stored' \in Seq(1..emitted)
  /\ IsPrefix(stored, stored')
  /\ InOrder(stored')
  /\ UNCHANGED emitted

LNext == EmitRow \/ StoreRows

LSpec == LInit /\ [][LNext]_lvars
=============================================================================
