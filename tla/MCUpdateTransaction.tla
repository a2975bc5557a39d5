------------------------- MODULE MCUpdateTransaction -------------------------
(* The update transaction of ytmdlctl on four releases: the second keeps   *)
(* the schema, the third adds two migrations and the fourth one.           *)
EXTENDS UpdateTransaction

MCVersion  == 1..4
MCSchemaOf == <<1, 1, 3, 4>>
MCBudget   == [failure |-> 3, crash |-> 2]
=============================================================================
