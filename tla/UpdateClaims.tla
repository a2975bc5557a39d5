---------------------------- MODULE UpdateClaims ----------------------------
(* What the documents of ytmdlctl say of an update and the code does not   *)
(* keep.                                                                   *)
EXTENDS MCUpdateTransaction

(* CHANGELOG.md, Core Safety Law Enforcement: a backend of an old schema   *)
(* never runs on a newer one.                                              *)
OldNeverStarted == backend # 0 => SchemaOf[backend] >= schema
=============================================================================
