---------------------------- MODULE ManagedRelease ----------------------------
(***************************************************************************)
(* What a managed update promises: the deployment serves one release, a    *)
(* transaction at a time may replace it, and ends with its target or with  *)
(* the release before, nothing in between, or with the record of it lost:  *)
(* then nothing is known until the next one ends.                          *)
(***************************************************************************)
EXTENDS Naturals

CONSTANT Version

VARIABLES
  served,   \* the release before the transaction, and served when there is none
  target,   \* the release the transaction would serve
  open,     \* whether there is one
  known     \* whether the record tells what is served

TypeOK ==
  /\ served \in Version /\ target \in Version
  /\ open \in BOOLEAN /\ known \in BOOLEAN

Init == served \in Version /\ target = served /\ open = FALSE /\ known = TRUE

Begin ==
  /\ ~open /\ open' = TRUE
  /\ served' \in IF known THEN {served} ELSE Version
  /\ target' \in {w \in Version : w > served'}
  /\ UNCHANGED known

(* A rollback of the last transaction, which may be asked for again: it    *)
(* is open towards a release that was served before.                       *)
Reopen ==
  /\ ~open /\ open' = TRUE
  /\ IF known THEN /\ served' \in Version /\ target' \in Version
                   /\ served \in {served', target'}
              ELSE UNCHANGED <<served, target>>
  /\ UNCHANGED known

End ==
  /\ open /\ open' = FALSE
  /\ served' \in {served, target} /\ target' = served'
  /\ known' = TRUE

Lose ==
  /\ open /\ open' = FALSE
  /\ known' = FALSE
  /\ UNCHANGED <<served, target>>

Next == Begin \/ Reopen \/ End \/ Lose

Spec == Init /\ [][Next]_<<served, target, open, known>>
=============================================================================
