----------------------------- MODULE Publication -----------------------------
(***************************************************************************)
(* What the readers of one edition date are promised.  While its row says  *)
(* that it is published, the date is the complete edition of one writer    *)
(* and does not change; it is withdrawn before another one goes up.  Under *)
(* a row that does not say so, a reader is still given the files, and may  *)
(* find the last edition, the next one or some of each; but nothing that   *)
(* was never published once.  RunLifecycle implements this with a database *)
(* row and files that change one after the other.                          *)
(***************************************************************************)
CONSTANTS
  Writer,    \* who may publish
  File,      \* the files of an edition
  Nothing    \* what a date shows that was never published

VARIABLES
  sealed,    \* the row says that the edition is published
  owner,     \* the writer whose items the row lists
  shown      \* the writer of each file that a reader is given

vars == <<sealed, owner, shown>>

Edition(w) == [f \in File |-> w]

Init == sealed = FALSE /\ owner = Nothing /\ shown = Edition(Nothing)

Publish(w) == ~sealed /\ sealed' = TRUE /\ owner' = w /\ shown' = Edition(w)

Withdraw == sealed /\ sealed' = FALSE /\ UNCHANGED <<owner, shown>>

\* A file of the next edition takes the place of one that is not sealed.
Revise(f, w) ==
  /\ ~sealed /\ owner # Nothing
  /\ shown' = [shown EXCEPT ![f] = w]
  /\ UNCHANGED <<sealed, owner>>

Next ==
  \/ Withdraw
  \/ \E w \in Writer : Publish(w) \/ \E f \in File : Revise(f, w)

Spec == Init /\ [][Next]_vars
=============================================================================
