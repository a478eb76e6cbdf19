---------------------------- MODULE StatementBook ----------------------------
(***************************************************************************)
(* What the import pipeline promises: each statement is posted to its       *)
(* owner's book at most once, all of its rows in one step, and no dated     *)
(* amount and description of an account is ever posted a second time.       *)
(***************************************************************************)
EXTENDS Naturals

CONSTANTS Statement, Owner, Movement

VARIABLES book, closed

Entry == [statement : Statement, line : Nat, owner : Owner, what : Movement]

Init == book = {} /\ closed = {}

SameMovement(e, d) == e.owner = d.owner /\ e.what = d.what

Close(s) ==
  /\ s \notin closed
  /\ closed' = closed \union {s}
  /\ book \subseteq book'
  /\ \A e \in book' \ book :
       /\ e \in Entry
       /\ e.statement = s
       /\ \A d \in book' : SameMovement(e, d) => d = e

Next == \E s \in Statement : Close(s)

Spec == Init /\ [][Next]_<<book, closed>>
=============================================================================
