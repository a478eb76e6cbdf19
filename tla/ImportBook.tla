----------------------------- MODULE ImportBook -----------------------------
(* ImportPipeline as an implementation of StatementBook. *)
EXTENDS ImportPipeline

\* Rows without an identity (overridden ambiguous rows) are outside the promise.
BookEntry(t) == [statement |-> t.batch, line |-> t.line, owner |-> t.user, what |-> t.hash]
BookOf(rows) == {BookEntry(t) : t \in {x \in rows : x.hash # NoHash}}
ClosedStatements == {b \in Requests : batch[b].status = "committed"}

Book == INSTANCE StatementBook WITH
  Statement <- Requests, Owner <- Users, Movement <- Hashes \ {NoHash},
  book <- BookOf(ledger), closed <- ClosedStatements

\* While a user has one verify call at a time, the pipeline keeps the promise
\* of StatementBook: CommitBatch closes its statement and posts fresh rows, and
\* every other step, restarts included, leaves the book as it is.
ImplementsBook == Book!Spec
=============================================================================
