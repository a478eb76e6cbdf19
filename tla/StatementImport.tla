---------------------------- MODULE StatementImport ----------------------------
(* The import pipeline and the reading of the statements uploaded to it. *)
EXTENDS ImportBook, PrintedStatements

\* A bank statement whose titles, numbers, dates, directions and purposes are clear
\* is read row by row as the bank meant it (ReadStatement; INGESTION.md:8, sections
\* 3 and 4).  Reading depends on the file alone: it is looked at before any request.
StatementsReadAsMeant ==
  (\A r \in Requests : pc[r] = "idle") =>
    \A style \in Styles, ms \in Statements : ReadAsMeant(style, ms)
=============================================================================
