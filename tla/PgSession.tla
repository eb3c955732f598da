------------------------------ MODULE PgSession ------------------------------
(***************************************************************************)
(* The one PostgreSQL session an audit works on, as db.py hands it out and *)
(* psycopg 3 drives it: the connection is not in autocommit mode, so the   *)
(* three SET statements of connect_read_only open a read-only transaction, *)
(* and nothing ever commits it.  Every check runs in a savepoint of that   *)
(* transaction (conn.transaction() in an open transaction).                *)
(*                                                                         *)
(* A statement that fails poisons the transaction until the innermost      *)
(* savepoint is rolled back.  The server ends the session when the client  *)
(* leaves the transaction idle for longer than                             *)
(* idle_in_transaction_session_timeout, and it may go away on its own.     *)
(***************************************************************************)

VARIABLES
    sess,       \* "unopened", "live", "lost" (the server ended it), "closed"
    tx,         \* "idle", "intrans", "inerror": psycopg's transaction status
    savepoint   \* TRUE inside a conn.transaction() block

sessionVars == <<sess, tx, savepoint>>

SessionType ==
    /\ sess \in {"unopened", "live", "lost", "closed"}
    /\ tx \in {"idle", "intrans", "inerror"}
    /\ savepoint \in BOOLEAN

\* connect_read_only before it connects.
SessionInit == sess = "unopened" /\ tx = "idle" /\ savepoint = FALSE

\* The state connect_read_only yields: connected, and in a transaction
\* because the three SETs were statements of it.
Connected == sess = "live" /\ tx = "intrans" /\ savepoint = FALSE

\* A statement can be executed at all.
CanExecute == sess = "live" /\ tx # "inerror"

Connect ==
    /\ sess = "unopened"
    /\ sess' = "live" /\ tx' = "intrans"
    /\ UNCHANGED savepoint

\* psycopg.connect, or one of the three SETs, raises; the finally clause
\* closes what was opened.
ConnectFails ==
    /\ sess = "unopened"
    /\ sess' = "closed"
    /\ UNCHANGED <<tx, savepoint>>

\* conn.transaction().__enter__ on a connection that is in a transaction.
EnterSavepoint ==
    /\ CanExecute /\ ~savepoint
    /\ savepoint' = TRUE
    /\ UNCHANGED <<sess, tx>>

\* A query of the innermost block fails: SQL error, statement_timeout,
\* lock_timeout, a write refused by the read-only transaction.
StatementFails ==
    /\ CanExecute
    /\ tx' = "inerror"
    /\ UNCHANGED <<sess, savepoint>>

\* __exit__ without an exception: RELEASE SAVEPOINT.
ReleaseSavepoint ==
    /\ CanExecute /\ savepoint
    /\ savepoint' = FALSE
    /\ UNCHANGED <<sess, tx>>

\* Mutation: the exception is swallowed without rolling back to the savepoint.
RollbackForgotten == savepoint /\ savepoint' = FALSE /\ UNCHANGED <<sess, tx>>

\* __exit__ with an exception: ROLLBACK TO SAVEPOINT, which also ends the
\* error state.  On a dead session it only ends the block.
RollbackToSavepoint ==
    /\ savepoint
    /\ savepoint' = FALSE
    /\ tx' = IF sess = "live" THEN "intrans" ELSE tx
    /\ UNCHANGED sess

\* The server ends the session after 60 s without a statement.
IdleInTransactionTimeout ==
    /\ sess = "live" /\ tx # "idle"
    /\ sess' = "lost"
    /\ UNCHANGED <<tx, savepoint>>

\* The server, or the network path to it, goes away.
SessionLost ==
    /\ sess = "live"
    /\ sess' = "lost"
    /\ UNCHANGED <<tx, savepoint>>

\* conn.close() in the finally clause.
Close ==
    /\ sess \in {"live", "lost"}
    /\ sess' = "closed"
    /\ UNCHANGED <<tx, savepoint>>
=============================================================================
