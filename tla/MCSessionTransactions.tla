------------------------ MODULE MCSessionTransactions ------------------------
(* Values for the constants of SessionTransactions. *)
EXTENDS SessionTransactions

\* A statement is one SQL command that changes data.
WriteScripts == {<<"write">>}

\* Every text of one command, transaction control in SQL included.
SingleScripts == {<<c>> : c \in Commands}

\* Texts that bring their own transaction, as loaders send them.
AtomicScripts == {<<"begin", "write", "commit">>, <<"begin", "write", "write", "commit">>}
RetriableScripts == SingleScripts \union AtomicScripts

ContextError == {"abort"}
AnyNoTxnError == {"abort", "autocommit"}
AnyAbortedCommit == {"error", "rollback"}
ErrorOnAbortedCommit == {"error"}
==============================================================================
