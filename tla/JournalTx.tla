------------------------------ MODULE JournalTx ------------------------------
(***************************************************************************)
(* What the journal promises the owner of a transaction (spec sections 3   *)
(* and 4.3): a transaction is opened, then either cancelled or committed;  *)
(* a commit is decided once, Committed or Canceled, and never changes its  *)
(* mind; Commit answers once, and answers Success only for a committed     *)
(* transaction.  A handle can be dropped, and a crash loses every handle.  *)
(* Journal implements this specification (Journal!ImplementsJournalTx).    *)
(***************************************************************************)
CONSTANTS
    Txs,     \* transactions, one per client
    Errors   \* the error results Commit may return

VARIABLES
    status,  \* each transaction's state
    answer   \* what Commit returned, "None" before it returned

vars == <<status, answer>>

Statuses == {"None", "New", "Committing", "Committed", "Canceled", "Gone"}

Init ==
    /\ status = [t \in Txs |-> "None"]
    /\ answer = [t \in Txs |-> "None"]

Move(t, from, to) ==
    /\ status[t] = from
    /\ status' = [status EXCEPT ![t] = to]

Begin(t) == Move(t, "None", "New") /\ UNCHANGED answer

StartCommit(t) == Move(t, "New", "Committing") /\ UNCHANGED answer

Cancel(t) == Move(t, "New", "Canceled") /\ UNCHANGED answer

\* The commit is decided, by the writer or by the journal's refusal.
Decide(t) ==
    /\ \E to \in {"Committed", "Canceled"} : Move(t, "Committing", to)
    /\ UNCHANGED answer

\* Commit refuses the transaction and returns the error at once.
Refuse(t) ==
    /\ Move(t, "Committing", "Canceled")
    /\ \E e \in Errors : answer' = [answer EXCEPT ![t] = e]

\* Commit returns the decision.
Answer(t) ==
    /\ answer[t] = "None"
    /\ \/ status[t] = "Committed" /\ answer' = [answer EXCEPT ![t] = "Success"]
       \/ status[t] = "Canceled" /\ \E e \in Errors : answer' = [answer EXCEPT ![t] = e]
    /\ UNCHANGED status

\* A handle that was never opened, or is only open, is dropped.
Drop(t) ==
    /\ status[t] \in {"None", "New"}
    /\ status' = [status EXCEPT ![t] = "Gone"]
    /\ UNCHANGED answer

Crash ==
    /\ status' = [t \in Txs |-> IF status[t] = "None" THEN "None" ELSE "Gone"]
    /\ UNCHANGED answer

Next ==
    \/ \E t \in Txs : Begin(t) \/ StartCommit(t) \/ Cancel(t) \/ Decide(t)
                       \/ Refuse(t) \/ Answer(t) \/ Drop(t)
    \/ Crash

Spec == Init /\ [][Next]_vars

=============================================================================
