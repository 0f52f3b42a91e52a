------------------------------- MODULE MCWorker -------------------------------
(* Model-checking instance of Worker: two producers, so two tasks can be   *)
(* queued behind one TaskEvent signal, racing the destructor.              *)
EXTENDS Worker, TLC

CONSTANTS p1, p2

MCProducers == {p1, p2}

\* TaskList.AddTail and the creation of the worker's kernel task may fail.
MCFailures == {"AddTail", "TaskCreate"}

=============================================================================
