----------------------------- MODULE StateQueue -----------------------------
(***************************************************************************)
(* util/statequeue.js: the states a stream is asked to go through, oldest  *)
(* first.  What is asked for again makes everything asked after it void.   *)
(***************************************************************************)
EXTENDS Naturals, Sequences

STOPPED == "STOPPED"
STARTING == "STARTING"
STARTED == "STARTED"
STOPPING == "STOPPING"
Wishes == {STOPPED, STARTED}

\* push(): where the state is queued already the queue is cut after it.
FirstOf(queue, state) ==
  CHOOSE i \in DOMAIN queue :
    queue[i] = state /\ \A j \in DOMAIN queue : queue[j] = state => i <= j
Push(queue, state) ==
  IF \E i \in DOMAIN queue : queue[i] = state
  THEN SubSeq(queue, 1, FirstOf(queue, state))
  ELSE Append(queue, state)

\* The queue of a stream: every wish at most once.
IsStateQueue(queue) ==
  /\ queue \in Seq(Wishes)
  /\ \A i, j \in DOMAIN queue : queue[i] = queue[j] => i = j
=============================================================================
