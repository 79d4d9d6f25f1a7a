------------------------------ MODULE SeqQueue ------------------------------
(***************************************************************************)
(* wire/seqqueue.js: puts the messages of a gesture back in order by their *)
(* sequence numbers, which begin again at 0 after Size - 1.                *)
(***************************************************************************)
EXTENDS Naturals, Sequences

CONSTANTS
  Size,         \* size
  MaxWaiting    \* maxWaiting

ASSUME SeqQueueAssumption == Size \in Nat \ {0} /\ MaxWaiting \in Nat \ {0}

\* The handler of a message: the message, and whether it calls stop().
NoHandler == [message |-> 0, stops |-> FALSE]

EmptyQueue ==
  [lo |-> 0, waiting |-> 0, list |-> [i \in 0..Size - 1 |-> NoHandler],
   locked |-> TRUE, ran |-> <<>>]

\* One turn of the loop of maybeConsume(): "ran" gathers the messages whose handlers it
\* calls.  The loop ends where a handler is missing that is not too long in coming.
ConsumeOne(q) ==
  LET lo == IF q.lo >= Size THEN 0 ELSE q.lo
      handler == q.list[lo]
      moved == [q EXCEPT !.lo = lo + 1, !.waiting = @ - 1]
  IN IF q.waiting = 0 THEN q
     ELSE IF handler # NoHandler
     THEN [moved EXCEPT !.list[lo] = NoHandler,
                        !.locked = @ \/ handler.stops,
                        !.ran = Append(@, handler.message)]
     ELSE IF q.waiting >= MaxWaiting THEN moved
     ELSE [q EXCEPT !.lo = lo]

\* The loop: each turn but the last takes one from "waiting".  A stop() does not end it,
\* for only the entry looks at the lock.
Consume(q) ==
  LET consumed[n \in 0..q.waiting] ==
        IF n = 0 THEN q ELSE ConsumeOne(consumed[n - 1])
  IN consumed[q.waiting]
MaybeConsume(q) == IF q.locked THEN q ELSE Consume(q)

\* mutant: start() at its own number, for which no handler ever comes
StartQueueHere(q, seq) == MaybeConsume([q EXCEPT !.locked = FALSE, !.lo = seq])

StartQueue(q, seq) == MaybeConsume([q EXCEPT !.locked = FALSE, !.lo = seq + 1])

\* mutant: a handler that comes early runs at once
PushAtOnce(q, seq, handler) ==
  IF q.locked THEN [q EXCEPT !.list[seq] = handler, !.waiting = @ + 1]
  ELSE [q EXCEPT !.lo = seq + 1, !.locked = handler.stops,
                 !.ran = Append(@, handler.message)]

PushHandler(q, seq, handler) ==
  IF seq >= Size THEN q
  ELSE MaybeConsume([q EXCEPT !.list[seq] = handler, !.waiting = @ + 1])
=============================================================================
