--------------------------- MODULE GroupsScheduler ---------------------------
(***************************************************************************)
(* The task queue of db/handlers/group/scheduler.js, for groups of class   *)
(* "once": what is to be done to a group, and when.                        *)
(*                                                                         *)
(* The operators work on a record s with                                   *)
(*   reload  scheduleAllGroupsTasks was called, and its debounce runs      *)
(*   queue   taskQueue, earliest first                                     *)
(*   timer   the task whose timer is set, or NoTask                        *)
(***************************************************************************)
EXTENDS SequencesExt

CONSTANT NoTask   \* no timer is set

Activate == "ACTIVATE_GROUP"
Expire == "HANDLE_EXPIRED_GROUP_WINDOW"

TaskOf(g, type, time) == [group |-> g, type |-> type, time |-> time]


\* processGroup() of a group that is not an origin group and has one window.
TasksFor(g, doc, now) ==
  {TaskOf(g, Expire, doc.stop)}
    \cup (IF now >= doc.stop \/ doc.isActive THEN {} ELSE {TaskOf(g, Activate, doc.start)})

\* setScheduledTask(), its first half: what is due is run at once.  It is
\* queued all the same, and runs a second time.
DueFor(g, doc, now) == {task \in TasksFor(g, doc, now) : now >= task.time}

\* scheduleNextTask(): the timer that is set is cleared, and its task, which
\* has left the queue, forgotten.
NextTask(s) ==
  IF s.queue = <<>> THEN [s EXCEPT !.timer = NoTask]
  ELSE [s EXCEPT !.timer = Head(s.queue), !.queue = Tail(@)]

\* setScheduledTask(), its second half: a task goes before the first that is
\* later.  So those of one time stay in the order in which they were queued:
\* that of the groups, and the start of a group before its end.
Precedes(order, a, b) ==
  \/ a.time < b.time
  \/ /\ a.time = b.time
     /\ \E i, j \in DOMAIN order :
          /\ order[i] = a.group /\ order[j] = b.group
          /\ i < j \/ (i = j /\ a.type = Activate)

\* scheduleAllGroupsTasks() once the debounce is over, for the groups it read
\* in the order of their ids: s becomes t.
Rebuilt(s, t, docs, order, now) ==
  LET tasks == UNION {TasksFor(g, docs[g], now) : g \in ToSet(order)}
  IN  \E queue \in SetToSeqs(tasks) :
        /\ \A i, j \in DOMAIN queue : i < j => Precedes(order, queue[i], queue[j])
        /\ t = NextTask([s EXCEPT !.reload = FALSE, !.queue = queue])
=============================================================================
