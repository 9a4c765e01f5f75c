----------------------------- MODULE ThreadPool -----------------------------
(***************************************************************************)
(* src/Threading/threadpool.cpp: workers, a queue of jobs, a limit on the  *)
(* queue, a discharge that drains or drops it.                             *)
(*                                                                         *)
(* A job of this program is always the connection it serves, so a job is   *)
(* named by its client. The condition variable is modelled with its        *)
(* sleepers: a worker that found nothing to do is asleep until a           *)
(* notification makes it look again.                                       *)
(***************************************************************************)
EXTENDS Naturals, Sequences, FiniteSets

CONSTANTS
    Worker,    \* the threads charge() spawns
    Client,    \* the connections, each the subject of at most one job
    NoClient,  \* no job
    Limit      \* _limit: how long the queue may get (0: no limit)

\* charge() refuses a pool of no threads
ASSUME PoolAssumption ==
    /\ Worker # {} /\ IsFiniteSet(Worker)
    /\ NoClient \notin Client
    /\ Limit \in Nat

VARIABLES
    queue,       \* _queue
    stopping,    \* _stopping
    discharged,  \* _discharged
    thread,      \* where each thread is
    job          \* the job a running thread has

poolVars == <<queue, stopping, discharged, thread, job>>

\* "none": not spawned or joined, "checking": about to take the mutex and look,
\* "asleep": in the wait, "running": in its job, "gone": returned from _handler
ThreadState == {"none", "checking", "asleep", "running", "gone"}

PoolTypeOK ==
    /\ queue \in Seq(Client)
    /\ stopping \in BOOLEAN /\ discharged \in BOOLEAN
    /\ thread \in [Worker -> ThreadState]
    /\ job \in [Worker -> Client \cup {NoClient}]

PoolInit ==
    /\ queue = << >> /\ stopping = FALSE /\ discharged = TRUE
    /\ thread = [w \in Worker |-> "none"]
    /\ job = [w \in Worker |-> NoClient]

-----------------------------------------------------------------------------
\* charge(): the queue is cleared under the lock and the threads are spawned
Charge ==
    /\ discharged
    /\ stopping' = FALSE /\ queue' = << >> /\ discharged' = FALSE
    /\ thread' = [w \in Worker |-> "checking"]
    /\ UNCHANGED job

\* execute() refuses while the pool is discharging and when the queue is full
Refuses == stopping \/ (Limit > 0 /\ Len(queue) >= Limit)

\* execute() up to the unlock
Enqueue(c) ==
    /\ ~Refuses
    /\ queue' = Append(queue, c)
    /\ UNCHANGED <<stopping, discharged, thread, job>>

\* mutant: the notification is forgotten
NotifyNobody == UNCHANGED poolVars

\* notify_one(): one sleeper looks again, if there is one
NotifyOne ==
    /\ \/ \E w \in Worker : /\ thread[w] = "asleep"
                            /\ thread' = [thread EXCEPT ![w] = "checking"]
       \/ /\ \A w \in Worker : thread[w] # "asleep"
          /\ UNCHANGED thread
    /\ UNCHANGED <<queue, stopping, discharged, job>>

\* mutant: the youngest job first
TakeLast(w) ==
    /\ thread[w] = "checking" /\ queue # << >>
    /\ job' = [job EXCEPT ![w] = queue[Len(queue)]]
    /\ queue' = SubSeq(queue, 1, Len(queue) - 1)
    /\ thread' = [thread EXCEPT ![w] = "running"]
    /\ UNCHANGED <<stopping, discharged>>

\* _handler(): draining takes priority over stopping
Take(w) ==
    /\ thread[w] = "checking" /\ queue # << >>
    /\ job' = [job EXCEPT ![w] = Head(queue)]
    /\ queue' = Tail(queue)
    /\ thread' = [thread EXCEPT ![w] = "running"]
    /\ UNCHANGED <<stopping, discharged>>

Sleep(w) ==
    /\ thread[w] = "checking" /\ queue = << >> /\ ~stopping
    /\ thread' = [thread EXCEPT ![w] = "asleep"]
    /\ UNCHANGED <<queue, stopping, discharged, job>>

\* mutant: stopping takes priority over draining
LeaveUndrained(w) ==
    /\ thread[w] = "checking" /\ stopping
    /\ thread' = [thread EXCEPT ![w] = "gone"]
    /\ UNCHANGED <<queue, stopping, discharged, job>>

Leave(w) ==
    /\ thread[w] = "checking" /\ queue = << >> /\ stopping
    /\ thread' = [thread EXCEPT ![w] = "gone"]
    /\ UNCHANGED <<queue, stopping, discharged, job>>

\* the job has returned, or thrown: either is contained
JobOver(w) ==
    /\ thread[w] = "running"
    /\ thread' = [thread EXCEPT ![w] = "checking"]
    /\ job' = [job EXCEPT ![w] = NoClient]
    /\ UNCHANGED <<queue, stopping, discharged>>

\* discharge(force), under the lock
Stop(force) ==
    /\ ~discharged
    /\ stopping' = TRUE
    /\ queue' = IF force THEN << >> ELSE queue
    /\ UNCHANGED <<discharged, thread, job>>

\* notify_all()
NotifyAll ==
    /\ thread' = [w \in Worker |-> IF thread[w] = "asleep" THEN "checking" ELSE thread[w]]
    /\ UNCHANGED <<queue, stopping, discharged, job>>

\* discharge(): every thread joined, the pool torn down
Joined ==
    /\ \A w \in Worker : thread[w] = "gone"
    /\ thread' = [w \in Worker |-> "none"]
    /\ discharged' = TRUE
    /\ UNCHANGED <<queue, stopping, job>>

-----------------------------------------------------------------------------
Busy == {c \in Client : \E w \in Worker : job[w] = c}
Queued == {queue[i] : i \in DOMAIN queue}
=============================================================================
