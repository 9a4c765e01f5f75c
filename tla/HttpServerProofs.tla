-------------------------- MODULE HttpServerProofs --------------------------
(***************************************************************************)
(* What holds of HttpServer for any number of workers and connections, any *)
(* limit on the queue and any pages: a shutdown leaves nothing behind, the *)
(* server keeps the promise of Desk, and every request has its one answer. *)
(***************************************************************************)
EXTENDS HttpServer, FiniteSetTheorems, FunctionTheorems, SequenceTheorems, TLAPS

-----------------------------------------------------------------------------
(* The accepting server                                                    *)

\* a thread that runs has a job, no two the same, and no job is queued twice
\* or queued and run
JobsApart ==
    /\ \A w \in Worker : job[w] # NoClient <=> thread[w] = "running"
    /\ \A w, v \in Worker : w # v /\ thread[w] = "running" => job[w] # job[v]
    /\ \A i, j \in DOMAIN queue : i # j => queue[i] # queue[j]
    /\ \A i \in DOMAIN queue : \A w \in Worker : job[w] # queue[i]

\* the connections of the queue, of the workers and of the acceptor are open,
\* and the acceptor's is neither queued nor served
HeldOpen ==
    /\ \A i \in DOMAIN queue : sock[queue[i]] = "open" /\ queue[i] # conn
    /\ \A w \in Worker : job[w] # NoClient => sock[job[w]] = "open" /\ job[w] # conn
    /\ conn # NoClient => sock[conn] = "open"
    /\ conn # NoClient <=> runner = "accepted"

\* which of run() and shutdown() has done what to the pool
Phases ==
    /\ discharged => \A w \in Worker : thread[w] = "none"
    /\ discharged => queue = << >>
    /\ runner \in {"idle", "flagged"} => discharged /\ ~stopping
    /\ stopper \in {"idle", "flagged"} => ~stopping
    /\ stopper \in {"stopping", "joining"} => stopping /\ ~discharged
    /\ stopper = "done" /\ stopping => discharged
    /\ discharged /\ runner \notin {"idle", "flagged"} => stopping
    /\ \A w \in Worker : thread[w] = "gone" => stopping /\ queue = << >>

\* only a forced shutdown drops a connection
NobodyDropped ==
    ~(force /\ stopping) =>
      \A c \in Client : sock[c] = "open" => c = conn \/ c \in Queued \cup Busy

AcceptInv == ServerTypeOK /\ JobsApart /\ HeldOpen /\ Phases /\ NobodyDropped

LEMMA AcceptInvInit == ServerInit => AcceptInv
<1> SUFFICES ASSUME ServerInit PROVE AcceptInv
  OBVIOUS
<1> USE DEF ServerInit, PoolInit
<1>1. ServerTypeOK
  <2>1. queue \in Seq(Client)
    BY EmptySeq
  <2>2. thread \in [Worker -> ThreadState] /\ job \in [Worker -> Client \cup {NoClient}]
    BY DEF ThreadState
  <2>3. stopping \in BOOLEAN /\ discharged \in BOOLEAN
        /\ shut \in BOOLEAN /\ force \in BOOLEAN /\ runner \in RunnerState /\ stopper \in StopperState
    BY DEF RunnerState, StopperState
  <2>4. conn \in Client \cup {NoClient} /\ sock \in [Client -> {"away", "open", "closed"}]
    OBVIOUS
  <2> QED
    BY <2>1, <2>2, <2>3, <2>4 DEF ServerTypeOK, PoolTypeOK
<1>2. DOMAIN queue = {} /\ queue = << >>
  OBVIOUS
<1>3. JobsApart /\ HeldOpen /\ Phases /\ NobodyDropped
  BY <1>2 DEF JobsApart, HeldOpen, Phases, NobodyDropped
<1> QED
  BY <1>1, <1>3 DEF AcceptInv

LEMMA Appended ==
  ASSUME NEW q \in Seq(Client), NEW c \in Client
  PROVE  /\ Append(q, c) \in Seq(Client) /\ DOMAIN Append(q, c) = 1..Len(q) + 1
         /\ DOMAIN q = 1..Len(q) /\ Len(q) \in Nat /\ Append(q, c)[Len(q) + 1] = c
         /\ \A i \in DOMAIN q : Append(q, c)[i] = q[i]
OBVIOUS

LEMMA Advanced ==
  ASSUME NEW q \in Seq(Client), q # << >>
  PROVE  /\ Tail(q) \in Seq(Client) /\ Head(q) = q[1] /\ q[1] \in Client
         /\ DOMAIN q = 1..Len(q) /\ Len(q) \in Nat \ {0} /\ DOMAIN Tail(q) = 1..Len(q) - 1
         /\ \A i \in DOMAIN Tail(q) : i + 1 \in DOMAIN q /\ Tail(q)[i] = q[i + 1]
OBVIOUS

\* What touches neither the queue, nor a job, nor a connection, nor the phases.
LEMMA IdleKeeps ==
  ASSUME AcceptInv, UNCHANGED <<poolVars, serverVars>>
  PROVE  AcceptInv'
BY DEF AcceptInv, ServerTypeOK, PoolTypeOK, JobsApart, HeldOpen, Phases, NobodyDropped, Queued, Busy,
       poolVars, serverVars

LEMMA RunKeeps ==
  ASSUME AcceptInv, Run
  PROVE  AcceptInv'
<1> USE DEF Run, AcceptInv, poolVars
<1>1. ServerTypeOK'
  BY DEF ServerTypeOK, PoolTypeOK, RunnerState
<1>2. JobsApart' /\ NobodyDropped'
  BY DEF JobsApart, NobodyDropped, Queued, Busy
<1>3. HeldOpen' /\ Phases'
  BY DEF HeldOpen, Phases
<1> QED
  BY <1>1, <1>2, <1>3

LEMMA ListenKeeps ==
  ASSUME AcceptInv, Listen
  PROVE  AcceptInv'
<1> USE DEF Listen, Charge, AcceptInv
<1>1. /\ discharged /\ ~stopping /\ queue = << >> /\ runner = "flagged"
      /\ \A w \in Worker : thread[w] = "none" /\ job[w] = NoClient
      /\ stopping' = FALSE /\ queue' = << >> /\ discharged' = FALSE /\ runner' = "looping"
      /\ thread' = [w \in Worker |-> "checking"] /\ UNCHANGED <<job, shut, conn, stopper, force, sock>>
  BY DEF JobsApart, Phases, ServerTypeOK, PoolTypeOK
<1>2. ServerTypeOK'
  BY <1>1 DEF ServerTypeOK, PoolTypeOK, RunnerState, ThreadState
<1>3. JobsApart'
  BY <1>1 DEF JobsApart
<1>4. HeldOpen'
  BY <1>1 DEF HeldOpen
<1>5. Phases'
  BY <1>1 DEF Phases
<1>6. NobodyDropped'
  BY <1>1 DEF NobodyDropped, Queued, Busy
<1> QED
  BY <1>2, <1>3, <1>4, <1>5, <1>6

LEMMA PollKeeps ==
  ASSUME AcceptInv, Poll \/ PollTimeout
  PROVE  AcceptInv'
<1>1. /\ UNCHANGED <<queue, stopping, discharged, thread, job, shut, conn, stopper, force, sock>>
      /\ runner \in {"looping", "polling"} /\ runner' \in {"looping", "polling", "returned"}
  BY DEF Poll, PollTimeout, poolVars
<1>2. ServerTypeOK' /\ JobsApart' /\ NobodyDropped'
  BY <1>1 DEF AcceptInv, ServerTypeOK, PoolTypeOK, RunnerState, JobsApart, NobodyDropped, Queued, Busy
<1>3. HeldOpen' /\ Phases'
  BY <1>1 DEF AcceptInv, HeldOpen, Phases
<1> QED
  BY <1>2, <1>3 DEF AcceptInv

LEMMA AcceptKeeps ==
  ASSUME AcceptInv, NEW c \in Client, Accept(c)
  PROVE  AcceptInv'
<1>1. /\ runner = "polling" /\ sock[c] = "away" /\ sock' = [sock EXCEPT ![c] = "open"]
      /\ conn' = c /\ runner' = "accepted" /\ conn = NoClient
      /\ UNCHANGED <<queue, stopping, discharged, thread, job, shut, stopper, force>>
  BY DEF Accept, poolVars, AcceptInv, HeldOpen
<1>2. ServerTypeOK'
  BY <1>1 DEF AcceptInv, ServerTypeOK, PoolTypeOK, RunnerState
<1>3. JobsApart'
  BY <1>1 DEF AcceptInv, JobsApart
<1>4. HeldOpen'
  BY <1>1, PoolAssumption DEF AcceptInv, HeldOpen, ServerTypeOK
<1>5. Phases'
  BY <1>1 DEF AcceptInv, Phases
<1>6. NobodyDropped'
  BY <1>1, PoolAssumption DEF AcceptInv, NobodyDropped, Queued, Busy, ServerTypeOK
<1> QED
  BY <1>2, <1>3, <1>4, <1>5, <1>6 DEF AcceptInv

LEMMA HandKeeps ==
  ASSUME AcceptInv, Hand
  PROVE  AcceptInv'
<1>1. /\ ~stopping /\ queue' = Append(queue, conn) /\ runner = "accepted" /\ runner' = "queued"
      /\ conn' = NoClient /\ UNCHANGED <<stopping, discharged, thread, job, shut, stopper, force, sock>>
  BY DEF Hand, Enqueue, Refuses
<1>2. queue \in Seq(Client) /\ conn \in Client /\ sock[conn] = "open" /\ conn # NoClient
  BY <1>1 DEF AcceptInv, ServerTypeOK, PoolTypeOK, HeldOpen
<1>3. /\ queue' \in Seq(Client) /\ DOMAIN queue' = 1..Len(queue) + 1
      /\ DOMAIN queue = 1..Len(queue) /\ Len(queue) \in Nat /\ queue'[Len(queue) + 1] = conn
      /\ \A i \in DOMAIN queue : queue'[i] = queue[i]
  BY <1>1, <1>2, Appended
<1>4. ServerTypeOK'
  BY <1>1, <1>3 DEF AcceptInv, ServerTypeOK, PoolTypeOK, RunnerState
<1>5. \A i \in DOMAIN queue' : i \in DOMAIN queue \/ i = Len(queue) + 1
  BY <1>3
<1>6. JobsApart'
  BY <1>1, <1>2, <1>3, <1>5 DEF AcceptInv, JobsApart, HeldOpen
<1>7. HeldOpen'
  <2>1. \A i \in DOMAIN queue' : sock[queue'[i]] = "open" /\ queue'[i] \in Client
    BY <1>2, <1>3, <1>5 DEF AcceptInv, HeldOpen
  <2> QED
    BY <1>1, <2>1, PoolAssumption DEF AcceptInv, HeldOpen, ServerTypeOK, PoolTypeOK
<1>8. Phases'
  BY <1>1 DEF AcceptInv, Phases
<1>9. NobodyDropped'
  <2>1. conn \in Queued' /\ Queued \subseteq Queued'
    BY <1>3 DEF Queued
  <2>2. Busy' = Busy
    BY <1>1 DEF Busy
  <2> QED
    BY <1>1, <2>1, <2>2 DEF AcceptInv, NobodyDropped
<1> QED
  BY <1>4, <1>6, <1>7, <1>8, <1>9 DEF AcceptInv

LEMMA TurnAwayKeeps ==
  ASSUME AcceptInv, TurnAway
  PROVE  AcceptInv'
<1>1. /\ runner = "accepted" /\ sock' = [sock EXCEPT ![conn] = "closed"]
      /\ conn' = NoClient /\ runner' = "looping"
      /\ UNCHANGED <<queue, stopping, discharged, thread, job, shut, stopper, force>>
  BY DEF TurnAway, poolVars
<1>2. conn \in Client /\ conn # NoClient
  BY <1>1 DEF AcceptInv, HeldOpen, ServerTypeOK
<1>3. ServerTypeOK' /\ JobsApart'
  BY <1>1 DEF AcceptInv, ServerTypeOK, PoolTypeOK, RunnerState, JobsApart
<1>4. HeldOpen'
  BY <1>1, <1>2, ElementOfSeq, PoolAssumption DEF AcceptInv, HeldOpen, ServerTypeOK, PoolTypeOK
<1>5. Phases'
  BY <1>1 DEF AcceptInv, Phases
<1>6. NobodyDropped'
  BY <1>1, <1>2 DEF AcceptInv, NobodyDropped, Queued, Busy, ServerTypeOK
<1> QED
  BY <1>3, <1>4, <1>5, <1>6 DEF AcceptInv

LEMMA NotifyKeeps ==
  ASSUME AcceptInv, Notify
  PROVE  AcceptInv'
<1>1. /\ runner = "queued" /\ runner' = "looping"
      /\ UNCHANGED <<queue, stopping, discharged, job, shut, conn, stopper, force, sock>>
  BY DEF Notify, NotifyOne
<1>2. \/ thread' = thread
      \/ \E w \in Worker : thread[w] = "asleep" /\ thread' = [thread EXCEPT ![w] = "checking"]
  BY DEF Notify, NotifyOne
<1>3. ServerTypeOK'
  BY <1>1, <1>2 DEF AcceptInv, ServerTypeOK, PoolTypeOK, RunnerState, ThreadState
<1>4. \A w \in Worker : \/ thread'[w] = thread[w]
                        \/ thread[w] = "asleep" /\ thread'[w] = "checking"
  BY <1>2 DEF AcceptInv, ServerTypeOK, PoolTypeOK
<1>5. JobsApart'
  BY <1>1, <1>4 DEF AcceptInv, JobsApart
<1>6. HeldOpen'
  BY <1>1 DEF AcceptInv, HeldOpen
<1>7. Phases'
  BY <1>1, <1>4 DEF AcceptInv, Phases
<1>8. NobodyDropped'
  BY <1>1 DEF AcceptInv, NobodyDropped, Queued, Busy
<1> QED
  BY <1>3, <1>5, <1>6, <1>7, <1>8 DEF AcceptInv

LEMMA ShutdownKeeps ==
  ASSUME AcceptInv, Shutdown \/ NothingToStop
  PROVE  AcceptInv'
<1>1. /\ \/ stopper = "idle" /\ stopper' = "flagged" /\ force' \in BOOLEAN /\ shut' = TRUE
         \/ stopper = "flagged" /\ discharged /\ stopper' = "done" /\ UNCHANGED <<force, shut>>
      /\ UNCHANGED <<queue, stopping, discharged, thread, job, runner, conn, sock>>
  BY ForcesAssumption DEF Shutdown, NothingToStop, poolVars
<1>2. ~stopping
  BY <1>1 DEF AcceptInv, Phases
<1>3. ServerTypeOK'
  BY <1>1 DEF AcceptInv, ServerTypeOK, PoolTypeOK, StopperState
<1>4. JobsApart' /\ HeldOpen'
  BY <1>1 DEF AcceptInv, JobsApart, HeldOpen
<1>5. Phases'
  BY <1>1, <1>2 DEF AcceptInv, Phases
<1>6. NobodyDropped'
  BY <1>1, <1>2 DEF AcceptInv, NobodyDropped, Queued, Busy
<1> QED
  BY <1>3, <1>4, <1>5, <1>6 DEF AcceptInv

LEMMA StopPoolKeeps ==
  ASSUME AcceptInv, StopPool
  PROVE  AcceptInv'
<1>1. /\ stopper = "flagged" /\ ~discharged /\ stopper' = "stopping" /\ stopping' = TRUE
      /\ queue' = (IF force THEN << >> ELSE queue)
      /\ UNCHANGED <<discharged, thread, job, shut, runner, conn, force, sock>>
  BY DEF StopPool, Stop
<1>2. ~stopping
  BY <1>1 DEF AcceptInv, Phases
<1>3. queue' \in Seq(Client) /\ \A i \in DOMAIN queue' : ~force /\ i \in DOMAIN queue /\ queue' = queue
  BY <1>1 DEF AcceptInv, ServerTypeOK, PoolTypeOK
<1>4. ServerTypeOK'
  BY <1>1, <1>3 DEF AcceptInv, ServerTypeOK, PoolTypeOK, StopperState
<1>5. JobsApart'
  BY <1>1, <1>3 DEF AcceptInv, JobsApart
<1>6. HeldOpen'
  BY <1>1, <1>3 DEF AcceptInv, HeldOpen
<1>7. Phases'
  BY <1>1, <1>2 DEF AcceptInv, Phases, ServerTypeOK, PoolTypeOK
<1>8. NobodyDropped'
  BY <1>1, <1>2 DEF AcceptInv, NobodyDropped, Queued, Busy
<1> QED
  BY <1>4, <1>5, <1>6, <1>7, <1>8 DEF AcceptInv

LEMMA WakeAllKeeps ==
  ASSUME AcceptInv, WakeAll
  PROVE  AcceptInv'
<1>1. /\ stopper = "stopping" /\ stopper' = "joining"
      /\ thread' = [w \in Worker |-> IF thread[w] = "asleep" THEN "checking" ELSE thread[w]]
      /\ UNCHANGED <<queue, stopping, discharged, job, shut, runner, conn, force, sock>>
  BY DEF WakeAll, NotifyAll
<1>2. ServerTypeOK'
  BY <1>1 DEF AcceptInv, ServerTypeOK, PoolTypeOK, StopperState, ThreadState
<1>3. JobsApart' /\ HeldOpen'
  BY <1>1 DEF AcceptInv, JobsApart, HeldOpen
<1>4. Phases'
  BY <1>1 DEF AcceptInv, Phases
<1>5. NobodyDropped'
  BY <1>1 DEF AcceptInv, NobodyDropped, Queued, Busy
<1> QED
  BY <1>2, <1>3, <1>4, <1>5 DEF AcceptInv

LEMMA JoinKeeps ==
  ASSUME AcceptInv, Join
  PROVE  AcceptInv'
<1>1. /\ stopper = "joining" /\ stopper' = "done" /\ \A w \in Worker : thread[w] = "gone"
      /\ thread' = [w \in Worker |-> "none"] /\ discharged' = TRUE
      /\ UNCHANGED <<queue, stopping, job, shut, runner, conn, force, sock>>
  BY DEF Join, Joined
<1>2. stopping /\ queue = << >> /\ runner \notin {"idle", "flagged"}
  BY <1>1, PoolAssumption DEF AcceptInv, Phases
<1>3. ServerTypeOK'
  BY <1>1 DEF AcceptInv, ServerTypeOK, PoolTypeOK, StopperState, ThreadState
<1>4. JobsApart' /\ HeldOpen'
  BY <1>1 DEF AcceptInv, JobsApart, HeldOpen
<1>5. Phases'
  BY <1>1, <1>2 DEF AcceptInv, Phases
<1>6. NobodyDropped'
  BY <1>1 DEF AcceptInv, NobodyDropped, Queued, Busy
<1> QED
  BY <1>3, <1>4, <1>5, <1>6 DEF AcceptInv

LEMMA TakeKeeps ==
  ASSUME AcceptInv, NEW w \in Worker, Take(w), UNCHANGED serverVars
  PROVE  AcceptInv'
<1>1. /\ thread[w] = "checking" /\ queue # << >> /\ queue \in Seq(Client)
      /\ job' = [job EXCEPT ![w] = Head(queue)] /\ queue' = Tail(queue)
      /\ thread' = [thread EXCEPT ![w] = "running"]
      /\ UNCHANGED <<stopping, discharged, shut, runner, conn, stopper, force, sock>>
  BY DEF Take, serverVars, AcceptInv, ServerTypeOK, PoolTypeOK
<1>2. /\ queue' \in Seq(Client) /\ Head(queue) = queue[1] /\ queue[1] \in Client
      /\ DOMAIN queue = 1..Len(queue) /\ Len(queue) \in Nat \ {0} /\ DOMAIN queue' = 1..Len(queue) - 1
      /\ \A i \in DOMAIN queue' : i + 1 \in DOMAIN queue /\ queue'[i] = queue[i + 1]
  BY <1>1, Advanced
<1>3. ServerTypeOK'
  BY <1>1, <1>2 DEF AcceptInv, ServerTypeOK, PoolTypeOK, ThreadState
<1>4. /\ job'[w] = queue[1] /\ thread'[w] = "running"
      /\ \A v \in Worker \ {w} : job'[v] = job[v] /\ thread'[v] = thread[v]
  BY <1>1, <1>2 DEF AcceptInv, ServerTypeOK, PoolTypeOK
<1>5. 1 \in DOMAIN queue /\ \A i \in DOMAIN queue' : i + 1 # 1
  BY <1>2
<1>6. JobsApart'
  <2>1. \A v \in Worker : job'[v] # NoClient <=> thread'[v] = "running"
    BY <1>2, <1>4, PoolAssumption DEF AcceptInv, JobsApart
  <2>2. \A v \in Worker \ {w} : job[v] # queue[1]
    BY <1>5 DEF AcceptInv, JobsApart
  <2>3. \A v, u \in Worker : v # u /\ thread'[v] = "running" => job'[v] # job'[u]
    BY <1>4, <2>2 DEF AcceptInv, JobsApart
  <2>4. \A i, j \in DOMAIN queue' : i # j => i + 1 # j + 1
    BY <1>2
  <2>5. \A i, j \in DOMAIN queue' : i # j => queue'[i] # queue'[j]
    BY <1>2, <2>4 DEF AcceptInv, JobsApart
  <2>6. \A i \in DOMAIN queue' : queue'[i] # queue[1]
    BY <1>2, <1>5 DEF AcceptInv, JobsApart
  <2>7. \A i \in DOMAIN queue' : \A v \in Worker : job'[v] # queue'[i]
    BY <1>2, <1>4, <2>6 DEF AcceptInv, JobsApart
  <2> QED
    BY <2>1, <2>3, <2>5, <2>7 DEF JobsApart
<1>7. HeldOpen'
  BY <1>1, <1>2, <1>4, <1>5 DEF AcceptInv, HeldOpen
<1>8. Phases'
  BY <1>1, <1>4 DEF AcceptInv, Phases
<1>9. NobodyDropped'
  <2>1. ASSUME NEW c \in Queued PROVE c \in Queued' \cup Busy'
    <3>1. PICK i \in DOMAIN queue : c = queue[i]
      BY DEF Queued
    <3>2. CASE i = 1
      BY <1>2, <1>4, <3>1, <3>2 DEF Busy
    <3>3. CASE i # 1
      <4>1. i - 1 \in DOMAIN queue' /\ i - 1 + 1 = i
        BY <1>2, <3>3
      <4>2. queue'[i - 1] = c
        BY <1>2, <3>1, <4>1
      <4> QED
        BY <4>1, <4>2 DEF Queued
    <3> QED
      BY <3>2, <3>3
  <2>2. Busy \subseteq Busy'
    <3>1. job[w] = NoClient
      BY <1>1 DEF AcceptInv, JobsApart
    <3> QED
      BY <1>4, <3>1, PoolAssumption DEF Busy
  <2> QED
    BY <1>1, <2>1, <2>2 DEF AcceptInv, NobodyDropped
<1> QED
  BY <1>3, <1>6, <1>7, <1>8, <1>9 DEF AcceptInv

LEMMA RestKeeps ==
  ASSUME AcceptInv, NEW w \in Worker, Sleep(w) \/ Leave(w), UNCHANGED serverVars
  PROVE  AcceptInv'
<1>1. /\ thread[w] = "checking" /\ queue = << >>
      /\ \/ thread' = [thread EXCEPT ![w] = "asleep"]
         \/ thread' = [thread EXCEPT ![w] = "gone"] /\ stopping
      /\ UNCHANGED <<queue, stopping, discharged, job, shut, runner, conn, stopper, force, sock>>
  BY DEF Sleep, Leave, serverVars
<1>2. ServerTypeOK'
  BY <1>1 DEF AcceptInv, ServerTypeOK, PoolTypeOK, ThreadState
<1>3. /\ thread'[w] # "running" /\ \A v \in Worker \ {w} : thread'[v] = thread[v]
      /\ thread'[w] = "gone" => stopping
  BY <1>1 DEF AcceptInv, ServerTypeOK, PoolTypeOK
<1>4. JobsApart' /\ HeldOpen'
  BY <1>1, <1>3 DEF AcceptInv, JobsApart, HeldOpen
<1>5. Phases'
  BY <1>1, <1>3 DEF AcceptInv, Phases
<1>6. NobodyDropped'
  BY <1>1 DEF AcceptInv, NobodyDropped, Queued, Busy
<1> QED
  BY <1>2, <1>4, <1>5, <1>6 DEF AcceptInv

LEMMA HangupKeeps ==
  ASSUME AcceptInv, NEW w \in Worker, Hangup(w)
  PROVE  AcceptInv'
<1>1. /\ thread[w] = "running" /\ thread' = [thread EXCEPT ![w] = "checking"]
      /\ job' = [job EXCEPT ![w] = NoClient] /\ sock' = [sock EXCEPT ![job[w]] = "closed"]
      /\ UNCHANGED <<queue, stopping, discharged, shut, runner, conn, stopper, force>>
  BY DEF Hangup, JobOver
<1>2. job[w] \in Client /\ job[w] # NoClient
  BY <1>1 DEF AcceptInv, ServerTypeOK, PoolTypeOK, JobsApart
<1>3. ServerTypeOK'
  BY <1>1, <1>2 DEF AcceptInv, ServerTypeOK, PoolTypeOK, ThreadState
<1>4. /\ job'[w] = NoClient /\ thread'[w] = "checking"
      /\ \A v \in Worker \ {w} : job'[v] = job[v] /\ thread'[v] = thread[v]
      /\ sock'[job[w]] = "closed" /\ \A c \in Client \ {job[w]} : sock'[c] = sock[c]
  BY <1>1, <1>2 DEF AcceptInv, ServerTypeOK, PoolTypeOK
<1>5. JobsApart'
  BY <1>1, <1>4, ElementOfSeq, PoolAssumption DEF AcceptInv, JobsApart, ServerTypeOK, PoolTypeOK
<1>6. HeldOpen'
  <2>1. \A i \in DOMAIN queue : queue[i] \in Client \ {job[w]}
    BY ElementOfSeq DEF AcceptInv, JobsApart, ServerTypeOK, PoolTypeOK
  <2>2. \A v \in Worker \ {w} : job[v] # job[w]
    BY <1>1 DEF AcceptInv, JobsApart
  <2>3. conn # job[w]
    BY <1>2 DEF AcceptInv, HeldOpen
  <2> QED
    BY <1>1, <1>4, <2>1, <2>2, <2>3 DEF AcceptInv, HeldOpen, ServerTypeOK, PoolTypeOK
<1>7. Phases'
  BY <1>1, <1>4 DEF AcceptInv, Phases
<1>8. NobodyDropped'
  <2>1. Queued' = Queued /\ Busy \subseteq Busy' \cup {job[w]}
    BY <1>1, <1>4 DEF Queued, Busy
  <2> QED
    BY <1>1, <1>4, <2>1 DEF AcceptInv, NobodyDropped
<1> QED
  BY <1>3, <1>5, <1>6, <1>7, <1>8 DEF AcceptInv

LEMMA FetchKeeps ==
  ASSUME AcceptInv, NEW w \in Worker, Fetch(w)
  PROVE  AcceptInv'
BY TakeKeeps, RestKeeps DEF Fetch

\* The steps of a worker that leave the accepting server as it is.
LEMMA PageIdles ==
  ASSUME NEW w \in Worker, ReadRequest(w) \/ PageStep(w)
  PROVE  UNCHANGED <<poolVars, serverVars>>
BY DEF ReadRequest, PageStep, FlushEarly, Throws, Raises, Commit, Answer, Report, FlushError

LEMMA AcceptInvStep ==
  ASSUME AcceptInv, [Next]_vars
  PROVE  AcceptInv'
<1>1. CASE AcceptStep
  BY <1>1, RunKeeps, ListenKeeps, PollKeeps, AcceptKeeps, HandKeeps, TurnAwayKeeps, NotifyKeeps
     DEF AcceptStep, RunnerStep
<1>2. CASE StopStep
  BY <1>2, ShutdownKeeps, StopPoolKeeps, WakeAllKeeps, JoinKeeps DEF StopStep, StopperStep
<1>3. ASSUME NEW w \in Worker, WorkerStep(w) PROVE AcceptInv'
  <2>1. CASE Fetch(w)
    BY <2>1, FetchKeeps
  <2>2. CASE Refuse(w) \/ ReadEnds(w)
    BY <2>2, HangupKeeps DEF Refuse, ReadEnds
  <2>3. CASE ReadRequest(w) \/ PageStep(w)
    BY <2>3, PageIdles, IdleKeeps
  <2> QED
    BY <1>3, <2>1, <2>2, <2>3 DEF WorkerStep
<1>4. CASE Still \/ UNCHANGED vars
  BY <1>4, IdleKeeps DEF Still, vars
<1> QED
  BY <1>1, <1>2, <1>3, <1>4 DEF Next

\* A shutdown that has returned has joined every thread of the pool it stopped, and
\* unless it was told to drop them every connection taken in has been closed
\* (TCPServer::shutdown, ThreadPool::discharge, _handler).
THEOREM ShutdownIsClean == Spec => []StopsClean
<1>1. AcceptInv => StopsClean
  <2> SUFFICES ASSUME AcceptInv, stopper = "done", stopping
               PROVE  /\ \A w \in Worker : thread[w] = "none"
                      /\ ~force => \A c \in Client \ {conn} : sock[c] # "open"
    BY DEF StopsClean
  <2>1. discharged /\ queue = << >> /\ \A w \in Worker : thread[w] = "none"
    BY DEF AcceptInv, Phases
  <2>2. Queued = {} /\ \A w \in Worker : job[w] = NoClient
    BY <2>1 DEF AcceptInv, JobsApart, Queued
  <2> QED
    BY <2>1, <2>2, PoolAssumption DEF AcceptInv, NobodyDropped, Busy
<1>2. Init => AcceptInv
  BY AcceptInvInit DEF Init
<1> QED
  BY <1>1, <1>2, AcceptInvStep, PTL DEF Spec

-----------------------------------------------------------------------------
(* The promise of Desk                                                     *)

LEMMA BusyRoom ==
  ASSUME AcceptInv, NEW w \in Worker, thread[w] # "running"
  PROVE  Cardinality(Busy) < Cardinality(Worker)
<1> DEFINE others == Worker \ {w}
           theirs == {job[v] : v \in others}
<1>1. IsFiniteSet(others) /\ Cardinality(others) = Cardinality(Worker) - 1
      /\ Cardinality(Worker) \in Nat /\ Cardinality(others) \in Nat
  BY PoolAssumption, FS_RemoveElement, FS_CardinalityType
<1>2. Busy \subseteq theirs
  <2>1. job[w] = NoClient
    BY DEF AcceptInv, JobsApart
  <2> QED
    BY <2>1, PoolAssumption DEF Busy
<1>3. IsFiniteSet(theirs) /\ Cardinality(theirs) <= Cardinality(others)
  <2> DEFINE f == [v \in others |-> job[v]]
  <2>1. f \in Surjection(others, theirs)
    BY Fun_IsSurj
  <2> HIDE DEF f, theirs, others
  <2> QED
    BY <1>1, <2>1, FS_Surjection
<1>4. IsFiniteSet(Busy) /\ Cardinality(Busy) <= Cardinality(theirs)
      /\ Cardinality(Busy) \in Nat /\ Cardinality(theirs) \in Nat
  BY <1>2, <1>3, FS_Subset, FS_CardinalityType
<1> QED
  BY <1>1, <1>3, <1>4

\* What Desk sees of a state: the queue, who is served, who is past, the closing.
Past == {c \in Client : sock[c] = "closed"} \cup Dropped

LEMMA Unseen ==
  ASSUME UNCHANGED <<queue, stopping, job, sock, conn>>
  PROVE  UNCHANGED Promise!deskVars
BY DEF Promise!deskVars, Dropped, Queued, Busy

\* Nobody who is held by the queue, by a worker or by the acceptor is past.
LEMMA HeldNotPast ==
  ASSUME AcceptInv, NEW c \in Client, sock[c] = "open", c = conn \/ c \in Queued \cup Busy
  PROVE  c \notin Past
BY DEF Past, Dropped

LEMMA AcceptRefines ==
  ASSUME AcceptInv, NEW c \in Client, Accept(c)
  PROVE  UNCHANGED Promise!deskVars
<1>1. /\ sock[c] = "away" /\ sock' = [sock EXCEPT ![c] = "open"] /\ conn' = c /\ conn = NoClient
      /\ UNCHANGED <<queue, stopping, job>>
  BY DEF Accept, poolVars, AcceptInv, HeldOpen
<1>2. Queued' = Queued /\ Busy' = Busy
  BY <1>1 DEF Queued, Busy
<1>3. \A x \in Client : sock'[x] = IF x = c THEN "open" ELSE sock[x]
  BY <1>1 DEF AcceptInv, ServerTypeOK
<1>4. {x \in Client : sock'[x] = "closed"} = {x \in Client : sock[x] = "closed"}
  BY <1>1, <1>3
<1>5. Dropped' = Dropped
  BY <1>1, <1>2, <1>3, PoolAssumption DEF Dropped
<1> QED
  BY <1>1, <1>2, <1>4, <1>5 DEF Promise!deskVars

LEMMA HandRefines ==
  ASSUME AcceptInv, AcceptInv', Hand
  PROVE  Promise!Admit(conn) /\ conn \in Client
<1>1. /\ ~stopping /\ ~(Limit > 0 /\ Len(queue) >= Limit) /\ queue' = Append(queue, conn)
      /\ runner = "accepted" /\ conn' = NoClient /\ UNCHANGED <<stopping, job, sock>>
  BY DEF Hand, Enqueue, Refuses
<1>2. queue \in Seq(Client) /\ conn \in Client /\ sock[conn] = "open" /\ conn # NoClient
  BY <1>1 DEF AcceptInv, ServerTypeOK, PoolTypeOK, HeldOpen
<1>3. conn \notin Queued \cup Busy \cup Past
  BY <1>2 DEF AcceptInv, HeldOpen, Queued, Busy, Past, Dropped
<1>4. Queued' = Queued \cup {conn} /\ Busy' = Busy
  <2>1. /\ DOMAIN queue' = 1..Len(queue) + 1 /\ DOMAIN queue = 1..Len(queue) /\ Len(queue) \in Nat
        /\ queue'[Len(queue) + 1] = conn /\ \A i \in DOMAIN queue : queue'[i] = queue[i]
    BY <1>1, <1>2, Appended
  <2>2. \A i \in DOMAIN queue' : i \in DOMAIN queue \/ i = Len(queue) + 1
    BY <2>1
  <2>3. Queued' \subseteq Queued \cup {conn} /\ Queued \cup {conn} \subseteq Queued'
    BY <2>1, <2>2 DEF Queued
  <2> QED
    BY <1>1, <2>3 DEF Busy
<1>5. Past' = Past
  BY <1>1, <1>2, <1>4, PoolAssumption DEF Past, Dropped
<1> QED
  BY <1>1, <1>2, <1>3, <1>4, <1>5
     DEF Promise!Admit, Promise!New, Promise!InLine, Promise!Full, Past, Queued

LEMMA TurnAwayRefines ==
  ASSUME AcceptInv, TurnAway, NEW c \in Client, c = conn
  PROVE  Promise!TurnAway(c)
<1>1. /\ (stopping \/ (Limit > 0 /\ Len(queue) >= Limit)) /\ runner = "accepted"
      /\ sock' = [sock EXCEPT ![conn] = "closed"] /\ conn' = NoClient
      /\ UNCHANGED <<queue, stopping, job>>
  BY DEF TurnAway, Refuses, poolVars
<1>2. conn \in Client /\ sock[conn] = "open" /\ conn # NoClient
  BY DEF TurnAway, AcceptInv, ServerTypeOK, PoolTypeOK, HeldOpen
<1>3. conn \notin Queued \cup Busy \cup Past
  BY <1>2 DEF AcceptInv, HeldOpen, Queued, Busy, Past, Dropped
<1>4. Queued' = Queued /\ Busy' = Busy
  BY <1>1 DEF Queued, Busy
<1>5. Past' = Past \cup {conn}
  <2>1. \A x \in Client : sock'[x] = IF x = conn THEN "closed" ELSE sock[x]
    BY <1>1, <1>2 DEF AcceptInv, ServerTypeOK
  <2>2. \A x \in Client : x \in Past' <=> x \in Past \/ x = conn
    BY <1>1, <1>2, <1>4, <2>1, PoolAssumption DEF Past, Dropped
  <2> QED
    BY <1>2, <2>2 DEF Past, Dropped
<1> QED
  BY <1>1, <1>2, <1>3, <1>4, <1>5
     DEF Promise!TurnAway, Promise!New, Promise!InLine, Promise!Full, Past, Queued

LEMMA TakeRefines ==
  ASSUME AcceptInv, NEW w \in Worker, Take(w), UNCHANGED serverVars
  PROVE  Promise!Call
<1>1. /\ thread[w] = "checking" /\ queue # << >> /\ queue \in Seq(Client)
      /\ job' = [job EXCEPT ![w] = Head(queue)] /\ queue' = Tail(queue)
      /\ UNCHANGED <<stopping, conn, sock>>
  BY DEF Take, serverVars, AcceptInv, ServerTypeOK, PoolTypeOK
<1>2. /\ Head(queue) = queue[1] /\ queue[1] \in Client /\ 1 \in DOMAIN queue
      /\ DOMAIN queue = 1..Len(queue) /\ Len(queue) \in Nat \ {0} /\ DOMAIN queue' = 1..Len(queue) - 1
      /\ \A i \in DOMAIN queue' : i + 1 \in DOMAIN queue /\ queue'[i] = queue[i + 1]
  BY <1>1, Advanced
<1>3. job[w] = NoClient
  BY <1>1 DEF AcceptInv, JobsApart
<1>4. Busy' = Busy \cup {Head(queue)}
  BY <1>1, <1>2, <1>3, PoolAssumption DEF Busy, AcceptInv, ServerTypeOK, PoolTypeOK
<1>5. Queued' \cup Busy' = Queued \cup Busy
  <2>1. ASSUME NEW c \in Queued PROVE c \in Queued' \/ c = Head(queue)
    <3>1. PICK i \in DOMAIN queue : c = queue[i]
      BY DEF Queued
    <3>2. CASE i # 1
      <4>1. i - 1 \in DOMAIN queue' /\ i - 1 + 1 = i
        BY <1>2, <3>2
      <4> QED
        BY <1>2, <3>1, <4>1 DEF Queued
    <3> QED
      BY <1>2, <3>1, <3>2
  <2>2. Queued' \subseteq Queued /\ Head(queue) \in Queued
    BY <1>2 DEF Queued
  <2> QED
    BY <1>4, <2>1, <2>2
<1>6. Past' = Past
  BY <1>1, <1>5 DEF Past, Dropped
<1>7. Promise!Cardinality(Busy) < Cardinality(Worker)
  <2>1. Promise!Cardinality(Busy) = Cardinality(Busy)
    BY DEF Promise!Cardinality, Cardinality
  <2>2. Cardinality(Busy) < Cardinality(Worker)
    BY <1>1, BusyRoom
  <2> QED
    BY <2>1, <2>2
<1> QED
  BY <1>1, <1>4, <1>6, <1>7 DEF Promise!Call, Past

LEMMA HangupRefines ==
  ASSUME AcceptInv, NEW w \in Worker, Hangup(w), NEW c \in Client, c = job[w]
  PROVE  Promise!Finish(c)
<1>1. /\ thread[w] = "running" /\ job' = [job EXCEPT ![w] = NoClient]
      /\ sock' = [sock EXCEPT ![job[w]] = "closed"]
      /\ UNCHANGED <<queue, stopping, conn>>
  BY DEF Hangup, JobOver
<1>2. job[w] \in Client /\ job[w] # NoClient /\ sock[job[w]] = "open" /\ conn # job[w]
  BY <1>1 DEF AcceptInv, ServerTypeOK, PoolTypeOK, JobsApart, HeldOpen
<1>3. Queued' = Queued /\ job[w] \notin Queued /\ job[w] \in Busy
  BY <1>1, <1>2 DEF AcceptInv, JobsApart, Queued, Busy
<1>4. Busy' = Busy \ {job[w]}
  <2>1. \A v \in Worker \ {w} : job[v] # job[w]
    BY <1>1 DEF AcceptInv, JobsApart
  <2>2. \A v \in Worker : job'[v] = IF v = w THEN NoClient ELSE job[v]
    BY <1>1 DEF AcceptInv, ServerTypeOK, PoolTypeOK
  <2> QED
    BY <2>1, <2>2, PoolAssumption DEF Busy
<1>5. Past' = Past \cup {job[w]}
  <2>1. \A x \in Client : sock'[x] = IF x = job[w] THEN "closed" ELSE sock[x]
    BY <1>1, <1>2 DEF AcceptInv, ServerTypeOK
  <2>2. \A x \in Client : x \in Past' <=> x \in Past \/ x = job[w]
    BY <1>1, <1>2, <1>3, <1>4, <2>1 DEF Past, Dropped
  <2> QED
    BY <1>2, <2>2 DEF Past, Dropped
<1> QED
  BY <1>1, <1>2, <1>3, <1>4, <1>5 DEF Promise!Finish, Past

LEMMA StopPoolRefines ==
  ASSUME AcceptInv, StopPool
  PROVE  Promise!CloseUp
<1>1. /\ ~stopping /\ stopping' = TRUE /\ queue' = (IF force THEN << >> ELSE queue)
      /\ UNCHANGED <<job, conn, sock>>
  BY DEF StopPool, Stop, AcceptInv, Phases
<1>2. Busy' = Busy
  BY <1>1 DEF Busy
<1>3. CASE ~force
  <2>1. queue' = queue /\ Past' = Past
    BY <1>1, <1>2, <1>3 DEF Past, Dropped, Queued
  <2> QED
    BY <1>1, <1>2, <2>1 DEF Promise!CloseUp, Past
<1>4. CASE force
  <2>1. queue' = << >> /\ Queued' = {}
    BY <1>1, <1>4 DEF Queued
  <2>2. \A c \in Queued : c \in Client /\ sock[c] = "open" /\ c # conn /\ c \notin Busy
    BY ElementOfSeq DEF Queued, Busy, AcceptInv, HeldOpen, JobsApart, ServerTypeOK, PoolTypeOK
  <2>3. Past' = Past \cup Queued
    BY <1>1, <1>2, <2>1, <2>2 DEF Past, Dropped
  <2> QED
    BY <1>1, <1>2, <2>1, <2>3 DEF Promise!CloseUp, Promise!InLine, Past, Queued
<1> QED
  BY <1>3, <1>4

LEMMA ListenRefines ==
  ASSUME AcceptInv, Listen
  PROVE  UNCHANGED Promise!deskVars
<1>1. queue = << >> /\ ~stopping
  BY DEF Listen, AcceptInv, Phases
<1>2. UNCHANGED <<queue, stopping, job, sock, conn>>
  BY <1>1 DEF Listen, Charge, AcceptInv, ServerTypeOK, PoolTypeOK
<1> QED
  BY <1>2, Unseen

LEMMA StepRefines ==
  ASSUME AcceptInv, AcceptInv', [Next]_vars
  PROVE  [Promise!Next]_(Promise!deskVars)
<1>1. CASE AcceptStep
  <2>1. CASE Run \/ Poll \/ PollTimeout \/ Notify
    <3>1. UNCHANGED <<queue, stopping, job, sock, conn>>
      BY <2>1 DEF Run, Poll, PollTimeout, Notify, NotifyOne, poolVars
    <3> QED
      BY <3>1, Unseen
  <2>2. CASE Hand
    BY <2>2, HandRefines DEF Promise!Next
  <2>3. CASE TurnAway
    <3>1. PICK c \in Client : c = conn
      BY <2>3 DEF TurnAway, AcceptInv, ServerTypeOK, HeldOpen
    <3>2. Promise!TurnAway(c)
      BY <2>3, <3>1, TurnAwayRefines
    <3> QED
      BY <3>2 DEF Promise!Next
  <2> QED
    BY <1>1, <2>1, <2>2, <2>3, ListenRefines, AcceptRefines DEF AcceptStep, RunnerStep
<1>2. CASE StopStep
  <2>1. CASE StopPool
    BY <2>1, StopPoolRefines DEF Promise!Next
  <2>2. CASE Shutdown \/ NothingToStop \/ WakeAll \/ Join
    <3>1. UNCHANGED <<queue, stopping, job, sock, conn>>
      BY <2>2 DEF Shutdown, NothingToStop, WakeAll, NotifyAll, Join, Joined, poolVars
    <3> QED
      BY <3>1, Unseen
  <2> QED
    BY <1>2, <2>1, <2>2 DEF StopStep, StopperStep
<1>3. ASSUME NEW w \in Worker, WorkerStep(w) PROVE [Promise!Next]_(Promise!deskVars)
  <2>1. CASE Take(w) /\ UNCHANGED serverVars
    BY <2>1, TakeRefines DEF Promise!Next
  <2>2. CASE (Sleep(w) \/ Leave(w)) /\ UNCHANGED serverVars
    BY <2>2, Unseen DEF Sleep, Leave, serverVars
  <2>3. CASE Refuse(w) \/ ReadEnds(w)
    <3>1. Hangup(w)
      BY <2>3 DEF Refuse, ReadEnds
    <3>2. PICK c \in Client : c = job[w]
      BY <3>1 DEF Hangup, JobOver, AcceptInv, ServerTypeOK, PoolTypeOK, JobsApart
    <3>3. Promise!Finish(c)
      BY <1>3, <3>1, <3>2, HangupRefines
    <3> QED
      BY <3>3 DEF Promise!Next
  <2>4. CASE ReadRequest(w) \/ PageStep(w)
    BY <2>4, PageIdles, Unseen DEF poolVars, serverVars
  <2> QED
    BY <1>3, <2>1, <2>2, <2>3, <2>4 DEF WorkerStep, Fetch
<1>4. CASE Still \/ UNCHANGED vars
  BY <1>4, Unseen DEF Still, vars, poolVars, serverVars
<1> QED
  BY <1>1, <1>2, <1>3, <1>4 DEF Next

LEMMA InitRefines == Init => Promise!Init
<1> SUFFICES ASSUME Init PROVE Promise!Init
  OBVIOUS
<1>1. Queued = {} /\ Busy = {} /\ Dropped = {}
  BY PoolAssumption DEF Init, ServerInit, PoolInit, Queued, Busy, Dropped
<1> QED
  BY <1>1 DEF Init, ServerInit, PoolInit, Promise!Init

\* Whatever the threads do between accept and close: first come, first served, each
\* connection once, never more than there are workers, and nobody turned away while
\* there is room (ThreadPool::execute and _handler, TCPServer::run and shutdown).
THEOREM ServerKeepsPromise == Spec => KeepsPromise
<1>1. Init => AcceptInv
  BY AcceptInvInit DEF Init
<1> QED
  BY <1>1, InitRefines, StepRefines, AcceptInvStep, PTL DEF Spec, KeepsPromise, Promise!Spec

-----------------------------------------------------------------------------
(* One answer for each request                                             *)

\* a worker in its connection: what it has read, what it has answered, and how its
\* transaction stands
InTurn(w) ==
    LET c == job[w] IN
    /\ heads[c] = IF Answered(w) THEN taken[c] ELSE taken[c] - 1
    /\ dispatch[c] = heads[c] + 1
    /\ at[w] = "answer" <=> txn[w] = "committed"

\* a worker between two requests, or without a connection, carries nothing along
CarriesNothing(w) ==
    /\ txn[w] # "none" <=> thread[w] = "running" /\ at[w] # "reading"
    /\ thread[w] # "running" => at[w] = "reading"
    /\ at[w] = "reading" => ~head[w]

\* a connection that nobody serves yet has sent and been sent nothing
Fresh(c) ==
    c \notin Busy /\ sock[c] # "closed" => taken[c] = 0 /\ heads[c] = 0 /\ dispatch[c] = 1

CountsClose == \A c \in Client : heads[c] \in {taken[c] - 1, taken[c], taken[c] + 1}

PageTypeOK ==
    /\ taken \in [Client -> Nat] /\ dispatch \in [Client -> Nat] /\ heads \in [Client -> Nat]
    /\ at \in [Worker -> Stage] /\ prog \in [Worker -> Seq(PageCall)]
    /\ head \in [Worker -> BOOLEAN]
    /\ txn \in [Worker -> {"none", "open", "committed"}]

PageInv ==
    /\ PageTypeOK
    /\ \A w \in Worker : thread[w] = "running" => InTurn(w)
    /\ \A w \in Worker : CarriesNothing(w)
    /\ \A c \in Client : Fresh(c)
    /\ CountsClose

\* What does not touch the pages, nor who serves which connection.
LEMMA ElsewhereKeeps ==
  ASSUME PageInv, UNCHANGED httpVars,
         \A w \in Worker : /\ job'[w] = job[w] \/ thread'[w] # "running"
                           /\ thread'[w] = "running" <=> thread[w] = "running",
         \A c \in Client : c \notin Busy' /\ sock'[c] # "closed" => c \notin Busy /\ sock[c] # "closed"
  PROVE  PageInv'
<1>1. UNCHANGED <<taken, dispatch, heads, at, prog, head, txn>>
  BY DEF httpVars, connVars, pageVars
<1>2. PageTypeOK' /\ CountsClose'
  BY <1>1 DEF PageInv, PageTypeOK, CountsClose
<1>3. \A w \in Worker : (thread[w] = "running" => InTurn(w))'
  BY <1>1 DEF PageInv, InTurn, Answered
<1>4. \A w \in Worker : CarriesNothing(w)'
  BY <1>1 DEF PageInv, CarriesNothing
<1>5. \A c \in Client : Fresh(c)'
  BY <1>1 DEF PageInv, Fresh
<1> QED
  BY <1>2, <1>3, <1>4, <1>5 DEF PageInv

\* What a worker does to its own page and connection is nobody else's business.
LEMMA OwnPageKeeps ==
  ASSUME AcceptInv, PageInv, NEW w \in Worker, thread[w] = "running",
         UNCHANGED <<poolVars, serverVars>>, PageTypeOK',
         \A v \in Worker \ {w} : at'[v] = at[v] /\ head'[v] = head[v] /\ txn'[v] = txn[v],
         \A c \in Client \ {job[w]} :
           taken'[c] = taken[c] /\ heads'[c] = heads[c] /\ dispatch'[c] = dispatch[c],
         InTurn(w)', CarriesNothing(w)'
  PROVE  PageInv'
<1>1. UNCHANGED <<thread, job, sock>> /\ Busy' = Busy
  BY DEF poolVars, serverVars, Busy
<1>2. job[w] \in Client /\ job[w] \in Busy
  BY DEF AcceptInv, ServerTypeOK, PoolTypeOK, JobsApart, Busy
<1>3. ASSUME NEW v \in Worker, thread'[v] = "running", v # w PROVE InTurn(v)'
  <2>1. job[v] \in Client \ {job[w]}
    BY <1>1, <1>3 DEF AcceptInv, ServerTypeOK, PoolTypeOK, JobsApart
  <2>2. /\ taken'[job[v]] = taken[job[v]] /\ heads'[job[v]] = heads[job[v]]
        /\ dispatch'[job[v]] = dispatch[job[v]]
        /\ at'[v] = at[v] /\ head'[v] = head[v] /\ txn'[v] = txn[v]
    BY <1>3, <2>1
  <2>3. InTurn(v)
    BY <1>1, <1>3 DEF PageInv
  <2> QED
    BY <1>1, <2>2, <2>3 DEF InTurn, Answered
<1>4. ASSUME NEW v \in Worker, v # w PROVE CarriesNothing(v)'
  BY <1>1, <1>4 DEF PageInv, CarriesNothing
<1>5. \A c \in Client : Fresh(c)'
  BY <1>1, <1>2 DEF PageInv, Fresh
<1>6. CountsClose'
  <2>1. heads'[job[w]] \in {taken'[job[w]] - 1, taken'[job[w]], taken'[job[w]] + 1}
    BY <1>1, <1>2 DEF InTurn, PageTypeOK
  <2> QED
    BY <1>2, <2>1 DEF PageInv, CountsClose
<1> QED
  BY <1>3, <1>4, <1>5, <1>6 DEF PageInv

LEMMA ReadRequestKeeps ==
  ASSUME AcceptInv, PageInv, NEW w \in Worker, ReadRequest(w)
  PROVE  PageInv'
<1> DEFINE c == job[w]
<1>1. /\ thread[w] = "running" /\ at[w] = "reading" /\ at' = [at EXCEPT ![w] = "page"]
      /\ taken' = [taken EXCEPT ![c] = @ + 1]
      /\ \E p \in Pages : prog' = [prog EXCEPT ![w] = p]
      /\ txn' = [txn EXCEPT ![w] = "open"] /\ UNCHANGED <<poolVars, serverVars, dispatch, heads, head>>
  BY DEF ReadRequest, Serving, Goes
<1>2. c \in Client /\ job' = job
  BY <1>1 DEF AcceptInv, ServerTypeOK, PoolTypeOK, JobsApart, poolVars
<1>3. PageTypeOK'
  BY <1>1, <1>2, PagesAssumption DEF PageInv, PageTypeOK, Stage
<1>4. InTurn(w) /\ ~head[w] /\ txn[w] = "none"
  BY <1>1 DEF PageInv, CarriesNothing
<1>5. InTurn(w)'
  <2>1. heads[c] = taken[c] /\ dispatch[c] = heads[c] + 1
    BY <1>1, <1>4 DEF InTurn, Answered
  <2>2. /\ heads'[c] = heads[c] /\ taken'[c] = taken[c] + 1 /\ dispatch'[c] = dispatch[c]
        /\ head'[w] = head[w] /\ at'[w] = "page" /\ txn'[w] = "open"
    BY <1>1, <1>2 DEF PageInv, PageTypeOK
  <2>3. taken[c] \in Nat
    BY <1>2 DEF PageInv, PageTypeOK
  <2> QED
    BY <1>2, <1>4, <2>1, <2>2, <2>3 DEF InTurn, Answered
<1>6. CarriesNothing(w)'
  BY <1>1 DEF PageInv, PageTypeOK, CarriesNothing, poolVars
<1>7. /\ \A v \in Worker \ {w} : at'[v] = at[v] /\ head'[v] = head[v] /\ txn'[v] = txn[v]
      /\ \A d \in Client \ {c} :
           taken'[d] = taken[d] /\ heads'[d] = heads[d] /\ dispatch'[d] = dispatch[d]
  BY <1>1 DEF PageInv, PageTypeOK
<1> QED
  BY <1>1, <1>3, <1>5, <1>6, <1>7, OwnPageKeeps

\* A head is written in its turn, or has been.
LEMMA Flushed ==
  ASSUME AcceptInv, PageInv, NEW w \in Worker, thread[w] = "running", at[w] # "reading",
         Flush(w), taken' = taken
  PROVE  /\ heads' \in [Client -> Nat] /\ dispatch' \in [Client -> Nat] /\ job[w] \in Client
         /\ heads'[job[w]] = taken[job[w]] /\ dispatch'[job[w]] = heads'[job[w]] + 1
         /\ \A c \in Client \ {job[w]} : heads'[c] = heads[c] /\ dispatch'[c] = dispatch[c]
<1> DEFINE c == job[w]
<1>1. c \in Client
  BY DEF AcceptInv, ServerTypeOK, PoolTypeOK, JobsApart
<1>2. heads[c] \in Nat /\ dispatch[c] \in Nat /\ taken[c] \in Nat
      /\ heads \in [Client -> Nat] /\ dispatch \in [Client -> Nat]
  BY <1>1 DEF PageInv, PageTypeOK
<1>3. heads[c] = (IF head[w] THEN taken[c] ELSE taken[c] - 1) /\ dispatch[c] = heads[c] + 1
  BY DEF PageInv, InTurn, Answered
<1>4. CASE head[w]
  BY <1>1, <1>2, <1>3, <1>4 DEF Flush
<1>5. CASE ~head[w]
  <2>1. /\ heads' = [heads EXCEPT ![c] = @ + 1] /\ dispatch' = [dispatch EXCEPT ![c] = @ + 1]
    BY <1>5 DEF Flush, Dispatch, Write
  <2> QED
    BY <1>1, <1>2, <1>3, <1>5, <2>1
<1> QED
  BY <1>4, <1>5

LEMMA FlushEarlyKeeps ==
  ASSUME AcceptInv, PageInv, NEW w \in Worker, FlushEarly(w)
  PROVE  PageInv'
<1>1. /\ thread[w] = "running" /\ at[w] = "page" /\ Flush(w)
      /\ prog[w] # << >> /\ prog' = [prog EXCEPT ![w] = Tail(@)]
      /\ head' = [head EXCEPT ![w] = TRUE]
      /\ UNCHANGED <<poolVars, serverVars, taken, at, txn>>
  BY DEF FlushEarly, Calls, Serving
<1>2. Tail(prog[w]) \in Seq(PageCall)
  BY <1>1, HeadTailProperties DEF PageInv, PageTypeOK
<1>3. /\ heads' \in [Client -> Nat] /\ dispatch' \in [Client -> Nat] /\ job[w] \in Client
      /\ heads'[job[w]] = taken[job[w]] /\ dispatch'[job[w]] = heads'[job[w]] + 1
      /\ \A c \in Client \ {job[w]} : heads'[c] = heads[c] /\ dispatch'[c] = dispatch[c]
  BY <1>1, Flushed
<1>4. PageTypeOK'
  BY <1>1, <1>2, <1>3 DEF PageInv, PageTypeOK
<1>5. head'[w] /\ \A v \in Worker \ {w} : head'[v] = head[v]
  BY <1>1 DEF PageInv, PageTypeOK
<1>6. txn[w] = "open"
  BY <1>1 DEF PageInv, PageTypeOK, InTurn, CarriesNothing
<1>7. InTurn(w)' /\ CarriesNothing(w)'
  BY <1>1, <1>3, <1>5, <1>6 DEF InTurn, Answered, CarriesNothing, poolVars
<1> QED
  BY <1>1, <1>3, <1>4, <1>5, <1>7, OwnPageKeeps

LEMMA OutcomeKeeps ==
  ASSUME AcceptInv, PageInv, NEW w \in Worker, Throws(w) \/ Raises(w) \/ Commit(w)
  PROVE  PageInv'
<1>1. /\ thread[w] = "running" /\ at[w] = "page"
      /\ \/ at' = [at EXCEPT ![w] = "failed"] /\ UNCHANGED txn
         \/ at' = [at EXCEPT ![w] = "broken"] /\ UNCHANGED txn
         \/ at' = [at EXCEPT ![w] = "answer"] /\ txn' = [txn EXCEPT ![w] = "committed"]
      /\ UNCHANGED <<poolVars, serverVars, taken, dispatch, heads, head>>
  BY DEF Throws, Raises, Commit, Calls, Serving, Goes, connVars
<1>2. prog' \in [Worker -> Seq(PageCall)]
  <2>1. CASE Commit(w)
    BY <2>1 DEF Commit, PageInv, PageTypeOK
  <2>2. CASE Throws(w) \/ Raises(w)
    <3>1. prog[w] # << >> /\ prog' = [prog EXCEPT ![w] = Tail(@)]
      BY <2>2 DEF Throws, Raises, Calls
    <3>2. Tail(prog[w]) \in Seq(PageCall)
      BY <3>1, HeadTailProperties DEF PageInv, PageTypeOK
    <3> QED
      BY <3>1, <3>2 DEF PageInv, PageTypeOK
  <2> QED
    BY <2>1, <2>2
<1>3. PageTypeOK'
  BY <1>1, <1>2 DEF PageInv, PageTypeOK, Stage
<1>4. txn[w] = "open" /\ InTurn(w)
  BY <1>1 DEF PageInv, PageTypeOK, InTurn, CarriesNothing
<1>5. /\ \A v \in Worker \ {w} : at'[v] = at[v] /\ head'[v] = head[v] /\ txn'[v] = txn[v]
      /\ \/ at'[w] \in {"failed", "broken"} /\ txn'[w] = "open"
         \/ at'[w] = "answer" /\ txn'[w] = "committed"
  BY <1>1, <1>4 DEF PageInv, PageTypeOK
<1>6. InTurn(w)'
  BY <1>1, <1>4, <1>5 DEF InTurn, Answered, poolVars
<1>7. CarriesNothing(w)'
  BY <1>1, <1>5 DEF CarriesNothing, poolVars
<1> QED
  BY <1>1, <1>3, <1>5, <1>6, <1>7, OwnPageKeeps

LEMMA ReplyKeeps ==
  ASSUME AcceptInv, PageInv, NEW w \in Worker, Answer(w) \/ Report(w) \/ FlushError(w)
  PROVE  PageInv'
<1> DEFINE c == job[w]
<1>1. /\ thread[w] = "running" /\ at[w] # "reading"
      /\ at' = [at EXCEPT ![w] = "reading"] /\ txn' = [txn EXCEPT ![w] = "none"]
      /\ head' = [head EXCEPT ![w] = FALSE] /\ prog' = [prog EXCEPT ![w] = << >>]
      /\ UNCHANGED <<poolVars, serverVars, taken>>
  BY DEF Answer, Report, FlushError, LeavesPage, Serving, Goes
<1>2. Flush(w)
  <2>1. CASE Answer(w) \/ Report(w)
    BY <2>1 DEF Answer, Report
  <2>2. CASE FlushError(w)
    <3>1. taken[c] = dispatch[c] /\ Dispatch(w)
      BY <2>2 DEF FlushError, MayWrite
    <3>2. ~head[w]
      <4>1. c \in Client
        BY <1>1 DEF AcceptInv, ServerTypeOK, PoolTypeOK, JobsApart
      <4>2. heads[c] \in Nat /\ taken[c] \in Nat
        BY <4>1 DEF PageInv, PageTypeOK
      <4> QED
        BY <1>1, <3>1, <4>2 DEF PageInv, InTurn, Answered
    <3> QED
      BY <3>1, <3>2 DEF Flush, MayWrite
  <2> QED
    BY <2>1, <2>2
<1>3. /\ heads' \in [Client -> Nat] /\ dispatch' \in [Client -> Nat] /\ c \in Client
      /\ heads'[c] = taken[c] /\ dispatch'[c] = heads'[c] + 1
      /\ \A d \in Client \ {c} : heads'[d] = heads[d] /\ dispatch'[d] = dispatch[d]
  BY <1>1, <1>2, Flushed
<1>4. PageTypeOK'
  BY <1>1, <1>3 DEF PageInv, PageTypeOK, Stage
<1>5. /\ \A v \in Worker \ {w} : at'[v] = at[v] /\ head'[v] = head[v] /\ txn'[v] = txn[v]
      /\ at'[w] = "reading" /\ txn'[w] = "none" /\ ~head'[w]
  BY <1>1 DEF PageInv, PageTypeOK
<1>6. InTurn(w)' /\ CarriesNothing(w)'
  BY <1>1, <1>3, <1>5 DEF InTurn, Answered, CarriesNothing, poolVars
<1> QED
  BY <1>1, <1>3, <1>4, <1>5, <1>6, OwnPageKeeps

LEMMA TakeKeepsPages ==
  ASSUME AcceptInv, PageInv, NEW w \in Worker, Take(w), UNCHANGED serverVars, UNCHANGED httpVars
  PROVE  PageInv'
<1>1. /\ UNCHANGED <<taken, dispatch, heads, at, prog, head, txn, sock>>
      /\ thread[w] = "checking" /\ queue # << >> /\ queue \in Seq(Client)
      /\ job' = [job EXCEPT ![w] = Head(queue)] /\ thread' = [thread EXCEPT ![w] = "running"]
  BY DEF Take, httpVars, connVars, pageVars, serverVars, AcceptInv, ServerTypeOK, PoolTypeOK
<1>2. Head(queue) = queue[1] /\ 1 \in DOMAIN queue /\ queue[1] \in Client
  BY <1>1, Advanced
<1>3. /\ job'[w] = queue[1] /\ thread'[w] = "running"
      /\ \A v \in Worker \ {w} : job'[v] = job[v] /\ thread'[v] = thread[v]
  BY <1>1, <1>2 DEF AcceptInv, ServerTypeOK, PoolTypeOK
<1>4. queue[1] \notin Busy /\ sock[queue[1]] = "open"
  BY <1>2 DEF AcceptInv, JobsApart, HeldOpen, Busy
<1>5. taken[queue[1]] = 0 /\ heads[queue[1]] = 0 /\ dispatch[queue[1]] = 1
  BY <1>2, <1>4 DEF PageInv, Fresh
<1>6. at[w] = "reading" /\ txn[w] = "none" /\ ~head[w]
  BY <1>1 DEF PageInv, CarriesNothing
<1>7. \A v \in Worker : (thread[v] = "running" => InTurn(v))'
  BY <1>1, <1>3, <1>5, <1>6 DEF PageInv, InTurn, Answered
<1>8. \A v \in Worker : CarriesNothing(v)'
  BY <1>1, <1>3, <1>6 DEF PageInv, CarriesNothing
<1>9. Busy \subseteq Busy'
  <2>1. job[w] = NoClient
    BY <1>1 DEF AcceptInv, JobsApart
  <2> QED
    BY <1>3, <2>1, PoolAssumption DEF Busy
<1>10. (\A c \in Client : Fresh(c))' /\ PageTypeOK' /\ CountsClose'
  BY <1>1, <1>9 DEF PageInv, Fresh, PageTypeOK, CountsClose
<1> QED
  BY <1>7, <1>8, <1>10 DEF PageInv

LEMMA HangupKeepsPages ==
  ASSUME AcceptInv, PageInv, NEW w \in Worker, Refuse(w) \/ ReadEnds(w)
  PROVE  PageInv'
<1> DEFINE c == job[w]
<1>1. /\ thread[w] = "running" /\ at[w] = "reading" /\ thread' = [thread EXCEPT ![w] = "checking"]
      /\ job' = [job EXCEPT ![w] = NoClient] /\ sock' = [sock EXCEPT ![c] = "closed"]
      /\ UNCHANGED <<taken, dispatch, at, prog, head, txn>>
      /\ heads' = heads \/ heads' = [heads EXCEPT ![c] = @ + 1]
  BY DEF Refuse, ReadEnds, Serving, Hangup, JobOver, Write, httpVars, connVars, pageVars
<1>2. c \in Client
  BY <1>1 DEF AcceptInv, ServerTypeOK, PoolTypeOK, JobsApart
<1>3. heads[c] \in Nat /\ taken[c] \in Nat /\ heads[c] = taken[c]
  BY <1>1, <1>2 DEF PageInv, PageTypeOK, InTurn, Answered
<1>4. PageTypeOK'
  <2>1. heads \in [Client -> Nat] /\ heads[c] + 1 \in Nat
    BY <1>3 DEF PageInv, PageTypeOK
  <2> HIDE DEF c
  <2>2. heads' \in [Client -> Nat]
    BY <1>1, <2>1
  <2> QED
    BY <1>1, <2>2 DEF PageInv, PageTypeOK
<1>5. /\ heads'[c] \in {heads[c], heads[c] + 1}
      /\ \A d \in Client \ {c} : heads'[d] = heads[d]
  BY <1>1, <1>2 DEF PageInv, PageTypeOK
<1>6. CountsClose'
  BY <1>1, <1>3, <1>5 DEF PageInv, CountsClose
<1>7. /\ thread'[w] = "checking" /\ sock'[c] = "closed"
      /\ \A v \in Worker \ {w} : job'[v] = job[v] /\ thread'[v] = thread[v]
      /\ \A d \in Client \ {c} : sock'[d] = sock[d]
  BY <1>1, <1>2 DEF AcceptInv, ServerTypeOK, PoolTypeOK
<1>8. \A v \in Worker : (thread[v] = "running" => InTurn(v))'
  <2> SUFFICES ASSUME NEW v \in Worker, thread'[v] = "running" PROVE InTurn(v)'
    OBVIOUS
  <2>1. v # w /\ thread[v] = "running" /\ job'[v] = job[v]
    BY <1>7
  <2>2. job[v] \in Client \ {c}
    BY <2>1 DEF AcceptInv, ServerTypeOK, PoolTypeOK, JobsApart
  <2>3. InTurn(v)
    BY <2>1 DEF PageInv
  <2> QED
    BY <1>1, <1>5, <2>1, <2>2, <2>3 DEF InTurn, Answered
<1>9. \A v \in Worker : CarriesNothing(v)'
  BY <1>1, <1>7 DEF PageInv, CarriesNothing
<1>10. \A d \in Client : Fresh(d)'
  <2>1. Busy \subseteq Busy' \cup {c}
    BY <1>7 DEF Busy
  <2> QED
    BY <1>1, <1>5, <1>7, <2>1 DEF PageInv, Fresh
<1> QED
  BY <1>4, <1>6, <1>8, <1>9, <1>10 DEF PageInv

LEMMA PageInvStep ==
  ASSUME AcceptInv, PageInv, [Next]_vars
  PROVE  PageInv'
<1>1. CASE AcceptStep
  <2>1. UNCHANGED <<job, httpVars>>
    BY <1>1 DEF AcceptStep, RunnerStep, Run, Listen, Charge, Poll, PollTimeout, Accept, Hand, Enqueue,
         TurnAway, Notify, NotifyOne, poolVars
  <2>2. \A w \in Worker : thread'[w] = "running" <=> thread[w] = "running"
    BY <1>1 DEF AcceptStep, RunnerStep, Run, Listen, Charge, Poll, PollTimeout, Accept, Hand, Enqueue,
         TurnAway, Notify, NotifyOne, poolVars, AcceptInv, Phases, ServerTypeOK, PoolTypeOK
  <2>3. \A c \in Client : sock'[c] # "closed" => sock[c] # "closed"
    BY <1>1 DEF AcceptStep, RunnerStep, Run, Listen, Poll, PollTimeout, Accept, Hand,
         TurnAway, Notify, AcceptInv, ServerTypeOK
  <2>4. Busy' = Busy
    BY <2>1 DEF Busy
  <2> QED
    BY <2>1, <2>2, <2>3, <2>4, ElsewhereKeeps
<1>2. CASE StopStep
  <2>1. UNCHANGED <<job, sock, httpVars>>
    BY <1>2 DEF StopStep, StopperStep, Shutdown, NothingToStop, StopPool, Stop, WakeAll, NotifyAll,
         Join, Joined, poolVars
  <2>2. \A w \in Worker : thread'[w] = "running" <=> thread[w] = "running"
    BY <1>2 DEF StopStep, StopperStep, Shutdown, NothingToStop, StopPool, Stop, WakeAll, NotifyAll,
         Join, Joined, poolVars
  <2>3. Busy' = Busy
    BY <2>1 DEF Busy
  <2> QED
    BY <2>1, <2>2, <2>3, ElsewhereKeeps
<1>3. ASSUME NEW w \in Worker, WorkerStep(w) PROVE PageInv'
  <2>1. CASE Take(w) /\ UNCHANGED serverVars /\ UNCHANGED httpVars
    BY <2>1, TakeKeepsPages
  <2>2. CASE (Sleep(w) \/ Leave(w)) /\ UNCHANGED serverVars /\ UNCHANGED httpVars
    <3>1. /\ UNCHANGED <<job, sock, httpVars>> /\ Busy' = Busy
          /\ \A v \in Worker : thread'[v] = "running" <=> thread[v] = "running"
      BY <2>2 DEF Sleep, Leave, serverVars, Busy, AcceptInv, ServerTypeOK, PoolTypeOK
    <3> QED
      BY <3>1, ElsewhereKeeps
  <2>3. CASE ReadRequest(w)
    BY <2>3, ReadRequestKeeps
  <2>4. CASE Refuse(w) \/ ReadEnds(w)
    BY <2>4, HangupKeepsPages
  <2>5. CASE PageStep(w)
    BY <2>5, FlushEarlyKeeps, OutcomeKeeps, ReplyKeeps DEF PageStep
  <2> QED
    BY <1>3, <2>1, <2>2, <2>3, <2>4, <2>5 DEF WorkerStep, Fetch
<1>4. CASE Still \/ UNCHANGED vars
  <2>1. UNCHANGED <<job, sock, thread, httpVars>> /\ Busy' = Busy
    BY <1>4 DEF Still, vars, poolVars, serverVars, Busy
  <2> QED
    BY <2>1, ElsewhereKeeps
<1> QED
  BY <1>1, <1>2, <1>3, <1>4 DEF Next

LEMMA PageInvInit == Init => PageInv
<1> SUFFICES ASSUME Init PROVE PageInv
  OBVIOUS
<1>1. PageTypeOK
  BY DEF Init, PageTypeOK, Stage
<1>2. \A w \in Worker : thread[w] = "none" /\ CarriesNothing(w)
  BY DEF Init, ServerInit, PoolInit, CarriesNothing
<1>3. \A c \in Client : Fresh(c)
  BY DEF Init, Fresh
<1>4. CountsClose
  BY DEF Init, CountsClose
<1> QED
  BY <1>1, <1>2, <1>3, <1>4 DEF PageInv

\* Every request has one head, in its turn and as its work ended, and no thread takes
\* a transaction from one request to the next (handle_client, zeytun_handler,
\* HTTPResponse::flush and flush_error).
THEOREM EveryRequestHasOneAnswer == Spec => []OneAnswerEach
<1>1. PageInv => OneAnswerEach
  BY DEF PageInv, OneAnswerEach, InTurn, CarriesNothing, CountsClose
<1>2. Init => AcceptInv
  BY AcceptInvInit DEF Init
<1> QED
  BY <1>1, <1>2, PageInvInit, PageInvStep, AcceptInvStep, PTL DEF Spec

=============================================================================
