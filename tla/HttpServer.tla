----------------------------- MODULE HttpServer -----------------------------
(***************************************************************************)
(* src/HTTP (httpserver, httpresponse) and the page handler of             *)
(* src/ziguratip/loadzeytun.cpp over the accepting server: a worker keeps  *)
(* a connection, reads its requests one after another, runs a page in a    *)
(* transaction of its thread, and answers. Sessions are in RpcPool.        *)
(*                                                                         *)
(* A page is a list of what it calls. The asynchronous mode runs the page  *)
(* in a thread that the same turn of the loop joins, so it is this too.    *)
(***************************************************************************)
EXTENDS TcpServer

CONSTANTS
    MaxRequests,   \* bound: requests a connection sends
    Pages          \* what a page may do: sequences of calls

PageCall == {"FLUSH", "throw", "raise"}

ASSUME PagesAssumption ==
    /\ MaxRequests \in [Client -> Nat]
    /\ \A c \in Failing : MaxRequests[c] = 0
    /\ Pages \subseteq Seq(PageCall)

VARIABLES
    taken,    \* request_id of a connection, less one: requests parsed
    dispatch, \* dispatch_id of a connection
    heads,    \* how many heads have been written on a connection
    at,       \* where a worker is in its connection
    prog,     \* what its page has yet to do
    head,     \* _headers_flushed
    txn       \* the transaction of the thread

connVars == <<taken, dispatch, heads>>
pageVars == <<at, prog, head, txn>>
httpVars == <<connVars, pageVars>>
vars == <<poolVars, serverVars, httpVars>>

Stage == {"reading", "page", "answer", "failed", "broken"}

Init ==
    /\ ServerInit
    /\ taken = [c \in Client |-> 0] /\ dispatch = [c \in Client |-> 1]
    /\ heads = [c \in Client |-> 0]
    /\ at = [w \in Worker |-> "reading"] /\ prog = [w \in Worker |-> << >>]
    /\ head = [w \in Worker |-> FALSE] /\ txn = [w \in Worker |-> "none"]

-----------------------------------------------------------------------------
(* handle_client: the loop of one connection                               *)

Serving(w, stage) == thread[w] = "running" /\ at[w] = stage

Goes(w, stage) == at' = [at EXCEPT ![w] = stage]

\* a whole head and body, and zeytun_handler entered: RequestScope begins,
\* and the page is called
ReadRequest(w) ==
    LET c == job[w] IN
    /\ Serving(w, "reading") /\ taken[c] < MaxRequests[c]
    /\ taken' = [taken EXCEPT ![c] = @ + 1]
    /\ \E p \in Pages : prog' = [prog EXCEPT ![w] = p]
    /\ txn' = [txn EXCEPT ![w] = "open"]
    /\ Goes(w, "page")
    /\ UNCHANGED <<poolVars, serverVars, dispatch, heads, head>>

Write(w) == heads' = [heads EXCEPT ![job[w]] = @ + 1]

\* a head that is refused (400, 411, 413, 414, 431, 501) is answered and ends
\* the connection
Refuse(w) ==
    /\ Serving(w, "reading") /\ taken[job[w]] < MaxRequests[job[w]]
    /\ Write(w) /\ Hangup(w)
    /\ UNCHANGED <<taken, dispatch, pageVars>>

\* the read ends: there was no client, or it has gone, or it has been idle for TIMEOUT,
\* where that is not left at zero, which waits for ever
ReadEnds(w) ==
    /\ Serving(w, "reading")
    /\ Hangup(w)
    /\ UNCHANGED httpVars

-----------------------------------------------------------------------------
(* zeytun_handler                                                          *)

\* the next thing the page does
Calls(w, call) ==
    /\ Serving(w, "page") /\ prog[w] # << >> /\ Head(prog[w]) = call
    /\ prog' = [prog EXCEPT ![w] = Tail(@)]

Dispatch(w) ==
    /\ Write(w)
    /\ dispatch' = [dispatch EXCEPT ![job[w]] = @ + 1]

\* mutant: no look at whether the head is out
FlushBlind(w) == Dispatch(w)

\* flush(): the head once, in the order of the requests
MayWrite(w) == taken[job[w]] = dispatch[job[w]]

Flush(w) ==
    IF head[w]
    THEN UNCHANGED <<heads, dispatch>>
    ELSE MayWrite(w) /\ Dispatch(w)

FlushEarly(w) ==
    /\ Calls(w, "FLUSH") /\ Flush(w)
    /\ head' = [head EXCEPT ![w] = TRUE]
    /\ UNCHANGED <<poolVars, serverVars, taken, at, txn>>

\* a ZiguratException leads to "failed"; an HTTPException, or an exception that is
\* no ZiguratException, to "broken"
Throws(w) ==
    /\ Calls(w, "throw") /\ Goes(w, "failed")
    /\ UNCHANGED <<poolVars, serverVars, connVars, head, txn>>

Raises(w) ==
    /\ Calls(w, "raise") /\ Goes(w, "broken")
    /\ UNCHANGED <<poolVars, serverVars, connVars, head, txn>>

\* the page has returned: the commit, which may refuse (a unique key that turns
\* out not to be one)
Commit(w) ==
    /\ Serving(w, "page") /\ prog[w] = << >>
    /\ \/ txn' = [txn EXCEPT ![w] = "committed"] /\ Goes(w, "answer")
       \/ UNCHANGED txn /\ Goes(w, "failed")
    /\ UNCHANGED <<poolVars, serverVars, connVars, prog, head>>

\* ~RequestScope rolls back what was not committed and unbinds the thread; the
\* request and the response are deleted
LeavesPage(w) ==
    /\ Goes(w, "reading")
    /\ txn' = [txn EXCEPT ![w] = "none"]
    /\ head' = [head EXCEPT ![w] = FALSE]
    /\ prog' = [prog EXCEPT ![w] = << >>]

Answer(w) ==
    /\ Serving(w, "answer") /\ Flush(w) /\ LeavesPage(w)
    /\ UNCHANGED <<poolVars, serverVars, taken>>

Report(w) ==
    /\ Serving(w, "failed") /\ Flush(w) /\ LeavesPage(w)
    /\ UNCHANGED <<poolVars, serverVars, taken>>

\* flush_error() does not ask whether a head has been flushed: it waits its turn
FlushError(w) ==
    /\ Serving(w, "broken") /\ MayWrite(w)
    /\ Dispatch(w)
    /\ LeavesPage(w)
    /\ UNCHANGED <<poolVars, serverVars, taken>>

-----------------------------------------------------------------------------
PageStep(w) ==
    \/ FlushEarly(w) \/ Throws(w) \/ Raises(w) \/ Commit(w)
    \/ Answer(w) \/ Report(w) \/ FlushError(w)

WorkerStep(w) ==
    \/ Fetch(w) /\ UNCHANGED httpVars
    \/ ReadRequest(w) \/ Refuse(w) \/ ReadEnds(w)
    \/ PageStep(w)

AcceptStep == RunnerStep /\ UNCHANGED httpVars
StopStep == (Shutdown \/ StopperStep) /\ UNCHANGED httpVars

\* a page has raised after a FLUSH: flush_error waits for a turn that is past
Stuck(w) == Serving(w, "broken") /\ head[w]

\* nobody has anything left to do, or can do it
Still ==
    /\ \A w \in Worker : thread[w] \in {"none", "asleep", "gone"} \/ Stuck(w)
    /\ runner \in {"looping", "polling", "returned"}
    /\ stopper = "done" \/ (stopper = "joining" /\ \E w \in Worker : Stuck(w))
    /\ UNCHANGED vars

Next ==
    \/ AcceptStep \/ StopStep
    \/ \E w \in Worker : WorkerStep(w)
    \/ Still

Spec == Init /\ [][Next]_vars

\* what a thread does without a client: to read from what accept failed to return
\* ends at once
OwnStep(w) ==
    \/ Fetch(w) /\ UNCHANGED httpVars
    \/ PageStep(w)
    \/ job[w] \in Failing /\ ReadEnds(w)

\* threads run; nothing obliges a client to come, to send, or to leave, and no
\* timeout ends a read of one that does neither
FairSpec ==
    /\ Spec
    /\ WF_vars(AcceptStep)
    /\ WF_vars(StopperStep /\ UNCHANGED httpVars)
    /\ \A w \in Worker : WF_vars(OwnStep(w))

-----------------------------------------------------------------------------
(* Properties                                                              *)

\* Every variable has its type.
TypeOK ==
    /\ ServerTypeOK
    /\ taken \in [Client -> Nat] /\ dispatch \in [Client -> Nat]
    /\ at \in [Worker -> Stage] /\ prog \in [Worker -> Seq(PageCall)]
    /\ head \in [Worker -> BOOLEAN]
    /\ txn \in [Worker -> {"none", "open", "committed"}]

\* The head of an answer is written
Answered(w) == head[w] \/ at[w] = "reading"

\* Each request of a connection has one head, in the order of the requests: a
\* worker has written as many heads as it has read requests, less the one it has
\* in hand; what says that a page went well is written when its work is
\* committed, what says that it did not while nothing is; and a thread carries
\* no transaction from one request to the next.
OneAnswerEach ==
    /\ \A w \in Worker : thread[w] = "running" =>
         LET c == job[w] IN
         /\ heads[c] = IF Answered(w) THEN taken[c] ELSE taken[c] - 1
         /\ dispatch[c] = heads[c] + 1
         /\ at[w] = "answer" <=> txn[w] = "committed"
    /\ \A w \in Worker : txn[w] # "none" <=> thread[w] = "running" /\ at[w] # "reading"
    /\ \A c \in Client : heads[c] \in {taken[c] - 1, taken[c], taken[c] + 1}

\* A shutdown that has returned has left no thread of a pool it stopped, and
\* unless it was told to drop them every connection accepted has been served
\* to its end and closed.
StopsClean ==
    stopper = "done" /\ stopping =>
      /\ \A w \in Worker : thread[w] = "none"
      /\ ~force => \A c \in Client \ {conn} : sock[c] # "open"

\* A worker is held: it reads from a client, or is stuck
Held(w) == Serving(w, "reading") \/ Stuck(w)

\* For no worker is the client silent for ever, or the page of that kind
NobodyHeld == \A w \in Worker : []<>~Held(w)

\* Who waits in the queue is taken up (or sent off, by a forced shutdown) as long as
\* one worker is not held for ever: an idle client costs its own worker only, and no
\* worker sleeps beside a queue. Where none is held for ever every connection accepted
\* is served and closed, and a shutdown ends: everything else a worker does ends.
QueueMoves   == (\E w \in Worker : []<>~Held(w)) => \A c \in Client : c \in Queued ~> c \notin Queued
AcceptedEnds == NobodyHeld => \A c \in Client : sock[c] = "open" ~> (sock[c] = "closed" \/ (force /\ stopping))
ShutdownEnds == NobodyHeld => (stopper = "joining" ~> stopper = "done")
Served == QueueMoves /\ AcceptedEnds /\ ShutdownEnds

\* Not so of the code: a page that has failed gets its turn to say so (hang.cfg).
TurnsCome == \A w \in Worker : Serving(w, "broken") ~> ~Serving(w, "broken")

\* First come, first served, once, by no more than there are workers, and nobody
\* turned away while there is room: the server keeps the promise of Desk.
KeepsPromise == Promise!Spec
=============================================================================
