------------------------------ MODULE TcpServer ------------------------------
(***************************************************************************)
(* src/SocketIO/tcpserver.cpp (and ipcserver.cpp, which is the same loop): *)
(* one thread accepts connections and gives each to the pool, another may  *)
(* shut the server down at any time. The two share _shutdown and the pool. *)
(*                                                                         *)
(* A descriptor is followed from accept to close: nobody but the handler,  *)
(* or the acceptor that failed to queue it, ever closes it. What accept    *)
(* returns is not looked at: a -1 goes the way of a descriptor, and is one *)
(* of Client here, whose stream is at its end from the start.              *)
(***************************************************************************)
EXTENDS ThreadPool

CONSTANTS
    Forces,    \* how shutdown is called
    Failing    \* the accepts that fail, as every one does once shutdown has begun

ASSUME ForcesAssumption == Forces \subseteq BOOLEAN /\ Failing \subseteq Client

VARIABLES
    shut,      \* _shutdown
    runner,    \* where run() is
    conn,      \* client_handle, between accept and execute
    stopper,   \* where shutdown() is
    force,     \* its argument
    sock       \* where each client's connection is

serverVars == <<shut, runner, conn, stopper, force, sock>>

RunnerState == {"idle", "flagged", "looping", "polling", "accepted", "queued", "returned"}
StopperState == {"idle", "flagged", "stopping", "joining", "done"}

ServerTypeOK ==
    /\ PoolTypeOK
    /\ shut \in BOOLEAN /\ force \in BOOLEAN
    /\ runner \in RunnerState /\ stopper \in StopperState
    /\ conn \in Client \cup {NoClient}
    /\ sock \in [Client -> {"away", "open", "closed"}]

ServerInit ==
    /\ PoolInit
    /\ shut = TRUE /\ force = FALSE
    /\ runner = "idle" /\ stopper = "idle" /\ conn = NoClient
    /\ sock = [c \in Client |-> "away"]

-----------------------------------------------------------------------------
(* run()                                                                   *)

Run ==
    /\ runner = "idle" /\ shut
    /\ shut' = FALSE /\ runner' = "flagged"
    /\ UNCHANGED <<conn, stopper, force, sock>> /\ UNCHANGED poolVars

\* charge, limit, bind, listen
Listen ==
    /\ runner = "flagged" /\ Charge
    /\ runner' = "looping"
    /\ UNCHANGED <<shut, conn, stopper, force, sock>>

Poll ==
    /\ runner = "looping"
    /\ runner' = IF shut THEN "returned" ELSE "polling"
    /\ UNCHANGED <<shut, conn, stopper, force, sock>> /\ UNCHANGED poolVars

PollTimeout ==
    /\ runner = "polling"
    /\ runner' = "looping"
    /\ UNCHANGED <<shut, conn, stopper, force, sock>> /\ UNCHANGED poolVars

\* a client that has connected, whenever it did, or an accept that fails
Accept(c) ==
    /\ runner = "polling" /\ sock[c] = "away"
    /\ sock' = [sock EXCEPT ![c] = "open"]
    /\ conn' = c /\ runner' = "accepted"
    /\ UNCHANGED <<shut, stopper, force>> /\ UNCHANGED poolVars

Hand ==
    /\ runner = "accepted" /\ Enqueue(conn)
    /\ conn' = NoClient /\ runner' = "queued"
    /\ UNCHANGED <<shut, stopper, force, sock>>

\* execute threw: the descriptor is closed here
TurnAway ==
    /\ runner = "accepted" /\ Refuses
    /\ sock' = [sock EXCEPT ![conn] = "closed"]
    /\ conn' = NoClient /\ runner' = "looping"
    /\ UNCHANGED <<shut, stopper, force>> /\ UNCHANGED poolVars

Notify ==
    /\ runner = "queued" /\ NotifyOne
    /\ runner' = "looping"
    /\ UNCHANGED <<shut, conn, stopper, force, sock>>

RunnerStep ==
    \/ Run \/ Listen \/ Poll \/ PollTimeout \/ Hand \/ TurnAway \/ Notify
    \/ \E c \in Client : Accept(c)

-----------------------------------------------------------------------------
(* shutdown(force)                                                         *)

Shutdown ==
    /\ stopper = "idle"
    /\ force' \in Forces
    /\ shut' = TRUE /\ stopper' = "flagged"
    /\ UNCHANGED <<runner, conn, sock>> /\ UNCHANGED poolVars

\* discharge() returns at once from a pool that is not charged
NothingToStop ==
    /\ stopper = "flagged" /\ discharged
    /\ stopper' = "done"
    /\ UNCHANGED <<shut, runner, conn, force, sock>> /\ UNCHANGED poolVars

StopPool ==
    /\ stopper = "flagged" /\ Stop(force)
    /\ stopper' = "stopping"
    /\ UNCHANGED <<shut, runner, conn, force, sock>>

WakeAll ==
    /\ stopper = "stopping" /\ NotifyAll
    /\ stopper' = "joining"
    /\ UNCHANGED <<shut, runner, conn, force, sock>>

Join ==
    /\ stopper = "joining" /\ Joined
    /\ stopper' = "done"
    /\ UNCHANGED <<shut, runner, conn, force, sock>>

StopperStep == NothingToStop \/ StopPool \/ WakeAll \/ Join

-----------------------------------------------------------------------------
(* A worker's way from one job to the next                                 *)

Fetch(w) == (Take(w) \/ Sleep(w) \/ Leave(w)) /\ UNCHANGED serverVars

\* the handler's stream is destroyed, and with it the descriptor
Hangup(w) ==
    /\ JobOver(w)
    /\ sock' = [sock EXCEPT ![job[w]] = "closed"]
    /\ UNCHANGED <<shut, runner, conn, stopper, force>>

-----------------------------------------------------------------------------
\* accepted, and neither the acceptor's, nor queued, nor served any more
Dropped ==
    {c \in Client : sock[c] = "open" /\ c # conn /\ c \notin Queued \cup Busy}

Promise == INSTANCE Desk WITH
    Places  <- Cardinality(Worker),
    Room    <- Limit,
    waiting <- queue,
    serving <- Busy,
    past    <- {c \in Client : sock[c] = "closed"} \cup Dropped,
    closing <- stopping
=============================================================================
