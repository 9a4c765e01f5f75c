------------------------------ MODULE RpcPool ------------------------------
(***************************************************************************)
(* The RPC console (System/rpc.parsi) over src/HTTP/session.cpp,           *)
(* src/Connector (rpcpool.cpp, connector.cpp) and the binary server        *)
(* (src/ziguratip/loadzigurat.cpp): a visitor opens a transaction in one   *)
(* request, works in it in others and commits it in the last. What they    *)
(* share is the pool, which names a connection by the transaction it       *)
(* carries and remembers whose it is.                                      *)
(*                                                                         *)
(* A connection is numbered as it is made, and the number is the id of the *)
(* transaction the engine opens for it. A read that fails (the peer has    *)
(* closed, or TIMEOUT has passed) yields an uninitialised variable: any of *)
(* Junk for an id, any byte for a result; the stream then has failed for   *)
(* good.                                                                   *)
(***************************************************************************)
EXTENDS Naturals, Sequences, FiniteSets, Functions

CONSTANTS
    Worker,     \* threads of the HTTP server
    Visitor,    \* browsers, each with one cookie
    Nobody,     \* no visitor, and no certificate
    Subject,    \* [Visitor -> the subject of the certificate it shows, or Nobody]
    LIMIT,      \* transactions the pool holds
    Places,     \* threads of the binary server
    Room,       \* connections that may wait for one
    Junk,       \* what an id that could not be read may be
    OneInside,  \* nobody calls into a connection while a request of his is inside it
    MaxSessions, MaxConnections   \* bounds

ASSUME RpcAssumption ==
    /\ Nobody \notin Visitor /\ Subject \in [Visitor -> {Subject[v] : v \in Visitor}]
    /\ LIMIT \in Nat /\ Places \in Nat /\ Room \in Nat /\ Junk \subseteq Nat
    /\ OneInside \in BOOLEAN /\ MaxSessions \in Nat /\ MaxConnections \in Nat

VARIABLES
    issued,   \* to whom each session id was issued
    store,    \* Session::_store: the ids that stand
    current,  \* Session::_current of each thread
    stage, visitor, do, tx,  \* a request: where it is, whose, and its arguments
    hand,     \* the connection it holds, by number (0: none)
    entries,  \* the pool: name -> [connection, owner]
    opener,   \* for whom each connection was made
    closed,   \* connections the Connector has closed
    deaf,     \* connections whose stream has failed
    side,     \* the server's end of each connection
    wire,     \* the request or the answer under way on it
    work      \* what became of what was done over it

sessionVars == <<issued, store, current>>
requestVars == <<stage, visitor, do, tx, hand>>
clientVars == <<entries, opener, closed, deaf>>
serverVars == <<side, wire, work>>
vars == <<sessionVars, requestVars, clientVars, serverVars>>

Connection == 1..MaxConnections
Ops == {"call", "commit", "rollback"}
Answers == {"done", "thrown"}
Stage == {"idle", "owned", "opening", "insert", "waiting", "release"}

Made == Len(opener)

Init ==
    /\ issued = << >> /\ store = {}
    /\ current = [w \in Worker |-> 0]
    /\ stage = [w \in Worker |-> "idle"] /\ visitor = [w \in Worker |-> Nobody]
    /\ do = [w \in Worker |-> "none"] /\ tx = [w \in Worker |-> 0]
    /\ hand = [w \in Worker |-> 0]
    /\ entries = << >> /\ opener = << >> /\ closed = {} /\ deaf = {}
    /\ side = [n \in Connection |-> "none"]
    /\ wire = [n \in Connection |-> "empty"] /\ work = [n \in Connection |-> "none"]

Goes(w, s) == stage' = [stage EXCEPT ![w] = s]

-----------------------------------------------------------------------------
(* A request and its session                                               *)

\* whoever shows a certificate is its subject, in whatever browser
Person(v) == IF Subject[v] # Nobody THEN [peer |-> Subject[v]] ELSE [browser |-> v]

\* the cookie of v: the session issued to it last
Cookie(v) == {s \in DOMAIN issued : issued[s] = v /\ \A t \in DOMAIN issued : issued[t] = v => t <= s}

\* Session::EXPIRE, as a request begins: what has been idle for too long goes
Sweep == \E idle \in SUBSET store : store' = store \ idle

\* a request of a page that has no use for a session
Visit(w) ==
    /\ stage[w] = "idle" /\ Sweep
    /\ UNCHANGED <<issued, current, requestVars, clientVars, serverVars>>

\* A request of v begins, and the page calls INITIALIZE: the session the cookie
\* names, if it stands after the sweep, or a new one.
Request(w, v) ==
    /\ stage[w] = "idle"
    /\ visitor' = [visitor EXCEPT ![w] = v]
    /\ \E kept \in SUBSET store :
         \/ /\ \E s \in Cookie(v) \cap kept : current' = [current EXCEPT ![w] = s]
            /\ store' = kept /\ UNCHANGED issued
         \/ /\ Cookie(v) \cap kept = {} /\ Len(issued) < MaxSessions
            /\ issued' = Append(issued, v)
            /\ store' = kept \cup {Len(issued) + 1}
            /\ current' = [current EXCEPT ![w] = Len(issued) + 1]
    /\ Goes(w, "owned")
    /\ UNCHANGED <<do, tx, hand, clientVars, serverVars>>

\* RPCPool::owner
OwnerOf(w) ==
    IF Subject[visitor[w]] # Nobody THEN [peer |-> Subject[visitor[w]]]
                                    ELSE [session |-> current[w]]

\* mutant: the thread is left bound to the session
ReleaseForgotten(w) == UNCHANGED current

\* Session::RELEASE
Release(w) == current' = [current EXCEPT ![w] = 0]

\* the page is over: ~RequestScope unbinds the thread, and the handle goes
Leaves(w) ==
    /\ Release(w) /\ Goes(w, "idle")
    /\ visitor' = [visitor EXCEPT ![w] = Nobody]
    /\ do' = [do EXCEPT ![w] = "none"] /\ tx' = [tx EXCEPT ![w] = 0]
    /\ hand' = [hand EXCEPT ![w] = 0]

\* a page that gives its session up
Destroy(w) ==
    /\ stage[w] = "owned"
    /\ store' = store \ {current[w]}
    /\ Leaves(w)
    /\ UNCHANGED <<issued, clientVars, serverVars>>

-----------------------------------------------------------------------------
(* open: connects outside the guard, registers under it                    *)

Waits(n) == side[n] = "waiting"

\* Connector::open. The binary server queues the connection or closes it.
Connect(w) ==
    LET n == Made + 1 IN
    /\ stage[w] = "owned" /\ n <= MaxConnections
    /\ opener' = Append(opener, visitor[w])
    /\ hand' = [hand EXCEPT ![w] = n]
    /\ side' = [side EXCEPT ![n] =
                  IF Cardinality({m \in Connection : Waits(m)}) < Room THEN "waiting" ELSE "over"]
    /\ Goes(w, "opening")
    /\ UNCHANGED <<sessionVars, visitor, do, tx, entries, closed, deaf, wire, work>>

\* the server's first word is the id
Greeted(n) == work[n] # "none"

ReadId(w) ==
    LET n == hand[w] IN
    /\ stage[w] = "opening"
    /\ \/ /\ Greeted(n)
          /\ tx' = [tx EXCEPT ![w] = n] /\ UNCHANGED deaf
       \/ /\ ~Greeted(n)
          /\ \E junk \in Junk : tx' = [tx EXCEPT ![w] = junk]
          /\ deaf' = deaf \cup {n}
    /\ Goes(w, "insert")
    /\ UNCHANGED <<sessionVars, visitor, do, hand, entries, opener, closed, serverVars>>

\* the connection, and with it its stream, is gone
Close(n) == closed' = closed \cup {n} /\ deaf' = deaf \ {n}

Entry(w) == [connection |-> hand[w], owner |-> OwnerOf(w)]
With(t, e) == [u \in DOMAIN entries \cup {t} |-> IF u = t THEN e ELSE entries[u]]

\* mutant: nobody counts
InsertUncounted(w) ==
    /\ stage[w] = "insert"
    /\ IF tx[w] \in DOMAIN entries
       THEN Close(hand[w]) /\ UNCHANGED entries
       ELSE entries' = With(tx[w], Entry(w)) /\ UNCHANGED <<closed, deaf>>
    /\ Leaves(w)
    /\ UNCHANGED <<issued, store, opener, serverVars>>

\* the guarded part of open: past LIMIT, or with a name that is taken, it closes
\* the connection and throws
Insert(w) ==
    /\ stage[w] = "insert"
    /\ IF Cardinality(DOMAIN entries) >= LIMIT \/ tx[w] \in DOMAIN entries
       THEN Close(hand[w]) /\ UNCHANGED entries
       ELSE entries' = With(tx[w], Entry(w)) /\ UNCHANGED <<closed, deaf>>
    /\ Leaves(w)
    /\ UNCHANGED <<issued, store, opener, serverVars>>

-----------------------------------------------------------------------------
(* call, commit, rollback                                                  *)

\* mutant: any transaction that is there
HeldByAnybody(w, t) == t \in DOMAIN entries

\* held() finds the transaction, and it is the owner's
Held(w, t) == t \in DOMAIN entries /\ entries[t].owner = OwnerOf(w)

\* the request is written, where there is somebody to write it to
Ask(w, op, t) ==
    LET n == entries[t].connection IN
    /\ stage[w] = "owned" /\ Held(w, t)
    /\ OneInside => \A o \in Worker : hand[o] # n
    /\ do' = [do EXCEPT ![w] = op] /\ tx' = [tx EXCEPT ![w] = t] /\ hand' = [hand EXCEPT ![w] = n]
    /\ wire' = IF n \in deaf \/ side[n] = "over" THEN wire ELSE [wire EXCEPT ![n] = op]
    /\ Goes(w, "waiting")
    /\ UNCHANGED <<sessionVars, visitor, clientVars, side, work>>

\* held() throws: a transaction that is over, or another owner's
NotHeld(w, t) ==
    /\ stage[w] = "owned" /\ ~Held(w, t)
    /\ Leaves(w)
    /\ UNCHANGED <<issued, store, clientVars, serverVars>>

\* commit and rollback go on to release; what threw stays in the pool
Ends(w, verdict) ==
    IF verdict = "done" /\ do[w] # "call"
    THEN Goes(w, "release") /\ UNCHANGED <<current, visitor, do, tx, hand>>
    ELSE Leaves(w)

Hear(w) ==
    LET n == hand[w] IN
    /\ stage[w] = "waiting" /\ n \notin deaf /\ wire[n] \in Answers
    /\ wire' = [wire EXCEPT ![n] = "empty"]
    /\ Ends(w, wire[n])
    /\ UNCHANGED <<issued, store, clientVars, side, work>>

\* The read fails: the peer has closed, or TIMEOUT has passed. What was never
\* written may be either verdict or neither: then a commit or a rollback throws,
\* and the loop over the results of a call reads on, from a stream that is deaf.
HearNothing(w) ==
    LET n == hand[w] IN
    /\ stage[w] = "waiting" /\ (n \in deaf \/ wire[n] \notin Answers)
    /\ deaf' = deaf \cup {n}
    /\ \/ \E verdict \in Answers : Ends(w, verdict)
       \/ do[w] = "call" /\ UNCHANGED <<current, requestVars>>
    /\ UNCHANGED <<issued, store, entries, opener, closed, serverVars>>

\* release: by the name; twice is not an error
Forget(w) ==
    /\ stage[w] = "release"
    /\ IF tx[w] \in DOMAIN entries
       THEN /\ Close(entries[tx[w]].connection)
            /\ entries' = Restrict(entries, DOMAIN entries \ {tx[w]})
       ELSE UNCHANGED <<entries, closed, deaf>>
    /\ Leaves(w)
    /\ UNCHANGED <<issued, store, opener, serverVars>>

-----------------------------------------------------------------------------
(* The binary server                                                       *)

\* a thread takes the connection that has waited longest, and writes its id
Serve(n) ==
    /\ Waits(n) /\ \A m \in Connection : Waits(m) => n <= m
    /\ Cardinality({m \in Connection : side[m] = "up"}) < Places
    /\ side' = [side EXCEPT ![n] = "up"]
    /\ work' = [work EXCEPT ![n] = "clean"]
    /\ UNCHANGED <<sessionVars, requestVars, clientVars, wire>>

\* what each operation makes of the transaction
Effect(op, before) ==
    CASE op = "call" -> {"staged", "kept"}  \* the second with autocommit
      [] op = "commit" -> {IF before = "staged" THEN "kept" ELSE before}
      [] op = "rollback" -> {IF before = "staged" THEN "lost" ELSE before}

\* an operation that goes well
Perform(n) ==
    /\ side[n] = "up" /\ wire[n] \in Ops
    /\ \E after \in Effect(wire[n], work[n]) : work' = [work EXCEPT ![n] = after]
    /\ wire' = [wire EXCEPT ![n] = "done"]
    /\ UNCHANGED <<sessionVars, requestVars, clientVars, side>>

\* mutant: the transaction outlives the connection
ScopeForgets(n) == UNCHANGED work

\* ~ConnectionScope
RollBack(n) == work' = [work EXCEPT ![n] = IF @ = "staged" THEN "lost" ELSE @]

\* mutant: the error byte dies with the connection, and a zero says done
FailUnsaid(n) ==
    /\ side[n] = "up" /\ wire[n] \in Ops
    /\ wire' = [wire EXCEPT ![n] = "done"]
    /\ side' = [side EXCEPT ![n] = "over"] /\ RollBack(n)
    /\ UNCHANGED <<sessionVars, requestVars, clientVars>>

\* an operation that throws is answered, and ends the connection
Fail(n) ==
    /\ side[n] = "up" /\ wire[n] \in Ops
    /\ wire' = [wire EXCEPT ![n] = "thrown"]
    /\ side' = [side EXCEPT ![n] = "over"] /\ RollBack(n)
    /\ UNCHANGED <<sessionVars, requestVars, clientVars>>

\* nothing to read for TIMEOUT, or nothing more ever
HangUp(n) ==
    /\ side[n] = "up" /\ wire[n] \notin Ops
    /\ side' = [side EXCEPT ![n] = "over"] /\ RollBack(n)
    /\ UNCHANGED <<sessionVars, requestVars, clientVars, wire>>

-----------------------------------------------------------------------------
PageStep(w) ==
    \/ Destroy(w) \/ Connect(w) \/ ReadId(w) \/ Insert(w)
    \/ \E t \in 0..MaxConnections : NotHeld(w, t) \/ \E op \in Ops : Ask(w, op, t)
    \/ Hear(w) \/ HearNothing(w) \/ Forget(w)

ServerStep(n) == Serve(n) \/ Perform(n) \/ Fail(n) \/ HangUp(n)

Next ==
    \/ \E w \in Worker : Visit(w) \/ PageStep(w) \/ \E v \in Visitor : Request(w, v)
    \/ \E n \in Connection : ServerStep(n)

Spec == Init /\ [][Next]_vars

\* the threads of the binary server run, and their reads time out; visitors owe
\* nothing, and a page may read on for ever
FairSpec == Spec /\ \A n \in Connection : WF_vars(ServerStep(n))

-----------------------------------------------------------------------------
(* Properties                                                              *)

\* A thread's session is the one issued to the visitor it serves, and the
\* connection in its hand one that was opened for that person, whatever expired,
\* was given up or was served by that thread before.
OnlyTheirs ==
    \A w \in Worker :
      /\ current[w] # 0 => issued[current[w]] = visitor[w]
      /\ hand[w] # 0 => Person(opener[hand[w]]) = Person(visitor[w])

\* And nobody takes the connection away while the request has it.
OnlyOwners ==
    /\ OnlyTheirs
    /\ \A w \in Worker : stage[w] \in {"waiting", "release"} =>
         /\ hand[w] \notin closed
         /\ tx[w] \in DOMAIN entries /\ entries[tx[w]].connection = hand[w]

\* The pool is within its limit and accounts for every connection: one that was
\* made and not closed has exactly one entry, unless its open has yet to enter it.
Opening == {hand[w] : w \in {o \in Worker : stage[o] \in {"opening", "insert"}}}
Entered == {entries[t].connection : t \in DOMAIN entries}
Accounted ==
    /\ Cardinality(DOMAIN entries) <= LIMIT
    /\ Cardinality(Entered) = Cardinality(DOMAIN entries)
    /\ Entered \cup Opening = (1..Made) \ closed
    /\ Entered \cap Opening = {}

\* An answer that was read off the wire is true: a transaction that is let go as
\* committed was not lost and is not left staged, one let go as rolled back is not
\* left staged. Only an answer nobody gave can say otherwise.
TrueAnswers ==
    \A w \in Worker : stage[w] = "release" /\ hand[w] \notin deaf =>
      /\ work[hand[w]] # "staged"
      /\ do[w] = "commit" => work[hand[w]] # "lost"

\* Staged work does not stay staged: once there are no more calls over its
\* connection it is committed or rolled back, whether its owner comes back for it,
\* forgets it or reads for ever an answer that will not come.
StagedEnds ==
    \A n \in Connection :
      <>[](wire[n] # "call") => (work[n] = "staged" ~> work[n] # "staged")
=============================================================================
