-------------------------------- MODULE Pool --------------------------------
(* The connection pool of the BEAM port, VitrialSync.Db.Pool: one process   *)
(* that serves checkouts, check-ins, discards and a drain, the callers that *)
(* use it through with_conn/3, and the connections it opens.                *)
(*                                                                          *)
(* The pool handles one message at a time.  serve_waiters/1 ends a handler  *)
(* and may open connections, each up to five seconds: its rounds are steps  *)
(* (the Serve actions) that come before any other message is handled, while *)
(* callers and connections go on.  A caller's messages arrive in the order  *)
(* they were sent, the notice of its death after all of them.               *)
EXTENDS Integers, Sequences, Functions, FiniteSets

CONSTANTS
    Callers,      \* processes that call with_conn/3
    Conns,        \* names of connection processes, enough for those someone remembers
    Slots,        \* connections the server accepts
    PoolSize,     \* DATABASE_POOL_SIZE
    MaxOverflow,  \* DATABASE_MAX_OVERFLOW
    NullPool,     \* DATABASE_NULL_POOL
    MaxMail,      \* bound: messages of one caller under way when it asks again
    Faults,       \* failures of the environment a run allows
    NoOne         \* no caller, no connection

FaultKinds == {"connect", "timeout", "slow", "crash", "death", "wedge", "age", "drain"}

ASSUME PoolConstants ==
    /\ PoolSize \in Nat \ {0} /\ MaxOverflow \in Nat /\ Slots \in Nat /\ MaxMail \in Nat \ {0}
    /\ NullPool \in BOOLEAN /\ Faults \subseteq FaultKinds
    /\ IsFiniteSet(Conns) /\ NoOne \notin Callers \cup Conns

VARIABLES
    idle,      \* parked connections, oldest first
    out,       \* checked_out: the owner of each connection that is checked out
    waiters,   \* owners of the queued checkouts
    monitors,  \* connections with an entry in the monitor table
    watched,   \* of these, the ones whose monitor is still in place
    draining,
    deadline,  \* the :drain_deadline timer is set
    serving,   \* the pool is inside serve_waiters/1
    taken,     \* connections closed in this round of take_connection/1
    alive,     \* connection processes that run
    closed,    \* connections the pool has closed
    old,       \* connections past DATABASE_POOL_RECYCLE_SECONDS
    caller,    \* what each caller is doing in with_conn/3
    mail,      \* messages of each caller to the pool, in order
    unheard,   \* history: connections granted to a caller that had given up
    stalled    \* history: the queue was last left because a connect failed

tables == <<idle, out, monitors, watched, closed, alive, old, unheard>>
vars == <<tables, waiters, draining, deadline, serving, taken, caller, mail, stalled>>

Checkout == [kind |-> "checkout", conn |-> NoOne]
Abandoned == [kind |-> "abandoned", conn |-> NoOne]
Messages == [kind : {"checkout", "abandoned", "checkin", "discard"}, conn : Conns \cup {NoOne}]

\* fresh? and failures_left of run/6; again: the settled connection had died and is retried.
Caller == [pc : {"idle", "asking", "ping", "exec", "settle", "settling", "dead"},
           conn : Conns \cup {NoOne}, left : 0..1, again : BOOLEAN]
IdleCaller == [pc |-> "idle", conn |-> NoOne, left |-> 0, again |-> FALSE]

TypeOK ==
    /\ idle \in Seq(Conns) /\ out \in [Conns -> Callers \cup {NoOne}]
    /\ waiters \in Seq(Callers)
    /\ monitors \subseteq Conns /\ watched \subseteq monitors
    /\ draining \in BOOLEAN /\ deadline \in BOOLEAN /\ serving \in BOOLEAN
    /\ taken \in Seq(Conns)
    /\ alive \subseteq Conns /\ closed \subseteq Conns /\ old \subseteq Conns
    /\ caller \in [Callers -> Caller] /\ mail \in [Callers -> Seq(Messages)]
    /\ unheard \subseteq Conns /\ stalled \in BOOLEAN

-----------------------------------------------------------------------------
(* State helpers.                                                           *)

\* What drop_idle, drop_waiter and drop_waiter_by_owner leave of a queue: all but x.
Without(s, x) ==
    LET kept[i \in 0..Len(s)] ==
            IF i = 0 THEN <<>>
            ELSE IF s[i] = x THEN kept[i - 1] ELSE Append(kept[i - 1], s[i])
    IN  kept[Len(s)]

CheckedOut == {c \in Conns : out[c] # NoOne}
Capacity == PoolSize + MaxOverflow
total == Len(idle) + Cardinality(CheckedOut)

\* Names nobody remembers.
Free == {c \in Conns :
    /\ c \notin alive \cup monitors \cup Range(taken)
    /\ \A p \in Callers : caller[p].conn # c /\ \A m \in Range(mail[p]) : m.conn # c}

\* Conn.connect/2 may fail: it is refused, times out, or the server is full.
ServerFull == Cardinality(alive) >= Slots
ConnectFails == ServerFull \/ "connect" \in Faults

\* The checkout p is in has not been given up: its reply will be received.
Listening(p) == caller[p].pc = "asking" /\ Abandoned \notin Range(mail[p])

\* with_conn/3 after {:ok, conn, fresh?}: a parked connection is pinged first.
Receives(p, c, fresh) ==
    [caller EXCEPT ![p].pc = IF fresh THEN "exec" ELSE "ping", ![p].conn = c]

\* Conn.close/1 sends the exit signal :shutdown.  The connection process traps exits and its
\* receive loop has a clause for the message :shutdown, not for {:EXIT, _, :shutdown}: the
\* signal is dropped and the process runs on.
Close(cs) == closed' = closed \cup cs /\ UNCHANGED alive

\* Connect/2 succeeds.
Open(c) ==
    /\ c \in Free /\ ~ServerFull
    /\ alive' = alive \cup {c} /\ old' = old \ {c} /\ closed' = closed \ {c}

\* Mutant: the connection is monitored and the monitor not recorded.
HandUnrecorded(c, p, gone, heard) ==
    /\ out' = [out EXCEPT ![c] = p]
    /\ monitors' = monitors \ gone /\ watched' = (watched \ gone) \cup {c}
    /\ unheard' = IF heard THEN unheard \ {c} ELSE unheard \cup {c}

\* The tables once c is checked out to p.  Map.put_new keeps an entry that is already there.
\* heard: the caller is still waiting for the reply.
Hand(c, p, gone, heard) ==
    /\ out' = [out EXCEPT ![c] = p]
    /\ monitors' = (monitors \ gone) \cup {c}
    /\ watched' = IF c \in monitors THEN watched \ gone ELSE (watched \ gone) \cup {c}
    /\ unheard' = IF heard THEN unheard \ {c} ELSE unheard \cup {c}

-----------------------------------------------------------------------------
(* Messages of callers.                                                     *)

\* The pool turns to p's oldest message.
Due(p, kind) == ~serving /\ mail[p] # <<>> /\ Head(mail[p]).kind = kind

Consume(p) == mail' = [mail EXCEPT ![p] = Tail(@)]

\* The checkout at the head of p's mail is the one p is waiting in.
Current(p) == caller[p].pc = "asking" /\ Abandoned \notin Range(Tail(mail[p]))

\* {:error, reason}: with_conn/3 returns it.
CheckoutError(p) == caller' = IF Current(p) THEN [caller EXCEPT ![p] = IdleCaller] ELSE caller

\* open_and_grant/2 with the idle queue rest and the connections gone just closed.
OpenAndGrant(p, rest, gone) ==
    LET size == Len(rest) + Cardinality(CheckedOut)
    IN  /\ idle' = rest
        /\ \/ /\ size < Capacity /\ ~ServerFull
              /\ \E c \in Free :
                    /\ alive' = alive \cup {c} /\ old' = old \ {c}
                    /\ closed' = (closed \cup gone) \ {c}
                    /\ Hand(c, p, gone, Current(p))
                    /\ caller' = IF Current(p) THEN Receives(p, c, TRUE) ELSE caller
              /\ UNCHANGED waiters
           \/ /\ size < Capacity /\ ConnectFails
              /\ CheckoutError(p) /\ Close(gone)
              /\ monitors' = monitors \ gone /\ watched' = watched \ gone
              /\ UNCHANGED <<out, old, unheard, waiters>>
           \/ /\ size >= Capacity
              /\ waiters' = Append(waiters, p) /\ Close(gone)
              /\ monitors' = monitors \ gone /\ watched' = watched \ gone
              /\ UNCHANGED <<out, old, unheard, caller>>

\* Mutant: the parked connection that is granted stays in the idle queue.
GrantAndKeep(p) ==
    \/ /\ ~NullPool /\ idle # <<>> /\ Head(idle) \notin old
       /\ Hand(Head(idle), p, {}, Current(p))
       /\ caller' = IF Current(p) THEN Receives(p, Head(idle), FALSE) ELSE caller
       /\ UNCHANGED <<idle, waiters, closed, alive, old>>
    \/ /\ NullPool \/ idle = <<>>
       /\ OpenAndGrant(p, idle, {})

\* grant_or_queue/2: a parked connection, the oldest first, else a new one.
GrantOrQueue(p) ==
    \/ /\ ~NullPool /\ idle # <<>> /\ Head(idle) \notin old
       /\ idle' = Tail(idle) /\ Hand(Head(idle), p, {}, Current(p))
       /\ caller' = IF Current(p) THEN Receives(p, Head(idle), FALSE) ELSE caller
       /\ UNCHANGED <<waiters, closed, alive, old>>
    \/ /\ ~NullPool /\ idle # <<>> /\ Head(idle) \in old
       /\ OpenAndGrant(p, Tail(idle), {Head(idle)})
    \/ /\ NullPool \/ idle = <<>>
       /\ OpenAndGrant(p, idle, {})

\* Mutant: a draining pool goes on granting.
CheckoutWhileDraining(p) ==
    /\ Due(p, "checkout") /\ Consume(p)
    /\ GrantOrQueue(p)
    /\ UNCHANGED <<draining, deadline, serving, taken, stalled>>

\* handle_call(:checkout).
HandleCheckout(p) ==
    /\ Due(p, "checkout") /\ Consume(p)
    /\ \/ draining /\ CheckoutError(p) /\ UNCHANGED <<tables, waiters>>
       \/ ~draining /\ GrantOrQueue(p)
    /\ UNCHANGED <<draining, deadline, serving, taken, stalled>>

\* The reply to a check-in or discard: with_conn/3 returns, or tries once more.
Settled(p) ==
    IF caller[p].pc # "settling" THEN UNCHANGED caller /\ Consume(p)
    ELSE IF caller[p].again
    THEN /\ caller' = [caller EXCEPT ![p] = [pc |-> "asking", conn |-> NoOne, left |-> 0, again |-> FALSE]]
         /\ mail' = [mail EXCEPT ![p] = Append(Tail(@), Checkout)]
    ELSE caller' = [caller EXCEPT ![p] = IdleCaller] /\ Consume(p)

\* Mutant: an overflow connection is not told from a persistent one.
ClosesByAge(c) == NullPool \/ c \in old

\* A connection is closed on check-in in null-pool mode, past its age (expired?/2), or when the
\* pool is full without it (transient?/1).
Closes(c) ==
    NullPool \/ c \in old \/ Len(idle) + Cardinality(CheckedOut \ {c}) >= PoolSize

\* handle_call({:checkin, conn}): closed or parked, then the queue is served.
HandleCheckin(p) ==
    LET c == Head(mail[p]).conn
    IN  /\ Due(p, "checkin") /\ Settled(p)
        /\ \/ out[c] = NoOne /\ UNCHANGED <<tables, serving>>
           \/ /\ out[c] # NoOne
              /\ out' = [out EXCEPT ![c] = NoOne]
              /\ IF Closes(c)
                 THEN /\ Close({c}) /\ monitors' = monitors \ {c} /\ watched' = watched \ {c}
                      /\ UNCHANGED idle
                 ELSE idle' = Append(idle, c) /\ UNCHANGED <<monitors, watched, closed, alive>>
              /\ serving' = (waiters # <<>>)
              /\ unheard' = unheard \ {c}
              /\ UNCHANGED old
        /\ UNCHANGED <<waiters, draining, deadline, taken, stalled>>

\* Mutant: the freed slot is not offered to the queue.
ReclaimOnly(c) ==
    /\ out' = [out EXCEPT ![c] = NoOne]
    /\ Close({c}) /\ monitors' = monitors \ {c} /\ watched' = watched \ {c}
    /\ unheard' = unheard \ {c}
    /\ UNCHANGED <<idle, old, serving>>

\* The owner's connection is closed and its slot serves the queue.
Reclaim(c) ==
    /\ out' = [out EXCEPT ![c] = NoOne]
    /\ Close({c}) /\ monitors' = monitors \ {c} /\ watched' = watched \ {c}
    /\ serving' = (waiters # <<>>)
    /\ unheard' = unheard \ {c}
    /\ UNCHANGED <<idle, old>>

\* handle_call({:discard, conn}).
HandleDiscard(p) ==
    LET c == Head(mail[p]).conn
    IN  /\ Due(p, "discard") /\ Settled(p)
        /\ \/ out[c] = NoOne /\ UNCHANGED <<tables, serving>>
           \/ out[c] # NoOne /\ Reclaim(c)
        /\ UNCHANGED <<waiters, draining, deadline, taken, stalled>>

\* handle_info({:checkout_abandoned, owner}).
HandleAbandoned(p) ==
    /\ Due(p, "abandoned") /\ Consume(p)
    /\ waiters' = Without(waiters, p)
    /\ serving' = (waiters' # <<>>)
    /\ UNCHANGED <<tables, draining, deadline, taken, caller, stalled>>

-----------------------------------------------------------------------------
(* Rounds of serve_waiters/1.                                               *)

\* Whether the pool, in this round, has looked if the waiter lives.
InRound == serving /\ (taken # <<>> \/ caller[Head(waiters)].pc # "dead")

ServeDead ==
    /\ serving /\ ~InRound
    /\ waiters' = Tail(waiters) /\ serving' = (waiters' # <<>>)
    /\ UNCHANGED <<tables, draining, deadline, taken, caller, mail, stalled>>

\* The waiter is given c.
Serve(c, fresh) ==
    LET p == Head(waiters)
    IN  /\ Hand(c, p, {}, Listening(p))
        /\ caller' = IF Listening(p) THEN Receives(p, c, fresh) ELSE caller
        /\ waiters' = Tail(waiters) /\ serving' = (waiters' # <<>>) /\ taken' = <<>>
        /\ stalled' = FALSE
        /\ UNCHANGED <<draining, deadline, mail>>

ServeParked ==
    /\ InRound /\ idle # <<>> /\ Head(idle) \notin old
    /\ idle' = Tail(idle) /\ Serve(Head(idle), FALSE)
    /\ UNCHANGED <<closed, alive, old>>

\* take_connection/1 closes a parked connection past its age and goes on.
ServeExpired ==
    LET c == Head(idle)
    IN  /\ InRound /\ idle # <<>> /\ c \in old
        /\ idle' = Tail(idle) /\ taken' = Append(taken, c)
        /\ Close({c}) /\ monitors' = monitors \ {c} /\ watched' = watched \ {c}
        /\ UNCHANGED <<out, old, unheard, waiters, draining, deadline, serving, caller, mail, stalled>>

ServeOpened ==
    /\ InRound /\ idle = <<>> /\ total < Capacity
    /\ \E c \in Free : Open(c) /\ Serve(c, TRUE)
    /\ UNCHANGED idle

\* :none.  The waiter goes back to the front of the queue of the state serve_waiters/1 had
\* before take_connection/1: what that closed is parked again, with its old monitor entry.
ServeNone ==
    /\ InRound /\ idle = <<>> /\ (total >= Capacity \/ ConnectFails)
    /\ idle' = taken /\ monitors' = monitors \cup Range(taken)
    /\ serving' = FALSE /\ taken' = <<>> /\ stalled' = (total < Capacity)
    /\ UNCHANGED <<out, watched, closed, alive, old, unheard, waiters, draining, deadline, caller, mail>>

-----------------------------------------------------------------------------
(* Deaths and drain.                                                        *)

\* Mutant: the entry in the monitor table is left behind.
DiedStaysListed(c) ==
    /\ ~serving /\ c \in watched \ alive
    /\ out' = [out EXCEPT ![c] = NoOne] /\ unheard' = unheard \ {c}
    /\ idle' = Without(idle, c)
    /\ watched' = watched \ {c} /\ serving' = (waiters # <<>>)
    /\ UNCHANGED <<monitors, closed, alive, old, waiters, draining, deadline, taken, caller, mail,
                   stalled>>

\* Mutant: the freed slot is not offered to the queue.
DiedServesNobody(c) ==
    /\ ~serving /\ c \in watched \ alive
    /\ out' = [out EXCEPT ![c] = NoOne] /\ unheard' = unheard \ {c}
    /\ idle' = Without(idle, c)
    /\ monitors' = monitors \ {c} /\ watched' = watched \ {c}
    /\ UNCHANGED <<serving, closed, alive, old, waiters, draining, deadline, taken, caller, mail,
                   stalled>>

\* connection_died/2: the DOWN of a monitor in the table.
ConnectionDied(c) ==
    /\ ~serving /\ c \in watched \ alive
    /\ out' = [out EXCEPT ![c] = NoOne] /\ unheard' = unheard \ {c}
    /\ idle' = Without(idle, c)
    /\ monitors' = monitors \ {c} /\ watched' = watched \ {c}
    /\ serving' = (waiters # <<>>)
    /\ UNCHANGED <<closed, alive, old, waiters, draining, deadline, taken, caller, mail,
                   stalled>>

\* owner_departed/2: the owner of c died; its session state is unknown.
OwnerDeparted(p, c) ==
    /\ ~serving /\ caller[p].pc = "dead" /\ mail[p] = <<>> /\ out[c] = p
    /\ Reclaim(c)
    /\ UNCHANGED <<waiters, draining, deadline, taken, caller, mail, stalled>>

WaiterDeparted(p) ==
    /\ ~serving /\ caller[p].pc = "dead" /\ mail[p] = <<>> /\ p \in Range(waiters)
    /\ waiters' = Without(waiters, p)
    /\ UNCHANGED <<tables, draining, deadline, serving, taken, caller, mail, stalled>>

\* sweep/1: everything is closed, every waiter told {:error, :draining}.
Sweep ==
    /\ idle' = <<>> /\ out' = [c \in Conns |-> NoOne] /\ waiters' = <<>>
    /\ monitors' = {} /\ watched' = {} /\ Close(monitors)
    /\ caller' = [p \in Callers |->
                    IF p \in Range(waiters) /\ Listening(p) THEN IdleCaller ELSE caller[p]]
    /\ unheard' = {}
    /\ UNCHANGED old

\* handle_call({:drain, budget_ms}): swept at once, or when the deadline comes.
Drain ==
    /\ ~serving /\ "drain" \in Faults
    /\ draining' = TRUE
    /\ \/ CheckedOut # {} /\ deadline' = TRUE /\ UNCHANGED <<tables, waiters, caller>>
       \/ Sweep /\ UNCHANGED deadline
    /\ UNCHANGED <<serving, taken, mail, stalled>>

DrainDeadline ==
    /\ ~serving /\ deadline
    /\ deadline' = FALSE /\ Sweep
    /\ UNCHANGED <<draining, serving, taken, mail, stalled>>

-----------------------------------------------------------------------------
(* Callers: with_conn/3.                                                    *)

poolVars == <<tables, waiters, draining, deadline, serving, taken, stalled>>

Ask(p) ==
    /\ caller[p].pc = "idle" /\ Len(mail[p]) < MaxMail
    /\ caller' = [caller EXCEPT ![p] = [pc |-> "asking", conn |-> NoOne, left |-> 1, again |-> FALSE]]
    /\ mail' = [mail EXCEPT ![p] = Append(@, Checkout)]
    /\ UNCHANGED poolVars

\* checkout/2: the pool is told that the caller walked away.
CheckoutTimeout(p) ==
    /\ caller[p].pc = "asking" /\ "timeout" \in Faults
    /\ caller' = [caller EXCEPT ![p] = IdleCaller]
    /\ mail' = [mail EXCEPT ![p] = Append(@, Abandoned)]
    /\ UNCHANGED poolVars

\* Mutant: a connection that fails its ping is dropped without telling the pool.
PingForgets(p) ==
    /\ caller[p].pc = "ping"
    /\ \/ /\ caller[p].conn \in alive
          /\ caller' = [caller EXCEPT ![p].pc = "exec"]
       \/ /\ caller[p].conn \notin alive \/ "wedge" \in Faults
          /\ caller' = [caller EXCEPT ![p] = IdleCaller]
    /\ UNCHANGED <<poolVars, mail>>

\* run/6: the ping of a connection that was parked.
Ping(p) ==
    /\ caller[p].pc = "ping"
    /\ \/ /\ caller[p].conn \in alive
          /\ caller' = [caller EXCEPT ![p].pc = "exec"]
          /\ UNCHANGED mail
       \/ /\ caller[p].conn \notin alive \/ "wedge" \in Faults
          /\ caller' = [caller EXCEPT ![p].pc = "settling", ![p].again = caller[p].left > 0]
          /\ mail' = [mail EXCEPT ![p] = Append(@, [kind |-> "discard", conn |-> caller[p].conn])]
    /\ UNCHANGED poolVars

\* exec/5: fun returns or raises; it is tried again if it raised and the connection is dead.
Exec(p) ==
    /\ caller[p].pc = "exec"
    /\ \E raised \in BOOLEAN :
        caller' = [caller EXCEPT ![p].pc = "settle",
                     ![p].again = raised /\ caller[p].conn \notin alive /\ caller[p].left > 0]
    /\ UNCHANGED <<poolVars, mail>>

\* settle/2: a live connection is checked in, a dead one discarded.
Settle(p) ==
    /\ caller[p].pc = "settle"
    /\ LET kind == IF caller[p].conn \in alive THEN "checkin" ELSE "discard"
       IN  mail' = [mail EXCEPT ![p] = Append(@, [kind |-> kind, conn |-> caller[p].conn])]
    /\ caller' = [caller EXCEPT ![p].pc = "settling"]
    /\ UNCHANGED poolVars

\* The pool does not answer within five seconds; the message stays under way.
SettleTimeout(p) ==
    /\ caller[p].pc = "settling" /\ "slow" \in Faults
    /\ caller' = [caller EXCEPT ![p] = IdleCaller]
    /\ UNCHANGED <<poolVars, mail>>

Crash(p) ==
    /\ caller[p].pc # "dead" /\ "crash" \in Faults
    /\ caller' = [caller EXCEPT ![p] = [IdleCaller EXCEPT !.pc = "dead"]]
    /\ UNCHANGED <<poolVars, mail>>

\* Another process takes the place of one the pool has forgotten.
Restart(p) ==
    /\ caller[p].pc = "dead" /\ mail[p] = <<>>
    /\ p \notin Range(waiters) /\ \A c \in Conns : out[c] # p
    /\ caller' = [caller EXCEPT ![p] = IdleCaller]
    /\ UNCHANGED <<poolVars, mail>>

-----------------------------------------------------------------------------
(* Connections.                                                             *)

\* A connection process fails in an exchange; one that was closed is never sent another.
ConnectionDies(c) ==
    /\ c \in alive /\ (c \in closed => c \in monitors) /\ "death" \in Faults
    /\ alive' = alive \ {c}
    /\ UNCHANGED <<idle, out, monitors, watched, closed, old, unheard, waiters, draining,
                   deadline, serving, taken, caller, mail, stalled>>

ConnectionAges(c) ==
    /\ c \in monitors \ old /\ "age" \in Faults
    /\ old' = old \cup {c}
    /\ UNCHANGED <<idle, out, monitors, watched, closed, alive, unheard, waiters, draining,
                   deadline, serving, taken, caller, mail, stalled>>

-----------------------------------------------------------------------------
Init ==
    /\ idle = <<>> /\ out = [c \in Conns |-> NoOne] /\ waiters = <<>>
    /\ monitors = {} /\ watched = {} /\ draining = FALSE /\ deadline = FALSE
    /\ serving = FALSE /\ taken = <<>> /\ alive = {} /\ closed = {} /\ old = {}
    /\ caller = [p \in Callers |-> IdleCaller] /\ mail = [p \in Callers |-> <<>>]
    /\ unheard = {} /\ stalled = FALSE

Handle(p) ==
    HandleCheckout(p) \/ HandleCheckin(p) \/ HandleDiscard(p) \/ HandleAbandoned(p)
Rounds == ServeDead \/ ServeParked \/ ServeExpired \/ ServeOpened \/ ServeNone
Works(p) == Ping(p) \/ Exec(p) \/ Settle(p)

Next ==
    \/ \E p \in Callers :
        \/ Handle(p) \/ WaiterDeparted(p) \/ \E c \in Conns : OwnerDeparted(p, c)
        \/ Ask(p) \/ CheckoutTimeout(p) \/ Works(p) \/ SettleTimeout(p) \/ Crash(p) \/ Restart(p)
    \/ Rounds \/ Drain \/ DrainDeadline
    \/ \E c \in Conns : ConnectionDied(c) \/ ConnectionDies(c) \/ ConnectionAges(c)

Spec == Init /\ [][Next]_vars

\* The pool handles its messages and timers, and callers finish what they do with a connection.
FairSpec ==
    /\ Spec /\ WF_vars(Rounds) /\ WF_vars(DrainDeadline)
    /\ \A p \in Callers : WF_vars(Handle(p)) /\ WF_vars(Works(p)) /\ WF_vars(WaiterDeparted(p))
    /\ \A p \in Callers, c \in Conns : WF_vars(OwnerDeparted(p, c))
    /\ \A c \in Conns : WF_vars(ConnectionDied(c)) /\ WF_vars(ConnectionAges(c))

-----------------------------------------------------------------------------
(* Properties.                                                              *)

\* The tables never hold more connections than pool_size and max_overflow allow, nor park more
\* than pool_size.
WithinCapacity == total <= Capacity /\ Len(idle) <= PoolSize

\* A connection some caller is using is not parked, and not checked out to another.
Exclusive ==
    \A p \in Callers : caller[p].pc \in {"ping", "exec", "settle"} =>
        caller[p].conn \notin Range(idle) /\ out[caller[p].conn] \in {p, NoOne}

\* Every connection in the tables has its monitor entry, exactly these have, and none is in the
\* tables twice: close_conn/2 never meets a connection without one, for which it would return
\* :ok in place of the state.
Tracked ==
    /\ monitors = Range(idle) \cup CheckedOut
    /\ Range(idle) \cap CheckedOut = {} /\ IsInjective(idle)

\* A caller is left in the queue only while every connection the pool may have is checked out,
\* or since a connect failed when the queue was last served: every event that frees a connection
\* serves the queue.
ServedWhenPossible ==
    ~serving /\ waiters # <<>> =>
        stalled \/ (idle = <<>> /\ Cardinality(CheckedOut) >= Capacity)

\* A connection is checked out only to a caller that uses it, is about to return it, or has
\* died, unless it was granted to a caller that had given up: with_conn/3 returns its connection
\* on every path.
CheckedOutIsUsed ==
    \A c \in CheckedOut \ unheard :
        LET p == out[c]
        IN  \/ caller[p].conn = c \/ caller[p].pc = "dead"
            \/ \E m \in Range(mail[p]) : m.conn = c

\* Once the pool drains, its tables are empty in the end and stay so.
Emptied == idle = <<>> /\ CheckedOut = {} /\ waiters = <<>>
DrainEnds == draining ~> []Emptied

\* A caller that waits for a connection gets one, or an error, without a timeout.
CheckoutAnswered == \A p \in Callers : caller[p].pc = "asking" ~> caller[p].pc # "asking"

\* The moduledoc: at most pool_size connections and max_overflow transient ones are open.
SocketBound == Cardinality(alive) <= Capacity
=============================================================================
