------------------------------- MODULE Server -------------------------------
(***************************************************************************)
(* The life of the process (cmd/server/main.go): startup with migrations,  *)
(* requests that share the connection pool (internal/db/db.go) with the    *)
(* cleaner of expired tokens, graceful stop and forced stop.               *)
(*                                                                         *)
(* Time passes in ticks.  What the statements of a handler do is the       *)
(* business of modules Sessions and Roles: here a handler is a request     *)
(* that takes a connection from the pool for one statement after another.  *)
(***************************************************************************)
EXTENDS Integers, FiniteSets

CONSTANTS
    Conn,        \* client connections
    MaxConns,    \* size of the pool: 25
    Migrations,  \* number of files under db/migrations
    Timeout,     \* ticks a request may last: 30 s
    Grace,       \* ticks Shutdown waits: 10 s
    Period       \* ticks between two runs of the cleaner: 24 h

ASSUME ServerConstantsOK ==
    /\ IsFiniteSet(Conn)
    /\ MaxConns \in Nat \ {0} /\ Migrations \in Nat \ {0}
    /\ Timeout \in Nat /\ Grace \in Nat /\ Period \in Nat \ {0}

VARIABLES
    phase,     \* what main is doing
    schema,    \* migrations the database has, which a restart keeps
    dirty,     \* the database has expired rows
    patience,  \* ticks since the signal
    conn,      \* client connections, with the age of the request on them
    out,       \* connections taken from the pool
    cleaner,   \* what the goroutine of the cleaner is doing
    timer,     \* ticks since its ticker last fired
    due        \* the channel of the ticker holds a value (it has room for one)

database == <<schema, dirty>>
cleaning == <<cleaner, timer, due>>
serverVars == <<phase, schema, dirty, patience, conn, out, cleaner, timer, due>>

Phase == {"down", "connecting", "migrating", "loading", "up", "draining", "closing"}

Starting == {"connecting", "migrating", "loading"}

\* "open" has no request on it: new, or kept alive.  A request is late when it arrives
\* while the server drains.
Link == [pc : {"free", "open", "wait", "query"}, age : Nat, late : BOOLEAN]

Free == [pc |-> "free", age |-> 0, late |-> FALSE]

Open == [pc |-> "open", age |-> 0, late |-> FALSE]

Active(c) == conn[c].pc \in {"wait", "query"}

ServerInit ==
    /\ phase = "down" /\ schema = 0 /\ dirty = FALSE /\ patience = 0
    /\ conn = [c \in Conn |-> Free] /\ out = 0
    /\ cleaner = "off" /\ timer = 0 /\ due = FALSE

-----------------------------------------------------------------------------
(* Startup                                                                 *)

Start ==
    /\ phase = "down" /\ phase' = "connecting"
    /\ UNCHANGED <<database, patience, conn, out, cleaning>>

\* NewPool has pinged the database; the cleaner starts before the migrations.
Connect ==
    /\ phase = "connecting" /\ phase' = "migrating"
    /\ cleaner' = "idle"
    /\ UNCHANGED <<database, patience, conn, out, timer, due>>

\* goose runs every migration in a transaction of its own, on a connection of its own.
Migrate ==
    /\ phase = "migrating" /\ schema < Migrations
    /\ schema' = schema + 1
    /\ UNCHANGED <<phase, dirty, patience, conn, out, cleaning>>

\* Mutant: goose.Up in the background.
MigratedEarly ==
    /\ phase = "migrating"
    /\ phase' = "loading"
    /\ UNCHANGED <<database, patience, conn, out, cleaning>>

Migrated ==
    /\ phase = "migrating" /\ schema = Migrations
    /\ phase' = "loading"
    /\ UNCHANGED <<database, patience, conn, out, cleaning>>

\* The keys are read, the router built, the signals subscribed to; the server listens.
Listen ==
    /\ phase = "loading" /\ phase' = "up"
    /\ UNCHANGED <<database, patience, conn, out, cleaning>>

-----------------------------------------------------------------------------
(* The end of the process                                                  *)

\* The database is all that stays.
Exit ==
    /\ phase' = "down" /\ patience' = 0
    /\ conn' = [c \in Conn |-> Free] /\ out' = 0
    /\ cleaner' = "off" /\ timer' = 0 /\ due' = FALSE
    /\ UNCHANGED database

\* log.Fatal at startup or when ListenAndServe fails, SIGKILL, a panic of the cleaner.
Crash == phase # "down" /\ Exit

\* Mutant: shutdownCtx made when the server starts, not when the signal arrives.
SignalStale ==
    /\ phase = "up" /\ phase' = "draining"
    /\ patience' \in 0 .. Grace
    /\ UNCHANGED <<database, conn, out, cleaning>>

\* SIGINT or SIGTERM, and Shutdown begins: no new connections.
Signal ==
    /\ phase = "up" /\ phase' = "draining"
    /\ UNCHANGED <<database, patience, conn, out, cleaning>>

\* Before signal.Notify the same signals end the process.
SignalEarly == phase \in Starting /\ Exit

\* Shutdown returns nil.
Drained ==
    /\ phase = "draining" /\ \A c \in Conn : conn[c] = Free
    /\ phase' = "closing"
    /\ UNCHANGED <<database, patience, conn, out, cleaning>>

\* shutdownCtx ends first: log.Fatal, and no deferred call runs.  A connection without a
\* request holds Shutdown up for 5 s only.
Forced ==
    /\ phase = "draining" /\ patience = Grace
    /\ \E c \in Conn : Active(c)
    /\ Exit

\* The deferred pool.Close returns when every connection is back.
ClosePool == phase = "closing" /\ out = 0 /\ Exit

-----------------------------------------------------------------------------
(* Requests                                                                *)

Accept(c) ==
    /\ phase = "up" /\ conn[c] = Free
    /\ conn' = [conn EXCEPT ![c] = Open]
    /\ UNCHANGED <<phase, database, patience, out, cleaning>>

\* A request on an open connection; Shutdown does not stop one that comes soon enough.
Arrive(c) ==
    /\ phase \in {"up", "draining"} /\ conn[c] = Open
    /\ conn' = [conn EXCEPT ![c] = [pc |-> "wait", age |-> 0, late |-> phase = "draining"]]
    /\ UNCHANGED <<phase, database, patience, out, cleaning>>

\* The client, IdleTimeout or Shutdown closes a connection without a request.
Hangup(c) ==
    /\ conn[c] = Open
    /\ conn' = [conn EXCEPT ![c] = Free]
    /\ UNCHANGED <<phase, database, patience, out, cleaning>>

\* The next statement gets a connection.
Acquire(c) ==
    /\ conn[c].pc = "wait" /\ out < MaxConns
    /\ conn' = [conn EXCEPT ![c].pc = "query"]
    /\ out' = out + 1
    /\ UNCHANGED <<phase, database, patience, cleaning>>

\* The statement ends and gives the connection back; another may follow.
Release(c) ==
    /\ conn[c].pc = "query"
    /\ conn' = [conn EXCEPT ![c].pc = "wait"]
    /\ out' = out - 1
    /\ UNCHANGED <<phase, database, patience, cleaning>>

\* Mutant: a connection given back twice.
ReturnTwice(c) ==
    /\ Active(c)
    /\ conn' = [conn EXCEPT ![c] = IF phase = "up" THEN Open ELSE Free]
    /\ out' = out - 1
    /\ UNCHANGED <<phase, database, patience, cleaning>>

\* Mutant: the rows of a query that was cut off are not closed.
ReturnLeaking(c) ==
    /\ Active(c)
    /\ conn' = [conn EXCEPT ![c] = IF phase = "up" THEN Open ELSE Free]
    /\ UNCHANGED <<phase, database, patience, cleaning, out>>

\* The handler is done: with an answer, an error, or because its context has ended.
\* While the server drains the connection is not kept alive.
Return(c) ==
    /\ Active(c)
    /\ conn' = [conn EXCEPT ![c] = IF phase = "up" THEN Open ELSE Free]
    /\ out' = IF conn[c].pc = "query" THEN out - 1 ELSE out
    /\ UNCHANGED <<phase, database, patience, cleaning>>

\* Waiting for a connection and waiting for an answer both end with the context.
Deadline(c) == conn[c].age = Timeout /\ Return(c)

-----------------------------------------------------------------------------
(* The cleaner                                                             *)

TakeTick ==
    /\ cleaner = "idle" /\ due
    /\ cleaner' = "wait" /\ due' = FALSE
    /\ UNCHANGED <<phase, database, patience, conn, out, timer>>

AcquireCleaner ==
    /\ cleaner = "wait" /\ phase # "closing" /\ out < MaxConns
    /\ cleaner' = "query" /\ out' = out + 1
    /\ UNCHANGED <<phase, database, patience, conn, timer, due>>

DeleteExpired ==
    /\ cleaner = "query" /\ schema > 0
    /\ dirty' = FALSE
    /\ cleaner' = "idle" /\ out' = out - 1
    /\ UNCHANGED <<phase, schema, patience, conn, timer, due>>

\* Mutant: the goroutine returns when a DELETE fails.
DeleteFailsForGood ==
    /\ cleaner = "query"
    /\ cleaner' = "off" /\ out' = out - 1
    /\ UNCHANGED <<phase, database, patience, conn, timer, due>>

\* The error is logged, and that is all until the next tick.
DeleteFails ==
    /\ cleaner = "query"
    /\ cleaner' = "idle" /\ out' = out - 1
    /\ UNCHANGED <<phase, database, patience, conn, timer, due>>

\* No connection from a closed pool.
PoolClosed ==
    /\ cleaner = "wait" /\ phase = "closing"
    /\ cleaner' = "idle"
    /\ UNCHANGED <<phase, database, patience, conn, out, timer, due>>

-----------------------------------------------------------------------------
(* The world                                                               *)

\* The lifetime of some row ends.
Expire ==
    /\ schema > 0 /\ dirty' = TRUE
    /\ UNCHANGED <<phase, schema, patience, conn, out, cleaning>>

\* The ticker of the cleaner; a value nobody took is not followed by another.
Ticker ==
    IF cleaner = "off" THEN UNCHANGED <<timer, due>>
    ELSE IF timer + 1 = Period THEN timer' = 0 /\ due' = TRUE
    ELSE timer' = timer + 1 /\ UNCHANGED due

\* Contexts end in time: no request is older than Timeout, no Shutdown than Grace.
Tick ==
    /\ phase # "down"
    /\ phase = "draining" => patience < Grace
    /\ \A c \in Conn : Active(c) => conn[c].age < Timeout
    /\ patience' = IF phase = "draining" THEN patience + 1 ELSE patience
    /\ conn' = [c \in Conn |-> IF Active(c) THEN [conn[c] EXCEPT !.age = @ + 1] ELSE conn[c]]
    /\ Ticker
    /\ UNCHANGED <<phase, database, out, cleaner>>

ServerNext ==
    \/ Start \/ Connect \/ Migrate \/ Migrated \/ Listen
    \/ Crash \/ Signal \/ SignalEarly \/ Drained \/ Forced \/ ClosePool
    \/ \E c \in Conn :
         Accept(c) \/ Arrive(c) \/ Hangup(c) \/ Acquire(c) \/ Release(c) \/ Return(c)
    \/ TakeTick \/ AcquireCleaner \/ DeleteExpired \/ DeleteFails \/ PoolClosed
    \/ Expire \/ Tick

ServerSpec == ServerInit /\ [][ServerNext]_serverVars

\* Time passes and contexts end.  The pool serves those who wait in the order they came,
\* a DELETE ends and does not fail for ever, Shutdown and Close do their work.
Fairness ==
    /\ WF_serverVars(Tick)
    /\ \A c \in Conn : WF_serverVars(Deadline(c)) /\ WF_serverVars(phase # "up" /\ Hangup(c))
    /\ WF_serverVars(TakeTick) /\ SF_serverVars(AcquireCleaner) /\ SF_serverVars(DeleteExpired)
    /\ WF_serverVars(DeleteExpired \/ DeleteFails)
    /\ WF_serverVars(Drained) /\ WF_serverVars(Forced) /\ WF_serverVars(ClosePool)

FairServerSpec == ServerSpec /\ Fairness

-----------------------------------------------------------------------------
(* Properties                                                              *)

\* The process, its connections, the pool and the cleaner (main.go, db.go) have their
\* types: in particular the pool gives out no more than it has and gets no more back.
ServerTypeOK ==
    /\ phase \in Phase /\ schema \in 0 .. Migrations /\ dirty \in BOOLEAN
    /\ patience \in 0 .. Grace /\ (phase \notin {"draining", "closing"} => patience = 0)
    /\ conn \in [Conn -> Link]
    /\ \A c \in Conn : /\ conn[c].age <= Timeout
                       /\ conn[c].pc \in {"free", "open"} => conn[c] \in {Free, Open}
    /\ out \in 0 .. MaxConns
    /\ cleaner \in {"off", "idle", "wait", "query"}
    /\ timer \in 0 .. Period - 1 /\ due \in BOOLEAN

Holders == {c \in Conn : conn[c].pc = "query"}

\* Every connection that is out of the pool is in the hands of a handler or the cleaner
\* that is using it, whatever is cut off when: the pool never dries up.
PoolConserved ==
    out = Cardinality(Holders) + (IF cleaner = "query" THEN 1 ELSE 0)

\* No request meets a database without all its tables, whichever start, crash and
\* restart came before it.
ServesReady ==
    \A c \in Conn : Active(c) => phase \in {"up", "draining"} /\ schema = Migrations

\* The forced stop cuts off no request that came before the signal and that would have
\* ended within the grace period.
StopSparesQuick ==
    [][Forced => \A c \in Conn : Active(c) /\ ~conn[c].late => conn[c].age >= Grace]_serverVars

\* A signal stops the process, whatever requests and cleaner are doing.
StopsAfterSignal == phase = "draining" ~> phase = "down"

\* A process that stays up deletes the expired rows again and again, though it shares
\* the pool with requests and some of its DELETEs fail.
CleanedWhileUp == <>[](phase = "up") => []<>~dirty
=============================================================================
