---------------------------- MODULE ServerProofs ----------------------------
(***************************************************************************)
(* Proofs about module Server, for any number of connections, any size of  *)
(* the pool and any timeouts.                                              *)
(***************************************************************************)
EXTENDS Server, FiniteSetTheorems, TLAPS

\* A request that was there when the server began to drain is at least as old as the
\* draining: its age was not negative at the signal, and every tick counts for both.
AgeCoversPatience ==
    phase = "draining" => \A c \in Conn : Active(c) /\ ~conn[c].late => conn[c].age >= patience

\* What main has done by the time it is in a phase.
Stages ==
    /\ phase \in {"loading", "up", "draining", "closing"} => schema = Migrations
    /\ phase \in {"down", "connecting"} => cleaner = "off"

ServerInv == ServerTypeOK /\ PoolConserved /\ ServesReady /\ AgeCoversPatience /\ Stages

LEMMA Links ==
    /\ Free \in Link /\ Free.pc = "free" /\ Free.age = 0
    /\ Open \in Link /\ Open.pc = "open" /\ Open.age = 0
BY DEF Free, Open, Link

\* One connection changes hands.
LEMMA HoldersStep ==
    ASSUME ServerTypeOK, NEW c \in Conn, NEW s \in Link, conn' = [conn EXCEPT ![c] = s]
    PROVE  /\ conn'[c] = s /\ \A d \in Conn \ {c} : conn'[d] = conn[d]
           /\ DOMAIN conn' = Conn
           /\ Holders' = IF s.pc = "query" THEN Holders \cup {c} ELSE Holders \ {c}
BY DEF ServerTypeOK, Holders

\* What that means for the count.
LEMMA HoldersCount ==
    /\ IsFiniteSet(Holders) /\ Cardinality(Holders) \in Nat
    /\ \A c \in Conn :
         /\ IsFiniteSet(Holders \cup {c}) /\ IsFiniteSet(Holders \ {c})
         /\ Cardinality(Holders \cup {c}) =
              IF c \in Holders THEN Cardinality(Holders) ELSE Cardinality(Holders) + 1
         /\ Cardinality(Holders \ {c}) =
              IF c \in Holders THEN Cardinality(Holders) - 1 ELSE Cardinality(Holders)
<1>1. IsFiniteSet(Holders)
  BY FS_Subset, ServerConstantsOK DEF Holders
<1> QED
  BY <1>1, FS_AddElement, FS_RemoveElement, FS_CardinalityType

\* When the process ends nothing of it is left.
LEMMA ExitClean ==
    ASSUME ServerInv, Exit
    PROVE  ServerInv'
<1>1. /\ phase' = "down" /\ schema' = schema /\ patience' = 0 /\ out' = 0
      /\ dirty' = dirty /\ cleaner' = "off" /\ timer' = 0 /\ due' = FALSE
      /\ \A c \in Conn : conn'[c] = Free
      /\ conn' \in [Conn -> Link]
  BY DEF Exit, database, Free, Link
<1>2. Holders' = {}
  BY <1>1 DEF Holders, Free
<1>3. ServerTypeOK'
  <2>1. \A c \in Conn : conn'[c] = Free /\ conn'[c].age = 0
    BY <1>1 DEF Free
  <2>2. 0 \in 0 .. Grace /\ 0 \in 0 .. MaxConns /\ 0 \in 0 .. Period - 1 /\ 0 <= Timeout
    BY ServerConstantsOK
  <2>3. schema \in 0 .. Migrations /\ dirty \in BOOLEAN
    BY DEF ServerInv, ServerTypeOK
  <2> QED
    BY <1>1, <2>1, <2>2, <2>3 DEF ServerTypeOK, Phase
<1>4. PoolConserved'
  BY <1>1, <1>2, FS_EmptySet DEF PoolConserved
<1>5. ServesReady' /\ AgeCoversPatience' /\ Stages'
  BY <1>1 DEF ServesReady, AgeCoversPatience, Stages, Active, Free
<1> QED
  BY <1>3, <1>4, <1>5 DEF ServerInv

\* The steps of main that leave the connections and the pool alone.
MainStep ==
    Start \/ Connect \/ Migrate \/ Migrated \/ Listen \/ Signal \/ Drained

LEMMA MainKeeps ==
    ASSUME ServerInv, MainStep
    PROVE  ServerInv'
<1> USE DEF ServerInv, MainStep
<1>1. conn' = conn /\ out' = out /\ patience' = patience /\ timer' = timer /\ due' = due
  BY DEF Start, Connect, Migrate, Migrated, Listen, Signal, Drained, cleaning
<1>2. cleaner' = cleaner \/ (cleaner = "off" /\ cleaner' = "idle")
  BY DEF Start, Connect, Migrate, Migrated, Listen, Signal, Drained, cleaning, Stages
<1>3. ServerTypeOK'
  <2>1. phase' \in Phase /\ dirty' = dirty /\ schema' \in 0 .. Migrations
    BY ServerConstantsOK
    DEF ServerTypeOK, Start, Connect, Migrate, Migrated, Listen, Signal, Drained, database, Phase
  <2>2. phase' \notin {"draining", "closing"} => patience = 0
    BY DEF ServerTypeOK, Start, Connect, Migrate, Migrated, Listen, Signal, Drained
  <2> QED
    BY <1>1, <1>2, <2>1, <2>2 DEF ServerTypeOK
<1>4. PoolConserved'
  BY <1>1, <1>2 DEF PoolConserved, Holders
<1>5. ServesReady' /\ Stages'
  BY <1>1, ServerConstantsOK
  DEF ServesReady, Stages, Active, Start, Connect, Migrate, Migrated, Listen, Signal, Drained,
      database, cleaning, Free
<1>6. AgeCoversPatience'
  <2>1. CASE Signal
    BY <2>1, <1>1 DEF AgeCoversPatience, Active, Signal, ServerTypeOK, Link
  <2>2. CASE ~Signal
    BY <2>2, <1>1 DEF AgeCoversPatience, Active, Start, Connect, Migrate, Migrated, Listen, Drained
  <2> QED
    BY <2>1, <2>2
<1> QED
  BY <1>3, <1>4, <1>5, <1>6

\* The steps of one connection.
ConnStep(c) == Accept(c) \/ Arrive(c) \/ Hangup(c) \/ Acquire(c) \/ Release(c) \/ Return(c)

\* What becomes of a connection, and what that does to the pool.
Becomes(c, s) ==
    /\ conn' = [conn EXCEPT ![c] = s]
    /\ s.age <= Timeout /\ (s.pc \in {"free", "open"} => s \in {Free, Open})
    /\ s.pc \in {"wait", "query"} =>
         /\ phase \in {"up", "draining"} /\ schema = Migrations
         /\ \/ Active(c) /\ s.age = conn[c].age /\ s.late = conn[c].late
            \/ s.age = 0 /\ s.late = (phase = "draining")
    /\ out' = out + (IF s.pc = "query" THEN 1 ELSE 0)
                  - (IF conn[c].pc = "query" THEN 1 ELSE 0)
    /\ s.pc = "query" => out < MaxConns

LEMMA ConnKeeps ==
    ASSUME ServerInv, NEW c \in Conn, ConnStep(c)
    PROVE  ServerInv'
<1> USE DEF ServerInv, ConnStep
<1>1. /\ phase' = phase /\ schema' = schema /\ dirty' = dirty /\ patience' = patience
      /\ cleaner' = cleaner /\ timer' = timer /\ due' = due
  BY DEF Accept, Arrive, Hangup, Acquire, Release, Return, database, cleaning
<1>2. conn[c] \in Link /\ conn[c].age <= Timeout
  BY DEF ServerTypeOK
<1>3. PICK s \in Link : Becomes(c, s)
  <2>1. CASE Accept(c)
    <3> USE <2>1
    <3>1. Open \in Link /\ Open.age = 0 /\ Open.pc = "open" /\ conn[c].pc = "free"
      BY Links DEF Accept
    <3>2. out' = out /\ conn' = [conn EXCEPT ![c] = Open] /\ out \in Int
      BY DEF Accept, ServerTypeOK
    <3>9. Becomes(c, Open)
      BY <3>1, <3>2, ServerConstantsOK DEF Becomes
    <3> QED
      BY <3>1, <3>9
  <2>2. CASE Arrive(c)
    <3> USE <2>2
    <3> DEFINE s == [pc |-> "wait", age |-> 0, late |-> phase = "draining"]
    <3>1. s \in Link /\ s.age = 0 /\ s.pc = "wait" /\ s.late = (phase = "draining")
      BY DEF Link
    <3>2. /\ out' = out /\ conn' = [conn EXCEPT ![c] = s] /\ out \in Int
          /\ phase \in {"up", "draining"} /\ conn[c].pc = "open"
      BY Links DEF Arrive, ServerTypeOK
    <3>3. schema = Migrations
      BY <3>2 DEF Stages
    <3> HIDE DEF s
    <3>9. Becomes(c, s)
      BY <3>1, <3>2, <3>3, ServerConstantsOK DEF Becomes
    <3> QED
      BY <3>1, <3>9
  <2>3. CASE Hangup(c)
    <3> USE <2>3
    <3>1. Free \in Link /\ Free.age = 0 /\ Free.pc = "free" /\ conn[c].pc = "open"
      BY Links DEF Hangup
    <3>2. out' = out /\ conn' = [conn EXCEPT ![c] = Free] /\ out \in Int
      BY DEF Hangup, ServerTypeOK
    <3>9. Becomes(c, Free)
      BY <3>1, <3>2, ServerConstantsOK DEF Becomes
    <3> QED
      BY <3>1, <3>9
  <2>4. CASE Acquire(c)
    <3> USE <2>4
    <3> DEFINE s == [conn[c] EXCEPT !.pc = "query"]
    <3>1. s \in Link /\ s.age = conn[c].age /\ s.pc = "query" /\ s.late = conn[c].late
      BY <1>2 DEF Link
    <3>2. /\ out' = out + 1 /\ conn' = [conn EXCEPT ![c] = s] /\ out \in Int
          /\ conn[c].pc = "wait" /\ out < MaxConns /\ Active(c)
      BY DEF Acquire, ServerTypeOK, Active
    <3>3. phase \in {"up", "draining"} /\ schema = Migrations
      BY <3>2 DEF ServesReady
    <3> HIDE DEF s
    <3>9. Becomes(c, s)
      BY <1>2, <3>1, <3>2, <3>3 DEF Becomes
    <3> QED
      BY <3>1, <3>9
  <2>5. CASE Release(c)
    <3> USE <2>5
    <3> DEFINE s == [conn[c] EXCEPT !.pc = "wait"]
    <3>1. s \in Link /\ s.age = conn[c].age /\ s.pc = "wait" /\ s.late = conn[c].late
      BY <1>2 DEF Link
    <3>2. /\ out' = out - 1 /\ conn' = [conn EXCEPT ![c] = s] /\ out \in Int
          /\ conn[c].pc = "query" /\ Active(c)
      BY DEF Release, ServerTypeOK, Active
    <3>3. phase \in {"up", "draining"} /\ schema = Migrations
      BY <3>2 DEF ServesReady
    <3> HIDE DEF s
    <3>9. Becomes(c, s)
      BY <1>2, <3>1, <3>2, <3>3 DEF Becomes
    <3> QED
      BY <3>1, <3>9
  <2>6. CASE Return(c)
    <3> USE <2>6
    <3> DEFINE s == IF phase = "up" THEN Open ELSE Free
    <3>1. s \in Link /\ s.age = 0 /\ s.pc \in {"free", "open"} /\ s \in {Free, Open}
      BY Links
    <3>2. /\ out' = (IF conn[c].pc = "query" THEN out - 1 ELSE out)
          /\ conn' = [conn EXCEPT ![c] = s] /\ out \in Int
      BY DEF Return, ServerTypeOK
    <3> HIDE DEF s
    <3>9. Becomes(c, s)
      BY <3>1, <3>2, ServerConstantsOK DEF Becomes
    <3> QED
      BY <3>1, <3>9
  <2> QED
    BY <2>1, <2>2, <2>3, <2>4, <2>5, <2>6
<1>4. /\ conn'[c] = s /\ \A d \in Conn \ {c} : conn'[d] = conn[d]
      /\ Holders' = IF s.pc = "query" THEN Holders \cup {c} ELSE Holders \ {c}
  BY <1>3, HoldersStep DEF Becomes
<1>5. PoolConserved'
  <2>1. c \in Holders <=> conn[c].pc = "query"
    BY DEF Holders
  <2>2. Cardinality(Holders') = Cardinality(Holders) + (IF s.pc = "query" THEN 1 ELSE 0)
                                                    - (IF conn[c].pc = "query" THEN 1 ELSE 0)
    <3>1. CASE s.pc = "query"
      <4>1. Cardinality(Holders') =
              IF c \in Holders THEN Cardinality(Holders) ELSE Cardinality(Holders) + 1
        BY <3>1, <1>4, HoldersCount
      <4> QED
        BY <3>1, <4>1, <2>1, HoldersCount
    <3>2. CASE s.pc # "query"
      <4>1. Cardinality(Holders') =
              IF c \in Holders THEN Cardinality(Holders) - 1 ELSE Cardinality(Holders)
        BY <3>2, <1>4, HoldersCount
      <4> QED
        BY <3>2, <4>1, <2>1, HoldersCount
    <3> QED
      BY <3>1, <3>2
  <2>3. Cardinality(Holders) \in Nat
    BY HoldersCount
  <2> QED
    BY <1>1, <1>3, <2>2, <2>3 DEF Becomes, PoolConserved
<1>6. out' \in 0 .. MaxConns
  <2>1. Cardinality(Holders') \in Nat
    BY <1>4, HoldersCount, FS_CardinalityType
  <2>2. out' \in Int /\ out' >= 0
    BY <1>1, <1>5, <2>1 DEF PoolConserved
  <2>3. out \in 0 .. MaxConns
    BY DEF ServerTypeOK
  <2>4. out' <= MaxConns
    BY <1>3, <2>3, ServerConstantsOK DEF Becomes
  <2> QED
    BY <2>2, <2>4, ServerConstantsOK
<1>7. ServerTypeOK'
  <2>1. conn' \in [Conn -> Link]
    BY <1>3 DEF Becomes, ServerTypeOK
  <2>2. \A d \in Conn : /\ conn'[d].age <= Timeout
                        /\ conn'[d].pc \in {"free", "open"} => conn'[d] \in {Free, Open}
    BY <1>3, <1>4 DEF Becomes, ServerTypeOK
  <2> QED
    BY <1>1, <1>6, <2>1, <2>2 DEF ServerTypeOK
<1>8. ServesReady' /\ Stages'
  BY <1>1, <1>3, <1>4 DEF Becomes, ServesReady, Stages, Active
<1>9. AgeCoversPatience'
  BY <1>1, <1>2, <1>3, <1>4 DEF Becomes, AgeCoversPatience, Active
<1> QED
  BY <1>5, <1>7, <1>8, <1>9

\* The steps of the cleaner.
CleanerStep == TakeTick \/ AcquireCleaner \/ DeleteExpired \/ DeleteFails \/ PoolClosed

LEMMA CleanerKeeps ==
    ASSUME ServerInv, CleanerStep
    PROVE  ServerInv'
<1> USE DEF ServerInv, CleanerStep
<1>1. /\ phase' = phase /\ schema' = schema /\ patience' = patience
      /\ conn' = conn /\ timer' = timer
  BY DEF TakeTick, AcquireCleaner, DeleteExpired, DeleteFails, PoolClosed, database
<1>2. /\ dirty' \in BOOLEAN /\ due' \in BOOLEAN /\ cleaner # "off"
      /\ cleaner' \in {"idle", "wait", "query"}
  <2>1. due \in BOOLEAN /\ dirty \in BOOLEAN
    BY DEF ServerTypeOK
  <2>2. cleaner # "off" /\ cleaner' \in {"idle", "wait", "query"}
    BY DEF TakeTick, AcquireCleaner, DeleteExpired, DeleteFails, PoolClosed
  <2>3. due' \in {due, FALSE} /\ dirty' \in {dirty, FALSE}
    BY DEF TakeTick, AcquireCleaner, DeleteExpired, DeleteFails, PoolClosed, database
  <2> QED
    BY <2>1, <2>2, <2>3
\* A connection is taken for "query" and given back after it.
<1>10. /\ out' = out + (IF cleaner' = "query" THEN 1 ELSE 0)
                     - (IF cleaner = "query" THEN 1 ELSE 0)
       /\ cleaner' = "query" => out < MaxConns
  <2>1. out \in Nat
    BY ServerConstantsOK DEF ServerTypeOK
  <2>2. \/ cleaner # "query" /\ cleaner' # "query" /\ out' = out
        \/ cleaner # "query" /\ cleaner' = "query" /\ out' = out + 1 /\ out < MaxConns
        \/ cleaner = "query" /\ cleaner' # "query" /\ out' = out - 1
    BY DEF TakeTick, AcquireCleaner, DeleteExpired, DeleteFails, PoolClosed
  <2> QED
    BY <2>1, <2>2
<1>3. PoolConserved'
  <2>1. Holders' = Holders /\ Cardinality(Holders) \in Nat
    BY <1>1, HoldersCount DEF Holders
  <2> QED
    BY <1>10, <2>1 DEF PoolConserved
<1>4. out' \in 0 .. MaxConns
  <2>1. Holders' = Holders /\ Cardinality(Holders) \in Nat
    BY <1>1, HoldersCount DEF Holders
  <2>2. out \in 0 .. MaxConns
    BY DEF ServerTypeOK
  <2> QED
    BY <1>2, <1>3, <1>10, <2>1, <2>2, ServerConstantsOK DEF PoolConserved
<1>5. ServerTypeOK'
  BY <1>1, <1>2, <1>4 DEF ServerTypeOK
<1>6. ServesReady' /\ AgeCoversPatience' /\ Stages'
  BY <1>1, <1>2 DEF ServesReady, AgeCoversPatience, Stages, Active
<1> QED
  BY <1>3, <1>5, <1>6

\* Time.
LEMMA TickKeeps ==
    ASSUME ServerInv, Tick
    PROVE  ServerInv'
<1> USE DEF ServerInv
<1>1. /\ phase' = phase /\ schema' = schema /\ dirty' = dirty
      /\ out' = out /\ cleaner' = cleaner
      /\ patience' = IF phase = "draining" THEN patience + 1 ELSE patience
  BY DEF Tick, database
<1>2. timer' \in 0 .. Period - 1 /\ due' \in BOOLEAN
  <2>1. timer \in 0 .. Period - 1 /\ due \in BOOLEAN /\ Period \in Nat \ {0}
    BY ServerConstantsOK DEF ServerTypeOK
  <2>2. CASE cleaner = "off"
    BY <2>1, <2>2 DEF Tick, Ticker
  <2>3. CASE cleaner # "off" /\ timer + 1 = Period
    BY <2>1, <2>3 DEF Tick, Ticker
  <2>4. CASE cleaner # "off" /\ timer + 1 # Period
    <3>1. timer' = timer + 1 /\ due' = due
      BY <2>4 DEF Tick, Ticker
    <3> QED
      BY <2>1, <2>4, <3>1
  <2> QED
    BY <2>2, <2>3, <2>4
<1>3. \A c \in Conn :
        /\ conn'[c] \in Link /\ conn'[c].pc = conn[c].pc /\ conn'[c].late = conn[c].late
        /\ IF Active(c) THEN conn'[c].age = conn[c].age + 1 ELSE conn'[c] = conn[c]
        /\ conn'[c].age <= Timeout
  <2> TAKE c \in Conn
  <2>1. conn[c] \in Link /\ conn[c].age <= Timeout /\ Timeout \in Nat
    BY ServerConstantsOK DEF ServerTypeOK
  <2>2. conn'[c] = IF Active(c) THEN [conn[c] EXCEPT !.age = @ + 1] ELSE conn[c]
    BY DEF Tick
  <2>3. CASE Active(c)
    <3>1. conn[c].age < Timeout /\ conn[c].age \in Nat
      BY <2>1, <2>3 DEF Tick, Link
    <3> QED
      BY <2>1, <2>2, <2>3, <3>1 DEF Link
  <2>4. CASE ~Active(c)
    BY <2>1, <2>2, <2>4
  <2> QED
    BY <2>3, <2>4
<1>4. conn' \in [Conn -> Link]
  <2>1. conn' = [c \in Conn |-> conn'[c]]
    BY DEF Tick
  <2> QED
    BY <1>3, <2>1
<1>5. ServerTypeOK'
  <2>1. patience' \in 0 .. Grace /\ (phase \notin {"draining", "closing"} => patience' = 0)
    BY <1>1, ServerConstantsOK DEF Tick, ServerTypeOK
  <2>2. \A c \in Conn : conn'[c].pc \in {"free", "open"} => conn'[c] \in {Free, Open}
    BY <1>3 DEF ServerTypeOK, Active
  <2> QED
    BY <1>1, <1>2, <1>3, <1>4, <2>1, <2>2 DEF ServerTypeOK
<1>6. PoolConserved'
  BY <1>1, <1>3 DEF PoolConserved, Holders
<1>7. ServesReady' /\ Stages'
  BY <1>1, <1>3 DEF ServesReady, Stages, Active
<1>8. AgeCoversPatience'
  <2> SUFFICES ASSUME phase = "draining", NEW c \in Conn, Active(c)', ~conn'[c].late
               PROVE  conn'[c].age >= patience'
    BY <1>1 DEF AgeCoversPatience
  <2>1. Active(c) /\ ~conn[c].late /\ conn'[c].age = conn[c].age + 1
    BY <1>3 DEF Active
  <2>2. conn[c].age >= patience /\ conn[c].age \in Nat /\ patience \in Nat
    BY <2>1, ServerConstantsOK DEF AgeCoversPatience, ServerTypeOK, Link
  <2> QED
    BY <1>1, <2>1, <2>2
<1> QED
  BY <1>5, <1>6, <1>7, <1>8

LEMMA ServerInvInductive ==
    ASSUME ServerInv, [ServerNext]_serverVars
    PROVE  ServerInv'
<1>1. CASE MainStep
  BY <1>1, MainKeeps
<1>2. CASE Exit
  BY <1>2, ExitClean
<1>3. CASE \E c \in Conn : ConnStep(c)
  BY <1>3, ConnKeeps
<1>4. CASE CleanerStep
  BY <1>4, CleanerKeeps
<1>5. CASE Expire
  <2>1. /\ phase' = phase /\ schema' = schema /\ dirty' \in BOOLEAN /\ patience' = patience
        /\ conn' = conn /\ out' = out /\ cleaner' = cleaner /\ timer' = timer /\ due' = due
    BY <1>5 DEF Expire, cleaning
  <2> QED
    BY <2>1 DEF ServerInv, ServerTypeOK, PoolConserved, ServesReady, AgeCoversPatience, Stages,
                Holders, Active
<1>6. CASE Tick
  BY <1>6, TickKeeps
<1>7. CASE UNCHANGED serverVars
  BY <1>7 DEF serverVars, ServerInv, ServerTypeOK, PoolConserved, ServesReady, AgeCoversPatience,
              Stages, Holders, Active
<1>8. Crash \/ SignalEarly \/ Forced \/ ClosePool => Exit
  BY DEF Crash, SignalEarly, Forced, ClosePool
<1> QED
  BY <1>1, <1>2, <1>3, <1>4, <1>5, <1>6, <1>7, <1>8 DEF ServerNext, MainStep, ConnStep, CleanerStep

LEMMA ServerInvInit == ServerInit => ServerInv
<1> SUFFICES ASSUME ServerInit PROVE ServerInv
  OBVIOUS
<1>1. \A c \in Conn : conn[c] = Free
  BY DEF ServerInit
<1>2. Holders = {} /\ \A c \in Conn : ~Active(c)
  BY <1>1 DEF Holders, Active, Free
<1>3. ServerTypeOK
  <2>1. conn \in [Conn -> Link] /\ \A c \in Conn : conn[c] = Free /\ conn[c].age = 0
    BY <1>1, Links DEF ServerInit
  <2>2. /\ 0 \in 0 .. Grace /\ 0 \in 0 .. MaxConns /\ 0 \in 0 .. Period - 1 /\ 0 <= Timeout
        /\ 0 \in 0 .. Migrations
    BY ServerConstantsOK
  <2> QED
    BY <2>1, <2>2 DEF ServerInit, ServerTypeOK, Phase
<1>4. PoolConserved
  BY <1>2, FS_EmptySet DEF ServerInit, PoolConserved
<1> QED
  BY <1>2, <1>3, <1>4 DEF ServerInit, ServerInv, ServesReady, AgeCoversPatience, Stages

LEMMA ServerInvHolds == ServerSpec => []ServerInv
BY ServerInvInit, ServerInvInductive, PTL DEF ServerSpec

\* Type correctness of the process, its connections and the pool (main.go, db.go).
THEOREM ServerTypeCorrect == ServerSpec => []ServerTypeOK
<1>1. ServerInv => ServerTypeOK
  BY DEF ServerInv
<1> QED
  BY <1>1, ServerInvHolds, PTL

\* No connection of the pool is lost or counted twice, however handlers end.
THEOREM PoolNeverLeaks == ServerSpec => []PoolConserved
<1>1. ServerInv => PoolConserved
  BY DEF ServerInv
<1> QED
  BY <1>1, ServerInvHolds, PTL

\* Requests meet a complete schema, after any number of interrupted startups.
THEOREM RequestsMeetTheSchema == ServerSpec => []ServesReady
<1>1. ServerInv => ServesReady
  BY DEF ServerInv
<1> QED
  BY <1>1, ServerInvHolds, PTL

\* A forced stop cuts off no request that would have ended within the grace period.
THEOREM QuickRequestsSpared == ServerSpec => StopSparesQuick
<1>1. ServerInv => [Forced => \A c \in Conn : Active(c) /\ ~conn[c].late => conn[c].age >= Grace]_serverVars
  BY DEF ServerInv, AgeCoversPatience, Forced
<1> QED
  BY <1>1, ServerInvHolds, PTL DEF ServerSpec, StopSparesQuick
=============================================================================
