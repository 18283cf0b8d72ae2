---------------------------- MODULE UdpEdge_proofs ----------------------------
(***************************************************************************)
(* Theorems about the dispatcher of UdpEdge for any number of clients, any *)
(* table limit and any timing.                                             *)
(***************************************************************************)
EXTENDS UdpEdge, FiniteSetTheorems, TLAPS

Table == [Clients -> Session \cup {NoSession}]

LEMMA NoSessionIsNone == NoSession \notin Session
BY DEF NoSession, Session, Protocols

LEMMA OpenFinite == ASSUME NEW table PROVE IsFiniteSet(OpenIn(table))
<1>1. OpenIn(table) \subseteq Clients
  BY DEF OpenIn
<1> QED BY <1>1, FS_Subset, EdgeAssumption

\* A table with no more open sessions than another is within its limit too.
LEMMA FewerOpen ==
  ASSUME NEW table, OpenIn(table) \subseteq Open, TableBounded
  PROVE  Cardinality(OpenIn(table)) <= MaxSessions
<1>1. IsFiniteSet(Open) /\ IsFiniteSet(OpenIn(table))
  BY OpenFinite DEF Open
<1>2. Cardinality(OpenIn(table)) <= Cardinality(Open)
  BY <1>1, FS_Subset
<1>3. Cardinality(OpenIn(table)) \in Nat /\ Cardinality(Open) \in Nat
  BY <1>1, FS_CardinalityType
<1> QED BY <1>2, <1>3, EdgeAssumption DEF TableBounded

\* _new_session opens one session and, when the table is full, closes one.
LEMMA NewWithinLimit ==
  ASSUME TableBounded, sessions \in Table, NEW c \in Clients, NEW room \in Rooms, NEW s,
         sessions' = [room EXCEPT ![c] = s]
  PROVE  Cardinality(OpenIn(sessions')) <= MaxSessions
<1>0. IsFiniteSet(Open) /\ Cardinality(Open) \in Nat
  BY OpenFinite, FS_CardinalityType DEF Open
<1>r. room \in Table
  BY DEF Rooms, Oldest, Open, OpenIn, Table
<1>1. OpenIn(sessions') \subseteq OpenIn(room) \cup {c}
  BY <1>r DEF OpenIn, Table
<1>2. IsFiniteSet(OpenIn(room)) /\ Cardinality(OpenIn(room)) \in Nat
  BY OpenFinite, FS_CardinalityType
<1>3. Cardinality(OpenIn(room)) < MaxSessions
  <2>1. CASE Full
    <3>1. PICK o \in Open : room = [sessions EXCEPT ![o] = NoSession]
      BY <2>1 DEF Rooms, Oldest
    <3>2. OpenIn(room) = Open \ {o}
      BY <3>1 DEF Open, OpenIn, Table
    <3>3. Cardinality(OpenIn(room)) = Cardinality(Open) - 1
      BY <1>0, <3>1, <3>2, FS_RemoveElement
    <3> QED BY <1>0, <3>3, EdgeAssumption DEF TableBounded
  <2>2. CASE ~Full
    BY <1>0, <2>2, EdgeAssumption DEF Rooms, Full, Open
  <2> QED BY <2>1, <2>2
<1>4. /\ IsFiniteSet(OpenIn(room) \cup {c})
      /\ Cardinality(OpenIn(room) \cup {c}) \in Nat
      /\ Cardinality(OpenIn(room) \cup {c}) <= Cardinality(OpenIn(room)) + 1
  <2> DEFINE S == OpenIn(room)
  <2>1. IsFiniteSet(S) /\ Cardinality(S) \in Nat
    BY <1>2
  <2> HIDE DEF S
  <2>2. /\ IsFiniteSet(S \cup {c})
        /\ Cardinality(S \cup {c}) = IF c \in S THEN Cardinality(S) ELSE Cardinality(S) + 1
    BY <2>1, FS_AddElement
  <2>3. Cardinality(S \cup {c}) \in Nat /\ Cardinality(S \cup {c}) <= Cardinality(S) + 1
    BY <2>1, <2>2
  <2> QED BY <2>2, <2>3 DEF S
<1>5. Cardinality(OpenIn(sessions')) <= Cardinality(OpenIn(room) \cup {c})
  BY <1>1, <1>4, FS_Subset
<1>6. Cardinality(OpenIn(sessions')) \in Nat
  BY OpenFinite, FS_CardinalityType
<1> QED BY <1>2, <1>3, <1>4, <1>5, <1>6, EdgeAssumption

-----------------------------------------------------------------------------
\* The table after each action.
LEMMA SentSession ==
  ASSUME NEW s \in Session, now \in 0..MaxTime, NEW t \in Sent(s)
  PROVE  /\ t \in Session \cup {NoSession}
         /\ t # NoSession => t.protocol = s.protocol
BY DEF Sent, Session, NoSession

LEMMA ProtocolType ==
  ASSUME NEW f, Protocol(f) # "none"
  PROVE  Protocol(f) \in Protocols
BY DEF Protocol, Classify, Protocols

LEMMA RoomType ==
  ASSUME sessions \in Table, NEW room \in Rooms
  PROVE  room \in Table /\ OpenIn(room) \subseteq Open
BY DEF Rooms, Oldest, Table, Open, OpenIn

\* A datagram of the queue head has a sender among the clients.
LEMMA SenderType ==
  ASSUME TypeOK, NEW f \in ready.public
  PROVE  /\ f \in Families /\ Sender(f) \in Clients
         /\ Tail(public[f]) \in Seq(Packet)
<1>1. f \in Families /\ public[f] \in Seq(Packet) /\ public[f] # <<>>
  BY DEF TypeOK
<1>2. Head(public[f]) \in Packet /\ Tail(public[f]) \in Seq(Packet)
  BY <1>1
<1> QED BY <1>1, <1>2 DEF Sender, Packet

\* Receiving keeps the types of everything but the sessions.
LEMMA ReceiveTypes ==
  ASSUME TypeOK, NEW f \in Families, Receive(f), sessions' \in Table
  PROVE  TypeOK'
<1>1. f \in ready.public /\ Running
  BY DEF Receive
<1>2. public' \in [Families -> Seq(Packet)]
  BY <1>1, SenderType DEF Receive, TypeOK
<1>3. ready' \in [public : SUBSET Families, backend : SUBSET Clients]
      /\ ready'.public = ready.public \ {f}
  BY DEF Receive, TypeOK
<1>4. \A g \in ready'.public : public'[g] # <<>>
  BY <1>3 DEF Receive, TypeOK
<1>5. batch
  BY <1>1 DEF TypeOK, NoEvents
<1>6. /\ UNCHANGED <<up, batch, config, changedAt, now, sent>>
      /\ loaded' \in Configs /\ loadedAt' \in 0..now
  BY DEF Receive, TypeOK, InForce
<1>7. Running' /\ batch'
  BY <1>1, <1>5, <1>6 DEF Running
<1> QED BY <1>2, <1>3, <1>4, <1>6, <1>7 DEF TypeOK, Table

LEMMA CrashTypes ==
  ASSUME TypeOK, Crash
  PROVE  TypeOK' /\ Open' = {}
<1>1. Open' = {}
  BY DEF Crash, Open, OpenIn
<1>2. NoEvents \in [public : SUBSET Families, backend : SUBSET Clients]
      /\ NoEvents.public = {}
  BY DEF NoEvents
<1>3. /\ up' = "crashed" /\ batch' = FALSE /\ ready' = NoEvents
      /\ sessions' \in Table /\ public' \in [Families -> Seq(Packet)]
      /\ UNCHANGED <<config, changedAt, loaded, loadedAt, now, sent>>
  BY DEF Crash, Table
<1>4. ~Running'
  BY <1>3 DEF Running
<1> HIDE DEF NoEvents
<1> QED BY <1>1, <1>2, <1>3, <1>4 DEF TypeOK, Table

LEMMA TypeInit == Init => TypeOK /\ TableBounded
<1> SUFFICES ASSUME Init PROVE TypeOK /\ TableBounded
  OBVIOUS
<1>1. Open = {}
  BY DEF Init, Open, OpenIn
<1>2. Cardinality(Open) = 0
  BY <1>1, FS_EmptySet
<1>3. NoEvents \in [public : SUBSET Families, backend : SUBSET Clients]
      /\ NoEvents.public = {}
  BY DEF NoEvents
<1>4. sessions \in Table /\ public \in [Families -> Seq(Packet)]
  BY DEF Init, Table
<1>5. 0 <= MaxSessions /\ 0 \in 0..MaxTime /\ 0 \in 0..MaxSent
  BY EdgeAssumption
<1>6. /\ up = "up" /\ batch = FALSE /\ ready = NoEvents
      /\ config \in Configs /\ loaded \in Configs
      /\ changedAt = 0 /\ loadedAt = 0 /\ now = 0 /\ sent = 0 /\ 0 \in 0..0
  BY DEF Init
<1>7. TypeOK
  <2> HIDE DEF NoEvents
  <2> QED BY <1>1, <1>3, <1>4, <1>5, <1>6 DEF TypeOK, Running, Table
<1> QED BY <1>2, <1>5, <1>7 DEF TableBounded

-----------------------------------------------------------------------------
\* What each datagram handler makes of the table.
LEMMA KnownStep ==
  ASSUME TypeOK, NEW f \in Families, HandleKnown(f)
  PROVE  /\ sessions' \in Table
         /\ OpenIn(sessions') \subseteq Open
         /\ \A c \in OpenIn(sessions') : sessions'[c].protocol = sessions[c].protocol
         /\ \A c \in Open \ OpenIn(sessions') : MayFail \/ sessions[c].inbox = "error"
<1>1. f \in ready.public /\ Sender(f) \in Open
  BY DEF HandleKnown, Receive
<1>2. sessions \in Table /\ now \in 0..MaxTime
  BY DEF TypeOK, Table
<1>3. sessions[Sender(f)] \in Session
  BY <1>1, <1>2 DEF Open, OpenIn, Table
<1>4. PICK t \in Sent(sessions[Sender(f)]) : sessions' = [sessions EXCEPT ![Sender(f)] = t]
  BY DEF HandleKnown
<1>5. /\ t \in Session \cup {NoSession}
      /\ t # NoSession => t.protocol = sessions[Sender(f)].protocol
  BY <1>2, <1>3, SentSession
<1>6. t = NoSession => MayFail \/ sessions[Sender(f)].inbox = "error"
  <2>1. \A s \in Session : [s EXCEPT !.seen = now] # NoSession
    BY <1>2, NoSessionIsNone DEF Session
  <2> QED BY <1>3, <2>1 DEF Sent
<1> QED BY <1>1, <1>2, <1>4, <1>5, <1>6 DEF Table, Open, OpenIn

LEMMA NewStep ==
  ASSUME TypeOK, TableBounded, NEW f \in Families, HandleNew(f)
  PROVE  /\ sessions' \in Table
         /\ Cardinality(OpenIn(sessions')) <= MaxSessions
         /\ \A c \in Open \cap OpenIn(sessions') : sessions'[c] = sessions[c]
         /\ \A c \in Open \ OpenIn(sessions') : Full /\ c \in Oldest
<1>1. Sender(f) \notin Open /\ f \in ready.public
  BY DEF HandleNew, Receive
<1>2. sessions \in Table /\ now \in 0..MaxTime /\ Sender(f) \in Clients
  BY <1>1, SenderType DEF TypeOK, Table
<1> DEFINE fresh == [protocol |-> Protocol(f), seen |-> now, inbox |-> "none"]
<1>3. PICK room \in Rooms, t \in Sent(fresh) : sessions' = [room EXCEPT ![Sender(f)] = t]
  BY DEF HandleNew
<1>4. fresh \in Session
  BY <1>2, ProtocolType DEF HandleNew, Session
<1>5. t \in Session \cup {NoSession}
  BY <1>2, <1>4, SentSession
<1>6. room \in Table /\ OpenIn(room) \subseteq Open
  BY <1>2, RoomType
<1>7. Cardinality(OpenIn(sessions')) <= MaxSessions
  BY <1>2, <1>3, NewWithinLimit
<1>8. /\ \A c \in OpenIn(room) : room[c] = sessions[c]
      /\ \A c \in Open \ OpenIn(room) : Full /\ c \in Oldest
  BY <1>2, <1>6 DEF Rooms, Oldest, Open, OpenIn, Table
<1> HIDE DEF fresh
<1>9. sessions' \in Table
  BY <1>2, <1>3, <1>5, <1>6 DEF Table
<1>10. \A c \in Clients : c # Sender(f) => sessions'[c] = room[c]
  BY <1>3, <1>6 DEF Table
<1>11. \A c \in Open : (c \in OpenIn(sessions') <=> c \in OpenIn(room)) /\ sessions'[c] = room[c]
  BY <1>1, <1>10 DEF Open, OpenIn
<1> QED BY <1>7, <1>8, <1>9, <1>11

LEMMA BackendStep ==
  ASSUME TypeOK, NEW c \in Clients, HandleBackend(c)
  PROVE  /\ sessions' \in Table
         /\ OpenIn(sessions') \subseteq Open
         /\ \A d \in OpenIn(sessions') : sessions'[d].protocol = sessions[d].protocol
         /\ \A d \in Open \ OpenIn(sessions') : MayFail \/ sessions[d].inbox = "error"
<1>1. sessions \in Table /\ now \in 0..MaxTime
  BY DEF TypeOK, Table
<1>2. CASE Waiting(c) = "none" /\ UNCHANGED sessions
  BY <1>1, <1>2 DEF Open, OpenIn
<1>3. CASE Waiting(c) = "data"
           /\ sessions' = [sessions EXCEPT ![c] = [@ EXCEPT !.seen = now, !.inbox = "none"]]
  <2> DEFINE t == [sessions[c] EXCEPT !.seen = now, !.inbox = "none"]
  <2>1. c \in Open /\ sessions[c] \in Session
    BY <1>1, <1>3 DEF Waiting, Open, OpenIn, Table
  <2>2. t \in Session /\ t.protocol = sessions[c].protocol
    BY <1>1, <2>1 DEF Session
  <2>3. sessions' = [sessions EXCEPT ![c] = t]
    BY <1>3
  <2> HIDE DEF t
  <2>4. sessions' \in Table /\ \A d \in Clients : sessions'[d] = IF d = c THEN t ELSE sessions[d]
    BY <1>1, <2>2, <2>3 DEF Table
  <2>5. t # NoSession
    BY <2>2, NoSessionIsNone
  <2>6. OpenIn(sessions') = Open
    BY <2>1, <2>4, <2>5 DEF Open, OpenIn
  <2> QED BY <2>1, <2>2, <2>4, <2>6 DEF Open, OpenIn
<1>4. CASE /\ Waiting(c) = "error" \/ (MayFail /\ Waiting(c) = "data")
           /\ sessions' = [sessions EXCEPT ![c] = NoSession]
  <2>1. c \in Open => MayFail \/ sessions[c].inbox = "error"
    BY <1>4 DEF Waiting
  <2> QED BY <1>1, <1>4, <2>1 DEF Table, Open, OpenIn
<1> QED BY <1>2, <1>3, <1>4 DEF HandleBackend

LEMMA EndBatchStep ==
  ASSUME TypeOK, EndBatch
  PROVE  /\ sessions' \in Table
         /\ OpenIn(sessions') \subseteq Open
         /\ \A c \in OpenIn(sessions') : sessions'[c] = sessions[c]
         /\ up' = "up" => \A c \in Open \ OpenIn(sessions') : sessions[c].seen < now - TTL
BY DEF EndBatch, TypeOK, Table, Open, OpenIn, Expired

LEMMA ReplyStep ==
  ASSUME TypeOK, NEW c \in Clients, Reply(c)
  PROVE  /\ sessions' \in Table
         /\ OpenIn(sessions') = Open
         /\ \A d \in Open : sessions'[d].protocol = sessions[d].protocol
<1>1. sessions \in Table /\ c \in Open /\ sessions[c] \in Session
  BY DEF TypeOK, Table, Reply, Open, OpenIn
<1>2. PICK x \in {"data", "error"} : sessions' = [sessions EXCEPT ![c].inbox = x]
  BY DEF Reply
<1> DEFINE t == [sessions[c] EXCEPT !.inbox = x]
<1>3. t \in Session /\ t.protocol = sessions[c].protocol
  BY <1>1 DEF Session
<1>4. sessions' = [sessions EXCEPT ![c] = t]
  BY <1>2
<1> HIDE DEF t
<1> QED BY <1>1, <1>3, <1>4, NoSessionIsNone DEF Table, Open, OpenIn

-----------------------------------------------------------------------------
EdgeInv == TypeOK /\ TableBounded

\* A step that leaves the bookkeeping of the batch and the clock alone keeps
\* the types when it keeps those of the table.
LEMMA TableStep ==
  ASSUME TypeOK, sessions' \in Table,
         UNCHANGED <<up, ready, batch, public, config, changedAt, loaded, loadedAt, now, sent>>,
         Running
  PROVE  TypeOK'
BY DEF TypeOK, Table, Running

LEMMA TypeNext == EdgeInv /\ [Next]_vars => TypeOK'
<1> SUFFICES ASSUME TypeOK, TableBounded, [Next]_vars PROVE TypeOK'
  BY DEF EdgeInv
<1> USE EdgeAssumption
<1>0. sessions \in Table
  BY DEF TypeOK, Table
<1>1. CASE UNCHANGED vars
  BY <1>1 DEF vars, TypeOK, Running, Open, OpenIn
<1>2. CASE Select
  <2>1. ready' \in [public : SUBSET Families, backend : SUBSET Clients]
        /\ \A f \in ready'.public : public[f] # <<>>
    BY <1>2 DEF Select, Open, OpenIn
  <2> QED BY <1>2, <2>1 DEF Select, TypeOK, Running, Open, OpenIn
<1>3. CASE EndBatch
  <2>1. sessions' \in Table /\ (up' = "down" => OpenIn(sessions') = {})
    BY <1>3, EndBatchStep DEF EndBatch, OpenIn, Running
  <2>2. /\ up' \in {up, "down"} /\ (up' # "down" => Running) /\ batch' = FALSE
        /\ public' \in [Families -> Seq(Packet)]
        /\ ready = NoEvents /\ NoEvents.public = {}
        /\ UNCHANGED <<ready, config, changedAt, loaded, loadedAt, now, sent>>
    BY <1>3 DEF EndBatch, TypeOK, NoEvents, Running
  <2> HIDE DEF NoEvents
  <2> QED BY <2>1, <2>2 DEF TypeOK, Table, Running, Open
<1>4. ASSUME NEW f \in Families, HandleKnown(f) PROVE TypeOK'
  <2>1. sessions' \in Table
    BY <1>4, KnownStep
  <2> QED BY <1>4, <2>1, ReceiveTypes DEF HandleKnown
<1>5. ASSUME NEW f \in Families, HandleUnknown(f) PROVE TypeOK'
  BY <1>0, <1>5, ReceiveTypes DEF HandleUnknown
<1>6. ASSUME NEW f \in Families, HandleNew(f) PROVE TypeOK'
  <2>1. sessions' \in Table
    BY <1>6, NewStep
  <2> QED BY <1>6, <2>1, ReceiveTypes DEF HandleNew
<1>7. CASE Raise \/ \E f \in Families : NoDescriptor(f)
  BY <1>7, CrashTypes DEF Raise, NoDescriptor
<1>8. ASSUME NEW c \in Clients, HandleBackend(c) PROVE TypeOK'
  <2>1. sessions' \in Table
    BY <1>8, BackendStep
  <2>2. /\ ready' \in [public : SUBSET Families, backend : SUBSET Clients]
        /\ ready'.public = ready.public
    BY <1>8 DEF HandleBackend, TypeOK
  <2>3. batch
    BY <1>8 DEF HandleBackend, TypeOK, NoEvents
  <2> QED BY <1>8, <2>1, <2>2, <2>3 DEF HandleBackend, TypeOK, Table, Running
<1>9. CASE Stop
  BY <1>9 DEF Stop, TypeOK, Running, Open, OpenIn
<1>10. CASE Restart \/ StartAgain
  BY <1>10 DEF Restart, StartAgain, Start, TypeOK, Running, Open, OpenIn
<1>11. ASSUME NEW c \in Clients, NEW d \in Datagrams, Arrive(c, d) PROVE TypeOK'
  <2> DEFINE m == [client |-> c, data |-> d]
             g == Family[c]
  <2>1. m \in [client : Clients, data : Datagrams] /\ g \in Families
    OBVIOUS
  <2> HIDE DEF m, g
  <2>2. public[g] \in Seq(Packet) /\ m \in Packet
    BY <2>1 DEF TypeOK, Packet
  <2>3. Append(public[g], m) \in Seq(Packet) /\ Append(public[g], m) # <<>>
    BY <2>2
  <2>4. public' = [public EXCEPT ![g] = Append(public[g], m)]
    BY <1>11 DEF Arrive, m, g
  <2>5. /\ public' \in [Families -> Seq(Packet)]
        /\ \A f \in Families : public[f] # <<>> => public'[f] # <<>>
    BY <2>1, <2>3, <2>4 DEF TypeOK
  <2>6. /\ sent' \in 0..MaxSent
        /\ UNCHANGED <<up, sessions, ready, batch, config, changedAt, loaded, loadedAt, now>>
    BY <1>11 DEF Arrive, TypeOK
  <2> QED BY <2>5, <2>6 DEF TypeOK, Running, Open, OpenIn
<1>12. ASSUME NEW c \in Clients, Reply(c) PROVE TypeOK'
  <2>1. sessions' \in Table /\ OpenIn(sessions') = Open
    BY <1>12, ReplyStep
  <2> QED BY <1>12, <2>1 DEF Reply, TypeOK, Table, Running, Open
<1>13. ASSUME NEW c \in Configs, SaveSettings(c) PROVE TypeOK'
  BY <1>13 DEF SaveSettings, TypeOK, Running, Open, OpenIn
<1>14. CASE Tick
  BY <1>14 DEF Tick, TypeOK, Running, Open, OpenIn
<1> QED BY <1>1, <1>2, <1>3, <1>4, <1>5, <1>6, <1>7, <1>8, <1>9, <1>10, <1>11, <1>12,
           <1>13, <1>14 DEF Next, ServerStep

\* Only a new session can make the table larger.
LEMMA OtherActionsClose ==
  ASSUME TypeOK, [Next]_vars, \A f \in Families : ~HandleNew(f)
  PROVE  OpenIn(sessions') \subseteq Open
<1>1. CASE \/ \E f \in Families : HandleKnown(f)
           \/ \E c \in Clients : HandleBackend(c)
           \/ EndBatch
           \/ \E c \in Clients : Reply(c)
  BY <1>1, KnownStep, BackendStep, EndBatchStep, ReplyStep
<1>2. CASE Raise \/ Stop \/ \E f \in Families : NoDescriptor(f)
  BY <1>2 DEF Raise, NoDescriptor, Crash, Stop, Open, OpenIn
<1>3. CASE UNCHANGED sessions
  BY <1>3 DEF Open, OpenIn
<1>4. \/ UNCHANGED vars \/ Select \/ Tick \/ Restart \/ StartAgain
      \/ \E f \in Families : HandleUnknown(f)
      \/ \E c \in Clients, d \in Datagrams : Arrive(c, d)
      \/ \E c \in Configs : SaveSettings(c)
      => UNCHANGED sessions
  BY DEF vars, Select, Tick, Restart, StartAgain, Start, HandleUnknown, Arrive, SaveSettings
<1> QED BY <1>1, <1>2, <1>3, <1>4 DEF Next, ServerStep

LEMMA BoundNext == EdgeInv /\ [Next]_vars => TableBounded'
<1> SUFFICES ASSUME TypeOK, TableBounded, [Next]_vars PROVE TableBounded'
  BY DEF EdgeInv
<1>0. Open' = OpenIn(sessions')
  BY DEF Open, OpenIn
<1>1. CASE \E f \in Families : HandleNew(f)
  BY <1>0, <1>1, NewStep DEF TableBounded
<1>2. CASE \A f \in Families : ~HandleNew(f)
  <2>1. OpenIn(sessions') \subseteq Open
    BY <1>2, OtherActionsClose
  <2> QED BY <1>0, <2>1, FewerOpen DEF TableBounded
<1> QED BY <1>1, <1>2

LEMMA EdgeInvInduction == Spec => []EdgeInv
<1>1. Init => EdgeInv
  BY TypeInit DEF EdgeInv
<1>2. EdgeInv /\ [Next]_vars => EdgeInv'
  BY TypeNext, BoundNext DEF EdgeInv
<1> QED BY <1>1, <1>2, PTL DEF Spec

\* Values keep their types and a dead process holds no session.
THEOREM EdgeTypeCorrect == Spec => []TypeOK
<1>1. EdgeInv => TypeOK
  BY DEF EdgeInv
<1> QED BY <1>1, EdgeInvInduction, PTL

\* The session table is bounded by MAX_SESSIONS whatever arrives and fails.
THEOREM SessionsBounded == Spec => []TableBounded
<1>1. EdgeInv => TableBounded
  BY DEF EdgeInv
<1> QED BY <1>1, EdgeInvInduction, PTL

\* A flow stays with the backend its first datagram was classified to for as
\* long as its session lives, whatever settings are saved meanwhile.
THEOREM SessionsPinned == Spec => Pinned
<1> DEFINE Keeps == \A c \in Open \cap OpenIn(sessions') :
                      sessions'[c].protocol = sessions[c].protocol
<1>1. EdgeInv /\ [Next]_vars => [Keeps]_vars
  <2> SUFFICES ASSUME TypeOK, TableBounded, Next PROVE Keeps
    BY DEF EdgeInv
  <2>1. CASE \E f \in Families : HandleNew(f)
    BY <2>1, NewStep
  <2>2. CASE \/ \E f \in Families : HandleKnown(f)
             \/ \E c \in Clients : HandleBackend(c)
             \/ EndBatch
             \/ \E c \in Clients : Reply(c)
    BY <2>2, KnownStep, BackendStep, EndBatchStep, ReplyStep
  <2>3. CASE Raise \/ Stop \/ \E f \in Families : NoDescriptor(f)
    BY <2>3 DEF Raise, NoDescriptor, Crash, Stop, Open, OpenIn
  <2>4. CASE UNCHANGED sessions
    BY <2>4
  <2>5. \/ Select \/ Tick \/ Restart \/ StartAgain
        \/ \E f \in Families : HandleUnknown(f)
        \/ \E c \in Clients, d \in Datagrams : Arrive(c, d)
        \/ \E c \in Configs : SaveSettings(c)
        => UNCHANGED sessions
    BY DEF Select, Tick, Restart, StartAgain, Start, HandleUnknown, Arrive, SaveSettings
  <2> QED BY <2>1, <2>2, <2>3, <2>4, <2>5 DEF Next, ServerStep
<1> QED BY <1>1, EdgeInvInduction, PTL DEF Spec, Pinned

\* While no socket call fails on its own account, a usable session is given
\* up only at the limit, and then the one seen longest ago.
THEOREM EvictionIsLRU == MayFail = FALSE => (Spec => EvictsOldest)
<1> SUFFICES ASSUME MayFail = FALSE PROVE Spec => EvictsOldest
  OBVIOUS
<1> DEFINE Cause(c) ==
        \/ sessions[c].seen < now - TTL
        \/ sessions[c].inbox = "error"
        \/ up' # "up"
        \/ /\ Full
           /\ \A o \in Open \cap OpenIn(sessions') : sessions[c].seen <= sessions[o].seen
<1>1. EdgeInv /\ [Next]_vars => [\A c \in Open \ OpenIn(sessions') : Cause(c)]_vars
  <2> SUFFICES ASSUME TypeOK, TableBounded, Next, NEW c \in Open \ OpenIn(sessions')
               PROVE  Cause(c)
    BY DEF EdgeInv
  <2>1. CASE \E f \in Families : HandleNew(f)
    BY <2>1, NewStep DEF Oldest
  <2>2. CASE \/ \E f \in Families : HandleKnown(f)
             \/ \E d \in Clients : HandleBackend(d)
    BY <2>2, KnownStep, BackendStep
  <2>3. CASE EndBatch
    BY <2>3, EndBatchStep
  <2>4. CASE Raise \/ Stop \/ \E f \in Families : NoDescriptor(f)
    BY <2>4 DEF Raise, NoDescriptor, Crash, Stop
  <2>5. CASE UNCHANGED sessions \/ \E d \in Clients : Reply(d)
    BY <2>5, ReplyStep DEF Open
  <2>6. \/ Select \/ Tick \/ Restart \/ StartAgain
        \/ \E f \in Families : HandleUnknown(f)
        \/ \E d \in Clients, x \in Datagrams : Arrive(d, x)
        \/ \E x \in Configs : SaveSettings(x)
        => UNCHANGED sessions
    BY DEF Select, Tick, Restart, StartAgain, Start, HandleUnknown, Arrive, SaveSettings
  <2> QED BY <2>1, <2>2, <2>3, <2>4, <2>5, <2>6 DEF Next, ServerStep
<1> QED BY <1>1, EdgeInvInduction, PTL DEF Spec, EvictsOldest

\* What the server has loaded is what is stored, if it was loaded later.
LoadedInv == loadedAt > changedAt => loaded = config

\* From RELOAD after a change on, new sessions go where the stored settings
\* send them.
THEOREM SettingsInForce == Spec => SettingsTakeEffect
<1>1. Init => LoadedInv
  BY DEF Init, LoadedInv
<1>2. EdgeInv /\ LoadedInv /\ [Next]_vars => LoadedInv'
  <2> SUFFICES ASSUME TypeOK, LoadedInv, [Next]_vars PROVE LoadedInv'
    BY DEF EdgeInv
  <2>1. CASE \E f \in Families : Receive(f)
    BY <2>1 DEF Receive, InForce, LoadedInv
  <2>2. CASE Restart \/ StartAgain
    BY <2>2 DEF Restart, StartAgain, Start, LoadedInv
  <2>3. CASE \E c \in Configs : SaveSettings(c)
    BY <2>3, EdgeAssumption DEF SaveSettings, LoadedInv, TypeOK
  <2>4. CASE UNCHANGED <<config, changedAt, loaded, loadedAt>>
    BY <2>4 DEF LoadedInv
  <2>5. \/ Select \/ EndBatch \/ Tick \/ Stop \/ Raise \/ UNCHANGED vars
        \/ \E f \in Families : NoDescriptor(f)
        \/ \E c \in Clients : HandleBackend(c) \/ Reply(c)
        \/ \E c \in Clients, d \in Datagrams : Arrive(c, d)
        => UNCHANGED <<config, changedAt, loaded, loadedAt>>
    BY DEF vars, Select, EndBatch, Tick, Stop, Raise, NoDescriptor, Crash, HandleBackend,
           Reply, Arrive
  <2>6. (\E f \in Families : HandleKnown(f) \/ HandleUnknown(f) \/ HandleNew(f))
        => \E f \in Families : Receive(f)
    BY DEF HandleKnown, HandleUnknown, HandleNew
  <2> QED BY <2>1, <2>2, <2>3, <2>4, <2>5, <2>6 DEF Next, ServerStep
<1> DEFINE Follows == \A f \in Families :
             HandleNew(f) /\ now - changedAt >= RELOAD
               => Protocol(f) = Classify(Head(public[f]).data, config)
<1>3. EdgeInv /\ LoadedInv => Follows
  <2> SUFFICES ASSUME TypeOK, LoadedInv, now - changedAt >= RELOAD PROVE InForce = config
    BY DEF EdgeInv, Protocol
  <2>1. CASE ReloadDue
    BY <2>1 DEF InForce
  <2>2. CASE ~ReloadDue
    <3>1. loadedAt > changedAt
      BY <2>2, EdgeAssumption DEF ReloadDue, TypeOK
    <3> QED BY <2>2, <3>1 DEF InForce, LoadedInv
  <2> QED BY <2>1, <2>2
<1>4. EdgeInv /\ LoadedInv /\ [Next]_vars => [Follows]_vars
  BY <1>3
<1> QED BY <1>1, <1>2, <1>4, EdgeInvInduction, PTL DEF Spec, SettingsTakeEffect
===============================================================================
