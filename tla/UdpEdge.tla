------------------------------- MODULE UdpEdge -------------------------------
(***************************************************************************)
(* The UDP/443 dispatcher of app/udp_edge/server.py: one thread over a     *)
(* selector.  A first datagram is classified and pins its sender to a      *)
(* backend; later ones follow the session until it is closed.              *)
(*                                                                         *)
(* A client is a session key (family, address, port).  A datagram is the   *)
(* set of signatures of app/udp_edge/classifier.py it matches; one in the  *)
(* middle of a QUIC connection matches none.  A configuration is the part  *)
(* of EdgeClassifierConfig the classification branches on.                 *)
(***************************************************************************)
EXTENDS Integers, Sequences, FiniteSets

CONSTANTS Clients,      \* session keys
          Family,       \* [Clients -> Families]
          MaxSessions,  \* MAX_SESSIONS
          Descriptors,  \* backend sockets the process may have open
          TTL,          \* SESSION_TTL, in clock units
          RELOAD,       \* the 5.0 of _reload_config_if_needed
          Datagrams,    \* the datagrams clients send
          Configs,      \* settings the panel may store
          MayFail,      \* whether sends, socket creation and reloads may fail
          MayStop,      \* whether the service is ever stopped
          MaxTime,      \* bound: last clock value
          MaxSent       \* bound: datagrams clients ever send

Families == {"v4", "v6"}
Protocols == {"awg31", "hysteria2", "tuic"}
Signatures == {"awg", "obfuscated", "quic"}

ASSUME EdgeAssumption ==
  /\ IsFiniteSet(Clients)
  /\ Family \in [Clients -> Families]
  /\ MaxSessions \in Nat \ {0} /\ Descriptors \in Nat
  /\ TTL \in Nat /\ RELOAD \in Nat /\ MaxTime \in Nat /\ MaxSent \in Nat
  /\ Datagrams \subseteq SUBSET Signatures
  /\ Configs \subseteq [awg : BOOLEAN, hysteria : BOOLEAN, marked : BOOLEAN, tuic : BOOLEAN]
  /\ MayFail \in BOOLEAN /\ MayStop \in BOOLEAN

VARIABLES up,         \* "up", "stopping", "down" or "crashed"
          sessions,   \* the session of each client, or NoSession
          ready,      \* events of the current select() not handled yet
          batch,      \* whether the loop is inside such a batch
          public,     \* datagrams waiting on each public socket
          config,     \* the stored settings, and when they last changed
          changedAt,
          loaded,     \* the settings the server has loaded, and when
          loadedAt,
          now,
          sent        \* datagrams sent so far, for the bound

vars == <<up, sessions, ready, batch, public, config, changedAt, loaded, loadedAt, now, sent>>

NoSession == [protocol |-> "none"]
Session == [protocol : Protocols, seen : 0..MaxTime, inbox : {"none", "data", "error"}]
NoEvents == [public |-> {}, backend |-> {}]

OpenIn(table) == {c \in Clients : table[c] # NoSession}
Open == OpenIn(sessions)

\* classify_initial_datagram; "none" for None.
Classify(d, cfg) ==
  IF "awg" \in d /\ cfg.awg THEN "awg31"
  ELSE IF cfg.hysteria /\ cfg.marked /\ "obfuscated" \in d THEN "hysteria2"
  ELSE IF cfg.tuic /\ "quic" \in d /\ (~cfg.hysteria \/ cfg.marked) THEN "tuic"
  ELSE IF cfg.hysteria /\ ~cfg.tuic /\ "quic" \in d THEN "hysteria2"
  ELSE "none"

Init ==
  /\ up = "up" /\ batch = FALSE /\ ready = NoEvents
  /\ sessions = [c \in Clients |-> NoSession]
  /\ public = [f \in Families |-> <<>>]
  /\ config \in Configs /\ loaded = config
  /\ changedAt = 0 /\ loadedAt = 0 /\ now = 0 /\ sent = 0

-----------------------------------------------------------------------------
\* The loop.

Running == up \in {"up", "stopping"}

\* select(): level-triggered, every socket with something to read.
Select ==
  /\ Running /\ ~batch
  /\ ready' = [public |-> {f \in Families : public[f] # <<>>},
               backend |-> {c \in Open : sessions[c].inbox # "none"}]
  /\ batch' = TRUE
  /\ UNCHANGED <<up, sessions, public, config, changedAt, loaded, loadedAt, now, sent>>

\* Faulty variant: the reload is one unit late.
ReloadDueLate == now - loadedAt > RELOAD

\* Settings in force once _reload_config_if_needed has run.
ReloadDue == now - loadedAt >= RELOAD
InForce == IF ReloadDue THEN config ELSE loaded

\* Faulty variant: the event is not consumed.
ReceiveKeepingEvent(f) ==
  /\ Running /\ f \in ready.public
  /\ ready' = ready
  /\ public' = [public EXCEPT ![f] = Tail(@)]
  /\ loaded' = InForce
  /\ loadedAt' = IF ReloadDue THEN now ELSE loadedAt
  /\ UNCHANGED <<up, batch, config, changedAt, now, sent>>

\* recvfrom of one datagram, and the reload.
Receive(f) ==
  /\ Running /\ f \in ready.public
  /\ ready' = [ready EXCEPT !.public = @ \ {f}]
  /\ public' = [public EXCEPT ![f] = Tail(@)]
  /\ loaded' = InForce
  /\ loadedAt' = IF ReloadDue THEN now ELSE loadedAt
  /\ UNCHANGED <<up, batch, config, changedAt, now, sent>>

Sender(f) == Head(public[f]).client
Protocol(f) == Classify(Head(public[f]).data, InForce)

\* What send() leaves of a session: it is seen now, or closed because send()
\* raised (a pending ICMP error of the backend, a full buffer).
Sent(session) ==
  (IF session.inbox # "error" THEN {[session EXCEPT !.seen = now]} ELSE {})
  \cup (IF session.inbox = "error" \/ MayFail THEN {NoSession} ELSE {})

\* Faulty variant: an open session is classified again.
HandleKnownAgain(f) ==
  /\ Receive(f)
  /\ Sender(f) \in Open
  /\ \E s \in Sent(sessions[Sender(f)]) :
       sessions' = [sessions EXCEPT ![Sender(f)] =
         IF s # NoSession /\ Protocol(f) # "none" THEN [s EXCEPT !.protocol = Protocol(f)] ELSE s]

HandleKnown(f) ==
  /\ Receive(f)
  /\ Sender(f) \in Open
  /\ \E s \in Sent(sessions[Sender(f)]) : sessions' = [sessions EXCEPT ![Sender(f)] = s]

\* Faulty variant: an unknown datagram is left in the queue.
HandleUnknownKept(f) ==
  /\ Running /\ f \in ready.public
  /\ Sender(f) \notin Open /\ Protocol(f) = "none"
  /\ ready' = [ready EXCEPT !.public = @ \ {f}]
  /\ UNCHANGED <<up, sessions, batch, public, config, changedAt, loaded, loadedAt, now, sent>>

HandleUnknown(f) ==
  /\ Receive(f)
  /\ Sender(f) \notin Open /\ Protocol(f) = "none"
  /\ UNCHANGED sessions

\* Faulty variant: the session used last makes room.
Newest == {c \in Open : \A o \in Open : sessions[c].seen >= sessions[o].seen}
\* _new_session: at the limit the session seen longest ago makes room.
Oldest == {c \in Open : \A o \in Open : sessions[c].seen <= sessions[o].seen}
\* Faulty variant: the table may exceed its limit by one.
FullLate == Cardinality(Open) > MaxSessions
Full == Cardinality(Open) >= MaxSessions
Rooms == IF Full THEN {[sessions EXCEPT ![c] = NoSession] : c \in Oldest} ELSE {sessions}

HandleNew(f) ==
  /\ Receive(f)
  /\ Sender(f) \notin Open /\ Protocol(f) # "none"
  /\ \E room \in Rooms,
        s \in Sent([protocol |-> Protocol(f), seen |-> now, inbox |-> "none"]) :
       /\ Cardinality(OpenIn(room)) < Descriptors
       /\ sessions' = [room EXCEPT ![Sender(f)] = s]

\* Exceptions nobody catches end the process and everything it holds.
Crash ==
  /\ up' = "crashed"
  /\ sessions' = [c \in Clients |-> NoSession]
  /\ ready' = NoEvents /\ batch' = FALSE
  /\ public' = [f \in Families |-> <<>>]
  /\ UNCHANGED <<config, changedAt, loaded, loadedAt, now, sent>>

\* socket.socket() finds no descriptor left, before MAX_SESSIONS is reached.
NoDescriptor(f) ==
  /\ Running /\ f \in ready.public
  /\ Sender(f) \notin Open /\ Protocol(f) # "none"
  /\ \E room \in Rooms : Cardinality(OpenIn(room)) >= Descriptors
  /\ Crash

\* Loading the settings, connect() or writing the status file raises.
Raise == Running /\ MayFail /\ Crash

\* _handle_backend: an event whose session is gone, or whose socket has
\* nothing, is skipped; a reply is relayed; recv() or sendto() failing closes
\* the session.
Waiting(c) == IF c \in Open THEN sessions[c].inbox ELSE "none"

HandleBackend(c) ==
  /\ Running /\ c \in ready.backend
  /\ ready' = [ready EXCEPT !.backend = @ \ {c}]
  /\ \/ Waiting(c) = "none" /\ UNCHANGED sessions
     \/ /\ Waiting(c) = "data"
        /\ sessions' = [sessions EXCEPT ![c] = [@ EXCEPT !.seen = now, !.inbox = "none"]]
     \/ /\ Waiting(c) = "error" \/ (MayFail /\ Waiting(c) = "data")
        /\ sessions' = [sessions EXCEPT ![c] = NoSession]
  /\ UNCHANGED <<up, batch, public, config, changedAt, loaded, loadedAt, now, sent>>

\* The batch is done: _expire, and on "stopping" the shutdown of run().
Expired(c) == sessions[c].seen < now - TTL

EndBatch ==
  /\ Running /\ ready = NoEvents
  /\ batch \/ up = "stopping"
  /\ batch' = FALSE
  /\ sessions' = [c \in Clients |->
       IF c \in Open /\ ~Expired(c) /\ up = "up" THEN sessions[c] ELSE NoSession]
  /\ up' = IF up = "up" THEN "up" ELSE "down"
  /\ public' = IF up = "up" THEN public ELSE [f \in Families |-> <<>>]
  /\ UNCHANGED <<ready, config, changedAt, loaded, loadedAt, now, sent>>

-----------------------------------------------------------------------------
\* Service manager, clients, backends, panel and clock.

\* SIGTERM: run() leaves the loop after the batch at hand, after the one
\* select() is waiting for, or at once when it comes between two of them.
Stop ==
  /\ MayStop /\ up = "up"
  /\ up' = "stopping"
  /\ UNCHANGED <<sessions, ready, batch, public, config, changedAt, loaded, loadedAt, now, sent>>

\* Restart=on-failure for a crash, the operator for a stop.
Start ==
  /\ up' = "up"
  /\ loaded' = config /\ loadedAt' = now
  /\ UNCHANGED <<sessions, ready, batch, public, config, changedAt, now, sent>>

Restart == up = "crashed" /\ Start
StartAgain == up = "down" /\ Start

Arrive(c, d) ==
  /\ Running /\ sent < MaxSent
  /\ public' = [public EXCEPT ![Family[c]] = Append(@, [client |-> c, data |-> d])]
  /\ sent' = sent + 1
  /\ UNCHANGED <<up, sessions, ready, batch, config, changedAt, loaded, loadedAt, now>>

\* A backend answers, or is not listening (ICMP port unreachable).
Reply(c) ==
  /\ c \in Open /\ sessions[c].inbox = "none"
  /\ \E x \in {"data", "error"} : sessions' = [sessions EXCEPT ![c].inbox = x]
  /\ UNCHANGED <<up, ready, batch, public, config, changedAt, loaded, loadedAt, now, sent>>

SaveSettings(c) ==
  /\ c # config
  /\ config' = c /\ changedAt' = now
  /\ UNCHANGED <<up, sessions, ready, batch, public, loaded, loadedAt, now, sent>>

Tick ==
  /\ now < MaxTime
  /\ now' = now + 1
  /\ UNCHANGED <<up, sessions, ready, batch, public, config, changedAt, loaded, loadedAt, sent>>

ServerStep ==
  \/ Select \/ EndBatch
  \/ \E f \in Families : HandleKnown(f) \/ HandleUnknown(f) \/ HandleNew(f) \/ NoDescriptor(f)
  \/ \E c \in Clients : HandleBackend(c)

Next ==
  \/ ServerStep \/ Raise \/ Stop \/ Restart \/ StartAgain
  \/ \E c \in Clients, d \in Datagrams : Arrive(c, d)
  \/ \E c \in Clients : Reply(c)
  \/ \E c \in Configs : SaveSettings(c)
  \/ Tick

Spec == Init /\ [][Next]_vars

\* The thread keeps running, systemd restarts it after a failure; a stopped
\* service stays stopped.
FairSpec == Spec /\ WF_vars(ServerStep) /\ WF_vars(Restart)

-----------------------------------------------------------------------------
Packet == [client : Clients, data : Datagrams]

\* Values have their types; a batch is open only while the process lives,
\* which holds neither sessions nor queued datagrams when it does not.
TypeOK ==
  /\ up \in {"up", "stopping", "down", "crashed"} /\ batch \in BOOLEAN
  /\ sessions \in [Clients -> Session \cup {NoSession}]
  /\ ready \in [public : SUBSET Families, backend : SUBSET Clients]
  /\ public \in [Families -> Seq(Packet)]
  /\ config \in Configs /\ loaded \in Configs
  /\ now \in 0..MaxTime /\ changedAt \in 0..now /\ loadedAt \in 0..now
  /\ sent \in 0..MaxSent
  /\ ~Running => ~batch /\ Open = {}
  /\ ~batch => ready = NoEvents
  /\ \A f \in ready.public : public[f] # <<>>

\* The table never holds more than MAX_SESSIONS sessions.
TableBounded == Cardinality(Open) <= MaxSessions

\* A session never changes backend, whatever settings are saved or loaded.
Pinned ==
  [][\A c \in Open \cap OpenIn(sessions') : sessions'[c].protocol = sessions[c].protocol]_vars

\* A session that can still be used goes only to make room, and then no
\* session seen earlier survives it.
EvictsOldest ==
  [][\A c \in Open \ OpenIn(sessions') :
        \/ sessions[c].seen < now - TTL
        \/ sessions[c].inbox = "error"
        \/ up' # "up"
        \/ /\ Full
           /\ \A o \in Open \cap OpenIn(sessions') : sessions[c].seen <= sessions[o].seen]_vars

\* Settings stored RELOAD ago or longer decide where a new session goes.
SettingsTakeEffect ==
  [][\A f \in Families :
        HandleNew(f) /\ now - changedAt >= RELOAD
          => Protocol(f) = Classify(Head(public[f]).data, config)]_vars

\* Every datagram that arrived is handled in the end (or lost in a crash).
QueuesDrain == \A f \in Families : []<>(public[f] = <<>>)
=============================================================================
