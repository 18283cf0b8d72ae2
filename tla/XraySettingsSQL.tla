-------------------------- MODULE XraySettingsSQL --------------------------
(***************************************************************************)
(* The operations of XraySettings as the statements SQLite runs for them.  *)
(* connect() opens the database in sqlite3's default mode: a SELECT runs   *)
(* on its own and releases its lock at once, and the first UPDATE or       *)
(* INSERT opens the write transaction that the with-block commits.  What   *)
(* a session has read before its first write may therefore be stale.       *)
(***************************************************************************)
EXTENDS XraySettings

CONSTANT Sessions   \* concurrent callers: panel requests, sg-hostd, jobs

VARIABLES call,     \* where each session stands, and what it has read
          crossed   \* history: the transactions an overtaken call wrote over
                    \* or wrote beside while they were open

sqlVars == <<settings, tx, nextId, call, crossed>>

Idle == [at |-> "idle"]

SqlInit == TxInit /\ call = [s \in Sessions |-> Idle] /\ crossed = {}

\* What the session has read no longer holds when it comes to write.
Overtaken(s) ==
  \/ call[s].at = "restore" /\ call[s].open # PendingIds
  \/ call[s].at = "insert" /\ (PendingIds # {} \/ call[s].previous # settings)
  \/ call[s].at \in {"undo", "refine"} /\ call[s].id \notin PendingIds

\* The call returns after its write.
Return(s) ==
  /\ call' = [call EXCEPT ![s] = Idle]
  /\ crossed' = IF ~Overtaken(s) THEN crossed
                ELSE crossed \cup PendingIds \cup PendingIds'
                       \cup (IF call[s].at = "undo" THEN {call[s].id} ELSE {})

-----------------------------------------------------------------------------
\* Faulty variants are named after what they get wrong and stand before the
\* operation they replace; nothing refers to them.  In this one the snapshot
\* is the settings as they stand, a candidate left behind included.
SelectOpenOverCandidate(s, c) ==
  /\ call[s] = Idle
  /\ call' = [call EXCEPT ![s] =
       IF PendingIds = {} THEN [at |-> "current", candidate |-> c]
       ELSE [at |-> "restore", candidate |-> c, open |-> PendingIds, previous |-> settings]]
  /\ UNCHANGED <<settingsVars, crossed>>

\* begin(c): SELECT the open rows; with some, the restoring UPDATE is next,
\* without, the current settings are SELECTed before the INSERT.
SelectOpen(s, c) ==
  /\ call[s] = Idle
  /\ call' = [call EXCEPT ![s] =
       IF PendingIds = {} THEN [at |-> "current", candidate |-> c]
       ELSE [at |-> "restore", candidate |-> c, open |-> PendingIds, previous |-> Found]]
  /\ UNCHANGED <<settingsVars, crossed>>

SelectCurrent(s) ==
  /\ call[s].at = "current"
  /\ call' = [call EXCEPT ![s] = [at |-> "insert", candidate |-> @.candidate,
                                  previous |-> settings]]
  /\ UNCHANGED <<settingsVars, crossed>>

\* The row a begin inserts.
NewRow(s) == [previous |-> call[s].previous, candidate |-> call[s].candidate,
              status |-> "pending"]

\* Faulty variant: the key is not advanced.
WriteBeginReusingKey(s) ==
  /\ call[s].at \in {"restore", "insert"}
  /\ nextId \in Ids
  /\ tx' = [tx EXCEPT ![nextId] = NewRow(s)]
  /\ settings' = call[s].candidate
  /\ Return(s)
  /\ UNCHANGED nextId

\* Faulty variant: only the rows the SELECT returned are closed.
WriteBeginClosingRead(s) ==
  /\ call[s].at \in {"restore", "insert"}
  /\ nextId \in Ids
  /\ tx' = [i \in Ids |->
       IF i = nextId THEN NewRow(s)
       ELSE IF call[s].at = "restore" /\ i \in PendingIds /\ i \in call[s].open
            THEN [tx[i] EXCEPT !.status = "rolled_back_stale"]
            ELSE tx[i]]
  /\ settings' = call[s].candidate
  /\ nextId' = nextId + 1
  /\ Return(s)

\* Faulty variant: the closing UPDATE forgets the status.
WriteBeginClosingAll(s) ==
  /\ call[s].at \in {"restore", "insert"}
  /\ nextId \in Ids
  /\ tx' = [i \in Ids |->
       IF i = nextId THEN NewRow(s)
       ELSE IF call[s].at = "restore" /\ i < nextId
            THEN [tx[i] EXCEPT !.status = "rolled_back_stale"]
            ELSE tx[i]]
  /\ settings' = call[s].candidate
  /\ nextId' = nextId + 1
  /\ Return(s)

\* The write transaction of begin: closes the open rows, whichever they are
\* by now, but only on the path that found some.
WriteBegin(s) ==
  /\ call[s].at \in {"restore", "insert"}
  /\ nextId \in Ids
  /\ tx' = [i \in Ids |->
       IF i = nextId THEN NewRow(s)
       ELSE IF call[s].at = "restore" /\ i \in PendingIds
            THEN [tx[i] EXCEPT !.status = "rolled_back_stale"]
            ELSE tx[i]]
  /\ settings' = call[s].candidate
  /\ nextId' = nextId + 1
  /\ Return(s)

\* rollback(i): the status is checked by a SELECT (False, unless pending), the
\* UPDATE is keyed by id alone.
SelectRow(s, i) ==
  /\ call[s] = Idle /\ i \in PendingIds
  /\ call' = [call EXCEPT ![s] = [at |-> "undo", id |-> i]]
  /\ UNCHANGED <<settingsVars, crossed>>

WriteRollback(s) ==
  /\ call[s].at = "undo"
  /\ settings' = tx[call[s].id].previous
  /\ tx' = [tx EXCEPT ![call[s].id].status = "rolled_back"]
  /\ Return(s)
  /\ UNCHANGED nextId

\* commit(i) is one conditional UPDATE.
WriteCommit(s, i) == call[s] = Idle /\ Commit(i) /\ UNCHANGED <<call, crossed>>

\* update_candidate_config(i, c): the row is rewritten only while pending,
\* the settings unconditionally.  (Host and port, which it leaves alone, are
\* those of the pending row unless it is overtaken.)
SelectForRefine(s, i, c) ==
  /\ call[s] = Idle /\ i \in PendingIds
  /\ call' = [call EXCEPT ![s] = [at |-> "refine", id |-> i, candidate |-> c]]
  /\ UNCHANGED <<settingsVars, crossed>>

WriteRefine(s) ==
  /\ call[s].at = "refine"
  /\ tx' = IF call[s].id \in PendingIds
           THEN [tx EXCEPT ![call[s].id].candidate = call[s].candidate] ELSE tx
  /\ settings' = call[s].candidate
  /\ Return(s)
  /\ UNCHANGED nextId

WriteDirect(s, c) == call[s] = Idle /\ DirectUpdate(c) /\ UNCHANGED <<call, crossed>>

\* A process dies between its reads and its write: nothing was written.
Crash(s) ==
  /\ call[s] # Idle
  /\ call' = [call EXCEPT ![s] = Idle]
  /\ UNCHANGED <<settingsVars, crossed>>

SessionStep(s) ==
  \/ \E c \in Configs : SelectOpen(s, c) \/ WriteDirect(s, c)
  \/ SelectCurrent(s) \/ WriteBegin(s) \/ WriteRollback(s) \/ WriteRefine(s)
  \/ \E i \in Ids : SelectRow(s, i) \/ WriteCommit(s, i)
  \/ \E i \in Ids, c \in Configs : SelectForRefine(s, i, c)
  \/ Crash(s)

SqlNext == \E s \in Sessions : SessionStep(s)

SqlSpec == SqlInit /\ [][SqlNext]_sqlVars

-----------------------------------------------------------------------------
CallStates ==
  {Idle}
  \cup [at : {"current"}, candidate : Configs]
  \cup [at : {"restore"}, candidate : Configs, open : SUBSET Ids, previous : Configs]
  \cup [at : {"insert"}, candidate : Configs, previous : Configs]
  \cup [at : {"undo"}, id : Ids]
  \cup [at : {"refine"}, id : Ids, candidate : Configs]

\* Sessions hold only what their operation has read.
SqlTypeOK ==
  /\ TxTypeOK
  /\ call \in [Sessions -> CallStates]
  /\ crossed \subseteq Ids

\* A write is one step of XraySettings, the whole operation at once, unless
\* what its session has read was overtaken: races of statements that matter
\* are the ones Overtaken names.
FreshCallsAreAtomic ==
  [][TxNext \/ \E s \in Sessions : Overtaken(s) /\ call'[s] = Idle]_settingsVars

\* _restore_stale_pending is there to leave one transaction open at most: a
\* second one is open beside it only because a begin that found none open was
\* overtaken by another.  The begin that finds both closes both.
TwoOpenNeedBlindBegin ==
  [][\A i, j \in PendingIds' :
       i # j => \/ {i, j} \subseteq PendingIds
                \/ \E s \in Sessions : /\ call[s].at = "insert" /\ PendingIds # {}
                                       /\ call'[s] = Idle]_sqlVars

\* A closed transaction keeps its candidate, its snapshot and its verdict,
\* but for a rollback that read it while it was open: the UPDATE then makes
\* an applied (or stale) one "rolled_back".  Nothing opens it again.
ClosedRowsKeepOutcome ==
  [][\A i \in 1..(nextId - 1) :
       /\ tx'[i].previous = tx[i].previous
       /\ tx[i].status \in Closed /\ tx'[i] # tx[i] =>
            /\ tx'[i] = [tx[i] EXCEPT !.status = "rolled_back"]
            /\ \E s \in Sessions : call[s] = [at |-> "undo", id |-> i] /\ call'[s] = Idle
            /\ i \in crossed']_sqlVars

\* What client links publish moves only when a commit closes a transaction,
\* or by an edit while none is open.  Begin (stale restore included),
\* rollback and refinement of a candidate are invisible to clients, unless an
\* overtaken call has written beside the open transaction.
PublishedMovesOnlyByCommit ==
  [][Published' # Published =>
        \/ \E i \in PendingIds : tx'[i].status = "applied"
        \/ PendingIds = {} /\ PendingIds' = {}
        \/ (PendingIds \cup PendingIds') \cap crossed' # {}]_sqlVars

\* With one caller at a time the statements of settings_transactions.py
\* implement the one-step operations of XraySettings.
ImplementsAtomicOperations == TxSpec
=============================================================================
