---------------------------- MODULE XraySettings ----------------------------
(***************************************************************************)
(* The settings transactions of app/xray/settings_transactions.py: one row *)
(* of connection_settings (engine "xray") and the table                    *)
(* runtime_settings_transactions beside it, and what a caller may expect   *)
(* of each operation: here each is one step.  The code runs several        *)
(* statements for most of them, with other callers in between; they are in *)
(* XraySettingsSQL, which says when these promises are kept.               *)
(*                                                                         *)
(* A settings value (host, port and config_json together) is an element of *)
(* Configs.  Rows are numbered by the AUTOINCREMENT key, and MaxTx bounds  *)
(* how many are ever inserted.                                             *)
(***************************************************************************)
EXTENDS Integers

CONSTANTS Configs,   \* the values the settings row can hold
          MaxTx      \* bound: transactions ever begun

ASSUME TxAssumption == MaxTx \in Nat

VARIABLES settings,  \* the connection_settings row of the engine
          tx,        \* the rows of runtime_settings_transactions
          nextId     \* the key the next INSERT receives

settingsVars == <<settings, tx, nextId>>

Ids == 1..MaxTx
Closed == {"applied", "rolled_back", "rolled_back_stale"}
Rows == [previous : Configs, candidate : Configs,
         status : {"unused", "pending"} \cup Closed]

PendingIds == {i \in Ids : tx[i].status = "pending"}

\* pending(): the newest pending row, 0 for None.
Pending ==
  IF PendingIds = {} THEN 0
  ELSE CHOOSE i \in PendingIds : \A j \in PendingIds : j <= i

\* What client links show: exports.py takes the snapshot of pending().
Published == IF PendingIds = {} THEN settings ELSE tx[Pending].previous

Oldest(ids) == CHOOSE i \in ids : \A j \in ids : i <= j

\* The settings a begin finds once _restore_stale_pending has run.
Found == IF PendingIds = {} THEN settings ELSE tx[Oldest(PendingIds)].previous

TxInit ==
  /\ settings \in Configs
  /\ tx = [i \in Ids |-> [previous |-> settings, candidate |-> settings,
                          status |-> "unused"]]
  /\ nextId = 1

-----------------------------------------------------------------------------
\* What the operations promise.

Begin(c) ==
  /\ nextId \in Ids
  /\ tx' = [i \in Ids |->
              IF i = nextId
              THEN [previous |-> Found, candidate |-> c, status |-> "pending"]
              ELSE IF tx[i].status = "pending"
                   THEN [tx[i] EXCEPT !.status = "rolled_back_stale"]
                   ELSE tx[i]]
  /\ settings' = c
  /\ nextId' = nextId + 1

\* rollback(id): False, and nothing written, unless the row is pending.
Rollback(i) ==
  /\ IF i \in PendingIds
     THEN /\ settings' = tx[i].previous
          /\ tx' = [tx EXCEPT ![i].status = "rolled_back"]
     ELSE UNCHANGED <<settings, tx>>
  /\ UNCHANGED nextId

\* commit(id), one conditional UPDATE: the settings already hold the candidate.
Commit(i) ==
  /\ tx' = IF i \in PendingIds THEN [tx EXCEPT ![i].status = "applied"] ELSE tx
  /\ UNCHANGED <<settings, nextId>>

UpdateCandidate(i, c) ==
  /\ IF i \in PendingIds
     THEN /\ settings' = c
          /\ tx' = [tx EXCEPT ![i].candidate = c]
     ELSE UNCHANGED <<settings, tx>>
  /\ UNCHANGED nextId

\* update_connection_settings, one UPDATE without any transaction.
DirectUpdate(c) ==
  /\ settings' = c
  /\ UNCHANGED <<tx, nextId>>

TxNext ==
  \/ \E c \in Configs : Begin(c)
  \/ \E i \in 1..(nextId - 1) : Rollback(i)
  \/ \E i \in 1..(nextId - 1) : Commit(i)
  \/ \E i \in 1..(nextId - 1), c \in Configs : UpdateCandidate(i, c)
  \/ \E c \in Configs : DirectUpdate(c)

TxSpec == TxInit /\ [][TxNext]_settingsVars

-----------------------------------------------------------------------------
\* The table holds well-formed rows, and the rows used are exactly those
\* below the next key.
TxTypeOK ==
  /\ settings \in Configs
  /\ tx \in [Ids -> Rows]
  /\ nextId \in 1..(MaxTx + 1)
  /\ \A i \in Ids : tx[i].status = "unused" <=> i >= nextId

\* At most one transaction is open, and it is the one begun last: a begin
\* closes the ones a crashed request left behind before it opens its own.
OnePending == \A i \in PendingIds : i = nextId - 1

\* A transaction closes once: an applied one is never reported rolled back
\* later (nor the reverse), and its rollback snapshot never changes.
ClosedForGood ==
  [][\A i \in Ids :
        /\ tx[i].status \in Closed => tx'[i] = tx[i]
        /\ i \in PendingIds => tx'[i].previous = tx[i].previous]_settingsVars
=============================================================================
