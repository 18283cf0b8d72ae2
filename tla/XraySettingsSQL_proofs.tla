----------------------- MODULE XraySettingsSQL_proofs -----------------------
(***************************************************************************)
(* What the statements of settings_transactions.py guarantee.  For any     *)
(* number of callers: the exact ways in which an overtaken call leaves two *)
(* rows open, changes a verdict or moves what links publish.  With one     *)
(* caller at a time: the one-step operations of XraySettings.              *)
(***************************************************************************)
EXTENDS XraySettingsSQL, XraySettings_proofs, WellFoundedInduction

-----------------------------------------------------------------------------
\* What a session holds was read from rows that had been begun, and the
\* snapshot a begin restores is that of the oldest row it found open.
ReadsOfBegunRows ==
  \A s \in Sessions :
    /\ call[s].at \in {"undo", "refine"} => call[s].id \in 1..(nextId - 1)
    /\ call[s].at = "restore" =>
         /\ call[s].open \subseteq 1..(nextId - 1) /\ call[s].open # {}
         /\ call[s].previous = tx[Oldest(call[s].open)].previous

\* Two open rows stand there because a call was overtaken.
TwoOpenWereCrossed == \A i, j \in PendingIds : i # j => {i, j} \subseteq crossed

SqlInv == SqlTypeOK /\ ReadsOfBegunRows /\ TwoOpenWereCrossed

\* A set of row keys that is not empty has a least one.
LEMMA LeastPending ==
  ASSUME NEW T, T \subseteq Nat, T # {}
  PROVE  \E i \in T : \A j \in T : i <= j
<1>1. PICK i \in T : \A j \in T : ~ (<<j, i>> \in OpToRel(<, Nat))
  BY WFMin, NatLessThanWellFounded
<1>2. ASSUME NEW j \in T PROVE i <= j
  <2>1. i \in Nat /\ j \in Nat /\ <<j, i>> \in Nat \X Nat
    OBVIOUS
  <2>2. ~ (j < i)
    BY <1>1, <2>1 DEF OpToRel
  <2> QED BY <2>1, <2>2
<1> QED BY <1>2

LEMMA CallAt ==
  ASSUME SqlInv, NEW s \in Sessions
  PROVE  /\ call[s].at = "current" => call[s] \in [at : {"current"}, candidate : Configs]
         /\ call[s].at = "restore" =>
              call[s] \in [at : {"restore"}, candidate : Configs, open : SUBSET Ids,
                          previous : Configs]
         /\ call[s].at = "insert" =>
              call[s] \in [at : {"insert"}, candidate : Configs, previous : Configs]
         /\ call[s].at = "undo" => call[s] \in [at : {"undo"}, id : Ids]
         /\ call[s].at = "refine" => call[s] \in [at : {"refine"}, id : Ids, candidate : Configs]
BY DEF SqlInv, SqlTypeOK, CallStates, Idle

LEMMA UsedRows ==
  ASSUME SqlInv, NEW i \in 1..(nextId - 1)
  PROVE  i \in Ids /\ tx[i] \in Rows
BY TxAssumption DEF SqlInv, SqlTypeOK, TxTypeOK, Ids

\* The rows begun are those below the next key; open rows are among them.
LEMMA BegunRows ==
  ASSUME SqlInv
  PROVE  /\ nextId \in Int
         /\ \A i : i \in 1..(nextId - 1) <=> i \in Ids /\ i < nextId
         /\ PendingIds \subseteq 1..(nextId - 1)
         /\ PendingIds \subseteq Nat
BY TxAssumption DEF SqlInv, SqlTypeOK, TxTypeOK, PendingIds, Ids

LEMMA OldestIn ==
  ASSUME NEW T, T \subseteq Nat, T # {}
  PROVE  Oldest(T) \in T
BY LeastPending DEF Oldest

\* The newest open row is one of the open rows.
LEMMA NewestIn ==
  ASSUME SqlInv, PendingIds # {}
  PROVE  Pending \in PendingIds
<1> DEFINE Back == {n \in Nat : nextId - n \in PendingIds}
<1>1. PICK i \in PendingIds : TRUE
  OBVIOUS
<1>2. nextId - i \in Nat /\ nextId - (nextId - i) = i
  BY <1>1, BegunRows
<1>3. Back \subseteq Nat /\ Back # {}
  BY <1>1, <1>2
<1> HIDE DEF Back
<1>4. PICK n \in Back : \A m \in Back : n <= m
  BY <1>3, LeastPending
<1> USE DEF Back
<1>5. nextId - n \in PendingIds
  BY <1>4
<1>6. ASSUME NEW j \in PendingIds PROVE j <= nextId - n
  <2>1. j \in 1..(nextId - 1) /\ nextId \in Int /\ n \in Nat
    BY <1>4, BegunRows
  <2>2. nextId - j \in Nat /\ nextId - (nextId - j) = j
    BY <2>1
  <2>3. nextId - j \in Back
    BY <2>2
  <2>4. n <= nextId - j
    BY <1>4, <2>3
  <2> QED BY <2>1, <2>4
<1> QED BY <1>5, <1>6 DEF Pending

LEMMA SqlInvInit == SqlInit => SqlInv
<1> SUFFICES ASSUME SqlInit PROVE SqlInv
  OBVIOUS
<1>1. TxTypeOK /\ PendingIds = {}
  BY TxInvInit DEF SqlInit, TxInv, TxInit, PendingIds
<1> QED BY <1>1
     DEF SqlInit, SqlInv, SqlTypeOK, ReadsOfBegunRows, TwoOpenWereCrossed, CallStates, Idle

\* What a step does to the rows begun before it: snapshots stay, a closed row
\* changes only by the write of a rollback, an open one is closed or refined.
RowsKept ==
  \A i \in 1..(nextId - 1) :
    /\ tx'[i].previous = tx[i].previous
    /\ tx[i].status \in Closed /\ tx'[i] # tx[i] =>
         /\ tx'[i] = [tx[i] EXCEPT !.status = "rolled_back"]
         /\ \E s \in Sessions : call[s] = [at |-> "undo", id |-> i] /\ call'[s] = Idle
         /\ i \in crossed'

\* A session that moves on to a well-typed state keeps what is known of the
\* others' reads, as rows and snapshots stay.
LEMMA CallMoves ==
  ASSUME SqlInv, NEW s \in Sessions, NEW st \in CallStates,
         call' = [call EXCEPT ![s] = st], nextId' \in {nextId, nextId + 1},
         \A i \in 1..(nextId - 1) : tx'[i].previous = tx[i].previous,
         st.at \in {"undo", "refine"} => st.id \in 1..(nextId' - 1),
         st.at = "restore" =>
            /\ st.open \subseteq 1..(nextId' - 1) /\ st.open # {}
            /\ st.previous = tx'[Oldest(st.open)].previous
  PROVE  call' \in [Sessions -> CallStates] /\ ReadsOfBegunRows'
<1>1. \A i \in 1..(nextId - 1) : i \in 1..(nextId' - 1)
  <2>1. nextId \in Int
    BY BegunRows
  <2>2. CASE nextId' = nextId
    BY <2>2
  <2>3. CASE nextId' = nextId + 1
    BY <2>1, <2>3
  <2> QED BY <2>2, <2>3
<1>2. call \in [Sessions -> CallStates]
  BY DEF SqlInv, SqlTypeOK
<1>3. ASSUME NEW t \in Sessions
      PROVE  /\ call'[t].at \in {"undo", "refine"} => call'[t].id \in 1..(nextId' - 1)
             /\ call'[t].at = "restore" =>
                  /\ call'[t].open \subseteq 1..(nextId' - 1) /\ call'[t].open # {}
                  /\ call'[t].previous = tx'[Oldest(call'[t].open)].previous
  <2>1. CASE t = s
    BY <1>2, <2>1
  <2>2. CASE t # s
    <3>1. call'[t] = call[t]
      BY <1>2, <2>2
    <3>2. call[t].at \in {"undo", "refine"} => call[t].id \in 1..(nextId - 1)
      BY DEF SqlInv, ReadsOfBegunRows
    <3>3. ASSUME call[t].at = "restore"
          PROVE  /\ call[t].open \subseteq 1..(nextId - 1) /\ call[t].open # {}
                 /\ call[t].previous = tx[Oldest(call[t].open)].previous
      BY <3>3 DEF SqlInv, ReadsOfBegunRows
    <3>4. ASSUME call[t].at = "restore"
          PROVE  call[t].previous = tx'[Oldest(call[t].open)].previous
      <4>1. call[t].open \subseteq Nat
        BY <3>3, <3>4, BegunRows
      <4>2. Oldest(call[t].open) \in 1..(nextId - 1)
        BY <3>3, <3>4, <4>1, OldestIn
      <4> QED BY <3>3, <3>4, <4>2
    <3> QED BY <1>1, <3>1, <3>2, <3>3, <3>4
  <2> QED BY <2>1, <2>2
<1> QED BY <1>2, <1>3 DEF ReadsOfBegunRows

\* The write of a call, as Return leaves the sessions and the history.
LEMMA Returned ==
  ASSUME SqlInv, NEW s \in Sessions, Return(s), TxTypeOK',
         nextId' \in {nextId, nextId + 1},
         \A i \in 1..(nextId - 1) : tx'[i].previous = tx[i].previous,
         \A i, j \in PendingIds' : i # j => {i, j} \subseteq PendingIds \/ Overtaken(s)
  PROVE  SqlInv'
<1>1. call' = [call EXCEPT ![s] = Idle] /\ call'[s] = Idle
  BY DEF Return, SqlInv, SqlTypeOK
<1>2. Idle \in CallStates /\ Idle.at = "idle"
  BY DEF Idle, CallStates
<1>3. call' \in [Sessions -> CallStates] /\ ReadsOfBegunRows'
  BY <1>1, <1>2, CallMoves
<1>4. PendingIds \subseteq Ids /\ PendingIds' \subseteq Ids /\ crossed \subseteq Ids
  BY DEF PendingIds, SqlInv, SqlTypeOK
<1>5. call[s].at = "undo" => call[s].id \in Ids
  BY CallAt
<1>6. /\ crossed \subseteq crossed' /\ crossed' \subseteq Ids
      /\ Overtaken(s) => PendingIds' \subseteq crossed'
  BY <1>4, <1>5 DEF Return
<1>7. TwoOpenWereCrossed'
  <2> SUFFICES ASSUME NEW i \in PendingIds', NEW j \in PendingIds', i # j
               PROVE  {i, j} \subseteq crossed'
    BY DEF TwoOpenWereCrossed
  <2>1. CASE {i, j} \subseteq PendingIds
    BY <1>6, <2>1 DEF SqlInv, TwoOpenWereCrossed
  <2>2. CASE Overtaken(s)
    BY <1>6, <2>2
  <2> QED BY <2>1, <2>2
<1> QED BY <1>3, <1>6, <1>7 DEF SqlInv, SqlTypeOK

\* What clients see may move only in these ways.
PublishedMoves ==
  Published' # Published =>
    \/ \E i \in PendingIds : tx'[i].status = "applied"
    \/ PendingIds = {} /\ PendingIds' = {}
    \/ (PendingIds \cup PendingIds') \cap crossed' # {}

\* How a second row comes to be open.
BlindBegin ==
  \A i, j \in PendingIds' :
    i # j => \/ {i, j} \subseteq PendingIds
             \/ \E s \in Sessions : /\ call[s].at = "insert" /\ PendingIds # {}
                                    /\ call'[s] = Idle

\* A write is the whole operation, or its call was overtaken.
FreshOrOvertaken == TxNext \/ \E s \in Sessions : Overtaken(s) /\ call'[s] = Idle

StepIsGood == SqlInv' /\ RowsKept /\ PublishedMoves /\ BlindBegin

LEMMA OneOpen ==
  ASSUME SqlInv, NEW i \in PendingIds, PendingIds \cap crossed = {}
  PROVE  /\ PendingIds = {i} /\ Pending = i
         /\ Published = tx[i].previous /\ Found = tx[i].previous
<1>1. PendingIds = {i}
  BY DEF SqlInv, TwoOpenWereCrossed
<1>2. i \in Nat
  BY BegunRows
<1> QED BY <1>1, <1>2, OnlyRow DEF Pending, Published, Found

\* What a begin finds when its read is fresh.
LEMMA FreshBegin ==
  ASSUME SqlInv, NEW s \in Sessions, call[s].at \in {"restore", "insert"}, ~Overtaken(s)
  PROVE  /\ call[s].previous = Found
         /\ call[s].at = "insert" => PendingIds = {}
         /\ call[s].at = "restore" => PendingIds # {}
<1>1. CASE call[s].at = "restore"
  <2>1. call[s].open = PendingIds
    BY <1>1 DEF Overtaken
  <2>2. call[s].open # {} /\ call[s].previous = tx[Oldest(call[s].open)].previous
    BY <1>1 DEF SqlInv, ReadsOfBegunRows
  <2> QED BY <1>1, <2>1, <2>2 DEF Found
<1>2. CASE call[s].at = "insert"
  BY <1>2 DEF Overtaken, Found
<1> QED BY <1>1, <1>2

LEMMA WriteBeginStep ==
  ASSUME SqlInv, NEW s \in Sessions, WriteBegin(s)
  PROVE  StepIsGood /\ FreshOrOvertaken
<1> DEFINE row == NewRow(s)
<1>1. row \in Rows /\ call[s].candidate \in Configs
  BY CallAt DEF WriteBegin, Rows, NewRow
<1>r. row.status = "pending" /\ row.previous = call[s].previous
  BY DEF NewRow
<1>d. tx' = [i \in Ids |->
              IF i = nextId THEN row
              ELSE IF call[s].at = "restore" /\ i \in PendingIds
                   THEN [tx[i] EXCEPT !.status = "rolled_back_stale"]
                   ELSE tx[i]]
  BY DEF WriteBegin
<1> HIDE DEF row
<1>2. /\ nextId \in Ids /\ settings' = call[s].candidate /\ nextId' = nextId + 1
      /\ call[s].at \in {"restore", "insert"} /\ Return(s)
  BY DEF WriteBegin
<1>3. /\ tx'[nextId] = row
      /\ \A i \in Ids : i # nextId =>
           tx'[i] = IF call[s].at = "restore" /\ i \in PendingIds
                    THEN [tx[i] EXCEPT !.status = "rolled_back_stale"] ELSE tx[i]
  BY <1>d, <1>2
<1>4. DOMAIN tx' = Ids /\ tx' = [i \in Ids |-> tx'[i]]
  BY <1>d
<1>5. TxTypeOK /\ \A i \in Ids : tx[i] \in Rows
  BY DEF SqlInv, SqlTypeOK, TxTypeOK
<1>6. \A i \in Ids : tx'[i] \in Rows
  <2> TAKE i \in Ids
  <2>1. \A x \in Rows : [x EXCEPT !.status = "rolled_back_stale"] \in Rows
    BY DEF Rows, Closed
  <2>2. CASE i = nextId
    BY <2>2, <1>1, <1>3
  <2>3. CASE i # nextId /\ call[s].at = "restore" /\ i \in PendingIds
    BY <2>1, <2>3, <1>3, <1>5
  <2>4. CASE i # nextId /\ ~(call[s].at = "restore" /\ i \in PendingIds)
    BY <2>4, <1>3, <1>5
  <2> QED BY <2>2, <2>3, <2>4
<1>7. tx' \in [Ids -> Rows]
  BY <1>4, <1>6
<1>8. \A i \in Ids : tx'[i].status = "unused" <=> i >= nextId'
  <2> TAKE i \in Ids
  <2>1. CASE i = nextId
    BY <2>1, <1>r, <1>2, <1>3, TxAssumption DEF Ids
  <2>2. CASE i # nextId
    <3>1. tx[i].status = "unused" <=> tx'[i].status = "unused"
      BY <2>2, <1>3, <1>5 DEF PendingIds, Rows
    <3>2. tx[i].status = "unused" <=> i >= nextId
      BY <1>5 DEF TxTypeOK
    <3> QED BY <2>2, <3>1, <3>2, <1>2, TxAssumption DEF Ids
  <2> QED BY <2>1, <2>2
<1>9. TxTypeOK'
  BY <1>1, <1>2, <1>7, <1>8, TxAssumption DEF TxTypeOK, Ids
<1>10. nextId \notin PendingIds
  BY <1>2, BegunRows
<1>11. ASSUME NEW i \in 1..(nextId - 1)
       PROVE  i \in Ids /\ i # nextId /\ tx'[i].previous = tx[i].previous
              /\ (tx[i].status \in Closed => tx'[i] = tx[i])
  <2>1. i \in Ids /\ i # nextId
    BY BegunRows
  <2> QED BY <2>1, <1>3, <1>5 DEF Rows, Closed, PendingIds
<1>12. RowsKept
  BY <1>11 DEF RowsKept
<1>13. PendingIds' = IF call[s].at = "restore" THEN {nextId} ELSE PendingIds \cup {nextId}
  <2>1. ASSUME NEW i \in Ids, i # nextId
        PROVE  tx'[i].status = "pending" <=> i \in PendingIds /\ call[s].at # "restore"
    BY <2>1, <1>3, <1>5 DEF PendingIds, Rows
  <2>2. tx'[nextId].status = "pending"
    BY <1>3, <1>r
  <2> QED BY <2>1, <2>2, <1>2 DEF PendingIds
<1>14. ASSUME NEW i \in PendingIds', NEW j \in PendingIds', i # j
       PROVE  {i, j} \subseteq PendingIds \/ (call[s].at = "insert" /\ PendingIds # {})
  BY <1>2, <1>13, <1>14
<1>15. SqlInv'
  <2>1. \A i, j \in PendingIds' : i # j => {i, j} \subseteq PendingIds \/ Overtaken(s)
    BY <1>14 DEF Overtaken
  <2> QED BY <1>2, <1>9, <1>11, <2>1, Returned
<1>16. call'[s] = Idle
  BY <1>2 DEF Return, SqlInv, SqlTypeOK
<1>17. BlindBegin
  BY <1>14, <1>16 DEF BlindBegin
<1>18. CASE Overtaken(s)
  <2>1. nextId \in PendingIds' /\ PendingIds' \subseteq crossed'
    BY <1>2, <1>13, <1>18 DEF Return
  <2> QED BY <1>12, <1>15, <1>16, <1>17, <1>18, <2>1
       DEF StepIsGood, PublishedMoves, FreshOrOvertaken
<1>19. CASE ~Overtaken(s)
  <2>1. /\ call[s].previous = Found
        /\ call[s].at = "insert" => PendingIds = {}
    BY <1>2, <1>19, FreshBegin
  <2>2. PendingIds' = {nextId}
    BY <1>2, <1>13, <2>1
  <2>3. Published' = Found
    <3>1. nextId \in Nat
      BY <1>2, TxAssumption DEF Ids
    <3>2. Pending' = nextId
      BY <2>2, <3>1, OnlyRow DEF Pending
    <3> QED BY <2>1, <2>2, <3>2, <1>3, <1>r DEF Published
  <2>4. Begin(call[s].candidate)
    <3>1. tx' = [i \in Ids |->
              IF i = nextId
              THEN [previous |-> Found, candidate |-> call[s].candidate, status |-> "pending"]
              ELSE IF tx[i].status = "pending"
                   THEN [tx[i] EXCEPT !.status = "rolled_back_stale"]
                   ELSE tx[i]]
      BY <1>2, <1>d, <2>1 DEF row, NewRow, PendingIds
    <3> QED BY <1>2, <3>1 DEF Begin
  <2>5. PublishedMoves
    <3>1. CASE PendingIds = {}
      BY <2>3, <3>1 DEF Found, Published, PublishedMoves
    <3>2. CASE PendingIds # {} /\ PendingIds \cap crossed = {}
      <4>1. PICK i \in PendingIds : TRUE
        BY <3>2
      <4>2. Published = Found
        BY <3>2, <4>1, OneOpen
      <4> QED BY <2>3, <4>2 DEF PublishedMoves
    <3>3. CASE PendingIds \cap crossed # {}
      <4>1. crossed \subseteq crossed'
        BY <1>2 DEF Return
      <4> QED BY <3>3, <4>1 DEF PublishedMoves
    <3> QED BY <3>1, <3>2, <3>3
  <2>6. FreshOrOvertaken
    BY <1>1, <2>4 DEF FreshOrOvertaken, TxNext
  <2> QED BY <1>12, <1>15, <1>17, <2>5, <2>6 DEF StepIsGood
<1> QED BY <1>18, <1>19

LEMMA WriteRollbackStep ==
  ASSUME SqlInv, NEW s \in Sessions, WriteRollback(s)
  PROVE  StepIsGood /\ FreshOrOvertaken
<1> DEFINE i == call[s].id
<1>1. i \in Ids /\ i \in 1..(nextId - 1) /\ call[s] = [at |-> "undo", id |-> i]
  BY CallAt DEF WriteRollback, SqlInv, ReadsOfBegunRows
<1>2. /\ tx \in [Ids -> Rows] /\ tx[i] \in Rows /\ tx[i].status # "unused"
      /\ settings \in Configs /\ nextId \in 1..(MaxTx + 1)
  BY <1>1, BegunRows DEF SqlInv, SqlTypeOK, TxTypeOK
<1>3. /\ settings' = tx[i].previous /\ nextId' = nextId /\ Return(s)
      /\ tx' = [tx EXCEPT ![i].status = "rolled_back"]
  BY DEF WriteRollback
<1>4. /\ tx'[i] = [tx[i] EXCEPT !.status = "rolled_back"]
      /\ \A j \in Ids : j # i => tx'[j] = tx[j]
  BY <1>1, <1>2, <1>3
<1>o. Overtaken(s) <=> i \notin PendingIds
  BY <1>1 DEF Overtaken
<1>u. call[s].at = "undo"
  BY <1>1
<1> HIDE DEF i
<1>5. TxTypeOK'
  <2>1. tx' \in [Ids -> Rows] /\ tx'[i].status = "rolled_back" /\ settings' \in Configs
    BY <1>1, <1>2, <1>3, <1>4 DEF Rows, Closed
  <2>2. ASSUME NEW j \in Ids PROVE tx'[j].status = "unused" <=> j >= nextId'
    <3>1. tx[j].status = "unused" <=> j >= nextId
      BY DEF SqlInv, SqlTypeOK, TxTypeOK
    <3>2. CASE j = i
      BY <1>2, <1>3, <2>1, <3>1, <3>2
    <3>3. CASE j # i
      BY <1>3, <1>4, <3>1, <3>3
    <3> QED BY <3>2, <3>3
  <2> QED BY <1>2, <1>3, <2>1, <2>2 DEF TxTypeOK
<1>6. PendingIds' = PendingIds \ {i}
  BY <1>1, <1>2, <1>4 DEF PendingIds, Rows
<1>7. \A j \in 1..(nextId - 1) : tx'[j].previous = tx[j].previous
  BY <1>2, <1>4, UsedRows DEF Rows
<1>8. SqlInv'
  BY <1>3, <1>5, <1>6, <1>7, Returned
<1>9. call'[s] = Idle
  BY <1>3 DEF Return, SqlInv, SqlTypeOK
<1>10. RowsKept
  <2>1. ASSUME NEW j \in 1..(nextId - 1), tx[j].status \in Closed, tx'[j] # tx[j]
        PROVE  j = i /\ i \notin PendingIds /\ i \in crossed'
    <3>1. j \in Ids
      BY UsedRows
    <3>2. j = i
      BY <1>4, <2>1, <3>1
    <3>3. i \notin PendingIds
      BY <2>1, <3>2 DEF PendingIds, Closed
    <3>4. i \in crossed'
      BY <1>3, <1>o, <1>u, <3>3 DEF Return, i
    <3> QED BY <3>2, <3>3, <3>4
  <2> QED BY <1>1, <1>4, <1>7, <1>9, <2>1 DEF RowsKept
<1>11. BlindBegin
  BY <1>6 DEF BlindBegin
<1>12. CASE Overtaken(s)
  <2>1. PendingIds' = PendingIds /\ PendingIds \subseteq crossed'
    BY <1>3, <1>6, <1>o, <1>12 DEF Return
  <2>2. PublishedMoves
    BY <2>1 DEF PublishedMoves
  <2> QED BY <1>8, <1>9, <1>10, <1>11, <1>12, <2>2 DEF StepIsGood, FreshOrOvertaken
<1>13. CASE ~Overtaken(s)
  <2>1. i \in PendingIds
    BY <1>o, <1>13
  <2>2. Rollback(i)
    BY <1>3, <2>1 DEF Rollback
  <2>3. PublishedMoves
    <3>1. CASE PendingIds \cap crossed = {}
      <4>1. PendingIds = {i} /\ Published = tx[i].previous
        BY <2>1, <3>1, OneOpen
      <4>2. Published' = settings'
        BY <1>6, <4>1 DEF Published
      <4> QED BY <1>3, <4>1, <4>2 DEF PublishedMoves
    <3>2. CASE PendingIds \cap crossed # {}
      <4>1. crossed \subseteq crossed'
        BY <1>3 DEF Return
      <4> QED BY <3>2, <4>1 DEF PublishedMoves
    <3> QED BY <3>1, <3>2
  <2> QED BY <1>1, <1>8, <1>10, <1>11, <2>2, <2>3 DEF StepIsGood, FreshOrOvertaken, TxNext
<1> QED BY <1>12, <1>13

LEMMA WriteRefineStep ==
  ASSUME SqlInv, NEW s \in Sessions, WriteRefine(s)
  PROVE  StepIsGood /\ FreshOrOvertaken
<1> DEFINE i == call[s].id
           c == call[s].candidate
<1>1. i \in Ids /\ c \in Configs /\ i \in 1..(nextId - 1)
  BY CallAt DEF WriteRefine, SqlInv, ReadsOfBegunRows
<1>2. /\ tx \in [Ids -> Rows] /\ tx[i] \in Rows
      /\ settings \in Configs /\ nextId \in 1..(MaxTx + 1)
  BY <1>1 DEF SqlInv, SqlTypeOK, TxTypeOK
<1>3. /\ settings' = c /\ nextId' = nextId /\ Return(s)
      /\ tx' = IF i \in PendingIds THEN [tx EXCEPT ![i].candidate = c] ELSE tx
  BY DEF WriteRefine
<1>o. Overtaken(s) <=> i \notin PendingIds
  BY DEF Overtaken, WriteRefine
<1> HIDE DEF i, c
<1>4. ASSUME NEW j \in Ids
      PROVE  /\ tx'[j] \in Rows /\ tx'[j].previous = tx[j].previous
             /\ tx'[j].status = tx[j].status
             /\ tx[j].status # "pending" => tx'[j] = tx[j]
  <2>1. tx[j] \in Rows
    BY <1>2
  <2>2. CASE i \in PendingIds /\ j = i
    <3>1. tx'[j] = [tx[j] EXCEPT !.candidate = c] /\ tx[j].status = "pending"
      BY <1>2, <1>3, <2>2 DEF PendingIds
    <3> QED BY <1>1, <2>1, <3>1 DEF Rows
  <2>3. CASE i \notin PendingIds \/ j # i
    BY <1>2, <1>3, <2>1, <2>3
  <2> QED BY <2>2, <2>3
<1>5. TxTypeOK'
  <2>1. tx' \in [Ids -> Rows]
    BY <1>2, <1>3, <1>4
  <2> QED BY <1>1, <1>2, <1>3, <1>4, <2>1 DEF TxTypeOK, SqlInv, SqlTypeOK
<1>6. PendingIds' = PendingIds
  BY <1>4 DEF PendingIds
<1>7. \A j \in 1..(nextId - 1) : tx'[j].previous = tx[j].previous
  BY <1>4, UsedRows
<1>8. SqlInv'
  BY <1>3, <1>5, <1>6, <1>7, Returned
<1>9. call'[s] = Idle
  BY <1>3 DEF Return, SqlInv, SqlTypeOK
<1>10. RowsKept
  BY <1>4, <1>7, UsedRows DEF RowsKept, Closed
<1>11. BlindBegin
  BY <1>6 DEF BlindBegin
<1>12. PublishedMoves
  <2>1. CASE PendingIds = {}
    BY <1>6, <2>1 DEF PublishedMoves
  <2>2. CASE PendingIds # {}
    <3>1. Pending' = Pending
      BY <1>6 DEF Pending
    <3>2. Pending \in Ids
      BY <2>2, NewestIn DEF PendingIds
    <3> QED BY <1>4, <1>6, <2>2, <3>1, <3>2 DEF PublishedMoves, Published
  <2> QED BY <2>1, <2>2
<1>13. FreshOrOvertaken
  <2>1. CASE Overtaken(s)
    BY <1>9, <2>1 DEF FreshOrOvertaken
  <2>2. CASE ~Overtaken(s)
    <3>1. UpdateCandidate(i, c)
      BY <1>3, <1>o, <2>2 DEF UpdateCandidate
    <3> QED BY <1>1, <3>1 DEF FreshOrOvertaken, TxNext
  <2> QED BY <2>1, <2>2
<1> QED BY <1>8, <1>10, <1>11, <1>12, <1>13 DEF StepIsGood

\* A step that keeps keys and sessions, and every open row's snapshot.
LEMMA CallsStay ==
  ASSUME SqlInv, UNCHANGED <<nextId, call, crossed>>, TxTypeOK',
         PendingIds' \subseteq PendingIds,
         \A i \in 1..(nextId - 1) : tx'[i].previous = tx[i].previous
  PROVE  SqlInv'
<1>1. ReadsOfBegunRows'
  <2> SUFFICES ASSUME NEW s \in Sessions, call[s].at = "restore"
               PROVE  tx'[Oldest(call[s].open)].previous = tx[Oldest(call[s].open)].previous
    BY DEF SqlInv, ReadsOfBegunRows
  <2>1. call[s].open \subseteq 1..(nextId - 1) /\ call[s].open # {}
    BY DEF SqlInv, ReadsOfBegunRows
  <2>2. Oldest(call[s].open) \in 1..(nextId - 1)
    BY <2>1, BegunRows, OldestIn
  <2> QED BY <2>2
<1> QED BY <1>1 DEF SqlInv, SqlTypeOK, TwoOpenWereCrossed

\* The one-statement writes.
LEMMA WriteAtOnceStep ==
  ASSUME SqlInv, UNCHANGED <<call, crossed>>,
         (\E i \in Ids : Commit(i)) \/ (\E c \in Configs : DirectUpdate(c))
  PROVE  StepIsGood /\ [TxNext]_settingsVars
<1>0. TxTypeOK /\ tx \in [Ids -> Rows]
  BY DEF SqlInv, SqlTypeOK, TxTypeOK
<1>1. ASSUME NEW i \in Ids, Commit(i) PROVE StepIsGood /\ [TxNext]_settingsVars
  <2>1. UNCHANGED <<settings, nextId, call, crossed>>
    BY <1>1 DEF Commit
  <2>2. CASE i \notin PendingIds
    <3>1. tx' = tx
      BY <1>1, <2>2 DEF Commit
    <3>2. PendingIds' = PendingIds /\ Published' = Published
      BY <2>1, <3>1 DEF PendingIds, Pending, Published
    <3>3. SqlInv'
      BY <2>1, <3>1, <3>2, <1>0, CallsStay DEF TxTypeOK
    <3> QED BY <2>1, <3>1, <3>2, <3>3
         DEF StepIsGood, RowsKept, PublishedMoves, BlindBegin, settingsVars
  <2>3. CASE i \in PendingIds
    <3>1. /\ tx'[i] = [tx[i] EXCEPT !.status = "applied"]
          /\ \A j \in Ids : j # i => tx'[j] = tx[j]
          /\ tx' = [tx EXCEPT ![i].status = "applied"]
      BY <1>0, <1>1, <2>3 DEF Commit
    <3>2. tx[i] \in Rows /\ tx[i].status = "pending" /\ i \in 1..(nextId - 1)
      BY <1>0, <2>3, BegunRows DEF PendingIds
    <3>3. tx' \in [Ids -> Rows] /\ tx'[i].status = "applied"
      BY <1>0, <3>1, <3>2 DEF Rows, Closed
    <3>4. \A j \in Ids : tx'[j].status = "unused" <=> tx[j].status = "unused"
      BY <3>1, <3>2, <3>3
    <3>5. TxTypeOK'
      BY <1>0, <2>1, <3>3, <3>4 DEF TxTypeOK
    <3>6. PendingIds' \subseteq PendingIds
      BY <3>1, <3>3 DEF PendingIds
    <3>7. \A j \in 1..(nextId - 1) : /\ tx'[j].previous = tx[j].previous
                                     /\ tx[j].status \in Closed => tx'[j] = tx[j]
      BY <3>1, <3>2, UsedRows DEF Rows, Closed
    <3>8. SqlInv'
      BY <2>1, <3>5, <3>6, <3>7, CallsStay
    <3> QED BY <1>1, <2>3, <3>2, <3>3, <3>6, <3>7, <3>8
         DEF StepIsGood, RowsKept, PublishedMoves, BlindBegin, TxNext
  <2> QED BY <2>2, <2>3
<1>2. ASSUME NEW c \in Configs, DirectUpdate(c) PROVE StepIsGood /\ [TxNext]_settingsVars
  <2>1. UNCHANGED <<tx, nextId>> /\ settings' = c
    BY <1>2 DEF DirectUpdate
  <2>2. PendingIds' = PendingIds /\ Pending' = Pending
    BY <2>1 DEF PendingIds, Pending
  <2>3. SqlInv'
    BY <1>0, <2>1, <2>2, CallsStay DEF TxTypeOK
  <2>4. PublishedMoves
    BY <2>1, <2>2 DEF PublishedMoves, Published
  <2> QED BY <1>2, <2>1, <2>2, <2>3, <2>4 DEF StepIsGood, RowsKept, BlindBegin, TxNext
<1> QED BY <1>1, <1>2

\* A step that leaves the table alone.
LEMMA TableStays ==
  ASSUME SqlInv, UNCHANGED <<settings, tx, nextId>>, UNCHANGED crossed, SqlInv'
  PROVE  StepIsGood
BY DEF StepIsGood, RowsKept, PublishedMoves, BlindBegin, Published, Pending, PendingIds

\* Statements that only read, and crashes.
LEMMA ReadStep ==
  ASSUME SqlInv, UNCHANGED settingsVars, UNCHANGED crossed, NEW s \in Sessions,
         \/ \E c \in Configs : SelectOpen(s, c)
         \/ SelectCurrent(s) \/ Crash(s)
         \/ \E i \in Ids : SelectRow(s, i)
         \/ \E i \in Ids, c \in Configs : SelectForRefine(s, i, c)
  PROVE  StepIsGood
<1>1. UNCHANGED <<settings, tx, nextId>> /\ TxTypeOK'
  BY DEF SqlInv, SqlTypeOK, settingsVars, TxTypeOK
<1>2. PendingIds \subseteq 1..(nextId - 1)
  BY BegunRows
<1>4. ASSUME NEW st \in CallStates, call' = [call EXCEPT ![s] = st],
             st.at \in {"undo", "refine"} => st.id \in PendingIds,
             st.at = "restore" =>
               st.open = PendingIds /\ PendingIds # {} /\ st.previous = Found
      PROVE  StepIsGood
  <2>1. st.at = "restore" =>
            /\ st.open \subseteq 1..(nextId' - 1) /\ st.open # {}
            /\ st.previous = tx'[Oldest(st.open)].previous
    BY <1>1, <1>2, <1>4 DEF Found
  <2>2. call' \in [Sessions -> CallStates] /\ ReadsOfBegunRows'
    BY <1>1, <1>2, <1>4, <2>1, CallMoves
  <2>3. TwoOpenWereCrossed' /\ crossed' \subseteq Ids
    BY <1>1 DEF SqlInv, SqlTypeOK, TwoOpenWereCrossed, PendingIds
  <2> QED BY <1>1, <2>2, <2>3, TableStays DEF SqlInv, SqlTypeOK
<1>5. ASSUME NEW c \in Configs, SelectOpen(s, c) PROVE StepIsGood
  <2> DEFINE st == IF PendingIds = {} THEN [at |-> "current", candidate |-> c]
                   ELSE [at |-> "restore", candidate |-> c, open |-> PendingIds,
                         previous |-> Found]
  <2>1. PendingIds # {} => Found \in Configs /\ PendingIds \in SUBSET Ids
    <3>1. PendingIds # {} => Oldest(PendingIds) \in PendingIds
      BY BegunRows, OldestIn
    <3>2. \A i \in PendingIds : tx[i].previous \in Configs
      BY DEF PendingIds, SqlInv, SqlTypeOK, TxTypeOK, Rows
    <3> QED BY <3>1, <3>2 DEF Found, PendingIds
  <2>2. st \in CallStates
    BY <2>1 DEF CallStates
  <2>3. /\ st.at \notin {"undo", "refine"}
        /\ st.at = "restore" =>
             st.open = PendingIds /\ PendingIds # {} /\ st.previous = Found
    OBVIOUS
  <2>4. call' = [call EXCEPT ![s] = st]
    BY <1>5 DEF SelectOpen
  <2> HIDE DEF st
  <2> QED BY <1>4, <2>2, <2>3, <2>4
<1>6. CASE SelectCurrent(s)
  <2>1. PICK c : c = call[s].candidate
    OBVIOUS
  <2>2. c \in Configs /\ settings \in Configs
    BY <1>6, <2>1, CallAt DEF SelectCurrent, SqlInv, SqlTypeOK, TxTypeOK
  <2>3. [at |-> "insert", candidate |-> c, previous |-> settings] \in CallStates
    BY <2>2 DEF CallStates
  <2>4. call' = [call EXCEPT ![s] = [at |-> "insert", candidate |-> c, previous |-> settings]]
    BY <1>6, <2>1 DEF SelectCurrent, SqlInv, SqlTypeOK
  <2> QED BY <1>4, <2>3, <2>4
<1>7. CASE Crash(s)
  <2>1. Idle \in CallStates /\ Idle.at = "idle"
    BY DEF Idle, CallStates
  <2> QED BY <1>4, <1>7, <2>1 DEF Crash
<1>8. ASSUME NEW i \in Ids, SelectRow(s, i) PROVE StepIsGood
  BY <1>4, <1>8 DEF SelectRow, CallStates
<1>9. ASSUME NEW i \in Ids, NEW c \in Configs, SelectForRefine(s, i, c) PROVE StepIsGood
  BY <1>4, <1>9 DEF SelectForRefine, CallStates
<1> QED BY <1>5, <1>6, <1>7, <1>8, <1>9

LEMMA SqlStep ==
  ASSUME SqlInv, [SqlNext]_sqlVars
  PROVE  StepIsGood /\ [FreshOrOvertaken]_settingsVars
<1>1. CASE UNCHANGED sqlVars
  <2>1. UNCHANGED <<settings, tx, nextId, call, crossed>>
    BY <1>1 DEF sqlVars
  <2>2. SqlInv'
    BY <2>1 DEF SqlInv, SqlTypeOK, TxTypeOK, ReadsOfBegunRows, TwoOpenWereCrossed, PendingIds
  <2> QED BY <2>1, <2>2, TableStays DEF settingsVars
<1>2. ASSUME NEW s \in Sessions,
             \/ \E c \in Configs : SelectOpen(s, c)
             \/ SelectCurrent(s) \/ Crash(s)
             \/ \E i \in Ids : SelectRow(s, i)
             \/ \E i \in Ids, c \in Configs : SelectForRefine(s, i, c)
      PROVE  StepIsGood /\ UNCHANGED settingsVars
  <2>1. UNCHANGED settingsVars /\ UNCHANGED crossed
    BY <1>2 DEF SelectOpen, SelectCurrent, Crash, SelectRow, SelectForRefine
  <2> QED BY <1>2, <2>1, ReadStep
<1>3. ASSUME NEW s \in Sessions, WriteBegin(s) \/ WriteRollback(s) \/ WriteRefine(s)
      PROVE  StepIsGood /\ FreshOrOvertaken
  BY <1>3, WriteBeginStep, WriteRollbackStep, WriteRefineStep
<1>4. ASSUME NEW s \in Sessions,
             (\E i \in Ids : WriteCommit(s, i)) \/ (\E c \in Configs : WriteDirect(s, c))
      PROVE  StepIsGood /\ [TxNext]_settingsVars
  BY <1>4, WriteAtOnceStep DEF WriteCommit, WriteDirect
<1> QED BY <1>1, <1>2, <1>3, <1>4 DEF SqlNext, SessionStep, FreshOrOvertaken

\* However the statements of any number of callers interleave, the rows stay
\* well formed and a session writes only rows that were begun.
THEOREM SqlTypeCorrect == SqlSpec => []SqlTypeOK
<1>1. SqlInv => SqlTypeOK
  BY DEF SqlInv
<1>2. SqlInv /\ [SqlNext]_sqlVars => SqlInv'
  BY SqlStep DEF StepIsGood
<1> QED BY <1>1, <1>2, SqlInvInit, PTL DEF SqlSpec

\* ... a closed row changes only by a rollback that had read it open, and no
\* rollback snapshot is rewritten once its row is inserted.
THEOREM RowsKeepTheirOutcome == SqlSpec => ClosedRowsKeepOutcome
<1>1. SqlInv /\ [SqlNext]_sqlVars => SqlInv' /\ RowsKept
  BY SqlStep DEF StepIsGood
<1> QED BY <1>1, SqlInvInit, PTL DEF SqlSpec, ClosedRowsKeepOutcome, RowsKept

\* ... a second row is open only by a begin that found none and was overtaken
\* by another begin.
THEOREM SecondOpenIsBlind == SqlSpec => TwoOpenNeedBlindBegin
<1>1. SqlInv /\ [SqlNext]_sqlVars => SqlInv' /\ BlindBegin
  BY SqlStep DEF StepIsGood
<1> QED BY <1>1, SqlInvInit, PTL DEF SqlSpec, TwoOpenNeedBlindBegin, BlindBegin

\* ... a write whose reads still hold is the whole operation in one step.
THEOREM FreshWritesAreAtomic == SqlSpec => FreshCallsAreAtomic
<1>1. SqlInv /\ [SqlNext]_sqlVars => SqlInv' /\ [FreshOrOvertaken]_settingsVars
  BY SqlStep DEF StepIsGood
<1> QED BY <1>1, SqlInvInit, PTL DEF SqlSpec, FreshCallsAreAtomic, FreshOrOvertaken

\* ... and client links change only at a commit, by an edit while nothing is
\* open, or beside a transaction an overtaken call has written over.
THEOREM PublishedOnlyByCommit == SqlSpec => PublishedMovesOnlyByCommit
<1>1. SqlInv /\ [SqlNext]_sqlVars => SqlInv' /\ PublishedMoves
  BY SqlStep DEF StepIsGood
<1> QED BY <1>1, SqlInvInit, PTL DEF SqlSpec, PublishedMovesOnlyByCommit, PublishedMoves

-----------------------------------------------------------------------------
\* A caller that is alone: what it has read is still true when it writes.
ReadIsFresh ==
  \A s \in Sessions :
    /\ call[s].at = "current" => PendingIds = {}
    /\ ~Overtaken(s)

LEMMA AloneStep ==
  ASSUME SqlInv, ReadIsFresh, NEW s \in Sessions,
         \A t \in Sessions : t # s => call[t] = Idle,
         SessionStep(s)
  PROVE  ReadIsFresh' /\ [TxNext]_settingsVars
<1> USE DEF Idle
<1>0. [FreshOrOvertaken]_settingsVars
  BY SqlStep DEF SqlNext
<1>1. [TxNext]_settingsVars
  BY <1>0 DEF FreshOrOvertaken, ReadIsFresh
<1>d. call \in [Sessions -> CallStates]
  BY DEF SqlInv, SqlTypeOK
<1>2. SUFFICES ReadIsFresh'
  BY <1>1
<1>m. ASSUME NEW st, call' = [call EXCEPT ![s] = st],
             st.at = "current" => PendingIds' = {},
             st.at = "restore" => st.open = PendingIds',
             st.at = "insert" => PendingIds' = {} /\ st.previous = settings',
             st.at \in {"undo", "refine"} => st.id \in PendingIds'
      PROVE  ReadIsFresh'
  <2>1. call'[s] = st /\ \A t \in Sessions : t # s => call'[t].at = "idle"
    BY <1>d, <1>m
  <2> QED BY <1>m, <2>1 DEF ReadIsFresh, Overtaken
<1>i. ASSUME call' = [call EXCEPT ![s] = Idle] PROVE ReadIsFresh'
  BY <1>i, <1>m
<1>3. ASSUME NEW c \in Configs, SelectOpen(s, c) PROVE ReadIsFresh'
  <2>1. PendingIds' = PendingIds
    BY <1>3 DEF SelectOpen, settingsVars, PendingIds
  <2>2. PICK st : /\ call' = [call EXCEPT ![s] = st]
                  /\ st = IF PendingIds = {} THEN [at |-> "current", candidate |-> c]
                          ELSE [at |-> "restore", candidate |-> c, open |-> PendingIds,
                                previous |-> Found]
    BY <1>3 DEF SelectOpen
  <2> QED BY <1>m, <2>1, <2>2
<1>4. CASE SelectCurrent(s)
  <2>1. PendingIds' = PendingIds /\ settings' = settings
    BY <1>4 DEF SelectCurrent, settingsVars, PendingIds
  <2>2. PICK st : /\ call' = [call EXCEPT ![s] = st]
                  /\ st = [at |-> "insert", candidate |-> call[s].candidate,
                           previous |-> settings]
    BY <1>4 DEF SelectCurrent
  <2>3. PendingIds = {}
    BY <1>4 DEF SelectCurrent, ReadIsFresh
  <2> QED BY <1>m, <2>1, <2>2, <2>3
<1>5. ASSUME NEW i \in Ids,
             SelectRow(s, i) \/ \E c \in Configs : SelectForRefine(s, i, c)
      PROVE  ReadIsFresh'
  <2>1. PendingIds' = PendingIds
    BY <1>5 DEF SelectRow, SelectForRefine, settingsVars, PendingIds
  <2>2. CASE SelectRow(s, i)
    <3>1. PICK st : st = [at |-> "undo", id |-> i]
      OBVIOUS
    <3>2. call' = [call EXCEPT ![s] = st] /\ i \in PendingIds
      BY <2>2, <3>1 DEF SelectRow
    <3> QED BY <1>m, <2>1, <3>1, <3>2
  <2>3. ASSUME NEW c \in Configs, SelectForRefine(s, i, c) PROVE ReadIsFresh'
    <3>1. PICK st : st = [at |-> "refine", id |-> i, candidate |-> c]
      OBVIOUS
    <3>2. call' = [call EXCEPT ![s] = st] /\ i \in PendingIds
      BY <2>3, <3>1 DEF SelectForRefine
    <3> QED BY <1>m, <2>1, <3>1, <3>2
  <2> QED BY <1>5, <2>2, <2>3
<1>6. CASE WriteBegin(s) \/ WriteRollback(s) \/ WriteRefine(s) \/ Crash(s)
  BY <1>6, <1>i DEF WriteBegin, WriteRollback, WriteRefine, Return, Crash
<1>7. CASE \/ \E i \in Ids : WriteCommit(s, i)
           \/ \E c \in Configs : WriteDirect(s, c)
  <2>1. call'[s] = Idle /\ \A t \in Sessions : call'[t] = Idle
    BY <1>7 DEF WriteCommit, WriteDirect
  <2> QED BY <2>1 DEF ReadIsFresh, Overtaken
<1> QED BY <1>3, <1>4, <1>5, <1>6, <1>7 DEF SessionStep

\* With one caller the statements of settings_transactions.py implement the
\* one-step operations, crashes between any two of them included.
THEOREM OneCallerIsAtomic ==
  ASSUME NEW s, Sessions = {s}
  PROVE  SqlSpec => ImplementsAtomicOperations
<1>1. SqlInit => ReadIsFresh /\ TxInit
  BY DEF SqlInit, ReadIsFresh, Overtaken, Idle
<1>2. SqlInv /\ ReadIsFresh /\ [SqlNext]_sqlVars => ReadIsFresh' /\ [TxNext]_settingsVars
  <2>1. SqlInv /\ ReadIsFresh /\ SqlNext => ReadIsFresh' /\ [TxNext]_settingsVars
    BY AloneStep DEF SqlNext
  <2>2. ReadIsFresh /\ UNCHANGED sqlVars => ReadIsFresh' /\ UNCHANGED settingsVars
    <3> SUFFICES ASSUME ReadIsFresh, UNCHANGED sqlVars
                 PROVE  ReadIsFresh' /\ UNCHANGED settingsVars
      OBVIOUS
    <3>1. PendingIds' = PendingIds /\ settings' = settings /\ call' = call
      BY DEF sqlVars, PendingIds
    <3> QED BY <3>1 DEF ReadIsFresh, Overtaken, sqlVars, settingsVars
  <2> QED BY <2>1, <2>2
<1>3. SqlInv /\ [SqlNext]_sqlVars => SqlInv'
  BY SqlStep DEF StepIsGood
<1> QED BY <1>1, <1>2, <1>3, SqlInvInit, PTL
     DEF SqlSpec, ImplementsAtomicOperations, TxSpec

\* A caller that is alone, and may die between any two statements, leaves one
\* open transaction at most, whatever it died in before; that is what
\* _restore_stale_pending is for.
THEOREM OneCallerOpensOne ==
  ASSUME NEW s, Sessions = {s}
  PROVE  SqlSpec => []OnePending
<1>1. SqlSpec => TxSpec
  BY OneCallerIsAtomic DEF ImplementsAtomicOperations
<1>2. TxInv => OnePending
  BY DEF TxInv
<1> QED BY <1>1, <1>2, TxInvInit, TxInvNext, PTL DEF TxSpec

\* ... and its transactions close once.
THEOREM OneCallerClosesOnce ==
  ASSUME NEW s, Sessions = {s}
  PROVE  SqlSpec => ClosedForGood
<1> DEFINE Kept == \A i \in Ids :
                     /\ tx[i].status \in Closed => tx'[i] = tx[i]
                     /\ i \in PendingIds => tx'[i].previous = tx[i].previous
<1>1. SqlSpec => TxSpec
  BY OneCallerIsAtomic DEF ImplementsAtomicOperations
<1>2. TxInv /\ [TxNext]_settingsVars => TxInv' /\ Kept
  BY TxInvNext, ClosedKept
<1> QED BY <1>1, <1>2, TxInvInit, PTL DEF TxSpec, ClosedForGood
=============================================================================
