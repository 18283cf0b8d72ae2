------------------------ MODULE XraySettings_proofs ------------------------
(***************************************************************************)
(* What the one-step operations of XraySettings do to the table, for every *)
(* set of settings values and every number of transactions.  These are     *)
(* lemmas about what the operations promise; XraySettingsSQL_proofs says   *)
(* for which callers the statements of the code keep the promise.          *)
(***************************************************************************)
EXTENDS XraySettings, TLAPS

TxInv == TxTypeOK /\ OnePending

-----------------------------------------------------------------------------
\* A single open row is both the newest and the oldest.
LEMMA OnlyRow ==
  ASSUME NEW i \in Nat
  PROVE  /\ (CHOOSE j \in {i} : \A k \in {i} : k <= j) = i
         /\ Oldest({i}) = i
<1>1. (CHOOSE j \in {i} : \A k \in {i} : k <= j) \in {i}
  <2>1. i <= i
    OBVIOUS
  <2> QED BY <2>1
<1>2. (CHOOSE j \in {i} : \A k \in {i} : j <= k) \in {i}
  <2>1. i <= i
    OBVIOUS
  <2> QED BY <2>1
<1> QED BY <1>1, <1>2 DEF Oldest

\* With at most one open transaction, that is the row below the next key.
LEMMA PendingRow ==
  ASSUME TxInv, NEW i \in PendingIds
  PROVE  /\ i = nextId - 1
         /\ PendingIds = {i}
         /\ Pending = i
         /\ Published = tx[i].previous
         /\ Found = tx[i].previous
<1>1. \A j \in PendingIds : j = nextId - 1
  BY DEF TxInv, OnePending
<1>2. PendingIds = {i}
  BY <1>1
<1>3. i \in Nat
  BY TxAssumption DEF PendingIds, Ids
<1> QED BY <1>1, <1>2, <1>3, OnlyRow DEF Pending, Published, Found

\* Published is one of the values a settings row can hold, and what the next
\* begin finds.
LEMMA PublishedType ==
  ASSUME TxInv
  PROVE  Published \in Configs /\ Found = Published
<1>1. CASE PendingIds = {}
  BY <1>1 DEF Published, Found, TxInv, TxTypeOK
<1>2. CASE PendingIds # {}
  <2>1. PICK i \in PendingIds : TRUE
    BY <1>2
  <2>2. Published = tx[i].previous /\ Found = Published
    BY <2>1, PendingRow
  <2>3. tx[i] \in Rows
    BY <2>1 DEF PendingIds, TxInv, TxTypeOK
  <2> QED BY <2>2, <2>3 DEF Rows
<1> QED BY <1>1, <1>2

LEMMA TxInvInit == TxInit => TxInv
<1> SUFFICES ASSUME TxInit PROVE TxInv
  OBVIOUS
<1>1. TxTypeOK
  BY TxAssumption DEF TxInit, TxTypeOK, Rows, Ids, Closed
<1>2. OnePending
  BY DEF TxInit, OnePending, PendingIds
<1> QED BY <1>1, <1>2 DEF TxInv

\* What each operation does to a row, in the form every preservation proof
\* below needs.
LEMMA BeginStep ==
  ASSUME TxInv, NEW c \in Configs, Begin(c)
  PROVE  /\ TxInv'
         /\ PendingIds' = {nextId}
         /\ Published' = Published
         /\ \A i \in PendingIds : tx'[i].status = "rolled_back_stale"
         /\ \A i \in Ids : tx[i].status \in Closed => tx'[i] = tx[i]
         /\ \A i \in PendingIds : tx'[i].previous = tx[i].previous
<1> USE TxAssumption DEF Ids
<1>0. /\ nextId \in Ids /\ nextId' = nextId + 1 /\ settings' = c
      /\ tx' = [i \in Ids |->
              IF i = nextId
              THEN [previous |-> Found, candidate |-> c, status |-> "pending"]
              ELSE IF tx[i].status = "pending"
                   THEN [tx[i] EXCEPT !.status = "rolled_back_stale"]
                   ELSE tx[i]]
  BY DEF Begin
<1>1. Found \in Configs /\ Found = Published
  BY PublishedType
<1>2. tx \in [Ids -> Rows] /\ nextId \in 1..(MaxTx + 1)
  BY DEF TxInv, TxTypeOK
<1>3. TxTypeOK'
  <2>1. \A i \in Ids : tx'[i] \in Rows
    BY <1>0, <1>1, <1>2 DEF Rows, Closed
  <2>2. tx' \in [Ids -> Rows]
    BY <2>1, <1>0
  <2>3. \A i \in Ids : tx'[i].status = "unused" <=> i >= nextId'
    <3> SUFFICES ASSUME NEW i \in Ids
                 PROVE  tx'[i].status = "unused" <=> i >= nextId'
      OBVIOUS
    <3>1. tx[i].status = "unused" <=> i >= nextId
      BY DEF TxInv, TxTypeOK
    <3>2. CASE i = nextId
      BY <3>2, <1>0, <1>2
    <3>3. CASE i # nextId /\ tx[i].status = "pending"
      <4>1. tx'[i].status = "rolled_back_stale"
        BY <3>3, <1>0, <1>2 DEF Rows
      <4> QED BY <4>1, <3>1, <3>3, <1>0, <1>2
    <3>4. CASE i # nextId /\ tx[i].status # "pending"
      BY <3>4, <3>1, <1>0, <1>2
    <3> QED BY <3>2, <3>3, <3>4
  <2> QED BY <2>2, <2>3, <1>0, <1>2 DEF TxTypeOK
<1>4. PendingIds' = {nextId}
  BY <1>0, <1>2 DEF PendingIds, Rows
<1>5. OnePending'
  BY <1>4, <1>0, <1>2 DEF OnePending
<1>6. TxInv'
  BY <1>3, <1>5 DEF TxInv
<1>7. Published' = Published
  <2>1. Pending' = nextId
    <3>1. nextId \in Nat
      BY <1>2
    <3> QED BY <1>4, <3>1, OnlyRow DEF Pending
  <2>2. Published' = tx'[nextId].previous
    BY <1>4, <2>1 DEF Published
  <2> QED BY <2>2, <1>0, <1>1, <1>2
<1>8. nextId \notin PendingIds
  BY <1>2 DEF PendingIds, TxInv, TxTypeOK
<1>9. \A i \in PendingIds : /\ tx'[i].status = "rolled_back_stale"
                            /\ tx'[i].previous = tx[i].previous
  BY <1>8, <1>0, <1>2 DEF PendingIds, Rows
<1>10. \A i \in Ids : tx[i].status \in Closed => tx'[i] = tx[i]
  <2>1. tx[nextId].status = "unused"
    BY <1>0, <1>2 DEF TxInv, TxTypeOK
  <2> QED BY <2>1, <1>0, <1>2 DEF Closed
<1> QED BY <1>4, <1>6, <1>7, <1>9, <1>10

\* The other operations rewrite at most the open row they are given.
LEMMA OneRowStep ==
  ASSUME TxInv, NEW i \in Ids, NEW row \in Rows, NEW s \in Configs,
         i \in PendingIds, row.status \in {"pending"} \cup Closed,
         tx' = [tx EXCEPT ![i] = row], settings' = s, nextId' = nextId
  PROVE  TxInv'
<1>1. tx \in [Ids -> Rows] /\ nextId \in 1..(MaxTx + 1)
  BY DEF TxInv, TxTypeOK
<1>2. tx' \in [Ids -> Rows]
  BY <1>1
<1>3. ASSUME NEW j \in Ids
      PROVE  /\ tx'[j].status = "unused" <=> j >= nextId'
             /\ tx'[j].status = "pending" => tx[j].status = "pending"
  <2>1. tx[j].status = "unused" <=> j >= nextId
    BY DEF TxInv, TxTypeOK
  <2>2. CASE j = i
    <3>1. tx'[j] = row /\ tx[j].status = "pending"
      BY <2>2, <1>1 DEF PendingIds
    <3> QED BY <3>1, <2>1 DEF Closed
  <2>3. CASE j # i
    BY <2>3, <2>1, <1>1
  <2> QED BY <2>2, <2>3
<1>4. TxTypeOK'
  BY <1>1, <1>2, <1>3 DEF TxTypeOK
<1>5. OnePending'
  BY <1>3 DEF TxInv, OnePending, PendingIds
<1> QED BY <1>4, <1>5 DEF TxInv

\* A commit leaves the settings alone and closes the row it is given, or
\* does nothing.
LEMMA CommitStep ==
  ASSUME TxInv, NEW i \in Ids, Commit(i)
  PROVE  /\ TxInv'
         /\ i \in PendingIds => tx'[i].status = "applied" /\ PendingIds' = {}
         /\ i \notin PendingIds => UNCHANGED <<settings, tx>>
         /\ \A j \in Ids : tx[j].status \in Closed => tx'[j] = tx[j]
         /\ \A j \in PendingIds : tx'[j].previous = tx[j].previous
<1>0. tx \in [Ids -> Rows] /\ settings \in Configs
  BY DEF TxInv, TxTypeOK
<1>1. CASE i \in PendingIds
  <2> DEFINE row == [tx[i] EXCEPT !.status = "applied"]
  <2>1. row \in Rows /\ row.status = "applied" /\ row.previous = tx[i].previous
    BY <1>0 DEF Rows, Closed
  <2>2. tx' = [tx EXCEPT ![i] = row] /\ settings' = settings /\ nextId' = nextId
    BY <1>1 DEF Commit
  <2>3. TxInv'
    BY <1>0, <1>1, <2>1, <2>2, OneRowStep DEF Closed
  <2>4. PendingIds = {i}
    BY <1>1, PendingRow
  <2>5. tx'[i] = row /\ \A j \in Ids : j # i => tx'[j] = tx[j]
    BY <1>0, <2>2
  <2>6. PendingIds' = {}
    <3>1. \A j \in Ids : j # i => tx[j].status # "pending"
      BY <2>4 DEF PendingIds
    <3>2. \A j \in Ids : tx'[j].status # "pending"
      BY <3>1, <2>1, <2>5
    <3> QED BY <3>2 DEF PendingIds
  <2> QED BY <1>1, <2>1, <2>3, <2>4, <2>5, <2>6 DEF Closed, PendingIds
<1>2. CASE i \notin PendingIds
  <2>1. UNCHANGED settingsVars
    BY <1>2 DEF Commit, settingsVars
  <2> QED BY <1>2, <2>1 DEF settingsVars, TxInv, TxTypeOK, OnePending, PendingIds
<1> QED BY <1>1, <1>2

\* A rollback returns the settings row to the snapshot its transaction took.
LEMMA RollbackStep ==
  ASSUME TxInv, NEW i \in Ids, Rollback(i)
  PROVE  /\ TxInv'
         /\ Published' = Published
         /\ i \in PendingIds => PendingIds' = {} /\ settings' = tx[i].previous
         /\ \A j \in Ids : tx[j].status \in Closed => tx'[j] = tx[j]
         /\ \A j \in PendingIds : tx'[j].previous = tx[j].previous
<1>0. tx \in [Ids -> Rows] /\ settings \in Configs
  BY DEF TxInv, TxTypeOK
<1>1. CASE i \in PendingIds
  <2> DEFINE row == [tx[i] EXCEPT !.status = "rolled_back"]
  <2>1. /\ row \in Rows /\ row.status = "rolled_back" /\ row.previous = tx[i].previous
        /\ tx[i].previous \in Configs
    BY <1>0 DEF Rows, Closed
  <2>2. /\ tx' = [tx EXCEPT ![i] = row]
        /\ settings' = tx[i].previous /\ nextId' = nextId
    BY <1>1 DEF Rollback
  <2>3. TxInv'
    BY <1>0, <1>1, <2>1, <2>2, OneRowStep DEF Closed
  <2>4. PendingIds = {i} /\ Published = tx[i].previous
    BY <1>1, PendingRow
  <2>5. tx'[i] = row /\ \A j \in Ids : j # i => tx'[j] = tx[j]
    BY <1>0, <2>2
  <2>6. PendingIds' = {}
    <3>1. \A j \in Ids : j # i => tx[j].status # "pending"
      BY <2>4 DEF PendingIds
    <3>2. \A j \in Ids : tx'[j].status # "pending"
      BY <3>1, <2>1, <2>5
    <3> QED BY <3>2 DEF PendingIds
  <2>7. Published' = Published
    BY <2>2, <2>4, <2>6 DEF Published
  <2> QED BY <1>1, <2>1, <2>2, <2>3, <2>4, <2>5, <2>6, <2>7 DEF Closed, PendingIds
<1>2. CASE i \notin PendingIds
  <2>1. UNCHANGED settingsVars
    BY <1>2 DEF Rollback, settingsVars
  <2> QED
    BY <1>2, <2>1 DEF settingsVars, TxInv, TxTypeOK, OnePending, PendingIds, Pending, Published
<1> QED BY <1>1, <1>2

\* Refining a candidate keeps its transaction open and its snapshot intact.
LEMMA UpdateCandidateStep ==
  ASSUME TxInv, NEW i \in Ids, NEW c \in Configs, UpdateCandidate(i, c)
  PROVE  /\ TxInv'
         /\ Published' = Published
         /\ PendingIds' = PendingIds
         /\ \A j \in Ids : tx[j].status \in Closed => tx'[j] = tx[j]
         /\ \A j \in PendingIds : tx'[j].previous = tx[j].previous
<1>0. tx \in [Ids -> Rows] /\ settings \in Configs
  BY DEF TxInv, TxTypeOK
<1>1. CASE i \in PendingIds
  <2> DEFINE row == [tx[i] EXCEPT !.candidate = c]
  <2>0. tx[i].status = "pending"
    BY <1>1 DEF PendingIds
  <2>1. row \in Rows /\ row.status = "pending" /\ row.previous = tx[i].previous
    BY <1>0, <2>0 DEF Rows, Closed
  <2>2. /\ tx' = [tx EXCEPT ![i] = row]
        /\ settings' = c /\ nextId' = nextId
    BY <1>1 DEF UpdateCandidate
  <2>3. TxInv'
    BY <1>0, <1>1, <2>1, <2>2, OneRowStep DEF Closed
  <2>4. PendingIds = {i} /\ Published = tx[i].previous
    BY <1>1, PendingRow
  <2>5. tx'[i] = row /\ \A j \in Ids : j # i => tx'[j] = tx[j]
    BY <1>0, <2>2
  <2>6. PendingIds' = {i}
    BY <2>1, <2>4, <2>5 DEF PendingIds
  <2>7. Published' = tx'[i].previous
    <3>1. Pending' = i
      <4>1. i \in Nat
        BY TxAssumption DEF Ids
      <4> QED BY <2>6, <4>1, OnlyRow DEF Pending
    <3> QED BY <2>6, <3>1 DEF Published
  <2> QED BY <1>1, <2>0, <2>1, <2>3, <2>4, <2>5, <2>6, <2>7 DEF Closed, PendingIds
<1>2. CASE i \notin PendingIds
  <2>1. UNCHANGED settingsVars
    BY <1>2 DEF UpdateCandidate, settingsVars
  <2> QED
    BY <1>2, <2>1 DEF settingsVars, TxInv, TxTypeOK, OnePending, PendingIds, Pending, Published
<1> QED BY <1>1, <1>2

LEMMA DirectUpdateStep ==
  ASSUME TxInv, NEW c \in Configs, DirectUpdate(c)
  PROVE  /\ TxInv'
         /\ PendingIds' = PendingIds
         /\ tx' = tx
         /\ PendingIds # {} => Published' = Published
<1> QED BY DEF DirectUpdate, TxInv, TxTypeOK, OnePending, PendingIds, Pending, Published

-----------------------------------------------------------------------------
LEMMA UsedIds == TxInv => 1..(nextId - 1) \subseteq Ids
BY TxAssumption DEF TxInv, TxTypeOK, Ids

LEMMA StutterStep ==
  ASSUME TxInv, UNCHANGED settingsVars
  PROVE  TxInv' /\ Published' = Published /\ tx' = tx
BY DEF settingsVars, TxInv, TxTypeOK, OnePending, PendingIds, Pending, Published

LEMMA TxInvNext == TxInv /\ [TxNext]_settingsVars => TxInv'
<1> SUFFICES ASSUME TxInv, [TxNext]_settingsVars PROVE TxInv'
  OBVIOUS
<1> USE UsedIds
<1>1. ASSUME NEW c \in Configs, Begin(c) PROVE TxInv'
  BY <1>1, BeginStep
<1>2. ASSUME NEW i \in 1..(nextId - 1), Rollback(i) PROVE TxInv'
  BY <1>2, RollbackStep
<1>3. ASSUME NEW i \in 1..(nextId - 1), Commit(i) PROVE TxInv'
  BY <1>3, CommitStep
<1>4. ASSUME NEW i \in 1..(nextId - 1), NEW c \in Configs, UpdateCandidate(i, c)
      PROVE  TxInv'
  BY <1>4, UpdateCandidateStep
<1>5. ASSUME NEW c \in Configs, DirectUpdate(c) PROVE TxInv'
  BY <1>5, DirectUpdateStep
<1>6. CASE UNCHANGED settingsVars
  BY <1>6, StutterStep
<1> QED BY <1>1, <1>2, <1>3, <1>4, <1>5, <1>6 DEF TxNext

\* A closed transaction keeps its outcome, an open one its snapshot.
LEMMA ClosedKept ==
  ASSUME TxInv, [TxNext]_settingsVars, NEW i \in Ids
  PROVE  /\ tx[i].status \in Closed => tx'[i] = tx[i]
         /\ i \in PendingIds => tx'[i].previous = tx[i].previous
<1> DEFINE Keeps == /\ tx[i].status \in Closed => tx'[i] = tx[i]
                    /\ i \in PendingIds => tx'[i].previous = tx[i].previous
<1> USE UsedIds
<1>1. ASSUME NEW c \in Configs, Begin(c) PROVE Keeps
  BY <1>1, BeginStep
<1>2. ASSUME NEW j \in 1..(nextId - 1), Rollback(j) PROVE Keeps
  BY <1>2, RollbackStep
<1>3. ASSUME NEW j \in 1..(nextId - 1), Commit(j) PROVE Keeps
  BY <1>3, CommitStep
<1>4. ASSUME NEW j \in 1..(nextId - 1), NEW c \in Configs, UpdateCandidate(j, c)
      PROVE  Keeps
  BY <1>4, UpdateCandidateStep
<1>5. ASSUME NEW c \in Configs, DirectUpdate(c) PROVE Keeps
  BY <1>5, DirectUpdateStep
<1>6. CASE UNCHANGED settingsVars
  BY <1>6, StutterStep
<1> QED BY <1>1, <1>2, <1>3, <1>4, <1>5, <1>6 DEF TxNext
=============================================================================
