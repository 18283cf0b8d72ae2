-------------------------- MODULE XrayApply_proofs --------------------------
(***************************************************************************)
(* Theorems about XrayApply: its types with the lock discipline, that its  *)
(* requests and appliers are sessions of XraySettingsSQL, when client      *)
(* links may show a candidate, that under the lock only tested configs are *)
(* installed and only running ones recorded as applied, and that           *)
(* operations in turn leave running what links publish.                    *)
(***************************************************************************)
EXTENDS XrayApply, XraySettingsSQL_proofs

IInv == TypeOK /\ SqlInv

LEMMA PendingType ==
  ASSUME SqlInv
  PROVE  /\ Pending \in {0} \cup Ids
         /\ Pending = 0 <=> PendingIds = {}
         /\ Pending # 0 => Pending \in PendingIds
<1>1. CASE PendingIds = {}
  BY <1>1 DEF Pending
<1>2. CASE PendingIds # {}
  <2>1. Pending \in PendingIds
    BY <1>2, NewestIn
  <2>2. Pending \in Ids /\ Pending # 0
    BY <2>1 DEF PendingIds, Ids
  <2> QED BY <1>2, <2>1, <2>2
<1> QED BY <1>1, <1>2

LEMMA PublishedConfig ==
  ASSUME SqlInv
  PROVE  Published \in Configs
<1>1. settings \in Configs /\ \A i \in Ids : tx[i].previous \in Configs
  BY DEF SqlInv, SqlTypeOK, TxTypeOK, Rows
<1> QED BY <1>1, PendingType DEF Published

-----------------------------------------------------------------------------
\* What an applier holds, by its program counter.
Moving == {"test", "save", "install", "restart", "commit", "failed", "undo", "undoing", "done"}
Normalising == {"compat", "refine", "reread", "begin", "rows"}

LEMMA ApplierAt ==
  ASSUME ap \in [Appliers -> ApplierStates], NEW a \in Appliers
  PROVE  /\ ap[a].at \in Normalising =>
              ap[a] \in [at : Normalising, kind : Kinds, id : {0} \cup Ids,
                         value : Configs, any : BOOLEAN]
         /\ ap[a].at = "read" => ap[a] \in [at : {"read"}, kind : Kinds, id : {0} \cup Ids]
         /\ ap[a].at = "tx" => ap[a] \in [at : {"tx"}, kind : Kinds]
         /\ ap[a].at = "lock" => ap[a] \in [at : {"lock"}, kind : Locked, seen : {0} \cup Ids]
         /\ ap[a].at = "manual" => ap[a] \in [at : {"manual"}, kind : {"rollback"}]
         /\ ap[a].at \in {"unwind", "unwinding"} =>
              ap[a] \in [at : {"unwind", "unwinding"}, kind : {"runtime", "restore"}]
         /\ ap[a].at = "unwind row" =>
              ap[a] \in [at : {"unwind row"}, kind : {"runtime", "restore"}, id : Ids]
         /\ ap[a].at \in Moving =>
              ap[a] \in [at : Moving, kind : Kinds, id : {0} \cup Ids, body : Servers,
                         had : BOOLEAN]
<1>1. \/ ap[a] = NoApplier
      \/ ap[a] \in [at : {"tx"}, kind : Kinds]
      \/ ap[a] \in [at : {"manual"}, kind : {"rollback"}]
      \/ ap[a] \in [at : {"lock"}, kind : Locked, seen : {0} \cup Ids]
      \/ ap[a] \in [at : {"read"}, kind : Kinds, id : {0} \cup Ids]
      \/ ap[a] \in [at : {"unwind", "unwinding"}, kind : {"runtime", "restore"}]
      \/ ap[a] \in [at : {"unwind row"}, kind : {"runtime", "restore"}, id : Ids]
      \/ ap[a] \in [at : Normalising, kind : Kinds, id : {0} \cup Ids, value : Configs,
                    any : BOOLEAN]
      \/ ap[a] \in [at : Moving, kind : Kinds, id : {0} \cup Ids, body : Servers,
                    had : BOOLEAN]
  BY Zenon DEF ApplierStates, Moving, Normalising
<1>2. /\ NoApplier.at = "idle"
      /\ \A x \in Normalising : x \notin Moving \cup {"idle", "tx", "manual", "lock", "read",
                                    "unwind", "unwinding", "unwind row"}
      /\ \A x \in Moving : x \notin {"idle", "tx", "manual", "lock", "read",
                                    "unwind", "unwinding", "unwind row"}
  BY DEF NoApplier, Moving, Normalising
<1>3. /\ ap[a] \in [at : Normalising, kind : Kinds, id : {0} \cup Ids, value : Configs,
                    any : BOOLEAN] => ap[a].at \in Normalising
      /\ ap[a] \in [at : Moving, kind : Kinds, id : {0} \cup Ids, body : Servers,
                    had : BOOLEAN] => ap[a].at \in Moving
  OBVIOUS
<1> QED BY <1>1, <1>2, <1>3

LEMMA RequestAt ==
  ASSUME rq \in [Requests -> RequestStates], NEW r \in Requests
  PROVE  /\ rq[r].at = "prepared" =>
              rq[r] \in [at : {"prepared"}, kind : RequestKinds, value : Configs]
         /\ rq[r].at = "begin" => rq[r] \in [at : {"begin"}, kind : {"test", "apply", "save"}]
         /\ rq[r].at \in {"test", "apply", "save", "unstarted"} =>
              rq[r] \in [at : {"test", "apply", "save", "unstarted"}, id : Ids]
BY DEF RequestStates, NoRequest

\* Normalise writes a settings value.
LEMMA CompatibleType ==
  ASSUME NEW v \in Configs
  PROVE  [v EXCEPT !.server = Compatible[@]] \in Configs
BY ApplyAssumption

-----------------------------------------------------------------------------
\* Every step is a statement of one session, or none.
LEMMA ApplierSession ==
  ASSUME IInv, NEW a \in Appliers, ApplierStep(a)
  PROVE  SessionStep(a) \/ UNCHANGED sqlVars
<1>0. ap \in [Appliers -> ApplierStates]
  BY DEF IInv, TypeOK
<1>p. \A i \in PendingIds : i \in Ids
  BY DEF PendingIds
<1>1. CASE Unwind(a)
  BY <1>1, <1>p DEF Unwind, SessionStep
<1>2. CASE Normalise(a)
  <2>1. [ap[a].value EXCEPT !.server = Compatible[@]] \in Configs
    <3>1. ap[a].value \in Configs
      BY <1>0, <1>2, ApplierAt DEF Normalise, Normalising
    <3> QED BY <3>1, CompatibleType
  <2> QED BY <1>2, <1>p, <2>1 DEF Normalise, SessionStep
<1>3. CASE Normalised(a)
  BY <1>3 DEF Normalised, SessionStep
<1>4. CASE CommitTx(a)
  <2>1. ap[a].id \in {0} \cup Ids
    BY <1>0, <1>4, ApplierAt DEF CommitTx, Moving
  <2> QED BY <1>4, <2>1 DEF CommitTx, SessionStep
<1>5. CASE RollbackTx(a)
  BY <1>5, <1>p DEF RollbackTx, SessionStep
<1>6. CASE TakeLock(a) \/ EntryFails(a) \/ ReadTx(a) \/ ReadSettings(a) \/ StopService(a)
             \/ Render(a) \/ TestCandidate(a) \/ SaveBackup(a) \/ Install(a) \/ Restart(a)
             \/ RestoreFiles(a) \/ Finish(a) \/ ManualRollback(a)
  BY <1>6 DEF TakeLock, EntryFails, ReadTx, ReadSettings, StopService, Render, TestCandidate,
              SaveBackup, Install, Restart, RestoreFiles, Finish, ManualRollback
<1> QED BY <1>1, <1>2, <1>3, <1>4, <1>5, <1>6 DEF ApplierStep

LEMMA RequestSession ==
  ASSUME IInv, NEW r \in Requests, RequestStep(r)
  PROVE  SessionStep(r) \/ UNCHANGED sqlVars
<1>0. rq \in [Requests -> RequestStates] /\ settings \in Configs
  BY DEF IInv, TypeOK, SqlTypeOK, TxTypeOK
<1>p. \A i \in PendingIds : i \in Ids
  BY DEF PendingIds
<1>1. CASE BeginRequest(r)
  <2>1. rq[r].at = "prepared" => rq[r].value \in Configs
    BY <1>0, RequestAt
  <2> QED BY <1>1, <2>1 DEF BeginRequest, SessionStep
<1>2. CASE DirectRequest(r)
  <2>1. rq[r].value \in Configs
    BY <1>0, <1>2, RequestAt DEF DirectRequest
  <2>2. [settings EXCEPT !.server = rq[r].value.server] \in Configs
    BY <1>0, <2>1, ApplyAssumption
  <2> QED BY <1>2, <2>1, <2>2 DEF DirectRequest, SessionStep
<1>3. CASE FinishRequest(r) \/ UndoRequest(r)
  BY <1>3, <1>p DEF FinishRequest, UndoRequest, SessionStep
<1>4. CASE JobNotStarted(r) \/ \E a \in Appliers : StartJob(r, a)
  BY <1>4 DEF JobNotStarted, StartJob
<1> QED BY <1>1, <1>2, <1>3, <1>4 DEF RequestStep

\* A killed process loses its call, if it was in one.
LEMMA KillSession ==
  ASSUME IInv, NEW s \in Sessions, call' = [call EXCEPT ![s] = Idle],
         UNCHANGED <<settingsVars, crossed>>
  PROVE  Crash(s) \/ UNCHANGED sqlVars
<1>1. CASE call[s] = Idle
  <2>1. call' = call
    BY <1>1 DEF IInv, TypeOK, SqlTypeOK
  <2> QED BY <2>1 DEF sqlVars, settingsVars
<1>2. CASE call[s] # Idle
  BY <1>2 DEF Crash
<1> QED BY <1>1, <1>2

\* The apply machinery moves the table as sessions of XraySettingsSQL do.
LEMMA StepIsSqlStep ==
  ASSUME IInv, [Next]_applyVars
  PROVE  [SqlNext]_sqlVars
<1> USE ApplyAssumption
<1>1. CASE UNCHANGED applyVars
  BY <1>1 DEF applyVars, sqlVars
<1>2. CASE \E r \in Requests : RequestStep(r)
  BY <1>2, RequestSession DEF SqlNext
<1>3. CASE \E a \in Appliers : ApplierStep(a)
  BY <1>3, ApplierSession DEF SqlNext
<1>4. CASE (\E r \in Requests : KillRequest(r)) \/ (\E a \in Appliers : KillApplier(a))
  BY <1>4, KillSession DEF KillRequest, KillApplier, SqlNext, SessionStep
<1>5. CASE \/ \E r \in Requests : \E kind \in RequestKinds, c \in Configs : Prepare(r, kind, c)
           \/ \E a \in Appliers : \E kind \in ApplierKinds : Start(a, kind)
           \/ ToggleClients \/ \E r \in Readers : ReadCurrent(r) \/ ReadPending(r)
  BY <1>5 DEF Prepare, Start, ToggleClients, ReadCurrent, ReadPending
<1> QED BY <1>1, <1>2, <1>3, <1>4, <1>5 DEF Next

LEMMA TableGood ==
  ASSUME IInv, [Next]_applyVars
  PROVE  StepIsGood /\ [FreshOrOvertaken]_settingsVars
BY StepIsSqlStep, SqlStep DEF IInv

-----------------------------------------------------------------------------
\* Sessions and program counters.
Calling == {"begin", "refine", "undoing", "unwinding"}

LEMMA CallAtCases ==
  ASSUME NEW c, NEW pc
  PROVE  /\ pc = "begin" => (CallAtIs(c, pc) <=> c.at \in {"current", "restore", "insert"})
         /\ pc = "refine" => (CallAtIs(c, pc) <=> c.at = "refine")
         /\ pc \in {"undoing", "unwinding"} => (CallAtIs(c, pc) <=> c.at = "undo")
         /\ pc \notin Calling => (CallAtIs(c, pc) <=> c.at = "idle")
<1>1. CASE pc = "begin"
  BY <1>1 DEF CallAtIs, Calling
<1>2. CASE pc = "refine"
  BY <1>2 DEF CallAtIs, Calling
<1>3. CASE pc \in {"undoing", "unwinding"}
  BY <1>3 DEF CallAtIs, Calling
<1>4. CASE pc \notin Calling
  BY <1>4 DEF CallAtIs, Calling
<1> QED BY <1>1, <1>2, <1>3, <1>4 DEF Calling

\* What a statement leaves of the calls.
LEMMA CallMoved ==
  ASSUME SqlInv, NEW s \in Sessions, SessionStep(s)
  PROVE  /\ \A t \in Sessions : t # s => call'[t] = call[t]
         /\ \A c : SelectOpen(s, c) => call'[s].at \in {"current", "restore"}
         /\ SelectCurrent(s) => call'[s].at = "insert"
         /\ WriteBegin(s) \/ WriteRollback(s) \/ WriteRefine(s) => call'[s].at = "idle"
         /\ \A i : SelectRow(s, i) => call'[s].at = "undo"
         /\ \A i, c : SelectForRefine(s, i, c) => call'[s].at = "refine"
         /\ \A i : WriteCommit(s, i) => call'[s].at = "idle"
         /\ \A c : WriteDirect(s, c) => call'[s].at = "idle"
<1>0. s \in DOMAIN call
  BY DEF SqlInv, SqlTypeOK
<1>1. \A t \in Sessions : t # s => call'[t] = call[t]
  BY DEF SqlInv, SqlTypeOK, SessionStep, SelectOpen, SelectCurrent, WriteBegin, WriteRollback,
    WriteRefine, SelectRow, SelectForRefine, WriteCommit, WriteDirect, Crash, Return
<1>2. ASSUME NEW c, SelectOpen(s, c)
      PROVE  call'[s].at \in {"current", "restore"}
  BY <1>0, <1>2 DEF SelectOpen
<1>3. SelectCurrent(s) => call'[s].at = "insert"
  BY <1>0 DEF SelectCurrent
<1>4. WriteBegin(s) \/ WriteRollback(s) \/ WriteRefine(s) => call'[s].at = "idle"
  BY <1>0 DEF WriteBegin, WriteRollback, WriteRefine, Return, Idle
<1>5. \A i : SelectRow(s, i) => call'[s].at = "undo"
  BY <1>0 DEF SelectRow
<1>6. \A i, c : SelectForRefine(s, i, c) => call'[s].at = "refine"
  BY <1>0 DEF SelectForRefine
<1>7. \A i : WriteCommit(s, i) => call'[s].at = "idle"
  BY DEF WriteCommit, Idle
<1>8. \A c : WriteDirect(s, c) => call'[s].at = "idle"
  BY DEF WriteDirect, Idle
<1> QED BY <1>1, <1>2, <1>3, <1>4, <1>5, <1>6, <1>7, <1>8

LEMMA CallsKept ==
  ASSUME IInv, UNCHANGED <<call, ap, rq>>
  PROVE  CallsMatch'
BY DEF IInv, TypeOK, CallsMatch, CallAtIs

\* The counter of a request as CallsMatch reads it.
RequestPc(st) == IF st.at = "undo" THEN "undoing" ELSE st.at

\* One applier, or one request, moves.
LEMMA ApplierCalls ==
  ASSUME IInv, NEW a \in Appliers, NEW st, ap' = [ap EXCEPT ![a] = st], UNCHANGED rq,
         SessionStep(a) \/ UNCHANGED sqlVars, CallAtIs(call'[a], st.at)
  PROVE  CallsMatch'
<1>0. /\ ap \in [Appliers -> ApplierStates] /\ rq \in [Requests -> RequestStates]
      /\ CallsMatch
  BY DEF IInv, TypeOK
<1>1. \A t \in Sessions : t # a => call'[t] = call[t]
  BY CallMoved, ApplyAssumption DEF sqlVars, IInv
<1>2. ASSUME NEW b \in Appliers PROVE CallAtIs(call'[b], ap'[b].at)
  <2>1. CASE b = a
    BY <1>0, <2>1
  <2>2. CASE b # a
    BY <1>0, <1>1, <2>2, ApplyAssumption DEF CallsMatch
  <2> QED BY <2>1, <2>2
<1>3. ASSUME NEW r \in Requests PROVE CallAtIs(call'[r], RequestPc(rq'[r]))
  <2>1. r # a /\ r \in Sessions
    BY ApplyAssumption
  <2> QED BY <1>0, <1>1, <2>1 DEF CallsMatch, RequestPc
<1> QED BY <1>2, <1>3 DEF CallsMatch, RequestPc, CallAtIs

LEMMA RequestCalls ==
  ASSUME IInv, NEW r \in Requests, NEW st, rq' = [rq EXCEPT ![r] = st], UNCHANGED ap,
         SessionStep(r) \/ UNCHANGED sqlVars, CallAtIs(call'[r], RequestPc(st))
  PROVE  CallsMatch'
<1>0. /\ ap \in [Appliers -> ApplierStates] /\ rq \in [Requests -> RequestStates]
      /\ CallsMatch
  BY DEF IInv, TypeOK
<1>1. \A t \in Sessions : t # r => call'[t] = call[t]
  BY CallMoved, ApplyAssumption DEF sqlVars, IInv
<1>2. ASSUME NEW b \in Appliers PROVE CallAtIs(call'[b], ap'[b].at)
  <2>1. b # r /\ b \in Sessions
    BY ApplyAssumption
  <2> QED BY <1>0, <1>1, <2>1 DEF CallsMatch
<1>3. ASSUME NEW q \in Requests PROVE CallAtIs(call'[q], RequestPc(rq'[q]))
  <2>1. CASE q = r
    BY <1>0, <2>1
  <2>2. CASE q # r
    BY <1>0, <1>1, <2>2, ApplyAssumption DEF CallsMatch, RequestPc
  <2> QED BY <2>1, <2>2
<1> QED BY <1>2, <1>3 DEF CallsMatch, RequestPc, CallAtIs
-----------------------------------------------------------------------------
\* Locks, sessions and types.

\* No call before, none after.
LEMMA PlainCall ==
  ASSUME IInv, NEW a \in Appliers, NEW st, UNCHANGED sqlVars,
         ap[a].at \notin Calling, st.at \notin Calling
  PROVE  CallAtIs(call'[a], st.at)
<1>1. call'[a] = call[a] /\ CallAtIs(call[a], ap[a].at)
  BY DEF IInv, TypeOK, CallsMatch, sqlVars
<1> QED BY <1>1, CallAtCases

\* An applier that moves without touching the lock keeps the lock discipline.
LEMMA MoveKeeps ==
  ASSUME IInv, NEW a \in Appliers, NEW st \in ApplierStates, UNCHANGED rq,
         ap' = [ap EXCEPT ![a] = st], lock' = lock, Holds(st) <=> Holds(ap[a]),
         SessionStep(a) \/ UNCHANGED sqlVars, CallAtIs(call'[a], st.at)
  PROVE  ap' \in [Appliers -> ApplierStates] /\ LockMatches' /\ CallsMatch'
<1>1. ap \in [Appliers -> ApplierStates] /\ LockMatches
  BY DEF IInv, TypeOK
<1>2. \A b \in Appliers : Holds(ap'[b]) <=> Holds(ap[b])
  BY <1>1
<1>3. CallsMatch'
  BY ApplierCalls
<1> QED BY <1>1, <1>2, <1>3 DEF LockMatches, Holds

\* So does one that drops the lock, if it has it.
LEMMA DropKeeps ==
  ASSUME IInv, NEW a \in Appliers, NEW st \in ApplierStates, UNCHANGED rq,
         ap' = [ap EXCEPT ![a] = st], lock' = IF lock = a THEN "free" ELSE lock, ~Holds(st),
         SessionStep(a) \/ UNCHANGED sqlVars, CallAtIs(call'[a], st.at)
  PROVE  ap' \in [Appliers -> ApplierStates] /\ LockMatches' /\ CallsMatch'
<1>1. ap \in [Appliers -> ApplierStates] /\ LockMatches
  BY DEF IInv, TypeOK
<1>2. \A b \in Appliers : b # a => Holds(ap'[b]) <=> Holds(ap[b])
  BY <1>1
<1>3. ~Holds(ap'[a])
  BY <1>1
<1>4. \A b \in Appliers : (lock' = b) <=> Holds(ap'[b])
  BY <1>1, <1>2, <1>3, ApplyAssumption DEF LockMatches
<1>5. CallsMatch'
  BY ApplierCalls
<1> QED BY <1>1, <1>4, <1>5 DEF LockMatches, Holds

LEMMA IdleApplier ==
  NoApplier \in ApplierStates /\ ~Holds(NoApplier) /\ NoApplier.at \notin Calling
BY DEF ApplierStates, Holds, NoApplier, Calling

LEMMA ReleaseKeeps ==
  ASSUME IInv, NEW a \in Appliers, Release(a), UNCHANGED rq,
         SessionStep(a) \/ UNCHANGED sqlVars, call'[a].at = "idle"
  PROVE  ap' \in [Appliers -> ApplierStates] /\ LockMatches' /\ CallsMatch'
<1>1. CallAtIs(call'[a], NoApplier.at)
  BY IdleApplier, CallAtCases
<1> QED BY <1>1, IdleApplier, DropKeeps DEF Release

LEMMA RaiseKeeps ==
  ASSUME IInv, NEW a \in Appliers, Raise(a), UNCHANGED rq, UNCHANGED sqlVars,
         ap[a].at \notin Calling
  PROVE  ap' \in [Appliers -> ApplierStates] /\ LockMatches' /\ CallsMatch'
<1>1. PICK st : /\ ap' = [ap EXCEPT ![a] = st]
                /\ \/ st = NoApplier
                   \/ /\ ap[a].kind \in {"runtime", "restore"}
                      /\ st = [at |-> "unwind", kind |-> ap[a].kind]
  BY DEF Raise
<1>2. st \in ApplierStates /\ ~Holds(st) /\ st.at \notin Calling
  <2>1. CASE st = NoApplier
    BY <2>1, IdleApplier
  <2>2. CASE /\ ap[a].kind \in {"runtime", "restore"}
             /\ st = [at |-> "unwind", kind |-> ap[a].kind]
    BY <2>2 DEF ApplierStates, Holds, Calling
  <2> QED BY <1>1, <2>1, <2>2
<1>3. CallAtIs(call'[a], st.at)
  BY <1>2, PlainCall
<1> QED BY <1>1, <1>2, <1>3, DropKeeps DEF Raise

LEMMA TakeKeeps ==
  ASSUME IInv, NEW a \in Appliers, TakeLock(a)
  PROVE  ap' \in [Appliers -> ApplierStates] /\ LockMatches' /\ CallsMatch'
<1>1. ap \in [Appliers -> ApplierStates] /\ LockMatches /\ call[a].at = "idle"
  BY CallAtCases DEF IInv, TypeOK, CallsMatch, TakeLock, Calling
<1>2. CASE Release(a)
  BY <1>1, <1>2, ReleaseKeeps DEF TakeLock, sqlVars
<1>3. CASE lock' = a /\ ap' = [ap EXCEPT ![a] = [at |-> "tx", kind |-> ap[a].kind]]
  <2> DEFINE st == [at |-> "tx", kind |-> ap[a].kind]
  <2>1. ap[a].kind \in Locked
    BY <1>1, ApplierAt DEF TakeLock
  <2>2. st \in ApplierStates /\ Holds(st) /\ st.at \notin Calling /\ ap[a].at \notin Calling
    BY <2>1 DEF ApplierStates, Holds, Kinds, Calling, TakeLock
  <2>3. lock = "free"
    BY DEF TakeLock
  <2>4. \A b \in Appliers : ~Holds(ap[b])
    BY <1>1, <2>3, ApplyAssumption DEF LockMatches
  <2>5. \A b \in Appliers : Holds(ap'[b]) <=> b = a
    BY <1>1, <1>3, <2>2, <2>4
  <2>6. \A b \in Appliers : (lock' = b) <=> Holds(ap'[b])
    BY <1>3, <2>5
  <2>7. CallsMatch'
    <3>1. CallAtIs(call'[a], st.at)
      BY <2>2, PlainCall DEF TakeLock
    <3> QED BY <1>3, <3>1, ApplierCalls DEF TakeLock
  <2> QED BY <1>1, <1>3, <2>2, <2>6, <2>7 DEF LockMatches, Holds
<1> QED BY <1>2, <1>3 DEF TakeLock

\* Types, lock discipline and sessions are kept by each step of an applier.
LEMMA ApplierTypes ==
  ASSUME IInv, NEW a \in Appliers, ApplierStep(a)
  PROVE  /\ ap' \in [Appliers -> ApplierStates] /\ LockMatches' /\ CallsMatch'
         /\ FilesTypeOK'
<1>0. /\ ap \in [Appliers -> ApplierStates] /\ FilesTypeOK /\ enabled \in BOOLEAN
      /\ settings \in Configs /\ Pending \in {0} \cup Ids /\ PendingIds \subseteq Ids
      /\ CallAtIs(call[a], ap[a].at) /\ SqlInv /\ a \in Sessions
  BY PendingType, ApplyAssumption
    DEF IInv, TypeOK, SqlTypeOK, TxTypeOK, CallsMatch, PendingIds
<1>s. UNCHANGED rq /\ (SessionStep(a) \/ UNCHANGED sqlVars)
  BY ApplierSession DEF ApplierStep, TakeLock, EntryFails, Unwind, ReadTx, ReadSettings,
    Normalise, Normalised, StopService, Render, TestCandidate, SaveBackup, Install, Restart,
    CommitTx, RestoreFiles, RollbackTx, Finish, ManualRollback
<1>c. UNCHANGED call /\ ap[a].at \notin Calling => call'[a].at = "idle"
  BY <1>0, CallAtCases
<1> USE <1>0
<1>f. ASSUME UNCHANGED files PROVE FilesTypeOK'
  BY <1>f DEF FilesTypeOK, files
\* To a state with or without a call, the lock as it is.
<1>m. ASSUME NEW st \in ApplierStates, ap' = [ap EXCEPT ![a] = st], UNCHANGED lock,
             Holds(st) <=> Holds(ap[a]), CallAtIs(call'[a], st.at)
      PROVE  ap' \in [Appliers -> ApplierStates] /\ LockMatches' /\ CallsMatch'
  BY <1>m, <1>s, MoveKeeps
<1>p. ASSUME NEW st \in ApplierStates, ap' = [ap EXCEPT ![a] = st], UNCHANGED lock,
             Holds(st) <=> Holds(ap[a]), UNCHANGED sqlVars,
             ap[a].at \notin Calling, st.at \notin Calling
      PROVE  ap' \in [Appliers -> ApplierStates] /\ LockMatches' /\ CallsMatch'
  BY <1>p, <1>m, PlainCall
\* The counter moves, the rest of the applier stays.
<1>n. ASSUME NEW pc \in Normalising, NEW id \in {0} \cup Ids,
             ap[a].at \in Normalising, UNCHANGED lock,
             ap' = [ap EXCEPT ![a] = [ap[a] EXCEPT !.at = pc, !.id = id]],
             CallAtIs(call'[a], pc)
      PROVE  ap' \in [Appliers -> ApplierStates] /\ LockMatches' /\ CallsMatch'
  <2> DEFINE st == [ap[a] EXCEPT !.at = pc, !.id = id]
  <2>1. ap[a] \in [at : Normalising, kind : Kinds, id : {0} \cup Ids, value : Configs,
                   any : BOOLEAN]
    BY <1>n, ApplierAt
  <2>2. /\ st \in [at : Normalising, kind : Kinds, id : {0} \cup Ids, value : Configs,
                   any : BOOLEAN]
        /\ st.kind = ap[a].kind /\ st.at = pc
    BY <1>n, <2>1
  <2>3. st \in ApplierStates
    BY <2>2 DEF ApplierStates, Normalising
  <2>4. Holds(st) <=> Holds(ap[a])
    BY <1>n, <2>2 DEF Holds, Normalising
  <2>5. ap' = [ap EXCEPT ![a] = st]
    BY <1>n
  <2> HIDE DEF st
  <2> QED BY <1>n, <1>m, <2>2, <2>3, <2>4, <2>5
<1>g. ASSUME NEW pc \in Moving, ap[a].at \in Moving, UNCHANGED lock,
             ap' = [ap EXCEPT ![a] = [ap[a] EXCEPT !.at = pc]], CallAtIs(call'[a], pc)
      PROVE  ap' \in [Appliers -> ApplierStates] /\ LockMatches' /\ CallsMatch'
  <2> DEFINE st == [ap[a] EXCEPT !.at = pc]
  <2>1. ap[a] \in [at : Moving, kind : Kinds, id : {0} \cup Ids, body : Servers, had : BOOLEAN]
    BY <1>g, ApplierAt
  <2>2. /\ st \in [at : Moving, kind : Kinds, id : {0} \cup Ids, body : Servers, had : BOOLEAN]
        /\ st.kind = ap[a].kind /\ st.at = pc
    BY <1>g, <2>1
  <2>3. st \in ApplierStates
    BY <2>2 DEF ApplierStates, Moving
  <2>4. Holds(st) <=> Holds(ap[a])
    BY <1>g, <2>2 DEF Holds, Moving
  <2>5. ap' = [ap EXCEPT ![a] = st]
    BY <1>g
  <2> HIDE DEF st
  <2> QED BY <1>g, <1>m, <2>2, <2>3, <2>4, <2>5
<1>h. ASSUME NEW pc \in Moving \ {"undoing"}, ap[a].at \in Moving \ {"undoing"}, UNCHANGED lock,
             ap' = [ap EXCEPT ![a] = [ap[a] EXCEPT !.at = pc]],
             UNCHANGED call \/ call'[a].at = "idle"
      PROVE  ap' \in [Appliers -> ApplierStates] /\ LockMatches' /\ CallsMatch'
  <2>1. pc \notin Calling /\ ap[a].at \notin Calling
    BY <1>h DEF Moving, Calling
  <2>2. CallAtIs(call'[a], pc)
    BY <1>h, <1>c, <2>1, CallAtCases
  <2> QED BY <1>g, <1>h, <2>2
<1>1. CASE TakeLock(a)
  BY <1>1, <1>f, TakeKeeps DEF TakeLock
<1>2. CASE EntryFails(a)
  <2>1. ap[a].at \notin Calling
    BY <1>2 DEF EntryFails, Calling
  <2> QED BY <1>2, <1>f, <1>s, <2>1, RaiseKeeps DEF EntryFails
<1>3. CASE Finish(a) \/ StopService(a) \/ ManualRollback(a)
  <2>1. ap[a].at \notin Calling /\ UNCHANGED call /\ Release(a)
    BY <1>3 DEF Finish, StopService, ManualRollback, Calling, sqlVars
  <2>2. ap' \in [Appliers -> ApplierStates] /\ LockMatches' /\ CallsMatch'
    BY <1>c, <1>s, <2>1, ReleaseKeeps
  <2>3. FilesTypeOK'
    BY <1>3 DEF Finish, StopService, ManualRollback, FilesTypeOK, Bodies, files
  <2> QED BY <2>2, <2>3
<1>4. CASE Unwind(a)
  <2>0. UNCHANGED <<files, lock>> /\ FilesTypeOK' /\ ~Holds(ap[a])
    BY <1>4, <1>f DEF Unwind, Holds
  <2>i. ASSUME ap' = [ap EXCEPT ![a] = NoApplier], call'[a].at = "idle"
        PROVE  ap' \in [Appliers -> ApplierStates] /\ LockMatches' /\ CallsMatch'
    BY <2>0, <2>i, <1>m, IdleApplier, CallAtCases
  <2>1. CASE ap[a].at = "unwind"
    <3>1. UNCHANGED sqlVars /\ ap[a].at \notin Calling
      BY <1>4, <2>1 DEF Unwind, Calling
    <3>2. CASE Pending = 0
      <4>1. ap' = [ap EXCEPT ![a] = NoApplier]
        BY <1>4, <2>1, <3>2 DEF Unwind
      <4>2. call'[a].at = "idle"
        BY <1>c, <3>1 DEF sqlVars
      <4> QED BY <2>0, <2>i, <4>1, <4>2
    <3>3. CASE Pending # 0
      <4>1. PICK st : st = [at |-> "unwind row", kind |-> ap[a].kind, id |-> Pending]
        OBVIOUS
      <4>2. ap[a].kind \in {"runtime", "restore"}
        BY <2>1, ApplierAt
      <4>3. st \in ApplierStates /\ ~Holds(st) /\ st.at \notin Calling
        BY <3>3, <4>1, <4>2 DEF ApplierStates, Holds, Calling
      <4>4. ap' = [ap EXCEPT ![a] = st]
        BY <1>4, <2>1, <3>3, <4>1 DEF Unwind
      <4> QED BY <1>p, <2>0, <3>1, <4>3, <4>4
    <3> QED BY <2>0, <3>2, <3>3
  <2>2. CASE ap[a].at = "unwind row" /\ ap[a].id \in PendingIds
    <3>1. PICK st : st = [at |-> "unwinding", kind |-> ap[a].kind]
      OBVIOUS
    <3>2. ap[a].kind \in {"runtime", "restore"}
      BY <2>2, ApplierAt
    <3>3. st \in ApplierStates /\ ~Holds(st)
      BY <3>1, <3>2 DEF ApplierStates, Holds
    <3>4. ap' = [ap EXCEPT ![a] = st] /\ SelectRow(a, ap[a].id)
      BY <1>4, <2>2, <3>1 DEF Unwind
    <3>5. CallAtIs(call'[a], st.at)
      <4>1. SessionStep(a)
        BY <2>2, <3>4 DEF SessionStep
      <4>2. call'[a].at = "undo"
        BY <3>4, <4>1, CallMoved
      <4> QED BY <3>1, <4>2, CallAtCases
    <3> QED BY <1>m, <2>0, <3>3, <3>4, <3>5
  <2>3. CASE ap[a].at = "unwind row" /\ ap[a].id \notin PendingIds
    <3>1. UNCHANGED sqlVars /\ ap[a].at \notin Calling /\ ap' = [ap EXCEPT ![a] = NoApplier]
      BY <1>4, <2>3 DEF Unwind, Calling
    <3> QED BY <1>c, <2>0, <2>i, <3>1 DEF sqlVars
  <2>4. CASE ap[a].at = "unwinding"
    <3>1. WriteRollback(a) /\ ap' = [ap EXCEPT ![a] = NoApplier]
      BY <1>4, <2>4 DEF Unwind
    <3>2. call'[a].at = "idle"
      BY <3>1, CallMoved DEF SessionStep
    <3> QED BY <2>0, <2>i, <3>1, <3>2
  <2> QED BY <1>4, <2>1, <2>2, <2>3, <2>4 DEF Unwind
<1>5. CASE ReadTx(a)
  <2> DEFINE st == [at |-> "read", kind |-> ap[a].kind, id |-> Pending]
  <2>1. /\ st \in ApplierStates /\ (Holds(st) <=> Holds(ap[a]))
        /\ st.at \notin Calling /\ ap[a].at \notin Calling
    BY <1>5, ApplierAt DEF ReadTx, ApplierStates, Holds, Calling
  <2>2. ap' = [ap EXCEPT ![a] = st] /\ lock' = lock /\ UNCHANGED files /\ UNCHANGED sqlVars
    BY <1>5 DEF ReadTx
  <2> HIDE DEF st
  <2> QED BY <1>f, <1>p, <2>1, <2>2
<1>6. CASE ReadSettings(a)
  <2> DEFINE st == [at |-> IF settings.server \in Legacy THEN "compat" ELSE "rows",
                    kind |-> ap[a].kind, id |-> ap[a].id, value |-> settings,
                    any |-> enabled \/ ap[a].kind = "restore"]
  <2>1. /\ st \in ApplierStates /\ (Holds(st) <=> Holds(ap[a]))
        /\ st.at \notin Calling /\ ap[a].at \notin Calling
    BY <1>6, ApplierAt DEF ReadSettings, ApplierStates, Holds, Calling
  <2>2. ap' = [ap EXCEPT ![a] = st] /\ lock' = lock /\ UNCHANGED files /\ UNCHANGED sqlVars
    BY <1>6 DEF ReadSettings
  <2> HIDE DEF st
  <2> QED BY <1>f, <1>p, <2>1, <2>2
<1>7. CASE Normalise(a)
  <2>0. /\ FilesTypeOK' /\ ap[a].at = "compat" /\ ap[a].at \in Normalising
        /\ ap[a].at \notin Calling /\ Normalising = {"compat", "refine", "reread", "begin", "rows"}
    BY <1>7, <1>f DEF Normalise, Normalising, Calling
  <2>1. ap[a].id \in {0} \cup Ids
    BY <2>0, ApplierAt
  <2>2. ASSUME NEW pc \in Normalising, ap' = [ap EXCEPT ![a].at = pc], UNCHANGED lock,
               CallAtIs(call'[a], pc)
        PROVE  ap' \in [Appliers -> ApplierStates] /\ LockMatches' /\ CallsMatch'
    <3>1. ap[a] \in [at : Normalising, kind : Kinds, id : {0} \cup Ids, value : Configs,
                     any : BOOLEAN]
      BY <2>0, ApplierAt
    <3>2. [ap[a] EXCEPT !.at = pc] = [ap[a] EXCEPT !.at = pc, !.id = ap[a].id]
      BY <3>1
    <3>3. ap' = [ap EXCEPT ![a] = [ap[a] EXCEPT !.at = pc, !.id = ap[a].id]]
      BY <2>2, <3>2
    <3> QED BY <1>n, <2>0, <2>1, <2>2, <3>3
  <2>3. ASSUME NEW c, SelectForRefine(a, ap[a].id, c), ap[a].id \in PendingIds,
               ap' = [ap EXCEPT ![a].at = "refine"], UNCHANGED lock
        PROVE  ap' \in [Appliers -> ApplierStates] /\ LockMatches' /\ CallsMatch'
    <3>1. call'[a].at = "refine"
      BY <2>3 DEF SelectForRefine, SqlInv, SqlTypeOK
    <3> QED BY <2>0, <2>2, <2>3, <3>1, CallAtCases
  <2>4. ASSUME UNCHANGED sqlVars, Raise(a)
        PROVE  ap' \in [Appliers -> ApplierStates] /\ LockMatches' /\ CallsMatch'
    BY <1>s, <2>0, <2>4, RaiseKeeps
  <2>5. ASSUME NEW c, WriteDirect(a, c), ap' = [ap EXCEPT ![a].at = "rows"], UNCHANGED lock
        PROVE  ap' \in [Appliers -> ApplierStates] /\ LockMatches' /\ CallsMatch'
    <3>1. call'[a].at = "idle" /\ "rows" \notin Calling
      BY <2>5 DEF WriteDirect, Idle, Calling
    <3> QED BY <2>0, <2>2, <2>5, <3>1, CallAtCases
  <2>6. ASSUME NEW c, SelectOpen(a, c), ap' = [ap EXCEPT ![a].at = "begin"], UNCHANGED lock
        PROVE  ap' \in [Appliers -> ApplierStates] /\ LockMatches' /\ CallsMatch'
    <3>1. call'[a].at \in {"current", "restore"}
      BY <2>6 DEF SelectOpen, SqlInv, SqlTypeOK
    <3> QED BY <2>0, <2>2, <2>6, <3>1, CallAtCases
  <2> QED BY <1>7, <2>0, <2>3, <2>4, <2>5, <2>6 DEF Normalise
<1>8. CASE Normalised(a)
  <2>0. /\ FilesTypeOK' /\ ap[a].at \in Normalising /\ UNCHANGED lock
        /\ Normalising = {"compat", "refine", "reread", "begin", "rows"}
        /\ "rows" \notin Calling /\ "reread" \notin Calling
    BY <1>8, <1>f DEF Normalised, Normalising, Calling
  <2>1. /\ ap[a].id \in {0} \cup Ids
        /\ \A pc : [ap[a] EXCEPT !.at = pc] = [ap[a] EXCEPT !.at = pc, !.id = ap[a].id]
        /\ ap[a] = [ap[a] EXCEPT !.at = ap[a].at, !.id = ap[a].id]
    <3>1. ap[a] \in [at : Normalising, kind : Kinds, id : {0} \cup Ids, value : Configs,
                     any : BOOLEAN]
      BY <2>0, ApplierAt
    <3> QED BY <3>1
  <2>2. CASE ap[a].at = "begin" /\ SelectCurrent(a) /\ UNCHANGED ap
    <3>1. call'[a].at = "insert"
      BY <2>2, CallMoved DEF SessionStep
    <3>2. ap' = [ap EXCEPT ![a] = [ap[a] EXCEPT !.at = "begin", !.id = ap[a].id]]
      BY <2>1, <2>2
    <3>3. CallAtIs(call'[a], "begin")
      BY <3>1, CallAtCases
    <3> QED BY <1>n, <2>0, <2>1, <3>2, <3>3
  <2>3. CASE ap[a].at = "begin" /\ WriteBegin(a)
    <3>1. call'[a].at = "idle" /\ nextId \in Ids
      BY <2>3, CallMoved DEF SessionStep, WriteBegin
    <3>2. ap' = [ap EXCEPT ![a] = [ap[a] EXCEPT !.at = "rows", !.id = nextId]]
      BY <1>8, <2>3 DEF Normalised, WriteBegin, SelectCurrent
    <3>3. CallAtIs(call'[a], "rows")
      BY <2>0, <3>1, CallAtCases
    <3> QED BY <1>n, <2>0, <3>1, <3>2, <3>3
  <2>4. CASE ap[a].at = "refine"
    <3>1. call'[a].at = "idle"
      BY <1>8, <2>4, CallMoved DEF Normalised, SessionStep
    <3>2. ap' = [ap EXCEPT ![a] = [ap[a] EXCEPT !.at = "reread", !.id = ap[a].id]]
      BY <1>8, <2>1, <2>4 DEF Normalised
    <3>3. CallAtIs(call'[a], "reread")
      BY <2>0, <3>1, CallAtCases
    <3> QED BY <1>n, <2>0, <2>1, <3>2, <3>3
  <2>5. CASE ap[a].at = "reread"
    <3>1. call'[a].at = "idle"
      BY <1>8, <1>c, <2>0, <2>5 DEF Normalised, sqlVars
    <3>2. ap' = [ap EXCEPT ![a] = [ap[a] EXCEPT !.at = "rows", !.id = Pending]]
      BY <1>8, <2>5 DEF Normalised
    <3>3. CallAtIs(call'[a], "rows")
      BY <2>0, <3>1, CallAtCases
    <3> QED BY <1>n, <2>0, <3>2, <3>3
  <2> QED BY <1>8, <2>0, <2>2, <2>3, <2>4, <2>5 DEF Normalised
<1>9. CASE Render(a)
  <2>1. PICK next \in {"test", "failed"} :
             ap' = [ap EXCEPT ![a] = [at |-> next, kind |-> ap[a].kind, id |-> ap[a].id,
                                      body |-> settings.server, had |-> live # NoFile]]
    BY <1>9 DEF Render, Rendered
  <2> DEFINE st == [at |-> next, kind |-> ap[a].kind, id |-> ap[a].id,
                    body |-> settings.server, had |-> live # NoFile]
  <2>2. ap[a].kind \in Kinds /\ ap[a].id \in {0} \cup Ids /\ settings.server \in Servers
    BY <1>9, ApplierAt, ApplyAssumption DEF Render, Normalising
  <2>3. /\ st \in ApplierStates /\ (Holds(st) <=> Holds(ap[a]))
        /\ st.at \notin Calling /\ ap[a].at \notin Calling
    BY <1>9, <2>2 DEF Render, ApplierStates, Holds, Calling
  <2>4. ap' = [ap EXCEPT ![a] = st] /\ lock' = lock /\ UNCHANGED sqlVars
    BY <1>9, <2>1 DEF Render
  <2>5. FilesTypeOK'
    BY <1>9, <2>2 DEF Render, Rendered, FilesTypeOK, Bodies
  <2> HIDE DEF st
  <2> QED BY <1>p, <2>3, <2>4, <2>5
<1>10. CASE TestCandidate(a)
  BY <1>10, <1>h, <1>f DEF TestCandidate, sqlVars, Moving
<1>11. CASE SaveBackup(a)
  BY <1>11, <1>h DEF SaveBackup, FilesTypeOK, Bodies, sqlVars, Moving
<1>12. CASE Install(a)
  <2>1. ap[a].body \in Servers
    BY <1>12, ApplierAt DEF Install, Moving
  <2> QED BY <1>12, <1>h, <2>1 DEF Install, FilesTypeOK, Bodies, sqlVars, Moving
<1>13. CASE Restart(a)
  BY <1>13, <1>h DEF Restart, FilesTypeOK, Bodies, sqlVars, Moving
<1>14. CASE CommitTx(a)
  BY <1>14, <1>h, <1>f DEF CommitTx, WriteCommit, sqlVars, Moving
<1>15. CASE RestoreFiles(a)
  BY <1>15, <1>h DEF RestoreFiles, FilesTypeOK, Bodies, sqlVars, Moving
<1>16. CASE RollbackTx(a)
  <2>0. FilesTypeOK' /\ UNCHANGED lock
    BY <1>16, <1>f DEF RollbackTx
  <2>1. CASE ap[a].at = "undo" /\ ap[a].id \in PendingIds
    <3>1. call'[a].at = "undo" /\ ap' = [ap EXCEPT ![a] = [ap[a] EXCEPT !.at = "undoing"]]
      BY <1>16, <2>1, CallMoved DEF RollbackTx, SessionStep
    <3> QED BY <1>g, <2>0, <2>1, <3>1, CallAtCases DEF Moving
  <2>2. CASE ap[a].at = "undo" /\ ap[a].id \notin PendingIds
    BY <1>16, <1>h, <2>0, <2>2 DEF RollbackTx, sqlVars, Moving
  <2>3. CASE ap[a].at = "undoing"
    <3>1. call'[a].at = "idle" /\ ap' = [ap EXCEPT ![a] = [ap[a] EXCEPT !.at = "done"]]
      BY <1>16, <2>3, CallMoved DEF RollbackTx, SessionStep
    <3>2. CallAtIs(call'[a], "done")
      BY <3>1, CallAtCases DEF Calling
    <3> QED BY <1>g, <2>0, <2>3, <3>1, <3>2 DEF Moving
  <2> QED BY <1>16, <2>1, <2>2, <2>3 DEF RollbackTx
<1> QED BY <1>1, <1>2, <1>3, <1>4, <1>5, <1>6, <1>7, <1>8, <1>9, <1>10, <1>11, <1>12,
           <1>13, <1>14, <1>15, <1>16 DEF ApplierStep

\* ... and by each step of a request.
LEMMA RequestTypes ==
  ASSUME IInv, NEW r \in Requests, RequestStep(r)
  PROVE  /\ rq' \in [Requests -> RequestStates]
         /\ ap' \in [Appliers -> ApplierStates] /\ LockMatches' /\ CallsMatch'
<1>0. /\ rq \in [Requests -> RequestStates] /\ ap \in [Appliers -> ApplierStates]
      /\ LockMatches /\ CallAtIs(call[r], RequestPc(rq[r])) /\ SqlInv /\ r \in Sessions
  BY ApplyAssumption DEF IInv, TypeOK, CallsMatch, RequestPc
<1>s. SessionStep(r) \/ UNCHANGED sqlVars
  BY RequestSession
<1> USE <1>0
<1>m. ASSUME NEW st \in RequestStates, rq' = [rq EXCEPT ![r] = st], UNCHANGED <<lock, ap>>,
             CallAtIs(call'[r], RequestPc(st))
      PROVE  /\ rq' \in [Requests -> RequestStates]
             /\ ap' \in [Appliers -> ApplierStates] /\ LockMatches' /\ CallsMatch'
  <2>1. CallsMatch'
    BY <1>m, <1>s, RequestCalls
  <2> QED BY <1>m, <2>1 DEF LockMatches
\* Back to rest, no call under way.
<1>i. ASSUME rq' = [rq EXCEPT ![r] = NoRequest], UNCHANGED <<lock, ap>>, call'[r].at = "idle"
      PROVE  /\ rq' \in [Requests -> RequestStates]
             /\ ap' \in [Appliers -> ApplierStates] /\ LockMatches' /\ CallsMatch'
  <2>1. NoRequest \in RequestStates /\ RequestPc(NoRequest) \notin Calling
    BY DEF RequestStates, NoRequest, RequestPc, Calling
  <2> QED BY <1>i, <1>m, <2>1, CallAtCases
<1>c. UNCHANGED call /\ RequestPc(rq[r]) \notin Calling => call'[r].at = "idle"
  BY CallAtCases
<1>1. CASE BeginRequest(r)
  <2>1. CASE /\ rq[r].at = "prepared" /\ rq[r].kind \in {"test", "apply", "save"}
             /\ SelectOpen(r, rq[r].value)
             /\ rq' = [rq EXCEPT ![r] = [at |-> "begin", kind |-> @.kind]]
    <3>1. PICK st : st = [at |-> "begin", kind |-> rq[r].kind]
      OBVIOUS
    <3>2. st \in RequestStates /\ RequestPc(st) = "begin" /\ rq' = [rq EXCEPT ![r] = st]
      BY <2>1, <3>1 DEF RequestStates, RequestPc
    <3>3. rq[r].value \in Configs
      BY <2>1, RequestAt
    <3>4. call'[r].at \in {"current", "restore"}
      BY <2>1, <3>3, CallMoved DEF SessionStep
    <3> QED BY <1>1, <1>m, <3>2, <3>4, CallAtCases DEF BeginRequest
  <2>2. CASE rq[r].at = "begin" /\ SelectCurrent(r) /\ UNCHANGED rq
    <3>1. call'[r].at = "insert"
      BY <2>2, CallMoved DEF SessionStep
    <3>2. RequestPc(rq[r]) = "begin" /\ rq[r] \in RequestStates /\ rq' = [rq EXCEPT ![r] = rq[r]]
      BY <2>2 DEF RequestPc
    <3> QED BY <1>1, <1>m, <3>1, <3>2, CallAtCases DEF BeginRequest
  <2>3. CASE /\ rq[r].at = "begin" /\ WriteBegin(r)
             /\ rq' = [rq EXCEPT ![r] = [at |-> @.kind, id |-> nextId]]
    <3>1. PICK st : st = [at |-> rq[r].kind, id |-> nextId]
      OBVIOUS
    <3>2. rq[r].kind \in {"test", "apply", "save"} /\ nextId \in Ids
      BY <2>3, RequestAt DEF WriteBegin
    <3>3. /\ st \in RequestStates /\ RequestPc(st) \notin Calling
          /\ rq' = [rq EXCEPT ![r] = st]
      BY <2>3, <3>1, <3>2 DEF RequestStates, RequestPc, Calling
    <3>4. call'[r].at = "idle"
      BY <2>3, CallMoved DEF SessionStep
    <3> QED BY <1>1, <1>m, <3>3, <3>4, CallAtCases DEF BeginRequest
  <2> QED BY <1>1, <2>1, <2>2, <2>3 DEF BeginRequest
<1>2. CASE DirectRequest(r)
  <2>1. call'[r].at = "idle"
    BY <1>2 DEF DirectRequest, WriteDirect, Idle
  <2> QED BY <1>2, <1>i, <2>1 DEF DirectRequest
<1>3. CASE FinishRequest(r)
  <2>0. rq[r].at \in {"test", "save", "unstarted"} /\ RequestPc(rq[r]) \notin Calling
    BY <1>3 DEF FinishRequest, RequestPc, Calling
  <2>1. CASE rq[r].id \in PendingIds
    <3>1. PICK st : st = [at |-> "undo"]
      OBVIOUS
    <3>2. st \in RequestStates /\ RequestPc(st) = "undoing" /\ rq' = [rq EXCEPT ![r] = st]
      BY <1>3, <2>1, <3>1 DEF RequestStates, RequestPc, FinishRequest
    <3>3. call'[r].at = "undo"
      BY <1>3, <2>1, CallMoved DEF SessionStep, FinishRequest, PendingIds
    <3> QED BY <1>3, <1>m, <3>2, <3>3, CallAtCases DEF FinishRequest
  <2>2. CASE rq[r].id \notin PendingIds
    BY <1>3, <1>i, <1>c, <2>0, <2>2 DEF FinishRequest, sqlVars
  <2> QED BY <2>1, <2>2
<1>4. CASE UndoRequest(r)
  <2>1. call'[r].at = "idle"
    BY <1>4, CallMoved DEF UndoRequest, SessionStep
  <2> QED BY <1>4, <1>i, <2>1 DEF UndoRequest
\* The answer of xray.apply.start does not come.
<1>u. ASSUME rq[r].at = "apply", UNCHANGED sqlVars
      PROVE  /\ [rq[r] EXCEPT !.at = "unstarted"] \in RequestStates
             /\ CallAtIs(call'[r], RequestPc([rq[r] EXCEPT !.at = "unstarted"]))
  <2>1. rq[r] \in [at : {"test", "apply", "save", "unstarted"}, id : Ids]
    BY <1>u, RequestAt
  <2>2. /\ [rq[r] EXCEPT !.at = "unstarted"] \in [at : {"unstarted"}, id : Ids]
        /\ RequestPc([rq[r] EXCEPT !.at = "unstarted"]) \notin Calling
        /\ RequestPc(rq[r]) \notin Calling
    BY <1>u, <2>1 DEF RequestPc, Calling
  <2> QED BY <1>u, <1>c, <2>2, CallAtCases DEF RequestStates, sqlVars
<1>5. CASE JobNotStarted(r)
  <2> DEFINE st == [rq[r] EXCEPT !.at = "unstarted"]
  <2>1. rq' = [rq EXCEPT ![r] = st] /\ UNCHANGED <<lock, ap>>
    BY <1>5 DEF JobNotStarted
  <2>2. st \in RequestStates /\ CallAtIs(call'[r], RequestPc(st))
    BY <1>5, <1>u DEF JobNotStarted
  <2> HIDE DEF st
  <2> QED BY <1>m, <2>1, <2>2
<1>6. ASSUME NEW a \in Appliers, StartJob(r, a)
      PROVE  /\ rq' \in [Requests -> RequestStates]
             /\ ap' \in [Appliers -> ApplierStates] /\ LockMatches' /\ CallsMatch'
  <2> DEFINE st == [rq[r] EXCEPT !.at = "unstarted"]
             job == [at |-> "tx", kind |-> "job"]
  <2>0. UNCHANGED sqlVars /\ rq[r].at = "apply" /\ ap[a] = NoApplier
    BY <1>6 DEF StartJob
  <2>1. st \in RequestStates /\ RequestPc(st) \notin Calling
    BY <1>u, <2>0, RequestAt DEF RequestPc, Calling
  <2>2. job \in ApplierStates /\ ~Holds(job) /\ job.at \notin Calling
    BY DEF ApplierStates, Kinds, Holds, Locked, Calling
  <2>3. ~Holds(ap[a]) /\ ap[a].at \notin Calling
    BY <2>0, IdleApplier
  <2>4. ap' = [ap EXCEPT ![a] = job] /\ lock' = lock
    BY <1>6 DEF StartJob
  <2>5. rq' = [rq EXCEPT ![r] = NoRequest] \/ rq' = [rq EXCEPT ![r] = st]
    BY <1>6 DEF StartJob
  <2> HIDE DEF st, job
  <2>6. NoRequest \in RequestStates /\ RequestPc(NoRequest) \notin Calling
    BY DEF RequestStates, NoRequest, RequestPc, Calling
  <2>7. rq' \in [Requests -> RequestStates]
    BY <2>1, <2>5, <2>6
  <2>8. \A b \in Appliers : (lock' = b) <=> Holds(ap'[b])
    <3>1. \A b \in Appliers : Holds(ap'[b]) <=> Holds(ap[b])
      BY <2>2, <2>3, <2>4
    <3> QED BY <2>4, <3>1 DEF LockMatches
  <2>9. CallsMatch'
    <3>0. UNCHANGED call /\ CallsMatch
      BY <2>0 DEF sqlVars, IInv, TypeOK
    <3>1. ASSUME NEW b \in Appliers PROVE CallAtIs(call'[b], ap'[b].at)
      <4>1. CASE b = a
        <5>1. CallAtIs(call[a], ap[a].at)
          BY <3>0 DEF CallsMatch
        <5> QED BY <2>2, <2>3, <2>4, <3>0, <4>1, <5>1, CallAtCases
      <4>2. CASE b # a
        BY <2>4, <3>0, <4>2 DEF CallsMatch
      <4> QED BY <4>1, <4>2
    <3>2. ASSUME NEW q \in Requests PROVE CallAtIs(call'[q], RequestPc(rq'[q]))
      <4>1. CASE q = r
        <5>1. RequestPc(rq'[r]) \notin Calling
          BY <2>1, <2>5, <2>6
        <5>2. RequestPc(rq[r]) \notin Calling
          BY <2>0 DEF RequestPc, Calling
        <5>3. call'[r].at = "idle"
          BY <1>c, <3>0, <5>2
        <5> QED BY <4>1, <5>1, <5>3, CallAtCases
      <4>2. CASE q # r
        <5>1. CallAtIs(call[q], RequestPc(rq[q])) /\ rq'[q] = rq[q]
          BY <2>5, <3>0, <4>2 DEF CallsMatch, RequestPc
        <5> QED BY <3>0, <5>1
      <4> QED BY <4>1, <4>2
    <3> QED BY <3>1, <3>2 DEF CallsMatch, RequestPc, CallAtIs
  <2> QED BY <2>2, <2>4, <2>7, <2>8, <2>9 DEF LockMatches, Holds
<1> QED BY <1>1, <1>2, <1>3, <1>4, <1>5, <1>6 DEF RequestStep

\* Steps that start or kill somebody, readers and the environment.
LEMMA OtherTypes ==
  ASSUME IInv,
         \/ \E r \in Requests : KillRequest(r)
              \/ \E kind \in RequestKinds, c \in Configs : Prepare(r, kind, c)
         \/ \E a \in Appliers : KillApplier(a) \/ \E kind \in ApplierKinds : Start(a, kind)
         \/ \E r \in Readers : ReadCurrent(r) \/ ReadPending(r)
         \/ ToggleClients
  PROVE  /\ rq' \in [Requests -> RequestStates] /\ rd' \in [Readers -> ReaderStates]
         /\ ap' \in [Appliers -> ApplierStates] /\ LockMatches' /\ CallsMatch'
         /\ enabled' \in BOOLEAN /\ FilesTypeOK'
<1>0. /\ rq \in [Requests -> RequestStates] /\ ap \in [Appliers -> ApplierStates]
      /\ rd \in [Readers -> ReaderStates] /\ enabled \in BOOLEAN /\ settings \in Configs
      /\ LockMatches /\ CallsMatch /\ FilesTypeOK /\ SqlInv
      /\ call \in [Sessions -> CallStates] /\ Requests \subseteq Sessions
      /\ Appliers \subseteq Sessions
  BY ApplyAssumption DEF IInv, TypeOK, SqlTypeOK, TxTypeOK
<1> USE <1>0
<1>a. UNCHANGED <<lock, ap>> => ap' \in [Appliers -> ApplierStates] /\ LockMatches'
  BY DEF LockMatches
<1>f. UNCHANGED files => FilesTypeOK'
  BY DEF FilesTypeOK, files
<1>1. ASSUME NEW r \in Requests, NEW kind \in RequestKinds, NEW c \in Configs,
             Prepare(r, kind, c)
      PROVE  rq' \in [Requests -> RequestStates] /\ CallsMatch'
  <2>1. PICK st : st = [at |-> "prepared", kind |-> kind, value |-> c]
    OBVIOUS
  <2>2. st \in RequestStates /\ RequestPc(st) \notin Calling
    BY <2>1 DEF RequestStates, RequestPc, Calling
  <2>3. rq' = [rq EXCEPT ![r] = st] /\ UNCHANGED ap /\ UNCHANGED sqlVars
    BY <1>1, <2>1 DEF Prepare
  <2>4. CallAtIs(call[r], RequestPc(rq[r])) /\ RequestPc(rq[r]) \notin Calling
    BY <1>1 DEF Prepare, CallsMatch, NoRequest, RequestPc, Calling
  <2>5. CallAtIs(call'[r], RequestPc(st))
    BY <2>2, <2>3, <2>4, CallAtCases DEF sqlVars
  <2> QED BY <2>2, <2>3, <2>5, RequestCalls
<1>2. ASSUME NEW r \in Requests, KillRequest(r)
      PROVE  rq' \in [Requests -> RequestStates] /\ CallsMatch'
  <2>1. NoRequest \in RequestStates /\ RequestPc(NoRequest) \notin Calling
    BY DEF RequestStates, NoRequest, RequestPc, Calling
  <2>2. SessionStep(r) \/ UNCHANGED sqlVars
    BY <1>2, KillSession DEF KillRequest, SessionStep
  <2>3. CallAtIs(call'[r], RequestPc(NoRequest))
    BY <1>2, <2>1, CallAtCases DEF KillRequest, Idle
  <2> QED BY <1>2, <2>1, <2>2, <2>3, RequestCalls DEF KillRequest
<1>3. ASSUME NEW a \in Appliers, NEW kind \in ApplierKinds, Start(a, kind)
      PROVE  ap' \in [Appliers -> ApplierStates] /\ LockMatches' /\ CallsMatch'
  <2>1. PICK st : /\ ap' = [ap EXCEPT ![a] = st] /\ lock' = lock
                  /\ \/ st = [at |-> "tx", kind |-> "job"]
                     \/ st = [at |-> "manual", kind |-> "rollback"]
                     \/ kind \in Locked /\ st = [at |-> "lock", kind |-> kind, seen |-> Pending]
    BY <1>3, ApplyAssumption DEF Start, Locked
  <2>2. st \in ApplierStates /\ ~Holds(st) /\ st.at \notin Calling
    <3>1. CASE st = [at |-> "tx", kind |-> "job"]
      BY <3>1 DEF ApplierStates, Holds, Kinds, Locked, Calling
    <3>2. CASE st = [at |-> "manual", kind |-> "rollback"]
      BY <3>2 DEF ApplierStates, Holds, Locked, Calling
    <3>3. CASE kind \in Locked /\ st = [at |-> "lock", kind |-> kind, seen |-> Pending]
      BY <3>3, PendingType DEF ApplierStates, Holds, Calling
    <3> QED BY <2>1, <3>1, <3>2, <3>3
  <2>3. ~Holds(ap[a]) /\ ap[a].at \notin Calling /\ UNCHANGED sqlVars /\ UNCHANGED rq
    BY <1>3, IdleApplier DEF Start
  <2>4. CallAtIs(call'[a], st.at)
    BY <2>2, <2>3, PlainCall
  <2> QED BY <2>1, <2>2, <2>3, <2>4, MoveKeeps
<1>4. ASSUME NEW a \in Appliers, KillApplier(a)
      PROVE  ap' \in [Appliers -> ApplierStates] /\ LockMatches' /\ CallsMatch'
  <2>1. SessionStep(a) \/ UNCHANGED sqlVars
    BY <1>4, KillSession DEF KillApplier, SessionStep
  <2>2. call'[a].at = "idle"
    BY <1>4 DEF KillApplier, Idle
  <2> QED BY <1>4, <2>1, <2>2, ReleaseKeeps DEF KillApplier
<1>5. ASSUME NEW r \in Readers, ReadCurrent(r) \/ ReadPending(r)
      PROVE  rd' \in [Readers -> ReaderStates]
  BY <1>5, PublishedConfig, PendingType DEF ReadCurrent, ReadPending, ReaderStates
<1>6. CASE \E r \in Requests : KillRequest(r)
              \/ \E kind \in RequestKinds, c \in Configs : Prepare(r, kind, c)
  BY <1>6, <1>1, <1>2, <1>a, <1>f DEF KillRequest, Prepare
<1>7. CASE \E a \in Appliers : KillApplier(a) \/ \E kind \in ApplierKinds : Start(a, kind)
  BY <1>7, <1>3, <1>4, <1>f DEF KillApplier, Start
<1>8. CASE \E r \in Readers : ReadCurrent(r) \/ ReadPending(r)
  BY <1>8, <1>5, <1>a, <1>f, CallsKept DEF ReadCurrent, ReadPending, sqlVars
<1>9. CASE ToggleClients
  BY <1>9, <1>a, <1>f, CallsKept DEF ToggleClients, sqlVars
<1> QED BY <1>6, <1>7, <1>8, <1>9

-----------------------------------------------------------------------------
LEMMA IInvInit == Init => IInv
<1> SUFFICES ASSUME Init PROVE IInv
  OBVIOUS
<1>1. SqlInv
  BY SqlInvInit DEF Init
<1>2. settings.server \in Servers
  BY <1>1, ApplyAssumption DEF SqlInv, SqlTypeOK, TxTypeOK
<1>3. FilesTypeOK
  BY <1>2, ApplyAssumption DEF Init, Rendered, FilesTypeOK, Bodies
<1>4. /\ ap \in [Appliers -> ApplierStates] /\ rq \in [Requests -> RequestStates]
      /\ rd \in [Readers -> ReaderStates] /\ enabled \in BOOLEAN
  BY DEF Init, ApplierStates, RequestStates, ReaderStates
<1>5. LockMatches
  BY ApplyAssumption DEF Init, LockMatches, Holds, NoApplier
<1>6. CallsMatch
  <2>1. /\ \A s \in Sessions : call[s].at = "idle"
        /\ \A a \in Appliers : ap[a].at = "idle" /\ a \in Sessions
        /\ \A r \in Requests : rq[r].at = "idle" /\ r \in Sessions
    BY ApplyAssumption DEF Init, SqlInit, Idle, NoApplier, NoRequest
  <2>2. "idle" \notin Calling
    BY DEF Calling
  <2>3. \A a \in Appliers : CallAtIs(call[a], ap[a].at)
    BY <2>1, <2>2, CallAtCases
  <2>4. \A r \in Requests : CallAtIs(call[r], rq[r].at) /\ rq[r].at # "undo"
    BY <2>1, <2>2, CallAtCases
  <2> QED BY <2>3, <2>4 DEF CallsMatch
<1> QED BY <1>1, <1>3, <1>4, <1>5, <1>6 DEF IInv, TypeOK, SqlInv

LEMMA IInvNext == IInv /\ [Next]_applyVars => IInv'
<1> SUFFICES ASSUME IInv, [Next]_applyVars PROVE IInv'
  OBVIOUS
<1>1. SqlInv' /\ SqlTypeOK'
  BY TableGood DEF StepIsGood, SqlInv
<1>2. SUFFICES ( /\ rq' \in [Requests -> RequestStates] /\ rd' \in [Readers -> ReaderStates]
                 /\ ap' \in [Appliers -> ApplierStates] /\ LockMatches' /\ CallsMatch'
                 /\ enabled' \in BOOLEAN /\ FilesTypeOK')
  BY <1>1 DEF IInv, TypeOK
<1>3. /\ rq \in [Requests -> RequestStates] /\ ap \in [Appliers -> ApplierStates]
      /\ rd \in [Readers -> ReaderStates] /\ enabled \in BOOLEAN
      /\ LockMatches /\ FilesTypeOK
  BY DEF IInv, TypeOK
<1>4. CASE UNCHANGED applyVars
  BY <1>3, <1>4, CallsKept DEF applyVars, files, LockMatches, FilesTypeOK
<1>5. CASE \E r \in Requests : RequestStep(r)
  <2>1. UNCHANGED <<files, enabled, rd>>
    BY <1>5 DEF RequestStep, BeginRequest, DirectRequest, FinishRequest, UndoRequest,
      JobNotStarted, StartJob
  <2> QED BY <1>3, <1>5, <2>1, RequestTypes DEF files, FilesTypeOK
<1>6. CASE \E a \in Appliers : ApplierStep(a)
  <2>1. UNCHANGED <<enabled, rq, rd>>
    BY <1>6 DEF ApplierStep, EntryFails, Unwind, Normalise, Normalised, CommitTx, RollbackTx,
      TakeLock, ReadTx, ReadSettings, StopService, Render, TestCandidate, SaveBackup, Install,
      Restart, RestoreFiles, Finish, ManualRollback
  <2> QED BY <1>3, <1>6, <2>1, ApplierTypes
<1>7. CASE \/ \E r \in Requests : KillRequest(r)
                \/ \E kind \in RequestKinds, c \in Configs : Prepare(r, kind, c)
           \/ \E a \in Appliers : KillApplier(a) \/ \E kind \in ApplierKinds : Start(a, kind)
           \/ \E r \in Readers : ReadCurrent(r) \/ ReadPending(r)
           \/ ToggleClients
  BY <1>7, OtherTypes
<1> QED BY <1>4, <1>5, <1>6, <1>7 DEF Next

\* Types, the lock discipline and the place of every session in its call hold
\* for any number of panel threads, sg-hostd threads, jobs and link readers.
THEOREM ApplyTypeCorrect == Spec => []TypeOK
<1>1. IInv => TypeOK
  BY DEF IInv
<1> QED BY <1>1, IInvInit, IInvNext, PTL DEF Spec

\* Whatever appliers, requests and kills do between the statements of a call:
\* links publish a new value only when a commit (or a direct edit) says so,
\* or beside a transaction that an overtaken call has written over.
THEOREM ApplyPublishesOnlyByCommit == Spec => PublishedMovesOnlyByCommit
<1>1. Init => SqlInit
  BY DEF Init
<1>2. IInv /\ [Next]_applyVars => [SqlNext]_sqlVars
  BY StepIsSqlStep
<1>3. Spec => SqlSpec
  BY <1>1, <1>2, IInvInit, IInvNext, PTL DEF Spec, SqlSpec
<1> QED BY <1>3, PublishedOnlyByCommit

-----------------------------------------------------------------------------
\* What a link reader remembers: with no transaction open it has read what
\* was published; an open one it saw stays a used row.
ReaderInv ==
  \A r \in Readers : rd[r].at = "current" =>
    /\ rd[r].id = 0 => rd[r].value = rd[r].was
    /\ rd[r].id # 0 => rd[r].id \in Ids /\ tx[rd[r].id].status # "unused"

LEMMA ReaderInvInit == Init => ReaderInv
BY DEF Init, ReaderInv, NoReader

\* Keys only grow.
LEMMA KeysGrow ==
  ASSUME [SqlNext]_sqlVars
  PROVE  nextId' \in {nextId, nextId + 1}
BY DEF SqlNext, SessionStep, SelectOpen, WriteDirect, SelectCurrent, WriteBegin, WriteRollback,
  WriteRefine, SelectRow, WriteCommit, SelectForRefine, Crash, Commit, DirectUpdate, settingsVars,
  sqlVars

\* A row in use stays in use, whichever statement runs.
LEMMA UsedStaysUsed ==
  ASSUME IInv, IInv', [Next]_applyVars, NEW i \in Ids, tx[i].status # "unused"
  PROVE  tx'[i].status # "unused"
<1>1. i < nextId /\ nextId \in Int
  BY TxAssumption DEF IInv, TypeOK, SqlTypeOK, TxTypeOK, Ids
<1>2. nextId' \in {nextId, nextId + 1}
  BY StepIsSqlStep, KeysGrow
<1>3. i < nextId'
  BY <1>1, <1>2 DEF Ids
<1> QED BY <1>1, <1>2, <1>3, TxAssumption DEF IInv, TypeOK, SqlTypeOK, TxTypeOK, Ids

LEMMA ReaderInvNext ==
  ASSUME IInv, IInv', ReaderInv, [Next]_applyVars
  PROVE  ReaderInv'
<1>0. SqlInv /\ rd \in [Readers -> ReaderStates] /\ rd' \in [Readers -> ReaderStates]
  BY DEF IInv, TypeOK
<1>2. CASE UNCHANGED rd
  BY <1>2, UsedStaysUsed DEF ReaderInv
<1>3. ASSUME NEW k \in Readers, ReadCurrent(k)
      PROVE  ReaderInv'
  <2>1. /\ rd' = [rd EXCEPT ![k] = [at |-> "current", value |-> settings,
                                    was |-> Published, id |-> Pending]]
        /\ tx' = tx
    BY <1>3 DEF ReadCurrent, sqlVars
  <2>2. Pending = 0 => settings = Published
    BY <1>0, PendingType DEF Published
  <2>3. Pending # 0 => Pending \in Ids /\ tx[Pending].status # "unused"
    BY <1>0, PendingType DEF PendingIds
  <2> QED BY <1>0, <2>1, <2>2, <2>3 DEF ReaderInv
<1>4. ASSUME NEW k \in Readers, ReadPending(k)
      PROVE  ReaderInv'
  BY <1>0, <1>4 DEF ReadPending, sqlVars, ReaderInv, NoReader
<1>5. \/ UNCHANGED rd
      \/ \E k \in Readers : ReadCurrent(k) \/ ReadPending(k)
  <2>1. ASSUME NEW r \in Requests, RequestStep(r) PROVE UNCHANGED rd
    BY <2>1 DEF RequestStep, BeginRequest, DirectRequest, FinishRequest, UndoRequest,
      JobNotStarted, StartJob
  <2>2. ASSUME NEW a \in Appliers, ApplierStep(a) PROVE UNCHANGED rd
    BY <2>2 DEF ApplierStep, EntryFails, Unwind, Normalise, Normalised, CommitTx, RollbackTx,
      TakeLock, ReadTx, ReadSettings, StopService, Render, TestCandidate, SaveBackup, Install,
      Restart, RestoreFiles, Finish, ManualRollback
  <2> QED BY <2>1, <2>2 DEF Next, applyVars, Prepare, KillRequest, Start, KillApplier, ToggleClients
<1> QED BY <1>2, <1>3, <1>4, <1>5

\* For any number of concurrent requests, appliers and readers, a client link
\* can show a candidate only if its transaction closed between the two reads.
THEOREM LinksLeakOnlyAtClose == Spec => []LeakNeedsClose
<1>1. IInv /\ ReaderInv => LeakNeedsClose
  <2> SUFFICES ASSUME IInv, ReaderInv, NEW r \in Readers, rd[r].at = "current",
                      Shown(r) \notin {rd[r].was, Published}
               PROVE  rd[r].id # 0 /\ tx[rd[r].id].status \in Closed
    BY DEF LeakNeedsClose
  <2>0. SqlInv
    BY DEF IInv
  <2>1. PendingIds = {}
    BY <2>0, PendingType DEF Shown, Published
  <2>2. Shown(r) = rd[r].value
    BY <2>1 DEF Shown, Pending
  <2>3. rd[r].id # 0
    BY <2>2 DEF ReaderInv
  <2>4. rd[r].id \in Ids /\ tx[rd[r].id].status # "unused"
    BY <2>3 DEF ReaderInv
  <2>5. tx[rd[r].id] \in Rows /\ rd[r].id \notin PendingIds
    BY <2>0, <2>1, <2>4 DEF SqlInv, SqlTypeOK, TxTypeOK
  <2> QED BY <2>3, <2>4, <2>5 DEF Rows, PendingIds
<1>2. IInv /\ IInv' /\ ReaderInv /\ [Next]_applyVars => ReaderInv'
  BY ReaderInvNext
<1> QED BY <1>1, <1>2, IInvInit, IInvNext, ReaderInvInit, PTL DEF Spec

-----------------------------------------------------------------------------
\* Where an applier goes that neither tests nor installs.
LEMMA RaiseGoes ==
  ASSUME IInv, NEW a \in Appliers, Raise(a)
  PROVE  \E st : /\ ap' = [ap EXCEPT ![a] = st]
                 /\ st.at \in {"idle", "unwind"}
                 /\ st.at = "idle" => st = NoApplier
                 /\ st.at = "unwind" => /\ st.kind = ap[a].kind
                                        /\ ap[a].kind \in {"runtime", "restore"}
<1>1. CASE ap[a].kind \in {"runtime", "restore"}
  <2>1. PICK st : st = [at |-> "unwind", kind |-> ap[a].kind]
    OBVIOUS
  <2>2. ap' = [ap EXCEPT ![a] = st]
    BY <1>1, <2>1 DEF Raise
  <2>3. st.at = "unwind" /\ st.kind = ap[a].kind
    BY <2>1
  <2> QED BY <1>1, <2>2, <2>3
<1>2. CASE ap[a].kind \notin {"runtime", "restore"}
  <2>1. ap' = [ap EXCEPT ![a] = NoApplier] /\ NoApplier.at = "idle"
    BY <1>2 DEF Raise, NoApplier
  <2> QED BY <2>1
<1> QED BY <1>1, <1>2

LEMMA UnwindGoes ==
  ASSUME IInv, NEW a \in Appliers, Unwind(a)
  PROVE  \E st : /\ ap' = [ap EXCEPT ![a] = st]
                 /\ st.at \in {"idle", "unwind row", "unwinding"}
                 /\ st.at = "idle" => st = NoApplier
                 /\ st.at # "idle" => st.kind = ap[a].kind
                 /\ st.at = "unwind row" => UNCHANGED sqlVars
<1>0. ap[a].at \in {"unwind", "unwind row", "unwinding"} /\ NoApplier.at = "idle"
  BY DEF Unwind, NoApplier
<1>1. CASE ap' = [ap EXCEPT ![a] = NoApplier]
  BY <1>0, <1>1
<1>2. CASE ap[a].at = "unwind" /\ Pending # 0
  <2>1. PICK st : st = [at |-> "unwind row", kind |-> ap[a].kind, id |-> Pending]
    OBVIOUS
  <2>2. ap' = [ap EXCEPT ![a] = st] /\ UNCHANGED sqlVars
    BY <1>2, <2>1 DEF Unwind
  <2>3. st.at = "unwind row" /\ st.kind = ap[a].kind
    BY <2>1
  <2> QED BY <2>2, <2>3
<1>3. CASE ap[a].at = "unwind row" /\ ap[a].id \in PendingIds
  <2>1. PICK st : st = [at |-> "unwinding", kind |-> ap[a].kind]
    OBVIOUS
  <2>2. ap' = [ap EXCEPT ![a] = st]
    BY <1>3, <2>1 DEF Unwind
  <2>3. st.at = "unwinding" /\ st.kind = ap[a].kind
    BY <2>1
  <2> QED BY <2>2, <2>3
<1>4. CASE \/ ap[a].at = "unwind" /\ Pending = 0
           \/ ap[a].at = "unwind row" /\ ap[a].id \notin PendingIds
           \/ ap[a].at = "unwinding"
  BY <1>1, <1>4 DEF Unwind
<1> QED BY <1>0, <1>2, <1>3, <1>4

LEMMA NormaliseGoes ==
  ASSUME IInv, NEW a \in Appliers, Normalise(a) \/ Normalised(a)
  PROVE  \/ Raise(a) /\ ap[a].at = "compat" /\ UNCHANGED sqlVars
         \/ \E pc \in Normalising \ {"compat"}, id \in {0} \cup Ids :
              /\ ap' = [ap EXCEPT ![a] = [ap[a] EXCEPT !.at = pc, !.id = id]]
              /\ id \in {ap[a].id, nextId, Pending}
              /\ ap[a].at \in Normalising \ {"rows"} /\ UNCHANGED lock
<1>0. /\ ap \in [Appliers -> ApplierStates] /\ SqlInv /\ Pending \in {0} \cup Ids
      /\ Normalising = {"compat", "refine", "reread", "begin", "rows"}
  BY PendingType DEF IInv, TypeOK, Normalising
<1>1. ap[a].at \in Normalising
  BY <1>0 DEF Normalise, Normalised
<1>2. /\ ap[a] \in [at : Normalising, kind : Kinds, id : {0} \cup Ids, value : Configs,
                   any : BOOLEAN]
  BY <1>0, <1>1, ApplierAt
<1>3. /\ \A pc : [ap[a] EXCEPT !.at = pc] = [ap[a] EXCEPT !.at = pc, !.id = ap[a].id]
      /\ ap[a] = [ap[a] EXCEPT !.at = ap[a].at, !.id = ap[a].id]
      /\ ap = [ap EXCEPT ![a] = ap[a]]
  BY <1>0, <1>2
<1>4. CASE Normalise(a)
  <2>1. \/ Raise(a) /\ UNCHANGED sqlVars
        \/ \E pc \in {"refine", "rows", "begin"} : /\ ap' = [ap EXCEPT ![a].at = pc]
                                                   /\ UNCHANGED lock
    BY <1>4 DEF Normalise
  <2>2. ASSUME NEW pc \in {"refine", "rows", "begin"}, ap' = [ap EXCEPT ![a].at = pc]
        PROVE  ap' = [ap EXCEPT ![a] = [ap[a] EXCEPT !.at = pc, !.id = ap[a].id]]
    <3>1. ap' = [ap EXCEPT ![a] = [ap[a] EXCEPT !.at = pc]]
      BY <2>2
    <3> QED BY <1>3, <3>1
  <2> QED BY <1>0, <1>2, <1>4, <2>1, <2>2 DEF Normalise
<1>5. CASE Normalised(a)
  <2>1. CASE ap[a].at = "begin" /\ SelectCurrent(a) /\ UNCHANGED ap
    <3>1. ap' = [ap EXCEPT ![a] = [ap[a] EXCEPT !.at = "begin", !.id = ap[a].id]]
      BY <1>3, <2>1
    <3> QED BY <1>0, <1>2, <1>5, <2>1, <3>1 DEF Normalised
  <2>2. CASE ap[a].at = "begin" /\ WriteBegin(a)
    <3>1. /\ ap' = [ap EXCEPT ![a] = [ap[a] EXCEPT !.at = "rows", !.id = nextId]]
          /\ nextId \in Ids
      BY <1>5, <2>2 DEF Normalised, WriteBegin, SelectCurrent
    <3> QED BY <1>0, <1>5, <2>2, <3>1 DEF Normalised
  <2>3. CASE ap[a].at = "refine"
    <3>1. ap' = [ap EXCEPT ![a] = [ap[a] EXCEPT !.at = "reread", !.id = ap[a].id]]
      BY <1>3, <1>5, <2>3 DEF Normalised
    <3> QED BY <1>0, <1>2, <1>5, <2>3, <3>1 DEF Normalised
  <2>4. CASE ap[a].at = "reread"
    <3>1. ap' = [ap EXCEPT ![a] = [ap[a] EXCEPT !.at = "rows", !.id = Pending]]
      BY <1>5, <2>4 DEF Normalised
    <3> QED BY <1>0, <1>5, <2>4, <3>1 DEF Normalised
  <2> QED BY <1>5, <2>1, <2>2, <2>3, <2>4 DEF Normalised
<1> QED BY <1>4, <1>5

-----------------------------------------------------------------------------
\* No request gets as far as starting the unlocked job.
NoJobs ==
  \A r \in Requests : /\ rq[r].at # "apply"
                      /\ rq[r].at \in {"prepared", "begin"} => rq[r].kind # "apply"

LEMMA NoJobsInit == Init => NoJobs
BY DEF Init, NoJobs, NoRequest

LEMMA NoJobsNext ==
  ASSUME "apply" \notin RequestKinds, IInv, NoJobs, [Next]_applyVars
  PROVE  NoJobs'
<1>0. rq \in [Requests -> RequestStates]
  BY DEF IInv, TypeOK
<1>q. ASSUME NEW r \in Requests, NEW st, rq' = [rq EXCEPT ![r] = st],
             st.at # "apply", st.at \in {"prepared", "begin"} => st.kind # "apply"
      PROVE  NoJobs'
  BY <1>0, <1>q DEF NoJobs
<1>k. ASSUME UNCHANGED rq
      PROVE  NoJobs'
  BY <1>k DEF NoJobs
<1>n. NoRequest.at = "idle"
  BY DEF NoRequest
<1>1. ASSUME NEW r \in Requests, BeginRequest(r)
      PROVE  NoJobs'
  <2>1. rq[r].at \in {"prepared", "begin"} /\ rq[r].kind # "apply"
    BY <1>1 DEF BeginRequest, NoJobs
  <2>2. CASE rq[r].at = "prepared"
    <3>1. PICK st : st = [at |-> "begin", kind |-> rq[r].kind]
      OBVIOUS
    <3>2. rq' = [rq EXCEPT ![r] = st] /\ st.at = "begin" /\ st.kind # "apply"
      BY <1>1, <2>1, <2>2, <3>1 DEF BeginRequest
    <3> QED BY <1>q, <3>2
  <2>3. CASE UNCHANGED rq
    BY <1>k, <2>3
  <2>4. CASE rq[r].at = "begin" /\ rq' = [rq EXCEPT ![r] = [at |-> @.kind, id |-> nextId]]
    <3>1. PICK st : st = [at |-> rq[r].kind, id |-> nextId]
      OBVIOUS
    <3>2. rq[r].kind \in {"test", "save"}
      BY <1>0, <2>1, <2>4, RequestAt
    <3>3. st.at \in {"test", "save"} /\ rq' = [rq EXCEPT ![r] = st]
      BY <2>4, <3>1, <3>2
    <3> QED BY <1>q, <3>3
  <2> QED BY <1>1, <2>2, <2>3, <2>4 DEF BeginRequest
<1>2. ASSUME NEW r \in Requests, FinishRequest(r)
      PROVE  NoJobs'
  <2>1. PICK st : rq' = [rq EXCEPT ![r] = st] /\ (st = NoRequest \/ st = [at |-> "undo"])
    BY <1>2 DEF FinishRequest
  <2>2. st.at \in {"idle", "undo"}
    BY <1>n, <2>1
  <2> QED BY <1>q, <2>1, <2>2
<1>3. ASSUME NEW r \in Requests, DirectRequest(r) \/ UndoRequest(r) \/ KillRequest(r)
      PROVE  NoJobs'
  BY <1>3, <1>n, <1>q DEF DirectRequest, UndoRequest, KillRequest
<1>4. ASSUME NEW r \in Requests, JobNotStarted(r) \/ \E a \in Appliers : StartJob(r, a)
      PROVE  NoJobs'
  BY <1>4 DEF JobNotStarted, StartJob, NoJobs
<1>5. ASSUME NEW r \in Requests, NEW kind \in RequestKinds, NEW c \in Configs, Prepare(r, kind, c)
      PROVE  NoJobs'
  <2>1. PICK st : st = [at |-> "prepared", kind |-> kind, value |-> c]
    OBVIOUS
  <2>2. rq' = [rq EXCEPT ![r] = st] /\ st.at = "prepared" /\ st.kind # "apply"
    BY <1>5, <2>1 DEF Prepare
  <2> QED BY <1>q, <2>2
<1>6. ASSUME NEW a \in Appliers, ApplierStep(a)
      PROVE  NoJobs'
  BY <1>6, <1>k DEF ApplierStep, EntryFails, Unwind, Normalise, Normalised, CommitTx,
    RollbackTx, TakeLock, ReadTx, ReadSettings, StopService, Render, TestCandidate, SaveBackup,
    Install, Restart, RestoreFiles, Finish, ManualRollback
<1>7. CASE \/ \E a \in Appliers : KillApplier(a) \/ \E kind \in ApplierKinds : Start(a, kind)
           \/ ToggleClients \/ \E r \in Readers : ReadCurrent(r) \/ ReadPending(r)
           \/ UNCHANGED applyVars
  BY <1>7, <1>k DEF KillApplier, Start, ToggleClients, ReadCurrent, ReadPending, applyVars
<1> QED BY <1>1, <1>2, <1>3, <1>4, <1>5, <1>6, <1>7 DEF Next, RequestStep

-----------------------------------------------------------------------------
\* Why the test protects config.json: an applier tests the file it has just
\* written, for nobody else writes it while the lock is held.
TestedInv ==
  /\ live \in Valid \cup {NoFile} /\ backup \in Valid \cup {NoFile}
  /\ \A a \in Appliers :
       /\ ap[a].at \notin {"idle", "manual"} => ap[a].kind \in Locked
       /\ ap[a].at = "test" => candidate = ap[a].body
       /\ ap[a].at \in {"save", "install"} => ap[a].body \in Valid

\* Two appliers are never both past the lock.
LEMMA OneHolder ==
  ASSUME LockMatches, NEW a \in Appliers, NEW b \in Appliers, Holds(ap[a]), Holds(ap[b])
  PROVE  a = b
BY DEF LockMatches

LEMMA TestedInit == Init => TestedInv
<1> SUFFICES ASSUME Init PROVE TestedInv
  OBVIOUS
<1> QED BY DEF Init, Rendered, TestedInv, NoApplier

LEMMA TestedApplier ==
  ASSUME IInv, TestedInv, NEW a \in Appliers, ApplierStep(a)
  PROVE  TestedInv'
<1>0. /\ ap \in [Appliers -> ApplierStates] /\ LockMatches
      /\ UNCHANGED rq
  BY DEF IInv, TypeOK, ApplierStep, EntryFails, Unwind, Normalise, Normalised, CommitTx,
    RollbackTx, TakeLock, ReadTx, ReadSettings, StopService, Render, TestCandidate, SaveBackup,
    Install, Restart, RestoreFiles, Finish, ManualRollback
<1> USE <1>0, ApplierAt
<1>m. ASSUME NEW st, ap' = [ap EXCEPT ![a] = st], UNCHANGED candidate,
             live' \in Valid \cup {NoFile}, backup' \in Valid \cup {NoFile},
             st.at \notin {"idle", "manual"} => st.kind \in Locked,
             st.at = "test" => candidate = st.body,
             st.at \in {"save", "install"} => st.body \in Valid
      PROVE  TestedInv'
  BY <1>m DEF TestedInv
<1>r. ASSUME Release(a), UNCHANGED candidate,
             live' \in Valid \cup {NoFile}, backup' \in Valid \cup {NoFile}
      PROVE  TestedInv'
  BY <1>r DEF Release, TestedInv, NoApplier
<1>x. ASSUME Raise(a), UNCHANGED files
      PROVE  TestedInv'
  <2>1. PICK st : /\ ap' = [ap EXCEPT ![a] = st]
                  /\ st.at \in {"idle", "unwind"}
                  /\ st.at = "idle" => st = NoApplier
                  /\ st.at = "unwind" => /\ st.kind = ap[a].kind
                                         /\ ap[a].kind \in {"runtime", "restore"}
    BY <1>x, RaiseGoes
  <2> QED BY <1>m, <1>x, <2>1 DEF files, TestedInv, Locked
<1>1. CASE EntryFails(a)
  BY <1>1, <1>x DEF EntryFails
<1>2. CASE Finish(a) \/ StopService(a) \/ ManualRollback(a)
  BY <1>2, <1>r DEF Finish, StopService, ManualRollback, files, TestedInv
<1>3. CASE Unwind(a)
  <2>1. PICK st : /\ ap' = [ap EXCEPT ![a] = st]
                  /\ st.at \in {"idle", "unwind row", "unwinding"}
                  /\ st.at = "idle" => st = NoApplier
                  /\ st.at # "idle" => st.kind = ap[a].kind
    BY <1>3, UnwindGoes
  <2>2. ap[a].kind \in Locked
    BY <1>3 DEF Unwind, TestedInv
  <2> QED BY <1>3, <1>m, <2>1, <2>2 DEF Unwind, files, TestedInv
<1>4. CASE TakeLock(a)
  <2>1. ap[a].kind \in Locked
    BY <1>4 DEF TakeLock
  <2>2. CASE Release(a)
    BY <1>4, <2>2, <1>r DEF TakeLock, files, TestedInv
  <2>3. CASE ap' = [ap EXCEPT ![a] = [at |-> "tx", kind |-> ap[a].kind]]
    <3>1. UNCHANGED <<live, backup, candidate>>
      BY <1>4 DEF TakeLock, files
    <3> QED BY <2>1, <2>3, <3>1 DEF TestedInv
  <2> QED BY <1>4, <2>2, <2>3 DEF TakeLock
<1>5. CASE ReadTx(a)
  <2>1. ap' = [ap EXCEPT ![a] = [at |-> "read", kind |-> ap[a].kind, id |-> Pending]]
        /\ UNCHANGED <<live, backup, candidate>> /\ ap[a].kind \in Locked
    BY <1>5 DEF ReadTx, files, TestedInv
  <2> QED BY <2>1 DEF TestedInv
<1>6. CASE ReadSettings(a)
  <2> DEFINE st == [at |-> IF settings.server \in Legacy THEN "compat" ELSE "rows",
                    kind |-> ap[a].kind, id |-> ap[a].id, value |-> settings,
                    any |-> enabled \/ ap[a].kind = "restore"]
  <2>1. ap' = [ap EXCEPT ![a] = st] /\ UNCHANGED <<live, backup, candidate>>
        /\ ap[a].kind \in Locked
    BY <1>6 DEF ReadSettings, files, TestedInv
  <2>2. st.at \in {"compat", "rows"} /\ st.kind \in Locked
    BY <2>1
  <2> HIDE DEF st
  <2> QED BY <2>1, <2>2 DEF TestedInv
<1>7. CASE Normalise(a) \/ Normalised(a)
  <2>0. UNCHANGED files /\ Normalising = {"compat", "refine", "reread", "begin", "rows"}
    BY <1>7 DEF Normalise, Normalised, Normalising
  <2>1. CASE Raise(a)
    BY <1>x, <2>0, <2>1
  <2>2. ASSUME NEW pc \in Normalising \ {"compat"}, NEW id \in {0} \cup Ids,
               ap' = [ap EXCEPT ![a] = [ap[a] EXCEPT !.at = pc, !.id = id]],
               ap[a].at \in Normalising
        PROVE  TestedInv'
    <3> DEFINE st == [ap[a] EXCEPT !.at = pc, !.id = id]
    <3>1. ap[a] \in [at : Normalising, kind : Kinds, id : {0} \cup Ids, value : Configs,
                     any : BOOLEAN]
      BY <2>2
    <3>2. st.at = pc /\ st.kind = ap[a].kind /\ ap[a].kind \in Locked
      BY <2>0, <2>2, <3>1 DEF TestedInv
    <3>3. ap' = [ap EXCEPT ![a] = st]
      BY <2>2
    <3> HIDE DEF st
    <3> QED BY <1>m, <2>0, <2>2, <3>2, <3>3 DEF TestedInv, files
  <2> QED BY <1>7, <2>1, <2>2, NormaliseGoes
\* Nobody else is between its test and its install: it would hold the lock too.
<1>8. CASE Render(a)
  <2>1. PICK next \in {"test", "failed"} :
          /\ candidate' = IF next = "test" THEN settings.server ELSE candidate
          /\ ap' = [ap EXCEPT ![a] = [at |-> next, kind |-> ap[a].kind, id |-> ap[a].id,
                                      body |-> settings.server, had |-> live # NoFile]]
    BY <1>8 DEF Render, Rendered
  <2> DEFINE st == [at |-> next, kind |-> ap[a].kind, id |-> ap[a].id,
                    body |-> settings.server, had |-> live # NoFile]
  <2>2. /\ ap' = [ap EXCEPT ![a] = st] /\ UNCHANGED <<live, backup>>
        /\ ap[a].at = "rows" /\ ap[a].kind \in Locked
        /\ st.at = "test" => candidate' = st.body
    BY <1>8, <2>1 DEF Render, Rendered, TestedInv
  <2>3. \A b \in Appliers : ap[b].at = "test" => b = a
    BY <2>2, OneHolder DEF Holds, TestedInv
  <2>4. st.at \in {"test", "failed"} /\ st.kind \in Locked
    BY <2>2
  <2> HIDE DEF st
  <2> QED BY <2>2, <2>3, <2>4 DEF TestedInv
<1>9. ASSUME NEW pc \in Moving \ {"test"}, ap' = [ap EXCEPT ![a] = [ap[a] EXCEPT !.at = pc]],
             ap[a].at \in Moving,
             pc \in {"save", "install"} => ap[a].body \in Valid,
             UNCHANGED candidate,
             live' \in Valid \cup {NoFile}, backup' \in Valid \cup {NoFile}
      PROVE  TestedInv'
  <2> DEFINE st == [ap[a] EXCEPT !.at = pc]
  <2>1. ap[a] \in [at : Moving, kind : Kinds, id : {0} \cup Ids, body : Servers, had : BOOLEAN]
    BY <1>9
  <2>2. st.at = pc /\ st.kind = ap[a].kind /\ st.body = ap[a].body /\ ap[a].kind \in Locked
    BY <1>9, <2>1 DEF TestedInv, Moving
  <2>3. ap' = [ap EXCEPT ![a] = st]
    BY <1>9
  <2> HIDE DEF st
  <2> QED BY <1>9, <1>m, <2>2, <2>3
<1>10. CASE TestCandidate(a)
  BY <1>10, <1>9 DEF TestCandidate, files, TestedInv, Moving
<1>11. CASE SaveBackup(a)
  BY <1>11, <1>9 DEF SaveBackup, TestedInv, Moving
<1>12. CASE Install(a)
  BY <1>12, <1>9 DEF Install, TestedInv, Moving
<1>13. CASE Restart(a)
  BY <1>13, <1>9 DEF Restart, TestedInv, Moving
<1>14. CASE CommitTx(a) \/ RollbackTx(a)
  BY <1>14, <1>9 DEF CommitTx, RollbackTx, files, TestedInv, Moving
<1>15. CASE RestoreFiles(a)
  BY <1>15, <1>9 DEF RestoreFiles, TestedInv, Moving
<1> QED BY <1>1, <1>2, <1>3, <1>4, <1>5, <1>6, <1>7, <1>8, <1>10, <1>11, <1>12,
           <1>13, <1>14, <1>15 DEF ApplierStep

\* Where no apply runs as an unlocked job, each other step keeps TestedInv.
LEMMA TestedNext ==
  ASSUME "job" \notin ApplierKinds, IInv, NoJobs, TestedInv, [Next]_applyVars
  PROVE  TestedInv'
<1>0. ap \in [Appliers -> ApplierStates]
  BY DEF IInv, TypeOK
<1>k. ASSUME UNCHANGED <<files, ap>>
      PROVE  TestedInv'
  BY <1>k DEF files, TestedInv
<1>1. CASE UNCHANGED applyVars
  BY <1>1, <1>k DEF applyVars, files
<1>2. CASE \E a \in Appliers : ApplierStep(a)
  BY <1>2, TestedApplier
<1>3. ASSUME NEW r \in Requests,
             \/ RequestStep(r) \/ KillRequest(r)
             \/ \E kind \in RequestKinds, c \in Configs : Prepare(r, kind, c)
      PROVE  TestedInv'
  <2>1. \A a \in Appliers : ~StartJob(r, a)
    BY DEF StartJob, NoJobs
  <2> QED BY <1>3, <1>k, <2>1 DEF RequestStep, BeginRequest, DirectRequest, FinishRequest,
    UndoRequest, JobNotStarted, KillRequest, Prepare
<1>4. ASSUME NEW a \in Appliers, KillApplier(a)
      PROVE  TestedInv'
  BY <1>0, <1>4 DEF KillApplier, Release, files, TestedInv, NoApplier
<1>5. ASSUME NEW a \in Appliers, NEW kind \in ApplierKinds, Start(a, kind)
      PROVE  TestedInv'
  <2>1. PICK st : /\ ap' = [ap EXCEPT ![a] = st] /\ UNCHANGED <<live, backup, candidate>>
                  /\ \/ st = [at |-> "manual", kind |-> "rollback"]
                     \/ kind \in Locked /\ st = [at |-> "lock", kind |-> kind, seen |-> Pending]
    BY <1>5, ApplyAssumption DEF Start, Locked, files
  <2>2. st.at \in {"manual", "lock"} /\ (st.at = "lock" => st.kind \in Locked)
    BY <2>1
  <2> QED BY <1>0, <2>1, <2>2 DEF TestedInv
<1>6. CASE ToggleClients \/ \E r \in Readers : ReadCurrent(r) \/ ReadPending(r)
  BY <1>6, <1>k DEF ToggleClients, ReadCurrent, ReadPending
<1> QED BY <1>1, <1>2, <1>3, <1>4, <1>5, <1>6 DEF Next

\* As long as every apply goes through the lock (the xray_apply job does not),
\* only a config that passed xray run -test ever becomes config.json, for
\* any number of concurrent applies, kills and manual rollbacks.
THEOREM LockedApplyInstallsTested ==
  "job" \notin ApplierKinds /\ "apply" \notin RequestKinds
    => (Spec => []InstalledWasTested)
<1> SUFFICES ASSUME "job" \notin ApplierKinds, "apply" \notin RequestKinds
             PROVE  Spec => []InstalledWasTested
  OBVIOUS
<1>1. IInv /\ NoJobs /\ TestedInv /\ [Next]_applyVars => NoJobs' /\ TestedInv'
  BY TestedNext, NoJobsNext
<1>2. TestedInv => InstalledWasTested
  BY DEF TestedInv, InstalledWasTested
<1> QED BY <1>1, <1>2, IInvInit, IInvNext, NoJobsInit, TestedInit, PTL DEF Spec

-----------------------------------------------------------------------------
\* Why a commit publishes what runs: from the moment an applier has rendered
\* the settings row, the open row it is going to commit has that body as its
\* candidate (unless an overtaken call wrote beside it), and the lock keeps
\* everybody else away from the files.
Rendering == {"test", "save", "install", "restart", "commit"}

Uncrossed == PendingIds \ crossed

Carries(st) ==
  /\ st.at \notin {"manual", "compat", "refine", "reread", "begin"}
  /\ st.at # "idle" => st.kind \in Locked
  /\ st.at \in {"read", "rows"} \cup Moving => st.id < nextId
  /\ st.at \in Rendering /\ st.id \in Uncrossed => st.body = tx[st.id].candidate.server
  /\ st.at \in {"restart", "commit"} => live = st.body
  /\ st.at = "commit" => running = st.body

CandidateIsSettings == \A i \in Uncrossed : tx[i].candidate = settings

CommitInv ==
  /\ \A a \in Appliers : Carries(ap[a])
  /\ CandidateIsSettings

\* The statements keep the candidate of an open row; only a begin opens one.
OpenRowsStay ==
  /\ nextId' \in {nextId, nextId + 1}
  /\ \A i \in Uncrossed' :
       i < nextId => i \in Uncrossed /\ tx'[i].candidate = tx[i].candidate

\* The statements of begin, rollback and commit keep the open row's candidate
\* in the settings row.
LEMMA TableKept ==
  ASSUME SqlInv, CandidateIsSettings, NEW s \in Sessions,
         \/ (\E c \in Configs : SelectOpen(s, c)) \/ SelectCurrent(s) \/ WriteBegin(s)
         \/ (\E i \in Ids : SelectRow(s, i)) \/ WriteRollback(s)
         \/ \E i \in Ids : WriteCommit(s, i)
         \/ Crash(s) \/ UNCHANGED sqlVars
  PROVE  CandidateIsSettings' /\ OpenRowsStay
<1>0. tx \in [Ids -> Rows] /\ nextId \in Int /\ PendingIds \subseteq Ids
  BY BegunRows DEF SqlInv, SqlTypeOK, TxTypeOK, PendingIds
<1>1. ASSUME UNCHANGED settingsVars, UNCHANGED crossed
      PROVE  CandidateIsSettings' /\ OpenRowsStay
  BY <1>0, <1>1 DEF settingsVars, CandidateIsSettings, OpenRowsStay, Uncrossed, PendingIds
<1>2. CASE WriteBegin(s)
  <2>0. /\ nextId' = nextId + 1 /\ settings' = call[s].candidate /\ nextId \in Ids
        /\ tx' = [i \in Ids |->
             IF i = nextId THEN NewRow(s)
             ELSE IF call[s].at = "restore" /\ i \in PendingIds
                  THEN [tx[i] EXCEPT !.status = "rolled_back_stale"]
                  ELSE tx[i]]
        /\ Return(s)
    BY <1>2 DEF WriteBegin
  <2>1. crossed \subseteq crossed'
    BY <2>0 DEF Return
  <2>2. ASSUME NEW i \in Uncrossed', i # nextId
        PROVE  i \in Uncrossed /\ tx'[i] = tx[i]
    <3>1. i \in Ids /\ tx'[i].status = "pending" /\ i \notin crossed
      BY <2>1 DEF Uncrossed, PendingIds
    <3>2. CASE call[s].at = "restore" /\ i \in PendingIds
      <4>1. tx'[i] = [tx[i] EXCEPT !.status = "rolled_back_stale"]
        BY <2>0, <2>2, <3>1, <3>2
      <4> QED BY <1>0, <3>1, <4>1 DEF Rows
    <3>3. CASE ~(call[s].at = "restore" /\ i \in PendingIds)
      <4>1. tx'[i] = tx[i]
        BY <2>0, <2>2, <3>1, <3>3
      <4> QED BY <3>1, <4>1 DEF Uncrossed, PendingIds
    <3> QED BY <3>2, <3>3
  <2>3. OpenRowsStay
    <3>1. ASSUME NEW i \in Uncrossed', i < nextId
          PROVE  i \in Uncrossed /\ tx'[i].candidate = tx[i].candidate
      <4>1. i # nextId
        BY <1>0, <3>1
      <4> QED BY <2>2, <4>1
    <3> QED BY <2>0, <3>1 DEF OpenRowsStay
  <2>4. ASSUME NEW i \in Uncrossed' PROVE tx'[i].candidate = settings'
    <3>1. CASE i = nextId
      BY <2>0, <3>1 DEF NewRow
    <3>2. CASE i # nextId
      <4>1. i \in PendingIds /\ i \in PendingIds' /\ tx'[i] = tx[i] /\ i \notin crossed'
        BY <2>2, <3>2 DEF Uncrossed, PendingIds
      <4>2. ~Overtaken(s)
        BY <2>0, <4>1 DEF Return
      <4>3. call[s].at = "restore"
        BY <1>2, <4>1, <4>2 DEF WriteBegin, Overtaken
      <4>4. tx'[i] = [tx[i] EXCEPT !.status = "rolled_back_stale"]
        BY <1>0, <2>0, <3>2, <4>1, <4>3
      <4> QED BY <1>0, <4>1, <4>4 DEF PendingIds, Rows
    <3> QED BY <3>1, <3>2
  <2> QED BY <2>3, <2>4 DEF CandidateIsSettings
<1>3. CASE WriteRollback(s)
  <2>0. /\ nextId' = nextId /\ Return(s) /\ call[s].at = "undo"
        /\ tx' = [tx EXCEPT ![call[s].id].status = "rolled_back"]
    BY <1>3 DEF WriteRollback
  <2>1. crossed \subseteq crossed' /\ call[s].id \in Ids
    BY <2>0, CallAt DEF Return
  <2>2. ASSUME NEW i \in Uncrossed'
        PROVE  i \in Uncrossed /\ tx'[i] = tx[i] /\ i # call[s].id
    <3>1. i \in Ids /\ tx'[i].status = "pending" /\ i \notin crossed
      BY <2>1 DEF Uncrossed, PendingIds
    <3>2. i # call[s].id
      BY <1>0, <2>0, <3>1 DEF Rows
    <3> QED BY <1>0, <2>0, <3>1, <3>2 DEF Uncrossed, PendingIds
  <2>3. ASSUME NEW i \in Uncrossed' PROVE FALSE
    <3>1. i \in PendingIds /\ i \notin crossed /\ i # call[s].id
      BY <2>2 DEF Uncrossed
    <3>2. i \in PendingIds' /\ i \notin crossed'
      BY DEF Uncrossed
    <3>3. ~Overtaken(s)
      BY <2>0, <3>2 DEF Return
    <3>4. call[s].id \in PendingIds
      BY <2>0, <3>3 DEF Overtaken
    <3> QED BY <3>1, <3>4 DEF SqlInv, TwoOpenWereCrossed
  <2> QED BY <2>0, <2>3 DEF CandidateIsSettings, OpenRowsStay
<1>4. ASSUME NEW j \in Ids, WriteCommit(s, j)
      PROVE  CandidateIsSettings' /\ OpenRowsStay
  <2>1. /\ tx' = IF j \in PendingIds THEN [tx EXCEPT ![j].status = "applied"] ELSE tx
        /\ UNCHANGED <<settings, nextId, crossed>>
    BY <1>4 DEF WriteCommit, Commit
  <2>2. ASSUME NEW i \in Uncrossed'
        PROVE  i \in Uncrossed /\ tx'[i] = tx[i]
    <3>1. i \in Ids /\ tx'[i].status = "pending" /\ i \notin crossed
      BY <2>1 DEF Uncrossed, PendingIds
    <3>2. ~(i = j /\ j \in PendingIds)
      BY <1>0, <2>1, <3>1 DEF Rows
    <3> QED BY <1>0, <2>1, <3>1, <3>2 DEF Uncrossed, PendingIds
  <2> QED BY <1>0, <2>1, <2>2 DEF CandidateIsSettings, OpenRowsStay
<1>5. CASE \/ (\E c \in Configs : SelectOpen(s, c)) \/ SelectCurrent(s)
           \/ (\E i \in Ids : SelectRow(s, i)) \/ Crash(s) \/ UNCHANGED sqlVars
  BY <1>1, <1>5 DEF SelectOpen, SelectCurrent, SelectRow, Crash, sqlVars, settingsVars
<1> QED BY <1>2, <1>3, <1>4, <1>5

LEMMA CarriesKept ==
  ASSUME IInv, NEW b \in Appliers, NEW st, st = ap[b], Carries(st), OpenRowsStay,
         UNCHANGED <<live, running>> \/ st.at \notin {"restart", "commit"}
  PROVE  Carries(st)'
<1>1. nextId \in Int /\ nextId' \in Int
  BY BegunRows DEF IInv, OpenRowsStay
<1>2. st.at \in {"read", "rows"} \cup Moving => st.id \in Int /\ st.id < nextId /\ st.id < nextId'
  <2>1. st.at \in {"read", "rows"} \cup Moving => st.id \in {0} \cup Ids
    BY ApplierAt DEF Moving, Normalising, IInv, TypeOK
  <2> QED BY <1>1, <2>1 DEF Ids, Carries, OpenRowsStay
<1>3. st.at \in Rendering => st.at \in Moving
  BY DEF Rendering, Moving
<1>4. st.at \in Rendering /\ st.id \in Uncrossed' => st.body = tx'[st.id].candidate.server
  BY <1>2, <1>3 DEF Carries, OpenRowsStay
<1>5. /\ st.at \in {"restart", "commit"} => live' = st.body
      /\ st.at = "commit" => running' = st.body
  BY DEF Carries
<1> QED BY <1>2, <1>4, <1>5 DEF Carries

\* A step of one applier moves it to st and leaves the others where they were.
LEMMA CarriesMove ==
  ASSUME IInv, CommitInv, NEW a \in Appliers, NEW st,
         ap' = [ap EXCEPT ![a] = st], Carries(st)', UNCHANGED rq,
         CandidateIsSettings' /\ OpenRowsStay,
         UNCHANGED <<live, running>> \/ Holds(ap[a])
  PROVE  CommitInv'
<1>0. ap \in [Appliers -> ApplierStates] /\ LockMatches
  BY DEF IInv, TypeOK
<1>1. ASSUME NEW b \in Appliers, b # a
      PROVE  Carries(ap[b])'
  <2>1. ap'[b] = ap[b] /\ ap[b] \in ApplierStates /\ Carries(ap[b])
    BY <1>0, <1>1 DEF CommitInv
  <2>2. UNCHANGED <<live, running>> \/ ap[b].at \notin {"restart", "commit"}
    <3>1. CASE Holds(ap[a])
      <4>1. ~Holds(ap[b])
        BY <1>0, <1>1, <3>1, OneHolder
      <4> QED BY <2>1, <4>1 DEF Holds, Carries
    <3> QED BY <3>1
  <2>3. PICK sb : sb = ap[b]
    OBVIOUS
  <2>4. Carries(sb) /\ (UNCHANGED <<live, running>> \/ sb.at \notin {"restart", "commit"})
    BY <2>1, <2>2, <2>3
  <2>5. Carries(sb)'
    BY <2>3, <2>4, <1>1, CarriesKept
  <2> QED BY <2>1, <2>3, <2>5 DEF Carries
<1>2. Carries(ap[a])'
  <2>1. ap'[a] = st
    BY <1>0
  <2> QED BY <2>1 DEF Carries
<1> QED BY <1>1, <1>2 DEF CommitInv

\* Or to where nothing has been rendered yet, or nothing is left to commit.
LEMMA CarriesNothing ==
  ASSUME IInv, CommitInv, NEW a \in Appliers, NEW st, ap' = [ap EXCEPT ![a] = st],
         st.at \in {"idle", "lock", "tx", "unwind", "unwind row", "unwinding"},
         st.at # "idle" => st.kind \in Locked, UNCHANGED rq,
         CandidateIsSettings' /\ OpenRowsStay,
         UNCHANGED <<live, running>> \/ Holds(ap[a])
  PROVE  CommitInv'
<1>1. Carries(st)'
  BY DEF Carries, Rendering, Moving
<1> QED BY <1>1, CarriesMove

LEMMA CommitApplier ==
  ASSUME Legacy = {}, IInv, CommitInv, NEW a \in Appliers, ApplierStep(a)
  PROVE  CommitInv'
<1>0. /\ ap \in [Appliers -> ApplierStates] /\ SqlInv /\ Carries(ap[a]) /\ a \in Sessions
      /\ CandidateIsSettings /\ Pending \in {0} \cup Ids /\ nextId \in Int
      /\ PendingIds \subseteq Ids
  BY PendingType, BegunRows, ApplyAssumption DEF IInv, TypeOK, CommitInv, PendingIds
<1>q. UNCHANGED rq
  BY DEF ApplierStep, EntryFails, Unwind, Normalise, Normalised, CommitTx, RollbackTx, TakeLock,
    ReadTx, ReadSettings, StopService, Render, TestCandidate, SaveBackup, Install, Restart,
    RestoreFiles, Finish, ManualRollback
<1>u. ASSUME UNCHANGED sqlVars
      PROVE  CandidateIsSettings' /\ OpenRowsStay
  BY <1>0, <1>u, TableKept
<1>r. ASSUME Release(a), UNCHANGED sqlVars, UNCHANGED <<live, running>> \/ Holds(ap[a])
      PROVE  CommitInv'
  BY <1>q, <1>r, <1>u, CarriesNothing DEF Release, NoApplier
<1>1. CASE TakeLock(a)
  <2>1. UNCHANGED <<live, running>> /\ UNCHANGED sqlVars
    BY <1>1 DEF TakeLock, files
  <2>2. CASE Release(a)
    BY <2>1, <2>2, <1>r
  <2>3. CASE ap' = [ap EXCEPT ![a] = [at |-> "tx", kind |-> ap[a].kind]]
    <3>1. PICK st : st = [at |-> "tx", kind |-> ap[a].kind]
      OBVIOUS
    <3>2. st.at = "tx" /\ st.kind \in Locked
      BY <1>0, <1>1, <3>1 DEF TakeLock, Carries
    <3> QED BY <1>q, <1>u, <2>1, <2>3, <3>1, <3>2, CarriesNothing
  <2> QED BY <1>1, <2>2, <2>3 DEF TakeLock
<1>2. CASE EntryFails(a)
  <2>1. UNCHANGED <<live, running>> /\ UNCHANGED sqlVars /\ Raise(a)
    BY <1>2 DEF EntryFails, files
  <2>2. PICK st : /\ ap' = [ap EXCEPT ![a] = st]
                  /\ st.at \in {"idle", "unwind"}
                  /\ st.at = "idle" => st = NoApplier
                  /\ st.at = "unwind" => /\ st.kind = ap[a].kind
                                         /\ ap[a].kind \in {"runtime", "restore"}
    BY <2>1, RaiseGoes
  <2> QED BY <1>q, <1>u, <2>1, <2>2, CarriesNothing DEF Locked
<1>3. CASE Unwind(a)
  <2>1. UNCHANGED <<live, running>> /\ ap[a].kind \in Locked
    BY <1>0, <1>3 DEF Unwind, files, Carries
  <2>2. CandidateIsSettings' /\ OpenRowsStay
    BY <1>0, <1>3, <1>u, TableKept DEF Unwind
  <2>3. PICK st : /\ ap' = [ap EXCEPT ![a] = st]
                  /\ st.at \in {"idle", "unwind row", "unwinding"}
                  /\ st.at = "idle" => st = NoApplier
                  /\ st.at # "idle" => st.kind = ap[a].kind
    BY <1>3, UnwindGoes
  <2> QED BY <1>q, <2>1, <2>2, <2>3, CarriesNothing
<1>4. CASE ReadTx(a)
  <2>1. PICK st : st = [at |-> "read", kind |-> ap[a].kind, id |-> Pending]
    OBVIOUS
  <2>2. /\ ap' = [ap EXCEPT ![a] = st] /\ UNCHANGED <<live, running>> /\ UNCHANGED sqlVars
        /\ ap[a].kind \in Locked /\ nextId' = nextId
    BY <1>0, <1>4, <2>1 DEF ReadTx, files, sqlVars, Carries
  <2>3. Pending < nextId
    <3>1. nextId >= 1
      BY <1>0 DEF SqlInv, SqlTypeOK, TxTypeOK
    <3> QED BY <1>0, <3>1, PendingType, BegunRows
  <2>4. Carries(st)'
    BY <2>1, <2>2, <2>3 DEF Carries, Rendering, Moving
  <2> QED BY <1>q, <1>u, <2>2, <2>4, CarriesMove
<1>5. CASE ReadSettings(a)
  <2>1. PICK st : st = [at |-> "rows", kind |-> ap[a].kind, id |-> ap[a].id, value |-> settings,
                        any |-> enabled \/ ap[a].kind = "restore"]
    OBVIOUS
  <2>2. /\ ap' = [ap EXCEPT ![a] = st] /\ UNCHANGED <<live, running>> /\ UNCHANGED sqlVars
        /\ ap[a].kind \in Locked /\ nextId' = nextId /\ ap[a].id < nextId
    BY <1>0, <1>5, <2>1 DEF ReadSettings, files, sqlVars, Carries
  <2>3. Carries(st)'
    BY <2>1, <2>2 DEF Carries, Rendering, Moving
  <2> QED BY <1>q, <1>u, <2>2, <2>3, CarriesMove
<1>6. CASE Normalise(a) \/ Normalised(a)
  BY <1>0, <1>6 DEF Normalise, Normalised, Carries
<1>7. CASE StopService(a) \/ Finish(a)
  <2>1. Holds(ap[a]) /\ Release(a) /\ UNCHANGED sqlVars
    BY <1>0, <1>7 DEF StopService, Finish, Holds, Carries
  <2> QED BY <2>1, <1>r
<1>8. CASE Render(a)
  <2>1. PICK next \in {"test", "failed"} :
             ap' = [ap EXCEPT ![a] = [at |-> next, kind |-> ap[a].kind, id |-> ap[a].id,
                                      body |-> settings.server, had |-> live # NoFile]]
    BY <1>8 DEF Render, Rendered
  <2>2. PICK st : st = [at |-> next, kind |-> ap[a].kind, id |-> ap[a].id,
                        body |-> settings.server, had |-> live # NoFile]
    OBVIOUS
  <2>3. /\ ap' = [ap EXCEPT ![a] = st] /\ UNCHANGED <<live, running, nextId, tx, crossed>>
        /\ UNCHANGED sqlVars /\ ap[a].kind \in Locked /\ ap[a].id < nextId
    BY <1>0, <1>8, <2>1, <2>2 DEF Render, sqlVars, Carries
  <2>4. ap[a].id \in Uncrossed => tx[ap[a].id].candidate = settings
    BY <1>0 DEF CandidateIsSettings
  <2>5. Uncrossed' = Uncrossed
    BY <2>3 DEF PendingIds, Uncrossed
  <2>6. Carries(st)'
    BY <2>2, <2>3, <2>4, <2>5 DEF Carries, Rendering, Moving
  <2> QED BY <1>q, <1>u, <2>3, <2>6, CarriesMove
\* From the test on the applier only moves its program counter.
<1>9. ASSUME NEW pc \in Moving \ {"test"}, ap[a].at \in Moving, ap' = [ap EXCEPT ![a].at = pc],
             CandidateIsSettings' /\ OpenRowsStay,
             pc \in Rendering => ap[a].at \in Rendering /\ UNCHANGED sqlVars,
             pc \in {"restart", "commit"} => live' = ap[a].body,
             pc = "commit" => running' = ap[a].body
      PROVE  CommitInv'
  <2>1. PICK st : st = [ap[a] EXCEPT !.at = pc]
    OBVIOUS
  <2>2. ap[a] \in [at : Moving, kind : Kinds, id : {0} \cup Ids, body : Servers, had : BOOLEAN]
    BY <1>0, <1>9, ApplierAt
  <2>3. st.at = pc /\ st.kind = ap[a].kind /\ st.id = ap[a].id /\ st.body = ap[a].body
    BY <2>1, <2>2
  <2>4. ap[a].kind \in Locked /\ ap[a].id < nextId /\ Holds(ap[a])
    BY <1>0, <1>9 DEF Carries, Holds, Moving
  <2>5. ap[a].id < nextId'
    BY <1>0, <1>9, <2>2, <2>4 DEF OpenRowsStay, Ids
  <2>6. pc \in Rendering /\ ap[a].id \in Uncrossed' => ap[a].body = tx'[ap[a].id].candidate.server
    BY <1>0, <1>9 DEF sqlVars, PendingIds, Uncrossed, Carries
  <2>7. Carries(st)'
    BY <1>9, <2>3, <2>4, <2>5, <2>6 DEF Carries, Rendering, Moving
  <2> QED BY <1>q, <1>9, <2>1, <2>4, <2>7, CarriesMove
<1>10. CASE TestCandidate(a) \/ SaveBackup(a)
  BY <1>10, <1>9, <1>u DEF TestCandidate, SaveBackup, Rendering, Moving
<1>11. CASE Install(a)
  BY <1>11, <1>9, <1>u DEF Install, Rendering, Moving
<1>12. CASE Restart(a)
  BY <1>0, <1>12, <1>9, <1>u DEF Restart, Rendering, Carries, Moving
<1>13. CASE RestoreFiles(a)
  BY <1>13, <1>9, <1>u DEF RestoreFiles, Rendering, Moving
<1>14. CASE CommitTx(a)
  <2>1. ap[a].id \in {0} \cup Ids
    BY <1>0, <1>14, ApplierAt DEF CommitTx, Moving
  <2>2. CandidateIsSettings' /\ OpenRowsStay
    BY <1>0, <1>14, <1>u, <2>1, TableKept DEF CommitTx
  <2> QED BY <1>14, <1>9, <2>2 DEF CommitTx, Rendering, Moving
<1>15. CASE RollbackTx(a)
  <2>1. CandidateIsSettings' /\ OpenRowsStay
    BY <1>0, <1>15, <1>u, TableKept DEF RollbackTx
  <2> QED BY <1>15, <1>9, <2>1 DEF RollbackTx, Rendering, Moving
<1>16. CASE ManualRollback(a)
  BY <1>0, <1>16 DEF ManualRollback, Carries
<1> QED BY <1>1, <1>2, <1>3, <1>4, <1>5, <1>6, <1>7, <1>8, <1>10, <1>11, <1>12,
           <1>13, <1>14, <1>15, <1>16 DEF ApplierStep

\* Steps of the others: the appliers and the files stay.
LEMMA CarriesRest ==
  ASSUME IInv, CommitInv, CandidateIsSettings' /\ OpenRowsStay, UNCHANGED <<live, running, ap>>
  PROVE  CommitInv'
<1>1. ASSUME NEW b \in Appliers
      PROVE  Carries(ap[b])'
  <2>1. PICK st : st = ap[b]
    OBVIOUS
  <2>2. Carries(st)
    BY <2>1 DEF CommitInv
  <2>3. Carries(st)'
    BY <2>1, <2>2, CarriesKept
  <2>4. ap'[b] = st
    BY <2>1
  <2> QED BY <2>3, <2>4 DEF Carries
<1> QED BY <1>1 DEF CommitInv

LEMMA CommitRequest ==
  ASSUME RequestKinds \subseteq {"test", "save"},
         IInv, NoJobs, CommitInv, NEW r \in Requests, RequestStep(r)
  PROVE  CommitInv'
<1>0. /\ rq \in [Requests -> RequestStates] /\ SqlInv /\ CandidateIsSettings /\ r \in Sessions
  BY ApplyAssumption DEF IInv, TypeOK, CommitInv
<1>u. ASSUME UNCHANGED sqlVars
      PROVE  CandidateIsSettings' /\ OpenRowsStay
  BY <1>0, <1>u, TableKept
<1>1. CASE BeginRequest(r)
  <2>1. rq[r].at = "prepared" => rq[r].value \in Configs
    BY <1>0, RequestAt
  <2>2. CandidateIsSettings' /\ OpenRowsStay
    BY <1>0, <1>1, <2>1, TableKept DEF BeginRequest
  <2> QED BY <1>1, <2>2, CarriesRest DEF BeginRequest, files
<1>2. CASE DirectRequest(r)
  BY <1>0, <1>2, RequestAt DEF DirectRequest
<1>3. CASE FinishRequest(r)
  <2>1. rq[r].id \in Ids
    BY <1>0, <1>3, RequestAt DEF FinishRequest
  <2>2. CandidateIsSettings' /\ OpenRowsStay
    BY <1>0, <1>3, <1>u, <2>1, TableKept DEF FinishRequest
  <2> QED BY <1>3, <2>2, CarriesRest DEF FinishRequest, files
<1>4. CASE UndoRequest(r)
  <2>1. CandidateIsSettings' /\ OpenRowsStay
    BY <1>0, <1>4, TableKept DEF UndoRequest
  <2> QED BY <1>4, <2>1, CarriesRest DEF UndoRequest, files
<1>5. CASE JobNotStarted(r) \/ \E a \in Appliers : StartJob(r, a)
  BY <1>5 DEF JobNotStarted, StartJob, NoJobs
<1> QED BY <1>1, <1>2, <1>3, <1>4, <1>5 DEF RequestStep

LEMMA CommitNext ==
  ASSUME Legacy = {}, ApplierKinds \subseteq Locked, RequestKinds \subseteq {"test", "save"},
         IInv, NoJobs, CommitInv, [Next]_applyVars
  PROVE  CommitInv'
<1>0. /\ ap \in [Appliers -> ApplierStates] /\ SqlInv /\ CandidateIsSettings
      /\ Requests \subseteq Sessions /\ Appliers \subseteq Sessions
  BY ApplyAssumption DEF IInv, TypeOK, CommitInv
<1>u. ASSUME UNCHANGED <<settingsVars, crossed>>
      PROVE  CandidateIsSettings' /\ OpenRowsStay
  <2>1. nextId' = nextId /\ Uncrossed' = Uncrossed /\ tx' = tx /\ settings' = settings
    BY <1>u DEF settingsVars, Uncrossed, PendingIds
  <2> QED BY <1>0, <2>1 DEF CandidateIsSettings, OpenRowsStay
<1>1. CASE UNCHANGED applyVars
  BY <1>1, <1>u, CarriesRest DEF applyVars, settingsVars
<1>2. CASE \E a \in Appliers : ApplierStep(a)
  BY <1>2, CommitApplier
<1>3. CASE \E r \in Requests : RequestStep(r)
  BY <1>3, CommitRequest
<1>4. ASSUME NEW r \in Requests,
             KillRequest(r) \/ \E kind \in RequestKinds, c \in Configs : Prepare(r, kind, c)
      PROVE  CommitInv'
  BY <1>4, <1>u, CarriesRest DEF KillRequest, Prepare, files, sqlVars, settingsVars
<1>5. ASSUME NEW a \in Appliers, KillApplier(a)
      PROVE  CommitInv'
  BY <1>5, <1>u, CarriesNothing DEF KillApplier, Release, files, NoApplier
<1>6. ASSUME NEW a \in Appliers, NEW kind \in ApplierKinds, Start(a, kind)
      PROVE  CommitInv'
  <2>1. PICK st : st = [at |-> "lock", kind |-> kind, seen |-> Pending]
    OBVIOUS
  <2>2. /\ ap' = [ap EXCEPT ![a] = st] /\ UNCHANGED <<rq, live, running>>
        /\ UNCHANGED <<settingsVars, crossed>> /\ st.at = "lock" /\ st.kind \in Locked
    BY <1>6, <2>1 DEF Start, Locked, files, sqlVars, settingsVars
  <2> QED BY <2>2, <1>u, CarriesNothing
<1>7. CASE ToggleClients \/ \E r \in Readers : ReadCurrent(r) \/ ReadPending(r)
  BY <1>7, <1>u, CarriesRest DEF ToggleClients, ReadCurrent, ReadPending, files, sqlVars,
    settingsVars
<1> QED BY <1>1, <1>2, <1>3, <1>4, <1>5, <1>6, <1>7 DEF Next

LEMMA CommitInit == Init => CommitInv
<1> SUFFICES ASSUME Init PROVE CommitInv
  OBVIOUS
<1>1. Uncrossed = {}
  BY DEF Init, SqlInit, TxInit, PendingIds, Uncrossed
<1> QED BY <1>1 DEF Init, CommitInv, CandidateIsSettings, Carries, NoApplier, Rendering, Moving

\* A statement that is not the commit of a row does not make it "applied".
LEMMA OnlyCommitApplies ==
  ASSUME SqlInv, NEW s \in Sessions, SessionStep(s), NEW i \in PendingIds,
         ~WriteCommit(s, i)
  PROVE  tx'[i].status # "applied"
<1>0. /\ tx[i].status = "pending" /\ i \in Ids /\ tx \in [Ids -> Rows]
  BY DEF PendingIds, SqlInv, SqlTypeOK, TxTypeOK
<1>1. CASE UNCHANGED tx
  BY <1>0, <1>1
<1>2. CASE WriteBegin(s)
  <2>1. \/ tx'[i] = NewRow(s)
        \/ tx'[i] = [tx[i] EXCEPT !.status = "rolled_back_stale"]
        \/ tx'[i] = tx[i]
    BY <1>0, <1>2 DEF WriteBegin
  <2> QED BY <1>0, <2>1 DEF NewRow, Rows
<1>3. CASE WriteRollback(s)
  <2>1. tx'[i] = [tx[i] EXCEPT !.status = "rolled_back"] \/ tx'[i] = tx[i]
    BY <1>0, <1>3 DEF WriteRollback
  <2> QED BY <1>0, <2>1 DEF Rows
<1>4. CASE WriteRefine(s)
  <2>1. tx'[i] = [tx[i] EXCEPT !.candidate = call[s].candidate] \/ tx'[i] = tx[i]
    BY <1>0, <1>4 DEF WriteRefine
  <2> QED BY <1>0, <2>1 DEF Rows
<1>5. ASSUME NEW j \in Ids, WriteCommit(s, j)
      PROVE  tx'[i].status # "applied"
  <2>1. j # i
    BY <1>5
  <2> QED BY <1>0, <1>5, <2>1 DEF WriteCommit, Commit
<1>6. CASE \/ \E c \in Configs : SelectOpen(s, c) \/ WriteDirect(s, c)
           \/ SelectCurrent(s) \/ Crash(s)
           \/ \E j \in Ids : SelectRow(s, j)
           \/ \E j \in Ids, c \in Configs : SelectForRefine(s, j, c)
  BY <1>1, <1>6 DEF SelectOpen, WriteDirect, DirectUpdate, SelectCurrent, Crash, SelectRow,
    SelectForRefine, settingsVars
<1> QED BY <1>2, <1>3, <1>4, <1>5, <1>6 DEF SessionStep

\* Only a commit makes a row "applied", and then its candidate runs.
LEMMA CommitIsHonest ==
  ASSUME IInv, CommitInv, [Next]_applyVars, NEW i \in PendingIds, tx'[i].status = "applied"
  PROVE  running = tx[i].candidate.server \/ i \in crossed
<1>0. /\ tx[i].status = "pending" /\ i \in Ids /\ tx \in [Ids -> Rows] /\ SqlInv
      /\ i # 0 /\ Requests \subseteq Sessions /\ Appliers \subseteq Sessions
  BY ApplyAssumption DEF PendingIds, IInv, TypeOK, SqlTypeOK, TxTypeOK, Ids
<1>1. ASSUME UNCHANGED tx PROVE FALSE
  BY <1>0, <1>1
<1>2. ASSUME NEW s \in Sessions, SessionStep(s) PROVE WriteCommit(s, i)
  BY <1>0, <1>2, OnlyCommitApplies
<1>3. ASSUME NEW a \in Appliers, CommitTx(a)
      PROVE  running = tx[i].candidate.server \/ i \in crossed
  <2>1. WriteCommit(a, ap[a].id) /\ ap[a].id # 0
    BY <1>1, <1>3 DEF CommitTx, sqlVars
  <2>2. ap[a].id = i
    BY <1>0, <2>1 DEF WriteCommit, Commit
  <2>3. Carries(ap[a]) /\ ap[a].at = "commit"
    BY <1>3 DEF CommitInv, CommitTx
  <2>4. i \notin crossed => i \in Uncrossed
    BY DEF Uncrossed
  <2> QED BY <2>2, <2>3, <2>4 DEF Carries, Rendering
\* No other step runs the statement of a commit.
<1>4. ASSUME NEW s \in Sessions, WriteCommit(s, i),
             \/ (\E c \in Configs : SelectOpen(s, c)) \/ SelectCurrent(s) \/ WriteBegin(s)
             \/ (\E j \in Ids : SelectRow(s, j)) \/ WriteRollback(s) \/ UNCHANGED sqlVars
             \/ (\E j \in Ids, c \in Configs : SelectForRefine(s, j, c)) \/ WriteRefine(s)
             \/ (\E c \in Configs : WriteDirect(s, c))
      PROVE  FALSE
  <2>1. call[s].at = "idle"
    BY <1>4 DEF WriteCommit, Idle
  <2>2. ~(SelectCurrent(s) \/ WriteBegin(s) \/ WriteRollback(s) \/ WriteRefine(s))
    BY <2>1 DEF SelectCurrent, WriteBegin, WriteRollback, WriteRefine
  <2> QED BY <1>1, <1>4, <2>2 DEF SelectOpen, SelectRow, SelectForRefine, WriteDirect,
    DirectUpdate, settingsVars, sqlVars
<1>5. ASSUME NEW a \in Appliers, ApplierStep(a), ~CommitTx(a)
      PROVE  FALSE
  <2>1. WriteCommit(a, i)
    BY <1>0, <1>1, <1>2, <1>5, ApplierSession DEF sqlVars
  <2>2. Carries(ap[a])
    BY DEF CommitInv
  <2>3. CASE Unwind(a) \/ RollbackTx(a)
    BY <1>0, <1>4, <2>1, <2>3 DEF Unwind, RollbackTx, PendingIds
  <2>4. CASE Normalise(a) \/ Normalised(a)
    BY <2>2, <2>4 DEF Normalise, Normalised, Carries
  <2>5. CASE TakeLock(a) \/ EntryFails(a) \/ ReadTx(a) \/ ReadSettings(a) \/ StopService(a)
             \/ Render(a) \/ TestCandidate(a) \/ SaveBackup(a) \/ Install(a) \/ Restart(a)
             \/ RestoreFiles(a) \/ Finish(a) \/ ManualRollback(a)
    BY <1>0, <1>4, <2>1, <2>5 DEF TakeLock, EntryFails, ReadTx, ReadSettings, StopService,
      Render, TestCandidate, SaveBackup, Install, Restart, RestoreFiles, Finish, ManualRollback
  <2> QED BY <1>5, <2>3, <2>4, <2>5 DEF ApplierStep
<1>6. ASSUME NEW r \in Requests, RequestStep(r)
      PROVE  FALSE
  <2>1. WriteCommit(r, i)
    BY <1>0, <1>1, <1>2, <1>6, RequestSession DEF sqlVars
  <2>2. /\ rq \in [Requests -> RequestStates] /\ settings \in Configs
    BY DEF IInv, TypeOK, SqlTypeOK, TxTypeOK
  <2>3. CASE BeginRequest(r)
    <3>1. rq[r].at = "prepared" => rq[r].value \in Configs
      BY <2>2, RequestAt
    <3> QED BY <1>0, <1>4, <2>1, <2>3, <3>1 DEF BeginRequest
  <2>4. CASE DirectRequest(r)
    BY <1>1, <2>4 DEF DirectRequest, WriteDirect, DirectUpdate
  <2>5. CASE FinishRequest(r) \/ UndoRequest(r)
    <3>1. PendingIds \subseteq Ids
      BY DEF PendingIds
    <3> QED BY <1>0, <1>4, <2>1, <2>5, <3>1 DEF FinishRequest, UndoRequest
  <2>6. CASE JobNotStarted(r) \/ \E a \in Appliers : StartJob(r, a)
    BY <1>1, <2>6 DEF JobNotStarted, StartJob, sqlVars
  <2> QED BY <1>6, <2>3, <2>4, <2>5, <2>6 DEF RequestStep
<1>7. ASSUME ~\E a \in Appliers : ApplierStep(a), ~\E r \in Requests : RequestStep(r)
      PROVE  FALSE
  BY <1>1, <1>7 DEF Next, applyVars, Prepare, KillRequest, Start, KillApplier, ReadCurrent,
    ReadPending, ToggleClients, sqlVars, settingsVars
<1> QED BY <1>3, <1>5, <1>6, <1>7

\* For any number of sg-hostd threads under the lock, panel tests and kills,
\* between any two statements: a transaction is recorded as applied only
\* while the service runs its candidate, unless an overtaken call wrote
\* beside it.  Left out are the unlocked job and manual rollback, the edits
\* that bypass the transactions, and settings that still need the Hysteria2
\* rewrite, which is such an edit when nothing is served: each breaks it.
THEOREM LockedCommitIsHonest ==
  ASSUME Legacy = {}, ApplierKinds \subseteq Locked, RequestKinds \subseteq {"test", "save"}
  PROVE  Spec => CommitPublishesWhatRuns
<1>1. IInv /\ NoJobs /\ CommitInv /\ [Next]_applyVars => NoJobs' /\ CommitInv'
  BY CommitNext, NoJobsNext
<1>2. IInv /\ CommitInv /\ [Next]_applyVars
        => [\A i \in PendingIds :
              tx'[i].status = "applied" =>
                running = tx[i].candidate.server \/ i \in crossed]_applyVars
  BY CommitIsHonest
<1> QED BY <1>1, <1>2, IInvInit, IInvNext, NoJobsInit, CommitInit, PTL
     DEF Spec, CommitPublishesWhatRuns
-----------------------------------------------------------------------------
\* One operator who waits for each operation to end.  Then one session at
\* most is inside a call, so no call is overtaken and one transaction at most
\* is open (Steady).  ServesInv follows the operation under way step by step:
\* what it has rendered, what backup it could put back, and whether
\* config.json still is what links publish.
Steady == OnePending /\ ReadIsFresh

Agree(s) ==
  /\ live # NoFile => s \in {live, Compatible[live]}
  /\ running # NoFile => running = live

Mine(i) == PendingIds = IF i = 0 THEN {} ELSE {i}

AtRest == PendingIds = {} /\ Agree(settings.server)

ApplierServes(st) ==
  /\ st.at \notin {"manual", "unwind row", "unwinding"}
  /\ st.at \in {"lock", "unwind", "done"} => AtRest
  /\ st.at \in {"tx", "read", "test", "save", "install", "undo", "undoing"} \cup Normalising =>
       Agree(Published.server)
  /\ st.at \in {"read", "compat", "rows", "failed", "undo"} \cup Rendering => Mine(st.id)
  /\ st.at = "compat" => st.value = settings /\ settings.server \in Legacy
  /\ st.at \in Rendering => st.body = settings.server
  /\ st.at = "test" => candidate = st.body
  /\ st.at \in {"test", "save", "install"} => (st.had <=> live # NoFile)
  /\ st.at = "install" => backup = live
  /\ st.at \in {"restart", "failed"} =>
       /\ st.had <=> backup # NoFile
       /\ backup # NoFile => Published.server \in {backup, Compatible[backup]}
  /\ st.at \in {"restart", "commit"} => live = st.body
  /\ st.at = "commit" => running = st.body

RequestServes(st) ==
  /\ st.at \in {"prepared", "begin"} => AtRest
  /\ st.at = "prepared" /\ st.kind = "fingerprint" => st.value.server = settings.server
  /\ st.at \in {"test", "apply", "save", "unstarted"} => Mine(st.id)
  /\ st.at \in {"test", "apply", "save", "unstarted", "undo"} => Agree(Published.server)

Alone ==
  /\ \A a, b \in Appliers : ap[a] # NoApplier /\ ap[b] # NoApplier => a = b
  /\ \A r, q \in Requests : rq[r] # NoRequest /\ rq[q] # NoRequest => r = q
  /\ \A a \in Appliers, r \in Requests : ap[a] = NoApplier \/ rq[r] = NoRequest

ServesInv ==
  /\ Alone
  /\ \A a \in Appliers : ApplierServes(ap[a])
  /\ \A r \in Requests : RequestServes(rq[r])
  /\ Quiet => AtRest

LEMMA SteadyTx == IInv /\ Steady => TxInv
BY DEF IInv, TypeOK, SqlTypeOK, Steady, TxInv

LEMMA IdleServes ==
  /\ ApplierServes(NoApplier) /\ ApplierServes(NoApplier)'
  /\ RequestServes(NoRequest) /\ RequestServes(NoRequest)'
BY DEF ApplierServes, RequestServes, NoApplier, NoRequest, Rendering, Normalising

LEMMA MinePublished ==
  ASSUME TxInv, NEW i \in {0} \cup Ids, Mine(i)
  PROVE  /\ Pending = i
         /\ Published = IF i = 0 THEN settings ELSE tx[i].previous
<1>1. CASE i = 0
  BY <1>1 DEF Mine, Pending, Published
<1>2. CASE i # 0
  BY <1>2, PendingRow DEF Mine
<1> QED BY <1>1, <1>2

LEMMA PendingIsMine ==
  ASSUME TxInv
  PROVE  Mine(Pending)
<1>1. CASE PendingIds = {}
  BY <1>1 DEF Mine, Pending
<1>2. ASSUME NEW i \in PendingIds
      PROVE  Mine(Pending)
  <2>1. Pending = i /\ PendingIds = {i} /\ i # 0
    BY PendingRow DEF PendingIds, Ids
  <2> QED BY <2>1 DEF Mine
<1> QED BY <1>1, <1>2

LEMMA RestPublished ==
  ASSUME PendingIds = {}
  PROVE  Published = settings /\ Pending = 0 /\ Mine(0)
BY DEF Published, Pending, Mine

-----------------------------------------------------------------------------
\* Whoever is active is the only session inside a call...
LEMMA OthersIdle ==
  ASSUME IInv, Alone, NEW s \in Sessions,
         \/ s \in Appliers /\ ap[s] # NoApplier
         \/ s \in Requests /\ rq[s] # NoRequest
  PROVE  \A t \in Sessions : t # s => call[t] = Idle
<1> SUFFICES ASSUME NEW t \in Sessions, t # s PROVE call[t] = Idle
  OBVIOUS
<1>0. /\ ap \in [Appliers -> ApplierStates] /\ rq \in [Requests -> RequestStates]
      /\ CallsMatch /\ call \in [Sessions -> CallStates]
      /\ Sessions = Requests \cup Appliers /\ Requests \cap Appliers = {}
  BY ApplyAssumption DEF IInv, TypeOK, SqlTypeOK
<1>1. call[t].at = "idle"
  <2>1. CASE t \in Appliers
    <3>1. ap[t] = NoApplier
      BY <1>0, <2>1 DEF Alone
    <3>2. CallAtIs(call[t], "idle")
      BY <1>0, <2>1, <3>1 DEF CallsMatch, NoApplier
    <3> QED BY <3>2, CallAtCases DEF Calling
  <2>2. CASE t \in Requests
    <3>1. rq[t] = NoRequest
      BY <1>0, <2>2 DEF Alone
    <3>2. CallAtIs(call[t], "idle")
      BY <1>0, <2>2, <3>1 DEF CallsMatch, NoRequest
    <3> QED BY <3>2, CallAtCases DEF Calling
  <2> QED BY <1>0, <2>1, <2>2
<1> QED BY <1>0, <1>1 DEF CallStates

LEMMA ApplierActive ==
  ASSUME NEW a \in Appliers, ApplierStep(a)
  PROVE  ap[a] # NoApplier
<1> SUFFICES ASSUME ap[a].at = "idle" PROVE FALSE
  BY DEF NoApplier
<1>1. ~(TakeLock(a) \/ EntryFails(a) \/ Unwind(a) \/ ReadTx(a) \/ ReadSettings(a))
  BY DEF TakeLock, EntryFails, Unwind, ReadTx, ReadSettings
<1>2. ~(Normalise(a) \/ Normalised(a) \/ StopService(a) \/ Render(a) \/ TestCandidate(a))
  BY DEF Normalise, Normalised, StopService, Render, TestCandidate
<1>3. ~(SaveBackup(a) \/ Install(a) \/ Restart(a) \/ CommitTx(a) \/ RestoreFiles(a))
  BY DEF SaveBackup, Install, Restart, CommitTx, RestoreFiles
<1>4. ~(RollbackTx(a) \/ Finish(a) \/ ManualRollback(a))
  BY DEF RollbackTx, Finish, ManualRollback
<1> QED BY <1>1, <1>2, <1>3, <1>4 DEF ApplierStep

\* ...so the calls stay fresh.
LEMMA SteadyStay ==
  ASSUME Steady, UNCHANGED sqlVars
  PROVE  Steady'
BY DEF Steady, OnePending, ReadIsFresh, Overtaken, PendingIds, sqlVars

LEMMA SteadyMove ==
  ASSUME IInv, Steady, Alone, NEW s \in Sessions,
         \/ s \in Appliers /\ ap[s] # NoApplier
         \/ s \in Requests /\ rq[s] # NoRequest,
         SessionStep(s)
  PROVE  Steady'
<1>1. ReadIsFresh' /\ [TxNext]_settingsVars
  BY OthersIdle, AloneStep DEF IInv, Steady
<1>2. TxInv'
  BY <1>1, SteadyTx, TxInvNext
<1> QED BY <1>1, <1>2 DEF Steady, TxInv

LEMMA SteadyNext ==
  ASSUME ~Crashes, IInv, Steady, Alone, [Next]_applyVars
  PROVE  Steady'
<1>1. ASSUME NEW a \in Appliers, ApplierStep(a)
      PROVE  Steady'
  <2>1. ap[a] # NoApplier
    BY <1>1, ApplierActive
  <2>2. a \in Sessions
    BY ApplyAssumption
  <2> QED BY <1>1, <2>1, <2>2, ApplierSession, SteadyStay, SteadyMove
<1>2. ASSUME NEW r \in Requests, RequestStep(r)
      PROVE  Steady'
  <2>1. rq[r] # NoRequest
    BY <1>2 DEF RequestStep, BeginRequest, DirectRequest, FinishRequest, UndoRequest,
      JobNotStarted, StartJob, NoRequest
  <2>2. r \in Sessions
    BY ApplyAssumption
  <2> QED BY <1>2, <2>1, <2>2, RequestSession, SteadyStay, SteadyMove
<1>3. CASE \/ UNCHANGED applyVars \/ ToggleClients
           \/ \E r \in Requests : \E kind \in RequestKinds, c \in Configs : Prepare(r, kind, c)
           \/ \E a \in Appliers : \E kind \in ApplierKinds : Start(a, kind)
           \/ \E k \in Readers : ReadCurrent(k) \/ ReadPending(k)
  <2>1. UNCHANGED sqlVars
    BY <1>3 DEF applyVars, sqlVars, ToggleClients, Prepare, Start, ReadCurrent, ReadPending
  <2> QED BY <2>1, SteadyStay
<1> QED BY <1>1, <1>2, <1>3 DEF Next, KillRequest, KillApplier

\* The write of a fresh call is the one-step operation.
LEMMA FreshWrites ==
  ASSUME IInv, Steady, NEW s \in Sessions
  PROVE  /\ WriteBegin(s) => call[s].candidate \in Configs /\ Begin(call[s].candidate)
         /\ WriteRollback(s) =>
              \E i \in Ids : i = call[s].id /\ i \in PendingIds /\ Rollback(i)
         /\ WriteRefine(s) =>
              \E i \in Ids, c \in Configs : i \in PendingIds /\ UpdateCandidate(i, c)
<1>0. SqlInv /\ ~Overtaken(s)
  BY DEF IInv, Steady, ReadIsFresh
<1>1. ASSUME WriteBegin(s)
      PROVE  call[s].candidate \in Configs /\ Begin(call[s].candidate)
  <2>1. call[s].at \in {"restore", "insert"} /\ call[s].candidate \in Configs
    BY <1>0, <1>1, CallAt DEF WriteBegin
  <2>2. /\ call[s].previous = Found
        /\ call[s].at = "insert" => PendingIds = {}
    BY <1>0, <2>1, FreshBegin
  <2>3. \A i \in Ids : tx[i].status = "pending" <=> i \in PendingIds
    BY DEF PendingIds
  <2>4. tx' = [i \in Ids |->
              IF i = nextId
              THEN [previous |-> Found, candidate |-> call[s].candidate, status |-> "pending"]
              ELSE IF tx[i].status = "pending"
                   THEN [tx[i] EXCEPT !.status = "rolled_back_stale"]
                   ELSE tx[i]]
    BY <1>1, <2>1, <2>2, <2>3 DEF WriteBegin, NewRow
  <2> QED BY <1>1, <2>1, <2>4 DEF WriteBegin, Begin
<1>2. ASSUME WriteRollback(s)
      PROVE  \E i \in Ids : i = call[s].id /\ i \in PendingIds /\ Rollback(i)
  <2>1. PICK i \in Ids : i = call[s].id
    BY <1>0, <1>2, CallAt DEF WriteRollback
  <2>2. i \in PendingIds
    BY <1>0, <1>2, <2>1 DEF WriteRollback, Overtaken
  <2> QED BY <1>2, <2>1, <2>2 DEF WriteRollback, Rollback
<1>3. ASSUME WriteRefine(s)
      PROVE  \E i \in Ids, c \in Configs : i \in PendingIds /\ UpdateCandidate(i, c)
  <2>1. PICK i \in Ids, c \in Configs : i = call[s].id /\ c = call[s].candidate
    BY <1>0, <1>3, CallAt DEF WriteRefine
  <2>2. i \in PendingIds
    BY <1>0, <1>3, <2>1 DEF WriteRefine, Overtaken
  <2>3. UpdateCandidate(i, c)
    BY <1>3, <2>1, <2>2 DEF WriteRefine, UpdateCandidate
  <2> QED BY <2>2, <2>3
<1> QED BY <1>1, <1>2, <1>3

-----------------------------------------------------------------------------
\* A step of the only active applier.
LEMMA ServesMove ==
  ASSUME IInv, ServesInv, NEW a \in Appliers, NEW st, ap[a] # NoApplier,
         ap' = [ap EXCEPT ![a] = st], UNCHANGED rq,
         ApplierServes(st)', st = NoApplier => AtRest'
  PROVE  ServesInv'
<1>0. /\ ap \in [Appliers -> ApplierStates] /\ rq \in [Requests -> RequestStates]
  BY DEF IInv, TypeOK
<1>1. /\ \A b \in Appliers : b # a => ap'[b] = NoApplier
      /\ \A r \in Requests : rq'[r] = NoRequest
      /\ ap'[a] = st
  BY <1>0 DEF ServesInv, Alone
<1>2. Alone'
  BY <1>1 DEF Alone
<1>3. \A b \in Appliers : ApplierServes(ap[b])'
  <2> SUFFICES ASSUME NEW b \in Appliers PROVE ApplierServes(ap[b])'
    OBVIOUS
  <2>1. CASE b = a
    BY <1>1, <2>1 DEF ApplierServes
  <2>2. CASE b # a
    <3>1. ap'[b] = NoApplier
      BY <1>1, <2>2
    <3> QED BY <3>1, IdleServes DEF ApplierServes
  <2> QED BY <2>1, <2>2
<1>4. \A r \in Requests : RequestServes(rq[r])'
  BY <1>1, IdleServes DEF RequestServes
<1>5. Quiet' => AtRest'
  BY <1>1 DEF Quiet
<1> QED BY <1>2, <1>3, <1>4, <1>5 DEF ServesInv

LEMMA ServesRelease ==
  ASSUME IInv, ServesInv, NEW a \in Appliers, ap[a] # NoApplier,
         Release(a), UNCHANGED rq, AtRest'
  PROVE  ServesInv'
BY IdleServes, ServesMove DEF Release

\* A step of the only active request.
LEMMA ServesAsk ==
  ASSUME IInv, ServesInv, NEW r \in Requests, NEW st,
         rq[r] # NoRequest \/ Quiet,
         rq' = [rq EXCEPT ![r] = st], UNCHANGED ap,
         RequestServes(st)', st = NoRequest => AtRest'
  PROVE  ServesInv'
<1>0. /\ ap \in [Appliers -> ApplierStates] /\ rq \in [Requests -> RequestStates]
  BY DEF IInv, TypeOK
<1>1. /\ \A b \in Appliers : ap'[b] = NoApplier
      /\ \A q \in Requests : q # r => rq'[q] = NoRequest
      /\ rq'[r] = st
  BY <1>0 DEF ServesInv, Alone, Quiet
<1>2. Alone'
  BY <1>1 DEF Alone
<1>3. \A b \in Appliers : ApplierServes(ap[b])'
  BY <1>1, IdleServes DEF ApplierServes
<1>4. \A q \in Requests : RequestServes(rq[q])'
  <2> SUFFICES ASSUME NEW q \in Requests PROVE RequestServes(rq[q])'
    OBVIOUS
  <2>1. CASE q = r
    BY <1>1, <2>1 DEF RequestServes
  <2>2. CASE q # r
    <3>1. rq'[q] = NoRequest
      BY <1>1, <2>2
    <3> QED BY <3>1, IdleServes DEF RequestServes
  <2> QED BY <2>1, <2>2
<1>5. Quiet' => AtRest'
  BY <1>1 DEF Quiet
<1> QED BY <1>2, <1>3, <1>4, <1>5 DEF ServesInv

\* Steps that write no settings leave what is published, open and agreed alone.
LEMMA SettingsStay ==
  ASSUME TxInv, UNCHANGED settingsVars
  PROVE  /\ Published' = Published /\ PendingIds' = PendingIds /\ settings' = settings
         /\ \A i : Mine(i)' <=> Mine(i)
BY StutterStep DEF settingsVars, PendingIds, Mine

LEMMA AgreeStays ==
  ASSUME UNCHANGED <<live, running>>, NEW s
  PROVE  Agree(s)' <=> Agree(s)
BY DEF Agree

\* Up to the rendering an applier touches the settings row at most.
LEMMA ServesEntry ==
  ASSUME IInv, Steady, ServesInv, NEW a \in Appliers,
         \/ TakeLock(a) \/ EntryFails(a) \/ Unwind(a) \/ ReadTx(a) \/ ReadSettings(a)
         \/ StopService(a) \/ Finish(a)
  PROVE  ServesInv'
<1>0. /\ ap \in [Appliers -> ApplierStates] /\ TxInv /\ ApplierServes(ap[a])
      /\ Pending \in {0} \cup Ids /\ UNCHANGED rq /\ ap[a] # NoApplier
  <2>1. ApplierStep(a) /\ UNCHANGED rq
    BY DEF ApplierStep, TakeLock, EntryFails, Unwind, ReadTx, ReadSettings, StopService, Finish
  <2> QED BY <2>1, ApplierActive, SteadyTx, PendingType DEF IInv, TypeOK, ServesInv
<1>v. UNCHANGED sqlVars => UNCHANGED settingsVars
  BY DEF sqlVars, settingsVars
<1>s. ASSUME UNCHANGED settingsVars
      PROVE  /\ Published' = Published /\ PendingIds' = PendingIds /\ settings' = settings
             /\ \A i : Mine(i)' <=> Mine(i)
  BY <1>0, <1>s, SettingsStay
<1>r. ASSUME AtRest, UNCHANGED <<live, running>>, UNCHANGED settingsVars
      PROVE  AtRest'
  BY <1>r, <1>s DEF AtRest, Agree
<1>1. CASE TakeLock(a)
  <2>1. AtRest /\ UNCHANGED <<live, running>> /\ UNCHANGED settingsVars
    BY <1>0, <1>v, <1>1 DEF TakeLock, files, ApplierServes
  <2>2. CASE Release(a)
    BY <1>0, <1>r, <2>1, <2>2, ServesRelease
  <2>3. CASE ap' = [ap EXCEPT ![a] = [at |-> "tx", kind |-> ap[a].kind]]
    <3>1. PICK st : st = [at |-> "tx", kind |-> ap[a].kind]
      OBVIOUS
    <3>2. Agree(Published.server)'
      BY <2>1, <1>s, RestPublished DEF AtRest, Agree
    <3>3. ApplierServes(st)'
      BY <3>1, <3>2 DEF ApplierServes, Rendering, Normalising
    <3>4. st # NoApplier
      BY <3>1 DEF NoApplier
    <3> QED BY <1>0, <2>3, <3>1, <3>3, <3>4, ServesMove
  <2> QED BY <1>1, <2>2, <2>3 DEF TakeLock
\* Whatever raises before the first engine leaves nothing for the handler.
<1>2. CASE EntryFails(a)
  <2>1. AtRest /\ UNCHANGED <<live, running>> /\ UNCHANGED settingsVars /\ Raise(a)
    BY <1>0, <1>v, <1>2 DEF EntryFails, files, ApplierServes
  <2>2. AtRest'
    BY <1>r, <2>1
  <2>3. PICK st : /\ ap' = [ap EXCEPT ![a] = st]
                  /\ st.at \in {"idle", "unwind"}
                  /\ st.at = "idle" => st = NoApplier
    BY <2>1, RaiseGoes
  <2>4. ApplierServes(st)'
    BY <2>2, <2>3 DEF ApplierServes, Rendering, Normalising
  <2> QED BY <1>0, <2>2, <2>3, <2>4, ServesMove
<1>7. CASE Unwind(a)
  <2>1. AtRest /\ ap[a].at = "unwind"
    BY <1>0, <1>7 DEF Unwind, ApplierServes
  <2>2. Pending = 0
    BY <2>1, RestPublished DEF AtRest
  <2>3. /\ ap' = [ap EXCEPT ![a] = NoApplier]
        /\ UNCHANGED <<live, running>> /\ UNCHANGED settingsVars
    BY <1>v, <1>7, <2>1, <2>2 DEF Unwind, files
  <2>4. AtRest'
    BY <1>r, <2>1, <2>3
  <2> QED BY <1>0, <2>3, <2>4, IdleServes, ServesMove
<1>3. CASE ReadTx(a)
  <2>1. PICK st : st = [at |-> "read", kind |-> ap[a].kind, id |-> Pending]
    OBVIOUS
  <2>2. /\ ap' = [ap EXCEPT ![a] = st] /\ UNCHANGED <<live, running>> /\ UNCHANGED settingsVars
        /\ Agree(Published.server)
    BY <1>0, <1>v, <1>3, <2>1 DEF ReadTx, files, ApplierServes
  <2>3. Mine(st.id)' /\ Agree(Published.server)'
    BY <1>0, <1>s, <2>1, <2>2, PendingIsMine DEF Agree
  <2>4. ApplierServes(st)'
    BY <2>1, <2>3 DEF ApplierServes, Rendering, Normalising
  <2>5. st # NoApplier
    BY <2>1 DEF NoApplier
  <2> QED BY <1>0, <2>2, <2>4, <2>5, ServesMove
<1>4. CASE ReadSettings(a)
  <2>1. PICK st : st = [at |-> IF settings.server \in Legacy THEN "compat" ELSE "rows",
                        kind |-> ap[a].kind, id |-> ap[a].id, value |-> settings,
                        any |-> enabled \/ ap[a].kind = "restore"]
    OBVIOUS
  <2>2. /\ ap' = [ap EXCEPT ![a] = st] /\ UNCHANGED <<live, running>> /\ UNCHANGED settingsVars
        /\ Agree(Published.server) /\ Mine(ap[a].id)
    BY <1>0, <1>v, <1>4, <2>1 DEF ReadSettings, files, ApplierServes
  <2>3. Mine(st.id)' /\ Agree(Published.server)'
    BY <1>s, <2>1, <2>2 DEF Agree
  <2>4. /\ st.at \in {"compat", "rows"}
        /\ st.at = "compat" => st.value = settings' /\ settings'.server \in Legacy
    BY <1>s, <2>1, <2>2
  <2>5. ApplierServes(st)'
    BY <2>3, <2>4 DEF ApplierServes, Rendering, Normalising
  <2>6. st # NoApplier
    BY <2>4 DEF NoApplier
  <2> QED BY <1>0, <2>2, <2>5, <2>6, ServesMove
<1>5. CASE StopService(a)
  <2>1. /\ Agree(Published.server) /\ Mine(0) /\ UNCHANGED settingsVars /\ Release(a)
        /\ live' = live /\ running' \in {NoFile, running}
    BY <1>0, <1>v, <1>5 DEF StopService, ApplierServes, Normalising
  <2>2. AtRest'
    BY <1>0, <1>s, <2>1, RestPublished DEF Mine, AtRest, Agree
  <2> QED BY <1>0, <2>1, <2>2, ServesRelease
<1>6. CASE Finish(a)
  <2>1. AtRest /\ UNCHANGED <<live, running>> /\ UNCHANGED settingsVars /\ Release(a)
    BY <1>0, <1>v, <1>6 DEF Finish, files, ApplierServes
  <2> QED BY <1>0, <1>r, <2>1, ServesRelease
<1> QED BY <1>1, <1>2, <1>3, <1>4, <1>5, <1>6, <1>7

\* The Hysteria2 rewrite moves what is published only where nothing is served,
\* and then to what the rewrite makes of the config that is there.
LEMMA ServesNormalise ==
  ASSUME IInv, Steady, ServesInv, NEW a \in Appliers, Normalise(a) \/ Normalised(a)
  PROVE  ServesInv'
<1> DEFINE me == ap[a]
           compatible == [me.value EXCEPT !.server = Compatible[@]]
<1>0. /\ ap \in [Appliers -> ApplierStates] /\ TxInv /\ ApplierServes(me)
      /\ UNCHANGED <<rq, live, running>> /\ me # NoApplier
      /\ me.at \in {"compat", "begin", "refine", "reread"} /\ a \in Sessions
  BY SteadyTx, ApplyAssumption DEF IInv, TypeOK, ServesInv, Normalise, Normalised, NoApplier, files
<1>1. /\ me \in [at : Normalising, kind : Kinds, id : {0} \cup Ids, value : Configs, any : BOOLEAN]
      /\ compatible \in Configs
  BY <1>0, ApplierAt, CompatibleType DEF Normalising
<1>2. Agree(Published.server)
  BY <1>0 DEF ApplierServes, Normalising
\* Where Agree and, at the end, Mine are known again, the rest follows.
<1>m. ASSUME NEW pc \in {"begin", "refine", "reread", "rows"}, NEW id \in {0} \cup Ids,
             ap' = [ap EXCEPT ![a] = [me EXCEPT !.at = pc, !.id = id]],
             Published' = Published \/ Agree(Published.server)',
             pc = "rows" => Mine(id)'
      PROVE  ServesInv'
  <2>0. Agree(Published.server)'
    BY <1>0, <1>2, <1>m DEF Agree
  <2>1. PICK st : st = [me EXCEPT !.at = pc, !.id = id]
    OBVIOUS
  <2>2. st.at = pc /\ st.id = id
    BY <1>1, <2>1
  <2>3. st # NoApplier
    BY <2>2 DEF NoApplier
  <2>4. CASE pc = "rows"
    <3>1. ApplierServes(st)'
      BY <1>m, <2>0, <2>2, <2>4 DEF ApplierServes, Rendering, Normalising
    <3> QED BY <1>0, <1>m, <2>1, <2>3, <3>1, ServesMove
  <2>5. CASE pc \in {"begin", "refine", "reread"}
    <3>1. ApplierServes(st)'
      BY <2>0, <2>2, <2>5 DEF ApplierServes, Rendering, Normalising
    <3> QED BY <1>0, <1>m, <2>1, <2>3, <3>1, ServesMove
  <2> QED BY <2>4, <2>5
<1>i. \A pc : [me EXCEPT !.at = pc] = [me EXCEPT !.at = pc, !.id = me.id]
  BY <1>1
<1>s. ASSUME UNCHANGED settingsVars
      PROVE  /\ Published' = Published /\ PendingIds' = PendingIds /\ settings' = settings
             /\ \A i : Mine(i)' <=> Mine(i)
  BY <1>0, <1>s, SettingsStay
<1>3. CASE Normalise(a)
  <2>1. /\ Mine(me.id) /\ me.value = settings /\ me.at = "compat"
        /\ settings.server \in Legacy /\ settings.server \in Servers
        /\ settings \in [server : Servers, client : Clients]
    BY <1>0, <1>3, ApplyAssumption DEF Normalise, ApplierServes, TxInv, TxTypeOK
  <2>2. me.id # 0 => me.id \in PendingIds
    BY <2>1 DEF Mine
  <2>3. CASE /\ SelectForRefine(a, me.id, compatible) \/ SelectOpen(a, compatible)
             /\ \E pc \in {"begin", "refine"} : ap' = [ap EXCEPT ![a] = [me EXCEPT !.at = pc]]
    <3>1. PICK pc \in {"begin", "refine"} : ap' = [ap EXCEPT ![a] = [me EXCEPT !.at = pc]]
      BY <2>3
    <3>2. UNCHANGED settingsVars
      BY <2>3 DEF SelectForRefine, SelectOpen
    <3>3. Published' = Published
      BY <1>s, <3>2
    <3>4. ap' = [ap EXCEPT ![a] = [me EXCEPT !.at = pc, !.id = me.id]]
      BY <1>i, <3>1
    <3>5. PICK id \in {0} \cup Ids : id = me.id
      BY <1>1
    <3> QED BY <1>m, <3>3, <3>4, <3>5
  <2>4. CASE me.id = 0 /\ DirectUpdate(compatible)
             /\ ap' = [ap EXCEPT ![a] = [me EXCEPT !.at = "rows"]]
    <3>1. PendingIds = {} /\ Published = settings
      BY <2>1, <2>4, RestPublished DEF Mine
    <3>2. PendingIds' = {} /\ settings' = compatible
      BY <1>0, <1>1, <2>4, <3>1, DirectUpdateStep DEF DirectUpdate
    <3>3. Published' = compatible /\ Mine(0)'
      BY <3>2, RestPublished DEF Published, Mine
    <3>4. compatible.server = Compatible[settings.server]
      BY <2>1
    <3>5. live # NoFile => compatible.server = Compatible[live]
      <4> SUFFICES ASSUME live # NoFile PROVE settings.server = live
        BY <3>4
      <4>1. live \in Servers
        BY DEF IInv, TypeOK, FilesTypeOK, Bodies
      <4>2. settings.server \in {live, Compatible[live]}
        BY <1>2, <3>1 DEF Agree
      <4> QED BY <2>1, <4>1, <4>2, ApplyAssumption
    <3>6. Agree(Published.server)'
      BY <1>0, <1>2, <3>1, <3>3, <3>5 DEF Agree
    <3>7. ap' = [ap EXCEPT ![a] = [me EXCEPT !.at = "rows", !.id = 0]]
      BY <1>i, <2>4
    <3> QED BY <1>m, <3>3, <3>6, <3>7
  <2> QED BY <1>3, <2>2, <2>3, <2>4 DEF Normalise, WriteDirect
<1>4. CASE Normalised(a)
  <2>1. CASE me.at = "begin" /\ SelectCurrent(a) /\ UNCHANGED ap
    <3>1. UNCHANGED settingsVars
      BY <2>1 DEF SelectCurrent
    <3>2. Published' = Published
      BY <1>s, <3>1
    <3>4. ap' = [ap EXCEPT ![a] = [me EXCEPT !.at = "begin", !.id = me.id]]
      BY <1>0, <1>1, <2>1
    <3>5. PICK id \in {0} \cup Ids : id = me.id
      BY <1>1
    <3> QED BY <1>m, <3>2, <3>4, <3>5
  <2>2. CASE WriteBegin(a) /\ ap' = [ap EXCEPT ![a].at = "rows", ![a].id = nextId]
    <3>1. call[a].candidate \in Configs /\ Begin(call[a].candidate)
      BY <1>0, <2>2, FreshWrites
    <3>2. Published' = Published /\ PendingIds' = {nextId} /\ nextId \in Ids
      BY <1>0, <3>1, BeginStep DEF Begin
    <3>3. PICK i \in Ids : i = nextId
      BY <3>2
    <3>4. Mine(i)'
      BY <3>2, <3>3 DEF Mine, Ids
    <3>5. ap' = [ap EXCEPT ![a] = [me EXCEPT !.at = "rows", !.id = i]]
      BY <1>0, <1>1, <2>2, <3>3
    <3> QED BY <1>m, <3>2, <3>4, <3>5
  <2>3. CASE WriteRefine(a) /\ ap' = [ap EXCEPT ![a].at = "reread"]
    <3>1. PICK i \in Ids, c \in Configs : i \in PendingIds /\ UpdateCandidate(i, c)
      BY <1>0, <2>3, FreshWrites
    <3>2. Published' = Published
      BY <1>0, <3>1, UpdateCandidateStep
    <3>3. ap' = [ap EXCEPT ![a] = [me EXCEPT !.at = "reread", !.id = me.id]]
      BY <1>i, <2>3
    <3>4. PICK id \in {0} \cup Ids : id = me.id
      BY <1>1
    <3> QED BY <1>m, <3>2, <3>3, <3>4
  <2>4. CASE UNCHANGED sqlVars /\ ap' = [ap EXCEPT ![a].at = "rows", ![a].id = Pending]
    <3>1. UNCHANGED settingsVars
      BY <2>4 DEF sqlVars, settingsVars
    <3>2. PICK i \in {0} \cup Ids : i = Pending
      BY PendingType DEF IInv
    <3>3. Published' = Published /\ Mine(i)'
      BY <1>0, <1>s, <3>1, <3>2, PendingIsMine
    <3>4. ap' = [ap EXCEPT ![a] = [me EXCEPT !.at = "rows", !.id = i]]
      BY <1>0, <1>1, <2>4, <3>2
    <3> QED BY <1>m, <3>3, <3>4
  <2> QED BY <1>4, <2>1, <2>2, <2>3, <2>4 DEF Normalised
<1> QED BY <1>3, <1>4

\* From the rendering to the commit, or to the undo of what was installed.
LEMMA ServesRender ==
  ASSUME ~TestsMayFail, IInv, Steady, ServesInv, NEW a \in Appliers, Render(a)
  PROVE  ServesInv'
<1>0. /\ ap \in [Appliers -> ApplierStates] /\ TxInv /\ ApplierServes(ap[a])
      /\ ap[a].at = "rows" /\ ap[a] # NoApplier
  BY SteadyTx DEF IInv, TypeOK, ServesInv, Render, NoApplier
<1>1. PICK st : st = [at |-> "test", kind |-> ap[a].kind, id |-> ap[a].id,
                      body |-> settings.server, had |-> live # NoFile]
  OBVIOUS
<1>2. /\ ap' = [ap EXCEPT ![a] = st] /\ candidate' = settings.server
      /\ UNCHANGED <<rq, live, running>> /\ UNCHANGED settingsVars
  BY <1>1 DEF Render, Rendered, sqlVars, settingsVars
<1>3. /\ Published' = Published /\ settings' = settings
      /\ \A i : Mine(i)' <=> Mine(i)
  BY <1>0, <1>2, SettingsStay
<1>4. Agree(Published.server)' /\ Mine(st.id)'
  BY <1>0, <1>1, <1>2, <1>3 DEF ApplierServes, Agree, Normalising
<1>5. /\ st.at = "test" /\ st.body = settings'.server /\ candidate' = st.body
      /\ st.had <=> live' # NoFile
  BY <1>1, <1>2, <1>3
<1>6. ApplierServes(st)' /\ st # NoApplier
  BY <1>4, <1>5 DEF ApplierServes, Rendering, Normalising, NoApplier
<1> QED BY <1>0, <1>2, <1>6, ServesMove

LEMMA ServesInstall ==
  ASSUME ~TestsMayFail, Valid = Servers, IInv, Steady, ServesInv, NEW a \in Appliers,
         TestCandidate(a) \/ SaveBackup(a) \/ Install(a) \/ Restart(a)
           \/ CommitTx(a) \/ RestoreFiles(a) \/ RollbackTx(a)
  PROVE  ServesInv'
<1> DEFINE me == ap[a]
<1>0. /\ ap \in [Appliers -> ApplierStates] /\ TxInv /\ ApplierServes(me)
      /\ UNCHANGED rq /\ me # NoApplier
      /\ me.at \in {"test", "save", "install", "restart", "commit", "failed", "undo", "undoing"}
      /\ a \in Sessions
  BY SteadyTx, ApplyAssumption DEF IInv, TypeOK, ServesInv, TestCandidate, SaveBackup, Install, Restart, CommitTx,
    RestoreFiles, RollbackTx, NoApplier
<1>1. /\ me \in [at : Moving, kind : Kinds, id : {0} \cup Ids, body : Servers, had : BOOLEAN]
      /\ NoFile \notin Servers
  BY <1>0, ApplierAt, ApplyAssumption DEF Moving
<1>v. UNCHANGED sqlVars => UNCHANGED settingsVars
  BY DEF sqlVars, settingsVars
<1>s. ASSUME UNCHANGED settingsVars
      PROVE  /\ Published' = Published /\ PendingIds' = PendingIds /\ settings' = settings
             /\ \A i : Mine(i)' <=> Mine(i)
  BY <1>0, <1>s, SettingsStay
<1>m. ASSUME NEW pc, ap' = [ap EXCEPT ![a] = [me EXCEPT !.at = pc]],
             pc \in Moving,
             \A st : st.at = pc /\ st.id = me.id /\ st.body = me.body /\ st.had = me.had
                       => ApplierServes(st)'
      PROVE  ServesInv'
  <2>1. PICK st : st = [me EXCEPT !.at = pc]
    OBVIOUS
  <2>2. st.at = pc /\ st.id = me.id /\ st.body = me.body /\ st.had = me.had
    BY <1>1, <2>1
  <2>3. ApplierServes(st)' /\ st # NoApplier
    BY <1>m, <2>2 DEF NoApplier, Moving
  <2> QED BY <1>0, <1>m, <2>1, <2>3, ServesMove
<1>p. PICK id \in {0} \cup Ids, body \in Servers, had \in BOOLEAN :
        id = me.id /\ body = me.body /\ had = me.had
  BY <1>1
<1>2. CASE TestCandidate(a)
  <2>1. /\ ap' = [ap EXCEPT ![a] = [me EXCEPT !.at = "save"]] /\ UNCHANGED settingsVars
        /\ UNCHANGED <<live, running>>
    BY <1>0, <1>1, <1>v, <1>2 DEF TestCandidate, files, ApplierServes
  <2>2. /\ Agree(Published.server)' /\ Mine(id)' /\ body = settings'.server
        /\ had <=> live' # NoFile
    BY <1>0, <1>2, <1>p, <1>s, <2>1 DEF TestCandidate, ApplierServes, Rendering, Agree
  <2>3. ASSUME NEW st, st.at = "save", st.id = id, st.body = body, st.had = had
        PROVE  ApplierServes(st)'
    BY <2>2, <2>3 DEF ApplierServes, Rendering, Normalising
  <2> QED BY <1>m, <1>p, <2>1, <2>3 DEF Moving
<1>3. CASE SaveBackup(a)
  <2>1. /\ ap' = [ap EXCEPT ![a] = [me EXCEPT !.at = "install"]] /\ UNCHANGED settingsVars
        /\ UNCHANGED <<live, running>> /\ backup' = live
    BY <1>0, <1>v, <1>3 DEF SaveBackup, ApplierServes
  <2>2. /\ Agree(Published.server)' /\ Mine(id)' /\ body = settings'.server
        /\ had <=> live' # NoFile
    BY <1>0, <1>3, <1>p, <1>s, <2>1 DEF SaveBackup, ApplierServes, Rendering, Agree
  <2>3. ASSUME NEW st, st.at = "install", st.id = id, st.body = body, st.had = had
        PROVE  ApplierServes(st)'
    BY <2>1, <2>2, <2>3 DEF ApplierServes, Rendering, Normalising
  <2> QED BY <1>m, <1>p, <2>1, <2>3 DEF Moving
<1>4. CASE Install(a)
  <2>1. /\ ap' = [ap EXCEPT ![a] = [me EXCEPT !.at = "restart"]] /\ UNCHANGED settingsVars
        /\ live' = body /\ UNCHANGED <<backup, running>>
    BY <1>v, <1>4, <1>p DEF Install
  <2>2. /\ Mine(id)' /\ body = settings'.server
        /\ had <=> backup' # NoFile
        /\ backup' # NoFile => Published'.server \in {backup', Compatible[backup']}
    BY <1>0, <1>4, <1>p, <1>s, <2>1 DEF Install, ApplierServes, Rendering, Agree
  <2>3. ASSUME NEW st, st.at = "restart", st.id = id, st.body = body, st.had = had
        PROVE  ApplierServes(st)'
    BY <2>1, <2>2, <2>3 DEF ApplierServes, Rendering, Normalising
  <2> QED BY <1>m, <1>p, <2>1, <2>3 DEF Moving
<1>5. CASE Restart(a)
  <2>1. /\ UNCHANGED settingsVars /\ UNCHANGED <<live, backup>>
        /\ \/ /\ running' = live
              /\ ap' = [ap EXCEPT ![a] = [me EXCEPT !.at = "commit"]]
           \/ ap' = [ap EXCEPT ![a] = [me EXCEPT !.at = "failed"]]
    BY <1>v, <1>5 DEF Restart
  <2>2. /\ Mine(id)' /\ body = settings'.server /\ live' = body
        /\ had <=> backup' # NoFile
        /\ backup' # NoFile => Published'.server \in {backup', Compatible[backup']}
    BY <1>0, <1>5, <1>p, <1>s, <2>1 DEF Restart, ApplierServes, Rendering, Normalising
  <2>3. ASSUME NEW st, st.at = "commit", st.id = id, st.body = body, st.had = had, running' = live
        PROVE  ApplierServes(st)'
    BY <2>1, <2>2, <2>3 DEF ApplierServes, Rendering, Normalising
  <2>4. ASSUME NEW st, st.at = "failed", st.id = id, st.body = body, st.had = had
        PROVE  ApplierServes(st)'
    BY <2>2, <2>4 DEF ApplierServes, Rendering, Normalising
  <2> QED BY <1>m, <1>p, <2>1, <2>3, <2>4 DEF Moving
\* The commit publishes what has been installed.
<1>6. CASE CommitTx(a)
  <2>1. /\ ap' = [ap EXCEPT ![a] = [me EXCEPT !.at = "done"]] /\ UNCHANGED <<live, running>>
        /\ IF id = 0 THEN UNCHANGED settingsVars ELSE Commit(id)
    BY <1>v, <1>6, <1>p DEF CommitTx, WriteCommit, files
  <2>2. Mine(id) /\ live = settings.server /\ running = settings.server
    BY <1>0, <1>6, <1>p DEF CommitTx, ApplierServes, Rendering, Normalising
  <2>3. PendingIds' = {} /\ settings' = settings
    BY <1>0, <1>s, <2>1, <2>2, CommitStep DEF Mine, Commit
  <2>4. AtRest'
    BY <2>1, <2>2, <2>3 DEF AtRest, Agree
  <2>5. ASSUME NEW st, st.at = "done"
        PROVE  ApplierServes(st)'
    BY <2>4, <2>5 DEF ApplierServes, Rendering, Normalising
  <2> QED BY <1>m, <2>1, <2>5 DEF Moving
<1>7. CASE RestoreFiles(a)
  <2>1. /\ ap' = [ap EXCEPT ![a] = [me EXCEPT !.at = "undo"]] /\ UNCHANGED settingsVars
        /\ \/ backup # NoFile /\ live' = backup /\ running' \in {NoFile, backup}
           \/ backup = NoFile /\ ~had /\ live' = NoFile /\ running' = NoFile
           \/ backup = NoFile /\ had
    BY <1>v, <1>7, <1>p DEF RestoreFiles
  <2>2. /\ Mine(id)'
        /\ had <=> backup # NoFile
        /\ backup # NoFile => Published'.server \in {backup, Compatible[backup]}
    BY <1>0, <1>7, <1>p, <1>s, <2>1 DEF RestoreFiles, ApplierServes
  <2>3. Agree(Published.server)'
    BY <2>1, <2>2 DEF Agree
  <2>4. ASSUME NEW st, st.at = "undo", st.id = id
        PROVE  ApplierServes(st)'
    BY <2>2, <2>3, <2>4 DEF ApplierServes, Rendering, Normalising
  <2> QED BY <1>m, <1>p, <2>1, <2>4 DEF Moving
<1>8. CASE RollbackTx(a)
  <2>1. /\ UNCHANGED <<live, running>> /\ Agree(Published.server)
        /\ me.at \in {"undo", "undoing"}
    BY <1>0, <1>8 DEF RollbackTx, files, ApplierServes
  <2>2. CASE /\ me.at = "undo" /\ SelectRow(a, me.id)
             /\ ap' = [ap EXCEPT ![a] = [me EXCEPT !.at = "undoing"]]
    <3>1. UNCHANGED settingsVars
      BY <2>2 DEF SelectRow
    <3>2. Agree(Published.server)'
      BY <1>s, <2>1, <3>1 DEF Agree
    <3>3. ASSUME NEW st, st.at = "undoing"
          PROVE  ApplierServes(st)'
      BY <3>2, <3>3 DEF ApplierServes, Rendering, Normalising
    <3> QED BY <1>m, <2>2, <3>3 DEF Moving
  <2>3. ASSUME AtRest', ap' = [ap EXCEPT ![a] = [me EXCEPT !.at = "done"]]
        PROVE  ServesInv'
    <3>1. ASSUME NEW st, st.at = "done"
          PROVE  ApplierServes(st)'
      BY <2>3, <3>1 DEF ApplierServes, Rendering, Normalising
    <3> QED BY <1>m, <2>3, <3>1 DEF Moving
  <2>4. CASE /\ me.at = "undo" /\ me.id \notin PendingIds /\ UNCHANGED sqlVars
             /\ ap' = [ap EXCEPT ![a] = [me EXCEPT !.at = "done"]]
    <3>1. Mine(id) /\ id \notin PendingIds
      BY <1>0, <1>p, <2>4 DEF ApplierServes
    <3>2. PendingIds = {}
      BY <3>1 DEF Mine
    <3>3. AtRest'
      BY <1>s, <1>v, <2>1, <2>4, <3>2, RestPublished DEF AtRest, Agree
    <3> QED BY <2>3, <2>4, <3>3
  <2>5. CASE WriteRollback(a) /\ ap' = [ap EXCEPT ![a] = [me EXCEPT !.at = "done"]]
    <3>1. PICK i \in Ids : i \in PendingIds /\ Rollback(i)
      BY <1>0, <2>5, FreshWrites
    <3>2. PendingIds' = {} /\ settings' = Published
      BY <1>0, <3>1, RollbackStep, PendingRow
    <3>3. AtRest'
      BY <2>1, <3>2 DEF AtRest, Agree
    <3> QED BY <2>3, <2>5, <3>3
  <2> QED BY <1>8, <2>2, <2>4, <2>5 DEF RollbackTx
<1> QED BY <1>2, <1>3, <1>4, <1>5, <1>6, <1>7, <1>8

LEMMA ServesRequest ==
  ASSUME Serial, "sni" \notin RequestKinds,
         IInv, Steady, ServesInv, NEW r \in Requests, RequestStep(r)
  PROVE  ServesInv'
<1>0. /\ rq \in [Requests -> RequestStates] /\ ap \in [Appliers -> ApplierStates] /\ TxInv
      /\ RequestServes(rq[r]) /\ rq[r] # NoRequest /\ r \in Sessions
  BY SteadyTx, ApplyAssumption DEF IInv, TypeOK, ServesInv, RequestStep, BeginRequest,
    DirectRequest, FinishRequest, UndoRequest, JobNotStarted, StartJob, NoRequest
<1>v. UNCHANGED sqlVars => UNCHANGED settingsVars
  BY DEF sqlVars, settingsVars
<1>s. ASSUME UNCHANGED settingsVars
      PROVE  /\ Published' = Published /\ PendingIds' = PendingIds /\ settings' = settings
             /\ \A i : Mine(i)' <=> Mine(i)
  BY <1>0, <1>s, SettingsStay
<1>1. CASE BeginRequest(r)
  <2>1. UNCHANGED <<live, running, ap>> /\ AtRest
    BY <1>0, <1>1 DEF BeginRequest, files, RequestServes
  <2>2. ASSUME NEW st, rq' = [rq EXCEPT ![r] = st], st.at = "begin", UNCHANGED settingsVars
        PROVE  ServesInv'
    <3>1. AtRest'
      BY <1>s, <2>1, <2>2 DEF AtRest, Agree
    <3>2. RequestServes(st)' /\ st # NoRequest
      BY <2>2, <3>1 DEF RequestServes, NoRequest
    <3> QED BY <1>0, <2>1, <2>2, <3>2, ServesAsk
  <2>3. CASE /\ SelectOpen(r, rq[r].value)
             /\ rq' = [rq EXCEPT ![r] = [at |-> "begin", kind |-> rq[r].kind]]
    <3>1. PICK st : st = [at |-> "begin", kind |-> rq[r].kind]
      OBVIOUS
    <3> QED BY <2>2, <2>3, <3>1 DEF SelectOpen
  <2>4. CASE rq[r].at = "begin" /\ SelectCurrent(r) /\ UNCHANGED rq
    <3>1. rq' = [rq EXCEPT ![r] = rq[r]]
      BY <1>0, <2>4
    <3> QED BY <2>2, <2>4, <3>1 DEF SelectCurrent
  <2>5. CASE /\ rq[r].at = "begin" /\ WriteBegin(r)
             /\ rq' = [rq EXCEPT ![r] = [at |-> rq[r].kind, id |-> nextId]]
    <3>1. rq[r].kind \in {"test", "apply", "save"}
      BY <1>0, <2>5, RequestAt
    <3>2. call[r].candidate \in Configs /\ Begin(call[r].candidate)
      BY <1>0, <2>5, FreshWrites
    <3>3. Published' = Published /\ PendingIds' = {nextId} /\ nextId \in Ids
      BY <1>0, <3>2, BeginStep DEF Begin
    <3>4. PICK st : st = [at |-> rq[r].kind, id |-> nextId]
      OBVIOUS
    <3>5. Agree(Published.server)'
      BY <2>1, <3>3, RestPublished DEF AtRest, Agree
    <3>6. Mine(st.id)'
      BY <3>3, <3>4 DEF Mine, Ids
    <3>7. RequestServes(st)' /\ st # NoRequest
      BY <3>1, <3>4, <3>5, <3>6 DEF RequestServes, NoRequest
    <3> QED BY <1>0, <2>1, <2>5, <3>4, <3>7, ServesAsk
  <2> QED BY <1>1, <2>3, <2>4, <2>5 DEF BeginRequest
\* The fingerprint is no part of what the server is rendered from.
<1>2. CASE DirectRequest(r)
  <2>1. rq[r] \in [at : {"prepared"}, kind : RequestKinds, value : Configs]
    BY <1>0, <1>2, RequestAt DEF DirectRequest
  <2>2. /\ rq[r].kind = "fingerprint" /\ DirectUpdate(rq[r].value) /\ AtRest
        /\ rq[r].value.server = settings.server
        /\ rq' = [rq EXCEPT ![r] = NoRequest] /\ UNCHANGED <<live, running, ap>>
    BY <1>0, <1>2, <2>1 DEF DirectRequest, WriteDirect, RequestServes, files
  <2>3. AtRest'
    BY <1>0, <2>1, <2>2, DirectUpdateStep DEF AtRest, Agree, DirectUpdate
  <2> QED BY <1>0, <2>2, <2>3, IdleServes, ServesAsk
<1>3. CASE FinishRequest(r)
  <2>1. rq[r] \in [at : {"test", "apply", "save", "unstarted"}, id : Ids]
    BY <1>0, <1>3, RequestAt DEF FinishRequest
  <2>2. PICK i \in Ids : i = rq[r].id
    BY <2>1
  <2>3. /\ Mine(i) /\ Agree(Published.server) /\ UNCHANGED <<live, running, ap>>
    BY <1>0, <1>3, <2>2 DEF FinishRequest, RequestServes, files
  <2>4. i \in PendingIds
    BY <2>3 DEF Mine, Ids
  <2>5. PICK st : st = [at |-> "undo"]
    OBVIOUS
  <2>6. rq' = [rq EXCEPT ![r] = st] /\ UNCHANGED settingsVars
    BY <1>3, <2>2, <2>4, <2>5 DEF FinishRequest, SelectRow
  <2>7. Agree(Published.server)'
    BY <1>s, <2>3, <2>6 DEF Agree
  <2>8. RequestServes(st)' /\ st # NoRequest
    BY <2>5, <2>7 DEF RequestServes, NoRequest
  <2> QED BY <1>0, <2>3, <2>6, <2>8, ServesAsk
<1>4. CASE UndoRequest(r)
  <2>1. /\ Agree(Published.server) /\ WriteRollback(r)
        /\ rq' = [rq EXCEPT ![r] = NoRequest] /\ UNCHANGED <<live, running, ap>>
    BY <1>0, <1>4 DEF UndoRequest, RequestServes, files
  <2>2. PICK i \in Ids : i \in PendingIds /\ Rollback(i)
    BY <1>0, <2>1, FreshWrites
  <2>3. PendingIds' = {} /\ settings' = Published
    BY <1>0, <2>2, RollbackStep, PendingRow
  <2>4. AtRest'
    BY <2>1, <2>3 DEF AtRest, Agree
  <2> QED BY <1>0, <2>1, <2>4, IdleServes, ServesAsk
<1>5. CASE JobNotStarted(r)
  <2>1. rq[r] \in [at : {"test", "apply", "save", "unstarted"}, id : Ids]
    BY <1>0, <1>5, RequestAt DEF JobNotStarted
  <2>2. PICK i \in Ids : i = rq[r].id
    BY <2>1
  <2>3. PICK st : st = [rq[r] EXCEPT !.at = "unstarted"]
    OBVIOUS
  <2>4. st.at = "unstarted" /\ st.id = i
    BY <2>1, <2>2, <2>3
  <2>5. /\ Mine(i) /\ Agree(Published.server) /\ UNCHANGED settingsVars
        /\ rq' = [rq EXCEPT ![r] = st] /\ UNCHANGED <<live, running, ap>>
    BY <1>0, <1>v, <1>5, <2>1, <2>2, <2>3 DEF JobNotStarted, RequestServes, files
  <2>6. Mine(i)' /\ Agree(Published.server)'
    BY <1>s, <2>5 DEF Agree
  <2>7. RequestServes(st)' /\ st # NoRequest
    BY <2>4, <2>6 DEF RequestServes, NoRequest
  <2> QED BY <1>0, <2>5, <2>7, ServesAsk
\* The request hands its open transaction over to the job.
<1>6. ASSUME NEW a \in Appliers, StartJob(r, a)
      PROVE  ServesInv'
  <2>1. PICK st : st = [at |-> "tx", kind |-> "job"]
    OBVIOUS
  <2>2. /\ ap' = [ap EXCEPT ![a] = st] /\ rq' = [rq EXCEPT ![r] = NoRequest]
        /\ UNCHANGED <<live, running>> /\ UNCHANGED settingsVars /\ Agree(Published.server)
    BY <1>0, <1>v, <1>6, <2>1 DEF StartJob, files, RequestServes
  <2>3. Agree(Published.server)'
    BY <1>s, <2>2 DEF Agree
  <2>4. /\ \A b \in Appliers : b # a => ap'[b] = NoApplier
        /\ \A q \in Requests : rq'[q] = NoRequest
        /\ ap'[a] = st /\ st # NoApplier
    BY <1>0, <2>1, <2>2 DEF ServesInv, Alone, NoApplier
  <2>5. Alone' /\ ~Quiet'
    BY <2>4 DEF Alone, Quiet
  <2>6. ASSUME NEW b \in Appliers
        PROVE  ApplierServes(ap[b])'
    <3>1. CASE b = a
      <4>1. st.at = "tx"
        BY <2>1
      <4>2. ApplierServes(st)'
        BY <2>3, <4>1 DEF ApplierServes, Rendering, Normalising
      <4> QED BY <2>4, <3>1, <4>2 DEF ApplierServes
    <3>2. CASE b # a
      BY <2>4, <3>2, IdleServes DEF ApplierServes
    <3> QED BY <3>1, <3>2
  <2>7. \A q \in Requests : RequestServes(rq[q])'
    BY <2>4, IdleServes DEF RequestServes
  <2> QED BY <2>5, <2>6, <2>7 DEF ServesInv
<1> QED BY <1>1, <1>2, <1>3, <1>4, <1>5, <1>6 DEF RequestStep

LEMMA ServesNext ==
  ASSUME Serial, ~Crashes, ~TestsMayFail, Valid = Servers,
         "rollback" \notin ApplierKinds, "sni" \notin RequestKinds,
         IInv, Steady, ServesInv, [Next]_applyVars
  PROVE  ServesInv'
<1>0. /\ rq \in [Requests -> RequestStates] /\ ap \in [Appliers -> ApplierStates] /\ TxInv
  BY SteadyTx DEF IInv, TypeOK
<1>v. UNCHANGED sqlVars => UNCHANGED settingsVars
  BY DEF sqlVars, settingsVars
\* Steps that only readers or the environment notice.
<1>1. ASSUME UNCHANGED <<live, running, backup, candidate, ap, rq>>, UNCHANGED settingsVars
      PROVE  ServesInv'
  <2>1. /\ Published' = Published /\ PendingIds' = PendingIds /\ settings' = settings
    BY <1>0, <1>1, SettingsStay
  <2>2. Alone' /\ (Quiet' <=> Quiet) /\ (AtRest' <=> AtRest)
    BY <1>1, <2>1 DEF Alone, Quiet, AtRest, Agree, ServesInv
  <2>3. ASSUME NEW a \in Appliers
        PROVE  ApplierServes(ap[a])'
    BY <1>1, <2>1 DEF ApplierServes, ServesInv, AtRest, Agree, Mine
  <2>4. ASSUME NEW r \in Requests
        PROVE  RequestServes(rq[r])'
    BY <1>1, <2>1 DEF RequestServes, ServesInv, AtRest, Agree, Mine
  <2> QED BY <2>2, <2>3, <2>4 DEF ServesInv
<1>2. CASE \/ UNCHANGED applyVars \/ ToggleClients
           \/ \E k \in Readers : ReadCurrent(k) \/ ReadPending(k)
  BY <1>1, <1>2, <1>v DEF applyVars, settingsVars, ToggleClients, ReadCurrent, ReadPending, files
<1>3. ASSUME NEW a \in Appliers, ApplierStep(a)
      PROVE  ServesInv'
  <2>1. ~ManualRollback(a)
    BY DEF ServesInv, ApplierServes, ManualRollback
  <2> QED BY <1>3, <2>1, ServesEntry, ServesNormalise, ServesRender, ServesInstall DEF ApplierStep
<1>4. ASSUME NEW r \in Requests, RequestStep(r)
      PROVE  ServesInv'
  BY <1>4, ServesRequest
<1>5. ASSUME NEW r \in Requests, NEW kind \in RequestKinds, NEW c \in Configs, Prepare(r, kind, c)
      PROVE  ServesInv'
  <2>1. PICK st : st = [at |-> "prepared", kind |-> kind, value |-> c]
    OBVIOUS
  <2>2. /\ Quiet /\ AtRest /\ rq' = [rq EXCEPT ![r] = st] /\ UNCHANGED <<live, running, ap>>
        /\ UNCHANGED settingsVars
        /\ kind = "fingerprint" => c.server = settings.server
    BY <1>5, <1>v, <2>1 DEF Prepare, MayStart, ServesInv, files
  <2>3. AtRest' /\ settings' = settings
    BY <1>0, <2>2, SettingsStay DEF AtRest, Agree
  <2>4. RequestServes(st)' /\ st # NoRequest
    BY <2>1, <2>2, <2>3 DEF RequestServes, NoRequest
  <2> QED BY <2>2, <2>4, ServesAsk
<1>6. ASSUME NEW a \in Appliers, NEW kind \in ApplierKinds, Start(a, kind)
      PROVE  ServesInv'
  <2>1. PICK st : /\ ap' = [ap EXCEPT ![a] = st]
                  /\ \/ st = [at |-> "tx", kind |-> "job"]
                     \/ st = [at |-> "lock", kind |-> kind, seen |-> Pending]
    BY <1>6, ApplyAssumption DEF Start, Locked
  <2>2. /\ Quiet /\ AtRest /\ UNCHANGED <<live, running, rq>> /\ UNCHANGED settingsVars
    BY <1>6, <1>v DEF Start, MayStart, ServesInv, files
  <2>3. AtRest' /\ Agree(Published.server)'
    <3>1. AtRest'
      BY <1>0, <2>2, SettingsStay DEF AtRest, Agree
    <3>2. Published' = settings'
      BY <1>0, <2>2, SettingsStay, RestPublished DEF AtRest
    <3> QED BY <3>1, <3>2 DEF AtRest, Agree
  <2>4. st.at \in {"tx", "lock"}
    BY <2>1
  <2>5. ApplierServes(st)' /\ st # NoApplier
    <3>1. CASE st.at = "tx"
      BY <2>3, <3>1 DEF ApplierServes, Rendering, Normalising, NoApplier
    <3>2. CASE st.at = "lock"
      BY <2>3, <3>2 DEF ApplierServes, Rendering, Normalising, NoApplier
    <3> QED BY <2>4, <3>1, <3>2
  <2>6. /\ \A b \in Appliers : b # a => ap'[b] = NoApplier
        /\ \A q \in Requests : rq'[q] = NoRequest
        /\ ap'[a] = st
    BY <1>0, <2>1, <2>2 DEF Quiet
  <2>7. Alone' /\ ~Quiet'
    BY <2>5, <2>6 DEF Alone, Quiet
  <2>8. ASSUME NEW b \in Appliers
        PROVE  ApplierServes(ap[b])'
    <3>1. CASE b = a
      BY <2>5, <2>6, <3>1 DEF ApplierServes
    <3>2. CASE b # a
      BY <2>6, <3>2, IdleServes DEF ApplierServes
    <3> QED BY <3>1, <3>2
  <2>9. \A q \in Requests : RequestServes(rq[q])'
    BY <2>6, IdleServes DEF RequestServes
  <2> QED BY <2>7, <2>8, <2>9 DEF ServesInv
<1> QED BY <1>2, <1>3, <1>4, <1>5, <1>6 DEF Next, KillRequest, KillApplier

LEMMA ServesInit == Init => Steady /\ ServesInv
<1> SUFFICES ASSUME Init PROVE Steady /\ ServesInv
  OBVIOUS
<1>1. PendingIds = {}
  BY DEF Init, SqlInit, TxInit, PendingIds
<1>s. Steady
  BY <1>1 DEF Init, SqlInit, Idle, Steady, OnePending, ReadIsFresh, Overtaken
<1>2. AtRest
  BY <1>1 DEF Init, Rendered, AtRest, Agree
<1> QED BY <1>2, <1>s, IdleServes DEF Init, ServesInv, Alone

\* For any number of threads and settings, operations that wait for one another
\* leave the service running what client links publish, whichever restarts
\* fail: with configs the test accepts, no kill, no manual rollback and no
\* edit of the SNI alone, each of which is a way to part the two.
THEOREM SerialServesPublished ==
  ASSUME Serial, ~Crashes, ~TestsMayFail, Valid = Servers,
         "rollback" \notin ApplierKinds, "sni" \notin RequestKinds
  PROVE  Spec => []ServedIsPublished
<1>1. IInv /\ Steady /\ ServesInv /\ [Next]_applyVars => Steady' /\ ServesInv'
  BY ServesNext, SteadyNext DEF ServesInv
<1>2. ServesInv => ServedIsPublished
  <2> SUFFICES ASSUME ServesInv, Quiet, running # NoFile
               PROVE  live = running
                      /\ (running = Published.server \/ Published.server = Compatible[running])
    BY DEF ServedIsPublished
  <2>1. Agree(settings.server) /\ Published = settings
    BY RestPublished DEF ServesInv, AtRest
  <2> QED BY <2>1 DEF Agree
<1> QED BY <1>1, <1>2, IInvInit, IInvNext, ServesInit, PTL DEF Spec
=============================================================================
