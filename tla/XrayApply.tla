----------------------------- MODULE XrayApply -----------------------------
(***************************************************************************)
(* Applying Xray settings to the running server.  Panel requests           *)
(* (app/main.py) open a settings transaction and ask for a test or an      *)
(* apply; appliers turn the settings row into the live config.json:        *)
(*   "clients"  clients.apply of sg-hostd (apply_all_clients)              *)
(*   "runtime"  xray.apply and the updater (apply_xray_runtime)            *)
(*   "restore"  xray.restore.apply (apply_xray_runtime, forced profiles)   *)
(*   "job"      the xray_apply background job (operation_job_runner.py)    *)
(* All four run _apply_xray; the first three under the flock on            *)
(* clients-apply.lock, the job without it.  Link readers are exports.py.   *)
(*                                                                         *)
(* A settings value is a record: server is what config.json is rendered    *)
(* from, client what only links carry (the fingerprint).  A rendered       *)
(* config is the server part.  The settings table is moved by the          *)
(* statements of XraySettingsSQL, a request or applier being the session   *)
(* that runs them: between any two of them the others go on.               *)
(***************************************************************************)
EXTENDS XraySettingsSQL, FiniteSets

CONSTANTS Servers,        \* server parts of a settings value
          Clients,        \* client-only parts
          Legacy,         \* server parts that lack Hysteria2 obfuscation...
          Compatible,     \* ...and what normalise_hysteria2_config makes of any
          Valid,          \* server parts xray run -test accepts
          Requests,       \* panel request threads
          Appliers,       \* sg-hostd threads and background jobs
          Readers,        \* threads serving client links
          RequestKinds,   \* subset of {"test","apply","save","fingerprint","sni"}
          ApplierKinds,   \* subset of {"clients","runtime","restore","job","rollback"}
          Serial,         \* one operator, who waits for each operation to end
          TestsMayFail,   \* whether xray may fail to test a valid candidate
          Crashes         \* whether appliers and requests may be killed

NoFile == "absent"
Locked == {"clients", "runtime", "restore"}

ASSUME ApplyAssumption ==
  /\ Configs = [server : Servers, client : Clients]
  /\ NoFile \notin Servers
  /\ Legacy \subseteq Servers /\ Valid \subseteq Servers
  /\ Compatible \in [Servers -> Servers]
  /\ \A s \in Servers : s \notin Legacy <=> Compatible[s] = s
  /\ \A s \in Servers : Compatible[s] \notin Legacy
  /\ RequestKinds \subseteq {"test", "apply", "save", "fingerprint", "sni"}
  /\ ApplierKinds \subseteq Locked \cup {"job", "rollback"}
  /\ Sessions = Requests \cup Appliers /\ Requests \cap Appliers = {}
  /\ "free" \notin Appliers
  /\ Serial \in BOOLEAN /\ TestsMayFail \in BOOLEAN /\ Crashes \in BOOLEAN

VARIABLES live,      \* /usr/local/etc/xray/config.json
          backup,    \* config.json.previous
          candidate, \* candidates/xray-config.json, shared by all appliers
          running,   \* the config xray.service runs, NoFile when stopped
          enabled,   \* some enabled deployment uses Xray
          lock,      \* holder of clients-apply.lock, or "free"
          ap,        \* program counter and locals of each applier
          rq,        \* the same for each panel request
          rd         \* the same for each link reader

files == <<live, backup, candidate, running>>
applyVars == <<settings, tx, nextId, call, crossed, live, backup, candidate, running,
               enabled, lock, ap, rq, rd>>

NoApplier == [at |-> "idle"]
NoRequest == [at |-> "idle"]
NoReader  == [at |-> "idle"]

\* _render_xray_config.  Every value that reaches it has been through
\* normalise_hysteria2_config and carries its FinalMask base, so
\* _preserve_live_hysteria_finalmask finds nothing to add to the settings.
Rendered(v) == v.server

Quiet == (\A a \in Appliers : ap[a] = NoApplier) /\ (\A r \in Requests : rq[r] = NoRequest)

MayStart == Serial => Quiet

Init ==
  /\ SqlInit
  /\ settings.server \in Valid
  /\ live \in {Rendered(settings), NoFile} /\ running = live
  /\ backup \in {NoFile} \cup Valid /\ candidate = NoFile
  /\ live = NoFile => backup = NoFile                \* Xray not set up yet
  /\ enabled \in BOOLEAN
  /\ lock = "free"
  /\ ap = [a \in Appliers |-> NoApplier]
  /\ rq = [r \in Requests |-> NoRequest]
  /\ rd = [r \in Readers |-> NoReader]

-----------------------------------------------------------------------------
\* Panel requests.

\* update_xray_profiles and the two direct forms read the settings and build
\* the value they will store.
Prepare(r, kind, c) ==
  /\ rq[r] = NoRequest /\ MayStart /\ kind \in RequestKinds
  /\ nextId \in Ids                                  \* MaxTx
  /\ kind = "fingerprint" => c.server = settings.server
  /\ kind = "sni" => c.client = settings.client      \* not used
  /\ rq' = [rq EXCEPT ![r] = [at |-> "prepared", kind |-> kind, value |-> c]]
  /\ UNCHANGED <<sqlVars, files, enabled, lock, ap, rd>>

\* begin_settings_transaction: its SELECTs, then its write.
BeginRequest(r) ==
  /\ \/ /\ rq[r].at = "prepared" /\ rq[r].kind \in {"test", "apply", "save"}
        /\ SelectOpen(r, rq[r].value)
        /\ rq' = [rq EXCEPT ![r] = [at |-> "begin", kind |-> @.kind]]
     \/ rq[r].at = "begin" /\ SelectCurrent(r) /\ UNCHANGED rq
     \/ /\ rq[r].at = "begin" /\ WriteBegin(r)
        /\ rq' = [rq EXCEPT ![r] = [at |-> @.kind, id |-> nextId]]
  /\ UNCHANGED <<files, enabled, lock, ap, rd>>

\* update_xray_fingerprint writes what it read back with the new field; the
\* SNI form re-reads and replaces the server name alone.
DirectRequest(r) ==
  /\ rq[r].at = "prepared" /\ rq[r].kind \in {"fingerprint", "sni"}
  /\ WriteDirect(r, IF rq[r].kind = "sni"
                    THEN [settings EXCEPT !.server = rq[r].value.server]
                    ELSE rq[r].value)
  /\ rq' = [rq EXCEPT ![r] = NoRequest]
  /\ UNCHANGED <<files, enabled, lock, ap, rd>>

\* Faulty variant: the request returns without rolling back.
FinishRequestDropped(r) ==
  /\ rq[r].at \in {"test", "save", "unstarted"}
  /\ rq' = [rq EXCEPT ![r] = NoRequest]
  /\ UNCHANGED <<sqlVars, files, enabled, lock, ap, rd>>

\* The xray.test command has answered (it writes nothing the applier reads),
\* or "save" falls through: rollback_settings_transaction looks at the row and
\* writes only if it was open.
FinishRequest(r) ==
  /\ rq[r].at \in {"test", "save", "unstarted"}
  /\ IF rq[r].id \in PendingIds
     THEN SelectRow(r, rq[r].id) /\ rq' = [rq EXCEPT ![r] = [at |-> "undo"]]
     ELSE UNCHANGED sqlVars /\ rq' = [rq EXCEPT ![r] = NoRequest]
  /\ UNCHANGED <<files, enabled, lock, ap, rd>>

UndoRequest(r) ==
  /\ rq[r].at = "undo"
  /\ WriteRollback(r)
  /\ rq' = [rq EXCEPT ![r] = NoRequest]
  /\ UNCHANGED <<files, enabled, lock, ap, rd>>

\* xray.apply.start: systemd-run starts the job and the answer arrives, the
\* answer is lost (client timeout 20 s, the same as systemd-run's), or the
\* job is never started.
StartJob(r, a) ==
  /\ rq[r].at = "apply" /\ ap[a] = NoApplier
  /\ ap' = [ap EXCEPT ![a] = [at |-> "tx", kind |-> "job"]]
  /\ \/ rq' = [rq EXCEPT ![r] = NoRequest]
     \/ ~Serial /\ rq' = [rq EXCEPT ![r].at = "unstarted"]
  /\ UNCHANGED <<sqlVars, files, enabled, lock, rd>>

JobNotStarted(r) ==
  /\ rq[r].at = "apply"
  /\ rq' = [rq EXCEPT ![r].at = "unstarted"]
  /\ UNCHANGED <<sqlVars, files, enabled, lock, ap, rd>>

-----------------------------------------------------------------------------
\* Appliers: entry, lock and early exits.

\* apply_xray_runtime reads the pending transaction before it has the lock.
Start(a, kind) ==
  /\ ap[a] = NoApplier /\ MayStart /\ kind \in ApplierKinds
  /\ settings.server \in Legacy => nextId \in Ids     \* MaxTx: see Normalise
  /\ ap' = [ap EXCEPT ![a] =
       CASE kind = "job" -> [at |-> "tx", kind |-> kind]
         [] kind = "rollback" -> [at |-> "manual", kind |-> kind]
         [] kind \in Locked -> [at |-> "lock", kind |-> kind, seen |-> Pending]]
  /\ UNCHANGED <<sqlVars, files, enabled, lock, rq, rd>>

\* Faulty variant: the descriptor of the lock file leaks.
ReleaseLeakingLock(a) ==
  /\ ap' = [ap EXCEPT ![a] = NoApplier]
  /\ UNCHANGED lock

Release(a) ==
  /\ lock' = IF lock = a THEN "free" ELSE lock
  /\ ap' = [ap EXCEPT ![a] = NoApplier]

\* LOCK_EX | LOCK_NB.  With no Xray deployment, no transaction seen and
\* profiles not forced, apply_xray_runtime keeps the existing runtime.
TakeLock(a) ==
  /\ ap[a].at = "lock" /\ lock = "free"
  /\ IF ap[a].kind = "runtime" /\ ~enabled /\ ap[a].seen = 0
     THEN Release(a)
     ELSE /\ lock' = a
          /\ ap' = [ap EXCEPT ![a] = [at |-> "tx", kind |-> @.kind]]
  /\ UNCHANGED <<sqlVars, files, enabled, rq, rd>>

\* An exception leaves the with-block first, and so drops the lock.
\* clients.apply and the job just fail; apply_xray_runtime has a handler.
Raise(a) ==
  /\ lock' = IF lock = a THEN "free" ELSE lock
  /\ ap' = [ap EXCEPT ![a] = IF @.kind \in {"runtime", "restore"}
                             THEN [at |-> "unwind", kind |-> @.kind] ELSE NoApplier]

\* BlockingIOError, or a check before the first engine raises (runtime
\* contract, deployment repair).
EntryFails(a) ==
  /\ ap[a].at = "lock"
  /\ Raise(a)
  /\ UNCHANGED <<sqlVars, files, enabled, rq, rd>>

\* The handler of apply_xray_runtime rolls back whatever is pending by now,
\* its own or not: pending(), then the two statements of rollback.
Unwind(a) ==
  /\ \/ /\ ap[a].at = "unwind"
        /\ ap' = [ap EXCEPT ![a] = IF Pending = 0 THEN NoApplier
                     ELSE [at |-> "unwind row", kind |-> @.kind, id |-> Pending]]
        /\ UNCHANGED sqlVars
     \/ /\ ap[a].at = "unwind row" /\ ap[a].id \in PendingIds
        /\ SelectRow(a, ap[a].id)
        /\ ap' = [ap EXCEPT ![a] = [at |-> "unwinding", kind |-> @.kind]]
     \/ /\ ap[a].at = "unwind row" /\ ap[a].id \notin PendingIds
        /\ ap' = [ap EXCEPT ![a] = NoApplier]
        /\ UNCHANGED sqlVars
     \/ /\ ap[a].at = "unwinding"
        /\ WriteRollback(a)
        /\ ap' = [ap EXCEPT ![a] = NoApplier]
  /\ UNCHANGED <<files, enabled, lock, rq, rd>>

-----------------------------------------------------------------------------
\* _apply_xray.

\* pending_settings_transaction, _deployment_rows, get_connection_settings.
ReadTx(a) ==
  /\ ap[a].at = "tx"
  /\ ap' = [ap EXCEPT ![a] = [at |-> "read", kind |-> @.kind, id |-> Pending]]
  /\ UNCHANGED <<sqlVars, files, enabled, lock, rq, rd>>

ReadSettings(a) ==
  /\ ap[a].at = "read"
  /\ ap' = [ap EXCEPT ![a] =
       [at |-> IF settings.server \in Legacy THEN "compat" ELSE "rows",
        kind |-> @.kind, id |-> @.id, value |-> settings,
        any |-> enabled \/ @.kind = "restore"]]
  /\ UNCHANGED <<sqlVars, files, enabled, lock, rq, rd>>

\* A Legacy value is rewritten first: in the pending transaction, directly
\* when nothing is to be rendered, else in a transaction of its own.  If the
\* transaction has closed, update_candidate_config says so and the apply
\* raises, past the handler of _apply_xray.
Normalise(a) ==
  LET me == ap[a]
      compatible == [me.value EXCEPT !.server = Compatible[@]]
      goto(pc) == ap' = [ap EXCEPT ![a].at = pc] /\ UNCHANGED lock
  IN /\ me.at = "compat"
     /\ \/ me.id \in PendingIds /\ SelectForRefine(a, me.id, compatible) /\ goto("refine")
        \/ me.id # 0 /\ me.id \notin PendingIds /\ UNCHANGED sqlVars /\ Raise(a)
        \/ me.id = 0 /\ ~me.any /\ WriteDirect(a, compatible) /\ goto("rows")
        \/ me.id = 0 /\ me.any /\ SelectOpen(a, compatible) /\ goto("begin")
     /\ UNCHANGED <<files, enabled, rq, rd>>

\* The writes of these calls; after the refinement the pending transaction is
\* read again, and may be another one or none.
Normalised(a) ==
  /\ \/ /\ ap[a].at = "begin" /\ SelectCurrent(a) /\ UNCHANGED ap
     \/ /\ ap[a].at = "begin" /\ WriteBegin(a)
        /\ ap' = [ap EXCEPT ![a].at = "rows", ![a].id = nextId]
     \/ /\ ap[a].at = "refine" /\ WriteRefine(a)
        /\ ap' = [ap EXCEPT ![a].at = "reread"]
     \/ /\ ap[a].at = "reread" /\ UNCHANGED sqlVars
        /\ ap' = [ap EXCEPT ![a].at = "rows", ![a].id = Pending]
  /\ UNCHANGED <<files, enabled, lock, rq, rd>>

\* Nothing to serve: the service is stopped (or refuses to), config.json stays.
StopService(a) ==
  /\ ap[a].at = "rows" /\ ~ap[a].any /\ ap[a].id = 0
  /\ running' \in {NoFile, running}
  /\ Release(a)
  /\ UNCHANGED <<sqlVars, live, backup, candidate, enabled, rq, rd>>

\* _render_xray_config reads the settings row again; the body goes to the
\* shared candidate file.  The version check before it, or rendering, may fail.
Render(a) ==
  /\ ap[a].at = "rows" /\ (ap[a].any \/ ap[a].id # 0)
  /\ \E next \in {"test", "failed"} :
       /\ next = "failed" => TestsMayFail
       /\ candidate' = IF next = "test" THEN Rendered(settings) ELSE candidate
       /\ ap' = [ap EXCEPT ![a] = [at |-> next, kind |-> @.kind, id |-> @.id,
                                   body |-> Rendered(settings), had |-> live # NoFile]]
  /\ UNCHANGED <<sqlVars, live, backup, running, enabled, lock, rq, rd>>

\* Faulty variant: the exit code of the test is not looked at.
TestCandidateUnchecked(a) ==
  /\ ap[a].at = "test"
  /\ ap' = [ap EXCEPT ![a].at = "save"]
  /\ UNCHANGED <<sqlVars, files, enabled, lock, rq, rd>>

\* xray run -test of the candidate FILE.
TestCandidate(a) ==
  /\ ap[a].at = "test"
  /\ \/ candidate \in Valid /\ ap' = [ap EXCEPT ![a].at = "save"]
     \/ /\ candidate \in Valid => TestsMayFail
        /\ ap' = [ap EXCEPT ![a].at = "failed"]
  /\ UNCHANGED <<sqlVars, files, enabled, lock, rq, rd>>

\* The old backup is dropped and the live file copied over it.
SaveBackup(a) ==
  /\ ap[a].at = "save"
  /\ backup' = IF ap[a].had THEN live ELSE NoFile
  /\ ap' = [ap EXCEPT ![a].at = IF ap[a].had /\ live = NoFile THEN "failed" ELSE "install"]
  /\ UNCHANGED <<sqlVars, live, candidate, running, enabled, lock, rq, rd>>

Install(a) ==
  /\ ap[a].at = "install"
  /\ live' = ap[a].body
  /\ ap' = [ap EXCEPT ![a].at = "restart"]
  /\ UNCHANGED <<sqlVars, backup, candidate, running, enabled, lock, rq, rd>>

\* Faulty variant: a failed restart is not noticed.
RestartUnchecked(a) ==
  /\ ap[a].at = "restart"
  /\ running' \in {NoFile, running} \cup ({live} \cap Valid)
  /\ ap' = [ap EXCEPT ![a].at = "commit"]
  /\ UNCHANGED <<sqlVars, live, backup, candidate, enabled, lock, rq, rd>>

\* systemctl restart runs whatever config.json holds.  It, is-active or the
\* wait for the Hysteria2 port may fail, whatever the config; daemon-reload or
\* enable may fail before it, and the old config runs on.
Restart(a) ==
  /\ ap[a].at = "restart"
  /\ \/ /\ live \in Valid /\ running' = live
        /\ ap' = [ap EXCEPT ![a].at = "commit"]
     \/ /\ running' \in {NoFile, running} \cup ({live} \cap Valid)
        /\ ap' = [ap EXCEPT ![a].at = "failed"]
  /\ UNCHANGED <<sqlVars, live, backup, candidate, enabled, lock, rq, rd>>

\* commit_settings_transaction; its answer is not looked at.
CommitTx(a) ==
  /\ ap[a].at = "commit"
  /\ IF ap[a].id = 0 THEN UNCHANGED sqlVars ELSE WriteCommit(a, ap[a].id)
  /\ ap' = [ap EXCEPT ![a].at = "done"]
  /\ UNCHANGED <<files, enabled, lock, rq, rd>>

\* Faulty variant: the file is copied back without restarting the service.
RestoreFilesOnly(a) ==
  /\ ap[a].at = "failed"
  /\ live' = IF backup # NoFile THEN backup ELSE IF ap[a].had THEN live ELSE NoFile
  /\ ap' = [ap EXCEPT ![a].at = "undo"]
  /\ UNCHANGED <<sqlVars, backup, candidate, running, enabled, lock, rq, rd>>

\* except: a backup file is copied back and the service restarted; with no
\* backup and no former config the new one is removed.
RestoreFiles(a) ==
  /\ ap[a].at = "failed"
  /\ \/ /\ backup # NoFile
        /\ live' = backup
        /\ running' \in {NoFile} \cup ({backup} \cap Valid)
     \/ /\ backup = NoFile /\ ~ap[a].had
        /\ live' = NoFile /\ running' = NoFile
     \/ /\ backup = NoFile /\ ap[a].had
        /\ UNCHANGED <<live, running>>
  /\ ap' = [ap EXCEPT ![a].at = "undo"]
  /\ UNCHANGED <<sqlVars, backup, candidate, enabled, lock, rq, rd>>

RollbackTx(a) ==
  /\ \/ /\ ap[a].at = "undo" /\ ap[a].id \in PendingIds
        /\ SelectRow(a, ap[a].id)
        /\ ap' = [ap EXCEPT ![a].at = "undoing"]
     \/ /\ ap[a].at = "undo" /\ ap[a].id \notin PendingIds
        /\ ap' = [ap EXCEPT ![a].at = "done"]
        /\ UNCHANGED sqlVars
     \/ /\ ap[a].at = "undoing" /\ WriteRollback(a)
        /\ ap' = [ap EXCEPT ![a].at = "done"]
  /\ UNCHANGED <<files, enabled, lock, rq, rd>>

\* The other engines follow under the same lock, then it is released.
Finish(a) ==
  /\ ap[a].at = "done"
  /\ Release(a)
  /\ UNCHANGED <<sqlVars, files, enabled, rq, rd>>

\* xray.rollback: config.json.previous is tested and becomes config.json.
\* The settings row is not touched, and no lock is taken.
ManualRollback(a) ==
  /\ ap[a].at = "manual"
  /\ IF backup \in Valid
     THEN live' = backup /\ running' \in {NoFile, backup}
     ELSE UNCHANGED <<live, running>>
  /\ Release(a)
  /\ UNCHANGED <<sqlVars, backup, candidate, enabled, rq, rd>>

-----------------------------------------------------------------------------
\* Link readers: build_xray_profile_link reads the settings, then the pending
\* transaction, and shows the latter's snapshot if there is one.
ReadCurrent(r) ==
  /\ rd[r] = NoReader
  /\ rd' = [rd EXCEPT ![r] = [at |-> "current", value |-> settings,
                                was |-> Published, id |-> Pending]]
  /\ UNCHANGED <<sqlVars, files, enabled, lock, ap, rq>>

ReadPending(r) ==
  /\ rd[r].at = "current"
  /\ rd' = [rd EXCEPT ![r] = NoReader]
  /\ UNCHANGED <<sqlVars, files, enabled, lock, ap, rq>>

\* Faulty variant: the pending transaction is not consulted.
ShownIgnoringPending(r) == rd[r].value

\* What the link shows when the reader reaches its second read.
Shown(r) == IF Pending = 0 THEN rd[r].value ELSE tx[Pending].previous

-----------------------------------------------------------------------------
\* Environment: clients are given Xray or lose it; processes are killed (the
\* kernel drops the flock with its holder).  KillApplier is also the job whose
\* clients overview raises before its try (operation_job_runner.py:44).
ToggleClients ==
  /\ MayStart
  /\ enabled' = ~enabled
  /\ UNCHANGED <<sqlVars, files, lock, ap, rq, rd>>

KillApplier(a) ==
  /\ Crashes /\ ap[a] # NoApplier
  /\ Release(a)
  /\ call' = [call EXCEPT ![a] = Idle]
  /\ UNCHANGED <<settingsVars, crossed, files, enabled, rq, rd>>

KillRequest(r) ==
  /\ Crashes /\ rq[r] # NoRequest
  /\ rq' = [rq EXCEPT ![r] = NoRequest]
  /\ call' = [call EXCEPT ![r] = Idle]
  /\ UNCHANGED <<settingsVars, crossed, files, enabled, lock, ap, rd>>

ApplierStep(a) ==
  \/ TakeLock(a) \/ EntryFails(a) \/ Unwind(a) \/ ReadTx(a) \/ ReadSettings(a)
  \/ Normalise(a) \/ Normalised(a)
  \/ StopService(a) \/ Render(a) \/ TestCandidate(a) \/ SaveBackup(a) \/ Install(a)
  \/ Restart(a) \/ CommitTx(a) \/ RestoreFiles(a) \/ RollbackTx(a) \/ Finish(a)
  \/ ManualRollback(a)

RequestStep(r) ==
  \/ BeginRequest(r) \/ DirectRequest(r) \/ FinishRequest(r) \/ UndoRequest(r)
  \/ JobNotStarted(r)
  \/ \E a \in Appliers : StartJob(r, a)

Next ==
  \/ \E r \in Requests :
       \/ \E kind \in RequestKinds, c \in Configs : Prepare(r, kind, c)
       \/ RequestStep(r) \/ KillRequest(r)
  \/ \E a \in Appliers :
       \/ \E kind \in ApplierKinds : Start(a, kind)
       \/ ApplierStep(a) \/ KillApplier(a)
  \/ \E r \in Readers : ReadCurrent(r) \/ ReadPending(r)
  \/ ToggleClients

Spec == Init /\ [][Next]_applyVars

\* Threads and processes that were started run on; nothing obliges a user to
\* start one, a reader to ask, or a process to die.
Fairness ==
  /\ \A a \in Appliers : WF_applyVars(ApplierStep(a))
  /\ \A r \in Requests : WF_applyVars(RequestStep(r))

FairSpec == Spec /\ Fairness

-----------------------------------------------------------------------------
Bodies == Servers \cup {NoFile}
Kinds == Locked \cup {"job"}

ApplierStates ==
  {NoApplier}
  \cup [at : {"tx"}, kind : Kinds]
  \cup [at : {"manual"}, kind : {"rollback"}]
  \cup [at : {"lock"}, kind : Locked, seen : {0} \cup Ids]
  \cup [at : {"read"}, kind : Kinds, id : {0} \cup Ids]
  \cup [at : {"unwind", "unwinding"}, kind : {"runtime", "restore"}]
  \cup [at : {"unwind row"}, kind : {"runtime", "restore"}, id : Ids]
  \cup [at : {"compat", "refine", "reread", "begin", "rows"}, kind : Kinds, id : {0} \cup Ids,
        value : Configs, any : BOOLEAN]
  \cup [at : {"test", "save", "install", "restart", "commit", "failed", "undo", "undoing", "done"},
        kind : Kinds, id : {0} \cup Ids, body : Servers, had : BOOLEAN]

RequestStates ==
  {NoRequest}
  \cup [at : {"prepared"}, kind : RequestKinds, value : Configs]
  \cup [at : {"begin"}, kind : {"test", "apply", "save"}]
  \cup [at : {"test", "apply", "save", "unstarted"}, id : Ids]
  \cup [at : {"undo"}]

ReaderStates == {NoReader} \cup [at : {"current"}, value : Configs, was : Configs,
                                 id : {0} \cup Ids]

\* An applier in state st is past taking the lock and has not dropped it.
Holds(st) ==
  st.at \notin {"idle", "lock", "unwind", "unwind row", "unwinding"} /\ st.kind \in Locked

FilesTypeOK == live \in Bodies /\ backup \in Bodies /\ candidate \in Bodies /\ running \in Bodies

\* The flock is held exactly by an applier of a locked kind past taking it.
LockMatches ==
  /\ lock \in Appliers \cup {"free"}
  /\ \A a \in Appliers : lock = a <=> Holds(ap[a])

\* A session is inside a call of settings_transactions.py exactly where its
\* caller waits for one.
CallAtIs(c, pc) ==
  c.at \in CASE pc = "begin" -> {"current", "restore", "insert"}
             [] pc = "refine" -> {"refine"}
             [] pc \in {"undoing", "unwinding"} -> {"undo"}
             [] OTHER -> {"idle"}

CallsMatch ==
  /\ \A a \in Appliers : CallAtIs(call[a], ap[a].at)
  /\ \A r \in Requests : CallAtIs(call[r], IF rq[r].at = "undo" THEN "undoing" ELSE rq[r].at)

\* Every value has its type, and the lock and the sessions match the program
\* counters.
TypeOK ==
  /\ SqlTypeOK
  /\ FilesTypeOK
  /\ enabled \in BOOLEAN
  /\ ap \in [Appliers -> ApplierStates]
  /\ rq \in [Requests -> RequestStates]
  /\ rd \in [Readers -> ReaderStates]
  /\ LockMatches /\ CallsMatch

\* Between operations the service runs what client links publish (or what
\* the Hysteria2 rewrite will make of it when there was nothing to serve),
\* and config.json is what it runs.  exports.py: links "must remain
\* compatible with the still-live configuration".
ServedIsPublished ==
  Quiet /\ running # NoFile =>
    /\ live = running
    /\ running = Published.server \/ Published.server = Compatible[running]

\* A transaction is recorded as applied only while the service runs its
\* candidate, unless an overtaken call has written beside it (and so put
\* other settings in the row the applier rendered).
CommitPublishesWhatRuns ==
  [][\A i \in PendingIds :
        tx'[i].status = "applied" =>
          running = tx[i].candidate.server \/ i \in crossed]_applyVars

\* "Save and test" answers that nothing was applied: as long as the request
\* runs, its transaction is not committed by anybody.
TestAppliesNothing ==
  \A r \in Requests : rq[r].at = "test" => tx[rq[r].id].status # "applied"

\* Only a config that passed xray run -test becomes config.json.
InstalledWasTested == live \in Valid \cup {NoFile}

\* Every transaction that is opened is closed: committed or rolled back.
EveryTransactionCloses ==
  \A i \in Ids : tx[i].status = "pending" ~> tx[i].status \in Closed

\* A link shows what was published when the page was begun or is published
\* now.  A candidate slips through only when the transaction that was open at
\* the first read of build_xray_profile_link has closed before the second.
LeakNeedsClose ==
  \A r \in Readers :
    rd[r].at = "current" /\ Shown(r) \notin {rd[r].was, Published}
      => rd[r].id # 0 /\ tx[rd[r].id].status \in Closed
=============================================================================
