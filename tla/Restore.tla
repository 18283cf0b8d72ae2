------------------------------- MODULE Restore -------------------------------
(***************************************************************************)
(* Backups of SG-Gateway and the jobs that restore them.                   *)
(*                                                                         *)
(* The panel takes an upload, has sg-hostd verify it, keeps it, and on     *)
(* confirmation starts a root job (full_backup_runtime.py and its patches).*)
(* A "full" archive replaces the server's state, a "clients" archive       *)
(* (Clients & Keys) is first merged into a copy of this server's database. *)
(* Both jobs take a safety archive, overlay files, swap the database,      *)
(* rebuild the runtime, restart the panel, and undo from the safety        *)
(* archive when a step fails.  Small SQLite copies are restored by the     *)
(* panel itself (app/maintenance/backups.py).  Meanwhile the panel goes on *)
(* changing the database and applying it.                                  *)
(*                                                                         *)
(* Data is abstracted to where it comes from: Own, or the name of an       *)
(* archive; rev counts the changes of clients since.                       *)
(***************************************************************************)
EXTENDS Naturals, FiniteSets, Sequences

CONSTANTS Own, None,
          Names,       \* servers the archives come from
          Archives,    \* archives and SQLite copies an operator may bring
          Domains,     \* HTTPS domains
          OwnTls,      \* what this server may have at first, None included
          Requests,    \* panel threads
          Jobs,        \* restore jobs, each started once
          Brings,      \* whether an archive may bring HTTPS to a server without
          Overlap,     \* whether operators start a restore during another
          Mixed,       \* whether uploads and SQLite copies occur in one behaviour
          MaxUploads, MaxCopies, MaxEdits, MaxFaults      \* bounds

Origins == Names \cup {Own}
Profiles == {"full", "clients"}
BACKUP_RETENTION == 2

Contents == [from : Origins, rev : Nat]
Settings == Origins \cup {None}      \* None: emptied
Databases == [clients : Contents, settings : Settings, host : Origins,
              hidden : BOOLEAN]
Runs == [clients : Contents, settings : Settings, host : Origins] \cup {None}
Envs == [machine : Origins, rest : Origins]
Disks == [db : Databases, env : Envs, tls : Domains \cup {None}, awg : Origins \cup {None},
          site : Domains \cup {None}, run : Runs]

\* sound: whether its integrity check passes.
Archive == [profile : Profiles \cup {"sqlite"}, sound : BOOLEAN, disk : Disks]

\* create_full_backup_archive; create_data_backup_archive with the HTTPS
\* identity _rewrite_created_archive adds: the tables of clients alone.
FullArchive(d) == [profile |-> "full", sound |-> TRUE, disk |-> d]
ClientSnapshot(base) == [base EXCEPT !.settings = None]
ClientsArchive(d) ==
  [profile |-> "clients", sound |-> TRUE,
   disk |-> [d EXCEPT !.db = ClientSnapshot(@), !.awg = None, !.site = None, !.run = None]]

ASSUME RestoreAssumption ==
  /\ Own \notin Names /\ None \notin Origins \cup Domains
  /\ Archives \subseteq Archive
  /\ \A a \in Archives : a.disk.db.clients.from \in Names
  /\ OwnTls \subseteq Domains \cup {None}
  /\ Brings \in BOOLEAN /\ Overlap \in BOOLEAN
  /\ Mixed \in BOOLEAN /\ MaxUploads \in Nat /\ MaxCopies \in Nat /\ MaxEdits \in Nat /\ MaxFaults \in Nat

ASSUME MarkerAssumption ==
  None \notin Archive \cup Disks \cup [clients : Contents, settings : Settings, host : Origins]

VARIABLES disk,      \* database, env files, tls-state.json with its certificate, AWG 3.1
                     \* profile, nginx site (None: plain HTTP), generated config.json
          served,    \* what xray, nginx and the panel process were started from
          restarts,  \* ActiveEnterTimestamp of sg-gateway.service
          due,       \* a scheduled restart of panel and hostd is pending
          applying,  \* clients.apply holding its lock: what it has read, or None
          slot,      \* per profile: upload, kept (verified), its metadata, restore-upload
          rq,        \* panel requests that verify, confirm or restore a copy
          job,       \* restore jobs
          copies,    \* SQLite copies of the panel
          spent      \* uploads, copies, edits and faults so far

uploads == <<slot, rq>>
vars == <<disk, served, restarts, due, applying, slot, rq, job, copies, spent>>

NoJob == [at |-> "idle"]
NoRequest == [at |-> "idle"]
Running(j) == job[j].at \notin {"idle", "over"}

Of(d) == [clients |-> d.clients, settings |-> d.settings, host |-> d.host]

Init ==
  /\ \E t \in OwnTls :
       LET mine == [from |-> Own, rev |-> 0]
           base == [clients |-> mine, settings |-> Own, host |-> Own, hidden |-> FALSE]
       IN disk = [db |-> base, env |-> [machine |-> Own, rest |-> Own], tls |-> t, awg |-> None,
                  site |-> t, run |-> Of(base)]
  /\ served = [xray |-> disk.run, site |-> disk.site, env |-> disk.env]
  /\ restarts = 0 /\ due = FALSE /\ applying = None
  /\ slot = [p \in Profiles |-> [upload |-> None, kept |-> None, meta |-> None, ready |-> None]]
  /\ rq = [r \in Requests |-> NoRequest]
  /\ job = [j \in Jobs |-> NoJob]
  /\ copies = {}
  /\ spent = [uploads |-> 0, copies |-> 0, edits |-> 0, faults |-> 0]

Fault == spent.faults < MaxFaults /\ spent' = [spent EXCEPT !.faults = @ + 1]  \* MaxFaults

\* Some restore is under way: operators wait for it unless Overlap.
Verifying == {"idle", "uploaded", "read", "kept"}
Restoring == (\E j \in Jobs : Running(j)) \/ (\E r \in Requests : rq[r].at \notin Verifying)
MayStart == Overlap \/ ~Restoring

-----------------------------------------------------------------------------
\* Meanwhile: the panel's own changes, clients.apply and the restart timer.

\* A client is added, changed or removed.
Edit ==
  /\ spent.edits < MaxEdits                                     \* MaxEdits
  /\ spent' = [spent EXCEPT !.edits = @ + 1]
  /\ disk' = [disk EXCEPT !.db.clients.rev = @ + 1]
  /\ UNCHANGED <<served, restarts, due, applying, uploads, job, copies>>

BeginApply ==
  /\ applying = None
  /\ Of(disk.db) # disk.run
  /\ applying' = Of(disk.db)
  /\ UNCHANGED <<disk, served, restarts, due, uploads, job, copies, spent>>

\* It installs what it has read.  A rollback under way remembers that config.json was written beside it.
EndApply ==
  /\ applying # None
  /\ disk' = [disk EXCEPT !.run = applying]
  /\ served' = [served EXCEPT !.xray = applying]
  /\ job' = [j \in Jobs |-> IF Running(j) THEN [job[j] EXCEPT !.beside = TRUE] ELSE job[j]]
  /\ applying' = None
  /\ UNCHANGED <<restarts, due, uploads, copies, spent>>

\* systemctl restart sg-hostd sg-gateway: an apply in hostd dies with it, and
\* so may the panel's requests.
PanelRestarts ==
  /\ due
  /\ due' = FALSE /\ applying' = None
  /\ \/ restarts' = restarts + 1 /\ served' = [served EXCEPT !.env = disk.env] /\ UNCHANGED spent
     \/ Fault /\ UNCHANGED <<restarts, served>>
  /\ rq' \in {rq, [r \in Requests |-> NoRequest]}
  /\ UNCHANGED <<disk, slot, job, copies>>

-----------------------------------------------------------------------------
\* Uploads, their verification, and the confirmation.

Goto(r, at) == rq' = [rq EXCEPT ![r].at = at]
Leave(r) == rq' = [rq EXCEPT ![r] = NoRequest]
still == <<disk, served, restarts, due, applying, job, copies>>

\* Of the profile's files: the verified archive and its metadata are dropped;
\* the metadata of the file just kept is written; metadata and file agree.
Cleared(s) == [s EXCEPT !.kept = None, !.meta = None]
Recorded(s) == [s EXCEPT !.meta = s.kept]
Unchanged(s) == s.kept # None /\ s.kept = s.meta
Handed(s) == [Cleared(s) EXCEPT !.ready = s.kept]

\* _verify_archive: manifest, members, SQLite integrity.
Verifies(a) == a # None /\ a.sound

\* stage_uploaded_*_backup_for_verification: what was verified before is
\* dropped, the new file replaces the one that waits to be verified.
Upload(r) ==
  /\ MayStart /\ rq[r].at = "idle"
  /\ spent.uploads < MaxUploads /\ (Mixed \/ spent.copies = 0)  \* MaxUploads
  /\ spent' = [spent EXCEPT !.uploads = @ + 1]
  /\ \E a \in {b \in Archives : b.profile \in Profiles} :
       /\ slot' = [slot EXCEPT ![a.profile] = [Cleared(@) EXCEPT !.upload = a]]
       /\ rq' = [rq EXCEPT ![r] = [at |-> "uploaded", profile |-> a.profile]]
  /\ UNCHANGED still

\* verify_uploaded_*_backup: _verify_archive reads the upload...
VerifyRead(r) ==
  /\ rq[r].at = "uploaded"
  /\ LET s == slot[rq[r].profile] IN
     IF Verifies(s.upload)
       THEN Goto(r, "read") /\ slot' = [slot EXCEPT ![rq[r].profile].kept = None]
       ELSE Leave(r) /\ slot' = [slot EXCEPT ![rq[r].profile] = [@ EXCEPT !.upload = None, !.kept = None]]
  /\ UNCHANGED <<still, spent>>

\* ...and the file that is there now is hashed and kept.
VerifyKeep(r) ==
  /\ rq[r].at = "read"
  /\ LET s == slot[rq[r].profile] IN
     IF s.upload # None
       THEN /\ rq' = [rq EXCEPT ![r] = [at |-> "kept", profile |-> @.profile, sha |-> s.upload]]
            /\ slot' = [slot EXCEPT ![rq[r].profile] = [@ EXCEPT !.kept = s.upload, !.upload = None]]
       ELSE Leave(r) /\ UNCHANGED slot
  /\ UNCHANGED <<still, spent>>

\* save_verified_*_backup.
SaveVerified(r) ==
  /\ rq[r].at = "kept"
  /\ LET s == slot[rq[r].profile] IN
     slot' = [slot EXCEPT ![rq[r].profile] =
               IF s.kept = rq[r].sha THEN Recorded(s) ELSE Cleared(s)]
  /\ Leave(r)
  /\ UNCHANGED <<still, spent>>

\* stage_verified_*_backup_for_restore.
Confirm(r, p) ==
  /\ MayStart /\ rq[r].at = "idle"
  /\ \E j \in Jobs : job[j].at = "idle"
  /\ slot[p].kept # None /\ slot[p].meta # None
  /\ Brings \/ disk.tls # None \/ slot[p].kept.disk.tls = None
  /\ IF Unchanged(slot[p])
       THEN /\ slot' = [slot EXCEPT ![p] = Handed(@)]
            /\ rq' = [rq EXCEPT ![r] = [at |-> IF p = "full" THEN "start" ELSE "promote"]]
       ELSE /\ slot' = [slot EXCEPT ![p] = Cleared(@)]
            /\ UNCHANGED rq
  /\ UNCHANGED <<still, spent>>

\* _build_merged_destination_database: this server's database with the
\* clients of the archive; its HTTPS identity is imported where it fits.
MergedDatabase(base) == [disk.db EXCEPT !.clients = base.clients]
Imported(tls) == IF disk.tls \in {None, tls} THEN tls ELSE None

\* Mutant: the archive's database as it is.
MergedReplacing(a) ==
  [profile |-> "clients", sound |-> TRUE,
   disk |-> [a.disk EXCEPT !.tls = Imported(@)]]

Merged(a) ==
  [profile |-> "clients", sound |-> TRUE,
   disk |-> [a.disk EXCEPT !.db = MergedDatabase(@), !.tls = Imported(@)]]

\* _promote_uploaded_data_backup, or the answer that it failed.
Promote(r) ==
  /\ rq[r].at = "promote"
  /\ \/ /\ Verifies(slot["clients"].ready)
        /\ slot' = [slot EXCEPT !["full"].ready = Merged(slot["clients"].ready),
                                !["clients"].ready = None]
        /\ Goto(r, "start")
        /\ UNCHANGED spent
     \/ /\ ~Verifies(slot["clients"].ready)
        /\ Leave(r)
        /\ UNCHANGED <<slot, spent>>
     \/ Fault /\ Leave(r) /\ UNCHANGED slot
  /\ UNCHANGED still

\* backup.full.restore.start: the job starts, or systemd-run refuses.
StartJob(r) ==
  /\ rq[r].at = "start"
  /\ \/ /\ \E j \in Jobs :
             /\ job[j].at = "idle"
             /\ job' = [job EXCEPT ![j] = [at |-> "forward", n |-> 1, image |-> None, safety |-> None,
                                          before |-> 0, deferred |-> FALSE, beside |-> FALSE]]
        /\ UNCHANGED spent
     \/ Fault /\ UNCHANGED job
  /\ Leave(r)
  /\ UNCHANGED <<disk, served, restarts, due, applying, slot, copies>>

-----------------------------------------------------------------------------
\* The restore jobs: the steps of _restore_uploaded_full_backup and
\* _restore_clients_keys, with those of their undo.

Rebuild(tls) == IF tls = None THEN <<"apply", "restart">>
                ELSE <<"https", "apply", "restart", "https", "apply", "restart">>
Again == <<"health", "schedule", "wait">>
Refresh(tls) == IF tls = None THEN <<>> ELSE <<"https">>

Forward(p) ==
  IF p = "clients"
    THEN <<"check", "safety", "files", "swap", "rebind", "hide">> \o Refresh(disk.tls)
         \o <<"apply", "unhide">> \o Again \o <<"finish", "reconcile">>
    ELSE <<"check", "safety", "files", "awg", "swap", "env", "rebind">> \o Rebuild(disk.tls)
         \o Again \o <<"finish">>
Back(p) ==
  IF p = "clients"
    THEN <<"files", "swap", "env">> \o Refresh(disk.tls) \o <<"restart">> \o Refresh(disk.tls)
         \o Again \o <<"report">>
    ELSE <<"files", "swap", "env", "restart">> \o Again \o <<"report">>

Profile(j) == IF job[j].image = None THEN "full" ELSE job[j].image.profile
Step(j) == CASE job[j].at = "forward" -> Forward(Profile(j))[job[j].n]
             [] job[j].at = "undo" -> Back(Profile(j))[job[j].n]
             [] OTHER -> job[j].at
On(j, way, step) == job[j].at = way /\ Step(j) = step
Move(j) == job' = [job EXCEPT ![j].n = @ + 1]
End(j) == job' = [job EXCEPT ![j] = [at |-> "over"]]

\* _extract_archive, _read_manifest and integrity_check of its database.
Extracts(a) == a # None /\ a.sound

\* Nothing has been touched yet: preflight, extraction, integrity and, for a
\* full archive, the runtime contract of this server.
Check(j) ==
  /\ On(j, "forward", "check")
  /\ LET a == slot["full"].ready IN
     \/ /\ Extracts(a)
        /\ job' = [job EXCEPT ![j] = [@ EXCEPT !.n = 2, !.image = a]]
        /\ UNCHANGED spent
     \/ /\ ~Extracts(a)
        /\ End(j) /\ UNCHANGED spent
     \/ Fault /\ End(j)
  /\ UNCHANGED <<disk, served, restarts, due, applying, uploads, copies>>

\* create_full_backup_archive.
Safety(j) ==
  /\ On(j, "forward", "safety")
  /\ \/ /\ job' = [job EXCEPT ![j] = [@ EXCEPT !.n = 3, !.safety = disk]]
        /\ UNCHANGED spent
     \/ Fault /\ End(j)
  /\ UNCHANGED <<disk, served, restarts, due, applying, uploads, copies>>

world == <<served, restarts, due, applying, uploads, copies, spent>>
Image(j) == job[j].image.disk

\* _restore_payload(preserve_machine_env=True), in its order: what the archive
\* holds is laid over what is there.
OverlayFiles(j) ==
  /\ On(j, "forward", "files")
  /\ disk' = [disk EXCEPT !.tls = IF Image(j).tls = None THEN @ ELSE Image(j).tls]
  /\ Move(j) /\ UNCHANGED world

OverlayAwg31(j) ==
  /\ On(j, "forward", "awg")
  /\ disk' = [disk EXCEPT !.awg = IF Image(j).awg = None THEN @ ELSE Image(j).awg]
  /\ Move(j) /\ UNCHANGED world

SwapDatabase(j) ==
  /\ On(j, "forward", "swap")
  /\ disk' = [disk EXCEPT !.db = Image(j).db]
  /\ Move(j) /\ UNCHANGED world

\* _write_env_merged: ports, addresses and secrets of this machine stay.
WrittenMerged(theirs) == [machine |-> disk.env.machine, rest |-> theirs.rest]

MergeEnv(j) ==
  /\ On(j, "forward", "env")
  /\ disk' = [disk EXCEPT !.env = WrittenMerged(Image(j).env)]
  /\ Move(j) /\ UNCHANGED world

\* _rebind_connection_hosts_to_destination, _clear_generated_runtime_before_rebuild.
Rebound(base) == [base EXCEPT !.host = disk.env.machine]

Rebind(j) ==
  /\ On(j, "forward", "rebind")
  /\ disk' = [disk EXCEPT !.db = Rebound(@), !.run = None]
  /\ Move(j) /\ UNCHANGED world

\* destination_protocol_policy: credentials of protocols this server has
\* switched off are disabled, until the runtime has been built.
Hide(j) ==
  /\ On(j, "forward", "hide")
  /\ disk' = [disk EXCEPT !.db.hidden = TRUE]
  /\ Move(j) /\ UNCHANGED world

Unhide(j) ==
  /\ On(j, "forward", "unhide")
  /\ disk' = [disk EXCEPT !.db.hidden = FALSE]
  /\ Move(j) /\ UNCHANGED world

\* _refresh_restored_https_from_local_files: nginx gets the site of the
\* certificate; the script applies the clients too, when it can.
RefreshHttps(j, way) ==
  /\ On(j, way, "https")
  /\ \/ /\ disk' = [disk EXCEPT !.site = disk.tls]
        /\ served' = [served EXCEPT !.site = disk.tls]
     \/ /\ applying = None
        /\ disk' = [disk EXCEPT !.site = disk.tls, !.run = Of(disk.db)]
        /\ served' = [served EXCEPT !.site = disk.tls, !.xray = Of(disk.db)]
  /\ Move(j)
  /\ UNCHANGED <<restarts, due, applying, uploads, copies, spent>>

\* apply_all_clients in a process of its own: needs clients-apply.lock.
Apply(j) ==
  /\ On(j, "forward", "apply")
  /\ applying = None
  /\ disk' = [disk EXCEPT !.run = Of(disk.db)]
  /\ served' = [served EXCEPT !.xray = Of(disk.db)]
  /\ Move(j)
  /\ UNCHANGED <<restarts, due, applying, uploads, copies, spent>>

\* Clients & Keys only: the runtime may stay behind.
Defer(j) ==
  /\ On(j, "forward", "apply") /\ Profile(j) = "clients"
  /\ \/ applying # None /\ UNCHANGED spent
     \/ Fault
  /\ job' = [job EXCEPT ![j].n = @ + 1, ![j].deferred = TRUE]
  /\ UNCHANGED <<disk, served, restarts, due, applying, uploads, copies>>

\* _restart_xray_required; on the way back _restart_runtime, nginx included.
Restart(j, way) ==
  /\ On(j, way, "restart")
  /\ disk.run # None
  /\ served' = [served EXCEPT !.xray = disk.run, !.site = IF way = "undo" THEN disk.site ELSE @]
  /\ Move(j)
  /\ UNCHANGED <<disk, restarts, due, applying, uploads, copies, spent>>

\* _local_panel_health, and the generation read after it.
Healthy == disk.tls # None => served.site = disk.tls

Health(j, way) ==
  /\ On(j, way, "health")
  /\ Healthy
  /\ job' = [job EXCEPT ![j].n = @ + 1, ![j].before = restarts]
  /\ UNCHANGED <<disk, world>>

Schedule(j, way) ==
  /\ On(j, way, "schedule")
  /\ due' = TRUE
  /\ Move(j)
  /\ UNCHANGED <<disk, served, restarts, applying, uploads, copies, spent>>

\* Mutant: any healthy answer will do.
WaitForAnswer(j, way) ==
  /\ On(j, way, "wait")
  /\ Healthy
  /\ Move(j)
  /\ UNCHANGED <<disk, world>>

\* _wait_for_panel_after_scheduled_restart.
Wait(j, way) ==
  /\ On(j, way, "wait")
  /\ restarts # job[j].before /\ Healthy
  /\ Move(j)
  /\ UNCHANGED <<disk, world>>

\* The upload is used up; a Clients & Keys restore then applies the Reality
\* profiles once more, if it can.
Finish(j) ==
  /\ On(j, "forward", "finish")
  /\ slot' = [slot EXCEPT !["full"].ready = None]
  /\ IF Profile(j) = "clients" THEN Move(j) ELSE End(j)
  /\ UNCHANGED <<disk, served, restarts, due, applying, rq, copies, spent>>

Reconcile(j) ==
  /\ On(j, "forward", "reconcile")
  /\ \/ /\ applying = None
        /\ disk' = [disk EXCEPT !.run = Of(disk.db)]
        /\ served' = [served EXCEPT !.xray = Of(disk.db)]
     \/ UNCHANGED <<disk, served>>
  /\ End(j)
  /\ UNCHANGED <<restarts, due, applying, uploads, copies, spent>>

Mine(j) == job[j].safety

\* Mutant: the generated config.json is not in the safety archive.
PutBackFilesOnly(j) ==
  /\ On(j, "undo", "files")
  /\ disk' = [disk EXCEPT !.tls = IF Mine(j).tls = None THEN @ ELSE Mine(j).tls,
                          !.awg = Mine(j).awg, !.site = Mine(j).site]
  /\ Move(j) /\ UNCHANGED world

\* The undo, from the safety archive; a Clients & Keys restore may still hold
\* hidden credentials, which its context manager brings back first.
\* What the failed restore has brought and the safety archive lacks stays,
\* except the AWG 3.1 profile.
PutBackFiles(j) ==
  /\ On(j, "undo", "files")
  /\ disk' = [disk EXCEPT !.tls = IF Mine(j).tls = None THEN @ ELSE Mine(j).tls,
                          !.awg = Mine(j).awg,
                          !.site = Mine(j).site,
                          !.run = IF Mine(j).run = None THEN @ ELSE Mine(j).run]
  /\ Move(j) /\ UNCHANGED world

PutBackDatabase(j) ==
  /\ On(j, "undo", "swap")
  /\ disk' = [disk EXCEPT !.db = Mine(j).db]
  /\ Move(j) /\ UNCHANGED world

PutBackEnv(j) ==
  /\ On(j, "undo", "env")
  /\ disk' = [disk EXCEPT !.env = Mine(j).env]
  /\ Move(j) /\ UNCHANGED world

Report(j) ==
  /\ On(j, "undo", "report")
  /\ End(j)
  /\ UNCHANGED <<disk, world>>

\* A command refuses: _apply_client_runtime_required without the lock, a
\* restart without config.json.
Refused(j) ==
  \/ Step(j) = "apply" /\ Profile(j) = "full" /\ applying # None
  \/ Step(j) = "restart" /\ disk.run = None

\* Mutant: the wait for the panel has no end.
UnhealthyNow(j) == Step(j) = "health" /\ ~Healthy

\* The panel does not answer, or not as the new process.
Unhealthy(j) ==
  \/ Step(j) = "health" /\ ~Healthy
  \/ Step(j) = "wait" /\ ~due /\ (restarts = job[j].before \/ ~Healthy)

Fallible == {"files", "awg", "swap", "env", "rebind", "hide", "https", "apply", "unhide",
             "restart", "health", "schedule", "wait"}

\* An exception after the safety archive: the undo begins, or is given up.
\* Credentials hidden until then are brought back on the way, unless bringing
\* them back is what failed.
Fails(j) ==
  /\ Running(j) /\ job[j].safety # None /\ Step(j) \in Fallible
  /\ \/ Refused(j) /\ UNCHANGED spent
     \/ Unhealthy(j) /\ UNCHANGED spent
     \/ Fault /\ (Step(j) = "wait" => ~due)     \* it waits longer than the timer
  /\ IF job[j].at = "forward"
       THEN /\ job' = [job EXCEPT ![j] = [@ EXCEPT !.at = "undo", !.n = 1, !.beside = FALSE]]
            /\ disk' = [disk EXCEPT !.db.hidden =
                 IF Profile(j) = "clients" /\ Step(j) \in {"https", "apply"} THEN FALSE ELSE @]
       ELSE End(j) /\ UNCHANGED disk
  /\ UNCHANGED <<served, restarts, due, applying, uploads, copies>>

\* The process dies.
Kill(j) ==
  /\ Running(j)
  /\ Fault
  /\ End(j)
  /\ UNCHANGED <<disk, served, restarts, due, applying, uploads, copies>>

-----------------------------------------------------------------------------
\* SQLite copies of the panel, restored within one request.

\* Mutant: the first copy has number two.
NewCopyFromTwo(kind, content) ==
  /\ spent.copies < MaxCopies /\ (Mixed \/ spent.uploads = 0)   \* MaxCopies
  /\ spent' = [spent EXCEPT !.copies = @ + 1]
  /\ copies' = copies \cup {[kind |-> kind, n |-> spent.copies + 2, db |-> content]}

\* A copy is named after its kind ("sg-gateway" or "pre-restore") and time.
NewCopy(kind, content) ==
  /\ spent.copies < MaxCopies /\ (Mixed \/ spent.uploads = 0)   \* MaxCopies
  /\ spent' = [spent EXCEPT !.copies = @ + 1]
  /\ copies' = copies \cup {[kind |-> kind, n |-> spent.copies + 1, db |-> content]}

\* create_backup; stage_uploaded_backup for a copy from elsewhere.
MakeCopy ==
  /\ MayStart
  /\ \/ NewCopy("sg-gateway", disk.db)
     \/ \E a \in Archives : a.profile = "sqlite" /\ a.sound /\ NewCopy("sg-gateway", a.disk.db)
  /\ UNCHANGED <<disk, served, restarts, due, applying, uploads, job>>

\* list_backups sorts by name: every "sg-gateway" comes before any "pre-restore".
Newer(c, d) == \/ c.kind = "sg-gateway" /\ d.kind = "pre-restore"
               \/ c.kind = d.kind /\ c.n > d.n

\* delete_old_backups; a file may refuse to go.
DeleteOldCopies ==
  /\ \E kept \in SUBSET copies :
       /\ {c \in copies : Cardinality({d \in copies : Newer(d, c)}) < BACKUP_RETENTION} \subseteq kept
       /\ kept # copies
       /\ copies' = kept
  /\ UNCHANGED <<disk, served, restarts, due, applying, uploads, job, spent>>

here == <<restarts, due, slot, job>>

\* get_backup...
ChooseCopy(r, c) ==
  /\ MayStart /\ rq[r].at = "idle"
  /\ rq' = [rq EXCEPT ![r] = [at |-> "chosen", copy |-> c]]
  /\ UNCHANGED <<disk, served, applying, copies, here, spent>>

\* ...restore_backup_transaction: a safety copy of the live file...
SafetyCopy(r) ==
  /\ rq[r].at = "chosen"
  /\ NewCopy("pre-restore", disk.db)
  /\ rq' = [rq EXCEPT ![r] = [at |-> "saved", copy |-> @.copy, before |-> disk,
                              safety |-> spent.copies + 1]]
  /\ UNCHANGED <<disk, served, applying, here>>

\* ...the chosen copy over it, unless it has been cleaned up...
CopyOver(r) ==
  /\ rq[r].at = "saved"
  /\ \/ /\ rq[r].copy \in copies
        /\ disk' = [disk EXCEPT !.db = rq[r].copy.db]
        /\ Goto(r, "copied") /\ UNCHANGED spent
     \/ /\ rq[r].copy \notin copies
        /\ Goto(r, "unstaged") /\ UNCHANGED <<disk, spent>>
     \/ /\ Fault
        /\ disk' \in {disk, [disk EXCEPT !.db = rq[r].copy.db]}
        /\ Goto(r, "unstaged")
  /\ UNCHANGED <<served, applying, copies, here>>

\* ...and init_db.
InitDb(r) ==
  /\ rq[r].at = "copied"
  /\ \/ Goto(r, "staged") /\ UNCHANGED spent
     \/ Fault /\ Goto(r, "unstaged")
  /\ UNCHANGED <<disk, served, applying, copies, here>>

\* Its except clause: the safety copy again, if it is still there.
Unstage(r) ==
  /\ rq[r].at = "unstaged"
  /\ \/ /\ \E c \in copies : c.n = rq[r].safety /\ disk' = [disk EXCEPT !.db = c.db]
        /\ Goto(r, "kept back")
     \/ /\ ~\E c \in copies : c.n = rq[r].safety
        /\ Leave(r) /\ UNCHANGED disk
  /\ UNCHANGED <<served, applying, copies, here, spent>>

\* Mutant: config.json is installed, xray is not restarted.
InstallRestored == /\ applying = None
                   /\ disk' = [disk EXCEPT !.run = Of(disk.db)]
                   /\ UNCHANGED served

\* xray.restore.apply: Xray alone, under clients-apply.lock.
ApplyRestored == /\ applying = None
                 /\ disk' = [disk EXCEPT !.run = Of(disk.db)]
                 /\ served' = [served EXCEPT !.xray = Of(disk.db)]

ApplyCopy(r) ==
  /\ rq[r].at = "staged"
  /\ \/ ApplyRestored /\ Goto(r, "restored") /\ UNCHANGED spent
     \/ /\ \/ applying # None /\ UNCHANGED spent
           \/ Fault
        /\ Goto(r, "refused") /\ UNCHANGED <<disk, served>>
  /\ UNCHANGED <<applying, copies, here>>

\* restore_safety_backup, unless the safety copy has been cleaned up.
UndoCopy(r) ==
  /\ rq[r].at = "refused"
  /\ \/ /\ \E c \in copies : c.n = rq[r].safety /\ disk' = [disk EXCEPT !.db = c.db]
        /\ Goto(r, "undone")
     \/ /\ ~\E c \in copies : c.n = rq[r].safety
        /\ Leave(r) /\ UNCHANGED disk
  /\ UNCHANGED <<served, applying, copies, here, spent>>

\* The old runtime is applied again; otherwise the answer asks for a check.
ReapplyOld(r) ==
  /\ rq[r].at = "undone"
  /\ \/ ApplyRestored /\ Goto(r, "returned") /\ UNCHANGED spent
     \/ /\ \/ applying # None /\ UNCHANGED spent
           \/ Fault
        /\ Leave(r) /\ UNCHANGED <<disk, served>>
  /\ UNCHANGED <<applying, copies, here>>

Answer(r) ==
  /\ rq[r].at \in {"restored", "returned", "kept back"}
  /\ Leave(r)
  /\ UNCHANGED <<disk, served, restarts, due, applying, slot, job, copies, spent>>

-----------------------------------------------------------------------------
VerifyRoute(r) == VerifyRead(r) \/ VerifyKeep(r) \/ SaveVerified(r)
RestoreRoute(r) == Promote(r) \/ StartJob(r)
CopyStep(r) == \/ SafetyCopy(r) \/ CopyOver(r) \/ InitDb(r) \/ Unstage(r)
               \/ ApplyCopy(r) \/ UndoCopy(r) \/ ReapplyOld(r) \/ Answer(r)

JobStep(j) ==
  \/ Check(j) \/ Safety(j)
  \/ OverlayFiles(j) \/ OverlayAwg31(j) \/ SwapDatabase(j) \/ MergeEnv(j) \/ Rebind(j)
  \/ Hide(j) \/ Apply(j) \/ Defer(j) \/ Unhide(j) \/ Finish(j) \/ Reconcile(j)
  \/ PutBackFiles(j) \/ PutBackDatabase(j) \/ PutBackEnv(j) \/ Report(j)
  \/ \E way \in {"forward", "undo"} :
       RefreshHttps(j, way) \/ Restart(j, way) \/ Health(j, way) \/ Schedule(j, way) \/ Wait(j, way)
  \/ Fails(j)

Meanwhile == \/ Edit \/ BeginApply \/ EndApply \/ PanelRestarts

Next ==
  \/ Meanwhile
  \/ \E r \in Requests :
       \/ Upload(r)
       \/ \E p \in Profiles : Confirm(r, p)
       \/ \E c \in copies : ChooseCopy(r, c)
       \/ VerifyRoute(r) \/ RestoreRoute(r) \/ CopyStep(r)
  \/ MakeCopy \/ DeleteOldCopies
  \/ \E j \in Jobs : JobStep(j) \/ Kill(j)

Spec == Init /\ [][Next]_vars

\* A job's commands all have timeouts and an apply ends; the timer fires.
Fairness == /\ \A j \in Jobs : WF_vars(JobStep(j))
            /\ WF_vars(EndApply) /\ WF_vars(PanelRestarts)

FairSpec == Spec /\ Fairness

-----------------------------------------------------------------------------
Copies == [kind : {"sg-gateway", "pre-restore"}, n : 1..MaxCopies, db : Databases]
Slots == [upload : Archive \cup {None}, kept : Archive \cup {None},
          meta : Archive \cup {None}, ready : Archive \cup {None}]
CopySteps == {"saved", "copied", "unstaged", "kept back", "staged", "refused", "undone",
              "restored", "returned"}
RequestStates ==
  [at : {"idle", "promote", "start"}]
  \cup [at : {"uploaded", "read"}, profile : Profiles]
  \cup [at : {"kept"}, profile : Profiles, sha : Archive]
  \cup [at : {"chosen"}, copy : Copies]
  \cup [at : CopySteps, copy : Copies, before : Disks, safety : 1..MaxCopies]
JobStates ==
  [at : {"idle", "over"}]
  \cup [at : {"forward", "undo"}, n : 1..17, image : Archive \cup {None},
        safety : Disks \cup {None}, before : Nat, deferred : BOOLEAN, beside : BOOLEAN]

TypeOK ==
  /\ disk \in Disks
  /\ served \in [xray : Runs, site : Domains \cup {None}, env : Envs]
  /\ restarts \in Nat /\ due \in BOOLEAN /\ applying \in Runs
  /\ slot \in [Profiles -> Slots]
  /\ rq \in [Requests -> RequestStates]
  /\ job \in [Jobs -> JobStates]
  /\ copies \subseteq Copies
  /\ spent \in [uploads : 0..MaxUploads, copies : 0..MaxCopies, edits : 0..MaxEdits, faults : 0..MaxFaults]

\* A Full or Clients & Keys restore that is about to be reported as done serves
\* what it restored: xray runs the archive's clients on this server's address,
\* the panel was restarted on the environment that is on disk, nginx has the
\* site of the certificate, and no credential was left hidden
\* (_restore_uploaded_full_backup, _restore_clients_keys).
ServesRestored ==
  \A j \in Jobs : On(j, "forward", "finish") /\ ~job[j].deferred =>
    /\ served.xray.clients.from = Image(j).db.clients.from
    /\ served.xray.host = disk.env.machine
    /\ served.env = disk.env
    /\ disk.tls # None => served.site = disk.tls
    /\ ~disk.db.hidden

\* A restore that is about to be reported as rolled back serves what was there
\* before it, changes made before the safety archive included, unless another
\* clients.apply wrote config.json meanwhile.  The server must have been whole
\* then: what a killed restore has left without config.json, or with another
\* site than its certificate's, is not brought back.
Settled(d) == d.run # None /\ d.site = d.tls

ServesOld ==
  \A j \in Jobs : On(j, "undo", "report") /\ ~job[j].beside /\ Settled(Mine(j)) =>
    /\ \/ served.xray = Mine(j).run
       \/ \E n \in Mine(j).db.clients.rev..disk.db.clients.rev :
            served.xray = Of([Mine(j).db EXCEPT !.clients.rev = n])
    /\ disk.db.clients.from = Mine(j).db.clients.from
    /\ served.env = Mine(j).env
    /\ served.site = Mine(j).site

\* Every restore job that was started ends: it reports, gives up or is killed.
JobsEnd == \A j \in Jobs : Running(j) ~> ~Running(j)

\* What the operator is told of a small SQLite restore is true: "restored" and
\* "the previous database and Xray are back" are said of a database that is
\* there and that xray runs, unless the panel changed it meanwhile.
CopyAnswerTrue ==
  \A r \in Requests :
    /\ rq[r].at = "restored" => disk.db.clients.from = rq[r].copy.db.clients.from
    /\ rq[r].at = "returned" => disk.db.clients.from = rq[r].before.db.clients.from
    /\ rq[r].at \in {"restored", "returned"} => served.xray.clients.from = disk.db.clients.from

-----------------------------------------------------------------------------
\* The refinement: a restore, of whatever kind, is one staged change of the
\* database, the environment, HTTPS and AWG 3.1, seen by their origin.

Core(d) == [clients |-> d.db.clients.from, settings |-> d.db.settings, host |-> d.db.host,
            hidden |-> d.db.hidden, env |-> d.env, tls |-> d.tls, site |-> d.site, awg |-> d.awg]

Kept(mine, theirs) == IF theirs = None THEN mine ELSE theirs

\* What a confirmed restore means for the server it is run on.
Meant(goal, mine) ==
  LET theirs == Core(goal.disk) IN
  CASE goal.profile = "full" ->
         [theirs EXCEPT !.host = mine.env.machine,
                        !.env = [machine |-> mine.env.machine, rest |-> theirs.env.rest],
                        !.tls = Kept(mine.tls, @), !.awg = Kept(mine.awg, @),
                        !.site = Kept(mine.tls, theirs.tls)]
    [] goal.profile = "clients" ->
         [mine EXCEPT !.clients = theirs.clients, !.host = mine.env.machine,
                      !.tls = Kept(@, theirs.tls), !.site = Kept(mine.tls, theirs.tls)]
    [] goal.profile = "sqlite" ->
         [mine EXCEPT !.clients = theirs.clients, !.settings = theirs.settings,
                      !.host = theirs.host, !.hidden = theirs.hidden]

RestoringCopy == {r \in Requests : rq[r].at \notin Verifying \cup {"promote", "start"}}
RunningJobs == {j \in Jobs : Running(j)}

JobPhase(j) ==
  CASE job[j].at = "undo" -> IF Step(j) = "report" THEN "undone" ELSE "undoing"
    [] Step(j) \in {"check", "safety"} -> "checking"
    [] Step(j) \in {"finish", "reconcile"} -> "done"
    [] OTHER -> "changing"

CopyPhase(r) ==
  CASE rq[r].at = "chosen" -> "checking"
    [] rq[r].at \in {"saved", "copied", "staged"} -> "changing"
    [] rq[r].at = "restored" -> "done"
    [] rq[r].at \in {"unstaged", "refused"} -> "undoing"
    [] rq[r].at \in {"kept back", "undone", "returned"} -> "undone"

Phase == IF RunningJobs # {} THEN JobPhase(CHOOSE j \in RunningJobs : TRUE)
         ELSE IF RestoringCopy # {} THEN CopyPhase(CHOOSE r \in RestoringCopy : TRUE)
         ELSE "idle"
Saved == Phase \notin {"idle", "checking"}

\* What it wants and what it has saved, once it has.
Goal ==
  IF ~Saved THEN None
  ELSE IF RunningJobs # {}
    THEN LET j == CHOOSE k \in RunningJobs : TRUE
         IN [profile |-> Profile(j), disk |-> Image(j)]
    ELSE LET r == CHOOSE q \in RestoringCopy : TRUE
         IN [profile |-> "sqlite", disk |-> [rq[r].before EXCEPT !.db = rq[r].copy.db]]
Old ==
  IF ~Saved THEN None
  ELSE IF RunningJobs # {} THEN Core(Mine(CHOOSE j \in RunningJobs : TRUE))
  ELSE Core(rq[CHOOSE r \in RestoringCopy : TRUE].before)

Change == INSTANCE StagedChange WITH
  Nothing <- None,
  Worlds <- [clients : Origins, settings : Settings, host : Origins, hidden : BOOLEAN, env : Envs,
             tls : Domains \cup {None}, site : Domains \cup {None}, awg : Origins \cup {None}],
  Goals <- [profile : Profiles \cup {"sqlite"}, disk : Disks],
  Wanted <- Meant,
  phase <- Phase, goal <- Goal, old <- Old, world <- Core(disk)

\* Every restore is such a change: a confirmed archive or copy, checked and
\* saved first, is reported as done only with exactly what it means for this
\* server and as rolled back only with exactly what was there.
ImplementsStagedChange == Change!Spec
=============================================================================
