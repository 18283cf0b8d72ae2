------------------------------- MODULE Engines -------------------------------
(***************************************************************************)
(* An engine of SG-Gateway: its binary, its configuration, its service.    *)
(*                                                                         *)
(* Mihomo's configuration is built by the panel (app/mihomo/service.py)    *)
(* and installed, tested, restarted and rolled back by a root helper       *)
(* (app/mihomo/helper.py) that takes no lock; clients.apply installs it    *)
(* too.  Root jobs replace the binary: update_core for Mihomo, update_xray *)
(* for Xray (one flock each).  Xray's configuration is XrayApply's; here   *)
(* it only changes under an update.                                        *)
(*                                                                         *)
(* A behaviour is about one engine.  A configuration is what it was        *)
(* rendered from: an option of the form, which only some versions load,    *)
(* and a generation of client credentials.                                 *)
(***************************************************************************)
EXTENDS Naturals, Sequences

CONSTANTS None, Idle,       \* Idle: the configuration without listeners
          Versions, Shipped, \* versions there are, and those a server starts with
          XRAY_MINIMUM_VERSION,
          Options,
          LoadedBy,         \* the versions that load a configuration with an option
          Actors,           \* panel requests with their hostd threads, and jobs
          MaxOps,           \* bounds: operations,
          MaxBeside,        \* those of them that may begin beside another,
          MaxCreds, MaxFaults

ASSUME EnginesAssumption ==
  /\ Versions \subseteq Nat /\ Shipped \subseteq Versions
  /\ XRAY_MINIMUM_VERSION \in Nat
  /\ LoadedBy \in [Options -> SUBSET Versions]
  /\ MaxOps \in Nat /\ MaxBeside \in Nat /\ MaxCreds \in Nat /\ MaxFaults \in Nat

VARIABLES engine,    \* "mihomo" or "xray"
          row,       \* the settings row: Mieru's switch and options
          access,    \* the client's Mihomo credentials: generation and whether enabled
          candidate, \* candidate file
          meta,      \* its metadata file
          bin, conf, \* installed binary and configuration
          applied,   \* metadata of what is applied
          served,    \* what the service was last started from, None when it is down
          backups,   \* Mihomo's backup directory, oldest first
          op,        \* what each actor is doing
          ops,       \* operations started
          faults,    \* commands that failed by themselves and processes killed
          clean      \* no operation overlapped another, died or was left undone, and
                     \* systemctl failed nowhere that nobody looks

files == <<candidate, meta, bin, conf, applied, served, backups>>
vars == <<engine, row, access, candidate, meta, bin, conf, applied, served, backups,
          op, ops, faults, clean>>

Forms == [on : BOOLEAN, opt : Options]
Bodies == [opt : Options, cred : 0..MaxCreds]
Configs == Bodies \cup {Idle}
Metas == Forms          \* the form a candidate was built from
Backups == [conf : Configs \cup {None}, applied : Metas \cup {None}]
Running == [bin : Versions, conf : Configs]
Services == Running \cup {None}

\* None and Idle are markers, never data.
ASSUME MarkersAssumption ==
  /\ Idle \notin Bodies
  /\ None \notin Configs \cup Metas \cup Versions \cup Running

\* mihomo -t, xray run -test: conf can be a file that is not there.
Loads(v, c) == c # None /\ (c # Idle => v \in LoadedBy[c.opt])

NoOp == [at |-> "idle"]
Working(a) == op[a].at \notin {"idle", "over"}

Body == [opt |-> row.opt, cred |-> access.cred]

Init ==
  /\ engine \in {"mihomo", "xray"}
  /\ row \in {f \in Forms : f.on} /\ bin \in Shipped
  /\ access = [cred |-> 0, on |-> FALSE]
  /\ IF engine = "mihomo" THEN conf = Idle ELSE conf \in [opt : Options, cred : {0}]
  /\ Loads(bin, conf)
  /\ candidate = None /\ meta = None /\ applied = None
  /\ served = [bin |-> bin, conf |-> conf]
  /\ backups = <<>>
  /\ op = [a \in Actors |-> NoOp]
  /\ ops = 0 /\ faults = 0 /\ clean = TRUE

Fault == faults < MaxFaults /\ faults' = faults + 1              \* MaxFaults

-----------------------------------------------------------------------------
\* How an operation begins, goes on and ends.

Core == [bin |-> bin, conf |-> conf, applied |-> applied, served |-> served]

Overlapped(o) == IF o.at \notin {"idle", "over"} THEN [o EXCEPT !.alone = FALSE, !.before = None] ELSE o

Begin(a, kind, step) ==
  /\ ops < MaxOps /\ ops' = ops + 1                              \* MaxOps
  /\ op[a].at = "idle"
  /\ LET alone == \A b \in Actors : ~Working(b) IN
     /\ op' = [b \in Actors |->
                IF b = a THEN [at |-> step, kind |-> kind, alone |-> alone,
                               before |-> IF alone THEN Core ELSE None,
                               asked |-> None, from |-> None, saved |-> None,
                               unseen |-> FALSE, answer |-> None]
                ELSE Overlapped(op[b])]
     /\ alone \/ ops < MaxBeside                                 \* MaxBeside
     /\ clean' = (clean /\ alone)

Goto(a, step) == op' = [op EXCEPT ![a].at = step]
End(a, answer) == op' = [op EXCEPT ![a].at = "over", ![a].answer = answer]
Is(a, kinds) == op[a].kind \in kinds

\* systemctl has failed, and the operation goes on as if it had not.
Unseen(a, step, answer) ==
  /\ op' = [op EXCEPT ![a].at = step, ![a].answer = answer, ![a].unseen = TRUE]
  /\ clean' = FALSE

\* hostd or the job is killed, or execute_mihomo_action gives up after 180 s
\* and kills the helper: nothing is undone and nobody is told.
Kill(a) ==
  /\ Working(a)
  /\ Fault
  /\ End(a, "died") /\ clean' = FALSE
  /\ UNCHANGED <<engine, row, access, files, ops>>

Report(a) ==
  /\ op[a].at = "over"
  /\ op' = [op EXCEPT ![a] = NoOp]
  /\ UNCHANGED <<engine, row, access, files, ops, faults, clean>>

\* daemon-reload, enable, restart and is-active.  A service that cannot load
\* its configuration may still be seen active in between; one that can may
\* fail to come up, or systemctl fails before it touches the service.
Restart(up, down) ==
  \/ /\ Loads(bin, conf)
     /\ served' = [bin |-> bin, conf |-> conf] /\ up
     /\ UNCHANGED faults
  \/ /\ ~Loads(bin, conf)
     /\ served' = None
     /\ up \/ down
     /\ UNCHANGED faults
  \/ Fault /\ served' \in {None, served} /\ down

-----------------------------------------------------------------------------
\* The panel: the Mihomo form, the client's buttons, the candidate.

\* update_mihomo saves the form whatever the button.
Post(a) ==
  /\ engine = "mihomo"
  /\ row' \in Forms
  /\ \/ Begin(a, "test", "build")
     \/ Begin(a, "apply", "build")
     \/ Begin(a, "restart", "again")
     \/ Begin(a, "rollback", "select")
  /\ UNCHANGED <<engine, access, files, faults>>

\* The button that only saves.
Save ==
  /\ engine = "mihomo"
  /\ ops < MaxOps /\ ops' = ops + 1                              \* MaxOps
  /\ row' \in Forms \ {row}
  /\ op' = [b \in Actors |-> Overlapped(op[b])]
  /\ clean' = (clean /\ \A b \in Actors : ~Working(b))
  /\ UNCHANGED <<engine, access, files, faults>>

\* ensure_device_deployment generates credentials once.
Enabled(d) == [cred |-> IF d.cred = 0 THEN 1 ELSE d.cred, on |-> TRUE]
Disabled(d) == [d EXCEPT !.on = FALSE]
Rotated(d) == [cred |-> d.cred + 1, on |-> TRUE]

\* The client page's buttons apply at once.
Button(a) ==
  /\ engine = "mihomo"
  /\ access' \in {d \in {Enabled(access), Disabled(access), Rotated(access)} :
                    d.cred <= MaxCreds}                          \* MaxCreds
  /\ Begin(a, "apply", "build")
  /\ UNCHANGED <<engine, row, files, faults>>

\* _apply_mihomo of clients.apply.
ClientsApply(a) ==
  /\ engine = "mihomo"
  /\ Begin(a, "clients", IF access.on THEN "build" ELSE "idle conf")
  /\ UNCHANGED <<engine, row, access, files, faults>>

\* list_protocol_deployments, _validate_settings, _render_server_yaml.
Deployments == IF access.on THEN {access.cred} ELSE {}
Valid == row.on => Deployments # {}
Rendered == IF row.on THEN Body ELSE Idle

\* build_candidate writes the candidate...
Build(a) ==
  /\ op[a].at = "build"
  /\ IF Valid
       THEN /\ candidate' = Rendered
            /\ op' = [op EXCEPT ![a].at = "describe", ![a].asked = row]
       ELSE End(a, "failed") /\ UNCHANGED candidate
  /\ UNCHANGED <<engine, row, access, meta, bin, conf, applied, served, backups, ops, faults, clean>>

\* ...and then its metadata.
Describe(a) ==
  /\ op[a].at = "describe"
  /\ meta' = op[a].asked
  /\ Goto(a, "back up")
  /\ UNCHANGED <<engine, row, access, candidate, bin, conf, applied, served, backups, ops, faults, clean>>

-----------------------------------------------------------------------------
\* The root helper.

Saved == [conf |-> conf, applied |-> applied]

\* It reads the metadata and copies what is installed.  A test of a form
\* that switches everything off has nothing to do.
BackUp(a) ==
  /\ op[a].at = "back up"
  /\ IF Is(a, {"test"}) /\ ~meta.on
       THEN End(a, "done") /\ UNCHANGED backups
       ELSE /\ backups' = Append(backups, Saved)
            /\ op' = [op EXCEPT ![a].at = IF meta.on THEN "check" ELSE "stop",
                                ![a].saved = Saved, ![a].asked = meta]
  /\ UNCHANGED <<engine, row, access, candidate, meta, bin, conf, applied, served, ops, faults, clean>>

\* mihomo -t on the candidate that is there now.
Check(a) ==
  /\ op[a].at = "check"
  /\ \/ /\ Loads(bin, candidate) /\ UNCHANGED faults
        /\ Goto(a, IF Is(a, {"test"}) THEN "put back" ELSE "install")
     \/ ~Loads(bin, candidate) /\ UNCHANGED faults /\ Goto(a, "put back")
     \/ Fault /\ Goto(a, "put back")
  /\ UNCHANGED <<engine, row, access, files, ops, clean>>

\* Mutant: the metadata's path for the candidate's.
InstallMeta(a) ==
  /\ op[a].at = "install"
  /\ conf' = meta
  /\ Goto(a, "start")
  /\ UNCHANGED <<engine, row, access, candidate, meta, bin, applied, served, backups, ops, faults, clean>>

Install(a) ==
  /\ op[a].at = "install"
  /\ \/ conf' = candidate /\ Goto(a, "start") /\ UNCHANGED faults
     \/ Fault /\ Goto(a, "put back") /\ UNCHANGED conf
  /\ UNCHANGED <<engine, row, access, candidate, meta, bin, applied, served, backups, ops, clean>>

Start(a) ==
  /\ op[a].at = "start"
  /\ Restart(IF Is(a, {"rollback"}) THEN End(a, "done") ELSE Goto(a, "record"), Goto(a, "put back"))
  /\ UNCHANGED <<engine, row, access, candidate, meta, bin, conf, applied, backups, ops, clean>>

\* The firewall rule, the metadata.  The form's button goes on to sing-box.
Record(a) ==
  /\ op[a].at = "record"
  /\ \/ /\ applied' = op[a].asked
        /\ IF Is(a, {"apply"}) THEN Goto(a, "sing-box") ELSE End(a, "done")
        /\ UNCHANGED faults
     \/ Fault /\ Goto(a, "put back") /\ UNCHANGED applied
  /\ UNCHANGED <<engine, row, access, candidate, meta, bin, conf, served, backups, ops, clean>>

\* apply_split_mihomo_singbox_runtime: when sing-box fails, Mihomo stays.
SingBox(a) ==
  /\ op[a].at = "sing-box"
  /\ \/ End(a, "done") /\ UNCHANGED faults
     \/ Fault /\ End(a, "partly")
  /\ UNCHANGED <<engine, row, access, files, ops, clean>>

\* Nothing is to listen: the service is stopped.  Nobody looks at what
\* systemctl answers; only its 60 s timeout stops the apply.
Stop(a) ==
  /\ op[a].at = "stop"
  /\ \/ served' = None /\ Goto(a, "remove") /\ UNCHANGED <<faults, clean>>
     \/ Fault /\ Unseen(a, "remove", None) /\ UNCHANGED served
     \/ Fault /\ served' \in {None, served} /\ Goto(a, "put back") /\ UNCHANGED clean
  /\ UNCHANGED <<engine, row, access, candidate, meta, bin, conf, applied, backups, ops>>

\* The configuration is removed, and the metadata says so.
Remove(a) ==
  /\ op[a].at = "remove"
  /\ conf' = None
  /\ \/ /\ applied' = op[a].asked /\ UNCHANGED faults
        /\ IF Is(a, {"apply"}) THEN Goto(a, "sing-box") ELSE End(a, "done")
     \/ Fault /\ Goto(a, "put back") /\ UNCHANGED applied
  /\ UNCHANGED <<engine, row, access, candidate, meta, bin, served, backups, ops, clean>>

\* _restore: after a failed step, and always after a test.
PutBack(a) ==
  /\ op[a].at = "put back"
  /\ conf' = op[a].saved.conf /\ applied' = op[a].saved.applied
  /\ IF Is(a, {"test"}) THEN End(a, "tested") ELSE Goto(a, "recover")
  /\ UNCHANGED <<engine, row, access, candidate, meta, bin, served, backups, ops, faults, clean>>

\* Mutant: the files only.
RecoverFilesOnly(a) ==
  /\ op[a].at = "recover"
  /\ End(a, "failed")
  /\ UNCHANGED <<engine, row, access, files, ops, faults, clean>>

\* _recover_service does not look at what systemctl answers: what is
\* reported is the failure that came before, whatever runs now.
Recover(a) ==
  /\ op[a].at = "recover"
  /\ \/ /\ served' = IF op[a].saved.conf # None /\ Loads(bin, conf)
                     THEN [bin |-> bin, conf |-> conf] ELSE None
        /\ End(a, "failed") /\ UNCHANGED <<faults, clean>>
     \/ Fault /\ served' \in {None, served} /\ Unseen(a, "over", "failed")
  /\ UNCHANGED <<engine, row, access, candidate, meta, bin, conf, applied, backups, ops>>

\* restart_applied_services restarts Mihomo and sing-box, each if it has a
\* configuration; without any there is nothing to restart.
Again(a) ==
  /\ op[a].at = "again"
  /\ \/ /\ conf = None
        /\ \E answer \in {"failed", "done"} : End(a, answer)
        /\ UNCHANGED <<served, faults, clean>>
     \/ /\ conf # None
        /\ Restart((\E answer \in {"done", "partly"} : End(a, answer)) /\ clean' = clean,
                   End(a, "down") /\ clean' = FALSE)
  /\ UNCHANGED <<engine, row, access, candidate, meta, bin, conf, applied, backups, ops>>

\* rollback_latest picks the newest backup and adds one of what is there.
Select(a) ==
  /\ op[a].at = "select"
  /\ IF backups = <<>>
       THEN End(a, "failed") /\ UNCHANGED backups
       ELSE /\ backups' = Append(backups, Saved)
            /\ op' = [op EXCEPT ![a].at = "roll back", ![a].saved = Saved,
                                ![a].asked = backups[Len(backups)]]
  /\ UNCHANGED <<engine, row, access, candidate, meta, bin, conf, applied, served, ops, faults, clean>>

RollBack(a) ==
  /\ op[a].at = "roll back"
  /\ conf' = op[a].asked.conf
  /\ \/ /\ applied' = op[a].asked.applied /\ UNCHANGED faults
        /\ Goto(a, IF op[a].asked.conf = None THEN "halt" ELSE "check again")
     \/ Fault /\ Goto(a, "put back") /\ UNCHANGED applied
  /\ UNCHANGED <<engine, row, access, candidate, meta, bin, served, backups, ops, clean>>

CheckAgain(a) ==
  /\ op[a].at = "check again"
  /\ \/ Loads(bin, conf) /\ UNCHANGED faults /\ Goto(a, "start")
     \/ ~Loads(bin, conf) /\ UNCHANGED faults /\ Goto(a, "put back")
     \/ Fault /\ Goto(a, "put back")
  /\ UNCHANGED <<engine, row, access, files, ops, clean>>

Halt(a) ==
  /\ op[a].at = "halt"
  /\ \/ served' = None /\ End(a, "done") /\ UNCHANGED faults
     \/ Fault /\ Goto(a, "put back") /\ served' \in {None, served}
  /\ UNCHANGED <<engine, row, access, candidate, meta, bin, conf, applied, backups, ops, clean>>

\* clients.apply without rows: the listener-free configuration, no backup.
IdleConf(a) ==
  /\ op[a].at = "idle conf"
  /\ conf' = Idle
  /\ Goto(a, "idle start")
  /\ UNCHANGED <<engine, row, access, candidate, meta, bin, applied, served, backups, ops, faults, clean>>

IdleStart(a) ==
  /\ op[a].at = "idle start"
  /\ Restart(End(a, "done") /\ clean' = clean, End(a, "down") /\ clean' = FALSE)
  /\ UNCHANGED <<engine, row, access, candidate, meta, bin, conf, applied, backups, ops>>

-----------------------------------------------------------------------------
\* update_xray and update_core.

\* An Xray apply, coarse: XrayApply has its steps.
ApplyXray ==
  /\ engine = "xray"
  /\ ops < MaxOps /\ ops' = ops + 1                              \* MaxOps
  /\ row' \in {f \in Forms : f.on}
  /\ conf' = [opt |-> row'.opt, cred |-> access.cred]
  /\ Loads(bin, conf')
  /\ served' = [bin |-> bin, conf |-> conf']
  /\ op' = [b \in Actors |-> Overlapped(op[b])]
  /\ clean' = (clean /\ \A b \in Actors : ~Working(b))
  /\ UNCHANGED <<engine, access, candidate, meta, bin, applied, backups, faults>>

\* Mutant: no flock.
LockedNever == FALSE

\* The flock of the job; a killed job holds it no longer.
Locked == \E b \in Actors : Working(b) /\ op[b].kind = "update" /\ op[b].asked # None
Recovery(v) == engine = "xray" /\ v < XRAY_MINIMUM_VERSION
Installable(v, target) == target > v /\ ~Recovery(target)

\* The latest release of the channel, whatever it is.
Released == Versions

\* The job starts.
Update(a) ==
  /\ Begin(a, "update", "version")
  /\ UNCHANGED <<engine, row, access, files, faults>>

\* The lock, the installed version and the release of the channel.
ChooseRelease(a) ==
  /\ op[a].at = "version"
  /\ \/ Locked /\ End(a, "failed")
     \/ /\ ~Locked
        /\ \E target \in Released :
             IF Installable(bin, target)
               THEN op' = [op EXCEPT ![a].at = "fetch", ![a].asked = target, ![a].from = bin]
               ELSE End(a, "failed")
  /\ UNCHANGED <<engine, row, access, files, ops, faults, clean>>

\* Download, digest and version of the new binary; it must load the
\* configuration there is, unless a new one is to be rendered.
Fits(v) == Recovery(bin) \/ Loads(v, conf) \/ (engine = "mihomo" /\ conf = None)
Fetch(a) ==
  /\ op[a].at = "fetch"
  /\ \/ Fits(op[a].asked) /\ Goto(a, "keep") /\ UNCHANGED faults
     \/ ~Fits(op[a].asked) /\ End(a, "failed") /\ UNCHANGED faults
     \/ Fault /\ End(a, "failed")
  /\ UNCHANGED <<engine, row, access, files, ops, clean>>

\* Backups of the binary and, to recover, of the configuration.
Keep(a) ==
  /\ op[a].at = "keep"
  /\ op' = [op EXCEPT ![a].at = "swap",
                      ![a].saved = [bin |-> bin, conf |-> IF Recovery(bin) THEN conf ELSE None,
                                    up |-> engine = "xray" \/ served # None]]
  /\ UNCHANGED <<engine, row, access, files, ops, faults, clean>>

Swap(a) ==
  /\ op[a].at = "swap"
  /\ bin' = op[a].asked
  /\ Goto(a, IF Recovery(bin) THEN "regenerate" ELSE IF op[a].saved.up THEN "restart" ELSE "verify")
  /\ UNCHANGED <<engine, row, access, candidate, meta, conf, applied, served, backups, ops, faults, clean>>

RestartNew(a) ==
  /\ op[a].at = "restart"
  /\ Restart(Goto(a, "verify"), Goto(a, "swap back"))
  /\ UNCHANGED <<engine, row, access, candidate, meta, bin, conf, applied, backups, ops, clean>>

\* _regenerate_xray_config: _apply_xray, which on failure puts some earlier
\* configuration in place and restarts the service on it.
Regenerate(a) ==
  /\ op[a].at = "regenerate"
  /\ \/ /\ Loads(bin, Body)
        /\ conf' = Body /\ served' = [bin |-> bin, conf |-> Body]
        /\ Goto(a, "verify") /\ UNCHANGED faults
     \/ /\ IF Loads(bin, Body) THEN Fault ELSE UNCHANGED faults
        /\ conf' \in {conf} \cup [opt : Options, cred : {0}]
        /\ served' = IF Loads(bin, conf') THEN [bin |-> bin, conf |-> conf'] ELSE None
        /\ Goto(a, "swap back")
  /\ UNCHANGED <<engine, row, access, candidate, meta, bin, applied, backups, ops, clean>>

\* The version that is installed; Xray tests its configuration once more.
Verified(a) == bin = op[a].asked /\ (engine = "xray" => Loads(bin, conf))
Verify(a) ==
  /\ op[a].at = "verify"
  /\ \/ Verified(a) /\ End(a, "done") /\ UNCHANGED faults
     \/ ~Verified(a) /\ Goto(a, "swap back") /\ UNCHANGED faults
     \/ Fault /\ Goto(a, "swap back")
  /\ UNCHANGED <<engine, row, access, files, ops, clean>>

SwapBack(a) ==
  /\ op[a].at = "swap back"
  /\ bin' = op[a].saved.bin
  /\ conf' = IF op[a].saved.conf # None THEN op[a].saved.conf ELSE conf
  /\ IF op[a].saved.up THEN Goto(a, "restart old") ELSE End(a, "failed")
  /\ UNCHANGED <<engine, row, access, candidate, meta, applied, served, backups, ops, faults, clean>>

\* A rollback that fails is reported as such.
RestartOld(a) ==
  /\ op[a].at = "restart old"
  /\ Restart(IF engine = "xray" /\ ~Loads(bin, conf)
               THEN End(a, "stuck") /\ clean' = FALSE ELSE End(a, "failed") /\ clean' = clean,
             End(a, "stuck") /\ clean' = FALSE)
  /\ UNCHANGED <<engine, row, access, candidate, meta, bin, conf, applied, backups, ops>>

-----------------------------------------------------------------------------
Helper(a) == \/ BackUp(a) \/ Check(a) \/ Install(a) \/ Start(a) \/ Record(a) \/ SingBox(a)
             \/ Stop(a) \/ Remove(a) \/ PutBack(a) \/ Recover(a) \/ Again(a)
             \/ Select(a) \/ RollBack(a) \/ CheckAgain(a) \/ Halt(a) \/ IdleConf(a) \/ IdleStart(a)

Job(a) == \/ Update(a) \/ ChooseRelease(a) \/ Fetch(a) \/ Keep(a) \/ Swap(a) \/ RestartNew(a)
          \/ Regenerate(a) \/ Verify(a) \/ SwapBack(a) \/ RestartOld(a)

Next == \/ \E a \in Actors : \/ Post(a) \/ Button(a) \/ ClientsApply(a)
                             \/ Build(a) \/ Describe(a) \/ Helper(a) \/ Job(a)
                             \/ Kill(a) \/ Report(a)
        \/ Save \/ ApplyXray

Spec == Init /\ [][Next]_vars

-----------------------------------------------------------------------------
\* What the pages show of Mihomo.

\* mihomo.status: the service is active, the configuration on disk has the
\* listener, and the port is bound.
Active == served # None /\ conf \in Bodies /\ served.conf \in Bodies

\* The options beside it: those of the applied metadata, or of the form.
Live == [on |-> Active, opt |-> IF applied # None THEN applied.opt ELSE row.opt]
Changed == Live # row
View == IF Active THEN "active" ELSE IF Changed THEN "pending" ELSE "off"

\* The client's profile (build_device_yaml).
Exported == IF Active /\ access.on THEN [opt |-> Live.opt, cred |-> access.cred] ELSE None

-----------------------------------------------------------------------------
TypeOK ==
  /\ engine \in {"mihomo", "xray"} /\ row \in Forms
  /\ access \in [cred : 0..MaxCreds, on : BOOLEAN]
  /\ candidate \in Configs \cup {None} /\ meta \in Metas \cup {None}
  /\ bin \in Versions /\ conf \in Configs \cup {None} /\ applied \in Metas \cup {None}
  /\ served \in Services
  /\ backups \in Seq(Backups)
  /\ ops \in 0..MaxOps /\ faults \in 0..MaxFaults /\ clean \in BOOLEAN

Settled(c) == c.served = IF c.conf = None THEN None ELSE [bin |-> c.bin, conf |-> c.conf]

Installed == <<bin, conf, applied>>
InstalledIn(c) == <<c.bin, c.conf, c.applied>>

\* For an operation that ran alone from a service that ran what is installed.
AloneIsTrue(o) ==
  o.alone /\ Settled(o.before) =>
    /\ o.answer \in {"failed", "tested"} => Installed = InstalledIn(o.before)
    /\ o.answer \in {"failed", "tested"} /\ ~o.unseen => served = o.before.served
    /\ o.answer \in {"done", "partly"} =>
         /\ IF o.unseen THEN conf = None /\ served = o.before.served ELSE Settled(Core)
         /\ o.kind = "update" => conf = o.before.conf \/ Recovery(o.before.bin)
         /\ o.kind \in {"apply", "clients"} /\ o.asked # None =>
              /\ conf = IF o.asked.on THEN Rendered ELSE None
              /\ applied = o.asked
         /\ o.kind = "rollback" => Saved = o.asked

\* An update is alone with the binary, whatever the others do.
UpdateIsTrue(o) ==
  o.kind = "update" /\ o.asked # None =>
    /\ o.answer = "done" => bin = o.asked
    /\ o.answer \in {"failed", "stuck"} => bin = o.from

\* What an operation answers is true of the files, whatever fails: "done"
\* means that what was asked for is installed, a refusal or a failure that
\* every file is as it was, and a test changes nothing (helper.py
\* apply_candidate, test_candidate, rollback_latest; update_core,
\* update_xray).  It is true of the service too, unless systemctl failed
\* where the helper does not look: when it does so stopping the service,
\* "done" leaves the old configuration served and no file of it.  An update
\* reports the version that is installed even when others overlap it.
AnswerIsTrue ==
  [][\A a \in Actors : Working(a) /\ op'[a].at = "over" =>
       AloneIsTrue(op[a])' /\ UpdateIsTrue(op[a])']_vars

\* Once everything is over, if no operation overlapped another, died,
\* reported that it left the service down or did not look at a failure of
\* systemctl, the service runs the installed binary on the installed
\* configuration, the page and the client's profile have the options it runs
\* with, and a form shown as applied is the one that runs
\* (_fallback_live_snapshot, _protocol_runtime_view, build_device_yaml).
RestIsServed ==
  clean /\ engine = "mihomo" /\ (\A a \in Actors : ~Working(a)) =>
    /\ Settled(Core)
    /\ View = "active" => Live.opt = served.conf.opt /\ (~Changed => row = [on |-> TRUE, opt |-> served.conf.opt])
    /\ Exported # None => Exported.opt = served.conf.opt
=============================================================================
