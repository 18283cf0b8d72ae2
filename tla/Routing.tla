------------------------------- MODULE Routing -------------------------------
(***************************************************************************)
(* Routing rules, GeoFiles and WARP (app/routing): who may rewrite Xray's  *)
(* config.json besides clients.apply.  Each privileged operation runs in a *)
(* helper process that sg-hostd starts and waits for:                      *)
(*   geo.check, geo.apply, geo.rollback   under the flock on the GeoFiles  *)
(*   route.apply, route.rollback, warp.*  under no lock                    *)
(*   clients                              client_runtime._apply_xray       *)
(* The panel stages candidates itself, without any lock.                   *)
(*                                                                         *)
(* A rule sends one GeoFiles category somewhere; part tells which field of *)
(* the form it comes from.  A pair stands for geoip.dat and geosite.dat    *)
(* from one source.  A config is what of config.json the properties need:  *)
(* the revision of the clients in it, its rules, and the WARP profile of   *)
(* its outbounds (0: none).                                                *)
(***************************************************************************)
EXTENDS Naturals, FiniteSets

CONSTANTS Pairs,        \* pairs of files the sources offer
          Installed,    \* the pair the installer leaves
          IpCats,       \* categories that live in geoip.dat...
          SiteCats,     \* ...and those in geosite.dat
          CatsOf,       \* the categories of each pair: [Pairs -> SUBSET Cats]
          Family,       \* its family: [Pairs -> families]
          Baseline,     \* rules of the RoscomVPN family, {} for other pairs
          Forms,        \* routing forms an operator may submit: sets of rules
          Helpers,      \* helper processes and hostd threads
          None,
          Fresh,        \* {TRUE}: no config.json yet; {FALSE}: clients are served
          Alone,        \* {TRUE}: one operation at a time; {FALSE}: any overlap
          Kills,        \* steps at which sg-hostd may kill a helper (timeout)
          Swaps,        \* whether a source may be checked during geo.apply
          MaxOps,       \* bound: operations ever begun, by whether they wait
          MaxFaults,    \* bound: things that ever go wrong by themselves
          MaxUsers      \* bound: revisions of the clients

Cats == IpCats \cup SiteCats
Parts == {"user", "russia", "blocked", "template", "baseline"}
Acts == {"direct", "warp", "block"}
Rule == [part : Parts, act : Acts, cat : Cats]

GeoOps == {"geo.check", "geo.apply", "geo.rollback"}
RouteOps == {"route.apply", "route.rollback"}
WarpOps == {"warp.install", "warp.recreate", "warp.enable", "warp.disable", "warp.remove"}
Ops == GeoOps \cup RouteOps \cup WarpOps \cup {"warp.test", "clients"}

ASSUME RoutingAssumption ==
  /\ Installed \in Pairs
  /\ CatsOf \in [Pairs -> SUBSET Cats]
  /\ Forms \subseteq SUBSET Rule
  /\ Baseline \in [Pairs -> SUBSET Rule]
  /\ \A p \in Pairs : \A r \in Baseline[p] : r.part = "baseline" /\ r.act # "warp" /\ r.cat \in CatsOf[p]
  /\ None \notin Pairs /\ None \notin Forms /\ None \notin Helpers
  /\ Fresh \subseteq BOOLEAN /\ Alone \subseteq BOOLEAN
  /\ Kills \subseteq STRING /\ Swaps \in BOOLEAN
  /\ MaxOps \in [BOOLEAN -> Nat] /\ MaxFaults \in Nat /\ MaxUsers \in Nat \ {0}

VARIABLES live,        \* what a GeoFiles backup holds: both files, their manifest,
                       \* xray-routing-managed.json and config.json
          previous,    \* config.json.previous of clients.apply
          policy,      \* active-managed.json: the form applied last
          warp,        \* warp.json and the profile: enabled, its id, last test failed
          service,     \* what xray.service was started from, or None
          geoCand,     \* candidate pair with its planned rules
          routeCand,   \* candidate form
          staging,     \* pair the panel is checking
          geoBackup,   \* newest GeoFiles backup
          routeBackup, \* newest Routing backup
          geoLock,     \* holder of the GeoFiles lock
          users,       \* revision of the clients in the database
          h,           \* operation, step and locals of each helper
          spent,       \* operations begun and faults met so far
          relapsed,    \* clients.apply has brought back an older config
          alone        \* whether operations wait for one another

disk == <<live, previous, policy, warp>>
staged == <<geoCand, routeCand, staging>>
backups == <<geoBackup, routeBackup>>
vars == <<live, previous, policy, warp, service, geoCand, routeCand, staging, geoBackup,
          routeBackup, geoLock, users, h, spent, relapsed, alone>>

Files(p) == [ip |-> p, site |-> p]
Idle == [op |-> "none", at |-> "idle"]
Busy(a) == h[a].at # "idle"
Quiet == staging = None /\ \A a \in Helpers : ~Busy(a)

Init ==
  \E fresh \in Fresh :
    /\ live = [geo |-> Files(Installed), manifest |-> None, managed |-> {},
               config |-> IF fresh THEN None ELSE [rev |-> 1, rules |-> {}, warp |-> 0]]
    /\ previous = None /\ policy = None
    /\ warp = [on |-> FALSE, id |-> 0, bad |-> FALSE]
    /\ service = IF fresh THEN None ELSE [config |-> live.config, geo |-> live.geo]
    /\ geoCand = None /\ routeCand = None /\ staging = None
    /\ geoBackup = None /\ routeBackup = None /\ geoLock = None
    /\ users = 1
    /\ h = [a \in Helpers |-> Idle]
    /\ spent = [ops |-> 0, faults |-> 0]
    /\ relapsed = FALSE
    /\ alone \in Alone

-----------------------------------------------------------------------------
\* Configs and rules.

UsesWarp(rules) == \E r \in rules : r.act = "warp"

\* ensure_routing_supported, validate_outbound_tag.
Usable(w) == w.on /\ w.id # 0 /\ ~w.bad

\* sanitize_managed_fragment raises unless:
Loadable(rules, w) == UsesWarp(rules) => Usable(w)

\* Mutant: from a fresh config instead of the live one.
BuildFresh(base, rules, w) == [rev |-> 0, rules |-> rules, warp |-> IF w.on THEN w.id ELSE 0]

\* build_full_config: the clients of the base, everything else new.
Build(base, rules, w) ==
  [rev |-> IF base = None THEN 0 ELSE base.rev,
   rules |-> rules,
   warp |-> IF w.on THEN w.id ELSE 0]

Refers(rules) == {r.cat : r \in rules}
Offers(geo) == (CatsOf[geo.ip] \cap IpCats) \cup (CatsOf[geo.site] \cap SiteCats)

\* xray run -test: every category is in the files next to the config.
Accepts(config, geo) == Refers(config.rules) \subseteq Offers(geo)

\* What may come of an attempt that can succeed only if p.
Outcomes(p) == {ok \in BOOLEAN : (ok => p) /\ (p /\ ~ok => spent.faults < MaxFaults)}
Charge(p, ok) == spent' = IF p /\ ~ok THEN [spent EXCEPT !.faults = @ + 1] ELSE spent

-----------------------------------------------------------------------------
\* Candidates (the panel).

\* _user_rules_from_routing_state reads the buckets block, direct and warp; the
\* form fills block, direct4, direct6, warp4 and warp6.
UserRules(form) == {r \in form : r.part = "user" /\ r.act = "block"}

\* Repaired: every user rule.
AllUserRules(form) == {r \in form : r.part = "user"}

\* _smart_system_rules: an action it does not know (warp4) counts as direct;
\* a category of blocked sites or ads that is direct needs no rule.
SystemRules(form) ==
  {IF r.act = "warp" THEN [r EXCEPT !.act = "direct"] ELSE r :
     r \in {x \in form : x.part = "russia"}}
  \cup {r \in form : r.part = "blocked" /\ r.act = "block"}

TemplateRules(form) == {r \in form : r.part = "template"}

\* _template_system_rules, family transition and legacy state, in this order.
FamilyRules(p) ==
  IF Baseline[p] # {} THEN Baseline[p]
  ELSE IF policy # None THEN SystemRules(policy) \cup TemplateRules(policy)
  ELSE IF live.manifest # None /\ Family[live.manifest] # Family[p] THEN {}
  ELSE live.managed

Legacy(p) ==
  /\ Baseline[p] = {} /\ policy = None
  /\ live.manifest = None \/ Family[live.manifest] = Family[p]

\* _plan_routing_for_candidate.
Plan(p) == (IF policy = None THEN {} ELSE UserRules(policy)) \cup FamilyRules(p)

\* The rules that keep the plan from being applied; the legacy branch asks for
\* every category in use.
Blockers(p) ==
  (Refers(Plan(p))
     \cup (IF Legacy(p) /\ live.config # None THEN Refers(live.config.rules) ELSE {}))
  \ CatsOf[p]

MayStage ==
  /\ staging = None /\ spent.ops < MaxOps[alone]
  /\ alone => Quiet
  /\ Swaps \/ geoLock = None
  /\ spent' = [spent EXCEPT !.ops = @ + 1]

\* _atomic_candidate: the files, their report and the planned rules; policy is
\* the form applied when they were planned (only a property reads it).
NewCandidate(p) ==
  [pair |-> p, rules |-> Plan(p), ready |-> Blockers(p) = {}, policy |-> policy]

\* stage_pair: a new check invalidates the old candidate at once...
DropCandidate(p) ==
  /\ MayStage
  /\ staging' = p /\ geoCand' = None
  /\ UNCHANGED <<live, previous, policy, warp, service, routeCand, backups, geoLock, users, h,
                 relapsed, alone>>

\* ...the pair is fetched, validated and planned for; the privileged check
\* (geo.check) decides about ready.
PlaceCandidate ==
  /\ staging # None /\ (Swaps \/ geoLock = None)
  /\ LET p == staging
         possible == Legacy(p) => Loadable(Plan(p), warp) IN
     \E ok \in Outcomes(possible) :
       /\ geoCand' = IF ok THEN NewCandidate(p) ELSE None
       /\ Charge(possible, ok)
  /\ staging' = None
  /\ UNCHANGED <<disk, service, routeCand, backups, geoLock, users, h, relapsed, alone>>

\* The rules a form stages: an optional category (ads, blocked sites) that
\* the active files lack is left out.
Staged(form) ==
  {r \in form : r.part = "blocked" => r.cat \in Offers(live.geo)}

\* stage_smart_routing, stage_template: not ready when a required category or
\* WARP is missing (a template is then refused); user rules are not looked up.
StageRoute ==
  /\ spent.ops < MaxOps[alone] /\ (alone => Quiet)
  /\ \E form \in Forms :
       LET ready == /\ Loadable(Staged(form), warp)
                    /\ \A r \in Staged(form) : r.part # "user" => r.cat \in Offers(live.geo) IN
       /\ TemplateRules(form) # {} => ready
       /\ routeCand' = [form |-> form, rules |-> Staged(form), ready |-> ready]
  /\ spent' = [spent EXCEPT !.ops = @ + 1]
  /\ UNCHANGED <<disk, service, geoCand, staging, backups, geoLock, users, h, relapsed, alone>>

\* A client is created, changed or deleted in the database.
ChangeClients ==
  /\ users < MaxUsers /\ (alone => Quiet)
  /\ users' = users + 1
  /\ UNCHANGED <<disk, service, staged, backups, geoLock, h, spent, relapsed, alone>>

-----------------------------------------------------------------------------
\* Helpers.  An operation that has begun carries its locals:
\*   old   what it will put back when it fails      next  what it installs
\*   keep  WARP's files as they were                form  what becomes the policy
\*   was   service was running                      start everything as it was
\*                                                        (only properties read it)

State == [live |-> live, warp |-> warp, policy |-> policy]
Up == service # None

MayBegin(a) ==
  /\ ~Busy(a) /\ spent.ops < MaxOps[alone]
  /\ alone => Quiet

Started(a, op, at, next) ==
  [h EXCEPT ![a] = [op |-> op, at |-> at, old |-> live, next |-> next, keep |-> warp,
                    form |-> IF op = "route.apply" THEN routeCand.form ELSE None,
                    was |-> Up, start |-> State]]
Goto(a, at) == h' = [h EXCEPT ![a].at = at]
End(a) == h' = [h EXCEPT ![a] = Idle]

\* Begins op at a step, or ends it with an error, depending on an attempt that
\* needs p.
BeginIf(a, op, at, next, p) ==
  \E ok \in Outcomes(p) :
    /\ h' = IF ok THEN Started(a, op, at, next) ELSE [h EXCEPT ![a] = Idle]
    /\ spent' = [ops |-> spent.ops + 1,
                 faults |-> spent.faults + (IF p /\ ~ok THEN 1 ELSE 0)]

\* The service after systemctl start or restart.
Boot(ok) == service' = IF ok THEN [config |-> live.config, geo |-> live.geo] ELSE None
CanBoot == live.config # None /\ Accepts(live.config, live.geo)

\* root_validate_candidate.
CheckGeo(a) ==
  /\ MayBegin(a) /\ geoLock = None /\ staging = None
  /\ IF geoCand = None
     THEN /\ End(a) /\ UNCHANGED geoCand
          /\ spent' = [spent EXCEPT !.ops = @ + 1]
     ELSE LET good == /\ geoCand.ready /\ Loadable(geoCand.rules, warp)
                      /\ Refers(geoCand.rules) \subseteq CatsOf[geoCand.pair] IN
          \E ok \in Outcomes(good) :
            /\ geoCand' = [geoCand EXCEPT !.ready = ok]
            /\ End(a)
            /\ spent' = [ops |-> spent.ops + 1,
                         faults |-> spent.faults + (IF good /\ ~ok THEN 1 ELSE 0)]
  /\ UNCHANGED <<disk, service, routeCand, staging, backups, geoLock, users, relapsed, alone>>

\* Mutant: the lock is not waited for.
BeginGeoApplyUnlocked(a) ==
  /\ MayBegin(a) /\ geoCand # None /\ geoCand.ready
  /\ LET new == [geo |-> Files(geoCand.pair), manifest |-> geoCand.pair,
                 managed |-> geoCand.rules, config |-> Build(live.config, geoCand.rules, warp)] IN
     BeginIf(a, "geo.apply", "backup", new,
             Loadable(geoCand.rules, warp) /\ Accepts(new.config, new.geo))
  /\ geoLock' = IF h'[a].at = "idle" THEN geoLock ELSE a
  /\ UNCHANGED <<disk, service, staged, backups, users, relapsed, alone>>

\* root_apply_candidate up to the test of the whole config with the pair.
BeginGeoApply(a) ==
  /\ MayBegin(a) /\ geoLock = None /\ geoCand # None /\ geoCand.ready
  /\ LET new == [geo |-> Files(geoCand.pair), manifest |-> geoCand.pair,
                 managed |-> geoCand.rules, config |-> Build(live.config, geoCand.rules, warp)] IN
     BeginIf(a, "geo.apply", "backup", new,
             Loadable(geoCand.rules, warp) /\ Accepts(new.config, new.geo))
  /\ geoLock' = IF h'[a].at = "idle" THEN None ELSE a
  /\ UNCHANGED <<disk, service, staged, backups, users, relapsed, alone>>

\* root_rollback_latest up to the same test of the newest backup.
BeginGeoRollback(a) ==
  /\ MayBegin(a) /\ geoLock = None /\ geoBackup # None
  /\ LET kept == geoBackup.live
         config == IF kept.config = None THEN Build(live.config, kept.managed, warp) ELSE kept.config
     IN BeginIf(a, "geo.rollback", "backup", kept,
                /\ geoBackup.whole
                /\ kept.config = None => Loadable(kept.managed, warp)
                /\ Accepts(config, kept.geo))
  /\ geoLock' = IF h'[a].at = "idle" THEN None ELSE a
  /\ UNCHANGED <<disk, service, staged, backups, users, relapsed, alone>>

\* A backup that was not finished or not verified stays in its directory.
Unfinished == [whole |-> FALSE, live |-> live]

\* _backup_active.
BackUp(a) ==
  /\ h[a].at = "backup"
  /\ \E ok \in Outcomes(TRUE) :
       /\ Charge(TRUE, ok)
       /\ IF ok
          THEN /\ geoBackup' = [whole |-> TRUE, live |-> live]
               /\ h' = [h EXCEPT ![a].at = "stop", ![a].old = live, ![a].was = Up]
               /\ UNCHANGED geoLock
          ELSE /\ geoBackup' \in {geoBackup, Unfinished}
               /\ End(a) /\ geoLock' = None
  /\ UNCHANGED <<disk, service, staged, routeBackup, users, relapsed, alone>>

\* _stop_xray_for_switch.
StopXray(a) ==
  /\ h[a].at = "stop"
  /\ service' = IF h[a].was THEN None ELSE service
  /\ Goto(a, IF h[a].op = "geo.apply" THEN "ip" ELSE "restore")
  /\ UNCHANGED <<disk, staged, backups, geoLock, users, spent, relapsed, alone>>

\* The two copies of root_apply_candidate, from whatever the candidate
\* directory holds by then.
CopyIp(a) ==
  /\ h[a].at = "ip" /\ geoCand # None
  /\ live' = [live EXCEPT !.geo.ip = geoCand.pair]
  /\ Goto(a, "site")
  /\ UNCHANGED <<previous, policy, warp, service, staged, backups, geoLock, users, spent, relapsed, alone>>

CopySite(a) ==
  /\ h[a].at = "site" /\ geoCand # None
  /\ live' = [live EXCEPT !.geo.site = geoCand.pair]
  /\ Goto(a, "rules")
  /\ UNCHANGED <<previous, policy, warp, service, staged, backups, geoLock, users, spent, relapsed, alone>>

\* Mutant: config.json is left to the next clients.apply.
WriteManagedOnly(a) ==
  /\ h[a].at = "rules"
  /\ live' = [live EXCEPT !.managed = h[a].next.managed]
  /\ Goto(a, "start")
  /\ UNCHANGED <<previous, policy, warp, service, staged, backups, geoLock, users, spent, relapsed, alone>>

\* Managed routing and config.json; the latter only if there was one.
WriteRouting(a) ==
  /\ h[a].at = "rules"
  /\ live' = [live EXCEPT !.managed = h[a].next.managed,
                          !.config = IF h[a].old.config # None THEN h[a].next.config ELSE @]
  /\ Goto(a, "start")
  /\ UNCHANGED <<previous, policy, warp, service, staged, backups, geoLock, users, spent, relapsed, alone>>

\* _restore_backup on rollback copies one file, then the other and the rest;
\* files missing in the backup are removed.
RestoreIp(a) ==
  /\ h[a].at = "restore"
  /\ live' = [live EXCEPT !.geo.ip = h[a].next.geo.ip]
  /\ Goto(a, "restore site")
  /\ UNCHANGED <<previous, policy, warp, service, staged, backups, geoLock, users, spent, relapsed, alone>>

RestoreBackup(a) ==
  /\ h[a].at = "restore site"
  /\ live' = [h[a].next EXCEPT !.geo.ip = live.geo.ip]
  /\ Goto(a, "start")
  /\ UNCHANGED <<previous, policy, warp, service, staged, backups, geoLock, users, spent, relapsed, alone>>

\* _start_xray_after_switch, then the manifest or the answer.
StartXray(a) ==
  /\ h[a].at = "start"
  /\ LET boots == h[a].was /\ (h[a].op = "geo.apply" \/ live.config # None)
         next == IF h[a].op = "geo.apply" THEN "manifest" ELSE "done" IN
     IF ~boots THEN Goto(a, next) /\ UNCHANGED <<service, spent>>
     ELSE \E ok \in Outcomes(CanBoot) :
            /\ Charge(CanBoot, ok) /\ Boot(ok)
            /\ Goto(a, IF ok THEN next ELSE "undo")
  /\ UNCHANGED <<disk, staged, backups, geoLock, users, relapsed, alone>>

WriteManifest(a) ==
  /\ h[a].at = "manifest"
  /\ live' = [live EXCEPT !.manifest = h[a].next.manifest]
  /\ Goto(a, "done")
  /\ UNCHANGED <<previous, policy, warp, service, staged, backups, geoLock, users, spent, relapsed, alone>>

\* An operation answers "ok"; a GeoFiles operation closes its lock.  One that
\* answers "error" ends where it fails or in Revive.
Done(a) ==
  /\ h[a].at = "done"
  /\ End(a)
  /\ geoLock' = IF geoLock = a THEN None ELSE geoLock
  /\ UNCHANGED <<disk, service, staged, backups, users, spent, relapsed, alone>>

\* A step between the backup and the answer raises: disk full, no such
\* candidate any more, systemctl stop refused.
GeoBreaks(a) ==
  /\ h[a].at \in {"stop", "ip", "site", "rules", "restore", "restore site", "manifest"}
  /\ \/ /\ spent.faults < MaxFaults /\ spent' = [spent EXCEPT !.faults = @ + 1]
     \/ h[a].at \in {"ip", "site"} /\ geoCand = None /\ UNCHANGED spent
  /\ Goto(a, "undo")
  /\ UNCHANGED <<disk, service, staged, backups, geoLock, users, relapsed, alone>>

-----------------------------------------------------------------------------
\* Routing templates and forms (templates.py), WARP (warp_helper.py).

\* root_apply_candidate of templates.py: test, then back up both files.
BeginRouteApply(a) ==
  /\ MayBegin(a) /\ routeCand # None /\ routeCand.ready
  /\ LET new == [live EXCEPT !.managed = routeCand.rules,
                             !.config = Build(live.config, routeCand.rules, warp)]
         good == Loadable(routeCand.rules, warp) /\ Accepts(new.config, live.geo) IN
     /\ BeginIf(a, "route.apply", "write", new, good)
     /\ routeBackup' = IF h'[a].at = "idle" THEN routeBackup
                       ELSE [managed |-> live.managed, config |-> live.config]
  /\ UNCHANGED <<disk, service, staged, geoBackup, geoLock, users, relapsed, alone>>

\* root_rollback_latest of templates.py; the same backup is restored every time.
BeginRouteRollback(a) ==
  /\ MayBegin(a) /\ routeBackup # None
  /\ spent' = [spent EXCEPT !.ops = @ + 1]
  /\ LET back == [live EXCEPT !.managed = routeBackup.managed, !.config = routeBackup.config] IN
     IF Loadable(back.managed, warp)
     THEN /\ live' = [live EXCEPT !.managed = back.managed]
          /\ h' = Started(a, "route.rollback", "test", back)
     ELSE /\ h' = Started(a, "route.rollback", "undo", back)
          /\ UNCHANGED live
  /\ UNCHANGED <<previous, policy, warp, service, staged, backups, geoLock, users, relapsed, alone>>

\* The backup's config is tested after the managed file was written.
TestRouteBackup(a) ==
  /\ h[a].at = "test"
  /\ IF h[a].next.config = None
     THEN Goto(a, "done") /\ UNCHANGED spent
     ELSE LET good == Accepts(h[a].next.config, live.geo) IN
          \E ok \in Outcomes(good) : Charge(good, ok) /\ Goto(a, IF ok THEN "write" ELSE "undo")
  /\ UNCHANGED <<disk, service, staged, backups, geoLock, users, relapsed, alone>>

\* A config is written only where there was one (apply) or the backup has one.
WriteRoute(a) ==
  /\ h[a].at = "write" /\ h[a].op \in RouteOps
  /\ live' = [live EXCEPT !.managed = h[a].next.managed,
                !.config = IF h[a].op = "route.rollback" \/ h[a].old.config # None
                           THEN h[a].next.config ELSE @]
  /\ Goto(a, "restart")
  /\ UNCHANGED <<previous, policy, warp, service, staged, backups, geoLock, users, spent, relapsed, alone>>

\* install and recreate test the new profile before anything is changed.
NewProfile == [on |-> TRUE, id |-> (warp.id % 2) + 1, bad |-> FALSE]

BeginWarpCreate(a, op) ==
  /\ op \in {"warp.install", "warp.recreate"}
  /\ MayBegin(a)
  /\ IF op = "warp.install" /\ warp.id # 0 /\ warp.on
     THEN End(a) /\ spent' = [spent EXCEPT !.ops = @ + 1]
     ELSE IF op = "warp.install" /\ warp.id # 0
     THEN h' = Started(a, "warp.enable", "save", live) /\ spent' = [spent EXCEPT !.ops = @ + 1]
     ELSE BeginIf(a, op, "save", live,
            /\ Loadable(live.managed, NewProfile)
            /\ Accepts(Build(live.config, live.managed, NewProfile), live.geo))
  /\ UNCHANGED <<disk, service, staged, backups, geoLock, users, relapsed, alone>>

\* Mutant: managed rules are not looked at.
BeginWarpSwitchUnguarded(a, op) ==
  /\ op \in {"warp.enable", "warp.disable", "warp.remove"}
  /\ MayBegin(a)
  /\ spent' = [spent EXCEPT !.ops = @ + 1]
  /\ IF op = "warp.enable" => warp.id # 0
     THEN h' = Started(a, op, "save", live)
     ELSE End(a)
  /\ UNCHANGED <<disk, service, staged, backups, geoLock, users, relapsed, alone>>

\* _apply_enabled_state and remove up to the state file: WARP is not switched
\* off while managed rules use it.
BeginWarpSwitch(a, op) ==
  /\ op \in {"warp.enable", "warp.disable", "warp.remove"}
  /\ MayBegin(a)
  /\ spent' = [spent EXCEPT !.ops = @ + 1]
  /\ IF IF op = "warp.enable" THEN warp.id # 0
        ELSE Loadable(live.managed, warp) /\ ~UsesWarp(live.managed)
     THEN h' = Started(a, op, "save", live)
     ELSE End(a)
  /\ UNCHANGED <<disk, service, staged, backups, geoLock, users, relapsed, alone>>

\* save_state, and the new profile's files.
SaveWarp(a) ==
  /\ h[a].at = "save"
  /\ warp' = IF h[a].op \in {"warp.install", "warp.recreate"} THEN NewProfile
             ELSE [warp EXCEPT !.on = h[a].op = "warp.enable"]
  /\ Goto(a, "write")
  /\ UNCHANGED <<live, previous, policy, service, staged, backups, geoLock, users, spent, relapsed, alone>>

\* build_full_config, xray_test_config, apply_full_config up to the restart.
WriteWarp(a) ==
  /\ h[a].at = "write" /\ h[a].op \in WarpOps
  /\ LET rules == IF h[a].op \in {"warp.disable", "warp.remove"} THEN h[a].next.managed
                  ELSE live.managed
         config == Build(live.config, rules, warp)
         good == Loadable(rules, warp) /\ Accepts(config, live.geo) IN
     \E ok \in Outcomes(good) :
       /\ Charge(good, ok)
       /\ live' = IF ok THEN [live EXCEPT !.config = config] ELSE live
       /\ Goto(a, IF ok THEN "restart" ELSE "undo")
  /\ UNCHANGED <<previous, policy, warp, service, staged, backups, geoLock, users, relapsed, alone>>

\* Mutant: the service is left running as it is.
RestartLater(a) ==
  /\ h[a].at = "restart" /\ h[a].op \in RouteOps \cup WarpOps
  /\ Goto(a, CASE h[a].op = "route.apply" -> "policy"
               [] h[a].op = "warp.remove" -> "unlink"
               [] OTHER -> "done")
  /\ UNCHANGED <<disk, service, staged, backups, geoLock, users, spent, relapsed, alone>>

\* restart_xray; the form becomes the policy, a removed profile is unlinked.
RestartXray(a) ==
  /\ h[a].at = "restart" /\ h[a].op \in RouteOps \cup WarpOps
  /\ LET boots == IF h[a].op \in WarpOps THEN Up
                  ELSE h[a].was /\ (h[a].op = "route.apply" => h[a].old.config # None)
         next == CASE h[a].op = "route.apply" -> "policy"
                   [] h[a].op = "warp.remove" -> "unlink"
                   [] OTHER -> "done" IN
     IF ~boots THEN Goto(a, next) /\ UNCHANGED <<service, spent>>
     ELSE \E ok \in Outcomes(CanBoot) :
            /\ Charge(CanBoot, ok) /\ Boot(ok)
            /\ Goto(a, IF ok THEN next ELSE "undo")
  /\ UNCHANGED <<disk, staged, backups, geoLock, users, relapsed, alone>>

\* Mutant: the rules are saved instead of the form.
WriteRulesAsPolicy(a) ==
  /\ h[a].at = "policy"
  /\ policy' = h[a].next.managed
  /\ Goto(a, "done")
  /\ UNCHANGED <<live, previous, warp, service, staged, backups, geoLock, users, spent, relapsed, alone>>

\* active-managed.json is written after the try: a write that fails is answered
\* "error", and nothing is undone.
WritePolicy(a) ==
  /\ h[a].at = "policy"
  /\ \E ok \in Outcomes(TRUE) :
       /\ Charge(TRUE, ok)
       /\ policy' = IF ok THEN h[a].form ELSE policy
       /\ IF ok THEN Goto(a, "done") ELSE End(a)
  /\ UNCHANGED <<live, previous, warp, service, staged, backups, geoLock, users, relapsed, alone>>

Unlink(a) ==
  /\ h[a].at = "unlink"
  /\ warp' = [on |-> FALSE, id |-> 0, bad |-> FALSE]
  /\ Goto(a, "done")
  /\ UNCHANGED <<live, previous, policy, service, staged, backups, geoLock, users, spent, relapsed, alone>>

\* A file of a route or WARP operation cannot be written or removed.
FilesBreak(a) ==
  /\ h[a].at \in {"write", "save", "unlink"}
  /\ spent.faults < MaxFaults /\ spent' = [spent EXCEPT !.faults = @ + 1]
  /\ Goto(a, "undo")
  /\ UNCHANGED <<disk, service, staged, backups, geoLock, users, relapsed, alone>>

\* set_last_test.
LastTest(bad) == [warp EXCEPT !.bad = bad]

\* warp.test records its result and changes nothing else; a profile that has
\* failed is not loadable from then on.
TestWarp(a) ==
  /\ MayBegin(a) /\ warp.id # 0
  /\ \E bad \in BOOLEAN :
       /\ warp' = LastTest(bad)
       /\ End(a)
  /\ spent' = [spent EXCEPT !.ops = @ + 1]
  /\ UNCHANGED <<live, previous, policy, service, staged, backups, geoLock, users, relapsed, alone>>

-----------------------------------------------------------------------------
\* What the except clauses put back.

\* _restore_backup again: the first file.
UndoIp(a) ==
  /\ h[a].at = "undo" /\ h[a].op \in GeoOps
  /\ live' = [live EXCEPT !.geo.ip = h[a].old.geo.ip]
  /\ Goto(a, "undo site")
  /\ UNCHANGED <<previous, policy, warp, service, staged, backups, geoLock, users, spent, relapsed, alone>>

\* Where an operation puts back what it can in one go.
UndoStep(op) == IF op \in GeoOps THEN "undo site" ELSE "undo"

\* Mutant: the config stays, as when only the files were put back.
UndoKeepingConfig(a) ==
  /\ h[a].at = UndoStep(h[a].op)
  /\ LET old == h[a].old IN
     live' = IF h[a].op \in GeoOps THEN [old EXCEPT !.geo.ip = live.geo.ip, !.config = live.config]
             ELSE [live EXCEPT !.managed = old.managed]
  /\ warp' = IF h[a].op \in WarpOps THEN h[a].keep ELSE warp
  /\ Goto(a, "revive")
  /\ UNCHANGED <<previous, policy, service, staged, backups, geoLock, users, spent, relapsed, alone>>

\* geofiles puts back its whole backup, templates both files, warp_helper its
\* own files and config.json.
Undo(a) ==
  /\ h[a].at = UndoStep(h[a].op)
  /\ LET old == h[a].old IN
     live' = CASE h[a].op \in GeoOps -> [old EXCEPT !.geo.ip = live.geo.ip]
               [] h[a].op \in RouteOps -> [live EXCEPT !.managed = old.managed, !.config = old.config]
               [] OTHER -> [live EXCEPT !.config = old.config]
  /\ warp' = IF h[a].op \in WarpOps THEN h[a].keep ELSE warp
  /\ Goto(a, "revive")
  /\ UNCHANGED <<previous, policy, service, staged, backups, geoLock, users, spent, relapsed, alone>>

\* The former service is started again if it ran; whether that worked does not
\* matter to the answer.
Revive(a) ==
  /\ h[a].at = "revive"
  /\ IF h[a].op = "clients" \/ (h[a].was /\ live.config # None)
     THEN \E ok \in Outcomes(CanBoot) : Charge(CanBoot, ok) /\ Boot(ok)
     ELSE UNCHANGED <<service, spent>>
  /\ End(a)
  /\ geoLock' = IF geoLock = a THEN None ELSE geoLock
  /\ UNCHANGED <<disk, staged, backups, users, relapsed, alone>>

-----------------------------------------------------------------------------
\* clients.apply: _load_managed_routing and _apply_xray.

BeginClients(a) ==
  /\ MayBegin(a)
  /\ LET new == [live EXCEPT !.config = [Build(live.config, live.managed, warp) EXCEPT !.rev = users]]
         good == Loadable(live.managed, warp) /\ Accepts(new.config, live.geo) IN
     \E ok \in Outcomes(good) :
       /\ spent' = [ops |-> spent.ops + 1, faults |-> spent.faults + (IF good /\ ~ok THEN 1 ELSE 0)]
       /\ h' = Started(a, "clients", IF ok THEN "install" ELSE "relapse", new)
  /\ UNCHANGED <<disk, service, staged, backups, geoLock, users, relapsed, alone>>

InstallClients(a) ==
  /\ h[a].at = "install"
  /\ previous' = live.config
  /\ live' = [live EXCEPT !.config = h[a].next.config]
  /\ Goto(a, "restart")
  /\ UNCHANGED <<policy, warp, service, staged, backups, geoLock, users, spent, relapsed, alone>>

RestartClients(a) ==
  /\ h[a].at = "restart" /\ h[a].op = "clients"
  /\ \E ok \in Outcomes(CanBoot) :
       /\ Charge(CanBoot, ok) /\ Boot(ok)
       /\ Goto(a, IF ok THEN "done" ELSE "relapse")
  /\ UNCHANGED <<disk, staged, backups, geoLock, users, relapsed, alone>>

\* The except handler of _apply_xray: config.json.previous, whatever it is;
\* without one a config that was not there before is removed.
Relapse(a) ==
  /\ h[a].at = "relapse"
  /\ live' = IF previous # None THEN [live EXCEPT !.config = previous]
             ELSE IF h[a].old.config = None THEN [live EXCEPT !.config = None]
             ELSE live
  /\ relapsed' = (relapsed \/ live'.config # h[a].old.config)
  /\ IF previous # None THEN Goto(a, "revive") /\ UNCHANGED service
     ELSE /\ End(a)
          /\ service' = IF h[a].old.config = None THEN None ELSE service
  /\ UNCHANGED <<previous, policy, warp, staged, backups, geoLock, users, spent, alone>>

\* A helper that ran into sg-hostd's timeout is killed where it stands.
Kill(a) ==
  /\ Busy(a) /\ h[a].at \in Kills /\ h[a].op # "clients"
  /\ spent.faults < MaxFaults /\ spent' = [spent EXCEPT !.faults = @ + 1]
  /\ h' = [h EXCEPT ![a] = Idle]
  /\ geoLock' = IF geoLock = a THEN None ELSE geoLock
  /\ geoBackup' = IF h[a].at = "backup" THEN Unfinished ELSE geoBackup
  /\ UNCHANGED <<disk, service, staged, routeBackup, users, relapsed, alone>>

Begin(a) ==
  \/ CheckGeo(a) \/ BeginGeoApply(a) \/ BeginGeoRollback(a)
  \/ BeginRouteApply(a) \/ BeginRouteRollback(a)
  \/ \E op \in WarpOps : BeginWarpCreate(a, op) \/ BeginWarpSwitch(a, op)
  \/ TestWarp(a) \/ BeginClients(a)

Continue(a) ==
  \/ BackUp(a) \/ StopXray(a) \/ CopyIp(a) \/ CopySite(a) \/ WriteRouting(a)
  \/ RestoreIp(a) \/ RestoreBackup(a) \/ StartXray(a) \/ WriteManifest(a) \/ GeoBreaks(a)
  \/ TestRouteBackup(a) \/ WriteRoute(a) \/ SaveWarp(a) \/ WriteWarp(a)
  \/ RestartXray(a) \/ WritePolicy(a) \/ Unlink(a) \/ FilesBreak(a)
  \/ UndoIp(a) \/ Undo(a) \/ Revive(a)
  \/ InstallClients(a) \/ RestartClients(a) \/ Relapse(a) \/ Done(a)

Next ==
  \/ \E a \in Helpers : Begin(a) \/ Continue(a) \/ Kill(a)
  \/ \E p \in Pairs : DropCandidate(p)
  \/ PlaceCandidate
  \/ StageRoute
  \/ ChangeClients

Spec == Init /\ [][Next]_vars

-----------------------------------------------------------------------------
\* Properties.

GeoFiles == [ip : Pairs, site : Pairs]
Config == [rev : 0..MaxUsers, rules : SUBSET Rule, warp : 0..2]
ASSUME MarkerAssumption == None \notin Config    \* no config is not a config
Live == [geo : GeoFiles, manifest : Pairs \cup {None}, managed : SUBSET Rule, config : Config \cup {None}]
Warp == [on : BOOLEAN, id : 0..2, bad : BOOLEAN]
Steps == {"backup", "stop", "ip", "site", "rules", "restore", "restore site", "start", "manifest",
          "test", "write", "restart", "save", "policy", "unlink", "undo", "undo site", "revive",
          "install", "relapse", "done"}

\* The types of the files, the candidates, the backups and the helpers' locals.
TypeOK ==
  /\ live \in Live /\ warp \in Warp
  /\ previous \in Config \cup {None}
  /\ policy \in Forms \cup {None}
  /\ service \in [config : Config, geo : GeoFiles] \cup {None}
  /\ geoCand \in [pair : Pairs, rules : SUBSET Rule, ready : BOOLEAN,
                policy : Forms \cup {None}] \cup {None}
  /\ routeCand \in [form : Forms, rules : SUBSET Rule, ready : BOOLEAN] \cup {None}
  /\ staging \in Pairs \cup {None}
  /\ geoBackup \in [whole : BOOLEAN, live : Live] \cup {None}
  /\ routeBackup \in [managed : SUBSET Rule, config : Config \cup {None}] \cup {None}
  /\ geoLock \in Helpers \cup {None}
  /\ users \in 0..MaxUsers
  /\ h \in [Helpers -> [op : {"none"}, at : {"idle"}]
                \cup [op : Ops, at : Steps, old : Live, next : Live, keep : Warp,
                      form : Forms \cup {None}, was : BOOLEAN,
                      start : [live : Live, warp : Warp, policy : Forms \cup {None}]]]
  /\ spent \in [ops : 0..MaxOps[alone], faults : 0..MaxFaults]
  /\ relapsed \in BOOLEAN /\ alone \in BOOLEAN

AtRest == alone /\ \A a \in Helpers : ~Busy(a)

\* Operations one at a time, whatever fails: the config.json they leave uses
\* only categories of the GeoFiles they leave, so that Xray can be started, and
\* its rules are the managed ones.  Only clients.apply's own failure may bring
\* an older config back.
RulesInForce ==
  AtRest /\ ~relapsed /\ live.config # None
    => Accepts(live.config, live.geo) /\ live.config.rules = live.managed

\* _active_report: the source is the one of the manifest, the categories those of
\* the installed files.
ActiveReport == [source |-> live.manifest, categories |-> Offers(live.geo)]

\* ...a running Xray was started from the config and the files on disk, and the
\* source the panel names is the one of these files.
ServedIsInstalled ==
  AtRest => /\ Up => service = [config |-> live.config, geo |-> live.geo]
            /\ ActiveReport.source # None => ActiveReport.categories = CatsOf[ActiveReport.source]

\* What a route.apply that cannot save its form leaves behind: its rules, in
\* force, under the form of the last one.
AppliedUnsaved(o) ==
  [o.start EXCEPT !.live.managed = o.next.managed,
                  !.live.config = IF @ = None THEN None ELSE o.next.config]

\* A GeoFiles, routing or WARP operation that reports an error has left both
\* files, the rules, config.json, WARP and the saved form as they were; but a
\* route.apply that fails at its last write has applied everything else.
FailedOperationChangesNothing ==
  [][\A a \in Helpers :
       (alone /\ Busy(a) /\ h[a].op # "clients" /\ h[a].at # "done" /\ h'[a].at = "idle")
         => State' = IF h[a].at = "policy" THEN AppliedUnsaved(h[a]) ELSE h[a].start]_vars

\* Managed rules that clients.apply can load stay so: WARP is not taken away
\* from under them.  Only a failed warp.test, the restore of an old GeoFiles
\* backup and the undoing of an operation (see above) do that.
RulesStayLoadable ==
  [][(alone /\ Loadable(live.managed, warp) /\ ~Loadable(live.managed, warp)')
       => \/ warp'.bad
          \/ \E a \in Helpers : h[a].at \in {"restore site", "undo", "undo site"}]_vars

\* Clients that config.json serves disappear from it only when an older config
\* is restored: building routing or WARP into it keeps them.
ClientsKept ==
  [][(alone /\ live.config # None /\ live'.config # None /\ live'.config.rev < live.config.rev)
       => \E a \in Helpers : h[a].op \in {"geo.rollback", "route.rollback"} \/ h[a].at = "relapse"]_vars

\* Whatever overlaps: geoip.dat and geosite.dat are from one source unless the
\* lock's holder is between two copies or has yet to undo them.
PairTogether ==
  live.geo.ip = live.geo.site
    \/ \E a \in Helpers : geoLock = a /\ h[a].at \in {"site", "restore site", "undo", "undo site"}

\* A finished backup never holds one file of each source.
BackupsAreWhole ==
  geoBackup # None /\ geoBackup.whole => geoBackup.live.geo.ip = geoBackup.live.geo.site

\* docs/ROUTING.md, what SG-Gateway does by itself, 4: a GeoFiles update keeps
\* user rules, neither removed nor rewritten (5: or is refused).
UserRulesKept ==
  \A a \in Helpers :
    (alone /\ h[a].op = "geo.apply" /\ h[a].at = "done" /\ policy # None /\ geoCand.policy = policy)
      => AllUserRules(policy) \subseteq live.managed
=============================================================================
