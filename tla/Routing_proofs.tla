--------------------------- MODULE Routing_proofs ---------------------------
(***************************************************************************)
(* Theorems about Routing: its types; that geoip.dat and geosite.dat stay  *)
(* from one source, in the asset directory and in every finished backup,   *)
(* whatever operations overlap; and, for operations that wait for one      *)
(* another, what is in force and served between them and what a failed one *)
(* leaves behind (the invariant InTurn).                                   *)
(***************************************************************************)
EXTENDS Routing, TLAPS

Locals == [op : Ops, at : Steps, old : Live, next : Live, keep : Warp,
           form : Forms \cup {None}, was : BOOLEAN,
           start : [live : Live, warp : Warp, policy : Forms \cup {None}]]
HelperStates == [op : {"none"}, at : {"idle"}] \cup Locals
Candidates == [pair : Pairs, rules : SUBSET Rule, ready : BOOLEAN, policy : Forms \cup {None}]
RouteCandidates == [form : Forms, rules : SUBSET Rule, ready : BOOLEAN]
Counters == [ops : 0..MaxOps[alone], faults : 0..MaxFaults]

\* A helper that is busy has all its locals.
LEMMA BusyLocals ==
  ASSUME h \in [Helpers -> HelperStates], NEW a \in Helpers, h[a].at # "idle"
  PROVE  h[a] \in Locals
BY DEF HelperStates

LEMMA GotoType ==
  ASSUME h \in [Helpers -> HelperStates], NEW a \in Helpers, h[a].at # "idle",
         NEW s \in Steps, Goto(a, s)
  PROVE  h' \in [Helpers -> HelperStates]
<1>1. h[a] \in Locals
  BY BusyLocals
<1>2. [h[a] EXCEPT !.at = s] \in Locals
  BY <1>1 DEF Locals
<1> QED BY <1>2 DEF Goto, HelperStates

LEMMA EndType ==
  ASSUME h \in [Helpers -> HelperStates], NEW a \in Helpers, End(a)
  PROVE  h' \in [Helpers -> HelperStates] /\ h'[a].at = "idle"
BY DEF End, Idle, HelperStates

LEMMA StartedType ==
  ASSUME TypeOK, NEW a \in Helpers, NEW op \in Ops, NEW at \in Steps, NEW next \in Live,
         op = "route.apply" => routeCand # None
  PROVE  Started(a, op, at, next) \in [Helpers -> HelperStates]
<1> DEFINE new == [op |-> op, at |-> at, old |-> live, next |-> next, keep |-> warp,
                   form |-> IF op = "route.apply" THEN routeCand.form ELSE None,
                   was |-> Up, start |-> State]
<1>1. (IF op = "route.apply" THEN routeCand.form ELSE None) \in Forms \cup {None}
  BY DEF TypeOK
<1>2. State \in [live : Live, warp : Warp, policy : Forms \cup {None}]
  BY DEF State, TypeOK
<1>3. Up \in BOOLEAN
  BY DEF Up
<1>4. new \in Locals
  BY <1>1, <1>2, <1>3 DEF TypeOK, Locals
<1> QED BY <1>4 DEF Started, TypeOK, HelperStates, Locals

-----------------------------------------------------------------------------
\* The operators configs and candidates are built with.
LEMMA BuildType ==
  ASSUME NEW base \in Config \cup {None}, NEW rules \in SUBSET Rule, NEW w \in Warp
  PROVE  Build(base, rules, w) \in Config
BY RoutingAssumption DEF Build, Config, Warp

LEMMA PlanType ==
  ASSUME TypeOK, NEW p \in Pairs
  PROVE  Plan(p) \in SUBSET Rule
<1>1. ASSUME NEW r \in Rule PROVE [r EXCEPT !.act = "direct"] \in Rule
  BY DEF Rule, Acts
<1>2. ASSUME policy # None PROVE policy \subseteq Rule
  BY <1>2, RoutingAssumption DEF TypeOK
<1>3. policy # None => SystemRules(policy) \subseteq Rule
  BY <1>1, <1>2 DEF SystemRules
<1>4. policy # None => UserRules(policy) \subseteq Rule /\ TemplateRules(policy) \subseteq Rule
  BY <1>2 DEF UserRules, TemplateRules
<1>5. Baseline[p] \subseteq Rule /\ live.managed \subseteq Rule
  BY RoutingAssumption DEF TypeOK, Live
<1> QED BY <1>3, <1>4, <1>5 DEF Plan, FamilyRules

LEMMA HelpersType == TypeOK => h \in [Helpers -> HelperStates]
BY DEF TypeOK, HelperStates, Locals

\* What is left to show when the helpers and the counters are dealt with.
DiskOK ==
  /\ live \in Live /\ warp \in Warp
  /\ previous \in Config \cup {None}
  /\ policy \in Forms \cup {None}
  /\ service \in [config : Config, geo : GeoFiles] \cup {None}
StagedOK ==
  /\ geoCand \in Candidates \cup {None}
  /\ routeCand \in RouteCandidates \cup {None}
  /\ staging \in Pairs \cup {None}
BackupsOK ==
  /\ geoBackup \in [whole : BOOLEAN, live : Live] \cup {None}
  /\ routeBackup \in [managed : SUBSET Rule, config : Config \cup {None}] \cup {None}

LEMMA TypeParts ==
  TypeOK <=> /\ DiskOK /\ StagedOK /\ BackupsOK
             /\ geoLock \in Helpers \cup {None} /\ users \in 0..MaxUsers
             /\ h \in [Helpers -> HelperStates]
             /\ spent \in Counters
             /\ relapsed \in BOOLEAN /\ alone \in BOOLEAN
BY DEF TypeOK, DiskOK, StagedOK, BackupsOK, HelperStates, Locals, Candidates, RouteCandidates,
       Counters

LEMMA TypePartsNext ==
  /\ DiskOK' /\ StagedOK' /\ BackupsOK'
  /\ (geoLock \in Helpers \cup {None})' /\ (users \in 0..MaxUsers)'
  /\ h' \in [Helpers -> HelperStates]
  /\ spent' \in Counters'
  /\ (relapsed \in BOOLEAN)' /\ (alone \in BOOLEAN)'
  => TypeOK'
BY DEF TypeOK, DiskOK, StagedOK, BackupsOK, HelperStates, Locals, Candidates, RouteCandidates,
       Counters

LEMMA SameParts ==
  /\ DiskOK /\ UNCHANGED <<disk, service>> => DiskOK'
  /\ StagedOK /\ UNCHANGED staged => StagedOK'
  /\ BackupsOK /\ UNCHANGED backups => BackupsOK'
BY DEF DiskOK, StagedOK, BackupsOK, disk, staged, backups

\* An operation or a fault is counted only below its bound.
LEMMA CountOp ==
  ASSUME spent \in Counters, spent.ops < MaxOps[alone], alone \in BOOLEAN, UNCHANGED alone,
         NEW f \in {0, 1}, f = 1 => spent.faults < MaxFaults,
         spent' = [ops |-> spent.ops + 1, faults |-> spent.faults + f]
  PROVE  spent' \in Counters'
BY RoutingAssumption DEF Counters

LEMMA CountOnlyOp ==
  ASSUME spent \in Counters, spent.ops < MaxOps[alone], alone \in BOOLEAN, UNCHANGED alone,
         spent' = [spent EXCEPT !.ops = @ + 1]
  PROVE  spent' \in Counters'
BY RoutingAssumption DEF Counters

LEMMA CountFault ==
  ASSUME spent \in Counters, spent.faults < MaxFaults, alone \in BOOLEAN, UNCHANGED alone,
         spent' = [spent EXCEPT !.faults = @ + 1]
  PROVE  spent' \in Counters'
BY RoutingAssumption DEF Counters

LEMMA CountSame ==
  ASSUME spent \in Counters, UNCHANGED <<spent, alone>>
  PROVE  spent' \in Counters'
BY DEF Counters

LEMMA ChargeType ==
  ASSUME spent \in Counters, alone \in BOOLEAN, UNCHANGED alone,
         NEW p, NEW ok \in Outcomes(p), Charge(p, ok)
  PROVE  spent' \in Counters'
<1>1. CASE p /\ ~ok
  BY <1>1, CountFault DEF Charge, Outcomes
<1>2. CASE ~(p /\ ~ok)
  BY <1>2, CountSame DEF Charge
<1> QED BY <1>1, <1>2

LEMMA BeginIfType ==
  ASSUME TypeOK, UNCHANGED alone, spent.ops < MaxOps[alone],
         NEW a \in Helpers, NEW op \in Ops, NEW at \in Steps, NEW next \in Live,
         op = "route.apply" => routeCand # None,
         NEW p, BeginIf(a, op, at, next, p)
  PROVE  /\ h' \in [Helpers -> HelperStates]
         /\ spent' \in Counters'
         /\ \/ p /\ h' = Started(a, op, at, next)
            \/ h' = [h EXCEPT ![a] = Idle]
<1>1. PICK ok \in Outcomes(p) :
        /\ h' = IF ok THEN Started(a, op, at, next) ELSE [h EXCEPT ![a] = Idle]
        /\ spent' = [ops |-> spent.ops + 1, faults |-> spent.faults + (IF p /\ ~ok THEN 1 ELSE 0)]
  BY DEF BeginIf
<1>2. spent' \in Counters'
  <2>1. CASE p /\ ~ok
    BY <1>1, <2>1, CountOp, TypeParts DEF Outcomes
  <2>2. CASE ~(p /\ ~ok)
    BY <1>1, <2>2, CountOp, TypeParts
  <2> QED BY <2>1, <2>2
<1>3. CASE ok
  <2>1. p
    BY <1>3 DEF Outcomes
  <2> QED BY <1>1, <1>2, <1>3, <2>1, StartedType
<1>4. CASE ~ok
  <2>1. End(a)
    BY <1>1, <1>4 DEF End
  <2> QED BY <1>1, <1>2, <1>4, <2>1, EndType, HelpersType
<1>5. ok \in BOOLEAN
  BY DEF Outcomes
<1> QED BY <1>3, <1>4, <1>5

-----------------------------------------------------------------------------
\* Every action keeps the types.  First the panel's.
LEMMA PanelType ==
  ASSUME TypeOK, (\E p \in Pairs : DropCandidate(p)) \/ PlaceCandidate \/ StageRoute \/ ChangeClients
  PROVE  TypeOK'
<1> USE TypeParts, TypePartsNext, SameParts, HelpersType
<1>1. ASSUME NEW p \in Pairs, DropCandidate(p) PROVE TypeOK'
  <2>1. StagedOK'
    BY <1>1 DEF DropCandidate, StagedOK
  <2> QED BY <1>1, <2>1, CountOnlyOp DEF DropCandidate, MayStage, disk, backups
<1>2. CASE PlaceCandidate
  <2> DEFINE possible == Legacy(staging) => Loadable(Plan(staging), warp)
  <2>1. PICK ok \in Outcomes(possible) :
          /\ geoCand' = IF ok THEN NewCandidate(staging) ELSE None
          /\ Charge(possible, ok)
    BY <1>2 DEF PlaceCandidate
  <2>2. spent' \in Counters'
    BY <1>2, <2>1, ChargeType DEF PlaceCandidate
  <2>3. staging \in Pairs
    BY <1>2 DEF PlaceCandidate, StagedOK
  <2>4. NewCandidate(staging) \in Candidates
    BY <2>3, PlanType DEF NewCandidate, Candidates, DiskOK
  <2>5. StagedOK'
    BY <1>2, <2>1, <2>4 DEF PlaceCandidate, StagedOK
  <2> QED BY <1>2, <2>2, <2>5 DEF PlaceCandidate, disk, backups
<1>3. CASE StageRoute
  <2>1. ASSUME NEW form \in Forms PROVE Staged(form) \in SUBSET Rule
    BY RoutingAssumption DEF Staged
  <2>2. StagedOK'
    BY <1>3, <2>1 DEF StageRoute, StagedOK, RouteCandidates
  <2> QED BY <1>3, <2>2, CountOnlyOp DEF StageRoute, disk, backups
<1>4. CASE ChangeClients
  BY <1>4, CountSame, RoutingAssumption DEF ChangeClients, disk, backups, staged
<1> QED BY <1>1, <1>2, <1>3, <1>4

\* Beginning an operation.
LEMMA BeginGeoType ==
  ASSUME TypeOK, NEW a \in Helpers, CheckGeo(a) \/ BeginGeoApply(a) \/ BeginGeoRollback(a)
  PROVE  TypeOK'
<1> USE TypeParts, TypePartsNext, SameParts, HelpersType
<1>1. CASE CheckGeo(a)
  <2>1. CASE geoCand = None
    BY <1>1, <2>1, EndType, CountOnlyOp DEF CheckGeo, MayBegin, disk, StagedOK
  <2>2. CASE geoCand # None
    <3> DEFINE good == /\ geoCand.ready /\ Loadable(geoCand.rules, warp)
                       /\ Refers(geoCand.rules) \subseteq CatsOf[geoCand.pair]
    <3>1. PICK ok \in Outcomes(good) :
            /\ geoCand' = [geoCand EXCEPT !.ready = ok]
            /\ End(a)
            /\ spent' = [ops |-> spent.ops + 1,
                         faults |-> spent.faults + (IF good /\ ~ok THEN 1 ELSE 0)]
      BY <1>1, <2>2 DEF CheckGeo
    <3>2. spent' \in Counters'
      <4>1. CASE good /\ ~ok
        BY <1>1, <3>1, <4>1, CountOp DEF Outcomes, CheckGeo, MayBegin
      <4>2. CASE ~(good /\ ~ok)
        BY <1>1, <3>1, <4>2, CountOp DEF CheckGeo, MayBegin
      <4> QED BY <4>1, <4>2
    <3>3. ok \in BOOLEAN
      BY DEF Outcomes
    <3>4. geoCand' \in Candidates
      BY <2>2, <3>1, <3>3 DEF StagedOK, Candidates
    <3> QED BY <1>1, <3>1, <3>2, <3>4, EndType DEF CheckGeo, disk, StagedOK
  <2> QED BY <2>1, <2>2
<1>2. CASE BeginGeoApply(a)
  <2> DEFINE new == [geo |-> Files(geoCand.pair), manifest |-> geoCand.pair,
                     managed |-> geoCand.rules, config |-> Build(live.config, geoCand.rules, warp)]
  <2>1. geoCand \in Candidates
    BY <1>2 DEF BeginGeoApply, StagedOK
  <2>2. Build(live.config, geoCand.rules, warp) \in Config
    BY <2>1, BuildType DEF Candidates, DiskOK, Live
  <2>3. new \in Live
    BY <2>1, <2>2 DEF Candidates, Live, Files, GeoFiles
  <2>4. h' \in [Helpers -> HelperStates] /\ spent' \in Counters'
    BY <1>2, <2>3, BeginIfType DEF BeginGeoApply, MayBegin, Ops, GeoOps, Steps
  <2> QED BY <1>2, <2>4 DEF BeginGeoApply, disk
<1>3. CASE BeginGeoRollback(a)
  <2> DEFINE kept == geoBackup.live
             config == IF kept.config = None THEN Build(live.config, kept.managed, warp)
                       ELSE kept.config
  <2>1. kept \in Live
    BY <1>3 DEF BeginGeoRollback, BackupsOK
  <2>4. h' \in [Helpers -> HelperStates] /\ spent' \in Counters'
    BY <1>3, <2>1, BeginIfType DEF BeginGeoRollback, MayBegin, Ops, GeoOps, Steps
  <2> QED BY <1>3, <2>4 DEF BeginGeoRollback, disk
<1> QED BY <1>1, <1>2, <1>3

LEMMA BeginRouteType ==
  ASSUME TypeOK, NEW a \in Helpers, BeginRouteApply(a) \/ BeginRouteRollback(a)
  PROVE  TypeOK'
<1> USE TypeParts, TypePartsNext, SameParts, HelpersType
<1>1. CASE BeginRouteApply(a)
  <2> DEFINE new == [live EXCEPT !.managed = routeCand.rules,
                                 !.config = Build(live.config, routeCand.rules, warp)]
             good == Loadable(routeCand.rules, warp) /\ Accepts(new.config, live.geo)
  <2>1. routeCand \in RouteCandidates
    BY <1>1 DEF BeginRouteApply, StagedOK
  <2>2. Build(live.config, routeCand.rules, warp) \in Config
    BY <2>1, BuildType DEF RouteCandidates, DiskOK, Live
  <2>3. new \in Live
    BY <2>1, <2>2 DEF RouteCandidates, Live, DiskOK
  <2>4. BeginIf(a, "route.apply", "write", new, good)
    BY <1>1 DEF BeginRouteApply
  <2>5. routeCand # None /\ spent.ops < MaxOps[alone] /\ UNCHANGED alone
    BY <1>1 DEF BeginRouteApply, MayBegin
  <2> HIDE DEF good, new
  <2>6. h' \in [Helpers -> HelperStates] /\ spent' \in Counters'
    BY <2>3, <2>4, <2>5, BeginIfType DEF Ops, RouteOps, Steps
  <2>7. BackupsOK'
    BY <1>1 DEF BeginRouteApply, BackupsOK, DiskOK, Live
  <2> QED BY <1>1, <2>6, <2>7 DEF BeginRouteApply, disk
<1>2. CASE BeginRouteRollback(a)
  <2> DEFINE back == [live EXCEPT !.managed = routeBackup.managed, !.config = routeBackup.config]
  <2>1. back \in Live
    BY <1>2 DEF BeginRouteRollback, BackupsOK, DiskOK, Live
  <2>2. DiskOK'
    BY <1>2 DEF BeginRouteRollback, BackupsOK, DiskOK, Live
  <2>3. PICK at \in {"test", "undo"} : h' = Started(a, "route.rollback", at, back)
    BY <1>2 DEF BeginRouteRollback
  <2>4. at \in Steps /\ "route.rollback" \in Ops
    BY DEF Ops, RouteOps, Steps
  <2>5. h' \in [Helpers -> HelperStates]
    <3> HIDE DEF back
    <3> QED BY <2>1, <2>3, <2>4, StartedType
  <2> QED BY <1>2, <2>2, <2>5, CountOnlyOp DEF BeginRouteRollback, MayBegin
<1> QED BY <1>1, <1>2

LEMMA BeginWarpType ==
  ASSUME TypeOK, NEW a \in Helpers,
         \/ \E op \in WarpOps : BeginWarpCreate(a, op) \/ BeginWarpSwitch(a, op)
         \/ TestWarp(a)
  PROVE  TypeOK'
<1> USE TypeParts, TypePartsNext, SameParts, HelpersType
<1>1. ASSUME NEW op \in WarpOps, BeginWarpCreate(a, op) PROVE TypeOK'
  <2>1. live \in Live
    BY DEF DiskOK
  <2>2. spent.ops < MaxOps[alone] /\ UNCHANGED alone /\ UNCHANGED <<disk, service, staged, backups,
          geoLock, users, relapsed>>
    BY <1>1 DEF BeginWarpCreate, MayBegin
  <2>3. h' \in [Helpers -> HelperStates] /\ spent' \in Counters'
    <3>1. CASE op = "warp.install" /\ warp.id # 0 /\ warp.on
      BY <1>1, <2>2, <3>1, EndType, CountOnlyOp DEF BeginWarpCreate
    <3>2. CASE op = "warp.install" /\ warp.id # 0 /\ ~warp.on
      <4>1. h' = Started(a, "warp.enable", "save", live) /\ spent' = [spent EXCEPT !.ops = @ + 1]
        BY <1>1, <3>2 DEF BeginWarpCreate
      <4> QED BY <2>1, <2>2, <4>1, StartedType, CountOnlyOp DEF Ops, WarpOps, Steps
    <3>3. CASE ~(op = "warp.install" /\ warp.id # 0)
      <4> DEFINE p == /\ Loadable(live.managed, NewProfile)
                      /\ Accepts(Build(live.config, live.managed, NewProfile), live.geo)
      <4>1. BeginIf(a, op, "save", live, p)
        BY <1>1, <3>3 DEF BeginWarpCreate
      <4>2. op \in Ops /\ op # "route.apply" /\ "save" \in Steps
        BY DEF Ops, WarpOps, Steps
      <4> HIDE DEF p
      <4> QED BY <2>1, <2>2, <4>1, <4>2, BeginIfType
    <3> QED BY <3>1, <3>2, <3>3
  <2> QED BY <2>2, <2>3
<1>2. ASSUME NEW op \in WarpOps, BeginWarpSwitch(a, op) PROVE TypeOK'
  <2>1. live \in Live /\ op \in Ops /\ op # "route.apply" /\ "save" \in Steps
    BY DEF DiskOK, Ops, WarpOps, Steps
  <2>2. h' = Started(a, op, "save", live) \/ End(a)
    BY <1>2 DEF BeginWarpSwitch
  <2>3. h' \in [Helpers -> HelperStates]
    BY <2>1, <2>2, StartedType, EndType
  <2> QED BY <1>2, <2>3, CountOnlyOp DEF BeginWarpSwitch, MayBegin
<1>3. CASE TestWarp(a)
  <2>1. ASSUME NEW bad \in BOOLEAN PROVE LastTest(bad) \in Warp
    BY DEF LastTest, Warp, DiskOK
  <2>2. DiskOK'
    BY <1>3, <2>1 DEF TestWarp, DiskOK
  <2>3. End(a)
    BY <1>3 DEF TestWarp
  <2> QED BY <1>3, <2>2, <2>3, EndType, CountOnlyOp DEF TestWarp, MayBegin
<1> QED BY <1>1, <1>2, <1>3

LEMMA BeginClientsType ==
  ASSUME TypeOK, NEW a \in Helpers, BeginClients(a)
  PROVE  TypeOK'
<1> USE TypeParts, TypePartsNext, SameParts, HelpersType
<1> DEFINE built == [Build(live.config, live.managed, warp) EXCEPT !.rev = users]
           new == [live EXCEPT !.config = built]
           good == Loadable(live.managed, warp) /\ Accepts(new.config, live.geo)
<1>1. Build(live.config, live.managed, warp) \in Config
  BY BuildType DEF DiskOK, Live
<1>2. built \in Config
  BY <1>1 DEF Config
<1>3. new \in Live
  BY <1>2 DEF Live, DiskOK
<1>4. PICK ok \in Outcomes(good) :
        /\ spent' = [ops |-> spent.ops + 1, faults |-> spent.faults + (IF good /\ ~ok THEN 1 ELSE 0)]
        /\ h' = Started(a, "clients", IF ok THEN "install" ELSE "relapse", new)
  BY DEF BeginClients
<1>5. ok \in BOOLEAN /\ (good /\ ~ok => spent.faults < MaxFaults)
  BY DEF Outcomes
<1>6. spent.ops < MaxOps[alone] /\ UNCHANGED alone
  BY DEF BeginClients, MayBegin
<1> HIDE DEF good, new
<1>7. h' \in [Helpers -> HelperStates]
  <2>1. (IF ok THEN "install" ELSE "relapse") \in Steps /\ "clients" \in Ops
    BY DEF Steps, Ops
  <2> QED BY <1>3, <1>4, <2>1, StartedType
<1>8. spent' \in Counters'
  <2>1. CASE good /\ ~ok
    BY <1>4, <1>5, <1>6, <2>1, CountOp
  <2>2. CASE ~(good /\ ~ok)
    BY <1>4, <1>6, <2>2, CountOp
  <2> QED BY <2>1, <2>2
<1> QED BY <1>7, <1>8 DEF BeginClients

-----------------------------------------------------------------------------
\* An operation goes on.  What a step leaves to the next lemmas: the helper's
\* move, the counters and the lock are dealt with here once.
LEMMA Moves ==
  ASSUME TypeOK, NEW a \in Helpers, h[a].at # "idle", NEW s \in Steps, Goto(a, s)
  PROVE  h' \in [Helpers -> HelperStates]
BY GotoType, HelpersType

LEMMA BootType ==
  ASSUME TypeOK, NEW ok \in Outcomes(CanBoot), Boot(ok), UNCHANGED disk
  PROVE  DiskOK'
<1>1. CASE ok
  <2>1. live.config # None
    BY <1>1 DEF Outcomes, CanBoot
  <2> QED BY <1>1, <2>1, TypeParts DEF Boot, DiskOK, Live, disk
<1>2. CASE ~ok
  BY <1>2, TypeParts DEF Boot, DiskOK, disk
<1> QED BY <1>1, <1>2

LEMMA GeoStepsType ==
  ASSUME TypeOK, NEW a \in Helpers,
         \/ BackUp(a) \/ StopXray(a) \/ CopyIp(a) \/ CopySite(a) \/ WriteRouting(a)
         \/ RestoreIp(a) \/ RestoreBackup(a) \/ StartXray(a) \/ WriteManifest(a) \/ GeoBreaks(a)
         \/ UndoIp(a)
  PROVE  TypeOK'
<1> USE TypeParts, TypePartsNext, SameParts, HelpersType
<1>0. h[a].at # "idle" => h[a] \in Locals
  BY BusyLocals
<1>1. CASE BackUp(a)
  <2>1. PICK ok \in Outcomes(TRUE) :
          /\ Charge(TRUE, ok)
          /\ IF ok
             THEN /\ geoBackup' = [whole |-> TRUE, live |-> live]
                  /\ h' = [h EXCEPT ![a].at = "stop", ![a].old = live, ![a].was = Up]
                  /\ UNCHANGED geoLock
             ELSE /\ geoBackup' \in {geoBackup, Unfinished}
                  /\ End(a) /\ geoLock' = None
    BY <1>1 DEF BackUp
  <2>2. spent' \in Counters'
    BY <1>1, <2>1, ChargeType DEF BackUp
  <2>3. BackupsOK'
    <3>1. live \in Live
      BY DEF DiskOK
    <3>2. [whole |-> TRUE, live |-> live] \in [whole : BOOLEAN, live : Live]
      BY <3>1
    <3>3. Unfinished \in [whole : BOOLEAN, live : Live]
      BY <3>1 DEF Unfinished
    <3>4. geoBackup' \in {geoBackup, Unfinished, [whole |-> TRUE, live |-> live]}
      BY <2>1
    <3>5. UNCHANGED routeBackup
      BY <1>1 DEF BackUp
    <3> QED BY <3>2, <3>3, <3>4, <3>5 DEF BackupsOK
  <2>4. h' \in [Helpers -> HelperStates]
    <3>1. CASE ok
      <4>1. h[a] \in Locals /\ live \in Live /\ Up \in BOOLEAN
        BY <1>0, <1>1 DEF BackUp, DiskOK, Up
      <4>2. [h[a] EXCEPT !.at = "stop", !.old = live, !.was = Up] \in Locals
        BY <4>1 DEF Locals, Steps
      <4> QED BY <2>1, <3>1, <4>2 DEF HelperStates
    <3>2. CASE ~ok
      BY <2>1, <3>2, EndType
    <3> QED BY <3>1, <3>2
  <2> QED BY <1>1, <2>1, <2>2, <2>3, <2>4 DEF BackUp, disk
<1>2. CASE StopXray(a)
  <2>1. h[a].at # "idle" /\ Goto(a, IF h[a].op = "geo.apply" THEN "ip" ELSE "restore")
    BY <1>2 DEF StopXray
  <2>2. h' \in [Helpers -> HelperStates]
    BY <2>1, Moves DEF Steps
  <2>3. DiskOK'
    BY <1>2 DEF StopXray, DiskOK, disk
  <2> QED BY <1>2, <2>2, <2>3, CountSame DEF StopXray
<1>3. CASE CopyIp(a)
  <2>1. h' \in [Helpers -> HelperStates]
    BY <1>3, Moves DEF CopyIp, Steps
  <2>2. geoCand.pair \in Pairs /\ live \in Live
    BY <1>3 DEF CopyIp, StagedOK, Candidates, DiskOK
  <2>3. live' \in Live
    BY <1>3, <2>2 DEF CopyIp, Live, GeoFiles
  <2> QED BY <1>3, <2>1, <2>3, CountSame DEF CopyIp, DiskOK
<1>4. CASE CopySite(a)
  <2>1. h' \in [Helpers -> HelperStates]
    BY <1>4, Moves DEF CopySite, Steps
  <2>2. geoCand.pair \in Pairs /\ live \in Live
    BY <1>4 DEF CopySite, StagedOK, Candidates, DiskOK
  <2>3. live' \in Live
    BY <1>4, <2>2 DEF CopySite, Live, GeoFiles
  <2> QED BY <1>4, <2>1, <2>3, CountSame DEF CopySite, DiskOK
<1>5. CASE WriteRouting(a)
  <2>1. h' \in [Helpers -> HelperStates]
    BY <1>5, Moves DEF WriteRouting, Steps
  <2>2. h[a] \in Locals /\ live \in Live
    BY <1>0, <1>5 DEF WriteRouting, DiskOK
  <2>3. live' \in Live
    BY <1>5, <2>2 DEF WriteRouting, Live, Locals
  <2> QED BY <1>5, <2>1, <2>3, CountSame DEF WriteRouting, DiskOK
<1>6. CASE RestoreBackup(a)
  <2>1. h' \in [Helpers -> HelperStates]
    BY <1>6, Moves DEF RestoreBackup, Steps
  <2>2. live' \in Live
    <3>1. live \in Live /\ h[a].next \in Live
      BY <1>0, <1>6 DEF RestoreBackup, Locals, DiskOK
    <3> QED BY <1>6, <3>1 DEF RestoreBackup, Live, GeoFiles
  <2> QED BY <1>6, <2>1, <2>2, CountSame DEF RestoreBackup, DiskOK
<1>7. CASE StartXray(a)
  <2> DEFINE next == IF h[a].op = "geo.apply" THEN "manifest" ELSE "done"
  <2>1. next \in Steps /\ "undo" \in Steps /\ h[a].at # "idle"
    BY <1>7 DEF StartXray, Steps
  <2>2. \/ Goto(a, next) /\ UNCHANGED <<service, spent>>
        \/ \E ok \in Outcomes(CanBoot) :
             Charge(CanBoot, ok) /\ Boot(ok) /\ Goto(a, IF ok THEN next ELSE "undo")
    BY <1>7 DEF StartXray
  <2>3. UNCHANGED <<disk, staged, backups, geoLock, users, relapsed, alone>>
    BY <1>7 DEF StartXray
  <2> HIDE DEF next
  <2>4. CASE Goto(a, next) /\ UNCHANGED <<service, spent>>
    BY <2>1, <2>3, <2>4, Moves, CountSame
  <2>5. ASSUME NEW ok \in Outcomes(CanBoot), Charge(CanBoot, ok), Boot(ok),
               Goto(a, IF ok THEN next ELSE "undo")
        PROVE  TypeOK'
    <3>1. h' \in [Helpers -> HelperStates]
      BY <2>1, <2>5, Moves
    <3>2. spent' \in Counters'
      BY <2>3, <2>5, ChargeType
    <3> QED BY <2>3, <2>5, <3>1, <3>2, BootType
  <2> QED BY <2>2, <2>4, <2>5
<1>8. CASE WriteManifest(a)
  <2>1. h' \in [Helpers -> HelperStates]
    BY <1>8, Moves DEF WriteManifest, Steps
  <2>2. h[a] \in Locals /\ live \in Live
    BY <1>0, <1>8 DEF WriteManifest, DiskOK
  <2>3. live' \in Live
    BY <1>8, <2>2 DEF WriteManifest, Live, Locals
  <2> QED BY <1>8, <2>1, <2>3, CountSame DEF WriteManifest, DiskOK
<1>9. CASE GeoBreaks(a)
  <2>1. h' \in [Helpers -> HelperStates]
    BY <1>9, Moves DEF GeoBreaks, Steps
  <2>2. spent' \in Counters'
    BY <1>9, CountFault, CountSame DEF GeoBreaks
  <2> QED BY <1>9, <2>1, <2>2 DEF GeoBreaks
<1>10. CASE RestoreIp(a)
  <2>1. h' \in [Helpers -> HelperStates]
    BY <1>10, Moves DEF RestoreIp, Steps
  <2>2. h[a] \in Locals /\ live \in Live
    BY <1>0, <1>10 DEF RestoreIp, DiskOK
  <2>3. live' \in Live
    BY <1>10, <2>2 DEF RestoreIp, Live, GeoFiles, Locals
  <2> QED BY <1>10, <2>1, <2>3, CountSame DEF RestoreIp, DiskOK
<1>11. CASE UndoIp(a)
  <2>1. h' \in [Helpers -> HelperStates]
    BY <1>11, Moves DEF UndoIp, Steps
  <2>2. h[a] \in Locals /\ live \in Live
    BY <1>0, <1>11 DEF UndoIp, DiskOK
  <2>3. live' \in Live
    BY <1>11, <2>2 DEF UndoIp, Live, GeoFiles, Locals
  <2> QED BY <1>11, <2>1, <2>3, CountSame DEF UndoIp, DiskOK
<1> QED BY <1>1, <1>2, <1>3, <1>4, <1>5, <1>6, <1>7, <1>8, <1>9, <1>10, <1>11

LEMMA RouteStepsType ==
  ASSUME TypeOK, NEW a \in Helpers,
         \/ TestRouteBackup(a) \/ WriteRoute(a) \/ SaveWarp(a) \/ WriteWarp(a)
         \/ RestartXray(a) \/ WritePolicy(a) \/ Unlink(a) \/ FilesBreak(a)
  PROVE  TypeOK'
<1> USE TypeParts, TypePartsNext, SameParts, HelpersType
<1>0. h[a].at # "idle" => h[a] \in Locals
  BY BusyLocals
<1>1. CASE TestRouteBackup(a)
  <2> DEFINE good == Accepts(h[a].next.config, live.geo)
  <2>1. \/ Goto(a, "done") /\ UNCHANGED spent
        \/ \E ok \in Outcomes(good) : Charge(good, ok) /\ Goto(a, IF ok THEN "write" ELSE "undo")
    BY <1>1 DEF TestRouteBackup
  <2>2. h[a].at # "idle" /\ UNCHANGED <<disk, service, staged, backups, geoLock, users, relapsed, alone>>
    BY <1>1 DEF TestRouteBackup
  <2> HIDE DEF good
  <2>3. CASE Goto(a, "done") /\ UNCHANGED spent
    BY <2>2, <2>3, Moves, CountSame DEF Steps
  <2>4. ASSUME NEW ok \in Outcomes(good), Charge(good, ok), Goto(a, IF ok THEN "write" ELSE "undo")
        PROVE  TypeOK'
    <3>1. (IF ok THEN "write" ELSE "undo") \in Steps
      BY DEF Steps
    <3> QED BY <2>2, <2>4, <3>1, Moves, ChargeType
  <2> QED BY <2>1, <2>3, <2>4
<1>2. CASE WriteRoute(a)
  <2>1. h' \in [Helpers -> HelperStates]
    BY <1>2, Moves DEF WriteRoute, Steps
  <2>2. h[a] \in Locals /\ live \in Live
    BY <1>0, <1>2 DEF WriteRoute, DiskOK
  <2>3. live' \in Live
    BY <1>2, <2>2 DEF WriteRoute, Live, Locals
  <2> QED BY <1>2, <2>1, <2>3, CountSame DEF WriteRoute, DiskOK
<1>3. CASE SaveWarp(a)
  <2>1. h' \in [Helpers -> HelperStates]
    BY <1>3, Moves DEF SaveWarp, Steps
  <2>2. NewProfile \in Warp
    BY DEF NewProfile, Warp, DiskOK
  <2>3. [warp EXCEPT !.on = h[a].op = "warp.enable"] \in Warp
    BY DEF Warp, DiskOK
  <2> QED BY <1>3, <2>1, <2>2, <2>3, CountSame DEF SaveWarp, DiskOK
<1>4. CASE WriteWarp(a)
  <2> DEFINE rules == IF h[a].op \in {"warp.disable", "warp.remove"} THEN h[a].next.managed
                      ELSE live.managed
             config == Build(live.config, rules, warp)
             good == Loadable(rules, warp) /\ Accepts(config, live.geo)
  <2>1. PICK ok \in Outcomes(good) :
          /\ Charge(good, ok)
          /\ live' = IF ok THEN [live EXCEPT !.config = config] ELSE live
          /\ Goto(a, IF ok THEN "restart" ELSE "undo")
    BY <1>4 DEF WriteWarp
  <2>2. h[a].at # "idle"
    BY <1>4 DEF WriteWarp
  <2>3. rules \in SUBSET Rule /\ live \in Live /\ warp \in Warp
    BY <1>0, <2>2 DEF Locals, Live, DiskOK
  <2>4. config \in Config
    BY <2>3, BuildType DEF Live
  <2>5. [live EXCEPT !.config = config] \in Live
    BY <2>3, <2>4 DEF Live
  <2> HIDE DEF config, good
  <2>6. DiskOK'
    BY <1>4, <2>1, <2>3, <2>5 DEF WriteWarp, DiskOK
  <2>7. (IF ok THEN "restart" ELSE "undo") \in Steps
    BY DEF Steps
  <2>8. UNCHANGED <<staged, backups, geoLock, users, relapsed, alone>>
    BY <1>4 DEF WriteWarp
  <2> QED BY <2>1, <2>2, <2>6, <2>7, <2>8, Moves, ChargeType
<1>5. CASE RestartXray(a)
  <2> DEFINE next == CASE h[a].op = "route.apply" -> "policy"
                       [] h[a].op = "warp.remove" -> "unlink"
                       [] OTHER -> "done"
  <2>1. next \in Steps /\ "undo" \in Steps /\ h[a].at # "idle"
    BY <1>5 DEF RestartXray, Steps
  <2>2. \/ Goto(a, next) /\ UNCHANGED <<service, spent>>
        \/ \E ok \in Outcomes(CanBoot) :
             Charge(CanBoot, ok) /\ Boot(ok) /\ Goto(a, IF ok THEN next ELSE "undo")
    BY <1>5 DEF RestartXray
  <2>3. UNCHANGED <<disk, staged, backups, geoLock, users, relapsed, alone>>
    BY <1>5 DEF RestartXray
  <2> HIDE DEF next
  <2>4. CASE Goto(a, next) /\ UNCHANGED <<service, spent>>
    BY <2>1, <2>3, <2>4, Moves, CountSame
  <2>5. ASSUME NEW ok \in Outcomes(CanBoot), Charge(CanBoot, ok), Boot(ok),
               Goto(a, IF ok THEN next ELSE "undo")
        PROVE  TypeOK'
    BY <2>1, <2>3, <2>5, Moves, ChargeType, BootType
  <2> QED BY <2>2, <2>4, <2>5
<1>6. CASE WritePolicy(a)
  <2>0. PICK ok \in Outcomes(TRUE) : /\ Charge(TRUE, ok) /\ policy' = (IF ok THEN h[a].form ELSE policy)
                                    /\ IF ok THEN Goto(a, "done") ELSE End(a)
    BY <1>6 DEF WritePolicy
  <2>1. h' \in [Helpers -> HelperStates]
    <3>1. "done" \in Steps /\ h[a].at # "idle"
      BY <1>6 DEF WritePolicy, Steps
    <3> QED BY <2>0, <3>1, Moves, EndType
  <2>2. policy' \in Forms \cup {None}
    BY <1>0, <1>6, <2>0 DEF WritePolicy, Locals, DiskOK
  <2>3. spent' \in Counters'
    BY <1>6, <2>0, ChargeType DEF WritePolicy
  <2> QED BY <1>6, <2>1, <2>2, <2>3 DEF WritePolicy, DiskOK
<1>7. CASE Unlink(a)
  <2>1. h' \in [Helpers -> HelperStates]
    BY <1>7, Moves DEF Unlink, Steps
  <2> QED BY <1>7, <2>1, CountSame DEF Unlink, DiskOK, Warp
<1>8. CASE FilesBreak(a)
  <2>1. h' \in [Helpers -> HelperStates]
    BY <1>8, Moves DEF FilesBreak, Steps
  <2>2. spent' \in Counters'
    BY <1>8, CountFault DEF FilesBreak
  <2> QED BY <1>8, <2>1, <2>2 DEF FilesBreak
<1> QED BY <1>1, <1>2, <1>3, <1>4, <1>5, <1>6, <1>7, <1>8

LEMMA EndStepsType ==
  ASSUME TypeOK, NEW a \in Helpers,
         \/ Undo(a) \/ Revive(a) \/ InstallClients(a) \/ RestartClients(a) \/ Relapse(a)
         \/ Done(a) \/ Kill(a)
  PROVE  TypeOK'
<1> USE TypeParts, TypePartsNext, SameParts, HelpersType
<1>0. h[a].at # "idle" => h[a] \in Locals
  BY BusyLocals
<1>1. CASE Undo(a)
  <2>1. h' \in [Helpers -> HelperStates]
    BY <1>1, Moves DEF Undo, UndoStep, Steps
  <2>2. h[a] \in Locals /\ live \in Live /\ warp \in Warp
    BY <1>0, <1>1 DEF Undo, UndoStep, DiskOK
  <2>3. live' \in Live
    BY <1>1, <2>2 DEF Undo, Live, GeoFiles, Locals
  <2>4. warp' \in Warp
    BY <1>1, <2>2 DEF Undo, Locals
  <2> QED BY <1>1, <2>1, <2>3, <2>4, CountSame DEF Undo, DiskOK
<1>2. CASE Revive(a)
  <2>1. End(a) /\ UNCHANGED <<disk, staged, backups, users, relapsed, alone>>
        /\ geoLock' = IF geoLock = a THEN None ELSE geoLock
    BY <1>2 DEF Revive
  <2>2. \/ \E ok \in Outcomes(CanBoot) : Charge(CanBoot, ok) /\ Boot(ok)
        \/ UNCHANGED <<service, spent>>
    BY <1>2 DEF Revive
  <2>3. ASSUME NEW ok \in Outcomes(CanBoot), Charge(CanBoot, ok), Boot(ok) PROVE TypeOK'
    BY <2>1, <2>3, EndType, ChargeType, BootType
  <2>4. CASE UNCHANGED <<service, spent>>
    BY <2>1, <2>4, EndType, CountSame
  <2> QED BY <2>2, <2>3, <2>4
<1>3. CASE InstallClients(a)
  <2>1. h' \in [Helpers -> HelperStates]
    BY <1>3, Moves DEF InstallClients, Steps
  <2>2. h[a] \in Locals /\ live \in Live
    BY <1>0, <1>3 DEF InstallClients, DiskOK
  <2>3. live' \in Live /\ previous' \in Config \cup {None}
    BY <1>3, <2>2 DEF InstallClients, Live, Locals
  <2> QED BY <1>3, <2>1, <2>3, CountSame DEF InstallClients, DiskOK
<1>4. CASE RestartClients(a)
  <2>1. PICK ok \in Outcomes(CanBoot) :
          Charge(CanBoot, ok) /\ Boot(ok) /\ Goto(a, IF ok THEN "done" ELSE "relapse")
    BY <1>4 DEF RestartClients
  <2>2. h[a].at # "idle" /\ UNCHANGED <<disk, staged, backups, geoLock, users, relapsed, alone>>
    BY <1>4 DEF RestartClients
  <2>3. (IF ok THEN "done" ELSE "relapse") \in Steps
    BY DEF Steps
  <2> QED BY <2>1, <2>2, <2>3, Moves, ChargeType, BootType
<1>5. CASE Relapse(a)
  <2>1. h' \in [Helpers -> HelperStates]
    BY <1>5, Moves, EndType DEF Relapse, Steps
  <2>2. live' \in Live
    BY <1>5 DEF Relapse, Live, DiskOK
  <2>3. service' \in [config : Config, geo : GeoFiles] \cup {None}
    BY <1>5 DEF Relapse, DiskOK
  <2>4. relapsed' \in BOOLEAN
    BY <1>5 DEF Relapse
  <2> QED BY <1>5, <2>1, <2>2, <2>3, <2>4, CountSame DEF Relapse, DiskOK
<1>6. CASE Done(a)
  BY <1>6, EndType, CountSame DEF Done
<1>7. CASE Kill(a)
  <2>1. End(a)
    BY <1>7 DEF Kill, End
  <2>2. BackupsOK'
    <3>1. Unfinished \in [whole : BOOLEAN, live : Live]
      BY DEF Unfinished, DiskOK
    <3> QED BY <1>7, <3>1 DEF Kill, BackupsOK
  <2> QED BY <1>7, <2>1, <2>2, EndType, CountFault DEF Kill
<1> QED BY <1>1, <1>2, <1>3, <1>4, <1>5, <1>6, <1>7

-----------------------------------------------------------------------------
LEMMA InitType == Init => TypeOK
<1> SUFFICES ASSUME NEW fresh \in Fresh, Init,
                    /\ live = [geo |-> Files(Installed), manifest |-> None, managed |-> {},
                               config |-> IF fresh THEN None
                                          ELSE [rev |-> 1, rules |-> {}, warp |-> 0]]
                    /\ service = IF fresh THEN None ELSE [config |-> live.config, geo |-> live.geo]
             PROVE  TypeOK
  BY DEF Init
<1>1. [rev |-> 1, rules |-> {}, warp |-> 0] \in Config
  BY RoutingAssumption DEF Config
<1>2. Files(Installed) \in GeoFiles
  BY RoutingAssumption DEF Files, GeoFiles
<1>3. live \in Live
  BY <1>1, <1>2 DEF Live
<1>4. service \in [config : Config, geo : GeoFiles] \cup {None}
  BY <1>1, <1>2
<1>5. DiskOK
  BY <1>3, <1>4 DEF Init, DiskOK, Warp
<1>6. StagedOK /\ BackupsOK
  BY DEF Init, StagedOK, BackupsOK
<1>7. h \in [Helpers -> HelperStates]
  BY DEF Init, Idle, HelperStates
<1>8. alone \in BOOLEAN /\ spent \in Counters
  BY RoutingAssumption DEF Init, Counters
<1>9. users \in 0..MaxUsers
  BY RoutingAssumption DEF Init
<1> QED BY <1>5, <1>6, <1>7, <1>8, <1>9, TypeParts DEF Init

LEMMA NextType == TypeOK /\ [Next]_vars => TypeOK'
<1> SUFFICES ASSUME TypeOK, [Next]_vars PROVE TypeOK'
  OBVIOUS
<1>1. ASSUME NEW a \in Helpers, Begin(a) PROVE TypeOK'
  BY <1>1, BeginGeoType, BeginRouteType, BeginWarpType, BeginClientsType DEF Begin
<1>2. ASSUME NEW a \in Helpers, Continue(a) PROVE TypeOK'
  BY <1>2, GeoStepsType, RouteStepsType, EndStepsType DEF Continue
<1>3. ASSUME NEW a \in Helpers, Kill(a) PROVE TypeOK'
  BY <1>3, EndStepsType
<1>4. CASE UNCHANGED vars
  BY <1>4, TypeParts, TypePartsNext, SameParts, CountSame DEF vars, disk, staged, backups
<1> QED BY <1>1, <1>2, <1>3, <1>4, PanelType DEF Next

\* The files, the candidates, the backups and what every helper carries always
\* have their types, whatever overlaps and whatever fails.
THEOREM RoutingTypes == Spec => []TypeOK
BY InitType, NextType, PTL DEF Spec

-----------------------------------------------------------------------------
\* The pair.  PairTogether is not inductive: it needs that only the lock's
\* holder is at a step that touches the files, that what it will restore is a
\* whole pair, and that the candidate is the same at both copies.
Even(geo) == geo.ip = geo.site
GeoSteps == {"backup", "stop", "ip", "site", "rules", "restore", "restore site", "start", "manifest",
             "undo site"}
Halves == {"site", "restore site", "undo", "undo site"}    \* steps that may find two halves

Holds(a) ==
  /\ geoLock = a <=> h[a].op \in GeoOps
  /\ h[a].at \in GeoSteps => h[a].op \in GeoOps
  /\ h[a].op \in GeoOps => /\ h[a].at \in GeoSteps \cup {"undo", "revive", "done"}
                           /\ Even(h[a].old.geo) /\ Even(h[a].next.geo)
  /\ h[a].at = "site" => geoCand # None /\ live.geo.ip = geoCand.pair
  /\ h[a].at = "restore site" => live.geo.ip = h[a].next.geo.ip
  /\ h[a].at = "undo site" => live.geo.ip = h[a].old.geo.ip

Paired == PairTogether /\ BackupsAreWhole /\ \A a \in Helpers : Holds(a)

Careful == Swaps = FALSE /\ Kills \cap Halves = {}

\* Without a holder the files are even; a holder copies or undoes.
LEMMA EvenUnless ==
  ASSUME Paired
  PROVE  /\ geoLock = None => Even(live.geo)
         /\ \A a \in Helpers : geoLock = a /\ h[a].at \notin Halves => Even(live.geo)
BY RoutingAssumption DEF Paired, PairTogether, Even, Halves

\* An operation without the lock that leaves the files alone.
LEMMA Bystander ==
  ASSUME TypeOK, Paired, NEW a \in Helpers, NEW new,
         h' = [h EXCEPT ![a] = new], h[a].op \notin GeoOps,
         new.op \notin GeoOps, new.at \notin GeoSteps,
         UNCHANGED <<geoLock, geoCand, geoBackup>>, live'.geo = live.geo
  PROVE  Paired'
<1>1. DOMAIN h = Helpers
  BY DEF TypeOK
<1>2. h'[a] = new /\ \A b \in Helpers \ {a} : h'[b] = h[b]
  BY <1>1
<1>3. geoLock # a
  BY DEF Paired, Holds
<1>4. PairTogether'
  BY <1>2, <1>3 DEF Paired, PairTogether
<1>5. BackupsAreWhole'
  BY DEF Paired, BackupsAreWhole
<1>6. ASSUME NEW b \in Helpers PROVE Holds(b)'
  <2>1. CASE b = a
    BY <1>2, <1>3, <2>1 DEF Holds, GeoSteps
  <2>2. CASE b # a
    BY <1>2, <2>2 DEF Paired, Holds, Even
  <2> QED BY <2>1, <2>2
<1> QED BY <1>4, <1>5, <1>6 DEF Paired

\* A bystander's step from one program point to the next.
LEMMA BystanderMoves ==
  ASSUME TypeOK, Paired, NEW a \in Helpers, h[a].at # "idle", h[a].op \notin GeoOps,
         NEW s, s \notin GeoSteps, Goto(a, s),
         UNCHANGED <<geoLock, geoCand, geoBackup>>, live'.geo = live.geo
  PROVE  Paired'
<1> DEFINE new == [h[a] EXCEPT !.at = s]
<1>1. h[a] \in Locals
  BY BusyLocals, HelpersType
<1>2. new.op = h[a].op /\ new.at = s
  BY <1>1 DEF Locals
<1>3. h' = [h EXCEPT ![a] = new]
  BY DEF Goto
<1> HIDE DEF new
<1> QED BY <1>2, <1>3, Bystander

LEMMA BystanderEnds ==
  ASSUME TypeOK, Paired, NEW a \in Helpers, h[a].op \notin GeoOps, End(a),
         UNCHANGED <<geoLock, geoCand, geoBackup>>, live'.geo = live.geo
  PROVE  Paired'
<1>1. Idle.op \notin GeoOps /\ Idle.at \notin GeoSteps
  BY DEF Idle, GeoOps, GeoSteps
<1> QED BY <1>1, Bystander DEF End

\* While a helper holds the lock, the others are no reason to worry.
LEMMA OthersHold ==
  ASSUME TypeOK, Paired, NEW a \in Helpers, h[a].op \in GeoOps,
         \A b \in Helpers \ {a} : h'[b] = h[b], geoLock' \in {a, None}
  PROVE  \A b \in Helpers \ {a} : Holds(b)'
<1> SUFFICES ASSUME NEW b \in Helpers \ {a} PROVE Holds(b)'
  OBVIOUS
<1>1. geoLock = a
  BY DEF Paired, Holds
<1>2. h[b].op \notin GeoOps /\ h[b].at \notin GeoSteps
  BY <1>1 DEF Paired, Holds
<1>3. geoLock' # b /\ h'[b] = h[b]
  BY RoutingAssumption
<1> QED BY <1>2, <1>3 DEF Holds, GeoSteps

\* The holder's move: what is left to show about it and the files.
LEMMA HolderMoves ==
  ASSUME TypeOK, Paired, NEW a \in Helpers, h[a].at # "idle", h[a].op \in GeoOps,
         NEW s \in GeoSteps \cup {"undo", "revive", "done"}, Goto(a, s),
         UNCHANGED <<geoLock, geoCand, geoBackup>>,
         s \notin Halves => Even(live'.geo),
         s = "site" => geoCand # None /\ live'.geo.ip = geoCand.pair,
         s = "restore site" => live'.geo.ip = h[a].next.geo.ip,
         s = "undo site" => live'.geo.ip = h[a].old.geo.ip
  PROVE  Paired'
<1>1. h[a] \in Locals /\ DOMAIN h = Helpers
  BY BusyLocals, HelpersType DEF TypeOK
<1>2. /\ h'[a].at = s /\ h'[a].op = h[a].op /\ h'[a].old = h[a].old /\ h'[a].next = h[a].next
      /\ \A b \in Helpers \ {a} : h'[b] = h[b]
  BY <1>1 DEF Goto, Locals
<1>3. geoLock = a /\ Even(h[a].old.geo) /\ Even(h[a].next.geo)
  BY DEF Paired, Holds
<1>4. Holds(a)'
  BY <1>2, <1>3 DEF Holds, Even
<1>5. \A b \in Helpers \ {a} : Holds(b)'
  BY <1>2, <1>3, OthersHold
<1>6. PairTogether'
  BY <1>2, <1>3 DEF PairTogether, Even, Halves
<1>7. BackupsAreWhole'
  BY DEF Paired, BackupsAreWhole
<1> QED BY <1>4, <1>5, <1>6, <1>7 DEF Paired

\* The holder ends and the lock is free again.
LEMMA HolderEnds ==
  ASSUME TypeOK, Paired, NEW a \in Helpers, h[a].op \in GeoOps, End(a),
         geoLock' = None, live'.geo = live.geo, Even(live.geo),
         BackupsAreWhole'
  PROVE  Paired'
<1>1. h'[a] = Idle /\ \A b \in Helpers \ {a} : h'[b] = h[b]
  BY DEF End, TypeOK
<1>2. Holds(a)'
  BY <1>1, RoutingAssumption DEF Holds, Idle, GeoOps, GeoSteps
<1>3. \A b \in Helpers \ {a} : Holds(b)'
  BY <1>1, OthersHold
<1>4. PairTogether'
  BY DEF PairTogether, Even
<1> QED BY <1>2, <1>3, <1>4 DEF Paired

\* An operation on GeoFiles begins only when nobody holds the lock.
LEMMA GeoBegins ==
  ASSUME TypeOK, Paired, NEW a \in Helpers, geoLock = None, geoLock' = a,
         NEW op \in GeoOps, NEW next, Even(next.geo), ~Busy(a),
         h' = Started(a, op, "backup", next),
         UNCHANGED <<geoCand, geoBackup, live>>
  PROVE  Paired'
<1>1. Even(live.geo)
  BY EvenUnless
<1>2. /\ h'[a].op = op /\ h'[a].at = "backup" /\ h'[a].old = live /\ h'[a].next = next
      /\ \A b \in Helpers \ {a} : h'[b] = h[b]
  BY DEF Started, TypeOK
<1>3. Holds(a)'
  BY <1>1, <1>2 DEF Holds, GeoSteps, Even
<1>4. ASSUME NEW b \in Helpers \ {a} PROVE Holds(b)'
  <2>1. h[b].op \notin GeoOps /\ h[b].at \notin GeoSteps
    BY RoutingAssumption DEF Paired, Holds
  <2> QED BY <1>2, <2>1 DEF Holds, GeoSteps
<1>5. PairTogether'
  BY <1>1 DEF PairTogether, Even
<1>6. BackupsAreWhole'
  BY DEF Paired, BackupsAreWhole
<1> QED BY <1>3, <1>4, <1>5, <1>6 DEF Paired

LEMMA IdleIsNoGeo ==
  ASSUME TypeOK, NEW a \in Helpers, ~Busy(a)
  PROVE  h[a].op \notin GeoOps
BY DEF TypeOK, Busy, GeoOps, Steps

LEMMA PanelPaired ==
  ASSUME TypeOK, Paired, Careful,
         (\E p \in Pairs : DropCandidate(p)) \/ PlaceCandidate \/ StageRoute \/ ChangeClients
  PROVE  Paired'
<1>1. UNCHANGED <<live, geoLock, geoBackup, h>>
  BY DEF DropCandidate, PlaceCandidate, StageRoute, ChangeClients, disk, backups
<1>2. geoLock = None \/ UNCHANGED geoCand
  BY DEF Careful, DropCandidate, PlaceCandidate, StageRoute, ChangeClients, MayStage, staged
<1>3. ASSUME NEW a \in Helpers PROVE Holds(a)'
  <2>1. CASE geoLock = None
    BY <1>1, <2>1, RoutingAssumption DEF Paired, Holds, GeoSteps
  <2>2. CASE UNCHANGED geoCand
    BY <1>1, <2>2 DEF Paired, Holds
  <2> QED BY <1>2, <2>1, <2>2
<1> QED BY <1>1, <1>3 DEF Paired, PairTogether, BackupsAreWhole

LEMMA BeginGeoPaired ==
  ASSUME TypeOK, Paired, NEW a \in Helpers, CheckGeo(a) \/ BeginGeoApply(a) \/ BeginGeoRollback(a)
  PROVE  Paired'
<1>0. ~Busy(a) /\ h[a].op \notin GeoOps
  BY IdleIsNoGeo DEF CheckGeo, BeginGeoApply, BeginGeoRollback, MayBegin
<1>1. CASE CheckGeo(a)
  <2>1. End(a) /\ UNCHANGED <<live, geoLock, geoBackup>> /\ geoLock = None
    BY <1>1 DEF CheckGeo, disk, backups
  <2>2. ASSUME NEW b \in Helpers PROVE Holds(b)'
    <3>1. h[b].op \notin GeoOps /\ h[b].at \notin GeoSteps
      BY <2>1, RoutingAssumption DEF Paired, Holds
    <3>2. h'[b] = h[b] \/ h'[b] = Idle
      BY <2>1 DEF End, TypeOK
    <3>3. CASE h'[b] = h[b]
      BY <2>1, <3>1, <3>3, RoutingAssumption DEF Paired, Holds, GeoSteps
    <3>4. CASE h'[b] = Idle
      <4>1. h'[b].op = "none" /\ h'[b].at = "idle" /\ geoLock' # b
        BY <2>1, <3>4, RoutingAssumption DEF Idle
      <4> QED BY <4>1 DEF Holds, GeoOps, GeoSteps
    <3> QED BY <3>2, <3>3, <3>4
  <2>3. PairTogether'
    BY <2>1, EvenUnless DEF PairTogether, Even
  <2>4. BackupsAreWhole'
    BY <2>1 DEF Paired, BackupsAreWhole
  <2> QED BY <2>2, <2>3, <2>4 DEF Paired
<1>2. CASE BeginGeoApply(a)
  <2> DEFINE new == [geo |-> Files(geoCand.pair), manifest |-> geoCand.pair,
                     managed |-> geoCand.rules, config |-> Build(live.config, geoCand.rules, warp)]
             good == Loadable(geoCand.rules, warp) /\ Accepts(new.config, new.geo)
  <2>1. BeginIf(a, "geo.apply", "backup", new, good) /\ geoLock = None
        /\ geoLock' = (IF h'[a].at = "idle" THEN None ELSE a)
        /\ UNCHANGED <<live, geoCand, geoBackup>>
    BY <1>2 DEF BeginGeoApply, disk, staged, backups
  <2>2. Even(new.geo)
    BY DEF Files, Even
  <2> HIDE DEF new, good
  <2>3. h' = Started(a, "geo.apply", "backup", new) \/ End(a)
    BY <2>1 DEF BeginIf, End
  <2>4. CASE h' = Started(a, "geo.apply", "backup", new)
    <3>1. h'[a].at = "backup"
      BY <2>4 DEF Started, TypeOK
    <3> QED BY <1>0, <2>1, <2>2, <2>4, <3>1, GeoBegins DEF GeoOps
  <2>5. CASE End(a)
    <3>1. h'[a].at = "idle"
      BY <2>5 DEF End, Idle, TypeOK
    <3> QED BY <1>0, <2>1, <2>5, <3>1, BystanderEnds
  <2> QED BY <2>3, <2>4, <2>5
<1>3. CASE BeginGeoRollback(a)
  <2> DEFINE kept == geoBackup.live
             config == IF kept.config = None THEN Build(live.config, kept.managed, warp)
                       ELSE kept.config
             good == /\ geoBackup.whole
                     /\ kept.config = None => Loadable(kept.managed, warp)
                     /\ Accepts(config, kept.geo)
  <2>1. BeginIf(a, "geo.rollback", "backup", kept, good) /\ geoLock = None
        /\ geoLock' = (IF h'[a].at = "idle" THEN None ELSE a)
        /\ UNCHANGED <<live, geoCand, geoBackup>> /\ geoBackup # None
    BY <1>3 DEF BeginGeoRollback, disk, staged, backups
  <2>2. good => Even(kept.geo)
    BY <2>1 DEF Paired, BackupsAreWhole, Even
  <2>3. PICK ok \in Outcomes(good) :
          h' = IF ok THEN Started(a, "geo.rollback", "backup", kept) ELSE [h EXCEPT ![a] = Idle]
    BY <2>1 DEF BeginIf
  <2>4. CASE ok
    <3>1. Even(kept.geo)
      BY <2>2, <2>4 DEF Outcomes
    <3>2. h' = Started(a, "geo.rollback", "backup", kept)
      BY <2>3, <2>4
    <3> HIDE DEF kept
    <3>3. h'[a].at = "backup"
      BY <3>2 DEF Started, TypeOK
    <3> QED BY <1>0, <2>1, <3>1, <3>2, <3>3, GeoBegins DEF GeoOps
  <2>5. CASE ~ok
    <3>1. End(a)
      BY <2>3, <2>5 DEF End
    <3>2. h'[a].at = "idle"
      BY <3>1 DEF End, Idle, TypeOK
    <3> QED BY <1>0, <2>1, <3>1, <3>2, BystanderEnds
  <2> QED BY <2>4, <2>5
<1> QED BY <1>1, <1>2, <1>3

\* Routing, WARP and clients.apply do not touch the files or their candidate.
LEMMA OtherBeginPaired ==
  ASSUME TypeOK, Paired, NEW a \in Helpers,
         \/ BeginRouteApply(a) \/ BeginRouteRollback(a)
         \/ \E op \in WarpOps : BeginWarpCreate(a, op) \/ BeginWarpSwitch(a, op)
         \/ TestWarp(a) \/ BeginClients(a)
  PROVE  Paired'
<1>0. ~Busy(a) /\ h[a].op \notin GeoOps
  BY IdleIsNoGeo DEF BeginRouteApply, BeginRouteRollback, BeginWarpCreate, BeginWarpSwitch,
                     TestWarp, BeginClients, MayBegin
<1>1. UNCHANGED <<geoLock, geoCand, geoBackup>>
  BY DEF BeginRouteApply, BeginRouteRollback, BeginWarpCreate, BeginWarpSwitch,
         TestWarp, BeginClients, staged, backups
<1>2. live'.geo = live.geo
  BY DEF BeginRouteApply, BeginRouteRollback, BeginWarpCreate, BeginWarpSwitch,
         TestWarp, BeginClients, disk, TypeOK, Live
<1>3. End(a) \/ \E op \in Ops \ GeoOps, at \in Steps \ GeoSteps : \E next : h' = Started(a, op, at, next)
  <2>1. ASSUME BeginRouteApply(a)
        PROVE  End(a) \/ \E next : h' = Started(a, "route.apply", "write", next)
    BY <2>1 DEF BeginRouteApply, BeginIf, End
  <2>2. ASSUME BeginRouteRollback(a)
        PROVE  \E at \in {"test", "undo"} : \E next : h' = Started(a, "route.rollback", at, next)
    BY <2>2 DEF BeginRouteRollback
  <2>3. ASSUME NEW op \in WarpOps, BeginWarpCreate(a, op)
        PROVE  End(a) \/ \E w \in WarpOps : \E next : h' = Started(a, w, "save", next)
    BY <2>3 DEF BeginWarpCreate, BeginIf, End, WarpOps
  <2>4. ASSUME NEW op \in WarpOps, BeginWarpSwitch(a, op)
        PROVE  End(a) \/ \E w \in WarpOps : \E next : h' = Started(a, w, "save", next)
    BY <2>4 DEF BeginWarpSwitch
  <2>5. ASSUME BeginClients(a)
        PROVE  \E at \in {"install", "relapse"} : \E next : h' = Started(a, "clients", at, next)
    BY <2>5 DEF BeginClients
  <2>6. /\ WarpOps \subseteq Ops \ GeoOps
        /\ {"route.apply", "route.rollback", "clients"} \subseteq Ops \ GeoOps
        /\ {"write", "test", "undo", "save", "install", "relapse"} \subseteq Steps \ GeoSteps
    BY DEF Ops, GeoOps, RouteOps, WarpOps, Steps, GeoSteps
  <2> QED BY <2>1, <2>2, <2>3, <2>4, <2>5, <2>6 DEF TestWarp
<1>4. ASSUME NEW op \in Ops \ GeoOps, NEW at \in Steps \ GeoSteps, NEW next,
             h' = Started(a, op, at, next)
      PROVE  Paired'
  <2> DEFINE new == [op |-> op, at |-> at, old |-> live, next |-> next, keep |-> warp,
                     form |-> IF op = "route.apply" THEN routeCand.form ELSE None,
                     was |-> Up, start |-> State]
  <2>1. h' = [h EXCEPT ![a] = new] /\ new.op = op /\ new.at = at
    BY <1>4 DEF Started
  <2> HIDE DEF new
  <2> QED BY <1>0, <1>1, <1>2, <2>1, Bystander
<1> QED BY <1>0, <1>1, <1>2, <1>3, <1>4, BystanderEnds

LEMMA GeoStepsPaired ==
  ASSUME TypeOK, Paired, NEW a \in Helpers,
         \/ BackUp(a) \/ StopXray(a) \/ CopyIp(a) \/ CopySite(a) \/ WriteRouting(a)
         \/ RestoreIp(a) \/ RestoreBackup(a) \/ StartXray(a) \/ WriteManifest(a) \/ GeoBreaks(a)
  PROVE  Paired'
<1>1. h[a].at \in GeoSteps \ {"undo site"}
  BY DEF BackUp, StopXray, CopyIp, CopySite, WriteRouting, RestoreIp, RestoreBackup, StartXray,
         WriteManifest, GeoBreaks, GeoSteps
<1>2. /\ h[a].op \in GeoOps /\ geoLock = a /\ h[a].at # "idle"
      /\ Even(h[a].old.geo) /\ Even(h[a].next.geo)
  BY <1>1 DEF Paired, Holds, GeoSteps
<1>3. h[a].at \notin {"site", "restore site"} => Even(live.geo)
  BY <1>1, <1>2, EvenUnless DEF GeoSteps, Halves
<1>4. h[a] \in Locals /\ live \in Live /\ DOMAIN h = Helpers
  BY <1>2, BusyLocals, HelpersType DEF TypeOK
<1>5. CASE BackUp(a)
  <2>1. Even(live.geo) /\ UNCHANGED <<live, geoCand>>
    BY <1>3, <1>5 DEF BackUp, disk, staged
  <2>2. \/ /\ geoBackup' = [whole |-> TRUE, live |-> live] /\ UNCHANGED geoLock
           /\ h' = [h EXCEPT ![a].at = "stop", ![a].old = live, ![a].was = Up]
        \/ /\ geoBackup' \in {geoBackup, Unfinished} /\ End(a) /\ geoLock' = None
    BY <1>5 DEF BackUp
  <2>3. ASSUME geoBackup' = [whole |-> TRUE, live |-> live], UNCHANGED geoLock,
               h' = [h EXCEPT ![a].at = "stop", ![a].old = live, ![a].was = Up]
        PROVE  Paired'
    <3>1. /\ h'[a].op = h[a].op /\ h'[a].at = "stop" /\ h'[a].old = live /\ h'[a].next = h[a].next
          /\ \A b \in Helpers \ {a} : h'[b] = h[b]
      BY <1>4, <2>3 DEF Locals
    <3>2. Holds(a)'
      BY <1>2, <2>1, <2>3, <3>1 DEF Holds, GeoSteps, Even
    <3>3. \A b \in Helpers \ {a} : Holds(b)'
      BY <1>2, <2>3, <3>1, OthersHold
    <3>4. PairTogether' /\ BackupsAreWhole'
      BY <2>1, <2>3 DEF PairTogether, BackupsAreWhole, Even
    <3> QED BY <3>2, <3>3, <3>4 DEF Paired
  <2>4. ASSUME geoBackup' \in {geoBackup, Unfinished}, End(a), geoLock' = None
        PROVE  Paired'
    <3>1. BackupsAreWhole'
      BY <2>4 DEF Paired, BackupsAreWhole, Unfinished
    <3> QED BY <1>2, <2>1, <2>4, <3>1, HolderEnds
  <2> QED BY <2>2, <2>3, <2>4
<1>6. CASE StopXray(a)
  <2>1. Even(live.geo) /\ UNCHANGED <<live, geoLock, geoCand, geoBackup>>
    BY <1>3, <1>6 DEF StopXray, disk, staged, backups
  <2>2. Goto(a, IF h[a].op = "geo.apply" THEN "ip" ELSE "restore")
    BY <1>6 DEF StopXray
  <2> QED BY <1>2, <2>1, <2>2, HolderMoves DEF Halves, GeoSteps
<1>7. CASE CopyIp(a)
  <2>1. live'.geo.ip = geoCand.pair
    BY <1>4, <1>7 DEF CopyIp, Live, GeoFiles
  <2> QED BY <1>2, <1>7, <2>1, HolderMoves DEF Halves, CopyIp, GeoSteps, staged, backups
<1>8. CASE CopySite(a)
  <2>1. live.geo.ip = geoCand.pair
    BY <1>8 DEF CopySite, Paired, Holds
  <2>2. Even(live'.geo)
    BY <1>4, <1>8, <2>1 DEF CopySite, Live, GeoFiles, Even
  <2> QED BY <1>2, <1>8, <2>2, HolderMoves DEF Halves, CopySite, GeoSteps, staged, backups
<1>9. CASE WriteRouting(a)
  <2>1. Even(live'.geo)
    BY <1>3, <1>4, <1>9 DEF WriteRouting, Live, Even
  <2> QED BY <1>2, <1>9, <2>1, HolderMoves DEF Halves, WriteRouting, GeoSteps, staged, backups
<1>10. CASE RestoreBackup(a)
  <2>1. live.geo.ip = h[a].next.geo.ip
    BY <1>10 DEF RestoreBackup, Paired, Holds
  <2>2. h[a].next \in Live
    BY <1>4 DEF Locals
  <2>3. Even(live'.geo)
    BY <1>2, <1>10, <2>1, <2>2 DEF RestoreBackup, Even, Live, GeoFiles
  <2> QED BY <1>2, <1>10, <2>3, HolderMoves DEF Halves, RestoreBackup, GeoSteps, staged, backups
<1>11. CASE StartXray(a)
  <2>1. Even(live'.geo) /\ UNCHANGED <<geoLock, geoCand, geoBackup>>
    BY <1>3, <1>11 DEF StartXray, disk, staged, backups
  <2>2. PICK s \in {"manifest", "done", "undo"} : Goto(a, s)
    BY <1>11 DEF StartXray
  <2> QED BY <1>2, <2>1, <2>2, HolderMoves DEF Halves, GeoSteps
<1>12. CASE WriteManifest(a)
  <2>1. Even(live'.geo)
    BY <1>3, <1>4, <1>12 DEF WriteManifest, Live, Even
  <2> QED BY <1>2, <1>12, <2>1, HolderMoves DEF Halves, WriteManifest, GeoSteps, staged, backups
<1>13. CASE GeoBreaks(a)
  BY <1>2, <1>13, HolderMoves DEF Halves, GeoBreaks, GeoSteps, staged, backups, disk
<1>14. CASE RestoreIp(a)
  <2>1. live'.geo.ip = h[a].next.geo.ip
    BY <1>4, <1>14 DEF RestoreIp, Live, GeoFiles
  <2> QED BY <1>2, <1>14, <2>1, HolderMoves DEF Halves, RestoreIp, GeoSteps, staged, backups
<1> QED BY <1>5, <1>6, <1>7, <1>8, <1>9, <1>10, <1>11, <1>12, <1>13, <1>14

LEMMA OtherStepsPaired ==
  ASSUME TypeOK, Paired, NEW a \in Helpers,
         \/ TestRouteBackup(a) \/ WriteRoute(a) \/ SaveWarp(a) \/ WriteWarp(a)
         \/ RestartXray(a) \/ WritePolicy(a) \/ Unlink(a) \/ FilesBreak(a)
         \/ InstallClients(a) \/ RestartClients(a) \/ Relapse(a)
  PROVE  Paired'
<1>1. h[a].at \in Steps \ (GeoSteps \cup {"undo", "revive", "done"})
  BY DEF TestRouteBackup, WriteRoute, SaveWarp, WriteWarp, RestartXray, WritePolicy, Unlink,
         FilesBreak, InstallClients, RestartClients, Relapse, GeoSteps, Steps
<1>2. h[a].op \notin GeoOps /\ h[a].at # "idle"
  BY <1>1 DEF Paired, Holds, Steps
<1>3. UNCHANGED <<geoLock, geoCand, geoBackup>>
  BY DEF TestRouteBackup, WriteRoute, SaveWarp, WriteWarp, RestartXray, WritePolicy, Unlink,
         FilesBreak, InstallClients, RestartClients, Relapse, staged, backups
<1>4. live'.geo = live.geo
  BY DEF TestRouteBackup, WriteRoute, SaveWarp, WriteWarp, RestartXray, WritePolicy, Unlink,
         FilesBreak, InstallClients, RestartClients, Relapse, disk, TypeOK, Live
<1>5. End(a) \/ \E s \in Steps \ GeoSteps : Goto(a, s)
  <2> DEFINE Then == {"done", "write", "undo", "restart", "policy", "unlink", "relapse", "revive"}
  <2>1. Then \subseteq Steps \ GeoSteps
    BY DEF Steps, GeoSteps
  <2>2. TestRouteBackup(a) \/ WriteRoute(a) \/ SaveWarp(a) \/ WriteWarp(a)
        => \E s \in Then : Goto(a, s)
    BY DEF TestRouteBackup, WriteRoute, SaveWarp, WriteWarp
  <2>3. RestartXray(a) => \E s \in Then : Goto(a, s)
    BY DEF RestartXray
  <2>4. FilesBreak(a) \/ Unlink(a) \/ InstallClients(a) \/ RestartClients(a)
        => \E s \in Then : Goto(a, s)
    BY DEF FilesBreak, Unlink, InstallClients, RestartClients
  <2>5. WritePolicy(a) \/ Relapse(a) => End(a) \/ \E s \in Then : Goto(a, s)
    BY DEF WritePolicy, Relapse
  <2> QED BY <2>1, <2>2, <2>3, <2>4, <2>5
<1>6. ASSUME NEW s \in Steps \ GeoSteps, Goto(a, s) PROVE Paired'
  BY <1>2, <1>3, <1>4, <1>6, BystanderMoves
<1>7. CASE End(a)
  BY <1>2, <1>3, <1>4, <1>7, BystanderEnds
<1> QED BY <1>5, <1>6, <1>7

\* The steps every operation has.
LEMMA SharedStepsPaired ==
  ASSUME TypeOK, Paired, Careful, NEW a \in Helpers,
         UndoIp(a) \/ Undo(a) \/ Revive(a) \/ Done(a) \/ Kill(a)
  PROVE  Paired'
<1>1. h[a].at # "idle"
  BY DEF UndoIp, Undo, UndoStep, Revive, Done, Kill, Busy
<1>2. h[a] \in Locals /\ live \in Live
  BY <1>1, BusyLocals, HelpersType DEF TypeOK
<1>3. h[a].op \in GeoOps => geoLock = a /\ Even(h[a].old.geo)
  BY DEF Paired, Holds
<1>4. h[a].op \notin GeoOps => geoLock # a
  BY DEF Paired, Holds
<1>5. CASE Undo(a)
  <2>1. Goto(a, "revive") /\ UNCHANGED <<geoLock, geoCand, geoBackup>>
    BY <1>5 DEF Undo, staged, backups
  <2>2. CASE h[a].op \in GeoOps
    <3>1. live' = [h[a].old EXCEPT !.geo.ip = live.geo.ip] /\ live.geo.ip = h[a].old.geo.ip
      <4>1. h[a].at = "undo site"
        BY <1>5, <2>2 DEF Undo, UndoStep
      <4>2. live.geo.ip = h[a].old.geo.ip
        BY <4>1 DEF Paired, Holds
      <4>3. live' = [h[a].old EXCEPT !.geo.ip = live.geo.ip]
        BY <1>5, <2>2 DEF Undo, GeoOps, RouteOps
      <4> QED BY <4>2, <4>3
    <3>2. h[a].old \in Live
      BY <1>2 DEF Locals
    <3>3. Even(live'.geo)
      BY <1>3, <2>2, <3>1, <3>2 DEF Even, Live, GeoFiles
    <3> QED BY <1>1, <2>1, <2>2, <3>3, HolderMoves DEF Halves
  <2>3. CASE h[a].op \notin GeoOps
    <3>1. live'.geo = live.geo
      BY <1>2, <1>5, <2>3 DEF Undo, Live
    <3> QED BY <1>1, <2>1, <2>3, <3>1, BystanderMoves DEF GeoSteps
  <2> QED BY <2>2, <2>3
<1>6. CASE Revive(a) \/ Done(a) \/ Kill(a)
  <2>1. End(a) /\ UNCHANGED <<live, geoCand>> /\ geoLock' = IF geoLock = a THEN None ELSE geoLock
    BY <1>6 DEF Revive, Done, Kill, End, disk, staged
  <2>2. geoBackup' \in {geoBackup, Unfinished}
    BY <1>6 DEF Revive, Done, Kill, backups
  <2>3. BackupsAreWhole'
    BY <2>2 DEF Paired, BackupsAreWhole, Unfinished
  <2>4. CASE h[a].op \in GeoOps
    <3>1. h[a].at \notin Halves
      BY <1>6 DEF Careful, Halves, Revive, Done, Kill
    <3>2. Even(live.geo)
      BY <1>3, <2>4, <3>1, EvenUnless
    <3> QED BY <1>3, <2>1, <2>3, <2>4, <3>2, HolderEnds
  <2>5. CASE h[a].op \notin GeoOps
    <3>1. UNCHANGED geoBackup
      <4>1. h[a].at # "backup"
        BY <2>5 DEF Paired, Holds, GeoSteps
      <4> QED BY <1>6, <4>1 DEF Revive, Done, Kill, backups
    <3> QED BY <1>4, <2>1, <2>5, <3>1, BystanderEnds
  <2> QED BY <2>4, <2>5
<1>7. CASE UndoIp(a)
  <2>1. live'.geo.ip = h[a].old.geo.ip
    BY <1>2, <1>7 DEF UndoIp, Live, GeoFiles
  <2> QED BY <1>1, <1>7, <2>1, HolderMoves DEF Halves, GeoSteps, UndoIp, staged, backups
<1> QED BY <1>5, <1>6, <1>7

LEMMA InitPaired == Init => Paired
<1> SUFFICES ASSUME Init PROVE Paired
  OBVIOUS
<1>1. live.geo = Files(Installed) /\ geoLock = None /\ geoBackup = None /\ h = [a \in Helpers |-> Idle]
  BY DEF Init
<1>2. PairTogether /\ BackupsAreWhole
  BY <1>1 DEF PairTogether, BackupsAreWhole, Files
<1>3. ASSUME NEW a \in Helpers PROVE Holds(a)
  BY <1>1, RoutingAssumption DEF Holds, Idle, GeoOps, GeoSteps
<1> QED BY <1>2, <1>3 DEF Paired

LEMMA NextPaired == ASSUME TypeOK, Paired, Careful, [Next]_vars PROVE Paired'
<1>1. ASSUME NEW a \in Helpers, Begin(a) PROVE Paired'
  BY <1>1, BeginGeoPaired, OtherBeginPaired DEF Begin
<1>2. ASSUME NEW a \in Helpers, Continue(a) PROVE Paired'
  BY <1>2, GeoStepsPaired, OtherStepsPaired, SharedStepsPaired DEF Continue
<1>3. ASSUME NEW a \in Helpers, Kill(a) PROVE Paired'
  BY <1>3, SharedStepsPaired
<1>4. CASE UNCHANGED vars
  BY <1>4 DEF vars, Paired, PairTogether, BackupsAreWhole, Holds
<1> QED BY <1>1, <1>2, <1>3, <1>4, PanelPaired DEF Next

\* However many helpers overlap and fail, as long as no source is checked while
\* a pair is being applied and none is killed between the two copies or before
\* it has undone them: geoip.dat and geosite.dat are from one source except
\* while the lock's holder is copying them.
THEOREM PairsStayTogether == ASSUME Careful PROVE Spec => []PairTogether
<1>1. Init => TypeOK /\ Paired
  BY InitType, InitPaired
<1>2. TypeOK /\ Paired /\ [Next]_vars => (TypeOK /\ Paired)'
  BY NextType, NextPaired
<1>3. Paired => PairTogether
  BY DEF Paired
<1> QED BY <1>1, <1>2, <1>3, PTL DEF Spec

\* ...and a backup that was finished and verified holds one pair, so that a
\* rollback never installs a file of each source.
THEOREM FinishedBackupsAreWhole == ASSUME Careful PROVE Spec => []BackupsAreWhole
<1>1. Init => TypeOK /\ Paired
  BY InitType, InitPaired
<1>2. TypeOK /\ Paired /\ [Next]_vars => (TypeOK /\ Paired)'
  BY NextType, NextPaired
<1>3. Paired => BackupsAreWhole
  BY DEF Paired
<1> QED BY <1>1, <1>2, <1>3, PTL DEF Spec

-----------------------------------------------------------------------------
\* Operations that wait for one another.  Only one is under way, and the record
\* of how everything was when it began says at each step what has become of the
\* files (Lives), of the service (Serves) and of what it installs (Aims).

\* Killed where nothing is written yet, or everything is undone or answered.
Harmless == Kills \subseteq {"backup", "stop", "ip", "restore", "save", "revive", "done"}

\* Rules that nobody has brought back from an older config; a server without
\* config.json has none in force.
Trusted == ~relapsed /\ TRUE \notin Fresh

Named(l) == l.manifest # None => Offers(l.geo) = CatsOf[l.manifest]
Kept(l) == /\ Trusted => l.config # None /\ l.config.rules = l.managed
           /\ l.config # None => l.config.rev <= users
Whole(l) == Named(l) /\ Kept(l) /\ (Trusted => Accepts(l.config, l.geo))
Runs(l) == Up /\ "revive" \notin Kills => service = [config |-> l.config, geo |-> l.geo]

StepsOf(op) ==
  CASE op = "geo.apply" -> {"backup", "stop", "ip", "site", "rules", "start", "manifest",
                            "undo", "undo site", "revive", "done"}
    [] op = "geo.rollback" -> {"backup", "stop", "restore", "restore site", "start",
                               "undo", "undo site", "revive", "done"}
    [] op = "route.apply" -> {"write", "restart", "policy", "undo", "revive", "done"}
    [] op = "route.rollback" -> {"test", "write", "restart", "undo", "revive", "done"}
    [] op = "clients" -> {"install", "restart", "relapse", "revive", "done"}
    [] op = "warp.remove" -> {"save", "write", "restart", "unlink", "undo", "revive", "done"}
    [] op \in {"warp.install", "warp.recreate", "warp.enable", "warp.disable"} ->
         {"save", "write", "restart", "undo", "revive", "done"}
    [] OTHER -> {}

\* What route.apply installs.
Applied(o, b) ==
  [b EXCEPT !.managed = o.next.managed, !.config = IF @ = None THEN None ELSE o.next.config]

\* The files, for an operation o that found b.
Lives(o, b) ==
  /\ o.at \in {"backup", "stop", "ip", "restore", "save", "install"} => live = b
  /\ o.at = "write" /\ o.op # "route.rollback" => live = b
  /\ o.at \in {"test", "write"} /\ o.op = "route.rollback" => live = [b EXCEPT !.managed = o.next.managed]
  /\ o.at \in {"site", "restore site"} => live = [b EXCEPT !.geo = [ip |-> o.next.geo.ip, site |-> b.geo.site]]
  /\ o.at = "rules" => live = [b EXCEPT !.geo = o.next.geo]
  /\ o.at \in {"start", "manifest"} /\ o.op = "geo.apply" =>
       live = [o.next EXCEPT !.manifest = b.manifest, !.config = IF b.config = None THEN None ELSE @]
  /\ o.at = "start" /\ o.op = "geo.rollback" => live = o.next
  /\ o.at = "restart" /\ o.op \in RouteOps => live \in {o.next, [o.next EXCEPT !.config = b.config]}
  /\ o.at = "restart" /\ o.op = "route.apply" /\ b.config = None => live.config = None
  /\ o.at \in {"restart", "policy"} /\ o.op = "route.apply" => live = Applied(o, b)
  /\ o.at = "undo site" => live.geo.ip = b.geo.ip
  /\ o.at = "restart" /\ o.op = "clients" => live = o.next /\ previous = b.config
  /\ o.at \in {"restart", "policy", "unlink", "done"} => Whole(live)
  /\ o.op \in WarpOps /\ o.at # "done" => live = [b EXCEPT !.config = live.config]
  /\ o.at = "undo" /\ o.op \in RouteOps => live = [b EXCEPT !.managed = live.managed, !.config = live.config]
  /\ o.at = "revive" /\ o.op # "clients" => live = b
  /\ o.at = "revive" /\ o.op = "clients" => Whole(live)
  /\ o.at = "relapse" => live = b \/ (live = o.next /\ previous = b.config)
  /\ o.op \notin {"geo.rollback", "route.rollback", "clients"} /\ b.config # None =>
       live.config # None /\ live.config.rev = b.config.rev

\* The service.
Serves(o, b) ==
  /\ o.at \in {"backup", "stop", "test", "write", "restart", "save", "install"} => Runs(b) /\ (Up => o.was)
  /\ o.at \in {"ip", "site", "rules", "restore", "restore site", "start"} => ~Up
  /\ o.at \in {"undo", "undo site", "unlink", "revive"} /\ o.op # "clients" => Runs(b) \/ (o.was /\ b.config # None)
  /\ o.at \in {"manifest", "policy", "unlink", "relapse", "done"} => Runs(live)
  /\ o.at = "manifest" => (Up => o.was /\ b.config # None)

\* What is to be installed.
AimSteps == {"backup", "stop", "ip", "site", "rules", "restore", "restore site", "start", "manifest",
             "write", "restart", "install"}
PairSteps == {"backup", "stop", "ip", "site"}
RuleSteps == PairSteps \cup {"rules", "write"}
Aims(o, b) ==
  /\ o.at \in AimSteps => Whole(o.next)
  /\ o.at = "test" => Kept(o.next)
  /\ o.op \in RouteOps \cup {"clients"} => o.next.geo = b.geo /\ o.next.manifest = b.manifest
  /\ o.op = "clients" => o.next.managed = b.managed
  /\ o.op \in WarpOps => o.next = b
  /\ o.op = "geo.apply" => o.next.manifest \in Pairs /\ o.next.geo = Files(o.next.manifest)
  /\ o.op = "geo.apply" /\ o.at \in PairSteps => geoCand # None /\ geoCand.pair = o.next.manifest
  /\ o.op \in {"geo.apply", "route.apply"} =>
       /\ o.next.config # None
       /\ b.config # None => o.next.config.rev = b.config.rev
       /\ o.at \in RuleSteps => Loadable(o.next.managed, warp)
  /\ o.op = "clients" /\ o.at = "install" => o.next.config # None /\ o.next.config.rev = users
  /\ o.op \in {"warp.disable", "warp.remove"} => ~UsesWarp(b.managed)

Story(o) ==
  /\ o.at \in StepsOf(o.op)
  /\ o.old = o.start.live /\ o.keep = o.start.warp /\ Whole(o.start.live)
  /\ o.at # "done" => policy = o.start.policy
  /\ o.op \notin WarpOps \/ o.at \in {"save", "revive"} => warp = o.start.warp
  /\ Lives(o, o.start.live) /\ Serves(o, o.start.live) /\ Aims(o, o.start.live)

Backed ==
  /\ geoBackup # None /\ geoBackup.whole => Whole(geoBackup.live)
  /\ routeBackup # None => Kept(routeBackup)
  /\ previous # None => previous.rev <= users
Rest == Whole(live) /\ Runs(live)
InTurn ==
  alone =>
    /\ \A a, b \in Helpers : Busy(a) /\ Busy(b) => a = b
    /\ \A a \in Helpers : Busy(a) => staging = None /\ Story(h[a])
    /\ (\A a \in Helpers : ~Busy(a)) => Rest
    /\ Backed

-----------------------------------------------------------------------------
\* What holds when an operation is in turn.
LEMMA TurnOf ==
  ASSUME TypeOK, InTurn, alone, NEW a \in Helpers, Busy(a)
  PROVE  /\ h[a] \in Locals /\ h[a].start.live \in Live /\ Story(h[a]) /\ staging = None
         /\ \A b \in Helpers \ {a} : ~Busy(b)
         /\ Backed
<1>1. h[a] \in Locals
  BY HelpersType, BusyLocals DEF Busy
<1>2. h[a].start.live \in Live
  BY <1>1 DEF Locals
<1> QED BY <1>1, <1>2 DEF InTurn

\* Nobody begins beside it.
LEMMA RestOf ==
  ASSUME TypeOK, InTurn, alone, Quiet
  PROVE  Rest /\ Backed
BY DEF InTurn, Quiet

LEMMA TurnMoves ==
  ASSUME TypeOK, InTurn, alone, NEW a \in Helpers, Busy(a), NEW n, h' = [h EXCEPT ![a] = n],
         Story(n)', staging' = staging, Backed'
  PROVE  InTurn'
<1>1. h'[a] = n /\ \A b \in Helpers \ {a} : h'[b] = h[b] /\ ~Busy(b)
  BY TurnOf, HelpersType
<1>2. staging' = None
  BY TurnOf
<1>3. ASSUME NEW b \in Helpers, Busy(b)' PROVE b = a
  BY <1>1, <1>3 DEF Busy
<1>4. Busy(a)'
  <2>1. n.at \in StepsOf(n.op)
    BY DEF Story
  <2> QED BY <1>1, <2>1 DEF Busy, StepsOf
<1>5. Story(h[a])'
  BY <1>1
<1>6. ASSUME NEW b \in Helpers, Busy(b)' PROVE Story(h[b])'
  <2>1. PICK c \in Helpers : c = a /\ c = b
    BY <1>3, <1>6
  <2>2. h'[b] = n
    BY <1>1, <2>1
  <2> QED BY <2>2
<1> QED BY <1>2, <1>3, <1>4, <1>6 DEF InTurn

LEMMA TurnEnds ==
  ASSUME TypeOK, InTurn, alone, NEW a \in Helpers, Busy(a), End(a), Rest', Backed'
  PROVE  InTurn'
<1>1. h'[a] = Idle /\ \A b \in Helpers \ {a} : h'[b] = h[b] /\ ~Busy(b)
  BY TurnOf, HelpersType DEF End
<1>2. \A b \in Helpers : ~Busy(b)'
  BY <1>1 DEF Busy, Idle
<1> QED BY <1>2 DEF InTurn

LEMMA TurnBegins ==
  ASSUME TypeOK, InTurn, alone, Quiet, NEW a \in Helpers, NEW n, h' = [h EXCEPT ![a] = n],
         Story(n)', staging' = staging, Backed'
  PROVE  InTurn'
<1>1. h'[a] = n /\ \A b \in Helpers \ {a} : h'[b] = h[b] /\ ~Busy(b)
  BY HelpersType DEF Quiet
<1>2. staging' = None
  BY DEF Quiet
<1>3. ASSUME NEW b \in Helpers, Busy(b)' PROVE b = a
  BY <1>1, <1>3 DEF Busy
<1>4. Busy(a)'
  <2>1. n.at \in StepsOf(n.op)
    BY DEF Story
  <2> QED BY <1>1, <2>1 DEF Busy, StepsOf
<1>6. ASSUME NEW b \in Helpers, Busy(b)' PROVE Story(h[b])'
  <2>1. PICK c \in Helpers : c = a /\ c = b
    BY <1>3, <1>6
  <2>2. h'[b] = n
    BY <1>1, <2>1
  <2> QED BY <2>2
<1> QED BY <1>2, <1>3, <1>4, <1>6 DEF InTurn

LEMMA TurnRests ==
  ASSUME TypeOK, InTurn, \A b \in Helpers : ~Busy(b), h' = h \/ (\E a \in Helpers : End(a)), Rest', Backed'
  PROVE  InTurn'
<1>1. \A b \in Helpers : ~Busy(b)'
  BY HelpersType DEF Busy, End, Idle
<1> QED BY <1>1 DEF InTurn

\* What is whole stays so while the clients and the relapses are the same, or grow.
LEMMA WholeStays ==
  ASSUME TypeOK, users <= users', users' \in Nat, relapsed => relapsed', NEW l,
         l.config = None \/ l.config.rev \in Nat
  PROVE  /\ Whole(l) => Whole(l)'
         /\ Kept(l) => Kept(l)'
<1>1. users \in Nat
  BY RoutingAssumption DEF TypeOK
<1>2. Trusted' => Trusted
  BY DEF Trusted
<1>3. l.config # None /\ l.config.rev <= users => l.config.rev <= users'
  <2>1. PICK r : r = l.config.rev
    OBVIOUS
  <2>2. r \in Nat /\ r <= users => r <= users'
    BY <1>1
  <2> QED BY <2>1, <2>2
<1>4. Kept(l) => Kept(l)'
  BY <1>2, <1>3 DEF Kept
<1> QED BY <1>2, <1>4 DEF Whole, Named

LEMMA SameWhole ==
  ASSUME UNCHANGED <<users, relapsed>>, NEW l
  PROVE  (Whole(l)' <=> Whole(l)) /\ (Kept(l)' <=> Kept(l))
BY DEF Whole, Kept, Named, Trusted

LEMMA SameBacked ==
  ASSUME Backed, UNCHANGED <<users, relapsed, geoBackup, routeBackup, previous>>
  PROVE  Backed'
<1>1. PICK g : g = geoBackup
  OBVIOUS
<1>2. PICK r : r = routeBackup
  OBVIOUS
<1>3. g # None /\ g.whole => Whole(g.live)'
  BY <1>1, SameWhole DEF Backed
<1>4. r # None => Kept(r)'
  BY <1>2, SameWhole DEF Backed
<1> QED BY <1>1, <1>2, <1>3, <1>4 DEF Backed

-----------------------------------------------------------------------------
\* Going on from one step to the next.

Onto(o, s) == [o EXCEPT !.at = s]

LEMMA NextFields ==
  ASSUME NEW o \in Locals, NEW s \in Steps
  PROVE  /\ Onto(o, s) \in Locals /\ Onto(o, s).at = s /\ Onto(o, s).op = o.op
         /\ Onto(o, s).old = o.old /\ Onto(o, s).next = o.next /\ Onto(o, s).keep = o.keep
         /\ Onto(o, s).form = o.form /\ Onto(o, s).was = o.was /\ Onto(o, s).start = o.start
BY DEF Onto, Locals

\* The aims of an operation stay, if a step that needs one more has it.
LEMMA AimsStay ==
  ASSUME NEW o \in Locals, NEW n, NEW b, Aims(o, b), UNCHANGED <<users, relapsed>>,
         n.op = o.op, n.next = o.next, n.at \notin {"test", "install"},
         n.at \in AimSteps => o.at \in AimSteps \/ Whole(o.next),
         n.op = "geo.apply" /\ n.at \in PairSteps => o.at \in PairSteps /\ geoCand' = geoCand,
         n.op \in {"geo.apply", "route.apply"} /\ n.at \in RuleSteps => o.at \in RuleSteps /\ warp' = warp
  PROVE  Aims(n, b)'
<1>1. n.at \in AimSteps => Whole(n.next)'
  <2>1. PICK x : x = n.next
    OBVIOUS
  <2>2. n.at \in AimSteps => Whole(x)
    BY <2>1 DEF Aims
  <2>3. n.at \in AimSteps => Whole(x)'
    BY <2>2, SameWhole
  <2> QED BY <2>1, <2>3
<1>2. n.op \in {"geo.apply", "route.apply"} /\ n.at \in RuleSteps => Loadable(n.next.managed, warp')
  BY DEF Aims
<1>3. n.op = "geo.apply" /\ n.at \in PairSteps => geoCand' # None /\ geoCand'.pair = n.next.manifest
  BY DEF Aims
<1>4. /\ n.op \in RouteOps \cup {"clients"} => n.next.geo = b.geo /\ n.next.manifest = b.manifest
      /\ n.op = "clients" => n.next.managed = b.managed
      /\ n.op \in WarpOps => n.next = b
      /\ n.op = "geo.apply" => n.next.manifest \in Pairs /\ n.next.geo = Files(n.next.manifest)
      /\ n.op \in {"geo.apply", "route.apply"} =>
            n.next.config # None /\ (b.config # None => n.next.config.rev = b.config.rev)
      /\ n.op \in {"warp.disable", "warp.remove"} => ~UsesWarp(b.managed)
  BY DEF Aims
<1> QED BY <1>1, <1>2, <1>3, <1>4 DEF Aims, Loadable, Usable

LEMMA GoesOn ==
  ASSUME TypeOK, InTurn, alone,
         UNCHANGED <<staging, users, relapsed, geoBackup, routeBackup>>,
         previous' = previous \/ (previous' # None => previous'.rev <= users),
         NEW a \in Helpers, Busy(a), NEW s \in Steps, Goto(a, s), s \in StepsOf(h[a].op),
         h[a].at # "done",
         NEW n, n = Onto(h[a], s),
         s = "done" \/ policy' = policy,
         h[a].op \notin WarpOps => warp' = warp, s # "save",
         s = "revive" => warp' = h[a].start.warp,
         NEW b, b = h[a].start.live, Lives(n, b)', Serves(n, b)', Aims(n, b)'
  PROVE  InTurn'
<1>1. h[a] \in Locals /\ Story(h[a]) /\ Backed
  BY TurnOf
<1>2. h' = [h EXCEPT ![a] = n]
  BY HelpersType DEF Goto, Onto
<1>3. /\ n.at = s /\ n.op = h[a].op /\ n.old = h[a].old /\ n.keep = h[a].keep /\ n.start = h[a].start
  BY <1>1, NextFields
<1>4. Backed'
  <2>1. CASE previous' = previous
    BY <1>1, <2>1, SameBacked
  <2>2. CASE previous' # None => previous'.rev <= users
    <3>1. PICK g : g = geoBackup
      OBVIOUS
    <3>2. PICK r : r = routeBackup
      OBVIOUS
    <3>3. g # None /\ g.whole => Whole(g.live)'
      BY <1>1, <3>1, SameWhole DEF Backed
    <3>4. r # None => Kept(r)'
      BY <1>1, <3>2, SameWhole DEF Backed
    <3> QED BY <2>2, <3>1, <3>2, <3>3, <3>4 DEF Backed
  <2> QED BY <2>1, <2>2
<1>5. Story(n)'
  <2>2. Whole(b)'
    BY <1>1, SameWhole DEF Story
  <2>4. /\ n.at \in StepsOf(n.op) /\ n.start.live = b
        /\ n.old = n.start.live /\ n.keep = n.start.warp
        /\ n.at # "done" => policy' = n.start.policy
        /\ n.op \notin WarpOps \/ n.at \in {"save", "revive"} => warp' = n.start.warp
    <3>1. n.at # "done" => policy' = n.start.policy
      BY <1>1, <1>3 DEF Story
    <3> QED BY <1>1, <1>3, <3>1 DEF Story
  <2> QED BY <2>2, <2>4 DEF Story
<1> QED BY <1>2, <1>4, <1>5, TurnMoves

\* Which operation is at a step.
LEMMA OpAt ==
  ASSUME NEW op \in Ops, NEW s \in StepsOf(op)
  PROVE  /\ op \notin {"geo.check", "warp.test"}
         /\ s \in {"backup", "stop", "start"} => op \in {"geo.apply", "geo.rollback"}
         /\ s \in {"ip", "site", "rules", "manifest"} => op = "geo.apply"
         /\ s \in {"restore", "restore site"} => op = "geo.rollback"
         /\ s = "undo site" => op \in {"geo.apply", "geo.rollback"}
         /\ s = "test" => op = "route.rollback"
         /\ s = "policy" => op = "route.apply"
         /\ s = "save" => op \in WarpOps
         /\ s = "unlink" => op = "warp.remove"
         /\ s \in {"install", "relapse"} => op = "clients"
         /\ s = "undo" => op # "clients"
         /\ s \in {"write", "restart"} => op \notin GeoOps
         /\ s = "write" => op # "clients"
<1>1. op \in {"geo.check", "geo.apply", "geo.rollback", "route.apply", "route.rollback", "warp.install",
             "warp.recreate", "warp.enable", "warp.disable", "warp.remove", "warp.test", "clients"}
  BY DEF Ops, GeoOps, RouteOps, WarpOps
<1>2. CASE op = "geo.apply"
  BY <1>2 DEF StepsOf, GeoOps, WarpOps
<1>3. CASE op = "geo.rollback"
  BY <1>3 DEF StepsOf, GeoOps, WarpOps
<1>4. CASE op \in {"route.apply", "route.rollback", "clients"}
  BY <1>4 DEF StepsOf, GeoOps, WarpOps
<1>5. CASE op \in {"warp.install", "warp.recreate", "warp.enable", "warp.disable", "warp.remove"}
  BY <1>5 DEF StepsOf, GeoOps, WarpOps
<1>6. CASE op \in {"geo.check", "warp.test"}
  BY <1>6 DEF StepsOf
<1> QED BY <1>1, <1>2, <1>3, <1>4, <1>5, <1>6

LEMMA OpKinds ==
  ASSUME NEW op
  PROVE  /\ op \in GeoOps <=> op \in {"geo.check", "geo.apply", "geo.rollback"}
         /\ op \in GeoOps => op \notin RouteOps \cup WarpOps \cup {"clients"}
         /\ op \in RouteOps <=> op \in {"route.apply", "route.rollback"}
         /\ op \in RouteOps => op \notin WarpOps \cup {"clients"}
         /\ op \in WarpOps => op # "clients"
BY DEF GeoOps, RouteOps, WarpOps

LEMMA GeoInTurn ==
  ASSUME TypeOK, InTurn, alone, NEW a \in Helpers,
         StopXray(a) \/ CopyIp(a) \/ CopySite(a) \/ WriteRouting(a) \/ RestoreIp(a)
           \/ RestoreBackup(a) \/ StartXray(a) \/ WriteManifest(a) \/ GeoBreaks(a)
  PROVE  InTurn'
<1>1. /\ h[a].at \in {"stop", "ip", "site", "rules", "restore", "restore site", "start", "manifest"}
      /\ UNCHANGED <<previous, policy, warp, staging, geoCand, users, relapsed, geoBackup, routeBackup>>
  BY DEF StopXray, CopyIp, CopySite, WriteRouting, RestoreIp, RestoreBackup, StartXray,
         WriteManifest, GeoBreaks, disk, staged, backups
<1>2. Busy(a)
  BY <1>1 DEF Busy
<1>3. PICK o \in Locals : o = h[a]
  BY <1>2, TurnOf
<1>4. PICK b \in Live : b = o.start.live
  BY <1>2, <1>3, TurnOf
<1>5. /\ o.at \in StepsOf(o.op) /\ o.old = b /\ Whole(b)
      /\ Lives(o, b) /\ Serves(o, b) /\ Aims(o, b)
  BY <1>2, <1>3, <1>4, TurnOf DEF Story
<1>6. live \in Live /\ o.next \in Live
  BY DEF TypeOK, Locals
<1>7. o.op \in {"geo.apply", "geo.rollback"} /\ o.op \in GeoOps /\ o.op \notin RouteOps \cup WarpOps \cup {"clients"}
  <2>1. o.op \in Ops /\ o.at \in StepsOf(o.op)
    BY <1>5 DEF Locals
  <2>2. o.op \in {"geo.apply", "geo.rollback"}
    BY <1>1, <1>3, <2>1, OpAt
  <2> QED BY <2>2, OpKinds
\* Each step: where the operation goes, and what of its story is new.
<1> DEFINE At(s) == Onto(o, s)
<1>8. ASSUME NEW s \in Steps PROVE /\ At(s) \in Locals /\ At(s).at = s /\ At(s).op = o.op
                                  /\ At(s).next = o.next /\ At(s).old = o.old /\ At(s).was = o.was
  BY NextFields
<1>9. {"ip", "site", "rules", "restore", "restore site", "start", "manifest", "undo", "done"} \subseteq Steps
  BY DEF Steps
<1> HIDE DEF At
<1>10. ASSUME NEW s \in {"ip", "site", "rules", "restore", "restore site", "start", "manifest", "undo", "done"},
              s \in StepsOf(o.op), Goto(a, s),
              s \in PairSteps => o.at \in PairSteps, s \in RuleSteps => o.at \in RuleSteps,
              s \in AimSteps => o.at \in AimSteps,
              Lives(At(s), b)', Serves(At(s), b)'
       PROVE  InTurn'
  <2>1. Aims(At(s), b)'
    <3>1. s \in Steps /\ s \notin {"test", "install"}
      BY <1>9, <1>10
    <3>2. At(s).at = s /\ At(s).op = o.op /\ At(s).next = o.next
      BY <1>8, <3>1
    <3> QED BY <1>1, <1>5, <1>10, <3>1, <3>2, AimsStay
  <2>2. At(s) = Onto(h[a], s)
    BY <1>3 DEF At
  <2> QED BY <1>1, <1>2, <1>3, <1>4, <1>7, <1>9, <1>10, <2>1, <2>2, GoesOn
<1>11. ASSUME NEW s \in {"ip", "site", "rules", "restore", "restore site", "start", "manifest", "undo", "done"}
       PROVE  /\ At(s).at = s /\ At(s).op = o.op /\ At(s).next = o.next /\ At(s).was = o.was
              /\ At(s).op \in {"geo.apply", "geo.rollback"} /\ At(s).op \notin RouteOps \cup WarpOps \cup {"clients"}
  BY <1>7, <1>8, <1>9
<1>12. CASE StopXray(a)
  <2>1. o.at = "stop" /\ UNCHANGED live /\ Goto(a, IF o.op = "geo.apply" THEN "ip" ELSE "restore")
        /\ service' = IF o.was THEN None ELSE service
    BY <1>3, <1>12 DEF StopXray, disk
  <2>2. live = b /\ ~Up'
    BY <1>5, <2>1 DEF Lives, Serves, Up
  <2>3. CASE o.op = "geo.apply"
    <3>1. Lives(At("ip"), b)'
      BY <1>11, <2>1, <2>2, <2>3 DEF Lives
    <3>2. Serves(At("ip"), b)'
      BY <1>11, <2>2 DEF Serves, Up
    <3> QED BY <1>10, <2>1, <2>3, <3>1, <3>2 DEF StepsOf, PairSteps, RuleSteps, AimSteps
  <2>4. CASE o.op = "geo.rollback"
    <3>1. Lives(At("restore"), b)'
      BY <1>11, <2>1, <2>2, <2>4 DEF Lives
    <3>2. Serves(At("restore"), b)'
      BY <1>11, <2>2 DEF Serves, Up
    <3> QED BY <1>10, <2>1, <2>4, <3>1, <3>2 DEF StepsOf, PairSteps, RuleSteps, AimSteps
  <2> QED BY <1>7, <2>3, <2>4
<1>13. CASE CopyIp(a)
  <2>1. o.at = "ip" /\ live' = [live EXCEPT !.geo.ip = geoCand.pair] /\ Goto(a, "site") /\ UNCHANGED service
    BY <1>3, <1>13 DEF CopyIp
  <2>2. o.op = "geo.apply"
    BY <1>5, <1>7, <2>1 DEF StepsOf
  <2>3. live = b /\ ~Up /\ geoCand.pair = o.next.geo.ip
    BY <1>5, <2>1, <2>2 DEF Lives, Serves, Aims, PairSteps, Files
  <2>4. live' = [b EXCEPT !.geo = [ip |-> o.next.geo.ip, site |-> b.geo.site]]
    BY <1>6, <2>1, <2>3 DEF Live, GeoFiles
  <2>5. live'.config = b.config
    BY <2>4 DEF Live
  <2>6. Lives(At("site"), b)'
    BY <1>11, <2>2, <2>4, <2>5 DEF Lives
  <2>7. Serves(At("site"), b)'
    BY <1>11, <2>1, <2>3 DEF Serves, Up
  <2> QED BY <1>10, <2>1, <2>2, <2>6, <2>7 DEF StepsOf, PairSteps, RuleSteps, AimSteps
<1>14. CASE CopySite(a)
  <2>1. o.at = "site" /\ live' = [live EXCEPT !.geo.site = geoCand.pair] /\ Goto(a, "rules") /\ UNCHANGED service
    BY <1>3, <1>14 DEF CopySite
  <2>2. o.op = "geo.apply"
    BY <1>5, <1>7, <2>1 DEF StepsOf
  <2>3. /\ live = [b EXCEPT !.geo = [ip |-> o.next.geo.ip, site |-> b.geo.site]]
        /\ ~Up /\ geoCand.pair = o.next.geo.site
    BY <1>5, <2>1, <2>2 DEF Lives, Serves, Aims, PairSteps, Files
  <2>4. live' = [b EXCEPT !.geo = o.next.geo]
    <3>1. o.next.geo = [ip |-> o.next.geo.ip, site |-> o.next.geo.site]
      BY <1>6 DEF Live, GeoFiles
    <3>2. live.geo = [ip |-> o.next.geo.ip, site |-> b.geo.site]
      BY <2>3 DEF Live
    <3>3. live' = [live EXCEPT !.geo = [ip |-> o.next.geo.ip, site |-> o.next.geo.site]]
      <4>1. [live.geo EXCEPT !.site = geoCand.pair] = [ip |-> o.next.geo.ip, site |-> o.next.geo.site]
        BY <2>3, <3>2
      <4>2. live' = [live EXCEPT !.geo = [live.geo EXCEPT !.site = geoCand.pair]]
        BY <2>1
      <4> QED BY <4>1, <4>2
    <3> QED BY <2>3, <3>1, <3>3 DEF Live
  <2>5. live'.config = b.config
    BY <2>4 DEF Live
  <2>6. Lives(At("rules"), b)'
    BY <1>11, <2>2, <2>4, <2>5 DEF Lives
  <2>7. Serves(At("rules"), b)'
    BY <1>11, <2>1, <2>3 DEF Serves, Up
  <2> QED BY <1>10, <2>1, <2>2, <2>6, <2>7 DEF StepsOf, PairSteps, RuleSteps, AimSteps
<1>15. CASE WriteRouting(a)
  <2>1. /\ o.at = "rules" /\ Goto(a, "start") /\ UNCHANGED service
        /\ live' = [live EXCEPT !.managed = o.next.managed,
                                !.config = IF b.config # None THEN o.next.config ELSE @]
    BY <1>3, <1>5, <1>15 DEF WriteRouting
  <2>2. o.op = "geo.apply"
    BY <1>5, <1>7, <2>1 DEF StepsOf
  <2>3. live = [b EXCEPT !.geo = o.next.geo] /\ ~Up
    BY <1>5, <2>1, <2>2 DEF Lives, Serves
  <2>4. live' = [o.next EXCEPT !.manifest = b.manifest, !.config = IF b.config = None THEN None ELSE @]
    BY <1>6, <2>1, <2>3 DEF Live
  <2>5. b.config # None => live'.config # None /\ live'.config.rev = b.config.rev
    BY <1>5, <1>6, <2>2, <2>4 DEF Live, Aims
  <2>6. Lives(At("start"), b)'
    BY <1>11, <2>2, <2>4, <2>5 DEF Lives
  <2>7. Serves(At("start"), b)'
    BY <1>11, <2>1, <2>3 DEF Serves, Up
  <2> QED BY <1>10, <2>1, <2>2, <2>6, <2>7 DEF StepsOf, PairSteps, RuleSteps, AimSteps
<1>16. CASE RestoreBackup(a)
  <2>0. o.at = "restore site" /\ Goto(a, "start") /\ UNCHANGED service
        /\ live' = [o.next EXCEPT !.geo.ip = live.geo.ip]
    BY <1>3, <1>16 DEF RestoreBackup
  <2>3. live.geo.ip = o.next.geo.ip
    <3>1. live = [b EXCEPT !.geo = [ip |-> o.next.geo.ip, site |-> b.geo.site]]
      BY <1>5, <2>0 DEF Lives
    <3> QED BY <3>1 DEF Live
  <2>1. o.at = "restore site" /\ Goto(a, "start") /\ UNCHANGED service /\ live' = o.next
    BY <1>6, <2>0, <2>3 DEF Live, GeoFiles
  <2>2. o.op = "geo.rollback" /\ ~Up
    BY <1>5, <1>7, <2>1 DEF StepsOf, Serves
  <2>6. Lives(At("start"), b)'
    BY <1>11, <2>1, <2>2 DEF Lives
  <2>7. Serves(At("start"), b)'
    BY <1>11, <2>1, <2>2 DEF Serves, Up
  <2> QED BY <1>10, <2>1, <2>2, <2>6, <2>7 DEF StepsOf, PairSteps, RuleSteps, AimSteps
<1>17. CASE StartXray(a)
  <2> DEFINE next == IF o.op = "geo.apply" THEN "manifest" ELSE "done"
  <2>1. o.at = "start" /\ ~Up /\ UNCHANGED live
    BY <1>3, <1>5, <1>17 DEF StartXray, Serves, disk
  <2>2. \/ Goto(a, next) /\ UNCHANGED service
        \/ /\ o.was /\ Goto(a, next) /\ live.config # None
           /\ service' = [config |-> live.config, geo |-> live.geo]
        \/ service' = None /\ Goto(a, "undo")
    BY <1>3, <1>17 DEF StartXray, Boot, Outcomes, CanBoot
  <2>3. CASE service' = None /\ Goto(a, "undo")
    <3>1. Lives(At("undo"), b)'
      BY <1>5, <1>11, <2>1 DEF Lives
    <3>2. Serves(At("undo"), b)'
      BY <1>11, <2>3 DEF Serves, Up, Runs
    <3> QED BY <1>7, <1>10, <2>3, <3>1, <3>2 DEF StepsOf, PairSteps, RuleSteps, AimSteps
  <2>4. ASSUME Goto(a, next), service' = service \/ (o.was /\ live.config # None /\
                 service' = [config |-> live.config, geo |-> live.geo])
        PROVE  InTurn'
    <3>1. Runs(live)' /\ (Up' => o.was /\ live.config # None)
      BY <2>1, <2>4 DEF Runs, Up
    <3>2. CASE o.op = "geo.apply"
      <4>1. Lives(At("manifest"), b)'
        BY <1>5, <1>11, <2>1, <3>2 DEF Lives
      <4>2. b.config = None => live.config = None
        BY <1>5, <1>6, <2>1, <3>2 DEF Lives, Live
      <4>3. Serves(At("manifest"), b)'
        BY <1>11, <3>1, <4>2, <2>1 DEF Serves
      <4> QED BY <1>10, <2>1, <2>4, <3>2, <4>1, <4>3 DEF StepsOf, PairSteps, RuleSteps, AimSteps
    <3>3. CASE o.op = "geo.rollback"
      <4>1. Whole(live)
        BY <1>5, <2>1, <3>3 DEF Lives, Aims, AimSteps
      <4>2. Whole(live)'
        <5>1. PICK l : l = live
          OBVIOUS
        <5> QED BY <1>1, <2>1, <4>1, <5>1, SameWhole
      <4>3. Lives(At("done"), b)'
        BY <1>11, <3>3, <4>2 DEF Lives
      <4>4. Serves(At("done"), b)'
        BY <1>11, <3>1 DEF Serves
      <4> QED BY <1>10, <2>4, <3>3, <4>3, <4>4 DEF StepsOf, PairSteps, RuleSteps, AimSteps
    <3> QED BY <1>7, <3>2, <3>3
  <2> HIDE DEF next
  <2> QED BY <2>2, <2>3, <2>4
<1>18. CASE WriteManifest(a)
  <2>1. /\ o.at = "manifest" /\ Goto(a, "done") /\ UNCHANGED service
        /\ live' = [live EXCEPT !.manifest = o.next.manifest]
    BY <1>3, <1>18 DEF WriteManifest
  <2>2. o.op = "geo.apply"
    BY <1>5, <1>7, <2>1 DEF StepsOf
  <2>3. /\ live = [o.next EXCEPT !.manifest = b.manifest, !.config = IF b.config = None THEN None ELSE @]
        /\ Runs(live) /\ Whole(o.next)
    BY <1>5, <2>1, <2>2 DEF Lives, Serves, Aims, AimSteps
  <2>4. /\ live'.geo = o.next.geo /\ live'.manifest = o.next.manifest /\ live'.managed = o.next.managed
        /\ live'.config = IF b.config = None THEN None ELSE o.next.config
        /\ live'.config = live.config /\ live'.geo = live.geo
    BY <1>6, <2>1, <2>3 DEF Live
  <2>5. Whole(live')
    <3>1. Trusted => b.config # None
      BY <1>5 DEF Whole, Kept
    <3> QED BY <2>3, <2>4, <3>1 DEF Whole, Kept, Named
  <2>6. Whole(live)' /\ Runs(live)'
    <3>1. PICK l : l = live'
      OBVIOUS
    <3>2. Whole(l)'
      BY <1>1, <2>5, <3>1, SameWhole
    <3> QED BY <2>1, <2>3, <2>4, <3>1, <3>2 DEF Runs, Up
  <2>7. Lives(At("done"), b)'
    <3>1. b.config # None => live'.config # None /\ live'.config.rev = b.config.rev
      BY <1>5, <2>2, <2>4 DEF Aims
    <3> QED BY <1>11, <2>2, <2>6, <3>1 DEF Lives
  <2>8. Serves(At("done"), b)'
    BY <1>11, <2>6 DEF Serves
  <2> QED BY <1>10, <2>1, <2>2, <2>7, <2>8 DEF StepsOf, PairSteps, RuleSteps, AimSteps
<1>19. CASE GeoBreaks(a)
  <2>1. /\ o.at \in {"stop", "ip", "site", "rules", "restore", "restore site", "manifest"}
        /\ Goto(a, "undo") /\ UNCHANGED <<live, service>>
    BY <1>3, <1>19 DEF GeoBreaks, disk
  <2>2. Lives(At("undo"), b)'
    BY <1>5, <1>11, <2>1 DEF Lives
  <2>3. Runs(b)' \/ (o.was /\ b.config # None)
    BY <1>5, <2>1 DEF Serves, Runs, Up
  <2>4. Serves(At("undo"), b)'
    BY <1>11, <2>3 DEF Serves
  <2> QED BY <1>7, <1>10, <2>1, <2>2, <2>4 DEF StepsOf, PairSteps, RuleSteps, AimSteps
<1>20. CASE RestoreIp(a)
  <2>1. /\ o.at = "restore" /\ Goto(a, "restore site") /\ UNCHANGED service
        /\ live' = [live EXCEPT !.geo.ip = o.next.geo.ip]
    BY <1>3, <1>20 DEF RestoreIp
  <2>2. o.op = "geo.rollback" /\ ~Up /\ live = b
    BY <1>5, <1>7, <2>1 DEF StepsOf, Serves, Lives
  <2>3. live' = [b EXCEPT !.geo = [ip |-> o.next.geo.ip, site |-> b.geo.site]]
    <3>1. [b.geo EXCEPT !.ip = o.next.geo.ip] = [ip |-> o.next.geo.ip, site |-> b.geo.site]
      BY DEF Live, GeoFiles
    <3> QED BY <2>1, <2>2, <3>1
  <2>6. Lives(At("restore site"), b)'
    BY <1>11, <2>2, <2>3 DEF Lives
  <2>7. Serves(At("restore site"), b)'
    BY <1>11, <2>1, <2>2 DEF Serves, Up
  <2> QED BY <1>10, <2>1, <2>2, <2>6, <2>7 DEF StepsOf, PairSteps, RuleSteps, AimSteps
<1> QED BY <1>12, <1>13, <1>14, <1>15, <1>16, <1>17, <1>18, <1>19, <1>20

LEMMA RouteInTurn ==
  ASSUME TypeOK, InTurn, alone, NEW a \in Helpers,
         TestRouteBackup(a) \/ WriteRoute(a) \/ (RestartXray(a) /\ h[a].op \in RouteOps) \/ WritePolicy(a)
           \/ (FilesBreak(a) /\ h[a].op \in RouteOps)
  PROVE  InTurn'
<1>0. FilesBreak(a) /\ h[a].op \in RouteOps => h[a].at = "write"
  <2>1. h[a].at # "idle" => h[a].at \in StepsOf(h[a].op) /\ h[a].op \in Ops
    BY TurnOf DEF Busy, Story, Locals
  <2>2. FilesBreak(a) => h[a].at \in {"write", "save", "unlink"}
    BY DEF FilesBreak
  <2> QED BY <2>1, <2>2, OpAt, OpKinds DEF WarpOps
<1>1. /\ h[a].at \in {"test", "write", "restart", "policy"}
      /\ (h[a].at \in {"write", "restart"} => h[a].op \in RouteOps)
      /\ UNCHANGED <<previous, warp, staging, geoCand, users, relapsed, geoBackup, routeBackup>>
      /\ h[a].at # "policy" => UNCHANGED policy
  BY <1>0 DEF TestRouteBackup, WriteRoute, RestartXray, WritePolicy, FilesBreak, disk, staged, backups
<1>2. Busy(a)
  BY <1>1 DEF Busy
<1>3. PICK o \in Locals : o = h[a]
  BY <1>2, TurnOf
<1>4. PICK b \in Live : b = o.start.live
  BY <1>2, <1>3, TurnOf
<1>5. /\ o.at \in StepsOf(o.op) /\ o.op \in Ops /\ o.old = b /\ o.keep = o.start.warp /\ Whole(b)
      /\ o.op \notin WarpOps \/ o.at \in {"save", "revive"} => warp = o.start.warp
      /\ Lives(o, b) /\ Serves(o, b) /\ Aims(o, b)
  BY <1>2, <1>3, <1>4, TurnOf DEF Story, Locals
<1>6. live \in Live /\ o.next \in Live
  BY DEF TypeOK, Locals
<1>7. /\ o.op \in {"route.apply", "route.rollback"} /\ o.op \in RouteOps
      /\ o.op \notin GeoOps \cup WarpOps \cup {"clients"}
  <2>1. o.op \in {"route.apply", "route.rollback"}
    BY <1>1, <1>3, <1>5, OpAt DEF RouteOps
  <2> QED BY <2>1, OpKinds
<1> DEFINE At(s) == Onto(o, s)
<1>9. {"write", "restart", "policy", "undo", "done"} \subseteq Steps
  BY DEF Steps
<1>8. ASSUME NEW s \in {"write", "restart", "policy", "undo", "done"}
      PROVE  /\ At(s).at = s /\ At(s).op = o.op /\ At(s).next = o.next /\ At(s).was = o.was
             /\ At(s).op \in {"route.apply", "route.rollback"} /\ At(s).op \in RouteOps
             /\ At(s).op \notin GeoOps \cup WarpOps \cup {"clients"}
  BY <1>7, <1>9, NextFields
<1> HIDE DEF At
<1>10. ASSUME NEW s \in {"write", "restart", "policy", "undo", "done"},
              s \in StepsOf(o.op), Goto(a, s),
              s = "write" => o.op = "route.rollback", s = "done" \/ UNCHANGED policy,
              s \in AimSteps => o.at \in AimSteps \/ Whole(o.next),
              Lives(At(s), b)', Serves(At(s), b)'
       PROVE  InTurn'
  <2>1. Aims(At(s), b)'
    BY <1>1, <1>5, <1>8, <1>10, AimsStay DEF RuleSteps, PairSteps
  <2>2. At(s) = Onto(h[a], s)
    BY <1>3 DEF At
  <2>3. h[a].at # "done" /\ s \notin {"save", "revive"}
    BY <1>1
  <2> QED BY <1>1, <1>2, <1>3, <1>4, <1>7, <1>9, <1>10, <2>1, <2>2, <2>3, GoesOn
<1>11. CASE TestRouteBackup(a)
  <2>1. o.at = "test" /\ UNCHANGED <<live, service, policy>> /\ o.op = "route.rollback"
    BY <1>3, <1>5, <1>11, OpAt DEF TestRouteBackup, disk
  <2>2. /\ live = [b EXCEPT !.managed = o.next.managed] /\ Runs(b) /\ (Up => o.was)
        /\ Kept(o.next) /\ o.next.geo = b.geo /\ o.next.manifest = b.manifest
    BY <1>5, <1>7, <2>1 DEF Lives, Serves, Aims
  <2>3. live.geo = b.geo /\ live.config = b.config /\ live.manifest = b.manifest
    BY <2>2 DEF Live
  <2>4. \/ o.next.config = None /\ Goto(a, "done")
        \/ Accepts(o.next.config, live.geo) /\ Goto(a, "write")
        \/ Goto(a, "undo")
    BY <1>3, <1>11 DEF TestRouteBackup, Outcomes
  <2>5. CASE o.next.config = None /\ Goto(a, "done")
    <3>1. Whole(live)
      BY <1>5, <2>2, <2>3, <2>5 DEF Whole, Kept, Named
    <3>2. Whole(live)' /\ Runs(live)'
      <4>1. PICK l : l = live
        OBVIOUS
      <4>2. Whole(l)'
        BY <1>1, <3>1, <4>1, SameWhole
      <4> QED BY <2>1, <2>2, <2>3, <4>1, <4>2 DEF Runs, Up
    <3>3. Lives(At("done"), b)'
      BY <1>8, <2>1, <3>2 DEF Lives
    <3>4. Serves(At("done"), b)'
      BY <1>8, <3>2 DEF Serves
    <3> QED BY <1>10, <2>1, <2>5, <3>3, <3>4 DEF StepsOf, AimSteps
  <2>6. CASE Accepts(o.next.config, live.geo) /\ Goto(a, "write")
    <3>1. Whole(o.next)
      BY <1>5, <2>2, <2>3, <2>6 DEF Whole, Named
    <3>3. Lives(At("write"), b)'
      BY <1>8, <2>1, <2>2 DEF Lives
    <3>4. Serves(At("write"), b)'
      BY <1>8, <2>1, <2>2 DEF Serves, Up, Runs
    <3> QED BY <1>10, <2>1, <2>6, <3>1, <3>3, <3>4 DEF StepsOf
  <2>7. CASE Goto(a, "undo")
    <3>1. live = [b EXCEPT !.managed = live.managed, !.config = live.config]
      BY <1>6, <2>2, <2>3 DEF Live
    <3>3. Lives(At("undo"), b)'
      BY <1>8, <2>1, <3>1 DEF Lives
    <3>4. Serves(At("undo"), b)'
      BY <1>8, <2>1, <2>2 DEF Serves, Up, Runs
    <3> QED BY <1>10, <2>1, <2>7, <3>3, <3>4 DEF StepsOf, AimSteps
  <2> QED BY <2>4, <2>5, <2>6, <2>7
<1>12. CASE WriteRoute(a)
  <2>1. /\ o.at = "write" /\ UNCHANGED <<service, policy>> /\ Goto(a, "restart")
        /\ live' = [live EXCEPT !.managed = o.next.managed,
                  !.config = IF o.op = "route.rollback" \/ b.config # None THEN o.next.config ELSE @]
    BY <1>3, <1>5, <1>12 DEF WriteRoute
  <2>2. /\ Runs(b) /\ (Up => o.was) /\ Whole(o.next)
        /\ o.next.geo = b.geo /\ o.next.manifest = b.manifest
        /\ o.op = "route.apply" /\ b.config # None =>
              o.next.config # None /\ o.next.config.rev = b.config.rev
    BY <1>5, <1>7, <2>1 DEF Serves, Aims, AimSteps
  <2>3. live.geo = b.geo /\ live.config = b.config /\ live.manifest = b.manifest
    BY <1>5, <1>7, <2>1 DEF Lives, Live
  <2>4. /\ live'.geo = o.next.geo /\ live'.manifest = o.next.manifest /\ live'.managed = o.next.managed
        /\ live'.config = IF o.op = "route.rollback" \/ b.config # None THEN o.next.config ELSE None
        /\ o.op = "route.apply" /\ b.config = None => live'.config = None
    BY <1>6, <2>1, <2>2, <2>3 DEF Live
  <2>5. live' \in {o.next, [o.next EXCEPT !.config = b.config]}
    <3>0. live' \in Live /\ [o.next EXCEPT !.config = b.config] \in Live
      BY <1>6, <2>1 DEF Live
    <3>1. CASE o.op = "route.rollback" \/ b.config # None
      <4>1. live'.config = o.next.config
        BY <2>4, <3>1
      <4>2. live' = o.next
        BY <1>6, <2>4, <3>0, <4>1 DEF Live
      <4> QED BY <4>2
    <3>2. CASE ~(o.op = "route.rollback" \/ b.config # None)
      <4>1. live'.config = b.config
        BY <2>4, <3>2
      <4>2. live' = [o.next EXCEPT !.config = b.config]
        BY <1>6, <2>4, <3>0, <4>1 DEF Live
      <4> QED BY <4>2
    <3> QED BY <3>1, <3>2
  <2>10. o.op = "route.apply" => live' = Applied(o, b)
    <3>1. CASE o.op = "route.apply"
      <4>1. live = b
        BY <1>5, <2>1, <3>1 DEF Lives
      <4> QED BY <1>6, <2>1, <3>1, <4>1 DEF Applied, Live
    <3> QED BY <3>1
  <2>6. Whole(live')
    BY <1>5, <2>2, <2>4 DEF Whole, Kept, Named
  <2>7. Whole(live)'
    <3>1. PICK l : l = live'
      OBVIOUS
    <3> QED BY <1>1, <2>6, <3>1, SameWhole
  <2>8. Lives(At("restart"), b)'
    <3>1. o.op = "route.apply" /\ b.config # None => live'.config # None /\ live'.config.rev = b.config.rev
      BY <2>2, <2>4
    <3> QED BY <1>8, <2>4, <2>5, <2>7, <2>10, <3>1 DEF Lives, Applied
  <2>9. Serves(At("restart"), b)'
    BY <1>8, <2>1, <2>2 DEF Serves, Up, Runs
  <2> QED BY <1>7, <1>10, <2>1, <2>8, <2>9 DEF StepsOf, AimSteps
<1>13. CASE RestartXray(a) /\ h[a].op \in RouteOps
  <2> DEFINE next == IF o.op = "route.apply" THEN "policy" ELSE "done"
  <2>1. o.at = "restart" /\ UNCHANGED <<live, policy>>
    BY <1>3, <1>13 DEF RestartXray, disk
  <2>2. \/ /\ Goto(a, next) /\ UNCHANGED service
           /\ o.was => o.op = "route.apply" /\ b.config = None
        \/ Goto(a, next) /\ service' = [config |-> live.config, geo |-> live.geo]
        \/ service' = None /\ Goto(a, "undo")
    BY <1>3, <1>5, <1>7, <1>13 DEF RestartXray, Boot, Outcomes
  <2>3. /\ Runs(b) /\ (Up => o.was) /\ Whole(live)
        /\ o.next.geo = b.geo /\ o.next.manifest = b.manifest
        /\ live \in {o.next, [o.next EXCEPT !.config = b.config]}
        /\ o.op = "route.apply" => live = Applied(o, b)
        /\ o.op = "route.apply" /\ b.config = None => live.config = None
        /\ o.op = "route.apply" /\ b.config # None => live.config # None /\ live.config.rev = b.config.rev
    BY <1>5, <1>7, <2>1 DEF Serves, Aims, AimSteps, Lives
  <2>4. live.geo = b.geo /\ live.manifest = b.manifest
    BY <1>6, <2>3 DEF Live
  <2>5. CASE service' = None /\ Goto(a, "undo")
    <3>1. live = [b EXCEPT !.managed = live.managed, !.config = live.config]
      BY <1>6, <2>4 DEF Live
    <3>2. Lives(At("undo"), b)'
      BY <1>8, <2>1, <2>3, <3>1 DEF Lives
    <3>3. Serves(At("undo"), b)'
      BY <1>8, <2>5 DEF Serves, Up, Runs
    <3> QED BY <1>7, <1>10, <2>1, <2>5, <3>2, <3>3 DEF StepsOf, AimSteps
  <2>6. ASSUME Goto(a, next), Runs(live)' PROVE InTurn'
    <3>1. Whole(live)'
      <4>1. PICK l : l = live
        OBVIOUS
      <4> QED BY <1>1, <2>1, <2>3, <4>1, SameWhole
    <3>2. CASE o.op = "route.apply"
      <4>1. Lives(At("policy"), b)'
        <5>1. At("policy").at = "policy" /\ At("policy").op = "route.apply" /\ At("policy").next = o.next
          BY <1>8, <3>2 DEF Steps
        <5>2. live' = Applied(At("policy"), b)
          BY <2>1, <2>3, <3>2, <5>1 DEF Applied
        <5>3. PICK n : n = At("policy")
          OBVIOUS
        <5>4. live' = Applied(n, b)' /\ n.at = "policy" /\ n.op = "route.apply"
          BY <5>1, <5>2, <5>3 DEF Applied
        <5>5. Lives(n, b)'
          BY <2>1, <2>3, <3>1, <3>2, <5>4 DEF Lives, WarpOps
        <5> QED BY <5>3, <5>5
      <4>2. Serves(At("policy"), b)'
        BY <1>8, <2>6 DEF Serves
      <4> QED BY <1>10, <2>1, <2>6, <3>2, <4>1, <4>2 DEF StepsOf, AimSteps
    <3>3. CASE o.op = "route.rollback"
      <4>1. Lives(At("done"), b)'
        BY <1>8, <3>1, <3>3 DEF Lives
      <4>2. Serves(At("done"), b)'
        BY <1>8, <2>6 DEF Serves
      <4> QED BY <1>10, <2>6, <3>3, <4>1, <4>2 DEF StepsOf, AimSteps
    <3> QED BY <1>7, <3>2, <3>3
  <2>7. ASSUME Goto(a, next), UNCHANGED service, o.was => o.op = "route.apply" /\ b.config = None
        PROVE  Runs(live)'
    BY <2>1, <2>3, <2>4, <2>7 DEF Runs, Up
  <2>8. ASSUME service' = [config |-> live.config, geo |-> live.geo]
        PROVE  Runs(live)'
    BY <2>1, <2>8 DEF Runs
  <2> HIDE DEF next
  <2> QED BY <2>2, <2>5, <2>6, <2>7, <2>8
<1>14. CASE WritePolicy(a)
  <2>1. o.at = "policy" /\ (Goto(a, "done") \/ End(a)) /\ UNCHANGED <<live, service>> /\ o.op = "route.apply"
    BY <1>3, <1>5, <1>14, OpAt DEF WritePolicy
  <2>2. Whole(live) /\ Runs(live) /\ (b.config # None => live.config # None /\ live.config.rev = b.config.rev)
    BY <1>5, <2>1 DEF Lives, Serves
  <2>3. Whole(live)' /\ Runs(live)'
    <3>1. PICK l : l = live
      OBVIOUS
    <3>2. Whole(l)'
      BY <1>1, <2>2, <3>1, SameWhole
    <3> QED BY <2>1, <2>2, <3>1, <3>2 DEF Runs, Up
  <2>4. Lives(At("done"), b)'
    BY <1>8, <2>1, <2>2, <2>3 DEF Lives
  <2>5. Serves(At("done"), b)'
    BY <1>8, <2>3 DEF Serves
  <2>6. CASE Goto(a, "done")
    BY <1>10, <2>1, <2>4, <2>5, <2>6 DEF StepsOf, AimSteps
  <2>7. CASE End(a)
    <3>1. Backed'
      BY <1>1, <1>2, TurnOf, SameBacked
    <3> QED BY <1>2, <2>3, <2>7, <3>1, TurnEnds DEF Rest
  <2> QED BY <2>1, <2>6, <2>7
<1>15. CASE FilesBreak(a)
  <2>1. o.at = "write" /\ Goto(a, "undo") /\ UNCHANGED <<live, service, policy>>
    BY <1>1, <1>3, <1>5, <1>7, <1>15, OpAt DEF FilesBreak, disk, WarpOps
  <2>2. live \in {b, [b EXCEPT !.managed = o.next.managed]} /\ Runs(b)
        /\ (o.op = "route.apply" => live = b)
    BY <1>5, <1>7, <2>1 DEF Lives, Serves
  <2>3. live = [b EXCEPT !.managed = live.managed, !.config = live.config]
    BY <1>6, <2>2 DEF Live
  <2>4. Lives(At("undo"), b)'
    BY <1>5, <1>8, <2>1, <2>3 DEF Lives
  <2>5. Serves(At("undo"), b)'
    BY <1>8, <2>1, <2>2 DEF Serves, Up, Runs
  <2> QED BY <1>7, <1>10, <2>1, <2>4, <2>5 DEF StepsOf, AimSteps
<1> QED BY <1>11, <1>12, <1>13, <1>14, <1>15

LEMMA WarpInTurn ==
  ASSUME TypeOK, InTurn, alone, NEW a \in Helpers,
         SaveWarp(a) \/ WriteWarp(a) \/ (RestartXray(a) /\ h[a].op \in WarpOps) \/ Unlink(a)
           \/ (FilesBreak(a) /\ h[a].op \in WarpOps)
  PROVE  InTurn'
<1>1. /\ h[a].at \in {"save", "write", "restart", "unlink"} /\ (h[a].at \in {"write", "restart"} => h[a].op \in WarpOps)
      /\ UNCHANGED <<previous, policy, staging, geoCand, users, relapsed, geoBackup, routeBackup>>
  BY DEF SaveWarp, WriteWarp, RestartXray, Unlink, FilesBreak, disk, staged, backups
<1>2. Busy(a)
  BY <1>1 DEF Busy
<1>3. PICK o \in Locals : o = h[a]
  BY <1>2, TurnOf
<1>4. PICK b \in Live : b = o.start.live
  BY <1>2, <1>3, TurnOf
<1>5. /\ o.at \in StepsOf(o.op) /\ o.op \in Ops /\ o.old = b /\ o.keep = o.start.warp /\ Whole(b)
      /\ o.op \notin WarpOps \/ o.at \in {"save", "revive"} => warp = o.start.warp
      /\ Lives(o, b) /\ Serves(o, b) /\ Aims(o, b)
  BY <1>2, <1>3, <1>4, TurnOf DEF Story, Locals
<1>6. live \in Live /\ o.next \in Live
  BY DEF TypeOK, Locals
<1>7. o.op \in WarpOps /\ o.op \notin GeoOps \cup RouteOps \cup {"clients"} /\ o.next = b
  <2>1. o.op \in WarpOps
    BY <1>1, <1>3, <1>5, OpAt DEF WarpOps
  <2> QED BY <1>5, <2>1, OpKinds DEF Aims
<1> DEFINE At(s) == Onto(o, s)
<1>9. {"write", "restart", "unlink", "undo", "done"} \subseteq Steps
  BY DEF Steps
<1>8. ASSUME NEW s \in {"write", "restart", "unlink", "undo", "done"}
      PROVE  /\ At(s).at = s /\ At(s).op = o.op /\ At(s).next = o.next /\ At(s).was = o.was
             /\ At(s).op \in WarpOps /\ At(s).op \notin GeoOps \cup RouteOps \cup {"clients"}
             /\ At(s).op \notin {"geo.apply", "geo.rollback", "route.apply", "route.rollback"}
  BY <1>7, <1>9, NextFields DEF WarpOps
<1>12. o.op # "warp.remove" => StepsOf(o.op) = {"save", "write", "restart", "undo", "revive", "done"}
  BY <1>7 DEF StepsOf, WarpOps
<1>13. /\ {"write", "restart", "undo", "done"} \subseteq StepsOf(o.op)
       /\ (o.op = "warp.remove" => "unlink" \in StepsOf(o.op))
  BY <1>12 DEF StepsOf
<1> HIDE DEF At
<1>10. ASSUME NEW s \in {"write", "restart", "unlink", "undo", "done"},
              s \in StepsOf(o.op), Goto(a, s), Lives(At(s), b)', Serves(At(s), b)'
       PROVE  InTurn'
  <2>1. Aims(At(s), b)'
    BY <1>1, <1>5, <1>7, <1>8, <1>10, AimsStay
  <2>2. At(s) = Onto(h[a], s)
    BY <1>3 DEF At
  <2>3. h[a].at # "done" /\ s \notin {"save", "revive"} /\ h[a].op \in WarpOps
    BY <1>1, <1>3, <1>7
  <2> QED BY <1>1, <1>2, <1>3, <1>4, <1>9, <1>10, <2>1, <2>2, <2>3, GoesOn
<1>14. /\ live = [b EXCEPT !.config = live.config]
       /\ (b.config # None => live.config # None /\ live.config.rev = b.config.rev)
  BY <1>1, <1>3, <1>5, <1>7, <1>8 DEF Lives, WarpOps
<1>15. live.geo = b.geo /\ live.manifest = b.manifest /\ live.managed = b.managed
  BY <1>14 DEF Live
<1>16. CASE SaveWarp(a)
  <2>1. o.at = "save" /\ UNCHANGED <<live, service>> /\ Goto(a, "write")
    BY <1>3, <1>16 DEF SaveWarp
  <2>2. live = b /\ Runs(b) /\ (Up => o.was)
    BY <1>5, <2>1 DEF Lives, Serves
  <2>3. Lives(At("write"), b)'
    <3>1. b = [b EXCEPT !.config = b.config]
      BY DEF Live
    <3> QED BY <1>8, <2>1, <2>2, <3>1 DEF Lives
  <2>4. Serves(At("write"), b)'
    BY <1>8, <2>1, <2>2 DEF Serves, Runs, Up
  <2> QED BY <1>10, <1>13, <2>1, <2>3, <2>4
<1>17. CASE WriteWarp(a)
  <2> DEFINE config == Build(b.config, b.managed, warp)
  <2>1. o.at = "write" /\ UNCHANGED service
    BY <1>3, <1>17 DEF WriteWarp
  <2>2. live = b /\ Runs(b) /\ (Up => o.was)
    BY <1>5, <1>8, <2>1 DEF Lives, Serves
  <2>3. \/ Accepts(config, b.geo) /\ live' = [live EXCEPT !.config = config] /\ Goto(a, "restart")
        \/ UNCHANGED live /\ Goto(a, "undo")
    BY <1>3, <1>7, <1>17, <2>2 DEF WriteWarp, Outcomes
  <2>4. CASE Accepts(config, b.geo) /\ live' = [live EXCEPT !.config = config] /\ Goto(a, "restart")
    <3>1. config \in Config /\ config # None
      BY BuildType, MarkerAssumption DEF Live, TypeOK
    <3>2. config.rules = b.managed /\ config.rev = IF b.config = None THEN 0 ELSE b.config.rev
      BY DEF Build
    <3>3. config.rev <= users
      BY <1>5, <3>2 DEF Whole, Kept, TypeOK
    <3> HIDE DEF config
    <3>4. live' = [b EXCEPT !.config = live'.config] /\ live'.config = config
          /\ live'.geo = b.geo /\ live'.manifest = b.manifest /\ live'.managed = b.managed
      BY <2>2, <2>4 DEF Live
    <3>5. Whole(live')
      BY <1>5, <2>4, <3>1, <3>2, <3>3, <3>4 DEF Whole, Kept, Named
    <3>6. Whole(live)'
      <4>1. PICK l : l = live'
        OBVIOUS
      <4> QED BY <1>1, <3>5, <4>1, SameWhole
    <3>7. Lives(At("restart"), b)'
      BY <1>8, <3>1, <3>2, <3>4, <3>6 DEF Lives
    <3>8. Serves(At("restart"), b)'
      BY <1>8, <2>1, <2>2 DEF Serves, Runs, Up
    <3> QED BY <1>10, <1>13, <2>4, <3>7, <3>8
  <2>5. CASE UNCHANGED live /\ Goto(a, "undo")
    <3>1. Lives(At("undo"), b)'
      BY <1>8, <1>14, <2>5 DEF Lives
    <3>2. Serves(At("undo"), b)'
      BY <1>8, <2>1, <2>2 DEF Serves, Runs, Up
    <3> QED BY <1>10, <1>13, <2>5, <3>1, <3>2
  <2> QED BY <2>3, <2>4, <2>5
<1>18. CASE RestartXray(a) /\ h[a].op \in WarpOps
  <2> DEFINE next == IF o.op = "warp.remove" THEN "unlink" ELSE "done"
  <2>1. o.at = "restart" /\ UNCHANGED live
    BY <1>3, <1>18 DEF RestartXray, disk
  <2>2. \/ Goto(a, next) /\ ~Up /\ UNCHANGED service
        \/ Goto(a, next) /\ Up /\ service' = [config |-> live.config, geo |-> live.geo]
        \/ service' = None /\ Goto(a, "undo")
    BY <1>3, <1>7, <1>18 DEF RestartXray, Boot, Outcomes, WarpOps
  <2>8. Runs(b)' \/ (o.was /\ b.config # None)
    <3>1. Runs(b) /\ (Up => o.was)
      BY <1>5, <2>1 DEF Serves
    <3>2. CASE ~Up \/ "revive" \in Kills
      BY <2>2, <2>1, <3>2 DEF Runs, Up
    <3>3. CASE Up /\ "revive" \notin Kills
      <4>1. service = [config |-> b.config, geo |-> b.geo] /\ service # None
        BY <3>1, <3>3 DEF Runs, Up
      <4>2. service.config = b.config /\ service.config \in Config
        BY <4>1 DEF TypeOK
      <4> QED BY <3>1, <3>3, <4>2, MarkerAssumption
    <3> QED BY <3>2, <3>3
  <2>3. Whole(live)'
    <3>1. PICK l : l = live
      OBVIOUS
    <3>2. Whole(l)
      BY <1>5, <2>1, <3>1 DEF Lives
    <3> QED BY <1>1, <2>1, <3>1, <3>2, SameWhole
  <2>4. CASE service' = None /\ Goto(a, "undo")
    <3>1. Lives(At("undo"), b)'
      BY <1>8, <1>14, <2>1 DEF Lives
    <3>2. Serves(At("undo"), b)'
      BY <1>8, <2>4 DEF Serves, Runs, Up
    <3> QED BY <1>10, <1>13, <2>4, <3>1, <3>2
  <2>5. ASSUME Goto(a, next), Runs(live)' PROVE InTurn'
    <3>1. Lives(At(next), b)'
      BY <1>8, <1>14, <2>1, <2>3 DEF Lives
    <3>2. Serves(At(next), b)'
      BY <1>8, <2>5, <2>8 DEF Serves
    <3> QED BY <1>10, <1>13, <2>5, <3>1, <3>2
  <2>6. ~Up /\ UNCHANGED service => Runs(live)'
    BY DEF Runs, Up
  <2>7. service' = [config |-> live.config, geo |-> live.geo] => Runs(live)'
    BY <2>1 DEF Runs
  <2> HIDE DEF next
  <2> QED BY <2>2, <2>4, <2>5, <2>6, <2>7
<1>19. CASE Unlink(a)
  <2>1. o.at = "unlink" /\ Goto(a, "done") /\ UNCHANGED <<live, service>>
    BY <1>3, <1>19 DEF Unlink
  <2>2. Whole(live) /\ Runs(live)
    BY <1>5, <2>1 DEF Lives, Serves
  <2>3. Whole(live)' /\ Runs(live)'
    <3>1. PICK l : l = live
      OBVIOUS
    <3>2. Whole(l)'
      BY <1>1, <2>2, <3>1, SameWhole
    <3> QED BY <2>1, <2>2, <3>1, <3>2 DEF Runs, Up
  <2>4. Lives(At("done"), b)'
    BY <1>8, <1>14, <2>1, <2>3 DEF Lives
  <2>5. Serves(At("done"), b)'
    BY <1>8, <2>3 DEF Serves
  <2> QED BY <1>10, <1>13, <2>1, <2>4, <2>5
<1>20. CASE FilesBreak(a)
  <2>1. o.at \in {"write", "save", "unlink"} /\ Goto(a, "undo") /\ UNCHANGED <<live, service>>
    BY <1>3, <1>20 DEF FilesBreak, disk
  <2>2. Runs(b) \/ (o.was /\ b.config # None)
    BY <1>5, <1>7, <1>8, <2>1 DEF Serves
  <2>3. Lives(At("undo"), b)'
    BY <1>8, <1>14, <2>1 DEF Lives
  <2>4. Serves(At("undo"), b)'
    BY <1>8, <2>1, <2>2 DEF Serves, Runs, Up
  <2> QED BY <1>10, <1>13, <2>1, <2>3, <2>4
<1> QED BY <1>16, <1>17, <1>18, <1>19, <1>20

\* Undoing leaves everything as the operation found it.
LEMMA UndoInTurn ==
  ASSUME TypeOK, InTurn, alone, NEW a \in Helpers, Undo(a)
  PROVE  InTurn'
<1>1. /\ h[a].at = UndoStep(h[a].op) /\ Goto(a, "revive")
      /\ UNCHANGED <<previous, policy, service, staging, geoCand, users, relapsed, geoBackup, routeBackup>>
  BY DEF Undo, staged, backups
<1>2. Busy(a)
  BY <1>1 DEF Busy, UndoStep
<1>3. PICK o \in Locals : o = h[a]
  BY <1>2, TurnOf
<1>4. PICK b \in Live : b = o.start.live
  BY <1>2, <1>3, TurnOf
<1>5. /\ o.at \in StepsOf(o.op) /\ o.op \in Ops /\ o.old = b /\ o.keep = o.start.warp /\ Whole(b)
      /\ o.op \notin WarpOps \/ o.at \in {"save", "revive"} => warp = o.start.warp
      /\ Lives(o, b) /\ Serves(o, b) /\ Aims(o, b)
  BY <1>2, <1>3, <1>4, TurnOf DEF Story, Locals
<1>6. live \in Live /\ o.next \in Live
  BY DEF TypeOK, Locals
<1>7. /\ o.at = UndoStep(o.op) /\ o.at \in {"undo", "undo site"} /\ o.op # "clients"
      /\ o.op \in GeoOps \cup RouteOps \cup WarpOps
  <2>1. o.at = UndoStep(o.op) /\ o.at \in {"undo", "undo site"}
    BY <1>1, <1>3 DEF UndoStep
  <2>2. o.op # "clients" /\ o.op # "warp.test"
    BY <1>5, <2>1, OpAt
  <2> QED BY <1>5, <2>1, <2>2 DEF Ops
<1> DEFINE n == Onto(o, "revive")
<1>8. /\ n.at = "revive" /\ n.op = o.op /\ n.next = o.next /\ n.was = o.was
      /\ n.start = o.start /\ "revive" \in Steps
  <2>1. "revive" \in Steps
    BY DEF Steps
  <2> QED BY <2>1, NextFields
<1>9. n = Onto(h[a], "revive")
  BY <1>3
<1> HIDE DEF n
<1>10. live' = b
  <2>1. CASE o.op \in GeoOps
    <3>1. o.op \notin RouteOps
      BY <2>1, OpKinds
    <3>2. live' = [b EXCEPT !.geo.ip = live.geo.ip]
      BY <1>3, <1>5, <2>1, <3>1 DEF Undo
    <3>3. live.geo.ip = b.geo.ip
      BY <1>5, <1>7, <2>1 DEF Lives, UndoStep
    <3> QED BY <3>2, <3>3 DEF Live, GeoFiles
  <2>2. CASE o.op \in RouteOps
    <3>1. live = [b EXCEPT !.managed = live.managed, !.config = live.config] /\ o.op \notin GeoOps
      BY <1>5, <1>7, <2>2, OpKinds DEF Lives, UndoStep
    <3>2. live' = [live EXCEPT !.managed = b.managed, !.config = b.config]
      BY <1>3, <1>5, <2>2, <3>1 DEF Undo
    <3> QED BY <1>6, <3>1, <3>2 DEF Live
  <2>3. CASE o.op \in WarpOps
    <3>1. live = [b EXCEPT !.config = live.config] /\ o.op \notin GeoOps \cup RouteOps
      BY <1>5, <1>7, <2>3, OpKinds DEF Lives, UndoStep
    <3>2. live' = [live EXCEPT !.config = b.config]
      BY <1>3, <1>5, <2>3, <3>1 DEF Undo
    <3> QED BY <1>6, <3>1, <3>2 DEF Live
  <2> QED BY <1>7, <2>1, <2>2, <2>3
<1>11. warp' = o.start.warp
  <2>1. CASE o.op \in WarpOps
    BY <1>3, <1>5, <2>1 DEF Undo
  <2>2. CASE o.op \notin WarpOps
    BY <1>3, <1>5, <2>2 DEF Undo
  <2> QED BY <2>1, <2>2
<1>12. Lives(n, b)'
  <2>1. live' = [b EXCEPT !.config = live'.config]
    BY <1>10 DEF Live
  <2> QED BY <1>7, <1>8, <1>10, <2>1 DEF Lives
<1>13. Serves(n, b)'
  <2>1. Runs(b)' \/ (o.was /\ b.config # None)
    BY <1>1, <1>5, <1>7 DEF Serves, Runs, Up
  <2> QED BY <1>7, <1>8, <2>1 DEF Serves
<1>14. Aims(n, b)'
  BY <1>1, <1>5, <1>8, AimsStay DEF AimSteps, RuleSteps, PairSteps
<1>15. "revive" \in StepsOf(o.op)
  BY <1>5, <1>7 DEF StepsOf
<1>16. o.op \notin WarpOps => warp' = warp
  BY <1>5, <1>11
<1> QED BY <1>1, <1>2, <1>3, <1>4, <1>7, <1>8, <1>9, <1>11, <1>12, <1>13, <1>14, <1>15, <1>16, GoesOn

\* Of GeoFiles' files the first is undone first.
LEMMA UndoIpInTurn ==
  ASSUME TypeOK, InTurn, alone, NEW a \in Helpers, UndoIp(a)
  PROVE  InTurn'
<1>1. /\ h[a].at = "undo" /\ h[a].op \in GeoOps /\ Goto(a, "undo site")
      /\ UNCHANGED <<previous, policy, warp, service, staging, geoCand, users, relapsed, geoBackup, routeBackup>>
  BY DEF UndoIp, staged, backups
<1>2. Busy(a)
  BY <1>1 DEF Busy
<1>3. PICK o \in Locals : o = h[a]
  BY <1>2, TurnOf
<1>4. PICK b \in Live : b = o.start.live
  BY <1>2, <1>3, TurnOf
<1>5. /\ o.at \in StepsOf(o.op) /\ o.op \in Ops /\ o.old = b /\ Whole(b)
      /\ Lives(o, b) /\ Serves(o, b) /\ Aims(o, b)
  BY <1>2, <1>3, <1>4, TurnOf DEF Story, Locals
<1>6. live \in Live
  BY DEF TypeOK
<1>7. o.at = "undo" /\ o.op \in {"geo.apply", "geo.rollback"} /\ o.op \notin RouteOps \cup WarpOps \cup {"clients"}
  <2>1. o.op # "geo.check"
    BY <1>5, OpAt
  <2> QED BY <1>1, <1>3, <2>1, OpKinds DEF GeoOps
<1> DEFINE n == Onto(o, "undo site")
<1>8. /\ n.at = "undo site" /\ n.op = o.op /\ n.next = o.next /\ n.was = o.was
      /\ n.start = o.start /\ "undo site" \in Steps
  <2>1. "undo site" \in Steps
    BY DEF Steps
  <2> QED BY <2>1, NextFields
<1>9. n = Onto(h[a], "undo site")
  BY <1>3
<1> HIDE DEF n
<1>10. live' = [live EXCEPT !.geo.ip = b.geo.ip]
  BY <1>3, <1>5 DEF UndoIp
<1>11. live'.geo.ip = b.geo.ip /\ live'.config = live.config
  BY <1>6, <1>10 DEF Live, GeoFiles
<1>12. Lives(n, b)'
  BY <1>5, <1>7, <1>8, <1>11 DEF Lives
<1>13. Serves(n, b)'
  <2>1. Runs(b)' \/ (o.was /\ b.config # None)
    BY <1>1, <1>5, <1>7 DEF Serves, Runs, Up
  <2> QED BY <1>7, <1>8, <2>1 DEF Serves
<1>14. Aims(n, b)'
  BY <1>1, <1>5, <1>8, AimsStay DEF AimSteps, RuleSteps, PairSteps
<1>15. "undo site" \in StepsOf(o.op)
  BY <1>7 DEF StepsOf
<1> QED BY <1>1, <1>2, <1>3, <1>4, <1>7, <1>8, <1>9, <1>12, <1>13, <1>14, <1>15, GoesOn

LEMMA RestFrom ==
  ASSUME UNCHANGED <<users, relapsed>>, NEW l, live' = l, Whole(l), Runs(l)'
  PROVE  Rest'
<1>1. Whole(l)'
  BY SameWhole
<1> QED BY <1>1 DEF Rest

\* The backups after a step that writes one of GeoFiles.
LEMMA BackedBy ==
  ASSUME Backed, UNCHANGED <<users, relapsed, routeBackup, previous>>,
         NEW g, geoBackup' = g, g # None /\ g.whole => Whole(g.live)
  PROVE  Backed'
<1>1. PICK r : r = routeBackup
  OBVIOUS
<1>2. r # None => Kept(r)'
  BY <1>1, SameWhole DEF Backed
<1>3. g # None /\ g.whole => Whole(g.live)'
  BY SameWhole
<1> QED BY <1>1, <1>2, <1>3 DEF Backed

\* The end of an operation, also the one a killed helper comes to.
LEMMA EndsInTurn ==
  ASSUME TypeOK, InTurn, Harmless, alone, NEW a \in Helpers,
         Revive(a) \/ Done(a) \/ Kill(a)
  PROVE  InTurn'
<1>1. /\ h[a].at # "idle" /\ End(a)
      /\ UNCHANGED <<live, previous, policy, warp, staging, users, relapsed, routeBackup>>
      /\ geoBackup' \in {geoBackup, Unfinished}
  BY DEF Revive, Done, Kill, Busy, End, disk, staged, backups
<1>2. Busy(a)
  BY <1>1 DEF Busy
<1>3. PICK o \in Locals : o = h[a]
  BY <1>2, TurnOf
<1>4. PICK b \in Live : b = o.start.live
  BY <1>2, <1>3, TurnOf
<1>5. /\ o.at \in StepsOf(o.op) /\ o.op \in Ops /\ o.old = b /\ o.keep = o.start.warp /\ Whole(b)
      /\ o.op \notin WarpOps \/ o.at \in {"save", "revive"} => warp = o.start.warp
      /\ Lives(o, b) /\ Serves(o, b) /\ Aims(o, b)
  BY <1>2, <1>3, <1>4, TurnOf DEF Story, Locals
<1>6. live \in Live /\ o.next \in Live
  BY DEF TypeOK, Locals
<1>7. Backed'
  <2>1. PICK g : g = geoBackup'
    OBVIOUS
  <2>2. g # None /\ g.whole => g = geoBackup
    BY <1>1, <2>1 DEF Unfinished
  <2>3. g # None /\ g.whole => Whole(g.live)
    BY <1>2, <2>2, TurnOf DEF Backed
  <2> QED BY <1>1, <1>2, <2>1, <2>3, TurnOf, BackedBy
<1>11. PICK l : l = live /\ live' = l
  BY <1>1
<1>8. CASE Revive(a)
  <2>1. o.at = "revive"
    BY <1>3, <1>8 DEF Revive
  <2>2. Whole(live) /\ (o.op # "clients" => live = b /\ (Runs(b) \/ (o.was /\ b.config # None)))
    BY <1>5, <2>1 DEF Lives, Serves
  <2>3. \/ /\ service' = None \/ service' = [config |-> live.config, geo |-> live.geo]
        \/ o.op # "clients" /\ ~(o.was /\ live.config # None) /\ UNCHANGED service
    BY <1>3, <1>8 DEF Revive, Boot
  <2>4. Runs(l)'
    BY <1>11, <2>2, <2>3 DEF Runs, Up
  <2> QED BY <1>1, <1>2, <1>7, <1>11, <2>2, <2>4, RestFrom, TurnEnds
<1>9. CASE Done(a)
  <2>1. o.at = "done" /\ UNCHANGED service
    BY <1>3, <1>9 DEF Done
  <2>2. Whole(live) /\ Runs(live)
    BY <1>5, <2>1 DEF Lives, Serves
  <2>3. Runs(l)'
    BY <1>11, <2>1, <2>2 DEF Runs, Up
  <2> QED BY <1>1, <1>2, <1>7, <1>11, <2>2, <2>3, RestFrom, TurnEnds
<1>10. CASE Kill(a)
  <2>1. o.at \in {"backup", "stop", "ip", "restore", "save", "revive", "done"} /\ o.at \in Kills
        /\ o.op # "clients" /\ UNCHANGED service
    BY <1>3, <1>10 DEF Kill, Harmless
  <2>2. Whole(live)
    BY <1>5, <2>1 DEF Lives
  <2>3. Runs(live)
    BY <1>5, <2>1 DEF Lives, Serves, Runs
  <2>4. Runs(l)'
    BY <1>11, <2>1, <2>3 DEF Runs, Up
  <2> QED BY <1>1, <1>2, <1>7, <1>11, <2>2, <2>4, RestFrom, TurnEnds
<1> QED BY <1>8, <1>9, <1>10

LEMMA BackUpInTurn ==
  ASSUME TypeOK, InTurn, alone, NEW a \in Helpers, BackUp(a)
  PROVE  InTurn'
<1>1. /\ h[a].at = "backup"
      /\ UNCHANGED <<live, previous, policy, warp, service, staging, geoCand, users, relapsed, routeBackup>>
  BY DEF BackUp, disk, staged
<1>2. Busy(a)
  BY <1>1 DEF Busy
<1>3. PICK o \in Locals : o = h[a]
  BY <1>2, TurnOf
<1>4. PICK b \in Live : b = o.start.live
  BY <1>2, <1>3, TurnOf
<1>5. /\ o.at \in StepsOf(o.op) /\ o.op \in Ops /\ o.old = b /\ o.keep = o.start.warp /\ Whole(b)
      /\ o.op \notin WarpOps \/ o.at \in {"save", "revive"} => warp = o.start.warp
      /\ Lives(o, b) /\ Serves(o, b) /\ Aims(o, b)
  BY <1>2, <1>3, <1>4, TurnOf DEF Story, Locals
<1>6. live \in Live /\ o.next \in Live
  BY DEF TypeOK, Locals
<1>7. o.at = "backup" /\ o.op \in {"geo.apply", "geo.rollback"} /\ o.op \notin RouteOps \cup WarpOps \cup {"clients"}
  BY <1>1, <1>3, <1>5, OpAt, OpKinds
<1>8. live = b /\ Runs(b) /\ (Up => o.was)
  BY <1>5, <1>7 DEF Lives, Serves
<1>9. (geoBackup' # None /\ geoBackup'.whole => geoBackup' = geoBackup \/ geoBackup'.live = live) => Backed'
  <2>1. SUFFICES ASSUME geoBackup' # None /\ geoBackup'.whole => geoBackup' = geoBackup \/ geoBackup'.live = live
                 PROVE  Backed'
    OBVIOUS
  <2>2. PICK g : g = geoBackup'
    OBVIOUS
  <2>3. g # None /\ g.whole => g = geoBackup \/ g.live = b
    BY <1>8, <2>1, <2>2
  <2>4. g # None /\ g.whole => Whole(g.live)
    BY <1>2, <1>5, <2>3, TurnOf DEF Backed
  <2> QED BY <1>1, <1>2, <2>2, <2>4, TurnOf, BackedBy
<1>10. ASSUME geoBackup' = [whole |-> TRUE, live |-> live],
              h' = [h EXCEPT ![a].at = "stop", ![a].old = live, ![a].was = Up]
       PROVE  InTurn'
  <2>0. PICK n : n = [o EXCEPT !.at = "stop", !.old = live, !.was = Up]
    OBVIOUS
  <2>1. h' = [h EXCEPT ![a] = n]
    BY <1>3, <1>10, <2>0, HelpersType
  <2>2. /\ n.at = "stop" /\ n.op = o.op /\ n.old = b /\ n.keep = o.keep /\ n.next = o.next
        /\ n.start = o.start /\ (Up => n.was)
    BY <1>5, <1>8, <2>0 DEF Locals
  <2>3. Lives(n, b)'
    BY <1>1, <1>7, <1>8, <2>2 DEF Lives
  <2>4. Serves(n, b)'
    BY <1>1, <1>8, <2>2 DEF Serves, Runs, Up
  <2>5. Aims(n, b)'
    BY <1>1, <1>5, <1>7, <2>2, AimsStay DEF AimSteps, RuleSteps, PairSteps
  <2>6. Whole(b)' /\ n.at \in StepsOf(n.op) /\ policy' = o.start.policy /\ warp' = o.start.warp
    <3>1. policy = o.start.policy
      BY <1>2, <1>3, <1>7, TurnOf DEF Story
    <3> QED BY <1>1, <1>5, <1>7, <2>2, <3>1, SameWhole DEF StepsOf
  <2>7. Story(n)'
    BY <1>4, <1>5, <2>2, <2>3, <2>4, <2>5, <2>6 DEF Story
  <2>8. Backed'
    BY <1>9, <1>10
  <2> QED BY <1>1, <1>2, <2>1, <2>7, <2>8, TurnMoves
<1>11. ASSUME geoBackup' \in {geoBackup, Unfinished}, End(a)
       PROVE  InTurn'
  <2>1. Backed'
    BY <1>9, <1>11 DEF Unfinished
  <2>2. Runs(b)' /\ live' = b
    BY <1>1, <1>8 DEF Runs, Up
  <2> QED BY <1>1, <1>2, <1>5, <1>11, <2>1, <2>2, RestFrom, TurnEnds
<1> QED BY <1>10, <1>11 DEF BackUp

LEMMA ClientsInTurn ==
  ASSUME TypeOK, InTurn, alone, NEW a \in Helpers,
         InstallClients(a) \/ RestartClients(a) \/ Relapse(a)
  PROVE  InTurn'
<1>1. /\ h[a].at \in {"install", "restart", "relapse"} /\ (h[a].at = "restart" => h[a].op = "clients")
      /\ UNCHANGED <<policy, warp, staging, geoCand, users, geoBackup, routeBackup>>
  BY DEF InstallClients, RestartClients, Relapse, disk, staged, backups
<1>2. Busy(a)
  BY <1>1 DEF Busy
<1>3. PICK o \in Locals : o = h[a]
  BY <1>2, TurnOf
<1>4. PICK b \in Live : b = o.start.live
  BY <1>2, <1>3, TurnOf
<1>5. /\ o.at \in StepsOf(o.op) /\ o.op \in Ops /\ o.old = b /\ o.keep = o.start.warp /\ Whole(b)
      /\ o.op \notin WarpOps \/ o.at \in {"save", "revive"} => warp = o.start.warp
      /\ Lives(o, b) /\ Serves(o, b) /\ Aims(o, b)
  BY <1>2, <1>3, <1>4, TurnOf DEF Story, Locals
<1>6. live \in Live /\ o.next \in Live
  BY DEF TypeOK, Locals
<1>7. o.op = "clients" /\ o.op \notin GeoOps \cup RouteOps \cup WarpOps
  <2>1. o.op = "clients"
    BY <1>1, <1>3, <1>5, OpAt
  <2> QED BY <2>1 DEF GeoOps, RouteOps, WarpOps
<1>8. o.next.geo = b.geo /\ o.next.manifest = b.manifest /\ o.next.managed = b.managed
  BY <1>5, <1>7 DEF Aims
<1> DEFINE At(s) == Onto(o, s)
<1>9. /\ {"restart", "relapse", "revive", "done"} \subseteq Steps
      /\ {"restart", "relapse", "revive", "done"} \subseteq StepsOf(o.op)
  BY <1>7 DEF Steps, StepsOf
<1>10. ASSUME NEW s \in {"restart", "relapse", "revive", "done"}
       PROVE  /\ At(s).at = s /\ At(s).op = "clients" /\ At(s).next = o.next /\ At(s).was = o.was
              /\ At(s).op \notin GeoOps \cup RouteOps \cup WarpOps
              /\ At(s).old = o.old /\ At(s).keep = o.keep /\ At(s).start = o.start
  BY <1>7, <1>9, NextFields
<1>11. ASSUME NEW s \in {"restart", "relapse", "revive", "done"}, Goto(a, s)
       PROVE  h' = [h EXCEPT ![a] = At(s)] /\ At(s) = Onto(h[a], s)
  BY <1>3, <1>11, HelpersType DEF Goto, Onto
<1> HIDE DEF At
<1>12. ASSUME NEW s \in {"restart", "relapse", "done"}, Goto(a, s), UNCHANGED relapsed,
              s \in AimSteps => o.at \in AimSteps,
              previous' = previous \/ (previous' # None => previous'.rev <= users),
              Lives(At(s), b)', Serves(At(s), b)'
       PROVE  InTurn'
  <2>1. Aims(At(s), b)'
    BY <1>1, <1>5, <1>7, <1>10, <1>12, AimsStay
  <2>2. h[a].at # "done" /\ s \notin {"save", "revive"}
    BY <1>1
  <2> QED BY <1>1, <1>2, <1>3, <1>4, <1>9, <1>11, <1>12, <2>1, <2>2, GoesOn
<1>13. CASE InstallClients(a)
  <2>1. /\ o.at = "install" /\ Goto(a, "restart") /\ UNCHANGED <<service, relapsed>>
        /\ previous' = live.config /\ live' = [live EXCEPT !.config = o.next.config]
    BY <1>3, <1>13 DEF InstallClients
  <2>2. live = b /\ Runs(b) /\ (Up => o.was) /\ Whole(o.next)
    BY <1>5, <2>1 DEF Lives, Serves, Aims, AimSteps
  <2>3. live' = o.next
    BY <1>6, <1>8, <2>1, <2>2 DEF Live
  <2>4. previous' = b.config /\ (previous' # None => previous'.rev <= users)
    BY <1>5, <2>1, <2>2 DEF Whole, Kept
  <2>5. Whole(live)'
    <3>1. PICK l : l = o.next
      OBVIOUS
    <3> QED BY <1>1, <2>1, <2>2, <2>3, <3>1, SameWhole
  <2>6. Lives(At("restart"), b)'
    BY <1>10, <2>3, <2>4, <2>5 DEF Lives
  <2>7. Serves(At("restart"), b)'
    BY <1>10, <2>1, <2>2 DEF Serves, Runs, Up
  <2> QED BY <1>12, <2>1, <2>4, <2>6, <2>7 DEF AimSteps
<1>14. CASE RestartClients(a)
  <2>1. /\ o.at = "restart" /\ UNCHANGED <<live, previous, relapsed>>
        /\ \/ Goto(a, "done") /\ service' = [config |-> live.config, geo |-> live.geo]
           \/ Goto(a, "relapse") /\ service' = None
    BY <1>3, <1>14 DEF RestartClients, Boot, disk
  <2>2. live = o.next /\ previous = b.config /\ Whole(live)
    BY <1>5, <1>7, <2>1 DEF Lives
  <2>3. Whole(live)'
    <3>1. PICK l : l = live
      OBVIOUS
    <3> QED BY <1>1, <2>1, <2>2, <3>1, SameWhole
  <2>4. CASE Goto(a, "done") /\ service' = [config |-> live.config, geo |-> live.geo]
    <3>1. Lives(At("done"), b)'
      BY <1>10, <2>3 DEF Lives
    <3>2. Serves(At("done"), b)'
      BY <1>10, <2>1, <2>4 DEF Serves, Runs
    <3> QED BY <1>12, <2>1, <2>4, <3>1, <3>2 DEF AimSteps
  <2>5. CASE Goto(a, "relapse") /\ service' = None
    <3>1. Lives(At("relapse"), b)'
      BY <1>10, <2>1, <2>2 DEF Lives
    <3>2. Serves(At("relapse"), b)'
      BY <1>10, <2>5 DEF Serves, Runs, Up
    <3> QED BY <1>12, <2>1, <2>5, <3>1, <3>2 DEF AimSteps
  <2> QED BY <2>1, <2>4, <2>5
<1>15. CASE Relapse(a)
  <2>1. /\ o.at = "relapse" /\ UNCHANGED previous
        /\ live' = IF previous # None THEN [live EXCEPT !.config = previous]
                   ELSE IF b.config = None THEN [live EXCEPT !.config = None] ELSE live
        /\ relapsed' = (relapsed \/ live'.config # b.config)
        /\ previous # None => Goto(a, "revive") /\ UNCHANGED service
        /\ previous = None => End(a) /\ service' = IF b.config = None THEN None ELSE service
    BY <1>3, <1>5, <1>15 DEF Relapse
  <2>2. Runs(live) /\ (live = b \/ (live = o.next /\ previous = b.config))
    BY <1>5, <2>1 DEF Lives, Serves
  <2>3. Backed /\ (relapsed => relapsed')
    BY <1>2, <2>1, TurnOf
  <2>4. ASSUME NEW l, Whole(l), l \in Live PROVE Whole(l)'
    <3>1. l.config = None \/ l.config.rev \in Nat
      BY <2>4 DEF Live, Config
    <3>2. users <= users' /\ users' \in Nat
      BY <1>1, RoutingAssumption DEF TypeOK
    <3> QED BY <2>3, <2>4, <3>1, <3>2, WholeStays
  <2>5. Backed'
    <3>1. PICK g : g = geoBackup
      OBVIOUS
    <3>2. g # None /\ g.whole => Whole(g.live) /\ g.live \in Live
      BY <2>3, <3>1 DEF Backed, TypeOK
    <3>3. g # None /\ g.whole => Whole(g.live)'
      BY <2>4, <3>2
    <3>4. PICK r : r = routeBackup
      OBVIOUS
    <3>5. r # None => Kept(r) /\ (r.config = None \/ r.config.rev \in Nat)
      BY <2>3, <3>4 DEF Backed, TypeOK, Config
    <3>6. users <= users' /\ users' \in Nat
      BY <1>1, RoutingAssumption DEF TypeOK
    <3>7. r # None => Kept(r)'
      BY <2>3, <3>5, <3>6, WholeStays
    <3> QED BY <1>1, <2>1, <2>3, <3>1, <3>3, <3>4, <3>7 DEF Backed
  <2>6. Whole(b)'
    BY <1>5, <2>4
  <2>7. live.geo = b.geo /\ live.manifest = b.manifest /\ live.managed = b.managed
    BY <1>8, <2>2
  <2>8. /\ live' \in Live /\ live'.geo = b.geo /\ live'.manifest = b.manifest /\ live'.managed = b.managed
        /\ live'.config = IF previous # None THEN previous ELSE IF b.config = None THEN None ELSE live.config
    BY <1>6, <2>1, <2>7 DEF Live, TypeOK
  <2>9. live'.config = b.config => live' = b
    BY <2>8 DEF Live
  <2>10. CASE previous # None
    <3>1. PICK l : l = live'
      OBVIOUS
    <3>2. Whole(l)'
      <4>1. CASE l.config = b.config
        BY <2>6, <2>9, <3>1, <4>1
      <4>2. CASE l.config # b.config
        <5>1. Named(b)
          BY <1>5 DEF Whole
        <5>2. Named(l)'
          BY <2>8, <3>1, <5>1 DEF Named
        <5>3. ~Trusted'
          BY <2>1, <3>1, <4>2 DEF Trusted
        <5>4. l.config # None => l.config.rev <= users'
          BY <1>1, <2>3, <2>8, <2>10, <3>1 DEF Backed
        <5> QED BY <5>2, <5>3, <5>4 DEF Whole, Kept
      <4> QED BY <4>1, <4>2
    <3>3. Lives(At("revive"), b)'
      BY <1>10, <3>1, <3>2 DEF Lives
    <3>4. Serves(At("revive"), b)'
      BY <1>10 DEF Serves
    <3>5. Aims(At("revive"), b)'
      BY <1>8, <1>10 DEF Aims, AimSteps, PairSteps, RuleSteps
    <3>6. policy = o.start.policy /\ warp = o.start.warp
      BY <1>2, <1>3, <1>7, <2>1, TurnOf DEF Story
    <3>7. PICK n : n = At("revive")
      OBVIOUS
    <3>8. Story(n)'
      BY <1>1, <1>4, <1>5, <1>7, <1>9, <1>10, <2>6, <3>3, <3>4, <3>5, <3>6, <3>7 DEF Story
    <3> QED BY <1>1, <1>2, <1>11, <2>1, <2>5, <2>10, <3>7, <3>8, TurnMoves
  <2>11. CASE previous = None
    <3>1. live' = b
      <4>1. live'.config = b.config
        BY <2>2, <2>8, <2>11
      <4> QED BY <2>9, <4>1
    <3>2. Runs(b)'
      <4>1. CASE b.config = None
        BY <2>1, <2>11, <4>1 DEF Runs, Up
      <4>2. CASE b.config # None
        <5>1. live = b /\ UNCHANGED service
          BY <2>1, <2>2, <2>11, <4>2
        <5> QED BY <2>2, <5>1 DEF Runs, Up
      <4> QED BY <4>1, <4>2
    <3>3. Rest'
      BY <2>6, <3>1, <3>2 DEF Rest
    <3> QED BY <1>1, <1>2, <2>1, <2>5, <2>11, <3>3, TurnEnds
  <2> QED BY <2>10, <2>11
<1> QED BY <1>13, <1>14, <1>15

-----------------------------------------------------------------------------
\* Beginning, when nobody else is under way.

LEMMA OfferedByOne ==
  ASSUME NEW p \in Pairs
  PROVE  Offers(Files(p)) = CatsOf[p]
<1>1. CatsOf[p] \subseteq IpCats \cup SiteCats
  BY RoutingAssumption DEF Cats
<1> QED BY <1>1 DEF Offers, Files

LEMMA BuildKeeps ==
  ASSUME TypeOK, NEW b \in Live, Whole(b), NEW rules \in SUBSET Rule, NEW c, c = Build(b.config, rules, warp)
  PROVE  /\ c \in Config /\ c # None /\ c.rules = rules /\ c.rev <= users
         /\ b.config # None => c.rev = b.config.rev
<1>1. c \in Config /\ c # None
  BY BuildType, MarkerAssumption DEF Live, TypeOK
<1>2. c.rules = rules /\ c.rev = IF b.config = None THEN 0 ELSE b.config.rev
  BY DEF Build
<1>3. users \in Nat
  BY RoutingAssumption DEF TypeOK
<1>4. c.rev <= users
  BY <1>2, <1>3 DEF Whole, Kept
<1> QED BY <1>1, <1>2, <1>4

LEMMA Begun ==
  ASSUME TypeOK, InTurn, alone, NEW a \in Helpers, MayBegin(a), NEW op \in Ops,
         NEW at \in {"backup", "write", "test", "undo", "save", "install", "relapse"},
         at \in StepsOf(op), at = "write" => op = "route.apply",
         NEW next, h' = Started(a, op, at, next),
         UNCHANGED <<staging, service, users, relapsed, policy, warp>>, Backed',
         NEW b \in Live, b = live,
         (live' = b /\ at # "test") \/ (at = "test" /\ live' = [b EXCEPT !.managed = next.managed]),
         \A n : n.at = at /\ n.op = op /\ n.next = next => Aims(n, b)'
  PROVE  InTurn'
<1>1. Quiet /\ Rest
  BY RestOf DEF MayBegin
<1>2. PICK n : n = [op |-> op, at |-> at, old |-> live, next |-> next, keep |-> warp,
                    form |-> IF op = "route.apply" THEN routeCand.form ELSE None,
                    was |-> Up, start |-> State]
  OBVIOUS
<1>3. h' = [h EXCEPT ![a] = n]
  BY <1>2 DEF Started
<1>4. /\ n.at = at /\ n.op = op /\ n.next = next /\ n.old = b /\ n.keep = warp /\ (Up => n.was)
      /\ n.start.live = b /\ n.start.warp = warp /\ n.start.policy = policy
  BY <1>2 DEF State
<1>5. Whole(b) /\ Runs(b)
  BY <1>1 DEF Rest
<1>6. Whole(b)' /\ Runs(b)'
  BY <1>5, SameWhole DEF Runs, Up
<1>7. Lives(n, b)'
  <2>1. CASE live' = b /\ at # "test"
    <3>1. b = [b EXCEPT !.config = b.config] /\ b = [b EXCEPT !.managed = b.managed, !.config = b.config]
      BY DEF Live
    <3> QED BY <1>4, <2>1, <3>1 DEF Lives
  <2>2. CASE at = "test" /\ live' = [b EXCEPT !.managed = next.managed]
    <3>1. op = "route.rollback"
      BY <2>2, OpAt
    <3> QED BY <1>4, <2>2, <3>1, OpKinds DEF Lives, WarpOps
  <2> QED BY <2>1, <2>2
<1>8. Serves(n, b)'
  <2>1. at = "relapse" => live' = b
    OBVIOUS
  <2>2. at = "relapse" => Runs(live)'
    BY <1>6, <2>1 DEF Runs
  <2> QED BY <1>4, <1>6, <2>2 DEF Serves, Up
<1>9. Aims(n, b)'
  BY <1>4
<1>10. Story(n)'
  BY <1>4, <1>6, <1>7, <1>8, <1>9 DEF Story
<1> QED BY <1>1, <1>3, <1>10, TurnBegins

\* An operation that ends as it begins.
LEMMA Refused ==
  ASSUME TypeOK, InTurn, alone, NEW a \in Helpers, MayBegin(a), End(a),
         UNCHANGED <<live, service, users, relapsed, geoBackup, routeBackup, previous>>
  PROVE  InTurn'
<1>1. Quiet /\ Rest /\ Backed
  BY RestOf DEF MayBegin
<1>2. PICK l : l = live
  OBVIOUS
<1>3. Runs(l)' /\ Whole(l) /\ live' = l
  BY <1>1, <1>2 DEF Rest, Runs, Up
<1>4. Rest' /\ Backed'
  BY <1>1, <1>3, RestFrom, SameBacked
<1> QED BY <1>1, <1>4, TurnRests DEF Quiet

LEMMA BeginGeoInTurn ==
  ASSUME TypeOK, InTurn, alone, NEW a \in Helpers, CheckGeo(a) \/ BeginGeoApply(a) \/ BeginGeoRollback(a)
  PROVE  InTurn'
<1>1. /\ MayBegin(a)
      /\ UNCHANGED <<live, previous, policy, warp, service, staging, users, relapsed, geoBackup, routeBackup>>
  BY DEF CheckGeo, BeginGeoApply, BeginGeoRollback, disk, staged, backups
<1>2. Rest /\ Backed
  BY <1>1, RestOf DEF MayBegin
<1>3. PICK b \in Live : b = live
  BY DEF TypeOK
<1>4. Whole(b) /\ Backed'
  BY <1>1, <1>2, <1>3, SameBacked DEF Rest
<1>5. CASE CheckGeo(a)
  <2>1. End(a)
    BY <1>5 DEF CheckGeo
  <2> QED BY <1>1, <2>1, Refused
<1>6. CASE BeginGeoApply(a)
  <2>1. PICK x : x = [geo |-> Files(geoCand.pair), manifest |-> geoCand.pair,
                      managed |-> geoCand.rules, config |-> Build(b.config, geoCand.rules, warp)]
    OBVIOUS
  <2>2. /\ BeginIf(a, "geo.apply", "backup", x, Loadable(geoCand.rules, warp) /\ Accepts(x.config, x.geo))
        /\ geoCand # None /\ UNCHANGED geoCand
    BY <1>3, <1>6, <2>1 DEF BeginGeoApply, staged
  <2>3. \/ End(a)
        \/ /\ Loadable(geoCand.rules, warp) /\ Accepts(x.config, x.geo)
           /\ h' = Started(a, "geo.apply", "backup", x)
    BY <2>2 DEF BeginIf, Outcomes, End
  <2>4. CASE End(a)
    BY <1>1, <2>4, Refused
  <2>5. CASE /\ Loadable(geoCand.rules, warp) /\ Accepts(x.config, x.geo)
             /\ h' = Started(a, "geo.apply", "backup", x)
    <3>1. geoCand.pair \in Pairs /\ geoCand.rules \in SUBSET Rule
      BY <2>2 DEF TypeOK
    <3>2. /\ x.config = Build(b.config, geoCand.rules, warp) /\ x.manifest = geoCand.pair
          /\ x.geo = Files(geoCand.pair) /\ x.managed = geoCand.rules
      BY <2>1
    <3>3. /\ x.config # None /\ x.config.rules = x.managed /\ x.config.rev <= users
          /\ b.config # None => x.config.rev = b.config.rev
      BY <1>4, <3>1, <3>2, BuildKeeps
    <3>4. Whole(x)
      BY <2>5, <3>1, <3>2, <3>3, OfferedByOne DEF Whole, Named, Kept
    <3>5. Whole(x)'
      BY <1>1, <3>4, SameWhole
    <3>6. ASSUME NEW n, n.at = "backup", n.op = "geo.apply", n.next = x PROVE Aims(n, b)'
      <4>1. n.op \notin RouteOps \cup WarpOps \cup {"clients"}
        BY <3>6 DEF RouteOps, WarpOps
      <4>2. Loadable(n.next.managed, warp)'
        BY <1>1, <2>5, <3>2, <3>6 DEF Loadable, Usable
      <4>3. geoCand' # None /\ geoCand'.pair = n.next.manifest
        BY <2>2, <3>2, <3>6
      <4> QED BY <3>1, <3>2, <3>3, <3>5, <3>6, <4>1, <4>2, <4>3 DEF Aims
    <3>7. "geo.apply" \in Ops /\ "backup" \in StepsOf("geo.apply")
      BY DEF Ops, GeoOps, StepsOf
    <3> QED BY <1>1, <1>3, <1>4, <2>5, <3>6, <3>7, Begun
  <2> QED BY <2>3, <2>4, <2>5
<1>7. CASE BeginGeoRollback(a)
  <2>1. PICK x : x = geoBackup.live
    OBVIOUS
  <2>2. PICK p : BeginIf(a, "geo.rollback", "backup", x, p) /\ (p => geoBackup # None /\ geoBackup.whole)
    BY <1>7, <2>1 DEF BeginGeoRollback
  <2>3. \/ End(a)
        \/ Whole(x) /\ h' = Started(a, "geo.rollback", "backup", x)
    BY <1>2, <2>1, <2>2 DEF BeginIf, Outcomes, End, Backed
  <2>4. CASE End(a)
    BY <1>1, <2>4, Refused
  <2>5. CASE Whole(x) /\ h' = Started(a, "geo.rollback", "backup", x)
    <3>1. Whole(x)'
      BY <1>1, <2>5, SameWhole
    <3>2. ASSUME NEW n, n.at = "backup", n.op = "geo.rollback", n.next = x PROVE Aims(n, b)'
      <4>1. n.op \notin RouteOps \cup WarpOps \cup {"clients"}
        BY <3>2 DEF RouteOps, WarpOps
      <4> QED BY <3>1, <3>2, <4>1 DEF Aims
    <3>3. "geo.rollback" \in Ops /\ "backup" \in StepsOf("geo.rollback")
      BY DEF Ops, GeoOps, StepsOf
    <3> QED BY <1>1, <1>3, <1>4, <2>5, <3>2, <3>3, Begun
  <2> QED BY <2>3, <2>4, <2>5
<1> QED BY <1>5, <1>6, <1>7

LEMMA BeginRouteInTurn ==
  ASSUME TypeOK, InTurn, alone, NEW a \in Helpers, BeginRouteApply(a) \/ BeginRouteRollback(a)
  PROVE  InTurn'
<1>1. /\ MayBegin(a)
      /\ UNCHANGED <<previous, policy, warp, service, staging, geoCand, users, relapsed, geoBackup>>
  BY DEF BeginRouteApply, BeginRouteRollback, disk, staged, backups
<1>2. Rest /\ Backed
  BY <1>1, RestOf DEF MayBegin
<1>3. PICK b \in Live : b = live
  BY DEF TypeOK
<1>4. Whole(b)
  BY <1>2, <1>3 DEF Rest
<1>5. CASE BeginRouteApply(a)
  <2>1. PICK x : x = [b EXCEPT !.managed = routeCand.rules, !.config = Build(b.config, routeCand.rules, warp)]
    OBVIOUS
  <2>2. /\ BeginIf(a, "route.apply", "write", x, Loadable(routeCand.rules, warp) /\ Accepts(x.config, live.geo))
        /\ routeCand # None /\ UNCHANGED live
        /\ routeBackup' = IF h'[a].at = "idle" THEN routeBackup ELSE [managed |-> live.managed, config |-> live.config]
    BY <1>3, <1>5, <2>1 DEF BeginRouteApply, disk
  <2>3. \/ End(a)
        \/ /\ Loadable(routeCand.rules, warp) /\ Accepts(x.config, b.geo)
           /\ h' = Started(a, "route.apply", "write", x)
    BY <1>3, <2>2 DEF BeginIf, Outcomes, End
  <2>4. CASE End(a)
    <3>1. h'[a].at = "idle"
      BY <2>4, HelpersType DEF End, Idle
    <3> QED BY <1>1, <2>2, <2>4, <3>1, Refused
  <2>5. CASE /\ Loadable(routeCand.rules, warp) /\ Accepts(x.config, b.geo)
             /\ h' = Started(a, "route.apply", "write", x)
    <3>1. routeCand.rules \in SUBSET Rule
      BY <2>2 DEF TypeOK
    <3>2. /\ x.config = Build(b.config, routeCand.rules, warp) /\ x.manifest = b.manifest
          /\ x.geo = b.geo /\ x.managed = routeCand.rules
      BY <2>1 DEF Live
    <3>3. /\ x.config # None /\ x.config.rules = x.managed /\ x.config.rev <= users
          /\ b.config # None => x.config.rev = b.config.rev
      BY <1>4, <3>1, <3>2, BuildKeeps
    <3>4. Whole(x)
      BY <1>4, <2>5, <3>2, <3>3 DEF Whole, Named, Kept
    <3>5. Whole(x)'
      BY <1>1, <3>4, SameWhole
    <3>6. ASSUME NEW n, n.at = "write", n.op = "route.apply", n.next = x PROVE Aims(n, b)'
      <4>1. n.op \notin WarpOps \cup {"clients"}
        BY <3>6 DEF WarpOps
      <4>2. Loadable(n.next.managed, warp)'
        BY <1>1, <2>5, <3>2, <3>6 DEF Loadable, Usable
      <4> QED BY <3>2, <3>3, <3>5, <3>6, <4>1, <4>2 DEF Aims
    <3>7. "route.apply" \in Ops /\ "write" \in StepsOf("route.apply")
      BY DEF Ops, RouteOps, StepsOf
    <3>8. Backed'
      <4>1. PICK r : r = routeBackup'
        OBVIOUS
      <4>2. Kept(r)
        <5>1. routeBackup # None => Kept(routeBackup)
          BY <1>2 DEF Backed
        <5>2. (r = routeBackup /\ h'[a].at = "idle") \/ r = [managed |-> b.managed, config |-> b.config]
          BY <1>3, <2>2, <4>1
        <5>3. h'[a].at = "write"
          BY <2>5, HelpersType DEF Started
        <5> QED BY <1>4, <5>2, <5>3 DEF Whole, Kept
      <4>3. Kept(r)'
        BY <1>1, <4>2, SameWhole
      <4>4. PICK g : g = geoBackup
        OBVIOUS
      <4>5. g # None /\ g.whole => Whole(g.live)'
        BY <1>1, <1>2, <4>4, SameWhole DEF Backed
      <4> QED BY <1>1, <1>2, <4>1, <4>3, <4>4, <4>5 DEF Backed
    <3> QED BY <1>1, <1>3, <2>2, <2>5, <3>6, <3>7, <3>8, Begun
  <2> QED BY <2>3, <2>4, <2>5
<1>6. CASE BeginRouteRollback(a)
  <2>1. PICK x : x = [b EXCEPT !.managed = routeBackup.managed, !.config = routeBackup.config]
    OBVIOUS
  <2>2. /\ routeBackup # None /\ UNCHANGED routeBackup
        /\ \/ live' = [b EXCEPT !.managed = x.managed] /\ h' = Started(a, "route.rollback", "test", x)
           \/ live' = b /\ h' = Started(a, "route.rollback", "undo", x)
    BY <1>3, <1>6, <2>1 DEF BeginRouteRollback, backups
  <2>3. x.geo = b.geo /\ x.manifest = b.manifest /\ x.managed = routeBackup.managed /\ x.config = routeBackup.config
    BY <2>1 DEF Live
  <2>4. Kept(x)
    BY <1>2, <2>2, <2>3 DEF Backed, Kept
  <2>5. Kept(x)' /\ Backed'
    BY <1>1, <1>2, <2>2, <2>4, SameWhole, SameBacked
  <2>6. ASSUME NEW n, n.at \in {"test", "undo"}, n.op = "route.rollback", n.next = x PROVE Aims(n, b)'
    <3>1. n.op \notin WarpOps \cup {"clients"}
      BY <2>6 DEF WarpOps
    <3> QED BY <2>3, <2>5, <2>6, <3>1 DEF Aims, AimSteps
  <2>7. "route.rollback" \in Ops /\ {"test", "undo"} \subseteq StepsOf("route.rollback")
    BY DEF Ops, RouteOps, StepsOf
  <2>8. CASE live' = [b EXCEPT !.managed = x.managed] /\ h' = Started(a, "route.rollback", "test", x)
    BY <1>1, <1>3, <2>5, <2>6, <2>7, <2>8, Begun
  <2>9. CASE live' = b /\ h' = Started(a, "route.rollback", "undo", x)
    BY <1>1, <1>3, <2>5, <2>6, <2>7, <2>9, Begun
  <2> QED BY <2>2, <2>8, <2>9
<1> QED BY <1>5, <1>6

LEMMA BeginWarpInTurn ==
  ASSUME TypeOK, InTurn, alone, NEW a \in Helpers,
         \/ \E op \in WarpOps : BeginWarpCreate(a, op) \/ BeginWarpSwitch(a, op)
         \/ TestWarp(a)
  PROVE  InTurn'
<1>1. /\ MayBegin(a)
      /\ UNCHANGED <<live, previous, policy, service, staging, users, relapsed, geoBackup, routeBackup>>
  BY DEF BeginWarpCreate, BeginWarpSwitch, TestWarp, disk, staged, backups
<1>2. Rest /\ Backed
  BY <1>1, RestOf DEF MayBegin
<1>3. PICK b \in Live : b = live
  BY DEF TypeOK
<1>4. Backed'
  BY <1>1, <1>2, SameBacked
<1>5. CASE End(a)
  BY <1>1, <1>5, Refused
<1>6. ASSUME NEW op \in WarpOps, h' = Started(a, op, "save", b), UNCHANGED warp,
             op \in {"warp.disable", "warp.remove"} => ~UsesWarp(b.managed)
      PROVE  InTurn'
  <2>1. op \in Ops /\ "save" \in StepsOf(op) /\ op \notin GeoOps \cup RouteOps \cup {"clients"}
    BY DEF Ops, GeoOps, RouteOps, WarpOps, StepsOf
  <2>2. ASSUME NEW n, n.at = "save", n.op = op, n.next = b PROVE Aims(n, b)'
    BY <1>6, <2>1, <2>2, OpKinds DEF Aims, AimSteps, RuleSteps, PairSteps
  <2> QED BY <1>1, <1>3, <1>4, <1>6, <2>1, <2>2, Begun
<1>7. ASSUME NEW op \in WarpOps, BeginWarpCreate(a, op) PROVE InTurn'
  <2>1. /\ op \in {"warp.install", "warp.recreate"} /\ UNCHANGED warp
        /\ \/ End(a) \/ h' = Started(a, "warp.enable", "save", b) \/ h' = Started(a, op, "save", b)
    BY <1>3, <1>7 DEF BeginWarpCreate, BeginIf, End, disk
  <2>2. "warp.enable" \in WarpOps
    BY DEF WarpOps
  <2> QED BY <1>5, <1>6, <2>1, <2>2
<1>8. ASSUME NEW op \in WarpOps, BeginWarpSwitch(a, op) PROVE InTurn'
  <2>1. /\ UNCHANGED warp
        /\ \/ End(a)
           \/ h' = Started(a, op, "save", b) /\ (op # "warp.enable" => ~UsesWarp(b.managed))
    BY <1>3, <1>8 DEF BeginWarpSwitch, disk
  <2> QED BY <1>5, <1>6, <2>1
<1>9. ASSUME TestWarp(a) PROVE InTurn'
  BY <1>5, <1>9 DEF TestWarp
<1> QED BY <1>7, <1>8, <1>9

LEMMA BeginClientsInTurn ==
  ASSUME TypeOK, InTurn, alone, NEW a \in Helpers, BeginClients(a)
  PROVE  InTurn'
<1>1. /\ MayBegin(a)
      /\ UNCHANGED <<live, previous, policy, warp, service, staging, users, relapsed, geoBackup, routeBackup>>
  BY DEF BeginClients, disk, staged, backups
<1>2. Rest /\ Backed
  BY <1>1, RestOf DEF MayBegin
<1>3. PICK b \in Live : b = live
  BY DEF TypeOK
<1>4. Whole(b) /\ Backed'
  BY <1>1, <1>2, <1>3, SameBacked DEF Rest
<1>5. PICK c : c = [Build(b.config, b.managed, warp) EXCEPT !.rev = users]
  OBVIOUS
<1>6. PICK x : x = [b EXCEPT !.config = c]
  OBVIOUS
<1>7. /\ x.config = c /\ x.geo = b.geo /\ x.manifest = b.manifest /\ x.managed = b.managed
  BY <1>6 DEF Live
<1>8. c # None /\ c.rules = b.managed /\ c.rev = users
  <2>1. Build(b.config, b.managed, warp) \in Config /\ Build(b.config, b.managed, warp).rules = b.managed
    BY BuildType DEF Live, TypeOK, Build
  <2>2. c \in Config /\ c.rules = b.managed /\ c.rev = users
    BY <1>5, <2>1 DEF Config, TypeOK
  <2> QED BY <2>2, MarkerAssumption
<1>9. \/ Accepts(c, b.geo) /\ h' = Started(a, "clients", "install", x)
      \/ h' = Started(a, "clients", "relapse", x)
  <2>1. PICK ok \in BOOLEAN : /\ ok => Accepts(x.config, live.geo)
                              /\ h' = Started(a, "clients", IF ok THEN "install" ELSE "relapse", x)
    BY <1>3, <1>5, <1>6 DEF BeginClients, Outcomes
  <2> QED BY <1>3, <1>7, <2>1
<1>10. "clients" \in Ops /\ {"install", "relapse"} \subseteq StepsOf("clients")
  BY DEF Ops, StepsOf
<1>11. CASE Accepts(c, b.geo) /\ h' = Started(a, "clients", "install", x)
  <2>1. users <= users
    BY RoutingAssumption DEF TypeOK
  <2>2. Whole(x)
    BY <1>4, <1>7, <1>8, <1>11, <2>1 DEF Whole, Kept, Named
  <2>3. Whole(x)'
    BY <1>1, <2>2, SameWhole
  <2>4. ASSUME NEW n, n.at = "install", n.op = "clients", n.next = x PROVE Aims(n, b)'
    <3>1. n.op \notin WarpOps
      BY <2>4 DEF WarpOps
    <3> QED BY <1>1, <1>7, <1>8, <2>3, <2>4, <3>1 DEF Aims
  <2> QED BY <1>1, <1>3, <1>4, <1>10, <1>11, <2>4, Begun
<1>12. CASE h' = Started(a, "clients", "relapse", x)
  <2>1. ASSUME NEW n, n.at = "relapse", n.op = "clients", n.next = x PROVE Aims(n, b)'
    <3>1. n.op \notin WarpOps
      BY <2>1 DEF WarpOps
    <3> QED BY <1>7, <2>1, <3>1 DEF Aims, AimSteps
  <2> QED BY <1>1, <1>3, <1>4, <1>10, <1>12, <2>1, Begun
<1> QED BY <1>9, <1>11, <1>12

\* The panel acts when no helper does, or on its own files.
LEMMA PanelInTurn ==
  ASSUME TypeOK, InTurn, alone,
         (\E p \in Pairs : DropCandidate(p)) \/ PlaceCandidate \/ StageRoute \/ ChangeClients
  PROVE  InTurn'
<1>1. /\ UNCHANGED <<live, previous, service, relapsed, geoBackup, routeBackup, h>>
      /\ Quiet \/ staging # None
  BY DEF DropCandidate, PlaceCandidate, StageRoute, ChangeClients, MayStage, disk, backups, staged
<1>2. \A b \in Helpers : ~Busy(b)
  BY <1>1 DEF InTurn, Quiet
<1>3. Rest /\ Backed
  BY <1>2 DEF InTurn
<1>4. users <= users' /\ users' \in Nat
  <2>1. users' = users \/ users' = users + 1
    BY DEF DropCandidate, PlaceCandidate, StageRoute, ChangeClients
  <2>2. users \in Nat
    BY RoutingAssumption DEF TypeOK
  <2> QED BY <2>1, <2>2
<1>5. PICK l \in Live : l = live
  BY DEF TypeOK
<1>6. ASSUME NEW x, x.config = None \/ x.config \in Config PROVE (Whole(x) => Whole(x)') /\ (Kept(x) => Kept(x)')
  <2>1. x.config = None \/ x.config.rev \in Nat
    BY <1>6 DEF Config
  <2> QED BY <1>1, <1>4, <2>1, WholeStays
<1>7. Rest'
  <2>1. Whole(l)'
    BY <1>3, <1>5, <1>6 DEF Rest, Live
  <2>2. Runs(l)'
    BY <1>1, <1>3, <1>5 DEF Rest, Runs, Up
  <2> QED BY <1>1, <1>5, <2>1, <2>2 DEF Rest
<1>8. Backed'
  <2>1. PICK g : g = geoBackup
    OBVIOUS
  <2>2. PICK r : r = routeBackup
    OBVIOUS
  <2>3. g # None /\ g.whole => Whole(g.live)'
    <3>1. g # None => g.live.config = None \/ g.live.config \in Config
      BY <2>1 DEF TypeOK, Live
    <3> QED BY <1>3, <1>6, <2>1, <3>1 DEF Backed
  <2>4. r # None => Kept(r)'
    <3>1. r # None => r.config = None \/ r.config \in Config
      BY <2>2 DEF TypeOK
    <3> QED BY <1>3, <1>6, <2>2, <3>1 DEF Backed
  <2>5. previous # None => previous.rev <= users'
    BY <1>3, <1>4, RoutingAssumption DEF Backed, TypeOK, Config
  <2> QED BY <1>1, <2>1, <2>2, <2>3, <2>4, <2>5 DEF Backed
<1> QED BY <1>1, <1>2, <1>7, <1>8, TurnRests

LEMMA InitInTurn == Init => InTurn
<1> SUFFICES ASSUME Init PROVE InTurn
  OBVIOUS
<1>1. PICK fresh \in Fresh :
        /\ live = [geo |-> Files(Installed), manifest |-> None, managed |-> {},
                   config |-> IF fresh THEN None ELSE [rev |-> 1, rules |-> {}, warp |-> 0]]
        /\ service = IF fresh THEN None ELSE [config |-> live.config, geo |-> live.geo]
  BY DEF Init
<1>2. /\ previous = None /\ geoBackup = None /\ routeBackup = None /\ users = 1
      /\ h = [a \in Helpers |-> Idle] /\ ~relapsed
  BY DEF Init
<1>3. fresh \in BOOLEAN /\ (TRUE \notin Fresh => ~fresh)
  BY RoutingAssumption
<1>4. [rev |-> 1, rules |-> {}, warp |-> 0] # None
  <2>1. [rev |-> 1, rules |-> {}, warp |-> 0] \in Config
    BY RoutingAssumption DEF Config
  <2> QED BY <2>1, MarkerAssumption
<1>5. PICK c : c = [rev |-> 1, rules |-> {}, warp |-> 0]
  OBVIOUS
<1>6. c # None /\ c.rev = 1 /\ c.rules = {}
  BY <1>4, <1>5
<1>7. live.config = (IF fresh THEN None ELSE c) /\ live.managed = {} /\ live.manifest = None
  BY <1>1, <1>5
<1>8. Whole(live)
  <2>1. Accepts(c, live.geo)
    BY <1>6 DEF Accepts, Refers
  <2>2. CASE fresh
    BY <1>3, <1>7, <2>2 DEF Whole, Named, Kept, Trusted
  <2>3. CASE ~fresh
    <3>1. live.config = c /\ live.managed = {} /\ live.manifest = None /\ 1 <= users
      BY <1>2, <1>7, <2>3
    <3>2. Kept(live)
      BY <1>6, <3>1 DEF Kept
    <3> QED BY <2>1, <3>1, <3>2 DEF Whole, Named
  <2> QED BY <2>2, <2>3
<1>9. Runs(live)
  BY <1>1, <1>3 DEF Runs, Up
<1>10. \A a \in Helpers : ~Busy(a)
  BY <1>2 DEF Busy, Idle
<1> QED BY <1>2, <1>8, <1>9, <1>10 DEF InTurn, Rest, Backed

\* Nothing happens.
LEMMA StutterInTurn == ASSUME TypeOK, InTurn, UNCHANGED vars PROVE InTurn'
<1>1. /\ UNCHANGED <<live, previous, policy, warp, service, staging, geoCand, geoBackup, routeBackup, users>>
      /\ UNCHANGED <<h, relapsed, alone>>
  BY DEF vars
<1>2. ASSUME NEW o, NEW b, Lives(o, b) PROVE Lives(o, b)'
  <2>1. PICK l : l = live
    OBVIOUS
  <2>2. Whole(live) => Whole(live)'
    BY <1>1, <2>1, SameWhole
  <2>3. /\ live' = live /\ previous' = previous
        /\ (live = Applied(o, b))' <=> live = Applied(o, b)
    BY <1>1 DEF Applied
  <2>4. CASE o.at \in {"backup", "stop", "ip", "restore", "save", "install"}
    BY <1>1, <1>2, <2>2, <2>3, <2>4 DEF Lives
  <2>5. CASE o.at \in {"test", "write", "site", "restore site", "rules"}
    <3>1. CASE o.at \in {"test", "write"}
      BY <1>2, <2>3, <3>1 DEF Lives
    <3>2. CASE o.at \in {"site", "restore site"}
      BY <1>2, <2>3, <3>2 DEF Lives
    <3>3. CASE o.at = "rules"
      BY <1>2, <2>3, <3>3 DEF Lives
    <3> QED BY <2>5, <3>1, <3>2, <3>3
  <2>6. CASE o.at \in {"start", "manifest"}
    BY <1>1, <1>2, <2>2, <2>3, <2>6 DEF Lives
  <2>7. CASE o.at \in {"undo site", "relapse"}
    BY <1>1, <1>2, <2>2, <2>3, <2>7 DEF Lives
  <2>8. CASE o.at = "revive"
    BY <1>1, <1>2, <2>2, <2>3, <2>8 DEF Lives
  <2>9. CASE o.at \in {"restart", "policy", "unlink", "done"}
    BY <1>1, <1>2, <2>2, <2>3, <2>9 DEF Lives
  <2>10. CASE o.at = "undo"
    BY <1>1, <1>2, <2>2, <2>3, <2>10 DEF Lives
  <2>11. CASE o.at \notin Steps
    BY <1>1, <1>2, <2>2, <2>3, <2>11 DEF Lives, Steps
  <2> QED BY <2>4, <2>5, <2>6, <2>7, <2>8, <2>9, <2>10, <2>11 DEF Steps
<1>3. ASSUME NEW o, NEW b, Serves(o, b) PROVE Serves(o, b)'
  BY <1>1, <1>3 DEF Serves, Runs, Up
<1>4. ASSUME NEW o, NEW b, Aims(o, b) PROVE Aims(o, b)'
  <2>1. PICK x : x = o.next
    OBVIOUS
  <2>2. (Whole(x) => Whole(x)') /\ (Kept(x) => Kept(x)')
    BY <1>1, SameWhole
  <2> QED BY <1>1, <1>4, <2>1, <2>2 DEF Aims, Loadable, Usable
<1>5. ASSUME NEW o, Story(o) PROVE Story(o)'
  <2>1. PICK b : b = o.start.live
    OBVIOUS
  <2>2. Lives(o, b)' /\ Serves(o, b)' /\ Aims(o, b)' /\ Whole(b)'
    BY <1>1, <1>2, <1>3, <1>4, <1>5, <2>1, SameWhole DEF Story
  <2> QED BY <1>1, <1>5, <2>1, <2>2 DEF Story
<1>6. Rest => Rest'
  <2>1. PICK l : l = live
    OBVIOUS
  <2>2. Whole(l) => Whole(l)'
    BY <1>1, SameWhole
  <2> QED BY <1>1, <2>1, <2>2 DEF Rest, Runs, Up
<1>7. Backed => Backed'
  BY <1>1, SameBacked
<1>8. \A a \in Helpers : Busy(a)' <=> Busy(a)
  BY <1>1 DEF Busy
<1>9. ASSUME NEW a \in Helpers, Story(h[a]) PROVE Story(h[a])'
  <2>1. PICK o : o = h[a]
    OBVIOUS
  <2>2. Story(o)'
    BY <1>5, <1>9, <2>1
  <2> QED BY <1>1, <2>1, <2>2
<1>10. CASE ~alone
  BY <1>1, <1>10 DEF InTurn
<1>11. CASE alone
  <2>1. /\ \A a, b \in Helpers : Busy(a)' /\ Busy(b)' => a = b
        /\ \A a \in Helpers : Busy(a)' => staging' = None /\ Story(h[a])'
        /\ (\A a \in Helpers : ~Busy(a)') => Rest'
        /\ Backed'
    BY <1>1, <1>6, <1>7, <1>8, <1>9, <1>11 DEF InTurn
  <2> QED BY <2>1 DEF InTurn
<1> QED BY <1>10, <1>11

LEMMA AloneStays == Next => UNCHANGED alone
<1>1. ASSUME NEW a \in Helpers, Begin(a) PROVE UNCHANGED alone
  BY <1>1 DEF Begin, CheckGeo, BeginGeoApply, BeginGeoRollback, BeginRouteApply, BeginRouteRollback,
              BeginWarpCreate, BeginWarpSwitch, TestWarp, BeginClients
<1>2. ASSUME NEW a \in Helpers, Continue(a) PROVE UNCHANGED alone
  <2>1. BackUp(a) \/ StopXray(a) \/ CopyIp(a) \/ CopySite(a) \/ WriteRouting(a) \/ RestoreIp(a) \/ RestoreBackup(a)
          \/ StartXray(a) \/ WriteManifest(a) \/ GeoBreaks(a) \/ TestRouteBackup(a) \/ WriteRoute(a)
          => UNCHANGED alone
    BY DEF BackUp, StopXray, CopyIp, CopySite, WriteRouting, RestoreIp, RestoreBackup, StartXray,
           WriteManifest,
           GeoBreaks, TestRouteBackup, WriteRoute
  <2>2. SaveWarp(a) \/ WriteWarp(a) \/ RestartXray(a) \/ WritePolicy(a) \/ Unlink(a)
        \/ FilesBreak(a) \/ UndoIp(a) \/ Undo(a)
          \/ Revive(a) \/ InstallClients(a) \/ RestartClients(a) \/ Relapse(a) \/ Done(a)
          => UNCHANGED alone
    BY DEF SaveWarp, WriteWarp, RestartXray, WritePolicy, Unlink, FilesBreak, UndoIp, Undo, Revive, InstallClients,
           RestartClients, Relapse, Done
  <2> QED BY <1>2, <2>1, <2>2 DEF Continue
<1>3. ASSUME NEW a \in Helpers, Kill(a) PROVE UNCHANGED alone
  BY <1>3 DEF Kill
<1>4. (\E p \in Pairs : DropCandidate(p)) \/ PlaceCandidate \/ StageRoute \/ ChangeClients => UNCHANGED alone
  BY DEF DropCandidate, PlaceCandidate, StageRoute, ChangeClients
<1> QED BY <1>1, <1>2, <1>3, <1>4 DEF Next

LEMMA NextInTurn == ASSUME TypeOK, InTurn, Harmless, [Next]_vars PROVE InTurn'
<1>1. CASE UNCHANGED vars
  BY <1>1, StutterInTurn
<1>2. CASE Next /\ ~alone
  BY <1>2, AloneStays DEF InTurn
<1>3. CASE Next /\ alone
  <2>1. ASSUME NEW a \in Helpers, Begin(a) PROVE InTurn'
    BY <1>3, <2>1, BeginGeoInTurn, BeginRouteInTurn, BeginWarpInTurn, BeginClientsInTurn DEF Begin
  <2>2. ASSUME NEW a \in Helpers, Continue(a) PROVE InTurn'
    <3>1. RestartXray(a) => h[a].op \in RouteOps \/ h[a].op \in WarpOps
      BY DEF RestartXray
    <3>2. FilesBreak(a) => h[a].op \in RouteOps \/ h[a].op \in WarpOps
      <4>1. h[a].at \in {"write", "save", "unlink"} => h[a].at \in StepsOf(h[a].op) /\ h[a].op \in Ops
        BY <1>3, TurnOf DEF Busy, Story, Locals
      <4> QED BY <4>1, OpAt DEF FilesBreak, Ops, GeoOps, RouteOps, WarpOps
    <3> QED BY <1>3, <2>2, <3>1, <3>2, BackUpInTurn, GeoInTurn, RouteInTurn, WarpInTurn, UndoIpInTurn, UndoInTurn,
               EndsInTurn, ClientsInTurn DEF Continue
  <2>3. ASSUME NEW a \in Helpers, Kill(a) PROVE InTurn'
    BY <1>3, <2>3, EndsInTurn
  <2> QED BY <1>3, <2>1, <2>2, <2>3, PanelInTurn DEF Next
<1> QED BY <1>1, <1>2, <1>3

\* Operations that wait for one another, killed at no step that has written
\* something, on a server that serves clients already: whatever of them fails,
\* the config.json they leave can be started with the files they leave, and its
\* rules are the managed ones.
THEOREM RulesInForceInTurn == ASSUME Harmless, TRUE \notin Fresh PROVE Spec => []RulesInForce
<1>1. Init => TypeOK /\ InTurn
  BY InitType, InitInTurn
<1>2. TypeOK /\ InTurn /\ [Next]_vars => (TypeOK /\ InTurn)'
  BY NextType, NextInTurn
<1>3. InTurn => RulesInForce
  BY DEF InTurn, RulesInForce, AtRest, Rest, Whole, Kept, Trusted
<1> QED BY <1>1, <1>2, <1>3, PTL DEF Spec

\* ...and a running Xray was started from what is installed, named after its
\* source, if no helper is killed while it starts the service again.
THEOREM ServedInTurn == ASSUME Harmless, "revive" \notin Kills PROVE Spec => []ServedIsInstalled
<1>1. Init => TypeOK /\ InTurn
  BY InitType, InitInTurn
<1>2. TypeOK /\ InTurn /\ [Next]_vars => (TypeOK /\ InTurn)'
  BY NextType, NextInTurn
<1>3. InTurn => ServedIsInstalled
  <2> SUFFICES ASSUME InTurn, AtRest
               PROVE  /\ Up => service = [config |-> live.config, geo |-> live.geo]
                      /\ ActiveReport.source # None => ActiveReport.categories = CatsOf[ActiveReport.source]
    BY DEF ServedIsInstalled
  <2>1. Whole(live) /\ Runs(live)
    BY DEF InTurn, AtRest, Rest
  <2> QED BY <2>1 DEF Runs, Whole, Named, ActiveReport
<1> QED BY <1>1, <1>2, <1>3, PTL DEF Spec

-----------------------------------------------------------------------------
\* What the steps of operations that wait for one another never do.

\* The step of the only operation under way.
LEMMA OnlyTurn ==
  ASSUME TypeOK, InTurn, alone, NEW a \in Helpers, Busy(a), NEW c \in Helpers
  PROVE  ~Begin(c) /\ (Continue(c) \/ Kill(c) => c = a)
<1>1. ~Begin(c)
  BY DEF Begin, CheckGeo, BeginGeoApply, BeginGeoRollback, BeginRouteApply, BeginRouteRollback,
         BeginWarpCreate, BeginWarpSwitch, TestWarp, BeginClients, MayBegin, Quiet
<1>2. Continue(c) \/ Kill(c) => Busy(c)
  <2>1. BackUp(c) \/ StopXray(c) \/ CopyIp(c) \/ CopySite(c) \/ WriteRouting(c) \/ RestoreIp(c)
          \/ RestoreBackup(c) \/ StartXray(c) \/ WriteManifest(c) \/ GeoBreaks(c) \/ TestRouteBackup(c) \/ WriteRoute(c)
          => Busy(c)
    BY DEF Busy, BackUp, StopXray, CopyIp, CopySite, WriteRouting, RestoreIp, RestoreBackup, StartXray,
           WriteManifest, GeoBreaks, TestRouteBackup, WriteRoute
  <2>2. SaveWarp(c) \/ WriteWarp(c) \/ RestartXray(c) \/ WritePolicy(c) \/ Unlink(c)
        \/ FilesBreak(c) \/ UndoIp(c) \/ Undo(c)
          \/ Revive(c) \/ InstallClients(c) \/ RestartClients(c) \/ Relapse(c) \/ Done(c) \/ Kill(c)
          => Busy(c)
    BY DEF Busy, SaveWarp, WriteWarp, RestartXray, WritePolicy, Unlink, FilesBreak, UndoIp, Undo, UndoStep,
           Revive, InstallClients,
           RestartClients, Relapse, Done, Kill
  <2> QED BY <2>1, <2>2 DEF Continue
<1> QED BY <1>1, <1>2, TurnOf

\* The steps after which an operation is still under way.
LEMMA StillBusy ==
  ASSUME TypeOK, NEW a \in Helpers, Busy(a), Continue(a), h'[a].at = "idle"
  PROVE  BackUp(a) \/ Revive(a) \/ Done(a) \/ Relapse(a) \/ (WritePolicy(a) /\ UNCHANGED policy)
<1>1. ASSUME NEW s, Goto(a, s) PROVE h'[a].at = s
  <2>1. h[a] \in Locals
    BY HelpersType, BusyLocals DEF Busy
  <2>2. h'[a] = [h[a] EXCEPT !.at = s]
    BY <1>1, HelpersType DEF Goto
  <2> QED BY <2>1, <2>2 DEF Locals
<1>2. StopXray(a) \/ CopyIp(a) \/ CopySite(a) \/ WriteRouting(a) \/ RestoreIp(a) \/ RestoreBackup(a)
        \/ WriteManifest(a) \/ GeoBreaks(a) \/ TestRouteBackup(a) \/ WriteRoute(a) \/ SaveWarp(a) \/ WriteWarp(a)
        \/ Unlink(a) \/ FilesBreak(a) \/ UndoIp(a) \/ Undo(a) \/ InstallClients(a) \/ RestartClients(a)
      => \E s \in {"ip", "site", "rules", "restore", "restore site", "start", "done", "undo", "undo site", "write",
                   "restart", "revive", "relapse"} : Goto(a, s)
  BY DEF StopXray, CopyIp, CopySite, WriteRouting, RestoreIp, RestoreBackup, WriteManifest, GeoBreaks,
         TestRouteBackup, WriteRoute, SaveWarp, WriteWarp, Unlink, FilesBreak, UndoIp, Undo, InstallClients,
         RestartClients
<1>3. StartXray(a) \/ RestartXray(a) => \E s \in {"manifest", "done", "undo", "policy", "unlink"} : Goto(a, s)
  BY DEF StartXray, RestartXray
<1>4. WritePolicy(a) => Goto(a, "done") \/ UNCHANGED policy
  BY DEF WritePolicy
<1> QED BY <1>1, <1>2, <1>3, <1>4 DEF Continue

LEMMA FailureChangesNothing ==
  ASSUME TypeOK, InTurn, Harmless, alone, NEW a \in Helpers, Busy(a), h[a].op # "clients", h[a].at # "done",
         Next, h'[a].at = "idle"
  PROVE  State' = IF h[a].at = "policy" THEN AppliedUnsaved(h[a]) ELSE h[a].start
<1>1. PICK o \in Locals : o = h[a]
  BY TurnOf
<1>2. PICK b \in Live : b = o.start.live
  BY <1>1, TurnOf
<1>3. /\ o.at \in StepsOf(o.op) /\ o.op \in Ops /\ o.old = b /\ o.keep = o.start.warp /\ Whole(b)
      /\ o.op \notin WarpOps \/ o.at \in {"save", "revive"} => warp = o.start.warp
      /\ o.at # "done" => policy = o.start.policy
      /\ Lives(o, b) /\ Serves(o, b) /\ Aims(o, b)
  BY <1>1, <1>2, TurnOf DEF Story, Locals
<1>4. live \in Live /\ o.next \in Live
  BY DEF TypeOK, Locals
<1>5. BackUp(a) \/ Revive(a) \/ Kill(a) \/ (WritePolicy(a) /\ UNCHANGED policy)
  <2>1. ~((\E p \in Pairs : DropCandidate(p)) \/ PlaceCandidate \/ StageRoute \/ ChangeClients)
    BY DEF DropCandidate, PlaceCandidate, StageRoute, ChangeClients, Busy
  <2>2. Continue(a) \/ Kill(a)
    BY <2>1, OnlyTurn DEF Next
  <2>3. ~Done(a) /\ ~Relapse(a)
    BY <1>1, <1>3, OpAt DEF Done, Relapse
  <2> QED BY <2>2, <2>3, StillBusy
<1>6. o.at \in {"backup", "stop", "ip", "restore", "save", "revive", "policy"} /\ UNCHANGED <<live, warp, policy>>
  BY <1>1, <1>5 DEF BackUp, Revive, Kill, WritePolicy, Harmless, disk
<1>7. policy = o.start.policy /\ live = IF o.at = "policy" THEN Applied(o, b) ELSE b
  <2>1. o.at = "policy" => o.op = "route.apply"
    BY <1>3, OpAt
  <2> QED BY <1>1, <1>3, <1>6, <2>1 DEF Lives
<1>8. warp = o.start.warp
  <2>1. o.at \in {"backup", "stop", "ip", "restore", "policy"} => o.op \notin WarpOps
    <3>1. o.op \in WarpOps => o.at \in {"save", "write", "restart", "unlink", "undo", "revive", "done"}
      BY <1>3 DEF StepsOf, WarpOps
    <3> QED BY <3>1
  <2> QED BY <1>3, <1>6, <2>1
<1>9. o.start = [live |-> b, warp |-> warp, policy |-> policy]
  BY <1>2, <1>7, <1>8 DEF Locals
<1>10. CASE o.at # "policy"
  BY <1>1, <1>6, <1>7, <1>9, <1>10 DEF State
<1>11. CASE o.at = "policy"
  <2>1. AppliedUnsaved(o) = [live |-> Applied(o, b), warp |-> warp, policy |-> policy]
    <3>1. o.start.live = b
      BY <1>9
    <3>2. AppliedUnsaved(o).live = Applied(o, b)
      BY <1>9, <3>1 DEF AppliedUnsaved, Applied, Live
    <3>3. AppliedUnsaved(o).warp = warp /\ AppliedUnsaved(o).policy = policy
      BY <1>9 DEF AppliedUnsaved
    <3>4. AppliedUnsaved(o) = [o.start EXCEPT !.live = Applied(o, b)]
      BY <1>9, <3>1, <3>2 DEF AppliedUnsaved
    <3> QED BY <1>9, <3>4
  <2> QED BY <1>1, <1>6, <1>7, <1>11, <2>1 DEF State
<1> QED BY <1>10, <1>11

\* Rules and WARP change together only where the rules do not need it.
LEMMA LoadableStays ==
  ASSUME TypeOK, InTurn, alone, Next, Loadable(live.managed, warp), ~Loadable(live.managed, warp)'
  PROVE  warp'.bad \/ \E a \in Helpers : h[a].at \in {"restore site", "undo", "undo site"}
<1>1. ~(live'.managed = live.managed /\ UNCHANGED warp)
  BY DEF Loadable, Usable
<1>2. ASSUME NEW a \in Helpers, Begin(a) PROVE warp'.bad
  <2>1. CASE BeginRouteRollback(a)
    <3>1. UNCHANGED warp /\ (live'.managed = live.managed \/ Loadable(live'.managed, warp))
      BY <2>1 DEF BeginRouteRollback, TypeOK, Live
    <3> QED BY <1>1, <3>1 DEF Loadable, Usable
  <2>2. CASE TestWarp(a)
    <3>1. PICK bad \in BOOLEAN : warp' = [warp EXCEPT !.bad = bad]
      BY <2>2 DEF TestWarp, LastTest
    <3>2. UNCHANGED live
      BY <2>2 DEF TestWarp
    <3>3. warp'.bad = bad /\ warp'.on = warp.on /\ warp'.id = warp.id
      BY <3>1 DEF TypeOK, Warp
    <3> QED BY <3>2, <3>3 DEF Loadable, Usable
  <2>3. CASE ~BeginRouteRollback(a) /\ ~TestWarp(a)
    <3>1. UNCHANGED <<live, warp>>
      BY <1>2, <2>3 DEF Begin, CheckGeo, BeginGeoApply, BeginGeoRollback, BeginRouteApply, BeginWarpCreate,
                        BeginWarpSwitch, BeginClients, disk
    <3> QED BY <1>1, <3>1
  <2> QED BY <2>1, <2>2, <2>3
<1>3. ASSUME NEW a \in Helpers, Continue(a), h[a].at \notin {"restore site", "undo", "undo site"} PROVE FALSE
  <2>1. Busy(a)
    <3>1. SUFFICES ASSUME ~Busy(a) PROVE FALSE
      OBVIOUS
    <3> QED BY <1>3, <3>1 DEF Busy, Continue, BackUp, StopXray, CopyIp, CopySite, WriteRouting,
           RestoreIp, RestoreBackup,
           StartXray, WriteManifest, GeoBreaks, TestRouteBackup, WriteRoute, SaveWarp, WriteWarp, RestartXray,
           WritePolicy, Unlink, FilesBreak, UndoIp, Undo, UndoStep, Revive, InstallClients,
           RestartClients, Relapse, Done
  <2>2. PICK o \in Locals : o = h[a]
    BY <2>1, TurnOf
  <2>3. PICK b \in Live : b = o.start.live
    BY <2>1, <2>2, TurnOf
  <2>4. /\ o.at \in StepsOf(o.op) /\ o.op \in Ops /\ o.old = b
        /\ Lives(o, b) /\ Aims(o, b)
    BY <2>1, <2>2, <2>3, TurnOf DEF Story, Locals
  <2>5. live \in Live /\ o.next \in Live
    BY DEF TypeOK, Locals
  <2>6. CASE WriteRouting(a)
    <3>1. o.at = "rules" /\ UNCHANGED warp /\ live'.managed = o.next.managed
      BY <2>2, <2>5, <2>6 DEF WriteRouting, Live
    <3>2. Loadable(o.next.managed, warp)
      BY <2>4, <3>1, OpAt DEF Aims, RuleSteps
    <3> QED BY <3>1, <3>2 DEF Loadable, Usable
  <2>7. CASE WriteRoute(a)
    <3>1. o.at = "write" /\ UNCHANGED warp /\ live'.managed = o.next.managed /\ o.op \in RouteOps
      BY <2>2, <2>5, <2>7 DEF WriteRoute, Live
    <3>2. CASE o.op = "route.apply"
      <4>1. Loadable(o.next.managed, warp)
        BY <2>4, <3>1, <3>2 DEF Aims, RuleSteps
      <4> QED BY <3>1, <4>1 DEF Loadable, Usable
    <3>3. CASE o.op = "route.rollback"
      <4>1. live = [b EXCEPT !.managed = o.next.managed]
        BY <2>4, <3>1, <3>3 DEF Lives
      <4>2. live.managed = o.next.managed
        BY <4>1 DEF Live
      <4> QED BY <1>1, <3>1, <4>2
    <3> QED BY <3>1, <3>2, <3>3 DEF RouteOps
  <2>8. CASE SaveWarp(a)
    <3>1. o.at = "save" /\ UNCHANGED live
          /\ warp' = IF o.op \in {"warp.install", "warp.recreate"} THEN NewProfile
                     ELSE [warp EXCEPT !.on = o.op = "warp.enable"]
      BY <2>2, <2>8 DEF SaveWarp
    <3>2. live = b /\ o.op \in WarpOps
      BY <2>4, <3>1, OpAt DEF Lives
    <3>3. UsesWarp(live.managed) /\ Usable(warp)
      BY <3>1 DEF Loadable
    <3>4. o.op \notin {"warp.disable", "warp.remove"}
      BY <2>4, <3>2, <3>3 DEF Aims
    <3>5. CASE o.op \in {"warp.install", "warp.recreate"}
      <4>1. warp'.on /\ ~warp'.bad /\ warp'.id = (warp.id % 2) + 1
        BY <3>1, <3>5 DEF NewProfile
      <4>2. warp'.id # 0
        BY <4>1 DEF TypeOK, Warp
      <4> QED BY <3>1, <4>1, <4>2 DEF Loadable, Usable
    <3>6. CASE o.op = "warp.enable"
      <4>1. warp'.on /\ warp'.bad = warp.bad /\ warp'.id = warp.id
        BY <3>1, <3>6 DEF TypeOK, Warp
      <4> QED BY <3>1, <3>3, <4>1 DEF Loadable, Usable
    <3> QED BY <3>2, <3>4, <3>5, <3>6 DEF WarpOps
  <2>9. CASE Unlink(a)
    <3>1. o.at = "unlink" /\ UNCHANGED live /\ o.op = "warp.remove"
      BY <2>2, <2>4, <2>9, OpAt DEF Unlink
    <3>2. live = [b EXCEPT !.config = live.config] /\ ~UsesWarp(b.managed)
      BY <2>4, <3>1 DEF Lives, Aims, WarpOps
    <3>3. live.managed = b.managed
      BY <3>2 DEF Live
    <3> QED BY <3>1, <3>2, <3>3 DEF Loadable
  <2>10. BackUp(a) \/ StopXray(a) \/ CopyIp(a) \/ CopySite(a) \/ StartXray(a) \/ WriteManifest(a) \/ GeoBreaks(a)
           \/ TestRouteBackup(a) \/ WriteWarp(a) \/ RestartXray(a) \/ WritePolicy(a) \/ Revive(a) \/ Done(a)
           \/ RestoreIp(a) \/ FilesBreak(a)
         => live'.managed = live.managed /\ UNCHANGED warp
    BY <2>5 DEF BackUp, StopXray, CopyIp, CopySite, StartXray, WriteManifest, GeoBreaks, TestRouteBackup,
                WriteWarp, RestartXray, WritePolicy, Revive, Done, RestoreIp, FilesBreak, disk, Live
  <2>11. InstallClients(a) \/ RestartClients(a) \/ Relapse(a) => live'.managed = live.managed /\ UNCHANGED warp
    BY <2>5 DEF InstallClients, RestartClients, Relapse, disk, Live
  <2>12. ~RestoreBackup(a) /\ ~Undo(a) /\ ~UndoIp(a)
    BY <1>3 DEF RestoreBackup, Undo, UndoStep, UndoIp
  <2> QED BY <1>1, <1>3, <2>6, <2>7, <2>8, <2>9, <2>10, <2>11, <2>12 DEF Continue
<1>4. ASSUME NEW a \in Helpers, Kill(a) PROVE FALSE
  BY <1>1, <1>4 DEF Kill, disk
<1>5. ~((\E p \in Pairs : DropCandidate(p)) \/ PlaceCandidate \/ StageRoute \/ ChangeClients)
  BY <1>1 DEF DropCandidate, PlaceCandidate, StageRoute, ChangeClients, disk
<1> QED BY <1>2, <1>3, <1>4, <1>5 DEF Next

\* Every step that writes config.json keeps the clients in it.
LEMMA ClientsStay ==
  ASSUME TypeOK, InTurn, alone, Next, live.config # None, live'.config # None, live'.config.rev < live.config.rev
  PROVE  \E a \in Helpers : h[a].op \in {"geo.rollback", "route.rollback"} \/ h[a].at = "relapse"
<1>0. live \in Live /\ live.config \in Config /\ live.config.rev \in Nat
  BY DEF TypeOK, Live, Config
<1>1. live'.config # live.config
  BY <1>0
<1>2. ASSUME NEW a \in Helpers, Begin(a) PROVE FALSE
  <2>1. live'.config = live.config
    BY <1>0, <1>2 DEF Begin, CheckGeo, BeginGeoApply, BeginGeoRollback, BeginRouteApply, BeginRouteRollback,
         BeginWarpCreate, BeginWarpSwitch, TestWarp, BeginClients, disk, Live
  <2> QED BY <1>1, <2>1
<1>3. ASSUME NEW a \in Helpers, Continue(a), h[a].op \notin {"geo.rollback", "route.rollback"}, h[a].at # "relapse"
      PROVE  FALSE
  <2>1. Busy(a)
    BY <1>3 DEF Busy, Continue, BackUp, StopXray, CopyIp, CopySite, WriteRouting,
           RestoreIp, RestoreBackup,
           StartXray, WriteManifest, GeoBreaks, TestRouteBackup, WriteRoute, SaveWarp, WriteWarp, RestartXray,
           WritePolicy, Unlink, FilesBreak, UndoIp, Undo, UndoStep, Revive, InstallClients,
           RestartClients, Relapse, Done
  <2>2. PICK o \in Locals : o = h[a]
    BY <2>1, TurnOf
  <2>3. PICK b \in Live : b = o.start.live
    BY <2>1, <2>2, TurnOf
  <2>4. /\ o.at \in StepsOf(o.op) /\ o.op \in Ops /\ o.old = b /\ Whole(b)
        /\ Lives(o, b) /\ Aims(o, b)
    BY <2>1, <2>2, <2>3, TurnOf DEF Story, Locals
  <2>5. o.next \in Live
    BY DEF Locals
  <2>6. CASE WriteRouting(a)
    <3>1. o.at = "rules" /\ live'.config = IF b.config # None THEN o.next.config ELSE live.config
      BY <1>0, <2>2, <2>4, <2>6 DEF WriteRouting, Live
    <3>2. live = [b EXCEPT !.geo = o.next.geo] /\ o.op = "geo.apply"
      BY <2>4, <3>1, OpAt DEF Lives
    <3>3. live.config = b.config
      BY <3>2 DEF Live
    <3>4. o.next.config.rev = live.config.rev
      BY <2>4, <3>2, <3>3 DEF Aims
    <3> QED BY <1>0, <3>1, <3>4
  <2>7. CASE WriteRoute(a)
    <3>1. /\ o.at = "write" /\ o.op = "route.apply"
          /\ live'.config = IF b.config # None THEN o.next.config ELSE live.config
      BY <1>0, <1>3, <2>2, <2>4, <2>7 DEF WriteRoute, RouteOps, Live
    <3>2. live = b
      BY <2>4, <3>1 DEF Lives
    <3>3. o.next.config.rev = live.config.rev
      BY <2>4, <3>1, <3>2 DEF Aims
    <3> QED BY <1>0, <3>1, <3>3
  <2>8. CASE WriteWarp(a)
    <3>1. \/ UNCHANGED live
          \/ \E rules : live' = [live EXCEPT !.config = Build(live.config, rules, warp)]
      BY <2>8 DEF WriteWarp
    <3>2. ASSUME NEW rules, live' = [live EXCEPT !.config = Build(live.config, rules, warp)] PROVE FALSE
      <4>1. live'.config = Build(live.config, rules, warp)
        BY <1>0, <3>2 DEF Live
      <4>2. live'.config.rev = live.config.rev
        BY <4>1 DEF Build
      <4> QED BY <1>0, <4>2
    <3> QED BY <1>1, <3>1, <3>2
  <2>9. CASE Undo(a)
    <3>1. o.at \in {"undo", "undo site"} /\ o.op \notin {"geo.rollback", "route.rollback", "clients"}
      BY <1>3, <2>2, <2>4, <2>9, OpAt DEF Undo, UndoStep
    <3>2. o.op \in GeoOps \cup RouteOps \cup WarpOps
      BY <2>4, <3>1, OpAt DEF Ops
    <3>3. live'.config = b.config
      BY <1>0, <2>2, <2>4, <2>9, <3>2, OpKinds DEF Undo, Live
    <3>4. live'.config.rev = live.config.rev
      BY <2>4, <3>1, <3>3 DEF Lives
    <3> QED BY <1>0, <3>4
  <2>10. CASE InstallClients(a)
    <3>1. o.at = "install" /\ live'.config = o.next.config
      BY <1>0, <2>2, <2>10 DEF InstallClients, Live
    <3>2. o.op = "clients" /\ live = b
      BY <2>4, <3>1, OpAt DEF Lives
    <3>3. live'.config.rev = users /\ live.config.rev <= users
      BY <2>4, <3>1, <3>2 DEF Aims, Whole, Kept
    <3>4. users \in Nat
      BY RoutingAssumption DEF TypeOK
    <3> QED BY <1>0, <3>3, <3>4
  <2>11. CASE RestoreBackup(a)
    <3>1. o.at = "restore site"
      BY <2>2, <2>11 DEF RestoreBackup
    <3> QED BY <1>3, <2>2, <2>4, <3>1, OpAt
  <2>12. BackUp(a) \/ StopXray(a) \/ CopyIp(a) \/ CopySite(a) \/ StartXray(a) \/ WriteManifest(a) \/ GeoBreaks(a)
           \/ TestRouteBackup(a) \/ SaveWarp(a) \/ RestartXray(a) \/ WritePolicy(a) \/ Unlink(a) \/ Revive(a)
           \/ RestartClients(a) \/ Done(a) \/ RestoreIp(a) \/ FilesBreak(a) \/ UndoIp(a)
         => live'.config = live.config
    BY <1>0 DEF BackUp, StopXray, CopyIp, CopySite, StartXray, WriteManifest, GeoBreaks, TestRouteBackup,
                SaveWarp, RestartXray, WritePolicy, Unlink, Revive, RestartClients, Done, RestoreIp, FilesBreak, UndoIp,
                disk, Live
  <2>13. ~Relapse(a)
    BY <1>3 DEF Relapse
  <2> QED BY <1>1, <1>3, <2>6, <2>7, <2>8, <2>9, <2>10, <2>11, <2>12, <2>13 DEF Continue
<1>4. ASSUME NEW a \in Helpers, Kill(a) PROVE FALSE
  BY <1>1, <1>4 DEF Kill, disk
<1>5. ~((\E p \in Pairs : DropCandidate(p)) \/ PlaceCandidate \/ StageRoute \/ ChangeClients)
  BY <1>1 DEF DropCandidate, PlaceCandidate, StageRoute, ChangeClients, disk
<1> QED BY <1>2, <1>3, <1>4, <1>5 DEF Next

\* A GeoFiles, routing or WARP operation that reports an error, or is killed
\* where nothing of it is left, has changed nothing; a route.apply whose last
\* write fails has applied its rules and kept the form of an earlier one.
THEOREM FailuresChangeNothing == ASSUME Harmless PROVE Spec => FailedOperationChangesNothing
<1>1. Init => TypeOK /\ InTurn
  BY InitType, InitInTurn
<1>2. TypeOK /\ InTurn /\ [Next]_vars => (TypeOK /\ InTurn)'
  BY NextType, NextInTurn
<1> DEFINE Honest == \A a \in Helpers :
             (alone /\ Busy(a) /\ h[a].op # "clients" /\ h[a].at # "done" /\ h'[a].at = "idle")
               => State' = IF h[a].at = "policy" THEN AppliedUnsaved(h[a]) ELSE h[a].start
<1>3. TypeOK /\ InTurn /\ [Next]_vars => [Honest]_vars
  BY FailureChangesNothing
<1>4. [][Honest]_vars => FailedOperationChangesNothing
  BY PTL DEF FailedOperationChangesNothing
<1> HIDE DEF Honest
<1> QED BY <1>1, <1>2, <1>3, <1>4, PTL DEF Spec

\* WARP is not taken away from under managed rules that clients.apply can load,
\* and rules are not put over a WARP that cannot serve them.
THEOREM LoadableRulesStay == ASSUME Harmless PROVE Spec => RulesStayLoadable
<1>1. Init => TypeOK /\ InTurn
  BY InitType, InitInTurn
<1>2. TypeOK /\ InTurn /\ [Next]_vars => (TypeOK /\ InTurn)'
  BY NextType, NextInTurn
<1> DEFINE Safe == (alone /\ Loadable(live.managed, warp) /\ ~Loadable(live.managed, warp)')
                     => \/ warp'.bad
                        \/ \E a \in Helpers : h[a].at \in {"restore site", "undo", "undo site"}
<1>3. TypeOK /\ InTurn /\ [Next]_vars => [Safe]_vars
  BY LoadableStays
<1>4. [][Safe]_vars => RulesStayLoadable
  BY PTL DEF RulesStayLoadable
<1> HIDE DEF Safe
<1> QED BY <1>1, <1>2, <1>3, <1>4, PTL DEF Spec

\* Building rules or WARP into config.json never loses a client: a smaller
\* revision of the clients comes only with an older config.
THEOREM ServedClientsStay == ASSUME Harmless PROVE Spec => ClientsKept
<1>1. Init => TypeOK /\ InTurn
  BY InitType, InitInTurn
<1>2. TypeOK /\ InTurn /\ [Next]_vars => (TypeOK /\ InTurn)'
  BY NextType, NextInTurn
<1> DEFINE Keeps == (alone /\ live.config # None /\ live'.config # None /\ live'.config.rev < live.config.rev)
                      => \E a \in Helpers : h[a].op \in {"geo.rollback", "route.rollback"} \/ h[a].at = "relapse"
<1>3. TypeOK /\ InTurn /\ [Next]_vars => [Keeps]_vars
  BY ClientsStay
<1>4. [][Keeps]_vars => ClientsKept
  BY PTL DEF ClientsKept
<1> HIDE DEF Keeps
<1> QED BY <1>1, <1>2, <1>3, <1>4, PTL DEF Spec

=============================================================================
