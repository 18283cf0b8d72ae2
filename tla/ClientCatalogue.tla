--------------------------- MODULE ClientCatalogue ---------------------------
(***************************************************************************)
(* Clients, their devices and what the engines serve.  A panel request     *)
(* (routes of app/main.py) snapshots a client, changes the catalogue, has  *)
(* sg-hostd apply it (clients.apply), and on an error restores the         *)
(* snapshot and applies again.  A worker is a hostd thread that runs       *)
(* clients.apply as the patches of sg_hostd/__init__.py assemble it: five  *)
(* engines one after the other under clients-apply.lock, then AmneziaWG    *)
(* 3.1 once more and NaiveProxy without it.                                *)
(*                                                                         *)
(* An engine's config is the set of devices it serves.  AnyTLS and TUIC,   *)
(* which one sing-box process serves, are the engine "singbox".  Keys,     *)
(* names and expiry dates are left out, and so are the Xray settings       *)
(* transactions, which module XrayApply models, and the settings page of   *)
(* NaiveProxy.                                                             *)
(***************************************************************************)
EXTENDS Naturals, Sequences, FiniteSets

CONSTANTS Clients, Devices,
          Owner,       \* [Devices -> Clients]
          Primary,     \* the primary device of each client: [Clients -> Devices]
          Menus,       \* the lists of protocols an operator may tick
          Requests,    \* panel threads
          Workers,     \* hostd threads
          None,        \* no config file, or no service running
          MaxOps,      \* bound: operations ever begun
          MaxFaults    \* bound: things that ever go wrong by themselves

Engines == {"awg31", "xray", "mihomo", "singbox", "sgclient", "naive"}
Critical == {"awg31", "xray", "naive"}
\* Engines that sgclient hands out links of.
Sources == {"xray", "mihomo", "singbox"}
Services == Engines \ {"sgclient"}
Locked == <<"awg31", "xray", "mihomo", "singbox", "sgclient">>
Statuses == {"creating", "pending", "checking", "applying", "applied", "error"}
Ops == {"create", "add", "edit", "enable", "disable", "enableDevice", "disableDevice",
        "delete", "deleteDevice", "apply"}

ASSUME CatalogueAssumption ==
  /\ Owner \in [Devices -> Clients] /\ Primary \in [Clients -> Devices]
  /\ \A c \in Clients : Owner[Primary[c]] = c
  /\ Menus \subseteq (SUBSET (Engines \ {"sgclient"})) \ {{}}
  /\ \A ds \in SUBSET Devices : None # ds
  /\ "free" \notin Workers
  /\ MaxOps \in Nat /\ MaxFaults \in Nat

VARIABLES client,   \* clients: "none", "on" or "off"
          device,   \* devices: the same
          status,   \* device_credentials: status by engine; absent engines are not in the domain
          domain,   \* whether NaiveProxy's connection settings name a host
          live,     \* config file of each service
          backup,   \* its .previous file, where the code reads it back
          running,  \* the devices the service serves, or None when it is down
          lock,     \* worker holding clients-apply.lock, or "free"
          wk,       \* program counter and locals of each worker
          rq,       \* the same for each panel request
          spent     \* operations begun and faults met so far

database == <<client, device, status, domain>>
catalogue == <<client, device, status>>
runtime == <<live, backup, running>>
vars == <<client, device, status, domain, live, backup, running, lock, wk, rq, spent>>

NoWorker == [at |-> "idle"]
NoRequest == [at |-> "idle"]

DevicesOf(c) == {d \in Devices : Owner[d] = c}
Has(d, e) == e \in DOMAIN status[d]

\* _deployment_rows: the active credentials of an engine.
Rows(e) == {d \in Devices : device[d] = "on" /\ client[Owner[d]] = "on" /\ Has(d, e)}

Serves(e) == IF running[e] = None THEN {} ELSE running[e]

Init ==
  /\ client = [c \in Clients |-> "none"] /\ device = [d \in Devices |-> "none"]
  /\ status = [d \in Devices |-> <<>>]
  /\ domain = FALSE
  /\ live = [e \in Services |-> None] /\ running = live
  /\ backup = [e \in Sources |-> None]
  /\ lock = "free"
  /\ wk = [w \in Workers |-> NoWorker] /\ rq = [r \in Requests |-> NoRequest]
  /\ spent = [ops |-> 0, faults |-> 0]

-----------------------------------------------------------------------------
\* The catalogue (app/clients/repository.py), one transaction each.

\* _set_engine_status and its like: the listed devices that still have the
\* credential.
Marked(ds, e, s) ==
  [d \in Devices |-> IF d \in ds /\ Has(d, e) THEN [status[d] EXCEPT ![e] = s] ELSE status[d]]

\* _prepare_client_protocols: subscriptions come with the first protocol that
\* has links.
Access(ticked) == IF ticked \cap Sources = {} THEN ticked ELSE ticked \cup {"sgclient"}

\* _validate_access.
Acceptable(access) == access # {} /\ ("sgclient" \in access => access \cap Sources # {})

NewCredentials(access) == [e \in access |-> "creating"]

\* snapshot_client.
Snapshot(c) ==
  [client |-> client[c],
   device |-> [d \in DevicesOf(c) |-> device[d]],
   status |-> [d \in DevicesOf(c) |-> status[d]]]

\* Mutant: devices made since the snapshot stay.
RestoreKeepingNew(c, snap) ==
  /\ client' = [client EXCEPT ![c] = snap.client]
  /\ device' = [d \in Devices |->
       IF Owner[d] = c /\ snap.device[d] # "none" THEN snap.device[d] ELSE device[d]]
  /\ status' = [d \in Devices |->
       IF Owner[d] = c /\ snap.device[d] # "none" THEN snap.status[d] ELSE status[d]]

\* restore_client_snapshot: devices the snapshot does not know are deleted.
Restore(c, snap) ==
  /\ client' = [client EXCEPT ![c] = snap.client]
  /\ device' = [d \in Devices |-> IF Owner[d] = c THEN snap.device[d] ELSE device[d]]
  /\ status' = [d \in Devices |-> IF Owner[d] = c THEN snap.status[d] ELSE status[d]]

DropDevices(ds) ==
  /\ device' = [d \in Devices |-> IF d \in ds THEN "none" ELSE device[d]]
  /\ status' = [d \in Devices |-> IF d \in ds THEN <<>> ELSE status[d]]

\* create_client, create_device: credentials start as "creating".
CreateDevice(d, access) ==
  /\ device' = [device EXCEPT ![d] = "on"]
  /\ status' = [status EXCEPT ![d] = NewCredentials(access)]

\* _sync_device_access: kept credentials keep their status.  The payload of a
\* new AmneziaWG 3.1 credential is made by get_settings on a connection of its
\* own, whose INSERT waits for the transaction that is making it: the database
\* stays locked until the wait runs out, and the transaction is rolled back.
WaitsForItself(op, d, access) == op = "edit" /\ "awg31" \in access /\ ~Has(d, "awg31")

SyncAccess(d, access) ==
  status' = [status EXCEPT ![d] =
    [e \in access |-> IF Has(d, e) THEN status[d][e] ELSE "creating"]]

DeleteClient(c) ==
  /\ client' = [client EXCEPT ![c] = "none"]
  /\ DropDevices(DevicesOf(c))

\* The write of each operation, given that its row is there.
Write(op, d, access) ==
  LET c == Owner[d] IN
  CASE op = "apply" -> UNCHANGED catalogue
    [] op = "create" -> client' = [client EXCEPT ![c] = "on"] /\ CreateDevice(d, access)
    [] op = "add" -> CreateDevice(d, access) /\ UNCHANGED client
    [] op = "edit" -> SyncAccess(d, access) /\ UNCHANGED <<client, device>>
    [] op = "enable" -> client' = [client EXCEPT ![c] = "on"] /\ UNCHANGED <<device, status>>
    [] op = "disable" -> client' = [client EXCEPT ![c] = "off"] /\ UNCHANGED <<device, status>>
    [] op = "enableDevice" -> device' = [device EXCEPT ![d] = "on"] /\ UNCHANGED <<client, status>>
    [] op = "disableDevice" -> device' = [device EXCEPT ![d] = "off"] /\ UNCHANGED <<client, status>>
    [] op = "delete" -> DeleteClient(c)
    [] op = "deleteDevice" -> DropDevices({d}) /\ UNCHANGED client

ClientOps == {"create", "enable", "disable", "delete"}
FormOps == {"create", "add", "edit"}

\* The rows an operation needs when it writes; 404 or "not created" without.
Possible(op, d) ==
  LET c == Owner[d] IN
  CASE op = "apply" -> TRUE
    [] op = "create" -> client[c] = "none"
    [] op = "add" -> client[c] # "none" /\ device[d] = "none" /\ d # Primary[c]
    [] op = "deleteDevice" -> device[d] # "none" /\ d # Primary[c]
    [] OTHER -> device[d] # "none"

-----------------------------------------------------------------------------
\* What the panel hands out (app/clients/exports.py, sg_subscription.py and
\* access.py), connections taken to be switched on and HTTPS to be ready.

\* is_export_ready.
Applied(d) == {e \in DOMAIN status[d] : d \in Rows(e) /\ status[d][e] = "applied"}

\* NaiveProxy has links once its settings name a host.
HasHost(e) == e = "naive" => domain

\* protocol_ready.
Offered(d) == {e \in Applied(d) : HasHost(e)}

\* build_subscription, with the link NaiveProxy adds.
PlainLinks(d) == Offered(d) \cap {"xray", "singbox", "naive"}

\* /sub/<token>, the feed of a device: 404 while its subscription is not ready.
Feed(d) == IF "sgclient" \in Offered(d) THEN PlainLinks(d) ELSE {}

\* build_sg_subscription_document: the profiles marked ready.
Document(c) ==
  {link \in DevicesOf(c) \X (Engines \ {"sgclient"}) : link[2] \in Offered(link[1])}

\* /sg/sub/v1/<token>, the feed of a client: 404 while it is disabled or none of
\* its devices has subscriptions.
ClientFeed(c) ==
  IF client[c] = "on" /\ \E d \in DevicesOf(c) : Has(d, "sgclient") THEN Document(c) ELSE {}

\* build_access_cards: the status a card shows; an access that is not ready is
\* "locked", but Xray's and the subscription's show the credential's own status.
Card(d, e) ==
  IF client[Owner[d]] # "on" \/ device[d] # "on" THEN "disabled"
  ELSE IF d \notin Rows(e) THEN "missing"
  ELSE IF e \in Offered(d) \cup {"xray", "sgclient"} THEN status[d][e]
  ELSE "locked"

-----------------------------------------------------------------------------
\* Something goes wrong by itself: a command fails, a wait runs out, a process
\* dies.
Fault ==
  /\ spent.faults < MaxFaults                         \* MaxFaults
  /\ spent' = [spent EXCEPT !.faults = @ + 1]

\* Panel requests.

Busy(r) == rq[r].at \notin {"idle", "answered"}

\* A request begins: whoever is under way, or was answered, on anything
\* (alone) or on the same client (sole) is no longer undisturbed.
Disturbed(r, c) ==
  [q \in Requests |->
     IF rq[q] = NoRequest THEN NoRequest
     ELSE [rq[q] EXCEPT !.alone = FALSE, !.sole = @ /\ rq[q].client # c]]

\* What is remembered of a request once the panel has answered.
Done(me, answer) ==
  [at |-> "answered", op |-> me.op, client |-> me.client, answer |-> answer,
   snap |-> IF answer = "ok" THEN <<>> ELSE me.snap, alone |-> me.alone, sole |-> me.sole]

\* "Apply everything" is nobody's change.
Subject(op, d) == IF op = "apply" THEN None ELSE Owner[d]

BeginRequest(r, op, d, menu) ==
  /\ ~Busy(r) /\ spent.ops < MaxOps                  \* MaxOps
  /\ Possible(op, d)
  /\ op \in ClientOps => d = Primary[Owner[d]]
  /\ op = "apply" => d = CHOOSE x \in Devices : TRUE
  /\ op \in FormOps => Acceptable(Access(menu))
  /\ rq' = [Disturbed(r, Subject(op, d)) EXCEPT ![r] =
       [at |-> "change", op |-> op, device |-> IF op = "apply" THEN None ELSE d, client |-> Subject(op, d),
        access |-> IF op \in FormOps THEN Access(menu) ELSE {},
        snap |-> IF op = "apply" THEN <<>> ELSE Snapshot(Owner[d]), passes |-> IF op = "create" THEN 2 ELSE 1,
        boot |-> FALSE, answer |-> "ok",
        alone |-> (\A q \in Requests \ {r} : ~Busy(q)) /\ (\A w \in Workers : wk[w] = NoWorker),
        sole |-> \A q \in Requests \ {r} : Busy(q) => rq[q].client # Subject(op, d)]]
  /\ spent' = [spent EXCEPT !.ops = @ + 1]
  /\ UNCHANGED <<database, runtime, lock, wk>>

\* The write.  A row that has gone meanwhile ends the request unanswered, a
\* transaction that waits for itself with an error page.
Change(r) ==
  LET me == rq[r] IN
  /\ me.at = "change"
  /\ IF ~Possible(me.op, me.device)
     THEN UNCHANGED catalogue /\ rq' = [rq EXCEPT ![r] = NoRequest]
     ELSE IF WaitsForItself(me.op, me.device, me.access)
     THEN UNCHANGED catalogue /\ rq' = [rq EXCEPT ![r] = Done(me, "failed")]
     ELSE Write(me.op, me.device, me.access) /\ rq' = [rq EXCEPT ![r].at = "prepare"]
  /\ UNCHANGED <<domain, runtime, lock, wk, spent>>

\* apply_clients_runtime of app/naiveproxy begins: the first NaiveProxy
\* credential gives the engine the panel's own domain, if HTTPS is ready.
Assigned(e) == {d \in Devices : Has(d, e)}

Prepare(r) ==
  LET needed == ~domain /\ Assigned("naive") # {} IN
  /\ rq[r].at = "prepare"
  /\ \/ /\ domain' = (domain \/ needed)
        /\ rq' = [rq EXCEPT ![r].at = "call", ![r].boot = needed]
        /\ UNCHANGED spent
     \/ /\ needed /\ Fault
        /\ rq' = [rq EXCEPT ![r].at = "failed"]
        /\ UNCHANGED domain
  /\ UNCHANGED <<catalogue, runtime, lock, wk>>

\* run_hostd_command("clients.apply") reaches a hostd thread.
Call(r, w) ==
  /\ rq[r].at = "call" /\ wk[w] = NoWorker
  /\ rq' = [rq EXCEPT ![r].at = "wait"]
  /\ wk' = [wk EXCEPT ![w] = [at |-> "lock", for |-> {r}]]
  /\ UNCHANGED <<database, runtime, lock, spent>>

\* What becomes of a request when its apply has succeeded or failed; creation
\* asks for two in a row.
Answered(me, good) ==
  IF ~good THEN [me EXCEPT !.at = "failed"]
  ELSE IF me.passes > 1 THEN [me EXCEPT !.at = "call", !.passes = @ - 1]
  ELSE Done(me, me.answer)

Tell(w, good) ==
  rq' = [r \in Requests |-> IF r \in wk[w].for THEN Answered(rq[r], good) ELSE rq[r]]

\* The HTTP call times out; the worker goes on.
TimeOut(r) ==
  /\ rq[r].at = "wait" /\ Fault
  /\ rq' = [rq EXCEPT ![r] = [Answered(@, FALSE) EXCEPT !.alone = FALSE]]
  /\ wk' = [w \in Workers |->
       IF wk[w] # NoWorker THEN [wk[w] EXCEPT !.for = @ \ {r}] ELSE NoWorker]
  /\ UNCHANGED <<database, runtime, lock>>

\* Mutant: the error is reported, the change stays.
FailWithoutUndo(r) ==
  /\ rq[r].at = "failed"
  /\ domain' = (domain /\ ~rq[r].boot)
  /\ rq' = [rq EXCEPT ![r] = Done(rq[r], "failed")]
  /\ UNCHANGED <<catalogue, runtime, lock, wk, spent>>

\* The exception: a domain given by this call is taken away again; a first
\* failure undoes the change, the one after it only words the answer.
Fail(r) ==
  LET me == rq[r]
      undo == me.answer = "ok" /\ me.op # "apply"
  IN /\ me.at = "failed"
     /\ domain' = (domain /\ ~me.boot)
     /\ rq' = [rq EXCEPT ![r] =
          IF undo THEN [me EXCEPT !.at = "undo", !.boot = FALSE]
          ELSE Done(me, "failed")]
     /\ UNCHANGED <<catalogue, runtime, lock, wk, spent>>

\* _rollback_client_change, or delete_client after a failed creation.
Undo(r) ==
  LET me == rq[r] IN
  /\ me.at = "undo"
  /\ IF me.op = "create" THEN DeleteClient(me.client) ELSE Restore(me.client, me.snap)
  /\ rq' = [rq EXCEPT ![r].at = "prepare", ![r].answer = "undone", ![r].passes = 1]
  /\ UNCHANGED <<domain, runtime, lock, wk, spent>>

-----------------------------------------------------------------------------
\* Workers: apply_all_clients.

\* A non-blocking flock; the runtime contract and the repair of credential
\* payloads follow, and may raise.
TakeLock(w) ==
  /\ wk[w].at = "lock" /\ lock = "free"
  /\ lock' = w
  /\ wk' = [wk EXCEPT ![w] = [at |-> "begin", for |-> @.for, i |-> 1, ok |-> TRUE]]
  /\ UNCHANGED <<database, runtime, rq, spent>>

\* Mutant: an apply under way is taken to cover this one.
NoLockNeeded(w) ==
  /\ wk[w].at = "lock"
  /\ \/ lock # "free" /\ Tell(w, TRUE) /\ UNCHANGED spent
     \/ Fault /\ Tell(w, FALSE)
  /\ wk' = [wk EXCEPT ![w] = NoWorker]
  /\ UNCHANGED <<database, runtime, lock>>

NoLock(w) ==
  /\ wk[w].at = "lock"
  /\ \/ lock # "free" /\ UNCHANGED spent
     \/ Fault
  /\ Tell(w, FALSE)
  /\ wk' = [wk EXCEPT ![w] = NoWorker]
  /\ UNCHANGED <<database, runtime, lock>>

Engine(w) == Locked[wk[w].i]

\* Mutant: an engine that fails ends the sequence and leaves the lock behind.
ResultLeavingLock(w, good) ==
  LET me == wk[w]
      ok == me.ok /\ (good \/ Engine(w) \notin Critical)
  IN /\ wk' = [wk EXCEPT ![w] =
          IF ok /\ me.i < Len(Locked)
          THEN [at |-> "begin", for |-> me.for, i |-> me.i + 1, ok |-> ok]
          ELSE [at |-> "again", for |-> me.for, ok |-> ok]]
     /\ lock' = IF ok /\ me.i = Len(Locked) THEN "free" ELSE lock

\* The engine's result; after the last one the lock is released.
Result(w, good) ==
  LET me == wk[w]
      ok == me.ok /\ (good \/ Engine(w) \notin Critical)
  IN IF me.i < Len(Locked)
     THEN /\ wk' = [wk EXCEPT ![w] = [at |-> "begin", for |-> me.for, i |-> me.i + 1, ok |-> ok]]
          /\ UNCHANGED lock
     ELSE /\ wk' = [wk EXCEPT ![w] = [at |-> "again", for |-> me.for, ok |-> ok]]
          /\ lock' = "free"

\* Nobody to serve: Xray and sing-box are stopped and must be down, AmneziaWG
\* 3.1 is stopped whatever comes of it.
StopIdle(w) ==
  LET e == Engine(w) IN
  /\ wk[w].at = "begin" /\ e \in {"awg31", "xray", "singbox"} /\ Rows(e) = {}
  /\ \/ running' = [running EXCEPT ![e] = None] /\ Result(w, TRUE) /\ UNCHANGED spent
     \/ Fault /\ UNCHANGED running /\ Result(w, e = "awg31")
  /\ UNCHANGED <<database, live, backup, rq>>

\* Mihomo stays up on a config without listeners, which replaces the old one
\* without a backup.
IdleMihomo(w) ==
  /\ wk[w].at = "begin" /\ Engine(w) = "mihomo" /\ Rows("mihomo") = {}
  /\ live' = [live EXCEPT !["mihomo"] = {}]
  /\ \/ running' = [running EXCEPT !["mihomo"] = {}] /\ Result(w, TRUE) /\ UNCHANGED spent
     \/ /\ Fault
        /\ running' \in {running, [running EXCEPT !["mihomo"] = None]}
        /\ Result(w, FALSE)
  /\ UNCHANGED <<database, backup, rq>>

\* _apply_sgclient: ready when one of the engines it links to is applied.
Subscriptions(w) ==
  LET ready(d) == \E s \in Sources : Has(d, s) /\ status[d][s] = "applied" IN
  /\ wk[w].at = "begin" /\ Engine(w) = "sgclient"
  /\ status' = [d \in Devices |->
       IF d \in Rows("sgclient")
       THEN [status[d] EXCEPT !["sgclient"] = IF ready(d) THEN "applied" ELSE "error"]
       ELSE status[d]]
  /\ Result(w, \A d \in Rows("sgclient") : ready(d))
  /\ UNCHANGED <<client, device, domain, runtime, rq, spent>>

\* What is rendered.  A Mihomo candidate without clients is applied by taking
\* the service down.
Body(e) == IF e = "mihomo" /\ Rows(e) = {} THEN None ELSE Rows(e)

\* The head of an engine's apply: its rows, their statuses, and "checking".
\* Xray and sing-box render these rows, Mihomo and AmneziaWG 3.1 read them again.
BeginEngine(w) ==
  LET e == Engine(w)
      again == e \in {"awg31", "mihomo"}
  IN /\ wk[w].at = "begin" /\ e # "sgclient" /\ Rows(e) # {}
     /\ wk' = [wk EXCEPT ![w] = [at |-> IF again THEN "read" ELSE "install",
                                 for |-> @.for, i |-> @.i, ok |-> @.ok,
                                 rows |-> Rows(e), body |-> IF again THEN {} ELSE Body(e),
                                 applied |-> {d \in Rows(e) : status[d][e] = "applied"}]]
     /\ status' = Marked(Rows(e), e, "checking")
     /\ UNCHANGED <<client, device, domain, runtime, lock, rq, spent>>

\* set_server_public_key and set_protocol_state, by which render of AmneziaWG
\* 3.1 begins: _update_storage makes every credential of the engine "pending".
Rewritten(e) == IF e = "awg31" THEN Marked(Devices, e, "pending") ELSE status

ReadRows(w) ==
  LET e == Engine(w) IN
     /\ wk[w].at = "read"
     /\ wk' = [wk EXCEPT ![w].at = "install", ![w].body = Body(e)]
     /\ status' = Rewritten(e)
     /\ UNCHANGED <<client, device, domain, runtime, lock, rq, spent>>

\* Candidate, test, backup, installation; of AmneziaWG 3.1 the file alone.
Install(w) ==
  LET e == Engine(w) IN
  /\ wk[w].at = "install"
  /\ live' = [live EXCEPT ![e] = wk[w].body]
  /\ backup' = [x \in Sources |-> IF x = e THEN live[e] ELSE backup[x]]
  /\ status' = IF e = "awg31" THEN status ELSE Marked(wk[w].rows, e, "applying")
  /\ wk' = [wk EXCEPT ![w].at = "restart"]
  /\ UNCHANGED <<client, device, domain, running, lock, rq, spent>>

\* Something before the installation fails: Xray and sing-box take the copy of
\* the last installation back, Mihomo one of its present files, if it got as
\* far as making it.
NotInstalled(w) ==
  LET e == Engine(w)
      restores == e \in {"xray", "singbox"} \/ (e = "mihomo" /\ wk[w].at = "install")
  IN /\ wk[w].at \in {"read", "install"} /\ Fault
     /\ wk' = [wk EXCEPT ![w].at = IF restores THEN "failed" ELSE "settle"]
     /\ backup' = IF restores /\ e = "mihomo" THEN [backup EXCEPT ![e] = live[e]] ELSE backup
     /\ UNCHANGED <<database, live, running, lock, rq>>

\* apply_awg31 marks every credential of its engine, not only the active ones.
MarkedUp(e, ds) == Marked(IF e \in {"awg31", "naive"} THEN Devices ELSE ds, e, "applied")

\* Mutant: a service that runs is not restarted ("enable --now").
RestartEngineLazily(w) ==
  LET e == Engine(w) IN
  /\ wk[w].at = "restart"
  /\ running' = IF running[e] = None THEN [running EXCEPT ![e] = live[e]] ELSE running
  /\ status' = MarkedUp(e, wk[w].rows)
  /\ Result(w, TRUE)
  /\ UNCHANGED <<client, device, domain, live, backup, rq, spent>>

RestartEngine(w) ==
  LET e == Engine(w) IN
  /\ wk[w].at = "restart"
  /\ running' = [running EXCEPT ![e] = live[e]]
  /\ status' = MarkedUp(e, wk[w].rows)
  /\ Result(w, TRUE)
  /\ UNCHANGED <<client, device, domain, live, backup, rq, spent>>

\* systemd refuses, or the service does not come up, or not in time.
RestartFails(w) ==
  LET e == Engine(w) IN
  /\ wk[w].at = "restart" /\ Fault
  /\ running' \in {[running EXCEPT ![e] = x] : x \in {running[e], None, live[e]}}
  /\ wk' = [wk EXCEPT ![w].at = IF e = "awg31" THEN "settle" ELSE "failed"]
  /\ UNCHANGED <<database, live, backup, lock, rq>>

\* The config of before comes back and the service is restarted; without one
\* Xray and Mihomo are taken down.
RestoreConfig(w) ==
  LET e == Engine(w) IN
  /\ wk[w].at = "failed"
  /\ \/ /\ backup[e] # None
        /\ live' = [live EXCEPT ![e] = backup[e]]
        /\ \/ running' = [running EXCEPT ![e] = backup[e]] /\ UNCHANGED spent
           \/ running' = [running EXCEPT ![e] = None] /\ Fault
     \/ /\ backup[e] = None /\ e # "singbox"
        /\ live' = [live EXCEPT ![e] = None]
        /\ running' = [running EXCEPT ![e] = None]
        /\ UNCHANGED spent
     \/ backup[e] = None /\ e = "singbox" /\ UNCHANGED <<live, running, spent>>
  /\ wk' = [wk EXCEPT ![w].at = "settle"]
  /\ UNCHANGED <<database, backup, lock, rq>>

\* Mutant: a failed engine leaves its statuses as they are.
SettleNothing(w) ==
  /\ wk[w].at = "settle"
  /\ Result(w, FALSE)
  /\ UNCHANGED <<database, runtime, rq, spent>>

\* _set_failure_status: "applied" stays where the runtime is found in order.
Settle(w) ==
  LET e == Engine(w)
      kept == IF running[e] # None THEN wk[w].applied ELSE {}
  IN /\ wk[w].at = "settle"
     /\ status' = [d \in Devices |->
          IF d \in wk[w].rows /\ Has(d, e)
          THEN [status[d] EXCEPT ![e] = IF d \in kept THEN "applied" ELSE "error"]
          ELSE status[d]]
     /\ Result(w, FALSE)
     /\ UNCHANGED <<client, device, domain, runtime, rq, spent>>

\* awg31_integration: apply_awg31 once more, whatever the engines said; an
\* exception ends the command.
ReadAgain(w) ==
  /\ wk[w].at = "again"
  /\ wk' = [wk EXCEPT ![w] = [at |-> "installAgain", for |-> @.for, ok |-> @.ok,
                              body |-> Body("awg31")]]
  /\ status' = Rewritten("awg31")
  /\ UNCHANGED <<client, device, domain, runtime, lock, rq, spent>>

InstallAgain(w) ==
  /\ wk[w].at = "installAgain"
  /\ live' = [live EXCEPT !["awg31"] = wk[w].body]
  /\ wk' = [wk EXCEPT ![w] = [at |-> "restartAgain", for |-> @.for, ok |-> @.ok]]
  /\ UNCHANGED <<database, backup, running, lock, rq, spent>>

RestartAgain(w) ==
  /\ wk[w].at = "restartAgain"
  /\ running' = [running EXCEPT !["awg31"] = live["awg31"]]
  /\ status' = MarkedUp("awg31", {})
  /\ IF wk[w].ok
     THEN wk' = [wk EXCEPT ![w].at = "naive"] /\ UNCHANGED rq
     ELSE wk' = [wk EXCEPT ![w] = NoWorker] /\ Tell(w, FALSE)
  /\ UNCHANGED <<client, device, domain, live, backup, lock, spent>>

\* Rendering or restarting AmneziaWG 3.1 raises.
FailAgain(w) ==
  /\ Fault
  /\ \/ wk[w].at = "again" /\ UNCHANGED running
     \/ /\ wk[w].at = "restartAgain"
        /\ running' \in {[running EXCEPT !["awg31"] = x] : x \in {running["awg31"], None, live["awg31"]}}
  /\ wk' = [wk EXCEPT ![w] = NoWorker] /\ Tell(w, FALSE)
  /\ UNCHANGED <<database, live, backup, lock>>

\* naiveproxy_client_runtime_patch: NaiveProxy is synchronised if the rest
\* went well and there is a domain or a credential; its sync undoes itself.
SkipNaive(w) ==
  /\ wk[w].at = "naive" /\ ~domain /\ Assigned("naive") = {}
  /\ wk' = [wk EXCEPT ![w] = NoWorker] /\ Tell(w, TRUE)
  /\ UNCHANGED <<database, runtime, lock, spent>>

LoadNaive(w) ==
  /\ wk[w].at = "naive" /\ domain
  /\ wk' = [wk EXCEPT ![w] = [at |-> "naiveInstall", for |-> @.for, rows |-> Rows("naive"),
                              ids |-> Assigned("naive")]]
  /\ UNCHANGED <<database, runtime, lock, rq, spent>>

\* No domain, or a candidate that Caddy refuses.
NaiveRefused(w) ==
  /\ wk[w].at = "naive"
  /\ \/ ~domain /\ Assigned("naive") # {} /\ UNCHANGED spent
     \/ domain /\ Fault
  /\ wk' = [wk EXCEPT ![w] = NoWorker] /\ Tell(w, FALSE)
  /\ UNCHANGED <<database, runtime, lock>>

SyncNaive(w) ==
  /\ wk[w].at = "naiveInstall"
  /\ live' = [live EXCEPT !["naive"] = wk[w].rows]
  /\ running' = [running EXCEPT !["naive"] = wk[w].rows]
  /\ status' = Marked(wk[w].ids, "naive", "applied")
  /\ wk' = [wk EXCEPT ![w] = NoWorker] /\ Tell(w, TRUE)
  /\ UNCHANGED <<client, device, domain, backup, lock, spent>>

\* Caddy does not come up or does not listen in time: the files come back, and
\* the service is restarted only if it ran before.
NaiveUndone(w) ==
  LET after == IF running["naive"] = None THEN wk[w].rows ELSE live["naive"] IN
  /\ wk[w].at = "naiveInstall" /\ Fault
  /\ running' \in {[running EXCEPT !["naive"] = x] : x \in {None, after}}
  /\ wk' = [wk EXCEPT ![w] = NoWorker] /\ Tell(w, FALSE)
  /\ UNCHANGED <<database, live, backup, lock>>

\* hostd dies and is restarted by systemd: its threads and the lock are gone,
\* the panel's calls fail.
HostdDies ==
  /\ Fault /\ \E w \in Workers : wk[w] # NoWorker
  /\ wk' = [w \in Workers |-> NoWorker] /\ lock' = "free"
  /\ rq' = [r \in Requests |-> IF rq[r].at = "wait" THEN Answered(rq[r], FALSE) ELSE rq[r]]
  /\ UNCHANGED <<database, runtime>>

WorkerStep(w) ==
  \/ TakeLock(w) \/ NoLock(w) \/ StopIdle(w) \/ IdleMihomo(w) \/ Subscriptions(w)
  \/ BeginEngine(w) \/ ReadRows(w) \/ Install(w) \/ NotInstalled(w)
  \/ RestartEngine(w) \/ RestartFails(w)
  \/ RestoreConfig(w) \/ Settle(w)
  \/ ReadAgain(w) \/ InstallAgain(w) \/ RestartAgain(w) \/ FailAgain(w)
  \/ SkipNaive(w) \/ LoadNaive(w) \/ NaiveRefused(w) \/ SyncNaive(w) \/ NaiveUndone(w)

RequestStep(r) ==
  Change(r) \/ Prepare(r) \/ Fail(r) \/ Undo(r) \/ \E w \in Workers : Call(r, w)

Next ==
  \/ \E r \in Requests :
       \/ \E op \in Ops, d \in Devices, menu \in Menus : BeginRequest(r, op, d, menu)
       \/ RequestStep(r) \/ TimeOut(r)
  \/ \E w \in Workers : WorkerStep(w)
  \/ HostdDies

Spec == Init /\ [][Next]_vars

-----------------------------------------------------------------------------
Holds(w) == wk[w].at \in {"begin", "read", "install", "restart", "failed", "settle"}

\* The catalogue is well-formed (a device has an owner, credentials have a
\* device, a client has its primary device), the lock matches the workers,
\* and a waiting request has exactly one worker.
TypeOK ==
  /\ client \in [Clients -> {"none", "on", "off"}]
  /\ device \in [Devices -> {"none", "on", "off"}]
  /\ \A d \in Devices :
       /\ device[d] # "none" => client[Owner[d]] # "none" /\ DOMAIN status[d] # {}
       /\ device[d] = "none" => status[d] = <<>>
       /\ DOMAIN status[d] \subseteq Engines
       /\ \A e \in DOMAIN status[d] : status[d][e] \in Statuses
  /\ \A c \in Clients : client[c] # "none" => device[Primary[c]] # "none"
  /\ domain \in BOOLEAN
  /\ \A f \in {live, running} : f \in [Services -> {None} \cup SUBSET Devices]
  /\ backup \in [Sources -> {None} \cup SUBSET Devices]
  /\ lock \in Workers \cup {"free"}
  /\ \A w \in Workers : lock = w <=> Holds(w)
  /\ \A r \in Requests :
       Cardinality({w \in Workers : wk[w] # NoWorker /\ r \in wk[w].for})
         = IF rq[r].at = "wait" THEN 1 ELSE 0

\* An engine serves the enabled devices, and their cards say so.
Truthful(e) ==
  /\ Serves(e) = Rows(e)
  /\ {d \in Devices : Card(d, e) = "applied"} = Rows(e)

\* No feed hands out a link of a critical engine that is not served, and a device
\* with Xray and subscriptions finds Xray in its own feed.
FeedsAreTrue ==
  /\ \A c \in Clients : \A link \in ClientFeed(c) :
       link[2] \in Critical => link[1] \in Serves(link[2])
  /\ \A d \in Rows("xray") \cap Rows("sgclient") : "xray" \in Feed(d)

\* A request that nothing disturbed and that answers "applied", or "undone, the
\* former access is back", says so of the runtime: AmneziaWG 3.1 and Xray, and
\* NaiveProxy once it has a domain, serve exactly the enabled devices, whose
\* cards show it and whose subscription feeds hold working links.
AnswerIsTrue ==
  \A r \in Requests :
    rq[r].at = "answered" /\ rq[r].alone /\ rq[r].answer \in {"ok", "undone"}
      => /\ \A e \in Critical : HasHost(e) => Truthful(e)
         /\ FeedsAreTrue

\* The client of request r is back where its snapshot was, statuses aside.
BackTo(r) ==
  LET c == rq[r].client
      snap == rq[r].snap
  IN /\ client[c] = snap.client
     /\ \A d \in DevicesOf(c) :
          device[d] = snap.device[d] /\ DOMAIN status[d] = DOMAIN snap.status[d]

\* A change that is not answered "applied" is undone in the catalogue, as long
\* as no other request changes the same client, whatever happens to others.
FailedChangeIsUndone ==
  \A r \in Requests :
    rq[r].at = "answered" /\ rq[r].op # "apply" /\ rq[r].sole /\ rq[r].answer # "ok"
      => BackTo(r)

\* app/main.py:1235: after a failed creation the former runtime is back, for
\* NaiveProxy too.  It is not: see the README, ClientCatalogue_undone.cfg.
UndoneIsRestored ==
  \A r \in Requests :
    rq[r].at = "answered" /\ rq[r].alone /\ rq[r].answer = "undone" => Serves("naive") \subseteq Rows("naive")

\* After such an answer no credential of an enabled device is left as "pending",
\* "checking" or "applying", whatever an earlier apply, a crash or a restored snapshot left.
NothingInFlight ==
  \A r \in Requests :
    rq[r].at = "answered" /\ rq[r].alone /\ rq[r].answer # "failed" =>
      \A e \in Services : \A d \in Rows(e) : status[d][e] \notin {"pending", "checking", "applying"}

\* When requests overlap, nothing goes wrong by itself and the panel told every
\* one of them "applied", Xray serves exactly the enabled devices: the lock puts
\* the two applies in an order, and the later one has seen both changes.
\* AmneziaWG 3.1 and NaiveProxy, which are applied outside the lock too, are
\* only covered by AnswerIsTrue.
Quiet ==
  /\ \A r \in Requests : ~Busy(r)
  /\ \A w \in Workers : wk[w] = NoWorker

AllToldOk ==
  /\ \E r \in Requests : rq[r].at = "answered"
  /\ \A r \in Requests : rq[r].at = "answered" => rq[r].answer = "ok"

OverlapsAgree == Quiet /\ AllToldOk /\ spent.faults = 0 => Truthful("xray")
=============================================================================
