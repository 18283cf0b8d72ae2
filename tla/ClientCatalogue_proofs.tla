----------------------- MODULE ClientCatalogue_proofs -----------------------
(***************************************************************************)
(* Theorems about ClientCatalogue, for any number of clients, devices,     *)
(* requests and workers: its types, among them that the lock matches the   *)
(* workers and a waiting request has one worker; that a change which was   *)
(* not applied is undone; that the answer to a request alone is true, and  *)
(* its statuses final; that requests which overlap leave Xray with the     *)
(* rows as they are.                                                       *)
(*                                                                         *)
(* None is inductive.  An undo restores what a request remembered, so      *)
(* IInv says that snapshots are well-formed, that a creation's is empty,   *)
(* and that requests which are sole on their client see its rows unchanged *)
(* before their write and after their undo.  AloneOK adds what the worker  *)
(* of an undisturbed request has achieved at each step of the sequence.    *)
(* Agreeing says who still owes an apply of Xray when it runs other rows   *)
(* than the database has.                                                  *)
(***************************************************************************)
EXTENDS ClientCatalogue, FiniteSetTheorems, TLAPS

States == {"none", "on", "off"}
Maps == {<<>>} \cup UNION {[es -> Statuses] : es \in SUBSET Engines}

\* Client c is well-formed in these tables.
Whole(c, cl, dev, st) ==
  /\ \A d \in DevicesOf(c) :
       /\ dev[d] # "none" => cl # "none" /\ DOMAIN st[d] # {}
       /\ dev[d] = "none" => st[d] = <<>>
  /\ cl # "none" => dev[Primary[c]] # "none"

Tables ==
  /\ client \in [Clients -> States]
  /\ device \in [Devices -> States]
  /\ status \in [Devices -> Maps]
  /\ domain \in BOOLEAN
CatalogueOK == Tables /\ \A c \in Clients : Whole(c, client[c], device, status)

SnapshotsOf(c) == [client : States, device : [DevicesOf(c) -> States],
                   status : [DevicesOf(c) -> Maps]]
Snapshots == {<<>>} \cup UNION {SnapshotsOf(c) : c \in Clients}

\* The request records and what holds of each.
Busies == {"change", "prepare", "call", "wait", "failed", "undo"}
BusyRequests ==
  [at : Busies, op : Ops, device : Devices \cup {None}, client : Clients \cup {None},
   access : SUBSET Engines, snap : Snapshots, passes : {1, 2}, boot : BOOLEAN,
   answer : {"ok", "undone"}, alone : BOOLEAN, sole : BOOLEAN]
DoneRequests ==
  [at : {"answered"}, op : Ops, client : Clients \cup {None},
   answer : {"ok", "undone", "failed"}, snap : Snapshots, alone : BOOLEAN, sole : BOOLEAN]
RequestRecords == {NoRequest} \cup BusyRequests \cup DoneRequests

\* What a change carries until it is answered.
Carries(me) ==
  /\ me.device \in Devices /\ me.client = Owner[me.device]
  /\ me.op \in ClientOps => me.device = Primary[me.client]
  /\ me.op \in FormOps => me.access # {}
  /\ me.snap \in SnapshotsOf(me.client)
  /\ Whole(me.client, me.snap.client, me.snap.device, me.snap.status)
  /\ me.op = "create" => me.snap.client = "none"

RequestOK(me) ==
  /\ me \in RequestRecords
  /\ me \in BusyRequests => /\ me.op # "apply" => Carries(me)
                            /\ me.at \in {"change", "undo"} => me.answer = "ok"
                            /\ me.at = "undo" \/ me.answer # "ok" => me.op # "apply"
  /\ me # NoRequest /\ me.op # "apply" => me.client \in Clients

\* A sole request is the only one under way on its client...
Apart ==
  \A r, q \in Requests :
    (r # q /\ rq[r] # NoRequest /\ rq[r].sole /\ Busy(q)) => rq[q].client # rq[r].client

\* ...and finds the rows of its snapshot before its write and after its undo.
Untouched(r) == rq[r].at = "change" \/ rq[r].answer # "ok"
Undoes(r) ==
  rq[r] # NoRequest /\ rq[r].op # "apply" /\ rq[r].sole /\ Untouched(r) => BackTo(r)
Undoable == \A r \in Requests : Undoes(r)

RequestsOK == (\A r \in Requests : RequestOK(rq[r])) /\ rq \in [Requests -> RequestRecords]

\* A worker answers waiting requests, each request is answered by one.
Serving(w, r) == wk[w] # NoWorker /\ r \in wk[w].for
ServedOnce ==
  /\ \A w \in Workers, r \in Requests : Serving(w, r) => rq[r].at = "wait"
  /\ \A r \in Requests : rq[r].at = "wait" => \E w \in Workers : Serving(w, r)
  /\ \A v, w \in Workers, r \in Requests : Serving(v, r) /\ Serving(w, r) => v = w

\* The worker records.
Bodies == {None} \cup SUBSET Devices
AtLock == [at : {"lock"}, for : SUBSET Requests]
AtBegin == [at : {"begin"}, for : SUBSET Requests, i : 1..5, ok : BOOLEAN]
AtEngine == [at : {"read", "install", "restart", "failed", "settle"}, for : SUBSET Requests,
             i : 1..5, ok : BOOLEAN, rows : SUBSET Devices, body : Bodies, applied : SUBSET Devices]
AtAgain == [at : {"again", "restartAgain", "naive"}, for : SUBSET Requests, ok : BOOLEAN]
AtInstallAgain == [at : {"installAgain"}, for : SUBSET Requests, ok : BOOLEAN, body : Bodies]
AtNaive == [at : {"naiveInstall"}, for : SUBSET Requests, rows : SUBSET Devices,
            ids : SUBSET Devices]
WorkerRecords == {NoWorker} \cup AtLock \cup AtBegin \cup AtEngine \cup AtAgain
                   \cup AtInstallAgain \cup AtNaive

\* Subscriptions have no config; only engines with a backup are restored.
Placed(me) ==
  /\ me.at \in {"read", "install", "restart", "failed", "settle"} => Locked[me.i] # "sgclient"
  /\ me.at = "failed" => Locked[me.i] \in Sources

WorkersOK ==
  /\ wk \in [Workers -> WorkerRecords]
  /\ \A w \in Workers : Placed(wk[w])
  /\ lock \in Workers \cup {"free"}
  /\ \A w \in Workers : lock = w <=> Holds(w)

RuntimeOK ==
  /\ live \in [Services -> Bodies] /\ running \in [Services -> Bodies]
  /\ backup \in [Sources -> Bodies]

IInv == CatalogueOK /\ RequestsOK /\ Apart /\ Undoable /\ ServedOnce /\ WorkersOK /\ RuntimeOK

-----------------------------------------------------------------------------
\* Status maps.

LEMMA NoStatus == DOMAIN <<>> = {} /\ <<>> \in Maps
BY DEF Maps

LEMMA MapFacts ==
  ASSUME NEW m \in Maps
  PROVE  /\ DOMAIN m \subseteq Engines
         /\ \A e \in DOMAIN m : m[e] \in Statuses
<1>1. CASE m = <<>>
  BY <1>1, NoStatus
<1>2. CASE m # <<>>
  <2>1. PICK es \in SUBSET Engines : m \in [es -> Statuses]
    BY <1>2 DEF Maps
  <2> QED BY <2>1
<1> QED BY <1>1, <1>2

LEMMA MapPut ==
  ASSUME NEW m \in Maps, NEW e \in DOMAIN m, NEW s \in Statuses
  PROVE  [m EXCEPT ![e] = s] \in Maps /\ DOMAIN [m EXCEPT ![e] = s] = DOMAIN m
<1>1. m # <<>>
  BY NoStatus
<1>2. PICK es \in SUBSET Engines : m \in [es -> Statuses]
  BY <1>1 DEF Maps
<1>3. [m EXCEPT ![e] = s] \in [es -> Statuses] /\ DOMAIN m = es
  BY <1>2
<1> QED BY <1>2, <1>3 DEF Maps

\* Workers only reword statuses.
Reworded ==
  /\ UNCHANGED <<client, device, domain>>
  /\ status' \in [Devices -> Maps]
  /\ \A d \in Devices : DOMAIN status'[d] = DOMAIN status[d]
  /\ \A d \in Devices : status[d] = <<>> => status'[d] = <<>>

SameRows(c) ==
  /\ client'[c] = client[c]
  /\ \A d \in DevicesOf(c) : device'[d] = device[d] /\ DOMAIN status'[d] = DOMAIN status[d]

LEMMA RewordedKeeps ==
  ASSUME CatalogueOK, Reworded
  PROVE  CatalogueOK' /\ \A c \in Clients : SameRows(c)
<1>1. Tables'
  BY DEF CatalogueOK, Tables, Reworded
<1>2. ASSUME NEW c \in Clients PROVE Whole(c, client'[c], device', status')
  BY DEF CatalogueOK, Whole, Reworded, DevicesOf
<1>3. ASSUME NEW c \in Clients PROVE SameRows(c)
  BY DEF SameRows, Reworded, DevicesOf
<1> QED BY <1>1, <1>2, <1>3 DEF CatalogueOK

\* One rewording: some devices get a status for an engine they have.
LEMMA PutReworded ==
  ASSUME CatalogueOK, NEW e, NEW ds, NEW f, UNCHANGED <<client, device, domain>>,
         status' = [d \in Devices |-> IF d \in ds THEN [status[d] EXCEPT ![e] = f[d]] ELSE status[d]],
         \A d \in Devices : d \in ds => Has(d, e) /\ f[d] \in Statuses
  PROVE  Reworded
<1>1. status \in [Devices -> Maps]
  BY DEF CatalogueOK, Tables
<1>2. ASSUME NEW d \in Devices
      PROVE  /\ status'[d] \in Maps /\ DOMAIN status'[d] = DOMAIN status[d]
             /\ status[d] = <<>> => status'[d] = <<>>
  <2>1. CASE d \in ds
    <3>1. e \in DOMAIN status[d] /\ f[d] \in Statuses /\ status[d] \in Maps
      BY <1>1, <2>1 DEF Has
    <3>2. status'[d] = [status[d] EXCEPT ![e] = f[d]]
      BY <2>1
    <3>3. status[d] # <<>>
      BY <3>1, NoStatus
    <3> QED BY <3>1, <3>2, <3>3, MapPut
  <2>2. CASE d \notin ds
    BY <1>1, <2>2
  <2> QED BY <2>1, <2>2
<1> QED BY <1>2 DEF Reworded

LEMMA SameStatus ==
  ASSUME CatalogueOK, UNCHANGED <<client, device, domain>>, UNCHANGED status
  PROVE  Reworded
BY DEF CatalogueOK, Tables, Reworded

LEMMA MarkedReworded ==
  ASSUME CatalogueOK, NEW ds, NEW e, NEW s \in Statuses,
         UNCHANGED <<client, device, domain>>, status' = Marked(ds, e, s)
  PROVE  Reworded
<1> DEFINE marked == {d \in Devices : d \in ds /\ Has(d, e)}
           f == [d \in Devices |-> s]
<1>1. status' = [d \in Devices |-> IF d \in marked THEN [status[d] EXCEPT ![e] = f[d]] ELSE status[d]]
  BY DEF Marked
<1>2. \A d \in Devices : d \in marked => Has(d, e) /\ f[d] \in Statuses
  OBVIOUS
<1> HIDE DEF marked, f
<1> QED BY <1>1, <1>2, PutReworded

-----------------------------------------------------------------------------
\* What every step of a worker does to the catalogue and to the requests.

\* It goes on for the same requests, or answers them and is free again.
GoesOn(w) == /\ UNCHANGED rq
             /\ wk[w] # NoWorker /\ wk'[w] # NoWorker
             /\ wk'[w].for = wk[w].for
             /\ \A v \in Workers \ {w} : wk'[v] = wk[v]
Answers(w) == /\ \E good \in BOOLEAN : Tell(w, good)
              /\ wk[w] # NoWorker
              /\ wk' = [wk EXCEPT ![w] = NoWorker]

LEMMA FieldsDiffer ==
  ASSUME NEW x, x.at # "idle" PROVE x # NoWorker
BY DEF NoWorker

LEMMA ResultGoesOn ==
  ASSUME WorkersOK, NEW w \in Workers, NEW good, Result(w, good), UNCHANGED rq,
         wk[w].at # "idle"
  PROVE  GoesOn(w)
BY FieldsDiffer DEF WorkersOK, Result, GoesOn, NoWorker

LEMMA WorkerReworded ==
  ASSUME CatalogueOK, NEW w \in Workers, WorkerStep(w)
  PROVE  Reworded
<1>1. ASSUME \/ TakeLock(w) \/ NoLock(w) \/ StopIdle(w) \/ IdleMihomo(w) \/ NotInstalled(w)
             \/ RestartFails(w) \/ RestoreConfig(w) \/ InstallAgain(w) \/ FailAgain(w)
             \/ SkipNaive(w) \/ LoadNaive(w) \/ NaiveRefused(w) \/ NaiveUndone(w)
      PROVE  Reworded
  <2>1. UNCHANGED <<client, device, domain>> /\ UNCHANGED status
    BY <1>1 DEF TakeLock, NoLock, StopIdle, IdleMihomo, NotInstalled, RestartFails, RestoreConfig,
                InstallAgain, FailAgain, SkipNaive, LoadNaive, NaiveRefused, NaiveUndone, database
  <2> QED BY <2>1, SameStatus
<1>2. ASSUME Subscriptions(w) PROVE Reworded
  <2> DEFINE ready(d) == \E s \in Sources : Has(d, s) /\ status[d][s] = "applied"
             f == [d \in Devices |-> IF ready(d) THEN "applied" ELSE "error"]
             ds == Rows("sgclient")
  <2>1. status' = [d \in Devices |->
                     IF d \in ds THEN [status[d] EXCEPT !["sgclient"] = f[d]] ELSE status[d]]
    BY <1>2 DEF Subscriptions
  <2>2. \A d \in Devices : d \in ds => Has(d, "sgclient") /\ f[d] \in Statuses
    BY DEF Rows, Statuses
  <2>3. UNCHANGED <<client, device, domain>>
    BY <1>2 DEF Subscriptions
  <2> HIDE DEF f, ds
  <2> QED BY <2>1, <2>2, <2>3, PutReworded
<1>3. ASSUME BeginEngine(w) PROVE Reworded
  BY <1>3, MarkedReworded DEF BeginEngine, Statuses
<1>4. ASSUME ReadRows(w) \/ ReadAgain(w) PROVE Reworded
  <2>1. PICK e : status' = Rewritten(e)
    BY <1>4 DEF ReadRows, ReadAgain
  <2>2. UNCHANGED <<client, device, domain>>
    BY <1>4 DEF ReadRows, ReadAgain
  <2> QED BY <2>1, <2>2, MarkedReworded, SameStatus DEF Rewritten, Statuses
<1>5. ASSUME Install(w) PROVE Reworded
  <2>1. UNCHANGED <<client, device, domain>>
        /\ (UNCHANGED status \/ \E ds, e : status' = Marked(ds, e, "applying"))
    BY <1>5 DEF Install
  <2> QED BY <2>1, MarkedReworded, SameStatus DEF Statuses
<1>6. ASSUME RestartEngine(w) \/ RestartAgain(w) \/ SyncNaive(w) PROVE Reworded
  <2>1. UNCHANGED <<client, device, domain>> /\ \E ds, e : status' = Marked(ds, e, "applied")
    BY <1>6 DEF RestartEngine, RestartAgain, SyncNaive, MarkedUp
  <2> QED BY <2>1, MarkedReworded DEF Statuses
<1>7. ASSUME Settle(w) PROVE Reworded
  <2> DEFINE e == Engine(w)
             kept == IF running[e] # None THEN wk[w].applied ELSE {}
             f == [d \in Devices |-> IF d \in kept THEN "applied" ELSE "error"]
             ds == {d \in Devices : d \in wk[w].rows /\ Has(d, e)}
  <2>1. status' = [d \in Devices |-> IF d \in ds THEN [status[d] EXCEPT ![e] = f[d]] ELSE status[d]]
    BY <1>7 DEF Settle
  <2>2. \A d \in Devices : d \in ds => Has(d, e) /\ f[d] \in Statuses
    BY DEF Statuses
  <2>3. UNCHANGED <<client, device, domain>>
    BY <1>7 DEF Settle
  <2> HIDE DEF f, ds, e
  <2> QED BY <2>1, <2>2, <2>3, PutReworded
<1> QED BY <1>1, <1>2, <1>3, <1>4, <1>5, <1>6, <1>7 DEF WorkerStep

LEMMA MoveGoesOn ==
  ASSUME WorkersOK, NEW w \in Workers, wk[w].at # "idle", NEW s, s # "idle",
         wk' = [wk EXCEPT ![w] = [@ EXCEPT !.at = s]], UNCHANGED rq
  PROVE  GoesOn(w)
<1> DEFINE new == [wk[w] EXCEPT !.at = s]
<1>1. new.at = s /\ new.for = wk[w].for
  BY DEF WorkersOK, WorkerRecords, NoWorker, AtLock, AtBegin, AtEngine, AtAgain, AtInstallAgain, AtNaive
<1>2. wk'[w] = new /\ \A v \in Workers \ {w} : wk'[v] = wk[v]
  BY DEF WorkersOK
<1> HIDE DEF new
<1> QED BY <1>1, <1>2, FieldsDiffer DEF GoesOn

LEMMA NewGoesOn ==
  ASSUME WorkersOK, NEW w \in Workers, wk[w].at # "idle", NEW new, new.at # "idle",
         new.for = wk[w].for, wk' = [wk EXCEPT ![w] = new], UNCHANGED rq
  PROVE  GoesOn(w)
BY FieldsDiffer DEF GoesOn, WorkersOK

LEMMA WorkerAnswers ==
  ASSUME WorkersOK, NEW w \in Workers, WorkerStep(w)
  PROVE  GoesOn(w) \/ Answers(w)
<1>1. wk[w].at # "idle"
  BY DEF WorkerStep, TakeLock, NoLock, StopIdle, IdleMihomo, Subscriptions, BeginEngine, ReadRows,
         Install, NotInstalled, RestartEngine, RestartFails, RestoreConfig, Settle, ReadAgain,
         InstallAgain, RestartAgain, FailAgain, SkipNaive, LoadNaive, NaiveRefused, SyncNaive, NaiveUndone
<1>2. wk[w] # NoWorker
  BY <1>1, FieldsDiffer
<1>3. ASSUME StopIdle(w) \/ IdleMihomo(w) \/ Subscriptions(w) \/ RestartEngine(w) \/ Settle(w)
      PROVE  GoesOn(w)
  <2>1. UNCHANGED rq /\ \E good : Result(w, good)
    BY <1>3 DEF StopIdle, IdleMihomo, Subscriptions, RestartEngine, Settle
  <2> QED BY <1>1, <2>1, ResultGoesOn
<1>4. ASSUME TakeLock(w) \/ BeginEngine(w) \/ ReadAgain(w) \/ InstallAgain(w) \/ LoadNaive(w)
      PROVE  GoesOn(w)
  <2>1. UNCHANGED rq
    BY <1>4 DEF TakeLock, BeginEngine, ReadAgain, InstallAgain, LoadNaive
  <2>2. \E new : new.at # "idle" /\ new.for = wk[w].for /\ wk' = [wk EXCEPT ![w] = new]
    BY <1>4 DEF TakeLock, BeginEngine, ReadAgain, InstallAgain, LoadNaive, WorkersOK
  <2> QED BY <1>1, <2>1, <2>2, NewGoesOn
<1>5. ASSUME ReadRows(w) PROVE GoesOn(w)
  <2> DEFINE new == [wk[w] EXCEPT !.at = "install", !.body = Body(Engine(w))]
  <2>1. new.at = "install" /\ new.for = wk[w].for
    BY DEF WorkersOK, WorkerRecords, NoWorker, AtLock, AtBegin, AtEngine, AtAgain, AtInstallAgain, AtNaive
  <2>2. UNCHANGED rq /\ wk' = [wk EXCEPT ![w] = new]
    BY <1>5 DEF ReadRows, WorkersOK
  <2> HIDE DEF new
  <2> QED BY <1>1, <2>1, <2>2, NewGoesOn
<1>6. ASSUME Install(w) \/ NotInstalled(w) \/ RestartFails(w) \/ RestoreConfig(w) PROVE GoesOn(w)
  <2>1. UNCHANGED rq
    BY <1>6 DEF Install, NotInstalled, RestartFails, RestoreConfig
  <2>2. \E s : s # "idle" /\ wk' = [wk EXCEPT ![w] = [@ EXCEPT !.at = s]]
    BY <1>6 DEF Install, NotInstalled, RestartFails, RestoreConfig
  <2> QED BY <1>1, <2>1, <2>2, MoveGoesOn
<1>7. ASSUME NoLock(w) \/ FailAgain(w) \/ SkipNaive(w) \/ NaiveRefused(w) \/ SyncNaive(w) \/ NaiveUndone(w)
      PROVE  Answers(w)
  BY <1>2, <1>7 DEF NoLock, FailAgain, SkipNaive, NaiveRefused, SyncNaive, NaiveUndone, Answers
<1>8. ASSUME RestartAgain(w) PROVE GoesOn(w) \/ Answers(w)
  <2>1. CASE wk[w].ok
    <3>1. UNCHANGED rq /\ wk' = [wk EXCEPT ![w] = [@ EXCEPT !.at = "naive"]]
      BY <1>8, <2>1 DEF RestartAgain
    <3> QED BY <1>1, <3>1, MoveGoesOn
  <2>2. CASE ~wk[w].ok
    BY <1>2, <1>8, <2>2 DEF RestartAgain, Answers
  <2> QED BY <2>1, <2>2
<1> QED BY <1>3, <1>4, <1>5, <1>6, <1>7, <1>8 DEF WorkerStep

-----------------------------------------------------------------------------
\* What a request's write and its undo do to the catalogue.

\* Only the rows of one client change.
Alters(c) ==
  /\ Tables'
  /\ \A b \in Clients \ {c} : client'[b] = client[b]
  /\ \A d \in Devices : Owner[d] # c => device'[d] = device[d] /\ status'[d] = status[d]

LEMMA AlteredKeeps ==
  ASSUME CatalogueOK, NEW c \in Clients, Alters(c), Whole(c, client'[c], device', status')
  PROVE  CatalogueOK' /\ \A b \in Clients \ {c} : SameRows(b)
<1>1. ASSUME NEW b \in Clients \ {c} PROVE SameRows(b)
  BY DEF SameRows, Alters, DevicesOf
<1>2. ASSUME NEW b \in Clients \ {c} PROVE Whole(b, client'[b], device', status')
  <2>1. Whole(b, client[b], device, status)
    BY DEF CatalogueOK
  <2>2. \A d \in DevicesOf(b) : d \in Devices /\ device'[d] = device[d] /\ status'[d] = status[d]
    BY DEF Alters, DevicesOf
  <2>3. client'[b] = client[b] /\ Primary[b] \in DevicesOf(b)
    BY CatalogueAssumption DEF Alters, DevicesOf
  <2> QED BY <2>1, <2>2, <2>3 DEF Whole
<1> QED BY <1>1, <1>2 DEF CatalogueOK, Alters

LEMMA DeleteKeeps ==
  ASSUME CatalogueOK, NEW c \in Clients, DeleteClient(c), UNCHANGED domain
  PROVE  /\ CatalogueOK' /\ \A b \in Clients \ {c} : SameRows(b)
         /\ client'[c] = "none" /\ \A d \in DevicesOf(c) : device'[d] = "none" /\ status'[d] = <<>>
<1>1. Alters(c)
  BY NoStatus DEF CatalogueOK, Tables, Alters, DeleteClient, DropDevices, DevicesOf, States
<1>2. client'[c] = "none" /\ \A d \in DevicesOf(c) : device'[d] = "none" /\ status'[d] = <<>>
  BY DEF CatalogueOK, Tables, DeleteClient, DropDevices, DevicesOf
<1>3. Whole(c, client'[c], device', status')
  BY <1>2 DEF Whole
<1> QED BY <1>1, <1>2, <1>3, AlteredKeeps

LEMMA RestoreKeeps ==
  ASSUME CatalogueOK, NEW c \in Clients, NEW snap \in SnapshotsOf(c), Restore(c, snap),
         Whole(c, snap.client, snap.device, snap.status), UNCHANGED domain
  PROVE  /\ CatalogueOK' /\ \A b \in Clients \ {c} : SameRows(b)
         /\ client'[c] = snap.client
         /\ \A d \in DevicesOf(c) : device'[d] = snap.device[d] /\ status'[d] = snap.status[d]
<1>1. /\ snap.client \in States
      /\ \A d \in DevicesOf(c) : snap.device[d] \in States /\ snap.status[d] \in Maps
  BY DEF SnapshotsOf
<1>2. Alters(c)
  BY <1>1 DEF CatalogueOK, Tables, Alters, Restore, DevicesOf
<1>3. /\ client'[c] = snap.client
      /\ \A d \in DevicesOf(c) : device'[d] = snap.device[d] /\ status'[d] = snap.status[d]
  BY DEF CatalogueOK, Tables, Restore, DevicesOf
<1>4. Primary[c] \in DevicesOf(c)
  BY CatalogueAssumption DEF DevicesOf
<1>5. Whole(c, client'[c], device', status')
  BY <1>3, <1>4 DEF Whole
<1> QED BY <1>2, <1>3, <1>5, AlteredKeeps

LEMMA WriteKeeps ==
  ASSUME CatalogueOK, NEW op \in Ops \ {"apply"}, NEW d \in Devices, NEW access \in SUBSET Engines,
         op \in ClientOps => d = Primary[Owner[d]], op \in FormOps => access # {},
         Possible(op, d), Write(op, d, access), UNCHANGED domain
  PROVE  CatalogueOK' /\ \A b \in Clients \ {Owner[d]} : SameRows(b)
<1> DEFINE c == Owner[d]
<1>0. c \in Clients /\ d \in DevicesOf(c) /\ Primary[c] \in DevicesOf(c) /\ Whole(c, client[c], device, status)
  BY CatalogueAssumption DEF DevicesOf, CatalogueOK
<1>a. \A x \in DevicesOf(c) : x \in Devices
  BY DEF DevicesOf
<1>1. NewCredentials(access) \in Maps /\ DOMAIN NewCredentials(access) = access
  BY DEF NewCredentials, Maps, Statuses
<1>2. CASE op = "create"
  <2>1. client[c] = "none" /\ client' = [client EXCEPT ![c] = "on"] /\ CreateDevice(d, access)
    BY <1>2 DEF Write, Possible
  <2>2. Alters(c)
    BY <1>0, <1>1, <2>1 DEF Alters, CatalogueOK, Tables, CreateDevice, States
  <2>3. Whole(c, client'[c], device', status')
    BY <1>0, <1>a, <1>1, <1>2, <2>1 DEF Whole, CatalogueOK, Tables, CreateDevice, ClientOps, FormOps
  <2> QED BY <1>0, <2>2, <2>3, AlteredKeeps
<1>3. CASE op = "add"
  <2>1. client[c] # "none" /\ device[d] = "none" /\ CreateDevice(d, access) /\ UNCHANGED client
    BY <1>3 DEF Write, Possible
  <2>2. Alters(c)
    BY <1>0, <1>1, <2>1 DEF Alters, CatalogueOK, Tables, CreateDevice, States
  <2>3. Whole(c, client'[c], device', status')
    BY <1>0, <1>a, <1>1, <1>3, <2>1 DEF Whole, CatalogueOK, Tables, CreateDevice, FormOps
  <2> QED BY <1>0, <2>2, <2>3, AlteredKeeps
<1>4. CASE op = "edit"
  <2> DEFINE new == [e \in access |-> IF Has(d, e) THEN status[d][e] ELSE "creating"]
  <2>1. device[d] # "none" /\ status' = [status EXCEPT ![d] = new] /\ UNCHANGED <<client, device>>
    BY <1>4 DEF Write, Possible, SyncAccess
  <2>2. status[d] \in Maps
    BY DEF CatalogueOK, Tables
  <2>3. \A e \in access : (IF Has(d, e) THEN status[d][e] ELSE "creating") \in Statuses
    BY <2>2, MapFacts DEF Has, Statuses
  <2>4. new \in Maps /\ DOMAIN new = access
    BY <2>3 DEF Maps
  <2> HIDE DEF new
  <2>5. Alters(c)
    BY <1>0, <2>1, <2>4 DEF Alters, CatalogueOK, Tables
  <2>6. Whole(c, client'[c], device', status')
    BY <1>0, <1>a, <1>4, <2>1, <2>4 DEF Whole, CatalogueOK, Tables, FormOps
  <2> QED BY <1>0, <2>5, <2>6, AlteredKeeps
<1>5. CASE op \in {"enable", "disable"}
  <2>1. device[d] # "none" /\ UNCHANGED <<device, status>>
        /\ \E x \in {"on", "off"} : client' = [client EXCEPT ![c] = x]
    BY <1>5 DEF Write, Possible
  <2>2. Alters(c)
    BY <1>0, <2>1 DEF Alters, CatalogueOK, Tables, States
  <2>3. Whole(c, client'[c], device', status')
    BY <1>0, <1>5, <2>1 DEF Whole, CatalogueOK, Tables, ClientOps
  <2> QED BY <1>0, <2>2, <2>3, AlteredKeeps
<1>6. CASE op \in {"enableDevice", "disableDevice"}
  <2>1. device[d] # "none" /\ UNCHANGED <<client, status>>
        /\ \E x \in {"on", "off"} : device' = [device EXCEPT ![d] = x]
    BY <1>6 DEF Write, Possible
  <2>2. Alters(c)
    BY <1>0, <2>1 DEF Alters, CatalogueOK, Tables, States
  <2>3. Whole(c, client'[c], device', status')
    BY <1>0, <1>a, <2>1 DEF Whole, CatalogueOK, Tables
  <2> QED BY <1>0, <2>2, <2>3, AlteredKeeps
<1>7. CASE op = "delete"
  BY <1>0, <1>7, DeleteKeeps DEF Write
<1>8. CASE op = "deleteDevice"
  <2>1. d # Primary[c] /\ DropDevices({d}) /\ UNCHANGED client
    BY <1>8 DEF Write, Possible
  <2>2. Alters(c)
    BY <1>0, <2>1, NoStatus DEF Alters, CatalogueOK, Tables, DropDevices, States
  <2>3. Whole(c, client'[c], device', status')
    BY <1>0, <1>a, <2>1 DEF Whole, CatalogueOK, Tables, DropDevices
  <2> QED BY <1>0, <2>2, <2>3, AlteredKeeps
<1> QED BY <1>2, <1>3, <1>4, <1>5, <1>6, <1>7, <1>8 DEF Ops

-----------------------------------------------------------------------------
\* Requests.

LEMMA Records ==
  ASSUME NEW me \in RequestRecords
  PROVE  /\ me.at \notin {"idle", "answered"} => me \in BusyRequests
         /\ me.at \in {"idle"} => me = NoRequest
         /\ me \in BusyRequests => me.at \in Busies /\ me # NoRequest
         /\ me \in DoneRequests => me.at = "answered" /\ me # NoRequest
BY DEF RequestRecords, NoRequest, BusyRequests, DoneRequests, Busies

LEMMA BusyRecord ==
  ASSUME RequestsOK, NEW r \in Requests, Busy(r)
  PROVE  rq[r] \in BusyRequests /\ RequestOK(rq[r]) /\ rq[r] # NoRequest
BY Records DEF RequestsOK, RequestOK, Busy

\* A request stays what it is.
Stays(r) ==
  rq'[r] # NoRequest =>
    /\ rq[r] # NoRequest /\ rq'[r].client = rq[r].client /\ rq'[r].op = rq[r].op
    /\ rq'[r].sole => rq[r].sole
    /\ Busy(r)' => Busy(r)

LEMMA RequestsStay ==
  ASSUME Apart, rq' \in [Requests -> RequestRecords],
         \A r \in Requests : RequestOK(rq'[r]) /\ Stays(r) /\ Undoes(r)'
  PROVE  RequestsOK' /\ Apart' /\ Undoable'
<1>1. RequestsOK' /\ Undoable'
  BY DEF RequestsOK, Undoable
<1>2. ASSUME NEW r \in Requests, NEW q \in Requests,
             r # q, rq'[r] # NoRequest, rq'[r].sole, Busy(q)'
      PROVE  rq'[q].client # rq'[r].client
  <2>1. rq'[q] # NoRequest
    BY <1>2 DEF Busy, NoRequest
  <2> QED BY <1>2, <2>1 DEF Stays, Apart
<1> QED BY <1>1, <1>2 DEF Apart

\* A request that does not move, while its client's rows stay.
LEMMA UndoesFrame ==
  ASSUME NEW r \in Requests, Undoes(r), rq'[r] = rq[r],
         rq[r] # NoRequest /\ rq[r].op # "apply" /\ rq[r].sole => SameRows(rq[r].client)
  PROVE  Undoes(r)'
<1> SUFFICES ASSUME rq[r] # NoRequest, rq[r].op # "apply", rq[r].sole, Untouched(r)'
             PROVE  BackTo(r)'
  BY DEF Undoes
<1>1. BackTo(r)
  BY DEF Undoes, Untouched
<1>2. SameRows(rq[r].client)
  OBVIOUS
<1> QED BY <1>1, <1>2 DEF BackTo, SameRows

\* One request moves, and alters at most the rows of its own client.
LEMMA RequestMoves ==
  ASSUME RequestsOK, Apart, Undoable, NEW r \in Requests, Busy(r), NEW new,
         rq' = [rq EXCEPT ![r] = new], RequestOK(new),
         new # NoRequest => /\ new.client = rq[r].client /\ new.op = rq[r].op
                            /\ new.sole => rq[r].sole,
         Undoes(r)',
         rq[r].client \in Clients => \A b \in Clients \ {rq[r].client} : SameRows(b),
         rq[r].client \notin Clients => \A b \in Clients : SameRows(b)
  PROVE  RequestsOK' /\ Apart' /\ Undoable'
<1>1. rq' \in [Requests -> RequestRecords] /\ rq'[r] = new /\ \A q \in Requests \ {r} : rq'[q] = rq[q]
  BY DEF RequestsOK, RequestOK
<1>2. ASSUME NEW q \in Requests \ {r} PROVE RequestOK(rq'[q]) /\ Stays(q) /\ Undoes(q)'
  <2>1. RequestOK(rq[q]) /\ rq'[q] = rq[q] /\ Undoes(q)
    BY <1>1 DEF RequestsOK, Undoable
  <2>2. rq[q] # NoRequest /\ rq[q].op # "apply" /\ rq[q].sole => SameRows(rq[q].client)
    BY <2>1 DEF RequestOK, Apart
  <2> QED BY <2>1, <2>2, UndoesFrame DEF Stays, Busy
<1>3. RequestOK(rq'[r]) /\ Stays(r) /\ Undoes(r)'
  BY <1>1, BusyRecord DEF Stays
<1> QED BY <1>1, <1>2, <1>3, RequestsStay

\* A request that goes on or ends with the same snapshot, while its client's
\* rows stay.
LEMMA UndoesCarried ==
  ASSUME NEW r \in Requests, Undoes(r), rq[r] # NoRequest,
         rq'[r].client = rq[r].client, rq'[r].op = rq[r].op, rq'[r].sole => rq[r].sole,
         Untouched(r)' => Untouched(r) /\ rq'[r].snap = rq[r].snap,
         rq[r].op # "apply" /\ rq[r].sole => SameRows(rq[r].client)
  PROVE  Undoes(r)'
<1> SUFFICES ASSUME rq[r].op # "apply", rq'[r].sole, Untouched(r)' PROVE BackTo(r)'
  BY DEF Undoes
<1>1. BackTo(r) /\ rq'[r].snap = rq[r].snap
  BY DEF Undoes
<1>2. SameRows(rq[r].client)
  OBVIOUS
<1> QED BY <1>1, <1>2 DEF BackTo, SameRows

\* Done and Answered.
LEMMA DoneOK ==
  ASSUME NEW me \in BusyRequests, RequestOK(me), NEW answer \in {"ok", "undone", "failed"}
  PROVE  LET new == Done(me, answer) IN
         /\ RequestOK(new) /\ new # NoRequest /\ new \notin BusyRequests
         /\ new.client = me.client /\ new.op = me.op /\ new.sole = me.sole
         /\ new.at = "answered" /\ new.answer = answer
         /\ answer # "ok" => new.snap = me.snap
<1> DEFINE new == Done(me, answer)
<1>1. new \in DoneRequests
  BY DEF Done, DoneRequests, BusyRequests, Snapshots
<1>2. /\ new.client = me.client /\ new.op = me.op /\ new.sole = me.sole
      /\ new.at = "answered" /\ new.answer = answer
      /\ answer # "ok" => new.snap = me.snap
  BY DEF Done
<1>3. new # NoRequest /\ new \notin BusyRequests /\ new \in RequestRecords
  BY <1>1, <1>2 DEF NoRequest, BusyRequests, Busies, RequestRecords
<1>4. me # NoRequest
  BY Records DEF RequestOK
<1>5. RequestOK(new)
  BY <1>2, <1>3, <1>4 DEF RequestOK
<1> QED BY <1>2, <1>3, <1>5

LEMMA AnsweredOK ==
  ASSUME NEW me \in BusyRequests, RequestOK(me), me.at = "wait", NEW good \in BOOLEAN
  PROVE  LET new == Answered(me, good) IN
         /\ RequestOK(new) /\ new # NoRequest
         /\ new.client = me.client /\ new.op = me.op /\ new.sole = me.sole
         /\ new.at \in {"failed", "call", "answered"} /\ new.answer = me.answer
         /\ me.answer # "ok" => new.snap = me.snap
<1> DEFINE moved(at, n) == [me EXCEPT !.at = at, !.passes = n]
<1>1. ASSUME NEW at \in {"failed", "call"}, NEW n \in {1, 2}
      PROVE  /\ RequestOK(moved(at, n)) /\ moved(at, n) # NoRequest
             /\ moved(at, n).client = me.client /\ moved(at, n).op = me.op
             /\ moved(at, n).sole = me.sole /\ moved(at, n).at = at
             /\ moved(at, n).answer = me.answer /\ moved(at, n).snap = me.snap
  <2> DEFINE new == moved(at, n)
  <2>1. /\ new \in BusyRequests /\ new.at = at
        /\ new.client = me.client /\ new.op = me.op /\ new.sole = me.sole
        /\ new.answer = me.answer /\ new.snap = me.snap
        /\ new.device = me.device /\ new.access = me.access
    BY DEF BusyRequests, Busies
  <2>2. new # NoRequest /\ new \in RequestRecords /\ me # NoRequest
    BY <2>1, Records DEF RequestRecords, RequestOK, NoRequest
  <2> HIDE DEF new
  <2>3. me.op # "apply" => Carries(new)
    BY <2>1 DEF RequestOK, Carries
  <2>4. RequestOK(new)
    BY <2>1, <2>2, <2>3 DEF RequestOK
  <2> QED BY <2>1, <2>2, <2>4 DEF new
<1>2. CASE ~good
  <2>1. Answered(me, good) = moved("failed", me.passes) /\ me.passes \in {1, 2}
    BY <1>2 DEF Answered, BusyRequests
  <2> HIDE DEF moved
  <2> QED BY <1>1, <2>1
<1>3. CASE good /\ me.passes > 1
  <2>1. Answered(me, good) = moved("call", 1)
    <3>1. me.passes = 2 /\ me.passes - 1 = 1
      BY <1>3 DEF BusyRequests
    <3>2. Answered(me, good) = [me EXCEPT !.at = "call", !.passes = me.passes - 1]
      BY <1>3, <3>1 DEF Answered
    <3> QED BY <3>1, <3>2
  <2> HIDE DEF moved
  <2> QED BY <1>1, <2>1
<1>4. CASE good /\ ~(me.passes > 1)
  <2>1. Answered(me, good) = Done(me, me.answer) /\ me.answer \in {"ok", "undone", "failed"}
    BY <1>4 DEF Answered, BusyRequests
  <2> QED BY <2>1, DoneOK
<1> QED BY <1>2, <1>3, <1>4

\* Any number of waiting requests are answered.
LEMMA AnswersKeep ==
  ASSUME RequestsOK, Apart, Undoable, \A c \in Clients : SameRows(c),
         rq' = [r \in Requests |-> rq'[r]],
         \A r \in Requests :
           rq'[r] = rq[r] \/ (rq[r].at = "wait" /\ \E good \in BOOLEAN : rq'[r] = Answered(rq[r], good))
  PROVE  RequestsOK' /\ Apart' /\ Undoable'
<1>1. ASSUME NEW r \in Requests PROVE RequestOK(rq'[r]) /\ Stays(r) /\ Undoes(r)'
  <2>0. RequestOK(rq[r]) /\ Undoes(r)
    BY DEF RequestsOK, Undoable
  <2>1. CASE rq'[r] = rq[r]
    <3>1. rq[r] # NoRequest /\ rq[r].op # "apply" => SameRows(rq[r].client)
      BY <2>0 DEF RequestOK
    <3> QED BY <2>0, <2>1, <3>1, UndoesFrame DEF Stays, Busy
  <2>2. ASSUME rq[r].at = "wait", NEW good \in BOOLEAN, rq'[r] = Answered(rq[r], good)
        PROVE  RequestOK(rq'[r]) /\ Stays(r) /\ Undoes(r)'
    <3>1. rq[r] \in BusyRequests /\ rq[r] # NoRequest
      BY <2>0, <2>2, Records DEF RequestOK
    <3>2. /\ RequestOK(rq'[r])
          /\ rq'[r].client = rq[r].client /\ rq'[r].op = rq[r].op /\ rq'[r].sole = rq[r].sole
          /\ rq'[r].at \in {"failed", "call", "answered"} /\ rq'[r].answer = rq[r].answer
          /\ rq[r].answer # "ok" => rq'[r].snap = rq[r].snap
      BY <2>0, <2>2, <3>1, AnsweredOK
    <3>3. rq[r].op # "apply" => SameRows(rq[r].client)
      BY <2>0, <3>1 DEF RequestOK
    <3>4. Busy(r)
      BY <2>2 DEF Busy
    <3>5. Stays(r)
      BY <3>1, <3>2, <3>4 DEF Stays
    <3>6. Untouched(r)' => Untouched(r) /\ rq'[r].snap = rq[r].snap
      BY <3>2 DEF Untouched
    <3>7. Undoes(r)'
      BY <2>0, <3>1, <3>2, <3>3, <3>6, UndoesCarried
    <3> QED BY <3>2, <3>5, <3>7
  <2> QED BY <2>1, <2>2
<1>2. rq' \in [Requests -> RequestRecords]
  BY <1>1 DEF RequestOK
<1> QED BY <1>1, <1>2, RequestsStay

\* A request under way that goes on.
LEMMA MovedOK ==
  ASSUME NEW me \in BusyRequests, RequestOK(me), NEW new \in BusyRequests,
         new.client = me.client, new.op = me.op, new.device = me.device, new.access = me.access,
         new.snap = me.snap,
         new.at \in {"change", "undo"} => new.answer = "ok",
         new.at = "undo" \/ new.answer # "ok" => me.op # "apply"
  PROVE  RequestOK(new) /\ new # NoRequest
<1>1. new # NoRequest /\ new \in RequestRecords /\ me # NoRequest
  BY Records DEF RequestRecords, RequestOK
<1>2. me.op # "apply" => Carries(new)
  BY DEF RequestOK, Carries
<1> QED BY <1>1, <1>2 DEF RequestOK

\* Its rows are not touched by it.
LEMMA GoesOnKeeps ==
  ASSUME RequestsOK, Apart, Undoable, UNCHANGED catalogue,
         NEW r \in Requests, Busy(r), NEW new,
         rq' = [rq EXCEPT ![r] = new], RequestOK(new), new # NoRequest,
         new.client = rq[r].client, new.op = rq[r].op, new.sole => rq[r].sole,
         new.at = "change" \/ new.answer # "ok" => Untouched(r) /\ new.snap = rq[r].snap
  PROVE  RequestsOK' /\ Apart' /\ Undoable'
<1>1. rq'[r] = new /\ rq[r] # NoRequest /\ RequestOK(rq[r]) /\ Undoes(r)
  BY BusyRecord DEF RequestsOK, Undoable
<1>2. ASSUME NEW c PROVE SameRows(c)
  BY DEF SameRows, catalogue
<1>3. Undoes(r)'
  BY <1>1, <1>2, UndoesCarried DEF Untouched
<1> QED BY <1>2, <1>3, RequestMoves

LEMMA CatalogueStays ==
  ASSUME CatalogueOK, UNCHANGED catalogue, domain' \in BOOLEAN PROVE CatalogueOK'
BY DEF CatalogueOK, Tables, catalogue

LEMMA ChangeKeeps ==
  ASSUME CatalogueOK, RequestsOK, Apart, Undoable, NEW r \in Requests, Change(r)
  PROVE  CatalogueOK' /\ RequestsOK' /\ Apart' /\ Undoable'
<1> DEFINE me == rq[r]
<1>1. Busy(r) /\ me.at = "change"
  BY DEF Change, Busy
<1>2. me \in BusyRequests /\ RequestOK(me) /\ me # NoRequest
  BY <1>1, BusyRecord
<1>3. Untouched(r)
  BY <1>1 DEF Untouched
<1>4. domain' \in BOOLEAN
  BY DEF Change, CatalogueOK, Tables
<1>5. CASE ~Possible(me.op, me.device)
  <2>1. UNCHANGED catalogue /\ rq' = [rq EXCEPT ![r] = NoRequest]
    BY <1>5 DEF Change
  <2>2. RequestOK(NoRequest)
    BY DEF RequestOK, RequestRecords, NoRequest, BusyRequests, Busies
  <2>3. rq'[r] = NoRequest
    BY <2>1 DEF RequestsOK
  <2>4. Undoes(r)'
    BY <2>3 DEF Undoes
  <2>5. \A c \in Clients : SameRows(c)
    BY <2>1 DEF SameRows, catalogue
  <2> QED BY <1>1, <1>4, <2>1, <2>2, <2>4, <2>5, RequestMoves, CatalogueStays
<1>6. CASE Possible(me.op, me.device) /\ WaitsForItself(me.op, me.device, me.access)
  <2>1. UNCHANGED catalogue /\ rq' = [rq EXCEPT ![r] = Done(me, "failed")]
    BY <1>6 DEF Change
  <2> QED BY <1>1, <1>2, <1>3, <1>4, <2>1, DoneOK, GoesOnKeeps, CatalogueStays
<1>7. CASE Possible(me.op, me.device) /\ ~WaitsForItself(me.op, me.device, me.access)
  <2> DEFINE new == [me EXCEPT !.at = "prepare"]
  <2>1. Write(me.op, me.device, me.access) /\ rq' = [rq EXCEPT ![r] = new] /\ UNCHANGED domain
    BY <1>7 DEF Change
  <2>2. /\ new \in BusyRequests /\ new.client = me.client /\ new.op = me.op
        /\ new.device = me.device /\ new.access = me.access /\ new.snap = me.snap
        /\ new.sole = me.sole /\ new.at = "prepare" /\ new.answer = me.answer
    BY <1>2 DEF BusyRequests, Busies
  <2>3. me.answer = "ok"
    BY <1>1, <1>2 DEF RequestOK
  <2> HIDE DEF new
  <2>4. RequestOK(new) /\ new # NoRequest
    BY <1>2, <2>2, <2>3, MovedOK
  <2>5. rq'[r] = new
    BY <2>1 DEF RequestsOK
  <2>6. Undoes(r)'
    BY <2>2, <2>3, <2>5 DEF Undoes, Untouched
  <2>7. CASE me.op = "apply"
    <3>1. UNCHANGED catalogue
      BY <2>1, <2>7 DEF Write
    <3>2. \A c \in Clients : SameRows(c)
      BY <3>1 DEF SameRows, catalogue
    <3> QED BY <1>1, <1>4, <2>1, <2>2, <2>4, <2>6, <3>1, <3>2, RequestMoves, CatalogueStays
  <2>8. CASE me.op # "apply"
    <3>1. Carries(me) /\ me.op \in Ops \ {"apply"} /\ me.access \in SUBSET Engines
      BY <1>2, <2>8 DEF RequestOK, BusyRequests
    <3>2. CatalogueOK' /\ \A b \in Clients \ {me.client} : SameRows(b)
      BY <1>7, <2>1, <3>1, WriteKeeps DEF Carries
    <3>3. me.client \in Clients
      BY <1>2, <2>8 DEF RequestOK
    <3> QED BY <1>1, <2>1, <2>2, <2>4, <2>6, <3>2, <3>3, RequestMoves
  <2> QED BY <2>7, <2>8
<1> QED BY <1>5, <1>6, <1>7

LEMMA PrepareKeeps ==
  ASSUME CatalogueOK, RequestsOK, Apart, Undoable, NEW r \in Requests, NEW w,
         Prepare(r) \/ Call(r, w)
  PROVE  CatalogueOK' /\ RequestsOK' /\ Apart' /\ Undoable'
<1> DEFINE me == rq[r]
<1>1. Busy(r) /\ me.at \in {"prepare", "call"}
  BY DEF Prepare, Call, Busy
<1>2. me \in BusyRequests /\ RequestOK(me) /\ me # NoRequest
  BY <1>1, BusyRecord
<1>3. UNCHANGED catalogue /\ domain' \in BOOLEAN
  BY DEF Prepare, Call, catalogue, database, CatalogueOK, Tables
<1>4. PICK new : /\ rq' = [rq EXCEPT ![r] = new]
                 /\ \E at \in {"call", "failed", "wait"}, boot \in BOOLEAN :
                      new = [me EXCEPT !.at = at, !.boot = boot]
  <2>1. CASE Prepare(r)
    <3>1. PICK needed \in BOOLEAN :
            \/ rq' = [rq EXCEPT ![r] = [me EXCEPT !.at = "call", !.boot = needed]]
            \/ rq' = [rq EXCEPT ![r] = [me EXCEPT !.at = "failed"]]
      <4>1. rq \in [Requests -> RequestRecords]
        BY DEF RequestsOK
      <4> QED BY <2>1, <4>1 DEF Prepare
    <3>2. [me EXCEPT !.at = "failed"] = [me EXCEPT !.at = "failed", !.boot = me.boot] /\ me.boot \in BOOLEAN
      BY <1>2 DEF BusyRequests
    <3> HIDE DEF me
    <3> QED BY <3>1, <3>2
  <2>2. CASE Call(r, w)
    <3>1. [me EXCEPT !.at = "wait"] = [me EXCEPT !.at = "wait", !.boot = me.boot] /\ me.boot \in BOOLEAN
      BY <1>2 DEF BusyRequests
    <3> QED BY <2>2, <3>1 DEF Call
  <2> QED BY <2>1, <2>2
<1>5. /\ new \in BusyRequests /\ new.client = me.client /\ new.op = me.op
      /\ new.device = me.device /\ new.access = me.access /\ new.snap = me.snap
      /\ new.sole = me.sole /\ new.at \notin {"change", "undo"} /\ new.answer = me.answer
  BY <1>2, <1>4 DEF BusyRequests, Busies
<1>6. RequestOK(new) /\ new # NoRequest
  BY <1>2, <1>5, MovedOK DEF RequestOK
<1>7. new.at = "change" \/ new.answer # "ok" => Untouched(r) /\ new.snap = rq[r].snap
  BY <1>5 DEF Untouched
<1> QED BY <1>1, <1>3, <1>4, <1>5, <1>6, <1>7, GoesOnKeeps, CatalogueStays

LEMMA FailKeeps ==
  ASSUME CatalogueOK, RequestsOK, Apart, Undoable, NEW r \in Requests, Fail(r)
  PROVE  CatalogueOK' /\ RequestsOK' /\ Apart' /\ Undoable'
<1> DEFINE me == rq[r]
           undo == me.answer = "ok" /\ me.op # "apply"
<1>1. Busy(r) /\ me.at = "failed"
  BY DEF Fail, Busy
<1>2. me \in BusyRequests /\ RequestOK(me) /\ me # NoRequest
  BY <1>1, BusyRecord
<1>3. UNCHANGED catalogue /\ domain' \in BOOLEAN
  BY <1>2 DEF Fail, CatalogueOK, Tables, BusyRequests
<1>4. CASE undo
  <2> DEFINE new == [me EXCEPT !.at = "undo", !.boot = FALSE]
  <2>1. rq' = [rq EXCEPT ![r] = new]
    BY <1>4 DEF Fail
  <2>2. /\ new \in BusyRequests /\ new.client = me.client /\ new.op = me.op
        /\ new.device = me.device /\ new.access = me.access /\ new.snap = me.snap
        /\ new.sole = me.sole /\ new.at = "undo" /\ new.answer = me.answer
    BY <1>2 DEF BusyRequests, Busies
  <2> HIDE DEF new
  <2>3. RequestOK(new) /\ new # NoRequest
    BY <1>2, <1>4, <2>2, MovedOK
  <2> QED BY <1>1, <1>3, <1>4, <2>1, <2>2, <2>3, GoesOnKeeps, CatalogueStays
<1>5. CASE ~undo
  <2> DEFINE new == Done(me, "failed")
  <2>1. rq' = [rq EXCEPT ![r] = new]
    BY <1>5 DEF Fail
  <2>2. /\ RequestOK(new) /\ new # NoRequest
        /\ new.client = me.client /\ new.op = me.op /\ new.sole = me.sole
        /\ new.at = "answered" /\ new.snap = me.snap
    BY <1>2, DoneOK
  <2> HIDE DEF new
  <2>3. rq'[r] = new /\ Undoes(r)
    BY <2>1 DEF RequestsOK, Undoable
  <2>4. \A c : SameRows(c)
    BY <1>3 DEF SameRows, catalogue
  <2>5. Undoes(r)'
    <3>1. CASE me.op = "apply"
      BY <2>2, <2>3, <3>1 DEF Undoes
    <3>2. CASE me.op # "apply"
      <4>1. Untouched(r)
        BY <1>5, <3>2 DEF Untouched
      <4> QED BY <1>2, <2>2, <2>3, <2>4, <4>1, UndoesCarried
    <3> QED BY <3>1, <3>2
  <2> QED BY <1>1, <1>3, <2>1, <2>2, <2>4, <2>5, RequestMoves, CatalogueStays
<1> QED BY <1>4, <1>5

LEMMA UndoKeeps ==
  ASSUME CatalogueOK, RequestsOK, Apart, Undoable, NEW r \in Requests, Undo(r)
  PROVE  CatalogueOK' /\ RequestsOK' /\ Apart' /\ Undoable'
<1> DEFINE me == rq[r]
           c == me.client
           new == [me EXCEPT !.at = "prepare", !.answer = "undone", !.passes = 1]
<1>1. Busy(r) /\ me.at = "undo"
  BY DEF Undo, Busy
<1>2. me \in BusyRequests /\ RequestOK(me) /\ me # NoRequest
  BY <1>1, BusyRecord
<1>3. me.op # "apply" /\ Carries(me) /\ c \in Clients
  BY <1>1, <1>2 DEF RequestOK
<1>4. rq' = [rq EXCEPT ![r] = new] /\ UNCHANGED domain
  BY DEF Undo
<1>5. /\ new \in BusyRequests /\ new.client = me.client /\ new.op = me.op
      /\ new.device = me.device /\ new.access = me.access /\ new.snap = me.snap
      /\ new.sole = me.sole /\ new.at = "prepare"
  BY <1>2 DEF BusyRequests, Busies
<1> HIDE DEF new
<1>6. RequestOK(new) /\ new # NoRequest
  BY <1>2, <1>3, <1>5, MovedOK
<1>7. rq'[r] = new
  BY <1>4 DEF RequestsOK
<1>8. /\ CatalogueOK' /\ \A b \in Clients \ {c} : SameRows(b)
      /\ client'[c] = me.snap.client
      /\ \A d \in DevicesOf(c) : device'[d] = me.snap.device[d] /\ status'[d] = me.snap.status[d]
  <2>1. CASE me.op = "create"
    <3>1. me.snap.client = "none"
          /\ \A d \in DevicesOf(c) : me.snap.device[d] = "none" /\ me.snap.status[d] = <<>>
      BY <1>3, <2>1 DEF Carries, Whole
    <3>2. DeleteClient(c)
      BY <2>1 DEF Undo
    <3> QED BY <1>3, <1>4, <3>1, <3>2, DeleteKeeps
  <2>2. CASE me.op # "create"
    <3>1. Restore(c, me.snap)
      BY <2>2 DEF Undo
    <3> QED BY <1>3, <1>4, <3>1, RestoreKeeps DEF Carries
  <2> QED BY <2>1, <2>2
<1>9. BackTo(r)'
  BY <1>5, <1>7, <1>8 DEF BackTo
<1> QED BY <1>1, <1>3, <1>4, <1>5, <1>6, <1>8, <1>9, RequestMoves DEF Undoes

LEMMA TimeOutKeeps ==
  ASSUME CatalogueOK, RequestsOK, Apart, Undoable, NEW r \in Requests, TimeOut(r)
  PROVE  CatalogueOK' /\ RequestsOK' /\ Apart' /\ Undoable'
<1> DEFINE me == rq[r]
           new == [me EXCEPT !.at = "failed", !.alone = FALSE]
<1>1. Busy(r) /\ me.at = "wait"
  BY DEF TimeOut, Busy
<1>2. me \in BusyRequests /\ RequestOK(me) /\ me # NoRequest
  BY <1>1, BusyRecord
<1>3. UNCHANGED catalogue /\ domain' \in BOOLEAN
  BY DEF TimeOut, database, catalogue, CatalogueOK, Tables
<1>4. rq' = [rq EXCEPT ![r] = new]
  BY DEF TimeOut, Answered
<1>5. /\ new \in BusyRequests /\ new.client = me.client /\ new.op = me.op
      /\ new.device = me.device /\ new.access = me.access /\ new.snap = me.snap
      /\ new.sole = me.sole /\ new.at = "failed" /\ new.answer = me.answer
  BY <1>2 DEF BusyRequests, Busies
<1> HIDE DEF new
<1>6. RequestOK(new) /\ new # NoRequest
  BY <1>2, <1>5, MovedOK DEF RequestOK
<1>7. new.at = "change" \/ new.answer # "ok" => Untouched(r) /\ new.snap = rq[r].snap
  BY <1>5 DEF Untouched
<1> QED BY <1>1, <1>3, <1>4, <1>5, <1>6, <1>7, GoesOnKeeps, CatalogueStays

LEMMA WorkerKeeps ==
  ASSUME CatalogueOK, RequestsOK, Apart, Undoable, ServedOnce, WorkersOK,
         NEW w \in Workers, WorkerStep(w)
  PROVE  CatalogueOK' /\ RequestsOK' /\ Apart' /\ Undoable'
<1>1. CatalogueOK' /\ \A c \in Clients : SameRows(c)
  BY WorkerReworded, RewordedKeeps
<1>2. rq \in [Requests -> RequestRecords]
  BY DEF RequestsOK
<1>3. CASE GoesOn(w)
  BY <1>1, <1>2, <1>3, AnswersKeep DEF GoesOn
<1>4. CASE Answers(w)
  <2>1. PICK good \in BOOLEAN : Tell(w, good)
    BY <1>4 DEF Answers
  <2>2. \A r \in wk[w].for : r \in Requests => rq[r].at = "wait"
    BY <1>4 DEF Answers, ServedOnce, Serving
  <2>3. \A r \in Requests :
          rq'[r] = rq[r] \/ (rq[r].at = "wait" /\ rq'[r] = Answered(rq[r], good))
    BY <2>1, <2>2 DEF Tell
  <2>4. rq' = [r \in Requests |-> rq'[r]]
    BY <2>1 DEF Tell
  <2> QED BY <1>1, <2>3, <2>4, AnswersKeep
<1> QED BY <1>1, <1>3, <1>4, WorkerAnswers

LEMMA HostdDiesKeeps ==
  ASSUME CatalogueOK, RequestsOK, Apart, Undoable, HostdDies
  PROVE  CatalogueOK' /\ RequestsOK' /\ Apart' /\ Undoable'
<1>1. UNCHANGED catalogue /\ domain' \in BOOLEAN
  BY DEF HostdDies, database, catalogue, CatalogueOK, Tables
<1>2. \A c \in Clients : SameRows(c)
  BY <1>1 DEF SameRows, catalogue
<1>3. rq' = [r \in Requests |-> rq'[r]]
      /\ \A r \in Requests : rq'[r] = rq[r] \/ (rq[r].at = "wait" /\ rq'[r] = Answered(rq[r], FALSE))
  BY DEF HostdDies
<1> QED BY <1>1, <1>2, <1>3, AnswersKeep, CatalogueStays

\* The snapshot a change begins with.
LEMMA SnapshotOK ==
  ASSUME CatalogueOK, NEW c \in Clients
  PROVE  LET s == Snapshot(c) IN
         /\ s \in SnapshotsOf(c) /\ Whole(c, s.client, s.device, s.status)
         /\ s.client = client[c]
         /\ \A d \in DevicesOf(c) : s.device[d] = device[d] /\ s.status[d] = status[d]
<1> DEFINE s == Snapshot(c)
<1>1. \A d \in DevicesOf(c) : d \in Devices
  BY DEF DevicesOf
<1>2. /\ s.client = client[c]
      /\ \A d \in DevicesOf(c) : s.device[d] = device[d] /\ s.status[d] = status[d]
  BY DEF Snapshot
<1>3. s \in SnapshotsOf(c)
  BY <1>1 DEF Snapshot, SnapshotsOf, CatalogueOK, Tables
<1>4. Primary[c] \in DevicesOf(c)
  BY CatalogueAssumption DEF DevicesOf
<1>5. Whole(c, s.client, s.device, s.status)
  BY <1>2, <1>4 DEF Whole, CatalogueOK
<1> HIDE DEF s
<1> QED BY <1>2, <1>3, <1>5 DEF s

\* What a request that begins does to the others.
LEMMA DisturbedOK ==
  ASSUME RequestsOK, NEW q \in Requests, NEW r, NEW c, rq[q] # NoRequest
  PROVE  LET new == Disturbed(r, c)[q] IN
         /\ RequestOK(new) /\ new # NoRequest
         /\ new.at = rq[q].at /\ new.client = rq[q].client /\ new.op = rq[q].op
         /\ new.sole => rq[q].sole /\ rq[q].client # c
         /\ new.answer = rq[q].answer /\ new.snap = rq[q].snap
<1> DEFINE me == rq[q]
           new == [me EXCEPT !.alone = FALSE, !.sole = @ /\ me.client # c]
<1>1. Disturbed(r, c)[q] = new
  BY DEF Disturbed
<1>2. RequestOK(me)
  BY DEF RequestsOK
<1>3. CASE me \in BusyRequests
  <2>1. /\ new \in BusyRequests /\ new.client = me.client /\ new.op = me.op
        /\ new.device = me.device /\ new.access = me.access /\ new.snap = me.snap
        /\ new.sole => me.sole /\ me.client # c
        /\ new.at = me.at /\ new.answer = me.answer
    BY <1>3 DEF BusyRequests
  <2> HIDE DEF new
  <2>2. RequestOK(new) /\ new # NoRequest
    BY <1>2, <1>3, <2>1, MovedOK DEF RequestOK
  <2> QED BY <1>1, <2>1, <2>2
<1>4. CASE me \in DoneRequests
  <2>1. /\ new \in DoneRequests /\ new.client = me.client /\ new.op = me.op /\ new.snap = me.snap
        /\ new.sole => me.sole /\ me.client # c
        /\ new.at = me.at /\ new.answer = me.answer
    BY <1>4 DEF DoneRequests
  <2> HIDE DEF new
  <2>2. new \in RequestRecords
    BY <2>1 DEF RequestRecords
  <2>3. new # NoRequest /\ new \notin BusyRequests
    BY <2>1, <2>2, Records DEF Busies
  <2>4. RequestOK(new)
    BY <1>2, <2>1, <2>2, <2>3 DEF RequestOK
  <2> QED BY <1>1, <2>1, <2>3, <2>4
<1> QED BY <1>2, <1>3, <1>4 DEF RequestOK, RequestRecords

LEMMA BeginKeeps ==
  ASSUME CatalogueOK, RequestsOK, Apart, Undoable,
         NEW r \in Requests, NEW op \in Ops, NEW d \in Devices, NEW menu \in Menus,
         BeginRequest(r, op, d, menu)
  PROVE  CatalogueOK' /\ RequestsOK' /\ Apart' /\ Undoable'
<1> DEFINE subject == Subject(op, d)
           old == Disturbed(r, subject)
           access == IF op \in FormOps THEN Access(menu) ELSE {}
           apart == \A q \in Requests \ {r} : Busy(q) => rq[q].client # subject
           lonely == (\A q \in Requests \ {r} : ~Busy(q)) /\ (\A w \in Workers : wk[w] = NoWorker)
           new == [at |-> "change", op |-> op, device |-> IF op = "apply" THEN None ELSE d,
                   client |-> subject, access |-> access,
                   snap |-> IF op = "apply" THEN <<>> ELSE Snapshot(Owner[d]),
                   passes |-> IF op = "create" THEN 2 ELSE 1, boot |-> FALSE, answer |-> "ok",
                   alone |-> lonely, sole |-> apart]
<1>1. rq' = [old EXCEPT ![r] = new] /\ UNCHANGED database
  BY DEF BeginRequest
<1>2. UNCHANGED catalogue /\ domain' \in BOOLEAN
  BY <1>1 DEF database, catalogue, CatalogueOK, Tables
<1>3. rq' \in [Requests -> {rq'[q] : q \in Requests}] /\ rq'[r] = new
      /\ \A q \in Requests \ {r} : rq'[q] = old[q]
  <2>1. old = [q \in Requests |-> old[q]]
    BY DEF Disturbed
  <2> HIDE DEF old, new
  <2>2. rq' = [q \in Requests |-> IF q = r THEN new ELSE old[q]]
    BY <1>1, <2>1
  <2> QED BY <2>2
<1>4. Owner[d] \in Clients
  BY CatalogueAssumption
<1>5. access \in SUBSET Engines /\ (op \in FormOps => access # {})
  <2>1. menu \subseteq Engines
    BY CatalogueAssumption
  <2> QED BY <2>1 DEF BeginRequest, Acceptable, Access, Engines
<1>6. new \in BusyRequests
  <2>1. (IF op = "apply" THEN <<>> ELSE Snapshot(Owner[d])) \in Snapshots
    BY <1>4, SnapshotOK DEF Snapshots
  <2>2. subject \in Clients \cup {None}
    BY <1>4 DEF Subject
  <2>3. apart \in BOOLEAN /\ lonely \in BOOLEAN
    OBVIOUS
  <2> HIDE DEF apart, lonely, access, subject
  <2> QED BY <1>5, <2>1, <2>2, <2>3 DEF BusyRequests, Busies
<1>7. /\ new.at = "change" /\ new.op = op /\ new.client = subject /\ new.answer = "ok"
      /\ new.sole = apart
  OBVIOUS
<1>8. op # "apply" => Carries(new) /\ subject \in Clients
  <2> SUFFICES ASSUME op # "apply" PROVE Carries(new) /\ subject \in Clients
    OBVIOUS
  <2>1. new.device = d /\ new.client = Owner[d] /\ new.access = access /\ new.snap = Snapshot(Owner[d])
    BY DEF Subject
  <2>2. op \in ClientOps => d = Primary[Owner[d]]
    BY DEF BeginRequest
  <2>3. op = "create" => Snapshot(Owner[d]).client = "none"
    BY <1>4, SnapshotOK DEF BeginRequest, Possible
  <2> HIDE DEF new, access
  <2> QED BY <1>4, <1>5, <1>7, <2>1, <2>2, <2>3, SnapshotOK DEF Carries, Subject
<1>9. new # NoRequest /\ new \in RequestRecords
  BY <1>6, Records DEF RequestRecords
<1>10. op # "apply" => new.snap = Snapshot(Owner[d])
  OBVIOUS
<1> HIDE DEF new, access, old, apart, lonely
<1>11. RequestOK(new)
  BY <1>6, <1>7, <1>8, <1>9 DEF RequestOK
<1>12. ASSUME NEW c \in Clients PROVE SameRows(c)
  BY <1>2 DEF SameRows, catalogue
<1>13. ASSUME NEW q \in Requests \ {r}
       PROVE  RequestOK(rq'[q]) /\ Stays(q) /\ Undoes(q)'
              /\ (rq'[q] # NoRequest /\ rq'[q].sole => rq[q].client # subject)
  <2>1. CASE rq[q] = NoRequest
    <3>1. rq'[q] = NoRequest /\ RequestOK(rq[q])
      BY <1>3, <2>1 DEF old, Disturbed, RequestsOK
    <3> QED BY <2>1, <3>1 DEF Stays, Undoes
  <2>2. CASE rq[q] # NoRequest
    <3>1. /\ RequestOK(rq'[q]) /\ rq'[q] # NoRequest
          /\ rq'[q].at = rq[q].at /\ rq'[q].client = rq[q].client /\ rq'[q].op = rq[q].op
          /\ rq'[q].sole => rq[q].sole /\ rq[q].client # subject
          /\ rq'[q].answer = rq[q].answer /\ rq'[q].snap = rq[q].snap
      BY <1>3, <2>2, DisturbedOK DEF old
    <3>2. Undoes(q) /\ RequestOK(rq[q])
      BY DEF Undoable, RequestsOK
    <3>3. rq[q].op # "apply" => SameRows(rq[q].client)
      BY <1>12, <2>2, <3>2 DEF RequestOK
    <3>4. Undoes(q)'
      BY <2>2, <3>1, <3>2, <3>3, UndoesCarried DEF Untouched
    <3>5. Stays(q)
      BY <2>2, <3>1 DEF Stays, Busy
    <3> QED BY <3>1, <3>4, <3>5
  <2> QED BY <2>1, <2>2
<1>14. Undoes(r)'
  <2> SUFFICES ASSUME op # "apply" PROVE BackTo(r)'
    BY <1>3, <1>7 DEF Undoes
  <2>1. rq'[r].client = Owner[d] /\ rq'[r].snap = Snapshot(Owner[d])
    BY <1>3, <1>7, <1>10 DEF Subject
  <2> QED BY <1>2, <1>4, <2>1, SnapshotOK DEF BackTo, catalogue
<1>15. RequestsOK'
  BY <1>3, <1>11, <1>13 DEF RequestsOK, RequestOK
<1>16. Undoable'
  BY <1>13, <1>14 DEF Undoable
<1>17. Apart'
  <2> SUFFICES ASSUME NEW x \in Requests, NEW y \in Requests, x # y,
                      rq'[x] # NoRequest, rq'[x].sole, Busy(y)'
               PROVE  rq'[y].client # rq'[x].client
    BY DEF Apart
  <2>1. CASE x = r
    <3>1. Busy(y) /\ rq'[y].client = rq[y].client
      BY <1>13, <2>1 DEF Stays, Busy, NoRequest
    <3> QED BY <1>3, <1>7, <2>1, <3>1 DEF apart
  <2>2. CASE y = r
    <3>1. rq'[x].client = rq[x].client /\ rq[x].client # subject
      BY <1>13, <2>2 DEF Stays
    <3> QED BY <1>3, <1>7, <2>2, <3>1
  <2>3. CASE x # r /\ y # r
    <3>1. rq'[y] # NoRequest
      BY DEF Busy, NoRequest
    <3> QED BY <1>13, <2>3, <3>1 DEF Stays, Apart
  <2> QED BY <2>1, <2>2, <2>3
<1> QED BY <1>2, <1>15, <1>16, <1>17, CatalogueStays

-----------------------------------------------------------------------------
\* Which worker answers which request.

LEMMA ServedFrame ==
  ASSUME ServedOnce, UNCHANGED wk,
         \A q \in Requests : rq'[q].at = "wait" <=> rq[q].at = "wait"
  PROVE  ServedOnce'
BY DEF ServedOnce, Serving

LEMMA ServedPanel ==
  ASSUME ServedOnce, RequestsOK, NEW r \in Requests,
         \/ \E op \in Ops, d \in Devices, menu \in Menus : BeginRequest(r, op, d, menu)
         \/ Change(r) \/ Prepare(r) \/ Fail(r) \/ Undo(r)
  PROVE  ServedOnce'
<1>0. rq \in [Requests -> RequestRecords] /\ rq[r] \in RequestRecords
  BY DEF RequestsOK
<1>1. ASSUME NEW op \in Ops, NEW d \in Devices, NEW menu \in Menus, BeginRequest(r, op, d, menu)
      PROVE  ServedOnce'
  <2>1. UNCHANGED wk /\ rq[r].at # "wait"
    BY <1>1 DEF BeginRequest, Busy
  <2> DEFINE c == Subject(op, d)
             old == Disturbed(r, c)
  <2>2. rq'[r].at = "change" /\ \A q \in Requests \ {r} : rq'[q] = old[q]
    BY <1>1 DEF BeginRequest, Disturbed
  <2>3. ASSUME NEW q \in Requests PROVE old[q].at = rq[q].at
    <3>1. CASE rq[q] = NoRequest
      BY <3>1 DEF Disturbed
    <3>2. CASE rq[q] # NoRequest
      BY <3>2, DisturbedOK
    <3> QED BY <3>1, <3>2
  <2> HIDE DEF old
  <2>4. \A q \in Requests : rq'[q].at = "wait" <=> rq[q].at = "wait"
    BY <2>1, <2>2, <2>3
  <2> QED BY <2>1, <2>4, ServedFrame
<1>2. ASSUME Change(r) \/ Prepare(r) \/ Fail(r) \/ Undo(r) PROVE ServedOnce'
  <2>1. UNCHANGED wk /\ rq[r].at # "wait" /\ Busy(r)
    BY <1>2 DEF Change, Prepare, Fail, Undo, Busy
  <2>2. rq[r] \in BusyRequests
    BY <2>1, BusyRecord
  <2>3. \A q \in Requests \ {r} : rq'[q] = rq[q]
    BY <1>0, <1>2 DEF Change, Prepare, Fail, Undo
  <2>4. rq'[r].at # "wait"
    <3>1. CASE Change(r)
      BY <1>0, <2>2, <3>1 DEF Change, Done, NoRequest, BusyRequests
    <3>2. CASE Prepare(r)
      BY <1>0, <2>2, <3>2 DEF Prepare, BusyRequests
    <3>3. CASE Fail(r)
      BY <1>0, <2>2, <3>3 DEF Fail, Done, BusyRequests
    <3>4. CASE Undo(r)
      BY <1>0, <2>2, <3>4 DEF Undo, BusyRequests
    <3> QED BY <1>2, <3>1, <3>2, <3>3, <3>4
  <2> QED BY <2>1, <2>3, <2>4, ServedFrame
<1> QED BY <1>1, <1>2

LEMMA ServedCall ==
  ASSUME ServedOnce, RequestsOK, wk \in [Workers -> WorkerRecords], NEW r \in Requests, NEW w \in Workers,
         Call(r, w)
  PROVE  ServedOnce'
<1>1. wk'[w] = [at |-> "lock", for |-> {r}] /\ wk[w] = NoWorker /\ rq[r].at = "call"
      /\ \A v \in Workers \ {w} : wk'[v] = wk[v]
  BY DEF Call
<1>2. wk'[w] # NoWorker /\ wk'[w].for = {r}
  BY <1>1 DEF NoWorker
<1>3. rq[r] \in BusyRequests
  BY <1>1, BusyRecord DEF Busy
<1>4. rq'[r].at = "wait" /\ \A q \in Requests \ {r} : rq'[q] = rq[q]
  BY <1>3 DEF Call, RequestsOK, BusyRequests
<1>5. \A q \in Requests : Serving(w, q)' <=> q = r
  BY <1>2 DEF Serving
<1>6. \A v \in Workers \ {w}, q \in Requests : Serving(v, q)' <=> Serving(v, q)
  BY <1>1 DEF Serving
<1>7. \A v \in Workers : ~Serving(v, r)
  BY <1>1 DEF ServedOnce
<1>8. \A q \in Requests : ~Serving(w, q)
  BY <1>1 DEF Serving
<1> QED BY <1>4, <1>5, <1>6, <1>7, <1>8 DEF ServedOnce

LEMMA ServedTimeOut ==
  ASSUME ServedOnce, RequestsOK, WorkersOK, NEW r \in Requests, TimeOut(r)
  PROVE  ServedOnce'
<1>1. rq[r].at = "wait" /\ rq[r] \in BusyRequests
  BY BusyRecord DEF TimeOut, Busy
<1>2. rq'[r].at = "failed" /\ \A q \in Requests \ {r} : rq'[q] = rq[q]
  BY <1>1 DEF TimeOut, Answered, RequestsOK, BusyRequests
<1>3. ASSUME NEW v \in Workers, NEW q \in Requests
      PROVE  Serving(v, q)' <=> Serving(v, q) /\ q # r
  <2>1. CASE wk[v] = NoWorker
    BY <2>1 DEF TimeOut, Serving
  <2>2. CASE wk[v] # NoWorker
    <3>1. wk'[v] = [wk[v] EXCEPT !.for = @ \ {r}]
      BY <2>2 DEF TimeOut
    <3>2. wk[v] \in WorkerRecords
      BY DEF WorkersOK
    <3>3. wk'[v].at # "idle" /\ wk'[v].for = wk[v].for \ {r}
      BY <2>2, <3>1, <3>2 DEF WorkerRecords, NoWorker, AtLock, AtBegin, AtEngine, AtAgain,
                              AtInstallAgain, AtNaive
    <3> QED BY <2>2, <3>3, FieldsDiffer DEF Serving
  <2> QED BY <2>1, <2>2
<1> QED BY <1>2, <1>3 DEF ServedOnce

LEMMA ServedWorker ==
  ASSUME ServedOnce, RequestsOK, WorkersOK, NEW w \in Workers, WorkerStep(w)
  PROVE  ServedOnce'
<1>1. CASE GoesOn(w)
  <2>1. \A v \in Workers, q \in Requests : Serving(v, q)' <=> Serving(v, q)
    BY <1>1 DEF GoesOn, Serving
  <2> QED BY <1>1, <2>1 DEF GoesOn, ServedOnce
<1>2. CASE Answers(w)
  <2>1. PICK good \in BOOLEAN : Tell(w, good)
    BY <1>2 DEF Answers
  <2>2. \A v \in Workers, q \in Requests : Serving(v, q)' <=> Serving(v, q) /\ v # w
    BY <1>2 DEF Answers, Serving, WorkersOK
  <2>3. ASSUME NEW q \in Requests
        PROVE  rq'[q].at = "wait" <=> rq[q].at = "wait" /\ ~Serving(w, q)
    <3>1. CASE Serving(w, q)
      <4>1. rq[q].at = "wait" /\ rq'[q] = Answered(rq[q], good)
        BY <2>1, <3>1 DEF Tell, Serving, ServedOnce
      <4>2. rq[q] \in BusyRequests /\ RequestOK(rq[q])
        BY <4>1, BusyRecord DEF Busy
      <4> QED BY <3>1, <4>1, <4>2, AnsweredOK
    <3>2. CASE ~Serving(w, q)
      BY <1>2, <2>1, <3>2 DEF Tell, Serving, Answers
    <3> QED BY <3>1, <3>2
  <2> QED BY <2>2, <2>3 DEF ServedOnce
<1> QED BY <1>1, <1>2, WorkerAnswers

LEMMA ServedHostdDies ==
  ASSUME ServedOnce, RequestsOK, HostdDies
  PROVE  ServedOnce'
<1>1. \A v \in Workers, q \in Requests : ~Serving(v, q)'
  BY DEF HostdDies, Serving
<1>2. ASSUME NEW q \in Requests PROVE rq'[q].at # "wait"
  <2>1. CASE rq[q].at = "wait"
    <3>1. rq[q] \in BusyRequests /\ RequestOK(rq[q])
      BY <2>1, BusyRecord DEF Busy
    <3>2. rq'[q] = Answered(rq[q], FALSE)
      BY <2>1 DEF HostdDies
    <3> QED BY <2>1, <3>1, <3>2, AnsweredOK
  <2>2. CASE rq[q].at # "wait"
    BY <2>2 DEF HostdDies
  <2> QED BY <2>1, <2>2
<1> QED BY <1>1, <1>2 DEF ServedOnce

-----------------------------------------------------------------------------
\* The workers, the lock and the runtime.

LEMMA LockedFacts == Len(Locked) = 5 /\ \A i \in 1..5 : Locked[i] \in Engines \ {"naive"}
BY DEF Locked, Engines

LEMMA WorkerTypes ==
  ASSUME NEW me \in WorkerRecords
  PROVE  /\ me.at = "idle" => me = NoWorker
         /\ me.at = "lock" => me \in AtLock
         /\ me.at = "begin" => me \in AtBegin
         /\ me.at \in {"read", "install", "restart", "failed", "settle"} => me \in AtEngine
         /\ me.at \in {"again", "restartAgain", "naive"} => me \in AtAgain
         /\ me.at = "installAgain" => me \in AtInstallAgain
         /\ me.at = "naiveInstall" => me \in AtNaive
BY DEF WorkerRecords, NoWorker, AtLock, AtBegin, AtEngine, AtAgain, AtInstallAgain, AtNaive

Held(me) == me.at \in {"begin", "read", "install", "restart", "failed", "settle"}

\* A worker moves, and the lock with it.
LEMMA WorkerMoves ==
  ASSUME WorkersOK, NEW w \in Workers, NEW new \in WorkerRecords, wk' = [wk EXCEPT ![w] = new],
         Placed(new),
         \/ lock' = lock /\ (Held(new) <=> Holds(w))
         \/ lock' = "free" /\ Holds(w) /\ ~Held(new)
         \/ lock = "free" /\ lock' = w /\ Held(new)
  PROVE  WorkersOK'
<1>1. wk' \in [Workers -> WorkerRecords] /\ wk'[w] = new /\ \A v \in Workers \ {w} : wk'[v] = wk[v]
  BY DEF WorkersOK
<1>2. \A v \in Workers : Placed(wk'[v])
  BY <1>1 DEF WorkersOK
<1>3. Holds(w)' <=> Held(new)
  BY <1>1 DEF Holds, Held
<1>4. \A v \in Workers \ {w} : Holds(v)' <=> Holds(v)
  BY <1>1 DEF Holds
<1>5. "free" \notin Workers
  BY CatalogueAssumption
<1>6. lock' \in Workers \cup {"free"}
  BY DEF WorkersOK
<1>7. \A v \in Workers : lock' = v <=> Holds(v)'
  BY <1>3, <1>4, <1>5 DEF WorkersOK
<1> QED BY <1>1, <1>2, <1>6, <1>7 DEF WorkersOK

LEMMA ResultKeeps ==
  ASSUME WorkersOK, NEW w \in Workers, NEW good, Result(w, good), Holds(w)
  PROVE  WorkersOK'
<1> DEFINE me == wk[w]
           ok == me.ok /\ (good \/ Engine(w) \notin Critical)
           next == [at |-> "begin", for |-> me.for, i |-> me.i + 1, ok |-> ok]
           over == [at |-> "again", for |-> me.for, ok |-> ok]
<1>1. me.for \in SUBSET Requests /\ me.i \in 1..5 /\ ok \in BOOLEAN
  <2>1. me \in AtBegin \cup AtEngine
    BY WorkerTypes DEF WorkersOK, Holds
  <2> QED BY <2>1 DEF AtBegin, AtEngine
<1> HIDE DEF ok
<1>2. CASE me.i < Len(Locked)
  <2>1. wk' = [wk EXCEPT ![w] = next] /\ UNCHANGED lock
    BY <1>2 DEF Result, ok
  <2>2. me.i + 1 \in 1..5
    BY <1>1, <1>2, LockedFacts
  <2>3. next \in AtBegin
    BY <1>1, <2>2 DEF AtBegin
  <2>4. next \in WorkerRecords /\ Held(next) /\ Placed(next)
    BY <2>3 DEF WorkerRecords, Held, Placed
  <2> HIDE DEF next
  <2> QED BY <2>1, <2>4, WorkerMoves
<1>3. CASE ~(me.i < Len(Locked))
  <2>1. wk' = [wk EXCEPT ![w] = over] /\ lock' = "free"
    BY <1>3 DEF Result, ok
  <2>2. over \in AtAgain
    BY <1>1 DEF AtAgain
  <2>3. over \in WorkerRecords /\ ~Held(over) /\ Placed(over)
    BY <2>2 DEF WorkerRecords, Held, Placed
  <2> HIDE DEF over
  <2> QED BY <2>1, <2>3, WorkerMoves
<1> QED BY <1>2, <1>3

LEMMA FreeKeeps ==
  ASSUME WorkersOK, NEW w \in Workers, wk' = [wk EXCEPT ![w] = NoWorker], ~Holds(w), UNCHANGED lock
  PROVE  WorkersOK'
<1>1. NoWorker \in WorkerRecords /\ ~Held(NoWorker) /\ Placed(NoWorker)
  BY DEF WorkerRecords, Held, NoWorker, Placed
<1> QED BY <1>1, WorkerMoves

\* A worker stays at its engine.
LEMMA EngineKeeps ==
  ASSUME WorkersOK, NEW w \in Workers, wk[w] \in AtEngine,
         NEW s \in {"read", "install", "restart", "failed", "settle"},
         s = "failed" => Engine(w) \in Sources,
         wk' = [wk EXCEPT ![w] = [@ EXCEPT !.at = s]], UNCHANGED lock
  PROVE  WorkersOK'
<1> DEFINE new == [wk[w] EXCEPT !.at = s]
<1>1. new \in AtEngine /\ new.at = s /\ new.i = wk[w].i
  BY DEF AtEngine
<1>2. wk' = [wk EXCEPT ![w] = new]
  OBVIOUS
<1>3. Holds(w)
  BY DEF Holds, AtEngine
<1> HIDE DEF new
<1>4. new \in WorkerRecords /\ Held(new)
  BY <1>1 DEF WorkerRecords, Held
<1>5. Placed(wk[w]) /\ wk[w].at \in {"read", "install", "restart", "failed", "settle"}
  BY DEF WorkersOK, AtEngine
<1>6. Placed(new)
  BY <1>1, <1>5 DEF Placed, Engine
<1> QED BY <1>2, <1>3, <1>4, <1>6, WorkerMoves

LEMMA BodyType ==
  ASSUME NEW e PROVE Rows(e) \subseteq Devices /\ Body(e) \in Bodies
BY DEF Rows, Body, Bodies

LEMMA WorkersWorker ==
  ASSUME WorkersOK, RuntimeOK, NEW w \in Workers, WorkerStep(w)
  PROVE  WorkersOK'
<1> DEFINE me == wk[w]
<1>1. me \in WorkerRecords
  BY DEF WorkersOK
<1>2. ASSUME TakeLock(w) PROVE WorkersOK'
  <2> DEFINE new == [at |-> "begin", for |-> me.for, i |-> 1, ok |-> TRUE]
  <2>1. wk' = [wk EXCEPT ![w] = new] /\ lock = "free" /\ lock' = w
    BY <1>2 DEF TakeLock
  <2>2. me \in AtLock
    BY <1>1, <1>2, WorkerTypes DEF TakeLock
  <2>3. new \in AtBegin
    BY <2>2 DEF AtLock, AtBegin
  <2>4. new \in WorkerRecords /\ Held(new) /\ Placed(new)
    BY <2>3 DEF WorkerRecords, Held, Placed
  <2> HIDE DEF new
  <2> QED BY <2>1, <2>4, WorkerMoves
<1>3. ASSUME StopIdle(w) \/ IdleMihomo(w) \/ Subscriptions(w) \/ RestartEngine(w) \/ Settle(w)
      PROVE  WorkersOK'
  <2>1. Holds(w) /\ \E good : Result(w, good)
    BY <1>3 DEF StopIdle, IdleMihomo, Subscriptions, RestartEngine, Settle, Holds
  <2> QED BY <2>1, ResultKeeps
<1>4. ASSUME BeginEngine(w) PROVE WorkersOK'
  <2> DEFINE e == Engine(w)
             at == IF e \in {"awg31", "mihomo"} THEN "read" ELSE "install"
             body == IF e \in {"awg31", "mihomo"} THEN {} ELSE Body(e)
             was == {d \in Rows(e) : status[d][e] = "applied"}
             new == [at |-> at, for |-> me.for, i |-> me.i, ok |-> me.ok,
                     rows |-> Rows(e), body |-> body, applied |-> was]
  <2>1. wk' = [wk EXCEPT ![w] = new] /\ UNCHANGED lock /\ Holds(w)
    BY <1>4 DEF BeginEngine, Holds
  <2>2. me \in AtBegin
    BY <1>1, <1>4, WorkerTypes DEF BeginEngine
  <2>3. body \in Bodies /\ Rows(e) \subseteq Devices /\ was \subseteq Devices
    BY BodyType DEF Bodies
  <2>4. at \in {"read", "install"} /\ Locked[me.i] # "sgclient"
    BY <1>4 DEF BeginEngine, Engine
  <2> HIDE DEF body, was, e, at
  <2>5. new \in AtEngine
    BY <2>2, <2>3, <2>4 DEF AtBegin, AtEngine
  <2>6. new \in WorkerRecords /\ Held(new) /\ Placed(new)
    BY <2>4, <2>5 DEF WorkerRecords, Held, Placed
  <2> HIDE DEF new
  <2> QED BY <2>1, <2>6, WorkerMoves
<1>5. ASSUME ReadRows(w) PROVE WorkersOK'
  <2> DEFINE body == Body(Engine(w))
             new == [me EXCEPT !.at = "install", !.body = body]
  <2>1. wk' = [wk EXCEPT ![w] = new] /\ UNCHANGED lock /\ Holds(w)
    BY <1>5 DEF ReadRows, Holds, WorkersOK
  <2>2. me \in AtEngine
    BY <1>1, <1>5, WorkerTypes DEF ReadRows
  <2>3. body \in Bodies
    BY BodyType
  <2> HIDE DEF body
  <2>4. new \in AtEngine /\ new.at = "install" /\ new.i = me.i
    BY <2>2, <2>3 DEF AtEngine
  <2>5. new \in WorkerRecords /\ Held(new) /\ Placed(new)
    BY <1>5, <2>4 DEF WorkerRecords, Held, Placed, WorkersOK, ReadRows
  <2> HIDE DEF new
  <2> QED BY <2>1, <2>5, WorkerMoves
<1>6. ASSUME Install(w) \/ NotInstalled(w) \/ RestartFails(w) \/ RestoreConfig(w) PROVE WorkersOK'
  <2>1. me \in AtEngine /\ UNCHANGED lock
    BY <1>1, <1>6, WorkerTypes DEF Install, NotInstalled, RestartFails, RestoreConfig
  <2>2. Engine(w) \in Engines \ {"naive"}
    BY <2>1, LockedFacts DEF AtEngine, Engine
  <2>3. \E s \in {"read", "install", "restart", "failed", "settle"} :
          /\ s = "failed" => Engine(w) \in Sources
          /\ wk' = [wk EXCEPT ![w] = [@ EXCEPT !.at = s]]
    <3>1. CASE Install(w)
      BY <3>1 DEF Install
    <3>2. CASE NotInstalled(w)
      BY <3>2 DEF NotInstalled, Sources
    <3>3. CASE RestartFails(w)
      <4> DEFINE s == IF Engine(w) = "awg31" THEN "settle" ELSE "failed"
      <4>1. wk' = [wk EXCEPT ![w] = [@ EXCEPT !.at = s]]
        BY <3>3 DEF RestartFails
      <4>2. s = "failed" => Engine(w) \in Sources
        BY <2>2, <3>3 DEF RestartFails, WorkersOK, Placed, Engine, Engines, Sources
      <4> QED BY <4>1, <4>2
    <3>4. CASE RestoreConfig(w)
      BY <3>4 DEF RestoreConfig
    <3> QED BY <1>6, <3>1, <3>2, <3>3, <3>4
  <2> QED BY <2>1, <2>3, EngineKeeps
<1>7. ASSUME ReadAgain(w) \/ InstallAgain(w) PROVE WorkersOK'
  <2> DEFINE body == Body("awg31")
             read == [at |-> "installAgain", for |-> me.for, ok |-> me.ok, body |-> body]
             installed == [at |-> "restartAgain", for |-> me.for, ok |-> me.ok]
  <2>1. body \in Bodies
    BY BodyType
  <2>2. me \in AtAgain \cup AtInstallAgain /\ ~Holds(w) /\ UNCHANGED lock
    BY <1>1, <1>7, WorkerTypes DEF ReadAgain, InstallAgain, Holds
  <2>3. wk' = [wk EXCEPT ![w] = read] \/ wk' = [wk EXCEPT ![w] = installed]
    BY <1>7 DEF ReadAgain, InstallAgain
  <2> HIDE DEF body
  <2>4. read \in AtInstallAgain /\ installed \in AtAgain
    BY <2>1, <2>2 DEF AtAgain, AtInstallAgain
  <2>5. \A new \in {read, installed} : new \in WorkerRecords /\ ~Held(new) /\ Placed(new)
    BY <2>4 DEF WorkerRecords, Held, Placed
  <2> HIDE DEF read, installed
  <2> QED BY <2>2, <2>3, <2>5, WorkerMoves
<1>8. ASSUME NoLock(w) \/ FailAgain(w) \/ SkipNaive(w) \/ NaiveRefused(w) \/ SyncNaive(w) \/ NaiveUndone(w)
      PROVE  WorkersOK'
  <2>1. ~Holds(w) /\ UNCHANGED lock /\ wk' = [wk EXCEPT ![w] = NoWorker]
    BY <1>8 DEF NoLock, FailAgain, SkipNaive, NaiveRefused, SyncNaive, NaiveUndone, Holds
  <2> QED BY <2>1, FreeKeeps
<1>9. ASSUME RestartAgain(w) PROVE WorkersOK'
  <2> DEFINE new == [me EXCEPT !.at = "naive"]
  <2>1. ~Holds(w) /\ UNCHANGED lock /\ me \in AtAgain
    BY <1>1, <1>9, WorkerTypes DEF RestartAgain, Holds
  <2>2. wk' = [wk EXCEPT ![w] = new] \/ wk' = [wk EXCEPT ![w] = NoWorker]
    BY <1>9 DEF RestartAgain
  <2>3. new \in AtAgain /\ new.at = "naive"
    BY <2>1 DEF AtAgain
  <2>4. new \in WorkerRecords /\ ~Held(new) /\ Placed(new)
    BY <2>3 DEF WorkerRecords, Held, Placed
  <2> HIDE DEF new
  <2> QED BY <2>1, <2>2, <2>4, WorkerMoves, FreeKeeps
<1>10. ASSUME LoadNaive(w) PROVE WorkersOK'
  <2> DEFINE new == [at |-> "naiveInstall", for |-> me.for, rows |-> Rows("naive"),
                     ids |-> Assigned("naive")]
  <2>1. ~Holds(w) /\ UNCHANGED lock /\ me \in AtAgain /\ wk' = [wk EXCEPT ![w] = new]
    BY <1>1, <1>10, WorkerTypes DEF LoadNaive, Holds
  <2>2. new \in AtNaive
    BY <2>1 DEF AtAgain, AtNaive, Rows, Assigned
  <2>3. new \in WorkerRecords /\ ~Held(new) /\ Placed(new)
    BY <2>2 DEF WorkerRecords, Held, Placed
  <2> HIDE DEF new
  <2> QED BY <2>1, <2>3, WorkerMoves
<1> QED BY <1>2, <1>3, <1>4, <1>5, <1>6, <1>7, <1>8, <1>9, <1>10 DEF WorkerStep

LEMMA WorkersCall ==
  ASSUME WorkersOK, NEW r \in Requests, NEW w \in Workers, Call(r, w)
  PROVE  WorkersOK'
<1> DEFINE new == [at |-> "lock", for |-> {r}]
<1>1. wk' = [wk EXCEPT ![w] = new] /\ UNCHANGED lock /\ ~Holds(w)
  BY DEF Call, Holds, NoWorker
<1>2. new \in AtLock
  BY DEF AtLock
<1>3. new \in WorkerRecords /\ ~Held(new) /\ Placed(new)
  BY <1>2 DEF WorkerRecords, Held, Placed
<1> HIDE DEF new
<1> QED BY <1>1, <1>3, WorkerMoves

LEMMA WorkersTimeOut ==
  ASSUME WorkersOK, NEW r \in Requests, TimeOut(r)
  PROVE  WorkersOK'
<1>1. ASSUME NEW v \in Workers
      PROVE  /\ wk'[v] \in WorkerRecords /\ wk'[v].at = wk[v].at
             /\ wk[v] \in AtEngine => wk'[v].i = wk[v].i
  <2>0. wk[v] \in WorkerRecords
    BY DEF WorkersOK
  <2>1. CASE wk[v] = NoWorker
    BY <2>0, <2>1 DEF TimeOut, NoWorker
  <2>2. CASE wk[v] # NoWorker
    <3>1. wk'[v] = [wk[v] EXCEPT !.for = @ \ {r}]
      BY <2>2 DEF TimeOut
    <3> QED BY <2>0, <2>2, <3>1 DEF WorkerRecords, NoWorker, AtLock, AtBegin, AtEngine, AtAgain,
                                 AtInstallAgain, AtNaive
  <2> QED BY <2>1, <2>2
<1>2. wk' \in [Workers -> WorkerRecords]
  <2>1. wk' = [v \in Workers |-> wk'[v]]
    BY DEF TimeOut
  <2> QED BY <1>1, <2>1
<1>3. UNCHANGED lock /\ \A v \in Workers : Holds(v)' <=> Holds(v)
  BY <1>1 DEF TimeOut, Holds
<1>4. \A v \in Workers : Placed(wk'[v])
  BY <1>1, WorkerTypes DEF Placed, WorkersOK
<1> QED BY <1>2, <1>3, <1>4 DEF WorkersOK

LEMMA WorkersHostdDies ==
  ASSUME WorkersOK, HostdDies
  PROVE  WorkersOK'
BY CatalogueAssumption DEF WorkersOK, HostdDies, Holds, NoWorker, WorkerRecords, Placed

LEMMA WorkersFrame ==
  ASSUME WorkersOK, UNCHANGED <<wk, lock>>
  PROVE  WorkersOK'
BY DEF WorkersOK, Holds, Placed

\* The files and the services.
LEMMA RuntimeWorker ==
  ASSUME WorkersOK, RuntimeOK, NEW w \in Workers, WorkerStep(w)
  PROVE  RuntimeOK'
<1> DEFINE me == wk[w]
           e == Engine(w)
<1>0. me \in WorkerRecords /\ None \in Bodies /\ {} \in Bodies
  BY DEF WorkersOK, Bodies
<1>1. ASSUME UNCHANGED runtime PROVE RuntimeOK'
  BY <1>1 DEF RuntimeOK, runtime
<1>2. ASSUME StopIdle(w) \/ IdleMihomo(w) PROVE RuntimeOK'
  <2>1. live' \in [Services -> Bodies]
    BY <1>0, <1>2 DEF StopIdle, IdleMihomo, RuntimeOK
  <2>2. running' \in [Services -> Bodies]
    BY <1>0, <1>2 DEF StopIdle, IdleMihomo, RuntimeOK
  <2> QED BY <1>2, <2>1, <2>2 DEF StopIdle, IdleMihomo, RuntimeOK
<1>3. ASSUME Install(w) PROVE RuntimeOK'
  <2>1. me \in AtEngine
    BY <1>0, <1>3, WorkerTypes DEF Install
  <2>2. live' = [live EXCEPT ![e] = me.body] /\ me.body \in Bodies
    BY <1>3, <2>1 DEF Install, AtEngine
  <2>3. live' \in [Services -> Bodies]
    BY <2>2 DEF RuntimeOK
  <2>4. \A x \in Sources : backup[x] \in Bodies /\ live[x] \in Bodies
    BY DEF RuntimeOK, Services, Engines, Sources
  <2>5. backup' \in [Sources -> Bodies]
    BY <1>3, <2>4 DEF Install
  <2> QED BY <1>3, <2>3, <2>5 DEF Install, RuntimeOK
<1>4. ASSUME NotInstalled(w) PROVE RuntimeOK'
  <2>1. live["mihomo"] \in Bodies
    BY DEF RuntimeOK, Services, Engines
  <2>2. backup' \in [Sources -> Bodies]
    BY <1>4, <2>1 DEF NotInstalled, RuntimeOK
  <2> QED BY <1>4, <2>2 DEF NotInstalled, RuntimeOK
<1>5. ASSUME RestartEngine(w) \/ RestartFails(w) PROVE RuntimeOK'
  <2>1. \A x \in {running[e], None, live[e]} : e \in Services => x \in Bodies
    BY <1>0 DEF RuntimeOK
  <2>2. PICK x \in {running[e], None, live[e]} : running' = [running EXCEPT ![e] = x]
    BY <1>5 DEF RestartEngine, RestartFails
  <2>3. running' \in [Services -> Bodies]
    BY <2>1, <2>2 DEF RuntimeOK
  <2> QED BY <1>5, <2>3 DEF RestartEngine, RestartFails, RuntimeOK
<1>6. ASSUME RestoreConfig(w) PROVE RuntimeOK'
  <2>1. e \in Sources
    BY <1>6 DEF RestoreConfig, WorkersOK, Placed, Engine
  <2>2. backup[e] \in Bodies
    BY <2>1 DEF RuntimeOK
  <2>3. live' \in [Services -> Bodies] /\ running' \in [Services -> Bodies]
    BY <1>0, <1>6, <2>2 DEF RestoreConfig, RuntimeOK
  <2> QED BY <1>6, <2>3 DEF RestoreConfig, RuntimeOK
<1>7. ASSUME InstallAgain(w) PROVE RuntimeOK'
  <2>1. me.body \in Bodies
    BY <1>0, <1>7, WorkerTypes DEF InstallAgain, AtInstallAgain
  <2> QED BY <1>7, <2>1 DEF InstallAgain, RuntimeOK
<1>8. ASSUME RestartAgain(w) \/ FailAgain(w) PROVE RuntimeOK'
  <2>1. live["awg31"] \in Bodies /\ running["awg31"] \in Bodies
    BY DEF RuntimeOK, Services, Engines
  <2>2. running' \in [Services -> Bodies]
    BY <1>0, <1>8, <2>1 DEF RestartAgain, FailAgain, RuntimeOK
  <2> QED BY <1>8, <2>2 DEF RestartAgain, FailAgain, RuntimeOK
<1>9. ASSUME SyncNaive(w) \/ NaiveUndone(w) PROVE RuntimeOK'
  <2>1. me \in AtNaive
    BY <1>0, <1>9, WorkerTypes DEF SyncNaive, NaiveUndone
  <2>2. me.rows \in Bodies /\ live["naive"] \in Bodies
    BY <2>1 DEF AtNaive, Bodies, RuntimeOK, Services, Engines
  <2>3. live' \in [Services -> Bodies]
    BY <1>9, <2>2 DEF SyncNaive, NaiveUndone, RuntimeOK
  <2>4. running' \in [Services -> Bodies]
    BY <1>0, <1>9, <2>2 DEF SyncNaive, NaiveUndone, RuntimeOK
  <2> QED BY <1>9, <2>3, <2>4 DEF SyncNaive, NaiveUndone, RuntimeOK
<1>10. ASSUME \/ TakeLock(w) \/ NoLock(w) \/ Subscriptions(w) \/ BeginEngine(w) \/ ReadRows(w)
              \/ Settle(w) \/ ReadAgain(w) \/ SkipNaive(w) \/ LoadNaive(w) \/ NaiveRefused(w)
       PROVE  RuntimeOK'
  BY <1>1, <1>10 DEF TakeLock, NoLock, Subscriptions, BeginEngine, ReadRows, Settle, ReadAgain,
                     SkipNaive, LoadNaive, NaiveRefused
<1> QED BY <1>2, <1>3, <1>4, <1>5, <1>6, <1>7, <1>8, <1>9, <1>10 DEF WorkerStep

LEMMA RuntimeFrame ==
  ASSUME RuntimeOK, UNCHANGED runtime
  PROVE  RuntimeOK'
BY DEF RuntimeOK, runtime

-----------------------------------------------------------------------------
\* The invariant.

LEMMA InitIInv == Init => IInv
<1> SUFFICES ASSUME Init PROVE IInv
  OBVIOUS
<1>1. CatalogueOK
  <2>1. Tables
    BY NoStatus DEF Init, Tables, States
  <2>2. ASSUME NEW c \in Clients PROVE Whole(c, client[c], device, status)
    BY DEF Init, Whole, DevicesOf
  <2> QED BY <2>1, <2>2 DEF CatalogueOK
<1>2. \A r \in Requests : rq[r] = NoRequest /\ ~Busy(r)
  BY DEF Init, Busy, NoRequest
<1>3. RequestOK(NoRequest)
  BY DEF RequestOK, RequestRecords, NoRequest, BusyRequests, Busies
<1>4. RequestsOK
  BY <1>2, <1>3 DEF Init, RequestsOK, RequestRecords
<1>5. Apart /\ Undoable
  BY <1>2 DEF Apart, Undoable, Undoes
<1>6. ServedOnce
  BY <1>2 DEF Init, ServedOnce, Serving, NoRequest
<1>7. WorkersOK
  BY CatalogueAssumption DEF Init, WorkersOK, WorkerRecords, NoWorker, Holds, Placed
<1>8. RuntimeOK
  BY DEF Init, RuntimeOK, Bodies, Services
<1> QED BY <1>1, <1>4, <1>5, <1>6, <1>7, <1>8 DEF IInv

LEMMA NextIInv == IInv /\ [Next]_vars => IInv'
<1> SUFFICES ASSUME IInv, [Next]_vars PROVE IInv'
  OBVIOUS
<1> USE DEF IInv
<1>1. ASSUME NEW r \in Requests, NEW op \in Ops, NEW d \in Devices, NEW menu \in Menus,
             BeginRequest(r, op, d, menu)
      PROVE  IInv'
  <2>1. UNCHANGED <<wk, lock>> /\ UNCHANGED runtime
    BY <1>1 DEF BeginRequest
  <2> QED BY <1>1, <2>1, BeginKeeps, ServedPanel, WorkersFrame, RuntimeFrame
<1>2. ASSUME NEW r \in Requests, Change(r) \/ Prepare(r) \/ Fail(r) \/ Undo(r) PROVE IInv'
  <2>1. UNCHANGED <<wk, lock>> /\ UNCHANGED runtime
    BY <1>2 DEF Change, Prepare, Fail, Undo
  <2>2. ServedOnce' /\ WorkersOK' /\ RuntimeOK'
    BY <1>2, <2>1, ServedPanel, WorkersFrame, RuntimeFrame
  <2>3. CatalogueOK' /\ RequestsOK' /\ Apart' /\ Undoable'
    <3>1. CASE Prepare(r)
      BY <3>1, PrepareKeeps
    <3> QED BY <1>2, <3>1, ChangeKeeps, FailKeeps, UndoKeeps
  <2> QED BY <2>2, <2>3
<1>3. ASSUME NEW r \in Requests, NEW w \in Workers, Call(r, w) PROVE IInv'
  <2>1. UNCHANGED runtime /\ wk \in [Workers -> WorkerRecords]
    BY <1>3 DEF Call, WorkersOK
  <2> QED BY <1>3, <2>1, PrepareKeeps, ServedCall, WorkersCall, RuntimeFrame
<1>4. ASSUME NEW r \in Requests, TimeOut(r) PROVE IInv'
  <2>1. UNCHANGED runtime
    BY <1>4 DEF TimeOut
  <2> QED BY <1>4, <2>1, TimeOutKeeps, ServedTimeOut, WorkersTimeOut, RuntimeFrame
<1>5. ASSUME NEW w \in Workers, WorkerStep(w) PROVE IInv'
  BY <1>5, WorkerKeeps, ServedWorker, WorkersWorker, RuntimeWorker
<1>6. ASSUME HostdDies PROVE IInv'
  <2>1. UNCHANGED runtime
    BY <1>6 DEF HostdDies
  <2> QED BY <1>6, <2>1, HostdDiesKeeps, ServedHostdDies, WorkersHostdDies, RuntimeFrame
<1>7. CASE UNCHANGED vars
  <2>1. CatalogueOK' /\ WorkersOK' /\ RuntimeOK'
    <3>1. UNCHANGED <<wk, lock>> /\ UNCHANGED runtime /\ UNCHANGED catalogue /\ UNCHANGED domain
      BY <1>7 DEF vars, runtime, catalogue
    <3>2. domain' \in BOOLEAN
      BY <3>1 DEF CatalogueOK, Tables
    <3> QED BY <3>1, <3>2, CatalogueStays, WorkersFrame, RuntimeFrame
  <2>2. RequestsOK' /\ Apart' /\ Undoable' /\ ServedOnce'
    BY <1>7 DEF vars, RequestsOK, Apart, Busy, Undoable, Undoes, Untouched, BackTo, ServedOnce, Serving
  <2> QED BY <2>1, <2>2
<1> QED BY <1>1, <1>2, <1>3, <1>4, <1>5, <1>6, <1>7 DEF Next, RequestStep

\* All of it holds always.
THEOREM Invariance == Spec => []IInv
BY InitIInv, NextIInv, PTL DEF Spec

LEMMA IInvTypes == IInv => TypeOK
<1> SUFFICES ASSUME IInv PROVE TypeOK
  OBVIOUS
<1> USE DEF IInv
<1>1. /\ client \in [Clients -> {"none", "on", "off"}]
      /\ device \in [Devices -> {"none", "on", "off"}]
      /\ domain \in BOOLEAN
  BY DEF CatalogueOK, Tables, States
<1>2. ASSUME NEW d \in Devices
      PROVE  /\ device[d] # "none" => client[Owner[d]] # "none" /\ DOMAIN status[d] # {}
             /\ device[d] = "none" => status[d] = <<>>
             /\ DOMAIN status[d] \subseteq Engines
             /\ \A e \in DOMAIN status[d] : status[d][e] \in Statuses
  <2>1. Owner[d] \in Clients /\ d \in DevicesOf(Owner[d])
    BY CatalogueAssumption DEF DevicesOf
  <2>2. Whole(Owner[d], client[Owner[d]], device, status) /\ status[d] \in Maps
    BY <2>1 DEF CatalogueOK, Tables
  <2>3. DOMAIN status[d] \subseteq Engines /\ \A e \in DOMAIN status[d] : status[d][e] \in Statuses
    BY <2>2, MapFacts
  <2> QED BY <2>1, <2>2, <2>3 DEF Whole
<1>3. \A c \in Clients : client[c] # "none" => device[Primary[c]] # "none"
  BY DEF CatalogueOK, Whole
<1>4. /\ \A f \in {live, running} : f \in [Services -> {None} \cup SUBSET Devices]
      /\ backup \in [Sources -> {None} \cup SUBSET Devices]
  BY DEF RuntimeOK, Bodies
<1>5. lock \in Workers \cup {"free"} /\ \A w \in Workers : lock = w <=> Holds(w)
  BY DEF WorkersOK
<1>6. ASSUME NEW r \in Requests
      PROVE  Cardinality({w \in Workers : wk[w] # NoWorker /\ r \in wk[w].for})
               = IF rq[r].at = "wait" THEN 1 ELSE 0
  <2> DEFINE S == {w \in Workers : wk[w] # NoWorker /\ r \in wk[w].for}
  <2>1. CASE rq[r].at = "wait"
    <3>1. PICK w \in Workers : Serving(w, r)
      BY <2>1 DEF ServedOnce
    <3>2. S = {w}
      BY <3>1 DEF ServedOnce, Serving
    <3>3. Cardinality({w}) = 1
      BY FS_Singleton
    <3> QED BY <2>1, <3>2, <3>3
  <2>2. CASE rq[r].at # "wait"
    <3>1. S = {}
      BY <2>2 DEF ServedOnce, Serving
    <3> QED BY <2>2, <3>1, FS_EmptySet
  <2> QED BY <2>1, <2>2
<1> QED BY <1>1, <1>2, <1>3, <1>4, <1>5, <1>6 DEF TypeOK

LEMMA IInvUndone == IInv => FailedChangeIsUndone
<1> SUFFICES ASSUME IInv, NEW r \in Requests, rq[r].at = "answered", rq[r].op # "apply",
                    rq[r].sole, rq[r].answer # "ok"
             PROVE  BackTo(r)
  BY DEF FailedChangeIsUndone
<1>1. rq[r] # NoRequest
  BY DEF NoRequest
<1>2. Undoes(r)
  BY DEF IInv, Undoable
<1> QED BY <1>1, <1>2 DEF Undoes, Untouched

\* The tables stay well-formed whatever requests, workers, time-outs and crashes
\* do: no credential without its device, no client without its primary device,
\* one holder of clients-apply.lock, one worker behind every waiting request.
THEOREM CatalogueTypes == Spec => []TypeOK
BY Invariance, IInvTypes, PTL

\* The rollback of app/main.py (_rollback_client_change, delete_client after a
\* failed creation): once the panel has answered anything but "applied", the
\* client is back where it was, for any number of clients, devices, requests and
\* hostd threads, unless another request changes the same client.
THEOREM FailedChangesAreUndone == Spec => []FailedChangeIsUndone
BY Invariance, IInvUndone, PTL

-----------------------------------------------------------------------------
\* A request that nothing disturbs, and the worker that serves it.

\* Engine e serves its rows, and their statuses say so.
Settled(e) == Serves(e) = Rows(e) /\ \A d \in Rows(e) : status[d][e] = "applied"
\* An apply has settled the statuses, one way or the other.
Landed(e) == \A d \in Rows(e) : status[d][e] \in {"applied", "error"}
Subscribed == \A d \in Rows("xray") \cap Rows("sgclient") : status[d]["sgclient"] = "applied"

\* The stages of one engine's apply under the lock, and of the second apply of
\* AmneziaWG 3.1 after it.
Placing == {"read", "install", "restart", "failed", "settle"}
Repeating == {"again", "installAgain", "restartAgain"}

\* What the sequence has brought about, given where worker me is in it.
Rendered(me) ==
  me.at \in Placing =>
    /\ me.rows = Rows(Locked[me.i])
    /\ me.i = 2 /\ me.at \in {"install", "restart"} => me.body = Rows("xray")
    /\ me.i = 2 /\ me.at = "restart" => live["xray"] = Rows("xray")
Passed(me) ==
  me.at \in Placing \cup {"begin"} =>
    /\ me.i > 2 /\ me.ok => Settled("xray")
    /\ me.i > 3 => Landed("mihomo")
    /\ me.i > 4 => Landed("singbox")
Repeated(me) ==
  /\ me.at \in Repeating \cup {"naive"} =>
       (me.ok => Settled("xray") /\ Subscribed) /\ Landed("mihomo") /\ Landed("singbox")
  /\ me.at = "installAgain" => me.body = Rows("awg31")
  /\ me.at = "restartAgain" => live["awg31"] = Rows("awg31")
  /\ me.at = "naive" => me.ok /\ Settled("awg31")
Locally == Settled("xray") /\ Subscribed /\ Landed("mihomo") /\ Landed("singbox") /\ Settled("awg31")
Loaded(me) ==
  me.at = "naiveInstall" => Locally /\ domain /\ me.rows = Rows("naive") /\ me.ids = Assigned("naive")
Achieved(me) == Rendered(me) /\ Passed(me) /\ Repeated(me) /\ Loaded(me)

AllDone == Locally /\ (IF domain THEN Settled("naive") ELSE Assigned("naive") = {})

Alone(r) == rq[r] # NoRequest /\ rq[r].alone
Solo(r) ==
  /\ \A q \in Requests \ {r} : ~Busy(q)
  /\ \A w \in Workers : wk[w] # NoWorker => wk[w].for = {r} /\ Achieved(wk[w])
  /\ rq[r].at = "answered" /\ rq[r].answer # "failed" => AllDone
AloneOK == \A r \in Requests : Alone(r) => Solo(r)

\* A request owes an apply of Xray that will read the rows as they are now: it has
\* not called yet, or its worker has not got to Xray; or it did not end well.
Ahead(me) ==
  \/ me.at = "lock"
  \/ me.at \in Placing \cup {"begin"} /\ me.i = 1
  \/ me.at = "begin" /\ me.i = 2
Owes(q) ==
  \/ rq[q].at \in {"prepare", "call", "failed", "undo"}
  \/ rq[q].at = "change" /\ Possible(rq[q].op, rq[q].device)
  \/ rq[q].at = "answered" /\ rq[q].answer # "ok"
  \/ \E w \in Workers : Serving(w, q) /\ Ahead(wk[w])

\* A worker is applying to Xray the rows as they are now.
AtXray(me) == me.at \in Placing /\ me.i = 2
Covers(me) ==
  /\ AtXray(me) /\ me.at \in {"install", "restart"}
  /\ me.rows = Rows("xray") /\ me.body = Rows("xray")
  /\ me.at = "restart" => live["xray"] = Rows("xray")
Fresh ==
  \/ Settled("xray") /\ \A w \in Workers : ~AtXray(wk[w])
  \/ \E w \in Workers : Covers(wk[w])
Agreeing == spent.faults = 0 => Fresh \/ \E q \in Requests : Owes(q)
SpentOK == spent \in [ops : Nat, faults : Nat]

-----------------------------------------------------------------------------
\* A step of a worker is about one engine.

Where(me) ==
  IF me.at \in Placing \cup {"begin"} THEN Locked[me.i]
  ELSE IF me.at \in Repeating THEN "awg31" ELSE "naive"

\* Only engine e changes, and of the catalogue only its statuses.
Only(e) ==
  /\ Reworded
  /\ \A x \in Engines \ {e}, d \in Devices : Has(d, x) => status'[d][x] = status[d][x]
  /\ \A x \in Services \ {e} : running'[x] = running[x] /\ live'[x] = live[x]

LEMMA PutOthers ==
  ASSUME CatalogueOK, NEW e, NEW ds, NEW f,
         status' = [d \in Devices |-> IF d \in ds THEN [status[d] EXCEPT ![e] = f[d]] ELSE status[d]]
  PROVE  /\ \A x \in Engines \ {e}, d \in Devices : Has(d, x) => status'[d][x] = status[d][x]
         /\ \A d \in Devices : d \in ds /\ Has(d, e) => status'[d][e] = f[d]
BY DEF Has

LEMMA MarkedOthers ==
  ASSUME CatalogueOK, NEW e, NEW ds, NEW s, status' = Marked(ds, e, s)
  PROVE  /\ \A x \in Engines \ {e}, d \in Devices : Has(d, x) => status'[d][x] = status[d][x]
         /\ \A d \in Devices : d \in ds /\ Has(d, e) => status'[d][e] = s
BY DEF Has, Marked

LEMMA SameOthers ==
  ASSUME UNCHANGED status
  PROVE  \A e : \A x \in Engines \ {e}, d \in Devices : Has(d, x) => status'[d][x] = status[d][x]
OBVIOUS

LEMMA RowsStay ==
  ASSUME Reworded
  PROVE  /\ \A x : Rows(x)' = Rows(x) /\ Assigned(x)' = Assigned(x) /\ Body(x)' = Body(x)
         /\ \A d \in Devices : \A x : Has(d, x)' <=> Has(d, x)
         /\ domain' = domain
<1>1. \A d \in Devices : \A x : Has(d, x)' <=> Has(d, x)
  BY DEF Reworded, Has
<1>2. \A x : Rows(x)' = Rows(x) /\ Assigned(x)' = Assigned(x)
  BY <1>1 DEF Reworded, Rows, Assigned
<1> QED BY <1>1, <1>2 DEF Body, Reworded

\* What is settled about the other engines stays settled.
LEMMA OnlyKeeps ==
  ASSUME NEW e, Only(e)
  PROVE  /\ \A x \in Services \ {e} : Settled(x) => Settled(x)'
         /\ \A x \in Engines \ {e} : Landed(x) => Landed(x)'
         /\ e # "sgclient" => (Subscribed => Subscribed')
<1>1. \A x : Rows(x)' = Rows(x)
  BY RowsStay DEF Only
<1>2. \A x \in Engines \ {e} : \A d \in Rows(x) : status'[d][x] = status[d][x]
  BY DEF Only, Rows
<1>3. Services \subseteq Engines /\ "sgclient" \in Engines
  BY DEF Services, Engines
<1>4. ASSUME NEW x \in Services \ {e}, Settled(x) PROVE Settled(x)'
  <2>1. running'[x] = running[x]
    BY DEF Only
  <2>2. Serves(x)' = Rows(x)'
    BY <1>1, <1>4, <2>1 DEF Settled, Serves
  <2>3. \A d \in Rows(x) : status'[d][x] = "applied"
    BY <1>2, <1>3, <1>4 DEF Settled
  <2> QED BY <1>1, <2>2, <2>3 DEF Settled
<1>5. ASSUME NEW x \in Engines \ {e}, Landed(x) PROVE Landed(x)'
  BY <1>1, <1>2, <1>5 DEF Landed
<1>6. e # "sgclient" => (Subscribed => Subscribed')
  BY <1>1, <1>2, <1>3 DEF Subscribed
<1> QED BY <1>4, <1>5, <1>6

LEMMA WorkerOnly ==
  ASSUME CatalogueOK, RuntimeOK, NEW w \in Workers, WorkerStep(w)
  PROVE  Only(Where(wk[w]))
<1> DEFINE me == wk[w]
           e == Where(me)
           others == \A x \in Engines \ {e}, d \in Devices : Has(d, x) => status'[d][x] = status[d][x]
           apart == \A x \in Services \ {e} : running'[x] = running[x] /\ live'[x] = live[x]
<1>1. Reworded
  BY WorkerReworded
<1>2. me.at \in Placing \cup {"begin"} => e = Engine(w)
  BY DEF Where, Engine
<1>3. me.at \in Repeating => e = "awg31"
  BY DEF Where, Repeating, Placing
<1>4. me.at \in {"naive", "naiveInstall"} => e = "naive"
  BY DEF Where, Repeating, Placing
<1>5. live \in [Services -> Bodies] /\ running \in [Services -> Bodies]
  BY DEF RuntimeOK
<1> HIDE DEF e
<1>6. ASSUME \/ TakeLock(w) \/ NoLock(w) \/ SkipNaive(w) \/ LoadNaive(w) \/ NaiveRefused(w)
      PROVE  others /\ apart
  <2>1. UNCHANGED status /\ UNCHANGED runtime
    BY <1>6 DEF TakeLock, NoLock, SkipNaive, LoadNaive, NaiveRefused, database
  <2> QED BY <2>1 DEF runtime
<1>7. ASSUME StopIdle(w) \/ IdleMihomo(w) \/ NotInstalled(w) \/ RestartFails(w) \/ RestoreConfig(w)
      PROVE  others /\ apart
  <2>1. e = Engine(w) /\ UNCHANGED status
    BY <1>2, <1>7 DEF StopIdle, IdleMihomo, NotInstalled, RestartFails, RestoreConfig, database, Placing
  <2>2. others
    BY <2>1
  <2>3. ASSUME StopIdle(w) \/ NotInstalled(w) \/ RestartFails(w) PROVE apart
    BY <1>5, <2>1, <2>3 DEF StopIdle, NotInstalled, RestartFails
  <2>4. ASSUME IdleMihomo(w) PROVE apart
    BY <1>5, <2>1, <2>4 DEF IdleMihomo
  <2>5. ASSUME RestoreConfig(w) PROVE apart
    BY <1>5, <2>1, <2>5 DEF RestoreConfig
  <2> QED BY <1>7, <2>2, <2>3, <2>4, <2>5
<1>8. ASSUME InstallAgain(w) \/ FailAgain(w) PROVE others /\ apart
  <2>1. me.at \in Repeating /\ UNCHANGED status
    BY <1>8 DEF InstallAgain, FailAgain, database, Repeating
  <2>2. e = "awg31"
    BY <1>3, <2>1
  <2> QED BY <1>5, <1>8, <2>1, <2>2 DEF InstallAgain, FailAgain
<1>9. ASSUME NaiveUndone(w) PROVE others /\ apart
  <2>1. e = "naive" /\ UNCHANGED status
    BY <1>4, <1>9 DEF NaiveUndone, database
  <2> QED BY <1>5, <1>9, <2>1 DEF NaiveUndone
<1>10. ASSUME Subscriptions(w) PROVE others /\ apart
  <2>1. Engine(w) = "sgclient" /\ e = "sgclient" /\ UNCHANGED runtime
    BY <1>2, <1>10 DEF Subscriptions
  <2> DEFINE ready(d) == \E s \in Sources : Has(d, s) /\ status[d][s] = "applied"
             f == [d \in Devices |-> IF ready(d) THEN "applied" ELSE "error"]
  <2>2. status' = [d \in Devices |->
                     IF d \in Rows("sgclient") THEN [status[d] EXCEPT !["sgclient"] = f[d]] ELSE status[d]]
    BY <1>10 DEF Subscriptions
  <2> HIDE DEF f
  <2>3. others
    BY <2>1, <2>2, PutOthers
  <2> QED BY <2>1, <2>3 DEF runtime
<1>11. ASSUME BeginEngine(w) \/ ReadRows(w) \/ Install(w) \/ RestartEngine(w) PROVE others /\ apart
  <2>1. me.at \in Placing \cup {"begin"}
    BY <1>11 DEF BeginEngine, ReadRows, Install, RestartEngine, Placing
  <2>2. e = Engine(w)
    BY <1>2, <2>1
  <2>3. UNCHANGED status \/ \E ds, s : status' = Marked(ds, e, s)
    BY <1>11, <2>2 DEF BeginEngine, ReadRows, Install, RestartEngine, Rewritten, MarkedUp
  <2>4. others
    BY <2>3, MarkedOthers
  <2>5. apart
    BY <1>5, <1>11, <2>2 DEF BeginEngine, ReadRows, Install, RestartEngine, runtime
  <2> QED BY <2>4, <2>5
<1>12. ASSUME ReadAgain(w) \/ RestartAgain(w) PROVE others /\ apart
  <2>1. me.at \in Repeating
    BY <1>12 DEF ReadAgain, RestartAgain, Repeating
  <2>2. e = "awg31"
    BY <1>3, <2>1
  <2>3. \E ds, s : status' = Marked(ds, e, s)
    BY <1>12, <2>2 DEF ReadAgain, RestartAgain, Rewritten, MarkedUp
  <2>4. others
    BY <2>3, MarkedOthers
  <2>5. apart
    BY <1>5, <1>12, <2>2 DEF ReadAgain, RestartAgain, runtime
  <2> QED BY <2>4, <2>5
<1>13. ASSUME SyncNaive(w) PROVE others /\ apart
  <2>1. e = "naive" /\ status' = Marked(me.ids, e, "applied")
    BY <1>4, <1>13 DEF SyncNaive
  <2> QED BY <1>5, <1>13, <2>1, MarkedOthers DEF SyncNaive
<1>14. ASSUME Settle(w) PROVE others /\ apart
  <2>1. e = Engine(w) /\ UNCHANGED runtime
    BY <1>2, <1>14 DEF Settle, Placing
  <2> DEFINE kept == IF running[Engine(w)] # None THEN me.applied ELSE {}
             f == [d \in Devices |-> IF d \in kept THEN "applied" ELSE "error"]
             ds == {d \in Devices : d \in me.rows /\ Has(d, e)}
  <2>2. status' = [d \in Devices |-> IF d \in ds THEN [status[d] EXCEPT ![e] = f[d]] ELSE status[d]]
    BY <1>14, <2>1 DEF Settle
  <2> HIDE DEF f, ds
  <2>3. others
    BY <2>2, PutOthers
  <2> QED BY <2>1, <2>3 DEF runtime
<1>15. others /\ apart
  BY <1>6, <1>7, <1>8, <1>9, <1>10, <1>11, <1>12, <1>13, <1>14 DEF WorkerStep
<1> QED BY <1>1, <1>15 DEF Only, e

-----------------------------------------------------------------------------
\* A worker that nobody disturbs brings about what it goes through.

LEMMA LockedAre ==
  /\ Locked[1] = "awg31" /\ Locked[2] = "xray" /\ Locked[3] = "mihomo"
  /\ Locked[4] = "singbox" /\ Locked[5] = "sgclient" /\ Len(Locked) = 5
BY DEF Locked

LEMMA Kinds ==
  /\ {"awg31", "xray", "mihomo", "singbox", "naive"} \subseteq Services
  /\ Services \subseteq Engines /\ "sgclient" \in Engines
  /\ Engines = Services \cup {"sgclient"}
BY DEF Services, Engines

\* A service that runs its rows, with their statuses "applied", is settled.
LEMMA SettledNow ==
  ASSUME NEW e, Reworded, running'[e] = Rows(e), \A d \in Rows(e) : status'[d][e] = "applied"
  PROVE  Settled(e)'
<1>1. Rows(e)' = Rows(e) /\ Rows(e) \subseteq Devices
  BY RowsStay DEF Rows
<1>2. Rows(e) # None
  BY <1>1, CatalogueAssumption
<1> QED BY <1>1, <1>2 DEF Settled, Serves

LEMMA SettledIdle ==
  ASSUME NEW e, Reworded, running'[e] = None, Rows(e) = {}
  PROVE  Settled(e)'
BY RowsStay DEF Settled, Serves

LEMMA PassedKeeps ==
  ASSUME NEW me, me.at \in Placing \cup {"begin"}, me.i \in 1..5, Passed(me), Only(Locked[me.i]),
         NEW st, st.i = me.i, st.ok = me.ok
  PROVE  Passed(st)'
<1>1. me.i > 2 => Locked[me.i] # "xray"
  BY LockedAre
<1>2. me.i > 3 => Locked[me.i] # "mihomo"
  BY LockedAre
<1>3. me.i > 4 => Locked[me.i] # "singbox"
  BY LockedAre
<1> QED BY <1>1, <1>2, <1>3, OnlyKeeps, Kinds DEF Passed

\* An engine's result.
LEMMA ResultAchieves ==
  ASSUME WorkersOK, NEW w \in Workers, NEW good, Result(w, good), Holds(w),
         Only(Engine(w)), Achieved(wk[w]),
         wk[w].i = 2 /\ good => Settled("xray")',
         wk[w].i = 3 => Landed("mihomo")',
         wk[w].i = 4 => Landed("singbox")',
         wk[w].i = 5 /\ Settled("xray") => Subscribed'
  PROVE  Achieved(wk[w])'
<1> DEFINE me == wk[w]
           ok == me.ok /\ (good \/ Engine(w) \notin Critical)
           next == [at |-> "begin", for |-> me.for, i |-> me.i + 1, ok |-> ok]
           over == [at |-> "again", for |-> me.for, ok |-> ok]
<1>1. me.i \in 1..5 /\ me.at \in Placing \cup {"begin"}
  <2>1. me \in AtBegin \cup AtEngine
    BY WorkerTypes DEF WorkersOK, Holds
  <2> QED BY <2>1 DEF AtBegin, AtEngine, Placing
<1>2. /\ me.i > 2 /\ me.ok => Settled("xray")
      /\ me.i > 3 => Landed("mihomo")
      /\ me.i > 4 => Landed("singbox")
  BY <1>1 DEF Achieved, Passed
<1>3. /\ me.i > 2 /\ me.ok => Settled("xray")'
      /\ me.i > 3 => Landed("mihomo")'
      /\ me.i > 4 => Landed("singbox")'
  <2>1. Passed(me) /\ Only(Locked[me.i])
    BY DEF Achieved, Engine
  <2> QED BY <1>1, <1>2, <2>1, OnlyKeeps, LockedAre, Kinds
<1>4. me.i = 2 /\ ok => Settled("xray")'
  BY LockedAre DEF Engine, Critical
<1> HIDE DEF ok
<1>5. CASE me.i < 5
  <2>1. wk' = [wk EXCEPT ![w] = next]
    BY <1>5, LockedAre DEF Result, ok
  <2> DEFINE j == me.i + 1
  <2>2. PICK st : st = next
    OBVIOUS
  <2>3. wk'[w] = st /\ st.at = "begin" /\ st.i = j /\ st.ok = ok
    BY <2>1, <2>2 DEF WorkersOK
  <2>4. /\ j > 2 /\ ok => Settled("xray")'
        /\ j > 3 => Landed("mihomo")'
        /\ j > 4 => Landed("singbox")'
    <3>1. ok => me.ok
      BY DEF ok
    <3> QED BY <1>1, <1>3, <1>4, <1>5, <3>1
  <2>5. Passed(st)'
    BY <2>3, <2>4 DEF Passed
  <2>6. Rendered(st)' /\ Repeated(st)' /\ Loaded(st)'
    BY <2>3 DEF Rendered, Repeated, Loaded, Placing, Repeating
  <2> QED BY <2>3, <2>5, <2>6 DEF Achieved
<1>6. CASE me.i = 5
  <2>1. wk' = [wk EXCEPT ![w] = over]
    BY <1>6, LockedAre DEF Result, ok
  <2>2. PICK st : st = over
    OBVIOUS
  <2>3. wk'[w] = st /\ st.at = "again" /\ st.ok = ok
    BY <2>1, <2>2 DEF WorkersOK
  <2>4. (ok => Settled("xray")' /\ Subscribed') /\ Landed("mihomo")' /\ Landed("singbox")'
    BY <1>2, <1>3, <1>6 DEF ok
  <2>5. Repeated(st)'
    BY <2>3, <2>4 DEF Repeated
  <2>6. Rendered(st)' /\ Passed(st)' /\ Loaded(st)'
    BY <2>3 DEF Rendered, Passed, Loaded, Placing
  <2> QED BY <2>3, <2>5, <2>6 DEF Achieved
<1> QED BY <1>1, <1>5, <1>6

LEMMA AtStage ==
  ASSUME WorkersOK, NEW w \in Workers, wk[w].at \in Placing \cup {"begin"}
  PROVE  /\ wk[w].i \in 1..5 /\ wk[w].ok \in BOOLEAN /\ Holds(w) /\ Where(wk[w]) = Engine(w)
         /\ Engine(w) = "awg31" <=> wk[w].i = 1
         /\ Engine(w) = "xray" <=> wk[w].i = 2
         /\ Engine(w) = "mihomo" <=> wk[w].i = 3
         /\ Engine(w) = "singbox" <=> wk[w].i = 4
         /\ Engine(w) = "sgclient" <=> wk[w].i = 5
         /\ wk[w].at \in Placing => wk[w].i # 5
<1>1. wk[w] \in AtBegin \cup AtEngine
  BY WorkerTypes DEF WorkersOK, Placing
<1>2. wk[w].i \in 1..5 /\ wk[w].ok \in BOOLEAN
  BY <1>1 DEF AtBegin, AtEngine
<1>3. Holds(w) /\ Where(wk[w]) = Engine(w)
  BY DEF Holds, Placing, Where, Engine
<1>4. wk[w].at \in Placing => Engine(w) # "sgclient"
  BY DEF Placing, WorkersOK, Placed, Engine
<1> QED BY <1>2, <1>3, <1>4, LockedAre DEF Engine

\* The steps that end with an engine's result.
LEMMA ResultStep ==
  ASSUME CatalogueOK, WorkersOK, RuntimeOK, NEW w \in Workers, Only(Where(wk[w])), Achieved(wk[w]),
         StopIdle(w) \/ IdleMihomo(w) \/ Subscriptions(w) \/ RestartEngine(w) \/ Settle(w)
  PROVE  Achieved(wk[w])'
<1> DEFINE me == wk[w]
<1>0. PICK e : e = Engine(w)
  OBVIOUS
<1>1. me.at \in Placing \cup {"begin"}
  BY DEF StopIdle, IdleMihomo, Subscriptions, RestartEngine, Settle, Placing
<1>2. /\ me.i \in 1..5 /\ Holds(w) /\ Only(e) /\ Reworded
      /\ e = "awg31" <=> me.i = 1
      /\ e = "xray" <=> me.i = 2
      /\ e = "mihomo" <=> me.i = 3
      /\ e = "singbox" <=> me.i = 4
      /\ e = "sgclient" <=> me.i = 5
      /\ me.at \in Placing => me.i # 5
  BY <1>0, <1>1, AtStage DEF Only
<1>3. Rows(e)' = Rows(e) /\ Rows("mihomo")' = Rows("mihomo") /\ Rows("singbox")' = Rows("singbox")
  BY <1>2, RowsStay
<1>4. me.at \in Placing => me.rows = Rows(e)
  BY <1>0 DEF Achieved, Rendered, Engine
<1>5. \A d \in Rows(e) : d \in Devices /\ Has(d, e)
  BY DEF Rows
<1>6. running \in [Services -> Bodies] /\ "xray" \in Services
  BY Kinds DEF RuntimeOK
<1>7. CASE StopIdle(w)
  <2>1. e \in {"awg31", "xray", "singbox"} /\ Rows(e) = {}
    BY <1>0, <1>7 DEF StopIdle
  <2>2. me.i \in {1, 2, 4}
    BY <1>2, <2>1
  <2>3. me.i = 4 => Landed("singbox")'
    BY <1>2, <1>3, <2>1 DEF Landed
  <2>4. CASE running' = [running EXCEPT ![e] = None] /\ Result(w, TRUE)
    <3>1. me.i = 2 => Settled("xray")'
      <4> SUFFICES ASSUME me.i = 2 PROVE Settled("xray")'
        OBVIOUS
      <4>1. e = "xray" /\ running'["xray"] = None
        BY <1>2, <1>6, <2>4
      <4> QED BY <1>2, <2>1, <4>1, SettledIdle
    <3> QED BY <1>0, <1>2, <2>2, <2>3, <2>4, <3>1, ResultAchieves
  <2>5. CASE Result(w, e = "awg31")
    <3>1. ~(me.i = 2 /\ e = "awg31")
      BY <1>2
    <3> QED BY <1>0, <1>2, <2>2, <2>3, <2>5, <3>1, ResultAchieves
  <2> QED BY <1>0, <1>7, <2>4, <2>5 DEF StopIdle
<1>8. CASE IdleMihomo(w)
  <2>1. e = "mihomo" /\ me.i = 3 /\ Rows("mihomo") = {} /\ \E good : Result(w, good)
    BY <1>0, <1>2, <1>8 DEF IdleMihomo
  <2>2. Landed("mihomo")'
    BY <1>3, <2>1 DEF Landed
  <2> QED BY <1>0, <1>2, <2>1, <2>2, ResultAchieves
<1>9. CASE Subscriptions(w)
  <2> DEFINE ready(d) == \E s \in Sources : Has(d, s) /\ status[d][s] = "applied"
             f == [d \in Devices |-> IF ready(d) THEN "applied" ELSE "error"]
  <2>1. e = "sgclient" /\ me.i = 5 /\ \E good : Result(w, good)
    BY <1>0, <1>2, <1>9 DEF Subscriptions
  <2>2. status' = [d \in Devices |->
                     IF d \in Rows("sgclient") THEN [status[d] EXCEPT !["sgclient"] = f[d]] ELSE status[d]]
    BY <1>9 DEF Subscriptions
  <2>3. ASSUME Settled("xray"), NEW d \in Rows("xray") \cap Rows("sgclient")
        PROVE  status'[d]["sgclient"] = "applied"
    <3>1. d \in Devices /\ Has(d, "xray") /\ Has(d, "sgclient") /\ status[d]["xray"] = "applied"
      BY <2>3 DEF Settled, Rows
    <3>2. f[d] = "applied"
      BY <3>1 DEF Sources
    <3> HIDE DEF f
    <3> QED BY <2>2, <3>1, <3>2 DEF Has
  <2>4. Settled("xray") => Subscribed'
    BY <1>2, <2>3, RowsStay DEF Subscribed
  <2> QED BY <1>0, <1>2, <2>1, <2>4, ResultAchieves
<1>10. CASE RestartEngine(w)
  <2>1. me.at = "restart" /\ running' = [running EXCEPT ![e] = live[e]]
        /\ status' = MarkedUp(e, Rows(e)) /\ Result(w, TRUE)
    BY <1>0, <1>4, <1>10 DEF RestartEngine, Placing
  <2>2. \A d \in Rows(e) : status'[d][e] = "applied"
    <3>1. PICK ds : status' = Marked(ds, e, "applied") /\ Rows(e) \subseteq ds
      BY <1>5, <2>1 DEF MarkedUp
    <3> QED BY <1>5, <3>1, MarkedOthers
  <2>3. me.i = 2 => Settled("xray")'
    <3> SUFFICES ASSUME me.i = 2 PROVE Settled("xray")'
      OBVIOUS
    <3>1. e = "xray" /\ live["xray"] = Rows("xray")
      BY <1>2, <2>1 DEF Achieved, Rendered, Placing
    <3>2. running'["xray"] = Rows("xray")
      BY <1>6, <2>1, <3>1
    <3> QED BY <1>2, <2>2, <3>1, <3>2, SettledNow
  <2>4. (me.i = 3 => Landed("mihomo")') /\ (me.i = 4 => Landed("singbox")')
    BY <1>2, <1>3, <2>2 DEF Landed
  <2> QED BY <1>0, <1>2, <2>1, <2>3, <2>4, ResultAchieves DEF Placing
<1>11. CASE Settle(w)
  <2> DEFINE kept == IF running[e] # None THEN me.applied ELSE {}
             f == [d \in Devices |-> IF d \in kept THEN "applied" ELSE "error"]
             ds == {d \in Devices : d \in me.rows /\ Has(d, e)}
  <2>1. status' = [d \in Devices |-> IF d \in ds THEN [status[d] EXCEPT ![e] = f[d]] ELSE status[d]]
    BY <1>0, <1>11 DEF Settle
  <2>2. me.at = "settle" /\ Result(w, FALSE)
    BY <1>11 DEF Settle
  <2>3. \A d \in Rows(e) : d \in ds /\ f[d] \in {"applied", "error"}
    BY <1>4, <1>5, <2>2 DEF Placing
  <2> HIDE DEF f, ds
  <2>4. \A d \in Rows(e) : status'[d][e] \in {"applied", "error"}
    BY <1>5, <2>1, <2>3 DEF Has
  <2>5. (me.i = 3 => Landed("mihomo")') /\ (me.i = 4 => Landed("singbox")')
    BY <1>2, <1>3, <2>4 DEF Landed
  <2> QED BY <1>0, <1>2, <2>2, <2>5, ResultAchieves DEF Placing
<1> QED BY <1>7, <1>8, <1>9, <1>10, <1>11

\* The steps within an engine.
LEMMA PlacingStep ==
  ASSUME WorkersOK, RuntimeOK, NEW w \in Workers, Only(Where(wk[w])), Achieved(wk[w]),
         \/ BeginEngine(w) \/ ReadRows(w) \/ Install(w) \/ NotInstalled(w) \/ RestartFails(w)
         \/ RestoreConfig(w)
  PROVE  Achieved(wk[w])'
<1> DEFINE me == wk[w]
<1>0. PICK e : e = Engine(w)
  OBVIOUS
<1>1. me.at \in Placing \cup {"begin"}
  BY DEF BeginEngine, ReadRows, Install, NotInstalled, RestartFails, RestoreConfig, Placing
<1>2. me.i \in 1..5 /\ Only(e) /\ Reworded /\ e = Locked[me.i] /\ (me.i = 2 <=> e = "xray")
  BY <1>0, <1>1, AtStage DEF Only, Engine
<1>3. Rows(e)' = Rows(e) /\ Rows("xray")' = Rows("xray") /\ Body("xray") = Rows("xray")
  BY <1>2, RowsStay DEF Body
<1>4. me.at \in Placing => me \in AtEngine /\ me.rows = Rows(e)
  BY <1>2, WorkerTypes DEF Achieved, Rendered, WorkersOK, Placing
<1>5. PICK st : st = wk'[w]
  OBVIOUS
<1>6. /\ st.at \in Placing /\ st.i = me.i /\ st.ok = me.ok /\ st.rows = Rows(e)
      /\ me.i = 2 /\ st.at \in {"install", "restart"} => st.body = Rows("xray")
      /\ me.i = 2 /\ st.at = "restart" => live'["xray"] = Rows("xray")
  <2>1. CASE BeginEngine(w)
    <3> DEFINE again == e \in {"awg31", "mihomo"}
    <3>1. wk'[w] = [at |-> IF again THEN "read" ELSE "install", for |-> me.for, i |-> me.i, ok |-> me.ok,
                    rows |-> Rows(e), body |-> IF again THEN {} ELSE Body(e),
                    applied |-> {d \in Rows(e) : status[d][e] = "applied"}]
      BY <1>0, <2>1 DEF BeginEngine, WorkersOK
    <3> QED BY <1>2, <1>3, <1>5, <3>1 DEF Placing
  <2>2. CASE ReadRows(w)
    <3>1. me.at = "read" /\ wk'[w] = [me EXCEPT !.at = "install", !.body = Body(e)]
      BY <1>0, <2>2 DEF ReadRows, WorkersOK
    <3>2. me \in AtEngine /\ me.rows = Rows(e)
      BY <1>4, <3>1 DEF Placing
    <3>3. PICK body : body = Body(e)
      OBVIOUS
    <3> QED BY <1>2, <1>3, <1>5, <3>1, <3>2, <3>3 DEF Placing, AtEngine
  <2>3. CASE Install(w)
    <3>1. me.at = "install" /\ wk'[w] = [me EXCEPT !.at = "restart"] /\ live' = [live EXCEPT ![e] = me.body]
      BY <1>0, <2>3 DEF Install, WorkersOK
    <3>2. me \in AtEngine /\ me.rows = Rows(e)
      BY <1>4, <3>1 DEF Placing
    <3>3. me.i = 2 => me.body = Rows("xray")
      BY <3>1 DEF Achieved, Rendered, Placing
    <3>4. me.i = 2 => live'["xray"] = Rows("xray")
      BY <1>2, <3>1, <3>3, Kinds DEF RuntimeOK
    <3>5. st.at = "restart" /\ st.i = me.i /\ st.ok = me.ok /\ st.rows = me.rows /\ st.body = me.body
      BY <1>5, <3>1, <3>2 DEF AtEngine
    <3> QED BY <3>2, <3>3, <3>4, <3>5 DEF Placing
  <2>4. CASE NotInstalled(w) \/ RestartFails(w) \/ RestoreConfig(w)
    <3>1. PICK s : s \in {"failed", "settle"} /\ wk'[w] = [me EXCEPT !.at = s]
      BY <2>4 DEF NotInstalled, RestartFails, RestoreConfig, WorkersOK
    <3>2. me \in AtEngine /\ me.rows = Rows(e)
      BY <1>4, <2>4 DEF Placing, NotInstalled, RestartFails, RestoreConfig
    <3>3. st.at = s /\ st.i = me.i /\ st.ok = me.ok /\ st.rows = me.rows
      BY <1>5, <3>1, <3>2 DEF AtEngine
    <3> QED BY <3>1, <3>2, <3>3 DEF Placing
  <2> QED BY <2>1, <2>2, <2>3, <2>4
<1>7. Passed(st)'
  BY <1>1, <1>2, <1>6, PassedKeeps DEF Achieved
<1>8. Rendered(st)'
  BY <1>2, <1>3, <1>6 DEF Rendered
<1>9. Repeated(st)' /\ Loaded(st)'
  BY <1>6 DEF Repeated, Loaded, Placing, Repeating
<1> QED BY <1>5, <1>7, <1>8, <1>9 DEF Achieved

\* AmneziaWG 3.1 once more, and NaiveProxy.
LEMMA RepeatStep ==
  ASSUME CatalogueOK, WorkersOK, RuntimeOK, NEW w \in Workers, Only(Where(wk[w])), Achieved(wk[w]),
         \/ ReadAgain(w) \/ InstallAgain(w) \/ (RestartAgain(w) /\ wk[w].ok) \/ LoadNaive(w)
  PROVE  Achieved(wk[w])'
<1> DEFINE me == wk[w]
<1>1. PICK st : st = wk'[w]
  OBVIOUS
<1>2. Only("awg31") \/ Only("naive")
  BY DEF ReadAgain, InstallAgain, RestartAgain, LoadNaive, Where, Placing, Repeating
<1>3. /\ Settled("xray") => Settled("xray")'
      /\ Subscribed => Subscribed'
      /\ Landed("mihomo") => Landed("mihomo")'
      /\ Landed("singbox") => Landed("singbox")'
      /\ Reworded
  BY <1>2, OnlyKeeps, Kinds DEF Only
<1>4. (me.ok => Settled("xray") /\ Subscribed) /\ Landed("mihomo") /\ Landed("singbox")
  BY DEF Achieved, Repeated, Repeating, ReadAgain, InstallAgain, RestartAgain, LoadNaive
<1>5. (me.ok => Settled("xray")' /\ Subscribed') /\ Landed("mihomo")' /\ Landed("singbox")'
  BY <1>3, <1>4
<1>6. \A x : Rows(x)' = Rows(x) /\ Assigned(x)' = Assigned(x)
  BY <1>3, RowsStay
<1>7. ASSUME ReadAgain(w) PROVE Achieved(st)'
  <2>1. st.at = "installAgain" /\ st.ok = me.ok /\ st.body = Rows("awg31")
    BY <1>1, <1>7 DEF ReadAgain, WorkersOK, Body
  <2> QED BY <1>5, <1>6, <2>1 DEF Achieved, Rendered, Passed, Repeated, Loaded, Placing, Repeating
<1>8. ASSUME InstallAgain(w) PROVE Achieved(st)'
  <2>1. st.at = "restartAgain" /\ st.ok = me.ok
    BY <1>1, <1>8 DEF InstallAgain, WorkersOK
  <2>2. live' = [live EXCEPT !["awg31"] = me.body] /\ me.body = Rows("awg31")
    BY <1>8 DEF InstallAgain, Achieved, Repeated, Repeating
  <2>3. live'["awg31"] = Rows("awg31")
    BY <2>2, Kinds DEF RuntimeOK
  <2> QED BY <1>5, <1>6, <2>1, <2>3 DEF Achieved, Rendered, Passed, Repeated, Loaded, Placing, Repeating
<1>9. ASSUME RestartAgain(w), me.ok PROVE Achieved(st)'
  <2>1. wk'[w] = [me EXCEPT !.at = "naive"] /\ me \in AtAgain
    BY <1>9, WorkerTypes DEF RestartAgain, WorkersOK
  <2>2. st.at = "naive" /\ st.ok = me.ok
    BY <1>1, <2>1 DEF AtAgain
  <2>3. live["awg31"] = Rows("awg31") /\ running' = [running EXCEPT !["awg31"] = live["awg31"]]
        /\ status' = Marked(Devices, "awg31", "applied")
    BY <1>9 DEF RestartAgain, Achieved, Repeated, MarkedUp
  <2>4. running'["awg31"] = Rows("awg31")
    BY <2>3, Kinds DEF RuntimeOK
  <2>5. \A d \in Rows("awg31") : status'[d]["awg31"] = "applied"
    BY <2>3, MarkedOthers DEF Rows
  <2>6. Settled("awg31")'
    BY <1>3, <2>4, <2>5, SettledNow
  <2> QED BY <1>5, <1>9, <2>2, <2>6 DEF Achieved, Rendered, Passed, Repeated, Loaded, Placing, Repeating
<1>10. ASSUME LoadNaive(w) PROVE Achieved(st)'
  <2>1. st.at = "naiveInstall" /\ st.rows = Rows("naive") /\ st.ids = Assigned("naive") /\ domain
    BY <1>1, <1>10 DEF LoadNaive, WorkersOK
  <2>2. me.at = "naive" /\ me.ok /\ Settled("awg31")
    BY <1>10 DEF LoadNaive, Achieved, Repeated
  <2>3. Only("naive")
    BY <2>2 DEF Where, Placing, Repeating
  <2>4. Settled("awg31")' /\ domain'
    BY <1>3, <2>1, <2>2, <2>3, OnlyKeeps, Kinds DEF Reworded
  <2>5. Loaded(st)'
    BY <1>5, <1>6, <2>1, <2>2, <2>4 DEF Loaded, Locally
  <2> QED BY <2>1, <2>5 DEF Achieved, Rendered, Passed, Repeated, Placing, Repeating
<1> QED BY <1>1, <1>7, <1>8, <1>9, <1>10

LEMMA WorkerAchieves ==
  ASSUME CatalogueOK, WorkersOK, RuntimeOK, NEW w \in Workers, WorkerStep(w), Achieved(wk[w])
  PROVE  (Achieved(wk[w])' /\ UNCHANGED rq) \/ Tell(w, FALSE) \/ (Tell(w, TRUE) /\ AllDone')
<1>1. Only(Where(wk[w]))
  BY WorkerOnly
<1>2. ASSUME TakeLock(w) PROVE Achieved(wk[w])'
  <2>1. PICK st : st = wk'[w]
    OBVIOUS
  <2>2. st.at = "begin" /\ st.i = 1
    BY <1>2, <2>1 DEF TakeLock, WorkersOK
  <2>3. Achieved(st)'
    BY <2>2 DEF Achieved, Rendered, Passed, Repeated, Loaded, Placing, Repeating
  <2> QED BY <2>1, <2>3
<1>3. ASSUME NoLock(w) \/ FailAgain(w) \/ NaiveRefused(w) \/ NaiveUndone(w) \/ (RestartAgain(w) /\ ~wk[w].ok)
      PROVE  Tell(w, FALSE)
  BY <1>3 DEF NoLock, FailAgain, NaiveRefused, NaiveUndone, RestartAgain
<1>4. ASSUME SkipNaive(w) PROVE Tell(w, TRUE) /\ AllDone'
  <2>1. wk[w].at = "naive" /\ ~domain /\ Assigned("naive") = {}
    BY <1>4 DEF SkipNaive
  <2>2. AllDone
    BY <2>1 DEF Achieved, Repeated, AllDone, Locally
  <2>3. UNCHANGED <<database, runtime>>
    BY <1>4 DEF SkipNaive
  <2>4. AllDone'
    BY <2>2, <2>3 DEF AllDone, Locally, Settled, Subscribed, Landed, Serves, Rows, Assigned, Has,
                      database, runtime
  <2> QED BY <1>4, <2>4 DEF SkipNaive
<1>5. ASSUME SyncNaive(w) PROVE Tell(w, TRUE) /\ AllDone'
  <2>1. wk[w].at = "naiveInstall" /\ Only("naive") /\ Reworded
    BY <1>1, <1>5 DEF SyncNaive, Where, Placing, Repeating, Only
  <2>2. Locally /\ domain /\ wk[w].rows = Rows("naive") /\ wk[w].ids = Assigned("naive")
    BY <2>1 DEF Achieved, Loaded
  <2>3. running'["naive"] = Rows("naive") /\ status' = Marked(Assigned("naive"), "naive", "applied")
    BY <1>5, <2>2, Kinds DEF SyncNaive, RuntimeOK
  <2>4. \A d \in Rows("naive") : status'[d]["naive"] = "applied"
    BY <2>3, MarkedOthers DEF Rows, Assigned
  <2>5. Settled("naive")'
    BY <2>1, <2>3, <2>4, SettledNow
  <2>6. Locally'
    BY <2>1, <2>2, OnlyKeeps, Kinds DEF Locally
  <2>7. domain'
    BY <2>1, <2>2 DEF Reworded
  <2> QED BY <1>5, <2>5, <2>6, <2>7 DEF AllDone, SyncNaive
<1>6. ASSUME StopIdle(w) \/ IdleMihomo(w) \/ Subscriptions(w) \/ RestartEngine(w) \/ Settle(w)
      PROVE  Achieved(wk[w])'
  BY <1>1, <1>6, ResultStep
<1>7. ASSUME \/ BeginEngine(w) \/ ReadRows(w) \/ Install(w) \/ NotInstalled(w) \/ RestartFails(w)
             \/ RestoreConfig(w)
      PROVE  Achieved(wk[w])'
  BY <1>1, <1>7, PlacingStep
<1>8. ASSUME ReadAgain(w) \/ InstallAgain(w) \/ (RestartAgain(w) /\ wk[w].ok) \/ LoadNaive(w)
      PROVE  Achieved(wk[w])'
  BY <1>1, <1>8, RepeatStep
<1>9. \/ TakeLock(w) \/ StopIdle(w) \/ IdleMihomo(w) \/ Subscriptions(w) \/ RestartEngine(w)
      \/ Settle(w) \/ BeginEngine(w) \/ ReadRows(w) \/ Install(w) \/ NotInstalled(w)
      \/ RestartFails(w) \/ RestoreConfig(w) \/ ReadAgain(w) \/ InstallAgain(w)
      \/ (RestartAgain(w) /\ wk[w].ok) \/ LoadNaive(w)
      => UNCHANGED rq
  BY DEF TakeLock, StopIdle, IdleMihomo, Subscriptions, RestartEngine, Settle, BeginEngine, ReadRows,
         Install, NotInstalled, RestartFails, RestoreConfig, ReadAgain, InstallAgain, RestartAgain,
         LoadNaive
<1> QED BY <1>2, <1>3, <1>4, <1>5, <1>6, <1>7, <1>8, <1>9 DEF WorkerStep

LEMMA AnsweredAlone ==
  ASSUME NEW me \in BusyRequests, NEW good
  PROVE  /\ Answered(me, good).alone = me.alone
         /\ ~good => Answered(me, good).at = "failed"
BY DEF Answered, Done, BusyRequests

\* The worker that serves an undisturbed request is the only one.
LEMMA OnlyWorker ==
  ASSUME ServedOnce, NEW r \in Requests, Solo(r), NEW w \in Workers, wk[w] # NoWorker
  PROVE  rq[r].at = "wait" /\ wk[w].for = {r} /\ \A v \in Workers \ {w} : wk[v] = NoWorker
<1>1. \A v \in Workers : wk[v] # NoWorker => Serving(v, r)
  BY DEF Solo, Serving
<1> QED BY <1>1 DEF ServedOnce, Solo

LEMMA AloneWorker ==
  ASSUME IInv, AloneOK, NEW w \in Workers, WorkerStep(w)
  PROVE  AloneOK'
<1> USE DEF IInv
<1> SUFFICES ASSUME NEW r \in Requests, Alone(r)' PROVE Solo(r)'
  BY DEF AloneOK
<1>1. wk[w] # NoWorker /\ \A v \in Workers \ {w} : wk'[v] = wk[v]
  BY WorkerAnswers DEF GoesOn, Answers, WorkersOK
<1>2. \A q \in Requests : rq[q].at = "wait" => rq[q] \in BusyRequests /\ rq[q] # NoRequest
  BY BusyRecord DEF Busy
<1>3. UNCHANGED rq \/ \E good \in BOOLEAN : Tell(w, good)
  BY WorkerAnswers DEF GoesOn, Answers
<1>4. \A q \in wk[w].for : q \in Requests => rq[q].at = "wait"
  BY <1>1 DEF ServedOnce, Serving
<1>5. Alone(r)
  <2>1. CASE UNCHANGED rq
    BY <2>1 DEF Alone
  <2>2. ASSUME NEW good, Tell(w, good) PROVE Alone(r)
    BY <1>2, <1>4, <2>2, AnsweredAlone DEF Alone, Tell
  <2> QED BY <1>3, <2>1, <2>2
<1>6. Solo(r)
  BY <1>5 DEF AloneOK
<1>7. rq[r].at = "wait" /\ wk[w].for = {r} /\ \A v \in Workers \ {w} : wk'[v] = NoWorker
  BY <1>1, <1>6, OnlyWorker
<1>8. \A q \in Requests \ {r} : rq'[q] = rq[q]
  BY <1>3, <1>7 DEF Tell
<1>9. \A q \in Requests \ {r} : ~Busy(q)'
  BY <1>6, <1>8 DEF Solo, Busy
<1>10. Achieved(wk[w])
  BY <1>1, <1>6 DEF Solo
<1>11. CASE GoesOn(w)
  <2>1. wk'[w] # NoWorker /\ wk'[w].for = {r} /\ rq'[r].at = "wait"
    BY <1>7, <1>11 DEF GoesOn
  <2>2. ASSUME NEW good \in BOOLEAN, Tell(w, good) PROVE rq'[r].at # "wait"
    BY <1>2, <1>7, <2>2, AnsweredOK DEF Tell, RequestsOK
  <2>3. Achieved(wk[w])'
    BY <1>10, <2>1, <2>2, WorkerAchieves
  <2> QED BY <1>7, <1>9, <2>1, <2>3 DEF Solo
<1>12. CASE Answers(w)
  <2>1. wk'[w] = NoWorker
    BY <1>12 DEF Answers, WorkersOK
  <2>2. wk' = [v \in Workers |-> NoWorker]
    BY <1>7, <1>12, <2>1 DEF Answers, WorkersOK
  <2>3. UNCHANGED rq \/ Tell(w, FALSE) \/ AllDone'
    BY <1>10, WorkerAchieves
  <2>4. ASSUME Tell(w, FALSE) PROVE rq'[r].at = "failed"
    <3>1. rq'[r] = [rq[r] EXCEPT !.at = "failed"] /\ rq[r] \in BusyRequests
      BY <1>2, <1>7, <2>4 DEF Tell, Answered
    <3> QED BY <3>1 DEF BusyRequests
  <2>5. rq'[r].at = "answered" => AllDone'
    BY <1>7, <2>3, <2>4
  <2> QED BY <1>9, <2>2, <2>5 DEF Solo
<1> QED BY <1>11, <1>12, WorkerAnswers

LEMMA AlonePanel ==
  ASSUME IInv, AloneOK, NEW r \in Requests,
         Change(r) \/ Prepare(r) \/ Fail(r) \/ Undo(r) \/ \E w \in Workers : Call(r, w)
  PROVE  AloneOK'
<1> USE DEF IInv
<1> SUFFICES ASSUME NEW q \in Requests, Alone(q)' PROVE Solo(q)'
  BY DEF AloneOK
<1>1. Busy(r) /\ rq[r].at # "wait"
  BY DEF Change, Prepare, Fail, Undo, Call, Busy
<1>2. rq[r] \in BusyRequests /\ rq[r] # NoRequest /\ rq \in [Requests -> RequestRecords]
  BY <1>1, BusyRecord DEF RequestsOK
<1>3. \A p \in Requests \ {r} : rq'[p] = rq[p]
  BY <1>2 DEF Change, Prepare, Fail, Undo, Call
<1>4. q = r
  <2> SUFFICES ASSUME q # r PROVE FALSE
    OBVIOUS
  <2>1. Solo(q)
    BY <1>3 DEF Alone, AloneOK
  <2> QED BY <1>1, <2>1 DEF Solo
<1>5. /\ rq'[r] # NoRequest => rq'[r].alone = rq[r].alone
      /\ rq'[r].at = "answered" => rq'[r].answer = "failed"
  <2>1. CASE Change(r)
    BY <1>2, <2>1 DEF Change, Done, BusyRequests, NoRequest
  <2>2. CASE Prepare(r)
    BY <1>2, <2>2 DEF Prepare, BusyRequests
  <2>3. CASE Fail(r)
    BY <1>2, <2>3 DEF Fail, Done, BusyRequests
  <2>4. CASE Undo(r)
    BY <1>2, <2>4 DEF Undo, BusyRequests
  <2>5. CASE \E w \in Workers : Call(r, w)
    BY <1>2, <2>5 DEF Call, BusyRequests
  <2> QED BY <2>1, <2>2, <2>3, <2>4, <2>5
<1>6. Solo(r)
  BY <1>2, <1>4, <1>5 DEF Alone, AloneOK
<1>7. \A w \in Workers : wk[w] = NoWorker
  BY <1>1, <1>6, OnlyWorker
<1>8. \A p \in Requests \ {r} : ~Busy(p)'
  BY <1>3, <1>6 DEF Solo, Busy
<1>9. CASE UNCHANGED wk
  BY <1>4, <1>5, <1>7, <1>8, <1>9 DEF Solo
<1>10. ASSUME NEW w \in Workers, Call(r, w) PROVE Solo(r)'
  <2>1. PICK st : st = wk'[w]
    OBVIOUS
  <2>2. st.at = "lock" /\ st.for = {r} /\ \A v \in Workers \ {w} : wk'[v] = NoWorker
    BY <1>7, <1>10, <2>1 DEF Call, WorkersOK
  <2>3. Achieved(st)'
    BY <2>2 DEF Achieved, Rendered, Passed, Repeated, Loaded, Placing, Repeating
  <2> QED BY <1>5, <1>8, <2>1, <2>2, <2>3 DEF Solo
<1> QED BY <1>4, <1>9, <1>10 DEF Change, Prepare, Fail, Undo

LEMMA AloneBegin ==
  ASSUME IInv, AloneOK, NEW r \in Requests, NEW op \in Ops, NEW d \in Devices, NEW menu \in Menus,
         BeginRequest(r, op, d, menu)
  PROVE  AloneOK'
<1> USE DEF IInv
<1> SUFFICES ASSUME NEW q \in Requests, Alone(q)' PROVE Solo(q)'
  BY DEF AloneOK
<1> DEFINE c == Subject(op, d)
           old == Disturbed(r, c)
<1>1. /\ \A p \in Requests \ {r} : rq'[p] = old[p]
      /\ rq'[r].at = "change"
      /\ rq'[r].alone = ((\A p \in Requests \ {r} : ~Busy(p)) /\ (\A w \in Workers : wk[w] = NoWorker))
      /\ UNCHANGED wk
  BY DEF BeginRequest, Disturbed
<1>2. ASSUME NEW p \in Requests, rq[p] # NoRequest
      PROVE  old[p].at = rq[p].at /\ old[p].alone = FALSE
  <2>1. old[p] = [rq[p] EXCEPT !.alone = FALSE, !.sole = @ /\ rq[p].client # c]
    BY <1>2 DEF Disturbed
  <2>2. rq[p] \in BusyRequests \cup DoneRequests
    BY <1>2 DEF RequestsOK, RequestRecords
  <2> QED BY <2>1, <2>2 DEF BusyRequests, DoneRequests
<1>3. \A p \in Requests : rq[p] = NoRequest => old[p] = NoRequest
  BY DEF Disturbed
<1> HIDE DEF old
<1>4. q = r
  BY <1>1, <1>2, <1>3 DEF Alone
<1>5. (\A p \in Requests \ {r} : ~Busy(p)) /\ (\A w \in Workers : wk[w] = NoWorker)
  BY <1>1, <1>4 DEF Alone
<1>6. \A p \in Requests \ {r} : ~Busy(p)'
  BY <1>1, <1>2, <1>3, <1>5 DEF Busy
<1> QED BY <1>1, <1>4, <1>5, <1>6 DEF Solo

LEMMA AloneFaults ==
  ASSUME IInv, AloneOK, HostdDies \/ \E r \in Requests : TimeOut(r)
  PROVE  AloneOK'
<1> USE DEF IInv
<1> SUFFICES ASSUME NEW q \in Requests, Alone(q)' PROVE Solo(q)'
  BY DEF AloneOK
<1>1. ASSUME NEW r \in Requests, TimeOut(r) PROVE FALSE
  <2>1. Busy(r) /\ rq[r] \in BusyRequests /\ rq[r] # NoRequest
    BY <1>1, BusyRecord DEF TimeOut, Busy
  <2>2. rq'[r] = [rq[r] EXCEPT !.at = "failed", !.alone = FALSE] /\ \A p \in Requests \ {r} : rq'[p] = rq[p]
    BY <1>1 DEF TimeOut, Answered, RequestsOK
  <2>3. rq'[r].alone = FALSE
    BY <2>1, <2>2 DEF BusyRequests
  <2>4. q # r /\ Solo(q)
    BY <2>2, <2>3 DEF Alone, AloneOK
  <2> QED BY <2>1, <2>4 DEF Solo
<1>2. CASE HostdDies
  <2>1. ASSUME NEW p \in Requests, rq[p].at = "wait"
        PROVE  rq[p] # NoRequest /\ rq'[p].at = "failed" /\ rq'[p].alone = rq[p].alone
    <3>1. rq[p] \in BusyRequests /\ rq[p] # NoRequest
      BY <2>1, BusyRecord DEF Busy
    <3>2. rq'[p] = [rq[p] EXCEPT !.at = "failed"]
      BY <1>2, <2>1 DEF HostdDies, Answered
    <3> QED BY <3>1, <3>2 DEF BusyRequests
  <2>2. \A p \in Requests : rq[p].at # "wait" => rq'[p] = rq[p]
    BY <1>2 DEF HostdDies
  <2>3. Solo(q)
    BY <2>1, <2>2 DEF Alone, AloneOK
  <2>4. \A p \in Requests \ {q} : ~Busy(p)'
    BY <2>2, <2>3 DEF Solo, Busy
  <2>5. \A w \in Workers : wk'[w] = NoWorker
    BY <1>2 DEF HostdDies
  <2>6. AllDone => AllDone'
    BY <1>2 DEF HostdDies, AllDone, Locally, Settled, Subscribed, Landed, Serves, Rows, Assigned, Has,
                database, runtime
  <2> QED BY <2>1, <2>2, <2>3, <2>4, <2>5, <2>6 DEF Solo
<1> QED BY <1>1, <1>2

LEMMA NextAlone == IInv /\ AloneOK /\ [Next]_vars => AloneOK'
<1> SUFFICES ASSUME IInv, AloneOK, [Next]_vars PROVE AloneOK'
  OBVIOUS
<1>1. CASE UNCHANGED vars
  <2>1. UNCHANGED <<rq, wk>> /\ UNCHANGED database /\ UNCHANGED runtime
    BY <1>1 DEF vars, database, runtime
  <2>2. ASSUME NEW w \in Workers, Achieved(wk[w]) PROVE Achieved(wk[w])'
    BY <2>1, <2>2 DEF Achieved, Rendered, Passed, Repeated, Loaded, Locally, Settled, Subscribed, Landed,
                      Serves, Rows, Assigned, Has, database, runtime
  <2>3. AllDone => AllDone'
    BY <2>1 DEF AllDone, Locally, Settled, Subscribed, Landed, Serves, Rows, Assigned, Has, database, runtime
  <2> QED BY <2>1, <2>2, <2>3 DEF AloneOK, Alone, Solo, Busy
<1> QED BY <1>1, AloneWorker, AlonePanel, AloneBegin, AloneFaults DEF Next, RequestStep

LEMMA InitAlone == Init => AloneOK
BY DEF Init, AloneOK, Alone

-----------------------------------------------------------------------------
\* What the panel shows of a settled engine.

LEMMA SettledIsTruthful ==
  ASSUME NEW e, Settled(e), HasHost(e)
  PROVE  Truthful(e)
<1>1. ASSUME NEW d \in Devices PROVE Card(d, e) = "applied" <=> d \in Rows(e)
  <2>1. CASE d \in Rows(e)
    <3>1. client[Owner[d]] = "on" /\ device[d] = "on" /\ Has(d, e) /\ status[d][e] = "applied"
      BY <2>1 DEF Rows, Settled
    <3>2. e \in Offered(d)
      BY <2>1, <3>1 DEF Offered, Applied, Has
    <3> QED BY <2>1, <3>1, <3>2 DEF Card
  <2>2. CASE d \notin Rows(e)
    BY <2>2 DEF Card
  <2> QED BY <2>1, <2>2
<1>2. Rows(e) \subseteq Devices
  BY DEF Rows
<1> QED BY <1>1, <1>2 DEF Truthful, Settled

LEMMA AllDoneFeeds ==
  ASSUME AllDone
  PROVE  FeedsAreTrue
<1>1. \A e \in Critical : HasHost(e) => Settled(e)
  BY DEF AllDone, Locally, HasHost, Critical
<1>2. ASSUME NEW c \in Clients, NEW link \in ClientFeed(c), link[2] \in Critical
      PROVE  link[1] \in Serves(link[2])
  <2>1. link[2] \in Offered(link[1])
    BY <1>2 DEF ClientFeed, Document
  <2>2. link[1] \in Rows(link[2]) /\ HasHost(link[2])
    BY <2>1 DEF Offered, Applied
  <2> QED BY <1>1, <1>2, <2>2 DEF Settled
<1>3. ASSUME NEW d \in Rows("xray") \cap Rows("sgclient") PROVE "xray" \in Feed(d)
  <2>1. status[d]["xray"] = "applied" /\ status[d]["sgclient"] = "applied"
    BY DEF AllDone, Locally, Settled, Subscribed
  <2>2. Has(d, "xray") /\ Has(d, "sgclient")
    BY DEF Rows
  <2>3. "xray" \in Offered(d) /\ "sgclient" \in Offered(d)
    BY <2>1, <2>2 DEF Offered, Applied, Has, HasHost
  <2> QED BY <2>3 DEF Feed, PlainLinks
<1> QED BY <1>2, <1>3 DEF FeedsAreTrue

LEMMA AloneIsTrue == AloneOK => AnswerIsTrue /\ NothingInFlight
<1> SUFFICES ASSUME AloneOK, NEW r \in Requests, rq[r].at = "answered", rq[r].alone, rq[r].answer # "failed"
             PROVE  /\ \A e \in Critical : HasHost(e) => Truthful(e)
                    /\ FeedsAreTrue
                    /\ \A e \in Services : \A d \in Rows(e) :
                         status[d][e] \notin {"pending", "checking", "applying"}
  BY DEF AnswerIsTrue, NothingInFlight
<1>1. AllDone
  BY DEF AloneOK, Alone, Solo, NoRequest
<1>2. \A e \in Critical : HasHost(e) => Truthful(e)
  BY <1>1, SettledIsTruthful DEF AllDone, Locally, HasHost, Critical
<1>3. ASSUME NEW e \in Services, NEW d \in Rows(e)
      PROVE  status[d][e] \notin {"pending", "checking", "applying"}
  <2>1. e = "naive" => domain
    BY <1>1 DEF AllDone, Rows, Assigned
  <2>2. CASE e \in {"awg31", "xray", "naive"}
    BY <1>1, <2>1, <2>2 DEF AllDone, Locally, Settled
  <2>3. CASE e \in {"mihomo", "singbox"}
    BY <1>1, <2>3 DEF AllDone, Locally, Landed
  <2> QED BY <2>2, <2>3 DEF Services, Engines
<1> QED BY <1>1, <1>2, <1>3, AllDoneFeeds

-----------------------------------------------------------------------------
\* Requests that overlap while nothing goes wrong.

LEMMA FaultCounts ==
  ASSUME SpentOK, Fault
  PROVE  SpentOK' /\ spent'.faults # 0
BY DEF SpentOK, Fault

\* The holder of the lock is the only worker that is at Xray.
LEMMA OneAtXray ==
  ASSUME WorkersOK, NEW w \in Workers, Holds(w), NEW v \in Workers \ {w}
  PROVE  ~AtXray(wk[v]) /\ ~Holds(v)
BY DEF WorkersOK, Holds, AtXray, Placing

\* What a worker step does to its record.
LEMMA ResultMoves ==
  ASSUME WorkersOK, NEW w \in Workers, NEW good, Result(w, good), Holds(w)
  PROVE  /\ wk[w].i < 5 => wk'[w].at = "begin" /\ wk'[w].i = wk[w].i + 1
         /\ ~(wk[w].i < 5) => wk'[w].at = "again"
BY LockedAre DEF Result, WorkersOK

LEMMA PlacingMoves ==
  ASSUME WorkersOK, NEW w \in Workers,
         \/ BeginEngine(w) \/ ReadRows(w) \/ Install(w) \/ NotInstalled(w) \/ RestartFails(w)
         \/ RestoreConfig(w)
  PROVE  wk'[w].at \in Placing /\ wk'[w].i = wk[w].i
<1> DEFINE me == wk[w]
<1>1. me.at \in Placing => me \in AtEngine
  BY WorkerTypes DEF WorkersOK, Placing
<1>2. CASE BeginEngine(w)
  <2>1. \E at \in Placing : \E rows, body, was :
          wk'[w] = [at |-> at, for |-> me.for, i |-> me.i, ok |-> me.ok,
                    rows |-> rows, body |-> body, applied |-> was]
    BY <1>2 DEF BeginEngine, WorkersOK, Placing
  <2> QED BY <2>1
<1>3. CASE ReadRows(w)
  <2>1. me.at = "read" /\ \E body : wk'[w] = [me EXCEPT !.at = "install", !.body = body]
    BY <1>3 DEF ReadRows, WorkersOK
  <2> QED BY <1>1, <2>1 DEF AtEngine, Placing
<1>4. CASE Install(w) \/ NotInstalled(w) \/ RestartFails(w) \/ RestoreConfig(w)
  <2>1. me.at \in Placing /\ \E s \in Placing : wk'[w] = [me EXCEPT !.at = s]
    BY <1>4 DEF Install, NotInstalled, RestartFails, RestoreConfig, WorkersOK, Placing
  <2> QED BY <1>1, <2>1 DEF AtEngine
<1> QED BY <1>2, <1>3, <1>4

\* A worker comes to Xray only from where Xray begins.
LEMMA ElsewhereMoves ==
  ASSUME WorkersOK, NEW w \in Workers, WorkerStep(w), ~AtXray(wk[w]),
         ~(wk[w].at = "begin" /\ wk[w].i = 2)
  PROVE  ~AtXray(wk'[w]) /\ Where(wk[w]) # "xray"
<1> DEFINE me == wk[w]
<1>1. me.at \in Placing \cup {"begin"} => me.i # 2 /\ me.i \in 1..5 /\ Holds(w)
  BY AtStage DEF AtXray
<1>2. Where(me) # "xray"
  BY <1>1, LockedAre DEF Where
<1>3. ASSUME StopIdle(w) \/ IdleMihomo(w) \/ Subscriptions(w) \/ RestartEngine(w) \/ Settle(w)
      PROVE  ~AtXray(wk'[w])
  <2>1. (\E good : Result(w, good)) /\ me.at \in Placing \cup {"begin"}
    BY <1>3 DEF StopIdle, IdleMihomo, Subscriptions, RestartEngine, Settle, Placing
  <2>2. wk'[w].at \in {"begin", "again"}
    BY <1>1, <2>1, ResultMoves
  <2> QED BY <2>2 DEF AtXray, Placing
<1>4. ASSUME \/ BeginEngine(w) \/ ReadRows(w) \/ Install(w) \/ NotInstalled(w) \/ RestartFails(w)
             \/ RestoreConfig(w)
      PROVE  ~AtXray(wk'[w])
  <2>1. me.at \in Placing \cup {"begin"}
    BY <1>4 DEF BeginEngine, ReadRows, Install, NotInstalled, RestartFails, RestoreConfig, Placing
  <2> QED BY <1>1, <1>4, <2>1, PlacingMoves DEF AtXray
<1>5. ASSUME TakeLock(w) \/ ReadAgain(w) \/ InstallAgain(w) \/ LoadNaive(w)
      PROVE  ~AtXray(wk'[w])
  <2>1. wk'[w].at \in {"begin", "installAgain", "restartAgain", "naiveInstall"}
    BY <1>5 DEF TakeLock, ReadAgain, InstallAgain, LoadNaive, WorkersOK
  <2> QED BY <2>1 DEF AtXray, Placing
<1>6. ASSUME \/ NoLock(w) \/ FailAgain(w) \/ SkipNaive(w) \/ NaiveRefused(w) \/ SyncNaive(w)
             \/ NaiveUndone(w)
      PROVE  ~AtXray(wk'[w])
  <2>1. wk'[w] = NoWorker
    BY <1>6 DEF NoLock, FailAgain, SkipNaive, NaiveRefused, SyncNaive, NaiveUndone, WorkersOK
  <2> QED BY <2>1 DEF AtXray, Placing, NoWorker
<1>7. ASSUME RestartAgain(w) PROVE ~AtXray(wk'[w])
  <2>1. (wk'[w] = [me EXCEPT !.at = "naive"] \/ wk'[w] = NoWorker) /\ me \in AtAgain
    BY <1>7, WorkerTypes DEF RestartAgain, WorkersOK
  <2> QED BY <2>1 DEF AtAgain, AtXray, Placing, NoWorker
<1> QED BY <1>2, <1>3, <1>4, <1>5, <1>6, <1>7 DEF WorkerStep

\* From there it either finds nobody to serve, or sets out to apply the rows as
\* they are.
LEMMA XrayBegins ==
  ASSUME IInv, SpentOK, NEW w \in Workers, WorkerStep(w), wk[w].at = "begin", wk[w].i = 2,
         spent'.faults = 0
  PROVE  Fresh'
<1> USE DEF IInv
<1> DEFINE me == wk[w]
<1>1. Engine(w) = "xray" /\ Holds(w) /\ Only("xray") /\ Reworded
  BY AtStage, WorkerOnly DEF Placing, Only
<1>2. \A v \in Workers \ {w} : ~AtXray(wk[v]) /\ wk'[v] = wk[v]
  BY <1>1, OneAtXray, WorkerAnswers DEF GoesOn, Answers, WorkersOK
<1>3. StopIdle(w) \/ BeginEngine(w)
  BY <1>1 DEF WorkerStep, TakeLock, NoLock, IdleMihomo, Subscriptions, ReadRows,
         Install, NotInstalled, RestartEngine, RestartFails, RestoreConfig, Settle, ReadAgain,
         InstallAgain, RestartAgain, FailAgain, SkipNaive, LoadNaive, NaiveRefused, SyncNaive, NaiveUndone
<1>4. CASE StopIdle(w)
  <2>1. Rows("xray") = {} /\ running' = [running EXCEPT !["xray"] = None] /\ Result(w, TRUE)
    BY <1>1, <1>4, FaultCounts DEF StopIdle
  <2>2. running'["xray"] = None
    BY <2>1, Kinds DEF RuntimeOK
  <2>3. Settled("xray")'
    BY <1>1, <2>1, <2>2, SettledIdle
  <2>4. wk'[w].at = "begin"
    <3>1. PICK good : Result(w, good)
      BY <2>1
    <3> QED BY <1>1, <3>1, ResultMoves
  <2>5. \A v \in Workers : ~AtXray(wk'[v])
    BY <1>2, <2>4 DEF AtXray, Placing
  <2> QED BY <2>3, <2>5 DEF Fresh
<1>5. CASE BeginEngine(w)
  <2>1. PICK st : st = wk'[w]
    OBVIOUS
  <2>2. st.at = "install" /\ st.rows = Rows("xray") /\ st.body = Body("xray") /\ st.i = 2
    BY <1>1, <1>5, <2>1 DEF BeginEngine, WorkersOK
  <2>3. Rows("xray")' = Rows("xray") /\ Body("xray") = Rows("xray")
    BY <1>1, RowsStay DEF Body
  <2>4. Covers(st)'
    BY <2>2, <2>3 DEF Covers, AtXray, Placing
  <2> QED BY <2>1, <2>4 DEF Fresh
<1> QED BY <1>3, <1>4, <1>5

\* A request that owes keeps owing, or its worker comes to Xray.
LEMMA AheadStep ==
  ASSUME IInv, SpentOK, NEW w \in Workers, WorkerStep(w), Ahead(wk[w]),
         NEW q \in Requests, Serving(w, q), spent'.faults = 0
  PROVE  Owes(q)' \/ Fresh'
<1> USE DEF IInv
<1> DEFINE me == wk[w]
<1>1. CASE me.at = "begin" /\ me.i = 2
  BY <1>1, XrayBegins
<1>2. CASE me.at = "lock"
  <2>1. TakeLock(w) \/ NoLock(w)
    BY <1>2 DEF WorkerStep, StopIdle, IdleMihomo, Subscriptions, BeginEngine, ReadRows,
         Install, NotInstalled, RestartEngine, RestartFails, RestoreConfig, Settle, ReadAgain,
         InstallAgain, RestartAgain, FailAgain, SkipNaive, LoadNaive, NaiveRefused, SyncNaive, NaiveUndone
  <2>2. CASE TakeLock(w)
    <3>1. wk'[w] = [at |-> "begin", for |-> me.for, i |-> 1, ok |-> TRUE]
      BY <2>2 DEF TakeLock, WorkersOK
    <3>2. Serving(w, q)' /\ Ahead(wk[w])'
      BY <3>1 DEF Serving, Ahead, NoWorker
    <3> QED BY <3>2 DEF Owes
  <2>3. CASE NoLock(w)
    <3>1. rq[q].at = "wait" /\ q \in me.for
      BY DEF ServedOnce, Serving
    <3>2. rq[q] \in BusyRequests
      BY <3>1, BusyRecord DEF Busy
    <3>3. rq'[q] = [rq[q] EXCEPT !.at = "failed"]
      BY <2>3, <3>1 DEF NoLock, Tell, Answered
    <3>4. rq'[q].at = "failed"
      BY <3>2, <3>3 DEF BusyRequests
    <3> QED BY <3>4 DEF Owes
  <2> QED BY <2>1, <2>2, <2>3
<1>3. CASE me.at \in Placing \cup {"begin"} /\ me.i = 1
  <2>1. Engine(w) = "awg31" /\ Holds(w)
    BY <1>3, AtStage
  <2>2. ~IdleMihomo(w) /\ ~Subscriptions(w)
    BY <2>1 DEF IdleMihomo, Subscriptions
  <2>3. \/ StopIdle(w) \/ RestartEngine(w) \/ Settle(w)
        \/ BeginEngine(w) \/ ReadRows(w) \/ Install(w) \/ NotInstalled(w) \/ RestartFails(w)
        \/ RestoreConfig(w)
    BY <1>3, <2>2 DEF WorkerStep, TakeLock, NoLock, ReadAgain, InstallAgain, RestartAgain, FailAgain,
         SkipNaive, LoadNaive, NaiveRefused, SyncNaive, NaiveUndone, Placing
  <2>4. UNCHANGED rq
    BY <2>3 DEF StopIdle, RestartEngine, Settle, BeginEngine, ReadRows, Install, NotInstalled,
                RestartFails, RestoreConfig
  <2>5. wk'[w].at \in Placing \cup {"begin"} /\ wk'[w].i \in {1, 2} /\ (wk'[w].i = 2 => wk'[w].at = "begin")
    <3>1. CASE StopIdle(w) \/ RestartEngine(w) \/ Settle(w)
      <4>1. PICK good : Result(w, good)
        BY <3>1 DEF StopIdle, RestartEngine, Settle
      <4> QED BY <1>3, <2>1, <4>1, ResultMoves
    <3>2. CASE \/ BeginEngine(w) \/ ReadRows(w) \/ Install(w) \/ NotInstalled(w) \/ RestartFails(w)
               \/ RestoreConfig(w)
      BY <1>3, <3>2, PlacingMoves
    <3> QED BY <2>3, <3>1, <3>2
  <2>6. Ahead(wk[w])'
    <3>1. PICK st : st = wk'[w]
      OBVIOUS
    <3>2. Ahead(st)'
      BY <2>5, <3>1 DEF Ahead
    <3> QED BY <3>1, <3>2
  <2>7. Serving(w, q)'
    <3>1. GoesOn(w)
      <4>1. rq[q].at = "wait" /\ q \in me.for
        BY DEF ServedOnce, Serving
      <4>2. rq[q] \in BusyRequests /\ RequestOK(rq[q])
        BY <4>1, BusyRecord DEF Busy
      <4>3. ~Answers(w)
        BY <2>4, <4>1, <4>2, AnsweredOK DEF Answers, Tell
      <4> QED BY <4>3, WorkerAnswers
    <3> QED BY <3>1 DEF GoesOn, Serving
  <2> QED BY <2>6, <2>7 DEF Owes
<1> QED BY <1>1, <1>2, <1>3 DEF Ahead

LEMMA OwesWorker ==
  ASSUME IInv, SpentOK, NEW w \in Workers, WorkerStep(w), NEW q \in Requests, Owes(q),
         spent'.faults = 0
  PROVE  Owes(q)' \/ Fresh'
<1> USE DEF IInv
<1>1. \A v \in Workers \ {w} : wk'[v] = wk[v]
  BY WorkerAnswers DEF GoesOn, Answers, WorkersOK
<1>2. UNCHANGED <<client, device>>
  BY WorkerReworded DEF Reworded
<1>3. ASSUME rq[q].at # "wait" PROVE rq'[q] = rq[q]
  <2>1. ~Serving(w, q)
    BY <1>3 DEF ServedOnce
  <2>2. wk[w] # NoWorker
    BY WorkerAnswers DEF GoesOn, Answers
  <2> QED BY <2>1, <2>2, WorkerAnswers DEF GoesOn, Answers, Tell, Serving
<1>4. CASE rq[q].at \in {"prepare", "call", "failed", "undo"} \/ (rq[q].at = "answered" /\ rq[q].answer # "ok")
  BY <1>3, <1>4 DEF Owes
<1>5. CASE rq[q].at = "change" /\ Possible(rq[q].op, rq[q].device)
  BY <1>2, <1>3, <1>5 DEF Owes, Possible
<1>6. ASSUME NEW v \in Workers, Serving(v, q), Ahead(wk[v]) PROVE Owes(q)' \/ Fresh'
  <2>1. CASE v = w
    BY <1>6, <2>1, AheadStep
  <2>2. CASE v # w
    <3>1. wk'[v] = wk[v]
      BY <1>1, <2>2
    <3>2. Serving(v, q)' /\ Ahead(wk[v])'
      BY <1>6, <3>1 DEF Serving, Ahead
    <3> QED BY <3>2 DEF Owes
  <2> QED BY <2>1, <2>2
<1> QED BY <1>4, <1>5, <1>6 DEF Owes

LEMMA FreshWorker ==
  ASSUME IInv, SpentOK, NEW w \in Workers, WorkerStep(w), Fresh, spent'.faults = 0
  PROVE  Fresh'
<1> USE DEF IInv
<1> DEFINE me == wk[w]
<1>1. \A v \in Workers \ {w} : wk'[v] = wk[v]
  BY WorkerAnswers DEF GoesOn, Answers, WorkersOK
<1>2. Only(Where(me)) /\ Reworded
  BY WorkerOnly DEF Only
<1>3. CASE me.at = "begin" /\ me.i = 2
  BY <1>3, XrayBegins
<1>4. CASE ~(me.at = "begin" /\ me.i = 2) /\ ~AtXray(me)
  <2>1. ~AtXray(wk'[w]) /\ Where(me) # "xray"
    BY <1>4, ElsewhereMoves
  <2>2. CASE Settled("xray") /\ \A v \in Workers : ~AtXray(wk[v])
    <3>1. Settled("xray")'
      BY <1>2, <2>1, <2>2, OnlyKeeps, Kinds
    <3>2. \A v \in Workers : ~AtXray(wk'[v])
      BY <1>1, <2>1, <2>2
    <3> QED BY <3>1, <3>2 DEF Fresh
  <2>3. ASSUME NEW v \in Workers, Covers(wk[v]) PROVE Fresh'
    <3>1. v # w
      BY <1>4, <2>3 DEF Covers
    <3>2. PICK st : st = wk[v] /\ st = wk'[v]
      BY <1>1, <3>1
    <3>3. Rows("xray")' = Rows("xray") /\ live'["xray"] = live["xray"]
      BY <1>2, <2>1, RowsStay, Kinds DEF Only
    <3>4. Covers(st)
      BY <2>3, <3>2
    <3>5. Covers(st)'
      BY <3>3, <3>4 DEF Covers, AtXray
    <3> QED BY <3>2, <3>5 DEF Fresh
  <2> QED BY <2>2, <2>3 DEF Fresh
<1>5. CASE AtXray(me)
  <2>1. Holds(w) /\ Engine(w) = "xray" /\ \A v \in Workers \ {w} : ~AtXray(wk[v])
    BY <1>5, AtStage, OneAtXray DEF AtXray
  <2>2. Covers(me)
    BY <1>5, <2>1 DEF Fresh, Covers
  <2>3. Install(w) \/ RestartEngine(w)
    BY <1>5, <2>2, FaultCounts DEF WorkerStep, TakeLock, NoLock, StopIdle, IdleMihomo, Subscriptions,
         BeginEngine, ReadRows, NotInstalled, RestartFails, RestoreConfig, Settle, ReadAgain,
         InstallAgain, RestartAgain, FailAgain, SkipNaive, LoadNaive, NaiveRefused, SyncNaive, NaiveUndone,
         Covers
  <2>4. Rows("xray")' = Rows("xray") /\ me.rows = Rows("xray") /\ me.body = Rows("xray") /\ me.i = 2
    BY <1>2, <2>2, RowsStay DEF Covers, AtXray
  <2>5. CASE Install(w)
    <3>1. me \in AtEngine /\ wk'[w] = [me EXCEPT !.at = "restart"]
      BY <2>5, WorkerTypes DEF Install, WorkersOK
    <3>2. live'["xray"] = Rows("xray")
      BY <2>1, <2>4, <2>5, Kinds DEF Install, RuntimeOK
    <3>3. PICK st : st = wk'[w]
      OBVIOUS
    <3>4. st.at = "restart" /\ st.i = 2 /\ st.rows = Rows("xray") /\ st.body = Rows("xray")
      BY <2>4, <3>1, <3>3 DEF AtEngine
    <3>5. Covers(st)'
      BY <2>4, <3>2, <3>4 DEF Covers, AtXray, Placing
    <3> QED BY <3>3, <3>5 DEF Fresh
  <2>6. CASE RestartEngine(w)
    <3>1. live["xray"] = Rows("xray")
      BY <2>2, <2>6 DEF Covers, RestartEngine
    <3>2. running'["xray"] = Rows("xray")
      BY <2>1, <2>6, <3>1, Kinds DEF RestartEngine, RuntimeOK
    <3>3. status' = Marked(Rows("xray"), "xray", "applied")
      BY <2>1, <2>4, <2>6 DEF RestartEngine, MarkedUp
    <3>4. \A d \in Rows("xray") : status'[d]["xray"] = "applied"
      BY <3>3, MarkedOthers DEF Rows
    <3>5. Settled("xray")'
      BY <1>2, <3>2, <3>4, SettledNow
    <3>6. wk'[w].at = "begin"
      <4>1. PICK good : Result(w, good)
        BY <2>6 DEF RestartEngine
      <4> QED BY <2>1, <2>4, <4>1, ResultMoves
    <3>7. \A v \in Workers : ~AtXray(wk'[v])
      BY <1>1, <2>1, <3>6 DEF AtXray, Placing
    <3> QED BY <3>5, <3>7 DEF Fresh
  <2> QED BY <2>3, <2>5, <2>6
<1> QED BY <1>3, <1>4, <1>5

LEMMA OwesPanel ==
  ASSUME IInv, NEW r \in Requests, Change(r) \/ Prepare(r) \/ Fail(r) \/ Undo(r),
         spent'.faults = 0, SpentOK, Fresh \/ \E q \in Requests : Owes(q)
  PROVE  Fresh' \/ \E q \in Requests : Owes(q)'
<1> USE DEF IInv
<1>1. Busy(r) /\ rq[r].at # "wait"
  BY DEF Change, Prepare, Fail, Undo, Busy
<1>2. rq[r] \in BusyRequests /\ rq \in [Requests -> RequestRecords]
  BY <1>1, BusyRecord DEF RequestsOK
<1>3. CASE rq'[r].at \in {"prepare", "call", "failed", "undo"} \/ (rq'[r].at = "answered" /\ rq'[r].answer # "ok")
  BY <1>3 DEF Owes
<1>4. CASE Change(r) /\ ~Possible(rq[r].op, rq[r].device)
  <2>1. UNCHANGED catalogue /\ UNCHANGED <<domain, wk>> /\ UNCHANGED runtime
    BY <1>4 DEF Change
  <2>2. Fresh => Fresh'
    BY <2>1 DEF Fresh, Settled, Covers, AtXray, Serves, Rows, Has, catalogue, runtime
  <2>3. ASSUME NEW q \in Requests, Owes(q) PROVE Owes(q)'
    <3>1. q # r
      BY <1>1, <1>4, <2>3 DEF Owes, ServedOnce, Change
    <3>2. rq'[q] = rq[q]
      BY <1>2, <1>4, <3>1 DEF Change
    <3> QED BY <2>1, <2>3, <3>2 DEF Owes, Possible, Serving, Ahead, catalogue
  <2> QED BY <2>2, <2>3
<1>5. ASSUME Change(r), Possible(rq[r].op, rq[r].device)
      PROVE  rq'[r].at = "prepare" \/ (rq'[r].at = "answered" /\ rq'[r].answer # "ok")
  BY <1>2, <1>5 DEF Change, Done, BusyRequests
<1>6. Prepare(r) => rq'[r].at = "call"
  BY <1>2, FaultCounts DEF Prepare, BusyRequests
<1>7. Fail(r) => rq'[r].at = "undo" \/ (rq'[r].at = "answered" /\ rq'[r].answer # "ok")
  BY <1>2 DEF Fail, Done, BusyRequests
<1>8. Undo(r) => rq'[r].at = "prepare"
  BY <1>2 DEF Undo, BusyRequests
<1> QED BY <1>3, <1>4, <1>5, <1>6, <1>7, <1>8

LEMMA OwesCall ==
  ASSUME IInv, NEW r \in Requests, NEW w \in Workers, Call(r, w)
  PROVE  Owes(r)'
<1>1. wk'[w] = [at |-> "lock", for |-> {r}]
  BY DEF Call, IInv, WorkersOK
<1>2. Serving(w, r)' /\ Ahead(wk[w])'
  BY <1>1 DEF Serving, Ahead, NoWorker
<1> QED BY <1>2 DEF Owes

LEMMA OwesBegin ==
  ASSUME IInv, NEW r \in Requests, NEW op \in Ops, NEW d \in Devices, NEW menu \in Menus,
         BeginRequest(r, op, d, menu)
  PROVE  Owes(r)'
<1>1. Possible(op, d) /\ UNCHANGED <<client, device>>
  BY DEF BeginRequest, database
<1>2. rq'[r].at = "change" /\ rq'[r].op = op /\ rq'[r].device = (IF op = "apply" THEN None ELSE d)
  BY DEF BeginRequest, Disturbed
<1>3. Possible(op, IF op = "apply" THEN None ELSE d)
  BY <1>1 DEF Possible
<1>4. PICK me : me = rq'[r]
  OBVIOUS
<1>5. Possible(me.op, me.device)
  BY <1>2, <1>3, <1>4
<1>6. Possible(me.op, me.device)'
  BY <1>1, <1>5 DEF Possible
<1> QED BY <1>2, <1>4, <1>6 DEF Owes

LEMMA NextSpent == SpentOK /\ [Next]_vars => SpentOK'
<1> SUFFICES ASSUME SpentOK, [Next]_vars PROVE SpentOK'
  OBVIOUS
<1>1. CASE UNCHANGED spent
  BY <1>1 DEF SpentOK
<1>2. ASSUME NEW r \in Requests, NEW op \in Ops, NEW d \in Devices, NEW menu \in Menus,
             BeginRequest(r, op, d, menu)
      PROVE  SpentOK'
  BY <1>2 DEF BeginRequest, SpentOK
<1>3. ASSUME NEW w \in Workers, WorkerStep(w) PROVE UNCHANGED spent \/ Fault
  BY <1>3 DEF WorkerStep, TakeLock, NoLock, StopIdle, IdleMihomo, Subscriptions, BeginEngine, ReadRows,
         Install, NotInstalled, RestartEngine, RestartFails, RestoreConfig, Settle, ReadAgain,
         InstallAgain, RestartAgain, FailAgain, SkipNaive, LoadNaive, NaiveRefused, SyncNaive, NaiveUndone
<1>4. ASSUME NEW r \in Requests, RequestStep(r) \/ TimeOut(r) PROVE UNCHANGED spent \/ Fault
  BY <1>4 DEF RequestStep, Change, Prepare, Fail, Undo, Call, TimeOut
<1>5. HostdDies => Fault
  BY DEF HostdDies
<1> QED BY <1>1, <1>2, <1>3, <1>4, <1>5, FaultCounts DEF Next, vars

LEMMA NextAgreeing == IInv /\ SpentOK /\ Agreeing /\ [Next]_vars => Agreeing'
<1> SUFFICES ASSUME IInv, SpentOK, Agreeing, [Next]_vars, spent'.faults = 0
             PROVE  Fresh' \/ \E q \in Requests : Owes(q)'
  BY DEF Agreeing
<1>1. ASSUME NEW r \in Requests, NEW op \in Ops, NEW d \in Devices, NEW menu \in Menus,
             BeginRequest(r, op, d, menu)
      PROVE  \E q \in Requests : Owes(q)'
  BY <1>1, OwesBegin
<1>2. ASSUME NEW r \in Requests, NEW w \in Workers, Call(r, w) PROVE \E q \in Requests : Owes(q)'
  BY <1>2, OwesCall
<1>3. ~HostdDies /\ \A r \in Requests : ~TimeOut(r)
  BY FaultCounts DEF HostdDies, TimeOut
<1>4. ASSUME NEW r \in Requests, Change(r) \/ Prepare(r) \/ Fail(r) \/ Undo(r)
      PROVE  Fresh' \/ \E q \in Requests : Owes(q)'
  <2>1. UNCHANGED spent
    BY <1>4, FaultCounts DEF Change, Prepare, Fail, Undo
  <2> QED BY <1>4, <2>1, OwesPanel DEF Agreeing
<1>5. ASSUME NEW w \in Workers, WorkerStep(w) PROVE Fresh' \/ \E q \in Requests : Owes(q)'
  <2>1. UNCHANGED spent \/ Fault
    BY <1>5 DEF WorkerStep, TakeLock, NoLock, StopIdle, IdleMihomo, Subscriptions, BeginEngine, ReadRows,
         Install, NotInstalled, RestartEngine, RestartFails, RestoreConfig, Settle, ReadAgain,
         InstallAgain, RestartAgain, FailAgain, SkipNaive, LoadNaive, NaiveRefused, SyncNaive, NaiveUndone
  <2>2. UNCHANGED spent
    BY <2>1, FaultCounts
  <2> QED BY <1>5, <2>2, OwesWorker, FreshWorker DEF Agreeing
<1>6. CASE UNCHANGED vars
  BY <1>6 DEF Agreeing, Fresh, Settled, Covers, AtXray, Serves, Rows, Has, Owes, Possible, Serving, Ahead, vars
<1> QED BY <1>1, <1>2, <1>3, <1>4, <1>5, <1>6 DEF Next, RequestStep

LEMMA InitAgreeing == Init => SpentOK /\ Agreeing
<1> SUFFICES ASSUME Init PROVE SpentOK /\ Agreeing
  OBVIOUS
<1>1. SpentOK
  BY DEF Init, SpentOK
<1>2. Rows("xray") = {} /\ running["xray"] = None
  BY CatalogueAssumption, Kinds DEF Init, Rows
<1>3. Settled("xray")
  BY <1>2 DEF Settled, Serves
<1>4. \A w \in Workers : ~AtXray(wk[w])
  BY DEF Init, AtXray, Placing, NoWorker
<1> QED BY <1>1, <1>3, <1>4 DEF Agreeing, Fresh

LEMMA AgreeingAgrees == IInv /\ Agreeing => OverlapsAgree
<1> SUFFICES ASSUME IInv, Agreeing, Quiet, AllToldOk, spent.faults = 0
             PROVE  Truthful("xray")
  BY DEF OverlapsAgree
<1>1. \A w \in Workers : wk[w] = NoWorker
  BY DEF Quiet
<1>2. ASSUME NEW q \in Requests PROVE ~Owes(q)
  BY <1>1 DEF Owes, Serving, Quiet, Busy, AllToldOk
<1>3. \A w \in Workers : ~Covers(wk[w])
  BY <1>1 DEF Covers, NoWorker
<1>4. Settled("xray")
  BY <1>2, <1>3 DEF Agreeing, Fresh
<1> QED BY <1>4, SettledIsTruthful DEF HasHost

\* A panel answer of a request that nothing disturbed is true of the runtime, for
\* any number of clients, devices, operations and faults before it: "applied", and
\* "undone, the former access is back", mean that AmneziaWG 3.1, Xray and, once it
\* has a domain, NaiveProxy serve exactly the enabled devices, and that the cards
\* and the subscription feeds say so.
THEOREM AnswersAreTrue == Spec => []AnswerIsTrue
<1>1. IInv /\ AloneOK => AnswerIsTrue
  BY AloneIsTrue
<1> QED BY <1>1, Invariance, InitAlone, NextAlone, PTL DEF Spec

\* After such an answer nothing is left in flight: whatever statuses a crash, a
\* time-out or a restored snapshot left behind, the complete apply has settled
\* them for every engine.
THEOREM NothingIsInFlight == Spec => []NothingInFlight
<1>1. IInv /\ AloneOK => NothingInFlight
  BY AloneIsTrue
<1> QED BY <1>1, Invariance, InitAlone, NextAlone, PTL DEF Spec

\* Requests that overlap in any number and order, each answered "applied" and
\* none hit by a fault, leave Xray serving exactly the enabled devices.
THEOREM OverlappingAgree == Spec => []OverlapsAgree
<1>1. IInv /\ Agreeing => OverlapsAgree
  BY AgreeingAgrees
<1> QED BY <1>1, Invariance, InitAgreeing, NextSpent, NextAgreeing, PTL DEF Spec
=============================================================================
