--------------------------- MODULE Restore_proofs ---------------------------
(***************************************************************************)
(* Theorems about Restore, for any number of panel threads, of restore     *)
(* jobs one after another, of archives and of domains, when operators wait *)
(* for a restore before they start the next one (~Overlap): its types,     *)
(* what a restore serves once it is reported as done or as rolled back,    *)
(* what the operator is told of a SQLite copy, and that a restore is one   *)
(* staged change of the server.                                            *)
(***************************************************************************)
EXTENDS Restore, TLAPS

-----------------------------------------------------------------------------
\* Where a job is.
Prof(J) == IF J.image = None THEN "full" ELSE J.image.profile

\* The number of the step "health" on either way, with certificate t or None;
\* "schedule", "wait" and the report follow it.
Probe(J, t) ==
  IF J.at = "undo" THEN IF Prof(J) = "clients" /\ t # None THEN 7 ELSE 5
  ELSE IF Prof(J) = "clients" THEN IF t = None THEN 9 ELSE 10
  ELSE IF t = None THEN 10 ELSE 14

\* The runtime has been built: past the first "apply"; or restarted, undoing.
Built(J, t) ==
  IF J.at = "undo" THEN J.n > IF Prof(J) = "clients" /\ t # None THEN 5 ELSE 4
  ELSE IF Prof(J) = "clients" THEN J.n > (IF t = None THEN 7 ELSE 8) /\ ~J.deferred
  ELSE J.n > IF t = None THEN 8 ELSE 9

Last(J, t) == Probe(J, t) + IF J.at = "forward" /\ Prof(J) = "clients" THEN 4 ELSE 3

-----------------------------------------------------------------------------
\* What an archive may bring to a server d: HTTPS only if it may, and as
\* clients and keys only what fits that server.
Brought(a, d) == Brings \/ d.tls # None \/ a.disk.tls = None

Fits(a, d) ==
  /\ Brought(a, d)
  /\ a.profile = "clients" => /\ a.disk.db.settings = d.db.settings
                              /\ a.disk.db.hidden = d.db.hidden

Lawful(a) == a.profile = "clients" \/ (a \in Archives /\ a.profile = "full")

\* x runs the clients of d at its address.
Fresh(x, d) == x # None /\ x.clients.from = d.db.clients.from /\ x.host = d.db.host

Up(d, s, a) == Fresh(d.run, d) /\ Fresh(s.xray, d) /\ (a = None \/ Fresh(a, d))

SameBase(x, y) == /\ x.clients.from = y.clients.from /\ x.settings = y.settings
                  /\ x.host = y.host /\ x.hidden = y.hidden

SameRest(d, e) == d.env = e.env /\ d.tls = e.tls /\ d.site = e.site /\ d.awg = e.awg

-----------------------------------------------------------------------------
\* A job that restores, past its safety archive.
OnFull(J, d) ==
  LET m == J.safety
      i == J.image.disk
  IN /\ d.tls = IF J.n > 3 THEN Kept(m.tls, i.tls) ELSE m.tls
     /\ d.awg = IF J.n > 4 THEN Kept(m.awg, i.awg) ELSE m.awg
     /\ J.n > 5 => /\ d.db.clients.from = i.db.clients.from
                   /\ d.db.settings = i.db.settings /\ d.db.hidden = i.db.hidden
     /\ d.env = IF J.n > 6 THEN [machine |-> m.env.machine, rest |-> i.env.rest] ELSE m.env
     /\ J.n > 7 => d.db.host = d.env.machine
     /\ d.site = IF J.n > 8 /\ d.tls # None THEN d.tls ELSE m.site

OnClients(J, d) ==
  LET m == J.safety
      i == J.image.disk
  IN /\ d.tls = IF J.n > 3 THEN Kept(m.tls, i.tls) ELSE m.tls
     /\ d.awg = m.awg /\ d.env = m.env
     /\ J.n > 4 => d.db.clients.from = i.db.clients.from /\ d.db.settings = i.db.settings
     /\ J.n > 5 => d.db.host = d.env.machine
     /\ J.n >= Probe(J, d.tls) => ~d.db.hidden
     /\ d.site = IF J.n > 7 /\ d.tls # None THEN d.tls ELSE m.site

Forwards(J, d) == IF Prof(J) = "clients" THEN OnClients(J, d) ELSE OnFull(J, d)

\* A job that undoes.
Whole(m) == ~Brings /\ Settled(m)

\* x is what config.json was, or what its database gives since.
Returned(x, m, d) ==
  \/ x = m.run
  \/ \E n \in m.db.clients.rev..d.db.clients.rev : x = Of([m.db EXCEPT !.clients.rev = n])

Backwards(J, d, s) ==
  LET m == J.safety
  IN /\ Whole(m) /\ m.tls = None => d.tls = None
     /\ J.n > 1 => /\ d.awg = m.awg
                   /\ m.tls # None => d.tls = m.tls
                   /\ Whole(m) => d.site = m.site
     /\ J.n > 2 => /\ d.db = [m.db EXCEPT !.clients.rev = d.db.clients.rev]
                   /\ m.db.clients.rev <= d.db.clients.rev
     /\ J.n > 3 => d.env = m.env
     /\ ~J.beside /\ Whole(m) => /\ J.n = 2 => d.run = m.run
                                 /\ J.n > 2 => Returned(d.run, m, d)
                                 /\ Built(J, d.tls) => Returned(s.xray, m, d)
     /\ Whole(m) /\ Built(J, d.tls) => s.site = m.site

\* The panel is restarted after the probe, on the environment of the disk.
Restarted(J, d, s, k) ==
  /\ J.n > Probe(J, d.tls) => (k # J.before => s.env = d.env)
  /\ J.n > Probe(J, d.tls) + 2 => s.env = d.env /\ (d.tls # None => s.site = d.tls)

Holding(J) ==
  /\ J.at = "forward" => (J.image = None <=> J.n = 1) /\ (J.safety = None <=> J.n <= 2)
  /\ J.at = "undo" => J.image # None /\ J.safety # None
  /\ J.image # None => Lawful(J.image)
  /\ J.safety # None => Fits(J.image, J.safety)

Working(J, d, s, a, k) ==
  /\ J.n <= Last(J, d.tls)
  /\ Holding(J)
  /\ J.at = "forward" /\ J.n = 2 => Fits(J.image, d)
  /\ J.at = "forward" /\ J.n > 2 => Forwards(J, d) /\ (Built(J, d.tls) => Up(d, s, a))
  /\ J.at = "undo" => Backwards(J, d, s)
  /\ Restarted(J, d, s, k)

-----------------------------------------------------------------------------
\* Requests, and what they keep.
Busy(r) == rq[r].at \notin Verifying

Stocked ==
  /\ \A a \in {slot["full"].upload, slot["full"].kept} :
       a = None \/ (a \in Archives /\ a.profile = "full")
  /\ slot["full"].ready = None \/ Lawful(slot["full"].ready)

Chosen(a) == a # None /\ Fits(a, disk)

Asked ==
  /\ \A r \in Requests : rq[r].at = "promote" => /\ slot["clients"].ready # None
                                                 /\ Brought(slot["clients"].ready, disk)
  /\ \A r \in Requests : rq[r].at = "start" => Chosen(slot["full"].ready)
  /\ \A j \in Jobs : job[j].at = "forward" /\ job[j].n = 1 => Chosen(slot["full"].ready)

Copying(q, d, s, a, cs) ==
  /\ q.at \in {"copied", "staged", "restored"} => SameBase(d.db, q.copy.db)
  /\ q.at \in {"kept back", "undone", "returned"} => SameBase(d.db, q.before.db)
  /\ q.at \in {"saved", "copied", "unstaged", "staged", "refused"} =>
       \A c \in cs : c.n = q.safety => c.db = q.before.db
  /\ q.at \in CopySteps => SameRest(d, q.before)
  /\ q.at \in {"restored", "returned"} => Up(d, s, a)

Numbered == \A c \in copies : c.n <= spent.copies

Alone ==
  /\ \A i, j \in Jobs : Running(i) /\ Running(j) => i = j
  /\ \A q, r \in Requests : Busy(q) /\ Busy(r) => q = r
  /\ \A j \in Jobs, r \in Requests : ~(Running(j) /\ Busy(r))

Orderly ==
  /\ Alone /\ Numbered /\ Stocked /\ Asked
  /\ \A r \in Requests : Copying(rq[r], disk, served, applying, copies)
  /\ \A j \in Jobs : Running(j) => Working(job[j], disk, served, applying, restarts)

-----------------------------------------------------------------------------
\* The step a number stands for, on either way.
LEMMA WhereForward ==
  ASSUME NEW j, NEW J, J = job[j], J.at = "forward", Prof(J) \in Profiles,
         J.n \in 1..Last(J, disk.tls)
  PROVE  /\ Step(j) = "check" <=> J.n = 1
         /\ Step(j) = "safety" <=> J.n = 2
         /\ Step(j) = "files" <=> J.n = 3
         /\ Step(j) = "awg" <=> Prof(J) = "full" /\ J.n = 4
         /\ Step(j) = "swap" <=> J.n = IF Prof(J) = "clients" THEN 4 ELSE 5
         /\ Step(j) = "env" <=> Prof(J) = "full" /\ J.n = 6
         /\ Step(j) = "rebind" <=> J.n = IF Prof(J) = "clients" THEN 5 ELSE 7
         /\ Step(j) = "hide" <=> Prof(J) = "clients" /\ J.n = 6
         /\ Step(j) = "https" <=> disk.tls # None /\ J.n \in IF Prof(J) = "clients" THEN {7} ELSE {8, 11}
         /\ Step(j) = "apply" <=> J.n \in IF Prof(J) = "clients" THEN {Probe(J, disk.tls) - 2}
                                          ELSE IF disk.tls = None THEN {8} ELSE {9, 12}
         /\ Step(j) = "unhide" <=> Prof(J) = "clients" /\ J.n = Probe(J, disk.tls) - 1
         /\ Step(j) = "restart" <=> Prof(J) = "full" /\ J.n \in IF disk.tls = None THEN {9} ELSE {10, 13}
         /\ Step(j) = "health" <=> J.n = Probe(J, disk.tls)
         /\ Step(j) = "schedule" <=> J.n = Probe(J, disk.tls) + 1
         /\ Step(j) = "wait" <=> J.n = Probe(J, disk.tls) + 2
         /\ Step(j) = "finish" <=> J.n = Probe(J, disk.tls) + 3
         /\ Step(j) = "reconcile" <=> J.n = Probe(J, disk.tls) + 4
<1>1. Profile(j) = Prof(J) /\ Step(j) = Forward(Prof(J))[J.n]
  BY DEF Profile, Prof, Step
<1>2. CASE Prof(J) = "clients" /\ disk.tls = None
  BY <1>1, <1>2 DEF Forward, Refresh, Again, Last, Probe
<1>3. CASE Prof(J) = "clients" /\ disk.tls # None
  BY <1>1, <1>3 DEF Forward, Refresh, Again, Last, Probe
<1>4. CASE Prof(J) = "full" /\ disk.tls = None
  BY <1>1, <1>4 DEF Forward, Rebuild, Again, Last, Probe
<1>5. CASE Prof(J) = "full" /\ disk.tls # None
  BY <1>1, <1>5 DEF Forward, Rebuild, Again, Last, Probe
<1> QED BY <1>2, <1>3, <1>4, <1>5 DEF Profiles

LEMMA WhereBack ==
  ASSUME NEW j, NEW J, J = job[j], J.at = "undo", Prof(J) \in Profiles,
         J.n \in 1..Last(J, disk.tls)
  PROVE  /\ Step(j) = "files" <=> J.n = 1
         /\ Step(j) = "swap" <=> J.n = 2
         /\ Step(j) = "env" <=> J.n = 3
         /\ Step(j) = "https" <=> Prof(J) = "clients" /\ disk.tls # None /\ J.n \in {4, 6}
         /\ Step(j) = "restart" <=> J.n = IF Prof(J) = "clients" /\ disk.tls # None THEN 5 ELSE 4
         /\ Step(j) = "health" <=> J.n = Probe(J, disk.tls)
         /\ Step(j) = "schedule" <=> J.n = Probe(J, disk.tls) + 1
         /\ Step(j) = "wait" <=> J.n = Probe(J, disk.tls) + 2
         /\ Step(j) = "report" <=> J.n = Probe(J, disk.tls) + 3
         /\ Step(j) \notin {"check", "safety", "apply", "finish", "reconcile"}
<1>1. Profile(j) = Prof(J) /\ Step(j) = Back(Prof(J))[J.n]
  BY DEF Profile, Prof, Step
<1>2. CASE Prof(J) = "clients" /\ disk.tls = None
  BY <1>1, <1>2 DEF Back, Refresh, Again, Last, Probe
<1>3. CASE Prof(J) = "clients" /\ disk.tls # None
  BY <1>1, <1>3 DEF Back, Refresh, Again, Last, Probe
<1>4. CASE Prof(J) = "full"
  BY <1>1, <1>4 DEF Back, Again, Last, Probe
<1> QED BY <1>2, <1>3, <1>4 DEF Profiles

-----------------------------------------------------------------------------
IInv == TypeOK /\ Orderly

\* What a job is, by its program counter.
Tasks == [at : {"forward", "undo"}, n : 1..17, image : Archive \cup {None},
          safety : Disks \cup {None}, before : Nat, deferred : BOOLEAN, beside : BOOLEAN]

LEMMA JobAt ==
  ASSUME NEW J \in JobStates
  PROVE  /\ J.at \in {"idle", "over"} \/ (J \in Tasks /\ J.at \in {"forward", "undo"})
         /\ J.at \in {"forward", "undo"} => J \in Tasks
BY DEF JobStates, Tasks

LEMMA TaskIsJob == Tasks \subseteq JobStates
BY DEF JobStates, Tasks

LEMMA RequestAt ==
  ASSUME NEW q \in RequestStates
  PROVE  /\ q.at \in {"uploaded", "read"} => q \in [at : {"uploaded", "read"}, profile : Profiles]
         /\ q.at = "kept" => q \in [at : {"kept"}, profile : Profiles, sha : Archive]
         /\ q.at = "chosen" => q \in [at : {"chosen"}, copy : Copies]
         /\ q.at \in CopySteps =>
              q \in [at : CopySteps, copy : Copies, before : Disks, safety : 1..MaxCopies]
         /\ q.at \in {"idle", "uploaded", "read", "kept", "promote", "start", "chosen"} \cup CopySteps
BY DEF RequestStates, CopySteps

LEMMA NotStarted == NoRequest \in RequestStates /\ NoRequest.at = "idle"
BY DEF NoRequest, RequestStates

\* A running job, and that it is the only restore under way.
LEMMA Alongside ==
  ASSUME IInv, NEW j \in Jobs, Running(j), NEW J, J = job[j]
  PROVE  /\ J \in Tasks /\ J.at \in {"forward", "undo"}
         /\ Working(J, disk, served, applying, restarts)
         /\ \A i \in Jobs \ {j} : job[i].at \in {"idle", "over"}
         /\ \A r \in Requests : rq[r].at \in Verifying
         /\ Prof(J) \in Profiles /\ J.n \in 1..Last(J, disk.tls)
<1>1. J \in Tasks /\ J.at \in {"forward", "undo"}
  BY JobAt DEF IInv, TypeOK, Running
<1>2. Working(J, disk, served, applying, restarts) /\ Alone
  BY DEF IInv, Orderly
<1>3. \A i \in Jobs \ {j} : job[i].at \in {"idle", "over"}
  BY <1>2 DEF Alone, Running
<1>4. \A r \in Requests : rq[r].at \in Verifying
  BY <1>2 DEF Alone, Busy
<1>5. Prof(J) \in Profiles
  BY <1>2 DEF Working, Holding, Lawful, Prof, Profiles
<1>6. J.n \in 1..Last(J, disk.tls)
  <2>1. J.n \in 1..17 /\ J.n <= Last(J, disk.tls)
    BY <1>1, <1>2 DEF Tasks, Working
  <2>2. Last(J, disk.tls) \in Nat
    BY DEF Last, Probe
  <2> QED BY <2>1, <2>2
<1> QED BY <1>1, <1>2, <1>3, <1>4, <1>5, <1>6

\* One more step of a job: what has to be shown of it.
LEMMA JobTurn ==
  ASSUME IInv, NEW j \in Jobs, Running(j), NEW J1 \in JobStates, job' = [job EXCEPT ![j] = J1],
         J1.at \in {"forward", "undo"} =>
           Working(J1, disk', served', applying', restarts') /\ (J1.at = "undo" \/ J1.n > 1),
         disk' \in Disks, served' \in [xray : Runs, site : Domains \cup {None}, env : Envs],
         due' \in BOOLEAN, slot' \in [Profiles -> Slots],
         slot'["full"].ready \in {None, slot["full"].ready},
         slot'["full"].upload = slot["full"].upload, slot'["full"].kept = slot["full"].kept,
         spent' \in [uploads : 0..MaxUploads, copies : 0..MaxCopies, edits : 0..MaxEdits, faults : 0..MaxFaults],
         spent'.copies = spent.copies, UNCHANGED <<restarts, applying, rq, copies>>
  PROVE  IInv'
<1>1. /\ \A i \in Jobs \ {j} : job[i].at \in {"idle", "over"}
      /\ \A r \in Requests : rq[r].at \in Verifying
  BY Alongside
<1>2. job \in [Jobs -> JobStates] /\ job'[j] = J1 /\ \A i \in Jobs \ {j} : job'[i] = job[i]
  BY DEF IInv, TypeOK
<1>3. TypeOK'
  BY <1>2 DEF IInv, TypeOK
<1>4. /\ \A i \in Jobs : Running(i)' => i = j
      /\ \A r \in Requests : rq'[r].at \in Verifying
  BY <1>1, <1>2 DEF Running
<1>5. Alone'
  BY <1>4 DEF Alone, Busy, Verifying
<1>6. Numbered' /\ Stocked'
  BY DEF IInv, Orderly, Numbered, Stocked
<1>7. Asked'
  <2>1. \A r \in Requests : rq'[r].at \notin {"promote", "start"}
    BY <1>4 DEF Verifying
  <2>2. \A i \in Jobs : ~(job'[i].at = "forward" /\ job'[i].n = 1)
    BY <1>1, <1>2
  <2> QED BY <2>1, <2>2 DEF Asked
<1>8. \A r \in Requests : Copying(rq[r], disk, served, applying, copies)'
  BY <1>4 DEF Copying, Verifying, CopySteps
<1>9. \A i \in Jobs : Running(i)' => Working(job[i], disk, served, applying, restarts)'
  <2>1. Running(j)' => J1.at \in {"forward", "undo"}
    BY <1>2, JobAt DEF Running
  <2> QED BY <1>2, <1>4, <2>1
<1> QED BY <1>3, <1>5, <1>6, <1>7, <1>8, <1>9 DEF IInv, Orderly

\* One more step of a request, while no job runs and no other restores.
LEMMA RequestTurn ==
  ASSUME IInv, NEW r \in Requests, \A j \in Jobs : ~Running(j), \A s \in Requests \ {r} : ~Busy(s),
         NEW q \in RequestStates, rq' = [rq EXCEPT ![r] = q],
         Copying(q, disk', served', applying', copies'), Stocked', Numbered',
         q.at = "promote" => slot'["clients"].ready # None /\ Brought(slot'["clients"].ready, disk'),
         q.at = "start" => Chosen(slot["full"].ready)',
         disk' \in Disks, served' \in [xray : Runs, site : Domains \cup {None}, env : Envs],
         slot' \in [Profiles -> Slots], copies' \subseteq Copies,
         spent' \in [uploads : 0..MaxUploads, copies : 0..MaxCopies, edits : 0..MaxEdits, faults : 0..MaxFaults],
         UNCHANGED <<restarts, due, applying, job>>
  PROVE  IInv'
<1>1. rq \in [Requests -> RequestStates] /\ rq'[r] = q /\ \A s \in Requests \ {r} : rq'[s] = rq[s]
  BY DEF IInv, TypeOK
<1>2. TypeOK'
  BY <1>1 DEF IInv, TypeOK
<1>3. \A s \in Requests \ {r} : rq'[s].at \in Verifying
  BY <1>1 DEF Busy
<1>4. \A j \in Jobs : ~Running(j)' /\ job'[j].at # "forward"
  BY DEF Running
<1>5. Alone'
  BY <1>3, <1>4 DEF Alone, Busy
<1>6. Asked'
  BY <1>1, <1>3, <1>4 DEF Asked, Verifying
<1>7. \A s \in Requests : Copying(rq[s], disk, served, applying, copies)'
  BY <1>1, <1>3 DEF Copying, Verifying, CopySteps
<1> QED BY <1>2, <1>4, <1>5, <1>6, <1>7 DEF IInv, Orderly

-----------------------------------------------------------------------------
\* What the steps write has its type.
LEMMA DiskFields ==
  ASSUME NEW d \in Disks
  PROVE  /\ d.db \in Databases /\ d.env \in Envs /\ d.tls \in Domains \cup {None}
         /\ d.awg \in Origins \cup {None} /\ d.site \in Domains \cup {None} /\ d.run \in Runs
         /\ d.db.clients \in Contents /\ d.db.clients.rev \in Nat
         /\ \A x \in Databases : [d EXCEPT !.db = x] \in Disks
         /\ \A x \in Envs : [d EXCEPT !.env = x] \in Disks
         /\ \A x \in Domains \cup {None} : [d EXCEPT !.tls = x] \in Disks
         /\ \A x \in Domains \cup {None} : [d EXCEPT !.site = x] \in Disks
         /\ \A x \in Origins \cup {None} : [d EXCEPT !.awg = x] \in Disks
         /\ \A x \in Runs : [d EXCEPT !.run = x] \in Disks
BY DEF Disks, Databases, Contents

LEMMA OfRuns ==
  ASSUME NEW b \in Databases
  PROVE  /\ Of(b) \in Runs /\ Of(b) # None
         /\ Of(b).clients = b.clients /\ Of(b).settings = b.settings /\ Of(b).host = b.host
<1>1. Of(b) \in [clients : Contents, settings : Settings, host : Origins]
  BY DEF Of, Databases
<1> QED BY <1>1, MarkerAssumption DEF Runs, Of

LEMMA ServedFields ==
  ASSUME NEW s \in [xray : Runs, site : Domains \cup {None}, env : Envs]
  PROVE  /\ s.xray \in Runs /\ s.site \in Domains \cup {None} /\ s.env \in Envs
         /\ \A x \in Runs : [s EXCEPT !.xray = x] \in [xray : Runs, site : Domains \cup {None}, env : Envs]
         /\ \A x \in Domains \cup {None} :
              [s EXCEPT !.site = x] \in [xray : Runs, site : Domains \cup {None}, env : Envs]
         /\ \A x \in Envs : [s EXCEPT !.env = x] \in [xray : Runs, site : Domains \cup {None}, env : Envs]
OBVIOUS

Spendings == [uploads : 0..MaxUploads, copies : 0..MaxCopies, edits : 0..MaxEdits, faults : 0..MaxFaults]

LEMMA FaultSpent ==
  ASSUME TypeOK, Fault
  PROVE  /\ spent' \in Spendings
         /\ spent'.copies = spent.copies
BY RestoreAssumption DEF Fault, TypeOK, Spendings

LEMMA Updated ==
  ASSUME NEW J \in Tasks
  PROVE  /\ J.image = None \/ (J.image \in Archive /\ J.image.disk \in Disks)
         /\ J.safety = None \/ J.safety \in Disks
         /\ J.n \in 1..17 /\ J.n \in Nat
         /\ \A n \in 1..17 : [J EXCEPT !.n = n] \in Tasks
<1>1. /\ J.image = None \/ (J.image \in Archive /\ J.image.disk \in Disks)
      /\ J.safety = None \/ J.safety \in Disks
      /\ J.n \in 1..17 /\ J.n \in Nat
  BY DEF Tasks, Archive
<1>2. \A n \in 1..17 : [J EXCEPT !.n = n] \in Tasks
  BY DEF Tasks
<1> QED BY <1>1, <1>2

\* A job that ends, having changed the disk or not, needs nothing else.
LEMMA JobEnds ==
  ASSUME IInv, NEW j \in Jobs, Running(j), End(j),
         disk' \in Disks, served' \in [xray : Runs, site : Domains \cup {None}, env : Envs],
         slot' \in [Profiles -> Slots],
         slot'["full"].ready \in {None, slot["full"].ready},
         slot'["full"].upload = slot["full"].upload, slot'["full"].kept = slot["full"].kept,
         UNCHANGED spent \/ Fault, UNCHANGED <<restarts, due, applying, rq, copies>>
  PROVE  IInv'
<1>1. [at |-> "over"] \in JobStates
  BY DEF JobStates
<1>2. spent' \in Spendings /\ spent'.copies = spent.copies
  BY FaultSpent DEF IInv, TypeOK, Spendings
<1>3. due' \in BOOLEAN
  BY DEF IInv, TypeOK
<1> QED BY <1>1, <1>2, <1>3, JobTurn DEF End, Spendings

\* A job that goes one step on.
LEMMA JobGoesOn ==
  ASSUME IInv, NEW j \in Jobs, Running(j), Move(j), NEW J, J = job[j], J.n < Last(J, disk.tls),
         Working([J EXCEPT !.n = J.n + 1], disk', served', applying', restarts'),
         disk' \in Disks, served' \in [xray : Runs, site : Domains \cup {None}, env : Envs],
         due' \in BOOLEAN, slot' \in [Profiles -> Slots],
         slot'["full"].ready \in {None, slot["full"].ready},
         slot'["full"].upload = slot["full"].upload, slot'["full"].kept = slot["full"].kept,
         UNCHANGED spent \/ Fault, UNCHANGED <<restarts, applying, rq, copies>>
  PROVE  IInv'
<1>1. J \in Tasks /\ J.n \in Nat /\ J.n >= 1
  <2>1. J \in Tasks
    BY Alongside
  <2> QED BY <2>1 DEF Tasks
<1>2. Last(J, disk.tls) \in 0..17
  BY Alongside DEF Last, Probe, Profiles
<1>3. PICK J1 : J1 = [J EXCEPT !.n = J.n + 1]
  OBVIOUS
<1>4. J1 \in JobStates /\ J1.n > 1
  <2>1. J.n + 1 \in 1..17 /\ J.n + 1 > 1
    BY <1>1, <1>2
  <2>2. J1 \in Tasks
    BY <1>1, <1>3, <2>1, Updated
  <2>3. J1.n = J.n + 1
    BY <1>1, <1>3 DEF Tasks
  <2> QED BY <2>1, <2>2, <2>3, TaskIsJob
<1>5. job' = [job EXCEPT ![j] = J1]
  BY <1>3 DEF Move
<1>6. spent' \in Spendings /\ spent'.copies = spent.copies
  BY FaultSpent DEF IInv, TypeOK, Spendings
<1>7. Working(J1, disk', served', applying', restarts')
  BY <1>3
<1> QED BY <1>4, <1>5, <1>6, <1>7, JobTurn DEF Spendings

-----------------------------------------------------------------------------
\* The steps of a restore.
LEMMA CheckStep ==
  ASSUME IInv, NEW j \in Jobs, Check(j)
  PROVE  IInv'
<1>1. PICK J : J = job[j]
  OBVIOUS
<1>2. Running(j) /\ J.at = "forward"
  BY <1>1 DEF Check, On, Running
<1>3. /\ J \in Tasks /\ Prof(J) \in Profiles /\ J.n \in 1..Last(J, disk.tls)
      /\ Working(J, disk, served, applying, restarts)
  BY <1>1, <1>2, Alongside
<1>4. J.n = 1
  BY <1>1, <1>2, <1>3, WhereForward DEF Check, On
<1>5. TypeOK
  BY DEF IInv
<1>6. CASE End(j)
  BY <1>2, <1>5, <1>6, JobEnds DEF Check, TypeOK, uploads
<1>7. ASSUME ~End(j) PROVE IInv'
  <2>1. PICK a : a = slot["full"].ready
    OBVIOUS
  <2>2. a # None /\ a \in Archive /\ Lawful(a) /\ Fits(a, disk)
    <3>1. a # None
      BY <1>7, <2>1 DEF Check, Extracts
    <3>2. a \in Archive
      BY <1>5, <2>1, <3>1 DEF TypeOK, Slots, Profiles
    <3>3. Lawful(a) /\ Fits(a, disk)
      BY <1>1, <1>2, <1>4, <2>1, <3>1 DEF IInv, Orderly, Stocked, Asked, Chosen
    <3> QED BY <3>1, <3>2, <3>3
  <2>3. PICK J1 : J1 = [J EXCEPT !.n = 2, !.image = a]
    OBVIOUS
  <2>4. job' = [job EXCEPT ![j] = J1] /\ UNCHANGED spent
    BY <1>1, <1>7, <2>1, <2>3 DEF Check
  <2>5. J1 \in Tasks /\ J1.n = 2 /\ J1.image = a /\ J1.at = "forward" /\ J1.safety = None
    <3>1. J1 \in Tasks
      <4>1. J \in Tasks /\ a \in Archive
        BY <1>3, <2>2
      <4>2. \A n \in 1..17 : [J EXCEPT !.n = n, !.image = a] \in Tasks
        BY <4>1 DEF Tasks
      <4> QED BY <4>2, <2>3
    <3>2. J1.n = 2 /\ J1.image = a /\ J1.at = J.at /\ J1.safety = J.safety
      BY <1>3, <2>3 DEF Tasks
    <3>3. J.safety = None
      BY <1>2, <1>3, <1>4 DEF Working, Holding
    <3> QED BY <1>2, <3>1, <3>2, <3>3
  <2>6. Working(J1, disk, served, applying, restarts)
    BY <2>2, <2>5 DEF Working, Holding, Restarted, Last, Probe
  <2>7. UNCHANGED <<disk, served, restarts, due, applying, slot, rq, copies, spent>>
    BY <2>4 DEF Check, uploads
  <2>8. Working(J1, disk', served', applying', restarts')
    BY <2>6, <2>7
  <2>9. J1 \in JobStates /\ J1.n > 1
    BY <2>5, TaskIsJob
  <2> QED BY <1>2, <1>5, <2>4, <2>7, <2>8, <2>9, JobTurn DEF TypeOK
<1> QED BY <1>6, <1>7

LEMMA SafetyStep ==
  ASSUME IInv, NEW j \in Jobs, Safety(j)
  PROVE  IInv'
<1>1. PICK J : J = job[j]
  OBVIOUS
<1>2. Running(j) /\ J.at = "forward"
  BY <1>1 DEF Safety, On, Running
<1>3. /\ J \in Tasks /\ Prof(J) \in Profiles /\ J.n \in 1..Last(J, disk.tls)
      /\ Working(J, disk, served, applying, restarts)
  BY <1>1, <1>2, Alongside
<1>4. J.n = 2
  BY <1>1, <1>2, <1>3, WhereForward DEF Safety, On
<1>5. TypeOK
  BY DEF IInv
<1>6. CASE End(j)
  BY <1>2, <1>5, <1>6, JobEnds DEF Safety, TypeOK, uploads
<1>7. ASSUME ~End(j) PROVE IInv'
  <2>3. PICK J1 : J1 = [J EXCEPT !.n = 3, !.safety = disk]
    OBVIOUS
  <2>4. job' = [job EXCEPT ![j] = J1] /\ UNCHANGED spent
    BY <1>1, <1>7, <2>3 DEF Safety
  <2>5. /\ J1 \in Tasks /\ J1.n = 3 /\ J1.image = J.image /\ J1.at = "forward"
        /\ J1.safety = disk /\ J1.deferred = J.deferred
    <3>1. J1 \in Tasks
      <4>1. J \in Tasks /\ disk \in Disks
        BY <1>3, <1>5 DEF TypeOK
      <4>2. \A n \in 1..17 : [J EXCEPT !.n = n, !.safety = disk] \in Tasks
        BY <4>1 DEF Tasks
      <4> QED BY <4>2, <2>3
    <3>2. J1.n = 3 /\ J1.image = J.image /\ J1.at = J.at /\ J1.safety = disk /\ J1.deferred = J.deferred
      BY <1>3, <2>3 DEF Tasks
    <3> QED BY <1>2, <3>1, <3>2
  <2>6. Prof(J1) = Prof(J) /\ disk # None
    BY <1>5, <2>5, MarkerAssumption DEF Prof, TypeOK
  <2>7. J.image # None /\ Lawful(J.image) /\ Fits(J.image, disk)
    BY <1>2, <1>3, <1>4 DEF Working, Holding
  <2>8. Holding(J1)
    BY <2>5, <2>6, <2>7 DEF Holding
  <2>9. Forwards(J1, disk) /\ ~Built(J1, disk.tls)
    BY <1>3, <2>5, <2>6 DEF Forwards, OnClients, OnFull, Built, Probe, Profiles
  <2>10. Working(J1, disk, served, applying, restarts)
    BY <2>5, <2>8, <2>9 DEF Working, Restarted, Last, Probe
  <2>11. UNCHANGED <<disk, served, restarts, due, applying, slot, rq, copies, spent>>
    BY <2>4 DEF Safety, uploads
  <2>12. Working(J1, disk', served', applying', restarts')
    BY <2>10, <2>11
  <2>13. J1 \in JobStates /\ J1.n > 1
    BY <2>5, TaskIsJob
  <2> QED BY <1>2, <1>5, <2>4, <2>11, <2>12, <2>13, JobTurn DEF TypeOK
<1> QED BY <1>6, <1>7

\* A job past its safety archive, and the same job one step on.
LEMMA Moved ==
  ASSUME IInv, NEW j \in Jobs, Running(j), NEW J, J = job[j], J.at = "undo" \/ J.n > 2,
         NEW K, K = [J EXCEPT !.n = J.n + 1]
  PROVE  /\ K.at = J.at /\ K.n = J.n + 1 /\ K.image = J.image /\ K.safety = J.safety
         /\ K.before = J.before /\ K.deferred = J.deferred /\ K.beside = J.beside
         /\ Prof(K) = Prof(J) /\ \A t : Probe(K, t) = Probe(J, t) /\ Last(K, t) = Last(J, t)
         /\ Holding(K)
         /\ J.n \in Nat /\ J.n >= 1 /\ J.image.disk \in Disks /\ J.safety \in Disks
         /\ J.image # None /\ Fits(J.image, J.safety)
<1>1. J \in Tasks /\ Working(J, disk, served, applying, restarts)
  BY Alongside
<1>2. J.n \in Nat /\ J.n >= 1
  BY <1>1 DEF Tasks
<1>3. /\ K.at = J.at /\ K.n = J.n + 1 /\ K.image = J.image /\ K.safety = J.safety
      /\ K.before = J.before /\ K.deferred = J.deferred /\ K.beside = J.beside
  BY <1>1 DEF Tasks
<1>4. Prof(K) = Prof(J) /\ \A t : Probe(K, t) = Probe(J, t) /\ Last(K, t) = Last(J, t)
  BY <1>3 DEF Prof, Probe, Last
<1>5. Holding(J) /\ J.at \in {"forward", "undo"}
  BY <1>1 DEF Working, Tasks
<1>6. J.image # None /\ J.safety # None /\ Fits(J.image, J.safety) /\ Lawful(J.image)
  BY <1>2, <1>5 DEF Holding
<1>7. Holding(K)
  BY <1>2, <1>3, <1>5, <1>6 DEF Holding
<1>8. J.image.disk \in Disks /\ J.safety \in Disks
  BY <1>1, <1>6, Updated
<1> QED BY <1>2, <1>3, <1>4, <1>6, <1>7, <1>8

\* Of the world, what a job's step takes for granted.
LEMMA StepTypes ==
  ASSUME IInv
  PROVE  /\ disk \in Disks /\ served \in [xray : Runs, site : Domains \cup {None}, env : Envs]
         /\ due \in BOOLEAN /\ slot \in [Profiles -> Slots] /\ applying \in Runs /\ restarts \in Nat
BY DEF IInv, TypeOK

\* On the way forward, before the probe, a step only has to bring the disk on.
LEMMA ForwardTurn ==
  ASSUME IInv, NEW j \in Jobs, Running(j), NEW J, J = job[j], J.at = "forward", J.n > 2,
         NEW K, K = [J EXCEPT !.n = J.n + 1], Move(j),
         disk' \in Disks, served' \in [xray : Runs, site : Domains \cup {None}, env : Envs],
         J.n < Probe(J, disk'.tls), disk'.tls = disk.tls \/ J.n < 5,
         Forwards(K, disk'), Built(K, disk'.tls) => Up(disk', served', applying'),
         UNCHANGED <<restarts, due, applying, uploads, copies, spent>>
  PROVE  IInv'
<1>1. /\ K.at = J.at /\ K.n = J.n + 1 /\ Holding(K) /\ J.n \in Nat
      /\ Prof(K) = Prof(J) /\ \A t : Probe(K, t) = Probe(J, t) /\ Last(K, t) = Last(J, t)
  BY Moved
<1>2. PICK t : t = disk'.tls
  OBVIOUS
<1>3. J.n < Last(J, disk.tls) /\ K.n <= Last(K, t)
  <2>1. Probe(J, t) \in 9..14 /\ Last(J, t) >= Probe(J, t) + 3 /\ Last(J, disk.tls) \in 12..18
    BY DEF Probe, Last
  <2>2. J.n < Last(J, t)
    BY <1>1, <1>2, <2>1 DEF Last
  <2>3. Last(J, t) \in Nat
    BY <2>1 DEF Last
  <2>4. t = disk.tls \/ J.n < 5
    BY <1>2
  <2>5. Last(K, t) = Last(J, t)
    BY <1>1
  <2>6. J.n < Last(J, disk.tls)
    BY <1>1, <2>1, <2>2, <2>4
  <2> QED BY <1>1, <2>2, <2>3, <2>5, <2>6
<1>4. Restarted(K, disk', served', restarts')
  <2>1. K.n <= Probe(K, disk'.tls) /\ Probe(K, disk'.tls) \in Nat /\ K.n \in Nat
    BY <1>1 DEF Probe
  <2> QED BY <2>1 DEF Restarted
<1>5. Working(K, disk', served', applying', restarts')
  BY <1>1, <1>2, <1>3, <1>4 DEF Working
<1> QED BY <1>3, <1>5, StepTypes, JobGoesOn DEF uploads

LEMMA OverlayFilesStep ==
  ASSUME IInv, NEW j \in Jobs, OverlayFiles(j)
  PROVE  IInv'
<1>1. PICK J : J = job[j]
  OBVIOUS
<1>2. Running(j) /\ J.at = "forward"
  BY <1>1 DEF OverlayFiles, On, Running
<1>3. Prof(J) \in Profiles /\ J.n \in 1..Last(J, disk.tls) /\ Working(J, disk, served, applying, restarts)
  BY <1>1, <1>2, Alongside
<1>4. J.n = 3
  BY <1>1, <1>2, <1>3, WhereForward DEF OverlayFiles, On
<1>5. PICK K : K = [J EXCEPT !.n = J.n + 1]
  OBVIOUS
<1>6. /\ K.at = J.at /\ K.n = 4 /\ K.image = J.image /\ K.safety = J.safety /\ Prof(K) = Prof(J)
      /\ J.image.disk \in Disks /\ J.safety \in Disks
  BY <1>1, <1>2, <1>4, <1>5, Moved
<1>7. Forwards(J, disk)
  BY <1>2, <1>4, <1>3 DEF Working
<1>8. /\ disk' = [disk EXCEPT !.tls = Kept(disk.tls, J.image.disk.tls)]
      /\ UNCHANGED <<served, restarts, due, applying, uploads, copies, spent>> /\ Move(j)
  BY <1>1 DEF OverlayFiles, Image, Kept, world
<1>9. /\ disk' \in Disks /\ disk'.tls = Kept(disk.tls, J.image.disk.tls) /\ disk'.db = disk.db
      /\ disk'.env = disk.env /\ disk'.awg = disk.awg /\ disk'.site = disk.site
  <2>1. disk \in Disks /\ Kept(disk.tls, J.image.disk.tls) \in Domains \cup {None}
    BY <1>6, StepTypes, DiskFields DEF Kept
  <2> QED BY <1>8, <2>1 DEF Disks
<1>10. Forwards(K, disk')
  BY <1>4, <1>6, <1>7, <1>9 DEF Forwards, OnFull, OnClients, Probe
<1>11. ~Built(K, disk'.tls) /\ J.n < Probe(J, disk'.tls)
  BY <1>2, <1>4, <1>6 DEF Built, Probe
<1> QED BY <1>1, <1>2, <1>4, <1>5, <1>8, <1>9, <1>10, <1>11, StepTypes, ForwardTurn

\* A job on the way forward, past its safety archive.
LEMMA Ahead ==
  ASSUME IInv, NEW j \in Jobs, NEW step, On(j, "forward", step), step \notin {"check", "safety"}, NEW J, J = job[j],
         NEW K, K = [J EXCEPT !.n = J.n + 1]
  PROVE  /\ Running(j) /\ J.at = "forward" /\ J.n > 2 /\ J.n \in Nat /\ J.n \in 1..Last(J, disk.tls)
         /\ Step(j) = step /\ Profile(j) = Prof(J) /\ Prof(J) \in Profiles
         /\ Forwards(J, disk) /\ (Built(J, disk.tls) => Up(disk, served, applying))
         /\ Restarted(J, disk, served, restarts)
         /\ K.at = "forward" /\ K.n = J.n + 1 /\ K.image = J.image /\ K.safety = J.safety
         /\ K.before = J.before /\ K.deferred = J.deferred /\ Prof(K) = Prof(J)
         /\ \A t : Probe(K, t) = Probe(J, t) /\ Last(K, t) = Last(J, t)
         /\ Holding(K) /\ Fits(J.image, J.safety) /\ J.image # None
         /\ J.image.disk \in Disks /\ J.safety \in Disks /\ disk \in Disks
<1>1. Running(j) /\ J.at = "forward" /\ Step(j) = step
  BY DEF On, Running
<1>2. Prof(J) \in Profiles /\ J.n \in 1..Last(J, disk.tls) /\ Working(J, disk, served, applying, restarts)
      /\ J \in Tasks
  BY <1>1, Alongside
<1>3. J.n > 2 /\ J.n \in Nat
  <2>1. J.n \in Nat /\ J.n >= 1
    BY <1>2 DEF Tasks
  <2>2. J.n # 1 /\ J.n # 2
    BY <1>1, <1>2, WhereForward
  <2> QED BY <2>1, <2>2
<1>4. Forwards(J, disk) /\ (Built(J, disk.tls) => Up(disk, served, applying)) /\ Restarted(J, disk, served, restarts)
  BY <1>1, <1>2, <1>3 DEF Working
<1>5. Profile(j) = Prof(J)
  BY DEF Profile, Prof
<1>6. /\ K.at = J.at /\ K.n = J.n + 1 /\ K.image = J.image /\ K.safety = J.safety
      /\ K.before = J.before /\ K.deferred = J.deferred
      /\ Prof(K) = Prof(J) /\ \A t : Probe(K, t) = Probe(J, t) /\ Last(K, t) = Last(J, t)
      /\ Holding(K) /\ J.image.disk \in Disks /\ J.safety \in Disks
      /\ J.image # None /\ Fits(J.image, J.safety)
  BY <1>1, <1>3, Moved
<1> QED BY <1>1, <1>2, <1>3, <1>4, <1>5, <1>6, StepTypes

LEMMA OverlayAwg31Step ==
  ASSUME IInv, NEW j \in Jobs, OverlayAwg31(j)
  PROVE  IInv'
<1>1. PICK J, K : J = job[j] /\ K = [J EXCEPT !.n = J.n + 1]
  OBVIOUS
<1>2. /\ Running(j) /\ J.at = "forward" /\ J.n > 2 /\ J.n \in 1..Last(J, disk.tls)
      /\ Step(j) = "awg" /\ Prof(J) \in Profiles /\ Forwards(J, disk)
      /\ K.at = "forward" /\ K.n = J.n + 1 /\ K.image = J.image /\ K.safety = J.safety /\ Prof(K) = Prof(J)
      /\ J.image.disk \in Disks /\ J.safety \in Disks /\ disk \in Disks
  BY <1>1, Ahead DEF OverlayAwg31
<1>3. J.n = 4 /\ Prof(J) = "full"
  BY <1>1, <1>2, WhereForward
<1>4. /\ disk' = [disk EXCEPT !.awg = Kept(disk.awg, J.image.disk.awg)]
      /\ UNCHANGED <<served, restarts, due, applying, uploads, copies, spent>> /\ Move(j)
  BY <1>1 DEF OverlayAwg31, Image, Kept, world
<1>5. /\ disk' \in Disks /\ disk'.awg = Kept(disk.awg, J.image.disk.awg) /\ disk'.db = disk.db
      /\ disk'.env = disk.env /\ disk'.tls = disk.tls /\ disk'.site = disk.site
  <2>1. Kept(disk.awg, J.image.disk.awg) \in Origins \cup {None}
    BY <1>2, DiskFields DEF Kept
  <2> QED BY <1>2, <1>4, <2>1 DEF Disks
<1>6. Forwards(K, disk')
  BY <1>2, <1>3, <1>5 DEF Forwards, OnFull
<1>7. ~Built(K, disk'.tls) /\ J.n < Probe(J, disk'.tls)
  BY <1>2, <1>3 DEF Built, Probe
<1> QED BY <1>1, <1>2, <1>3, <1>4, <1>5, <1>6, <1>7, StepTypes, ForwardTurn

LEMMA SwapDatabaseStep ==
  ASSUME IInv, NEW j \in Jobs, SwapDatabase(j)
  PROVE  IInv'
<1>1. PICK J, K : J = job[j] /\ K = [J EXCEPT !.n = J.n + 1]
  OBVIOUS
<1>2. /\ Running(j) /\ J.at = "forward" /\ J.n > 2 /\ J.n \in 1..Last(J, disk.tls)
      /\ Step(j) = "swap" /\ Prof(J) \in Profiles /\ Forwards(J, disk)
      /\ K.at = "forward" /\ K.n = J.n + 1 /\ K.image = J.image /\ K.safety = J.safety /\ Prof(K) = Prof(J)
      /\ J.image.disk \in Disks /\ J.safety \in Disks /\ disk \in Disks
  BY <1>1, Ahead DEF SwapDatabase
<1>3. J.n = IF Prof(J) = "clients" THEN 4 ELSE 5
  BY <1>1, <1>2, WhereForward
<1>4. /\ disk' = [disk EXCEPT !.db = J.image.disk.db]
      /\ UNCHANGED <<served, restarts, due, applying, uploads, copies, spent>> /\ Move(j)
  BY <1>1 DEF SwapDatabase, Image, world
<1>5. /\ disk' \in Disks /\ disk'.awg = disk.awg /\ disk'.db = J.image.disk.db
      /\ disk'.env = disk.env /\ disk'.tls = disk.tls /\ disk'.site = disk.site
  <2>1. J.image.disk.db \in Databases
    BY <1>2, DiskFields
  <2> QED BY <1>2, <1>4, <2>1 DEF Disks
<1>6. Forwards(K, disk')
  BY <1>2, <1>3, <1>5 DEF Forwards, OnFull, OnClients, Probe
<1>7. ~Built(K, disk'.tls) /\ J.n < Probe(J, disk'.tls)
  BY <1>2, <1>3 DEF Built, Probe
<1> QED BY <1>1, <1>2, <1>3, <1>4, <1>5, <1>6, <1>7, StepTypes, ForwardTurn

LEMMA MergeEnvStep ==
  ASSUME IInv, NEW j \in Jobs, MergeEnv(j)
  PROVE  IInv'
<1>1. PICK J, K : J = job[j] /\ K = [J EXCEPT !.n = J.n + 1]
  OBVIOUS
<1>2. /\ Running(j) /\ J.at = "forward" /\ J.n > 2 /\ J.n \in 1..Last(J, disk.tls)
      /\ Step(j) = "env" /\ Prof(J) \in Profiles /\ Forwards(J, disk)
      /\ K.at = "forward" /\ K.n = J.n + 1 /\ K.image = J.image /\ K.safety = J.safety /\ Prof(K) = Prof(J)
      /\ J.image.disk \in Disks /\ J.safety \in Disks /\ disk \in Disks
  BY <1>1, Ahead DEF MergeEnv
<1>3. J.n = 6 /\ Prof(J) = "full"
  BY <1>1, <1>2, WhereForward
<1>4. /\ disk' = [disk EXCEPT !.env = [machine |-> disk.env.machine, rest |-> J.image.disk.env.rest]]
      /\ UNCHANGED <<served, restarts, due, applying, uploads, copies, spent>> /\ Move(j)
  BY <1>1 DEF MergeEnv, WrittenMerged, Image, world
<1>5. /\ disk' \in Disks /\ disk'.awg = disk.awg /\ disk'.db = disk.db
      /\ disk'.env = [machine |-> disk.env.machine, rest |-> J.image.disk.env.rest]
      /\ disk'.tls = disk.tls /\ disk'.site = disk.site
  <2>1. [machine |-> disk.env.machine, rest |-> J.image.disk.env.rest] \in Envs
    BY <1>2, DiskFields DEF Envs
  <2> QED BY <1>2, <1>4, <2>1 DEF Disks
<1>6. Forwards(K, disk')
  BY <1>2, <1>3, <1>5 DEF Forwards, OnFull
<1>7. ~Built(K, disk'.tls) /\ J.n < Probe(J, disk'.tls)
  BY <1>2, <1>3 DEF Built, Probe
<1> QED BY <1>1, <1>2, <1>3, <1>4, <1>5, <1>6, <1>7, StepTypes, ForwardTurn

LEMMA RebindStep ==
  ASSUME IInv, NEW j \in Jobs, Rebind(j)
  PROVE  IInv'
<1>1. PICK J, K : J = job[j] /\ K = [J EXCEPT !.n = J.n + 1]
  OBVIOUS
<1>2. /\ Running(j) /\ J.at = "forward" /\ J.n > 2 /\ J.n \in 1..Last(J, disk.tls)
      /\ Step(j) = "rebind" /\ Prof(J) \in Profiles /\ Forwards(J, disk)
      /\ K.at = "forward" /\ K.n = J.n + 1 /\ K.image = J.image /\ K.safety = J.safety /\ Prof(K) = Prof(J)
      /\ J.image.disk \in Disks /\ J.safety \in Disks /\ disk \in Disks
  BY <1>1, Ahead DEF Rebind
<1>3. J.n = IF Prof(J) = "clients" THEN 5 ELSE 7
  BY <1>1, <1>2, WhereForward
<1>4. /\ disk' = [disk EXCEPT !.db = [disk.db EXCEPT !.host = disk.env.machine], !.run = None]
      /\ UNCHANGED <<served, restarts, due, applying, uploads, copies, spent>> /\ Move(j)
  BY <1>1 DEF Rebind, Rebound, world
<1>5. /\ disk' \in Disks /\ disk'.awg = disk.awg /\ disk'.db = [disk.db EXCEPT !.host = disk.env.machine]
      /\ disk'.env = disk.env /\ disk'.tls = disk.tls /\ disk'.site = disk.site
  <2>1. disk.db \in Databases /\ disk.env.machine \in Origins
    BY <1>2, DiskFields DEF Envs
  <2>2. [disk.db EXCEPT !.host = disk.env.machine] \in Databases /\ None \in Runs
    BY <2>1 DEF Databases, Runs
  <2> QED BY <1>2, <1>4, <2>2 DEF Disks
<1>6. /\ disk'.db.clients = disk.db.clients /\ disk'.db.settings = disk.db.settings
      /\ disk'.db.hidden = disk.db.hidden /\ disk'.db.host = disk.env.machine
  <2>1. disk.db \in Databases
    BY <1>2, DiskFields
  <2> QED BY <1>5, <2>1 DEF Databases
<1>7. Forwards(K, disk')
  BY <1>2, <1>3, <1>5, <1>6 DEF Forwards, OnFull, OnClients, Probe
<1>8. ~Built(K, disk'.tls) /\ J.n < Probe(J, disk'.tls)
  BY <1>2, <1>3 DEF Built, Probe
<1> QED BY <1>1, <1>2, <1>3, <1>4, <1>5, <1>7, <1>8, StepTypes, ForwardTurn

LEMMA HideStep ==
  ASSUME IInv, NEW j \in Jobs, Hide(j)
  PROVE  IInv'
<1>1. PICK J, K : J = job[j] /\ K = [J EXCEPT !.n = J.n + 1]
  OBVIOUS
<1>2. /\ Running(j) /\ J.at = "forward" /\ J.n > 2 /\ J.n \in 1..Last(J, disk.tls)
      /\ Step(j) = "hide" /\ Prof(J) \in Profiles /\ Forwards(J, disk)
      /\ K.at = "forward" /\ K.n = J.n + 1 /\ K.image = J.image /\ K.safety = J.safety /\ Prof(K) = Prof(J)
      /\ J.image.disk \in Disks /\ J.safety \in Disks /\ disk \in Disks
  BY <1>1, Ahead DEF Hide
<1>3. J.n = 6 /\ Prof(J) = "clients"
  BY <1>1, <1>2, WhereForward
<1>4. /\ disk' = [disk EXCEPT !.db = [disk.db EXCEPT !.hidden = TRUE]]
      /\ UNCHANGED <<served, restarts, due, applying, uploads, copies, spent>> /\ Move(j)
  BY <1>1 DEF Hide, world
<1>5. /\ disk' \in Disks /\ disk'.awg = disk.awg /\ disk'.db = [disk.db EXCEPT !.hidden = TRUE]
      /\ disk'.env = disk.env /\ disk'.tls = disk.tls /\ disk'.site = disk.site
  <2>1. disk.db \in Databases
    BY <1>2, DiskFields
  <2>2. [disk.db EXCEPT !.hidden = TRUE] \in Databases
    BY <2>1 DEF Databases
  <2> QED BY <1>2, <1>4, <2>2 DEF Disks
<1>6. disk'.db.clients = disk.db.clients /\ disk'.db.settings = disk.db.settings /\ disk'.db.host = disk.db.host
  <2>1. disk.db \in Databases
    BY <1>2, DiskFields
  <2> QED BY <1>5, <2>1 DEF Databases
<1>7. Forwards(K, disk')
  BY <1>2, <1>3, <1>5, <1>6 DEF Forwards, OnClients, Probe
<1>8. ~Built(K, disk'.tls) /\ J.n < Probe(J, disk'.tls)
  BY <1>2, <1>3 DEF Built, Probe
<1> QED BY <1>1, <1>2, <1>3, <1>4, <1>5, <1>7, <1>8, StepTypes, ForwardTurn

LEMMA UnhideStep ==
  ASSUME IInv, NEW j \in Jobs, Unhide(j)
  PROVE  IInv'
<1>1. PICK J, K : J = job[j] /\ K = [J EXCEPT !.n = J.n + 1]
  OBVIOUS
<1>2. /\ Running(j) /\ J.at = "forward" /\ J.n > 2 /\ J.n \in 1..Last(J, disk.tls)
      /\ Step(j) = "unhide" /\ Prof(J) \in Profiles /\ Forwards(J, disk)
      /\ Built(J, disk.tls) => Up(disk, served, applying)
      /\ K.at = "forward" /\ K.n = J.n + 1 /\ K.image = J.image /\ K.safety = J.safety /\ Prof(K) = Prof(J)
      /\ K.deferred = J.deferred
      /\ J.image.disk \in Disks /\ J.safety \in Disks /\ disk \in Disks
  BY <1>1, Ahead DEF Unhide
<1>3. J.n = Probe(J, disk.tls) - 1 /\ Prof(J) = "clients"
  BY <1>1, <1>2, WhereForward
<1>4. /\ disk' = [disk EXCEPT !.db = [disk.db EXCEPT !.hidden = FALSE]]
      /\ UNCHANGED <<served, restarts, due, applying, uploads, copies, spent>> /\ Move(j)
  BY <1>1 DEF Unhide, world
<1>5. /\ disk' \in Disks /\ disk'.awg = disk.awg /\ disk'.db = [disk.db EXCEPT !.hidden = FALSE]
      /\ disk'.env = disk.env /\ disk'.tls = disk.tls /\ disk'.site = disk.site /\ disk'.run = disk.run
  <2>1. disk.db \in Databases
    BY <1>2, DiskFields
  <2>2. [disk.db EXCEPT !.hidden = FALSE] \in Databases
    BY <2>1 DEF Databases
  <2> QED BY <1>2, <1>4, <2>2 DEF Disks
<1>6. /\ disk'.db.clients = disk.db.clients /\ disk'.db.settings = disk.db.settings
      /\ disk'.db.host = disk.db.host /\ ~disk'.db.hidden
  <2>1. disk.db \in Databases
    BY <1>2, DiskFields
  <2> QED BY <1>5, <2>1 DEF Databases
<1>7. Forwards(K, disk')
  BY <1>2, <1>3, <1>5, <1>6 DEF Forwards, OnClients, Probe
<1>8. J.n < Probe(J, disk'.tls) /\ disk'.tls = disk.tls
  BY <1>2, <1>3, <1>5 DEF Probe
<1>9. Built(K, disk'.tls) => Up(disk', served', applying')
  <2>1. Built(K, disk'.tls) => Built(J, disk.tls)
    BY <1>2, <1>3, <1>5 DEF Built, Probe
  <2> QED BY <1>2, <1>4, <1>5, <1>6, <2>1 DEF Up, Fresh
<1> QED BY <1>1, <1>2, <1>4, <1>5, <1>7, <1>8, <1>9, StepTypes, ForwardTurn

LEMMA ApplyStep ==
  ASSUME IInv, NEW j \in Jobs, Apply(j)
  PROVE  IInv'
<1>1. PICK J, K : J = job[j] /\ K = [J EXCEPT !.n = J.n + 1]
  OBVIOUS
<1>2. /\ Running(j) /\ J.at = "forward" /\ J.n > 2 /\ J.n \in 1..Last(J, disk.tls)
      /\ Step(j) = "apply" /\ Prof(J) \in Profiles /\ Forwards(J, disk)
      /\ K.at = "forward" /\ K.n = J.n + 1 /\ K.image = J.image /\ K.safety = J.safety /\ Prof(K) = Prof(J)
      /\ disk \in Disks
  BY <1>1, Ahead DEF Apply
<1>3. J.n \in IF Prof(J) = "clients" THEN {Probe(J, disk.tls) - 2} ELSE IF disk.tls = None THEN {8} ELSE {9, 12}
  BY <1>1, <1>2, WhereForward
<1>4. /\ disk' = [disk EXCEPT !.run = Of(disk.db)] /\ served' = [served EXCEPT !.xray = Of(disk.db)]
      /\ applying = None /\ UNCHANGED <<restarts, due, applying, uploads, copies, spent>> /\ Move(j)
  BY DEF Apply
<1>5. disk.db \in Databases /\ Of(disk.db) \in Runs
  BY <1>2, DiskFields, OfRuns
<1>6. /\ disk' \in Disks /\ disk'.awg = disk.awg /\ disk'.db = disk.db /\ disk'.run = Of(disk.db)
      /\ disk'.env = disk.env /\ disk'.tls = disk.tls /\ disk'.site = disk.site
  BY <1>2, <1>4, <1>5 DEF Disks
<1>7. /\ served' \in [xray : Runs, site : Domains \cup {None}, env : Envs]
      /\ served'.xray = Of(disk.db)
  BY <1>4, <1>5, StepTypes, ServedFields
<1>8. Forwards(K, disk')
  BY <1>2, <1>3, <1>6 DEF Forwards, OnFull, OnClients, Probe
<1>9. J.n < Probe(J, disk'.tls)
  BY <1>2, <1>3, <1>6 DEF Probe
<1>10. Up(disk', served', applying')
  BY <1>4, <1>5, <1>6, <1>7, OfRuns DEF Up, Fresh
<1> QED BY <1>1, <1>2, <1>4, <1>6, <1>7, <1>8, <1>9, <1>10, ForwardTurn

LEMMA RefreshForward ==
  ASSUME IInv, NEW j \in Jobs, RefreshHttps(j, "forward")
  PROVE  IInv'
<1>1. PICK J, K : J = job[j] /\ K = [J EXCEPT !.n = J.n + 1]
  OBVIOUS
<1>2. /\ Running(j) /\ J.at = "forward" /\ J.n > 2 /\ J.n \in 1..Last(J, disk.tls)
      /\ Step(j) = "https" /\ Prof(J) \in Profiles /\ Forwards(J, disk)
      /\ Built(J, disk.tls) => Up(disk, served, applying)
      /\ K.at = "forward" /\ K.n = J.n + 1 /\ K.image = J.image /\ K.safety = J.safety /\ Prof(K) = Prof(J)
      /\ K.deferred = J.deferred /\ disk \in Disks
  BY <1>1, Ahead DEF RefreshHttps
<1>3. disk.tls # None /\ J.n \in IF Prof(J) = "clients" THEN {7} ELSE {8, 11}
  BY <1>1, <1>2, WhereForward
<1>4. PICK run \in {disk.run, Of(disk.db)}, xray \in {served.xray, Of(disk.db)} :
        /\ disk' = [disk EXCEPT !.site = disk.tls, !.run = run]
        /\ served' = [served EXCEPT !.site = disk.tls, !.xray = xray]
        /\ \/ run = disk.run /\ xray = served.xray
           \/ run = Of(disk.db) /\ xray = Of(disk.db) /\ applying = None
  <2>1. CASE disk' = [disk EXCEPT !.site = disk.tls] /\ served' = [served EXCEPT !.site = disk.tls]
    <3>1. disk' = [disk EXCEPT !.site = disk.tls, !.run = disk.run]
      BY <1>2, <2>1 DEF Disks
    <3>2. served' = [served EXCEPT !.site = disk.tls, !.xray = served.xray]
      BY <2>1, StepTypes
    <3> QED BY <3>1, <3>2
  <2>2. CASE ~(disk' = [disk EXCEPT !.site = disk.tls] /\ served' = [served EXCEPT !.site = disk.tls])
    BY <2>2 DEF RefreshHttps
  <2> QED BY <2>1, <2>2
<1>5. UNCHANGED <<restarts, due, applying, uploads, copies, spent>> /\ Move(j)
  BY DEF RefreshHttps
<1>6. disk.db \in Databases /\ run \in Runs /\ xray \in Runs /\ disk.tls \in Domains \cup {None}
  <2>1. disk.db \in Databases /\ Of(disk.db) \in Runs /\ disk.run \in Runs /\ disk.tls \in Domains \cup {None}
    BY <1>2, DiskFields, OfRuns
  <2>2. served.xray \in Runs
    BY StepTypes, ServedFields
  <2> QED BY <1>4, <2>1, <2>2
<1>7. /\ disk' \in Disks /\ disk'.awg = disk.awg /\ disk'.db = disk.db /\ disk'.run = run
      /\ disk'.env = disk.env /\ disk'.tls = disk.tls /\ disk'.site = disk.tls
  BY <1>2, <1>4, <1>6 DEF Disks
<1>8. served' \in [xray : Runs, site : Domains \cup {None}, env : Envs] /\ served'.xray = xray
  BY <1>4, <1>6, StepTypes
<1>9. Forwards(K, disk')
  BY <1>2, <1>3, <1>7 DEF Forwards, OnFull, OnClients, Probe
<1>10. J.n < Probe(J, disk'.tls)
  BY <1>2, <1>3, <1>7 DEF Probe
<1>11. Built(K, disk'.tls) => Up(disk', served', applying')
  <2>1. SUFFICES ASSUME Built(K, disk'.tls) PROVE Up(disk', served', applying')
    OBVIOUS
  <2>2. Built(J, disk.tls)
    BY <1>2, <1>3, <1>7, <2>1 DEF Built
  <2>3. Up(disk, served, applying)
    BY <1>2, <2>2
  <2> QED BY <1>4, <1>5, <1>6, <1>7, <1>8, <2>3, OfRuns DEF Up, Fresh
<1> QED BY <1>1, <1>2, <1>5, <1>7, <1>8, <1>9, <1>10, <1>11, ForwardTurn

LEMMA RestartForward ==
  ASSUME IInv, NEW j \in Jobs, Restart(j, "forward")
  PROVE  IInv'
<1>1. PICK J, K : J = job[j] /\ K = [J EXCEPT !.n = J.n + 1]
  OBVIOUS
<1>2. /\ Running(j) /\ J.at = "forward" /\ J.n > 2 /\ J.n \in 1..Last(J, disk.tls)
      /\ Step(j) = "restart" /\ Prof(J) \in Profiles /\ Forwards(J, disk)
      /\ Built(J, disk.tls) => Up(disk, served, applying)
      /\ K.at = "forward" /\ K.n = J.n + 1 /\ K.image = J.image /\ K.safety = J.safety /\ Prof(K) = Prof(J)
      /\ disk \in Disks
  BY <1>1, Ahead DEF Restart
<1>3. Prof(J) = "full" /\ J.n \in IF disk.tls = None THEN {9} ELSE {10, 13}
  BY <1>1, <1>2, WhereForward
<1>4. /\ served' = [served EXCEPT !.xray = disk.run] /\ UNCHANGED disk
      /\ UNCHANGED <<restarts, due, applying, uploads, copies, spent>> /\ Move(j)
  <2>1. served' = [served EXCEPT !.xray = disk.run, !.site = served.site]
    BY DEF Restart
  <2>2. served' = [served EXCEPT !.xray = disk.run]
    BY <2>1, StepTypes
  <2> QED BY <2>2 DEF Restart
<1>5. disk.run \in Runs
  BY <1>2, DiskFields
<1>6. served' \in [xray : Runs, site : Domains \cup {None}, env : Envs] /\ served'.xray = disk.run
  BY <1>4, <1>5, StepTypes, ServedFields
<1>7. Forwards(K, disk')
  BY <1>2, <1>3, <1>4 DEF Forwards, OnFull
<1>8. J.n < Probe(J, disk'.tls) /\ Built(J, disk.tls)
  BY <1>2, <1>3, <1>4 DEF Probe, Built
<1>9. Up(disk', served', applying')
  BY <1>2, <1>4, <1>6, <1>8 DEF Up, Fresh
<1> QED BY <1>1, <1>2, <1>4, <1>6, <1>7, <1>8, <1>9, StepTypes, ForwardTurn

LEMMA DeferStep ==
  ASSUME IInv, NEW j \in Jobs, Defer(j)
  PROVE  IInv'
<1>1. PICK J, K : J = job[j] /\ K = [J EXCEPT !.n = J.n + 1]
  OBVIOUS
<1>2. /\ Running(j) /\ J.at = "forward" /\ J.n > 2 /\ J.n \in 1..Last(J, disk.tls) /\ J.n \in Nat
      /\ Step(j) = "apply" /\ Prof(J) \in Profiles /\ Forwards(J, disk)
      /\ Prof(J) = "clients" /\ Fits(J.image, J.safety)
  BY <1>1, Ahead DEF Defer
<1>3. J.n = Probe(J, disk.tls) - 2
  BY <1>1, <1>2, WhereForward
<1>4. J \in Tasks /\ Working(J, disk, served, applying, restarts)
  BY <1>1, <1>2, Alongside
<1>5. J.n + 1 \in 1..17
  BY <1>2, <1>3 DEF Probe
<1>6. PICK L : L = [J EXCEPT !.n = J.n + 1, !.deferred = TRUE]
  OBVIOUS
<1>7. L \in Tasks
  <2>1. \A n \in 1..17 : [J EXCEPT !.n = n, !.deferred = TRUE] \in Tasks
    BY <1>4 DEF Tasks
  <2> QED BY <1>5, <1>6, <2>1
<1>8. L.n = J.n + 1 /\ L.at = J.at /\ L.image = J.image /\ L.safety = J.safety /\ L.deferred /\ L.before = J.before
  BY <1>4, <1>6 DEF Tasks
<1>9. Prof(L) = Prof(J)
  BY <1>8 DEF Prof
<1>10. Holding(L)
  BY <1>2, <1>4, <1>8 DEF Working, Holding
<1>11. Forwards(L, disk)
  BY <1>2, <1>3, <1>8, <1>9 DEF Forwards, OnClients, Probe
<1>12. ~Built(L, disk.tls) /\ L.n <= Last(L, disk.tls) /\ Restarted(L, disk, served, restarts)
  BY <1>2, <1>3, <1>8, <1>9 DEF Built, Last, Probe, Restarted
<1>13. Working(L, disk, served, applying, restarts) /\ L.n > 1 /\ L.at = "forward"
  BY <1>2, <1>8, <1>10, <1>11, <1>12 DEF Working
<1>14. job' = [job EXCEPT ![j] = L] /\ UNCHANGED <<disk, served, restarts, due, applying, slot, rq, copies>>
  <2>1. job' = [job EXCEPT ![j] = [job[j] EXCEPT !.n = job[j].n + 1, !.deferred = TRUE]]
    BY DEF Defer
  <2> QED BY <1>1, <1>6, <2>1 DEF Defer, uploads
<1>15. Working(L, disk', served', applying', restarts')
  BY <1>13, <1>14
<1>16. spent' \in Spendings /\ spent'.copies = spent.copies
  BY FaultSpent DEF Defer, IInv, TypeOK, Spendings
<1> QED BY <1>2, <1>7, <1>13, <1>14, <1>15, <1>16, JobTurn, StepTypes, TaskIsJob DEF Spendings

-----------------------------------------------------------------------------
\* From the probe on, nothing moves but the counter.
LEMMA TailTurn ==
  ASSUME IInv, NEW j \in Jobs, Running(j), NEW J, J = job[j], J.n >= Probe(J, disk.tls), J.n < Last(J, disk.tls),
         NEW K \in Tasks, K.at = J.at, K.n = J.n + 1, K.image = J.image, K.safety = J.safety,
         K.deferred = J.deferred, K.beside = J.beside,
         Restarted(K, disk, served, restarts), job' = [job EXCEPT ![j] = K],
         due' \in BOOLEAN, slot' \in [Profiles -> Slots],
         slot'["full"].ready \in {None, slot["full"].ready},
         slot'["full"].upload = slot["full"].upload, slot'["full"].kept = slot["full"].kept,
         UNCHANGED <<disk, served, restarts, applying, rq, copies, spent>>
  PROVE  IInv'
<1>1. /\ J \in Tasks /\ J.at \in {"forward", "undo"} /\ Working(J, disk, served, applying, restarts)
      /\ Prof(J) \in Profiles
  BY Alongside
<1>2. J.n \in Nat /\ Probe(J, disk.tls) \in 5..14 /\ (J.at = "forward" => J.n >= 9)
  BY <1>1 DEF Tasks, Probe
<1>3. Prof(K) = Prof(J) /\ \A t : Probe(K, t) = Probe(J, t) /\ Last(K, t) = Last(J, t)
  BY DEF Prof, Probe, Last
<1>4. Holding(K)
  BY <1>1, <1>2 DEF Working, Holding
<1>5. K.n <= Last(K, disk.tls)
  BY <1>2, <1>3 DEF Last
<1>6. K.at = "forward" => Forwards(K, disk) /\ (Built(K, disk.tls) => Up(disk, served, applying))
  <2>1. SUFFICES ASSUME K.at = "forward" PROVE Forwards(K, disk) /\ (Built(K, disk.tls) => Up(disk, served, applying))
    OBVIOUS
  <2>2. Forwards(J, disk) /\ (Built(J, disk.tls) => Up(disk, served, applying))
    BY <1>1, <1>2, <2>1 DEF Working
  <2>3. CASE Prof(J) = "clients"
    BY <1>2, <1>3, <2>1, <2>2, <2>3 DEF Forwards, OnClients, Built, Probe
  <2>4. CASE Prof(J) = "full"
    BY <1>2, <1>3, <2>1, <2>2, <2>4 DEF Forwards, OnFull, Built, Probe
  <2> QED BY <1>1, <2>3, <2>4 DEF Profiles
<1>7. K.at = "undo" => Backwards(K, disk, served)
  <2>1. SUFFICES ASSUME K.at = "undo" PROVE Backwards(K, disk, served)
    OBVIOUS
  <2>2. Backwards(J, disk, served)
    BY <1>1, <2>1 DEF Working
  <2>3. Built(J, disk.tls) /\ Built(K, disk.tls)
    BY <1>2, <1>3, <2>1 DEF Built, Probe
  <2> QED BY <1>2, <2>2, <2>3 DEF Backwards
<1>8. K.n > 2
  BY <1>2
<1>9. Working(K, disk, served, applying, restarts)
  BY <1>4, <1>5, <1>6, <1>7, <1>8 DEF Working
<1>10. Working(K, disk', served', applying', restarts')
  BY <1>9
<1>11. K \in JobStates /\ K.n > 1
  BY <1>2, <1>8, TaskIsJob
<1>12. spent \in Spendings
  BY DEF IInv, TypeOK, Spendings
<1>13. disk' \in Disks /\ served' \in [xray : Runs, site : Domains \cup {None}, env : Envs]
  BY StepTypes
<1> QED BY <1>10, <1>11, <1>12, <1>13, JobTurn DEF Spendings

LEMMA At ==
  ASSUME IInv, NEW j \in Jobs, NEW way \in {"forward", "undo"}, NEW step, On(j, way, step), NEW J, J = job[j]
  PROVE  /\ Running(j) /\ J.at = way /\ J \in Tasks /\ J.n \in Nat /\ J.n \in 1..Last(J, disk.tls)
         /\ Probe(J, disk.tls) \in 5..14
         /\ Last(J, disk.tls) = Probe(J, disk.tls) + IF way = "forward" /\ Prof(J) = "clients" THEN 4 ELSE 3
         /\ Restarted(J, disk, served, restarts)
         /\ step = "health" => J.n = Probe(J, disk.tls)
         /\ step = "schedule" => J.n = Probe(J, disk.tls) + 1
         /\ step = "wait" => J.n = Probe(J, disk.tls) + 2
         /\ step = "finish" /\ way = "forward" => J.n = Probe(J, disk.tls) + 3
<1>1. Running(j) /\ J.at = way /\ Step(j) = step
  BY DEF On, Running
<1>2. /\ J \in Tasks /\ J.n \in 1..Last(J, disk.tls) /\ Prof(J) \in Profiles
      /\ Working(J, disk, served, applying, restarts)
  BY <1>1, Alongside
<1>3. J.n \in Nat /\ Probe(J, disk.tls) \in 5..14 /\ Restarted(J, disk, served, restarts)
  BY <1>2 DEF Tasks, Probe, Working
<1>4. CASE way = "forward"
  BY <1>1, <1>2, <1>3, <1>4, WhereForward DEF Last
<1>5. CASE way = "undo"
  BY <1>1, <1>2, <1>3, <1>5, WhereBack DEF Last
<1> QED BY <1>4, <1>5

LEMMA HealthStep ==
  ASSUME IInv, NEW j \in Jobs, NEW way \in {"forward", "undo"}, Health(j, way)
  PROVE  IInv'
<1>1. PICK J : J = job[j]
  OBVIOUS
<1>2. PICK K : K = [J EXCEPT !.n = J.n + 1, !.before = restarts]
  OBVIOUS
<1>3. /\ Running(j) /\ J \in Tasks /\ J.n \in Nat /\ J.n = Probe(J, disk.tls) /\ Probe(J, disk.tls) \in 5..14
      /\ Last(J, disk.tls) > J.n
  BY <1>1, At DEF Health
<1>4. K \in Tasks
  <2>1. J.n + 1 \in 1..17 /\ restarts \in Nat
    BY <1>3, StepTypes
  <2>2. \A n \in 1..17, k \in Nat : [J EXCEPT !.n = n, !.before = k] \in Tasks
    BY <1>3 DEF Tasks
  <2> QED BY <1>2, <2>1, <2>2
<1>5. /\ K.at = J.at /\ K.n = J.n + 1 /\ K.image = J.image /\ K.safety = J.safety
      /\ K.deferred = J.deferred /\ K.beside = J.beside /\ K.before = restarts
  BY <1>2, <1>3 DEF Tasks
<1>6. Restarted(K, disk, served, restarts)
  <2>1. Probe(K, disk.tls) = Probe(J, disk.tls)
    BY <1>5 DEF Probe, Prof
  <2> QED BY <1>3, <1>5, <2>1 DEF Restarted
<1>7. job' = [job EXCEPT ![j] = K] /\ UNCHANGED <<disk, served, restarts, due, applying, slot, rq, copies, spent>>
  <2>1. job' = [job EXCEPT ![j] = [job[j] EXCEPT !.n = job[j].n + 1, !.before = restarts]]
    BY DEF Health
  <2> QED BY <1>1, <1>2, <2>1 DEF Health, world, uploads
<1>8. J.n >= Probe(J, disk.tls) /\ J.n < Last(J, disk.tls)
  BY <1>3 DEF Last
<1>9. due' \in BOOLEAN /\ slot' \in [Profiles -> Slots]
  BY <1>7, StepTypes
<1> QED BY <1>1, <1>3, <1>4, <1>5, <1>6, <1>7, <1>8, <1>9, TailTurn

LEMMA CounterTurn ==
  ASSUME IInv, NEW j \in Jobs, Running(j), Move(j), NEW J, J = job[j], J \in Tasks, J.n \in Nat,
         Probe(J, disk.tls) \in 5..14, J.n >= Probe(J, disk.tls), J.n < Last(J, disk.tls),
         Last(J, disk.tls) <= Probe(J, disk.tls) + IF Probe(J, disk.tls) = 14 THEN 3 ELSE 4,
         J.n > Probe(J, disk.tls), Restarted(J, disk, served, restarts),
         J.n >= Probe(J, disk.tls) + 2 => served.env = disk.env /\ (disk.tls # None => served.site = disk.tls),
         due' \in BOOLEAN, slot' \in [Profiles -> Slots],
         slot'["full"].ready \in {None, slot["full"].ready},
         slot'["full"].upload = slot["full"].upload, slot'["full"].kept = slot["full"].kept,
         UNCHANGED <<disk, served, restarts, applying, rq, copies, spent>>
  PROVE  IInv'
<1>1. PICK K : K = [J EXCEPT !.n = J.n + 1]
  OBVIOUS
<1>2. K \in Tasks
  <2>1. J.n + 1 \in 1..17
    <3>1. PICK p : p = Probe(J, disk.tls)
      OBVIOUS
    <3>2. PICK l : l = Last(J, disk.tls)
      OBVIOUS
    <3>3. l \in Nat
      BY <3>2 DEF Last, Probe
    <3>4. J.n + 1 <= l /\ l <= 17
      BY <3>1, <3>2, <3>3
    <3> QED BY <3>3, <3>4
  <2> QED BY <1>1, <2>1, Updated
<1>3. /\ K.at = J.at /\ K.n = J.n + 1 /\ K.image = J.image /\ K.safety = J.safety
      /\ K.deferred = J.deferred /\ K.beside = J.beside /\ K.before = J.before
  BY <1>1 DEF Tasks
<1>4. Restarted(K, disk, served, restarts)
  <2>1. Probe(K, disk.tls) = Probe(J, disk.tls)
    BY <1>3 DEF Probe, Prof
  <2> QED BY <1>3, <2>1 DEF Restarted
<1>5. job' = [job EXCEPT ![j] = K]
  BY <1>1 DEF Move
<1> QED BY <1>2, <1>3, <1>4, <1>5, TailTurn

LEMMA ScheduleStep ==
  ASSUME IInv, NEW j \in Jobs, NEW way \in {"forward", "undo"}, Schedule(j, way)
  PROVE  IInv'
<1>1. PICK J : J = job[j]
  OBVIOUS
<1>2. /\ Running(j) /\ J \in Tasks /\ J.n \in Nat /\ J.n = Probe(J, disk.tls) + 1 /\ Probe(J, disk.tls) \in 5..14
      /\ Last(J, disk.tls) > J.n
      /\ Restarted(J, disk, served, restarts)
  BY <1>1, At DEF Schedule
<1>3. Last(J, disk.tls) <= Probe(J, disk.tls) + IF Probe(J, disk.tls) = 14 THEN 3 ELSE 4
  BY DEF Last, Probe
<1>4. UNCHANGED <<disk, served, restarts, applying, slot, rq, copies, spent>> /\ Move(j) /\ due' = TRUE
  BY DEF Schedule, uploads
<1> QED BY <1>1, <1>2, <1>3, <1>4, CounterTurn, StepTypes

LEMMA WaitStep ==
  ASSUME IInv, NEW j \in Jobs, NEW way \in {"forward", "undo"}, Wait(j, way)
  PROVE  IInv'
<1>1. PICK J : J = job[j]
  OBVIOUS
<1>2. /\ Running(j) /\ J \in Tasks /\ J.n \in Nat /\ J.n = Probe(J, disk.tls) + 2 /\ Probe(J, disk.tls) \in 5..14
      /\ Last(J, disk.tls) > J.n
      /\ Restarted(J, disk, served, restarts)
  BY <1>1, At DEF Wait
<1>3. Last(J, disk.tls) <= Probe(J, disk.tls) + IF Probe(J, disk.tls) = 14 THEN 3 ELSE 4
  BY DEF Last, Probe
<1>4. UNCHANGED <<disk, served, restarts, due, applying, slot, rq, copies, spent>> /\ Move(j)
  BY DEF Wait, world, uploads
<1>5. served.env = disk.env /\ (disk.tls # None => served.site = disk.tls)
  BY <1>1, <1>2 DEF Wait, Healthy, Restarted
<1> QED BY <1>1, <1>2, <1>3, <1>4, <1>5, CounterTurn, StepTypes

LEMMA FinishStep ==
  ASSUME IInv, NEW j \in Jobs, Finish(j)
  PROVE  IInv'
<1>1. PICK J : J = job[j]
  OBVIOUS
<1>2. /\ Running(j) /\ J \in Tasks /\ J.n \in Nat /\ J.n = Probe(J, disk.tls) + 3 /\ Probe(J, disk.tls) \in 5..14
      /\ J.at = "forward" /\ Restarted(J, disk, served, restarts)
      /\ Last(J, disk.tls) = Probe(J, disk.tls) + IF Prof(J) = "clients" THEN 4 ELSE 3
  BY <1>1, At DEF Finish
<1>3. Last(J, disk.tls) <= Probe(J, disk.tls) + IF Probe(J, disk.tls) = 14 THEN 3 ELSE 4
  BY DEF Last, Probe
<1>4. UNCHANGED <<disk, served, restarts, due, applying, rq, copies, spent>>
  BY DEF Finish
<1>5. /\ slot' \in [Profiles -> Slots]
      /\ slot'["full"].ready = None
      /\ slot'["full"].upload = slot["full"].upload /\ slot'["full"].kept = slot["full"].kept
  <2>1. slot' = [slot EXCEPT !["full"].ready = None] /\ slot \in [Profiles -> Slots]
    BY StepTypes DEF Finish
  <2>2. [slot["full"] EXCEPT !.ready = None] \in Slots /\ "full" \in Profiles
    BY <2>1 DEF Slots, Profiles
  <2> QED BY <2>1, <2>2 DEF Slots
<1>6. CASE End(j)
  BY <1>2, <1>4, <1>5, <1>6, JobEnds, StepTypes
<1>7. CASE Move(j) /\ Prof(J) = "clients"
  <2>1. served.env = disk.env /\ (disk.tls # None => served.site = disk.tls)
    BY <1>2 DEF Restarted
  <2>2. J.n < Last(J, disk.tls)
    BY <1>2, <1>7
  <2> QED BY <1>1, <1>2, <1>3, <1>4, <1>5, <1>7, <2>1, <2>2, CounterTurn, StepTypes
<1> QED BY <1>1, <1>6, <1>7 DEF Finish, Profile, Prof

LEMMA ReconcileStep ==
  ASSUME IInv, NEW j \in Jobs, Reconcile(j)
  PROVE  IInv'
<1>1. Running(j)
  BY DEF Reconcile, On, Running
<1>2. disk \in Disks /\ served \in [xray : Runs, site : Domains \cup {None}, env : Envs]
  BY StepTypes
<1>3. disk.db \in Databases /\ Of(disk.db) \in Runs
  BY <1>2, DiskFields, OfRuns
<1>4. [disk EXCEPT !.run = Of(disk.db)] \in Disks
  BY <1>2, <1>3, DiskFields
<1>5. [served EXCEPT !.xray = Of(disk.db)] \in [xray : Runs, site : Domains \cup {None}, env : Envs]
  BY <1>2, <1>3
<1>6. disk' \in Disks /\ served' \in [xray : Runs, site : Domains \cup {None}, env : Envs]
  BY <1>2, <1>4, <1>5 DEF Reconcile
<1>7. End(j) /\ UNCHANGED <<restarts, due, applying, slot, rq, copies, spent>>
  BY DEF Reconcile, uploads
<1> QED BY <1>1, <1>6, <1>7, JobEnds, StepTypes

LEMMA EndingStep ==
  ASSUME IInv, NEW j \in Jobs, Report(j) \/ Kill(j)
  PROVE  IInv'
<1>1. Running(j)
  BY DEF Report, Kill, On, Running
<1>2. End(j) /\ UNCHANGED <<disk, served, restarts, due, applying, slot, rq, copies>> /\ (UNCHANGED spent \/ Fault)
  BY DEF Report, Kill, world, uploads
<1> QED BY <1>1, <1>2, JobEnds, StepTypes

-----------------------------------------------------------------------------
\* The steps of an undo.
LEMMA BackTurn ==
  ASSUME IInv, NEW j \in Jobs, Running(j), NEW J, J = job[j], J.at = "undo",
         NEW K, K = [J EXCEPT !.n = J.n + 1], Move(j),
         disk' \in Disks, served' \in [xray : Runs, site : Domains \cup {None}, env : Envs],
         J.n < Probe(J, disk'.tls), disk'.tls = disk.tls \/ J.n < 5,
         Backwards(K, disk', served'),
         UNCHANGED <<restarts, due, applying, uploads, copies, spent>>
  PROVE  IInv'
<1>1. /\ K.at = J.at /\ K.n = J.n + 1 /\ Holding(K) /\ J.n \in Nat
      /\ Prof(K) = Prof(J) /\ \A t : Probe(K, t) = Probe(J, t) /\ Last(K, t) = Last(J, t)
  BY Moved
<1>2. PICK t : t = disk'.tls
  OBVIOUS
<1>3. J.n < Last(J, disk.tls) /\ K.n <= Last(K, t)
  <2>1. Probe(J, t) \in 5..7 /\ Last(J, t) = Probe(J, t) + 3 /\ Last(J, disk.tls) \in 8..10
    BY DEF Probe, Last
  <2>2. J.n < Last(J, disk.tls)
    BY <1>1, <1>2, <2>1
  <2> QED BY <1>1, <1>2, <2>1, <2>2
<1>4. Restarted(K, disk', served', restarts')
  <2>1. K.n <= Probe(K, disk'.tls) /\ Probe(K, disk'.tls) \in Nat /\ K.n \in Nat
    BY <1>1 DEF Probe
  <2> QED BY <2>1 DEF Restarted
<1>5. Working(K, disk', served', applying', restarts')
  BY <1>1, <1>2, <1>3, <1>4 DEF Working
<1> QED BY <1>3, <1>5, StepTypes, JobGoesOn DEF uploads

\* A job on its way back.
LEMMA Behind ==
  ASSUME IInv, NEW j \in Jobs, NEW step, On(j, "undo", step), NEW J, J = job[j],
         NEW K, K = [J EXCEPT !.n = J.n + 1]
  PROVE  /\ Running(j) /\ J.at = "undo" /\ J.n \in Nat /\ J.n \in 1..Last(J, disk.tls)
         /\ Step(j) = step /\ Prof(J) \in Profiles /\ Backwards(J, disk, served)
         /\ K.at = "undo" /\ K.n = J.n + 1 /\ K.safety = J.safety /\ K.beside = J.beside
         /\ Prof(K) = Prof(J) /\ \A t : Probe(K, t) = Probe(J, t)
         /\ J.safety \in Disks /\ disk \in Disks
<1>1. Running(j) /\ J.at = "undo" /\ Step(j) = step
  BY DEF On, Running
<1>2. Prof(J) \in Profiles /\ J.n \in 1..Last(J, disk.tls) /\ Working(J, disk, served, applying, restarts)
  BY <1>1, Alongside
<1>3. Backwards(J, disk, served)
  BY <1>1, <1>2 DEF Working
<1>4. /\ K.at = J.at /\ K.n = J.n + 1 /\ K.safety = J.safety /\ K.beside = J.beside
      /\ Prof(K) = Prof(J) /\ \A t : Probe(K, t) = Probe(J, t)
      /\ J.safety \in Disks /\ J.n \in Nat
  BY <1>1, Moved
<1> QED BY <1>1, <1>2, <1>3, <1>4, StepTypes

LEMMA PutBackFilesStep ==
  ASSUME IInv, NEW j \in Jobs, PutBackFiles(j)
  PROVE  IInv'
<1>1. PICK J, K : J = job[j] /\ K = [J EXCEPT !.n = J.n + 1]
  OBVIOUS
<1>2. /\ Running(j) /\ J.at = "undo" /\ J.n \in 1..Last(J, disk.tls)
      /\ Step(j) = "files" /\ Prof(J) \in Profiles /\ Backwards(J, disk, served)
      /\ K.at = "undo" /\ K.n = J.n + 1 /\ K.safety = J.safety
      /\ J.safety \in Disks /\ disk \in Disks
  BY <1>1, Behind DEF PutBackFiles
<1>3. J.n = 1
  BY <1>1, <1>2, WhereBack
<1>4. PICK m : m = J.safety
  OBVIOUS
<1>5. /\ disk' = [disk EXCEPT !.tls = IF m.tls = None THEN disk.tls ELSE m.tls, !.awg = m.awg, !.site = m.site,
                              !.run = IF m.run = None THEN disk.run ELSE m.run]
      /\ UNCHANGED <<served, restarts, due, applying, uploads, copies, spent>> /\ Move(j)
  BY <1>1, <1>4 DEF PutBackFiles, Mine, world
<1>6. /\ disk' \in Disks /\ disk'.awg = m.awg /\ disk'.site = m.site
      /\ disk'.tls = IF m.tls = None THEN disk.tls ELSE m.tls
      /\ disk'.run = IF m.run = None THEN disk.run ELSE m.run
  BY <1>2, <1>4, <1>5 DEF Disks
<1>7. Backwards(K, disk', served')
  BY <1>2, <1>3, <1>4, <1>6 DEF Backwards, Built, Whole, Settled
<1>8. J.n < Probe(J, disk'.tls)
  BY <1>2, <1>3 DEF Probe
<1> QED BY <1>1, <1>2, <1>3, <1>5, <1>6, <1>7, <1>8, StepTypes, BackTurn

\* A database is itself with its own count of changes.
LEMMA SameCount ==
  ASSUME NEW b \in Databases
  PROVE  b = [b EXCEPT !.clients.rev = b.clients.rev]
<1>1. b.clients \in Contents
  BY DEF Databases
<1>2. b.clients = [b.clients EXCEPT !.rev = b.clients.rev]
  BY <1>1 DEF Contents
<1>3. b = [b EXCEPT !.clients = [b.clients EXCEPT !.rev = b.clients.rev]]
  BY <1>2 DEF Databases
<1> QED BY <1>3

LEMMA PutBackDatabaseStep ==
  ASSUME IInv, NEW j \in Jobs, PutBackDatabase(j)
  PROVE  IInv'
<1>1. PICK J, K : J = job[j] /\ K = [J EXCEPT !.n = J.n + 1]
  OBVIOUS
<1>2. /\ Running(j) /\ J.at = "undo" /\ J.n \in 1..Last(J, disk.tls)
      /\ Step(j) = "swap" /\ Prof(J) \in Profiles /\ Backwards(J, disk, served)
      /\ K.at = "undo" /\ K.n = J.n + 1 /\ K.safety = J.safety /\ K.beside = J.beside
      /\ J.safety \in Disks /\ disk \in Disks
  BY <1>1, Behind DEF PutBackDatabase
<1>3. J.n = 2
  BY <1>1, <1>2, WhereBack
<1>4. PICK m : m = J.safety
  OBVIOUS
<1>5. /\ disk' = [disk EXCEPT !.db = m.db]
      /\ UNCHANGED <<served, restarts, due, applying, uploads, copies, spent>> /\ Move(j)
  BY <1>1, <1>4 DEF PutBackDatabase, Mine, world
<1>6. m.db \in Databases /\ m.db.clients.rev \in Nat
  BY <1>2, <1>4, DiskFields
<1>7. /\ disk' \in Disks /\ disk'.db = m.db /\ disk'.awg = disk.awg /\ disk'.site = disk.site
      /\ disk'.tls = disk.tls /\ disk'.run = disk.run
  BY <1>2, <1>5, <1>6 DEF Disks
<1>8. Backwards(K, disk', served')
  <2>1. m.db = [m.db EXCEPT !.clients.rev = m.db.clients.rev] /\ m.db.clients.rev <= m.db.clients.rev
    BY <1>6, SameCount
  <2>2. ~K.beside /\ Whole(m) => Returned(disk'.run, m, disk')
    BY <1>2, <1>3, <1>4, <1>7 DEF Backwards, Returned
  <2>3. ~Built(K, disk'.tls)
    BY <1>2, <1>3 DEF Built
  <2> QED BY <1>2, <1>3, <1>4, <1>7, <2>1, <2>2, <2>3 DEF Backwards
<1>9. J.n < Probe(J, disk'.tls)
  BY <1>2, <1>3 DEF Probe
<1> QED BY <1>1, <1>2, <1>3, <1>5, <1>7, <1>8, <1>9, StepTypes, BackTurn

LEMMA PutBackEnvStep ==
  ASSUME IInv, NEW j \in Jobs, PutBackEnv(j)
  PROVE  IInv'
<1>1. PICK J, K : J = job[j] /\ K = [J EXCEPT !.n = J.n + 1]
  OBVIOUS
<1>2. /\ Running(j) /\ J.at = "undo" /\ J.n \in 1..Last(J, disk.tls)
      /\ Step(j) = "env" /\ Prof(J) \in Profiles /\ Backwards(J, disk, served)
      /\ K.at = "undo" /\ K.n = J.n + 1 /\ K.safety = J.safety /\ K.beside = J.beside
      /\ J.safety \in Disks /\ disk \in Disks
  BY <1>1, Behind DEF PutBackEnv
<1>3. J.n = 3
  BY <1>1, <1>2, WhereBack
<1>4. PICK m : m = J.safety
  OBVIOUS
<1>5. /\ disk' = [disk EXCEPT !.env = m.env]
      /\ UNCHANGED <<served, restarts, due, applying, uploads, copies, spent>> /\ Move(j)
  BY <1>1, <1>4 DEF PutBackEnv, Mine, world
<1>6. m.env \in Envs
  BY <1>2, <1>4, DiskFields
<1>7. /\ disk' \in Disks /\ disk'.db = disk.db /\ disk'.awg = disk.awg /\ disk'.site = disk.site
      /\ disk'.tls = disk.tls /\ disk'.run = disk.run /\ disk'.env = m.env
  BY <1>2, <1>5, <1>6 DEF Disks
<1>8. Backwards(K, disk', served')
  <2>1. ~Built(K, disk'.tls) /\ ~Built(J, disk.tls)
    BY <1>2, <1>3 DEF Built
  <2>2. ~K.beside /\ Whole(m) => Returned(disk'.run, m, disk')
    BY <1>2, <1>3, <1>4, <1>7 DEF Backwards, Returned
  <2> QED BY <1>2, <1>3, <1>4, <1>7, <2>1, <2>2 DEF Backwards
<1>9. J.n < Probe(J, disk'.tls)
  BY <1>2, <1>3 DEF Probe
<1> QED BY <1>1, <1>2, <1>3, <1>5, <1>7, <1>8, <1>9, StepTypes, BackTurn

LEMMA RefreshBack ==
  ASSUME IInv, NEW j \in Jobs, RefreshHttps(j, "undo")
  PROVE  IInv'
<1>1. PICK J, K : J = job[j] /\ K = [J EXCEPT !.n = J.n + 1]
  OBVIOUS
<1>2. /\ Running(j) /\ J.at = "undo" /\ J.n \in 1..Last(J, disk.tls)
      /\ Step(j) = "https" /\ Prof(J) \in Profiles /\ Backwards(J, disk, served)
      /\ K.at = "undo" /\ K.n = J.n + 1 /\ K.safety = J.safety /\ K.beside = J.beside
      /\ Prof(K) = Prof(J) /\ J.safety \in Disks /\ disk \in Disks
  BY <1>1, Behind DEF RefreshHttps
<1>3. Prof(J) = "clients" /\ disk.tls # None /\ J.n \in {4, 6}
  BY <1>1, <1>2, WhereBack
<1>4. PICK m : m = J.safety
  OBVIOUS
<1>5. PICK run \in {disk.run, Of(disk.db)}, xray \in {served.xray, Of(disk.db)} :
        /\ disk' = [disk EXCEPT !.site = disk.tls, !.run = run]
        /\ served' = [served EXCEPT !.site = disk.tls, !.xray = xray]
  <2>1. CASE disk' = [disk EXCEPT !.site = disk.tls] /\ served' = [served EXCEPT !.site = disk.tls]
    <3>1. disk' = [disk EXCEPT !.site = disk.tls, !.run = disk.run]
      BY <1>2, <2>1 DEF Disks
    <3>2. served' = [served EXCEPT !.site = disk.tls, !.xray = served.xray]
      BY <2>1, StepTypes
    <3> QED BY <3>1, <3>2
  <2>2. CASE ~(disk' = [disk EXCEPT !.site = disk.tls] /\ served' = [served EXCEPT !.site = disk.tls])
    BY <2>2 DEF RefreshHttps
  <2> QED BY <2>1, <2>2
<1>6. UNCHANGED <<restarts, due, applying, uploads, copies, spent>> /\ Move(j)
  BY DEF RefreshHttps
<1>7. disk.db \in Databases /\ run \in Runs /\ xray \in Runs /\ disk.tls \in Domains \cup {None}
  <2>1. disk.db \in Databases /\ Of(disk.db) \in Runs /\ disk.run \in Runs /\ disk.tls \in Domains \cup {None}
    BY <1>2, DiskFields, OfRuns
  <2>2. served.xray \in Runs
    BY StepTypes, ServedFields
  <2> QED BY <1>5, <2>1, <2>2
<1>8. /\ disk' \in Disks /\ disk'.awg = disk.awg /\ disk'.db = disk.db /\ disk'.run = run
      /\ disk'.env = disk.env /\ disk'.tls = disk.tls /\ disk'.site = disk.tls
  BY <1>2, <1>5, <1>7 DEF Disks
<1>9. /\ served' \in [xray : Runs, site : Domains \cup {None}, env : Envs]
      /\ served'.xray = xray /\ served'.site = disk.tls
  BY <1>5, <1>7, StepTypes
<1>10. Returned(Of(disk.db), m, disk)
  <2>1. PICK n : n = disk.db.clients.rev
    OBVIOUS
  <2>2. disk.db = [m.db EXCEPT !.clients.rev = n] /\ m.db.clients.rev <= n
    BY <1>2, <1>3, <1>4, <2>1 DEF Backwards
  <2>3. n \in Nat /\ m.db.clients.rev \in Nat
    BY <1>2, <1>4, <2>1, DiskFields
  <2>4. n \in m.db.clients.rev..disk.db.clients.rev
    BY <2>1, <2>2, <2>3
  <2> QED BY <2>2, <2>4 DEF Returned
<1>11. \A x : Returned(x, m, disk) => Returned(x, m, disk')
  BY <1>8 DEF Returned
<1>12. Whole(m) => m.site = disk.tls
  BY <1>2, <1>3, <1>4 DEF Backwards, Whole, Settled
<1>13. K.n > 3 /\ J.n > 3 /\ (Built(K, disk'.tls) => Built(J, disk.tls)) /\ K.n # 2
  BY <1>2, <1>3, <1>8 DEF Built
<1>14. Backwards(K, disk', served')
  <2>1. ~K.beside /\ Whole(m) => Returned(disk'.run, m, disk')
    BY <1>2, <1>3, <1>4, <1>5, <1>8, <1>10, <1>11, <1>13 DEF Backwards
  <2>2. ~K.beside /\ Whole(m) /\ Built(K, disk'.tls) => Returned(served'.xray, m, disk')
    BY <1>2, <1>4, <1>5, <1>9, <1>10, <1>11, <1>13 DEF Backwards
  <2>3. /\ disk'.awg = m.awg /\ disk'.env = m.env /\ (m.tls # None => disk'.tls = m.tls)
        /\ (Whole(m) => disk'.site = m.site /\ served'.site = m.site)
        /\ (Whole(m) /\ m.tls = None => disk'.tls = None)
        /\ disk'.db = [m.db EXCEPT !.clients.rev = disk'.db.clients.rev]
        /\ m.db.clients.rev <= disk'.db.clients.rev
    BY <1>2, <1>3, <1>4, <1>8, <1>9, <1>12 DEF Backwards
  <2> QED BY <1>2, <1>4, <1>13, <2>1, <2>2, <2>3 DEF Backwards
<1>15. J.n < Probe(J, disk'.tls)
  BY <1>2, <1>3, <1>8 DEF Probe
<1> QED BY <1>1, <1>2, <1>6, <1>8, <1>9, <1>14, <1>15, BackTurn

LEMMA RestartBack ==
  ASSUME IInv, NEW j \in Jobs, Restart(j, "undo")
  PROVE  IInv'
<1>1. PICK J, K : J = job[j] /\ K = [J EXCEPT !.n = J.n + 1]
  OBVIOUS
<1>2. /\ Running(j) /\ J.at = "undo" /\ J.n \in 1..Last(J, disk.tls)
      /\ Step(j) = "restart" /\ Prof(J) \in Profiles /\ Backwards(J, disk, served)
      /\ K.at = "undo" /\ K.n = J.n + 1 /\ K.safety = J.safety /\ K.beside = J.beside
      /\ Prof(K) = Prof(J) /\ J.safety \in Disks /\ disk \in Disks
  BY <1>1, Behind DEF Restart
<1>3. J.n = IF Prof(J) = "clients" /\ disk.tls # None THEN 5 ELSE 4
  BY <1>1, <1>2, WhereBack
<1>4. PICK m : m = J.safety
  OBVIOUS
<1>5. /\ served' = [served EXCEPT !.xray = disk.run, !.site = disk.site]
      /\ UNCHANGED <<disk, restarts, due, applying, uploads, copies, spent>> /\ Move(j)
  BY DEF Restart
<1>6. disk.run \in Runs /\ disk.site \in Domains \cup {None}
  BY <1>2, DiskFields
<1>7. /\ served' \in [xray : Runs, site : Domains \cup {None}, env : Envs]
      /\ served'.xray = disk.run /\ served'.site = disk.site
  BY <1>5, <1>6, StepTypes
<1>8. Backwards(K, disk, served')
  BY <1>2, <1>3, <1>4, <1>7 DEF Backwards
<1>9. Backwards(K, disk', served') /\ J.n < Probe(J, disk'.tls)
  BY <1>2, <1>3, <1>5, <1>8 DEF Probe
<1> QED BY <1>1, <1>2, <1>5, <1>7, <1>9, StepTypes, BackTurn

\* The undo begins, or is given up.
LEMMA FailsStep ==
  ASSUME IInv, NEW j \in Jobs, Fails(j)
  PROVE  IInv'
<1>1. PICK J : J = job[j]
  OBVIOUS
<1>2. Running(j) /\ J.safety # None
  BY <1>1 DEF Fails
<1>3. /\ J \in Tasks /\ J.at \in {"forward", "undo"} /\ Working(J, disk, served, applying, restarts)
      /\ disk \in Disks
  BY <1>1, <1>2, Alongside, StepTypes
<1>4. UNCHANGED <<served, restarts, due, applying, slot, rq, copies>> /\ (UNCHANGED spent \/ Fault)
  BY DEF Fails, uploads
<1>5. CASE J.at = "undo"
  <2>1. End(j) /\ UNCHANGED disk
    BY <1>1, <1>5 DEF Fails
  <2> QED BY <1>2, <1>4, <2>1, JobEnds, StepTypes
<1>6. CASE J.at = "forward"
  <2>1. PICK K : K = [J EXCEPT !.at = "undo", !.n = 1, !.beside = FALSE]
    OBVIOUS
  <2>2. job' = [job EXCEPT ![j] = K]
    BY <1>1, <1>6, <2>1 DEF Fails
  <2>3. K \in Tasks
    <3>1. \A n \in 1..17 : [J EXCEPT !.at = "undo", !.n = n, !.beside = FALSE] \in Tasks
      BY <1>3 DEF Tasks
    <3> QED BY <2>1, <3>1
  <2>4. K.at = "undo" /\ K.n = 1 /\ K.image = J.image /\ K.safety = J.safety
    BY <1>3, <2>1 DEF Tasks
  <2>5. PICK h \in BOOLEAN : disk' = [disk EXCEPT !.db = [disk.db EXCEPT !.hidden = h]]
    <3>1. disk.db.hidden \in BOOLEAN
      BY <1>3, DiskFields DEF Databases
    <3>2. PICK h \in BOOLEAN : disk' = [disk EXCEPT !.db.hidden = h]
      BY <1>1, <1>6, <3>1 DEF Fails
    <3> QED BY <3>2
  <2>6. disk' \in Disks /\ disk'.tls = disk.tls
    <3>1. [disk.db EXCEPT !.hidden = h] \in Databases
      BY <1>3, <2>5, DiskFields DEF Databases
    <3> QED BY <1>3, <2>5, <3>1 DEF Disks
  <2>7. J.n > 2 /\ J.image # None /\ Lawful(J.image) /\ Fits(J.image, J.safety) /\ Forwards(J, disk)
    <3>1. J.n > 2
      BY <1>2, <1>3, <1>6 DEF Working, Holding, Tasks
    <3> QED BY <1>2, <1>3, <1>6, <3>1 DEF Working, Holding
  <2>8. Whole(J.safety) /\ J.safety.tls = None => disk'.tls = None
    BY <2>6, <2>7 DEF Whole, Fits, Brought, Forwards, OnFull, OnClients, Kept
  <2>9. Working(K, disk', served', applying', restarts')
    <3>1. Backwards(K, disk', served')
      BY <2>4, <2>8 DEF Backwards, Built
    <3>2. Holding(K)
      BY <1>2, <2>4, <2>7 DEF Holding
    <3>3. K.n <= Last(K, disk'.tls) /\ Restarted(K, disk', served', restarts')
      BY <2>4 DEF Last, Probe, Restarted
    <3> QED BY <2>4, <3>1, <3>2, <3>3 DEF Working
  <2>10. spent' \in Spendings /\ spent'.copies = spent.copies
    BY <1>4, FaultSpent DEF IInv, TypeOK, Spendings
  <2>11. K \in JobStates
    BY <2>3, TaskIsJob
  <2> QED BY <1>2, <1>4, <2>2, <2>4, <2>6, <2>9, <2>10, <2>11, JobTurn, StepTypes DEF Spendings
<1> QED BY <1>3, <1>5, <1>6

\* Every step of a job, and its death.
LEMMA JobNext ==
  ASSUME IInv, NEW j \in Jobs, JobStep(j) \/ Kill(j)
  PROVE  IInv'
<1>1. CASE Check(j) \/ Safety(j) \/ OverlayFiles(j) \/ OverlayAwg31(j) \/ SwapDatabase(j) \/ MergeEnv(j) \/ Rebind(j)
  BY <1>1, CheckStep, SafetyStep, OverlayFilesStep, OverlayAwg31Step, SwapDatabaseStep, MergeEnvStep, RebindStep
<1>2. CASE Hide(j) \/ Apply(j) \/ Defer(j) \/ Unhide(j) \/ Finish(j) \/ Reconcile(j) \/ Report(j) \/ Kill(j)
  BY <1>2, HideStep, ApplyStep, DeferStep, UnhideStep, FinishStep, ReconcileStep, EndingStep
<1>3. CASE PutBackFiles(j) \/ PutBackDatabase(j) \/ PutBackEnv(j) \/ Fails(j)
  BY <1>3, PutBackFilesStep, PutBackDatabaseStep, PutBackEnvStep, FailsStep
<1>4. ASSUME NEW way \in {"forward", "undo"},
             RefreshHttps(j, way) \/ Restart(j, way) \/ Health(j, way) \/ Schedule(j, way) \/ Wait(j, way)
      PROVE  IInv'
  <2>1. CASE Health(j, way) \/ Schedule(j, way) \/ Wait(j, way)
    BY <2>1, HealthStep, ScheduleStep, WaitStep
  <2>2. CASE way = "forward"
    BY <1>4, <2>1, <2>2, RefreshForward, RestartForward
  <2>3. CASE way = "undo"
    BY <1>4, <2>1, <2>3, RefreshBack, RestartBack
  <2> QED BY <2>2, <2>3
<1> QED BY <1>1, <1>2, <1>3, <1>4 DEF JobStep

-----------------------------------------------------------------------------
\* What goes on meanwhile.
LEMMA SameWorldWorking ==
  ASSUME NEW J, NEW d, NEW s, NEW a, NEW k, NEW d1, NEW s1, NEW a1, NEW k1, Working(J, d, s, a, k),
         SameRest(d1, d), SameBase(d1.db, d.db),
         Up(d, s, a) => Up(d1, s1, a1),
         J.at = "undo" => Backwards(J, d1, s1),
         Restarted(J, d1, s1, k1)
  PROVE  Working(J, d1, s1, a1, k1)
<1>1. d1.tls = d.tls /\ J.n <= Last(J, d1.tls) /\ Holding(J)
  BY DEF Working, SameRest
<1>2. Fits(J.image, d) => Fits(J.image, d1)
  BY DEF Fits, Brought, SameRest, SameBase
<1>3. Forwards(J, d) => Forwards(J, d1)
  BY DEF Forwards, OnFull, OnClients, SameRest, SameBase, Probe
<1> QED BY <1>1, <1>2, <1>3 DEF Working

LEMMA SameWorldCopying ==
  ASSUME NEW q, NEW d, NEW s, NEW a, NEW cs, NEW d1, NEW s1, NEW a1, Copying(q, d, s, a, cs),
         SameRest(d1, d), SameBase(d1.db, d.db), Up(d, s, a) => Up(d1, s1, a1)
  PROVE  Copying(q, d1, s1, a1, cs)
BY DEF Copying, SameRest, SameBase

LEMMA WorldTurn ==
  ASSUME IInv, UNCHANGED <<slot, rq, copies>>, SameRest(disk', disk), SameBase(disk'.db, disk.db),
         Up(disk, served, applying) => Up(disk', served', applying'),
         disk' \in Disks, served' \in [xray : Runs, site : Domains \cup {None}, env : Envs],
         restarts' \in Nat, due' \in BOOLEAN, applying' \in Runs, spent' \in Spendings, spent'.copies = spent.copies,
         job' \in [Jobs -> JobStates],
         \A j \in Jobs : job'[j].at = job[j].at /\ job'[j].n = job[j].n,
         \A j \in Jobs : Running(j) => Working(job'[j], disk', served', applying', restarts')
  PROVE  IInv'
<1>1. TypeOK'
  BY DEF IInv, TypeOK, Spendings
<1>2. \A j \in Jobs : Running(j)' <=> Running(j)
  BY DEF Running
<1>3. Alone' /\ Numbered' /\ Stocked'
  BY <1>2 DEF IInv, Orderly, Alone, Busy, Numbered, Stocked
<1>4. Asked'
  <2>1. \A a : Brought(a, disk) => Brought(a, disk')
    BY DEF Brought, SameRest
  <2>2. \A a : Chosen(a) => Chosen(a)'
    BY <2>1 DEF Chosen, Fits, SameBase
  <2>3. Asked
    BY DEF IInv, Orderly
  <2> QED BY <2>1, <2>2, <2>3 DEF Asked
<1>5. ASSUME NEW r \in Requests PROVE Copying(rq[r], disk, served, applying, copies)'
  <2>1. Copying(rq[r], disk, served, applying, copies)
    BY DEF IInv, Orderly
  <2>2. Copying(rq[r], disk', served', applying', copies)
    BY <2>1, SameWorldCopying
  <2> QED BY <2>2
<1>6. \A j \in Jobs : Running(j)' => Working(job[j], disk, served, applying, restarts)'
  BY <1>2
<1> QED BY <1>1, <1>3, <1>4, <1>5, <1>6 DEF IInv, Orderly

LEMMA EditStep ==
  ASSUME IInv, Edit
  PROVE  IInv'
<1>1. PICK d : d = disk
  OBVIOUS
<1>2. PICK b : b = d.db
  OBVIOUS
<1>3. PICK k : k = b.clients.rev
  OBVIOUS
<1>4. d \in Disks /\ b \in Databases /\ b.clients \in Contents /\ k \in Nat
  BY <1>1, <1>2, <1>3, StepTypes, DiskFields
<1>5. PICK c : c = [b EXCEPT !.clients = [b.clients EXCEPT !.rev = k + 1]]
  OBVIOUS
<1>6. /\ c \in Databases /\ c.clients.from = b.clients.from /\ c.clients.rev = k + 1
      /\ c.settings = b.settings /\ c.host = b.host /\ c.hidden = b.hidden
  <2>1. PICK x : x = [b.clients EXCEPT !.rev = k + 1]
    OBVIOUS
  <2>2. x \in Contents /\ x.from = b.clients.from /\ x.rev = k + 1
    BY <1>4, <2>1 DEF Contents
  <2>3. c = [b EXCEPT !.clients = x]
    BY <1>5, <2>1
  <2> QED BY <1>4, <2>2, <2>3 DEF Databases
<1>7. disk' = [d EXCEPT !.db = c]
  BY <1>1, <1>2, <1>3, <1>5 DEF Edit
<1>8. /\ disk' \in Disks /\ disk'.db = c /\ disk'.env = d.env /\ disk'.tls = d.tls /\ disk'.awg = d.awg
      /\ disk'.site = d.site /\ disk'.run = d.run
  BY <1>4, <1>6, <1>7 DEF Disks
<1>9. SameRest(disk', disk) /\ SameBase(disk'.db, disk.db)
  BY <1>1, <1>2, <1>6, <1>8 DEF SameRest, SameBase
<1>10. UNCHANGED <<served, restarts, due, applying, slot, rq, job, copies>>
  BY DEF Edit, uploads
<1>11. Up(disk, served, applying) => Up(disk', served', applying')
  BY <1>1, <1>2, <1>6, <1>8, <1>10 DEF Up, Fresh
<1>12. spent' \in Spendings /\ spent'.copies = spent.copies
  BY RestoreAssumption DEF Edit, IInv, TypeOK, Spendings
<1>13. ASSUME NEW j \in Jobs, Running(j) PROVE Working(job'[j], disk', served', applying', restarts')
  <2>1. PICK J : J = job[j]
    OBVIOUS
  <2>2. Working(J, disk, served, applying, restarts) /\ J \in Tasks
    BY <1>13, <2>1, Alongside
  <2>3. Restarted(J, disk', served, restarts)
    BY <1>1, <1>8, <2>2 DEF Working, Restarted
  <2>4. J.at = "undo" => Backwards(J, disk', served)
    <3>1. SUFFICES ASSUME J.at = "undo" PROVE Backwards(J, disk', served)
      OBVIOUS
    <3>2. PICK m : m = J.safety
      OBVIOUS
    <3>3. Backwards(J, d, served) /\ m \in Disks
      BY <1>1, <2>2, <3>1, <3>2, Updated DEF Working, Holding
    <3>4. m.db \in Databases /\ m.db.clients \in Contents /\ m.db.clients.rev \in Nat
      BY <3>3, DiskFields
    <3>5. J.n > 2 => c = [m.db EXCEPT !.clients.rev = k + 1] /\ m.db.clients.rev <= k + 1
      <4>1. SUFFICES ASSUME J.n > 2 PROVE c = [m.db EXCEPT !.clients.rev = k + 1] /\ m.db.clients.rev <= k + 1
        OBVIOUS
      <4>2. b = [m.db EXCEPT !.clients.rev = k] /\ m.db.clients.rev <= k
        BY <1>2, <1>3, <3>2, <3>3, <4>1 DEF Backwards
      <4>3. b.clients = [m.db.clients EXCEPT !.rev = k]
        BY <3>4, <4>2 DEF Databases
      <4>4. [b.clients EXCEPT !.rev = k + 1] = [m.db.clients EXCEPT !.rev = k + 1]
        BY <3>4, <4>3 DEF Contents
      <4>5. c = [m.db EXCEPT !.clients = [m.db.clients EXCEPT !.rev = k + 1]]
        BY <1>5, <3>4, <4>2, <4>4 DEF Databases
      <4> QED BY <1>4, <3>4, <4>2, <4>5
    <3>6. J.n > 2 => \A x : Returned(x, m, d) => Returned(x, m, disk')
      <4>1. m.db.clients.rev..k \subseteq m.db.clients.rev..(k + 1)
        BY <1>4, <3>4
      <4> QED BY <1>2, <1>3, <1>6, <1>8, <4>1 DEF Returned
    <3>7. Built(J, d.tls) => J.n > 2
      BY <2>2, <3>1 DEF Built, Tasks
    <3> QED BY <1>6, <1>8, <3>2, <3>3, <3>5, <3>6, <3>7 DEF Backwards
  <2>5. Working(J, disk', served, applying, restarts)
    BY <1>9, <1>10, <1>11, <2>2, <2>3, <2>4, SameWorldWorking
  <2> QED BY <1>10, <2>1, <2>5
<1>14. job' \in [Jobs -> JobStates] /\ \A j \in Jobs : job'[j].at = job[j].at /\ job'[j].n = job[j].n
  BY <1>10 DEF IInv, TypeOK
<1>15. restarts' \in Nat /\ due' \in BOOLEAN /\ applying' \in Runs
       /\ served' \in [xray : Runs, site : Domains \cup {None}, env : Envs]
  BY <1>10, StepTypes
<1> QED BY <1>8, <1>9, <1>10, <1>11, <1>12, <1>13, <1>14, <1>15, WorldTurn

LEMMA BeginApplyStep ==
  ASSUME IInv, BeginApply
  PROVE  IInv'
<1>1. applying' = Of(disk.db) /\ UNCHANGED <<disk, served, restarts, due, slot, rq, job, copies, spent>>
  BY DEF BeginApply, uploads
<1>2. disk.db \in Databases /\ Of(disk.db) \in Runs
  BY StepTypes, DiskFields, OfRuns
<1>3. Up(disk, served, applying) => Up(disk, served, Of(disk.db))
  BY <1>2, OfRuns DEF Up, Fresh
<1>4. SameRest(disk, disk) /\ SameBase(disk.db, disk.db)
  BY DEF SameRest, SameBase
<1>5. ASSUME NEW j \in Jobs, Running(j) PROVE Working(job'[j], disk', served', applying', restarts')
  <2>1. Working(job[j], disk, served, applying, restarts)
    BY <1>5, Alongside
  <2>2. /\ job[j].at = "undo" => Backwards(job[j], disk, served)
        /\ Restarted(job[j], disk, served, restarts)
    BY <2>1 DEF Working
  <2>3. Working(job[j], disk, served, Of(disk.db), restarts)
    BY <1>3, <1>4, <2>1, <2>2, SameWorldWorking
  <2> QED BY <1>1, <2>3
<1>6. spent \in Spendings /\ job \in [Jobs -> JobStates]
  BY DEF IInv, TypeOK, Spendings
<1> QED BY <1>1, <1>2, <1>3, <1>4, <1>5, <1>6, StepTypes, WorldTurn

LEMMA EndApplyStep ==
  ASSUME IInv, EndApply
  PROVE  IInv'
<1>1. /\ applying # None /\ disk' = [disk EXCEPT !.run = applying]
      /\ served' = [served EXCEPT !.xray = applying] /\ applying' = None
      /\ job' = [j \in Jobs |-> IF Running(j) THEN [job[j] EXCEPT !.beside = TRUE] ELSE job[j]]
      /\ UNCHANGED <<restarts, due, slot, rq, copies, spent>>
  BY DEF EndApply, uploads
<1>2. PICK d : d = disk
  OBVIOUS
<1>3. d \in Disks /\ applying \in Runs
  BY <1>2, StepTypes
<1>4. /\ disk' \in Disks /\ disk'.db = d.db /\ disk'.env = d.env /\ disk'.tls = d.tls /\ disk'.awg = d.awg
      /\ disk'.site = d.site /\ disk'.run = applying
  BY <1>1, <1>2, <1>3 DEF Disks
<1>5. /\ served' \in [xray : Runs, site : Domains \cup {None}, env : Envs]
      /\ served'.xray = applying /\ served'.env = served.env /\ served'.site = served.site
  BY <1>1, <1>3, StepTypes
<1>6. SameRest(disk', disk) /\ SameBase(disk'.db, disk.db)
  BY <1>2, <1>4 DEF SameRest, SameBase
<1>7. Up(disk, served, applying) => Up(disk', served', applying')
  BY <1>1, <1>2, <1>4, <1>5 DEF Up, Fresh
<1>8. \A j \in Jobs : Running(j) =>
        /\ job'[j] \in Tasks /\ job'[j].at = job[j].at /\ job'[j].n = job[j].n /\ job'[j].image = job[j].image
        /\ job'[j].safety = job[j].safety /\ job'[j].before = job[j].before
        /\ job'[j].deferred = job[j].deferred /\ job'[j].beside
  <2>1. SUFFICES ASSUME NEW j \in Jobs, Running(j), NEW J, J = job[j], NEW K, K = [J EXCEPT !.beside = TRUE]
                 PROVE  /\ K \in Tasks /\ K.at = J.at /\ K.n = J.n /\ K.image = J.image /\ K.safety = J.safety
                        /\ K.before = J.before /\ K.deferred = J.deferred /\ K.beside
    BY <1>1
  <2>2. J \in Tasks
    BY <2>1, Alongside
  <2> QED BY <2>1, <2>2 DEF Tasks
<1>9. \A j \in Jobs : ~Running(j) => job'[j] = job[j]
  BY <1>1
<1>10. job \in [Jobs -> JobStates]
  BY DEF IInv, TypeOK
<1>11. job' \in [Jobs -> JobStates] /\ \A j \in Jobs : job'[j].at = job[j].at /\ job'[j].n = job[j].n
  <2>1. \A j \in Jobs : job'[j] \in JobStates
    BY <1>8, <1>9, <1>10, TaskIsJob
  <2> QED BY <1>1, <1>8, <1>9, <2>1
<1>12. ASSUME NEW j \in Jobs, Running(j) PROVE Working(job'[j], disk', served', applying', restarts')
  <2>1. PICK J, K : J = job[j] /\ K = job'[j]
    OBVIOUS
  <2>2. /\ K.at = J.at /\ K.n = J.n /\ K.image = J.image /\ K.safety = J.safety /\ K.before = J.before
        /\ K.deferred = J.deferred /\ K.beside
    BY <1>8, <1>12, <2>1
  <2>3. Working(J, disk, served, applying, restarts)
    BY <1>12, <2>1, Alongside
  <2>4. /\ Prof(K) = Prof(J)
        /\ \A t : Probe(K, t) = Probe(J, t) /\ Last(K, t) = Last(J, t) /\ (Built(K, t) <=> Built(J, t))
    BY <2>2 DEF Prof, Probe, Last, Built
  <2>5. Holding(K) /\ (Forwards(J, disk) => Forwards(K, disk)) /\ Restarted(K, disk, served, restarts)
    BY <2>2, <2>3, <2>4 DEF Working, Holding, Forwards, OnFull, OnClients, Restarted
  <2>6. K.at = "undo" => Backwards(K, disk, served)
    <3>1. K.at = "undo" => Backwards(J, disk, served)
      BY <2>2, <2>3 DEF Working
    <3> QED BY <2>2, <2>4, <3>1 DEF Backwards
  <2>7. Working(K, disk, served, applying, restarts)
    BY <2>2, <2>3, <2>4, <2>5, <2>6 DEF Working
  <2>8. Restarted(K, disk', served', restarts)
    BY <1>2, <1>4, <1>5, <2>5 DEF Restarted
  <2>9. K.at = "undo" => Backwards(K, disk', served')
    BY <1>2, <1>4, <1>5, <2>2, <2>6 DEF Backwards
  <2>10. Working(K, disk', served', applying', restarts)
    BY <1>6, <1>7, <2>7, <2>8, <2>9, SameWorldWorking
  <2> QED BY <1>1, <2>1, <2>10
<1>13. spent \in Spendings /\ None \in Runs
  BY DEF IInv, TypeOK, Spendings, Runs
<1> QED BY <1>1, <1>4, <1>5, <1>6, <1>7, <1>11, <1>12, <1>13, StepTypes, WorldTurn

\* The panel comes back on what is on disk; its threads may be gone.
LEMMA PanelRestartsStep ==
  ASSUME IInv, PanelRestarts
  PROVE  IInv'
<1>1. /\ due' = FALSE /\ applying' = None /\ UNCHANGED <<disk, slot, job, copies>>
      /\ rq' \in {rq, [r \in Requests |-> NoRequest]}
  BY DEF PanelRestarts
<1>2. /\ \/ restarts' = restarts + 1 /\ served' = [served EXCEPT !.env = disk.env]
         \/ restarts' = restarts /\ served' = served
      /\ UNCHANGED spent \/ Fault
  BY DEF PanelRestarts
<1>3. /\ disk \in Disks /\ served \in [xray : Runs, site : Domains \cup {None}, env : Envs]
      /\ restarts \in Nat /\ disk.env \in Envs /\ slot \in [Profiles -> Slots]
  BY StepTypes, DiskFields
<1>4. /\ served' \in [xray : Runs, site : Domains \cup {None}, env : Envs] /\ restarts' \in Nat
      /\ served'.xray = served.xray /\ served'.site = served.site
      /\ \/ served'.env = disk.env
         \/ served' = served /\ restarts' = restarts
  BY <1>2, <1>3
<1>5. spent' \in Spendings /\ spent'.copies = spent.copies
  BY <1>2, FaultSpent DEF IInv, TypeOK, Spendings
<1>6. rq' \in [Requests -> RequestStates] /\ \A r \in Requests : rq'[r] = rq[r] \/ rq'[r] = NoRequest
  <2>1. rq \in [Requests -> RequestStates]
    BY DEF IInv, TypeOK
  <2> QED BY <1>1, <2>1, NotStarted
<1>7. TypeOK'
  BY <1>1, <1>3, <1>4, <1>5, <1>6 DEF IInv, TypeOK, Runs, Spendings
<1>8. Up(disk, served, applying) => Up(disk, served', None)
  BY <1>4 DEF Up, Fresh
<1>9. SameRest(disk, disk) /\ SameBase(disk.db, disk.db)
  BY DEF SameRest, SameBase
<1>10. \A j \in Jobs : (Running(j)' <=> Running(j)) /\ job'[j] = job[j]
  BY <1>1 DEF Running
<1>11. \A r \in Requests : Busy(r)' => Busy(r) /\ rq'[r] = rq[r]
  BY <1>6, NotStarted DEF Busy, Verifying
<1>12. Alone' /\ Numbered' /\ Stocked'
  BY <1>1, <1>5, <1>10, <1>11 DEF IInv, Orderly, Alone, Numbered, Stocked
<1>13. Asked'
  <2>1. Asked /\ \A r \in Requests : rq'[r].at \in {"promote", "start"} => rq'[r] = rq[r]
    BY <1>6, NotStarted DEF IInv, Orderly
  <2>2. \A a : (Chosen(a) => Chosen(a)') /\ (Brought(a, disk) => Brought(a, disk'))
    BY <1>1 DEF Chosen
  <2> QED BY <1>1, <1>10, <2>1, <2>2 DEF Asked
<1>14. ASSUME NEW r \in Requests PROVE Copying(rq[r], disk, served, applying, copies)'
  <2>1. CASE rq'[r] = NoRequest
    BY <2>1, NotStarted DEF Copying, CopySteps
  <2>2. CASE rq'[r] = rq[r]
    <3>1. Copying(rq[r], disk, served, applying, copies)
      BY DEF IInv, Orderly
    <3>2. Copying(rq[r], disk, served', None, copies)
      BY <1>8, <1>9, <3>1, SameWorldCopying
    <3> QED BY <1>1, <2>2, <3>2
  <2> QED BY <1>6, <2>1, <2>2
<1>15. ASSUME NEW j \in Jobs, Running(j)' PROVE Working(job[j], disk, served, applying, restarts)'
  <2>1. PICK J : J = job[j]
    OBVIOUS
  <2>2. Working(J, disk, served, applying, restarts)
    BY <1>10, <1>15, <2>1, Alongside
  <2>3. Restarted(J, disk, served', restarts')
    BY <1>4, <2>2 DEF Working, Restarted
  <2>4. J.at = "undo" => Backwards(J, disk, served')
    BY <1>4, <2>2 DEF Working, Backwards
  <2>5. Working(J, disk, served', None, restarts')
    BY <1>8, <1>9, <2>2, <2>3, <2>4, SameWorldWorking
  <2> QED BY <1>1, <1>10, <2>1, <2>5
<1> QED BY <1>7, <1>12, <1>13, <1>14, <1>15 DEF IInv, Orderly

-----------------------------------------------------------------------------
\* Uploads and their verification hand nothing over.
LEMMA VerifyTurn ==
  ASSUME IInv, NEW r \in Requests, rq[r].at \in Verifying, NEW q \in RequestStates, q.at \in Verifying,
         rq' = [rq EXCEPT ![r] = q], UNCHANGED <<disk, served, restarts, due, applying, job, copies>>,
         slot' \in [Profiles -> Slots], \A p \in Profiles : slot'[p].ready = slot[p].ready,
         Stocked', spent' \in Spendings, spent'.copies = spent.copies
  PROVE  IInv'
<1>1. rq \in [Requests -> RequestStates] /\ rq'[r] = q /\ \A s \in Requests \ {r} : rq'[s] = rq[s]
  BY DEF IInv, TypeOK
<1>2. TypeOK'
  BY <1>1 DEF IInv, TypeOK, Spendings
<1>3. \A s \in Requests : rq'[s].at \in Verifying \/ rq'[s] = rq[s]
  BY <1>1
<1>4. \A s \in Requests : Busy(s)' => Busy(s)
  BY <1>3 DEF Busy
<1>5. \A j \in Jobs : (Running(j)' <=> Running(j)) /\ job'[j] = job[j]
  BY DEF Running
<1>6. Alone' /\ Numbered'
  BY <1>4, <1>5 DEF IInv, Orderly, Alone, Numbered
<1>7. Asked'
  <2>1. slot'["full"].ready = slot["full"].ready /\ slot'["clients"].ready = slot["clients"].ready
    BY DEF Profiles
  <2>2. Asked /\ \A s \in Requests : rq'[s].at \in {"promote", "start"} => rq'[s] = rq[s]
    BY <1>3 DEF IInv, Orderly, Verifying
  <2>3. \A a : (Chosen(a) => Chosen(a)') /\ (Brought(a, disk) => Brought(a, disk'))
    BY DEF Chosen
  <2> QED BY <1>5, <2>1, <2>2, <2>3 DEF Asked
<1>8. \A s \in Requests : Copying(rq[s], disk, served, applying, copies)'
  <2>1. \A s \in Requests : Copying(rq[s], disk, served, applying, copies)
    BY DEF IInv, Orderly
  <2>2. \A s \in Requests : Copying(rq'[s], disk, served, applying, copies)
    <3> SUFFICES ASSUME NEW s \in Requests PROVE Copying(rq'[s], disk, served, applying, copies)
      OBVIOUS
    <3>1. CASE rq'[s] = rq[s]
      BY <2>1, <3>1
    <3>2. CASE rq'[s].at \in {"idle", "uploaded", "read", "kept"}
      BY <3>2 DEF Copying, CopySteps
    <3> QED BY <1>3, <3>1, <3>2 DEF Verifying
  <2> QED BY <2>2
<1>9. \A j \in Jobs : Running(j)' => Working(job[j], disk, served, applying, restarts)'
  BY <1>5 DEF IInv, Orderly
<1> QED BY <1>2, <1>6, <1>7, <1>8, <1>9 DEF IInv, Orderly

\* What may be written into a profile's files.
LEMMA SlotFields ==
  ASSUME NEW s \in Slots
  PROVE  /\ s.upload \in Archive \cup {None} /\ s.kept \in Archive \cup {None}
         /\ s.meta \in Archive \cup {None} /\ s.ready \in Archive \cup {None}
         /\ \A x \in Archive \cup {None} : [s EXCEPT !.upload = x] \in Slots
         /\ \A x \in Archive \cup {None} : [s EXCEPT !.kept = x] \in Slots
         /\ \A x \in Archive \cup {None} : [s EXCEPT !.meta = x] \in Slots
         /\ \A x \in Archive \cup {None} : [s EXCEPT !.ready = x] \in Slots
         /\ \A x, y \in Archive \cup {None} : [s EXCEPT !.kept = x, !.upload = y] \in Slots
<1>1. \A x, y \in Archive \cup {None} : [s EXCEPT !.kept = x, !.upload = y] \in Slots
  BY DEF Slots
<1> QED BY <1>1 DEF Slots

LEMMA ClearedSlot ==
  ASSUME NEW s \in Slots
  PROVE  /\ Cleared(s) \in Slots /\ Cleared(s).ready = s.ready /\ Cleared(s).upload = s.upload
         /\ Cleared(s).kept = None
<1>1. PICK x, y \in Archive \cup {None} : x = None /\ y = None
  OBVIOUS
<1>2. Cleared(s) = [s EXCEPT !.kept = x, !.meta = y]
  BY <1>1 DEF Cleared
<1>3. [s EXCEPT !.kept = x, !.meta = y] \in Slots
  BY DEF Slots
<1> QED BY <1>1, <1>2, <1>3 DEF Slots

\* One profile's files are written, and not its restore-upload.
LEMMA FilesTurn ==
  ASSUME IInv, NEW r \in Requests, rq[r].at \in Verifying, NEW q \in RequestStates, q.at \in Verifying,
         rq' = [rq EXCEPT ![r] = q], UNCHANGED <<disk, served, restarts, due, applying, job, copies>>,
         NEW p \in Profiles, NEW s \in Slots, slot' = [slot EXCEPT ![p] = s],
         s.ready = slot[p].ready,
         \A a \in {s.upload, s.kept} : a \in {None, slot[p].upload, slot[p].kept} \/ (a \in Archives /\ a.profile = p),
         spent' \in Spendings, spent'.copies = spent.copies
  PROVE  IInv'
<1>1. slot \in [Profiles -> Slots]
  BY StepTypes
<1>2. slot'[p] = s /\ slot' \in [Profiles -> Slots] /\ \A x \in Profiles \ {p} : slot'[x] = slot[x]
  BY <1>1
<1>3. Stocked'
  <2>1. Stocked
    BY DEF IInv, Orderly
  <2>2. CASE p = "full"
    BY <1>2, <2>1, <2>2 DEF Stocked
  <2>3. CASE p # "full"
    BY <1>2, <2>1, <2>3 DEF Stocked, Profiles
  <2> QED BY <2>2, <2>3
<1>4. \A x \in Profiles : slot'[x].ready = slot[x].ready
  BY <1>2
<1> QED BY <1>2, <1>3, <1>4, VerifyTurn

LEMMA UploadStep ==
  ASSUME IInv, NEW r \in Requests, Upload(r)
  PROVE  IInv'
<1>1. PICK a \in Archives : /\ a.profile \in Profiles
                            /\ slot' = [slot EXCEPT ![a.profile] = [Cleared(slot[a.profile]) EXCEPT !.upload = a]]
                            /\ rq' = [rq EXCEPT ![r] = [at |-> "uploaded", profile |-> a.profile]]
  BY DEF Upload
<1>2. a \in Archive /\ slot[a.profile] \in Slots
  BY <1>1, StepTypes, RestoreAssumption
<1>3. PICK s : s = [Cleared(slot[a.profile]) EXCEPT !.upload = a]
  OBVIOUS
<1>4. s \in Slots /\ s.ready = slot[a.profile].ready /\ s.upload = a /\ s.kept = None
  <2>1. PICK c : c = Cleared(slot[a.profile])
    OBVIOUS
  <2>2. c \in Slots /\ c.ready = slot[a.profile].ready /\ c.kept = None
    BY <1>2, <2>1, ClearedSlot
  <2> QED BY <1>2, <1>3, <2>1, <2>2 DEF Slots
<1>5. PICK q : q = [at |-> "uploaded", profile |-> a.profile]
  OBVIOUS
<1>6. q \in RequestStates /\ q.at \in Verifying
  BY <1>1, <1>5 DEF RequestStates, Verifying
<1>7. rq[r].at \in Verifying /\ UNCHANGED <<disk, served, restarts, due, applying, job, copies>>
  BY DEF Upload, still, Verifying
<1>8. spent' \in Spendings /\ spent'.copies = spent.copies
  BY RestoreAssumption DEF Upload, IInv, TypeOK, Spendings
<1>9. rq' = [rq EXCEPT ![r] = q] /\ slot' = [slot EXCEPT ![a.profile] = s]
  BY <1>1, <1>3, <1>5
<1>10. PICK p \in Profiles : p = a.profile
  BY <1>1
<1>11. /\ slot' = [slot EXCEPT ![p] = s] /\ s.ready = slot[p].ready
       /\ \A x \in {s.upload, s.kept} : x \in {None, slot[p].upload, slot[p].kept} \/ (x \in Archives /\ x.profile = p)
  BY <1>1, <1>4, <1>9, <1>10
<1> QED BY <1>4, <1>6, <1>7, <1>8, <1>9, <1>10, <1>11, FilesTurn

LEMMA VerifyReadStep ==
  ASSUME IInv, NEW r \in Requests, VerifyRead(r)
  PROVE  IInv'
<1>1. PICK q : q = rq[r]
  OBVIOUS
<1>2. PICK p : p = q.profile
  OBVIOUS
<1>3. rq \in [Requests -> RequestStates] /\ q \in RequestStates /\ q.at = "uploaded"
  BY <1>1 DEF VerifyRead, IInv, TypeOK
<1>4. q \in [at : {"uploaded", "read"}, profile : Profiles] /\ p \in Profiles /\ slot[p] \in Slots
  BY <1>2, <1>3, RequestAt, StepTypes
<1>5. PICK s, x : /\ slot' = [slot EXCEPT ![p] = s] /\ rq' = [rq EXCEPT ![r] = x]
                  /\ \/ s = [slot[p] EXCEPT !.kept = None] /\ x = [q EXCEPT !.at = "read"]
                     \/ s = [slot[p] EXCEPT !.upload = None, !.kept = None] /\ x = NoRequest
  BY <1>1, <1>2 DEF VerifyRead, Goto, Leave
<1>6. s \in Slots /\ s.ready = slot[p].ready /\ s.upload \in {slot[p].upload, None} /\ s.kept = None
  <2>1. PICK y, z \in Archive \cup {None} : y = None /\ z = None
    OBVIOUS
  <2>2. CASE s = [slot[p] EXCEPT !.upload = None, !.kept = None]
    <3>1. s = [slot[p] EXCEPT !.upload = y, !.kept = z]
      BY <2>1, <2>2
    <3>2. s \in Slots
      BY <1>4, <3>1 DEF Slots
    <3> QED BY <1>4, <2>1, <3>1, <3>2 DEF Slots
  <2>3. CASE s = [slot[p] EXCEPT !.kept = None]
    <3>1. s \in Slots
      BY <1>4, <2>3, SlotFields
    <3> QED BY <1>4, <2>3, <3>1 DEF Slots
  <2> QED BY <1>5, <2>2, <2>3
<1>7. x \in RequestStates /\ x.at \in Verifying
  <2>1. [q EXCEPT !.at = "read"] \in RequestStates /\ [q EXCEPT !.at = "read"].at = "read"
    BY <1>4 DEF RequestStates
  <2> QED BY <1>5, <2>1, NotStarted DEF Verifying
<1>8. /\ rq[r].at \in Verifying /\ UNCHANGED <<disk, served, restarts, due, applying, job, copies, spent>>
      /\ spent \in Spendings
  BY DEF VerifyRead, still, Verifying, IInv, TypeOK, Spendings
<1> QED BY <1>4, <1>5, <1>6, <1>7, <1>8, FilesTurn

LEMMA VerifyKeepStep ==
  ASSUME IInv, NEW r \in Requests, VerifyKeep(r)
  PROVE  IInv'
<1>1. PICK q : q = rq[r]
  OBVIOUS
<1>2. PICK p : p = q.profile
  OBVIOUS
<1>3. rq \in [Requests -> RequestStates] /\ q \in RequestStates /\ q.at = "read"
  BY <1>1 DEF VerifyKeep, IInv, TypeOK
<1>4. q \in [at : {"uploaded", "read"}, profile : Profiles] /\ p \in Profiles /\ slot[p] \in Slots
      /\ slot \in [Profiles -> Slots]
  BY <1>2, <1>3, RequestAt, StepTypes
<1>5. PICK s, x : /\ slot' = [slot EXCEPT ![p] = s] /\ rq' = [rq EXCEPT ![r] = x]
                  /\ \/ /\ slot[p].upload # None
                        /\ s = [slot[p] EXCEPT !.kept = slot[p].upload, !.upload = None]
                        /\ x = [at |-> "kept", profile |-> p, sha |-> slot[p].upload]
                     \/ s = slot[p] /\ x = NoRequest
  <2>1. CASE slot[p].upload # None
    BY <1>1, <1>2, <2>1 DEF VerifyKeep
  <2>2. CASE slot[p].upload = None
    <3>1. slot' = slot /\ rq' = [rq EXCEPT ![r] = NoRequest]
      BY <1>1, <1>2, <2>2 DEF VerifyKeep, Leave
    <3>2. slot' = [slot EXCEPT ![p] = slot[p]]
      BY <1>4, <3>1
    <3> QED BY <3>1, <3>2
  <2> QED BY <2>1, <2>2
<1>6. /\ s \in Slots /\ s.ready = slot[p].ready
      /\ s.upload \in {slot[p].upload, None} /\ s.kept \in {slot[p].upload, slot[p].kept}
  <2>1. [slot[p] EXCEPT !.kept = slot[p].upload, !.upload = None] \in Slots
    BY <1>4, SlotFields
  <2>2. s \in Slots
    BY <1>4, <1>5, <2>1
  <2> QED BY <1>4, <1>5, <2>2 DEF Slots
<1>7. x \in RequestStates /\ x.at \in Verifying
  <2>1. slot[p].upload # None => slot[p].upload \in Archive
    BY <1>4, SlotFields
  <2> QED BY <1>4, <1>5, <2>1, NotStarted DEF Verifying, RequestStates
<1>8. /\ rq[r].at \in Verifying /\ UNCHANGED <<disk, served, restarts, due, applying, job, copies, spent>>
      /\ spent \in Spendings
  BY DEF VerifyKeep, still, Verifying, IInv, TypeOK, Spendings
<1>9. \A a \in {s.upload, s.kept} : a \in {None, slot[p].upload, slot[p].kept}
  BY <1>6
<1> QED BY <1>4, <1>5, <1>6, <1>7, <1>8, <1>9, FilesTurn

LEMMA SaveVerifiedStep ==
  ASSUME IInv, NEW r \in Requests, SaveVerified(r)
  PROVE  IInv'
<1>1. PICK q : q = rq[r]
  OBVIOUS
<1>2. PICK p : p = q.profile
  OBVIOUS
<1>3. q \in RequestStates /\ q.at = "kept"
  BY <1>1 DEF SaveVerified, IInv, TypeOK
<1>4. q \in [at : {"kept"}, profile : Profiles, sha : Archive] /\ p \in Profiles /\ slot[p] \in Slots
  BY <1>2, <1>3, RequestAt, StepTypes
<1>5. PICK s : /\ slot' = [slot EXCEPT ![p] = s]
               /\ s = [slot[p] EXCEPT !.meta = slot[p].kept] \/ s = Cleared(slot[p])
  BY <1>1, <1>2 DEF SaveVerified, Recorded
<1>6. s \in Slots /\ s.ready = slot[p].ready /\ s.upload = slot[p].upload /\ s.kept \in {slot[p].kept, None}
  <2>1. CASE s = Cleared(slot[p])
    BY <1>4, <2>1, ClearedSlot
  <2>2. CASE s = [slot[p] EXCEPT !.meta = slot[p].kept]
    <3>1. s \in Slots
      BY <1>4, <2>2, SlotFields
    <3> QED BY <1>4, <2>2, <3>1 DEF Slots
  <2> QED BY <1>5, <2>1, <2>2
<1>7. rq' = [rq EXCEPT ![r] = NoRequest] /\ NoRequest \in RequestStates /\ NoRequest.at \in Verifying
  BY NotStarted DEF SaveVerified, Leave, Verifying
<1>8. /\ rq[r].at \in Verifying /\ UNCHANGED <<disk, served, restarts, due, applying, job, copies, spent>>
      /\ spent \in Spendings
  BY DEF SaveVerified, still, Verifying, IInv, TypeOK, Spendings
<1>9. \A a \in {s.upload, s.kept} : a \in {None, slot[p].upload, slot[p].kept}
  BY <1>6
<1> QED BY <1>4, <1>5, <1>6, <1>7, <1>8, <1>9, FilesTurn


-----------------------------------------------------------------------------
\* Requests that restore.
LEMMA Alone1 ==
  ASSUME IInv, NEW r \in Requests, Busy(r)
  PROVE  /\ \A j \in Jobs : ~Running(j)
         /\ \A s \in Requests \ {r} : ~Busy(s)
BY DEF IInv, Orderly, Alone

LEMMA NobodyElse ==
  ASSUME ~Overlap, MayStart
  PROVE  /\ \A j \in Jobs : ~Running(j)
         /\ \A s \in Requests : ~Busy(s)
BY DEF MayStart, Restoring, Busy

LEMMA HandedSlot ==
  ASSUME NEW s \in Slots
  PROVE  Handed(s) \in Slots /\ Handed(s).ready = s.kept /\ Handed(s).upload = s.upload /\ Handed(s).kept = None
<1>1. PICK c : c = Cleared(s)
  OBVIOUS
<1>2. c \in Slots /\ c.upload = s.upload /\ c.kept = None
  BY <1>1, ClearedSlot
<1>3. Handed(s) = [c EXCEPT !.ready = s.kept] /\ s.kept \in Archive \cup {None}
  BY <1>1 DEF Handed, Slots
<1> QED BY <1>2, <1>3 DEF Slots

\* The confirmed archive is handed to the job or to the merge, as it was kept.
LEMMA ConfirmStep ==
  ASSUME IInv, ~Overlap, NEW r \in Requests, NEW p \in Profiles, Confirm(r, p)
  PROVE  IInv'
<1>1. /\ \A j \in Jobs : ~Running(j)
      /\ \A s \in Requests : ~Busy(s)
  BY NobodyElse DEF Confirm
<1>2. /\ slot[p].kept # None
      /\ Brings \/ disk.tls # None \/ slot[p].kept.disk.tls = None
      /\ UNCHANGED <<disk, served, restarts, due, applying, job, copies, spent>> /\ rq[r].at = "idle"
  BY DEF Confirm, still
<1>3. slot \in [Profiles -> Slots] /\ rq \in [Requests -> RequestStates] /\ spent \in Spendings /\ slot[p] \in Slots
  BY DEF IInv, TypeOK, Spendings
<1>4. CASE slot' = [slot EXCEPT ![p] = Cleared(slot[p])] /\ UNCHANGED rq
  <2>1. PICK s : s = Cleared(slot[p])
    OBVIOUS
  <2>2. /\ s \in Slots /\ s.ready = slot[p].ready /\ slot' = [slot EXCEPT ![p] = s]
        /\ \A a \in {s.upload, s.kept} : a \in {None, slot[p].upload, slot[p].kept}
    BY <1>3, <1>4, <2>1, ClearedSlot
  <2>3. PICK q \in RequestStates : q = rq[r] /\ rq' = [rq EXCEPT ![r] = q]
    BY <1>3, <1>4
  <2>4. rq[r].at \in Verifying /\ q.at \in Verifying
    BY <1>2, <2>3 DEF Verifying
  <2> QED BY <1>2, <1>3, <2>2, <2>3, <2>4, FilesTurn
<1>5. CASE /\ slot' = [slot EXCEPT ![p] = Handed(slot[p])]
           /\ rq' = [rq EXCEPT ![r] = [at |-> IF p = "full" THEN "start" ELSE "promote"]]
  <2>1. PICK s : s = Handed(slot[p])
    OBVIOUS
  <2>2. s \in Slots /\ s.ready = slot[p].kept /\ s.upload = slot[p].upload /\ s.kept = None
    BY <1>3, <2>1, HandedSlot
  <2>3. slot'[p] = s /\ slot' \in [Profiles -> Slots] /\ \A x \in Profiles \ {p} : slot'[x] = slot[x]
    BY <1>3, <1>5, <2>1, <2>2
  <2>4. PICK q : q = [at |-> IF p = "full" THEN "start" ELSE "promote"]
    OBVIOUS
  <2>5. q \in RequestStates /\ q.at = IF p = "full" THEN "start" ELSE "promote"
    BY <2>4 DEF RequestStates
  <2>6. Stocked
    BY DEF IInv, Orderly
  <2>7. p = "full" => slot[p].kept \in Archives /\ slot[p].kept.profile = "full"
    <3>1. SUFFICES ASSUME p = "full" PROVE slot["full"].kept \in Archives /\ slot["full"].kept.profile = "full"
      OBVIOUS
    <3>2. PICK a : a = slot["full"].kept
      OBVIOUS
    <3>3. a # None
      BY <1>2, <3>1, <3>2
    <3>4. \A x \in {slot["full"].upload, slot["full"].kept} : x = None \/ (x \in Archives /\ x.profile = "full")
      BY <2>6 DEF Stocked
    <3>5. a \in Archives /\ a.profile = "full"
      BY <3>2, <3>3, <3>4
    <3> QED BY <3>2, <3>5
  <2>8. Stocked'
    <3>1. CASE p = "full"
      BY <2>2, <2>3, <2>6, <2>7, <3>1 DEF Stocked, Lawful
    <3>2. CASE p # "full"
      BY <2>3, <2>6, <3>2 DEF Stocked, Profiles
    <3> QED BY <3>1, <3>2
  <2>9. Numbered'
    BY <1>2 DEF IInv, Orderly, Numbered
  <2>10. Copying(q, disk', served', applying', copies')
    BY <2>5 DEF Copying, CopySteps
  <2>11. q.at = "promote" => slot'["clients"].ready # None /\ Brought(slot'["clients"].ready, disk')
    <3>1. SUFFICES ASSUME q.at = "promote"
                   PROVE slot'["clients"].ready # None /\ Brought(slot'["clients"].ready, disk')
      OBVIOUS
    <3>2. p = "clients"
      BY <2>5, <3>1 DEF Profiles
    <3>3. s.ready # None /\ Brought(s.ready, disk')
      BY <1>2, <2>2 DEF Brought
    <3>4. slot'["clients"] = s
      BY <2>3, <3>2
    <3> QED BY <3>3, <3>4
  <2>12. q.at = "start" => Chosen(slot["full"].ready)'
    <3>1. SUFFICES ASSUME q.at = "start" PROVE Chosen(slot["full"].ready)'
      OBVIOUS
    <3>2. p = "full"
      BY <2>5, <3>1
    <3>3. s.ready # None /\ Brought(s.ready, disk') /\ s.ready.profile = "full"
      BY <1>2, <2>2, <2>7, <3>2 DEF Brought
    <3>4. Fits(s.ready, disk')
      BY <3>3 DEF Fits
    <3>5. slot'["full"] = s
      BY <2>3, <3>2
    <3> QED BY <3>3, <3>4, <3>5 DEF Chosen
  <2>13. rq' = [rq EXCEPT ![r] = q]
    BY <1>5, <2>4
  <2>14. /\ disk' \in Disks /\ served' \in [xray : Runs, site : Domains \cup {None}, env : Envs]
         /\ copies' \subseteq Copies
         /\ spent' \in [uploads : 0..MaxUploads, copies : 0..MaxCopies, edits : 0..MaxEdits, faults : 0..MaxFaults]
    BY <1>2 DEF IInv, TypeOK
  <2> QED BY <1>1, <1>2, <2>3, <2>5, <2>8, <2>9, <2>10, <2>11, <2>12, <2>13, <2>14, RequestTurn
<1> QED BY <1>4, <1>5 DEF Confirm

\* A request that gives up, having written this or that on the way.
LEMMA RequestEnds ==
  ASSUME IInv, NEW r \in Requests, Busy(r), Leave(r), disk' \in Disks,
         served' \in [xray : Runs, site : Domains \cup {None}, env : Envs],
         copies' \subseteq Copies, Numbered',
         spent' \in [uploads : 0..MaxUploads, copies : 0..MaxCopies, edits : 0..MaxEdits, faults : 0..MaxFaults],
         UNCHANGED <<slot, restarts, due, applying, job>>
  PROVE  IInv'
<1>1. rq' = [rq EXCEPT ![r] = NoRequest] /\ NoRequest \in RequestStates /\ NoRequest.at = "idle"
  BY NotStarted DEF Leave
<1>2. Copying(NoRequest, disk', served', applying', copies')
  BY <1>1 DEF Copying, CopySteps
<1>3. Stocked' /\ slot' \in [Profiles -> Slots]
  BY StepTypes DEF IInv, Orderly, Stocked
<1> QED BY <1>1, <1>2, <1>3, Alone1, RequestTurn

\* What a merged archive is: the database of this server with other clients,
\* and of its HTTPS identity what fits here.
LEMMA MergedFits ==
  ASSUME NEW a \in Archive, disk \in Disks, Brought(a, disk)
  PROVE  /\ Merged(a) \in Archive /\ Merged(a) # None /\ Lawful(Merged(a)) /\ Fits(Merged(a), disk)
<1>1. PICK d : d = a.disk
  OBVIOUS
<1>2. d \in Disks /\ d.db \in Databases /\ d.db.clients \in Contents /\ d.tls \in Domains \cup {None}
  BY <1>1, DiskFields DEF Archive
<1>3. PICK b : b = [disk.db EXCEPT !.clients = d.db.clients]
  OBVIOUS
<1>4. b \in Databases /\ b.settings = disk.db.settings /\ b.hidden = disk.db.hidden
  <2>1. disk.db \in Databases
    BY DiskFields
  <2> QED BY <1>2, <1>3, <2>1 DEF Databases
<1>5. PICK t : t = Imported(d.tls)
  OBVIOUS
<1>6. t \in Domains \cup {None} /\ (d.tls = None => t = None)
  BY <1>2, <1>5 DEF Imported
<1>7. PICK e : e = [d EXCEPT !.db = b, !.tls = t]
  OBVIOUS
<1>8. e \in Disks /\ e.db = b /\ e.tls = t
  <2>1. [d EXCEPT !.db = b] \in Disks
    BY <1>2, <1>4 DEF Disks
  <2>2. e = [[d EXCEPT !.db = b] EXCEPT !.tls = t]
    BY <1>2, <1>7 DEF Disks
  <2>3. e \in Disks
    BY <1>6, <2>1, <2>2, DiskFields
  <2> QED BY <1>2, <1>7, <2>3 DEF Disks
<1>9. Merged(a) = [profile |-> "clients", sound |-> TRUE, disk |-> e]
  BY <1>1, <1>3, <1>5, <1>7 DEF Merged, MergedDatabase
<1>10. PICK x : x = Merged(a)
  OBVIOUS
<1>11. x \in Archive /\ x.profile = "clients" /\ x.disk = e
  BY <1>8, <1>9, <1>10 DEF Archive, Profiles
<1>12. x # None
  BY <1>11, MarkerAssumption
<1>13. Lawful(x) /\ Fits(x, disk)
  BY <1>1, <1>4, <1>6, <1>8, <1>11 DEF Lawful, Fits, Brought
<1> QED BY <1>10, <1>11, <1>12, <1>13

LEMMA PromoteStep ==
  ASSUME IInv, NEW r \in Requests, Promote(r)
  PROVE  IInv'
<1>1. Busy(r) /\ rq[r].at = "promote"
  BY DEF Promote, Busy, Verifying
<1>2. UNCHANGED <<disk, served, restarts, due, applying, job, copies>>
  BY DEF Promote, still
<1>3. /\ disk' \in Disks /\ served' \in [xray : Runs, site : Domains \cup {None}, env : Envs]
      /\ copies' \subseteq Copies /\ slot \in [Profiles -> Slots] /\ rq \in [Requests -> RequestStates]
      /\ spent \in Spendings /\ disk \in Disks
  BY <1>2 DEF IInv, TypeOK, Spendings
<1>4. spent' \in Spendings /\ spent'.copies = spent.copies
  BY <1>3, FaultSpent DEF Promote, IInv
<1>5. Numbered'
  BY <1>2, <1>4 DEF IInv, Orderly, Numbered
<1>6. CASE Leave(r) /\ UNCHANGED slot
  BY <1>1, <1>2, <1>3, <1>4, <1>5, <1>6, RequestEnds DEF Spendings
<1>7. CASE /\ slot' = [slot EXCEPT !["full"].ready = Merged(slot["clients"].ready), !["clients"].ready = None]
           /\ Goto(r, "start")
  <2>1. PICK a : a = slot["clients"].ready
    OBVIOUS
  <2>2. a # None /\ Brought(a, disk)
    BY <1>1, <2>1 DEF IInv, Orderly, Asked
  <2>3. a \in Archive
    BY <1>3, <2>1, <2>2 DEF Slots, Profiles
  <2>4. PICK x : x = Merged(a)
    OBVIOUS
  <2>5. x \in Archive /\ x # None /\ Lawful(x) /\ Fits(x, disk)
    BY <1>3, <2>2, <2>3, <2>4, MergedFits
  <2>6. PICK f, c : f = [slot["full"] EXCEPT !.ready = x] /\ c = [slot["clients"] EXCEPT !.ready = None]
    OBVIOUS
  <2>7. f \in Slots /\ c \in Slots /\ f.ready = x /\ f.upload = slot["full"].upload /\ f.kept = slot["full"].kept
    <3>1. slot["full"] \in Slots /\ slot["clients"] \in Slots
      BY <1>3 DEF Profiles
    <3>2. f \in Slots /\ c \in Slots
      BY <2>5, <2>6, <3>1, SlotFields
    <3> QED BY <2>6, <3>1, <3>2 DEF Slots
  <2>8. slot' = [slot EXCEPT !["full"] = f, !["clients"] = c]
    BY <1>3, <1>7, <2>1, <2>4, <2>6 DEF Profiles
  <2>9. slot' \in [Profiles -> Slots] /\ slot'["full"] = f
    BY <1>3, <2>7, <2>8 DEF Profiles
  <2>10. Stocked'
    BY <2>5, <2>7, <2>9 DEF IInv, Orderly, Stocked
  <2>11. PICK q : q = [rq[r] EXCEPT !.at = "start"]
    OBVIOUS
  <2>12. q \in RequestStates /\ q.at = "start"
    <3>1. rq[r] \in [at : {"idle", "promote", "start"}]
      BY <1>1, <1>3 DEF RequestStates, CopySteps
    <3>2. q \in [at : {"idle", "promote", "start"}] /\ q.at = "start"
      BY <2>11, <3>1
    <3> QED BY <3>2 DEF RequestStates
  <2>13. rq' = [rq EXCEPT ![r] = q]
    BY <1>7, <2>11 DEF Goto
  <2>14. Copying(q, disk', served', applying', copies')
    BY <2>12 DEF Copying, CopySteps
  <2>15. Chosen(slot["full"].ready)'
    BY <1>2, <2>5, <2>7, <2>9 DEF Chosen
  <2>16. q.at # "promote"
    BY <2>12
  <2> QED BY <1>1, <1>2, <1>3, <1>4, <1>5, <2>9, <2>10, <2>12, <2>13, <2>14, <2>15, <2>16, Alone1, RequestTurn
             DEF Spendings
<1> QED BY <1>6, <1>7 DEF Promote

\* The job begins with nothing: neither image nor safety archive.
LEMMA StartJobStep ==
  ASSUME IInv, NEW r \in Requests, StartJob(r)
  PROVE  IInv'
<1>1. Busy(r) /\ rq[r].at = "start" /\ Leave(r)
  BY DEF StartJob, Busy, Verifying
<1>2. UNCHANGED <<disk, served, restarts, due, applying, slot, copies>>
  BY DEF StartJob
<1>3. /\ disk \in Disks /\ served \in [xray : Runs, site : Domains \cup {None}, env : Envs]
      /\ copies \subseteq Copies /\ rq \in [Requests -> RequestStates] /\ job \in [Jobs -> JobStates]
      /\ spent \in Spendings
  BY DEF IInv, TypeOK, Spendings
<1>4. spent' \in Spendings /\ spent'.copies = spent.copies
  BY <1>3, FaultSpent DEF StartJob, IInv
<1>5. Numbered'
  BY <1>2, <1>4 DEF IInv, Orderly, Numbered
<1>6. CASE UNCHANGED job
  BY <1>1, <1>2, <1>3, <1>4, <1>5, <1>6, RequestEnds DEF Spendings
<1>7. ASSUME NEW j \in Jobs, NEW J,
             J = [at |-> "forward", n |-> 1, image |-> None, safety |-> None,
                  before |-> 0, deferred |-> FALSE, beside |-> FALSE],
             job' = [job EXCEPT ![j] = J]
      PROVE IInv'
  <2>1. /\ J \in Tasks /\ J.at = "forward" /\ J.n = 1 /\ J.image = None /\ J.safety = None
    BY <1>7 DEF Tasks
  <2>2. job'[j] = J /\ (\A i \in Jobs \ {j} : job'[i] = job[i]) /\ job' \in [Jobs -> JobStates]
    BY <1>3, <1>7, <2>1, TaskIsJob
  <2>3. rq'[r] = NoRequest /\ (\A s \in Requests \ {r} : rq'[s] = rq[s]) /\ rq' \in [Requests -> RequestStates]
    BY <1>1, <1>3, NotStarted DEF Leave
  <2>4. (\A i \in Jobs : ~Running(i)) /\ \A s \in Requests \ {r} : ~Busy(s)
    BY <1>1, Alone1
  <2>5. TypeOK'
    BY <1>2, <1>4, <2>2, <2>3 DEF IInv, TypeOK, Spendings
  <2>6. \A i \in Jobs : Running(i)' => i = j
    BY <2>2, <2>4 DEF Running
  <2>7. \A s \in Requests : rq'[s].at \in Verifying
    BY <2>3, <2>4, NotStarted DEF Busy, Verifying
  <2>8. Alone'
    BY <2>6, <2>7 DEF Alone, Busy, Verifying
  <2>9. Stocked'
    BY <1>2 DEF IInv, Orderly, Stocked
  <2>10. Asked'
    <3>1. Chosen(slot["full"].ready)
      BY <1>1 DEF IInv, Orderly, Asked
    <3>2. Chosen(slot["full"].ready)'
      BY <1>2, <3>1 DEF Chosen
    <3>3. \A s \in Requests : rq'[s].at \notin {"promote", "start"}
      BY <2>7 DEF Verifying
    <3> QED BY <3>2, <3>3 DEF Asked
  <2>11. \A s \in Requests : Copying(rq[s], disk, served, applying, copies)'
    BY <2>7 DEF Copying, Verifying, CopySteps
  <2>12. Working(J, disk', served', applying', restarts')
    BY <2>1 DEF Working, Holding, Restarted, Last, Probe
  <2>13. \A i \in Jobs : Running(i)' => Working(job[i], disk, served, applying, restarts)'
    BY <2>2, <2>6, <2>12
  <2> QED BY <1>5, <2>5, <2>8, <2>9, <2>10, <2>11, <2>13 DEF IInv, Orderly
<1> QED BY <1>6, <1>7 DEF StartJob

-----------------------------------------------------------------------------
\* SQLite copies.
LEMMA NewCopyKept ==
  ASSUME IInv, NEW kind \in {"sg-gateway", "pre-restore"}, NEW b \in Databases, NewCopy(kind, b)
  PROVE  /\ copies' \subseteq Copies /\ Numbered' /\ spent' \in Spendings
         /\ \A c \in copies' : c.n = spent.copies + 1 => c.db = b
         /\ spent.copies + 1 \in 1..MaxCopies
<1>1. PICK k : k = spent.copies
  OBVIOUS
<1>2. spent \in Spendings /\ k \in 0..MaxCopies /\ k < MaxCopies
  BY <1>1 DEF NewCopy, IInv, TypeOK, Spendings
<1>3. k + 1 \in 1..MaxCopies /\ k \in Nat
  BY <1>2, RestoreAssumption
<1>4. spent' = [spent EXCEPT !.copies = k + 1]
  BY <1>1 DEF NewCopy
<1>5. spent' \in Spendings /\ spent'.copies = k + 1
  BY <1>2, <1>3, <1>4 DEF Spendings
<1>6. PICK n : n = [kind |-> kind, n |-> k + 1, db |-> b]
  OBVIOUS
<1>7. n \in Copies /\ n.n = k + 1 /\ n.db = b
  BY <1>3, <1>6 DEF Copies
<1>8. copies' = copies \cup {n}
  BY <1>1, <1>6 DEF NewCopy
<1>9. copies \subseteq Copies /\ \A c \in copies : c.n <= k
  BY <1>1 DEF IInv, TypeOK, Orderly, Numbered
<1>10. \A c \in Copies : c.n \in Nat
  BY DEF Copies
<1>11. Numbered'
  BY <1>3, <1>5, <1>7, <1>8, <1>9, <1>10 DEF Numbered
<1>12. \A c \in copies' : c.n = k + 1 => c.db = b
  BY <1>3, <1>7, <1>8, <1>9, <1>10
<1> QED BY <1>1, <1>3, <1>5, <1>7, <1>8, <1>9, <1>11, <1>12

\* Copies come and go beside the restores; a restore from one is not troubled
\* by others that go.
LEMMA CopiesTurn ==
  ASSUME IInv, UNCHANGED <<disk, served, restarts, due, applying, slot, rq, job>>,
         copies' \subseteq Copies, Numbered', spent' \in Spendings,
         \A r \in Requests : Copying(rq[r], disk, served, applying, copies')
  PROVE  IInv'
<1>1. TypeOK'
  BY DEF IInv, TypeOK, Spendings
<1>2. \A j \in Jobs : (Running(j)' <=> Running(j)) /\ job'[j] = job[j]
  BY DEF Running
<1>3. Alone' /\ Stocked'
  BY <1>2 DEF IInv, Orderly, Alone, Busy, Stocked
<1>4. Asked'
  <2>1. \A a : Chosen(a) => Chosen(a)'
    BY DEF Chosen
  <2>2. Asked
    BY DEF IInv, Orderly
  <2> QED BY <2>1, <2>2 DEF Asked
<1>5. \A r \in Requests : Copying(rq[r], disk, served, applying, copies)'
  OBVIOUS
<1>6. \A j \in Jobs : Running(j)' => Working(job[j], disk, served, applying, restarts)'
  BY <1>2 DEF IInv, Orderly
<1> QED BY <1>1, <1>3, <1>4, <1>5, <1>6 DEF IInv, Orderly

LEMMA MakeCopyStep ==
  ASSUME IInv, ~Overlap, MakeCopy
  PROVE  IInv'
<1>1. UNCHANGED <<disk, served, restarts, due, applying, slot, rq, job>>
  BY DEF MakeCopy, uploads
<1>2. PICK b \in Databases : NewCopy("sg-gateway", b)
  <2>1. disk.db \in Databases
    BY StepTypes, DiskFields
  <2>2. \A a \in Archives : a.disk.db \in Databases
    BY RestoreAssumption, DiskFields DEF Archive
  <2> QED BY <2>1, <2>2 DEF MakeCopy
<1>3. copies' \subseteq Copies /\ Numbered' /\ spent' \in Spendings
  BY <1>2, NewCopyKept
<1>4. \A r \in Requests : ~Busy(r)
  BY NobodyElse DEF MakeCopy
<1>5. \A r \in Requests : Copying(rq[r], disk, served, applying, copies')
  BY <1>4 DEF Busy, Verifying, Copying, CopySteps
<1> QED BY <1>1, <1>3, <1>5, CopiesTurn

LEMMA DeleteOldCopiesStep ==
  ASSUME IInv, DeleteOldCopies
  PROVE  IInv'
<1>1. UNCHANGED <<disk, served, restarts, due, applying, slot, rq, job, spent>> /\ copies' \subseteq copies
  BY DEF DeleteOldCopies, uploads
<1>2. copies' \subseteq Copies /\ Numbered' /\ spent' \in Spendings
  BY <1>1 DEF IInv, TypeOK, Orderly, Numbered, Spendings
<1>3. \A r \in Requests : Copying(rq[r], disk, served, applying, copies')
  BY <1>1 DEF IInv, Orderly, Copying
<1> QED BY <1>1, <1>2, <1>3, CopiesTurn

\* One more step of a restore from a copy.
LEMMA CopyTurn ==
  ASSUME IInv, NEW r \in Requests, \A j \in Jobs : ~Running(j), \A s \in Requests \ {r} : ~Busy(s),
         NEW q \in RequestStates, q.at \notin {"promote", "start"}, rq' = [rq EXCEPT ![r] = q],
         Copying(q, disk', served', applying', copies'), Numbered',
         disk' \in Disks, served' \in [xray : Runs, site : Domains \cup {None}, env : Envs],
         copies' \subseteq Copies, spent' \in Spendings,
         UNCHANGED <<slot, restarts, due, applying, job>>
  PROVE  IInv'
<1>1. Stocked' /\ slot' \in [Profiles -> Slots]
  BY StepTypes DEF IInv, Orderly, Stocked
<1> QED BY <1>1, RequestTurn DEF Spendings

LEMMA ChooseCopyStep ==
  ASSUME IInv, ~Overlap, NEW r \in Requests, NEW c \in copies, ChooseCopy(r, c)
  PROVE  IInv'
<1>1. (\A j \in Jobs : ~Running(j)) /\ \A s \in Requests \ {r} : ~Busy(s)
  BY NobodyElse DEF ChooseCopy
<1>2. UNCHANGED <<disk, served, applying, copies, restarts, due, slot, job, spent>>
  BY DEF ChooseCopy, here
<1>3. /\ disk \in Disks /\ served \in [xray : Runs, site : Domains \cup {None}, env : Envs]
      /\ copies \subseteq Copies /\ spent \in Spendings /\ Numbered
  BY DEF IInv, TypeOK, Spendings, Orderly
<1>4. Numbered'
  BY <1>2, <1>3 DEF Numbered
<1>5. PICK q : q = [at |-> "chosen", copy |-> c]
  OBVIOUS
<1>6. q \in RequestStates /\ q.at = "chosen" /\ rq' = [rq EXCEPT ![r] = q]
  BY <1>3, <1>5 DEF ChooseCopy, RequestStates
<1>7. Copying(q, disk', served', applying', copies')
  BY <1>6 DEF Copying, CopySteps
<1> QED BY <1>1, <1>2, <1>3, <1>4, <1>6, <1>7, CopyTurn

\* A request that restores a copy, once it has staged it.
LEMMA Restores ==
  ASSUME IInv, NEW r \in Requests, NEW q, q = rq[r],
         q.at \in CopySteps
  PROVE  /\ Busy(r) /\ Copying(q, disk, served, applying, copies)
         /\ q \in [at : CopySteps, copy : Copies, before : Disks, safety : 1..MaxCopies]
<1>1. q \in [at : CopySteps, copy : Copies, before : Disks, safety : 1..MaxCopies]
  BY RequestAt DEF IInv, TypeOK
<1>2. Busy(r) /\ Copying(q, disk, served, applying, copies)
  BY DEF Busy, Verifying, CopySteps, IInv, Orderly
<1> QED BY <1>1, <1>2

\* What it has noted stays when it goes on.
LEMMA Noted ==
  ASSUME IInv, NEW r \in Requests, NEW q, q = rq[r], q.at \in CopySteps,
         NEW x \in CopySteps, NEW y, y = [q EXCEPT !.at = x]
  PROVE  y \in RequestStates /\ y.at = x /\ y.copy = q.copy /\ y.before = q.before /\ y.safety = q.safety
<1>1. q \in [at : CopySteps, copy : Copies, before : Disks, safety : 1..MaxCopies]
  BY RequestAt DEF IInv, TypeOK
<1> QED BY <1>1 DEF RequestStates

LEMMA SafetyCopyStep ==
  ASSUME IInv, NEW r \in Requests, SafetyCopy(r)
  PROVE  IInv'
<1>1. rq[r].at = "chosen" /\ Busy(r) /\ UNCHANGED <<disk, served, applying, restarts, due, slot, job>>
  BY DEF SafetyCopy, here, Busy, Verifying
<1>2. disk \in Disks /\ disk.db \in Databases
  BY StepTypes, DiskFields
<1>3. /\ copies' \subseteq Copies /\ Numbered' /\ spent' \in Spendings
      /\ \A c \in copies' : c.n = spent.copies + 1 => c.db = disk.db
      /\ spent.copies + 1 \in 1..MaxCopies
  <2>1. NewCopy("pre-restore", disk.db)
    BY DEF SafetyCopy
  <2> QED BY <1>2, <2>1, NewCopyKept
<1>4. served' \in [xray : Runs, site : Domains \cup {None}, env : Envs]
  BY <1>1, StepTypes
<1>5. rq[r].copy \in Copies
  <2>1. rq[r] \in RequestStates
    BY DEF IInv, TypeOK
  <2> QED BY <1>1, <2>1, RequestAt
<1>6. PICK q : q = [at |-> "saved", copy |-> rq[r].copy, before |-> disk, safety |-> spent.copies + 1]
  OBVIOUS
<1>7. /\ q \in RequestStates /\ q.at = "saved" /\ q.copy = rq[r].copy /\ q.before = disk
      /\ q.safety = spent.copies + 1
  BY <1>2, <1>3, <1>5, <1>6 DEF RequestStates, CopySteps
<1>8. Copying(q, disk', served', applying', copies')
  BY <1>1, <1>3, <1>7 DEF Copying, SameRest
<1>9. rq' = [rq EXCEPT ![r] = q]
  BY <1>6 DEF SafetyCopy
<1>10. (\A j \in Jobs : ~Running(j)) /\ \A s \in Requests \ {r} : ~Busy(s)
  BY <1>1, Alone1
<1>11. q.at \notin {"promote", "start"}
  BY <1>7
<1> QED BY <1>1, <1>2, <1>3, <1>4, <1>7, <1>8, <1>9, <1>10, <1>11, CopyTurn

\* A request goes on beside the copies, on what becomes of the database.
LEMMA CopyMoves ==
  ASSUME IInv, NEW r \in Requests, NEW q, q = rq[r], q.at \in CopySteps,
         NEW x \in CopySteps, Goto(r, x),
         UNCHANGED <<served, applying, restarts, due, slot, job, copies>>, UNCHANGED spent \/ Fault,
         disk' = disk \/ \E b \in Databases : disk' = [disk EXCEPT !.db = b],
         x \in {"copied", "staged", "restored"} => SameBase(disk'.db, q.copy.db),
         x \in {"kept back", "undone", "returned"} => SameBase(disk'.db, q.before.db),
         x \in {"saved", "copied", "unstaged", "staged", "refused"} =>
           q.at \in {"saved", "copied", "unstaged", "staged", "refused"},
         x \notin {"restored", "returned"}
  PROVE  IInv'
<1>1. Busy(r) /\ Copying(q, disk, served, applying, copies)
  BY Restores
<1>2. (\A j \in Jobs : ~Running(j)) /\ \A s \in Requests \ {r} : ~Busy(s)
  BY <1>1, Alone1
<1>3. spent' \in Spendings /\ spent'.copies = spent.copies
  BY FaultSpent DEF IInv, TypeOK, Spendings
<1>4. Numbered' /\ copies' \subseteq Copies
  BY <1>3 DEF IInv, TypeOK, Orderly, Numbered
<1>5. disk' \in Disks /\ SameRest(disk', disk)
  <2>1. disk \in Disks
    BY StepTypes
  <2>2. disk' \in Disks
    BY <2>1, DiskFields
  <2> QED BY <2>1, <2>2 DEF Disks, SameRest
<1>6. PICK y : y = [q EXCEPT !.at = x]
  OBVIOUS
<1>7. y \in RequestStates /\ y.at = x /\ y.copy = q.copy /\ y.before = q.before /\ y.safety = q.safety
  <2>1. q \in [at : CopySteps, copy : Copies, before : Disks, safety : 1..MaxCopies]
    BY RequestAt DEF IInv, TypeOK
  <2> QED BY <1>6, <2>1 DEF RequestStates
<1>8. rq' = [rq EXCEPT ![r] = y] /\ y.at \notin {"promote", "start"}
  BY <1>6, <1>7 DEF Goto, CopySteps
<1>9. Copying(y, disk', served', applying', copies')
  <2>1. SameRest(disk', q.before)
    BY <1>1, <1>5 DEF Copying, SameRest
  <2> QED BY <1>1, <1>7, <2>1 DEF Copying
<1> QED BY <1>2, <1>3, <1>4, <1>5, <1>7, <1>8, <1>9, StepTypes, CopyTurn

LEMMA CopyOverStep ==
  ASSUME IInv, NEW r \in Requests, CopyOver(r) \/ InitDb(r)
  PROVE  IInv'
<1>1. PICK q : q = rq[r]
  OBVIOUS
<1>2. /\ q.at \in {"saved", "copied"} /\ q.at \in CopySteps
      /\ UNCHANGED <<served, applying, restarts, due, slot, job, copies>>
  BY <1>1 DEF CopyOver, InitDb, here, CopySteps
<1>3. Copying(q, disk, served, applying, copies) /\ q.copy \in Copies
  BY <1>1, <1>2, Restores
<1>4. q.copy.db \in Databases
  BY <1>3 DEF Copies
<1>5. {"copied", "staged", "unstaged"} \subseteq CopySteps
  BY DEF CopySteps
<1>6. CASE CopyOver(r) /\ Goto(r, "copied") /\ disk' = [disk EXCEPT !.db = q.copy.db] /\ UNCHANGED spent
  <2>1. disk'.db = q.copy.db
    BY <1>6, StepTypes DEF Disks
  <2> QED BY <1>1, <1>2, <1>4, <1>5, <1>6, <2>1, CopyMoves DEF SameBase
<1>7. CASE CopyOver(r) /\ Goto(r, "unstaged") /\ disk' \in {disk, [disk EXCEPT !.db = q.copy.db]}
           /\ (UNCHANGED spent \/ Fault)
  BY <1>1, <1>2, <1>4, <1>5, <1>7, CopyMoves
<1>8. CASE InitDb(r) /\ UNCHANGED disk /\ Goto(r, "staged") /\ UNCHANGED spent
  <2>1. q.at = "copied"
    BY <1>1, <1>8 DEF InitDb
  <2>2. SameBase(disk'.db, q.copy.db)
    BY <1>3, <1>8, <2>1 DEF Copying
  <2> QED BY <1>1, <1>2, <1>5, <1>8, <2>1, <2>2, CopyMoves
<1>9. CASE InitDb(r) /\ UNCHANGED disk /\ Goto(r, "unstaged") /\ Fault
  BY <1>1, <1>2, <1>5, <1>9, CopyMoves
<1> QED BY <1>1, <1>6, <1>7, <1>8, <1>9 DEF CopyOver, InitDb

\* Xray is applied alone: it runs what the database gives.
LEMMA Applied ==
  ASSUME IInv, ApplyRestored
  PROVE  /\ disk' \in Disks /\ disk'.db = disk.db /\ SameRest(disk', disk)
         /\ served' \in [xray : Runs, site : Domains \cup {None}, env : Envs]
         /\ Up(disk', served', applying)
<1>1. /\ applying = None /\ disk' = [disk EXCEPT !.run = Of(disk.db)]
      /\ served' = [served EXCEPT !.xray = Of(disk.db)]
  BY DEF ApplyRestored
<1>2. disk \in Disks /\ Of(disk.db) \in Runs /\ served \in [xray : Runs, site : Domains \cup {None}, env : Envs]
      /\ Of(disk.db) # None /\ Of(disk.db).clients = disk.db.clients /\ Of(disk.db).host = disk.db.host
  BY StepTypes, DiskFields, OfRuns
<1>3. /\ disk' \in Disks /\ disk'.db = disk.db /\ SameRest(disk', disk) /\ disk'.run = Of(disk.db)
      /\ served' \in [xray : Runs, site : Domains \cup {None}, env : Envs] /\ served'.xray = Of(disk.db)
  BY <1>1, <1>2 DEF SameRest, Disks
<1> QED BY <1>1, <1>2, <1>3 DEF Up, Fresh

LEMMA ApplyOutcome ==
  ASSUME IInv, NEW r \in Requests, NEW q, q = rq[r],
         ApplyCopy(r) \/ ReapplyOld(r)
  PROVE  IInv'
<1>1. q.at \in {"staged", "undone"} /\ UNCHANGED <<applying, copies, restarts, due, slot, job>>
  BY DEF ApplyCopy, ReapplyOld, here
<1>2. /\ Busy(r) /\ Copying(q, disk, served, applying, copies)
      /\ q \in [at : CopySteps, copy : Copies, before : Disks, safety : 1..MaxCopies]
      /\ \A y : \A x \in {"refused", "restored", "returned"} :
           y = [q EXCEPT !.at = x] => /\ y \in RequestStates /\ y.at = x /\ y.copy = q.copy
                                      /\ y.before = q.before /\ y.safety = q.safety
  <2>1. {"staged", "undone", "refused", "restored", "returned"} \subseteq CopySteps
    BY DEF CopySteps
  <2>2. q.at \in CopySteps
    BY <1>1, <2>1
  <2>3. /\ Busy(r) /\ Copying(q, disk, served, applying, copies)
        /\ q \in [at : CopySteps, copy : Copies, before : Disks, safety : 1..MaxCopies]
    BY <2>2, Restores
  <2>4. ASSUME NEW x \in {"refused", "restored", "returned"}, NEW y, y = [q EXCEPT !.at = x]
        PROVE  /\ y \in RequestStates /\ y.at = x /\ y.copy = q.copy
               /\ y.before = q.before /\ y.safety = q.safety
    BY <2>1, <2>2, <2>4, Noted
  <2> QED BY <2>3, <2>4
<1>3. (\A j \in Jobs : ~Running(j)) /\ \A s \in Requests \ {r} : ~Busy(s)
  BY <1>2, Alone1
<1>4. spent' \in Spendings /\ spent'.copies = spent.copies
  BY FaultSpent DEF ApplyCopy, ReapplyOld, IInv, TypeOK, Spendings
<1>5. Numbered' /\ copies' \subseteq Copies /\ copies' = copies /\ applying' = applying
  BY <1>1, <1>4 DEF IInv, TypeOK, Orderly, Numbered
<1>6. CASE Leave(r) /\ UNCHANGED <<disk, served>>
  BY <1>1, <1>2, <1>4, <1>5, <1>6, StepTypes, RequestEnds DEF Spendings
<1>7. CASE q.at = "staged" /\ Goto(r, "refused") /\ UNCHANGED <<disk, served>>
  <2>1. PICK y : y = [q EXCEPT !.at = "refused"]
    OBVIOUS
  <2>2. y \in RequestStates /\ y.at = "refused" /\ y.before = q.before /\ y.safety = q.safety
    BY <1>2, <2>1
  <2>3. rq' = [rq EXCEPT ![r] = y] /\ y.at \notin {"promote", "start"}
    BY <1>7, <2>1, <2>2 DEF Goto
  <2>4. Copying(y, disk', served', applying', copies')
    BY <1>2, <1>5, <1>7, <2>2 DEF Copying
  <2> QED BY <1>1, <1>3, <1>4, <1>5, <1>7, <2>2, <2>3, <2>4, StepTypes, CopyTurn
<1>8. ASSUME NEW x \in {"restored", "returned"}, x = IF q.at = "staged" THEN "restored" ELSE "returned",
             ApplyRestored, Goto(r, x)
      PROVE  IInv'
  <2>1. /\ disk' \in Disks /\ disk'.db = disk.db /\ SameRest(disk', disk)
        /\ served' \in [xray : Runs, site : Domains \cup {None}, env : Envs]
        /\ Up(disk', served', applying)
    BY <1>8, Applied
  <2>2. PICK y : y = [q EXCEPT !.at = x]
    OBVIOUS
  <2>3. y \in RequestStates /\ y.at = x /\ y.before = q.before /\ y.copy = q.copy
    BY <1>2, <2>2
  <2>4. rq' = [rq EXCEPT ![r] = y] /\ y.at \notin {"promote", "start"}
    BY <1>8, <2>2, <2>3 DEF Goto
  <2>5. Copying(y, disk', served', applying', copies')
    <3>1. /\ x = "restored" => SameBase(disk'.db, y.copy.db)
          /\ x = "returned" => SameBase(disk'.db, y.before.db)
      BY <1>1, <1>2, <1>8, <2>1, <2>3 DEF Copying
    <3>2. SameRest(disk', y.before)
      BY <1>1, <1>2, <2>1, <2>3 DEF Copying, SameRest
    <3> QED BY <1>5, <2>1, <2>3, <3>1, <3>2 DEF Copying
  <2> QED BY <1>1, <1>3, <1>4, <1>5, <2>1, <2>3, <2>4, <2>5, CopyTurn
<1>9. CASE ApplyCopy(r)
  <2>1. q.at = "staged"
    BY <1>9 DEF ApplyCopy
  <2> QED BY <1>7, <1>8, <1>9, <2>1 DEF ApplyCopy
<1>10. CASE ReapplyOld(r)
  <2>1. q.at = "undone"
    BY <1>10 DEF ReapplyOld
  <2> QED BY <1>6, <1>8, <1>10, <2>1 DEF ReapplyOld
<1> QED BY <1>9, <1>10

LEMMA UndoCopyStep ==
  ASSUME IInv, NEW r \in Requests, UndoCopy(r) \/ Unstage(r)
  PROVE  IInv'
<1>1. PICK q : q = rq[r]
  OBVIOUS
<1>2. q.at \in {"refused", "unstaged"} /\ UNCHANGED <<served, applying, copies, restarts, due, slot, job, spent>>
  BY <1>1 DEF UndoCopy, Unstage, here
<1>3. q.at \in CopySteps /\ Busy(r) /\ Copying(q, disk, served, applying, copies)
  BY <1>1, <1>2, Restores DEF CopySteps
<1>4. copies \subseteq Copies /\ spent' \in Spendings
  BY <1>2 DEF IInv, TypeOK, Spendings
<1>5. CASE Leave(r) /\ UNCHANGED disk
  <2>1. Numbered' /\ copies' \subseteq Copies
    BY <1>2 DEF IInv, TypeOK, Orderly, Numbered
  <2> QED BY <1>2, <1>3, <1>4, <1>5, <2>1, StepTypes, RequestEnds DEF Spendings
<1>6. ASSUME NEW c \in copies, c.n = q.safety, disk' = [disk EXCEPT !.db = c.db],
             NEW x \in {"undone", "kept back"}, Goto(r, x)
      PROVE  IInv'
  <2>1. c.db = q.before.db /\ c.db \in Databases
    BY <1>2, <1>3, <1>4, <1>6 DEF Copying, Copies
  <2>2. disk'.db = c.db
    BY <1>6, StepTypes DEF Disks
  <2>3. x \in CopySteps /\ SameBase(disk'.db, q.before.db)
    BY <2>1, <2>2 DEF SameBase, CopySteps
  <2> QED BY <1>1, <1>2, <1>3, <1>6, <2>1, <2>3, CopyMoves
<1> QED BY <1>1, <1>5, <1>6 DEF UndoCopy, Unstage

LEMMA AnswerStep ==
  ASSUME IInv, NEW r \in Requests, Answer(r)
  PROVE  IInv'
<1>1. Busy(r) /\ Leave(r) /\ UNCHANGED <<disk, served, restarts, due, applying, slot, job, copies, spent>>
  BY DEF Answer, Busy, Verifying
<1>2. Numbered' /\ copies' \subseteq Copies /\ spent' \in Spendings
  BY <1>1 DEF IInv, TypeOK, Orderly, Numbered, Spendings
<1> QED BY <1>1, <1>2, StepTypes, RequestEnds DEF Spendings

LEMMA RequestNext ==
  ASSUME IInv, ~Overlap, NEW r \in Requests,
         \/ Upload(r) \/ (\E p \in Profiles : Confirm(r, p)) \/ (\E c \in copies : ChooseCopy(r, c))
         \/ VerifyRoute(r) \/ RestoreRoute(r) \/ CopyStep(r)
  PROVE  IInv'
<1>1. CASE Upload(r) \/ (\E p \in Profiles : Confirm(r, p)) \/ (\E c \in copies : ChooseCopy(r, c))
  BY <1>1, UploadStep, ConfirmStep, ChooseCopyStep
<1>2. CASE VerifyRoute(r)
  BY <1>2, VerifyReadStep, VerifyKeepStep, SaveVerifiedStep DEF VerifyRoute
<1>3. CASE RestoreRoute(r)
  BY <1>3, PromoteStep, StartJobStep DEF RestoreRoute
<1>4. CASE CopyStep(r)
  BY <1>4, SafetyCopyStep, CopyOverStep, ApplyOutcome, UndoCopyStep, AnswerStep DEF CopyStep
<1> QED BY <1>1, <1>2, <1>3, <1>4

LEMMA Stays ==
  ASSUME IInv, UNCHANGED vars
  PROVE  IInv'
<1>1. UNCHANGED <<disk, served, restarts, due, applying, slot, rq, job, copies, spent>>
  BY DEF vars, uploads
<1>2. copies' \subseteq Copies /\ Numbered' /\ spent' \in Spendings
  BY <1>1 DEF IInv, TypeOK, Orderly, Numbered, Spendings
<1>3. \A r \in Requests : Copying(rq[r], disk, served, applying, copies')
  BY <1>1 DEF IInv, Orderly
<1> QED BY <1>1, <1>2, <1>3, CopiesTurn

LEMMA IInvInit == Init => IInv
<1> SUFFICES ASSUME Init PROVE IInv
  OBVIOUS
<1>1. PICK t \in OwnTls :
        LET mine == [from |-> Own, rev |-> 0]
            base == [clients |-> mine, settings |-> Own, host |-> Own, hidden |-> FALSE]
        IN disk = [db |-> base, env |-> [machine |-> Own, rest |-> Own], tls |-> t, awg |-> None,
                   site |-> t, run |-> Of(base)]
  BY DEF Init
<1>2. /\ served = [xray |-> disk.run, site |-> disk.site, env |-> disk.env]
      /\ restarts = 0 /\ due = FALSE /\ applying = None
      /\ slot = [p \in Profiles |-> [upload |-> None, kept |-> None, meta |-> None, ready |-> None]]
      /\ rq = [r \in Requests |-> NoRequest] /\ job = [j \in Jobs |-> NoJob] /\ copies = {}
      /\ spent = [uploads |-> 0, copies |-> 0, edits |-> 0, faults |-> 0]
  BY DEF Init
<1>3. PICK b : b = [clients |-> [from |-> Own, rev |-> 0], settings |-> Own, host |-> Own, hidden |-> FALSE]
  OBVIOUS
<1>4. b \in Databases /\ Of(b) \in Runs
  <2>1. b \in Databases
    BY <1>3 DEF Databases, Contents, Settings, Origins
  <2> QED BY <2>1, OfRuns
<1>5. PICK e : e = [machine |-> Own, rest |-> Own]
  OBVIOUS
<1>6. e \in Envs
  BY <1>5 DEF Envs, Origins
<1>7. disk = [db |-> b, env |-> e, tls |-> t, awg |-> None, site |-> t, run |-> Of(b)]
  BY <1>1, <1>3, <1>5
<1>8. disk \in Disks
  BY <1>4, <1>6, <1>7, RestoreAssumption DEF Disks
<1>9. served \in [xray : Runs, site : Domains \cup {None}, env : Envs]
  BY <1>2, <1>8, DiskFields
<1>10. slot \in [Profiles -> Slots]
  BY <1>2 DEF Slots
<1>11. rq \in [Requests -> RequestStates] /\ \A r \in Requests : rq[r].at = "idle"
  BY <1>2, NotStarted
<1>12. job \in [Jobs -> JobStates] /\ \A j \in Jobs : job[j].at = "idle"
  BY <1>2 DEF NoJob, JobStates
<1>13. spent \in Spendings
  BY <1>2, RestoreAssumption DEF Spendings
<1>14. TypeOK
  BY <1>2, <1>8, <1>9, <1>10, <1>11, <1>12, <1>13 DEF TypeOK, Runs, Spendings
<1>15. (\A j \in Jobs : ~Running(j)) /\ \A r \in Requests : ~Busy(r)
  BY <1>11, <1>12 DEF Running, Busy, Verifying
<1>16. Alone /\ Numbered
  BY <1>2, <1>15 DEF Alone, Numbered
<1>17. Stocked
  <2>1. slot["full"].upload = None /\ slot["full"].kept = None /\ slot["full"].ready = None
    BY <1>2 DEF Profiles
  <2> QED BY <2>1 DEF Stocked
<1>18. Asked
  BY <1>11, <1>12 DEF Asked
<1>19. \A r \in Requests : Copying(rq[r], disk, served, applying, copies)
  BY <1>11 DEF Copying, CopySteps
<1> QED BY <1>14, <1>15, <1>16, <1>17, <1>18, <1>19 DEF IInv, Orderly

LEMMA IInvNext == ASSUME ~Overlap PROVE IInv /\ [Next]_vars => IInv'
<1> SUFFICES ASSUME IInv, [Next]_vars PROVE IInv'
  OBVIOUS
<1>1. CASE UNCHANGED vars
  BY <1>1, Stays
<1>2. CASE Meanwhile
  BY <1>2, EditStep, BeginApplyStep, EndApplyStep, PanelRestartsStep DEF Meanwhile
<1>3. CASE MakeCopy \/ DeleteOldCopies
  BY <1>3, MakeCopyStep, DeleteOldCopiesStep
<1>4. ASSUME NEW j \in Jobs, JobStep(j) \/ Kill(j) PROVE IInv'
  BY <1>4, JobNext
<1>5. ASSUME NEW r \in Requests,
             \/ Upload(r) \/ (\E p \in Profiles : Confirm(r, p)) \/ (\E c \in copies : ChooseCopy(r, c))
             \/ VerifyRoute(r) \/ RestoreRoute(r) \/ CopyStep(r)
      PROVE  IInv'
  BY <1>5, RequestNext
<1> QED BY <1>1, <1>2, <1>3, <1>4, <1>5 DEF Next

\* Every reachable state, whatever the number of threads, jobs and archives, is
\* well typed and in order: one restore at a time, and each as far on as its
\* program counter says.
THEOREM RestoresInOrder == ASSUME ~Overlap PROVE Spec => []IInv
BY IInvInit, IInvNext, PTL DEF Spec

\* The variables keep their types: a job's number is that of a step, a request
\* carries what its next step reads, counters stay within their bounds.
THEOREM RestoreTypes == ASSUME ~Overlap PROVE Spec => []TypeOK
<1>1. IInv => TypeOK
  BY DEF IInv
<1> QED BY <1>1, RestoresInOrder, PTL

\* A Full or Clients & Keys restore that is about to be reported as done serves
\* what it restored, provided no full archive was taken while another restore
\* had its credentials hidden.
THEOREM RestoredIsServed ==
  ASSUME ~Overlap, \A a \in Archives : a.profile = "full" => ~a.disk.db.hidden
  PROVE  Spec => []ServesRestored
<1>1. ASSUME IInv PROVE ServesRestored
  <2>1. SUFFICES ASSUME NEW j \in Jobs, On(j, "forward", "finish"), ~job[j].deferred, NEW J, J = job[j]
                 PROVE  /\ served.xray.clients.from = J.image.disk.db.clients.from
                        /\ served.xray.host = disk.env.machine
                        /\ served.env = disk.env
                        /\ disk.tls # None => served.site = disk.tls
                        /\ ~disk.db.hidden
    BY DEF ServesRestored, Image
  <2>2. Running(j) /\ J.at = "forward"
    BY <2>1 DEF On, Running
  <2>3. /\ Prof(J) \in Profiles /\ J.n \in 1..Last(J, disk.tls)
        /\ Working(J, disk, served, applying, restarts)
    BY <1>1, <2>1, <2>2, Alongside
  <2>4. J.n = Probe(J, disk.tls) + 3
    BY <2>1, <2>2, <2>3, WhereForward DEF On
  <2>5. J.n \in {12, 13, 17} /\ J.n > Probe(J, disk.tls) + 2 /\ J.n >= Probe(J, disk.tls)
    BY <2>2, <2>3, <2>4 DEF Probe, Profiles
  <2>6. Built(J, disk.tls)
    BY <2>1, <2>2, <2>3, <2>4 DEF Built, Probe, Profiles
  <2>7. Forwards(J, disk) /\ Up(disk, served, applying)
    BY <2>2, <2>3, <2>5, <2>6 DEF Working
  <2>8. served.env = disk.env /\ (disk.tls # None => served.site = disk.tls)
    BY <2>3, <2>5 DEF Working, Restarted
  <2>9. disk.db.clients.from = J.image.disk.db.clients.from /\ disk.db.host = disk.env.machine
    BY <2>5, <2>7 DEF Forwards, OnFull, OnClients
  <2>10. ~disk.db.hidden
    <3>1. CASE Prof(J) = "clients"
      BY <2>5, <2>7, <3>1 DEF Forwards, OnClients
    <3>2. CASE Prof(J) = "full"
      <4>1. J.image # None /\ Lawful(J.image)
        BY <2>2, <2>3, <2>5 DEF Working, Holding
      <4>2. J.image \in Archives /\ J.image.profile = "full"
        BY <3>2, <4>1 DEF Lawful, Prof
      <4>3. ~J.image.disk.db.hidden
        BY <4>2
      <4>4. disk.db.hidden = J.image.disk.db.hidden
        BY <2>5, <2>7, <3>2 DEF Forwards, OnFull
      <4> QED BY <4>3, <4>4
    <3> QED BY <2>3, <3>1, <3>2 DEF Profiles
  <2> QED BY <2>7, <2>8, <2>9, <2>10 DEF Up, Fresh
<1> QED BY <1>1, RestoresInOrder, PTL

\* A restore that is about to be reported as rolled back serves what was there
\* before it, when the server was whole then, no other clients.apply wrote
\* config.json meanwhile, and the archive could not bring HTTPS to a server
\* without (Brings: what the undo then leaves behind).
THEOREM UndoneIsServed == ASSUME ~Overlap, ~Brings PROVE Spec => []ServesOld
<1>1. ASSUME IInv PROVE ServesOld
  <2>1. SUFFICES ASSUME NEW j \in Jobs, On(j, "undo", "report"), ~job[j].beside, NEW J, J = job[j],
                        NEW m, m = J.safety, Settled(m)
                 PROVE  /\ \/ served.xray = m.run
                           \/ \E n \in m.db.clients.rev..disk.db.clients.rev :
                                served.xray = Of([m.db EXCEPT !.clients.rev = n])
                        /\ disk.db.clients.from = m.db.clients.from
                        /\ served.env = m.env
                        /\ served.site = m.site
    BY DEF ServesOld, Mine
  <2>2. Running(j) /\ J.at = "undo"
    BY <2>1 DEF On, Running
  <2>3. /\ J \in Tasks /\ Prof(J) \in Profiles /\ J.n \in 1..Last(J, disk.tls)
        /\ Working(J, disk, served, applying, restarts)
    BY <1>1, <2>1, <2>2, Alongside
  <2>4. J.n = Probe(J, disk.tls) + 3
    BY <2>1, <2>2, <2>3, WhereBack DEF On
  <2>5. J.n \in {8, 10} /\ Built(J, disk.tls) /\ J.n > Probe(J, disk.tls) + 2
    BY <2>2, <2>4 DEF Probe, Built
  <2>6. Backwards(J, disk, served) /\ m \in Disks
    BY <2>1, <2>2, <2>3, Updated DEF Working, Holding
  <2>7. Whole(m)
    BY <2>1 DEF Whole
  <2>8. Returned(served.xray, m, disk) /\ served.site = m.site
    BY <2>1, <2>5, <2>6, <2>7 DEF Backwards
  <2>9. disk.env = m.env /\ disk.db = [m.db EXCEPT !.clients.rev = disk.db.clients.rev]
    BY <2>1, <2>5, <2>6 DEF Backwards
  <2>10. disk.db.clients.from = m.db.clients.from
    BY <2>6, <2>9, DiskFields DEF Databases, Contents
  <2>11. served.env = disk.env
    BY <2>3, <2>5 DEF Working, Restarted
  <2> QED BY <2>8, <2>9, <2>10, <2>11 DEF Returned
<1> QED BY <1>1, RestoresInOrder, PTL

\* "Restored" and "the previous database and Xray are back" are only said of a
\* database that is there and that xray runs.
THEOREM CopyAnswersTrue == ASSUME ~Overlap PROVE Spec => []CopyAnswerTrue
<1>1. ASSUME IInv PROVE CopyAnswerTrue
  <2>1. \A r \in Requests : Copying(rq[r], disk, served, applying, copies)
    BY <1>1 DEF IInv, Orderly
  <2> QED BY <2>1 DEF CopyAnswerTrue, Copying, SameBase, Up, Fresh
<1> QED BY <1>1, RestoresInOrder, PTL

-----------------------------------------------------------------------------
\* The refinement.  What a step does to a job.
LEMMA OneOn ==
  ASSUME IInv, NEW j \in Jobs, Running(j), NEW J, J = job[j], NEW K, K = job'[j],
         \/ Move(j)
         \/ job' = [job EXCEPT ![j].n = @ + 1, ![j].deferred = TRUE]
         \/ job' = [job EXCEPT ![j].n = @ + 1, ![j].before = restarts]
  PROVE  /\ K.at = J.at /\ K.n = J.n + 1 /\ K.image = J.image /\ K.safety = J.safety
         /\ \A i \in Jobs \ {j} : job'[i] = job[i]
<1>1. J \in Tasks /\ job \in [Jobs -> JobStates]
  BY Alongside DEF IInv, TypeOK
<1>2. CASE Move(j)
  <2>1. K = [J EXCEPT !.n = J.n + 1] /\ \A i \in Jobs \ {j} : job'[i] = job[i]
    BY <1>1, <1>2 DEF Move
  <2> QED BY <1>1, <2>1 DEF Tasks
<1>3. CASE job' = [job EXCEPT ![j].n = @ + 1, ![j].deferred = TRUE]
  <2>1. job' = [job EXCEPT ![j] = [job[j] EXCEPT !.n = job[j].n + 1, !.deferred = TRUE]]
    BY <1>3
  <2>2. K = [J EXCEPT !.n = J.n + 1, !.deferred = TRUE] /\ \A i \in Jobs \ {j} : job'[i] = job[i]
    BY <1>1, <2>1
  <2> QED BY <1>1, <2>2 DEF Tasks
<1>4. CASE job' = [job EXCEPT ![j].n = @ + 1, ![j].before = restarts]
  <2>1. job' = [job EXCEPT ![j] = [job[j] EXCEPT !.n = job[j].n + 1, !.before = restarts]]
    BY <1>4
  <2>2. K = [J EXCEPT !.n = J.n + 1, !.before = restarts] /\ \A i \in Jobs \ {j} : job'[i] = job[i]
    BY <1>1, <2>1
  <2> QED BY <1>1, <2>2 DEF Tasks
<1> QED BY <1>2, <1>3, <1>4

\* How far a job is.
PhaseAt(J, t) ==
  IF J.at = "undo" THEN IF J.n >= Probe(J, t) + 3 THEN "undone" ELSE "undoing"
  ELSE IF J.n <= 2 THEN "checking"
  ELSE IF J.n >= Probe(J, t) + 3 THEN "done" ELSE "changing"

\* It ends; it takes one of its first two steps; it goes one step on; or its
\* undo begins.
Ends(K, w, w1) == K.at = "over" /\ w1 = w
Early(J, K, d, d1) ==
  /\ J.at = "forward" /\ J.n <= 2 /\ K.at = "forward" /\ K.n = J.n + 1 /\ d1 = d
  /\ J.n = 2 => K.image = J.image /\ K.safety = d
GoesOn(J, K, d, d1) ==
  /\ J.at = "undo" \/ J.n > 2
  /\ K.at = J.at /\ K.n = J.n + 1 /\ K.image = J.image /\ K.safety = J.safety
  /\ J.n >= Probe(J, d.tls) + 2 => d1 = d
  /\ d1.tls = d.tls \/ J.n <= 3
TurnsBack(J, K, d) ==
  /\ J.at = "forward" /\ J.n > 2 /\ J.n < Probe(J, d.tls) + 3
  /\ K.at = "undo" /\ K.n = 1 /\ K.image = J.image /\ K.safety = J.safety

JobShape(J, K, d, d1) ==
  Ends(K, Core(d), Core(d1)) \/ Early(J, K, d, d1) \/ GoesOn(J, K, d, d1) \/ TurnsBack(J, K, d)

Others(j) == /\ \A i \in Jobs \ {j} : job'[i] = job[i]
             /\ rq' = rq /\ copies' = copies

LEMMA EndShape ==
  ASSUME IInv, NEW j \in Jobs, End(j), UNCHANGED <<disk, rq, copies>>, NEW J
  PROVE  JobShape(J, job'[j], disk, disk') /\ Others(j)
<1>1. job \in [Jobs -> JobStates]
  BY DEF IInv, TypeOK
<1> QED BY <1>1 DEF End, JobShape, Ends, Others

LEMMA EarlyShape ==
  ASSUME IInv, NEW j \in Jobs, Check(j) \/ Safety(j), NEW J, J = job[j]
  PROVE  JobShape(J, job'[j], disk, disk') /\ Others(j)
<1>1. UNCHANGED <<disk, rq, copies>>
  BY DEF Check, Safety, uploads
<1>2. Running(j) /\ J.at = "forward" /\ job \in [Jobs -> JobStates]
  BY DEF Check, Safety, On, Running, IInv, TypeOK
<1>3. J \in Tasks /\ Prof(J) \in Profiles /\ J.n \in 1..Last(J, disk.tls)
  BY <1>2, Alongside
<1>4. CASE End(j)
  BY <1>1, <1>4, EndShape
<1>5. CASE Check(j) /\ ~End(j)
  <2>1. J.n = 1
    BY <1>2, <1>3, <1>5, WhereForward DEF Check, On
  <2>2. PICK a : job' = [job EXCEPT ![j] = [job[j] EXCEPT !.n = 2, !.image = a]]
    BY <1>5 DEF Check
  <2>3. job'[j] = [J EXCEPT !.n = 2, !.image = a] /\ \A i \in Jobs \ {j} : job'[i] = job[i]
    BY <1>2, <2>2
  <2>4. job'[j].at = "forward" /\ job'[j].n = 2
    BY <1>2, <1>3, <2>3 DEF Tasks
  <2> QED BY <1>1, <1>2, <2>1, <2>3, <2>4 DEF JobShape, Early, Others
<1>6. CASE Safety(j) /\ ~End(j)
  <2>1. J.n = 2
    BY <1>2, <1>3, <1>6, WhereForward DEF Safety, On
  <2>2. job' = [job EXCEPT ![j] = [job[j] EXCEPT !.n = 3, !.safety = disk]]
    BY <1>6 DEF Safety
  <2>3. job'[j] = [J EXCEPT !.n = 3, !.safety = disk] /\ \A i \in Jobs \ {j} : job'[i] = job[i]
    BY <1>2, <2>2
  <2>4. job'[j].at = "forward" /\ job'[j].n = 3 /\ job'[j].image = J.image /\ job'[j].safety = disk
    BY <1>2, <1>3, <2>3 DEF Tasks
  <2> QED BY <1>1, <1>2, <2>1, <2>3, <2>4 DEF JobShape, Early, Others
<1> QED BY <1>4, <1>5, <1>6

\* A step before the wait, or one that leaves the disk alone.
LEMMA MoveShape ==
  ASSUME IInv, NEW j \in Jobs, NEW way \in {"forward", "undo"}, NEW step, On(j, way, step),
         step \notin {"check", "safety"}, NEW J, J = job[j],
         \/ Move(j)
         \/ job' = [job EXCEPT ![j].n = @ + 1, ![j].deferred = TRUE]
         \/ job' = [job EXCEPT ![j].n = @ + 1, ![j].before = restarts],
         disk' = disk \/ step \notin {"wait", "finish", "reconcile", "report"},
         disk'.tls = disk.tls \/ step = "files", UNCHANGED <<rq, copies>>
  PROVE  JobShape(J, job'[j], disk, disk') /\ Others(j)
<1>1. Running(j) /\ J.at = way /\ Step(j) = step /\ J \in Tasks /\ J.n \in 1..Last(J, disk.tls) /\ J.n \in Nat
      /\ Prof(J) \in Profiles
  BY At, Alongside DEF On
<1>2. PICK t : t = disk.tls
  OBVIOUS
<1>3. PICK p \in Nat : p = Probe(J, t) /\ Last(J, t) = p + IF way = "forward" /\ Prof(J) = "clients" THEN 4 ELSE 3
  BY <1>1, <1>2, At
<1>4. (J.at = "undo" \/ J.n > 2) /\ (J.n >= p + 2 => disk' = disk) /\ (step = "files" => J.n <= 3)
  <2>1. CASE way = "forward"
    <3>1. J.n # 1 /\ J.n # 2 /\ (step = "files" => J.n = 3)
      BY <1>1, <2>1, WhereForward
    <3>2. J.n = p + 2 => step = "wait"
      BY <1>1, <1>2, <1>3, <2>1, WhereForward
    <3>3. (J.n = p + 3 => step = "finish") /\ (J.n = p + 4 => step = "reconcile")
      BY <1>1, <1>2, <1>3, <2>1, WhereForward
    <3>4. J.n >= p + 2 => J.n \in {p + 2, p + 3, p + 4}
      BY <1>1, <1>2, <1>3
    <3> QED BY <1>1, <3>1, <3>2, <3>3, <3>4
  <2>2. CASE way = "undo"
    <3>1. step = "files" => J.n = 1
      BY <1>1, <2>2, WhereBack
    <3>2. (J.n = p + 2 => step = "wait") /\ (J.n = p + 3 => step = "report")
      BY <1>1, <1>2, <1>3, <2>2, WhereBack
    <3>3. J.n >= p + 2 => J.n \in {p + 2, p + 3}
      BY <1>1, <1>2, <1>3, <2>2
    <3> QED BY <1>1, <2>2, <3>1, <3>2, <3>3
  <2> QED BY <2>1, <2>2
<1>5. /\ job'[j].at = J.at /\ job'[j].n = J.n + 1 /\ job'[j].image = J.image /\ job'[j].safety = J.safety
      /\ \A i \in Jobs \ {j} : job'[i] = job[i]
  BY <1>1, OneOn
<1> QED BY <1>2, <1>3, <1>4, <1>5 DEF JobShape, GoesOn, Others

LEMMA TurnShape ==
  ASSUME IInv, NEW j \in Jobs, Fails(j), NEW J, J = job[j]
  PROVE  JobShape(J, job'[j], disk, disk') /\ Others(j)
<1>1. UNCHANGED <<rq, copies>> /\ Running(j) /\ J.safety # None /\ Step(j) \in Fallible
  BY DEF Fails, uploads
<1>2. /\ J \in Tasks /\ J.at \in {"forward", "undo"} /\ Working(J, disk, served, applying, restarts)
      /\ J.n \in 1..Last(J, disk.tls) /\ Prof(J) \in Profiles /\ job \in [Jobs -> JobStates]
  BY <1>1, Alongside DEF IInv, TypeOK
<1>3. CASE J.at = "undo"
  BY <1>1, <1>3, EndShape DEF Fails
<1>4. CASE J.at = "forward"
  <2>1. job' = [job EXCEPT ![j] = [job[j] EXCEPT !.at = "undo", !.n = 1, !.beside = FALSE]]
    BY <1>4 DEF Fails
  <2>2. job'[j] = [J EXCEPT !.at = "undo", !.n = 1, !.beside = FALSE] /\ \A i \in Jobs \ {j} : job'[i] = job[i]
    BY <1>2, <2>1
  <2>3. job'[j].at = "undo" /\ job'[j].n = 1 /\ job'[j].image = J.image /\ job'[j].safety = J.safety
    BY <1>2, <2>2 DEF Tasks
  <2>4. J.n > 2
    BY <1>1, <1>2, <1>4 DEF Working, Holding, Tasks
  <2>5. PICK p \in Nat : p = Probe(J, disk.tls)
    BY DEF Probe
  <2>6. J.n # p + 3 /\ J.n # p + 4
    BY <1>1, <1>2, <1>4, <2>5, WhereForward DEF Fallible
  <2>7. J.n <= p + 4 /\ J.n \in Nat
    BY <1>2, <2>5 DEF Last
  <2>8. J.n < p + 3
    BY <2>5, <2>6, <2>7
  <2> QED BY <1>1, <1>4, <2>2, <2>3, <2>4, <2>5, <2>8 DEF JobShape, TurnsBack, Others
<1> QED BY <1>2, <1>3, <1>4

LEMMA Shape ==
  ASSUME IInv, NEW j \in Jobs, JobStep(j) \/ Kill(j), NEW J, J = job[j]
  PROVE  Running(j) /\ JobShape(J, job'[j], disk, disk') /\ Others(j)
<1>1. disk \in Disks /\ disk.db \in Databases
  BY DiskFields DEF IInv, TypeOK
<1>2. CASE Check(j) \/ Safety(j)
  BY <1>2, EarlyShape DEF Check, Safety, On, Running
<1>3. CASE OverlayFiles(j)
  <2>1. On(j, "forward", "files") /\ Move(j) /\ UNCHANGED <<rq, copies>>
    BY <1>3 DEF OverlayFiles, world, uploads
  <2> QED BY <2>1, MoveShape DEF On, Running
<1>4. CASE OverlayAwg31(j)
  <2>1. On(j, "forward", "awg") /\ Move(j) /\ UNCHANGED <<rq, copies>> /\ disk'.tls = disk.tls
    BY <1>1, <1>4 DEF OverlayAwg31, world, uploads, Disks
  <2> QED BY <2>1, MoveShape DEF On, Running
<1>5. CASE SwapDatabase(j)
  <2>1. On(j, "forward", "swap") /\ Move(j) /\ UNCHANGED <<rq, copies>> /\ disk'.tls = disk.tls
    BY <1>1, <1>5 DEF SwapDatabase, world, uploads, Disks
  <2> QED BY <2>1, MoveShape DEF On, Running
<1>6. CASE MergeEnv(j)
  <2>1. On(j, "forward", "env") /\ Move(j) /\ UNCHANGED <<rq, copies>> /\ disk'.tls = disk.tls
    BY <1>1, <1>6 DEF MergeEnv, world, uploads, Disks
  <2> QED BY <2>1, MoveShape DEF On, Running
<1>7. CASE Rebind(j)
  <2>1. On(j, "forward", "rebind") /\ Move(j) /\ UNCHANGED <<rq, copies>> /\ disk'.tls = disk.tls
    BY <1>1, <1>7 DEF Rebind, world, uploads, Disks
  <2> QED BY <2>1, MoveShape DEF On, Running
<1>8. CASE Hide(j)
  <2>1. On(j, "forward", "hide") /\ Move(j) /\ UNCHANGED <<rq, copies>> /\ disk'.tls = disk.tls
    BY <1>1, <1>8 DEF Hide, world, uploads, Disks
  <2> QED BY <2>1, MoveShape DEF On, Running
<1>9. CASE Unhide(j)
  <2>1. On(j, "forward", "unhide") /\ Move(j) /\ UNCHANGED <<rq, copies>> /\ disk'.tls = disk.tls
    BY <1>1, <1>9 DEF Unhide, world, uploads, Disks
  <2> QED BY <2>1, MoveShape DEF On, Running
<1>10. CASE Apply(j)
  <2>1. On(j, "forward", "apply") /\ Move(j) /\ UNCHANGED <<rq, copies>> /\ disk'.tls = disk.tls
    BY <1>1, <1>10 DEF Apply, uploads, Disks
  <2> QED BY <2>1, MoveShape DEF On, Running
<1>11. CASE Defer(j)
  <2>1. /\ On(j, "forward", "apply") /\ UNCHANGED <<disk, rq, copies>>
        /\ job' = [job EXCEPT ![j].n = @ + 1, ![j].deferred = TRUE]
    BY <1>11 DEF Defer, uploads
  <2> QED BY <2>1, MoveShape DEF On, Running
<1>12. CASE Finish(j)
  <2>1. On(j, "forward", "finish") /\ UNCHANGED <<disk, rq, copies>> /\ (Move(j) \/ End(j))
    BY <1>12 DEF Finish
  <2> QED BY <2>1, MoveShape, EndShape DEF On, Running
<1>13. CASE Reconcile(j)
  <2>1. On(j, "forward", "reconcile") /\ End(j) /\ UNCHANGED <<rq, copies>>
    BY <1>13 DEF Reconcile, uploads
  <2>2. Core(disk)' = Core(disk)
    BY <1>1, <1>13 DEF Reconcile, Core, Disks
  <2>3. job'[j].at = "over" /\ \A i \in Jobs \ {j} : job'[i] = job[i]
    BY <2>1 DEF End, IInv, TypeOK
  <2> QED BY <2>1, <2>2, <2>3 DEF On, Running, JobShape, Ends, Others
<1>14. CASE PutBackFiles(j)
  <2>1. On(j, "undo", "files") /\ Move(j) /\ UNCHANGED <<rq, copies>>
    BY <1>14 DEF PutBackFiles, world, uploads
  <2> QED BY <2>1, MoveShape DEF On, Running
<1>15. CASE PutBackDatabase(j)
  <2>1. On(j, "undo", "swap") /\ Move(j) /\ UNCHANGED <<rq, copies>> /\ disk'.tls = disk.tls
    BY <1>1, <1>15 DEF PutBackDatabase, world, uploads, Disks
  <2> QED BY <2>1, MoveShape DEF On, Running
<1>16. CASE PutBackEnv(j)
  <2>1. On(j, "undo", "env") /\ Move(j) /\ UNCHANGED <<rq, copies>> /\ disk'.tls = disk.tls
    BY <1>1, <1>16 DEF PutBackEnv, world, uploads, Disks
  <2> QED BY <2>1, MoveShape DEF On, Running
<1>17. CASE Report(j)
  <2>1. On(j, "undo", "report") /\ End(j) /\ UNCHANGED <<disk, rq, copies>>
    BY <1>17 DEF Report, world, uploads
  <2> QED BY <2>1, EndShape DEF On, Running
<1>18. ASSUME NEW way \in {"forward", "undo"},
              RefreshHttps(j, way) \/ Restart(j, way) \/ Health(j, way) \/ Schedule(j, way) \/ Wait(j, way)
       PROVE  Running(j) /\ JobShape(J, job'[j], disk, disk') /\ Others(j)
  <2>1. CASE RefreshHttps(j, way)
    <3>1. On(j, way, "https") /\ Move(j) /\ UNCHANGED <<rq, copies>> /\ disk'.tls = disk.tls
      BY <1>1, <2>1 DEF RefreshHttps, uploads, Disks
    <3> QED BY <3>1, MoveShape DEF On, Running
  <2>2. CASE Restart(j, way)
    <3>1. On(j, way, "restart") /\ Move(j) /\ UNCHANGED <<disk, rq, copies>>
      BY <2>2 DEF Restart, uploads
    <3> QED BY <3>1, MoveShape DEF On, Running
  <2>3. CASE Health(j, way)
    <3>1. /\ On(j, way, "health") /\ UNCHANGED <<disk, rq, copies>>
          /\ job' = [job EXCEPT ![j].n = @ + 1, ![j].before = restarts]
      BY <2>3 DEF Health, world, uploads
    <3> QED BY <3>1, MoveShape DEF On, Running
  <2>4. CASE Schedule(j, way)
    <3>1. On(j, way, "schedule") /\ Move(j) /\ UNCHANGED <<disk, rq, copies>>
      BY <2>4 DEF Schedule, uploads
    <3> QED BY <3>1, MoveShape DEF On, Running
  <2>5. CASE Wait(j, way)
    <3>1. On(j, way, "wait") /\ Move(j) /\ UNCHANGED <<disk, rq, copies>>
      BY <2>5 DEF Wait, world, uploads
    <3> QED BY <3>1, MoveShape DEF On, Running
  <2> QED BY <1>18, <2>1, <2>2, <2>3, <2>4, <2>5
<1>19. CASE Fails(j)
  BY <1>19, TurnShape DEF Fails
<1>20. CASE Kill(j)
  <2>1. Running(j) /\ End(j) /\ UNCHANGED <<disk, rq, copies>>
    BY <1>20 DEF Kill, uploads
  <2> QED BY <2>1, EndShape
<1> QED BY <1>2, <1>3, <1>4, <1>5, <1>6, <1>7, <1>8, <1>9, <1>10, <1>11, <1>12, <1>13, <1>14, <1>15, <1>16, <1>17,
           <1>18, <1>19, <1>20 DEF JobStep

-----------------------------------------------------------------------------
\* What the mapping says in each state.
Cores == [clients : Origins, settings : Settings, host : Origins, hidden : BOOLEAN, env : Envs,
          tls : Domains \cup {None}, site : Domains \cup {None}, awg : Origins \cup {None}]
Wishes == [profile : Profiles \cup {"sqlite"}, disk : Disks]

LEMMA CoreType == \A d \in Disks : Core(d) \in Cores
BY DEF Core, Cores, Disks, Databases, Contents

CopyUnderWay(r) == rq[r].at \notin Verifying \cup {"promote", "start"}

MapsIdle == (\A j \in Jobs : ~Running(j)) /\ (\A r \in Requests : ~CopyUnderWay(r)) =>
              Phase = "idle" /\ Goal = None /\ Old = None

MapsJob ==
  \A j \in Jobs : Running(j) =>
    /\ Phase = PhaseAt(job[j], disk.tls)
    /\ Goal = IF Phase = "checking" THEN None ELSE [profile |-> Prof(job[j]), disk |-> job[j].image.disk]
    /\ Old = IF Phase = "checking" THEN None ELSE Core(job[j].safety)

MapsCopy ==
  \A r \in Requests : CopyUnderWay(r) =>
    /\ Phase = CopyPhase(r)
    /\ Goal = IF rq[r].at = "chosen" THEN None
              ELSE [profile |-> "sqlite", disk |-> [rq[r].before EXCEPT !.db = rq[r].copy.db]]
    /\ Old = IF rq[r].at = "chosen" THEN None ELSE Core(rq[r].before)

LEMMA IdleMapped == MapsIdle
<1> SUFFICES ASSUME \A j \in Jobs : ~Running(j), \A r \in Requests : ~CopyUnderWay(r)
             PROVE  Phase = "idle" /\ Goal = None /\ Old = None
  BY DEF MapsIdle
<1>1. RunningJobs = {} /\ RestoringCopy = {}
  BY DEF RunningJobs, RestoringCopy, CopyUnderWay
<1> QED BY <1>1 DEF Phase, Goal, Old, Saved

LEMMA PhaseBack ==
  ASSUME NEW j, job[j].at = "undo", Step(j) \notin {"check", "safety", "finish", "reconcile"}
  PROVE  /\ Step(j) = "report" => JobPhase(j) = "undone"
         /\ Step(j) # "report" => JobPhase(j) = "undoing"
<1>1. ASSUME Step(j) = "report" PROVE JobPhase(j) = "undone"
  BY <1>1 DEF JobPhase
<1>2. ASSUME Step(j) # "report" PROVE JobPhase(j) = "undoing"
  BY <1>2 DEF JobPhase
<1> QED BY <1>1, <1>2

LEMMA JobMapped == IInv => MapsJob
<1> SUFFICES ASSUME IInv, NEW j \in Jobs, Running(j)
             PROVE  /\ Phase = PhaseAt(job[j], disk.tls)
                    /\ Goal = IF Phase = "checking" THEN None
                              ELSE [profile |-> Prof(job[j]), disk |-> job[j].image.disk]
                    /\ Old = IF Phase = "checking" THEN None ELSE Core(job[j].safety)
  BY DEF MapsJob
<1>1. PICK J : J = job[j]
  OBVIOUS
<1>2. RunningJobs = {j}
  BY DEF RunningJobs, IInv, Orderly, Alone
<1>3. (CHOOSE k \in RunningJobs : TRUE) = j
  BY <1>2
<1>4. J \in Tasks /\ J.at \in {"forward", "undo"} /\ Prof(J) \in Profiles /\ J.n \in 1..Last(J, disk.tls)
  BY <1>1, Alongside
<1>5. Phase = JobPhase(j)
  BY <1>2, <1>3 DEF Phase
<1>6. PICK p \in 5..14 : p = Probe(J, disk.tls)
  BY DEF Probe
<1>7. J.n \in Nat /\ J.n <= p + 4 /\ (J.at = "undo" => J.n <= p + 3)
  BY <1>4, <1>6 DEF Last
<1>8. JobPhase(j) = PhaseAt(J, disk.tls)
  <2>1. CASE J.at = "undo"
    <3>1. (Step(j) = "report" <=> J.n = p + 3) /\ Step(j) \notin {"check", "safety", "finish", "reconcile"}
      BY <1>1, <1>4, <1>6, <2>1, WhereBack
    <3>2. /\ Step(j) = "report" => JobPhase(j) = "undone"
          /\ Step(j) # "report" => JobPhase(j) = "undoing"
      BY <1>1, <2>1, <3>1, PhaseBack
    <3>3. PhaseAt(J, disk.tls) = IF J.n >= p + 3 THEN "undone" ELSE "undoing"
      BY <1>6, <2>1 DEF PhaseAt
    <3>4. J.n = p + 3 <=> J.n >= p + 3
      BY <1>6, <1>7, <2>1
    <3> QED BY <3>1, <3>2, <3>3, <3>4
  <2>2. CASE J.at = "forward"
    <3>1. /\ Step(j) = "check" <=> J.n = 1
          /\ Step(j) = "safety" <=> J.n = 2
          /\ Step(j) = "finish" <=> J.n = p + 3
          /\ Step(j) = "reconcile" <=> J.n = p + 4
      BY <1>1, <1>4, <1>6, <2>2, WhereForward
    <3>2. J.n <= 2 <=> Step(j) \in {"check", "safety"}
      BY <1>4, <1>7, <3>1
    <3>3. J.n >= p + 3 <=> Step(j) \in {"finish", "reconcile"}
      BY <1>6, <1>7, <3>1
    <3> QED BY <1>1, <1>6, <2>2, <3>2, <3>3 DEF JobPhase, PhaseAt
  <2> QED BY <1>4, <2>1, <2>2
<1>9. Phase # "idle" /\ (Saved <=> Phase # "checking")
  BY <1>5, <1>8 DEF PhaseAt, Saved
<1>10. Profile(j) = Prof(J) /\ Image(j) = J.image.disk /\ Mine(j) = J.safety
  BY <1>1 DEF Profile, Prof, Image, Mine
<1>11. Goal = IF Phase = "checking" THEN None ELSE [profile |-> Prof(J), disk |-> J.image.disk]
  BY <1>2, <1>3, <1>9, <1>10 DEF Goal
<1>12. Old = IF Phase = "checking" THEN None ELSE Core(J.safety)
  BY <1>2, <1>3, <1>9, <1>10 DEF Old
<1> QED BY <1>1, <1>5, <1>8, <1>11, <1>12

LEMMA CopyMapped == IInv => MapsCopy
<1> SUFFICES ASSUME IInv, NEW r \in Requests, CopyUnderWay(r)
             PROVE  /\ Phase = CopyPhase(r)
                    /\ Goal = IF rq[r].at = "chosen" THEN None
                              ELSE [profile |-> "sqlite", disk |-> [rq[r].before EXCEPT !.db = rq[r].copy.db]]
                    /\ Old = IF rq[r].at = "chosen" THEN None ELSE Core(rq[r].before)
  BY DEF MapsCopy
<1>1. Busy(r) /\ rq[r].at \in {"chosen"} \cup CopySteps
  BY RequestAt DEF CopyUnderWay, Busy, Verifying, IInv, TypeOK
<1>2. RunningJobs = {}
  BY <1>1 DEF RunningJobs, IInv, Orderly, Alone
<1>3. RestoringCopy = {r}
  BY <1>1 DEF RestoringCopy, CopyUnderWay, Busy, Verifying, IInv, Orderly, Alone
<1>4. (CHOOSE q \in RestoringCopy : TRUE) = r
  BY <1>3
<1>5. Phase = CopyPhase(r)
  BY <1>2, <1>3, <1>4 DEF Phase
<1>6. Saved <=> rq[r].at # "chosen"
  BY <1>1, <1>5 DEF Saved, CopyPhase, CopySteps
<1>7. Goal = IF rq[r].at = "chosen" THEN None
             ELSE [profile |-> "sqlite", disk |-> [rq[r].before EXCEPT !.db = rq[r].copy.db]]
  BY <1>2, <1>4, <1>6 DEF Goal
<1>8. Old = IF rq[r].at = "chosen" THEN None ELSE Core(rq[r].before)
  <2>1. Old = IF ~Saved THEN None ELSE Core(rq[CHOOSE q \in RestoringCopy : TRUE].before)
    BY <1>2 DEF Old
  <2>2. Core(rq[CHOOSE q \in RestoringCopy : TRUE].before) = Core(rq[r].before)
    BY <1>4
  <2> QED BY <1>6, <2>1, <2>2
<1> QED BY <1>5, <1>7, <1>8

LEMMA Mapped == /\ IInv => MapsIdle /\ MapsJob /\ MapsCopy
                /\ (IInv => MapsIdle /\ MapsJob /\ MapsCopy)'
<1>1. IInv => MapsIdle /\ MapsJob /\ MapsCopy
  BY IdleMapped, JobMapped, CopyMapped
<1> QED BY <1>1, PTL

\* Nothing of a restore moves.
LEMMA Unmoved ==
  ASSUME IInv, IInv', Core(disk)' = Core(disk),
         \A j \in Jobs : Running(j)' <=> Running(j),
         \A j \in Jobs : Running(j) => /\ job'[j].at = job[j].at /\ job'[j].n = job[j].n
                                       /\ job'[j].image = job[j].image /\ job'[j].safety = job[j].safety,
         \A r \in Requests : CopyUnderWay(r)' <=> CopyUnderWay(r),
         \A r \in Requests : CopyUnderWay(r) => rq'[r] = rq[r]
  PROVE  UNCHANGED <<Phase, Goal, Old, Core(disk)>>
<1>1. disk'.tls = disk.tls
  BY DEF Core
<1>2. MapsIdle /\ MapsJob /\ MapsCopy /\ MapsIdle' /\ MapsJob' /\ MapsCopy'
  BY Mapped
<1>3. CASE \E j \in Jobs : Running(j)
  <2>1. PICK j \in Jobs : Running(j)
    BY <1>3
  <2>2. PICK J, K : J = job[j] /\ K = job'[j]
    OBVIOUS
  <2>3. K.at = J.at /\ K.n = J.n /\ K.image = J.image /\ K.safety = J.safety /\ Running(j)'
    BY <2>1, <2>2
  <2>4. PhaseAt(K, disk'.tls) = PhaseAt(J, disk.tls) /\ Prof(K) = Prof(J)
    BY <1>1, <2>3 DEF PhaseAt, Probe, Prof
  <2>5. Phase' = PhaseAt(K, disk'.tls) /\ Phase = PhaseAt(J, disk.tls)
    BY <1>2, <2>1, <2>2, <2>3 DEF MapsJob
  <2>6. Phase' = Phase
    BY <2>4, <2>5
  <2>7. Goal' = IF Phase' = "checking" THEN None ELSE [profile |-> Prof(K), disk |-> K.image.disk]
    BY <1>2, <2>2, <2>3 DEF MapsJob
  <2>8. Goal = IF Phase = "checking" THEN None ELSE [profile |-> Prof(J), disk |-> J.image.disk]
    BY <1>2, <2>1, <2>2 DEF MapsJob
  <2>9. Old' = IF Phase' = "checking" THEN None ELSE Core(K.safety)
    BY <1>2, <2>2, <2>3 DEF MapsJob
  <2>10. Old = IF Phase = "checking" THEN None ELSE Core(J.safety)
    BY <1>2, <2>1, <2>2 DEF MapsJob
  <2> QED BY <2>3, <2>4, <2>6, <2>7, <2>8, <2>9, <2>10
<1>4. CASE \E r \in Requests : CopyUnderWay(r)
  <2>1. PICK r \in Requests : CopyUnderWay(r) /\ CopyUnderWay(r)' /\ rq'[r] = rq[r]
    BY <1>4
  <2>2. /\ Phase = CopyPhase(r)
        /\ Goal = IF rq[r].at = "chosen" THEN None
                  ELSE [profile |-> "sqlite", disk |-> [rq[r].before EXCEPT !.db = rq[r].copy.db]]
        /\ Old = IF rq[r].at = "chosen" THEN None ELSE Core(rq[r].before)
    BY <1>2, <2>1 DEF MapsCopy
  <2>3. /\ Phase' = CopyPhase(r)'
        /\ Goal' = IF rq'[r].at = "chosen" THEN None
                   ELSE [profile |-> "sqlite", disk |-> [rq'[r].before EXCEPT !.db = rq'[r].copy.db]]
        /\ Old' = IF rq'[r].at = "chosen" THEN None ELSE Core(rq'[r].before)
    BY <1>2, <2>1 DEF MapsCopy
  <2> QED BY <2>1, <2>2, <2>3 DEF CopyPhase
<1>5. CASE (\A j \in Jobs : ~Running(j)) /\ (\A r \in Requests : ~CopyUnderWay(r))
  BY <1>2, <1>5 DEF MapsIdle
<1> QED BY <1>3, <1>4, <1>5

\* The steps of a staged change, spelt out over the mapping.
LEMMA BeginIs ==
  ASSUME Phase = "idle", Phase' = "checking", UNCHANGED <<Goal, Old, Core(disk)>>
  PROVE  Change!Next
BY DEF Change!Next, Change!Begin

LEMMA RejectIs ==
  ASSUME Phase = "checking", Phase' = "idle", UNCHANGED <<Goal, Old, Core(disk)>>
  PROVE  Change!Next
BY DEF Change!Next, Change!Reject

LEMMA SaveIs ==
  ASSUME Phase = "checking", Phase' = "changing", Goal' \in Wishes, Old' = Core(disk), Core(disk)' \in Cores
  PROVE  Change!Next
BY DEF Change!Next, Change!Save, Wishes, Cores

LEMMA ChangeIs ==
  ASSUME Phase \in {"changing", "undoing"}, Phase' = Phase, Core(disk)' \in Cores, UNCHANGED <<Goal, Old>>
  PROVE  Change!Next
BY DEF Change!Next, Change!Change, Cores

LEMMA FinishIs ==
  ASSUME Phase = "changing", Phase' = "done", Core(disk)' = Meant(Goal, Old), UNCHANGED <<Goal, Old>>
  PROVE  Change!Next
BY DEF Change!Next, Change!Finish

LEMMA GiveUpIs ==
  ASSUME Phase = "changing", Phase' = "undoing", Core(disk)' \in Cores, UNCHANGED <<Goal, Old>>
  PROVE  Change!Next
BY DEF Change!Next, Change!GiveUp, Cores

LEMMA UndoneIs ==
  ASSUME Phase = "undoing", Phase' = "undone", Core(disk)' = Old, UNCHANGED <<Goal, Old>>
  PROVE  Change!Next
BY DEF Change!Next, Change!Undone

LEMMA StuckIs ==
  ASSUME Phase = "undoing", Phase' = "idle", Goal' = None, Old' = None, Core(disk)' = Core(disk)
  PROVE  Change!Next
BY DEF Change!Next, Change!Stuck

LEMMA ReportIs ==
  ASSUME Phase \in {"done", "undone"}, Phase' = "idle", Goal' = None, Old' = None, Core(disk)' = Core(disk)
  PROVE  Change!Next
BY DEF Change!Next, Change!Report

LEMMA DieIs ==
  ASSUME Phase # "idle", Phase' = "idle", Goal' = None, Old' = None, Core(disk)' = Core(disk)
  PROVE  Change!Next
BY DEF Change!Next, Change!Die

\* Until a restore has changed anything the server is whole, and so is what it
\* saves: no step of the program clears what a killed restore has left, so this
\* is said of at most one job.
Unspoiled == \A j \in Jobs : job[j].at = "idle" \/ (job[j].at = "forward" /\ job[j].n <= 2)

Quiet(d, cs, q) ==
  /\ Settled(d) /\ ~d.db.hidden
  /\ \A c \in cs : ~c.db.hidden
  /\ \A r \in Requests : q[r].at \in {"chosen", "saved"} => ~q[r].copy.db.hidden

Calm ==
  /\ Unspoiled => Quiet(disk, copies, rq)
  /\ \A j \in Jobs : Running(j) /\ job[j].safety # None => Settled(job[j].safety) /\ ~job[j].safety.db.hidden

\* What a job has made of the server when it waits for the panel.
LEMMA Meaning ==
  ASSUME IInv, Calm, NEW j \in Jobs, Running(j), NEW J, J = job[j], J.at = "forward",
         J.n = Probe(J, disk.tls) + 2
  PROVE  Core(disk) = Meant([profile |-> Prof(J), disk |-> J.image.disk], Core(J.safety))
<1>1. J \in Tasks /\ Prof(J) \in Profiles /\ Working(J, disk, served, applying, restarts)
  BY Alongside
<1>2. PICK m, i, d : m = J.safety /\ i = J.image.disk /\ d = disk
  OBVIOUS
<1>3. PICK p \in 9..14 : p = Probe(J, d.tls)
  BY DEF Probe
<1>4. J.n = p + 2
  BY <1>2, <1>3
<1>5. m # None /\ J.image # None /\ Fits(J.image, m) /\ Forwards(J, d)
  BY <1>1, <1>2, <1>3, <1>4 DEF Working, Holding
<1>6. m \in Disks /\ i \in Disks /\ d \in Disks
  BY <1>1, <1>2, <1>5 DEF Tasks, IInv, TypeOK, Archive
<1>7. m.site = m.tls /\ ~m.db.hidden
  BY <1>2, <1>5 DEF Calm, Settled
<1>8. CASE Prof(J) = "full"
  <2>1. /\ d.tls = Kept(m.tls, i.tls) /\ d.awg = Kept(m.awg, i.awg)
        /\ d.db.clients.from = i.db.clients.from /\ d.db.settings = i.db.settings /\ d.db.hidden = i.db.hidden
        /\ d.env = [machine |-> m.env.machine, rest |-> i.env.rest] /\ d.db.host = d.env.machine
        /\ d.site = IF d.tls # None THEN d.tls ELSE m.site
    BY <1>2, <1>3, <1>4, <1>5, <1>8 DEF Forwards, OnFull
  <2>2. d.site = Kept(m.tls, i.tls) /\ d.db.host = m.env.machine
    BY <1>7, <2>1 DEF Kept
  <2>3. Core(d) = [clients |-> i.db.clients.from, settings |-> i.db.settings, host |-> m.env.machine,
                   hidden |-> i.db.hidden, env |-> [machine |-> m.env.machine, rest |-> i.env.rest],
                   tls |-> Kept(m.tls, i.tls), site |-> Kept(m.tls, i.tls), awg |-> Kept(m.awg, i.awg)]
    BY <2>1, <2>2 DEF Core
  <2>4. Meant([profile |-> "full", disk |-> i], Core(m)) = Core(d)
    BY <2>3 DEF Meant, Core
  <2> QED BY <1>2, <1>8, <2>4
<1>9. CASE Prof(J) = "clients"
  <2>1. /\ d.tls = Kept(m.tls, i.tls) /\ d.awg = m.awg /\ d.env = m.env
        /\ d.db.clients.from = i.db.clients.from /\ d.db.settings = i.db.settings
        /\ d.db.host = d.env.machine /\ ~d.db.hidden
        /\ d.site = IF d.tls # None THEN d.tls ELSE m.site
    BY <1>2, <1>3, <1>4, <1>5, <1>9 DEF Forwards, OnClients
  <2>2. i.db.settings = m.db.settings
    BY <1>2, <1>5, <1>9 DEF Fits, Prof
  <2>3. d.site = Kept(m.tls, i.tls) /\ d.db.host = m.env.machine /\ d.db.settings = m.db.settings
    BY <1>7, <2>1, <2>2 DEF Kept
  <2>4. d.db.hidden = m.db.hidden
    BY <1>6, <1>7, <2>1 DEF Disks, Databases
  <2>5. Core(d) = [clients |-> i.db.clients.from, settings |-> m.db.settings, host |-> m.env.machine,
                   hidden |-> m.db.hidden, env |-> m.env, tls |-> Kept(m.tls, i.tls),
                   site |-> Kept(m.tls, i.tls), awg |-> m.awg]
    BY <2>1, <2>3, <2>4 DEF Core
  <2>6. Meant([profile |-> "clients", disk |-> i], Core(m)) = Core(d)
    BY <2>5 DEF Meant, Core
  <2> QED BY <1>2, <1>9, <2>6
<1> QED BY <1>1, <1>8, <1>9 DEF Profiles

LEMMA PutBack ==
  ASSUME IInv, Calm, ~Brings, NEW j \in Jobs, Running(j), NEW J, J = job[j], J.at = "undo",
         J.n = Probe(J, disk.tls) + 2
  PROVE  Core(disk) = Core(J.safety)
<1>1. J \in Tasks /\ Prof(J) \in Profiles /\ Working(J, disk, served, applying, restarts)
  BY Alongside
<1>2. PICK m, d : m = J.safety /\ d = disk
  OBVIOUS
<1>3. PICK p \in 5..7 : p = Probe(J, d.tls)
  BY DEF Probe
<1>4. J.n = p + 2
  BY <1>2, <1>3
<1>5. m # None /\ Backwards(J, d, served)
  BY <1>1, <1>2 DEF Working, Holding
<1>6. m \in Disks /\ d \in Disks /\ Whole(m)
  BY <1>1, <1>2, <1>5 DEF Tasks, IInv, TypeOK, Calm, Whole
<1>7. /\ d.awg = m.awg /\ d.tls = m.tls /\ d.site = m.site /\ d.env = m.env
      /\ d.db = [m.db EXCEPT !.clients.rev = d.db.clients.rev]
  BY <1>2, <1>3, <1>4, <1>5, <1>6 DEF Backwards
<1>8. /\ d.db.clients.from = m.db.clients.from /\ d.db.settings = m.db.settings
      /\ d.db.host = m.db.host /\ d.db.hidden = m.db.hidden
  BY <1>6, <1>7 DEF Disks, Databases, Contents
<1> QED BY <1>2, <1>7, <1>8 DEF Core

\* A step of a job is a step of the staged change, or none.
LEMMA JobChange ==
  ASSUME IInv, IInv', Calm, ~Brings, NEW j \in Jobs, JobStep(j) \/ Kill(j)
  PROVE  Change!Next \/ UNCHANGED <<Phase, Goal, Old, Core(disk)>>
<1>1. PICK J, K, d, d1 : J = job[j] /\ K = job'[j] /\ d = disk /\ d1 = disk'
  OBVIOUS
<1>2. Running(j) /\ JobShape(J, K, d, d1) /\ Others(j)
  BY <1>1, Shape
<1>3. /\ J \in Tasks /\ J.at \in {"forward", "undo"} /\ Prof(J) \in Profiles /\ J.n \in 1..Last(J, d.tls)
      /\ \A i \in Jobs \ {j} : job[i].at \in {"idle", "over"}
      /\ \A r \in Requests : rq[r].at \in Verifying
      /\ J.n \in Nat
  BY <1>1, <1>2, Alongside DEF Tasks
<1>4. MapsIdle' /\ MapsJob /\ MapsJob'
  BY Mapped
<1>5. /\ Phase = PhaseAt(J, d.tls)
      /\ Goal = IF Phase = "checking" THEN None ELSE [profile |-> Prof(J), disk |-> J.image.disk]
      /\ Old = IF Phase = "checking" THEN None ELSE Core(J.safety)
  BY <1>1, <1>2, <1>4 DEF MapsJob
<1>6. Core(d) \in Cores /\ Core(d1) \in Cores
  BY <1>1, CoreType DEF IInv, TypeOK
<1>7. CASE Ends(K, Core(d), Core(d1))
  <2>1. \A i \in Jobs : ~Running(i)'
    BY <1>1, <1>2, <1>3, <1>7 DEF Ends, Others, Running
  <2>2. \A r \in Requests : ~CopyUnderWay(r)'
    BY <1>2, <1>3 DEF Others, CopyUnderWay
  <2>3. Phase' = "idle" /\ Goal' = None /\ Old' = None
    BY <1>4, <2>1, <2>2 DEF MapsIdle
  <2>4. Phase # "idle" /\ Core(disk)' = Core(disk)
    BY <1>1, <1>5, <1>7 DEF PhaseAt, Ends
  <2> QED BY <2>3, <2>4, DieIs
<1>8. ASSUME K.at \in {"forward", "undo"}
      PROVE  /\ Phase' = PhaseAt(K, d1.tls)
             /\ Goal' = IF Phase' = "checking" THEN None ELSE [profile |-> Prof(K), disk |-> K.image.disk]
             /\ Old' = IF Phase' = "checking" THEN None ELSE Core(K.safety)
             /\ K \in Tasks /\ Holding(K) /\ K.n <= Last(K, d1.tls) /\ K.n \in Nat
  <2>1. Running(j)'
    BY <1>1, <1>8 DEF Running
  <2>2. K \in Tasks
    BY <1>1, <1>8, JobAt DEF IInv, TypeOK
  <2>3. Holding(K) /\ K.n <= Last(K, d1.tls)
    BY <1>1, <2>1 DEF IInv, Orderly, Working
  <2> QED BY <1>1, <1>4, <2>1, <2>2, <2>3 DEF MapsJob, Tasks
<1>9. PICK p \in 5..14 : p = Probe(J, d.tls)
  BY DEF Probe
<1>10. CASE Early(J, K, d, d1)
  <2>1. J.at = "forward" /\ K.at = "forward" /\ K.n = J.n + 1 /\ d1 = d /\ Phase = "checking"
    BY <1>5, <1>10 DEF Early, PhaseAt
  <2>2. CASE J.n = 1
    <3>1. Phase' = "checking"
      BY <1>8, <2>1, <2>2 DEF PhaseAt
    <3> QED BY <1>1, <1>5, <1>8, <2>1, <3>1
  <2>3. CASE J.n = 2
    <3>1. PICK p1 \in 5..14 : p1 = Probe(K, d1.tls)
      BY DEF Probe
    <3>2. Phase' = "changing"
      BY <1>8, <2>1, <2>3, <3>1 DEF PhaseAt
    <3>3. K.image # None /\ K.safety = d /\ K.image \in Archive
      BY <1>8, <1>10, <2>1, <2>3 DEF Early, Holding, Tasks
    <3>4. Lawful(K.image)
      BY <1>8, <2>1, <3>3 DEF Holding
    <3>5. PICK q : q = Prof(K)
      OBVIOUS
    <3>6. q \in Profiles
      BY <3>3, <3>4, <3>5 DEF Lawful, Prof, Profiles
    <3>7. PICK i \in Disks : i = K.image.disk
      BY <3>3 DEF Archive
    <3>8. Goal' = [profile |-> q, disk |-> i]
      BY <1>8, <2>1, <3>2, <3>5, <3>7
    <3>9. Goal' \in Wishes
      BY <3>6, <3>8 DEF Wishes
    <3>10. Old' = Core(disk)
      BY <1>1, <1>8, <2>1, <3>2, <3>3
    <3> QED BY <1>1, <1>6, <2>1, <3>2, <3>9, <3>10, SaveIs
  <2> QED BY <1>3, <1>10, <2>2, <2>3 DEF Early
<1>11. ASSUME J.at = "undo" \/ J.n > 2, K.at \in {"forward", "undo"}, K.at = "undo" \/ K.n > 2,
              K.image = J.image, K.safety = J.safety
       PROVE  UNCHANGED <<Goal, Old>>
  <2>1. Phase # "checking" /\ Phase' # "checking"
    BY <1>3, <1>5, <1>8, <1>11 DEF PhaseAt
  <2>2. Prof(K) = Prof(J)
    BY <1>11 DEF Prof
  <2> QED BY <1>5, <1>8, <1>11, <2>1, <2>2
<1>12. CASE GoesOn(J, K, d, d1)
  <2>1. /\ J.at = "undo" \/ J.n > 2
        /\ K.at = J.at /\ K.n = J.n + 1 /\ K.image = J.image /\ K.safety = J.safety
        /\ J.n >= p + 2 => d1 = d
        /\ d1.tls = d.tls \/ J.n <= 3
    BY <1>9, <1>12 DEF GoesOn
  <2>2. UNCHANGED <<Goal, Old>>
    BY <1>3, <1>11, <2>1
  <2>3. PICK p1 \in 5..14 : p1 = Probe(K, d1.tls)
    BY DEF Probe
  <2>4. p1 = p \/ J.n <= 3
    BY <1>9, <2>1, <2>3 DEF Probe, Prof
  <2>5. Last(K, d1.tls) = p1 + IF J.at = "forward" /\ Prof(J) = "clients" THEN 4 ELSE 3
    BY <2>1, <2>3 DEF Last, Prof
  <2>6. J.n + 1 <= Last(K, d1.tls)
    BY <1>3, <1>8, <2>1
  <2>7. CASE J.at = "undo"
    <3>1. Phase = IF J.n >= p + 3 THEN "undone" ELSE "undoing"
      BY <1>5, <1>9, <2>7 DEF PhaseAt
    <3>2. Phase' = IF J.n + 1 >= p1 + 3 THEN "undone" ELSE "undoing"
      BY <1>3, <1>8, <2>1, <2>3, <2>7 DEF PhaseAt
    <3>3. J.n <= p + 2
      BY <1>3, <2>4, <2>5, <2>6, <2>7
    <3>4. CASE J.n = p + 2
      <4>1. Phase = "undoing" /\ Phase' = "undone" /\ d1 = d
        BY <2>1, <2>4, <3>1, <3>2, <3>4
      <4>2. Core(d) = Core(J.safety)
        BY <1>1, <1>2, <1>9, <2>7, <3>4, PutBack
      <4>3. Old = Core(J.safety)
        BY <1>5, <4>1
      <4> QED BY <1>1, <2>2, <4>1, <4>2, <4>3, UndoneIs
    <3>5. CASE J.n < p + 2
      <4>1. Phase = "undoing" /\ Phase' = "undoing"
        BY <1>3, <2>4, <3>1, <3>2, <3>5
      <4> QED BY <1>1, <1>6, <2>2, <4>1, ChangeIs
    <3> QED BY <1>3, <3>3, <3>4, <3>5
  <2>8. CASE J.at = "forward"
    <3>1. Phase = IF J.n >= p + 3 THEN "done" ELSE "changing"
      BY <1>3, <1>5, <1>9, <2>1, <2>8 DEF PhaseAt
    <3>2. Phase' = IF J.n + 1 >= p1 + 3 THEN "done" ELSE "changing"
      BY <1>3, <1>8, <2>1, <2>3, <2>8 DEF PhaseAt
    <3>3. CASE J.n = p + 2
      <4>1. Phase = "changing" /\ Phase' = "done" /\ d1 = d
        BY <2>1, <2>4, <3>1, <3>2, <3>3
      <4>2. Core(d) = Meant([profile |-> Prof(J), disk |-> J.image.disk], Core(J.safety))
        BY <1>1, <1>2, <1>9, <2>8, <3>3, Meaning
      <4>3. Goal = [profile |-> Prof(J), disk |-> J.image.disk] /\ Old = Core(J.safety)
        BY <1>5, <4>1
      <4> QED BY <1>1, <2>2, <4>1, <4>2, <4>3, FinishIs
    <3>4. CASE J.n < p + 2
      <4>1. Phase = "changing" /\ Phase' = "changing"
        BY <1>3, <2>4, <3>1, <3>2, <3>4
      <4> QED BY <1>1, <1>6, <2>2, <4>1, ChangeIs
    <3>5. CASE J.n > p + 2
      <4>1. Phase = "done" /\ Phase' = "done" /\ d1 = d
        BY <1>3, <2>1, <2>4, <3>1, <3>2, <3>5
      <4> QED BY <1>1, <2>2, <4>1
    <3> QED BY <1>3, <3>3, <3>4, <3>5
  <2> QED BY <1>3, <2>7, <2>8
<1>13. CASE TurnsBack(J, K, d)
  <2>1. /\ J.at = "forward" /\ J.n > 2 /\ J.n < p + 3
        /\ K.at = "undo" /\ K.n = 1 /\ K.image = J.image /\ K.safety = J.safety
    BY <1>9, <1>13 DEF TurnsBack
  <2>2. PICK p1 \in 5..14 : p1 = Probe(K, d1.tls)
    BY DEF Probe
  <2>3. Phase = "changing"
    BY <1>3, <1>5, <1>9, <2>1 DEF PhaseAt
  <2>4. Phase' = "undoing"
    BY <1>8, <2>1, <2>2 DEF PhaseAt
  <2>5. UNCHANGED <<Goal, Old>>
    BY <1>11, <2>1
  <2> QED BY <1>1, <1>6, <2>3, <2>4, <2>5, GiveUpIs
<1> QED BY <1>2, <1>7, <1>10, <1>12, <1>13 DEF JobShape

\* Requests that go on, and requests that end.
LEMMA WentTo ==
  ASSUME IInv, NEW r \in Requests, NEW at, Goto(r, at)
  PROVE  /\ rq'[r].at = at /\ \A s \in Requests \ {r} : rq'[s] = rq[s]
         /\ rq[r].at \in CopySteps =>
              rq'[r].copy = rq[r].copy /\ rq'[r].before = rq[r].before
<1>1. PICK q : q = rq[r]
  OBVIOUS
<1>2. rq' = [rq EXCEPT ![r] = [q EXCEPT !.at = at]] /\ rq \in [Requests -> RequestStates] /\ q \in RequestStates
  BY <1>1 DEF Goto, IInv, TypeOK
<1>3. rq'[r] = [q EXCEPT !.at = at] /\ \A s \in Requests \ {r} : rq'[s] = rq[s]
  BY <1>2
<1>4. [q EXCEPT !.at = at].at = at
  BY <1>2 DEF RequestStates
<1>5. q.at \in CopySteps =>
        q \in [at : CopySteps, copy : Copies, before : Disks, safety : 1..MaxCopies]
  BY <1>2, RequestAt
<1> QED BY <1>1, <1>3, <1>4, <1>5

LEMMA LeftOff ==
  ASSUME IInv, NEW r \in Requests, Leave(r)
  PROVE  rq'[r].at = "idle" /\ \A s \in Requests \ {r} : rq'[s] = rq[s]
<1>1. rq' = [rq EXCEPT ![r] = NoRequest] /\ rq \in [Requests -> RequestStates]
  BY DEF Leave, IInv, TypeOK
<1> QED BY <1>1 DEF NoRequest

\* Uploads, their verification and the confirmation restore nothing yet.
LEMMA Aside ==
  ASSUME IInv, IInv', UNCHANGED <<disk, job>>, NEW r \in Requests, ~CopyUnderWay(r),
         \A s \in Requests \ {r} : rq'[s] = rq[s],
         rq'[r] = rq[r] \/ rq'[r].at \in Verifying \cup {"promote", "start"}
  PROVE  UNCHANGED <<Phase, Goal, Old, Core(disk)>>
<1>1. ~CopyUnderWay(r)'
  BY DEF CopyUnderWay
<1>2. \A s \in Requests : (CopyUnderWay(s)' <=> CopyUnderWay(s)) /\ (CopyUnderWay(s) => rq'[s] = rq[s])
  BY <1>1 DEF CopyUnderWay
<1>3. Core(disk)' = Core(disk) /\ \A j \in Jobs : Running(j)' <=> Running(j)
  BY DEF Running
<1> QED BY <1>2, <1>3, Unmoved

LEMMA AsideMoves ==
  ASSUME IInv, NEW r \in Requests,
         Upload(r) \/ (\E p \in Profiles : Confirm(r, p)) \/ VerifyRoute(r) \/ Promote(r)
  PROVE  /\ UNCHANGED <<disk, job, copies>> /\ ~CopyUnderWay(r)
         /\ \A s \in Requests \ {r} : rq'[s] = rq[s]
         /\ rq'[r] = rq[r] \/ rq'[r].at \in Verifying \cup {"promote", "start"}
<1>1. rq \in [Requests -> RequestStates]
  BY DEF IInv, TypeOK
<1>2. CASE Upload(r)
  <2>1. PICK p : rq' = [rq EXCEPT ![r] = [at |-> "uploaded", profile |-> p]]
    BY <1>2 DEF Upload
  <2>2. rq'[r].at = "uploaded" /\ \A s \in Requests \ {r} : rq'[s] = rq[s]
    BY <1>1, <2>1
  <2>3. rq[r].at = "idle" /\ UNCHANGED <<disk, job, copies>>
    BY <1>2 DEF Upload, still
  <2> QED BY <2>2, <2>3 DEF CopyUnderWay, Verifying
<1>3. CASE VerifyRead(r)
  <2>1. (Goto(r, "read") \/ Leave(r)) /\ rq[r].at = "uploaded" /\ UNCHANGED <<disk, job, copies>>
    BY <1>3 DEF VerifyRead, still
  <2> QED BY <2>1, WentTo, LeftOff DEF CopyUnderWay, Verifying
<1>4. CASE VerifyKeep(r)
  <2>1. rq[r].at = "read" /\ UNCHANGED <<disk, job, copies>>
    BY <1>4 DEF VerifyKeep, still
  <2>2. CASE Leave(r)
    BY <2>1, <2>2, LeftOff DEF CopyUnderWay, Verifying
  <2>3. CASE ~Leave(r)
    <3>1. PICK p, a : rq' = [rq EXCEPT ![r] = [at |-> "kept", profile |-> p, sha |-> a]]
      BY <1>4, <2>3 DEF VerifyKeep
    <3>2. rq'[r].at = "kept" /\ \A s \in Requests \ {r} : rq'[s] = rq[s]
      BY <1>1, <3>1
    <3> QED BY <2>1, <3>2 DEF CopyUnderWay, Verifying
  <2> QED BY <2>2, <2>3
<1>5. CASE SaveVerified(r)
  <2>1. Leave(r) /\ rq[r].at = "kept" /\ UNCHANGED <<disk, job, copies>>
    BY <1>5 DEF SaveVerified, still
  <2> QED BY <2>1, LeftOff DEF CopyUnderWay, Verifying
<1>6. CASE \E p \in Profiles : Confirm(r, p)
  <2>1. rq[r].at = "idle" /\ UNCHANGED <<disk, job, copies>>
    BY <1>6 DEF Confirm, still
  <2>2. CASE UNCHANGED rq
    BY <2>1, <2>2 DEF CopyUnderWay, Verifying
  <2>3. CASE ~UNCHANGED rq
    <3>1. PICK at \in {"start", "promote"} : rq' = [rq EXCEPT ![r] = [at |-> at]]
      BY <1>6, <2>3 DEF Confirm
    <3>2. rq'[r].at = at /\ \A s \in Requests \ {r} : rq'[s] = rq[s]
      BY <1>1, <3>1
    <3> QED BY <2>1, <3>2 DEF CopyUnderWay, Verifying
  <2> QED BY <2>2, <2>3
<1>7. CASE Promote(r)
  <2>1. (Goto(r, "start") \/ Leave(r)) /\ rq[r].at = "promote" /\ UNCHANGED <<disk, job, copies>>
    BY <1>7 DEF Promote, still
  <2> QED BY <2>1, WentTo, LeftOff DEF CopyUnderWay, Verifying
<1> QED BY <1>2, <1>3, <1>4, <1>5, <1>6, <1>7 DEF VerifyRoute

LEMMA AsideStep ==
  ASSUME IInv, IInv', NEW r \in Requests,
         Upload(r) \/ (\E p \in Profiles : Confirm(r, p)) \/ VerifyRoute(r) \/ Promote(r)
  PROVE  UNCHANGED <<Phase, Goal, Old, Core(disk)>>
BY AsideMoves, Aside

\* A restore begins.
LEMMA StartChange ==
  ASSUME IInv, IInv', NEW r \in Requests, StartJob(r)
  PROVE  Change!Next \/ UNCHANGED <<Phase, Goal, Old, Core(disk)>>
<1>1. /\ rq[r].at = "start" /\ Leave(r) /\ UNCHANGED disk /\ Core(disk)' = Core(disk)
      /\ rq'[r].at = "idle" /\ \A s \in Requests \ {r} : rq'[s] = rq[s]
  BY LeftOff DEF StartJob
<1>2. CASE UNCHANGED job
  BY <1>1, <1>2, Aside DEF CopyUnderWay, Verifying
<1>3. CASE ~UNCHANGED job
  <2>1. PICK j \in Jobs : job' = [job EXCEPT ![j] = [at |-> "forward", n |-> 1, image |-> None, safety |-> None,
                                                  before |-> 0, deferred |-> FALSE, beside |-> FALSE]]
    BY <1>3 DEF StartJob
  <2>2. job \in [Jobs -> JobStates]
    BY DEF IInv, TypeOK
  <2>3. job'[j].at = "forward" /\ job'[j].n = 1
    BY <2>1, <2>2
  <2>4. Running(j)'
    BY <2>3 DEF Running
  <2>5. Busy(r)
    BY <1>1 DEF Busy, Verifying
  <2>6. (\A i \in Jobs : ~Running(i)) /\ \A s \in Requests : ~CopyUnderWay(s)
    BY <1>1, <2>5 DEF IInv, Orderly, Alone, Busy, CopyUnderWay
  <2>7. MapsIdle /\ MapsJob'
    BY Mapped
  <2>8. Phase = "idle" /\ Goal = None /\ Old = None
    BY <2>6, <2>7 DEF MapsIdle
  <2>9. PhaseAt(job'[j], disk'.tls) = "checking"
    BY <2>3 DEF PhaseAt
  <2>10. Phase' = "checking" /\ Goal' = None /\ Old' = None
    BY <2>4, <2>7, <2>9 DEF MapsJob
  <2> QED BY <1>1, <2>8, <2>10, BeginIs
<1> QED BY <1>2, <1>3

LEMMA ChooseChange ==
  ASSUME IInv, IInv', ~Overlap, NEW r \in Requests, NEW c \in copies, ChooseCopy(r, c)
  PROVE  Change!Next
<1>1. UNCHANGED disk /\ Core(disk)' = Core(disk) /\ rq' = [rq EXCEPT ![r] = [at |-> "chosen", copy |-> c]]
  BY DEF ChooseCopy
<1>2. rq'[r].at = "chosen" /\ CopyUnderWay(r)'
  BY <1>1 DEF IInv, TypeOK, CopyUnderWay, Verifying
<1>3. (\A i \in Jobs : ~Running(i)) /\ \A s \in Requests : ~CopyUnderWay(s)
  BY DEF ChooseCopy, MayStart, Restoring, CopyUnderWay
<1>4. MapsIdle /\ MapsCopy'
  BY Mapped
<1>5. Phase = "idle" /\ Goal = None /\ Old = None
  BY <1>3, <1>4 DEF MapsIdle
<1>6. Phase' = CopyPhase(r)' /\ Goal' = None /\ Old' = None
  BY <1>2, <1>4 DEF MapsCopy
<1>7. CopyPhase(r)' = "checking"
  BY <1>2 DEF CopyPhase
<1> QED BY <1>1, <1>5, <1>6, <1>7, BeginIs

\* A copy that is restored: where the request is, and where it ends.
LEMMA CopyAt ==
  ASSUME IInv, NEW r \in Requests, CopyUnderWay(r), NEW q, q = rq[r]
  PROVE  /\ (\A j \in Jobs : ~Running(j)) /\ (\A s \in Requests \ {r} : rq[s].at \in Verifying)
         /\ q.at = "chosen" => q \in [at : {"chosen"}, copy : Copies]
         /\ q.at # "chosen" => q \in [at : CopySteps, copy : Copies, before : Disks, safety : 1..MaxCopies]
         /\ Phase = CopyPhase(r)
         /\ Goal = IF q.at = "chosen" THEN None
                   ELSE [profile |-> "sqlite", disk |-> [q.before EXCEPT !.db = q.copy.db]]
         /\ Old = IF q.at = "chosen" THEN None ELSE Core(q.before)
<1>1. Busy(r) /\ q \in RequestStates
  BY DEF CopyUnderWay, Busy, Verifying, IInv, TypeOK
<1>2. (\A j \in Jobs : ~Running(j)) /\ (\A s \in Requests \ {r} : rq[s].at \in Verifying)
  BY <1>1 DEF IInv, Orderly, Alone, Busy
<1>3. q.at \in {"chosen"} \cup CopySteps
  BY <1>1, RequestAt DEF CopyUnderWay, Verifying
<1>4. MapsCopy
  BY Mapped
<1> QED BY <1>1, <1>2, <1>3, <1>4, RequestAt DEF MapsCopy

LEMMA CopyNext ==
  ASSUME IInv', NEW r \in Requests, CopyUnderWay(r)', NEW q, q = rq'[r], q.at # "chosen"
  PROVE  /\ Phase' = CopyPhase(r)'
         /\ Goal' = [profile |-> "sqlite", disk |-> [q.before EXCEPT !.db = q.copy.db]]
         /\ Old' = Core(q.before)
<1>1. MapsCopy'
  BY Mapped
<1> QED BY <1>1 DEF MapsCopy

LEMMA CopyEnds ==
  ASSUME IInv, IInv', NEW r \in Requests, CopyUnderWay(r), Leave(r), UNCHANGED job
  PROVE  Phase' = "idle" /\ Goal' = None /\ Old' = None
<1>1. (\A j \in Jobs : ~Running(j)) /\ (\A s \in Requests \ {r} : rq[s].at \in Verifying)
  BY CopyAt
<1>2. (\A j \in Jobs : ~Running(j)') /\ \A s \in Requests : ~CopyUnderWay(s)'
  BY <1>1, LeftOff DEF Running, CopyUnderWay, Verifying
<1>3. MapsIdle'
  BY Mapped
<1> QED BY <1>2, <1>3 DEF MapsIdle

LEMMA SafetyChange ==
  ASSUME IInv, IInv', NEW r \in Requests, SafetyCopy(r)
  PROVE  Change!Next
<1>1. PICK q, k : q = rq[r] /\ k = rq'[r]
  OBVIOUS
<1>2. q.at = "chosen" /\ CopyUnderWay(r) /\ UNCHANGED <<job, disk>>
  BY <1>1 DEF SafetyCopy, CopyUnderWay, Verifying, here
<1>3. Phase = CopyPhase(r) /\ q.copy \in Copies
  BY <1>1, <1>2, CopyAt
<1>4. Phase = "checking"
  BY <1>1, <1>2, <1>3 DEF CopyPhase
<1>5. PICK n : rq' = [rq EXCEPT ![r] = [at |-> "saved", copy |-> q.copy, before |-> disk, safety |-> n]]
  BY <1>1 DEF SafetyCopy
<1>6. k.at = "saved" /\ k.copy = q.copy /\ k.before = disk
  BY <1>1, <1>5 DEF IInv, TypeOK
<1>7. CopyUnderWay(r)'
  BY <1>1, <1>6 DEF CopyUnderWay, Verifying
<1>8. /\ Phase' = CopyPhase(r)' /\ Old' = Core(disk)
      /\ Goal' = [profile |-> "sqlite", disk |-> [disk EXCEPT !.db = q.copy.db]]
  BY <1>1, <1>6, <1>7, CopyNext
<1>9. Phase' = "changing"
  BY <1>1, <1>6, <1>8 DEF CopyPhase
<1>10. PICK i \in Disks : i = [disk EXCEPT !.db = q.copy.db]
  <2>1. disk \in Disks /\ q.copy.db \in Databases
    BY <1>3 DEF Copies, IInv, TypeOK
  <2> QED BY <2>1, DiskFields
<1>11. Goal' \in Wishes
  BY <1>8, <1>10 DEF Wishes
<1>12. Core(disk)' \in Cores
  BY CoreType DEF IInv, TypeOK
<1> QED BY <1>4, <1>8, <1>9, <1>11, <1>12, SaveIs

\* The chosen copy is laid over the database and made ready, or it is not.
LEMMA StageChange ==
  ASSUME IInv, IInv', NEW r \in Requests, CopyOver(r) \/ InitDb(r)
  PROVE  Change!Next
<1>1. PICK q, k : q = rq[r] /\ k = rq'[r]
  OBVIOUS
<1>2. q.at \in {"saved", "copied"} /\ q.at \in CopySteps /\ CopyUnderWay(r)
  BY <1>1 DEF CopyOver, InitDb, CopyUnderWay, Verifying, CopySteps
<1>3. Phase = CopyPhase(r) /\ Old = Core(q.before)
      /\ Goal = [profile |-> "sqlite", disk |-> [q.before EXCEPT !.db = q.copy.db]]
  BY <1>1, <1>2, CopyAt
<1>4. Phase = "changing"
  BY <1>1, <1>2, <1>3 DEF CopyPhase
<1>5. PICK at \in {"copied", "staged", "unstaged"} : Goto(r, at)
  BY DEF CopyOver, InitDb
<1>6. k.at = at /\ k.copy = q.copy /\ k.before = q.before
  BY <1>1, <1>2, <1>5, WentTo
<1>7. CopyUnderWay(r)'
  BY <1>1, <1>5, <1>6 DEF CopyUnderWay, Verifying
<1>8. Phase' = CopyPhase(r)' /\ UNCHANGED <<Goal, Old>>
  BY <1>1, <1>3, <1>6, <1>7, CopyNext
<1>9. Phase' = IF at = "unstaged" THEN "undoing" ELSE "changing"
  BY <1>1, <1>5, <1>6, <1>8 DEF CopyPhase
<1>10. Core(disk)' \in Cores
  BY CoreType DEF IInv, TypeOK
<1> QED BY <1>4, <1>8, <1>9, <1>10, ChangeIs, GiveUpIs

LEMMA ApplyChange ==
  ASSUME IInv, IInv', NEW r \in Requests, ApplyCopy(r)
  PROVE  Change!Next
<1>1. PICK q, k : q = rq[r] /\ k = rq'[r]
  OBVIOUS
<1>2. q.at = "staged" /\ CopyUnderWay(r)
  BY <1>1 DEF ApplyCopy, CopyUnderWay, Verifying
<1>3. Phase = CopyPhase(r) /\ q.copy \in Copies /\ q.before \in Disks /\ Old = Core(q.before)
      /\ Goal = [profile |-> "sqlite", disk |-> [q.before EXCEPT !.db = q.copy.db]]
  BY <1>1, <1>2, CopyAt
<1>4. Phase = "changing"
  BY <1>1, <1>2, <1>3 DEF CopyPhase
<1>5. SameBase(disk.db, q.copy.db) /\ SameRest(disk, q.before)
  BY <1>1, <1>2 DEF IInv, Orderly, Copying, CopySteps
<1>6. ASSUME NEW at \in {"restored", "refused"}, Goto(r, at)
      PROVE  Phase' = CopyPhase(r)' /\ UNCHANGED <<Goal, Old>> /\ rq'[r].at = at
  <2>1. k.at = at /\ k.copy = q.copy /\ k.before = q.before
    BY <1>1, <1>2, <1>6, WentTo DEF CopySteps
  <2>2. CopyUnderWay(r)'
    BY <1>1, <2>1 DEF CopyUnderWay, Verifying
  <2> QED BY <1>1, <1>3, <2>1, <2>2, CopyNext
<1>7. CASE Goto(r, "restored") /\ ApplyRestored
  <2>1. Phase' = "done"
    BY <1>6, <1>7 DEF CopyPhase
  <2>2. Core(disk)' = Core(disk)
    BY <1>7 DEF ApplyRestored, Core, IInv, TypeOK, Disks
  <2>3. PICK d : d = [q.before EXCEPT !.db = q.copy.db]
    OBVIOUS
  <2>4. d.db = q.copy.db
    BY <1>3, <2>3 DEF Disks
  <2>5. /\ disk.db.clients.from = d.db.clients.from /\ disk.db.settings = d.db.settings
        /\ disk.db.host = d.db.host /\ disk.db.hidden = d.db.hidden
        /\ disk.env = q.before.env /\ disk.tls = q.before.tls /\ disk.site = q.before.site /\ disk.awg = q.before.awg
    BY <1>5, <2>4 DEF SameBase, SameRest
  <2>6. Meant([profile |-> "sqlite", disk |-> d], Core(q.before)) = Core(disk)
    BY <2>5 DEF Meant, Core
  <2>7. UNCHANGED <<Goal, Old>>
    BY <1>6, <1>7
  <2> QED BY <1>3, <1>4, <2>1, <2>2, <2>3, <2>6, <2>7, FinishIs
<1>8. CASE Goto(r, "refused")
  <2>1. Phase' = "undoing" /\ UNCHANGED <<Goal, Old>>
    BY <1>6, <1>8 DEF CopyPhase
  <2>2. Core(disk)' \in Cores
    BY CoreType DEF IInv, TypeOK
  <2> QED BY <1>4, <2>1, <2>2, GiveUpIs
<1> QED BY <1>7, <1>8 DEF ApplyCopy

LEMMA UndoChange ==
  ASSUME IInv, IInv', NEW r \in Requests, UndoCopy(r) \/ Unstage(r)
  PROVE  Change!Next
<1>1. PICK q, k : q = rq[r] /\ k = rq'[r]
  OBVIOUS
<1>2. q.at \in {"refused", "unstaged"} /\ CopyUnderWay(r) /\ UNCHANGED job
  BY <1>1 DEF UndoCopy, Unstage, CopyUnderWay, Verifying, here
<1>3. Phase = CopyPhase(r) /\ q.copy \in Copies /\ q.before \in Disks /\ Old = Core(q.before)
      /\ Goal = [profile |-> "sqlite", disk |-> [q.before EXCEPT !.db = q.copy.db]]
  BY <1>1, <1>2, CopyAt
<1>4. Phase = "undoing"
  BY <1>1, <1>2, <1>3 DEF CopyPhase
<1>5. (\A c \in copies : c.n = q.safety => c.db = q.before.db) /\ SameRest(disk, q.before)
  BY <1>1, <1>2 DEF IInv, Orderly, Copying, CopySteps
<1>6. CASE Leave(r) /\ UNCHANGED disk
  BY <1>2, <1>4, <1>6, CopyEnds, StuckIs
<1>7. CASE ~(Leave(r) /\ UNCHANGED disk)
  <2>1. PICK c \in copies : c.n = q.safety /\ disk' = [disk EXCEPT !.db = c.db]
    BY <1>1, <1>7 DEF UndoCopy, Unstage
  <2>2. PICK at \in {"undone", "kept back"} : Goto(r, at)
    BY <1>7 DEF UndoCopy, Unstage
  <2>3. k.at = at /\ k.copy = q.copy /\ k.before = q.before
    BY <1>1, <1>2, <2>2, WentTo DEF CopySteps
  <2>4. CopyUnderWay(r)'
    BY <1>1, <2>2, <2>3 DEF CopyUnderWay, Verifying
  <2>5. Phase' = CopyPhase(r)' /\ UNCHANGED <<Goal, Old>>
    BY <1>1, <1>3, <2>3, <2>4, CopyNext
  <2>6. Phase' = "undone"
    BY <1>1, <2>2, <2>3, <2>5 DEF CopyPhase
  <2>7. disk' = [disk EXCEPT !.db = q.before.db]
    BY <1>5, <2>1
  <2>8. Core(disk)' = Core(q.before)
    BY <1>5, <2>7 DEF Core, SameRest, IInv, TypeOK, Disks
  <2> QED BY <1>3, <1>4, <2>5, <2>6, <2>8, UndoneIs
<1> QED BY <1>6, <1>7

LEMMA ReapplyChange ==
  ASSUME IInv, IInv', NEW r \in Requests, ReapplyOld(r)
  PROVE  Change!Next \/ UNCHANGED <<Phase, Goal, Old, Core(disk)>>
<1>1. PICK q, k : q = rq[r] /\ k = rq'[r]
  OBVIOUS
<1>2. q.at = "undone" /\ CopyUnderWay(r) /\ UNCHANGED job
  BY <1>1 DEF ReapplyOld, CopyUnderWay, Verifying, here
<1>3. Phase = CopyPhase(r) /\ q.copy \in Copies /\ q.before \in Disks /\ Old = Core(q.before)
      /\ Goal = [profile |-> "sqlite", disk |-> [q.before EXCEPT !.db = q.copy.db]]
  BY <1>1, <1>2, CopyAt
<1>4. Phase = "undone"
  BY <1>1, <1>2, <1>3 DEF CopyPhase
<1>5. CASE Leave(r) /\ UNCHANGED disk
  <2>1. Core(disk)' = Core(disk)
    BY <1>5
  <2> QED BY <1>2, <1>4, <1>5, <2>1, CopyEnds, ReportIs
<1>6. CASE Goto(r, "returned") /\ ApplyRestored
  <2>1. k.at = "returned" /\ k.copy = q.copy /\ k.before = q.before
    BY <1>1, <1>2, <1>6, WentTo DEF CopySteps
  <2>2. CopyUnderWay(r)'
    BY <1>1, <2>1 DEF CopyUnderWay, Verifying
  <2>3. Phase' = CopyPhase(r)' /\ UNCHANGED <<Goal, Old>>
    BY <1>1, <1>3, <2>1, <2>2, CopyNext
  <2>4. Phase' = "undone"
    BY <1>1, <2>1, <2>3 DEF CopyPhase
  <2>5. Core(disk)' = Core(disk)
    BY <1>6 DEF ApplyRestored, Core, IInv, TypeOK, Disks
  <2> QED BY <1>4, <2>3, <2>4, <2>5
<1> QED BY <1>5, <1>6 DEF ReapplyOld

LEMMA AnswerChange ==
  ASSUME IInv, IInv', NEW r \in Requests, Answer(r)
  PROVE  Change!Next
<1>1. rq[r].at \in {"restored", "returned", "kept back"} /\ CopyUnderWay(r) /\ UNCHANGED <<disk, job>> /\ Leave(r)
  BY DEF Answer, CopyUnderWay, Verifying
<1>2. Phase = CopyPhase(r)
  BY <1>1, CopyAt
<1>3. Phase \in {"done", "undone"}
  BY <1>1, <1>2 DEF CopyPhase
<1>4. Core(disk)' = Core(disk)
  BY <1>1
<1> QED BY <1>1, <1>3, <1>4, CopyEnds, ReportIs

LEMMA CopyChange ==
  ASSUME IInv, IInv', NEW r \in Requests, CopyStep(r)
  PROVE  Change!Next \/ UNCHANGED <<Phase, Goal, Old, Core(disk)>>
BY SafetyChange, StageChange, ApplyChange, UndoChange, ReapplyChange, AnswerChange DEF CopyStep

\* The panel's other changes do not touch what a restore is about; a restart of
\* the panel may end the request that restores a copy.
LEMMA MeanwhileChange ==
  ASSUME IInv, IInv', Meanwhile \/ MakeCopy \/ DeleteOldCopies \/ UNCHANGED vars
  PROVE  Change!Next \/ UNCHANGED <<Phase, Goal, Old, Core(disk)>>
<1>1. disk \in Disks /\ job \in [Jobs -> JobStates]
  BY DEF IInv, TypeOK
<1>2. ASSUME UNCHANGED <<rq, job>>, Core(disk)' = Core(disk)
      PROVE  UNCHANGED <<Phase, Goal, Old, Core(disk)>>
  <2>1. \A j \in Jobs : Running(j)' <=> Running(j)
    BY <1>2 DEF Running
  <2>2. \A r \in Requests : CopyUnderWay(r)' <=> CopyUnderWay(r)
    BY <1>2 DEF CopyUnderWay
  <2> QED BY <1>2, <2>1, <2>2, Unmoved
<1>3. CASE Edit
  <2>1. UNCHANGED <<rq, job>> /\ disk' = [disk EXCEPT !.db.clients.rev = disk.db.clients.rev + 1]
    BY <1>3 DEF Edit, uploads
  <2>2. PICK c : c = [disk.db.clients EXCEPT !.rev = disk.db.clients.rev + 1]
    OBVIOUS
  <2>3. PICK b : b = [disk.db EXCEPT !.clients = c]
    OBVIOUS
  <2>4. c.from = disk.db.clients.from
    BY <1>1, <2>2 DEF Disks, Databases, Contents
  <2>5. /\ b.clients.from = disk.db.clients.from /\ b.settings = disk.db.settings
        /\ b.host = disk.db.host /\ b.hidden = disk.db.hidden
    BY <1>1, <2>3, <2>4 DEF Disks, Databases
  <2>6. disk' = [disk EXCEPT !.db = b]
    BY <1>1, <2>1, <2>2, <2>3
  <2>7. Core(disk)' = Core(disk)
    BY <1>1, <2>5, <2>6 DEF Core, Disks
  <2> QED BY <1>2, <2>1, <2>7
<1>4. CASE BeginApply \/ MakeCopy \/ DeleteOldCopies \/ UNCHANGED vars
  <2>1. UNCHANGED <<rq, job, disk>>
    BY <1>4 DEF BeginApply, MakeCopy, DeleteOldCopies, vars, uploads
  <2> QED BY <1>2, <2>1
<1>5. CASE EndApply
  <2>1. /\ disk' = [disk EXCEPT !.run = applying] /\ UNCHANGED rq
        /\ job' = [j \in Jobs |-> IF Running(j) THEN [job[j] EXCEPT !.beside = TRUE] ELSE job[j]]
    BY <1>5 DEF EndApply, uploads
  <2>2. Core(disk)' = Core(disk)
    BY <1>1, <2>1 DEF Core, Disks
  <2>3. ASSUME NEW j \in Jobs
        PROVE  /\ Running(j)' <=> Running(j)
               /\ Running(j) => /\ job'[j].at = job[j].at /\ job'[j].n = job[j].n
                                /\ job'[j].image = job[j].image /\ job'[j].safety = job[j].safety
    <3>1. CASE Running(j)
      <4>1. PICK J : J = job[j]
        OBVIOUS
      <4>2. J \in Tasks /\ job'[j] = [J EXCEPT !.beside = TRUE]
        BY <2>1, <3>1, <4>1, Alongside
      <4>3. /\ [J EXCEPT !.beside = TRUE].at = J.at /\ [J EXCEPT !.beside = TRUE].n = J.n
            /\ [J EXCEPT !.beside = TRUE].image = J.image /\ [J EXCEPT !.beside = TRUE].safety = J.safety
        BY <4>2 DEF Tasks
      <4> QED BY <3>1, <4>1, <4>2, <4>3 DEF Running
    <3>2. CASE ~Running(j)
      BY <2>1, <3>2 DEF Running
    <3> QED BY <3>1, <3>2
  <2>4. \A r \in Requests : CopyUnderWay(r)' <=> CopyUnderWay(r)
    BY <2>1 DEF CopyUnderWay
  <2> QED BY <2>1, <2>2, <2>3, <2>4, Unmoved
<1>6. CASE PanelRestarts
  <2>1. UNCHANGED <<disk, job>> /\ Core(disk)' = Core(disk) /\ rq' \in {rq, [r \in Requests |-> NoRequest]}
    BY <1>6 DEF PanelRestarts
  <2>2. CASE UNCHANGED rq
    BY <1>2, <2>1, <2>2
  <2>3. CASE rq' = [r \in Requests |-> NoRequest]
    <3>1. \A r \in Requests : ~CopyUnderWay(r)'
      BY <2>3, NotStarted DEF CopyUnderWay, Verifying
    <3>2. \A j \in Jobs : Running(j)' <=> Running(j)
      BY <2>1 DEF Running
    <3>3. CASE \E r \in Requests : CopyUnderWay(r)
      <4>1. PICK r \in Requests : CopyUnderWay(r)
        BY <3>3
      <4>2. (\A j \in Jobs : ~Running(j)) /\ Phase = CopyPhase(r)
        BY <4>1, CopyAt
      <4>3. rq[r].at \in {"chosen"} \cup CopySteps
        BY <4>1, RequestAt DEF CopyUnderWay, Verifying, IInv, TypeOK
      <4>4. Phase # "idle"
        BY <4>2, <4>3 DEF CopyPhase, CopySteps
      <4>5. MapsIdle'
        BY Mapped
      <4>6. Phase' = "idle" /\ Goal' = None /\ Old' = None
        BY <3>1, <3>2, <4>2, <4>5 DEF MapsIdle
      <4> QED BY <2>1, <4>4, <4>6, DieIs
    <3>4. CASE \A r \in Requests : ~CopyUnderWay(r)
      BY <2>1, <3>1, <3>2, <3>4, Unmoved
    <3> QED BY <3>3, <3>4
  <2> QED BY <2>1, <2>2, <2>3
<1> QED BY <1>3, <1>4, <1>5, <1>6 DEF Meanwhile

LEMMA NextChange ==
  ASSUME IInv, IInv', Calm, ~Overlap, ~Brings, [Next]_vars
  PROVE  Change!Next \/ UNCHANGED <<Phase, Goal, Old, Core(disk)>>
<1>1. CASE Meanwhile \/ MakeCopy \/ DeleteOldCopies \/ UNCHANGED vars
  BY <1>1, MeanwhileChange
<1>2. ASSUME NEW j \in Jobs, JobStep(j) \/ Kill(j)
      PROVE  Change!Next \/ UNCHANGED <<Phase, Goal, Old, Core(disk)>>
  BY <1>2, JobChange
<1>3. ASSUME NEW r \in Requests,
             \/ Upload(r) \/ (\E p \in Profiles : Confirm(r, p)) \/ (\E c \in copies : ChooseCopy(r, c))
             \/ VerifyRoute(r) \/ RestoreRoute(r) \/ CopyStep(r)
      PROVE  Change!Next \/ UNCHANGED <<Phase, Goal, Old, Core(disk)>>
  <2>1. CASE Upload(r) \/ (\E p \in Profiles : Confirm(r, p)) \/ VerifyRoute(r) \/ Promote(r)
    BY <2>1, AsideStep
  <2>2. CASE StartJob(r)
    BY <2>2, StartChange
  <2>3. CASE \E c \in copies : ChooseCopy(r, c)
    BY <2>3, ChooseChange
  <2>4. CASE CopyStep(r)
    BY <2>4, CopyChange
  <2> QED BY <1>3, <2>1, <2>2, <2>3, <2>4 DEF RestoreRoute
<1> QED BY <1>1, <1>2, <1>3 DEF Next

-----------------------------------------------------------------------------
\* The server stays whole until a restore has begun to change it.
LEMMA CalmInit == Init => Calm
<1> SUFFICES ASSUME Init PROVE Calm
  OBVIOUS
<1>1. IInv
  BY IInvInit
<1>2. \A j \in Jobs : ~Running(j)
  BY DEF Init, NoJob, Running
<1>3. PICK t, b : b = [clients |-> [from |-> Own, rev |-> 0], settings |-> Own, host |-> Own, hidden |-> FALSE]
                  /\ disk = [db |-> b, env |-> [machine |-> Own, rest |-> Own], tls |-> t, awg |-> None,
                             site |-> t, run |-> Of(b)]
  BY DEF Init
<1>4. Of(b) # None
  <2>1. b \in Databases
    BY <1>1, <1>3, DiskFields DEF IInv, TypeOK
  <2> QED BY <2>1, OfRuns
<1>5. Settled(disk) /\ ~disk.db.hidden
  BY <1>3, <1>4 DEF Settled
<1>6. copies = {} /\ \A r \in Requests : rq[r].at \notin {"chosen", "saved"}
  BY NotStarted DEF Init
<1> QED BY <1>2, <1>5, <1>6 DEF Calm, Quiet

\* What the requests and the panel do to the server before.
LEMMA QuietStays ==
  ASSUME IInv, IInv', Quiet(disk, copies, rq),
         \/ disk' = disk
         \/ \E x \in Runs \ {None} : disk' = [disk EXCEPT !.run = x]
         \/ \E x \in Databases : disk' = [disk EXCEPT !.db = x] /\ ~x.hidden,
         \A c \in copies' \ copies : ~c.db.hidden,
         \A r \in Requests : \/ rq'[r] = rq[r]
                             \/ rq'[r].at \in {"chosen", "saved"} =>
                                  \/ rq'[r].copy \in copies
                                  \/ rq[r].at = "chosen" /\ rq'[r].copy = rq[r].copy
  PROVE  Quiet(disk, copies, rq)'
<1>1. disk \in Disks
  BY DEF IInv, TypeOK
<1>2. disk'.run # None /\ disk'.site = disk'.tls /\ ~disk'.db.hidden
  BY <1>1 DEF Quiet, Settled, Disks
<1> QED BY <1>2 DEF Quiet, Settled

LEMMA CalmStays ==
  ASSUME IInv, IInv', Calm, UNCHANGED job, Quiet(disk, copies, rq) => Quiet(disk, copies, rq)'
  PROVE  Calm'
BY DEF Calm, Unspoiled, Running

LEMMA CalmMeanwhile ==
  ASSUME IInv, IInv', Calm, Meanwhile \/ MakeCopy \/ DeleteOldCopies \/ UNCHANGED vars,
         \A a \in Archives : ~a.disk.db.hidden
  PROVE  Calm'
<1>1. disk \in Disks /\ job \in [Jobs -> JobStates]
  BY DEF IInv, TypeOK
<1>2. CASE Edit
  <2>1. UNCHANGED <<rq, job, copies>> /\ disk' = [disk EXCEPT !.db.clients.rev = disk.db.clients.rev + 1]
    BY <1>2 DEF Edit, uploads
  <2>2. PICK c : c = [disk.db.clients EXCEPT !.rev = disk.db.clients.rev + 1]
    OBVIOUS
  <2>3. PICK b : b = [disk.db EXCEPT !.clients = c]
    OBVIOUS
  <2>4. disk' = [disk EXCEPT !.db = b]
    BY <1>1, <2>1, <2>2, <2>3
  <2>5. b \in Databases /\ b.hidden = disk.db.hidden
    <3>1. c \in Contents
      BY <1>1, <2>2 DEF Disks, Databases, Contents
    <3> QED BY <1>1, <2>3, <3>1 DEF Disks, Databases
  <2>6. Quiet(disk, copies, rq) => Quiet(disk, copies, rq)'
    BY <2>1, <2>4, <2>5, QuietStays DEF Quiet
  <2> QED BY <2>1, <2>6, CalmStays
<1>3. CASE BeginApply \/ UNCHANGED vars
  <2>1. UNCHANGED <<rq, job, disk, copies>>
    BY <1>3 DEF BeginApply, vars, uploads
  <2> QED BY <2>1, CalmStays
<1>4. CASE EndApply
  <2>1. /\ disk' = [disk EXCEPT !.run = applying] /\ UNCHANGED <<rq, copies>> /\ applying \in Runs \ {None}
        /\ job' = [j \in Jobs |-> IF Running(j) THEN [job[j] EXCEPT !.beside = TRUE] ELSE job[j]]
    BY <1>4 DEF EndApply, uploads, IInv, TypeOK
  <2>2. Quiet(disk, copies, rq) => Quiet(disk, copies, rq)'
    BY <2>1, QuietStays
  <2>3. ASSUME NEW j \in Jobs
        PROVE  /\ job'[j].at = job[j].at /\ (Running(j)' <=> Running(j))
               /\ Running(j) => job'[j].n = job[j].n /\ job'[j].safety = job[j].safety
    <3>1. CASE Running(j)
      <4>1. PICK J : J = job[j]
        OBVIOUS
      <4>2. J \in Tasks /\ job'[j] = [J EXCEPT !.beside = TRUE]
        BY <2>1, <3>1, <4>1, Alongside
      <4>3. /\ [J EXCEPT !.beside = TRUE].at = J.at /\ [J EXCEPT !.beside = TRUE].n = J.n
            /\ [J EXCEPT !.beside = TRUE].safety = J.safety
        BY <4>2 DEF Tasks
      <4> QED BY <3>1, <4>1, <4>2, <4>3 DEF Running
    <3>2. CASE ~Running(j)
      BY <2>1, <3>2 DEF Running
    <3> QED BY <3>1, <3>2
  <2>4. Unspoiled' => Unspoiled
    BY <2>3 DEF Unspoiled, Running
  <2> QED BY <2>2, <2>3, <2>4 DEF Calm
<1>5. CASE PanelRestarts
  <2>1. UNCHANGED <<disk, job, copies>> /\ rq' \in {rq, [r \in Requests |-> NoRequest]}
    BY <1>5 DEF PanelRestarts
  <2>2. \A r \in Requests : rq'[r] = rq[r] \/ rq'[r].at = "idle"
    BY <2>1, NotStarted
  <2>3. Quiet(disk, copies, rq) => Quiet(disk, copies, rq)'
    BY <2>1, <2>2, QuietStays
  <2> QED BY <2>1, <2>3, CalmStays
<1>6. CASE MakeCopy
  <2>1. UNCHANGED <<disk, job, rq>>
    BY <1>6 DEF MakeCopy, uploads
  <2>2. PICK kind, b : NewCopy(kind, b) /\ (b = disk.db \/ \E a \in Archives : b = a.disk.db)
    BY <1>6 DEF MakeCopy
  <2>3. \A c \in copies' \ copies : c.db = b
    BY <2>2 DEF NewCopy
  <2>4. Quiet(disk, copies, rq) => Quiet(disk, copies, rq)'
    BY <2>1, <2>2, <2>3, QuietStays DEF Quiet
  <2> QED BY <2>1, <2>4, CalmStays
<1>7. CASE DeleteOldCopies
  <2>1. UNCHANGED <<disk, job, rq>> /\ copies' \subseteq copies
    BY <1>7 DEF DeleteOldCopies, uploads
  <2>2. Quiet(disk, copies, rq) => Quiet(disk, copies, rq)'
    BY <2>1, QuietStays
  <2> QED BY <2>1, <2>2, CalmStays
<1> QED BY <1>2, <1>3, <1>4, <1>5, <1>6, <1>7 DEF Meanwhile

LEMMA CalmRequest ==
  ASSUME IInv, IInv', Calm, NEW r \in Requests,
         \/ Upload(r) \/ (\E p \in Profiles : Confirm(r, p)) \/ (\E c \in copies : ChooseCopy(r, c))
         \/ VerifyRoute(r) \/ RestoreRoute(r) \/ CopyStep(r)
  PROVE  Calm'
<1>1. disk \in Disks /\ rq \in [Requests -> RequestStates] /\ job \in [Jobs -> JobStates] /\ copies \subseteq Copies
  BY DEF IInv, TypeOK
<1>2. CASE Upload(r) \/ (\E p \in Profiles : Confirm(r, p)) \/ VerifyRoute(r) \/ Promote(r)
  <2>1. /\ UNCHANGED <<disk, job, copies>> /\ \A s \in Requests \ {r} : rq'[s] = rq[s]
        /\ rq'[r] = rq[r] \/ rq'[r].at \in Verifying \cup {"promote", "start"}
    BY <1>2, AsideMoves
  <2>2. Quiet(disk, copies, rq) => Quiet(disk, copies, rq)'
    BY <2>1, QuietStays DEF Verifying
  <2> QED BY <2>1, <2>2, CalmStays
<1>3. CASE StartJob(r)
  <2>1. UNCHANGED <<disk, copies>> /\ rq'[r].at = "idle" /\ \A s \in Requests \ {r} : rq'[s] = rq[s]
    BY <1>3, LeftOff DEF StartJob
  <2>2. Quiet(disk, copies, rq) => Quiet(disk, copies, rq)'
    BY <2>1, QuietStays
  <2>3. CASE UNCHANGED job
    BY <2>2, <2>3, CalmStays
  <2>4. CASE ~UNCHANGED job
    <3>1. PICK j \in Jobs : /\ job[j].at = "idle"
                            /\ job' = [job EXCEPT ![j] = [at |-> "forward", n |-> 1, image |-> None, safety |-> None,
                                                          before |-> 0, deferred |-> FALSE, beside |-> FALSE]]
      BY <1>3, <2>4 DEF StartJob
    <3>2. job'[j].safety = None /\ \A i \in Jobs \ {j} : job'[i] = job[i]
      BY <1>1, <3>1
    <3>3. Unspoiled' => Unspoiled
      BY <3>1, <3>2 DEF Unspoiled
    <3> QED BY <2>2, <3>2, <3>3 DEF Calm, Running
  <2> QED BY <2>3, <2>4
<1>4. CASE \E c \in copies : ChooseCopy(r, c)
  <2>1. PICK c \in copies : rq' = [rq EXCEPT ![r] = [at |-> "chosen", copy |-> c]]
    BY <1>4 DEF ChooseCopy
  <2>2. UNCHANGED <<disk, job, copies>>
    BY <1>4 DEF ChooseCopy, here
  <2>3. rq'[r].copy = c /\ \A s \in Requests \ {r} : rq'[s] = rq[s]
    BY <1>1, <2>1
  <2>4. Quiet(disk, copies, rq) => Quiet(disk, copies, rq)'
    BY <2>2, <2>3, QuietStays
  <2> QED BY <2>2, <2>4, CalmStays
<1>5. CASE SafetyCopy(r)
  <2>1. UNCHANGED <<job, disk>> /\ rq[r].at = "chosen" /\ \A c \in copies' \ copies : c.db = disk.db
    BY <1>5 DEF SafetyCopy, NewCopy, here
  <2>2. PICK q : q = rq[r].copy
    OBVIOUS
  <2>3. PICK n : rq' = [rq EXCEPT ![r] = [at |-> "saved", copy |-> q, before |-> disk, safety |-> n]]
    BY <1>5, <2>2 DEF SafetyCopy
  <2>4. rq'[r].copy = q /\ \A s \in Requests \ {r} : rq'[s] = rq[s]
    BY <1>1, <2>3
  <2>5. Quiet(disk, copies, rq) => Quiet(disk, copies, rq)'
    BY <2>1, <2>2, <2>4, QuietStays DEF Quiet
  <2> QED BY <2>1, <2>5, CalmStays
<1>6. Of(disk.db) \in Runs \ {None}
  BY <1>1, OfRuns DEF Disks
<1>7. ASSUME NEW at \in {"copied", "unstaged", "kept back", "staged", "restored", "refused", "undone",
                        "returned", "idle"},
             Goto(r, at) \/ Leave(r),
             UNCHANGED <<job, copies>>,
             \/ disk' = disk
             \/ disk' = [disk EXCEPT !.run = Of(disk.db)]
             \/ \E c \in copies : disk' = [disk EXCEPT !.db = c.db]
             \/ rq[r].at = "saved" /\ disk' = [disk EXCEPT !.db = rq[r].copy.db]
      PROVE  Calm'
  <2>1. rq'[r].at \notin {"chosen", "saved"} /\ \A s \in Requests \ {r} : rq'[s] = rq[s]
    BY <1>7, WentTo, LeftOff
  <2>2. (\A c \in copies : c.db \in Databases) /\ (rq[r].at = "saved" => rq[r].copy.db \in Databases)
    BY <1>1, RequestAt DEF Copies, CopySteps
  <2>3. Quiet(disk, copies, rq) => Quiet(disk, copies, rq)'
    BY <1>6, <1>7, <2>1, <2>2, QuietStays DEF Quiet
  <2> QED BY <1>7, <2>3, CalmStays
<1>8. CASE \/ CopyOver(r) \/ InitDb(r) \/ Unstage(r)
           \/ ApplyCopy(r) \/ UndoCopy(r) \/ ReapplyOld(r) \/ Answer(r)
  <2>1. UNCHANGED <<job, copies>>
    BY <1>8 DEF CopyOver, InitDb, Unstage, ApplyCopy, UndoCopy, ReapplyOld, Answer, here
  <2>2. PICK at \in {"copied", "unstaged", "kept back", "staged", "restored", "refused", "undone",
                     "returned", "idle"} : Goto(r, at) \/ Leave(r)
    BY <1>8 DEF CopyOver, InitDb, Unstage, ApplyCopy, UndoCopy, ReapplyOld, Answer
  <2>3. \/ disk' = disk
        \/ disk' = [disk EXCEPT !.run = Of(disk.db)]
        \/ \E c \in copies : disk' = [disk EXCEPT !.db = c.db]
        \/ rq[r].at = "saved" /\ disk' = [disk EXCEPT !.db = rq[r].copy.db]
    BY <1>8 DEF CopyOver, InitDb, Unstage, ApplyCopy, UndoCopy, ReapplyOld, Answer, ApplyRestored
  <2> QED BY <1>7, <2>1, <2>2, <2>3
<1> QED BY <1>2, <1>3, <1>4, <1>5, <1>8 DEF RestoreRoute, CopyStep

LEMMA CalmJob ==
  ASSUME IInv, IInv', Calm, \A i, j \in Jobs : i = j, NEW j \in Jobs, JobStep(j) \/ Kill(j)
  PROVE  Calm'
<1>1. PICK J, K, d, d1 : J = job[j] /\ K = job'[j] /\ d = disk /\ d1 = disk'
  OBVIOUS
<1>2. Running(j) /\ JobShape(J, K, d, d1) /\ Others(j)
  BY <1>1, Shape
<1>3. J \in Tasks /\ Working(J, disk, served, applying, restarts) /\ J.at \in {"forward", "undo"} /\ J.n \in Nat
  BY <1>1, <1>2, Alongside DEF Tasks
<1>4. CASE Ends(K, Core(d), Core(d1))
  BY <1>1, <1>4 DEF Calm, Unspoiled, Ends, Running
<1>5. CASE Early(J, K, d, d1)
  <2>1. Unspoiled /\ d1 = d /\ K.at = "forward" /\ K.n = J.n + 1
    BY <1>1, <1>5 DEF Unspoiled, Early
  <2>2. Quiet(disk, copies, rq) /\ Quiet(disk, copies, rq)'
    BY <1>1, <1>2, <2>1 DEF Calm, Others, Quiet
  <2>3. K.safety # None => K.safety = d
    <3>1. CASE J.n = 2
      BY <1>5, <3>1 DEF Early
    <3>2. CASE J.n # 2
      <4>1. K.n <= 2
        BY <1>3, <1>5, <2>1, <3>2 DEF Early
      <4>2. Holding(K)
        BY <1>1, <2>1 DEF IInv, Orderly, Working, Running
      <4> QED BY <2>1, <4>1, <4>2 DEF Holding
    <3> QED BY <3>1, <3>2
  <2>4. \A i \in Jobs : job'[i].safety # None => Settled(job'[i].safety) /\ ~job'[i].safety.db.hidden
    BY <1>1, <2>2, <2>3 DEF Quiet
  <2> QED BY <2>2, <2>4 DEF Calm
<1>6. CASE GoesOn(J, K, d, d1) \/ TurnsBack(J, K, d)
  <2>1. K.safety = J.safety /\ (K.at = "undo" \/ K.n > 2)
    BY <1>3, <1>6 DEF GoesOn, TurnsBack
  <2>2. K.at \in {"forward", "undo"}
    BY <1>3, <1>6 DEF GoesOn, TurnsBack
  <2>3. K \in Tasks
    BY <1>1, <2>2, JobAt DEF IInv, TypeOK
  <2>4. ~Unspoiled'
    BY <1>1, <2>1, <2>2, <2>3 DEF Unspoiled, Tasks
  <2>5. \A i \in Jobs : job'[i].safety # None => Settled(job'[i].safety) /\ ~job'[i].safety.db.hidden
    BY <1>1, <1>2, <2>1 DEF Calm
  <2> QED BY <2>4, <2>5 DEF Calm
<1> QED BY <1>2, <1>4, <1>5, <1>6 DEF JobShape

\* Every restore by one job, or of copies one after another, is a staged
\* change: it is reported as done only with what the confirmed archive means
\* for this server and as rolled back only with what was there.  The archives
\* hold no hidden credentials and bring no certificate to a server without.
THEOREM RestoreImplementsStagedChange ==
  ASSUME ~Overlap, ~Brings, \A i, j \in Jobs : i = j, \A a \in Archives : ~a.disk.db.hidden
  PROVE  Spec => ImplementsStagedChange
<1>1. Init => IInv /\ Calm
  BY IInvInit, CalmInit
<1>2. IInv /\ [Next]_vars => IInv'
  BY IInvNext
<1>3. IInv /\ IInv' /\ Calm /\ [Next]_vars => Calm'
  <2> SUFFICES ASSUME IInv, IInv', Calm, [Next]_vars PROVE Calm'
    OBVIOUS
  <2>1. CASE Meanwhile \/ MakeCopy \/ DeleteOldCopies \/ UNCHANGED vars
    BY <2>1, CalmMeanwhile
  <2>2. ASSUME NEW j \in Jobs, JobStep(j) \/ Kill(j) PROVE Calm'
    BY <2>2, CalmJob
  <2>3. ASSUME NEW r \in Requests,
               \/ Upload(r) \/ (\E p \in Profiles : Confirm(r, p)) \/ (\E c \in copies : ChooseCopy(r, c))
               \/ VerifyRoute(r) \/ RestoreRoute(r) \/ CopyStep(r)
        PROVE  Calm'
    BY <2>3, CalmRequest
  <2> QED BY <2>1, <2>2, <2>3 DEF Next
<1>4. Init => Change!Init
  <2> SUFFICES ASSUME Init PROVE Change!Init
    OBVIOUS
  <2>1. IInv
    BY IInvInit
  <2>2. (\A j \in Jobs : ~Running(j)) /\ \A r \in Requests : ~CopyUnderWay(r)
    BY NotStarted DEF Init, NoJob, Running, CopyUnderWay, Verifying
  <2>3. Phase = "idle" /\ Goal = None /\ Old = None
    BY <2>2, IdleMapped DEF MapsIdle
  <2>4. Core(disk) \in Cores
    BY <2>1, CoreType DEF IInv, TypeOK
  <2> QED BY <2>3, <2>4 DEF Change!Init, Cores
<1>5. IInv /\ IInv' /\ Calm /\ [Next]_vars => [Change!Next]_(Change!vars)
  BY NextChange DEF Change!vars
<1> QED BY <1>1, <1>2, <1>3, <1>4, <1>5, PTL DEF Spec, ImplementsStagedChange, Change!Spec
=============================================================================
