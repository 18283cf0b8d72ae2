--------------------------- MODULE Engines_proofs ---------------------------
(***************************************************************************)
(* Theorems about Engines: its types, that an operation's answer is true   *)
(* and that the service runs what is installed, for any number of panel    *)
(* requests and jobs, any versions and options.                            *)
(*                                                                         *)
(* None is inductive.  What an operation may still undo is in its record,  *)
(* so the invariant says which step goes with which record (Shape), that   *)
(* one update at a time holds the flock and where it stands (Progress),    *)
(* for an operation that runs alone, what each step has changed since it   *)
(* began (Story), and that while nothing overlaps every backup, and what   *)
(* is installed at rest, has the metadata of its options (Cleanly).        *)
(***************************************************************************)
EXTENDS Engines, SequenceTheorems, TLAPS

Kinds == {"test", "apply", "clients", "restart", "rollback", "update"}
FormSteps == {"describe", "back up", "check", "install", "record", "sing-box", "stop", "remove"}
SavedSteps == {"check", "install", "start", "record", "stop", "remove", "put back", "recover",
               "roll back", "check again", "halt"}
SharedSteps == {"start", "put back", "recover"}
SwapSteps == {"swap", "restart", "regenerate", "verify", "swap back", "restart old"}
UpdateSteps == {"fetch", "keep"} \cup SwapSteps
BareSteps == {"build", "select", "again", "version", "idle conf", "idle start"}
RollSteps == {"roll back", "check again", "halt"}
Steps == FormSteps \cup SharedSteps \cup UpdateSteps \cup BareSteps \cup RollSteps
Answers == {"failed", "done", "tested", "partly", "down", "died", "stuck"}

Cores == [bin : Versions, conf : Configs \cup {None}, applied : Metas \cup {None},
          served : Services]
Kept == [bin : Versions, conf : Configs \cup {None}, up : BOOLEAN]
Records ==
  [at : Steps \cup {"over"}, kind : Kinds, alone : BOOLEAN, before : Cores \cup {None},
   asked : {None} \cup Metas \cup Backups \cup Versions, from : Versions \cup {None},
   saved : {None} \cup Backups \cup Kept, unseen : BOOLEAN, answer : Answers \cup {None}]

\* The steps of each kind of operation.
StepsOf(kind) ==
  CASE kind = "test" -> {"build", "describe", "back up", "check", "put back"}
    [] kind = "apply" -> {"build", "start", "put back", "recover"} \cup FormSteps
    [] kind = "clients" -> {"build", "start", "put back", "recover", "idle conf", "idle start"}
                             \cup (FormSteps \ {"sing-box"})
    [] kind = "restart" -> {"again"}
    [] kind = "rollback" -> {"select"} \cup RollSteps \cup SharedSteps
    [] OTHER -> {"version"} \cup UpdateSteps

\* What a record holds at a step.
Shape(e, o) ==
  /\ o.alone => o.before \in Cores
  /\ o.at # "over" =>
       /\ o.at \in StepsOf(o.kind)
       /\ o.kind # "update" => e = "mihomo"
       /\ o.at \in BareSteps => o.asked = None
       /\ o.at \in FormSteps => o.asked \in Metas
       /\ o.at \in SharedSteps => o.asked \in IF o.kind = "rollback" THEN Backups ELSE Metas
       /\ o.at \in RollSteps => o.asked \in Backups
       /\ o.at \in UpdateSteps => o.asked \in Versions /\ o.from \in Versions
       /\ o.at \in SavedSteps => o.saved \in Backups
       /\ o.at \in SwapSteps => o.saved \in Kept

\* A record and its shape; described metadata is there to be read.
OpsOK ==
  /\ op \in [Actors -> {NoOp} \cup Records]
  /\ \A a \in Actors : op[a].at # "idle" => Shape(engine, op[a])
  /\ \A a \in Actors : op[a].at = "back up" => meta \in Metas

ServiceOK ==
  /\ served # None => Loads(served.bin, served.conf)
  /\ engine = "xray" => conf # None

Typed == TypeOK /\ OpsOK /\ ServiceOK

\* One update holds the flock, and only it replaces the binary.
Holds(a) == Working(a) /\ op[a].kind = "update" /\ op[a].asked # None
Progress(v, o) ==
  /\ o.at \in {"fetch", "keep", "swap", "restart old"} => v = o.from
  /\ o.at \in {"restart", "regenerate", "verify"} => v = o.asked
  /\ o.at \in SwapSteps => o.saved.bin = o.from
Updates ==
  /\ \A a, b \in Actors : Holds(a) /\ Holds(b) => a = b
  /\ \A a \in Actors : Holds(a) => Progress(bin, op[a])

-----------------------------------------------------------------------------
\* An operation that runs alone.

\* Nobody else works.
Apart == \A a, b \in Actors : Working(a) /\ op[a].alone /\ Working(b) => a = b

\* What it found ran what was installed.
Grounded(c) == /\ Settled(c)
               /\ c.conf # None => Loads(c.bin, c.conf)
               /\ engine = "xray" => c.conf # None

SavedOf(c) == [conf |-> c.conf, applied |-> c.applied]
AskedForm == row

\* What the form's operations, and the helper, have changed.
FormStory(o, b) ==
  /\ o.at \in {"build", "describe", "back up", "check", "install", "stop", "again", "select",
               "roll back", "idle conf"} => Core = b
  /\ o.at \in FormSteps => o.asked = AskedForm
  /\ o.at \in SharedSteps /\ o.kind # "rollback" => o.asked = AskedForm
  /\ o.at \in {"describe", "back up", "check", "install"} => candidate = Rendered
  /\ o.at = "back up" => meta = o.asked
  /\ o.at \in SavedSteps => o.saved = SavedOf(b)
  /\ o.at \in {"check", "install", "record"} => o.asked.on
  /\ o.at = "start" /\ o.kind # "rollback" => o.asked.on
  /\ o.at \in {"stop", "remove"} => ~o.asked.on
  /\ bin = b.bin
  /\ o.at = "install" => Loads(bin, candidate)
  /\ o.at = "start" /\ o.kind # "rollback" => conf = Rendered /\ applied = b.applied
  /\ o.at \in {"start", "check again", "halt"} /\ o.kind = "rollback" => Saved = o.asked
  /\ o.at = "start" => Loads(bin, conf)
  /\ o.at = "record" => conf = Rendered /\ served = [bin |-> bin, conf |-> conf]
  /\ o.unseen => o.at \in {"remove", "sing-box", "put back", "recover"}
  /\ o.at = "sing-box" => /\ conf = IF o.asked.on THEN Rendered ELSE None
                          /\ applied = o.asked
                          /\ IF o.unseen THEN conf = None /\ served = b.served ELSE Settled(Core)
  /\ o.at = "remove" => served = IF o.unseen THEN b.served ELSE None
  /\ o.at = "put back" /\ o.kind = "test" => Core = b
  /\ o.at = "recover" => Saved = SavedOf(b)
  /\ o.at = "check again" => conf # None
  /\ o.at = "halt" => conf = None
  /\ o.at = "idle start" => conf = Idle

\* What an update has changed.
UpdateStory(o, b) ==
  /\ ~o.unseen
  /\ o.at \in {"version", "fetch", "keep", "swap"} => Core = b
  /\ applied = b.applied
  /\ o.at \in UpdateSteps => o.from = b.bin
  /\ o.at = "keep" => Fits(o.asked)
  /\ o.at \in SwapSteps =>
       /\ o.saved = [bin |-> b.bin, conf |-> IF Recovery(b.bin) THEN b.conf ELSE None,
                     up |-> engine = "xray" \/ b.served # None]
       /\ ~Recovery(b.bin) => conf = b.conf /\ (Loads(o.asked, conf) \/ conf = None)
  /\ o.at = "restart" => ~Recovery(b.bin) /\ o.saved.up
  /\ o.at = "regenerate" => Recovery(b.bin)
  /\ o.at = "verify" => Settled(Core)
  /\ o.at = "swap back" /\ ~o.saved.up => served = b.served
  /\ o.at = "restart old" => conf = b.conf /\ o.saved.up

Story(o) ==
  o.alone /\ Settled(o.before) =>
    /\ Grounded(o.before)
    /\ IF o.kind = "update" THEN UpdateStory(o, o.before) ELSE FormStory(o, o.before)

Stories == \A a \in Actors : Working(a) => Story(op[a])

\* What has become of it when it answers.
Outcome(o) ==
  o.alone /\ Settled(o.before) =>
    /\ AloneIsTrue(o)
    /\ o.answer \in {"done", "partly"} =>
         /\ o.kind \in {"update", "restart", "test"} =>
              Saved = SavedOf(o.before) \/ Recovery(o.before.bin)
         /\ o.kind \in {"apply", "clients"} =>
              conf \in {Idle, None} \/ (conf = Rendered /\ applied = AskedForm)
Sound(a) == IF op[a].at = "over" THEN Outcome(op[a]) ELSE Story(op[a])

-----------------------------------------------------------------------------
\* Nothing overlapped: what is installed has its metadata.
Matches(c) == c.conf \in Bodies => c.applied # None /\ c.applied.opt = c.conf.opt
CleanOp(o) ==
  /\ ~o.unseen /\ o.alone /\ Settled(o.before) /\ Matches(o.before)
  /\ o.kind = "rollback" /\ o.at \in RollSteps \cup SharedSteps => Matches(o.asked)
Cleanly ==
  clean /\ engine = "mihomo" =>
    /\ \A i \in 1..Len(backups) : Matches(backups[i])
    /\ \A a \in Actors : Working(a) => CleanOp(op[a])
    /\ (\A a \in Actors : ~Working(a)) => Settled(Core) /\ Matches(Core)

Strong == Typed /\ Updates /\ Apart /\ Stories

-----------------------------------------------------------------------------
\* Types.

LEMMA RecordOf ==
  ASSUME OpsOK, NEW a \in Actors, op[a].at # "idle"
  PROVE  op[a] \in Records /\ Shape(engine, op[a])
<1>1. op[a] \in {NoOp} \cup Records
  BY DEF OpsOK
<1>2. op[a] # NoOp
  BY DEF NoOp
<1> QED BY <1>1, <1>2 DEF OpsOK

LEMMA StepIsString == ASSUME NEW s \in Steps PROVE s # "idle" /\ s # "over"
BY DEF Steps, FormSteps, SharedSteps, UpdateSteps, SwapSteps, BareSteps, RollSteps

\* A step leaves the other operations alone.
LEMMA GotoOp ==
  ASSUME OpsOK, NEW a \in Actors, op[a].at # "idle", NEW s \in Steps, Goto(a, s)
  PROVE  /\ op' = [op EXCEPT ![a] = [op[a] EXCEPT !.at = s]]
         /\ [op[a] EXCEPT !.at = s] \in Records
BY RecordOf DEF Goto, OpsOK, Records

LEMMA EndOp ==
  ASSUME OpsOK, NEW a \in Actors, op[a].at # "idle", NEW x \in Answers, End(a, x)
  PROVE  /\ op' = [op EXCEPT ![a] = [op[a] EXCEPT !.at = "over", !.answer = x]]
         /\ [op[a] EXCEPT !.at = "over", !.answer = x] \in Records
<1>1. op[a] \in Records /\ a \in DOMAIN op
  BY RecordOf DEF OpsOK
<1>2. op' = [op EXCEPT ![a] = [op[a] EXCEPT !.at = "over", !.answer = x]]
  BY <1>1 DEF End
<1>3. [op[a] EXCEPT !.at = "over", !.answer = x] \in Records
  BY <1>1 DEF Records
<1> QED BY <1>2, <1>3

LEMMA UnseenOp ==
  ASSUME OpsOK, NEW a \in Actors, op[a].at # "idle", NEW s \in Steps \cup {"over"},
         NEW x \in Answers \cup {None}, Unseen(a, s, x)
  PROVE  \E o \in Records :
           /\ op' = [op EXCEPT ![a] = o]
           /\ o.at = s /\ o.answer = x /\ o.unseen
           /\ o.kind = op[a].kind /\ o.alone = op[a].alone /\ o.before = op[a].before
           /\ o.asked = op[a].asked /\ o.from = op[a].from /\ o.saved = op[a].saved
<1> DEFINE o == [op[a] EXCEPT !.at = s, !.answer = x, !.unseen = TRUE]
<1>1. op[a] \in Records /\ a \in DOMAIN op
  BY RecordOf DEF OpsOK
<1>2. op' = [op EXCEPT ![a] = o]
  BY <1>1 DEF Unseen
<1>3. o \in Records
  BY <1>1 DEF Records
<1>4. /\ o.at = s /\ o.answer = x /\ o.unseen
      /\ o.kind = op[a].kind /\ o.alone = op[a].alone /\ o.before = op[a].before
      /\ o.asked = op[a].asked /\ o.from = op[a].from /\ o.saved = op[a].saved
  BY <1>1 DEF Records
<1> HIDE DEF o
<1> QED BY <1>2, <1>3, <1>4

LEMMA OneOp ==
  ASSUME OpsOK, NEW a \in Actors, NEW o \in Records,
         op' = [op EXCEPT ![a] = o], Shape(engine, o),
         engine' = engine, meta' = meta \/ meta' \in Metas,
         o.at = "back up" => meta' \in Metas
  PROVE  OpsOK'
<1>1. op' \in [Actors -> {NoOp} \cup Records]
  BY DEF OpsOK
<1>2. ASSUME NEW b \in Actors, op'[b].at # "idle" PROVE Shape(engine', op'[b])
  BY <1>2 DEF OpsOK
<1>3. ASSUME NEW b \in Actors, op'[b].at = "back up" PROVE meta' \in Metas
  BY <1>3 DEF OpsOK
<1> QED BY <1>1, <1>2, <1>3 DEF OpsOK

LEMMA EndShape ==
  ASSUME OpsOK, NEW a \in Actors, op[a].at # "idle", NEW x \in Answers, End(a, x),
         engine' = engine, meta' = meta \/ meta' \in Metas
  PROVE  OpsOK'
<1> DEFINE o == [op[a] EXCEPT !.at = "over", !.answer = x]
<1>1. op[a] \in Records /\ Shape(engine, op[a])
  BY RecordOf
<1>2. o \in Records /\ op' = [op EXCEPT ![a] = o]
  BY EndOp
<1>3. o.at = "over" /\ o.alone = op[a].alone /\ o.before = op[a].before
  BY <1>1 DEF Records
<1> HIDE DEF o
<1>4. Shape(engine, o)
  BY <1>1, <1>3 DEF Shape
<1> QED BY <1>2, <1>3, <1>4, OneOp

\* Going on to a step that needs no more than the record has.
LEMMA GotoShape ==
  ASSUME OpsOK, NEW a \in Actors, op[a].at \notin {"idle", "over"}, NEW s \in Steps, Goto(a, s),
         s \in StepsOf(op[a].kind), s # "back up", s \notin BareSteps,
         s \in FormSteps => op[a].asked \in Metas,
         s \in SharedSteps => op[a].asked \in IF op[a].kind = "rollback" THEN Backups ELSE Metas,
         s \in RollSteps => op[a].asked \in Backups,
         s \in UpdateSteps => op[a].asked \in Versions /\ op[a].from \in Versions,
         s \in SavedSteps => op[a].saved \in Backups,
         s \in SwapSteps => op[a].saved \in Kept,
         engine' = engine, meta' = meta \/ meta' \in Metas
  PROVE  OpsOK'
<1> DEFINE o == [op[a] EXCEPT !.at = s]
<1>1. op[a] \in Records /\ Shape(engine, op[a])
  BY RecordOf
<1>2. o \in Records /\ op' = [op EXCEPT ![a] = o]
  BY GotoOp
<1>3. /\ o.at = s /\ o.alone = op[a].alone /\ o.before = op[a].before /\ o.kind = op[a].kind
      /\ o.asked = op[a].asked /\ o.from = op[a].from /\ o.saved = op[a].saved
  BY <1>1 DEF Records
<1> HIDE DEF o
<1>4. Shape(engine, o)
  BY <1>1, <1>3 DEF Shape
<1> QED BY <1>2, <1>3, <1>4, OneOp

LEMMA CoreType == TypeOK => Core \in Cores /\ Saved \in Backups
BY DEF TypeOK, Core, Cores, Saved, Backups

\* Beginning.
LEMMA OverlappedOp ==
  ASSUME NEW o \in {NoOp} \cup Records, NEW e, o.at # "idle" => Shape(e, o)
  PROVE  /\ Overlapped(o) \in {NoOp} \cup Records
         /\ Overlapped(o).at = o.at
         /\ Overlapped(o).at # "idle" => /\ Shape(e, Overlapped(o)) 
                                         /\ Overlapped(o).kind = o.kind
                                         /\ Overlapped(o).asked = o.asked
                                         /\ Overlapped(o).from = o.from
                                         /\ Overlapped(o).saved = o.saved
         /\ o.at \notin {"idle", "over"} => ~Overlapped(o).alone
<1>1. CASE o.at \in {"idle", "over"}
  BY <1>1 DEF Overlapped
<1>2. CASE o.at \notin {"idle", "over"}
  <2> DEFINE new == [o EXCEPT !.alone = FALSE, !.before = None]
  <2>1. o \in Records
    BY <1>2 DEF NoOp
  <2>2. new \in Records
    BY <2>1 DEF Records
  <2>3. /\ new.at = o.at /\ new.kind = o.kind /\ new.asked = o.asked /\ new.from = o.from
        /\ new.saved = o.saved /\ new.alone = FALSE
    BY <2>1 DEF Records
  <2>4. Overlapped(o) = new
    BY <1>2 DEF Overlapped
  <2> HIDE DEF new
  <2>5. Shape(e, new)
    BY <1>2, <2>3 DEF Shape
  <2> QED BY <1>2, <2>2, <2>3, <2>4, <2>5
<1> QED BY <1>1, <1>2

LEMMA BeginShape ==
  ASSUME TypeOK, OpsOK, NEW a \in Actors, NEW k \in Kinds, NEW s \in BareSteps,
         s \in StepsOf(k), k # "update" => engine = "mihomo",
         Begin(a, k, s), engine' = engine, meta' = meta
  PROVE  OpsOK' /\ ops' \in 0..MaxOps /\ clean' \in BOOLEAN
<1> DEFINE alone == \A b \in Actors : ~Working(b)
           o == [at |-> s, kind |-> k, alone |-> alone, before |-> IF alone THEN Core ELSE None,
                 asked |-> None, from |-> None, saved |-> None, unseen |-> FALSE,
                 answer |-> None]
<1>0. s \in Steps
  BY DEF Steps
<1>1. o \in Records
  <2>1. Core \in Cores
    BY CoreType
  <2>2. alone \in BOOLEAN
    OBVIOUS
  <2> HIDE DEF alone
  <2> QED BY <1>0, <2>1, <2>2 DEF Records
<1>2. /\ o.at = s /\ o.kind = k /\ o.asked = None
      /\ o.alone => o.before = Core
  OBVIOUS
<1>3. op' = [b \in Actors |-> IF b = a THEN o ELSE Overlapped(op[b])] /\ clean' = (clean /\ alone)
  BY DEF Begin
<1> HIDE DEF o, alone
<1>4. s \notin FormSteps \cup SharedSteps \cup RollSteps \cup UpdateSteps \cup SavedSteps \cup SwapSteps
  BY DEF BareSteps, FormSteps, SharedSteps, RollSteps, UpdateSteps, SavedSteps, SwapSteps
<1>5. Shape(engine, o)
  BY <1>2, <1>4, CoreType DEF Shape
<1>6. ASSUME NEW b \in Actors
      PROVE  /\ Overlapped(op[b]) \in {NoOp} \cup Records
             /\ Overlapped(op[b]).at = op[b].at
             /\ op[b].at # "idle" => Shape(engine, Overlapped(op[b]))
  BY OverlappedOp DEF OpsOK
<1>7. op' \in [Actors -> {NoOp} \cup Records]
  BY <1>1, <1>3, <1>6
<1>8. ASSUME NEW b \in Actors, op'[b].at # "idle" PROVE Shape(engine', op'[b])
  BY <1>3, <1>5, <1>6, <1>8
<1>9. ASSUME NEW b \in Actors, op'[b].at = "back up" PROVE meta' \in Metas
  BY <1>2, <1>3, <1>6, <1>9 DEF OpsOK, BareSteps
<1>10. ops' \in 0..MaxOps
  BY EnginesAssumption DEF Begin, TypeOK
<1>11. clean' \in BOOLEAN
  BY <1>3 DEF TypeOK
<1> QED BY <1>7, <1>8, <1>9, <1>10, <1>11 DEF OpsOK

\* The panel begins operations.
LEMMA RenderedType ==
  ASSUME TypeOK
  PROVE  /\ Body \in Bodies /\ Rendered \in Configs /\ Rendered # None
         /\ row \in Metas
BY MarkersAssumption DEF TypeOK, Body, Bodies, Rendered, Configs, Metas, Forms

LEMMA PanelTyped ==
  ASSUME Typed, NEW a \in Actors, Post(a) \/ Button(a) \/ ClientsApply(a) \/ Update(a)
  PROVE  Typed'
<1> USE DEF Typed
<1>0. \A k \in Kinds : \A s \in BareSteps :
        s \in StepsOf(k) /\ (k # "update" => engine = "mihomo") /\ Begin(a, k, s)
          /\ engine' = engine /\ meta' = meta
        => OpsOK' /\ ops' \in 0..MaxOps /\ clean' \in BOOLEAN
  BY BeginShape
<1>00. /\ "build" \in BareSteps /\ "again" \in BareSteps /\ "select" \in BareSteps
       /\ "version" \in BareSteps /\ "idle conf" \in BareSteps
       /\ Kinds = {"test", "apply", "clients", "restart", "rollback", "update"}
       /\ "build" \in StepsOf("test") /\ "build" \in StepsOf("apply")
       /\ "build" \in StepsOf("clients") /\ "idle conf" \in StepsOf("clients")
       /\ "again" \in StepsOf("restart") /\ "select" \in StepsOf("rollback")
       /\ "version" \in StepsOf("update")
  BY DEF BareSteps, Kinds, StepsOf
<1>1. engine' = engine /\ meta' = meta /\ UNCHANGED files /\ UNCHANGED faults
  BY DEF Post, Button, ClientsApply, Update, files
<1>2. CASE Post(a)
  <2>1. OpsOK' /\ ops' \in 0..MaxOps /\ clean' \in BOOLEAN
    BY <1>0, <1>00, <1>1, <1>2 DEF Post
  <2>2. row' \in Forms /\ access' = access
    BY <1>2 DEF Post
  <2> QED BY <1>1, <2>1, <2>2 DEF TypeOK, ServiceOK, files, Loads
<1>3. CASE Button(a)
  <2>1. OpsOK' /\ ops' \in 0..MaxOps /\ clean' \in BOOLEAN
    BY <1>0, <1>00, <1>1, <1>3 DEF Button
  <2>2. access' \in [cred : 0..MaxCreds, on : BOOLEAN]
    <3>1. access \in [cred : 0..MaxCreds, on : BOOLEAN] /\ MaxCreds \in Nat
      BY EnginesAssumption DEF TypeOK
    <3>2. access' \in {Enabled(access), Disabled(access), Rotated(access)} /\ access'.cred <= MaxCreds
      BY <1>3 DEF Button
    <3>3. CASE access' = Enabled(access)
      <4> DEFINE n == IF access.cred = 0 THEN 1 ELSE access.cred
      <4>1. n \in Nat /\ access' = [cred |-> n, on |-> TRUE]
        BY <3>1, <3>3 DEF Enabled
      <4> HIDE DEF n
      <4>2. n \in 0..MaxCreds
        BY <3>1, <3>2, <4>1
      <4> QED BY <4>1, <4>2
    <3>4. CASE access' = Disabled(access)
      BY <3>1, <3>4 DEF Disabled
    <3>5. CASE access' = Rotated(access)
      <4> DEFINE n == access.cred + 1
      <4>1. n \in Nat /\ access' = [cred |-> n, on |-> TRUE]
        BY <3>1, <3>5 DEF Rotated
      <4> HIDE DEF n
      <4>2. n \in 0..MaxCreds
        BY <3>1, <3>2, <4>1
      <4> QED BY <4>1, <4>2
    <3> QED BY <3>2, <3>3, <3>4, <3>5
  <2>3. row' = row
    BY <1>3 DEF Button
  <2> QED BY <1>1, <2>1, <2>2, <2>3 DEF TypeOK, ServiceOK, files, Loads
<1>4. CASE ClientsApply(a)
  <2>1. OpsOK' /\ ops' \in 0..MaxOps /\ clean' \in BOOLEAN
    BY <1>0, <1>00, <1>1, <1>4 DEF ClientsApply
  <2>2. row' = row /\ access' = access
    BY <1>4 DEF ClientsApply
  <2> QED BY <1>1, <2>1, <2>2 DEF TypeOK, ServiceOK, files, Loads
<1>5. CASE Update(a)
  <2>1. OpsOK' /\ ops' \in 0..MaxOps /\ clean' \in BOOLEAN
    BY <1>0, <1>00, <1>1, <1>5 DEF Update
  <2>2. row' = row /\ access' = access
    BY <1>5 DEF Update
  <2> QED BY <1>1, <2>1, <2>2 DEF TypeOK, ServiceOK, files, Loads
<1> QED BY <1>2, <1>3, <1>4, <1>5

LEMMA BesideShape ==
  ASSUME OpsOK, op' = [b \in Actors |-> Overlapped(op[b])], engine' = engine, meta' = meta
  PROVE  OpsOK'
<1>6. ASSUME NEW b \in Actors
      PROVE  /\ Overlapped(op[b]) \in {NoOp} \cup Records
             /\ Overlapped(op[b]).at = op[b].at
             /\ op[b].at # "idle" => Shape(engine, Overlapped(op[b]))
  BY OverlappedOp DEF OpsOK
<1> QED BY <1>6 DEF OpsOK

LEMMA BesideTyped == ASSUME Typed, Save \/ ApplyXray PROVE Typed'
<1> USE DEF Typed
<1>1. OpsOK'
  BY BesideShape DEF Save, ApplyXray, files
<1>2. ops' \in 0..MaxOps
  BY EnginesAssumption DEF Save, ApplyXray, TypeOK
<1>3. clean' \in BOOLEAN
  BY DEF Save, ApplyXray, TypeOK
<1>4. CASE Save
  BY <1>1, <1>2, <1>3, <1>4 DEF Save, TypeOK, ServiceOK, files, Loads
<1>5. CASE ApplyXray
  <2>1. row' \in Forms /\ row'.opt \in Options
    BY <1>5 DEF ApplyXray, Forms
  <2>2. conf' \in Configs /\ conf' # None
    BY <1>5, <2>1, MarkersAssumption DEF ApplyXray, Configs, Bodies, TypeOK
  <2>3. served' \in Services /\ Loads(served'.bin, served'.conf)
    BY <1>5, <2>2 DEF ApplyXray, Services, Running, TypeOK
  <2> QED BY <1>1, <1>2, <1>3, <1>5, <2>1, <2>2, <2>3 DEF ApplyXray, TypeOK, ServiceOK
<1> QED BY <1>4, <1>5

\* Nothing but the records moves.
LEMMA OnlyOps ==
  ASSUME Typed, OpsOK', UNCHANGED <<engine, row, access, files, ops>>,
         faults' = faults \/ Fault, clean' \in BOOLEAN
  PROVE  Typed'
<1>1. faults' \in 0..MaxFaults
  BY EnginesAssumption DEF Typed, TypeOK, Fault
<1> QED BY <1>1 DEF Typed, TypeOK, ServiceOK, files, Loads

LEMMA EndsTyped == ASSUME Typed, NEW a \in Actors, Kill(a) \/ Report(a) PROVE Typed'
<1> USE DEF Typed
<1>1. CASE Kill(a)
  <2>1. "died" \in Answers /\ op[a].at # "idle"
    BY <1>1 DEF Answers, Kill, Working
  <2>2. OpsOK'
    BY <1>1, <2>1, EndShape DEF Kill, files
  <2> QED BY <1>1, <2>2, OnlyOps DEF Kill
<1>2. CASE Report(a)
  <2>1. OpsOK'
    BY <1>2 DEF Report, OpsOK, files, NoOp
  <2> QED BY <1>2, <2>1, OnlyOps DEF Report, TypeOK
<1> QED BY <1>1, <1>2

\* The candidate.
LEMMA CandidateTyped == ASSUME Typed, NEW a \in Actors, Build(a) \/ Describe(a) PROVE Typed'
<1> USE DEF Typed
<1>0. op[a].at \in {"build", "describe"}
  BY DEF Build, Describe
<1>1. op[a] \in Records /\ Shape(engine, op[a])
  BY <1>0, RecordOf
<1>2. CASE Build(a) /\ Valid
  <2> DEFINE asked == row
             o == [op[a] EXCEPT !.at = "describe", !.asked = asked]
  <2>1. asked \in Metas /\ Rendered \in Configs
    BY RenderedType
  <2>2. op' = [op EXCEPT ![a] = o]
    BY <1>2 DEF Build, OpsOK
  <2>3. "describe" \in Steps
    BY DEF Steps, FormSteps
  <2>4. o \in Records
    BY <1>1, <2>1, <2>3 DEF Records
  <2>5. /\ o.at = "describe" /\ o.kind = op[a].kind /\ o.asked = asked
        /\ o.alone = op[a].alone /\ o.before = op[a].before
    BY <1>1 DEF Records
  <2> HIDE DEF o, asked
  <2>6. op[a].kind \in {"test", "apply", "clients"}
    BY <1>1, <1>2 DEF Build, Shape, StepsOf, UpdateSteps, SwapSteps, RollSteps, SharedSteps, Records, Kinds
  <2>7. Shape(engine, o)
    <3>1. "describe" \in StepsOf(o.kind)
      BY <2>5, <2>6 DEF StepsOf, FormSteps
    <3>2. "describe" \notin BareSteps \cup SharedSteps \cup RollSteps \cup UpdateSteps \cup SavedSteps \cup SwapSteps
      BY DEF BareSteps, SharedSteps, RollSteps, UpdateSteps, SavedSteps, SwapSteps
    <3> QED BY <1>1, <1>2, <2>1, <2>5, <3>1, <3>2 DEF Shape, Build
  <2>8. OpsOK'
    BY <1>2, <2>2, <2>4, <2>5, <2>7, OneOp DEF Build
  <2> QED BY <1>2, <2>1, <2>8 DEF Build, TypeOK, ServiceOK, Loads
<1>3. CASE Build(a) /\ ~Valid
  <2>1. "failed" \in Answers
    BY DEF Answers
  <2>2. OpsOK'
    BY <1>0, <1>3, <2>1, EndShape DEF Build
  <2> QED BY <1>3, <2>2, OnlyOps DEF Build, files, TypeOK
<1>4. CASE Describe(a)
  <2> DEFINE o == [op[a] EXCEPT !.at = "back up"]
  <2>1. "back up" \in Steps
    BY DEF Steps, FormSteps
  <2>2. o \in Records /\ op' = [op EXCEPT ![a] = o]
    BY <1>0, <1>4, <2>1, GotoOp DEF Describe
  <2>3. /\ o.at = "back up" /\ o.kind = op[a].kind /\ o.asked = op[a].asked
        /\ o.alone = op[a].alone /\ o.before = op[a].before
    BY <1>1 DEF Records
  <2> HIDE DEF o
  <2>4. op[a].asked \in Metas
    BY <1>1, <1>4 DEF Describe, Shape, FormSteps
  <2>5. op[a].kind \in {"test", "apply", "clients"}
    BY <1>1, <1>4 DEF Describe, Shape, StepsOf, UpdateSteps, SwapSteps, RollSteps, SharedSteps, Records, Kinds
  <2>6. Shape(engine, o)
    <3>1. "back up" \in StepsOf(o.kind)
      BY <2>3, <2>5 DEF StepsOf, FormSteps
    <3>2. "back up" \notin BareSteps \cup SharedSteps \cup RollSteps \cup UpdateSteps \cup SavedSteps \cup SwapSteps
      BY DEF BareSteps, SharedSteps, RollSteps, UpdateSteps, SavedSteps, SwapSteps
    <3> QED BY <1>1, <1>4, <2>3, <2>4, <3>1, <3>2 DEF Shape, Describe
  <2>7. OpsOK'
    BY <1>4, <2>2, <2>3, <2>4, <2>6, OneOp DEF Describe
  <2> QED BY <1>4, <2>4, <2>7 DEF Describe, TypeOK, ServiceOK, Loads
<1> QED BY <1>2, <1>3, <1>4

\* Which operations are at a step.
LEMMA KindAt ==
  ASSUME NEW e, NEW o \in Records, Shape(e, o), o.at # "over"
  PROVE  /\ o.at \in {"build", "describe", "back up", "check"} => o.kind \in {"test", "apply", "clients"}
         /\ o.at \in {"install", "record", "stop", "remove"} => o.kind \in {"apply", "clients"}
         /\ o.at = "sing-box" => o.kind = "apply"
         /\ o.at \in {"start", "recover"} => o.kind \in {"apply", "clients", "rollback"}
         /\ o.at = "put back" => o.kind \in {"test", "apply", "clients", "rollback"}
         /\ o.at = "again" => o.kind = "restart"
         /\ o.at \in {"select"} \cup RollSteps => o.kind = "rollback"
         /\ o.at \in {"idle conf", "idle start"} => o.kind = "clients"
         /\ o.at \in {"version"} \cup UpdateSteps => o.kind = "update"
BY DEF Shape, StepsOf, FormSteps, SharedSteps, RollSteps, UpdateSteps, SwapSteps, Records, Kinds

\* What the service runs from after systemctl.
Came == \/ served' \in {None, served}
        \/ Loads(bin, conf) /\ served' = [bin |-> bin, conf |-> conf]

LEMMA ServedTyped ==
  ASSUME Typed, OpsOK', Came, faults' = faults \/ Fault, clean' \in BOOLEAN,
         UNCHANGED <<engine, row, access, candidate, meta, bin, conf, applied, backups, ops>>
  PROVE  Typed'
<1> USE DEF Typed
<1>1. faults' \in 0..MaxFaults
  BY EnginesAssumption DEF TypeOK, Fault
<1>2. served' \in Services /\ (served' # None => Loads(served'.bin, served'.conf))
  <2>1. CASE served' \in {None, served}
    BY <2>1 DEF TypeOK, ServiceOK, Services
  <2>2. CASE Loads(bin, conf) /\ served' = [bin |-> bin, conf |-> conf]
    <3>1. bin \in Versions /\ conf \in Configs
      BY <2>2 DEF TypeOK, Loads
    <3> QED BY <2>2, <3>1 DEF Services, Running
  <2> QED BY <2>1, <2>2 DEF Came
<1> QED BY <1>1, <1>2 DEF TypeOK, ServiceOK

\* Only files and records move.
LEMMA FilesTyped ==
  ASSUME Typed, OpsOK', UNCHANGED <<engine, row, access, candidate, meta, bin, served, ops, clean>>,
         faults' = faults \/ Fault,
         engine = "mihomo" \/ conf' # None,
         conf' \in Configs \cup {None}, applied' \in Metas \cup {None},
         backups' \in Seq(Backups)
  PROVE  Typed'
<1>1. faults' \in 0..MaxFaults
  BY EnginesAssumption DEF Typed, TypeOK, Fault
<1> QED BY <1>1 DEF Typed, TypeOK, ServiceOK

LEMMA AppendOne ==
  ASSUME NEW S, NEW s \in Seq(S), NEW x \in S
  PROVE  /\ Append(s, x) \in Seq(S) /\ Len(Append(s, x)) = Len(s) + 1
         /\ \A i \in 1..Len(s) + 1 : Append(s, x)[i] = IF i = Len(s) + 1 THEN x ELSE s[i]
OBVIOUS

\* The test of a candidate and its installation.
LEMMA BackUpTyped == ASSUME Typed, NEW a \in Actors, BackUp(a) PROVE Typed'
<1> USE DEF Typed
<1>1. op[a].at = "back up" /\ op[a] \in Records /\ Shape(engine, op[a]) /\ meta \in Metas
  BY RecordOf DEF BackUp, OpsOK
<1>2. CASE Is(a, {"test"}) /\ ~meta.on
  <2>1. "done" \in Answers /\ End(a, "done")
    BY <1>2 DEF Answers, BackUp
  <2>2. OpsOK'
    BY <1>1, <2>1, EndShape DEF BackUp
  <2> QED BY <1>2, <2>2, OnlyOps DEF BackUp, files, TypeOK
<1>3. CASE ~(Is(a, {"test"}) /\ ~meta.on)
  <2> DEFINE s == IF meta.on THEN "check" ELSE "stop"
             o == [op[a] EXCEPT !.at = s, !.saved = Saved, !.asked = meta]
  <2>1. Saved \in Backups
    BY CoreType
  <2>2. s \in FormSteps /\ s \in Steps
    BY DEF Steps, FormSteps
  <2>3. op' = [op EXCEPT ![a] = o]
    BY <1>3 DEF BackUp, OpsOK
  <2>4. s = "check" \/ (s = "stop" /\ op[a].kind # "test")
    BY <1>1, <1>3 DEF Is, Metas
  <2> HIDE DEF s
  <2>5. o \in Records
    BY <1>1, <2>1, <2>2 DEF Records
  <2>6. /\ o.at = s /\ o.kind = op[a].kind /\ o.asked = meta /\ o.saved = Saved
        /\ o.alone = op[a].alone /\ o.before = op[a].before
    BY <1>1 DEF Records
  <2> HIDE DEF o
  <2>7. s \in StepsOf(o.kind)
    BY <1>1, <2>4, <2>6, KindAt DEF StepsOf, FormSteps
  <2>8. s \notin BareSteps \cup SharedSteps \cup RollSteps \cup UpdateSteps \cup SwapSteps
    BY <2>4 DEF BareSteps, SharedSteps, RollSteps, UpdateSteps, SwapSteps
  <2>9. Shape(engine, o)
    BY <1>1, <2>1, <2>6, <2>7, <2>8 DEF Shape
  <2>10. OpsOK'
    BY <1>1, <1>3, <2>3, <2>5, <2>6, <2>9, OneOp DEF BackUp
  <2>11. backups' \in Seq(Backups)
    <3>1. backups' = Append(backups, Saved) /\ backups \in Seq(Backups)
      BY <1>3 DEF BackUp, TypeOK
    <3> QED BY <2>1, <3>1, AppendOne
  <2> QED BY <1>3, <2>10, <2>11, FilesTyped DEF BackUp, TypeOK, ServiceOK
<1> QED BY <1>2, <1>3

LEMMA CheckTyped ==
  ASSUME Typed, NEW a \in Actors, Check(a) \/ CheckAgain(a) \/ SingBox(a) PROVE Typed'
<1> USE DEF Typed
<1>0. op[a].at \in {"check", "check again", "sing-box"} /\ UNCHANGED <<engine, meta>>
  BY DEF Check, CheckAgain, SingBox, files
<1>1. op[a] \in Records /\ Shape(engine, op[a])
  BY <1>0, RecordOf
<1>2. \A s \in {"put back", "install", "start"} : op[a].at \in {"check", "check again"} /\ Goto(a, s)
        /\ (s = "install" => op[a].at = "check" /\ ~Is(a, {"test"}))
        /\ (s = "start" => op[a].at = "check again")
        => OpsOK'
  <2> SUFFICES ASSUME NEW s \in {"put back", "install", "start"},
                      op[a].at \in {"check", "check again"}, Goto(a, s),
                      s = "install" => op[a].at = "check" /\ ~Is(a, {"test"}),
                      s = "start" => op[a].at = "check again"
               PROVE  OpsOK'
    OBVIOUS
  <2>1. s \in Steps /\ s # "back up" /\ s \notin BareSteps \cup RollSteps \cup UpdateSteps \cup SwapSteps
    BY DEF Steps, FormSteps, SharedSteps, BareSteps, RollSteps, UpdateSteps, SwapSteps
  <2>2. s \in StepsOf(op[a].kind)
    BY <1>1, KindAt DEF StepsOf, FormSteps, SharedSteps, RollSteps, Is
  <2>3. op[a].saved \in Backups
    BY <1>1 DEF Shape, SavedSteps
  <2>4. op[a].asked \in IF op[a].kind = "rollback" THEN Backups ELSE Metas
    BY <1>1, KindAt DEF Shape, FormSteps, RollSteps
  <2>5. s \in FormSteps => op[a].asked \in Metas
    BY <1>1, <2>4, KindAt DEF FormSteps
  <2> QED BY <1>0, <2>1, <2>2, <2>3, <2>4, <2>5, GotoShape
<1>3. OpsOK'
  <2>1. CASE Check(a)
    BY <1>2, <2>1 DEF Check
  <2>2. CASE CheckAgain(a)
    BY <1>2, <2>2 DEF CheckAgain
  <2>3. CASE SingBox(a)
    BY <1>0, <2>3, EndShape DEF SingBox, Answers
  <2> QED BY <2>1, <2>2, <2>3
<1> QED BY <1>3, OnlyOps DEF Check, CheckAgain, SingBox, TypeOK

LEMMA StartTyped ==
  ASSUME Typed, NEW a \in Actors, Start(a) \/ Again(a) \/ IdleStart(a) \/ Recover(a) \/ Halt(a) \/ Stop(a)
  PROVE  Typed'
<1> USE DEF Typed
<1>0. /\ op[a].at \in {"start", "again", "idle start", "recover", "halt", "stop"}
      /\ UNCHANGED <<engine, row, access, candidate, meta, bin, conf, applied, backups, ops>>
  BY DEF Start, Again, IdleStart, Recover, Halt, Stop
<1>1. op[a] \in Records /\ Shape(engine, op[a])
  BY <1>0, RecordOf
<1>2. Came /\ (faults' = faults \/ Fault)
  BY DEF Start, Again, IdleStart, Recover, Halt, Stop, Restart, Came, Fault
<1>3. clean' \in BOOLEAN
  BY DEF Start, Again, IdleStart, Recover, Halt, Stop, Restart, Unseen, TypeOK
<1>4. \A s \in {"put back", "record", "remove"} :
        /\ Goto(a, s) /\ op[a].at \in {"start", "halt", "stop"}
        /\ s = "record" => op[a].at = "start" /\ ~Is(a, {"rollback"})
        /\ s = "remove" => op[a].at = "stop"
        => OpsOK'
  <2> SUFFICES ASSUME NEW s \in {"put back", "record", "remove"}, Goto(a, s),
                      op[a].at \in {"start", "halt", "stop"},
                      s = "record" => op[a].at = "start" /\ ~Is(a, {"rollback"}),
                      s = "remove" => op[a].at = "stop"
               PROVE  OpsOK'
    OBVIOUS
  <2>1. s \in Steps /\ s # "back up" /\ s \notin BareSteps \cup RollSteps \cup UpdateSteps \cup SwapSteps
    BY DEF Steps, FormSteps, SharedSteps, BareSteps, RollSteps, UpdateSteps, SwapSteps
  <2>2. s \in StepsOf(op[a].kind)
    BY <1>1, KindAt DEF StepsOf, FormSteps, SharedSteps, RollSteps, Is
  <2>3. op[a].saved \in Backups
    BY <1>1 DEF Shape, SavedSteps
  <2>4. op[a].asked \in IF op[a].kind = "rollback" THEN Backups ELSE Metas
    BY <1>1, KindAt DEF Shape, FormSteps, RollSteps, SharedSteps
  <2>5. s \in FormSteps => op[a].asked \in Metas
    BY <1>1, <2>4, KindAt DEF FormSteps, Is
  <2> QED BY <1>0, <2>1, <2>2, <2>3, <2>4, <2>5, GotoShape
<1>5. \A x \in Answers : End(a, x) => OpsOK'
  BY <1>0, EndShape
<1>6. Answers = {"failed", "done", "tested", "partly", "down", "died", "stuck"}
  BY DEF Answers
<1>60. ASSUME NEW s \in {"remove", "over"}, NEW x \in Answers \cup {None}, Unseen(a, s, x),
              s = "remove" => op[a].at = "stop"
       PROVE  OpsOK'
  <2>1. "remove" \in Steps /\ "remove" \in FormSteps /\ "remove" \in SavedSteps
    BY DEF Steps, FormSteps, SavedSteps
  <2>2. "remove" \notin BareSteps \cup SharedSteps \cup RollSteps \cup UpdateSteps \cup SwapSteps
    BY DEF BareSteps, SharedSteps, RollSteps, UpdateSteps, SwapSteps
  <2>3. PICK o \in Records :
           /\ op' = [op EXCEPT ![a] = o]
           /\ o.at = s
           /\ o.kind = op[a].kind /\ o.alone = op[a].alone /\ o.before = op[a].before
           /\ o.asked = op[a].asked /\ o.from = op[a].from /\ o.saved = op[a].saved
    <3>1. op[a].at # "idle" /\ s \in Steps \cup {"over"}
      BY <1>0, <2>1
    <3> HIDE DEF Typed
    <3>2. OpsOK
      BY DEF Typed
    <3> QED BY <1>60, <3>1, <3>2, UnseenOp
  <2>4. Shape(engine, o)
    <3>1. CASE s = "over"
      BY <1>1, <2>3, <3>1 DEF Shape
    <3>2. CASE s = "remove"
      <4>1. op[a].at = "stop" /\ "stop" \in FormSteps /\ "stop" \in SavedSteps
        BY <1>60, <3>2 DEF FormSteps, SavedSteps
      <4>2. op[a].asked \in Metas /\ op[a].saved \in Backups /\ engine = "mihomo"
        BY <1>1, <4>1, KindAt DEF Shape
      <4>3. "remove" \in StepsOf(op[a].kind)
        BY <1>1, <4>1, KindAt DEF StepsOf, FormSteps
      <4> QED BY <1>1, <2>2, <2>3, <3>2, <4>1, <4>2, <4>3 DEF Shape
    <3> QED BY <3>1, <3>2
  <2> QED BY <1>0, <2>3, <2>4, OneOp
<1>7. OpsOK'
  <2>1. CASE Start(a)
    BY <1>4, <1>5, <1>6, <2>1 DEF Start, Restart
  <2>2. CASE Again(a)
    BY <1>5, <1>6, <2>2 DEF Again, Restart
  <2>3. CASE IdleStart(a)
    BY <1>5, <1>6, <2>3 DEF IdleStart, Restart
  <2>4. CASE Recover(a)
    BY <1>5, <1>6, <1>60, <2>4 DEF Recover
  <2>5. CASE Halt(a)
    BY <1>4, <1>5, <1>6, <2>5 DEF Halt
  <2>6. CASE Stop(a)
    BY <1>4, <1>60, <2>6 DEF Stop
  <2> QED BY <2>1, <2>2, <2>3, <2>4, <2>5, <2>6
<1> QED BY <1>0, <1>2, <1>3, <1>7, ServedTyped

LEMMA InstallTyped ==
  ASSUME Typed, NEW a \in Actors,
         Install(a) \/ Record(a) \/ Remove(a) \/ PutBack(a) \/ RollBack(a) \/ IdleConf(a)
  PROVE  Typed'
<1> USE DEF Typed
<1>0. /\ op[a].at \in {"install", "record", "remove", "put back", "roll back", "idle conf"}
      /\ UNCHANGED <<engine, row, access, candidate, meta, bin, served, backups, ops, clean>>
      /\ faults' = faults \/ Fault
  BY DEF Install, Record, Remove, PutBack, RollBack, IdleConf
<1>1. op[a] \in Records /\ Shape(engine, op[a])
  BY <1>0, RecordOf
<1>2. /\ op[a].at \in {"record", "remove", "install"} => op[a].asked \in Metas /\ op[a].saved \in Backups
      /\ op[a].at = "put back" => op[a].saved \in Backups
      /\ op[a].at \in {"put back", "recover"} =>
           op[a].asked \in IF op[a].kind = "rollback" THEN Backups ELSE Metas
      /\ op[a].at = "roll back" => op[a].asked \in Backups /\ op[a].saved \in Backups
  BY <1>1 DEF Shape, FormSteps, SavedSteps, SharedSteps, RollSteps
<1>3. engine = "mihomo"
  <2>1. op[a].kind # "update"
    BY <1>0, <1>1, KindAt DEF RollSteps
  <2> QED BY <1>0, <1>1, <2>1 DEF Shape
<1>4. conf' \in Configs \cup {None} /\ applied' \in Metas \cup {None}
  BY <1>2 DEF Install, Record, Remove, PutBack, RollBack, IdleConf, TypeOK, Configs, Backups
<1>5. \A s \in {"start", "put back", "sing-box", "recover", "halt", "check again", "idle start"} :
        /\ Goto(a, s)
        /\ op[a].kind \in {"apply", "clients", "rollback"}
        /\ s = "start" => op[a].at = "install"
        /\ s = "put back" => op[a].at \in {"install", "record", "remove", "roll back"}
        /\ s = "sing-box" => Is(a, {"apply"}) /\ op[a].at \in {"record", "remove"}
        /\ s = "recover" => op[a].at = "put back"
        /\ s \in {"halt", "check again"} => op[a].at = "roll back"
        /\ s = "idle start" => op[a].at = "idle conf"
        => OpsOK'
  <2> SUFFICES ASSUME NEW s \in {"start", "put back", "sing-box", "recover", "halt", "check again",
                                 "idle start"},
                      Goto(a, s),
                      op[a].kind \in {"apply", "clients", "rollback"},
                      s = "start" => op[a].at = "install",
                      s = "put back" => op[a].at \in {"install", "record", "remove", "roll back"},
                      s = "sing-box" => Is(a, {"apply"}) /\ op[a].at \in {"record", "remove"},
                      s = "recover" => op[a].at = "put back",
                      s \in {"halt", "check again"} => op[a].at = "roll back",
                      s = "idle start" => op[a].at = "idle conf"
               PROVE  OpsOK'
    OBVIOUS
  <2>1. s \in Steps /\ s # "back up" /\ s \notin UpdateSteps \cup SwapSteps
    BY DEF Steps, FormSteps, SharedSteps, BareSteps, RollSteps, UpdateSteps, SwapSteps
  <2>2. s \in StepsOf(op[a].kind)
    BY <1>1, KindAt DEF StepsOf, FormSteps, SharedSteps, RollSteps, Is
  <2>3. s \in SavedSteps => op[a].saved \in Backups
    BY <1>1, <1>2 DEF SavedSteps
  <2>4. s \in SharedSteps => op[a].asked \in IF op[a].kind = "rollback" THEN Backups ELSE Metas
    <3>1. s \in SharedSteps => s \in {"start", "put back", "recover"}
      BY DEF SharedSteps
    <3>2. op[a].at \in {"install", "record", "remove"} => op[a].kind # "rollback"
      BY <1>1, KindAt
    <3>3. op[a].at = "roll back" => op[a].kind = "rollback"
      BY <1>1, KindAt DEF RollSteps
    <3> QED BY <1>2, <3>1, <3>2, <3>3
  <2>5. s \in FormSteps => op[a].asked \in Metas
    BY <1>1, <1>2 DEF FormSteps
  <2>6. s \in RollSteps => op[a].asked \in Backups
    BY <1>1, <1>2 DEF RollSteps
  <2>7. s \in BareSteps => s = "idle start"
    BY DEF BareSteps
  <2>8. CASE s # "idle start"
    BY <1>0, <2>1, <2>2, <2>3, <2>4, <2>5, <2>6, <2>7, <2>8, GotoShape
  <2>9. CASE s = "idle start"
    <3> DEFINE o == [op[a] EXCEPT !.at = s]
    <3>1. o \in Records /\ op' = [op EXCEPT ![a] = o]
      BY <1>0, <2>1, GotoOp
    <3>2. /\ o.at = s /\ o.alone = op[a].alone /\ o.before = op[a].before /\ o.kind = op[a].kind
          /\ o.asked = op[a].asked /\ o.from = op[a].from /\ o.saved = op[a].saved
      BY <1>1 DEF Records
    <3> HIDE DEF o
    <3>3. s \notin FormSteps \cup SharedSteps \cup RollSteps \cup UpdateSteps \cup SavedSteps
      BY <2>9 DEF FormSteps, SharedSteps, RollSteps, UpdateSteps, SwapSteps, SavedSteps
    <3>4. op[a].asked = None
      BY <1>1, <2>9 DEF Shape, BareSteps
    <3>5. Shape(engine, o)
      BY <1>1, <1>3, <2>1, <2>2, <2>9, <3>2, <3>3, <3>4 DEF Shape
    <3> QED BY <1>0, <2>9, <3>1, <3>2, <3>5, OneOp
  <2> QED BY <2>8, <2>9
<1>6. \A x \in Answers : End(a, x) => OpsOK'
  BY <1>0, EndShape
<1>7. "done" \in Answers /\ "tested" \in Answers
  BY DEF Answers
<1>8. OpsOK'
  <2>0. op[a].kind \in {"apply", "clients", "rollback"} \/ (op[a].kind = "test" /\ op[a].at = "put back")
    BY <1>0, <1>1, KindAt DEF RollSteps
  <2>1. CASE Install(a)
    BY <1>5, <2>0, <2>1 DEF Install
  <2>2. CASE Record(a)
    BY <1>5, <1>6, <1>7, <2>0, <2>2 DEF Record
  <2>3. CASE Remove(a)
    BY <1>5, <1>6, <1>7, <2>0, <2>3 DEF Remove
  <2>4. CASE PutBack(a)
    BY <1>5, <1>6, <1>7, <2>0, <2>4 DEF PutBack, Is
  <2>5. CASE RollBack(a)
    BY <1>5, <2>0, <2>5 DEF RollBack
  <2>6. CASE IdleConf(a)
    BY <1>5, <2>0, <2>6 DEF IdleConf
  <2> QED BY <2>1, <2>2, <2>3, <2>4, <2>5, <2>6
<1> QED BY <1>0, <1>3, <1>4, <1>8, FilesTyped DEF TypeOK

LEMMA SelectTyped == ASSUME Typed, NEW a \in Actors, Select(a) PROVE Typed'
<1> USE DEF Typed
<1>1. op[a].at = "select" /\ op[a] \in Records /\ Shape(engine, op[a])
  BY RecordOf DEF Select
<1>2. CASE backups = <<>>
  <2>1. OpsOK'
    BY <1>1, <1>2, EndShape DEF Select, Answers
  <2> QED BY <1>2, <2>1, OnlyOps DEF Select, files, TypeOK
<1>3. CASE backups # <<>>
  <2> DEFINE asked == backups[Len(backups)]
             o == [op[a] EXCEPT !.at = "roll back", !.saved = Saved, !.asked = asked]
  <2>1. Saved \in Backups
    BY CoreType
  <2>2. backups \in Seq(Backups) /\ asked \in Backups
    <3>1. backups \in Seq(Backups)
      BY DEF TypeOK
    <3> QED BY <1>3, <3>1
  <2>3. op' = [op EXCEPT ![a] = o] /\ backups' = Append(backups, Saved)
    BY <1>3 DEF Select, OpsOK
  <2> HIDE DEF asked
  <2>4. "roll back" \in Steps
    BY DEF Steps, RollSteps
  <2>5. o \in Records
    BY <1>1, <2>1, <2>2, <2>4 DEF Records
  <2>6. /\ o.at = "roll back" /\ o.kind = op[a].kind /\ o.asked = asked /\ o.saved = Saved
        /\ o.alone = op[a].alone /\ o.before = op[a].before
    BY <1>1 DEF Records
  <2> HIDE DEF o
  <2>7. "roll back" \in StepsOf(o.kind)
    BY <1>1, <2>6, KindAt DEF StepsOf, RollSteps
  <2>8. "roll back" \notin BareSteps \cup FormSteps \cup SharedSteps \cup UpdateSteps \cup SwapSteps
    BY DEF BareSteps, FormSteps, SharedSteps, UpdateSteps, SwapSteps
  <2>9. Shape(engine, o)
    BY <1>1, <2>1, <2>2, <2>6, <2>7, <2>8 DEF Shape
  <2>10. OpsOK'
    BY <1>3, <2>3, <2>5, <2>6, <2>9, OneOp DEF Select
  <2>11. backups' \in Seq(Backups)
    BY <2>1, <2>2, <2>3, AppendOne
  <2> QED BY <1>3, <2>10, <2>11, FilesTyped DEF Select, TypeOK, ServiceOK
<1> QED BY <1>2, <1>3

LEMMA HelperTyped == ASSUME Typed, NEW a \in Actors, Helper(a) PROVE Typed'
BY BackUpTyped, CheckTyped, InstallTyped, StartTyped, SelectTyped DEF Helper

\* The jobs.
LEMMA ChooseTyped == ASSUME Typed, NEW a \in Actors, ChooseRelease(a) PROVE Typed'
<1> USE DEF Typed
<1>1. op[a].at = "version" /\ op[a] \in Records /\ Shape(engine, op[a])
  BY RecordOf DEF ChooseRelease
<1>2. CASE End(a, "failed")
  <2>1. OpsOK'
    BY <1>1, <1>2, EndShape DEF ChooseRelease, Answers, files
  <2> QED BY <1>2, <2>1, OnlyOps DEF ChooseRelease, TypeOK
<1>3. ASSUME NEW target \in Versions,
             op' = [op EXCEPT ![a].at = "fetch", ![a].asked = target, ![a].from = bin]
      PROVE  Typed'
  <2> DEFINE o == [op[a] EXCEPT !.at = "fetch", !.asked = target, !.from = bin]
  <2>1. bin \in Versions
    BY DEF TypeOK
  <2>3. op' = [op EXCEPT ![a] = o]
    BY <1>3 DEF OpsOK
  <2>4. "fetch" \in Steps
    BY DEF Steps, UpdateSteps
  <2>5. o \in Records
    BY <1>1, <2>1, <2>4 DEF Records
  <2>6. /\ o.at = "fetch" /\ o.kind = op[a].kind /\ o.asked = target /\ o.from = bin
        /\ o.alone = op[a].alone /\ o.before = op[a].before
    BY <1>1 DEF Records
  <2> HIDE DEF o
  <2>7. "fetch" \in StepsOf(o.kind) /\ o.kind = "update"
    BY <1>1, <2>6, KindAt DEF StepsOf, UpdateSteps
  <2>8. "fetch" \notin BareSteps \cup FormSteps \cup SharedSteps \cup RollSteps \cup SwapSteps \cup SavedSteps
    BY DEF BareSteps, FormSteps, SharedSteps, RollSteps, SwapSteps, SavedSteps
  <2>9. Shape(engine, o)
    BY <1>1, <2>1, <2>6, <2>7, <2>8 DEF Shape
  <2>10. OpsOK'
    BY <2>3, <2>5, <2>6, <2>9, OneOp DEF ChooseRelease, files
  <2> QED BY <2>10, OnlyOps DEF ChooseRelease, TypeOK
<1> QED BY <1>2, <1>3 DEF ChooseRelease, Released

LEMMA UpdateShape ==
  ASSUME NEW o \in Records, NEW e, Shape(e, o), o.at \in UpdateSteps
  PROVE  /\ o.kind = "update" /\ o.asked \in Versions /\ o.from \in Versions
         /\ o.at \in SwapSteps => o.saved \in Kept
         /\ UpdateSteps \subseteq StepsOf(o.kind)
<1>1. o.at # "over"
  BY DEF UpdateSteps, SwapSteps
<1>2. o.kind = "update"
  BY <1>1, KindAt
<1> QED BY <1>1, <1>2 DEF Shape, StepsOf

LEMMA UpdateGoto ==
  ASSUME OpsOK, NEW a \in Actors, op[a].at \in UpdateSteps, NEW s \in UpdateSteps, Goto(a, s),
         s \in SwapSteps => op[a].at \in SwapSteps,
         engine' = engine, meta' = meta
  PROVE  OpsOK'
<1>1. op[a].at \notin {"idle", "over"}
  BY DEF UpdateSteps, SwapSteps
<1>2. op[a] \in Records /\ Shape(engine, op[a])
  BY <1>1, RecordOf
<1>3. s \in Steps /\ s # "back up" /\ s \notin BareSteps \cup FormSteps \cup SharedSteps \cup RollSteps \cup SavedSteps
  BY DEF Steps, UpdateSteps, SwapSteps, BareSteps, FormSteps, SharedSteps, RollSteps, SavedSteps
<1> QED BY <1>1, <1>2, <1>3, UpdateShape, GotoShape

LEMMA JobTyped ==
  ASSUME Typed, NEW a \in Actors,
         Fetch(a) \/ Keep(a) \/ Swap(a) \/ RestartNew(a) \/ Regenerate(a) \/ Verify(a)
           \/ SwapBack(a) \/ RestartOld(a)
  PROVE  Typed'
<1> USE DEF Typed
<1>0. op[a].at \in UpdateSteps /\ UNCHANGED <<engine, row, access, candidate, meta, applied, backups, ops>>
  BY DEF Fetch, Keep, Swap, RestartNew, Regenerate, Verify, SwapBack, RestartOld, UpdateSteps,
         SwapSteps, files
<1>1. op[a].at \notin {"idle", "over"}
  BY <1>0 DEF UpdateSteps, SwapSteps
<1>2. op[a] \in Records /\ Shape(engine, op[a])
  BY <1>1, RecordOf
<1>3. \A x \in Answers : End(a, x) => OpsOK'
  BY <1>0, <1>1, EndShape
<1>4. "failed" \in Answers /\ "done" \in Answers /\ "stuck" \in Answers
  BY DEF Answers
<1>5. \A s \in UpdateSteps : Goto(a, s) /\ (s \in SwapSteps => op[a].at \in SwapSteps) => OpsOK'
  BY <1>0, UpdateGoto
<1>6. SwapSteps \subseteq UpdateSteps /\ "keep" \in UpdateSteps \ SwapSteps
  BY DEF UpdateSteps, SwapSteps
<1>7. CASE Fetch(a)
  <2>1. OpsOK'
    BY <1>3, <1>4, <1>5, <1>6, <1>7 DEF Fetch
  <2> QED BY <1>7, <2>1, OnlyOps DEF Fetch, TypeOK
<1>8. CASE Keep(a)
  <2> DEFINE saved == [bin |-> bin, conf |-> IF Recovery(bin) THEN conf ELSE None,
                       up |-> engine = "xray" \/ served # None]
             o == [op[a] EXCEPT !.at = "swap", !.saved = saved]
  <2>1. saved \in Kept
    BY DEF Kept, TypeOK
  <2>3. op' = [op EXCEPT ![a] = o]
    BY <1>8 DEF Keep, OpsOK
  <2> HIDE DEF saved
  <2>4. "swap" \in Steps /\ "swap" \in UpdateSteps
    BY DEF Steps, UpdateSteps, SwapSteps
  <2>5. o \in Records
    BY <1>2, <2>1, <2>4 DEF Records
  <2>6. /\ o.at = "swap" /\ o.kind = op[a].kind /\ o.asked = op[a].asked /\ o.from = op[a].from
        /\ o.saved = saved /\ o.alone = op[a].alone /\ o.before = op[a].before
    BY <1>2 DEF Records
  <2> HIDE DEF o
  <2>8. "swap" \notin BareSteps \cup FormSteps \cup SharedSteps \cup RollSteps \cup SavedSteps
    BY DEF BareSteps, FormSteps, SharedSteps, RollSteps, SavedSteps
  <2>9. Shape(engine, o)
    BY <1>0, <1>1, <1>2, <2>1, <2>4, <2>6, <2>8, UpdateShape DEF Shape
  <2>10. OpsOK'
    BY <1>8, <2>3, <2>5, <2>6, <2>9, OneOp DEF Keep, files
  <2> QED BY <1>8, <2>10, OnlyOps DEF Keep, TypeOK
<1>9. CASE Swap(a)
  <2>1. op[a].at \in SwapSteps /\ {"regenerate", "restart", "verify"} \subseteq SwapSteps
    BY <1>9 DEF Swap, SwapSteps
  <2>2. OpsOK'
    BY <1>5, <1>6, <1>9, <2>1 DEF Swap
  <2>3. bin' \in Versions
    BY <1>0, <1>2, <1>9, UpdateShape DEF Swap
  <2> QED BY <1>9, <2>2, <2>3 DEF Swap, TypeOK, ServiceOK, Loads
<1>10. CASE RestartNew(a)
  <2>1. op[a].at \in SwapSteps /\ {"verify", "swap back"} \subseteq SwapSteps
    BY <1>10 DEF RestartNew, SwapSteps
  <2>2. OpsOK'
    BY <1>5, <1>6, <1>10, <2>1 DEF RestartNew, Restart
  <2> QED BY <1>10, <2>2, ServedTyped DEF RestartNew, Restart, Came, Fault, TypeOK
<1>11. CASE Regenerate(a)
  <2>1. op[a].at \in SwapSteps /\ {"verify", "swap back"} \subseteq SwapSteps
    BY <1>11 DEF Regenerate, SwapSteps
  <2>2. OpsOK'
    BY <1>5, <1>6, <1>11, <2>1 DEF Regenerate
  <2>3. Body \in Configs /\ [opt : Options, cred : {0}] \subseteq Configs
    BY RenderedType, EnginesAssumption DEF Configs, Bodies
  <2>4. conf' \in Configs \cup {None} /\ (engine = "xray" => conf' # None)
    BY <1>11, <2>3, MarkersAssumption DEF Regenerate, TypeOK, ServiceOK
  <2>5. served' = None \/ (Loads(bin, conf') /\ served' = [bin |-> bin, conf |-> conf'])
    BY <1>11 DEF Regenerate
  <2>6. served' \in Services /\ (served' # None => Loads(served'.bin, served'.conf))
    <3>1. CASE served' = None
      BY <3>1 DEF Services
    <3>2. CASE Loads(bin, conf') /\ served' = [bin |-> bin, conf |-> conf']
      <4>1. bin \in Versions /\ conf' \in Configs
        BY <2>4, <3>2 DEF TypeOK, Loads
      <4> QED BY <3>2, <4>1 DEF Services, Running
    <3> QED BY <2>5, <3>1, <3>2
  <2>7. faults' \in 0..MaxFaults
    <3>1. faults' = faults \/ Fault
      BY <1>11 DEF Regenerate
    <3> QED BY <3>1, EnginesAssumption DEF Fault, TypeOK
  <2> QED BY <1>11, <2>2, <2>4, <2>6, <2>7 DEF Regenerate, TypeOK, ServiceOK
<1>12. CASE Verify(a)
  <2>1. op[a].at \in SwapSteps /\ "swap back" \in SwapSteps
    BY <1>12 DEF Verify, SwapSteps
  <2>2. OpsOK'
    BY <1>3, <1>4, <1>5, <1>6, <1>12, <2>1 DEF Verify
  <2> QED BY <1>12, <2>2, OnlyOps DEF Verify, TypeOK
<1>13. CASE SwapBack(a)
  <2>1. op[a].at \in SwapSteps /\ "restart old" \in SwapSteps
    BY <1>13 DEF SwapBack, SwapSteps
  <2>2. OpsOK'
    BY <1>3, <1>4, <1>5, <1>6, <1>13, <2>1 DEF SwapBack
  <2>3. op[a].saved \in Kept
    BY <1>0, <1>2, <2>1, UpdateShape
  <2>4. bin' \in Versions /\ conf' \in Configs \cup {None} /\ (engine = "xray" => conf' # None)
    BY <1>13, <2>3 DEF SwapBack, Kept, TypeOK, ServiceOK
  <2> QED BY <1>13, <2>2, <2>4 DEF SwapBack, TypeOK, ServiceOK, Loads
<1>14. CASE RestartOld(a)
  <2>1. OpsOK' /\ clean' \in BOOLEAN
    BY <1>3, <1>4, <1>14 DEF RestartOld, Restart, TypeOK
  <2> QED BY <1>14, <2>1, ServedTyped DEF RestartOld, Restart, Came, Fault
<1> QED BY <1>7, <1>8, <1>9, <1>10, <1>11, <1>12, <1>13, <1>14

LEMMA InitTyped == Init => Typed
<1> SUFFICES ASSUME Init PROVE Typed
  OBVIOUS
<1>1. OpsOK
  BY DEF Init, OpsOK, NoOp
<1>2. bin \in Versions /\ conf \in Configs /\ conf # None
  BY EnginesAssumption, MarkersAssumption DEF Init, Configs, Bodies, Loads
<1>3. served \in Services /\ Loads(served.bin, served.conf)
  BY <1>2 DEF Init, Services, Running
<1>4. TypeOK
  BY <1>2, <1>3, EnginesAssumption DEF Init, TypeOK, Forms
<1> QED BY <1>1, <1>2, <1>3, <1>4 DEF Typed, ServiceOK

LEMMA NextTyped == Typed /\ [Next]_vars => Typed'
<1> SUFFICES ASSUME Typed, [Next]_vars PROVE Typed'
  OBVIOUS
<1>1. CASE UNCHANGED vars
  <2>1. OpsOK'
    BY <1>1 DEF Typed, OpsOK, vars
  <2> QED BY <1>1, <2>1 DEF Typed, TypeOK, ServiceOK, vars, Loads
<1>2. CASE Next
  BY <1>2, PanelTyped, BesideTyped, CandidateTyped, HelperTyped, ChooseTyped, JobTyped, EndsTyped
     DEF Next, Job
<1> QED BY <1>1, <1>2

\* The files, the service, the records of operations and the counters keep
\* their types.
THEOREM EnginesTypes == Spec => []TypeOK
<1>1. Spec => []Typed
  BY InitTyped, NextTyped, PTL DEF Spec
<1>2. Typed => TypeOK
  BY DEF Typed
<1> QED BY <1>1, <1>2, PTL

-----------------------------------------------------------------------------
\* What the steps of an operation have in common.

JobStep(a) == ChooseRelease(a) \/ Fetch(a) \/ Keep(a) \/ Swap(a) \/ RestartNew(a)
                \/ Regenerate(a) \/ Verify(a) \/ SwapBack(a) \/ RestartOld(a)
FormStep(a) == Build(a) \/ Describe(a) \/ Helper(a)

\* The record of a changes, and keeps what it began with.
Acts(a) ==
  /\ Working(a)
  /\ op[a] \in Records /\ Shape(engine, op[a])
  /\ op'[a] \in Records /\ Shape(engine, op'[a])
  /\ op'[a].kind = op[a].kind /\ op'[a].alone = op[a].alone /\ op'[a].before = op[a].before
  /\ op'[a].unseen = op[a].unseen \/ op[a].at \in {"stop", "recover"}
  /\ \A b \in Actors \ {a} : op'[b] = op[b]
  /\ UNCHANGED <<engine, row, access>>

LEMMA ActsEnd ==
  ASSUME Typed, NEW a \in Actors, Working(a), NEW x \in Answers, End(a, x),
         UNCHANGED <<engine, row, access>>, Typed'
  PROVE  /\ Acts(a) /\ op'[a].at = "over" /\ op'[a].answer = x
         /\ op'[a].asked = op[a].asked /\ op'[a].from = op[a].from /\ op'[a].saved = op[a].saved
         /\ op'[a].unseen = op[a].unseen
<1> USE DEF Typed
<1>1. op[a].at # "idle" /\ op[a] \in Records /\ Shape(engine, op[a])
  BY RecordOf DEF Working
<1> DEFINE o == [op[a] EXCEPT !.at = "over", !.answer = x]
<1>2. op' = [op EXCEPT ![a] = o] /\ o \in Records
  BY <1>1, EndOp
<1>3. /\ o.at = "over" /\ o.answer = x /\ o.kind = op[a].kind /\ o.alone = op[a].alone
      /\ o.before = op[a].before /\ o.asked = op[a].asked /\ o.from = op[a].from
      /\ o.saved = op[a].saved /\ o.unseen = op[a].unseen
  BY <1>1 DEF Records
<1> HIDE DEF o
<1>4. op'[a] = o /\ \A b \in Actors \ {a} : op'[b] = op[b]
  BY <1>2 DEF OpsOK
<1>5. Shape(engine, op'[a])
  BY <1>3, <1>4 DEF OpsOK
<1> QED BY <1>1, <1>2, <1>3, <1>4, <1>5 DEF Acts

LEMMA ActsGoto ==
  ASSUME Typed, NEW a \in Actors, Working(a), NEW s \in Steps, Goto(a, s),
         UNCHANGED <<engine, row, access>>, Typed'
  PROVE  /\ Acts(a) /\ op'[a].at = s
         /\ op'[a].asked = op[a].asked /\ op'[a].from = op[a].from /\ op'[a].saved = op[a].saved
         /\ op'[a].unseen = op[a].unseen
<1> USE DEF Typed
<1>1. op[a].at # "idle" /\ op[a] \in Records /\ Shape(engine, op[a])
  BY RecordOf DEF Working
<1> DEFINE o == [op[a] EXCEPT !.at = s]
<1>2. op' = [op EXCEPT ![a] = o] /\ o \in Records
  BY <1>1, GotoOp
<1>3. /\ o.at = s /\ o.kind = op[a].kind /\ o.alone = op[a].alone
      /\ o.before = op[a].before /\ o.asked = op[a].asked /\ o.from = op[a].from
      /\ o.saved = op[a].saved /\ o.unseen = op[a].unseen
  BY <1>1 DEF Records
<1>4. s # "idle"
  BY StepIsString
<1> HIDE DEF o
<1>5. op'[a] = o /\ \A b \in Actors \ {a} : op'[b] = op[b]
  BY <1>2 DEF OpsOK
<1>6. Shape(engine, op'[a])
  BY <1>3, <1>4, <1>5 DEF OpsOK
<1> QED BY <1>1, <1>2, <1>3, <1>5, <1>6 DEF Acts

LEMMA ActsUnseen ==
  ASSUME Typed, NEW a \in Actors, Working(a), NEW s \in Steps \cup {"over"},
         NEW x \in Answers \cup {None}, Unseen(a, s, x), op[a].at \in {"stop", "recover"},
         UNCHANGED <<engine, row, access>>, Typed'
  PROVE  /\ Acts(a) /\ op'[a].at = s /\ op'[a].answer = x /\ op'[a].unseen /\ ~clean'
         /\ op'[a].asked = op[a].asked /\ op'[a].saved = op[a].saved
<1> USE DEF Typed
<1>1. op[a].at # "idle" /\ op[a] \in Records /\ Shape(engine, op[a])
  BY RecordOf DEF Working
<1>2. PICK o \in Records :
           /\ op' = [op EXCEPT ![a] = o]
           /\ o.at = s /\ o.answer = x /\ o.unseen
           /\ o.kind = op[a].kind /\ o.alone = op[a].alone /\ o.before = op[a].before
           /\ o.asked = op[a].asked /\ o.saved = op[a].saved
  BY <1>1, UnseenOp
<1>3. op'[a] = o /\ \A b \in Actors \ {a} : op'[b] = op[b]
  BY <1>2 DEF OpsOK
<1>4. s # "idle"
  BY StepIsString
<1>5. Shape(engine, op'[a])
  BY <1>2, <1>3, <1>4 DEF OpsOK
<1> QED BY <1>1, <1>2, <1>3, <1>5 DEF Acts, Unseen

\* One update at a time.
LEMMA UpdatesOne ==
  ASSUME Typed, Updates, NEW a \in Actors, Acts(a),
         op'[a].at # "over" /\ op'[a].kind = "update" /\ op'[a].asked # None =>
           /\ \A b \in Actors : Holds(b) => b = a
           /\ Progress(bin', op'[a]),
         bin' = bin \/ Holds(a)
  PROVE  Updates'
<1>1. ASSUME NEW b \in Actors, b # a, op'[b].at \notin {"idle", "over"}, op'[b].kind = "update",
             op'[b].asked # None
      PROVE  Holds(b) /\ op'[b] = op[b] /\ Progress(bin', op'[b])
  <2>1. op'[b] = op[b]
    BY <1>1 DEF Acts
  <2>2. Holds(b)
    BY <1>1, <2>1 DEF Holds, Working
  <2> QED BY <1>1, <2>1, <2>2 DEF Updates
<1>2. ASSUME NEW b \in Actors, Holds(b)' PROVE Progress(bin, op[b])'
  BY <1>1, <1>2 DEF Holds, Working, Progress
<1>3. ASSUME NEW b \in Actors, NEW c \in Actors, Holds(b)', Holds(c)' PROVE b = c
  <2>1. CASE b = a
    BY <1>1, <1>3, <2>1 DEF Holds, Working
  <2>2. CASE c = a
    BY <1>1, <1>3, <2>2 DEF Holds, Working
  <2>3. CASE b # a /\ c # a
    BY <1>1, <1>3, <2>3 DEF Holds, Working, Updates
  <2> QED BY <2>1, <2>2, <2>3
<1> QED BY <1>2, <1>3 DEF Updates

\* An operation that runs alone is the only one.
LEMMA StoriesOne ==
  ASSUME Typed, Apart, Stories, NEW a \in Actors, Acts(a), Sound(a)'
  PROVE  Apart' /\ Stories'
<1>1. ASSUME NEW b \in Actors, b # a, Working(b)' PROVE Working(b) /\ op'[b] = op[b] /\ ~op[b].alone /\ ~op[a].alone
  <2>1. op'[b] = op[b] /\ Working(a)
    BY <1>1 DEF Acts
  <2> QED BY <1>1, <2>1 DEF Working, Apart
<1>2. Apart'
  <2> SUFFICES ASSUME NEW b \in Actors, NEW c \in Actors, Working(b)', op'[b].alone, Working(c)'
               PROVE  b = c
    BY DEF Apart
  <2> QED BY <1>1 DEF Acts
<1>3. ASSUME NEW b \in Actors, Working(b)' PROVE Story(op[b])'
  <2>1. CASE b = a
    BY <1>3, <2>1 DEF Sound, Working
  <2>2. CASE b # a
    BY <1>1, <1>3, <2>2 DEF Story
  <2> QED BY <2>1, <2>2
<1> QED BY <1>2, <1>3 DEF Stories

-----------------------------------------------------------------------------
\* The story of an operation of the helper.

FormEnd(o, b) ==
  /\ o.answer \in {"failed", "tested"} => Installed = InstalledIn(b)
  /\ o.answer \in {"failed", "tested"} /\ ~o.unseen => served = b.served
  /\ o.answer \in {"done", "partly"} =>
       /\ IF o.unseen THEN conf = None /\ served = b.served ELSE Settled(Core)
       /\ o.kind \in {"apply", "clients"} /\ o.asked # None =>
            /\ conf = IF o.asked.on THEN Rendered ELSE None
            /\ applied = o.asked
       /\ o.kind = "rollback" => Saved = o.asked
       /\ o.kind \in {"restart", "test"} => Saved = SavedOf(b)
       /\ o.kind \in {"apply", "clients"} =>
            conf \in {Idle, None} \/ (conf = Rendered /\ applied = AskedForm)

LEMMA FormSound ==
  ASSUME NEW a \in Actors, Acts(a), op[a].kind # "update", Story(op[a]),
         op[a].alone /\ Grounded(op[a].before) /\ FormStory(op[a], op[a].before) =>
           IF op'[a].at = "over" THEN FormEnd(op[a], op[a].before)'
                                 ELSE FormStory(op[a], op[a].before)'
  PROVE  Sound(a)'
<1>1. CASE ~(op[a].alone /\ Settled(op[a].before))
  BY <1>1 DEF Acts, Sound, Outcome, Story
<1>2. CASE op[a].alone /\ Settled(op[a].before)
  <2>1. Grounded(op[a].before) /\ FormStory(op[a], op[a].before)
    BY <1>2 DEF Story
  <2>2. Grounded(op[a].before)'
    BY <2>1 DEF Grounded, Acts
  <2>3. CASE op'[a].at = "over"
    <3>1. FormEnd(op[a], op[a].before)'
      BY <1>2, <2>1, <2>3
    <3>2. Outcome(op[a])'
      BY <3>1 DEF FormEnd, Outcome, AloneIsTrue, Acts
    <3> QED BY <2>3, <3>2 DEF Sound
  <2>4. CASE op'[a].at # "over"
    <3>1. FormStory(op[a], op[a].before)'
      BY <1>2, <2>1, <2>4
    <3> QED BY <2>2, <2>4, <3>1 DEF Sound, Story, Acts
  <2> QED BY <2>3, <2>4
<1> QED BY <1>1, <1>2

LEMMA SameForm ==
  ASSUME UNCHANGED <<row, access>>
  PROVE  AskedForm' = AskedForm /\ Rendered' = Rendered
BY DEF AskedForm, Rendered, Body

LEMMA SameCore == 
  ASSUME UNCHANGED <<bin, conf, applied, served>>
  PROVE  Core' = Core /\ Saved' = Saved
BY DEF Core, Saved

\* An operation of the helper goes on, or ends with an answer.
Says(a, x) == op'[a].at = "over" /\ op'[a].answer = x /\ op'[a].unseen = op[a].unseen
OnTo(a, s) == /\ op'[a].at = s /\ op'[a].unseen = op[a].unseen
              /\ op'[a].asked = op[a].asked /\ op'[a].saved = op[a].saved

\* The core is what it was.
LEMMA CoreBack ==
  ASSUME NEW b, Core = b
  PROVE  Installed = InstalledIn(b) /\ served = b.served
BY DEF Core, Installed, InstalledIn

\* What a step does to the backups and the record of a clean operation.
Told == {"failed", "tested", "done", "partly"}
Tidy(a) ==
  /\ clean' => clean /\ (op'[a].at = "over" => op'[a].answer \in Told) /\ (op'[a].unseen => op[a].unseen)
  /\ op[a].kind = "rollback" /\ (op'[a].at # "over" \/ op'[a].answer \in {"done", "partly"}) =>
       IF op[a].at = "select" THEN \E i \in 1..Len(backups) : op'[a].asked = backups[i]
                              ELSE op'[a].asked = op[a].asked
  /\ \/ backups' = backups
     \/ backups' = Append(backups, Saved) /\ op[a].at \in {"back up", "select"}

Steady(a) == Acts(a) /\ Sound(a)' /\ Tidy(a) /\ bin' = bin /\ op[a].kind # "update"

LEMMA CheckSound ==
  ASSUME Typed, Typed', NEW a \in Actors, Check(a) \/ CheckAgain(a) \/ SingBox(a), Story(op[a])
  PROVE  Steady(a)
<1> USE DEF Typed
<1>0. /\ op[a].at \in {"check", "check again", "sing-box"}
      /\ UNCHANGED <<engine, row, access, files, ops, clean>>
  BY DEF Check, CheckAgain, SingBox
<1>1. Working(a) /\ op[a] \in Records /\ Shape(engine, op[a])
  BY <1>0, RecordOf DEF Working
<1>2. op[a].kind # "update"
  BY <1>0, <1>1, KindAt DEF RollSteps
<1>3. /\ {"put back", "install", "start"} \subseteq Steps
      /\ {"done", "partly"} \subseteq Answers
  BY DEF Steps, SharedSteps, FormSteps, Answers
<1>4. \/ op[a].at = "check" /\ Acts(a) /\ OnTo(a, "put back")
      \/ op[a].at = "check" /\ Acts(a) /\ OnTo(a, "install") /\ Loads(bin, candidate)
      \/ op[a].at = "check again" /\ Acts(a) /\ OnTo(a, "start") /\ Loads(bin, conf)
      \/ op[a].at = "check again" /\ Acts(a) /\ OnTo(a, "put back")
      \/ op[a].at = "sing-box" /\ Acts(a) /\ op'[a].asked = op[a].asked
           /\ (Says(a, "done") \/ Says(a, "partly"))
  <2>1. CASE Check(a)
    BY <1>0, <1>1, <1>3, <2>1, ActsGoto DEF Check, OnTo
  <2>2. CASE CheckAgain(a)
    BY <1>0, <1>1, <1>3, <2>2, ActsGoto DEF CheckAgain, OnTo
  <2>3. CASE SingBox(a)
    BY <1>0, <1>1, <1>3, <2>3, ActsEnd DEF SingBox, Says
  <2> QED BY <2>1, <2>2, <2>3
<1>5. /\ op'[a].kind = op[a].kind /\ op'[a].before = op[a].before
      /\ op'[a].unseen = op[a].unseen \/ op[a].at \in {"stop", "recover"}
  BY <1>4 DEF Acts
<1>6. /\ AskedForm' = AskedForm /\ Rendered' = Rendered /\ Core' = Core /\ Saved' = Saved
      /\ bin' = bin /\ conf' = conf /\ applied' = applied /\ served' = served /\ candidate' = candidate
  BY <1>0, SameForm, SameCore DEF files
<1>61. op[a].at = "check again" => op[a].kind = "rollback"
  BY <1>1, KindAt DEF RollSteps
<1>7. ASSUME Grounded(op[a].before), FormStory(op[a], op[a].before)
      PROVE  IF op'[a].at = "over" THEN FormEnd(op[a], op[a].before)'
                                   ELSE FormStory(op[a], op[a].before)'
  <2>1. CASE op[a].at = "check" /\ OnTo(a, "put back")
    BY <1>0, <1>1, <1>5, <1>6, <1>7, <2>1, KindAt DEF OnTo, FormStory, FormSteps, SharedSteps, SavedSteps
  <2>2. CASE op[a].at = "check" /\ OnTo(a, "install") /\ Loads(bin, candidate)
    BY <1>0, <1>1, <1>5, <1>6, <1>7, <2>2, KindAt DEF OnTo, FormStory, FormSteps, SharedSteps, SavedSteps, Loads
  <2>3. CASE op[a].at = "check again" /\ OnTo(a, "start") /\ Loads(bin, conf)
    BY <1>0, <1>1, <1>5, <1>6, <1>61, <1>7, <2>3 DEF OnTo, FormStory, FormSteps, SharedSteps, SavedSteps, Loads
  <2>4. CASE op[a].at = "check again" /\ OnTo(a, "put back")
    BY <1>0, <1>1, <1>5, <1>6, <1>61, <1>7, <2>4 DEF OnTo, FormStory, FormSteps, SharedSteps, SavedSteps
  <2>5. CASE op[a].at = "sing-box" /\ op'[a].asked = op[a].asked
           /\ (Says(a, "done") \/ Says(a, "partly"))
    BY <1>0, <1>1, <1>5, <1>6, <1>7, <2>5, KindAt DEF Says, FormStory, FormEnd, FormSteps, Settled
  <2> QED BY <1>4, <2>1, <2>2, <2>3, <2>4, <2>5
<1>8. Sound(a)'
  BY <1>2, <1>4, <1>7, FormSound
<1>9. Tidy(a)
  BY <1>0, <1>4 DEF Tidy, Says, OnTo, Told, files
<1> QED BY <1>2, <1>4, <1>6, <1>8, <1>9 DEF Steady

LEMMA StartSound ==
  ASSUME Typed, Typed', NEW a \in Actors,
         Start(a) \/ Again(a) \/ IdleStart(a) \/ Recover(a) \/ Halt(a) \/ Stop(a),
         Story(op[a])
  PROVE  Steady(a)
<1> USE DEF Typed
<1>0. /\ op[a].at \in {"start", "again", "idle start", "recover", "halt", "stop"}
      /\ UNCHANGED <<engine, row, access, candidate, meta, bin, conf, applied, backups, ops>>
  BY DEF Start, Again, IdleStart, Recover, Halt, Stop
<1>1. Working(a) /\ op[a] \in Records /\ Shape(engine, op[a])
  BY <1>0, RecordOf DEF Working
<1>2. /\ op[a].at \in {"start", "recover"} => op[a].kind \in {"apply", "clients", "rollback"}
      /\ op[a].at = "halt" => op[a].kind = "rollback"
      /\ op[a].at = "again" => op[a].kind = "restart"
      /\ op[a].at = "idle start" => op[a].kind = "clients" /\ op[a].asked = None
      /\ op[a].at = "stop" => op[a].kind \in {"apply", "clients"}
  BY <1>0, <1>1, KindAt DEF RollSteps, Shape, BareSteps
<1>3. /\ {"put back", "record", "remove"} \subseteq Steps
      /\ {"done", "partly", "down", "failed"} \subseteq Answers
  BY DEF Steps, SharedSteps, FormSteps, Answers
<1> DEFINE Up == Loads(bin, conf) /\ served' = [bin |-> bin, conf |-> conf]
           NoUp == ~Loads(bin, conf) /\ served' = None
<1>4. \/ /\ op[a].at = "start" /\ Acts(a) /\ (clean' => clean)
         /\ \/ (Up \/ NoUp) /\ op[a].kind = "rollback" /\ Says(a, "done")
                 /\ op'[a].asked = op[a].asked
            \/ (Up \/ NoUp) /\ op[a].kind # "rollback" /\ OnTo(a, "record")
            \/ OnTo(a, "put back")
      \/ /\ op[a].at = "again" /\ Acts(a)
         /\ \/ /\ conf # None /\ (Up \/ NoUp) /\ (clean' => clean)
               /\ Says(a, "done") \/ Says(a, "partly")
            \/ Says(a, "down") /\ ~clean'
            \/ /\ conf = None /\ served' = served /\ (clean' => clean)
               /\ Says(a, "failed") \/ Says(a, "done")
      \/ /\ op[a].at = "idle start" /\ Acts(a) /\ op'[a].asked = op[a].asked
         /\ \/ (Up \/ NoUp) /\ Says(a, "done") /\ (clean' => clean)
            \/ Says(a, "down") /\ ~clean'
      \/ /\ op[a].at = "recover" /\ Acts(a)
         /\ \/ /\ served' = IF op[a].saved.conf # None /\ Loads(bin, conf)
                             THEN [bin |-> bin, conf |-> conf] ELSE None
               /\ Says(a, "failed") /\ (clean' => clean)
            \/ /\ op'[a].at = "over" /\ op'[a].answer = "failed" /\ op'[a].unseen /\ ~clean'
      \/ /\ op[a].at = "halt" /\ Acts(a) /\ (clean' => clean)
         /\ \/ served' = None /\ Says(a, "done") /\ op'[a].asked = op[a].asked
            \/ OnTo(a, "put back")
      \/ /\ op[a].at = "stop" /\ Acts(a)
         /\ \/ served' = None /\ OnTo(a, "remove") /\ (clean' => clean)
            \/ /\ served' = served /\ op'[a].at = "remove" /\ op'[a].unseen /\ ~clean'
               /\ op'[a].asked = op[a].asked /\ op'[a].saved = op[a].saved
            \/ OnTo(a, "put back") /\ (clean' => clean)
  <2> HIDE DEF Typed
  <2>1. CASE Start(a)
    BY <1>0, <1>1, <1>3, <2>1, ActsGoto, ActsEnd DEF Start, Restart, Is, OnTo, Says
  <2>2. CASE Again(a)
    BY <1>0, <1>1, <1>3, <2>2, ActsEnd DEF Again, Restart, Says
  <2>3. CASE IdleStart(a)
    BY <1>0, <1>1, <1>3, <2>3, ActsEnd DEF IdleStart, Restart, Says
  <2>4. CASE Recover(a)
    BY <1>0, <1>1, <1>3, <2>4, ActsEnd, ActsUnseen DEF Recover, Says
  <2>5. CASE Halt(a)
    BY <1>0, <1>1, <1>3, <2>5, ActsGoto, ActsEnd DEF Halt, OnTo, Says
  <2>6. CASE Stop(a)
    BY <1>0, <1>1, <1>3, <2>6, ActsGoto, ActsUnseen DEF Stop, OnTo
  <2> QED BY <2>1, <2>2, <2>3, <2>4, <2>5, <2>6
<1>5. /\ Acts(a) /\ op'[a].kind = op[a].kind /\ op'[a].before = op[a].before
      /\ op'[a].unseen = op[a].unseen \/ op[a].at \in {"stop", "recover"}
  BY <1>4 DEF Acts
<1>6. /\ AskedForm' = AskedForm /\ Rendered' = Rendered /\ Saved' = Saved
      /\ bin' = bin /\ conf' = conf /\ applied' = applied /\ candidate' = candidate
  BY <1>0, SameForm DEF Saved
<1>61. Idle # None /\ Loads(bin, Idle)
  BY MarkersAssumption DEF Configs, Loads
<1>7. ASSUME Grounded(op[a].before), FormStory(op[a], op[a].before), op[a].alone
      PROVE  IF op'[a].at = "over" THEN FormEnd(op[a], op[a].before)'
                                   ELSE FormStory(op[a], op[a].before)'
  <2> DEFINE b == op[a].before
  <2>0. b \in Cores
    BY <1>1, <1>7 DEF Shape
  <2>01. op[a].before = b /\ op'[a].before = b
    BY <1>5
  <2> HIDE DEF b
  <2>1. CASE op[a].at = "start"
    <3>1. Loads(bin, conf) /\ conf # None
      BY <1>7, <2>1 DEF FormStory, Loads
    <3>2. CASE Up /\ op[a].kind = "rollback" /\ Says(a, "done") /\ op'[a].asked = op[a].asked
      <4>1. Settled(Core)' /\ Saved' = op'[a].asked /\ ~op'[a].unseen
        BY <1>4, <1>6, <1>7, <2>1, <3>1, <3>2 DEF FormStory, Settled, Core, Says
      <4> QED BY <1>5, <3>2, <4>1 DEF Says, FormEnd
    <3>3. CASE Up /\ op[a].kind # "rollback" /\ OnTo(a, "record")
      BY <1>5, <1>6, <1>7, <2>1, <3>3 DEF OnTo, FormStory, FormSteps, SharedSteps, SavedSteps
    <3>4. CASE OnTo(a, "put back")
      BY <1>2, <1>5, <1>6, <1>7, <2>1, <3>4 DEF OnTo, FormStory, FormSteps, SharedSteps, SavedSteps
    <3> QED BY <1>4, <2>1, <3>1, <3>2, <3>3, <3>4
  <2>2. CASE op[a].at = "again"
    <3>1. Core = b /\ conf = b.conf /\ applied = b.applied /\ bin = b.bin /\ served = b.served
      BY <1>7, <2>01, <2>2 DEF FormStory, Core
    <3>2. conf # None => Loads(bin, conf)
      BY <1>7, <2>01, <3>1 DEF Grounded
    <3>3. ~Says(a, "down") => served' = served
      BY <1>4, <1>7, <2>01, <2>2, <3>1, <3>2 DEF Says, Grounded, Settled
    <3>4. ~Says(a, "down") => Core' = b
      BY <1>6, <3>1, <3>3 DEF Core
    <3>41. ~Says(a, "down") => Installed' = InstalledIn(b) /\ served' = b.served
      BY <1>6, <3>1, <3>3 DEF Installed, InstalledIn
    <3>5. Saved = SavedOf(b) /\ Settled(b)
      BY <1>7, <2>01, <3>1 DEF Saved, SavedOf, Grounded
    <3>6. ~op[a].unseen
      BY <1>7, <2>2 DEF FormStory
    <3> QED BY <1>2, <1>4, <1>5, <1>6, <2>01, <2>2, <3>4, <3>41, <3>5, <3>6 DEF Says, FormEnd
  <2>3. CASE op[a].at = "idle start"
    BY <1>0, <1>1, <1>2, <1>4, <1>5, <1>6, <1>61, <1>7, <2>3
       DEF Says, FormStory, FormEnd, Settled, Core
  <2>4. CASE op[a].at = "recover"
    <3>1. conf = b.conf /\ applied = b.applied /\ op[a].saved.conf = b.conf /\ bin = b.bin
      BY <1>7, <2>4, <2>01 DEF FormStory, SavedOf, Saved, SavedSteps
    <3>2. Installed' = InstalledIn(b)
      BY <1>6, <3>1 DEF Installed, InstalledIn
    <3>3. op'[a].unseen \/ served' = b.served
      BY <1>4, <1>7, <2>4, <2>01, <3>1 DEF Says, Grounded, Settled
    <3> QED BY <1>4, <2>4, <2>01, <3>2, <3>3 DEF Says, FormEnd
  <2>5. CASE op[a].at = "halt"
    BY <1>0, <1>1, <1>2, <1>4, <1>5, <1>6, <1>7, <2>5
       DEF OnTo, Says, FormStory, FormEnd, FormSteps, SharedSteps, SavedSteps, RollSteps, Settled, Core
  <2>6. CASE op[a].at = "stop"
    <3>1. /\ op[a].asked = AskedForm /\ ~op[a].asked.on /\ op[a].saved = SavedOf(b)
          /\ bin = b.bin /\ served = b.served /\ ~op[a].unseen
      BY <1>7, <2>01, <2>6 DEF FormStory, FormSteps, SavedSteps, Core
    <3>2. CASE op'[a].at = "remove" /\ op'[a].asked = op[a].asked /\ op'[a].saved = op[a].saved
               /\ served' = IF op'[a].unseen THEN served ELSE None
      BY <1>2, <1>5, <1>6, <2>01, <3>1, <3>2
         DEF FormStory, FormSteps, SharedSteps, SavedSteps
    <3>3. CASE OnTo(a, "put back")
      BY <1>2, <1>5, <1>6, <2>01, <2>6, <3>1, <3>3
         DEF OnTo, FormStory, FormSteps, SharedSteps, SavedSteps
    <3> QED BY <1>4, <2>6, <3>1, <3>2, <3>3 DEF OnTo
  <2> QED BY <1>0, <2>1, <2>2, <2>3, <2>4, <2>5, <2>6
<1>70. op[a].kind # "update"
  BY <1>0, <1>2
<1>8. Sound(a)'
  BY <1>5, <1>7, <1>70, FormSound
<1>9. Tidy(a)
  BY <1>0, <1>2, <1>4 DEF Tidy, Says, OnTo, Told
<1> QED BY <1>5, <1>6, <1>70, <1>8, <1>9 DEF Steady

LEMMA InstallSound ==
  ASSUME Typed, Typed', NEW a \in Actors,
         Install(a) \/ Record(a) \/ Remove(a) \/ PutBack(a) \/ RollBack(a) \/ IdleConf(a),
         Story(op[a])
  PROVE  Steady(a)
<1> USE DEF Typed
<1>0. /\ op[a].at \in {"install", "record", "remove", "put back", "roll back", "idle conf"}
      /\ UNCHANGED <<engine, row, access, candidate, meta, bin, served, backups, ops, clean>>
  BY DEF Install, Record, Remove, PutBack, RollBack, IdleConf
<1>1. Working(a) /\ op[a] \in Records /\ Shape(engine, op[a])
  BY <1>0, RecordOf DEF Working
<1>2. /\ op[a].at \in {"install", "record", "remove"} => op[a].kind \in {"apply", "clients"}
      /\ op[a].at = "put back" => op[a].kind \in {"test", "apply", "clients", "rollback"}
      /\ op[a].at = "roll back" => op[a].kind = "rollback"
      /\ op[a].at = "idle conf" => op[a].kind = "clients"
  BY <1>0, <1>1, KindAt DEF RollSteps
<1>20. op[a].kind # "update"
  BY <1>0, <1>2
<1>3. /\ {"start", "put back", "sing-box", "recover", "halt", "check again", "idle start"} \subseteq Steps
      /\ {"done", "tested"} \subseteq Answers
  BY DEF Steps, SharedSteps, FormSteps, RollSteps, BareSteps, Answers
<1>4. \/ /\ op[a].at = "install" /\ Acts(a) /\ OnTo(a, "start")
         /\ conf' = candidate /\ applied' = applied
      \/ op[a].at = "install" /\ Acts(a) /\ OnTo(a, "put back")
      \/ /\ op[a].at = "record" /\ Acts(a) /\ conf' = conf
         /\ \/ applied' = op[a].asked /\ Is(a, {"apply"}) /\ OnTo(a, "sing-box")
            \/ applied' = op[a].asked /\ op'[a].asked = op[a].asked /\ Says(a, "done")
            \/ applied' = applied /\ OnTo(a, "put back")
      \/ /\ op[a].at = "remove" /\ Acts(a) /\ conf' = None
         /\ \/ applied' = op[a].asked /\ OnTo(a, "sing-box")
            \/ applied' = op[a].asked /\ op'[a].asked = op[a].asked /\ Says(a, "done")
            \/ OnTo(a, "put back")
      \/ /\ op[a].at = "put back" /\ Acts(a)
         /\ conf' = op[a].saved.conf /\ applied' = op[a].saved.applied
         /\ \/ op[a].kind = "test" /\ Says(a, "tested")
            \/ op[a].kind # "test" /\ OnTo(a, "recover")
      \/ /\ op[a].at = "roll back" /\ Acts(a)
         /\ conf' = op[a].asked.conf /\ applied' = op[a].asked.applied
         /\ IF op[a].asked.conf = None THEN OnTo(a, "halt") ELSE OnTo(a, "check again")
      \/ op[a].at = "roll back" /\ Acts(a) /\ OnTo(a, "put back")
      \/ /\ op[a].at = "idle conf" /\ Acts(a) /\ OnTo(a, "idle start")
         /\ conf' = Idle /\ applied' = applied
  <2> HIDE DEF Typed
  <2>1. CASE Install(a)
    BY <1>0, <1>1, <1>3, <2>1, ActsGoto DEF Install, OnTo
  <2>2. CASE Record(a)
    BY <1>0, <1>1, <1>3, <2>2, ActsGoto, ActsEnd DEF Record, OnTo, Says
  <2>3. CASE Remove(a)
    BY <1>0, <1>1, <1>3, <2>3, ActsGoto, ActsEnd DEF Remove, OnTo, Says
  <2>4. CASE PutBack(a)
    BY <1>0, <1>1, <1>3, <2>4, ActsGoto, ActsEnd DEF PutBack, OnTo, Says, Is
  <2>5. CASE RollBack(a)
    BY <1>0, <1>1, <1>3, <2>5, ActsGoto DEF RollBack, OnTo
  <2>6. CASE IdleConf(a)
    BY <1>0, <1>1, <1>3, <2>6, ActsGoto DEF IdleConf, OnTo
  <2> QED BY <2>1, <2>2, <2>3, <2>4, <2>5, <2>6
<1>5. /\ Acts(a) /\ op'[a].kind = op[a].kind /\ op'[a].before = op[a].before
      /\ op'[a].unseen = op[a].unseen \/ op[a].at \in {"stop", "recover"}
  BY <1>4 DEF Acts
<1>6. /\ AskedForm' = AskedForm /\ Rendered' = Rendered
      /\ bin' = bin /\ served' = served /\ candidate' = candidate
  BY <1>0, SameForm
<1>61. /\ Rendered # None /\ Idle # None
       /\ AskedForm.on = row.on
  BY RenderedType, MarkersAssumption DEF Configs, AskedForm
<1>7. ASSUME Grounded(op[a].before), FormStory(op[a], op[a].before), op[a].alone
      PROVE  IF op'[a].at = "over" THEN FormEnd(op[a], op[a].before)'
                                   ELSE FormStory(op[a], op[a].before)'
  <2> DEFINE b == op[a].before
  <2>0. b \in Cores
    BY <1>1, <1>7 DEF Shape
  <2>01. op[a].before = b /\ op'[a].before = b
    BY <1>5
  <2> HIDE DEF b
  <2>1. CASE op[a].at = "install"
    <3>1. /\ op[a].asked = AskedForm /\ candidate = Rendered /\ op[a].saved = SavedOf(b)
          /\ op[a].asked.on /\ Loads(bin, candidate) /\ Core = b
      BY <1>7, <2>1, <2>01 DEF FormStory, FormSteps, SavedSteps
    <3>2. bin = b.bin /\ applied = b.applied
      BY <3>1 DEF Core
    <3>3. conf' = candidate => (Loads(bin, conf)' /\ conf' = Rendered)
      BY <1>6, <3>1 DEF Loads
    <3>30. OnTo(a, "start") => conf' = candidate /\ applied' = applied
      BY <1>4, <2>1 DEF OnTo
    <3>4. ~op[a].unseen
      BY <1>7, <2>1 DEF FormStory
    <3>5. CASE OnTo(a, "start")
      BY <1>2, <1>5, <1>6, <2>01, <2>1, <3>1, <3>2, <3>3, <3>30, <3>4, <3>5
         DEF OnTo, FormStory, FormSteps, SharedSteps, SavedSteps
    <3>6. CASE OnTo(a, "put back")
      BY <1>2, <1>5, <1>6, <2>01, <2>1, <3>1, <3>2, <3>4, <3>6
         DEF OnTo, FormStory, FormSteps, SharedSteps, SavedSteps
    <3> QED BY <1>4, <2>1, <3>5, <3>6
  <2>2. CASE op[a].at = "record"
    <3>1. /\ conf = Rendered /\ served = [bin |-> bin, conf |-> conf] /\ op[a].asked.on
          /\ op[a].asked = AskedForm /\ bin = b.bin /\ ~op[a].unseen
      BY <1>7, <2>2, <2>01 DEF FormStory, FormSteps
    <3>2. conf' = conf => Settled(Core)'
      BY <1>6, <1>61, <3>1 DEF Settled, Core
    <3>3. CASE OnTo(a, "put back")
      BY <1>2, <1>5, <1>6, <1>7, <2>2, <2>01, <3>1, <3>3 DEF OnTo, FormStory, FormSteps, SharedSteps, SavedSteps
    <3>4. CASE applied' = op[a].asked /\ OnTo(a, "sing-box") /\ conf' = conf
      BY <1>2, <1>5, <1>6, <1>7, <2>2, <2>01, <3>1, <3>2, <3>4 DEF OnTo, FormStory, FormSteps, SharedSteps, SavedSteps
    <3>5. CASE applied' = op[a].asked /\ op'[a].asked = op[a].asked /\ Says(a, "done") /\ conf' = conf
      BY <1>2, <1>5, <1>6, <2>2, <3>1, <3>2, <3>5 DEF Says, FormEnd
    <3> QED BY <1>4, <2>2, <3>3, <3>4, <3>5
  <2>3. CASE op[a].at = "remove"
    <3>1. /\ served = IF op[a].unseen THEN b.served ELSE None
          /\ ~op[a].asked.on /\ op[a].asked = AskedForm /\ bin = b.bin /\ op[a].saved = SavedOf(b)
      BY <1>7, <2>3, <2>01 DEF FormStory, FormSteps, SavedSteps
    <3>2. conf' = None /\ (served' = None => Settled(Core)')
      BY <1>4, <1>6, <2>3, <3>1 DEF Settled, Core
    <3>3. CASE applied' = op[a].asked /\ OnTo(a, "sing-box")
      BY <1>2, <1>5, <1>6, <2>3, <2>01, <3>1, <3>2, <3>3 DEF OnTo, FormStory, FormSteps, SharedSteps, SavedSteps
    <3>4. CASE applied' = op[a].asked /\ op'[a].asked = op[a].asked /\ Says(a, "done")
      BY <1>2, <1>5, <1>6, <2>01, <2>3, <3>1, <3>2, <3>4 DEF Says, FormEnd
    <3>5. CASE OnTo(a, "put back")
      BY <1>2, <1>5, <1>6, <2>01, <2>3, <3>1, <3>5 DEF OnTo, FormStory, FormSteps, SharedSteps, SavedSteps
    <3> QED BY <1>4, <2>3, <3>3, <3>4, <3>5
  <2>4. CASE op[a].at = "put back"
    <3>1. /\ op[a].saved = SavedOf(b) /\ bin = b.bin
          /\ op[a].kind # "rollback" => op[a].asked = AskedForm
          /\ op[a].kind = "test" => Core = b
      BY <1>7, <2>4, <2>01 DEF FormStory, SavedSteps, SharedSteps
    <3>20. conf' = op[a].saved.conf /\ applied' = op[a].saved.applied
      BY <1>4, <2>4
    <3>2. conf' = b.conf /\ applied' = b.applied /\ Saved' = SavedOf(b)
      BY <3>20, <3>1 DEF SavedOf, Saved
    <3>3. CASE op[a].kind = "test" /\ Says(a, "tested")
      <4>1. conf = b.conf /\ applied = b.applied
        BY <3>1, <3>3 DEF Core
      <4>2. Core' = b
        BY <1>6, <3>1, <3>2, <3>3, <4>1 DEF Core
      <4>3. Installed' = InstalledIn(b) /\ served' = b.served
        <5>1. served = b.served
          BY <3>1, <3>3 DEF Core
        <5> QED BY <1>6, <3>1, <3>2, <5>1 DEF Installed, InstalledIn
      <4> QED BY <2>01, <3>3, <4>3 DEF Says, FormEnd
    <3>4. CASE op[a].kind # "test" /\ OnTo(a, "recover")
      BY <1>5, <1>6, <2>01, <3>1, <3>2, <3>4 DEF OnTo, FormStory, FormSteps, SharedSteps, SavedSteps
    <3> QED BY <1>4, <2>4, <3>3, <3>4
  <2>5. CASE op[a].at = "roll back"
    <3>1. op[a].saved = SavedOf(b) /\ bin = b.bin /\ op[a].asked \in Backups
      BY <1>1, <1>7, <2>5, <2>01 DEF FormStory, SavedSteps, Shape, RollSteps
    <3>2. OnTo(a, "put back") \/ Saved' = op[a].asked
      BY <1>4, <2>5, <3>1 DEF Saved, Backups
    <3>3. ~op[a].unseen
      BY <1>7, <2>5 DEF FormStory
    <3>4. CASE OnTo(a, "put back")
      BY <1>2, <1>5, <1>6, <2>5, <2>01, <3>1, <3>3, <3>4
         DEF OnTo, FormStory, FormSteps, SharedSteps, SavedSteps
    <3>5. CASE ~OnTo(a, "put back")
      BY <1>2, <1>4, <1>5, <1>6, <2>5, <2>01, <3>1, <3>2, <3>3, <3>5
         DEF OnTo, FormStory, FormSteps, SharedSteps, SavedSteps
    <3> QED BY <3>4, <3>5
  <2>6. CASE op[a].at = "idle conf"
    BY <1>2, <1>4, <1>5, <1>6, <1>7, <2>6, <2>01
       DEF OnTo, FormStory, FormSteps, SharedSteps, SavedSteps
  <2> QED BY <1>0, <2>1, <2>2, <2>3, <2>4, <2>5, <2>6
<1>8. Sound(a)'
  BY <1>5, <1>7, <1>20, FormSound
<1>9. Tidy(a)
  BY <1>0, <1>2, <1>4 DEF Tidy, Says, OnTo, Told
<1> QED BY <1>5, <1>6, <1>20, <1>8, <1>9 DEF Steady

\* A step that writes more of the record.
LEMMA ActsPut ==
  ASSUME Typed, NEW a \in Actors, Working(a), NEW o, op' = [op EXCEPT ![a] = o],
         o.kind = op[a].kind, o.alone = op[a].alone, o.before = op[a].before,
         o.unseen = op[a].unseen,
         o.at \in Steps,
         UNCHANGED <<engine, row, access>>, Typed'
  PROVE  Acts(a) /\ op'[a] = o
<1>1. op[a] \in Records /\ Shape(engine, op[a])
  BY RecordOf DEF Working, Typed
<1>2. op'[a] = o /\ \A b \in Actors \ {a} : op'[b] = op[b]
  BY DEF Typed, OpsOK
<1>3. op'[a].at # "idle"
  BY <1>2, StepIsString
<1>4. op'[a] \in Records /\ Shape(engine, op'[a])
  <2>1. op'[a] \in {NoOp} \cup Records /\ Shape(engine', op'[a])
    BY <1>3 DEF Typed, OpsOK
  <2>2. op'[a] # NoOp
    BY <1>3 DEF NoOp
  <2> QED BY <2>1, <2>2
<1> QED BY <1>1, <1>2, <1>4 DEF Acts

LEMMA CandidateSound ==
  ASSUME Typed, Typed', NEW a \in Actors, Build(a) \/ Describe(a), Story(op[a])
  PROVE  Steady(a)
<1> USE DEF Typed
<1>0. /\ op[a].at \in {"build", "describe"}
      /\ UNCHANGED <<engine, row, access, bin, conf, applied, served, backups, ops, clean>>
  BY DEF Build, Describe
<1>1. Working(a) /\ op[a] \in Records /\ Shape(engine, op[a])
  BY <1>0, RecordOf DEF Working
<1>2. op[a].kind \in {"test", "apply", "clients"}
  BY <1>0, <1>1, KindAt
<1>3. {"describe", "back up"} \subseteq Steps /\ "failed" \in Answers
  BY DEF Steps, FormSteps, Answers
<1>4. \/ /\ op[a].at = "build" /\ Acts(a) /\ op'[a].at = "describe" /\ op'[a].asked = AskedForm
         /\ candidate' = Rendered
      \/ op[a].at = "build" /\ Acts(a) /\ Says(a, "failed")
      \/ op[a].at = "describe" /\ Acts(a) /\ OnTo(a, "back up") /\ candidate' = candidate
           /\ meta' = op[a].asked
  <2> HIDE DEF Typed
  <2>1. CASE Build(a) /\ Valid
    <3> DEFINE o == [op[a] EXCEPT !.at = "describe", !.asked = AskedForm]
    <3>1. op' = [op EXCEPT ![a] = o] /\ candidate' = Rendered
      BY <2>1 DEF Build, AskedForm, Typed, OpsOK
    <3>2. /\ o.at = "describe" /\ o.asked = AskedForm
          /\ o.kind = op[a].kind /\ o.alone = op[a].alone /\ o.before = op[a].before /\ o.unseen = op[a].unseen
      BY <1>1 DEF Records
    <3> HIDE DEF o
    <3>3. Acts(a) /\ op'[a] = o
      BY <1>0, <1>1, <1>3, <3>1, <3>2, ActsPut
    <3> QED BY <2>1, <3>1, <3>2, <3>3 DEF Build
  <2>2. CASE Build(a) /\ ~Valid
    BY <1>0, <1>1, <1>3, <2>2, ActsEnd DEF Build, Says
  <2>3. CASE Describe(a)
    BY <1>0, <1>1, <1>3, <2>3, ActsGoto DEF Describe, OnTo
  <2> QED BY <2>1, <2>2, <2>3
<1>5. /\ Acts(a) /\ op'[a].kind = op[a].kind /\ op'[a].before = op[a].before
      /\ op'[a].unseen = op[a].unseen \/ op[a].at \in {"stop", "recover"}
  BY <1>4 DEF Acts
<1>6. /\ AskedForm' = AskedForm /\ Rendered' = Rendered /\ Core' = Core /\ Saved' = Saved /\ bin' = bin
  BY <1>0, SameForm, SameCore
<1>7. ASSUME Grounded(op[a].before), FormStory(op[a], op[a].before)
      PROVE  IF op'[a].at = "over" THEN FormEnd(op[a], op[a].before)'
                                   ELSE FormStory(op[a], op[a].before)'
  <2>1. CASE op[a].at = "build" /\ op'[a].at = "describe" /\ op'[a].asked = AskedForm
              /\ candidate' = Rendered
    BY <1>2, <1>5, <1>6, <1>7, <2>1 DEF FormStory, FormSteps, SharedSteps, SavedSteps
  <2>2. CASE op[a].at = "build" /\ Says(a, "failed")
    BY <1>2, <1>5, <1>6, <1>7, <2>2 DEF FormStory, FormEnd, Says, Core, Installed, InstalledIn
  <2>3. CASE op[a].at = "describe" /\ OnTo(a, "back up") /\ candidate' = candidate
           /\ meta' = op[a].asked
    BY <1>2, <1>5, <1>6, <1>7, <2>3 DEF OnTo, FormStory, FormSteps, SharedSteps, SavedSteps
  <2> QED BY <1>4, <2>1, <2>2, <2>3
<1>8. Sound(a)'
  BY <1>2, <1>5, <1>7, FormSound
<1>9. Tidy(a)
  BY <1>0, <1>2, <1>4, <1>5 DEF Tidy, Says, OnTo, Told
<1> QED BY <1>2, <1>5, <1>6, <1>8, <1>9 DEF Steady

LEMMA BackUpSound ==
  ASSUME Typed, Typed', NEW a \in Actors, BackUp(a) \/ Select(a), Story(op[a])
  PROVE  Steady(a)
<1> USE DEF Typed
<1>0. /\ op[a].at \in {"back up", "select"}
      /\ UNCHANGED <<engine, row, access, candidate, meta, bin, conf, applied, served, ops, clean>>
  BY DEF BackUp, Select
<1>1. Working(a) /\ op[a] \in Records /\ Shape(engine, op[a])
  BY <1>0, RecordOf DEF Working
<1>2. /\ op[a].at = "back up" => op[a].kind \in {"test", "apply", "clients"}
      /\ op[a].at = "select" => op[a].kind = "rollback"
  BY <1>1, KindAt
<1>20. op[a].kind # "update"
  BY <1>0, <1>2
<1>3. {"check", "stop", "roll back"} \subseteq Steps /\ {"failed", "done"} \subseteq Answers
  BY DEF Steps, FormSteps, RollSteps, Answers
<1>4. \/ /\ op[a].at = "back up" /\ Acts(a) /\ op'[a].asked = meta /\ op'[a].saved = Saved
         /\ \/ meta.on /\ op'[a].at = "check"
            \/ ~meta.on /\ op'[a].at = "stop"
         /\ backups' = Append(backups, Saved)
      \/ /\ op[a].at = "back up" /\ Acts(a) /\ Says(a, "done") /\ op[a].kind = "test"
         /\ backups' = backups
      \/ /\ op[a].at = "select" /\ Acts(a) /\ Says(a, "failed") /\ backups' = backups
      \/ /\ op[a].at = "select" /\ Acts(a) /\ op'[a].at = "roll back" /\ op'[a].saved = Saved
         /\ backups # <<>> /\ op'[a].asked = backups[Len(backups)]
         /\ backups' = Append(backups, Saved)
  <2> HIDE DEF Typed
  <2>1. CASE BackUp(a) /\ ~(Is(a, {"test"}) /\ ~meta.on)
    <3> DEFINE s == IF meta.on THEN "check" ELSE "stop"
               o == [op[a] EXCEPT !.at = s, !.saved = Saved, !.asked = meta]
    <3>1. op' = [op EXCEPT ![a] = o] /\ backups' = Append(backups, Saved)
      BY <2>1 DEF BackUp, Typed, OpsOK
    <3>2. /\ o.at = s /\ o.asked = meta /\ o.saved = Saved
          /\ o.kind = op[a].kind /\ o.alone = op[a].alone /\ o.before = op[a].before /\ o.unseen = op[a].unseen
      BY <1>1 DEF Records
    <3>3. s \in Steps
      BY <1>3
    <3> HIDE DEF o
    <3>4. Acts(a) /\ op'[a] = o
      BY <1>0, <1>1, <3>1, <3>2, <3>3, ActsPut
    <3> QED BY <2>1, <3>1, <3>2, <3>4 DEF BackUp
  <2>2. CASE BackUp(a) /\ Is(a, {"test"}) /\ ~meta.on
    BY <1>0, <1>1, <1>3, <2>2, ActsEnd DEF BackUp, Says, Is
  <2>3. CASE Select(a) /\ backups = <<>>
    BY <1>0, <1>1, <1>3, <2>3, ActsEnd DEF Select, Says
  <2>4. CASE Select(a) /\ backups # <<>>
    <3> DEFINE asked == backups[Len(backups)]
               o == [op[a] EXCEPT !.at = "roll back", !.saved = Saved, !.asked = asked]
    <3>1. op' = [op EXCEPT ![a] = o] /\ backups' = Append(backups, Saved)
      BY <2>4 DEF Select, Typed, OpsOK
    <3> HIDE DEF asked
    <3>2. /\ o.at = "roll back" /\ o.asked = asked /\ o.saved = Saved
          /\ o.kind = op[a].kind /\ o.alone = op[a].alone /\ o.before = op[a].before /\ o.unseen = op[a].unseen
      BY <1>1 DEF Records
    <3> HIDE DEF o
    <3>4. Acts(a) /\ op'[a] = o
      BY <1>0, <1>1, <1>3, <3>1, <3>2, ActsPut
    <3> QED BY <2>4, <3>1, <3>2, <3>4 DEF Select, asked
  <2> QED BY <2>1, <2>2, <2>3, <2>4
<1>5. /\ Acts(a) /\ op'[a].kind = op[a].kind /\ op'[a].before = op[a].before
      /\ op'[a].unseen = op[a].unseen \/ op[a].at \in {"stop", "recover"}
  BY <1>4 DEF Acts
<1>6. /\ AskedForm' = AskedForm /\ Rendered' = Rendered /\ Core' = Core /\ Saved' = Saved /\ bin' = bin
      /\ candidate' = candidate
  BY <1>0, SameForm, SameCore
<1>7. ASSUME Grounded(op[a].before), FormStory(op[a], op[a].before)
      PROVE  IF op'[a].at = "over" THEN FormEnd(op[a], op[a].before)'
                                   ELSE FormStory(op[a], op[a].before)'
  <2>1. Core = op[a].before /\ Saved = SavedOf(op[a].before)
    <3>1. Core = op[a].before
      BY <1>0, <1>7 DEF FormStory
    <3>2. SavedOf(Core) = Saved
      BY DEF Core, SavedOf, Saved
    <3> QED BY <3>1, <3>2
  <2>2. CASE op[a].at = "back up" /\ op'[a].asked = meta /\ op'[a].saved = Saved
             /\ ((meta.on /\ op'[a].at = "check") \/ (~meta.on /\ op'[a].at = "stop"))
    BY <1>2, <1>5, <1>6, <1>7, <2>1, <2>2 DEF FormStory, FormSteps, SharedSteps, SavedSteps
  <2>3. CASE op[a].at = "back up" /\ Says(a, "done") /\ op[a].kind = "test"
    BY <1>5, <1>6, <1>7, <2>1, <2>3 DEF FormStory, FormEnd, Says, Grounded
  <2>4. CASE op[a].at = "select" /\ Says(a, "failed")
    BY <1>5, <1>6, <1>7, <2>1, <2>4 DEF FormEnd, Says, Core, Installed, InstalledIn
  <2>5. CASE op[a].at = "select" /\ op'[a].at = "roll back" /\ op'[a].saved = Saved
    BY <1>2, <1>5, <1>6, <1>7, <2>1, <2>5 DEF FormStory, FormSteps, SharedSteps, SavedSteps
  <2> QED BY <1>4, <2>2, <2>3, <2>4, <2>5
<1>8. Sound(a)'
  BY <1>20, <1>5, <1>7, FormSound
<1>9. Tidy(a)
  <2>1. backups \in Seq(Backups) /\ (backups # <<>> => Len(backups) \in 1..Len(backups))
    <3>1. backups \in Seq(Backups)
      BY DEF TypeOK
    <3> QED BY <3>1
  <2> QED BY <1>0, <1>2, <1>4, <1>5, <2>1 DEF Tidy, Says, Told
<1> QED BY <1>20, <1>5, <1>6, <1>8, <1>9 DEF Steady

LEMMA FormSteady ==
  ASSUME Typed, Typed', NEW a \in Actors, FormStep(a), Story(op[a])
  PROVE  Steady(a)
BY CandidateSound, BackUpSound, CheckSound, InstallSound, StartSound DEF FormStep, Helper

-----------------------------------------------------------------------------
\* The story of an update.

UpdateEnd(o, b) ==
  /\ o.answer \in {"failed", "done", "stuck"} /\ ~o.unseen
  /\ o.answer = "failed" => Core = b
  /\ o.answer = "done" => /\ Settled(Core) /\ applied = b.applied
                          /\ conf = b.conf \/ Recovery(b.bin)

LEMMA UpdateSound ==
  ASSUME NEW a \in Actors, Acts(a), op[a].kind = "update", Story(op[a]),
         op[a].alone /\ Grounded(op[a].before) /\ UpdateStory(op[a], op[a].before) =>
           IF op'[a].at = "over" THEN UpdateEnd(op[a], op[a].before)'
                                 ELSE UpdateStory(op[a], op[a].before)'
  PROVE  Sound(a)'
<1>1. CASE ~(op[a].alone /\ Settled(op[a].before))
  BY <1>1 DEF Acts, Sound, Outcome, Story
<1>2. CASE op[a].alone /\ Settled(op[a].before)
  <2>1. Grounded(op[a].before) /\ UpdateStory(op[a], op[a].before)
    BY <1>2 DEF Story
  <2>2. Grounded(op[a].before)'
    BY <2>1 DEF Grounded, Acts
  <2>3. CASE op'[a].at = "over"
    <3>1. UpdateEnd(op[a], op[a].before)'
      BY <1>2, <2>1, <2>3
    <3>2. Outcome(op[a])'
      BY <3>1 DEF UpdateEnd, Outcome, AloneIsTrue, Acts, Saved, SavedOf, Core, Installed, InstalledIn
    <3> QED BY <2>3, <3>2 DEF Sound
  <2>4. CASE op'[a].at # "over"
    <3>1. UpdateStory(op[a], op[a].before)'
      BY <1>2, <2>1, <2>4
    <3> QED BY <2>2, <2>4, <3>1 DEF Sound, Story, Acts
  <2> QED BY <2>3, <2>4
<1> QED BY <1>1, <1>2

\* What every step of an update keeps.
JobGood(a) ==
  /\ Acts(a) /\ Sound(a)' /\ Tidy(a) /\ op[a].kind = "update"
  /\ op'[a].at = "over" => UpdateIsTrue(op[a])'
  /\ op'[a].at # "over" => Progress(bin', op'[a])
  /\ bin' = bin \/ Holds(a)
  /\ op'[a].at # "over" => Holds(a) \/ \A b \in Actors : ~Holds(b)

LEMMA AtUpdate ==
  ASSUME Typed, Updates, NEW a \in Actors, op[a].at \in UpdateSteps
  PROVE  /\ Working(a) /\ op[a] \in Records /\ Shape(engine, op[a])
         /\ op[a].kind = "update" /\ op[a].asked \in Versions /\ op[a].from \in Versions
         /\ Holds(a) /\ Progress(bin, op[a])
         /\ op[a].at \in SwapSteps => op[a].saved \in Kept
<1>1. Working(a)
  BY DEF Working, UpdateSteps, SwapSteps
<1>2. op[a] \in Records /\ Shape(engine, op[a])
  BY <1>1, RecordOf DEF Working, Typed
<1>3. op[a].kind = "update" /\ op[a].asked \in Versions /\ op[a].from \in Versions
  BY <1>2, UpdateShape
<1>4. Holds(a)
  BY <1>1, <1>3, MarkersAssumption DEF Holds
<1> QED BY <1>1, <1>2, <1>3, <1>4, UpdateShape DEF Updates

LEMMA ChooseGood ==
  ASSUME Typed, Typed', Updates, NEW a \in Actors, ChooseRelease(a), Story(op[a])
  PROVE  JobGood(a)
<1>0. /\ op[a].at = "version"
      /\ UNCHANGED <<engine, row, access, files, ops, faults, clean>>
  BY DEF ChooseRelease
<1>1. Working(a) /\ op[a] \in Records /\ Shape(engine, op[a])
  BY <1>0, RecordOf DEF Working, Typed
<1>2. op[a].kind = "update" /\ op[a].asked = None
  BY <1>0, <1>1, KindAt DEF Shape, BareSteps
<1>3. "fetch" \in Steps /\ "failed" \in Answers
  BY DEF Steps, UpdateSteps, Answers
<1>4. \/ Acts(a) /\ Says(a, "failed") /\ op'[a].asked = None
      \/ /\ Acts(a) /\ op'[a].at = "fetch" /\ op'[a].from = bin
         /\ \A b \in Actors : ~Holds(b)
  <2>1. CASE End(a, "failed")
    BY <1>0, <1>1, <1>2, <1>3, <2>1, ActsEnd DEF Says
  <2>2. ASSUME NEW target \in Versions, ~Locked,
             op' = [op EXCEPT ![a].at = "fetch", ![a].asked = target, ![a].from = bin]
        PROVE  /\ Acts(a) /\ op'[a].at = "fetch" /\ op'[a].from = bin
               /\ \A b \in Actors : ~Holds(b)
    <3> DEFINE o == [op[a] EXCEPT !.at = "fetch", !.asked = target, !.from = bin]
    <3>1. op' = [op EXCEPT ![a] = o]
      BY <2>2 DEF Typed, OpsOK
    <3>2. /\ o.at = "fetch" /\ o.asked = target /\ o.from = bin
          /\ o.kind = op[a].kind /\ o.alone = op[a].alone /\ o.before = op[a].before /\ o.unseen = op[a].unseen
      BY <1>1 DEF Records
    <3> HIDE DEF o
    <3>3. Acts(a) /\ op'[a] = o
      BY <1>0, <1>1, <1>3, <3>1, <3>2, ActsPut
    <3> QED BY <2>2, <3>2, <3>3 DEF Locked, Holds
  <2> QED BY <2>1, <2>2 DEF ChooseRelease, Released
<1>5. /\ Acts(a) /\ op'[a].kind = op[a].kind /\ op'[a].before = op[a].before
      /\ op'[a].unseen = op[a].unseen
  BY <1>0, <1>4 DEF Acts
<1>6. Core' = Core /\ bin' = bin /\ conf' = conf /\ applied' = applied /\ served' = served
  BY <1>0, SameCore DEF files
<1>7. ASSUME Grounded(op[a].before), UpdateStory(op[a], op[a].before)
      PROVE  IF op'[a].at = "over" THEN UpdateEnd(op[a], op[a].before)'
                                   ELSE UpdateStory(op[a], op[a].before)'
  <2>1. Core = op[a].before /\ bin = op[a].before.bin /\ ~op[a].unseen
    BY <1>0, <1>7 DEF UpdateStory, Core
  <2>2. CASE Says(a, "failed")
    BY <1>5, <1>6, <2>1, <2>2 DEF Says, UpdateEnd
  <2>3. CASE op'[a].at = "fetch" /\ op'[a].from = bin
    BY <1>5, <1>6, <1>7, <2>1, <2>3 DEF UpdateStory, SwapSteps
  <2> QED BY <1>4, <2>2, <2>3
<1>8. Sound(a)'
  BY <1>2, <1>5, <1>7, UpdateSound
<1>9. Tidy(a)
  BY <1>0, <1>2, <1>4, <1>5 DEF Tidy, Says, Told, files
<1>10. op'[a].at = "over" => UpdateIsTrue(op[a])'
  BY <1>4 DEF UpdateIsTrue
<1>11. op'[a].at # "over" => Progress(bin', op'[a])
  BY <1>4, <1>6 DEF Says, Progress, SwapSteps
<1> QED BY <1>2, <1>4, <1>5, <1>6, <1>8, <1>9, <1>10, <1>11 DEF JobGood, Says

LEMMA SettledNone ==
  ASSUME NEW b \in Cores, Settled(b)
  PROVE  b.served = None <=> b.conf = None
<1>1. b.conf # None => [bin |-> b.bin, conf |-> b.conf] \in Running
  BY DEF Cores, Running
<1> QED BY <1>1, MarkersAssumption DEF Settled

LEMMA FetchGood ==
  ASSUME Typed, Typed', Updates, NEW a \in Actors, Fetch(a) \/ Keep(a) \/ Verify(a), Story(op[a])
  PROVE  JobGood(a)
<1>0. /\ op[a].at \in {"fetch", "keep", "verify"} /\ op[a].at \in UpdateSteps
      /\ UNCHANGED <<engine, row, access, files, ops, clean>>
  BY DEF Fetch, Keep, Verify, UpdateSteps, SwapSteps
<1>1. /\ Working(a) /\ op[a] \in Records /\ Shape(engine, op[a])
      /\ op[a].kind = "update" /\ op[a].asked \in Versions /\ op[a].from \in Versions
      /\ Holds(a) /\ Progress(bin, op[a])
      /\ op[a].at \in SwapSteps => op[a].saved \in Kept
  BY <1>0, AtUpdate
<1>3. {"keep", "swap", "swap back"} \subseteq Steps /\ {"failed", "done"} \subseteq Answers
  BY DEF Steps, UpdateSteps, SwapSteps, Answers
<1> DEFINE Same == op'[a].asked = op[a].asked /\ op'[a].from = op[a].from
           saved == [bin |-> bin, conf |-> IF Recovery(bin) THEN conf ELSE None,
                     up |-> engine = "xray" \/ served # None]
<1>4. \/ op[a].at = "fetch" /\ Acts(a) /\ op'[a].at = "keep" /\ Same /\ Fits(op[a].asked)
      \/ op[a].at = "fetch" /\ Acts(a) /\ Says(a, "failed") /\ Same
      \/ op[a].at = "keep" /\ Acts(a) /\ op'[a].at = "swap" /\ Same /\ op'[a].saved = saved
      \/ op[a].at = "verify" /\ Acts(a) /\ Says(a, "done") /\ Same /\ Verified(a)
      \/ op[a].at = "verify" /\ Acts(a) /\ OnTo(a, "swap back") /\ Same
  <2>1. CASE Fetch(a)
    BY <1>0, <1>1, <1>3, <2>1, ActsGoto, ActsEnd DEF Fetch, Says
  <2>2. CASE Keep(a)
    <3> DEFINE o == [op[a] EXCEPT !.at = "swap", !.saved = saved]
    <3>1. op' = [op EXCEPT ![a] = o]
      BY <2>2 DEF Keep, Typed, OpsOK
    <3> HIDE DEF saved
    <3>2. /\ o.at = "swap" /\ o.asked = op[a].asked /\ o.from = op[a].from /\ o.saved = saved
          /\ o.kind = op[a].kind /\ o.alone = op[a].alone /\ o.before = op[a].before /\ o.unseen = op[a].unseen
      BY <1>1 DEF Records
    <3> HIDE DEF o
    <3>3. Acts(a) /\ op'[a] = o
      BY <1>0, <1>1, <1>3, <3>1, <3>2, ActsPut
    <3> QED BY <2>2, <3>2, <3>3 DEF Keep
  <2>3. CASE Verify(a)
    BY <1>0, <1>1, <1>3, <2>3, ActsGoto, ActsEnd DEF Verify, Says, OnTo
  <2> QED BY <2>1, <2>2, <2>3
<1>5. /\ Acts(a) /\ op'[a].kind = op[a].kind /\ op'[a].before = op[a].before
      /\ op'[a].alone = op[a].alone /\ Same /\ op'[a].unseen = op[a].unseen
  BY <1>0, <1>4 DEF Acts, UpdateSteps, SwapSteps
<1>6. /\ Core' = Core /\ bin' = bin /\ conf' = conf /\ applied' = applied /\ served' = served
      /\ engine' = engine
  BY <1>0, SameCore DEF files
<1>7. ASSUME Grounded(op[a].before), UpdateStory(op[a], op[a].before), op[a].alone
      PROVE  IF op'[a].at = "over" THEN UpdateEnd(op[a], op[a].before)'
                                   ELSE UpdateStory(op[a], op[a].before)'
  <2>00. PICK b \in Cores : b = op[a].before
    BY <1>1, <1>7 DEF Shape
  <2>0. op[a].before = b /\ op'[a].before = b /\ op[a].from = b.bin /\ ~op[a].unseen
    BY <1>0, <1>5, <1>7, <2>00 DEF UpdateStory
  <2>1. CASE op[a].at = "fetch" /\ op'[a].at = "keep" /\ Fits(op[a].asked)
    <3>1. Fits(op[a].asked)'
      BY <1>5, <1>6, <2>1 DEF Fits, Recovery, Loads
    <3> QED BY <1>5, <1>6, <1>7, <2>0, <2>1, <3>1 DEF UpdateStory, SwapSteps
  <2>2. CASE op[a].at = "fetch" /\ Says(a, "failed")
    BY <1>5, <1>6, <1>7, <2>0, <2>2 DEF Says, UpdateStory, UpdateEnd
  <2>3. CASE op[a].at = "keep" /\ op'[a].at = "swap" /\ op'[a].saved = saved
    <3>1. Core = b /\ Fits(op[a].asked) /\ applied = b.applied
      BY <1>7, <2>0, <2>3 DEF UpdateStory
    <3>2. bin = b.bin /\ conf = b.conf /\ served = b.served
      BY <3>1 DEF Core
    <3>3. ~Recovery(b.bin) => Loads(op[a].asked, conf) \/ conf = None
      BY <3>1, <3>2 DEF Fits
    <3>4. op'[a].saved = [bin |-> b.bin, conf |-> IF Recovery(b.bin) THEN b.conf ELSE None,
                          up |-> engine = "xray" \/ b.served # None]
      BY <2>3, <3>2
    <3>5. Recovery(b.bin)' <=> Recovery(b.bin)
      BY <1>6, <2>0 DEF Recovery
    <3>6. (Loads(op[a].asked, conf))' <=> Loads(op[a].asked, conf)
      BY <1>5, <1>6 DEF Loads
    <3> QED BY <1>5, <1>6, <2>0, <2>3, <3>1, <3>2, <3>3, <3>4, <3>5, <3>6
            DEF UpdateStory, Recovery, Loads
  <2>4. CASE op[a].at = "verify" /\ Says(a, "done")
    BY <1>5, <1>6, <1>7, <2>0, <2>4 DEF Says, UpdateStory, UpdateEnd, SwapSteps, Recovery
  <2>5. CASE op[a].at = "verify" /\ OnTo(a, "swap back")
    <3>1. /\ Settled(Core) /\ applied = b.applied
          /\ op[a].saved = [bin |-> b.bin, conf |-> IF Recovery(b.bin) THEN b.conf ELSE None,
                           up |-> engine = "xray" \/ b.served # None]
          /\ ~Recovery(b.bin) => conf = b.conf /\ (Loads(op[a].asked, conf) \/ conf = None)
      BY <1>7, <2>0, <2>5 DEF UpdateStory, SwapSteps
    <3>2. ~op[a].saved.up => served = b.served
      <4> SUFFICES ASSUME ~op[a].saved.up PROVE served = b.served
        OBVIOUS
      <4>1. engine # "xray" /\ b.served = None
        <5> DEFINE up == engine = "xray" \/ b.served # None
                   old == IF Recovery(b.bin) THEN b.conf ELSE None
        <5>1. op[a].saved = [bin |-> b.bin, conf |-> old, up |-> up]
          BY <3>1
        <5> HIDE DEF up, old
        <5>2. op[a].saved.up = up
          BY <5>1
        <5>3. ~up
          BY <5>2
        <5> QED BY <5>3 DEF up
      <4>2. b.conf = None
        BY <1>7, <2>0, <4>1, SettledNone DEF Grounded
      <4>3. conf = None
        BY <3>1, <4>1, <4>2 DEF Recovery
      <4> QED BY <3>1, <4>1, <4>3 DEF Settled, Core
    <3> QED BY <1>5, <1>6, <2>0, <2>5, <3>1, <3>2 DEF OnTo, UpdateStory, UpdateSteps, Recovery, Loads
  <2> QED BY <1>4, <2>1, <2>2, <2>3, <2>4, <2>5
<1>8. Sound(a)'
  BY <1>1, <1>5, <1>7, UpdateSound
<1>9. Tidy(a)
  BY <1>0, <1>1, <1>4, <1>5 DEF Tidy, Says, Told, files, OnTo
<1>10. op'[a].at = "over" => UpdateIsTrue(op[a])'
  BY <1>1, <1>4, <1>6 DEF UpdateIsTrue, Says, OnTo, Verified, Progress
<1>11. op'[a].at # "over" => Progress(bin', op'[a])
  <2>1. CASE op'[a].at = "keep"
    BY <1>1, <1>4, <1>6, <2>1 DEF OnTo, Says, Progress, SwapSteps
  <2>2. CASE op'[a].at = "swap"
    <3>1. op'[a].saved = saved /\ op'[a].from = bin
      BY <1>1, <1>4, <2>2 DEF OnTo, Says, Progress
    <3> QED BY <1>5, <1>6, <2>2, <3>1 DEF Progress
  <2>3. CASE op'[a].at = "swap back"
    BY <1>1, <1>4, <1>6, <2>3 DEF OnTo, Says, Progress, SwapSteps
  <2> QED BY <1>4, <2>1, <2>2, <2>3 DEF OnTo, Says
<1> QED BY <1>1, <1>5, <1>6, <1>8, <1>9, <1>10, <1>11 DEF JobGood

\* What an update kept of an engine it found running.
LEMMA KeptParts ==
  ASSUME NEW b, NEW k,
         k = [bin |-> b.bin, conf |-> IF Recovery(b.bin) THEN b.conf ELSE None,
              up |-> engine = "xray" \/ b.served # None]
  PROVE  /\ k.bin = b.bin /\ k.conf = IF Recovery(b.bin) THEN b.conf ELSE None
         /\ k.up <=> (engine = "xray" \/ b.served # None)
<1> DEFINE up == engine = "xray" \/ b.served # None
           old == IF Recovery(b.bin) THEN b.conf ELSE None
<1>1. k = [bin |-> b.bin, conf |-> old, up |-> up]
  OBVIOUS
<1> HIDE DEF up, old
<1>2. k.bin = b.bin /\ k.conf = old /\ k.up = up
  BY <1>1
<1>3. k.up <=> up
  BY <1>2
<1> QED BY <1>2, <1>3 DEF up, old

\* What an update that has saved knows.
LEMMA SwapKnows ==
  ASSUME Typed, NEW a \in Actors, op[a].at \in SwapSteps, NEW b \in Cores,
         Grounded(b), UpdateStory(op[a], b)
  PROVE  /\ op[a].from = b.bin /\ applied = b.applied
         /\ op[a].saved.bin = b.bin
         /\ op[a].saved.conf = IF Recovery(b.bin) THEN b.conf ELSE None
         /\ op[a].saved.up <=> (engine = "xray" \/ b.served # None)
         /\ ~Recovery(b.bin) => conf = b.conf /\ (Loads(op[a].asked, conf) \/ conf = None)
         /\ Recovery(b.bin) => op[a].saved.up /\ b.conf # None
         /\ op[a].saved.up => b.conf # None
         /\ ~op[a].saved.up => b.served = None /\ b.conf = None /\ engine # "xray"
<1>1. /\ op[a].from = b.bin /\ applied = b.applied
      /\ op[a].saved = [bin |-> b.bin, conf |-> IF Recovery(b.bin) THEN b.conf ELSE None,
                        up |-> engine = "xray" \/ b.served # None]
      /\ ~Recovery(b.bin) => conf = b.conf /\ (Loads(op[a].asked, conf) \/ conf = None)
  BY DEF UpdateStory, UpdateSteps
<1>2. /\ op[a].saved.bin = b.bin /\ op[a].saved.conf = IF Recovery(b.bin) THEN b.conf ELSE None
      /\ op[a].saved.up <=> (engine = "xray" \/ b.served # None)
  BY <1>1, KeptParts
<1>3. b.served = None <=> b.conf = None
  BY SettledNone DEF Grounded
<1>4. engine = "xray" => b.conf # None
  BY DEF Grounded
<1>5. Recovery(b.bin) => engine = "xray"
  BY DEF Recovery
<1> QED BY <1>1, <1>2, <1>3, <1>4, <1>5

\* A step with the kept record at hand goes on to another.
LEMMA SwapGoes ==
  ASSUME Typed, NEW a \in Actors, op[a].at \in SwapSteps, NEW b \in Cores,
         Grounded(b), UpdateStory(op[a], b),
         op'[a].asked = op[a].asked, op'[a].from = op[a].from, op'[a].saved = op[a].saved,
         ~op'[a].unseen,
         op'[a].at \in {"restart", "regenerate", "verify", "swap back", "restart old"},
         engine' = engine, applied' = applied,
         ~Recovery(b.bin) => conf' = conf,
         op'[a].at = "restart" => ~Recovery(b.bin) /\ op[a].saved.up,
         op'[a].at = "regenerate" => Recovery(b.bin),
         op'[a].at = "verify" => Settled(Core)',
         op'[a].at = "swap back" => op[a].saved.up,
         op'[a].at = "restart old" => conf' = b.conf /\ op[a].saved.up
  PROVE  UpdateStory(op[a], b)'
<1>1. /\ op[a].from = b.bin /\ applied = b.applied
      /\ op[a].saved = [bin |-> b.bin, conf |-> IF Recovery(b.bin) THEN b.conf ELSE None,
                        up |-> engine = "xray" \/ b.served # None]
      /\ ~Recovery(b.bin) => conf = b.conf /\ (Loads(op[a].asked, conf) \/ conf = None)
  BY DEF UpdateStory, UpdateSteps
<1>2. Recovery(b.bin)' <=> Recovery(b.bin)
  BY DEF Recovery
<1>3. ~Recovery(b.bin) => (Loads(op[a].asked, conf)' <=> Loads(op[a].asked, conf))
  BY DEF Loads
<1>4. op'[a].saved = [bin |-> b.bin, conf |-> IF Recovery(b.bin)' THEN b.conf ELSE None,
                      up |-> engine' = "xray" \/ b.served # None]
  BY <1>1, <1>2
<1>5. ~Recovery(b.bin)' => conf' = b.conf /\ (Loads(op[a].asked, conf)' \/ conf' = None)
  BY <1>1, <1>2, <1>3
<1> QED BY <1>1, <1>2, <1>4, <1>5 DEF UpdateStory

LEMMA SwapGood ==
  ASSUME Typed, Typed', Updates, NEW a \in Actors,
         Swap(a) \/ RestartNew(a) \/ Regenerate(a) \/ SwapBack(a) \/ RestartOld(a), Story(op[a])
  PROVE  JobGood(a)
<1>0. /\ op[a].at \in {"swap", "restart", "regenerate", "swap back", "restart old"}
      /\ op[a].at \in SwapSteps /\ op[a].at \in UpdateSteps
      /\ UNCHANGED <<engine, row, access, candidate, meta, applied, backups, ops>>
  BY DEF Swap, RestartNew, Regenerate, SwapBack, RestartOld, UpdateSteps, SwapSteps
<1>1. /\ Working(a) /\ op[a] \in Records /\ Shape(engine, op[a])
      /\ op[a].kind = "update" /\ op[a].asked \in Versions /\ op[a].from \in Versions
      /\ Holds(a) /\ Progress(bin, op[a]) /\ op[a].saved \in Kept
  BY <1>0, AtUpdate
<1>3. /\ {"restart", "regenerate", "verify", "swap back", "restart old"} \subseteq Steps
      /\ {"failed", "stuck"} \subseteq Answers
  BY DEF Steps, UpdateSteps, SwapSteps, Answers
<1> DEFINE Same == /\ op'[a].asked = op[a].asked /\ op'[a].from = op[a].from
                   /\ op'[a].saved = op[a].saved
           Up == Loads(bin, conf) /\ served' = [bin |-> bin, conf |-> conf]
           NoUp == ~Loads(bin, conf) /\ served' = None
<1>4. \/ /\ op[a].at = "swap" /\ Acts(a) /\ Same
         /\ bin' = op[a].asked /\ conf' = conf /\ served' = served /\ (clean' => clean)
         /\ op'[a].at = IF Recovery(bin) THEN "regenerate"
                        ELSE IF op[a].saved.up THEN "restart" ELSE "verify"
      \/ /\ op[a].at = "restart" /\ Acts(a) /\ Same
         /\ bin' = bin /\ conf' = conf /\ (clean' => clean)
         /\ \/ (Up \/ NoUp) /\ op'[a].at = "verify"
            \/ op'[a].at = "swap back"
      \/ /\ op[a].at = "regenerate" /\ Acts(a) /\ Same /\ bin' = bin /\ (clean' => clean)
         /\ \/ conf' = Body /\ served' = [bin |-> bin, conf |-> Body] /\ op'[a].at = "verify"
            \/ op'[a].at = "swap back"
      \/ /\ op[a].at = "swap back" /\ Acts(a) /\ Same
         /\ bin' = op[a].saved.bin /\ served' = served /\ (clean' => clean)
         /\ conf' = IF op[a].saved.conf # None THEN op[a].saved.conf ELSE conf
         /\ \/ op[a].saved.up /\ op'[a].at = "restart old"
            \/ ~op[a].saved.up /\ Says(a, "failed")
      \/ /\ op[a].at = "restart old" /\ Acts(a) /\ Same
         /\ bin' = bin /\ conf' = conf
         /\ \/ (Up \/ (NoUp /\ engine # "xray")) /\ Says(a, "failed") /\ (clean' => clean)
            \/ Says(a, "stuck") /\ ~clean'
  <2>1. CASE Swap(a)
    <3> DEFINE s == IF Recovery(bin) THEN "regenerate"
                    ELSE IF op[a].saved.up THEN "restart" ELSE "verify"
    <3>1. s \in Steps /\ Goto(a, s)
      BY <1>3, <2>1 DEF Swap
    <3> HIDE DEF s
    <3>2. Acts(a) /\ Same /\ op'[a].at = s
      BY <1>0, <1>1, <3>1, ActsGoto
    <3> QED BY <2>1, <3>2 DEF Swap, s
  <2>2. CASE RestartNew(a)
    BY <1>0, <1>1, <1>3, <2>2, ActsGoto DEF RestartNew, Restart
  <2>3. CASE Regenerate(a)
    BY <1>0, <1>1, <1>3, <2>3, ActsGoto DEF Regenerate
  <2>4. CASE SwapBack(a)
    BY <1>0, <1>1, <1>3, <2>4, ActsGoto, ActsEnd DEF SwapBack, Says
  <2>5. CASE RestartOld(a)
    BY <1>0, <1>1, <1>3, <2>5, ActsEnd DEF RestartOld, Restart, Says
  <2> QED BY <2>1, <2>2, <2>3, <2>4, <2>5
<1>5. /\ Acts(a) /\ op'[a].kind = op[a].kind /\ op'[a].before = op[a].before
      /\ op'[a].alone = op[a].alone /\ Same /\ op'[a].unseen = op[a].unseen
  BY <1>0, <1>4 DEF Acts, UpdateSteps, SwapSteps
<1>6. engine' = engine /\ applied' = applied
  BY <1>0
<1>7. ASSUME Grounded(op[a].before), UpdateStory(op[a], op[a].before), op[a].alone
      PROVE  IF op'[a].at = "over" THEN UpdateEnd(op[a], op[a].before)'
                                   ELSE UpdateStory(op[a], op[a].before)'
  <2>00. PICK b \in Cores : b = op[a].before
    BY <1>1, <1>7 DEF Shape
  <2>0. op[a].before = b /\ op'[a].before = b /\ Grounded(b) /\ UpdateStory(op[a], b) /\ ~op'[a].unseen
    BY <1>5, <1>7, <2>00 DEF UpdateStory
  <2>k. /\ op[a].from = b.bin /\ applied = b.applied
        /\ op[a].saved.bin = b.bin
        /\ op[a].saved.conf = IF Recovery(b.bin) THEN b.conf ELSE None
        /\ op[a].saved.up <=> (engine = "xray" \/ b.served # None)
        /\ ~Recovery(b.bin) => conf = b.conf /\ (Loads(op[a].asked, conf) \/ conf = None)
        /\ Recovery(b.bin) => op[a].saved.up /\ b.conf # None
        /\ op[a].saved.up => b.conf # None
        /\ ~op[a].saved.up => b.served = None /\ b.conf = None /\ engine # "xray"
    BY <1>0, <2>0, SwapKnows
  <2>b. b = [bin |-> b.bin, conf |-> b.conf, applied |-> b.applied, served |-> b.served]
    BY DEF Cores
  <2>s. b.served = IF b.conf = None THEN None ELSE [bin |-> b.bin, conf |-> b.conf]
    BY <2>0 DEF Grounded, Settled
  <2>1. CASE op[a].at = "swap"
    <3>1. bin = b.bin /\ conf = b.conf /\ served = b.served
      BY <2>0, <2>1 DEF UpdateStory, Core
    <3>2. op'[a].at = "verify" => conf' = None /\ served' = None
      BY <1>4, <2>1, <2>k, <2>s, <3>1
    <3>3. op'[a].at = "verify" => Settled(Core)'
      BY <3>2 DEF Settled, Core
    <3> QED BY <1>0, <1>4, <1>5, <1>6, <2>0, <2>1, <2>k, <3>1, <3>3, SwapGoes
  <2>2. CASE op[a].at = "restart"
    <3>1. ~Recovery(b.bin) /\ op[a].saved.up /\ bin = op[a].asked
      BY <1>1, <2>0, <2>2 DEF UpdateStory, Progress
    <3>2. conf = b.conf /\ conf # None /\ Loads(bin, conf)
      BY <2>k, <3>1
    <3>3. op'[a].at = "verify" => Settled(Core)'
      BY <1>4, <2>2, <3>2 DEF Settled, Core
    <3> QED BY <1>0, <1>4, <1>5, <1>6, <2>0, <2>2, <2>k, <3>1, <3>3, SwapGoes
  <2>3. CASE op[a].at = "regenerate"
    <3>1. Recovery(b.bin)
      BY <2>0, <2>3 DEF UpdateStory
    <3>2. Body # None
      BY RenderedType, MarkersAssumption DEF Typed, Configs
    <3>3. op'[a].at = "verify" => Settled(Core)'
      BY <1>4, <2>3, <3>2 DEF Settled, Core
    <3> QED BY <1>0, <1>4, <1>5, <1>6, <2>0, <2>3, <2>k, <3>1, <3>3, SwapGoes
  <2>4. CASE op[a].at = "swap back"
    <3>1. bin' = b.bin /\ conf' = b.conf /\ served' = served
      BY <1>4, <2>4, <2>k
    <3>2. CASE op[a].saved.up /\ op'[a].at = "restart old"
      <4>1. ~Recovery(b.bin) => conf' = conf
        BY <2>k, <3>1
      <4> QED BY <1>0, <1>5, <1>6, <2>0, <3>1, <3>2, <4>1, SwapGoes
    <3>3. CASE ~op[a].saved.up /\ Says(a, "failed")
      <4>1. served = b.served
        BY <2>0, <2>4, <3>3 DEF UpdateStory
      <4>2. Core' = b
        BY <1>6, <2>b, <2>k, <3>1, <4>1 DEF Core
      <4> QED BY <2>0, <3>3, <4>2 DEF Says, UpdateEnd
    <3> QED BY <1>4, <2>4, <3>2, <3>3
  <2>5. CASE op[a].at = "restart old"
    <3>1. bin = b.bin /\ conf = b.conf /\ conf # None
      BY <1>1, <2>0, <2>5, <2>k DEF UpdateStory, Progress
    <3>2. Loads(bin, conf)
      BY <2>0, <3>1 DEF Grounded
    <3>3. CASE Up /\ Says(a, "failed")
      <4>1. Core' = b
        BY <1>4, <1>6, <2>5, <2>b, <2>k, <2>s, <3>1, <3>3 DEF Core
      <4> QED BY <2>0, <3>3, <4>1 DEF Says, UpdateEnd
    <3>4. CASE Says(a, "stuck")
      BY <2>0, <3>4 DEF Says, UpdateEnd
    <3> QED BY <1>4, <2>5, <3>2, <3>3, <3>4
  <2> QED BY <1>0, <2>1, <2>2, <2>3, <2>4, <2>5
<1>8. Sound(a)'
  BY <1>1, <1>5, <1>7, UpdateSound
<1>9. Tidy(a)
  <2>1. clean' => clean /\ (op'[a].at = "over" => op'[a].answer \in Told)
    BY <1>0, <1>4 DEF Says, Told
  <2> QED BY <1>0, <1>1, <1>5, <2>1 DEF Tidy
<1>10. op'[a].at = "over" => UpdateIsTrue(op[a])'
  <2>1. op[a].at = "restart old" => bin = op[a].from
    BY <1>1 DEF Progress
  <2>2. op[a].saved.bin = op[a].from
    BY <1>0, <1>1 DEF Progress
  <2> QED BY <1>4, <1>5, <2>1, <2>2 DEF UpdateIsTrue, Says
<1>11. op'[a].at # "over" => Progress(bin', op'[a])
  <2>1. /\ op[a].saved.bin = op[a].from
        /\ op[a].at \in {"restart", "regenerate"} => bin = op[a].asked
    BY <1>0, <1>1 DEF Progress
  <2>2. CASE op[a].at = "swap"
    BY <1>4, <2>1, <2>2 DEF Progress
  <2>3. CASE op[a].at \in {"restart", "regenerate"}
    BY <1>4, <2>1, <2>3 DEF Progress
  <2>4. CASE op[a].at = "swap back"
    BY <1>4, <2>1, <2>4 DEF Progress, Says
  <2>5. CASE op[a].at = "restart old"
    BY <1>4, <2>5 DEF Says
  <2> QED BY <1>0, <2>2, <2>3, <2>4, <2>5
<1> QED BY <1>1, <1>5, <1>8, <1>9, <1>10, <1>11 DEF JobGood

LEMMA JobSteady ==
  ASSUME Typed, Typed', Updates, NEW a \in Actors, JobStep(a), Story(op[a])
  PROVE  JobGood(a)
BY ChooseGood, FetchGood, SwapGood DEF JobStep

-----------------------------------------------------------------------------
\* All steps.

LEMMA KillActs ==
  ASSUME Typed, Typed', NEW a \in Actors, Kill(a)
  PROVE  Acts(a) /\ Sound(a)' /\ bin' = bin /\ ~clean' /\ Says(a, "died")
<1>1. Working(a) /\ End(a, "died") /\ "died" \in Answers /\ UNCHANGED <<engine, row, access, files>> /\ ~clean'
  BY DEF Kill, Answers
<1>2. Acts(a) /\ Says(a, "died")
  BY <1>1, ActsEnd DEF Says
<1>3. Outcome(op[a])'
  BY <1>2 DEF Says, Outcome, AloneIsTrue
<1> QED BY <1>1, <1>2, <1>3 DEF Sound, Says, files

\* Beginning and reporting do not answer.
Begins(a) == Post(a) \/ Button(a) \/ ClientsApply(a) \/ Update(a)

Opens(a, k, s) ==
  /\ Begin(a, k, s) /\ k \in Kinds /\ s \in BareSteps \ {"idle start"}
  /\ k = "update" <=> s = "version"
  /\ UNCHANGED <<engine, files, faults>>

LEMMA BeginsOpen ==
  ASSUME NEW a \in Actors, Begins(a)
  PROVE  \E k \in Kinds, s \in BareSteps : Opens(a, k, s)
<1>1. /\ "build" \in BareSteps /\ "again" \in BareSteps /\ "select" \in BareSteps
      /\ "version" \in BareSteps /\ "idle conf" \in BareSteps
      /\ Kinds = {"test", "apply", "clients", "restart", "rollback", "update"}
  BY DEF BareSteps, Kinds
<1>2. UNCHANGED <<engine, files, faults>>
  BY DEF Begins, Post, Button, ClientsApply, Update
<1>3. CASE Post(a)
  BY <1>1, <1>2, <1>3 DEF Post, Opens
<1>4. CASE Button(a)
  BY <1>1, <1>2, <1>4 DEF Button, Opens
<1>5. CASE ClientsApply(a)
  BY <1>1, <1>2, <1>5 DEF ClientsApply, Opens
<1>6. CASE Update(a)
  BY <1>1, <1>2, <1>6 DEF Update, Opens
<1> QED BY <1>3, <1>4, <1>5, <1>6 DEF Begins

\* The records after a beginning.
LEMMA OpenOps ==
  ASSUME Typed, NEW a \in Actors, NEW k \in Kinds, NEW s \in BareSteps, Opens(a, k, s)
  PROVE  /\ ~Working(a) /\ Working(a)'
         /\ op'[a].at = s /\ op'[a].kind = k /\ op'[a].asked = None /\ ~op'[a].unseen
         /\ op'[a].alone <=> \A b \in Actors : ~Working(b)
         /\ op'[a].alone => op'[a].before = Core
         /\ \A b \in Actors \ {a} : op'[b] = Overlapped(op[b]) /\ op'[b].at = op[b].at
         /\ clean' => clean /\ op'[a].alone
<1> DEFINE alone == \A b \in Actors : ~Working(b)
           o == [at |-> s, kind |-> k, alone |-> alone, before |-> IF alone THEN Core ELSE None,
                 asked |-> None, from |-> None, saved |-> None, unseen |-> FALSE,
                 answer |-> None]
<1>1. /\ op' = [b \in Actors |-> IF b = a THEN o ELSE Overlapped(op[b])]
      /\ clean' = (clean /\ alone) /\ op[a].at = "idle"
  BY DEF Opens, Begin
<1> HIDE DEF alone
<1>2. /\ o.at = s /\ o.kind = k /\ o.asked = None /\ o.alone = alone /\ ~o.unseen
      /\ alone => o.before = Core
  OBVIOUS
<1> HIDE DEF o
<1>3. s # "idle" /\ s # "over"
  BY DEF BareSteps
<1>4. op'[a] = o
  BY <1>1
<1>5. \A b \in Actors \ {a} : op'[b] = Overlapped(op[b]) /\ op'[b].at = op[b].at
  BY <1>1, OverlappedOp DEF Typed, OpsOK
<1>6. op'[a].alone <=> alone
  BY <1>2, <1>4
<1>7. clean' => clean /\ alone
  BY <1>1
<1>8. ~Working(a) /\ Working(a)'
  BY <1>1, <1>2, <1>3, <1>4 DEF Working
<1> QED BY <1>2, <1>4, <1>5, <1>6, <1>7, <1>8 DEF alone

\* What is under way beside it.
LEMMA OverlappedStays ==
  ASSUME Typed, NEW b \in Actors, op'[b] = Overlapped(op[b]), op'[b].at = op[b].at
  PROVE  /\ Working(b)' <=> Working(b)
         /\ Working(b) => ~op'[b].alone
         /\ Holds(b)' <=> Holds(b)
         /\ \A v : Holds(b) /\ Progress(v, op[b]) => Progress(v, op'[b])
<1>1. /\ op[b].at # "idle" => /\ Overlapped(op[b]).kind = op[b].kind
                              /\ Overlapped(op[b]).asked = op[b].asked
                              /\ Overlapped(op[b]).from = op[b].from
                              /\ Overlapped(op[b]).saved = op[b].saved
      /\ op[b].at \notin {"idle", "over"} => ~Overlapped(op[b]).alone
  BY OverlappedOp DEF Typed, OpsOK
<1>2. Working(b)' <=> Working(b)
  BY DEF Working
<1>3. Working(b) => ~op'[b].alone
  BY <1>1 DEF Working
<1>4. Holds(b)' <=> Holds(b)
  BY <1>1, <1>2 DEF Holds, Working
<1>5. ASSUME NEW v, Holds(b), Progress(v, op[b]) PROVE Progress(v, op'[b])
  BY <1>1, <1>5 DEF Holds, Working, Progress
<1> QED BY <1>2, <1>3, <1>4, <1>5

\* What an operation that begins alone finds.
LEMMA CoreGrounded ==
  ASSUME Typed, Settled(Core)
  PROVE  Grounded(Core)
<1>1. /\ Core.bin = bin /\ Core.conf = conf /\ Core.served = served
      /\ bin \in Versions /\ conf \in Configs \cup {None}
  BY DEF Core, Typed, TypeOK
<1>2. conf # None => served = [bin |-> bin, conf |-> conf] /\ [bin |-> bin, conf |-> conf] \in Running
  BY <1>1 DEF Settled, Running
<1>3. conf # None => served # None /\ served.bin = bin /\ served.conf = conf
  BY <1>2, MarkersAssumption
<1>4. conf # None => Loads(bin, conf)
  BY <1>3 DEF Typed, ServiceOK
<1> QED BY <1>1, <1>4 DEF Grounded, Typed, ServiceOK

LEMMA OpensKeeps ==
  ASSUME Typed, Typed', Updates, NEW a \in Actors, NEW k \in Kinds, NEW s \in BareSteps,
         Opens(a, k, s)
  PROVE  Updates' /\ Apart' /\ Stories'
<1>1. /\ ~Working(a) /\ Working(a)'
      /\ op'[a].at = s /\ op'[a].kind = k /\ op'[a].asked = None /\ ~op'[a].unseen
      /\ op'[a].alone <=> \A b \in Actors : ~Working(b)
      /\ op'[a].alone => op'[a].before = Core
      /\ \A b \in Actors \ {a} : op'[b] = Overlapped(op[b]) /\ op'[b].at = op[b].at
  BY OpenOps
<1>2. ASSUME NEW b \in Actors \ {a}
      PROVE  /\ Working(b)' <=> Working(b)
             /\ Working(b) => ~op'[b].alone
             /\ Holds(b)' <=> Holds(b)
             /\ \A v : Holds(b) /\ Progress(v, op[b]) => Progress(v, op'[b])
  BY <1>1, OverlappedStays
<1>3. bin' = bin /\ ~Holds(a)' /\ engine' = engine
  BY <1>1 DEF Opens, files, Holds
<1>4. Updates'
  <2>1. ASSUME NEW b \in Actors, Holds(b)' PROVE b # a /\ Holds(b) /\ Progress(bin, op[b])'
    <3>1. b # a /\ Holds(b)
      BY <1>2, <1>3, <2>1
    <3>2. Progress(bin, op'[b])
      BY <1>2, <3>1 DEF Updates
    <3> QED BY <1>3, <3>1, <3>2
  <2> QED BY <2>1 DEF Updates
<1>5. Apart'
  <2> SUFFICES ASSUME NEW b \in Actors, NEW c \in Actors, Working(b)', op'[b].alone, Working(c)'
               PROVE  b = c
    BY DEF Apart
  <2>1. b = a
    BY <1>2
  <2> QED BY <1>1, <1>2, <2>1
<1>6. Story(op[a])'
  <2> SUFFICES ASSUME op'[a].alone, Settled(op'[a].before)
               PROVE  /\ Grounded(op[a].before)'
                      /\ IF op'[a].kind = "update" THEN UpdateStory(op[a], op[a].before)'
                                                   ELSE FormStory(op[a], op[a].before)'
    BY DEF Story
  <2>1. op'[a].before = Core /\ Core' = Core /\ Core.bin = bin /\ Core.applied = applied
    BY <1>1 DEF Opens, files, Core
  <2>2. Grounded(Core)
    BY <2>1, CoreGrounded
  <2>3. Grounded(op[a].before)'
    BY <1>3, <2>1, <2>2 DEF Grounded
  <2>4. CASE k = "update"
    <3>1. s = "version"
      BY <2>4 DEF Opens
    <3>2. UpdateStory(op[a], op[a].before)'
      BY <1>1, <2>1, <3>1 DEF UpdateStory, UpdateSteps, SwapSteps, Opens, files
    <3> QED BY <1>1, <2>3, <2>4, <3>2
  <2>5. CASE k # "update"
    <3>1. s \in {"build", "select", "again", "idle conf"}
      BY <2>5 DEF Opens, BareSteps
    <3>2. FormStory(op[a], op[a].before)'
      BY <1>1, <1>3, <2>1, <3>1 DEF FormStory, FormSteps, SharedSteps, SavedSteps
    <3> QED BY <1>1, <2>3, <2>5, <3>2
  <2> QED BY <2>4, <2>5
<1>7. Stories'
  <2> SUFFICES ASSUME NEW b \in Actors, Working(b)' PROVE Story(op[b])'
    BY DEF Stories
  <2>1. CASE b = a
    BY <1>6, <2>1
  <2>2. CASE b # a
    BY <1>2, <2>2 DEF Story
  <2> QED BY <2>1, <2>2
<1> QED BY <1>4, <1>5, <1>7

LEMMA BesideKeeps ==
  ASSUME Typed, Typed', Updates, Save \/ ApplyXray
  PROVE  /\ Updates' /\ Apart' /\ Stories'
         /\ \A b \in Actors : op'[b].at = op[b].at
<1>1. bin' = bin /\ op' = [b \in Actors |-> Overlapped(op[b])]
  BY DEF Save, ApplyXray, files
<1>2. ASSUME NEW b \in Actors PROVE op'[b] = Overlapped(op[b]) /\ op'[b].at = op[b].at
  BY <1>1, OverlappedOp DEF Typed, OpsOK
<1>3. ASSUME NEW b \in Actors
      PROVE  /\ Working(b)' <=> Working(b)
             /\ Working(b) => ~op'[b].alone
             /\ Holds(b)' <=> Holds(b)
             /\ \A v : Holds(b) /\ Progress(v, op[b]) => Progress(v, op'[b])
  BY <1>2, OverlappedStays
<1>4. Updates'
  <2>1. ASSUME NEW b \in Actors, Holds(b)' PROVE Holds(b) /\ Progress(bin, op[b])'
    <3>1. Progress(bin, op'[b])
      BY <1>3, <2>1 DEF Updates
    <3> QED BY <1>1, <1>3, <2>1, <3>1
  <2> QED BY <2>1 DEF Updates
<1>5. Apart'
  BY <1>3 DEF Apart
<1>6. Stories'
  <2> SUFFICES ASSUME NEW b \in Actors, Working(b)' PROVE Story(op[b])'
    BY DEF Stories
  <2> QED BY <1>3 DEF Story
<1> QED BY <1>2, <1>4, <1>5, <1>6

LEMMA StoryStays ==
  ASSUME NEW b \in Actors, op'[b] = op[b], Story(op[b]),
         UNCHANGED <<engine, row, access, candidate, meta, bin, conf, applied, served>>
  PROVE  Story(op[b])'
<1>1. Core' = Core /\ Saved' = Saved /\ AskedForm' = AskedForm /\ Rendered' = Rendered
  BY SameCore, SameForm
<1>0. /\ candidate' = candidate /\ meta' = meta /\ bin' = bin /\ conf' = conf
      /\ applied' = applied /\ served' = served
  OBVIOUS
<1>2. FormStory(op[b], op[b].before) => FormStory(op[b], op[b].before)'
  <2> SUFFICES ASSUME FormStory(op[b], op[b].before) PROVE FormStory(op[b], op[b].before)'
    OBVIOUS
  <2>1. PICK o : o = op[b]
    OBVIOUS
  <2>2. PICK c : c = op[b].before
    OBVIOUS
  <2>3. FormStory(o, c) /\ op'[b] = o /\ op'[b].before = c
    BY <2>1, <2>2
  <2>6. FormStory(o, c)'
    <3>1. Settled(Core)' <=> Settled(Core)
      BY <1>1 DEF Settled
    <3>2. /\ o.at \in {"build", "describe", "back up", "check", "install", "stop", "again", "select",
               "roll back", "idle conf"} => Core' = c
          /\ o.at \in FormSteps => o.asked = AskedForm'
          /\ o.at \in SharedSteps /\ o.kind # "rollback" => o.asked = AskedForm'
          /\ o.at \in {"describe", "back up", "check", "install"} => candidate' = Rendered'
          /\ o.at = "back up" => meta' = o.asked
      BY <1>0, <1>1, <2>3 DEF FormStory
    <3>3. /\ o.at \in SavedSteps => o.saved = SavedOf(c)
          /\ o.at \in {"check", "install", "record"} => o.asked.on
          /\ o.at = "start" /\ o.kind # "rollback" => o.asked.on
          /\ o.at \in {"stop", "remove"} => ~o.asked.on
          /\ bin' = c.bin
      BY <1>0, <1>1, <2>3 DEF FormStory
    <3>4. /\ o.at = "install" => Loads(bin', candidate')
          /\ o.at = "start" => Loads(bin', conf')
      BY <1>0, <2>3 DEF FormStory
    <3>5. /\ o.at = "start" /\ o.kind # "rollback" => conf' = Rendered' /\ applied' = c.applied
          /\ o.at \in {"start", "check again", "halt"} /\ o.kind = "rollback" => Saved' = o.asked
      BY <1>0, <1>1, <2>3 DEF FormStory
    <3>6. /\ o.at = "record" => conf' = Rendered' /\ served' = [bin |-> bin', conf |-> conf']
          /\ o.unseen => o.at \in {"remove", "sing-box", "put back", "recover"}
          /\ o.at = "sing-box" => /\ conf' = IF o.asked.on THEN Rendered' ELSE None
                                  /\ applied' = o.asked
                                  /\ IF o.unseen THEN conf' = None /\ served' = c.served
                                                 ELSE Settled(Core)'
          /\ o.at = "remove" => served' = IF o.unseen THEN c.served ELSE None
      BY <1>0, <1>1, <2>3, <3>1 DEF FormStory
    <3>7. /\ o.at = "put back" /\ o.kind = "test" => Core' = c
          /\ o.at = "recover" => Saved' = SavedOf(c)
          /\ o.at = "check again" => conf' # None
          /\ o.at = "halt" => conf' = None
          /\ o.at = "idle start" => conf' = Idle
      BY <1>0, <1>1, <2>3 DEF FormStory
    <3> QED BY <3>2, <3>3, <3>4, <3>5, <3>6, <3>7 DEF FormStory
  <2> QED BY <2>3, <2>6
<1>3. UpdateStory(op[b], op[b].before) => UpdateStory(op[b], op[b].before)'
  <2> SUFFICES ASSUME UpdateStory(op[b], op[b].before) PROVE UpdateStory(op[b], op[b].before)'
    OBVIOUS
  <2>0. PICK o : o = op[b]
    OBVIOUS
  <2>01. PICK c : c = op[b].before
    OBVIOUS
  <2>02. UpdateStory(o, c) /\ op'[b] = o /\ op'[b].before = c
    BY <2>0, <2>01
  <2>1. /\ Fits(o.asked)' <=> Fits(o.asked)
        /\ Loads(o.asked, conf)' <=> Loads(o.asked, conf)
        /\ Recovery(c.bin)' <=> Recovery(c.bin)
        /\ Settled(Core)' <=> Settled(Core)
    BY <1>1 DEF Fits, Recovery, Loads, Settled
  <2>2. UpdateStory(o, c)'
    BY <1>0, <1>1, <2>02, <2>1 DEF UpdateStory
  <2> QED BY <2>02, <2>2
<1>4. Grounded(op[b].before) => Grounded(op[b].before)'
  BY DEF Grounded
<1> QED BY <1>2, <1>3, <1>4 DEF Story

LEMMA ReportKeeps ==
  ASSUME Typed, Updates, Apart, Stories, NEW a \in Actors, Report(a)
  PROVE  /\ Updates' /\ Apart' /\ Stories'
         /\ \A b \in Actors : Working(b)' => Working(b) /\ op'[b] = op[b]
         /\ \A b \in Actors : Working(b) => Working(b)' /\ op'[b].at # "over"
<1>1. /\ op[a].at = "over" /\ op' = [op EXCEPT ![a] = NoOp]
      /\ UNCHANGED <<engine, row, access, candidate, meta, bin, conf, applied, served, backups>>
  BY DEF Report, files
<1>2. ASSUME NEW b \in Actors
      PROVE  /\ Working(b)' => Working(b) /\ op'[b] = op[b]
             /\ Working(b) => Working(b)' /\ op'[b] = op[b]
  BY <1>1 DEF Working, Typed, OpsOK, NoOp
<1>3. Updates'
  BY <1>1, <1>2 DEF Updates, Holds, Progress
<1>4. Apart'
  BY <1>2 DEF Apart
<1>5. Stories'
  <2> SUFFICES ASSUME NEW b \in Actors, Working(b)' PROVE Story(op[b])'
    BY DEF Stories
  <2>1. Story(op[b]) /\ op'[b] = op[b]
    BY <1>2 DEF Stories
  <2> QED BY <1>1, <2>1, StoryStays
<1> QED BY <1>2, <1>3, <1>4, <1>5 DEF Working

\* Every step keeps the invariant and answers truly.
LEMMA ActorKeeps ==
  ASSUME Strong, Typed', NEW a \in Actors, FormStep(a) \/ JobStep(a) \/ Kill(a)
  PROVE  /\ Updates' /\ Apart' /\ Stories'
         /\ Acts(a) /\ Sound(a)' /\ (Tidy(a) \/ ~clean')
         /\ op'[a].at = "over" => AloneIsTrue(op[a])' /\ UpdateIsTrue(op[a])'
<1> USE DEF Strong
<1>1. CASE FormStep(a)
  <2>1. Working(a)
    BY <1>1 DEF FormStep, Helper, Build, Describe, BackUp, Check, Install, Start, Record, SingBox,
                Stop, Remove, PutBack, Recover, Again, Select, RollBack, CheckAgain, Halt,
                IdleConf, IdleStart, Working
  <2>2. Steady(a)
    BY <1>1, <2>1, FormSteady DEF Stories
  <2>3. Updates' /\ Apart' /\ Stories'
    BY <2>2, UpdatesOne, StoriesOne DEF Steady, Acts
  <2>4. op'[a].at = "over" => AloneIsTrue(op[a])' /\ UpdateIsTrue(op[a])'
    BY <2>2 DEF Steady, Acts, Sound, Outcome, AloneIsTrue, UpdateIsTrue
  <2> QED BY <2>2, <2>3, <2>4 DEF Steady
<1>2. CASE JobStep(a)
  <2>1. Working(a)
    BY <1>2 DEF JobStep, ChooseRelease, Fetch, Keep, Swap, RestartNew, Regenerate, Verify, SwapBack,
                RestartOld, Working
  <2>2. JobGood(a)
    BY <1>2, <2>1, JobSteady DEF Stories
  <2>3. op'[a].at # "over" => \A b \in Actors : Holds(b) => b = a
    BY <2>2 DEF JobGood, Updates
  <2>4. Updates' /\ Apart' /\ Stories'
    BY <2>2, <2>3, UpdatesOne, StoriesOne DEF JobGood
  <2>5. op'[a].at = "over" => AloneIsTrue(op[a])' /\ UpdateIsTrue(op[a])'
    BY <2>2 DEF JobGood, Acts, Sound, Outcome, AloneIsTrue
  <2> QED BY <2>2, <2>4, <2>5 DEF JobGood
<1>3. CASE Kill(a)
  <2>1. Acts(a) /\ Sound(a)' /\ bin' = bin /\ Says(a, "died") /\ ~clean'
    BY <1>3, KillActs
  <2>2. Updates' /\ Apart' /\ Stories'
    BY <2>1, UpdatesOne, StoriesOne DEF Says
  <2> QED BY <2>1, <2>2 DEF Says, AloneIsTrue, UpdateIsTrue
<1> QED BY <1>1, <1>2, <1>3

LEMMA NextCases ==
  ASSUME Next
  PROVE  \/ \E a \in Actors : FormStep(a) \/ JobStep(a) \/ Kill(a)
         \/ \E a \in Actors : \E k \in Kinds, s \in BareSteps : Opens(a, k, s)
         \/ \E a \in Actors : Report(a)
         \/ Save \/ ApplyXray
BY BeginsOpen DEF Next, Begins, Job, FormStep, JobStep

LEMMA InitStrong == Init => Strong
<1> SUFFICES ASSUME Init PROVE Strong
  OBVIOUS
<1>1. \A a \in Actors : ~Working(a)
  BY DEF Init, Working, NoOp
<1> QED BY <1>1, InitTyped DEF Strong, Updates, Holds, Apart, Stories

LEMMA NextStrong == Strong /\ [Next]_vars => Strong'
<1> SUFFICES ASSUME Strong, [Next]_vars PROVE Strong'
  OBVIOUS
<1>0. Typed'
  BY NextTyped DEF Strong
<1>1. CASE UNCHANGED vars
  <2>1. Updates' /\ Apart'
    BY <1>1 DEF vars, Strong, Updates, Apart, Holds, Progress, Working
  <2>2. Stories'
    <3> SUFFICES ASSUME NEW b \in Actors, Working(b)' PROVE Story(op[b])'
      BY DEF Stories
    <3>1. Story(op[b]) /\ op'[b] = op[b]
      BY <1>1 DEF vars, Strong, Stories, Working
    <3> QED BY <1>1, <3>1, StoryStays DEF vars
  <2> QED BY <1>0, <2>1, <2>2 DEF Strong
<1>2. ASSUME NEW a \in Actors, FormStep(a) \/ JobStep(a) \/ Kill(a) PROVE Strong'
  BY <1>0, <1>2, ActorKeeps DEF Strong
<1>3. ASSUME NEW a \in Actors, NEW k \in Kinds, NEW s \in BareSteps, Opens(a, k, s) PROVE Strong'
  BY <1>0, <1>3, OpensKeeps DEF Strong
<1>4. ASSUME NEW a \in Actors, Report(a) PROVE Strong'
  BY <1>0, <1>4, ReportKeeps DEF Strong
<1>5. CASE Save \/ ApplyXray
  BY <1>0, <1>5, BesideKeeps DEF Strong
<1> QED BY <1>1, <1>2, <1>3, <1>4, <1>5, NextCases

LEMMA StepAnswers ==
  Strong /\ [Next]_vars =>
    [\A a \in Actors : Working(a) /\ op'[a].at = "over" =>
       AloneIsTrue(op[a])' /\ UpdateIsTrue(op[a])']_vars
<1> SUFFICES ASSUME Strong, Next, NEW a \in Actors, Working(a), op'[a].at = "over"
             PROVE  AloneIsTrue(op[a])' /\ UpdateIsTrue(op[a])'
  OBVIOUS
<1>0. Typed'
  BY NextTyped DEF Strong
<1>1. ASSUME NEW b \in Actors, FormStep(b) \/ JobStep(b) \/ Kill(b)
      PROVE  AloneIsTrue(op[a])' /\ UpdateIsTrue(op[a])'
  <2>1. Acts(b) /\ (op'[b].at = "over" => AloneIsTrue(op[b])' /\ UpdateIsTrue(op[b])')
    BY <1>0, <1>1, ActorKeeps
  <2>2. a = b
    BY <2>1 DEF Acts, Working
  <2> QED BY <2>1, <2>2
<1>2. ASSUME NEW b \in Actors, NEW k \in Kinds, NEW s \in BareSteps, Opens(b, k, s) PROVE FALSE
  <2>1. ~Working(b) /\ \A c \in Actors \ {b} : op'[c].at = op[c].at
    BY <1>2, OpenOps DEF Strong
  <2> QED BY <2>1 DEF Working
<1>3. ASSUME NEW b \in Actors, Report(b) PROVE FALSE
  BY <1>3, ReportKeeps DEF Strong
<1>4. CASE Save \/ ApplyXray
  <2>1. op'[a].at = op[a].at
    BY <1>0, <1>4, BesideKeeps DEF Strong
  <2> QED BY <2>1 DEF Working
<1> QED BY <1>1, <1>2, <1>3, <1>4, NextCases

\* What a test, an apply, a rollback, a restart and an update answer is true.
THEOREM AnswersAreTrue == Spec => AnswerIsTrue
<1>1. Spec => []Strong
  BY InitStrong, NextStrong, PTL DEF Spec
<1>2. Strong /\ [Next]_vars =>
        [\A a \in Actors : Working(a) /\ op'[a].at = "over" =>
           AloneIsTrue(op[a])' /\ UpdateIsTrue(op[a])']_vars
  BY StepAnswers
<1> QED BY <1>1, <1>2, PTL DEF Spec, AnswerIsTrue

-----------------------------------------------------------------------------
\* Nothing overlapped.

LEMMA MatchesParts ==
  ASSUME NEW c, NEW d, c.conf = d.conf, c.applied = d.applied, Matches(c)
  PROVE  Matches(d)
BY DEF Matches

LEMMA MatchesRendered ==
  ASSUME TypeOK, NEW c, c.conf = Rendered, c.applied = AskedForm
  PROVE  Matches(c)
<1>1. AskedForm \in Metas /\ AskedForm.opt = row.opt
  BY RenderedType DEF AskedForm
<1>2. AskedForm # None
  BY <1>1, MarkersAssumption
<1>3. Rendered \in Bodies => Rendered.opt = row.opt
  BY MarkersAssumption DEF Rendered, Body
<1> QED BY <1>1, <1>2, <1>3 DEF Matches

LEMMA EndsClean ==
  ASSUME Strong, Typed', NEW a \in Actors, Acts(a), Sound(a)', Tidy(a), engine = "mihomo",
         op'[a].at = "over", clean', CleanOp(op[a]),
         \A i \in 1..Len(backups) : Matches(backups[i])
  PROVE  (Settled(Core) /\ Matches(Core))'
<1> DEFINE b == op[a].before
<1>0. /\ op[a].alone /\ Settled(op[a].before) /\ Matches(op[a].before)
      /\ op'[a].before = op[a].before /\ op'[a].alone /\ op'[a].kind = op[a].kind
      /\ op[a].kind \in Kinds /\ engine' = engine /\ ~op'[a].unseen
  BY DEF CleanOp, Acts, Records, Tidy
<1>1. /\ AloneIsTrue(op[a])'
      /\ op'[a].answer \in {"done", "partly"} =>
           /\ op'[a].kind \in {"update", "restart", "test"} =>
                Saved' = SavedOf(op'[a].before) \/ Recovery(op[a].before.bin)'
           /\ op'[a].kind \in {"apply", "clients"} =>
                conf' \in {Idle, None} \/ (conf' = Rendered' /\ applied' = AskedForm')
  BY <1>0 DEF Sound, Outcome, SavedOf
<1>2. op'[a].answer \in {"failed", "tested", "done", "partly"}
  BY DEF Tidy, Told
<1>3. CASE op'[a].answer \in {"failed", "tested"}
  <2>1. Installed' = InstalledIn(op[a].before) /\ served' = op[a].before.served
    BY <1>0, <1>1, <1>3 DEF AloneIsTrue, InstalledIn
  <2>10. /\ Core'.bin = op[a].before.bin /\ Core'.conf = op[a].before.conf
         /\ Core'.applied = op[a].before.applied /\ Core'.served = op[a].before.served
    BY <2>1 DEF Core, Installed, InstalledIn
  <2>2. Settled(Core') /\ Matches(Core')
    BY <1>0, <2>10, MatchesParts DEF Settled
  <2> QED BY <2>2 DEF Settled, Matches
<1>4. CASE op'[a].answer \in {"done", "partly"}
  <2>1. Settled(Core)' /\ (op[a].kind = "rollback" => Saved' = op'[a].asked)
    BY <1>0, <1>1, <1>4 DEF AloneIsTrue
  <2>2. Core'.conf = conf' /\ Core'.applied = applied' /\ Saved'.conf = conf' /\ Saved'.applied = applied'
    BY DEF Core, Saved
  <2>3. CASE op[a].kind \in {"update", "restart", "test"}
    <3>1. Saved' = SavedOf(op[a].before)
      BY <1>0, <1>1, <1>4, <2>3 DEF Recovery, SavedOf
    <3>2. conf' = op[a].before.conf /\ applied' = op[a].before.applied
      BY <2>2, <3>1 DEF SavedOf
    <3>3. Matches(Core')
      BY <1>0, <2>2, <3>2, MatchesParts
    <3> QED BY <2>1, <3>3 DEF Matches
  <2>4. CASE op[a].kind \in {"apply", "clients"}
    <3>1. CASE conf' \in {Idle, None}
      BY <2>1, <2>2, <3>1, MarkersAssumption DEF Matches, Configs
    <3>2. CASE conf' = Rendered' /\ applied' = AskedForm'
      <4>1. TypeOK' /\ row' = row /\ access' = access
        BY DEF Typed, Acts
      <4>2. TypeOK /\ Rendered' = Rendered /\ AskedForm' = AskedForm
        BY <4>1, SameForm DEF Strong, Typed
      <4>3. Matches(Core')
        BY <2>2, <3>2, <4>2, MatchesRendered
      <4> QED BY <2>1, <4>3 DEF Matches
    <3> QED BY <1>0, <1>1, <1>4, <2>4, <3>1, <3>2
  <2>5. CASE op[a].kind = "rollback"
    <3>1. Matches(op'[a].asked)
      <4>1. CASE op[a].at = "select"
        BY <1>4, <2>5, <4>1 DEF Tidy
      <4>2. CASE op[a].at # "select"
        <5>1. op'[a].asked = op[a].asked
          BY <1>4, <2>5, <4>2 DEF Tidy
        <5>2. op[a].at \in RollSteps \cup SharedSteps
          BY <2>5, <4>2 DEF Acts, Working, Shape, StepsOf
        <5> QED BY <2>5, <5>1, <5>2 DEF CleanOp
      <4> QED BY <4>1, <4>2
    <3>2. Matches(Core')
      BY <2>1, <2>2, <2>5, <3>1, MatchesParts
    <3> QED BY <2>1, <3>2 DEF Matches
  <2> QED BY <1>0, <2>3, <2>4, <2>5 DEF Kinds
<1> QED BY <1>2, <1>3, <1>4

\* A step of a clean operation copies what matches its metadata.
LEMMA CopiesClean ==
  ASSUME Strong, Typed', NEW a \in Actors, Acts(a), Tidy(a), CleanOp(op[a]),
         \A i \in 1..Len(backups) : Matches(backups[i])
  PROVE  \A i \in 1..Len(backups') : Matches(backups'[i])
<1>1. CASE backups' = backups
  BY <1>1
<1>2. CASE backups' = Append(backups, Saved) /\ op[a].at \in {"back up", "select"}
  <2>1. Working(a) /\ Shape(engine, op[a]) /\ op[a] \in Records /\ Story(op[a]) /\ op[a].at # "over"
    BY DEF Acts, Strong, Stories, Working
  <2>2. op[a].kind # "update"
    BY <1>2, <2>1, KindAt
  <2>3. FormStory(op[a], op[a].before)
    BY <2>1, <2>2 DEF Story, CleanOp
  <2>4. Core = op[a].before
    BY <1>2, <2>3 DEF FormStory
  <2>5. Matches(Core)
    BY <2>4 DEF CleanOp
  <2>6. Saved.conf = Core.conf /\ Saved.applied = Core.applied
    BY DEF Saved, Core
  <2>7. Matches(Saved)
    BY <2>5, <2>6, MatchesParts
  <2>8. Saved \in Backups /\ backups \in Seq(Backups)
    BY CoreType DEF Strong, Typed, TypeOK
  <2>9. /\ Len(backups') = Len(backups) + 1 /\ Len(backups) \in Nat
        /\ \A i \in 1..Len(backups) + 1 : backups'[i] = IF i = Len(backups) + 1 THEN Saved ELSE backups[i]
    <3>1. /\ Append(backups, Saved) \in Seq(Backups) /\ Len(Append(backups, Saved)) = Len(backups) + 1
          /\ \A i \in 1..Len(backups) + 1 :
               Append(backups, Saved)[i] = IF i = Len(backups) + 1 THEN Saved ELSE backups[i]
      BY <2>8, AppendOne
    <3>2. Len(backups) \in Nat
      BY <2>8
    <3> QED BY <1>2, <3>1, <3>2
  <2> SUFFICES ASSUME NEW i \in 1..Len(backups') PROVE Matches(backups'[i])
    OBVIOUS
  <2>10. CASE i = Len(backups) + 1
    BY <2>7, <2>9, <2>10
  <2>11. CASE i # Len(backups) + 1
    <3>1. i \in 1..Len(backups) /\ backups'[i] = backups[i]
      BY <2>9, <2>11
    <3> QED BY <3>1
  <2> QED BY <2>10, <2>11
<1> QED BY <1>1, <1>2 DEF Tidy

\* A clean operation goes on clean.
LEMMA GoesClean ==
  ASSUME Strong, NEW a \in Actors, Acts(a), Tidy(a), clean', CleanOp(op[a]), op'[a].at # "over",
         \A i \in 1..Len(backups) : Matches(backups[i])
  PROVE  CleanOp(op'[a])
<1>1. /\ op'[a].alone /\ Settled(op'[a].before) /\ Matches(op'[a].before)
      /\ op'[a].kind = op[a].kind /\ ~op'[a].unseen
  BY DEF CleanOp, Acts, Tidy
<1>2. ASSUME op'[a].kind = "rollback" PROVE Matches(op'[a].asked)
             \/ op'[a].at \notin RollSteps \cup SharedSteps
  <2>1. CASE op[a].at = "select"
    BY <1>1, <1>2, <2>1 DEF Tidy
  <2>2. CASE op[a].at # "select"
    <3>1. op'[a].asked = op[a].asked
      BY <1>1, <1>2, <2>2 DEF Tidy
    <3>2. op[a].at \in RollSteps \cup SharedSteps
      BY <1>1, <1>2, <2>2 DEF Acts, Working, Shape, StepsOf
    <3> QED BY <1>1, <1>2, <3>1, <3>2 DEF CleanOp
  <2> QED BY <2>1, <2>2
<1> QED BY <1>1, <1>2 DEF CleanOp

LEMMA ActorClean ==
  ASSUME Strong, Typed', Cleanly, NEW a \in Actors, FormStep(a) \/ JobStep(a) \/ Kill(a)
  PROVE  Cleanly'
<1> SUFFICES ASSUME clean', engine' = "mihomo"
             PROVE  /\ \A i \in 1..Len(backups') : Matches(backups'[i])
                    /\ \A b \in Actors : Working(b)' => CleanOp(op'[b])
                    /\ (\A b \in Actors : ~Working(b)') => (Settled(Core) /\ Matches(Core))'
  <2>1. \A i : Matches(backups[i])' <=> Matches(backups'[i])
    BY DEF Matches
  <2>2. \A b : CleanOp(op[b])' <=> CleanOp(op'[b])
    BY DEF CleanOp, Settled, Matches
  <2> QED BY <2>1, <2>2 DEF Cleanly
<1>1. Acts(a) /\ Sound(a)' /\ Tidy(a)
  BY ActorKeeps
<1>2. clean /\ engine = "mihomo" /\ Working(a)
  BY <1>1 DEF Tidy, Acts
<1>3. CleanOp(op[a]) /\ \A i \in 1..Len(backups) : Matches(backups[i])
  BY <1>2 DEF Cleanly
<1>4. \A b \in Actors \ {a} : ~Working(b) /\ op'[b] = op[b]
  BY <1>1, <1>2, <1>3 DEF Strong, Apart, CleanOp, Acts
<1>5. \A b \in Actors \ {a} : ~Working(b)'
  BY <1>4 DEF Working
<1>6. \A i \in 1..Len(backups') : Matches(backups'[i])
  BY <1>1, <1>3, CopiesClean
<1>7. ASSUME Working(a)' PROVE CleanOp(op'[a])
  BY <1>1, <1>3, <1>7, GoesClean DEF Working
<1>8. ASSUME ~Working(a)' PROVE (Settled(Core) /\ Matches(Core))'
  <2>1. op'[a].at = "over"
    <3>1. op'[a].at \in Steps \cup {"over"}
      BY <1>1 DEF Acts, Records
    <3> QED BY <1>8, <3>1, StepIsString DEF Working
  <2> QED BY <1>1, <1>2, <1>3, <2>1, EndsClean
<1> QED BY <1>5, <1>6, <1>7, <1>8

LEMMA OpensClean ==
  ASSUME Strong, Typed', Cleanly, NEW a \in Actors, NEW k \in Kinds, NEW s \in BareSteps, Opens(a, k, s)
  PROVE  Cleanly'
<1>1. /\ Working(a)'
      /\ op'[a].at = s
      /\ op'[a].alone <=> \A b \in Actors : ~Working(b)
      /\ op'[a].alone => op'[a].before = Core
      /\ \A b \in Actors \ {a} : op'[b].at = op[b].at
      /\ clean' => clean /\ op'[a].alone
      /\ ~op'[a].unseen
  BY OpenOps DEF Strong
<1>2. engine' = engine /\ backups' = backups /\ UNCHANGED <<bin, conf, applied, served>>
  BY DEF Opens, files
<1> SUFFICES ASSUME clean', engine' = "mihomo"
             PROVE  /\ \A i \in 1..Len(backups') : Matches(backups'[i])
                    /\ \A b \in Actors : Working(b)' => CleanOp(op'[b])
                    /\ ~(\A b \in Actors : ~Working(b)')
  <2>1. \A i : Matches(backups[i])' <=> Matches(backups'[i])
    BY DEF Matches
  <2>2. \A b : CleanOp(op[b])' <=> CleanOp(op'[b])
    BY DEF CleanOp, Settled, Matches
  <2> QED BY <2>1, <2>2 DEF Cleanly
<1>3. clean /\ engine = "mihomo" /\ op'[a].alone /\ \A b \in Actors : ~Working(b)
  BY <1>1, <1>2
<1>4. /\ \A i \in 1..Len(backups) : Matches(backups[i])
      /\ Settled(Core) /\ Matches(Core)
  BY <1>3 DEF Cleanly
<1>5. s \notin RollSteps \cup SharedSteps
  BY DEF BareSteps, RollSteps, SharedSteps
<1>6. CleanOp(op'[a])
  BY <1>1, <1>3, <1>4, <1>5 DEF CleanOp
<1>7. \A b \in Actors \ {a} : ~Working(b)'
  BY <1>1, <1>3 DEF Working
<1> QED BY <1>1, <1>2, <1>4, <1>6, <1>7

\* What leaves the files alone while nobody works.
LEMMA IdleClean ==
  ASSUME Cleanly, UNCHANGED <<bin, conf, applied, served, backups>>,
         clean' => clean, engine' = "mihomo" => engine = "mihomo",
         \A b \in Actors : /\ Working(b)' => Working(b) /\ op'[b] = op[b]
                           /\ Working(b) => Working(b)'
  PROVE  Cleanly'
<1>1. SUFFICES ASSUME clean', engine' = "mihomo"
             PROVE  /\ \A i \in 1..Len(backups') : Matches(backups'[i])
                    /\ \A b \in Actors : Working(b)' => CleanOp(op'[b])
                    /\ (\A b \in Actors : ~Working(b)') => (Settled(Core) /\ Matches(Core))'
  <2>1. \A i : Matches(backups[i])' <=> Matches(backups'[i])
    BY DEF Matches
  <2>2. \A b : CleanOp(op[b])' <=> CleanOp(op'[b])
    BY DEF CleanOp, Settled, Matches
  <2> QED BY <2>1, <2>2 DEF Cleanly
<1>2. Core' = Core
  BY SameCore
<1>3. clean /\ engine = "mihomo"
  BY <1>1
<1>4. (Settled(Core) /\ Matches(Core)) => (Settled(Core) /\ Matches(Core))'
  BY <1>2 DEF Settled, Matches
<1>5. \A i \in 1..Len(backups') : Matches(backups'[i])
  <2>1. backups' = backups
    OBVIOUS
  <2>2. \A i \in 1..Len(backups) : Matches(backups[i])
    BY <1>3 DEF Cleanly
  <2> QED BY <2>1, <2>2
<1>7. ASSUME NEW b \in Actors, Working(b)' PROVE CleanOp(op'[b])
  <2>1. Working(b) /\ op'[b] = op[b]
    BY <1>7
  <2>2. CleanOp(op[b])
    BY <1>3, <2>1 DEF Cleanly
  <2> QED BY <2>1, <2>2
<1>6. (\A b \in Actors : ~Working(b)') => Settled(Core) /\ Matches(Core)
  BY <1>3 DEF Cleanly
<1> QED BY <1>4, <1>5, <1>6, <1>7

LEMMA InitClean == Init => Cleanly
<1> SUFFICES ASSUME Init PROVE Cleanly
  OBVIOUS
<1>1. \A a \in Actors : ~Working(a)
  BY DEF Init, Working, NoOp
<1>2. Len(backups) = 0
  BY DEF Init
<1>3. ASSUME engine = "mihomo" PROVE Settled(Core) /\ Matches(Core)
  <2>1. conf = Idle /\ served = [bin |-> bin, conf |-> conf]
    BY <1>3 DEF Init
  <2> QED BY <2>1, MarkersAssumption DEF Core, Settled, Matches, Configs
<1> QED BY <1>1, <1>2, <1>3 DEF Cleanly

LEMMA NextClean == Strong /\ Cleanly /\ [Next]_vars => Cleanly'
<1> SUFFICES ASSUME Strong, Cleanly, [Next]_vars PROVE Cleanly'
  OBVIOUS
<1>0. Typed'
  BY NextTyped DEF Strong
<1>1. CASE UNCHANGED vars
  BY <1>1, IdleClean DEF vars, Working
<1>2. ASSUME NEW a \in Actors, FormStep(a) \/ JobStep(a) \/ Kill(a) PROVE Cleanly'
  BY <1>0, <1>2, ActorClean
<1>3. ASSUME NEW a \in Actors, NEW k \in Kinds, NEW s \in BareSteps, Opens(a, k, s) PROVE Cleanly'
  BY <1>0, <1>3, OpensClean
<1>4. ASSUME NEW a \in Actors, Report(a) PROVE Cleanly'
  <2>1. \A b \in Actors : /\ Working(b)' => Working(b) /\ op'[b] = op[b]
                          /\ Working(b) => Working(b)'
    BY <1>4, ReportKeeps DEF Strong
  <2> QED BY <1>4, <2>1, IdleClean DEF Report, files
<1>5. CASE Save
  <2>1. /\ engine' = engine /\ UNCHANGED <<bin, conf, applied, served, backups>>
        /\ clean' => clean /\ \A b \in Actors : ~Working(b)
    BY <1>5 DEF Save, files
  <2>2. \A b \in Actors : op'[b].at = op[b].at
    BY <1>0, <1>5, BesideKeeps DEF Strong
  <2>3. CASE clean'
    <3>1. \A b \in Actors : ~Working(b) /\ ~Working(b)'
      BY <2>1, <2>2, <2>3 DEF Working
    <3> QED BY <2>1, <3>1, IdleClean
  <2>4. CASE ~clean'
    BY <2>4 DEF Cleanly
  <2> QED BY <2>3, <2>4
<1>6. CASE ApplyXray
  <2>1. engine' # "mihomo"
    BY <1>6 DEF ApplyXray
  <2> QED BY <2>1 DEF Cleanly
<1> QED BY <1>1, <1>2, <1>3, <1>4, <1>5, <1>6, NextCases

\* At rest the page shows what runs.
LEMMA CleanRest == Typed /\ Cleanly => RestIsServed
<1> SUFFICES ASSUME Typed, Cleanly, clean, engine = "mihomo", \A a \in Actors : ~Working(a)
             PROVE  /\ Settled(Core)
                    /\ View = "active" => /\ Live.opt = served.conf.opt
                                          /\ ~Changed => row = [on |-> TRUE, opt |-> served.conf.opt]
                    /\ Exported # None => Exported.opt = served.conf.opt
  BY DEF RestIsServed
<1>1. Settled(Core) /\ Matches(Core)
  BY DEF Cleanly
<1>2. ASSUME Active
      PROVE  Live.opt = served.conf.opt /\ (~Changed => row = [on |-> TRUE, opt |-> served.conf.opt])
  <2>1. conf \in Bodies /\ conf # None
    BY <1>2, MarkersAssumption DEF Active, Configs
  <2>2. served.conf = conf
    BY <1>1, <2>1 DEF Settled, Core
  <2>3. applied # None /\ applied.opt = conf.opt
    BY <1>1, <2>1 DEF Matches, Core
  <2>4. Live.opt = served.conf.opt
    BY <2>2, <2>3 DEF Live
  <2>5. Live = [on |-> Active, opt |-> served.conf.opt]
    BY <2>2, <2>3 DEF Live
  <2>6. Live = [on |-> TRUE, opt |-> served.conf.opt]
    <3>1. Active = TRUE
      BY <1>2 DEF Active
    <3> QED BY <2>5, <3>1
  <2> QED BY <2>4, <2>6 DEF Changed
<1>3. View = "active" => Active
  BY DEF View
<1>4. Exported # None => Active /\ Exported.opt = Live.opt
  BY DEF Exported
<1> QED BY <1>1, <1>2, <1>3, <1>4

\* Once everything is over and nothing overlapped, died, left the service
\* down or passed over a failure of systemctl, Mihomo runs the installed
\* binary on the installed configuration, and the page and the client's
\* profile have the options it runs with.
THEOREM RestServed == Spec => []RestIsServed
<1>1. Spec => [](Strong /\ Cleanly)
  BY InitStrong, NextStrong, InitClean, NextClean, PTL DEF Spec
<1>2. Strong /\ Cleanly => RestIsServed
  BY CleanRest DEF Strong
<1> QED BY <1>1, <1>2, PTL
=============================================================================
