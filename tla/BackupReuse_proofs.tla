-------------------------- MODULE BackupReuse_proofs --------------------------
(***************************************************************************)
(* Proofs about BackupReuse, for every order of models, every number of    *)
(* iterations, requests and bytes, and every command line the runner       *)
(* accepts.                                                                *)
(***************************************************************************)
EXTENDS BackupReuse, SeqFunctions_proofs

-----------------------------------------------------------------------------
(* Facts about the constants.                                              *)

LEMMA OrderFacts ==
  /\ Order \in Seq(Models) /\ Len(Order) \in Nat \ {0} /\ DOMAIN Order = 1..Len(Order)
  /\ \A m \in Models : \E i \in DOMAIN Order : Order[i] = m
  /\ \A i, j \in DOMAIN Order : Order[i] = Order[j] => i = j
<1>1. Order \in Seq(Models) /\ Order # <<>>
  BY ReuseAssumption DEF ReuseAssumption
<1> QED
  BY <1>1, ReuseAssumption DEF ReuseAssumption, Models

LEMMA StepsFacts == NSteps \in Nat \ {0}
<1>1. \A a, b \in Nat \ {0} : a * b \in Nat \ {0}
  OBVIOUS
<1> QED
  BY <1>1, OrderFacts, ReuseAssumption DEF ReuseAssumption, NSteps

LEMMA ModelOfType == \A i \in Nat \ {0} : ModelOf(i) \in Models
<1> SUFFICES ASSUME NEW i \in Nat \ {0} PROVE ModelOf(i) \in Models
  OBVIOUS
<1>1. \A a \in Nat, b \in Nat \ {0} : a % b \in 0..b - 1
  OBVIOUS
<1>2. i - 1 \in Nat
  OBVIOUS
<1>3. (i - 1) % Len(Order) \in 0..Len(Order) - 1
  BY <1>1, <1>2, OrderFacts
<1>4. ((i - 1) % Len(Order)) + 1 \in DOMAIN Order
  BY <1>3, OrderFacts
<1> QED
  BY <1>4 DEF ModelOf, Models

-----------------------------------------------------------------------------
(* The invariants.                                                         *)

\* How far the runner is in its steps.
PlaceInv ==
  /\ pc \in StepPcs => k <= NSteps /\ Len(steps) = k - 1
  /\ pc \in {"clear", "stats", "validate"}
       \/ (pc \in {"evidence", "done"} /\ error \in {"no", "assertion"})
     => k = NSteps + 1 /\ Len(steps) = NSteps
  /\ pc \in TryPcs => error = "no"
  /\ Len(steps) \in {k - 1, k}
  /\ k <= NSteps => step.model = ModelOf(k)
  /\ \A i \in DOMAIN steps : steps[i].model = ModelOf(i) /\ (error = "no" => steps[i].ok)
  /\ pc = "stats" => opts.coordinator

\* What lies in the profile, and how far it is read.
LogInv ==
  /\ torn => log # <<>>
  /\ cursor <= Complete
  /\ \A i \in DOMAIN log : /\ log[i].at \in 1..k /\ log[i].model = ModelOf(log[i].at)
                           /\ log[i].cum <= worker[log[i].model].cum
  /\ \A i, j \in DOMAIN log : i <= j /\ log[i].model = log[j].model => log[i].cum <= log[j].cum
  /\ \A m \in Models : last[m] <= worker[m].cum
  /\ \A i \in DOMAIN log : i > cursor => last[log[i].model] <= log[i].cum

\* The events of profile l that a record names are those of step i, which it
\* stands for.
Own(l, r, i) ==
  /\ r.wakeEv # 0 => /\ r.wakeEv \in DOMAIN l /\ l[r.wakeEv].at = i
                     /\ l[r.wakeEv].model = r.model /\ l[r.wakeEv].phase = "wake"
  /\ r.sleepEv # 0 => /\ r.sleepEv \in DOMAIN l /\ l[r.sleepEv].at = i
                      /\ l[r.sleepEv].model = r.model /\ l[r.sleepEv].phase = "sleep"

EvidenceInv ==
  /\ \A i \in DOMAIN steps : Own(log, steps[i], i)
  /\ pc \in StepPcs => Own(log, step, k) /\ step.sleepEv = 0

\* The deltas in a sequence of records, those of one model and all of them, add
\* up to the counters in l.
OfModel(rows, m)  == [i \in DOMAIN rows |-> IF rows[i].model = m THEN rows[i].delta ELSE 0]
Deltas(rows)      == [i \in DOMAIN rows |-> rows[i].delta]
InOrder(l)        == [i \in DOMAIN Order |-> l[Order[i]]]
Explains(rows, l) == /\ \A m \in Models : Sum(OfModel(rows, m)) = l[m]
                     /\ Sum(Deltas(rows)) = Sum(InOrder(l))

DeltaInv == Explains(Counted, last)

\* What the coordinator knows of a model and what its worker did.
CoordInv ==
  \A m \in Models :
    /\ worker[m].cum = coord[m].released + worker[m].unacked
    /\ worker[m].unacked > 0 => coord[m].pending > 0
    /\ coord[m].pending <= coord[m].requested
    /\ worker[m].cum > 0 => coord[m].requested > 0
    /\ ~opts.coordinator => coord[m].requested = 0

\* Who is no client is asked for nothing.
ClientInv == \A m \in Models \ known : coord[m].requested = 0

\* The runner has reached its verdict or is about to.
Judged == pc \in {"evidence", "done"} /\ error \in {"no", "assertion"}

StatsInv ==
  /\ pc \in StepPcs \cup {"clear", "stats"} => stats = NoBytes
  /\ pc = "validate" \/ Judged => stats = IF opts.coordinator THEN RunStats ELSE NoBytes

VerdictInv ==
  /\ pc \in {"evidence", "done"} /\ error = "no" => ClaimsHold
  /\ error = "assertion" => pc \in {"evidence", "done"} /\ (opts.expect # "release" => ~ClaimsHold)
  /\ summary = "ok" => pc = "done" /\ error = "no"

IInv == /\ TypeOK /\ PlaceInv /\ LogInv /\ EvidenceInv /\ DeltaInv
        /\ CoordInv /\ ClientInv /\ StatsInv /\ VerdictInv

-----------------------------------------------------------------------------
(* Type correctness.                                                       *)

LEMMA TypeInit == Init => TypeOK
<1> SUFFICES ASSUME Init PROVE TypeOK
  OBVIOUS
<1>1. opts \in Options /\ k \in 1..NSteps + 1
  BY StepsFacts DEF Init
<1>2. step \in StepRow /\ steps \in Seq(StepRow)
  BY ModelOfType DEF Init, NewStep, StepRow
<1>3. worker \in [Models -> Worker] /\ coord \in [Clients -> Record] /\ stats \in Record
  <2>1. NoBytes \in Record /\ [cum |-> 0, held |-> FALSE, unacked |-> 0] \in Worker
    BY DEF Worker, Record, NoBytes
  <2> QED
    BY <2>1 DEF Init
<1>4. log \in Seq(Event) /\ torn \in BOOLEAN /\ cursor \in 0..Len(log)
  <2>1. log = <<>> /\ torn = FALSE /\ cursor = 0
    BY DEF Init
  <2>2. log \in Seq(Event) /\ cursor \in 0..Len(log)
    BY <2>1
  <2>3. torn \in BOOLEAN
    BY <2>1, Zenon
  <2> QED
    BY <2>2, <2>3
<1>5. engine \in [Models -> {"none", "awake", "asleep"}] /\ last \in [Models -> Nat]
  BY DEF Init
<1>6. /\ pc \in TryPcs \cup {"evidence", "done"} /\ ref \subseteq Models /\ known \subseteq Models
      /\ error \in {"no", "error", "assertion", "raised"} /\ summary \in {"absent", "ok", "failed"}
  BY ReuseAssumption DEF Init, TryPcs, StepPcs, ReuseAssumption
<1> QED
  BY <1>1, <1>2, <1>3, <1>4, <1>5, <1>6 DEF TypeOK

\* What a step reports of an event is a record of a step again.
LEMMA StepUpdateType ==
  ASSUME NEW r \in StepRow, NEW i \in Nat, NEW d \in Nat
  PROVE  /\ [r EXCEPT !.wakeEv = i, !.delta = @ + d] \in StepRow
         /\ [r EXCEPT !.sleepEv = i, !.delta = @ + d, !.ok = TRUE] \in StepRow
<1>1. r.delta + d \in Nat
  BY DEF StepRow
<1> DEFINE e == r.delta + d
<1> HIDE DEF e
<1>2. /\ [r EXCEPT !.wakeEv = i, !.delta = e] \in StepRow
      /\ [r EXCEPT !.sleepEv = i, !.delta = e, !.ok = TRUE] \in StepRow
  BY <1>1 DEF StepRow, e
<1> QED
  BY <1>2 DEF e

\* What the coordinator writes down is a record of a client again.
LEMMA RecordUpdateType ==
  ASSUME NEW r \in Record
  PROVE  /\ [r EXCEPT !.requested = @ + 1, !.pending = @ + 1] \in Record
         /\ \A bytes \in Nat : Acknowledged(r, bytes) \in Record
<1>1. r.requested + 1 \in Nat /\ r.pending + 1 \in Nat
  BY DEF Record
<1>2. ASSUME NEW bytes \in Nat PROVE Acknowledged(r, bytes) \in Record
  <2> DEFINE a == r.released + bytes
             b == IF r.pending > bytes THEN r.pending - bytes ELSE 0
  <2>1. a \in Nat /\ b \in Nat
    BY DEF Record
  <2> HIDE DEF a, b
  <2>2. [r EXCEPT !.released = a, !.pending = b] \in Record
    BY <2>1 DEF Record
  <2> QED
    BY <2>2 DEF Acknowledged, a, b
<1> DEFINE a == r.requested + 1
           b == r.pending + 1
<1> HIDE DEF a, b
<1>3. [r EXCEPT !.requested = a, !.pending = b] \in Record
  BY <1>1 DEF Record, a, b
<1> QED
  BY <1>2, <1>3 DEF a, b

\* The numbers a total adds up.
LEMMA TotalsType ==
  ASSUME coord \in [Clients -> Record]
  PROVE  /\ [i \in DOMAIN Order |-> coord[Order[i]].requested] \in Seq(Nat)
         /\ [i \in DOMAIN Order |-> coord[Order[i]].released] \in Seq(Nat)
         /\ [i \in DOMAIN Order |-> coord[Order[i]].pending] \in Seq(Nat)
         /\ RunStats \in Record
<1>1. \A i \in DOMAIN Order : coord[Order[i]] \in Record
  BY OrderFacts DEF Clients
<1>2. /\ [i \in DOMAIN Order |-> coord[Order[i]].requested] \in Seq(Nat)
      /\ [i \in DOMAIN Order |-> coord[Order[i]].released] \in Seq(Nat)
      /\ [i \in DOMAIN Order |-> coord[Order[i]].pending] \in Seq(Nat)
  BY <1>1, OrderFacts DEF Record
<1>3. Total("requested") \in Nat /\ Total("released") \in Nat /\ Total("pending") \in Nat
  BY <1>2, SumType DEF Total
<1> QED
  BY <1>2, <1>3 DEF RunStats, Record

\* The event that is read, if there is one: the newest of its window.
LEMMA NewestEvent ==
  ASSUME TypeOK, NEW phase
  PROVE  LET n == Newest(InWindow(phase)) IN
         \/ n = 0 /\ InWindow(phase) = {}
         \/ n \in cursor + 1..Complete /\ n \in DOMAIN log /\ log[n].phase = phase /\ log[n].at = k
<1> DEFINE S == InWindow(phase)
<1>0. cursor \in Nat /\ Len(log) \in Nat /\ Complete \in Int /\ Complete <= Len(log)
  BY DEF TypeOK, Complete
<1>1. CASE S = {}
  BY <1>1 DEF Newest
<1>2. CASE S # {}
  <2>1. S \subseteq 0..Len(log)
    BY <1>0 DEF InWindow
  <2>2. \E n \in S : \A j \in S : j <= n
    BY <1>0, <1>2, <2>1, Greatest
  <2>3. Newest(S) \in S
    BY <1>2, <2>2 DEF Newest
  <2>4. \A n \in S : /\ n \in cursor + 1..Complete /\ n \in DOMAIN log
                     /\ log[n].phase = phase /\ log[n].at = k
    BY <1>0 DEF InWindow, TypeOK
  <2> QED
    BY <2>3, <2>4
<1> QED
  BY <1>1, <1>2

LEMMA DeltaType ==
  ASSUME TypeOK, NEW i \in Nat, i = 0 \/ i \in DOMAIN log
  PROVE  ReleaseDelta(i) \in Nat /\ (TakeDelta(i) => last' \in [Models -> Nat])
<1>1. step.model \in Models
  BY DEF TypeOK, StepRow
<1>2. last \in [Models -> Nat] /\ (i # 0 => log[i].cum \in Nat)
  <2>1. log \in Seq(Event)
    BY DEF TypeOK
  <2>2. i # 0 => log[i] \in Event
    BY <2>1
  <2> QED
    BY <2>2 DEF TypeOK, Event
<1> QED
  BY <1>1, <1>2 DEF ReleaseDelta, TakeDelta

LEMMA EmitType ==
  ASSUME TypeOK, LogInv, NEW phase \in {"wake", "sleep"}, NEW reused \in BOOLEAN,
         Emit(phase, reused)
  PROVE  log' \in Seq(Event) /\ Len(log') = Len(log) + 1 /\ torn' \in BOOLEAN
<1> DEFINE e == [model |-> step.model, phase |-> phase, at |-> k,
                 cum |-> worker[step.model].cum, reused |-> reused]
<1>1. e \in Event
  BY DEF TypeOK, StepRow, Worker, Event
<1>2. log \in Seq(Event) /\ log' = Append(log, e) /\ torn' \in BOOLEAN
  BY DEF TypeOK, Emit
<1> HIDE DEF e
<1> QED
  BY <1>1, <1>2

LEMMA TypeStep == TypeOK /\ PlaceInv /\ LogInv /\ [Next]_vars => TypeOK'
<1> SUFFICES ASSUME TypeOK, PlaceInv, LogInv, [Next]_vars PROVE TypeOK'
  OBVIOUS
<1> USE DEF runVars, extVars, TryPcs, StepPcs
<1>0. /\ step \in StepRow /\ steps \in Seq(StepRow) /\ step.model \in Models /\ k \in 1..NSteps + 1
      /\ engine \in [Models -> {"none", "awake", "asleep"}] /\ worker \in [Models -> Worker]
      /\ coord \in [Clients -> Record] /\ log \in Seq(Event) /\ cursor \in 0..Len(log)
      /\ Len(log) \in Nat /\ Complete \in 0..Len(log) /\ opts \in Options
  BY DEF TypeOK, StepRow, Complete, LogInv
<1>1. CASE Step
  <2>1. CASE Load
    BY <1>0, <2>1 DEF Load, TypeOK
  <2>2. CASE PreWake
    <3>1. (IF opts.coordinator THEN RunStats.released ELSE 0) \in Nat
      BY <1>0, TotalsType DEF Record
    <3>2. step' \in StepRow
      BY <1>0, <2>2, <3>1 DEF PreWake, StepRow
    <3> QED
      BY <1>0, <2>2, <3>2 DEF PreWake, TypeOK
  <2>3. CASE WakeUp
    <3>1. log' \in Seq(Event) /\ Len(log') = Len(log) + 1 /\ torn' \in BOOLEAN
      BY <2>3, EmitType DEF WakeUp
    <3> QED
      BY <1>0, <2>3, <3>1 DEF WakeUp, TypeOK
  <2>4. CASE ReadWake
    <3> DEFINE i == Newest(InWindow("wake"))
    <3>1. i \in Nat /\ (i = 0 \/ i \in DOMAIN log)
      BY <1>0, NewestEvent
    <3>2. ReleaseDelta(i) \in Nat /\ last' \in [Models -> Nat]
      BY <2>4, <3>1, DeltaType DEF ReadWake
    <3> HIDE DEF i
    <3>3. step' = [step EXCEPT !.wakeEv = i, !.delta = @ + ReleaseDelta(i)]
      BY <2>4 DEF ReadWake, i
    <3>4. step' \in StepRow
      BY <1>0, <3>1, <3>2, <3>3, StepUpdateType
    <3> QED
      BY <1>0, <2>4, <3>2, <3>4 DEF ReadWake, TypeOK
  <2>5. CASE PostWake
    <3>1. step' \in StepRow
      <4>1. (opts.coordinator /\ RunStats.released > step.pre) \in BOOLEAN
        OBVIOUS
      <4> QED
        BY <1>0, <2>5, <4>1 DEF PostWake, StepRow
    <3> QED
      BY <1>0, <2>5, <3>1 DEF PostWake, TypeOK
  <2>6. CASE Infer
    <3>1. step' \in StepRow
      BY <1>0, <2>6 DEF Infer, StepRow
    <3> QED
      BY <1>0, <2>6, <3>1 DEF Infer, TypeOK
  <2>7. CASE Sleep
    <3>1. worker[step.model] \in Worker
      BY <1>0
    <3>2. worker[step.model].held \in BOOLEAN
      BY <3>1 DEF Worker
    <3>3. log' \in Seq(Event) /\ Len(log') = Len(log) + 1 /\ torn' \in BOOLEAN
      BY <2>7, <3>2, EmitType DEF Sleep
    <3>4. worker' \in [Models -> Worker]
      BY <1>0, <2>7, <3>1 DEF Sleep, Worker
    <3> QED
      BY <1>0, <2>7, <3>3, <3>4 DEF Sleep, TypeOK
  <2>8. CASE ReadSleep
    <3> DEFINE i == Newest(InWindow("sleep"))
               s == [step EXCEPT !.sleepEv = i, !.delta = @ + ReleaseDelta(i), !.ok = TRUE]
    <3>1. i \in Nat /\ (i = 0 \/ i \in DOMAIN log)
      BY <1>0, NewestEvent
    <3>2. ReleaseDelta(i) \in Nat /\ last' \in [Models -> Nat]
      BY <2>8, <3>1, DeltaType DEF ReadSleep
    <3>3. s \in StepRow
      <4> HIDE DEF i
      <4> QED
        BY <1>0, <3>1, <3>2, StepUpdateType
    <3>4. steps' = Append(steps, s)
      BY <2>8 DEF ReadSleep
    <3> HIDE DEF i, s
    <3>5. steps' \in Seq(StepRow)
      BY <1>0, <3>3, <3>4
    <3>6. k <= NSteps
      BY <2>8 DEF ReadSleep, PlaceInv
    <3>7. k' \in 1..NSteps + 1
      BY <1>0, <2>8, <3>6, StepsFacts DEF ReadSleep
    <3>8. NewStep(k + 1) \in StepRow
      BY <1>0, ModelOfType DEF NewStep, StepRow
    <3>9. step' \in StepRow
      BY <1>0, <2>8, <3>8 DEF ReadSleep
    <3> QED
      BY <1>0, <2>8, <3>2, <3>5, <3>7, <3>9 DEF ReadSleep, TypeOK
  <2>9. CASE StepRaises
    <3>1. steps' \in Seq(StepRow)
      BY <1>0, <2>9 DEF StepRaises
    <3> QED
      BY <1>0, <2>9, <3>1 DEF StepRaises, EnginesGone, TypeOK
  <2> QED
    BY <1>1, <2>1, <2>2, <2>3, <2>4, <2>5, <2>6, <2>7, <2>8, <2>9 DEF Step
<1>2. CASE Finish \/ FetchRaises
  <2>1. RunStats \in Record
    BY <1>0, TotalsType
  <2>2. CASE ClearEngines
    BY <2>2 DEF ClearEngines, EnginesGone, TypeOK
  <2>3. CASE FetchStats
    BY <2>1, <2>3 DEF FetchStats, TypeOK
  <2>4. CASE Validate
    BY <2>4 DEF Validate, TypeOK
  <2>5. CASE WriteEvidence
    BY <2>5 DEF WriteEvidence, TypeOK
  <2>6. CASE FetchRaises
    BY <2>6 DEF FetchRaises, TypeOK
  <2> QED
    BY <1>2, <2>2, <2>3, <2>4, <2>5, <2>6 DEF Finish
<1>3. CASE Interrupt
  BY <1>3 DEF Interrupt, EnginesGone, TypeOK
<1>4. CASE External
  <2>1. ASSUME NEW c \in Clients, Request(c) PROVE TypeOK'
    <3>1. coord' \in [Clients -> Record]
      <4>1. [coord[c] EXCEPT !.requested = @ + 1, !.pending = @ + 1] \in Record
        BY <1>0, RecordUpdateType
      <4>2. coord' = [coord EXCEPT ![c] = [coord[c] EXCEPT !.requested = @ + 1, !.pending = @ + 1]]
        BY <1>0, <2>1 DEF Request
      <4> QED
        BY <1>0, <4>1, <4>2
    <3> QED
      BY <2>1, <3>1 DEF Request, TypeOK
  <2>2. ASSUME NEW m \in Models, Release(m) PROVE TypeOK'
    <3>1. worker' \in [Models -> Worker]
      BY SMTT(30), <1>0, <2>2, ReuseAssumption DEF Release, Worker, ReuseAssumption
    <3> QED
      BY <2>2, <3>1 DEF Release, TypeOK
  <2>3. ASSUME NEW m \in Models, Acknowledge(m) PROVE TypeOK'
    <3>1. worker' \in [Models -> Worker]
      BY <1>0, <2>3 DEF Acknowledge, Worker
    <3>2. worker[m].unacked \in Nat /\ m \in Clients
      BY <1>0 DEF Worker, Clients
    <3>3. Acknowledged(coord[m], worker[m].unacked) \in Record
      BY <1>0, <3>2, RecordUpdateType
    <3>4. coord' \in [Clients -> Record]
      BY <1>0, <2>3, <3>2, <3>3 DEF Acknowledge
    <3> QED
      BY <2>3, <3>1, <3>4 DEF Acknowledge, TypeOK
  <2>4. CASE ForeignReleases
    <3>1. Foreign \in Clients /\ Block \in Nat
      BY ReuseAssumption DEF Clients, ReuseAssumption
    <3>2. Acknowledged(coord[Foreign], Block) \in Record
      BY <1>0, <3>1, RecordUpdateType
    <3>3. coord' \in [Clients -> Record]
      BY <1>0, <2>4, <3>1, <3>2 DEF ForeignReleases
    <3> QED
      BY <2>4, <3>3 DEF ForeignReleases, TypeOK
  <2>5. CASE CompleteLine
    BY <2>5 DEF CompleteLine, TypeOK
  <2> QED
    BY <1>4, <2>1, <2>2, <2>3, <2>4, <2>5 DEF External
<1>5. CASE UNCHANGED vars
  BY <1>5 DEF vars, TypeOK
<1> QED
  BY <1>1, <1>2, <1>3, <1>4, <1>5 DEF Next, Terminating

-----------------------------------------------------------------------------
(* How far the runner is.                                                  *)

LEMMA PlaceStep == TypeOK /\ PlaceInv /\ [Next]_vars => PlaceInv'
<1> SUFFICES ASSUME TypeOK, PlaceInv, [Next]_vars PROVE PlaceInv'
  OBVIOUS
<1> USE DEF runVars, extVars, TryPcs, StepPcs
<1>0. steps \in Seq(StepRow) /\ Len(steps) \in Nat /\ k \in Nat \ {0} /\ NSteps \in Nat
  BY StepsFacts DEF TypeOK
<1>1. CASE Step
  <2>1. CASE Load
    BY <2>1 DEF Load, PlaceInv
  <2>2. ASSUME step'.model = step.model,
               pc \in StepPcs, pc' \in StepPcs, UNCHANGED <<opts, k, steps, error>>
        PROVE  PlaceInv'
    BY <2>2 DEF PlaceInv
  <2>3. CASE PreWake \/ ReadWake \/ PostWake \/ Infer
    <3>1. step'.model = step.model
      BY <2>3 DEF PreWake, ReadWake, PostWake, Infer, TypeOK, StepRow
    <3> QED
      BY <2>2, <2>3, <3>1 DEF PreWake, ReadWake, PostWake, Infer
  <2>4. CASE WakeUp \/ Sleep
    BY <2>2, <2>4 DEF WakeUp, Sleep
  <2>5. CASE ReadSleep
    <3> DEFINE s == [step EXCEPT !.sleepEv = Newest(InWindow("sleep")),
                                 !.delta = @ + ReleaseDelta(Newest(InWindow("sleep"))), !.ok = TRUE]
    <3>1. s.model = step.model /\ s.ok
      BY DEF TypeOK, StepRow
    <3>2. steps' = Append(steps, s)
      BY <2>5 DEF ReadSleep
    <3> HIDE DEF s
    <3>3. k <= NSteps /\ Len(steps) = k - 1 /\ step.model = ModelOf(k) /\ error = "no"
      BY <2>5 DEF ReadSleep, PlaceInv
    <3>4. /\ Len(steps') = k /\ steps'[k] = s
          /\ \A i \in DOMAIN steps' : i # k => i \in DOMAIN steps /\ steps'[i] = steps[i]
      BY <1>0, <3>2, <3>3
    <3>5. \A i \in DOMAIN steps' : steps'[i].model = ModelOf(i) /\ steps'[i].ok
      BY <3>1, <3>3, <3>4 DEF PlaceInv
    <3>6. NewStep(k + 1).model = ModelOf(k + 1)
      BY DEF NewStep
    <3>7. CASE k < NSteps
      BY <1>0, <2>5, <3>3, <3>4, <3>5, <3>6, <3>7 DEF ReadSleep, PlaceInv
    <3>8. CASE ~(k < NSteps)
      BY <1>0, <2>5, <3>3, <3>4, <3>5, <3>8 DEF ReadSleep, PlaceInv
    <3> QED
      BY <3>7, <3>8
  <2>6. CASE StepRaises
    <3>1. k <= NSteps /\ Len(steps) = k - 1 /\ step.model = ModelOf(k)
      BY <2>6 DEF StepRaises, PlaceInv
    <3>2. /\ Len(steps') = k /\ steps'[k] = step
          /\ \A i \in DOMAIN steps' : i # k => i \in DOMAIN steps /\ steps'[i] = steps[i]
      BY <1>0, <2>6, <3>1 DEF StepRaises
    <3>3. \A i \in DOMAIN steps' : steps'[i].model = ModelOf(i)
      BY <3>1, <3>2 DEF PlaceInv
    <3> QED
      BY <1>0, <2>6, <3>1, <3>2, <3>3 DEF StepRaises, PlaceInv
  <2> QED
    BY <1>1, <2>1, <2>3, <2>4, <2>5, <2>6 DEF Step
<1>2. CASE Finish \/ FetchRaises
  BY <1>2 DEF Finish, ClearEngines, FetchStats, Validate, WriteEvidence, FetchRaises, PlaceInv
<1>3. CASE Interrupt
  BY <1>3 DEF Interrupt, PlaceInv
<1>4. CASE External
  BY <1>4 DEF External, Request, Release, Acknowledge, ForeignReleases, CompleteLine, PlaceInv
<1>5. CASE UNCHANGED vars
  BY <1>5 DEF vars, PlaceInv
<1> QED
  BY <1>1, <1>2, <1>3, <1>4, <1>5 DEF Next, Terminating

-----------------------------------------------------------------------------
(* The profile: what lies in it, and how far it is read.                   *)

LEMMA EventType ==
  ASSUME TypeOK
  PROVE  \A i \in DOMAIN log : /\ i \in 1..Len(log) /\ log[i].model \in Models
                               /\ log[i].cum \in Nat /\ log[i].at \in Nat
<1>1. log \in Seq(Event)
  BY DEF TypeOK
<1>2. \A i \in DOMAIN log : i \in 1..Len(log) /\ log[i] \in Event
  BY <1>1
<1> QED
  BY <1>2 DEF Event

\* The counter of an event that is read is not below the last one seen.
LEMMA DeltaIsExact ==
  ASSUME TypeOK, PlaceInv, LogInv, pc \in StepPcs, NEW phase
  PROVE  LET i == Newest(InWindow(phase)) IN
         /\ ReleaseDelta(i) \in Nat
         /\ i # 0 => log[i].model = step.model /\ log[i].cum = last[step.model] + ReleaseDelta(i)
         /\ i = 0 => ReleaseDelta(i) = 0
         /\ TakeDelta(i) => last' = [last EXCEPT ![step.model] = @ + ReleaseDelta(i)]
<1> DEFINE i == Newest(InWindow(phase))
<1>0. /\ step.model \in Models /\ last \in [Models -> Nat] /\ log \in Seq(Event)
      /\ cursor \in Nat /\ last[step.model] \in Nat
  BY DEF TypeOK, StepRow
<1>1. step.model = ModelOf(k)
  BY DEF PlaceInv
<1>2. CASE i = 0
  <2>1. ReleaseDelta(0) = 0
    BY DEF ReleaseDelta
  <2>2. TakeDelta(0) => last' = last
    BY DEF TakeDelta
  <2> QED
    BY <1>0, <1>2, <2>1, <2>2
<1>3. CASE i # 0
  <2>1. i \in cursor + 1..Complete /\ i \in DOMAIN log /\ log[i].at = k
    BY <1>3, NewestEvent
  <2> HIDE DEF i
  <2>2. i \in Nat /\ i > cursor /\ log[i].cum \in Nat
    BY <1>0, <2>1, EventType
  <2>3. log[i].model = step.model /\ last[log[i].model] <= log[i].cum
    BY <1>1, <2>1, <2>2 DEF LogInv
  <2>4. ReleaseDelta(i) = log[i].cum - last[step.model]
    BY <1>0, <1>3, <2>2, <2>3 DEF ReleaseDelta
  <2>5. TakeDelta(i) => last' = [last EXCEPT ![step.model] = log[i].cum]
    BY <1>3 DEF TakeDelta
  <2>6. ReleaseDelta(i) \in Nat /\ log[i].cum = last[step.model] + ReleaseDelta(i)
    BY <1>0, <2>2, <2>3, <2>4
  <2> QED
    BY <1>0, <1>3, <2>3, <2>5, <2>6 DEF i
<1> QED
  BY <1>2, <1>3

\* Nothing of the profile and of what is read of it changes.
LEMMA LogKept ==
  ASSUME TypeOK, LogInv, UNCHANGED <<log, cursor, last>>, k' \in {k, k + 1},
         torn' \in {torn, FALSE},
         worker' \in [Models -> Worker], \A m \in Models : worker[m].cum <= worker'[m].cum
  PROVE  LogInv'
<1>0. /\ log \in Seq(Event) /\ k \in Nat
      /\ worker \in [Models -> Worker] /\ last \in [Models -> Nat]
      /\ cursor \in Nat /\ torn \in BOOLEAN /\ Len(log) \in Nat
  BY DEF TypeOK
<1>1. \A i \in DOMAIN log : log[i].model \in Models /\ log[i].cum \in Nat /\ log[i].at \in Nat
  BY EventType
<1>2. \A m \in Models : last[m] \in Nat /\ worker[m].cum \in Nat /\ worker'[m].cum \in Nat
  BY <1>0 DEF Worker
<1>3. \A i \in DOMAIN log : log[i].at \in 1..k'
  BY <1>0, <1>1 DEF LogInv
<1>4. \A i \in DOMAIN log : log[i].cum <= worker'[log[i].model].cum
  BY <1>1, <1>2 DEF LogInv
<1>5. \A m \in Models : last[m] <= worker'[m].cum
  BY <1>2 DEF LogInv
<1>6. cursor <= Complete' /\ (torn' => log # <<>>)
  <2>1. CASE torn' = torn
    BY <2>1 DEF LogInv, Complete
  <2>2. CASE torn' = FALSE
    BY <1>0, <2>2 DEF Complete, TypeOK
  <2> QED
    BY <2>1, <2>2
<1> QED
  BY <1>3, <1>4, <1>5, <1>6 DEF LogInv

\* A worker writes an event.
LEMMA LogEmitted ==
  ASSUME TypeOK, PlaceInv, LogInv, pc \in StepPcs, NEW phase, NEW reused, Emit(phase, reused),
         UNCHANGED <<k, cursor, last>>,
         \A m \in Models : worker'[m].cum = worker[m].cum
  PROVE  LogInv'
<1> DEFINE e == [model |-> step.model, phase |-> phase, at |-> k,
                 cum |-> worker[step.model].cum, reused |-> reused]
           n == Len(log) + 1
<1>0. /\ log \in Seq(Event) /\ k \in Nat \ {0} /\ step.model \in Models /\ Len(log) \in Nat
      /\ cursor \in Nat /\ last \in [Models -> Nat] /\ n \in Nat
  BY DEF TypeOK, StepRow
<1>1. \A m \in Models : worker[m].cum \in Nat
  BY DEF TypeOK, Worker
<1>2. step.model = ModelOf(k)
  BY DEF PlaceInv
<1>3. ~torn /\ log' = Append(log, e) /\ torn' \in BOOLEAN
  BY DEF Emit
<1>4. e.at = k /\ e.model = step.model /\ e.cum = worker[step.model].cum
  OBVIOUS
<1> HIDE DEF e
<1>5. /\ Len(log') = n /\ DOMAIN log' = 1..n /\ log'[n] = e
      /\ \A i \in DOMAIN log' : i # n => i \in DOMAIN log /\ log'[i] = log[i] /\ i < n
  BY <1>0, <1>3
<1>6. cursor <= Complete' /\ (torn' => log' # <<>>)
  <2>1. cursor <= Len(log)
    BY <1>3 DEF LogInv, Complete
  <2>2. log' # <<>>
    BY <1>0, <1>5
  <2> QED
    BY <1>0, <1>5, <2>1, <2>2 DEF Complete
<1>7. \A i \in DOMAIN log' : /\ log'[i].at \in 1..k /\ log'[i].model = ModelOf(log'[i].at)
                             /\ log'[i].model \in Models /\ log'[i].cum \in Nat
                             /\ log'[i].cum <= worker[log'[i].model].cum
  <2>1. \A i \in DOMAIN log' : i # n => 
          /\ log'[i].at \in 1..k /\ log'[i].model = ModelOf(log'[i].at)
          /\ log'[i].model \in Models /\ log'[i].cum \in Nat
          /\ log'[i].cum <= worker[log'[i].model].cum
    BY <1>5, EventType DEF LogInv
  <2>2. /\ log'[n].at \in 1..k /\ log'[n].model = ModelOf(log'[n].at)
        /\ log'[n].model \in Models /\ log'[n].cum \in Nat
        /\ log'[n].cum <= worker[log'[n].model].cum
    BY <1>0, <1>1, <1>2, <1>4, <1>5
  <2> QED
    BY <2>1, <2>2
<1>8. ASSUME NEW i \in DOMAIN log', NEW j \in DOMAIN log', i <= j, log'[i].model = log'[j].model
      PROVE  log'[i].cum <= log'[j].cum
  <2>1. CASE j # n
    <3>1. j \in DOMAIN log /\ i # n
      BY <1>0, <1>5, <1>8, <2>1
    <3>2. i \in DOMAIN log /\ log'[i] = log[i] /\ log'[j] = log[j]
      BY <1>5, <3>1
    <3> QED
      BY <1>8, <3>1, <3>2 DEF LogInv
  <2>2. CASE j = n
    BY <1>4, <1>5, <1>7, <1>8, <2>2
  <2> QED
    BY <2>1, <2>2
<1>9. ASSUME NEW i \in DOMAIN log', i > cursor PROVE last[log'[i].model] <= log'[i].cum
  <2>1. CASE i # n
    BY <1>5, <1>9, <2>1 DEF LogInv
  <2>2. CASE i = n
    BY <1>0, <1>4, <1>5, <2>2 DEF LogInv
  <2> QED
    BY <2>1, <2>2
<1>10. \A m \in Models : last[m] <= worker'[m].cum
  BY DEF LogInv
<1>11. \A i \in DOMAIN log' : log'[i].cum <= worker'[log'[i].model].cum
  BY <1>7
<1> QED
  BY <1>6, <1>7, <1>8, <1>9, <1>10, <1>11 DEF LogInv

\* The runner reads up to the last complete line.
LEMMA LogRead ==
  ASSUME TypeOK, PlaceInv, LogInv, pc \in StepPcs, NEW phase,
         TakeDelta(Newest(InWindow(phase))), cursor' = Complete, k' \in {k, k + 1},
         UNCHANGED <<log, torn, worker>>
  PROVE  LogInv'
<1> DEFINE n == Newest(InWindow(phase))
<1>0. /\ k \in Nat /\ step.model \in Models /\ cursor \in Nat /\ last \in [Models -> Nat]
      /\ Len(log) \in Nat
  BY DEF TypeOK, StepRow
<1>1. Complete \in Nat /\ cursor <= Complete /\ Complete' = Complete
  BY <1>0 DEF LogInv, Complete
<1>2. \/ n = 0 /\ last' = last
      \/ /\ n \in DOMAIN log /\ n <= Complete /\ log[n].model = step.model
         /\ last' = [last EXCEPT ![step.model] = log[n].cum]
  <2>1. CASE n = 0
    BY <2>1 DEF TakeDelta
  <2>2. CASE n # 0
    <3>1. n \in DOMAIN log /\ n \in cursor + 1..Complete
      BY <2>2, NewestEvent
    <3>2. log[n].model = step.model
      BY <2>2, DeltaIsExact
    <3>3. last' = [last EXCEPT ![step.model] = log[n].cum]
      BY <2>2 DEF TakeDelta
    <3> QED
      BY <1>0, <1>1, <3>1, <3>2, <3>3
  <2> QED
    BY <2>1, <2>2
<1> HIDE DEF n
<1>3. \A m \in Models : worker[m].cum \in Nat
  BY DEF TypeOK, Worker
<1>4. \A m \in Models : last'[m] <= worker[m].cum
  BY <1>0, <1>2 DEF LogInv
<1>5. ASSUME NEW i \in DOMAIN log, i > Complete PROVE last'[log[i].model] <= log[i].cum
  <2>1. i \in Nat /\ i > cursor /\ log[i].model \in Models
    BY <1>0, <1>1, <1>5, EventType
  <2>2. last[log[i].model] <= log[i].cum
    BY <2>1 DEF LogInv
  <2>3. CASE last' = last
    BY <2>2, <2>3
  <2>4. CASE /\ n \in DOMAIN log /\ n <= Complete /\ log[n].model = step.model
             /\ last' = [last EXCEPT ![step.model] = log[n].cum]
    <3>1. n <= i
      BY <1>1, <1>5, <2>1, <2>4, EventType
    <3>2. log[i].model = step.model => log[n].cum <= log[i].cum
      BY <2>4, <3>1 DEF LogInv
    <3> QED
      BY <1>0, <2>1, <2>2, <2>4, <3>2
  <2> QED
    BY <1>2, <2>3, <2>4
<1>6. \A i \in DOMAIN log : log[i].at \in 1..k'
  BY <1>0, EventType DEF LogInv
<1> QED
  BY <1>1, <1>4, <1>5, <1>6 DEF LogInv

LEMMA LogStep == TypeOK /\ PlaceInv /\ LogInv /\ TypeOK' /\ [Next]_vars => LogInv'
<1> SUFFICES ASSUME TypeOK, PlaceInv, LogInv, TypeOK', [Next]_vars PROVE LogInv'
  OBVIOUS
<1> USE DEF runVars, extVars
<1>0. /\ worker \in [Models -> Worker] /\ worker' \in [Models -> Worker]
      /\ \A m \in Models : worker[m].cum \in Nat
  BY DEF TypeOK, Worker
<1>1. ASSUME UNCHANGED <<log, torn, cursor, last, k, worker>> PROVE LogInv'
  BY <1>0, <1>1, LogKept
<1>2. CASE Step
  <2>1. CASE Load \/ PreWake \/ PostWake \/ Infer \/ StepRaises
    BY <1>1, <2>1 DEF Load, PreWake, PostWake, Infer, StepRaises
  <2>2. CASE WakeUp
    BY <2>2, LogEmitted DEF WakeUp, StepPcs
  <2>3. CASE Sleep
    <3>1. \A m \in Models : worker'[m].cum = worker[m].cum
      BY <1>0, <2>3 DEF Sleep, Worker
    <3> QED
      BY <2>3, <3>1, LogEmitted DEF Sleep, StepPcs
  <2>4. CASE ReadWake
    BY <2>4, LogRead DEF ReadWake, StepPcs
  <2>5. CASE ReadSleep
    BY <2>5, LogRead DEF ReadSleep, StepPcs
  <2> QED
    BY <1>2, <2>1, <2>2, <2>3, <2>4, <2>5 DEF Step
<1>3. CASE Finish \/ FetchRaises \/ Interrupt
  BY <1>1, <1>3 DEF Finish, ClearEngines, FetchStats, Validate, WriteEvidence, FetchRaises,
         Interrupt
<1>4. CASE External
  <2>1. ASSUME NEW c \in Clients, Request(c) PROVE LogInv'
    BY <1>1, <2>1 DEF Request
  <2>2. ASSUME NEW m \in Models, Release(m) PROVE LogInv'
    <3>1. \A n \in Models : worker[n].cum <= worker'[n].cum
      BY <1>0, <2>2, ReuseAssumption DEF Release, Worker, ReuseAssumption
    <3> QED
      BY <1>0, <2>2, <3>1, LogKept DEF Release
  <2>3. ASSUME NEW m \in Models, Acknowledge(m) PROVE LogInv'
    <3>1. \A n \in Models : worker[n].cum <= worker'[n].cum
      BY <1>0, <2>3 DEF Acknowledge, Worker
    <3> QED
      BY <1>0, <2>3, <3>1, LogKept DEF Acknowledge
  <2>4. CASE ForeignReleases
    BY <1>1, <2>4 DEF ForeignReleases
  <2>5. CASE CompleteLine
    <3>1. \A n \in Models : worker[n].cum <= worker'[n].cum
      BY <1>0, <2>5 DEF CompleteLine
    <3>2. UNCHANGED <<log, cursor, last, k, worker>> /\ torn' = FALSE
      BY <2>5 DEF CompleteLine
    <3> QED
      BY <1>0, <3>1, <3>2, LogKept
  <2> QED
    BY <1>4, <2>1, <2>2, <2>3, <2>4, <2>5 DEF External
<1>5. CASE UNCHANGED vars
  BY <1>1, <1>5 DEF vars
<1> QED
  BY <1>2, <1>3, <1>4, <1>5 DEF Next, Terminating

-----------------------------------------------------------------------------
(* A step reports events of its own.                                       *)

\* An event stays where it is in the profile.
LEMMA LogGrows ==
  ASSUME TypeOK, [Next]_vars
  PROVE  \A i \in DOMAIN log : i \in DOMAIN log' /\ log'[i] = log[i]
<1> USE DEF runVars, extVars
<1>1. CASE UNCHANGED log
  BY <1>1
<1>2. ASSUME NEW e, log' = Append(log, e)
      PROVE  \A i \in DOMAIN log : i \in DOMAIN log' /\ log'[i] = log[i]
  <2>1. log \in Seq(Event)
    BY DEF TypeOK
  <2> QED
    BY <1>2, <2>1
<1>3. CASE WakeUp \/ Sleep
  BY <1>2, <1>3 DEF WakeUp, Sleep, Emit
<1>4. CASE External
  BY <1>1, <1>4 DEF External, Request, Release, Acknowledge, ForeignReleases, CompleteLine
<1>5. CASE Load \/ PreWake \/ ReadWake \/ PostWake \/ Infer \/ ReadSleep \/ StepRaises
  BY <1>1, <1>5 DEF Load, PreWake, ReadWake, PostWake, Infer, ReadSleep, StepRaises
<1>6. CASE Finish \/ FetchRaises \/ Interrupt \/ UNCHANGED vars
  BY <1>1, <1>6 DEF Finish, ClearEngines, FetchStats, Validate, WriteEvidence, FetchRaises,
                    Interrupt, vars
<1> QED
  BY <1>3, <1>4, <1>5, <1>6 DEF Next, Step, Terminating

LEMMA EvidenceStep ==
  TypeOK /\ PlaceInv /\ LogInv /\ EvidenceInv /\ PlaceInv' /\ [Next]_vars => EvidenceInv'
<1> SUFFICES ASSUME TypeOK, PlaceInv, LogInv, EvidenceInv, PlaceInv', [Next]_vars
             PROVE  EvidenceInv'
  OBVIOUS
<1> USE DEF runVars, extVars, TryPcs, StepPcs
<1>0. steps \in Seq(StepRow) /\ step \in StepRow /\ Len(steps) \in Nat /\ k \in Nat
  BY DEF TypeOK
<1>1. \A r, i : Own(log, r, i) => Own(log', r, i)
  BY LogGrows DEF Own
<1>2. ASSUME UNCHANGED steps PROVE \A i \in DOMAIN steps' : Own(log', steps'[i], i)
  BY <1>1, <1>2 DEF EvidenceInv
<1>3. ASSUME NEW r, steps' = Append(steps, r), Len(steps) = k - 1, Own(log', r, k)
      PROVE  \A i \in DOMAIN steps' : Own(log', steps'[i], i)
  <2>1. \A i \in DOMAIN steps' : \/ i = k /\ steps'[i] = r
                                 \/ i \in DOMAIN steps /\ steps'[i] = steps[i]
    BY <1>0, <1>3
  <2>2. \A i \in DOMAIN steps : Own(log', steps[i], i)
    BY <1>1 DEF EvidenceInv
  <2> QED
    BY <1>3, <2>1, <2>2
<1>4. ASSUME NEW r, NEW q, NEW i, Own(log, r, i),
             r.wakeEv = q.wakeEv, r.sleepEv = q.sleepEv, r.model = q.model
      PROVE  Own(log', q, i)
  <2>1. Own(log, q, i)
    BY <1>4 DEF Own
  <2> QED
    BY <1>1, <2>1
<1>5. ASSUME NEW phase, pc \in StepPcs, NEW n, n = Newest(InWindow(phase)), n # 0
      PROVE  /\ n \in DOMAIN log /\ log[n].at = k /\ log[n].model = step.model
             /\ log[n].phase = phase
  BY <1>5, NewestEvent, DeltaIsExact
<1>6. CASE Step
  <2>0. pc \in StepPcs => Own(log, step, k) /\ step.sleepEv = 0 /\ k <= NSteps /\ Len(steps) = k - 1
    BY DEF EvidenceInv, PlaceInv
  <2>1. CASE Load
    <3>1. CASE pc = "activate"
      BY <1>1, <1>2, <2>0, <2>1, <3>1 DEF Load, EvidenceInv
    <3> QED
      BY <2>1, <3>1 DEF Load
  <2>2. CASE PreWake \/ PostWake \/ Infer
    <3>1. /\ step'.wakeEv = step.wakeEv /\ step'.sleepEv = step.sleepEv
          /\ step'.model = step.model /\ pc \in StepPcs /\ UNCHANGED <<steps, k>>
      BY <1>0, <2>2 DEF PreWake, PostWake, Infer, StepRow
    <3>2. Own(log', step', k)
      BY <1>4, <2>0, <3>1
    <3> QED
      BY <1>2, <2>0, <3>1, <3>2 DEF EvidenceInv
  <2>3. CASE WakeUp \/ Sleep
    BY <1>1, <1>2, <2>0, <2>3 DEF WakeUp, Sleep, EvidenceInv
  <2>4. CASE ReadWake
    <3> DEFINE n == Newest(InWindow("wake"))
    <3>1. pc \in StepPcs /\ UNCHANGED <<log, steps, k>>
      BY <2>4 DEF ReadWake
    <3>2. step' = [step EXCEPT !.wakeEv = n, !.delta = @ + ReleaseDelta(n)]
      BY <2>4 DEF ReadWake
    <3>3. n # 0 => /\ n \in DOMAIN log /\ log[n].at = k /\ log[n].model = step.model
                   /\ log[n].phase = "wake"
      BY <1>5, <3>1
    <3> HIDE DEF n
    <3>4. step'.wakeEv = n /\ step'.sleepEv = step.sleepEv /\ step'.model = step.model
      BY <1>0, <3>2 DEF StepRow
    <3>5. Own(log', step', k)
      BY <2>0, <3>1, <3>3, <3>4 DEF Own
    <3> QED
      BY <1>2, <2>0, <3>1, <3>4, <3>5 DEF EvidenceInv
  <2>5. CASE ReadSleep
    <3> DEFINE n == Newest(InWindow("sleep"))
               s == [step EXCEPT !.sleepEv = n, !.delta = @ + ReleaseDelta(n), !.ok = TRUE]
    <3>1. pc \in StepPcs /\ UNCHANGED log
      BY <2>5 DEF ReadSleep
    <3>2. steps' = Append(steps, s)
      BY <2>5 DEF ReadSleep
    <3>3. n # 0 => /\ n \in DOMAIN log /\ log[n].at = k /\ log[n].model = step.model
                   /\ log[n].phase = "sleep"
      BY <1>5, <3>1
    <3> HIDE DEF n
    <3>4. s.wakeEv = step.wakeEv /\ s.sleepEv = n /\ s.model = step.model
      BY <1>0 DEF StepRow
    <3> HIDE DEF s
    <3>5. Own(log', s, k)
      BY <2>0, <3>1, <3>3, <3>4 DEF Own
    <3>6. \A i \in DOMAIN steps' : Own(log', steps'[i], i)
      BY <1>3, <2>0, <3>1, <3>2, <3>5
    <3>7. Own(log', NewStep(k + 1), k + 1) /\ NewStep(k + 1).sleepEv = 0
      BY DEF Own, NewStep
    <3> QED
      BY <2>5, <3>6, <3>7 DEF ReadSleep, EvidenceInv
  <2>6. CASE StepRaises
    <3>1. pc \in StepPcs /\ steps' = Append(steps, step) /\ pc' \notin StepPcs
      BY <2>6 DEF StepRaises
    <3> QED
      BY <1>1, <1>3, <2>0, <3>1 DEF EvidenceInv
  <2> QED
    BY <1>6, <2>1, <2>2, <2>3, <2>4, <2>5, <2>6 DEF Step
<1>7. CASE Finish \/ FetchRaises \/ Interrupt
  <2>1. UNCHANGED steps /\ pc' \notin StepPcs
    BY <1>7 DEF Finish, ClearEngines, FetchStats, Validate, WriteEvidence, FetchRaises, Interrupt
  <2> QED
    BY <1>2, <2>1 DEF EvidenceInv
<1>8. CASE External \/ UNCHANGED vars
  <2>1. UNCHANGED <<steps, step, k, pc>>
    BY <1>8 DEF External, Request, Release, Acknowledge, ForeignReleases, CompleteLine, vars
  <2> QED
    BY <1>1, <1>2, <2>1 DEF EvidenceInv
<1> QED
  BY <1>6, <1>7, <1>8 DEF Next, Terminating

-----------------------------------------------------------------------------
(* The deltas add up.                                                      *)

LEMMA DeltasType ==
  ASSUME NEW rows \in Seq(StepRow)
  PROVE  /\ \A i \in DOMAIN rows : rows[i].model \in Models /\ rows[i].delta \in Nat
         /\ Deltas(rows) \in Seq(Nat) /\ Len(Deltas(rows)) = Len(rows)
         /\ \A i \in 1..Len(rows) : Deltas(rows)[i] = rows[i].delta
         /\ \A m \in Models :
              /\ OfModel(rows, m) \in Seq(Nat) /\ Len(OfModel(rows, m)) = Len(rows)
              /\ \A i \in 1..Len(rows) :
                   OfModel(rows, m)[i] = IF rows[i].model = m THEN rows[i].delta ELSE 0
<1>0. Len(rows) \in Nat /\ DOMAIN rows = 1..Len(rows)
  OBVIOUS
<1>1. \A i \in DOMAIN rows : rows[i] \in StepRow
  OBVIOUS
<1>2. \A i \in DOMAIN rows : rows[i].model \in Models /\ rows[i].delta \in Nat
  BY <1>1 DEF StepRow
<1>3. /\ Deltas(rows) \in Seq(Nat) /\ Len(Deltas(rows)) = Len(rows)
      /\ \A i \in 1..Len(rows) : Deltas(rows)[i] = rows[i].delta
  BY <1>0, <1>2 DEF Deltas
<1>4. \A m \in Models :
        /\ OfModel(rows, m) \in Seq(Nat) /\ Len(OfModel(rows, m)) = Len(rows)
        /\ \A i \in 1..Len(rows) :
             OfModel(rows, m)[i] = IF rows[i].model = m THEN rows[i].delta ELSE 0
  BY <1>0, <1>2 DEF OfModel
<1> QED
  BY <1>2, <1>3, <1>4

LEMMA InOrderType ==
  ASSUME NEW l \in [Models -> Nat]
  PROVE  /\ InOrder(l) \in Seq(Nat) /\ Len(InOrder(l)) = Len(Order)
         /\ \A i \in 1..Len(Order) : InOrder(l)[i] = l[Order[i]]
<1>1. \A i \in DOMAIN Order : l[Order[i]] \in Nat
  BY OrderFacts
<1> QED
  BY <1>1, OrderFacts DEF InOrder

\* A counter grows by d, and so does the sum of all of them.
LEMMA InOrderGrows ==
  ASSUME NEW l \in [Models -> Nat], NEW m \in Models, NEW d \in Nat
  PROVE  Sum(InOrder([l EXCEPT ![m] = @ + d])) = Sum(InOrder(l)) + d
<1> DEFINE g == [l EXCEPT ![m] = @ + d]
           x == InOrder(l)
           y == InOrder(g)
<1>1. g \in [Models -> Nat] /\ \A o \in Models : g[o] = IF o = m THEN l[o] + d ELSE l[o]
  OBVIOUS
<1> HIDE DEF g
<1>2. x \in Seq(Nat) /\ Len(x) = Len(Order) /\ \A i \in 1..Len(Order) : x[i] = l[Order[i]]
  BY InOrderType
<1>3. y \in Seq(Nat) /\ Len(y) = Len(Order) /\ \A i \in 1..Len(Order) : y[i] = g[Order[i]]
  BY <1>1, InOrderType
<1> HIDE DEF x, y
<1>4. PICK j \in DOMAIN Order : Order[j] = m
  BY OrderFacts
<1>5. /\ j \in 1..Len(Order)
      /\ \A i \in 1..Len(Order) : i # j => Order[i] # m /\ Order[i] \in Models
  BY <1>4, OrderFacts DEF Models
<1>6. y[j] = x[j] + d
  <2>1. x[j] = l[m] /\ y[j] = g[m]
    BY <1>2, <1>3, <1>4, <1>5
  <2> QED
    BY <1>1, <2>1
<1>7. \A i \in 1..Len(x) : i # j => y[i] = x[i]
  BY <1>1, <1>2, <1>3, <1>5
<1>8. Sum(y) = Sum(x) + d
  BY <1>2, <1>3, <1>5, <1>6, <1>7, SumChange
<1> QED
  BY <1>8 DEF x, y, g

\* A delta of a step counts d more, and so does the counter of its model.
LEMMA DeltaGrows ==
  ASSUME NEW s \in Seq(StepRow), NEW r \in StepRow, NEW q \in StepRow, NEW d \in Nat,
         q.model = r.model, q.delta = r.delta + d,
         NEW l \in [Models -> Nat], Explains(Append(s, r), l)
  PROVE  Explains(Append(s, q), [l EXCEPT ![r.model] = @ + d])
<1> DEFINE a == Append(s, r)
           b == Append(s, q)
           n == Len(s) + 1
           g == [l EXCEPT ![r.model] = @ + d]
<1>0. /\ a \in Seq(StepRow) /\ b \in Seq(StepRow) /\ Len(a) = n /\ Len(b) = n /\ n \in 1..n
      /\ a[n] = r /\ b[n] = q /\ \A i \in 1..n : i # n => b[i] = a[i]
  OBVIOUS
<1>1. r.model \in Models /\ r.delta \in Nat /\ g \in [Models -> Nat]
  BY DEF StepRow
<1> HIDE DEF a, b
<1>2. ASSUME NEW m \in Models PROVE Sum(OfModel(b, m)) = g[m]
  <2>1. /\ OfModel(a, m) \in Seq(Nat) /\ Len(OfModel(a, m)) = n
        /\ OfModel(b, m) \in Seq(Nat) /\ Len(OfModel(b, m)) = n
        /\ \A i \in 1..n : OfModel(a, m)[i] = IF a[i].model = m THEN a[i].delta ELSE 0
        /\ \A i \in 1..n : OfModel(b, m)[i] = IF b[i].model = m THEN b[i].delta ELSE 0
    <3>1. a \in Seq(StepRow) /\ b \in Seq(StepRow) /\ Len(a) = n /\ Len(b) = n
      BY <1>0
    <3> HIDE DEF n
    <3>2. ASSUME NEW c \in Seq(StepRow), Len(c) = n
          PROVE  /\ OfModel(c, m) \in Seq(Nat) /\ Len(OfModel(c, m)) = n
                 /\ \A i \in 1..n : OfModel(c, m)[i] = IF c[i].model = m THEN c[i].delta ELSE 0
      BY <3>2, DeltasType
    <3> QED
      BY <3>1, <3>2
  <2>2. Sum(OfModel(a, m)) = l[m]
    BY DEF Explains, a
  <2>3. \A i \in 1..n : i # n => OfModel(b, m)[i] = OfModel(a, m)[i]
    BY <1>0, <2>1
  <2>4. CASE m = r.model
    <3>1. OfModel(b, m)[n] = OfModel(a, m)[n] + d
      BY <1>0, <2>1, <2>4
    <3>2. Sum(OfModel(b, m)) = Sum(OfModel(a, m)) + d
      <4> DEFINE x == OfModel(a, m)
                 y == OfModel(b, m)
      <4>1. /\ x \in Seq(Nat) /\ y \in Seq(Nat) /\ Len(x) = Len(y) /\ n \in 1..Len(x)
            /\ y[n] = x[n] + d /\ \A i \in 1..Len(x) : i # n => y[i] = x[i]
        BY <1>0, <2>1, <2>3, <3>1
      <4> HIDE DEF x, y, n
      <4>2. Sum(y) = Sum(x) + d
        BY <4>1, SumChange
      <4> QED
        BY <4>2 DEF x, y
    <3> QED
      BY <1>1, <2>2, <2>4, <3>2
  <2>5. CASE m # r.model
    <3>1. OfModel(b, m)[n] = OfModel(a, m)[n]
      BY <1>0, <2>1, <2>5
    <3>2. OfModel(b, m) = OfModel(a, m)
      <4> DEFINE x == OfModel(a, m)
                 y == OfModel(b, m)
      <4>1. x \in Seq(Nat) /\ y \in Seq(Nat) /\ Len(x) = n /\ Len(y) = n
        BY <2>1
      <4>2. \A i \in 1..n : y[i] = x[i]
        BY <2>3, <3>1
      <4> HIDE DEF x, y, n
      <4>3. y = x
        BY <4>1, <4>2
      <4> QED
        BY <4>3 DEF x, y
    <3> QED
      BY <1>1, <2>2, <2>5, <3>2, SMTT(30)
  <2> QED
    BY <2>4, <2>5
<1>3. Sum(Deltas(b)) = Sum(Deltas(a)) + d
  <2>1. /\ Deltas(a) \in Seq(Nat) /\ Len(Deltas(a)) = n
        /\ Deltas(b) \in Seq(Nat) /\ Len(Deltas(b)) = n
        /\ \A i \in 1..n : Deltas(a)[i] = a[i].delta /\ Deltas(b)[i] = b[i].delta
    BY <1>0, DeltasType
  <2>2. Deltas(b)[n] = Deltas(a)[n] + d /\ \A i \in 1..n : i # n => Deltas(b)[i] = Deltas(a)[i]
    BY <1>0, <2>1
  <2> DEFINE x == Deltas(a)
             y == Deltas(b)
  <2>3. /\ x \in Seq(Nat) /\ y \in Seq(Nat) /\ Len(x) = Len(y) /\ n \in 1..Len(x)
        /\ y[n] = x[n] + d /\ \A i \in 1..Len(x) : i # n => y[i] = x[i]
    BY <1>0, <2>1, <2>2
  <2> HIDE DEF x, y, n
  <2>4. Sum(y) = Sum(x) + d
    BY <2>3, SumChange
  <2> QED
    BY <2>4 DEF x, y
<1>4. Sum(InOrder(g)) = Sum(InOrder(l)) + d
  BY <1>1, InOrderGrows
<1> HIDE DEF g
<1>5. Explains(b, g)
  BY <1>2, <1>3, <1>4 DEF Explains, a
<1> QED
  BY <1>5 DEF b, g

\* A step begins with no delta.
LEMMA DeltaBegins ==
  ASSUME NEW s \in Seq(StepRow), NEW q \in StepRow, q.delta = 0,
         NEW l \in [Models -> Nat], Explains(s, l)
  PROVE  Explains(Append(s, q), l)
<1> DEFINE b == Append(s, q)
<1>0. /\ b \in Seq(StepRow) /\ Len(b) = Len(s) + 1 /\ b[Len(s) + 1] = q /\ Len(s) \in Nat
      /\ \A i \in 1..Len(s) : b[i] = s[i]
  OBVIOUS
<1> HIDE DEF b
<1>1. ASSUME NEW m \in Models PROVE Sum(OfModel(b, m)) = l[m]
  <2> DEFINE x == OfModel(s, m)
             y == OfModel(b, m)
  <2>1. /\ x \in Seq(Nat) /\ y \in Seq(Nat) /\ Len(y) = Len(x) + 1 /\ y[Len(x) + 1] = 0
        /\ \A i \in 1..Len(x) : y[i] = x[i]
    <3>1. /\ x \in Seq(Nat) /\ Len(x) = Len(s)
          /\ \A i \in 1..Len(s) : x[i] = IF s[i].model = m THEN s[i].delta ELSE 0
      BY DeltasType
    <3>2. /\ y \in Seq(Nat) /\ Len(y) = Len(s) + 1
          /\ \A i \in 1..Len(s) + 1 : y[i] = IF b[i].model = m THEN b[i].delta ELSE 0
      BY <1>0, DeltasType
    <3> HIDE DEF x, y
    <3>3. Len(s) + 1 \in 1..Len(s) + 1 /\ \A i \in 1..Len(s) : i \in 1..Len(s) + 1
      BY <1>0
    <3>4. y[Len(s) + 1] = 0
      BY <1>0, <3>2, <3>3
    <3>5. ASSUME NEW i \in 1..Len(s) PROVE y[i] = x[i]
      <4>1. i \in 1..Len(s) + 1 /\ b[i] = s[i]
        BY <1>0, <3>3
      <4> QED
        BY <3>1, <3>2, <4>1
    <3> QED
      BY <3>1, <3>2, <3>4, <3>5
  <2>2. Sum(x) = l[m] /\ l[m] \in Nat
    BY DEF Explains
  <2> HIDE DEF x, y
  <2>3. Sum(y) = Sum(x) + 0
    BY <2>1, SumLonger
  <2> QED
    BY <2>2, <2>3 DEF y
<1>2. Sum(Deltas(b)) = Sum(Deltas(s))
  <2> DEFINE x == Deltas(s)
             y == Deltas(b)
  <2>1. /\ x \in Seq(Nat) /\ y \in Seq(Nat) /\ Len(y) = Len(x) + 1 /\ y[Len(x) + 1] = 0
        /\ \A i \in 1..Len(x) : y[i] = x[i]
    <3>1. /\ x \in Seq(Nat) /\ Len(x) = Len(s)
          /\ \A i \in 1..Len(s) : x[i] = s[i].delta
      BY DeltasType
    <3>2. /\ y \in Seq(Nat) /\ Len(y) = Len(s) + 1
          /\ \A i \in 1..Len(s) + 1 : y[i] = b[i].delta
      BY <1>0, DeltasType
    <3> HIDE DEF x, y
    <3>3. Len(s) + 1 \in 1..Len(s) + 1 /\ \A i \in 1..Len(s) : i \in 1..Len(s) + 1
      BY <1>0
    <3>4. y[Len(s) + 1] = 0
      BY <1>0, <3>2, <3>3
    <3>5. ASSUME NEW i \in 1..Len(s) PROVE y[i] = x[i]
      <4>1. i \in 1..Len(s) + 1 /\ b[i] = s[i]
        BY <1>0, <3>3
      <4> QED
        BY <3>1, <3>2, <4>1
    <3> QED
      BY <3>1, <3>2, <3>4, <3>5
  <2> HIDE DEF x, y
  <2>2. Sum(y) = Sum(x) + 0 /\ Sum(x) \in Nat
    BY <2>1, SumLonger, SumType
  <2> QED
    BY <2>2 DEF x, y
<1> QED
  BY <1>1, <1>2 DEF Explains, b

\* What a step reads of the profile counts for that step.
LEMMA DeltaRead ==
  ASSUME TypeOK, PlaceInv, LogInv, DeltaInv, pc \in StepPcs, NEW phase,
         TakeDelta(Newest(InWindow(phase))),
         NEW q \in StepRow, q.model = step.model,
         q.delta = step.delta + ReleaseDelta(Newest(InWindow(phase)))
  PROVE  Explains(Append(steps, q), last')
<1> DEFINE d == ReleaseDelta(Newest(InWindow(phase)))
<1>1. /\ d \in Nat
      /\ last' = [last EXCEPT ![step.model] = @ + d]
  BY DeltaIsExact
<1>2. steps \in Seq(StepRow) /\ step \in StepRow /\ last \in [Models -> Nat]
      /\ Len(steps) \in Nat /\ k \in Nat
  BY DEF TypeOK
<1>3. Explains(Append(steps, step), last)
  BY <1>2 DEF DeltaInv, Counted, PlaceInv
<1> HIDE DEF d
<1>4. q.delta = step.delta + d
  BY DEF d
<1> QED
  BY <1>1, <1>2, <1>3, <1>4, DeltaGrows

LEMMA DeltaStep ==
  TypeOK /\ PlaceInv /\ LogInv /\ DeltaInv /\ TypeOK' /\ [Next]_vars => DeltaInv'
<1> SUFFICES ASSUME TypeOK, PlaceInv, LogInv, DeltaInv, TypeOK', [Next]_vars PROVE DeltaInv'
  OBVIOUS
<1> USE DEF runVars, extVars
<1>0. /\ steps \in Seq(StepRow) /\ step \in StepRow /\ step' \in StepRow /\ last \in [Models -> Nat]
      /\ last' \in [Models -> Nat] /\ Len(steps) \in Nat /\ k \in Nat /\ NSteps \in Nat
  BY StepsFacts DEF TypeOK
<1>1. ASSUME UNCHANGED <<steps, step, k, last>> PROVE DeltaInv'
  BY <1>1 DEF DeltaInv, Counted
<1>2. pc \in StepPcs => Len(steps) = k - 1 /\ k <= NSteps /\ Counted = Append(steps, step)
  BY <1>0 DEF PlaceInv, Counted
<1>3. ASSUME UNCHANGED <<steps, k>>, pc \in StepPcs PROVE Counted' = Append(steps, step')
  BY <1>0, <1>2, <1>3 DEF Counted
<1>4. CASE Step
  <2>1. CASE Load \/ WakeUp \/ Sleep
    BY <1>1, <2>1 DEF Load, WakeUp, Sleep
  <2>2. CASE PreWake \/ PostWake \/ Infer
    <3>1. /\ pc \in StepPcs /\ UNCHANGED <<steps, k, last>>
          /\ step'.model = step.model /\ step'.delta = step.delta + 0
      <4>1. pc \in StepPcs /\ UNCHANGED <<steps, k, last>>
        BY <2>2 DEF PreWake, PostWake, Infer, StepPcs
      <4>2. step'.model = step.model /\ step'.delta = step.delta
        BY <1>0, <2>2 DEF PreWake, PostWake, Infer, StepRow
      <4>3. step.delta \in Nat
        BY <1>0 DEF StepRow
      <4> QED
        BY <4>1, <4>2, <4>3
    <3>2. Explains(Append(steps, step'), [last EXCEPT ![step.model] = @ + 0])
      <4>1. Explains(Append(steps, step), last)
        BY <1>2, <3>1 DEF DeltaInv
      <4> DEFINE q == step'
      <4>2. q \in StepRow /\ q.model = step.model /\ q.delta = step.delta + 0
        BY <1>0, <3>1
      <4> HIDE DEF q
      <4>3. Explains(Append(steps, q), [last EXCEPT ![step.model] = @ + 0])
        BY <1>0, <4>1, <4>2, DeltaGrows
      <4> QED
        BY <4>3 DEF q
    <3>3. [last EXCEPT ![step.model] = @ + 0] = last
      BY <1>0
    <3> QED
      BY <1>3, <3>1, <3>2, <3>3 DEF DeltaInv
  <2>3. CASE ReadWake
    <3> DEFINE i == Newest(InWindow("wake"))
    <3>1. /\ pc \in StepPcs /\ UNCHANGED <<steps, k>> /\ TakeDelta(i)
          /\ step' = [step EXCEPT !.wakeEv = i, !.delta = @ + ReleaseDelta(i)]
      BY <2>3 DEF ReadWake, StepPcs
    <3> DEFINE q == step'
    <3>2. q \in StepRow /\ q.model = step.model /\ q.delta = step.delta + ReleaseDelta(i)
      BY <1>0, <3>1 DEF StepRow
    <3> HIDE DEF q
    <3>3. Explains(Append(steps, q), last')
      BY <3>1, <3>2, DeltaRead
    <3> QED
      BY <1>3, <3>1, <3>3 DEF DeltaInv, q
  <2>4. CASE ReadSleep
    <3> DEFINE i == Newest(InWindow("sleep"))
               q == [step EXCEPT !.sleepEv = i, !.delta = @ + ReleaseDelta(i), !.ok = TRUE]
    <3>1. /\ pc \in StepPcs /\ TakeDelta(i) /\ steps' = Append(steps, q) /\ k' = k + 1
          /\ step' = IF k < NSteps THEN NewStep(k + 1) ELSE step
      BY <2>4 DEF ReadSleep, StepPcs
    <3>2. q \in StepRow /\ q.model = step.model /\ q.delta = step.delta + ReleaseDelta(i)
      <4>1. i \in Nat /\ ReleaseDelta(i) \in Nat
        BY <3>1, NewestEvent, DeltaIsExact DEF TypeOK
      <4> HIDE DEF i
      <4>2. q \in StepRow
        BY <1>0, <4>1, StepUpdateType
      <4> QED
        BY <1>0, <4>2 DEF StepRow
    <3> HIDE DEF q
    <3>3. Explains(Append(steps, q), last')
      BY <3>1, <3>2, DeltaRead
    <3>4. Len(steps') = k /\ steps' \in Seq(StepRow)
      BY <1>0, <1>2, <3>1, <3>2
    <3>5. CASE k < NSteps
      <4>1. Counted' = Append(steps', step')
        BY <1>0, <3>1, <3>4, <3>5 DEF Counted
      <4>2. step'.delta = 0
        BY <3>1, <3>5 DEF NewStep
      <4> DEFINE s == steps'
                 r == step'
                 l == last'
      <4>3. s \in Seq(StepRow) /\ r \in StepRow /\ r.delta = 0 /\ l \in [Models -> Nat]
            /\ Explains(s, l)
        BY <1>0, <3>1, <3>3, <3>4, <4>2
      <4> HIDE DEF s, r, l
      <4>4. Explains(Append(s, r), l)
        BY <4>3, DeltaBegins
      <4> QED
        BY <4>1, <4>4 DEF DeltaInv, s, r, l
    <3>6. CASE ~(k < NSteps)
      <4>1. Counted' = steps'
        BY <1>0, <3>1, <3>6 DEF Counted
      <4> QED
        BY <3>1, <3>3, <4>1 DEF DeltaInv
    <3> QED
      BY <3>5, <3>6
  <2>5. CASE StepRaises
    <3>1. pc \in StepPcs /\ steps' = Append(steps, step) /\ UNCHANGED <<k, last>>
      BY <2>5 DEF StepRaises
    <3>2. Len(steps') = k
      BY <1>0, <1>2, <3>1
    <3>3. Counted' = Counted
      BY <1>0, <1>2, <3>1, <3>2 DEF Counted
    <3> QED
      BY <3>1, <3>3 DEF DeltaInv
  <2> QED
    BY <1>4, <2>1, <2>2, <2>3, <2>4, <2>5 DEF Step
<1>5. CASE Finish \/ FetchRaises \/ Interrupt
  BY <1>1, <1>5 DEF Finish, ClearEngines, FetchStats, Validate, WriteEvidence, FetchRaises,
         Interrupt
<1>6. CASE External \/ UNCHANGED vars
  BY <1>1, <1>6 DEF External, Request, Release, Acknowledge, ForeignReleases, CompleteLine, vars
<1> QED
  BY <1>4, <1>5, <1>6 DEF Next, Terminating

-----------------------------------------------------------------------------
(* The workers and the coordinator.                                        *)

\* What CoordInv says of one model.
Known(w, c, asked) ==
  /\ w.cum = c.released + w.unacked
  /\ w.unacked > 0 => c.pending > 0
  /\ c.pending <= c.requested
  /\ w.cum > 0 => c.requested > 0
  /\ ~asked => c.requested = 0

LEMMA CoordStep == TypeOK /\ CoordInv /\ [Next]_vars => CoordInv'
<1> SUFFICES ASSUME TypeOK, CoordInv, [Next]_vars PROVE CoordInv'
  OBVIOUS
<1> USE DEF runVars, extVars
<1>0. /\ worker \in [Models -> Worker] /\ coord \in [Clients -> Record]
      /\ Models \subseteq Clients /\ Foreign \in Clients /\ Foreign \notin Models
      /\ Block \in Nat \ {0}
  BY ReuseAssumption DEF TypeOK, Clients, ReuseAssumption
<1>1. \A m \in Models : Known(worker[m], coord[m], opts.coordinator)
  BY DEF CoordInv, Known
<1>2. ASSUME opts' = opts,
             \A m \in Models : Known(worker'[m], coord'[m], opts.coordinator)
      PROVE  CoordInv'
  BY <1>2 DEF CoordInv, Known
<1>3. ASSUME UNCHANGED <<opts, coord>>, \A m \in Models : /\ worker'[m].cum = worker[m].cum
                                                          /\ worker'[m].unacked = worker[m].unacked
      PROVE  CoordInv'
  BY <1>3 DEF CoordInv
<1>4. CASE Step
  <2>1. CASE Sleep
    <3>1. \A m \in Models : /\ worker'[m].cum = worker[m].cum
                            /\ worker'[m].unacked = worker[m].unacked
      BY <1>0, <2>1 DEF Sleep, Worker
    <3> QED
      BY <1>3, <2>1, <3>1 DEF Sleep
  <2> QED
    BY <1>3, <1>4, <2>1 DEF Step, Load, PreWake, WakeUp, ReadWake, PostWake, Infer, ReadSleep,
           StepRaises
<1>5. CASE Finish \/ FetchRaises \/ Interrupt
  BY <1>3, <1>5 DEF Finish, ClearEngines, FetchStats, Validate, WriteEvidence, FetchRaises,
         Interrupt
<1>6. CASE External
  <2>1. ASSUME NEW c \in Clients, Request(c) PROVE CoordInv'
    <3>1. opts.coordinator /\ opts' = opts /\ worker' = worker
          /\ coord' = [coord EXCEPT ![c].requested = @ + 1, ![c].pending = @ + 1]
      BY <2>1 DEF Request
    <3>2. ASSUME NEW m \in Models PROVE Known(worker'[m], coord'[m], opts.coordinator)
      <4>1. CASE m = c
        <5>1. /\ coord'[m].requested = coord[m].requested + 1
              /\ coord'[m].pending = coord[m].pending + 1
              /\ coord'[m].released = coord[m].released
          BY <1>0, <3>1, <4>1 DEF Record
        <5>2. coord[m] \in Record /\ worker[m] \in Worker
          BY <1>0
        <5> QED
          BY <1>1, <3>1, <5>1, <5>2 DEF Known, Record, Worker
      <4>2. CASE m # c
        BY <1>0, <1>1, <3>1, <4>2
      <4> QED
        BY <4>1, <4>2
    <3> QED
      BY <1>2, <3>1, <3>2
  <2>2. ASSUME NEW m \in Models, Release(m) PROVE CoordInv'
    <3>1. opts' = opts /\ coord' = coord /\ coord[m].pending > 0 /\ worker[m].unacked = 0
          /\ worker' = [worker EXCEPT ![m] = [cum |-> worker[m].cum + Block, held |-> FALSE,
                                              unacked |-> Block]]
      BY <1>0, <2>2 DEF Release
    <3>2. ASSUME NEW n \in Models PROVE Known(worker'[n], coord'[n], opts.coordinator)
      <4>1. CASE n = m
        <5>1. worker'[n].cum = worker[m].cum + Block /\ worker'[n].unacked = Block
          BY <1>0, <3>1, <4>1
        <5>2. coord[m] \in Record /\ worker[m] \in Worker
          BY <1>0
        <5> QED
          BY <1>0, <1>1, <3>1, <4>1, <5>1, <5>2 DEF Known, Record, Worker
      <4>2. CASE n # m
        BY <1>0, <1>1, <3>1, <4>2
      <4> QED
        BY <4>1, <4>2
    <3> QED
      BY <1>2, <3>1, <3>2
  <2>3. ASSUME NEW m \in Models, Acknowledge(m) PROVE CoordInv'
    <3>1. opts' = opts
          /\ coord' = [coord EXCEPT ![m] = Acknowledged(coord[m], worker[m].unacked)]
          /\ worker' = [worker EXCEPT ![m].unacked = 0]
      BY <1>0, <2>3 DEF Acknowledge
    <3>2. ASSUME NEW n \in Models PROVE Known(worker'[n], coord'[n], opts.coordinator)
      <4>1. CASE n = m
        <5>0. coord[m] \in Record /\ worker[m] \in Worker
          BY <1>0
        <5>1. worker'[n].cum = worker[m].cum /\ worker'[n].unacked = 0
          BY <1>0, <3>1, <4>1, <5>0 DEF Worker
        <5>2. /\ coord'[n].released = coord[m].released + worker[m].unacked
              /\ coord'[n].pending <= coord[m].pending /\ coord'[n].requested = coord[m].requested
          BY <1>0, <3>1, <4>1, <5>0 DEF Acknowledged, Record, Worker
        <5>3. coord'[n].pending \in Nat
          BY <1>0, <3>1, <4>1, <5>0 DEF Acknowledged, Record, Worker
        <5> QED
          BY <1>1, <4>1, <5>0, <5>1, <5>2, <5>3 DEF Known, Record, Worker
      <4>2. CASE n # m
        BY <1>0, <1>1, <3>1, <4>2
      <4> QED
        BY <4>1, <4>2
    <3> QED
      BY <1>2, <3>1, <3>2
  <2>4. CASE ForeignReleases
    <3>1. opts' = opts /\ worker' = worker
          /\ coord' = [coord EXCEPT ![Foreign] = Acknowledged(coord[Foreign], Block)]
      BY <1>0, <2>4 DEF ForeignReleases
    <3>2. \A m \in Models : coord'[m] = coord[m]
      BY <1>0, <3>1
    <3> QED
      BY <1>1, <1>2, <3>1, <3>2
  <2>5. CASE CompleteLine
    BY <1>3, <2>5 DEF CompleteLine
  <2> QED
    BY <1>6, <2>1, <2>2, <2>3, <2>4, <2>5 DEF External
<1>7. CASE UNCHANGED vars
  BY <1>3, <1>7 DEF vars
<1> QED
  BY <1>4, <1>5, <1>6, <1>7 DEF Next, Terminating

\* The counters the verdict looks at are the coordinator's at that time.
LEMMA StatsStep == TypeOK /\ PlaceInv /\ StatsInv /\ [Next]_vars => StatsInv'
<1> SUFFICES ASSUME TypeOK, PlaceInv, StatsInv, [Next]_vars PROVE StatsInv'
  OBVIOUS
<1> USE DEF runVars, extVars, StepPcs, Judged
<1>1. ASSUME UNCHANGED coord PROVE RunStats' = RunStats
  BY <1>1 DEF RunStats, Total
<1>2. CASE Step
  <2>1. UNCHANGED stats /\ pc \in StepPcs /\ pc' \in StepPcs \cup {"clear", "evidence"}
        /\ (pc' = "evidence" => error' = "error")
    BY <1>2 DEF Step, Load, PreWake, WakeUp, ReadWake, PostWake, Infer, Sleep, ReadSleep, StepRaises
  <2> QED
    BY <2>1 DEF StatsInv
<1>3. CASE ClearEngines
  BY <1>1, <1>3 DEF ClearEngines, StatsInv
<1>4. CASE FetchStats
  BY <1>1, <1>4 DEF FetchStats, StatsInv, PlaceInv
<1>5. CASE Validate \/ WriteEvidence
  BY <1>1, <1>5 DEF Validate, WriteEvidence, StatsInv
<1>6. CASE FetchRaises \/ Interrupt
  BY <1>6 DEF FetchRaises, Interrupt, StatsInv
<1>7. CASE External
  BY <1>7 DEF External, Request, Release, Acknowledge, ForeignReleases, CompleteLine, StatsInv
<1>8. CASE UNCHANGED vars
  BY <1>1, <1>8 DEF vars, StatsInv
<1> QED
  BY <1>2, <1>3, <1>4, <1>5, <1>6, <1>7, <1>8 DEF Next, Finish, Terminating

\* The verdict is given once, and nothing it rests on changes after it.
LEMMA VerdictStep == TypeOK /\ PlaceInv /\ VerdictInv /\ [Next]_vars => VerdictInv'
<1> SUFFICES ASSUME TypeOK, PlaceInv, VerdictInv, [Next]_vars PROVE VerdictInv'
  OBVIOUS
<1> USE DEF runVars, extVars, StepPcs, TryPcs
<1>1. ASSUME UNCHANGED <<opts, steps, stats, known, log>> PROVE ClaimsHold' = ClaimsHold
  BY <1>1 DEF ClaimsHold, ReleaseClaimHolds, NoReleaseClaimHolds, ReuseClaimHolds, ReleaseSteps
<1>2. CASE Step
  <2>1. pc \in StepPcs /\ pc' \in StepPcs \cup {"clear", "evidence"} /\ UNCHANGED <<opts, summary>>
        /\ (pc' = "evidence" => error' = "error") /\ (pc' # "evidence" => error' = error)
    BY <1>2 DEF Step, Load, PreWake, WakeUp, ReadWake, PostWake, Infer, Sleep, ReadSleep, StepRaises
  <2> QED
    BY <2>1 DEF VerdictInv, PlaceInv
<1>3. CASE ClearEngines \/ FetchStats
  BY <1>3 DEF ClearEngines, FetchStats, VerdictInv, PlaceInv
<1>4. CASE Validate
  BY <1>1, <1>4 DEF Validate, VerdictInv
<1>5. CASE WriteEvidence
  BY <1>1, <1>5 DEF WriteEvidence, VerdictInv
<1>6. CASE FetchRaises \/ Interrupt
  BY <1>6 DEF FetchRaises, Interrupt, VerdictInv
<1>7. CASE External
  <2>1. pc \in StepPcs \cup {"clear", "stats"} /\ UNCHANGED <<opts, pc, error, summary>>
    BY <1>7 DEF External, Request, Release, Acknowledge, ForeignReleases, CompleteLine
  <2> QED
    BY <2>1 DEF VerdictInv
<1>8. CASE UNCHANGED vars
  BY <1>1, <1>8 DEF vars, VerdictInv
<1> QED
  BY <1>2, <1>3, <1>4, <1>5, <1>6, <1>7, <1>8 DEF Next, Finish, Terminating

LEMMA ClientStep == TypeOK /\ ClientInv /\ [Next]_vars => ClientInv'
<1> SUFFICES ASSUME TypeOK, ClientInv, [Next]_vars, NEW m \in Models \ known'
             PROVE  coord'[m].requested = 0
  BY DEF ClientInv
<1> USE DEF runVars, extVars
<1>0. coord \in [Clients -> Record] /\ Models \subseteq Clients /\ Foreign \notin Models
  BY ReuseAssumption DEF TypeOK, Clients, ReuseAssumption
<1>1. ASSUME UNCHANGED <<coord, known>> PROVE coord'[m].requested = 0
  BY <1>1 DEF ClientInv
<1>2. CASE Step \/ Finish \/ FetchRaises \/ Interrupt
  <2>1. UNCHANGED <<coord, known>>
    BY <1>2 DEF Step, Load, PreWake, WakeUp, ReadWake, PostWake, Infer, Sleep, ReadSleep,
           StepRaises,
           Finish, ClearEngines, FetchStats, Validate, WriteEvidence, FetchRaises, Interrupt
  <2> QED
    BY <1>1, <2>1
<1>3. CASE External
  <2>1. known' = known /\ m \in Models /\ coord[m] \in Record /\ coord[m].requested = 0
    BY <1>0, <1>3 DEF External, Request, Release, Acknowledge, ForeignReleases, CompleteLine,
           ClientInv
  <2>2. ASSUME NEW c \in Clients, Request(c) PROVE coord'[m].requested = 0
    BY <1>0, <2>1, <2>2 DEF Request
  <2>3. ASSUME NEW c \in Clients, NEW b, coord' = [coord EXCEPT ![c] = Acknowledged(coord[c], b)]
        PROVE  coord'[m].requested = 0
    <3>1. coord'[m] = IF m = c THEN Acknowledged(coord[m], b) ELSE coord[m]
      BY <1>0, <2>1, <2>3
    <3>2. Acknowledged(coord[m], b).requested = coord[m].requested
      BY <2>1 DEF Acknowledged, Record
    <3> QED
      BY <2>1, <3>1, <3>2
  <2>4. CASE \E n \in Models : Acknowledge(n)
    BY <1>0, <2>3, <2>4 DEF Acknowledge
  <2>5. CASE ForeignReleases
    <3>1. coord' = [coord EXCEPT ![Foreign] = Acknowledged(coord[Foreign], Block)]
      BY <2>5 DEF ForeignReleases
    <3> QED
      BY <2>3, <3>1 DEF Clients
  <2>6. CASE (\E n \in Models : Release(n)) \/ CompleteLine
    BY <2>1, <2>6 DEF Release, CompleteLine
  <2> QED
    BY <1>3, <2>2, <2>4, <2>5, <2>6 DEF External
<1>4. CASE UNCHANGED vars
  BY <1>1, <1>4 DEF vars
<1> QED
  BY <1>2, <1>3, <1>4 DEF Next, Terminating

-----------------------------------------------------------------------------
(* The inductive invariant.                                                *)

LEMMA IInit == Init => IInv
<1> SUFFICES ASSUME Init PROVE IInv
  OBVIOUS
<1>0. /\ pc = "activate" /\ k = 1 /\ step = NewStep(1) /\ steps = <<>> /\ log = <<>> /\ torn = FALSE
      /\ cursor = 0 /\ error = "no" /\ summary = "absent" /\ stats = NoBytes
      /\ last = [m \in Models |-> 0]
      /\ coord = [c \in Clients |-> NoBytes]
      /\ worker = [m \in Models |-> [cum |-> 0, held |-> FALSE, unacked |-> 0]]
  BY DEF Init
<1>1. TypeOK
  BY TypeInit
<1>2. Len(steps) = 0 /\ DOMAIN steps = {} /\ DOMAIN log = {} /\ Len(log) = 0
  BY <1>0
<1>3. PlaceInv
  BY <1>0, <1>2, StepsFacts DEF PlaceInv, NewStep, TryPcs, StepPcs
<1>4. LogInv
  BY <1>0, <1>2 DEF LogInv, Complete
<1>5. EvidenceInv
  BY <1>0, <1>2 DEF EvidenceInv, Own, NewStep
<1>6. DeltaInv
  <2> DEFINE z == [m \in Models |-> 0]
  <2>1. \A m \in Models : OfModel(<<>>, m) = <<>>
    BY DEF OfModel
  <2>2. Deltas(<<>>) = <<>> /\ Sum(<<>>) = 0
    <3>1. <<>> \in Seq(Nat)
      OBVIOUS
    <3>2. Sum(<<>>) = 0
      BY <3>1, SumType
    <3>3. Deltas(<<>>) = <<>>
      BY DEF Deltas
    <3> QED
      BY <3>2, <3>3
  <2>3. z \in [Models -> Nat] /\ \A m \in Models : z[m] = 0
    OBVIOUS
  <2> HIDE DEF z
  <2>4. Sum(InOrder(z)) = 0
    <3>1. \A i \in 1..Len(Order) : Order[i] \in Models
      BY OrderFacts
    <3>2. InOrder(z) \in Seq(Nat) /\ \A i \in 1..Len(InOrder(z)) : InOrder(z)[i] = 0
      BY <2>3, <3>1, InOrderType
    <3> QED
      BY <3>2, SumZero
  <2>5. Explains(<<>>, z)
    BY <2>1, <2>2, <2>3, <2>4 DEF Explains
  <2>6. step \in StepRow /\ step.delta = 0
    BY <1>0, <1>1 DEF TypeOK, NewStep
  <2>7. Explains(Append(<<>>, step), z)
    <3>1. <<>> \in Seq(StepRow)
      OBVIOUS
    <3> QED
      BY <2>3, <2>5, <2>6, <3>1, DeltaBegins
  <2>8. Counted = Append(<<>>, step)
    BY <1>0, <1>2, StepsFacts DEF Counted
  <2> QED
    BY <1>0, <2>7, <2>8 DEF DeltaInv, z
<1>7. CoordInv /\ ClientInv
  BY <1>0 DEF CoordInv, ClientInv, NoBytes, Clients
<1>8. StatsInv /\ VerdictInv
  BY <1>0 DEF StatsInv, VerdictInv, Judged
<1> QED
  BY <1>1, <1>3, <1>4, <1>5, <1>6, <1>7, <1>8 DEF IInv

LEMMA IStep == IInv /\ [Next]_vars => IInv'
<1> SUFFICES ASSUME IInv, [Next]_vars PROVE IInv'
  OBVIOUS
<1>1. /\ TypeOK /\ PlaceInv /\ LogInv /\ EvidenceInv
      /\ DeltaInv /\ CoordInv /\ ClientInv /\ StatsInv /\ VerdictInv
  BY DEF IInv
<1>2. TypeOK'
  BY <1>1, TypeStep
<1>3. PlaceInv'
  BY <1>1, PlaceStep
<1>4. LogInv'
  BY <1>1, <1>2, LogStep
<1>5. EvidenceInv'
  BY <1>1, <1>3, EvidenceStep
<1>6. DeltaInv'
  BY <1>1, <1>2, DeltaStep
<1>7. CoordInv' /\ ClientInv' /\ StatsInv' /\ VerdictInv'
  BY <1>1, CoordStep, ClientStep, StatsStep, VerdictStep
<1> QED
  BY <1>2, <1>3, <1>4, <1>5, <1>6, <1>7 DEF IInv

LEMMA Invariance == Spec => []IInv
<1>1. Init => IInv
  BY IInit
<1>2. IInv /\ [Next]_vars => IInv'
  BY IStep
<1> QED
  BY <1>1, <1>2, PTL DEF Spec

-----------------------------------------------------------------------------
(* What follows from it.                                                   *)

\* At the end all the records of the steps are counted.
LEMMA AllCounted ==
  ASSUME IInv, Judged
  PROVE  Explains(steps, last) /\ steps \in Seq(StepRow) /\ last \in [Models -> Nat]
<1>1. k = NSteps + 1
  BY DEF IInv, PlaceInv, Judged
<1>2. Counted = steps
  BY <1>1, StepsFacts DEF Counted
<1> QED
  BY <1>2 DEF IInv, DeltaInv, TypeOK

\* Each total is no smaller than what it adds up.
LEMMA TotalsBound ==
  ASSUME TypeOK, NEW m \in Models
  PROVE  coord[m].released <= RunStats.released /\ coord[m].pending <= RunStats.pending
<1> DEFINE r == [i \in DOMAIN Order |-> coord[Order[i]].released]
           p == [i \in DOMAIN Order |-> coord[Order[i]].pending]
<1>1. PICK j \in DOMAIN Order : Order[j] = m
  BY OrderFacts
<1>2. r \in Seq(Nat) /\ p \in Seq(Nat)
  BY TotalsType DEF TypeOK
<1>3. r[j] = coord[m].released /\ p[j] = coord[m].pending /\ j \in 1..Len(r) /\ j \in 1..Len(p)
  BY <1>1, <1>2, OrderFacts
<1>4. RunStats.released = Sum(r) /\ RunStats.pending = Sum(p)
  BY DEF RunStats, Total
<1> HIDE DEF r, p
<1> QED
  BY <1>2, <1>3, <1>4, SumBounds

\* A worker for which the coordinator counts nothing, and from which it waits for
\* nothing, released nothing.
LEMMA NothingReleased ==
  ASSUME IInv, NEW m \in Models, coord[m].released = 0, coord[m].pending = 0
  PROVE  worker[m].cum = 0 /\ worker[m].unacked = 0
<1>1. worker[m] \in Worker
  BY DEF IInv, TypeOK
<1> QED
  BY <1>1 DEF IInv, CoordInv, Worker

\* Each property follows from the invariant in one state.
LEMMA EvidenceIsOwnInv == IInv => EvidenceIsOwn
  BY DEF IInv, EvidenceInv, Own, EvidenceIsOwn

LEMMA DeltasAddUpInv == IInv => DeltasAddUp
<1> SUFFICES ASSUME IInv PROVE DeltasAddUp
  OBVIOUS
<1>1. \A m \in Models : DeltasOf(m) = OfModel(Counted, m)
  BY DEF DeltasOf, OfModel
<1> QED
  BY <1>1 DEF IInv, DeltaInv, Explains, LogInv, DeltasAddUp

LEMMA OkRunIsCompleteInv == IInv => OkRunIsComplete
  BY DEF IInv, VerdictInv, PlaceInv, ClaimsHold, OkRunIsComplete

LEMMA ControlIsCleanInv == IInv => ControlIsClean
<1> SUFFICES ASSUME IInv, summary = "ok", opts.expect = "no_release", NEW m \in Models
             PROVE  worker[m].cum = 0
  BY DEF ControlIsClean
<1>1. pc = "done" /\ error = "no" /\ NoReleaseClaimHolds
  BY DEF IInv, VerdictInv, ClaimsHold
<1>2. TypeOK /\ m \in Clients
  BY DEF IInv, Clients
<1>3. coord[m] \in Record /\ worker[m] \in Worker
  BY <1>2 DEF TypeOK
<1>4. CASE opts.coordinator
  <2>1. RunStats = NoBytes
    BY <1>1, <1>4 DEF IInv, StatsInv, Judged, NoReleaseClaimHolds
  <2>2. RunStats.released = 0 /\ RunStats.pending = 0
    BY <2>1 DEF NoBytes
  <2>3. coord[m].released = 0 /\ coord[m].pending = 0
    BY <1>2, <1>3, <2>2, TotalsBound DEF Record
  <2> QED
    BY <2>3, NothingReleased
<1>5. CASE ~opts.coordinator
  BY <1>3, <1>5 DEF IInv, CoordInv, Worker, Record
<1> QED
  BY <1>4, <1>5

LEMMA ReleaseIsAcknowledgedInv == IInv => ReleaseIsAcknowledged
<1> SUFFICES ASSUME IInv, summary = "ok", opts.expect = "release"
             PROVE  /\ \A m \in Models : worker[m].unacked = 0
                    /\ Sum(Deltas(steps)) <= stats.released
  BY DEF ReleaseIsAcknowledged, Deltas
<1>1. pc = "done" /\ error = "no" /\ ReleaseClaimHolds
  BY DEF IInv, VerdictInv, ClaimsHold
<1>2. opts.coordinator /\ stats = RunStats /\ stats.pending = 0 /\ TypeOK
  BY <1>1 DEF IInv, StatsInv, Judged, ReleaseClaimHolds
<1>3. \A m \in Models : coord[m] \in Record /\ worker[m] \in Worker
  BY <1>2 DEF TypeOK, Clients
<1>4. \A m \in Models : worker[m].unacked = 0
  <2>1. \A m \in Models : coord[m].pending = 0
    BY <1>2, <1>3, TotalsBound DEF Record
  <2> QED
    BY <1>3, <2>1 DEF IInv, CoordInv, Worker
<1>5. \A m \in Models : last[m] <= coord[m].released /\ last[m] \in Nat
  BY <1>2, <1>3, <1>4 DEF IInv, CoordInv, LogInv, TypeOK, Worker, Record
<1>6. Explains(steps, last) /\ last \in [Models -> Nat]
  BY <1>1, AllCounted DEF Judged
<1> DEFINE x == InOrder(last)
           y == [i \in DOMAIN Order |-> coord[Order[i]].released]
<1>7. x \in Seq(Nat) /\ Len(x) = Len(Order) /\ \A i \in 1..Len(Order) : x[i] = last[Order[i]]
  BY <1>6, InOrderType
<1>8. y \in Seq(Nat) /\ Len(y) = Len(Order)
      /\ \A i \in 1..Len(Order) : y[i] = coord[Order[i]].released
  BY <1>2, TotalsType, OrderFacts DEF TypeOK
<1>9. RunStats.released = Sum(y) /\ Sum(Deltas(steps)) = Sum(x)
  BY <1>6 DEF RunStats, Total, Explains
<1> HIDE DEF x, y
<1>10. \A i \in 1..Len(x) : x[i] <= y[i]
  <2>1. \A i \in 1..Len(Order) : Order[i] \in Models
    BY OrderFacts
  <2> QED
    BY <1>5, <1>7, <1>8, <2>1
<1>11. Sum(x) <= Sum(y)
  BY <1>7, <1>8, <1>10, SumMonotone
<1> QED
  BY <1>2, <1>4, <1>9, <1>11

LEMMA VerdictIsLocalInv == IInv => VerdictIsLocal
<1> SUFFICES ASSUME IInv, error = "assertion", opts.expect = "no_release", ~opts.reuse,
                    \A i \in DOMAIN steps : steps[i].matches,
                    opts.coordinator => known # {},
                    \A m \in known : ~(coord[m].requested > 0)
             PROVE  FALSE
  BY DEF VerdictIsLocal
<1>1. Judged /\ ~NoReleaseClaimHolds
  BY DEF IInv, VerdictInv, ClaimsHold, Judged
<1>2. TypeOK /\ \A m \in Models : coord[m] \in Record /\ worker[m] \in Worker /\ last[m] \in Nat
  BY DEF IInv, TypeOK, Clients
<1>3. \A m \in Models : coord[m].requested = 0 /\ coord[m].pending = 0 /\ coord[m].released = 0
                        /\ worker[m].cum = 0
  <2>1. \A m \in Models : coord[m].requested = 0
    BY <1>2 DEF IInv, ClientInv, Record
  <2> QED
    BY <1>2, <2>1 DEF IInv, CoordInv, Record, Worker
<1>4. \A m \in Models : last[m] = 0
  BY <1>2, <1>3 DEF IInv, LogInv
<1>5. ReleaseSteps = {}
  <2> SUFFICES ASSUME NEW i \in DOMAIN steps, steps[i].delta > 0 PROVE FALSE
    BY DEF ReleaseSteps
  <2>1. Explains(steps, last) /\ steps \in Seq(StepRow)
    BY <1>1, AllCounted
  <2> DEFINE m == steps[i].model
             x == OfModel(steps, m)
  <2>2. m \in Models /\ steps[i].delta \in Nat /\ i \in 1..Len(steps)
    BY <2>1, DeltasType
  <2>3. x \in Seq(Nat) /\ i \in 1..Len(x) /\ x[i] = steps[i].delta
    BY <2>1, <2>2, DeltasType
  <2>4. Sum(x) = 0
    BY <1>4, <2>1, <2>2 DEF Explains
  <2> HIDE DEF x, m
  <2>5. x[i] <= Sum(x)
    BY <2>3, SumBounds
  <2> QED
    BY <2>2, <2>3, <2>4, <2>5
<1>6. RunStats = NoBytes
  <2> DEFINE q == [i \in DOMAIN Order |-> coord[Order[i]].requested]
             r == [i \in DOMAIN Order |-> coord[Order[i]].released]
             p == [i \in DOMAIN Order |-> coord[Order[i]].pending]
  <2>1. q \in Seq(Nat) /\ r \in Seq(Nat) /\ p \in Seq(Nat)
    BY <1>2, TotalsType DEF TypeOK
  <2>2. \A i \in DOMAIN Order : Order[i] \in Models
    BY DEF Models
  <2>3. /\ \A i \in DOMAIN Order : q[i] = 0 /\ r[i] = 0 /\ p[i] = 0
        /\ DOMAIN Order = 1..Len(q) /\ DOMAIN Order = 1..Len(r) /\ DOMAIN Order = 1..Len(p)
    BY <1>3, <2>1, <2>2, OrderFacts
  <2>4. Total("requested") = Sum(q) /\ Total("released") = Sum(r) /\ Total("pending") = Sum(p)
    BY DEF Total
  <2> HIDE DEF q, r, p
  <2>5. Sum(q) = 0 /\ Sum(r) = 0 /\ Sum(p) = 0
    BY <2>1, <2>3, SumZero
  <2> QED
    BY <2>4, <2>5 DEF RunStats, NoBytes
<1>7. opts.coordinator => stats = NoBytes
  BY <1>1, <1>6 DEF IInv, StatsInv
<1> QED
  BY <1>1, <1>5, <1>7 DEF NoReleaseClaimHolds

-----------------------------------------------------------------------------
(* The theorems.                                                           *)

\* The state of the runner, the workers and the coordinator keeps its type.
\* (main, record_release_delta)
THEOREM TypeCorrect == Spec => []TypeOK
<1>1. IInv => TypeOK
  BY DEF IInv
<1> QED
  BY <1>1, Invariance, PTL

\* Every event a step reports was written by the very call that step measured.
\* (load_profile_events_since, events_in_window, newest_event)
THEOREM EvidenceIsOwnHolds == Spec => []EvidenceIsOwn
  BY EvidenceIsOwnInv, Invariance, PTL

\* The release deltas of a model's steps add up to the last counter seen of it,
\* which never runs ahead of its worker.  (record_release_delta)
THEOREM DeltasAddUpHolds == Spec => []DeltasAddUp
  BY DeltasAddUpInv, Invariance, PTL

\* A summary that is ok stands for every step of every iteration.  (main)
THEOREM OkRunIsCompleteHolds == Spec => []OkRunIsComplete
  BY OkRunIsCompleteInv, Invariance, PTL

\* A no-release control that is ok released nothing at all.  (validate_results)
THEOREM ControlIsCleanHolds == Spec => []ControlIsClean
  BY ControlIsCleanInv, Invariance, PTL

\* When a release run is ok, all its workers released was acknowledged, and the
\* deltas of its steps are no more than what the coordinator counts.
\* (validate_results)
THEOREM ReleaseIsAcknowledgedHolds == Spec => []ReleaseIsAcknowledged
  BY ReleaseIsAcknowledgedInv, Invariance, PTL

\* A control fails its assertions only for what its own clients were asked, or for
\* having none.
\* (fetch_run_coordinator_stats)
THEOREM VerdictIsLocalHolds == Spec => []VerdictIsLocal
  BY VerdictIsLocalInv, Invariance, PTL

=============================================================================
