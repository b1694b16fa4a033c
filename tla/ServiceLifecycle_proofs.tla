------------------------ MODULE ServiceLifecycle_proofs ------------------------
(* Proofs about ServiceLifecycle, for any campaigns, any memory and any    *)
(* value of the bounds: type correctness, that the cycles of an accepted   *)
(* collection slept, and that a row is of the process that answered.       *)
EXTENDS ServiceLifecycle, FiniteSetTheorems, TLAPS

LlamaSteps == {"baseline", "request", "unload", "poll", "memory", "profile"}
SwapSteps == {"reference", "swapout", "released", "swapin", "infer"}

\* Memory is taken and given back by whole models.
Multiple(n) == \E k \in Nat : n = k * Size

\* A reading is no less than what the service held at it.
MemoryInv ==
  /\ Multiple(held)
  /\ cur.left <= cur.gpu /\ Multiple(cur.left)
  /\ idle => baseline = 0

\* Neither adapter takes a step of the other; SwapServeLLM has one model.
PlaceInv ==
  /\ job.system = "llama-swap" => pc \notin SwapSteps
  /\ job.system = "swapservellm" => pc \notin LlamaSteps /\ at.model = 1

\* Rows are of the plan's models and cycles.
RowInv ==
  \A i \in DOMAIN rows :
    /\ rows[i].left <= rows[i].gpu /\ Multiple(rows[i].left)
    /\ rows[i].model \in Collected /\ rows[i].cycle \in 0..(plan.cycles - 1)

\* The row Infer records.
SwapRow(output, ok) ==
  [model |-> model, cycle |-> at.cycle, ok |-> ok, output |-> output, gpu |-> cur.gpu,
   listed |-> FALSE, gen |-> proc.gen, wakeGen |-> 0, sleepGen |-> 0, left |-> cur.left]

IInv == TypeOK /\ MemoryInv /\ PlaceInv /\ RowInv

-----------------------------------------------------------------------------
LEMMA FreshType == Fresh \in CycleType
  BY BoundsAssumption DEF Fresh, CycleType

LEMMA PlanFacts ==
  ASSUME TypeOK
  PROVE  /\ plan.models \in Seq(STRING) /\ plan.models # <<>> /\ plan.cycles \in Nat \ {0}
         /\ Len(plan.models) \in Nat \ {0} /\ DOMAIN plan.models = 1..Len(plan.models)
         /\ at.model \in DOMAIN plan.models /\ at.cycle \in 0..(plan.cycles - 1)
         /\ \A i \in DOMAIN plan.models : plan.models[i] \in ModelNames
         /\ model \in ModelNames
<1>1. plan \in Campaigns /\ at.model \in DOMAIN plan.models /\ at.cycle \in 0..(plan.cycles - 1)
  BY DEF TypeOK
<1>2. plan.models \in Seq(STRING) /\ plan.models # <<>> /\ plan.cycles \in Nat \ {0}
  BY <1>1, CampaignsAssumption
<1>3. Len(plan.models) \in Nat \ {0} /\ DOMAIN plan.models = 1..Len(plan.models)
  BY <1>2
<1>4. \A i \in DOMAIN plan.models : plan.models[i] \in ModelNames
  BY <1>1 DEF ModelNames
<1> QED
  BY <1>1, <1>2, <1>3, <1>4 DEF model

LEMMA EmitType ==
  ASSUME TypeOK, NEW event \in Line, Emit(event)
  PROVE  profile' \in Seq(Line) /\ pending' \in Seq(Line)
<1>1. Blank \in Line
  BY BoundsAssumption DEF Blank, Line
<1>2. profile \in Seq(Line) /\ pending \in Seq(Line)
  BY DEF TypeOK
<1>3. CASE profile' = Append(profile, event) /\ UNCHANGED pending
  BY <1>2, <1>3
<1>4. CASE profile' = profile \o <<Blank, event>> /\ UNCHANGED pending
  <2>1. <<Blank, event>> \in Seq(Line)
    BY <1>1
  <2> QED
    BY <1>2, <1>4, <2>1
<1>5. CASE pending' = Append(pending, event) /\ UNCHANGED profile
  BY <1>2, <1>5
<1>6. CASE UNCHANGED <<profile, pending>>
  BY <1>2, <1>6
<1>7. CASE pending' = pending \o <<Blank, event>> /\ UNCHANGED profile
  <2>1. <<Blank, event>> \in Seq(Line)
    BY <1>1
  <2> QED
    BY <1>2, <1>7, <2>1
<1> QED
  BY <1>3, <1>4, <1>5, <1>6, <1>7 DEF Emit

LEMMA EventType ==
  ASSUME NEW m \in ModelNames, NEW phase \in {"wake", "sleep_process"},
         NEW g \in 0..MaxStarts, NEW success \in BOOLEAN
  PROVE  Event(m, phase, g, success) \in Line
  BY DEF Event, Line

LEMMA RecordType ==
  ASSUME TypeOK, NEW row \in RowType, NEW models, models \in 1..Len(plan.models),
         NEW first \in Steps, Record(row, models, first), UNCHANGED plan
  PROVE  /\ rows' \in Seq(RowType) /\ cur' \in CycleType
         /\ at' \in [model : DOMAIN plan'.models, cycle : 0..(plan'.cycles - 1)]
         /\ pc' \in Steps
<1>1. rows' \in Seq(RowType)
  BY DEF TypeOK, Record
<1>2. cur' \in CycleType
  BY FreshType DEF Record
<1>3. at \in [model : DOMAIN plan.models, cycle : 0..(plan.cycles - 1)]
  BY DEF TypeOK
<1>4. at' \in [model : DOMAIN plan.models, cycle : 0..(plan.cycles - 1)]
  <2>1. CASE at.cycle + 1 < plan.cycles /\ at' = [at EXCEPT !.cycle = @ + 1]
    <3>1. at.cycle + 1 \in 0..(plan.cycles - 1)
      BY <2>1, PlanFacts
    <3> QED
      BY <2>1, <3>1, <1>3
  <2>2. CASE at.model < models /\ at' = [model |-> at.model + 1, cycle |-> 0]
    <3>1. at.model + 1 \in DOMAIN plan.models /\ 0 \in 0..(plan.cycles - 1)
      BY <2>2, PlanFacts
    <3> QED
      BY <2>2, <3>1
  <2>3. CASE at' = at
    BY <2>3, <1>3
  <2> QED
    BY <2>1, <2>2, <2>3 DEF Record
<1>5. pc' \in Steps
  BY DEF Record, Steps
<1> QED
  BY <1>1, <1>2, <1>4, <1>5

\* The two lines a row is built from.
LEMMA RowLines ==
  ASSUME TypeOK, ReadProfile
  PROVE  \E w, s \in DOMAIN profile :
           /\ OneEach(w, s)
           /\ Record(LlamaRow(profile[w].gen, profile[s].gen), Len(plan.models), "request")
<1>1. NewEvents \subseteq DOMAIN profile
  <2>1. offset \in Nat /\ profile \in Seq(Line)
    BY DEF TypeOK
  <2>2. DOMAIN profile = 1..Len(profile) /\ Len(profile) \in Nat
    BY <2>1
  <2> QED
    BY <2>1, <2>2 DEF NewEvents
<1>2. Own("wake") \subseteq DOMAIN profile /\ Own("sleep_process") \subseteq DOMAIN profile
  BY <1>1 DEF Own
<1>3. PICK w \in Own("wake"), s \in Own("sleep_process") :
        /\ OneEach(w, s)
        /\ Record(LlamaRow(profile[w].gen, profile[s].gen), Len(plan.models), "request")
  BY DEF ReadProfile
<1> QED
  BY <1>2, <1>3

LEMMA NewEventsType == TypeOK => Cardinality(NewEvents) \in Nat
<1> SUFFICES ASSUME TypeOK PROVE Cardinality(NewEvents) \in Nat
  OBVIOUS
<1>1. offset + 1 \in Int /\ Len(profile) \in Int
  BY DEF TypeOK
<1>2. IsFiniteSet((offset + 1)..Len(profile))
  BY <1>1, FS_Interval
<1>3. IsFiniteSet(NewEvents)
  BY <1>2, FS_Subset DEF NewEvents
<1> QED
  BY <1>3, FS_CardinalityType

LEMMA TypeInit == Init => TypeOK
<1> SUFFICES ASSUME Init PROVE TypeOK
  OBVIOUS
<1>1. plan \in Campaigns /\ plan.models \in Seq(STRING) /\ plan.models # <<>>
      /\ plan.cycles \in Nat \ {0}
  BY CampaignsAssumption DEF Init
<1>2. 1 \in DOMAIN plan.models /\ 0 \in 0..(plan.cycles - 1)
  BY <1>1
<1>3. \A i \in DOMAIN plan.models : plan.models[i] \in ModelNames
  BY <1>1 DEF ModelNames
<1>4. at \in [model : DOMAIN plan.models, cycle : 0..(plan.cycles - 1)]
  BY <1>2 DEF Init
<1>5. cur \in CycleType /\ reference \in Outputs
  BY FreshType DEF Init, CycleType
<1>6. rows \in Seq(RowType) /\ pending \in Seq(Line)
  BY DEF Init
<1>7. /\ job \in [system : {"llama-swap", "swapservellm"}, profiled : BOOLEAN,
                  reused : BOOLEAN, quirks : Services \cup {{}}]
      /\ pc \in Steps
  <2>1. CASE InitLlama
    BY <2>1 DEF InitLlama, Steps
  <2>2. CASE InitSwapServe
    BY <2>2 DEF InitSwapServe, Steps
  <2> QED
    BY <2>1, <2>2 DEF Init
<1>8. /\ proc \in [model : ModelNames, gen : 0..MaxStarts, state : States] /\ held \in Nat
      /\ profile \in Seq(Line)
  <2> DEFINE Wake(m) == Event(m, "wake", 0, TRUE)
             Slept(m) == Event(m, "sleep_process", 0, TRUE)
             Loaded(m) == [model |-> m, gen |-> 0, state |-> "ready"]
             Cold(m) == [model |-> m, gen |-> 0, state |-> "stopped"]
  <2>1. ASSUME NEW m \in ModelNames
        PROVE  /\ <<>> \in Seq(Line) /\ <<Wake(m)>> \in Seq(Line)
               /\ <<Wake(m), Slept(m)>> \in Seq(Line)
               /\ Loaded(m) \in [model : ModelNames, gen : 0..MaxStarts, state : States]
               /\ Cold(m) \in [model : ModelNames, gen : 0..MaxStarts, state : States]
    <3>1. 0 \in 0..MaxStarts
      BY BoundsAssumption
    <3>2. Wake(m) \in Line /\ Slept(m) \in Line
      BY EventType, <3>1
    <3> HIDE DEF Wake, Slept
    <3> QED
      BY <3>1, <3>2 DEF States
  <2>2. plan.models[1] \in ModelNames
    BY <1>2, <1>3
  <2>3. Size \in Nat
    BY BoundsAssumption
  <2>4. CASE InitLlama
    <3>1. CASE /\ proc = Cold(plan.models[1]) /\ held = 0
               /\ profile \in {<<>>, <<Wake(plan.models[1]), Slept(plan.models[1])>>}
      BY <3>1, <2>1, <2>2
    <3>2. ASSUME NEW m \in ModelNames, proc = Loaded(m), held = Size,
                 profile \in {<<>>, <<Wake(m)>>}
          PROVE  /\ proc \in [model : ModelNames, gen : 0..MaxStarts, state : States]
                 /\ held \in Nat /\ profile \in Seq(Line)
      BY <3>2, <2>1, <2>3
    <3> QED
      BY <2>4, <3>1, <3>2, <1>3 DEF InitLlama
  <2>5. CASE InitSwapServe
    BY <2>5, <2>1, <2>2, <2>3 DEF InitSwapServe
  <2> QED
    BY <2>4, <2>5 DEF Init
<1>9. baseline \in Nat /\ offset \in Nat /\ exit \in {0, 1, 2} /\ idle \in BOOLEAN
  BY DEF Init
<1> QED
  BY <1>1, <1>4, <1>5, <1>6, <1>7, <1>8, <1>9 DEF TypeOK

LEMMA ServiceTypes == TypeOK /\ Service => TypeOK'
<1> SUFFICES ASSUME TypeOK, Service PROVE TypeOK'
  OBVIOUS
<1> USE DEF TypeOK
<1>1. Size \in Nat /\ MaxStarts \in Nat
  BY BoundsAssumption
<1>2. CASE ServiceStarts
  <2>1. proc.gen + 1 \in 0..MaxStarts /\ model \in ModelNames
    BY <1>1, <1>2, PlanFacts DEF ServiceStarts
  <2>2. profile' \in Seq(Line) /\ pending' \in Seq(Line)
    BY <1>2, <2>1, EmitType, EventType DEF ServiceStarts
  <2>3. proc' \in [model : ModelNames, gen : 0..MaxStarts, state : States] /\ held' \in Nat
    BY <1>1, <1>2, <2>1 DEF ServiceStarts, States
  <2> QED
    BY <1>2, <2>2, <2>3 DEF ServiceStarts, adapter
<1>3. CASE ServiceStartFails
  <2>1. proc.gen + 1 \in 0..MaxStarts /\ model \in ModelNames
    BY <1>1, <1>3, PlanFacts DEF ServiceStartFails
  <2>2. profile' \in Seq(Line) /\ pending' \in Seq(Line)
    BY <1>3, <2>1, EmitType, EventType DEF ServiceStartFails
  <2>3. proc' \in [model : ModelNames, gen : 0..MaxStarts, state : States]
    BY <1>3, <2>1 DEF ServiceStartFails, States
  <2> QED
    BY <1>3, <2>2, <2>3 DEF ServiceStartFails, adapter, Steps
<1>4. CASE ServiceStopped
  <2>1. PICK success \in BOOLEAN : Emit(Event(proc.model, "sleep_process", proc.gen, success))
    BY <1>4 DEF ServiceStopped
  <2>2. profile' \in Seq(Line) /\ pending' \in Seq(Line)
    BY <2>1, EmitType, EventType
  <2>3. proc' \in [model : ModelNames, gen : 0..MaxStarts, state : States]
    BY <1>4 DEF ServiceStopped, States
  <2> QED
    BY <1>4, <2>2, <2>3 DEF ServiceStopped, adapter
<1>5. CASE ServiceEvicts \/ ServiceCrashes
  <2>1. proc' \in [model : ModelNames, gen : 0..MaxStarts, state : States]
    BY <1>5 DEF ServiceEvicts, ServiceCrashes, States
  <2> QED
    BY <1>5, <2>1 DEF ServiceEvicts, ServiceCrashes, adapter
<1>6. CASE ServiceReleases
  BY <1>1, <1>6 DEF ServiceReleases, adapter
<1>7. CASE ProfileWritten
  <2>1. profile' \in Seq(Line) /\ pending' \in Seq(Line)
    BY <1>7 DEF ProfileWritten
  <2> QED
    BY <1>7, <2>1 DEF ProfileWritten, adapter
<1> QED
  BY <1>2, <1>3, <1>4, <1>5, <1>6, <1>7 DEF Service

LEMMA LlamaTypes ==
  TypeOK /\ (Baseline \/ Request \/ Unload \/ PollRunning \/ PollMemory \/ PollTimeout) => TypeOK'
<1> SUFFICES ASSUME TypeOK,
                    Baseline \/ Request \/ Unload \/ PollRunning \/ PollMemory \/ PollTimeout
             PROVE  TypeOK'
  OBVIOUS
<1> USE DEF TypeOK, Steps
<1>1. CASE Baseline
  BY <1>1 DEF Baseline, GpuUsed, service
<1>2. CASE Request
  <2>1. proc.gen \in Nat
    BY BoundsAssumption
  <2>2. cur' \in CycleType
    <3> HIDE DEF TypeOK, Steps
    <3>1. ASSUME NEW output \in Outputs
          PROVE  [Fresh EXCEPT !.wake = TRUE, !.output = output, !.gen = proc.gen] \in CycleType
      BY <2>1, FreshType DEF CycleType
    <3> QED
      BY <1>2, <3>1, FreshType DEF Request
  <2> QED
    BY <1>2, <2>2 DEF Request, service
<1>3. CASE Unload
  <2>1. cur' \in CycleType
    <3>1. cur \in CycleType
      OBVIOUS
    <3> HIDE DEF TypeOK, Steps
    <3>2. PICK status \in BOOLEAN : cur' = [cur EXCEPT !.status = status]
      BY <1>3 DEF Unload
    <3> QED
      BY <3>1, <3>2 DEF CycleType
  <2>2. proc' \in [model : ModelNames, gen : 0..MaxStarts, state : States]
    BY <1>3 DEF Unload, States
  <2> QED
    BY <1>3, <2>1, <2>2 DEF Unload
<1>4. CASE PollRunning
  <2>1. cur.polls < MaxPolls
    BY <1>4 DEF PollRunning
  <2>2. cur.polls \in 0..MaxPolls
    BY DEF CycleType
  <2>3. cur.polls + 1 \in 0..MaxPolls
    BY <2>1, <2>2, BoundsAssumption
  <2>4. PICK listed, active \in BOOLEAN :
          cur' = [cur EXCEPT !.polls = @ + 1, !.listed = listed, !.active = active]
    BY <1>4 DEF PollRunning
  <2>5. cur' \in CycleType
    BY <2>3, <2>4 DEF CycleType
  <2> QED
    BY <1>4, <2>5 DEF PollRunning, service
<1>5. CASE PollMemory
  <2>1. PICK gpu \in GpuUsed :
          cur' = [cur EXCEPT !.active = FALSE, !.gpu = gpu, !.left = held,
                             !.slept = ~cur.active /\ gpu <= Threshold]
    BY <1>5 DEF PollMemory
  <2> DEFINE slept == ~cur.active /\ gpu <= Threshold
  <2>2. slept \in BOOLEAN
    OBVIOUS
  <2>3. gpu \in Nat
    BY DEF GpuUsed
  <2>4. cur' = [cur EXCEPT !.active = FALSE, !.gpu = gpu, !.left = held, !.slept = slept]
    BY <2>1
  <2> HIDE DEF slept
  <2>5. cur' \in CycleType
    BY <2>2, <2>3, <2>4 DEF CycleType
  <2>6. pc' \in Steps
    BY <1>5 DEF PollMemory
  <2> QED
    BY <1>5, <2>5, <2>6 DEF PollMemory, service
<1>6. CASE PollTimeout
  BY <1>6 DEF PollTimeout, adapter, service
<1> QED
  BY <1>1, <1>2, <1>3, <1>4, <1>5, <1>6

LEMMA LlamaRowType ==
  ASSUME TypeOK, NEW w \in Nat, NEW s \in Nat PROVE LlamaRow(w, s) \in RowType
<1> DEFINE ok == cur.wake /\ cur.status /\ cur.slept
<1>1. model \in ModelNames /\ at.cycle \in Nat
  BY PlanFacts
<1>2. ok \in BOOLEAN
  OBVIOUS
<1>3. /\ cur.output \in Outputs /\ cur.gpu \in Nat /\ cur.listed \in BOOLEAN
      /\ cur.gen \in Nat /\ cur.left \in Nat
  BY DEF TypeOK, CycleType
<1>4. LlamaRow(w, s) = [model |-> model, cycle |-> at.cycle, ok |-> ok, output |-> cur.output,
                       gpu |-> cur.gpu, listed |-> cur.listed, gen |-> cur.gen,
                       wakeGen |-> w, sleepGen |-> s, left |-> cur.left]
  BY DEF LlamaRow
<1> HIDE DEF ok
<1> QED
  BY <1>1, <1>2, <1>3, <1>4 DEF RowType

LEMMA SwapRowType ==
  ASSUME TypeOK, NEW output \in Outputs, NEW ok \in BOOLEAN PROVE SwapRow(output, ok) \in RowType
<1>1. model \in ModelNames /\ at.cycle \in Nat
  BY PlanFacts
<1>2. cur.gpu \in Nat /\ cur.left \in Nat /\ proc.gen \in Nat
  BY BoundsAssumption DEF TypeOK, CycleType
<1> QED
  BY <1>1, <1>2 DEF RowType, SwapRow

LEMMA ProfileTypes ==
  TypeOK /\ (ReadProfile \/ SkipProfile \/ Lost) => TypeOK'
<1> SUFFICES ASSUME TypeOK, ReadProfile \/ SkipProfile \/ Lost PROVE TypeOK'
  OBVIOUS
<1>1. Len(plan.models) \in 1..Len(plan.models) /\ "request" \in Steps
  BY PlanFacts DEF Steps
<1>2. ASSUME NEW w \in Nat, NEW s \in Nat PROVE LlamaRow(w, s) \in RowType
  BY LlamaRowType
<1>3. CASE ReadProfile
  <2>1. PICK w \in DOMAIN profile, s \in DOMAIN profile :
          Record(LlamaRow(profile[w].gen, profile[s].gen), Len(plan.models), "request")
    BY <1>3, RowLines
  <2>2. profile[w] \in Line /\ profile[s] \in Line
    BY DEF TypeOK
  <2>3. profile[w].gen \in Nat /\ profile[s].gen \in Nat
    BY <2>2, BoundsAssumption DEF Line
  <2>4. UNCHANGED plan
    BY <1>3 DEF ReadProfile
  <2>5. LlamaRow(profile[w].gen, profile[s].gen) \in RowType
    BY <1>2, <2>3
  <2>6. /\ rows' \in Seq(RowType) /\ cur' \in CycleType /\ pc' \in Steps
        /\ at' \in [model : DOMAIN plan'.models, cycle : 0..(plan'.cycles - 1)]
    BY <1>1, <2>1, <2>4, <2>5, RecordType
  <2>7. offset' \in Nat
    BY SMTT(30), <1>3, NewEventsType DEF ReadProfile, TypeOK
  <2> QED
    BY <1>3, <2>6, <2>7 DEF ReadProfile, service, TypeOK
<1>4. CASE SkipProfile
  <2>1. LlamaRow(0, 0) \in RowType /\ UNCHANGED plan
    BY <1>2, <1>4 DEF SkipProfile
  <2>2. Record(LlamaRow(0, 0), Len(plan.models), "request")
    BY <1>4 DEF SkipProfile
  <2>3. /\ rows' \in Seq(RowType) /\ cur' \in CycleType /\ pc' \in Steps
        /\ at' \in [model : DOMAIN plan'.models, cycle : 0..(plan'.cycles - 1)]
    BY <1>1, <2>1, <2>2, RecordType
  <2> QED
    BY <1>4, <2>3 DEF SkipProfile, service, TypeOK
<1>5. CASE Lost
  <2>1. /\ at' \in [model : DOMAIN plan.models, cycle : 0..(plan.cycles - 1)]
        /\ rows' \in Seq(RowType)
    BY <1>5, PlanFacts DEF Lost
  <2>2. cur' \in CycleType /\ reference' \in Outputs
    BY <1>5, FreshType DEF Lost, CycleType
  <2> QED
    BY <1>5, <2>1, <2>2 DEF Lost, service, TypeOK
<1> QED
  BY <1>3, <1>4, <1>5

LEMMA SwapServeTypes ==
  TypeOK /\ (Reference \/ Swapout \/ ReleasedMemory \/ Swapin \/ Infer \/ Summary) => TypeOK'
<1> SUFFICES ASSUME TypeOK,
                    Reference \/ Swapout \/ ReleasedMemory \/ Swapin \/ Infer \/ Summary
             PROVE  TypeOK'
  OBVIOUS
<1>1. CASE Reference
  BY <1>1 DEF Reference, service, TypeOK, Steps
<1>2. CASE Swapout
  <2>1. proc' \in [model : ModelNames, gen : 0..MaxStarts, state : States]
    BY <1>2 DEF Swapout, States, TypeOK
  <2> QED
    BY <1>2, <2>1 DEF Swapout, adapter, TypeOK, Steps
<1>3. CASE ReleasedMemory
  <2>1. PICK gpu \in GpuUsed : cur' = [cur EXCEPT !.gpu = gpu, !.left = held]
    BY <1>3 DEF ReleasedMemory
  <2>2. gpu \in Nat /\ held \in Nat /\ cur \in CycleType
    BY DEF GpuUsed, TypeOK
  <2>3. cur' \in CycleType
    BY <2>1, <2>2 DEF CycleType
  <2> QED
    BY <1>3, <2>3 DEF ReleasedMemory, service, TypeOK, Steps
<1>4. CASE Swapin
  <2>1. proc' \in [model : ModelNames, gen : 0..MaxStarts, state : States]
    BY <1>4 DEF Swapin, States, TypeOK
  <2>2. held' \in Nat
    BY <1>4, BoundsAssumption DEF Swapin, TypeOK
  <2> QED
    BY <1>4, <2>1, <2>2 DEF Swapin, adapter, TypeOK, Steps
<1>5. CASE Infer
  <2>1. PICK output \in Outputs : Record(SwapRow(output, output = reference), 1, "swapout")
    BY <1>5 DEF Infer, SwapRow
  <2>2. 1 \in 1..Len(plan.models)
    BY PlanFacts
  <2>6. SwapRow(output, output = reference) \in RowType
    BY SwapRowType
  <2>7. UNCHANGED plan /\ "swapout" \in Steps
    BY <1>5 DEF Infer, Steps
  <2>8. /\ rows' \in Seq(RowType) /\ cur' \in CycleType /\ pc' \in Steps
        /\ at' \in [model : DOMAIN plan'.models, cycle : 0..(plan'.cycles - 1)]
    BY <2>1, <2>2, <2>6, <2>7, RecordType
  <2> QED
    BY <1>5, <2>8 DEF Infer, service, TypeOK
<1>6. CASE Summary
  BY <1>6 DEF Summary, service, TypeOK
<1> QED
  BY <1>1, <1>2, <1>3, <1>4, <1>5, <1>6

(* Types: adapters, service and profile, whatever the campaign.            *)
LEMMA TypeStep == TypeOK /\ [Next]_vars => TypeOK'
<1> SUFFICES ASSUME TypeOK, [Next]_vars PROVE TypeOK'
  OBVIOUS
<1>1. CASE Service
  BY <1>1, ServiceTypes
<1>2. CASE Adapter
  BY <1>2, LlamaTypes, ProfileTypes, SwapServeTypes DEF Adapter, Abort, RejectProfile
<1>3. CASE UNCHANGED vars
  BY <1>3 DEF vars, adapter, service, TypeOK
<1> QED
  BY <1>1, <1>2, <1>3 DEF Next, Ended

(* Every variable keeps its type, for any campaign, memory and bounds.     *)
THEOREM TypeCorrect == Spec => []TypeOK
<1> QED
  BY TypeInit, TypeStep, PTL DEF Spec

-----------------------------------------------------------------------------
(* Multiples of a model's memory. *)

LEMMA MultipleZero == Multiple(0)
<1>1. 0 = 0 * Size
  BY BoundsAssumption
<1> QED
  BY <1>1 DEF Multiple

LEMMA MultipleMore ==
  ASSUME NEW n \in Nat, Multiple(n) PROVE Multiple(n + Size)
<1>1. PICK k \in Nat : n = k * Size
  BY DEF Multiple
<1>2. n + Size = (k + 1) * Size
  BY <1>1, BoundsAssumption
<1> QED
  BY <1>2 DEF Multiple

LEMMA MultipleLess ==
  ASSUME NEW n \in Nat, Multiple(n), n >= Size PROVE Multiple(n - Size)
<1>1. PICK k \in Nat : n = k * Size
  BY DEF Multiple
<1>2. k # 0
  BY <1>1, BoundsAssumption
<1>3. k - 1 \in Nat /\ n - Size = (k - 1) * Size
  BY <1>1, <1>2, BoundsAssumption
<1> QED
  BY <1>3 DEF Multiple

LEMMA MultipleSmall ==
  ASSUME NEW n \in Nat, Multiple(n), n <= 1 PROVE n = 0
<1>1. PICK k \in Nat : n = k * Size
  BY DEF Multiple
<1>2. CASE k = 0
  BY <1>1, <1>2, BoundsAssumption
<1>3. CASE k # 0
  <2>1. k - 1 \in Nat /\ n = (k - 1) * Size + Size
    BY <1>1, <1>3, BoundsAssumption
  <2>2. (k - 1) * Size >= 0
    BY <2>1, BoundsAssumption
  <2>3. (k - 1) * Size \in Nat
    BY <2>1, BoundsAssumption
  <2> QED
    BY <2>1, <2>2, <2>3, BoundsAssumption
<1> QED
  BY <1>2, <1>3

LEMMA Initially == Init => IInv
<1> SUFFICES ASSUME Init PROVE IInv
  OBVIOUS
<1>1. TypeOK
  BY TypeInit
<1>2. Multiple(0) /\ Multiple(Size)
  <2>1. 0 \in Nat /\ 0 + Size = Size
    BY BoundsAssumption
  <2> QED
    BY <2>1, MultipleZero, MultipleMore
<1>3. MemoryInv
  <2>1. held \in {0, Size}
    BY DEF Init, InitLlama, InitSwapServe
  <2>2. cur.left = 0 /\ cur.gpu = 0
    BY DEF Init, Fresh
  <2> QED
    BY <1>2, <2>1, <2>2 DEF MemoryInv, Init
<1>4. PlaceInv
  <2>1. CASE InitLlama
    BY <2>1 DEF InitLlama, PlaceInv, SwapSteps
  <2>2. CASE InitSwapServe
    BY <2>2 DEF Init, InitSwapServe, PlaceInv, LlamaSteps
  <2> QED
    BY <2>1, <2>2 DEF Init
<1>5. RowInv
  BY DEF Init, RowInv
<1> QED
  BY <1>1, <1>3, <1>4, <1>5 DEF IInv

(* A row of the model and the cycle in progress, with the last reading.     *)
LEMMA RecordRow ==
  ASSUME IInv, NEW row \in RowType, NEW models, NEW first,
         Record(row, models, first), UNCHANGED <<job, plan>>,
         row.model = model, row.cycle = at.cycle, row.left = cur.left, row.gpu = cur.gpu
  PROVE  RowInv'
<1>1. rows \in Seq(RowType) /\ rows' = Append(rows, row)
  BY DEF IInv, TypeOK, Record
<1>2. row.left <= row.gpu /\ Multiple(row.left)
  BY DEF IInv, MemoryInv
<1>3. row.model \in Collected /\ row.cycle \in 0..(plan.cycles - 1)
  BY PlanFacts DEF IInv, TypeOK, PlaceInv, Collected, model
<1>4. \A i \in DOMAIN rows' : (i \in DOMAIN rows /\ rows'[i] = rows[i]) \/ rows'[i] = row
  BY <1>1
<1>5. Collected' = Collected /\ plan' = plan
  BY DEF Collected
<1>6. ASSUME NEW i \in DOMAIN rows'
      PROVE  /\ rows'[i].left <= rows'[i].gpu /\ Multiple(rows'[i].left)
             /\ rows'[i].model \in Collected /\ rows'[i].cycle \in 0..(plan.cycles - 1)
  <2>1. CASE i \in DOMAIN rows /\ rows'[i] = rows[i]
    BY <2>1 DEF IInv, RowInv
  <2>2. CASE rows'[i] = row
    BY <2>2, <1>2, <1>3
  <2> QED
    BY <2>1, <2>2, <1>4
<1> QED
  BY <1>5, <1>6 DEF RowInv, Multiple

LEMMA RowsKept ==
  ASSUME RowInv, UNCHANGED <<job, plan, rows>> PROVE RowInv'
<1>1. Collected' = Collected
  BY DEF Collected
<1> QED
  BY <1>1 DEF RowInv, Multiple

LEMMA MemoryStep == IInv /\ [Next]_vars => MemoryInv'
<1> SUFFICES ASSUME IInv, [Next]_vars PROVE MemoryInv'
  OBVIOUS
<1>1. /\ TypeOK /\ held \in Nat /\ Multiple(held) /\ cur.left <= cur.gpu /\ Multiple(cur.left)
      /\ (idle => baseline = 0) /\ cur \in CycleType
  BY DEF IInv, MemoryInv, TypeOK
<1>2. ASSUME cur'.left = cur.left, cur'.gpu = cur.gpu,
             held' = held, UNCHANGED <<idle, baseline>>
      PROVE  MemoryInv'
  BY <1>1, <1>2 DEF MemoryInv, Multiple
<1>3. ASSUME cur'.left = 0, cur'.gpu = 0, held' = held, idle' => baseline' = 0
      PROVE  MemoryInv'
  BY <1>1, <1>3, MultipleZero DEF MemoryInv, Multiple
<1>4. ASSUME Multiple(held'), UNCHANGED <<cur, idle, baseline>> PROVE MemoryInv'
  BY <1>1, <1>4 DEF MemoryInv, Multiple
<1>5. ASSUME NEW gpu \in GpuUsed, cur'.gpu = gpu, cur'.left = held, held' = held,
             UNCHANGED <<idle, baseline>>
      PROVE  MemoryInv'
  BY <1>1, <1>5 DEF MemoryInv, Multiple, GpuUsed
<1>6. Fresh.left = 0 /\ Fresh.gpu = 0
  BY DEF Fresh
<1>7. CASE Service
  <2>1. UNCHANGED <<cur, idle, baseline>>
    BY <1>7 DEF Service, ServiceStarts, ServiceStartFails, ServiceEvicts, ServiceStopped,
                ServiceCrashes, ServiceReleases, ProfileWritten, adapter
  <2>2. Multiple(held')
    <3>1. CASE ServiceStarts
      BY <1>1, <3>1, MultipleMore DEF ServiceStarts
    <3>2. CASE ServiceReleases
      <4>1. held >= Size /\ held' = held - Size
        BY <1>1, <3>2, BoundsAssumption DEF ServiceReleases
      <4> QED
        BY <1>1, <4>1, MultipleLess
    <3>3. CASE held' = held
      BY <1>1, <3>3
    <3> QED
      BY <1>7, <3>1, <3>2, <3>3 DEF Service, ServiceStartFails, ServiceEvicts, ServiceStopped,
                                    ServiceCrashes, ProfileWritten
  <2> QED
    BY <1>4, <2>1, <2>2
<1>8. CASE Baseline
  <2>1. UNCHANGED <<cur, held>> /\ (idle' => baseline' = 0)
    BY <1>8 DEF Baseline, service
  <2> QED
    BY <1>1, <2>1 DEF MemoryInv, Multiple
<1>9. CASE Request
  <2>1. \/ cur' = Fresh
        \/ \E output \in Outputs :
             cur' = [Fresh EXCEPT !.wake = TRUE, !.output = output, !.gen = proc.gen]
    BY <1>9 DEF Request
  <2>2. cur'.left = Fresh.left /\ cur'.gpu = Fresh.gpu
    BY <2>1, FreshType DEF CycleType
  <2> QED
    BY <1>1, <1>3, <1>6, <1>9, <2>2 DEF Request, service
<1>10. CASE Unload
  <2>1. cur'.left = cur.left /\ cur'.gpu = cur.gpu
    BY <1>1, <1>10 DEF Unload, CycleType
  <2> QED
    BY <1>2, <1>10, <2>1 DEF Unload
<1>11. CASE PollRunning
  <2>1. cur'.left = cur.left /\ cur'.gpu = cur.gpu
    BY <1>1, <1>11 DEF PollRunning, CycleType
  <2> QED
    BY <1>2, <1>11, <2>1 DEF PollRunning, service
<1>12. CASE PollMemory
  <2>1. PICK gpu \in GpuUsed : cur'.gpu = gpu /\ cur'.left = held
    BY <1>1, <1>12 DEF PollMemory, CycleType
  <2> QED
    BY <1>5, <1>12, <2>1 DEF PollMemory, service
<1>13. CASE ReleasedMemory
  <2>1. PICK gpu \in GpuUsed : cur'.gpu = gpu /\ cur'.left = held
    BY <1>1, <1>13 DEF ReleasedMemory, CycleType
  <2> QED
    BY <1>5, <1>13, <2>1 DEF ReleasedMemory, service
<1>14. CASE Swapin
  <2>1. Multiple(held')
    BY <1>1, <1>14, MultipleMore DEF Swapin
  <2> QED
    BY <1>4, <1>14, <2>1 DEF Swapin, adapter
<1>15. CASE ReadProfile \/ SkipProfile \/ Infer
  <2>1. cur' = Fresh /\ UNCHANGED <<held, idle, baseline>>
    BY <1>15 DEF ReadProfile, SkipProfile, Infer, Record, service
  <2> QED
    BY <1>1, <1>3, <1>6, <2>1
<1>16. CASE Lost
  BY <1>3, <1>6, <1>16 DEF Lost, service
<1>17. CASE PollTimeout \/ Reference \/ Swapout \/ Summary \/ UNCHANGED vars
  <2>1. UNCHANGED <<cur, held, idle, baseline>>
    BY <1>17 DEF PollTimeout, Reference, Swapout, Summary, vars, adapter, service
  <2> QED
    BY <1>2, <2>1
<1> QED
  BY <1>7, <1>8, <1>9, <1>10, <1>11, <1>12, <1>13, <1>14, <1>15, <1>16, <1>17
  DEF Next, Adapter, Abort, RejectProfile, Ended

LEMMA RowStep == IInv /\ [Next]_vars => RowInv'
<1> SUFFICES ASSUME IInv, [Next]_vars PROVE RowInv'
  OBVIOUS
<1>1. TypeOK /\ RowInv
  BY DEF IInv
<1>2. CASE UNCHANGED <<job, plan, rows>>
  BY <1>1, <1>2, RowsKept
<1>3. ASSUME NEW w \in Nat, NEW s \in Nat, Record(LlamaRow(w, s), Len(plan.models), "request"),
             UNCHANGED <<job, plan>>
      PROVE  RowInv'
  <2>1. LlamaRow(w, s) \in RowType
    BY <1>1, LlamaRowType
  <2>2. /\ LlamaRow(w, s).model = model /\ LlamaRow(w, s).cycle = at.cycle
        /\ LlamaRow(w, s).left = cur.left /\ LlamaRow(w, s).gpu = cur.gpu
    BY DEF LlamaRow
  <2> QED
    BY <1>3, <2>1, <2>2, RecordRow
<1>4. CASE ReadProfile
  <2>1. PICK w \in DOMAIN profile, s \in DOMAIN profile :
          Record(LlamaRow(profile[w].gen, profile[s].gen), Len(plan.models), "request")
    BY <1>4, RowLines DEF IInv
  <2>2. profile[w] \in Line /\ profile[s] \in Line
    BY <1>1 DEF TypeOK
  <2>3. profile[w].gen \in Nat /\ profile[s].gen \in Nat
    BY <2>2, BoundsAssumption DEF Line
  <2> QED
    BY <1>3, <1>4, <2>1, <2>3 DEF ReadProfile
<1>5. CASE SkipProfile
  BY <1>3, <1>5 DEF SkipProfile
<1>6. CASE Infer
  <2>1. PICK output \in Outputs : Record(SwapRow(output, output = reference), 1, "swapout")
    BY <1>6 DEF Infer, SwapRow
  <2>2. SwapRow(output, output = reference) \in RowType
    BY <1>1, SwapRowType
  <2>3. /\ SwapRow(output, output = reference).model = model
        /\ SwapRow(output, output = reference).cycle = at.cycle
        /\ SwapRow(output, output = reference).left = cur.left
        /\ SwapRow(output, output = reference).gpu = cur.gpu
    BY DEF SwapRow
  <2> QED
    BY <1>6, <2>1, <2>2, <2>3, RecordRow DEF Infer
<1>7. CASE Lost
  BY <1>7 DEF Lost, RowInv
<1> QED
  BY <1>2, <1>4, <1>5, <1>6, <1>7
  DEF Next, Service, ServiceStarts, ServiceStartFails, ServiceEvicts, ServiceStopped,
      ServiceCrashes, ServiceReleases, ProfileWritten, Adapter, Baseline, Request, Unload,
      PollRunning, PollMemory, PollTimeout, RejectProfile, Reference, Swapout, ReleasedMemory,
      Swapin, Summary, Abort, Ended, vars, adapter

LEMMA PlaceStep == IInv /\ [Next]_vars => PlaceInv'
<1> SUFFICES ASSUME IInv, [Next]_vars PROVE PlaceInv'
  OBVIOUS
<1> USE DEF PlaceInv, LlamaSteps, SwapSteps
<1>1. PlaceInv /\ TypeOK
  BY DEF IInv
<1>2. CASE UNCHANGED <<job, at, pc>>
  BY <1>1, <1>2
<1>3. CASE Baseline \/ Request \/ Unload \/ PollRunning \/ PollMemory \/ PollTimeout
           \/ ServiceStartFails
  BY <1>1, <1>3 DEF Baseline, Request, Unload, PollRunning, PollMemory, PollTimeout,
                    ServiceStartFails, adapter
<1>4. CASE ReadProfile \/ SkipProfile
  <2>1. job.system # "swapservellm" /\ job' = job
    BY <1>1, <1>4 DEF ReadProfile, SkipProfile
  <2>2. pc' \in {"request", "summary"}
    BY <1>4 DEF ReadProfile, SkipProfile, Record
  <2> QED
    BY <2>1, <2>2
<1>5. CASE Reference \/ Swapout \/ ReleasedMemory \/ Swapin \/ Summary
  BY <1>1, <1>5 DEF Reference, Swapout, ReleasedMemory, Swapin, Summary, adapter
<1>6. CASE Infer
  <2>1. job.system # "llama-swap" /\ job' = job
    BY <1>1, <1>6 DEF Infer
  <2>2. pc' \in {"swapout", "summary"}
    BY <1>6 DEF Infer, Record
  <2>3. at.model = 1
    BY <1>1, <2>1 DEF TypeOK
  <2>4. at'.model = 1
    BY <1>1, <1>6, <2>3 DEF Infer, Record, TypeOK
  <2> QED
    BY <2>1, <2>2, <2>4
<1>7. CASE Lost
  BY <1>7 DEF Lost
<1> QED
  BY <1>2, <1>3, <1>4, <1>5, <1>6, <1>7
  DEF Next, Service, ServiceStarts, ServiceEvicts, ServiceStopped, ServiceCrashes,
      ServiceReleases, ProfileWritten, Adapter, RejectProfile, Abort, Ended, vars, adapter

LEMMA Invariance == Spec => []IInv
<1>1. IInv /\ [Next]_vars => IInv'
  BY TypeStep, MemoryStep, PlaceStep, RowStep DEF IInv
<1> QED
  BY <1>1, Initially, PTL DEF Spec

(* Whatever the campaign and the sizes: the rows of an accepted collection  *)
(* are all its cycles, and none was measured while the service held a       *)
(* model; for llama-swap when the first reading found nothing in memory.    *)
THEOREM AcceptedCyclesSleptHolds == Spec => []AcceptedCyclesSlept
<1>1. IInv => AcceptedCyclesSlept
  <2> SUFFICES ASSUME IInv, Accepted, job.system = "llama-swap" => idle
               PROVE  /\ \A m \in Collected, c \in 0..(plan.cycles - 1) :
                           \E i \in DOMAIN rows : rows[i].model = m /\ rows[i].cycle = c
                      /\ \A i \in DOMAIN rows : rows[i].left = 0
    BY DEF AcceptedCyclesSlept
  <2>1. TypeOK /\ MemoryInv /\ RowInv /\ plan.cycles \in Nat \ {0}
    BY PlanFacts DEF IInv
  <2>2. ASSUME NEW m \in Collected, NEW c \in 0..(plan.cycles - 1)
        PROVE  \E i \in DOMAIN rows : rows[i].model = m /\ rows[i].cycle = c
    <3> DEFINE found == {rows[i].cycle : i \in RowsOf(m)}
    <3>1. found \subseteq 0..(plan.cycles - 1)
      <4> SUFFICES ASSUME NEW i \in RowsOf(m) PROVE rows[i].cycle \in 0..(plan.cycles - 1)
        OBVIOUS
      <4>1. i \in DOMAIN rows
        BY DEF RowsOf
      <4> QED
        BY <2>1, <4>1 DEF RowInv
    <3>2. /\ IsFiniteSet(0..(plan.cycles - 1))
          /\ Cardinality(0..(plan.cycles - 1)) = plan.cycles
      <4>1. 0 \in Int /\ plan.cycles - 1 \in Int /\ ~(0 > plan.cycles - 1)
            /\ (plan.cycles - 1) - 0 + 1 = plan.cycles
        BY <2>1
      <4> QED
        BY <4>1, FS_Interval
    <3>3. Cardinality(found) = plan.cycles
      BY DEF Accepted, Validated
    <3>4. found = 0..(plan.cycles - 1)
      BY <3>1, <3>2, <3>3, FS_Subset
    <3> QED
      BY <3>4 DEF RowsOf
  <2>3. ASSUME NEW i \in DOMAIN rows PROVE rows[i].left = 0
    <3>1. rows[i].model \in Collected /\ i \in RowsOf(rows[i].model)
      BY <2>1 DEF RowInv, RowsOf
    <3>2. rows[i] \in RowType
      BY <2>1 DEF TypeOK
    <3>3. rows[i].left \in Nat /\ rows[i].gpu \in Nat
      BY <3>2 DEF RowType
    <3>4. rows[i].gpu <= 1
      <4>1. Validated(rows[i].model)
        BY <3>1 DEF Accepted
      <4>2. CASE job.system = "llama-swap"
        <5>1. baseline = 0
          BY <2>1, <4>2 DEF MemoryInv
        <5>2. rows[i].gpu <= Threshold
          BY <3>1, <4>1, <4>2 DEF Validated
        <5> QED
          BY <5>1, <5>2 DEF Threshold
      <4>3. CASE job.system # "llama-swap"
        <5>1. rows[i].gpu <= 0
          BY <3>1, <4>1, <4>3 DEF Validated
        <5> QED
          BY <3>3, <5>1
      <4> QED
        BY <4>2, <4>3
    <3>5. rows[i].left <= 1 /\ Multiple(rows[i].left)
      BY <2>1, <3>3, <3>4 DEF RowInv
    <3> QED
      BY <3>3, <3>5, MultipleSmall
  <2> QED
    BY <2>2, <2>3
<1> QED
  BY <1>1, Invariance, PTL

-----------------------------------------------------------------------------
(* Whose events a row is made of.                                          *)

\* The collections whose rows carry two latencies of the profile, from an orderly
\* service.
Watched == job.system = "llama-swap" /\ job.profiled /\ Orderly

\* All events in their order, those included that are not yet in the profile.
Hist == profile \o pending

Before   == {"baseline", "request"}
Answered == {"unload", "poll", "memory", "profile"}

\* Event i is of the process the service has or had last.
Logged(i, phase) == Hist[i].phase = phase /\ Hist[i].gen = proc.gen /\ Hist[i].success
WakeLogged  == \E i \in DOMAIN Hist : Logged(i, "wake")
SleepLogged == \E i \in DOMAIN Hist : Logged(i, "sleep_process")

\* The adapter has yet to read event i, or reads it again, for its present model.
Unread(i) == i > offset /\ Hist[i].model = model /\ Hist[i].phase # "blank"

\* Processes come one after the other, and each logs its wake first and its stop
\* last, unless it crashes or its stop fails.
HistInv ==
  /\ pending # <<>> => "late" \in job.quirks
  /\ \A i \in DOMAIN Hist : Hist[i].phase = "blank" => "blank" \in job.quirks
  /\ \A i \in DOMAIN Hist : Hist[i].phase # "blank" =>
       /\ Hist[i].gen <= proc.gen
       /\ Hist[i].gen = proc.gen => Hist[i].model = proc.model
  /\ \A i, j \in DOMAIN Hist : i <= j /\ Hist[i].phase # "blank" /\ Hist[j].phase # "blank" =>
       Hist[i].gen <= Hist[j].gen
  /\ \A i \in DOMAIN Hist : Hist[i].phase = "sleep_process" /\ Hist[i].gen = proc.gen =>
       proc.state = "stopped" /\ i = Len(Hist)
  /\ "blank" \notin job.quirks => offset <= Len(profile)
  /\ proc.state # "stopped" /\ proc.gen > 0 => WakeLogged

\* The process that answered is there until the cycle is over, or stopped since; the
\* list of a service that writes blank lines tells which.
CycleInv ==
  /\ cur.wake => /\ pc \in Answered /\ proc.model = model /\ cur.gen = proc.gen
                 /\ proc.gen > 0 => WakeLogged
  /\ "blank" \in job.quirks /\ cur.slept =>
       pc = "profile" /\ (proc.model = model => proc.state = "stopped")
  /\ "blank" \in job.quirks /\ pc = "memory" /\ ~cur.active =>
       (proc.model = model => proc.state = "stopped")
  /\ "blank" \notin job.quirks /\ pc \in Before /\ proc.model = model => proc.state # "stopping"

\* A service that writes blank lines stops no process without a word.
SleepIsLogged ==
  "blank" \in job.quirks /\ cur.wake /\ proc.state = "stopped" => SleepLogged

\* Without blank lines what there is to read of a stop of the model is of a process of
\* the model, and the service has not started another model's since.
UnreadSleep(i) == Unread(i) /\ Hist[i].phase = "sleep_process" /\ Hist[i].success
UnreadIsOwn ==
  "blank" \notin job.quirks /\ pc \in Before \cup Answered =>
    \A i \in DOMAIN Hist : UnreadSleep(i) => proc.model = model

\* When lines are late there is no stop to read but that of the latest process.
UnreadIsLatest ==
  "late" \in job.quirks /\ pc \in Before \cup Answered =>
    \A i \in DOMAIN Hist : UnreadSleep(i) => Hist[i].gen = proc.gen /\ pc \in Answered

\* What the other services let the adapter read of an earlier process has its wake with it.
Paired(i) ==
  \E j \in DOMAIN Hist : /\ Unread(j) /\ j < i /\ Hist[j].phase = "wake"
                         /\ Hist[j].success /\ Hist[j].gen = Hist[i].gen
UnreadIsPaired ==
  "blank" \notin job.quirks /\ "late" \notin job.quirks /\ pc \in Before \cup Answered =>
    \A i \in DOMAIN Hist :
      UnreadSleep(i) /\ (pc \in Before \/ Hist[i].gen < proc.gen) => Paired(i)

ReadInv == SleepIsLogged /\ UnreadIsOwn /\ UnreadIsLatest /\ UnreadIsPaired

OwnInv == Watched => HistInv /\ CycleInv /\ ReadInv /\ RowIsOwnCycle

LEMMA HistType ==
  ASSUME TypeOK
  PROVE  /\ Hist \in Seq(Line) /\ Len(Hist) \in Nat /\ DOMAIN Hist = 1..Len(Hist)
         /\ Len(profile) \in Nat /\ Len(profile) <= Len(Hist)
         /\ \A i \in DOMAIN profile : i \in DOMAIN Hist /\ Hist[i] = profile[i]
         /\ pending = <<>> => Len(Hist) = Len(profile) /\ DOMAIN Hist = DOMAIN profile
         /\ \A i \in DOMAIN Hist : Hist[i].gen \in Nat /\ Hist[i].success \in BOOLEAN
         /\ proc.gen \in Nat /\ offset \in Nat
<1>1. profile \in Seq(Line) /\ pending \in Seq(Line)
  BY DEF TypeOK
<1>2. /\ Hist \in Seq(Line) /\ Len(Hist) \in Nat /\ DOMAIN Hist = 1..Len(Hist)
      /\ Len(profile) \in Nat /\ Len(profile) <= Len(Hist)
      /\ \A i \in DOMAIN profile : i \in DOMAIN Hist /\ Hist[i] = profile[i]
      /\ pending = <<>> => Len(Hist) = Len(profile) /\ DOMAIN Hist = DOMAIN profile
  BY <1>1 DEF Hist
<1>3. \A i \in DOMAIN Hist : Hist[i] \in Line
  BY <1>2
<1>4. \A i \in DOMAIN Hist : Hist[i].gen \in Nat /\ Hist[i].success \in BOOLEAN
  BY <1>3, BoundsAssumption DEF Line
<1>5. proc.gen \in Nat /\ offset \in Nat
  BY BoundsAssumption DEF TypeOK
<1> QED
  BY <1>2, <1>4, <1>5

\* The event that is emitted comes last, possibly behind a blank line.
LEMMA Emitted ==
  ASSUME TypeOK, job.profiled, pending # <<>> => "late" \in job.quirks, NEW e \in Line, Emit(e)
  PROVE  /\ Len(Hist') \in DOMAIN Hist' /\ Hist'[Len(Hist')] = e /\ Len(Hist') \in Nat
         /\ \A i \in DOMAIN Hist : i \in DOMAIN Hist' /\ i < Len(Hist') /\ Hist'[i] = Hist[i]
         /\ \A i \in DOMAIN Hist' : \/ i = Len(Hist') \/ i \in DOMAIN Hist
                                    \/ Hist'[i].phase = "blank" /\ "blank" \in job.quirks
         /\ DOMAIN Hist' = 1..Len(Hist')
         /\ "late" \notin job.quirks => pending' = pending
         /\ Len(profile) <= Len(profile')
<1>0. /\ profile \in Seq(Line) /\ pending \in Seq(Line)
      /\ Len(profile) \in Nat /\ Len(pending) \in Nat
      /\ Blank \in Line
  BY BoundsAssumption DEF TypeOK, Blank, Line
<1>1. CASE "late" \notin job.quirks /\ profile' = Append(profile, e) /\ UNCHANGED pending
  <2>1. pending = <<>> /\ pending' = <<>>
    BY <1>1
  <2>2. Hist = profile /\ Hist' = Append(profile, e)
    BY <1>0, <1>1, <2>1 DEF Hist
  <2> QED
    BY <1>0, <1>1, <2>1, <2>2
<1>2. CASE /\ "late" \notin job.quirks /\ "blank" \in job.quirks
           /\ profile' = profile \o <<Blank, e>> /\ UNCHANGED pending
  <2>1. pending = <<>> /\ pending' = <<>> /\ profile' \in Seq(Line)
    BY <1>0, <1>2
  <2>2. Hist = profile /\ Hist' = profile'
    BY <1>0, <2>1 DEF Hist
  <2>3. /\ Len(profile') = Len(profile) + 2 /\ profile'[Len(profile) + 2] = e
        /\ profile'[Len(profile) + 1] = Blank
        /\ \A i \in 1..Len(profile) : profile'[i] = profile[i]
    BY <1>0, <1>2
  <2>4. Blank.phase = "blank"
    BY DEF Blank
  <2> HIDE DEF Blank
  <2>5. \A i \in 1..Len(profile) + 2 :
          i = Len(profile) + 2 \/ i = Len(profile) + 1 \/ i \in 1..Len(profile)
    BY <1>0
  <2> QED
    BY <1>0, <1>2, <2>1, <2>2, <2>3, <2>4, <2>5
<1>3. CASE "late" \in job.quirks /\ pending' = Append(pending, e) /\ UNCHANGED profile
  BY <1>0, <1>3 DEF Hist
<1>4. CASE /\ "late" \in job.quirks /\ "blank" \in job.quirks
           /\ pending' = pending \o <<Blank, e>> /\ UNCHANGED profile
  <2>1. Hist \in Seq(Line) /\ Len(Hist) \in Nat
    BY <1>0 DEF Hist
  <2>2. Hist' = Hist \o <<Blank, e>>
    BY <1>0, <1>4 DEF Hist
  <2>3. /\ Len(Hist') = Len(Hist) + 2 /\ Hist'[Len(Hist) + 2] = e
        /\ Hist'[Len(Hist) + 1] = Blank
        /\ \A i \in 1..Len(Hist) : Hist'[i] = Hist[i]
    BY <1>0, <2>1, <2>2
  <2>4. Blank.phase = "blank"
    BY DEF Blank
  <2>5. DOMAIN Hist = 1..Len(Hist) /\ DOMAIN Hist' = 1..Len(Hist) + 2
    BY <1>0, <2>1, <2>2
  <2> HIDE DEF Blank
  <2>6. \A i \in 1..Len(Hist) + 2 :
          i = Len(Hist) + 2 \/ i = Len(Hist) + 1 \/ i \in 1..Len(Hist)
    BY <2>1
  <2>7. \A i \in DOMAIN Hist' : \/ i = Len(Hist') \/ i \in DOMAIN Hist
                                \/ Hist'[i].phase = "blank" /\ "blank" \in job.quirks
    BY <1>4, <2>3, <2>4, <2>5, <2>6
  <2>8. \A i \in DOMAIN Hist : i \in DOMAIN Hist' /\ i < Len(Hist') /\ Hist'[i] = Hist[i]
    BY <2>1, <2>3, <2>5
  <2>9. Len(Hist') \in DOMAIN Hist' /\ Hist'[Len(Hist')] = e /\ Len(Hist') \in Nat
    BY <2>1, <2>3, <2>5
  <2> QED
    BY <1>0, <1>4, <2>3, <2>5, <2>7, <2>8, <2>9
<1> QED
  BY <1>1, <1>2, <1>3, <1>4 DEF Emit, Prompt, Has

LEMMA HeadMoved ==
  ASSUME NEW S, NEW p \in Seq(S), NEW q \in Seq(S), q # <<>>
  PROVE  Append(p, Head(q)) \o Tail(q) = p \o q
<1> DEFINE a == Append(p, Head(q))
           t == Tail(q)
           k == Len(p)
           n == Len(q)
<1>1. k \in Nat /\ n \in Nat /\ n # 0 /\ Head(q) = q[1] /\ Head(q) \in S
  OBVIOUS
<1>2. a \in Seq(S) /\ Len(a) = k + 1 /\ a[k + 1] = q[1] /\ \A i \in 1..k : a[i] = p[i]
  BY <1>1
<1>3. t \in Seq(S) /\ Len(t) = n - 1 /\ \A i \in 1..(n - 1) : t[i] = q[i + 1]
  BY <1>1
<1> HIDE DEF a, t
<1>4. ASSUME NEW x \in Seq(S), NEW y \in Seq(S)
      PROVE  /\ x \o y \in Seq(S) /\ Len(x \o y) = Len(x) + Len(y)
             /\ \A i \in 1..(Len(x) + Len(y)) :
                  (x \o y)[i] = IF i <= Len(x) THEN x[i] ELSE y[i - Len(x)]
  OBVIOUS
<1>5. /\ a \o t \in Seq(S) /\ Len(a \o t) = Len(a) + Len(t)
      /\ \A i \in 1..(Len(a) + Len(t)) :
           (a \o t)[i] = IF i <= Len(a) THEN a[i] ELSE t[i - Len(a)]
  BY <1>2, <1>3, <1>4
<1>6. /\ p \o q \in Seq(S) /\ Len(p \o q) = k + n
      /\ \A i \in 1..(k + n) : (p \o q)[i] = IF i <= k THEN p[i] ELSE q[i - k]
  BY <1>4
<1> DEFINE u == a \o t
           v == p \o q
<1> HIDE DEF u, v, k, n
<1>7. ASSUME NEW i \in 1..(k + n) PROVE u[i] = v[i]
  <2>1. i \in Nat /\ i \in 1..(Len(a) + Len(t))
    BY <1>1, <1>2, <1>3
  <2>2. CASE i <= k
    <3>1. u[i] = a[i] /\ v[i] = p[i] /\ a[i] = p[i]
      BY <1>1, <1>2, <1>5, <1>6, <2>1, <2>2 DEF u, v
    <3> QED
      BY <3>1
  <2>3. CASE i = k + 1
    <3>1. u[i] = a[i] /\ v[i] = q[i - k] /\ i - k = 1
      BY <1>1, <1>2, <1>5, <1>6, <2>1, <2>3 DEF u, v
    <3> QED
      BY <1>2, <2>3, <3>1
  <2>4. CASE i > k + 1
    <3>1. u[i] = t[i - (k + 1)] /\ v[i] = q[i - k]
      BY <1>1, <1>2, <1>5, <1>6, <2>1, <2>4 DEF u, v
    <3>2. i - (k + 1) \in 1..(n - 1) /\ i - (k + 1) + 1 = i - k
      BY <1>1, <2>1, <2>4
    <3> QED
      BY <1>3, <3>1, <3>2
  <2> QED
    BY <1>1, <2>1, <2>2, <2>3, <2>4
<1>8. u \in Seq(S) /\ v \in Seq(S) /\ Len(u) = k + n /\ Len(v) = k + n
  BY <1>1, <1>2, <1>3, <1>5, <1>6 DEF u, v
<1>9. u = v
  BY <1>7, <1>8
<1> QED
  BY <1>9 DEF u, v, a, t

\* A line that is written late comes where it belongs.
LEMMA HistWritten ==
  ASSUME TypeOK, ProfileWritten
  PROVE  Hist' = Hist /\ DOMAIN Hist' = DOMAIN Hist /\ (\A i \in DOMAIN Hist : Hist'[i] = Hist[i])
         /\ Len(profile') = Len(profile) + 1
<1>1. profile \in Seq(Line) /\ pending \in Seq(Line) /\ pending # <<>>
      /\ profile' = Append(profile, Head(pending)) /\ pending' = Tail(pending)
  BY DEF TypeOK, ProfileWritten
<1>2. Append(profile, Head(pending)) \o Tail(pending) = profile \o pending
  BY <1>1, HeadMoved
<1>3. Hist' = Hist
  BY <1>1, <1>2 DEF Hist
<1>4. Len(profile') = Len(profile) + 1
  BY <1>1
<1> QED
  BY <1>3, <1>4

\* No event is lost or comes before another that was there already.
LEMMA HistGrows ==
  ASSUME TypeOK, Watched, HistInv, [Next]_vars
  PROVE  \A i \in DOMAIN Hist : i \in DOMAIN Hist' /\ Hist'[i] = Hist[i]
<1> USE DEF adapter, service
<1>1. ASSUME UNCHANGED <<profile, pending>>
      PROVE  \A i \in DOMAIN Hist : i \in DOMAIN Hist' /\ Hist'[i] = Hist[i]
  BY <1>1 DEF Hist
<1>2. ASSUME NEW m \in ModelNames, NEW phase \in {"wake", "sleep_process"},
             NEW g \in 0..MaxStarts, NEW success \in BOOLEAN, Emit(Event(m, phase, g, success))
      PROVE  \A i \in DOMAIN Hist : i \in DOMAIN Hist' /\ Hist'[i] = Hist[i]
  BY <1>2, EventType, Emitted DEF HistInv, Watched
<1>3. proc.gen \in 0..MaxStarts /\ proc.model \in ModelNames /\ model \in ModelNames
  BY PlanFacts DEF TypeOK
<1>4. CASE Service
  <2>1. CASE ServiceStarts
    <3>1. proc.gen + 1 \in 0..MaxStarts
      BY <1>3, <2>1, BoundsAssumption DEF ServiceStarts
    <3> QED
      BY <1>2, <1>3, <2>1, <3>1 DEF ServiceStarts
  <2>2. CASE ServiceStartFails
    <3>1. proc.gen + 1 \in 0..MaxStarts
      BY <1>3, <2>2, BoundsAssumption DEF ServiceStartFails
    <3> QED
      BY <1>2, <1>3, <2>2, <3>1 DEF ServiceStartFails
  <2>3. CASE ServiceStopped
    <3>1. PICK success \in BOOLEAN : Emit(Event(proc.model, "sleep_process", proc.gen, success))
      BY <2>3 DEF ServiceStopped
    <3> QED
      BY <1>2, <1>3, <3>1
  <2>4. CASE ProfileWritten
    BY <2>4, HistWritten
  <2>5. CASE ServiceEvicts \/ ServiceCrashes \/ ServiceReleases
    BY <1>1, <2>5 DEF ServiceEvicts, ServiceCrashes, ServiceReleases
  <2> QED
    BY <1>4, <2>1, <2>2, <2>3, <2>4, <2>5 DEF Service
<1>5. CASE Adapter
  BY <1>1, <1>5 DEF Adapter, Baseline, Request, Unload, PollRunning, PollMemory, PollTimeout,
     ReadProfile, RejectProfile, SkipProfile, Reference, Swapout, ReleasedMemory, Swapin, Infer,
     Summary, Abort, Lost
<1>6. CASE UNCHANGED vars
  BY <1>1, <1>6 DEF vars
<1> QED
  BY <1>4, <1>5, <1>6 DEF Next, Ended

LEMMA WakeKept ==
  ASSUME TypeOK, Watched, HistInv, [Next]_vars, UNCHANGED proc.gen, WakeLogged PROVE WakeLogged'
<1>1. PICK i \in DOMAIN Hist : Logged(i, "wake")
  BY DEF WakeLogged
<1>2. i \in DOMAIN Hist' /\ Hist'[i] = Hist[i]
  BY HistGrows
<1>3. Logged(i, "wake")'
  BY <1>1, <1>2 DEF Logged
<1> QED
  BY <1>2, <1>3 DEF WakeLogged

LEMMA SleepKept ==
  ASSUME TypeOK, Watched, HistInv, [Next]_vars, UNCHANGED proc.gen, SleepLogged PROVE SleepLogged'
<1>1. PICK i \in DOMAIN Hist : Logged(i, "sleep_process")
  BY DEF SleepLogged
<1>2. i \in DOMAIN Hist' /\ Hist'[i] = Hist[i]
  BY HistGrows
<1>3. Logged(i, "sleep_process")'
  BY <1>1, <1>2 DEF Logged
<1> QED
  BY <1>2, <1>3 DEF SleepLogged

\* Nothing is emitted and no process is started.
LEMMA HistKept ==
  ASSUME TypeOK, Watched, HistInv, [Next]_vars, Hist' = Hist,
         UNCHANGED <<job, proc.gen, proc.model>>,
         proc.state = "stopped" => proc'.state = "stopped",
         pending' # <<>> => pending # <<>>,
         "blank" \notin job.quirks => offset' <= Len(profile')
  PROVE  HistInv'
<1>1. proc'.state # "stopped" /\ proc'.gen > 0 => WakeLogged'
  BY WakeKept DEF HistInv
<1> QED
  BY <1>1 DEF HistInv

\* An event of the latest process is emitted.
LEMMA HistMore ==
  ASSUME TypeOK, Watched, HistInv, [Next]_vars, NEW e \in Line, Emit(e), e.phase # "blank",
         e.gen = proc'.gen, e.model = proc'.model, UNCHANGED <<job, offset>>,
         proc'.gen \in Nat,
         \/ proc'.gen = proc.gen /\ proc'.model = proc.model /\ proc.state # "stopped"
         \/ proc'.gen > proc.gen,
         e.phase = "sleep_process" => proc'.state = "stopped",
         proc'.state # "stopped" => e.phase = "wake" /\ e.success
  PROVE  HistInv'
<1> DEFINE n == Len(Hist')
<1>1. /\ n \in DOMAIN Hist' /\ Hist'[n] = e /\ n \in Nat /\ DOMAIN Hist' = 1..n
      /\ \A i \in DOMAIN Hist : i \in DOMAIN Hist' /\ i < n /\ Hist'[i] = Hist[i]
      /\ \A i \in DOMAIN Hist' : \/ i = n \/ i \in DOMAIN Hist
                                 \/ Hist'[i].phase = "blank" /\ "blank" \in job.quirks
      /\ "late" \notin job.quirks => pending' = pending
      /\ Len(profile) <= Len(profile')
  BY Emitted DEF HistInv, Watched
<1>2. /\ \A i \in DOMAIN Hist : Hist[i].gen \in Nat
      /\ proc.gen \in Nat /\ offset \in Nat /\ Len(profile) \in Nat
  BY HistType
<1> HIDE DEF n
<1>3. \A i \in DOMAIN Hist' : Hist'[i].phase # "blank" =>
        \/ i = n /\ Hist'[i] = e
        \/ i \in DOMAIN Hist /\ i < n /\ Hist'[i] = Hist[i] /\ Hist[i].phase # "blank"
  BY <1>1
<1>4. \A i \in DOMAIN Hist' : Hist'[i].phase = "blank" => "blank" \in job'.quirks
  BY <1>1 DEF HistInv
<1>5. \A i \in DOMAIN Hist' : Hist'[i].phase # "blank" =>
        /\ Hist'[i].gen <= proc'.gen
        /\ Hist'[i].gen = proc'.gen => Hist'[i].model = proc'.model
  BY <1>2, <1>3 DEF HistInv
<1>6. ASSUME NEW i \in DOMAIN Hist', NEW j \in DOMAIN Hist', i <= j,
             Hist'[i].phase # "blank", Hist'[j].phase # "blank"
      PROVE  Hist'[i].gen <= Hist'[j].gen
  <2>1. CASE j = n
    BY <1>1, <1>5, <1>6, <2>1
  <2>2. CASE j # n
    <3>1. j \in DOMAIN Hist /\ j < n /\ Hist'[j] = Hist[j] /\ Hist[j].phase # "blank"
      BY <1>3, <1>6, <2>2
    <3>2. i # n
      BY <1>1, <1>6, <3>1
    <3>3. i \in DOMAIN Hist /\ Hist'[i] = Hist[i] /\ Hist[i].phase # "blank"
      BY <1>3, <1>6, <3>2
    <3> QED
      BY <1>6, <3>1, <3>3 DEF HistInv
  <2> QED
    BY <2>1, <2>2
<1>7. ASSUME NEW i \in DOMAIN Hist', Hist'[i].phase = "sleep_process", Hist'[i].gen = proc'.gen
      PROVE  proc'.state = "stopped" /\ i = n
  <2>1. CASE i = n
    BY <1>1, <1>7, <2>1
  <2>2. CASE i # n
    <3>1. i \in DOMAIN Hist /\ Hist'[i] = Hist[i] /\ Hist[i].phase # "blank"
      BY <1>3, <1>7, <2>2
    <3>2. Hist[i].gen <= proc.gen
      BY <3>1 DEF HistInv
    <3>3. proc'.gen = proc.gen /\ proc.state # "stopped"
      BY <1>2, <1>7, <3>1, <3>2
    <3> QED
      BY <1>7, <3>1, <3>3 DEF HistInv
  <2> QED
    BY <2>1, <2>2
<1>8. proc'.state # "stopped" /\ proc'.gen > 0 => WakeLogged'
  BY <1>1 DEF WakeLogged, Logged
<1>9. "blank" \notin job.quirks => offset' <= Len(profile')
  BY <1>1, <1>2 DEF HistInv
<1>10. pending' # <<>> => "late" \in job'.quirks
  BY <1>1 DEF HistInv
<1> QED
  BY <1>4, <1>5, <1>6, <1>7, <1>8, <1>9, <1>10 DEF HistInv, n

\* Without blank lines the offset moves to the end of the profile.
LEMMA OffsetAtEnd ==
  ASSUME TypeOK, HistInv, "blank" \notin job.quirks
  PROVE  offset + Cardinality(NewEvents) = Len(profile)
<1>1. /\ offset \in Nat /\ Len(profile) \in Nat /\ offset <= Len(profile)
      /\ DOMAIN profile = 1..Len(profile)
  BY HistType DEF HistInv, TypeOK
<1>2. \A i \in DOMAIN profile : profile[i].phase # "blank"
  <2>1. \A i \in DOMAIN profile : i \in DOMAIN Hist /\ Hist[i] = profile[i]
    BY HistType
  <2> QED
    BY <2>1 DEF HistInv
<1>3. NewEvents = (offset + 1)..Len(profile)
  BY <1>1, <1>2 DEF NewEvents
<1>4. Cardinality((offset + 1)..Len(profile)) = Len(profile) - offset
  <2>1. offset + 1 \in Int /\ Len(profile) \in Int
    BY <1>1
  <2>2. Cardinality((offset + 1)..Len(profile))
          = IF offset + 1 > Len(profile) THEN 0 ELSE Len(profile) - (offset + 1) + 1
    BY <2>1, FS_Interval
  <2> QED
    BY <1>1, <2>2
<1> QED
  BY <1>1, <1>3, <1>4

\* The steps a watched collection takes; the adapter's that start no process and
\* move no event are Quiet.
Quiet ==
  \/ Baseline \/ Request \/ Unload \/ PollRunning \/ PollMemory \/ PollTimeout \/ Summary

LEMMA WatchedSteps ==
  ASSUME IInv, Watched, [Next]_vars
  PROVE  Service \/ Quiet \/ ReadProfile \/ Lost \/ UNCHANGED vars
<1>1. pc \notin SwapSteps
  BY DEF IInv, PlaceInv, Watched
<1> QED
  BY <1>1 DEF Next, Adapter, Quiet, RejectProfile, Abort, Ended, Watched, SkipProfile, SwapSteps,
     Reference, Swapout, ReleasedMemory, Swapin, Infer

LEMMA HistStep == ASSUME IInv, Watched, HistInv, [Next]_vars PROVE HistInv'
<1> USE DEF adapter, service
<1>1. TypeOK /\ proc.gen \in 0..MaxStarts /\ proc.gen \in Nat /\ proc.model \in ModelNames
      /\ model \in ModelNames
  BY PlanFacts, HistType DEF IInv, TypeOK
<1>2. "blank" \notin job.quirks => offset <= Len(profile)
  BY DEF HistInv
<1>3. ASSUME UNCHANGED <<profile, pending>> PROVE Hist' = Hist
  BY <1>3 DEF Hist
<1>4. CASE Service
  <2>1. CASE ServiceStarts
    <3> DEFINE e == Event(model, "wake", proc.gen + 1, TRUE)
    <3>1. /\ proc'.gen = proc.gen + 1 /\ proc'.model = model /\ proc'.state = "ready" /\ Emit(e)
          /\ UNCHANGED <<job, offset>> /\ proc.gen < MaxStarts
      BY <2>1 DEF ServiceStarts
    <3>2. proc.gen + 1 \in 0..MaxStarts /\ proc.gen + 1 \in Nat /\ proc.gen + 1 > proc.gen
      BY <1>1, <3>1, BoundsAssumption
    <3>3. e \in Line
      BY <1>1, <3>2, EventType
    <3>4. e.phase = "wake" /\ e.gen = proc.gen + 1 /\ e.model = model /\ e.success = TRUE
      BY DEF Event
    <3> HIDE DEF e
    <3> QED
      BY <1>1, <3>1, <3>2, <3>3, <3>4, HistMore
  <2>2. CASE ServiceStartFails
    <3> DEFINE e == Event(model, "wake", proc.gen + 1, FALSE)
    <3>1. /\ proc'.gen = proc.gen + 1 /\ proc'.model = model /\ proc'.state = "stopped" /\ Emit(e)
          /\ UNCHANGED <<job, offset>> /\ proc.gen < MaxStarts
      BY <2>2 DEF ServiceStartFails
    <3>2. proc.gen + 1 \in 0..MaxStarts /\ proc.gen + 1 \in Nat /\ proc.gen + 1 > proc.gen
      BY <1>1, <3>1, BoundsAssumption
    <3>3. e \in Line
      BY <1>1, <3>2, EventType
    <3>4. e.phase = "wake" /\ e.gen = proc.gen + 1 /\ e.model = model
      BY DEF Event
    <3> HIDE DEF e
    <3> QED
      BY <1>1, <3>1, <3>2, <3>3, <3>4, HistMore
  <2>3. CASE ServiceStopped
    <3>1. PICK success \in BOOLEAN : Emit(Event(proc.model, "sleep_process", proc.gen, success))
      BY <2>3 DEF ServiceStopped
    <3> DEFINE e == Event(proc.model, "sleep_process", proc.gen, success)
    <3>2. /\ proc'.gen = proc.gen /\ proc'.model = proc.model /\ proc'.state = "stopped"
          /\ proc.state = "stopping" /\ UNCHANGED <<job, offset>>
      BY <2>3 DEF ServiceStopped, TypeOK
    <3>3. e \in Line /\ Emit(e)
      BY <1>1, <3>1, EventType
    <3>4. e.phase = "sleep_process" /\ e.gen = proc.gen /\ e.model = proc.model
      BY DEF Event
    <3> HIDE DEF e
    <3> QED
      BY <1>1, <3>2, <3>3, <3>4, HistMore
  <2>4. CASE ProfileWritten
    <3>1. /\ Hist' = Hist /\ Len(profile') = Len(profile) + 1
          /\ UNCHANGED <<job, proc, offset>> /\ pending # <<>>
      BY <1>1, <2>4, HistWritten DEF ProfileWritten
    <3>2. "blank" \notin job.quirks => offset' <= Len(profile')
      BY <1>1, <1>2, <3>1, HistType
    <3> QED
      BY <1>1, <3>1, <3>2, HistKept
  <2>5. CASE ServiceEvicts \/ ServiceCrashes \/ ServiceReleases
    <3>1. /\ UNCHANGED <<job, profile, pending, offset, proc.gen, proc.model>>
          /\ proc.state = "stopped" => proc'.state = "stopped"
      BY <1>1, <2>5 DEF ServiceEvicts, ServiceCrashes, ServiceReleases, TypeOK
    <3> QED
      BY <1>1, <1>2, <1>3, <3>1, HistKept
  <2> QED
    BY <1>4, <2>1, <2>2, <2>3, <2>4, <2>5 DEF Service
<1>5. CASE Quiet
  <2>1. /\ UNCHANGED <<job, profile, pending, offset, proc.gen, proc.model>>
        /\ proc.state = "stopped" => proc'.state = "stopped"
    BY <1>1, <1>5 DEF Quiet, Baseline, Request, Unload, PollRunning, PollMemory, PollTimeout,
           Summary,
       TypeOK
  <2> QED
    BY <1>1, <1>2, <1>3, <2>1, HistKept
<1>6. CASE ReadProfile
  <2>1. /\ UNCHANGED <<job, profile, pending, proc>> /\ offset' = offset + Cardinality(NewEvents)
    BY <1>6 DEF ReadProfile
  <2>2. "blank" \notin job.quirks => offset' <= Len(profile')
    BY <1>1, <2>1, OffsetAtEnd, HistType
  <2> QED
    BY <1>1, <1>3, <2>1, <2>2, HistKept
<1>7. CASE Lost
  <2>1. /\ UNCHANGED <<job, profile, pending, proc>> /\ offset' = 0
    BY <1>7 DEF Lost
  <2>2. offset' <= Len(profile')
    BY <1>1, <2>1, HistType
  <2> QED
    BY <1>1, <1>3, <2>1, <2>2, HistKept
<1>8. CASE UNCHANGED vars
  <2>1. UNCHANGED <<job, profile, pending, proc, offset>>
    BY <1>8 DEF vars
  <2> QED
    BY <1>1, <1>2, <1>3, <2>1, HistKept
<1> QED
  BY <1>4, <1>5, <1>6, <1>7, <1>8, WatchedSteps

\* The one wake and the one sleep the adapter finds are of the process that answered.
LEMMA ReadOutcome ==
  ASSUME IInv, Watched, HistInv, CycleInv, ReadInv, pc = "profile",
         NEW w \in DOMAIN profile, NEW s \in DOMAIN profile, OneEach(w, s),
         proc.gen > 0 => WakeLogged, "blank" \in job.quirks => cur.wake
  PROVE  /\ profile[w].gen = proc.gen
         /\ "blank" \notin job.quirks => proc.state = "stopped"
         /\ proc.state = "stopped" => profile[s].gen = proc.gen
<1> USE DEF Answered, Before
<1>1. offset \in Nat /\ proc.gen \in Nat
  BY HistType DEF IInv
<1>2. \A i \in DOMAIN profile : i \in DOMAIN Hist /\ Hist[i] = profile[i]
  BY HistType DEF IInv
<1>3. \A i \in DOMAIN profile : i \in Nat /\ i <= Len(profile) /\ i >= 1
  BY DEF IInv, TypeOK
<1>4. \A i \in DOMAIN Hist : i \in Nat /\ i >= 1 /\ i <= Len(Hist) /\ Hist[i].gen \in Nat
  BY HistType DEF IInv
<1>5. Len(profile) \in Nat /\ DOMAIN profile = 1..Len(profile)
  BY DEF IInv, TypeOK
<1>6. /\ w \in Own("wake") /\ s \in Own("sleep_process")
      /\ \A i \in Own("wake") : i = w
      /\ \A i \in Own("sleep_process") : i = s
  BY DEF OneEach
<1>7. \A i, phase : i \in Own(phase) <=>
        /\ i \in (offset + 1)..Len(profile) /\ profile[i].phase # "blank"
        /\ profile[i].model = model /\ profile[i].phase = phase /\ profile[i].success
  BY DEF Own, NewEvents
<1>8. /\ w > offset /\ s > offset /\ Unread(w) /\ Unread(s)
      /\ w \in DOMAIN Hist /\ Hist[w] = profile[w] /\ Hist[w].phase = "wake"
      /\ s \in DOMAIN Hist /\ Hist[s] = profile[s] /\ Hist[s].phase = "sleep_process"
      /\ Hist[s].success
  BY <1>1, <1>2, <1>3, <1>5, <1>6, <1>7 DEF Unread
<1>9. Hist[w].gen <= proc.gen /\ Hist[s].gen <= proc.gen
  BY <1>8 DEF HistInv
<1>10. UnreadSleep(s)
  BY <1>8 DEF UnreadSleep
<1>11. proc.model = model
  <2>1. CASE "blank" \in job.quirks
    BY <2>1 DEF CycleInv
  <2>2. CASE "blank" \notin job.quirks
    BY <1>8, <1>10, <2>2 DEF ReadInv, UnreadIsOwn
  <2> QED
    BY <2>1, <2>2
\* What is late is there by the time the stop of the latest process is.
<1>12. ASSUME "late" \in job.quirks
       PROVE  Hist[s].gen = proc.gen /\ s = Len(Hist)
  <2>1. Hist[s].gen = proc.gen
    BY <1>8, <1>10, <1>12 DEF ReadInv, UnreadIsLatest
  <2> QED
    BY <1>8, <2>1 DEF HistInv
<1>13. DOMAIN Hist \subseteq DOMAIN profile
  <2>1. CASE "late" \in job.quirks
    <3>1. Len(Hist) <= Len(profile)
      BY <1>3, <1>12, <2>1
    <3>2. DOMAIN Hist = 1..Len(Hist) /\ Len(Hist) \in Nat
      BY HistType DEF IInv
    <3> QED
      BY <1>5, <3>1, <3>2
  <2>2. CASE "late" \notin job.quirks
    <3>1. pending = <<>>
      BY <2>2 DEF HistInv
    <3> QED
      BY <3>1, HistType DEF IInv
  <2> QED
    BY <2>1, <2>2
\* An event of the present process is the one that is found, or was read before it.
<1>14. ASSUME NEW phase \in {"wake", "sleep_process"}, NEW o \in DOMAIN profile,
              \A i \in Own(phase) : i = o, o > offset, Hist[o].phase # "blank",
              NEW p \in DOMAIN Hist, Logged(p, phase)
       PROVE  Hist[p].gen <= Hist[o].gen
  <2>1. /\ p \in DOMAIN profile /\ o \in DOMAIN Hist /\ profile[p] = Hist[p]
        /\ Hist[p].phase = phase /\ Hist[p].success /\ Hist[p].gen = proc.gen
    BY <1>2, <1>13, <1>14 DEF Logged
  <2>2. Hist[p].model = model
    BY <1>11, <2>1 DEF HistInv
  <2>3. CASE p > offset
    <3>1. p \in (offset + 1)..Len(profile)
      BY <1>1, <1>3, <1>5, <2>1, <2>3
    <3>2. p \in Own(phase)
      BY <1>7, <2>1, <2>2, <3>1
    <3> QED
      BY <1>4, <1>14, <3>2
  <2>4. CASE p <= offset
    <3>1. p <= o
      BY <1>1, <1>3, <1>14, <2>1, <2>4
    <3> QED
      BY <1>14, <2>1, <3>1 DEF HistInv
  <2> QED
    BY <1>1, <1>4, <2>3, <2>4
<1>15. Hist[w].gen = proc.gen
  <2>1. CASE proc.gen = 0
    BY <1>1, <1>4, <1>8, <1>9, <2>1
  <2>2. CASE proc.gen > 0
    <3>1. PICK p \in DOMAIN Hist : Logged(p, "wake")
      BY <2>2 DEF WakeLogged
    <3>2. Hist[p].gen <= Hist[w].gen
      BY <1>6, <1>8, <1>14, <3>1
    <3> QED
      BY <1>1, <1>4, <1>8, <1>9, <3>1, <3>2 DEF Logged
  <2> QED
    BY <1>1, <2>1, <2>2
<1>16. ASSUME "blank" \in job.quirks, proc.state = "stopped" PROVE Hist[s].gen = proc.gen
  <2>1. PICK p \in DOMAIN Hist : Logged(p, "sleep_process")
    BY <1>16 DEF ReadInv, SleepIsLogged, SleepLogged
  <2>2. Hist[p].gen <= Hist[s].gen
    BY <1>6, <1>8, <1>14, <2>1
  <2> QED
    BY <1>1, <1>4, <1>8, <1>9, <2>1, <2>2 DEF Logged
<1>17. ASSUME "blank" \notin job.quirks, "late" \notin job.quirks PROVE Hist[s].gen = proc.gen
  <2>1. SUFFICES ASSUME Hist[s].gen < proc.gen PROVE FALSE
    BY <1>1, <1>4, <1>8, <1>9
  <2>2. Paired(s)
    BY <1>8, <1>10, <1>17, <2>1 DEF ReadInv, UnreadIsPaired
  <2>3. PICK j \in DOMAIN Hist : /\ Unread(j) /\ j < s /\ Hist[j].phase = "wake"
                                 /\ Hist[j].success /\ Hist[j].gen = Hist[s].gen
    BY <2>2 DEF Paired
  <2>4. j \in DOMAIN profile /\ profile[j] = Hist[j] /\ j > offset /\ Hist[j].model = model
    BY <1>2, <1>13, <2>3 DEF Unread
  <2>5. j \in (offset + 1)..Len(profile)
    BY <1>1, <1>3, <1>5, <2>4
  <2>6. j \in Own("wake")
    BY <1>7, <2>3, <2>4, <2>5
  <2> QED
    BY <1>1, <1>4, <1>6, <1>15, <2>1, <2>3, <2>6
<1>18. "blank" \notin job.quirks => proc.state = "stopped" /\ Hist[s].gen = proc.gen
  BY <1>8, <1>12, <1>17 DEF HistInv
<1> QED
  BY <1>8, <1>15, <1>16, <1>18

\* At the end of a cycle the process that answered is not about to stop.
LEMMA ReadStopped ==
  ASSUME IInv, Watched, HistInv, CycleInv, ReadInv, ReadProfile, "blank" \notin job.quirks
  PROVE  proc.state # "stopping"
<1>1. SUFFICES ASSUME proc.state = "stopping" PROVE FALSE
  OBVIOUS
<1>2. PICK w, s \in DOMAIN profile : OneEach(w, s)
  BY RowLines DEF IInv
<1>3. proc.gen > 0 => WakeLogged
  BY <1>1 DEF HistInv
<1> QED
  BY <1>1, <1>2, <1>3, ReadOutcome DEF ReadProfile

\* Where the adapter is after it recorded a cycle.
LEMMA AfterRead ==
  ASSUME ReadProfile PROVE cur' = Fresh /\ pc' \in {"request", "summary"}
  BY DEF ReadProfile, Record

LEMMA CycleStep ==
  ASSUME IInv, Watched, HistInv, CycleInv, ReadInv, [Next]_vars PROVE CycleInv'
<1> USE DEF adapter, service, Before, Answered
<1>1. TypeOK /\ proc.gen \in Nat /\ proc.state \in States
  BY HistType DEF IInv, TypeOK
<1>2. cur.wake \in BOOLEAN /\ cur.slept \in BOOLEAN /\ cur.active \in BOOLEAN
  BY <1>1 DEF TypeOK, CycleType
<1>3. ~Fresh.wake /\ ~Fresh.slept
  BY DEF Fresh
<1>4. UNCHANGED proc.gen /\ WakeLogged => WakeLogged'
  BY <1>1, WakeKept
<1> HIDE DEF Fresh
<1>5. CASE Service
  <2>1. CASE ServiceStarts \/ ServiceStartFails
    <3>1. /\ pc = "request" /\ pc' = "request" /\ UNCHANGED <<job, cur>>
          /\ proc'.state \in {"ready", "stopped"}
      <4>1. CASE ServiceStarts
        BY <4>1 DEF ServiceStarts
      <4>2. CASE ServiceStartFails
        BY <4>2 DEF ServiceStartFails
      <4> QED
        BY <2>1, <4>1, <4>2
    <3>2. ~cur.wake /\ ~("blank" \in job.quirks /\ cur.slept)
      BY <3>1 DEF CycleInv
    <3> QED
      BY <3>1, <3>2 DEF CycleInv
  <2>3. CASE ServiceEvicts \/ ServiceStopped \/ ServiceCrashes
    <3>1. UNCHANGED <<job, pc, cur, model>>
      BY <2>3 DEF ServiceEvicts, ServiceStopped, ServiceCrashes, model
    <3>2. proc \in [model : ModelNames, gen : 0..MaxStarts, state : States]
      BY <1>1 DEF TypeOK
    <3>3. CASE ServiceEvicts
      <4>1. UNCHANGED <<proc.gen, proc.model>> /\ pc = "request" /\ proc.model # model
        BY <3>2, <3>3 DEF ServiceEvicts
      <4> QED
        BY <1>4, <3>1, <4>1 DEF CycleInv
    <3>4. CASE ServiceStopped \/ ServiceCrashes
      <4>1. UNCHANGED <<proc.gen, proc.model>> /\ proc'.state = "stopped"
        BY <3>2, <3>4 DEF ServiceStopped, ServiceCrashes
      <4> QED
        BY <1>4, <3>1, <4>1 DEF CycleInv
    <3> QED
      BY <2>3, <3>3, <3>4
  <2>4. CASE ServiceReleases \/ ProfileWritten
    <3>1. UNCHANGED <<job, pc, cur, model, proc>>
      BY <2>4 DEF ServiceReleases, ProfileWritten, model
    <3> QED
      BY <1>4, <3>1 DEF CycleInv
  <2> QED
    BY <1>5, <2>1, <2>3, <2>4 DEF Service
<1>6. CASE Quiet
  <2>1. UNCHANGED <<job, model, proc.gen, proc.model>>
    BY <1>1, <1>6 DEF Quiet, Baseline, Request, Unload, PollRunning, PollMemory, PollTimeout,
           Summary,
       TypeOK, model
  <2>2. CASE Baseline
    <3>1. UNCHANGED <<cur, proc>> /\ pc = "baseline" /\ pc' = "request"
      BY <2>2 DEF Baseline
    <3> QED
      BY <2>1, <3>1 DEF CycleInv
  <2>3. CASE Request
    <3>1. /\ pc' = "unload" /\ UNCHANGED proc /\ ~cur'.slept
          /\ cur'.wake => /\ cur'.gen = proc.gen /\ proc.state = "ready"
                          /\ proc.model = model
      <4>1. CASE cur' = Fresh
        BY <1>3, <2>3, <4>1 DEF Request
      <4>2. CASE /\ proc.state = "ready" /\ proc.model = model
                 /\ \E output \in Outputs :
                      cur' = [Fresh EXCEPT !.wake = TRUE, !.output = output, !.gen = proc.gen]
        BY <2>3, <4>2 DEF Request, Fresh
      <4> QED
        BY <2>3, <4>1, <4>2 DEF Request
    <3>2. cur'.wake /\ proc.gen > 0 => WakeLogged
      BY <3>1 DEF HistInv
    <3> QED
      BY <1>4, <2>1, <3>1, <3>2 DEF CycleInv
  <2>4. CASE Unload
    <3>1. /\ pc = "unload" /\ pc' = "poll" /\ cur'.gen = cur.gen /\ cur'.wake = cur.wake
          /\ cur'.slept = cur.slept
      BY <1>1, <2>4 DEF Unload, TypeOK, CycleType
    <3> QED
      BY <1>4, <2>1, <3>1 DEF CycleInv
  <2>5. CASE PollRunning
    <3>1. /\ pc = "poll" /\ pc' = "memory" /\ cur'.gen = cur.gen /\ cur'.wake = cur.wake
          /\ cur'.slept = cur.slept /\ UNCHANGED proc
          /\ "blank" \in job.quirks /\ ~cur'.active =>
               (proc.model = model => proc.state = "stopped")
      BY <1>1, <2>5 DEF PollRunning, TypeOK, CycleType, Watched, Orderly, Has
    <3> QED
      BY <1>4, <2>1, <3>1 DEF CycleInv
  <2>6. CASE PollMemory
    <3>1. /\ pc = "memory" /\ pc' \in {"profile", "poll"} /\ cur'.gen = cur.gen
          /\ cur'.wake = cur.wake /\ UNCHANGED proc
          /\ cur'.slept => ~cur.active /\ pc' = "profile"
      BY <1>1, <2>6 DEF PollMemory, TypeOK, CycleType
    <3> QED
      BY <1>4, <2>1, <3>1 DEF CycleInv
  <2>7. CASE PollTimeout
    <3>1. pc = "poll" /\ pc' = "profile" /\ UNCHANGED <<cur, proc>>
      BY <2>7 DEF PollTimeout
    <3> QED
      BY <1>4, <2>1, <3>1 DEF CycleInv
  <2>8. CASE Summary
    <3>1. pc = "summary" /\ pc' = "ended" /\ UNCHANGED <<cur, proc>>
      BY <2>8 DEF Summary
    <3> QED
      BY <2>1, <3>1 DEF CycleInv
  <2> QED
    BY <1>6, <2>2, <2>3, <2>4, <2>5, <2>6, <2>7, <2>8 DEF Quiet
<1>7. CASE ReadProfile
  <2>1. cur' = Fresh /\ pc' \in {"request", "summary"} /\ UNCHANGED <<job, proc>>
    BY <1>7, AfterRead DEF ReadProfile
  <2>2. "blank" \notin job.quirks => proc.state # "stopping"
    BY <1>7, ReadStopped
  <2> QED
    BY <1>3, <2>1, <2>2 DEF CycleInv
<1>8. CASE Lost
  <2>1. cur' = Fresh /\ pc' = "failed"
    BY <1>8 DEF Lost, Fresh
  <2> QED
    BY <1>3, <2>1 DEF CycleInv
<1>9. CASE UNCHANGED vars
  <2>1. UNCHANGED <<job, pc, cur, model, proc>>
    BY <1>9 DEF vars, model
  <2> QED
    BY <1>4, <2>1 DEF CycleInv
<1> QED
  BY <1>5, <1>6, <1>7, <1>8, <1>9, WatchedSteps

\* What an event that is emitted leaves to read: what there was, and itself.
LEMMA UnreadMore ==
  ASSUME TypeOK, Watched, HistInv, NEW e \in Line, Emit(e), UNCHANGED <<offset, model>>
  PROVE  /\ \A i \in DOMAIN Hist' : Unread(i)' =>
              \/ i \in DOMAIN Hist /\ Hist'[i] = Hist[i] /\ Unread(i)
              \/ Hist'[i] = e /\ e.model = model
         /\ \A i \in DOMAIN Hist : i \in DOMAIN Hist' /\ Hist'[i] = Hist[i]
                                   /\ (Unread(i) => Unread(i)')
<1>1. /\ Hist'[Len(Hist')] = e
      /\ \A i \in DOMAIN Hist : i \in DOMAIN Hist' /\ Hist'[i] = Hist[i]
      /\ \A i \in DOMAIN Hist' : \/ i = Len(Hist') \/ i \in DOMAIN Hist
                                 \/ Hist'[i].phase = "blank"
  BY Emitted DEF HistInv, Watched
<1> QED
  BY <1>1 DEF Unread

\* What is paired stays paired.
LEMMA PairKept ==
  ASSUME UNCHANGED <<offset, model>>,
         \A i \in DOMAIN Hist : i \in DOMAIN Hist' /\ Hist'[i] = Hist[i],
         NEW i \in DOMAIN Hist, Paired(i)
  PROVE  Paired(i)'
<1>1. PICK j \in DOMAIN Hist : /\ Unread(j) /\ j < i /\ Hist[j].phase = "wake"
                               /\ Hist[j].success /\ Hist[j].gen = Hist[i].gen
  BY DEF Paired
<1>2. /\ j \in DOMAIN Hist' /\ Hist'[j] = Hist[j] /\ Hist'[i] = Hist[i] /\ Unread(j)'
  BY <1>1 DEF Unread
<1> QED
  BY <1>1, <1>2 DEF Paired

\* Nothing is emitted, nothing read and no process started.
LEMMA ReadKept ==
  ASSUME TypeOK, Watched, HistInv, [Next]_vars, ReadInv, Hist' = Hist,
         UNCHANGED <<job, offset, model, proc.gen, proc.model>>,
         proc.state = "stopped" \/ proc'.state # "stopped" \/ "crash" \in job.quirks,
         cur'.wake => cur.wake \/ proc.state # "stopped",
         pc' \in Before \cup Answered => pc \in Before \cup Answered,
         pc' \in Before => pc \in Before,
         proc.state = "stopped" => proc'.state = "stopped"
  PROVE  ReadInv'
<1>1. \A i : Unread(i)' <=> Unread(i)
  BY DEF Unread
<1>2. \A i : UnreadSleep(i)' <=> UnreadSleep(i)
  BY <1>1 DEF UnreadSleep
<1>3. \A i \in DOMAIN Hist : Paired(i) => Paired(i)'
  BY <1>1 DEF Paired
<1>4. SleepIsLogged'
  <2>1. SUFFICES ASSUME "blank" \in job.quirks, cur'.wake, proc'.state = "stopped"
                 PROVE  SleepLogged'
    BY DEF SleepIsLogged
  <2>2. "crash" \notin job.quirks
    BY <2>1 DEF Watched, Orderly, Has
  <2>3. proc.state = "stopped" /\ cur.wake
    BY <2>1, <2>2
  <2> QED
    BY <2>1, <2>3, SleepKept DEF ReadInv, SleepIsLogged
<1>5. UnreadIsOwn'
  BY <1>2 DEF ReadInv, UnreadIsOwn
<1>6. UnreadIsLatest'
  <2>1. SUFFICES ASSUME "late" \in job.quirks, pc' \in Before \cup Answered, NEW i \in DOMAIN Hist,
                        UnreadSleep(i)
                 PROVE  Hist[i].gen = proc.gen /\ pc' \in Answered
    BY <1>2 DEF UnreadIsLatest
  <2>2. Hist[i].gen = proc.gen /\ pc \in Answered
    BY <2>1 DEF ReadInv, UnreadIsLatest
  <2>3. pc \notin Before
    BY <2>2 DEF Before, Answered
  <2> QED
    BY <2>1, <2>2, <2>3
<1>7. UnreadIsPaired'
  <2>1. SUFFICES ASSUME "blank" \notin job.quirks, "late" \notin job.quirks,
                        pc' \in Before \cup Answered, NEW i \in DOMAIN Hist,
                        UnreadSleep(i), pc' \in Before \/ Hist[i].gen < proc.gen
                 PROVE  Paired(i)
    BY <1>2, <1>3 DEF UnreadIsPaired
  <2> QED
    BY <2>1 DEF ReadInv, UnreadIsPaired
<1> QED
  BY <1>4, <1>5, <1>6, <1>7 DEF ReadInv

\* Without blank lines a cycle that is over leaves nothing unread.
LEMMA NothingUnread ==
  ASSUME IInv, Watched, HistInv, CycleInv, ReadInv, ReadProfile, "blank" \notin job.quirks
  PROVE  \A i \in DOMAIN Hist' : ~Unread(i)'
<1>1. PICK w, s \in DOMAIN profile : OneEach(w, s)
  BY RowLines DEF IInv
<1>2. /\ offset' = offset + Cardinality(NewEvents) /\ UNCHANGED <<profile, pending, proc>>
      /\ pc = "profile"
  BY DEF ReadProfile, service
<1>3. offset' = Len(profile)
  BY <1>2, OffsetAtEnd DEF IInv
<1>4. Hist' = Hist
  BY <1>2 DEF Hist
<1>5. DOMAIN Hist = 1..Len(Hist) /\ Len(Hist) \in Nat /\ Len(profile) \in Nat
  BY HistType DEF IInv
<1>6. Len(Hist) <= Len(profile)
  <2>1. CASE "late" \in job.quirks
    <3>1. s \in DOMAIN Hist /\ Hist[s] = profile[s] /\ s \in 1..Len(profile)
      BY HistType DEF IInv, TypeOK
    <3>2. /\ profile[s].phase = "sleep_process" /\ profile[s].success
          /\ s > offset /\ profile[s].model = model
      <4>1. s \in Own("sleep_process")
        BY <1>1 DEF OneEach
      <4>2. /\ s \in (offset + 1)..Len(profile)
            /\ profile[s].phase = "sleep_process" /\ profile[s].success
            /\ profile[s].model = model
        BY <4>1 DEF Own, NewEvents
      <4>3. offset \in Nat
        BY HistType DEF IInv
      <4> QED
        BY <1>5, <4>2, <4>3
    <3>3. Hist[s].gen = proc.gen
      <4>1. UnreadIsLatest /\ UnreadSleep(s)
        BY <3>1, <3>2 DEF ReadInv, Unread, UnreadSleep
      <4> QED
        BY <1>2, <2>1, <3>1, <4>1 DEF UnreadIsLatest, Answered
    <3>4. Hist[s].phase = "sleep_process"
      BY <1>1, <3>1 DEF OneEach, Own
    <3>5. s = Len(Hist)
      BY <3>1, <3>3, <3>4 DEF HistInv
    <3> QED
      BY <1>5, <3>1, <3>5
  <2>2. CASE "late" \notin job.quirks
    <3>1. pending = <<>>
      BY <2>2 DEF HistInv
    <3> QED
      BY <1>5, <3>1, HistType DEF IInv
  <2> QED
    BY <2>1, <2>2
<1>7. \A i \in DOMAIN Hist : ~(i > offset')
  BY <1>3, <1>5, <1>6
<1> QED
  BY <1>4, <1>7 DEF Unread

\* A wake that is emitted before a request is answered leaves no stop to read.
LEMMA WakeEmitted ==
  ASSUME TypeOK, Watched, HistInv, ReadInv, NEW e \in Line, Emit(e), e.phase = "wake",
         UNCHANGED <<job, offset, model>>, pc = "request", pc' = "request",
         proc'.model = model, ~cur'.wake
  PROVE  ReadInv'
<1>1. /\ \A i \in DOMAIN Hist' : Unread(i)' =>
           \/ i \in DOMAIN Hist /\ Hist'[i] = Hist[i] /\ Unread(i)
           \/ Hist'[i] = e /\ e.model = model
      /\ \A i \in DOMAIN Hist : i \in DOMAIN Hist' /\ Hist'[i] = Hist[i]
                                /\ (Unread(i) => Unread(i)')
  BY UnreadMore
<1>2. \A i \in DOMAIN Hist' : UnreadSleep(i)' =>
        i \in DOMAIN Hist /\ Hist'[i] = Hist[i] /\ UnreadSleep(i)
  BY <1>1 DEF UnreadSleep
<1>3. SleepIsLogged'
  BY DEF SleepIsLogged
<1>4. UnreadIsOwn'
  BY DEF UnreadIsOwn
<1>5. UnreadIsLatest'
  BY <1>2 DEF ReadInv, UnreadIsLatest, Before, Answered
<1>6. UnreadIsPaired'
  <2>1. SUFFICES ASSUME "blank" \notin job.quirks, "late" \notin job.quirks,
                        NEW i \in DOMAIN Hist', UnreadSleep(i)'
                 PROVE  Paired(i)'
    BY DEF UnreadIsPaired
  <2>2. i \in DOMAIN Hist /\ UnreadSleep(i)
    BY <1>2, <2>1
  <2>3. Paired(i)
    BY <2>1, <2>2 DEF ReadInv, UnreadIsPaired, Before
  <2> QED
    BY <1>1, <2>2, <2>3, PairKept
<1> QED
  BY <1>3, <1>4, <1>5, <1>6 DEF ReadInv

LEMMA ReadStep ==
  ASSUME IInv, Watched, HistInv, CycleInv, ReadInv, [Next]_vars PROVE ReadInv'
<1> USE DEF adapter, service
<1>1. TypeOK /\ proc.gen \in 0..MaxStarts /\ proc.gen \in Nat /\ proc.model \in ModelNames
      /\ model \in ModelNames /\ proc \in [model : ModelNames, gen : 0..MaxStarts, state : States]
  BY PlanFacts, HistType DEF IInv, TypeOK
<1>2. ASSUME UNCHANGED <<profile, pending>> PROVE Hist' = Hist
  BY <1>2 DEF Hist
<1>3. CASE Service
  <2>1. CASE ServiceStarts \/ ServiceStartFails
    <3>1. PICK success \in BOOLEAN : Emit(Event(model, "wake", proc.gen + 1, success))
      BY <2>1 DEF ServiceStarts, ServiceStartFails
    <3> DEFINE e == Event(model, "wake", proc.gen + 1, success)
    <3>2. /\ pc = "request" /\ pc' = "request" /\ proc'.model = model /\ Emit(e)
          /\ UNCHANGED <<job, offset, model, cur>> /\ proc.gen < MaxStarts
      <4>1. Emit(e)
        BY <3>1
      <4> HIDE DEF e
      <4>2. CASE ServiceStarts
        BY <4>1, <4>2 DEF ServiceStarts, model
      <4>3. CASE ServiceStartFails
        BY <4>1, <4>3 DEF ServiceStartFails, model
      <4> QED
        BY <2>1, <4>2, <4>3
    <3>3. ~cur'.wake
      BY <3>2 DEF CycleInv, Answered
    <3>4. e \in Line /\ e.phase = "wake"
      <4>1. proc.gen + 1 \in 0..MaxStarts
        BY <1>1, <3>2, BoundsAssumption
      <4> QED
        BY <1>1, <4>1, EventType DEF Event
    <3> HIDE DEF e
    <3> QED
      BY <1>1, <3>2, <3>3, <3>4, WakeEmitted
  <2>2. CASE ServiceStopped
    <3>1. PICK success \in IF Has("failure") THEN BOOLEAN ELSE {TRUE} :
            Emit(Event(proc.model, "sleep_process", proc.gen, success))
      BY <2>2 DEF ServiceStopped
    <3> DEFINE e == Event(proc.model, "sleep_process", proc.gen, success)
    <3>2. /\ proc.state = "stopping" /\ proc'.state = "stopped" /\ proc'.gen = proc.gen
          /\ proc'.model = proc.model
          /\ UNCHANGED <<job, pc, cur, offset, model>> /\ Emit(e)
      BY <1>1, <2>2, <3>1 DEF ServiceStopped, model
    <3>3. e \in Line /\ e.phase = "sleep_process" /\ e.gen = proc.gen /\ e.model = proc.model
          /\ e.success = success
      BY <1>1, <3>1, EventType DEF Event
    <3> HIDE DEF e
    <3>4. /\ \A i \in DOMAIN Hist' : Unread(i)' =>
               \/ i \in DOMAIN Hist /\ Hist'[i] = Hist[i] /\ Unread(i)
               \/ Hist'[i] = e /\ e.model = model
          /\ \A i \in DOMAIN Hist : i \in DOMAIN Hist' /\ Hist'[i] = Hist[i]
                                    /\ (Unread(i) => Unread(i)')
      BY <1>1, <3>2, <3>3, UnreadMore
    <3>5. \A i \in DOMAIN Hist' : UnreadSleep(i)' =>
            \/ i \in DOMAIN Hist /\ Hist'[i] = Hist[i] /\ UnreadSleep(i)
            \/ Hist'[i] = e /\ e.model = model
      BY <3>4 DEF UnreadSleep
    <3>6. pc \in Before /\ "blank" \notin job.quirks => proc.model # model
      BY <3>2 DEF CycleInv
    <3>7. SleepIsLogged'
      <4>1. SUFFICES ASSUME "blank" \in job.quirks PROVE SleepLogged'
        BY <3>2 DEF SleepIsLogged
      <4>2. Len(Hist') \in DOMAIN Hist' /\ Hist'[Len(Hist')] = e
        BY <1>1, <3>2, <3>3, Emitted DEF HistInv, Watched
      <4>3. e.success
        BY <3>1, <3>3, <4>1 DEF Watched, Orderly, Has
      <4> QED
        BY <3>2, <3>3, <4>2, <4>3 DEF SleepLogged, Logged
    <3>8. UnreadIsOwn'
      <4>1. SUFFICES ASSUME "blank" \notin job.quirks, pc \in Before \cup Answered,
                            NEW i \in DOMAIN Hist', UnreadSleep(i)'
                     PROVE  proc.model = model
        BY <3>2 DEF UnreadIsOwn
      <4> QED
        BY <3>3, <3>5, <4>1 DEF ReadInv, UnreadIsOwn
    <3>9. UnreadIsLatest'
      <4>1. SUFFICES ASSUME "late" \in job.quirks, pc \in Before \cup Answered,
                            NEW i \in DOMAIN Hist', UnreadSleep(i)'
                     PROVE  Hist'[i].gen = proc.gen /\ pc \in Answered
        BY <3>2 DEF UnreadIsLatest
      <4>2. CASE i \in DOMAIN Hist /\ Hist'[i] = Hist[i] /\ UnreadSleep(i)
        BY <4>1, <4>2 DEF ReadInv, UnreadIsLatest
      <4>3. CASE Hist'[i] = e /\ e.model = model
        <5>1. "blank" \notin job.quirks
          BY <4>1 DEF Watched, Orderly, Has
        <5> QED
          BY <3>3, <3>6, <4>1, <4>3, <5>1
      <4> QED
        BY <3>5, <4>1, <4>2, <4>3
    <3>10. UnreadIsPaired'
      <4>1. SUFFICES ASSUME "blank" \notin job.quirks, "late" \notin job.quirks,
                            pc \in Before \cup Answered, NEW i \in DOMAIN Hist', UnreadSleep(i)',
                            pc \in Before \/ Hist'[i].gen < proc.gen
                     PROVE  Paired(i)'
        BY <3>2 DEF UnreadIsPaired
      <4>2. CASE i \in DOMAIN Hist /\ Hist'[i] = Hist[i] /\ UnreadSleep(i)
        <5>1. Paired(i)
          BY <4>1, <4>2 DEF ReadInv, UnreadIsPaired
        <5> QED
          BY <3>2, <3>4, <4>2, <5>1, PairKept
      <4>3. CASE Hist'[i] = e /\ e.model = model
        BY <1>1, <3>3, <3>6, <4>1, <4>3
      <4> QED
        BY <3>5, <4>1, <4>2, <4>3
    <3> QED
      BY <3>7, <3>8, <3>9, <3>10 DEF ReadInv
  <2>3. CASE ProfileWritten
    <3>1. Hist' = Hist /\ UNCHANGED <<job, pc, cur, proc, offset, model>>
      BY <1>1, <2>3, HistWritten DEF ProfileWritten, model
    <3> QED
      BY <1>1, <3>1, ReadKept
  <2>4. CASE ServiceEvicts \/ ServiceCrashes \/ ServiceReleases
    <3>1. /\ UNCHANGED <<job, pc, cur, profile, pending, offset, model, proc.gen, proc.model>>
          /\ proc.state = "stopped" => proc'.state = "stopped"
          /\ proc.state = "stopped" \/ proc'.state # "stopped" \/ "crash" \in job.quirks
      BY <1>1, <2>4 DEF ServiceEvicts, ServiceCrashes, ServiceReleases, Has, model
    <3> QED
      BY <1>1, <1>2, <3>1, ReadKept
  <2> QED
    BY <1>3, <2>1, <2>2, <2>3, <2>4 DEF Service
<1>4. CASE Quiet
  <2>1. /\ UNCHANGED <<job, model, profile, pending, offset, proc.gen, proc.model>>
        /\ proc.state = "stopped" => proc'.state = "stopped"
        /\ proc.state = "stopped" \/ proc'.state # "stopped"
    BY <1>1, <1>4 DEF Quiet, Baseline, Request, Unload, PollRunning, PollMemory, PollTimeout,
       Summary, model
  <2>2. /\ pc' \in Before \cup Answered => pc \in Before \cup Answered
        /\ pc' \in Before => pc \in Before
    BY <1>4 DEF Quiet, Baseline, Request, Unload, PollRunning, PollMemory, PollTimeout, Summary,
       Before, Answered
  <2>3. cur'.wake => cur.wake \/ proc.state # "stopped"
    <3>1. cur \in CycleType
      BY <1>1 DEF TypeOK
    <3>2. CASE Request
      <4>1. CASE cur' = Fresh
        BY <4>1 DEF Fresh
      <4>2. CASE proc.state = "ready"
        BY <4>2
      <4> QED
        BY <3>2, <4>1, <4>2 DEF Request
    <3>3. CASE Unload \/ PollRunning \/ PollMemory
      BY <3>1, <3>3 DEF Unload, PollRunning, PollMemory, CycleType
    <3>4. CASE Baseline \/ PollTimeout \/ Summary
      BY <3>4 DEF Baseline, PollTimeout, Summary
    <3> QED
      BY <1>4, <3>2, <3>3, <3>4 DEF Quiet
  <2> QED
    BY <1>1, <1>2, <2>1, <2>2, <2>3, ReadKept
<1>5. CASE ReadProfile
  <2>1. cur' = Fresh /\ pc' \in {"request", "summary"} /\ UNCHANGED job
    BY <1>5, AfterRead DEF ReadProfile
  <2>2. "blank" \notin job.quirks => \A i \in DOMAIN Hist' : ~UnreadSleep(i)'
    BY <1>5, NothingUnread DEF UnreadSleep
  <2>3. "late" \in job.quirks => "blank" \notin job.quirks
    BY DEF Watched, Orderly, Has
  <2>4. SleepIsLogged'
    BY <2>1 DEF SleepIsLogged, Fresh
  <2>5. UnreadIsOwn' /\ UnreadIsLatest' /\ UnreadIsPaired'
    BY <2>1, <2>2, <2>3 DEF UnreadIsOwn, UnreadIsLatest, UnreadIsPaired
  <2> QED
    BY <2>4, <2>5 DEF ReadInv
<1>6. CASE Lost
  <2>1. pc' = "failed" /\ cur' = Fresh
    BY <1>6 DEF Lost
  <2>2. SleepIsLogged'
    BY <2>1 DEF SleepIsLogged, Fresh
  <2>3. UnreadIsOwn' /\ UnreadIsLatest' /\ UnreadIsPaired'
    BY <2>1 DEF UnreadIsOwn, UnreadIsLatest, UnreadIsPaired, Before, Answered
  <2> QED
    BY <2>2, <2>3 DEF ReadInv
<1>7. CASE UNCHANGED vars
  <2>1. UNCHANGED <<job, pc, cur, profile, pending, proc, offset, model>>
    BY <1>7 DEF vars, model
  <2> QED
    BY <1>1, <1>2, <2>1, ReadKept
<1> QED
  BY <1>3, <1>4, <1>5, <1>6, <1>7, WatchedSteps

LEMMA OwnRowStep ==
  ASSUME IInv, Watched, HistInv, CycleInv, ReadInv, RowIsOwnCycle, [Next]_vars
  PROVE  RowIsOwnCycle'
<1> USE DEF adapter, service
<1>1. ASSUME UNCHANGED rows PROVE RowIsOwnCycle'
  BY <1>1 DEF RowIsOwnCycle, Watched
<1>2. CASE ReadProfile
  <2>1. PICK w, s \in DOMAIN profile :
          /\ OneEach(w, s)
          /\ Record(LlamaRow(profile[w].gen, profile[s].gen), Len(plan.models), "request")
    BY <1>2, RowLines DEF IInv
  <2> DEFINE row == LlamaRow(profile[w].gen, profile[s].gen)
  <2>2. row.ok => row.wakeGen = row.gen /\ row.sleepGen = row.gen
    <3>1. SUFFICES ASSUME row.ok
                   PROVE  row.wakeGen = row.gen /\ row.sleepGen = row.gen
      OBVIOUS
    <3>2. cur.wake /\ cur.slept
      BY <3>1 DEF LlamaRow
    <3>3. cur.gen = proc.gen /\ proc.model = model /\ (proc.gen > 0 => WakeLogged)
      BY <3>2 DEF CycleInv
    <3>4. "blank" \in job.quirks => proc.state = "stopped"
      BY <3>2, <3>3 DEF CycleInv
    <3>5. /\ profile[w].gen = proc.gen
          /\ "blank" \notin job.quirks => proc.state = "stopped"
          /\ proc.state = "stopped" => profile[s].gen = proc.gen
      BY <1>2, <2>1, <3>2, <3>3, ReadOutcome DEF ReadProfile
    <3>6. profile[w].gen = proc.gen /\ profile[s].gen = proc.gen
      BY <3>4, <3>5
    <3> QED
      BY <3>3, <3>6 DEF LlamaRow
  <2>3. rows' = Append(rows, row) /\ rows \in Seq(RowType)
    BY <2>1 DEF Record, IInv, TypeOK
  <2> HIDE DEF row
  <2>4. \A i \in DOMAIN rows' : (i \in DOMAIN rows /\ rows'[i] = rows[i]) \/ rows'[i] = row
    BY <2>3
  <2> QED
    BY <2>2, <2>4 DEF RowIsOwnCycle, Watched
<1>3. CASE Lost
  BY <1>3 DEF Lost, RowIsOwnCycle
<1>4. CASE Service \/ Quiet
  BY <1>1, <1>4 DEF Service, ServiceStarts, ServiceStartFails, ServiceEvicts, ServiceStopped,
     ServiceCrashes, ServiceReleases, ProfileWritten, Quiet, Baseline, Request, Unload, PollRunning,
     PollMemory, PollTimeout, Summary
<1>5. CASE UNCHANGED vars
  BY <1>1, <1>5 DEF vars
<1> QED
  BY <1>2, <1>3, <1>4, <1>5, WatchedSteps

\* A collection may begin with a process that logged nothing, with its wake, or with
\* its wake and its sleep.
LEMMA OwnInit == Init => OwnInv
<1> SUFFICES ASSUME Init, Watched PROVE HistInv /\ CycleInv /\ ReadInv /\ RowIsOwnCycle
  BY DEF OwnInv
<1> DEFINE Wake == Event(proc.model, "wake", 0, TRUE)
           Slept == Event(proc.model, "sleep_process", 0, TRUE)
<1>1. InitLlama
  BY DEF Init, InitSwapServe, Watched
<1>2. rows = <<>> /\ offset = 0 /\ pending = <<>> /\ cur = Fresh /\ pc = "baseline"
  BY <1>1 DEF Init, InitLlama
<1>3. /\ proc.gen = 0 /\ proc.state # "stopping"
      /\ \/ profile = <<>>
         \/ proc.state = "ready" /\ profile = <<Wake>>
         \/ /\ "late" \notin job.quirks /\ proc.state = "stopped" /\ profile = <<Wake, Slept>>
            /\ proc.model = model
  <2>1. ASSUME NEW m, proc = [model |-> m, gen |-> 0, state |-> "ready"],
               profile \in {<<>>, <<Event(m, "wake", 0, TRUE)>>}
        PROVE  /\ proc.gen = 0 /\ proc.state = "ready"
               /\ profile = <<>> \/ profile = <<Wake>>
    <3>1. proc.model = m /\ proc.gen = 0 /\ proc.state = "ready"
      BY <2>1
    <3> QED
      BY <2>1, <3>1
  <2>2. ASSUME proc = [model |-> plan.models[1], gen |-> 0, state |-> "stopped"],
               profile = IF job.reused
                           THEN <<Event(plan.models[1], "wake", 0, TRUE),
                                  Event(plan.models[1], "sleep_process", 0, TRUE)>>
                           ELSE <<>>
        PROVE  /\ proc.gen = 0 /\ proc.state = "stopped"
               /\ \/ profile = <<>>
                  \/ /\ "late" \notin job.quirks /\ profile = <<Wake, Slept>>
                     /\ proc.model = model
    <3>1. proc.model = plan.models[1] /\ proc.gen = 0 /\ proc.state = "stopped"
      BY <2>2
    <3>2. model = plan.models[1]
      BY DEF model, Init
    <3>3. job.reused => "late" \notin job.quirks
      BY DEF Watched, Orderly, Has
    <3> QED
      BY <2>2, <3>1, <3>2, <3>3
  <2> HIDE DEF Wake, Slept
  <2> QED
    BY <1>1, <2>1, <2>2 DEF InitLlama
<1>4. /\ Wake.gen = 0 /\ Wake.model = proc.model /\ Wake.phase = "wake" /\ Wake.success
      /\ Slept.gen = 0 /\ Slept.model = proc.model /\ Slept.phase = "sleep_process"
  BY DEF Event
<1> HIDE DEF Wake, Slept
<1>5. \/ DOMAIN Hist = {} /\ Len(Hist) = 0
      \/ DOMAIN Hist = {1} /\ Hist[1] = Wake /\ proc.state = "ready" /\ Len(Hist) = 1
      \/ /\ DOMAIN Hist = {1, 2} /\ Hist[1] = Wake /\ Hist[2] = Slept /\ Len(Hist) = 2
         /\ "late" \notin job.quirks /\ proc.state = "stopped" /\ proc.model = model
  <2>1. CASE profile = <<>>
    BY <1>2, <2>1 DEF Hist
  <2>2. CASE proc.state = "ready" /\ profile = <<Wake>>
    <3>1. Hist = <<Wake>>
      BY <1>2, <2>2 DEF Hist
    <3> QED
      BY <2>2, <3>1
  <2>3. CASE /\ "late" \notin job.quirks /\ proc.state = "stopped" /\ profile = <<Wake, Slept>>
             /\ proc.model = model
    <3>1. Hist = <<Wake, Slept>>
      BY <1>2, <2>3 DEF Hist
    <3> QED
      BY <2>3, <3>1
  <2> QED
    BY <1>3, <2>1, <2>2, <2>3
<1>6. HistInv
  <2>1. \A i \in DOMAIN Hist : i \in {1, 2} /\ Hist[i].gen = 0 /\ Hist[i].model = proc.model
                               /\ Hist[i].phase # "blank"
    BY <1>4, <1>5
  <2>2. ASSUME NEW i \in DOMAIN Hist, Hist[i].phase = "sleep_process"
        PROVE  proc.state = "stopped" /\ i = Len(Hist)
    BY <1>4, <1>5, <2>2
  <2>3. offset <= Len(profile) /\ pending = <<>>
    BY <1>2, <1>3
  <2> QED
    BY <1>3, <2>1, <2>2, <2>3 DEF HistInv
<1>7. CycleInv
  <2>1. ~cur.wake /\ ~cur.slept
    BY <1>2 DEF Fresh
  <2> QED
    BY <1>2, <1>3, <2>1 DEF CycleInv, Before, Answered
<1>8. SleepIsLogged
  BY <1>2 DEF SleepIsLogged, Fresh
<1>9. UnreadIsLatest /\ UnreadIsOwn
  <2>1. \A i \in DOMAIN Hist : Hist[i].phase = "sleep_process" =>
          "late" \notin job.quirks /\ proc.model = model
    BY <1>4, <1>5
  <2> QED
    BY <2>1 DEF UnreadIsLatest, UnreadIsOwn, UnreadSleep
<1>10. UnreadIsPaired
  <2>1. SUFFICES ASSUME NEW i \in DOMAIN Hist, Unread(i), Hist[i].phase = "sleep_process"
                 PROVE  Paired(i)
    BY DEF UnreadIsPaired, UnreadSleep
  <2>2. 1 \in DOMAIN Hist /\ i = 2 /\ Hist[1] = Wake /\ Hist[2] = Slept
    BY <1>4, <1>5, <2>1
  <2>3. Unread(1) /\ Hist[1].phase = "wake" /\ Hist[1].success /\ Hist[1].gen = Hist[i].gen
    BY <1>2, <1>4, <2>1, <2>2 DEF Unread
  <2> QED
    BY <2>2, <2>3 DEF Paired
<1> QED
  BY <1>2, <1>6, <1>7, <1>8, <1>9, <1>10 DEF ReadInv, RowIsOwnCycle

LEMMA OwnStep == IInv /\ OwnInv /\ [Next]_vars => OwnInv'
<1> SUFFICES ASSUME IInv, OwnInv, [Next]_vars PROVE OwnInv'
  OBVIOUS
<1>1. UNCHANGED job
  BY DEF Next, Service, ServiceStarts, ServiceStartFails, ServiceEvicts, ServiceStopped,
     ServiceCrashes, ServiceReleases, ProfileWritten, Adapter, Baseline, Request, Unload,
     PollRunning,
     PollMemory, PollTimeout, ReadProfile, RejectProfile, SkipProfile, Reference, Swapout,
     ReleasedMemory, Swapin, Infer, Summary, Abort, Lost, Ended, vars
<1>2. Watched' <=> Watched
  BY <1>1 DEF Watched, Orderly, Has
<1> QED
  BY <1>2, HistStep, CycleStep, ReadStep, OwnRowStep DEF OwnInv

LEMMA OwnInvariance == Spec => []OwnInv
<1>1. IInv /\ OwnInv /\ UNCHANGED vars => OwnInv'
  BY OwnStep
<1> QED
  BY OwnInit, OwnStep, <1>1, Invariance, PTL DEF Spec

(* With an orderly service the two latencies of a successful llama-swap    *)
(* row are about the process that answered its request, whatever the       *)
(* service did between any two calls of the adapter.                       *)
THEOREM RowIsOwnCycleHolds == Spec => []RowIsOwnCycle
<1>1. OwnInv => RowIsOwnCycle
  BY DEF OwnInv, Watched, RowIsOwnCycle
<1> QED
  BY <1>1, OwnInvariance, PTL

=============================================================================
