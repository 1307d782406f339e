--------------------------- MODULE CheckFlow_proofs ---------------------------
(* Types of CheckFlow, and the promise that check-now goes first. *)
EXTENDS CheckFlow, FiniteSetTheorems, TLAPS

LEMMA Capacities == PriorityCap \in Nat /\ OutCap \in Nat /\ ResultsCap \in Nat
BY CheckFlowAssumption DEF CheckFlowAssumption

(* A queue with room, and one more element. *)
LEMMA RoomForOne ==
    ASSUME NEW S, NEW q \in Seq(S), NEW e \in S, NEW cap \in Nat, Len(q) < cap
    PROVE  Append(q, e) \in Seq(S) /\ Len(Append(q, e)) <= cap /\ Append(q, e) # <<>>
OBVIOUS

(* The head of a queue has the type of its elements, and the rest still fits. *)
LEMMA OneTaken ==
    ASSUME NEW S, NEW q \in Seq(S), q # <<>>, NEW cap \in Nat, Len(q) <= cap
    PROVE  Head(q) \in S /\ Tail(q) \in Seq(S) /\ Len(Tail(q)) <= cap
OBVIOUS

LEMMA CounterTypes ==
    ASSUME NEW f \in [Objects -> Nat], NEW o \in Objects
    PROVE  /\ [f EXCEPT ![o] = @ + 1] \in [Objects -> Nat]
           /\ f[o] > 0 => [f EXCEPT ![o] = @ - 1] \in [Objects -> Nat]
OBVIOUS

LEMMA NewJobs == \A o \in Objects : Planned(o) \in Job /\ Asked(o) \in Job
                                 /\ Planned(o).object = o /\ Asked(o).object = o
BY DEF Planned, Asked, Job

LEMMA PriorityLane ==
    ASSUME TypeOK, NEW job \in Job, OnPriority(job), HasPriorityRoom
    PROVE  /\ priority' \in Seq(Job) /\ Len(priority') <= PriorityCap /\ priority' # <<>>
           /\ accepted' \in [Objects -> Nat]
<1>1. priority \in Seq(Job) /\ accepted \in [Objects -> Nat] /\ job.object \in Objects
  BY DEF TypeOK, Job
<1> QED
  BY <1>1, RoomForOne, CounterTypes, Capacities DEF OnPriority, HasPriorityRoom, Count

LEMMA OutLane ==
    ASSUME TypeOK, NEW job \in Job, OnOut(job)
    PROVE  /\ out' \in Seq(Job) /\ Len(out') <= OutCap
           /\ accepted' \in [Objects -> Nat]
<1>1. out \in Seq(Job) /\ accepted \in [Objects -> Nat] /\ job.object \in Objects
  BY DEF TypeOK, Job
<1> QED
  BY <1>1, RoomForOne, CounterTypes, Capacities DEF OnOut, Count

LEMMA EmitTypes ==
    ASSUME TypeOK, NEW o \in Objects, NEW source \in {"scheduler", "freshness"},
           Emit(o, source)
    PROVE  results' \in Seq(Result) /\ Len(results') <= ResultsCap
<1>1. results \in Seq(Result)
  BY DEF TypeOK
<1>2. [object |-> o, source |-> source] \in Result
  BY DEF Result
<1> QED
  BY <1>1, <1>2, RoomForOne, Capacities DEF Emit

LEMMA CascadeTypes ==
    ASSUME NEW of \in Objects, NEW todo \in SUBSET Objects
    PROVE  Cascade(of, todo) \in {Idle} \cup [pc : {"cascade"}, of : Objects, todo : SUBSET Objects]
BY DEF Cascade

LEMMA TypeInit == Init => TypeOK
BY CheckFlowAssumption DEF Init, TypeOK, CheckFlowAssumption, Take, Job, Result

(* The asking goroutines and the wheel. *)
LEMMA TypeLanes ==
    ASSUME TypeOK, NEW o \in Objects,
           Due(o) \/ UserAsks(o) \/ RetryFires(o) \/ GetsRoom(o)
    PROVE  TypeOK'
<1>1. ASSUME CheckNow(o)
      PROVE  /\ priority' \in Seq(Job) /\ Len(priority') <= PriorityCap
             /\ accepted' \in [Objects -> Nat] /\ asking' \in [Objects -> Nat]
  <2>1. asking \in [Objects -> Nat] /\ priority \in Seq(Job) /\ Len(priority) <= PriorityCap
        /\ accepted \in [Objects -> Nat]
    BY DEF TypeOK
  <2>2. CASE HasPriorityRoom
    <3>1. OnPriority(Asked(o)) /\ asking' = asking
      BY <1>1, <2>2 DEF CheckNow
    <3> QED
      BY <3>1, <2>1, <2>2, PriorityLane, NewJobs
  <2>3. CASE ~HasPriorityRoom
    BY <1>1, <2>1, <2>3, CounterTypes DEF CheckNow, Count
  <2> QED
    BY <2>2, <2>3
<1>2. CASE Due(o)
  <2>1. out' \in Seq(Job) /\ Len(out') <= OutCap /\ accepted' \in [Objects -> Nat]
    BY <1>2, OutLane, NewJobs DEF Due
  <2>2. jobs' \in Nat
    BY <1>2 DEF Due, NewJob, TypeOK
  <2> QED
    BY <1>2, <2>1, <2>2 DEF Due, TypeOK
<1>3. CASE UserAsks(o)
  <2>1. CheckNow(o)
    BY <1>3 DEF UserAsks
  <2>2. jobs' \in Nat
    <3>1. jobs \in Nat /\ jobs' = jobs + 1
      BY <1>3 DEF UserAsks, NewJob, TypeOK
    <3> QED
      BY <3>1
  <2> QED
    BY <1>3, <1>1, <2>1, <2>2 DEF UserAsks, CheckNow, TypeOK
<1>4. CASE RetryFires(o)
  <2>1. retries' \in [Objects -> Nat]
    BY <1>4, CounterTypes DEF RetryFires, TypeOK
  <2>2. CheckNow(o)
    BY <1>4 DEF RetryFires
  <2> QED
    BY <1>4, <1>1, <2>1, <2>2 DEF RetryFires, CheckNow, TypeOK
<1>5. CASE GetsRoom(o)
  <2>1. out' \in Seq(Job) /\ Len(out') <= OutCap /\ accepted' \in [Objects -> Nat]
    BY <1>5, OutLane, NewJobs DEF GetsRoom
  <2>2. asking' \in [Objects -> Nat]
    BY <1>5, CounterTypes DEF GetsRoom, TypeOK
  <2> QED
    BY <1>5, <2>1, <2>2 DEF GetsRoom, TypeOK
<1> QED
  BY <1>2, <1>3, <1>4, <1>5

(* The loop of the executor and its workers. *)
LEMMA TypeLoop ==
    ASSUME TypeOK, Loop \/ (\E o \in Objects : Finish(o))
    PROVE  TypeOK'
<1>1. ASSUME NEW job \in Job, Accept(job)
      PROVE  /\ dispatcher' \in {Take, Wait} \cup [pc : {"job"}, job : Job]
             /\ done' \in [Objects -> Nat]
  <2>1. done \in [Objects -> Nat] /\ job.object \in Objects
    BY DEF TypeOK, Job
  <2> QED
    BY <1>1, <2>1, CounterTypes DEF Accept, Count
<1>2. CASE LookFirst
  BY <1>2 DEF LookFirst, TypeOK, lanes, history
<1>3. CASE TakePriority
  <2>1. Head(priority) \in Job /\ Tail(priority) \in Seq(Job)
        /\ Len(Tail(priority)) <= PriorityCap
    BY <1>3, OneTaken, Capacities DEF TakePriority, TypeOK
  <2>2. /\ dispatcher' \in {Take, Wait} \cup [pc : {"job"}, job : Job]
        /\ done' \in [Objects -> Nat]
    <3>1. PICK job \in Job : job = Head(priority)
      BY <2>1
    <3>2. Accept(job)
      BY <1>3, <3>1 DEF TakePriority, Accept
    <3> QED
      BY <3>2, <1>1
  <2> QED
    BY <1>3, <2>1, <2>2 DEF TakePriority, TypeOK
<1>4. CASE TakeOut
  <2>1. Head(out) \in Job /\ Tail(out) \in Seq(Job) /\ Len(Tail(out)) <= OutCap
    BY <1>4, OneTaken, Capacities DEF TakeOut, TypeOK
  <2>2. overtaken' \in Nat
    BY <1>4 DEF TakeOut, TypeOK
  <2>3. /\ dispatcher' \in {Take, Wait} \cup [pc : {"job"}, job : Job]
        /\ done' \in [Objects -> Nat]
    <3>1. PICK job \in Job : job = Head(out)
      BY <2>1
    <3>2. Accept(job)
      BY <1>4, <3>1 DEF TakeOut, Accept
    <3> QED
      BY <3>2, <1>1
  <2> QED
    BY <1>4, <2>1, <2>2, <2>3 DEF TakeOut, TypeOK
<1>5. dispatcher.pc = "job" => dispatcher.job \in Job /\ dispatcher.job.object \in Objects
  BY DEF TypeOK, Take, Wait, Job
<1>6. CASE Dispatch
  <2>1. running' \in [Objects -> Nat]
    BY <1>6, <1>5, CounterTypes DEF Dispatch, Count, TypeOK
  <2> QED
    BY <1>6, <2>1 DEF Dispatch, TypeOK, lanes, history
<1>7. CASE Probe
  BY <1>7, <1>5, EmitTypes DEF Probe, TypeOK, lanes, history
<1>8. ASSUME NEW o \in Objects, Finish(o)
      PROVE  TypeOK'
  <2>1. results' \in Seq(Result) /\ Len(results') <= ResultsCap
    BY <1>8, EmitTypes DEF Finish
  <2>2. running' \in [Objects -> Nat]
    BY <1>8, CounterTypes DEF Finish, TypeOK
  <2> QED
    BY <1>8, <2>1, <2>2 DEF Finish, TypeOK, lanes, history
<1> QED
  BY <1>2, <1>3, <1>4, <1>6, <1>7, <1>8 DEF Loop

(* The goroutine of the pipeline, and deletions. *)
LEMMA TypePipeline ==
    ASSUME TypeOK, Pipeline \/ (\E o \in Objects : RemoveObject(o))
    PROVE  TypeOK'
<1>1. Children \in [Objects -> SUBSET Objects]
  BY CheckFlowAssumption DEF CheckFlowAssumption
<1>2. \A o \in Objects : Dependents(o) \in SUBSET Objects
  BY <1>1 DEF Dependents
<1>3. CASE Process
  <2>1. Head(results) \in Result /\ Tail(results) \in Seq(Result)
        /\ Len(Tail(results)) <= ResultsCap
    BY <1>3, OneTaken, Capacities DEF Process, TypeOK
  <2>2. Head(results).object \in Objects
    BY <2>1 DEF Result
  <2>3. done' \in [Objects -> Nat]
    BY <1>3, <2>2, CounterTypes DEF Process, Count, TypeOK
  <2>4. retries' \in [Objects -> Nat]
    <3>1. retries' = retries \/ retries' = [retries EXCEPT ![Head(results).object] = @ + 1]
      BY <1>3 DEF Process, Count
    <3>2. retries \in [Objects -> Nat]
      BY DEF TypeOK
    <3> QED
      BY <3>1, <3>2, <2>2, CounterTypes
  <2>5. findings' \in Nat
    BY <1>3 DEF Process, Finding, TypeOK
  <2>6. \/ pipeline' = Idle
        \/ pipeline' = Cascade(Head(results).object, Dependents(Head(results).object))
    BY <1>3 DEF Process
  <2>7. pipeline' \in {Idle} \cup [pc : {"cascade"}, of : Objects, todo : SUBSET Objects]
    BY <2>2, <2>6, <1>2, CascadeTypes
  <2> QED
    BY <1>3, <2>1, <2>3, <2>4, <2>5, <2>7 DEF Process, TypeOK, lanes
<1>4. ASSUME NEW o \in Objects, CheckChild(o)
      PROVE  TypeOK'
  <2> DEFINE rest == pipeline.todo \ {o}
  <2>1. pipeline \in [pc : {"cascade"}, of : Objects, todo : SUBSET Objects]
    BY <1>4 DEF CheckChild, TypeOK, Idle
  <2>2. pipeline.of \in Objects /\ rest \in SUBSET Objects
    BY <2>1
  <2>3. Cascade(pipeline.of, rest) \in
            {Idle} \cup [pc : {"cascade"}, of : Objects, todo : SUBSET Objects]
    BY <2>2, CascadeTypes
  <2>4. [pc |-> "push", object |-> o, of |-> pipeline.of, todo |-> rest] \in
            [pc : {"push"}, object : Objects, of : Objects, todo : SUBSET Objects]
    BY <2>2
  <2>5. /\ priority' \in Seq(Job) /\ Len(priority') <= PriorityCap
        /\ accepted' \in [Objects -> Nat]
    <3>1. priority \in Seq(Job) /\ Len(priority) <= PriorityCap /\ accepted \in [Objects -> Nat]
      BY DEF TypeOK
    <3> QED
      BY <1>4, <3>1, PriorityLane, NewJobs DEF CheckChild
  <2> HIDE DEF rest
  <2>6. \/ pipeline' = Cascade(pipeline.of, rest)
        \/ pipeline' = [pc |-> "push", object |-> o, of |-> pipeline.of, todo |-> rest]
    BY <1>4 DEF CheckChild, rest
  <2> QED
    BY <1>4, <2>3, <2>4, <2>5, <2>6 DEF CheckChild, TypeOK
<1>5. CASE PushChild
  <2>1. pipeline \in [pc : {"push"}, object : Objects, of : Objects, todo : SUBSET Objects]
    BY <1>5 DEF PushChild, TypeOK, Idle
  <2>2. Cascade(pipeline.of, pipeline.todo) \in
            {Idle} \cup [pc : {"cascade"}, of : Objects, todo : SUBSET Objects]
    BY <2>1, CascadeTypes
  <2>3. out' \in Seq(Job) /\ Len(out') <= OutCap /\ accepted' \in [Objects -> Nat]
    <3>1. PICK o \in Objects : o = pipeline.object
      BY <2>1
    <3>2. OnOut(Asked(o))
      BY <1>5, <3>1 DEF PushChild, OnOut
    <3> QED
      BY <3>2, OutLane, NewJobs
  <2> QED
    BY <1>5, <2>2, <2>3 DEF PushChild, TypeOK
<1>6. ASSUME NEW o \in Objects, RemoveObject(o)
      PROVE  TypeOK'
  <2>1. gone' \subseteq Objects
    BY <1>6 DEF RemoveObject, TypeOK
  <2>2. findings \in Nat /\ findings' = findings + 1
    BY <1>6 DEF RemoveObject, Finding, TypeOK
  <2>3. findings' \in Nat
    BY <2>2
  <2> QED
    BY <1>6, <2>1, <2>3 DEF RemoveObject, TypeOK, lanes, history
<1> QED
  BY <1>3, <1>4, <1>5, <1>6 DEF Pipeline

(* Every state is of its type; in particular no queue ever holds more than its
   capacity, whoever sends to it (channels of scheduler.go: New, eventbus.go: New). *)
THEOREM TypeCorrect == Spec => []TypeOK
<1>1. TypeOK /\ [Next]_vars => TypeOK'
  <2> SUFFICES ASSUME TypeOK, [Next]_vars
               PROVE  TypeOK'
    OBVIOUS
  <2>1. CASE UNCHANGED vars
    BY <2>1 DEF vars, lanes, history, TypeOK
  <2>2. CASE Next
    BY <2>2, TypeLanes, TypeLoop, TypePipeline DEF Next
  <2> QED
    BY <2>1, <2>2
<1> QED
  BY <1>1, TypeInit, PTL DEF Spec
-----------------------------------------------------------------------------
(* An overtaken job still waits, and the loop will look at its lane before it
   waits on both again. *)
OvertakenWaits == overtaken > 0 => priority # <<>> /\ dispatcher.pc # "wait"

PriorityInv == TypeOK /\ PriorityFirst /\ OvertakenWaits

(* A check-now in its lane is overtaken by one job at most: the loop of the
   executor polls that lane first (executor.go: Run). *)
THEOREM CheckNowFirst == Spec => []PriorityFirst
<1>1. Init => PriorityInv
  BY TypeInit DEF Init, PriorityInv, PriorityFirst, OvertakenWaits
<1>2. PriorityInv /\ [Next]_vars => PriorityInv'
  <2> SUFFICES ASSUME PriorityInv, TypeOK', [Next]_vars
               PROVE  PriorityFirst' /\ OvertakenWaits'
    BY TypeLanes, TypeLoop, TypePipeline DEF PriorityInv, Next, vars, lanes, history, TypeOK
  <2> USE DEF PriorityInv, PriorityFirst, OvertakenWaits
  <2>1. ASSUME NEW o \in Objects, CheckNow(o)
        PROVE  priority = <<>> \/ priority' # <<>>
    BY <2>1, PriorityLane, NewJobs DEF CheckNow
  <2>2. ASSUME NEW o \in Objects, Due(o) \/ UserAsks(o) \/ RetryFires(o) \/ GetsRoom(o)
        PROVE  PriorityFirst' /\ OvertakenWaits'
    BY <2>2, <2>1 DEF Due, UserAsks, RetryFires, GetsRoom, CheckNow
  <2>3. CASE LookFirst
    BY <2>3 DEF LookFirst, history, TypeOK
  <2>4. CASE TakePriority
    BY <2>4 DEF TakePriority
  <2>5. CASE TakeOut
    <3>1. overtaken \in Nat /\ overtaken = 0
      BY <2>5 DEF TakeOut, TakesOut, TypeOK
    <3>2. dispatcher'.pc # "wait"
      BY <2>5 DEF TakeOut, Accept, Take
    <3> QED
      BY <2>5, <3>1, <3>2 DEF TakeOut
  <2>6. CASE Dispatch \/ Probe
    BY <2>6 DEF Dispatch, Probe, lanes, history, Take
  <2>7. ASSUME NEW o \in Objects, Finish(o) \/ RemoveObject(o)
        PROVE  PriorityFirst' /\ OvertakenWaits'
    BY <2>7 DEF Finish, RemoveObject, lanes, history
  <2>8. CASE Process \/ PushChild
    BY <2>8 DEF Process, PushChild, lanes
  <2>9. ASSUME NEW o \in Objects, CheckChild(o)
        PROVE  PriorityFirst' /\ OvertakenWaits'
    <3>1. priority = <<>> \/ priority' # <<>>
      BY <2>9, PriorityLane, NewJobs DEF CheckChild
    <3> QED
      BY <2>9, <3>1 DEF CheckChild
  <2>10. CASE UNCHANGED vars
    BY <2>10 DEF vars, lanes, history
  <2> QED
    BY <2>2, <2>3, <2>4, <2>5, <2>6, <2>7, <2>8, <2>9, <2>10 DEF Next, Loop, Pipeline
<1> QED
  BY <1>1, <1>2, PTL DEF Spec, PriorityInv
-----------------------------------------------------------------------------
(* How often an object is in a queue, and how that changes with its ends. *)
Places(q, o) == {i \in DOMAIN q : q[i].object = o}
One(x, o) == IF x.object = o THEN 1 ELSE 0

LEMMA JobsFinite ==
    ASSUME NEW S, NEW q \in Seq(S), NEW o
    PROVE  IsFiniteSet(Places(q, o)) /\ Jobs(q, o) \in Nat
<1>1. Places(q, o) \in SUBSET (1..Len(q)) /\ Len(q) \in Int
  BY DEF Places
<1>2. IsFiniteSet(Places(q, o))
  BY <1>1, FS_Interval, FS_Subset
<1>3. Jobs(q, o) = Cardinality(Places(q, o))
  BY DEF Jobs, Places
<1> QED
  BY <1>2, <1>3, FS_CardinalityType

LEMMA JobsEmpty == ASSUME NEW o PROVE Jobs(<<>>, o) = 0
<1>1. Jobs(<<>>, o) = Cardinality({})
  <2>1. {i \in DOMAIN <<>> : <<>>[i].object = o} = {}
    OBVIOUS
  <2> QED
    BY <2>1 DEF Jobs
<1> QED
  BY <1>1, FS_EmptySet

LEMMA JobsAppend ==
    ASSUME NEW S, NEW q \in Seq(S), NEW e \in S, NEW o
    PROVE  Jobs(Append(q, e), o) = Jobs(q, o) + One(e, o)
<1> DEFINE n == Len(q)
<1>1. n \in Nat /\ DOMAIN q = 1..n /\ DOMAIN Append(q, e) = 1..(n + 1)
  OBVIOUS
<1>2. Append(q, e)[n + 1] = e /\ \A i \in 1..n : Append(q, e)[i] = q[i]
  OBVIOUS
<1>3. n + 1 \notin Places(q, o)
  BY <1>1 DEF Places
<1>4. Places(Append(q, e), o) = IF e.object = o THEN Places(q, o) \cup {n + 1} ELSE Places(q, o)
  BY <1>1, <1>2 DEF Places
<1>5. IsFiniteSet(Places(q, o)) /\ Cardinality(Places(q, o)) \in Nat
  BY JobsFinite, FS_CardinalityType
<1>6. /\ Jobs(q, o) = Cardinality(Places(q, o))
      /\ Jobs(Append(q, e), o) = Cardinality(Places(Append(q, e), o))
  BY DEF Jobs, Places
<1> HIDE DEF n
<1>7. Cardinality(Places(q, o) \cup {n + 1}) = Cardinality(Places(q, o)) + 1
  BY <1>3, <1>5, FS_AddElement
<1>8. CASE e.object = o
  BY <1>4, <1>5, <1>6, <1>7, <1>8 DEF One
<1>9. CASE e.object # o
  BY <1>4, <1>5, <1>6, <1>9 DEF One
<1> QED
  BY <1>8, <1>9

LEMMA JobsTail ==
    ASSUME NEW S, NEW q \in Seq(S), q # <<>>, NEW o
    PROVE  Jobs(q, o) = One(Head(q), o) + Jobs(Tail(q), o)
<1> DEFINE n == Len(q)
           rest == Places(q, o) \ {1}
           next == [i \in Places(Tail(q), o) |-> i + 1]
<1>1. n \in Nat \ {0} /\ DOMAIN q = 1..n /\ Head(q) = q[1]
  OBVIOUS
<1>2. Tail(q) \in Seq(S) /\ DOMAIN Tail(q) = 1..(n - 1) /\ \A i \in 1..(n - 1) : Tail(q)[i] = q[i + 1]
  OBVIOUS
<1>3. \A i : i \in Places(Tail(q), o) <=> i \in 1..(n - 1) /\ q[i + 1].object = o
  BY <1>2 DEF Places
<1>4. \A j : j \in rest <=> j \in 2..n /\ q[j].object = o
  BY <1>1 DEF Places
<1>5. next \in [Places(Tail(q), o) -> rest]
  BY <1>1, <1>3, <1>4
<1>6. \A i, j \in Places(Tail(q), o) : next[i] = next[j] => i = j
  BY <1>3
<1>7. \A j \in rest : \E i \in Places(Tail(q), o) : next[i] = j
  <2> TAKE j \in rest
  <2>1. j - 1 \in Places(Tail(q), o)
    BY <1>1, <1>3, <1>4
  <2>2. next[j - 1] = j
    BY <2>1, <1>4
  <2> QED
    BY <2>1, <2>2
<1>8. ExistsBijection(Places(Tail(q), o), rest)
  <2> HIDE DEF next, rest
  <2> QED
    BY <1>5, <1>6, <1>7 DEF ExistsBijection, Bijection, Injection, Surjection, IsInjective
<1>9. IsFiniteSet(Places(Tail(q), o)) /\ IsFiniteSet(Places(q, o))
  BY <1>2, JobsFinite
<1>10. Cardinality(rest) = Cardinality(Places(Tail(q), o))
  BY <1>8, <1>9, FS_Bijection
<1>11. Cardinality(rest) = IF 1 \in Places(q, o) THEN Cardinality(Places(q, o)) - 1
                                                ELSE Cardinality(Places(q, o))
  BY <1>9, FS_RemoveElement
<1>12. 1 \in Places(q, o) <=> Head(q).object = o
  BY <1>1 DEF Places
<1>13. Cardinality(Places(q, o)) \in Nat /\ Cardinality(Places(Tail(q), o)) \in Nat
  BY <1>9, FS_CardinalityType
<1>14. /\ Jobs(q, o) = Cardinality(Places(q, o))
       /\ Jobs(Tail(q), o) = Cardinality(Places(Tail(q), o))
  BY DEF Jobs, Places
<1> HIDE DEF rest
<1> QED
  BY <1>10, <1>11, <1>12, <1>13, <1>14 DEF One
-----------------------------------------------------------------------------
(* The terms of the account are numbers. *)
LEMMA Numbers ==
    ASSUME TypeOK, NEW o \in Objects
    PROVE  /\ {Jobs(priority, o), Jobs(out, o), Jobs(results, o)} \subseteq Nat
           /\ {accepted[o], running[o], done[o], Held(o)} \subseteq Nat
<1>1. priority \in Seq(Job) /\ out \in Seq(Job) /\ results \in Seq(Result)
  BY DEF TypeOK
<1>2. accepted \in [Objects -> Nat] /\ running \in [Objects -> Nat] /\ done \in [Objects -> Nat]
  BY DEF TypeOK
<1>3. Held(o) \in Nat
  BY DEF Held
<1> QED
  BY <1>1, <1>2, <1>3, JobsFinite

LEMMA CountOne ==
    ASSUME NEW f \in [Objects -> Nat], NEW u \in Objects, NEW o \in Objects
    PROVE  /\ [f EXCEPT ![u] = @ + 1][o] = f[o] + (IF u = o THEN 1 ELSE 0)
           /\ [f EXCEPT ![u] = @ - 1][o] = f[o] - (IF u = o THEN 1 ELSE 0)
OBVIOUS

LEMMA PriorityCounts ==
    ASSUME TypeOK, NEW job \in Job, OnPriority(job), NEW o \in Objects
    PROVE  /\ Jobs(priority', o) = Jobs(priority, o) + One(job, o)
           /\ accepted'[o] = accepted[o] + One(job, o)
<1>1. priority \in Seq(Job) /\ accepted \in [Objects -> Nat] /\ job.object \in Objects
  BY DEF TypeOK, Job
<1>2. priority' = Append(priority, job) /\ accepted' = [accepted EXCEPT ![job.object] = @ + 1]
  BY DEF OnPriority, Count
<1> QED
  BY <1>1, <1>2, JobsAppend, CountOne DEF One

LEMMA OutCounts ==
    ASSUME TypeOK, NEW job \in Job, OnOut(job), NEW o \in Objects
    PROVE  /\ Jobs(out', o) = Jobs(out, o) + One(job, o)
           /\ accepted'[o] = accepted[o] + One(job, o)
<1>1. out \in Seq(Job) /\ accepted \in [Objects -> Nat] /\ job.object \in Objects
  BY DEF TypeOK, Job
<1>2. out' = Append(out, job) /\ accepted' = [accepted EXCEPT ![job.object] = @ + 1]
  BY DEF OnOut, Count
<1> QED
  BY <1>1, <1>2, JobsAppend, CountOne DEF One

LEMMA EmitCounts ==
    ASSUME TypeOK, NEW u \in Objects, NEW source \in {"scheduler", "freshness"},
           Emit(u, source), NEW o \in Objects
    PROVE  Jobs(results', o) = Jobs(results, o) + (IF u = o THEN 1 ELSE 0)
<1> DEFINE res == [object |-> u, source |-> source]
<1>1. results \in Seq(Result) /\ res \in Result /\ One(res, o) = IF u = o THEN 1 ELSE 0
  BY DEF TypeOK, Result, One
<1>2. results' = Append(results, res)
  BY DEF Emit
<1> HIDE DEF res
<1> QED
  BY <1>1, <1>2, JobsAppend

(* A job that was taken is held, or done. *)
LEMMA AcceptCounts ==
    ASSUME TypeOK, NEW job \in Job, Accept(job), NEW o \in Objects
    PROVE  Held(o)' + done'[o] = One(job, o) + done[o]
<1>1. done \in [Objects -> Nat] /\ job.object \in Objects /\ done[o] \in Nat
  BY DEF TypeOK, Job
<1>2. CASE dispatcher' = [pc |-> "job", job |-> job] /\ done' = done
  BY <1>1, <1>2 DEF Held, One
<1>3. CASE dispatcher' = Take /\ Count(done, job.object)
  <2>1. Held(o)' = 0
    BY <1>3 DEF Held, Take
  <2>2. done'[o] = done[o] + One(job, o)
    BY <1>1, <1>3, CountOne DEF Count, One
  <2> QED
    BY <1>1, <2>1, <2>2 DEF One
<1> QED
  BY <1>2, <1>3 DEF Accept

(* A check-now is on the priority lane, or waits with its goroutine. *)
LEMMA CheckNowAccounted ==
    ASSUME TypeOK, NeverDropped, NEW u \in Objects,
           UserAsks(u) \/ RetryFires(u), NEW o \in Objects
    PROVE  Accounted(o)'
<1>1. CheckNow(u)
  BY DEF UserAsks, RetryFires
<1>2. UNCHANGED <<out, dispatcher, running, results, done>>
  BY <1>1 DEF CheckNow
<1>3. Held(o)' = Held(o)
  BY <1>2 DEF Held
<1>4. CASE HasPriorityRoom
  <2>1. OnPriority(Asked(u))
    BY <1>1, <1>4 DEF CheckNow
  <2>2. /\ Jobs(priority', o) = Jobs(priority, o) + One(Asked(u), o)
        /\ accepted'[o] = accepted[o] + One(Asked(u), o)
    BY <2>1, PriorityCounts, NewJobs
  <2>3. One(Asked(u), o) \in Nat
    BY DEF One
  <2> QED
    BY <1>2, <1>3, <2>2, <2>3, Numbers DEF NeverDropped, Accounted
<1>5. CASE ~HasPriorityRoom
  <2>1. UNCHANGED <<priority, accepted>>
    BY <1>1, <1>5 DEF CheckNow
  <2> QED
    BY <1>2, <1>3, <2>1 DEF NeverDropped, Accounted
<1> QED
  BY <1>4, <1>5

LEMMA LanesAccounted ==
    ASSUME TypeOK, NeverDropped, NEW o \in Objects,
           (\E u \in Objects : Due(u) \/ GetsRoom(u)) \/ PushChild
    PROVE  Accounted(o)'
<1>1. PICK job \in Job : OnOut(job)
  <2>1. ASSUME NEW u \in Objects, Due(u) \/ GetsRoom(u)
        PROVE  \E job \in Job : OnOut(job)
    BY <2>1, NewJobs DEF Due, GetsRoom
  <2>2. CASE PushChild
    <3>1. PICK u \in Objects : u = pipeline.object
      BY <2>2 DEF PushChild, TypeOK, Idle
    <3>2. OnOut(Asked(u))
      BY <2>2, <3>1 DEF PushChild, OnOut
    <3> QED
      BY <3>2, NewJobs
  <2> QED
    BY <2>1, <2>2
<1>2. UNCHANGED <<priority, dispatcher, running, results, done>>
  BY DEF Due, GetsRoom, PushChild
<1>3. Held(o)' = Held(o)
  BY <1>2 DEF Held
<1>4. /\ Jobs(out', o) = Jobs(out, o) + One(job, o)
      /\ accepted'[o] = accepted[o] + One(job, o)
  BY <1>1, OutCounts
<1>5. One(job, o) \in Nat
  BY DEF One
<1> QED
  BY <1>2, <1>3, <1>4, <1>5, Numbers DEF NeverDropped, Accounted

(* What the loop and its workers do moves a job on. *)
LEMMA LoopAccounted ==
    ASSUME TypeOK, NeverDropped, NEW o \in Objects,
           Loop \/ (\E u \in Objects : Finish(u))
    PROVE  Accounted(o)'
<1> USE Numbers DEF NeverDropped
<1>0. TypeOK'
  BY TypeLoop
<1>1. CASE LookFirst
  <2>1. Held(o) = 0 /\ Held(o)' = 0
    BY <1>1 DEF LookFirst, Held, Take, Wait
  <2> QED
    BY <1>1, <2>1 DEF LookFirst, lanes, history, Accounted
<1>2. dispatcher.pc # "job" => Held(o) = 0
  BY DEF Held
<1>3. CASE TakePriority
  <2>1. PICK job \in Job : job = Head(priority)
    BY <1>3, OneTaken, Capacities DEF TakePriority, TypeOK
  <2>2. Held(o)' + done'[o] = One(job, o) + done[o]
    <3>1. Accept(job)
      BY <1>3, <2>1 DEF TakePriority, Accept
    <3> QED
      BY <3>1, AcceptCounts
  <2>3. Jobs(priority, o) = One(job, o) + Jobs(priority', o)
    BY <1>3, <2>1, JobsTail DEF TakePriority, TypeOK
  <2>4. Held(o) = 0
    BY <1>2, <1>3 DEF TakePriority, TakesPriority
  <2>5. UNCHANGED <<out, running, results, accepted>>
    BY <1>3 DEF TakePriority
  <2>6. Held(o)' \in Nat /\ done'[o] \in Nat /\ Jobs(priority', o) \in Nat
    BY <1>0, JobsFinite DEF Held, TypeOK
  <2>7. One(job, o) \in Nat
    BY DEF One
  <2> QED
    BY <2>2, <2>3, <2>4, <2>5, <2>6, <2>7 DEF Accounted
<1>4. CASE TakeOut
  <2>1. PICK job \in Job : job = Head(out)
    BY <1>4, OneTaken, Capacities DEF TakeOut, TypeOK
  <2>2. Held(o)' + done'[o] = One(job, o) + done[o]
    <3>1. Accept(job)
      BY <1>4, <2>1 DEF TakeOut, Accept
    <3> QED
      BY <3>1, AcceptCounts
  <2>3. Jobs(out, o) = One(job, o) + Jobs(out', o)
    BY <1>4, <2>1, JobsTail DEF TakeOut, TypeOK
  <2>4. Held(o) = 0
    BY <1>2, <1>4 DEF TakeOut, TakesOut
  <2>5. UNCHANGED <<priority, running, results, accepted>>
    BY <1>4 DEF TakeOut
  <2>6. Held(o)' \in Nat /\ done'[o] \in Nat /\ Jobs(out', o) \in Nat
    BY <1>0, JobsFinite DEF Held, TypeOK
  <2>7. One(job, o) \in Nat
    BY DEF One
  <2> QED
    BY <2>2, <2>3, <2>4, <2>5, <2>6, <2>7 DEF Accounted
<1>5. ASSUME dispatcher.pc = "job"
      PROVE  /\ dispatcher.job.object \in Objects
             /\ Held(o) = IF dispatcher.job.object = o THEN 1 ELSE 0
  <2>1. dispatcher \in [pc : {"job"}, job : Job]
    BY <1>5 DEF TypeOK, Take, Wait
  <2> QED
    BY <1>5, <2>1 DEF Job, Held
<1>6. CASE Dispatch
  <2>1. PICK u \in Objects : u = dispatcher.job.object
    BY <1>5, <1>6 DEF Dispatch
  <2>2. running' = [running EXCEPT ![u] = @ + 1] /\ dispatcher' = Take
    BY <1>6, <2>1 DEF Dispatch, Count
  <2>3. running'[o] = running[o] + Held(o)
    <3>1. running'[o] = running[o] + (IF u = o THEN 1 ELSE 0)
      <4>1. running \in [Objects -> Nat]
        BY DEF TypeOK
      <4> QED
        BY <2>2, <4>1, CountOne
    <3>2. Held(o) = IF u = o THEN 1 ELSE 0
      BY <1>5, <1>6, <2>1 DEF Dispatch
    <3> QED
      BY <3>1, <3>2
  <2>4. Held(o)' = 0
    BY <2>2 DEF Held, Take
  <2>5. UNCHANGED <<priority, out, results, accepted, done>>
    BY <1>6 DEF Dispatch, lanes, history
  <2> QED
    BY <2>3, <2>4, <2>5 DEF Accounted
<1>7. CASE Probe
  <2>1. PICK u \in Objects : u = dispatcher.job.object
    BY <1>5, <1>7 DEF Probe
  <2>2. Emit(u, "freshness") /\ dispatcher' = Take
    BY <1>7, <2>1 DEF Probe, Emit
  <2>3. Jobs(results', o) = Jobs(results, o) + Held(o)
    BY <1>5, <1>7, <2>1, <2>2, EmitCounts DEF Probe
  <2>4. Held(o)' = 0
    BY <2>2 DEF Held, Take
  <2>5. UNCHANGED <<priority, out, running, accepted, done>>
    BY <1>7 DEF Probe, lanes, history
  <2> QED
    BY <2>3, <2>4, <2>5 DEF Accounted
<1>8. ASSUME NEW u \in Objects, Finish(u)
      PROVE  Accounted(o)'
  <2> DEFINE one == IF u = o THEN 1 ELSE 0
  <2>1. Jobs(results', o) = Jobs(results, o) + one
    BY <1>8, EmitCounts DEF Finish
  <2>2. running'[o] = running[o] - one
    BY <1>8, CountOne DEF Finish, TypeOK
  <2>3. UNCHANGED <<priority, out, dispatcher, accepted, done>>
    BY <1>8 DEF Finish, lanes, history
  <2>4. Held(o)' = Held(o)
    BY <2>3 DEF Held
  <2>5. one \in Nat
    OBVIOUS
  <2> HIDE DEF one
  <2> QED
    BY <2>1, <2>2, <2>3, <2>4, <2>5 DEF Accounted
<1> QED
  BY <1>1, <1>3, <1>4, <1>6, <1>7, <1>8 DEF Loop

LEMMA ProcessAccounted ==
    ASSUME TypeOK, NeverDropped, Process, NEW o \in Objects
    PROVE  Accounted(o)'
<1>1. PICK res \in Result : res = Head(results)
  BY OneTaken, Capacities DEF Process, TypeOK
<1>2. Jobs(results, o) = One(res, o) + Jobs(results', o)
  BY <1>1, JobsTail DEF Process, TypeOK
<1>3. done' = [done EXCEPT ![res.object] = @ + 1]
  BY <1>1 DEF Process, Count
<1>4. done'[o] = done[o] + One(res, o)
  <2>1. done \in [Objects -> Nat] /\ res.object \in Objects
    BY DEF TypeOK, Result
  <2> QED
    BY <1>3, <2>1, CountOne DEF One
<1>5. UNCHANGED <<priority, out, dispatcher, running, accepted>>
  BY DEF Process, lanes
<1>6. Held(o)' = Held(o)
  BY <1>5 DEF Held
<1>7. One(res, o) \in Nat /\ Jobs(results', o) \in Nat
  <2>1. results' \in Seq(Result)
    BY OneTaken, Capacities DEF Process, TypeOK
  <2> QED
    BY <2>1, JobsFinite DEF One
<1> QED
  BY <1>2, <1>4, <1>5, <1>6, <1>7, Numbers DEF NeverDropped, Accounted

(* Every job that was put on a lane is on a lane, with the loop, with a worker
   or on its way back as a result, until it was processed or skipped: nothing
   on the round trip drops a job, whatever is full, fails or is deleted
   (eventbus.go: "check processing is never dropped"). *)
THEOREM NothingDropped == Spec => []NeverDropped
<1>1. Init => NeverDropped
  <2> SUFFICES ASSUME Init, NEW o \in Objects
               PROVE  Accounted(o)
    BY DEF NeverDropped
  <2>1. Jobs(priority, o) = 0 /\ Jobs(out, o) = 0 /\ Jobs(results, o) = 0
    BY JobsEmpty DEF Init
  <2> QED
    BY <2>1 DEF Init, Accounted, Held, Take
<1>2. TypeOK /\ NeverDropped /\ [Next]_vars => NeverDropped'
  <2> SUFFICES ASSUME TypeOK, NeverDropped, [Next]_vars, NEW o \in Objects
               PROVE  Accounted(o)'
    BY DEF NeverDropped
  <2>1. CASE UNCHANGED <<priority, out, dispatcher, running, results, accepted, done>>
    <3>1. Held(o)' = Held(o)
      BY <2>1 DEF Held
    <3> QED
      BY <2>1, <3>1 DEF NeverDropped, Accounted
  <2>2. CASE UNCHANGED vars
    BY <2>1, <2>2 DEF vars, lanes, history
  <2>3. ASSUME NEW u \in Objects, RemoveObject(u)
        PROVE  Accounted(o)'
    BY <2>1, <2>3 DEF RemoveObject, lanes, history
  <2>4. ASSUME NEW u \in Objects, CheckChild(u)
        PROVE  Accounted(o)'
    <3>1. UNCHANGED <<out, dispatcher, running, results, done>>
      BY <2>4 DEF CheckChild
    <3>2. CASE UNCHANGED <<priority, accepted>>
      BY <2>1, <3>1, <3>2
    <3>3. CASE OnPriority(Asked(u))
      <4>1. /\ Jobs(priority', o) = Jobs(priority, o) + One(Asked(u), o)
            /\ accepted'[o] = accepted[o] + One(Asked(u), o)
        BY <3>3, PriorityCounts, NewJobs
      <4>2. Held(o)' = Held(o)
        BY <3>1 DEF Held
      <4>3. One(Asked(u), o) \in Nat
        BY DEF One
      <4> QED
        BY <3>1, <4>1, <4>2, <4>3, Numbers DEF NeverDropped, Accounted
    <3> QED
      BY <2>4, <3>2, <3>3 DEF CheckChild
  <2> QED
    BY <2>2, <2>3, <2>4, CheckNowAccounted, LanesAccounted, LoopAccounted, ProcessAccounted
       DEF Next, Pipeline
<1> QED
  BY <1>1, <1>2, TypeCorrect, PTL DEF Spec
===============================================================================
