--------------------------- MODULE Pipeline_proofs ---------------------------
(* What holds of the check states and of the pipeline for every set of
   objects, every number of attempts, every result and every failure. *)
EXTENDS Pipeline, TLAPS

LEMMA UncheckedType == Unchecked \in CheckStates
BY AttemptsAssumption DEF Unchecked, CheckStates, States, UNKNOWN, Ages

LEMMA AttemptsCases ==
    ASSUME NEW passive \in BOOLEAN
    PROVE  /\ Attempts(passive) \in 1..MaxCheckAttempts
           /\ passive => Attempts(passive) = 1
           /\ ~passive => Attempts(passive) = MaxCheckAttempts
<1>1. CASE passive
  BY <1>1, AttemptsAssumption DEF Attempts
<1>2. CASE ~passive
  BY <1>2, AttemptsAssumption DEF Attempts
<1>3. QED
  BY <1>1, <1>2

(* One result: whatever it is, and whether it is passive, the machine stays
   within its states. *)
LEMMA ApplyType ==
    ASSUME NEW cs \in CheckStates, NEW in \in States, NEW passive \in BOOLEAN, NEW detect \in BOOLEAN
    PROVE  Apply(cs, in, passive, detect) \in CheckStates
<1> DEFINE next == AfterResult(cs, in, Attempts(passive))
           new == Apply(cs, in, passive, detect)
<1>1. /\ next.state = in
      /\ next.type \in {"soft", "hard"}
      /\ next.attempt \in 1..MaxCheckAttempts
  BY AttemptsCases, AttemptsAssumption DEF AfterResult, CheckStates, Exhausted, HardAttempt, OK
<1>2. new.flaps \in SUBSET Ages
  BY FlapAssumption DEF CheckStates, Apply, RecordFlap, Ages
<1>3. new.flapping \in BOOLEAN
  BY DEF Apply, Flapping, AtLeast
<1>4. new.acked \in BOOLEAN /\ new.checked \in BOOLEAN
  BY DEF Apply, CheckStates, Recovered
<1>5. QED
  BY <1>1, <1>2, <1>3, <1>4 DEF CheckStates, Apply

(* What an observer counts and was told agrees with the machine after a result
   as it did before, and a hard recovery makes them agree in any case. *)
LEMMA ApplyObserved ==
    ASSUME NEW cs \in CheckStates, NEW in \in States, NEW passive \in BOOLEAN, NEW detect \in BOOLEAN,
           NEW count \in 0..MaxCheckAttempts, NEW last \in States,
           Recovered(cs, in) \/ (Counted(cs, count) /\ Told(cs, last))
    PROVE  LET new == Apply(cs, in, passive, detect) IN
           /\ Counted(new, RunAfter(count, in, passive))
           /\ Told(new, IF HardChange(cs, in, Attempts(passive)) THEN in ELSE last)
<1> DEFINE max == Attempts(passive)
           next == AfterResult(cs, in, max)
           new == Apply(cs, in, passive, detect)
           after == RunAfter(count, in, passive)
<1>1. new.state = in /\ new.type = next.type /\ new.attempt = next.attempt
  BY DEF Apply, AfterResult
<1>2. next.type = "hard" <=> (in = OK \/ after = MaxCheckAttempts)
  BY AttemptsCases, AttemptsAssumption
  DEF AfterResult, CheckStates, Exhausted, HardAttempt, OK, RunAfter, Counted, Recovered
<1>3. next.type = "soft" => next.attempt = after
  BY AttemptsCases, AttemptsAssumption
  DEF AfterResult, CheckStates, Exhausted, HardAttempt, OK, RunAfter, Counted, Recovered
<1>4. in = OK <=> after = 0
  BY AttemptsAssumption DEF RunAfter
<1>5. (IF HardChange(cs, in, max) THEN in ELSE last) = IF next.type = "hard" THEN in ELSE OK
  BY AttemptsCases, AttemptsAssumption
  DEF AfterResult, CheckStates, Exhausted, HardAttempt, OK, Told, HardChange, Recovered
<1>6. QED
  BY <1>1, <1>2, <1>3, <1>4, <1>5 DEF Counted, Told

-----------------------------------------------------------------------------
(* The inductive invariant.  Every check state in the working set, in the
   table and on its way there is one; a batch holds what the working set
   holds; what a flush is done with is stored; and an acknowledgement is
   cleared for an object that is up. *)
Flushing == pipe.pc \in {"states", "events"}

CountInv == results <= MaxResults /\ (pipe.pc = "process" => results >= 1)

MachineInv ==
    /\ states \in [Objects -> Entry]
    /\ row \in [Objects -> Entry]
    /\ Flushing => pipe.states \in [Objects -> Entry]

BatchInv ==
    pipe.pc = "states" =>
        \A o \in Objects : pipe.states[o] # NoState => states[o] \in {NoState, pipe.states[o]}

SegmentInv == Flushing => \A e \in pipe.events : e.month \in pipe.months \/ e \in stored

RecoveryInv ==
    pipe.pc = "clearAck" =>
        states[pipe.object] = NoState \/ states[pipe.object].state = OK

IInv ==
    /\ TypeOK /\ CountInv /\ MachineInv /\ BatchInv /\ SegmentInv /\ RecoveryInv
    /\ NothingForgotten /\ EventsKept

LEMMA Bounds == MaxResults \in Nat /\ MaxTroubles \in Nat
BY ObjectsAssumption

LEMMA NoStateIsNone == NoState \notin CheckStates
BY ObjectsAssumption

LEMMA AckedFields ==
    ASSUME NEW cs \in CheckStates, NEW b \in BOOLEAN
    PROVE  [cs EXCEPT !.acked = b] \in CheckStates
BY DEF CheckStates

LEMMA PipeCases ==
    ASSUME pipe \in Pipes
    PROVE  /\ pipe.pc \in {"idle", "stopped", "process", "clearAck", "states", "events"}
           /\ pipe.pc = "process" => pipe.object \in Objects /\ pipe.input \in Results
           /\ pipe.pc = "clearAck" => pipe.object \in Objects
           /\ Flushing => /\ pipe \in [pc : {"states", "events"}, states : [Objects -> Entry],
                                         events : SUBSET Events, months : SUBSET Months, quit : BOOLEAN]
                          /\ pipe.states \in [Objects -> Entry]
                          /\ pipe.events \in SUBSET Events
                          /\ pipe.months \in SUBSET Months
                          /\ pipe.quit \in BOOLEAN
BY DEF Pipes, Idle, Stopped, Flushing

LEMMA InitInv == Init => IInv
<1> SUFFICES ASSUME Init PROVE IInv
  OBVIOUS
<1>1. pipe.pc = "idle" /\ pipe \in Pipes
  BY DEF Init, Idle, Pipes
<1>a. run \in [Objects -> 0..MaxCheckAttempts] /\ told \in [Objects -> States]
  BY AttemptsAssumption DEF Init, States, OK
<1>2. TypeOK
  BY <1>1, <1>a DEF Init, TypeOK, Stages, Entry
<1>3. CountInv
  BY <1>1, Bounds DEF Init, CountInv
<1>4. QED
  BY <1>1, <1>2, <1>3
  DEF Init, IInv, MachineInv, BatchInv, SegmentInv, RecoveryInv, NothingForgotten,
      EventsKept, Entry, Flushing

(* A result is taken from the bus. *)
LEMMA ReceiveInv ==
    ASSUME IInv, NEW o \in Objects, NEW in \in Inputs[o], Receive(o, in)
    PROVE  IInv'
<1>1. in \in Results
  BY ObjectsAssumption
<1>2. /\ pipe.pc = "idle"
      /\ pipe' \in Pipes
      /\ pipe'.pc \in {"idle", "process"}
  BY <1>1 DEF Receive, Idle, Pipes
<1>3. results' = results + 1 /\ results < MaxResults
  BY DEF Receive
<1>4. TypeOK'
  BY <1>2, <1>3 DEF Receive, IInv, TypeOK, observed
<1>5. CountInv'
  BY <1>3, Bounds DEF IInv, TypeOK, CountInv
<1>6. MachineInv' /\ BatchInv' /\ SegmentInv' /\ RecoveryInv'
  BY <1>2 DEF Receive, IInv, MachineInv, BatchInv, SegmentInv, RecoveryInv, Flushing
<1>7. NothingForgotten' /\ EventsKept'
  BY <1>2 DEF Receive, IInv, NothingForgotten, EventsKept, Exists
<1>8. QED
  BY <1>4, <1>5, <1>6, <1>7 DEF IInv

(* The entries a load puts into the working set are good, and what was
   loaded is what the table holds. *)
LEMMA LoadsType ==
    ASSUME IInv, NEW os \in SUBSET Objects, NEW failed \in SUBSET Objects
    PROVE  /\ Loads(os, failed) \in [Objects -> Entry]
           /\ \A o \in os : Loads(os, failed)[o] \in CheckStates
           /\ \A o \in Objects :
                 Loads(os, failed)[o] # states[o] =>
                     states[o] = NoState /\ Loads(os, failed)[o] \in {Unchecked, row[o]} \ {NoState}
<1> DEFINE loaded == Loads(os, failed)
<1>1. ASSUME NEW o \in Objects
      PROVE  /\ loaded[o] \in Entry
             /\ o \in os => loaded[o] \in CheckStates
             /\ loaded[o] # states[o] =>
                   states[o] = NoState /\ loaded[o] \in {Unchecked, row[o]} \ {NoState}
  <2>1. states[o] \in Entry /\ row[o] \in Entry
    BY DEF IInv, MachineInv
  <2>2. CASE o \notin os \/ states[o] # NoState
    BY <2>1, <2>2 DEF Loads, Entry
  <2>3. CASE o \in os /\ states[o] = NoState /\ (row[o] = NoState \/ o \in failed)
    <3>1. loaded[o] = Unchecked
      BY <2>3 DEF Loads, Guessed
    <3>2. QED
      BY <2>3, <3>1, UncheckedType, NoStateIsNone DEF Entry
  <2>4. CASE o \in os /\ states[o] = NoState /\ row[o] # NoState /\ o \notin failed
    BY <2>1, <2>4 DEF Loads, Guessed, Entry
  <2>5. QED
    BY <2>2, <2>3, <2>4
<1>2. loaded \in [Objects -> Entry]
  <2>1. \A o \in Objects : loaded[o] \in Entry
    BY <1>1
  <2>2. loaded = [o \in Objects |-> loaded[o]]
    BY DEF Loads
  <2> HIDE DEF loaded
  <2>3. QED
    BY <2>1, <2>2
<1> HIDE DEF loaded
<1>3. QED
  BY <1>1, <1>2 DEF loaded

LEMMA AboveObjects == ASSUME NEW o \in Objects PROVE Above(o) \subseteq Objects
BY ObjectsAssumption DEF Above

LEMMA InStateType ==
    ASSUME NEW o, NEW in \in States, NEW loaded
    PROVE  InState(o, in, loaded) \in States
BY DEF InState, States, OK, HostUnreachable, HostDown

(* NothingForgotten for one object. *)
Kept(o) ==
    states[o] # NoState /\ Exists(o) /\ o \notin dirty
    => \/ ~states[o].checked
       \/ SameResult(states[o], row[o])
       \/ pipe.pc = "states" /\ pipe.states[o] = states[o]

LEMMA SameAsRow ==
    ASSUME NEW cs \in CheckStates PROVE SameResult(cs, cs)
BY NoStateIsNone DEF SameResult, CheckStates

(* What a load changes in the working set is in the table. *)
LEMMA LoadedKept ==
    ASSUME IInv, NEW os \in SUBSET Objects, NEW failed \in SUBSET Objects, NEW o \in Objects,
           pipe.pc = "process",
           states'[o] = Loads(os, failed)[o], row' = row, stage' = stage,
           o \in dirty => o \in dirty'
    PROVE  Kept(o)'
<1> DEFINE new == Loads(os, failed)[o]
<1>1. CASE new = states[o]
  BY <1>1 DEF IInv, NothingForgotten, Kept, Exists
<1>2. CASE new = Unchecked
  BY <1>2 DEF Kept, Unchecked
<1>3. CASE new = row[o] /\ row[o] # NoState
  <2>1. row[o] \in CheckStates
    BY <1>3 DEF IInv, MachineInv, Entry
  <2>2. SameResult(states'[o], row'[o])
    BY <1>3, <2>1, SameAsRow
  <2>3. QED
    BY <2>2 DEF Kept
<1>4. QED
  BY <1>1, <1>2, <1>3, LoadsType

LEMMA ProcessObserves ==
    ASSUME IInv, NEW failed \in SUBSET Objects, Process(failed)
    PROVE  run' \in [Objects -> 0..MaxCheckAttempts] /\ told' \in [Objects -> States] /\ unsure' \subseteq Objects
<1> DEFINE o == pipe.object
           passive == pipe.input.source = "passive"
           os == {o} \cup Above(o)
           loaded == Loads(os, failed)
           in == InState(o, pipe.input.state, loaded)
<1>1. pipe.pc = "process" /\ o \in Objects /\ pipe.input.state \in States
  BY PipeCases DEF Process, IInv, TypeOK, Results
<1>2. in \in States /\ os \subseteq Objects
  BY <1>1, InStateType, AboveObjects
<1>3. /\ run' = [run EXCEPT ![o] = RunAfter(run[o], in, passive)]
      /\ told' = [told EXCEPT ![o] = told'[o]] /\ told'[o] \in {in, told[o]}
      /\ unsure' \subseteq unsure \cup Guessed(os, failed)
  BY <1>1 DEF Process, IInv, TypeOK
<1>4. RunAfter(run[o], in, passive) \in 0..MaxCheckAttempts
  BY <1>1, AttemptsAssumption DEF RunAfter, IInv, TypeOK
<1>5. Guessed(os, failed) \subseteq Objects
  BY <1>2 DEF Guessed
<1> HIDE DEF in, os
<1>6. QED
  BY <1>1, <1>2, <1>3, <1>4, <1>5 DEF IInv, TypeOK

LEMMA ProcessInv ==
    ASSUME IInv, NEW failed \in SUBSET Objects, Process(failed)
    PROVE  IInv'
<1> DEFINE o == pipe.object
           passive == pipe.input.source = "passive"
           loaded == Loads({o} \cup Above(o), failed)
           cs == loaded[o]
           in == InState(o, pipe.input.state, loaded)
           new == Apply(cs, in, passive, o \in FlapDetection)
           kinds == {k \in {"state_change", "flapping"} :
                        IF k = "flapping" THEN new.flapping # cs.flapping
                        ELSE in # cs.state \/ HardChange(cs, in, Attempts(passive))}
           emit == {[result |-> results, kind |-> k, month |-> pipe.input.month] : k \in kinds}
<1>1. /\ pipe.pc = "process" /\ o \in Objects /\ pipe.input \in Results
      /\ pipe.input.state \in States /\ pipe.input.month \in Months
  BY PipeCases DEF Process, IInv, TypeOK, Results
<1>2. {o} \cup Above(o) \in SUBSET Objects
  BY <1>1, AboveObjects
<1>3. loaded \in [Objects -> Entry] /\ cs \in CheckStates
  BY <1>1, <1>2, LoadsType
<1>4. new \in CheckStates
  <2>1. in \in States
    BY <1>1, InStateType
  <2>2. passive \in BOOLEAN /\ (o \in FlapDetection) \in BOOLEAN
    OBVIOUS
  <2> HIDE DEF in, passive, cs
  <2>3. QED
    BY <1>3, <2>1, <2>2, ApplyType
<1>5. emit \subseteq Events
  <2>1. results \in 1..MaxResults
    BY <1>1, Bounds DEF IInv, TypeOK, CountInv
  <2>2. kinds \subseteq {"state_change", "flapping"}
    OBVIOUS
  <2> HIDE DEF kinds
  <2>3. QED
    BY <1>1, <2>1, <2>2 DEF Events
<1>6. /\ states' = [loaded EXCEPT ![o] = new]
      /\ dirty' = dirty \cup {o}
      /\ events' = events \cup emit /\ emitted' = emitted \cup emit
      /\ pipe' = IF Recovered(cs, in) THEN [pc |-> "clearAck", object |-> o] ELSE Idle
      /\ UNCHANGED <<stage, row, pending, stored, results>>
  BY DEF Process
<1>7. Recovered(cs, in) => new.state = OK
  BY DEF Recovered, Apply, AfterResult
<1>8. troubles' \in Nat
  BY DEF Process, Trouble, IInv, TypeOK
<1>a. run' \in [Objects -> 0..MaxCheckAttempts] /\ told' \in [Objects -> States] /\ unsure' \subseteq Objects
  BY <1>1, <1>2, ProcessObserves
<1> HIDE DEF o, loaded, cs, in, new, emit, passive
<1>9. states' \in [Objects -> Entry] /\ states'[o] = new
  BY <1>1, <1>3, <1>4, <1>6 DEF Entry
<1>10. pipe' \in Pipes /\ pipe'.pc \in {"idle", "clearAck"} /\ (pipe'.pc = "clearAck" => pipe'.object = o /\ Recovered(cs, in))
  BY <1>1, <1>6 DEF Pipes, Idle
<1>11. TypeOK'
  BY <1>1, <1>5, <1>6, <1>8, <1>9, <1>10, <1>a DEF IInv, TypeOK, observed
<1>12. CountInv' /\ MachineInv' /\ BatchInv' /\ SegmentInv' /\ RecoveryInv'
  BY <1>6, <1>7, <1>9, <1>10 DEF IInv, CountInv, MachineInv, BatchInv, SegmentInv, RecoveryInv, Flushing
<1>13. ASSUME NEW p \in Objects PROVE Kept(p)'
  <2>1. CASE p = o
    BY <1>6, <2>1 DEF Kept
  <2>2. CASE p # o
    <3>1. states'[p] = loaded[p]
      BY <1>3, <1>6, <2>2
    <3>2. QED
      BY <1>1, <1>2, <1>6, <3>1, LoadedKept DEF loaded
  <2>3. QED
    BY <2>1, <2>2
<1>14. NothingForgotten'
  BY <1>13 DEF Kept, NothingForgotten
<1>15. EventsKept'
  BY <1>1, <1>6, <1>10 DEF IInv, EventsKept
<1>16. QED
  BY <1>11, <1>12, <1>14, <1>15 DEF IInv

LEMMA FreshEnoughInv == ASSUME IInv, FreshEnough PROVE IInv'
<1> DEFINE o == pipe.object
           loaded == Loads({o}, {})
<1>1. pipe.pc = "process" /\ o \in Objects
  BY PipeCases DEF FreshEnough, IInv, TypeOK
<1>2. loaded \in [Objects -> Entry]
  BY <1>1, LoadsType
<1>3. /\ states' = loaded
      /\ pipe' = Idle
      /\ UNCHANGED <<stage, row, dirty, pending, events, stored, emitted, observed, troubles, results>>
  BY DEF FreshEnough
<1> HIDE DEF loaded, o
<1>4. pipe' \in Pipes /\ pipe'.pc = "idle"
  BY <1>3 DEF Pipes, Idle
<1>5. TypeOK'
  BY <1>2, <1>3, <1>4 DEF IInv, TypeOK, observed
<1>6. CountInv' /\ MachineInv' /\ BatchInv' /\ SegmentInv' /\ RecoveryInv'
  BY <1>2, <1>3, <1>4 DEF IInv, CountInv, MachineInv, BatchInv, SegmentInv, RecoveryInv, Flushing
<1>7. \A p \in Objects : Kept(p)'
  BY <1>1, <1>3, LoadedKept DEF loaded
<1>8. NothingForgotten' /\ EventsKept'
  BY <1>1, <1>3, <1>4, <1>7 DEF IInv, Kept, NothingForgotten, EventsKept
<1>9. QED
  BY <1>5, <1>6, <1>8 DEF IInv

(* A change of the acknowledgement of one row, by the API or by the
   pipeline, changes nothing else that the invariant is about. *)
LEMMA SetRowAck ==
    ASSUME IInv, NEW o \in Objects, NEW b \in BOOLEAN, row[o] # NoState,
           row' = [row EXCEPT ![o].acked = b]
    PROVE  /\ row' \in [Objects -> Entry]
           /\ \A p \in Objects, cs \in CheckStates : SameResult(cs, row[p]) => SameResult(cs, row'[p])
<1>1. row \in [Objects -> Entry] /\ row[o] \in CheckStates
  BY DEF IInv, MachineInv, Entry
<1>2. row'[o] = [row[o] EXCEPT !.acked = b] /\ row'[o] \in CheckStates
  BY <1>1, AckedFields
<1>3. ASSUME NEW p \in Objects, p # o PROVE row'[p] = row[p]
  BY <1>1, <1>3
<1>4. row' \in [Objects -> Entry]
  BY <1>1, <1>2 DEF Entry
<1>5. ASSUME NEW cs \in CheckStates, SameResult(cs, row[o]) PROVE SameResult(cs, row'[o])
  <2>1. /\ cs \in CheckStates /\ row[o] \in CheckStates /\ row'[o] # NoState
        /\ cs = [row[o] EXCEPT !.acked = cs.acked]
    BY <1>1, <1>2, <1>5, NoStateIsNone DEF SameResult
  <2>2. cs = [row'[o] EXCEPT !.acked = cs.acked]
    BY <1>2, <2>1 DEF CheckStates
  <2>3. QED
    BY <2>1, <2>2 DEF SameResult
<1>6. QED
  BY <1>3, <1>4, <1>5

LEMMA ClearAckInv == ASSUME IInv, ClearAck PROVE IInv'
<1> DEFINE o == pipe.object
<1>1. pipe.pc = "clearAck" /\ o \in Objects
  BY PipeCases DEF ClearAck, IInv, TypeOK
<1>2. /\ pipe' = Idle
      /\ UNCHANGED <<stage, states, dirty, pending, events, stored, emitted, observed, results>>
      /\ troubles' \in Nat
      /\ row' = row \/ (row[o] # NoState /\ row' = [row EXCEPT ![o].acked = FALSE])
  <2>1. row' = row \/ (row[o] # NoState /\ row' = [row EXCEPT ![o].acked = FALSE])
    BY DEF ClearAck
  <2>2. QED
    BY <2>1 DEF ClearAck, Trouble, IInv, TypeOK
<1>3. /\ row' \in [Objects -> Entry]
      /\ \A p \in Objects, cs \in CheckStates : SameResult(cs, row[p]) => SameResult(cs, row'[p])
  BY <1>1, <1>2, SetRowAck DEF IInv, MachineInv
<1>4. pipe' \in Pipes /\ pipe'.pc = "idle"
  BY <1>2 DEF Pipes, Idle
<1>5. TypeOK'
  BY <1>2, <1>3, <1>4 DEF IInv, TypeOK, observed
<1>6. CountInv' /\ MachineInv' /\ BatchInv' /\ SegmentInv' /\ RecoveryInv'
  BY <1>2, <1>3, <1>4 DEF IInv, CountInv, MachineInv, BatchInv, SegmentInv, RecoveryInv, Flushing
<1>7. NothingForgotten' /\ EventsKept'
  BY <1>1, <1>2, <1>3 DEF IInv, MachineInv, Entry, NothingForgotten, EventsKept, Exists
<1>8. QED
  BY <1>5, <1>6, <1>7 DEF IInv

LEMMA SetAckInv == ASSUME IInv, NEW o \in Objects, SetAck(o) PROVE IInv'
<1>1. /\ row[o] # NoState /\ row' = [row EXCEPT ![o].acked = TRUE]
      /\ UNCHANGED <<stage, states, dirty, pending, events, stored, emitted, observed, pipe, results>>
      /\ troubles' \in Nat
  BY DEF SetAck, Trouble, IInv, TypeOK
<1>2. /\ row' \in [Objects -> Entry]
      /\ \A p \in Objects, cs \in CheckStates : SameResult(cs, row[p]) => SameResult(cs, row'[p])
  BY <1>1, SetRowAck
<1>3. TypeOK'
  BY <1>1, <1>2 DEF IInv, TypeOK, observed
<1>4. CountInv' /\ MachineInv' /\ BatchInv' /\ SegmentInv' /\ RecoveryInv'
  BY <1>1, <1>2 DEF IInv, CountInv, MachineInv, BatchInv, SegmentInv, RecoveryInv, Flushing
<1>5. NothingForgotten' /\ EventsKept'
  BY <1>1, <1>2 DEF IInv, MachineInv, Entry, NothingForgotten, EventsKept, Exists
<1>6. QED
  BY <1>3, <1>4, <1>5 DEF IInv

(* The flush *)
LEMMA BeginFlushInv ==
    ASSUME IInv, NEW quit \in BOOLEAN, BeginFlush(quit)
    PROVE  IInv'
<1> DEFINE batch == [o \in Objects |-> IF o \in dirty THEN states[o] ELSE NoState]
           flush(pc) == [pc |-> pc, states |-> batch, events |-> events,
                         months |-> {e.month : e \in events}, quit |-> quit]
<1>1. pipe.pc = "idle"
  BY DEF BeginFlush, Idle
<1>2. batch \in [Objects -> Entry]
  BY DEF IInv, MachineInv, Entry
<1>3. events \subseteq Events /\ {e.month : e \in events} \in SUBSET Months
  BY DEF IInv, TypeOK, Events
<1>4. /\ dirty' = {} /\ events' = {} /\ pending' = FALSE
      /\ UNCHANGED <<stage, row, states, stored, emitted, observed, results>>
      /\ troubles' \in Nat
  BY DEF BeginFlush, Trouble, IInv, TypeOK
<1>5. pipe' = IF \E o \in Objects : batch[o] # NoState THEN flush("states")
              ELSE IF events # {} THEN flush("events")
              ELSE Rest(quit)
  BY DEF BeginFlush
<1> HIDE DEF batch
<1>6. /\ pipe' \in Pipes
      /\ pipe'.pc \in {"states", "events", "idle", "stopped"}
      /\ pipe'.pc \in {"states", "events"} =>
            /\ pipe'.states = batch /\ pipe'.events = events
            /\ pipe'.months = {e.month : e \in events}
      /\ pipe'.pc # "states" => \A o \in Objects : batch[o] = NoState
      /\ pipe'.pc \notin {"states", "events"} => events = {}
  <2>1. CASE \E o \in Objects : batch[o] # NoState
    <3>1. pipe' = flush("states")
      BY <1>5, <2>1
    <3>2. QED
      BY <1>2, <1>3, <2>1, <3>1 DEF Pipes
  <2>2. CASE ~(\E o \in Objects : batch[o] # NoState) /\ events # {}
    <3>1. pipe' = flush("events")
      BY <1>5, <2>2
    <3>2. QED
      BY <1>2, <1>3, <2>2, <3>1 DEF Pipes
  <2>3. CASE ~(\E o \in Objects : batch[o] # NoState) /\ events = {}
    BY <1>5, <2>3 DEF Rest, Idle, Stopped, Pipes
  <2>4. QED
    BY <2>1, <2>2, <2>3
<1>7. TypeOK'
  BY <1>4, <1>6 DEF IInv, TypeOK, observed
<1>8. CountInv' /\ MachineInv' /\ SegmentInv' /\ RecoveryInv'
  BY <1>2, <1>4, <1>6 DEF IInv, CountInv, MachineInv, SegmentInv, RecoveryInv, Flushing
<1>9. BatchInv'
  BY <1>4, <1>6 DEF BatchInv, batch
<1>10. NothingForgotten'
  BY <1>1, <1>4, <1>6 DEF IInv, NothingForgotten, Exists, batch
<1>11. EventsKept'
  BY <1>1, <1>4, <1>6 DEF IInv, EventsKept
<1>12. QED
  BY <1>7, <1>8, <1>9, <1>10, <1>11 DEF IInv

LEMMA RestCases == \A quit : Rest(quit) \in Pipes /\ Rest(quit).pc \in {"idle", "stopped"}
BY DEF Rest, Idle, Stopped, Pipes

(* What is written of a state is that state but for its acknowledgement. *)
LEMMA MergedSame ==
    ASSUME IInv, pipe.pc = "states", NEW o \in Objects, pipe.states[o] # NoState
    PROVE  Merged(o) \in CheckStates /\ SameResult(pipe.states[o], Merged(o))
<1>1. pipe.states[o] \in CheckStates /\ row[o] \in Entry
  BY DEF IInv, MachineInv, Flushing, Entry
<1>2. CASE row[o] = NoState
  BY <1>1, <1>2, SameAsRow DEF Merged
<1>3. CASE row[o] # NoState
  <2>1. row[o].acked \in BOOLEAN /\ Merged(o) = [pipe.states[o] EXCEPT !.acked = row[o].acked]
    BY <1>1, <1>3 DEF Merged, Entry, CheckStates
  <2>2. Merged(o) \in CheckStates
    BY <1>1, <2>1, AckedFields
  <2>3. pipe.states[o] = [Merged(o) EXCEPT !.acked = pipe.states[o].acked]
    BY <1>1, <2>1 DEF CheckStates
  <2>4. QED
    BY <2>2, <2>3, NoStateIsNone DEF SameResult
<1>4. QED
  BY <1>2, <1>3

LEMMA SaveStatesInv == ASSUME IInv, SaveStates PROVE IInv'
<1>1. /\ pipe.pc = "states" /\ Flushing
      /\ pipe \in [pc : {"states", "events"}, states : [Objects -> Entry],
                   events : SUBSET Events, months : SUBSET Months, quit : BOOLEAN]
      /\ pipe.states \in [Objects -> Entry]
  BY PipeCases DEF SaveStates, IInv, TypeOK, MachineInv, Flushing
<1>2. /\ pipe' = IF pipe.events = {} THEN Rest(pipe.quit) ELSE [pipe EXCEPT !.pc = "events"]
      /\ UNCHANGED <<stage, states, pending, events, stored, emitted, observed, results>>
      /\ troubles' \in Nat
      /\ \/ row' = [o \in Objects |-> IF o \in InBatch THEN Merged(o) ELSE row[o]] /\ dirty' = dirty
         \/ row' = row /\ dirty' = dirty \cup InBatch
  BY DEF SaveStates, Trouble, Redirtied, IInv, TypeOK
<1>3. /\ pipe' \in Pipes
      /\ pipe'.pc \in {"events", "idle", "stopped"}
      /\ pipe'.pc = "events" => /\ pipe'.states = pipe.states /\ pipe'.events = pipe.events
                               /\ pipe'.months = pipe.months
      /\ pipe'.pc # "events" => pipe.events = {}
  <2>1. CASE pipe.events = {}
    BY <1>2, <2>1, RestCases
  <2>2. CASE pipe.events # {}
    BY <1>1, <1>2, <2>2 DEF Pipes
  <2>3. QED
    BY <2>1, <2>2
<1>4. ASSUME NEW o \in InBatch
      PROVE  /\ o \in Objects /\ Merged(o) \in CheckStates
             /\ SameResult(pipe.states[o], Merged(o))
  BY <1>1, MergedSame DEF InBatch
<1>5. row' \in [Objects -> Entry] /\ dirty' \subseteq Objects
  <2>1. InBatch \subseteq Objects
    BY DEF InBatch
  <2>2. QED
    BY <1>2, <1>4, <2>1 DEF IInv, TypeOK, MachineInv, Entry
<1>6. TypeOK'
  BY <1>2, <1>3, <1>5 DEF IInv, TypeOK, observed
<1>7. CountInv' /\ MachineInv' /\ BatchInv' /\ SegmentInv' /\ RecoveryInv'
  BY <1>1, <1>2, <1>3, <1>5 DEF IInv, CountInv, MachineInv, BatchInv, SegmentInv, RecoveryInv, Flushing
<1>8. ASSUME NEW o \in Objects PROVE Kept(o)'
  <2>1. CASE o \notin InBatch
    BY <1>1, <1>2, <2>1 DEF IInv, NothingForgotten, Kept, Exists, InBatch
  <2>2. CASE o \in InBatch /\ row' = row /\ dirty' = dirty \cup InBatch
    BY <2>2 DEF Kept
  <2>3. CASE o \in InBatch /\ row' = [p \in Objects |-> IF p \in InBatch THEN Merged(p) ELSE row[p]]
    <3>1. row'[o] = Merged(o) /\ states'[o] \in {NoState, pipe.states[o]}
      BY <1>1, <1>2, <2>3 DEF IInv, BatchInv, InBatch
    <3>2. QED
      BY <1>4, <2>3, <3>1 DEF Kept
  <2>4. QED
    BY <1>2, <2>1, <2>2, <2>3
<1>9. NothingForgotten'
  BY <1>8 DEF Kept, NothingForgotten
<1>10. EventsKept'
  BY <1>1, <1>2, <1>3 DEF IInv, EventsKept
<1>11. QED
  BY <1>6, <1>7, <1>9, <1>10 DEF IInv

LEMMA WriteMonthInv == ASSUME IInv, NEW m \in Months, WriteMonth(m) PROVE IInv'
<1> DEFINE part == {e \in pipe.events : e.month = m}
<1>1. /\ pipe.pc = "events" /\ Flushing
      /\ pipe \in [pc : {"states", "events"}, states : [Objects -> Entry],
                   events : SUBSET Events, months : SUBSET Months, quit : BOOLEAN]
      /\ pipe.events \in SUBSET Events
  BY PipeCases DEF WriteMonth, IInv, TypeOK, Flushing
<1>2. /\ UNCHANGED <<stage, row, states, dirty, pending, emitted, observed, results>>
      /\ troubles' \in Nat
  BY DEF WriteMonth, Trouble, IInv, TypeOK
<1>3. \/ /\ stored' = stored \cup part /\ events' = events
         /\ pipe' = IF pipe.months = {m} THEN Rest(pipe.quit) ELSE [pipe EXCEPT !.months = @ \ {m}]
      \/ /\ events' = events \cup pipe.events /\ stored' = stored
         /\ pipe' = Rest(pipe.quit)
  BY DEF WriteMonth, Requeued
<1>4. CASE pipe' = Rest(pipe.quit)
  <2>1. pipe' \in Pipes /\ pipe'.pc \in {"idle", "stopped"}
    BY <1>4, RestCases
  <2>2. stored' \subseteq Events /\ events' \subseteq Events /\ stored \subseteq stored' /\ events \subseteq events'
    BY <1>1, <1>3 DEF IInv, TypeOK
  <2>3. TypeOK'
    BY <1>2, <2>1, <2>2 DEF IInv, TypeOK, observed
  <2>4. CountInv' /\ MachineInv' /\ BatchInv' /\ SegmentInv' /\ RecoveryInv'
    BY <1>2, <2>1 DEF IInv, CountInv, MachineInv, BatchInv, SegmentInv, RecoveryInv, Flushing
  <2>5. NothingForgotten'
    BY <1>1, <1>2 DEF IInv, NothingForgotten, Exists
  <2>6. pipe.events \subseteq stored' \cup events'
    <3>1. CASE events' = events \cup pipe.events
      BY <3>1
    <3>2. CASE stored' = stored \cup part /\ pipe.months = {m}
      BY <1>1, <3>2 DEF IInv, SegmentInv
    <3>3. CASE pipe' = [pipe EXCEPT !.months = @ \ {m}]
      BY <1>1, <2>1, <3>3
    <3>4. QED
      BY <1>3, <3>1, <3>2, <3>3
  <2>7. EventsKept'
    BY <1>1, <1>2, <2>2, <2>6 DEF IInv, EventsKept
  <2>8. QED
    BY <2>3, <2>4, <2>5, <2>7 DEF IInv
<1>5. CASE /\ pipe' = [pipe EXCEPT !.months = @ \ {m}]
           /\ stored' = stored \cup part /\ events' = events
  <2>1. /\ pipe' \in Pipes /\ pipe'.pc = "events"
        /\ pipe'.states = pipe.states /\ pipe'.events = pipe.events
        /\ pipe'.months = pipe.months \ {m}
    BY <1>1, <1>5 DEF Pipes
  <2>2. stored' \subseteq Events
    BY <1>1, <1>5 DEF IInv, TypeOK
  <2>3. TypeOK'
    BY <1>2, <1>5, <2>1, <2>2 DEF IInv, TypeOK, observed
  <2>4. CountInv' /\ MachineInv' /\ BatchInv' /\ RecoveryInv'
    BY <1>1, <1>2, <2>1 DEF IInv, CountInv, MachineInv, BatchInv, RecoveryInv, Flushing
  <2>5. SegmentInv'
    BY <1>1, <1>5, <2>1 DEF IInv, SegmentInv, Flushing
  <2>6. NothingForgotten' /\ EventsKept'
    BY <1>1, <1>2, <1>5, <2>1 DEF IInv, NothingForgotten, EventsKept, Exists
  <2>7. QED
    BY <2>3, <2>4, <2>5, <2>6 DEF IInv
<1>6. QED
  BY <1>3, <1>4, <1>5

(* The API touches stages, rows, the working set and the marks. *)
LEMMA ApiInv == ASSUME IInv, NEW o \in Objects, Api(o) PROVE IInv'
<1>1. CASE SetAck(o)
  BY <1>1, SetAckInv
<1>2. ASSUME /\ UNCHANGED <<pending, events, stored, emitted, pipe, results>>
             /\ troubles' \in Nat
             /\ stage' \in [Objects -> Stages]
             /\ \A p \in Objects : Exists(p)' => Exists(p)
             /\ \A p \in Objects : Exists(p)' => row'[p] = row[p]
             /\ row' \in [Objects -> Entry]
             /\ states' \in [Objects -> Entry]
             /\ dirty' \subseteq Objects
             /\ unsure' \subseteq Objects /\ UNCHANGED <<run, told>>
             /\ \A p \in Objects : states'[p] = NoState \/ (states'[p] = states[p] /\ (p \in dirty => p \in dirty'))
      PROVE  IInv'
  <2>1. TypeOK'
    BY <1>2 DEF IInv, TypeOK
  <2>2. CountInv' /\ MachineInv' /\ SegmentInv'
    BY <1>2 DEF IInv, CountInv, MachineInv, SegmentInv, Flushing
  <2>3. BatchInv'
    BY <1>2 DEF IInv, BatchInv
  <2>4. RecoveryInv'
    BY <1>2, PipeCases DEF IInv, TypeOK, RecoveryInv
  <2>5. NothingForgotten'
    BY <1>2 DEF IInv, NothingForgotten
  <2>6. EventsKept'
    BY <1>2 DEF IInv, EventsKept
  <2>7. QED
    BY <2>1, <2>2, <2>3, <2>4, <2>5, <2>6 DEF IInv
<1> DEFINE dropped == [row EXCEPT ![o] = NoState]
           forgot == [states EXCEPT ![o] = NoState]
<1>3. /\ stage \in [Objects -> Stages] /\ troubles \in Nat /\ dirty \subseteq Objects /\ unsure \subseteq Objects
      /\ row \in [Objects -> Entry] /\ dropped \in [Objects -> Entry]
      /\ states \in [Objects -> Entry] /\ forgot \in [Objects -> Entry]
  BY DEF IInv, TypeOK, MachineInv, Entry
<1>4. CASE ApiDelete(o)
  BY <1>2, <1>3, <1>4 DEF ApiDelete, MoveOn, observed, DropRow, Trouble, Exists, Stages
<1>5. CASE ApiUnlist(o)
  BY <1>2, <1>3, <1>5 DEF ApiUnlist, MoveOn, observed, Exists, Stages
<1>6. CASE ApiForget(o)
  BY <1>2, <1>3, <1>6 DEF ApiForget, MoveOn, Forget, Exists, Stages
<1>7. CASE BundleForget(o)
  BY <1>2, <1>3, <1>7 DEF BundleForget, MoveOn, Forget, Trouble, Exists, Stages
<1>8. CASE BundleDelete(o)
  BY <1>2, <1>3, <1>8 DEF BundleDelete, MoveOn, observed, DropRow, Trouble, Exists, Stages
<1>9. CASE BundleReload(o)
  BY <1>2, <1>3, <1>9 DEF BundleReload, MoveOn, observed, Exists, Stages
<1>10. QED
  BY <1>1, <1>4, <1>5, <1>6, <1>7, <1>8, <1>9 DEF Api

LEMMA RestartInv == ASSUME IInv, Restart PROVE IInv'
<1>1. /\ stage' = [o \in Objects |-> IF Exists(o) THEN "live" ELSE "gone"]
      /\ states' = [o \in Objects |-> NoState]
      /\ dirty' = {} /\ pending' = FALSE /\ events' = {} /\ emitted' = stored
      /\ pipe' = Idle
      /\ UNCHANGED <<row, stored, run, told, results>>
      /\ unsure' \subseteq Objects
      /\ troubles' \in Nat
  BY DEF Restart, Trouble, IInv, TypeOK
<1>2. pipe' \in Pipes /\ pipe'.pc = "idle"
  BY <1>1 DEF Pipes, Idle
<1>3. stage' \in [Objects -> Stages] /\ states' \in [Objects -> Entry]
  BY <1>1 DEF Stages, Entry
<1>4. TypeOK'
  BY <1>1, <1>2, <1>3 DEF IInv, TypeOK, observed
<1>5. QED
  BY <1>1, <1>2, <1>3, <1>4
  DEF IInv, CountInv, MachineInv, BatchInv, SegmentInv, RecoveryInv, NothingForgotten, EventsKept, Flushing

-----------------------------------------------------------------------------
LEMMA StepInv == ASSUME IInv, [Next]_vars PROVE IInv'
<1>1. ASSUME NEW o \in Objects, NEW in \in Inputs[o], Receive(o, in) PROVE IInv'
  BY <1>1, ReceiveInv
<1>2. CASE Run
  <2>1. CASE Process({})
    BY <2>1, ProcessInv
  <2>2. CASE BeginFlush(FALSE)
    BY <2>2, BeginFlushInv
  <2>3. ASSUME NEW m \in Months, WriteMonth(m) PROVE IInv'
    BY <2>3, WriteMonthInv
  <2>4. QED
    BY <1>2, <2>1, <2>2, <2>3, FreshEnoughInv, ClearAckInv, SaveStatesInv DEF Run
<1>3. ASSUME NEW failed \in SUBSET Objects, Process(failed) PROVE IInv'
  BY <1>3, ProcessInv
<1>4. CASE BeginFlush(TRUE)
  BY <1>4, BeginFlushInv
<1>5. ASSUME NEW o \in Objects, Api(o) PROVE IInv'
  BY <1>5, ApiInv
<1>6. CASE UNCHANGED vars
  BY <1>6 DEF vars, observed, IInv, TypeOK, CountInv, MachineInv, BatchInv, SegmentInv, RecoveryInv,
              NothingForgotten, EventsKept, Exists, Flushing
<1>7. QED
  BY <1>1, <1>2, <1>3, <1>4, <1>5, <1>6, RestartInv DEF Next

THEOREM Invariance == Spec => []IInv
BY InitInv, StepInv, PTL DEF Spec

(* Every variable keeps its type. *)
THEOREM TypeCorrect == Spec => []TypeOK
<1>1. IInv => TypeOK
  BY DEF IInv
<1>2. QED
  BY <1>1, Invariance, PTL

(* What the observer knows of a sure object agrees with its state wherever that
   is: in the working set, or, when it is not there, in the table and in a batch
   on its way to it. *)
Agrees(o, cs) == cs = NoState \/ (Counted(cs, run[o]) /\ Told(cs, told[o]))

ObservedAt(o) ==
    o \notin unsure =>
        /\ states[o] # NoState => Agrees(o, states[o])
        /\ states[o] = NoState => /\ Agrees(o, row[o])
                                  /\ pipe.pc = "states" => Agrees(o, pipe.states[o])

ObservedInv == \A o \in Objects : ObservedAt(o)

(* The acknowledgement is no part of what is observed. *)
LEMMA SameAgrees ==
    ASSUME NEW o \in Objects, NEW a \in CheckStates, NEW b \in Entry, SameResult(a, b)
    PROVE  Agrees(o, a) <=> Agrees(o, b)
<1>1. b \in CheckStates /\ a = [b EXCEPT !.acked = a.acked]
  BY DEF SameResult, Entry
<1>2. a.state = b.state /\ a.type = b.type /\ a.attempt = b.attempt
  BY <1>1 DEF CheckStates
<1>3. QED
  BY <1>1, <1>2, NoStateIsNone DEF Agrees, Counted, Told

LEMMA ObservedProcess ==
    ASSUME IInv, ObservedInv, NEW failed \in SUBSET Objects, Process(failed)
    PROVE  ObservedInv'
<1> DEFINE o == pipe.object
           passive == pipe.input.source = "passive"
           os == {o} \cup Above(o)
           loaded == Loads(os, failed)
           cs == loaded[o]
           in == InState(o, pipe.input.state, loaded)
           new == Apply(cs, in, passive, o \in FlapDetection)
           last == IF HardChange(cs, in, Attempts(passive)) THEN in ELSE told[o]
<1>1. /\ pipe.pc = "process" /\ o \in Objects /\ pipe.input.state \in States
      /\ os \in SUBSET Objects
  BY PipeCases, AboveObjects DEF Process, IInv, TypeOK, Results
<1>2. /\ loaded \in [Objects -> Entry] /\ cs \in CheckStates
      /\ \A p \in Objects : loaded[p] # states[p] => states[p] = NoState
  BY <1>1, LoadsType
<1>3. in \in States
  BY <1>1, InStateType
<1>4. /\ states' = [loaded EXCEPT ![o] = new]
      /\ run' = [run EXCEPT ![o] = RunAfter(@, in, passive)]
      /\ told' = [told EXCEPT ![o] = last]
      /\ unsure' = IF Recovered(cs, in) THEN (unsure \cup Guessed(os, failed)) \ {o}
                   ELSE unsure \cup Guessed(os, failed)
      /\ pipe'.pc \in {"idle", "clearAck"}
      /\ row' = row
  BY DEF Process, Idle
<1>5. run[o] \in 0..MaxCheckAttempts /\ told[o] \in States
  BY <1>1 DEF IInv, TypeOK
<1>51. states'[o] = new
  <2> HIDE DEF new, loaded, o
  <2>1. QED
    BY <1>1, <1>2, <1>4
<1>52. run'[o] = RunAfter(run[o], in, passive) /\ told'[o] = last
  <2>1. run \in [Objects -> 0..MaxCheckAttempts] /\ told \in [Objects -> States]
    BY DEF IInv, TypeOK
  <2> HIDE DEF in, passive, last, o
  <2>2. QED
    BY <1>1, <1>4, <2>1
(* What a load finds of a sure object agrees with the observer. *)
<1>6. ASSUME NEW p \in Objects, p \notin unsure \cup Guessed(os, failed)
      PROVE  Agrees(p, loaded[p]) /\ (states[p] = NoState => Agrees(p, row[p]))
  <2>1. ObservedAt(p)
    BY DEF ObservedInv
  <2>2. CASE states[p] # NoState
    BY <1>6, <2>1, <2>2 DEF ObservedAt, Loads
  <2>3. CASE states[p] = NoState
    <3>1. loaded[p] \in {NoState, row[p]}
      BY <1>6, <2>3 DEF Loads
    <3>2. QED
      BY <1>6, <2>1, <2>3, <3>1 DEF ObservedAt, Agrees
  <2>4. QED
    BY <2>2, <2>3
<1>7. ASSUME o \notin unsure' PROVE Counted(new, run'[o]) /\ Told(new, told'[o])
  <2>1. Recovered(cs, in) \/ (Counted(cs, run[o]) /\ Told(cs, told[o]))
    <3>1. CASE ~Recovered(cs, in)
      <4>1. Agrees(o, cs)
        BY <1>1, <1>4, <1>6, <1>7, <3>1
      <4>2. QED
        BY <1>2, <4>1, NoStateIsNone DEF Agrees
    <3>2. QED
      BY <3>1
  <2>2. passive \in BOOLEAN /\ (o \in FlapDetection) \in BOOLEAN
    OBVIOUS
  <2> HIDE DEF cs, in, passive, o
  <2>3. Counted(new, RunAfter(run[o], in, passive)) /\ Told(new, last)
    BY <1>2, <1>3, <1>5, <2>1, <2>2, ApplyObserved
  <2> HIDE DEF new, last
  <2>4. QED
    BY <1>52, <2>3
<1>8. new \in CheckStates
  <2>1. passive \in BOOLEAN /\ (o \in FlapDetection) \in BOOLEAN
    OBVIOUS
  <2> HIDE DEF in, passive, cs
  <2>2. QED
    BY <1>2, <1>3, <2>1, ApplyType
<1> HIDE DEF loaded, cs, in, new, passive, os, o, last
<1>9. ASSUME NEW p \in Objects PROVE ObservedAt(p)'
  <2>1. CASE p = o
    <3>1. states'[p] = new /\ new # NoState
      BY <1>8, <1>51, <2>1, NoStateIsNone
    <3>2. p \notin unsure' => Counted(new, run'[p]) /\ Told(new, told'[p])
      BY <1>7, <2>1
    <3>3. QED
      BY <3>1, <3>2 DEF ObservedAt, Agrees
  <2>2. CASE p # o
    <3>1. states'[p] = loaded[p] /\ run'[p] = run[p] /\ told'[p] = told[p] /\ row'[p] = row[p]
      BY <1>1, <1>2, <1>4, <2>2 DEF IInv, TypeOK
    <3>2. p \notin unsure' => p \notin unsure \cup Guessed(os, failed)
      BY <1>4, <2>2
    <3>3. states'[p] = NoState => states[p] = NoState
      BY <1>2, <3>1
    <3>4. QED
      BY <1>4, <1>6, <3>1, <3>2, <3>3 DEF ObservedAt, Agrees
  <2>3. QED
    BY <2>1, <2>2
<1>10. QED
  BY <1>9 DEF ObservedInv

(* A step that changes no state but through a Forget, a load of the row or a
   restart, and no row but by a batch or in its acknowledgement. *)
LEMMA ObservedKept ==
    ASSUME IInv, IInv', ObservedInv, UNCHANGED <<run, told>>, unsure \subseteq unsure',
           \A o \in Objects : o \notin unsure' =>
              /\ \/ states'[o] = states[o]
                 \/ states'[o] = NoState /\ ~Unsaved(o)
                 \/ states[o] = NoState /\ states'[o] = row[o] /\ row[o] # NoState
              /\ \/ row'[o] = NoState
                 \/ row[o] # NoState /\ SameResult(row[o], row'[o])
                 \/ states[o] = NoState /\ pipe.pc = "states" /\ pipe.states[o] # NoState
                       /\ SameResult(pipe.states[o], row'[o])
                 \/ states[o] # NoState /\ states'[o] = states[o]
              /\ pipe'.pc = "states" /\ states'[o] = NoState =>
                 \/ pipe'.states[o] = NoState
                 \/ pipe.pc = "states" /\ pipe'.states[o] = pipe.states[o]
    PROVE  ObservedInv'
<1> SUFFICES ASSUME NEW o \in Objects, o \notin unsure' PROVE ObservedAt(o)'
  BY DEF ObservedInv, ObservedAt
<1>1. ObservedAt(o) /\ o \notin unsure
  BY DEF ObservedInv
<1>2. \A cs : Agrees(o, cs)' <=> Agrees(o, cs)
  BY DEF Agrees
<1>3. /\ states[o] \in Entry /\ row[o] \in Entry /\ row'[o] \in Entry
      /\ pipe.pc = "states" => /\ pipe.states[o] \in Entry
                               /\ pipe.states[o] # NoState => states[o] \in {NoState, pipe.states[o]}
  BY DEF IInv, TypeOK, MachineInv, BatchInv, Flushing
(* An object that is dropped from the working set was in the table. *)
<1>4. ASSUME states[o] # NoState, ~Unsaved(o) PROVE Agrees(o, row[o]) /\ Agrees(o, states[o])
  BY <1>1, <1>3, <1>4, SameAgrees DEF Unsaved, ObservedAt, Entry
<1>5. states'[o] = NoState => Agrees(o, row[o])
  BY <1>1, <1>4 DEF ObservedAt
<1>6. pipe.pc = "states" /\ states'[o] = NoState => Agrees(o, pipe.states[o])
  <2> HAVE pipe.pc = "states" /\ states'[o] = NoState
  <2>1. CASE states[o] = NoState
    BY <1>1, <2>1 DEF ObservedAt
  <2>2. CASE states[o] # NoState
    BY <1>3, <1>4, <2>2 DEF Agrees
  <2>3. QED
    BY <2>1, <2>2
<1>7. states'[o] # NoState => Agrees(o, states'[o])
  BY <1>1 DEF ObservedAt
<1>8. states'[o] = NoState => Agrees(o, row'[o])
  <2> HAVE states'[o] = NoState
  <2>1. CASE row'[o] = NoState
    BY <2>1 DEF Agrees
  <2>2. CASE row[o] # NoState /\ SameResult(row[o], row'[o])
    BY <1>3, <1>5, <2>2, SameAgrees DEF Entry
  <2>3. CASE pipe.pc = "states" /\ pipe.states[o] # NoState /\ SameResult(pipe.states[o], row'[o])
    BY <1>3, <1>6, <2>3, SameAgrees DEF Entry
  <2>4. QED
    BY <2>1, <2>2, <2>3
<1>9. pipe'.pc = "states" /\ states'[o] = NoState => Agrees(o, pipe'.states[o])
  BY <1>6 DEF Agrees
<1>10. QED
  BY <1>2, <1>7, <1>8, <1>9 DEF ObservedAt

LEMMA ObservedAcked ==
    ASSUME IInv, IInv', ObservedInv, UNCHANGED <<states, observed>>,
           NEW o \in Objects, NEW b \in BOOLEAN,
           row' = row \/ (row[o] # NoState /\ row' = [row EXCEPT ![o].acked = b]),
           pipe' = pipe \/ pipe'.pc = "idle"
    PROVE  ObservedInv'
<1>1. ASSUME NEW p \in Objects
      PROVE  row'[p] = NoState \/ (row[p] # NoState /\ SameResult(row[p], row'[p]))
  <2>1. row[p] \in Entry
    BY DEF IInv, TypeOK
  <2>2. CASE row'[p] = row[p]
    BY <2>1, <2>2, SameAsRow DEF Entry
  <2>3. CASE row'[p] # row[p]
    <3>1. p = o /\ row[o] \in CheckStates /\ row'[o] = [row[o] EXCEPT !.acked = b]
      BY <2>1, <2>3 DEF IInv, TypeOK, Entry
    <3>2. row[o] = [row'[o] EXCEPT !.acked = row[o].acked] /\ row'[o] \in CheckStates
      BY <3>1 DEF CheckStates
    <3>3. QED
      BY <3>1, <3>2, NoStateIsNone DEF SameResult
  <2>4. QED
    BY <2>2, <2>3
<1>2. QED
  BY <1>1, ObservedKept DEF observed

LEMMA ObservedSave ==
    ASSUME IInv, IInv', ObservedInv, SaveStates
    PROVE  ObservedInv'
<1>1. /\ pipe.pc = "states" /\ UNCHANGED <<states, observed>>
      /\ pipe'.pc # "states"
      /\ row' = row \/ row' = [o \in Objects |-> IF o \in InBatch THEN Merged(o) ELSE row[o]]
  BY RestCases DEF SaveStates
<1>2. ASSUME NEW o \in Objects, states[o] = NoState
      PROVE  \/ row'[o] = NoState
             \/ row[o] # NoState /\ SameResult(row[o], row'[o])
             \/ pipe.states[o] # NoState /\ SameResult(pipe.states[o], row'[o])
  <2>1. row[o] \in Entry
    BY DEF IInv, TypeOK
  <2>2. CASE row'[o] = row[o]
    BY <2>1, <2>2, SameAsRow DEF Entry
  <2>3. CASE o \in InBatch /\ row'[o] = Merged(o)
    BY <1>1, <2>3, MergedSame DEF InBatch
  <2>4. QED
    BY <1>1, <2>2, <2>3
<1>3. QED
  BY <1>1, <1>2, ObservedKept DEF observed

LEMMA ObservedRest ==
    ASSUME IInv, IInv', ObservedInv,
           UNCHANGED <<row, observed>>,
           \A o \in Objects : states'[o] = states[o] \/ (states[o] = NoState /\ states'[o] = row[o] /\ row[o] # NoState),
           \/ pipe'.pc # "states"
           \/ \A o \in Objects : states'[o] = NoState => pipe'.states[o] = NoState
           \/ pipe' = pipe
    PROVE  ObservedInv'
<1>1. ASSUME NEW o \in Objects
      PROVE  row'[o] = NoState \/ (row[o] # NoState /\ SameResult(row[o], row'[o]))
  BY SameAsRow DEF IInv, TypeOK, Entry
<1>2. QED
  BY <1>1, ObservedKept DEF observed

LEMMA ObservedFresh ==
    ASSUME IInv, IInv', ObservedInv, FreshEnough
    PROVE  ObservedInv'
<1> DEFINE o == pipe.object
           loaded == Loads({o}, {})
<1>1. /\ pipe.pc = "process" /\ o \in Objects
      /\ loaded[o].checked /\ states' = loaded /\ pipe'.pc = "idle" /\ UNCHANGED <<row, observed>>
  BY PipeCases DEF FreshEnough, IInv, TypeOK, Idle
<1>2. ASSUME NEW p \in Objects
      PROVE  loaded[p] = states[p] \/ (states[p] = NoState /\ loaded[p] = row[p] /\ row[p] # NoState)
  <2>1. CASE p = o /\ states[o] = NoState
    <3>1. loaded[o] # Unchecked
      BY <1>1 DEF Unchecked
    <3>2. QED
      BY <1>1, <2>1, <3>1 DEF Loads, Guessed
  <2>2. CASE p # o \/ states[p] # NoState
    BY <2>2 DEF Loads
  <2>3. QED
    BY <2>1, <2>2
<1> HIDE DEF loaded, o
<1>3. QED
  BY <1>1, <1>2, ObservedRest

LEMMA ObservedFlush ==
    ASSUME IInv, IInv', ObservedInv, NEW quit \in BOOLEAN, BeginFlush(quit)
    PROVE  ObservedInv'
<1>1. UNCHANGED <<row, states, observed>>
  BY DEF BeginFlush
<1>2. pipe'.pc = "states" => \A o \in Objects : states[o] = NoState => pipe'.states[o] = NoState
  BY RestCases DEF BeginFlush
<1>3. QED
  BY <1>1, <1>2, ObservedRest

(* What is forgotten without being saved makes the object unsure. *)
LEMMA ObservedDropped ==
    ASSUME IInv, IInv', ObservedInv, UNCHANGED <<run, told>>, unsure \subseteq unsure',
           \A o \in Objects : row'[o] \in {NoState, row[o]},
           \A o \in Objects :
              states'[o] = states[o] \/ (states'[o] = NoState /\ (Unsaved(o) => o \in unsure')),
           pipe' = pipe \/ pipe'.pc = "idle"
    PROVE  ObservedInv'
<1>1. ASSUME NEW o \in Objects
      PROVE  row'[o] = NoState \/ (row[o] # NoState /\ SameResult(row[o], row'[o]))
  BY SameAsRow DEF IInv, TypeOK, Entry
<1>2. QED
  BY <1>1, ObservedKept

LEMMA ObservedApi ==
    ASSUME IInv, IInv', ObservedInv, NEW o \in Objects, Api(o)
    PROVE  ObservedInv'
<1>1. CASE SetAck(o)
  BY <1>1, ObservedAcked DEF SetAck
<1>2. CASE Forget(o) /\ UNCHANGED <<row, pipe>>
  <2>1. \A p \in Objects : states'[p] = states[p] \/ (states'[p] = NoState /\ (Unsaved(p) => p \in unsure'))
    BY <1>2 DEF Forget, IInv, TypeOK
  <2>2. QED
    BY <1>2, <2>1, ObservedDropped DEF Forget
<1>3. CASE UNCHANGED <<states, observed, pipe>> /\ (DropRow(o) \/ UNCHANGED row)
  <2>1. \A p \in Objects : row'[p] \in {NoState, row[p]}
    BY <1>3 DEF DropRow, IInv, TypeOK
  <2>2. QED
    BY <1>3, <2>1, ObservedDropped DEF observed
<1>4. QED
  BY <1>1, <1>2, <1>3
  DEF Api, ApiDelete, ApiUnlist, ApiForget, BundleForget, BundleDelete, BundleReload

LEMMA ObservedRestart ==
    ASSUME IInv, IInv', ObservedInv, Restart
    PROVE  ObservedInv'
<1>1. \A o \in Objects : states'[o] = NoState /\ (Unsaved(o) => o \in unsure')
  BY DEF Restart
<1>2. UNCHANGED <<row, run, told>> /\ unsure \subseteq unsure' /\ pipe'.pc = "idle"
  BY DEF Restart, Idle
<1>3. QED
  BY <1>1, <1>2, ObservedDropped

LEMMA ObservedStep == ASSUME IInv, IInv', ObservedInv, [Next]_vars PROVE ObservedInv'
<1>1. ASSUME NEW o \in Objects, NEW in \in Inputs[o], Receive(o, in) PROVE ObservedInv'
  <2>1. UNCHANGED <<row, states, observed>> /\ pipe'.pc \in {"idle", "process"}
    BY <1>1 DEF Receive, Idle
  <2>2. QED
    BY <2>1, ObservedRest
<1>2. ASSUME NEW failed \in SUBSET Objects, Process(failed) PROVE ObservedInv'
  BY <1>2, ObservedProcess
<1>3. CASE ClearAck
  <2>1. /\ pipe.object \in Objects /\ UNCHANGED <<states, observed>> /\ pipe'.pc = "idle"
        /\ row' = row \/ (row[pipe.object] # NoState /\ row' = [row EXCEPT ![pipe.object].acked = FALSE])
    BY <1>3, PipeCases DEF ClearAck, Idle, IInv, TypeOK
  <2>2. QED
    BY <2>1, ObservedAcked
<1>4. ASSUME NEW m \in Months, WriteMonth(m) PROVE ObservedInv'
  <2>1. UNCHANGED <<row, states, observed>> /\ pipe'.pc # "states"
    <3>1. pipe.pc = "events" /\ pipe \in [pc : {"states", "events"}, states : [Objects -> Entry],
              events : SUBSET Events, months : SUBSET Months, quit : BOOLEAN]
      BY <1>4, PipeCases DEF WriteMonth, IInv, TypeOK, Flushing
    <3>2. [pipe EXCEPT !.months = @ \ {m}].pc = "events"
      BY <3>1
    <3>3. QED
      BY <1>4, <3>2, RestCases DEF WriteMonth
  <2>2. QED
    BY <2>1, ObservedRest
<1>5. ASSUME NEW quit \in BOOLEAN, BeginFlush(quit) PROVE ObservedInv'
  BY <1>5, ObservedFlush
<1>6. CASE UNCHANGED vars
  BY <1>6, ObservedRest DEF vars
<1>7. CASE Run
  BY <1>2, <1>3, <1>4, <1>5, <1>7, ObservedFresh, ObservedSave DEF Run
<1>8. QED
  BY <1>1, <1>2, <1>5, <1>6, <1>7, ObservedApi, ObservedRestart DEF Next

THEOREM ObservedAlways == Spec => []ObservedInv
<1>1. Init => ObservedInv
  BY DEF Init, ObservedInv, ObservedAt, Agrees, Idle
<1>2. QED
  BY <1>1, ObservedStep, Invariance, PTL DEF Spec

(* Hard and soft states follow the results in a row, for every number of
   attempts and every mix of active, passive and freshness results, across
   failed writes, crashes and deletions, of every object whose state was neither
   guessed nor lost since it last recovered. *)
THEOREM HardCounted == Spec => []HardWhenCounted
<1>1. ObservedInv => HardWhenCounted
  BY DEF ObservedInv, ObservedAt, Agrees, HardWhenCounted, Sure
<1>2. QED
  BY <1>1, ObservedAlways, PTL

(* The hard changes that were reported add up to the hard state, of the same
   objects. *)
THEOREM ChangesTold == Spec => []HardChangesTold
<1>1. ObservedInv => HardChangesTold
  BY DEF ObservedInv, ObservedAt, Agrees, HardChangesTold, Sure
<1>2. QED
  BY <1>1, ObservedAlways, PTL

(* No change of the working set is forgotten. *)
THEOREM NoneForgotten == Spec => []NothingForgotten
<1>1. IInv => NothingForgotten
  BY DEF IInv
<1>2. QED
  BY <1>1, Invariance, PTL

(* No event is dropped while the process lives. *)
THEOREM NoEventDropped == Spec => []EventsKept
<1>1. IInv => EventsKept
  BY DEF IInv
<1>2. QED
  BY <1>1, Invariance, PTL

(* An acknowledgement goes only when the object is up, or was deleted. *)
THEOREM AckStays == Spec => AckSticky
<1> DEFINE Cleared(o) == row[o] # NoState /\ row'[o] # NoState /\ row[o].acked /\ ~row'[o].acked
           Up(o) == states[o] = NoState \/ states[o].state = OK
<1>1. ASSUME IInv, [Next]_vars, NEW o \in Objects, Cleared(o) PROVE Up(o)
  <2>1. row \in [Objects -> Entry]
    BY <1>1 DEF IInv, MachineInv
  <2>2. CASE ClearAck
    <3>1. pipe.pc = "clearAck"
      BY <2>2 DEF ClearAck
    <3>2. CASE o = pipe.object
      BY <1>1, <3>1, <3>2 DEF IInv, RecoveryInv
    <3>3. CASE o # pipe.object
      BY <1>1, <2>1, <2>2, <3>3 DEF ClearAck
    <3>4. QED
      BY <3>2, <3>3
  <2>3. CASE SaveStates
    <3>1. CASE row' = row
      BY <1>1, <3>1
    <3>2. CASE row' = [p \in Objects |-> IF p \in InBatch THEN Merged(p) ELSE row[p]] /\ o \in InBatch
      <4>1. pipe.states[o] \in CheckStates
        BY <1>1, <2>3, <3>2 DEF IInv, MachineInv, Flushing, SaveStates, InBatch, Entry
      <4>2. row'[o] = [pipe.states[o] EXCEPT !.acked = row[o].acked]
        BY <1>1, <3>2 DEF Merged
      <4>3. row'[o].acked = row[o].acked
        BY <4>1, <4>2, AckedFields DEF CheckStates
      <4>4. QED
        BY <1>1, <4>3
    <3>3. CASE row' = [p \in Objects |-> IF p \in InBatch THEN Merged(p) ELSE row[p]] /\ o \notin InBatch
      BY <1>1, <3>3
    <3>4. QED
      BY <2>3, <3>1, <3>2, <3>3 DEF SaveStates
  <2>4. ASSUME NEW p \in Objects, Api(p) PROVE FALSE
    <3>1. CASE SetAck(p)
      <4>1. row'[o] = row[o] \/ row'[o] = [row[o] EXCEPT !.acked = TRUE]
        BY <2>1, <3>1 DEF SetAck
      <4>2. row[o] \in CheckStates
        BY <1>1, <2>1, AckedFields DEF Entry
      <4>3. QED
        BY <1>1, <4>1, <4>2 DEF CheckStates
    <3>2. CASE row' = row
      BY <1>1, <3>2
    <3>3. CASE DropRow(p)
      BY <1>1, <2>1, <3>3 DEF DropRow
    <3>4. QED
      BY <2>4, <3>1, <3>2, <3>3
      DEF Api, ApiDelete, ApiUnlist, ApiForget, BundleForget, BundleDelete, BundleReload
  <2>5. CASE row' = row
    BY <1>1, <2>5
  <2>6. QED
    BY <1>1, <2>2, <2>3, <2>4, <2>5
    DEF Next, Run, vars, Receive, Process, FreshEnough, BeginFlush, WriteMonth, Restart
<1>2. IInv /\ [Next]_vars => [\A o \in Objects : Cleared(o) => Up(o)]_vars
  BY <1>1
<1>3. QED
  BY <1>2, Invariance, PTL DEF Spec, AckSticky
=============================================================================
