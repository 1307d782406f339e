--------------------------- MODULE Scheduler_proofs ---------------------------
(* The wheel agrees with the entries, and no check is late, off its grid or    *)
(* sent twice, for every size of the ring, of the queue and of the intervals.  *)
EXTENDS Scheduler, TLAPS

-----------------------------------------------------------------------------
(* Quotients and remainders.                                                *)

LEMMA Remainder ==
    ASSUME NEW a \in Int, NEW n \in Nat \ {0}
    PROVE  /\ a % n \in 0..(n - 1)
           /\ a \div n \in Int
           /\ a = n * (a \div n) + (a % n)
OBVIOUS

LEMMA RemainderUnique ==
    ASSUME NEW n \in Nat \ {0}, NEW q \in Int, NEW r \in 0..(n - 1),
           NEW a \in Int, a = n * q + r
    PROVE  a % n = r
OBVIOUS

LEMMA SameRemainder ==
    ASSUME NEW a \in Int, NEW n \in Nat \ {0}, NEW k \in Int
    PROVE  (a + n * k) % n = a % n
<1> DEFINE q == a \div n
           r == a % n
<1>1. q \in Int /\ r \in 0..(n - 1) /\ a = n * q + r
  BY Remainder
<1> HIDE DEF q, r
<1>2. a + n * k = n * (q + k) + r
  BY <1>1
<1>3. q + k \in Int /\ a + n * k \in Int
  BY <1>1
<1>4. (a + n * k) % n = r
  BY <1>1, <1>2, <1>3, RemainderUnique
<1> QED
  BY <1>4 DEF r

LEMMA NextRevolution ==
    ASSUME NEW a \in Nat, NEW n \in Nat \ {0}
    PROVE  (a + n) % n = a % n
<1>1. a \in Int /\ 1 \in Int /\ a + n = a + n * 1
  OBVIOUS
<1>2. (a + n * 1) % n = a % n
  BY <1>1, SameRemainder
<1> QED
  BY <1>1, <1>2

LEMMA AtLeastOnce ==
    ASSUME NEW n \in Nat, NEW d \in Int, d >= 1
    PROVE  n * d >= n
<1>1. n * d = n + n * (d - 1)
  OBVIOUS
<1>2. n * (d - 1) >= 0
  OBVIOUS
<1> QED
  BY <1>1, <1>2

(* The grid: the second after the clock that agrees with the object's hash. *)
LEMMA Grid ==
    ASSUME NEW o \in Objects, NEW i \in Intervals, now \in Nat
    PROVE  /\ NextGrid(o, i) \in Nat /\ NextGrid(o, i) > now
           /\ NextGrid(o, i) % i = Splay[o] % i
<1> DEFINE x == now + 1
           s == Splay[o]
           q == (s - x) \div i
           r == (s - x) % i
<1>1. i \in Nat \ {0} /\ s \in Nat /\ x \in Nat
  BY SchedulerAssumption DEF SchedulerAssumption
<1>2. r \in 0..(i - 1) /\ q \in Int /\ s - x = i * q + r
  <2>1. s - x \in Int
    BY <1>1
  <2> QED
    BY <1>1, <2>1, Remainder
<1>3. NextGrid(o, i) = x + r
  BY DEF NextGrid
<1> HIDE DEF x, s, q, r
<1>4. x + r = s + i * (-q)
  BY <1>1, <1>2
<1>5. (x + r) % i = s % i
  <2>1. s \in Int /\ -q \in Int
    BY <1>1, <1>2
  <2>2. (s + i * (-q)) % i = s % i
    BY <1>1, <2>1, SameRemainder
  <2> QED
    BY <1>4, <2>2
<1>6. x + r \in Nat /\ x + r >= x
  BY <1>1, <1>2
<1> QED
  BY <1>3, <1>5, <1>6 DEF x, s

(* How often the interval must be added to catch up with the wheel. *)
LEMMA Ceiling ==
    ASSUME NEW b \in Nat, NEW i \in Nat \ {0}
    PROVE  /\ (b + i - 1) \div i \in Nat
           /\ i * ((b + i - 1) \div i) >= b
<1> DEFINE q == (b + i - 1) \div i
           r == (b + i - 1) % i
<1>1. q \in Int /\ r \in 0..(i - 1) /\ b + i - 1 = i * q + r
  <2>1. b + i - 1 \in Int
    OBVIOUS
  <2> QED
    BY <2>1, Remainder
<1> HIDE DEF q, r
<1>2. i * q >= b
  BY <1>1
<1>3. q >= 0
  <2>1. CASE q <= -1
    <3>1. i * (-q) >= i
      BY <1>1, <2>1, AtLeastOnce
    <3>2. i * (-q) = -(i * q) /\ i * q \in Int
      BY <1>1
    <3> QED
      BY <1>2, <3>1, <3>2
  <2> QED
    BY <1>1, <2>1
<1> QED
  BY <1>1, <1>2, <1>3 DEF q

(* The second after a visit: on the grid, later than planned, and not behind   *)
(* the wheel; ahead of it when the visit was in time.                        *)
LEMMA FollowingGrid ==
    ASSUME NEW due \in Nat, NEW i \in Nat \ {0}, curTime \in Nat
    PROVE  /\ Following(due, i) \in Nat
           /\ Following(due, i) > due
           /\ Following(due, i) >= curTime
           /\ due = curTime => Following(due, i) > curTime
           /\ Following(due, i) % i = due % i
<1> DEFINE b == Behind(due, i)
           k == (b + i - 1) \div i
<1>1. b \in Nat /\ b >= curTime - (due + i)
  BY DEF Behind
<1>2. Following(due, i) = due + i + i * k
  BY DEF Following
<1> HIDE DEF b
<1>3. k \in Nat /\ i * k >= b
  BY <1>1, Ceiling
<1> HIDE DEF k
<1>4. i * k \in Nat /\ due + i + i * k = due + i * (k + 1)
  BY <1>3
<1>5. (due + i * (k + 1)) % i = due % i
  <2>1. due \in Int /\ k + 1 \in Int
    BY <1>3
  <2> QED
    BY <2>1, SameRemainder
<1> QED
  BY <1>1, <1>2, <1>3, <1>4, <1>5
-----------------------------------------------------------------------------
(* The inductive invariant.                                                 *)

(* The clock and the wheel: a visit goes from the last second visited to the  *)
(* clock as it was read, and a wheel that has not started is young.           *)
Clocks ==
    /\ pc = "slot" => curTime <= target /\ target <= now
    /\ pc = "down" => now <= BootBy
    /\ pc # "slot" => todo = {}

(* An entry stands in the slot of its due second, unless a full queue moved     *)
(* the second and left the entry where it was.                               *)
Placed ==
    \A o \in Scheduled :
        /\ entries[o].due \in Nat \ {0}
        /\ o \notin postponed => entries[o].slot = entries[o].due % Slots

(* In the middle of a visit an entry may be due, but then it is still to do.    *)
InTime(o) ==
    \/ entries[o].due > curTime
    \/ o \in postponed
    \/ o \in missed /\ curTime - entries[o].due < Slots
    \/ /\ o \in todo
       /\ entries[o].due = curTime \/ (o \in missed /\ curTime - entries[o].due = Slots)

AllInTime == pc # "down" => \A o \in Scheduled : InTime(o)

(* The last job of an object was planned before the wheel and before its entry. *)
Planned ==
    \A o \in Objects :
        /\ last[o] <= curTime
        /\ o \in Scheduled => last[o] < entries[o].due

WheelInv ==
    /\ TypeOK /\ WheelAgrees
    /\ Clocks /\ Placed /\ AllInTime /\ OnGrid /\ Planned

-----------------------------------------------------------------------------
LEMMA Sizes == Slots \in Nat \ {0} /\ OutCap \in Nat \ {0} /\ Ring = 0..(Slots - 1)
BY SchedulerAssumption DEF SchedulerAssumption, Ring

LEMMA IntervalNat == \A i \in Intervals : i \in Nat \ {0}
BY SchedulerAssumption DEF SchedulerAssumption

LEMMA SlotOf == \A t \in Nat : t % Slots \in Ring
BY Sizes, Remainder

LEMMA ScheduledEntry ==
    ASSUME TypeOK, NEW o \in Scheduled
    PROVE  o \in Objects /\ entries[o].interval \in Intervals /\ entries[o].interval > 0
BY DEF TypeOK, Scheduled

LEMMA EntryTyped ==
    ASSUME NEW i \in Intervals, NEW due \in Nat
    PROVE  /\ Entry(i, due) \in [interval : Intervals \cup {0}, due : Nat \cup {NoTime}, slot : Ring]
           /\ Entry(i, due).interval = i /\ Entry(i, due).due = due
           /\ Entry(i, due).slot = due % Slots
BY SlotOf DEF Entry

LEMMA WheelInit == Init => WheelInv
<1> SUFFICES ASSUME Init PROVE WheelInv
  OBVIOUS
<1>1. Scheduled = {}
  BY DEF Init, Scheduled, Unscheduled
<1>2. Unscheduled \in [interval : Intervals \cup {0}, due : Nat \cup {NoTime}, slot : Ring]
  BY Sizes DEF Unscheduled
<1>3. TypeOK
  BY <1>2, Sizes, SlotOf DEF Init, TypeOK, NoTime
<1>4. WheelAgrees
  BY <1>1 DEF Init, WheelAgrees
<1>5. Clocks
  BY SchedulerAssumption DEF Init, Clocks, SchedulerAssumption
<1>6. Placed /\ AllInTime /\ OnGrid
  BY <1>1 DEF Init, Placed, AllInTime, OnGrid
<1>7. Planned
  BY <1>1 DEF Init, Planned, NoTime
<1> QED
  BY <1>3, <1>4, <1>5, <1>6, <1>7 DEF WheelInv

(* What stays as it is when neither the entries nor the clocks change. *)
LEMMA SameEntries ==
    ASSUME WheelInv, UNCHANGED <<entries, wheel, curTime, last, missed, postponed>>
    PROVE  /\ WheelAgrees' /\ Placed' /\ OnGrid' /\ Planned'
           /\ Scheduled' = Scheduled
BY DEF WheelInv, WheelAgrees, Placed, OnGrid, Planned, Scheduled

LEMMA StartStep == WheelInv /\ Start => WheelInv'
<1> SUFFICES ASSUME WheelInv, Start PROVE WheelInv'
  OBVIOUS
<1> USE DEF WheelInv
<1>1. TypeOK'
  <2>1. todo = {}
    BY DEF Start, Clocks
  <2> QED
    BY <2>1 DEF TypeOK, Start, Scheduled
<1>2. Scheduled' = Scheduled
  BY DEF Start, Scheduled
<1>3. WheelAgrees' /\ Placed' /\ OnGrid'
  BY <1>2 DEF Start, WheelAgrees, Placed, OnGrid
<1>4. Clocks'
  BY DEF Start, Clocks
<1>5. AllInTime'
  <2> SUFFICES ASSUME NEW o \in Scheduled PROVE InTime(o)'
    BY <1>2 DEF AllInTime
  <2>1. entries[o].due \in Nat \ {0} /\ entries' = entries /\ curTime' = now /\ now \in Nat
    BY DEF Start, Placed, TypeOK
  <2>2. now < Slots
    BY SchedulerAssumption, <2>1 DEF Start, Clocks, SchedulerAssumption
  <2>3. CASE entries[o].due > now
    BY <2>1, <2>3 DEF InTime
  <2>4. CASE entries[o].due <= now
    <3>1. o \in missed'
      BY <2>4 DEF Start
    <3> QED
      BY <3>1, <2>1, <2>2, Sizes DEF InTime
  <2> QED
    BY <2>1, <2>3, <2>4
<1>6. Planned'
  <2> SUFFICES ASSUME NEW o \in Objects
               PROVE  /\ last[o] <= now
                      /\ o \in Scheduled => last[o] < entries[o].due
    BY <1>2 DEF Planned, Start
  <2>1. last[o] \in Int /\ curTime <= now /\ curTime \in Nat /\ now \in Nat
    BY DEF TypeOK, NoTime
  <2> QED
    BY <2>1 DEF Planned
<1> QED
  BY <1>1, <1>2, <1>3, <1>4, <1>5, <1>6

(* The wheel enters the next slot: whatever is due there is to do, and what     *)
(* was to do in the slot before has been done.                               *)
LEMMA VisitStep ==
    ASSUME WheelInv, pc # "down", todo = {}, curTime < target', target' <= now, target' \in Nat,
           Visit(curTime + 1),
           UNCHANGED <<now, entries, wheel, out, last, missed, postponed, changes>>
    PROVE  WheelInv'
<1> USE DEF WheelInv
<1>1. curTime \in Nat /\ now \in Nat /\ curTime' = curTime + 1 /\ curTime' <= now
  BY DEF TypeOK, Visit
<1>2. Scheduled' = Scheduled
  BY DEF Scheduled
<1>3. TypeOK'
  <2>1. todo' = wheel'[curTime' % Slots] /\ pc' = "slot"
    BY DEF Visit
  <2> QED
    BY <1>1, <2>1 DEF TypeOK
<1>4. WheelAgrees' /\ Placed' /\ OnGrid'
  BY <1>2 DEF WheelAgrees, Placed, OnGrid
<1>5. Clocks'
  BY <1>1 DEF Clocks, Visit
<1>6. Planned'
  <2> SUFFICES ASSUME NEW o \in Objects
               PROVE  /\ last[o] <= curTime + 1
                      /\ o \in Scheduled => last[o] < entries[o].due
    BY <1>1, <1>2 DEF Planned
  <2>1. last[o] \in Int
    BY DEF TypeOK, NoTime
  <2> QED
    BY <1>1, <2>1 DEF Planned
<1>7. AllInTime'
  <2> SUFFICES ASSUME NEW o \in Scheduled PROVE InTime(o)'
    BY <1>2 DEF AllInTime
  <2> DEFINE due == entries[o].due
             t == curTime + 1
  <2>1. due \in Nat /\ t \in Nat /\ curTime' = t
    BY <1>1 DEF Placed
  <2>2. InTime(o)
    BY DEF AllInTime
  <2>3. CASE o \in postponed
    BY <2>3 DEF InTime
  <2>4. ASSUME o \notin postponed, due % Slots = t % Slots
        PROVE  o \in todo'
    <3>1. entries[o].slot = t % Slots /\ t % Slots \in Ring /\ o \in Objects
      BY <2>1, <2>4, SlotOf, ScheduledEntry DEF Placed
    <3>2. o \in wheel[t % Slots]
      BY <3>1 DEF WheelAgrees
    <3> QED
      BY <3>2 DEF Visit
  <2>5. CASE o \notin postponed /\ due > curTime
    <3>1. CASE due = t
      BY <2>1, <2>4, <2>5, <3>1 DEF InTime
    <3>2. CASE due # t
      <4>1. due > t
        BY <1>1, <2>1, <2>5, <3>2
      <4> QED
        BY <2>1, <4>1 DEF InTime
    <3> QED
      BY <3>1, <3>2
  <2>6. CASE o \notin postponed /\ o \in missed /\ curTime - due < Slots
    <3>1. CASE t - due < Slots
      BY <2>1, <2>6, <3>1 DEF InTime
    <3>2. CASE ~(t - due < Slots)
      <4>1. t = due + Slots /\ t - due = Slots
        BY <1>1, <2>1, <2>6, <3>2, Sizes
      <4>2. due % Slots = t % Slots
        BY <2>1, <4>1, NextRevolution, Sizes
      <4>3. o \in todo'
        BY <2>4, <2>6, <4>2
      <4> QED
        BY <2>1, <2>6, <4>1, <4>3 DEF InTime
    <3> QED
      BY <3>1, <3>2
  <2> QED
    BY <2>2, <2>3, <2>5, <2>6 DEF InTime
<1> QED
  BY <1>3, <1>4, <1>5, <1>6, <1>7

LEMMA AdvanceStep == WheelInv /\ (Advance \/ NextSlot) => WheelInv'
<1>1. ASSUME WheelInv, Advance PROVE WheelInv'
  <2>1. todo = {} /\ target' = now /\ now \in Nat /\ curTime < now
    BY <1>1 DEF WheelInv, Clocks, Advance, TypeOK
  <2> QED
    BY <1>1, <2>1, VisitStep DEF Advance
<1>2. ASSUME WheelInv, NextSlot, curTime < target PROVE WheelInv'
  BY <1>2, VisitStep DEF WheelInv, Clocks, NextSlot, TypeOK
<1>3. ASSUME WheelInv, NextSlot, ~(curTime < target) PROVE WheelInv'
  <2>1. pc' = "idle" /\ todo = {} /\ UNCHANGED <<curTime, todo, now, entries, wheel, target, out, last,
                                    missed, postponed, changes>>
    BY <1>3 DEF NextSlot
  <2>2. WheelAgrees' /\ Placed' /\ OnGrid' /\ Planned' /\ Scheduled' = Scheduled
    BY <1>3, <2>1, SameEntries
  <2>3. TypeOK' /\ Clocks'
    BY <1>3, <2>1 DEF WheelInv, TypeOK, Clocks
  <2>4. AllInTime'
    <3>1. ASSUME NEW o \in Scheduled PROVE InTime(o)'
      <4>1. InTime(o)
        BY <1>3 DEF WheelInv, AllInTime, NextSlot
      <4> QED
        BY <2>1, <4>1 DEF InTime
    <3> QED
      BY <2>2, <3>1 DEF AllInTime
  <2> QED
    BY <2>2, <2>3, <2>4 DEF WheelInv
<1> QED
  BY <1>1, <1>2, <1>3

LEMMA QuietStep == WheelInv /\ (Take \/ Tick) => WheelInv'
<1> SUFFICES ASSUME WheelInv, Take \/ Tick PROVE WheelInv'
  OBVIOUS
<1>1. UNCHANGED <<entries, wheel, goroutine, last, missed, postponed>>
  BY DEF Take, Tick
<1>2. WheelAgrees' /\ Placed' /\ OnGrid' /\ Planned' /\ Scheduled' = Scheduled
  BY <1>1, SameEntries DEF goroutine
<1>3. now \in Nat /\ now' \in Nat /\ now' >= now /\ (pc = "down" => now' <= BootBy)
  BY SchedulerAssumption DEF Take, Tick, WheelInv, TypeOK, Clocks, SchedulerAssumption
<1>4. Clocks'
  BY <1>1, <1>3 DEF goroutine, WheelInv, Clocks, TypeOK
<1>5. out' \in Seq([object : Objects, planned : Nat]) /\ Len(out') <= OutCap
  <2> DEFINE Job == [object : Objects, planned : Nat]
  <2>1. out \in Seq(Job) /\ Len(out) <= OutCap /\ OutCap \in Nat
    BY Sizes DEF WheelInv, TypeOK
  <2>2. (out # <<>> /\ out' = Tail(out)) \/ out' = out
    BY DEF Take, Tick
  <2> HIDE DEF Job
  <2>3. out' \in Seq(Job) /\ Len(out') <= OutCap
    BY <2>1, <2>2
  <2> QED
    BY <2>3 DEF Job
<1>6. TypeOK'
  <2>1. changes' = changes
    BY DEF Take, Tick
  <2> QED
    BY <1>1, <1>3, <1>5, <2>1 DEF goroutine, WheelInv, TypeOK
<1>7. AllInTime'
  BY <1>1, <1>2 DEF goroutine, WheelInv, AllInTime, InTime
<1> QED
  BY <1>2, <1>4, <1>6, <1>7 DEF WheelInv

(* A change of the catalog meets the wheel between two visits only. *)
LEMMA BetweenVisits ==
    ASSUME WheelInv, Changes, UNCHANGED goroutine
    PROVE  changes' \in Nat /\ pc \in {"down", "idle"} /\ todo = {} /\ todo' = {}
BY DEF WheelInv, TypeOK, Clocks, Changes, goroutine

(* The entry of one object is replaced, and the object moved to its new slot.   *)
LEMMA OtherEntries ==
    ASSUME WheelInv, NEW o \in Objects, NEW p \in Objects, p # o, NEW en,
           entries' = [entries EXCEPT ![o] = en], UNCHANGED curTime, todo' = todo \ {o},
           UNCHANGED pc, missed' \ {o} = missed \ {o}, postponed' \ {o} = postponed \ {o}
    PROVE  /\ entries'[p] = entries[p]
           /\ p \in Scheduled' <=> p \in Scheduled
           /\ p \in postponed' <=> p \in postponed
           /\ InTime(p) => InTime(p)'
<1>1. entries'[p] = entries[p]
  BY DEF WheelInv, TypeOK
<1>2. /\ p \in postponed' <=> p \in postponed
      /\ p \in missed' <=> p \in missed
      /\ p \in todo' <=> p \in todo
  OBVIOUS
<1> QED
  BY <1>1, <1>2 DEF Scheduled, InTime

LEMMA UpsertStep ==
    ASSUME WheelInv, NEW o \in Objects, NEW i \in Intervals, Upsert(o, i)
    PROVE  WheelInv'
<1> DEFINE due == NextGrid(o, i)
           en == Entry(i, due)
<1> USE DEF WheelInv
<1>1. now \in Nat /\ curTime \in Nat /\ curTime <= now
  BY DEF TypeOK
<1>2. due \in Nat /\ due > now /\ due % i = Splay[o] % i
  BY <1>1, Grid
<1>3. /\ en \in [interval : Intervals \cup {0}, due : Nat \cup {NoTime}, slot : Ring]
      /\ en.interval = i /\ en.due = due /\ en.slot = due % Slots /\ en.slot \in Ring
  BY <1>2, EntryTyped, SlotOf
<1> HIDE DEF due
<1>4. /\ entries' = [entries EXCEPT ![o] = en] /\ wheel' = [Without(o) EXCEPT ![en.slot] = @ \cup {o}]
      /\ missed' = missed \ {o} /\ postponed' = postponed \ {o}
      /\ UNCHANGED <<now, pc, curTime, target, todo, out, last>>
  BY DEF Upsert, goroutine, due
<1>5. changes' \in Nat /\ pc \in {"down", "idle"} /\ todo = {} /\ todo' = {}
  BY BetweenVisits, <1>4 DEF Upsert, goroutine
<1> HIDE DEF en
<1>6. entries'[o] = en /\ o \in Scheduled' /\ o \notin postponed'
  BY <1>3, <1>4, IntervalNat DEF TypeOK, Scheduled
<1>7. ASSUME NEW p \in Objects, p # o
      PROVE  /\ entries'[p] = entries[p]
             /\ p \in Scheduled' <=> p \in Scheduled
             /\ p \in postponed' <=> p \in postponed
             /\ InTime(p) => InTime(p)'
  <2> HIDE DEF WheelInv
  <2>1. /\ missed' \ {o} = missed \ {o} /\ postponed' \ {o} = postponed \ {o}
        /\ todo' = todo \ {o}
    BY <1>4, <1>5
  <2> QED
    BY <1>4, <1>7, <2>1, OtherEntries
<1>8. TypeOK'
  BY <1>3, <1>4, <1>5 DEF TypeOK, Without
<1>9. WheelAgrees'
  <2>1. entries[o].slot \in Ring /\ wheel \in [Ring -> SUBSET Objects]
    BY DEF TypeOK
  <2>2. ASSUME NEW p \in Objects, NEW k \in Ring
        PROVE  p \in wheel'[k] <=> p \in Scheduled' /\ entries'[p].slot = k
    <3>1. CASE p = o
      <4>1. o \in wheel[k] => k = entries[o].slot
        BY DEF WheelAgrees
      <4> QED
        BY <1>3, <1>4, <1>6, <2>1, <3>1, <4>1 DEF Without
    <3>2. CASE p # o
      <4>1. p \in wheel'[k] <=> p \in wheel[k]
        BY <1>3, <1>4, <2>1, <3>2 DEF Without
      <4> QED
        BY <1>7, <3>2, <4>1 DEF WheelAgrees
    <3> QED
      BY <3>1, <3>2
  <2> QED
    BY <2>2 DEF WheelAgrees
<1>10. Clocks'
  BY <1>4, <1>5 DEF Clocks
<1>11. Placed'
  BY <1>1, <1>2, <1>3, <1>6, <1>7 DEF Placed, Scheduled
<1>12. AllInTime'
  <2>1. InTime(o)'
    BY <1>1, <1>2, <1>3, <1>4, <1>6 DEF InTime
  <2> QED
    BY <1>4, <1>7, <2>1 DEF AllInTime, Scheduled
<1>13. OnGrid'
  BY <1>2, <1>3, <1>6, <1>7 DEF OnGrid, Scheduled
<1>14. Planned'
  <2>1. last[o] \in Int /\ last[o] <= curTime
    BY DEF TypeOK, NoTime, Planned
  <2>2. last[o] < due
    BY <1>1, <1>2, <2>1
  <2> QED
    BY <1>3, <1>4, <1>6, <1>7, <2>2 DEF Planned
<1> QED
  BY <1>8, <1>9, <1>10, <1>11, <1>12, <1>13, <1>14

LEMMA RemoveStep ==
    ASSUME WheelInv, NEW o \in Objects, Remove(o)
    PROVE  WheelInv'
<1> USE DEF WheelInv
<1>1. /\ entries' = [entries EXCEPT ![o] = Unscheduled] /\ wheel' = Without(o)
      /\ missed' = missed \ {o} /\ postponed' = postponed \ {o}
      /\ UNCHANGED <<now, pc, curTime, target, todo, out, last>>
  BY DEF Remove, goroutine
<1>2. changes' \in Nat /\ pc \in {"down", "idle"} /\ todo = {} /\ todo' = {}
  BY BetweenVisits, <1>1 DEF Remove, goroutine
<1>3. o \notin Scheduled'
  BY <1>1 DEF Scheduled, Unscheduled, TypeOK
<1>4. ASSUME NEW p \in Objects, p # o
      PROVE  /\ entries'[p] = entries[p]
             /\ p \in Scheduled' <=> p \in Scheduled
             /\ p \in postponed' <=> p \in postponed
             /\ InTime(p) => InTime(p)'
  <2> HIDE DEF WheelInv
  <2>1. /\ missed' \ {o} = missed \ {o} /\ postponed' \ {o} = postponed \ {o}
        /\ todo' = todo \ {o}
    BY <1>1, <1>2
  <2> QED
    BY <1>1, <1>4, <2>1, OtherEntries
<1>5. TypeOK'
  <2>1. Unscheduled \in [interval : Intervals \cup {0}, due : Nat \cup {NoTime}, slot : Ring]
    BY Sizes DEF Unscheduled
  <2> QED
    BY <1>1, <1>2, <2>1 DEF TypeOK, Without
<1>6. WheelAgrees'
  <2>1. entries[o].slot \in Ring /\ wheel \in [Ring -> SUBSET Objects]
    BY DEF TypeOK
  <2>2. ASSUME NEW p \in Objects, NEW k \in Ring
        PROVE  p \in wheel'[k] <=> p \in Scheduled' /\ entries'[p].slot = k
    <3>1. CASE p = o
      <4>1. o \in wheel[k] => k = entries[o].slot
        BY DEF WheelAgrees
      <4> QED
        BY <1>1, <1>3, <2>1, <3>1, <4>1 DEF Without
    <3>2. CASE p # o
      <4>1. p \in wheel'[k] <=> p \in wheel[k]
        BY <1>1, <2>1, <3>2 DEF Without
      <4> QED
        BY <1>4, <3>2, <4>1 DEF WheelAgrees
    <3> QED
      BY <3>1, <3>2
  <2> QED
    BY <2>2 DEF WheelAgrees
<1>7. Clocks'
  BY <1>1, <1>2 DEF Clocks
<1>8. Placed' /\ OnGrid'
  BY <1>3, <1>4 DEF Placed, OnGrid, Scheduled
<1>9. AllInTime'
  BY <1>1, <1>3, <1>4 DEF AllInTime, Scheduled
<1>10. Planned'
  BY <1>1, <1>3, <1>4 DEF Planned
<1> QED
  BY <1>5, <1>6, <1>7, <1>8, <1>9, <1>10

(* An entry that is looked at stands in the slot of the wheel. *)
LEMMA LookedAt ==
    ASSUME WheelInv, NEW o \in Objects, Looks(o)
    PROVE  /\ pc = "slot" /\ o \in Scheduled /\ entries[o].slot = curTime % Slots
           /\ curTime % Slots \in Ring /\ o \in wheel[curTime % Slots]
BY SlotOf DEF WheelInv, TypeOK, WheelAgrees, Looks

LEMMA KeepStep ==
    ASSUME WheelInv, NEW o \in Objects, Keep(o)
    PROVE  WheelInv'
<1>1. /\ UNCHANGED <<now, entries, wheel, pc, curTime, target, out, last, missed, postponed, changes>>
      /\ todo' = todo \ {o} /\ pc = "slot"
  BY DEF Keep, Looks
<1>2. WheelAgrees' /\ Placed' /\ OnGrid' /\ Planned' /\ Scheduled' = Scheduled
  BY <1>1, SameEntries
<1>3. TypeOK' /\ Clocks'
  BY <1>1 DEF WheelInv, TypeOK, Clocks
<1>4. ASSUME NEW p \in Scheduled PROVE InTime(p)'
  <2>1. InTime(p)
    BY <1>1 DEF WheelInv, AllInTime
  <2>2. CASE p = o
    <3>1. entries[o].due > curTime
      BY LookedAt, <2>2 DEF Keep, IsDue, WheelInv, Placed, TypeOK
    <3> QED
      BY <1>1, <2>2, <3>1 DEF InTime
  <2>3. CASE p # o
    BY <1>1, <2>1, <2>3 DEF InTime
  <2> QED
    BY <2>2, <2>3
<1> QED
  BY <1>2, <1>3, <1>4 DEF WheelInv, AllInTime

LEMMA PostponeStep ==
    ASSUME WheelInv, NEW o \in Objects, Postpone(o)
    PROVE  WheelInv'
<1> USE DEF WheelInv
<1> DEFINE en == [entries[o] EXCEPT !.due = entries[o].due + 1]
<1>1. /\ entries' = [entries EXCEPT ![o] = en] /\ todo' = todo \ {o}
      /\ postponed' = postponed \cup {o} /\ pc = "slot"
      /\ UNCHANGED <<now, wheel, pc, curTime, target, out, last, missed, changes>>
  BY DEF Postpone, Looks
<1>2. /\ entries[o].due \in Nat \ {0} /\ o \in Scheduled
      /\ entries[o] \in [interval : Intervals \cup {0}, due : Nat \cup {NoTime}, slot : Ring]
  BY LookedAt DEF Postpone, Placed, TypeOK
<1>3. /\ en \in [interval : Intervals \cup {0}, due : Nat \cup {NoTime}, slot : Ring]
      /\ en.due = entries[o].due + 1 /\ en.due \in Nat \ {0}
      /\ en.slot = entries[o].slot /\ en.interval = entries[o].interval
  BY <1>2
<1> HIDE DEF en
<1>4. entries'[o] = en /\ o \in Scheduled' /\ o \in postponed'
  BY <1>1, <1>2, <1>3 DEF TypeOK, Scheduled
<1>5. ASSUME NEW p \in Objects, p # o
      PROVE  /\ entries'[p] = entries[p]
             /\ p \in Scheduled' <=> p \in Scheduled
             /\ p \in postponed' <=> p \in postponed
             /\ InTime(p) => InTime(p)'
  BY <1>1, <1>5, OtherEntries
<1>6. TypeOK'
  BY <1>1, <1>3 DEF TypeOK
<1>7. WheelAgrees'
  <2>1. ASSUME NEW p \in Objects
        PROVE  p \in Scheduled' <=> p \in Scheduled /\ entries'[p].slot = entries[p].slot
    BY <1>2, <1>3, <1>4, <1>5
  <2>2. ASSUME NEW p \in Objects
        PROVE  entries'[p].slot = entries[p].slot
    BY <1>3, <1>4, <1>5
  <2> QED
    BY <1>1, <2>1, <2>2 DEF WheelAgrees
<1>8. Clocks'
  BY <1>1 DEF Clocks
<1>9. Placed' /\ OnGrid'
  BY <1>3, <1>4, <1>5 DEF Placed, OnGrid, Scheduled
<1>10. AllInTime'
  <2>1. InTime(o)'
    BY <1>4 DEF InTime
  <2> QED
    BY <1>1, <1>5, <2>1 DEF AllInTime, Scheduled
<1>11. Planned'
  <2>1. last[o] \in Int /\ last[o] < entries[o].due
    BY <1>2 DEF TypeOK, NoTime, Planned
  <2>2. last[o] < en.due
    BY <1>2, <1>3, <2>1
  <2> QED
    BY <1>1, <1>4, <1>5, <2>2 DEF Planned
<1> QED
  BY <1>6, <1>7, <1>8, <1>9, <1>10, <1>11

(* A job is sent: the entry moves on to the slot of its next check. *)
LEMMA DispatchStep ==
    ASSUME WheelInv, NEW o \in Objects, Dispatch(o)
    PROVE  WheelInv'
<1> USE DEF WheelInv
<1> DEFINE due == entries[o].due
           i == entries[o].interval
           following == Following(due, i)
           en == Entry(i, following)
           job == [object |-> o, planned |-> due]
<1>1. /\ entries' = [entries EXCEPT ![o] = en] /\ todo' = todo \ {o}
      /\ wheel' = [wheel EXCEPT ![curTime % Slots] = @ \ {o}, ![en.slot] = @ \cup {o}]
      /\ pc = "slot" /\ out' = Append(out, job) /\ Len(out) < OutCap
      /\ last' = [last EXCEPT ![o] = due] /\ due <= curTime
      /\ UNCHANGED <<now, pc, curTime, target, missed, postponed, changes>>
  BY DEF Dispatch, Looks, IsDue
<1>2. /\ due \in Nat \ {0} /\ o \in Scheduled /\ i \in Intervals /\ i \in Nat \ {0}
      /\ curTime \in Nat
  BY LookedAt, ScheduledEntry, IntervalNat DEF Dispatch, Placed, TypeOK
<1>3. /\ following \in Nat /\ following > due /\ following >= curTime
      /\ due = curTime => following > curTime
      /\ following % i = due % i
  BY <1>2, FollowingGrid
<1>4. /\ en \in [interval : Intervals \cup {0}, due : Nat \cup {NoTime}, slot : Ring]
      /\ en.interval = i /\ en.due = following /\ en.slot = following % Slots /\ en.slot \in Ring
  BY <1>2, <1>3, EntryTyped, SlotOf
<1>5. job \in [object : Objects, planned : Nat]
  BY <1>2
<1>6. InTime(o)
  BY <1>1, <1>2 DEF AllInTime
<1>7. /\ o \notin postponed => due % i = Splay[o] % i
      /\ entries[o].slot = curTime % Slots /\ curTime % Slots \in Ring
  BY <1>2, LookedAt DEF OnGrid, Dispatch
<1> HIDE DEF following, en, job
<1>8. entries'[o] = en /\ o \in Scheduled'
  BY <1>1, <1>2, <1>4 DEF TypeOK, Scheduled
<1>9. ASSUME NEW p \in Objects, p # o
      PROVE  /\ entries'[p] = entries[p]
             /\ p \in Scheduled' <=> p \in Scheduled
             /\ p \in postponed' <=> p \in postponed
             /\ InTime(p) => InTime(p)'
  BY <1>1, <1>9, OtherEntries
<1>10. WheelAgrees'
  <2>1. wheel \in [Ring -> SUBSET Objects]
    BY DEF TypeOK
  <2>2. ASSUME NEW p \in Objects, NEW k \in Ring
        PROVE  p \in wheel'[k] <=> p \in Scheduled' /\ entries'[p].slot = k
    <3>1. CASE p = o
      <4>1. o \in wheel[k] => k = entries[o].slot
        BY DEF WheelAgrees
      <4> QED
        BY <1>1, <1>4, <1>7, <1>8, <2>1, <3>1, <4>1
    <3>2. CASE p # o
      <4>1. p \in wheel'[k] <=> p \in wheel[k]
        BY <1>1, <1>4, <1>7, <2>1, <3>2
      <4> QED
        BY <1>9, <3>2, <4>1 DEF WheelAgrees
    <3> QED
      BY <3>1, <3>2
  <2> QED
    BY <2>2 DEF WheelAgrees
<1>11. TypeOK'
  <2>1. wheel' \in [Ring -> SUBSET Objects] /\ entries' \in [Objects ->
           [interval : Intervals \cup {0}, due : Nat \cup {NoTime}, slot : Ring]]
    BY <1>1, <1>4, <1>7 DEF TypeOK
  <2>2. todo' \subseteq wheel'[curTime' % Slots]
    <3>1. ASSUME NEW p \in todo' PROVE p \in wheel'[curTime % Slots]
      <4>1. p \in wheel[curTime % Slots] /\ p # o /\ p \in Objects
        BY <1>1, <1>7, <3>1 DEF TypeOK
      <4>2. p \in Scheduled /\ entries[p].slot = curTime % Slots
        BY <1>7, <4>1 DEF WheelAgrees
      <4>3. p \in Scheduled' /\ entries'[p].slot = curTime % Slots
        BY <1>9, <4>1, <4>2
      <4> QED
        BY <1>7, <1>10, <4>1, <4>3 DEF WheelAgrees
    <3> QED
      BY <1>1, <3>1
  <2>3. last' \in [Objects -> Nat \cup {NoTime}]
    BY <1>1, <1>2 DEF TypeOK
  <2>4. out' \in Seq([object : Objects, planned : Nat]) /\ Len(out') <= OutCap
    <3> DEFINE Job == [object : Objects, planned : Nat]
    <3>1. out \in Seq(Job) /\ job \in Job /\ OutCap \in Nat
      BY <1>5, Sizes DEF TypeOK
    <3> HIDE DEF Job
    <3>2. Append(out, job) \in Seq(Job) /\ Len(Append(out, job)) <= OutCap
      BY <1>1, <3>1
    <3> QED
      BY <1>1, <3>2 DEF Job
  <2> QED
    BY <1>1, <2>1, <2>2, <2>3, <2>4 DEF TypeOK
<1>12. Clocks'
  BY <1>1 DEF Clocks
<1>13. Placed'
  BY <1>2, <1>3, <1>4, <1>8, <1>9 DEF Placed, Scheduled
<1>14. OnGrid'
  BY <1>1, <1>3, <1>4, <1>7, <1>8, <1>9 DEF OnGrid, Scheduled
<1>15. AllInTime'
  <2>1. InTime(o)'
    <3>1. CASE following > curTime
      BY <1>1, <1>4, <1>8, <3>1 DEF InTime
    <3>2. CASE ~(following > curTime)
      <4>1. curTime - following = 0 /\ due # curTime /\ ~(due > curTime)
        BY <1>1, <1>2, <1>3, <3>2
      <4>2. o \in postponed \/ o \in missed
        BY <1>6, <4>1 DEF InTime
      <4> QED
        BY <1>1, <1>4, <1>8, <4>1, <4>2, Sizes DEF InTime
    <3> QED
      BY <3>1, <3>2
  <2> QED
    BY <1>1, <1>9, <2>1 DEF AllInTime, Scheduled
<1>16. Planned'
  <2>1. ASSUME NEW p \in Objects, p # o PROVE last'[p] = last[p]
    BY <1>1, <2>1 DEF TypeOK
  <2>2. last'[o] = due /\ due <= curTime' /\ due < entries'[o].due
    BY <1>1, <1>3, <1>4, <1>8 DEF TypeOK
  <2> QED
    BY <1>1, <1>9, <2>1, <2>2 DEF Planned
<1> QED
  BY <1>10, <1>11, <1>12, <1>13, <1>14, <1>15, <1>16

LEMMA WheelStep == WheelInv /\ [Next]_vars => WheelInv'
<1>1. ASSUME WheelInv, UNCHANGED vars PROVE WheelInv'
  BY <1>1, SameEntries DEF vars, goroutine, WheelInv, TypeOK, Clocks, AllInTime, InTime
<1> QED
  BY <1>1, StartStep, AdvanceStep, QuietStep, UpsertStep, RemoveStep, KeepStep, PostponeStep,
     DispatchStep DEF Next

-----------------------------------------------------------------------------
(* The theorems.                                                            *)

LEMMA WheelInvariant == Spec => []WheelInv
BY WheelInit, WheelStep, PTL DEF Spec

(* Types: the queue to the executor never holds more than it has room for, and  *)
(* what a visit has still to do stands in the slot of the wheel (scheduler.go).  *)
THEOREM TypeCorrect == Spec => []TypeOK
<1>1. WheelInv => TypeOK
  BY DEF WheelInv
<1> QED
  BY <1>1, WheelInvariant, PTL

(* removeLocked finds every entry where the entry says it stands, so a removed or *)
(* rescheduled object leaves nothing behind in the ring.                       *)
THEOREM WheelConsistent == Spec => []WheelAgrees
<1>1. WheelInv => WheelAgrees
  BY DEF WheelInv
<1> QED
  BY <1>1, WheelInvariant, PTL

(* advance leaves no entry behind, for every ring larger than the time the boot  *)
(* takes, and every job is planned on the grid of its object.                  *)
THEOREM NextCheckOnTime == Spec => []OnTime
<1>1. WheelInv => OnTime
  <2> SUFFICES ASSUME WheelInv, pc = "idle", NEW o \in Scheduled
               PROVE  \/ entries[o].due > curTime
                      \/ o \in postponed
                      \/ o \in missed /\ curTime - entries[o].due < Slots
    BY DEF OnTime, NotBehind, WheelInv
  <2>1. InTime(o) /\ todo = {}
    BY DEF WheelInv, AllInTime, Clocks
  <2> QED
    BY <2>1 DEF InTime
<1> QED
  BY <1>1, WheelInvariant, PTL

(* dispatch sends no planned second of an object twice, however the object is    *)
(* rescheduled in between.                                                     *)
THEOREM NoCheckTwice == Spec => OncePerTime
<1>1. WheelInv /\ [Next]_vars =>
        [Len(out') > Len(out) => LET job == out'[Len(out')]
                                 IN  job.planned > last[job.object]]_vars
  <2> SUFFICES ASSUME WheelInv, Next, Len(out') > Len(out)
               PROVE  out'[Len(out')].planned > last[out'[Len(out')].object]
    OBVIOUS
  <2> DEFINE Job == [object : Objects, planned : Nat]
  <2>1. out \in Seq(Job)
    BY DEF WheelInv, TypeOK
  <2>2. out' # out /\ ~Take
    <3> HIDE DEF Job
    <3>1. out' # out
      OBVIOUS
    <3>2. out # <<>> => Len(Tail(out)) < Len(out)
      BY <2>1
    <3>3. Len(out) \in Nat
      BY <2>1
    <3>4. ~Take
      <4> SUFFICES ASSUME Take PROVE FALSE
        OBVIOUS
      <4>1. out # <<>> /\ out' = Tail(out) /\ Len(Tail(out)) = Len(out) - 1
        BY <2>1 DEF Take
      <4> QED
        BY <3>3, <4>1
    <3> QED
      BY <3>1, <3>4
  <2>3. PICK o \in Objects : Dispatch(o)
    BY <2>2 DEF Next, Start, Advance, NextSlot, Tick, Upsert, Remove, Keep, Postpone
  <2>4. /\ out' = Append(out, [object |-> o, planned |-> entries[o].due])
        /\ o \in Scheduled /\ entries[o].due \in Nat
    BY <2>3, LookedAt DEF Dispatch, WheelInv, Placed
  <2>5. out'[Len(out')] = [object |-> o, planned |-> entries[o].due]
    BY <2>1, <2>4
  <2>6. last[o] < entries[o].due /\ last[o] \in Int
    BY <2>4 DEF WheelInv, Planned, TypeOK, NoTime
  <2> QED
    BY <2>4, <2>5, <2>6
<1> QED
  BY <1>1, WheelInvariant, PTL DEF Spec, OncePerTime
=============================================================================
