----------------------------- MODULE IdentifyProofs -----------------------------
(* Theorems about Identify, for every value of its constants. *)
EXTENDS Identify, FiniteSetTheorems, TLAPS

\* The parts of IdentifyConstants the steps need.
LEMMA Slots ==
    /\ QueueSize \in Nat \ {0} /\ AlarmPool \in Nat \ {0} /\ MaxTime \in Nat \ {0}
    /\ PoolSlots \in Nat /\ PoolSlots = AlarmPool + QueueSize
  BY IdentifyConstants DEF PoolSlots

--------------------------------------------------------------------------------
(* Counting the callbacks of one kind in a queue. *)

Count(q, cb) == Cardinality(At(q, cb))

\* A queue holds finitely many of them, and no more than it has callbacks.
LEMMA CountType ==
    ASSUME NEW q \in Seq(Callbacks), NEW cb
    PROVE  IsFiniteSet(At(q, cb)) /\ Count(q, cb) \in Nat /\ Count(q, cb) <= Len(q)
<1>1. Len(q) \in Nat /\ 1 \in Int /\ Len(q) \in Int
  OBVIOUS
<1>2. IsFiniteSet(1..Len(q)) /\ Cardinality(1..Len(q)) = Len(q)
  BY <1>1, FS_Interval
<1>3. At(q, cb) \in SUBSET (1..Len(q))
  BY DEF At
<1>4. IsFiniteSet(At(q, cb)) /\ Cardinality(At(q, cb)) <= Cardinality(1..Len(q))
  BY <1>2, <1>3, FS_Subset
<1> QED
  BY <1>2, <1>4, FS_CardinalityType DEF Count

\* A callback that is scheduled comes behind the others, or is dropped.
LEMMA CountScheduled ==
    ASSUME NEW q \in Seq(Callbacks), NEW c \in Callbacks, NEW cb
    PROVE  /\ c = cb => Count(Scheduled(q, c), cb) <= Count(q, cb) + 1
           /\ c # cb => Count(Scheduled(q, c), cb) = Count(q, cb)
           /\ Scheduled(q, c) \in Seq(Callbacks)
           /\ Len(q) <= QueueSize => Len(Scheduled(q, c)) <= QueueSize
<1>1. CASE Scheduled(q, c) = q
  BY <1>1, CountType
<1>2. CASE Scheduled(q, c) = Append(q, c) /\ Len(q) < QueueSize
  <2>1. /\ Append(q, c) \in Seq(Callbacks) /\ Len(Append(q, c)) = Len(q) + 1 /\ Len(q) \in Nat
        /\ Append(q, c)[Len(q) + 1] = c
        /\ \A i \in 1..Len(q) : Append(q, c)[i] = q[i]
    OBVIOUS
  <2>2. CASE c = cb
    <3>1. At(Append(q, c), cb) = At(q, cb) \union {Len(q) + 1}
      BY <2>1, <2>2 DEF At
    <3>2. IsFiniteSet(At(q, cb)) /\ Count(q, cb) \in Nat
      BY CountType
    <3>3. \/ Cardinality(At(q, cb) \union {Len(q) + 1}) = Cardinality(At(q, cb))
          \/ Cardinality(At(q, cb) \union {Len(q) + 1}) = Cardinality(At(q, cb)) + 1
      BY <3>2, FS_AddElement
    <3>4. Count(Append(q, c), cb) <= Count(q, cb) + 1
      BY <3>1, <3>2, <3>3 DEF Count
    <3> QED
      BY <1>2, <2>1, <2>2, <3>4, Slots
  <2>3. CASE c # cb
    <3>1. At(Append(q, c), cb) = At(q, cb)
      BY <2>1, <2>3 DEF At
    <3> QED
      BY <1>2, <2>1, <2>3, <3>1, Slots DEF Count
  <2> QED
    BY <2>2, <2>3
<1> QED
  BY <1>1, <1>2 DEF Scheduled

\* The callback that is served was one of them, or was not.
LEMMA CountServed ==
    ASSUME NEW q \in Seq(Callbacks), q # <<>>, NEW cb
    PROVE  /\ Count(Tail(q), cb) = IF Head(q) = cb THEN Count(q, cb) - 1 ELSE Count(q, cb)
           /\ Tail(q) \in Seq(Callbacks) /\ Len(Tail(q)) < Len(q)
<1>1. /\ Tail(q) \in Seq(Callbacks) /\ Len(q) \in Nat \ {0} /\ Len(Tail(q)) = Len(q) - 1
      /\ Head(q) = q[1]
      /\ \A i \in 1..Len(Tail(q)) : Tail(q)[i] = q[i + 1]
  OBVIOUS
<1> DEFINE S == At(Tail(q), cb)
           T == At(q, cb) \ {1}
           f == [i \in S |-> i + 1]
<1>2. \A i \in S : i \in Nat /\ i + 1 \in T
  BY <1>1 DEF At
<1>3. \A j \in T : j - 1 \in S /\ j = (j - 1) + 1
  <2> SUFFICES ASSUME NEW j \in T PROVE j - 1 \in S /\ j = (j - 1) + 1
    OBVIOUS
  <2>1. j \in 1..Len(q) /\ j # 1 /\ q[j] = cb
    BY DEF At
  <2>2. j - 1 \in 1..Len(Tail(q)) /\ (j - 1) + 1 = j
    BY <1>1, <2>1
  <2> QED
    BY <1>1, <2>1, <2>2 DEF At
<1>4. ExistsBijection(S, T)
  <2>1. f \in Injection(S, T)
    <3>1. f \in [S -> T]
      BY <1>2
    <3>2. \A a, b \in S : f[a] = f[b] => a = b
      BY <1>2
    <3> QED
      BY <3>1, <3>2 DEF Injection, IsInjective
  <2>2. f \in Surjection(S, T)
    <3>1. f \in [S -> T]
      BY <1>2
    <3>2. \A j \in T : \E i \in S : f[i] = j
      BY <1>3
    <3> QED
      BY <3>1, <3>2 DEF Surjection
  <2> QED
    BY <2>1, <2>2 DEF ExistsBijection, Bijection
<1>5. IsFiniteSet(S) /\ Cardinality(T) = Cardinality(S)
  BY <1>1, <1>4, CountType, FS_Bijection
<1>6. Cardinality(T) = IF 1 \in At(q, cb) THEN Count(q, cb) - 1 ELSE Count(q, cb)
  BY CountType, FS_RemoveElement DEF Count
<1>7. 1 \in At(q, cb) <=> Head(q) = cb
  BY <1>1 DEF At
<1> QED
  BY <1>1, <1>5, <1>6, <1>7 DEF Count

--------------------------------------------------------------------------------
(* Types. *)

\* A queue that is scheduled in, or served, keeps its type and its bound.
LEMMA InitType == Init => TypeOK
<1> SUFFICES ASSUME Init PROVE TypeOK
  OBVIOUS
<1>1. joined = FALSE /\ signal = FALSE /\ led = FALSE /\ blink = FALSE
  BY DEF Init
<1>2. queue = <<>> /\ time = 0 /\ alarms = 0 /\ missed = 0
  BY DEF Init
<1>3. time \in 0..MaxTime /\ alarms \in 0..AlarmPool /\ missed \in 0..PoolSlots
  BY <1>2, Slots
<1>4. queue \in Seq(Callbacks) /\ Len(queue) <= QueueSize
  BY <1>2, Slots
<1> QED
  BY <1>1, <1>3, <1>4 DEF TypeOK

LEMMA NextType == TypeOK /\ [Next]_vars => TypeOK'
<1> SUFFICES ASSUME TypeOK, [Next]_vars PROVE TypeOK'
  OBVIOUS
<1>0. queue \in Seq(Callbacks) /\ Len(queue) <= QueueSize /\ Len(queue) \in Nat
  BY DEF TypeOK
<1>a. queue # <<>> => Tail(queue) \in Seq(Callbacks) /\ Len(Tail(queue)) <= QueueSize
  BY <1>0, Slots
<1>b. \A q \in Seq(Callbacks), c \in Callbacks :
        Len(q) <= QueueSize =>
          Scheduled(q, c) \in Seq(Callbacks) /\ Len(Scheduled(q, c)) <= QueueSize
  BY CountScheduled
<1>c. {"start_identifying", "toggle_identify_led"} \subseteq Callbacks
  BY DEF Callbacks
<1>d. \A lamp \in BOOLEAN : Stop(lamp) =>
        time' = 0 /\ alarms' \in 0..AlarmPool /\ missed' \in 0..PoolSlots /\ led' \in BOOLEAN
  <2> SUFFICES ASSUME NEW lamp \in BOOLEAN, Stop(lamp)
               PROVE  /\ time' = 0 /\ alarms' \in 0..AlarmPool
                      /\ missed' \in 0..PoolSlots /\ led' \in BOOLEAN
    OBVIOUS
  <2>1. alarms \in 0..AlarmPool /\ missed \in 0..PoolSlots
    BY DEF TypeOK
  <2>2. alarms' \in 0..AlarmPool
    BY <2>1, Slots DEF Stop
  <2>3. missed' \in {missed, missed + 1} /\ (missed' = missed + 1 => missed < PoolSlots)
    <3>1. CASE EndMissed /\ missed < PoolSlots
      BY <3>1 DEF Stop
    <3>2. CASE ~(EndMissed /\ missed < PoolSlots)
      BY <2>1, <3>2 DEF Stop
    <3> QED
      BY <3>1, <3>2
  <2> QED
    BY <2>1, <2>2, <2>3, Slots DEF Stop
<1>e. RestoredLed \in BOOLEAN
  BY IdentifyConstants DEF RestoredLed, TypeOK
<1> USE DEF TypeOK
<1>1. CASE ButtonReleased
  BY <1>1, <1>0, <1>b, <1>c DEF ButtonReleased
<1>2. CASE StartIdentifying
  <2>1. CASE Start(Tail(queue))
    <3>1. time' \in 1..MaxTime /\ UNCHANGED <<alarms, led, missed, joined, signal, blink>>
      BY <1>2, <2>1 DEF StartIdentifying, Start
    <3>2. queue' \in Seq(Callbacks) /\ Len(queue') <= QueueSize
      BY <1>2, <2>1, <1>a, <1>b, <1>c DEF StartIdentifying, Start
    <3>3. time' \in 0..MaxTime
      BY <3>1, Slots
    <3> QED
      BY <3>1, <3>2, <3>3
  <2>2. CASE Stop(RestoredLed) /\ queue' = Tail(queue)
    BY <1>2, <2>2, <1>a, <1>d, <1>e, Slots DEF StartIdentifying
  <2>3. CASE queue' = Tail(queue) /\ UNCHANGED <<time, alarms, led, missed>>
    BY <1>2, <2>3, <1>a DEF StartIdentifying
  <2> QED
    BY <1>2, <2>1, <2>2, <2>3 DEF StartIdentifying
<1>3. CASE NetworkIdentifies
  <2>1. time' \in 1..MaxTime /\ UNCHANGED <<alarms, led, missed, joined, signal, blink>>
    BY <1>3 DEF NetworkIdentifies, Start
  <2>2. queue' \in Seq(Callbacks) /\ Len(queue') <= QueueSize
    BY <1>3, <1>0, <1>b, <1>c DEF NetworkIdentifies, Start
  <2>3. time' \in 0..MaxTime
    BY <2>1, Slots
  <2> QED
    BY <2>1, <2>2, <2>3
<1>4. CASE TimePasses
  BY <1>4, Slots DEF TimePasses
<1>5. CASE ModeEnds
  BY <1>5, <1>d, <1>e, Slots DEF ModeEnds
<1>6. CASE ToggleCallback
  BY <1>6, <1>a, Slots DEF ToggleCallback, Toggle
<1>7. CASE ToggleAlarm
  BY <1>7 DEF ToggleAlarm, Toggle
<1>8. CASE StackChanges
  BY <1>8 DEF StackChanges
<1>9. CASE NetworkSignal
  BY <1>9 DEF NetworkSignal
<1>10. CASE UNCHANGED vars
  BY <1>10 DEF vars
<1> QED
  BY <1>1, <1>2, <1>3, <1>4, <1>5, <1>6, <1>7, <1>8, <1>9, <1>10 DEF Next, ScheduledCallback

--------------------------------------------------------------------------------
(* The toggles under way, counted: a start of the mode adds one at most, and an  *)
(* end takes one away, unless it finds no alarm, and then it is counted.         *)

Toggles == Count(queue, "toggle_identify_led")
Allowed == missed + IF Identifying THEN 1 ELSE 0

\* The counts are numbers.
LEMMA Numbers ==
    ASSUME TypeOK
    PROVE  /\ Toggles \in Nat /\ Toggles <= QueueSize /\ alarms \in 0..AlarmPool
           /\ missed \in 0..PoolSlots /\ time \in Nat
           /\ Toggles = Cardinality(Toggling) /\ (Toggling # {} => Toggles > 0)
<1>1. queue \in Seq(Callbacks) /\ Len(queue) <= QueueSize /\ Len(queue) \in Nat
  BY DEF TypeOK
<1>2. /\ IsFiniteSet(Toggling) /\ Toggles \in Nat /\ Toggles <= Len(queue)
      /\ Toggles = Cardinality(Toggling)
  BY <1>1, CountType DEF Toggling, Toggles, Count
<1>3. Toggling # {} => Toggles # 0
  BY <1>2, FS_EmptySet
<1> QED
  BY <1>1, <1>2, <1>3, Slots DEF TypeOK

\* A mode that ends keeps the balance, whatever it finds.
LEMMA StopBalance ==
    ASSUME TypeOK, Identifying, alarms + Toggles <= Allowed, NEW lamp, Stop(lamp),
           Toggles' = Toggles
    PROVE  (alarms + Toggles <= Allowed)'
<1>1. alarms + Toggles <= missed + 1 /\ time' = 0
  BY DEF Allowed, Stop
<1>2. Allowed' = missed'
  BY <1>1, Numbers, Slots DEF Allowed, Identifying, Stop
<1>3. CASE alarms > 0
  <2>1. alarms' = alarms - 1 /\ missed' = missed
    BY <1>3 DEF Stop, EndMissed
  <2> QED
    BY <1>1, <1>2, <1>3, <2>1, Numbers
<1>4. CASE alarms = 0 /\ Toggling # {}
  <2>1. alarms' = 0 /\ missed' = IF missed < PoolSlots THEN missed + 1 ELSE missed
    BY <1>4 DEF Stop, EndMissed
  <2> QED
    BY <1>1, <1>2, <1>4, <2>1, Numbers, Slots
<1>5. CASE alarms = 0 /\ Toggling = {}
  <2>1. alarms' = 0 /\ missed' = missed
    BY <1>5 DEF Stop, EndMissed
  <2>2. Toggles = 0
    BY <1>5, Numbers, FS_EmptySet
  <2> QED
    BY <1>2, <2>1, <2>2, Numbers
<1> QED
  BY <1>3, <1>4, <1>5, Numbers

\* What a start of the mode, and a toggle that becomes an alarm, do to the balance.
LEMMA Sums ==
    ASSUME NEW a \in Nat, NEW t \in Nat, NEW m \in Nat, NEW b \in Nat, NEW u \in Nat, a + t <= m
    PROVE  /\ b = a /\ u <= t + 1 => b + u <= m + 1
           /\ b <= a + 1 /\ u = t - 1 => b + u <= m
  OBVIOUS

Balance == alarms + Toggles <= Allowed

LEMMA NextBalance == TypeOK /\ Balance /\ [Next]_vars => Balance'
<1> SUFFICES ASSUME TypeOK, Balance, [Next]_vars PROVE Balance'
  OBVIOUS
<1>0. queue \in Seq(Callbacks) /\ TypeOK'
  BY NextType DEF TypeOK
<1>a. /\ Toggles \in Nat /\ alarms \in Nat /\ missed \in Nat
      /\ Toggles' \in Nat /\ alarms' \in Nat /\ missed' \in Nat
      /\ time \in Nat /\ time' \in Nat
  <2>1. TypeOK' => Toggles' \in Nat
    BY CountType DEF TypeOK, Toggles
  <2> QED
    BY <1>0, <2>1, Numbers, Slots DEF TypeOK
<1>b. {"start_identifying", "toggle_identify_led"} \subseteq Callbacks
  BY DEF Callbacks
<1>1. ASSUME NEW q \in Seq(Callbacks), Start(q), ~Identifying,
             Count(q, "toggle_identify_led") = Toggles
      PROVE  Balance'
  <2>1. Toggles' <= Toggles + 1
    BY <1>1, <1>b, CountScheduled DEF Start, Toggles
  <2>2. alarms' = alarms /\ missed' = missed /\ time' > 0
    BY <1>1, Slots DEF Start
  <2>3. Allowed = missed /\ Allowed' = missed + 1
    BY <1>1, <1>a, <2>2 DEF Allowed, Identifying
  <2>4. alarms + Toggles <= missed
    BY <2>3 DEF Balance
  <2>5. alarms' + Toggles' <= Allowed'
    <3>1. alarms' + Toggles' <= missed + 1
      BY ONLY <1>a, <2>1, <2>2, <2>4, Sums
    <3> QED
      BY <2>3, <3>1
  <2> QED
    BY <2>5 DEF Balance
<1>2. CASE ButtonReleased
  <2>1. Toggles' = Toggles
    BY <1>0, <1>2, <1>b, CountScheduled DEF ButtonReleased, Toggles
  <2> QED
    BY <1>2, <2>1 DEF ButtonReleased, Balance, Allowed, Identifying
<1>3. CASE StartIdentifying
  <2>1. /\ Tail(queue) \in Seq(Callbacks)
        /\ Count(Tail(queue), "toggle_identify_led") = Toggles
    BY <1>0, <1>3, CountServed DEF StartIdentifying, Toggles
  <2>2. CASE ~Identifying /\ Start(Tail(queue))
    BY <1>1, <2>1, <2>2
  <2>3. CASE Identifying /\ Stop(RestoredLed) /\ queue' = Tail(queue)
    <3>1. Toggles' = Toggles
      BY <2>1, <2>3 DEF Toggles
    <3> QED
      BY <2>3, <3>1, StopBalance DEF Balance
  <2>4. CASE queue' = Tail(queue) /\ UNCHANGED <<time, alarms, led, missed>>
    <3>1. Toggles' = Toggles
      BY <2>1, <2>4 DEF Toggles
    <3> QED
      BY <2>4, <3>1 DEF Balance, Allowed, Identifying
  <2> QED
    BY <1>3, <2>2, <2>3, <2>4 DEF StartIdentifying
<1>4. CASE NetworkIdentifies
  BY <1>0, <1>1, <1>4 DEF NetworkIdentifies, Toggles
<1>5. CASE TimePasses
  <2>1. Identifying /\ Identifying' /\ UNCHANGED <<queue, alarms, missed>>
    BY <1>5, <1>a DEF TimePasses, Identifying
  <2> QED
    BY <2>1 DEF Balance, Allowed, Toggles
<1>6. CASE ModeEnds
  <2>1. Identifying /\ Stop(RestoredLed) /\ Toggles' = Toggles
    BY <1>6 DEF ModeEnds, Toggles
  <2> QED
    BY <2>1, StopBalance DEF Balance
<1>7. CASE ToggleCallback
  <2>1. Toggles' = Toggles - 1
    BY <1>0, <1>7, CountServed DEF ToggleCallback, Toggles
  <2>2. alarms' <= alarms + 1 /\ UNCHANGED <<missed, time>>
    BY <1>7, <1>a, Slots DEF ToggleCallback
  <2>3. Allowed' = Allowed /\ Allowed \in Nat
    BY <1>a, <2>2 DEF Allowed, Identifying
  <2>4. alarms' + Toggles' <= Allowed'
    <3>1. alarms + Toggles <= Allowed
      BY DEF Balance
    <3> QED
      BY ONLY <1>a, <2>1, <2>2, <2>3, <3>1, Sums
  <2> QED
    BY <2>4 DEF Balance
<1>8. CASE ToggleAlarm \/ StackChanges \/ NetworkSignal \/ UNCHANGED vars
  <2>1. UNCHANGED <<queue, alarms, missed, time>>
    BY <1>8 DEF ToggleAlarm, StackChanges, NetworkSignal, vars
  <2> QED
    BY <2>1 DEF Balance, Toggles, Allowed, Identifying
<1> QED
  BY <1>2, <1>3, <1>4, <1>5, <1>6, <1>7, <1>8 DEF Next, ScheduledCallback

--------------------------------------------------------------------------------
(* The LED: with no end of the mode missed, no toggle comes after it. *)

\* Ends are counted, and never forgotten.
LEMMA MissedGrows == TypeOK /\ [Next]_vars => (missed' = 0 => missed = 0)
<1> SUFFICES ASSUME TypeOK, [Next]_vars, missed' = 0 PROVE missed = 0
  OBVIOUS
<1>1. missed \in Nat
  BY Slots DEF TypeOK
<1>2. ASSUME NEW lamp, Stop(lamp) PROVE missed = 0
  <2>1. missed' = missed \/ missed' = missed + 1
    BY <1>2 DEF Stop
  <2> QED
    BY <1>1, <2>1
<1>3. (\E q : Start(q)) \/ missed' = missed \/ (\E lamp : Stop(lamp))
  BY DEF Next, ScheduledCallback, ButtonReleased, StartIdentifying, NetworkIdentifies, TimePasses,
     ModeEnds, ToggleCallback, ToggleAlarm, StackChanges, NetworkSignal, vars
<1> QED
  BY <1>2, <1>3 DEF Start

\* Out of the mode, nothing is left that would toggle.
LEMMA NoToggle ==
    ASSUME TypeOK, Balance, ~Identifying, missed = 0
    PROVE  alarms = 0 /\ Toggles = 0
  BY Numbers DEF Balance, Allowed

LEMMA NextLed == TypeOK /\ Balance /\ LedRestored /\ [Next]_vars => LedRestored'
<1> SUFFICES ASSUME TypeOK, Balance, LedRestored, [Next]_vars,
                    ~Identifying', missed' = 0, ~(SharedLed /\ signal')
             PROVE  (led = RestoredLed)'
  BY DEF LedRestored
<1>0. missed = 0
  BY MissedGrows
<1>a. queue \in Seq(Callbacks) /\ time \in Nat
  BY Numbers DEF TypeOK
<1>1. ASSUME Stop(RestoredLed), UNCHANGED joined PROVE (led = RestoredLed)'
  BY <1>1 DEF Stop, RestoredLed
<1>2. ASSUME UNCHANGED <<time, led, joined, signal>> PROVE (led = RestoredLed)'
  BY <1>0, <1>2 DEF LedRestored, Identifying, RestoredLed
<1>3. ASSUME NEW q, Start(q) PROVE FALSE
  BY <1>3, Slots DEF Start, Identifying
<1>4. CASE ButtonReleased
  BY <1>2, <1>4 DEF ButtonReleased
<1>5. CASE StartIdentifying
  BY <1>1, <1>2, <1>3, <1>5 DEF StartIdentifying
<1>6. CASE NetworkIdentifies
  BY <1>3, <1>6 DEF NetworkIdentifies
<1>7. CASE TimePasses
  BY <1>7, <1>a DEF TimePasses, Identifying
<1>8. CASE ModeEnds
  BY <1>1, <1>8 DEF ModeEnds
<1>9. CASE ToggleCallback
  <2>1. ~Identifying /\ Toggles = 0
    BY <1>0, <1>9, NoToggle DEF ToggleCallback, Identifying
  <2>2. /\ Count(Tail(queue), "toggle_identify_led") = Toggles - 1
        /\ Tail(queue) \in Seq(Callbacks)
    BY <1>a, <1>9, CountServed DEF ToggleCallback, Toggles
  <2>3. Count(Tail(queue), "toggle_identify_led") \in Nat
    BY <2>2, CountType
  <2> QED
    BY <2>1, <2>2, <2>3
<1>10. CASE ToggleAlarm
  <2>1. ~Identifying /\ alarms > 0
    BY <1>10 DEF ToggleAlarm, Identifying
  <2> QED
    BY <1>0, <2>1, NoToggle
<1>11. CASE StackChanges
  BY <1>0, <1>11, IdentifyConstants DEF StackChanges, LedRestored, Identifying, RestoredLed
<1>12. CASE NetworkSignal
  <2>1. SharedLed \in BOOLEAN /\ joined \in BOOLEAN /\ joined' = joined
    BY <1>12, IdentifyConstants DEF NetworkSignal, TypeOK
  <2>2. CASE SharedLed
    <3>1. led' = joined
      BY <1>12, <2>2 DEF NetworkSignal
    <3> QED
      BY <2>1, <2>2, <3>1 DEF RestoredLed
  <2>3. CASE ~SharedLed
    <3>1. led' = led /\ ~Identifying
      BY <1>12, <2>3 DEF NetworkSignal, Identifying
    <3>2. led = RestoredLed
      BY <1>0, <2>3, <3>1 DEF LedRestored
    <3> QED
      BY <2>3, <3>1, <3>2 DEF RestoredLed
  <2> QED
    BY <2>1, <2>2, <2>3
<1>13. CASE UNCHANGED vars
  BY <1>2, <1>13 DEF vars
<1> QED
  BY <1>4, <1>5, <1>6, <1>7, <1>8, <1>9, <1>10, <1>11, <1>12, <1>13
  DEF Next, ScheduledCallback

\* Each toggle that is under way belongs to the mode, or to a mode that ended while its
\* toggle was in the queue: with no such end, blinking ends with the mode.
THEOREM IdentifyEnds == Safe => []BlinkingStops
<1>1. Init => Balance
  <2> SUFFICES ASSUME Init PROVE Balance
    OBVIOUS
  <2>1. alarms = 0 /\ missed = 0 /\ ~Identifying
    BY DEF Init, Identifying
  <2>2. At(<<>>, "toggle_identify_led") = {} /\ queue = <<>>
    BY DEF Init, At
  <2>3. Toggles = 0
    BY <2>2, FS_EmptySet DEF Toggles, Count
  <2> QED
    BY <2>1, <2>3 DEF Balance, Allowed
<1>2. TypeOK /\ Balance /\ [Next]_vars => Balance'
  BY NextBalance
<1>3. Balance => BlinkingStops
  BY DEF Balance, Allowed, Toggles, Toggling, Count, BlinkingStops
<1> QED
  BY InitType, NextType, <1>1, <1>2, <1>3, PTL DEF Safe

\* If each end of the mode has found its alarm, the LED shows, when the mode is over,
\* what it showed before.
THEOREM LedIsRestored == Safe => []LedRestored
<1>1. Init => LedRestored
  BY IdentifyConstants DEF Init, LedRestored, RestoredLed
<1>2. BlinkingStops => Balance
  BY DEF Balance, Allowed, Toggles, Toggling, Count, BlinkingStops
<1>3. TypeOK /\ Balance /\ LedRestored /\ [Next]_vars => LedRestored'
  BY NextLed
<1> QED
  BY InitType, NextType, IdentifyEnds, <1>1, <1>2, <1>3, PTL DEF Safe
================================================================================
