--------------------------- MODULE DispatchProofs ---------------------------
(***************************************************************************)
(* Proofs about HTTPDispatch, for any monitors, intervals, fetch time and  *)
(* number of workers.                                                      *)
(***************************************************************************)
EXTENDS HTTPDispatch, SequenceTheorems, FiniteSetTheorems, TLAPS

USE DispatchAssumption DEF DispatchAssumption

Item == [monitor : Monitor, shared : BOOLEAN, own : BOOLEAN]

\* TypeOK in the two parts that different steps disturb.
ScheduleTypes ==
    /\ Known \subseteq Monitor
    /\ next \in [Known -> -MaxAge .. MaxAge]
    /\ interval \in [Known -> Intervals]
    /\ since \in [Known -> 0 .. MaxAge]
    /\ promised \in [Known -> 0 .. MaxAge]

Flags == dueTick \in BOOLEAN /\ fetchTick \in BOOLEAN /\ cancelled \in BOOLEAN

LoopTypes ==
    /\ pc \in {"first", "fetch", "select", "send", "exited"}
    /\ callLeft \in 0 .. FetchTime
    /\ toFetch \in 1 .. PollInterval
    /\ batch \subseteq Monitor
    /\ busy \in 0 .. MaxConcurrency

QueueTypes == checkChan \in Seq(Item) /\ Len(checkChan) <= ChanCap

\* What is left of a monitor's wait covers what is left of its interval, until
\* the age of its last dispatch is no longer counted.
NotBefore ==
    \A m \in Known : since[m] + next[m] >= promised[m] \/ since[m] = MaxAge

Inv == ScheduleTypes /\ Flags /\ LoopTypes /\ QueueTypes /\ NotBefore

-----------------------------------------------------------------------------

\* The interval in force is positive and within the horizon.
LEMMA EffectiveBound == \A i \in Intervals : Effective(i) \in 0 .. MaxAge
  BY DEF Effective

\* Stamping an assignment, and replacing all, relabel the waiting checks and
\* keep their number.
LEMMA Relabelled ==
  ASSUME checkChan \in Seq(Item), NEW m
  PROVE  /\ Stamped(m) \in Seq(Item) /\ Len(Stamped(m)) = Len(checkChan)
         /\ Unshare => checkChan' \in Seq(Item) /\ Len(checkChan') = Len(checkChan)
<1>1. Len(checkChan) \in Nat /\ DOMAIN checkChan = 1 .. Len(checkChan)
      /\ \A k \in 1 .. Len(checkChan) : checkChan[k] \in Item
  OBVIOUS
<1> DEFINE f(k) == IF checkChan[k].monitor = m /\ checkChan[k].shared
                   THEN [checkChan[k] EXCEPT !.own = FALSE] ELSE checkChan[k]
           g(k) == [checkChan[k] EXCEPT !.shared = FALSE]
<1>2. \A k \in 1 .. Len(checkChan) : f(k) \in Item /\ g(k) \in Item
  BY <1>1 DEF Item
<1> HIDE DEF f, g
<1>3. /\ [k \in 1 .. Len(checkChan) |-> f(k)] \in Seq(Item)
      /\ Len([k \in 1 .. Len(checkChan) |-> f(k)]) = Len(checkChan)
  BY <1>1, <1>2
<1>4. /\ [k \in 1 .. Len(checkChan) |-> g(k)] \in Seq(Item)
      /\ Len([k \in 1 .. Len(checkChan) |-> g(k)]) = Len(checkChan)
  BY <1>1, <1>2
<1>5. Stamped(m) = [k \in 1 .. Len(checkChan) |-> f(k)]
  BY <1>1 DEF Stamped, f
<1>6. Unshare => checkChan' = [k \in 1 .. Len(checkChan) |-> g(k)]
  BY <1>1 DEF Unshare, g
<1> QED  BY <1>3, <1>4, <1>5, <1>6

\* The dispatcher starts within the invariant.
LEMMA InitInv == Init => Inv
<1> SUFFICES ASSUME Init PROVE Inv
  OBVIOUS
<1>1. DOMAIN next = {} /\ << >> \in Seq(Item) /\ Len(<< >>) = 0
  BY DEF Init
<1>2. \A S : << >> \in [{} -> S]
  OBVIOUS
<1>3. ScheduleTypes
  BY <1>1, <1>2 DEF Init, ScheduleTypes, Known
<1>4. LoopTypes
  BY DEF Init, LoopTypes
<1>5. QueueTypes
  BY <1>1 DEF Init, QueueTypes, ChanCap
<1>6. NotBefore
  BY <1>1 DEF NotBefore, Known
<1>7. Flags
  BY Zenon DEF Init, Flags
<1> QED  BY <1>3, <1>4, <1>5, <1>6, <1>7 DEF Inv

\* The Boolean variables stay Boolean.
LEMMA FlagsStep == Flags /\ [Next]_vars => Flags'
<1> SUFFICES ASSUME Flags, [Next]_vars PROVE Flags'
  OBVIOUS
<1> USE DEF Flags
<1>1. CASE FetchReturns \/ Take \/ Finish \/ Quit \/ EndOfBatch
  BY <1>1, Zenon DEF FetchReturns, Take, Finish, Quit, EndOfBatch, ticker
<1>2. CASE \E m \in Monitor : Send(m)
  BY <1>2, Zenon DEF Send, ticker
<1>3. CASE StartFetch \/ TakeDue \/ Cancel
  BY <1>3, Zenon DEF StartFetch, TakeDue, Cancel, ticker
<1>4. CASE Tick
  <2>1. cancelled' \in BOOLEAN
    BY <1>4, Zenon DEF Tick
  <2>2. CASE pc = "first"
    BY <1>4, <2>1, <2>2, Zenon DEF Tick, ticker
  <2>3. CASE pc # "first"
    <3>1. dueTick' = TRUE /\ fetchTick' = (fetchTick \/ toFetch = 1)
      BY <1>4, <2>3, Zenon DEF Tick
    <3> QED  BY <2>1, <3>1, Zenon
  <2> QED  BY <2>2, <2>3
<1>5. CASE Exited \/ UNCHANGED vars
  BY <1>5, Zenon DEF Exited, vars
<1> QED  BY <1>1, <1>2, <1>3, <1>4, <1>5 DEF Next

\* Every step keeps the invariant.
LEMMA StepInv == Inv /\ [Next]_vars => Inv'
<1> SUFFICES ASSUME Inv, [Next]_vars PROVE Inv'
  OBVIOUS
<1> USE DEF Inv, scheduler, ticker, workers, history
<1>0. Flags'
  BY FlagsStep
<1>1. CASE FetchReturns
  <2>1. LoopTypes'
    BY <1>1 DEF FetchReturns, LoopTypes
  <2>2. QueueTypes'
    <3>1. CASE Unshare
      BY <3>1, Relabelled DEF QueueTypes, ChanCap
    <3>2. CASE UNCHANGED checkChan
      BY <3>2 DEF QueueTypes, ChanCap
    <3> QED  BY <1>1, <3>1, <3>2 DEF FetchReturns, FetchOK
  <2>3. ASSUME NEW S \in SUBSET Monitor, NEW i \in [S -> Intervals], UpdateMonitors(S, i)
        PROVE  ScheduleTypes' /\ NotBefore'
    BY <2>3 DEF UpdateMonitors, ScheduleTypes, NotBefore, Known
  <2>4. CASE UNCHANGED <<scheduler, history, checkChan>>
    <3>1. UNCHANGED <<next, interval, since, promised>>
      BY <2>4
    <3>2. ScheduleTypes'
      BY <3>1 DEF ScheduleTypes, Known
    <3>3. NotBefore'
      BY <3>1 DEF NotBefore, Known
    <3> QED  BY <1>0, <2>1, <2>2, <3>2, <3>3
  <2> QED  BY <1>0, <1>1, <2>1, <2>2, <2>3, <2>4 DEF FetchReturns, FetchOK
<1>2. CASE TakeDue
  <2>1. PICK D \in kSubset(Min({MaxConcurrency, Cardinality(Due)}), Due) :
              batch' = D /\ Mark(D)
    BY <1>2 DEF TakeDue
  <2>2. D \subseteq Due /\ Due \subseteq Known /\ Known \subseteq Monitor
    BY <2>1 DEF kSubset, Due, ScheduleTypes
  <2>3. ScheduleTypes' /\ NotBefore'
    <3>1. UNCHANGED interval /\ \A m \in Known : Effective(interval[m]) \in 0 .. MaxAge
      BY <1>2, EffectiveBound DEF TakeDue, ScheduleTypes
    <3>2. DOMAIN next' = Known
      BY <2>1 DEF Mark
    <3> HIDE DEF Inv
    <3>3. ScheduleTypes'
      BY <2>1, <3>1, <3>2 DEF Mark, ScheduleTypes, Known, Inv
    <3>4. NotBefore'
      BY <2>1, <3>1, <3>2 DEF Mark, ScheduleTypes, NotBefore, Known, Inv
    <3> QED  BY <3>3, <3>4
  <2>4. LoopTypes' /\ QueueTypes'
    BY <1>2, <2>1, <2>2 DEF TakeDue, LoopTypes, QueueTypes, ChanCap
  <2> QED  BY <1>0, <2>3, <2>4
<1>3. ASSUME NEW m \in Monitor, Send(m) PROVE Inv'
  <2>1. Stamped(m) \in Seq(Item) /\ Len(Stamped(m)) = Len(checkChan)
    BY Relabelled DEF QueueTypes
  <2>2. [monitor |-> m, shared |-> TRUE, own |-> TRUE] \in Item
    BY DEF Item
  <2>3. QueueTypes'
    BY <1>3, <2>1, <2>2 DEF Send, QueueTypes, ChanCap
  <2>4. LoopTypes' /\ ScheduleTypes' /\ NotBefore'
    BY <1>3 DEF Send, LoopTypes, ScheduleTypes, NotBefore, Known
  <2> QED  BY <1>0, <2>3, <2>4
<1>4. CASE Quit
  <2>1. QueueTypes'
    <3>1. ASSUME NEW m \in batch, checkChan' = Stamped(m) PROVE QueueTypes'
      BY <3>1, Relabelled DEF QueueTypes, ChanCap
    <3>2. CASE UNCHANGED checkChan
      BY <3>2 DEF QueueTypes, ChanCap
    <3> QED  BY <1>4, <3>1, <3>2 DEF Quit
  <2>2. LoopTypes' /\ ScheduleTypes' /\ NotBefore'
    BY <1>4 DEF Quit, LoopTypes, ScheduleTypes, NotBefore, Known
  <2> QED  BY <1>0, <2>1, <2>2
<1>5. CASE Take
  <2>1. Tail(checkChan) \in Seq(Item) /\ Len(Tail(checkChan)) <= Len(checkChan)
    BY <1>5 DEF Take, QueueTypes
  <2>2. QueueTypes'
    BY <1>5, <2>1 DEF Take, QueueTypes, ChanCap
  <2>3. LoopTypes' /\ ScheduleTypes' /\ NotBefore'
    BY <1>5, SMTT(30) DEF Take, LoopTypes, ScheduleTypes, NotBefore, Known
  <2> QED  BY <1>0, <2>2, <2>3
<1>6. CASE Tick
  <2>1. DOMAIN next' = Known
    BY <1>6 DEF Tick
  <2>2. ScheduleTypes'
    BY <1>6, <2>1, SMTT(30) DEF Tick, ScheduleTypes, Known
  <2>3. NotBefore'
    BY <1>6, <2>1 DEF Tick, ScheduleTypes, NotBefore, Known
  <2>4. LoopTypes'
    BY <1>6 DEF Tick, LoopTypes
  <2>5. QueueTypes'
    BY <1>6 DEF Tick, QueueTypes, ChanCap
  <2> QED  BY <1>0, <2>2, <2>3, <2>4, <2>5
<1>7. CASE StartFetch \/ EndOfBatch \/ Cancel \/ Finish \/ Exited
  <2>1. LoopTypes'
    BY <1>7 DEF StartFetch, EndOfBatch, Cancel, Finish, Exited, LoopTypes, vars
  <2>2. ScheduleTypes' /\ NotBefore'
    BY <1>7 DEF StartFetch, EndOfBatch, Cancel, Finish, Exited, vars,
                ScheduleTypes, NotBefore, Known
  <2>3. QueueTypes'
    BY <1>7 DEF StartFetch, EndOfBatch, Cancel, Finish, Exited, vars, QueueTypes, ChanCap
  <2> QED  BY <1>0, <2>1, <2>2, <2>3
<1>8. CASE UNCHANGED vars
  BY <1>8, <1>0 DEF vars, LoopTypes, ScheduleTypes, NotBefore, Known, QueueTypes, ChanCap
<1> QED  BY <1>1, <1>2, <1>3, <1>4, <1>5, <1>6, <1>7, <1>8 DEF Next

\* The dispatcher keeps its types: in particular the schedule knows only
\* assigned monitors and checkChan never holds more than its capacity.
THEOREM TypeCorrect == Spec => []TypeOK
<1>1. Inv => TypeOK
  BY DEF Inv, ScheduleTypes, Flags, LoopTypes, QueueTypes, TypeOK, Item
<1> QED  BY <1>1, InitInv, StepInv, PTL DEF Spec

\* No monitor is handed out again before the interval of its last dispatch is
\* over, whatever the refreshes of the monitors and the load of the workers.
THEOREM NeverTooSoon == Spec => NeverTooOften
<1>1. Inv /\ [Next]_vars => [\A m \in batch' \ batch : since[m] >= promised[m]]_vars
  <2> SUFFICES ASSUME Inv, Next, NEW m \in batch' \ batch PROVE since[m] >= promised[m]
    OBVIOUS
  <2>1. TakeDue
    BY DEF Next, FetchReturns, StartFetch, Send, EndOfBatch, Cancel, Quit, Take,
           Finish, Tick, Exited, vars
  <2>2. m \in Due
    BY <2>1 DEF TakeDue, kSubset
  <2>3. m \in Known /\ next[m] <= 0
    BY <2>2 DEF Due
  <2> QED  BY <2>3 DEF Inv, ScheduleTypes, NotBefore
<1> QED  BY <1>1, InitInv, StepInv, PTL DEF Spec, NeverTooOften

-----------------------------------------------------------------------------
(* How late a monitor can be handed out. *)

\* What the schedule needs to keep up: no interval is shorter than a Round, and
\* a fetch is over a Round before the next begins.
KeepsUp ==
    /\ IsFiniteSet(Monitor)
    /\ \A i \in Intervals : Effective(i) >= Round
    /\ FetchTime > 0
    /\ PollInterval >= FetchTime + Round

\* The monitors of the schedule f that are not due for k ticks.
Later(f, k) == {q \in DOMAIN f : f[q] >= k}

\* Of w ticks that a monitor is overdue, v ticks after the fetch ticker ticked:
\* those for which Run certainly took batches.
Window(w, v) == IF w <= v - FetchTime THEN w ELSE v - FetchTime

\* A due monitor was overdue by less than a Round when the last fetch began; in
\* every batch taken since it was over (t more than ticks passed), the monitors
\* that were preferred are not due again before this one has had its turn.
Paced(f, v, t, m) ==
    /\ -f[m] <= v + (Round - 1)
    /\ FetchTime <= v =>
          /\ Window(-f[m], v) < Round
          /\ Cardinality(Later(f, Round - Window(-f[m], v)))
                >= MaxConcurrency * (Window(-f[m], v) + t)

\* The fetch is over in time, and the tickers tick on.
FetchClock ==
    /\ pc = "first" => Known = {} /\ toFetch = PollInterval
    /\ pc = "fetch" => /\ (PollInterval - toFetch) + callLeft <= FetchTime
                       /\ ~fetchTick
                       /\ toFetch # PollInterval => dueTick
    /\ fetchTick => toFetch = PollInterval

Turn == IF dueTick THEN 0 ELSE 1

Pace ==
    pc # "exited" =>
        \A m \in Known : next[m] <= 0 => Paced(next, PollInterval - toFetch, Turn, m)

\* A monitor's wait and its interval account for the time since it was handed
\* out last.
NotAfter == \A m \in Known : since[m] + next[m] <= promised[m]

LEMMA RoundType ==
  ASSUME IsFiniteSet(Monitor)
  PROVE  /\ Cardinality(Monitor) \in Nat /\ Round \in Nat
         /\ Cardinality(Monitor) <= MaxConcurrency * Round
         /\ Cardinality(Monitor) > 0 => Round > 0
<1>1. Cardinality(Monitor) \in Nat
  BY FS_CardinalityType
<1>2. \A n \in Nat, c \in Nat \ {0} : LET r == (n + c - 1) \div c
                                     IN  r \in Nat /\ n <= c * r /\ (n > 0 => r > 0)
  OBVIOUS
<1>3. QED
  BY <1>1, <1>2 DEF Round

LEMMA MinOfTwo ==
  ASSUME NEW a \in Int, NEW b \in Int
  PROVE  Min({a, b}) = IF a <= b THEN a ELSE b
  BY DEF Min

\* Batches and ticks.
LEMMA Times ==
  \A j \in Nat : /\ MaxConcurrency * j \in Nat
                 /\ MaxConcurrency * (j + 1) = MaxConcurrency * j + MaxConcurrency
  OBVIOUS

\* A part of the schedule is finite.
LEMMA LaterFinite ==
  ASSUME IsFiniteSet(Monitor), NEW S \in SUBSET Monitor
  PROVE  /\ IsFiniteSet(S) /\ Cardinality(S) \in Nat
         /\ Cardinality(S) <= Cardinality(Monitor)
         /\ \A T \in SUBSET S : IsFiniteSet(T) /\ Cardinality(T) \in Nat /\ Cardinality(T) <= Cardinality(S)
<1>1. IsFiniteSet(S) /\ Cardinality(S) <= Cardinality(Monitor)
  BY FS_Subset
<1>2. \A T \in SUBSET S : IsFiniteSet(T) /\ Cardinality(T) <= Cardinality(S)
  BY <1>1, FS_Subset
<1>3. QED
  BY <1>1, <1>2, FS_CardinalityType

\* No due monitor is still waiting after as many full batches as a Round has.
LEMMA TurnComes ==
  ASSUME IsFiniteSet(Monitor), NEW S \in SUBSET Monitor, NEW f \in [S -> Int], NEW m \in S, f[m] <= 0,
         NEW v \in Int, FetchTime <= v, Paced(f, v, 1, m)
  PROVE  Window(-f[m], v) \in 0 .. Round - 2
<1> DEFINE j == Window(-f[m], v)
<1>1. j \in Nat /\ j < Round
  BY DEF Window, Paced
<1>2. ASSUME j = Round - 1 PROVE FALSE
  <2> DEFINE L == Later(f, 1)
  <2>1. Round - j = 1 /\ j + 1 = Round
    BY <1>1, <1>2, RoundType
  <2>2. Cardinality(L) >= MaxConcurrency * Round
    BY <2>1 DEF Paced
  <2>3. L \subseteq S \ {m} /\ L \subseteq S
    BY DEF Later
  <2>4. Cardinality(L) <= Cardinality(S \ {m}) /\ Cardinality(S \ {m}) = Cardinality(S) - 1
        /\ Cardinality(S) \in Nat /\ Cardinality(L) \in Nat /\ Cardinality(S) <= Cardinality(Monitor)
    <3>1. IsFiniteSet(S) /\ IsFiniteSet(S \ {m}) /\ Cardinality(S \ {m}) = Cardinality(S) - 1
      BY LaterFinite, FS_RemoveElement
    <3>2. Cardinality(L) <= Cardinality(S \ {m})
      BY <2>3, <3>1, FS_Subset
    <3>3. QED
      BY <2>3, <3>1, <3>2, LaterFinite
  <2>5. Cardinality(Monitor) <= MaxConcurrency * Round /\ MaxConcurrency * Round \in Nat
        /\ Cardinality(Monitor) \in Nat
    BY RoundType, Times
  <2>6. QED
    BY <2>2, <2>4, <2>5
<1>3. QED
  BY <1>1, <1>2, RoundType

\* The schedule a tick later.
LEMMA PacedTick ==
  ASSUME KeepsUp, NEW S \in SUBSET Monitor, NEW f \in [S -> -MaxAge .. MaxAge], NEW g \in [S -> -MaxAge .. MaxAge],
         \A q \in S : g[q] = IF f[q] > -MaxAge THEN f[q] - 1 ELSE f[q],
         NEW m \in S, g[m] <= 0, Intervals # {},
         NEW v \in Nat, NEW t \in {0, 1}, FetchTime <= v => t = 1,
         f[m] <= 0 => Paced(f, v, t, m)
  PROVE  /\ Paced(g, v + 1, 0, m)
         /\ v + 1 = PollInterval => Paced(g, 0, 0, m)
<1>1. /\ Round \in Nat /\ Round > 0 /\ MaxAge >= Round
      /\ IsFiniteSet(Monitor)
  <2>1. PICK i \in Intervals : TRUE
    OBVIOUS
  <2>2. Effective(i) >= Round /\ Effective(i) <= MaxAge /\ Effective(i) \in Nat
    BY <2>1, EffectiveBound DEF KeepsUp
  <2>3. Cardinality(Monitor) > 0
    BY RoundType, FS_EmptySet DEF KeepsUp
  <2>4. QED
    BY <2>2, <2>3, RoundType DEF KeepsUp
<1>2. f[m] \in Int /\ g[m] \in Int /\ g[m] <= f[m] /\ g[m] >= f[m] - 1 /\ f[m] <= 1
  OBVIOUS
<1>3. CASE f[m] = 1
  <2>1. g[m] = 0 /\ -g[m] = 0
    BY <1>3
  <2>2. \A u \in Nat : FetchTime <= u => Window(-g[m], u) = 0
    BY <2>1 DEF Window
  <2>3. Later(g, Round) \subseteq S
    BY DEF Later
  <2>4. Cardinality(Later(g, Round)) \in Nat
    BY <1>1, <2>3, LaterFinite
  <2>5. MaxConcurrency * (0 + 0) = 0 /\ Round - 0 = Round
    BY <1>1
  <2>6. \A u \in Nat : Paced(g, u, 0, m)
    BY <1>1, <2>1, <2>2, <2>4, <2>5 DEF Paced
  <2>7. QED
    BY <2>6
<1>4. CASE f[m] <= 0
  <2> DEFINE j == Window(-f[m], v)
             k == Window(-g[m], v + 1)
  <2>1. -f[m] <= v + (Round - 1) /\ -f[m] \in Nat
    BY <1>2, <1>4 DEF Paced
  <2>2. ASSUME FetchTime <= v
        PROVE  /\ j \in 0 .. Round - 2 /\ k = j + 1
               /\ Cardinality(Later(g, Round - k)) >= MaxConcurrency * (k + 0)
    <3>1. Paced(f, v, 1, m)
      BY <1>4, <2>2
    <3>2. j \in 0 .. Round - 2
      BY <1>1, <1>2, <1>4, <2>2, <3>1, TurnComes
    <3>3. k = j + 1
      BY <1>1, <1>2, <2>1, <2>2, <3>2 DEF Window
    <3>4. Later(f, Round - j) \subseteq Later(g, Round - k)
      BY <1>1, <3>2, <3>3 DEF Later
    <3>5. Later(g, Round - k) \subseteq S
      BY DEF Later
    <3>6. /\ Cardinality(Later(f, Round - j)) <= Cardinality(Later(g, Round - k))
          /\ Cardinality(Later(f, Round - j)) \in Nat /\ Cardinality(Later(g, Round - k)) \in Nat
      <4>1. IsFiniteSet(Later(g, Round - k)) /\ Later(f, Round - j) \subseteq S
        BY <1>1, <3>4, <3>5, LaterFinite
      <4>2. QED
        BY <1>1, <3>4, <3>5, <4>1, LaterFinite, FS_Subset
    <3>7. Cardinality(Later(f, Round - j)) >= MaxConcurrency * (j + 1)
      BY <2>2, <3>1 DEF Paced
    <3>8. k + 0 = j + 1
      BY <3>2, <3>3
    <3>9. QED
      BY <3>2, <3>3, <3>6, <3>7, <3>8, Times
  <2>3. Paced(g, v + 1, 0, m)
    <3>1. -g[m] <= (v + 1) + (Round - 1)
      BY <1>1, <1>2, <2>1
    <3>2. ASSUME FetchTime <= v PROVE k < Round /\ Cardinality(Later(g, Round - k)) >= MaxConcurrency * (k + 0)
      BY <1>1, <2>2, <3>2
    <3>3. ASSUME FetchTime = v + 1
          PROVE  k < Round /\ Cardinality(Later(g, Round - k)) >= MaxConcurrency * (k + 0)
      <4>1. k = 0 /\ MaxConcurrency * (k + 0) = 0
        BY <1>2, <1>4, <3>3 DEF Window
      <4>2. Later(g, Round - k) \subseteq S
        BY DEF Later
      <4>3. Cardinality(Later(g, Round - k)) \in Nat
        BY <1>1, <4>2, LaterFinite
      <4>4. QED
        BY <1>1, <4>1, <4>3
    <3>4. QED
      BY <3>1, <3>2, <3>3 DEF Paced
  <2>4. ASSUME v + 1 = PollInterval PROVE Paced(g, 0, 0, m)
    <3>1. FetchTime <= v /\ v - FetchTime >= Round - 1 /\ FetchTime > 0
      BY <1>1, <2>4 DEF KeepsUp
    <3>2. j \in 0 .. Round - 2
      BY <2>2, <3>1
    <3>3. -f[m] <= Round - 2
      BY <1>1, <1>2, <2>1, <3>1, <3>2 DEF Window
    <3>4. -g[m] <= 0 + (Round - 1)
      BY <1>1, <1>2, <3>3
    <3>5. QED
      BY <3>1, <3>4 DEF Paced
  <2>5. QED
    BY <2>3, <2>4
<1>5. QED
  BY <1>2, <1>3, <1>4

\* The schedule after a full batch that left a due monitor out.
LEMMA PacedTake ==
  ASSUME KeepsUp, NEW S \in SUBSET Monitor, NEW f \in [S -> -MaxAge .. MaxAge], NEW g \in [S -> -MaxAge .. MaxAge],
         NEW D \in SUBSET S, Cardinality(D) = MaxConcurrency, \A q \in D : f[q] <= 0,
         \A q \in S : IF q \in D THEN g[q] >= Round ELSE g[q] = f[q],
         NEW m \in S, m \notin D, f[m] <= 0, NEW v \in Nat, Paced(f, v, 0, m)
  PROVE  Paced(g, v, 1, m)
<1> DEFINE j == Window(-f[m], v)
<1>1. Round \in Nat /\ IsFiniteSet(Monitor) /\ g[m] = f[m] /\ f[m] \in Int
  BY RoundType DEF KeepsUp
<1>2. -g[m] <= v + (Round - 1)
  BY <1>1 DEF Paced
<1>3. ASSUME FetchTime <= v
      PROVE  j < Round /\ Cardinality(Later(g, Round - j)) >= MaxConcurrency * (j + 1)
  <2>1. j \in Nat /\ j < Round
    BY <1>1, <1>3 DEF Paced, Window
  <2>2. Cardinality(Later(f, Round - j)) >= MaxConcurrency * (j + 0) /\ j + 0 = j
    BY <1>3, <2>1 DEF Paced
  <2>3. /\ Later(f, Round - j) \cup D \subseteq Later(g, Round - j)
        /\ Later(f, Round - j) \cap D = {}
        /\ Later(f, Round - j) \subseteq S /\ Later(g, Round - j) \subseteq S
    BY <1>1, <2>1 DEF Later
  <2>4. Cardinality(Later(f, Round - j) \cup D) = Cardinality(Later(f, Round - j)) + MaxConcurrency
        /\ Cardinality(Later(f, Round - j)) \in Nat
    <3>1. IsFiniteSet(Later(f, Round - j)) /\ IsFiniteSet(D) /\ Cardinality(Later(f, Round - j)) \in Nat
      BY <1>1, <2>3, LaterFinite
    <3>2. Cardinality(Later(f, Round - j) \cup D)
            = Cardinality(Later(f, Round - j)) + Cardinality(D) - Cardinality({})
      BY <2>3, <3>1, FS_Union, Zenon
    <3>3. QED
      BY <3>1, <3>2, FS_EmptySet
  <2>5. Cardinality(Later(g, Round - j)) >= Cardinality(Later(f, Round - j) \cup D)
        /\ Cardinality(Later(g, Round - j)) \in Nat
    BY <1>1, <2>3, LaterFinite, FS_Subset
  <2>6. QED
    BY <2>1, <2>2, <2>4, <2>5, Times
<1>4. Window(-g[m], v) = j
  BY <1>1
<1>5. QED
  BY <1>2, <1>3, <1>4 DEF Paced

\* The schedule when a fetch returns, whatever it brought.
LEMMA PacedFetch ==
  ASSUME KeepsUp, NEW S \in SUBSET Monitor, NEW g \in [S -> -MaxAge .. MaxAge], NEW m \in S, g[m] <= 0,
         NEW v \in Nat, v <= FetchTime, NEW t \in {0, 1}, v = FetchTime => t = 0,
         -g[m] <= v + (Round - 1)
  PROVE  Paced(g, v, t, m)
<1>1. Round \in Nat /\ Round > 0 /\ IsFiniteSet(Monitor)
  <2>1. Cardinality(Monitor) > 0
    BY RoundType, FS_EmptySet DEF KeepsUp
  <2>2. QED
    BY <2>1, RoundType DEF KeepsUp
<1>2. ASSUME FetchTime <= v
      PROVE  /\ Window(-g[m], v) < Round
             /\ Cardinality(Later(g, Round - Window(-g[m], v))) >= MaxConcurrency * (Window(-g[m], v) + t)
  <2>1. Window(-g[m], v) = 0 /\ t = 0 /\ MaxConcurrency * (Window(-g[m], v) + t) = 0
    BY <1>2 DEF Window
  <2>2. Later(g, Round - Window(-g[m], v)) \subseteq S
    BY DEF Later
  <2>3. Cardinality(Later(g, Round - Window(-g[m], v))) \in Nat
    BY <1>1, <2>2, LaterFinite
  <2>4. QED
    BY <1>1, <2>1, <2>3
<1>3. QED
  BY <1>2 DEF Paced

\* No schedule is further behind than a fetch and the rounds around it.
LEMMA PacedBound ==
  ASSUME KeepsUp, Round > 0, NEW f, NEW m, f[m] \in Int, f[m] <= 0, NEW v \in Nat, NEW t, Paced(f, v, t, m)
  PROVE  -f[m] <= FetchTime + 2 * (Round - 1)
<1>1. Round \in Nat
  BY RoundType DEF KeepsUp
<1>2. CASE v < FetchTime
  <2>1. -f[m] <= v + (Round - 1)
    BY DEF Paced
  <2>2. QED
    BY <1>1, <1>2, <2>1
<1>3. CASE FetchTime <= v
  BY <1>1, <1>3 DEF Paced, Window
<1>4. QED
  BY <1>2, <1>3

\* Every step keeps the fetch within its time.
LEMMA FetchClockStep == KeepsUp /\ Round > 0 /\ Inv /\ FetchClock /\ [Next]_vars => FetchClock'
<1> SUFFICES ASSUME KeepsUp, Round > 0, Inv, FetchClock, [Next]_vars PROVE FetchClock'
  OBVIOUS
<1> USE DEF scheduler, ticker, workers, history
<1>a. toFetch \in 1 .. PollInterval /\ callLeft \in 0 .. FetchTime
  BY DEF Inv, LoopTypes
<1>1. CASE FetchReturns
  BY <1>1 DEF FetchReturns, FetchClock
<1>2. CASE StartFetch
  <2>1. /\ pc' = "fetch" /\ ~fetchTick' /\ callLeft' = FetchTime /\ toFetch' = toFetch
        /\ toFetch = PollInterval
    BY <1>2 DEF StartFetch, FetchClock
  <2>2. (PollInterval - toFetch') + callLeft' <= FetchTime
    <3>1. (PollInterval - toFetch) + FetchTime <= FetchTime
      BY <2>1
    <3>2. QED
      BY <2>1, <3>1, Zenon
  <2>3. QED
    BY <2>1, <2>2 DEF FetchClock
<1>3. CASE TakeDue \/ EndOfBatch \/ \E m \in Monitor : Send(m)
  <2>1. pc' \in {"select", "send"} /\ pc \in {"select", "send"} /\ toFetch' = toFetch
    BY <1>3 DEF TakeDue, EndOfBatch, Send
  <2>2. fetchTick' = fetchTick
    BY <1>3, Zenon DEF TakeDue, EndOfBatch, Send
  <2>3. fetchTick => toFetch = PollInterval
    BY DEF FetchClock
  <2>4. QED
    BY <2>1, <2>2, <2>3 DEF FetchClock
<1>4. CASE Quit
  BY <1>4 DEF Quit, FetchClock
<1>5. CASE Tick
  <2>1. pc' = pc /\ DOMAIN next' = Known
    BY <1>5 DEF Tick
  <2>2. CASE pc = "first"
    <3>1. Known = {} /\ toFetch = PollInterval
      BY <2>2 DEF FetchClock
    <3>2. toFetch' = toFetch /\ pc' = "first"
      BY <1>5, <2>1, <2>2 DEF Tick
    <3>3. Known' = {}
      BY <2>1, <3>1 DEF Known
    <3>4. QED
      BY <3>1, <3>2, <3>3 DEF FetchClock
  <2>3. CASE pc = "fetch"
    <3>1. /\ callLeft > 0 /\ (PollInterval - toFetch) + callLeft <= FetchTime /\ ~fetchTick
      BY <1>5, <2>3 DEF Tick, FetchClock
    <3>2. toFetch # 1
      BY <1>a, <3>1, RoundType DEF KeepsUp
    <3>3. /\ toFetch' = toFetch - 1 /\ callLeft' = callLeft - 1
          /\ dueTick' = TRUE /\ fetchTick' = (fetchTick \/ toFetch = 1)
      <4>1. pc # "first" /\ callLeft > 0
        BY <2>3, <3>1
      <4>2. callLeft' = callLeft - 1 /\ toFetch' = toFetch - 1
        BY <1>5, <3>2, <4>1 DEF Tick
      <4>3. dueTick' = TRUE /\ fetchTick' = (fetchTick \/ toFetch = 1)
        BY <1>5, <4>1, Zenon DEF Tick
      <4>4. QED
        BY <4>2, <4>3
    <3>4. ~fetchTick'
      BY <3>1, <3>2, <3>3, Zenon
    <3>5. (PollInterval - (toFetch - 1)) + (callLeft - 1) <= FetchTime
      BY <1>a, <3>1
    <3>6. (PollInterval - toFetch') + callLeft' <= FetchTime
      BY <3>3, <3>5, Zenon
    <3>7. QED
      BY <2>1, <2>3, <3>3, <3>4, <3>6 DEF FetchClock
  <2>4. CASE pc \notin {"first", "fetch"}
    <3>1. ~fetchTick /\ fetchTick' = (fetchTick \/ toFetch = 1)
      BY <1>5, <2>4, Zenon DEF Tick
    <3>2. fetchTick' => toFetch = 1
      BY <3>1, Zenon
    <3>3. toFetch = 1 => toFetch' = PollInterval
      BY <1>5, <2>4 DEF Tick
    <3>4. QED
      BY <2>1, <2>4, <3>2, <3>3 DEF FetchClock
  <2>5. QED
    BY <2>2, <2>3, <2>4
<1>6. CASE Cancel \/ Take \/ Finish \/ Exited \/ UNCHANGED vars
  <2>1. UNCHANGED <<next, pc, toFetch, callLeft, dueTick, fetchTick>>
    BY <1>6 DEF Cancel, Take, Finish, Exited, vars
  <2>2. QED
    BY <2>1 DEF FetchClock, Known
<1>7. QED
  BY <1>1, <1>2, <1>3, <1>4, <1>5, <1>6 DEF Next

\* Every step keeps every due monitor in its turn.
LEMMA PaceStep == KeepsUp /\ Inv /\ FetchClock /\ Pace /\ [Next]_vars => Pace'
<1> SUFFICES ASSUME KeepsUp, Inv, FetchClock, Pace, [Next]_vars, pc' # "exited",
                    NEW m \in DOMAIN next', next'[m] <= 0
             PROVE  Paced(next', PollInterval - toFetch', Turn', m)
  BY DEF Pace, Known
<1> DEFINE v == PollInterval - toFetch
<1> USE DEF scheduler, ticker, workers, history
<1>a. /\ toFetch \in 1 .. PollInterval /\ callLeft \in 0 .. FetchTime /\ v \in Nat
      /\ Known \in SUBSET Monitor /\ next \in [Known -> -MaxAge .. MaxAge]
  BY DEF Inv, LoopTypes, ScheduleTypes
<1>b. Inv' /\ Intervals # {}
  BY StepInv
<1>c. next' \in [DOMAIN next' -> -MaxAge .. MaxAge] /\ DOMAIN next' \in SUBSET Monitor
  BY <1>b DEF Inv, ScheduleTypes, Known
<1>d. Turn \in {0, 1} /\ (dueTick => Turn = 0) /\ (~dueTick => Turn = 1)
  BY DEF Turn
<1>e. Round \in Nat /\ Round > 0
  <2>1. Cardinality(Monitor) > 0
    BY <1>c, RoundType, FS_EmptySet DEF KeepsUp
  <2>2. QED
    BY <2>1, RoundType DEF KeepsUp
<1>1. CASE FetchReturns
  <2>1. UNCHANGED <<toFetch, dueTick>> /\ Turn' = Turn
    BY <1>1 DEF FetchReturns, Turn
  <2>2. v <= FetchTime /\ (v = FetchTime => Turn = 0)
    <3>1. CASE pc = "first"
      BY <1>a, <3>1 DEF FetchClock, KeepsUp
    <3>2. CASE pc = "fetch"
      <4>1. v + callLeft <= FetchTime
        BY <3>2 DEF FetchClock
      <4>2. v = FetchTime => toFetch # PollInterval
        BY <1>a DEF KeepsUp
      <4>3. v = FetchTime => Turn = 0
        BY <1>d, <3>2, <4>2 DEF FetchClock
      <4>4. QED
        BY <1>a, <4>1, <4>3
    <3>3. QED
      BY <1>1, <3>1, <3>2 DEF FetchReturns
  <2>3. -next'[m] <= v + (Round - 1)
    <3>1. CASE next'[m] = 0
      BY <1>a, <1>e, <3>1
    <3>2. CASE m \in Known /\ next'[m] = next[m]
      <4>1. Paced(next, v, Turn, m)
        BY <1>1, <3>2 DEF Pace, FetchReturns
      <4>2. QED
        BY <3>2, <4>1 DEF Paced
    <3>3. QED
      BY <1>1, <3>1, <3>2 DEF FetchReturns, FetchOK, UpdateMonitors, Known
  <2>4. Paced(next', v, Turn, m)
    BY <1>a, <1>c, <1>d, <2>2, <2>3, PacedFetch
  <2>5. QED
    BY <2>1, <2>4
<1>2. CASE TakeDue
  <2>1. PICK D \in kSubset(Min({MaxConcurrency, Cardinality(Due)}), Due) : Mark(D)
    BY <1>2 DEF TakeDue
  <2>2. /\ D \subseteq Due /\ Due \subseteq Known /\ Cardinality(D) = Min({MaxConcurrency, Cardinality(Due)})
        /\ DOMAIN next' = Known
    BY <2>1 DEF kSubset, Due, Mark
  <2>3. \A q \in Known : Effective(interval[q]) >= Round
    BY DEF Inv, ScheduleTypes, KeepsUp
  <2>4. \A q \in Known : IF q \in D THEN next'[q] >= Round ELSE next'[q] = next[q]
    BY <2>1, <2>3 DEF Mark
  <2>5. m \in Known /\ m \notin D /\ next[m] <= 0 /\ m \in Due
    <3>1. m \notin D
      BY <1>c, <1>e, <2>2, <2>4
    <3>2. QED
      BY <2>2, <2>4, <3>1 DEF Due
  <2>6. Cardinality(D) = MaxConcurrency
    <3>1. IsFiniteSet(Due) /\ Cardinality(Due) \in Nat
      BY <1>a, <2>2, LaterFinite DEF KeepsUp
    <3>2. Cardinality(D) # Cardinality(Due)
      BY <2>2, <2>5, <3>1, FS_Subset
    <3>3. QED
      BY <2>2, <3>1, <3>2, MinOfTwo
  <2>7. Turn = 0 /\ Turn' = 1 /\ toFetch' = toFetch
    BY <1>2 DEF TakeDue, Turn
  <2>8. Paced(next, v, 0, m)
    BY <1>2, <2>5, <2>7 DEF Pace, TakeDue
  <2>9. /\ D \in SUBSET Known /\ next' \in [Known -> -MaxAge .. MaxAge]
        /\ \A q \in D : next[q] <= 0
    BY <1>c, <2>2 DEF Due
  <2>10. Paced(next', v, 1, m)
    BY <1>a, <2>4, <2>5, <2>6, <2>8, <2>9, PacedTake
  <2>11. QED
    BY <2>7, <2>10
<1>3. CASE Tick
  <2>1. pc' = pc /\ DOMAIN next' = Known /\ m \in Known
        /\ \A q \in Known : next'[q] = IF next[q] > -MaxAge THEN next[q] - 1 ELSE next[q]
    BY <1>3 DEF Tick
  <2>2. pc # "first"
    BY <2>1 DEF FetchClock
  <2>3. dueTick' = TRUE /\ toFetch' = IF toFetch = 1 THEN PollInterval ELSE toFetch - 1
    BY <1>3, <2>2 DEF Tick
  <2>4. Turn' = 0
    BY <2>3 DEF Turn
  <2>5. FetchTime <= v => Turn = 1
    <3>1. CASE pc = "fetch" /\ callLeft > 0
      <4>1. v + callLeft <= FetchTime
        BY <3>1 DEF FetchClock
      <4>2. QED
        BY <1>a, <3>1, <4>1
    <3>2. CASE ~dueTick
      BY <1>d, <3>2
    <3>3. QED
      BY <1>3, <2>2, <3>1, <3>2 DEF Tick
  <2>6. next[m] <= 0 => Paced(next, v, Turn, m)
    BY <1>3, <2>1 DEF Pace, Tick
  <2>7. next' \in [Known -> -MaxAge .. MaxAge]
    BY <1>c, <2>1
  <2>8. Paced(next', v + 1, 0, m) /\ (v + 1 = PollInterval => Paced(next', 0, 0, m))
    BY <1>a, <1>b, <1>d, <2>1, <2>5, <2>6, <2>7, PacedTick
  <2>9. CASE toFetch = 1
    <3>1. v + 1 = PollInterval /\ PollInterval - PollInterval = 0
      BY <1>a, <2>9
    <3>2. PollInterval - toFetch' = 0
      BY <2>3, <2>9, <3>1, Zenon
    <3>3. QED
      BY <2>4, <2>8, <3>1, <3>2, Zenon
  <2>10. CASE toFetch # 1
    <3>1. PollInterval - (toFetch - 1) = v + 1
      BY <1>a
    <3>2. PollInterval - toFetch' = v + 1
      BY <2>3, <2>10, <3>1, Zenon
    <3>3. QED
      BY <2>4, <2>8, <3>2, Zenon
  <2>11. QED
    BY <2>9, <2>10
<1>4. ASSUME UNCHANGED <<next, toFetch, dueTick>>, pc # "exited"
      PROVE  Paced(next', PollInterval - toFetch', Turn', m)
  <2>1. Turn' = Turn /\ m \in Known
    BY <1>4 DEF Turn, Known
  <2>2. QED
    BY <1>4, <2>1 DEF Pace
<1>5. CASE StartFetch \/ EndOfBatch \/ Cancel \/ Take \/ Finish \/ \E q \in Monitor : Send(q)
  <2>1. UNCHANGED <<next, toFetch, dueTick>>
    BY <1>5 DEF StartFetch, EndOfBatch, Cancel, Take, Finish, Send
  <2>2. pc # "exited"
    BY <1>5 DEF StartFetch, EndOfBatch, Cancel, Take, Finish, Send
  <2>3. QED
    BY <1>4, <2>1, <2>2
<1>6. CASE Quit
  BY <1>6 DEF Quit
<1>7. CASE Exited \/ UNCHANGED vars
  BY <1>4, <1>7 DEF Exited, vars
<1>8. QED
  BY <1>1, <1>2, <1>3, <1>5, <1>6, <1>7 DEF Next

\* Every step keeps the account of a monitor's wait.
LEMMA NotAfterStep == Inv /\ NotAfter /\ [Next]_vars => NotAfter'
<1> SUFFICES ASSUME Inv, NotAfter, [Next]_vars PROVE NotAfter'
  OBVIOUS
<1> USE DEF scheduler, ticker, workers, history
<1>1. CASE FetchReturns
  <2>1. CASE UNCHANGED <<next, since, promised>>
    BY <2>1 DEF NotAfter, Known
  <2>2. ASSUME NEW S \in SUBSET Monitor, NEW i \in [S -> Intervals], UpdateMonitors(S, i) PROVE NotAfter'
    BY <2>2 DEF UpdateMonitors, NotAfter, Known
  <2>3. QED
    BY <1>1, <2>1, <2>2 DEF FetchReturns, FetchOK
<1>2. CASE TakeDue
  <2>1. PICK D : Mark(D)
    BY <1>2 DEF TakeDue
  <2>2. \A q \in Known : Effective(interval[q]) \in 0 .. MaxAge
    BY EffectiveBound DEF Inv, ScheduleTypes
  <2>3. QED
    BY <2>1, <2>2 DEF Mark, NotAfter, Known
<1>3. CASE Tick
  BY <1>3, SMTT(30) DEF Tick, NotAfter, Inv, ScheduleTypes, Known
<1>4. CASE StartFetch \/ EndOfBatch \/ Cancel \/ Take \/ Finish \/ Quit \/ Exited \/ UNCHANGED vars
          \/ \E q \in Monitor : Send(q)
  <2>1. UNCHANGED <<next, since, promised>>
    BY <1>4 DEF StartFetch, EndOfBatch, Cancel, Take, Finish, Send, Quit, Exited, vars
  <2>2. QED
    BY <2>1 DEF NotAfter, Known
<1>5. QED
  BY <1>1, <1>2, <1>3, <1>4 DEF Next

\* A schedule that can keep up hands every monitor out at most a fetch and two
\* rounds of full batches late, for any number of monitors and workers and in
\* whatever order GetDueChecks picks the due ones: those it prefers to a waiting
\* monitor are not due again before that one's turn.
THEOREM HandedOutInTime ==
  ASSUME KeepsUp PROVE Spec => []Punctual
<1>1. Init => FetchClock /\ Pace /\ NotAfter
  BY DEF Init, FetchClock, Pace, NotAfter, Known
<1>2. Round > 0 /\ Inv /\ FetchClock /\ Pace /\ NotAfter /\ [Next]_vars => (FetchClock /\ Pace /\ NotAfter)'
  BY FetchClockStep, PaceStep, NotAfterStep
<1>3. Inv /\ Pace /\ NotAfter => Punctual
  <2> SUFFICES ASSUME Inv, Pace, NotAfter, pc # "exited", NEW m \in Known
               PROVE  since[m] <= promised[m] + FetchTime + 2 * (Round - 1)
    BY DEF Punctual
  <2>1. /\ since[m] \in Nat /\ promised[m] \in Nat /\ next[m] \in Int /\ Round \in Nat
        /\ since[m] + next[m] <= promised[m]
        /\ PollInterval - toFetch \in Nat
    BY RoundType DEF Inv, ScheduleTypes, LoopTypes, NotAfter, KeepsUp
  <2>2. Round > 0
    BY RoundType, FS_EmptySet DEF KeepsUp, Inv, ScheduleTypes
  <2>3. CASE next[m] <= 0
    <3>1. -next[m] <= FetchTime + 2 * (Round - 1)
      BY <2>1, <2>2, <2>3, PacedBound DEF Pace
    <3>2. QED
      BY <2>1, <3>1
  <2>4. CASE next[m] > 0
    BY <2>1, <2>2, <2>4
  <2>5. QED
    BY <2>1, <2>3, <2>4
<1>4. CASE Round > 0
  BY <1>1, <1>2, <1>3, <1>4, InitInv, StepInv, PTL DEF Spec
<1>5. CASE ~(Round > 0)
  <2>1. Inv => Punctual
    <3>1. Monitor = {}
      BY <1>5, RoundType, FS_EmptySet DEF KeepsUp
    <3>2. QED
      BY <3>1 DEF Inv, ScheduleTypes, Punctual
  <2>2. QED
    BY <2>1, InitInv, StepInv, PTL DEF Spec
<1>6. QED
  BY <1>4, <1>5
=============================================================================
