---------------------------- MODULE HealthProofs ----------------------------
(***************************************************************************)
(* The watchdog restarts a poller whose heartbeat loop is blocked, in      *)
(* time, and no other one; the farewell is the last word; a scrape is in   *)
(* order, and what is observed is counted: for all intervals, timeouts,    *)
(* jumps of the clock, numbers of workers, buckets and values.             *)
(***************************************************************************)
EXTENDS HealthServer, Sequences, FiniteSetTheorems, WellFoundedInduction, TLAPS

USE HealthAssumption

-----------------------------------------------------------------------------
(* The beacon. *)

Gone == main \in {"cancelled", "farewell", "waiting", "ended"}
Leaving == main \in {"farewell", "waiting", "ended"}

\* The numbers the argument needs.
Clocks ==
    /\ toBeat \in 1 .. BeatInterval /\ toWatch \in 1 .. WatchInterval
    /\ callLeft \in 0 .. CallTimeout /\ nap \in 0 .. ExitDelay
    /\ age \in Int /\ quiet \in Nat /\ stuck \in Nat /\ ahead \in Nat /\ back \in Nat
    /\ age = quiet + ahead - back

Control ==
    /\ main \in {"serving", "draining", "cancelled", "farewell", "waiting", "ended"}
    /\ loop \in {"select", "lock", "call", "log", "exited"}
    /\ dog \in {"select", "exiting", "stopped"}
    /\ loop = "exited" => Gone
    /\ dog = "stopped" => Gone
    /\ process = "ended" => main = "ended"
    /\ stale \in Nat

\* A loop that was never blocked since its last beat is a call past a tick of
\* its ticker at most.
Paced ==
    loop # "exited" /\ stuck = 0 =>
        /\ loop = "lock" => quiet = 0
        /\ loop = "call" => quiet + callLeft <= CallTimeout
        /\ ~beatTick => quiet + toBeat <= BeatInterval
        /\ quiet <= BeatInterval + CallTimeout

\* The watchdog looks before the time by which it must have seen a stall, and
\* then sleeps for no longer than is left.
Watched ==
    /\ dog = "select" /\ ~dogTick => quiet - back + toWatch <= TTL + WatchInterval
    /\ dog = "select" => quiet - back <= TTL + WatchInterval
    /\ dog = "exiting" => quiet - back + nap <= TTL + WatchInterval + ExitDelay

\* Past the farewell, unless a heartbeat overlapped it, none is under way and
\* none was handled after it.
LastWord ==
    Leaving /\ ~overlap =>
        /\ loop # "lock" /\ request # "sent" /\ stale = 0
        /\ final = "handled" => shown = "shutting_down"

Beacon == Clocks /\ Control /\ Paced /\ Watched /\ LastWord

LEMMA Intervals ==
  /\ BeatInterval \in Nat /\ WatchInterval \in Nat /\ CallTimeout \in Nat /\ TTL \in Nat
  /\ ExitDelay \in Nat /\ BeatInterval >= 1 /\ WatchInterval >= 1
  /\ Jumps \subseteq Int
  BY DEF W!ConstantsOK

LEMMA InitBeacon == W!Init => Beacon
  BY Intervals DEF W!Init, Beacon, Clocks, Control, Paced, Watched, LastWord, Leaving, Gone

LEMMA ClocksStep == Clocks /\ W!Next => Clocks'
<1> SUFFICES ASSUME Clocks, W!Next PROVE Clocks'
  OBVIOUS
<1>1. CASE W!Begin
  BY <1>1 DEF W!Begin, Clocks, W!apapi, W!watch, W!shutdown, W!outside
<1>2. CASE W!Call
  BY <1>2, Intervals DEF W!Call, Clocks, W!ticker, W!beacon, W!watch
<1>3. CASE W!CallReturns
  BY <1>3, Intervals DEF W!CallReturns, Clocks, W!ticker, W!beacon, W!watch
<1>4. CASE W!Jump
  <2>1. PICK d \in Jumps :
          /\ age' = age + d
          /\ IF d > 0 THEN ahead' = ahead + d /\ UNCHANGED back
                      ELSE back' = back - d /\ UNCHANGED ahead
    BY <1>4 DEF W!Jump
  <2>2. d \in Int
    BY Intervals
  <2>3. age' \in Int /\ ahead' \in Nat /\ back' \in Nat /\ age' = quiet + ahead' - back'
    BY <2>1, <2>2 DEF Clocks
  <2> QED  BY <1>4, <2>3 DEF W!Jump, Clocks, W!ticker, W!watch
<1>5. CASE W!Tick
  <2>1. /\ quiet' = quiet + 1 /\ age' = age + 1 /\ UNCHANGED <<ahead, back>>
        /\ stuck' = IF W!Blocked THEN stuck + 1 ELSE stuck
        /\ callLeft' = IF callLeft > 0 THEN callLeft - 1 ELSE 0
        /\ toBeat' = IF toBeat = 1 THEN BeatInterval ELSE toBeat - 1
        /\ toWatch' = IF toWatch = 1 THEN WatchInterval ELSE toWatch - 1
        /\ nap' = IF nap > 0 THEN nap - 1 ELSE 0
    BY <1>5 DEF W!Tick
  <2> QED  BY <2>1, Intervals DEF Clocks
<1>6. CASE UNCHANGED <<toBeat, toWatch, nap, callLeft, age, quiet, stuck, ahead, back>>
  BY <1>6 DEF Clocks
<1>8. CASE W!Look
  <2>1. nap' = nap \/ nap' = ExitDelay
    BY <1>8 DEF W!Look
  <2>2. nap' \in 0 .. ExitDelay
    BY <2>1, Intervals DEF Clocks
  <2> QED  BY <1>8, <2>2 DEF W!Look, Clocks, W!ticker, W!beacon
<1>7. CASE \/ W!Log \/ W!LoopQuits \/ W!Restart \/ W!DogQuits \/ W!Signal \/ W!Cancel
           \/ W!Farewell \/ W!FarewellReturns \/ W!End \/ W!Handle \/ W!HandleFinal
           \/ W!Stall \/ W!DropResults
  BY <1>6, <1>7
     DEF W!Log, W!LoopQuits, W!Restart, W!DogQuits, W!Signal, W!Cancel, W!Farewell,
         W!FarewellReturns, W!End, W!Handle, W!HandleFinal, W!Stall, W!DropResults, W!MainGoes,
         W!ticker, W!beacon, W!watch
<1> QED  BY <1>1, <1>2, <1>3, <1>4, <1>5, <1>7, <1>8 DEF W!Next

LEMMA ControlStep == Control /\ W!Next => Control'
<1> SUFFICES ASSUME Control, W!Next PROVE Control'
  OBVIOUS
<1> USE DEF Control, Gone, W!apapi
<1>1. CASE \/ W!Begin \/ W!Call \/ W!CallReturns \/ W!Log \/ W!LoopQuits
  BY <1>1 DEF W!Begin, W!Call, W!CallReturns, W!Log, W!LoopQuits, W!Cancelled, W!watch, W!shutdown
<1>2. CASE \/ W!Look \/ W!Restart \/ W!DogQuits
  BY <1>2 DEF W!Look, W!Restart, W!DogQuits, W!Cancelled, W!watch, W!shutdown
<1>3. CASE \/ W!Signal \/ W!Cancel \/ W!Farewell \/ W!FarewellReturns \/ W!End
  BY <1>3 DEF W!Signal, W!Cancel, W!Farewell, W!FarewellReturns, W!End, W!MainGoes,
              W!Up, W!watch
<1>4. CASE \/ W!Handle \/ W!HandleFinal \/ W!Stall \/ W!DropResults \/ W!Jump \/ W!Tick
  BY <1>4 DEF W!Handle, W!HandleFinal, W!Stall, W!DropResults, W!Jump, W!Tick, W!watch, W!shutdown
<1> QED  BY <1>1, <1>2, <1>3, <1>4 DEF W!Next

LEMMA PacedStep == Clocks /\ Control /\ Paced /\ W!Next => Paced'
<1> SUFFICES ASSUME Clocks, Control, Paced, W!Next, loop' # "exited", stuck' = 0 PROVE
        /\ loop' = "lock" => quiet' = 0
        /\ loop' = "call" => quiet' + callLeft' <= CallTimeout
        /\ ~beatTick' => quiet' + toBeat' <= BeatInterval
        /\ quiet' <= BeatInterval + CallTimeout
  BY DEF Paced
<1>a. /\ toBeat \in Int /\ toBeat >= 1 /\ toBeat <= BeatInterval
      /\ callLeft \in Nat /\ quiet \in Nat /\ stuck \in Nat
  BY Intervals DEF Clocks
<1>1. CASE W!Begin
  <2>1. quiet' = 0 /\ toBeat' = toBeat /\ loop' = "lock"
    BY <1>1 DEF W!Begin
  <2> QED  BY <1>a, <2>1, Intervals
<1>2. CASE W!Call
  <2>1. /\ quiet' = quiet /\ toBeat' = toBeat /\ beatTick' = beatTick /\ stuck' = stuck
        /\ loop = "lock" /\ loop' = "call" /\ callLeft' = CallTimeout
    BY <1>2 DEF W!Call, W!ticker, W!beacon
  <2>2. quiet = 0 /\ (~beatTick => quiet + toBeat <= BeatInterval)
    BY <2>1 DEF Paced
  <2> QED  BY <1>a, <2>1, <2>2, Intervals
<1>3. CASE W!CallReturns \/ W!Log \/ W!LoopQuits
  <2>1. /\ quiet' = quiet /\ toBeat' = toBeat /\ beatTick' = beatTick /\ stuck' = stuck
        /\ loop # "exited" /\ loop' \in {"select", "log", "exited"}
    BY <1>3 DEF W!CallReturns, W!Log, W!LoopQuits, W!ticker, W!beacon
  <2> QED  BY <1>a, <2>1 DEF Paced
<1>4. CASE W!Tick
  <2>1. /\ quiet' = quiet + 1 /\ loop' = loop
        /\ stuck' = IF W!Blocked THEN stuck + 1 ELSE stuck
        /\ callLeft' = IF callLeft > 0 THEN callLeft - 1 ELSE 0
        /\ toBeat' = IF toBeat = 1 THEN BeatInterval ELSE toBeat - 1
        /\ ~beatTick' => ~beatTick /\ toBeat # 1
        /\ \/ loop = "select" /\ ~beatTick
           \/ loop = "call" /\ callLeft > 0
           \/ loop = "log" \/ loop = "lock" \/ loop = "exited"
    BY <1>4 DEF W!Tick
  <2>2. ~W!Blocked /\ stuck = 0
    BY <1>a, <2>1
  <2>3. loop # "log" /\ loop # "lock"
    BY <2>2 DEF W!Blocked
  <2>4. /\ loop = "call" => quiet + callLeft <= CallTimeout
        /\ ~beatTick => quiet + toBeat <= BeatInterval
    BY <2>1, <2>2 DEF Paced
  <2>5. ~beatTick' => quiet' + toBeat' <= BeatInterval
    BY <1>a, <2>1, <2>4, Intervals
  <2>6. CASE loop = "select" /\ ~beatTick
    BY <1>a, <2>1, <2>4, <2>5, <2>6, Intervals
  <2>7. CASE loop = "call" /\ callLeft > 0
    BY <1>a, <2>1, <2>4, <2>5, <2>7, Intervals
  <2> QED  BY <2>1, <2>3, <2>6, <2>7
<1>5. CASE UNCHANGED <<loop, quiet, callLeft, beatTick, toBeat, stuck>>
  BY <1>5 DEF Paced
<1>6. CASE \/ W!Look \/ W!Restart \/ W!DogQuits \/ W!Signal \/ W!Cancel
           \/ W!Farewell \/ W!FarewellReturns \/ W!End \/ W!Handle \/ W!HandleFinal
           \/ W!Stall \/ W!DropResults \/ W!Jump
  BY <1>5, <1>6
     DEF W!Look, W!Restart, W!DogQuits, W!Signal, W!Cancel, W!Farewell, W!Jump,
         W!FarewellReturns, W!End, W!Handle, W!HandleFinal, W!Stall, W!DropResults, W!MainGoes,
         W!ticker, W!beacon
<1> QED  BY <1>1, <1>2, <1>3, <1>4, <1>6 DEF W!Next

\* A clock set back further gives the watchdog more time.
LEMMA SetBack ==
  ASSUME NEW q \in Int, NEW b \in Int, NEW c \in Int, c >= b, NEW t \in Int, NEW m \in Int
  PROVE  /\ q - b <= m => q - c <= m
         /\ q - b + t <= m => q - c + t <= m
  OBVIOUS

LEMMA WatchedStep == Clocks /\ Clocks' /\ Control /\ Watched /\ W!Next => Watched'
<1> SUFFICES ASSUME Clocks, Clocks', Control, Watched, W!Next PROVE Watched'
  OBVIOUS
<1>a. /\ toWatch \in Int /\ toWatch >= 1 /\ toWatch <= WatchInterval
      /\ quiet \in Nat /\ back \in Nat /\ ahead \in Nat /\ age = quiet + ahead - back
      /\ back' \in Nat /\ nap \in Nat /\ nap <= ExitDelay
  BY Intervals DEF Clocks
<1>1. CASE W!Begin
  <2>1. quiet' = 0 /\ back' = 0 /\ toWatch' = toWatch /\ nap' = nap
    BY <1>1 DEF W!Begin, W!watch
  <2>2. /\ quiet' - back' + toWatch' <= TTL + WatchInterval /\ quiet' - back' <= TTL + WatchInterval
        /\ quiet' - back' + nap' <= TTL + WatchInterval + ExitDelay
    BY <1>a, <2>1, Intervals
  <2> QED  BY <2>2 DEF Watched
<1>2. CASE W!Look
  <2>1. /\ quiet' = quiet /\ back' = back /\ toWatch' = toWatch /\ dog = "select"
        /\ \/ age > TTL /\ dog' = "exiting" /\ nap' = ExitDelay
           \/ ~(age > TTL) /\ dog' = "select"
    BY <1>2 DEF W!Look, W!Stalled, W!beacon
  <2>2. quiet - back <= TTL + WatchInterval
    BY <2>1 DEF Watched
  <2>3. CASE dog' = "exiting" /\ nap' = ExitDelay
    <3>1. quiet' - back' + nap' <= TTL + WatchInterval + ExitDelay
      BY <1>a, <2>1, <2>2, <2>3, Intervals
    <3> QED  BY <2>3, <3>1 DEF Watched
  <2>4. CASE ~(age > TTL) /\ dog' = "select"
    <3>1. quiet' - back' + toWatch' <= TTL + WatchInterval /\ quiet' - back' <= TTL + WatchInterval
      BY <1>a, <2>1, <2>2, <2>4, Intervals
    <3> QED  BY <2>4, <3>1 DEF Watched
  <2> QED  BY <2>1, <2>3, <2>4
<1>3. CASE W!DogQuits
  <2>1. dog' = "stopped"
    BY <1>3 DEF W!DogQuits
  <2> QED  BY <2>1 DEF Watched
<1>4. CASE W!Jump
  <2>0. dog' = dog /\ dogTick' = dogTick
    BY <1>4 DEF W!Jump, W!watch
  <2>1. quiet' = quiet /\ toWatch' = toWatch /\ nap' = nap
    BY <1>4 DEF W!Jump, W!watch
  <2>2. back' >= back
    <3>1. PICK d \in Jumps : IF d > 0 THEN back' = back ELSE back' = back - d
      BY <1>4 DEF W!Jump
    <3> QED  BY <1>a, <3>1, Intervals
  <2>3. /\ quiet \in Int /\ back \in Int /\ back' \in Int /\ toWatch \in Int
        /\ TTL + WatchInterval \in Int /\ TTL + WatchInterval + ExitDelay \in Int /\ nap \in Int
    BY <1>a, Intervals
  <2>4. ASSUME dog = "select" PROVE quiet' - back' <= TTL + WatchInterval
    <3>1. quiet - back <= TTL + WatchInterval
      BY <2>4 DEF Watched
    <3>2. quiet - back' <= TTL + WatchInterval
      BY <2>2, <2>3, <3>1, SetBack
    <3> QED  BY <2>1, <3>2
  <2>5. ASSUME dog = "select", ~dogTick
        PROVE  quiet' - back' + toWatch' <= TTL + WatchInterval
    <3>1. quiet - back + toWatch <= TTL + WatchInterval
      BY <2>5 DEF Watched
    <3>2. quiet - back' + toWatch <= TTL + WatchInterval
      BY <2>2, <2>3, <3>1, SetBack
    <3> QED  BY <2>1, <3>2
  <2>6. ASSUME dog = "exiting"
        PROVE  quiet' - back' + nap' <= TTL + WatchInterval + ExitDelay
    <3>1. quiet - back + nap <= TTL + WatchInterval + ExitDelay
      BY <2>6 DEF Watched
    <3>2. quiet - back' + nap <= TTL + WatchInterval + ExitDelay
      BY <2>2, <2>3, <3>1, SetBack
    <3> QED  BY <2>1, <3>2
  <2> QED  BY <2>0, <2>4, <2>5, <2>6 DEF Watched
<1>5. CASE W!Tick
  <2>1. /\ quiet' = quiet + 1 /\ back' = back /\ dog' = dog
        /\ (dog = "select" /\ ~dogTick) \/ (dog = "exiting" /\ nap > 0) \/ dog = "stopped"
        /\ nap' = IF nap > 0 THEN nap - 1 ELSE 0
        /\ toWatch' = IF toWatch = 1 THEN WatchInterval ELSE toWatch - 1
        /\ ~dogTick' => toWatch # 1
    BY <1>5 DEF W!Tick
  <2>2. CASE dog = "select" /\ ~dogTick
    <3>1. quiet - back + toWatch <= TTL + WatchInterval
      BY <2>2 DEF Watched
    <3>2. quiet' - back' <= TTL + WatchInterval
      BY <1>a, <2>1, <3>1, Intervals
    <3>3. ~dogTick' => quiet' - back' + toWatch' <= TTL + WatchInterval
      BY <1>a, <2>1, <3>1, Intervals
    <3> QED  BY <2>1, <2>2, <3>2, <3>3 DEF Watched
  <2>3. CASE dog = "exiting" /\ nap > 0
    <3>1. quiet - back + nap <= TTL + WatchInterval + ExitDelay
      BY <2>3 DEF Watched
    <3>2. quiet' - back' + nap' <= TTL + WatchInterval + ExitDelay
      BY <1>a, <2>1, <2>3, <3>1, Intervals
    <3> QED  BY <2>1, <2>3, <3>2 DEF Watched
  <2> QED  BY <2>1, <2>2, <2>3 DEF Watched
<1>6. CASE UNCHANGED <<quiet, back, dog, dogTick, toWatch, nap>>
  BY <1>6 DEF Watched
<1>7. CASE \/ W!Call \/ W!CallReturns \/ W!Log \/ W!LoopQuits \/ W!Restart \/ W!Signal
           \/ W!Cancel \/ W!Farewell \/ W!FarewellReturns \/ W!End \/ W!Handle \/ W!HandleFinal
           \/ W!Stall \/ W!DropResults
  BY <1>6, <1>7
     DEF W!Call, W!CallReturns, W!Log, W!LoopQuits, W!Restart, W!Signal, W!Cancel, W!Farewell,
         W!FarewellReturns, W!End, W!Handle, W!HandleFinal, W!Stall, W!DropResults, W!MainGoes,
         W!beacon, W!watch
<1> QED  BY <1>1, <1>2, <1>3, <1>4, <1>5, <1>7 DEF W!Next

LEMMA LastWordStep == Control /\ LastWord /\ W!Next => LastWord'
<1> SUFFICES ASSUME Control, LastWord, W!Next PROVE LastWord'
  OBVIOUS
<1> USE DEF LastWord, Leaving
<1>1. CASE W!Begin
  BY <1>1 DEF W!Begin, W!Cancelled, W!shutdown
<1>2. CASE W!Call
  BY <1>2 DEF W!Call, W!shutdown
<1>3. CASE \/ W!CallReturns \/ W!Log \/ W!LoopQuits
  BY <1>3 DEF W!CallReturns, W!Log, W!LoopQuits, W!shutdown, W!apapi
<1>4. CASE W!Farewell
  <2>1. /\ final' = "sent" /\ overlap' = (overlap \/ request = "sent" \/ loop = "lock" \/ stale > 0)
        /\ UNCHANGED <<loop, request, stale>>
    BY <1>4 DEF W!Farewell, W!apapi
  <2>2. ~overlap' => request # "sent" /\ loop # "lock" /\ ~(stale > 0)
    BY <2>1, Zenon
  <2>3. ~(stale > 0) => stale = 0
    BY DEF Control
  <2> QED  BY <2>1, <2>2, <2>3
<1>5. CASE \/ W!FarewellReturns \/ W!End \/ W!Signal \/ W!Cancel
  BY <1>5 DEF W!FarewellReturns, W!End, W!Signal, W!Cancel, W!MainGoes, W!apapi
<1>6. CASE W!Handle
  BY <1>6 DEF W!Handle, W!shutdown
<1>7. CASE W!HandleFinal
  BY <1>7 DEF W!HandleFinal
<1>8. CASE \/ W!Look \/ W!Restart \/ W!DogQuits \/ W!Stall \/ W!DropResults \/ W!Jump \/ W!Tick
  BY <1>8 DEF W!Look, W!Restart, W!DogQuits, W!Stall, W!DropResults, W!Jump, W!Tick,
              W!shutdown, W!apapi
<1> QED  BY <1>1, <1>2, <1>3, <1>4, <1>5, <1>6, <1>7, <1>8 DEF W!Next

BeaconHalf == half = "beacon" => Beacon

LEMMA BeaconHolds == Spec => []BeaconHalf
<1>1. Init => BeaconHalf
  BY InitBeacon DEF Init, BeaconHalf
<1>2. BeaconHalf /\ [Next]_state => BeaconHalf'
  <2> SUFFICES ASSUME BeaconHalf, [Next]_state, half' = "beacon" PROVE Beacon'
    BY DEF BeaconHalf
  <2>1. CASE MetricsStep
    BY <2>1 DEF MetricsStep
  <2>2. CASE BeaconStep
    BY <2>2, ClocksStep, ControlStep, PacedStep, WatchedStep, LastWordStep
       DEF BeaconStep, BeaconHalf, Beacon
  <2>3. CASE UNCHANGED state
    BY <2>3 DEF state, beacon, BeaconHalf, Beacon, Clocks, Control, Paced, Watched, LastWord,
                Gone, Leaving
  <2> QED  BY <2>1, <2>2, <2>3 DEF Next
<1> QED  BY <1>1, <1>2, PTL DEF Spec

\* The poller is never found stalled on account of apapi: only if its loop was
\* blocked or the wall clock ran ahead.
THEOREM NoNeedlessRestart == Spec => []QuietIsWedged
<1>1. BeaconHalf => QuietIsWedged
  <2> SUFFICES ASSUME half = "beacon", Beacon, age > TTL, ~W!Cancelled, ~(stuck > 0)
               PROVE  ahead > TTL - BeatInterval - CallTimeout
    BY DEF BeaconHalf, QuietIsWedged, W!QuietIsWedged, W!Stalled
  <2>1. /\ quiet \in Nat /\ ahead \in Nat /\ back \in Nat /\ stuck \in Nat
        /\ age = quiet + ahead - back
    BY DEF Beacon, Clocks
  <2>2. loop # "exited"
    BY DEF Beacon, Control, Gone, W!Cancelled
  <2>3. stuck = 0
    BY <2>1
  <2>4. quiet <= BeatInterval + CallTimeout
    BY <2>2, <2>3 DEF Beacon, Paced
  <2> QED  BY <2>1, <2>4, Intervals
<1> QED  BY <1>1, BeaconHolds, PTL

\* A poller that is not shutting down never outlives its loop's last beat by
\* more than the TTL, a watchdog period and the sleep before the exit, but for
\* a clock set back.
THEOREM WedgeIsEnded == Spec => []WedgeEndsProcess
<1>1. BeaconHalf => WedgeEndsProcess
  <2> SUFFICES ASSUME half = "beacon", Beacon, ~W!Cancelled
               PROVE  quiet <= TTL + WatchInterval + ExitDelay + back
    BY DEF BeaconHalf, WedgeEndsProcess, W!WedgeEndsProcess
  <2>1. quiet \in Nat /\ back \in Nat
    BY DEF Beacon, Clocks
  <2>2. dog \in {"select", "exiting"} /\ nap \in Nat
    BY Intervals DEF Beacon, Control, Gone, W!Cancelled, Clocks
  <2>3. CASE dog = "select"
    <3>1. quiet - back <= TTL + WatchInterval
      BY <2>3 DEF Beacon, Watched
    <3> QED  BY <2>1, <3>1, Intervals
  <2>4. CASE dog = "exiting"
    <3>1. quiet - back + nap <= TTL + WatchInterval + ExitDelay
      BY <2>4 DEF Beacon, Watched
    <3> QED  BY <2>1, <2>2, <3>1, Intervals
  <2> QED  BY <2>2, <2>3, <2>4
<1> QED  BY <1>1, BeaconHolds, PTL

\* apapi shows no poller that said farewell as online, unless a heartbeat
\* overlapped the shutdown.
THEOREM FarewellStands == Spec => []FarewellIsLast
<1>1. BeaconHalf => FarewellIsLast
  BY DEF BeaconHalf, Beacon, Control, LastWord, Leaving, FarewellIsLast, W!FarewellIsLast
<1> QED  BY <1>1, BeaconHolds, PTL

-----------------------------------------------------------------------------
(* The metrics. *)

\* Where a worker may be.
Steps == {"idle", "bucket", "count", "load", "swap", "executed", "error"}
Objects == {"none", "lag", "duration"}
Somewhere == {M!At(s, h) : s \in Steps, h \in Objects}

\* Its duration is observed and the check not counted; counted, and its error
\* not; its lag is observed and its duration not.
Timed == {M!At("load", "duration"), M!At("swap", "duration"), M!At("executed", "none")}
Failed == {M!At("error", "none")}
Delayed == {M!At("load", "lag"), M!At("swap", "lag"),
            M!At("bucket", "duration"), M!At("count", "duration")}

Inside(f, P) == {v \in Worker : f[v] \in P}
Number(f, P) == Cardinality(Inside(f, P))

\* What is written first is ahead by the workers between the two writes.
Ahead ==
    /\ pc \in [Worker -> Somewhere]
    /\ count \in [M!Histogram -> Nat] /\ executed \in Nat /\ errors \in Nat
    /\ executed + Number(pc, Timed) <= count["duration"]
    /\ errors + Number(pc, Failed) <= executed
    /\ count["duration"] + Number(pc, Delayed) <= count["lag"]

\* What the scrape has read is behind what is read next.
Scraped ==
    /\ at.stage \in {"executed", "errors", "duration", "lag"}
    /\ seen.executed \in Nat /\ seen.errors \in Nat
    /\ seen.count["duration"] \in Nat /\ seen.count["lag"] \in Nat
    /\ at.stage = "errors" => seen.executed <= count["duration"]
    /\ at.stage = "duration" =>
          seen.executed <= count["duration"] /\ seen.errors <= count["duration"]
    /\ at.stage \in {"lag", "executed"} =>
          seen.executed <= seen.count["duration"] /\ seen.errors <= seen.count["duration"]
    /\ at.stage = "lag" => seen.count["duration"] <= count["lag"]
    /\ at.stage = "executed" => seen.count["duration"] <= seen.count["lag"]

LEMMA Places ==
  /\ \A s, h, t, g : M!At(s, h) = M!At(t, g) <=> s = t /\ h = g
  /\ \A s \in Steps, h \in Objects : M!At(s, h) \in Somewhere
  BY DEF M!At, Somewhere

LEMMA Members ==
  ASSUME NEW s, NEW h
  PROVE  /\ M!At(s, h) \in Timed <=>
              \/ h = "duration" /\ s \in {"load", "swap"}
              \/ h = "none" /\ s = "executed"
         /\ M!At(s, h) \in Failed <=> h = "none" /\ s = "error"
         /\ M!At(s, h) \in Delayed <=>
              \/ h = "lag" /\ s \in {"load", "swap"}
              \/ h = "duration" /\ s \in {"bucket", "count"}
<1>1. \A t, g : M!At(s, h) = M!At(t, g) <=> s = t /\ h = g
  BY Places
<1> QED  BY <1>1 DEF Timed, Failed, Delayed

LEMMA WorkersFinite ==
  ASSUME NEW A \in SUBSET Worker PROVE IsFiniteSet(A) /\ Cardinality(A) \in Nat
<1>1. IsFiniteSet(Worker)
  BY DEF M!ConstantsOK, M!IsFiniteSet, IsFiniteSet
<1>2. IsFiniteSet(A)
  BY <1>1, FS_Subset
<1> QED  BY <1>2, FS_CardinalityType

LEMMA NoneThere ==
  ASSUME NEW f, NEW P, \A v \in Worker : f[v] \notin P PROVE Number(f, P) = 0
<1>1. Inside(f, P) = {}
  BY DEF Inside
<1> QED  BY <1>1, FS_EmptySet DEF Number

LEMMA InitMetrics == M!Init => Ahead /\ Scraped
<1> SUFFICES ASSUME M!Init PROVE Ahead /\ Scraped
  OBVIOUS
<1>0. M!At("idle", "none") \in Somewhere
  BY Places DEF Steps, Objects
<1>1. pc = [w \in Worker |-> M!At("idle", "none")] /\ M!At("idle", "none") \in Somewhere
  BY <1>0 DEF M!Init
<1>2. Number(pc, Timed) = 0 /\ Number(pc, Failed) = 0 /\ Number(pc, Delayed) = 0
  <2>1. \A v \in Worker : pc[v] \notin Timed /\ pc[v] \notin Failed /\ pc[v] \notin Delayed
    BY <1>1, Members
  <2> QED  BY <2>1, NoneThere
<1>3. Ahead
  BY <1>1, <1>2 DEF M!Init, Ahead, M!Histogram
<1>4. Scraped
  BY DEF M!Init, Scraped, M!Nothing, M!Histogram
<1> QED  BY <1>3, <1>4

\* A worker goes on from At(s, h) to At(t, g); what that does to the numbers.
LEMMA GoesOn ==
  ASSUME Ahead, NEW w \in Worker, NEW s, NEW h, pc[w] = M!At(s, h),
         NEW t \in Steps, NEW g \in Objects, M!Goto(w, t, g), NEW P
  PROVE  /\ pc' \in [Worker -> Somewhere]
         /\ Number(pc, P) \in Nat /\ Number(pc', P) \in Nat
         /\ M!At(s, h) \in P /\ M!At(t, g) \in P => Number(pc', P) = Number(pc, P)
         /\ M!At(s, h) \notin P /\ M!At(t, g) \notin P => Number(pc', P) = Number(pc, P)
         /\ M!At(s, h) \in P /\ M!At(t, g) \notin P => Number(pc', P) = Number(pc, P) - 1
         /\ M!At(s, h) \notin P /\ M!At(t, g) \in P => Number(pc', P) = Number(pc, P) + 1
<1>1. /\ pc \in [Worker -> Somewhere] /\ M!At(t, g) \in Somewhere
      /\ pc' = [pc EXCEPT ![w] = M!At(t, g)]
  BY Places DEF Ahead, M!Goto
<1>2. pc' \in [Worker -> Somewhere]
  BY <1>1
<1>3. Inside(pc, P) \in SUBSET Worker /\ Inside(pc', P) \in SUBSET Worker
  BY DEF Inside
<1>4. Number(pc, P) \in Nat /\ Number(pc', P) \in Nat /\ IsFiniteSet(Inside(pc, P))
  BY <1>3, WorkersFinite DEF Number
<1>5. /\ pc'[w] = M!At(t, g)
      /\ \A v \in Worker : v # w => pc'[v] = pc[v]
  BY <1>1
<1>6. /\ M!At(t, g) \in P => Inside(pc', P) = Inside(pc, P) \cup {w}
      /\ M!At(t, g) \notin P => Inside(pc', P) = Inside(pc, P) \ {w}
      /\ w \in Inside(pc, P) <=> M!At(s, h) \in P
  BY <1>5 DEF Inside
<1>7. /\ Cardinality(Inside(pc, P) \cup {w}) =
            IF w \in Inside(pc, P) THEN Number(pc, P) ELSE Number(pc, P) + 1
      /\ Cardinality(Inside(pc, P) \ {w}) =
            IF w \in Inside(pc, P) THEN Number(pc, P) - 1 ELSE Number(pc, P)
  BY <1>4, FS_AddElement, FS_RemoveElement DEF Number
<1>8. M!At(t, g) \in P =>
        Number(pc', P) = IF M!At(s, h) \in P THEN Number(pc, P) ELSE Number(pc, P) + 1
  BY <1>6, <1>7 DEF Number
<1>9. M!At(t, g) \notin P =>
        Number(pc', P) = IF M!At(s, h) \in P THEN Number(pc, P) - 1 ELSE Number(pc, P)
  BY <1>6, <1>7 DEF Number
<1> QED  BY <1>2, <1>4, <1>8, <1>9

-----------------------------------------------------------------------------
(* The steps of the metrics. *)

LEMMA AheadStep == Ahead /\ M!Next => Ahead'
<1> SUFFICES ASSUME Ahead, M!Next PROVE Ahead'
  OBVIOUS
<1>a. /\ count["duration"] \in Nat /\ count["lag"] \in Nat
      /\ executed \in Nat /\ errors \in Nat
      /\ executed + Number(pc, Timed) <= count["duration"]
      /\ errors + Number(pc, Failed) <= executed
      /\ count["duration"] + Number(pc, Delayed) <= count["lag"]
  BY DEF Ahead, M!Histogram
<1> USE DEF Steps, Objects
<1>b. ASSUME UNCHANGED <<count, executed, errors>>, pc' \in [Worker -> Somewhere],
             Number(pc', Timed) = Number(pc, Timed),
             Number(pc', Failed) = Number(pc, Failed),
             Number(pc', Delayed) = Number(pc, Delayed)
      PROVE  Ahead'
  BY <1>b DEF Ahead
<1>1. ASSUME NEW w \in Worker, M!Begin(w) PROVE Ahead'
  <2>1. pc[w] = M!At("idle", "none") /\ M!Goto(w, "bucket", "lag")
    BY <1>1 DEF M!Begin
  <2>2. UNCHANGED <<count, executed, errors>>
    BY <1>1 DEF M!Begin, M!counters
  <2> QED  BY <1>b, <2>1, <2>2, GoesOn, Members
<1>2. ASSUME NEW w \in Worker, NEW h \in M!Histogram, M!AddBucket(w, h) PROVE Ahead'
  <2>1. pc[w] = M!At("bucket", h) /\ M!Goto(w, "count", h) /\ h \in {"lag", "duration"}
    BY <1>2 DEF M!AddBucket, M!Histogram
  <2>2. UNCHANGED <<count, executed, errors>>
    BY <1>2 DEF M!AddBucket
  <2> QED  BY <1>b, <2>1, <2>2, GoesOn, Members
<1>3. ASSUME NEW w \in Worker, NEW h \in M!Histogram, M!Load(w, h) PROVE Ahead'
  <2>1. pc[w] = M!At("load", h) /\ M!Goto(w, "swap", h) /\ h \in {"lag", "duration"}
    BY <1>3 DEF M!Load, M!Histogram
  <2>2. UNCHANGED <<count, executed, errors>>
    BY <1>3 DEF M!Load, M!counters
  <2> QED  BY <1>b, <2>1, <2>2, GoesOn, Members
<1>4. ASSUME NEW w \in Worker, NEW h \in M!Histogram, M!SwapSum(w, h) PROVE Ahead'
  <2>1. /\ pc[w] = M!At("swap", h) /\ h \in {"lag", "duration"}
        /\ \/ M!Goto(w, "load", h)
           \/ h = "lag" /\ M!Goto(w, "bucket", "duration")
           \/ h = "duration" /\ M!Goto(w, "executed", "none")
    BY <1>4 DEF M!SwapSum, M!Returns, M!Histogram
  <2>2. UNCHANGED <<count, executed, errors>>
    BY <1>4 DEF M!SwapSum
  <2>3. CASE M!Goto(w, "load", h)
    BY <1>b, <2>1, <2>2, <2>3, GoesOn, Members
  <2>4. CASE h = "lag" /\ M!Goto(w, "bucket", "duration")
    BY <1>b, <2>1, <2>2, <2>4, GoesOn, Members
  <2>5. CASE h = "duration" /\ M!Goto(w, "executed", "none")
    BY <1>b, <2>1, <2>2, <2>5, GoesOn, Members
  <2> QED  BY <2>1, <2>3, <2>4, <2>5
<1>5. ASSUME NEW w \in Worker, M!AddCount(w, "lag") PROVE Ahead'
  <2>1. /\ pc[w] = M!At("count", "lag") /\ M!Goto(w, "load", "lag")
        /\ count' = [count EXCEPT !["lag"] = count["lag"] + 1]
        /\ UNCHANGED <<executed, errors>>
    BY <1>5 DEF M!AddCount
  <2>2. /\ pc' \in [Worker -> Somewhere]
        /\ Number(pc', Timed) = Number(pc, Timed)
        /\ Number(pc', Failed) = Number(pc, Failed)
        /\ Number(pc, Delayed) \in Nat /\ Number(pc', Delayed) = Number(pc, Delayed) + 1
    BY <2>1, GoesOn, Members
  <2>3. /\ count' \in [M!Histogram -> Nat]
        /\ count'["duration"] = count["duration"] /\ count'["lag"] = count["lag"] + 1
    BY <1>a, <2>1 DEF Ahead, M!Histogram
  <2>4. count'["duration"] + Number(pc', Delayed) <= count'["lag"]
    BY <1>a, <2>2, <2>3
  <2> QED  BY <1>a, <2>1, <2>2, <2>3, <2>4 DEF Ahead
<1>6. ASSUME NEW w \in Worker, M!AddCount(w, "duration") PROVE Ahead'
  <2>1. /\ pc[w] = M!At("count", "duration") /\ M!Goto(w, "load", "duration")
        /\ count' = [count EXCEPT !["duration"] = count["duration"] + 1]
        /\ UNCHANGED <<executed, errors>>
    BY <1>6 DEF M!AddCount
  <2>2. /\ pc' \in [Worker -> Somewhere]
        /\ Number(pc, Timed) \in Nat /\ Number(pc', Timed) = Number(pc, Timed) + 1
        /\ Number(pc', Failed) = Number(pc, Failed)
        /\ Number(pc, Delayed) \in Nat /\ Number(pc', Delayed) = Number(pc, Delayed) - 1
    BY <2>1, GoesOn, Members
  <2>3. /\ count' \in [M!Histogram -> Nat]
        /\ count'["duration"] = count["duration"] + 1 /\ count'["lag"] = count["lag"]
    BY <1>a, <2>1 DEF Ahead, M!Histogram
  <2>4. /\ count'["duration"] + Number(pc', Delayed) <= count'["lag"]
        /\ executed + Number(pc', Timed) <= count'["duration"]
    BY <1>a, <2>2, <2>3
  <2> QED  BY <1>a, <2>1, <2>2, <2>3, <2>4 DEF Ahead
<1>7. ASSUME NEW w \in Worker, M!CountCheck(w) PROVE Ahead'
  <2>1. /\ pc[w] = M!At("executed", "none")
        /\ M!Goto(w, "idle", "none") \/ M!Goto(w, "error", "none")
        /\ executed' = executed + 1 /\ UNCHANGED <<count, errors>>
    BY <1>7 DEF M!CountCheck
  <2>2. /\ pc' \in [Worker -> Somewhere]
        /\ Number(pc, Timed) \in Nat /\ Number(pc', Timed) = Number(pc, Timed) - 1
        /\ Number(pc, Failed) \in Nat
        /\ \/ Number(pc', Failed) = Number(pc, Failed)
           \/ Number(pc', Failed) = Number(pc, Failed) + 1
        /\ Number(pc', Delayed) = Number(pc, Delayed)
    <3>1. CASE M!Goto(w, "idle", "none")
      BY <2>1, <3>1, GoesOn, Members
    <3>2. CASE M!Goto(w, "error", "none")
      BY <2>1, <3>2, GoesOn, Members
    <3> QED  BY <2>1, <3>1, <3>2
  <2>3. /\ executed' \in Nat /\ executed' + Number(pc', Timed) <= count["duration"]
        /\ errors + Number(pc', Failed) <= executed'
    BY <1>a, <2>1, <2>2
  <2> QED  BY <1>a, <2>1, <2>2, <2>3 DEF Ahead
<1>8. ASSUME NEW w \in Worker, M!CountError(w) PROVE Ahead'
  <2>1. /\ pc[w] = M!At("error", "none") /\ M!Goto(w, "idle", "none")
        /\ errors' = errors + 1 /\ UNCHANGED <<count, executed>>
    BY <1>8 DEF M!CountError
  <2>2. /\ pc' \in [Worker -> Somewhere]
        /\ Number(pc', Timed) = Number(pc, Timed)
        /\ Number(pc, Failed) \in Nat /\ Number(pc', Failed) = Number(pc, Failed) - 1
        /\ Number(pc', Delayed) = Number(pc, Delayed)
    BY <2>1, GoesOn, Members
  <2>3. errors' \in Nat /\ errors' + Number(pc', Failed) <= executed
    BY <1>a, <2>1, <2>2
  <2> QED  BY <1>a, <2>1, <2>2, <2>3 DEF Ahead
<1>9. CASE M!Moved
  BY <1>9 DEF M!Moved, M!counters, M!worker, Ahead
<1>10. ASSUME NEW h \in M!Histogram, M!ReadBucket(h) \/ M!ReadCount(h) PROVE Ahead'
  BY <1>9, <1>10 DEF M!ReadBucket, M!ReadCount
<1>11. CASE M!ReadExecuted \/ M!ReadErrors
  BY <1>9, <1>11 DEF M!ReadExecuted, M!ReadErrors
<1>12. ASSUME NEW w \in Worker, NEW h \in M!Histogram, M!AddCount(w, h) PROVE Ahead'
  BY <1>5, <1>6, <1>12 DEF M!Histogram
<1> QED
  BY <1>1, <1>2, <1>3, <1>4, <1>7, <1>8, <1>10, <1>11, <1>12 DEF M!Next

\* What the scrape compares only grows.
LEMMA CountsGrow ==
  Ahead /\ M!Next =>
    /\ count["duration"] \in Nat /\ count["lag"] \in Nat
    /\ count'["duration"] \in Nat /\ count'["lag"] \in Nat
    /\ count["duration"] <= count'["duration"] /\ count["lag"] <= count'["lag"]
<1> SUFFICES ASSUME Ahead, M!Next
             PROVE  \A k \in {"duration", "lag"} :
                       count[k] \in Nat /\ count'[k] \in Nat /\ count[k] <= count'[k]
  OBVIOUS
<1>a. \A k \in {"duration", "lag"} : count[k] \in Nat
  BY DEF Ahead, M!Histogram
<1>1. ASSUME NEW w \in Worker, NEW h \in M!Histogram, M!AddCount(w, h)
      PROVE  \A k \in {"duration", "lag"} : count'[k] \in Nat /\ count[k] <= count'[k]
  <2>1. count \in [M!Histogram -> Nat] /\ count' = [count EXCEPT ![h] = count[h] + 1]
    BY <1>1 DEF M!AddCount, Ahead
  <2>2. ASSUME NEW k \in {"duration", "lag"}
        PROVE  count'[k] = IF k = h THEN count[k] + 1 ELSE count[k]
    BY <2>1 DEF M!Histogram
  <2> QED  BY <1>a, <2>2
<1>2. CASE count' = count
  BY <1>a, <1>2
<1>3. ASSUME NEW w \in Worker, M!Begin(w) \/ M!CountCheck(w) \/ M!CountError(w)
      PROVE  count' = count
  BY <1>3 DEF M!Begin, M!CountCheck, M!CountError, M!counters
<1>4. ASSUME NEW w \in Worker, NEW h \in M!Histogram,
             M!AddBucket(w, h) \/ M!Load(w, h) \/ M!SwapSum(w, h)
      PROVE  count' = count
  BY <1>4 DEF M!AddBucket, M!Load, M!SwapSum, M!counters
<1>5. ASSUME NEW h \in M!Histogram, M!ReadBucket(h) \/ M!ReadCount(h) PROVE count' = count
  BY <1>5 DEF M!ReadBucket, M!ReadCount, M!Moved, M!counters
<1>6. ASSUME M!ReadExecuted \/ M!ReadErrors PROVE count' = count
  BY <1>6 DEF M!ReadExecuted, M!ReadErrors, M!Moved, M!counters
<1> QED  BY <1>a, <1>1, <1>2, <1>3, <1>4, <1>5, <1>6 DEF M!Next

-----------------------------------------------------------------------------
(* The types of the metrics. *)

\* The type invariant, in its parts.
Counters ==
    /\ counts \in [M!Histogram -> [M!Bucket -> Nat]] /\ count \in [M!Histogram -> Nat]
    /\ executed \in Nat /\ errors \in Nat
Sums ==
    /\ sum \in [M!Histogram -> Int] /\ total \in [M!Histogram -> Int]
    /\ value \in [Worker -> Int] /\ old \in [Worker -> Int] /\ checks \in 0 .. MaxChecks
AnyPlace == [step : {"idle", "executed", "error"}, of : {"none"}]
              \cup [step : {"bucket", "count", "load", "swap"}, of : M!Histogram]
Reading ==
    /\ at \in [stage : {"executed", "errors"} \cup M!Histogram, bucket : 1 .. M!Inf + 1]
    /\ seen \in [executed : Nat, errors : Nat,
                 inf : [M!Histogram -> Nat], count : [M!Histogram -> Nat]]

LEMMA InfIs == M!Inf \in Nat /\ M!Inf >= 1
<1>1. Bounds \in Seq(Int)
  BY DEF M!ConstantsOK
<1> QED  BY <1>1 DEF M!Inf

LEMMA TypeParts == M!TypeOK <=> Counters /\ Sums /\ pc \in [Worker -> AnyPlace] /\ Reading
  BY DEF M!TypeOK, Counters, Sums, AnyPlace, Reading

LEMMA InitTypes == M!Init => M!TypeOK
<1> SUFFICES ASSUME M!Init PROVE M!TypeOK
  OBVIOUS
<1>1. M!Inf \in Nat /\ M!Inf >= 1
  BY InfIs
<1>2. Counters /\ Sums
  BY DEF M!Init, Counters, Sums, M!ConstantsOK
<1>3. pc \in [Worker -> AnyPlace]
  BY DEF M!Init, M!At, AnyPlace
<1>4. Reading
  BY <1>1 DEF M!Init, M!Nothing, Reading
<1> QED  BY <1>2, <1>3, <1>4, TypeParts

LEMMA TypesStep == M!TypeOK /\ M!Next => M!TypeOK'
<1> SUFFICES ASSUME Counters, Sums, pc \in [Worker -> AnyPlace], Reading, M!Next
             PROVE  Counters' /\ Sums' /\ pc' \in [Worker -> AnyPlace] /\ Reading'
  BY DEF M!TypeOK, Counters, Sums, AnyPlace, Reading, M!Histogram, M!Bucket, M!Inf
<1>a. M!Inf \in Nat /\ M!Inf >= 1
  BY InfIs
<1>1. Counters'
  BY SMTT(30) DEF Counters, M!Next, M!Begin, M!AddBucket, M!AddCount, M!Load, M!SwapSum, M!CountCheck,
         M!CountError, M!ReadExecuted, M!ReadErrors, M!ReadBucket, M!ReadCount, M!Moved, M!counters
<1>2. Sums'
  BY SMTT(30) DEF Sums, M!ConstantsOK, M!Next, M!Begin, M!AddBucket, M!AddCount, M!Load, M!SwapSum,
         M!CountCheck, M!CountError, M!ReadExecuted, M!ReadErrors, M!ReadBucket, M!ReadCount,
         M!Moved, M!counters, M!worker, M!history, M!Returns
<1>3. pc' \in [Worker -> AnyPlace]
  <2>1. \A s \in {"idle", "executed", "error"} : M!At(s, "none") \in AnyPlace
    BY DEF M!At, AnyPlace
  <2>2. \A s \in {"bucket", "count", "load", "swap"}, h \in M!Histogram : M!At(s, h) \in AnyPlace
    BY DEF M!At, AnyPlace
  <2>3. ASSUME NEW w \in Worker, NEW s, NEW h, M!At(s, h) \in AnyPlace, M!Goto(w, s, h)
        PROVE  pc' \in [Worker -> AnyPlace]
    BY <2>3 DEF M!Goto
  <2>4. ASSUME NEW w \in Worker, M!Begin(w) \/ M!CountCheck(w) \/ M!CountError(w)
        PROVE  pc' \in [Worker -> AnyPlace]
    BY <2>1, <2>2, <2>3, <2>4 DEF M!Begin, M!CountCheck, M!CountError, M!Histogram
  <2>5. ASSUME NEW w \in Worker, NEW h \in M!Histogram,
               M!AddBucket(w, h) \/ M!AddCount(w, h) \/ M!Load(w, h)
        PROVE  pc' \in [Worker -> AnyPlace]
    BY <2>2, <2>3, <2>5 DEF M!AddBucket, M!AddCount, M!Load
  <2>6. ASSUME NEW w \in Worker, NEW h \in M!Histogram, M!SwapSum(w, h)
        PROVE  pc' \in [Worker -> AnyPlace]
    <3>1. M!Goto(w, "load", h) \/ M!Goto(w, "bucket", "duration") \/ M!Goto(w, "executed", "none")
      BY <2>6 DEF M!SwapSum, M!Returns
    <3> QED  BY <2>1, <2>2, <2>3, <3>1 DEF M!Histogram
  <2>7. ASSUME NEW h \in M!Histogram, M!ReadBucket(h) \/ M!ReadCount(h) PROVE pc' = pc
    BY <2>7 DEF M!ReadBucket, M!ReadCount, M!Moved, M!worker
  <2>8. ASSUME M!ReadExecuted \/ M!ReadErrors PROVE pc' = pc
    BY <2>8 DEF M!ReadExecuted, M!ReadErrors, M!Moved, M!worker
  <2> QED  BY <2>4, <2>5, <2>6, <2>7, <2>8 DEF M!Next
<1>4. Reading'
  <2> USE DEF M!Histogram
  <2>1. CASE UNCHANGED <<at, seen>>
    BY <2>1 DEF Reading
  <2>2. CASE M!ReadExecuted
    BY <1>a, <2>2 DEF M!ReadExecuted, M!After, M!Nothing, Reading, Counters
  <2>3. CASE M!ReadErrors
    BY <1>a, <2>3 DEF M!ReadErrors, M!After, Reading, Counters
  <2>4. ASSUME NEW h \in M!Histogram, M!ReadBucket(h) PROVE Reading'
    <3>1. at.bucket \in M!Bucket /\ counts[h][at.bucket] \in Nat /\ seen.inf[h] \in Nat
      BY <2>4 DEF M!ReadBucket, Counters, Reading
    <3>2. /\ seen' = [seen EXCEPT !.inf[h] = seen.inf[h] + counts[h][at.bucket]]
          /\ at' = [at EXCEPT !.bucket = at.bucket + 1]
      BY <2>4 DEF M!ReadBucket
    <3>3. at.bucket + 1 \in 1 .. M!Inf + 1
      BY <1>a, <3>1 DEF M!Bucket
    <3> DEFINE n == seen.inf[h] + counts[h][at.bucket]
    <3>4. n \in Nat
      BY <3>1
    <3>5. seen' = [seen EXCEPT !.inf[h] = n]
      BY <3>2
    <3> HIDE DEF n
    <3> QED  BY <3>2, <3>3, <3>4, <3>5 DEF Reading
  <2>5. ASSUME NEW h \in M!Histogram, M!ReadCount(h) PROVE Reading'
    BY <1>a, <2>5 DEF M!ReadCount, M!After, Reading, Counters
  <2>6. ASSUME NEW w \in Worker, M!Begin(w) \/ M!CountCheck(w) \/ M!CountError(w)
        PROVE  UNCHANGED <<at, seen>>
    BY <2>6 DEF M!Begin, M!CountCheck, M!CountError, M!scrape
  <2>7. ASSUME NEW w \in Worker, NEW h \in M!Histogram,
               M!AddBucket(w, h) \/ M!AddCount(w, h) \/ M!Load(w, h) \/ M!SwapSum(w, h)
        PROVE  UNCHANGED <<at, seen>>
    BY <2>7 DEF M!AddBucket, M!AddCount, M!Load, M!SwapSum, M!scrape
  <2> QED  BY <2>1, <2>2, <2>3, <2>4, <2>5, <2>6, <2>7 DEF M!Next
<1> QED  BY <1>1, <1>2, <1>3, <1>4

-----------------------------------------------------------------------------
(* The scrape. *)

LEMMA ScrapedStep == M!TypeOK /\ Ahead /\ Ahead' /\ Scraped /\ M!Next => Scraped'
<1> SUFFICES ASSUME Reading, Ahead, Ahead', Scraped, M!Next PROVE Scraped'
  BY TypeParts
<1> USE DEF M!Histogram
<1>a. /\ count["duration"] \in Nat /\ count["lag"] \in Nat
      /\ count'["duration"] \in Nat /\ count'["lag"] \in Nat
      /\ count["duration"] <= count'["duration"] /\ count["lag"] <= count'["lag"]
  BY CountsGrow
<1>b. /\ executed \in Nat /\ errors \in Nat
      /\ executed <= count["duration"] /\ errors <= count["duration"]
  <2>1. Number(pc, Timed) \in Nat /\ Number(pc, Failed) \in Nat
    <3>1. Inside(pc, Timed) \in SUBSET Worker /\ Inside(pc, Failed) \in SUBSET Worker
      BY DEF Inside
    <3> QED  BY <3>1, WorkersFinite DEF Number
  <2> QED  BY <1>a, <2>1 DEF Ahead
<1>c. count["duration"] <= count["lag"]
  <2>1. Number(pc, Delayed) \in Nat
    <3>1. Inside(pc, Delayed) \in SUBSET Worker
      BY DEF Inside
    <3> QED  BY <3>1, WorkersFinite DEF Number
  <2> QED  BY <1>a, <2>1 DEF Ahead
<1>1. CASE UNCHANGED <<at, seen>>
  BY <1>a, <1>1 DEF Scraped
<1>2. CASE M!ReadExecuted
  <2>1. /\ at'.stage = "errors" /\ seen' = [M!Nothing EXCEPT !.executed = executed]
        /\ count' = count
    BY <1>2 DEF M!ReadExecuted, M!After, M!Moved, M!counters
  <2>2. /\ seen'.executed = executed /\ seen'.errors = 0
        /\ seen'.count["duration"] = 0 /\ seen'.count["lag"] = 0
    BY <2>1 DEF M!Nothing
  <2> QED  BY <1>b, <2>1, <2>2 DEF Scraped
<1>3. CASE M!ReadErrors
  <2>1. /\ at.stage = "errors" /\ at'.stage = "duration"
        /\ seen' = [seen EXCEPT !.errors = errors] /\ count' = count
    BY <1>3 DEF M!ReadErrors, M!After, M!Moved, M!counters
  <2>2. /\ seen'.executed = seen.executed /\ seen'.errors = errors /\ seen'.count = seen.count
    BY <2>1 DEF Reading
  <2> QED  BY <1>b, <2>1, <2>2 DEF Scraped
<1>4. ASSUME NEW h \in M!Histogram, M!ReadBucket(h) PROVE Scraped'
  <2>1. /\ at'.stage = at.stage /\ count' = count
        /\ seen' = [seen EXCEPT !.inf[h] = seen.inf[h] + counts[h][at.bucket]]
    BY <1>4 DEF M!ReadBucket, M!Moved, M!counters, Reading
  <2>2. /\ seen'.executed = seen.executed /\ seen'.errors = seen.errors
        /\ seen'.count = seen.count
    BY <2>1 DEF Reading
  <2> QED  BY <2>1, <2>2 DEF Scraped
<1>5. CASE M!ReadCount("duration")
  <2>1. /\ at.stage = "duration" /\ at'.stage = "lag" /\ count' = count
        /\ seen' = [seen EXCEPT !.count["duration"] = count["duration"]]
    BY <1>5 DEF M!ReadCount, M!After, M!Moved, M!counters
  <2>2. /\ seen'.executed = seen.executed /\ seen'.errors = seen.errors
        /\ seen'.count["duration"] = count["duration"]
        /\ seen'.count["lag"] = seen.count["lag"]
    BY <2>1 DEF Reading
  <2> QED  BY <1>a, <1>c, <2>1, <2>2 DEF Scraped
<1>6. CASE M!ReadCount("lag")
  <2>1. /\ at.stage = "lag" /\ at'.stage = "executed" /\ count' = count
        /\ seen' = [seen EXCEPT !.count["lag"] = count["lag"]]
    BY <1>6 DEF M!ReadCount, M!After, M!Moved, M!counters
  <2>2. /\ seen'.executed = seen.executed /\ seen'.errors = seen.errors
        /\ seen'.count["duration"] = seen.count["duration"]
        /\ seen'.count["lag"] = count["lag"]
    BY <2>1 DEF Reading
  <2> QED  BY <1>a, <2>1, <2>2 DEF Scraped
<1>7. ASSUME NEW w \in Worker, M!Begin(w) \/ M!CountCheck(w) \/ M!CountError(w)
      PROVE  UNCHANGED <<at, seen>>
  BY <1>7 DEF M!Begin, M!CountCheck, M!CountError, M!scrape
<1>8. ASSUME NEW w \in Worker, NEW h \in M!Histogram,
             M!AddBucket(w, h) \/ M!AddCount(w, h) \/ M!Load(w, h) \/ M!SwapSum(w, h)
      PROVE  UNCHANGED <<at, seen>>
  BY <1>8 DEF M!AddBucket, M!AddCount, M!Load, M!SwapSum, M!scrape
<1> QED  BY <1>1, <1>2, <1>3, <1>4, <1>5, <1>6, <1>7, <1>8 DEF M!Next

MetricsHalf == half = "metrics" => M!TypeOK /\ Ahead /\ Scraped

LEMMA MetricsHolds == Spec => []MetricsHalf
<1>1. Init => MetricsHalf
  BY InitTypes, InitMetrics DEF Init, MetricsHalf
<1>2. MetricsHalf /\ [Next]_state => MetricsHalf'
  <2> SUFFICES ASSUME MetricsHalf, [Next]_state, half' = "metrics"
               PROVE  (M!TypeOK /\ Ahead /\ Scraped)'
    BY DEF MetricsHalf
  <2>1. CASE BeaconStep
    BY <2>1 DEF BeaconStep
  <2>2. CASE MetricsStep
    BY <2>2, TypesStep, AheadStep, ScrapedStep DEF MetricsStep, MetricsHalf
  <2>3. CASE UNCHANGED state
    BY <2>3 DEF state, metrics, MetricsHalf, M!TypeOK, Ahead, Scraped, Number, Inside
  <2> QED  BY <2>1, <2>2, <2>3 DEF Next
<1> QED  BY <1>1, <1>2, PTL DEF Spec

\* Within one scrape no check is counted that was not timed, and none timed
\* whose lag was not observed, however many workers update the metrics.
THEOREM ScrapeIsOrdered == Spec => []ScrapeInOrder
<1>1. MetricsHalf => ScrapeInOrder
  BY DEF MetricsHalf, Scraped, ScrapeInOrder, M!ScrapeInOrder
<1> QED  BY <1>1, MetricsHolds, PTL

-----------------------------------------------------------------------------
(* Sums.  FoldFunction is a recursive function on the subsets of the       *)
(* domain; what is said of all of them is shown at a smallest exception.   *)

SumOf(f) == M!FoldFunction(LAMBDA x, y : x + y, 0, f)

Some(s) == CHOOSE x \in s : TRUE

\* What the sums g of the smaller sets make of the sum of s.
Adds(f, g, s) == IF s = {} THEN 0 ELSE f[Some(s)] + g[s \ {Some(s)}]

\* g has the sum of every subset of the domain S.
Summed(f, g, S) == g \in [SUBSET S -> Int] /\ \A s \in SUBSET S : g[s] = Adds(f, g, s)

LEMMA AddsUp ==
  /\ \A f, g : Adds(f, g, {}) = 0
  /\ \A f, g, s : s # {} => Some(s) \in s /\ Adds(f, g, s) = f[Some(s)] + g[s \ {Some(s)}]
  BY DEF Adds, Some

LEMMA SumUnfold ==
  ASSUME NEW f, NEW S, S = DOMAIN f
  PROVE  SumOf(f) = (CHOOSE g : g = [s \in SUBSET S |-> Adds(f, g, s)])[S]
  BY DEF SumOf, M!FoldFunction, M!FoldFunctionOnSet, M!MapThenFoldSet, Adds, Some

LEMMA Least ==
  ASSUME NEW T \in SUBSET Nat, T # {}
  PROVE  \E n \in T : \A m \in T : n <= m
<1>1. PICK n \in T : \A m \in T : ~(<<m, n>> \in OpToRel(<, Nat))
  BY NatLessThanWellFounded, WFMin, Zenon
<1>2. \A m \in T : ~(m < n)
  BY <1>1 DEF OpToRel
<1> QED  BY <1>2

\* A set of subsets that has the empty set, and every other one if it has the
\* one without its chosen element, has all of them.
LEMMA AllSubsets ==
  ASSUME NEW S, IsFiniteSet(S), NEW A \in SUBSET SUBSET S, {} \in A,
         \A s \in SUBSET S : s # {} /\ s \ {Some(s)} \in A => s \in A
  PROVE  A = SUBSET S
<1> SUFFICES ASSUME (SUBSET S) \ A # {} PROVE FALSE
  OBVIOUS
<1> DEFINE T == {Cardinality(s) : s \in (SUBSET S) \ A}
<1>1. T \in SUBSET Nat /\ T # {}
  BY FS_Subset, FS_CardinalityType
<1> HIDE DEF T
<1>2. PICK n \in T : \A m \in T : n <= m
  BY <1>1, Least
<1>3. PICK s \in (SUBSET S) \ A : Cardinality(s) = n
  BY DEF T
<1>4. s # {} /\ Some(s) \in s /\ IsFiniteSet(s)
  <2>1. s # {}
    BY <1>3
  <2>2. Some(s) \in s
    BY <2>1, AddsUp, Zenon
  <2>3. IsFiniteSet(s)
    BY <1>3, FS_Subset
  <2> QED  BY <2>1, <2>2, <2>3
<1>5. Cardinality(s \ {Some(s)}) = Cardinality(s) - 1 /\ n \in Nat
  <2>1. n \in Nat
    BY <1>1
  <2>2. Cardinality(s \ {Some(s)}) = Cardinality(s) - 1
    BY <1>4, FS_RemoveElement, ZenonT(40)
  <2> QED  BY <2>1, <2>2
<1>6. s \ {Some(s)} \in (SUBSET S) \ A
  BY <1>3, <1>4
<1>7. Cardinality(s \ {Some(s)}) \in T
  BY <1>6 DEF T
<1> QED  BY <1>2, <1>3, <1>5, <1>7

\* The sums exist: level by level.
LEMMA SumsExist ==
  ASSUME NEW S, IsFiniteSet(S), NEW f \in [S -> Int]
  PROVE  \E g : Summed(f, g, S)
<1> DEFINE Upto(n) == {s \in SUBSET S : Cardinality(s) <= n}
           Has(g, n) == g \in [SUBSET S -> Int] /\ \A s \in Upto(n) : g[s] = Adds(f, g, s)
           T == {n \in Nat : ~\E g : Has(g, n)}
<1>a. \A s \in SUBSET S : IsFiniteSet(s) /\ Cardinality(s) \in Nat
  BY FS_Subset, FS_CardinalityType
<1>1. T = {}
  <2> SUFFICES ASSUME T # {} PROVE FALSE
    OBVIOUS
  <2>1. PICK n \in T : \A m \in T : n <= m
    <3> HIDE DEF Has
    <3> QED  BY Least
  <2>2. CASE n = 0
    <3> DEFINE g == [s \in SUBSET S |-> 0]
    <3>1. \A s \in Upto(0) : s = {}
      BY <1>a, FS_EmptySet
    <3>2. Has(g, 0)
      BY <3>1 DEF Adds
    <3> QED  BY <2>1, <2>2, <3>2
  <2>3. CASE n # 0
    <3>1. n - 1 \in Nat /\ n - 1 \notin T
      <4> HIDE DEF Has
      <4>1. n - 1 \in Nat /\ n \in Nat
        BY <2>1, <2>3
      <4> QED  BY <2>1, <4>1
    <3>2. PICK g : Has(g, n - 1)
      BY <3>1
    <3> DEFINE h == [s \in SUBSET S |-> IF Cardinality(s) <= n - 1 THEN g[s]
                                        ELSE IF s \in Upto(n) THEN Adds(f, g, s) ELSE 0]
    <3>3. ASSUME NEW s \in Upto(n) PROVE h[s] \in Int /\ h[s] = Adds(f, h, s)
      <4>1. CASE s = {}
        <5>1. Cardinality(s) = 0
          BY <4>1, FS_EmptySet
        <5>2. g[s] = 0
          BY <3>1, <3>2, <4>1, <5>1 DEF Adds
        <5> QED  BY <3>1, <4>1, <5>1, <5>2 DEF Adds
      <4>2. CASE s # {}
        <5> DEFINE r == s \ {Some(s)}
        <5>1. Some(s) \in s /\ r \in SUBSET S
          BY <4>2 DEF Some
        <5>2. Cardinality(r) = Cardinality(s) - 1
          BY <1>a, <5>1, FS_RemoveElement
        <5>3. r \in Upto(n - 1) /\ g[r] \in Int /\ h[r] = g[r]
          BY <1>a, <3>1, <3>2, <5>1, <5>2
        <5>4. Adds(f, h, s) = Adds(f, g, s)
          BY <4>2, <5>3 DEF Adds
        <5>5. Adds(f, g, s) \in Int
          BY <4>2, <5>1, <5>3 DEF Adds
        <5>6. h[s] = Adds(f, g, s)
          <6>1. CASE Cardinality(s) <= n - 1
            BY <3>2, <6>1
          <6>2. CASE ~(Cardinality(s) <= n - 1)
            BY <6>2
          <6> QED  BY <6>1, <6>2
        <5> QED  BY <5>4, <5>5, <5>6
      <4> QED  BY <4>1, <4>2
    <3>4. Has(h, n)
      <4>1. h \in [SUBSET S -> Int]
        <5>1. \A s \in SUBSET S : h[s] \in Int
          <6>1. \A s \in Upto(n) : h[s] \in Int
            BY <3>3
          <6>2. \A s \in SUBSET S : s \notin Upto(n) => h[s] = 0
            BY <1>a, <3>1
          <6> HIDE DEF h, Upto
          <6>3. ASSUME NEW s \in SUBSET S PROVE h[s] \in Int
            BY <6>1, <6>2
          <6> QED  BY <6>3
        <5> QED  BY <5>1
      <4> HIDE DEF h
      <4> QED  BY <3>3, <4>1
    <3> QED  BY <2>1, <3>4
  <2> QED  BY <2>2, <2>3
<1>2. Cardinality(S) \in Nat
  BY FS_CardinalityType
<1>3. PICK g : Has(g, Cardinality(S))
  BY <1>1, <1>2
<1>4. Upto(Cardinality(S)) = SUBSET S
  BY FS_Subset
<1> QED  BY <1>3, <1>4 DEF Summed

LEMMA SumIsSum ==
  ASSUME NEW S, IsFiniteSet(S), NEW f \in [S -> Int]
  PROVE  \E g : Summed(f, g, S) /\ SumOf(f) = g[S]
<1> DEFINE c == CHOOSE g : g = [s \in SUBSET S |-> Adds(f, g, s)]
<1>1. PICK g : Summed(f, g, S)
  BY SumsExist
<1>2. g = [s \in SUBSET S |-> Adds(f, g, s)]
  BY <1>1 DEF Summed
<1>3. c = [s \in SUBSET S |-> Adds(f, c, s)]
  BY <1>2
<1>4. SumOf(f) = c[S]
  BY SumUnfold
<1> HIDE DEF c
<1>5. DOMAIN c = SUBSET S /\ \A s \in SUBSET S : c[s] = Adds(f, c, s)
  BY <1>3
<1> DEFINE A == {s \in SUBSET S : c[s] \in Int}
<1>6. {} \in A
  BY <1>5, AddsUp
<1>7. ASSUME NEW s \in SUBSET S, s # {}, s \ {Some(s)} \in A PROVE s \in A
  <2>1. Some(s) \in s /\ c[s] = f[Some(s)] + c[s \ {Some(s)}]
    <3>1. Some(s) \in s /\ Adds(f, c, s) = f[Some(s)] + c[s \ {Some(s)}]
      BY <1>7, AddsUp, Zenon
    <3> QED  BY <1>5, <3>1
  <2> QED  BY <1>7, <2>1
<1>8. A = SUBSET S
  <2> HIDE DEF A
  <2>1. A \in SUBSET SUBSET S
    BY DEF A
  <2> QED  BY <1>6, <1>7, <2>1, AllSubsets
<1>9. c \in [SUBSET S -> Int]
  <2>1. \A s \in SUBSET S : Adds(f, c, s) \in Int
    BY <1>5, <1>8
  <2> QED  BY <1>3, <2>1
<1> QED  BY <1>4, <1>5, <1>9 DEF Summed

LEMMA SumType ==
  ASSUME NEW S, IsFiniteSet(S), NEW f \in [S -> Int]
  PROVE  SumOf(f) \in Int
<1>1. PICK g : Summed(f, g, S) /\ SumOf(f) = g[S]
  BY SumIsSum
<1> QED  BY <1>1 DEF Summed

\* One summand changes.
LEMMA SumChanges ==
  ASSUME NEW S, IsFiniteSet(S), NEW f \in [S -> Int], NEW h \in [S -> Int],
         NEW b \in S, \A x \in S \ {b} : h[x] = f[x]
  PROVE  SumOf(h) = SumOf(f) + (h[b] - f[b])
<1>1. PICK g : Summed(f, g, S) /\ SumOf(f) = g[S]
  BY SumIsSum
<1>2. PICK k : Summed(h, k, S) /\ SumOf(h) = k[S]
  BY SumIsSum
<1> DEFINE A == {s \in SUBSET S : k[s] = g[s] + IF b \in s THEN h[b] - f[b] ELSE 0}
<1>3. {} \in A
  BY <1>1, <1>2, AddsUp DEF Summed
<1>4. ASSUME NEW s \in SUBSET S, s # {}, s \ {Some(s)} \in A PROVE s \in A
  <2> DEFINE x == Some(s)
             r == s \ {x}
  <2>1. x \in s /\ r \in SUBSET S
    BY <1>4 DEF Some
  <2>2. /\ g[s] = f[x] + g[r] /\ k[s] = h[x] + k[r]
        /\ g[s] \in Int /\ k[s] \in Int /\ g[r] \in Int /\ k[r] \in Int
    BY <1>1, <1>2, <1>4, <2>1 DEF Summed, Adds
  <2>3. k[r] = g[r] + IF b \in r THEN h[b] - f[b] ELSE 0
    BY <1>4
  <2> HIDE DEF x
  <2>4. x \in S /\ f[x] \in Int /\ h[x] \in Int /\ f[b] \in Int /\ h[b] \in Int
    BY <2>1
  <2>5. CASE x = b
    BY <2>1, <2>2, <2>3, <2>4, <2>5
  <2>6. CASE x # b
    BY <2>1, <2>2, <2>3, <2>4, <2>6
  <2> QED  BY <2>5, <2>6
<1>5. A = SUBSET S
  <2>1. A \in SUBSET SUBSET S
    OBVIOUS
  <2> HIDE DEF A
  <2> QED  BY <1>3, <1>4, <2>1, AllSubsets
<1> QED  BY <1>1, <1>2, <1>5

\* Smaller summands, a smaller sum.
LEMMA SumOrdered ==
  ASSUME NEW S, IsFiniteSet(S), NEW f \in [S -> Int], NEW h \in [S -> Int],
         \A x \in S : f[x] <= h[x]
  PROVE  SumOf(f) <= SumOf(h)
<1>1. PICK g : Summed(f, g, S) /\ SumOf(f) = g[S]
  BY SumIsSum
<1>2. PICK k : Summed(h, k, S) /\ SumOf(h) = k[S]
  BY SumIsSum
<1> DEFINE A == {s \in SUBSET S : g[s] <= k[s]}
<1>3. {} \in A
  BY <1>1, <1>2, AddsUp DEF Summed
<1>4. ASSUME NEW s \in SUBSET S, s # {}, s \ {Some(s)} \in A PROVE s \in A
  <2> DEFINE x == Some(s)
             r == s \ {x}
  <2>1. x \in s /\ r \in SUBSET S
    BY <1>4 DEF Some
  <2>2. /\ g[s] = f[x] + g[r] /\ k[s] = h[x] + k[r]
        /\ g[s] \in Int /\ k[s] \in Int /\ g[r] \in Int /\ k[r] \in Int
    BY <1>1, <1>2, <1>4, <2>1 DEF Summed, Adds
  <2>3. g[r] <= k[r]
    BY <1>4
  <2> HIDE DEF x
  <2>4. f[x] \in Int /\ h[x] \in Int /\ f[x] <= h[x]
    BY <2>1
  <2> QED  BY <2>2, <2>3, <2>4
<1>5. A = SUBSET S
  <2>1. A \in SUBSET SUBSET S
    OBVIOUS
  <2> HIDE DEF A
  <2> QED  BY <1>3, <1>4, <2>1, AllSubsets
<1> QED  BY <1>1, <1>2, <1>5

\* Nothing adds up to nothing.
LEMMA SumZero ==
  ASSUME NEW S, IsFiniteSet(S), NEW f \in [S -> Int], \A x \in S : f[x] = 0
  PROVE  SumOf(f) = 0
<1>1. PICK g : Summed(f, g, S) /\ SumOf(f) = g[S]
  BY SumIsSum
<1> DEFINE A == {s \in SUBSET S : g[s] = 0}
<1>3. {} \in A
  BY <1>1, AddsUp DEF Summed
<1>4. ASSUME NEW s \in SUBSET S, s # {}, s \ {Some(s)} \in A PROVE s \in A
  <2>1. Some(s) \in s
    BY <1>4 DEF Some
  <2> QED  BY <1>1, <1>4, <2>1 DEF Summed, Adds
<1>5. A = SUBSET S
  <2>1. A \in SUBSET SUBSET S
    OBVIOUS
  <2> HIDE DEF A
  <2> QED  BY <1>3, <1>4, <2>1, AllSubsets
<1> QED  BY <1>1, <1>5

-----------------------------------------------------------------------------
(* What is observed is counted. *)

\* Inside Observe: the bucket is counted, the count not yet; the sum not yet.
Uncounted(h) == {M!At("count", h)}
Unadded(h) == {M!At("count", h), M!At("load", h), M!At("swap", h)}

\* What the workers at f still have to add to the sum, of the values in val.
Part(f, val, h, w) == IF f[w] \in Unadded(h) THEN val[w] ELSE 0
Pending(f, val, h) == [w \in Worker |-> Part(f, val, h, w)]

\* The buckets before the k-th.
Before(c, k) == [b \in M!Bucket |-> IF b < k THEN c[b] ELSE 0]

\* The buckets are ahead of the count, and the sum is behind what was observed,
\* by the observations that are under way.
Agreed ==
    \A h \in M!Histogram :
        /\ SumOf(counts[h]) = count[h] + Number(pc, Uncounted(h))
        /\ sum[h] + SumOf(Pending(pc, value, h)) = total[h]

\* The scrape has added up no more than the buckets it has passed hold by now,
\* and once it has read the count, no more than one for every worker beyond it.
AddedUp ==
    \A h \in M!Histogram :
        /\ at.stage = h => seen.inf[h] <= SumOf(Before(counts[h], at.bucket))
        /\ at.stage # h => seen.inf[h] <= seen.count[h] + Cardinality(Worker)
        /\ at.stage = "errors" => seen.inf[h] = 0
        /\ at.stage = "duration" => seen.inf["lag"] = 0

LEMMA Finite == IsFiniteSet(Worker) /\ IsFiniteSet(M!Bucket) /\ Cardinality(Worker) \in Nat
<1>1. IsFiniteSet(M!Bucket)
  BY InfIs, FS_Interval DEF M!Bucket
<1> QED  BY <1>1, WorkersFinite

LEMMA BucketOfType ==
  ASSUME NEW v \in Int PROVE M!BucketOf(v) \in M!Bucket
<1> DEFINE fits == {b \in DOMAIN Bounds : v <= Bounds[b]}
<1>1. DOMAIN Bounds = 1 .. Len(Bounds) /\ Len(Bounds) \in Nat
  BY DEF M!ConstantsOK
<1>2. CASE fits = {}
  BY <1>1, <1>2 DEF M!BucketOf, M!Bucket, M!Inf
<1>3. CASE fits # {}
  <2>1. fits \in SUBSET Nat
    BY <1>1
  <2>2. \E n \in fits : \A m \in fits : n <= m
    <3> HIDE DEF fits
    <3> QED  BY <1>3, <2>1, Least
  <2>3. M!Min(fits) \in fits
    <3> HIDE DEF fits
    <3> QED  BY <2>2 DEF M!Min
  <2>4. M!BucketOf(v) = M!Min(fits)
    BY <1>3 DEF M!BucketOf
  <2> QED  BY <1>1, <2>3, <2>4 DEF M!Bucket, M!Inf
<1> QED  BY <1>2, <1>3

LEMMA PendingType ==
  ASSUME NEW f, NEW val \in [Worker -> Int], NEW h
  PROVE  Pending(f, val, h) \in [Worker -> Int] /\ SumOf(Pending(f, val, h)) \in Int
<1>1. Pending(f, val, h) \in [Worker -> Int]
  BY DEF Pending, Part
<1> QED  BY <1>1, SumType, Finite

\* One worker moves on, or observes another value.
LEMMA PendingChanges ==
  ASSUME NEW f, NEW g, NEW val \in [Worker -> Int], NEW new \in [Worker -> Int], NEW h,
         NEW w \in Worker, \A v \in Worker \ {w} : g[v] = f[v] /\ new[v] = val[v]
  PROVE  SumOf(Pending(g, new, h)) = SumOf(Pending(f, val, h)) + (Part(g, new, h, w) - Part(f, val, h, w))
<1>1. Pending(f, val, h) \in [Worker -> Int] /\ Pending(g, new, h) \in [Worker -> Int]
  BY PendingType
<1>2. \A v \in Worker \ {w} : Pending(g, new, h)[v] = Pending(f, val, h)[v]
  BY DEF Pending, Part
<1>3. Pending(f, val, h)[w] = Part(f, val, h, w) /\ Pending(g, new, h)[w] = Part(g, new, h, w)
  BY DEF Pending
<1> QED  BY <1>1, <1>2, <1>3, SumChanges, Finite

LEMMA InPlaces ==
  ASSUME NEW s, NEW h, NEW k
  PROVE  /\ M!At(s, h) \in Uncounted(k) <=> h = k /\ s = "count"
         /\ M!At(s, h) \in Unadded(k) <=> h = k /\ s \in {"count", "load", "swap"}
<1>1. \A t, g : M!At(s, h) = M!At(t, g) <=> s = t /\ h = g
  BY Places
<1> QED  BY <1>1 DEF Uncounted, Unadded

LEMMA InitAgreed == M!Init => Agreed /\ AddedUp
<1> SUFFICES ASSUME M!Init PROVE Agreed /\ AddedUp
  OBVIOUS
<1>1. ASSUME NEW h \in M!Histogram
      PROVE  /\ SumOf(counts[h]) = count[h] + Number(pc, Uncounted(h))
             /\ sum[h] + SumOf(Pending(pc, value, h)) = total[h]
  <2>1. counts[h] \in [M!Bucket -> Int] /\ \A b \in M!Bucket : counts[h][b] = 0
    BY DEF M!Init
  <2>2. SumOf(counts[h]) = 0
    BY <2>1, SumZero, Finite
  <2>3. value \in [Worker -> Int] /\ \A w \in Worker : value[w] = 0
    BY DEF M!Init
  <2>4. Pending(pc, value, h) \in [Worker -> Int] /\ \A w \in Worker : Pending(pc, value, h)[w] = 0
    BY <2>3 DEF Pending, Part
  <2>5. SumOf(Pending(pc, value, h)) = 0
    BY <2>4, SumZero, Finite
  <2>6. \A w \in Worker : pc[w] \notin Uncounted(h)
    <3>1. M!At("idle", "none") \notin Uncounted(h)
      BY InPlaces
    <3> QED  BY <3>1 DEF M!Init
  <2>7. Number(pc, Uncounted(h)) = 0
    BY <2>6, NoneThere
  <2>8. count[h] = 0 /\ sum[h] = 0 /\ total[h] = 0
    BY DEF M!Init
  <2> QED  BY <2>2, <2>5, <2>7, <2>8
<1>2. AddedUp
  BY Finite DEF M!Init, M!Nothing, AddedUp, M!Histogram
<1> QED  BY <1>1, <1>2 DEF Agreed

\* Every step of a worker keeps the account; every step of the scrape leaves it.
LEMMA AgreedStep == M!TypeOK /\ Ahead /\ Agreed /\ M!Next => Agreed'
<1> SUFFICES ASSUME Counters, Sums, Ahead, Agreed, M!Next, NEW k \in M!Histogram
             PROVE  /\ SumOf(counts'[k]) = count'[k] + Number(pc', Uncounted(k))
                    /\ sum'[k] + SumOf(Pending(pc', value', k)) = total'[k]
  BY TypeParts DEF Agreed
<1> USE DEF Steps, Objects
<1>a. /\ counts \in [M!Histogram -> [M!Bucket -> Nat]] /\ count[k] \in Nat
      /\ sum[k] \in Int /\ total[k] \in Int /\ value \in [Worker -> Int]
      /\ SumOf(counts[k]) = count[k] + Number(pc, Uncounted(k))
      /\ sum[k] + SumOf(Pending(pc, value, k)) = total[k]
  BY DEF Counters, Sums, Agreed
<1>b. SumOf(Pending(pc, value, k)) \in Int
  BY <1>a, PendingType
<1>c. ASSUME NEW w \in Worker, NEW s, NEW h, pc[w] = M!At(s, h),
             NEW t \in Steps, NEW g \in Objects, M!Goto(w, t, g)
      PROVE  pc'[w] = M!At(t, g) /\ \A v \in Worker \ {w} : pc'[v] = pc[v]
  BY <1>c DEF M!Goto, Ahead
<1>1. ASSUME NEW w \in Worker, M!Begin(w) \/ M!CountCheck(w) \/ M!CountError(w)
      PROVE  /\ SumOf(counts'[k]) = count'[k] + Number(pc', Uncounted(k))
             /\ sum'[k] + SumOf(Pending(pc', value', k)) = total'[k]
  <2>1. UNCHANGED <<counts, count, sum, value, total>>
    BY <1>1 DEF M!Begin, M!CountCheck, M!CountError, M!counters, M!history
  <2>2. PICK s \in {"idle", "executed", "error"}, t \in Steps, g \in Objects :
            /\ pc[w] = M!At(s, "none") /\ M!Goto(w, t, g)
            /\ ~(t \in {"count", "load", "swap"})
    BY <1>1 DEF M!Begin, M!CountCheck, M!CountError
  <2>3. k # "none"
    BY DEF M!Histogram
  <2>4. Number(pc', Uncounted(k)) = Number(pc, Uncounted(k))
    BY <2>2, <2>3, GoesOn, InPlaces
  <2>5. pc[w] \notin Unadded(k) /\ pc'[w] \notin Unadded(k)
    BY <1>c, <2>2, <2>3, InPlaces
  <2>6. SumOf(Pending(pc', value', k)) = SumOf(Pending(pc, value, k)) + (0 - 0)
    <3>1. \A v \in Worker \ {w} : pc'[v] = pc[v] /\ value'[v] = value[v]
      BY <1>c, <2>1, <2>2
    <3>2. value \in [Worker -> Int] /\ value' \in [Worker -> Int]
      BY <1>a, <2>1
    <3>3. SumOf(Pending(pc', value', k))
            = SumOf(Pending(pc, value, k)) + (Part(pc', value', k, w) - Part(pc, value, k, w))
      BY <3>1, <3>2, PendingChanges
    <3> QED  BY <2>5, <3>3 DEF Part
  <2> QED  BY <1>a, <1>b, <2>1, <2>4, <2>6
<1>2. ASSUME NEW w \in Worker, NEW h \in M!Histogram, M!AddBucket(w, h)
      PROVE  /\ SumOf(counts'[k]) = count'[k] + Number(pc', Uncounted(k))
             /\ sum'[k] + SumOf(Pending(pc', value', k)) = total'[k]
  <2>1. PICK v \in Values :
            /\ value' = [value EXCEPT ![w] = v]
            /\ counts' = [counts EXCEPT ![h][M!BucketOf(v)] = @ + 1]
            /\ total' = [total EXCEPT ![h] = @ + v]
    BY <1>2 DEF M!AddBucket
  <2>2. /\ pc[w] = M!At("bucket", h) /\ M!Goto(w, "count", h) /\ h \in Objects
        /\ UNCHANGED <<count, sum>>
    BY <1>2 DEF M!AddBucket, M!Histogram
  <2>3. v \in Int /\ M!BucketOf(v) \in M!Bucket
    BY BucketOfType DEF M!ConstantsOK
  <2> DEFINE b == M!BucketOf(v)
  <2>4. /\ value' \in [Worker -> Int] /\ value'[w] = v
        /\ \A u \in Worker \ {w} : value'[u] = value[u]
    BY <1>a, <2>1, <2>3
  <2>5. CASE h = k
    <3>1. /\ counts'[k] \in [M!Bucket -> Int] /\ counts[k] \in [M!Bucket -> Int]
          /\ counts'[k][b] = counts[k][b] + 1 /\ counts[k][b] \in Nat
          /\ \A x \in M!Bucket \ {b} : counts'[k][x] = counts[k][x]
      BY <1>a, <2>1, <2>3, <2>5
    <3>2. SumOf(counts'[k]) = SumOf(counts[k]) + (counts'[k][b] - counts[k][b])
      BY <2>3, <3>1, SumChanges, Finite
    <3>3. Number(pc', Uncounted(k)) = Number(pc, Uncounted(k)) + 1 /\ Number(pc, Uncounted(k)) \in Nat
      BY <2>2, <2>5, GoesOn, InPlaces
    <3>4. pc[w] \notin Unadded(k) /\ pc'[w] \in Unadded(k)
      BY <1>c, <2>2, <2>5, InPlaces
    <3>5. SumOf(Pending(pc', value', k)) = SumOf(Pending(pc, value, k)) + (v - 0)
      <4>1. \A u \in Worker \ {w} : pc'[u] = pc[u] /\ value'[u] = value[u]
        BY <1>c, <2>2, <2>4
      <4>2. SumOf(Pending(pc', value', k))
              = SumOf(Pending(pc, value, k)) + (Part(pc', value', k, w) - Part(pc, value, k, w))
        BY <1>a, <2>4, <4>1, PendingChanges
      <4> QED  BY <2>4, <3>4, <4>2 DEF Part
    <3>6. total'[k] = total[k] + v
      BY <2>1, <2>5 DEF Sums
    <3>7. counts'[k][b] - counts[k][b] = 1
      BY <3>1
    <3> QED  BY <1>a, <1>b, <2>2, <2>3, <3>2, <3>3, <3>5, <3>6, <3>7
  <2>6. CASE h # k
    <3>1. counts'[k] = counts[k] /\ total'[k] = total[k]
      BY <1>a, <2>1, <2>6 DEF Sums
    <3>2. Number(pc', Uncounted(k)) = Number(pc, Uncounted(k))
      BY <2>2, <2>6, GoesOn, InPlaces
    <3>3. pc[w] \notin Unadded(k) /\ pc'[w] \notin Unadded(k)
      BY <1>c, <2>2, <2>6, InPlaces
    <3>4. SumOf(Pending(pc', value', k)) = SumOf(Pending(pc, value, k)) + (0 - 0)
      <4>1. \A u \in Worker \ {w} : pc'[u] = pc[u] /\ value'[u] = value[u]
        BY <1>c, <2>2, <2>4
      <4>2. SumOf(Pending(pc', value', k))
              = SumOf(Pending(pc, value, k)) + (Part(pc', value', k, w) - Part(pc, value, k, w))
        BY <1>a, <2>4, <4>1, PendingChanges
      <4> QED  BY <3>3, <4>2 DEF Part
    <3> QED  BY <1>a, <1>b, <2>2, <3>1, <3>2, <3>4
  <2> QED  BY <2>5, <2>6
<1>3. ASSUME NEW w \in Worker, NEW h \in M!Histogram, M!AddCount(w, h)
      PROVE  /\ SumOf(counts'[k]) = count'[k] + Number(pc', Uncounted(k))
             /\ sum'[k] + SumOf(Pending(pc', value', k)) = total'[k]
  <2>1. /\ pc[w] = M!At("count", h) /\ M!Goto(w, "load", h) /\ h \in Objects
        /\ count' = [count EXCEPT ![h] = @ + 1]
        /\ UNCHANGED <<counts, sum, value, total>>
    BY <1>3 DEF M!AddCount, M!Histogram, M!history
  <2>2. /\ Number(pc, Uncounted(k)) \in Nat
        /\ Number(pc', Uncounted(k)) = IF h = k THEN Number(pc, Uncounted(k)) - 1
                                       ELSE Number(pc, Uncounted(k))
    BY <2>1, GoesOn, InPlaces
  <2>3. count'[k] = IF h = k THEN count[k] + 1 ELSE count[k]
    BY <2>1 DEF Counters
  <2>4. value[w] \in Int /\ (pc[w] \in Unadded(k) <=> h = k) /\ (pc'[w] \in Unadded(k) <=> h = k)
    BY <1>a, <1>c, <2>1, InPlaces
  <2> DEFINE a == IF h = k THEN value[w] ELSE 0
  <2>5. SumOf(Pending(pc', value', k)) = SumOf(Pending(pc, value, k)) + (a - a) /\ a \in Int
    <3>1. value' = value /\ value' \in [Worker -> Int]
      BY <1>a, <2>1
    <3>2. a \in Int /\ a = Part(pc, value, k, w) /\ a = Part(pc', value', k, w)
      BY <2>4, <3>1 DEF Part
    <3>3. \A v \in Worker \ {w} : pc'[v] = pc[v] /\ value'[v] = value[v]
      BY <1>c, <2>1, <3>1
    <3> HIDE DEF a
    <3>4. SumOf(Pending(pc', value', k))
            = SumOf(Pending(pc, value, k)) + (Part(pc', value', k, w) - Part(pc, value, k, w))
      BY <1>a, <3>1, <3>3, PendingChanges
    <3> QED  BY <3>2, <3>4
  <2> HIDE DEF a
  <2> QED  BY <1>a, <1>b, <2>1, <2>2, <2>3, <2>4, <2>5
<1>4. ASSUME NEW w \in Worker, NEW h \in M!Histogram, M!Goto(w, "load", h) \/ M!Goto(w, "swap", h),
             pc[w] \in {M!At("load", h), M!At("swap", h)},
             UNCHANGED <<counts, count, sum, value, total>>
      PROVE  /\ SumOf(counts'[k]) = count'[k] + Number(pc', Uncounted(k))
             /\ sum'[k] + SumOf(Pending(pc', value', k)) = total'[k]
  <2>1. PICK s \in {"load", "swap"}, t \in {"load", "swap"} : pc[w] = M!At(s, h) /\ M!Goto(w, t, h)
    BY <1>4
  <2>2. h \in Objects
    BY DEF M!Histogram
  <2>3. Number(pc', Uncounted(k)) = Number(pc, Uncounted(k))
    BY <2>1, <2>2, GoesOn, InPlaces
  <2>4. value[w] \in Int /\ (pc[w] \in Unadded(k) <=> h = k) /\ (pc'[w] \in Unadded(k) <=> h = k)
    BY <1>a, <1>c, <2>1, <2>2, InPlaces
  <2> DEFINE a == IF h = k THEN value[w] ELSE 0
  <2>5. SumOf(Pending(pc', value', k)) = SumOf(Pending(pc, value, k)) + (a - a) /\ a \in Int
    <3>1. value' = value /\ value' \in [Worker -> Int]
      BY <1>a, <1>4
    <3>2. a \in Int /\ a = Part(pc, value, k, w) /\ a = Part(pc', value', k, w)
      BY <2>4, <3>1 DEF Part
    <3>3. \A v \in Worker \ {w} : pc'[v] = pc[v] /\ value'[v] = value[v]
      BY <1>c, <2>1, <2>2, <3>1
    <3> HIDE DEF a
    <3>4. SumOf(Pending(pc', value', k))
            = SumOf(Pending(pc, value, k)) + (Part(pc', value', k, w) - Part(pc, value, k, w))
      BY <1>a, <3>1, <3>3, PendingChanges
    <3> QED  BY <3>2, <3>4
  <2> HIDE DEF a
  <2> QED  BY <1>4, <1>a, <1>b, <2>3, <2>4, <2>5
<1>5. ASSUME NEW w \in Worker, NEW h \in M!Histogram, M!Load(w, h)
      PROVE  /\ SumOf(counts'[k]) = count'[k] + Number(pc', Uncounted(k))
             /\ sum'[k] + SumOf(Pending(pc', value', k)) = total'[k]
  BY <1>4, <1>5 DEF M!Load, M!counters, M!history
<1>6. ASSUME NEW w \in Worker, NEW h \in M!Histogram, M!SwapSum(w, h)
      PROVE  /\ SumOf(counts'[k]) = count'[k] + Number(pc', Uncounted(k))
             /\ sum'[k] + SumOf(Pending(pc', value', k)) = total'[k]
  <2>0. CASE sum[h] # old[w]
    BY <1>4, <1>6, <2>0 DEF M!SwapSum, M!history
  <2>1. CASE sum[h] = old[w]
    <3>1. /\ pc[w] = M!At("swap", h) /\ sum' = [sum EXCEPT ![h] = sum[h] + value[w]]
          /\ value' = [value EXCEPT ![w] = 0] /\ UNCHANGED <<counts, count, total>>
      BY <1>6, <2>1 DEF M!SwapSum, M!Returns, M!history
    <3>2. PICK t \in {"bucket", "executed"}, g \in Objects : M!Goto(w, t, g)
      BY <1>6, <2>1 DEF M!SwapSum, M!Returns
    <3>3. Number(pc', Uncounted(k)) = Number(pc, Uncounted(k))
      BY <3>1, <3>2, GoesOn, InPlaces
    <3>4. (pc[w] \in Unadded(k) <=> h = k) /\ pc'[w] \notin Unadded(k)
      BY <1>c, <3>1, <3>2, InPlaces
    <3>5. /\ value' \in [Worker -> Int] /\ value[w] \in Int
          /\ \A u \in Worker \ {w} : value'[u] = value[u]
      BY <1>a, <3>1
    <3>6. sum'[k] = IF h = k THEN sum[k] + value[w] ELSE sum[k]
      BY <3>1 DEF Sums
    <3> DEFINE a == IF h = k THEN value[w] ELSE 0
    <3>7. SumOf(Pending(pc', value', k)) = SumOf(Pending(pc, value, k)) + (0 - a)
      <4>1. a = Part(pc, value, k, w) /\ Part(pc', value', k, w) = 0
        BY <3>4, <3>5 DEF Part
      <4>2. \A u \in Worker \ {w} : pc'[u] = pc[u] /\ value'[u] = value[u]
        BY <1>c, <3>1, <3>2, <3>5
      <4> HIDE DEF a
      <4>3. SumOf(Pending(pc', value', k))
              = SumOf(Pending(pc, value, k)) + (Part(pc', value', k, w) - Part(pc, value, k, w))
        BY <1>a, <3>5, <4>2, PendingChanges
      <4> QED  BY <4>1, <4>3
    <3> QED  BY <1>a, <1>b, <3>1, <3>3, <3>5, <3>6, <3>7
  <2> QED  BY <2>0, <2>1
<1>7. CASE M!Moved
  BY <1>7, <1>a DEF M!Moved, M!counters, M!worker, M!history
<1>8. ASSUME NEW h \in M!Histogram, M!ReadBucket(h) \/ M!ReadCount(h) PROVE M!Moved
  BY <1>8 DEF M!ReadBucket, M!ReadCount
<1>9. ASSUME M!ReadExecuted \/ M!ReadErrors PROVE M!Moved
  BY <1>9 DEF M!ReadExecuted, M!ReadErrors
<1> QED  BY <1>1, <1>2, <1>3, <1>5, <1>6, <1>7, <1>8, <1>9 DEF M!Next

LEMMA BeforeType ==
  ASSUME NEW c \in [M!Bucket -> Nat], NEW k \in Int
  PROVE  Before(c, k) \in [M!Bucket -> Int] /\ SumOf(Before(c, k)) \in Int
<1>1. Before(c, k) \in [M!Bucket -> Int]
  BY DEF Before
<1> QED  BY <1>1, SumType, Finite

\* No bucket is passed, one more, all of them.
LEMMA BeforeFirst ==
  ASSUME NEW c \in [M!Bucket -> Nat] PROVE SumOf(Before(c, 1)) = 0
<1>1. Before(c, 1) \in [M!Bucket -> Int] /\ \A b \in M!Bucket : Before(c, 1)[b] = 0
  BY InfIs DEF Before, M!Bucket
<1> QED  BY <1>1, SumZero, Finite

LEMMA BeforeNext ==
  ASSUME NEW c \in [M!Bucket -> Nat], NEW k \in M!Bucket
  PROVE  SumOf(Before(c, k + 1)) = SumOf(Before(c, k)) + c[k]
<1>1. k \in Int /\ k + 1 \in Int /\ c[k] \in Int
  BY InfIs DEF M!Bucket
<1>2. Before(c, k) \in [M!Bucket -> Int] /\ Before(c, k + 1) \in [M!Bucket -> Int]
      /\ SumOf(Before(c, k)) \in Int
  BY <1>1, BeforeType
<1>3. /\ \A b \in M!Bucket \ {k} : Before(c, k + 1)[b] = Before(c, k)[b]
      /\ Before(c, k + 1)[k] = c[k] /\ Before(c, k)[k] = 0
  BY InfIs DEF Before, M!Bucket
<1>4. SumOf(Before(c, k + 1)) = SumOf(Before(c, k)) + (Before(c, k + 1)[k] - Before(c, k)[k])
  BY <1>2, <1>3, SumChanges, Finite
<1> QED  BY <1>1, <1>2, <1>3, <1>4

LEMMA BeforeLast ==
  ASSUME NEW c \in [M!Bucket -> Nat] PROVE Before(c, M!Inf + 1) = c
  BY InfIs DEF Before, M!Bucket

LEMMA BeforeGrows ==
  ASSUME NEW c \in [M!Bucket -> Nat], NEW d \in [M!Bucket -> Nat], \A b \in M!Bucket : c[b] <= d[b],
         NEW k \in Int
  PROVE  SumOf(Before(c, k)) <= SumOf(Before(d, k))
<1>1. Before(c, k) \in [M!Bucket -> Int] /\ Before(d, k) \in [M!Bucket -> Int]
  BY BeforeType
<1>2. \A b \in M!Bucket : Before(c, k)[b] <= Before(d, k)[b]
  BY <1>1 DEF Before
<1> QED  BY <1>1, <1>2, SumOrdered, Finite

LEMMA NumberOfWorkers ==
  ASSUME NEW f, NEW P PROVE Number(f, P) \in Nat /\ Number(f, P) <= Cardinality(Worker)
<1>1. Inside(f, P) \in SUBSET Worker
  BY DEF Inside
<1> QED  BY <1>1, WorkersFinite, Finite, FS_Subset DEF Number

\* Every step keeps what the scrape has added up behind the buckets.
LEMMA AddedUpStep == M!TypeOK /\ M!TypeOK' /\ Agreed /\ AddedUp /\ M!Next => AddedUp'
<1> SUFFICES ASSUME Counters, Counters', Reading, Agreed, AddedUp, M!Next PROVE AddedUp'
  BY TypeParts DEF M!TypeOK, Counters, M!Histogram, M!Bucket, M!Inf
<1>a. /\ counts \in [M!Histogram -> [M!Bucket -> Nat]] /\ counts' \in [M!Histogram -> [M!Bucket -> Nat]]
      /\ M!Histogram = {"lag", "duration"} /\ Cardinality(Worker) \in Nat
      /\ seen.inf \in [M!Histogram -> Nat] /\ seen.count \in [M!Histogram -> Nat]
      /\ at.stage \in {"executed", "errors", "duration", "lag"} /\ at.bucket \in 1 .. M!Inf + 1
      /\ at.bucket \in Int
  <2>1. counts' \in [M!Histogram -> [M!Bucket -> Nat]]
    BY DEF Counters
  <2> QED  BY <2>1, Finite, InfIs DEF Counters, Reading, M!Histogram
<1>1. CASE UNCHANGED <<at, seen>> /\ \A h \in M!Histogram, b \in M!Bucket : counts[h][b] <= counts'[h][b]
  <2> SUFFICES ASSUME NEW h \in M!Histogram, at.stage = h
               PROVE  seen.inf[h] <= SumOf(Before(counts'[h], at.bucket))
    BY <1>1 DEF AddedUp
  <2>1. seen.inf[h] <= SumOf(Before(counts[h], at.bucket)) /\ seen.inf[h] \in Int
    BY <1>a DEF AddedUp
  <2>2. SumOf(Before(counts[h], at.bucket)) <= SumOf(Before(counts'[h], at.bucket))
    BY <1>a, <1>1, BeforeGrows
  <2>3. SumOf(Before(counts[h], at.bucket)) \in Int /\ SumOf(Before(counts'[h], at.bucket)) \in Int
    BY <1>a, BeforeType
  <2> QED  BY <2>1, <2>2, <2>3
<1>2. CASE M!ReadExecuted
  <2>1. /\ at'.stage = "errors" /\ \A h \in M!Histogram : seen'.inf[h] = 0 /\ seen'.count[h] = 0
    BY <1>2 DEF M!ReadExecuted, M!After, M!Nothing
  <2> QED  BY <1>a, <2>1 DEF AddedUp
<1>3. CASE M!ReadErrors
  <2>1. /\ at.stage = "errors" /\ at'.stage = "duration" /\ at'.bucket = 1
        /\ counts' = counts /\ seen'.inf = seen.inf /\ seen'.count = seen.count
    BY <1>3 DEF M!ReadErrors, M!After, M!Moved, M!counters, Reading
  <2>2. \A h \in M!Histogram : seen.inf[h] = 0
    BY <2>1 DEF AddedUp
  <2>3. SumOf(Before(counts["duration"], 1)) = 0
    BY <1>a, BeforeFirst
  <2>4. \A h \in M!Histogram : seen.inf[h] <= seen.count[h] + Cardinality(Worker)
    BY <1>a, <2>2
  <2>5. seen.inf["duration"] <= SumOf(Before(counts["duration"], 1)) /\ seen.inf["lag"] = 0
    BY <1>a, <2>2, <2>3
  <2> QED  BY <1>a, <2>1, <2>4, <2>5 DEF AddedUp
<1>4. ASSUME NEW h \in M!Histogram, M!ReadBucket(h) PROVE AddedUp'
  <2>1. /\ at.stage = h /\ at'.stage = h /\ at.bucket \in M!Bucket /\ at'.bucket = at.bucket + 1
        /\ counts' = counts /\ seen'.count = seen.count
        /\ seen'.inf = [seen.inf EXCEPT ![h] = seen.inf[h] + counts[h][at.bucket]]
    BY <1>4 DEF M!ReadBucket, M!Moved, M!counters, Reading
  <2>2. /\ seen'.inf[h] = seen.inf[h] + counts[h][at.bucket]
        /\ \A k \in M!Histogram : k # h => seen'.inf[k] = seen.inf[k]
    BY <1>a, <2>1
  <2>3. seen.inf[h] <= SumOf(Before(counts[h], at.bucket))
    BY <2>1 DEF AddedUp
  <2>4. /\ SumOf(Before(counts[h], at.bucket)) \in Int /\ counts[h][at.bucket] \in Int /\ seen.inf[h] \in Int
        /\ SumOf(Before(counts[h], at.bucket + 1)) = SumOf(Before(counts[h], at.bucket)) + counts[h][at.bucket]
    <3>1. counts[h] \in [M!Bucket -> Nat] /\ at.bucket \in Int /\ at.bucket \in M!Bucket
      BY <1>a, <2>1
    <3>2. SumOf(Before(counts[h], at.bucket)) \in Int
      BY <3>1, BeforeType
    <3>3. SumOf(Before(counts[h], at.bucket + 1)) = SumOf(Before(counts[h], at.bucket)) + counts[h][at.bucket]
      BY <3>1, BeforeNext
    <3>4. counts[h][at.bucket] \in Int /\ seen.inf[h] \in Int
      BY <1>a, <3>1
    <3> QED  BY <3>2, <3>3, <3>4
  <2>5. seen'.inf[h] <= SumOf(Before(counts[h], at.bucket + 1))
    BY <2>2, <2>3, <2>4
  <2>6. at.stage = "duration" => seen'.inf["lag"] = 0
    BY <1>a, <2>1, <2>2 DEF AddedUp
  <2>7. h # "errors"
    BY DEF M!Histogram
  <2>8. \A k \in M!Histogram : k # h => seen'.inf[k] <= seen'.count[k] + Cardinality(Worker)
    BY <2>1, <2>2 DEF AddedUp
  <2> QED  BY <2>1, <2>5, <2>6, <2>7, <2>8 DEF AddedUp
<1>5. ASSUME NEW h \in M!Histogram, M!ReadCount(h) PROVE AddedUp'
  <2>1. /\ at.stage = h /\ at'.stage = M!After(h) /\ at'.bucket = 1 /\ at.bucket = M!Inf + 1
        /\ counts' = counts /\ seen'.inf = seen.inf
        /\ seen'.count = [seen.count EXCEPT ![h] = count[h]]
    BY <1>5, InfIs DEF M!ReadCount, M!Bucket, M!Moved, M!counters, Reading
  <2>2. /\ seen'.count[h] = count[h] /\ count[h] \in Nat
        /\ \A k \in M!Histogram : k # h => seen'.count[k] = seen.count[k]
    BY <1>a, <2>1 DEF Counters
  <2>3. seen.inf[h] <= SumOf(counts[h])
    <3>1. seen.inf[h] <= SumOf(Before(counts[h], M!Inf + 1))
      BY <2>1 DEF AddedUp
    <3> QED  BY <1>a, <3>1, BeforeLast
  <2>4. seen.inf[h] <= count[h] + Cardinality(Worker)
    <3>1. SumOf(counts[h]) = count[h] + Number(pc, Uncounted(h))
      BY DEF Agreed
    <3> QED  BY <1>a, <2>2, <2>3, <3>1, NumberOfWorkers
  <2>5. \A k \in M!Histogram : seen'.inf[k] <= seen'.count[k] + Cardinality(Worker)
    BY <2>1, <2>2, <2>4 DEF AddedUp
  <2>6. CASE h = "lag"
    <3>1. at'.stage = "executed"
      BY <2>1, <2>6 DEF M!After
    <3> QED  BY <1>a, <2>5, <3>1 DEF AddedUp
  <2>7. CASE h = "duration"
    <3>1. at'.stage = "lag" /\ seen'.inf["lag"] = 0
      BY <1>a, <2>1, <2>7 DEF M!After, AddedUp
    <3>2. SumOf(Before(counts["lag"], 1)) = 0
      BY <1>a, BeforeFirst
    <3>3. seen'.inf["lag"] <= SumOf(Before(counts'["lag"], at'.bucket))
      BY <2>1, <3>1, <3>2
    <3> QED  BY <1>a, <2>5, <3>1, <3>3 DEF AddedUp
  <2> QED  BY <2>6, <2>7 DEF M!Histogram
<1>6. ASSUME NEW w \in Worker, M!Begin(w) \/ M!CountCheck(w) \/ M!CountError(w)
      PROVE  UNCHANGED <<at, seen, counts>>
  BY <1>6 DEF M!Begin, M!CountCheck, M!CountError, M!scrape, M!counters
<1>7. ASSUME NEW w \in Worker, NEW h \in M!Histogram,
             M!AddCount(w, h) \/ M!Load(w, h) \/ M!SwapSum(w, h)
      PROVE  UNCHANGED <<at, seen, counts>>
  BY <1>7 DEF M!AddCount, M!Load, M!SwapSum, M!scrape, M!counters
<1>8. ASSUME UNCHANGED <<at, seen, counts>> PROVE AddedUp'
  <2>1. ASSUME NEW h \in M!Histogram, NEW b \in M!Bucket PROVE counts[h][b] <= counts'[h][b]
    <3>1. counts[h][b] \in Nat /\ counts'[h][b] = counts[h][b]
      BY <1>a, <1>8
    <3> QED  BY <3>1
  <2> QED  BY <1>1, <1>8, <2>1
<1>9. ASSUME NEW w \in Worker, NEW h \in M!Histogram, M!AddBucket(w, h) PROVE AddedUp'
  <2>1. UNCHANGED <<at, seen>>
    BY <1>9 DEF M!AddBucket, M!scrape
  <2>2. PICK v \in Values : counts' = [counts EXCEPT ![h][M!BucketOf(v)] = @ + 1]
    BY <1>9 DEF M!AddBucket
  <2>3. ASSUME NEW k \in M!Histogram, NEW b \in M!Bucket PROVE counts[k][b] <= counts'[k][b]
    <3>1. counts[k][b] \in Nat
      BY <1>a
    <3>2. counts'[k][b] = counts[k][b] \/ counts'[k][b] = counts[k][b] + 1
      BY <1>a, <2>2
    <3> QED  BY <3>1, <3>2
  <2> QED  BY <1>1, <2>1, <2>3
<1> QED  BY <1>2, <1>3, <1>4, <1>5, <1>6, <1>7, <1>8, <1>9 DEF M!Next

LostHalf == half = "metrics" => Agreed /\ AddedUp

\* Concurrent observations are all counted and summed, and a scrape in their
\* midst is at most one observation of every worker off, however many workers
\* observe whatever values in whatever buckets.
THEOREM NothingLost == Spec => []NothingIsLost
<1>1. Init => LostHalf
  BY InitAgreed DEF Init, LostHalf
<1>2. LostHalf /\ MetricsHalf /\ MetricsHalf' /\ [Next]_state => LostHalf'
  <2> SUFFICES ASSUME LostHalf, MetricsHalf, MetricsHalf', [Next]_state, half' = "metrics"
               PROVE  (Agreed /\ AddedUp)'
    BY DEF LostHalf
  <2>1. CASE BeaconStep
    BY <2>1 DEF BeaconStep
  <2>2. CASE MetricsStep
    BY <2>2, AgreedStep, AddedUpStep DEF MetricsStep, MetricsHalf, LostHalf
  <2>3. CASE UNCHANGED state
    BY <2>3 DEF state, metrics, LostHalf, Agreed, AddedUp, Number, Inside
  <2> QED  BY <2>1, <2>2, <2>3 DEF Next
<1>3. MetricsHalf /\ LostHalf => NothingIsLost
  <2> SUFFICES ASSUME half = "metrics", Counters, Sums, pc \in [Worker -> AnyPlace], Agreed, AddedUp
               PROVE  M!NothingIsLost
    BY TypeParts DEF MetricsHalf, LostHalf, NothingIsLost
  <2>1. ASSUME NEW h \in M!Histogram, ~M!Observing(h)
        PROVE  count[h] = SumOf(counts[h]) /\ sum[h] = total[h]
    <3>1. \A w \in Worker : pc[w] \notin Uncounted(h) /\ pc[w] \notin Unadded(h)
      <4>1. ASSUME NEW w \in Worker, NEW s \in {"count", "load", "swap"} PROVE pc[w] # M!At(s, h)
        BY <2>1 DEF M!Observing, M!At
      <4> QED  BY <4>1 DEF Uncounted, Unadded
    <3>2. Number(pc, Uncounted(h)) = 0
      BY <3>1, NoneThere
    <3>3. Pending(pc, value, h) \in [Worker -> Int] /\ \A w \in Worker : Pending(pc, value, h)[w] = 0
      BY <3>1 DEF Pending, Part
    <3>4. SumOf(Pending(pc, value, h)) = 0
      BY <3>3, SumZero, Finite
    <3> QED  BY <3>2, <3>4 DEF Agreed, Counters, Sums
  <2>2. ASSUME NEW h \in M!Histogram, at.stage = "executed"
        PROVE  seen.inf[h] <= seen.count[h] + M!Cardinality(Worker)
    <3>1. M!Cardinality(Worker) = Cardinality(Worker)
      BY DEF M!Cardinality, Cardinality
    <3> QED  BY <2>2, <3>1 DEF AddedUp, M!Histogram
  <2> QED  BY <2>1, <2>2 DEF M!NothingIsLost, SumOf
<1> QED  BY <1>1, <1>2, <1>3, MetricsHolds, PTL DEF Spec


-----------------------------------------------------------------------------
(* The type invariant of both halves. *)

\* What W!TypeOK says besides Clocks and Control.
Rest ==
    /\ beatTick \in BOOLEAN /\ dogTick \in BOOLEAN /\ overlap \in BOOLEAN
    /\ request \in {"none", "sent", "handled"}
    /\ final \in {"none", "sent", "lost", "handled"}
    /\ shown \in {"online", "shutting_down"}
    /\ stdout \in {"fine", "stalled"} /\ resultMu \in {"free", "held"}
    /\ process \in {"up", "restarted", "ended"}
Bounded ==
    /\ quiet <= Horizon /\ stuck <= quiet
    /\ stale \in 0 .. MaxStale /\ jumps \in 0 .. MaxJumps

LEMMA RestStep == Rest /\ W!Next => Rest'
  BY DEF Rest, W!Next, W!Begin, W!Call, W!CallReturns, W!Log, W!LoopQuits, W!Look, W!Restart,
         W!DogQuits, W!Signal, W!Cancel, W!Farewell, W!FarewellReturns, W!End, W!Handle,
         W!HandleFinal, W!Stall, W!DropResults, W!Jump, W!Tick, W!MainGoes, W!ticker,
         W!apapi, W!watch, W!shutdown, W!outside

LEMMA BoundedStep == Clocks /\ Bounded /\ W!Next => Bounded'
<1> SUFFICES ASSUME Clocks, Bounded, W!Next PROVE Bounded'
  OBVIOUS
<1>a. quiet \in Nat /\ stuck \in Nat /\ Horizon \in Nat /\ MaxStale \in Nat /\ MaxJumps \in Nat
  BY DEF Clocks, W!ConstantsOK
<1>1. quiet' <= Horizon /\ stuck' <= quiet'
  <2>1. CASE W!Begin
    BY <1>a, <2>1 DEF W!Begin
  <2>2. CASE W!Tick
    <3>1. /\ quiet < Horizon /\ quiet' = quiet + 1
          /\ stuck' = IF W!Blocked THEN stuck + 1 ELSE stuck
      BY <2>2 DEF W!Tick
    <3> QED  BY <1>a, <3>1 DEF Bounded
  <2>3. CASE UNCHANGED <<quiet, stuck>>
    BY <2>3 DEF Bounded
  <2> QED
    BY <2>1, <2>2, <2>3
       DEF W!Next, W!Call, W!CallReturns, W!Log, W!LoopQuits, W!Look, W!Restart,
           W!DogQuits, W!Signal, W!Cancel, W!Farewell, W!FarewellReturns, W!End, W!Handle,
           W!HandleFinal, W!Stall, W!DropResults, W!Jump, W!beacon
<1>2. stale' \in 0 .. MaxStale
  <2>1. \/ stale' = stale
        \/ stale < MaxStale /\ stale' = stale + 1
        \/ stale > 0 /\ stale' = stale - 1
    BY DEF W!Next, W!Begin, W!Call, W!CallReturns, W!Log, W!LoopQuits, W!Look, W!Restart,
           W!DogQuits, W!Signal, W!Cancel, W!Farewell, W!FarewellReturns, W!End, W!Handle,
           W!HandleFinal, W!Stall, W!DropResults, W!Jump, W!Tick, W!apapi
  <2> QED  BY <1>a, <2>1 DEF Bounded
<1>3. jumps' \in 0 .. MaxJumps
  <2>1. \/ jumps' = jumps
        \/ jumps < MaxJumps /\ jumps' = jumps + 1
    BY DEF W!Next, W!Begin, W!Call, W!CallReturns, W!Log, W!LoopQuits, W!Look, W!Restart,
           W!DogQuits, W!Signal, W!Cancel, W!Farewell, W!FarewellReturns, W!End, W!Handle,
           W!HandleFinal, W!Stall, W!DropResults, W!Jump, W!Tick, W!outside
  <2> QED  BY <1>a, <2>1 DEF Bounded
<1> QED  BY <1>1, <1>2, <1>3 DEF Bounded

BeaconTypes == half \in {"metrics", "beacon"} /\ (half = "beacon" => Rest /\ Bounded)

\* The beacon, the watchdog's clocks, the metrics and the scrape keep their
\* types and bounds.
THEOREM TypeCorrect == Spec => []TypeOK
<1>1. Init => BeaconTypes
  <2>1. W!Init => Rest
    BY DEF W!Init, Rest
  <2>2. W!Init => Bounded
    BY DEF W!Init, Bounded, W!ConstantsOK
  <2> QED  BY <2>1, <2>2 DEF Init, BeaconTypes
<1>2. BeaconTypes /\ BeaconHalf /\ [Next]_state => BeaconTypes'
  <2> SUFFICES ASSUME BeaconTypes, BeaconHalf, [Next]_state PROVE BeaconTypes'
    OBVIOUS
  <2>1. CASE MetricsStep
    BY <2>1 DEF MetricsStep, BeaconTypes
  <2>2. CASE BeaconStep
    BY <2>2, RestStep, BoundedStep DEF BeaconStep, BeaconTypes, BeaconHalf, Beacon
  <2>3. CASE UNCHANGED state
    BY <2>3 DEF state, beacon, BeaconTypes, Rest, Bounded
  <2> QED  BY <2>1, <2>2, <2>3 DEF Next
<1>3. BeaconTypes /\ BeaconHalf /\ MetricsHalf => TypeOK
  <2> SUFFICES ASSUME BeaconTypes, BeaconHalf, half = "beacon" PROVE W!TypeOK
    BY DEF BeaconTypes, MetricsHalf, TypeOK
  <2>1. Clocks /\ Control /\ Rest /\ Bounded
    BY DEF BeaconTypes, BeaconHalf, Beacon
  <2>2. quiet \in 0 .. Horizon /\ stuck \in 0 .. Horizon
    BY <2>1 DEF Clocks, Bounded, W!ConstantsOK
  <2> QED  BY <2>1, <2>2 DEF W!TypeOK, Clocks, Control, Rest, Bounded
<1> QED  BY <1>1, <1>2, <1>3, BeaconHolds, MetricsHolds, PTL DEF Spec
=============================================================================
