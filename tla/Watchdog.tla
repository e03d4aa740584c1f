------------------------------ MODULE Watchdog ------------------------------
(***************************************************************************)
(* The heartbeat loop, the liveness beacon it pokes, the watchdog that     *)
(* reads the beacon (cmd/main.go, health/health.go), and the shutdown that *)
(* stops them.                                                             *)
(*                                                                         *)
(* Time passes in units; the beacon is a reading of the wall clock, which  *)
(* may jump.  Standard output may stall for good: whoever logs then blocks *)
(* (log.Printf holds the logger's mutex), and so does whoever waits for a  *)
(* mutex that is held across a log call.                                   *)
(***************************************************************************)
EXTENDS Integers

CONSTANTS
    BeatInterval,    \* period of the heartbeat ticker
    CallTimeout,     \* of the HTTP client
    WatchInterval,   \* watchdogInterval
    TTL,             \* watchdogLivenessTTL
    ExitDelay,       \* how long the watchdog sleeps before it exits
    Jumps,           \* by how much the wall clock may jump
    MaxJumps, MaxStale, Horizon   \* bounds

ConstantsOK ==
    /\ BeatInterval \in Nat \ {0} /\ WatchInterval \in Nat \ {0}
    /\ CallTimeout \in Nat /\ TTL \in Nat /\ ExitDelay \in Nat
    /\ Jumps \subseteq Int /\ MaxJumps \in Nat /\ MaxStale \in Nat
    /\ Horizon \in Nat /\ TTL + WatchInterval + ExitDelay < Horizon

VARIABLES
    loop,       \* where the heartbeat loop is
    beatTick,   \* a tick of its ticker waits
    toBeat,     \* time until the ticker ticks
    callLeft,   \* the longest its call can still take
    request,    \* its request: "none", "sent", or "handled" by apapi
    stale,      \* requests given up by the client that apapi may still handle
    age,        \* LastBeatAge: wall clock now, minus the last beat
    dog,        \* where the watchdog is
    dogTick, toWatch,
    nap,        \* how long it still sleeps before it exits
    main,       \* where main is
    final,      \* the farewell: "none", "sent", "lost" or "handled"
    shown,      \* the status apapi shows of this poller
    stdout,     \* "fine" or "stalled"
    resultMu,   \* "free", or "held" by a goroutine that blocks in a log call
    process,    \* "up", "restarted" by the watchdog, or "ended"
    \* history
    quiet,      \* time since the last beat
    stuck,      \* of it, the time the loop was blocked
    ahead,      \* jumps ahead of the wall clock since the last beat
    back,       \* jumps back
    jumps,
    overlap     \* a heartbeat was under way at the farewell, or begun after cancel

beacon == <<age, quiet, stuck, ahead, back>>
ticker == <<beatTick, toBeat>>
watch == <<dog, dogTick, toWatch, nap>>
apapi == <<request, stale, shown>>
outside == <<stdout, resultMu, jumps>>
shutdown == <<main, final, process>>
vars == <<loop, ticker, callLeft, apapi, beacon, watch, shutdown, outside, overlap>>

Init ==
    /\ loop = "select" /\ beatTick = FALSE /\ toBeat \in 1 .. BeatInterval /\ callLeft = 0
    /\ request = "none" /\ stale = 0 /\ shown = "online"
    /\ age = 0 /\ quiet = 0 /\ stuck = 0 /\ ahead = 0 /\ back = 0
    /\ dog = "select" /\ dogTick = FALSE /\ toWatch = WatchInterval /\ nap = 0
    /\ main = "serving" /\ final = "none" /\ process = "up"
    /\ stdout = "fine" /\ resultMu = "free" /\ jumps = 0
    /\ overlap = FALSE

Up == process = "up"
Cancelled == main \notin {"serving", "draining"}

\* The beacon has gone quiet: /ready answers 503, and the watchdog exits.
Stalled == age > TTL

-----------------------------------------------------------------------------
(* The heartbeat loop. *)

\* Mutant: the loop beats when the call is over.
BeginWithoutBeat ==
    /\ Up /\ loop = "select" /\ beatTick
    /\ beatTick' = FALSE /\ loop' = "lock"
    /\ overlap' = (overlap \/ Cancelled)
    /\ UNCHANGED <<toBeat, callLeft, apapi, beacon, watch, shutdown, outside>>

\* The ticker's case: beat first.  The select may choose it after a cancel, too.
Begin ==
    /\ Up /\ loop = "select" /\ beatTick
    /\ beatTick' = FALSE /\ loop' = "lock"
    /\ age' = 0 /\ quiet' = 0 /\ stuck' = 0 /\ ahead' = 0 /\ back' = 0
    /\ overlap' = (overlap \/ Cancelled)
    /\ UNCHANGED <<toBeat, callLeft, apapi, watch, shutdown, outside>>

\* Mutant: the client has no timeout.
CallWithoutTimeout ==
    /\ Up /\ loop = "lock" /\ resultMu = "free"
    /\ loop' = "call" /\ callLeft' = Horizon /\ request' = "sent"
    /\ UNCHANGED <<ticker, stale, shown, beacon, watch, shutdown, outside, overlap>>

\* Read the length of the result buffer under resultMu, then call apapi.
Call ==
    /\ Up /\ loop = "lock" /\ resultMu = "free"
    /\ loop' = "call" /\ callLeft' = CallTimeout /\ request' = "sent"
    /\ UNCHANGED <<ticker, stale, shown, beacon, watch, shutdown, outside, overlap>>

\* Only a call that fails is logged.
CallReturns ==
    /\ Up /\ loop = "call"
    /\ \/ request = "handled" /\ loop' = "select" /\ UNCHANGED stale
       \/ /\ loop' = "log"
          /\ \/ UNCHANGED stale
             \/ request = "sent" /\ stale < MaxStale /\ stale' = stale + 1
    /\ request' = "none" /\ callLeft' = 0
    /\ UNCHANGED <<ticker, shown, beacon, watch, shutdown, outside, overlap>>

Log ==
    /\ Up /\ loop = "log" /\ stdout = "fine"
    /\ loop' = "select"
    /\ UNCHANGED <<ticker, callLeft, apapi, beacon, watch, shutdown, outside, overlap>>

\* Mutant: a loop that is cancelled may report once more.
QuitAfterReport ==
    /\ Up /\ loop = "select" /\ Cancelled
    /\ loop' \in {"exited", "lock"}
    /\ UNCHANGED <<ticker, callLeft, apapi, beacon, watch, shutdown, outside, overlap>>

LoopQuits ==
    /\ Up /\ loop = "select" /\ Cancelled
    /\ loop' = "exited"
    /\ UNCHANGED <<ticker, callLeft, apapi, beacon, watch, shutdown, outside, overlap>>

-----------------------------------------------------------------------------
(* The watchdog. *)

\* Mutant: it compares with twice the TTL.
LookLate ==
    /\ Up /\ dog = "select" /\ dogTick
    /\ dogTick' = FALSE
    /\ IF age > 2 * TTL THEN dog' = "exiting" /\ nap' = ExitDelay ELSE UNCHANGED <<dog, nap>>
    /\ UNCHANGED <<loop, ticker, callLeft, apapi, beacon, toWatch, shutdown, outside, overlap>>

Look ==
    /\ Up /\ dog = "select" /\ dogTick
    /\ dogTick' = FALSE
    /\ IF Stalled THEN dog' = "exiting" /\ nap' = ExitDelay ELSE UNCHANGED <<dog, nap>>
    /\ UNCHANGED <<loop, ticker, callLeft, apapi, beacon, toWatch, shutdown, outside, overlap>>

\* It logs in a goroutine of its own, sleeps for two seconds, and exits,
\* although the loop may have come back meanwhile.
Restart ==
    /\ Up /\ dog = "exiting" /\ nap = 0
    /\ process' = "restarted"
    /\ UNCHANGED <<loop, ticker, callLeft, apapi, beacon, watch, main, final, outside, overlap>>

DogQuits ==
    /\ Up /\ dog = "select" /\ Cancelled
    /\ dog' = "stopped"
    /\ UNCHANGED <<loop, ticker, callLeft, apapi, beacon, dogTick, toWatch, nap, shutdown, outside, overlap>>

-----------------------------------------------------------------------------
(* main. *)

MainGoes(from, to) == Up /\ main = from /\ main' = to

\* The signal is logged, then main stops the leader's work and cancels.
Signal ==
    /\ MainGoes("serving", "draining")
    /\ UNCHANGED <<loop, ticker, callLeft, apapi, beacon, watch, final, process, outside, overlap>>

Cancel ==
    /\ MainGoes("draining", "cancelled") /\ stdout = "fine"
    /\ UNCHANGED <<loop, ticker, callLeft, apapi, beacon, watch, final, process, outside, overlap>>

\* The workers are done, or 30 seconds went by, which is logged.
Farewell ==
    /\ MainGoes("cancelled", "farewell") /\ stdout = "fine"
    /\ final' = "sent"
    /\ overlap' = (overlap \/ request = "sent" \/ loop = "lock" \/ stale > 0)
    /\ UNCHANGED <<loop, ticker, callLeft, apapi, beacon, watch, process, outside>>

FarewellReturns ==
    /\ MainGoes("farewell", "waiting")
    /\ \/ final = "handled" /\ UNCHANGED final
       \/ final = "sent" /\ final' = "lost"
    /\ UNCHANGED <<loop, ticker, callLeft, apapi, beacon, watch, process, outside, overlap>>

\* hbWG.Wait(), a last log, and main returns.
End ==
    /\ MainGoes("waiting", "ended") /\ loop = "exited" /\ stdout = "fine"
    /\ process' = "ended"
    /\ UNCHANGED <<loop, ticker, callLeft, apapi, beacon, watch, final, outside, overlap>>

-----------------------------------------------------------------------------
(* apapi, and the world. *)

\* A heartbeat is handled while its client waits, or later.
Handle ==
    /\ \/ request = "sent" /\ request' = "handled" /\ UNCHANGED stale
       \/ stale > 0 /\ stale' = stale - 1 /\ UNCHANGED request
    /\ shown' = "online"
    /\ UNCHANGED <<loop, ticker, callLeft, beacon, watch, shutdown, outside, overlap>>

HandleFinal ==
    /\ final \in {"sent", "lost"} /\ final' = "handled" /\ shown' = "shutting_down"
    /\ UNCHANGED <<loop, ticker, callLeft, request, stale, beacon, watch, main, process, outside, overlap>>

Stall ==
    /\ Up /\ stdout = "fine" /\ stdout' = "stalled"
    /\ UNCHANGED <<loop, ticker, callLeft, apapi, beacon, watch, shutdown, resultMu, jumps, overlap>>

\* A step-down that drops results logs this with resultMu held.
DropResults ==
    /\ Up /\ stdout = "stalled" /\ resultMu = "free" /\ resultMu' = "held"
    /\ UNCHANGED <<loop, ticker, callLeft, apapi, beacon, watch, shutdown, stdout, jumps, overlap>>

Jump ==
    /\ Up /\ jumps < MaxJumps /\ jumps' = jumps + 1
    /\ \E d \in Jumps :
          /\ age' = age + d
          /\ IF d > 0 THEN ahead' = ahead + d /\ UNCHANGED back
                      ELSE back' = back - d /\ UNCHANGED ahead
    /\ UNCHANGED <<loop, ticker, callLeft, apapi, quiet, stuck, watch, shutdown,
                   stdout, resultMu, overlap>>

Blocked == loop = "log" \/ loop = "lock"

\* Time passes when no goroutine can go on: the loop waits for its ticker, for
\* apapi or is blocked, the watchdog waits for its ticker, sleeps or has stopped.
Tick ==
    /\ Up /\ quiet < Horizon
    /\ \/ loop = "select" /\ ~beatTick
       \/ loop = "call" /\ callLeft > 0
       \/ loop = "log" /\ stdout = "stalled"
       \/ loop = "lock" /\ resultMu = "held"
       \/ loop = "exited"
    /\ \/ dog = "select" /\ ~dogTick
       \/ dog = "exiting" /\ nap > 0
       \/ dog = "stopped"
    /\ quiet' = quiet + 1 /\ age' = age + 1
    /\ stuck' = IF Blocked THEN stuck + 1 ELSE stuck
    /\ callLeft' = IF callLeft > 0 THEN callLeft - 1 ELSE 0
    /\ beatTick' = (beatTick \/ toBeat = 1)
    /\ toBeat' = IF toBeat = 1 THEN BeatInterval ELSE toBeat - 1
    /\ dogTick' = (dogTick \/ toWatch = 1)
    /\ toWatch' = IF toWatch = 1 THEN WatchInterval ELSE toWatch - 1
    /\ nap' = IF nap > 0 THEN nap - 1 ELSE 0
    /\ UNCHANGED <<loop, apapi, ahead, back, dog, shutdown, stdout, resultMu, jumps, overlap>>

Next ==
    \/ Begin \/ Call \/ CallReturns \/ Log \/ LoopQuits
    \/ Look \/ Restart \/ DogQuits
    \/ Signal \/ Cancel \/ Farewell \/ FarewellReturns \/ End
    \/ Handle \/ HandleFinal
    \/ Stall \/ DropResults \/ Jump \/ Tick

Spec == Init /\ [][Next]_vars

-----------------------------------------------------------------------------
(* What the watchdog is for. *)

TypeOK ==
    /\ loop \in {"select", "lock", "call", "log", "exited"}
    /\ beatTick \in BOOLEAN /\ dogTick \in BOOLEAN
    /\ toBeat \in 1 .. BeatInterval /\ toWatch \in 1 .. WatchInterval
    /\ callLeft \in 0 .. CallTimeout /\ nap \in 0 .. ExitDelay
    /\ request \in {"none", "sent", "handled"} /\ stale \in 0 .. MaxStale
    /\ age \in Int /\ quiet \in 0 .. Horizon /\ stuck \in 0 .. Horizon
    /\ ahead \in Nat /\ back \in Nat
    /\ dog \in {"select", "exiting", "stopped"}
    /\ main \in {"serving", "draining", "cancelled", "farewell", "waiting", "ended"}
    /\ final \in {"none", "sent", "lost", "handled"}
    /\ shown \in {"online", "shutting_down"}
    /\ stdout \in {"fine", "stalled"} /\ resultMu \in {"free", "held"}
    /\ process \in {"up", "restarted", "ended"}
    /\ jumps \in 0 .. MaxJumps
    /\ overlap \in BOOLEAN

\* /ready does not fail and the watchdog does not exit on account of apapi
\* being slow or away ("it reflects loop liveness, not api reachability"): the
\* loop was blocked, or the wall clock ran ahead by most of the TTL.  This
\* needs a TTL of at least a beat interval and a call timeout.
QuietIsWedged ==
    Stalled /\ ~Cancelled => stuck > 0 \/ ahead > TTL - BeatInterval - CallTimeout

\* A loop that blocks is noticed: until the shutdown cancels the watchdog, the
\* process outlives its last beat by no more than the TTL, a watchdog period,
\* the sleep before the exit, and what the wall clock was set back.
WedgeEndsProcess ==
    Up /\ ~Cancelled => quiet <= TTL + WatchInterval + ExitDelay + back

\* apapi shows a poller that ended as online only if it never got the farewell
\* or a heartbeat that overlaps the shutdown was handled after it: main sends
\* the "final" heartbeat before it waits for the loop.
FarewellIsLast ==
    process = "ended" /\ final = "handled" /\ shown = "online" => overlap
=============================================================================
