---------------------------- MODULE HealthServer ----------------------------
(***************************************************************************)
(* The two halves of the shared health.State (health/health.go): the       *)
(* beacon with its watchdog, and the metrics.  They share no field, so a   *)
(* behaviour is one of either half; the other one is absent.               *)
(***************************************************************************)
EXTENDS Integers

CONSTANTS
    Worker, Bounds, Values, MaxChecks,
    BeatInterval, CallTimeout, WatchInterval, TTL, ExitDelay, Jumps, MaxJumps, MaxStale, Horizon

VARIABLES
    half,   \* "beacon" or "metrics"
    counts, count, sum, executed, errors, pc, value, old, at, seen, checks, total,
    loop, beatTick, toBeat, callLeft, request, stale, age, dog, dogTick, toWatch, nap, main,
    final, shown, stdout, resultMu, process, quiet, stuck, ahead, back, jumps, overlap

M == INSTANCE Metrics
W == INSTANCE Watchdog

ASSUME HealthAssumption == M!ConstantsOK /\ W!ConstantsOK

metrics == <<counts, count, sum, executed, errors, pc, value, old, at, seen, checks, total>>
beacon == <<loop, beatTick, toBeat, callLeft, request, stale, age, dog, dogTick, toWatch, nap, main,
            final, shown, stdout, resultMu, process, quiet, stuck, ahead, back, jumps, overlap>>
state == <<half, metrics, beacon>>

NoMetrics ==
    /\ counts = << >> /\ count = << >> /\ sum = << >> /\ executed = << >> /\ errors = << >>
    /\ pc = << >> /\ value = << >> /\ old = << >> /\ at = << >> /\ seen = << >>
    /\ checks = << >> /\ total = << >>

NoBeacon ==
    /\ loop = << >> /\ beatTick = << >> /\ toBeat = << >> /\ callLeft = << >>
    /\ request = << >> /\ stale = << >> /\ age = << >> /\ dog = << >> /\ dogTick = << >>
    /\ toWatch = << >> /\ nap = << >> /\ main = << >> /\ final = << >> /\ shown = << >> /\ stdout = << >>
    /\ resultMu = << >> /\ process = << >> /\ quiet = << >> /\ stuck = << >>
    /\ ahead = << >> /\ back = << >> /\ jumps = << >> /\ overlap = << >>

Init ==
    \/ half = "metrics" /\ M!Init /\ NoBeacon
    \/ half = "beacon" /\ W!Init /\ NoMetrics

MetricsStep == half = "metrics" /\ M!Next /\ UNCHANGED <<half, beacon>>

BeaconStep == half = "beacon" /\ W!Next /\ UNCHANGED <<half, metrics>>

Next == MetricsStep \/ BeaconStep

Spec == Init /\ [][Next]_state

-----------------------------------------------------------------------------
(* The properties of the two halves. *)

TypeOK ==
    /\ half \in {"metrics", "beacon"}
    /\ half = "metrics" => M!TypeOK
    /\ half = "beacon" => W!TypeOK

\* No restart on account of apapi, nor without a blocked loop or a clock that
\* jumped ahead (Watchdog.tla).
QuietIsWedged == half = "beacon" => W!QuietIsWedged

\* A blocked loop ends the process in time (Watchdog.tla).
WedgeEndsProcess == half = "beacon" => W!WedgeEndsProcess

\* No heartbeat undoes the farewell unless it overlapped it (Watchdog.tla).
FarewellIsLast == half = "beacon" => W!FarewellIsLast

\* A scrape counts no check that was not timed (Metrics.tla).
ScrapeInOrder == half = "metrics" => M!ScrapeInOrder

\* Concurrent observations are all counted and summed (Metrics.tla).
NothingIsLost == half = "metrics" => M!NothingIsLost
=============================================================================
