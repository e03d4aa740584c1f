------------------------------ MODULE Metrics ------------------------------
(***************************************************************************)
(* The metrics of the health server (health/prometheus.go): the workers    *)
(* (cmd/main.go) add to counters and histograms without a lock, while a    *)
(* scrape reads one after the other.                                       *)
(***************************************************************************)
EXTENDS Integers, Sequences, FiniteSets, FiniteSetsExt, Folds

CONSTANTS
    Worker,
    Bounds,      \* the upper bounds of the buckets, ascending
    Values,      \* what is observed
    MaxChecks    \* bound on the checks

ConstantsOK ==
    /\ IsFiniteSet(Worker)
    /\ Bounds \in Seq(Int) /\ Values \subseteq Int /\ MaxChecks \in Nat

Inf == Len(Bounds) + 1
Bucket == 1 .. Inf
Histogram == {"lag", "duration"}

VARIABLES
    counts, count, sum,    \* of every histogram
    executed, errors,      \* ChecksExecuted, Errors
    pc,                    \* where a worker is
    value, old,            \* what it observes; the sum it loaded
    at,                    \* what the scrape reads next
    seen,                  \* what it has read
    checks, total          \* history: checks begun; the values observed

counters == <<counts, count, sum, executed, errors>>
worker == <<pc, value, old>>
scrape == <<at, seen>>
history == <<checks, total>>
vars == <<counters, worker, scrape, history>>

At(step, h) == [step |-> step, of |-> h]

Nothing == [executed |-> 0, errors |-> 0,
            inf |-> [h \in Histogram |-> 0], count |-> [h \in Histogram |-> 0]]

Init ==
    /\ counts = [h \in Histogram |-> [b \in Bucket |-> 0]]
    /\ count = [h \in Histogram |-> 0] /\ sum = [h \in Histogram |-> 0]
    /\ executed = 0 /\ errors = 0
    /\ pc = [w \in Worker |-> At("idle", "none")]
    /\ value = [w \in Worker |-> 0] /\ old = [w \in Worker |-> 0]
    /\ at = [stage |-> "executed", bucket |-> 1] /\ seen = Nothing
    /\ checks = 0 /\ total = [h \in Histogram |-> 0]

-----------------------------------------------------------------------------
(* The workers. *)

Goto(w, step, h) == pc' = [pc EXCEPT ![w] = At(step, h)]

\* A check is taken; its lag is observed first.
Begin(w) ==
    /\ pc[w] = At("idle", "none") /\ checks < MaxChecks
    /\ checks' = checks + 1
    /\ Goto(w, "bucket", "lag")
    /\ UNCHANGED <<counters, value, old, scrape, total>>

\* The first bucket whose bound is not exceeded.
BucketOf(v) ==
    LET fits == {b \in DOMAIN Bounds : v <= Bounds[b]} IN
    IF fits = {} THEN Inf ELSE Min(fits)

AddBucket(w, h) ==
    /\ pc[w] = At("bucket", h)
    /\ \E v \in Values :
          /\ value' = [value EXCEPT ![w] = v]
          /\ counts' = [counts EXCEPT ![h][BucketOf(v)] = @ + 1]
          /\ total' = [total EXCEPT ![h] = @ + v]
    /\ Goto(w, "count", h)
    /\ UNCHANGED <<count, sum, executed, errors, old, scrape, checks>>

AddCount(w, h) ==
    /\ pc[w] = At("count", h)
    /\ count' = [count EXCEPT ![h] = @ + 1]
    /\ Goto(w, "load", h)
    /\ UNCHANGED <<counts, sum, executed, errors, value, old, scrape, history>>

Load(w, h) ==
    /\ pc[w] = At("load", h)
    /\ old' = [old EXCEPT ![w] = sum[h]]
    /\ Goto(w, "swap", h)
    /\ UNCHANGED <<counters, value, scrape, history>>

\* Where a worker goes on when Observe returns: it executes the check, or
\* counts it.
Returns(w, h) ==
    /\ value' = [value EXCEPT ![w] = 0] /\ old' = [old EXCEPT ![w] = 0]
    /\ IF h = "lag" THEN Goto(w, "bucket", "duration") ELSE Goto(w, "executed", "none")

\* Mutant: the sum is stored, whatever it has become.
StoreSum(w, h) ==
    /\ pc[w] = At("swap", h)
    /\ sum' = [sum EXCEPT ![h] = old[w] + value[w]] /\ Returns(w, h)
    /\ UNCHANGED <<counts, count, executed, errors, scrape, history>>

\* CompareAndSwap, and back to the load if the sum has changed.
SwapSum(w, h) ==
    /\ pc[w] = At("swap", h)
    /\ IF sum[h] = old[w]
       THEN sum' = [sum EXCEPT ![h] = old[w] + value[w]] /\ Returns(w, h)
       ELSE Goto(w, "load", h) /\ UNCHANGED <<sum, value, old>>
    /\ UNCHANGED <<counts, count, executed, errors, scrape, history>>

\* ChecksExecuted, then Errors if the check failed.
CountCheck(w) ==
    /\ pc[w] = At("executed", "none")
    /\ executed' = executed + 1
    /\ Goto(w, "idle", "none") \/ Goto(w, "error", "none")
    /\ UNCHANGED <<counts, count, sum, errors, value, old, scrape, history>>

CountError(w) ==
    /\ pc[w] = At("error", "none")
    /\ errors' = errors + 1
    /\ Goto(w, "idle", "none")
    /\ UNCHANGED <<counts, count, sum, executed, value, old, scrape, history>>

-----------------------------------------------------------------------------
(* The scrape. *)

Moved == UNCHANGED <<counters, worker, history>>

\* Mutant: the lag is rendered before the duration.
AfterSwapped(stage) ==
    CASE stage = "executed" -> "errors" [] stage = "errors" -> "lag"
      [] stage = "lag" -> "duration" [] stage = "duration" -> "executed"

\* The order in which writePrometheus reads.
After(stage) ==
    CASE stage = "executed" -> "errors" [] stage = "errors" -> "duration"
      [] stage = "duration" -> "lag" [] stage = "lag" -> "executed"

ReadExecuted ==
    /\ at.stage = "executed"
    /\ seen' = [Nothing EXCEPT !.executed = executed]
    /\ at' = [stage |-> After("executed"), bucket |-> 1]
    /\ Moved

ReadErrors ==
    /\ at.stage = "errors"
    /\ seen' = [seen EXCEPT !.errors = errors]
    /\ at' = [stage |-> After("errors"), bucket |-> 1]
    /\ Moved

\* write: the buckets, added up on the way, the sum, and then the count.
ReadBucket(h) ==
    /\ at.stage = h /\ at.bucket \in Bucket
    /\ seen' = [seen EXCEPT !.inf[h] = @ + counts[h][at.bucket]]
    /\ at' = [at EXCEPT !.bucket = @ + 1]
    /\ Moved

ReadCount(h) ==
    /\ at.stage = h /\ at.bucket \notin Bucket
    /\ seen' = [seen EXCEPT !.count[h] = count[h]]
    /\ at' = [stage |-> After(h), bucket |-> 1]
    /\ Moved

Next ==
    \/ \E w \in Worker :
          \/ Begin(w) \/ CountCheck(w) \/ CountError(w)
          \/ \E h \in Histogram :
                AddBucket(w, h) \/ AddCount(w, h) \/ Load(w, h) \/ SwapSum(w, h)
    \/ ReadExecuted \/ ReadErrors
    \/ \E h \in Histogram : ReadBucket(h) \/ ReadCount(h)

Spec == Init /\ [][Next]_vars

-----------------------------------------------------------------------------
(* What a scrape may be relied on for. *)

TypeOK ==
    /\ counts \in [Histogram -> [Bucket -> Nat]] /\ count \in [Histogram -> Nat]
    /\ sum \in [Histogram -> Int] /\ total \in [Histogram -> Int]
    /\ executed \in Nat /\ errors \in Nat /\ checks \in 0 .. MaxChecks
    /\ pc \in [Worker -> [step : {"idle", "executed", "error"}, of : {"none"}]
                  \cup [step : {"bucket", "count", "load", "swap"}, of : Histogram]]
    /\ value \in [Worker -> Int] /\ old \in [Worker -> Int]
    /\ at \in [stage : {"executed", "errors"} \cup Histogram, bucket : 1 .. Inf + 1]
    /\ seen \in [executed : Nat, errors : Nat, inf : [Histogram -> Nat], count : [Histogram -> Nat]]

\* Within one scrape no check is counted that was not timed, and none timed
\* whose lag was not: what is written first is read last.  (Errors may exceed
\* ChecksExecuted: it is written last and read second.)
ScrapeInOrder ==
    at.stage = "executed" =>
        /\ seen.executed <= seen.count["duration"]
        /\ seen.errors <= seen.count["duration"]
        /\ seen.count["duration"] <= seen.count["lag"]

Observing(h) == \E w \in Worker : pc[w].of = h /\ pc[w].step # "bucket"

\* Concurrent Observe calls lose nothing: while none is under way, buckets,
\* count and sum agree with what was observed.  A scrape in their midst shows
\* at most one observation of every worker in the buckets that is not counted.
NothingIsLost ==
    /\ \A h \in Histogram : ~Observing(h) =>
          /\ count[h] = FoldFunction(LAMBDA x, y : x + y, 0, counts[h])
          /\ sum[h] = total[h]
    /\ at.stage = "executed" =>
          \A h \in Histogram : seen.inf[h] <= seen.count[h] + Cardinality(Worker)
=============================================================================
