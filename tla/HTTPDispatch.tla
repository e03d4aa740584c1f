---------------------------- MODULE HTTPDispatch ----------------------------
(***************************************************************************)
(* The HTTP dispatcher and its scheduler (dispatcher/http.go,              *)
(* scheduler/scheduler.go): which monitor is handed to the workers when.   *)
(*                                                                         *)
(* Run fetches the monitors, then waits for two tickers: the fetch ticker, *)
(* whose case blocks in a call to apapi, and the due ticker, whose case    *)
(* takes a batch of due monitors from the scheduler and offers each to     *)
(* checkChan without waiting.  A ticker keeps one tick for a late reader.  *)
(*                                                                         *)
(* The unit of time is the period of the due ticker.  Next check times are *)
(* relative to now; they are overdue when negative.                        *)
(***************************************************************************)
EXTENDS Integers, Sequences, FiniteSets, FiniteSetsExt

CONSTANTS
    Monitor,           \* the monitors apapi may assign to the location
    Intervals,         \* the values of check_interval_seconds
    DefaultInterval,   \* of a monitor whose interval is zero
    PollInterval,      \* AP_POLL_INTERVAL
    FetchTime,         \* the longest GetMonitors can take
    MaxConcurrency,    \* workers, and the largest batch of due monitors
    MaxAge             \* times are not told apart beyond this

ASSUME DispatchAssumption ==
    /\ Intervals \subseteq Nat /\ Intervals # {}
    /\ DefaultInterval \in Nat \ {0}
    /\ PollInterval \in Nat \ {0}
    /\ FetchTime \in Nat
    /\ MaxConcurrency \in Nat \ {0}
    /\ MaxAge \in Nat
    /\ \A i \in Intervals \cup {DefaultInterval} : i <= MaxAge

ChanCap == 2 * MaxConcurrency

Effective(i) == IF i = 0 THEN DefaultInterval ELSE i

VARIABLES
    next,        \* time until NextCheckAt of every monitor the scheduler knows
    interval,    \* the interval in its assignment
    pc,          \* where Run is
    callLeft,    \* the longest the fetch under way can still take
    dueTick,     \* a tick of the due ticker waits
    fetchTick,   \* a tick of the fetch ticker waits
    toFetch,     \* time until the fetch ticker ticks
    batch,       \* due monitors not yet offered to the channel
    cancelled,   \* ctx is done
    checkChan,   \* the waiting checks
    busy,        \* workers that execute a check
    since,       \* time since a monitor was handed out, or became known
    promised     \* the interval in force when it was

scheduler == <<next, interval>>
ticker == <<dueTick, fetchTick, toFetch>>
workers == <<checkChan, busy>>
history == <<since, promised>>
vars == <<next, interval, pc, callLeft, dueTick, fetchTick, toFetch, batch,
          cancelled, checkChan, busy, since, promised>>

Known == DOMAIN next
Due == {m \in Known : next[m] <= 0}

Init ==
    /\ next = << >> /\ interval = << >>
    /\ pc = "first" /\ callLeft = FetchTime
    /\ dueTick = FALSE /\ fetchTick = FALSE /\ toFetch = PollInterval
    /\ batch = {} /\ cancelled = FALSE
    /\ checkChan = << >> /\ busy = 0
    /\ since = << >> /\ promised = << >>

-----------------------------------------------------------------------------
(* The fetch. *)

\* Mutant: every refresh makes every monitor due.
UpdateForgetsSchedule(S, i) ==
    /\ next' = [m \in S |-> 0]
    /\ interval' = i
    /\ since' = [m \in S |-> IF m \in Known THEN since[m] ELSE 0]
    /\ promised' = [m \in S |-> IF m \in Known THEN promised[m] ELSE 0]

\* UpdateMonitors: a known monitor keeps its next check time, also when its
\* interval changed; a new one is due now; all others are forgotten.
UpdateMonitors(S, i) ==
    /\ next' = [m \in S |-> IF m \in Known THEN next[m] ELSE 0]
    /\ interval' = i
    /\ since' = [m \in S |-> IF m \in Known THEN since[m] ELSE 0]
    /\ promised' = [m \in S |-> IF m \in Known THEN promised[m] ELSE 0]

\* A new assignment replaces the one that waiting checks point to.
Unshare == checkChan' = [k \in DOMAIN checkChan |-> [checkChan[k] EXCEPT !.shared = FALSE]]

FetchOK ==
    /\ \E S \in SUBSET Monitor : \E i \in [S -> Intervals] : UpdateMonitors(S, i)
    /\ Unshare

\* GetMonitors does not look at the context.  An error leaves the schedule.
FetchReturns ==
    /\ pc \in {"first", "fetch"}
    /\ \/ FetchOK
       \/ UNCHANGED <<scheduler, history, checkChan>>
    /\ pc' = "select"
    /\ callLeft' = 0
    /\ UNCHANGED <<ticker, batch, cancelled, busy>>

StartFetch ==
    /\ pc = "select" /\ fetchTick
    /\ fetchTick' = FALSE
    /\ pc' = "fetch" /\ callLeft' = FetchTime
    /\ UNCHANGED <<scheduler, dueTick, toFetch, batch, cancelled, workers, history>>

-----------------------------------------------------------------------------
(* The due checks. *)

\* Mutant: a monitor left out of a full batch is marked as scheduled, too.
MarkAll(D) ==
    /\ next' = [m \in Known |-> IF m \in Due THEN Effective(interval[m]) ELSE next[m]]
    /\ since' = [m \in Known |-> IF m \in D THEN 0 ELSE since[m]]
    /\ promised' = [m \in Known |-> IF m \in D THEN Effective(interval[m]) ELSE promised[m]]

\* The monitors GetDueChecks returns are scheduled one interval from now.
Mark(D) ==
    /\ next' = [m \in Known |-> IF m \in D THEN Effective(interval[m]) ELSE next[m]]
    /\ since' = [m \in Known |-> IF m \in D THEN 0 ELSE since[m]]
    /\ promised' = [m \in Known |-> IF m \in D THEN Effective(interval[m]) ELSE promised[m]]

\* GetDueChecks: as many due monitors as fit into a batch, in map order, that
\* is any of them.
TakeDue ==
    /\ pc = "select" /\ dueTick
    /\ dueTick' = FALSE
    /\ \E D \in kSubset(Min({MaxConcurrency, Cardinality(Due)}), Due) :
          /\ batch' = D
          /\ Mark(D)
    /\ pc' = "send"
    /\ UNCHANGED <<interval, callLeft, fetchTick, toFetch, cancelled, workers>>

\* Stamp ReceivedAt of the assignment, which older checks of the monitor may
\* point to as well, and offer it: without room, the check is dropped.
Stamped(m) ==
    [k \in DOMAIN checkChan |->
        IF checkChan[k].monitor = m /\ checkChan[k].shared
        THEN [checkChan[k] EXCEPT !.own = FALSE] ELSE checkChan[k]]

\* Mutant: the send does not look for room.
SendOverfull(m) ==
    /\ pc = "send" /\ m \in batch
    /\ batch' = batch \ {m}
    /\ checkChan' = Append(Stamped(m), [monitor |-> m, shared |-> TRUE, own |-> TRUE])
    /\ UNCHANGED <<scheduler, pc, callLeft, ticker, cancelled, busy, history>>

Send(m) ==
    /\ pc = "send" /\ m \in batch
    /\ batch' = batch \ {m}
    /\ checkChan' = IF Len(checkChan) < ChanCap
                    THEN Append(Stamped(m), [monitor |-> m, shared |-> TRUE, own |-> TRUE])
                    ELSE Stamped(m)
    /\ UNCHANGED <<scheduler, pc, callLeft, ticker, cancelled, busy, history>>

EndOfBatch ==
    /\ pc = "send" /\ batch = {}
    /\ pc' = "select"
    /\ UNCHANGED <<scheduler, callLeft, ticker, batch, cancelled, workers, history>>

-----------------------------------------------------------------------------
(* The step-down, the workers, and time. *)

Cancel ==
    /\ ~cancelled
    /\ cancelled' = TRUE
    /\ UNCHANGED <<scheduler, pc, callLeft, ticker, batch, workers, history>>

\* ctx.Done(), in the outer select or in the one around the send.
Quit ==
    /\ cancelled
    /\ \/ pc = "select" /\ UNCHANGED checkChan
       \/ pc = "send" /\ \E m \in batch : checkChan' = Stamped(m)
    /\ pc' = "exited" /\ batch' = {}
    /\ UNCHANGED <<scheduler, callLeft, ticker, cancelled, busy, history>>

Take ==
    /\ checkChan # << >> /\ busy < MaxConcurrency
    /\ busy' = busy + 1 /\ checkChan' = Tail(checkChan)
    /\ UNCHANGED <<scheduler, pc, callLeft, ticker, batch, cancelled, history>>

Finish ==
    /\ busy > 0
    /\ busy' = busy - 1
    /\ UNCHANGED <<scheduler, pc, callLeft, ticker, batch, cancelled, checkChan, history>>

\* Time passes while Run waits for a ticker or for apapi, and every check that
\* a worker could take is taken.  The tickers start after the first fetch.
Tick ==
    /\ checkChan = << >> \/ busy = MaxConcurrency
    /\ \/ pc \in {"first", "fetch"} /\ callLeft > 0
       \/ pc = "select" /\ ~dueTick /\ ~fetchTick
    /\ next' = [m \in Known |-> IF next[m] > -MaxAge THEN next[m] - 1 ELSE next[m]]
    /\ since' = [m \in Known |-> IF since[m] < MaxAge THEN since[m] + 1 ELSE since[m]]
    /\ callLeft' = IF callLeft > 0 THEN callLeft - 1 ELSE 0
    /\ IF pc = "first"
       THEN UNCHANGED ticker
       ELSE /\ dueTick' = TRUE
            /\ fetchTick' = (fetchTick \/ toFetch = 1)
            /\ toFetch' = IF toFetch = 1 THEN PollInterval ELSE toFetch - 1
    /\ UNCHANGED <<interval, pc, batch, cancelled, workers, promised>>

Exited == pc = "exited" /\ UNCHANGED vars

Next ==
    \/ FetchReturns \/ StartFetch
    \/ TakeDue \/ EndOfBatch \/ \E m \in Monitor : Send(m)
    \/ Cancel \/ Quit \/ Take \/ Finish \/ Tick \/ Exited

Spec == Init /\ [][Next]_vars

-----------------------------------------------------------------------------
(* What the schedule promises. *)

\* The type invariant.
TypeOK ==
    /\ Known \subseteq Monitor
    /\ next \in [Known -> -MaxAge .. MaxAge]
    /\ interval \in [Known -> Intervals]
    /\ pc \in {"first", "fetch", "select", "send", "exited"}
    /\ callLeft \in 0 .. FetchTime
    /\ dueTick \in BOOLEAN /\ fetchTick \in BOOLEAN
    /\ toFetch \in 1 .. PollInterval
    /\ batch \subseteq Monitor
    /\ cancelled \in BOOLEAN
    /\ checkChan \in Seq([monitor : Monitor, shared : BOOLEAN, own : BOOLEAN])
    /\ Len(checkChan) <= ChanCap
    /\ busy \in 0 .. MaxConcurrency
    /\ since \in [Known -> 0 .. MaxAge]
    /\ promised \in [Known -> 0 .. MaxAge]

\* The ticks it takes to go once through all monitors.
Round == (Cardinality(Monitor) + MaxConcurrency - 1) \div MaxConcurrency

\* A monitor is handed out late by no more than a fetch and the rounds before
\* and after it, although GetDueChecks picks in any order and stops at a full
\* batch.  This needs every interval to be at least a Round, and a fetch to be
\* over a Round before the next begins.
Punctual ==
    pc # "exited" =>
        \A m \in Known : since[m] <= promised[m] + FetchTime + 2 * (Round - 1)

\* A monitor that stays assigned is never handed out again before the interval
\* is over that was in force when it was handed out last: neither a refresh of
\* the monitors nor a batch that was too full brings a check forward.
NeverTooOften ==
    [][\A m \in batch' \ batch : since[m] >= promised[m]]_vars

\* DispatchLag is the time from "assignment-produced" to "execution-start"
\* (health.go): the ReceivedAt a waiting check carries is its own.
LagIsOwn == \A k \in DOMAIN checkChan : checkChan[k].own
=============================================================================
