----------------------------- MODULE RoleSwitch -----------------------------
(***************************************************************************)
(* From a role to running work: how one poller process (cmd/main.go) turns *)
(* the transitions its elector publishes into a dispatcher and a flusher   *)
(* that run exactly while it leads, and how SIGTERM takes them down.       *)
(*                                                                         *)
(* The elector pushes roles into a bounded channel without ever waiting    *)
(* for it; the transition consumer pops them and runs startLeaderWork or   *)
(* stopLeaderWork; main runs stopLeaderWork too, when a signal arrives.    *)
(* Each start makes a generation of work: a context, a transport and two   *)
(* goroutines.  When the election wins or loses is Election's business:    *)
(* here the elector's calls end either way.                                *)
(***************************************************************************)
EXTENDS Integers, Sequences, FiniteSets

CONSTANTS
    Capacity,       \* of the elector's state channel
    MaxFlaps        \* bound on role transitions

ASSUME RoleSwitchAssumption ==
    /\ Capacity \in Nat \ {0}
    /\ MaxFlaps \in Nat

Gen == 1 .. (MaxFlaps + 1) \div 2      \* generations of leader work
Thread == {"dispatcher", "flusher"}    \* the goroutines of a generation
Stopper == {"consumer", "main"}        \* who runs stopLeaderWork
NoWork == 0

VARIABLES
    role,      \* Elector.state
    ch,        \* Elector.stateCh
    elector,   \* where Elector.Run is
    flaps,     \* role transitions so far
    dropped,   \* a transition did not fit into ch
    seen,      \* the state the consumer took from ch last
    pc,        \* where the consumer and main are
    mine,      \* the generation a stopper took
    work,      \* main's work variable
    gens,      \* generations started so far
    ctx,       \* the generations whose own context is cancelled
    root,      \* the root context is cancelled
    thread,    \* where each goroutine of each generation is
    group,     \* the generation whose WaitGroup the goroutine will call Done on
    wg,        \* the WaitGroup counter of each generation
    closed,    \* the generations whose sink and dispatcher are closed
    checkChan, \* "open" or "closed"
    panic      \* why the process panicked

vars == <<role, ch, elector, flaps, dropped, seen, pc, mine, work, gens, ctx,
          root, thread, group, wg, closed, checkChan, panic>>

election == <<role, ch, elector, flaps, dropped>>
goroutines == <<thread, group, wg, panic>>
lifecycle == <<work, gens, ctx, root, closed, checkChan>>

Done(g) == root \/ g \in ctx
Live(g) == \E k \in Thread : thread[g][k] \notin {"none", "exited"}
Halted == panic # "none" \/ pc["main"] = "exited"

Init ==
    /\ role = "follower" /\ ch = << >> /\ elector = "start"
    /\ flaps = 0 /\ dropped = FALSE
    /\ seen = "none"
    /\ pc = [s \in Stopper |-> IF s = "main" THEN "serving" ELSE "receive"]
    /\ mine = [s \in Stopper |-> NoWork]
    /\ work = NoWork /\ gens = 0 /\ ctx = {} /\ root = FALSE
    /\ thread = [g \in Gen |-> [k \in Thread |-> "none"]]
    /\ group = [g \in Gen |-> [k \in Thread |-> NoWork]]
    /\ wg = [g \in Gen |-> 0]
    /\ closed = {}
    /\ checkChan = "open"
    /\ panic = "none"

-----------------------------------------------------------------------------
(* The elector. *)

\* Run starts with a blocking send.
ElectorStart ==
    /\ ~Halted
    /\ elector = "start"
    /\ Len(ch) < Capacity
    /\ ch' = Append(ch, "follower")
    /\ elector' = "top"
    /\ UNCHANGED <<role, flaps, dropped>>
    /\ UNCHANGED <<seen, pc, mine, lifecycle, goroutines>>

\* The loop looks at the context, sleeps and calls apapi; only the sleep is
\* cut short by the context.
ElectorLoop ==
    /\ ~Halted
    /\ elector = "top"
    /\ elector' = IF root THEN "done" ELSE "calling"
    /\ UNCHANGED <<role, ch, flaps, dropped>>
    /\ UNCHANGED <<seen, pc, mine, lifecycle, goroutines>>

ElectorCut ==
    /\ ~Halted
    /\ elector = "calling" /\ root
    /\ elector' = "done"
    /\ UNCHANGED <<role, ch, flaps, dropped>>
    /\ UNCHANGED <<seen, pc, mine, lifecycle, goroutines>>

\* setState: swap the role, then a send that never blocks.
\* Mutant: a queue that grows instead of dropping.
SetStateUnbounded(r) ==
    /\ flaps < MaxFlaps
    /\ flaps' = flaps + 1
    /\ role' = r
    /\ ch' = Append(ch, r)
    /\ UNCHANGED dropped

SetState(r) ==
    /\ flaps < MaxFlaps
    /\ flaps' = flaps + 1
    /\ role' = r
    /\ IF Len(ch) < Capacity
       THEN ch' = Append(ch, r) /\ UNCHANGED dropped
       ELSE dropped' = TRUE /\ UNCHANGED ch

ElectorReturn ==
    /\ ~Halted
    /\ elector = "calling"
    /\ elector' = "top"
    /\ \/ UNCHANGED <<role, ch, flaps, dropped>>
       \/ role = "follower" /\ SetState("leader")
       \/ role = "leader" /\ SetState("follower")
    /\ UNCHANGED <<seen, pc, mine, lifecycle, goroutines>>

Elector == ElectorStart \/ ElectorLoop \/ ElectorCut \/ ElectorReturn

-----------------------------------------------------------------------------
(* The transition consumer, startLeaderWork and stopLeaderWork. *)

Goto(s, w) == pc' = [pc EXCEPT ![s] = w]

\* Where a stopper goes on when stopLeaderWork returns.
After(s) == IF s = "main" THEN "cancel" ELSE "receive"

Receive ==
    /\ ~Halted
    /\ pc["consumer"] = "receive"
    /\ ch # << >>
    /\ seen' = Head(ch) /\ ch' = Tail(ch)
    /\ Goto("consumer", IF Head(ch) = "leader" THEN "start" ELSE "take")
    /\ UNCHANGED <<role, elector, flaps, dropped, mine, lifecycle, goroutines>>

\* Mutant: without the "already running" return.
StartWorkTwice ==
    /\ ~Halted
    /\ pc["consumer"] = "start"
    /\ Goto("consumer", "receive")
    /\ LET g == gens + 1 IN
       /\ gens' = g /\ work' = g
       /\ wg' = [wg EXCEPT ![g] = 2]
       /\ thread' = [thread EXCEPT ![g] = [k \in Thread |-> "new"]]
    /\ UNCHANGED <<election, seen, mine, ctx, root, closed, checkChan, group, panic>>

\* The goroutines evaluate "defer work.wg.Done()" when they first run: the
\* WaitGroup they will call is that of the work variable at that moment.
StartWork ==
    /\ ~Halted
    /\ pc["consumer"] = "start"
    /\ Goto("consumer", "receive")
    /\ IF work # NoWork
       THEN UNCHANGED <<work, gens, thread, wg>>
       ELSE LET g == gens + 1 IN
            /\ gens' = g /\ work' = g
            /\ wg' = [wg EXCEPT ![g] = 2]
            /\ thread' = [thread EXCEPT ![g] = [k \in Thread |-> "new"]]
    /\ UNCHANGED <<election, seen, mine, ctx, root, closed, checkChan, group, panic>>

\* Mutant: the work variable is not reset.
TakeKeepsWork(s) ==
    /\ ~Halted
    /\ pc[s] = "take"
    /\ mine' = [mine EXCEPT ![s] = work]
    /\ ctx' = IF work = NoWork THEN ctx ELSE ctx \cup {work}
    /\ Goto(s, IF work = NoWork THEN After(s) ELSE "wait")
    /\ UNCHANGED <<election, seen, work, gens, root, closed, checkChan, goroutines>>

\* Mutant: the context of the work is not cancelled.
TakeKeepsContext(s) ==
    /\ ~Halted
    /\ pc[s] = "take"
    /\ work' = NoWork
    /\ mine' = [mine EXCEPT ![s] = work]
    /\ Goto(s, IF work = NoWork THEN After(s) ELSE "wait")
    /\ UNCHANGED <<election, seen, gens, ctx, root, closed, checkChan, goroutines>>

\* Take the work under workMu and cancel its context.
Take(s) ==
    /\ ~Halted
    /\ pc[s] = "take"
    /\ work' = NoWork
    /\ mine' = [mine EXCEPT ![s] = work]
    /\ ctx' = IF work = NoWork THEN ctx ELSE ctx \cup {work}
    /\ Goto(s, IF work = NoWork THEN After(s) ELSE "wait")
    /\ UNCHANGED <<election, seen, gens, root, closed, checkChan, goroutines>>

\* Mutant: the transport is closed without waiting for the goroutines.
WaitForNobody(s) ==
    /\ ~Halted
    /\ pc[s] = "wait"
    /\ Goto(s, "flush")
    /\ UNCHANGED <<election, seen, mine, lifecycle, goroutines>>

\* w.wg.Wait().
Wait(s) ==
    /\ ~Halted
    /\ pc[s] = "wait"
    /\ wg[mine[s]] = 0
    /\ Goto(s, "flush")
    /\ UNCHANGED <<election, seen, mine, lifecycle, goroutines>>

\* The final flush is over: close the sink and the dispatcher.
CloseTransport(s) ==
    /\ ~Halted
    /\ pc[s] = "flush"
    /\ closed' = closed \cup {mine[s]}
    /\ mine' = [mine EXCEPT ![s] = NoWork]
    /\ Goto(s, After(s))
    /\ UNCHANGED <<election, seen, work, gens, ctx, root, checkChan, goroutines>>

-----------------------------------------------------------------------------
(* main: the signal and the rest of the shutdown. *)

Signal ==
    /\ ~Halted
    /\ pc["main"] = "serving"
    /\ Goto("main", "take")
    /\ UNCHANGED <<election, seen, mine, lifecycle, goroutines>>

CancelRoot ==
    /\ ~Halted
    /\ pc["main"] = "cancel"
    /\ root' = TRUE
    /\ Goto("main", "close")
    /\ UNCHANGED <<election, seen, mine, work, gens, ctx, closed, checkChan, goroutines>>

CloseChecks ==
    /\ ~Halted
    /\ pc["main"] = "close"
    /\ checkChan' = "closed"
    /\ Goto("main", "drain")
    /\ UNCHANGED <<election, seen, mine, work, gens, ctx, root, closed, goroutines>>

\* The workers drained the channel, or 30 s went by; the process exits without
\* waiting for the elector or the consumer.
ExitMain ==
    /\ ~Halted
    /\ pc["main"] = "drain"
    /\ Goto("main", "exited")
    /\ UNCHANGED <<election, seen, mine, lifecycle, goroutines>>

-----------------------------------------------------------------------------
(* The goroutines of a generation. *)

At(g, k, w) == thread[g][k] = w
Move(g, k, w) == thread' = [thread EXCEPT ![g][k] = w]

\* First statement: defer work.wg.Done(), on whatever work is now.
Begin(g, k) ==
    /\ At(g, k, "new")
    /\ IF work = NoWork
       THEN panic' = "nil work" /\ UNCHANGED <<thread, group>>
       ELSE /\ Move(g, k, IF k = "dispatcher" THEN "fetch" ELSE "select")
            /\ group' = [group EXCEPT ![g][k] = work]
            /\ UNCHANGED panic
    /\ UNCHANGED wg

\* Mutant: a goroutine that returns without Done.
LeaveWithoutDone(g, k) ==
    /\ Move(g, k, "exited")
    /\ UNCHANGED <<group, wg, panic>>

\* The deferred Done: a negative counter panics.
Leave(g, k) ==
    /\ Move(g, k, "exited")
    /\ IF wg[group[g][k]] = 0
       THEN panic' = "negative WaitGroup" /\ UNCHANGED wg
       ELSE wg' = [wg EXCEPT ![group[g][k]] = @ - 1] /\ UNCHANGED panic
    /\ UNCHANGED group

Quit(g, k) == At(g, k, "select") /\ Done(g) /\ Leave(g, k)

\* A ticker and ctx.Done() may be ready together: select takes either.
Tick(g, k) ==
    /\ At(g, k, "select")
    /\ \/ k = "dispatcher" /\ (Move(g, k, "fetch") \/ Move(g, k, "send"))
       \/ k = "flusher" /\ Move(g, k, "submit")
    /\ UNCHANGED <<group, wg, panic>>

\* GetMonitors returned, or Submit did.
Finish(g, k) ==
    /\ At(g, k, "fetch") \/ At(g, k, "submit")
    /\ Move(g, k, "select")
    /\ UNCHANGED <<group, wg, panic>>

\* The select around the send: ctx.Done(), the channel, or default.
SendDue(g, k) ==
    /\ At(g, k, "send")
    /\ \/ Done(g) /\ Leave(g, k)
       \/ /\ checkChan = "open"
          /\ Move(g, k, "select") /\ UNCHANGED <<group, wg, panic>>
       \/ /\ checkChan = "closed"
          /\ panic' = "send on closed channel" /\ UNCHANGED <<thread, group, wg>>

Runs(step) == ~Halted /\ step /\ UNCHANGED <<election, seen, pc, mine, lifecycle>>

Goroutine(g, k) ==
    Runs(Begin(g, k) \/ Quit(g, k) \/ Tick(g, k) \/ Finish(g, k) \/ SendDue(g, k))

-----------------------------------------------------------------------------
Stop(s) == Take(s) \/ Wait(s) \/ CloseTransport(s)

Consumer == Receive \/ StartWork \/ Stop("consumer")

Main == Stop("main") \/ CancelRoot \/ CloseChecks \/ ExitMain

\* A process that exited or panicked does nothing any more.
Stutter == Halted /\ UNCHANGED vars

Next ==
    \/ ElectorStart \/ ElectorLoop \/ ElectorCut \/ ElectorReturn
    \/ Receive \/ StartWork
    \/ \E s \in Stopper : Take(s) \/ Wait(s) \/ CloseTransport(s)
    \/ Signal \/ CancelRoot \/ CloseChecks \/ ExitMain
    \/ \E g \in Gen, k \in Thread :
          \/ Runs(Begin(g, k)) \/ Runs(Quit(g, k)) \/ Runs(Tick(g, k))
          \/ Runs(Finish(g, k)) \/ Runs(SendDue(g, k))
    \/ Stutter

Spec == Init /\ [][Next]_vars

\* The Go scheduler runs every goroutine that can run, and a select does not
\* pass over a ready case for ever.
Fairness ==
    /\ WF_vars(Elector) /\ WF_vars(Consumer) /\ WF_vars(Main)
    /\ \A g \in Gen, k \in Thread :
          WF_vars(Goroutine(g, k)) /\ SF_vars(Runs(Quit(g, k)))

FairSpec == Spec /\ Fairness

-----------------------------------------------------------------------------
(* What the role switch promises. *)

\* The type invariant.
TypeOK ==
    /\ role \in {"follower", "leader"}
    /\ ch \in Seq({"follower", "leader"}) /\ Len(ch) <= Capacity
    /\ elector \in {"start", "top", "calling", "done"}
    /\ flaps \in 0 .. MaxFlaps
    /\ dropped \in BOOLEAN
    /\ seen \in {"none", "follower", "leader"}
    /\ pc["consumer"] \in {"receive", "start", "take", "wait", "flush"}
    /\ pc["main"] \in {"serving", "take", "wait", "flush", "cancel", "close", "drain", "exited"}
    /\ mine \in [Stopper -> Gen \cup {NoWork}]
    /\ work \in Gen \cup {NoWork}
    /\ gens \in 0 .. Cardinality(Gen)
    /\ ctx \in SUBSET Gen /\ closed \in SUBSET Gen
    /\ root \in BOOLEAN
    /\ thread \in [Gen -> [Thread -> {"none", "new", "fetch", "select", "send", "submit", "exited"}]]
    /\ group \in [Gen -> [Thread -> Gen \cup {NoWork}]]
    /\ wg \in [Gen -> 0 .. 2]
    /\ checkChan \in {"open", "closed"}
    /\ panic \in {"none", "nil work", "negative WaitGroup", "send on closed channel"}

\* A consumer that has caught up runs work exactly when the elector leads: the
\* order of the channel and the no-op cases of start and stop lose nothing.
WorkFollowsRole ==
    pc["consumer"] = "receive" /\ pc["main"] = "serving"
        /\ ch = << >> /\ elector # "start" /\ ~dropped
            => (work # NoWork <=> role = "leader")

\* A goroutine began so late that it joined the WaitGroup of the generation
\* after its own: the counters are wrong from then on.
Crossed == \E g \in Gen, k \in Thread : group[g][k] \notin {NoWork, g}

\* Nothing submits through a transport that was closed under it, as long as
\* the WaitGroups count their own goroutines.
OpenWhileUsed ==
  ~Crossed =>
    /\ \A g \in Gen : Live(g) => g \notin closed
    /\ \A s \in Stopper : pc[s] = "flush" => mine[s] \notin closed

\* Two generations of work run at once only while main is shutting down.
OneGeneration ==
    pc["main"] = "serving" =>
        \A g, h \in Gen : Live(g) /\ Live(h) => g = h

\* "Dispatcher is already stopped by stopLeaderWork, so checkChan won't see new
\* work" (main.go).
StoppedBeforeClose ==
    checkChan = "closed" =>
        \A g \in Gen : thread[g]["dispatcher"] \in {"none", "exited"}

\* main closes checkChan although "checkChan won't see new work" (main.go) is
\* not always so: but the only dispatchers it can close it under are one the
\* consumer took before main could, and is waiting for, and one the consumer
\* started after main had stopped the work.
CloseIsRaced ==
    checkChan = "closed" /\ ~Crossed =>
        \A g \in Gen :
            thread[g]["dispatcher"] \notin {"none", "exited"} =>
                g \in {mine["consumer"], work}

\* A poller that stays a follower stops all its work, if no transition was
\* dropped and no goroutine joined the wrong WaitGroup.
StepDownStops ==
    <>[](role = "follower" /\ ~dropped /\ ~Crossed) =>
        <>[](Halted \/ \A g \in Gen : ~Live(g))

\* A poller that stays up and leader has its work running, dropped transitions
\* or not: "consumer will recover via IsLeader polling" (leader.go).
LeaderWorks ==
    <>[](role = "leader" /\ pc["main"] = "serving" /\ ~Halted) => <>[](work # NoWork)

\* A signal ends the process, unless main waits for a WaitGroup whose goroutine
\* joined another.
SignalEnds == pc["main"] = "take" ~> (Halted \/ Crossed)
=============================================================================
