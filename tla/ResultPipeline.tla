--------------------------- MODULE ResultPipeline ---------------------------
(***************************************************************************)
(* The way of a check through one poller process (cmd/main.go): from the   *)
(* dispatcher over checkChan to a worker, into the result buffer, and in   *)
(* batches to the sink; with a step-down that drains the buffer, a poller  *)
(* that leads again later, and the shutdown.                               *)
(*                                                                         *)
(* Checks are numbered in the order of dispatch.  One generation of leader *)
(* work exists at a time (RoleSwitch says when two can overlap).           *)
(***************************************************************************)
EXTENDS Integers, Sequences, FiniteSets, Functions

CONSTANTS
    Worker,        \* the worker pool: MaxConcurrency goroutines
    Idle,          \* a worker without a check
    MaxChecks,     \* bound on checks dispatched
    MaxTerms,      \* bound on the times the poller becomes leader
    MaxFailures    \* bound on failed submissions

ASSUME PipelineAssumption ==
    /\ IsFiniteSet(Worker)
    /\ Idle \notin 1 .. MaxChecks
    /\ MaxChecks \in Nat
    /\ MaxTerms \in Nat
    /\ MaxFailures \in Nat

Check == 1 .. MaxChecks
ChanCap == 2 * Cardinality(Worker)
Flusher == {"flusher", "stopper"}   \* the flush ticker, and stopLeaderWork

VARIABLES
    sentIn,     \* the term in which each check was dispatched
    checkChan,  \* the dispatched checks no worker took yet
    busy,       \* the check each worker executes
    buffer,     \* resultBuffer
    batch,      \* what a flush took from the buffer and is submitting
    phase,      \* of the leader work
    running,    \* the goroutines of the leader work that have not exited
    terms,      \* how often the poller became leader
    main,       \* serving; in its stopLeaderWork; or past it
    chanClosed, \* main closed checkChan
    failures,   \* failed submissions so far
    received,   \* every result the sink received
    late,       \* results of failed submissions, by failure, the sink may yet receive
    ambiguous,  \* history: there was such a result
    lost        \* checks dropped: channel full, step-down, exit

vars == <<sentIn, checkChan, busy, buffer, batch, phase, running, terms,
          main, chanClosed, failures, received, late, ambiguous, lost>>

control == <<phase, running, terms, main, chanClosed>>
sink == <<failures, received, late, ambiguous>>

Executing == {busy[w] : w \in Worker} \ {Idle}
InFlight == Range(checkChan) \cup Executing \cup Range(buffer)
                \cup Range(batch["flusher"]) \cup Range(batch["stopper"])

Init ==
    /\ sentIn = << >> /\ checkChan = << >>
    /\ busy = [w \in Worker |-> Idle]
    /\ buffer = << >>
    /\ batch = [f \in Flusher |-> << >>]
    /\ phase = "off" /\ running = {} /\ terms = 0
    /\ main = "serving" /\ chanClosed = FALSE
    /\ failures = 0 /\ received = << >> /\ late = {} /\ ambiguous = FALSE
    /\ lost = {}

-----------------------------------------------------------------------------
(* The leader work comes and goes. *)

\* startLeaderWork.
Lead ==
    /\ phase = "off" /\ main = "serving"
    /\ terms < MaxTerms
    /\ terms' = terms + 1
    /\ phase' = "on"
    /\ running' = {"dispatcher", "flusher"}
    /\ UNCHANGED <<sentIn, checkChan, busy, buffer, batch, main, chanClosed, sink, lost>>

\* stopLeaderWork cancels the context, for a step-down or a signal.
StepDown ==
    /\ phase = "on"
    /\ phase' = "stopping"
    /\ UNCHANGED <<sentIn, checkChan, busy, buffer, batch, running, terms,
                   main, chanClosed, sink, lost>>

\* If there is no work to stop, or the consumer is already stopping it, main's
\* own stopLeaderWork returns at once.
Signal ==
    /\ main = "serving"
    /\ main' = IF phase = "on" THEN "stopping" ELSE "stopped"
    /\ phase' = IF phase = "on" THEN "stopping" ELSE phase
    /\ UNCHANGED <<sentIn, checkChan, busy, buffer, batch, running, terms, chanClosed, sink, lost>>

\* Mutant: the flush loop has no ctx.Done() case.
LeaveDispatcherOnly(k) ==
    /\ phase = "stopping" /\ k \in running
    /\ k = "dispatcher"
    /\ running' = running \ {k}
    /\ UNCHANGED <<sentIn, checkChan, busy, buffer, batch, phase, terms,
                   main, chanClosed, sink, lost>>

\* A goroutine sees ctx.Done(); the flusher only between two flushes.
Leave(k) ==
    /\ phase = "stopping" /\ k \in running
    /\ k = "flusher" => batch["flusher"] = << >>
    /\ running' = running \ {k}
    /\ UNCHANGED <<sentIn, checkChan, busy, buffer, batch, phase, terms,
                   main, chanClosed, sink, lost>>

\* w.wg.Wait() is over and the final flush begins: it has a result to submit
\* or nothing to do.
FinalFlush ==
    /\ phase = "stopping" /\ running = {}
    /\ phase' = "final"
    /\ batch' = [batch EXCEPT !["stopper"] = buffer]
    /\ buffer' = << >>
    /\ UNCHANGED <<sentIn, checkChan, busy, running, terms, main, chanClosed, sink, lost>>

\* Transport closed; whatever could not be flushed is dropped.
DropRest ==
    /\ phase = "final" /\ batch["stopper"] = << >>
    /\ phase' = "off"
    /\ lost' = lost \cup Range(buffer)
    /\ buffer' = << >>
    /\ UNCHANGED <<sentIn, checkChan, busy, batch, running, terms, main, chanClosed, sink>>

\* main, once its stopLeaderWork returned.
CloseChan ==
    /\ ~chanClosed
    /\ main = "stopped" \/ (main = "stopping" /\ phase = "off")
    /\ main' = "stopped"
    /\ chanClosed' = TRUE
    /\ UNCHANGED <<sentIn, checkChan, busy, buffer, batch, phase, running, terms, sink, lost>>

\* The workers are done, or 30 s went by: the process ends with what it holds.
Exit ==
    /\ chanClosed /\ phase # "exited"
    /\ phase' = "exited"
    /\ running' = {}
    /\ lost' = lost \cup InFlight
    /\ checkChan' = << >> /\ buffer' = << >>
    /\ busy' = [w \in Worker |-> Idle]
    /\ batch' = [f \in Flusher |-> << >>]
    /\ UNCHANGED <<sentIn, terms, main, chanClosed, sink>>

-----------------------------------------------------------------------------
(* Checks and results. *)

\* Mutant: no look at the room left.
DispatchOverfull ==
    /\ "dispatcher" \in running /\ ~chanClosed
    /\ Len(sentIn) < MaxChecks
    /\ sentIn' = Append(sentIn, terms)
    /\ checkChan' = Append(checkChan, Len(sentIn) + 1)
    /\ UNCHANGED <<busy, buffer, batch, control, sink, lost>>

\* The dispatcher never waits for room: a check that finds none is dropped.
\* (A send on the closed channel would panic: RoleSwitch.)
Dispatch ==
    /\ "dispatcher" \in running /\ ~chanClosed
    /\ Len(sentIn) < MaxChecks
    /\ sentIn' = Append(sentIn, terms)
    /\ LET c == Len(sentIn) + 1 IN
       IF Len(checkChan) < ChanCap
       THEN checkChan' = Append(checkChan, c) /\ UNCHANGED lost
       ELSE lost' = lost \cup {c} /\ UNCHANGED checkChan
    /\ UNCHANGED <<busy, buffer, batch, control, sink>>

\* Workers run whatever the role is.
TakeCheck(w) ==
    /\ busy[w] = Idle /\ checkChan # << >>
    /\ busy' = [busy EXCEPT ![w] = Head(checkChan)]
    /\ checkChan' = Tail(checkChan)
    /\ UNCHANGED <<sentIn, buffer, batch, control, sink, lost>>

FinishCheck(w) ==
    /\ busy[w] # Idle
    /\ buffer' = Append(buffer, busy[w])
    /\ busy' = [busy EXCEPT ![w] = Idle]
    /\ UNCHANGED <<sentIn, checkChan, batch, control, sink, lost>>

\* Mutant: the buffer is copied and not emptied.
BeginFlushCopies ==
    /\ "flusher" \in running /\ batch["flusher"] = << >>
    /\ buffer # << >>
    /\ batch' = [batch EXCEPT !["flusher"] = buffer]
    /\ UNCHANGED <<sentIn, checkChan, busy, buffer, control, sink, lost>>

\* Mutant: a single result is not worth a flush.
BeginFlushLater ==
    /\ "flusher" \in running /\ batch["flusher"] = << >>
    /\ Len(buffer) > 1
    /\ batch' = [batch EXCEPT !["flusher"] = buffer]
    /\ buffer' = << >>
    /\ UNCHANGED <<sentIn, checkChan, busy, control, sink, lost>>

\* flushResults, first half: take the whole buffer under the lock.
BeginFlush ==
    /\ "flusher" \in running /\ batch["flusher"] = << >>
    /\ buffer # << >>
    /\ batch' = [batch EXCEPT !["flusher"] = buffer]
    /\ buffer' = << >>
    /\ UNCHANGED <<sentIn, checkChan, busy, control, sink, lost>>

\* flushResults, second half: Submit returned.
SubmitOK(f) ==
    /\ batch[f] # << >>
    /\ received' = received \o batch[f]
    /\ batch' = [batch EXCEPT ![f] = << >>]
    /\ UNCHANGED <<sentIn, checkChan, busy, buffer, control, failures, late, ambiguous, lost>>

\* Mutant: what finished during the submission is overwritten.
RequeueOverwrites(f) ==
    /\ buffer' = batch[f]
    /\ batch' = [batch EXCEPT ![f] = << >>]

\* Mutant: the batch goes behind what finished meanwhile.
RequeueBehind(f) ==
    /\ buffer' = buffer \o batch[f]
    /\ batch' = [batch EXCEPT ![f] = << >>]

\* The batch goes back in front of what finished meanwhile.
Requeue(f) ==
    /\ buffer' = batch[f] \o buffer
    /\ batch' = [batch EXCEPT ![f] = << >>]

\* An error, or no answer in time.  Any part of the batch may still be on its
\* way: to apapi, or to some partitions of the results topic.
SubmitFails(f) ==
    /\ batch[f] # << >>
    /\ failures < MaxFailures
    /\ failures' = failures + 1
    /\ Requeue(f)
    /\ \E sent \in SUBSET Range(batch[f]) :
          /\ late' = late \cup ({failures'} \X sent)
          /\ ambiguous' = (ambiguous \/ sent # {})
    /\ UNCHANGED <<sentIn, checkChan, busy, control, received, lost>>

\* The sink receives a result of a submission that failed: at once, or after
\* the retry, the step-down or the exit.  It may also never do so.
ArriveLate ==
    /\ \E o \in late : received' = Append(received, o[2]) /\ late' = late \ {o}
    /\ UNCHANGED <<sentIn, checkChan, busy, buffer, batch, control, failures, ambiguous, lost>>

Exited == phase = "exited" /\ UNCHANGED vars

Next ==
    \/ Lead \/ StepDown \/ Signal \/ FinalFlush \/ DropRest \/ CloseChan \/ Exit
    \/ \E k \in {"dispatcher", "flusher"} : Leave(k)
    \/ Dispatch
    \/ \E w \in Worker : TakeCheck(w) \/ FinishCheck(w)
    \/ BeginFlush
    \/ \E f \in Flusher : SubmitOK(f) \/ SubmitFails(f)
    \/ ArriveLate
    \/ Exited

Spec == Init /\ [][Next]_vars

\* Goroutines that can run do, checks and submissions end, and a goroutine
\* whose context is done is not passed over for ever by its select.
Fairness ==
    /\ \A w \in Worker : WF_vars(TakeCheck(w)) /\ WF_vars(FinishCheck(w))
    /\ WF_vars(BeginFlush)
    /\ \A f \in Flusher : WF_vars(SubmitOK(f) \/ SubmitFails(f))
    /\ \A k \in {"dispatcher", "flusher"} : SF_vars(Leave(k))
    /\ WF_vars(FinalFlush) /\ WF_vars(DropRest) /\ WF_vars(CloseChan) /\ WF_vars(Exit)

FairSpec == Spec /\ Fairness

-----------------------------------------------------------------------------
(* What the result path promises. *)

\* The type invariant.
TypeOK ==
    /\ sentIn \in Seq(1 .. MaxTerms) /\ Len(sentIn) <= MaxChecks
    /\ checkChan \in Seq(Check) /\ Len(checkChan) <= ChanCap
    /\ busy \in [Worker -> Check \cup {Idle}]
    /\ buffer \in Seq(Check)
    /\ batch \in [Flusher -> Seq(Check)]
    /\ phase \in {"off", "on", "stopping", "final", "exited"}
    /\ running \in SUBSET {"dispatcher", "flusher"}
    /\ terms \in 0 .. MaxTerms
    /\ main \in {"serving", "stopping", "stopped"}
    /\ chanClosed \in BOOLEAN
    /\ failures \in 0 .. MaxFailures
    /\ received \in Seq(Check)
    /\ late \in SUBSET ((1 .. MaxFailures) \X Check)
    /\ ambiguous \in BOOLEAN
    /\ lost \in SUBSET Check

\* How many places a dispatched check is in at this moment.
Occurrences(c) ==
    Cardinality({w \in Worker : busy[w] = c})
    + Cardinality({k \in DOMAIN checkChan : checkChan[k] = c})
    + Cardinality({k \in DOMAIN buffer : buffer[k] = c})
    + Cardinality({k \in DOMAIN batch["flusher"] : batch["flusher"][k] = c})
    + Cardinality({k \in DOMAIN batch["stopper"] : batch["stopper"][k] = c})

\* A dispatched check never vanishes and is never copied: it is in one place
\* of the pipeline, or was received or dropped, across failed submissions,
\* step-downs and new terms.
Conservation ==
    \A c \in 1 .. Len(sentIn) :
        LET n == Occurrences(c) IN
        /\ n <= 1
        /\ n = 0 => c \in lost \cup Range(received)
        /\ n = 1 => c \notin lost /\ (c \in Range(received) => ambiguous)

\* The sink receives a result twice only after a submission whose outcome the
\* poller could not know.
DuplicatesAreAmbiguous == ~ambiguous => IsInjective(received)

\* The result path implements the abstract delivery promise.
Delivery == INSTANCE ResultDelivery WITH
    Result <- Check,
    pending <- batch["flusher"] \o batch["stopper"] \o buffer,
    straying <- {o[2] : o \in late},
    serving <- (phase = "on")

ImplementsDelivery == Delivery!Spec

\* A poller that goes on leading gets every finished result out.
ResultsGetOut ==
    \A c \in Check : (c \in Range(buffer)) ~> (c \notin InFlight \/ phase # "on")

\* A signal ends the process, with whatever failures.
SignalEnds == (main # "serving") ~> (phase = "exited")

\* "stopLeaderWork does a final drain so in-flight results aren't lost", and
\* main waits for in-flight checks (main.go): once they are done, no result is
\* left that nobody will submit.
DrainLosesNothing ==
    chanClosed /\ phase = "off" /\ checkChan = << >> /\ Executing = {} => buffer = << >>
=============================================================================
