--------------------------- MODULE KafkaDispatch ---------------------------
(***************************************************************************)
(* The Kafka dispatcher (dispatcher/kafka.go): assignments that apapi has  *)
(* scheduled are read from the topic of the location, one after the other, *)
(* and handed to the workers with a send that waits for room.              *)
(*                                                                         *)
(* The pollers of a location share a consumer group.  The reader marks a   *)
(* message for commit before ReadMessage returns it; the marks go to the   *)
(* broker once a second and when the reader is closed.  A message that was *)
(* committed is never delivered again, whatever became of its check.       *)
(*                                                                         *)
(* Nothing makes a new leader wait for the old one's Close, so that several *)
(* readers may be open.  The partition is then with one of them, and moves *)
(* when the group says so.                                                 *)
(***************************************************************************)
EXTENDS Integers, Sequences, FiniteSets

CONSTANTS
    Poller, NoPoller,
    Malformed,        \* the offsets of messages that do not decode
    MaxConcurrency,   \* workers of a poller
    MaxOffset,        \* bound on the messages apapi produces
    MaxStops,         \* bound on step-downs
    MaxFaults         \* bound on crashes and rebalances

ConstantsOK ==
    /\ IsFiniteSet(Poller) /\ NoPoller \notin Poller
    /\ MaxConcurrency \in Nat \ {0}
    /\ MaxOffset \in Nat /\ MaxStops \in Nat /\ MaxFaults \in Nat

ChanCap == 2 * MaxConcurrency
Worker == 1 .. MaxConcurrency
Offset == 1 .. MaxOffset

VARIABLES
    produced,    \* messages in the partition
    committed,   \* the group's offset at the broker
    owner,       \* the poller the group has given the partition to
    position,    \* messages the owner's reader has returned
    marked,      \* messages it has marked for commit
    at,          \* where the Run of every poller is
    held,        \* the message it holds, 0 if none
    cancelled,   \* its context is done
    checkChan,   \* the waiting checks of every poller
    busy,        \* what each of its workers executes, 0 if nothing
    done,        \* the assignments whose check was executed
    handed,      \* how often each message was handed to workers
    stops, crashes, replays

partition == <<produced, committed, owner, position, marked>>
runs == <<at, held, cancelled>>
pool == <<checkChan, busy, done>>
faults == <<stops, crashes, replays>>
vars == <<partition, runs, pool, handed, faults>>

Init ==
    /\ produced = 0 /\ committed = 0 /\ owner = NoPoller /\ position = 0 /\ marked = 0
    /\ at = [p \in Poller |-> "closed"] /\ held = [p \in Poller |-> 0]
    /\ cancelled = [p \in Poller |-> FALSE]
    /\ checkChan = [p \in Poller |-> << >>]
    /\ busy = [p \in Poller |-> [w \in Worker |-> 0]]
    /\ done = {} /\ handed = [o \in Offset |-> 0]
    /\ stops = 0 /\ crashes = 0 /\ replays = 0

\* apapi's dispatcher decides that a monitor is due.
Produce ==
    /\ produced < MaxOffset
    /\ produced' = produced + 1
    /\ UNCHANGED <<committed, owner, position, marked, runs, pool, handed, faults>>

-----------------------------------------------------------------------------
(* Run. *)

\* startLeaderWork builds a reader and runs it, whoever else still has one.
Lead(p) ==
    /\ at[p] = "closed"
    /\ at' = [at EXCEPT ![p] = "read"] /\ cancelled' = [cancelled EXCEPT ![p] = FALSE]
    /\ UNCHANGED <<partition, held, pool, handed, faults>>

\* ReadMessage returns the next message, marked; one that does not decode is
\* left behind.  A message that is there may be returned although ctx is done.
Read(p) ==
    /\ at[p] = "read" /\ owner = p /\ position < produced
    /\ position' = position + 1 /\ marked' = position + 1
    /\ IF position + 1 \in Malformed
       THEN UNCHANGED <<at, held>>
       ELSE /\ at' = [at EXCEPT ![p] = "send"]
            /\ held' = [held EXCEPT ![p] = position + 1]
    /\ UNCHANGED <<produced, committed, owner, cancelled, pool, handed, faults>>

\* A read error, and the pause after it.
ReadFails(p) ==
    /\ at[p] = "read" /\ at' = [at EXCEPT ![p] = "backoff"]
    /\ UNCHANGED <<partition, held, cancelled, pool, handed, faults>>

BackOff(p) ==
    /\ at[p] = "backoff" /\ at' = [at EXCEPT ![p] = "read"]
    /\ UNCHANGED <<partition, held, cancelled, pool, handed, faults>>

\* A read error that is a deadline, such as a dial that timed out: Run returns
\* although its context is not done, and the poller goes on leading.
GiveUp(p) ==
    /\ at[p] = "read" /\ at' = [at EXCEPT ![p] = "exited"]
    /\ UNCHANGED <<partition, held, cancelled, pool, handed, faults>>

\* Mutant: a full channel drops the assignment, as in HTTP mode.
SendOrDrop(p) ==
    /\ at[p] = "send"
    /\ at' = [at EXCEPT ![p] = "read"] /\ held' = [held EXCEPT ![p] = 0]
    /\ IF Len(checkChan[p]) < ChanCap
       THEN /\ checkChan' = [checkChan EXCEPT ![p] = Append(@, held[p])]
            /\ handed' = [handed EXCEPT ![held[p]] = @ + 1]
       ELSE UNCHANGED <<checkChan, handed>>
    /\ UNCHANGED <<partition, cancelled, busy, done, faults>>

Send(p) ==
    /\ at[p] = "send" /\ Len(checkChan[p]) < ChanCap
    /\ at' = [at EXCEPT ![p] = "read"] /\ held' = [held EXCEPT ![p] = 0]
    /\ checkChan' = [checkChan EXCEPT ![p] = Append(@, held[p])]
    /\ handed' = [handed EXCEPT ![held[p]] = @ + 1]
    /\ UNCHANGED <<partition, cancelled, busy, done, faults>>

\* ctx.Done() while Run reads, backs off or waits for room.
Quit(p) ==
    /\ cancelled[p] /\ at[p] \in {"read", "backoff", "send"}
    /\ at' = [at EXCEPT ![p] = "exited"] /\ held' = [held EXCEPT ![p] = 0]
    /\ UNCHANGED <<partition, cancelled, pool, handed, faults>>

-----------------------------------------------------------------------------
(* Step-down, the reader's commits, and the group. *)

StepDown(p) ==
    /\ at[p] # "closed" /\ ~cancelled[p] /\ stops < MaxStops
    /\ cancelled' = [cancelled EXCEPT ![p] = TRUE] /\ stops' = stops + 1
    /\ UNCHANGED <<partition, at, held, pool, handed, crashes, replays>>

\* stopLeaderWork closes the dispatcher once Run has returned: the marks are
\* committed and the partition is free.  The workers and checkChan stay.
Close(p) ==
    /\ at[p] = "exited" /\ cancelled[p]
    /\ at' = [at EXCEPT ![p] = "closed"]
    /\ IF owner = p THEN owner' = NoPoller /\ committed' = marked
                    ELSE UNCHANGED <<owner, committed>>
    /\ UNCHANGED <<produced, position, marked, held, cancelled, pool, handed, faults>>

Commit ==
    /\ owner # NoPoller /\ committed < marked
    /\ committed' = marked
    /\ UNCHANGED <<produced, owner, position, marked, runs, pool, handed, faults>>

\* Mutant: the new owner starts with the message committed last.
AssignAgain(p) ==
    /\ at[p] # "closed"
    /\ owner' = p /\ committed' = marked
    /\ position' = (IF marked = 0 THEN 0 ELSE marked - 1)
    /\ UNCHANGED <<produced, marked, runs, pool, handed, faults>>

\* The group gives the partition to an open reader; the one that had it
\* commits its marks first, and the new owner goes on behind them.
Assign(p) ==
    /\ at[p] # "closed"
    /\ owner' = p /\ committed' = marked /\ position' = marked
    /\ UNCHANGED <<produced, marked, runs, pool, handed, faults>>

\* The same with a last commit that fails: reading starts over behind what the
\* broker has.
Rebalance(p) ==
    /\ at[p] # "closed" /\ crashes + replays < MaxFaults
    /\ replays' = replays + 1
    /\ owner' = p /\ position' = committed /\ marked' = committed
    /\ UNCHANGED <<produced, committed, runs, pool, handed, stops, crashes>>

\* A poller dies with its marks and everything its workers had.
Crash(p) ==
    /\ crashes + replays < MaxFaults
    /\ crashes' = crashes + 1
    /\ at' = [at EXCEPT ![p] = "closed"] /\ held' = [held EXCEPT ![p] = 0]
    /\ checkChan' = [checkChan EXCEPT ![p] = << >>]
    /\ busy' = [busy EXCEPT ![p] = [w \in Worker |-> 0]]
    /\ IF owner = p
       THEN owner' = NoPoller /\ position' = committed /\ marked' = committed
       ELSE UNCHANGED <<owner, position, marked>>
    /\ UNCHANGED <<produced, committed, cancelled, done, handed, stops, replays>>

-----------------------------------------------------------------------------
(* The workers, which run whether or not the poller leads. *)

Take(p, w) ==
    /\ checkChan[p] # << >> /\ busy[p][w] = 0
    /\ busy' = [busy EXCEPT ![p][w] = Head(checkChan[p])]
    /\ checkChan' = [checkChan EXCEPT ![p] = Tail(@)]
    /\ UNCHANGED <<partition, runs, done, handed, faults>>

Finish(p, w) ==
    /\ busy[p][w] # 0
    /\ busy' = [busy EXCEPT ![p][w] = 0] /\ done' = done \cup {busy[p][w]}
    /\ UNCHANGED <<partition, runs, checkChan, handed, faults>>

PollerStep(p) ==
    \/ Lead(p) \/ Read(p) \/ ReadFails(p) \/ BackOff(p) \/ GiveUp(p) \/ Send(p) \/ Quit(p)
    \/ StepDown(p) \/ Close(p) \/ Assign(p) \/ Rebalance(p) \/ Crash(p)
    \/ \E w \in Worker : Take(p, w) \/ Finish(p, w)

Next == Produce \/ Commit \/ \E p \in Poller : PollerStep(p)

Spec == Init /\ [][Next]_vars

-----------------------------------------------------------------------------
(* What is lost and what is done twice. *)

TypeOK ==
    /\ produced \in 0 .. MaxOffset
    /\ committed \in 0 .. marked /\ marked \in 0 .. produced /\ position \in 0 .. produced
    /\ owner # NoPoller => owner \in Poller /\ at[owner] # "closed"
    /\ at \in [Poller -> {"closed", "read", "backoff", "send", "exited"}]
    /\ held \in [Poller -> Offset \cup {0}]
    /\ \A p \in Poller : at[p] = "send" <=> held[p] # 0
    /\ cancelled \in [Poller -> BOOLEAN]
    /\ checkChan \in [Poller -> Seq(Offset)]
    /\ busy \in [Poller -> [Worker -> Offset \cup {0}]]
    /\ done \subseteq Offset
    /\ handed \in [Offset -> Nat]
    /\ stops \in 0 .. MaxStops /\ crashes \in Nat /\ replays \in Nat

Queued(p) == {checkChan[p][i] : i \in DOMAIN checkChan[p]}
Executing(p) == {busy[p][w] : w \in Worker}
Held == {held[p] : p \in Poller}

\* The messages that will never be delivered again and whose check neither
\* was nor can still be executed.
Gone ==
    {o \in 1 .. committed \ (Malformed \cup done \cup Held) :
        \A p \in Poller : o \notin Queued(p) \cup Executing(p)}

\* "The new leader will re-run any pending checks" (main.go) does not hold for
\* what the reader has marked; but a step-down costs at most the one assignment
\* that waits for room, and a crash that one, the channel and the workers, even
\* while the readers of two leaders overlap.
LossIsBounded ==
    Cardinality(Gone) <= stops + crashes * (1 + ChanCap + MaxConcurrency)

\* An assignment is executed again only after a crash or a rebalance took back
\* the marks that covered it: every orderly change of the partition's owner
\* resumes where the last one stopped.
DuplicatesAreBounded ==
    \A o \in Offset : handed[o] <= 1 + crashes + replays
=============================================================================
