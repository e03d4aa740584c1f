-------------------------- MODULE LeaderTransport --------------------------
(***************************************************************************)
(* buildTransport (cmd/main.go): a leader gets its checks from the HTTP    *)
(* dispatcher with its scheduler, or from the Kafka dispatcher, as the     *)
(* configured mode says.  The one that is not built stays in its initial   *)
(* state.                                                                  *)
(***************************************************************************)
EXTENDS HTTPDispatch

CONSTANTS Poller, NoPoller, Malformed, MaxOffset, MaxStops, MaxFaults

VARIABLES
    mode,
    produced, committed, owner, position, marked, at, held, kafkaCancelled,
    kafkaChan, executing, done, handed, stops, crashes, replays

Kafka == INSTANCE KafkaDispatch
             WITH cancelled <- kafkaCancelled, checkChan <- kafkaChan, busy <- executing

ASSUME KafkaAssumption == Kafka!ConstantsOK

kafkaVars == <<produced, committed, owner, position, marked, at, held, kafkaCancelled,
               kafkaChan, executing, done, handed, stops, crashes, replays>>

transport == <<mode, vars, kafkaVars>>

TransportInit == mode \in {"http", "kafka"} /\ Init /\ Kafka!Init

HTTPStep == mode = "http" /\ Next /\ UNCHANGED <<mode, kafkaVars>>

KafkaStep == mode = "kafka" /\ Kafka!Next /\ UNCHANGED <<mode, vars>>

Rest == mode = "kafka" /\ UNCHANGED transport

TransportNext == HTTPStep \/ KafkaStep \/ Rest

TransportSpec == TransportInit /\ [][TransportNext]_transport

-----------------------------------------------------------------------------
(* The properties of the Kafka dispatcher, of the leader that uses it. *)

\* What a step-down or a crash loses of the marked assignments (KafkaDispatch).
LossIsBounded == Kafka!LossIsBounded

\* How often an assignment is handed out (KafkaDispatch).
DuplicatesAreBounded == Kafka!DuplicatesAreBounded
=============================================================================
