--------------------------- MODULE PipelineProofs ---------------------------
(***************************************************************************)
(* ResultPipeline implements ResultDelivery, and no check is lost          *)
(* unaccounted for, copied, or received twice without a submission of      *)
(* unknown outcome: for every number of workers, checks, terms and         *)
(* failures.                                                               *)
(***************************************************************************)
EXTENDS ResultPipeline, SequenceTheorems, FiniteSetTheorems, TLAPS

USE PipelineAssumption

pendingBar == batch["flusher"] \o batch["stopper"] \o buffer
strayingBar == {o[2] : o \in late}

\* The types the argument needs.
Types ==
    /\ buffer \in Seq(Check)
    /\ batch \in [Flusher -> Seq(Check)]
    /\ busy \in [Worker -> Check \cup {Idle}]
    /\ checkChan \in Seq(Check)
    /\ sentIn \in Seq(Nat) /\ terms \in Nat
    /\ received \in Seq(Check)
    /\ late \in SUBSET ((1 .. MaxFailures) \X Check) /\ failures \in 0 .. MaxFailures
    /\ phase \in {"off", "on", "stopping", "final", "exited"}

\* At most one flush is under way: the ticker's while its goroutine lives, the
\* stopper's after all goroutines are gone.
FlushInv ==
    /\ batch["flusher"] # << >> => "flusher" \in running
    /\ batch["stopper"] # << >> => phase = "final"
    /\ phase \in {"off", "final", "exited"} => running = {}
    /\ main # "serving" => phase # "on"
    /\ chanClosed => main # "serving"

Inv == Types /\ FlushInv

-----------------------------------------------------------------------------
(* Sequences. *)

\* Delivering the front of a concatenation.
LEMMA FrontOfConcat ==
  ASSUME NEW S, NEW s \in Seq(S), NEW t \in Seq(S), s # << >>
  PROVE  /\ Len(s) \in 1 .. Len(s \o t)
         /\ SubSeq(s \o t, 1, Len(s)) = s
         /\ SubSeq(s \o t, Len(s) + 1, Len(s \o t)) = t
<1>1. Len(s) \in Nat \ {0} /\ Len(t) \in Nat /\ Len(s \o t) = Len(s) + Len(t)
  BY EmptySeq, LenProperties, ConcatProperties
<1>2. SubSeq(s \o t, 1, Len(s)) = s
  <2>1. SubSeq(s \o t, 1, Len(s)) = SubSeq(s, 1, Len(s))
    BY <1>1, SubSeqOfConcat1
  <2> QED  BY <2>1, SubSeqFull
<1>3. SubSeq(s \o t, Len(s) + 1, Len(s \o t)) = t
  <2>1. CASE t = << >>
    <3>1. Len(t) = 0
      BY <2>1, EmptySeq
    <3> QED  BY <1>1, <2>1, <3>1, SubSeqEmpty
  <2>2. CASE t # << >>
    <3>1. Len(t) \in Nat \ {0}
      BY <2>2, EmptySeq
    <3>2. SubSeq(s \o t, Len(s) + 1, Len(s) + Len(t)) = SubSeq(t, 1, Len(t))
      BY <1>1, <3>1, SubSeqOfConcat2
    <3> QED  BY <1>1, <3>2, SubSeqFull
  <2> QED  BY <2>1, <2>2
<1> QED  BY <1>1, <1>2, <1>3

LEMMA AppendOfConcat ==
  ASSUME NEW S, NEW s \in Seq(S), NEW t \in Seq(S), NEW e \in S
  PROVE  s \o Append(t, e) = Append(s \o t, e)
<1>1. << e >> \in Seq(S)
  OBVIOUS
<1>2. Append(t, e) = t \o << e >> /\ s \o t \in Seq(S)
  BY AppendIsConcat, ConcatProperties
<1>3. Append(s \o t, e) = s \o t \o << e >>
  BY <1>2, AppendIsConcat
<1> QED  BY <1>1, <1>2, <1>3, ConcatAssociative

-----------------------------------------------------------------------------
(* The invariant. *)

LEMMA InitInv == Init => Inv
  BY DEF Init, Inv, Types, FlushInv, Flusher

LEMMA TypesStep == Inv /\ [Next]_vars => Types'
<1> SUFFICES ASSUME Inv, [Next]_vars PROVE Types'
  OBVIOUS
<1> USE DEF Inv, Types, Flusher, control, sink
<1>1. CASE Lead \/ StepDown \/ Signal \/ CloseChan
  BY <1>1 DEF Lead, StepDown, Signal, CloseChan
<1>2. CASE FinalFlush
  BY <1>2 DEF FinalFlush
<1>3. CASE DropRest
  BY <1>3 DEF DropRest
<1>12. CASE Exit
  BY <1>12 DEF Exit
<1>4. ASSUME NEW k \in {"dispatcher", "flusher"}, Leave(k) PROVE Types'
  BY <1>4 DEF Leave
<1>5. CASE Dispatch
  <2>1. Len(sentIn) + 1 \in Check
    BY <1>5, LenProperties DEF Dispatch, Check
  <2>2. sentIn' \in Seq(Nat)
    BY <1>5, AppendProperties DEF Dispatch
  <2>3. checkChan' \in Seq(Check)
    <3>1. Append(checkChan, Len(sentIn) + 1) \in Seq(Check)
      BY <2>1, AppendProperties
    <3> QED  BY <1>5, <3>1 DEF Dispatch
  <2> QED  BY <1>5, <2>2, <2>3 DEF Dispatch
<1>6. ASSUME NEW w \in Worker, TakeCheck(w) PROVE Types'
  BY <1>6 DEF TakeCheck
<1>7. ASSUME NEW w \in Worker, FinishCheck(w) PROVE Types'
  BY <1>7 DEF FinishCheck
<1>8. CASE BeginFlush
  BY <1>8 DEF BeginFlush
<1>9. ASSUME NEW f \in Flusher, SubmitOK(f) PROVE Types'
  BY <1>9, ConcatProperties DEF SubmitOK
<1>10. ASSUME NEW f \in Flusher, SubmitFails(f) PROVE Types'
  <2>1. batch[f] \o buffer \in Seq(Check)
    BY ConcatProperties
  <2>2. buffer' \in Seq(Check) /\ batch' \in [Flusher -> Seq(Check)]
    BY <1>10, <2>1 DEF SubmitFails, Requeue
  <2>3. failures' \in 1 .. MaxFailures
    BY <1>10 DEF SubmitFails
  <2>4. Range(batch[f]) \subseteq Check
    BY RangeOfSeq
  <2>5. PICK sent \in SUBSET Range(batch[f]) : late' = late \cup ({failures'} \X sent)
    BY <1>10 DEF SubmitFails
  <2>6. late' \in SUBSET ((1 .. MaxFailures) \X Check)
    BY <2>3, <2>4, <2>5
  <2> QED  BY <1>10, <2>2, <2>3, <2>6 DEF SubmitFails
<1>13. CASE ArriveLate
  <2>1. PICK o \in late : received' = Append(received, o[2]) /\ late' = late \ {o}
    BY <1>13 DEF ArriveLate
  <2>2. o[2] \in Check
    BY <2>1
  <2>3. received' \in Seq(Check)
    BY <2>1, <2>2, AppendProperties
  <2> QED  BY <1>13, <2>1, <2>3 DEF ArriveLate
<1>11. CASE UNCHANGED vars
  BY <1>11 DEF vars
<1> QED
  BY <1>1, <1>2, <1>3, <1>4, <1>5, <1>6, <1>7, <1>8, <1>9, <1>10, <1>11, <1>12, <1>13
     DEF Next, Exited

LEMMA FlushStep == Inv /\ [Next]_vars => FlushInv'
<1> SUFFICES ASSUME Inv, [Next]_vars PROVE FlushInv'
  OBVIOUS
<1> USE DEF Inv, Types, FlushInv, Flusher, control, sink
<1>1. CASE Lead \/ StepDown \/ Signal \/ CloseChan
  BY <1>1 DEF Lead, StepDown, Signal, CloseChan
<1>2. CASE FinalFlush
  BY <1>2 DEF FinalFlush
<1>3. CASE DropRest \/ Exit
  BY <1>3 DEF DropRest, Exit
<1>4. ASSUME NEW k \in {"dispatcher", "flusher"}, Leave(k) PROVE FlushInv'
  BY <1>4 DEF Leave
<1>5. CASE Dispatch
  BY <1>5 DEF Dispatch
<1>6. ASSUME NEW w \in Worker, TakeCheck(w) \/ FinishCheck(w) PROVE FlushInv'
  BY <1>6, SMTT(30) DEF TakeCheck, FinishCheck
<1>7. CASE BeginFlush
  BY <1>7 DEF BeginFlush
<1>8. ASSUME NEW f \in Flusher, SubmitOK(f) PROVE FlushInv'
  BY <1>8 DEF SubmitOK
<1>9. ASSUME NEW f \in Flusher, SubmitFails(f) PROVE FlushInv'
  BY <1>9 DEF SubmitFails, Requeue
<1>10. CASE ArriveLate \/ UNCHANGED vars
  BY <1>10 DEF ArriveLate, vars
<1> QED
  BY <1>1, <1>2, <1>3, <1>4, <1>5, <1>6, <1>7, <1>8, <1>9, <1>10 DEF Next, Exited

-----------------------------------------------------------------------------
(* The refinement. *)

\* The pending results, by the flush under way.
LEMMA PendingIs ==
  ASSUME NEW S, NEW fl \in Seq(S), NEW st \in Seq(S), NEW bf \in Seq(S)
  PROVE  /\ fl \o st \o bf \in Seq(S)
         /\ st = << >> => fl \o st \o bf = fl \o bf
         /\ fl = << >> => fl \o st \o bf = st \o bf
         /\ fl = << >> /\ st = << >> => fl \o st \o bf = bf
<1>1. fl \o st \in Seq(S)
  BY ConcatProperties
<1>2. fl \o st \o bf \in Seq(S)
  BY <1>1, ConcatProperties
<1>3. st = << >> => fl \o st = fl
  BY ConcatEmptySeq
<1>4. fl = << >> => fl \o st = st
  BY ConcatEmptySeq
<1>5. << >> \o bf = bf
  BY ConcatEmptySeq
<1> QED  BY <1>2, <1>3, <1>4, <1>5

\* What a flush f has under way, while the other one has nothing.
LEMMA OneFlush ==
  ASSUME Inv, NEW f \in Flusher, batch[f] # << >>
  PROVE  /\ batch[f] \in Seq(Check) /\ buffer \in Seq(Check)
         /\ pendingBar = batch[f] \o buffer
         /\ [batch EXCEPT ![f] = << >>]["flusher"] = << >>
         /\ [batch EXCEPT ![f] = << >>]["stopper"] = << >>
<1> USE DEF Inv, Types, FlushInv, Flusher
<1>1. batch["flusher"] \in Seq(Check) /\ batch["stopper"] \in Seq(Check)
  OBVIOUS
<1>2. CASE f = "flusher"
  <2>1. batch["stopper"] = << >>
    BY <1>2
  <2> QED  BY <1>1, <1>2, <2>1, PendingIs DEF pendingBar
<1>3. CASE f = "stopper"
  <2>1. batch["flusher"] = << >>
    BY <1>3
  <2> QED  BY <1>1, <1>3, <2>1, PendingIs DEF pendingBar
<1> QED  BY <1>2, <1>3

\* With no flush under way the pending results are the buffer.
LEMMA NoFlush ==
  ASSUME NEW b \in [Flusher -> Seq(Check)], NEW bf \in Seq(Check),
         b["flusher"] = << >>, b["stopper"] = << >>
  PROVE  b["flusher"] \o b["stopper"] \o bf = bf
  BY PendingIs, EmptySeq DEF Flusher

\* The results of one more failed submission.
LEMMA CopiesAdded ==
  ASSUME NEW A, NEW n, NEW S
  PROVE  {o[2] : o \in A \cup ({n} \X S)} = {o[2] : o \in A} \cup S
<1>1. ASSUME NEW x \in S PROVE x \in {o[2] : o \in A \cup ({n} \X S)}
  <2>1. << n, x >> \in A \cup ({n} \X S) /\ << n, x >>[2] = x
    OBVIOUS
  <2> QED  BY <2>1
<1>2. ASSUME NEW o \in A \cup ({n} \X S) PROVE o \in A \/ o[2] \in S
  OBVIOUS
<1> QED  BY <1>1, <1>2

\* Every step of the pipeline is a step of the delivery promise, or none.
LEMMA StepRefines ==
  Inv /\ Inv' /\ [Next]_vars => [Delivery!Next]_(Delivery!vars)
<1> SUFFICES ASSUME Inv, Inv', [Next]_vars
             PROVE  Delivery!Next \/ UNCHANGED <<pendingBar, strayingBar, received, phase = "on">>
  BY DEF Delivery!vars, pendingBar, strayingBar
<1> USE DEF Inv, control, sink
<1>a. Types /\ Types' /\ FlushInv
  OBVIOUS
<1>1. CASE Lead \/ StepDown
  BY <1>1 DEF Lead, StepDown, Delivery!Next, Delivery!SwitchRole
<1>2. CASE Signal
  BY <1>2 DEF Signal, pendingBar, strayingBar, Delivery!Next, Delivery!SwitchRole
<1>3. CASE CloseChan
  BY <1>3 DEF CloseChan, pendingBar, strayingBar
<1>4. CASE FinalFlush
  <2>1. batch["flusher"] = << >> /\ batch["stopper"] = << >>
    BY <1>4 DEF FinalFlush, FlushInv
  <2>2. pendingBar = buffer
    BY <2>1, NoFlush DEF Types, pendingBar
  <2>3. /\ batch'["flusher"] = << >> /\ batch'["stopper"] = buffer /\ buffer' = << >>
        /\ buffer \in Seq(Check) /\ << >> \in Seq(Check)
    BY <1>4, <2>1 DEF FinalFlush, Types, Flusher
  <2>4. << >> \o buffer \o << >> = buffer
    BY <2>3, PendingIs, ConcatEmptySeq
  <2>5. pendingBar' = buffer
    BY <2>3, <2>4 DEF pendingBar
  <2> QED  BY <1>4, <2>2, <2>5 DEF FinalFlush, strayingBar
<1>5. CASE DropRest
  <2>1. batch["flusher"] = << >> /\ batch["stopper"] = << >>
    BY <1>5 DEF DropRest, FlushInv
  <2>2. pendingBar' = << >>
    BY <1>5, <2>1, NoFlush, <1>a DEF DropRest, Types, pendingBar
  <2> QED  BY <1>5, <2>2 DEF DropRest, Delivery!Next, Delivery!GiveUp, pendingBar, strayingBar
<1>6. CASE Exit
  <2>1. phase # "on" /\ phase' # "on"
    BY <1>6 DEF Exit, FlushInv
  <2>2. batch'["flusher"] = << >> /\ batch'["stopper"] = << >> /\ buffer' = << >>
    BY <1>6 DEF Exit, Flusher
  <2>3. pendingBar' = << >>
    BY <2>2, NoFlush, <1>a DEF Types, pendingBar
  <2> QED  BY <1>6, <2>1, <2>3 DEF Exit, Delivery!Next, Delivery!GiveUp, pendingBar, strayingBar
<1>7. ASSUME NEW k \in {"dispatcher", "flusher"}, Leave(k)
      PROVE  UNCHANGED <<pendingBar, strayingBar, received, phase = "on">>
  BY <1>7 DEF Leave, pendingBar, strayingBar
<1>8. CASE Dispatch
  BY <1>8 DEF Dispatch, pendingBar, strayingBar
<1>9. ASSUME NEW w \in Worker, TakeCheck(w)
      PROVE  UNCHANGED <<pendingBar, strayingBar, received, phase = "on">>
  BY <1>9 DEF TakeCheck, pendingBar, strayingBar
<1>10. ASSUME NEW w \in Worker, FinishCheck(w) PROVE Delivery!Next
  <2>1. busy[w] \in Check /\ buffer' = Append(buffer, busy[w])
    BY <1>10 DEF FinishCheck, Types
  <2>2. batch["flusher"] \o batch["stopper"] \in Seq(Check)
    BY ConcatProperties DEF Types, Flusher
  <2>3. pendingBar' = batch["flusher"] \o batch["stopper"] \o Append(buffer, busy[w])
    BY <1>10, <2>1 DEF FinishCheck, pendingBar
  <2>4. pendingBar' = Append(pendingBar, busy[w])
    <3>1. buffer \in Seq(Check)
      BY DEF Types
    <3> DEFINE flushed == batch["flusher"] \o batch["stopper"]
    <3>2. flushed \in Seq(Check)
      BY <2>2
    <3>3. pendingBar = flushed \o buffer /\ pendingBar' = flushed \o Append(buffer, busy[w])
      BY <2>3 DEF pendingBar
    <3> HIDE DEF flushed
    <3>4. flushed \o Append(buffer, busy[w]) = Append(flushed \o buffer, busy[w])
      BY <2>1, <3>1, <3>2, AppendOfConcat
    <3> QED  BY <3>3, <3>4
  <2> QED  BY <1>10, <2>1, <2>4
           DEF FinishCheck, Delivery!Next, Delivery!Complete, pendingBar, strayingBar
<1>11. CASE BeginFlush
  <2>1. batch["flusher"] = << >> /\ batch["stopper"] = << >>
    BY <1>11 DEF BeginFlush, FlushInv
  <2>2. pendingBar = buffer
    BY <2>1, NoFlush DEF Types, pendingBar
  <2>3. /\ batch'["flusher"] = buffer /\ batch'["stopper"] = << >> /\ buffer' = << >>
        /\ buffer \in Seq(Check) /\ << >> \in Seq(Check)
    BY <1>11, <2>1 DEF BeginFlush, Types, Flusher
  <2>4. buffer \o << >> \o << >> = buffer
    BY <2>3, ConcatEmptySeq
  <2>5. pendingBar' = buffer
    BY <2>3, <2>4 DEF pendingBar
  <2> QED  BY <1>11, <2>2, <2>5 DEF BeginFlush, strayingBar
<1>12. ASSUME NEW f \in Flusher, SubmitOK(f) PROVE Delivery!Next
  <2>1. batch[f] # << >> /\ pendingBar = batch[f] \o buffer
    BY <1>12, OneFlush DEF SubmitOK
  <2>2. /\ Len(batch[f]) \in 1 .. Len(pendingBar)
        /\ SubSeq(pendingBar, 1, Len(batch[f])) = batch[f]
        /\ SubSeq(pendingBar, Len(batch[f]) + 1, Len(pendingBar)) = buffer
    BY <2>1, FrontOfConcat DEF Types
  <2>3. pendingBar' = buffer
    <3>1. batch'["flusher"] = << >> /\ batch'["stopper"] = << >> /\ buffer' = buffer
      BY <1>12, <2>1, OneFlush DEF SubmitOK
    <3> QED  BY <3>1, <1>a, NoFlush DEF Types, pendingBar
  <2>4. received' = received \o batch[f] /\ UNCHANGED <<phase, strayingBar>>
    BY <1>12 DEF SubmitOK, strayingBar
  <2>5. Delivery!Deliver
    BY <2>2, <2>3, <2>4 DEF Delivery!Deliver, Delivery!Prefix, pendingBar, strayingBar
  <2> QED  BY <2>5 DEF Delivery!Next
<1>13. ASSUME NEW f \in Flusher, SubmitFails(f)
       PROVE  Delivery!Next \/ UNCHANGED <<pendingBar, strayingBar, received, phase = "on">>
  <2>1. batch[f] # << >> /\ pendingBar = batch[f] \o buffer
    BY <1>13, OneFlush DEF SubmitFails
  <2>2. /\ Len(batch[f]) \in 1 .. Len(pendingBar)
        /\ SubSeq(pendingBar, 1, Len(batch[f])) = batch[f]
    BY <2>1, FrontOfConcat DEF Types
  <2>3. pendingBar' = pendingBar
    <3>1. /\ batch'["flusher"] = << >> /\ batch'["stopper"] = << >>
          /\ buffer' = batch[f] \o buffer
      BY <1>13, <2>1, OneFlush DEF SubmitFails, Requeue
    <3> QED  BY <2>1, <3>1, <1>a, NoFlush DEF Types, pendingBar
  <2>4. UNCHANGED phase /\ UNCHANGED received
    BY <1>13 DEF SubmitFails
  <2>5. PICK sent \in SUBSET Range(batch[f]) : late' = late \cup ({failures'} \X sent)
    BY <1>13 DEF SubmitFails
  <2>6. strayingBar' = strayingBar \cup sent
    BY <2>5, CopiesAdded DEF strayingBar
  <2>7. Range(batch[f]) \subseteq Range(pendingBar)
    BY <2>1, RangeConcatenation DEF Types
  <2>8. Delivery!Fail
    BY <2>3, <2>4, <2>6, <2>7 DEF Delivery!Fail, Delivery!Range, Range, pendingBar, strayingBar
  <2> QED  BY <2>8 DEF Delivery!Next
<1>15. CASE ArriveLate
  <2>1. PICK o \in late : received' = Append(received, o[2]) /\ late' = late \ {o}
    BY <1>15 DEF ArriveLate
  <2>2. o[2] \in strayingBar
    BY DEF strayingBar
  <2>3. strayingBar' \in {strayingBar, strayingBar \ {o[2]}}
    BY <2>1 DEF strayingBar
  <2>4. pendingBar' = pendingBar /\ UNCHANGED phase
    BY <1>15 DEF ArriveLate, pendingBar
  <2>5. Delivery!ReceiveCopy
    BY <2>1, <2>2, <2>3, <2>4 DEF Delivery!ReceiveCopy, pendingBar, strayingBar
  <2> QED  BY <2>5 DEF Delivery!Next
<1>14. CASE UNCHANGED vars
  BY <1>14 DEF vars, pendingBar, strayingBar
<1> QED
  BY <1>1, <1>2, <1>3, <1>4, <1>5, <1>6, <1>7, <1>8, <1>9, <1>10, <1>11, <1>12,
     <1>13, <1>14, <1>15 DEF Next, Exited

\* Results reach the sink in the order their checks finished, each at least
\* once, and none is lost while the poller leads: whatever fails, whenever it
\* steps down, however many workers there are.
THEOREM PipelineDelivers == Spec => ImplementsDelivery
<1>1. Init => Delivery!Init
  BY ConcatEmptySeq, EmptySeq DEF Init, Delivery!Init, Flusher
<1>2. Inv /\ [Next]_vars => Inv'
  BY TypesStep, FlushStep DEF Inv
<1> QED
  BY <1>1, <1>2, InitInv, StepRefines, PTL DEF Spec, ImplementsDelivery, Delivery!Spec

-----------------------------------------------------------------------------
(* What the operations on a queue do to its elements. *)

\* A queue of different checks; a queue with a repetition is one no step makes.
LEMMA EmptyHolds == Range(<< >>) = {} /\ IsInjective(<< >>)
  BY EmptySeq DEF Range, IsInjective

LEMMA AppendHolds ==
  ASSUME NEW S, NEW s \in Seq(S), NEW e \in S
  PROVE  /\ Range(Append(s, e)) = Range(s) \cup {e}
         /\ IsInjective(s) /\ e \notin Range(s) => IsInjective(Append(s, e))
<1> DEFINE a == Append(s, e)
<1>1. /\ a \in Seq(S) /\ Len(s) \in Nat /\ Len(a) = Len(s) + 1
      /\ DOMAIN a = 1 .. Len(s) + 1 /\ DOMAIN s = 1 .. Len(s)
      /\ \A i \in 1 .. Len(s) : a[i] = s[i]
      /\ a[Len(s) + 1] = e
  BY AppendProperties, LenProperties
<1>2. \A i \in 1 .. Len(s) + 1 : i = Len(s) + 1 \/ i \in 1 .. Len(s)
  BY <1>1
<1>4. \A i \in 1 .. Len(s) : i \in 1 .. Len(s) + 1
  BY <1>1
<1>5. Len(s) + 1 \in 1 .. Len(s) + 1
  BY <1>1
<1> HIDE DEF a
<1>3. Range(a) = Range(s) \cup {e}
  <2>1. ASSUME NEW x \in Range(a) PROVE x \in Range(s) \cup {e}
    BY <1>1, <1>2 DEF Range
  <2>2. ASSUME NEW x \in Range(s) \cup {e} PROVE x \in Range(a)
    BY <1>1, <1>4, <1>5 DEF Range
  <2> QED  BY <2>1, <2>2
<1>6. ASSUME IsInjective(s), e \notin Range(s) PROVE IsInjective(a)
  <2>1. \A i \in 1 .. Len(s) : s[i] # e
    BY <1>1, <1>6 DEF Range
  <2> QED  BY <1>1, <1>2, <1>6, <2>1 DEF IsInjective
<1> QED  BY <1>3, <1>6 DEF a

LEMMA TakeHolds ==
  ASSUME NEW S, NEW s \in Seq(S), s # << >>
  PROVE  /\ Head(s) \in S
         /\ Range(s) = Range(Tail(s)) \cup {Head(s)}
         /\ IsInjective(s) => Head(s) \notin Range(Tail(s)) /\ IsInjective(Tail(s))
<1> DEFINE t == Tail(s)
<1>1. /\ t \in Seq(S) /\ Head(s) \in S /\ Len(s) \in Nat \ {0} /\ Len(t) = Len(s) - 1
      /\ DOMAIN s = 1 .. Len(s) /\ DOMAIN t = 1 .. Len(s) - 1
      /\ \A i \in 1 .. Len(s) - 1 : t[i] = s[i + 1]
      /\ Head(s) = s[1]
  BY HeadTailProperties, LenProperties, EmptySeq
<1>2. 1 \in 1 .. Len(s) /\ \A i \in 1 .. Len(s) - 1 : i + 1 \in 1 .. Len(s) /\ i + 1 # 1
  BY <1>1
<1>3. \A i \in 1 .. Len(s) : i = 1 \/ (i - 1 \in 1 .. Len(s) - 1 /\ (i - 1) + 1 = i)
  BY <1>1
<1> HIDE DEF t
<1>4. Range(s) = Range(t) \cup {Head(s)}
  <2>1. ASSUME NEW x \in Range(s) PROVE x \in Range(t) \cup {Head(s)}
    <3>1. PICK i \in 1 .. Len(s) : x = s[i]
      BY <1>1 DEF Range
    <3>2. CASE i = 1
      BY <1>1, <3>1, <3>2
    <3>3. CASE i - 1 \in 1 .. Len(s) - 1 /\ (i - 1) + 1 = i
      BY <1>1, <3>1, <3>3, ZenonT(40) DEF Range
    <3> QED  BY <1>3, <3>2, <3>3
  <2>2. ASSUME NEW x \in Range(t) \cup {Head(s)} PROVE x \in Range(s)
    BY <1>1, <1>2 DEF Range
  <2> QED  BY <2>1, <2>2
<1>5. ASSUME IsInjective(s) PROVE Head(s) \notin Range(t) /\ IsInjective(t)
  <2>1. \A i \in 1 .. Len(s) - 1 : s[i + 1] # s[1]
    BY <1>1, <1>2, <1>5 DEF IsInjective
  <2>2. Head(s) \notin Range(t)
    BY <1>1, <2>1 DEF Range
  <2>3. ASSUME NEW i \in 1 .. Len(s) - 1, NEW j \in 1 .. Len(s) - 1, t[i] = t[j] PROVE i = j
    <3>1. s[i + 1] = s[j + 1]
      BY <1>1, <2>3
    <3>2. i + 1 = j + 1
      BY <1>1, <1>2, <1>5, <3>1 DEF IsInjective
    <3> QED  BY <3>2
  <2> QED  BY <1>1, <2>2, <2>3 DEF IsInjective
<1> QED  BY <1>1, <1>4, <1>5 DEF t

LEMMA JoinHolds ==
  ASSUME NEW S, NEW s \in Seq(S), NEW t \in Seq(S)
  PROVE  /\ Range(s \o t) = Range(s) \cup Range(t)
         /\ IsInjective(s) /\ IsInjective(t) /\ Range(s) \cap Range(t) = {}
              => IsInjective(s \o t)
<1> DEFINE u == s \o t
<1>1. /\ u \in Seq(S) /\ Len(s) \in Nat /\ Len(t) \in Nat
      /\ DOMAIN s = 1 .. Len(s) /\ DOMAIN t = 1 .. Len(t)
      /\ DOMAIN u = 1 .. Len(s) + Len(t)
      /\ \A i \in 1 .. Len(s) + Len(t) : u[i] = IF i <= Len(s) THEN s[i] ELSE t[i - Len(s)]
  BY ConcatProperties, LenProperties
<1> HIDE DEF u
<1>2. ASSUME IsInjective(s), IsInjective(t), Range(s) \cap Range(t) = {}
      PROVE  IsInjective(u)
  <2>1. ASSUME NEW i \in 1 .. Len(s) + Len(t), NEW j \in 1 .. Len(s) + Len(t), u[i] = u[j]
        PROVE  i = j
    <3>1. CASE i <= Len(s) /\ j <= Len(s)
      <4>1. i \in DOMAIN s /\ j \in DOMAIN s /\ s[i] = s[j]
        BY <1>1, <2>1, <3>1
      <4> QED  BY <1>2, <4>1 DEF IsInjective
    <3>2. CASE i > Len(s) /\ j > Len(s)
      <4>1. i - Len(s) \in DOMAIN t /\ j - Len(s) \in DOMAIN t /\ t[i - Len(s)] = t[j - Len(s)]
        BY <1>1, <2>1, <3>2
      <4>2. i - Len(s) = j - Len(s)
        BY <1>2, <4>1 DEF IsInjective
      <4> QED  BY <1>1, <4>2
    <3>3. CASE i <= Len(s) /\ j > Len(s)
      <4>1. i \in DOMAIN s /\ j - Len(s) \in DOMAIN t /\ s[i] = t[j - Len(s)]
        BY <1>1, <2>1, <3>3
      <4> QED  BY <1>2, <4>1 DEF Range
    <3>4. CASE i > Len(s) /\ j <= Len(s)
      <4>1. j \in DOMAIN s /\ i - Len(s) \in DOMAIN t /\ s[j] = t[i - Len(s)]
        BY <1>1, <2>1, <3>4
      <4> QED  BY <1>2, <4>1 DEF Range
    <3> QED  BY <1>1, <3>1, <3>2, <3>3, <3>4
  <2> QED  BY <1>1, <2>1 DEF IsInjective
<1> QED  BY <1>2, RangeConcatenation DEF u

-----------------------------------------------------------------------------
(* The inductive invariant: where every dispatched check is. *)

Waiting == Range(checkChan)
Finished == Range(buffer)
Batched == Range(batch["flusher"]) \cup Range(batch["stopper"])
Known == Range(received)
Dispatched == 1 .. Len(sentIn)

\* No place holds a check twice.
Single ==
    /\ IsInjective(checkChan) /\ IsInjective(buffer)
    /\ \A f \in Flusher : IsInjective(batch[f])
    /\ \A v, w \in Worker : busy[v] = busy[w] /\ busy[v] # Idle => v = w

\* No two places hold the same check, and what was dropped is in none.
Apart ==
    /\ Waiting \cap Executing = {} /\ Waiting \cap Batched = {} /\ Waiting \cap Finished = {}
    /\ Executing \cap Batched = {} /\ Executing \cap Finished = {}
    /\ Batched \cap Finished = {}
    /\ lost \cap (Waiting \cup Executing \cup Batched \cup Finished) = {}

\* Exactly the dispatched checks are somewhere, were received, or dropped.
Accounted ==
    /\ Waiting \cup Executing \cup Batched \cup Finished \cup lost \cup Known = Dispatched
    /\ strayingBar \subseteq Dispatched

\* Until a submission that failed left something on its way, the sink has
\* nothing that is still to be submitted.
Unknown ==
    ~ambiguous =>
        /\ IsInjective(received) /\ strayingBar = {}
        /\ Known \cap (Waiting \cup Executing \cup Batched \cup Finished) = {}

Places == Single /\ Apart /\ Accounted /\ Unknown

\* Crisp types.
LEMMA TypeFacts ==
  ASSUME Inv
  PROVE  /\ buffer \in Seq(Check) /\ checkChan \in Seq(Check) /\ received \in Seq(Check)
         /\ batch["flusher"] \in Seq(Check) /\ batch["stopper"] \in Seq(Check)
         /\ \A f \in Flusher : batch[f] \in Seq(Check)
         /\ batch \in [Flusher -> Seq(Check)]
         /\ busy \in [Worker -> Check \cup {Idle}]
         /\ sentIn \in Seq(Nat)
         /\ batch["flusher"] = << >> \/ batch["stopper"] = << >>
  BY DEF Inv, Types, FlushInv, Flusher

\* A worker that takes or leaves a check changes what is executing by it.
LEMMA ExecutingIs ==
  ASSUME busy \in [Worker -> Check \cup {Idle}], NEW w \in Worker,
         NEW x \in Check \cup {Idle},
         \A u, v \in Worker : busy[u] = busy[v] /\ busy[u] # Idle => u = v,
         x # Idle => busy[w] = Idle /\ x \notin Executing,
         busy' = [busy EXCEPT ![w] = x]
  PROVE  /\ x # Idle => Executing' = Executing \cup {x}
         /\ x = Idle => Executing' = Executing \ {busy[w]}
         /\ \A u, v \in Worker : busy'[u] = busy'[v] /\ busy'[u] # Idle => u = v
  BY DEF Executing

\* The batch under way is what is batched.
LEMMA BatchedIs ==
  ASSUME NEW b \in [Flusher -> Seq(Check)], NEW f \in Flusher,
         \A g \in Flusher : g # f => b[g] = << >>
  PROVE  Range(b["flusher"]) \cup Range(b["stopper"]) = Range(b[f])
<1>1. CASE f = "flusher"
  <2>1. b["stopper"] = << >>
    BY <1>1 DEF Flusher
  <2> QED  BY <1>1, <2>1, EmptyHolds
<1>2. CASE f = "stopper"
  <2>1. b["flusher"] = << >>
    BY <1>2 DEF Flusher
  <2> QED  BY <1>2, <2>1, EmptyHolds
<1> QED  BY <1>1, <1>2 DEF Flusher

\* A flush f that has something under way, and what is batched after it ended.
LEMMA OtherFlush ==
  ASSUME Inv, NEW f \in Flusher, batch[f] # << >>
  PROVE  /\ Batched = Range(batch[f])
         /\ \A g \in Flusher : [batch EXCEPT ![f] = << >>][g] = << >>
         /\ batch' = [batch EXCEPT ![f] = << >>] => Batched' = {}
<1>1. \A g \in Flusher : g # f => batch[g] = << >>
  BY TypeFacts DEF Flusher
<1>2. Batched = Range(batch[f])
  BY <1>1, TypeFacts, BatchedIs DEF Batched
<1>3. \A g \in Flusher : [batch EXCEPT ![f] = << >>][g] = << >>
  BY <1>1, TypeFacts
<1>4. ASSUME batch' = [batch EXCEPT ![f] = << >>] PROVE Batched' = {}
  <2>1. batch'["flusher"] = << >> /\ batch'["stopper"] = << >>
    BY <1>3, <1>4 DEF Flusher
  <2> QED  BY <2>1, EmptyHolds DEF Batched
<1> QED  BY <1>2, <1>3, <1>4

\* A flush that begins while none is under way batches the whole buffer.
LEMMA FlushTakes ==
  ASSUME Inv, Places, NEW f \in Flusher,
         batch["flusher"] = << >>, batch["stopper"] = << >>,
         batch' = [batch EXCEPT ![f] = buffer], buffer' = << >>,
         UNCHANGED <<sentIn, checkChan, busy, received, late, ambiguous, lost>>
  PROVE  Places'
<1>1. /\ Batched = {} /\ Finished' = {} /\ IsInjective(buffer')
  BY EmptyHolds DEF Batched, Finished
<1>2. batch' \in [Flusher -> Seq(Check)] /\ batch'[f] = buffer
      /\ \A g \in Flusher : g # f => batch'[g] = << >>
  BY TypeFacts DEF Flusher
<1>3. Batched' = Finished
  <2>1. Range(batch'["flusher"]) \cup Range(batch'["stopper"]) = Range(batch'[f])
    BY <1>2, BatchedIs
  <2> QED  BY <1>2, <2>1 DEF Batched, Finished
<1>4. \A g \in Flusher : IsInjective(batch'[g])
  BY <1>2, EmptyHolds DEF Places, Single
<1>5. /\ Waiting' = Waiting /\ Executing' = Executing /\ Known' = Known
      /\ Dispatched' = Dispatched /\ strayingBar' = strayingBar /\ lost' = lost
  BY DEF Waiting, Executing, Known, Dispatched, strayingBar
<1>6. Single'
  BY <1>1, <1>4 DEF Places, Single
<1>7. Apart' /\ Accounted' /\ Unknown'
  BY <1>1, <1>3, <1>5 DEF Places, Apart, Accounted, Unknown
<1> QED  BY <1>6, <1>7 DEF Places

LEMMA InitPlaces == Init => Places
<1> SUFFICES ASSUME Init PROVE Places
  OBVIOUS
<1>1. /\ Waiting = {} /\ Finished = {} /\ Known = {} /\ lost = {} /\ Batched = {}
      /\ IsInjective(checkChan) /\ IsInjective(buffer) /\ IsInjective(received)
      /\ \A f \in Flusher : IsInjective(batch[f])
  BY EmptyHolds DEF Init, Waiting, Finished, Known, Batched, Flusher
<1>2. Executing = {}
  BY DEF Init, Executing
<1>3. Dispatched = {} /\ strayingBar = {}
  BY EmptySeq DEF Init, Dispatched, strayingBar
<1>4. Single
  BY <1>1 DEF Init, Single
<1> QED  BY <1>1, <1>2, <1>3, <1>4 DEF Places, Apart, Accounted, Unknown

LEMMA DispatchPlaces ==
  ASSUME Inv, Places, Dispatch PROVE Places'
<1> DEFINE n == Len(sentIn) + 1
<1>1. /\ Len(sentIn) \in Nat /\ n \in Check /\ n \notin Dispatched
      /\ Len(sentIn') = n /\ Dispatched' = Dispatched \cup {n}
  <2>1. sentIn \in Seq(Nat) /\ terms \in Nat
    BY DEF Inv, Types
  <2>2. Len(sentIn) \in Nat /\ Len(Append(sentIn, terms)) = Len(sentIn) + 1
    BY <2>1, LenProperties, AppendProperties
  <2>3. sentIn' = Append(sentIn, terms) /\ Len(sentIn) < MaxChecks
    BY DEF Dispatch
  <2>4. n \in 1 .. MaxChecks
    BY <2>2, <2>3, PipelineAssumption
  <2>5. 1 .. Len(sentIn) + 1 = (1 .. Len(sentIn)) \cup {n} /\ n \notin 1 .. Len(sentIn)
    BY <2>2
  <2> QED  BY <2>2, <2>3, <2>4, <2>5 DEF Check, Dispatched
<1>2. n \notin Waiting \cup Executing \cup Batched \cup Finished \cup lost \cup Known
  BY <1>1 DEF Places, Accounted
<1>3. /\ Executing' = Executing /\ Batched' = Batched /\ Finished' = Finished
      /\ Known' = Known /\ strayingBar' = strayingBar
      /\ UNCHANGED <<ambiguous, received, busy, batch, buffer>>
  BY DEF Dispatch, strayingBar, Executing, Batched, Finished, Known, control, sink
<1>4. \/ /\ checkChan' = Append(checkChan, n) /\ lost' = lost
      \/ /\ checkChan' = checkChan /\ lost' = lost \cup {n}
  BY DEF Dispatch
<1> HIDE DEF n
<1>9. /\ Range(Append(checkChan, n)) = Waiting \cup {n}
      /\ IsInjective(Append(checkChan, n)) /\ IsInjective(checkChan)
  <2>1. checkChan \in Seq(Check) /\ IsInjective(checkChan) /\ n \in Check
    BY <1>1, TypeFacts DEF Places, Single
  <2>2. n \notin Range(checkChan)
    BY <1>2 DEF Waiting
  <2> QED  BY <2>1, <2>2, AppendHolds DEF Waiting
<1>5. \/ Waiting' = Waiting \cup {n} /\ lost' = lost
      \/ Waiting' = Waiting /\ lost' = lost \cup {n}
  BY <1>4, <1>9 DEF Waiting
<1>6. IsInjective(checkChan')
  BY <1>4, <1>9
<1>7. Single'
  BY <1>3, <1>6 DEF Places, Single
<1>8. Apart' /\ Accounted' /\ Unknown'
  BY <1>1, <1>2, <1>3, <1>5 DEF Places, Apart, Accounted, Unknown
<1> QED  BY <1>7, <1>8 DEF Places

LEMMA TakePlaces ==
  ASSUME Inv, Places, NEW w \in Worker, TakeCheck(w) PROVE Places'
<1> DEFINE h == Head(checkChan)
<1>1. /\ h \in Check /\ Waiting = Waiting' \cup {h} /\ h \notin Waiting'
      /\ IsInjective(checkChan')
  BY TakeHolds, TypeFacts DEF TakeCheck, Waiting, Places, Single
<1>2. h # Idle
  BY <1>1, PipelineAssumption DEF Check
<1>3. h \notin Executing
  BY <1>1 DEF Places, Apart
<1>4. busy' = [busy EXCEPT ![w] = h] /\ busy[w] = Idle
  BY DEF TakeCheck
<1> HIDE DEF h
<1>5. /\ Executing' = Executing \cup {h}
      /\ \A u, v \in Worker : busy'[u] = busy'[v] /\ busy'[u] # Idle => u = v
  BY <1>1, <1>2, <1>3, <1>4, ExecutingIs, TypeFacts DEF Places, Single
<1>6. /\ Batched' = Batched /\ Finished' = Finished /\ Known' = Known
      /\ Dispatched' = Dispatched /\ strayingBar' = strayingBar
      /\ UNCHANGED <<ambiguous, received, batch, buffer, lost>>
  BY DEF TakeCheck, strayingBar, Batched, Finished, Known, Dispatched, control, sink
<1>7. Single'
  BY <1>1, <1>5, <1>6 DEF Places, Single
<1>8. Apart' /\ Accounted' /\ Unknown'
  BY <1>1, <1>3, <1>5, <1>6 DEF Places, Apart, Accounted, Unknown
<1> QED  BY <1>7, <1>8 DEF Places

LEMMA FinishPlaces ==
  ASSUME Inv, Places, NEW w \in Worker, FinishCheck(w) PROVE Places'
<1> DEFINE e == busy[w]
<1>1. e \in Check /\ e \in Executing
  BY TypeFacts DEF FinishCheck, Executing
<1>2. e \notin Finished
  BY <1>1 DEF Places, Apart
<1>3. Finished' = Finished \cup {e} /\ IsInjective(buffer')
  BY <1>1, <1>2, AppendHolds, TypeFacts DEF FinishCheck, Finished, Places, Single
<1>4. /\ Executing' = Executing \ {e}
      /\ \A u, v \in Worker : busy'[u] = busy'[v] /\ busy'[u] # Idle => u = v
  BY ExecutingIs, TypeFacts DEF FinishCheck, Places, Single
<1>5. /\ Batched' = Batched /\ Waiting' = Waiting /\ Known' = Known
      /\ Dispatched' = Dispatched /\ strayingBar' = strayingBar
      /\ UNCHANGED <<ambiguous, received, batch, checkChan, lost>>
  BY DEF FinishCheck, strayingBar, Batched, Waiting, Known, Dispatched, control, sink
<1> HIDE DEF e
<1>6. Single'
  BY <1>3, <1>4, <1>5 DEF Places, Single
<1>7. Apart' /\ Accounted' /\ Unknown'
  BY <1>1, <1>2, <1>3, <1>4, <1>5 DEF Places, Apart, Accounted, Unknown
<1> QED  BY <1>6, <1>7 DEF Places

LEMMA SubmitPlaces ==
  ASSUME Inv, Places, NEW f \in Flusher, SubmitOK(f) PROVE Places'
<1>1. Batched = Range(batch[f]) /\ Batched' = {}
  BY OtherFlush DEF SubmitOK
<1>2. /\ Known' = Known \cup Batched
      /\ IsInjective(received) /\ Known \cap Batched = {} => IsInjective(received')
  BY <1>1, JoinHolds, TypeFacts DEF SubmitOK, Known, Places, Single
<1>3. \A g \in Flusher : IsInjective(batch'[g])
  BY OtherFlush, EmptyHolds DEF SubmitOK
<1>4. /\ Waiting' = Waiting /\ Executing' = Executing /\ Finished' = Finished
      /\ Dispatched' = Dispatched /\ strayingBar' = strayingBar
      /\ UNCHANGED <<ambiguous, busy, buffer, checkChan, lost>>
  BY DEF SubmitOK, strayingBar, Waiting, Executing, Finished, Dispatched, control
<1>5. Single'
  BY <1>3, <1>4 DEF Places, Single
<1>6. Apart' /\ Accounted' /\ Unknown'
  BY <1>1, <1>2, <1>4 DEF Places, Apart, Accounted, Unknown
<1> QED  BY <1>5, <1>6 DEF Places

LEMMA FailPlaces ==
  ASSUME Inv, Places, NEW f \in Flusher, SubmitFails(f) PROVE Places'
<1>1. Batched = Range(batch[f]) /\ Batched' = {}
  BY OtherFlush DEF SubmitFails, Requeue
<1>2. Batched \cap Finished = {}
  BY DEF Places, Apart
<1>3. Finished' = Batched \cup Finished /\ IsInjective(buffer')
  BY <1>1, <1>2, JoinHolds, TypeFacts, SMTT(30) DEF SubmitFails, Requeue, Finished, Places, Single
<1>4. \A g \in Flusher : IsInjective(batch'[g])
  BY OtherFlush, EmptyHolds DEF SubmitFails, Requeue
<1>5. PICK sent \in SUBSET Batched :
         late' = late \cup ({failures'} \X sent) /\ ambiguous' = (ambiguous \/ sent # {})
  BY <1>1 DEF SubmitFails
<1>6. /\ Known' = Known /\ received' = received
      /\ strayingBar' = strayingBar \cup sent
      /\ ~ambiguous' => ~ambiguous /\ sent = {}
  <2>1. Known' = Known /\ received' = received
    BY DEF SubmitFails, Known
  <2>2. strayingBar' = strayingBar \cup sent
    BY <1>5, CopiesAdded DEF strayingBar
  <2>3. ~ambiguous' => ~ambiguous /\ sent = {}
    BY <1>5, Zenon
  <2> QED  BY <2>1, <2>2, <2>3
<1>7. /\ Waiting' = Waiting /\ Executing' = Executing
      /\ Dispatched' = Dispatched /\ UNCHANGED <<busy, checkChan, lost>>
  BY DEF SubmitFails, Waiting, Executing, Dispatched, control
<1>8. Single'
  BY <1>3, <1>4, <1>7 DEF Places, Single
<1>9. Apart'
  BY <1>1, <1>3, <1>7 DEF Places, Apart
<1>10. Accounted'
  BY <1>1, <1>3, <1>6, <1>7 DEF Places, Accounted
<1>11. Unknown'
  BY <1>1, <1>3, <1>6, <1>7 DEF Places, Unknown
<1> QED  BY <1>8, <1>9, <1>10, <1>11 DEF Places

LEMMA ArrivePlaces ==
  ASSUME Inv, Places, ArriveLate PROVE Places'
<1>1. PICK o \in late : received' = Append(received, o[2]) /\ late' = late \ {o}
  BY DEF ArriveLate
<1>2. o[2] \in Check /\ o[2] \in strayingBar /\ strayingBar' \subseteq strayingBar
  BY <1>1 DEF strayingBar, Inv, Types
<1>3. Known' = Known \cup {o[2]}
  BY <1>1, <1>2, AppendHolds, TypeFacts DEF Known
<1>4. /\ Waiting' = Waiting /\ Executing' = Executing /\ Batched' = Batched
      /\ Finished' = Finished /\ Dispatched' = Dispatched
      /\ UNCHANGED <<busy, batch, buffer, checkChan, lost, ambiguous>>
  BY DEF ArriveLate, Waiting, Executing, Batched, Finished, Dispatched, control
<1>5. Single'
  BY <1>4 DEF Places, Single
<1>6. Apart' /\ Accounted'
  BY <1>2, <1>3, <1>4 DEF Places, Apart, Accounted
<1>7. ambiguous'
  BY <1>2, <1>4 DEF Places, Unknown
<1> QED  BY <1>5, <1>6, <1>7 DEF Places, Unknown

LEMMA DropPlaces ==
  ASSUME Inv, Places, DropRest PROVE Places'
<1>1. lost' = lost \cup Finished /\ Finished' = {} /\ IsInjective(buffer')
  BY EmptyHolds DEF DropRest, Finished
<1>2. /\ Waiting' = Waiting /\ Executing' = Executing /\ Batched' = Batched
      /\ Known' = Known /\ Dispatched' = Dispatched /\ strayingBar' = strayingBar
      /\ UNCHANGED <<busy, batch, checkChan, received, ambiguous>>
  BY DEF DropRest, strayingBar, Waiting, Executing, Batched, Known, Dispatched, sink
<1>3. Single'
  BY <1>1, <1>2 DEF Places, Single
<1>4. Apart' /\ Accounted' /\ Unknown'
  BY <1>1, <1>2 DEF Places, Apart, Accounted, Unknown
<1> QED  BY <1>3, <1>4 DEF Places

LEMMA ExitPlaces ==
  ASSUME Inv, Places, Exit PROVE Places'
<1>1. /\ lost' = lost \cup Waiting \cup Executing \cup Batched \cup Finished
  BY DEF Exit, InFlight, Waiting, Batched, Finished
<1>2. \A f \in Flusher : batch'[f] = << >>
  BY DEF Exit
<1>3. /\ Waiting' = {} /\ Finished' = {} /\ Batched' = {}
      /\ IsInjective(checkChan') /\ IsInjective(buffer')
      /\ \A f \in Flusher : IsInjective(batch'[f])
  BY <1>2, EmptyHolds DEF Exit, Waiting, Finished, Batched, Flusher
<1>4. Executing' = {} /\ \A w \in Worker : busy'[w] = Idle
  BY DEF Exit, Executing
<1>5. /\ Known' = Known /\ Dispatched' = Dispatched /\ strayingBar' = strayingBar
      /\ UNCHANGED <<received, ambiguous>>
  BY DEF Exit, strayingBar, Known, Dispatched, sink
<1>6. Single'
  BY <1>3, <1>4 DEF Single
<1>7. Apart' /\ Accounted' /\ Unknown'
  BY <1>1, <1>3, <1>4, <1>5 DEF Places, Apart, Accounted, Unknown
<1> QED  BY <1>6, <1>7 DEF Places

\* The steps that move no check.
LEMMA StillPlaces ==
  ASSUME Places,
         UNCHANGED <<sentIn, checkChan, busy, buffer, batch, received, late, ambiguous, lost>>
  PROVE  Places'
<1>1. /\ Waiting' = Waiting /\ Executing' = Executing /\ Batched' = Batched
      /\ Finished' = Finished /\ Known' = Known /\ Dispatched' = Dispatched
      /\ strayingBar' = strayingBar
  BY DEF strayingBar, Waiting, Executing, Batched, Finished, Known, Dispatched
<1>2. Single'
  BY DEF Places, Single
<1> QED  BY <1>1, <1>2 DEF Places, Apart, Accounted, Unknown

LEMMA StepPlaces == Inv /\ Places /\ [Next]_vars => Places'
<1> SUFFICES ASSUME Inv, Places, [Next]_vars PROVE Places'
  OBVIOUS
<1>1. CASE Lead \/ StepDown \/ Signal \/ CloseChan
  BY <1>1, StillPlaces DEF Lead, StepDown, Signal, CloseChan, sink
<1>2. ASSUME NEW k \in {"dispatcher", "flusher"}, Leave(k) PROVE Places'
  BY <1>2, StillPlaces DEF Leave, sink
<1>3. CASE FinalFlush
  <2>1. batch["flusher"] = << >> /\ batch["stopper"] = << >>
    BY <1>3 DEF FinalFlush, Inv, FlushInv
  <2> QED  BY <1>3, <2>1, FlushTakes DEF FinalFlush, Flusher, sink
<1>4. CASE BeginFlush
  <2>1. batch["flusher"] = << >> /\ batch["stopper"] = << >>
    BY <1>4 DEF BeginFlush, Inv, FlushInv
  <2> QED  BY <1>4, <2>1, FlushTakes DEF BeginFlush, Flusher, sink
<1>5. CASE UNCHANGED vars
  BY <1>5, StillPlaces DEF vars
<1> QED
  BY <1>1, <1>2, <1>3, <1>4, <1>5, DropPlaces, ExitPlaces, DispatchPlaces, TakePlaces,
     FinishPlaces, SubmitPlaces, FailPlaces, ArrivePlaces DEF Next, Exited

-----------------------------------------------------------------------------
(* The bounds. *)

\* Sequences and counters within their bounds; who leads has led.
Sizes ==
    /\ sentIn \in Seq(1 .. MaxTerms) /\ Len(sentIn) <= MaxChecks
    /\ Len(checkChan) <= ChanCap
    /\ running \in SUBSET {"dispatcher", "flusher"}
    /\ terms \in 0 .. MaxTerms
    /\ running # {} => terms # 0
    /\ main \in {"serving", "stopping", "stopped"}
    /\ lost \in SUBSET Check

LEMMA CapacityIs == ChanCap \in Nat
  BY FS_CardinalityType, PipelineAssumption DEF ChanCap

LEMMA InitSizes == Init => Sizes
<1> SUFFICES ASSUME Init PROVE Sizes
  OBVIOUS
<1>1. << >> \in Seq(1 .. MaxTerms) /\ Len(<< >>) = 0
  OBVIOUS
<1> QED  BY <1>1, CapacityIs, PipelineAssumption DEF Init, Sizes

LEMMA DispatchSizes ==
  ASSUME Inv, Sizes, Dispatch PROVE Sizes'
<1>1. terms \in 1 .. MaxTerms
  BY PipelineAssumption DEF Sizes, Dispatch
<1>2. /\ sentIn \in Seq(1 .. MaxTerms) /\ Len(sentIn) \in Nat
      /\ sentIn' = Append(sentIn, terms) /\ Len(sentIn) < MaxChecks
  BY LenProperties DEF Dispatch, Sizes
<1>3. sentIn' \in Seq(1 .. MaxTerms) /\ Len(sentIn') = Len(sentIn) + 1
  BY <1>1, <1>2, AppendProperties
<1>4. Len(sentIn') <= MaxChecks
  BY <1>2, <1>3, PipelineAssumption
<1>5. Len(sentIn) + 1 \in Check
  BY <1>2, PipelineAssumption DEF Check
<1>6. \/ /\ checkChan' = Append(checkChan, Len(sentIn) + 1) /\ Len(checkChan) < ChanCap
         /\ lost' = lost
      \/ checkChan' = checkChan /\ lost' = lost \cup {Len(sentIn) + 1}
  BY DEF Dispatch
<1>7. Len(checkChan') <= ChanCap
  <2>1. checkChan \in Seq(Check) /\ Len(checkChan) \in Nat
    BY TypeFacts, LenProperties
  <2>2. Len(Append(checkChan, Len(sentIn) + 1)) = Len(checkChan) + 1
    BY <1>5, <2>1, AppendProperties
  <2>3. Len(checkChan) <= ChanCap
    BY DEF Sizes
  <2> QED  BY <1>6, <2>1, <2>2, <2>3, CapacityIs
<1>8. lost' \in SUBSET Check
  BY <1>5, <1>6 DEF Sizes
<1> QED  BY <1>3, <1>4, <1>7, <1>8 DEF Sizes, Dispatch, control, sink

LEMMA StepSizes == Inv /\ Sizes /\ [Next]_vars => Sizes'
<1> SUFFICES ASSUME Inv, Sizes, [Next]_vars PROVE Sizes'
  OBVIOUS
<1>1. CASE Lead
  <2>1. terms' \in 0 .. MaxTerms /\ terms' # 0
    BY <1>1, PipelineAssumption DEF Lead, Sizes
  <2> QED  BY <1>1, <2>1 DEF Lead, Sizes, sink
<1>2. CASE StepDown \/ Signal \/ CloseChan
  BY <1>2 DEF StepDown, Signal, CloseChan, Sizes, sink
<1>3. ASSUME NEW k \in {"dispatcher", "flusher"}, Leave(k) PROVE Sizes'
  BY <1>3 DEF Leave, Sizes, sink
<1>4. CASE FinalFlush \/ BeginFlush
  BY <1>4 DEF FinalFlush, BeginFlush, Sizes, control, sink
<1>5. CASE DropRest
  <2>1. Range(buffer) \subseteq Check
    BY TypeFacts, RangeOfSeq
  <2> QED  BY <1>5, <2>1 DEF DropRest, Sizes, sink
<1>6. CASE Exit
  <2>1. InFlight \subseteq Check
    <3>1. /\ Range(checkChan) \subseteq Check /\ Range(buffer) \subseteq Check
          /\ Range(batch["flusher"]) \subseteq Check /\ Range(batch["stopper"]) \subseteq Check
      BY TypeFacts, RangeOfSeq
    <3>2. Executing \subseteq Check
      BY TypeFacts DEF Executing
    <3> QED  BY <3>1, <3>2 DEF InFlight
  <2>2. Len(checkChan') <= ChanCap
    BY <1>6, CapacityIs, EmptySeq DEF Exit
  <2> QED  BY <1>6, <2>1, <2>2 DEF Exit, Sizes, sink
<1>7. ASSUME NEW w \in Worker, TakeCheck(w) PROVE Sizes'
  <2>1. Len(checkChan') <= ChanCap
    <3>1. Len(checkChan) \in Nat /\ Len(Tail(checkChan)) = Len(checkChan) - 1
      BY <1>7, TypeFacts, LenProperties, HeadTailProperties DEF TakeCheck
    <3> QED  BY <1>7, <3>1, CapacityIs DEF TakeCheck, Sizes
  <2> QED  BY <1>7, <2>1 DEF TakeCheck, Sizes, control, sink
<1>8. ASSUME NEW w \in Worker, FinishCheck(w) PROVE Sizes'
  BY <1>8 DEF FinishCheck, Sizes, control, sink
<1>9. ASSUME NEW f \in Flusher, SubmitOK(f) PROVE Sizes'
  BY <1>9 DEF SubmitOK, Sizes, control
<1>10. ASSUME NEW f \in Flusher, SubmitFails(f) PROVE Sizes'
  BY <1>10 DEF SubmitFails, Sizes, control
<1>11. CASE ArriveLate \/ UNCHANGED vars
  BY <1>11 DEF ArriveLate, vars, Sizes, control
<1> QED
  BY <1>1, <1>2, <1>3, <1>4, <1>5, <1>6, <1>7, <1>8, <1>9, <1>10, <1>11,
     DispatchSizes DEF Next, Exited

-----------------------------------------------------------------------------
(* Counting. *)

LEMMA OneOrNone ==
  ASSUME NEW A, \A x, y \in A : x = y
  PROVE  Cardinality(A) = IF A = {} THEN 0 ELSE 1
<1>1. CASE A = {}
  BY <1>1, FS_EmptySet
<1>2. CASE A # {}
  <2>1. PICK x : A = {x}
    BY <1>2
  <2> QED  BY <1>2, <2>1, FS_Singleton
<1> QED  BY <1>1, <1>2

LEMMA CountInQueue ==
  ASSUME NEW s, IsInjective(s), NEW c
  PROVE  Cardinality({k \in DOMAIN s : s[k] = c}) = IF c \in Range(s) THEN 1 ELSE 0
<1>1. {k \in DOMAIN s : s[k] = c} = {} <=> c \notin Range(s)
  BY DEF Range
<1>2. \A x, y \in {k \in DOMAIN s : s[k] = c} : x = y
  BY DEF IsInjective
<1> QED  BY <1>1, <1>2, OneOrNone

LEMMA CountExecuting ==
  ASSUME Single, NEW c \in Check
  PROVE  Cardinality({w \in Worker : busy[w] = c}) = IF c \in Executing THEN 1 ELSE 0
<1>0. c # Idle
  BY PipelineAssumption DEF Check
<1>1. {w \in Worker : busy[w] = c} = {} <=> c \notin Executing
  BY <1>0 DEF Executing
<1>2. \A x, y \in {w \in Worker : busy[w] = c} : x = y
  BY <1>0 DEF Single
<1> QED  BY <1>1, <1>2, OneOrNone

LEMMA PlacesConserve == Inv /\ Sizes /\ Places => Conservation
<1> SUFFICES ASSUME Inv, Sizes, Places, NEW c \in 1 .. Len(sentIn)
             PROVE  LET n == Occurrences(c) IN
                    /\ n <= 1
                    /\ n = 0 => c \in lost \cup Range(received)
                    /\ n = 1 => c \notin lost /\ (c \in Range(received) => ambiguous)
  BY DEF Conservation
<1>0. c \in Dispatched
  BY DEF Dispatched
<1>1. c \in Check
  <2>1. Len(sentIn) \in Nat /\ Len(sentIn) <= MaxChecks
    BY LenProperties DEF Sizes, Inv, Types
  <2> QED  BY <2>1, PipelineAssumption DEF Check
<1> DEFINE fl == Range(batch["flusher"])
           st == Range(batch["stopper"])
<1>2. fl \cap st = {} /\ Batched = fl \cup st
  BY TypeFacts, EmptyHolds DEF Batched
<1>3. /\ IsInjective(checkChan) /\ IsInjective(buffer)
      /\ IsInjective(batch["flusher"]) /\ IsInjective(batch["stopper"])
  BY DEF Places, Single, Flusher
<1>4. Occurrences(c) = (IF c \in Executing THEN 1 ELSE 0) + (IF c \in Waiting THEN 1 ELSE 0)
                         + (IF c \in Finished THEN 1 ELSE 0)
                         + (IF c \in fl THEN 1 ELSE 0) + (IF c \in st THEN 1 ELSE 0)
  <2>1. Cardinality({w \in Worker : busy[w] = c}) = IF c \in Executing THEN 1 ELSE 0
    BY <1>1, CountExecuting DEF Places
  <2>2. Cardinality({k \in DOMAIN checkChan : checkChan[k] = c}) = IF c \in Waiting THEN 1 ELSE 0
    BY <1>3, CountInQueue DEF Waiting
  <2>3. Cardinality({k \in DOMAIN buffer : buffer[k] = c}) = IF c \in Finished THEN 1 ELSE 0
    BY <1>3, CountInQueue DEF Finished
  <2>4. Cardinality({k \in DOMAIN batch["flusher"] : batch["flusher"][k] = c})
          = IF c \in fl THEN 1 ELSE 0
    BY <1>3, CountInQueue
  <2>5. Cardinality({k \in DOMAIN batch["stopper"] : batch["stopper"][k] = c})
          = IF c \in st THEN 1 ELSE 0
    BY <1>3, CountInQueue
  <2> HIDE DEF fl, st
  <2> QED  BY <2>1, <2>2, <2>3, <2>4, <2>5 DEF Occurrences
<1>5. /\ Waiting \cap Executing = {} /\ Waiting \cap Batched = {} /\ Waiting \cap Finished = {}
      /\ Executing \cap Batched = {} /\ Executing \cap Finished = {}
      /\ Batched \cap Finished = {}
      /\ lost \cap (Waiting \cup Executing \cup Batched \cup Finished) = {}
  BY DEF Places, Apart
<1>6. c \in Waiting \cup Executing \cup Batched \cup Finished \cup lost \cup Known
  BY <1>0 DEF Places, Accounted
<1>7. c \in Known /\ c \in Waiting \cup Executing \cup Batched \cup Finished => ambiguous
  BY DEF Places, Unknown
<1> HIDE DEF fl, st
<1>8. CASE c \notin Waiting \cup Executing \cup Batched \cup Finished
  <2>1. Occurrences(c) = 0
    BY <1>2, <1>4, <1>8
  <2> QED  BY <1>6, <1>8, <2>1 DEF Known
<1>9. CASE c \in Waiting \cup Executing \cup Batched \cup Finished
  <2>1. Occurrences(c) = 1
    BY <1>2, <1>4, <1>5, <1>9
  <2> QED  BY <1>5, <1>7, <1>9, <2>1 DEF Known
<1> QED  BY <1>8, <1>9

-----------------------------------------------------------------------------
(* The theorems. *)

\* The two truth values of the type invariant.
Flags == chanClosed \in BOOLEAN /\ ambiguous \in BOOLEAN

LEMMA InitFlags == Init => Flags
  BY DEF Init, Flags

LEMMA StepFlags == Flags /\ [Next]_vars => Flags'
  BY DEF Flags, Next, vars, control, sink, Lead, StepDown, Signal, FinalFlush, DropRest,
         CloseChan, Exit, Leave, Dispatch, TakeCheck, FinishCheck, BeginFlush, SubmitOK,
         SubmitFails, ArriveLate, Exited

Account == Inv /\ Sizes /\ Places /\ Flags

LEMMA Accounting == Spec => []Account
<1>1. Init => Account
  BY InitInv, InitSizes, InitPlaces, InitFlags DEF Account
<1>2. Account /\ [Next]_vars => Account'
  BY TypesStep, FlushStep, StepSizes, StepPlaces, StepFlags DEF Account, Inv
<1> QED  BY <1>1, <1>2, PTL DEF Spec

\* Buffers, batches, channels and counters keep their types and bounds: the
\* channel never holds more than twice as many checks as there are workers.
THEOREM TypeCorrect == Spec => []TypeOK
<1>1. Account => TypeOK
  BY DEF Account, Inv, Types, Sizes, Flags, TypeOK
<1> QED  BY <1>1, Accounting, PTL

\* Every dispatched check is in exactly one place, was received, or was
\* dropped, across failed submissions, step-downs and new terms.
THEOREM EveryCheckIsSomewhere == Spec => []Conservation
<1>1. Account => Conservation
  BY PlacesConserve DEF Account
<1> QED  BY <1>1, Accounting, PTL

\* The sink has a result twice only after a submission whose outcome the
\* poller could not know.
THEOREM NoSilentDuplicate == Spec => []DuplicatesAreAmbiguous
<1>1. Account => DuplicatesAreAmbiguous
  BY DEF Account, Places, Unknown, DuplicatesAreAmbiguous
<1> QED  BY <1>1, Accounting, PTL
=============================================================================
