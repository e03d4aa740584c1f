---------------------------- MODULE ExpiryCheck ----------------------------
(***************************************************************************)
(* The checks that look at a date: of a certificate (checker/ssl.go), and  *)
(* of a domain's registration, looked up at its registry                   *)
(* (checker/domain.go).  Dates are hours from now.                         *)
(***************************************************************************)
EXTENDS EntityTree

CONSTANTS
    Hours,         \* the dates
    AlertDays,     \* what a monitor may set
    DefaultDays,   \* what counts when it does not
    Responses,     \* what a registry may report: its events and entities
    Unset          \* no date, no threshold

\* The action of an event is "expiration", "unparseable" (an expiration whose
\* date cannot be parsed) or another one.
ConstantsOK ==
    /\ Hours \subseteq Int /\ AlertDays \subseteq Int /\ DefaultDays \in Nat
    /\ \A r \in Responses :
          r.events \in Seq([action : STRING, date : Hours]) /\ IsDocument(r.entities)

VARIABLES
    pc,
    source,      \* "certificate" or "registry"
    alertDays,   \* of the monitor, or Unset
    response,    \* of the registry
    event,       \* the one that is read next
    expiry, registrar,
    fails

input == <<source, alertDays>>
vars == <<pc, input, response, event, expiry, registrar, fails>>

Init ==
    /\ pc = "lookup"
    /\ source \in {"certificate", "registry"}
    /\ alertDays \in AlertDays \cup {Unset}
    /\ response = [events |-> << >>, entities |-> << >>]
    /\ event = 1 /\ expiry = Unset /\ registrar = 0 /\ fails = {}

-----------------------------------------------------------------------------
(* The registrar, somewhere in the tree of entities. *)

IsRegistrar(e) == e.role = "registrar" /\ e.card # 0

\* Mutant: a registrar without a card hides those within it and after it.
FindOuter(es) ==
    LET find[i \in 0 .. Len(es)] ==
            IF i = 0 THEN 0
            ELSE IF es[i].role = "registrar" THEN es[i].card
            ELSE IF find[es[i].inner] # 0 THEN find[es[i].inner]
            ELSE find[es[i].next]
    IN  find[Min({1, Len(es)})]

\* Of an entity, of those within it, or of those after it.
FindRegistrar(es) ==
    LET find[i \in 0 .. Len(es)] ==
            IF i = 0 THEN 0
            ELSE IF IsRegistrar(es[i]) THEN es[i].card
            ELSE IF find[es[i].inner] # 0 THEN find[es[i].inner]
            ELSE find[es[i].next]
    IN  find[Min({1, Len(es)})]

-----------------------------------------------------------------------------
(* The checks. *)

Fail(reason) ==
    pc' = "done" /\ fails' = {reason} /\ UNCHANGED <<input, response, event, expiry, registrar>>

\* No domain or no https URL, no answer, not found, an answer that is no JSON.
LookupFails == pc = "lookup" /\ Fail("lookup")

\* The handshake accepts no certificate that has expired.
Handshake ==
    /\ pc = "lookup" /\ source = "certificate"
    /\ \E date \in Hours : date >= 0 /\ expiry' = date
    /\ pc' = "judge"
    /\ UNCHANGED <<input, response, event, registrar, fails>>

LookupAnswers ==
    /\ pc = "lookup" /\ source = "registry"
    /\ response' \in Responses
    /\ pc' = "events"
    /\ UNCHANGED <<input, event, expiry, registrar, fails>>

\* The last "expiration" counts; one that cannot be parsed fails the check.
ReadEvent ==
    /\ pc = "events" /\ event <= Len(response.events)
    /\ LET e == response.events[event] IN
       IF e.action = "unparseable" THEN Fail("unparseable")
       ELSE /\ event' = event + 1
            /\ expiry' = IF e.action = "expiration" THEN e.date ELSE expiry
            /\ UNCHANGED <<pc, input, response, registrar, fails>>

AllRead ==
    /\ pc = "events" /\ event > Len(response.events)
    /\ IF expiry = Unset THEN Fail("no date")
       ELSE /\ registrar' = FindRegistrar(response.entities) /\ pc' = "judge"
            /\ UNCHANGED <<input, response, event, expiry, fails>>

\* int() of a number of days rounds towards zero.
DaysRemaining == IF expiry >= 0 THEN expiry \div 24 ELSE -((-expiry) \div 24)

\* A domain's threshold is positive, a certificate's is what was set.
Threshold ==
    IF alertDays = Unset \/ (source = "registry" /\ alertDays <= 0)
    THEN DefaultDays ELSE alertDays

\* Mutant: the day of the threshold passes.
JudgeLate ==
    /\ pc = "judge" /\ pc' = "done"
    /\ fails' = IF DaysRemaining < Threshold THEN {"expires"} ELSE {}
    /\ UNCHANGED <<input, response, event, expiry, registrar>>

Judge ==
    /\ pc = "judge" /\ pc' = "done"
    /\ fails' = IF DaysRemaining <= Threshold THEN {"expires"} ELSE {}
    /\ UNCHANGED <<input, response, event, expiry, registrar>>

Next ==
    LookupFails \/ Handshake \/ LookupAnswers \/ ReadEvent \/ AllRead \/ Judge

Spec == Init /\ [][Next]_vars

-----------------------------------------------------------------------------
(* What a verdict is worth. *)

TypeOK ==
    /\ pc \in {"lookup", "events", "judge", "done"}
    /\ event \in 1 .. Len(response.events) + 1
    /\ pc \in {"lookup", "events"} \/ expiry \in Hours \cup {Unset}
    /\ fails \subseteq {"lookup", "unparseable", "no date", "expires"}

Reported(action) == {i \in DOMAIN response.events : response.events[i].action = action}

\* A check that passes leaves a full day more than the threshold until the
\* expiry, and never passes what has expired; one that fails for the date
\* leaves less.  The date is the last one that the registry lists, and with
\* any that cannot be parsed the check does not pass.
ExpiryIsAhead ==
    pc = "done" =>
        /\ fails = {} =>
              /\ expiry >= 0 /\ expiry >= 24 * (Threshold + 1)
              /\ source = "registry" =>
                    /\ expiry = response.events[Max(Reported("expiration"))].date
                    /\ Reported("unparseable") = {}
        /\ fails = {"expires"} => expiry < 24 * (Threshold + 1)

\* The registrar that is reported is the first one, in the order of the
\* registry's response and however deep, that has a name or an id.
RegistrarIsFirst ==
    pc \in {"judge", "done"} /\ source = "registry" /\ expiry # Unset
        /\ fails \subseteq {"expires"} =>
        LET es == response.entities
            named == {i \in DOMAIN es : IsRegistrar(es[i])}
        IN  registrar = IF named = {} THEN 0 ELSE es[Min(named)].card
=============================================================================
