---------------------------- MODULE MailPosture ----------------------------
(***************************************************************************)
(* The mail posture check (checker/mailposture.go, checker/mail.go): what  *)
(* it makes of a domain's SPF and DMARC records and of the blocklists its  *)
(* mail servers are on.                                                    *)
(*                                                                         *)
(* The lookups run at the same time, but each fills a field of its own, so *)
(* one order stands for all.  What DNS holds is chosen when it is asked.   *)
(***************************************************************************)
EXTENDS Integers, Sequences, FiniteSets, FiniteSetsExt, SequencesExt

CONSTANTS
    Name, Domain,   \* names that SPF records refer to, and the monitor's
    Records,        \* the SPF records a name may have
    Query,          \* blocklist queries: an address or the domain, and a list
    Demands,        \* what monitors require of the DMARC policy
    LookupLimit,    \* mailSPFLookupLimit
    MaxBranch,      \* the lookups of a record after which no include is followed
    MaxDepth        \* the nesting at which none is

\* The "all" of an SPF record; "" if it has none.
Qualified == {"+all", "-all", "?all", ""}

\* An SPF record: the mechanisms that cost a lookup (a name for an include,
\* "a" for a, mx, ptr, exists), its "all", if it has one, the mechanisms that
\* stand behind that, and its redirect.
Record == [mechanisms : Seq(Name \cup {"a"}), all : Qualified,
           behind : Seq(Name \cup {"a"}), redirect : Name \cup {"none"}]

NoRecord == [mechanisms |-> << >>, all |-> "none", behind |-> << >>, redirect |-> "none"]

\* What the p= of a DMARC record may say; "" if it is missing.
Policy == {"", "unknown", "none", "quarantine", "reject"}

Rank(p) == CASE p = "none" -> 1 [] p = "quarantine" -> 2 [] p = "reject" -> 3 [] OTHER -> 0

ConstantsOK ==
    /\ Demands \subseteq Policy \ {"unknown"}
    /\ IsFiniteSet(Name) /\ IsFiniteSet(Query)
    /\ Domain \in Name /\ "a" \notin Name /\ NoRecord \in Records
    /\ Records \subseteq Record \cup {NoRecord}
    /\ LookupLimit \in Nat /\ MaxDepth \in Nat
    /\ MaxBranch \in Nat /\ MaxBranch >= LookupLimit

VARIABLES
    pc,
    spf,        \* what mailCheckSPF found out
    dmarc,      \* what mailCheckDMARC found out
    answer,     \* of the blocklists
    required,   \* MailRequireDmarcPolicy
    score, fails,
    truth,      \* what a receiver makes of the domain's SPF
    failed      \* a TXT lookup that was not answered

vars == <<pc, spf, dmarc, answer, required, score, fails, truth, failed>>

-----------------------------------------------------------------------------
(* SPF.  A zone gives every name its record, the first of several. *)

\* The terms of a record that cost a lookup, redirect last wherever it stands.
Terms(r) == r.mechanisms \o r.behind \o (IF r.redirect = "none" THEN << >> ELSE <<r.redirect>>)

\* Mutant: includes are not followed.
CountOwn(zone, name) ==
    [lookups |-> Len(Terms(zone[name])), seen |-> {}, dangling |-> FALSE]

\* count: the lookups of a record and of those it includes, each name once.
Count(zone, name) ==
    LET count[at \in Name \X (0 .. MaxDepth) \X SUBSET Name] ==
            LET n == at[1]  depth == at[2]  seen == at[3]
                Follow(acc, t) ==
                    LET lookups == acc.lookups + 1 IN
                    IF t = "a" \/ depth = MaxDepth \/ t \in acc.seen \/ lookups > MaxBranch
                    THEN [acc EXCEPT !.lookups = lookups]
                    ELSE IF zone[t] = NoRecord
                    THEN [lookups |-> lookups, seen |-> acc.seen \cup {t}, dangling |-> TRUE]
                    ELSE LET sub == count[<<t, depth + 1, acc.seen \cup {t}>>] IN
                         [lookups |-> lookups + sub.lookups, seen |-> sub.seen,
                          dangling |-> acc.dangling \/ sub.dangling]
            IN FoldLeft(Follow, [lookups |-> 0, seen |-> seen, dangling |-> FALSE], Terms(zone[n]))
    IN count[<<name, 0, {}>>]

\* The "all" of the domain's record, or of the one it redirects to.
AllOf(zone, later) ==
    LET r == zone[Domain] IN
    IF r.all # "" \/ r.redirect = "none" THEN r.all
    ELSE IF later[r.redirect] = NoRecord THEN "" ELSE later[r.redirect].all

NotFound == [records |-> 0, lookups |-> 0, dangling |-> FALSE, all |-> "", redirect |-> FALSE]
NoDMARC == [records |-> 0, policy |-> "", partial |-> FALSE, rua |-> FALSE]

\* later: the zone when the redirect is looked up for the second time.
Found(zone, later, records) ==
    LET counted == Count(zone, Domain) IN
    [records |-> records, lookups |-> counted.lookups, dangling |-> counted.dangling,
     all |-> AllOf(zone, later), redirect |-> zone[Domain].redirect # "none"]

-----------------------------------------------------------------------------
(* What receivers do (RFC 7208): they evaluate every include as often as it   *)
(* is reached, and nothing behind an "all", nor a redirect beside one.        *)

Evaluated(r) ==
    IF r.all = "" THEN r
    ELSE [mechanisms |-> r.mechanisms, all |-> r.all, behind |-> << >>, redirect |-> "none"]

Heard(zone) == [n \in Name |-> Evaluated(zone[n])]

Included(zone, n) == ToSet(Terms(zone[n])) \cap Name

\* The names that are reached from the domain in k steps at most.
Reach(zone, k) ==
    LET R[j \in 0 .. k] ==
            IF j = 0 THEN {Domain} ELSE R[j-1] \cup (UNION {Included(zone, n) : n \in R[j-1]})
    IN R[k]

\* The lookups of a list of terms, where those of a name are known.
LookupsOf(terms, below) ==
    LET sum[i \in 0 .. Len(terms)] ==
            IF i = 0 THEN 0
            ELSE sum[i-1] + (IF terms[i] = "a" THEN 1 ELSE 1 + below[terms[i]])
    IN sum[Len(terms)]

\* The lookups of the domain, the includes followed k levels deep.
Total(zone, k) ==
    LET T[j \in 0 .. k] ==
            IF j = 0 THEN [n \in Name |-> Len(Terms(zone[n]))]
            ELSE [n \in Name |-> LookupsOf(Terms(zone[n]), T[j-1])]
    IN T[k][Domain]

\* Nothing is reached twice or beyond MaxDepth, and a redirect that counts ends
\* at once.
WithinReach(zone) ==
    LET all == Reach(zone, Cardinality(Name))
        inner == UNION {{<<n, i>> : i \in {j \in DOMAIN Terms(zone[n]) :
                                               Terms(zone[n])[j] \in Name}} : n \in all}
        target == Evaluated(zone[Domain]).redirect
    IN /\ Cardinality(inner) = Cardinality(all) - 1
       /\ Reach(zone, MaxDepth) = all
       /\ target = "none" \/ Evaluated(zone[target]).redirect = "none"

\* How many records a name publishes, if those in several have more than the
\* one the zone gives them.
RecordsOf(zone, several, n) ==
    IF zone[n] = NoRecord THEN 0 ELSE IF n \in several THEN 2 ELSE 1

\* What receivers find: plain says that they evaluate all that is written, and
\* ambiguous that they come upon an include with several records.
Truth(zone, several) ==
    LET N == Cardinality(Name)
        heard == Heard(zone)
        reached == Reach(heard, N)
    IN [records |-> RecordsOf(zone, several, Domain),
        lookups |-> Total(heard, N), written |-> Total(zone, N),
        acyclic |-> Total(zone, N) = Total(zone, N + 1),
        exact |-> WithinReach(zone), plain |-> heard = zone,
        dangling |-> \E n \in reached : zone[n] = NoRecord,
        ambiguous |-> \E n \in reached \ {Domain} : RecordsOf(zone, several, n) > 1,
        all |-> AllOf(zone, zone)]

-----------------------------------------------------------------------------
(* The lookups. *)

Init ==
    /\ pc = "spf"
    /\ spf = NotFound /\ dmarc = NoDMARC /\ answer = << >>
    /\ required \in Demands
    /\ failed = FALSE
    /\ score = 100 /\ fails = {}
    /\ truth = << >>

\* A name that could not be looked up is one without a record.
Known(zone, lost) == [n \in Name |-> IF n \in lost THEN NoRecord ELSE zone[n]]

\* mailCheckSPF: of several records the first is read.  Any lookups may fail
\* (a name's for as long as the count goes on), and the record that is
\* redirected to is looked up once more for its "all".
LookupSPF ==
    /\ pc = "spf"
    /\ \E zone \in [Name -> Records], several \in SUBSET Name :
       /\ truth' = Truth(zone, several)
       /\ \E lost \in SUBSET Name, lostLater \in SUBSET ({zone[Domain].redirect} \ {"none"}) :
          /\ spf' = IF zone[Domain] = NoRecord \/ Domain \in lost THEN NotFound
                    ELSE Found(Known(zone, lost), Known(zone, lostLater),
                               RecordsOf(zone, several, Domain))
          /\ failed' = (lost \cup lostLater # {})
    /\ pc' = "dmarc"
    /\ UNCHANGED <<dmarc, answer, required, score, fails>>

\* mailCheckDMARC
LookupDMARC ==
    /\ pc = "dmarc"
    /\ \/ /\ \E found \in [records : {1, 2}, policy : Policy, partial : BOOLEAN, rua : BOOLEAN] :
                dmarc' = found
          /\ UNCHANGED failed
       \/ UNCHANGED <<dmarc, failed>>
       \/ failed' = TRUE /\ UNCHANGED dmarc
    /\ pc' = "blocklists"
    /\ UNCHANGED <<spf, answer, required, score, fails, truth>>

\* mailCheckBlocklists: of every target, each list says that it is clean or
\* listed, or gives no answer (or refuses to, in the form of a listing).
QueryBlocklists ==
    /\ pc = "blocklists"
    /\ answer' \in [Query -> {"clean", "listed", "no answer"}]
    /\ pc' = "judge"
    /\ UNCHANGED <<spf, dmarc, required, score, fails, truth, failed>>

-----------------------------------------------------------------------------
(* The judgement. *)

When(condition, element) == IF condition THEN {element} ELSE {}

Cost(condition, points) == IF condition THEN points ELSE 0

SPFLoss ==
    IF spf.records = 0 THEN 30
    ELSE (CASE spf.all = "+all" -> 25 [] spf.all = "?all" -> 10
            [] spf.all = "" /\ ~spf.redirect -> 10 [] OTHER -> 0)
         + Cost(spf.lookups > LookupLimit, 15) + Cost(spf.records > 1, 15)

\* Mutant: the first of several records is as good as one.
SPFFailsOfFirst ==
    IF spf.records = 0 THEN {"No SPF record"}
    ELSE When(spf.lookups > LookupLimit, "too many lookups")
         \cup When(spf.dangling, "include without record")
         \cup When(spf.all = "+all", "+all")

SPFFails ==
    IF spf.records = 0 THEN {"No SPF record"}
    ELSE When(spf.records > 1, "several SPF records")
         \cup When(spf.lookups > LookupLimit, "too many lookups")
         \cup When(spf.dangling, "include without record")
         \cup When(spf.all = "+all", "+all")

DMARCLoss ==
    IF dmarc.records = 0 THEN 30
    ELSE (CASE dmarc.policy = "" -> 25 [] dmarc.policy = "none" -> 15
            [] dmarc.policy = "quarantine" -> 5 [] OTHER -> 0)
         + Cost(~dmarc.rua, 5) + Cost(dmarc.partial, 5)

DMARCFails ==
    (IF dmarc.records = 0 THEN {"No DMARC record"}
     ELSE When(dmarc.records > 1, "several DMARC records") \cup When(dmarc.policy = "", "no p="))
    \cup When(Rank(dmarc.policy) < Rank(required), "below the required level")

\* Mutant: a score may become negative.
FloorNone(points) == points

Floor(points) == Max({0, points})

Listings == {t \in Query : answer[t] = "listed"}

Judge ==
    /\ pc = "judge"
    /\ LET loss == SPFLoss + DMARCLoss + Min({40, 20 * Cardinality(Listings)}) IN
       score' = Floor(100 - loss)
    /\ fails' = SPFFails \cup DMARCFails \cup When(Listings # {}, "listed")
    /\ pc' = "done"
    /\ UNCHANGED <<spf, dmarc, answer, required, truth, failed>>

Next == LookupSPF \/ LookupDMARC \/ QueryBlocklists \/ Judge

Spec == Init /\ [][Next]_vars

-----------------------------------------------------------------------------
(* What a verdict is worth. *)

TypeOK ==
    /\ pc \in {"spf", "dmarc", "blocklists", "judge", "done"}
    /\ spf.records \in 0 .. 2 /\ spf.lookups \in Nat
    /\ score \in 0 .. 100
    /\ failed \in BOOLEAN

\* The count of lookups, which stops at names it has seen, at a depth and at a
\* length, never exceeds what the records written out cost; and where nothing
\* is reached twice or deeper than it looks (and it is not hopeless), it is no
\* less than what receivers look up, and just that if they evaluate all that
\* is written.
CountIsExact ==
    spf.records > 0 =>
        /\ truth.acyclic => spf.lookups <= truth.written
        /\ truth.exact /\ ~failed /\ spf.lookups <= MaxBranch =>
               /\ truth.lookups <= spf.lookups
               /\ truth.plain => truth.lookups = spf.lookups

\* Receivers can tell the domain's mail from others', as strictly as the
\* monitor demands, and would take it.
Protected ==
    /\ truth.records = 1 /\ ~truth.ambiguous /\ ~truth.dangling /\ truth.lookups <= LookupLimit
    /\ truth.all # "+all"
    /\ dmarc.records = 1 /\ dmarc.policy # "" /\ Rank(dmarc.policy) >= Rank(required)
    /\ \A t \in Query : answer[t] # "listed"

\* The check is over, had an answer to every TXT lookup, an include tree within
\* the reach of the count, and a policy it knows.
Conclusive == pc = "done" /\ ~failed /\ truth.exact /\ dmarc.policy # "unknown"

\* A conclusive check passes no domain that is not protected, unless an include
\* has several records: the check then says that "SPF, DMARC and blocklists all
\* look good" although receivers give up, as they do on the domain's own several.
\* It fails none that is protected, unless a record has terms that receivers
\* ignore, which may take it "over the limit".  No other shortcut (each name
\* once, the redirect read on its own, the texts of issues searched for words)
\* costs a verdict.
VerdictIsDeserved ==
    Conclusive =>
        /\ fails = {} /\ ~truth.ambiguous => Protected
        /\ Protected /\ truth.plain => fails = {}
=============================================================================
