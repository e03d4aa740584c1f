-------------------------- MODULE MCCheckExecution --------------------------
(* An instance of CheckExecution for TLC.                                   *)
EXTENDS CheckExecution, EntityTree, TLC

CONSTANTS tool1, tool2, tool3   \* tools

Tools(texts, schemas, annotations) ==
    [text : texts, schema : schemas, annotations : annotations]

\* One tool varies; when its text or schema is not plain, two annotations will do.
MCDefinitions ==
    [t \in Tool |->
        IF t = tool1
        THEN Tools({"plain"}, {"s1"}, {"none", "title", "readOnly", "additive"})
             \cup Tools({"plain"}, {"s2"}, {"none", "readOnly"})
             \cup Tools({"marker", "steer"}, {"s1"}, {"none", "readOnly"})
        ELSE Tools({"plain"}, {"s1"}, {"none"})]

MCConfigs ==
    {[policy |-> "alert", expected |-> {}, maxTools |-> 0],
     [policy |-> "alert", expected |-> {tool1}, maxTools |-> 1],
     [policy |-> "record", expected |-> {tool2}, maxTools |-> 0]}

\* The documents that say nothing or all that is asked for, but for two fields.
MCDocuments ==
    LET Complete == [issuer |-> "same", pkce |-> "S256", authorization |-> "given",
                     token |-> "given", registration |-> "given", cimd |-> "yes"]
    IN {doc \in OAuth!Meta : \E most \in {OAuth!Nothing, Complete} :
            Cardinality({f \in DOMAIN doc : doc[f] # most[f]}) <= 2}

\* Mechanisms, what "all" says, what stands behind it, and the redirect.
Rec(m, q, b, r) == [mechanisms |-> m, all |-> q, behind |-> b, redirect |-> r]
Closed(m, q) == Rec(m, q, << >>, "none")

\* Records with every kind of term: nested, repeated, circular and dangling
\* includes, redirects, terms that receivers ignore, and more terms than are
\* followed.
MCRecords ==
    {Closed(<< >>, "none"), Closed(<< >>, "-all"), Closed(<< >>, "+all"),
     Closed(<<"a", "a">>, "?all"), Closed(<<"x">>, "-all"), Closed(<<"x", "y">>, ""),
     Closed(<<"y", "a">>, "-all"),
     Closed(<<"a", "a", "a", "y">>, "+all"),
     Rec(<<"a">>, "", << >>, "y"),
     Rec(<<"a", "a">>, "-all", << >>, "y"), Rec(<<"x">>, "-all", <<"y", "a">>, "none")}

\* Expired, on both sides of a day and of the threshold's day, and far ahead.
MCHours == {-24, -23, 0, 23, 24, 47, 48, 72}

MCAlertDays == {-1, 0, 1}

Event(action, date) == [action |-> action, date |-> date]

Events == {Event("expiration", d) : d \in MCHours}
              \cup {Event("registration", 0), Event("unparseable", 0)}

\* The nestings of n entities.
Shapes(n) == {d \in [1 .. n -> 1 .. n] : IsNesting(d)}

Tree(d, role, named) ==
    [i \in DOMAIN d |->
        [role |-> role[i], card |-> IF named[i] THEN i ELSE 0,
         inner |-> Inner(d, i), next |-> After(d, i)]]

Trees == UNION {{Tree(d, role, named) : d \in Shapes(n),
                    role \in [1 .. n -> {"registrar", "abuse"}], named \in [1 .. n -> BOOLEAN]} :
                        n \in 0 .. 3}

\* Up to two events of any kind, or one date and any tree of up to three
\* entities.
MCResponses ==
    {[events |-> es, entities |-> << >>] : es \in UNION {[1 .. n -> Events] : n \in 0 .. 2}}
    \cup {[events |-> <<Event("expiration", 48)>>, entities |-> es] : es \in Trees}

Symmetry == Permutations(Conn)
=============================================================================
