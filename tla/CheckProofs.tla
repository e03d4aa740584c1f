---------------------------- MODULE CheckProofs ----------------------------
(***************************************************************************)
(* What the success of a check is worth, for every tool surface, baseline, *)
(* paging and limit of an MCP server, every OAuth document, every order of *)
(* the callbacks of an HTTP request, every date, every tree of a           *)
(* registry's entities, and every zone of mail records.                    *)
(***************************************************************************)
EXTENDS CheckExecution, SPFCountProofs, Sequences, FiniteSetTheorems, WellFoundedInduction, TLAPS

USE CheckAssumption

-----------------------------------------------------------------------------
(* The timings of the HTTP check. *)

\* A phase that is under way began when all that is added up was over.
Phase(start, ms) ==
    /\ ms \in Nat /\ ms <= clock
    /\ start = HTTP!Zero \/ (start \in Nat /\ ms <= start /\ start <= clock)

Timing ==
    /\ clock \in Nat /\ lag \in 0 .. MaxLag
    /\ Phase(dnsStart, dnsMs) /\ Phase(connStart, connectMs) /\ Phase(tlsStart, tlsMs)
    /\ firstByteMs \in Nat /\ answered \in Nat /\ answered <= clock
    /\ pc = "headers" => firstByteMs = answered + lag
    /\ details # HTTP!Zero => pc = "done" /\ details \in Nat /\ HTTP!TimingsFit

LEMMA InitTiming == HTTP!Init => Timing
<1> SUFFICES ASSUME HTTP!Init PROVE Timing
  OBVIOUS
<1>1. /\ pc = "dial" /\ clock = 0 /\ lag \in 0 .. MaxLag /\ answered = 0 /\ details = HTTP!Zero
      /\ dnsStart = HTTP!Zero /\ connStart = HTTP!Zero /\ tlsStart = HTTP!Zero
      /\ dnsMs = 0 /\ connectMs = 0 /\ tlsMs = 0
  BY DEF HTTP!Init
<1>2. firstByteMs = 0
  BY DEF HTTP!Init
<1> QED  BY <1>1, <1>2 DEF Timing, Phase, HTTP!Zero

LEMMA TimingStep == Timing /\ HTTP!Next => Timing'
<1> SUFFICES ASSUME Timing, HTTP!Next PROVE Timing'
  OBVIOUS
<1> USE DEF HTTP!Zero
<1>a. /\ clock \in Nat /\ lag \in 0 .. MaxLag /\ answered \in Nat /\ answered <= clock
      /\ firstByteMs \in Nat /\ (pc = "headers" => firstByteMs = answered + lag)
      /\ Phase(dnsStart, dnsMs) /\ Phase(connStart, connectMs) /\ Phase(tlsStart, tlsMs)
  BY DEF Timing
<1>b. pc # "done" => details = HTTP!Zero
  BY DEF Timing
<1>1. ASSUME NEW c \in Conn, HTTP!DNSStart(c) PROVE Timing'
  <2>1. dnsStart' = clock /\ UNCHANGED <<clock, connStart, tlsStart, dnsMs, connectMs, tlsMs>>
    BY <1>1 DEF HTTP!DNSStart
  <2>2. UNCHANGED <<pc, firstByteMs, details, answered, lag>> /\ details = HTTP!Zero
    BY <1>1, <1>b DEF HTTP!DNSStart, HTTP!report
  <2>3. Phase(dnsStart, dnsMs)' /\ Phase(connStart, connectMs)' /\ Phase(tlsStart, tlsMs)'
    BY <1>a, <2>1 DEF Phase
  <2> QED  BY <1>a, <2>1, <2>2, <2>3 DEF Timing
<1>2. ASSUME NEW c \in Conn, HTTP!DNSDone(c) PROVE Timing'
  <2>1. /\ UNCHANGED <<clock, connStart, tlsStart, connectMs, tlsMs>>
        /\ IF dnsStart # HTTP!Zero
           THEN dnsMs' = dnsMs + (clock - dnsStart) /\ dnsStart' = HTTP!Zero
           ELSE UNCHANGED <<dnsMs, dnsStart>>
    BY <1>2 DEF HTTP!DNSDone
  <2>2. UNCHANGED <<pc, firstByteMs, details, answered, lag>> /\ details = HTTP!Zero
    BY <1>2, <1>b DEF HTTP!DNSDone, HTTP!Goes, HTTP!Running, HTTP!report
  <2>3. Phase(dnsStart, dnsMs)' /\ Phase(connStart, connectMs)' /\ Phase(tlsStart, tlsMs)'
    BY <1>a, <2>1 DEF Phase
  <2> QED  BY <1>a, <2>1, <2>2, <2>3 DEF Timing
<1>3. ASSUME NEW c \in Conn, HTTP!ConnectStart(c) PROVE Timing'
  <2>1. /\ UNCHANGED <<clock, dnsStart, tlsStart, dnsMs, connectMs, tlsMs>>
        /\ connStart' = IF connStart = HTTP!Zero THEN clock ELSE connStart
    BY <1>3 DEF HTTP!ConnectStart
  <2>2. UNCHANGED <<pc, firstByteMs, details, answered, lag>> /\ details = HTTP!Zero
    BY <1>3, <1>b DEF HTTP!ConnectStart, HTTP!Running, HTTP!report
  <2>3. Phase(dnsStart, dnsMs)' /\ Phase(connStart, connectMs)' /\ Phase(tlsStart, tlsMs)'
    BY <1>a, <2>1 DEF Phase
  <2> QED  BY <1>a, <2>1, <2>2, <2>3 DEF Timing
<1>4. ASSUME NEW c \in Conn, HTTP!ConnectDone(c) PROVE Timing'
  <2>1. /\ UNCHANGED <<clock, dnsStart, tlsStart, dnsMs, tlsMs>>
        /\ \/ /\ connStart # HTTP!Zero
              /\ connectMs' = connectMs + (clock - connStart) /\ connStart' = HTTP!Zero
           \/ UNCHANGED <<connectMs, connStart>>
    BY <1>4 DEF HTTP!ConnectDone, HTTP!AddConnect
  <2>2. UNCHANGED <<pc, firstByteMs, details, answered, lag>> /\ details = HTTP!Zero
    BY <1>4, <1>b DEF HTTP!ConnectDone, HTTP!Running, HTTP!report
  <2>3. Phase(dnsStart, dnsMs)' /\ Phase(connStart, connectMs)' /\ Phase(tlsStart, tlsMs)'
    BY <1>a, <2>1 DEF Phase
  <2> QED  BY <1>a, <2>1, <2>2, <2>3 DEF Timing
<1>5. ASSUME NEW c \in Conn, HTTP!TLSHandshakeStart(c) PROVE Timing'
  <2>1. tlsStart' = clock /\ UNCHANGED <<clock, dnsStart, connStart, dnsMs, connectMs, tlsMs>>
    BY <1>5 DEF HTTP!TLSHandshakeStart
  <2>2. UNCHANGED <<pc, firstByteMs, details, answered, lag>> /\ details = HTTP!Zero
    BY <1>5, <1>b DEF HTTP!TLSHandshakeStart, HTTP!Goes, HTTP!Running, HTTP!report
  <2>3. Phase(dnsStart, dnsMs)' /\ Phase(connStart, connectMs)' /\ Phase(tlsStart, tlsMs)'
    BY <1>a, <2>1 DEF Phase
  <2> QED  BY <1>a, <2>1, <2>2, <2>3 DEF Timing
<1>6. ASSUME NEW c \in Conn, HTTP!TLSHandshakeDone(c) PROVE Timing'
  <2>1. /\ UNCHANGED <<clock, dnsStart, connStart, dnsMs, connectMs>>
        /\ \/ /\ tlsStart # HTTP!Zero
              /\ tlsMs' = tlsMs + (clock - tlsStart) /\ tlsStart' = HTTP!Zero
           \/ UNCHANGED <<tlsMs, tlsStart>>
    BY <1>6 DEF HTTP!TLSHandshakeDone
  <2>2. UNCHANGED <<pc, firstByteMs, details, answered, lag>> /\ details = HTTP!Zero
    BY <1>6, <1>b DEF HTTP!TLSHandshakeDone, HTTP!Goes, HTTP!Running, HTTP!report
  <2>3. Phase(dnsStart, dnsMs)' /\ Phase(connStart, connectMs)' /\ Phase(tlsStart, tlsMs)'
    BY <1>a, <2>1 DEF Phase
  <2> QED  BY <1>a, <2>1, <2>2, <2>3 DEF Timing
<1>7. CASE HTTP!GotFirstResponseByte
  <2>1. /\ UNCHANGED <<clock, dnsStart, connStart, tlsStart, dnsMs, connectMs, tlsMs, details, lag>>
        /\ firstByteMs' = clock + lag /\ answered' = clock /\ details = HTTP!Zero
    BY <1>7, <1>b DEF HTTP!GotFirstResponseByte
  <2>2. Phase(dnsStart, dnsMs)' /\ Phase(connStart, connectMs)' /\ Phase(tlsStart, tlsMs)'
    BY <1>a, <2>1 DEF Phase
  <2> QED  BY <1>a, <2>1, <2>2 DEF Timing
<1>8. CASE HTTP!ReadBody
  <2>1. /\ UNCHANGED <<clock, dnsStart, connStart, tlsStart, dnsMs, connectMs, tlsMs>>
        /\ UNCHANGED <<firstByteMs, answered, lag>> /\ details' = clock
        /\ pc = "headers" /\ pc' = "done"
    BY <1>8 DEF HTTP!ReadBody, HTTP!timings
  <2>2. Phase(dnsStart, dnsMs)' /\ Phase(connStart, connectMs)' /\ Phase(tlsStart, tlsMs)'
    BY <1>a, <2>1 DEF Phase
  <2>3. HTTP!TimingsFit'
    BY <1>a, <2>1 DEF Phase, HTTP!TimingsFit
  <2> QED  BY <1>a, <2>1, <2>2, <2>3 DEF Timing
<1>9. CASE HTTP!Tick
  <2>1. /\ UNCHANGED <<dnsStart, connStart, tlsStart, dnsMs, connectMs, tlsMs>>
        /\ clock' = clock + 1
        /\ UNCHANGED <<pc, firstByteMs, details, answered, lag>> /\ details = HTTP!Zero
    BY <1>9, <1>b DEF HTTP!Tick, HTTP!Running, HTTP!timings, HTTP!report
  <2>3. ASSUME NEW start, NEW ms, Phase(start, ms)
        PROVE  /\ ms \in Nat /\ ms <= clock + 1
               /\ start = HTTP!Zero \/ (start \in Nat /\ ms <= start /\ start <= clock + 1)
    BY <1>a, <2>3 DEF Phase
  <2>2. Phase(dnsStart, dnsMs)' /\ Phase(connStart, connectMs)' /\ Phase(tlsStart, tlsMs)'
    BY <1>a, <2>1, <2>3 DEF Phase
  <2> QED  BY <1>a, <2>1, <2>2 DEF Timing
<1>10. ASSUME (\E c \in Conn : HTTP!Use(c)) \/ HTTP!Redirect \/ HTTP!RequestFails PROVE Timing'
  <2>1. /\ UNCHANGED <<clock, dnsStart, connStart, tlsStart, dnsMs, connectMs, tlsMs>>
        /\ UNCHANGED <<firstByteMs, details, answered, lag>> /\ details = HTTP!Zero
        /\ pc' # "headers"
    BY <1>10, <1>b
       DEF HTTP!Use, HTTP!Redirect, HTTP!RequestFails, HTTP!timings, HTTP!report
  <2>2. Phase(dnsStart, dnsMs)' /\ Phase(connStart, connectMs)' /\ Phase(tlsStart, tlsMs)'
    BY <1>a, <2>1 DEF Phase
  <2> QED  BY <1>a, <2>1, <2>2 DEF Timing
<1> QED
  BY <1>1, <1>2, <1>3, <1>4, <1>5, <1>6, <1>7, <1>8, <1>9, <1>10 DEF HTTP!Next

HTTPInv == monitorType = "http" => Timing

LEMMA HTTPInvInit == Init => HTTPInv
  BY InitTiming DEF Init, HTTPInv

LEMMA HTTPInvStep == HTTPInv /\ [Next]_vars => HTTPInv'
<1> SUFFICES ASSUME HTTPInv, [Next]_vars, monitorType' = "http" PROVE Timing'
  BY DEF HTTPInv
<1>1. CASE UNCHANGED vars
  <2>1. Timing
    BY <1>1 DEF HTTPInv, vars
  <2>2. UNCHANGED <<pc, clock, dnsStart, connStart, tlsStart, dnsMs, connectMs, tlsMs,
                    firstByteMs, details, answered, lag>>
    BY <1>1 DEF vars, httpVars
  <2> QED  BY <2>1, <2>2 DEF Timing, Phase, HTTP!TimingsFit
<1>2. CASE HTTPStep
  BY <1>2, TimingStep DEF HTTPStep, HTTPInv
<1>3. CASE MCPStep \/ OAuthStep \/ MailStep \/ ExpiryStep
  BY <1>3 DEF MCPStep, OAuthStep, MailStep, ExpiryStep
<1> QED  BY <1>1, <1>2, <1>3 DEF Next

\* No phase that an HTTP check reports is longer than the check
\* (httptiming.go), but for the time between its two starts, whatever the
\* connections do and when.
THEOREM NoPhaseExceedsTotal == Spec => []TimingsFit
<1>1. HTTPInv => TimingsFit
  BY DEF HTTPInv, TimingsFit, Ran, Timing, HTTP!TimingsFit
<1> QED  BY <1>1, HTTPInvInit, HTTPInvStep, PTL DEF Spec

-----------------------------------------------------------------------------
(* The MCP check. *)

\* Cardinality and sets as MCPCheck uses them.
LEMMA SameSets ==
  ASSUME NEW S
  PROVE  /\ MCP!IsFiniteSet(S) <=> IsFiniteSet(S)
         /\ MCP!Cardinality(S) = Cardinality(S)
<1>1. MCP!IsFiniteSet(S) <=> IsFiniteSet(S)
  BY DEF MCP!IsFiniteSet, IsFiniteSet
<1>2. MCP!Cardinality(S) = Cardinality(S)
  BY DEF MCP!Cardinality, Cardinality
<1> QED  BY <1>1, <1>2

LEMMA LeastOfTwo ==
  ASSUME NEW a \in Int, NEW b \in Int, b <= a PROVE MCP!Min({a, b}) = b
  BY DEF MCP!Min

\* A subset with as many elements is the whole set.
LEMMA AllKept ==
  ASSUME NEW S, IsFiniteSet(S), NEW kept \in MCP!kSubset(Cardinality(S), S)
  PROVE  kept = S
<1>1. kept \in SUBSET S /\ Cardinality(kept) = Cardinality(S)
  BY SameSets DEF MCP!kSubset
<1> QED  BY <1>1, FS_Subset

\* The report covers all the server has, unless it says that it does not.
Listing ==
    /\ pc \in {"connect", "list", "evaluate", "done"}
    /\ IsFiniteSet(DOMAIN server)
    /\ listed \subseteq DOMAIN server
    /\ pc = "evaluate" /\ ~truncated => listed = DOMAIN server
    /\ pc # "done" => drift = {}

Approved == MCP!PassMeansApproved /\ MCP!NoFalseAlarm

MCPInv == monitorType = "mcp" => Listing /\ Approved

LEMMA ListPageLists ==
  ASSUME Listing, MCP!ListPage
  PROVE  Listing' /\ pc' # "done"
<1>1. PICK page \in SUBSET (DOMAIN server \ listed), more \in BOOLEAN :
          /\ more \/ listed \cup page = DOMAIN server
          /\ \/ listed' = listed \cup page /\ UNCHANGED <<pc, truncated>>
             \/ /\ MCP!Stop(listed \cup page, more)
                /\ \E kept \in MCP!kSubset(MCP!Min({MaxTools, MCP!Cardinality(listed \cup page)}),
                                          listed \cup page) :
                      listed \subseteq kept /\ listed' = kept
  BY DEF MCP!ListPage
<1> DEFINE got == listed \cup page
<1>2. pc = "list" /\ UNCHANGED <<server, drift>> /\ drift = {}
  BY DEF MCP!ListPage, MCP!target, Listing
<1>3. got \subseteq DOMAIN server /\ IsFiniteSet(got)
  BY <1>1, FS_Subset DEF Listing
<1>4. CASE listed' = got /\ UNCHANGED <<pc, truncated>>
  BY <1>2, <1>3, <1>4 DEF Listing
<1>5. CASE /\ MCP!Stop(got, more)
           /\ \E kept \in MCP!kSubset(MCP!Min({MaxTools, MCP!Cardinality(got)}), got) :
                 listed \subseteq kept /\ listed' = kept
  <2>1. pc' = "evaluate" /\ (~truncated' => ~more /\ ~(Cardinality(got) > MaxTools))
    BY <1>5, SameSets DEF MCP!Stop
  <2>2. listed' \in MCP!kSubset(MCP!Min({MaxTools, Cardinality(got)}), got)
    BY <1>5, SameSets
  <2>3. listed' \subseteq got
    BY <2>2 DEF MCP!kSubset
  <2>4. ASSUME ~truncated' PROVE listed' = DOMAIN server
    <3>1. Cardinality(got) \in Nat /\ MaxTools \in Nat /\ Cardinality(got) <= MaxTools
      BY <1>3, <2>1, <2>4, FS_CardinalityType, CheckAssumption DEF MCP!ConstantsOK
    <3>2. MCP!Min({MaxTools, Cardinality(got)}) = Cardinality(got)
      BY <3>1, LeastOfTwo, Cardinality(got) \in Int, MaxTools \in Int
    <3>3. listed' = got
      BY <1>3, <2>2, <3>2, AllKept
    <3> QED  BY <1>1, <2>1, <2>4, <3>3
  <2> QED  BY <1>2, <1>3, <2>1, <2>3, <2>4 DEF Listing
<1> QED  BY <1>1, <1>4, <1>5

LEMMA SameFindings ==
  MCP!Seen' = listed' => MCP!Findings(server, MCP!Seen, instructions)'
                             = MCP!Findings(server, listed, instructions)'
  BY DEF MCP!Findings, MCP!Lint, MCP!When

LEMMA SameSurface ==
  ASSUME UNCHANGED <<server, instructions>>
  PROVE  MCP!Findings(server, DOMAIN server, instructions)'
             = MCP!Findings(server, DOMAIN server, instructions)
<1>1. DOMAIN server' = DOMAIN server
  OBVIOUS
<1> QED  BY <1>1 DEF MCP!Findings, MCP!Lint, MCP!When

\* The findings of an evaluation, one fact for each way to fail.
LEMMA Evaluated ==
  ASSUME MCP!Evaluate, config.policy # "record"
  PROVE  /\ "drift" \in fails' <=> \E d \in drift' : d.severity = "fail"
         /\ "pattern" \in fails'
               <=> MCP!Findings(server, listed, instructions) \ baseline.accepted # {}
  BY DEF MCP!Evaluate, MCP!When

\* A tool that changed without a failing drift is as safe as it was.
LEMMA ChangedSafely ==
  ASSUME NEW t, NEW was, NEW now, config.policy # "record",
         \A d \in MCP!Changes(t, was, now) : d.severity # "fail"
  PROVE  MCP!SafeAs(was, now)
<1>1. MCP!Drift("tool_schema_changed", t, "fail").severity = "fail"
  BY DEF MCP!Drift
<1>2. MCP!Drift("tool_description_changed", t, "fail").severity = "fail"
  BY DEF MCP!Drift
<1>3. MCP!Drift("tool_annotations_changed", t, "fail").severity = "fail"
  BY DEF MCP!Drift
<1>4. was.schema = now.schema
  BY <1>1 DEF MCP!Changes, MCP!When
<1>5. was.text = now.text
  BY <1>2 DEF MCP!Changes, MCP!When
<1>6. was.annotations = now.annotations \/ ~MCP!Riskier(was, now)
  BY <1>3 DEF MCP!Changes, MCP!When
<1>7. MCP!Risk(now) <= MCP!Risk(was)
  <2> DEFINE a == was.annotations  b == now.annotations
  <2>1. a = b \/ ((a = "readOnly" => b = "readOnly")
                 /\ (a \notin {"none", "title"} => b \notin {"none", "title"}))
    BY <1>6 DEF MCP!Riskier, MCP!ReadOnly, MCP!Destructive
  <2>2. /\ MCP!Risk(was) = IF a = "readOnly" THEN 0 ELSE IF a \in {"none", "title"} THEN 2 ELSE 1
        /\ MCP!Risk(now) = IF b = "readOnly" THEN 0 ELSE IF b \in {"none", "title"} THEN 2 ELSE 1
    BY DEF MCP!Risk, MCP!ReadOnly, MCP!Destructive
  <2> HIDE DEF a, b
  <2> QED  BY <2>1, <2>2
<1> QED  BY <1>4, <1>5, <1>7 DEF MCP!SafeAs

LEMMA EvaluateApproves ==
  ASSUME Listing, MCP!Evaluate PROVE MCP!PassMeansApproved'
<1> SUFFICES ASSUME fails' = {}, config'.policy = "alert"
             PROVE  /\ MCP!NothingOpen'
                    /\ baseline'.given =>
                          /\ MCP!Seen' = DOMAIN baseline'.tools
                          /\ \A t \in MCP!Seen' : MCP!SafeAs(baseline'.tools[t], server'[t])
                          /\ instructions' = baseline'.instructions
  BY DEF MCP!PassMeansApproved
<1>1. UNCHANGED <<server, instructions, config, baseline, listed, truncated>> /\ pc = "evaluate"
  BY DEF MCP!Evaluate, MCP!target
<1>2. MCP!Seen' = listed
  BY <1>1 DEF MCP!Seen, Listing
<1>3. config.policy # "record"
  BY <1>1
<1>4. MCP!Findings(server, listed, instructions) \subseteq baseline.accepted
  BY <1>3, Evaluated
<1>5. MCP!NothingOpen'
  <2>1. MCP!Findings(server, listed, instructions)' = MCP!Findings(server, listed, instructions)
    BY <1>1 DEF MCP!Findings, MCP!Lint, MCP!When
  <2>2. MCP!Findings(server, MCP!Seen, instructions)' = MCP!Findings(server, listed, instructions)'
    BY <1>1, <1>2, SameFindings
  <2> QED  BY <1>1, <1>4, <2>1, <2>2 DEF MCP!NothingOpen
<1>6. ASSUME baseline.given
      PROVE  /\ listed = DOMAIN baseline.tools
             /\ \A t \in listed : MCP!SafeAs(baseline.tools[t], server[t])
             /\ instructions = baseline.instructions
  <2>1. drift' = MCP!Diff(listed)
    BY <1>6 DEF MCP!Evaluate
  <2>2. \A d \in MCP!Diff(listed) : d.severity # "fail"
    BY <1>3, <2>1, Evaluated
  <2>3. \A kind, t : MCP!Drift(kind, t, "fail").severity = "fail"
    BY <1>3 DEF MCP!Drift
  <2>4. listed \subseteq DOMAIN baseline.tools
    BY <2>2, <2>3 DEF MCP!Diff
  <2>5. DOMAIN baseline.tools \subseteq listed
    BY <2>2, <2>3 DEF MCP!Diff
  <2>6. instructions = baseline.instructions
    <3>1. \A d \in MCP!When(baseline.instructions # instructions,
                            MCP!Drift("instructions_changed", "", "fail")) : d.severity # "fail"
      BY <2>2 DEF MCP!Diff
    <3> QED  BY <2>3, <3>1 DEF MCP!When
  <2>7. ASSUME NEW t \in listed PROVE MCP!SafeAs(baseline.tools[t], server[t])
    <3>1. \A d \in MCP!Changes(t, baseline.tools[t], server[t]) : d \in MCP!Diff(listed)
      BY <2>4 DEF MCP!Diff
    <3> QED  BY <1>3, <2>2, <3>1, ChangedSafely
  <2> QED  BY <2>4, <2>5, <2>6, <2>7
<1> QED  BY <1>1, <1>2, <1>5, <1>6 DEF MCP!SafeAs, MCP!Risk, MCP!ReadOnly, MCP!Destructive

LEMMA EvaluateSpares ==
  ASSUME Listing, MCP!Evaluate PROVE MCP!NoFalseAlarm'
<1> SUFFICES ASSUME ~truncated', baseline'.given, server' = baseline'.tools,
                    instructions' = baseline'.instructions,
                    (MCP!Findings(server, DOMAIN server, instructions) \subseteq baseline.accepted)'
             PROVE  drift' = {} /\ fails' \cap {"drift", "pattern"} = {}
  BY DEF MCP!NoFalseAlarm
<1>1. UNCHANGED <<server, instructions, config, baseline, listed, truncated>> /\ pc = "evaluate"
  BY DEF MCP!Evaluate, MCP!target
<1>2. listed = DOMAIN server /\ server = baseline.tools /\ instructions = baseline.instructions
  BY <1>1 DEF Listing
<1>3. MCP!Findings(server, listed, instructions) \subseteq baseline.accepted
  <2>1. MCP!Findings(server, DOMAIN server, instructions)'
            = MCP!Findings(server, DOMAIN server, instructions)
    BY <1>1, SameSurface
  <2> QED  BY <1>1, <1>2, <2>1
<1>4. \A t : MCP!Changes(t, server[t], server[t]) = {}
  BY DEF MCP!Changes, MCP!When
<1>5. MCP!Diff(listed) = {}
  BY <1>2, <1>4 DEF MCP!Diff, MCP!When
<1>6. drift' = {}
  BY <1>1, <1>5 DEF MCP!Evaluate
<1>7. fails' \cap {"drift", "pattern"} = {}
  BY <1>3, <1>6 DEF MCP!Evaluate, MCP!When
<1> QED  BY <1>6, <1>7

LEMMA MCPInvInit == Init => MCPInv
<1> SUFFICES ASSUME MCP!Init PROVE Listing /\ Approved
  BY DEF Init, MCPInv
<1>1. server \in MCP!Surface
  BY DEF MCP!Init
<1>2. DOMAIN server \subseteq Tool
  BY <1>1 DEF MCP!Surface
<1>3. IsFiniteSet(DOMAIN server)
  BY <1>2, FS_Subset, SameSets, CheckAssumption DEF MCP!ConstantsOK
<1> QED
  BY <1>3 DEF MCP!Init, Listing, Approved, MCP!PassMeansApproved, MCP!NoFalseAlarm

LEMMA MCPStepKeeps == Listing /\ Approved /\ MCP!Next => (Listing /\ Approved)'
<1> SUFFICES ASSUME Listing, Approved, MCP!Next PROVE (Listing /\ Approved)'
  OBVIOUS
<1>1. ASSUME NEW reason \in {"connect", "list"}, pc # "done", MCP!Fail(reason)
      PROVE  (Listing /\ Approved)'
  BY <1>1 DEF MCP!Fail, MCP!target, Listing, Approved, MCP!PassMeansApproved, MCP!NoFalseAlarm
<1>2. CASE MCP!Connect
  <2>1. CASE pc' = "list" /\ UNCHANGED <<MCP!target, listed, pages, truncated, drift, fails>>
    BY <1>2, <2>1 DEF MCP!Connect, MCP!target, Listing, Approved, MCP!PassMeansApproved,
                      MCP!NoFalseAlarm
  <2> QED  BY <1>1, <1>2, <2>1 DEF MCP!Connect
<1>3. CASE MCP!ListPage
  BY <1>3, ListPageLists DEF Approved, MCP!PassMeansApproved, MCP!NoFalseAlarm
<1>4. CASE MCP!ListFails
  BY <1>1, <1>4 DEF MCP!ListFails
<1>5. CASE MCP!Evaluate
  <2>1. Listing'
    BY <1>5 DEF MCP!Evaluate, MCP!target, Listing
  <2> QED  BY <1>5, <2>1, EvaluateApproves, EvaluateSpares DEF Approved
<1> QED  BY <1>2, <1>3, <1>4, <1>5 DEF MCP!Next

LEMMA MCPInvStep == MCPInv /\ [Next]_vars => MCPInv'
<1> SUFFICES ASSUME MCPInv, [Next]_vars, monitorType' = "mcp" PROVE (Listing /\ Approved)'
  BY DEF MCPInv
<1>1. CASE UNCHANGED vars
  <2>1. Listing /\ Approved
    BY <1>1 DEF MCPInv, vars
  <2>2. UNCHANGED <<pc, fails, server, instructions, config, baseline, listed, truncated, drift>>
    BY <1>1 DEF vars, mcpVars
  <2>3. Listing'
    BY <2>1, <2>2 DEF Listing
  <2>4. MCP!PassMeansApproved'
    <3>1. MCP!PassMeansApproved
      BY <2>1 DEF Approved
    <3>2. MCP!NothingOpen' <=> MCP!NothingOpen
      BY <2>2 DEF MCP!NothingOpen, MCP!Seen, MCP!Findings, MCP!Lint, MCP!When
    <3>3. MCP!Seen' = MCP!Seen
      BY <2>2 DEF MCP!Seen
    <3>4. \A was, now : MCP!SafeAs(was, now)' <=> MCP!SafeAs(was, now)
      BY DEF MCP!SafeAs, MCP!Risk, MCP!ReadOnly, MCP!Destructive
    <3> QED  BY <2>2, <3>1, <3>2, <3>3, <3>4 DEF MCP!PassMeansApproved
  <2>5. MCP!NoFalseAlarm'
    BY <2>1, <2>2, SameSurface DEF Approved, MCP!NoFalseAlarm
  <2> QED  BY <2>3, <2>4, <2>5 DEF Approved
<1>2. CASE MCPStep
  BY <1>2, MCPStepKeeps DEF MCPStep, MCPInv
<1>3. CASE HTTPStep \/ OAuthStep \/ MailStep \/ ExpiryStep
  BY <1>3 DEF HTTPStep, OAuthStep, MailStep, ExpiryStep
<1> QED  BY <1>1, <1>2, <1>3 DEF Next

\* What passes an alerting MCP check is what was approved (checkMCP,
\* mcpDiff), for every surface, paging and limit.
THEOREM ApprovedIfPassed == Spec => []PassMeansApproved
<1>1. MCPInv => PassMeansApproved
  BY DEF MCPInv, Approved, PassMeansApproved, Ran
<1> QED  BY <1>1, MCPInvInit, MCPInvStep, PTL DEF Spec

\* An unchanged MCP server raises no alarm, for every surface and paging.
THEOREM UnchangedPasses == Spec => []NoFalseAlarm
<1>1. MCPInv => NoFalseAlarm
  BY DEF MCPInv, Approved, NoFalseAlarm, Ran
<1> QED  BY <1>1, MCPInvInit, MCPInvStep, PTL DEF Spec

-----------------------------------------------------------------------------
(* The OAuth discovery chain. *)

Fields == {"issuer", "pkce", "authorization", "token", "registration", "cimd"}

\* A field that an accepted document has is the one that is judged, and a
\* field it lacks is only there if a document was refused.
Decoded ==
    /\ \A f \in Fields : served.meta[f] # "" => meta[f] = served.meta[f]
    /\ refused \/ meta = served.meta
    /\ refused \/ served.servers = "listed"

Chain ==
    /\ meta \in OAuth!Meta /\ served.meta \in OAuth!Meta
    /\ served = [servers |-> served.servers, meta |-> served.meta]
    /\ pc \in {"challenge", "resource"} =>
          /\ meta = OAuth!Nothing /\ served.meta = OAuth!Nothing
          /\ refused \/ servers = ""
    /\ pc = "server" =>
          /\ refused \/ (meta = OAuth!Nothing /\ served.servers = "listed")
          /\ served.meta = OAuth!Nothing
    /\ pc = "judge" => Decoded
    /\ pc = "done" => OAuth!PassMeansSound

OAuthInv == monitorType = "oauth" => Chain

LEMMA DocumentsAreMeta == Documents \subseteq OAuth!Meta
BY DocumentsAssumption DEF OAuth!ConstantsOK

LEMMA InitChain == OAuth!Init => Chain
<1> SUFFICES ASSUME OAuth!Init PROVE Chain
  OBVIOUS
<1>1. /\ pc = "challenge" /\ servers = "" /\ meta = OAuth!Nothing
      /\ served.servers = "" /\ served.meta = OAuth!Nothing
      /\ served = [servers |-> served.servers, meta |-> served.meta]
  BY DEF OAuth!Init
<1>2. OAuth!Nothing \in OAuth!Meta
  BY DEF OAuth!Meta, OAuth!Endpoint, OAuth!Nothing
<1> QED  BY <1>1, <1>2 DEF Chain

\* A chain that ends for want of a document is not judged by one.
LEMMA Unjudged ==
  ASSUME NEW reason \in {"no challenge", "no resource metadata", "no server",
                        "no server metadata"}, fails' = {reason}
  PROVE  OAuth!PassMeansSound'
<1>1. ~(fails' = {} \/ fails' \subseteq OAuth!Errors(OAuth!Nothing))
  BY DEF OAuth!Errors, OAuth!Nothing
<1>2. (OAuth!Errors(OAuth!Nothing))' = OAuth!Errors(OAuth!Nothing)
  BY DEF OAuth!Errors, OAuth!Nothing
<1> QED  BY <1>1, <1>2 DEF OAuth!PassMeansSound

\* Field by field, what a document says replaces what was decoded.
LEMMA DecodedFields ==
  ASSUME NEW old \in OAuth!Meta, NEW doc \in OAuth!Meta
  PROVE  /\ OAuth!DecodeAll(old, doc) \in OAuth!Meta
         /\ \A f \in Fields : doc[f] # "" => OAuth!DecodeAll(old, doc)[f] = doc[f]
         /\ old = OAuth!Nothing => OAuth!DecodeAll(old, doc) = doc
<1>1. DOMAIN old = Fields /\ DOMAIN doc = Fields
  BY DEF OAuth!Meta, OAuth!Endpoint, Fields
<1>2. \A f \in Fields : OAuth!DecodeAll(old, doc)[f] = IF doc[f] = "" THEN old[f] ELSE doc[f]
  BY <1>1 DEF OAuth!DecodeAll, OAuth!Decode
<1>3. OAuth!DecodeAll(old, doc) \in OAuth!Meta
  BY <1>1, <1>2 DEF OAuth!Meta, OAuth!Endpoint, Fields, OAuth!DecodeAll
<1>4. ASSUME old = OAuth!Nothing PROVE OAuth!DecodeAll(old, doc) = doc
  <2>1. \A f \in Fields : OAuth!DecodeAll(old, doc)[f] = doc[f]
    BY <1>2, <1>4 DEF OAuth!Nothing, Fields
  <2>2. OAuth!DecodeAll(old, doc) = [f \in Fields |-> doc[f]]
    BY <1>1, <2>1 DEF OAuth!DecodeAll
  <2>3. doc = [f \in Fields |-> doc[f]]
    BY DEF OAuth!Meta, OAuth!Endpoint, Fields
  <2> QED  BY <2>2, <2>3
<1> QED  BY <1>2, <1>3, <1>4

LEMMA JudgeSound ==
  ASSUME Chain, OAuth!Judge PROVE OAuth!PassMeansSound'
<1>1. /\ UNCHANGED <<meta, served, refused>> /\ fails' = OAuth!Errors(meta)
      /\ Decoded /\ meta \in OAuth!Meta /\ served.meta \in OAuth!Meta
  BY DEF OAuth!Judge, OAuth!documents, Chain
<1>2. ASSUME OAuth!Sound(served) PROVE fails' = {}
  BY <1>1, <1>2 DEF OAuth!Sound, OAuth!Errors, Decoded, Fields
<1>3. ASSUME fails' = {}, ~refused PROVE OAuth!Sound(served)
  BY <1>1, <1>3 DEF OAuth!Sound, Decoded
<1>4. [f \in DOMAIN meta |-> IF served.meta[f] = "" THEN meta[f] ELSE served.meta[f]] = meta
  BY <1>1 DEF Decoded, Fields, OAuth!Meta, OAuth!Endpoint
<1>5. OAuth!Sound(served') <=> OAuth!Sound(served)
  BY <1>1
<1> QED  BY <1>1, <1>2, <1>3, <1>4 DEF OAuth!PassMeansSound

LEMMA ChainStep == Chain /\ OAuth!Next => Chain'
<1> SUFFICES ASSUME Chain, OAuth!Next PROVE Chain'
  OBVIOUS
<1>1. CASE OAuth!Challenge
  <2>1. UNCHANGED <<servers, meta, served, refused>>
    BY <1>1 DEF OAuth!Challenge, OAuth!Fail, OAuth!documents
  <2>2. CASE OAuth!Fail("no challenge")
    <3>1. pc' = "done" /\ OAuth!PassMeansSound'
      BY <2>2, Unjudged DEF OAuth!Fail
    <3> QED  BY <2>1, <3>1 DEF Chain
  <2>3. CASE pc' = "resource"
    BY <1>1, <2>1, <2>3 DEF OAuth!Challenge, Chain
  <2> QED  BY <1>1, <2>2, <2>3 DEF OAuth!Challenge
<1>2. CASE OAuth!FetchResource
  <2>1. UNCHANGED meta /\ pc = "resource"
    BY <1>2 DEF OAuth!FetchResource, OAuth!Missing, OAuth!Fail, OAuth!documents,
                OAuth!RefusedResource, OAuth!AcceptedResource
  <2>a. /\ meta = OAuth!Nothing /\ served.meta = OAuth!Nothing
        /\ meta \in OAuth!Meta /\ served.meta \in OAuth!Meta
        /\ refused \/ servers = ""
    BY <2>1 DEF Chain
  <2>b. served = [servers |-> served.servers, meta |-> served.meta]
    BY DEF Chain
  <2>2. CASE OAuth!Missing("no resource metadata")
    <3>1. UNCHANGED <<servers, served, refused>> /\ (UNCHANGED pc \/ OAuth!Fail("no resource metadata"))
      BY <2>2 DEF OAuth!Missing, OAuth!Fail, OAuth!documents
    <3>2. UNCHANGED pc \/ (pc' = "done" /\ OAuth!PassMeansSound')
      BY <3>1, Unjudged DEF OAuth!Fail
    <3> QED  BY <2>1, <3>1, <3>2 DEF Chain
  <2>3. CASE OAuth!RefusedResource
    <3>1. /\ UNCHANGED served /\ refused' = TRUE
          /\ UNCHANGED pc \/ (pc' = "done" /\ fails' = {"no resource metadata"})
      BY <2>3 DEF OAuth!RefusedResource
    <3>2. UNCHANGED pc \/ (pc' = "done" /\ OAuth!PassMeansSound')
      BY <3>1, Unjudged
    <3>3. pc' \in {"resource", "done"} /\ refused'
      BY <2>1, <3>1
    <3>4. /\ meta' = OAuth!Nothing /\ served'.meta = OAuth!Nothing
          /\ meta' \in OAuth!Meta /\ served'.meta \in OAuth!Meta
      BY <2>1, <2>a, <3>1
    <3>6. served' = [servers |-> served'.servers, meta |-> served'.meta]
      BY <2>b, <3>1
    <3>5. pc' = "done" => OAuth!PassMeansSound'
      BY <2>1, <3>2
    <3> QED  BY <3>3, <3>4, <3>5, <3>6 DEF Chain
  <2>4. CASE OAuth!AcceptedResource
    <3>1. PICK doc \in OAuth!Servers :
              /\ servers' = OAuth!Decode(servers, doc) /\ served' = [served EXCEPT !.servers = doc]
              /\ UNCHANGED refused
              /\ \/ servers' = "listed" /\ pc' = "server"
                 \/ pc' = "done" /\ fails' = {"no server"}
      BY <2>4 DEF OAuth!AcceptedResource
    <3>2. served' = [servers |-> doc, meta |-> served.meta]
      BY <3>1 DEF Chain
    <3>3. CASE pc' = "server" /\ servers' = "listed"
      <4>1. refused \/ doc = "listed"
        BY <2>a, <3>1, <3>3 DEF OAuth!Decode
      <4>2. /\ meta' = OAuth!Nothing /\ served'.meta = OAuth!Nothing
            /\ meta' \in OAuth!Meta /\ served'.meta \in OAuth!Meta
        BY <2>1, <2>a, <3>2
      <4>4. served' = [servers |-> served'.servers, meta |-> served'.meta]
        BY <3>2
      <4>3. refused' \/ served'.servers = "listed"
        BY <3>1, <3>2, <4>1
      <4> QED  BY <3>3, <4>2, <4>3, <4>4 DEF Chain
    <3>4. CASE pc' = "done" /\ fails' = {"no server"}
      <4>1. OAuth!PassMeansSound'
        BY <3>4, Unjudged
      <4> QED  BY <2>1, <3>2, <3>4, <4>1 DEF Chain
    <3> QED  BY <3>1, <3>3, <3>4
  <2> QED  BY <1>2, <2>2, <2>3, <2>4 DEF OAuth!FetchResource
<1>3. CASE OAuth!FetchServer
  <2>1. CASE OAuth!Missing("no server metadata")
    <3>1. UNCHANGED <<meta, served, refused>> /\ (UNCHANGED pc \/ OAuth!Fail("no server metadata"))
      BY <2>1 DEF OAuth!Missing, OAuth!Fail, OAuth!documents
    <3>2. UNCHANGED pc \/ (pc' = "done" /\ OAuth!PassMeansSound')
      BY <3>1, Unjudged DEF OAuth!Fail
    <3> QED  BY <1>3, <3>1, <3>2 DEF OAuth!FetchServer, Chain
  <2>2. CASE OAuth!RefusedServer
    <3>1. PICK doc \in OAuth!Meta : meta' = OAuth!DecodeAll(meta, doc)
      BY <2>2, DocumentsAreMeta DEF OAuth!RefusedServer
    <3>2. /\ UNCHANGED served /\ refused' = TRUE
          /\ UNCHANGED pc \/ (pc' = "done" /\ fails' = {"no server metadata"})
      BY <2>2 DEF OAuth!RefusedServer
    <3>3. UNCHANGED pc \/ (pc' = "done" /\ OAuth!PassMeansSound')
      BY <3>2, Unjudged
    <3>4. meta' \in OAuth!Meta
      BY <3>1, DecodedFields DEF Chain
    <3> QED  BY <1>3, <3>2, <3>3, <3>4 DEF OAuth!FetchServer, Chain
  <2>3. CASE OAuth!AcceptedServer
    <3>1. PICK doc \in OAuth!Meta :
              /\ meta' = OAuth!DecodeAll(meta, doc) /\ served' = [served EXCEPT !.meta = doc]
              /\ pc' = "judge" /\ UNCHANGED refused
      BY <2>3, DocumentsAreMeta DEF OAuth!AcceptedServer
    <3>2. served' = [servers |-> served.servers, meta |-> doc]
      BY <3>1 DEF Chain
    <3>3. meta' \in OAuth!Meta /\ (\A f \in Fields : doc[f] # "" => meta'[f] = doc[f])
          /\ (meta = OAuth!Nothing => meta' = doc)
      BY <3>1, DecodedFields DEF Chain
    <3>4. refused \/ (meta = OAuth!Nothing /\ served.servers = "listed")
      BY <1>3 DEF OAuth!FetchServer, Chain
    <3>5. Decoded'
      BY <3>1, <3>2, <3>3, <3>4 DEF Decoded
    <3> QED  BY <3>1, <3>2, <3>3, <3>5 DEF Chain
  <2> QED  BY <1>3, <2>1, <2>2, <2>3 DEF OAuth!FetchServer
<1>4. CASE OAuth!Judge
  <2>1. UNCHANGED <<meta, served>> /\ pc' = "done"
    BY <1>4 DEF OAuth!Judge, OAuth!documents
  <2> QED  BY <1>4, <2>1, JudgeSound DEF Chain
<1> QED  BY <1>1, <1>2, <1>3, <1>4 DEF OAuth!Next

LEMMA OAuthInvStep == OAuthInv /\ [Next]_vars => OAuthInv'
<1> SUFFICES ASSUME OAuthInv, [Next]_vars, monitorType' = "oauth" PROVE Chain'
  BY DEF OAuthInv
<1>1. CASE UNCHANGED vars
  <2>1. Chain
    BY <1>1 DEF OAuthInv, vars
  <2>2. UNCHANGED <<pc, fails, servers, meta, served, refused>>
    BY <1>1 DEF vars, oauthVars
  <2>3. OAuth!PassMeansSound' <=> OAuth!PassMeansSound
    BY <2>2 DEF OAuth!PassMeansSound, OAuth!Sound, OAuth!Errors, OAuth!Nothing
  <2> QED  BY <2>1, <2>2, <2>3 DEF Chain, Decoded
<1>2. CASE OAuthStep
  BY <1>2, ChainStep DEF OAuthStep, OAuthInv
<1>3. CASE HTTPStep \/ MCPStep \/ MailStep \/ ExpiryStep
  BY <1>3 DEF HTTPStep, MCPStep, MailStep, ExpiryStep
<1> QED  BY <1>1, <1>2, <1>3 DEF Next

\* An OAuth chain is judged by the documents that were accepted
\* (mcpResolveAuthServer), whatever the refused ones said.
THEOREM JudgedByAccepted == Spec => []PassMeansSound
<1>1. Init => OAuthInv
  BY InitChain DEF Init, OAuthInv
<1>2. OAuthInv => PassMeansSound
  <2>1. Chain => OAuth!PassMeansSound
    BY DEF Chain, OAuth!PassMeansSound
  <2> QED  BY <2>1 DEF OAuthInv, PassMeansSound, Ran
<1> QED  BY <1>1, <1>2, OAuthInvStep, PTL DEF Spec

-----------------------------------------------------------------------------
(* The registrar.  FindRegistrar is a recursive function on the entities; it *)
(* is the one that FirstIn describes, or they differ at a last entity.       *)

\* A last element of a bounded set.
LEMMA Greatest ==
  ASSUME NEW n \in Nat, NEW T \in SUBSET (1 .. n), T # {}
  PROVE  \E k \in T : \A m \in T : m <= k
<1> DEFINE S == {n - k : k \in T}
<1>0. \A k \in T : k \in 1 .. n
  OBVIOUS
<1>1. S \in SUBSET Nat /\ S # {}
  <2>1. \A k \in T : n - k \in Nat
    BY <1>0
  <2>2. PICK k \in T : TRUE
    OBVIOUS
  <2>3. n - k \in S
    OBVIOUS
  <2> QED  BY <2>1, <2>3
<1>2. PICK a \in S : \A b \in S : ~(<<b, a>> \in OpToRel(<, Nat))
  <2> HIDE DEF S
  <2> QED  BY <1>1, NatLessThanWellFounded, WFMin, Zenon
<1>3. \A b \in S : ~(b < a)
  BY <1>1, <1>2 DEF OpToRel
<1>4. PICK k \in T : a = n - k
  BY <1>2
<1>5. ASSUME NEW m \in T PROVE m <= k
  <2>1. n - m \in S
    OBVIOUS
  <2>2. ~(n - m < n - k)
    BY <1>3, <1>4, <2>1
  <2> QED  BY <1>0, <2>2
<1> QED  BY <1>5

LEMMA FirstIs ==
  ASSUME NEW n \in Nat, NEW T \in SUBSET (1 .. n), NEW k \in T, \A m \in T : k <= m
  PROVE  Expiry!Min(T) = k
<1>1. \A m \in T : m \in Int
  OBVIOUS
<1>2. \A x \in T : (\A y \in T : x <= y) => x = k
  BY <1>1
<1> QED  BY <1>2 DEF Expiry!Min

LEMMA LastIs ==
  ASSUME NEW n \in Nat, NEW T \in SUBSET (1 .. n), NEW k \in T, \A m \in T : m <= k
  PROVE  Expiry!Max(T) = k
<1>1. \A m \in T : m \in Int
  OBVIOUS
<1>2. \A x \in T : (\A y \in T : x >= y) => x = k
  BY <1>1
<1> QED  BY <1>2 DEF Expiry!Max

LEMMA FirstOf ==
  ASSUME NEW n \in Nat, NEW T \in SUBSET (1 .. n), T # {}
  PROVE  Expiry!Min(T) \in T /\ \A m \in T : Expiry!Min(T) <= m
<1> DEFINE S == {n + 1 - k : k \in T}
<1>0. \A k \in T : k \in 1 .. n
  OBVIOUS
<1>1. S \in SUBSET (1 .. n) /\ S # {}
  <2>1. \A k \in T : n + 1 - k \in 1 .. n
    BY <1>0
  <2>2. PICK k \in T : TRUE
    OBVIOUS
  <2>3. n + 1 - k \in S
    OBVIOUS
  <2> QED  BY <2>1, <2>3
<1>2. PICK a \in S : \A b \in S : b <= a
  <2> HIDE DEF S
  <2> QED  BY <1>1, Greatest
<1>3. PICK k \in T : a = n + 1 - k
  BY <1>2
<1>4. ASSUME NEW m \in T PROVE k <= m
  <2>1. n + 1 - m \in S
    OBVIOUS
  <2>2. n + 1 - m <= n + 1 - k
    BY <1>2, <1>3, <2>1
  <2> QED  BY <1>0, <2>2
<1>5. Expiry!Min(T) = k
  BY <1>4, FirstIs
<1> QED  BY <1>4, <1>5

\* The card of the first of them that is a registrar with one, or 0.
Named(es, T) == {i \in T : Expiry!IsRegistrar(es[i])}
FirstIn(es, T) == IF Named(es, T) = {} THEN 0 ELSE es[Expiry!Min(Named(es, T))].card

\* U is S followed by T: what is in S counts first.
Split(U, S, T) == U = S \cup T /\ \A i \in S : \A j \in T : i < j

LEMMA FirstOfTwo ==
  ASSUME NEW es, NEW n \in Nat, NEW U \in SUBSET (1 .. n), NEW S, NEW T, Split(U, S, T)
  PROVE  /\ FirstIn(es, S) = 0 => FirstIn(es, U) = FirstIn(es, T)
         /\ FirstIn(es, S) # 0 => FirstIn(es, U) = FirstIn(es, S)
<1>0. U = S \cup T /\ \A i \in S : \A j \in T : i < j
  BY DEF Split
<1>1. /\ Named(es, S) \in SUBSET (1 .. n) /\ Named(es, U) \in SUBSET (1 .. n)
      /\ Named(es, U) = Named(es, S) \cup Named(es, T)
      /\ \A i \in Named(es, S), j \in Named(es, T) : i < j
  BY <1>0 DEF Named
<1>2. \A i \in Named(es, S) : es[i].card # 0
  BY DEF Named, Expiry!IsRegistrar
<1>3. \A i \in Named(es, U) : i \in Int
  BY <1>1
<1>4. CASE Named(es, S) = {}
  <2>1. Named(es, U) = Named(es, T)
    BY <1>1, <1>4
  <2> QED  BY <1>4, <2>1 DEF FirstIn
<1>5. CASE Named(es, S) # {}
  <2>1. PICK k \in Named(es, S) : k = Expiry!Min(Named(es, S)) /\ \A m \in Named(es, S) : k <= m
    BY <1>1, <1>5, FirstOf
  <2>2. \A m \in Named(es, U) : k <= m
    BY <1>1, <1>3, <2>1
  <2>3. Expiry!Min(Named(es, U)) = k
    BY <1>1, <2>1, <2>2, FirstIs
  <2>4. es[k].card # 0 /\ Named(es, U) # {}
    BY <1>1, <1>2, <2>1
  <2> QED  BY <1>5, <2>1, <2>3, <2>4 DEF FirstIn
<1> QED  BY <1>4, <1>5

LEMMA FirstOfOne ==
  ASSUME NEW es, NEW i
  PROVE  /\ Expiry!IsRegistrar(es[i]) => FirstIn(es, {i}) = es[i].card /\ es[i].card # 0
         /\ ~Expiry!IsRegistrar(es[i]) => FirstIn(es, {i}) = 0
<1>1. CASE Expiry!IsRegistrar(es[i])
  <2>1. Named(es, {i}) = {i}
    BY <1>1 DEF Named
  <2>2. Expiry!Min({i}) \in {i}
    BY DEF Expiry!Min
  <2> QED  BY <1>1, <2>1, <2>2 DEF FirstIn, Expiry!IsRegistrar
<1>2. CASE ~Expiry!IsRegistrar(es[i])
  BY <1>2 DEF FirstIn, Named
<1> QED  BY <1>1, <1>2

\* Where the list that the i-th is in ends, with all that is within it.
ListEnd(d, n, i) ==
    LET out == {j \in 1 .. n : j > i /\ d[j] < d[i]} IN
    IF out = {} THEN n + 1 ELSE Expiry!Min(out)

\* The tree of a document, of the depths d.
IsTree(es, d, n) ==
    /\ n \in Nat /\ d \in [1 .. n -> 1 .. n] /\ Expiry!IsNesting(d)
    /\ \A i \in 1 .. n : es[i].inner = Expiry!Inner(d, i) /\ es[i].next = Expiry!After(d, i)

Found(es, d, n, i) == IF i = 0 THEN 0 ELSE FirstIn(es, i .. ListEnd(d, n, i) - 1)

\* Where the i-th ends, with all that is within it.
Ends(d, n, i) == IF Expiry!Behind(d, i) = {} THEN n + 1 ELSE Expiry!Min(Expiry!Behind(d, i))

LEMMA EndsType ==
  ASSUME NEW n \in Nat, NEW d \in [1 .. n -> 1 .. n], NEW i \in 1 .. n
  PROVE  /\ Ends(d, n, i) \in i + 1 .. n + 1
         /\ \A j \in i + 1 .. Ends(d, n, i) - 1 : d[j] > d[i]
         /\ Ends(d, n, i) # n + 1 =>
               Expiry!Behind(d, i) # {} /\ d[Ends(d, n, i)] <= d[i] /\ Ends(d, n, i) = Expiry!Min(Expiry!Behind(d, i))
         /\ Ends(d, n, i) = n + 1 => Expiry!Behind(d, i) = {}
<1> DEFINE B == Expiry!Behind(d, i)
<1>0. \A j \in 1 .. n : d[j] \in 1 .. n
  OBVIOUS
<1>1. B \in SUBSET (1 .. n) /\ \A j \in 1 .. n : j \in B <=> j > i /\ d[j] <= d[i]
  BY DEF Expiry!Behind
<1>2. CASE B = {}
  <2>1. Ends(d, n, i) = n + 1
    BY <1>2 DEF Ends
  <2>2. \A j \in i + 1 .. n : d[j] > d[i]
    BY <1>0, <1>1, <1>2
  <2> QED  BY <1>2, <2>1, <2>2
<1>3. CASE B # {}
  <2>1. PICK k \in B : k = Expiry!Min(B) /\ \A m \in B : k <= m
    <3> HIDE DEF B
    <3> QED  BY <1>1, <1>3, FirstOf
  <2>2. Ends(d, n, i) = k
    BY <1>3, <2>1 DEF Ends
  <2>3. k \in i + 1 .. n /\ d[k] <= d[i]
    BY <1>1, <2>1
  <2>4. ASSUME NEW j \in i + 1 .. k - 1 PROVE d[j] > d[i]
    <3>1. j \in 1 .. n /\ ~(k <= j)
      BY <2>3
    <3>2. j \notin B
      BY <2>1, <3>1
    <3> QED  BY <1>0, <1>1, <3>1, <3>2
  <2>5. Ends(d, n, i) \in i + 1 .. n + 1 /\ Ends(d, n, i) # n + 1
    BY <2>2, <2>3
  <2> HIDE DEF B
  <2>6. \A j \in i + 1 .. Ends(d, n, i) - 1 : d[j] > d[i]
    BY <2>2, <2>4, Zenon
  <2>7. d[Ends(d, n, i)] <= d[i]
    BY <2>2, <2>3, Zenon
  <2> USE DEF B
  <2> QED  BY <1>3, <2>1, <2>2, <2>5, <2>6, <2>7, Zenon
<1> QED  BY <1>2, <1>3

LEMMA ListEndIs ==
  ASSUME NEW n \in Nat, NEW d \in [1 .. n -> 1 .. n], NEW i \in 1 .. n, NEW e \in i + 1 .. n + 1,
         \A j \in i + 1 .. e - 1 : d[j] >= d[i], e # n + 1 => d[e] < d[i]
  PROVE  ListEnd(d, n, i) = e
<1> DEFINE out == {j \in 1 .. n : j > i /\ d[j] < d[i]}
<1>0. \A j \in 1 .. n : d[j] \in 1 .. n
  OBVIOUS
<1>1. \A j \in out : e <= j
  <2>1. ASSUME NEW j \in out, ~(e <= j) PROVE FALSE
    <3>1. j \in i + 1 .. e - 1
      BY <2>1
    <3> QED  BY <1>0, <3>1
  <2> QED  BY <2>1
<1>2. CASE e = n + 1
  <2>1. out = {}
    BY <1>1, <1>2
  <2> QED  BY <1>2, <2>1 DEF ListEnd
<1>3. CASE e # n + 1
  <2>1. e \in out
    BY <1>3
  <2>2. out \in SUBSET (1 .. n)
    OBVIOUS
  <2>3. Expiry!Min(out) = e
    <3> HIDE DEF out
    <3> QED  BY <1>1, <2>1, <2>2, FirstIs
  <2> QED  BY <2>1, <2>3 DEF ListEnd
<1> QED  BY <1>2, <1>3

LEMMA ListEndType ==
  ASSUME NEW n \in Nat, NEW d \in [1 .. n -> 1 .. n], NEW i \in 1 .. n
  PROVE  /\ ListEnd(d, n, i) \in i + 1 .. n + 1
         /\ \A j \in i + 1 .. ListEnd(d, n, i) - 1 : d[j] >= d[i]
         /\ ListEnd(d, n, i) # n + 1 => d[ListEnd(d, n, i)] < d[i]
<1> DEFINE out == {j \in 1 .. n : j > i /\ d[j] < d[i]}
<1>0. \A j \in 1 .. n : d[j] \in 1 .. n
  OBVIOUS
<1>1. CASE out = {}
  <2>1. ListEnd(d, n, i) = n + 1
    BY <1>1 DEF ListEnd
  <2>2. ASSUME NEW j \in i + 1 .. n PROVE d[j] >= d[i]
    <3>1. j \in 1 .. n /\ j > i
      OBVIOUS
    <3>2. j \notin out
      BY <1>1, Zenon
    <3> QED  BY <1>0, <3>1, <3>2
  <2> QED  BY <2>1, <2>2
<1>2. CASE out # {}
  <2>1. PICK k \in out : k = Expiry!Min(out) /\ \A m \in out : k <= m
    <3>1. out \in SUBSET (1 .. n)
      OBVIOUS
    <3> HIDE DEF out
    <3> QED  BY <1>2, <3>1, FirstOf
  <2>2. ListEnd(d, n, i) = k
    BY <1>2, <2>1 DEF ListEnd
  <2>3. ASSUME NEW j \in i + 1 .. k - 1 PROVE d[j] >= d[i]
    <3>1. j \in 1 .. n /\ j > i /\ ~(k <= j)
      OBVIOUS
    <3>2. j \notin out
      BY <2>1, <3>1
    <3> QED  BY <1>0, <3>1, <3>2
  <2>4. k \in i + 1 .. n + 1 /\ d[k] < d[i]
    OBVIOUS
  <2> QED  BY <2>2, <2>3, <2>4
<1> QED  BY <1>1, <1>2

\* What lies within the i-th, and what lies after it in its list.
LEMMA Within ==
  ASSUME NEW es, NEW d, NEW n, IsTree(es, d, n), NEW i \in 1 .. n
  PROVE  /\ es[i].inner \in 0 .. n /\ (es[i].inner # 0 => es[i].inner > i)
         /\ Found(es, d, n, es[i].inner) = FirstIn(es, i + 1 .. Ends(d, n, i) - 1)
<1> DEFINE s == Ends(d, n, i)
<1>a. /\ n \in Nat /\ d \in [1 .. n -> 1 .. n] /\ es[i].inner = Expiry!Inner(d, i)
      /\ Expiry!IsNesting(d) /\ Len(d) = n
  BY DEF IsTree
<1>1. /\ s \in i + 1 .. n + 1 /\ \A j \in i + 1 .. s - 1 : d[j] > d[i]
      /\ s # n + 1 => d[s] <= d[i]
  BY <1>a, EndsType
<1> HIDE DEF s
<1>2. CASE i < n /\ d[i + 1] > d[i]
  <2>1. es[i].inner = i + 1 /\ i + 1 \in 1 .. n /\ i + 1 # s /\ d[i] \in 1 .. n /\ d[i + 1] \in 1 .. n
    BY <1>a, <1>1, <1>2 DEF Expiry!Inner
  <2>2. d[i + 1] = d[i] + 1
    <3>1. d[i + 1] = 1 \/ d[i + 1] \in 1 .. d[i + 1 - 1] + 1
      BY <1>a, <2>1 DEF Expiry!IsNesting
    <3>2. i + 1 - 1 = i
      BY <1>a
    <3> QED  BY <1>2, <2>1, <3>1, <3>2
  <2>3. s \in (i + 1) + 1 .. n + 1
    BY <1>1, <2>1
  <2>4. \A j \in (i + 1) + 1 .. s - 1 : d[j] >= d[i + 1]
    <3>1. ASSUME NEW j \in (i + 1) + 1 .. s - 1 PROVE d[j] >= d[i + 1]
      <4>1. d[j] > d[i] /\ d[j] \in 1 .. n
        BY <1>a, <1>1
      <4> QED  BY <2>1, <2>2, <4>1
    <3> QED  BY <3>1
  <2>5. s # n + 1 => d[s] < d[i + 1]
    <3>1. ASSUME s # n + 1 PROVE d[s] < d[i + 1]
      <4>1. d[s] <= d[i] /\ d[s] \in 1 .. n
        BY <1>a, <1>1, <3>1
      <4> QED  BY <2>1, <2>2, <4>1
    <3> QED  BY <3>1
  <2>6. ListEnd(d, n, i + 1) = s
    BY <1>a, <2>1, <2>3, <2>4, <2>5, ListEndIs
  <2>7. Found(es, d, n, i + 1) = FirstIn(es, i + 1 .. s - 1)
    BY <1>a, <2>1, <2>6 DEF Found
  <2> QED  BY <1>a, <2>1, <2>7 DEF s
<1>3. CASE ~(i < n /\ d[i + 1] > d[i])
  <2>1. es[i].inner = 0
    BY <1>a, <1>3 DEF Expiry!Inner
  <2>2. s = i + 1
    BY <1>a, <1>1, <1>3
  <2>3. i + 1 .. s - 1 = {}
    BY <1>a, <2>2
  <2>4. FirstIn(es, {}) = 0
    BY DEF FirstIn, Named
  <2>5. Found(es, d, n, es[i].inner) = FirstIn(es, i + 1 .. s - 1)
    BY <2>1, <2>3, <2>4, Zenon DEF Found
  <2>6. es[i].inner \in 0 .. n
    BY <1>a, <2>1
  <2> QED  BY <2>1, <2>5, <2>6, Zenon DEF s
<1> QED  BY <1>2, <1>3

LEMMA BehindIt ==
  ASSUME NEW es, NEW d, NEW n, IsTree(es, d, n), NEW i \in 1 .. n
  PROVE  /\ es[i].next \in 0 .. n /\ (es[i].next # 0 => es[i].next > i)
         /\ Ends(d, n, i) <= ListEnd(d, n, i)
         /\ Found(es, d, n, es[i].next) = FirstIn(es, Ends(d, n, i) .. ListEnd(d, n, i) - 1)
<1> DEFINE s == Ends(d, n, i)
           e == ListEnd(d, n, i)
<1>a. /\ n \in Nat /\ d \in [1 .. n -> 1 .. n] /\ es[i].next = Expiry!After(d, i) /\ d[i] \in 1 .. n
  BY DEF IsTree
<1>1. /\ s \in i + 1 .. n + 1 /\ \A j \in i + 1 .. s - 1 : d[j] > d[i]
      /\ s # n + 1 => /\ Expiry!Behind(d, i) # {} /\ d[s] <= d[i]
                      /\ s = Expiry!Min(Expiry!Behind(d, i))
      /\ s = n + 1 => Expiry!Behind(d, i) = {}
  BY <1>a, EndsType, Zenon
<1>2. /\ e \in i + 1 .. n + 1 /\ \A j \in i + 1 .. e - 1 : d[j] >= d[i]
      /\ e # n + 1 => d[e] < d[i]
  BY <1>a, ListEndType, Zenon
<1>b. (s # n + 1 => d[s] \in 1 .. n) /\ (e # n + 1 => d[e] \in 1 .. n)
  <2>1. n \in Nat /\ s \in i + 1 .. n + 1 /\ e \in i + 1 .. n + 1
    BY <1>a, <1>1, <1>2, Zenon
  <2> HIDE DEF s, e
  <2>2. (s # n + 1 => s \in 1 .. n) /\ (e # n + 1 => e \in 1 .. n)
    BY <2>1
  <2> QED  BY <1>a, <2>2
<1>3. FirstIn(es, {}) = 0
  BY DEF FirstIn, Named
<1> HIDE DEF s, e
<1>4. s <= e
  <2> SUFFICES ASSUME e < s PROVE FALSE
    BY <1>1, <1>2
  <2>1. e # n + 1 /\ e \in i + 1 .. s - 1
    BY <1>1, <1>2
  <2>2. d[e] > d[i] /\ d[e] < d[i] /\ d[e] \in 1 .. n
    BY <1>1, <1>2, <1>b, <2>1
  <2> QED  BY <1>a, <2>2
<1>5. CASE s = n + 1 \/ d[s] < d[i]
  <2>1. es[i].next = 0
    BY <1>a, <1>1, <1>5 DEF Expiry!After
  <2>2. s = e
    <3> SUFFICES ASSUME s < e PROVE FALSE
      BY <1>1, <1>2, <1>4
    <3>1. s # n + 1 /\ s \in i + 1 .. e - 1
      BY <1>1, <1>2
    <3>2. d[s] >= d[i] /\ d[s] < d[i] /\ d[s] \in 1 .. n
      BY <1>1, <1>2, <1>b, <1>5, <3>1
    <3> QED  BY <1>a, <3>2
  <2>3. s .. e - 1 = {}
    BY <1>1, <2>2
  <2>4. Found(es, d, n, es[i].next) = FirstIn(es, s .. e - 1)
    BY <1>3, <2>1, <2>3, Zenon DEF Found
  <2>5. es[i].next \in 0 .. n
    BY <1>a, <2>1
  <2> QED  BY <1>4, <2>1, <2>4, <2>5, Zenon DEF s, e
<1>6. CASE s # n + 1 /\ ~(d[s] < d[i])
  <2>1. es[i].next = s /\ d[s] = d[i] /\ s \in 1 .. n
    <3>0. n \in Nat /\ s \in i + 1 .. n + 1 /\ s # n + 1
      BY <1>a, <1>1, <1>6
    <3>1. s \in 1 .. n
      BY <3>0
    <3>2. Expiry!After(d, i) = s
      BY <1>1, <1>6, Zenon DEF Expiry!After
    <3>3. d[s] <= d[i] /\ d[s] \in 1 .. n /\ d[i] \in 1 .. n
      BY <1>a, <1>1, <1>b, <3>0, Zenon
    <3>4. d[s] = d[i]
      <4>1. ~(d[s] < d[i])
        BY <1>6
      <4> QED  BY <3>0, <3>3, <4>1
    <3> QED  BY <1>a, <3>1, <3>2, <3>4, Zenon
  <2>2. e # s
    BY <1>2, <1>6
  <2>3. e \in s + 1 .. n + 1
    BY <1>1, <1>2, <1>4, <2>2
  <2>4. \A j \in s + 1 .. e - 1 : d[j] >= d[s]
    <3>1. ASSUME NEW j \in s + 1 .. e - 1 PROVE j \in i + 1 .. e - 1
      BY <1>1, <1>2
    <3> QED  BY <1>2, <2>1, <3>1
  <2>5. ListEnd(d, n, s) = e
    BY <1>a, <1>2, <2>1, <2>3, <2>4, ListEndIs
  <2>6. Found(es, d, n, s) = FirstIn(es, s .. e - 1)
    BY <1>a, <2>1, <2>5 DEF Found
  <2>7. s > i
    BY <1>1
  <2>8. es[i].next \in 0 .. n /\ (es[i].next # 0 => es[i].next > i)
    BY <1>a, <2>1, <2>7
  <2>9. Found(es, d, n, es[i].next) = FirstIn(es, s .. e - 1)
    BY <2>1, <2>6, Zenon
  <2> QED  BY <1>4, <2>8, <2>9, Zenon DEF s, e
<1> QED  BY <1>5, <1>6

LEMMA FoundIs ==
  ASSUME NEW es, NEW d, NEW n, IsTree(es, d, n), NEW i \in 1 .. n
  PROVE  /\ Expiry!IsRegistrar(es[i]) => Found(es, d, n, i) = es[i].card
         /\ ~Expiry!IsRegistrar(es[i]) /\ Found(es, d, n, es[i].inner) # 0
               => Found(es, d, n, i) = Found(es, d, n, es[i].inner)
         /\ ~Expiry!IsRegistrar(es[i]) /\ Found(es, d, n, es[i].inner) = 0
               => Found(es, d, n, i) = Found(es, d, n, es[i].next)
<1> DEFINE s == Ends(d, n, i)
           e == ListEnd(d, n, i)
           I == i + 1 .. s - 1
           N == s .. e - 1
<1>a. n \in Nat /\ d \in [1 .. n -> 1 .. n]
  BY DEF IsTree
<1>b. s \in i + 1 .. n + 1
  BY <1>a, EndsType, Zenon
<1>c. e \in i + 1 .. n + 1
  BY <1>a, ListEndType, Zenon
<1>d. s <= e
  BY BehindIt, Zenon
<1>2. /\ Found(es, d, n, es[i].inner) = FirstIn(es, I)
      /\ Found(es, d, n, es[i].next) = FirstIn(es, N)
  <2>1. Found(es, d, n, es[i].inner) = FirstIn(es, I)
    BY Within, Zenon
  <2>2. Found(es, d, n, es[i].next) = FirstIn(es, N)
    BY BehindIt, Zenon
  <2> QED  BY <2>1, <2>2, Zenon
<1>3. Found(es, d, n, i) = FirstIn(es, i .. e - 1)
  BY DEF Found
<1> HIDE DEF s, e
<1>4. /\ i .. e - 1 = {i} \cup (I \cup N)
      /\ {i} \in SUBSET (1 .. n) /\ I \in SUBSET (1 .. n) /\ N \in SUBSET (1 .. n)
      /\ I \cup N \in SUBSET (1 .. n)
      /\ \A k \in I \cup N : i < k
      /\ \A j \in I : \A k \in N : j < k
  <2>1. i .. e - 1 = {i} \cup (I \cup N)
    <3>1. \A k \in i .. e - 1 : k = i \/ k \in i + 1 .. s - 1 \/ k \in s .. e - 1
      BY <1>a, <1>b, <1>c, <1>d
    <3>2. \A k \in 1 .. n : k = i \/ k \in i + 1 .. s - 1 \/ k \in s .. e - 1 => k \in i .. e - 1
      BY <1>a, <1>b, <1>c, <1>d
    <3>3. /\ \A k \in i + 1 .. s - 1 : k \in 1 .. n
          /\ \A k \in s .. e - 1 : k \in 1 .. n
      BY <1>a, <1>b, <1>c, <1>d
    <3> QED  BY <3>1, <3>2, <3>3
  <2>2. I \in SUBSET (1 .. n) /\ N \in SUBSET (1 .. n)
    BY <1>a, <1>b, <1>c, <1>d
  <2>3. \A k \in I \cup N : i < k
    BY <1>a, <1>b, <1>c, <1>d
  <2>4. \A j \in I : \A k \in N : j < k
    BY <1>a, <1>b, <1>c, <1>d
  <2> HIDE DEF I, N
  <2> QED  BY <2>1, <2>2, <2>3, <2>4
<1> DEFINE L == i .. e - 1
           B == I \cup N
<1>s. Split(B, I, N) /\ B \in SUBSET (1 .. n) /\ Split(L, {i}, B) /\ L \in SUBSET (1 .. n)
  <2> HIDE DEF I, N
  <2> QED  BY <1>4 DEF Split
<1> HIDE DEF I, N, L, B
<1>5. /\ FirstIn(es, I) = 0 => FirstIn(es, B) = FirstIn(es, N)
      /\ FirstIn(es, I) # 0 => FirstIn(es, B) = FirstIn(es, I)
  BY <1>a, <1>s, FirstOfTwo, Zenon
<1>6. /\ FirstIn(es, {i}) = 0 => FirstIn(es, L) = FirstIn(es, B)
      /\ FirstIn(es, {i}) # 0 => FirstIn(es, L) = FirstIn(es, {i})
  BY <1>a, <1>s, FirstOfTwo, Zenon
<1>7. /\ Expiry!IsRegistrar(es[i]) => FirstIn(es, {i}) = es[i].card /\ es[i].card # 0
      /\ ~Expiry!IsRegistrar(es[i]) => FirstIn(es, {i}) = 0
  BY FirstOfOne
<1> QED  BY <1>2, <1>3, <1>5, <1>6, <1>7 DEF L

\* FindRegistrar finds the first registrar of the document that has a card.
LEMMA FindRegistrarFinds ==
  ASSUME NEW es, Expiry!IsDocument(es)
  PROVE  Expiry!FindRegistrar(es) = FirstIn(es, 1 .. Len(es))
<1> DEFINE n == Len(es)
           Walk(g) == [i \in 0 .. n |->
                        IF i = 0 THEN 0
                        ELSE IF Expiry!IsRegistrar(es[i]) THEN es[i].card
                        ELSE IF g[es[i].inner] # 0 THEN g[es[i].inner]
                        ELSE g[es[i].next]]
           find == CHOOSE g : g = Walk(g)
<1>1. n \in Nat
  BY DEF Expiry!IsDocument
<1>2. PICK d \in [1 .. n -> 1 .. n] : IsTree(es, d, n)
  BY <1>1 DEF Expiry!IsDocument, IsTree
<1> DEFINE G == [i \in 0 .. n |-> Found(es, d, n, i)]
<1>3. \A i \in 1 .. n : /\ es[i].inner \in 0 .. n /\ (es[i].inner # 0 => es[i].inner > i)
                        /\ es[i].next \in 0 .. n /\ (es[i].next # 0 => es[i].next > i)
  BY <1>2, Within, BehindIt
<1>4. G = Walk(G)
  <2>1. \A i \in 1 .. n : G[i] =
            IF Expiry!IsRegistrar(es[i]) THEN es[i].card
            ELSE IF G[es[i].inner] # 0 THEN G[es[i].inner] ELSE G[es[i].next]
    BY <1>2, <1>3, FoundIs
  <2>2. G[0] = 0
    BY DEF Found
  <2> HIDE DEF G
  <2>3. G = [i \in 0 .. n |-> G[i]]
    BY DEF G
  <2>4. \A i \in 0 .. n : G[i] = Walk(G)[i]
    BY <2>1, <2>2
  <2> QED  BY <2>3, <2>4
<1>5. find = Walk(find)
  BY <1>4
<1>6. Expiry!FindRegistrar(es) = find[Expiry!Min({1, n})]
  BY DEF Expiry!FindRegistrar
<1> HIDE DEF find, G
<1>7. {i \in 1 .. n : find[i] # G[i]} = {}
  <2> DEFINE T == {i \in 1 .. n : find[i] # G[i]}
  <2> SUFFICES ASSUME T # {} PROVE FALSE
    OBVIOUS
  <2>1. PICK k \in T : \A m \in T : m <= k
    <3>1. T \in SUBSET (1 .. n)
      OBVIOUS
    <3> HIDE DEF T
    <3> QED  BY <1>1, <3>1, Greatest
  <2>2. k \in 1 .. n /\ find[k] # G[k]
    OBVIOUS
  <2>3. ASSUME NEW j \in 0 .. n, j = 0 \/ j > k PROVE find[j] = G[j]
    <3>1. CASE j = 0
      BY <1>4, <1>5, <3>1
    <3>2. CASE j > k /\ j \in 1 .. n
      BY <2>1, <2>2, <3>2
    <3> QED  BY <2>3, <3>1, <3>2
  <2>4. find[es[k].inner] = G[es[k].inner] /\ find[es[k].next] = G[es[k].next]
    BY <1>3, <2>2, <2>3
  <2>5. find[k] = Walk(find)[k] /\ G[k] = Walk(G)[k]
    BY <1>4, <1>5
  <2>6. Walk(find)[k] = Walk(G)[k]
    BY <2>2, <2>4
  <2> QED  BY <2>2, <2>5, <2>6
<1>8. CASE n = 0
  <2>1. Expiry!Min({1, n}) = 0
    BY <1>8 DEF Expiry!Min
  <2>2. find[0] = 0
    BY <1>5
  <2>3. 1 .. n = {} /\ FirstIn(es, {}) = 0
    BY <1>8 DEF FirstIn, Named
  <2> QED  BY <1>6, <2>1, <2>2, <2>3
<1>9. CASE n # 0
  <2>1. Expiry!Min({1, n}) = 1 /\ 1 \in 1 .. n
    BY <1>1, <1>9 DEF Expiry!Min
  <2>2. find[1] = Found(es, d, n, 1)
    <3>1. find[1] = G[1]
      BY <1>7, <2>1
    <3>2. G[1] = Found(es, d, n, 1)
      BY <1>1, <2>1 DEF G
    <3> QED  BY <3>1, <3>2, Zenon
  <2>3. d[1] = 1 /\ \A j \in 1 .. n : d[j] >= 1
    BY <1>2, <2>1 DEF IsTree, Expiry!IsNesting
  <2>4. ListEnd(d, n, 1) = n + 1
    BY <1>1, <2>1, <2>3, ListEndIs
  <2> QED  BY <1>1, <1>6, <2>1, <2>2, <2>4 DEF Found
<1> QED  BY <1>8, <1>9

-----------------------------------------------------------------------------
(* The expiry check. *)

Nowhere == [events |-> << >>, entities |-> << >>]

\* No event that was read is unparseable, and a date is that of the last one.
EventsRead(r, n, date) ==
    /\ \A i \in 1 .. n : r.events[i].action # "unparseable"
    /\ date # Unset =>
          \E k \in 1 .. n : /\ r.events[k].action = "expiration" /\ r.events[k].date = date
                            /\ \A i \in k + 1 .. n : r.events[i].action # "expiration"

Events(r) == r.events \in Seq([action : STRING, date : Hours]) /\ Len(r.events) \in Nat

\* What is known of a domain or a certificate that is judged.
Judged ==
    /\ source = "certificate" => expiry \in Hours /\ expiry >= 0
    /\ source = "registry" =>
          /\ expiry # Unset /\ response \in Responses
          /\ event = Len(response.events) + 1
          /\ registrar = Expiry!FindRegistrar(response.entities)

Dated ==
    /\ source \in {"certificate", "registry"} /\ alertDays \in AlertDays \cup {Unset}
    /\ pc \in {"lookup", "events", "judge", "done"}
    /\ response \in Responses \cup {Nowhere}
    /\ event \in 1 .. Len(response.events) + 1
    /\ expiry \in Hours \cup {Unset}
    /\ fails \subseteq {"lookup", "unparseable", "no date", "expires"}
    /\ pc = "lookup" => response = Nowhere /\ event = 1 /\ expiry = Unset
    /\ pc = "events" => source = "registry" /\ response \in Responses
    /\ source = "registry" => EventsRead(response, event - 1, expiry)
    /\ pc = "judge" => Judged
    /\ pc = "done" /\ fails = {} => Judged /\ Expiry!DaysRemaining > Expiry!Threshold
    /\ pc = "done" /\ fails = {"expires"} => Judged /\ Expiry!DaysRemaining <= Expiry!Threshold

LEMMA ResponseEvents == ASSUME NEW r \in Responses \cup {Nowhere} PROVE Events(r)
<1>1. CASE r \in Responses
  <2>1. r.events \in Seq([action : STRING, date : Hours])
    BY <1>1, CheckAssumption, Zenon DEF Expiry!ConstantsOK
  <2>2. Len(r.events) \in Nat
    BY <2>1
  <2> QED  BY <2>1, <2>2 DEF Events
<1>2. CASE r = Nowhere
  BY <1>2 DEF Nowhere, Events
<1> QED  BY <1>1, <1>2

\* One event more is read.
LEMMA ReadOn ==
  ASSUME NEW r, NEW n \in Nat, NEW date, EventsRead(r, n, date),
         r.events[n + 1].action # "unparseable"
  PROVE  /\ r.events[n + 1].action # "expiration" => EventsRead(r, n + 1, date)
         /\ r.events[n + 1].action = "expiration" => EventsRead(r, n + 1, r.events[n + 1].date)
<1>1. \A i \in 1 .. n + 1 : i \in 1 .. n \/ i = n + 1
  OBVIOUS
<1>2. \A i \in 1 .. n + 1 : r.events[i].action # "unparseable"
  BY <1>1 DEF EventsRead
<1>3. ASSUME r.events[n + 1].action # "expiration" PROVE EventsRead(r, n + 1, date)
  <2> SUFFICES ASSUME date # Unset
               PROVE  \E k \in 1 .. n + 1 :
                          /\ r.events[k].action = "expiration" /\ r.events[k].date = date
                          /\ \A i \in k + 1 .. n + 1 : r.events[i].action # "expiration"
    BY <1>2 DEF EventsRead
  <2>1. PICK k \in 1 .. n : /\ r.events[k].action = "expiration" /\ r.events[k].date = date
                            /\ \A i \in k + 1 .. n : r.events[i].action # "expiration"
    BY DEF EventsRead
  <2>2. \A i \in k + 1 .. n + 1 : i \in k + 1 .. n \/ i = n + 1
    OBVIOUS
  <2>3. \A i \in k + 1 .. n + 1 : r.events[i].action # "expiration"
    BY <1>3, <2>1, <2>2
  <2>4. k \in 1 .. n + 1
    OBVIOUS
  <2> QED  BY <2>1, <2>3, <2>4
<1>4. ASSUME r.events[n + 1].action = "expiration" PROVE EventsRead(r, n + 1, r.events[n + 1].date)
  <2>1. n + 1 \in 1 .. n + 1 /\ (n + 1) + 1 .. n + 1 = {}
    OBVIOUS
  <2>2. \A i \in (n + 1) + 1 .. n + 1 : r.events[i].action # "expiration"
    BY <2>1
  <2> QED  BY <1>2, <1>4, <2>1, <2>2 DEF EventsRead
<1> QED  BY <1>3, <1>4

\* A date that is judged is a number, and so is the threshold; one of them is
\* not negative.
LEMMA JudgedDate ==
  ASSUME Dated, Judged
  PROVE  /\ expiry \in Int /\ Expiry!DaysRemaining \in Int /\ Expiry!Threshold \in Int
         /\ expiry >= 0 \/ Expiry!Threshold >= 0
<1>1. Hours \subseteq Int /\ AlertDays \subseteq Int /\ DefaultDays \in Nat
  BY CheckAssumption DEF Expiry!ConstantsOK
<1>2. expiry \in Int
  BY <1>1 DEF Dated, Judged
<1>3. Expiry!DaysRemaining \in Int
  BY <1>2 DEF Expiry!DaysRemaining
<1>a. \/ Expiry!Threshold = DefaultDays
      \/ alertDays # Unset /\ Expiry!Threshold = alertDays /\ (source = "registry" => ~(alertDays <= 0))
  BY DEF Expiry!Threshold
<1>b. alertDays # Unset => alertDays \in Int
  BY <1>1 DEF Dated
<1>4. Expiry!Threshold \in Int
  BY <1>1, <1>a, <1>b
<1>5. source = "registry" => Expiry!Threshold >= 0
  BY <1>1, <1>a, <1>b
<1> QED  BY <1>2, <1>3, <1>4, <1>5 DEF Dated, Judged

LEMMA InitDated == Expiry!Init => Dated
<1> SUFFICES ASSUME Expiry!Init PROVE Dated
  OBVIOUS
<1>1. response = Nowhere /\ event = 1 /\ expiry = Unset /\ fails = {} /\ pc = "lookup"
  BY DEF Expiry!Init, Nowhere
<1>2. Len(response.events) = 0 /\ event \in 1 .. Len(response.events) + 1 /\ event - 1 = 0
  BY <1>1 DEF Nowhere
<1>3. EventsRead(response, 0, expiry)
  BY <1>1 DEF EventsRead
<1> QED  BY <1>1, <1>2, <1>3 DEF Expiry!Init, Dated

LEMMA FailDated ==
  ASSUME Dated, NEW reason \in {"lookup", "unparseable", "no date"}, Expiry!Fail(reason)
  PROVE  Dated'
  BY DEF Dated, Expiry!Fail, Expiry!input

LEMMA DatedStep == Dated /\ Expiry!Next => Dated'
<1> SUFFICES ASSUME Dated, Expiry!Next PROVE Dated'
  OBVIOUS
<1>1. CASE Expiry!LookupFails
  BY <1>1, FailDated DEF Expiry!LookupFails
<1>2. CASE Expiry!Handshake
  <2>1. /\ pc = "lookup" /\ source = "certificate" /\ expiry' \in Hours /\ expiry' >= 0 /\ pc' = "judge"
        /\ UNCHANGED <<source, alertDays, response, event, registrar, fails>>
    BY <1>2 DEF Expiry!Handshake, Expiry!input
  <2>2. Judged'
    BY <2>1 DEF Judged
  <2> QED  BY <2>1, <2>2 DEF Dated
<1>3. CASE Expiry!LookupAnswers
  <2>1. /\ pc = "lookup" /\ source = "registry" /\ response' \in Responses /\ pc' = "events"
        /\ UNCHANGED <<source, alertDays, event, expiry, registrar, fails>>
        /\ event = 1 /\ expiry = Unset
    BY <1>3 DEF Expiry!LookupAnswers, Expiry!input, Dated
  <2>2. PICK r \in Responses : r = response'
    BY <2>1
  <2>3. EventsRead(r, 0, Unset)
    BY DEF EventsRead
  <2>4. 1 \in 1 .. Len(r.events) + 1 /\ 1 - 1 = 0
    BY ResponseEvents DEF Events
  <2>5. event' \in 1 .. Len(response'.events) + 1 /\ EventsRead(response', event' - 1, expiry')
    BY <2>1, <2>2, <2>3, <2>4, Zenon
  <2> QED  BY <2>1, <2>5 DEF Dated
<1>4. CASE Expiry!ReadEvent
  <2> DEFINE e == response.events[event]
  <2>a. /\ response \in Responses /\ source = "registry" /\ event \in 1 .. Len(response.events) + 1
        /\ event <= Len(response.events) /\ EventsRead(response, event - 1, expiry)
        /\ response.events \in Seq([action : STRING, date : Hours]) /\ Len(response.events) \in Nat
    BY <1>4, ResponseEvents DEF Expiry!ReadEvent, Dated, Events
  <2>1. CASE e.action = "unparseable"
    BY <1>4, <2>1, FailDated DEF Expiry!ReadEvent
  <2>2. CASE e.action # "unparseable"
    <3>1. /\ pc = "events" /\ event' = event + 1
          /\ expiry' = IF e.action = "expiration" THEN e.date ELSE expiry
          /\ UNCHANGED <<pc, source, alertDays, response, registrar, fails>>
      BY <1>4, <2>2 DEF Expiry!ReadEvent, Expiry!input
    <3>2. e.date \in Hours
      <4>1. event \in 1 .. Len(response.events)
        BY <2>a
      <4>2. e \in [action : STRING, date : Hours]
        <5>1. ASSUME NEW S, NEW s \in Seq(S), NEW i \in 1 .. Len(s) PROVE s[i] \in S
          OBVIOUS
        <5> QED  BY <2>a, <4>1, <5>1, Zenon
      <4> QED  BY <4>2
    <3>3. PICK n \in Nat : n = event - 1 /\ event = n + 1
      BY <2>a
    <3>4. EventsRead(response, n + 1, IF e.action = "expiration" THEN e.date ELSE expiry)
      <4> HIDE DEF EventsRead
      <4>1. EventsRead(response, n, expiry) /\ response.events[n + 1].action # "unparseable"
        BY <2>a, <2>2, <3>3
      <4>2. /\ response.events[n + 1].action # "expiration" => EventsRead(response, n + 1, expiry)
            /\ response.events[n + 1].action = "expiration"
                  => EventsRead(response, n + 1, response.events[n + 1].date)
        BY <4>1, ReadOn
      <4> QED  BY <3>3, <4>2
    <3>5. (event + 1) - 1 = n + 1 /\ event + 1 \in 1 .. Len(response.events) + 1
      BY <2>a, <3>3
    <3>6. event' \in 1 .. Len(response'.events) + 1 /\ EventsRead(response', event' - 1, expiry')
      BY <3>1, <3>4, <3>5, Zenon
    <3>7. expiry' \in Hours \cup {Unset}
      BY <3>1, <3>2 DEF Dated
    <3> QED  BY <2>a, <3>1, <3>6, <3>7 DEF Dated
  <2> QED  BY <2>1, <2>2
<1>5. CASE Expiry!AllRead
  <2>a. /\ response \in Responses /\ source = "registry" /\ event \in 1 .. Len(response.events) + 1
        /\ event > Len(response.events) /\ Len(response.events) \in Nat
    BY <1>5, ResponseEvents DEF Expiry!AllRead, Dated, Events
  <2>1. CASE expiry = Unset
    BY <1>5, <2>1, FailDated DEF Expiry!AllRead
  <2>2. CASE expiry # Unset
    <3>1. /\ registrar' = Expiry!FindRegistrar(response.entities) /\ pc' = "judge"
          /\ UNCHANGED <<source, alertDays, response, event, expiry, fails>>
      BY <1>5, <2>2 DEF Expiry!AllRead, Expiry!input
    <3>2. event = Len(response.events) + 1
      BY <2>a
    <3>3. Judged'
      BY <2>a, <2>2, <3>1, <3>2, Zenon DEF Judged
    <3> QED  BY <3>1, <3>3 DEF Dated
  <2> QED  BY <2>1, <2>2
<1>6. CASE Expiry!Judge
  <2>1. /\ pc = "judge" /\ pc' = "done"
        /\ fails' = IF Expiry!DaysRemaining <= Expiry!Threshold THEN {"expires"} ELSE {}
        /\ UNCHANGED <<source, alertDays, response, event, expiry, registrar>>
    BY <1>6 DEF Expiry!Judge, Expiry!input
  <2>2. Judged' /\ Judged
    BY <2>1 DEF Dated, Judged
  <2>3. Expiry!DaysRemaining' = Expiry!DaysRemaining /\ Expiry!Threshold' = Expiry!Threshold
    BY <2>1 DEF Expiry!DaysRemaining, Expiry!Threshold
  <2>4. Expiry!DaysRemaining \in Int /\ Expiry!Threshold \in Int
    BY <2>2, JudgedDate
  <2>5. \/ Expiry!DaysRemaining <= Expiry!Threshold /\ fails' = {"expires"}
        \/ Expiry!DaysRemaining > Expiry!Threshold /\ fails' = {}
    BY <2>1, <2>4
  <2>6. /\ fails' = {} => Expiry!DaysRemaining' > Expiry!Threshold'
        /\ fails' = {"expires"} => Expiry!DaysRemaining' <= Expiry!Threshold'
    BY <2>3, <2>5, Zenon
  <2>7. fails' \subseteq {"lookup", "unparseable", "no date", "expires"}
    BY <2>5
  <2> QED  BY <2>1, <2>2, <2>6, <2>7 DEF Dated
<1> QED  BY <1>1, <1>2, <1>3, <1>4, <1>5, <1>6 DEF Expiry!Next

-----------------------------------------------------------------------------

ExpiryInv == monitorType = "expiry" => Dated

LEMMA ExpiryInvInit == Init => ExpiryInv
  BY InitDated DEF Init, ExpiryInv

LEMMA ExpiryInvStep == ExpiryInv /\ [Next]_vars => ExpiryInv'
<1> SUFFICES ASSUME ExpiryInv, [Next]_vars, monitorType' = "expiry" PROVE Dated'
  BY DEF ExpiryInv
<1>1. CASE UNCHANGED vars
  <2>1. Dated
    BY <1>1 DEF ExpiryInv, vars
  <2>2. UNCHANGED <<pc, fails, source, alertDays, response, event, expiry, registrar>>
    BY <1>1 DEF vars, expiryVars
  <2>3. /\ Judged' <=> Judged
        /\ Expiry!DaysRemaining' = Expiry!DaysRemaining /\ Expiry!Threshold' = Expiry!Threshold
    BY <2>2 DEF Judged, Expiry!DaysRemaining, Expiry!Threshold
  <2> QED  BY <2>1, <2>2, <2>3 DEF Dated
<1>2. CASE ExpiryStep
  BY <1>2, DatedStep DEF ExpiryStep, ExpiryInv
<1>3. CASE HTTPStep \/ MCPStep \/ MailStep \/ OAuthStep
  BY <1>3 DEF HTTPStep, MCPStep, MailStep, OAuthStep
<1> QED  BY <1>1, <1>2, <1>3 DEF Next

\* What is left of a day does not count.
LEMMA WholeDays ==
  ASSUME NEW hours \in Int, NEW days \in Int, hours >= 0 \/ days >= 0
  PROVE  LET rest == IF hours >= 0 THEN hours \div 24 ELSE -((-hours) \div 24) IN
         /\ rest > days => hours >= 0 /\ hours >= 24 * (days + 1)
         /\ rest <= days => hours < 24 * (days + 1)
  OBVIOUS

LEMMA DatedAhead == Dated => Expiry!ExpiryIsAhead
<1> SUFFICES ASSUME Dated, pc = "done", fails = {} \/ fails = {"expires"} PROVE Expiry!ExpiryIsAhead
  BY DEF Expiry!ExpiryIsAhead
<1>1. Judged
  BY DEF Dated
<1>2. expiry \in Int /\ Expiry!Threshold \in Int /\ (expiry >= 0 \/ Expiry!Threshold >= 0)
  BY <1>1, JudgedDate
<1>3. /\ Expiry!DaysRemaining > Expiry!Threshold => expiry >= 0 /\ expiry >= 24 * (Expiry!Threshold + 1)
      /\ Expiry!DaysRemaining <= Expiry!Threshold => expiry < 24 * (Expiry!Threshold + 1)
  BY <1>2, WholeDays DEF Expiry!DaysRemaining
<1>4. ASSUME source = "registry"
      PROVE  /\ expiry = response.events[Expiry!Max(Expiry!Reported("expiration"))].date
             /\ Expiry!Reported("unparseable") = {}
  <2> DEFINE n == Len(response.events)
             T == Expiry!Reported("expiration")
  <2>1. expiry # Unset /\ event = n + 1 /\ n \in Nat /\ DOMAIN response.events = 1 .. n
    BY <1>1, <1>4, ResponseEvents DEF Judged, Events
  <2>2. EventsRead(response, n, expiry)
    <3>1. EventsRead(response, event - 1, expiry)
      BY <1>4 DEF Dated
    <3>2. event - 1 = n
      BY <2>1
    <3> QED  BY <3>1, <3>2
  <2>3. Expiry!Reported("unparseable") = {}
    BY <2>1, <2>2 DEF EventsRead, Expiry!Reported
  <2>4. PICK k \in 1 .. n : /\ response.events[k].action = "expiration"
                            /\ response.events[k].date = expiry
                            /\ \A i \in k + 1 .. n : response.events[i].action # "expiration"
    BY <2>1, <2>2 DEF EventsRead
  <2>5. T \in SUBSET (1 .. n) /\ k \in T
    BY <2>1, <2>4 DEF Expiry!Reported
  <2>6. ASSUME NEW m \in T PROVE m <= k
    <3>1. m \in 1 .. n /\ response.events[m].action = "expiration"
      BY <2>1 DEF Expiry!Reported
    <3>2. m \notin k + 1 .. n
      BY <2>4, <3>1
    <3> QED  BY <2>1, <3>1, <3>2
  <2>7. Expiry!Max(T) = k
    <3> HIDE DEF T
    <3> QED  BY <2>1, <2>5, <2>6, LastIs
  <2> QED  BY <2>3, <2>4, <2>7
<1> QED  BY <1>3, <1>4 DEF Dated, Expiry!ExpiryIsAhead

LEMMA DatedFirst == Dated => Expiry!RegistrarIsFirst
<1> SUFFICES ASSUME Dated, pc \in {"judge", "done"}, source = "registry", fails \subseteq {"expires"}
             PROVE  LET es == response.entities
                        named == {i \in DOMAIN es : Expiry!IsRegistrar(es[i])}
                    IN  registrar = IF named = {} THEN 0 ELSE es[Expiry!Min(named)].card
  BY DEF Expiry!RegistrarIsFirst
<1> DEFINE es == response.entities
<1>1. Judged
  <2>1. fails = {} \/ fails = {"expires"}
    OBVIOUS
  <2> QED  BY <2>1 DEF Dated
<1>2. Expiry!IsDocument(es) /\ registrar = Expiry!FindRegistrar(es)
  BY <1>1, CheckAssumption DEF Judged, Expiry!ConstantsOK
<1>3. registrar = FirstIn(es, 1 .. Len(es))
  BY <1>2, FindRegistrarFinds
<1>4. DOMAIN es = 1 .. Len(es)
  BY <1>2 DEF Expiry!IsDocument
<1> QED  BY <1>3, <1>4 DEF FirstIn, Named

\* What passes expires a full day after the threshold, or later, by the last
\* date that the registry lists (checkDomainExpiry, checkSSL), whatever the
\* dates and thresholds.
THEOREM ExpiresLater == Spec => []ExpiryIsAhead
<1>1. ExpiryInv => ExpiryIsAhead
  BY DatedAhead DEF ExpiryInv, ExpiryIsAhead, Ran
<1> QED  BY <1>1, ExpiryInvInit, ExpiryInvStep, PTL DEF Spec

\* The recursive search (findRegistrar) reports the first registrar of the
\* document, for entities nested to any depth.
THEOREM FirstRegistrar == Spec => []RegistrarIsFirst
<1>1. ExpiryInv => RegistrarIsFirst
  BY DatedFirst DEF ExpiryInv, RegistrarIsFirst, Ran
<1> QED  BY <1>1, ExpiryInvInit, ExpiryInvStep, PTL DEF Spec

-----------------------------------------------------------------------------
(* The mail check. *)

\* What is known of the domain's record, once it was looked up.
Read ==
    /\ spf.records \in 0 .. 2 /\ spf.lookups \in Nat /\ spf.dangling \in BOOLEAN
    /\ truth.lookups \in Nat /\ truth.written \in Nat /\ truth.lookups <= truth.written
    /\ truth.plain => truth.lookups = truth.written
    /\ spf.records > 0 /\ truth.acyclic => spf.lookups <= truth.written
    /\ truth.exact /\ ~failed =>
          /\ truth.records = spf.records
          /\ spf.records > 0 =>
                /\ truth.all = spf.all
                /\ spf.lookups <= truth.written
                /\ spf.lookups <= MaxBranch =>
                      /\ spf.lookups = truth.written
                      /\ truth.dangling => spf.dangling
                      /\ truth.plain /\ spf.dangling => truth.dangling

LEMMA LookupReads ==
  ASSUME Mail!LookupSPF
  PROVE  Read' /\ failed' \in BOOLEAN
<1> DEFINE N == Mail!Cardinality(Name)
<1>0. N = Cardinality(Name) /\ N \in Nat
  BY FiniteNames, FS_CardinalityType
<1>a. PICK zone \in Zones, several \in SUBSET Name :
          /\ truth' = Mail!Truth(zone, several)
          /\ \E lost \in SUBSET Name, lostLater \in SUBSET ({zone[Domain].redirect} \ {"none"}) :
                /\ spf' = IF zone[Domain] = Mail!NoRecord \/ Domain \in lost THEN Mail!NotFound
                          ELSE Mail!Found(Mail!Known(zone, lost), Mail!Known(zone, lostLater),
                                          Mail!RecordsOf(zone, several, Domain))
                /\ failed' = (lost \cup lostLater # {})
  <2>1. [Name -> Records] \subseteq Zones
    BY MailConstants DEF Zones
  <2> QED  BY <2>1, Zenon DEF Mail!LookupSPF
<1>b. PICK lost \in SUBSET Name, lostLater \in SUBSET ({zone[Domain].redirect} \ {"none"}) :
                /\ spf' = IF zone[Domain] = Mail!NoRecord \/ Domain \in lost THEN Mail!NotFound
                          ELSE Mail!Found(Mail!Known(zone, lost), Mail!Known(zone, lostLater),
                                          Mail!RecordsOf(zone, several, Domain))
                /\ failed' = (lost \cup lostLater # {})
  BY <1>a, Zenon
<1> DEFINE records == Mail!RecordsOf(zone, several, Domain)
           heard == Mail!Heard(zone)
<1>1. /\ IF zone[Domain] = NoRec THEN records = 0 ELSE records \in {1, 2}
      /\ spf' = IF zone[Domain] = NoRec \/ Domain \in lost THEN Mail!NotFound
                ELSE Mail!Found(Mail!Known(zone, lost), Mail!Known(zone, lostLater), records)
  BY <1>b, Zenon DEF Mail!RecordsOf, NoRec
<1>2. /\ truth'.records = records /\ truth'.lookups = Mail!Total(heard, N)
      /\ truth'.written = Mail!Total(zone, N)
      /\ truth'.acyclic = (Mail!Total(zone, N) = Mail!Total(zone, N + 1))
      /\ truth'.dangling = (\E n \in Mail!Reach(heard, N) : zone[n] = NoRec)
      /\ truth'.all = Mail!AllOf(zone, zone) /\ truth'.exact = Mail!WithinReach(zone)
      /\ truth'.plain = (heard = zone)
  BY <1>a DEF Mail!Truth, NoRec
<1>3. lost \in SUBSET Name /\ failed' \in BOOLEAN /\ (~failed' => lost = {} /\ lostLater = {})
  BY <1>b
<1>4. /\ Mail!Total(zone, N) \in Nat /\ Mail!Total(heard, N) \in Nat
      /\ Mail!Total(heard, N) <= Mail!Total(zone, N)
      /\ Mail!Reach(heard, N) \subseteq All(zone)
      /\ heard = zone => Mail!Total(heard, N) = Mail!Total(zone, N) /\ Mail!Reach(heard, N) = All(zone)
  BY <1>0, HeardCosts, HeardReaches DEF All
<1> HIDE DEF N, records, heard
<1>4a. /\ truth'.lookups \in Nat /\ truth'.written \in Nat /\ truth'.lookups <= truth'.written
       /\ truth'.plain => truth'.lookups = truth'.written
  BY <1>2, <1>4
<1>5. CASE zone[Domain] = NoRec \/ Domain \in lost
  <2>1. spf' = Mail!NotFound
    BY <1>1, <1>5
  <2>2. spf'.records = 0 /\ spf'.lookups = 0 /\ spf'.dangling = FALSE
    BY <2>1 DEF Mail!NotFound
  <2>3. ~failed' => records = 0
    BY <1>1, <1>3, <1>5
  <2>4. spf'.records \in 0 .. 2 /\ spf'.lookups \in Nat /\ ~(spf'.records > 0)
    BY <2>2
  <2>5. spf'.dangling \in BOOLEAN
    BY <2>2
  <2>6. ~failed' => truth'.records = spf'.records
    BY <1>2, <2>2, <2>3
  <2>7. Read'
    BY <1>4a, <2>4, <2>5, <2>6, Zenon DEF Read
  <2> QED  BY <1>3, <2>7
<1>6. CASE zone[Domain] # NoRec /\ Domain \notin lost
  <2> DEFINE known == Mail!Known(zone, lost)
             later == Mail!Known(zone, lostLater)
             counted == Mail!Count(known, Domain)
  <2>1. spf' = Mail!Found(known, later, records) /\ records \in {1, 2}
    BY <1>1, <1>6
  <2>2. /\ spf'.records = records /\ spf'.lookups = counted.lookups /\ spf'.dangling = counted.dangling
        /\ spf'.all = Mail!AllOf(known, later)
    BY <2>1 DEF Mail!Found
  <2>3. counted \in State
    <3>1. <<Domain, 0, {}>> \in Place
      BY MailConstants DEF Place
    <3>2. CountOf(known)[<<Domain, 0, {}>>] \in State
      BY <1>3, <3>1, KnownIs, CountOfIs
    <3> QED  BY <3>2, CountUnfolds DEF CountOf
  <2>4. counted.lookups \in Nat /\ counted.dangling \in BOOLEAN
    BY <2>3 DEF State
  <2>5. Mail!Total(zone, N) = Mail!Total(zone, N + 1) => counted.lookups <= Mail!Total(zone, N)
    <3>1. N \in Nat
      BY <1>0
    <3> QED  BY <1>3, <3>1, BoundedByTruth
  <2>6. ASSUME Mail!WithinReach(zone), ~failed'
        PROVE  /\ truth'.all = spf'.all
               /\ counted.lookups <= Mail!Total(zone, N)
               /\ counted.lookups <= MaxBranch =>
                     counted.lookups = Mail!Total(zone, N) /\ (counted.dangling <=> \E n \in All(zone) : zone[n] = NoRec)
    <3>1. known = zone /\ later = zone
      <4>1. lost = {} /\ lostLater = {}
        BY <1>3, <2>6
      <4> QED  BY <4>1, KnownIs
    <3>2. counted = Mail!Count(zone, Domain)
      BY <3>1
    <3> HIDE DEF known, later, counted
    <3>3. truth'.all = spf'.all
      BY <1>2, <2>2, <3>1
    <3>4. /\ counted.lookups <= Mail!Total(zone, N)
          /\ counted.lookups <= MaxBranch =>
                 /\ counted.lookups = Mail!Total(zone, N)
                 /\ counted.dangling <=> \E n \in All(zone) : n # Domain /\ zone[n] = NoRec
      BY <1>0, <2>6, <3>2, TreeCounted
    <3>5. (\E n \in All(zone) : n # Domain /\ zone[n] = NoRec) <=> \E n \in All(zone) : zone[n] = NoRec
      BY <1>6
    <3> QED  BY <3>3, <3>4, <3>5
  <2> HIDE DEF known, later, counted
  <2>7. spf'.records \in 0 .. 2 /\ spf'.lookups \in Nat /\ spf'.dangling \in BOOLEAN
    BY <2>1, <2>2, <2>4
  <2>8. truth'.acyclic => spf'.lookups <= truth'.written
    BY <1>2, <2>2, <2>5
  <2>9. ASSUME truth'.exact, ~failed'
        PROVE  /\ truth'.records = spf'.records /\ truth'.all = spf'.all /\ spf'.lookups <= truth'.written
               /\ spf'.lookups <= MaxBranch =>
                      /\ spf'.lookups = truth'.written
                      /\ truth'.dangling => spf'.dangling
                      /\ truth'.plain /\ spf'.dangling => truth'.dangling
    <3>1. /\ truth'.all = spf'.all
          /\ counted.lookups <= Mail!Total(zone, N)
          /\ counted.lookups <= MaxBranch =>
                counted.lookups = Mail!Total(zone, N) /\ (counted.dangling <=> \E n \in All(zone) : zone[n] = NoRec)
      BY <1>2, <2>6, <2>9
    <3>2. /\ truth'.dangling => \E n \in All(zone) : zone[n] = NoRec
          /\ truth'.plain /\ (\E n \in All(zone) : zone[n] = NoRec) => truth'.dangling
      BY <1>2, <1>4
    <3> QED  BY <1>2, <2>2, <3>1, <3>2, Zenon
  <2> QED  BY <1>3, <1>4a, <2>7, <2>8, <2>9 DEF Read
<1> QED  BY <1>3, <1>5, <1>6

\* Of the reasons to fail, those that hold.
Reasons == Mail!SPFFails \cup Mail!DMARCFails \cup Mail!When(Mail!Listings # {}, "listed")

Posture ==
    /\ pc \in {"spf", "dmarc", "blocklists", "judge", "done"}
    /\ failed \in BOOLEAN /\ score \in 0 .. 100
    /\ IF pc = "spf" THEN spf = Mail!NotFound ELSE Read
    /\ dmarc.records \in 0 .. 2 /\ dmarc.policy \in Mail!Policy
    /\ required \in Demands
    /\ fails = IF pc = "done" THEN Reasons ELSE {}

LEMMA InitPosture == Mail!Init => Posture
<1> SUFFICES ASSUME Mail!Init PROVE Posture
  OBVIOUS
<1>1. pc = "spf" /\ spf = Mail!NotFound /\ required \in Demands /\ failed \in BOOLEAN /\ score = 100 /\ fails = {}
  BY DEF Mail!Init
<1>2. dmarc.records \in 0 .. 2 /\ dmarc.policy \in Mail!Policy
  <2>1. dmarc.records = 0 /\ dmarc.policy = ""
    BY DEF Mail!Init, Mail!NoDMARC
  <2>2. 0 \in 0 .. 2 /\ "" \in Mail!Policy
    BY DEF Mail!Policy
  <2> QED  BY <2>1, <2>2, Zenon
<1> QED  BY <1>1, <1>2 DEF Posture

LEMMA Scored ==
  ASSUME NEW loss \in Nat
  PROVE  Mail!Floor(100 - loss) \in 0 .. 100
<1> DEFINE p == 100 - loss
           m == CHOOSE x \in {0, p} : \A y \in {0, p} : x >= y
<1>1. p \in Int /\ p <= 100
  OBVIOUS
<1> HIDE DEF p
<1>2. \E x \in {0, p} : \A y \in {0, p} : x >= y
  BY <1>1
<1>3. m \in {0, p} /\ m >= 0
  BY <1>2
<1>4. Mail!Floor(p) = m
  BY DEF Mail!Floor, Mail!Max
<1> HIDE DEF m
<1>5. Mail!Floor(p) \in 0 .. 100
  BY <1>1, <1>3, <1>4
<1> QED  BY <1>5 DEF p

LEMMA LossIs ==
  Mail!SPFLoss + Mail!DMARCLoss + Mail!Min({40, 20 * Mail!Cardinality(Mail!Listings)}) \in Nat
<1>1. \A c \in BOOLEAN : \A p \in Nat : Mail!Cost(c, p) \in Nat
  BY DEF Mail!Cost
<1>2. Mail!SPFLoss \in Nat
  <2> DEFINE byAll == CASE spf.all = "+all" -> 25 [] spf.all = "?all" -> 10
                        [] spf.all = "" /\ ~spf.redirect -> 10 [] OTHER -> 0
             many == Mail!Cost(spf.lookups > LookupLimit, 15)
             several == Mail!Cost(spf.records > 1, 15)
  <2>1. byAll \in Nat
    OBVIOUS
  <2>2. many \in Nat /\ several \in Nat
    BY DEF Mail!Cost
  <2>3. Mail!SPFLoss = IF spf.records = 0 THEN 30 ELSE byAll + many + several
    BY DEF Mail!SPFLoss
  <2> HIDE DEF byAll, many, several
  <2> QED  BY <2>1, <2>2, <2>3
<1>3. Mail!DMARCLoss \in Nat
  <2> DEFINE byPolicy == CASE dmarc.policy = "" -> 25 [] dmarc.policy = "none" -> 15
                           [] dmarc.policy = "quarantine" -> 5 [] OTHER -> 0
             silent == Mail!Cost(~dmarc.rua, 5)
             partial == Mail!Cost(dmarc.partial, 5)
  <2>1. byPolicy \in Nat
    OBVIOUS
  <2>2. silent \in Nat /\ partial \in Nat
    BY DEF Mail!Cost
  <2>3. Mail!DMARCLoss = IF dmarc.records = 0 THEN 30 ELSE byPolicy + silent + partial
    BY DEF Mail!DMARCLoss
  <2> HIDE DEF byPolicy, silent, partial
  <2> QED  BY <2>1, <2>2, <2>3
<1>4. Mail!Min({40, 20 * Mail!Cardinality(Mail!Listings)}) \in Nat
  <2> DEFINE n == 20 * Mail!Cardinality(Mail!Listings)
  <2>1. n \in Nat
    <3>1. Mail!Listings \in SUBSET Query
      BY DEF Mail!Listings
    <3>2. Cardinality(Mail!Listings) \in Nat
      BY <3>1, FiniteNames, FS_Subset, FS_CardinalityType
    <3>3. Mail!Cardinality(Mail!Listings) = Cardinality(Mail!Listings)
      BY FiniteNames
    <3> QED  BY <3>2, <3>3
  <2> HIDE DEF n
  <2>2. \E x \in {40, n} : \A y \in {40, n} : x <= y
    BY <2>1
  <2>3. Mail!Min({40, n}) \in {40, n}
    BY <2>2 DEF Mail!Min
  <2>4. Mail!Min({40, n}) \in Nat
    BY <2>1, <2>3
  <2> QED  BY <2>4 DEF n
<1> DEFINE a == Mail!SPFLoss
           b == Mail!DMARCLoss
           c == Mail!Min({40, 20 * Mail!Cardinality(Mail!Listings)})
<1> HIDE DEF a, b, c
<1>5. a + b + c \in Nat
  BY <1>2, <1>3, <1>4 DEF a, b, c
<1> QED  BY <1>5 DEF a, b, c

LEMMA PostureStep == Posture /\ Mail!Next => Posture'
<1> SUFFICES ASSUME Posture, Mail!Next PROVE Posture'
  OBVIOUS
<1>a. /\ failed \in BOOLEAN /\ score \in 0 .. 100 /\ required \in Demands
      /\ dmarc.records \in 0 .. 2 /\ dmarc.policy \in Mail!Policy
  BY DEF Posture
<1>b. pc # "spf" => Read
  BY DEF Posture
<1>c. pc # "done" => fails = {}
  BY DEF Posture
<1>1. CASE Mail!LookupSPF
  <2>1. pc = "spf" /\ pc' = "dmarc" /\ UNCHANGED <<dmarc, answer, required, score, fails>>
    BY <1>1 DEF Mail!LookupSPF
  <2>2. Read' /\ failed' \in BOOLEAN
    BY <1>1, LookupReads
  <2> QED  BY <1>a, <1>c, <2>1, <2>2 DEF Posture
<1>2. CASE Mail!LookupDMARC
  <2>1. pc = "dmarc" /\ pc' = "blocklists" /\ UNCHANGED <<spf, answer, required, score, fails, truth>>
    BY <1>2 DEF Mail!LookupDMARC
  <2>2. failed' = failed \/ failed' = TRUE
    BY <1>2 DEF Mail!LookupDMARC
  <2>3. dmarc'.records \in 0 .. 2 /\ dmarc'.policy \in Mail!Policy
    <3>1. dmarc' = dmarc \/ dmarc' \in [records : {1, 2}, policy : Mail!Policy, partial : BOOLEAN, rua : BOOLEAN]
      BY <1>2 DEF Mail!LookupDMARC
    <3> QED  BY <1>a, <3>1
  <2>4. Read'
    BY <1>b, <2>1, <2>2, Zenon DEF Read
  <2>5. failed' \in BOOLEAN
    BY <1>a, <2>2
  <2> QED  BY <1>a, <1>c, <2>1, <2>3, <2>4, <2>5 DEF Posture
<1>3. CASE Mail!QueryBlocklists
  <2>1. pc = "blocklists" /\ pc' = "judge" /\ UNCHANGED <<spf, dmarc, required, score, fails, truth, failed>>
    BY <1>3 DEF Mail!QueryBlocklists
  <2>2. Read'
    BY <1>b, <2>1 DEF Read
  <2> QED  BY <1>a, <1>c, <2>1, <2>2 DEF Posture
<1>4. CASE Mail!Judge
  <2>1. /\ pc = "judge" /\ pc' = "done" /\ UNCHANGED <<spf, dmarc, answer, required, truth, failed>>
        /\ fails' = Reasons
    BY <1>4 DEF Mail!Judge, Reasons
  <2>2. Read'
    BY <1>b, <2>1 DEF Read
  <2>3. Reasons' = Reasons
    BY <2>1, ZenonT(40) DEF Reasons, Mail!SPFFails, Mail!DMARCFails, Mail!Listings
  <2>4. score' \in 0 .. 100
    <3> DEFINE loss == Mail!SPFLoss + Mail!DMARCLoss + Mail!Min({40, 20 * Mail!Cardinality(Mail!Listings)})
    <3>1. score' = Mail!Floor(100 - loss)
      BY <1>4 DEF Mail!Judge
    <3>2. loss \in Nat
      BY LossIs
    <3> HIDE DEF loss
    <3> QED  BY <3>1, <3>2, Scored
  <2> QED  BY <1>a, <2>1, <2>2, <2>3, <2>4 DEF Posture
<1> QED  BY <1>1, <1>2, <1>3, <1>4 DEF Mail!Next

\* Either it is not configured, or it looks up.
MailInv == monitorType = "mail" => Posture \/ (pc = "done" /\ fails = {"not configured"})

LEMMA MailInvInit == Init => MailInv
  BY InitPosture DEF Init, MailInv

LEMMA MailInvStep == MailInv /\ [Next]_vars => MailInv'
<1> SUFFICES ASSUME MailInv, [Next]_vars PROVE MailInv'
  OBVIOUS
<1>1. CASE MailStep
  <2>1. monitorType = "mail" /\ Mail!Next /\ monitorType' = "mail"
    BY <1>1 DEF MailStep
  <2>2. pc # "done"
    BY <2>1 DEF Mail!Next, Mail!LookupSPF, Mail!LookupDMARC, Mail!QueryBlocklists, Mail!Judge
  <2>3. Posture
    BY <2>1, <2>2 DEF MailInv
  <2> QED  BY <2>1, <2>3, PostureStep DEF MailInv
<1>2. CASE MCPStep \/ OAuthStep \/ HTTPStep \/ ExpiryStep
  <2>1. monitorType # "mail" /\ monitorType' = monitorType
    BY <1>2 DEF MCPStep, OAuthStep, HTTPStep, ExpiryStep
  <2> QED  BY <2>1 DEF MailInv
<1>3. CASE UNCHANGED vars
  <2>1. UNCHANGED <<monitorType, pc, fails, spf, dmarc, answer, required, score, truth, failed>>
    BY <1>3 DEF vars, mailVars
  <2>2. Posture' <=> Posture
    BY <2>1 DEF Posture, Read, Reasons, Mail!SPFFails, Mail!DMARCFails, Mail!Listings
  <2> QED  BY <2>1, <2>2 DEF MailInv
<1> QED  BY <1>1, <1>2, <1>3 DEF Next

LEMMA MailInvAlways == Spec => []MailInv
<1> QED  BY MailInvInit, MailInvStep, PTL DEF Spec

LEMMA ReadCounts == ASSUME Posture PROVE Mail!CountIsExact
<1>1. CASE pc = "spf"
  <2>1. spf.records = 0
    <3>1. spf = Mail!NotFound
      BY <1>1, Zenon DEF Posture
    <3> QED  BY <3>1 DEF Mail!NotFound
  <2> QED  BY <2>1 DEF Mail!CountIsExact
<1>2. CASE pc # "spf"
  <2>1. Read
    <3>1. IF pc = "spf" THEN spf = Mail!NotFound ELSE Read
      BY Zenon DEF Posture
    <3> QED  BY <1>2, <3>1, Zenon
  <2>2. truth.lookups <= truth.written /\ (truth.plain => truth.lookups = truth.written)
    BY <2>1, Zenon DEF Read
  <2>3. spf.records > 0 /\ truth.acyclic => spf.lookups <= truth.written
    BY <2>1, Zenon DEF Read
  <2>4. spf.records > 0 /\ truth.exact /\ ~failed /\ spf.lookups <= MaxBranch =>
            spf.lookups = truth.written
    BY <2>1, Zenon DEF Read
  <2> QED  BY <2>2, <2>3, <2>4 DEF Mail!CountIsExact
<1> QED  BY <1>1, <1>2

\* The lookups that are counted for an SPF record (mailCheckSPF) are no more than
\* all that is written costs, where that runs in no circle; and where the includes
\* are a tree within reach and the record is not hopeless they are no fewer than
\* receivers make, and just those if receivers ignore no term of it.
THEOREM CountedFully == Spec => []CountIsExact
<1>1. MailInv => CountIsExact
  <2>1. ASSUME MailInv, Ran("mail") PROVE Mail!CountIsExact
    BY <2>1, ReadCounts DEF MailInv, Ran
  <2> QED  BY <2>1 DEF CountIsExact
<1> QED  BY <1>1, MailInvAlways, PTL

\* What receivers can make of the SPF record.
Sound == truth.records = 1 /\ ~truth.dangling /\ truth.lookups <= LookupLimit /\ truth.all # "+all"

LEMMA ReasonsOfSPF ==
  ASSUME Read, truth.exact, ~failed
  PROVE  /\ Mail!SPFFails = {} => Sound
         /\ Sound /\ truth.plain => Mail!SPFFails = {}
<1>1. /\ spf.records \in 0 .. 2 /\ spf.lookups \in Nat /\ truth.lookups \in Nat /\ truth.written \in Nat
      /\ truth.lookups <= truth.written /\ truth.records = spf.records
      /\ truth.plain => truth.lookups = truth.written
  BY DEF Read
<1>2. CASE spf.records = 0
  <2>1. Mail!SPFFails = {"No SPF record"}
    BY <1>2 DEF Mail!SPFFails
  <2>2. truth.records # 1
    BY <1>1, <1>2
  <2> QED  BY <2>1, <2>2, Zenon DEF Sound
<1>3. CASE spf.records > 0
  <2>1. truth.all = spf.all /\ spf.lookups <= truth.written
    BY <1>3 DEF Read
  <2>2. spf.lookups <= MaxBranch => spf.lookups = truth.written
    BY <1>3 DEF Read
  <2>3. LookupLimit \in Nat /\ MaxBranch \in Nat /\ LookupLimit <= MaxBranch
    BY CheckAssumption DEF Mail!ConstantsOK
  <2>4. /\ ~(spf.lookups > LookupLimit) => truth.lookups <= LookupLimit
        /\ truth.plain /\ truth.lookups <= LookupLimit => ~(spf.lookups > LookupLimit)
    BY <1>1, <2>1, <2>2, <2>3
  <2>5. ~(spf.lookups > LookupLimit) =>
            /\ truth.dangling => spf.dangling
            /\ truth.plain /\ spf.dangling => truth.dangling
    <3>1. ~(spf.lookups > LookupLimit) => spf.lookups <= MaxBranch
      BY <1>1, <2>3
    <3> QED  BY <1>3, <3>1, Zenon DEF Read
  <2>6. truth.records = 1 <=> ~(spf.records > 1)
    BY <1>1, <1>3
  <2>7. Mail!SPFFails = {} <=>
            ~(spf.records > 1) /\ ~(spf.lookups > LookupLimit) /\ ~spf.dangling /\ spf.all # "+all"
    <3>1. spf.records # 0
      BY <1>1, <1>3
    <3> QED  BY <3>1 DEF Mail!SPFFails, Mail!When
  <2> QED  BY <2>1, <2>4, <2>5, <2>6, <2>7, Zenon DEF Sound
<1> QED  BY <1>1, <1>2, <1>3

LEMMA ReasonsOfDMARC ==
  ASSUME dmarc.records \in 0 .. 2
  PROVE  Mail!DMARCFails = {} <=>
             dmarc.records = 1 /\ dmarc.policy # "" /\ Mail!Rank(dmarc.policy) >= Mail!Rank(required)
<1>1. Mail!Rank(dmarc.policy) >= Mail!Rank(required) <=> ~(Mail!Rank(dmarc.policy) < Mail!Rank(required))
  <2>1. Mail!Rank(dmarc.policy) \in Nat /\ Mail!Rank(required) \in Nat
    BY DEF Mail!Rank
  <2> QED  BY <2>1
<1>2. dmarc.records = 0 \/ dmarc.records = 1 \/ dmarc.records > 1
  OBVIOUS
<1>3. CASE dmarc.records = 0
  <2>1. "No DMARC record" \in Mail!DMARCFails
    BY <1>3 DEF Mail!DMARCFails
  <2>2. dmarc.records # 1
    BY <1>3
  <2> QED  BY <2>1, <2>2, Zenon
<1>4. CASE dmarc.records # 0
  <2>1. Mail!DMARCFails = {} <=>
            /\ ~(dmarc.records > 1) /\ dmarc.policy # ""
            /\ ~(Mail!Rank(dmarc.policy) < Mail!Rank(required))
    BY <1>4 DEF Mail!DMARCFails, Mail!When
  <2>2. dmarc.records = 1 <=> ~(dmarc.records > 1)
    BY <1>4
  <2> QED  BY <1>1, <2>1, <2>2
<1> QED  BY <1>3, <1>4

LEMMA VerdictIs ==
  ASSUME Posture, pc = "done", ~failed, truth.exact
  PROVE  /\ fails = {} /\ ~truth.ambiguous => Mail!Protected
         /\ Mail!Protected /\ truth.plain => fails = {}
<1>1. Read /\ fails = Reasons /\ dmarc.records \in 0 .. 2
  BY DEF Posture
<1>2. fails = {} <=> Mail!SPFFails = {} /\ Mail!DMARCFails = {} /\ Mail!Listings = {}
  BY <1>1 DEF Reasons, Mail!When
<1>3. Mail!Listings = {} <=> \A t \in Query : answer[t] # "listed"
  BY DEF Mail!Listings
<1>4. /\ Mail!SPFFails = {} => Sound
      /\ Sound /\ truth.plain => Mail!SPFFails = {}
  BY <1>1, ReasonsOfSPF
<1>5. Mail!DMARCFails = {} <=>
          dmarc.records = 1 /\ dmarc.policy # "" /\ Mail!Rank(dmarc.policy) >= Mail!Rank(required)
  BY <1>1, ReasonsOfDMARC
<1> QED  BY <1>2, <1>3, <1>4, <1>5, Zenon DEF Mail!Protected, Sound

\* Of the checks whose TXT lookups were all answered, with includes within the
\* reach of the count: one that passes found a domain that is protected, unless an
\* include has several records; and one of a domain that is protected passes,
\* unless a record has terms that receivers ignore (mailBuildResult and the
\* lookups it judges).
THEOREM DeservedVerdicts == Spec => []VerdictIsDeserved
<1>1. MailInv => VerdictIsDeserved
  <2> SUFFICES ASSUME MailInv, Ran("mail"), pc = "done", ~failed, truth.exact
               PROVE  /\ fails = {} /\ ~truth.ambiguous => Mail!Protected
                      /\ Mail!Protected /\ truth.plain => fails = {}
    BY Zenon DEF VerdictIsDeserved, Mail!VerdictIsDeserved, Mail!Conclusive
  <2>1. Posture
    BY DEF MailInv, Ran
  <2> QED  BY <2>1, VerdictIs
<1> QED  BY <1>1, MailInvAlways, PTL

-----------------------------------------------------------------------------
(* The types of the variables. *)

MCPTyped ==
    /\ MCP!TypeOK
    /\ pc \in {"connect", "list"} => pages < MaxPages

LEMMA InitMCPTyped == MCP!Init => MCPTyped
<1> SUFFICES ASSUME MCP!Init PROVE MCPTyped
  OBVIOUS
<1>1. pc = "connect" /\ listed = {} /\ pages = 0 /\ truncated = FALSE /\ drift = {} /\ fails = {}
  BY DEF MCP!Init
<1>2. Cardinality({}) = 0 /\ MCP!Cardinality({}) = Cardinality({})
  BY SameSets, FS_EmptySet
<1>3. MaxPages \in Nat \ {0} /\ MaxTools \in Nat \ {0}
  BY CheckAssumption DEF MCP!ConstantsOK
<1>4. MCP!Cardinality(listed) <= MaxTools /\ pages \in 0 .. MaxPages /\ pages < MaxPages
  BY <1>1, <1>2, <1>3
<1> QED  BY <1>1, <1>4 DEF MCPTyped, MCP!TypeOK

LEMMA SeveritiesOf ==
  ASSUME NEW names, NEW d \in MCP!Diff(names)
  PROVE  d.severity \in {"fail", "info"}
<1>1. \A kind, t : \A severity \in {"fail", "info"} : MCP!Drift(kind, t, severity).severity \in {"fail", "info"}
  BY DEF MCP!Drift
<1>2. \E kind, t : \E severity \in {"fail", "info"} : d = MCP!Drift(kind, t, severity)
  BY DEF MCP!Diff, MCP!Changes, MCP!When
<1> QED  BY <1>1, <1>2

LEMMA MCPTypedStep == MCPTyped /\ Listing /\ MCP!Next => MCPTyped'
<1> SUFFICES ASSUME MCPTyped, Listing, MCP!Next PROVE MCPTyped'
  OBVIOUS
<1>a. /\ pc \in {"connect", "list", "evaluate", "done"} /\ listed \subseteq DOMAIN server
      /\ MCP!Cardinality(listed) <= MaxTools /\ pages \in 0 .. MaxPages /\ truncated \in BOOLEAN
      /\ (\A d \in drift : d.severity \in {"fail", "info"})
      /\ fails \subseteq {"connect", "list", "expected", "too many", "drift", "pattern"}
  BY DEF MCPTyped, MCP!TypeOK
<1>b. MaxPages \in Nat \ {0} /\ MaxTools \in Nat \ {0}
  BY CheckAssumption DEF MCP!ConstantsOK
<1>c. pages \in 0 .. MaxPages
  BY <1>a
<1>1. ASSUME NEW reason \in {"connect", "list"}, MCP!Fail(reason) PROVE MCPTyped'
  <2>1. pc' = "done" /\ fails' = {reason} /\ UNCHANGED <<server, listed, pages, truncated, drift>>
    BY <1>1 DEF MCP!Fail, MCP!target
  <2> QED  BY <1>a, <2>1 DEF MCPTyped, MCP!TypeOK
<1>2. CASE MCP!Connect
  <2>1. CASE pc' = "list" /\ UNCHANGED <<MCP!target, listed, pages, truncated, drift, fails>>
    <3>1. pages < MaxPages /\ UNCHANGED server
      BY <1>2, <2>1 DEF MCP!Connect, MCP!target, MCPTyped
    <3> QED  BY <1>a, <2>1, <3>1 DEF MCPTyped, MCP!TypeOK
  <2> QED  BY <1>1, <1>2, <2>1 DEF MCP!Connect
<1>3. CASE MCP!ListPage
  <2>1. PICK page \in SUBSET (DOMAIN server \ listed), more \in BOOLEAN :
            /\ pages' = pages + 1
            /\ \/ /\ MCP!Cardinality(listed \cup page) < MaxTools /\ pages' < MaxPages
                  /\ listed' = listed \cup page /\ UNCHANGED <<pc, truncated>>
               \/ /\ MCP!Stop(listed \cup page, more)
                  /\ \E kept \in MCP!kSubset(MCP!Min({MaxTools, MCP!Cardinality(listed \cup page)}),
                                            listed \cup page) :
                        listed \subseteq kept /\ listed' = kept
    BY <1>3 DEF MCP!ListPage
  <2> DEFINE got == listed \cup page
  <2>2. pages < MaxPages /\ UNCHANGED <<server, drift, fails>>
    BY <1>3 DEF MCP!ListPage, MCP!target, MCPTyped
  <2>3. got \subseteq DOMAIN server /\ IsFiniteSet(got) /\ MCP!Cardinality(got) \in Nat
    <3>1. got \subseteq DOMAIN server
      BY <1>a
    <3>2. IsFiniteSet(got)
      BY <3>1, FS_Subset DEF Listing
    <3> HIDE DEF got
    <3> QED  BY <3>1, <3>2, FS_CardinalityType, SameSets
  <2>4. pages' \in 0 .. MaxPages
    <3>1. pages \in 0 .. MaxPages /\ pages < MaxPages
      BY <1>c, <2>2
    <3>2. MaxPages \in Nat
      BY <1>b
    <3>3. pages + 1 \in 0 .. MaxPages
      BY <3>1, <3>2
    <3> QED  BY <2>1, <3>3
  <2>5. CASE /\ MCP!Cardinality(got) < MaxTools /\ pages' < MaxPages
             /\ listed' = got /\ UNCHANGED <<pc, truncated>>
    <3>1. MCP!Cardinality(listed') <= MaxTools
      BY <1>b, <2>3, <2>5
    <3> QED  BY <1>a, <2>2, <2>3, <2>4, <2>5, <3>1 DEF MCPTyped, MCP!TypeOK
  <2>6. CASE /\ MCP!Stop(got, more)
             /\ \E kept \in MCP!kSubset(MCP!Min({MaxTools, MCP!Cardinality(got)}), got) :
                   listed \subseteq kept /\ listed' = kept
    <3> DEFINE k == MCP!Min({MaxTools, MCP!Cardinality(got)})
    <3>1. k <= MaxTools
      <4>1. MaxTools \in Int /\ MCP!Cardinality(got) \in Int
        BY <1>b, <2>3
      <4> DEFINE n == MCP!Cardinality(got)
      <4> HIDE DEF n
      <4>2. \E x \in {MaxTools, n} : \A y \in {MaxTools, n} : x <= y
        BY <4>1 DEF n
      <4>3. MCP!Min({MaxTools, n}) <= MaxTools
        BY <4>2 DEF MCP!Min
      <4> QED  BY <4>3 DEF n
    <3>2. listed' \subseteq got /\ MCP!Cardinality(listed') = k
      <4>1. listed' \in MCP!kSubset(k, got)
        BY <2>6
      <4> HIDE DEF k, got
      <4> QED  BY <4>1 DEF MCP!kSubset
    <3>3. pc' = "evaluate" /\ truncated' \in BOOLEAN
      BY <2>6 DEF MCP!Stop
    <3>4. MCP!Cardinality(listed') <= MaxTools
      BY <3>1, <3>2
    <3> QED  BY <1>a, <2>2, <2>3, <2>4, <3>2, <3>3, <3>4 DEF MCPTyped, MCP!TypeOK
  <2> QED  BY <2>1, <2>5, <2>6
<1>4. CASE MCP!ListFails
  BY <1>1, <1>4 DEF MCP!ListFails
<1>5. CASE MCP!Evaluate
  <2>1. pc' = "done" /\ UNCHANGED <<server, listed, pages, truncated>>
    BY <1>5 DEF MCP!Evaluate, MCP!target
  <2>2. drift' = MCP!Diff(listed) \/ drift' = {}
    BY <1>5 DEF MCP!Evaluate
  <2>3. \A d \in drift' : d.severity \in {"fail", "info"}
    BY <2>2, SeveritiesOf
  <2>4. fails' \subseteq {"connect", "list", "expected", "too many", "drift", "pattern"}
    BY <1>5 DEF MCP!Evaluate, MCP!When
  <2> QED  BY <1>a, <2>1, <2>3, <2>4 DEF MCPTyped, MCP!TypeOK
<1> QED  BY <1>2, <1>3, <1>4, <1>5 DEF MCP!Next

OAuthTyped ==
    /\ OAuth!TypeOK
    /\ pc \in {"resource", "server"} => left \in {1, 2}

LEMMA InitOAuthTyped == OAuth!Init => OAuthTyped
<1> SUFFICES ASSUME OAuth!Init PROVE OAuthTyped
  OBVIOUS
<1>1. /\ pc = "challenge" /\ left = 0 /\ servers = "" /\ meta = OAuth!Nothing
      /\ served = [servers |-> "", meta |-> OAuth!Nothing] /\ refused = FALSE /\ fails = {}
  BY DEF OAuth!Init
<1>2. OAuth!Nothing \in OAuth!Meta /\ "" \in OAuth!Servers
  BY DEF OAuth!Nothing, OAuth!Meta, OAuth!Endpoint, OAuth!Servers
<1>3. served \in [servers : OAuth!Servers, meta : OAuth!Meta]
  BY <1>1, <1>2
<1>z. left = 0
  BY <1>1
<1>4. left \in 0 .. 2
  BY <1>z
<1>5. /\ pc = "challenge" /\ servers \in OAuth!Servers /\ meta \in OAuth!Meta
      /\ refused \in BOOLEAN /\ fails = {}
  BY <1>1, <1>2
<1> QED  BY <1>3, <1>4, <1>5 DEF OAuthTyped, OAuth!TypeOK

LEMMA OAuthTypedStep == OAuthTyped /\ OAuth!Next => OAuthTyped'
<1> SUFFICES ASSUME OAuthTyped, OAuth!Next PROVE OAuthTyped'
  OBVIOUS
<1>a. /\ pc \in {"challenge", "resource", "server", "judge", "done"} /\ left \in 0 .. 2
      /\ servers \in OAuth!Servers /\ meta \in OAuth!Meta
      /\ served \in [servers : OAuth!Servers, meta : OAuth!Meta] /\ refused \in BOOLEAN
      /\ fails \subseteq {"no challenge", "no resource metadata", "no server",
                          "no server metadata", "issuer", "pkce", "endpoints", "registration"}
      /\ (pc \in {"resource", "server"} => left \in {1, 2})
  BY DEF OAuthTyped, OAuth!TypeOK
<1>b. \A old, new \in OAuth!Servers : OAuth!Decode(old, new) \in OAuth!Servers
  BY DEF OAuth!Decode
<1>c. \A doc \in OAuth!Meta : OAuth!DecodeAll(meta, doc) \in OAuth!Meta
  BY <1>a, DecodedFields
<1>1. ASSUME NEW reason \in {"no challenge", "no resource metadata", "no server metadata"}, OAuth!Fail(reason)
      PROVE  OAuthTyped'
  <2>1. pc' = "done" /\ fails' = {reason} /\ UNCHANGED <<left, servers, meta, served, refused>>
    BY <1>1 DEF OAuth!Fail, OAuth!documents
  <2> QED  BY <1>a, <2>1 DEF OAuthTyped, OAuth!TypeOK
\* The next place, or none.
<1>2. ASSUME NEW reason, reason \in {"no resource metadata", "no server metadata"},
             pc \in {"resource", "server"},
             \/ pc' = "done" /\ fails' = {reason} /\ UNCHANGED left
             \/ left # 1 /\ left' = left - 1 /\ UNCHANGED <<pc, fails>>,
             left' = left \/ (left # 1 /\ left' = left - 1),
             servers' \in OAuth!Servers, meta' \in OAuth!Meta, UNCHANGED served, refused' \in BOOLEAN
      PROVE  OAuthTyped'
  <2>1. left \in {1, 2}
    BY <1>a, <1>2
  <2>2. left # 1 => left - 1 = 1
    BY <2>1
  <2>3. left' \in {1, 2}
    <3>1. left' = left \/ (left # 1 /\ left' = left - 1)
      BY <1>2, Zenon
    <3> QED  BY <3>1, <2>1, <2>2
  <2>4. left' \in 0 .. 2
    BY <2>3
  <2>5. pc' \in {"resource", "server", "done"}
    BY <1>2
  <2>6. fails' \subseteq {"no challenge", "no resource metadata", "no server",
                         "no server metadata", "issuer", "pkce", "endpoints", "registration"}
    BY <1>a, <1>2
  <2>7. served' \in [servers : OAuth!Servers, meta : OAuth!Meta]
    BY <1>a, <1>2
  <2>8. OAuth!TypeOK'
    BY <1>2, <2>4, <2>5, <2>6, <2>7 DEF OAuth!TypeOK
  <2> QED  BY <2>3, <2>8 DEF OAuthTyped
<1>3. CASE OAuth!Challenge
  <2>1. CASE pc' = "resource" /\ left' \in {1, 2} /\ UNCHANGED <<OAuth!documents, fails>>
    <3>1. UNCHANGED <<servers, meta, served, refused, fails>>
      BY <2>1 DEF OAuth!documents
    <3>2. left' \in 0 .. 2
      BY <2>1
    <3>3. OAuth!TypeOK'
      BY <1>a, <2>1, <3>1, <3>2 DEF OAuth!TypeOK
    <3> QED  BY <2>1, <3>3 DEF OAuthTyped
  <2> QED  BY <1>1, <1>3, <2>1 DEF OAuth!Challenge
<1>4. CASE OAuth!FetchResource
  <2>0. pc = "resource"
    BY <1>4 DEF OAuth!FetchResource
  <2>1. CASE OAuth!Missing("no resource metadata")
    <3>1. \/ OAuth!Fail("no resource metadata")
          \/ /\ left # 1 /\ left' = left - 1
             /\ UNCHANGED <<pc, servers, meta, served, refused, fails>>
      BY <2>1 DEF OAuth!Missing, OAuth!documents
    <3> QED  BY <1>a, <1>1, <1>2, <2>0, <3>1
  <2>2. CASE OAuth!RefusedResource
    <3>1. /\ \E doc \in OAuth!Servers : servers' = OAuth!Decode(servers, doc)
          /\ \/ pc' = "done" /\ fails' = {"no resource metadata"} /\ UNCHANGED left
             \/ left # 1 /\ left' = left - 1 /\ UNCHANGED <<pc, fails>>
          /\ refused' = TRUE /\ UNCHANGED <<meta, served>>
      BY <2>2 DEF OAuth!RefusedResource
    <3>a. left' = left \/ (left # 1 /\ left' = left - 1)
      BY <2>2 DEF OAuth!RefusedResource
    <3>2. servers' \in OAuth!Servers /\ meta' \in OAuth!Meta /\ refused' \in BOOLEAN /\ UNCHANGED served
      BY <1>a, <1>b, <3>1
    <3> QED  BY <1>2, <2>0, <3>1, <3>2, <3>a
  <2>3. CASE OAuth!AcceptedResource
    <3>1. PICK doc \in OAuth!Servers :
              /\ servers' = OAuth!Decode(servers, doc) /\ served' = [served EXCEPT !.servers = doc]
              /\ \/ pc' = "server" /\ left' = 2 /\ UNCHANGED fails
                 \/ pc' = "done" /\ fails' = {"no server"} /\ UNCHANGED left
              /\ UNCHANGED <<meta, refused>>
      BY <2>3 DEF OAuth!AcceptedResource
    <3>2. servers' \in OAuth!Servers /\ served' \in [servers : OAuth!Servers, meta : OAuth!Meta]
      BY <1>a, <1>b, <3>1
    <3>a. left' = 2 \/ left' = left
      BY <3>1
    <3>b. left \in 0 .. 2
      BY <1>a
    <3>3. left' \in 0 .. 2
      BY <3>a, <3>b
    <3>4. pc' \in {"server", "done"} /\ (pc' = "server" => left' = 2)
      BY <3>1
    <3>5. fails' \subseteq {"no challenge", "no resource metadata", "no server",
                           "no server metadata", "issuer", "pkce", "endpoints", "registration"}
      BY <1>a, <3>1
    <3>6. meta' \in OAuth!Meta /\ refused' \in BOOLEAN
      BY <1>a, <3>1
    <3>7. OAuth!TypeOK'
      BY <3>2, <3>3, <3>4, <3>5, <3>6 DEF OAuth!TypeOK
    <3>8. pc' \in {"resource", "server"} => left' \in {1, 2}
      BY <3>4
    <3> QED  BY <3>7, <3>8 DEF OAuthTyped
  <2> QED  BY <1>4, <2>1, <2>2, <2>3 DEF OAuth!FetchResource
<1>5. CASE OAuth!FetchServer
  <2>0. pc = "server"
    BY <1>5 DEF OAuth!FetchServer
  <2>1. CASE OAuth!Missing("no server metadata")
    <3>1. \/ OAuth!Fail("no server metadata")
          \/ /\ left # 1 /\ left' = left - 1
             /\ UNCHANGED <<pc, servers, meta, served, refused, fails>>
      BY <2>1 DEF OAuth!Missing, OAuth!documents
    <3> QED  BY <1>a, <1>1, <1>2, <2>0, <3>1
  <2>2. CASE OAuth!RefusedServer
    <3>1. /\ \E doc \in OAuth!Meta : meta' = OAuth!DecodeAll(meta, doc)
          /\ \/ pc' = "done" /\ fails' = {"no server metadata"} /\ UNCHANGED left
             \/ left # 1 /\ left' = left - 1 /\ UNCHANGED <<pc, fails>>
          /\ refused' = TRUE /\ UNCHANGED <<servers, served>>
      BY <2>2, DocumentsAreMeta DEF OAuth!RefusedServer
    <3>a. left' = left \/ (left # 1 /\ left' = left - 1)
      BY <2>2 DEF OAuth!RefusedServer
    <3>2. servers' \in OAuth!Servers /\ meta' \in OAuth!Meta /\ refused' \in BOOLEAN /\ UNCHANGED served
      BY <1>a, <1>c, <3>1
    <3> QED  BY <1>2, <2>0, <3>1, <3>2, <3>a
  <2>3. CASE OAuth!AcceptedServer
    <3>1. PICK doc \in OAuth!Meta :
              /\ meta' = OAuth!DecodeAll(meta, doc) /\ served' = [served EXCEPT !.meta = doc]
              /\ pc' = "judge" /\ UNCHANGED <<left, servers, refused, fails>>
      BY <2>3, DocumentsAreMeta DEF OAuth!AcceptedServer
    <3>2. meta' \in OAuth!Meta /\ served' \in [servers : OAuth!Servers, meta : OAuth!Meta]
      BY <1>a, <1>c, <3>1
    <3> QED  BY <1>a, <3>1, <3>2 DEF OAuthTyped, OAuth!TypeOK
  <2> QED  BY <1>5, <2>1, <2>2, <2>3 DEF OAuth!FetchServer
<1>6. CASE OAuth!Judge
  <2>1. pc' = "done" /\ fails' = OAuth!Errors(meta) /\ UNCHANGED <<left, servers, meta, served, refused>>
    BY <1>6 DEF OAuth!Judge, OAuth!documents
  <2>2. fails' \subseteq {"issuer", "pkce", "endpoints", "registration"}
    BY <2>1 DEF OAuth!Errors
  <2> QED  BY <1>a, <2>1, <2>2 DEF OAuthTyped, OAuth!TypeOK
<1> QED  BY <1>3, <1>4, <1>5, <1>6 DEF OAuth!Next

\* A connection has no more dials under way than it has begun.
HTTPTyped ==
    /\ pc \in {"dial", "sent", "headers", "done"}
    /\ hop \in 1 .. MaxRedirects /\ using \subseteq Conn
    /\ conn \in [Conn -> {"new", "lookup", "dialling", "shaking", "tls", "open", "failed", "closed"}]
    /\ tries \in [Conn -> 0 .. MaxRacers] /\ racing \in [Conn -> 0 .. MaxRacers]
    /\ \A c \in Conn : racing[c] <= tries[c]
    /\ clock \in 0 .. Timeout /\ details \in {HTTP!Zero} \cup 0 .. Timeout
    /\ fails \subseteq {"request", "status", "content"}

LEMMA InitHTTPTyped == HTTP!Init => HTTPTyped
<1> SUFFICES ASSUME HTTP!Init PROVE HTTPTyped
  OBVIOUS
<1>1. MaxRacers \in Nat \ {0} /\ MaxRedirects \in Nat \ {0} /\ Timeout \in Nat \ {0}
  BY CheckAssumption DEF HTTP!ConstantsOK
<1>2. /\ pc = "dial" /\ hop = 1 /\ using = {} /\ conn = [c \in Conn |-> "new"]
      /\ tries = [c \in Conn |-> 0] /\ racing = [c \in Conn |-> 0]
      /\ clock = 0 /\ details = HTTP!Zero /\ fails = {}
  BY DEF HTTP!Init
<1> QED  BY <1>1, <1>2 DEF HTTPTyped

LEMMA HTTPTypedStep == HTTPTyped /\ HTTP!Next => HTTPTyped'
<1> SUFFICES ASSUME HTTPTyped, HTTP!Next PROVE HTTPTyped'
  OBVIOUS
<1> DEFINE Phases == {"new", "lookup", "dialling", "shaking", "tls", "open", "failed", "closed"}
<1>a. /\ pc \in {"dial", "sent", "headers", "done"}
      /\ hop \in 1 .. MaxRedirects /\ using \subseteq Conn
      /\ conn \in [Conn -> Phases]
      /\ tries \in [Conn -> 0 .. MaxRacers] /\ racing \in [Conn -> 0 .. MaxRacers]
      /\ (\A c \in Conn : racing[c] <= tries[c])
      /\ clock \in 0 .. Timeout /\ details \in {HTTP!Zero} \cup 0 .. Timeout
      /\ fails \subseteq {"request", "status", "content"}
  BY DEF HTTPTyped
<1>b. MaxRacers \in Nat \ {0} /\ MaxRedirects \in Nat \ {0} /\ Timeout \in Nat \ {0}
  BY CheckAssumption DEF HTTP!ConstantsOK
\* A connection goes on, and nothing else is counted.
<1>1. ASSUME conn' \in [Conn -> Phases], pc' \in {"dial", "sent", "headers", "done"}, using' \subseteq Conn,
             UNCHANGED <<hop, tries, racing, clock, details, fails>>
      PROVE  HTTPTyped'
  BY <1>a, <1>1 DEF HTTPTyped
<1>2. ASSUME NEW c \in Conn, NEW from, NEW to \in Phases, HTTP!Goes(c, from, to) PROVE conn' \in [Conn -> Phases]
  BY <1>a, <1>2 DEF HTTP!Goes
<1>3. ASSUME NEW c \in Conn,
             HTTP!DNSStart(c) \/ HTTP!DNSDone(c) \/ HTTP!TLSHandshakeStart(c) \/ HTTP!TLSHandshakeDone(c)
      PROVE  HTTPTyped'
  <2>1. UNCHANGED <<pc, hop, using, tries, racing, clock, details, fails>>
    BY <1>3 DEF HTTP!DNSStart, HTTP!DNSDone, HTTP!TLSHandshakeStart, HTTP!TLSHandshakeDone,
                HTTP!request, HTTP!report
  <2>2. \E from : \E to \in Phases : HTTP!Goes(c, from, to)
    BY <1>3 DEF HTTP!DNSStart, HTTP!DNSDone, HTTP!TLSHandshakeStart, HTTP!TLSHandshakeDone
  <2>3. conn' \in [Conn -> Phases]
    BY <1>2, <2>2
  <2> HIDE DEF Phases
  <2> QED  BY <1>a, <1>1, <2>1, <2>3
<1>4. ASSUME NEW c \in Conn, HTTP!ConnectStart(c) PROVE HTTPTyped'
  <2>1. /\ UNCHANGED <<pc, hop, using, conn, clock, details, fails>> /\ tries[c] < MaxRacers
        /\ tries' = [tries EXCEPT ![c] = tries[c] + 1] /\ racing' = [racing EXCEPT ![c] = racing[c] + 1]
    BY <1>4 DEF HTTP!ConnectStart, HTTP!request, HTTP!report
  <2>2. tries[c] + 1 \in 0 .. MaxRacers /\ racing[c] + 1 \in 0 .. MaxRacers /\ racing[c] + 1 <= tries[c] + 1
    BY <1>a, <1>b, <2>1
  <2>3. tries' \in [Conn -> 0 .. MaxRacers] /\ racing' \in [Conn -> 0 .. MaxRacers]
    BY <1>a, <2>1, <2>2
  <2>4. \A d \in Conn : racing'[d] <= tries'[d]
    BY <1>a, <2>1, <2>2
  <2> QED  BY <1>a, <2>1, <2>3, <2>4 DEF HTTPTyped
<1>5. ASSUME NEW c \in Conn, HTTP!ConnectDone(c) PROVE HTTPTyped'
  <2>1. /\ UNCHANGED <<pc, hop, using, tries, clock, details, fails>> /\ racing[c] > 0
        /\ racing' = [racing EXCEPT ![c] = racing[c] - 1]
    BY <1>5 DEF HTTP!ConnectDone, HTTP!request, HTTP!report
  <2>2. conn' \in [Conn -> Phases]
    <3>1. conn' = conn \/ conn' = [conn EXCEPT ![c] = IF conn[c] = "dialling" THEN "shaking" ELSE conn[c]]
      BY <1>5 DEF HTTP!ConnectDone
    <3> QED  BY <1>a, <3>1
  <2>3. racing[c] - 1 \in 0 .. MaxRacers /\ racing[c] - 1 <= tries[c]
    BY <1>a, <1>b, <2>1
  <2>4. racing' \in [Conn -> 0 .. MaxRacers] /\ \A d \in Conn : racing'[d] <= tries[d]
    BY <1>a, <2>1, <2>3
  <2> QED  BY <1>a, <2>1, <2>2, <2>4 DEF HTTPTyped
<1>6. ASSUME NEW c \in Conn, HTTP!Use(c) PROVE HTTPTyped'
  <2>1. /\ conn' = [conn EXCEPT ![c] = "open"] /\ pc' = "sent" /\ using' = {c}
        /\ UNCHANGED <<hop, tries, racing, clock, details, fails>>
    BY <1>6 DEF HTTP!Use, HTTP!report
  <2>2. conn' \in [Conn -> Phases]
    BY <1>a, <2>1
  <2> HIDE DEF Phases
  <2> QED  BY <1>1, <2>1, <2>2
<1>7. CASE HTTP!GotFirstResponseByte
  <2>1. pc' = "headers" /\ UNCHANGED <<hop, using, conn, tries, racing, clock, details, fails>>
    BY <1>7 DEF HTTP!GotFirstResponseByte, HTTP!net, HTTP!request
  <2> HIDE DEF Phases
  <2> QED  BY <1>a, <1>1, <2>1
<1>8. CASE HTTP!Redirect
  <2>1. /\ hop < MaxRedirects /\ hop' = hop + 1 /\ pc' = "dial" /\ using' = {}
        /\ UNCHANGED <<tries, racing, clock, details, fails>>
    BY <1>8 DEF HTTP!Redirect, HTTP!report
  <2>2. PICK c \in using, next \in {"open", "closed"} : conn' = [conn EXCEPT ![c] = next]
    BY <1>8 DEF HTTP!Redirect
  <2>3. conn' \in [Conn -> Phases]
    BY <1>a, <2>2
  <2>4. hop + 1 \in 1 .. MaxRedirects
    BY <1>a, <1>b, <2>1
  <2>5. hop' \in 1 .. MaxRedirects
    BY <2>1, <2>4
  <2> QED  BY <1>a, <2>1, <2>3, <2>5 DEF HTTPTyped
<1>9. CASE HTTP!RequestFails
  <2>1. /\ pc' = "done" /\ fails' = {"request"}
        /\ UNCHANGED <<hop, using, conn, tries, racing, clock, details>>
    BY <1>9 DEF HTTP!RequestFails, HTTP!net, HTTP!request
  <2> QED  BY <1>a, <2>1 DEF HTTPTyped
<1>10. CASE HTTP!ReadBody
  <2>1. /\ pc' = "done" /\ details' = clock
        /\ UNCHANGED <<hop, using, conn, tries, racing, clock>>
    BY <1>10 DEF HTTP!ReadBody, HTTP!net, HTTP!request
  <2>2. fails' \subseteq {"request", "status", "content"}
    BY <1>10 DEF HTTP!ReadBody
  <2> QED  BY <1>a, <2>1, <2>2 DEF HTTPTyped
<1>11. CASE HTTP!Tick
  <2>1. /\ clock < Timeout /\ clock' = clock + 1
        /\ UNCHANGED <<pc, hop, using, conn, tries, racing, details, fails>>
    BY <1>11 DEF HTTP!Tick, HTTP!net, HTTP!request, HTTP!report
  <2>2. clock + 1 \in 0 .. Timeout
    BY <1>a, <1>b, <2>1
  <2>3. clock' \in 0 .. Timeout
    BY <2>1, <2>2
  <2> QED  BY <1>a, <2>1, <2>3 DEF HTTPTyped
<1> QED
  BY <1>3, <1>4, <1>5, <1>6, <1>7, <1>8, <1>9, <1>10, <1>11 DEF HTTP!Next

LEMMA HTTPTypes == HTTPTyped /\ Timing => HTTP!TypeOK
<1> SUFFICES ASSUME HTTPTyped, Timing PROVE HTTP!TypeOK
  OBVIOUS
<1>1. /\ clock \in 0 .. Timeout /\ details \in {HTTP!Zero} \cup 0 .. Timeout
      /\ Timeout \in Nat
  BY CheckAssumption DEF HTTPTyped, HTTP!ConstantsOK
<1>2. ASSUME NEW start, NEW ms, Phase(start, ms) PROVE start \in {HTTP!Zero} \cup 0 .. Timeout /\ ms \in Nat
  BY <1>1, <1>2 DEF Phase
<1>3. {dnsStart, connStart, tlsStart, details} \subseteq {HTTP!Zero} \cup 0 .. Timeout
  BY <1>1, <1>2 DEF Timing
<1>4. {dnsMs, connectMs, tlsMs, firstByteMs, answered} \subseteq Nat
  BY <1>2 DEF Timing
<1>5. lag \in 0 .. MaxLag
  BY DEF Timing
<1> QED  BY <1>3, <1>4, <1>5 DEF HTTPTyped, HTTP!TypeOK

LEMMA MailTypes == Posture => Mail!TypeOK
<1> SUFFICES ASSUME Posture PROVE Mail!TypeOK
  OBVIOUS
<1>1. spf.records \in 0 .. 2 /\ spf.lookups \in Nat
  <2>1. CASE pc = "spf"
    <3>1. spf = Mail!NotFound
      BY <2>1, Zenon DEF Posture
    <3>2. spf.records = 0 /\ spf.lookups = 0
      BY <3>1 DEF Mail!NotFound
    <3> QED  BY <3>2
  <2>2. CASE pc # "spf"
    BY <2>2 DEF Posture, Read
  <2> QED  BY <2>1, <2>2
<1> QED  BY <1>1 DEF Posture, Mail!TypeOK

\* The types, with what the checks' own invariants need.
Typed ==
    /\ monitorType \in {"mcp", "oauth", "mail", "http", "expiry", "unknown"}
    /\ monitorType = "mcp" => MCPTyped
    /\ monitorType = "oauth" => OAuthTyped
    /\ monitorType = "http" => HTTPTyped

LEMMA TypedInit == Init => Typed
  BY InitMCPTyped, InitOAuthTyped, InitHTTPTyped DEF Init, Typed

LEMMA TypedStep == MCPInv /\ Typed /\ [Next]_vars => Typed'
<1> SUFFICES ASSUME MCPInv, Typed, [Next]_vars PROVE Typed'
  OBVIOUS
<1>1. CASE MCPStep
  <2>1. monitorType = "mcp" /\ monitorType' = "mcp" /\ MCP!Next
    BY <1>1 DEF MCPStep
  <2> QED  BY <2>1, MCPTypedStep DEF Typed, MCPInv
<1>2. CASE OAuthStep
  <2>1. monitorType = "oauth" /\ monitorType' = "oauth" /\ OAuth!Next
    BY <1>2 DEF OAuthStep
  <2> QED  BY <2>1, OAuthTypedStep DEF Typed
<1>3. CASE HTTPStep
  <2>1. monitorType = "http" /\ monitorType' = "http" /\ HTTP!Next
    BY <1>3 DEF HTTPStep
  <2> QED  BY <2>1, HTTPTypedStep DEF Typed
<1>4. CASE MailStep \/ ExpiryStep
  <2>1. monitorType \in {"mail", "expiry"} /\ monitorType' = monitorType
    BY <1>4 DEF MailStep, ExpiryStep
  <2> QED  BY <2>1 DEF Typed
<1>5. CASE UNCHANGED vars
  <2>1. UNCHANGED <<monitorType, pc, fails, mcpVars, oauthVars, httpVars>>
    BY <1>5 DEF vars
  <2>2. MCPTyped' <=> MCPTyped
    BY <2>1 DEF MCPTyped, MCP!TypeOK, mcpVars
  <2>3. OAuthTyped' <=> OAuthTyped
    BY <2>1 DEF OAuthTyped, OAuth!TypeOK, oauthVars
  <2>4. HTTPTyped' <=> HTTPTyped
    BY <2>1 DEF HTTPTyped, httpVars
  <2> QED  BY <2>1, <2>2, <2>3, <2>4 DEF Typed
<1> QED  BY <1>1, <1>2, <1>3, <1>4, <1>5 DEF Next

\* Whatever a server, a registry or DNS answers, the variables of the check that
\* runs keep their types: an MCP check never keeps more tools or pages than its
\* limits, an HTTP check never has more dials under way than it has begun.
THEOREM TypesKept == Spec => []TypeOK
<1>1. Typed /\ HTTPInv /\ MailInv /\ ExpiryInv => TypeOK
  <2> SUFFICES ASSUME Typed, HTTPInv, MailInv, ExpiryInv PROVE TypeOK
    OBVIOUS
  <2>1. Ran("mcp") => MCP!TypeOK
    BY DEF Typed, MCPTyped, Ran
  <2>2. Ran("oauth") => OAuth!TypeOK
    BY DEF Typed, OAuthTyped, Ran
  <2>3. Ran("http") => HTTP!TypeOK
    BY HTTPTypes DEF Typed, HTTPInv, Ran
  <2>4. Ran("mail") => Mail!TypeOK
    BY MailTypes DEF MailInv, Ran
  <2>5. Ran("expiry") => Expiry!TypeOK
    <3>1. Dated => Expiry!TypeOK
      BY DEF Dated, Expiry!TypeOK
    <3> QED  BY <3>1 DEF ExpiryInv, Ran
  <2> QED  BY <2>1, <2>2, <2>3, <2>4, <2>5 DEF Typed, TypeOK
<1>2. Init /\ [][Next]_vars => []MCPInv
  BY MCPInvInit, MCPInvStep, PTL
<1>3. Init /\ [][Next]_vars => []Typed
  BY <1>2, TypedInit, TypedStep, PTL
<1>4. Init /\ [][Next]_vars => []HTTPInv /\ []ExpiryInv
  BY HTTPInvInit, HTTPInvStep, ExpiryInvInit, ExpiryInvStep, PTL
<1> QED  BY <1>1, <1>3, <1>4, MailInvAlways, PTL DEF Spec
=============================================================================
