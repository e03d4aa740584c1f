------------------------------ MODULE MCPCheck ------------------------------
(***************************************************************************)
(* The check of an MCP server (checker/mcpcheck.go, checker/mcp.go): list  *)
(* its tools page by page, compare them with the approved baseline, lint   *)
(* their texts, and decide.                                                *)
(*                                                                         *)
(* A tool's definition stands for itself where the code has its hashes.    *)
(* Its text is told apart by what the lint says of it: nothing ("plain"),  *)
(* a suspicious pattern ("marker"), or that it steers to the tool Referred *)
(* ("steer").                                                              *)
(***************************************************************************)
EXTENDS Integers, FiniteSets, FiniteSetsExt

CONSTANTS
    Tool,          \* tool names
    Referred,      \* the tool that a "steer" text names
    Definitions,   \* the definitions each tool may have
    Configs,       \* DriftPolicy, ExpectedTools and MaxTools (0: no limit)
    MaxPages,      \* mcpMaxPages
    MaxTools       \* mcpMaxTools

Definition ==
    [text : {"plain", "marker", "steer"}, schema : {"s1", "s2"},
     annotations : {"none", "title", "readOnly", "additive"}]

ConstantsOK ==
    /\ IsFiniteSet(Tool) /\ Referred \in Tool
    /\ Definitions \in [Tool -> SUBSET Definition]
    /\ Configs \subseteq [policy : {"alert", "record"}, expected : SUBSET Tool, maxTools : Nat]
    /\ MaxPages \in Nat \ {0} /\ MaxTools \in Nat \ {0}

\* What a server may list: any of the tools, each with one definition.
Surface == UNION {{f \in [S -> Definition] : \A t \in S : f[t] \in Definitions[t]} :
                     S \in SUBSET Tool}

VARIABLES
    pc,
    server,        \* the tools of the server and their definitions
    instructions,  \* its instructions: a plain text or a suspicious one
    config,        \* what the monitor demands
    baseline,      \* what was approved, if anything
    listed,        \* the tools listed so far
    pages,         \* how many pages they came in
    truncated, drift, fails

target == <<server, instructions, config, baseline>>
vars == <<pc, server, instructions, config, baseline, listed, pages, truncated,
          drift, fails>>

-----------------------------------------------------------------------------
(* Fingerprints and lint. *)

\* The effective annotations: nothing said means destructive.
ReadOnly(d) == d.annotations = "readOnly"
Destructive(d) == d.annotations \in {"none", "title"}

\* The element, if the condition holds.
When(condition, element) == IF condition THEN {element} ELSE {}

\* What mcpLint finds in a tool's text, given the names that were listed.
Lint(t, d, names) ==
    When(d.text = "marker", [rule |-> "instruction_marker", tool |-> t])
    \cup When(d.text = "steer" /\ Referred \notin names, [rule |-> "cross_tool", tool |-> t])

\* The instructions are linted too, under no tool's name.
Findings(tools, names, text) ==
    When(text = "marker", [rule |-> "instruction_marker", tool |-> ""])
    \cup (UNION {Lint(t, tools[t], names) : t \in names})

-----------------------------------------------------------------------------
(* Drift. *)

Drift(kind, t, severity) ==
    [kind |-> kind, tool |-> t,
     severity |-> IF config.policy = "record" THEN "info" ELSE severity]

\* Mutant: a tool that becomes destructive is only noted.
RiskierIfReadOnly(was, now) == ReadOnly(was) /\ ~ReadOnly(now)

Riskier(was, now) ==
    \/ ReadOnly(was) /\ ~ReadOnly(now)
    \/ ~Destructive(was) /\ Destructive(now)

\* The parts of a tool that changed.
Changes(t, was, now) ==
    When(was.schema # now.schema, Drift("tool_schema_changed", t, "fail"))
    \cup When(was.text # now.text, Drift("tool_description_changed", t, "fail"))
    \cup When(was.annotations # now.annotations,
              Drift("tool_annotations_changed", t,
                    IF Riskier(was, now) THEN "fail" ELSE "info"))

\* mcpDiff: the approved tools against those that were listed.
Diff(names) ==
    LET base == DOMAIN baseline.tools IN
    {Drift("tool_removed", t, "fail") : t \in base \ names}
    \cup {Drift("tool_added", t, "fail") : t \in names \ base}
    \cup When(baseline.instructions # instructions, Drift("instructions_changed", "", "fail"))
    \cup (UNION {Changes(t, baseline.tools[t], server[t]) : t \in names \cap base})

-----------------------------------------------------------------------------
(* The check. *)

\* A baseline is the surface of an earlier check, with the findings that a
\* person accepted.
Baselines ==
    {[given |-> FALSE, tools |-> << >>, instructions |-> "plain", accepted |-> {}]}
    \cup {[given |-> TRUE, tools |-> f, instructions |-> text,
           accepted |-> IF accept THEN Findings(f, DOMAIN f, text) ELSE {}] :
             f \in Surface, text \in {"plain", "marker"}, accept \in BOOLEAN}

Init ==
    /\ pc = "connect"
    /\ server \in Surface /\ instructions \in {"plain", "marker"}
    /\ config \in Configs /\ baseline \in Baselines
    /\ listed = {} /\ pages = 0
    /\ truncated = FALSE /\ drift = {} /\ fails = {}

Fail(reason) ==
    /\ fails' = {reason} /\ pc' = "done"
    /\ UNCHANGED <<target, listed, pages, truncated, drift>>

\* The handshake, if the baseline of the monitor can be read.
Connect ==
    /\ pc = "connect"
    /\ \/ pc' = "list" /\ UNCHANGED <<target, listed, pages, truncated, drift, fails>>
       \/ Fail("connect")

\* Mutant: a list that fills up with a page is taken to be complete.
StopAtFull(got, more) ==
    /\ pc' = "evaluate"
    /\ truncated' = (Cardinality(got) > MaxTools)

\* The loop ends; the tools beyond MaxTools are cut off.
Stop(got, more) ==
    /\ pc' = "evaluate"
    /\ truncated' = (more \/ Cardinality(got) > MaxTools)

\* A page: some of the tools not listed yet, and a cursor if there are more
\* (or for no reason).
ListPage ==
    /\ pc = "list"
    /\ \E page \in SUBSET (DOMAIN server \ listed), more \in BOOLEAN :
          LET got == listed \cup page IN
          /\ more \/ got = DOMAIN server
          /\ pages' = pages + 1
          /\ IF more /\ Cardinality(got) < MaxTools /\ pages' < MaxPages
             THEN listed' = got /\ UNCHANGED <<pc, truncated>>
             ELSE /\ Stop(got, more)
                  /\ \E kept \in kSubset(Min({MaxTools, Cardinality(got)}), got) :
                        listed \subseteq kept /\ listed' = kept
    /\ UNCHANGED <<target, drift, fails>>

ListFails == pc = "list" /\ Fail("list")

\* Fingerprint, lint, compare, and decide.
Evaluate ==
    /\ pc = "evaluate"
    /\ drift' = IF baseline.given THEN Diff(listed) ELSE {}
    /\ LET open == Findings(server, listed, instructions) \ baseline.accepted
           alert == config.policy # "record"
       IN  fails' = When(~(config.expected \subseteq listed), "expected")
                    \cup When(config.maxTools > 0 /\ Cardinality(listed) > config.maxTools,
                              "too many")
                    \cup When(alert /\ \E d \in drift' : d.severity = "fail", "drift")
                    \cup When(alert /\ open # {}, "pattern")
    /\ pc' = "done"
    /\ UNCHANGED <<target, listed, pages, truncated>>

Next == Connect \/ ListPage \/ ListFails \/ Evaluate

Spec == Init /\ [][Next]_vars

-----------------------------------------------------------------------------
(* What a verdict is worth. *)

TypeOK ==
    /\ pc \in {"connect", "list", "evaluate", "done"}
    /\ listed \subseteq DOMAIN server /\ Cardinality(listed) <= MaxTools
    /\ pages \in 0 .. MaxPages
    /\ truncated \in BOOLEAN
    /\ \A d \in drift : d.severity \in {"fail", "info"}
    /\ fails \subseteq {"connect", "list", "expected", "too many", "drift", "pattern"}

\* What the check can speak of: all the server has, unless it says otherwise.
Seen == IF truncated THEN listed ELSE DOMAIN server

\* The order of risk a client reads from a tool's annotations.
Risk(d) == CASE ReadOnly(d) -> 0 [] Destructive(d) -> 2 [] OTHER -> 1

SafeAs(was, now) ==
    was.text = now.text /\ was.schema = now.schema /\ Risk(now) <= Risk(was)

\* Every suspicious text was accepted.
NothingOpen == Findings(server, Seen, instructions) \subseteq baseline.accepted

\* A monitor that alerts on drift passes only if every tool the server has
\* (or the report covers, if it says "truncated") is the approved one and no
\* riskier, none is missing, the instructions are the same, and every
\* suspicious text was accepted: also on the first check, when "first-use trust
\* must not silently approve a poisoned server" (mcpcheck_test.go 210).
PassMeansApproved ==
    pc = "done" /\ fails = {} /\ config.policy = "alert" =>
        /\ NothingOpen
        /\ baseline.given =>
            /\ Seen = DOMAIN baseline.tools
            /\ \A t \in Seen : SafeAs(baseline.tools[t], server[t])
            /\ instructions = baseline.instructions

\* The check never fails a server for drift or suspicious texts that has not
\* changed since it was approved with all its findings, however it cuts its
\* list into pages, unless the list was too long.
NoFalseAlarm ==
    /\ pc = "done" /\ ~truncated /\ baseline.given
    /\ server = baseline.tools /\ instructions = baseline.instructions
    /\ Findings(server, DOMAIN server, instructions) \subseteq baseline.accepted
    => drift = {} /\ fails \cap {"drift", "pattern"} = {}
=============================================================================
