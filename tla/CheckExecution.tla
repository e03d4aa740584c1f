--------------------------- MODULE CheckExecution ---------------------------
(***************************************************************************)
(* One execution of a check (checker/checker.go): the type of the monitor  *)
(* decides which checker runs, and the verdict is a success exactly if the *)
(* checker found no failure.  The variables of the others are absent.      *)
(***************************************************************************)
EXTENDS Integers, FiniteSets

CONSTANTS
    Tool, Referred, Definitions, Configs, MaxPages, MaxTools,
    Documents,
    Name, Domain, Records, Query, Demands, LookupLimit, MaxBranch, MaxDepth,
    Conn, MaxRacers, MaxRedirects, Timeout, MaxLag,
    Hours, AlertDays, DefaultDays, Responses, Unset

VARIABLES
    monitorType,   \* "mcp" with OAuth is told apart: its check is another one
    pc, fails,
    server, instructions, config, baseline, listed, pages, truncated, drift,
    left, servers, meta, served, refused,
    spf, dmarc, answer, required, score, truth, failed,
    hop, using, conn, tries, racing, clock, lag, dnsStart, connStart, tlsStart,
    dnsMs, connectMs, tlsMs, firstByteMs, details, answered,
    source, alertDays, response, event, expiry, registrar

mcpVars == <<server, instructions, config, baseline, listed, pages, truncated, drift>>
oauthVars == <<left, servers, meta, served, refused>>
mailVars == <<spf, dmarc, answer, required, score, truth, failed>>
httpVars == <<hop, using, conn, tries, racing, clock, lag, dnsStart, connStart, tlsStart,
              dnsMs, connectMs, tlsMs, firstByteMs, details, answered>>
expiryVars == <<source, alertDays, response, event, expiry, registrar>>
vars == <<monitorType, pc, fails, mcpVars, oauthVars, mailVars, httpVars, expiryVars>>

MCP == INSTANCE MCPCheck
OAuth == INSTANCE AuthDiscovery
Mail == INSTANCE MailPosture
HTTP == INSTANCE HTTPCheck
Expiry == INSTANCE ExpiryCheck

ASSUME CheckAssumption ==
    MCP!ConstantsOK /\ Mail!ConstantsOK /\ HTTP!ConstantsOK /\ Expiry!ConstantsOK

ASSUME DocumentsAssumption == OAuth!ConstantsOK

NoMCP ==
    /\ server = << >> /\ instructions = << >> /\ config = << >> /\ baseline = << >>
    /\ listed = << >> /\ pages = << >> /\ truncated = << >> /\ drift = << >>

NoOAuth ==
    left = << >> /\ servers = << >> /\ meta = << >> /\ served = << >> /\ refused = << >>

NoMail ==
    /\ spf = << >> /\ dmarc = << >> /\ answer = << >> /\ required = << >>
    /\ score = << >> /\ truth = << >> /\ failed = << >>

NoHTTP ==
    /\ hop = << >> /\ using = << >> /\ conn = << >> /\ tries = << >> /\ racing = << >>
    /\ clock = << >> /\ lag = << >> /\ dnsStart = << >> /\ connStart = << >>
    /\ tlsStart = << >>
    /\ dnsMs = << >> /\ connectMs = << >> /\ tlsMs = << >> /\ firstByteMs = << >>
    /\ details = << >> /\ answered = << >>

NoExpiry ==
    /\ source = << >> /\ alertDays = << >> /\ response = << >> /\ event = << >>
    /\ expiry = << >> /\ registrar = << >>

\* Execute: an unknown type, or a mail monitor without a domain, fails at once.
Init ==
    \/ monitorType = "mcp" /\ MCP!Init /\ NoOAuth /\ NoMail /\ NoHTTP /\ NoExpiry
    \/ monitorType = "oauth" /\ OAuth!Init /\ NoMCP /\ NoMail /\ NoHTTP /\ NoExpiry
    \/ monitorType = "mail" /\ Mail!Init /\ NoMCP /\ NoOAuth /\ NoHTTP /\ NoExpiry
    \/ monitorType = "http" /\ HTTP!Init /\ NoMCP /\ NoOAuth /\ NoMail /\ NoExpiry
    \/ monitorType = "expiry" /\ Expiry!Init /\ NoMCP /\ NoOAuth /\ NoMail /\ NoHTTP
    \/ /\ monitorType \in {"mail", "unknown"}
       /\ NoMCP /\ NoOAuth /\ NoMail /\ NoHTTP /\ NoExpiry
       /\ pc = "done" /\ fails = {"not configured"}

MCPStep ==
    /\ monitorType = "mcp" /\ MCP!Next
    /\ UNCHANGED <<monitorType, oauthVars, mailVars, httpVars, expiryVars>>

OAuthStep ==
    /\ monitorType = "oauth" /\ OAuth!Next
    /\ UNCHANGED <<monitorType, mcpVars, mailVars, httpVars, expiryVars>>

MailStep ==
    /\ monitorType = "mail" /\ Mail!Next
    /\ UNCHANGED <<monitorType, mcpVars, oauthVars, httpVars, expiryVars>>

HTTPStep ==
    /\ monitorType = "http" /\ HTTP!Next
    /\ UNCHANGED <<monitorType, mcpVars, oauthVars, mailVars, expiryVars>>

ExpiryStep ==
    /\ monitorType = "expiry" /\ Expiry!Next
    /\ UNCHANGED <<monitorType, mcpVars, oauthVars, mailVars, httpVars>>

Next == MCPStep \/ OAuthStep \/ MailStep \/ HTTPStep \/ ExpiryStep

Spec == Init /\ [][Next]_vars

-----------------------------------------------------------------------------
(* The properties of the checkers, of the executions that use them. *)

Ran(type) == monitorType = type /\ fails # {"not configured"}

TypeOK ==
    /\ monitorType \in {"mcp", "oauth", "mail", "http", "expiry", "unknown"}
    /\ Ran("mcp") => MCP!TypeOK
    /\ Ran("oauth") => OAuth!TypeOK
    /\ Ran("mail") => Mail!TypeOK
    /\ Ran("http") => HTTP!TypeOK
    /\ Ran("expiry") => Expiry!TypeOK

\* An MCP server that passes is the one that was approved (MCPCheck.tla).
PassMeansApproved == Ran("mcp") => MCP!PassMeansApproved

\* A server that has not changed since it was approved raises no alarm.
NoFalseAlarm == Ran("mcp") => MCP!NoFalseAlarm

\* An OAuth chain is judged by the documents that were accepted
\* (AuthDiscovery.tla).
PassMeansSound == Ran("oauth") => OAuth!PassMeansSound

\* The lookups counted for an SPF record are no fewer than receivers make
\* (MailPosture.tla).
CountIsExact == Ran("mail") => Mail!CountIsExact

\* Two shortcuts of the mail check cost a verdict, and no other does
\* (MailPosture.tla).
VerdictIsDeserved == Ran("mail") => Mail!VerdictIsDeserved

\* No phase of an HTTP check is longer than the check, but for the time
\* between its two starts (HTTPCheck.tla).
TimingsFit == Ran("http") => HTTP!TimingsFit

\* What passes expires a full day after the threshold, or later
\* (ExpiryCheck.tla).
ExpiryIsAhead == Ran("expiry") => Expiry!ExpiryIsAhead

\* The first registrar of the registry's tree is reported (ExpiryCheck.tla).
RegistrarIsFirst == Ran("expiry") => Expiry!RegistrarIsFirst
=============================================================================
