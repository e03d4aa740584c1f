--------------------------- MODULE AuthDiscovery ---------------------------
(***************************************************************************)
(* The OAuth discovery chain of an MCP server (checker/mcpcheck.go): from  *)
(* the challenge to the metadata of the resource, and from there to that   *)
(* of its authorization server.                                            *)
(*                                                                         *)
(* The places where a document may be are tried one after the other, and   *)
(* all of them are decoded into one variable: a document in which a field  *)
(* has the wrong type is refused, but the fields that could be decoded     *)
(* stay, and the next document replaces only what it has.                  *)
(***************************************************************************)
EXTENDS Integers

CONSTANT Documents   \* the metadata documents a server may publish

\* What a field may say; "" if the document does not have it, which leaves what
\* is decoded already, while an empty one replaces it.
Servers == {"", "empty", "invalid", "listed"}
Endpoint == {"", "empty", "given"}
Meta == [issuer : {"", "same", "other"},
         pkce : {"", "S256", "plain"},
         authorization : Endpoint, token : Endpoint,
         registration : Endpoint,
         cimd : {"", "no", "yes"}]

Nothing == [issuer |-> "", pkce |-> "", authorization |-> "", token |-> "",
            registration |-> "", cimd |-> ""]

ConstantsOK == Documents \subseteq Meta

VARIABLES
    pc,
    left,     \* the places not tried yet
    servers,  \* authorization_servers, as decoded so far
    meta,     \* the server's metadata, as decoded so far
    served,   \* history: the documents that were accepted
    refused,  \* history: one was refused
    fails

documents == <<servers, meta, served, refused>>
vars == <<pc, left, documents, fails>>

Init ==
    /\ pc = "challenge" /\ left = 0
    /\ servers = "" /\ meta = Nothing
    /\ served = [servers |-> "", meta |-> Nothing]
    /\ refused = FALSE /\ fails = {}

Fail(reason) ==
    pc' = "done" /\ fails' = {reason} /\ UNCHANGED <<left, documents>>

\* A request without credentials must be answered 401.  The answer names the
\* resource's metadata, or they are at a well-known place: under the path, if
\* there is one, or at the root.
Challenge ==
    /\ pc = "challenge"
    /\ \/ Fail("no challenge")
       \/ /\ pc' = "resource"
          /\ left' \in {1, 2}
          /\ UNCHANGED <<documents, fails>>

\* The next place has nothing, or nothing that is JSON.
Missing(reason) ==
    IF left = 1 THEN Fail(reason)
    ELSE left' = left - 1 /\ UNCHANGED <<pc, documents, fails>>

\* Mutant: what is decoded already stays.
DecodeOnce(old, new) == IF old = "" THEN new ELSE old

\* What the document says, else what is decoded already.
Decode(old, new) == IF new = "" THEN old ELSE new

DecodeAll(old, new) == [f \in DOMAIN old |-> Decode(old[f], new[f])]

\* A document is refused; what was decoded of it stays.
RefusedResource ==
    \E doc \in Servers :
        /\ servers' = Decode(servers, doc)
        /\ IF left = 1 THEN pc' = "done" /\ fails' = {"no resource metadata"} /\ UNCHANGED left
                       ELSE left' = left - 1 /\ UNCHANGED <<pc, fails>>
        /\ refused' = TRUE
        /\ UNCHANGED <<meta, served>>

\* The first server is the one to ask.
AcceptedResource ==
    \E doc \in Servers :
        /\ servers' = Decode(servers, doc) /\ served' = [served EXCEPT !.servers = doc]
        /\ IF servers' = "listed"
           THEN pc' = "server" /\ left' = 2 /\ UNCHANGED fails
           ELSE pc' = "done" /\ fails' = {"no server"} /\ UNCHANGED left
        /\ UNCHANGED <<meta, refused>>

FetchResource ==
    /\ pc = "resource"
    /\ Missing("no resource metadata") \/ RefusedResource \/ AcceptedResource

RefusedServer ==
    \E doc \in Documents :
        /\ meta' = DecodeAll(meta, doc)
        /\ IF left = 1 THEN pc' = "done" /\ fails' = {"no server metadata"} /\ UNCHANGED left
                       ELSE left' = left - 1 /\ UNCHANGED <<pc, fails>>
        /\ refused' = TRUE
        /\ UNCHANGED <<servers, served>>

AcceptedServer ==
    \E doc \in Documents :
        /\ meta' = DecodeAll(meta, doc) /\ served' = [served EXCEPT !.meta = doc]
        /\ pc' = "judge"
        /\ UNCHANGED <<left, servers, refused, fails>>

\* RFC 8414, then OpenID Connect.
FetchServer ==
    /\ pc = "server"
    /\ Missing("no server metadata") \/ RefusedServer \/ AcceptedServer

\* A client registers with a metadata document or, with a warning, at the
\* registration endpoint.
Errors(m) ==
    (IF m.issuer = "same" THEN {} ELSE {"issuer"})
    \cup (IF m.pkce = "S256" THEN {} ELSE {"pkce"})
    \cup (IF m.authorization = "given" /\ m.token = "given" THEN {} ELSE {"endpoints"})
    \cup (IF m.cimd = "yes" \/ m.registration = "given" THEN {} ELSE {"registration"})

Judge ==
    /\ pc = "judge" /\ pc' = "done"
    /\ fails' = Errors(meta)
    /\ UNCHANGED <<left, documents>>

Next == Challenge \/ FetchResource \/ FetchServer \/ Judge

Spec == Init /\ [][Next]_vars

-----------------------------------------------------------------------------
(* What a verdict is worth. *)

TypeOK ==
    /\ pc \in {"challenge", "resource", "server", "judge", "done"}
    /\ left \in 0 .. 2 /\ servers \in Servers /\ meta \in Meta
    /\ served \in [servers : Servers, meta : Meta] /\ refused \in BOOLEAN
    /\ fails \subseteq {"no challenge", "no resource metadata", "no server",
                        "no server metadata", "issuer", "pkce", "endpoints", "registration"}

\* A client may walk the chain that these documents describe.
Sound(docs) == docs.servers = "listed" /\ Errors(docs.meta) = {}

\* A chain is judged by the documents that were accepted, wherever they were
\* found and whatever was refused before: sound ones always pass, and what
\* passes is sound, but for fields they lack and a refused document had.
PassMeansSound ==
    pc = "done" /\ (fails = {} \/ fails \subseteq Errors(Nothing)) =>
        /\ Sound(served) => fails = {}
        /\ fails = {} =>
              /\ Sound(served) \/ refused
              /\ Errors([f \in DOMAIN meta |->
                            IF served.meta[f] = "" THEN meta[f] ELSE served.meta[f]]) = {}
=============================================================================
