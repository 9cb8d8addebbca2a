----------------------------- MODULE KnownHosts -----------------------------
(***************************************************************************)
(* Host keys on the client: the known_hosts file, the goroutine that       *)
(* collects unknown hosts and asks the user about them in batches, and the *)
(* answers it gives to the handshakes that wait                            *)
(* (internal/ssh/client/knownhostscallback.go, internal/io/prompt).  The   *)
(* handshakes themselves are module ClientConnections.                     *)
(***************************************************************************)
EXTENDS Naturals, FiniteSets

CONSTANTS
    Servers,
    Connections,     \* connection attempts that may ask
    ServerOf,        \* [Connections -> Servers]
    KeyOf,           \* the key a server presents
    InitiallyKnown,  \* the file at the start: [Servers -> keys or NoKey]
    NoKey,
    BatchSize,       \* unknown hosts that make the prompter ask at once
    TrustAll         \* --trustAllHosts

VARIABLES
    known,           \* the known_hosts file
    trustAllHosts,
    prompter,        \* "collect", "ask", "gone"
    hosts,           \* the batch of connections that wait for an answer
    response         \* [Connections -> "none", "trust", "dont"]

hostVars == <<known, trustAllHosts, prompter, hosts, response>>

HostsInit ==
    /\ known = InitiallyKnown
    /\ trustAllHosts = TrustAll
    /\ prompter = "collect"
    /\ hosts = {}
    /\ response = [c \in Connections |-> "none"]

HostKnown(c) == known[ServerOf[c]] = KeyOf[ServerOf[c]]

\* unknownCh <- unknown: the prompter takes the host while it collects.
Enqueue(c) ==
    /\ prompter = "collect"
    /\ hosts' = hosts \union {c}
    /\ prompter' = IF Cardinality(hosts') >= BatchSize THEN "ask" ELSE "collect"
    /\ UNCHANGED <<known, trustAllHosts, response>>

\* Two seconds without another unknown host.
QuietPeriod ==
    /\ prompter = "collect" /\ hosts # {}
    /\ prompter' = "ask"
    /\ UNCHANGED <<known, trustAllHosts, hosts, response>>

StopPrompting ==
    /\ prompter = "collect"
    /\ prompter' = "gone"
    /\ UNCHANGED <<known, trustAllHosts, hosts, response>>

Respond(answer) ==
    response' = [c \in Connections |-> IF c \in hosts THEN answer ELSE response[c]]

\* Mutant: the new file holds the new entries only.
TrustHostsDropsOthers ==
    LET batch == {ServerOf[c] : c \in hosts}
    IN  /\ known' = [s \in Servers |-> IF s \in batch THEN KeyOf[s] ELSE NoKey]
        /\ Respond("trust")

\* The new entries, then the old ones of other hosts, are written to a temporary
\* file that replaces the old one; only then do the handshakes get their answer.
TrustHosts ==
    LET batch == {ServerOf[c] : c \in hosts}
    IN  /\ known' = [s \in Servers |-> IF s \in batch THEN KeyOf[s] ELSE known[s]]
        /\ Respond("trust")

\* Any error on the way leaves the old file in place.
TrustHostsFails == UNCHANGED known /\ Respond("dont")

PromptAddHosts(answer) ==
    /\ prompter = "ask"
    /\ answer \in IF trustAllHosts THEN {"yes", "error"} ELSE {"yes", "all", "no", "error"}
    /\ CASE answer \in {"yes", "all"} -> TrustHosts
         [] OTHER -> TrustHostsFails
    /\ trustAllHosts' = (trustAllHosts \/ answer = "all")
    /\ hosts' = {}
    /\ prompter' = "collect"
=============================================================================
