----------------------------- MODULE Handshake -----------------------------
(***************************************************************************)
(* How a server decides on a registration: the version and the             *)
(* capabilities it agrees on with the client, the secret it asks for, and  *)
(* whether the client id is taken.                                         *)
(***************************************************************************)
EXTENDS AppConfig, FiniteSets

NoSecret == "none"
NoTerms == [version |-> Text(0, 0), capabilities |-> {}]
Verdicts == {"OK", "VERSION_MISMATCH", "AUTH_FAILED", "DUPLICATE_CLIENT_ID"}

(* What one run of a client program brings along: its role, the version of *)
(* its configuration, and the secret of its id, if it is given one.  (If   *)
(* its secrets are no dictionary there is no client: its constructor fails.) *)
Setup(config, id, role) ==
    LET secrets == config.security.shared_secrets
    IN  [role |-> role, version |-> config.protocol.version,
         secret |-> IF id \in DOMAIN secrets.items THEN secrets.items[id] ELSE NoSecret]

Common == {"structured-logs", "snapshot.sync", "timing.sync"}

(* ExperimentServer._server_capabilities and ExperimentClient._capabilities *)
ServerCapabilities(config) ==
    Common \union (IF config.security.require_secret THEN {"auth.shared-secret"} ELSE {})

ClientCapabilities(setup) ==
    Common \union (IF setup.secret # NoSecret THEN {"auth.shared-secret"} ELSE {})

(* negotiate_protocol; only versions of two numbers are ever compatible. *)
Compatible(server, client) ==
    /\ server.kind = "text"
    /\ client.kind = "text"
    /\ server.major = client.major

Lower(m, n) == IF m < n THEN m ELSE n

Negotiated(config, setup) ==
    LET server == config.protocol.version
        client == setup.version
    IN  [version |-> Text(server.major, Lower(server.minor, client.minor)),
         capabilities |-> ServerCapabilities(config) \intersect ClientCapabilities(setup)]

(* TrustedLanAuthenticator.validate *)
Authentic(config, id, secret) ==
    config.security.require_secret =>
        LET secrets == config.security.shared_secrets
        IN  id \in DOMAIN secrets.items /\ secrets.items[id] = secret

(* What a server that knows nothing of the id would say. *)
Admits(config, id, setup) ==
    /\ Compatible(config.protocol.version, setup.version)
    /\ Authentic(config, id, setup.secret)

(* parse_protocol_version splits a text, the server's version first, and    *)
(* fails on a number with an exception that the handler does not catch.     *)
Unparsable(server, client) ==
    \/ server.kind = "number"
    \/ server.kind = "text" /\ client.kind = "number"

(* Nor does it catch what secrets that are no dictionary, such as the        *)
(* environment gives, raise when one of them is looked up.                  *)
Undecidable(config, version) ==
    \/ Unparsable(config.protocol.version, version)
    \/ /\ Compatible(config.protocol.version, version)
       /\ config.security.require_secret
       /\ ~IsDict(config.security.shared_secrets)

Verdict(config, id, setup, taken) ==
    IF ~Compatible(config.protocol.version, setup.version) THEN "VERSION_MISMATCH"
    ELSE IF ~Authentic(config, id, setup.secret) THEN "AUTH_FAILED"
    ELSE IF taken THEN "DUPLICATE_CLIENT_ID"
    ELSE "OK"
=============================================================================
