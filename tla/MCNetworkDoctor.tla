-------------------------- MODULE MCNetworkDoctor --------------------------
(* The constants of the run of NetworkDoctor. *)
EXTENDS NetworkDoctor

CONSTANTS c1, d1

Server(version, bind, discovery, security) ==
    Normalize(FromSources([protocol |-> [version |-> version],
                           network |-> [backend |-> "zmq", bind_host |-> bind,
                                       discovery |-> discovery]],
                          Empty, [security |-> security]))

Open == [require_secret |-> FALSE]
Locked == [require_secret |-> TRUE, shared_secrets |-> Dict([c \in {c1} |-> "right"])]

(* One that is found on its machine only and admits anybody, one on the LAN *)
(* that asks for a secret.                                                  *)
MCServerConfigs == {Server(Text(1, 1), "any", "zeroconf", Open),
                    Server(Text(1, 0), "lan", "zeroconf", Locked)}

(* A client takes its version from its file or from the environment. *)
Client(role, file, environ, secret) ==
    Setup(FromSources([protocol |-> file], [protocol |-> environ],
                      [security |-> [shared_secrets |-> Dict([c \in {c1} |-> secret])]]),
          c1, role)

Version10 == [version |-> Text(1, 0)]
Version11 == [version |-> Text(1, 1)]

MCClientSetups == {Client("stimulus", Empty, Empty, "wrong"),
                   Client("stimulus", Version11, Empty, "right"),
                   Client("response", Version11, Empty, "right"),
                   Client("stimulus", Version11, Version10, "right")}

Doctor(file, pings, host) ==
    WithNetwork(FromSources(file, Empty, [health |-> [benchmark_ping_count |-> pings]]),
                [backend |-> "zmq", host |-> host])

(* One that looks for the server, one that knows its address, is of another *)
(* version than any server and asks for no ping, and one whose version is a *)
(* number, of which a server dies.                                          *)
MCDoctorConfigs == {Doctor([network |-> [discovery |-> "zeroconf"]], 2, "any"),
                    Doctor([protocol |-> [version |-> Text(2, 0)]], 0, "lan"),
                    Doctor([protocol |-> [version |-> Version("number", 1, 0)]], 1, "lan")}

MCInstalled == {{}, {"zmq", "zeroconf"}}
=============================================================================
