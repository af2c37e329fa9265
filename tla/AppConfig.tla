----------------------------- MODULE AppConfig -----------------------------
(***************************************************************************)
(* Where a configuration comes from: the defaults, a file, the environment *)
(* and explicit overrides are merged in this order, and the commands then  *)
(* adapt the result to the network.  A configuration maps a section and a  *)
(* field of it to a value; what is merged into it need not be complete.    *)
(* Only the fields some command decides by are listed.                     *)
(***************************************************************************)
EXTENDS Naturals

Empty == <<>>

(* A version is a text of two numbers or another text (kind "junk"); the   *)
(* number 1.0 is what a file says without quotes, and the environment.     *)
Version(kind, major, minor) == [kind |-> kind, major |-> major, minor |-> minor]
Text(major, minor) == Version("text", major, minor)

(* A field that a dictionary belongs into, which a source may give a scalar. *)
Dict(items) == [kind |-> "dict", items |-> items]
Scalar == [kind |-> "scalar", items |-> Empty]
IsDict(value) == value.kind = "dict"

Defaults ==
    [network |-> [backend |-> "inmemory", host |-> "any", bind_host |-> "any",
                  control_port |-> 5555, pub_port |-> 5556, discovery |-> "manual"],
     protocol |-> [version |-> Text(1, 0)],
     security |-> [require_secret |-> FALSE, shared_secrets |-> Dict(Empty)],
     health |-> [benchmark_ping_count |-> 25]]

(* The one field that is meant to hold a dictionary itself. *)
DictFields == {"shared_secrets"}

(* {**base, **override} *)
Overlay(base, override) ==
    [k \in DOMAIN base \union DOMAIN override |->
        IF k \in DOMAIN override THEN override[k] ELSE base[k]]

(* _deep_merge, one operator for each of the levels a configuration has; a *)
(* section is a dictionary always.                                         *)
MergeField(base, override) ==
    IF IsDict(base) /\ IsDict(override) THEN Dict(Overlay(base.items, override.items))
    ELSE override

MergeSection(base, override) ==
    [f \in DOMAIN base \union DOMAIN override |->
        IF f \notin DOMAIN override THEN base[f]
        ELSE IF f \in DictFields \intersect DOMAIN base THEN MergeField(base[f], override[f])
        ELSE override[f]]

DeepMerge(base, override) ==
    [s \in DOMAIN base \union DOMAIN override |->
        IF s \notin DOMAIN override THEN base[s]
        ELSE IF s \notin DOMAIN base THEN override[s]
        ELSE MergeSection(base[s], override[s])]

(* What from_sources and from_mapping return has all sections and fields. *)
Complete(config) ==
    /\ DOMAIN config = DOMAIN Defaults
    /\ \A s \in DOMAIN Defaults : DOMAIN config[s] = DOMAIN Defaults[s]

(* from_mapping: a section nobody knows is dropped, a field nobody knows is *)
(* a TypeError of the section's constructor.                                *)
WellFormed(data) ==
    \A s \in DOMAIN Defaults \intersect DOMAIN data :
        DOMAIN data[s] \subseteq DOMAIN Defaults[s]

FromMapping(data) ==
    LET merged == DeepMerge(Defaults, data)
    IN  [s \in DOMAIN Defaults |-> merged[s]]

(* _coerce_env_value: what reads as a number becomes one, versions included, *)
(* and nothing becomes a dictionary.                                         *)
CoerceEnv(field, raw) ==
    IF field \in DictFields THEN Scalar
    ELSE IF field = "version" /\ raw.kind = "text" THEN [raw EXCEPT !.kind = "number"]
    ELSE raw

FromEnv(environ) ==
    [s \in DOMAIN environ |-> [f \in DOMAIN environ[s] |-> CoerceEnv(f, environ[s][f])]]

(* from_sources; a path of None is an empty file. *)
Merged(file, environ, overrides) ==
    LET base == IF file = Empty THEN Empty ELSE FromMapping(file)
    IN  DeepMerge(DeepMerge(base, FromEnv(environ)), overrides)

FromSources(file, environ, overrides) == FromMapping(Merged(file, environ, overrides))

(* The file is made a configuration of its own before it is merged. *)
Raises(file, environ, overrides) ==
    ~WellFormed(file) \/ ~WellFormed(Merged(file, environ, overrides))

(* _config_with_network_overrides, apply_backend_override *)
WithNetwork(config, network) ==
    FromMapping([config EXCEPT !.network = Overlay(@, network)])

(* _normalize_loopback_network: the wildcard address becomes the loopback. *)
Normalize(config) ==
    LET wild == {f \in {"host", "bind_host"} : config.network[f] = "any"}
    IN  WithNetwork(config, [f \in wild |-> "loopback"])
=============================================================================
