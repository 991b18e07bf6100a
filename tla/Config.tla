------------------------------- MODULE Config -------------------------------
(***************************************************************************)
(* The configuration file as the commands read it (wraps.rs, reference.rs, *)
(* manifest.rs): declared secrets, the two written forms of a reference    *)
(* and the one resolved form, providers and what they can do, and the      *)
(* checks that a file must pass before anything runs.                      *)
(*                                                                         *)
(* A configuration is a record: secrets maps a declared name to its        *)
(* reference and TTL, providers maps a scheme to its capabilities, wrap is *)
(* the entry of the binary at hand, or NoWrap.  A reference is a pair of a *)
(* provider and a locator.  A written value has a form:                    *)
(*   unset, empty, plain   no reference                                    *)
(*   direct                secret://provider/locator                       *)
(*   named                 secret://name                                   *)
(*   malformed             secret:// with an empty half                    *)
(***************************************************************************)
EXTENDS Naturals, Sequences, FiniteSets

CONSTANTS None,         \* no value, no outcome
          BuiltIn       \* the built-in providers, by scheme

NoWrap == [entry |-> FALSE, env_secrets |-> {}, env |-> <<>>]

Unset == [form |-> "unset"]

looks_like_ref(raw) == raw.form \in {"direct", "named", "malformed"}

\* A capability that is present is a command line, and none may be empty.
validate(provider) ==
    /\ provider.retrieve # "empty"
    /\ provider.store # "empty"
    /\ provider.batch # "empty"

\* The user's entries override the built-in ones.
merge_builtin_providers(c) ==
    [s \in DOMAIN BuiltIn \cup DOMAIN c.providers |->
        IF s \in DOMAIN c.providers THEN c.providers[s] ELSE BuiltIn[s]]

DeclaredFor(c, ref) == {d \in DOMAIN c.secrets : c.secrets[d].ref = ref}

\* The TTL belongs to the reference, however it was written.
ttl_for(c, ref) ==
    IF DeclaredFor(c, ref) = {} THEN "daemon_lifetime"
    ELSE c.secrets[CHOOSE d \in DeclaredFor(c, ref) : TRUE].ttl

Resolved(c, ref, name) ==
    [ref |-> ref, declared_as |-> name, ttl |-> ttl_for(c, ref)]

\* resolve_form: a declared name expands, an undeclared one is an error.
resolve_ref(c, raw) ==
    CASE raw.form = "direct" -> Resolved(c, raw.ref, None)
      [] raw.form = "named" /\ raw.name \in DOMAIN c.secrets ->
            Resolved(c, c.secrets[raw.name].ref, raw.name)
      [] OTHER -> None

is_gate_only(w) == w.env_secrets = {} /\ DOMAIN w.env = {}

env_names(w) == w.env_secrets \cup DOMAIN w.env

\* The union of the two forms, by variable.
wrap_refs(c, w) ==
    [n \in env_names(w) |->
        IF n \in w.env_secrets
        THEN resolve_ref(c, [form |-> "named", name |-> n])
        ELSE resolve_ref(c, w.env[n])]

\* No two lifetimes for one reference; every name of the wrap declared and
\* injected once; every reference of the wrap expands.
check_declarations(c) ==
    /\ \A d, e \in DOMAIN c.secrets :
          c.secrets[d].ref = c.secrets[e].ref => c.secrets[d].ttl = c.secrets[e].ttl
    /\ c.wrap.env_secrets \subseteq DOMAIN c.secrets
    /\ c.wrap.env_secrets \cap DOMAIN c.wrap.env = {}
    /\ \A n \in DOMAIN c.wrap.env : resolve_ref(c, c.wrap.env[n]) # None

\* WrapsConfig::parse
Parses(c) ==
    /\ \A s \in DOMAIN c.providers : validate(c.providers[s])
    /\ check_declarations(c)
=============================================================================
