----------------------------- MODULE CommandRun -----------------------------
(***************************************************************************)
(* `secreq <binary>` and `secreq run -- <cmd>` (commands/run.rs): which    *)
(* variables need a secret, consent, resolution through the providers      *)
(* (resolve.rs, provider.rs), and the command itself (exec.rs) with its    *)
(* output masked on the way out, its background processes, the census of   *)
(* them when the command ends, and the guardian that keeps their output    *)
(* open.  The consent daemon answers as an external party; what it sends   *)
(* with an approval is what SecretResolution says a reply holds.           *)
(*                                                                         *)
(* The environment, the flags, the terminal and the configuration are a    *)
(* scenario, fixed when the command is typed.  A value is a sequence of    *)
(* bytes, NL among them; between a command and its terminal a newline      *)
(* becomes CR and NL.  Audit rows and messages decide nothing here.        *)
(***************************************************************************)
EXTENDS Masker, Config

CONSTANTS
    Names,          \* environment variables, and the references `read` is given
    Refs,           \* references: a provider and a locator
    Scenarios,      \* invocations, see ScenarioType
    Configs,        \* configuration files
    Value,          \* Value[r]: what the user keeps under reference r
    Bytes,          \* what values and streams are made of
    NL,             \* the newline byte
    CR,             \* the carriage return a terminal puts before it
    MaxBytes,       \* bound: bytes printed in all
    PipeCap         \* bound: bytes a pipe holds

Raw == [form : {"unset", "empty", "plain", "malformed"}]
       \cup [form : {"named"}, name : Names] \cup [form : {"direct"}, ref : Refs]

\* config is what the command reads first, again what obtain_wrap_consent reads;
\* path is what the directories of PATH hold under the wrap's name; prints are
\* the bytes the command and its background process print.
ScenarioType ==
    [via : {"wrap", "run", "read"}, reentrant : BOOLEAN, yes : BOOLEAN,
     raw : BOOLEAN, prompt : BOOLEAN, tty : BOOLEAN,
     inherited : [Names -> Raw], envfile : [Names -> Raw],
     unstored : SUBSET Refs, config : Configs, again : Configs,
     path : Seq({"nothing", "shim", "binary"}), prints : SUBSET Bytes]

ASSUME CommandAssumption ==
    /\ Scenarios \subseteq ScenarioType
    /\ \A c \in Configs :
          /\ \A d \in DOMAIN c.secrets : c.secrets[d].ref \in Refs
          /\ c.wrap \in [entry : BOOLEAN, env_secrets : SUBSET Names,
                        env : UNION {[D -> Raw] : D \in SUBSET Names}]
    /\ Value \in [Refs -> Seq(Bytes)] /\ {NL, CR} \subseteq Bytes
    /\ MaxBytes \in Nat /\ PipeCap \in Nat \ {0}
    /\ DEFAULT_MASK \notin Bytes

VARIABLES
    sc,         \* the scenario
    pc,         \* where the secreq process is
    stored,     \* the provider's store: a value under each reference, or None
    ask,        \* variable -> the resolved reference that is asked for
    probed,     \* variables --prompt-unresolved has looked at
    decision,   \* the outcome of the consent step
    resolved,   \* variable -> value
    childEnv,   \* what the command finds in its environment
    masks,      \* the values its output is masked with
    child,      \* the direct child
    supervisor, \* the session leader of a terminal run
    status,     \* its status file
    bg,         \* a background process of the command
    guardian,   \* who keeps the survivors' readers open
    wrote,      \* history: what each stream carried, past the terminal
    pipe,       \* printed and unread
    carry,      \* the masker's carry
    shown,      \* what reached our own stdout or stderr
    pump,       \* the masking threads
    drained,    \* history: streams that somebody else read from
    signalled   \* history: an in-scope background process lost its reader

askVars == <<stored, ask, probed, decision, resolved>>
procVars == <<child, supervisor, status, bg, guardian, signalled>>
ioVars == <<wrote, pipe, carry, shown, pump, drained>>
vars == <<sc, pc, askVars, childEnv, masks, procVars, ioVars>>

Streams == IF sc.tty THEN {"out"} ELSE {"out", "err"}

Init ==
    /\ sc \in Scenarios
    /\ pc = "start"
    /\ stored = [r \in Refs |-> IF r \in sc.unstored THEN None ELSE Value[r]]
    /\ ask = <<>> /\ probed = {} /\ decision = None /\ resolved = <<>>
    /\ childEnv = <<>> /\ masks = {}
    /\ child = "none" /\ supervisor = "none" /\ status = "none"
    /\ bg = "none" /\ guardian = "none" /\ signalled = FALSE
    /\ wrote = [s \in Streams |-> <<>>] /\ pipe = [s \in Streams |-> <<>>]
    /\ carry = [s \in Streams |-> <<>>] /\ shown = [s \in Streams |-> <<>>]
    /\ pump = [s \in Streams |-> "none"] /\ drained = {}

-----------------------------------------------------------------------------
(* What has to be resolved *)

\* A variable that holds no value of the store.
Literal(raw) == <<raw>>
Inherited == [n \in Names |-> Literal(sc.inherited[n])]

\* exec::run: spawn the command with overrides on top of what it inherits.
Exec(overrides, values) ==
    /\ pc' = "wait"
    /\ childEnv' = [n \in Names |-> IF n \in DOMAIN overrides THEN overrides[n]
                                    ELSE Inherited[n]]
    /\ masks' = Redacted(values)
    /\ child' = "running"
    /\ supervisor' = IF sc.tty THEN "running" ELSE "none"
    /\ pump' = [s \in Streams |-> "reading"]
    /\ UNCHANGED <<status, bg, guardian, signalled>>
    /\ UNCHANGED <<wrote, pipe, carry, shown, drained>>

NoExec == UNCHANGED <<childEnv, masks, procVars, ioVars>>
Fail == pc' = "failed" /\ NoExec /\ UNCHANGED askVars

\* The first directory of PATH that holds the name and not one of our shims.
find_real_binary == \E i \in DOMAIN sc.path : sc.path[i] = "binary"

\* exec(2): the binary takes the place of this process.
passthrough_unwrapped ==
    IF ~find_real_binary THEN Fail
    ELSE /\ pc' = "replaced" /\ childEnv' = Inherited
         /\ UNCHANGED <<masks, procVars, ioVars, askVars>>

\* A file that does not parse is an error before anything else.
load_config_or_default ==
    /\ pc = "start" /\ ~Parses(sc.config)
    /\ Fail /\ UNCHANGED sc

Loaded(via) == pc = "start" /\ Parses(sc.config) /\ sc.via = via

\* Something has to be asked for, unless a reference does not expand.
AskFor(refs, next) ==
    IF \E n \in DOMAIN refs : refs[n] = None THEN Fail
    ELSE /\ ask' = refs /\ pc' = next
         /\ NoExec /\ UNCHANGED <<stored, probed, decision, resolved>>

parent_env_satisfies(n) ==
    sc.inherited[n].form \notin {"unset", "empty"} /\ ~looks_like_ref(sc.inherited[n])

\* obtain_wrap_consent reads the file a second time to build the ask.
obtained == IF sc.yes THEN sc.config ELSE sc.again

\* wrap_run: no gate inside secreq's own resolution, nor without an entry; what
\* the parent environment satisfies drops out, and a wrap whose entries are all
\* satisfied runs ungated.
wrap_run ==
    LET w == sc.config.wrap
        needed == [w EXCEPT
            !.env_secrets = {n \in @ : ~parent_env_satisfies(n)},
            !.env = [n \in {m \in DOMAIN @ : ~parent_env_satisfies(m)} |-> @[n]]]
    IN  /\ Loaded("wrap")
        /\ UNCHANGED sc
        /\ IF sc.reentrant \/ ~w.entry \/ (~is_gate_only(w) /\ is_gate_only(needed))
           THEN passthrough_unwrapped
           ELSE IF ~Parses(obtained) THEN Fail
           ELSE AskFor(wrap_refs(obtained, needed), "consent")

\* Mutant: the env file wins.
FileWins(n) ==
    IF sc.envfile[n].form # "unset" THEN sc.envfile[n] ELSE sc.inherited[n]

\* The env file lies under the inherited environment, an empty value included.
effective_env(n) ==
    IF sc.inherited[n].form # "unset" THEN sc.inherited[n] ELSE sc.envfile[n]

\* Resolved references, and the plain variables that only the file sets.
build_overrides(values) ==
    LET plain == {n \in Names \ DOMAIN values :
                    sc.inherited[n].form = "unset" /\ effective_env(n).form # "unset"}
    IN  [n \in DOMAIN values \cup plain |->
            IF n \in DOMAIN values THEN values[n] ELSE Literal(effective_env(n))]

scan_env_refs ==
    [n \in {m \in Names : looks_like_ref(effective_env(m))} |->
        resolve_ref(sc.config, effective_env(n))]

\* run: re-entered it runs the command bare; with nothing to resolve it asks
\* nobody.
run ==
    /\ Loaded("run")
    /\ UNCHANGED sc
    /\ IF sc.reentrant THEN Exec(<<>>, {}) /\ UNCHANGED askVars
       ELSE IF DOMAIN scan_env_refs = {}
       THEN Exec(build_overrides(<<>>), {}) /\ UNCHANGED askVars
       ELSE AskFor(scan_env_refs, IF sc.prompt THEN "prompt" ELSE "consent")

\* read: the references are its arguments; re-entered it refuses.
read ==
    LET given == {n \in Names : sc.inherited[n].form # "unset"}
    IN  /\ Loaded("read")
        /\ UNCHANGED sc
        /\ IF sc.reentrant \/ given = {} THEN Fail
           ELSE AskFor([n \in given |-> resolve_ref(sc.config, sc.inherited[n])],
                       "consent")

Providers == merge_builtin_providers(sc.config)
Scheme(n) == ask[n].ref.provider

\* The store template gives back the locator it was filled from.
fields_from_locator(n) == Providers[Scheme(n)].store = "round_trips"

\* A provider that cannot store is an error, and so is one whose template leads
\* elsewhere, but only when the value has been written there.
store_at_locator(n) ==
    \/ /\ fields_from_locator(n)
       /\ stored' = [stored EXCEPT ![ask[n].ref] = Value[ask[n].ref]]
       /\ UNCHANGED pc
    \/ pc' = "failed" /\ UNCHANGED stored

\* --prompt-unresolved, a reference at a time: what is there, or cannot be
\* probed, is left alone; the rest is asked for and stored.
prompt_and_store_unresolved(n) ==
    /\ pc = "prompt" /\ n \in DOMAIN ask \ probed
    /\ probed' = probed \cup {n}
    /\ NoExec /\ UNCHANGED <<sc, ask, decision, resolved>>
    /\ IF Scheme(n) \notin DOMAIN Providers \/ stored[ask[n].ref] # None
       THEN UNCHANGED <<pc, stored>>
       ELSE store_at_locator(n)

Prompted ==
    /\ pc = "prompt" /\ probed = DOMAIN ask
    /\ pc' = "consent"
    /\ NoExec /\ UNCHANGED <<sc, askVars>>

-----------------------------------------------------------------------------
(* Consent and resolution *)

\* --yes approves without the daemon, and resolves here; read has no --yes.
AssumeYes ==
    /\ pc = "consent" /\ sc.yes /\ sc.via # "read"
    /\ decision' = "approve"
    /\ pc' = "resolve"
    /\ NoExec /\ UNCHANGED <<sc, stored, ask, probed, resolved>>

Known(n) == Scheme(n) \in DOMAIN Providers

FirstLine(v) ==
    LET ends == {i \in 1..Len(v) : v[i] = NL}
    IN  IF ends = {} THEN v ELSE SubSeq(v, 1, Min(ends) - 1)

\* One newline is what the CLI adds after the value it prints.
strip_one_trailing_newline(out) ==
    IF out # <<>> /\ Last(out) = NL THEN Front(out) ELSE out

retrieve(r) ==
    IF stored[r] = None THEN None
    ELSE strip_one_trailing_newline(stored[r] \o <<NL>>)

\* KEY=VALUE lines: what follows a value's first newline is another line.
retrieve_batch(r) == IF stored[r] = None THEN None ELSE FirstLine(stored[r])

Batching == {s \in DOMAIN Providers : Providers[s].batch = "command"}

\* The answer of the daemon: an approval carries a value for every name.  It
\* resolves with the same code, and batches a name with those of other asks.
request_consent ==
    /\ pc = "consent" /\ (sc.yes => sc.via = "read")
    /\ \/ /\ \A n \in DOMAIN ask : Known(n) /\ stored[ask[n].ref] # None
          /\ decision' = "approve" /\ pc' = "inject"
          /\ \E batched \in SUBSET {n \in DOMAIN ask : Scheme(n) \in Batching} :
                resolved' = [n \in DOMAIN ask |->
                    IF n \in batched THEN retrieve_batch(ask[n].ref)
                    ELSE retrieve(ask[n].ref)]
       \/ decision' = "deny" /\ pc' = "denied" /\ UNCHANGED resolved
       \/ decision' = "error" /\ pc' = "failed" /\ UNCHANGED resolved
    /\ NoExec /\ UNCHANGED <<sc, stored, ask, probed>>

\* A provider with a batch capability and two requests or more is batched.
Batchable == {s \in Batching : Cardinality({n \in DOMAIN ask : Scheme(n) = s}) >= 2}

\* resolve_all: a batch that fails falls back to single reads, and one that
\* misses a name reads that name alone.
resolve_all ==
    /\ pc = "resolve"
    /\ \E batched \in SUBSET Batchable :
         LET Single(n) == IF Known(n) THEN retrieve(ask[n].ref) ELSE None
             Outcome(n) == IF Scheme(n) \in batched
                              /\ retrieve_batch(ask[n].ref) # None
                           THEN retrieve_batch(ask[n].ref) ELSE Single(n)
             outcomes == [n \in DOMAIN ask |-> Outcome(n)]
         IN  IF \E n \in DOMAIN ask : outcomes[n] = None
             THEN pc' = "failed" /\ UNCHANGED resolved
             ELSE pc' = "inject" /\ resolved' = outcomes
    /\ NoExec /\ UNCHANGED <<sc, stored, ask, probed, decision>>

\* The resolved values are injected, and masked unless --raw.
ToMask == IF sc.raw THEN {} ELSE {resolved[n] : n \in DOMAIN resolved}

InjectRun ==
    /\ pc = "inject" /\ sc.via = "run"
    /\ Exec(build_overrides(resolved), ToMask)
    /\ UNCHANGED <<sc, askVars>>

\* A wrap looks for its binary only now.
InjectWrap ==
    /\ pc = "inject" /\ sc.via = "wrap"
    /\ IF find_real_binary THEN Exec(resolved, ToMask) /\ UNCHANGED askVars
       ELSE Fail
    /\ UNCHANGED sc

\* read prints every value it asked for and runs nothing.
render_read_json ==
    /\ pc = "inject" /\ sc.via = "read"
    /\ pc' = "printed"
    /\ NoExec /\ UNCHANGED <<sc, askVars>>

-----------------------------------------------------------------------------
(* The command and its background process *)

Quiet == UNCHANGED <<sc, askVars, childEnv, masks>>

\* Somebody holds the read end: a masking thread, secreq itself until the
\* census, or the guardian.
HasReader(s) ==
    \/ pump[s] = "reading" \/ guardian = "running"
    \/ pc \in {"wait", "poll", "census", "guard", "guarding"}

\* The supervisor keeps the terminal it was started at.
HasWriter(s) ==
    child = "running" \/ supervisor = "running" \/ bg \in {"in", "out"}

Printed == FoldSet(LAMBDA s, n : n + Len(wrote[s]), 0, Streams)

\* What the reader of a stream gets for a byte: the line discipline of a
\* terminal maps a newline to CR and NL (ONLCR, its default).
Cooked(b) == IF sc.tty /\ b = NL THEN <<CR, NL>> ELSE <<b>>

Emit(s, b) ==
    /\ Printed < MaxBytes /\ Len(pipe[s]) + Len(Cooked(b)) <= PipeCap
    /\ wrote' = [wrote EXCEPT ![s] = @ \o Cooked(b)]
    /\ pipe' = [pipe EXCEPT ![s] = @ \o Cooked(b)]
    /\ UNCHANGED <<carry, shown, pump, drained>>

ChildPrints(s, b) ==
    /\ child = "running"
    /\ Emit(s, b)
    /\ Quiet /\ UNCHANGED <<pc, procVars>>

ChildForks ==
    /\ child = "running" /\ bg = "none"
    /\ bg' = "in"
    /\ Quiet
    /\ UNCHANGED <<pc, child, supervisor, status, guardian, signalled, ioVars>>

ChildExits ==
    /\ child = "running"
    /\ child' = "exited"
    /\ Quiet
    /\ UNCHANGED <<pc, supervisor, status, bg, guardian, signalled, ioVars>>

\* The supervisor has waited for the command and writes its status file; a file
\* that is still being written reads as a missing one.
write_supervisor_status ==
    /\ supervisor = "running" /\ child = "exited" /\ status = "none"
    /\ status' = "written"
    /\ Quiet
    /\ UNCHANGED <<pc, child, supervisor, bg, guardian, signalled, ioVars>>

\* It leaves when its session has no other process.
run_pty_supervisor ==
    /\ supervisor = "running" /\ status = "written" /\ bg # "in"
    /\ supervisor' = "gone"
    /\ Quiet
    /\ UNCHANGED <<pc, child, status, bg, guardian, signalled, ioVars>>

\* A supervisor that is killed, or cannot write, leaves no status; the command
\* ends with the leader of its session.
SupervisorDies ==
    /\ supervisor = "running" /\ status = "none"
    /\ supervisor' = "killed" /\ child' = "exited"
    /\ Quiet /\ UNCHANGED <<pc, status, bg, guardian, signalled, ioVars>>

\* Ctrl-C: the forwarder passes it to the whole group while it runs.
SignalForwarder ==
    /\ child = "running" /\ ~sc.tty
    /\ child' = "exited"
    /\ bg' = IF bg = "in" THEN "dead" ELSE bg
    /\ Quiet /\ UNCHANGED <<pc, supervisor, status, guardian, signalled, ioVars>>

\* setsid or setpgid: the process is no longer in the observable scope.
BgLeaves ==
    /\ bg = "in"
    /\ bg' = "out"
    /\ Quiet
    /\ UNCHANGED <<pc, child, supervisor, status, guardian, signalled, ioVars>>

BgEnds ==
    /\ bg \in {"in", "out"}
    /\ bg' = "dead"
    /\ Quiet
    /\ UNCHANGED <<pc, child, supervisor, status, guardian, signalled, ioVars>>

BgPrints(s, b) ==
    /\ bg \in {"in", "out"} /\ HasReader(s)
    /\ Emit(s, b)
    /\ Quiet /\ UNCHANGED <<pc, procVars>>

\* A write without a reader kills the writer.
BgLosesReader(s) ==
    /\ bg \in {"in", "out"} /\ ~HasReader(s)
    /\ bg' = "dead"
    /\ signalled' = (signalled \/ (bg = "in" /\ supervisor # "killed"))
    /\ Quiet /\ UNCHANGED <<pc, child, supervisor, status, guardian, ioVars>>

-----------------------------------------------------------------------------
(* Output *)

spawn_mask_pump(s, n) ==
    LET after == push(masks, carry[s], SubSeq(pipe[s], 1, n))
    IN  /\ pump[s] = "reading" /\ n <= Len(pipe[s])
        /\ pipe' = [pipe EXCEPT ![s] = SubSeq(@, n + 1, Len(@))]
        /\ carry' = [carry EXCEPT ![s] = after.carry]
        /\ shown' = [shown EXCEPT ![s] = @ \o after.out]
        /\ Quiet /\ UNCHANGED <<pc, procVars, wrote, pump, drained>>

PumpEnds(s) ==
    /\ pump[s] = "reading" /\ pipe[s] = <<>> /\ ~HasWriter(s)
    /\ shown' = [shown EXCEPT ![s] = @ \o finish(masks, carry[s])]
    /\ carry' = [carry EXCEPT ![s] = <<>>]
    /\ pump' = [pump EXCEPT ![s] = "done"]
    /\ Quiet /\ UNCHANGED <<pc, procVars, wrote, pipe, drained>>

-----------------------------------------------------------------------------
(* The end of the command: run_pty and run_piped *)

\* The process exits: its threads go with it.
Leave(how) ==
    /\ pc' = how
    /\ pump' = [s \in Streams |-> IF pump[s] = "reading" THEN "cut" ELSE pump[s]]
Returned == Leave("returned")

\* A command on pipes is waited for itself.
run_piped ==
    /\ pc = "wait" /\ ~sc.tty /\ child = "exited"
    /\ pc' = "census"
    /\ Quiet /\ UNCHANGED <<procVars, ioVars>>

\* At a terminal the status file is read ...
wait_for_supervised_child ==
    /\ pc = "wait" /\ sc.tty
    /\ pc' = IF status = "written" THEN "census" ELSE "poll"
    /\ Quiet /\ UNCHANGED <<procVars, ioVars>>

\* ... and when there was none, the supervisor is looked at: one that is gone is
\* an error, although it may have written its status since.
SupervisorLost ==
    /\ pc = "poll"
    /\ IF supervisor = "running" THEN pc' = "wait" /\ UNCHANGED pump
       ELSE Leave("lost")
    /\ Quiet /\ UNCHANGED <<procVars, wrote, pipe, carry, shown, drained>>

\* Mutant: the end of the streams is awaited whoever holds them.
NoCensus ==
    /\ pc = "census"
    /\ pc' = "join"
    /\ Quiet /\ UNCHANGED <<procVars, ioVars>>

\* The census of the command's session or process group.
find_survivors ==
    /\ pc = "census"
    /\ pc' = IF bg = "in" THEN "guard" ELSE "join"
    /\ Quiet /\ UNCHANGED <<procVars, ioVars>>

\* No survivor: the supervisor is waited for, the masking threads see the end of
\* the streams and are joined.
Join ==
    /\ pc = "join" /\ supervisor # "running"
    /\ \A s \in Streams : pump[s] = "done"
    /\ Returned
    /\ Quiet /\ UNCHANGED <<procVars, wrote, pipe, carry, shown, drained>>

\* Mutant: a survivor is reported, and the readers close with this process.
ReportOnly ==
    /\ pc = "guard"
    /\ Returned
    /\ Quiet /\ UNCHANGED <<procVars, wrote, pipe, carry, shown, drained>>

\* Survivors: a helper inherits the read ends and this process returns.  When
\* it cannot be spawned, this process guards the streams itself.
spawn_io_guardian ==
    /\ pc = "guard"
    /\ \/ guardian' = "running" /\ Returned
       \/ guardian' = "self" /\ pc' = "guarding" /\ UNCHANGED pump
    /\ Quiet
    /\ UNCHANGED <<child, supervisor, status, bg, signalled>>
    /\ UNCHANGED <<wrote, pipe, carry, shown, drained>>

Guards == guardian = "running" \/ pc = "guarding"

\* Whatever the guardian reads is thrown away.
guard_io(s) ==
    /\ Guards /\ pipe[s] # <<>>
    /\ pipe' = [pipe EXCEPT ![s] = <<>>]
    /\ drained' = drained \cup {s}
    /\ Quiet /\ UNCHANGED <<pc, procVars, wrote, carry, shown, pump>>

guard_io_until_scope_empty ==
    /\ Guards /\ bg # "in"
    /\ IF guardian = "running"
       THEN guardian' = "done" /\ UNCHANGED <<pc, pump>>
       ELSE Returned /\ UNCHANGED guardian
    /\ Quiet
    /\ UNCHANGED <<child, supervisor, status, bg, signalled>>
    /\ UNCHANGED <<wrote, pipe, carry, shown, drained>>

-----------------------------------------------------------------------------
Prepare ==
    \/ load_config_or_default \/ wrap_run \/ run \/ read
    \/ Prompted \/ \E n \in Names : prompt_and_store_unresolved(n)
    \/ AssumeYes \/ request_consent \/ resolve_all
    \/ InjectRun \/ InjectWrap \/ render_read_json

Finish == \/ run_piped \/ wait_for_supervised_child \/ SupervisorLost
          \/ find_survivors \/ Join \/ spawn_io_guardian \/ guard_io_until_scope_empty

Supervise == write_supervisor_status \/ run_pty_supervisor

Pump(s) == PumpEnds(s) \/ \E n \in 1..PipeCap : spawn_mask_pump(s, n)

Next ==
    \/ Prepare \/ Finish
    \/ ChildForks \/ ChildExits \/ Supervise \/ SupervisorDies \/ SignalForwarder
    \/ BgLeaves \/ BgEnds
    \/ \E s \in Streams :
         \/ Pump(s) \/ guard_io(s) \/ BgLosesReader(s)
         \/ \E b \in sc.prints : ChildPrints(s, b) \/ BgPrints(s, b)

\* secreq's own threads, its supervisor and the daemon's answer; the command and
\* its background process owe nothing.
Fairness ==
    /\ WF_vars(Prepare) /\ WF_vars(Finish) /\ WF_vars(Supervise)
    /\ \A s \in {"out", "err"} : WF_vars(s \in Streams /\ Pump(s))

Spec == Init /\ [][Next]_vars /\ Fairness

-----------------------------------------------------------------------------
(* Properties *)

Ended == pc \in {"returned", "lost", "failed", "denied", "printed", "replaced"}

\* However the reads split the command's output, what Masker has shown, with
\* what it will show of the carry and of the unread bytes, is what the stream
\* carried masked in one piece; secreq returns without survivors only when all
\* of it is shown.  Two limits of the code: at a terminal the stream carries CR
\* and NL for a newline, so a value with a line break inside is not found in it;
\* and a supervisor found gone, its status written too late or never, is an
\* error return (pc = "lost") that cuts the output.
OutputIsMaskedWhole ==
    \A s \in Streams \ drained :
        /\ pump[s] = "reading"
           => shown[s] \o Masked(masks, carry[s] \o pipe[s])
              = Masked(masks, wrote[s])
        /\ pump[s] = "done" => shown[s] = Masked(masks, wrote[s])
        /\ pc = "returned" /\ guardian = "none" => pump[s] = "done"

\* exec.rs: teardown does not become an implicit signal: a background process
\* that stays in the command's session or group never loses the reader of its
\* output, whichever process holds it at the moment, and whether the supervisor
\* is found gone or its status is read; only a killed supervisor costs it that.
SurvivorsAreNotSignalled == ~signalled

\* The command is given what was meant: for `run` the effective environment,
\* for a wrap the parent's, where every variable the ask showed holds the value
\* stored under the very reference shown, or the first line of it when the
\* provider answers in batches (whose lines a value's newline ends), and no
\* other holds a reference that `run` should have resolved; a value of the store
\* needs an approval, and one reference is asked for with one lifetime.
ChildEnvIsAsMeant ==
    LET Kept(n) ==
          {stored[ask[n].ref]}
          \cup {v \in {FirstLine(stored[ask[n].ref])} : Scheme(n) \in Batching}
        Meant(n) ==
          IF sc.via = "run" /\ ~sc.reentrant /\ sc.inherited[n] = Unset
          THEN Literal(sc.envfile[n])
          ELSE Literal(sc.inherited[n])
    IN  /\ childEnv # <<>> =>
             /\ \A n \in Names : IF n \in DOMAIN ask THEN childEnv[n] \in Kept(n)
                               ELSE childEnv[n] = Meant(n)
             /\ DOMAIN ask # {} => decision = "approve"
             /\ sc.via = "run" /\ ~sc.reentrant =>
                  \A n \in Names \ DOMAIN ask : ~looks_like_ref(Head(childEnv[n]))
        /\ \A m, n \in DOMAIN ask :
             ask[m].ref = ask[n].ref => ask[m].ttl = ask[n].ttl

\* When the command has ended, secreq returns, survivors or not, unless a
\* process that left the scope keeps the streams open, or no guardian could be
\* spawned and secreq itself stays for the survivors.
CommandReturns ==
    child = "exited" ~> (Ended \/ bg = "out" \/ pc = "guarding")
=============================================================================
