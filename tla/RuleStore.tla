------------------------------ MODULE RuleStore ------------------------------
(***************************************************************************)
(* The rules file, the modules stored beside it and the daemon's copy of   *)
(* both: reloads, edits from the manager window and the command line,      *)
(* registration of modules, saves by hand at any moment, crashes, and the  *)
(* asks that are decided from the copy (daemon/state.rs, rules.rs).        *)
(*                                                                         *)
(* `op' is the one operation that holds the State lock; the file system is *)
(* not under that lock, so a save by hand may fall between any two of its  *)
(* steps.  Every save gives its file a fresh modification time.            *)
(***************************************************************************)
EXTENDS RuleEngine, FiniteSets

CONSTANTS
    Asks,          \* the contexts of the asks that may arrive
    FirstRules,    \* the rule files the daemon may start from
    FormRules,     \* rules the manager's form may submit, new or edited
    HandRules,     \* rules a user may write into the file
    Wraps,         \* the wraps the configuration may define
    NewModules,    \* the modules `rules add-wasm' may be given
    NewId,         \* the id a registration draws
    Paths,         \* where modules are stored, named by the id of their rule
    Requests,      \* what `--secret' may name at a registration
    MaxSaves,      \* bound on saves and tampering by hand, and on crashes
    MaxEdits,      \* bound on edits through the daemon
    MaxAsks        \* bound on asks

\* A rule as the file and the daemon hold it.
IsRule(r) ==
    /\ r = [id |-> r.id, enabled |-> r.enabled, wraps |-> r.wraps,
            trained |-> r.trained, body |-> r.body]
    /\ r.enabled \in BOOLEAN /\ r.id \in Nat
    /\ ~is_wasm(r) =>
          /\ decision(r) \in {Approve, Deny}
          /\ \A clause \in {r.body.argv, r.body.ancestor, r.body.cwd} :
                clause = <<>> \/ clause = <<clause[1]>>

\* Files the daemon starts from were written by it: ids are distinct and a
\* module is stored under the id of its rule.  The form and the hand write
\* clauses, not modules, and nobody guesses the id that is drawn.
ASSUME RuleAssumption ==
    /\ \A rules \in FirstRules :
          /\ rules \in Seq(ToSet(rules))
          /\ \A i, j \in DOMAIN rules : rules[i].id = rules[j].id => i = j
          /\ \A r \in ToSet(rules) :
                /\ IsRule(r) /\ r.id # NewId
                /\ is_wasm(r) => r.body.path = r.id /\ r.id \in Paths
    /\ \A r \in FormRules \cup HandRules : IsRule(r) /\ ~is_wasm(r) /\ r.id # NewId
    /\ NewId \in Paths \cap Nat
    /\ {MaxSaves, MaxEdits, MaxAsks} \subseteq Nat

VARIABLES
    file,          \* auto-rules.toml: [state, rules, mtime]
    config,        \* config.toml: [ok, wraps, mtime]
    store,         \* the module file at each path, <<>> if none
    daemon,        \* the State's copy of the rules, with a ghost: `unchecked'
    op,            \* the operation under the State lock
    seen,          \* the rules the client that edits was shown
    ask,           \* the ask being decided
    kept,          \* ghost: registered rules whose module nobody touched
    used           \* ghost: how much of each bound is used

vars == <<file, config, store, daemon, op, seen, ask, kept, used>>

Idle == [kind |-> "idle"]
NoAsk == [pc |-> "none"]

MtimeOf(f) == IF f.state = "missing" THEN 0 ELSE f.mtime
RulesIn(f) == IF f.state = "missing" THEN <<>> ELSE f.rules
Fresh == used.clock + 1
Find(rules, id) == {r \in ToSet(rules) : r.id = id}
Tick == [used EXCEPT !.clock = @ + 1]

-----------------------------------------------------------------------------
(* The rules in force, for the ghosts: a file that does not parse leaves the *)
(* daemon with the rules it had, or is about to have read before that.       *)
InForce(f) ==
    IF f.state # "broken" THEN {RulesIn(f)}
    ELSE {daemon.rules} \cup
         (IF op # Idle /\ op.pc = "rest" THEN {op.rules} ELSE {})

\* A scope that was validated or was not: whose it is, and what it names.
ScopesOf(rules) == {<<r.id, r.wraps>> : r \in ToSet(rules)}

\* Every version of the rules that was in force while the ask was waiting.
Witness(f) == IF ask = NoAsk THEN ask ELSE [ask EXCEPT !.since = @ \cup InForce(f)]

-----------------------------------------------------------------------------
(* load_rules, in the steps another writer can fall between. *)

\* The whole of a load, as a start of the daemon performs it.
Loaded(f, c, s) ==
    [rules |-> RulesIn(f), modules |-> Modules(RulesIn(f), s),
     wasmRefused |-> WasmRefusals(RulesIn(f), s),
     scopeRefused |-> ScopeRefusals(RulesIn(f), c), unchecked |-> {},
     rulesAt |-> MtimeOf(f), configAt |-> c.mtime]

NoRules(f, c) ==
    [rules |-> <<>>, modules |-> NoModules, wasmRefused |-> {}, scopeRefused |-> {},
     unchecked |-> {}, rulesAt |-> MtimeOf(f), configAt |-> c.mtime]

with_rules_path_and_config(f, c, s) ==
    IF f.state = "broken" THEN NoRules(f, c) ELSE Loaded(f, c, s)

Init ==
    /\ \E rules \in FirstRules : file = [state |-> "ok", rules |-> rules, mtime |-> 1]
    /\ config = [ok |-> TRUE, wraps |-> Wraps, mtime |-> 1]
    /\ store = [p \in Paths |->
                  LET owners == {r \in ToSet(file.rules) : is_wasm(r) /\ r.body.path = p}
                  IN  IF owners = {} THEN <<>> ELSE <<(CHOOSE r \in owners : TRUE).body.sha>>]
    /\ daemon = with_rules_path_and_config(file, config, store)
    /\ op = Idle
    /\ seen = daemon.rules
    /\ ask = NoAsk
    /\ kept = {r.id : r \in {x \in ToSet(file.rules) : is_wasm(x)}}
    /\ used = [clock |-> 1, saves |-> 0, edits |-> 0, asks |-> 0, drawn |-> FALSE, touched |-> {}]

\* reload_rules_if_changed, up to the comparison of the modification times.
Stale == MtimeOf(file) # daemon.rulesAt \/ config.mtime # daemon.configAt

reload_rules_if_changed(for) ==
    op' = [kind |-> "reload", pc |-> "text", for |-> for, rules |-> <<>>,
           mtime |-> MtimeOf(file), configAt |-> config.mtime]

\* The ask's own reload, and the one before any other one-shot message.
AskReloads ==
    /\ op = Idle /\ ask.pc = "arrived"
    /\ IF Stale THEN reload_rules_if_changed("ask") /\ UNCHANGED ask
       ELSE ask' = [ask EXCEPT !.pc = "reloaded"] /\ UNCHANGED op
    /\ UNCHANGED <<file, config, store, daemon, seen, kept, used>>

MessageReloads ==
    /\ op = Idle /\ Stale
    /\ reload_rules_if_changed("message")
    /\ UNCHANGED <<file, config, store, daemon, seen, ask, kept, used>>

Released == IF op.for = "ask" /\ ask.pc # "none" THEN [ask EXCEPT !.pc = "reloaded"] ELSE ask

\* A reload that cannot parse the file keeps the rules it had, with the refusals
\* they had under the configuration before, and notes both times all the same.
ReloadFails ==
    /\ op.kind = "reload" /\ op.pc = "text" /\ file.state = "broken"
    /\ daemon' = [daemon EXCEPT !.rulesAt = op.mtime, !.configAt = op.configAt,
                     !.unchecked = IF op.configAt = daemon.configAt THEN @
                                   ELSE ScopesOf(daemon.rules)]
    /\ op' = Idle
    /\ ask' = Released
    /\ UNCHANGED <<file, config, store, seen, kept, used>>

LoadText ==
    /\ op.kind \in {"reload", "edit"} /\ op.pc = "text" /\ file.state # "broken"
    /\ op' = [op EXCEPT !.pc = "rest", !.rules = RulesIn(file)]
    /\ UNCHANGED <<file, config, store, daemon, seen, ask, kept, used>>

ReloadDone ==
    /\ op.kind = "reload" /\ op.pc = "rest"
    /\ daemon' = [rules |-> op.rules, modules |-> Modules(op.rules, store),
                  wasmRefused |-> WasmRefusals(op.rules, store),
                  scopeRefused |-> ScopeRefusals(op.rules, config), unchecked |-> {},
                  rulesAt |-> op.mtime, configAt |-> config.mtime]
    /\ op' = Idle
    /\ ask' = Released
    /\ UNCHANGED <<file, config, store, seen, kept, used>>

-----------------------------------------------------------------------------
(* Asks. *)

ArriveAsk ==
    /\ ask = NoAsk /\ used.asks < MaxAsks
    /\ \E ctx \in Asks :
         ask' = [pc |-> "arrived", ctx |-> ctx, since |-> InForce(file),
                 configs |-> {config}]
    /\ used' = [used EXCEPT !.asks = @ + 1]
    /\ UNCHANGED <<file, config, store, daemon, op, seen, kept>>

\* evaluate_rules_for_ask; a scoped agent's ask never reaches the rules.
evaluate_rules_for_ask(ctx) ==
    IF ctx.kind = "scoped" \/ daemon.rules = <<>> THEN <<>>
    ELSE evaluate_with_refusals(daemon.rules, daemon.modules, daemon.scopeRefused, ctx).hit

\* The hit is the reply: an approval, a refusal, or none, which prompts.
Evaluate ==
    /\ op = Idle /\ ask.pc = "reloaded"
    /\ ask' = NoAsk
    /\ UNCHANGED <<file, config, store, daemon, op, seen, kept, used>>

-----------------------------------------------------------------------------
(* Edits: what the form, the list and the command line send. *)

\* The client paints what the daemon last pushed to it, or lists it.
Refresh ==
    /\ op = Idle /\ seen # daemon.rules
    /\ seen' = daemon.rules
    /\ UNCHANGED <<file, config, store, daemon, op, ask, kept, used>>

refuse_broken_wrap_scope(rule) == ScopeRefusals(<<rule>>, config) # {}
refuse_broken_patterns(rule) == pattern_refusals(<<rule>>) # {}

\* The first rule with the id.
rule_table_index(rules, id) ==
    CHOOSE i \in DOMAIN rules : rules[i].id = id /\ \A j \in 1..(i - 1) : rules[j].id # id

ensure_rule_is_current(rules, expected) ==
    /\ Find(rules, expected.id) # {}
    /\ rules[rule_table_index(rules, expected.id)] = expected

ensure_cached_rule_is_current(expected) == ensure_rule_is_current(daemon.rules, expected)

RuleEdits ==
    [what : {"add"}, rule : FormRules]
    \cup [what : {"update"}, expected : {r \in ToSet(seen) : ~is_wasm(r)}, rule : FormRules]
    \cup [what : {"delete"}, expected : ToSet(seen)]
    \cup [what : {"enable"}, expected : ToSet(seen)]

Target(e) == IF e.what = "add" THEN e.rule.id ELSE e.expected.id

\* The checks of add_rule, update_rule_if_unchanged, delete_rule_if_unchanged
\* and set_rule_enabled_if_unchanged against the daemon's own copy.
Admissible(e) ==
    /\ e.what \in {"add", "update"} =>
          /\ ~refuse_broken_wrap_scope(e.rule) /\ ~refuse_broken_patterns(e.rule)
    /\ e.what = "add" => Find(daemon.rules, e.rule.id) = {}
    /\ e.what = "update" => e.expected.id = e.rule.id
    /\ e.what # "add" => ensure_cached_rule_is_current(e.expected)

\* apply_rule_edit on the rules the file holds.
Applies(rules, e) ==
    IF e.what = "add" THEN Find(rules, e.rule.id) = {}
    ELSE ensure_rule_is_current(rules, e.expected)

\* The table at the index gets the replacement's values; its comments and its
\* place stay.
merge_rule_table(rules, index, replacement) == [rules EXCEPT ![index] = replacement]

apply_rule_edit(rules, e) ==
    LET index == rule_table_index(rules, e.expected.id)
    IN  CASE e.what = "add"    -> Append(rules, e.rule)
          [] e.what = "update" -> merge_rule_table(rules, index, e.rule)
          [] e.what = "delete" -> RemoveAt(rules, index)
          [] e.what = "enable" -> [rules EXCEPT ![index].enabled = ~@]

Without(modules, ids) == [i \in DOMAIN modules \cap ids |-> modules[i]]

\* install_rule_module: the cache entry and the refusal of one rule.
install_rule_module(d, rule) ==
    LET others == DOMAIN d.modules \ {rule.id}
    IN  [d EXCEPT
          !.modules = IF is_wasm(rule)
                      THEN [i \in others \cup {rule.id} |->
                              IF i = rule.id THEN rule.body.sha ELSE d.modules[i]]
                      ELSE Without(d.modules, others),
          !.wasmRefused = @ \ {rule.id}]

Editing(e, read) ==
    [kind |-> "edit", pc |-> "compare", edit |-> e, read |-> read,
     rules |-> <<>>, mtime |-> 0, compared |-> 0]

\* edit_rule up to the edited text: the file is read, parsed and edited.
Prepare(e, d) ==
    IF file.state # "broken" /\ Applies(RulesIn(file), e)
    THEN op' = Editing(e, [state |-> file.state, rules |-> RulesIn(file)]) /\ daemon' = d
    ELSE op' = Idle /\ UNCHANGED daemon

BeginEdit ==
    /\ op = Idle /\ used.edits < MaxEdits
    /\ \E e \in RuleEdits :
         /\ Admissible(e)
         /\ Prepare(e, IF e.what \in {"add", "update"}
                       THEN install_rule_module(daemon, e.rule) ELSE daemon)
    /\ used' = [used EXCEPT !.edits = @ + 1]
    /\ UNCHANGED <<file, config, store, seen, ask, kept>>

\* The byte comparison of edit_rule's second read with its first.
SameTextSkipped == TRUE

SameText == \/ file.state = "ok" /\ op.read = [state |-> "ok", rules |-> file.rules]
            \/ file.state = "missing" /\ op.read.rules = <<>>

\* An edit that is refused puts the cached module back as it was.
RolledBack ==
    IF op.edit.what = "add"
    THEN [daemon EXCEPT !.modules = Without(@, DOMAIN @ \ {op.edit.rule.id})]
    ELSE IF op.edit.what = "update" THEN install_rule_module(daemon, op.edit.expected)
    ELSE daemon

remove_stored_module(rule) ==
    store' = IF is_wasm(rule) THEN [store EXCEPT ![rule.body.path] = <<>>] ELSE store

\* A registration that fails takes its module out of the store again.
UnstoreAlways ==
    remove_stored_module(IF op.edit.what = "add" THEN op.edit.rule ELSE op.edit.expected)

Unstore ==
    IF op.edit.what = "add" /\ is_wasm(op.edit.rule)
    THEN remove_stored_module(op.edit.rule) ELSE UNCHANGED store

Compare ==
    /\ op.kind = "edit" /\ op.pc = "compare"
    /\ \/ /\ SameText
          /\ op' = [op EXCEPT !.pc = "replace", !.compared = MtimeOf(file)]
          /\ UNCHANGED <<daemon, store>>
       \/ ~SameText /\ op' = Idle /\ daemon' = RolledBack /\ Unstore
    /\ UNCHANGED <<file, config, seen, ask, kept, used>>

\* atomic::replace: the file is the edited text, whatever it held meanwhile.
Replace ==
    /\ op.kind = "edit" /\ op.pc = "replace"
    /\ file' = [state |-> "ok", rules |-> apply_rule_edit(op.read.rules, op.edit),
                mtime |-> Fresh]
    /\ op' = [op EXCEPT !.pc = "stat"]
    /\ used' = Tick
    /\ ask' = Witness(file')
    /\ kept' = IF op.edit.what = "delete" THEN kept \ {op.edit.expected.id} ELSE kept
    /\ UNCHANGED <<config, store, daemon, seen>>

\* reload_rules_after_edit.
AfterStat ==
    /\ op.kind = "edit" /\ op.pc = "stat"
    /\ op' = [op EXCEPT !.pc = "text", !.mtime = MtimeOf(file)]
    /\ UNCHANGED <<file, config, store, daemon, seen, ask, kept, used>>

AfterFails ==
    /\ op.kind = "edit" /\ op.pc = "text" /\ file.state = "broken"
    /\ op' = Idle
    /\ Unstore
    /\ UNCHANGED <<file, config, daemon, seen, ask, kept, used>>

ReloadThenStat ==
    [daemon EXCEPT !.rules = op.rules, !.modules = Modules(op.rules, store),
                   !.wasmRefused = WasmRefusals(op.rules, store), !.rulesAt = MtimeOf(file),
                   !.unchecked = @ \cup (ScopesOf(op.rules) \ ScopesOf(daemon.rules))]

\* The scopes are not validated again, so that they may be out of date.
reload_rules_after_edit ==
    [daemon EXCEPT !.rules = op.rules, !.modules = Modules(op.rules, store),
                   !.wasmRefused = WasmRefusals(op.rules, store), !.rulesAt = op.mtime,
                   !.unchecked = @ \cup (ScopesOf(op.rules) \ ScopesOf(daemon.rules))]

AfterDone ==
    /\ op.kind = "edit" /\ op.pc = "rest"
    /\ daemon' = reload_rules_after_edit
    /\ IF op.edit.what = "delete" THEN remove_stored_module(op.edit.expected)
       ELSE UNCHANGED store
    /\ kept' = IF op.edit.what = "add" /\ is_wasm(op.edit.rule)
               THEN kept \cup ({op.edit.rule.id} \ used.touched) ELSE kept
    /\ op' = Idle
    /\ UNCHANGED <<file, config, seen, ask, used>>

-----------------------------------------------------------------------------
(* Registration of a module: add_wasm_rule. *)

\* registration_grant on the client, then the daemon's own checks.
registration_grant(module, requested, all) ==
    IF all THEN {}
    ELSE IF requested = {} THEN declared_subjects(module)[1]
    ELSE IF declared_subjects(module) = <<>> THEN requested
    ELSE requested \cap declared_subjects(module)[1]

Registrable(module, requested, all) ==
    /\ from_binary(module)
    /\ declared_subjects(module) # <<{}>>
    /\ ~all /\ requested = {} => declared_subjects(module) # <<>>
    /\ all \/ registration_grant(module, requested, all) # {}

NewRule(module, trained, wraps) ==
    [id |-> NewId, enabled |-> TRUE, wraps |-> wraps, trained |-> trained,
     body |-> [kind |-> "wasm", path |-> NewId, sha |-> module,
               declared |-> declared_subjects(module)]]

add_wasm_rule ==
    /\ op = Idle /\ used.edits < MaxEdits /\ ~used.drawn
    /\ \E module \in NewModules, all \in BOOLEAN, requested \in Requests :
         /\ Registrable(module, requested, all)
         /\ LET rule == NewRule(module, registration_grant(module, requested, all), <<>>)
            IN  op' = [kind |-> "admit", pc |-> "admit", rule |-> rule]
         /\ store' = [store EXCEPT ![NewId] = <<module>>]
    /\ used' = [used EXCEPT !.edits = @ + 1, !.drawn = TRUE]
    /\ UNCHANGED <<file, config, daemon, seen, ask, kept>>

admit_rule ==
    /\ op.kind = "admit"
    /\ LET e == [what |-> "add", rule |-> op.rule]
       IN  IF ModuleLoads(op.rule, store) /\ file.state # "broken" /\ Applies(RulesIn(file), e)
           THEN /\ Prepare(e, install_rule_module(daemon, op.rule))
                /\ UNCHANGED store
           ELSE op' = Idle /\ UNCHANGED daemon /\ remove_stored_module(op.rule)
    /\ UNCHANGED <<file, config, seen, ask, kept, used>>

-----------------------------------------------------------------------------
(* The user's own hand, and crashes. *)

Save(f) ==
    /\ used.saves < MaxSaves
    /\ file' = [f EXCEPT !.mtime = Fresh]
    /\ ask' = Witness(file')
    /\ used' = [Tick EXCEPT !.saves = @ + 1]
    /\ UNCHANGED <<config, store, daemon, op, seen>>

HandEnable ==
    /\ file.state = "ok"
    /\ \E i \in DOMAIN file.rules :
         Save([file EXCEPT !.rules[i].enabled = ~@])
    /\ UNCHANGED kept

HandAdd ==
    /\ file.state = "ok"
    /\ \E r \in HandRules :
         /\ Find(file.rules, r.id) = {}
         /\ Save([file EXCEPT !.rules = Append(@, r)])
    /\ UNCHANGED kept

HandRemove ==
    /\ file.state = "ok"
    /\ \E i \in DOMAIN file.rules :
         /\ Save([file EXCEPT !.rules = RemoveAt(@, i)])
         /\ kept' = kept \ {file.rules[i].id}

HandBreak == file.state = "ok" /\ Save([file EXCEPT !.state = "broken"]) /\ UNCHANGED kept

HandRepair == file.state = "broken" /\ Save([file EXCEPT !.state = "ok"]) /\ UNCHANGED kept

HandUnlink ==
    /\ file.state = "ok" /\ Save([state |-> "missing", rules |-> <<>>, mtime |-> 0])
    /\ kept' = {}

SaveConfig ==
    /\ used.saves < MaxSaves
    /\ \E c \in {[ok |-> FALSE, wraps |-> Wraps], [ok |-> TRUE, wraps |-> {}]} :
         /\ c # [ok |-> config.ok, wraps |-> config.wraps]
         /\ config' = [ok |-> c.ok, wraps |-> c.wraps, mtime |-> Fresh]
    /\ used' = [Tick EXCEPT !.saves = @ + 1]
    /\ ask' = IF ask = NoAsk THEN ask ELSE [ask EXCEPT !.configs = @ \cup {config'}]
    /\ UNCHANGED <<file, store, daemon, op, seen, kept>>

\* A stored module is removed or overwritten behind the daemon's back.
Tamper ==
    /\ used.saves < MaxSaves
    /\ \E p \in Paths :
         /\ store[p] # <<>>
         /\ \E to \in {<<>>} \cup {<<m>> : m \in NewModules} :
              to # store[p] /\ store' = [store EXCEPT ![p] = to]
         /\ kept' = kept \ {p}
         /\ used' = [used EXCEPT !.saves = @ + 1, !.touched = @ \cup {p}]
    /\ UNCHANGED <<file, config, daemon, op, seen, ask>>

Crash ==
    /\ used.saves < MaxSaves
    /\ daemon' = with_rules_path_and_config(file, config, store)
    /\ op' = Idle /\ ask' = NoAsk /\ seen' = daemon'.rules
    /\ used' = [used EXCEPT !.saves = @ + 1]
    /\ UNCHANGED <<file, config, store, kept>>

-----------------------------------------------------------------------------
Next ==
    \/ AskReloads \/ MessageReloads \/ ReloadFails \/ LoadText \/ ReloadDone
    \/ ArriveAsk \/ Evaluate
    \/ Refresh \/ BeginEdit \/ Compare \/ Replace \/ AfterStat \/ AfterFails \/ AfterDone
    \/ add_wasm_rule \/ admit_rule
    \/ HandEnable \/ HandAdd \/ HandRemove \/ HandBreak \/ HandRepair \/ HandUnlink
    \/ SaveConfig \/ Tamper \/ Crash

Spec == Init /\ [][Next]_vars

-----------------------------------------------------------------------------
\* The rules of a version that are refused for their scope: those whose scope the
\* configuration c does not know, but for the rules that the daemon holds without
\* having validated their scope, which are refused if a rule with their id was.
RefusedIn(rules, c) ==
    {r.id : r \in {x \in ToSet(rules) :
        IF <<x.id, x.wraps>> \in daemon.unchecked THEN x.id \in daemon.scopeRefused
        ELSE x.id \in ScopeRefusals(<<x>>, c)}}

(***************************************************************************)
(* A decision the rules take is what one version of the file says under    *)
(* one version of the configuration: versions that were in force at some   *)
(* moment while the ask waited, with the modules the rules pin and the     *)
(* scopes that configuration refuses, read as a set of rules               *)
(* (RuleEngine!Meaning) and not in the order of the file.  No reload, edit *)
(* or save in flight yields a verdict that no version would give, and a    *)
(* scoped agent's ask is never decided by a rule                           *)
(* (State::evaluate_rules_for_ask).                                        *)
(*                                                                         *)
(* With one exception, daemon.unchecked: the scope of a rule that an       *)
(* edit's own reload brought in (reload_rules_after_edit), or that a       *)
(* failed reload kept under a new configuration, is not validated before   *)
(* the next whole reload, so that such a deny may silently be no opinion,  *)
(* which the doc of load_rules says it cannot be.                          *)
(***************************************************************************)
DecidedAsWritten ==
    op = Idle /\ ask.pc = "reloaded" =>
        LET hit == evaluate_rules_for_ask(ask.ctx) IN
        IF ask.ctx.kind = "scoped" THEN hit = <<>>
        ELSE \E rules \in ask.since, c \in ask.configs :
               /\ hit = Meaning(rules, daemon.modules, RefusedIn(rules, c), ask.ctx)
               /\ \A r \in ToSet(rules) :
                    is_wasm(r) /\ r.id \in DOMAIN daemon.modules
                        => daemon.modules[r.id] = r.body.sha

\* The rules with another id, each with the number of such rules before it.
Others(rules, id) ==
    {<<Cardinality({j \in 1..(i - 1) : rules[j].id # id}), rules[i]>> :
        i \in {k \in DOMAIN rules : rules[k].id # id}}

(***************************************************************************)
(* An edit through the daemon rewrites the file but changes one rule of    *)
(* it: when it replaces the file that its last comparison saw, every other *)
(* rule stays as it is, in its place, and the rule it edits was still the  *)
(* one the client had been shown (rules::edit_rule).                       *)
(***************************************************************************)
HandEditsSurvive ==
    [][ op.kind = "edit" /\ op.pc = "replace" /\ file'.mtime # file.mtime
        /\ op.compared = MtimeOf(file) /\ used'.saves = used.saves =>
            LET id == Target(op.edit) IN
            /\ Others(file'.rules, id) = Others(RulesIn(file), id)
            /\ op.edit.what # "add" => op.edit.expected \in ToSet(RulesIn(file)) ]_vars

(***************************************************************************)
(* A rule whose registration was acknowledged keeps its module: as long as *)
(* the rule is in the file and nobody touched the store, the module it     *)
(* pins is there, through failed deletes, crashes and concurrent saves     *)
(* (State::add_wasm_rule, delete_rule_if_unchanged, remove_stored_module). *)
(***************************************************************************)
RuleHasModule ==
    file.state = "ok" =>
        \A r \in ToSet(file.rules) :
            is_wasm(r) /\ r.id \in kept => store[r.body.path] = <<r.body.sha>>
=============================================================================
