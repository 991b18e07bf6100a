----------------------------- MODULE RuleEngine -----------------------------
(***************************************************************************)
(* The automatic rules of rules.rs as operators: patterns, match clauses,  *)
(* the pass over the rules of the file that yields a hit, a mandated       *)
(* prompt or nothing, and what loading refuses.                            *)
(*                                                                         *)
(* A text (an argv, a path, a process name) is the sequence of the pieces  *)
(* a pattern can cut it at: words, " " and "/".  In a pattern, "*" is a    *)
(* wildcard and "[" the unclosed bracket that makes it no glob.  A rule id *)
(* is a natural number, ordered as the ids are.  An option is <<>> or      *)
(* <<x>>.  A module is the record of what it declares and answers, so two  *)
(* modules have one hash exactly when they are equal.                      *)
(***************************************************************************)
EXTENDS Naturals, SequencesExt

CONSTANTS
    Answer(_, _)    \* Answer(module, ctx): what the code of a module does

Space == " "
Slash == "/"
Star  == "*"
Bracket == "["

Approve == "approve"
Deny    == "deny"

-----------------------------------------------------------------------------
(* Patterns. *)

Holds(text, piece) == piece \in ToSet(text)

parse(raw) ==
    [raw |-> raw,
     kind |-> IF Holds(raw, Bracket) THEN "invalid"
              ELSE IF Holds(raw, Star) THEN "glob" ELSE "literal"]

\* glob::Pattern::matches, for patterns whose only wildcard is the star.
GlobMatches(p, s) ==
    LET m[i \in 0..Len(p), j \in 0..Len(s)] ==
            IF i = 0 THEN j = 0
            ELSE IF p[i] = Star
                 THEN m[i - 1, j] \/ (j > 0 /\ m[i, j - 1])
                 ELSE j > 0 /\ p[i] = s[j] /\ m[i - 1, j - 1]
    IN  m[Len(p), Len(s)]

matches_prefix(raw, s) ==
    CASE parse(raw).kind = "literal" -> IsPrefix(raw, s)
      [] parse(raw).kind = "glob"    -> GlobMatches(raw, s)
      [] OTHER                       -> FALSE

matches_path_prefix(raw, s) ==
    LET want == IF raw # <<>> /\ Last(raw) = Slash THEN Front(raw) ELSE raw
        rest == SubSeq(s, Len(want) + 1, Len(s))
    IN  CASE parse(raw).kind = "glob"    -> GlobMatches(raw, s)
          [] parse(raw).kind = "invalid" -> FALSE
          [] OTHER -> \/ want = <<>>
                      \/ IsPrefix(want, s) /\ (rest = <<>> \/ rest[1] = Slash)

Occurs(s, raw) ==
    \E i \in 0..(Len(s) - Len(raw)) : SubSeq(s, i + 1, i + Len(raw)) = raw

matches_substring(raw, s) ==
    CASE parse(raw).kind = "literal" -> Len(raw) <= Len(s) /\ Occurs(s, raw)
      [] parse(raw).kind = "glob"    -> GlobMatches(raw, s)
      [] OTHER                       -> FALSE

matches_ancestor(raw, caller) ==
    IF caller.exe # <<>>
    THEN matches_substring(raw, caller.exe[1])
    ELSE matches_substring(raw, caller.name) \/ matches_substring(raw, caller.command)

-----------------------------------------------------------------------------
(* Rules and the asks they are matched against. *)

is_wasm(rule) == rule.body.kind = "wasm"

decision(rule) == rule.body.decide

\* Raises a mandate or approves nothing: one clause at least is no pattern.
IsInvalid(raw) == parse(raw).kind = "invalid"

clause_outcome(m, ctx) ==
    LET says(opt, Test(_)) ==
            IF opt = <<>> THEN "match"
            ELSE IF IsInvalid(opt[1]) THEN "unconsultable"
            ELSE IF Test(opt[1]) THEN "match" ELSE "nomatch"
        argv(raw) == matches_prefix(raw, ctx.argv)
        ancestor(raw) == \E i \in DOMAIN ctx.callers : matches_ancestor(raw, ctx.callers[i])
        cwd(raw) == matches_path_prefix(raw, ctx.cwd)
        clauses == {says(m.argv, argv), says(m.ancestor, ancestor), says(m.cwd, cwd)}
    IN  IF m.wrap # ctx.wrap \/ "nomatch" \in clauses THEN "nomatch"
        ELSE IF "unconsultable" \in clauses THEN "unconsultable"
        ELSE "match"

\* A wasm decision outranks any number of clauses (u32::MAX in the code).
WASM_DECISION_SPECIFICITY == 4

specificity(m) == Len(m.argv) + Len(m.ancestor) + Len(m.cwd)

SpecificityOf(rule) ==
    IF is_wasm(rule) THEN WASM_DECISION_SPECIFICITY ELSE specificity(rule.body)

beats(a, b) ==
    \/ SpecificityOf(a) > SpecificityOf(b)
    \/ SpecificityOf(a) = SpecificityOf(b) /\ a.id < b.id

wrap_in_scope(rule, wrap) == rule.wraps = <<>> \/ wrap \in rule.wraps[1]

wasm_overlaps(rule, ctx) == rule.trained = {} \/ rule.trained \cap ctx.secrets # {}

declarative_approve_in_scope(rule, ctx) ==
    rule.trained = {} \/ (ctx.secrets # {} /\ ctx.secrets \subseteq rule.trained)

evaluation_subjects(subject, names) == IF names # {} THEN names ELSE {subject}

-----------------------------------------------------------------------------
(* evaluate_with_refusals: one pass over the rules in the order of the file. *)

record_deny(slot, rule) ==
    IF slot = <<>> \/ beats(rule, slot[1]) THEN <<rule>> ELSE slot

record_approval(approvers, secrets, rule) ==
    [s \in DOMAIN approvers |->
        IF s \in secrets /\ (approvers[s] = <<>> \/ beats(rule, approvers[s][1]))
        THEN <<rule>> ELSE approvers[s]]

Mandate(acc, rule) ==
    IF acc.mandate = <<>> THEN [acc EXCEPT !.mandate = <<rule.id>>] ELSE acc

DenyBy(acc, rule) == [acc EXCEPT !.deny = record_deny(@, rule)]

ApproveBy(acc, rule, secrets) ==
    [acc EXCEPT !.approvers = record_approval(@, secrets, rule)]

\* A rule whose consultation scope was refused at load.
ConsultRefused(acc, rule, ctx) ==
    IF IF is_wasm(rule) THEN wasm_overlaps(rule, ctx)
       ELSE clause_outcome(rule.body, ctx) # "nomatch" /\ decision(rule) = Deny
    THEN Mandate(acc, rule) ELSE acc

\* RuleModule::evaluate: a trap, an exhausted budget and an answer that is none
\* of the four are all one error.
module_decision(module, ctx) ==
    LET says == Answer(module, ctx)
    IN  IF says \in {Approve, Deny, "prompt", "pass"} THEN says ELSE "error"

Blessed(rule, ctx) ==
    IF rule.trained = {} THEN ctx.secrets ELSE rule.trained \cap ctx.secrets

ConsultModule(acc, rule, modules, ctx) ==
    IF ~wasm_overlaps(rule, ctx) THEN acc
    ELSE IF rule.id \notin DOMAIN modules THEN Mandate(acc, rule)
    ELSE LET says == module_decision(modules[rule.id], ctx)
         IN  CASE says = Approve  -> ApproveBy(acc, rule, Blessed(rule, ctx))
               [] says = Deny     -> DenyBy(acc, rule)
               [] says = "prompt" -> Mandate(acc, rule)
               [] says = "error"  -> Mandate([acc EXCEPT !.failures = @ \cup {rule.id}], rule)
               [] OTHER           -> acc

ConsultClauses(acc, rule, ctx) ==
    LET outcome == clause_outcome(rule.body, ctx)
    IN  CASE outcome = "unconsultable" /\ decision(rule) = Deny -> Mandate(acc, rule)
          [] outcome = "match" /\ decision(rule) = Deny -> DenyBy(acc, rule)
          [] outcome = "match" /\ decision(rule) = Approve
                /\ declarative_approve_in_scope(rule, ctx) -> ApproveBy(acc, rule, ctx.secrets)
          [] OTHER -> acc

Consult(acc, rule, modules, refused, ctx) ==
    CASE ~rule.enabled -> acc
      [] rule.enabled /\ rule.id \in refused -> ConsultRefused(acc, rule, ctx)
      [] rule.enabled /\ rule.id \notin refused /\ wrap_in_scope(rule, ctx.wrap) ->
            IF is_wasm(rule) THEN ConsultModule(acc, rule, modules, ctx)
            ELSE ConsultClauses(acc, rule, ctx)
      [] OTHER -> acc

Hit(rule, decide, approvals) ==
    [id |-> rule.id, decide |-> decide, approvals |-> approvals]

approve_hit(ctx, approvers) ==
    IF ctx.secrets = {} \/ \E s \in ctx.secrets : approvers[s] = <<>> THEN <<>>
    ELSE LET by == {approvers[s][1] : s \in ctx.secrets}
             winner == CHOOSE r \in by : \A o \in by : o = r \/ beats(r, o)
         IN  <<Hit(winner, Approve, [s \in ctx.secrets |-> approvers[s][1].id])>>

NoApprovals == [s \in {} |-> 0]

\* Any denial wins, then a mandated prompt, then approval of every subject.
Settle(end, ctx) ==
    LET hit == IF end.deny # <<>> THEN <<Hit(end.deny[1], Deny, NoApprovals)>>
               ELSE IF end.mandate # <<>> THEN <<>>
               ELSE approve_hit(ctx, end.approvers)
    IN  [hit |-> hit, mandate |-> IF hit # <<>> THEN <<>> ELSE end.mandate,
         failures |-> end.failures]

\* Who has said what after the first n rules of the file.
Heard(rules, modules, refused, ctx) ==
    LET heard[n \in 0..Len(rules)] ==
            IF n = 0
            THEN [deny |-> <<>>, approvers |-> [s \in ctx.secrets |-> <<>>],
                  mandate |-> <<>>, failures |-> {}]
            ELSE Consult(heard[n - 1], rules[n], modules, refused, ctx)
    IN  heard

evaluate_with_refusals(rules, modules, refused, ctx) ==
    Settle(Heard(rules, modules, refused, ctx)[Len(rules)], ctx)

evaluate(rules, modules, ctx) == evaluate_with_refusals(rules, modules, {}, ctx)

-----------------------------------------------------------------------------
(* What loading the file refuses. *)

NoModules == [i \in {} |-> 0]

\* RuleModule::from_binary: it compiles, exports what the ABI asks for and can be
\* instantiated within the limits.
from_binary(module) == module.sound

\* The subjects a module exports, <<>> if it has no such export.
declared_subjects(module) == module.declares

\* load_rule_module: the stored bytes must be the ones that were pinned, and
\* declare what was recorded.  store[path] is the module at path, <<>> if none.
ModuleLoads(rule, store) ==
    /\ store[rule.body.path] = <<rule.body.sha>>
    /\ from_binary(rule.body.sha)
    /\ rule.body.declared # <<>> => declared_subjects(rule.body.sha) = rule.body.declared

Modules(rules, store) ==
    LET loaded == {r \in ToSet(rules) : is_wasm(r) /\ ModuleLoads(r, store)}
    IN  [i \in {r.id : r \in loaded} |-> (CHOOSE r \in loaded : r.id = i).body.sha]

WasmRefusals(rules, store) ==
    {r.id : r \in {x \in ToSet(rules) : is_wasm(x) /\ ~ModuleLoads(x, store)}}

wrap_scope_refusals(rules, known) ==
    {r.id : r \in {x \in ToSet(rules) :
        x.wraps # <<>> /\ (x.wraps[1] = {} \/ ~(x.wraps[1] \subseteq known))}}

\* wrap_scope_refusals_for_path: no scope can be validated against a config
\* that does not parse.
ScopeRefusals(rules, config) ==
    IF config.ok THEN wrap_scope_refusals(rules, config.wraps)
    ELSE {r.id : r \in {x \in ToSet(rules) : x.wraps # <<>>}}

\* refuse_broken_patterns: what add and update refuse to write.
pattern_refusals(rules) ==
    {r.id : r \in {x \in ToSet(rules) :
        ~is_wasm(x) /\ \E opt \in {x.body.argv, x.body.ancestor, x.body.cwd} :
                            opt # <<>> /\ IsInvalid(opt[1])}}

-----------------------------------------------------------------------------
(***************************************************************************)
(* What the rules of a file mean, said without an order and without a      *)
(* pass: each enabled rule has one opinion of an ask; any denial decides,  *)
(* then any rule that could not be heard sends the ask to the human, then  *)
(* the ask is approved when every subject has a rule that blesses it.  The *)
(* rule named is the most specific one, then the one with the least id.    *)
(***************************************************************************)
Opinion(rule, modules, refused, ctx) ==
    LET heard == rule.enabled /\ rule.id \notin refused /\ wrap_in_scope(rule, ctx.wrap)
        asked == is_wasm(rule) /\ wasm_overlaps(rule, ctx)
        clause == clause_outcome(rule.body, ctx)
    IN  IF ~rule.enabled THEN "none"
        ELSE IF rule.id \in refused
             THEN IF (is_wasm(rule) /\ asked)
                     \/ (~is_wasm(rule) /\ decision(rule) = Deny /\ clause # "nomatch")
                  THEN "unheard" ELSE "none"
        ELSE IF ~heard THEN "none"
        ELSE IF is_wasm(rule)
             THEN IF ~asked THEN "none"
                  ELSE IF rule.id \notin DOMAIN modules THEN "unheard"
                  ELSE LET says == module_decision(modules[rule.id], ctx)
                       IN IF says \in {"prompt", "error"} THEN "unheard" ELSE says
        ELSE IF clause = "match" THEN decision(rule)
        ELSE IF clause = "unconsultable" /\ decision(rule) = Deny THEN "unheard"
        ELSE "none"

Blesses(rule, ctx, s) ==
    rule.trained = {} \/ (IF is_wasm(rule) THEN s \in rule.trained
                          ELSE ctx.secrets \subseteq rule.trained)

Best(candidates) == CHOOSE r \in candidates : \A o \in candidates : o = r \/ beats(r, o)

Meaning(rules, modules, refused, ctx) ==
    LET those(op) == {r \in ToSet(rules) : Opinion(r, modules, refused, ctx) = op}
        blessing(s) == {r \in those(Approve) : Blesses(r, ctx, s)}
    IN  IF those(Deny) # {} THEN <<Hit(Best(those(Deny)), Deny, NoApprovals)>>
        ELSE IF those("unheard") # {} \/ ctx.secrets = {}
                \/ \E s \in ctx.secrets : blessing(s) = {} THEN <<>>
        ELSE LET by == [s \in ctx.secrets |-> Best(blessing(s))]
             IN  <<Hit(Best({by[s] : s \in ctx.secrets}), Approve,
                       [s \in ctx.secrets |-> by[s].id])>>
=============================================================================
