---------------------------- MODULE RuleLearning ----------------------------
(***************************************************************************)
(* What the audit log is used for: clients append a row for each decision, *)
(* the manager window reads them back, groups and searches them, suggests  *)
(* rules from the ones a human took and turns rows, suggestions and rules  *)
(* into drafts and drafts into rules, and `rules stats' replays them       *)
(* through the evaluator (audit.rs, recommendations.rs, rule_stats.rs,     *)
(* daemon/ui.rs, daemon/manager_ui.rs).                                    *)
(*                                                                         *)
(* The log is the sequence of what was written to the file: rows, records  *)
(* of the processes a command left behind, and the newlines that end them, *)
(* which are writes of their own.  Which scopes stand refused when an ask  *)
(* is decided is RuleStore's; here any rules that have one may be.         *)
(***************************************************************************)
EXTENDS RuleEngine, FiniteSets

CONSTANTS
    LoggedAsks,        \* [wrap, argv, callers, cwd, secrets, claim, answers]
    StartRules,        \* the rules the user starts from
    FirstLogs,         \* what they have logged so far
    LoadedModules,     \* the modules of the ones that are wasm
    BrokenGlob,        \* a pattern that is no glob
    MIN_CLUSTER_SIZE,
    Window,            \* SUGGESTION_WINDOW_SECS and AUDIT_WINDOW_SECS
    Days,              \* the days on which anything happens
    HistoryLimit,      \* AUDIT_HISTORY_LIMIT
    MaxRows, MaxChanges, \* bounds on further records and on the changes of rules
    MaxWriters         \* bound on the writers in the middle of a record

VARIABLES
    log,       \* the audit log
    unended,   \* writers that have written their record and not its newline
    cache,     \* the window's AuditCache: [rows, mtime, reading]
    ruleset,   \* the rules of the file, which the window mirrors
    draft,     \* the rule form: <<>> when closed
    dismissed, \* keys of the suggestions dismissed in this session
    now,
    ghost      \* the version of the rules, the ids drawn so far and the ids of
               \* the rules accepted from a suggestion, and the records written

learningVars == <<log, unended, cache, ruleset, draft, dismissed, now, ghost>>

\* The elements of a sequence that are to be kept, in their order.
Only(s, keep) ==
    LET only[n \in 0..Len(s)] ==
            IF n = 0 THEN <<>>
            ELSE IF s[n] \in keep THEN Append(only[n - 1], s[n]) ELSE only[n - 1]
    IN  only[Len(s)]

Newline == [kind |-> "newline"]
Survivors == [kind |-> "survivors"]
IsRow(item) == item.kind = "row"
Rows(items) == Only(items, {x \in ToSet(items) : IsRow(x)})

\* The line being written has a record that is no row.
Spoilt(items) == \E i \in DOMAIN items : items[i] = Survivors
                    /\ \A j \in (i + 1)..Len(items) : items[j] # Newline

ClosedForm == <<>>

-----------------------------------------------------------------------------
(* The log and the window's copy of it. *)

FirstOfEachLine(items) ==
    LET starts == SelectSeq([i \in DOMAIN items |-> i],
                            LAMBDA i : IsRow(items[i]) /\ (i = 1 \/ items[i - 1] = Newline))
    IN  [k \in DOMAIN starts |-> items[starts[k]]]

\* One JSON value per row, however many share a line, up to a record that is no
\* row, which costs the reader the rest of the line.
visit_history(items) == Only(items, {x \in ToSet(items) : IsRow(x) /\ ~x.behind})

read_history(items, limit) ==
    LET all == visit_history(items)
    IN  SubSeq(all, IF Len(all) > limit THEN Len(all) - limit + 1 ELSE 1, Len(all))

\* Every write to the file moves its modification time.
audit_log_mtime == Len(log)

RefreshStat ==
    /\ cache.reading = <<>> /\ audit_log_mtime # cache.mtime
    /\ cache' = [cache EXCEPT !.reading = <<audit_log_mtime>>]
    /\ UNCHANGED <<log, unended, ruleset, draft, dismissed, now, ghost>>

RefreshRead ==
    /\ cache.reading # <<>>
    /\ cache' = [rows |-> read_history(log, HistoryLimit), mtime |-> cache.reading[1],
                 reading |-> <<>>]
    /\ UNCHANGED <<log, unended, ruleset, draft, dismissed, now, ghost>>

-----------------------------------------------------------------------------
(* Rows. *)

IsAgent(wrap) == wrap = "agent"
rules_were_evaluated(row) == row.wrap # "store" /\ ~IsAgent(row.wrap)

\* What was refused, and whether the row stands behind a record that is no row.
Row(ask, decided, rule, approvers, refused) ==
    [kind |-> "row", refused |-> refused, behind |-> Spoilt(log), ts |-> now, wrap |-> ask.wrap, argv |-> ask.argv, callers |-> ask.callers,
     cwd |-> ask.cwd, secrets |-> ask.secrets, claim |-> ask.claim,
     decision |-> decided, rule |-> rule, approvers |-> approvers, version |-> ghost.version]

append_record(record) ==
    /\ ghost.rows < MaxRows /\ unended < MaxWriters
    /\ log' = Append(log, record)
    /\ unended' = unended + 1
    /\ ghost' = [ghost EXCEPT !.rows = @ + 1]
    /\ UNCHANGED <<cache, ruleset, draft, dismissed, now>>

\* What a command left running goes to the same file.
append_survivors == append_record(Survivors)

EndLine ==
    /\ unended > 0
    /\ log' = Append(log, Newline) /\ unended' = unended - 1
    /\ UNCHANGED <<cache, ruleset, draft, dismissed, now, ghost>>

\* A writer is killed between its two writes.
WriterDies ==
    /\ unended > 0 /\ unended' = unended - 1
    /\ UNCHANGED <<log, cache, ruleset, draft, dismissed, now, ghost>>

EvalCtx(row) ==
    [wrap |-> row.wrap, argv |-> row.argv, callers |-> row.callers, cwd |-> row.cwd,
     secrets |-> evaluation_subjects(row.wrap, row.secrets)]

Verdict(ask, refused) == evaluate_with_refusals(ruleset, LoadedModules, refused, EvalCtx(ask))

\* A rule that is disabled is not consulted, refused or not.
ScopedRules == {r.id : r \in {x \in ToSet(ruleset) : x.enabled /\ x.wraps # <<>>}}

\* A wrapped command or a signature asks; a rule or the human decides.
AskDecided ==
    \E ask \in LoggedAsks : \E refused \in SUBSET ScopedRules :
        /\ ~IsAgent(ask.wrap)
        /\ LET hit == Verdict(ask, refused).hit
           IN  IF hit # <<>>
               THEN append_record(Row(ask,
                        IF hit[1].decide = Deny THEN "deny+auto" ELSE "approve+auto",
                        <<hit[1].id>>, hit[1].approvals, refused))
               ELSE \E choice \in ask.answers :
                        append_record(Row(ask, choice, <<>>, NoApprovals, refused))

\* A scoped agent's row: no callers, no directory, and no rule is asked.
agent_resolve ==
    \E ask \in LoggedAsks : \E decided \in ask.answers :
        IsAgent(ask.wrap) /\ append_record(Row(ask, decided, <<>>, NoApprovals, {}))

-----------------------------------------------------------------------------
(* The history a prompt shows. *)

Cutoff == IF now > Window THEN now - Window ELSE 0

matches(caller, entry) ==
    /\ entry # <<>>
    /\ IF caller.exe # <<>> /\ entry[1].exe # <<>>
       THEN entry[1].exe = caller.exe ELSE entry[1].name = caller.name

\* A click, a click to be remembered, and what was remembered.
HumanApprovals == {"approve", "approve+remember", "approve+cached"}

summarize_history(rows, wrap, caller) ==
    LET mine == Only(rows, {r \in ToSet(rows) : r.wrap = wrap /\ matches(caller, r.callers)})
        recent == Only(mine, {r \in ToSet(mine) : r.ts >= Cutoff})
        count(ds) == Len(Only(recent, {r \in ToSet(recent) : r.decision \in ds}))
        newest == Only(mine, {r \in ToSet(mine) : \A i \in DOMAIN mine : mine[i].ts <= r.ts})
    IN  [last |-> IF newest = <<>> THEN <<>> ELSE <<Last(newest).decision>>,
         approved |-> count(HumanApprovals), denied |-> count({"deny", "deny+out-of-scope"}),
         total |-> Len(recent)]

-----------------------------------------------------------------------------
(* The audit page: search, and runs of identical rows shown as one. *)

audit_row_identity(row) ==
    [wrap |-> row.wrap, decision |-> row.decision, cwd |-> row.cwd, rule |-> row.rule,
     argv |-> row.argv, secrets |-> row.secrets, claim |-> row.claim,
     callers |-> row.callers]

audit_entry_matches(row, term) ==
    \/ term \in {row.wrap, row.decision} \cup row.secrets
    \/ \E text \in {row.argv, row.claim}
               \cup UNION {{row.callers[i].name, row.callers[i].command} : i \in DOMAIN row.callers} :
            Holds(text, term)

group_audit_bursts(rows) ==
    LET joins(b, r) == /\ audit_row_identity(b[1]) = audit_row_identity(r)
                       /\ b[1].ts = r.ts      \* one day, one header
        step(bursts, r) ==
            IF bursts # <<>> /\ joins(Last(bursts), r)
            THEN [bursts EXCEPT ![Len(bursts)] = Append(@, r)]
            ELSE Append(bursts, <<r>>)
    IN  FoldLeft(step, <<>>, rows)

render_audit_page(rows, terms) ==
    group_audit_bursts(SelectSeq(Reverse(rows),
                                 LAMBDA r : \A t \in terms : audit_entry_matches(r, t)))

-----------------------------------------------------------------------------
(* Suggestions. *)

Split(text, sep) ==
    FoldLeft(LAMBDA acc, x : IF x = sep THEN Append(acc, <<>>)
                             ELSE [acc EXCEPT ![Len(acc)] = Append(@, x)],
             <<<<>>>>, text)

Joined(parts, sep) ==
    IF parts = <<>> THEN <<>>
    ELSE FoldLeft(LAMBDA acc, p : acc \o <<sep>> \o p, Head(parts), Tail(parts))

\* The side of a suggestion that an audit row counts for, <<>> for none.
SideOfAnyRow(decided) == IF decided = "deny" THEN <<Deny>> ELSE <<Approve>>

from_audit(decided) ==
    CASE decided \in HumanApprovals -> <<Approve>>
      [] decided = "deny" -> <<Deny>>
      [] OTHER -> <<>>

CommonSegments(x, y) ==
    LET agree == {n \in 0..Len(x) : n <= Len(y) /\ SubSeq(x, 1, n) = SubSeq(y, 1, n)}
    IN  SubSeq(x, 1, CHOOSE n \in agree : \A m \in agree : m <= n)

common_path_prefix(a, b) == Joined(CommonSegments(Split(a, Slash), Split(b, Slash)), Slash)

\* Tokens cut at their slashes, when they have as many segments: a segment that
\* varies becomes a star.
MergedSegments(cut) ==
    LET any == CHOOSE c \in cut : TRUE
    IN  [i \in DOMAIN any |-> IF \A c \in cut : c[i] = any[i] THEN any[i] ELSE <<Star>>]

Comparable(cut) == \E n \in 2..Len(CHOOSE c \in cut : TRUE) : \A c \in cut : Len(c) = n

TokenOf(segments) ==
    IF \A i \in DOMAIN segments : segments[i] = <<Star>> THEN <<Star>>
    ELSE Joined(segments, Slash)

MergedCut(cut) == IF Comparable(cut) THEN TokenOf(MergedSegments(cut)) ELSE <<Star>>

merge_token_column(column) ==
    IF Cardinality(column) = 1 THEN CHOOSE t \in column : TRUE
    ELSE MergedCut({Split(t, Slash) : t \in column})

\* The columns up to and with the first that varies; nothing varies: a star
\* when the samples differ in length.
UpToVarying(columns, ragged) ==
    LET varying == {i \in DOMAIN columns : Holds(columns[i], Star)}
        first == CHOOSE i \in varying : \A j \in varying : i <= j
        tail(t) == IF Last(t) = Star THEN t ELSE Append(t, Star)
    IN  IF varying # {}
        THEN [i \in 1..first |-> IF i = first THEN tail(columns[i]) ELSE columns[i]]
        ELSE IF ragged /\ columns # <<>> THEN Append(columns, <<Star>>) ELSE columns

MergedTokens(tokens) ==
    LET lens == {Len(t) : t \in tokens}
        shortest == CHOOSE n \in lens : \A m \in lens : n <= m
    IN  UpToVarying([i \in 1..shortest |-> merge_token_column({t[i] : t \in tokens})],
                    Cardinality(lens) > 1)

Optional(text) == IF text = <<>> THEN <<>> ELSE <<text>>

merge_argv_samples(samples) ==
    IF samples = {} THEN <<>>
    ELSE Optional(Joined(MergedTokens({SelectSeq(Split(s, Space), LAMBDA t : t # <<>>) :
                                         s \in samples}), Space))

Clusters(row) ==
    /\ row.ts >= Cutoff /\ from_audit(row.decision) # <<>>
    /\ row.callers # <<>> /\ row.callers[1].name # <<>>

ClusterKey(row) == <<from_audit(row.decision)[1], row.wrap, row.callers[1].name>>

\* A prefix that is the root, or nothing, binds nothing.
Below(cwd) == IF cwd = <<Slash>> THEN <<>> ELSE Optional(cwd)

CommonCwd(cluster) ==
    FoldLeft(LAMBDA acc, r : common_path_prefix(acc, r.cwd), cluster[1].cwd, cluster)

into_suggestion(key, cluster) ==
    [key |-> key, decide |-> key[1], wrap |-> key[2], ancestor |-> key[3],
     argv |-> merge_argv_samples({r.argv : r \in ToSet(cluster)} \ {<<>>}),
     cwd |-> Below(CommonCwd(cluster)),
     trained |-> UNION {r.secrets : r \in ToSet(cluster)},
     count |-> Len(cluster)]

redundant_with_existing_rules(s) ==
    LET caller == [name |-> s.ancestor, command |-> s.ancestor, exe |-> <<>>]
        ctx == [wrap |-> s.wrap, argv |-> IF s.argv = <<>> THEN <<s.wrap>> ELSE s.argv[1],
                callers |-> <<caller>>, cwd |-> IF s.cwd = <<>> THEN <<Slash>> ELSE s.cwd[1],
                secrets |-> s.trained]
        decides(hit) == hit # <<>> /\ hit[1].decide = s.decide
    IN  decides(evaluate(ruleset, NoModules, ctx).hit)

suggest(rows) ==
    LET recent == Only(rows, {r \in ToSet(rows) : Clusters(r)})
        cluster(k) == Only(recent, {r \in ToSet(recent) : ClusterKey(r) = k})
        keys == {k \in {ClusterKey(r) : r \in ToSet(recent)} : Len(cluster(k)) >= MIN_CLUSTER_SIZE}
    IN  {s \in {into_suggestion(k, cluster(k)) : k \in keys} : ~redundant_with_existing_rules(s)}

-----------------------------------------------------------------------------
(* The form. *)

\* A pattern field holds <<>> when it is blank.
Draft(src, decide, wrap, argv, ancestor, cwd, trained) ==
    [src |-> src, original |-> <<>>, enabled |-> TRUE, decide |-> decide, wrap |-> wrap,
     argv |-> argv, ancestor |-> ancestor, cwd |-> cwd, wraps |-> <<>>, trained |-> trained,
     attempted |-> FALSE]

Text(opt) == IF opt = <<>> THEN <<>> ELSE opt[1]

fresh == Draft("fresh", Approve, "", <<>>, <<>>, <<>>, {})

from_audit_entry(row) ==
    Draft("row", IF row.decision \in {"deny", "deny+auto", "deny+out-of-scope"} THEN Deny ELSE Approve,
          row.wrap, row.argv, IF row.callers = <<>> THEN <<>> ELSE row.callers[1].name,
          row.cwd, row.secrets)

from_suggestion(s) ==
    Draft("suggestion", s.decide, s.wrap, Text(s.argv), s.ancestor, Text(s.cwd), s.trained)

from_rule(r) ==
    [Draft("rule", decision(r), r.body.wrap, Text(r.body.argv), Text(r.body.ancestor),
           Text(r.body.cwd), r.trained)
        EXCEPT !.original = <<r>>, !.enabled = r.enabled, !.wraps = r.wraps]

\* The field the caret is in is exempt until a save was refused.
problems(d, focus) ==
    {f \in {"wrap"} : d.wrap = "" \/ (d.wraps # <<>> /\ d.wrap \notin d.wraps[1])}
    \cup {f \in {"argv", "ancestor", "cwd"} :
            (d.attempted \/ f # focus) /\ d[f] # <<>> /\ IsInvalid(d[f])}

new_rule_id == 1 + Cardinality(ghost.ids)

into_rule(d) ==
    [id |-> IF d.original = <<>> THEN new_rule_id ELSE d.original[1].id,
     enabled |-> d.enabled, wraps |-> d.wraps, trained |-> d.trained, created |-> now,
     body |-> [kind |-> "decl", wrap |-> d.wrap, argv |-> Optional(d.argv),
               ancestor |-> Optional(d.ancestor), cwd |-> Optional(d.cwd), decide |-> d.decide]]

\* The window is one thread: a refresh is never in the middle of its clicks.
Frame == cache.reading = <<>>

Open(d) ==
    /\ Frame /\ draft = ClosedForm /\ ghost.version <= MaxChanges
    /\ draft' = <<d>>
    /\ UNCHANGED <<log, unended, cache, ruleset, dismissed, now, ghost>>

NewRuleClicked == Open(fresh)

\* The button of one row, and the one button of a run of identical rows.
CreateRuleFromAsk ==
    \E b \in ToSet(render_audit_page(cache.rows, {})) : Open(from_audit_entry(b[1]))

ReviewSuggestion ==
    \E s \in suggest(cache.rows) : s.key \notin dismissed /\ Open(from_suggestion(s))

EditRule == \E r \in ToSet(ruleset) : ~is_wasm(r) /\ Open(from_rule(r))

Dismiss ==
    /\ Frame /\ draft = ClosedForm
    /\ \E s \in suggest(cache.rows) : s.key \notin dismissed /\ dismissed' = dismissed \cup {s.key}
    /\ UNCHANGED <<log, unended, cache, ruleset, draft, now, ghost>>

\* The user types: a wrap where there is none, or a broken pattern.
Type ==
    /\ Frame /\ draft # ClosedForm
    /\ \E d \in {[draft[1] EXCEPT !.argv = BrokenGlob],
                 [draft[1] EXCEPT !.wrap = IF @ = "" THEN "gh" ELSE @]} :
         d # draft[1] /\ draft' = <<d>>
    /\ UNCHANGED <<log, unended, cache, ruleset, dismissed, now, ghost>>

\* A change of the rules, which the daemon writes and mirrors to the window.
Change(new, learned) ==
    /\ ghost.version <= MaxChanges
    /\ ruleset' = new
    /\ ghost' = [ghost EXCEPT !.version = @ + 1, !.learned = learned,
                              !.ids = @ \cup {r.id : r \in ToSet(new)}]
    /\ UNCHANGED <<log, unended, cache, dismissed, now>>

SaveDraft(focus) ==
    /\ Frame /\ draft # ClosedForm /\ problems(draft[1], focus) = {}
    /\ LET d == draft[1]
           new == into_rule(d)
           id == new.id
       IN  IF problems(d, "none") # {}
           THEN /\ draft' = <<[d EXCEPT !.attempted = TRUE]>>
                /\ UNCHANGED <<log, unended, cache, ruleset, dismissed, now, ghost>>
           ELSE /\ draft' = ClosedForm
                /\ IF d.original = <<>>
                   THEN Change(Append(ruleset, new),
                               ghost.learned \cup (IF d.src = "suggestion" THEN {id} ELSE {}))
                   ELSE IF d.original[1] \in ToSet(ruleset)
                   THEN Change([i \in DOMAIN ruleset |-> IF ruleset[i].id = id THEN new ELSE ruleset[i]],
                               ghost.learned)
                   ELSE UNCHANGED <<log, unended, cache, ruleset, dismissed, now, ghost>>

SaveClicked == \E focus \in {"none", "argv"} : SaveDraft(focus)

Cancel ==
    /\ Frame /\ draft # ClosedForm /\ draft' = ClosedForm
    /\ UNCHANGED <<log, unended, cache, ruleset, dismissed, now, ghost>>

SetEnabled ==
    /\ Frame /\ draft = ClosedForm
    /\ \E i \in DOMAIN ruleset : Change([ruleset EXCEPT ![i].enabled = ~@], ghost.learned)
    /\ UNCHANGED draft

DeleteRule ==
    /\ Frame /\ draft = ClosedForm
    /\ \E i \in DOMAIN ruleset :
         Change(Only(ruleset, {r \in ToSet(ruleset) : r.id # ruleset[i].id}), ghost.learned)
    /\ UNCHANGED draft

-----------------------------------------------------------------------------
(* secreq rules stats. *)

ReplayRawSubjects(row) == row.secrets

replay_subjects(row) == evaluation_subjects(row.wrap, row.secrets)

Simulate(row) ==
    LET e == evaluate(ruleset, LoadedModules,
                      [wrap |-> row.wrap, argv |-> row.argv, callers |-> row.callers,
                       cwd |-> row.cwd, secrets |-> replay_subjects(row)])
    IN  IF e.hit # <<>>
        THEN [decide |-> e.hit[1].decide, rule |-> <<e.hit[1].id>>,
              approvals |-> e.hit[1].approvals]
        ELSE [decide |-> "prompt", rule |-> e.mandate, approvals |-> NoApprovals]

verify_row(row) ==
    LET said == IF row.decision = "approve+auto" THEN Approve ELSE Deny
        by == {r \in ToSet(ruleset) : <<r.id>> = row.rule}
        rule == CHOOSE r \in by : TRUE
        sim == Simulate(row)
    IN  IF row.decision \notin {"approve+auto", "deny+auto"} THEN "unverified"
        ELSE IF row.rule = <<>> THEN "missing_rule_id"
        ELSE IF by = {} THEN "deleted_rule"
        ELSE IF row.ts < rule.created THEN "pre_creation"
        ELSE IF ~rule.enabled THEN "disabled_rule"
        ELSE IF sim.decide # said THEN "disagree"
        ELSE IF (row.approvers = NoApprovals /\ sim.rule # row.rule)
                \/ (row.approvers # NoApprovals /\ sim.approvals # row.approvers)
        THEN "attribution_changed" ELSE "agree"

Replayed(items) ==
    Only(visit_history(items), {r \in ToSet(visit_history(items)) : rules_were_evaluated(r)})

-----------------------------------------------------------------------------
DayPasses ==
    /\ \E day \in Days : day > now /\ now' = day
    /\ UNCHANGED <<log, unended, cache, ruleset, draft, dismissed, ghost>>

\* A rule as the file holds it.
IsStored(r) ==
    /\ r = [id |-> r.id, enabled |-> r.enabled, wraps |-> r.wraps, trained |-> r.trained,
            created |-> r.created, body |-> r.body]
    /\ r.id \in Nat /\ r.enabled \in BOOLEAN /\ r.created \in Nat
    /\ ~is_wasm(r) =>
          /\ decision(r) \in {Approve, Deny}
          /\ \A clause \in {r.body.argv, r.body.ancestor, r.body.cwd} :
                clause = <<>> \/ clause = <<clause[1]>>

\* A row as the rules decided it, when they have one that decides.
DecidedBy(rules, row) ==
    LET hit == evaluate_with_refusals(rules, LoadedModules, row.refused, EvalCtx(row)).hit
    IN  IF hit = <<>> THEN row.rule = <<>>
        ELSE /\ row.rule = <<hit[1].id>> /\ row.approvers = hit[1].approvals
             /\ row.decision = IF hit[1].decide = Deny THEN "deny+auto" ELSE "approve+auto"
             /\ \A r \in ToSet(rules) : r.id = hit[1].id => r.created <= row.ts

\* The rules of a file have ids of their own, drawn in the order 1, 2, ...  What
\* was logged so far was decided by these rules as they are (version 1) or were
\* (version 0) and no later than today; where no rule was asked, none approved.
ASSUME LearningAssumption ==
    /\ {Window, HistoryLimit} \subseteq Nat /\ MIN_CLUSTER_SIZE \in Nat \ {0} /\ Days \subseteq Nat
    /\ \A ask \in LoggedAsks : ask.wrap # ""
    /\ \A rules \in StartRules :
          /\ rules \in Seq(ToSet(rules)) /\ {r.id : r \in ToSet(rules)} = 1..Len(rules)
          /\ \A i, j \in DOMAIN rules : rules[i].id = rules[j].id => i = j
          /\ \A r \in ToSet(rules) : IsStored(r) /\ \A day \in Days : r.created <= day
    /\ \A first \in FirstLogs : first \in Seq(ToSet(first))
    /\ \A first \in FirstLogs : \A i \in DOMAIN first : IsRow(first[i]) =>
          first[i].behind = Spoilt(SubSeq(first, 1, i - 1))
    /\ \A first \in FirstLogs : \A row \in ToSet(first) : IsRow(row) =>
          /\ row.wrap # "" /\ row.version \in {0, 1}
          /\ row.ts \in Nat /\ \A day \in Days : row.ts <= day
          /\ \A rules \in StartRules :
                /\ \A s \in DOMAIN row.approvers : row.approvers[s] \in 1..Len(rules)
                /\ rules_were_evaluated(row) /\ row.version = 1 => DecidedBy(rules, row)

LearningInit ==
    /\ log \in FirstLogs /\ unended = 0
    /\ cache = [rows |-> <<>>, mtime |-> 0, reading |-> <<>>]
    /\ ruleset \in StartRules
    /\ draft = ClosedForm /\ dismissed = {}
    /\ now \in Days /\ \A day \in Days : now <= day
    /\ ghost = [version |-> 1, learned |-> {}, ids |-> {r.id : r \in ToSet(ruleset)}, rows |-> 0]

LearningNext ==
    \/ AskDecided \/ agent_resolve \/ append_survivors \/ EndLine \/ WriterDies \/ DayPasses
    \/ RefreshStat \/ RefreshRead
    \/ NewRuleClicked \/ CreateRuleFromAsk \/ ReviewSuggestion \/ EditRule \/ Dismiss
    \/ Type \/ SaveClicked \/ Cancel \/ SetEnabled \/ DeleteRule

LearningSpec == LearningInit /\ [][LearningNext]_learningVars

-----------------------------------------------------------------------------
(***************************************************************************)
(* A rule that was accepted from a suggestion releases nothing new: every  *)
(* secret it approves by itself was approved by the human before, for the  *)
(* same wrap, unless the human's approvals named no secret at all (then    *)
(* the suggestion trains on none, and the rule is unbounded).  Denials,    *)
(* abandoned asks, other wraps and other rules' approvals lend it nothing  *)
(* (recommendations::suggest, RuleDraft::from_suggestion).                 *)
(***************************************************************************)
LearnedApprovalsHavePrecedent ==
    LET rows == Rows(log) IN
    \A i \in DOMAIN rows : rows[i].decision = "approve+auto" =>
        \A s \in DOMAIN rows[i].approvers : rows[i].approvers[s] \in ghost.learned =>
            \E j \in 1..(i - 1) :
                /\ rows[j].decision \in {"approve", "approve+remember", "approve+cached"}
                /\ rows[j].wrap = rows[i].wrap
                /\ s \in rows[j].secrets \/ rows[j].secrets = {}

(***************************************************************************)
(* `rules stats --verify' cries wolf for no row: one that was decided      *)
(* under the rules as they still are replays to the same verdict with the  *)
(* same attribution, and one the human was asked about replays as a prompt *)
(* (rule_stats::replay_audit, verify_row).  Except a row decided while the *)
(* daemon had refused the scope of a rule: the replay refuses none, and    *)
(* may find a verdict where the human was asked (rule_stats.rs:297).       *)
(***************************************************************************)
ReplayAgrees ==
    \A row \in ToSet(Replayed(log)) : row.version = ghost.version /\ row.refused = {} =>
        IF row.rule # <<>> THEN verify_row(row) = "agree"
        ELSE Simulate(row).decide = "prompt"

(***************************************************************************)
(* When the log has not changed since the window last read it, the HISTORY *)
(* row counts exactly the decisions in the log that the human took for     *)
(* this wrap and this program: the same executable, or one of the same     *)
(* name where an executable is not known.  No row is missing because two   *)
(* writers shared a line or one died in the middle, but for one: a row     *)
(* that stands on a line behind the record of the processes a command left *)
(* behind is lost to every reader, and counts for nothing                  *)
(* (AuditCache::refresh_if_stale, audit::visit_history, summarize_history).*)
(***************************************************************************)
HistoryTellsTheTruth ==
    cache.reading = <<>> /\ cache.mtime = audit_log_mtime =>
        LET rows == Only(log, {x \in ToSet(log) : IsRow(x) /\ ~x.behind})
            seen == {i \in DOMAIN rows : i > Len(rows) - HistoryLimit}
            same(a, b) == IF a.exe = <<>> \/ b.exe = <<>> THEN a.name = b.name
                          ELSE a.exe = b.exe
            approvals(ask) ==
                {i \in seen : /\ rows[i].wrap = ask.wrap /\ now <= rows[i].ts + Window
                              /\ rows[i].decision \in {"approve", "approve+remember", "approve+cached"}
                              /\ rows[i].callers # <<>>
                              /\ same(rows[i].callers[1], ask.callers[1])}
        IN  \A ask \in LoggedAsks : ask.callers # <<>> =>
                summarize_history(cache.rows, ask.wrap, ask.callers[1]).approved
                    = Cardinality(approvals(ask))
=============================================================================
