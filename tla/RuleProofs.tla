------------------------------- MODULE RuleProofs ------------------------------
(***************************************************************************)
(* Proofs about the rules: the file and the modules beside it, and what is *)
(* learned from the log.                                                   *)
(*                                                                         *)
(* For every first file, every form, every hand and every module: an       *)
(* acknowledged rule keeps the module it pins, an edit through the daemon  *)
(* keeps every rule but the one it is about, and every answer of the rules *)
(* is what one version of the file says that was in force while the ask    *)
(* waited.  For every log, every ask and every click: what an accepted     *)
(* suggestion approves the human approved before, a replay of what was     *)
(* decided by the rules as they are agrees with it, and the window counts  *)
(* what is in the log.                                                     *)
(***************************************************************************)
EXTENDS RuleStore, RuleLearning, SequenceTheorems, FiniteSetTheorems, FunctionTheorems,
        WellFoundedInduction, TLAPS

\* Rules a registration may make.
NewRules ==
    {NewRule(g[1], registration_grant(g[1], g[2], g[3]), <<>>) :
        g \in {x \in NewModules \X Requests \X BOOLEAN : Registrable(x[1], x[2], x[3])}}

\* Every rule somebody may write, before it is switched on or off.
Written == (UNION {ToSet(rules) : rules \in FirstRules})
           \cup FormRules \cup HandRules \cup NewRules

\* The rules there may be: a module is stored under the id of its rule.
Rule ==
    {r \in [id : {w.id : w \in Written}, enabled : BOOLEAN,
            wraps : {w.wraps : w \in Written}, trained : {w.trained : w \in Written},
            body : {w.body : w \in Written}] :
        is_wasm(r) => r.body.path = r.id /\ r.id \in Paths}

\* The edits there may be: only a registration has the id that is drawn.
Edits ==
    [what : {"add"}, rule : {r \in Rule : ~is_wasm(r) => r.id # NewId}]
    \cup [what : {"update"}, expected : Rule,
          rule : {r \in Rule : ~is_wasm(r) /\ r.id # NewId}]
    \cup [what : {"delete"}, expected : Rule]
    \cup [what : {"enable"}, expected : Rule]

\* What the file can be to a reader.
States == {"ok", "broken", "missing"}

\* What the holder of the daemon's mutex can be doing: a reload, an edit, the
\* admission of a registered rule.
Reloads == [kind : {"reload"}, pc : {"text", "rest"}, for : {"ask", "message"},
            rules : Seq(Rule), mtime : Nat, configAt : Nat]
Editings == [kind : {"edit"}, pc : {"compare", "replace", "stat", "text", "rest"},
             edit : Edits, read : [state : States, rules : Seq(Rule)],
             rules : Seq(Rule), mtime : Nat, compared : Nat]
Admissions == [kind : {"admit"}, pc : {"admit"}, rule : Rule]

\* The bounds used up, with the clock of the file system.
Uses == [clock : Nat, saves : Nat, edits : Nat, asks : Nat, drawn : BOOLEAN,
         touched : SUBSET Paths]

\* Versions of the configuration.
Configs == [ok : BOOLEAN, wraps : {Wraps, {}}, mtime : Nat]

\* The types of what the invariants speak of.
TypeOK ==
    /\ file \in [state : States, rules : Seq(Rule), mtime : Nat]
    /\ config \in Configs
    /\ DOMAIN store = Paths
    /\ op \in {Idle} \cup Reloads \cup Editings \cup Admissions
    /\ used \in Uses

\* The rule with its module whose registration is under way, if one is.
Pending ==
    IF op \in Admissions THEN {op.rule}
    ELSE IF op \in Editings /\ op.edit.what = "add" /\ is_wasm(op.edit.rule)
         THEN {op.edit.rule} ELSE {}

\* The rules of an acknowledged registration have their modules.
HaveModules(rules) ==
    \A i \in DOMAIN rules :
        is_wasm(rules[i]) /\ rules[i].id \in kept
            => store[rules[i].id] = <<rules[i].body.sha>>

\* The file, whether or not it parses, and the text an edit has read: a rule
\* that an overtaken edit writes back has its module too.
FilesHaveModules ==
    /\ HaveModules(file.rules)
    /\ op \in Editings => HaveModules(op.read.rules)

\* What an edit is about is in the text it has read; a deleted rule was taken
\* off the acknowledged ones before its module goes.
EditsAreCurrent ==
    op \in Editings =>
        /\ op.edit.what # "add" => ensure_rule_is_current(op.read.rules, op.edit.expected)
        /\ op.edit.what = "update" => op.edit.expected.id = op.edit.rule.id
        /\ op.edit.what = "delete" /\ op.pc \in {"stat", "text", "rest"}
              => op.edit.expected.id \notin kept

\* A registration under way has its module stored, is not acknowledged, and is
\* the only one with its id.
PendingIsAlone ==
    /\ \A r \in Pending :
          /\ is_wasm(r) /\ r.id = NewId /\ used.drawn /\ NewId \notin kept
          /\ NewId \notin used.touched => store[NewId] = <<r.body.sha>>
    /\ \A i \in DOMAIN file.rules : file.rules[i].id = NewId =>
          used.drawn /\ \A r \in Pending : file.rules[i].body = r.body
    /\ op \in Editings =>
          \A i \in DOMAIN op.read.rules : op.read.rules[i].id = NewId =>
              used.drawn /\ Pending = {}
    /\ ~used.drawn => NewId \notin kept

\* Modification times are of the past, and one that has not changed since the
\* comparison means a text that has not.
TimesTell ==
    /\ 1 <= file.mtime /\ file.mtime <= used.clock
    /\ file.state = "missing" => file.rules = <<>>
    /\ op \in Editings => op.compared <= used.clock
    /\ op \in Editings /\ op.pc = "replace" =>
          /\ file.state # "missing" => 1 <= op.compared
          /\ op.compared = MtimeOf(file) => RulesIn(file) = op.read.rules

\* The inductive invariant.
Inv ==
    /\ TypeOK
    /\ FilesHaveModules
    /\ EditsAreCurrent
    /\ PendingIsAlone
    /\ TimesTell

-----------------------------------------------------------------------------
(* Operators. *)

\* What is left of a sequence without one of its elements.
LEMMA RemoveAtProperties ==
    ASSUME NEW S, NEW s \in Seq(S), NEW k \in DOMAIN s
    PROVE  /\ RemoveAt(s, k) \in Seq(S)
           /\ Len(RemoveAt(s, k)) = Len(s) - 1
           /\ \A i \in 1..(Len(s) - 1) :
                 RemoveAt(s, k)[i] = IF i < k THEN s[i] ELSE s[i + 1]
<1>. DEFINE a == SubSeq(s, 1, k - 1)
            b == SubSeq(s, k + 1, Len(s))
<1>1. /\ a \in Seq(S) /\ Len(a) = k - 1
      /\ \A i \in 1..(k - 1) : a[i] = s[i]
  OBVIOUS
<1>2. /\ b \in Seq(S) /\ Len(b) = Len(s) - k
      /\ \A i \in 1..(Len(s) - k) : b[i] = s[i + k]
  OBVIOUS
<1>3. RemoveAt(s, k) = a \o b
  BY DEF RemoveAt
<1>0. Len(s) \in Nat /\ k \in 1..Len(s)
  OBVIOUS
<1>. HIDE DEF a, b
<1>4. a \o b \in Seq(S) /\ Len(a \o b) = Len(s) - 1
  <2>1. a \o b \in Seq(S) /\ Len(a \o b) = Len(a) + Len(b)
    BY <1>1, <1>2, ConcatProperties
  <2>. QED  BY <2>1, <1>0, <1>1, <1>2
<1>5. ASSUME NEW i \in 1..(Len(s) - 1)
      PROVE  (a \o b)[i] = IF i < k THEN s[i] ELSE s[i + 1]
  <2>1. (a \o b)[i] = IF i <= Len(a) THEN a[i] ELSE b[i - Len(a)]
    BY <1>0, <1>1, <1>2, ConcatProperties
  <2>2. CASE i < k
    BY <2>1, <2>2, <1>0, <1>1
  <2>3. CASE ~(i < k)
    <3>1. i - Len(a) \in 1..(Len(s) - k) /\ (i - Len(a)) + k = i + 1
      BY <2>3, <1>0, <1>1
    <3>2. b[i - Len(a)] = s[i + 1]
      BY <3>1, <1>2
    <3>. QED  BY <2>1, <2>3, <3>2, <1>0, <1>1
  <2>. QED  BY <2>2, <2>3
<1>. QED  BY <1>3, <1>4, <1>5

\* Whose rules come from where: the elements of what remains are old ones.
LEMMA RemovedFrom ==
    ASSUME NEW S, NEW s \in Seq(S), NEW k \in DOMAIN s
    PROVE  \A i \in DOMAIN RemoveAt(s, k) : \E j \in DOMAIN s : RemoveAt(s, k)[i] = s[j]
<1>. DEFINE t == RemoveAt(s, k)
<1>1. /\ t \in Seq(S) /\ Len(t) = Len(s) - 1
      /\ \A i \in 1..(Len(s) - 1) : t[i] = IF i < k THEN s[i] ELSE s[i + 1]
  BY RemoveAtProperties
<1>. HIDE DEF t
<1>2. SUFFICES ASSUME NEW i \in DOMAIN t PROVE \E j \in DOMAIN s : t[i] = s[j]
  BY DEF t
<1>3. i \in 1..(Len(s) - 1)
  BY <1>1
<1>4. i \in DOMAIN s /\ i + 1 \in DOMAIN s
  BY <1>3
<1>. QED  BY <1>1, <1>3, <1>4

\* A rule that is switched on or off.
LEMMA Switched ==
    ASSUME NEW r \in Rule
    PROVE  LET t == [r EXCEPT !.enabled = ~@]
           IN  t \in Rule /\ t.id = r.id /\ t.body = r.body /\ is_wasm(t) = is_wasm(r)
<1>. DEFINE t == [r EXCEPT !.enabled = ~@]
<1>1. /\ r \in [id : {w.id : w \in Written}, enabled : BOOLEAN,
                wraps : {w.wraps : w \in Written}, trained : {w.trained : w \in Written},
                body : {w.body : w \in Written}]
      /\ is_wasm(r) => r.body.path = r.id /\ r.id \in Paths
  BY DEF Rule
<1>2. /\ t \in [id : {w.id : w \in Written}, enabled : BOOLEAN,
                wraps : {w.wraps : w \in Written}, trained : {w.trained : w \in Written},
                body : {w.body : w \in Written}]
      /\ t.id = r.id /\ t.body = r.body
  BY <1>1
<1>3. is_wasm(t) = is_wasm(r)
  BY <1>2 DEF is_wasm
<1>. QED  BY <1>1, <1>2, <1>3 DEF Rule

\* The rules people and registrations write are rules.
LEMMA WrittenAreRules ==
    /\ \A rules \in FirstRules : rules \in Seq(Rule)
    /\ FormRules \subseteq Rule /\ HandRules \subseteq Rule /\ NewRules \subseteq Rule
    /\ \A r \in FormRules \cup HandRules : ~is_wasm(r) /\ r.id # NewId
    /\ \A r \in NewRules : is_wasm(r) /\ r.id = NewId
<1>1. ASSUME NEW r \in Written, IsRule(r), is_wasm(r) => r.body.path = r.id /\ r.id \in Paths
      PROVE  r \in Rule
  <2>1. r \in [id : {w.id : w \in Written}, enabled : BOOLEAN,
               wraps : {w.wraps : w \in Written}, trained : {w.trained : w \in Written},
               body : {w.body : w \in Written}]
    BY <1>1 DEF IsRule
  <2>. QED  BY <1>1, <2>1 DEF Rule
<1>2. ASSUME NEW r \in NewRules
      PROVE  r \in Rule /\ is_wasm(r) /\ r.id = NewId
  <2>1. PICK g \in NewModules \X Requests \X BOOLEAN :
            r = NewRule(g[1], registration_grant(g[1], g[2], g[3]), <<>>)
    BY DEF NewRules
  <2>2. IsRule(r) /\ is_wasm(r) /\ r.body.path = NewId /\ r.id = NewId
    BY <2>1, RuleAssumption DEF NewRule, IsRule, is_wasm
  <2>3. r \in Written
    BY DEF Written
  <2>. QED  BY <2>2, <2>3, <1>1, RuleAssumption
<1>3. ASSUME NEW r \in FormRules \cup HandRules PROVE r \in Rule /\ ~is_wasm(r) /\ r.id # NewId
  <2>1. r \in Written
    BY DEF Written
  <2>2. IsRule(r) /\ ~is_wasm(r) /\ r.id # NewId
    BY RuleAssumption
  <2>. QED  BY <2>1, <2>2, <1>1
<1>4. ASSUME NEW rules \in FirstRules PROVE rules \in Seq(Rule)
  <2>1. rules \in Seq(ToSet(rules))
    BY RuleAssumption
  <2>2. ASSUME NEW r \in ToSet(rules) PROVE r \in Rule
    <3>1. r \in Written
      BY DEF Written
    <3>2. IsRule(r) /\ (is_wasm(r) => r.body.path = r.id /\ r.id \in Paths)
      BY RuleAssumption
    <3>. QED  BY <1>1, <3>1, <3>2
  <2>3. Seq(ToSet(rules)) \subseteq Seq(Rule)
    BY <2>2
  <2>. QED  BY <2>1, <2>3
<1>. QED  BY <1>2, <1>3, <1>4

\* A set of naturals has a least element: < is well-founded.
LEMMA LeastNatural ==
    ASSUME NEW T, T \subseteq Nat, T # {}
    PROVE  \E n \in T : \A m \in T : n <= m
<1>1. IsWellFoundedOn({p \in Nat \X Nat : p[1] < p[2]}, Nat)
  BY NatLessThanWellFounded DEF OpToRel
<1>2. PICK n \in T : \A m \in T : <<m, n>> \notin {p \in Nat \X Nat : p[1] < p[2]}
  BY <1>1, WFMin, Zenon
<1>3. ASSUME NEW m \in T PROVE n <= m
  <2>1. <<m, n>> \notin {p \in Nat \X Nat : p[1] < p[2]}
    BY <1>2
  <2>2. ~(m < n)
    BY <2>1
  <2>. QED  BY <2>2
<1>. QED  BY <1>3

\* rule_table_index finds a rule that is there.
LEMMA IndexIsThere ==
    ASSUME NEW rules \in Seq(Rule), NEW id, Find(rules, id) # {}
    PROVE  /\ rule_table_index(rules, id) \in DOMAIN rules
           /\ rules[rule_table_index(rules, id)].id = id
<1>. DEFINE T == {i \in DOMAIN rules : rules[i].id = id}
<1>1. T \subseteq Nat /\ T # {}
  BY DEF Find, ToSet
<1>2. PICK n \in T : \A m \in T : n <= m
  BY <1>1, LeastNatural
<1>3. \E i \in DOMAIN rules : rules[i].id = id /\ \A j \in 1..(i - 1) : rules[j].id # id
  <2>1. ASSUME NEW j \in 1..(n - 1) PROVE rules[j].id # id
    BY <1>1, <1>2
  <2>. QED  BY <1>2, <2>1
<1>. QED  BY <1>3 DEF rule_table_index

\* A rule that passes ensure_rule_is_current is in the file.
LEMMA CurrentIsThere ==
    ASSUME NEW rules \in Seq(Rule), NEW expected, ensure_rule_is_current(rules, expected)
    PROVE  LET k == rule_table_index(rules, expected.id)
           IN  k \in DOMAIN rules /\ rules[k] = expected /\ expected \in Rule
<1>1. /\ Find(rules, expected.id) # {}
      /\ rules[rule_table_index(rules, expected.id)] = expected
  BY DEF ensure_rule_is_current
<1>2. rule_table_index(rules, expected.id) \in DOMAIN rules
  BY <1>1, IndexIsThere
<1>. QED  BY <1>1, <1>2

\* One rule is the other, switched on or off.
Alike(r, t) == r.id = t.id /\ r.body = t.body

\* apply_rule_edit writes rules that were there and the one of the form.
LEMMA EditedRules ==
    ASSUME NEW rules \in Seq(Rule), NEW e \in Edits,
           e.what # "add" => ensure_rule_is_current(rules, e.expected)
    PROVE  LET new == apply_rule_edit(rules, e)
           IN  /\ new \in Seq(Rule)
               /\ \A i \in DOMAIN new :
                     \/ e.what \in {"add", "update"} /\ new[i] = e.rule
                     \/ \E j \in DOMAIN rules : Alike(new[i], rules[j])
<1>. DEFINE new == apply_rule_edit(rules, e)
            k == rule_table_index(rules, e.expected.id)
<1>1. CASE e.what = "add"
  <2>1. e.rule \in Rule /\ new = Append(rules, e.rule)
    BY <1>1 DEF Edits, apply_rule_edit
  <2>. HIDE DEF new
  <2>2. new \in Seq(Rule) /\ \A i \in DOMAIN new : new[i] = e.rule \/ (i \in DOMAIN rules /\ new[i] = rules[i])
    BY <2>1
  <2>. QED  BY <1>1, <2>2 DEF new, Alike
<1>2. CASE e.what # "add"
  <2>0. k \in DOMAIN rules /\ rules[k] = e.expected /\ e.expected \in Rule
    BY <1>2, CurrentIsThere
  <2>1. CASE e.what = "update"
    <3>1. e.rule \in Rule /\ new = [rules EXCEPT ![k] = e.rule]
      BY <2>1 DEF Edits, apply_rule_edit, merge_rule_table
    <3>. HIDE DEF new, k
    <3>2. new \in Seq(Rule) /\ \A i \in DOMAIN new : new[i] = e.rule \/ (i \in DOMAIN rules /\ new[i] = rules[i])
      BY <3>1, <2>0
    <3>. QED  BY <2>1, <3>2 DEF new, Alike
  <2>2. CASE e.what = "delete"
    <3>1. new = RemoveAt(rules, k)
      BY <2>2 DEF apply_rule_edit
    <3>. HIDE DEF new, k
    <3>2. new \in Seq(Rule)
      BY <3>1, <2>0, RemoveAtProperties
    <3>3. \A i \in DOMAIN new : \E j \in DOMAIN rules : new[i] = rules[j]
      BY <3>1, <2>0, RemovedFrom
    <3>. QED  BY <3>2, <3>3 DEF new, Alike
  <2>3. CASE e.what = "enable"
    <3>1. new = [rules EXCEPT ![k] = [rules[k] EXCEPT !.enabled = ~@]]
      BY <2>3, <2>0 DEF apply_rule_edit
    <3>. DEFINE t == [rules[k] EXCEPT !.enabled = ~@]
    <3>2. t \in Rule /\ Alike(t, rules[k])
      BY <2>0, Switched DEF Alike
    <3>. HIDE DEF new, k, t
    <3>3. new = [rules EXCEPT ![k] = t]
      BY <3>1 DEF t
    <3>4. new \in Seq(Rule) /\ DOMAIN new = DOMAIN rules
          /\ \A i \in DOMAIN new : new[i] = IF i = k THEN t ELSE rules[i]
      BY <3>3, <3>2, <2>0
    <3>. QED  BY <3>2, <3>4 DEF new, Alike
  <2>. QED  BY <1>2, <2>1, <2>2, <2>3 DEF Edits
<1>. QED  BY <1>1, <1>2

\* What kind of operation it is says which record it is.
LEMMA OpKinds ==
    ASSUME TypeOK
    PROVE  /\ op \in Editings <=> op.kind = "edit"
           /\ op \in Reloads <=> op.kind = "reload"
           /\ op \in Admissions <=> op.kind = "admit"
           /\ op = Idle <=> op.kind = "idle"
BY DEF TypeOK, Editings, Reloads, Admissions, Idle

\* The same of the next state.
LEMMA OpKindsNext ==
    ASSUME TypeOK'
    PROVE  /\ op' \in Editings <=> op'.kind = "edit"
           /\ op' \in Reloads <=> op'.kind = "reload"
           /\ op' \in Admissions <=> op'.kind = "admit"
           /\ op' = Idle <=> op'.kind = "idle"
BY DEF TypeOK, Editings, Reloads, Admissions, Idle

\* A step of the clock that is a save.
LEMMA Counted ==
    ASSUME NEW u \in Uses
    PROVE  LET v == [u EXCEPT !.clock = @ + 1, !.saves = @ + 1]
           IN  /\ v \in Uses /\ v.clock = u.clock + 1 /\ v.drawn = u.drawn
               /\ v.saves = u.saves + 1 /\ v.touched = u.touched
<1>. DEFINE v == [u EXCEPT !.clock = @ + 1, !.saves = @ + 1]
<1>1. DOMAIN u = {"clock", "saves", "edits", "asks", "drawn", "touched"}
  BY DEF Uses
<1>2. DOMAIN v = DOMAIN u /\ v = [k \in DOMAIN u |-> v[k]]
  OBVIOUS
<1>3. v.clock = u.clock + 1 /\ v.saves = u.saves + 1
  BY <1>1
<1>4. v.edits = u.edits /\ v.asks = u.asks /\ v.touched = u.touched
  BY <1>1
<1>5. v.drawn = u.drawn
  BY <1>1
<1>6. /\ v.clock \in Nat /\ v.saves \in Nat /\ v.edits \in Nat /\ v.asks \in Nat
      /\ v.touched \in SUBSET Paths
  BY <1>3, <1>4 DEF Uses
<1>7. v.drawn \in BOOLEAN
  BY <1>5 DEF Uses
<1>. HIDE DEF v
<1>8. v \in Uses
  BY <1>1, <1>2, <1>6, <1>7 DEF Uses
<1>. QED  BY <1>3, <1>4, <1>5, <1>8 DEF v

\* One that is not.
LEMMA Ticked ==
    ASSUME NEW u \in Uses
    PROVE  LET v == [u EXCEPT !.clock = @ + 1]
           IN  /\ v \in Uses /\ v.clock = u.clock + 1 /\ v.drawn = u.drawn
               /\ v.saves = u.saves /\ v.touched = u.touched /\ u.clock \in Nat
BY DEF Uses

\* Somebody touches a stored module.
LEMMA Touched ==
    ASSUME NEW u \in Uses, NEW p \in Paths
    PROVE  LET v == [u EXCEPT !.saves = @ + 1, !.touched = @ \cup {p}]
           IN  /\ v \in Uses /\ v.clock = u.clock /\ v.drawn = u.drawn
               /\ v.touched = u.touched \cup {p}
<1>. DEFINE v == [u EXCEPT !.saves = @ + 1, !.touched = @ \cup {p}]
<1>1. DOMAIN u = {"clock", "saves", "edits", "asks", "drawn", "touched"}
  BY DEF Uses
<1>2. DOMAIN v = DOMAIN u /\ v = [k \in DOMAIN u |-> v[k]]
  OBVIOUS
<1>3. /\ v.clock = u.clock /\ v.saves = u.saves + 1 /\ v.edits = u.edits
      /\ v.asks = u.asks /\ v.touched = u.touched \cup {p}
  BY <1>1
<1>4. v.drawn = u.drawn
  BY <1>1
<1>5. /\ v.clock \in Nat /\ v.saves \in Nat /\ v.edits \in Nat /\ v.asks \in Nat
      /\ v.touched \in SUBSET Paths
  BY <1>3 DEF Uses
<1>6. v.drawn \in BOOLEAN
  BY <1>4 DEF Uses
<1>. HIDE DEF v
<1>7. v \in Uses
  BY <1>1, <1>2, <1>5, <1>6 DEF Uses
<1>. QED  BY <1>3, <1>4, <1>7 DEF v

\* A registration that draws its id.
LEMMA Drawn ==
    ASSUME NEW u \in Uses
    PROVE  LET v == [u EXCEPT !.edits = @ + 1, !.drawn = TRUE]
           IN  v \in Uses /\ v.clock = u.clock /\ v.drawn /\ v.touched = u.touched
<1>. DEFINE v == [u EXCEPT !.edits = @ + 1, !.drawn = TRUE]
<1>1. DOMAIN u = {"clock", "saves", "edits", "asks", "drawn", "touched"}
  BY DEF Uses
<1>2. DOMAIN v = DOMAIN u /\ v = [k \in DOMAIN u |-> v[k]]
  OBVIOUS
<1>3. /\ v.clock = u.clock /\ v.saves = u.saves /\ v.edits = u.edits + 1
      /\ v.asks = u.asks /\ v.touched = u.touched
  BY <1>1
<1>4. v.drawn = TRUE
  BY <1>1
<1>5. /\ v.clock \in Nat /\ v.saves \in Nat /\ v.edits \in Nat /\ v.asks \in Nat
      /\ v.touched \in SUBSET Paths
  BY <1>3 DEF Uses
<1>. HIDE DEF v
<1>6. v \in Uses
  BY <1>1, <1>2, <1>4, <1>5 DEF Uses
<1>. QED  BY <1>3, <1>4, <1>6 DEF v

-----------------------------------------------------------------------------
(* The shapes of step: one that leaves the rules alone, one that ends or    *)
(* reloads, one that saves the file by hand, one that begins an edit and    *)
(* one that goes on with it.                                                *)

\* No edit is under way afterwards, and the modules of acknowledged rules are
\* where they were.
LEMMA EditEnds ==
    ASSUME Inv, op' \in {Idle} \cup Reloads,
           UNCHANGED <<file, config, kept>>, DOMAIN store' = Paths,
           \A p \in kept \cap Paths : store'[p] = store[p],
           used' \in Uses,
           used'.clock = used.clock, used'.drawn = used.drawn
    PROVE  Inv'
<1>1. TypeOK'
  BY DEF Inv, TypeOK
<1>2. op' \notin Editings /\ op' \notin Admissions
  BY DEF Editings, Admissions, Reloads, Idle
<1>3. Pending' = {}
  BY <1>2 DEF Pending
<1>4. \A i \in DOMAIN file.rules : is_wasm(file.rules[i]) => file.rules[i].id \in Paths
  BY DEF Inv, TypeOK, Rule
<1>5. HaveModules(file.rules)'
  BY <1>4 DEF Inv, FilesHaveModules, HaveModules, is_wasm
<1>6. FilesHaveModules' /\ EditsAreCurrent'
  BY <1>2, <1>5 DEF FilesHaveModules, EditsAreCurrent
<1>7. PendingIsAlone'
  BY <1>2, <1>3 DEF Inv, PendingIsAlone
<1>8. TimesTell'
  BY <1>2 DEF Inv, TimesTell
<1>. QED  BY <1>1, <1>6, <1>7, <1>8 DEF Inv

\* A save by hand: its rules were there or are clauses of the user's own.
LEMMA SavedByHand ==
    ASSUME Inv, NEW f, Save(f), f.rules \in Seq(Rule), f.state \in States,
           f = [state |-> f.state, rules |-> f.rules, mtime |-> f.mtime],
           file.state # "missing", f.state = "missing" => f.rules = <<>>,
           kept' \subseteq kept,
           \A i \in DOMAIN f.rules :
              \/ ~is_wasm(f.rules[i]) /\ f.rules[i].id # NewId
              \/ \E j \in DOMAIN file.rules : Alike(f.rules[i], file.rules[j])
    PROVE  Inv'
<1>1. /\ file' = [state |-> f.state, rules |-> f.rules, mtime |-> Fresh]
      /\ UNCHANGED <<config, store, op>>
      /\ used' = [used EXCEPT !.clock = @ + 1, !.saves = @ + 1]
  BY DEF Save, Tick
<1>2. used \in Uses
  BY DEF Inv, TypeOK
<1>3. /\ used' \in Uses
      /\ used'.clock = used.clock + 1 /\ used'.drawn = used.drawn
      /\ used'.touched = used.touched
  BY <1>1, <1>2, Counted
<1>4. /\ file'.rules = f.rules /\ file'.state = f.state /\ file'.mtime = used.clock + 1
      /\ file' \in [state : States, rules : Seq(Rule), mtime : Nat]
  BY <1>1, <1>2 DEF Fresh, Uses
<1>5. TypeOK'
  BY <1>1, <1>3, <1>4 DEF Inv, TypeOK
<1>6. Pending' = Pending
  BY <1>1 DEF Pending
<1>7. HaveModules(file.rules)'
  <2>. SUFFICES ASSUME NEW i \in DOMAIN f.rules, is_wasm(f.rules[i]), f.rules[i].id \in kept
                PROVE  store[f.rules[i].id] = <<f.rules[i].body.sha>>
    BY <1>1, <1>4 DEF HaveModules
  <2>1. PICK j \in DOMAIN file.rules : Alike(f.rules[i], file.rules[j])
    OBVIOUS
  <2>. QED  BY <2>1 DEF Alike, is_wasm, Inv, FilesHaveModules, HaveModules
<1>8. op' \in Editings => HaveModules(op.read.rules)'
  BY <1>1 DEF Inv, FilesHaveModules, HaveModules
<1>9. EditsAreCurrent'
  BY <1>1 DEF Inv, EditsAreCurrent
<1>10. PendingIsAlone'
  <2>1. ASSUME NEW i \in DOMAIN f.rules, f.rules[i].id = NewId
        PROVE  used.drawn /\ \A r \in Pending : f.rules[i].body = r.body
    <3>1. PICK j \in DOMAIN file.rules : Alike(f.rules[i], file.rules[j])
      BY <2>1
    <3>. QED  BY <2>1, <3>1 DEF Alike, Inv, PendingIsAlone
  <2>. QED  BY <1>1, <1>3, <1>4, <1>6, <2>1 DEF Inv, PendingIsAlone
<1>11. TimesTell'
  <2>1. /\ 1 <= file'.mtime /\ file'.mtime <= used'.clock
        /\ file'.state = "missing" => file'.rules = <<>>
    BY <1>2, <1>3, <1>4 DEF Uses
  <2>2. ASSUME op \in Editings
        PROVE  /\ op.compared \in Nat /\ op.compared <= used.clock
               /\ op.pc = "replace" => 1 <= op.compared
    BY <2>2 DEF Inv, TimesTell, Editings
  <2>0. used.clock \in Nat
    BY <1>2 DEF Uses
  <2>3. op \in Editings /\ op.pc = "replace" => op.compared # MtimeOf(file')
    BY <2>0, <1>4, <2>2 DEF MtimeOf
  <2>4. op \in Editings => op.compared <= used'.clock
    BY <2>0, <1>3, <2>2
  <2>. QED  BY <1>1, <2>1, <2>2, <2>3, <2>4 DEF TimesTell, MtimeOf
<1>. QED  BY <1>5, <1>7, <1>8, <1>9, <1>10, <1>11 DEF Inv, FilesHaveModules

\* Neither the file nor the modules nor the operation change.
LEMMA RulesAlone ==
    ASSUME Inv, UNCHANGED <<file, store, op, kept>>, used' \in Uses,
           config' \in Configs,
           used.clock <= used'.clock, used'.drawn = used.drawn,
           used'.touched = used.touched
    PROVE  Inv'
<1>1. TypeOK'
  BY DEF Inv, TypeOK
<1>2. Pending' = Pending
  BY DEF Pending
<1>3. FilesHaveModules' /\ EditsAreCurrent'
  BY DEF Inv, FilesHaveModules, EditsAreCurrent, HaveModules
<1>4. PendingIsAlone'
  BY <1>2 DEF Inv, PendingIsAlone
<1>5. TimesTell'
  <2>1. file.mtime \in Nat /\ used.clock \in Nat /\ used'.clock \in Nat
    BY DEF Inv, TypeOK, Uses
  <2>2. op \in Editings => op.compared \in Nat
    BY DEF Editings
  <2>3. file'.mtime <= used'.clock /\ (op \in Editings => op.compared <= used'.clock)
    BY <2>1, <2>2 DEF Inv, TimesTell
  <2>. QED  BY <2>3 DEF Inv, TimesTell, MtimeOf, RulesIn
<1>. QED  BY <1>1, <1>3, <1>4, <1>5 DEF Inv

\* The operation's next step, on the same text and for the same edit.
LEMMA EditGoesOn ==
    ASSUME Inv, op \in Editings, op' \in Editings, op'.edit = op.edit, op'.read = op.read,
           UNCHANGED <<file, config, store, kept, used>>,
           op.edit.what = "delete" /\ op'.pc \in {"stat", "text", "rest"}
              => op.pc \in {"stat", "text", "rest"},
           op'.compared <= used.clock,
           op'.pc = "replace" =>
              /\ file.state # "missing" => 1 <= op'.compared
              /\ RulesIn(file) = op.read.rules
    PROVE  Inv'
<1>1. TypeOK'
  BY DEF Inv, TypeOK
<1>2. op \notin Admissions /\ op' \notin Admissions
  BY DEF Editings, Admissions
<1>3. Pending' = Pending
  BY <1>2 DEF Pending
<1>4. FilesHaveModules'
  BY DEF Inv, FilesHaveModules, HaveModules
<1>5. EditsAreCurrent'
  BY DEF Inv, EditsAreCurrent
<1>6. PendingIsAlone'
  BY <1>3 DEF Inv, PendingIsAlone
<1>7. TimesTell'
  BY DEF Inv, TimesTell, MtimeOf, RulesIn
<1>. QED  BY <1>1, <1>4, <1>5, <1>6, <1>7 DEF Inv

\* An edit begins: of the form, or the one that admits a registered module.
LEMMA EditBegins ==
    ASSUME Inv, NEW e \in Edits, op \in {Idle} \cup Admissions, Applies(RulesIn(file), e),
           op' = Editing(e, [state |-> file.state, rules |-> RulesIn(file)]),
           UNCHANGED <<file, config, store, kept>>,
           used' \in Uses, used'.clock = used.clock, used'.drawn = used.drawn,
           used'.touched = used.touched,
           op = Idle /\ e.what = "add" => ~is_wasm(e.rule),
           e.what = "update" => e.expected.id = e.rule.id,
           op \in Admissions => e.what = "add" /\ e.rule = op.rule
    PROVE  Inv'
<1>0. RulesIn(file) \in Seq(Rule) /\ file.state \in States /\ used.clock \in Nat
  BY DEF Inv, TypeOK, RulesIn, Uses
<1>1. op' \in Editings /\ op'.edit = e /\ op'.read.rules = RulesIn(file)
      /\ op'.pc = "compare" /\ op'.compared = 0
  BY <1>0 DEF Editing, Editings
<1>2. TypeOK'
  BY <1>1 DEF Inv, TypeOK
<1>3. op \notin Editings /\ op' \notin Admissions /\ Idle \notin Admissions
  BY <1>1 DEF Editings, Admissions, Idle
<1>4. Pending' = Pending
  <2>1. CASE op = Idle
    BY <1>1, <1>3, <2>1 DEF Pending
  <2>2. CASE op \in Admissions
    <3>1. Pending = {op.rule}
      BY <2>2 DEF Pending
    <3>2. is_wasm(op.rule)
      BY <3>1 DEF Inv, PendingIsAlone
    <3>. QED  BY <1>1, <1>3, <2>2, <3>1, <3>2 DEF Pending
  <2>. QED  BY <2>1, <2>2
<1>5. HaveModules(RulesIn(file))'
  BY DEF Inv, FilesHaveModules, HaveModules, RulesIn
<1>6. FilesHaveModules'
  BY <1>1, <1>5 DEF Inv, FilesHaveModules, HaveModules
<1>7. EditsAreCurrent'
  BY <1>1 DEF EditsAreCurrent, Applies
<1>8. PendingIsAlone'
  <2>1. ASSUME NEW i \in DOMAIN RulesIn(file), RulesIn(file)[i].id = NewId
        PROVE  used.drawn /\ Pending = {}
    <3>1. used.drawn
      BY <2>1 DEF Inv, PendingIsAlone, RulesIn
    <3>2. CASE op \in Admissions
      <4>1. e.what = "add" /\ e.rule.id = NewId
        BY <3>2 DEF Inv, PendingIsAlone, Pending
      <4>2. Find(RulesIn(file), NewId) = {}
        BY <4>1 DEF Applies
      <4>. QED  BY <2>1, <4>2 DEF Find, ToSet
    <3>3. CASE op = Idle
      BY <1>3, <3>1, <3>3 DEF Pending
    <3>. QED  BY <3>2, <3>3
  <2>. QED  BY <1>1, <1>4, <2>1 DEF Inv, PendingIsAlone
<1>9. TimesTell'
  BY <1>0, <1>1 DEF Inv, TimesTell
<1>. QED  BY <1>2, <1>6, <1>7, <1>8, <1>9 DEF Inv

-----------------------------------------------------------------------------
(* The actions. *)

\* A daemon starts from a file it wrote, with the modules it stored.
LEMMA InitInv ==
    ASSUME Init
    PROVE  Inv
<1>1. PICK rules \in FirstRules : file = [state |-> "ok", rules |-> rules, mtime |-> 1]
  BY DEF Init
<1>2. rules \in Seq(Rule)
  BY WrittenAreRules
<1>3. /\ op = Idle /\ Idle \notin Editings /\ Idle \notin Admissions
      /\ used = [clock |-> 1, saves |-> 0, edits |-> 0, asks |-> 0, drawn |-> FALSE,
                 touched |-> {}]
      /\ kept = {r.id : r \in {x \in ToSet(rules) : is_wasm(x)}}
  BY <1>1 DEF Init, Idle, Editings, Admissions
<1>4. TypeOK
  <2>1. config \in Configs
    BY DEF Init, Configs
  <2>2. used \in Uses
    BY <1>3 DEF Uses
  <2>3. DOMAIN store = Paths
    BY DEF Init
  <2>. QED  BY <1>1, <1>2, <1>3, <2>1, <2>2, <2>3 DEF TypeOK, States
<1>5. ASSUME NEW r \in ToSet(rules) PROVE r.id # NewId
  BY RuleAssumption
<1>6. HaveModules(rules)
  <2>. SUFFICES ASSUME NEW i \in DOMAIN rules, is_wasm(rules[i])
                PROVE  store[rules[i].id] = <<rules[i].body.sha>>
    BY DEF HaveModules
  <2>. DEFINE p == rules[i].id
              owners == {r \in ToSet(file.rules) : is_wasm(r) /\ r.body.path = p}
  <2>1. rules[i] \in ToSet(rules)
    BY <1>2 DEF ToSet
  <2>2. \A r \in ToSet(rules) : is_wasm(r) => r.body.path = r.id /\ r.id \in Paths
    BY RuleAssumption
  <2>3. p \in Paths /\ rules[i] \in owners
    BY <1>1, <2>1, <2>2
  <2>4. ASSUME NEW r \in owners PROVE r = rules[i]
    <3>1. r \in ToSet(rules) /\ r.id = rules[i].id
      BY <1>1, <2>2
    <3>2. PICK j \in DOMAIN rules : r = rules[j]
      BY <3>1 DEF ToSet
    <3>. QED  BY <3>1, <3>2, RuleAssumption
  <2>5. store[p] = IF owners = {} THEN <<>> ELSE <<(CHOOSE r \in owners : TRUE).body.sha>>
    BY <2>3 DEF Init
  <2>6. (CHOOSE r \in owners : TRUE) \in owners
    BY <2>3
  <2>7. (CHOOSE r \in owners : TRUE) = rules[i]
    BY <2>4, <2>6
  <2>. QED  BY <2>3, <2>5, <2>7
<1>7. FilesHaveModules /\ EditsAreCurrent
  BY <1>1, <1>3, <1>6 DEF FilesHaveModules, EditsAreCurrent
<1>8. PendingIsAlone
  <2>1. Pending = {}
    BY <1>3 DEF Pending
  <2>2. \A i \in DOMAIN rules : rules[i].id # NewId
    BY <1>2, <1>5 DEF ToSet
  <2>. QED  BY <1>1, <1>3, <1>5, <2>1, <2>2 DEF PendingIsAlone
<1>9. TimesTell
  BY <1>1, <1>3 DEF TimesTell
<1>. QED  BY <1>4, <1>7, <1>8, <1>9 DEF Inv

\* Reloads write nothing.
LEMMA ReloadInv ==
    ASSUME Inv, AskReloads \/ MessageReloads \/ ReloadFails \/ ReloadDone
    PROVE  Inv'
<1>1. op' \in {Idle} \cup Reloads
  <2>1. <<>> \in Seq(Rule) /\ MtimeOf(file) \in Nat /\ config.mtime \in Nat
    BY DEF Inv, TypeOK, Configs, MtimeOf
  <2>2. ASSUME NEW for \in {"ask", "message"}, reload_rules_if_changed(for) PROVE op' \in Reloads
    BY <2>1, <2>2 DEF reload_rules_if_changed, Reloads
  <2>. QED  BY <2>2 DEF AskReloads, MessageReloads, ReloadFails, ReloadDone
<1>2. UNCHANGED <<file, config, store, kept, used>>
  BY DEF AskReloads, MessageReloads, ReloadFails, ReloadDone
<1>3. used \in Uses /\ DOMAIN store = Paths
  BY DEF Inv, TypeOK
<1>. QED  BY <1>1, <1>2, <1>3, EditEnds

\* The text of a file is read, by a reload or after an edit.
LEMMA LoadTextInv ==
    ASSUME Inv, LoadText
    PROVE  Inv'
<1>0. TypeOK
  BY DEF Inv
<1>1. /\ op' = [op EXCEPT !.pc = "rest", !.rules = RulesIn(file)]
      /\ UNCHANGED <<file, config, store, kept, used>>
      /\ op.pc = "text"
  BY DEF LoadText
<1>2. RulesIn(file) \in Seq(Rule) /\ used \in Uses /\ DOMAIN store = Paths
  BY DEF Inv, TypeOK, RulesIn
<1>3. CASE op.kind = "reload"
  <2>1. op \in Reloads
    BY <1>0, <1>3, OpKinds
  <2>2. op' \in Reloads
    BY <1>1, <1>2, <2>1 DEF Reloads
  <2>. QED  BY <1>1, <1>2, <2>2, EditEnds
<1>4. CASE op.kind = "edit"
  <2>1. op \in Editings
    BY <1>0, <1>4, OpKinds
  <2>2. /\ op' \in Editings /\ op'.edit = op.edit /\ op'.read = op.read /\ op'.pc = "rest"
        /\ op'.compared = op.compared
    BY <1>1, <1>2, <2>1 DEF Editings
  <2>3. op.compared <= used.clock
    BY <2>1 DEF Inv, TimesTell
  <2>. QED  BY <1>1, <2>1, <2>2, <2>3, EditGoesOn
<1>. QED  BY <1>3, <1>4 DEF LoadText

\* An edit of the form or the list begins.
LEMMA BeginEditInv ==
    ASSUME Inv, BeginEdit
    PROVE  Inv'
<1>1. PICK e \in RuleEdits :
        Admissible(e) /\ Prepare(e, IF e.what \in {"add", "update"}
                   THEN install_rule_module(daemon, e.rule) ELSE daemon)
  BY DEF BeginEdit
<1>2. /\ op = Idle /\ used' = [used EXCEPT !.edits = @ + 1]
      /\ UNCHANGED <<file, config, store, kept>>
  BY DEF BeginEdit
<1>3. /\ used' \in Uses /\ used'.clock = used.clock /\ used'.drawn = used.drawn
      /\ used'.touched = used.touched
  BY <1>2 DEF Inv, TypeOK, Uses
<1>4. CASE file.state # "broken" /\ Applies(RulesIn(file), e)
  <2>1. op' = Editing(e, [state |-> file.state, rules |-> RulesIn(file)])
    BY <1>1, <1>4 DEF Prepare
  <2>2. RulesIn(file) \in Seq(Rule)
    BY DEF Inv, TypeOK, RulesIn
  <2>3. e.what # "add" => e.expected \in Rule
    BY <1>4, <2>2, CurrentIsThere DEF Applies
  <2>4. e.what \in {"add", "update"} => e.rule \in FormRules
    BY <1>1 DEF RuleEdits
  <2>5. e.what \in {"add", "update"} =>
            e.rule \in Rule /\ ~is_wasm(e.rule) /\ e.rule.id # NewId
    BY <2>4, WrittenAreRules
  <2>6. e \in Edits
    BY <1>1, <2>3, <2>5 DEF RuleEdits, Edits
  <2>7. Idle \notin Admissions /\ (e.what = "update" => e.expected.id = e.rule.id)
    BY <1>1 DEF Idle, Admissions, Admissible
  <2>. QED  BY <1>2, <1>3, <1>4, <2>1, <2>5, <2>6, <2>7, EditBegins
<1>5. CASE ~(file.state # "broken" /\ Applies(RulesIn(file), e))
  <2>1. op' = Idle
    BY <1>1, <1>5 DEF Prepare
  <2>2. DOMAIN store = Paths
    BY DEF Inv, TypeOK
  <2>. QED  BY <1>2, <1>3, <2>1, <2>2, EditEnds
<1>. QED  BY <1>4, <1>5

\* A failed registration takes out a module of no acknowledged rule.
LEMMA Unstored ==
    ASSUME Inv, op \in Editings, Unstore
    PROVE  DOMAIN store' = Paths /\ \A p \in kept \cap Paths : store'[p] = store[p]
<1>0. DOMAIN store = Paths
  BY DEF Inv, TypeOK
<1>1. CASE op.edit.what = "add" /\ is_wasm(op.edit.rule)
  <2>1. op \notin Admissions
    BY DEF Editings, Admissions
  <2>2. Pending = {op.edit.rule}
    BY <1>1, <2>1 DEF Pending
  <2>3. op.edit.rule.id = NewId /\ NewId \notin kept
    BY <2>2 DEF Inv, PendingIsAlone
  <2>4. op.edit.rule \in Rule
    BY <1>1 DEF Editings, Edits
  <2>5. op.edit.rule.body.path = NewId
    BY <1>1, <2>3, <2>4 DEF Rule
  <2>6. store' = [store EXCEPT ![NewId] = <<>>]
    BY <1>1, <2>5 DEF Unstore, remove_stored_module
  <2>. QED  BY <1>0, <2>3, <2>6
<1>2. CASE ~(op.edit.what = "add" /\ is_wasm(op.edit.rule))
  BY <1>0, <1>2 DEF Unstore
<1>. QED  BY <1>1, <1>2

\* The second read agrees and the edit goes on, or it ends.
LEMMA CompareInv ==
    ASSUME Inv, Compare
    PROVE  Inv'
<1>0. TypeOK
  BY DEF Inv
<1>1. op \in Editings /\ op.pc = "compare" /\ UNCHANGED <<file, config, kept, used>>
  BY <1>0, OpKinds DEF Compare
<1>2. CASE /\ SameText
           /\ op' = [op EXCEPT !.pc = "replace", !.compared = MtimeOf(file)]
           /\ UNCHANGED store
  <2>1. MtimeOf(file) \in Nat /\ MtimeOf(file) <= used.clock /\ used.clock \in Nat
    BY DEF Inv, TypeOK, TimesTell, MtimeOf, Uses
  <2>2. /\ op' \in Editings /\ op'.edit = op.edit /\ op'.read = op.read
        /\ op'.pc = "replace" /\ op'.compared = MtimeOf(file)
    BY <1>1, <1>2, <2>1 DEF Editings
  <2>3. RulesIn(file) = op.read.rules
    BY <1>2 DEF SameText, RulesIn
  <2>4. file.state # "missing" => 1 <= MtimeOf(file)
    BY DEF Inv, TimesTell, MtimeOf
  <2>. QED  BY <1>1, <1>2, <2>1, <2>2, <2>3, <2>4, EditGoesOn
<1>3. CASE op' = Idle /\ Unstore
  <2>1. DOMAIN store' = Paths /\ \A p \in kept \cap Paths : store'[p] = store[p]
    BY <1>1, <1>3, Unstored
  <2>2. used \in Uses
    BY <1>0 DEF TypeOK
  <2>. QED  BY <1>1, <1>3, <2>1, <2>2, EditEnds
<1>. QED  BY <1>2, <1>3 DEF Compare

\* The edited text replaces the file.
LEMMA ReplaceInv ==
    ASSUME Inv, Replace
    PROVE  Inv'
<1>0. TypeOK
  BY DEF Inv
<1>. DEFINE new == apply_rule_edit(op.read.rules, op.edit)
<1>1. /\ op \in Editings /\ op.pc = "replace" /\ UNCHANGED <<config, store>>
      /\ op' = [op EXCEPT !.pc = "stat"]
      /\ file' = [state |-> "ok", rules |-> new, mtime |-> used.clock + 1]
      /\ used' = [used EXCEPT !.clock = @ + 1]
      /\ kept' = IF op.edit.what = "delete" THEN kept \ {op.edit.expected.id} ELSE kept
  BY <1>0, OpKinds DEF Replace, Fresh, Tick
<1>2. op.edit \in Edits /\ op.read.rules \in Seq(Rule)
  BY <1>1 DEF Editings
<1>3. op.edit.what # "add" => ensure_rule_is_current(op.read.rules, op.edit.expected)
  BY <1>1 DEF Inv, EditsAreCurrent
<1>4. /\ new \in Seq(Rule)
      /\ \A i \in DOMAIN new :
            \/ op.edit.what \in {"add", "update"} /\ new[i] = op.edit.rule
            \/ \E j \in DOMAIN op.read.rules : Alike(new[i], op.read.rules[j])
  BY <1>2, <1>3, EditedRules
<1>. HIDE DEF new
<1>5. /\ used' \in Uses /\ used'.clock = used.clock + 1 /\ used'.drawn = used.drawn
      /\ used'.touched = used.touched /\ used.clock \in Nat
  <2>1. used \in Uses
    BY <1>0 DEF TypeOK
  <2>2. used' = [used EXCEPT !.clock = @ + 1]
    BY <1>1
  <2>. QED  BY <2>1, <2>2, Ticked
<1>6. /\ op' \in Editings /\ op'.edit = op.edit /\ op'.read = op.read /\ op'.pc = "stat"
      /\ op'.compared = op.compared
  BY <1>1 DEF Editings
<1>7. file' \in [state : States, rules : Seq(Rule), mtime : Nat]
  BY <1>1, <1>4, <1>5 DEF States
<1>8. TypeOK'
  BY <1>0, <1>1, <1>5, <1>6, <1>7 DEF TypeOK
<1>9. op \notin Admissions /\ op' \notin Admissions
  BY <1>1, <1>6 DEF Editings, Admissions
<1>10. Pending' = Pending
  BY <1>1, <1>6, <1>9 DEF Pending
<1>11. op.edit.what = "update" => ~is_wasm(op.edit.rule)
  BY <1>2 DEF Edits
<1>12. op.edit.what = "add" /\ is_wasm(op.edit.rule) =>
          op.edit.rule.id = NewId /\ NewId \notin kept /\ used.drawn
          /\ Pending = {op.edit.rule}
  BY <1>1, <1>9 DEF Inv, PendingIsAlone, Pending
<1>13. kept' \subseteq kept
  BY <1>1
<1>14. HaveModules(op.read.rules)
  BY <1>1 DEF Inv, FilesHaveModules
<1>15. FilesHaveModules'
  <2>1. ASSUME NEW i \in DOMAIN new, is_wasm(new[i]), new[i].id \in kept
        PROVE  store[new[i].id] = <<new[i].body.sha>>
    <3>1. ~(op.edit.what \in {"add", "update"} /\ new[i] = op.edit.rule)
      BY <1>11, <1>12, <2>1
    <3>2. PICK j \in DOMAIN op.read.rules : Alike(new[i], op.read.rules[j])
      BY <1>4, <2>1, <3>1
    <3>. QED  BY <1>14, <2>1, <3>2 DEF Alike, is_wasm, HaveModules
  <2>2. HaveModules(file.rules)'
    BY <1>1, <1>13, <2>1 DEF HaveModules
  <2>3. HaveModules(op.read.rules)'
    BY <1>1, <1>6, <1>13, <1>14 DEF HaveModules
  <2>. QED  BY <2>2, <2>3 DEF FilesHaveModules
<1>16. EditsAreCurrent'
  BY <1>1, <1>3, <1>6 DEF Inv, EditsAreCurrent
<1>17. \A i \in DOMAIN op.read.rules : op.read.rules[i].id = NewId => used.drawn /\ Pending = {}
  BY <1>1 DEF Inv, PendingIsAlone
<1>18. PendingIsAlone'
  <2>1. ASSUME NEW i \in DOMAIN new, new[i].id = NewId
        PROVE  used.drawn /\ \A r \in Pending : new[i].body = r.body
    <3>1. CASE op.edit.what \in {"add", "update"} /\ new[i] = op.edit.rule
      <4>1. CASE op.edit.what = "add" /\ is_wasm(op.edit.rule)
        BY <1>12, <3>1, <4>1
      <4>2. CASE op.edit.what = "add" /\ ~is_wasm(op.edit.rule)
        BY <1>2, <3>1, <4>2, <2>1 DEF Edits
      <4>3. CASE op.edit.what = "update"
        BY <1>2, <3>1, <4>3, <2>1 DEF Edits
      <4>. QED  BY <3>1, <4>1, <4>2, <4>3
    <3>2. CASE \E j \in DOMAIN op.read.rules : Alike(new[i], op.read.rules[j])
      BY <1>17, <2>1, <3>2 DEF Alike
    <3>. QED  BY <1>4, <2>1, <3>1, <3>2
  <2>2. /\ \A r \in Pending' :
            /\ is_wasm(r) /\ r.id = NewId /\ used'.drawn /\ NewId \notin kept'
            /\ NewId \notin used'.touched => store'[NewId] = <<r.body.sha>>
        /\ ~used'.drawn => NewId \notin kept'
    BY <1>1, <1>5, <1>10, <1>13 DEF Inv, PendingIsAlone
  <2>. QED  BY <1>1, <1>5, <1>6, <1>10, <1>17, <2>1, <2>2 DEF PendingIsAlone
<1>19. TimesTell'
  <2>1. op.compared \in Nat /\ op.compared <= used.clock
    BY <1>1 DEF Inv, TimesTell, Editings
  <2>. QED  BY <1>1, <1>5, <1>6, <2>1 DEF TimesTell
<1>. QED  BY <1>8, <1>15, <1>16, <1>18, <1>19 DEF Inv

\* The file's new time is noted.
LEMMA AfterStatInv ==
    ASSUME Inv, AfterStat
    PROVE  Inv'
<1>0. TypeOK
  BY DEF Inv
<1>1. /\ op \in Editings /\ op.pc = "stat" /\ UNCHANGED <<file, config, store, kept, used>>
      /\ op' = [op EXCEPT !.pc = "text", !.mtime = MtimeOf(file)]
  BY <1>0, OpKinds DEF AfterStat
<1>2. MtimeOf(file) \in Nat
  BY <1>0 DEF TypeOK, MtimeOf
<1>3. /\ op' \in Editings /\ op'.edit = op.edit /\ op'.read = op.read /\ op'.pc = "text"
      /\ op'.compared = op.compared
  BY <1>1, <1>2 DEF Editings
<1>4. op.compared <= used.clock
  BY <1>1 DEF Inv, TimesTell
<1>. QED  BY <1>1, <1>3, <1>4, EditGoesOn

\* The file was broken meanwhile: a registration is taken back.
LEMMA AfterFailsInv ==
    ASSUME Inv, AfterFails
    PROVE  Inv'
<1>0. TypeOK
  BY DEF Inv
<1>1. /\ op \in Editings /\ op' = Idle /\ Unstore /\ UNCHANGED <<file, config, kept, used>>
  BY <1>0, OpKinds DEF AfterFails
<1>2. DOMAIN store' = Paths /\ \A p \in kept \cap Paths : store'[p] = store[p]
  BY <1>1, Unstored
<1>3. used \in Uses
  BY <1>0 DEF TypeOK
<1>. QED  BY <1>1, <1>2, <1>3, EditEnds

\* An edit is done: a deleted rule's module goes, a registration is
\* acknowledged.
LEMMA AfterDoneInv ==
    ASSUME Inv, AfterDone
    PROVE  Inv'
<1>0. TypeOK
  BY DEF Inv
<1>1. op \in Editings /\ op.pc = "rest" /\ op' = Idle /\ UNCHANGED <<file, config, used>>
  BY <1>0, OpKinds DEF AfterDone
<1>2. op.edit \in Edits /\ op.read.rules \in Seq(Rule)
  BY <1>1 DEF Editings
<1>3. used \in Uses /\ DOMAIN store = Paths
  BY <1>0 DEF TypeOK
<1>4. CASE op.edit.what = "delete"
  <2>1. ensure_rule_is_current(op.read.rules, op.edit.expected)
        /\ op.edit.expected.id \notin kept
    BY <1>1, <1>4 DEF Inv, EditsAreCurrent
  <2>2. op.edit.expected \in Rule
    BY <1>2, <2>1, CurrentIsThere
  <2>3. is_wasm(op.edit.expected) => op.edit.expected.body.path = op.edit.expected.id
    BY <2>2 DEF Rule
  <2>4. kept' = kept /\ remove_stored_module(op.edit.expected)
    BY <1>4 DEF AfterDone
  <2>5. DOMAIN store' = Paths /\ \A p \in kept \cap Paths : store'[p] = store[p]
    BY <1>3, <2>1, <2>3, <2>4 DEF remove_stored_module
  <2>. QED  BY <1>1, <1>3, <2>4, <2>5, EditEnds
<1>5. CASE op.edit.what # "delete" /\ ~(op.edit.what = "add" /\ is_wasm(op.edit.rule))
  <2>1. UNCHANGED <<kept, store>>
    BY <1>5 DEF AfterDone
  <2>. QED  BY <1>1, <1>3, <2>1, EditEnds
<1>6. CASE op.edit.what = "add" /\ is_wasm(op.edit.rule)
  <2>1. op \notin Admissions /\ Idle \notin Editings /\ Idle \notin Admissions
    BY <1>1 DEF Editings, Admissions, Idle
  <2>2. Pending = {op.edit.rule} /\ Pending' = {}
    BY <1>1, <1>6, <2>1 DEF Pending
  <2>3. /\ op.edit.rule.id = NewId /\ used.drawn
        /\ NewId \notin used.touched => store[NewId] = <<op.edit.rule.body.sha>>
    BY <2>2 DEF Inv, PendingIsAlone
  <2>4. store' = store /\ kept' = kept \cup ({NewId} \ used.touched)
    BY <1>6, <2>3 DEF AfterDone
  <2>5. TypeOK'
    BY <1>0, <1>1, <2>4 DEF TypeOK
  <2>6. HaveModules(file.rules)'
    <3>. SUFFICES ASSUME NEW i \in DOMAIN file.rules, is_wasm(file.rules[i]),
                         file.rules[i].id \in kept'
                  PROVE  store[file.rules[i].id] = <<file.rules[i].body.sha>>
      BY <1>1, <2>4 DEF HaveModules
    <3>1. CASE file.rules[i].id \in kept
      BY <3>1 DEF Inv, FilesHaveModules, HaveModules
    <3>2. CASE file.rules[i].id \notin kept
      <4>1. file.rules[i].id = NewId /\ NewId \notin used.touched
        BY <2>4, <3>2
      <4>2. file.rules[i].body = op.edit.rule.body
        BY <2>2, <4>1 DEF Inv, PendingIsAlone
      <4>. QED  BY <2>3, <4>1, <4>2
    <3>. QED  BY <3>1, <3>2
  <2>7. FilesHaveModules' /\ EditsAreCurrent'
    BY <1>1, <2>1, <2>6 DEF FilesHaveModules, EditsAreCurrent
  <2>8. PendingIsAlone'
    BY <1>1, <2>1, <2>2, <2>3 DEF Inv, PendingIsAlone
  <2>9. TimesTell'
    BY <1>1, <2>1 DEF Inv, TimesTell
  <2>. QED  BY <2>5, <2>7, <2>8, <2>9 DEF Inv
<1>. QED  BY <1>4, <1>5, <1>6

\* A registration draws its id and stores its module.
LEMMA AddWasmInv ==
    ASSUME Inv, add_wasm_rule
    PROVE  Inv'
<1>0. TypeOK
  BY DEF Inv
<1>1. PICK module \in NewModules, all \in BOOLEAN, requested \in Requests :
        /\ Registrable(module, requested, all)
        /\ op' = [kind |-> "admit", pc |-> "admit",
                  rule |-> NewRule(module, registration_grant(module, requested, all), <<>>)]
        /\ store' = [store EXCEPT ![NewId] = <<module>>]
  BY DEF add_wasm_rule
<1>. DEFINE r == NewRule(module, registration_grant(module, requested, all), <<>>)
<1>2. /\ op = Idle /\ ~used.drawn /\ UNCHANGED <<file, config, kept>>
      /\ used' = [used EXCEPT !.edits = @ + 1, !.drawn = TRUE]
  BY DEF add_wasm_rule
<1>3. r \in NewRules
  <2>1. <<module, requested, all>> \in
            {x \in NewModules \X Requests \X BOOLEAN : Registrable(x[1], x[2], x[3])}
    BY <1>1
  <2>. QED  BY <2>1 DEF NewRules
<1>4. r \in Rule /\ is_wasm(r) /\ r.id = NewId /\ r.body.sha = module
  BY <1>3, WrittenAreRules DEF NewRule
<1>. HIDE DEF r
<1>5. op' = [kind |-> "admit", pc |-> "admit", rule |-> r]
  BY <1>1 DEF r
<1>6. op' \in Admissions /\ op' \notin Editings /\ op'.rule = r
  BY <1>4, <1>5 DEF Admissions, Editings
<1>7. /\ used' \in Uses /\ used'.clock = used.clock /\ used'.drawn
      /\ used'.touched = used.touched
  <2>1. used \in Uses
    BY <1>0 DEF TypeOK
  <2>2. used' = [used EXCEPT !.edits = @ + 1, !.drawn = TRUE]
    BY <1>2
  <2>. QED  BY <2>1, <2>2, Drawn
<1>8. DOMAIN store' = Paths /\ store'[NewId] = <<module>>
      /\ \A p \in Paths \ {NewId} : store'[p] = store[p]
  BY <1>0, <1>1, RuleAssumption DEF TypeOK
<1>9. TypeOK'
  BY <1>0, <1>2, <1>6, <1>7, <1>8 DEF TypeOK
<1>10. Pending' = {r}
  BY <1>6 DEF Pending
<1>11. NewId \notin kept /\ \A i \in DOMAIN file.rules : file.rules[i].id # NewId
  BY <1>2 DEF Inv, PendingIsAlone
<1>12. \A i \in DOMAIN file.rules : is_wasm(file.rules[i]) => file.rules[i].id \in Paths
  BY <1>0 DEF TypeOK, Rule
<1>13. HaveModules(file.rules)'
  BY <1>2, <1>8, <1>11, <1>12 DEF Inv, FilesHaveModules, HaveModules
<1>14. FilesHaveModules' /\ EditsAreCurrent'
  BY <1>6, <1>13 DEF FilesHaveModules, EditsAreCurrent
<1>15. PendingIsAlone'
  BY <1>2, <1>4, <1>6, <1>7, <1>8, <1>10, <1>11 DEF PendingIsAlone
<1>16. TimesTell'
  BY <1>2, <1>6, <1>7 DEF Inv, TimesTell
<1>. QED  BY <1>9, <1>14, <1>15, <1>16 DEF Inv

\* The registered rule is admitted, or its module taken out again.
LEMMA AdmitInv ==
    ASSUME Inv, admit_rule
    PROVE  Inv'
<1>0. TypeOK
  BY DEF Inv
<1>1. op \in Admissions /\ UNCHANGED <<file, config, kept, used>>
  BY <1>0, OpKinds DEF admit_rule
<1>2. Pending = {op.rule} /\ op.rule \in Rule
  BY <1>1 DEF Pending, Admissions
<1>3. is_wasm(op.rule) /\ op.rule.id = NewId /\ NewId \notin kept
  BY <1>2 DEF Inv, PendingIsAlone
<1>4. used \in Uses /\ DOMAIN store = Paths
  BY <1>0 DEF TypeOK
<1>. DEFINE e == [what |-> "add", rule |-> op.rule]
<1>5. CASE /\ file.state # "broken" /\ Applies(RulesIn(file), e)
           /\ Prepare(e, install_rule_module(daemon, op.rule))
           /\ UNCHANGED store
  <2>1. e \in Edits
    BY <1>2, <1>3 DEF Edits
  <2>2. op' = Editing(e, [state |-> file.state, rules |-> RulesIn(file)])
    BY <1>5 DEF Prepare
  <2>3. op # Idle /\ e.what = "add" /\ e.rule = op.rule
    BY <1>1 DEF Admissions, Idle
  <2>. HIDE DEF e
  <2>. QED  BY <1>1, <1>4, <1>5, <2>1, <2>2, <2>3, EditBegins
<1>6. CASE op' = Idle /\ remove_stored_module(op.rule)
  <2>1. op.rule.body.path = NewId
    BY <1>2, <1>3 DEF Rule
  <2>2. store' = [store EXCEPT ![NewId] = <<>>]
    BY <1>3, <1>6, <2>1 DEF remove_stored_module
  <2>3. DOMAIN store' = Paths /\ \A p \in kept \cap Paths : store'[p] = store[p]
    BY <1>3, <1>4, <2>2
  <2>. QED  BY <1>1, <1>4, <1>6, <2>3, EditEnds
<1>. QED  BY <1>5, <1>6 DEF admit_rule

\* A file with other rules.
LEMMA NewRulesField ==
    ASSUME NEW f, f = [state |-> f.state, rules |-> f.rules, mtime |-> f.mtime], NEW x
    PROVE  LET g == [f EXCEPT !.rules = x]
           IN  /\ g.state = f.state /\ g.rules = x
               /\ g = [state |-> g.state, rules |-> g.rules, mtime |-> g.mtime]
OBVIOUS

\* The user's own saves of the rules file.
LEMMA HandInv ==
    ASSUME Inv, HandEnable \/ HandAdd \/ HandRemove \/ HandBreak \/ HandRepair \/ HandUnlink
    PROVE  Inv'
<1>0. /\ file \in [state : States, rules : Seq(Rule), mtime : Nat]
      /\ file = [state |-> file.state, rules |-> file.rules, mtime |-> file.mtime]
  BY DEF Inv, TypeOK
<1>1. CASE HandEnable
  <2>1. PICK i \in DOMAIN file.rules : Save([file EXCEPT !.rules[i].enabled = ~@])
    BY <1>1 DEF HandEnable
  <2>2. file.state = "ok" /\ kept' = kept
    BY <1>1 DEF HandEnable
  <2>. DEFINE f == [file EXCEPT !.rules[i].enabled = ~@]
              t == [file.rules[i] EXCEPT !.enabled = ~@]
  <2>3. t \in Rule /\ Alike(t, file.rules[i])
    BY <1>0, Switched DEF Alike
  <2>4. /\ f.state = "ok" /\ f.rules = [file.rules EXCEPT ![i] = t]
        /\ f = [state |-> f.state, rules |-> f.rules, mtime |-> f.mtime]
    <3>. DEFINE x == [file.rules EXCEPT ![i] = t]
                g == [file EXCEPT !.rules = x]
    <3>1. f = g
      BY <1>0
    <3>. HIDE DEF x
    <3>2. /\ g.state = "ok" /\ g.rules = x
          /\ g = [state |-> g.state, rules |-> g.rules, mtime |-> g.mtime]
      BY <1>0, <2>2, NewRulesField, Zenon
    <3>. HIDE DEF f, g
    <3>. QED  BY <3>1, <3>2 DEF x
  <2>. HIDE DEF f, t
  <2>5. /\ f.rules \in Seq(Rule) /\ DOMAIN f.rules = DOMAIN file.rules
        /\ \A j \in DOMAIN f.rules : f.rules[j] = IF j = i THEN t ELSE file.rules[j]
    BY <1>0, <2>3, <2>4
  <2>6. \A j \in DOMAIN f.rules : \E k \in DOMAIN file.rules : Alike(f.rules[j], file.rules[k])
    BY <2>3, <2>5 DEF Alike
  <2>7. Save(f)
    BY <2>1 DEF f
  <2>. QED  BY <2>2, <2>4, <2>5, <2>6, <2>7, SavedByHand DEF States
<1>2. CASE HandAdd
  <2>1. PICK r \in HandRules : Save([file EXCEPT !.rules = Append(@, r)])
    BY <1>2 DEF HandAdd
  <2>2. file.state = "ok" /\ kept' = kept
    BY <1>2 DEF HandAdd
  <2>. DEFINE f == [file EXCEPT !.rules = Append(@, r)]
  <2>3. r \in Rule /\ ~is_wasm(r) /\ r.id # NewId
    BY WrittenAreRules
  <2>4. /\ f.state = "ok" /\ f.rules = Append(file.rules, r)
        /\ f = [state |-> f.state, rules |-> f.rules, mtime |-> f.mtime]
    BY <1>0, <2>2, NewRulesField
  <2>. HIDE DEF f
  <2>5. /\ f.rules \in Seq(Rule)
        /\ \A j \in DOMAIN f.rules :
              f.rules[j] = r \/ (j \in DOMAIN file.rules /\ f.rules[j] = file.rules[j])
    BY <1>0, <2>3, <2>4
  <2>7. Save(f)
    BY <2>1 DEF f
  <2>. QED  BY <2>2, <2>3, <2>4, <2>5, <2>7, SavedByHand DEF States, Alike
<1>3. CASE HandRemove
  <2>1. PICK i \in DOMAIN file.rules :
            /\ Save([file EXCEPT !.rules = RemoveAt(@, i)])
            /\ kept' = kept \ {file.rules[i].id}
    BY <1>3 DEF HandRemove
  <2>2. file.state = "ok"
    BY <1>3 DEF HandRemove
  <2>. DEFINE f == [file EXCEPT !.rules = RemoveAt(@, i)]
  <2>4. /\ f.state = "ok" /\ f.rules = RemoveAt(file.rules, i)
        /\ f = [state |-> f.state, rules |-> f.rules, mtime |-> f.mtime]
    BY <1>0, <2>2
  <2>. HIDE DEF f
  <2>5. f.rules \in Seq(Rule)
    BY <1>0, <2>4, RemoveAtProperties
  <2>6. \A j \in DOMAIN f.rules : \E k \in DOMAIN file.rules : f.rules[j] = file.rules[k]
    BY <1>0, <2>4, RemovedFrom
  <2>7. Save(f)
    BY <2>1 DEF f
  <2>. QED  BY <2>1, <2>2, <2>4, <2>5, <2>6, <2>7, SavedByHand DEF States, Alike
<1>4. CASE HandBreak \/ HandRepair
  <2>1. PICK s \in {"ok", "broken"} : Save([file EXCEPT !.state = s])
    BY <1>4 DEF HandBreak, HandRepair
  <2>2. file.state # "missing" /\ kept' = kept
    BY <1>4 DEF HandBreak, HandRepair
  <2>. DEFINE f == [file EXCEPT !.state = s]
  <2>4. /\ f.state = s /\ f.rules = file.rules
        /\ f = [state |-> f.state, rules |-> f.rules, mtime |-> f.mtime]
    BY <1>0
  <2>. HIDE DEF f
  <2>7. Save(f)
    BY <2>1 DEF f
  <2>. QED  BY <1>0, <2>2, <2>4, <2>7, SavedByHand DEF States, Alike
<1>5. CASE HandUnlink
  <2>. DEFINE f == [state |-> "missing", rules |-> <<>>, mtime |-> 0]
  <2>1. Save(f) /\ file.state = "ok" /\ kept' = {}
    BY <1>5 DEF HandUnlink
  <2>2. f.rules = <<>> /\ f.state = "missing"
        /\ f = [state |-> f.state, rules |-> f.rules, mtime |-> f.mtime]
    OBVIOUS
  <2>. HIDE DEF f
  <2>3. f.rules \in Seq(Rule) /\ DOMAIN f.rules = {}
    BY <2>2
  <2>. QED  BY <2>1, <2>2, <2>3, SavedByHand DEF States
<1>. QED  BY <1>1, <1>2, <1>3, <1>4, <1>5

\* A module that is touched takes its rule off the acknowledged ones.
LEMMA TamperInv ==
    ASSUME Inv, Tamper
    PROVE  Inv'
<1>0. TypeOK
  BY DEF Inv
<1>1. PICK p \in Paths :
        /\ \E to : store' = [store EXCEPT ![p] = to]
        /\ kept' = kept \ {p}
        /\ used' = [used EXCEPT !.saves = @ + 1, !.touched = @ \cup {p}]
  BY DEF Tamper
<1>2. UNCHANGED <<file, config, op>>
  BY DEF Tamper
<1>3. DOMAIN store' = Paths /\ \A q \in Paths \ {p} : store'[q] = store[q]
  BY <1>0, <1>1 DEF TypeOK
<1>4. /\ used' \in Uses /\ used'.clock = used.clock /\ used'.drawn = used.drawn
      /\ used'.touched = used.touched \cup {p}
  <2>1. used \in Uses
    BY <1>0 DEF TypeOK
  <2>. QED  BY <1>1, <2>1, Touched
<1>5. TypeOK'
  BY <1>0, <1>2, <1>3, <1>4 DEF TypeOK
<1>6. Pending' = Pending
  BY <1>2 DEF Pending
<1>7. ASSUME NEW rules \in Seq(Rule), HaveModules(rules) PROVE HaveModules(rules)'
  <2>1. \A i \in DOMAIN rules : is_wasm(rules[i]) => rules[i].id \in Paths
    BY DEF Rule
  <2>. QED  BY <1>1, <1>3, <1>7, <2>1 DEF HaveModules
<1>8. file.rules \in Seq(Rule) /\ (op \in Editings => op.read.rules \in Seq(Rule))
  BY <1>0 DEF TypeOK, Editings
<1>9. HaveModules(file.rules)' /\ (op \in Editings => HaveModules(op.read.rules)')
  <2>1. HaveModules(file.rules) /\ (op \in Editings => HaveModules(op.read.rules))
    BY DEF Inv, FilesHaveModules
  <2>. QED  BY <1>2, <1>7, <1>8, <2>1 DEF HaveModules
<1>10. FilesHaveModules' /\ EditsAreCurrent'
  BY <1>1, <1>2, <1>9 DEF Inv, FilesHaveModules, EditsAreCurrent
<1>11. PendingIsAlone'
  BY <1>1, <1>2, <1>3, <1>4, <1>6, RuleAssumption DEF Inv, PendingIsAlone
<1>12. TimesTell'
  BY <1>2, <1>4 DEF Inv, TimesTell, MtimeOf, RulesIn
<1>. QED  BY <1>5, <1>10, <1>11, <1>12 DEF Inv

\* Asks, the configuration and the client's view leave the rules alone; a crash
\* ends what was under way.
LEMMA OtherInv ==
    ASSUME Inv, ArriveAsk \/ Evaluate \/ Refresh \/ SaveConfig \/ Crash \/ UNCHANGED vars
    PROVE  Inv'
<1>0. /\ used \in Uses /\ config \in Configs
      /\ DOMAIN store = Paths
  BY DEF Inv, TypeOK
<1>1. CASE ArriveAsk
  <2>1. UNCHANGED <<file, config, store, op, kept>> /\ used' = [used EXCEPT !.asks = @ + 1]
    BY <1>1 DEF ArriveAsk
  <2>2. /\ used' \in Uses /\ used'.clock = used.clock /\ used'.drawn = used.drawn
        /\ used'.touched = used.touched /\ used.clock \in Nat
    BY <1>0, <2>1 DEF Uses
  <2>. QED  BY <1>0, <2>1, <2>2, RulesAlone
<1>2. CASE Evaluate \/ Refresh \/ UNCHANGED vars
  <2>1. UNCHANGED <<file, config, store, op, kept, used>>
    BY <1>2 DEF Evaluate, Refresh, vars
  <2>2. used.clock \in Nat
    BY <1>0 DEF Uses
  <2>. QED  BY <1>0, <2>1, <2>2, RulesAlone
<1>3. CASE SaveConfig
  <2>1. /\ UNCHANGED <<file, store, op, kept>>
        /\ used' = [used EXCEPT !.clock = @ + 1, !.saves = @ + 1]
    BY <1>3 DEF SaveConfig, Tick
  <2>2. /\ used' \in Uses /\ used'.clock = used.clock + 1 /\ used'.drawn = used.drawn
        /\ used'.touched = used.touched
    BY <1>0, <2>1, Counted
  <2>3. used.clock \in Nat
    BY <1>0 DEF Uses
  <2>4. config' \in Configs
    <3>1. PICK c \in {[ok |-> FALSE, wraps |-> Wraps], [ok |-> TRUE, wraps |-> {}]} :
              config' = [ok |-> c.ok, wraps |-> c.wraps, mtime |-> used.clock + 1]
      BY <1>3 DEF SaveConfig, Fresh
    <3>2. CASE c = [ok |-> FALSE, wraps |-> Wraps]
      <4>1. c.ok = FALSE /\ c.wraps = Wraps
        BY <3>2
      <4>2. config' = [ok |-> FALSE, wraps |-> Wraps, mtime |-> used.clock + 1]
        BY <3>1, <4>1, Zenon
      <4>3. used.clock + 1 \in Nat
        BY <2>3
      <4>4. FALSE \in BOOLEAN /\ Wraps \in {Wraps, {}}
        BY Zenon
      <4>. QED  BY <4>2, <4>3, <4>4, Zenon DEF Configs
    <3>3. CASE c = [ok |-> TRUE, wraps |-> {}]
      <4>1. c.ok = TRUE /\ c.wraps = {}
        BY <3>3
      <4>2. config' = [ok |-> TRUE, wraps |-> {}, mtime |-> used.clock + 1]
        BY <3>1, <4>1, Zenon
      <4>3. used.clock + 1 \in Nat
        BY <2>3
      <4>4. TRUE \in BOOLEAN /\ {} \in {Wraps, {}}
        BY Zenon
      <4>. QED  BY <4>2, <4>3, <4>4, Zenon DEF Configs
    <3>. QED  BY <3>2, <3>3
  <2>. QED  BY <2>1, <2>2, <2>3, <2>4, RulesAlone
<1>4. CASE Crash
  <2>1. /\ UNCHANGED <<file, config, store, kept>> /\ op' = Idle
        /\ used' = [used EXCEPT !.saves = @ + 1]
    BY <1>4 DEF Crash
  <2>2. used' \in Uses /\ used'.clock = used.clock /\ used'.drawn = used.drawn
    BY <1>0, <2>1 DEF Uses
  <2>. QED  BY <1>0, <2>1, <2>2, EditEnds
<1>. QED  BY <1>1, <1>2, <1>3, <1>4

\* Inv is an invariant: of reloads, edits, registrations, saves and crashes in
\* any order (State's rule operations and rules::edit_rule).
THEOREM Invariance == Spec => []Inv
<1>1. Init => Inv
  BY InitInv
<1>2. Inv /\ [Next]_vars => Inv'
  <2>. SUFFICES ASSUME Inv, [Next]_vars PROVE Inv'
    OBVIOUS
  <2>1. CASE AskReloads \/ MessageReloads \/ ReloadFails \/ ReloadDone
    BY <2>1, ReloadInv
  <2>2. CASE LoadText
    BY <2>2, LoadTextInv
  <2>3. CASE BeginEdit
    BY <2>3, BeginEditInv
  <2>4. CASE Compare
    BY <2>4, CompareInv
  <2>5. CASE Replace
    BY <2>5, ReplaceInv
  <2>6. CASE AfterStat
    BY <2>6, AfterStatInv
  <2>7. CASE AfterFails
    BY <2>7, AfterFailsInv
  <2>8. CASE AfterDone
    BY <2>8, AfterDoneInv
  <2>9. CASE add_wasm_rule
    BY <2>9, AddWasmInv
  <2>10. CASE admit_rule
    BY <2>10, AdmitInv
  <2>11. CASE HandEnable \/ HandAdd \/ HandRemove \/ HandBreak \/ HandRepair \/ HandUnlink
    BY <2>11, HandInv
  <2>12. CASE Tamper
    BY <2>12, TamperInv
  <2>13. CASE ArriveAsk \/ Evaluate \/ Refresh \/ SaveConfig \/ Crash \/ UNCHANGED vars
    BY <2>13, OtherInv
  <2>. QED  BY <2>1, <2>2, <2>3, <2>4, <2>5, <2>6, <2>7, <2>8, <2>9, <2>10, <2>11, <2>12,
               <2>13 DEF Next
<1>. QED  BY <1>1, <1>2, PTL DEF Spec

\* An acknowledged rule in the file has the module it pins, whatever fails,
\* crashes or is saved meanwhile (State::add_wasm_rule,
\* delete_rule_if_unchanged, remove_stored_module).
THEOREM RuleHasModuleHolds == Spec => []RuleHasModule
<1>1. Inv => RuleHasModule
  <2>. SUFFICES ASSUME Inv, NEW r \in ToSet(file.rules), is_wasm(r), r.id \in kept
                PROVE  store[r.body.path] = <<r.body.sha>>
    BY DEF RuleHasModule
  <2>1. PICK i \in DOMAIN file.rules : r = file.rules[i]
    BY DEF ToSet
  <2>2. r \in Rule
    BY <2>1 DEF Inv, TypeOK
  <2>3. r.body.path = r.id
    BY <2>2 DEF Rule
  <2>. QED  BY <2>1, <2>3 DEF Inv, FilesHaveModules, HaveModules
<1>. QED  BY <1>1, Invariance, PTL

-----------------------------------------------------------------------------
(* What an edit keeps. *)

\* A rule at the end changes no other place.
LEMMA AddKeepsOthers ==
    ASSUME NEW rules \in Seq(Rule), NEW r \in Rule
    PROVE  Others(Append(rules, r), r.id) = Others(rules, r.id)
<1>. DEFINE new == Append(rules, r)
            id == r.id
<1>1. /\ DOMAIN new = 1..(Len(rules) + 1) /\ DOMAIN rules = 1..Len(rules) /\ Len(rules) \in Nat
      /\ \A i \in 1..Len(rules) : new[i] = rules[i]
      /\ new[Len(rules) + 1] = r
  OBVIOUS
<1>. HIDE DEF new
<1>2. {k \in DOMAIN new : new[k].id # id} = {k \in DOMAIN rules : rules[k].id # id}
  BY <1>1
<1>3. ASSUME NEW i \in DOMAIN rules
      PROVE  {j \in 1..(i - 1) : new[j].id # id} = {j \in 1..(i - 1) : rules[j].id # id}
             /\ new[i] = rules[i]
  BY <1>1
<1>4. \A i \in {k \in DOMAIN rules : rules[k].id # id} :
        <<Cardinality({j \in 1..(i - 1) : new[j].id # id}), new[i]>>
            = <<Cardinality({j \in 1..(i - 1) : rules[j].id # id}), rules[i]>>
  BY <1>3
<1>5. Others(new, id) = Others(rules, id)
  BY <1>2, <1>4 DEF Others
<1>. QED  BY <1>5 DEF new

\* Nor does another rule with the same id in the place of the old one.
LEMMA UpdateKeepsOthers ==
    ASSUME NEW rules \in Seq(Rule), NEW k \in DOMAIN rules, NEW r \in Rule,
           r.id = rules[k].id
    PROVE  Others([rules EXCEPT ![k] = r], r.id) = Others(rules, r.id)
<1>. DEFINE new == [rules EXCEPT ![k] = r]
            id == r.id
<1>1. /\ DOMAIN new = DOMAIN rules /\ DOMAIN rules = 1..Len(rules) /\ Len(rules) \in Nat
      /\ \A i \in DOMAIN rules : new[i] = IF i = k THEN r ELSE rules[i]
  OBVIOUS
<1>. HIDE DEF new
<1>2. {i \in DOMAIN new : new[i].id # id} = {i \in DOMAIN rules : rules[i].id # id}
  BY <1>1
<1>3. ASSUME NEW i \in DOMAIN rules
      PROVE  {j \in 1..(i - 1) : new[j].id # id} = {j \in 1..(i - 1) : rules[j].id # id}
  BY <1>1
<1>4. \A i \in {j \in DOMAIN rules : rules[j].id # id} :
        <<Cardinality({j \in 1..(i - 1) : new[j].id # id}), new[i]>>
            = <<Cardinality({j \in 1..(i - 1) : rules[j].id # id}), rules[i]>>
  BY <1>1, <1>3
<1>5. Others(new, id) = Others(rules, id)
  BY <1>2, <1>4 DEF Others
<1>. QED  BY <1>5 DEF new

\* A rule that is taken out moves the later ones up, past none of the others.
LEMMA DeleteKeepsOthers ==
    ASSUME NEW rules \in Seq(Rule), NEW k \in DOMAIN rules
    PROVE  Others(RemoveAt(rules, k), rules[k].id) = Others(rules, rules[k].id)
<1>. DEFINE new == RemoveAt(rules, k)
            id == rules[k].id
            Up(i) == IF i < k THEN i ELSE i + 1
            N == Len(rules)
<1>1. /\ new \in Seq(Rule) /\ Len(new) = N - 1
      /\ \A i \in 1..(N - 1) : new[i] = rules[Up(i)]
  BY RemoveAtProperties
<1>2. /\ DOMAIN rules = 1..N /\ N \in Nat /\ k \in 1..N /\ DOMAIN new = 1..(N - 1)
  BY <1>1
<1>. HIDE DEF new
<1>3. ASSUME NEW i \in 1..(N - 1)
      PROVE  Cardinality({j \in 1..(i - 1) : new[j].id # id})
                = Cardinality({j \in 1..(Up(i) - 1) : rules[j].id # id})
  <2>. DEFINE S == {j \in 1..(i - 1) : new[j].id # id}
              T == {j \in 1..(Up(i) - 1) : rules[j].id # id}
              f == [j \in S |-> Up(j)]
  <2>1. IsFiniteSet(S)
    <3>1. 1 \in Int /\ i - 1 \in Int
      BY <1>2
    <3>2. IsFiniteSet(1..(i - 1))
      BY <3>1, FS_Interval
    <3>. QED  BY <3>2, FS_Subset
  <2>2. \A j \in S : Up(j) \in T
    <3>. SUFFICES ASSUME NEW j \in S PROVE Up(j) \in T
      OBVIOUS
    <3>1. j \in 1..(N - 1) /\ j < i /\ new[j].id # id
      BY <1>2
    <3>2. rules[Up(j)].id # id
      BY <1>1, <3>1
    <3>3. Up(j) \in 1..(Up(i) - 1)
      BY <1>2, <3>1
    <3>. QED  BY <3>2, <3>3
  <2>3. \A j, l \in S : Up(j) = Up(l) => j = l
    BY <1>2
  <2>4. ASSUME NEW t \in T PROVE \E j \in S : Up(j) = t
    <3>1. t # k /\ t \in 1..(Up(i) - 1) /\ rules[t].id # id
      OBVIOUS
    <3>. DEFINE j == IF t < k THEN t ELSE t - 1
    <3>2. j \in 1..(i - 1) /\ Up(j) = t /\ j \in 1..(N - 1)
      BY <1>2, <3>1
    <3>. HIDE DEF j
    <3>3. new[j].id # id
      BY <1>1, <3>1, <3>2
    <3>. QED  BY <3>2, <3>3
  <2>. HIDE DEF S, T, Up
  <2>5. f \in Bijection(S, T)
    <3>1. f \in [S -> T] /\ \A j \in S : f[j] = Up(j)
      BY <2>2
    <3>2. f \in Injection(S, T)
      BY <2>3, <3>1, Fun_IsInj
    <3>3. \A t \in T : \E j \in S : f[j] = t
      BY <2>4, <3>1
    <3>4. f \in Surjection(S, T)
      BY <3>1, <3>3, Fun_IsSurj
    <3>. QED  BY <3>2, <3>4 DEF Bijection
  <2>6. ExistsBijection(S, T)
    BY <2>5 DEF ExistsBijection
  <2>7. Cardinality(S) = Cardinality(T)
    BY <2>1, <2>6, FS_Bijection
  <2>. QED  BY <2>7 DEF S, T
<1>. DEFINE Pair(i) == <<Cardinality({j \in 1..(i - 1) : rules[j].id # id}), rules[i]>>
            NewPair(i) == <<Cardinality({j \in 1..(i - 1) : new[j].id # id}), new[i]>>
            A == {i \in DOMAIN rules : rules[i].id # id}
            B == {i \in DOMAIN new : new[i].id # id}
<1>4. \A i \in B : Up(i) \in A /\ NewPair(i) = Pair(Up(i))
  <2>. SUFFICES ASSUME NEW i \in B PROVE Up(i) \in A /\ NewPair(i) = Pair(Up(i))
    OBVIOUS
  <2>1. i \in 1..(N - 1) /\ new[i].id # id /\ new[i] = rules[Up(i)]
    BY <1>1, <1>2
  <2>2. Up(i) \in 1..N
    BY <1>2, <2>1
  <2>. QED  BY <1>2, <1>3, <2>1, <2>2
<1>5. \A t \in A : \E i \in B : Up(i) = t
  <2>. SUFFICES ASSUME NEW t \in A PROVE \E i \in B : Up(i) = t
    OBVIOUS
  <2>1. t # k /\ t \in 1..N /\ rules[t].id # id
    BY <1>2
  <2>. DEFINE i == IF t < k THEN t ELSE t - 1
  <2>2. i \in 1..(N - 1) /\ Up(i) = t
    BY <1>2, <2>1
  <2>. HIDE DEF i
  <2>3. new[i].id # id
    BY <1>1, <2>1, <2>2
  <2>. QED  BY <1>2, <2>2, <2>3
<1>6. Others(rules, id) = {Pair(i) : i \in A} /\ Others(new, id) = {NewPair(i) : i \in B}
  BY DEF Others
<1>. HIDE DEF Pair, NewPair, A, B, Up, id
<1>7. {NewPair(i) : i \in B} = {Pair(i) : i \in A}
  BY <1>4, <1>5
<1>8. Others(new, id) = Others(rules, id)
  BY <1>6, <1>7
<1>. QED  BY <1>8 DEF new, id

\* apply_rule_edit leaves every rule but the one it is about, in its place.
LEMMA EditKeepsOthers ==
    ASSUME NEW rules \in Seq(Rule), NEW e \in Edits,
           e.what # "add" => ensure_rule_is_current(rules, e.expected),
           e.what = "update" => e.expected.id = e.rule.id
    PROVE  Others(apply_rule_edit(rules, e), Target(e)) = Others(rules, Target(e))
<1>. DEFINE k == rule_table_index(rules, e.expected.id)
<1>1. CASE e.what = "add"
  <2>1. e.rule \in Rule /\ Target(e) = e.rule.id
        /\ apply_rule_edit(rules, e) = Append(rules, e.rule)
    BY <1>1 DEF Edits, Target, apply_rule_edit
  <2>. QED  BY <2>1, AddKeepsOthers
<1>2. CASE e.what # "add"
  <2>0. k \in DOMAIN rules /\ rules[k] = e.expected /\ e.expected \in Rule
        /\ Target(e) = e.expected.id
    BY <1>2, CurrentIsThere DEF Target
  <2>1. CASE e.what = "update"
    <3>1. e.rule \in Rule /\ apply_rule_edit(rules, e) = [rules EXCEPT ![k] = e.rule]
      BY <2>1 DEF Edits, apply_rule_edit, merge_rule_table
    <3>2. e.rule.id = rules[k].id
      BY <2>0, <2>1
    <3>. HIDE DEF k
    <3>3. Others([rules EXCEPT ![k] = e.rule], e.rule.id) = Others(rules, e.rule.id)
      BY <2>0, <3>1, <3>2, UpdateKeepsOthers
    <3>4. Target(e) = e.rule.id
      BY <2>0, <3>2
    <3>. QED  BY <3>1, <3>3, <3>4
  <2>2. CASE e.what = "delete"
    <3>1. apply_rule_edit(rules, e) = RemoveAt(rules, k)
      BY <2>2 DEF apply_rule_edit
    <3>. HIDE DEF k
    <3>. QED  BY <2>0, <3>1, DeleteKeepsOthers
  <2>3. CASE e.what = "enable"
    <3>. DEFINE t == [rules[k] EXCEPT !.enabled = ~@]
    <3>1. apply_rule_edit(rules, e) = [rules EXCEPT ![k] = t]
      BY <2>3, <2>0 DEF apply_rule_edit
    <3>2. t \in Rule /\ t.id = rules[k].id
      BY <2>0, Switched
    <3>. HIDE DEF k, t
    <3>3. Others([rules EXCEPT ![k] = t], t.id) = Others(rules, t.id)
      BY <2>0, <3>2, UpdateKeepsOthers
    <3>. QED  BY <2>0, <3>1, <3>2, <3>3
  <2>. QED  BY <1>2, <2>1, <2>2, <2>3 DEF Edits
<1>. QED  BY <1>1, <1>2

\* Only a save by hand and the edit itself write the file.
LEMMA WhoWritesTheFile ==
    ASSUME Inv, [Next]_vars, file'.mtime # file.mtime, used'.saves = used.saves
    PROVE  Replace
<1>0. used \in Uses
  BY DEF Inv, TypeOK
<1>1. used.saves \in Nat
  BY <1>0 DEF Uses
<1>2. ASSUME NEW f, Save(f) PROVE FALSE
  <2>1. used' = [used EXCEPT !.clock = @ + 1, !.saves = @ + 1]
    BY <1>2 DEF Save, Tick
  <2>2. used'.saves = used.saves + 1
    BY <1>0, <2>1, Counted
  <2>. QED  BY <1>1, <2>2
<1>3. ~(HandEnable \/ HandAdd \/ HandRemove \/ HandBreak \/ HandRepair \/ HandUnlink)
  BY <1>2 DEF HandEnable, HandAdd, HandRemove, HandBreak, HandRepair, HandUnlink
<1>4. file' # file
  OBVIOUS
<1>. QED  BY <1>3, <1>4 DEF Next, vars, AskReloads, MessageReloads, ReloadFails, LoadText,
            ReloadDone, ArriveAsk, Evaluate, Refresh, BeginEdit, Compare, AfterStat,
            AfterFails, AfterDone, add_wasm_rule, admit_rule, SaveConfig, Tamper, Crash

\* An edit through the daemon changes no rule but its own, which is still the
\* one its client was shown, in every file, for every edit (rules::edit_rule).
THEOREM HandEditsSurviveHolds == Spec => HandEditsSurvive
<1>1. Inv /\ [Next]_vars =>
        [ op.kind = "edit" /\ op.pc = "replace" /\ file'.mtime # file.mtime
          /\ op.compared = MtimeOf(file) /\ used'.saves = used.saves =>
            LET id == Target(op.edit) IN
            /\ Others(file'.rules, id) = Others(RulesIn(file), id)
            /\ op.edit.what # "add" => op.edit.expected \in ToSet(RulesIn(file)) ]_vars
  <2>. SUFFICES ASSUME Inv, [Next]_vars, op.kind = "edit", op.pc = "replace",
                       file'.mtime # file.mtime, op.compared = MtimeOf(file),
                       used'.saves = used.saves
                PROVE  /\ Others(file'.rules, Target(op.edit))
                             = Others(RulesIn(file), Target(op.edit))
                       /\ op.edit.what # "add" => op.edit.expected \in ToSet(RulesIn(file))
    OBVIOUS
  <2>1. op \in Editings
    BY OpKinds DEF Inv
  <2>2. /\ op.edit \in Edits /\ op.read.rules \in Seq(Rule)
        /\ op.edit.what # "add" => ensure_rule_is_current(op.read.rules, op.edit.expected)
        /\ op.edit.what = "update" => op.edit.expected.id = op.edit.rule.id
    BY <2>1 DEF Inv, EditsAreCurrent, Editings
  <2>3. RulesIn(file) = op.read.rules
    BY <2>1 DEF Inv, TimesTell
  <2>4. file'.rules = apply_rule_edit(op.read.rules, op.edit)
    BY WhoWritesTheFile DEF Replace
  <2>5. Others(file'.rules, Target(op.edit)) = Others(RulesIn(file), Target(op.edit))
    BY <2>2, <2>3, <2>4, EditKeepsOthers
  <2>6. op.edit.what # "add" => op.edit.expected \in ToSet(RulesIn(file))
    BY <2>2, <2>3, CurrentIsThere DEF ToSet
  <2>. QED  BY <2>5, <2>6
<1>. QED  BY <1>1, Invariance, PTL DEF Spec, HandEditsSurvive

-----------------------------------------------------------------------------
(* What the rules say: the pass over the file, one rule after the other, is   *)
(* the meaning of the set of rules.  Each slot of the pass holds the best of   *)
(* the rules heard so far, which is unique as ids are distinct.                *)

\* No two rules of a file have one id.
Distinct(rules) == \A i, j \in DOMAIN rules : rules[i].id = rules[j].id => i = j

\* What beats compares are numbers, and a clause rule decides one way or the other.
Ranked(r) ==
    /\ r.id \in Nat /\ SpecificityOf(r) \in Nat
    /\ ~is_wasm(r) => decision(r) \in {Approve, Deny}
RankedSet(R) == \A r \in R : Ranked(r)

\* beats is an order that compares any two rules of different ids.
LEMMA BeatsIsAnOrder ==
    ASSUME NEW R, RankedSet(R)
    PROVE  /\ \A a, b \in R : ~(beats(a, b) /\ beats(b, a))
           /\ \A a, b \in R : a.id # b.id => beats(a, b) \/ beats(b, a)
           /\ \A a, b, c \in R : beats(a, b) /\ beats(b, c) => beats(a, c)
  BY DEF beats, RankedSet, Ranked

\* A slot with the best of a set of rules, or with nothing if there is none.
HasBest(slot, those) ==
    \/ slot = <<>> /\ those = {}
    \/ \E r \in those : slot = <<r>> /\ \A o \in those : o = r \/ beats(r, o)

\* It is the rule that Best means.
LEMMA BestIsUnique ==
    ASSUME NEW All, RankedSet(All), NEW those \in SUBSET All, NEW slot, HasBest(slot, those), those # {}
    PROVE  slot = <<Best(those)>> /\ slot # <<>> /\ slot[1] = Best(those)
<1>1. PICK r \in those : slot = <<r>> /\ \A o \in those : o = r \/ beats(r, o)
  BY DEF HasBest
<1>2. Best(those) \in those /\ \A o \in those : o = Best(those) \/ beats(Best(those), o)
  BY <1>1, Zenon DEF Best
<1>3. r = Best(those)
  BY <1>1, <1>2, BeatsIsAnOrder, Zenon
<1>. QED  BY <1>1, <1>3

\* One more rule: it takes the slot if nothing is there or it beats what is.
LEMMA OneMoreRule ==
    ASSUME NEW All, RankedSet(All), NEW those \in SUBSET All, NEW rule \in All,
           NEW slot, HasBest(slot, those),
           \A o \in those : o.id = rule.id => o = rule
    PROVE  HasBest(IF slot = <<>> \/ beats(rule, slot[1]) THEN <<rule>> ELSE slot,
                   those \cup {rule})
<1>1. CASE those = {}
  <2>1. slot = <<>>
    BY <1>1 DEF HasBest
  <2>. QED  BY <1>1, <2>1 DEF HasBest
<1>2. CASE those # {}
  <2>1. PICK r \in those : slot = <<r>> /\ \A o \in those : o = r \/ beats(r, o)
    BY <1>2 DEF HasBest
  <2>2. slot # <<>> /\ slot[1] = r
    BY <2>1
  <2>3. CASE beats(rule, r)
    <3>1. \A o \in those \cup {rule} : o = rule \/ beats(rule, o)
      BY <2>1, <2>3, BeatsIsAnOrder
    <3>. QED  BY <2>2, <2>3, <3>1 DEF HasBest
  <2>4. CASE ~beats(rule, r)
    <3>1. rule = r \/ beats(r, rule)
      BY <2>4, BeatsIsAnOrder
    <3>2. \A o \in those \cup {rule} : o = r \/ beats(r, o)
      BY <2>1, <3>1
    <3>. QED  BY <2>1, <2>2, <2>4, <3>2 DEF HasBest
  <2>. QED  BY <2>3, <2>4
<1>. QED  BY <1>1, <1>2

\* The pass is what its recursion says, on all of the file: as long as it is for
\* the first n rules, it is for one more.
LEMMA HeardIsDefined ==
    ASSUME NEW All, NEW rules \in Seq(All), NEW modules, NEW refused, NEW ctx
    PROVE  LET heard == Heard(rules, modules, refused, ctx)
           IN  /\ heard[0] = [deny |-> <<>>, approvers |-> [s \in ctx.secrets |-> <<>>],
                              mandate |-> <<>>, failures |-> {}]
               /\ \A n \in 1..Len(rules) :
                     heard[n] = Consult(heard[n - 1], rules[n], modules, refused, ctx)
<1>. DEFINE start == [deny |-> <<>>, approvers |-> [s \in ctx.secrets |-> <<>>],
                      mandate |-> <<>>, failures |-> {}]
            step(acc, n) == Consult(acc, rules[n], modules, refused, ctx)
            upto(n, g) == g = [m \in 0..n |-> IF m = 0 THEN start ELSE step(g[m - 1], m)]
            T == {n \in 0..Len(rules) : ~\E g : upto(n, g)}
<1>1. Heard(rules, modules, refused, ctx) = CHOOSE g : upto(Len(rules), g)
  BY Zenon DEF Heard
<1>. HIDE DEF start, step
<1>2. ASSUME T # {} PROVE FALSE
  <2>1. T \subseteq Nat
    OBVIOUS
  <2>2. PICK n \in T : \A m \in T : n <= m
    BY <1>2, <2>1, LeastNatural
  <2>3. CASE n = 0
    <3>. DEFINE g == [m \in 0..0 |-> start]
    <3>1. upto(0, g)
      OBVIOUS
    <3>. QED  BY <2>3, <3>1
  <2>4. CASE n # 0
    <3>0. n \in 0..Len(rules) /\ n - 1 \in 0..Len(rules) /\ ~(n <= n - 1)
      BY <2>4
    <3>1. n - 1 \in 0..Len(rules) /\ n - 1 \notin T
      BY <2>2, <3>0, Zenon
    <3>2. PICK g : upto(n - 1, g)
      BY <3>1
    <3>. DEFINE h == [m \in 0..n |-> IF m = n THEN step(g[n - 1], n) ELSE g[m]]
    <3>3. n \in Nat /\ n # 0
      BY <2>4
    <3>4. ASSUME NEW m \in 0..n PROVE h[m] = IF m = 0 THEN start ELSE step(h[m - 1], m)
      <4>1. CASE m = n
        <5>1. h[n - 1] = g[n - 1]
          BY <3>3
        <5>. QED  BY <3>3, <4>1, <5>1
      <4>2. CASE m # n
        <5>1. m \in 0..(n - 1) /\ h[m] = g[m]
          BY <3>3, <4>2
        <5>2. m # 0 => m - 1 \in 0..n /\ m - 1 # n /\ h[m - 1] = g[m - 1]
          BY <3>3, <4>2
        <5>3. g[m] = IF m = 0 THEN start ELSE step(g[m - 1], m)
          BY <3>2, <5>1
        <5>. QED  BY <5>1, <5>2, <5>3
      <4>. QED  BY <4>1, <4>2
    <3>5. upto(n, h)
      <4>. DEFINE k == [m \in 0..n |-> IF m = 0 THEN start ELSE step(h[m - 1], m)]
      <4>1. h = k
        <5>1. h = [m \in 0..n |-> h[m]]
          OBVIOUS
        <5>. QED  BY <3>4, <5>1
      <4>. QED  BY <4>1
    <3>. QED  BY <3>5
  <2>. QED  BY <2>3, <2>4
<1>3. PICK g : upto(Len(rules), g)
  <2>1. Len(rules) \in 0..Len(rules)
    OBVIOUS
  <2>. QED  BY <1>2, <2>1
<1>. DEFINE heard == Heard(rules, modules, refused, ctx)
<1>4. upto(Len(rules), heard)
  BY <1>1, <1>3, Zenon
<1>. HIDE DEF heard
<1>5. \A n \in 0..Len(rules) : heard[n] = IF n = 0 THEN start ELSE step(heard[n - 1], n)
  BY <1>4
<1>6. heard[0] = start /\ \A n \in 1..Len(rules) : heard[n] = step(heard[n - 1], n)
  BY <1>5
<1>. QED  BY <1>6, Zenon DEF start, step, heard

\* What hearing one rule does to the pass is decided by its opinion.
LEMMA ConsultFollowsOpinion ==
    ASSUME NEW rule, Ranked(rule), NEW modules, NEW refused, NEW ctx, NEW acc
    PROVE  LET says == Opinion(rule, modules, refused, ctx)
               next == Consult(acc, rule, modules, refused, ctx)
           IN  /\ says = Deny => next = DenyBy(acc, rule)
               /\ says = "unheard" =>
                     \/ next = Mandate(acc, rule)
                     \/ next = Mandate([acc EXCEPT !.failures = @ \cup {rule.id}], rule)
               /\ says = Approve =>
                     \/ next = acc /\ \A s \in ctx.secrets : ~Blesses(rule, ctx, s)
                     \/ \E secrets :
                           /\ next = ApproveBy(acc, rule, secrets)
                           /\ \A s \in ctx.secrets : s \in secrets <=> Blesses(rule, ctx, s)
               /\ says \notin {Deny, "unheard", Approve} => next = acc
<1>. DEFINE says == Opinion(rule, modules, refused, ctx)
            next == Consult(acc, rule, modules, refused, ctx)
            clause == clause_outcome(rule.body, ctx)
            Goal == /\ says = Deny => next = DenyBy(acc, rule)
                    /\ says = "unheard" =>
                          \/ next = Mandate(acc, rule)
                          \/ next = Mandate([acc EXCEPT !.failures = @ \cup {rule.id}], rule)
                    /\ says = Approve =>
                          \/ next = acc /\ \A s \in ctx.secrets : ~Blesses(rule, ctx, s)
                          \/ \E secrets :
                                /\ next = ApproveBy(acc, rule, secrets)
                                /\ \A s \in ctx.secrets : s \in secrets <=> Blesses(rule, ctx, s)
                    /\ says \notin {Deny, "unheard", Approve} => next = acc
<1>. SUFFICES Goal
  OBVIOUS
<1>0. Approve = "approve" /\ Deny = "deny"
  BY DEF Approve, Deny
<1>1. ~is_wasm(rule) => decision(rule) \in {Approve, Deny}
  BY DEF Ranked
<1>2. CASE ~rule.enabled
  <2>1. says = "none" /\ next = acc
    BY <1>2 DEF Opinion, Consult
  <2>. HIDE DEF says, next
  <2>. QED  BY <1>0, <2>1
<1>3. CASE rule.enabled /\ rule.id \in refused
  <2>. DEFINE bars == IF is_wasm(rule) THEN wasm_overlaps(rule, ctx)
                      ELSE clause # "nomatch" /\ decision(rule) = Deny
  <2>1. next = IF bars THEN Mandate(acc, rule) ELSE acc
    BY <1>3 DEF Consult, ConsultRefused
  <2>2. says = IF bars THEN "unheard" ELSE "none"
    BY <1>3 DEF Opinion
  <2>. HIDE DEF says, next, bars
  <2>. QED  BY <1>0, <2>1, <2>2
<1>4. CASE rule.enabled /\ rule.id \notin refused /\ ~wrap_in_scope(rule, ctx.wrap)
  <2>1. says = "none" /\ next = acc
    BY <1>4 DEF Opinion, Consult
  <2>. HIDE DEF says, next
  <2>. QED  BY <1>0, <2>1
<1>5. CASE rule.enabled /\ rule.id \notin refused /\ wrap_in_scope(rule, ctx.wrap) /\ is_wasm(rule)
  <2>1. next = ConsultModule(acc, rule, modules, ctx)
    BY <1>5 DEF Consult
  <2>2. CASE ~wasm_overlaps(rule, ctx)
    <3>1. says = "none" /\ next = acc
      BY <1>5, <2>1, <2>2 DEF Opinion, ConsultModule
    <3>. HIDE DEF says, next
    <3>. QED  BY <1>0, <3>1
  <2>3. CASE wasm_overlaps(rule, ctx) /\ rule.id \notin DOMAIN modules
    <3>1. says = "unheard" /\ next = Mandate(acc, rule)
      BY <1>5, <2>1, <2>3 DEF Opinion, ConsultModule
    <3>. HIDE DEF says, next
    <3>. QED  BY <1>0, <3>1
  <2>4. CASE wasm_overlaps(rule, ctx) /\ rule.id \in DOMAIN modules
    <3>. DEFINE word == module_decision(modules[rule.id], ctx)
    <3>1. says = IF word \in {"prompt", "error"} THEN "unheard" ELSE word
      BY <1>5, <2>4 DEF Opinion
    <3>2. next = CASE word = Approve  -> ApproveBy(acc, rule, Blessed(rule, ctx))
                   [] word = Deny     -> DenyBy(acc, rule)
                   [] word = "prompt" -> Mandate(acc, rule)
                   [] word = "error"  -> Mandate([acc EXCEPT !.failures = @ \cup {rule.id}], rule)
                   [] OTHER           -> acc
      BY <2>1, <2>4 DEF ConsultModule
    <3>3. word \in {Approve, Deny, "prompt", "pass", "error"}
      BY DEF module_decision
    <3>4. \A s \in ctx.secrets : s \in Blessed(rule, ctx) <=> Blesses(rule, ctx, s)
      BY <1>5 DEF Blessed, Blesses
    <3>. HIDE DEF says, next, word
    <3>5. CASE word = Approve
      BY <1>0, <3>1, <3>2, <3>4, <3>5
    <3>6. CASE word # Approve
      BY <1>0, <3>1, <3>2, <3>3, <3>6
    <3>. QED  BY <3>5, <3>6
  <2>. QED  BY <2>2, <2>3, <2>4
<1>6. CASE rule.enabled /\ rule.id \notin refused /\ wrap_in_scope(rule, ctx.wrap) /\ ~is_wasm(rule)
  <2>1. next = ConsultClauses(acc, rule, ctx)
    BY <1>6 DEF Consult
  <2>2. says = IF clause = "match" THEN decision(rule)
               ELSE IF clause = "unconsultable" /\ decision(rule) = Deny THEN "unheard"
               ELSE "none"
    BY <1>6 DEF Opinion
  <2>3. next = CASE clause = "unconsultable" /\ decision(rule) = Deny -> Mandate(acc, rule)
                 [] clause = "match" /\ decision(rule) = Deny -> DenyBy(acc, rule)
                 [] clause = "match" /\ decision(rule) = Approve
                       /\ declarative_approve_in_scope(rule, ctx) ->
                          ApproveBy(acc, rule, ctx.secrets)
                 [] OTHER -> acc
    BY <2>1 DEF ConsultClauses
  <2>. HIDE DEF says, next, clause
  <2>. QED  BY <1>0, <1>1, <1>6, <2>2, <2>3 DEF Blesses, declarative_approve_in_scope
<1>. QED  BY <1>2, <1>3, <1>4, <1>5, <1>6, Zenon

\* The rules with an opinion, and those of them that bless a secret.
Saying(word, R, modules, refused, ctx) == {r \in R : Opinion(r, modules, refused, ctx) = word}
Blessing(s, R, modules, refused, ctx) ==
    {r \in Saying(Approve, R, modules, refused, ctx) : Blesses(r, ctx, s)}

\* The pass has heard the rules of R and no other.
Agrees(acc, R, modules, refused, ctx) ==
    /\ acc = [deny |-> acc.deny, approvers |-> acc.approvers,
              mandate |-> acc.mandate, failures |-> acc.failures]
    /\ acc.approvers = [s \in ctx.secrets |-> acc.approvers[s]]
    /\ HasBest(acc.deny, Saying(Deny, R, modules, refused, ctx))
    /\ acc.mandate = <<>> <=> Saying("unheard", R, modules, refused, ctx) = {}
    /\ \A s \in ctx.secrets :
          HasBest(acc.approvers[s], Blessing(s, R, modules, refused, ctx))

\* One more rule is heard.
LEMMA OneMoreIsHeard ==
    ASSUME NEW All, RankedSet(All), NEW R \in SUBSET All, NEW rule \in All,
           \A o \in R : o.id = rule.id => o = rule,
           NEW modules, NEW refused, NEW ctx, NEW acc, Agrees(acc, R, modules, refused, ctx)
    PROVE  Agrees(Consult(acc, rule, modules, refused, ctx), R \cup {rule},
                  modules, refused, ctx)
<1>. DEFINE says == Opinion(rule, modules, refused, ctx)
            next == Consult(acc, rule, modules, refused, ctx)
            Old(word) == Saying(word, R, modules, refused, ctx)
            New(word) == Saying(word, R \cup {rule}, modules, refused, ctx)
            OldFor(s) == Blessing(s, R, modules, refused, ctx)
            NewFor(s) == Blessing(s, R \cup {rule}, modules, refused, ctx)
<1>1. \A word : New(word) = IF says = word THEN Old(word) \cup {rule} ELSE Old(word)
  BY DEF Saying
<1>2. \A s : NewFor(s) = IF says = Approve /\ Blesses(rule, ctx, s)
                         THEN OldFor(s) \cup {rule} ELSE OldFor(s)
  BY DEF Saying, Blessing
<1>3. /\ Old(Deny) \in SUBSET All /\ Old(Deny) \subseteq R
      /\ \A s : OldFor(s) \in SUBSET All /\ OldFor(s) \subseteq R
  BY DEF Saying, Blessing
<1>4. /\ acc = [deny |-> acc.deny, approvers |-> acc.approvers,
                mandate |-> acc.mandate, failures |-> acc.failures]
      /\ acc.approvers = [s \in ctx.secrets |-> acc.approvers[s]]
      /\ HasBest(acc.deny, Old(Deny))
      /\ acc.mandate = <<>> <=> Old("unheard") = {}
      /\ \A s \in ctx.secrets : HasBest(acc.approvers[s], OldFor(s))
  BY DEF Agrees
<1>5. /\ says = Deny => next = DenyBy(acc, rule)
      /\ says = "unheard" =>
            \/ next = Mandate(acc, rule)
            \/ next = Mandate([acc EXCEPT !.failures = @ \cup {rule.id}], rule)
      /\ says = Approve =>
            \/ next = acc /\ \A s \in ctx.secrets : ~Blesses(rule, ctx, s)
            \/ \E secrets :
                  /\ next = ApproveBy(acc, rule, secrets)
                  /\ \A s \in ctx.secrets : s \in secrets <=> Blesses(rule, ctx, s)
      /\ says \notin {Deny, "unheard", Approve} => next = acc
  BY ConsultFollowsOpinion DEF RankedSet
<1>6. SUFFICES /\ next = [deny |-> next.deny, approvers |-> next.approvers,
                          mandate |-> next.mandate, failures |-> next.failures]
               /\ next.approvers = [s \in ctx.secrets |-> next.approvers[s]]
               /\ HasBest(next.deny, New(Deny))
               /\ next.mandate = <<>> <=> New("unheard") = {}
               /\ \A s \in ctx.secrets : HasBest(next.approvers[s], NewFor(s))
  BY DEF Agrees
<1>7. Deny # Approve /\ Deny # "unheard" /\ Approve # "unheard"
  BY DEF Approve, Deny
<1>. HIDE DEF says, next, Old, New, OldFor, NewFor
<1>8. CASE next = acc /\ (says = Approve => \A s \in ctx.secrets : ~Blesses(rule, ctx, s))
               /\ says \notin {Deny, "unheard"}
  BY <1>1, <1>2, <1>4, <1>8
<1>9. CASE says = Deny
  <2>1. next = [deny |-> record_deny(acc.deny, rule), approvers |-> acc.approvers,
                mandate |-> acc.mandate, failures |-> acc.failures]
    BY <1>4, <1>5, <1>9 DEF DenyBy
  <2>2. HasBest(record_deny(acc.deny, rule), Old(Deny) \cup {rule})
    BY <1>3, <1>4, OneMoreRule DEF record_deny
  <2>. HIDE DEF record_deny
  <2>. QED  BY <1>1, <1>2, <1>4, <1>7, <1>9, <2>1, <2>2
<1>10. CASE says = "unheard"
  <2>1. PICK failures :
           next = [deny |-> acc.deny, approvers |-> acc.approvers,
                   mandate |-> IF acc.mandate = <<>> THEN <<rule.id>> ELSE acc.mandate,
                   failures |-> failures]
    BY <1>4, <1>5, <1>10 DEF Mandate
  <2>2. next.mandate # <<>> /\ New("unheard") # {}
    BY <1>1, <1>10, <2>1
  <2>. QED  BY <1>1, <1>2, <1>4, <1>7, <1>10, <2>1, <2>2
<1>11. ASSUME says = Approve, NEW secrets, next = ApproveBy(acc, rule, secrets),
              \A s \in ctx.secrets : s \in secrets <=> Blesses(rule, ctx, s)
       PROVE  /\ next = [deny |-> next.deny, approvers |-> next.approvers,
                         mandate |-> next.mandate, failures |-> next.failures]
              /\ next.approvers = [s \in ctx.secrets |-> next.approvers[s]]
              /\ HasBest(next.deny, New(Deny))
              /\ next.mandate = <<>> <=> New("unheard") = {}
              /\ \A s \in ctx.secrets : HasBest(next.approvers[s], NewFor(s))
  <2>. DEFINE by == record_approval(acc.approvers, secrets, rule)
  <2>1. next = [deny |-> acc.deny, approvers |-> by,
                mandate |-> acc.mandate, failures |-> acc.failures]
    BY <1>4, <1>11 DEF ApproveBy
  <2>2. DOMAIN acc.approvers = ctx.secrets
    BY <1>4
  <2>3. by = [s \in ctx.secrets |->
                 IF s \in secrets /\ (acc.approvers[s] = <<>> \/ beats(rule, acc.approvers[s][1]))
                 THEN <<rule>> ELSE acc.approvers[s]]
    BY <2>2 DEF record_approval
  <2>4. ASSUME NEW s \in ctx.secrets PROVE HasBest(by[s], NewFor(s))
    <3>1. HasBest(IF acc.approvers[s] = <<>> \/ beats(rule, acc.approvers[s][1])
                  THEN <<rule>> ELSE acc.approvers[s], OldFor(s) \cup {rule})
      BY <1>3, <1>4, OneMoreRule
    <3>2. CASE s \in secrets
      <4>1. by[s] = IF acc.approvers[s] = <<>> \/ beats(rule, acc.approvers[s][1])
                    THEN <<rule>> ELSE acc.approvers[s]
        BY <2>3, <3>2
      <4>2. NewFor(s) = OldFor(s) \cup {rule}
        BY <1>2, <1>11, <3>2
      <4>. QED  BY <3>1, <4>1, <4>2
    <3>3. CASE s \notin secrets
      <4>1. by[s] = acc.approvers[s]
        BY <2>3, <3>3
      <4>2. NewFor(s) = OldFor(s)
        BY <1>2, <1>11, <3>3
      <4>. QED  BY <1>4, <4>1, <4>2
    <3>. QED  BY <3>2, <3>3
  <2>5. by = [s \in ctx.secrets |-> by[s]]
    BY <2>3
  <2>. HIDE DEF by
  <2>6. /\ next.deny = acc.deny /\ next.approvers = by
        /\ next.mandate = acc.mandate /\ next.failures = acc.failures
    BY <2>1
  <2>7. New(Deny) = Old(Deny) /\ New("unheard") = Old("unheard")
    BY <1>1, <1>7, <1>11
  <2>. QED  BY <1>4, <2>1, <2>4, <2>5, <2>6, <2>7
<1>. QED  BY <1>5, <1>8, <1>9, <1>10, <1>11

\* After n rules the pass has heard the first n: were there a first n of which
\* this is not so, it would be so of n - 1.
LEMMA PassAgrees ==
    ASSUME NEW All, RankedSet(All), NEW rules \in Seq(All), Distinct(rules),
           NEW modules, NEW refused, NEW ctx
    PROVE  Agrees(Heard(rules, modules, refused, ctx)[Len(rules)], ToSet(rules),
                  modules, refused, ctx)
<1>. DEFINE heard == Heard(rules, modules, refused, ctx)
            First(n) == {rules[i] : i \in 1..n}
            Good(n) == Agrees(heard[n], First(n), modules, refused, ctx)
            T == {n \in 0..Len(rules) : ~Good(n)}
<1>1. /\ heard[0] = [deny |-> <<>>, approvers |-> [s \in ctx.secrets |-> <<>>],
                     mandate |-> <<>>, failures |-> {}]
      /\ \A n \in 1..Len(rules) :
            heard[n] = Consult(heard[n - 1], rules[n], modules, refused, ctx)
  BY HeardIsDefined
<1>. HIDE DEF heard
<1>2. Good(0)
  <2>1. First(0) = {}
    OBVIOUS
  <2>. HIDE DEF First
  <2>2. \A word : Saying(word, {}, modules, refused, ctx) = {}
    BY DEF Saying
  <2>3. \A s : Blessing(s, {}, modules, refused, ctx) = {}
    BY DEF Saying, Blessing
  <2>4. HasBest(<<>>, {})
    BY DEF HasBest
  <2>. DEFINE start == [deny |-> <<>>, approvers |-> [s \in ctx.secrets |-> <<>>],
                        mandate |-> <<>>, failures |-> {}]
  <2>5. /\ start = [deny |-> start.deny, approvers |-> start.approvers,
                    mandate |-> start.mandate, failures |-> start.failures]
        /\ start.approvers = [s \in ctx.secrets |-> start.approvers[s]]
        /\ start.deny = <<>> /\ start.mandate = <<>>
        /\ \A s \in ctx.secrets : start.approvers[s] = <<>>
    OBVIOUS
  <2>6. heard[0] = start
    BY <1>1
  <2>. HIDE DEF start
  <2>7. Agrees(start, {}, modules, refused, ctx)
    BY <2>2, <2>3, <2>4, <2>5 DEF Agrees
  <2>. QED  BY <2>1, <2>6, <2>7
<1>3. ASSUME NEW n \in 1..Len(rules), Good(n - 1) PROVE Good(n)
  <2>1. First(n) = First(n - 1) \cup {rules[n]}
    OBVIOUS
  <2>2. /\ rules[n] \in All /\ First(n - 1) \in SUBSET All
        /\ \A o \in First(n - 1) : o.id = rules[n].id => o = rules[n]
    BY DEF Distinct
  <2>. HIDE DEF First
  <2>. QED  BY <1>1, <1>3, <2>1, <2>2, OneMoreIsHeard
<1>. HIDE DEF Good
<1>4. ASSUME T # {} PROVE FALSE
  <2>1. T \subseteq Nat
    OBVIOUS
  <2>2. PICK n \in T : \A m \in T : n <= m
    BY <1>4, <2>1, LeastNatural
  <2>3. n \in 0..Len(rules) /\ ~Good(n)
    BY <2>2
  <2>4. n \in 1..Len(rules) /\ n - 1 \in 0..Len(rules) /\ ~(n <= n - 1)
    BY <1>2, <2>3
  <2>5. Good(n - 1)
    BY <2>2, <2>4, Zenon
  <2>. QED  BY <1>3, <2>3, <2>4, <2>5
<1>5. Good(Len(rules))
  BY <1>4
<1>6. First(Len(rules)) = ToSet(rules)
  BY DEF ToSet
<1>. QED  BY <1>5, <1>6 DEF Good, heard

\* evaluate_with_refusals says what the rules mean as a set: which rule it names
\* and whether it denies, approves or leaves the ask to the human does not
\* depend on the order of the file, for any rules with distinct ids, any modules
\* that loaded, any refused scopes and any ask.
THEOREM EvaluateIsMeaning ==
    ASSUME NEW All, RankedSet(All), NEW rules \in Seq(All), Distinct(rules),
           NEW modules, NEW refused, NEW ctx
    PROVE  evaluate_with_refusals(rules, modules, refused, ctx).hit
               = Meaning(rules, modules, refused, ctx)
<1>. DEFINE end == Heard(rules, modules, refused, ctx)[Len(rules)]
            R == ToSet(rules)
            those(word) == Saying(word, R, modules, refused, ctx)
            blessing(s) == Blessing(s, R, modules, refused, ctx)
            best(s) == Best(blessing(s))
<1>0. Agrees(end, R, modules, refused, ctx)
  BY PassAgrees, Zenon
<1>1. /\ end.approvers = [s \in ctx.secrets |-> end.approvers[s]]
      /\ HasBest(end.deny, those(Deny))
      /\ end.mandate = <<>> <=> those("unheard") = {}
      /\ \A s \in ctx.secrets : HasBest(end.approvers[s], blessing(s))
  <2>. HIDE DEF end, R
  <2>. QED  BY <1>0 DEF Agrees
<1>2. R \subseteq All
  BY DEF ToSet
<1>3. those(Deny) \in SUBSET All /\ \A s : blessing(s) \in SUBSET All
  BY <1>2 DEF Saying, Blessing
<1>4. evaluate_with_refusals(rules, modules, refused, ctx).hit
        = IF end.deny # <<>> THEN <<Hit(end.deny[1], Deny, NoApprovals)>>
          ELSE IF end.mandate # <<>> THEN <<>>
          ELSE approve_hit(ctx, end.approvers)
  BY DEF evaluate_with_refusals, Settle
<1>5. Meaning(rules, modules, refused, ctx)
        = IF those(Deny) # {} THEN <<Hit(Best(those(Deny)), Deny, NoApprovals)>>
          ELSE IF those("unheard") # {} \/ ctx.secrets = {}
                  \/ \E s \in ctx.secrets : blessing(s) = {} THEN <<>>
          ELSE <<Hit(Best({best(s) : s \in ctx.secrets}), Approve,
                     [s \in ctx.secrets |-> best(s).id])>>
  BY DEF Meaning, Saying, Blessing
<1>. HIDE DEF end, R, those, blessing
<1>6. those(Deny) # {} => end.deny # <<>> /\ end.deny[1] = Best(those(Deny))
  BY <1>1, <1>3, BestIsUnique
<1>7. those(Deny) = {} => end.deny = <<>>
  BY <1>1 DEF HasBest
<1>8. \A s \in ctx.secrets : blessing(s) = {} => end.approvers[s] = <<>>
  BY <1>1 DEF HasBest
<1>9. \A s \in ctx.secrets :
         blessing(s) # {} => end.approvers[s] # <<>> /\ end.approvers[s][1] = best(s)
  BY <1>1, <1>3, BestIsUnique
<1>. HIDE DEF best
<1>10. CASE ctx.secrets = {} \/ \E s \in ctx.secrets : blessing(s) = {}
  <2>1. approve_hit(ctx, end.approvers) = <<>>
    BY <1>8, <1>10 DEF approve_hit
  <2>. QED  BY <1>1, <1>4, <1>5, <1>6, <1>7, <1>10, <2>1
<1>11. CASE ~(ctx.secrets = {} \/ \E s \in ctx.secrets : blessing(s) = {})
  <2>. DEFINE by == {end.approvers[s][1] : s \in ctx.secrets}
              bests == {best(s) : s \in ctx.secrets}
  <2>1. \A s \in ctx.secrets : end.approvers[s] # <<>> /\ end.approvers[s][1] = best(s)
    BY <1>9, <1>11
  <2>2. by = bests
    BY <2>1
  <2>3. [s \in ctx.secrets |-> end.approvers[s][1].id] = [s \in ctx.secrets |-> best(s).id]
    BY <2>1
  <2>4. approve_hit(ctx, end.approvers)
          = <<Hit(Best(by), Approve, [s \in ctx.secrets |-> end.approvers[s][1].id])>>
    BY <1>11, <2>1 DEF approve_hit, Best
  <2>. HIDE DEF by, bests
  <2>5. approve_hit(ctx, end.approvers)
          = <<Hit(Best(bests), Approve, [s \in ctx.secrets |-> best(s).id])>>
    BY <2>2, <2>3, <2>4
  <2>6. Meaning(rules, modules, refused, ctx)
          = IF those(Deny) # {} THEN <<Hit(Best(those(Deny)), Deny, NoApprovals)>>
            ELSE IF those("unheard") # {} THEN <<>>
            ELSE <<Hit(Best(bests), Approve, [s \in ctx.secrets |-> best(s).id])>>
    BY <1>5, <1>11 DEF bests
  <2>. QED  BY <1>1, <1>4, <1>6, <1>7, <2>5, <2>6
<1>. QED  BY <1>10, <1>11

-----------------------------------------------------------------------------
(* Which rules the daemon has: a version of the file that was in force while  *)
(* the ask waited.  A load notes the modification time before it reads the    *)
(* text, so that a save in between leaves the copy stale, never the reverse.  *)

\* A load that has noted the time, one that has read the text, and one that an
\* ask waits for.
InLoad == op.kind \in {"reload", "edit"} /\ op.pc \in {"text", "rest"}
HasText == op.kind \in {"reload", "edit"} /\ op.pc = "rest"
ForAsk == op.kind = "reload" /\ op.for = "ask"

\* The types of the daemon's copy and of the ask.
CopyType ==
    /\ daemon = [rules |-> daemon.rules, modules |-> daemon.modules,
                 wasmRefused |-> daemon.wasmRefused, scopeRefused |-> daemon.scopeRefused,
                 unchecked |-> daemon.unchecked,
                 rulesAt |-> daemon.rulesAt, configAt |-> daemon.configAt]
    /\ daemon.rules \in Seq(Rule) /\ daemon.rulesAt \in Nat
    /\ ask = NoAsk \/ ask \in [pc : {"arrived", "reloaded"}, ctx : Asks,
                               since : SUBSET Seq(Rule), configs : SUBSET Configs]

\* A copy with the time of the file has its rules.
CopyIsOfItsTime ==
    /\ daemon.rulesAt <= used.clock
    /\ daemon.rulesAt = 0 => daemon.rules = <<>>
    /\ file.state # "broken" /\ daemon.rulesAt = MtimeOf(file) => daemon.rules = RulesIn(file)
    /\ InLoad => op.mtime <= used.clock /\ (op.mtime = 0 => file.state = "missing")
    /\ HasText =>
          /\ op.mtime = 0 => op.rules = <<>>
          /\ file.state # "broken" /\ op.mtime = MtimeOf(file) => op.rules = RulesIn(file)

\* Versions the ask has seen in force: that of the file, and what it is decided
\* from once it is reloaded, or while the file does not parse.
AskHasSeen ==
    ask # NoAsk =>
        /\ file.state # "broken" => RulesIn(file) \in ask.since
        /\ file.state = "broken" \/ ask.pc = "reloaded" =>
              daemon.rules \in ask.since /\ (HasText => op.rules \in ask.since)
        /\ ForAsk /\ HasText => op.rules \in ask.since

\* Only an ask that waits is reloaded for.
AskWaits == ForAsk => ask # NoAsk /\ ask.pc = "arrived"

\* The copy, its times and the ask.
CopyInv == CopyType /\ CopyIsOfItsTime /\ AskHasSeen /\ AskWaits

\* The shapes of step.  The file stays, and the copy, whatever the load does.
CopyStays ==
    /\ daemon'.rules = daemon.rules /\ daemon'.rulesAt = daemon.rulesAt
    /\ daemon'.scopeRefused = daemon.scopeRefused /\ daemon'.unchecked = daemon.unchecked
    /\ daemon'.configAt = daemon.configAt
\* It goes on, from the time to the text, or it does not.
LoadGoesOn ==
    \/ op' = op
    \/ ~InLoad'
    \/ op'.kind \in {"reload", "edit"} /\ op'.pc = "text" /\ op'.mtime = MtimeOf(file)
    \/ /\ InLoad /\ ~HasText /\ file.state # "broken"
       /\ op'.kind = op.kind /\ op'.pc = "rest" /\ op'.mtime = op.mtime
       /\ op'.rules = RulesIn(file) /\ (ForAsk' <=> ForAsk)
\* Nothing is written, and the copy stays.
Quiet ==
    /\ UNCHANGED file /\ CopyStays /\ used'.clock \in Nat /\ used.clock <= used'.clock
    /\ LoadGoesOn

\* In a quiet step the ask stays, arrives, finds the copy current, sees another
\* configuration or is decided.
AskMoves ==
    \/ ask' = ask /\ (ForAsk' => ForAsk \/ (ask # NoAsk /\ ask.pc = "arrived"))
    \/ /\ ask = NoAsk /\ op' = op
       /\ \E ctx \in Asks : ask' = [pc |-> "arrived", ctx |-> ctx, since |-> InForce(file),
                                   configs |-> {config}]
    \/ /\ ask # NoAsk /\ op' = op
       /\ \E c \in Configs : ask' = [ask EXCEPT !.configs = @ \cup {c}]
    \/ /\ op = Idle /\ op' = Idle /\ ask.pc = "arrived" /\ MtimeOf(file) = daemon.rulesAt
       /\ ask' = [ask EXCEPT !.pc = "reloaded"]
    \/ op = Idle /\ op' = Idle /\ ask' = NoAsk

\* The file is written, by hand or by an edit, and who waits sees it.
Writes ==
    /\ file'.mtime = used.clock + 1 /\ used'.clock = used.clock + 1
    /\ CopyStays /\ ask' = Witness(file')
    /\ \/ op' = op /\ file.state # "missing"
       \/ ~InLoad' /\ ~ForAsk'

\* A load ends, with the text it has read or without.
Ends ==
    /\ UNCHANGED file /\ used'.clock = used.clock /\ op' = Idle
    /\ ask' = IF ForAsk THEN [ask EXCEPT !.pc = "reloaded"] ELSE ask
    /\ \/ HasText /\ daemon'.rules = op.rules
       \/ InLoad /\ file.state = "broken" /\ daemon'.rules = daemon.rules
    /\ daemon'.rulesAt = op.mtime

\* The daemon starts, from the file as it is.
Starts ==
    /\ UNCHANGED file /\ used'.clock = used.clock /\ op' = Idle /\ ask' = NoAsk
    /\ daemon'.rules = IF file.state = "broken" THEN <<>> ELSE RulesIn(file)
    /\ daemon'.rulesAt = MtimeOf(file)

\* The times, in each shape.
LEMMA TimesInv ==
    ASSUME Inv, Inv', CopyInv, CopyType', Quiet \/ Writes \/ Ends \/ Starts
    PROVE  CopyIsOfItsTime'
<1>0. /\ used.clock \in Nat /\ used'.clock \in Nat /\ file.mtime \in Nat /\ 1 <= file.mtime
      /\ file.mtime <= used.clock /\ daemon.rulesAt \in Nat
      /\ InLoad => op.mtime \in Nat
  <2>1. used \in Uses /\ used' \in Uses /\ file.mtime \in Nat
    BY DEF Inv, TypeOK
  <2>2. InLoad => op.mtime \in Nat
    BY OpKinds DEF Inv, InLoad, Reloads, Editings
  <2>3. used.clock \in Nat /\ used'.clock \in Nat
    BY <2>1 DEF Uses
  <2>. QED  BY <2>1, <2>2, <2>3 DEF Inv, TimesTell, CopyInv, CopyType
<1>1. CopyIsOfItsTime
  BY DEF CopyInv
<1>2. CASE Quiet
  <2>1. CASE op' = op
    BY <1>0, <1>1, <1>2, <2>1 DEF Quiet, CopyStays, CopyIsOfItsTime, InLoad, HasText,
                                  MtimeOf, RulesIn
  <2>2. CASE ~InLoad'
    BY <1>0, <1>1, <1>2, <2>2 DEF Quiet, CopyStays, CopyIsOfItsTime, InLoad, HasText,
                                  MtimeOf, RulesIn
  <2>3. CASE op'.kind \in {"reload", "edit"} /\ op'.pc = "text" /\ op'.mtime = MtimeOf(file)
    BY <1>0, <1>1, <1>2, <2>3 DEF Quiet, CopyStays, CopyIsOfItsTime, InLoad, HasText,
                                  MtimeOf, RulesIn
  <2>4. CASE /\ InLoad /\ ~HasText /\ file.state # "broken"
             /\ op'.kind = op.kind /\ op'.pc = "rest" /\ op'.mtime = op.mtime
             /\ op'.rules = RulesIn(file)
    BY <1>0, <1>1, <1>2, <2>4 DEF Quiet, CopyStays, CopyIsOfItsTime, InLoad, HasText,
                                  MtimeOf, RulesIn
  <2>. QED  BY <1>2, <2>1, <2>2, <2>3, <2>4 DEF Quiet, LoadGoesOn
<1>3. CASE Writes
  BY <1>0, <1>1, <1>3 DEF Writes, CopyStays, CopyIsOfItsTime, InLoad, HasText, MtimeOf, RulesIn
<1>4. CASE Ends
  BY <1>0, <1>1, <1>4 DEF Ends, CopyIsOfItsTime, InLoad, HasText, MtimeOf, RulesIn, Idle
<1>5. CASE Starts
  BY <1>0, <1>1, <1>5 DEF Starts, CopyIsOfItsTime, InLoad, HasText, MtimeOf, RulesIn, Idle
<1>. QED  BY <1>2, <1>3, <1>4, <1>5

\* The versions the ask has seen, in each shape.
LEMMA SeenInv ==
    ASSUME Inv, Inv', CopyInv, CopyType', (Quiet /\ AskMoves) \/ Writes \/ Ends \/ Starts
    PROVE  AskHasSeen' /\ AskWaits'
<1>0. CopyIsOfItsTime /\ AskHasSeen /\ AskWaits
  BY DEF CopyInv
<1>1. ask # NoAsk => /\ ask = [pc |-> ask.pc, ctx |-> ask.ctx, since |-> ask.since,
                                configs |-> ask.configs]
                     /\ ask.pc \in {"arrived", "reloaded"}
  BY DEF CopyInv, CopyType
<1>2. op # Idle /\ op.pc = "rest" <=> HasText
  BY DEF Inv, TypeOK, HasText, Reloads, Editings, Admissions, Idle
<1>3. CASE Quiet /\ AskMoves
  <2>1. CASE ask' = ask /\ (ForAsk' => ForAsk \/ (ask # NoAsk /\ ask.pc = "arrived"))
    BY <1>0, <1>3, <2>1 DEF Quiet, LoadGoesOn, CopyStays, AskHasSeen, AskWaits, InLoad,
                            HasText, ForAsk, RulesIn
  <2>2. ASSUME ask = NoAsk, op' = op, NEW ctx \in Asks,
               ask' = [pc |-> "arrived", ctx |-> ctx, since |-> InForce(file),
                       configs |-> {config}]
        PROVE  AskHasSeen' /\ AskWaits'
    BY <1>0, <1>2, <1>3, <2>2 DEF Quiet, CopyStays, AskHasSeen, AskWaits, InForce, HasText,
                                  ForAsk, RulesIn
  <2>3. CASE /\ op = Idle /\ op' = Idle /\ ask.pc = "arrived" /\ MtimeOf(file) = daemon.rulesAt
             /\ ask' = [ask EXCEPT !.pc = "reloaded"]
    <3>1. ask # NoAsk
      BY <2>3 DEF NoAsk
    <3>2. ask'.since = ask.since /\ daemon.rules \in ask.since
      BY <1>0, <1>1, <2>3, <3>1 DEF CopyIsOfItsTime, AskHasSeen
    <3>. QED  BY <1>0, <1>3, <2>3, <3>1, <3>2 DEF Quiet, CopyStays, AskHasSeen, AskWaits, HasText,
                                           ForAsk, RulesIn, Idle
  <2>4. CASE op = Idle /\ op' = Idle /\ ask' = NoAsk
    BY <2>4 DEF AskHasSeen, AskWaits, ForAsk, Idle
  <2>5. ASSUME ask # NoAsk, op' = op, NEW c \in Configs,
               ask' = [ask EXCEPT !.configs = @ \cup {c}]
        PROVE  AskHasSeen' /\ AskWaits'
    <3>1. ask'.pc = ask.pc /\ ask'.since = ask.since /\ ask' # NoAsk
      BY <1>1, <2>5 DEF NoAsk
    <3>. QED  BY <1>0, <1>3, <2>5, <3>1 DEF Quiet, CopyStays, AskHasSeen, AskWaits, HasText,
                                          ForAsk, RulesIn
  <2>. QED  BY <1>3, <2>1, <2>2, <2>3, <2>4, <2>5 DEF AskMoves
<1>4. CASE Writes
  <2>1. CASE ask = NoAsk
    BY <1>0, <1>4, <2>1 DEF Writes, Witness, AskHasSeen, AskWaits, ForAsk
  <2>2. CASE ask # NoAsk
    <3>1. ask' = [ask EXCEPT !.since = @ \cup InForce(file')]
      BY <1>4, <2>2 DEF Writes, Witness
    <3>2. ask'.pc = ask.pc /\ ask'.since = ask.since \cup InForce(file') /\ ask' # NoAsk
      BY <1>1, <2>2, <3>1 DEF NoAsk
    <3>3. file'.state # "broken" => RulesIn(file') \in ask'.since
      BY <3>2 DEF InForce
    <3>4. file'.state = "broken" =>
             daemon.rules \in ask'.since /\ (HasText => op.rules \in ask'.since)
      BY <1>2, <3>2 DEF InForce
    <3>. QED  BY <1>0, <1>4, <2>2, <3>2, <3>3, <3>4
              DEF Writes, CopyStays, AskHasSeen, AskWaits, InLoad, HasText, ForAsk
  <2>. QED  BY <2>1, <2>2
<1>5. CASE Ends
  <2>1. ~HasText' /\ ~ForAsk'
    BY <1>5 DEF Ends, HasText, ForAsk, Idle
  <2>2. ForAsk => ask'.since = ask.since
    BY <1>0, <1>1, <1>5 DEF Ends, AskWaits
  <2>. QED  BY <1>0, <1>5, <2>1, <2>2 DEF Ends, AskHasSeen, AskWaits, RulesIn
<1>6. CASE Starts
  BY <1>6 DEF Starts, AskHasSeen, AskWaits, ForAsk, Idle
<1>. QED  BY <1>3, <1>4, <1>5, <1>6

\* A record with the fields of the daemon's copy.
IsCopy(d) ==
    d = [rules |-> d.rules, modules |-> d.modules, wasmRefused |-> d.wasmRefused,
         scopeRefused |-> d.scopeRefused, unchecked |-> d.unchecked,
         rulesAt |-> d.rulesAt, configAt |-> d.configAt]

\* install_rule_module touches neither the rules nor their scopes and times.
LEMMA InstallKeepsRules ==
    ASSUME CopyType, NEW rule
    PROVE  LET d == install_rule_module(daemon, rule)
           IN  /\ IsCopy(d) /\ d.rules = daemon.rules /\ d.rulesAt = daemon.rulesAt
               /\ d.scopeRefused = daemon.scopeRefused /\ d.unchecked = daemon.unchecked
               /\ d.configAt = daemon.configAt
<1>. DEFINE modules == IF is_wasm(rule)
                       THEN [i \in (DOMAIN daemon.modules \ {rule.id}) \cup {rule.id} |->
                               IF i = rule.id THEN rule.body.sha ELSE daemon.modules[i]]
                       ELSE Without(daemon.modules, DOMAIN daemon.modules \ {rule.id})
<1>1. install_rule_module(daemon, rule)
        = [daemon EXCEPT !.modules = modules, !.wasmRefused = @ \ {rule.id}]
  BY DEF install_rule_module
<1>. HIDE DEF modules
<1>. QED  BY <1>1 DEF CopyType, IsCopy

\* What InForce adds to the versions is rules.
LEMMA InForceIsRules ==
    ASSUME Inv, CopyType, NEW f, RulesIn(f) \in Seq(Rule)
    PROVE  InForce(f) \in SUBSET Seq(Rule)
<1>1. op # Idle /\ op.pc = "rest" => op.rules \in Seq(Rule)
  BY DEF Inv, TypeOK, Idle, Reloads, Editings, Admissions
<1>. QED  BY <1>1 DEF InForce, CopyType

\* What every step makes of the copy and of the ask.
StepIsKnown == CopyType' /\ ((Quiet /\ AskMoves) \/ Writes \/ Ends \/ Starts)

\* A step that is quiet and leaves the ask.
LEMMA QuietStep ==
    ASSUME Inv, Inv', CopyInv, UNCHANGED <<file, ask>>, used.clock <= used'.clock, LoadGoesOn,
           IsCopy(daemon'), CopyStays, ForAsk' => ForAsk
    PROVE  StepIsKnown
<1>1. CopyType'
  BY DEF CopyInv, CopyType, IsCopy, CopyStays
<1>2. used'.clock \in Nat
  BY DEF Inv, TypeOK, Uses
<1>. QED  BY <1>1, <1>2 DEF StepIsKnown, Quiet, AskMoves

\* The steps of a load.
LEMMA LoadIsKnown ==
    ASSUME Inv, Inv', CopyInv, AskReloads \/ MessageReloads \/ LoadText \/ AfterStat
    PROVE  StepIsKnown
<1>0. TypeOK /\ CopyType /\ IsCopy(daemon) /\ UNCHANGED <<file, daemon, used>>
  BY DEF Inv, CopyInv, CopyType, IsCopy, AskReloads, MessageReloads, LoadText, AfterStat
<1>1. used.clock \in Nat /\ used.clock <= used'.clock
  BY <1>0 DEF TypeOK, Uses
<1>2. CopyStays
  BY <1>0 DEF CopyStays
<1>3. ASSUME NEW for, reload_rules_if_changed(for)
      PROVE  LoadGoesOn /\ op'.kind = "reload" /\ op'.for = for
  BY <1>3 DEF reload_rules_if_changed, LoadGoesOn
<1>4. CASE AskReloads
  <2>1. CASE Stale
    <3>1. LoadGoesOn /\ ask' = ask /\ ask.pc = "arrived"
      BY <1>3, <1>4, <2>1 DEF AskReloads
    <3>2. ask # NoAsk
      BY <3>1 DEF NoAsk
    <3>3. CopyType'
      BY <1>0, <3>1 DEF CopyType
    <3>. QED  BY <1>0, <1>1, <1>2, <3>1, <3>2, <3>3 DEF StepIsKnown, Quiet, AskMoves
  <2>2. CASE ~Stale
    <3>1. /\ ask' = [ask EXCEPT !.pc = "reloaded"] /\ op' = op /\ op = Idle
          /\ ask.pc = "arrived" /\ MtimeOf(file) = daemon.rulesAt
      BY <1>4, <2>2 DEF AskReloads, Stale
    <3>2. ask # NoAsk
      BY <3>1 DEF NoAsk
    <3>3. CopyType'
      BY <1>0, <3>1, <3>2 DEF CopyType
    <3>. QED  BY <1>0, <1>1, <1>2, <3>1, <3>3 DEF StepIsKnown, Quiet, AskMoves, LoadGoesOn
  <2>. QED  BY <2>1, <2>2
<1>5. CASE MessageReloads
  <2>1. LoadGoesOn /\ op'.for = "message" /\ UNCHANGED ask
    BY <1>3, <1>5 DEF MessageReloads
  <2>. QED  BY <1>0, <1>1, <1>2, <2>1, QuietStep DEF ForAsk
<1>6. CASE LoadText
  <2>1. /\ op' = [op EXCEPT !.pc = "rest", !.rules = RulesIn(file)] /\ UNCHANGED ask
        /\ op.kind \in {"reload", "edit"} /\ op.pc = "text" /\ file.state # "broken"
    BY <1>6 DEF LoadText
  <2>2. op \in Reloads \cup Editings
    BY <1>0, <2>1, OpKinds
  <2>3. /\ op'.kind = op.kind /\ op'.pc = "rest" /\ op'.mtime = op.mtime
        /\ op'.rules = RulesIn(file) /\ (op \in Reloads => op'.for = op.for)
    BY <2>1, <2>2 DEF Reloads, Editings
  <2>4. ForAsk' <=> ForAsk
    BY <1>0, <2>3, OpKinds DEF ForAsk
  <2>5. LoadGoesOn
    BY <2>1, <2>3, <2>4 DEF LoadGoesOn, InLoad, HasText
  <2>. QED  BY <1>0, <1>1, <1>2, <2>1, <2>4, <2>5, QuietStep
<1>7. CASE AfterStat
  <2>1. /\ op' = [op EXCEPT !.pc = "text", !.mtime = MtimeOf(file)] /\ UNCHANGED ask
        /\ op.kind = "edit"
    BY <1>7 DEF AfterStat
  <2>2. op \in Editings
    BY <1>0, <2>1, OpKinds
  <2>3. op'.kind = "edit" /\ op'.pc = "text" /\ op'.mtime = MtimeOf(file)
    BY <2>1, <2>2 DEF Editings
  <2>. QED  BY <1>0, <1>1, <1>2, <2>1, <2>3, QuietStep DEF LoadGoesOn, ForAsk
<1>. QED  BY <1>4, <1>5, <1>6, <1>7

\* A load ends.
LEMMA EndIsKnown ==
    ASSUME Inv, Inv', CopyInv, ReloadFails \/ ReloadDone \/ AfterDone
    PROVE  StepIsKnown
<1>0. TypeOK /\ CopyType /\ AskWaits
  BY DEF Inv, CopyInv
<1>1. UNCHANGED <<file, used>> /\ op' = Idle
  BY DEF ReloadFails, ReloadDone, AfterDone
<1>2. ForAsk => /\ ask = [pc |-> ask.pc, ctx |-> ask.ctx, since |-> ask.since,
                           configs |-> ask.configs]
                /\ ask # NoAsk /\ ask.pc = "arrived"
  BY <1>0 DEF AskWaits, CopyType
<1>3. ask = NoAsk \/ ask.pc # "none"
  BY <1>0 DEF CopyType
<1>4. ASSUME ReloadFails \/ ReloadDone
      PROVE  ask' = IF ForAsk THEN [ask EXCEPT !.pc = "reloaded"] ELSE ask
  <2>1. op \in Reloads /\ ask' = Released
    BY <1>0, <1>4, OpKinds DEF ReloadFails, ReloadDone
  <2>. QED  BY <1>2, <2>1 DEF Released, ForAsk, Reloads
<1>5. ASSUME ask' = IF ForAsk THEN [ask EXCEPT !.pc = "reloaded"] ELSE ask
      PROVE  ask' = NoAsk \/ ask' \in [pc : {"arrived", "reloaded"}, ctx : Asks,
                                       since : SUBSET Seq(Rule), configs : SUBSET Configs]
  BY <1>0, <1>2, <1>5 DEF CopyType
<1>6. CASE ReloadFails
  <2>. DEFINE unchecked == IF op.configAt = daemon.configAt THEN daemon.unchecked
                           ELSE ScopesOf(daemon.rules)
  <2>1. /\ daemon' = [daemon EXCEPT !.rulesAt = op.mtime, !.configAt = op.configAt,
                                    !.unchecked = unchecked]
        /\ op \in Reloads /\ op.pc = "text" /\ file.state = "broken"
    BY <1>0, <1>6, OpKinds DEF ReloadFails
  <2>. HIDE DEF unchecked
  <2>2. daemon'.rules = daemon.rules /\ daemon'.rulesAt = op.mtime /\ IsCopy(daemon')
    BY <1>0, <2>1 DEF CopyType, IsCopy
  <2>3. op.mtime \in Nat /\ InLoad
    BY <2>1 DEF Reloads, InLoad
  <2>4. CopyType'
    BY <1>0, <1>4, <1>5, <1>6, <2>2, <2>3 DEF CopyType, IsCopy
  <2>. QED  BY <1>1, <1>4, <1>6, <2>1, <2>2, <2>3, <2>4 DEF StepIsKnown, Ends
<1>7. CASE ReloadDone
  <2>1. /\ daemon' = [rules |-> op.rules, modules |-> Modules(op.rules, store),
                      wasmRefused |-> WasmRefusals(op.rules, store),
                      scopeRefused |-> ScopeRefusals(op.rules, config), unchecked |-> {},
                      rulesAt |-> op.mtime, configAt |-> config.mtime]
        /\ op \in Reloads /\ op.pc = "rest"
    BY <1>0, <1>7, OpKinds DEF ReloadDone
  <2>2. daemon'.rules = op.rules /\ daemon'.rulesAt = op.mtime /\ IsCopy(daemon')
    BY <2>1 DEF IsCopy
  <2>3. op.mtime \in Nat /\ op.rules \in Seq(Rule) /\ HasText
    BY <2>1 DEF Reloads, HasText
  <2>4. CopyType'
    BY <1>4, <1>5, <1>7, <2>2, <2>3 DEF CopyType, IsCopy
  <2>. QED  BY <1>1, <1>4, <1>7, <2>2, <2>3, <2>4 DEF StepIsKnown, Ends
<1>8. CASE AfterDone
  <2>. DEFINE unchecked == daemon.unchecked \cup (ScopesOf(op.rules) \ ScopesOf(daemon.rules))
  <2>1. /\ daemon' = [daemon EXCEPT !.rules = op.rules, !.modules = Modules(op.rules, store),
                          !.wasmRefused = WasmRefusals(op.rules, store), !.rulesAt = op.mtime,
                          !.unchecked = unchecked]
        /\ op \in Editings /\ op.pc = "rest" /\ UNCHANGED ask
    BY <1>0, <1>8, OpKinds DEF AfterDone, reload_rules_after_edit
  <2>. HIDE DEF unchecked
  <2>2. daemon'.rules = op.rules /\ daemon'.rulesAt = op.mtime /\ IsCopy(daemon')
    BY <1>0, <2>1 DEF CopyType, IsCopy
  <2>3. op.mtime \in Nat /\ op.rules \in Seq(Rule) /\ HasText /\ ~ForAsk
    BY <2>1 DEF Editings, HasText, ForAsk
  <2>4. CopyType'
    BY <1>0, <2>1, <2>2, <2>3 DEF CopyType, IsCopy
  <2>. QED  BY <1>1, <2>1, <2>2, <2>3, <2>4 DEF StepIsKnown, Ends
<1>. QED  BY <1>6, <1>7, <1>8

\* The steps of an edit and of a registration that write no rules.
LEMMA EditIsKnown ==
    ASSUME Inv, Inv', CopyInv,
           BeginEdit \/ Compare \/ AfterFails \/ add_wasm_rule \/ admit_rule
    PROVE  StepIsKnown /\ CopyStays /\ ~InLoad'
<1>0. TypeOK /\ CopyType /\ IsCopy(daemon) /\ used \in Uses /\ UNCHANGED <<file, ask>>
  BY DEF Inv, TypeOK, CopyInv, CopyType, IsCopy, BeginEdit, Compare, AfterFails,
         add_wasm_rule, admit_rule
<1>1. used.clock <= used'.clock
  <2>1. used' = used \/ used' = [used EXCEPT !.edits = @ + 1]
          \/ used' = [used EXCEPT !.edits = @ + 1, !.drawn = TRUE]
    BY DEF BeginEdit, Compare, AfterFails, add_wasm_rule, admit_rule
  <2>2. used'.clock = used.clock
    BY <1>0, <2>1 DEF Uses
  <2>. QED  BY <1>0, <2>2 DEF Uses
<1>2. ASSUME ~InLoad', ~ForAsk', IsCopy(daemon'), CopyStays
      PROVE  StepIsKnown /\ CopyStays /\ ~InLoad'
  BY <1>0, <1>1, <1>2, QuietStep DEF LoadGoesOn
<1>3. op' = Idle \/ op'.kind = "admit" => ~InLoad' /\ ~ForAsk'
  BY DEF InLoad, ForAsk, Idle
<1>4. daemon' = daemon => IsCopy(daemon') /\ CopyStays
  BY <1>0 DEF CopyStays
<1>5. \A rule : daemon' = install_rule_module(daemon, rule) => IsCopy(daemon') /\ CopyStays
  BY <1>0, InstallKeepsRules DEF CopyStays
<1>6. ASSUME NEW e, NEW d, Prepare(e, d) PROVE ~InLoad' /\ ~ForAsk' /\ daemon' \in {d, daemon}
  BY <1>3, <1>6 DEF Prepare, Editing, InLoad, ForAsk
<1>7. CASE BeginEdit
  <2>1. PICK e \in RuleEdits :
          Prepare(e, IF e.what \in {"add", "update"}
                     THEN install_rule_module(daemon, e.rule) ELSE daemon)
    BY <1>7 DEF BeginEdit
  <2>2. daemon' = daemon \/ daemon' = install_rule_module(daemon, e.rule)
    BY <1>6, <2>1
  <2>. QED  BY <1>2, <1>4, <1>5, <1>6, <2>1, <2>2
<1>8. CASE Compare
  <2>1. op \in Editings
    BY <1>0, <1>8, OpKinds DEF Compare
  <2>2. CASE op' = [op EXCEPT !.pc = "replace", !.compared = MtimeOf(file)] /\ daemon' = daemon
    <3>1. op'.kind = "edit" /\ op'.pc = "replace"
      BY <2>1, <2>2 DEF Editings
    <3>. QED  BY <1>2, <1>4, <2>2, <3>1 DEF InLoad, ForAsk
  <2>3. CASE op' = Idle /\ daemon' = RolledBack
    <3>1. CASE op.edit.what = "add"
      <4>1. daemon' = [daemon EXCEPT !.modules = Without(@, DOMAIN @ \ {op.edit.rule.id})]
        BY <2>3, <3>1 DEF RolledBack
      <4>2. IsCopy(daemon') /\ CopyStays
        BY <1>0, <4>1 DEF CopyType, IsCopy, CopyStays
      <4>. QED  BY <1>2, <1>3, <2>3, <4>2
    <3>2. CASE op.edit.what # "add"
      <4>1. daemon' = daemon \/ daemon' = install_rule_module(daemon, op.edit.expected)
        BY <2>3, <3>2 DEF RolledBack
      <4>. QED  BY <1>2, <1>3, <1>4, <1>5, <2>3, <4>1
    <3>. QED  BY <3>1, <3>2
  <2>. QED  BY <1>8, <2>2, <2>3 DEF Compare
<1>9. CASE AfterFails
  BY <1>2, <1>3, <1>4, <1>9 DEF AfterFails
<1>10. CASE add_wasm_rule
  <2>1. op'.kind = "admit" /\ daemon' = daemon
    BY <1>10 DEF add_wasm_rule
  <2>. QED  BY <1>2, <1>3, <1>4, <2>1
<1>11. CASE admit_rule
  <2>. DEFINE e == [what |-> "add", rule |-> op.rule]
  <2>1. \/ Prepare(e, install_rule_module(daemon, op.rule))
        \/ op' = Idle /\ daemon' = daemon
    BY <1>11 DEF admit_rule
  <2>. HIDE DEF e
  <2>2. /\ ~InLoad' /\ ~ForAsk'
        /\ daemon' = daemon \/ daemon' = install_rule_module(daemon, op.rule)
    BY <1>3, <1>6, <2>1
  <2>. QED  BY <1>2, <1>4, <1>5, <2>2
<1>. QED  BY <1>7, <1>8, <1>9, <1>10, <1>11

\* The file is written.
LEMMA WriteIsKnown ==
    ASSUME Inv, Inv', CopyInv,
           \/ Replace \/ HandEnable \/ HandAdd \/ HandRemove \/ HandBreak \/ HandRepair
           \/ HandUnlink
    PROVE  StepIsKnown
<1>0. TypeOK /\ CopyType /\ used \in Uses /\ file \in [state : States, rules : Seq(Rule), mtime : Nat]
  BY DEF Inv, TypeOK, CopyInv
<1>1. RulesIn(file') \in Seq(Rule)
  BY DEF Inv, TypeOK, RulesIn
<1>2. ASSUME daemon' = daemon, ask' = Witness(file') PROVE CopyType'
  <2>1. InForce(file') \in SUBSET Seq(Rule)
    BY <1>0, <1>1, InForceIsRules
  <2>. QED  BY <1>0, <1>2, <2>1 DEF CopyType, Witness
<1>3. CASE Replace
  <2>1. /\ op \in Editings /\ op' = [op EXCEPT !.pc = "stat"] /\ file'.mtime = used.clock + 1
        /\ used' = [used EXCEPT !.clock = @ + 1] /\ daemon' = daemon /\ ask' = Witness(file')
    BY <1>0, <1>3, OpKinds DEF Replace, Fresh, Tick
  <2>2. op'.kind = "edit" /\ op'.pc = "stat"
    BY <2>1 DEF Editings
  <2>3. used'.clock = used.clock + 1
    BY <1>0, <2>1, Ticked
  <2>. QED  BY <1>2, <2>1, <2>2, <2>3 DEF StepIsKnown, Writes, CopyStays, InLoad, ForAsk
<1>4. ASSUME NEW f, Save(f), f = [state |-> f.state, rules |-> f.rules, mtime |-> f.mtime],
             file.state # "missing"
      PROVE  StepIsKnown
  <2>1. /\ file' = [f EXCEPT !.mtime = used.clock + 1] /\ ask' = Witness(file')
        /\ used' = [used EXCEPT !.clock = @ + 1, !.saves = @ + 1]
        /\ daemon' = daemon /\ op' = op
    BY <1>4 DEF Save, Fresh, Tick
  <2>2. file'.mtime = used.clock + 1
    BY <1>4, <2>1
  <2>3. used'.clock = used.clock + 1
    BY <1>0, <2>1, Counted
  <2>. QED  BY <1>2, <1>4, <2>1, <2>2, <2>3 DEF StepIsKnown, Writes, CopyStays
<1>5. CASE HandEnable
  <2>1. PICK i \in DOMAIN file.rules : Save([file EXCEPT !.rules[i].enabled = ~@])
    BY <1>5 DEF HandEnable
  <2>. QED  BY <1>0, <1>4, <1>5, <2>1 DEF HandEnable
<1>6. CASE HandAdd
  <2>1. PICK r \in HandRules : Save([file EXCEPT !.rules = Append(@, r)])
    BY <1>6 DEF HandAdd
  <2>. QED  BY <1>0, <1>4, <1>6, <2>1 DEF HandAdd
<1>7. CASE HandRemove
  <2>1. PICK i \in DOMAIN file.rules : Save([file EXCEPT !.rules = RemoveAt(@, i)])
    BY <1>7 DEF HandRemove
  <2>. QED  BY <1>0, <1>4, <1>7, <2>1 DEF HandRemove
<1>8. CASE HandBreak \/ HandRepair \/ HandUnlink
  BY <1>0, <1>4, <1>8 DEF HandBreak, HandRepair, HandUnlink
<1>. QED  BY <1>3, <1>5, <1>6, <1>7, <1>8

\* The rest.
LEMMA RestIsKnown ==
    ASSUME Inv, Inv', CopyInv,
           ArriveAsk \/ Evaluate \/ Refresh \/ SaveConfig \/ Tamper \/ Crash \/ UNCHANGED vars
    PROVE  StepIsKnown
<1>0. TypeOK /\ CopyType /\ IsCopy(daemon) /\ used \in Uses /\ used' \in Uses /\ UNCHANGED file
  BY DEF Inv, TypeOK, CopyInv, CopyType, IsCopy, ArriveAsk, Evaluate, Refresh, SaveConfig,
         Tamper, Crash, vars
<1>1. used.clock \in Nat /\ used'.clock \in Nat
  BY <1>0 DEF Uses
<1>2. CASE ArriveAsk
  <2>1. PICK ctx \in Asks : ask' = [pc |-> "arrived", ctx |-> ctx, since |-> InForce(file),
                                    configs |-> {config}]
    BY <1>2 DEF ArriveAsk
  <2>2. ask = NoAsk /\ used' = [used EXCEPT !.asks = @ + 1] /\ UNCHANGED <<daemon, op>>
    BY <1>2 DEF ArriveAsk
  <2>3. used'.clock = used.clock
    BY <1>0, <2>2 DEF Uses
  <2>4. RulesIn(file) \in Seq(Rule)
    BY <1>0 DEF TypeOK, RulesIn
  <2>5. InForce(file) \in SUBSET Seq(Rule)
    BY <1>0, <2>4, InForceIsRules
  <2>6. CopyType'
    BY <1>0, <2>1, <2>2, <2>5 DEF CopyType, TypeOK
  <2>7. AskMoves
    BY <2>1, <2>2 DEF AskMoves
  <2>. QED  BY <1>0, <1>1, <2>2, <2>3, <2>6, <2>7 DEF StepIsKnown, Quiet, LoadGoesOn, CopyStays
<1>3. CASE Evaluate
  BY <1>0, <1>1, <1>3 DEF Evaluate, StepIsKnown, CopyType, Quiet, LoadGoesOn, CopyStays, AskMoves
<1>6. CASE SaveConfig
  <2>1. /\ used' = [used EXCEPT !.clock = @ + 1, !.saves = @ + 1] /\ UNCHANGED <<daemon, op>>
        /\ ask' = IF ask = NoAsk THEN ask ELSE [ask EXCEPT !.configs = @ \cup {config'}]
    BY <1>6 DEF SaveConfig, Tick
  <2>2. used'.clock = used.clock + 1
    BY <1>0, <2>1, Counted
  <2>3. config' \in Configs
    BY DEF Inv, TypeOK
  <2>4. CopyType'
    BY <1>0, <2>1, <2>3 DEF CopyType
  <2>5. AskMoves
    <3>1. CASE ask = NoAsk
      BY <2>1, <3>1 DEF AskMoves, ForAsk
    <3>2. CASE ask # NoAsk
      BY <2>1, <2>3, <3>2 DEF AskMoves
    <3>. QED  BY <3>1, <3>2
  <2>. QED  BY <1>0, <1>1, <2>1, <2>2, <2>4, <2>5
           DEF StepIsKnown, Quiet, LoadGoesOn, CopyStays
<1>4. CASE Refresh \/ Tamper \/ UNCHANGED vars
  <2>1. UNCHANGED <<daemon, op, ask>>
    BY <1>4 DEF Refresh, Tamper, vars
  <2>2. used.clock <= used'.clock
    <3>2. CASE Tamper
      <4>1. PICK p \in Paths : used' = [used EXCEPT !.saves = @ + 1, !.touched = @ \cup {p}]
        BY <3>2 DEF Tamper
      <4>2. used'.clock = used.clock
        BY <1>0, <4>1, Touched
      <4>. QED  BY <1>1, <4>2
    <3>3. CASE Refresh \/ UNCHANGED vars
      BY <1>1, <3>3 DEF Refresh, vars
    <3>. QED  BY <1>4, <3>2, <3>3
  <2>. QED  BY <1>0, <2>1, <2>2, QuietStep DEF LoadGoesOn, CopyStays, ForAsk
<1>5. CASE Crash
  <2>1. /\ daemon' = with_rules_path_and_config(file, config, store)
        /\ op' = Idle /\ ask' = NoAsk /\ used' = [used EXCEPT !.saves = @ + 1]
    BY <1>5 DEF Crash
  <2>2. used'.clock = used.clock
    BY <1>0, <2>1 DEF Uses
  <2>3. /\ IsCopy(daemon') /\ daemon'.rulesAt = MtimeOf(file)
        /\ daemon'.rules = IF file.state = "broken" THEN <<>> ELSE RulesIn(file)
    BY <2>1 DEF with_rules_path_and_config, NoRules, Loaded, IsCopy
  <2>4. /\ MtimeOf(file) \in Nat /\ RulesIn(file) \in Seq(Rule) /\ <<>> \in Seq(Rule)
    BY <1>0 DEF TypeOK, MtimeOf, RulesIn
  <2>5. CopyType'
    BY <2>1, <2>3, <2>4 DEF CopyType, IsCopy
  <2>. QED  BY <1>0, <2>1, <2>2, <2>3, <2>5 DEF StepIsKnown, Starts
<1>. QED  BY <1>2, <1>3, <1>4, <1>5, <1>6

\* The copy is of a version that was in force, whatever the step.
LEMMA NextCopyInv ==
    ASSUME Inv, Inv', CopyInv, [Next]_vars
    PROVE  StepIsKnown /\ CopyInv'
<1>1. StepIsKnown
  BY LoadIsKnown, EndIsKnown, EditIsKnown, WriteIsKnown, RestIsKnown DEF Next
<1>. QED  BY <1>1, TimesInv, SeenInv DEF StepIsKnown, CopyInv

-----------------------------------------------------------------------------
(* Ids stay distinct, and a cached module is the one its rule pins. *)

\* No rule of a file has the id that a registration draws.
NoNew(rules) == \A i \in DOMAIN rules : rules[i].id # NewId

\* Every version of the rules has distinct ids.
IdsInv ==
    /\ Distinct(file.rules) /\ Distinct(daemon.rules)
    /\ op.kind \in {"reload", "edit"} => Distinct(op.rules)
    /\ op.kind = "edit" =>
          /\ Distinct(op.read.rules)
          /\ op.edit.what = "add" => Find(op.read.rules, op.edit.rule.id) = {}
          /\ op.edit.what = "update" => ~is_wasm(op.edit.expected)

\* The cached modules are pinned ones.
Pinned(rules, modules) ==
    \A i \in DOMAIN rules : is_wasm(rules[i]) /\ rules[i].id \in DOMAIN modules =>
        modules[rules[i].id] = rules[i].body.sha

\* They are, and until a registration ends the daemon has no rule with its id.
ModulesInv ==
    /\ Pinned(daemon.rules, daemon.modules)
    /\ ~used.drawn \/ Pending # {} => NoNew(daemon.rules)
    /\ ~used.drawn /\ op.kind \in {"reload", "edit"} => NoNew(op.rules)

\* A rule less.
LEMMA RemoveKeepsIds ==
    ASSUME NEW rules \in Seq(Rule), Distinct(rules), NEW k \in DOMAIN rules
    PROVE  Distinct(RemoveAt(rules, k))
<1>. DEFINE new == RemoveAt(rules, k)
            at(i) == IF i < k THEN i ELSE i + 1
<1>1. /\ Len(new) = Len(rules) - 1 /\ new \in Seq(Rule)
      /\ \A i \in 1..(Len(rules) - 1) : new[i] = IF i < k THEN rules[i] ELSE rules[i + 1]
  BY RemoveAtProperties
<1>. HIDE DEF new
<1>2. DOMAIN new = 1..(Len(rules) - 1) /\ Len(rules) \in Nat /\ k \in 1..Len(rules)
  BY <1>1
<1>3. \A i \in DOMAIN new : at(i) \in DOMAIN rules /\ new[i] = rules[at(i)]
  BY <1>1, <1>2
<1>4. \A i, j \in DOMAIN new : at(i) = at(j) => i = j
  BY <1>2
<1>. HIDE DEF at
<1>5. Distinct(new)
  BY <1>3, <1>4 DEF Distinct
<1>. QED  BY <1>5 DEF new

\* An edit whose rule is there, or is new, keeps ids distinct.
LEMMA EditKeepsIds ==
    ASSUME NEW rules \in Seq(Rule), Distinct(rules), NEW e \in Edits,
           e.what = "add" => Find(rules, e.rule.id) = {},
           e.what # "add" => ensure_rule_is_current(rules, e.expected),
           e.what = "update" => e.expected.id = e.rule.id
    PROVE  Distinct(apply_rule_edit(rules, e))
<1>. DEFINE new == apply_rule_edit(rules, e)
            k == rule_table_index(rules, e.expected.id)
<1>. SUFFICES Distinct(new)
  OBVIOUS
<1>1. CASE e.what = "add"
  <2>1. new = Append(rules, e.rule)
    BY <1>1 DEF apply_rule_edit
  <2>2. \A i \in DOMAIN rules : rules[i].id # e.rule.id
    BY <1>1 DEF Find, ToSet
  <2>. HIDE DEF new
  <2>. QED  BY <2>1, <2>2 DEF Distinct
<1>2. CASE e.what # "add"
  <2>0. k \in DOMAIN rules /\ rules[k] = e.expected /\ e.expected \in Rule
    BY <1>2, CurrentIsThere
  <2>1. ASSUME NEW s \in Seq(Rule), DOMAIN s = DOMAIN rules,
               \A i \in DOMAIN rules : s[i].id = rules[i].id
        PROVE  Distinct(s)
    BY <2>1 DEF Distinct
  <2>2. CASE e.what = "update"
    <3>1. new = [rules EXCEPT ![k] = e.rule] /\ e.rule \in Rule /\ e.rule.id = rules[k].id
      BY <2>0, <2>2 DEF apply_rule_edit, merge_rule_table, Edits
    <3>. HIDE DEF new, k
    <3>2. /\ new \in Seq(Rule) /\ DOMAIN new = DOMAIN rules
          /\ \A i \in DOMAIN rules : new[i].id = rules[i].id
      BY <2>0, <3>1
    <3>. QED  BY <2>1, <3>2
  <2>3. CASE e.what = "delete"
    <3>1. new = RemoveAt(rules, k)
      BY <2>3 DEF apply_rule_edit
    <3>. HIDE DEF new, k
    <3>. QED  BY <2>0, <3>1, RemoveKeepsIds
  <2>4. CASE e.what = "enable"
    <3>1. new = [rules EXCEPT ![k] = [rules[k] EXCEPT !.enabled = ~@]]
      BY <2>4, <2>0 DEF apply_rule_edit
    <3>. DEFINE r == [rules[k] EXCEPT !.enabled = ~@]
    <3>2. r \in Rule /\ r.id = rules[k].id
      BY <2>0, Switched
    <3>. HIDE DEF new, k, r
    <3>3. new = [rules EXCEPT ![k] = r]
      BY <3>1 DEF r
    <3>4. /\ new \in Seq(Rule) /\ DOMAIN new = DOMAIN rules
          /\ \A i \in DOMAIN rules : new[i].id = rules[i].id
      BY <2>0, <3>2, <3>3
    <3>. QED  BY <2>1, <3>4
  <2>. QED  BY <1>2, <2>2, <2>3, <2>4 DEF Edits
<1>. QED  BY <1>1, <1>2

\* The files people and edits write have distinct ids.
LEMMA FileIds ==
    ASSUME Inv, CopyInv, IdsInv, [Next]_vars
    PROVE  Distinct(file'.rules)
<1>0. /\ TypeOK /\ file \in [state : States, rules : Seq(Rule), mtime : Nat]
      /\ file = [state |-> file.state, rules |-> file.rules, mtime |-> file.mtime]
      /\ Distinct(file.rules)
  BY DEF Inv, TypeOK, IdsInv
<1>1. CASE Replace
  <2>1. op \in Editings /\ file'.rules = apply_rule_edit(op.read.rules, op.edit)
    BY <1>0, <1>1, OpKinds DEF Replace
  <2>2. /\ op.edit \in Edits /\ op.read.rules \in Seq(Rule) /\ op.kind = "edit"
        /\ op.edit.what # "add" => ensure_rule_is_current(op.read.rules, op.edit.expected)
        /\ op.edit.what = "update" => op.edit.expected.id = op.edit.rule.id
    BY <2>1 DEF Inv, EditsAreCurrent, Editings
  <2>3. /\ Distinct(op.read.rules)
        /\ op.edit.what = "add" => Find(op.read.rules, op.edit.rule.id) = {}
    BY <2>2 DEF IdsInv
  <2>. QED  BY <2>1, <2>2, <2>3, EditKeepsIds
<1>2. ASSUME NEW f, Save(f), f = [state |-> f.state, rules |-> f.rules, mtime |-> f.mtime],
             Distinct(f.rules)
      PROVE  Distinct(file'.rules)
  <2>1. file'.rules = f.rules
    BY <1>2 DEF Save
  <2>. QED  BY <1>2, <2>1
<1>3. CASE HandEnable
  <2>1. PICK i \in DOMAIN file.rules : Save([file EXCEPT !.rules[i].enabled = ~@])
    BY <1>3 DEF HandEnable
  <2>. DEFINE r == [file.rules[i] EXCEPT !.enabled = ~@]
              f == [file EXCEPT !.rules[i].enabled = ~@]
  <2>2. r \in Rule /\ r.id = file.rules[i].id
    BY <1>0, Switched
  <2>3. f = [file EXCEPT !.rules = [file.rules EXCEPT ![i] = r]]
    BY <1>0
  <2>. HIDE DEF f
  <2>4. f.rules = [file.rules EXCEPT ![i] = r] /\ f = [state |-> f.state, rules |-> f.rules, mtime |-> f.mtime]
    BY <1>0, <2>3, NewRulesField
  <2>. HIDE DEF r
  <2>5. Distinct(f.rules)
    BY <1>0, <2>2, <2>4 DEF Distinct
  <2>. QED  BY <1>2, <2>1, <2>4, <2>5 DEF f
<1>4. CASE HandAdd
  <2>1. PICK r \in HandRules :
           Find(file.rules, r.id) = {} /\ Save([file EXCEPT !.rules = Append(@, r)])
    BY <1>4 DEF HandAdd
  <2>. DEFINE f == [file EXCEPT !.rules = Append(@, r)]
  <2>2. f.rules = Append(file.rules, r) /\ f = [state |-> f.state, rules |-> f.rules, mtime |-> f.mtime]
    BY <1>0
  <2>3. \A i \in DOMAIN file.rules : file.rules[i].id # r.id
    BY <2>1 DEF Find, ToSet
  <2>4. Distinct(f.rules)
    <3>. HIDE DEF f
    <3>. QED  BY <1>0, <2>2, <2>3 DEF Distinct
  <2>. QED  BY <1>2, <2>1, <2>2, <2>4
<1>5. CASE HandRemove
  <2>1. PICK k \in DOMAIN file.rules : Save([file EXCEPT !.rules = RemoveAt(@, k)])
    BY <1>5 DEF HandRemove
  <2>. DEFINE f == [file EXCEPT !.rules = RemoveAt(@, k)]
  <2>2. f.rules = RemoveAt(file.rules, k) /\ f = [state |-> f.state, rules |-> f.rules, mtime |-> f.mtime]
    BY <1>0
  <2>. HIDE DEF f
  <2>4. Distinct(f.rules)
    BY <1>0, <2>2, RemoveKeepsIds
  <2>. QED  BY <1>2, <2>1, <2>2, <2>4 DEF f
<1>6. CASE HandBreak \/ HandRepair
  BY <1>0, <1>2, <1>6 DEF HandBreak, HandRepair
<1>7. CASE HandUnlink
  <2>1. Distinct(<<>>)
    BY DEF Distinct
  <2>. QED  BY <1>2, <1>7, <2>1 DEF HandUnlink
<1>8. CASE UNCHANGED file
  BY <1>0, <1>8
<1>. QED  BY <1>1, <1>3, <1>4, <1>5, <1>6, <1>7, <1>8 DEF Next, vars, AskReloads, MessageReloads, ReloadFails, LoadText,
            ReloadDone, ArriveAsk, Evaluate, Refresh, BeginEdit, Compare, AfterStat,
            AfterFails, AfterDone, add_wasm_rule, admit_rule, SaveConfig, Tamper, Crash

\* Where the text of an operation comes from.
TextMoves ==
    op'.kind \in {"reload", "edit"} =>
        \/ op'.rules = <<>> \/ op'.rules = RulesIn(file)
        \/ op.kind = op'.kind /\ op'.rules = op.rules

\* Where an edit comes from: it goes on, or has just read the file.
EditMoves ==
    op'.kind = "edit" =>
        \/ op.kind = "edit" /\ op'.read = op.read /\ op'.edit = op.edit
        \/ /\ op'.read.rules = RulesIn(file)
           /\ op'.edit.what = "add" => Find(RulesIn(file), op'.edit.rule.id) = {}
           /\ op'.edit.what = "update" => ~is_wasm(op'.edit.expected)
           /\ \/ op.kind = "admit" /\ op'.edit.rule = op.rule
              \/ op'.edit.what = "add" => ~is_wasm(op'.edit.rule)

\* What every step makes of the operation under the lock, and of the id drawn.
OpMoves ==
    /\ TextMoves /\ EditMoves
    /\ op'.kind = "admit" => op.kind = "admit" \/ ~used.drawn
    /\ ~used'.drawn => ~used.drawn

\* Every step does.
LEMMA StepMovesOp ==
    ASSUME Inv, [Next]_vars
    PROVE  OpMoves
<1>0. TypeOK /\ used \in Uses
  BY DEF Inv, TypeOK
<1>1. ASSUME op' = op, used'.drawn = used.drawn PROVE OpMoves
  BY <1>1 DEF OpMoves, TextMoves, EditMoves
<1>2. ASSUME op' = Idle, used'.drawn = used.drawn PROVE OpMoves
  BY <1>2 DEF OpMoves, TextMoves, EditMoves, Idle
<1>3. ASSUME NEW for, reload_rules_if_changed(for), used' = used PROVE OpMoves
  BY <1>3 DEF OpMoves, TextMoves, EditMoves, reload_rules_if_changed
<1>4. ASSUME NEW e, NEW d, Prepare(e, d), used'.drawn = used.drawn,
             e.what = "update" => ~is_wasm(e.expected),
             \/ op.kind = "admit" /\ e.rule = op.rule
             \/ e.what = "add" => ~is_wasm(e.rule)
      PROVE  OpMoves
  <2>1. CASE op' = Idle
    BY <1>2, <1>4, <2>1
  <2>2. CASE op' # Idle
    <3>1. /\ Applies(RulesIn(file), e)
          /\ op' = Editing(e, [state |-> file.state, rules |-> RulesIn(file)])
      BY <1>4, <2>2 DEF Prepare
    <3>2. /\ op'.kind = "edit" /\ op'.rules = <<>> /\ op'.edit = e
          /\ op'.read.rules = RulesIn(file)
      BY <3>1 DEF Editing
    <3>3. e.what = "add" => Find(RulesIn(file), e.rule.id) = {}
      BY <3>1 DEF Applies
    <3>. QED  BY <1>4, <3>2, <3>3 DEF OpMoves, TextMoves, EditMoves
  <2>. QED  BY <2>1, <2>2
<1>5. CASE AskReloads \/ MessageReloads
  <2>1. used' = used
    BY <1>5 DEF AskReloads, MessageReloads
  <2>. QED  BY <1>1, <1>3, <1>5, <2>1 DEF AskReloads, MessageReloads
<1>6. CASE ReloadFails \/ ReloadDone \/ AfterFails \/ AfterDone
  <2>1. op' = Idle /\ used' = used
    BY <1>6 DEF ReloadFails, ReloadDone, AfterFails, AfterDone
  <2>. QED  BY <1>2, <2>1
<1>7. CASE LoadText
  <2>1. /\ op' = [op EXCEPT !.pc = "rest", !.rules = RulesIn(file)] /\ used' = used
        /\ op \in Reloads \cup Editings
    BY <1>0, <1>7, OpKinds DEF LoadText
  <2>2. /\ op'.kind = op.kind /\ op'.rules = RulesIn(file)
        /\ op \in Editings => op'.read = op.read /\ op'.edit = op.edit
    BY <2>1 DEF Reloads, Editings
  <2>. QED  BY <1>0, <2>1, <2>2, OpKinds DEF OpMoves, TextMoves, EditMoves
<1>8. CASE ArriveAsk \/ Evaluate \/ Refresh \/ SaveConfig \/ UNCHANGED vars
  <2>1. op' = op
    BY <1>8 DEF ArriveAsk, Evaluate, Refresh, SaveConfig, vars
  <2>2. used' = used \/ used' = [used EXCEPT !.asks = @ + 1]
          \/ used' = [used EXCEPT !.clock = @ + 1, !.saves = @ + 1]
    BY <1>8 DEF ArriveAsk, Evaluate, Refresh, SaveConfig, vars, Tick
  <2>3. used'.drawn = used.drawn
    <3>1. CASE used' = [used EXCEPT !.asks = @ + 1]
      BY <1>0, <3>1 DEF Uses
    <3>2. CASE used' = [used EXCEPT !.clock = @ + 1, !.saves = @ + 1]
      BY <1>0, <3>2, Counted
    <3>. QED  BY <2>2, <3>1, <3>2
  <2>. QED  BY <1>1, <2>1, <2>3
<1>9. CASE Tamper
  <2>1. PICK p \in Paths : used' = [used EXCEPT !.saves = @ + 1, !.touched = @ \cup {p}]
    BY <1>9 DEF Tamper
  <2>2. used'.drawn = used.drawn
    BY <1>0, <2>1, Touched
  <2>. QED  BY <1>1, <1>9, <2>2 DEF Tamper
<1>10. CASE Crash
  <2>1. op' = Idle /\ used' = [used EXCEPT !.saves = @ + 1]
    BY <1>10 DEF Crash
  <2>2. used'.drawn = used.drawn
    BY <1>0, <2>1 DEF Uses
  <2>. QED  BY <1>2, <2>1, <2>2
<1>11. CASE HandEnable \/ HandAdd \/ HandRemove \/ HandBreak \/ HandRepair \/ HandUnlink
  <2>1. op' = op /\ used' = [used EXCEPT !.clock = @ + 1, !.saves = @ + 1]
    BY <1>11 DEF HandEnable, HandAdd, HandRemove, HandBreak, HandRepair, HandUnlink, Save, Tick
  <2>2. used'.drawn = used.drawn
    BY <1>0, <2>1, Counted
  <2>. QED  BY <1>1, <2>1, <2>2
<1>12. CASE Compare \/ Replace \/ AfterStat
  <2>1. op \in Editings /\ used'.drawn = used.drawn
    <3>1. used' = used \/ used' = [used EXCEPT !.clock = @ + 1]
      BY <1>12 DEF Compare, Replace, AfterStat, Tick
    <3>2. used'.drawn = used.drawn
      BY <1>0, <3>1, Ticked
    <3>. QED  BY <1>0, <1>12, <3>2, OpKinds DEF Compare, Replace, AfterStat
  <2>2. \/ op' = Idle \/ op' = [op EXCEPT !.pc = "replace", !.compared = MtimeOf(file)]
        \/ op' = [op EXCEPT !.pc = "stat"]
        \/ op' = [op EXCEPT !.pc = "text", !.mtime = MtimeOf(file)]
    BY <1>12 DEF Compare, Replace, AfterStat
  <2>3. op' = Idle \/ (/\ op'.kind = "edit" /\ op.kind = "edit" /\ op'.rules = op.rules
                       /\ op'.read = op.read /\ op'.edit = op.edit)
    BY <2>1, <2>2 DEF Editings
  <2>. QED  BY <1>2, <2>1, <2>3 DEF OpMoves, TextMoves, EditMoves
<1>13. CASE BeginEdit
  <2>1. PICK e \in RuleEdits :
          Prepare(e, IF e.what \in {"add", "update"}
                     THEN install_rule_module(daemon, e.rule) ELSE daemon)
    BY <1>13 DEF BeginEdit
  <2>2. used' = [used EXCEPT !.edits = @ + 1]
    BY <1>13 DEF BeginEdit
  <2>3. used'.drawn = used.drawn
    BY <1>0, <2>2 DEF Uses
  <2>4. /\ e.what = "update" => ~is_wasm(e.expected)
        /\ e.what = "add" => e.rule \in FormRules
    BY DEF RuleEdits
  <2>. QED  BY <1>4, <2>1, <2>3, <2>4, WrittenAreRules
<1>14. CASE add_wasm_rule
  <2>1. op'.kind = "admit" /\ ~used.drawn
    BY <1>14 DEF add_wasm_rule
  <2>. QED  BY <2>1 DEF OpMoves, TextMoves, EditMoves
<1>15. CASE admit_rule
  <2>. DEFINE e == [what |-> "add", rule |-> op.rule]
  <2>1. /\ op.kind = "admit" /\ used' = used
        /\ Prepare(e, install_rule_module(daemon, op.rule)) \/ op' = Idle
    BY <1>15 DEF admit_rule
  <2>2. e.what = "add" /\ e.rule = op.rule
    OBVIOUS
  <2>. HIDE DEF e
  <2>. QED  BY <1>2, <1>4, <2>1, <2>2
<1>. QED  BY <1>5, <1>6, <1>7, <1>8, <1>9, <1>10, <1>11, <1>12, <1>13, <1>14, <1>15 DEF Next

\* Ids stay distinct.
LEMMA NextIdsInv ==
    ASSUME Inv, Inv', CopyInv, IdsInv, [Next]_vars
    PROVE  IdsInv'
<1>1. Distinct(file'.rules)
  BY FileIds
<1>2. Distinct(<<>>) /\ Distinct(RulesIn(file))
  BY DEF Distinct, IdsInv, RulesIn
<1>3. StepIsKnown /\ OpMoves
  BY NextCopyInv, StepMovesOp
<1>4. Distinct(daemon'.rules)
  BY <1>2, <1>3 DEF StepIsKnown, Quiet, Writes, Ends, Starts, CopyStays, IdsInv, HasText
<1>5. op'.kind \in {"reload", "edit"} => Distinct(op'.rules)
  BY <1>2, <1>3 DEF OpMoves, TextMoves, IdsInv
<1>6. op'.kind = "edit" =>
        /\ Distinct(op'.read.rules)
        /\ op'.edit.what = "add" => Find(op'.read.rules, op'.edit.rule.id) = {}
        /\ op'.edit.what = "update" => ~is_wasm(op'.edit.expected)
  BY <1>2, <1>3 DEF OpMoves, EditMoves, IdsInv
<1>. QED  BY <1>1, <1>4, <1>5, <1>6 DEF IdsInv

\* Modules gives each rule that loads the module it pins.
LEMMA ModulesArePinned ==
    ASSUME NEW rules \in Seq(Rule), Distinct(rules), NEW s
    PROVE  Pinned(rules, Modules(rules, s))
<1>. SUFFICES ASSUME NEW i \in DOMAIN rules, is_wasm(rules[i]),
                     rules[i].id \in DOMAIN Modules(rules, s)
              PROVE  Modules(rules, s)[rules[i].id] = rules[i].body.sha
  BY DEF Pinned
<1>. DEFINE loaded == {r \in ToSet(rules) : is_wasm(r) /\ ModuleLoads(r, s)}
            id == rules[i].id
            chosen == CHOOSE r \in loaded : r.id = id
<1>1. Modules(rules, s) = [x \in {r.id : r \in loaded} |->
                              (CHOOSE r \in loaded : r.id = x).body.sha]
  BY DEF Modules
<1>2. id \in {r.id : r \in loaded}
  BY <1>1
<1>3. Modules(rules, s)[id] = chosen.body.sha
  BY <1>1, <1>2
<1>4. chosen \in loaded /\ chosen.id = id
  BY <1>2
<1>5. PICK j \in DOMAIN rules : chosen = rules[j]
  BY <1>4 DEF ToSet
<1>6. j = i
  BY <1>4, <1>5 DEF Distinct
<1>. QED  BY <1>3, <1>5, <1>6

\* Fewer modules, or one more for no rule of the copy, are still pinned ones.
Narrowed(modules) ==
    \A i \in DOMAIN daemon'.modules :
        i \in DOMAIN modules /\ daemon'.modules[i] = modules[i]
ModulesMove ==
    \/ Pinned(daemon'.rules, daemon'.modules)
    \/ daemon'.rules = daemon.rules /\ Narrowed(daemon.modules)
    \/ /\ daemon'.rules = daemon.rules /\ Pending # {}
       /\ \A i \in DOMAIN daemon'.modules :
             i = NewId \/ (i \in DOMAIN daemon.modules /\ daemon'.modules[i] = daemon.modules[i])

\* A clause rule takes the module with its id out.
LEMMA InstallNarrows ==
    ASSUME CopyType, NEW rule, ~is_wasm(rule), daemon' = install_rule_module(daemon, rule)
    PROVE  daemon'.rules = daemon.rules /\ Narrowed(daemon.modules)
<1>. DEFINE modules == Without(daemon.modules, DOMAIN daemon.modules \ {rule.id})
<1>1. install_rule_module(daemon, rule)
        = [daemon EXCEPT !.modules = modules, !.wasmRefused = @ \ {rule.id}]
  BY DEF install_rule_module
<1>2. \A i \in DOMAIN modules : i \in DOMAIN daemon.modules /\ modules[i] = daemon.modules[i]
  BY DEF Without
<1>. HIDE DEF modules
<1>3. daemon'.rules = daemon.rules /\ daemon'.modules = modules
  BY <1>1 DEF CopyType
<1>. QED  BY <1>2, <1>3 DEF Narrowed

\* What every step makes of the cached modules.
LEMMA StepMovesModules ==
    ASSUME Inv, Inv', CopyInv, IdsInv, [Next]_vars
    PROVE  ModulesMove
<1>0. TypeOK /\ CopyType
  BY DEF Inv, CopyInv
<1>1. CASE daemon' = daemon
  BY <1>1 DEF ModulesMove, Narrowed
<1>2. \A rules \in Seq(Rule) : \A s : Distinct(rules) => Pinned(rules, Modules(rules, s))
  BY ModulesArePinned
<1>3. CASE ReloadFails
  <2>. DEFINE unchecked == IF op.configAt = daemon.configAt THEN daemon.unchecked
                           ELSE ScopesOf(daemon.rules)
  <2>1. daemon' = [daemon EXCEPT !.rulesAt = op.mtime, !.configAt = op.configAt,
                                 !.unchecked = unchecked]
    BY <1>3 DEF ReloadFails
  <2>. HIDE DEF unchecked
  <2>2. daemon'.rules = daemon.rules /\ daemon'.modules = daemon.modules
    BY <1>0, <2>1 DEF CopyType
  <2>. QED  BY <2>2 DEF ModulesMove, Narrowed
<1>4. CASE ReloadDone \/ AfterDone
  <2>1. op \in Reloads \cup Editings
    BY <1>0, <1>4, OpKinds DEF ReloadDone, AfterDone
  <2>2. op.rules \in Seq(Rule) /\ op.kind \in {"reload", "edit"}
    BY <2>1 DEF Reloads, Editings
  <2>3. daemon'.rules = op.rules /\ daemon'.modules = Modules(op.rules, store)
    <3>1. CASE ReloadDone
      BY <3>1 DEF ReloadDone
    <3>2. CASE AfterDone
      <4>. DEFINE unchecked == daemon.unchecked
                                  \cup (ScopesOf(op.rules) \ ScopesOf(daemon.rules))
      <4>1. daemon' = [daemon EXCEPT !.rules = op.rules, !.modules = Modules(op.rules, store),
                          !.wasmRefused = WasmRefusals(op.rules, store), !.rulesAt = op.mtime,
                          !.unchecked = unchecked]
        BY <3>2 DEF AfterDone, reload_rules_after_edit
      <4>. HIDE DEF unchecked
      <4>. QED  BY <1>0, <4>1 DEF CopyType
    <3>. QED  BY <1>4, <3>1, <3>2
  <2>. QED  BY <1>2, <2>2, <2>3 DEF ModulesMove, IdsInv
<1>5. CASE Crash
  <2>1. daemon' = with_rules_path_and_config(file, config, store)
    BY <1>5 DEF Crash
  <2>2. RulesIn(file) \in Seq(Rule) /\ Distinct(RulesIn(file))
    BY <1>0 DEF TypeOK, RulesIn, IdsInv, Distinct
  <2>3. \/ daemon'.rules = <<>>
        \/ daemon'.rules = RulesIn(file) /\ daemon'.modules = Modules(RulesIn(file), store)
    BY <2>1 DEF with_rules_path_and_config, NoRules, Loaded
  <2>4. Pinned(<<>>, daemon'.modules)
    BY DEF Pinned
  <2>. QED  BY <1>2, <2>2, <2>3, <2>4 DEF ModulesMove
<1>6. CASE BeginEdit
  <2>1. PICK e \in RuleEdits :
          Prepare(e, IF e.what \in {"add", "update"}
                     THEN install_rule_module(daemon, e.rule) ELSE daemon)
    BY <1>6 DEF BeginEdit
  <2>2. e.what \in {"add", "update"} => ~is_wasm(e.rule)
    BY WrittenAreRules DEF RuleEdits
  <2>3. \/ daemon' = daemon
        \/ e.what \in {"add", "update"} /\ daemon' = install_rule_module(daemon, e.rule)
    BY <2>1 DEF Prepare
  <2>. QED  BY <1>0, <1>1, <2>2, <2>3, InstallNarrows DEF ModulesMove
<1>7. CASE Compare
  <2>1. op \in Editings /\ op.kind = "edit"
    BY <1>0, <1>7, OpKinds DEF Compare
  <2>2. daemon' = daemon \/ daemon' = RolledBack
    BY <1>7 DEF Compare
  <2>3. CASE daemon' = RolledBack /\ op.edit.what = "add"
    <3>. DEFINE modules == Without(daemon.modules, DOMAIN daemon.modules \ {op.edit.rule.id})
    <3>1. daemon' = [daemon EXCEPT !.modules = modules]
      BY <2>3 DEF RolledBack
    <3>2. \A i \in DOMAIN modules : i \in DOMAIN daemon.modules /\ modules[i] = daemon.modules[i]
      BY DEF Without
    <3>. HIDE DEF modules
    <3>3. daemon'.rules = daemon.rules /\ daemon'.modules = modules
      BY <1>0, <3>1 DEF CopyType
    <3>. QED  BY <3>2, <3>3 DEF ModulesMove, Narrowed
  <2>4. CASE daemon' = RolledBack /\ op.edit.what = "update"
    <3>1. daemon' = install_rule_module(daemon, op.edit.expected)
      BY <2>4 DEF RolledBack
    <3>2. ~is_wasm(op.edit.expected)
      BY <2>1, <2>4 DEF IdsInv
    <3>. QED  BY <1>0, <3>1, <3>2, InstallNarrows DEF ModulesMove
  <2>5. CASE daemon' = RolledBack /\ op.edit.what \notin {"add", "update"}
    BY <1>1, <2>5 DEF RolledBack
  <2>. QED  BY <1>1, <2>2, <2>3, <2>4, <2>5
<1>8. CASE admit_rule
  <2>1. CASE daemon' # daemon
    <3>1. daemon' = install_rule_module(daemon, op.rule) /\ op \in Admissions
      BY <1>0, <1>8, <2>1, OpKinds DEF admit_rule, Prepare
    <3>2. Pending # {} /\ op.rule.id = NewId /\ is_wasm(op.rule)
      BY <3>1 DEF Inv, PendingIsAlone, Pending
    <3>. DEFINE modules == [i \in (DOMAIN daemon.modules \ {NewId}) \cup {NewId} |->
                              IF i = NewId THEN op.rule.body.sha ELSE daemon.modules[i]]
    <3>3. daemon' = [daemon EXCEPT !.modules = modules, !.wasmRefused = @ \ {NewId}]
      BY <3>1, <3>2 DEF install_rule_module
    <3>4. \A i \in DOMAIN modules :
             i = NewId \/ (i \in DOMAIN daemon.modules /\ modules[i] = daemon.modules[i])
      OBVIOUS
    <3>. HIDE DEF modules
    <3>5. daemon'.rules = daemon.rules /\ daemon'.modules = modules
      BY <1>0, <3>3 DEF CopyType
    <3>. QED  BY <3>2, <3>4, <3>5 DEF ModulesMove
  <2>. QED  BY <1>1, <2>1
<1>9. CASE HandEnable \/ HandAdd \/ HandRemove \/ HandBreak \/ HandRepair \/ HandUnlink
  BY <1>1, <1>9 DEF HandEnable, HandAdd, HandRemove, HandBreak, HandRepair, HandUnlink, Save
<1>. QED  BY <1>1, <1>3, <1>4, <1>5, <1>6, <1>7, <1>8, <1>9 DEF Next, vars, AskReloads,
            MessageReloads, LoadText, ArriveAsk, Evaluate, Refresh, Replace, AfterStat,
            AfterFails, add_wasm_rule, SaveConfig, Tamper

\* Cached modules stay the pinned ones.
LEMMA NextModulesInv ==
    ASSUME Inv, Inv', CopyInv, IdsInv, ModulesInv, [Next]_vars
    PROVE  ModulesInv'
<1>0. TypeOK /\ TypeOK' /\ StepIsKnown /\ OpMoves /\ ModulesMove
  BY NextCopyInv, StepMovesOp, StepMovesModules DEF Inv
<1>1. NoNew(<<>>) /\ (~used.drawn => NoNew(RulesIn(file)))
  BY DEF NoNew, RulesIn, Inv, PendingIsAlone
<1>2. Pinned(daemon'.rules, daemon'.modules)
  BY <1>0 DEF ModulesMove, Narrowed, ModulesInv, Pinned, NoNew
<1>3. ~used.drawn => NoNew(daemon'.rules)
  BY <1>0, <1>1 DEF StepIsKnown, Quiet, Writes, Ends, Starts, CopyStays, ModulesInv, HasText
<1>4. ~used'.drawn /\ op'.kind \in {"reload", "edit"} => NoNew(op'.rules)
  BY <1>0, <1>1 DEF OpMoves, TextMoves, ModulesInv
<1>5. ASSUME Pending' # {} PROVE NoNew(daemon'.rules)
  <2>1. op'.kind = "admit" \/ (op'.kind = "edit" /\ op'.edit.what = "add" /\ is_wasm(op'.edit.rule))
    BY <1>0, <1>5, OpKindsNext DEF Pending
  <2>2. CASE ~used.drawn
    BY <1>3, <2>2
  <2>3. CASE used.drawn
    <3>1. \/ op.kind = "admit"
          \/ op.kind = "edit" /\ op.edit.what = "add" /\ is_wasm(op.edit.rule)
      BY <1>0, <2>1, <2>3 DEF OpMoves, EditMoves
    <3>2. Pending # {}
      BY <1>0, <3>1, OpKinds DEF Pending
    <3>3. CopyStays
      BY <1>0, <2>1 DEF StepIsKnown, Quiet, Writes, Ends, Starts, Idle
    <3>. QED  BY <3>2, <3>3 DEF CopyStays, ModulesInv
  <2>. QED  BY <2>2, <2>3
<1>. QED  BY <1>0, <1>2, <1>3, <1>4, <1>5 DEF OpMoves, ModulesInv

-----------------------------------------------------------------------------
(* The scopes the daemon has validated are those of a configuration that was  *)
(* in force while the ask waited.                                             *)

\* It is c that they were validated under: the configuration of the time that the
\* daemon has noted, and one that an ask has seen by the time it is decided.
ValidatedBy(c) ==
    /\ daemon.configAt = config.mtime => c = config
    /\ ask # NoAsk /\ ask.pc = "reloaded" => c \in ask.configs
    /\ ForAsk /\ op.configAt = daemon.configAt => c \in ask.configs
    /\ \A r \in ToSet(daemon.rules) : <<r.id, r.wraps>> \notin daemon.unchecked =>
          (r.id \in daemon.scopeRefused <=> r.id \in ScopeRefusals(<<r>>, c))

\* There is one, and no time that was noted is of the future.
ScopesInv ==
    /\ config.mtime <= used.clock
    /\ daemon.configAt \in Nat /\ daemon.configAt <= used.clock
    /\ op \in Reloads => op.configAt <= used.clock
    /\ ask # NoAsk => config \in ask.configs
    /\ \E c : ValidatedBy(c)

\* A scope is refused or not whatever else the rule says.
LEMMA ScopeOfRule ==
    ASSUME NEW r, NEW q, q.id = r.id, q.wraps = r.wraps, NEW c
    PROVE  q.id \in ScopeRefusals(<<q>>, c) <=> r.id \in ScopeRefusals(<<r>>, c)
<1>1. ToSet(<<q>>) = {q} /\ ToSet(<<r>>) = {r}
  BY DEF ToSet
<1>. QED  BY <1>1 DEF ScopeRefusals, wrap_scope_refusals

\* And whatever the other rules say.
LEMMA ScopeAlone ==
    ASSUME NEW rules \in Seq(Rule), Distinct(rules), NEW r \in ToSet(rules), NEW c
    PROVE  r.id \in ScopeRefusals(rules, c) <=> r.id \in ScopeRefusals(<<r>>, c)
<1>1. ToSet(<<r>>) = {r}
  BY DEF ToSet
<1>2. \A q \in ToSet(rules) : q.id = r.id => q = r
  BY DEF ToSet, Distinct
<1>. QED  BY <1>1, <1>2 DEF ScopeRefusals, wrap_scope_refusals

\* The copy, its scopes and the configuration stay, and an ask may see the
\* configuration there is.
ScopesStay ==
    /\ config' = config /\ CopyStays
    /\ op' \in Reloads =>
          \/ op \in Reloads /\ op'.configAt = op.configAt /\ op'.for = op.for
          \/ op'.configAt = config.mtime
    /\ \/ ask' = NoAsk
       \/ ask = NoAsk /\ ask'.pc = "arrived" /\ ask'.configs = {config}
       \/ /\ ask # NoAsk /\ ask'.configs = ask.configs
          /\ ask'.pc = ask.pc \/ daemon.configAt = config.mtime

\* Such a step keeps what was validated.
LEMMA StayKeepsScopes ==
    ASSUME Inv, Inv', CopyInv, CopyInv', ScopesInv, ScopesStay, used.clock <= used'.clock
    PROVE  ScopesInv'
<1>1. PICK c : ValidatedBy(c)
  BY DEF ScopesInv
<1>2. TypeOK /\ TypeOK' /\ (ForAsk => ask # NoAsk) /\ (ForAsk' => ask' # NoAsk)
  BY DEF Inv, CopyInv, AskWaits
<1>3. used.clock \in Nat /\ used'.clock \in Nat /\ config.mtime \in Nat
  BY <1>2 DEF TypeOK, Uses, Configs
<1>4. ForAsk' => op' \in Reloads
  BY <1>2, OpKindsNext DEF ForAsk
<1>5. op \in Reloads /\ op'.for = op.for /\ ForAsk' => ForAsk
  BY DEF ForAsk, Reloads
<1>6. ask # NoAsk => config \in ask.configs
  BY DEF ScopesInv
<1>7. ask' # NoAsk => config' \in ask'.configs
  BY <1>6 DEF ScopesStay
<1>8. /\ daemon'.configAt = daemon.configAt /\ daemon'.scopeRefused = daemon.scopeRefused
      /\ daemon'.rules = daemon.rules /\ daemon'.unchecked = daemon.unchecked
      /\ config' = config
  BY DEF ScopesStay, CopyStays
<1>9. daemon'.configAt = config'.mtime => c = config'
  BY <1>1, <1>8 DEF ValidatedBy
<1>10. ask' # NoAsk /\ ask'.pc = "reloaded" => c \in ask'.configs
  BY <1>1, <1>6, <1>8 DEF ValidatedBy, ScopesStay
<1>11. ForAsk' /\ op'.configAt = daemon'.configAt => c \in ask'.configs
  <2>. SUFFICES ASSUME ForAsk', op'.configAt = daemon'.configAt PROVE c \in ask'.configs
    OBVIOUS
  <2>1. CASE op'.configAt = config.mtime
    BY <1>1, <1>2, <1>7, <1>8, <2>1 DEF ValidatedBy
  <2>2. CASE op \in Reloads /\ op'.configAt = op.configAt /\ op'.for = op.for
    <3>1. ForAsk /\ op.configAt = daemon.configAt
      BY <1>5, <1>8, <2>2
    <3>2. c \in ask.configs /\ ask # NoAsk /\ ask' # NoAsk
      BY <1>1, <1>2, <3>1 DEF ValidatedBy
    <3>. QED  BY <3>2 DEF ScopesStay
  <2>. QED  BY <1>4, <2>1, <2>2 DEF ScopesStay
<1>12. ValidatedBy(c)'
  <2>1. \A r \in ToSet(daemon'.rules) : <<r.id, r.wraps>> \notin daemon'.unchecked =>
           (r.id \in daemon'.scopeRefused <=> r.id \in ScopeRefusals(<<r>>, c))
    BY <1>1, <1>8 DEF ValidatedBy
  <2>. QED  BY <1>9, <1>10, <1>11, <2>1 DEF ValidatedBy
<1>13. op' \in Reloads => op'.configAt <= used'.clock
  <2>1. op \in Reloads => op.configAt \in Nat
    BY DEF Reloads
  <2>. QED  BY <1>3, <2>1 DEF ScopesStay, ScopesInv
<1>. QED  BY <1>3, <1>7, <1>8, <1>12, <1>13 DEF ScopesInv

\* The steps that validate nothing and load nothing.
LEMMA ScopesStaySteps ==
    ASSUME Inv, Inv', CopyInv, CopyInv', [Next]_vars,
           ~ReloadFails, ~ReloadDone, ~AfterDone, ~Crash, ~SaveConfig
    PROVE  ScopesStay
<1>0. TypeOK /\ CopyType /\ TypeOK'
  BY DEF Inv, CopyInv
<1>1. ask # NoAsk => ask = [pc |-> ask.pc, ctx |-> ask.ctx, since |-> ask.since,
                            configs |-> ask.configs]
  BY <1>0 DEF CopyType
<1>2. \A for : reload_rules_if_changed(for) => op'.configAt = config.mtime
  BY DEF reload_rules_if_changed
<1>3. daemon' = daemon => CopyStays
  BY DEF CopyStays
<1>4. CASE AskReloads
  <2>1. CASE Stale
    BY <1>2, <1>3, <1>4, <2>1 DEF AskReloads, ScopesStay
  <2>2. CASE ~Stale
    <3>1. /\ ask' = [ask EXCEPT !.pc = "reloaded"] /\ op' = op /\ ask.pc = "arrived"
          /\ config.mtime = daemon.configAt /\ UNCHANGED <<config, daemon>>
      BY <1>4, <2>2 DEF AskReloads, Stale
    <3>2. ask # NoAsk
      BY <3>1 DEF NoAsk
    <3>3. ask'.configs = ask.configs
      BY <1>1, <3>1, <3>2
    <3>. QED  BY <1>3, <3>1, <3>2, <3>3 DEF ScopesStay
  <2>. QED  BY <2>1, <2>2
<1>5. CASE MessageReloads
  BY <1>2, <1>3, <1>5 DEF MessageReloads, ScopesStay
<1>6. CASE LoadText
  <2>1. /\ op' = [op EXCEPT !.pc = "rest", !.rules = RulesIn(file)]
        /\ op \in Reloads \cup Editings /\ UNCHANGED <<config, daemon, ask>>
    BY <1>0, <1>6, OpKinds DEF LoadText
  <2>2. op \in Reloads => op'.configAt = op.configAt /\ op'.for = op.for
    BY <2>1 DEF Reloads
  <2>3. op \in Editings => op'.kind = "edit"
    BY <2>1 DEF Editings
  <2>. QED  BY <1>0, <1>3, <2>1, <2>2, <2>3, OpKindsNext DEF ScopesStay
<1>7. CASE Replace \/ AfterStat
  <2>1. /\ op' = [op EXCEPT !.pc = "stat"] \/ op' = [op EXCEPT !.pc = "text", !.mtime = MtimeOf(file)]
        /\ op \in Editings /\ UNCHANGED <<config, daemon>>
    BY <1>0, <1>7, OpKinds DEF Replace, AfterStat
  <2>2. op'.kind = "edit"
    BY <2>1 DEF Editings
  <2>3. ask' = ask \/ ask' = Witness(file')
    BY <1>7 DEF Replace, AfterStat
  <2>4. ask # NoAsk => ask'.configs = ask.configs /\ ask'.pc = ask.pc
    BY <1>1, <2>3 DEF Witness
  <2>5. ask = NoAsk => ask' = NoAsk
    BY <2>3 DEF Witness
  <2>. QED  BY <1>0, <1>3, <2>1, <2>2, <2>4, <2>5, OpKindsNext DEF ScopesStay
<1>8. CASE HandEnable \/ HandAdd \/ HandRemove \/ HandBreak \/ HandRepair \/ HandUnlink
  <2>1. ask' = Witness(file') /\ UNCHANGED <<config, daemon, op>>
    BY <1>8 DEF HandEnable, HandAdd, HandRemove, HandBreak, HandRepair, HandUnlink, Save
  <2>2. ask # NoAsk => ask'.configs = ask.configs /\ ask'.pc = ask.pc
    BY <1>1, <2>1 DEF Witness
  <2>3. ask = NoAsk => ask' = NoAsk
    BY <2>1 DEF Witness
  <2>. QED  BY <1>3, <2>1, <2>2, <2>3 DEF ScopesStay
<1>9. CASE BeginEdit \/ Compare \/ AfterFails \/ add_wasm_rule \/ admit_rule
  <2>1. CopyStays /\ ~InLoad'
    BY <1>9, EditIsKnown
  <2>2. op' \notin Reloads
    BY <2>1 DEF InLoad, Reloads
  <2>3. UNCHANGED <<config, ask>>
    BY <1>9 DEF BeginEdit, Compare, AfterFails, add_wasm_rule, admit_rule
  <2>. QED  BY <2>1, <2>2, <2>3 DEF ScopesStay
<1>10. CASE ArriveAsk
  BY <1>3, <1>10 DEF ArriveAsk, ScopesStay
<1>11. CASE Evaluate \/ Refresh \/ Tamper \/ UNCHANGED vars
  BY <1>3, <1>11 DEF Evaluate, Refresh, Tamper, vars, ScopesStay
<1>. QED  BY <1>4, <1>5, <1>6, <1>7, <1>8, <1>9, <1>10, <1>11 DEF Next

\* A load that ends, a save of the configuration and a start.
LEMMA ScopesMove ==
    ASSUME Inv, Inv', CopyInv, CopyInv', IdsInv, ScopesInv,
           ReloadFails \/ ReloadDone \/ AfterDone \/ Crash \/ SaveConfig
    PROVE  ScopesInv'
<1>0. /\ TypeOK /\ TypeOK' /\ CopyType /\ CopyType' /\ used \in Uses /\ config \in Configs
      /\ config.mtime \in Nat /\ used.clock \in Nat /\ AskWaits
  BY DEF Inv, TypeOK, CopyInv, Configs, Uses
<1>1. /\ config.mtime <= used.clock /\ daemon.configAt \in Nat /\ daemon.configAt <= used.clock
      /\ op \in Reloads => op.configAt <= used.clock
      /\ ask # NoAsk => config \in ask.configs
  BY DEF ScopesInv
<1>2. PICK c : ValidatedBy(c)
  BY DEF ScopesInv
<1>3. ask # NoAsk => /\ ask = [pc |-> ask.pc, ctx |-> ask.ctx, since |-> ask.since,
                               configs |-> ask.configs]
                     /\ ask.pc # "none"
  BY <1>0 DEF CopyType
<1>4. ASSUME op' = Idle PROVE op' \notin Reloads /\ ~ForAsk'
  BY <1>4 DEF Idle, Reloads, ForAsk
<1>5. CASE ReloadFails \/ ReloadDone
  <2>1. /\ op \in Reloads /\ op' = Idle /\ ask' = Released /\ UNCHANGED <<config, used>>
    BY <1>0, <1>5, OpKinds DEF ReloadFails, ReloadDone
  <2>2. op.configAt \in Nat /\ op.configAt <= used.clock /\ op.kind = "reload"
    BY <1>1, <2>1 DEF Reloads
  <2>3. ask = NoAsk => ask' = NoAsk
    BY <2>1 DEF Released, NoAsk
  <2>4. ask # NoAsk => ask'.configs = ask.configs /\ (ask'.pc = "reloaded" => ask.pc = "reloaded" \/ ForAsk)
    BY <1>3, <2>1, <2>2 DEF Released, ForAsk
  <2>5. ask' # NoAsk => config' \in ask'.configs
    BY <1>1, <2>1, <2>3, <2>4
  <2>6. CASE ReloadDone
    <3>1. /\ daemon'.rules = op.rules /\ daemon'.scopeRefused = ScopeRefusals(op.rules, config)
          /\ daemon'.configAt = config.mtime
      BY <2>6 DEF ReloadDone
    <3>2. op.rules \in Seq(Rule) /\ Distinct(op.rules)
      BY <2>1, <2>2 DEF Reloads, IdsInv
    <3>3. \A r \in ToSet(op.rules) :
             r.id \in ScopeRefusals(op.rules, config) <=> r.id \in ScopeRefusals(<<r>>, config)
      BY <3>2, ScopeAlone
    <3>4. ValidatedBy(config)'
      BY <1>4, <2>1, <2>5, <3>1, <3>3 DEF ValidatedBy
    <3>. QED  BY <1>0, <1>1, <1>4, <2>1, <2>5, <3>1, <3>4 DEF ScopesInv
  <2>7. CASE ReloadFails
    <3>. DEFINE unchecked == IF op.configAt = daemon.configAt THEN daemon.unchecked
                             ELSE ScopesOf(daemon.rules)
    <3>1. daemon' = [daemon EXCEPT !.rulesAt = op.mtime, !.configAt = op.configAt,
                                   !.unchecked = unchecked]
      BY <2>7 DEF ReloadFails
    <3>. HIDE DEF unchecked
    <3>2. /\ daemon'.rules = daemon.rules /\ daemon'.scopeRefused = daemon.scopeRefused
          /\ daemon'.configAt = op.configAt /\ daemon'.unchecked = unchecked
      BY <1>0, <3>1 DEF CopyType
    <3>3. CASE op.configAt = daemon.configAt
      <4>1. unchecked = daemon.unchecked
        BY <3>3 DEF unchecked
      <4>2. ask' # NoAsk /\ ask'.pc = "reloaded" => c \in ask'.configs
        BY <1>2, <2>3, <2>4, <3>3 DEF ValidatedBy
      <4>3. \A r \in ToSet(daemon'.rules) : <<r.id, r.wraps>> \notin daemon'.unchecked =>
               (r.id \in daemon'.scopeRefused <=> r.id \in ScopeRefusals(<<r>>, c))
        BY <1>2, <3>2, <4>1 DEF ValidatedBy
      <4>4. ValidatedBy(c)'
        BY <1>2, <1>4, <2>1, <3>2, <3>3, <4>2, <4>3 DEF ValidatedBy
      <4>. QED  BY <1>0, <1>1, <1>4, <2>1, <2>2, <2>5, <3>2, <4>4 DEF ScopesInv
    <3>4. CASE op.configAt # daemon.configAt
      <4>1. unchecked = ScopesOf(daemon.rules)
        BY <3>4 DEF unchecked
      <4>2. \A r \in ToSet(daemon'.rules) : <<r.id, r.wraps>> \in daemon'.unchecked
        BY <3>2, <4>1 DEF ScopesOf
      <4>3. ValidatedBy(config)'
        BY <1>4, <2>1, <2>5, <4>2 DEF ValidatedBy
      <4>. QED  BY <1>0, <1>1, <1>4, <2>1, <2>2, <2>5, <3>2, <4>3 DEF ScopesInv
    <3>. QED  BY <3>3, <3>4
  <2>. QED  BY <1>5, <2>6, <2>7
<1>6. CASE AfterDone
  <2>. DEFINE unchecked == daemon.unchecked \cup (ScopesOf(op.rules) \ ScopesOf(daemon.rules))
  <2>1. /\ daemon' = [daemon EXCEPT !.rules = op.rules, !.modules = Modules(op.rules, store),
                          !.wasmRefused = WasmRefusals(op.rules, store), !.rulesAt = op.mtime,
                          !.unchecked = unchecked]
        /\ op' = Idle /\ UNCHANGED <<config, ask, used>>
    BY <1>6 DEF AfterDone, reload_rules_after_edit
  <2>. HIDE DEF unchecked
  <2>2. /\ daemon'.rules = op.rules /\ daemon'.scopeRefused = daemon.scopeRefused
        /\ daemon'.configAt = daemon.configAt /\ daemon'.unchecked = unchecked
    BY <1>0, <2>1 DEF CopyType
  <2>3. ASSUME NEW r \in ToSet(op.rules), <<r.id, r.wraps>> \notin unchecked
        PROVE  r.id \in daemon.scopeRefused <=> r.id \in ScopeRefusals(<<r>>, c)
    <3>1. <<r.id, r.wraps>> \in ScopesOf(daemon.rules) /\ <<r.id, r.wraps>> \notin daemon.unchecked
      BY <2>3 DEF unchecked, ScopesOf
    <3>2. PICK q \in ToSet(daemon.rules) : q.id = r.id /\ q.wraps = r.wraps
      BY <3>1 DEF ScopesOf
    <3>3. q.id \in daemon.scopeRefused <=> q.id \in ScopeRefusals(<<q>>, c)
      BY <1>2, <3>1, <3>2 DEF ValidatedBy
    <3>. QED  BY <3>2, <3>3, ScopeOfRule
  <2>4. ValidatedBy(c)'
    BY <1>2, <1>4, <2>1, <2>2, <2>3 DEF ValidatedBy
  <2>. QED  BY <1>0, <1>1, <1>4, <2>1, <2>2, <2>4 DEF ScopesInv
<1>7. CASE Crash
  <2>1. /\ daemon' = with_rules_path_and_config(file, config, store) /\ UNCHANGED config
        /\ op' = Idle /\ ask' = NoAsk /\ used' = [used EXCEPT !.saves = @ + 1]
    BY <1>7 DEF Crash
  <2>2. used'.clock = used.clock
    BY <1>0, <2>1 DEF Uses
  <2>3. daemon'.configAt = config.mtime
    BY <2>1 DEF with_rules_path_and_config, NoRules, Loaded
  <2>4. \A r \in ToSet(daemon'.rules) :
           r.id \in daemon'.scopeRefused <=> r.id \in ScopeRefusals(<<r>>, config)
    <3>1. CASE file.state = "broken"
      <4>1. daemon'.rules = <<>>
        BY <2>1, <3>1 DEF with_rules_path_and_config, NoRules
      <4>. QED  BY <4>1 DEF ToSet
    <3>2. CASE file.state # "broken"
      <4>1. /\ daemon'.rules = RulesIn(file)
            /\ daemon'.scopeRefused = ScopeRefusals(RulesIn(file), config)
        BY <2>1, <3>2 DEF with_rules_path_and_config, Loaded
      <4>2. RulesIn(file) \in Seq(Rule) /\ Distinct(RulesIn(file))
        BY <1>0 DEF TypeOK, RulesIn, IdsInv, Distinct
      <4>. QED  BY <4>1, <4>2, ScopeAlone
    <3>. QED  BY <3>1, <3>2
  <2>5. ValidatedBy(config)'
    BY <1>4, <2>1, <2>4 DEF ValidatedBy
  <2>. QED  BY <1>0, <1>1, <1>4, <2>1, <2>2, <2>3, <2>5 DEF ScopesInv
<1>8. CASE SaveConfig
  <2>1. /\ used' = [used EXCEPT !.clock = @ + 1, !.saves = @ + 1] /\ UNCHANGED <<daemon, op>>
        /\ ask' = IF ask = NoAsk THEN ask ELSE [ask EXCEPT !.configs = @ \cup {config'}]
        /\ config'.mtime = used.clock + 1
    BY <1>8 DEF SaveConfig, Tick, Fresh
  <2>2. used'.clock = used.clock + 1
    BY <1>0, <2>1, Counted
  <2>3. ask # NoAsk => /\ ask'.pc = ask.pc /\ ask' # NoAsk
                       /\ ask'.configs = ask.configs \cup {config'}
    BY <1>3, <2>1 DEF NoAsk
  <2>4. (ForAsk' <=> ForAsk) /\ (ask = NoAsk => ask' = NoAsk)
    BY <2>1 DEF ForAsk
  <2>5. op' \in Reloads => op'.configAt \in Nat /\ op'.configAt <= used.clock
    BY <1>1, <2>1 DEF Reloads
  <2>6. ValidatedBy(c)'
    <3>1. daemon'.configAt # config'.mtime
      BY <1>0, <1>1, <2>1
    <3>2. ask' # NoAsk /\ ask'.pc = "reloaded" => c \in ask'.configs
      BY <1>2, <2>3, <2>4 DEF ValidatedBy
    <3>3. ForAsk' /\ op'.configAt = daemon'.configAt => c \in ask'.configs
      BY <1>0, <1>2, <2>1, <2>3, <2>4 DEF ValidatedBy, AskWaits
    <3>. QED  BY <1>2, <2>1, <3>1, <3>2, <3>3 DEF ValidatedBy
  <2>. QED  BY <1>0, <1>1, <2>1, <2>2, <2>3, <2>4, <2>5, <2>6 DEF ScopesInv
<1>. QED  BY <1>5, <1>6, <1>7, <1>8

\* The scopes stay those of a configuration that was in force.
LEMMA NextScopesInv ==
    ASSUME Inv, Inv', CopyInv, CopyInv', IdsInv, ScopesInv, [Next]_vars
    PROVE  ScopesInv'
<1>1. CASE ReloadFails \/ ReloadDone \/ AfterDone \/ Crash \/ SaveConfig
  BY <1>1, ScopesMove
<1>2. CASE ~(ReloadFails \/ ReloadDone \/ AfterDone \/ Crash \/ SaveConfig)
  <2>1. ScopesStay
    BY <1>2, ScopesStaySteps
  <2>2. used.clock <= used'.clock
    <3>1. used.clock \in Nat /\ used'.clock \in Nat
      BY DEF Inv, TypeOK, Uses
    <3>2. StepIsKnown
      BY NextCopyInv
    <3>. QED  BY <3>1, <3>2 DEF StepIsKnown, Quiet, Writes, Ends, Starts
  <2>. QED  BY <2>1, <2>2, StayKeepsScopes
<1>. QED  BY <1>1, <1>2

\* The rules a daemon starts with were validated.
LEMMA InitScopes ==
    ASSUME Init, Inv, IdsInv
    PROVE  ScopesInv
<1>1. /\ daemon = with_rules_path_and_config(file, config, store) /\ op = Idle
      /\ ask = NoAsk /\ config.mtime = 1 /\ used.clock = 1 /\ file.state = "ok"
  BY DEF Init
<1>2. /\ daemon.rules = RulesIn(file) /\ daemon.configAt = 1
      /\ daemon.scopeRefused = ScopeRefusals(RulesIn(file), config)
  BY <1>1 DEF with_rules_path_and_config, Loaded
<1>3. RulesIn(file) \in Seq(Rule) /\ Distinct(RulesIn(file))
  BY DEF Inv, TypeOK, RulesIn, IdsInv, Distinct
<1>4. \A r \in ToSet(RulesIn(file)) :
         r.id \in ScopeRefusals(RulesIn(file), config) <=> r.id \in ScopeRefusals(<<r>>, config)
  BY <1>3, ScopeAlone
<1>5. op \notin Reloads /\ ~ForAsk
  BY <1>1 DEF Idle, Reloads, ForAsk
<1>6. ValidatedBy(config)
  BY <1>1, <1>2, <1>4, <1>5 DEF ValidatedBy
<1>. QED  BY <1>1, <1>2, <1>5, <1>6 DEF ScopesInv

\* The daemon starts from a file it wrote.
LEMMA InitDecision ==
    ASSUME Init, Inv
    PROVE  CopyInv /\ IdsInv /\ ModulesInv
<1>1. PICK rules \in FirstRules : file = [state |-> "ok", rules |-> rules, mtime |-> 1]
  BY DEF Init
<1>2. /\ op = Idle /\ ask = NoAsk /\ used.clock = 1
      /\ daemon = Loaded(file, config, store)
  BY <1>1 DEF Init, with_rules_path_and_config
<1>3. rules \in Seq(Rule) /\ Distinct(rules) /\ NoNew(rules)
  BY RuleAssumption, WrittenAreRules DEF Distinct, NoNew, ToSet
<1>4. /\ daemon.rules = rules /\ daemon.modules = Modules(rules, store)
      /\ daemon.rulesAt = 1 /\ IsCopy(daemon)
  BY <1>1, <1>2 DEF Loaded, RulesIn, MtimeOf, IsCopy
<1>5. CopyInv
  BY <1>1, <1>2, <1>3, <1>4 DEF CopyInv, CopyType, IsCopy, CopyIsOfItsTime, AskHasSeen,
         AskWaits, InLoad, HasText, ForAsk, RulesIn, MtimeOf, Idle
<1>6. IdsInv
  BY <1>1, <1>2, <1>3, <1>4 DEF IdsInv, Idle
<1>7. ModulesInv
  BY <1>2, <1>3, <1>4, ModulesArePinned DEF ModulesInv, Idle
<1>. QED  BY <1>5, <1>6, <1>7

\* The daemon's copy, the ids, the modules and the scopes keep their invariants, whatever is
\* reloaded, edited, registered, saved or crashed in any order.
THEOREM DecisionInvariance == Spec => [](CopyInv /\ IdsInv /\ ModulesInv /\ ScopesInv)
<1>. DEFINE DInv == CopyInv /\ IdsInv /\ ModulesInv /\ ScopesInv
<1>1. Init /\ Inv => DInv
  BY InitDecision, InitScopes
<1>2. Inv /\ Inv' /\ DInv /\ [Next]_vars => DInv'
  BY NextCopyInv, NextIdsInv, NextModulesInv, NextScopesInv
<1>. HIDE DEF DInv
<1>3. Spec => []DInv
  BY <1>1, <1>2, Invariance, PTL DEF Spec
<1>. QED  BY <1>3 DEF DInv

\* The rules there may be can be ranked.
LEMMA RankedRule ==
    ASSUME NEW r \in Rule
    PROVE  Ranked(r)
<1>1. PICK w \in Written : w.body = r.body
  BY DEF Rule
<1>2. PICK v \in Written : v.id = r.id
  BY DEF Rule
<1>3. ASSUME NEW x \in Written PROVE IsRule(x)
  <2>1. CASE x \in NewRules
    <3>1. PICK g \in NewModules \X Requests \X BOOLEAN :
              x = NewRule(g[1], registration_grant(g[1], g[2], g[3]), <<>>)
      BY <2>1 DEF NewRules
    <3>. QED  BY <3>1, RuleAssumption DEF NewRule, IsRule, is_wasm
  <2>2. CASE x \notin NewRules
    BY <2>2, RuleAssumption DEF Written
  <2>. QED  BY <2>1, <2>2
<1>4. r.id \in Nat
  BY <1>2, <1>3 DEF IsRule
<1>5. ASSUME NEW c, c = <<>> \/ c = <<c[1]>> PROVE Len(c) \in Nat
  BY <1>5
<1>6. ~is_wasm(r) =>
        /\ decision(r) \in {Approve, Deny}
        /\ \A c \in {r.body.argv, r.body.ancestor, r.body.cwd} : c = <<>> \/ c = <<c[1]>>
  BY <1>1, <1>3 DEF IsRule, is_wasm, decision
<1>7. SpecificityOf(r) \in Nat
  <2>1. CASE is_wasm(r)
    BY <2>1 DEF SpecificityOf, WASM_DECISION_SPECIFICITY
  <2>2. CASE ~is_wasm(r)
    <3>1. Len(r.body.argv) \in Nat /\ Len(r.body.ancestor) \in Nat /\ Len(r.body.cwd) \in Nat
      BY <1>5, <1>6, <2>2
    <3>. DEFINE a == Len(r.body.argv)
                b == Len(r.body.ancestor)
                c == Len(r.body.cwd)
    <3>2. SpecificityOf(r) = a + b + c
      BY <2>2, Zenon DEF SpecificityOf, specificity
    <3>3. a \in Nat /\ b \in Nat /\ c \in Nat
      BY <3>1
    <3>. HIDE DEF a, b, c
    <3>4. a + b + c \in Nat
      BY <3>3
    <3>. QED  BY <3>2, <3>4, Zenon
  <2>. QED  BY <2>1, <2>2
<1>. QED  BY <1>4, <1>6, <1>7 DEF Ranked

\* What an empty file means.
LEMMA NoRulesMeanNothing ==
    ASSUME NEW modules, NEW refused, NEW ctx
    PROVE  Meaning(<<>>, modules, refused, ctx) = <<>>
<1>1. ToSet(<<>>) = {}
  BY DEF ToSet
<1>2. \A word : {r \in {} : Opinion(r, modules, refused, ctx) = word} = {}
  OBVIOUS
<1>3. \A s : {r \in {} : Blesses(r, ctx, s)} = {}
  OBVIOUS
<1>. QED  BY <1>1, <1>2, <1>3 DEF Meaning

\* Two sets of refused ids that agree on the rules give them one meaning.
LEMMA RefusedOfRules ==
    ASSUME NEW rules, NEW modules, NEW one, NEW other, NEW ctx,
           \A r \in ToSet(rules) : r.id \in one <=> r.id \in other
    PROVE  Meaning(rules, modules, one, ctx) = Meaning(rules, modules, other, ctx)
<1>1. \A r \in ToSet(rules) : Opinion(r, modules, one, ctx) = Opinion(r, modules, other, ctx)
  BY DEF Opinion
<1>2. \A word : {r \in ToSet(rules) : Opinion(r, modules, one, ctx) = word}
                  = {r \in ToSet(rules) : Opinion(r, modules, other, ctx) = word}
  BY <1>1
<1>. QED  BY <1>2, Zenon DEF Meaning

\* An ask is decided as some version of the file says under some version of the
\* configuration, both in force while it waited, read as a set of rules with the
\* modules they pin; only the scopes that no whole reload has validated yet are as
\* the daemon happens to hold them; and a rule never decides a scoped agent's ask
\* (State::evaluate_rules_for_ask, reload_rules_if_changed,
\* rules::evaluate_with_refusals).
THEOREM DecidedAsWrittenHolds == Spec => []DecidedAsWritten
<1>1. CopyInv /\ IdsInv /\ ModulesInv /\ ScopesInv => DecidedAsWritten
  <2>. SUFFICES ASSUME CopyInv, IdsInv, ModulesInv, ScopesInv, op = Idle, ask.pc = "reloaded"
                PROVE  LET hit == evaluate_rules_for_ask(ask.ctx) IN
                       IF ask.ctx.kind = "scoped" THEN hit = <<>>
                       ELSE \E rules \in ask.since, c \in ask.configs :
                              /\ hit = Meaning(rules, daemon.modules, RefusedIn(rules, c), ask.ctx)
                              /\ \A r \in ToSet(rules) :
                                   is_wasm(r) /\ r.id \in DOMAIN daemon.modules
                                       => daemon.modules[r.id] = r.body.sha
    BY DEF DecidedAsWritten
  <2>1. ask # NoAsk
    BY DEF NoAsk
  <2>2. daemon.rules \in ask.since /\ daemon.rules \in Seq(Rule) /\ Distinct(daemon.rules)
    BY <2>1 DEF CopyInv, AskHasSeen, CopyType, IdsInv
  <2>3. \A r \in ToSet(daemon.rules) : is_wasm(r) /\ r.id \in DOMAIN daemon.modules
            => daemon.modules[r.id] = r.body.sha
    BY DEF ModulesInv, Pinned, ToSet
  <2>4. CASE ask.ctx.kind = "scoped"
    BY <2>4 DEF evaluate_rules_for_ask
  <2>5. CASE ask.ctx.kind # "scoped"
    <3>1. evaluate_rules_for_ask(ask.ctx)
            = Meaning(daemon.rules, daemon.modules, daemon.scopeRefused, ask.ctx)
      <4>0. RankedSet(Rule)
        BY RankedRule DEF RankedSet
      <4>1. CASE daemon.rules = <<>>
        BY <2>5, <4>1, NoRulesMeanNothing DEF evaluate_rules_for_ask
      <4>2. CASE daemon.rules # <<>>
        BY <2>2, <2>5, <4>0, <4>2, EvaluateIsMeaning DEF evaluate_rules_for_ask
      <4>. QED  BY <4>1, <4>2
    <3>2. PICK c : ValidatedBy(c)
      BY DEF ScopesInv
    <3>3. c \in ask.configs
      BY <2>1, <3>2 DEF ValidatedBy
    <3>4. \A r \in ToSet(daemon.rules) :
             r.id \in daemon.scopeRefused <=> r.id \in RefusedIn(daemon.rules, c)
      <4>1. \A r, q \in ToSet(daemon.rules) : r.id = q.id => r = q
        BY <2>2 DEF ToSet, Distinct
      <4>2. \A r \in ToSet(daemon.rules) : <<r.id, r.wraps>> \notin daemon.unchecked =>
               (r.id \in daemon.scopeRefused <=> r.id \in ScopeRefusals(<<r>>, c))
        BY <3>2 DEF ValidatedBy
      <4>. QED  BY <4>1, <4>2 DEF RefusedIn
    <3>5. Meaning(daemon.rules, daemon.modules, daemon.scopeRefused, ask.ctx)
            = Meaning(daemon.rules, daemon.modules, RefusedIn(daemon.rules, c), ask.ctx)
      BY <3>4, RefusedOfRules
    <3>. QED  BY <2>2, <2>3, <2>5, <3>1, <3>3, <3>5
  <2>. QED  BY <2>4, <2>5
<1>. QED  BY <1>1, DecisionInvariance, PTL

-----------------------------------------------------------------------------
(* Only: the elements of a sequence that are kept, in their order.            *)

\* The first n elements, as the recursion of Only takes them one by one.
Sifts(g, s, keep, n) ==
    /\ g = [m \in 0..n |-> g[m]]
    /\ g[0] = <<>>
    /\ \A m \in 1..n : g[m] = IF s[m] \in keep THEN Append(g[m - 1], s[m]) ELSE g[m - 1]

\* There is such a function: were there an n without one, there would be one for
\* n - 1, to which n can be added.
LEMMA SiftsExists ==
    ASSUME NEW s, NEW keep, NEW n \in Nat
    PROVE  \E g : Sifts(g, s, keep, n)
<1>. DEFINE T == {k \in Nat : ~\E g : Sifts(g, s, keep, k)}
<1>1. ASSUME T # {} PROVE FALSE
  <2>1. PICK k \in T : \A m \in T : k <= m
    BY <1>1, LeastNatural
  <2>2. CASE k = 0
    <3>. DEFINE g == [m \in 0..0 |-> <<>>]
    <3>1. Sifts(g, s, keep, 0)
      BY DEF Sifts
    <3>. QED  BY <2>2, <3>1
  <2>3. CASE k # 0
    <3>1. k \in Nat /\ k - 1 \in Nat /\ ~(k <= k - 1)
      BY <2>3
    <3>2. PICK g : Sifts(g, s, keep, k - 1)
      BY <2>1, <3>1
    <3>. DEFINE last == IF s[k] \in keep THEN Append(g[k - 1], s[k]) ELSE g[k - 1]
                h == [m \in 0..k |-> IF m = k THEN last ELSE g[m]]
    <3>. HIDE DEF last
    <3>3. h = [m \in 0..k |-> h[m]] /\ h[0] = <<>>
      BY <2>3, <3>1, <3>2 DEF Sifts
    <3>4. ASSUME NEW m \in 1..k
          PROVE  h[m] = IF s[m] \in keep THEN Append(h[m - 1], s[m]) ELSE h[m - 1]
      <4>1. CASE m = k
        <5>1. h[m] = last /\ h[m - 1] = g[k - 1]
          BY <3>1, <4>1
        <5>. QED  BY <4>1, <5>1 DEF last
      <4>2. CASE m # k
        <5>1. m \in 1..(k - 1) /\ h[m] = g[m] /\ h[m - 1] = g[m - 1]
          BY <3>1, <4>2
        <5>2. g[m] = IF s[m] \in keep THEN Append(g[m - 1], s[m]) ELSE g[m - 1]
          BY <3>2, <5>1 DEF Sifts
        <5>. QED  BY <5>1, <5>2
      <4>. QED  BY <4>1, <4>2
    <3>. HIDE DEF h
    <3>5. Sifts(h, s, keep, k)
      BY <3>3, <3>4 DEF Sifts
    <3>. QED  BY <3>5
  <2>. QED  BY <2>2, <2>3
<1>2. n \notin T
  BY <1>1
<1>. QED  BY <1>2

\* And no other, of what it is defined for, even for a sequence that goes on.
LEMMA SiftsIsUnique ==
    ASSUME NEW s, NEW t, NEW A, NEW B, NEW k \in Nat, NEW n \in Nat, k <= n,
           \A i \in 1..k : s[i] = t[i] /\ (s[i] \in A <=> t[i] \in B),
           NEW g, Sifts(g, s, A, k), NEW h, Sifts(h, t, B, n)
    PROVE  g[k] = h[k]
<1>. DEFINE T == {m \in 0..k : g[m] # h[m]}
<1>1. ASSUME T # {} PROVE FALSE
  <2>0. T \subseteq Nat
    OBVIOUS
  <2>1. PICK m \in T : \A j \in T : m <= j
    BY <1>1, <2>0, LeastNatural
  <2>2. m # 0
    BY DEF Sifts
  <2>3. m \in 1..k /\ m \in 1..n /\ m - 1 \in 0..k /\ ~(m <= m - 1)
    BY <2>2
  <2>4. g[m - 1] = h[m - 1]
    BY <2>1, <2>3
  <2>5. /\ g[m] = IF s[m] \in A THEN Append(g[m - 1], s[m]) ELSE g[m - 1]
        /\ h[m] = IF t[m] \in B THEN Append(h[m - 1], t[m]) ELSE h[m - 1]
    BY <2>3 DEF Sifts
  <2>6. g[m] = h[m]
    BY <2>3, <2>4, <2>5
  <2>. QED  BY <2>6
<1>. QED  BY <1>1

\* Only is the last value of such a function.
LEMMA OnlyIsSifted ==
    ASSUME NEW S, NEW s \in Seq(S), NEW keep
    PROVE  \E g : Sifts(g, s, keep, Len(s)) /\ Only(s, keep) = g[Len(s)]
<1>. DEFINE upto(g) == g = [n \in 0..Len(s) |->
                               IF n = 0 THEN <<>>
                               ELSE IF s[n] \in keep THEN Append(g[n - 1], s[n]) ELSE g[n - 1]]
            only == CHOOSE g : upto(g)
<1>1. Only(s, keep) = only[Len(s)]
  BY Zenon DEF Only
<1>2. PICK h : Sifts(h, s, keep, Len(s))
  <2>1. Len(s) \in Nat
    OBVIOUS
  <2>. QED  BY <2>1, SiftsExists, Zenon
<1>3. upto(h)
  <2>1. h = [m \in 0..Len(s) |-> h[m]]
    BY <1>2 DEF Sifts
  <2>2. ASSUME NEW n \in 0..Len(s)
        PROVE  h[n] = IF n = 0 THEN <<>>
                      ELSE IF s[n] \in keep THEN Append(h[n - 1], s[n]) ELSE h[n - 1]
    <3>1. n = 0 \/ n \in 1..Len(s)
      OBVIOUS
    <3>. QED  BY <1>2, <3>1 DEF Sifts
  <2>. QED  BY <2>1, <2>2
<1>4. upto(only)
  BY <1>3, Zenon
<1>. HIDE DEF only
<1>5. /\ only = [m \in 0..Len(s) |-> only[m]]
      /\ \A n \in 0..Len(s) :
            only[n] = IF n = 0 THEN <<>>
                      ELSE IF s[n] \in keep THEN Append(only[n - 1], s[n]) ELSE only[n - 1]
  BY <1>4
<1>6. Sifts(only, s, keep, Len(s))
  BY <1>5 DEF Sifts
<1>. QED  BY <1>1, <1>6

\* Only looks at what it keeps.
LEMMA OnlyLooks ==
    ASSUME NEW S, NEW s \in Seq(S), NEW A, NEW B, \A x \in ToSet(s) : x \in A <=> x \in B
    PROVE  Only(s, A) = Only(s, B)
<1>1. PICK g : Sifts(g, s, A, Len(s)) /\ Only(s, A) = g[Len(s)]
  BY OnlyIsSifted
<1>2. PICK h : Sifts(h, s, B, Len(s)) /\ Only(s, B) = h[Len(s)]
  BY OnlyIsSifted
<1>3. \A i \in 1..Len(s) : s[i] \in A <=> s[i] \in B
  BY DEF ToSet
<1>4. g[Len(s)] = h[Len(s)]
  BY <1>1, <1>2, <1>3, SiftsIsUnique
<1>. QED  BY <1>1, <1>2, <1>4

\* Only of nothing.
LEMMA OnlyOfNothing ==
    ASSUME NEW keep
    PROVE  Only(<<>>, keep) = <<>>
<1>1. <<>> \in Seq({}) /\ Len(<<>>) = 0
  OBVIOUS
<1>2. PICK g : Sifts(g, <<>>, keep, 0) /\ Only(<<>>, keep) = g[0]
  BY <1>1, OnlyIsSifted
<1>. QED  BY <1>2 DEF Sifts

\* One more element.
LEMMA OnlyAppends ==
    ASSUME NEW S, NEW s \in Seq(S), NEW e \in S, NEW keep
    PROVE  Only(Append(s, e), keep)
             = IF e \in keep THEN Append(Only(s, keep), e) ELSE Only(s, keep)
<1>. DEFINE t == Append(s, e)
            n == Len(s)
<1>1. /\ t \in Seq(S) /\ Len(t) = n + 1 /\ t[n + 1] = e /\ n \in Nat
      /\ \A i \in 1..n : t[i] = s[i]
  OBVIOUS
<1>. HIDE DEF t, n
<1>2. PICK g : Sifts(g, s, keep, n) /\ Only(s, keep) = g[n]
  BY OnlyIsSifted DEF n
<1>3. PICK h : Sifts(h, t, keep, n + 1) /\ Only(t, keep) = h[n + 1]
  BY <1>1, OnlyIsSifted
<1>4. g[n] = h[n]
  <2>1. n + 1 \in Nat /\ n <= n + 1
    BY <1>1
  <2>2. \A i \in 1..n : s[i] = t[i] /\ (s[i] \in keep <=> t[i] \in keep)
    BY <1>1
  <2>. QED  BY <1>1, <1>2, <1>3, <2>1, <2>2, SiftsIsUnique
<1>5. ASSUME NEW m, m = n + 1
      PROVE  h[m] = IF e \in keep THEN Append(h[n], e) ELSE h[n]
  <2>1. m \in 1..(n + 1) /\ m - 1 = n /\ t[m] = e
    BY <1>1, <1>5
  <2>2. h[m] = IF t[m] \in keep THEN Append(h[m - 1], t[m]) ELSE h[m - 1]
    BY <1>3, <2>1 DEF Sifts
  <2>. QED  BY <2>1, <2>2
<1>. QED  BY <1>2, <1>3, <1>4, <1>5 DEF t

\* What is kept stays itself: its elements are those of the sequence that are to
\* be kept, each as often as it was there.
Enumerates(f, t, s, keep) ==
    /\ f \in Bijection(1..Len(t), {i \in DOMAIN s : s[i] \in keep})
    /\ \A k \in 1..Len(t) : t[k] = s[f[k]]

\* One more element takes one more place.
LEMMA OneMorePlace ==
    ASSUME NEW S, NEW s \in Seq(S), NEW e \in S, NEW keep, NEW t \in Seq(S),
           NEW f, Enumerates(f, t, s, keep)
    PROVE  \E g : Enumerates(g, IF e \in keep THEN Append(t, e) ELSE t, Append(s, e), keep)
<1>. DEFINE r == Append(s, e)
            n == Len(s)
            P == {i \in DOMAIN s : s[i] \in keep}
<1>1. /\ DOMAIN r = 1..(n + 1) /\ n \in Nat /\ r[n + 1] = e /\ DOMAIN s = 1..n
      /\ \A i \in 1..n : r[i] = s[i]
  OBVIOUS
<1>2. {i \in DOMAIN r : r[i] \in keep} = IF e \in keep THEN P \cup {n + 1} ELSE P
  <2>. HIDE DEF r
  <2>. QED  BY <1>1
<1>3. \A i \in P : r[i] = s[i] /\ i # n + 1
  <2>. HIDE DEF r
  <2>. QED  BY <1>1
<1>4. f \in [1..Len(t) -> P] /\ (\A a, b \in 1..Len(t) : f[a] = f[b] => a = b)
      /\ \A i \in P : \E a \in 1..Len(t) : f[a] = i
  BY DEF Enumerates, Bijection, Injection, Surjection, IsInjective
<1>. HIDE DEF r, n, P
<1>5. CASE e \notin keep
  <2>1. Enumerates(f, t, r, keep)
    BY <1>2, <1>3, <1>4, <1>5 DEF Enumerates, Bijection, Injection, Surjection, IsInjective
  <2>. QED  BY <1>5, <2>1 DEF r
<1>6. CASE e \in keep
  <2>. DEFINE u == Append(t, e)
              l == Len(t)
              g == [k \in 1..(l + 1) |-> IF k = l + 1 THEN n + 1 ELSE f[k]]
  <2>1. /\ Len(u) = l + 1 /\ l \in Nat /\ u[l + 1] = e
        /\ \A k \in 1..l : u[k] = t[k]
    OBVIOUS
  <2>. HIDE DEF u
  <2>2. /\ \A k \in 1..(l + 1) : k = l + 1 \/ (k \in 1..l /\ k # l + 1)
        /\ l + 1 \in 1..(l + 1) /\ \A k \in 1..l : k \in 1..(l + 1) /\ k # l + 1
    <3>. HIDE DEF l
    <3>. QED  BY <2>1
  <2>3. /\ g[l + 1] = n + 1
        /\ \A k \in 1..l : g[k] = f[k] /\ f[k] \in P /\ f[k] # n + 1
    <3>1. \A k \in 1..l : f[k] \in P /\ f[k] # n + 1
      BY <1>3, <1>4
    <3>. HIDE DEF l
    <3>. QED  BY <2>2, <3>1
  <2>4. g \in [1..(l + 1) -> P \cup {n + 1}]
    BY <1>4
  <2>. HIDE DEF g
  <2>5. \A a, b \in 1..(l + 1) : g[a] = g[b] => a = b
    <3>1. \A a, b \in 1..l : f[a] = f[b] => a = b
      BY <1>4
    <3>. HIDE DEF l
    <3>. QED  BY <2>2, <2>3, <3>1
  <2>6. \A i \in P \cup {n + 1} : \E a \in 1..(l + 1) : g[a] = i
    <3>1. \A i \in P : \E a \in 1..l : f[a] = i
      BY <1>4
    <3>. HIDE DEF l
    <3>. QED  BY <2>2, <2>3, <3>1
  <2>7. g \in Bijection(1..(l + 1), P \cup {n + 1})
    BY <2>4, <2>5, <2>6 DEF Bijection, Injection, Surjection, IsInjective
  <2>8. \A k \in 1..(l + 1) : u[k] = r[g[k]]
    <3>1. \A k \in 1..l : t[k] = s[f[k]]
      BY DEF Enumerates
    <3>. HIDE DEF l
    <3>2. u[l + 1] = r[g[l + 1]]
      BY <1>1, <2>1, <2>3
    <3>3. ASSUME NEW k \in 1..l PROVE u[k] = r[g[k]]
      <4>1. g[k] = f[k] /\ f[k] \in P
        BY <2>3
      <4>2. r[f[k]] = s[f[k]]
        BY <1>3, <4>1
      <4>. QED  BY <2>1, <3>1, <4>1, <4>2
    <3>. QED  BY <2>2, <3>2, <3>3
  <2>9. Enumerates(g, u, r, keep)
    BY <1>2, <1>6, <2>1, <2>7, <2>8 DEF Enumerates
  <2>. QED  BY <1>6, <2>9 DEF r, u
<1>. QED  BY <1>5, <1>6

\* So the places are enumerated, for a sequence of any length.
LEMMA OnlyEnumerates ==
    ASSUME NEW S, NEW s \in Seq(S), NEW keep
    PROVE  Only(s, keep) \in Seq(S) /\ \E f : Enumerates(f, Only(s, keep), s, keep)
<1>. DEFINE Good(x) == Only(x, keep) \in Seq(S) /\ \E f : Enumerates(f, Only(x, keep), x, keep)
            T == {n \in Nat : \E x \in Seq(S) : Len(x) = n /\ ~Good(x)}
<1>1. Good(<<>>)
  <2>1. Only(<<>>, keep) = <<>> /\ <<>> \in Seq(S) /\ Len(<<>>) = 0 /\ DOMAIN <<>> = {}
    BY OnlyOfNothing
  <2>. DEFINE f == [k \in 1..0 |-> k]
  <2>2. 1..0 = {} /\ f \in [{} -> {}]
    OBVIOUS
  <2>3. f \in Bijection({}, {})
    BY <2>2 DEF Bijection, Injection, Surjection, IsInjective
  <2>4. Enumerates(f, <<>>, <<>>, keep)
    BY <2>1, <2>2, <2>3 DEF Enumerates
  <2>. QED  BY <2>1, <2>4
<1>2. ASSUME NEW x \in Seq(S), NEW e \in S, Good(x) PROVE Good(Append(x, e))
  <2>1. PICK f : Enumerates(f, Only(x, keep), x, keep)
    BY <1>2
  <2>2. Only(Append(x, e), keep) = IF e \in keep THEN Append(Only(x, keep), e) ELSE Only(x, keep)
    BY OnlyAppends
  <2>3. Only(Append(x, e), keep) \in Seq(S)
    BY <1>2, <2>2
  <2>4. \E g : Enumerates(g, Only(Append(x, e), keep), Append(x, e), keep)
    <3>1. Only(x, keep) \in Seq(S)
      BY <1>2
    <3>2. \E g : Enumerates(g, IF e \in keep THEN Append(Only(x, keep), e) ELSE Only(x, keep),
                            Append(x, e), keep)
      BY <2>1, <3>1, OneMorePlace, Zenon
    <3>. QED  BY <2>2, <3>2, Zenon
  <2>. QED  BY <2>3, <2>4
<1>. HIDE DEF Good
<1>3. ASSUME T # {} PROVE FALSE
  <2>1. PICK n \in T : \A m \in T : n <= m
    BY <1>3, LeastNatural
  <2>2. PICK x \in Seq(S) : Len(x) = n /\ ~Good(x)
    BY <2>1
  <2>3. x # <<>>
    BY <1>1, <2>2
  <2>. DEFINE y == Front(x)
              e == Last(x)
  <2>4. y \in Seq(S) /\ e \in S /\ x = Append(y, e) /\ Len(y) = n - 1 /\ n - 1 \in Nat
    BY <2>2, <2>3 DEF Front, Last
  <2>. HIDE DEF y, e
  <2>5. n - 1 \notin T
    BY <2>1, <2>4
  <2>6. Good(y)
    BY <2>4, <2>5
  <2>. QED  BY <1>2, <2>2, <2>4, <2>6
<1>4. Len(s) \notin T
  BY <1>3
<1>5. Len(s) \in Nat
  OBVIOUS
<1>6. Good(s)
  BY <1>4, <1>5
<1>. QED  BY <1>6 DEF Good

\* What is kept are elements of the sequence, no element is kept twice that was
\* there once, and they are as many as there are places for them.
LEMMA OnlyKeeps ==
    ASSUME NEW S, NEW s \in Seq(S), NEW keep
    PROVE  /\ ToSet(Only(s, keep)) = ToSet(s) \cap keep
           /\ Distinct(s) => Distinct(Only(s, keep))
           /\ Len(Only(s, keep)) = Cardinality({i \in DOMAIN s : s[i] \in keep})
           /\ IsFiniteSet({i \in DOMAIN s : s[i] \in keep})
<1>. DEFINE t == Only(s, keep)
            P == {i \in DOMAIN s : s[i] \in keep}
<1>1. t \in Seq(S) /\ \E f : Enumerates(f, t, s, keep)
  BY OnlyEnumerates, Zenon
<1>2. PICK f : Enumerates(f, t, s, keep)
  BY <1>1
<1>. HIDE DEF t
<1>3. /\ f \in [1..Len(t) -> P] /\ (\A a, b \in 1..Len(t) : f[a] = f[b] => a = b)
      /\ \A i \in P : \E a \in 1..Len(t) : f[a] = i
      /\ \A k \in 1..Len(t) : t[k] = s[f[k]]
      /\ f \in Bijection(1..Len(t), P)
  BY <1>2 DEF Enumerates, Bijection, Injection, Surjection, IsInjective
<1>4. DOMAIN t = 1..Len(t) /\ Len(t) \in Nat
  BY <1>1
<1>5. ToSet(t) = ToSet(s) \cap keep
  <2>1. ASSUME NEW x \in ToSet(t) PROVE x \in ToSet(s) \cap keep
    BY <1>3, <1>4 DEF ToSet
  <2>2. ASSUME NEW x \in ToSet(s) \cap keep PROVE x \in ToSet(t)
    <3>1. PICK i \in P : x = s[i]
      BY DEF ToSet
    <3>2. PICK a \in 1..Len(t) : f[a] = i
      BY <1>3
    <3>. QED  BY <1>3, <1>4, <3>1, <3>2 DEF ToSet
  <2>. QED  BY <2>1, <2>2
<1>6. Distinct(s) => Distinct(t)
  BY <1>3, <1>4 DEF Distinct
<1>7. IsFiniteSet(P) /\ Cardinality(P) = Len(t)
  <2>1. IsFiniteSet(1..Len(t)) /\ Cardinality(1..Len(t)) = Len(t)
    <3>1. 1 \in Int /\ Len(t) \in Int /\ IF 1 > Len(t) THEN Len(t) = 0 ELSE Len(t) - 1 + 1 = Len(t)
      BY <1>4
    <3>2. /\ IsFiniteSet(1..Len(t))
          /\ Cardinality(1..Len(t)) = IF 1 > Len(t) THEN 0 ELSE Len(t) - 1 + 1
      BY <3>1, FS_Interval, Zenon
    <3>. QED  BY <3>1, <3>2
  <2>2. ExistsBijection(1..Len(t), P)
    BY <1>3 DEF ExistsBijection
  <2>. HIDE DEF P
  <2>. QED  BY <2>1, <2>2, FS_Bijection
<1>. QED  BY <1>5, <1>6, <1>7 DEF t

\* A place that is kept twice over is one that is kept by both.
LEMMA OnlyOfOnly ==
    ASSUME NEW S, NEW s \in Seq(S), NEW A, NEW B
    PROVE  Len(Only(Only(s, A), B)) = Len(Only(s, A \cap B))
<1>. DEFINE t == Only(s, A)
            Q == {k \in DOMAIN t : t[k] \in B}
            P == {i \in DOMAIN s : s[i] \in A \cap B}
<1>1. t \in Seq(S) /\ \E f : Enumerates(f, t, s, A)
  BY OnlyEnumerates, Zenon
<1>2. PICK f : Enumerates(f, t, s, A)
  BY <1>1
<1>3. Len(Only(t, B)) = Cardinality(Q) /\ IsFiniteSet(Q)
  BY <1>1, OnlyKeeps
<1>4. Len(Only(s, A \cap B)) = Cardinality(P) /\ IsFiniteSet(P)
  BY OnlyKeeps
<1>. HIDE DEF t
<1>5. /\ f \in [1..Len(t) -> {i \in DOMAIN s : s[i] \in A}]
      /\ \A a, b \in 1..Len(t) : f[a] = f[b] => a = b
      /\ \A i \in DOMAIN s : s[i] \in A => \E a \in 1..Len(t) : f[a] = i
      /\ \A k \in 1..Len(t) : t[k] = s[f[k]]
  BY <1>2 DEF Enumerates, Bijection, Injection, Surjection, IsInjective
<1>. DEFINE g == [k \in Q |-> f[k]]
<1>6. DOMAIN t = 1..Len(t)
  BY <1>1
<1>7. g \in [Q -> P] /\ \A a, b \in Q : g[a] = g[b] => a = b
  BY <1>5, <1>6
<1>8. \A i \in P : \E a \in Q : g[a] = i
  BY <1>5, <1>6
<1>9. g \in Bijection(Q, P)
  <2>. HIDE DEF g, Q, P
  <2>. QED  BY <1>7, <1>8 DEF Bijection, Injection, Surjection, IsInjective
<1>10. ExistsBijection(Q, P)
  BY <1>9 DEF ExistsBijection
<1>. HIDE DEF g, Q, P
<1>11. Cardinality(Q) = Cardinality(P)
  BY <1>3, <1>10, FS_Bijection
<1>. QED  BY <1>3, <1>4, <1>11 DEF t

-----------------------------------------------------------------------------
(* What a hit is: the word of an enabled rule of the file, and for each subject *)
(* of an approval an enabled rule that blesses it.                              *)

\* Among some rules of a file there is a best one: were there a first n of which
\* this is not so, the n-th would be better than the best of those before it.
LEMMA BestExists ==
    ASSUME NEW All, RankedSet(All), NEW rules \in Seq(All), Distinct(rules),
           NEW those \in SUBSET ToSet(rules), those # {}
    PROVE  Best(those) \in those
<1>. DEFINE First(n) == {rules[i] : i \in 1..n} \cap those
            T == {n \in 0..Len(rules) : ~\E slot : HasBest(slot, First(n))}
<1>1. ASSUME T # {} PROVE FALSE
  <2>0. T \subseteq Nat
    OBVIOUS
  <2>1. PICK n \in T : \A m \in T : n <= m
    BY <1>1, <2>0, LeastNatural
  <2>2. n # 0
    <3>1. First(0) = {}
      OBVIOUS
    <3>2. HasBest(<<>>, First(0))
      BY <3>1 DEF HasBest
    <3>. QED  BY <2>1, <3>2
  <2>3. /\ n \in 1..Len(rules) /\ n - 1 \in 0..Len(rules) /\ ~(n <= n - 1)
        /\ rules[n] \in All
    BY <2>1, <2>2
  <2>4. n - 1 \notin T
    BY <2>1, <2>3
  <2>5. PICK slot : HasBest(slot, First(n - 1))
    BY <2>3, <2>4
  <2>6. First(n) = First(n - 1) \cup ({rules[n]} \cap those)
    BY <2>3
  <2>7. /\ First(n - 1) \in SUBSET All
        /\ \A o \in First(n - 1) : o.id = rules[n].id => o = rules[n]
    BY <2>3 DEF Distinct, ToSet
  <2>8. ~\E x : HasBest(x, First(n))
    BY <2>1
  <2>. HIDE DEF First, T
  <2>9. CASE rules[n] \in those
    <3>1. First(n) = First(n - 1) \cup {rules[n]}
      BY <2>6, <2>9
    <3>2. HasBest(IF slot = <<>> \/ beats(rules[n], slot[1]) THEN <<rules[n]>> ELSE slot, First(n))
      <4>1. HasBest(IF slot = <<>> \/ beats(rules[n], slot[1]) THEN <<rules[n]>> ELSE slot,
                    First(n - 1) \cup {rules[n]})
        BY <2>3, <2>5, <2>7, OneMoreRule, Zenon
      <4>. QED  BY <3>1, <4>1, Zenon
    <3>. QED  BY <2>8, <3>2
  <2>10. CASE rules[n] \notin those
    <3>1. First(n) = First(n - 1)
      BY <2>6, <2>10
    <3>. QED  BY <2>5, <2>8, <3>1
  <2>. QED  BY <2>9, <2>10
<1>2. Len(rules) \notin T
  BY <1>1
<1>3. First(Len(rules)) = those
  BY DEF ToSet
<1>4. PICK slot : HasBest(slot, those)
  <2>1. Len(rules) \in 0..Len(rules)
    OBVIOUS
  <2>. HIDE DEF First
  <2>. QED  BY <1>2, <1>3, <2>1
<1>5. PICK r \in those : \A o \in those : o = r \/ beats(r, o)
  BY <1>4 DEF HasBest
<1>. QED  BY <1>5, Zenon DEF Best

\* Whose word a hit is.
LEMMA HitIsOfARule ==
    ASSUME NEW All, RankedSet(All), NEW rules \in Seq(All), Distinct(rules), NEW modules,
           NEW refused, NEW ctx,
           NEW hit, hit = evaluate_with_refusals(rules, modules, refused, ctx).hit, hit # <<>>
    PROVE  /\ hit = <<hit[1]>> /\ hit[1].decide \in {Approve, Deny}
           /\ \E r \in ToSet(rules) : r.enabled /\ r.id = hit[1].id
           /\ hit[1].decide = Deny => hit[1].approvals = NoApprovals
           /\ hit[1].decide = Approve =>
                 /\ DOMAIN hit[1].approvals = ctx.secrets
                 /\ \A s \in ctx.secrets : \E r \in ToSet(rules) :
                       /\ hit[1].approvals[s] = r.id
                       /\ Opinion(r, modules, refused, ctx) = Approve /\ Blesses(r, ctx, s)
<1>. DEFINE those(word) == {r \in ToSet(rules) : Opinion(r, modules, refused, ctx) = word}
            blessing(s) == {r \in those(Approve) : Blesses(r, ctx, s)}
            by == [s \in ctx.secrets |-> Best(blessing(s))]
            all == {by[s] : s \in ctx.secrets}
            denies == those(Deny)
<1>1. hit = IF denies # {} THEN <<Hit(Best(denies), Deny, NoApprovals)>>
            ELSE IF those("unheard") # {} \/ ctx.secrets = {}
                    \/ \E s \in ctx.secrets : blessing(s) = {} THEN <<>>
            ELSE <<Hit(Best(all), Approve, [s \in ctx.secrets |-> by[s].id])>>
  <2>1. hit = Meaning(rules, modules, refused, ctx)
    BY EvaluateIsMeaning, Zenon
  <2>. QED  BY <2>1, Zenon DEF Meaning
<1>2. \A word : \A r \in those(word) : word # "none" => r.enabled
  BY DEF Opinion
<1>3. \A word : those(word) \in SUBSET ToSet(rules)
  OBVIOUS
<1>4. \A s : blessing(s) \in SUBSET ToSet(rules)
  OBVIOUS
<1>5. \A s : \A r \in blessing(s) :
         r \in those(Approve) /\ Opinion(r, modules, refused, ctx) = Approve /\ Blesses(r, ctx, s)
  OBVIOUS
<1>. HIDE DEF those, blessing
<1>6. CASE denies # {}
  <2>1. Best(denies) \in denies
    BY <1>3, <1>6, BestExists
  <2>2. hit = <<Hit(Best(denies), Deny, NoApprovals)>>
    BY <1>1, <1>6
  <2>3. Best(denies) \in ToSet(rules) /\ Best(denies).enabled
    BY <2>1, <1>2, <1>3 DEF Deny
  <2>. QED  BY <2>2, <2>3 DEF Hit, Deny, Approve
<1>7. CASE denies = {}
  <2>1. /\ hit = <<Hit(Best(all), Approve, [s \in ctx.secrets |-> by[s].id])>>
        /\ ctx.secrets # {} /\ \A s \in ctx.secrets : blessing(s) # {}
    BY <1>1, <1>7
  <2>2. ASSUME NEW s \in ctx.secrets PROVE by[s] \in blessing(s)
    <3>1. Best(blessing(s)) \in blessing(s)
      BY <1>4, <2>1, BestExists
    <3>. QED  BY <3>1
  <2>3. all \in SUBSET ToSet(rules) /\ all # {} /\ all \subseteq those(Approve)
    BY <1>4, <1>5, <2>1, <2>2
  <2>4. Best(all) \in all
    BY <2>3, BestExists
  <2>. HIDE DEF by
  <2>5. Best(all) \in ToSet(rules) /\ Best(all).enabled
    BY <2>3, <2>4, <1>2 DEF Approve
  <2>6. ASSUME NEW s \in ctx.secrets
        PROVE  \E r \in ToSet(rules) :
                  /\ by[s].id = r.id
                  /\ Opinion(r, modules, refused, ctx) = Approve /\ Blesses(r, ctx, s)
    BY <1>4, <1>5, <2>2
  <2>7. hit = <<hit[1]>> /\ hit[1].decide = Approve /\ hit[1].id = Best(all).id
        /\ hit[1].approvals = [s \in ctx.secrets |-> by[s].id]
    BY <2>1 DEF Hit
  <2>. QED  BY <2>5, <2>6, <2>7 DEF Deny, Approve
<1>. QED  BY <1>6, <1>7

\* A rule as the file holds it can be ranked.
LEMMA StoredIsRanked ==
    ASSUME NEW r, IsStored(r)
    PROVE  Ranked(r)
<1>1. ASSUME NEW c, c = <<>> \/ c = <<c[1]>> PROVE Len(c) \in Nat
  BY <1>1
<1>2. SpecificityOf(r) \in Nat
  <2>1. CASE is_wasm(r)
    BY <2>1 DEF SpecificityOf, WASM_DECISION_SPECIFICITY
  <2>2. CASE ~is_wasm(r)
    <3>1. Len(r.body.argv) \in Nat /\ Len(r.body.ancestor) \in Nat /\ Len(r.body.cwd) \in Nat
      BY <1>1, <2>2 DEF IsStored
    <3>. DEFINE a == Len(r.body.argv)
                b == Len(r.body.ancestor)
                c == Len(r.body.cwd)
    <3>2. SpecificityOf(r) = a + b + c
      BY <2>2, Zenon DEF SpecificityOf, specificity
    <3>3. a \in Nat /\ b \in Nat /\ c \in Nat
      BY <3>1
    <3>. HIDE DEF a, b, c
    <3>4. a + b + c \in Nat
      BY <3>3
    <3>. QED  BY <3>2, <3>4, Zenon
  <2>. QED  BY <2>1, <2>2
<1>. QED  BY <1>2 DEF IsStored, Ranked

-----------------------------------------------------------------------------
(* What holds of the log, the window, the form and the rules together.        *)

\* What the human approved, among these rows, bears a rule that approves these
\* secrets for this wrap.
Precedent(rows, wrap, trained) ==
    LET approved == {r \in rows : r.decision \in HumanApprovals /\ r.wrap = wrap}
    IN  /\ trained = {} => \E r \in approved : r.secrets = {}
        /\ \A s \in trained : \E r \in approved : s \in r.secrets

LogRows == {x \in ToSet(log) : IsRow(x)}

\* The rules of the file, none of them made after today.
RulesInv ==
    /\ ruleset \in Seq(ToSet(ruleset)) /\ Distinct(ruleset)
    /\ \A r \in ToSet(ruleset) : IsStored(r) /\ r.created <= now /\ r.id \in ghost.ids

\* The ids drawn so far are the first ones.
GhostInv ==
    /\ ghost = [version |-> ghost.version, learned |-> ghost.learned, ids |-> ghost.ids,
                rows |-> ghost.rows]
    /\ ghost.version \in Nat /\ ghost.learned \subseteq ghost.ids
    /\ \E n \in Nat : ghost.ids = 1..n
    /\ now \in Nat

\* A rule, or the form for one, that comes from a suggestion.
Taught(wrap, decide, trained) ==
    wrap # "" /\ (decide = Approve => Precedent(LogRows, wrap, trained))

DraftFields == {"src", "original", "enabled", "decide", "wrap", "argv", "ancestor", "cwd",
                "wraps", "trained", "attempted"}

\* A form whose rule, were it saved, would keep LearnedInv.
GoodForm(d) ==
    /\ DraftFields \subseteq DOMAIN d
    /\ d.decide \in {Approve, Deny} /\ d.enabled \in BOOLEAN
    /\ d.original = <<>> /\ d.src = "suggestion" => Taught(d.wrap, d.decide, d.trained)
    /\ d.original # <<>> /\ d.original[1].id \in ghost.learned
          => Taught(d.wrap, d.decide, d.trained)

DraftInv == draft # ClosedForm => draft = <<draft[1]>> /\ GoodForm(draft[1])

\* A rule that was accepted from a suggestion releases what the human approved.
LearnedInv ==
    \A r \in ToSet(ruleset) : r.id \in ghost.learned =>
        ~is_wasm(r) /\ Taught(r.body.wrap, decision(r), r.trained)

\* A row as it was written, under the rules there were.
RowInv(row) ==
    /\ IsRow(row) /\ row.wrap # "" /\ row.ts \in Nat
    /\ row.version \in Nat /\ row.version <= ghost.version
    /\ \A s \in DOMAIN row.approvers : row.approvers[s] \in ghost.ids
    /\ rules_were_evaluated(row) /\ row.version = ghost.version => DecidedBy(ruleset, row)

LogInv == log \in Seq(ToSet(log)) /\ \A row \in ToSet(log) : IsRow(row) => RowInv(row)

\* The window's copy holds rows of the log, and is the log's end unless its file
\* has a modification time the window has not noted.
CacheInv ==
    /\ cache = [rows |-> cache.rows, mtime |-> cache.mtime, reading |-> cache.reading]
    /\ cache.mtime \in 0..Len(log)
    /\ cache.reading # <<>> => cache.reading[1] \in 0..Len(log)
    /\ cache.rows \in Seq(ToSet(cache.rows)) /\ ToSet(cache.rows) \subseteq LogRows
    /\ cache.reading = <<>> /\ cache.mtime = Len(log)
          => cache.rows = read_history(log, HistoryLimit)

LearningInv ==
    /\ RulesInv /\ GhostInv /\ DraftInv /\ LearnedInv /\ LogInv /\ CacheInv
    /\ LearnedApprovalsHavePrecedent

-----------------------------------------------------------------------------
(* The log. *)

\* A newline is no row, and neither is a record of what a command left running.
LEMMA NewlineIsNoRow == ~IsRow(Newline) /\ ~IsRow(Survivors)
BY DEF IsRow, Newline, Survivors

\* A sequence is one of its own elements.
LEMMA SeqOfItself ==
    ASSUME NEW S, NEW s \in Seq(S)
    PROVE  s \in Seq(ToSet(s))
<1>1. s \in [1..Len(s) -> ToSet(s)] /\ Len(s) \in Nat
  <2>1. \A i \in 1..Len(s) : s[i] \in ToSet(s)
    BY DEF ToSet
  <2>2. s = [i \in 1..Len(s) |-> s[i]] /\ Len(s) \in Nat
    OBVIOUS
  <2>. HIDE DEF ToSet
  <2>. QED  BY <2>1, <2>2
<1>2. [1..Len(s) -> ToSet(s)] \subseteq Seq(ToSet(s))
  BY <1>1, SeqDef
<1>. QED  BY <1>1, <1>2

\* What is in a sequence with one more element.
LEMMA AppendedSet ==
    ASSUME NEW s, s \in Seq(ToSet(s)), NEW x
    PROVE  LET t == Append(s, x)
           IN  /\ ToSet(t) = ToSet(s) \cup {x} /\ t \in Seq(ToSet(t))
               /\ Len(t) = Len(s) + 1 /\ t[Len(s) + 1] = x
               /\ \A i \in 1..Len(s) : t[i] = s[i]
<1>. DEFINE t == Append(s, x)
            S == ToSet(s) \cup {x}
<1>1. s \in Seq(S)
  OBVIOUS
<1>2. /\ t \in Seq(S) /\ Len(t) = Len(s) + 1 /\ t[Len(s) + 1] = x
      /\ \A i \in 1..Len(s) : t[i] = s[i]
  BY <1>1
<1>. HIDE DEF t, S
<1>3. DOMAIN s = 1..Len(s) /\ DOMAIN t = 1..(Len(s) + 1) /\ Len(s) \in Nat
  BY <1>1, <1>2
<1>4. ToSet(t) = S
  BY <1>2, <1>3 DEF ToSet, S
<1>. QED  BY <1>2, <1>4 DEF t, S

\* The rows of a sequence of items.
LEMMA RowsAre ==
    ASSUME NEW S, NEW s \in Seq(S)
    PROVE  Rows(s) \in Seq(S) /\ ToSet(Rows(s)) = {x \in ToSet(s) : IsRow(x)}
<1>. DEFINE keep == {x \in ToSet(s) : IsRow(x)}
<1>1. Only(s, keep) \in Seq(S) /\ ToSet(Only(s, keep)) = ToSet(s) \cap keep
  BY OnlyEnumerates, OnlyKeeps, Zenon
<1>2. ToSet(s) \cap keep = keep
  OBVIOUS
<1>. QED  BY <1>1, <1>2 DEF Rows

\* The rows a reader gets of a sequence of items.
LEMMA VisitedAre ==
    ASSUME NEW S, NEW s \in Seq(S)
    PROVE  /\ visit_history(s) \in Seq(S)
           /\ ToSet(visit_history(s)) = {x \in ToSet(s) : IsRow(x) /\ ~x.behind}
<1>. DEFINE keep == {x \in ToSet(s) : IsRow(x) /\ ~x.behind}
<1>1. Only(s, keep) \in Seq(S) /\ ToSet(Only(s, keep)) = ToSet(s) \cap keep
  BY OnlyEnumerates, OnlyKeeps, Zenon
<1>2. ToSet(s) \cap keep = keep
  OBVIOUS
<1>. QED  BY <1>1, <1>2 DEF visit_history

\* The rows of a log that grows.
LEMMA RowsGrow ==
    ASSUME NEW s, s \in Seq(ToSet(s)), NEW x
    PROVE  Rows(Append(s, x)) = IF IsRow(x) THEN Append(Rows(s), x) ELSE Rows(s)
<1>. DEFINE t == Append(s, x)
            A == {y \in ToSet(s) : IsRow(y)}
            B == {y \in ToSet(t) : IsRow(y)}
<1>1. ToSet(t) = ToSet(s) \cup {x} /\ s \in Seq(ToSet(t)) /\ x \in ToSet(t)
  BY AppendedSet
<1>2. Only(t, B) = IF x \in B THEN Append(Only(s, B), x) ELSE Only(s, B)
  <2>. HIDE DEF B
  <2>1. \A keep : Only(t, keep) = IF x \in keep THEN Append(Only(s, keep), x) ELSE Only(s, keep)
    <3>. DEFINE S == ToSet(t)
    <3>1. s \in Seq(S) /\ x \in S
      BY <1>1
    <3>. HIDE DEF S
    <3>. QED  BY <3>1, OnlyAppends
  <2>. QED  BY <2>1, Zenon
<1>3. Only(s, A) = Only(s, B)
  <2>1. \A y \in ToSet(s) : y \in A <=> y \in B
    BY <1>1
  <2>. HIDE DEF A, B, t
  <2>. QED  BY <2>1, OnlyLooks
<1>4. x \in B <=> IsRow(x)
  BY <1>1
<1>. HIDE DEF t
<1>5. Rows(t) = Only(t, B) /\ Rows(s) = Only(s, A)
  BY Zenon DEF Rows
<1>. QED  BY <1>2, <1>3, <1>4, <1>5 DEF t

\* What bears a rule goes on bearing it while the log grows.
LEMMA TaughtStays ==
    ASSUME LogRows \subseteq LogRows', NEW wrap, NEW decide, NEW trained, Taught(wrap, decide, trained)
    PROVE  Taught(wrap, decide, trained)'
<1>. DEFINE approved == {r \in LogRows : r.decision \in HumanApprovals /\ r.wrap = wrap}
            later == {r \in LogRows' : r.decision \in HumanApprovals /\ r.wrap = wrap}
<1>1. approved \subseteq later
  OBVIOUS
<1>2. Precedent(LogRows, wrap, trained) => Precedent(LogRows, wrap, trained)'
  <2>1. Precedent(LogRows, wrap, trained) <=>
            /\ trained = {} => \E r \in approved : r.secrets = {}
            /\ \A s \in trained : \E r \in approved : s \in r.secrets
    BY Zenon DEF Precedent
  <2>2. Precedent(LogRows, wrap, trained)' <=>
            /\ trained = {} => \E r \in later : r.secrets = {}
            /\ \A s \in trained : \E r \in later : s \in r.secrets
    BY Zenon DEF Precedent
  <2>. HIDE DEF approved, later
  <2>. QED  BY <1>1, <2>1, <2>2, Zenon
<1>. QED  BY <1>2 DEF Taught

\* What the state and the rows of a growing log have in common: no step that
\* leaves the rules alone disturbs what is said of them, of a form that stays and
\* of the rows there were.
LEMMA RulesStay ==
    ASSUME LearningInv, LogRows \subseteq LogRows', UNCHANGED ruleset,
           ghost' = ghost \/ ghost' = [ghost EXCEPT !.rows = @ + 1],
           now' \in Nat, now <= now'
    PROVE  /\ RulesInv' /\ GhostInv' /\ LearnedInv'
           /\ \A row : RowInv(row) => RowInv(row)'
           /\ UNCHANGED draft => DraftInv'
           /\ ghost'.ids = ghost.ids /\ ghost'.learned = ghost.learned
           /\ ghost'.version = ghost.version
<1>1. /\ ghost'.ids = ghost.ids /\ ghost'.learned = ghost.learned
      /\ ghost'.version = ghost.version
      /\ ghost' = [version |-> ghost'.version, learned |-> ghost'.learned, ids |-> ghost'.ids,
                   rows |-> ghost'.rows]
  BY DEF LearningInv, GhostInv
<1>2. RulesInv'
  <2>1. ASSUME NEW r \in ToSet(ruleset), IsStored(r), r.created <= now PROVE r.created <= now'
    BY <2>1 DEF IsStored, LearningInv, GhostInv
  <2>2. ToSet(ruleset)' = ToSet(ruleset) /\ Distinct(ruleset)' = Distinct(ruleset)
    BY DEF ToSet, Distinct
  <2>. QED  BY <1>1, <2>1, <2>2 DEF LearningInv, RulesInv
<1>3. GhostInv'
  BY <1>1 DEF LearningInv, GhostInv
<1>4. LearnedInv'
  <2>1. \A r \in ToSet(ruleset) : Taught(r.body.wrap, decision(r), r.trained)
            => Taught(r.body.wrap, decision(r), r.trained)'
    BY TaughtStays
  <2>2. ToSet(ruleset)' = ToSet(ruleset)
    OBVIOUS
  <2>. QED  BY <1>1, <2>1, <2>2 DEF LearningInv, LearnedInv
<1>5. ASSUME NEW row, RowInv(row) PROVE RowInv(row)'
  <2>1. DecidedBy(ruleset, row)' <=> DecidedBy(ruleset, row)
    OBVIOUS
  <2>. QED  BY <1>1, <1>5, <2>1 DEF RowInv
<1>6. UNCHANGED draft => DraftInv'
  <2>1. ASSUME NEW d, Taught(d.wrap, d.decide, d.trained)
        PROVE  Taught(d.wrap, d.decide, d.trained)'
    BY <2>1, TaughtStays
  <2>. QED  BY <1>1, <2>1 DEF LearningInv, DraftInv, GoodForm
<1>. QED  BY <1>1, <1>2, <1>3, <1>4, <1>5, <1>6

\* The log takes one more item.
LEMMA LogTakes ==
    ASSUME LearningInv, NEW x, log' = Append(log, x), IsRow(x) => RowInv(x),
           UNCHANGED <<cache, ruleset, draft, now>>,
           ghost' = ghost \/ ghost' = [ghost EXCEPT !.rows = @ + 1],
           IsRow(x) /\ x.decision = "approve+auto" =>
               \A s \in DOMAIN x.approvers : x.approvers[s] \in ghost.learned =>
                   \E r \in LogRows : /\ r.decision \in HumanApprovals /\ r.wrap = x.wrap
                                      /\ s \in r.secrets \/ r.secrets = {}
    PROVE  LearningInv'
<1>1. log \in Seq(ToSet(log))
  BY DEF LearningInv, LogInv
<1>2. /\ ToSet(log)' = ToSet(log) \cup {x} /\ log' \in Seq(ToSet(log)')
      /\ Len(log') = Len(log) + 1
  BY <1>1, AppendedSet
<1>3. LogRows \subseteq LogRows'
  BY <1>2 DEF LogRows
<1>4. /\ RulesInv' /\ GhostInv' /\ LearnedInv' /\ DraftInv'
      /\ \A row : RowInv(row) => RowInv(row)'
      /\ ghost'.learned = ghost.learned
  <2>1. now' \in Nat /\ now <= now'
    BY DEF LearningInv, GhostInv
  <2>. QED  BY <1>3, <2>1, RulesStay
<1>5. LogInv'
  <2>1. ASSUME NEW row \in ToSet(log)', IsRow(row) PROVE RowInv(row)'
    <3>1. RowInv(row)
      BY <1>2, <2>1 DEF LearningInv, LogInv
    <3>. QED  BY <1>4, <3>1
  <2>. QED  BY <1>2, <2>1 DEF LogInv
<1>6. CacheInv'
  <2>1. cache.mtime \in 0..Len(log) /\ Len(log) \in Nat
    BY <1>1 DEF LearningInv, CacheInv
  <2>. QED  BY <1>2, <1>3, <2>1 DEF LearningInv, CacheInv
<1>7. LearnedApprovalsHavePrecedent'
  <2>. DEFINE old == Rows(log)
              new == Rows(log)'
              bears(row, s, j, rs) ==
                  /\ rs[j].decision \in {"approve", "approve+remember", "approve+cached"}
                  /\ rs[j].wrap = row.wrap
                  /\ s \in rs[j].secrets \/ rs[j].secrets = {}
              claims(row, s) == /\ row.decision = "approve+auto" /\ s \in DOMAIN row.approvers
                                /\ row.approvers[s] \in ghost.learned
  <2>1. \A i \in DOMAIN old : \A s : claims(old[i], s) => \E j \in 1..(i - 1) : bears(old[i], s, j, old)
    BY DEF LearningInv, LearnedApprovalsHavePrecedent
  <2>2. /\ old \in Seq(ToSet(log)) /\ ToSet(old) = LogRows
        /\ new = IF IsRow(x) THEN Append(old, x) ELSE old
    BY <1>1, RowsAre, RowsGrow DEF LogRows
  <2>. HIDE DEF old, new, bears, claims
  <2>3. \A i \in DOMAIN new : \A s : claims(new[i], s) => \E j \in 1..(i - 1) : bears(new[i], s, j, new)
    <3>1. CASE ~IsRow(x)
      BY <2>1, <2>2, <3>1
    <3>2. CASE IsRow(x)
      <4>1. /\ Len(new) = Len(old) + 1 /\ new[Len(old) + 1] = x /\ Len(old) \in Nat
            /\ DOMAIN new = 1..(Len(old) + 1) /\ DOMAIN old = 1..Len(old)
            /\ \A i \in 1..Len(old) : new[i] = old[i]
        BY <2>2, <3>2
      <4>2. ASSUME NEW row, NEW s, NEW j \in 1..Len(old), bears(row, s, j, old)
            PROVE  bears(row, s, j, new)
        BY <4>1, <4>2 DEF bears
      <4>3. ASSUME NEW i \in 1..Len(old), NEW s, claims(new[i], s)
            PROVE  \E j \in 1..(i - 1) : bears(new[i], s, j, new)
        <5>1. PICK j \in 1..(i - 1) : bears(old[i], s, j, old)
          BY <2>1, <4>1, <4>3
        <5>2. j \in 1..Len(old)
          BY <4>1
        <5>. QED  BY <4>1, <4>2, <5>1, <5>2
      <4>4. ASSUME NEW s, claims(x, s)
            PROVE  \E j \in 1..Len(old) : bears(x, s, j, new)
        <5>1. PICK r \in LogRows : /\ r.decision \in HumanApprovals /\ r.wrap = x.wrap
                                   /\ s \in r.secrets \/ r.secrets = {}
          BY <3>2, <4>4 DEF claims
        <5>2. PICK j \in 1..Len(old) : old[j] = r
          BY <2>2, <4>1 DEF ToSet
        <5>3. bears(x, s, j, old)
          BY <5>1, <5>2 DEF bears, HumanApprovals
        <5>. QED  BY <4>2, <5>3
      <4>5. ASSUME NEW i \in DOMAIN new, NEW s, claims(new[i], s)
            PROVE  \E j \in 1..(i - 1) : bears(new[i], s, j, new)
        <5>1. CASE i \in 1..Len(old)
          BY <4>3, <4>5, <5>1
        <5>2. CASE i = Len(old) + 1
          <6>1. new[i] = x /\ i - 1 = Len(old)
            BY <4>1, <5>2
          <6>. QED  BY <4>4, <4>5, <6>1
        <5>. QED  BY <4>1, <5>1, <5>2
      <4>. QED  BY <4>5
    <3>. QED  BY <3>1, <3>2
  <2>. QED  BY <1>4, <2>3 DEF LearnedApprovalsHavePrecedent, new, bears, claims
<1>. QED  BY <1>4, <1>5, <1>6, <1>7 DEF LearningInv

\* The rules of the file can be ranked, and what decides one row decides another
\* that was asked the same.
LEMMA FileIsRanked ==
    ASSUME RulesInv
    PROVE  RankedSet(ToSet(ruleset)) /\ ruleset \in Seq(ToSet(ruleset)) /\ Distinct(ruleset)
BY StoredIsRanked DEF RulesInv, RankedSet

\* An ask that is decided, by a rule or by the human.
LEMMA AskDecidedInv == LearningInv /\ AskDecided => LearningInv'
<1>. SUFFICES ASSUME LearningInv, AskDecided PROVE LearningInv'
  OBVIOUS
<1>. DEFINE hitOf(a, refused) == Verdict(a, refused).hit
<1>1. PICK a \in LoggedAsks, refused \in SUBSET ScopedRules :
        /\ ~IsAgent(a.wrap)
        /\ IF hitOf(a, refused) # <<>>
           THEN append_record(Row(a,
                    IF hitOf(a, refused)[1].decide = Deny THEN "deny+auto" ELSE "approve+auto",
                    <<hitOf(a, refused)[1].id>>, hitOf(a, refused)[1].approvals, refused))
           ELSE \E choice \in a.answers :
                    append_record(Row(a, choice, <<>>, NoApprovals, refused))
  BY Zenon DEF AskDecided
<1>. DEFINE hit == hitOf(a, refused)
            ctx == EvalCtx(a)
<1>2. hit = evaluate_with_refusals(ruleset, LoadedModules, refused, ctx).hit
  BY DEF Verdict
<1>3. ASSUME NEW decided, NEW rule, NEW approvers,
             LET row == Row(a, decided, rule, approvers, refused)
             IN  /\ append_record(row)
                 /\ \A s \in DOMAIN approvers : approvers[s] \in ghost.ids
                 /\ DecidedBy(ruleset, row)
                 /\ decided = "approve+auto" =>
                      \A s \in DOMAIN approvers : approvers[s] \in ghost.learned =>
                        \E r \in LogRows : /\ r.decision \in HumanApprovals /\ r.wrap = a.wrap
                                           /\ s \in r.secrets \/ r.secrets = {}
      PROVE  LearningInv'
  <2>. DEFINE row == Row(a, decided, rule, approvers, refused)
  <2>1. /\ row.wrap = a.wrap /\ row.decision = decided /\ row.approvers = approvers
        /\ row.ts = now /\ row.version = ghost.version /\ IsRow(row)
    BY DEF Row, IsRow
  <2>2. a.wrap # ""
    BY LearningAssumption
  <2>3. log' = Append(log, row) /\ UNCHANGED <<cache, ruleset, draft, now>>
        /\ ghost' = [ghost EXCEPT !.rows = @ + 1]
    BY <1>3 DEF append_record
  <2>. HIDE DEF row
  <2>4. RowInv(row)
    <3>1. now \in Nat /\ ghost.version \in Nat /\ ghost.version <= ghost.version
      BY DEF LearningInv, GhostInv
    <3>2. DecidedBy(ruleset, row) /\ \A s \in DOMAIN approvers : approvers[s] \in ghost.ids
      BY <1>3 DEF row
    <3>. QED  BY <2>1, <2>2, <3>1, <3>2 DEF RowInv
  <2>. QED  BY <1>3, <2>1, <2>3, <2>4, LogTakes
<1>4. ASSUME NEW decided, NEW rule, NEW approvers
      PROVE  EvalCtx(Row(a, decided, rule, approvers, refused)) = ctx
  BY DEF Row, EvalCtx
<1>. HIDE DEF ctx, hitOf
<1>5. CASE hit = <<>>
  <2>1. PICK choice \in a.answers : append_record(Row(a, choice, <<>>, NoApprovals, refused))
    BY <1>1, <1>5
  <2>2. DecidedBy(ruleset, Row(a, choice, <<>>, NoApprovals, refused))
    <3>1. Row(a, choice, <<>>, NoApprovals, refused).rule = <<>>
          /\ Row(a, choice, <<>>, NoApprovals, refused).refused = refused
      BY DEF Row
    <3>. QED  BY <1>2, <1>4, <1>5, <3>1 DEF DecidedBy
  <2>3. DOMAIN NoApprovals = {}
    BY DEF NoApprovals
  <2>. QED  BY <1>3, <2>1, <2>2, <2>3
<1>6. CASE hit # <<>>
  <2>. DEFINE decided == IF hit[1].decide = Deny THEN "deny+auto" ELSE "approve+auto"
              row == Row(a, decided, <<hit[1].id>>, hit[1].approvals, refused)
  <2>1. append_record(row)
    BY <1>1, <1>6
  <2>2. /\ hit = <<hit[1]>> /\ hit[1].decide \in {Approve, Deny}
        /\ \E r \in ToSet(ruleset) : r.enabled /\ r.id = hit[1].id
        /\ hit[1].decide = Deny => hit[1].approvals = NoApprovals
        /\ hit[1].decide = Approve =>
              /\ DOMAIN hit[1].approvals = ctx.secrets
              /\ \A s \in ctx.secrets : \E r \in ToSet(ruleset) :
                    /\ hit[1].approvals[s] = r.id
                    /\ Opinion(r, LoadedModules, refused, ctx) = Approve /\ Blesses(r, ctx, s)
    <3>1. RankedSet(ToSet(ruleset)) /\ ruleset \in Seq(ToSet(ruleset)) /\ Distinct(ruleset)
      BY FileIsRanked DEF LearningInv
    <3>. HIDE DEF hit
    <3>. QED  BY <1>2, <1>6, <3>1, HitIsOfARule DEF hit
  <2>3. \A r \in ToSet(ruleset) : r.id \in ghost.ids /\ r.created <= now
    BY DEF LearningInv, RulesInv
  <2>4. DecidedBy(ruleset, row)
    <3>1. row.rule = <<hit[1].id>> /\ row.approvers = hit[1].approvals
          /\ row.decision = decided /\ row.ts = now /\ row.refused = refused
      BY DEF Row
    <3>2. evaluate_with_refusals(ruleset, LoadedModules, refused, EvalCtx(row)).hit = hit
      BY <1>2, <1>4
    <3>. HIDE DEF hit, row
    <3>. QED  BY <1>6, <2>3, <3>1, <3>2 DEF DecidedBy
  <2>5. \A s \in DOMAIN hit[1].approvals : hit[1].approvals[s] \in ghost.ids
    <3>1. DOMAIN NoApprovals = {}
      BY DEF NoApprovals
    <3>. QED  BY <2>2, <2>3, <3>1
  <2>6. ASSUME decided = "approve+auto", NEW s \in DOMAIN hit[1].approvals,
               hit[1].approvals[s] \in ghost.learned
        PROVE  \E r \in LogRows : /\ r.decision \in HumanApprovals /\ r.wrap = a.wrap
                                  /\ s \in r.secrets \/ r.secrets = {}
    <3>1. hit[1].decide = Approve /\ s \in ctx.secrets
      BY <2>2, <2>6
    <3>2. PICK rule \in ToSet(ruleset) :
            /\ hit[1].approvals[s] = rule.id
            /\ Opinion(rule, LoadedModules, refused, ctx) = Approve /\ Blesses(rule, ctx, s)
      BY <2>2, <3>1
    <3>3. ~is_wasm(rule) /\ Taught(rule.body.wrap, decision(rule), rule.trained)
      BY <2>6, <3>2 DEF LearningInv, LearnedInv
    <3>4. clause_outcome(rule.body, ctx) = "match" /\ decision(rule) = Approve
      BY <3>2, <3>3 DEF Opinion, Approve
    <3>5. rule.body.wrap = a.wrap
      <4>1. ctx.wrap = a.wrap
        BY DEF ctx, EvalCtx
      <4>. QED  BY <3>4, <4>1, Zenon DEF clause_outcome
    <3>6. rule.trained = {} \/ s \in rule.trained
      BY <3>1, <3>2, <3>3 DEF Blesses
    <3>7. Precedent(LogRows, a.wrap, rule.trained)
      BY <3>3, <3>4, <3>5 DEF Taught
    <3>. QED  BY <3>6, <3>7 DEF Precedent
  <2>. HIDE DEF hit, row, decided
  <2>. QED  BY <1>3, <2>1, <2>4, <2>5, <2>6 DEF row
<1>. QED  BY <1>5, <1>6

\* A scoped agent's row, a record of what was left running, and the newline that
\* ends one.
LEMMA OtherLogInv == LearningInv /\ (agent_resolve \/ append_survivors \/ EndLine) => LearningInv'
<1>1. ASSUME LearningInv, EndLine PROVE LearningInv'
  BY <1>1, NewlineIsNoRow, LogTakes DEF EndLine
<1>3. ASSUME LearningInv, append_survivors PROVE LearningInv'
  BY <1>3, NewlineIsNoRow, LogTakes DEF append_survivors, append_record
<1>2. ASSUME LearningInv, agent_resolve PROVE LearningInv'
  <2>1. PICK a \in LoggedAsks : IsAgent(a.wrap) /\
            \E decided \in a.answers : append_record(Row(a, decided, <<>>, NoApprovals, {}))
    BY <1>2, Zenon DEF agent_resolve
  <2>2. PICK decided \in a.answers : append_record(Row(a, decided, <<>>, NoApprovals, {}))
    BY <2>1
  <2>. DEFINE row == Row(a, decided, <<>>, NoApprovals, {})
  <2>3. /\ row.wrap = a.wrap /\ row.approvers = NoApprovals
        /\ row.ts = now /\ row.version = ghost.version /\ IsRow(row)
    BY DEF Row, IsRow
  <2>4. a.wrap # "" /\ DOMAIN NoApprovals = {}
    BY LearningAssumption DEF NoApprovals
  <2>5. log' = Append(log, row) /\ UNCHANGED <<cache, ruleset, draft, now>>
        /\ ghost' = [ghost EXCEPT !.rows = @ + 1]
    BY <2>2 DEF append_record
  <2>. HIDE DEF row
  <2>6. RowInv(row)
    <3>1. now \in Nat /\ ghost.version \in Nat /\ ghost.version <= ghost.version
      BY <1>2 DEF LearningInv, GhostInv
    <3>2. ~rules_were_evaluated(row)
      BY <2>1, <2>3 DEF rules_were_evaluated
    <3>. QED  BY <2>3, <2>4, <3>1, <3>2 DEF RowInv
  <2>. QED  BY <1>2, <2>3, <2>4, <2>5, <2>6, LogTakes
<1>. QED  BY <1>1, <1>2, <1>3

\* What the last rows of a log are.
LEMMA HistoryIsOfTheLog ==
    ASSUME NEW S, NEW s \in Seq(S), NEW limit \in Nat
    PROVE  LET all == visit_history(s)
               from == IF Len(all) > limit THEN Len(all) - limit ELSE 0
               end == read_history(s, limit)
           IN  /\ from \in 0..Len(all) /\ Len(all) \in Nat
               /\ end \in Seq(S) /\ Len(end) = Len(all) - from
               /\ \A k \in 1..(Len(all) - from) : end[k] = all[from + k]
               /\ \A x \in ToSet(end) : x \in ToSet(s) /\ IsRow(x)
<1>. DEFINE all == visit_history(s)
            from == IF Len(all) > limit THEN Len(all) - limit ELSE 0
            end == SubSeq(all, from + 1, Len(all))
<1>1. all \in Seq(S) /\ ToSet(all) = {x \in ToSet(s) : IsRow(x) /\ ~x.behind}
  BY VisitedAre
<1>. HIDE DEF all
<1>2. from \in 0..Len(all) /\ Len(all) \in Nat
  BY <1>1
<1>3. read_history(s, limit) = end
  <2>1. IF Len(all) > limit THEN from + 1 = Len(all) - limit + 1 ELSE from + 1 = 1
    BY <1>1
  <2>. QED  BY <2>1 DEF read_history, all
<1>. HIDE DEF from
<1>4. /\ end \in Seq(S) /\ Len(end) = Len(all) - from
      /\ \A k \in 1..(Len(all) - from) : end[k] = all[from + k]
  <2>. DEFINE m == from + 1
              n == Len(all)
  <2>1. /\ m \in Int /\ n \in Int /\ \A i \in m..n : all[i] \in S
        /\ n - m + 1 = n - from /\ (m <= n \/ n - from = 0)
        /\ \A k \in 1..(n - from) : m + k - 1 = from + k
    BY <1>1, <1>2
  <2>. HIDE DEF m, n
  <2>2. /\ SubSeq(all, m, n) \in Seq(S)
        /\ Len(SubSeq(all, m, n)) = IF m <= n THEN n - m + 1 ELSE 0
        /\ \A k \in 1..(n - m + 1) : SubSeq(all, m, n)[k] = all[m + k - 1]
    BY <2>1, SubSeqProperties
  <2>3. end = SubSeq(all, m, n)
    BY DEF m, n
  <2>. HIDE DEF end
  <2>4. Len(end) = n - from
    BY <2>1, <2>2, <2>3
  <2>5. ASSUME NEW k \in 1..(n - from) PROVE end[k] = all[from + k]
    BY <2>1, <2>2, <2>3
  <2>. QED  BY <2>2, <2>3, <2>4, <2>5 DEF n
<1>5. ASSUME NEW x \in ToSet(end) PROVE x \in ToSet(s) /\ IsRow(x)
  <2>. HIDE DEF end
  <2>1. PICK k \in 1..Len(end) : x = end[k]
    BY <1>4 DEF ToSet
  <2>2. x = all[from + k] /\ from + k \in 1..Len(all)
    BY <1>2, <1>4, <2>1
  <2>3. x \in ToSet(all)
    BY <1>1, <2>2 DEF ToSet
  <2>. QED  BY <1>1, <2>3
<1>. HIDE DEF end
<1>. QED  BY <1>2, <1>3, <1>4, <1>5 DEF from, all

\* The window looks at the log's time, then reads it.
LEMMA RefreshInv == LearningInv /\ (RefreshStat \/ RefreshRead) => LearningInv'
<1>. SUFFICES ASSUME LearningInv, RefreshStat \/ RefreshRead PROVE LearningInv'
  OBVIOUS
<1>1. UNCHANGED <<log, unended, ruleset, draft, dismissed, now, ghost>>
  BY DEF RefreshStat, RefreshRead
<1>2. log \in Seq(ToSet(log)) /\ Len(log) \in Nat
  BY DEF LearningInv, LogInv
<1>3. CacheInv'
  <2>1. CASE RefreshStat
    <3>1. cache' = [rows |-> cache.rows, mtime |-> cache.mtime, reading |-> <<Len(log)>>]
      BY <2>1 DEF RefreshStat, audit_log_mtime, LearningInv, CacheInv
    <3>. QED  BY <1>1, <1>2, <3>1 DEF LearningInv, CacheInv, LogRows
  <2>2. CASE RefreshRead
    <3>1. /\ cache' = [rows |-> read_history(log, HistoryLimit), mtime |-> cache.reading[1],
                       reading |-> <<>>]
          /\ cache.reading[1] \in 0..Len(log)
      BY <2>2 DEF RefreshRead, LearningInv, CacheInv
    <3>2. HistoryLimit \in Nat
      BY LearningAssumption
    <3>3. /\ ToSet(read_history(log, HistoryLimit)) \subseteq LogRows
          /\ read_history(log, HistoryLimit) \in Seq(ToSet(log))
      BY <1>2, <3>2, HistoryIsOfTheLog DEF LogRows
    <3>. DEFINE rows == read_history(log, HistoryLimit)
    <3>4. rows \in Seq(ToSet(rows))
      BY <3>3, SeqOfItself
    <3>. HIDE DEF rows
    <3>5. LogRows' = LogRows
      BY <1>1 DEF LogRows
    <3>6. cache' = [rows |-> rows, mtime |-> cache.reading[1], reading |-> <<>>]
          /\ rows = read_history(log', HistoryLimit) /\ ToSet(rows) \subseteq LogRows'
          /\ log' = log
      BY <1>1, <3>1, <3>3, <3>5 DEF rows
    <3>. HIDE DEF LogRows
    <3>. QED  BY <3>1, <3>4, <3>6 DEF CacheInv
  <2>. QED  BY <2>1, <2>2
<1>4. /\ RulesInv' /\ GhostInv' /\ LearnedInv' /\ LogInv' /\ DraftInv'
      /\ LearnedApprovalsHavePrecedent'
  <2>1. LogRows' = LogRows
    BY <1>1 DEF LogRows
  <2>2. now' \in Nat /\ now <= now'
    BY <1>1 DEF LearningInv, GhostInv
  <2>3. RulesInv' /\ GhostInv' /\ LearnedInv' /\ DraftInv' /\ \A row : RowInv(row) => RowInv(row)'
    BY <1>1, <2>1, <2>2, RulesStay
  <2>4. LogInv'
    BY <1>1, <2>3 DEF LearningInv, LogInv
  <2>5. LearnedApprovalsHavePrecedent'
    BY <1>1 DEF LearningInv, LearnedApprovalsHavePrecedent
  <2>. QED  BY <2>3, <2>4, <2>5
<1>. QED  BY <1>3, <1>4 DEF LearningInv

\* Steps that touch the form at most, and steps that let days pass.
LEMMA FormInv ==
    ASSUME LearningInv, UNCHANGED <<log, cache, ruleset, ghost>>, now' \in Nat, now <= now',
           UNCHANGED draft \/ DraftInv'
    PROVE  LearningInv'
<1>1. LogRows' = LogRows
  BY DEF LogRows
<1>2. RulesInv' /\ GhostInv' /\ LearnedInv' /\ DraftInv' /\ \A row : RowInv(row) => RowInv(row)'
  BY <1>1, RulesStay
<1>3. LogInv' /\ CacheInv'
  BY <1>1, <1>2 DEF LearningInv, LogInv, CacheInv
<1>4. LearnedApprovalsHavePrecedent'
  BY DEF LearningInv, LearnedApprovalsHavePrecedent
<1>. QED  BY <1>2, <1>3, <1>4 DEF LearningInv

LEMMA IdleInv ==
    LearningInv /\ (WriterDies \/ Dismiss \/ Cancel \/ DayPasses \/ UNCHANGED learningVars)
        => LearningInv'
<1>. SUFFICES ASSUME LearningInv, WriterDies \/ Dismiss \/ Cancel \/ DayPasses \/ UNCHANGED learningVars
              PROVE  LearningInv'
  OBVIOUS
<1>1. now \in Nat /\ now <= now
  BY DEF LearningInv, GhostInv
<1>2. CASE WriterDies \/ Dismiss \/ UNCHANGED learningVars
  BY <1>1, <1>2, FormInv DEF WriterDies, Dismiss, learningVars
<1>3. CASE Cancel
  <2>1. DraftInv'
    BY <1>3 DEF Cancel, DraftInv
  <2>. QED  BY <1>1, <1>3, <2>1, FormInv DEF Cancel
<1>4. CASE DayPasses
  <2>1. PICK day \in Days : day > now /\ now' = day
    BY <1>4 DEF DayPasses
  <2>2. day \in Nat
    BY LearningAssumption
  <2>3. now' \in Nat /\ now <= now'
    BY <1>1, <2>1, <2>2
  <2>. QED  BY <1>4, <2>3, FormInv DEF DayPasses
<1>. QED  BY <1>2, <1>3, <1>4

\* What a suggestion trains on, the human approved.
LEMMA SuggestionIsTaught ==
    ASSUME LearningInv, NEW sg \in suggest(cache.rows)
    PROVE  sg.decide \in {Approve, Deny} /\ Taught(sg.wrap, sg.decide, sg.trained)
<1>. DEFINE rows == cache.rows
            recent == Only(rows, {r \in ToSet(rows) : Clusters(r)})
            cluster(k) == Only(recent, {r \in ToSet(recent) : ClusterKey(r) = k})
<1>0. CacheInv /\ LogInv
  BY DEF LearningInv
<1>. DEFINE keys == {k \in {ClusterKey(r) : r \in ToSet(recent)} : Len(cluster(k)) >= MIN_CLUSTER_SIZE}
<1>1. suggest(rows) = {x \in {into_suggestion(k, cluster(k)) : k \in keys} :
                         ~redundant_with_existing_rules(x)}
  BY Zenon DEF suggest
<1>. HIDE DEF cluster, recent
<1>2. PICK k \in keys : sg = into_suggestion(k, cluster(k))
  BY <1>1
<1>3. rows \in Seq(ToSet(rows)) /\ ToSet(rows) \subseteq LogRows
  BY <1>0 DEF CacheInv
<1>4. recent \in Seq(ToSet(rows)) /\ ToSet(recent) = ToSet(rows) \cap {r \in ToSet(rows) : Clusters(r)}
  BY <1>3, OnlyEnumerates, OnlyKeeps DEF recent
<1>5. /\ cluster(k) \in Seq(ToSet(rows))
      /\ ToSet(cluster(k)) = ToSet(recent) \cap {r \in ToSet(recent) : ClusterKey(r) = k}
  BY <1>4, OnlyEnumerates, OnlyKeeps DEF cluster
<1>. DEFINE c == cluster(k)
<1>6. PICK r0 \in ToSet(c) : TRUE
  <2>1. Len(c) >= MIN_CLUSTER_SIZE /\ MIN_CLUSTER_SIZE \in Nat \ {0}
    BY LearningAssumption
  <2>2. c # <<>>
    BY <2>1, <1>5
  <2>3. 1 \in DOMAIN c
    BY <1>5, <2>2
  <2>. QED  BY <2>3 DEF ToSet
<1>7. ASSUME NEW r \in ToSet(c)
      PROVE  r \in LogRows /\ Clusters(r) /\ ClusterKey(r) = k
  BY <1>3, <1>4, <1>5
<1>8. sg.decide = k[1] /\ sg.wrap = k[2] /\ sg.trained = UNION {r.secrets : r \in ToSet(c)}
  BY <1>2 DEF into_suggestion
<1>. HIDE DEF c
<1>9. ASSUME NEW r \in ToSet(c)
      PROVE  /\ r \in LogRows /\ r.wrap = k[2] /\ k[1] \in {Approve, Deny}
             /\ k[1] = Approve => r.decision \in HumanApprovals
  <2>1. from_audit(r.decision) # <<>> /\ k = <<from_audit(r.decision)[1], r.wrap, r.callers[1].name>>
    BY <1>7 DEF Clusters, ClusterKey
  <2>2. \/ from_audit(r.decision) = <<Approve>> /\ r.decision \in HumanApprovals
        \/ from_audit(r.decision) = <<Deny>>
    BY <2>1 DEF from_audit
  <2>. QED  BY <1>7, <2>1, <2>2 DEF Approve, Deny
<1>10. k[2] # ""
  <2>1. r0 \in LogRows /\ r0.wrap = k[2]
    BY <1>9
  <2>. QED  BY <1>0, <2>1, NewlineIsNoRow DEF LogRows, LogInv, RowInv
<1>11. ASSUME k[1] = Approve PROVE Precedent(LogRows, k[2], sg.trained)
  <2>. DEFINE approved == {r \in LogRows : r.decision \in HumanApprovals /\ r.wrap = k[2]}
  <2>1. ToSet(c) \subseteq approved
    BY <1>9, <1>11
  <2>2. sg.trained = {} => \E r \in approved : r.secrets = {}
    BY <1>6, <1>8, <2>1
  <2>3. \A s \in sg.trained : \E r \in approved : s \in r.secrets
    BY <1>8, <2>1
  <2>. QED  BY <2>2, <2>3, Zenon DEF Precedent
<1>. QED  BY <1>6, <1>8, <1>9, <1>10, <1>11 DEF Taught

-----------------------------------------------------------------------------
(* The form and the rules. *)

\* A form that is opened, or typed in, or refused.
LEMMA FormIsGood ==
    ASSUME LearningInv, UNCHANGED <<log, cache, ruleset, now, ghost>>,
           NEW d, draft' = <<d>>, GoodForm(d)
    PROVE  LearningInv'
<1>1. now' \in Nat /\ now <= now'
  BY DEF LearningInv, GhostInv
<1>2. LogRows' = LogRows
  BY DEF LogRows
<1>3. GoodForm(d)'
  <2>1. Taught(d.wrap, d.decide, d.trained) => Taught(d.wrap, d.decide, d.trained)'
    BY <1>2, TaughtStays
  <2>. QED  BY <2>1 DEF GoodForm
<1>4. draft'[1] = d
  OBVIOUS
<1>5. DraftInv'
  BY <1>3, <1>4 DEF DraftInv
<1>. QED  BY <1>1, <1>5, FormInv

\* What a form starts from.
LEMMA DraftIsGood ==
    ASSUME NEW src, NEW decide \in {Approve, Deny}, NEW wrap, NEW argv, NEW ancestor, NEW cwd,
           NEW trained, src = "suggestion" => Taught(wrap, decide, trained)
    PROVE  GoodForm(Draft(src, decide, wrap, argv, ancestor, cwd, trained))
<1>. DEFINE d == Draft(src, decide, wrap, argv, ancestor, cwd, trained)
<1>1. /\ DOMAIN d = DraftFields /\ d.decide = decide /\ d.enabled = TRUE /\ d.src = src
      /\ d.wrap = wrap /\ d.trained = trained /\ d.original = <<>>
  BY DEF Draft, DraftFields
<1>. HIDE DEF d
<1>. QED  BY <1>1 DEF GoodForm, d

LEMMA OpenInv ==
    LearningInv /\ (NewRuleClicked \/ CreateRuleFromAsk \/ ReviewSuggestion \/ EditRule)
        => LearningInv'
<1>1. ASSUME LearningInv, NEW d, Open(d), GoodForm(d) PROVE LearningInv'
  BY <1>1, FormIsGood DEF Open
<1>2. ASSUME LearningInv, NewRuleClicked PROVE LearningInv'
  <2>1. GoodForm(fresh)
    BY DraftIsGood DEF fresh
  <2>. QED  BY <1>1, <1>2, <2>1 DEF NewRuleClicked
<1>3. ASSUME LearningInv, CreateRuleFromAsk PROVE LearningInv'
  <2>1. PICK row : Open(from_audit_entry(row))
    BY <1>3 DEF CreateRuleFromAsk
  <2>2. GoodForm(from_audit_entry(row))
    BY DraftIsGood DEF from_audit_entry
  <2>. QED  BY <1>1, <1>3, <2>1, <2>2
<1>4. ASSUME LearningInv, ReviewSuggestion PROVE LearningInv'
  <2>1. PICK sg \in suggest(cache.rows) : Open(from_suggestion(sg))
    BY <1>4, Zenon DEF ReviewSuggestion
  <2>2. sg.decide \in {Approve, Deny} /\ Taught(sg.wrap, sg.decide, sg.trained)
    BY <1>4, SuggestionIsTaught
  <2>3. GoodForm(from_suggestion(sg))
    BY <2>2, DraftIsGood DEF from_suggestion
  <2>. QED  BY <1>1, <1>4, <2>1, <2>3
<1>5. ASSUME LearningInv, EditRule PROVE LearningInv'
  <2>1. PICK r \in ToSet(ruleset) : ~is_wasm(r) /\ Open(from_rule(r))
    BY <1>5, Zenon DEF EditRule
  <2>2. decision(r) \in {Approve, Deny} /\ r.enabled \in BOOLEAN
    BY <1>5, <2>1 DEF LearningInv, RulesInv, IsStored
  <2>3. r.id \in ghost.learned => Taught(r.body.wrap, decision(r), r.trained)
    BY <1>5, <2>1 DEF LearningInv, LearnedInv
  <2>. DEFINE d == from_rule(r)
  <2>4. /\ DOMAIN d = DraftFields /\ d.decide = decision(r) /\ d.enabled = r.enabled
        /\ d.wrap = r.body.wrap /\ d.trained = r.trained /\ d.original = <<r>>
    BY DEF from_rule, Draft, DraftFields
  <2>. HIDE DEF d
  <2>5. GoodForm(d)
    BY <2>2, <2>3, <2>4 DEF GoodForm
  <2>. QED  BY <1>1, <1>5, <2>1, <2>5 DEF d
<1>. QED  BY <1>2, <1>3, <1>4, <1>5

\* A learned rule's wrap is not blank, so that nobody types another one.
LEMMA TypeInv == LearningInv /\ Type => LearningInv'
<1>. SUFFICES ASSUME LearningInv, Type PROVE LearningInv'
  OBVIOUS
<1>. DEFINE f == draft[1]
<1>1. GoodForm(f) /\ UNCHANGED <<log, cache, ruleset, now, ghost>>
  BY DEF LearningInv, DraftInv, Type
<1>2. PICK d \in {[f EXCEPT !.argv = BrokenGlob],
                  [f EXCEPT !.wrap = IF @ = "" THEN "gh" ELSE @]} : draft' = <<d>>
  BY DEF Type
<1>3. DraftFields \subseteq DOMAIN f
  BY <1>1 DEF GoodForm
<1>. HIDE DEF f
<1>4. /\ DOMAIN d = DOMAIN f /\ d.decide = f.decide /\ d.enabled = f.enabled /\ d.src = f.src
      /\ d.trained = f.trained /\ d.original = f.original
      /\ f.wrap # "" => d.wrap = f.wrap
  BY <1>2, <1>3 DEF DraftFields
<1>5. GoodForm(d)
  BY <1>1, <1>4 DEF GoodForm, Taught
<1>. QED  BY <1>1, <1>2, <1>5, FormIsGood

\* A change of the rules that draws one id at most.
LEMMA RulesChange ==
    ASSUME LearningInv, NEW new, NEW learned, Change(new, learned), draft' = ClosedForm,
           new \in Seq(ToSet(new)), Distinct(new),
           \A r \in ToSet(new) : IsStored(r) /\ r.created <= now,
           \/ learned = ghost.learned /\ \A r \in ToSet(new) : r.id \in ghost.ids
           \/ /\ learned \subseteq ghost.learned \cup {new_rule_id}
              /\ ghost.learned \subseteq learned
              /\ \A r \in ToSet(new) : r.id \in ghost.ids \cup {new_rule_id}
              /\ \E r \in ToSet(new) : r.id = new_rule_id,
           \A r \in ToSet(new) : r.id \in learned =>
               ~is_wasm(r) /\ Taught(r.body.wrap, decision(r), r.trained)
    PROVE  LearningInv'
<1>1. /\ ruleset' = new /\ UNCHANGED <<log, cache, now>>
      /\ ghost' = [ghost EXCEPT !.version = @ + 1, !.learned = learned,
                                !.ids = @ \cup {r.id : r \in ToSet(new)}]
  BY DEF Change
<1>2. /\ ghost'.version = ghost.version + 1 /\ ghost'.learned = learned
      /\ ghost'.ids = ghost.ids \cup {r.id : r \in ToSet(new)}
      /\ ghost' = [version |-> ghost'.version, learned |-> ghost'.learned, ids |-> ghost'.ids,
                   rows |-> ghost'.rows]
  BY <1>1 DEF LearningInv, GhostInv
<1>3. LogRows' = LogRows
  BY <1>1 DEF LogRows
<1>4. ghost.version \in Nat /\ ghost.learned \subseteq ghost.ids /\ now \in Nat
  BY DEF LearningInv, GhostInv
<1>5. PICK n \in Nat : ghost.ids = 1..n
  BY DEF LearningInv, GhostInv
<1>6. new_rule_id = n + 1
  <2>1. Cardinality(1..n) = n
    <3>1. /\ Cardinality(1..n) = IF 1 > n THEN 0 ELSE n - 1 + 1
          /\ IF 1 > n THEN n = 0 ELSE n - 1 + 1 = n
      BY FS_Interval
    <3>. QED  BY <3>1
  <2>. QED  BY <1>5, <2>1 DEF new_rule_id
<1>. HIDE DEF new_rule_id
<1>7. ghost'.ids = ghost.ids \/ ghost'.ids = ghost.ids \cup {new_rule_id}
  BY <1>2
<1>8. learned \subseteq ghost'.ids /\ learned \cap ghost.ids = ghost.learned
  <2>1. new_rule_id \notin ghost.ids
    BY <1>5, <1>6
  <2>. QED  BY <1>2, <1>4, <2>1
<1>9. GhostInv'
  <2>1. \E m \in Nat : ghost'.ids = 1..m
    <3>1. CASE ghost'.ids = ghost.ids
      BY <1>5, <3>1
    <3>2. CASE ghost'.ids = ghost.ids \cup {new_rule_id}
      <4>1. ghost'.ids = 1..(n + 1) /\ n + 1 \in Nat
        BY <1>5, <1>6, <3>2
      <4>. QED  BY <4>1
    <3>. QED  BY <1>7, <3>1, <3>2
  <2>. QED  BY <1>1, <1>2, <1>4, <1>8, <2>1 DEF GhostInv
<1>10. RulesInv'
  <2>1. \A r \in ToSet(new) : r.id \in ghost'.ids
    BY <1>2
  <2>. QED  BY <1>1, <2>1 DEF RulesInv, Distinct
<1>11. LearnedInv'
  <2>1. ASSUME NEW r \in ToSet(new), r.id \in learned
        PROVE  ~is_wasm(r) /\ Taught(r.body.wrap, decision(r), r.trained)'
    BY <1>3, <2>1, TaughtStays
  <2>. QED  BY <1>1, <1>2, <2>1 DEF LearnedInv
<1>12. DraftInv'
  BY DEF DraftInv
<1>13. LogInv'
  <2>1. ASSUME NEW row, RowInv(row) PROVE RowInv(row)'
    <3>1. row.version \in Nat /\ row.version <= ghost.version
      BY <2>1 DEF RowInv
    <3>2. row.version <= ghost'.version /\ row.version # ghost'.version
      BY <1>2, <1>4, <3>1
    <3>3. \A s \in DOMAIN row.approvers : row.approvers[s] \in ghost'.ids
      BY <1>2, <2>1 DEF RowInv
    <3>. QED  BY <2>1, <3>2, <3>3 DEF RowInv
  <2>. QED  BY <1>1, <2>1 DEF LearningInv, LogInv
<1>14. CacheInv'
  BY <1>1, <1>3 DEF LearningInv, CacheInv
<1>15. LearnedApprovalsHavePrecedent'
  <2>. DEFINE rows == Rows(log)
  <2>1. ASSUME NEW i \in DOMAIN rows, NEW s \in DOMAIN rows[i].approvers,
               rows[i].approvers[s] \in learned
        PROVE  rows[i].approvers[s] \in ghost.learned
    <3>1. rows[i] \in LogRows
      BY RowsAre DEF LearningInv, LogInv, LogRows, ToSet
    <3>2. RowInv(rows[i])
      BY <3>1, NewlineIsNoRow DEF LearningInv, LogInv, LogRows
    <3>. QED  BY <1>8, <2>1, <3>2 DEF RowInv
  <2>2. rows' = rows
    BY <1>1
  <2>. HIDE DEF rows
  <2>. QED  BY <1>2, <2>1, <2>2 DEF LearningInv, LearnedApprovalsHavePrecedent, rows
<1>. QED  BY <1>9, <1>10, <1>11, <1>12, <1>13, <1>14, <1>15 DEF LearningInv

\* A rule that is switched on or off, or deleted.
LEMMA SwitchInv == LearningInv /\ (SetEnabled \/ DeleteRule) => LearningInv'
<1>0. ASSUME LearningInv
      PROVE  /\ ruleset \in Seq(ToSet(ruleset)) /\ Distinct(ruleset)
             /\ \A r \in ToSet(ruleset) :
                  /\ IsStored(r) /\ r.created <= now /\ r.id \in ghost.ids
                  /\ r.id \in ghost.learned =>
                       ~is_wasm(r) /\ Taught(r.body.wrap, decision(r), r.trained)
  BY <1>0 DEF LearningInv, RulesInv, LearnedInv
<1>1. ASSUME LearningInv, SetEnabled PROVE LearningInv'
  <2>1. PICK i \in DOMAIN ruleset : Change([ruleset EXCEPT ![i].enabled = ~@], ghost.learned)
    BY <1>1 DEF SetEnabled
  <2>. DEFINE r == ruleset[i]
              t == [r EXCEPT !.enabled = ~@]
              new == [ruleset EXCEPT ![i] = t]
  <2>2. r \in ToSet(ruleset) /\ IsStored(r)
    BY <1>0, <1>1 DEF ToSet
  <2>3. /\ IsStored(t) /\ t.id = r.id /\ t.body = r.body /\ t.trained = r.trained
        /\ t.created = r.created
    <3>. HIDE DEF r
    <3>1. /\ t.id = r.id /\ t.body = r.body /\ t.trained = r.trained /\ t.created = r.created
          /\ t.wraps = r.wraps
          /\ t = [id |-> t.id, enabled |-> t.enabled, wraps |-> t.wraps, trained |-> t.trained,
                  created |-> t.created, body |-> t.body]
      BY <2>2 DEF IsStored
    <3>2. t.enabled = ~r.enabled
      <4>1. "enabled" \in DOMAIN r
        BY <2>2 DEF IsStored
      <4>. QED  BY <4>1
    <3>3. t.enabled \in BOOLEAN
      BY <3>2
    <3>. HIDE DEF t
    <3>. QED  BY <2>2, <3>1, <3>3 DEF IsStored, is_wasm, decision
  <2>4. new = [ruleset EXCEPT ![i].enabled = ~@]
    BY <1>0, <1>1
  <2>. HIDE DEF t, r
  <2>5. /\ new \in Seq(ToSet(ruleset) \cup {t}) /\ DOMAIN new = DOMAIN ruleset
        /\ \A j \in DOMAIN new : new[j] = IF j = i THEN t ELSE ruleset[j]
    BY <1>0, <1>1
  <2>. HIDE DEF new
  <2>6. new \in Seq(ToSet(new))
    BY <2>5, SeqOfItself
  <2>7. Distinct(new)
    BY <1>0, <1>1, <2>3, <2>5 DEF Distinct, r
  <2>8. ASSUME NEW x \in ToSet(new)
        PROVE  \E y \in ToSet(ruleset) : /\ IsStored(x) /\ x.id = y.id /\ x.body = y.body
                                         /\ x.trained = y.trained /\ x.created = y.created
    <3>1. PICK j \in DOMAIN new : x = new[j]
      BY DEF ToSet
    <3>2. CASE j = i
      BY <2>2, <2>3, <2>5, <3>1, <3>2
    <3>3. CASE j # i
      <4>1. x = ruleset[j] /\ x \in ToSet(ruleset)
        BY <2>5, <3>1, <3>3 DEF ToSet
      <4>. QED  BY <1>0, <1>1, <4>1
    <3>. QED  BY <3>2, <3>3
  <2>9. \A x \in ToSet(new) :
          /\ IsStored(x) /\ x.created <= now /\ x.id \in ghost.ids
          /\ x.id \in ghost.learned => ~is_wasm(x) /\ Taught(x.body.wrap, decision(x), x.trained)
    BY <1>0, <1>1, <2>8 DEF is_wasm, decision
  <2>10. Change(new, ghost.learned) /\ draft' = ClosedForm
    BY <1>1, <2>1, <2>4 DEF SetEnabled
  <2>. QED  BY <1>1, <2>6, <2>7, <2>9, <2>10, RulesChange
<1>2. ASSUME LearningInv, DeleteRule PROVE LearningInv'
  <2>1. PICK i \in DOMAIN ruleset :
          Change(Only(ruleset, {r \in ToSet(ruleset) : r.id # ruleset[i].id}), ghost.learned)
    BY <1>2 DEF DeleteRule
  <2>. DEFINE new == Only(ruleset, {r \in ToSet(ruleset) : r.id # ruleset[i].id})
  <2>2. new \in Seq(ToSet(ruleset)) /\ ToSet(new) \subseteq ToSet(ruleset) /\ Distinct(new)
    BY <1>0, <1>2, OnlyEnumerates, OnlyKeeps
  <2>3. Change(new, ghost.learned) /\ draft' = ClosedForm
    BY <1>2, <2>1 DEF DeleteRule
  <2>. HIDE DEF new
  <2>4. new \in Seq(ToSet(new))
    BY <2>2, SeqOfItself
  <2>5. \A x \in ToSet(new) :
          /\ IsStored(x) /\ x.created <= now /\ x.id \in ghost.ids
          /\ x.id \in ghost.learned => ~is_wasm(x) /\ Taught(x.body.wrap, decision(x), x.trained)
    BY <1>0, <1>2, <2>2
  <2>. QED  BY <1>2, <2>2, <2>3, <2>4, <2>5, RulesChange
<1>. QED  BY <1>1, <1>2

\* A form that is saved: as a new rule, or in the place of the one it came from.
LEMMA SaveInv == LearningInv /\ SaveClicked => LearningInv'
<1>. SUFFICES ASSUME LearningInv, NEW focus \in {"none", "argv"}, SaveDraft(focus)
              PROVE  LearningInv'
  BY DEF SaveClicked
<1>. DEFINE d == draft[1]
            new == into_rule(d)
<1>1. GoodForm(d) /\ draft # ClosedForm
  BY DEF LearningInv, DraftInv, SaveDraft
<1>2. \/ /\ draft' = <<[d EXCEPT !.attempted = TRUE]>>
         /\ UNCHANGED <<log, unended, cache, ruleset, dismissed, now, ghost>>
      \/ /\ draft' = ClosedForm /\ d.original = <<>>
         /\ Change(Append(ruleset, new),
                   ghost.learned \cup (IF d.src = "suggestion" THEN {new.id} ELSE {}))
      \/ /\ draft' = ClosedForm /\ d.original # <<>> /\ d.original[1] \in ToSet(ruleset)
         /\ Change([i \in DOMAIN ruleset |-> IF ruleset[i].id = new.id THEN new ELSE ruleset[i]],
                   ghost.learned)
      \/ draft' = ClosedForm /\ UNCHANGED <<log, unended, cache, ruleset, dismissed, now, ghost>>
  BY DEF SaveDraft
<1>3. /\ ruleset \in Seq(ToSet(ruleset)) /\ Distinct(ruleset)
      /\ \A r \in ToSet(ruleset) :
           /\ IsStored(r) /\ r.created <= now /\ r.id \in ghost.ids
           /\ r.id \in ghost.learned =>
                ~is_wasm(r) /\ Taught(r.body.wrap, decision(r), r.trained)
  BY DEF LearningInv, RulesInv, LearnedInv
<1>4. now \in Nat /\ now <= now /\ \E n \in Nat : ghost.ids = 1..n
  BY DEF LearningInv, GhostInv
<1>5. new_rule_id \in Nat /\ new_rule_id \notin ghost.ids
  <2>1. PICK n \in Nat : ghost.ids = 1..n
    BY <1>4
  <2>2. /\ Cardinality(1..n) = IF 1 > n THEN 0 ELSE n - 1 + 1
        /\ IF 1 > n THEN n = 0 ELSE n - 1 + 1 = n
    BY FS_Interval
  <2>. QED  BY <2>1, <2>2 DEF new_rule_id
<1>6. /\ new.id = IF d.original = <<>> THEN new_rule_id ELSE d.original[1].id
      /\ new.trained = d.trained /\ new.created = now /\ new.body.wrap = d.wrap
      /\ ~is_wasm(new) /\ decision(new) = d.decide
  BY DEF into_rule, is_wasm, decision
<1>7. new.id \in Nat => IsStored(new)
  <2>1. /\ new = [id |-> new.id, enabled |-> new.enabled, wraps |-> new.wraps,
                  trained |-> new.trained, created |-> new.created, body |-> new.body]
        /\ new.enabled = d.enabled
        /\ new.body.argv = Optional(d.argv) /\ new.body.ancestor = Optional(d.ancestor)
        /\ new.body.cwd = Optional(d.cwd)
    BY DEF into_rule
  <2>2. \A x : Optional(x) = <<>> \/ Optional(x) = <<Optional(x)[1]>>
    BY DEF Optional
  <2>. HIDE DEF new
  <2>. QED  BY <1>1, <1>4, <1>6, <2>1, <2>2 DEF IsStored, GoodForm
<1>. HIDE DEF new
<1>8. CASE /\ draft' = <<[d EXCEPT !.attempted = TRUE]>>
           /\ UNCHANGED <<log, unended, cache, ruleset, dismissed, now, ghost>>
  <2>. DEFINE t == [d EXCEPT !.attempted = TRUE]
  <2>1. DraftFields \subseteq DOMAIN d
    BY <1>1 DEF GoodForm
  <2>. HIDE DEF d
  <2>2. /\ DOMAIN t = DOMAIN d /\ t.decide = d.decide /\ t.enabled = d.enabled /\ t.src = d.src
        /\ t.trained = d.trained /\ t.original = d.original /\ t.wrap = d.wrap
    BY <2>1 DEF DraftFields
  <2>3. draft' = <<t>>
    BY <1>8
  <2>. HIDE DEF t
  <2>4. GoodForm(t)
    BY <1>1, <2>2 DEF GoodForm
  <2>. QED  BY <1>8, <2>3, <2>4, FormIsGood
<1>9. CASE draft' = ClosedForm /\ UNCHANGED <<log, unended, cache, ruleset, dismissed, now, ghost>>
  <2>1. DraftInv'
    BY <1>9 DEF DraftInv
  <2>. QED  BY <1>4, <1>9, <2>1, FormInv
<1>10. CASE /\ draft' = ClosedForm /\ d.original = <<>>
            /\ Change(Append(ruleset, new),
                      ghost.learned \cup (IF d.src = "suggestion" THEN {new.id} ELSE {}))
  <2>. DEFINE rules == Append(ruleset, new)
              learned == ghost.learned \cup (IF d.src = "suggestion" THEN {new.id} ELSE {})
  <2>1. new.id = new_rule_id /\ IsStored(new) /\ new.id \notin ghost.ids
    BY <1>5, <1>6, <1>7, <1>10
  <2>2. /\ ToSet(rules) = ToSet(ruleset) \cup {new} /\ rules \in Seq(ToSet(rules))
        /\ Len(rules) = Len(ruleset) + 1 /\ rules[Len(ruleset) + 1] = new
        /\ \A i \in 1..Len(ruleset) : rules[i] = ruleset[i]
    BY <1>3, AppendedSet
  <2>3. /\ DOMAIN rules = 1..(Len(ruleset) + 1) /\ DOMAIN ruleset = 1..Len(ruleset)
        /\ Len(ruleset) \in Nat
    BY <1>3
  <2>. HIDE DEF rules
  <2>4. Distinct(rules)
    <3>1. \A i \in 1..Len(ruleset) : rules[i].id \in ghost.ids
      BY <1>3, <2>2, <2>3 DEF ToSet
    <3>. QED  BY <1>3, <2>1, <2>2, <2>3, <3>1 DEF Distinct
  <2>5. \A r \in ToSet(rules) : IsStored(r) /\ r.created <= now
    BY <1>3, <1>4, <1>6, <2>1, <2>2
  <2>6. /\ learned \subseteq ghost.learned \cup {new_rule_id} /\ ghost.learned \subseteq learned
        /\ \A r \in ToSet(rules) : r.id \in ghost.ids \cup {new_rule_id}
        /\ \E r \in ToSet(rules) : r.id = new_rule_id
    BY <1>3, <2>1, <2>2
  <2>7. ASSUME NEW r \in ToSet(rules), r.id \in learned
        PROVE  ~is_wasm(r) /\ Taught(r.body.wrap, decision(r), r.trained)
    <3>1. CASE r = new
      <4>1. r.id \notin ghost.learned
        BY <2>1, <3>1 DEF LearningInv, GhostInv
      <4>2. d.src = "suggestion"
        BY <2>7, <4>1
      <4>3. Taught(d.wrap, d.decide, d.trained)
        BY <1>1, <1>10, <4>2 DEF GoodForm
      <4>. QED  BY <1>6, <3>1, <4>3
    <3>2. CASE r # new
      <4>1. r \in ToSet(ruleset) /\ r.id # new.id
        BY <1>3, <2>1, <2>2, <3>2
      <4>. QED  BY <1>3, <2>7, <4>1
    <3>. QED  BY <3>1, <3>2
  <2>8. Change(rules, learned)
    BY <1>10 DEF rules
  <2>. HIDE DEF learned
  <2>. QED  BY <1>10, <2>2, <2>4, <2>5, <2>6, <2>7, <2>8, RulesChange
<1>11. CASE /\ draft' = ClosedForm /\ d.original # <<>> /\ d.original[1] \in ToSet(ruleset)
            /\ Change([i \in DOMAIN ruleset |-> IF ruleset[i].id = new.id THEN new ELSE ruleset[i]],
                      ghost.learned)
  <2>. DEFINE rules == [i \in DOMAIN ruleset |-> IF ruleset[i].id = new.id THEN new ELSE ruleset[i]]
  <2>1. new.id = d.original[1].id /\ new.id \in ghost.ids /\ new.id \in Nat /\ IsStored(new)
    BY <1>3, <1>6, <1>7, <1>11 DEF IsStored
  <2>2. /\ rules \in Seq(ToSet(ruleset) \cup {new}) /\ DOMAIN rules = DOMAIN ruleset
        /\ \A i \in DOMAIN rules : rules[i] = IF ruleset[i].id = new.id THEN new ELSE ruleset[i]
    BY <1>3
  <2>. HIDE DEF rules
  <2>3. rules \in Seq(ToSet(rules))
    BY <2>2, SeqOfItself
  <2>4. Distinct(rules)
    BY <1>3, <2>2 DEF Distinct
  <2>5. ASSUME NEW r \in ToSet(rules) PROVE r = new \/ r \in ToSet(ruleset)
    BY <2>2 DEF ToSet
  <2>6. new.id \in ghost.learned => Taught(d.wrap, d.decide, d.trained)
    BY <1>1, <1>11, <2>1 DEF GoodForm
  <2>7. \A r \in ToSet(rules) :
          /\ IsStored(r) /\ r.created <= now /\ r.id \in ghost.ids
          /\ r.id \in ghost.learned => ~is_wasm(r) /\ Taught(r.body.wrap, decision(r), r.trained)
    BY <1>3, <1>4, <1>6, <2>1, <2>5, <2>6
  <2>8. Change(rules, ghost.learned)
    BY <1>11 DEF rules
  <2>. QED  BY <1>11, <2>3, <2>4, <2>7, <2>8, RulesChange
<1>. QED  BY <1>2, <1>8, <1>9, <1>10, <1>11

\* What the log and the rules start from.
LEMMA LearningInitInv == LearningInit => LearningInv
<1>. SUFFICES ASSUME LearningInit PROVE LearningInv
  OBVIOUS
<1>0. /\ log \in FirstLogs /\ ruleset \in StartRules /\ now \in Days
      /\ Days \subseteq Nat /\ HistoryLimit \in Nat
  BY LearningAssumption DEF LearningInit
<1>1. /\ ruleset \in Seq(ToSet(ruleset)) /\ {r.id : r \in ToSet(ruleset)} = 1..Len(ruleset)
      /\ Distinct(ruleset)
      /\ \A r \in ToSet(ruleset) : IsStored(r) /\ r.created <= now
  <2>1. /\ ruleset \in Seq(ToSet(ruleset)) /\ {r.id : r \in ToSet(ruleset)} = 1..Len(ruleset)
        /\ \A i, j \in DOMAIN ruleset : ruleset[i].id = ruleset[j].id => i = j
        /\ \A r \in ToSet(ruleset) : IsStored(r) /\ \A day \in Days : r.created <= day
    BY <1>0, LearningAssumption, Zenon
  <2>. QED  BY <1>0, <2>1 DEF Distinct
<1>2. /\ log \in Seq(ToSet(log)) /\ Len(log) \in Nat
      /\ \A row \in ToSet(log) : IsRow(row) =>
            /\ row.wrap # "" /\ row.version \in {0, 1} /\ row.ts \in Nat
            /\ \A s \in DOMAIN row.approvers : row.approvers[s] \in 1..Len(ruleset)
            /\ rules_were_evaluated(row) /\ row.version = 1 => DecidedBy(ruleset, row)
  <2>1. log \in Seq(ToSet(log))
    BY <1>0, LearningAssumption, Zenon
  <2>2. ASSUME NEW row \in ToSet(log), IsRow(row)
        PROVE  /\ row.wrap # "" /\ row.version \in {0, 1} /\ row.ts \in Nat
               /\ \A s \in DOMAIN row.approvers : row.approvers[s] \in 1..Len(ruleset)
               /\ rules_were_evaluated(row) /\ row.version = 1 => DecidedBy(ruleset, row)
    BY <1>0, <2>2, LearningAssumption, Zenon
  <2>3. Len(log) \in Nat
    BY <2>1
  <2>. QED  BY <2>1, <2>2, <2>3, Zenon
<1>3. /\ ghost.version = 1 /\ ghost.learned = {} /\ ghost.ids = 1..Len(ruleset)
      /\ ghost = [version |-> ghost.version, learned |-> ghost.learned, ids |-> ghost.ids,
                  rows |-> ghost.rows]
  BY <1>1 DEF LearningInit
<1>4. RulesInv
  BY <1>1, <1>3 DEF RulesInv
<1>5. GhostInv
  <2>1. now \in Nat /\ Len(ruleset) \in Nat
    BY <1>0, <1>1
  <2>. QED  BY <1>3, <2>1 DEF GhostInv
<1>6. DraftInv /\ LearnedInv
  BY <1>3 DEF LearningInit, DraftInv, LearnedInv
<1>7. LogInv
  <2>1. ASSUME NEW row \in ToSet(log), IsRow(row) PROVE RowInv(row)
    <3>1. /\ IsRow(row) /\ row.wrap # "" /\ row.version \in {0, 1} /\ row.ts \in Nat
          /\ \A s \in DOMAIN row.approvers : row.approvers[s] \in ghost.ids
          /\ rules_were_evaluated(row) /\ row.version = 1 => DecidedBy(ruleset, row)
      BY <1>2, <1>3, <2>1
    <3>2. row.version \in Nat /\ row.version <= ghost.version
      <4>1. ghost.version = 1 /\ row.version \in {0, 1}
        BY <1>3, <3>1, Zenon
      <4>. QED  BY <4>1
    <3>. QED  BY <1>3, <3>1, <3>2 DEF RowInv
  <2>. QED  BY <1>2, <2>1 DEF LogInv
<1>8. CacheInv
  <2>1. cache = [rows |-> <<>>, mtime |-> 0, reading |-> <<>>]
    BY DEF LearningInit
  <2>2. /\ cache.rows = <<>> /\ cache.mtime = 0 /\ cache.reading = <<>>
        /\ cache = [rows |-> cache.rows, mtime |-> cache.mtime, reading |-> cache.reading]
    BY <2>1
  <2>4. ToSet(<<>>) = {} /\ <<>> \in Seq({})
    BY DEF ToSet
  <2>5. cache.mtime \in 0..Len(log)
    <3>1. Len(log) \in Nat
      BY <1>2, Zenon
    <3>. QED  BY <2>2, <3>1
  <2>3. Len(log) = 0 => read_history(log, HistoryLimit) = <<>>
    <3>1. ASSUME Len(log) = 0 PROVE visit_history(log) = <<>>
      <4>1. log = <<>>
        <5>1. log \in Seq(ToSet(log))
          BY <1>2, Zenon
        <5>. QED  BY <3>1, <5>1
      <4>. QED  BY <4>1, OnlyOfNothing, Zenon DEF visit_history
    <3>2. HistoryLimit \in Nat
      BY <1>0
    <3>3. SubSeq(<<>>, 1, 0) = <<>> /\ Len(<<>>) = 0
      BY SubSeqEmpty
    <3>. QED  BY <3>1, <3>2, <3>3 DEF read_history
  <2>. QED  BY <2>2, <2>3, <2>4, <2>5 DEF CacheInv
<1>9. LearnedApprovalsHavePrecedent
  BY <1>3 DEF LearnedApprovalsHavePrecedent
<1>. QED  BY <1>4, <1>5, <1>6, <1>7, <1>8, <1>9 DEF LearningInv

(***************************************************************************)
(* The log, the window's copy of it, the form and the rules keep together  *)
(* through every append, refresh, click, save and switch (audit::append,   *)
(* AuditCache, RuleDraft, State::apply_rule_edit).                         *)
(***************************************************************************)
THEOREM LearningInvariance == LearningSpec => []LearningInv
<1>1. LearningInv /\ [LearningNext]_learningVars => LearningInv'
  BY AskDecidedInv, OtherLogInv, RefreshInv, IdleInv, OpenInv, TypeInv, SaveInv, SwitchInv
     DEF LearningNext
<1>. QED  BY <1>1, LearningInitInv, PTL DEF LearningSpec

(***************************************************************************)
(* A rule accepted from a suggestion releases nothing the human had not    *)
(* released before, to whatever ask and beside whatever other rules        *)
(* (recommendations::suggest, RuleDraft::from_suggestion).                 *)
(***************************************************************************)
THEOREM LearnedApprovalsHavePrecedentHolds == LearningSpec => []LearnedApprovalsHavePrecedent
BY LearningInvariance, PTL DEF LearningInv

-----------------------------------------------------------------------------
(* What is replayed and what is shown.                                         *)

\* A row that is replayed under the rules it was decided by.
LEMMA ReplayIsDecision ==
    ASSUME LearningInv, NEW row, IsRow(row), row.ts \in Nat, DecidedBy(ruleset, row), row.refused = {}
    PROVE  IF row.rule # <<>> THEN verify_row(row) = "agree" ELSE Simulate(row).decide = "prompt"
<1>. DEFINE e == evaluate_with_refusals(ruleset, LoadedModules, {}, EvalCtx(row))
            hit == e.hit
            sim == Simulate(row)
<1>1. sim = IF hit # <<>>
            THEN [decide |-> hit[1].decide, rule |-> <<hit[1].id>>, approvals |-> hit[1].approvals]
            ELSE [decide |-> "prompt", rule |-> e.mandate, approvals |-> NoApprovals]
  BY Zenon DEF Simulate, EvalCtx, replay_subjects, evaluate
<1>2. IF hit = <<>> THEN row.rule = <<>>
      ELSE /\ row.rule = <<hit[1].id>> /\ row.approvers = hit[1].approvals
           /\ row.decision = IF hit[1].decide = Deny THEN "deny+auto" ELSE "approve+auto"
           /\ \A r \in ToSet(ruleset) : r.id = hit[1].id => r.created <= row.ts
  BY Zenon DEF DecidedBy
<1>3. /\ RankedSet(ToSet(ruleset)) /\ ruleset \in Seq(ToSet(ruleset)) /\ Distinct(ruleset)
      /\ \A r \in ToSet(ruleset) : r.created \in Nat
  BY FileIsRanked DEF LearningInv, RulesInv, IsStored
<1>4. hit = evaluate_with_refusals(ruleset, LoadedModules, {}, EvalCtx(row)).hit
  OBVIOUS
<1>. HIDE DEF sim, hit, e
<1>5. CASE hit = <<>>
  BY <1>1, <1>2, <1>5 DEF sim
<1>6. CASE hit # <<>>
  <2>1. /\ hit[1].decide \in {Approve, Deny}
        /\ \E r \in ToSet(ruleset) : r.enabled /\ r.id = hit[1].id
    BY <1>3, <1>4, <1>6, HitIsOfARule
  <2>. DEFINE by == {r \in ToSet(ruleset) : <<r.id>> = row.rule}
              rule == CHOOSE r \in by : TRUE
              said == IF row.decision = "approve+auto" THEN Approve ELSE Deny
  <2>2. /\ row.rule = <<hit[1].id>> /\ row.rule # <<>> /\ row.approvers = hit[1].approvals
        /\ row.decision = IF hit[1].decide = Deny THEN "deny+auto" ELSE "approve+auto"
    <3>1. \A x : <<x>> # <<>>
      OBVIOUS
    <3>. QED  BY <1>2, <1>6, <3>1, Zenon
  <2>3. PICK r \in ToSet(ruleset) : r.enabled /\ r.id = hit[1].id
    BY <2>1
  <2>4. by = {r}
    <3>1. \A x \in by : x.id = r.id
      BY <2>2, <2>3
    <3>2. \A x \in by : x = r
      BY <1>3, <2>3, <3>1 DEF Distinct, ToSet
    <3>3. r \in by
      BY <2>2, <2>3
    <3>. QED  BY <3>2, <3>3
  <2>5. rule = r /\ by # {}
    BY <2>4
  <2>6. /\ sim.decide = hit[1].decide /\ sim.rule = row.rule /\ sim.approvals = row.approvers
    BY <1>1, <1>6, <2>2
  <2>7. said = hit[1].decide /\ row.decision \in {"approve+auto", "deny+auto"}
    BY <2>1, <2>2 DEF Approve, Deny
  <2>8. ~(row.ts < r.created)
    BY <1>2, <1>3, <1>6, <2>3
  <2>. HIDE DEF by, rule, said
  <2>9. verify_row(row)
          = IF row.decision \notin {"approve+auto", "deny+auto"} THEN "unverified"
            ELSE IF row.rule = <<>> THEN "missing_rule_id"
            ELSE IF by = {} THEN "deleted_rule"
            ELSE IF row.ts < rule.created THEN "pre_creation"
            ELSE IF ~rule.enabled THEN "disabled_rule"
            ELSE IF sim.decide # said THEN "disagree"
            ELSE IF (row.approvers = NoApprovals /\ sim.rule # row.rule)
                    \/ (row.approvers # NoApprovals /\ sim.approvals # row.approvers)
            THEN "attribution_changed" ELSE "agree"
    BY Zenon DEF verify_row, by, rule, said, sim
  <2>. QED  BY <2>2, <2>3, <2>5, <2>6, <2>7, <2>8, <2>9
<1>. QED  BY <1>5, <1>6

(***************************************************************************)
(* A replay of the log agrees with what was decided under the rules as     *)
(* they still are, whatever the rules, the asks and the modules, unless    *)
(* the scope of a rule stood refused then (rule_stats::replay_audit,       *)
(* verify_row).                                                            *)
(***************************************************************************)
THEOREM ReplayAgreesHolds == LearningSpec => []ReplayAgrees
<1>1. LearningInv => ReplayAgrees
  <2>. SUFFICES ASSUME LearningInv, NEW row \in ToSet(Replayed(log)), row.version = ghost.version,
                       row.refused = {}
                PROVE  IF row.rule # <<>> THEN verify_row(row) = "agree"
                       ELSE Simulate(row).decide = "prompt"
    BY Zenon DEF ReplayAgrees
  <2>1. log \in Seq(ToSet(log))
    BY DEF LearningInv, LogInv
  <2>. DEFINE rows == visit_history(log)
              asked == {r \in ToSet(rows) : rules_were_evaluated(r)}
  <2>2. rows \in Seq(ToSet(log)) /\ ToSet(rows) = {x \in ToSet(log) : IsRow(x) /\ ~x.behind}
    BY <2>1, VisitedAre
  <2>3. row \in ToSet(Only(rows, asked))
    BY DEF Replayed
  <2>. HIDE DEF rows
  <2>4. row \in ToSet(rows) \cap asked
    <3>1. ToSet(Only(rows, asked)) = ToSet(rows) \cap asked
      BY <2>2, OnlyKeeps
    <3>. QED  BY <2>3, <3>1
  <2>5. row \in ToSet(log) /\ IsRow(row) /\ rules_were_evaluated(row) /\ row # Newline
    BY <2>2, <2>4, NewlineIsNoRow
  <2>6. row.ts \in Nat /\ DecidedBy(ruleset, row)
    BY <2>5 DEF LearningInv, LogInv, RowInv
  <2>. QED  BY <2>5, <2>6, ReplayIsDecision
<1>. QED  BY <1>1, LearningInvariance, PTL

\* A window of days, seen from either end.
LEMMA CutoffIsWindow ==
    ASSUME NEW ts \in Nat, now \in Nat
    PROVE  ts >= Cutoff <=> now <= ts + Window
<1>1. Window \in Nat
  BY LearningAssumption
<1>. QED  BY <1>1 DEF Cutoff

\* What the summary counts as approved, counted over the rows at once.
LEMMA ApprovedIsCount ==
    ASSUME NEW view, view \in Seq(ToSet(view)), NEW wrap, NEW caller
    PROVE  LET counted == {k \in DOMAIN view :
                             /\ view[k].wrap = wrap /\ matches(caller, view[k].callers)
                             /\ view[k].ts >= Cutoff /\ view[k].decision \in HumanApprovals}
           IN  /\ summarize_history(view, wrap, caller).approved = Cardinality(counted)
               /\ IsFiniteSet(counted)
<1>. DEFINE S == ToSet(view)
            A == {r \in ToSet(view) : r.wrap = wrap /\ matches(caller, r.callers)}
            B == {r \in S : r.ts >= Cutoff}
            D == {r \in S : r.decision \in HumanApprovals}
            mine == Only(view, A)
            b == {r \in ToSet(mine) : r.ts >= Cutoff}
            recent == Only(mine, b)
            d == {r \in ToSet(recent) : r.decision \in HumanApprovals}
            counted == {k \in DOMAIN view :
                          /\ view[k].wrap = wrap /\ matches(caller, view[k].callers)
                          /\ view[k].ts >= Cutoff /\ view[k].decision \in HumanApprovals}
<1>1. summarize_history(view, wrap, caller).approved = Len(Only(recent, d))
  <2>. HIDE DEF recent
  <2>. DEFINE s == summarize_history(view, wrap, caller)
              newest == Only(mine, {r \in ToSet(mine) : \A i \in DOMAIN mine : mine[i].ts <= r.ts})
  <2>1. s = [last |-> IF newest = <<>> THEN <<>> ELSE <<Last(newest).decision>>,
             approved |-> Len(Only(recent, d)),
             denied |-> Len(Only(recent, {r \in ToSet(recent) :
                                            r.decision \in {"deny", "deny+out-of-scope"}})),
             total |-> Len(recent)]
    BY Zenon DEF summarize_history, recent
  <2>. HIDE DEF s, newest, d
  <2>. QED  BY <2>1 DEF s
<1>2. mine \in Seq(S) /\ ToSet(mine) \subseteq S
  BY OnlyEnumerates, OnlyKeeps
<1>3. recent \in Seq(S) /\ ToSet(recent) \subseteq S
  <2>. HIDE DEF mine, b
  <2>1. recent \in Seq(S) /\ ToSet(recent) = ToSet(mine) \cap b
    BY <1>2, OnlyEnumerates, OnlyKeeps, Zenon
  <2>. HIDE DEF recent, S
  <2>. QED  BY <1>2, <2>1
<1>4. recent = Only(mine, B)
  <2>1. \A x \in ToSet(mine) : x \in b <=> x \in B
    BY <1>2
  <2>. HIDE DEF mine, b, B
  <2>. QED  BY <1>2, <2>1, OnlyLooks
<1>5. Only(recent, d) = Only(recent, D)
  <2>1. \A x \in ToSet(recent) : x \in d <=> x \in D
    BY <1>3
  <2>. HIDE DEF recent, d, D
  <2>. QED  BY <1>3, <2>1, OnlyLooks
<1>6. Len(Only(recent, D)) = Len(Only(view, A \cap (B \cap D)))
  <2>. HIDE DEF A, B, D, recent, b, S
  <2>1. Len(Only(Only(mine, B), D)) = Len(Only(mine, B \cap D))
    <3>. HIDE DEF mine
    <3>. QED  BY <1>2, OnlyOfOnly
  <2>2. Len(Only(mine, B \cap D)) = Len(Only(view, A \cap (B \cap D)))
    BY OnlyOfOnly DEF mine
  <2>. QED  BY <1>4, <2>1, <2>2
<1>7. {k \in DOMAIN view : view[k] \in A \cap (B \cap D)} = counted
  <2>1. \A k \in DOMAIN view : view[k] \in S
    BY DEF ToSet
  <2>. QED  BY <2>1
<1>8. /\ Len(Only(view, A \cap (B \cap D))) = Cardinality({k \in DOMAIN view : view[k] \in A \cap (B \cap D)})
      /\ IsFiniteSet({k \in DOMAIN view : view[k] \in A \cap (B \cap D)})
  <2>. HIDE DEF A, B, D
  <2>. QED  BY OnlyKeeps
<1>. HIDE DEF counted, A, B, D, recent, d
<1>. QED  BY <1>1, <1>5, <1>6, <1>7, <1>8 DEF counted

(***************************************************************************)
(* What the window shows of the past is what the human decided: for every  *)
(* ask, a window that has read the log since it last changed counts each   *)
(* of the human's approvals of this program once, and nothing else; an     *)
(* approval that shares a line behind the record of a command's survivors  *)
(* is lost, whatever the log                                               *)
(* (AuditCache::refresh_if_stale, audit::visit_history, summarize_history).*)
(***************************************************************************)
THEOREM HistoryTellsTheTruthHolds == LearningSpec => []HistoryTellsTheTruth
<1>1. LearningInv => HistoryTellsTheTruth
  <2>. SUFFICES ASSUME LearningInv, cache.reading = <<>>, cache.mtime = audit_log_mtime,
                       NEW a \in LoggedAsks, a.callers # <<>>
                PROVE  LET rows == visit_history(log)
                           places == {i \in DOMAIN rows : i > Len(rows) - HistoryLimit}
                           same(x, y) == IF x.exe = <<>> \/ y.exe = <<>> THEN x.name = y.name
                                         ELSE x.exe = y.exe
                       IN  summarize_history(cache.rows, a.wrap, a.callers[1]).approved
                             = Cardinality(
                                 {i \in places : /\ rows[i].wrap = a.wrap /\ now <= rows[i].ts + Window
                                                 /\ rows[i].decision \in {"approve", "approve+remember", "approve+cached"}
                                                 /\ rows[i].callers # <<>>
                                                 /\ same(rows[i].callers[1], a.callers[1])})
    BY Zenon DEF HistoryTellsTheTruth, visit_history
  <2>. DEFINE rows == visit_history(log)
              view == cache.rows
              from == IF Len(rows) > HistoryLimit THEN Len(rows) - HistoryLimit ELSE 0
              places == {i \in DOMAIN rows : i > Len(rows) - HistoryLimit}
              same(x, y) == IF x.exe = <<>> \/ y.exe = <<>> THEN x.name = y.name
                            ELSE x.exe = y.exe
              approvals == {i \in places : /\ rows[i].wrap = a.wrap /\ now <= rows[i].ts + Window
                                           /\ rows[i].decision \in {"approve", "approve+remember", "approve+cached"}
                                           /\ rows[i].callers # <<>>
                                           /\ same(rows[i].callers[1], a.callers[1])}
              counted == {k \in DOMAIN view :
                            /\ view[k].wrap = a.wrap /\ matches(a.callers[1], view[k].callers)
                            /\ view[k].ts >= Cutoff /\ view[k].decision \in HumanApprovals}
  <2>1. log \in Seq(ToSet(log)) /\ view \in Seq(ToSet(view)) /\ now \in Nat /\ HistoryLimit \in Nat
        /\ view = read_history(log, HistoryLimit)
    BY LearningAssumption DEF LearningInv, LogInv, CacheInv, GhostInv, audit_log_mtime
  <2>2. /\ from \in 0..Len(rows) /\ Len(rows) \in Nat /\ Len(view) = Len(rows) - from
        /\ \A k \in 1..(Len(rows) - from) : view[k] = rows[from + k]
    <3>. DEFINE end == read_history(log, HistoryLimit)
    <3>1. /\ from \in 0..Len(rows) /\ Len(rows) \in Nat /\ Len(end) = Len(rows) - from
          /\ \A k \in 1..(Len(rows) - from) : end[k] = rows[from + k]
      BY <2>1, HistoryIsOfTheLog, Zenon
    <3>2. view = end
      BY <2>1
    <3>. HIDE DEF view, end, rows, from
    <3>. QED  BY <3>1, <3>2, Zenon
  <2>3. rows \in Seq(ToSet(log)) /\ ToSet(rows) = {x \in ToSet(log) : IsRow(x) /\ ~x.behind}
    BY <2>1, VisitedAre
  <2>4. summarize_history(view, a.wrap, a.callers[1]).approved = Cardinality(counted)
        /\ IsFiniteSet(counted)
    <3>. HIDE DEF view
    <3>. QED  BY <2>1, ApprovedIsCount
  <2>. HIDE DEF rows, view
  <2>5. /\ DOMAIN rows = 1..Len(rows) /\ DOMAIN view = 1..(Len(rows) - from)
        /\ \A i \in DOMAIN rows : i \in places <=> i > from
    <3>1. DOMAIN view = 1..Len(view) /\ DOMAIN rows = 1..Len(rows)
      BY <2>1, <2>3
    <3>. QED  BY <2>1, <2>2, <3>1
  <2>6. ASSUME NEW i \in DOMAIN rows PROVE rows[i].ts \in Nat
    <3>1. rows[i] \in ToSet(rows)
      BY DEF ToSet
    <3>2. rows[i] \in ToSet(log) /\ IsRow(rows[i])
      BY <2>3, <3>1
    <3>. QED  BY <3>2 DEF LearningInv, LogInv, RowInv
  <2>7. ASSUME NEW row, row.ts \in Nat
        PROVE  (/\ row.wrap = a.wrap /\ matches(a.callers[1], row.callers)
                /\ row.ts >= Cutoff /\ row.decision \in HumanApprovals)
               <=> (/\ row.wrap = a.wrap /\ now <= row.ts + Window
                    /\ row.decision \in {"approve", "approve+remember", "approve+cached"}
                    /\ row.callers # <<>> /\ same(row.callers[1], a.callers[1]))
    <3>1. row.ts >= Cutoff <=> now <= row.ts + Window
      BY <2>1, <2>7, CutoffIsWindow
    <3>2. matches(a.callers[1], row.callers)
            <=> row.callers # <<>> /\ same(row.callers[1], a.callers[1])
      BY DEF matches
    <3>. QED  BY <3>1, <3>2, Zenon DEF HumanApprovals
  <2>. HIDE DEF same, from
  <2>. DEFINE f == [k \in counted |-> from + k]
  <2>8. ASSUME NEW k \in DOMAIN view
        PROVE  from + k \in places /\ (k \in counted <=> from + k \in approvals)
    <3>1. from + k \in DOMAIN rows /\ from + k > from /\ view[k] = rows[from + k]
      BY <2>2, <2>5
    <3>2. from + k \in places /\ rows[from + k].ts \in Nat
      BY <2>5, <2>6, <3>1
    <3>. HIDE DEF places
    <3>3. from + k \in approvals <=>
            (/\ rows[from + k].wrap = a.wrap /\ now <= rows[from + k].ts + Window
             /\ rows[from + k].decision \in {"approve", "approve+remember", "approve+cached"}
             /\ rows[from + k].callers # <<>>
             /\ same(rows[from + k].callers[1], a.callers[1]))
      BY <3>2
    <3>4. k \in counted <=>
            (/\ rows[from + k].wrap = a.wrap /\ matches(a.callers[1], rows[from + k].callers)
             /\ rows[from + k].ts >= Cutoff /\ rows[from + k].decision \in HumanApprovals)
      BY <3>1
    <3>. HIDE DEF approvals, counted
    <3>. QED  BY <2>7, <3>2, <3>3, <3>4
  <2>9. ASSUME NEW i \in approvals PROVE \E k \in counted : from + k = i
    <3>1. i \in DOMAIN rows /\ i \in places
      OBVIOUS
    <3>2. i > from /\ i \in 1..Len(rows)
      BY <2>5, <3>1
    <3>3. i - from \in DOMAIN view /\ from + (i - from) = i
      BY <2>2, <2>5, <3>2
    <3>. HIDE DEF approvals, counted, places
    <3>. QED  BY <2>8, <3>3
  <2>10. \A k \in counted : k \in DOMAIN view /\ k \in Nat /\ from \in Nat
    BY <2>2, <2>5
  <2>. HIDE DEF approvals, counted, places
  <2>11. f \in Bijection(counted, approvals)
    <3>1. f \in [counted -> approvals]
      BY <2>8, <2>10
    <3>2. \A j, k \in counted : f[j] = f[k] => j = k
      BY <2>10
    <3>3. \A i \in approvals : \E k \in counted : f[k] = i
      BY <2>9
    <3>. HIDE DEF f
    <3>. QED  BY <3>1, <3>2, <3>3 DEF Bijection, Injection, Surjection, IsInjective
  <2>12. Cardinality(counted) = Cardinality(approvals)
    <3>1. ExistsBijection(counted, approvals)
      BY <2>11 DEF ExistsBijection
    <3>. QED  BY <2>4, <3>1, FS_Bijection
  <2>. QED  BY <2>4, <2>12, Zenon DEF approvals, places, rows, view, same
<1>. QED  BY <1>1, LearningInvariance, PTL
=============================================================================
