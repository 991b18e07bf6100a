--------------------------- MODULE CommandRunProofs ---------------------------
(***************************************************************************)
(* Proofs about `secreq <binary>` and `secreq run`, for every set of       *)
(* scenarios, configurations, values and bytes: a background process the   *)
(* census can see never loses the reader of its output, the command is     *)
(* given the environment that was meant, and what is shown of its output   *)
(* is the whole of it masked, wherever the reads happened to cut it.       *)
(***************************************************************************)
EXTENDS CommandRun, NaturalsInduction, WellFoundedInduction, SequenceTheorems, TLAPS

\* What a value, and a stream, is made of.
Byte == Bytes

\* Where secreq is before the command runs, and where it ends without it.
Preparing == {"start", "prompt", "consent", "resolve", "inject"}
\* Where a call that never ran its command stops.
Stopped == {"failed", "denied", "printed"}

\* A set of naturals has a least element: < is well-founded.
LEMMA LeastNatural ==
    ASSUME NEW T, T \subseteq Nat, T # {}
    PROVE  \E n \in T : \A m \in T : n <= m
<1>1. IsWellFoundedOn({p \in Nat \X Nat : p[1] < p[2]}, Nat)
  BY NatLessThanWellFounded DEF OpToRel
<1>2. PICK n \in T : \A m \in T : <<m, n>> \notin {p \in Nat \X Nat : p[1] < p[2]}
  BY <1>1, WFMin, Zenon
<1>3. ASSUME NEW m \in T PROVE n <= m
  <2>1. <<m, n>> \notin {p \in Nat \X Nat : p[1] < p[2]}
    BY <1>2
  <2>2. ~(m < n)
    BY <2>1
  <2>3. m \in Nat /\ n \in Nat
    OBVIOUS
  <2>. QED  BY <2>2, <2>3
<1>. QED  BY <1>3

-----------------------------------------------------------------------------
(* What preparing does to everything else. *)

\* A step of the preparation starts the command, replaces this process by it
\* or leaves processes, streams and environment alone.
Spawns ==
    /\ pc' = "wait" /\ child' = "running"
    /\ supervisor' = IF sc.tty THEN "running" ELSE "none"
    /\ pump' = [s \in Streams |-> "reading"]
    /\ UNCHANGED <<status, bg, guardian, signalled>>
    /\ UNCHANGED <<wrote, pipe, carry, shown, drained>>

\* Every step of the preparation is one of the following.
LEMMA PrepareEffect ==
    ASSUME Prepare
    PROVE  /\ pc \in Preparing /\ sc' = sc
           /\ \/ Spawns
              \/ pc' = "replaced" /\ UNCHANGED <<masks, procVars, ioVars>>
              \/ pc' \in Preparing \cup Stopped /\ NoExec
<1>. USE DEF Preparing, Stopped
<1>1. CASE load_config_or_default \/ read
  BY <1>1 DEF load_config_or_default, read, Loaded, Fail, AskFor
<1>2. CASE wrap_run
  BY <1>2 DEF wrap_run, Loaded, Fail, AskFor, passthrough_unwrapped
<1>3. CASE run
  BY <1>3 DEF run, Loaded, Fail, AskFor, Exec, Spawns
<1>4. CASE Prompted \/ \E n \in Names : prompt_and_store_unresolved(n)
  BY <1>4 DEF Prompted, prompt_and_store_unresolved, store_at_locator
<1>5. CASE AssumeYes \/ request_consent \/ render_read_json
  BY <1>5 DEF AssumeYes, request_consent, render_read_json
<1>6. CASE resolve_all
  BY <1>6 DEF resolve_all
<1>7. CASE InjectRun \/ InjectWrap
  BY <1>7 DEF InjectRun, InjectWrap, Fail, Exec, Spawns
<1>. QED  BY <1>1, <1>2, <1>3, <1>4, <1>5, <1>6, <1>7 DEF Prepare

-----------------------------------------------------------------------------
(* The readers of the survivors. *)

\* A background process in the scope of the command has a reader: secreq
\* itself until the census has found it, and a guardian afterwards.  The
\* census comes after the command's end, so nobody is added to the scope later;
\* a supervisor that left on its own has left nobody behind in the session.
ScopeInv ==
    /\ child = "running" => /\ pc \in {"wait", "poll"} /\ status = "none"
                            /\ supervisor \in {"none", "running"}
    /\ supervisor \in {"none", "running", "gone", "killed"}
    /\ supervisor = "gone" => bg # "in"
    /\ pc = "poll" \/ (pc = "wait" /\ sc.tty) => supervisor # "none"
    /\ bg = "in" /\ supervisor # "killed" =>
         \/ pc \in {"wait", "poll", "census", "guard", "guarding"}
         \/ guardian = "running"
    /\ pc \in Preparing => /\ child = "none" /\ bg = "none"
                          /\ supervisor = "none" /\ status = "none"
    /\ ~signalled

\* Every step keeps a reader for the processes in scope.
LEMMA ScopeKept == ScopeInv /\ [Next]_vars => ScopeInv'
<1>. SUFFICES ASSUME ScopeInv, [Next]_vars PROVE ScopeInv'
  OBVIOUS
<1>. USE DEF ScopeInv, procVars, Preparing
<1>1. CASE Prepare
  <2>1. CASE Spawns
    BY <2>1, <1>1, PrepareEffect DEF Spawns
  <2>2. CASE ~Spawns
    BY <2>2, <1>1, PrepareEffect DEF NoExec, Stopped
  <2>. QED  BY <2>1, <2>2
<1>2. CASE run_piped \/ wait_for_supervised_child
  BY <1>2 DEF run_piped, wait_for_supervised_child, Quiet
<1>3. CASE find_survivors \/ Join \/ SupervisorLost
  BY <1>3 DEF find_survivors, Join, SupervisorLost, Returned, Leave, Quiet
<1>4. CASE spawn_io_guardian
  BY <1>4 DEF spawn_io_guardian, Returned, Leave, Quiet
<1>5. CASE guard_io_until_scope_empty
  BY <1>5 DEF guard_io_until_scope_empty, Guards, Returned, Leave, Quiet
<1>6. CASE ChildForks \/ ChildExits \/ Supervise \/ SupervisorDies
  BY <1>6 DEF ChildForks, ChildExits, Supervise, write_supervisor_status,
              run_pty_supervisor, SupervisorDies, Quiet
<1>7. CASE SignalForwarder \/ BgLeaves \/ BgEnds
  BY <1>7 DEF SignalForwarder, BgLeaves, BgEnds, Quiet
<1>8. ASSUME NEW s \in Streams, Pump(s) \/ guard_io(s) PROVE ScopeInv'
  <2>1. ASSUME NEW n, spawn_mask_pump(s, n) PROVE UNCHANGED <<sc, pc, procVars>>
    BY <2>1, Zenon DEF spawn_mask_pump, Quiet
  <2>2. PumpEnds(s) => UNCHANGED <<sc, pc, procVars>>
    BY Zenon DEF PumpEnds, Quiet
  <2>3. guard_io(s) => UNCHANGED <<sc, pc, procVars>>
    BY Zenon DEF guard_io, Quiet
  <2>. QED  BY <1>8, <2>1, <2>2, <2>3 DEF Pump
<1>9. ASSUME NEW s \in Streams, BgLosesReader(s) PROVE ScopeInv'
  BY <1>9 DEF BgLosesReader, HasReader, Quiet
<1>10. ASSUME NEW s \in Streams, NEW b \in sc.prints,
              ChildPrints(s, b) \/ BgPrints(s, b)
       PROVE  ScopeInv'
  BY <1>10 DEF ChildPrints, BgPrints, Emit, Quiet
<1>11. CASE UNCHANGED vars
  BY <1>11 DEF vars
<1>. QED  BY <1>1, <1>2, <1>3, <1>4, <1>5, <1>6, <1>7, <1>8, <1>9, <1>10,
             <1>11 DEF Next, Finish

\* exec.rs's promise that teardown is not an implicit signal: whatever the
\* command, its background process and the guardian do, a process that stays in
\* the command's session or group never writes to a pipe without a reader.
THEOREM SurvivorsAreNotSignalledHolds == Spec => []SurvivorsAreNotSignalled
<1>1. Init => ScopeInv
  BY DEF Init, ScopeInv, Preparing
<1>2. ScopeInv => SurvivorsAreNotSignalled
  BY DEF ScopeInv, SurvivorsAreNotSignalled
<1>. QED  BY <1>1, <1>2, ScopeKept, PTL DEF Spec
-----------------------------------------------------------------------------
(* The environment of the command. *)

\* The variables `run` has to resolve.
RefVars == {n \in Names : looks_like_ref(effective_env(n))}

\* What the property means a variable to hold, the definitions inside
\* ChildEnvIsAsMeant.
KeptFor(n) ==
    {stored[ask[n].ref]}
    \cup {v \in {FirstLine(stored[ask[n].ref])} : Scheme(n) \in Batching}
MeantFor(n) ==
    IF sc.via = "run" /\ ~sc.reentrant /\ sc.inherited[n] = Unset
    THEN Literal(sc.envfile[n])
    ELSE Literal(sc.inherited[n])
Fits(n, v) == IF n \in DOMAIN ask THEN v \in KeptFor(n) ELSE v = MeantFor(n)

\* What the first half of ChildEnvIsAsMeant says once there is a command.
AsMeant ==
    /\ \A n \in Names : Fits(n, childEnv[n])
    /\ DOMAIN ask # {} => decision = "approve"
    /\ sc.via = "run" /\ ~sc.reentrant =>
         \A n \in Names \ DOMAIN ask : ~looks_like_ref(Head(childEnv[n]))

\* Every reference of the ask is one, with the lifetime one configuration gives
\* it.
AskedOf(c) ==
    \A n \in DOMAIN ask :
        ask[n].ref \in Refs /\ ask[n].ttl = ttl_for(c, ask[n].ref)

\* Nothing is asked for before the configuration is read; a `run' asks for
\* exactly the references in its environment; the values are the stored ones, or
\* what a batch leaves of them; and there is no child environment while
\* secreq prepares.
EnvInv ==
    /\ sc \in Scenarios
    /\ \A r \in Refs : stored[r] = None \/ stored[r] = Value[r]
    /\ DOMAIN stored = Refs
    /\ AskedOf(sc.config) \/ AskedOf(sc.again)
    /\ pc = "start" => ask = <<>>
    /\ pc \in {"prompt", "consent", "resolve", "inject"} /\ sc.via = "run" =>
         ~sc.reentrant /\ DOMAIN ask = RefVars
    /\ pc \in {"resolve", "inject"} => decision = "approve"
    /\ pc = "inject" => /\ DOMAIN resolved = DOMAIN ask
                        /\ \A n \in DOMAIN ask : resolved[n] \in Seq(Byte)
                        /\ \A n \in DOMAIN ask : resolved[n] \in KeptFor(n)
    /\ pc \in Preparing \cup Stopped => childEnv = <<>>
    /\ pc \notin Preparing \cup Stopped => AsMeant

\* The value of a reference comes back whole: the newline that is stripped is
\* the one the provider's command line added.
LEMMA RetrieveIsStored ==
    ASSUME EnvInv, NEW r \in Refs
    PROVE  retrieve(r) = stored[r]
<1>1. CASE stored[r] = None
  BY <1>1 DEF retrieve
<1>2. CASE stored[r] # None
  <2>. DEFINE v == Value[r]
              out == v \o <<NL>>
  <2>1. stored[r] = v /\ v \in Seq(Byte)
    BY <1>2, CommandAssumption DEF EnvInv, Byte
  <2>2. out \in Seq(Byte) /\ Len(out) = Len(v) + 1 /\ out # <<>>
    <3>1. <<NL>> \in Seq(Byte) /\ Len(<<NL>>) = 1
      BY CommandAssumption DEF Byte
    <3>2. v \o <<NL>> \in Seq(Byte) /\ Len(v \o <<NL>>) = Len(v) + 1
      BY <2>1, <3>1
    <3>. QED  BY <2>1, <3>2
  <2>3. Last(out) = NL
    BY <2>1, <2>2 DEF Last
  <2>4. Front(out) = v
    BY <2>1, <2>2 DEF Front
  <2>. HIDE DEF v
  <2>. QED  BY <1>2, <2>1, <2>2, <2>3, <2>4 DEF retrieve, strip_one_trailing_newline
<1>. QED  BY <1>1, <1>2

\* A variable may hold what the same state says otherwise.
LEMMA FitsKept ==
    ASSUME UNCHANGED <<sc, ask, stored>>
    PROVE  \A n : KeptFor(n)' = KeptFor(n) /\ MeantFor(n)' = MeantFor(n)
  BY DEF KeptFor, MeantFor, Scheme, Batching, Providers, Literal

\* What is stored and what a batch gives back of it are values.
LEMMA StoredTyped ==
    ASSUME EnvInv, NEW r \in Refs
    PROVE  /\ stored[r] # None => /\ stored[r] \in Seq(Byte)
                                  /\ retrieve_batch(r) \in Seq(Byte)
           /\ stored[r] = None => retrieve_batch(r) = None
<1>1. stored[r] # None => stored[r] \in Seq(Byte)
  BY CommandAssumption DEF EnvInv, Byte
<1>2. ASSUME NEW v \in Seq(Byte) PROVE FirstLine(v) \in Seq(Byte)
  <2>. DEFINE ends == {i \in 1..Len(v) : v[i] = NL}
  <2>1. CASE ends = {}
    BY <1>2, <2>1 DEF FirstLine
  <2>2. CASE ends # {}
    <3>0. ends \subseteq Nat
      BY <1>2
    <3>1. \E i \in ends : \A j \in ends : i <= j
      <4>. HIDE DEF ends
      <4>. QED  BY <2>2, <3>0, LeastNatural
    <3>2. Min(ends) \in ends
      BY <3>1 DEF Min
    <3>3. Min(ends) - 1 \in 0..Len(v)
      BY <3>2
    <3>4. FirstLine(v) = SubSeq(v, 1, Min(ends) - 1)
      BY <2>2 DEF FirstLine
    <3>. HIDE DEF ends
    <3>5. SubSeq(v, 1, Min(ends) - 1) \in Seq(Byte)
      BY <1>2, <3>3
    <3>. QED  BY <3>4, <3>5
  <2>. QED  BY <2>1, <2>2
<1>. QED  BY <1>1, <1>2 DEF retrieve_batch

\* What resolve_ref gives for a written value is a reference with the lifetime
\* the configuration declares for it.
LEMMA ResolveRef ==
    ASSUME NEW c \in Configs, NEW raw, resolve_ref(c, raw) # None,
           raw \in Raw \/ raw.form = "named"
    PROVE  /\ resolve_ref(c, raw).ref \in Refs
           /\ resolve_ref(c, raw).ttl = ttl_for(c, resolve_ref(c, raw).ref)
<1>1. CASE raw.form = "direct"
  <2>1. raw.ref \in Refs
    BY <1>1 DEF Raw
  <2>. QED  BY <1>1, <2>1 DEF resolve_ref, Resolved
<1>2. CASE raw.form = "named" /\ raw.name \in DOMAIN c.secrets
  BY <1>2, CommandAssumption DEF resolve_ref, Resolved
<1>. QED  BY <1>1, <1>2 DEF resolve_ref

\* The scenario has its type.
LEMMA ScenarioTyped ==
    ASSUME EnvInv
    PROVE  /\ sc.config \in Configs /\ sc.again \in Configs
           /\ sc.inherited \in [Names -> Raw] /\ sc.envfile \in [Names -> Raw]
  BY CommandAssumption DEF EnvInv, ScenarioType

\* Steps that touch nothing the environment depends on, once the command runs.
LEMMA EnvKept ==
    ASSUME EnvInv, UNCHANGED <<sc, askVars, childEnv>>,
           \/ pc' = pc
           \/ pc' \in Stopped /\ pc \in Preparing
           \/ pc \notin Preparing \cup Stopped /\ pc' \notin Preparing \cup Stopped
    PROVE  EnvInv'
<1>. USE DEF askVars
<1>1. AsMeant' = AsMeant /\ RefVars' = RefVars
  BY FitsKept DEF AsMeant, Fits, RefVars, effective_env
<1>2. AskedOf(sc.config)' = AskedOf(sc.config) /\ AskedOf(sc.again)' = AskedOf(sc.again)
  BY DEF AskedOf
<1>. QED  BY <1>1, <1>2, FitsKept DEF EnvInv, Preparing, Stopped

\* An ask is made of references that expand.
LEMMA AskForStep ==
    ASSUME EnvInv, pc = "start", sc' = sc, NEW refs, NEW next, AskFor(refs, next),
           next \in {"prompt", "consent"},
           NEW c \in {sc.config, sc.again},
           \A n \in DOMAIN refs : refs[n] # None =>
               refs[n].ref \in Refs /\ refs[n].ttl = ttl_for(c, refs[n].ref),
           sc.via = "run" => ~sc.reentrant /\ DOMAIN refs = RefVars
    PROVE  EnvInv'
<1>1. CASE \E n \in DOMAIN refs : refs[n] = None
  BY <1>1, EnvKept DEF AskFor, Fail, NoExec, Preparing, Stopped
<1>2. CASE \A n \in DOMAIN refs : refs[n] # None
  <2>1. /\ ask' = refs /\ pc' = next
        /\ UNCHANGED <<stored, decision, resolved, childEnv>>
    BY <1>2 DEF AskFor, NoExec
  <2>2. AskedOf(c)' /\ (c = sc.config \/ c = sc.again)
    BY <1>2, <2>1 DEF AskedOf
  <2>3. RefVars' = RefVars
    BY DEF RefVars, effective_env
  <2>4. AskedOf(sc.config)' \/ AskedOf(sc.again)'
    BY <2>2
  <2>. QED  BY <2>1, <2>3, <2>4 DEF EnvInv, Preparing, Stopped
<1>. QED  BY <1>1, <1>2

\* The command is started with what was meant.
LEMMA ExecStep ==
    ASSUME EnvInv, UNCHANGED <<sc, askVars>>, pc' \in {"wait", "replaced"},
           \A n \in Names : Fits(n, childEnv'[n]),
           DOMAIN ask # {} => decision = "approve",
           sc.via = "run" /\ ~sc.reentrant => DOMAIN ask = RefVars
    PROVE  EnvInv'
<1>. USE DEF askVars
<1>1. /\ AskedOf(sc.config)' = AskedOf(sc.config)
      /\ AskedOf(sc.again)' = AskedOf(sc.again)
  BY DEF AskedOf
<1>2. \A n \in Names : KeptFor(n)' = KeptFor(n) /\ MeantFor(n)' = MeantFor(n)
  BY FitsKept
<1>3. ASSUME sc.via = "run", ~sc.reentrant, NEW n \in Names \ DOMAIN ask
      PROVE  ~looks_like_ref(Head(childEnv'[n]))
  <2>1. ~looks_like_ref(effective_env(n))
    BY <1>3 DEF RefVars
  <2>2. MeantFor(n) = <<effective_env(n)>>
    <3>1. sc.inherited[n] \in Raw
      BY ScenarioTyped
    <3>2. sc.inherited[n].form = "unset" <=> sc.inherited[n] = Unset
      BY <3>1 DEF Raw, Unset
    <3>. QED  BY <1>3, <3>2 DEF MeantFor, effective_env, Literal
  <2>3. childEnv'[n] = MeantFor(n)
    BY DEF Fits
  <2>. QED  BY <2>1, <2>2, <2>3
<1>4. AsMeant'
  BY <1>2, <1>3 DEF AsMeant, Fits
<1>. QED  BY <1>1, <1>4 DEF EnvInv, Preparing, Stopped

\* What Exec hands over when the overrides are as meant.
LEMMA ExecEnv ==
    ASSUME NEW o, NEW v, Exec(o, v),
           \A n \in Names : Fits(n, IF n \in DOMAIN o THEN o[n] ELSE Inherited[n])
    PROVE  pc' = "wait" /\ \A n \in Names : Fits(n, childEnv'[n])
  BY DEF Exec

\* `run' starts from the command line: nothing to resolve, or a re-entry.
LEMMA RunStep ==
    ASSUME EnvInv, run
    PROVE  EnvInv'
<1>1. pc = "start" /\ sc.via = "run" /\ sc' = sc /\ ask = <<>>
  BY DEF run, Loaded, EnvInv
<1>2. DOMAIN ask = {}
  BY <1>1
<1>3. CASE sc.reentrant
  <2>1. Exec(<<>>, {}) /\ UNCHANGED askVars
    BY <1>3 DEF run
  <2>2. \A n \in Names : Fits(n, Inherited[n])
    BY <1>2, <1>3 DEF Inherited, MeantFor, Fits
  <2>3. pc' = "wait" /\ \A n \in Names : Fits(n, childEnv'[n])
    BY <2>1, <2>2, ExecEnv
  <2>. QED  BY <2>1, <2>3, <1>1, <1>2, <1>3, ExecStep
<1>4. CASE ~sc.reentrant /\ DOMAIN scan_env_refs = {}
  <2>1. Exec(build_overrides(<<>>), {}) /\ UNCHANGED askVars
    BY <1>4 DEF run
  <2>2. RefVars = {}
    BY <1>4 DEF RefVars, scan_env_refs
  <2>3. \A n \in Names :
          Fits(n, IF n \in DOMAIN build_overrides(<<>>) THEN build_overrides(<<>>)[n]
                  ELSE Inherited[n])
    <3>. SUFFICES ASSUME NEW n \in Names
                  PROVE  (IF n \in DOMAIN build_overrides(<<>>)
                          THEN build_overrides(<<>>)[n] ELSE Inherited[n])
                         = MeantFor(n)
      BY <1>2 DEF Fits
    <3>1. sc.inherited[n] \in Raw /\ sc.envfile[n] \in Raw
      BY ScenarioTyped
    <3>2. /\ sc.inherited[n].form = "unset" <=> sc.inherited[n] = Unset
          /\ sc.envfile[n].form = "unset" <=> sc.envfile[n] = Unset
      BY <3>1 DEF Raw, Unset
    <3>3. DOMAIN build_overrides(<<>>) =
            {m \in Names : sc.inherited[m].form = "unset"
                           /\ effective_env(m).form # "unset"}
      BY DEF build_overrides
    <3>4. n \in DOMAIN build_overrides(<<>>) =>
            build_overrides(<<>>)[n] = Literal(effective_env(n))
      BY DEF build_overrides
    <3>5. MeantFor(n) = IF sc.inherited[n] = Unset THEN Literal(sc.envfile[n])
                        ELSE Literal(sc.inherited[n])
      BY <1>1, <1>2, <1>4 DEF MeantFor
    <3>. QED  BY <3>2, <3>3, <3>4, <3>5 DEF Inherited, effective_env
  <2>4. pc' = "wait" /\ \A n \in Names : Fits(n, childEnv'[n])
    BY <2>1, <2>3, ExecEnv
  <2>. QED  BY <2>1, <2>2, <2>4, <1>1, <1>2, ExecStep
<1>5. CASE ~sc.reentrant /\ DOMAIN scan_env_refs # {}
  <2>. DEFINE next == IF sc.prompt THEN "prompt" ELSE "consent"
  <2>1. AskFor(scan_env_refs, next)
    BY <1>5 DEF run
  <2>2. DOMAIN scan_env_refs = RefVars
    BY DEF scan_env_refs, RefVars
  <2>3. ASSUME NEW n \in DOMAIN scan_env_refs, scan_env_refs[n] # None
        PROVE  /\ scan_env_refs[n].ref \in Refs
               /\ scan_env_refs[n].ttl = ttl_for(sc.config, scan_env_refs[n].ref)
    <3>1. scan_env_refs[n] = resolve_ref(sc.config, effective_env(n))
      BY DEF scan_env_refs
    <3>2. effective_env(n) \in Raw /\ sc.config \in Configs
      BY <2>2, ScenarioTyped DEF effective_env, RefVars
    <3>. HIDE DEF scan_env_refs
    <3>. QED  BY <2>3, <3>1, <3>2, ResolveRef
  <2>. QED  BY <2>1, <2>2, <2>3, <1>1, <1>5, AskForStep
<1>. QED  BY <1>3, <1>4, <1>5

\* A wrap is passed through with the parent's environment, or asks.
LEMMA WrapStep ==
    ASSUME EnvInv, wrap_run
    PROVE  EnvInv'
<1>1. pc = "start" /\ sc.via = "wrap" /\ sc' = sc /\ ask = <<>>
  BY DEF wrap_run, Loaded, EnvInv
<1>2. DOMAIN ask = {}
  BY <1>1
<1>3. CASE passthrough_unwrapped
  <2>1. CASE find_real_binary
    <3>1. pc' = "replaced" /\ childEnv' = Inherited /\ UNCHANGED askVars
      BY <1>3, <2>1 DEF passthrough_unwrapped
    <3>2. \A n \in Names : Fits(n, childEnv'[n])
      BY <3>1, <1>1, <1>2 DEF Inherited, MeantFor, Fits
    <3>. QED  BY <3>1, <3>2, <1>1, <1>2, ExecStep
  <2>2. CASE ~find_real_binary
    BY <1>1, <1>3, <2>2, EnvKept
       DEF passthrough_unwrapped, Fail, NoExec, Preparing, Stopped
  <2>. QED  BY <2>1, <2>2
<1>4. CASE Fail
  BY <1>1, <1>4, EnvKept DEF Fail, NoExec, Preparing, Stopped
<1>. DEFINE w == sc.config.wrap
            needed == [w EXCEPT
                !.env_secrets = {n \in @ : ~parent_env_satisfies(n)},
                !.env = [n \in {m \in DOMAIN @ : ~parent_env_satisfies(m)} |-> @[n]]]
            refs == wrap_refs(obtained, needed)
<1>5. CASE AskFor(refs, "consent")
  <2>1. obtained \in {sc.config, sc.again} /\ obtained \in Configs
    BY ScenarioTyped DEF obtained
  <2>2. ASSUME NEW n \in DOMAIN refs, refs[n] # None
        PROVE  refs[n].ref \in Refs /\ refs[n].ttl = ttl_for(obtained, refs[n].ref)
    <3>. DEFINE Envs == UNION {[D -> Raw] : D \in SUBSET Names}
    <3>1. w \in [entry : BOOLEAN, env_secrets : SUBSET Names, env : Envs]
      BY ScenarioTyped, CommandAssumption
    <3>. HIDE DEF w, Envs
    <3>2. /\ w.env \in Envs
          /\ w = [entry |-> w.entry, env_secrets |-> w.env_secrets, env |-> w.env]
      BY <3>1
    <3>3. \A m \in DOMAIN w.env : w.env[m] \in Raw
      BY <3>2 DEF Envs
    <3>4. needed.env = [k \in {m \in DOMAIN w.env : ~parent_env_satisfies(m)} |-> w.env[k]]
      BY <3>2
    <3>5. \A m \in DOMAIN needed.env : needed.env[m] \in Raw
      BY <3>3, <3>4
    <3>. HIDE DEF needed
    <3>6. PICK raw : /\ refs[n] = resolve_ref(obtained, raw)
                     /\ raw \in Raw \/ raw.form = "named"
      <4>1. CASE n \in needed.env_secrets
        <5>1. refs[n] = resolve_ref(obtained, [form |-> "named", name |-> n])
          BY <4>1, <2>2 DEF wrap_refs
        <5>. QED  BY <5>1
      <4>2. CASE n \notin needed.env_secrets
        <5>1. n \in DOMAIN needed.env /\ refs[n] = resolve_ref(obtained, needed.env[n])
          BY <4>2, <2>2 DEF wrap_refs, env_names
        <5>. QED  BY <5>1, <3>5
      <4>. QED  BY <4>1, <4>2
    <3>. HIDE DEF refs
    <3>. QED  BY <2>1, <2>2, <3>6, ResolveRef
  <2>. QED  BY <2>1, <2>2, <1>1, <1>5, AskForStep
<1>. QED  BY <1>3, <1>4, <1>5 DEF wrap_run

\* `read' asks for its arguments.
LEMMA ReadStep ==
    ASSUME EnvInv, read
    PROVE  EnvInv'
<1>. DEFINE given == {n \in Names : sc.inherited[n].form # "unset"}
            refs == [n \in given |-> resolve_ref(sc.config, sc.inherited[n])]
<1>1. pc = "start" /\ sc.via = "read" /\ sc' = sc
  BY DEF read, Loaded
<1>2. CASE Fail
  BY <1>1, <1>2, EnvKept DEF Fail, NoExec, Preparing, Stopped
<1>3. CASE AskFor(refs, "consent")
  <2>1. ASSUME NEW n \in DOMAIN refs, refs[n] # None
        PROVE  refs[n].ref \in Refs /\ refs[n].ttl = ttl_for(sc.config, refs[n].ref)
    <3>1. /\ sc.inherited[n] \in Raw /\ sc.config \in Configs
          /\ refs[n] = resolve_ref(sc.config, sc.inherited[n])
      BY ScenarioTyped
    <3>. HIDE DEF refs
    <3>. QED  BY <2>1, <3>1, ResolveRef
  <2>. HIDE DEF refs
  <2>. QED  BY <2>1, <1>1, <1>3, AskForStep
<1>. QED  BY <1>2, <1>3 DEF read

\* --prompt-unresolved stores only what the user keeps under the reference.
LEMMA PromptStep ==
    ASSUME EnvInv, NEW n \in Names, prompt_and_store_unresolved(n)
    PROVE  EnvInv'
<1>1. /\ pc = "prompt" /\ n \in DOMAIN ask
      /\ UNCHANGED <<sc, ask, decision, resolved, childEnv>>
  BY DEF prompt_and_store_unresolved, NoExec
<1>2. \/ pc' = pc /\ stored' = stored
      \/ pc' = pc /\ stored' = [stored EXCEPT ![ask[n].ref] = Value[ask[n].ref]]
      \/ pc' = "failed" /\ stored' = stored
  BY DEF prompt_and_store_unresolved, store_at_locator
<1>3. DOMAIN stored' = Refs /\ \A r \in Refs : stored'[r] = None \/ stored'[r] = Value[r]
  BY <1>2 DEF EnvInv
<1>4. RefVars' = RefVars
  BY <1>1 DEF RefVars, effective_env
<1>5. /\ AskedOf(sc.config)' = AskedOf(sc.config)
      /\ AskedOf(sc.again)' = AskedOf(sc.again)
  BY <1>1 DEF AskedOf
<1>. QED  BY <1>1, <1>2, <1>3, <1>4, <1>5 DEF EnvInv, Preparing, Stopped

\* Consent, and the two ways to the values.
LEMMA ConsentStep ==
    ASSUME EnvInv,
           Prompted \/ AssumeYes \/ request_consent \/ resolve_all
    PROVE  EnvInv'
<1>1. /\ UNCHANGED <<sc, ask, stored, childEnv>>
      /\ pc \in {"prompt", "consent", "resolve"}
      /\ pc' \in {"consent", "resolve", "inject", "denied", "failed"}
  BY DEF Prompted, AssumeYes, request_consent, resolve_all, NoExec, askVars
<1>2. RefVars' = RefVars
  BY <1>1 DEF RefVars, effective_env
<1>3. /\ AskedOf(sc.config)' = AskedOf(sc.config)
      /\ AskedOf(sc.again)' = AskedOf(sc.again)
  BY <1>1 DEF AskedOf
<1>4. pc' \in {"resolve", "inject"} => decision' = "approve"
  BY DEF Prompted, AssumeYes, request_consent, resolve_all, EnvInv
<1>5. ASSUME pc' = "inject"
      PROVE  /\ DOMAIN resolved' = DOMAIN ask
             /\ \A n \in DOMAIN ask : resolved'[n] \in Seq(Byte)
             /\ \A n \in DOMAIN ask : resolved'[n] \in KeptFor(n)
  <2>0. \A n \in DOMAIN ask : ask[n].ref \in Refs
    BY DEF EnvInv, AskedOf
  <2>a. \A n \in DOMAIN ask :
          /\ retrieve(ask[n].ref) = stored[ask[n].ref]
          /\ stored[ask[n].ref] # None =>
               /\ stored[ask[n].ref] \in Seq(Byte)
               /\ retrieve_batch(ask[n].ref) \in Seq(Byte)
               /\ retrieve_batch(ask[n].ref) = FirstLine(stored[ask[n].ref])
          /\ stored[ask[n].ref] = None => retrieve_batch(ask[n].ref) = None
    BY <2>0, RetrieveIsStored, StoredTyped DEF retrieve_batch
  <2>1. CASE request_consent
    <3>1. PICK batched \in SUBSET {n \in DOMAIN ask : Scheme(n) \in Batching} :
            /\ resolved' = [n \in DOMAIN ask |->
                   IF n \in batched THEN retrieve_batch(ask[n].ref)
                   ELSE retrieve(ask[n].ref)]
            /\ \A n \in DOMAIN ask : stored[ask[n].ref] # None
      BY <1>5, <2>1 DEF request_consent
    <3>. QED  BY <3>1, <2>a DEF KeptFor
  <2>2. CASE resolve_all
    <3>1. PICK batched \in SUBSET Batchable :
            resolved' = [n \in DOMAIN ask |->
                IF Scheme(n) \in batched /\ retrieve_batch(ask[n].ref) # None
                THEN retrieve_batch(ask[n].ref)
                ELSE IF Known(n) THEN retrieve(ask[n].ref) ELSE None]
            /\ \A n \in DOMAIN ask : resolved'[n] # None
      BY <1>5, <2>2 DEF resolve_all
    <3>2. \A n \in DOMAIN ask : Scheme(n) \in batched => Scheme(n) \in Batching
      BY DEF Batchable
    <3>. QED  BY <3>1, <3>2, <2>a DEF KeptFor
  <2>. QED  BY <1>5, <2>1, <2>2 DEF Prompted, AssumeYes
<1>6. \A n : KeptFor(n)' = KeptFor(n)
  BY <1>1, FitsKept
<1>. QED  BY <1>1, <1>2, <1>3, <1>4, <1>5, <1>6 DEF EnvInv, Preparing, Stopped

\* The values are injected.
LEMMA InjectStep ==
    ASSUME EnvInv, InjectRun \/ InjectWrap
    PROVE  EnvInv'
<1>1. /\ pc = "inject" /\ UNCHANGED <<sc, askVars>> /\ decision = "approve"
      /\ DOMAIN resolved = DOMAIN ask
      /\ \A n \in DOMAIN ask : resolved[n] \in KeptFor(n)
  BY DEF InjectRun, InjectWrap, Fail, EnvInv
<1>2. CASE InjectRun
  <2>. DEFINE o == build_overrides(resolved)
  <2>1. Exec(o, ToMask) /\ sc.via = "run"
    BY <1>2 DEF InjectRun
  <2>2. ~sc.reentrant /\ DOMAIN ask = RefVars
    BY <1>1, <2>1 DEF EnvInv
  <2>3. ASSUME NEW n \in Names
        PROVE  Fits(n, IF n \in DOMAIN o THEN o[n] ELSE Inherited[n])
    <3>1. sc.inherited[n] \in Raw /\ sc.envfile[n] \in Raw
      BY ScenarioTyped
    <3>2. /\ sc.inherited[n].form = "unset" <=> sc.inherited[n] = Unset
          /\ sc.envfile[n].form = "unset" <=> sc.envfile[n] = Unset
      BY <3>1 DEF Raw, Unset
    <3>3. n \in DOMAIN o <=> \/ n \in DOMAIN resolved
                             \/ /\ sc.inherited[n].form = "unset"
                                /\ effective_env(n).form # "unset"
      BY DEF build_overrides
    <3>4. n \in DOMAIN o => o[n] = IF n \in DOMAIN resolved THEN resolved[n]
                                   ELSE Literal(effective_env(n))
      BY DEF build_overrides
    <3>. HIDE DEF o
    <3>5. CASE n \in DOMAIN ask
      BY <3>3, <3>4, <3>5, <1>1 DEF Fits
    <3>6. CASE n \notin DOMAIN ask
      <4>1. MeantFor(n) = IF sc.inherited[n] = Unset THEN Literal(sc.envfile[n])
                          ELSE Literal(sc.inherited[n])
        BY <2>1, <2>2, <3>6 DEF MeantFor
      <4>. QED  BY <3>2, <3>3, <3>4, <3>6, <4>1, <1>1
                DEF Inherited, effective_env, Fits
    <3>. QED  BY <3>5, <3>6
  <2>. HIDE DEF o
  <2>4. pc' = "wait" /\ \A n \in Names : Fits(n, childEnv'[n])
    BY <2>1, <2>3, ExecEnv
  <2>. QED  BY <2>2, <2>4, <1>1, ExecStep
<1>3. CASE InjectWrap /\ find_real_binary
  <2>1. Exec(resolved, ToMask) /\ sc.via = "wrap"
    BY <1>3 DEF InjectWrap
  <2>2. \A n \in Names :
          Fits(n, IF n \in DOMAIN resolved THEN resolved[n] ELSE Inherited[n])
    BY <2>1, <1>1 DEF MeantFor, Inherited, Fits
  <2>3. pc' = "wait" /\ \A n \in Names : Fits(n, childEnv'[n])
    BY <2>1, <2>2, ExecEnv
  <2>. QED  BY <2>1, <2>3, <1>1, ExecStep
<1>4. CASE InjectWrap /\ ~find_real_binary
  BY <1>1, <1>4, EnvKept DEF InjectWrap, Fail, NoExec, Preparing, Stopped
<1>. QED  BY <1>2, <1>3, <1>4

\* The steps of the running command and of its end leave the environment alone.
LEMMA RunningStep ==
    ASSUME EnvInv, Next, ~Prepare
    PROVE  EnvInv'
<1>1. ASSUME NEW s \in Streams, NEW n, spawn_mask_pump(s, n)
      PROVE  UNCHANGED <<sc, askVars, childEnv, pc>>
  BY <1>1, Zenon DEF spawn_mask_pump, Quiet
<1>2. ASSUME NEW s \in Streams, PumpEnds(s) \/ guard_io(s) \/ BgLosesReader(s)
      PROVE  UNCHANGED <<sc, askVars, childEnv, pc>>
  BY <1>2, Zenon DEF PumpEnds, guard_io, BgLosesReader, Quiet
<1>3. ASSUME NEW s \in Streams, NEW b \in sc.prints, ChildPrints(s, b) \/ BgPrints(s, b)
      PROVE  UNCHANGED <<sc, askVars, childEnv, pc>>
  BY <1>3, Zenon DEF ChildPrints, BgPrints, Quiet
<1>4. ASSUME ChildForks \/ ChildExits \/ Supervise \/ SupervisorDies
             \/ SignalForwarder \/ BgLeaves \/ BgEnds
      PROVE  UNCHANGED <<sc, askVars, childEnv, pc>>
  BY <1>4, Zenon DEF ChildForks, ChildExits, Supervise, write_supervisor_status,
                     run_pty_supervisor, SupervisorDies, SignalForwarder, BgLeaves,
                     BgEnds, Quiet
<1>5. ASSUME Finish
      PROVE  /\ UNCHANGED <<sc, askVars, childEnv>>
             /\ pc' = pc \/ (pc \notin Preparing \cup Stopped
                             /\ pc' \notin Preparing \cup Stopped)
  <2>1. CASE run_piped \/ wait_for_supervised_child \/ SupervisorLost
             \/ find_survivors \/ Join
    BY <2>1 DEF run_piped, wait_for_supervised_child, SupervisorLost, find_survivors,
                Join, Returned, Leave, Quiet, Preparing, Stopped
  <2>2. CASE spawn_io_guardian \/ (guard_io_until_scope_empty /\ guardian # "running")
    BY <2>2 DEF spawn_io_guardian, guard_io_until_scope_empty, Guards, Returned, Leave,
                Quiet, Preparing, Stopped
  <2>3. CASE guard_io_until_scope_empty /\ guardian = "running"
    BY <2>3 DEF guard_io_until_scope_empty, Quiet
  <2>. QED  BY <1>5, <2>1, <2>2, <2>3 DEF Finish
<1>6. CASE Finish
  BY <1>5, <1>6, EnvKept
<1>7. CASE UNCHANGED <<sc, askVars, childEnv, pc>>
  BY <1>7, EnvKept
<1>. QED  BY <1>1, <1>2, <1>3, <1>4, <1>6, <1>7 DEF Next, Pump

\* Every step keeps the invariant of the environment.
LEMMA EnvStep == EnvInv /\ [Next]_vars => EnvInv'
<1>. SUFFICES ASSUME EnvInv, [Next]_vars PROVE EnvInv'
  OBVIOUS
<1>1. CASE load_config_or_default \/ render_read_json
  <2>1. UNCHANGED <<sc, askVars, childEnv>> /\ pc \in Preparing /\ pc' \in Stopped
    BY <1>1 DEF load_config_or_default, render_read_json, Fail, NoExec, Preparing,
                Stopped
  <2>. QED  BY <2>1, EnvKept
<1>2. CASE Prepare
  BY <1>1, <1>2, WrapStep, RunStep, ReadStep, PromptStep, ConsentStep, InjectStep
     DEF Prepare
<1>3. CASE Next /\ ~Prepare
  BY <1>3, RunningStep
<1>4. CASE UNCHANGED vars
  BY <1>4, EnvKept DEF vars
<1>. QED  BY <1>2, <1>3, <1>4

\* The invariant holds when the command is typed.
LEMMA EnvInit == Init => EnvInv
<1>. SUFFICES ASSUME Init PROVE EnvInv
  OBVIOUS
<1>1. AskedOf(sc.config)
  BY DEF Init, AskedOf
<1>. QED  BY <1>1 DEF Init, EnvInv, Preparing, Stopped

\* The invariant holds in every reachable state.
THEOREM EnvInvariance == Spec => []EnvInv
<1>. QED  BY EnvInit, EnvStep, PTL DEF Spec

\* The command is given what was meant, by whichever way it is started and
\* whatever the values are: every variable the ask showed holds the value stored
\* under the reference shown, or the first line of it from a provider that is
\* read in batches, after an approval, and no other variable is touched.
THEOREM ChildEnvIsAsMeantHolds == Spec => []ChildEnvIsAsMeant
<1>1. EnvInv => ChildEnvIsAsMeant
  <2>. SUFFICES ASSUME EnvInv PROVE ChildEnvIsAsMeant
    OBVIOUS
  <2>1. childEnv # <<>> => AsMeant
    BY DEF EnvInv
  <2>2. \A m, n \in DOMAIN ask : ask[m].ref = ask[n].ref => ask[m].ttl = ask[n].ttl
    BY DEF EnvInv, AskedOf
  <2>. QED  BY <2>1, <2>2, Zenon
            DEF ChildEnvIsAsMeant, AsMeant, Fits, KeptFor, MeantFor
<1>. QED  BY <1>1, EnvInvariance, PTL

-----------------------------------------------------------------------------
(* The masker: a read may split the output anywhere. *)

\* What is left of buf from position i on.
Rest(buf, i) == SubSeq(buf, i, Len(buf))

\* Its length and its elements.
LEMMA RestProperties ==
    ASSUME NEW X, NEW buf \in Seq(X), NEW i \in 1..Len(buf) + 1
    PROVE  /\ Rest(buf, i) \in Seq(X)
           /\ Len(Rest(buf, i)) = Len(buf) + 1 - i
           /\ \A k \in 1..Len(buf) + 1 - i : Rest(buf, i)[k] = buf[i + k - 1]
<1>1. \A k \in i..Len(buf) : buf[k] \in X
  BY ElementOfSeq
<1>2. /\ SubSeq(buf, i, Len(buf)) \in Seq(X)
      /\ Len(SubSeq(buf, i, Len(buf))) = IF i <= Len(buf) THEN Len(buf) - i + 1 ELSE 0
      /\ \A k \in 1..Len(buf) - i + 1 : SubSeq(buf, i, Len(buf))[k] = buf[i + k - 1]
  BY <1>1, SubSeqProperties
<1>. QED  BY <1>2 DEF Rest

\* The rest of a rest is a rest.
LEMMA RestOfRest ==
    ASSUME NEW X, NEW buf \in Seq(X), NEW i \in 1..Len(buf) + 1,
           NEW k \in 1..Len(buf) + 2 - i
    PROVE  Rest(Rest(buf, i), k) = Rest(buf, i + k - 1)
<1>. DEFINE r == Rest(buf, i)
<1>1. r \in Seq(X) /\ Len(r) = Len(buf) + 1 - i
      /\ \A j \in 1..Len(buf) + 1 - i : r[j] = buf[i + j - 1]
  BY RestProperties
<1>. HIDE DEF r
<1>2. k \in 1..Len(r) + 1 /\ i + k - 1 \in 1..Len(buf) + 1
  BY <1>1
<1>3. /\ Rest(r, k) \in Seq(X) /\ Len(Rest(r, k)) = Len(r) + 1 - k
      /\ \A j \in 1..Len(r) + 1 - k : Rest(r, k)[j] = r[k + j - 1]
  <2>1. \A b \in Seq(X) : \A q \in 1..Len(b) + 1 :
           /\ Rest(b, q) \in Seq(X) /\ Len(Rest(b, q)) = Len(b) + 1 - q
           /\ \A j \in 1..Len(b) + 1 - q : Rest(b, q)[j] = b[q + j - 1]
    BY RestProperties
  <2>. QED  BY <1>1, <1>2, <2>1, Zenon
<1>4. /\ Rest(buf, i + k - 1) \in Seq(X)
      /\ Len(Rest(buf, i + k - 1)) = Len(buf) + 1 - (i + k - 1)
      /\ \A j \in 1..Len(buf) + 1 - (i + k - 1) :
            Rest(buf, i + k - 1)[j] = buf[(i + k - 1) + j - 1]
  BY <1>2, RestProperties
<1>5. Len(Rest(r, k)) = Len(Rest(buf, i + k - 1))
  BY <1>1, <1>3, <1>4
<1>6. ASSUME NEW j \in 1..Len(Rest(r, k)) PROVE Rest(r, k)[j] = Rest(buf, i + k - 1)[j]
  <2>1. j \in 1..Len(r) + 1 - k /\ j \in 1..Len(buf) + 1 - (i + k - 1)
        /\ k + j - 1 \in 1..Len(buf) + 1 - i
    BY <1>1, <1>2, <1>3, <1>4, <1>5
  <2>2. Rest(r, k)[j] = r[k + j - 1] /\ r[k + j - 1] = buf[i + (k + j - 1) - 1]
    BY <1>1, <1>3, <2>1
  <2>3. Rest(buf, i + k - 1)[j] = buf[(i + k - 1) + j - 1]
    BY <1>4, <2>1
  <2>4. i + (k + j - 1) - 1 = (i + k - 1) + j - 1
    BY <2>1
  <2>. QED  BY <2>2, <2>3, <2>4
<1>. QED  BY <1>3, <1>4, <1>5, <1>6, SeqEqual DEF r

\* A prefix, position by position.
LEMMA PrefixPointwise ==
    ASSUME NEW X, NEW s \in Seq(X), NEW t \in Seq(X)
    PROVE  IsPrefix(s, t) <=> /\ Len(s) <= Len(t)
                              /\ \A k \in 1..Len(s) : s[k] = t[k]
<1>1. SubSeq(s, 1, Len(s)) = s
  BY SubSeqFull
<1>2. ASSUME Len(s) <= Len(t)
      PROVE  SubSeq(t, 1, Len(s)) = s <=> \A k \in 1..Len(s) : s[k] = t[k]
  <2>1. \A k \in 1..Len(s) : t[k] \in X
    BY <1>2, ElementOfSeq
  <2>2. /\ SubSeq(t, 1, Len(s)) \in Seq(X)
        /\ Len(SubSeq(t, 1, Len(s))) = IF 1 <= Len(s) THEN Len(s) - 1 + 1 ELSE 0
        /\ \A k \in 1..Len(s) - 1 + 1 : SubSeq(t, 1, Len(s))[k] = t[1 + k - 1]
    BY <2>1, SubSeqProperties
  <2>3. /\ Len(SubSeq(t, 1, Len(s))) = Len(s)
        /\ \A k \in 1..Len(s) : SubSeq(t, 1, Len(s))[k] = t[k]
    BY <2>2
  <2>. QED  BY <2>2, <2>3, SeqEqual
<1>. QED  BY <1>1, <1>2 DEF IsPrefix

\* A match ends within the rest.
LEMMA MatchWithin ==
    ASSUME NEW S, NEW rest, Len(rest) \in Nat, \A s \in S : Len(s) \in Nat
    PROVE  match_at(S, rest) \in 0..Len(rest)
<1>. DEFINE lengths == {Len(s) : s \in {t \in S : IsPrefix(t, rest)}}
<1>1. CASE lengths = {}
  BY <1>1 DEF match_at
<1>2. CASE lengths # {}
  <2>. DEFINE T == {Len(rest) - l : l \in lengths}
  <2>1. lengths \subseteq 0..Len(rest)
    BY DEF IsPrefix
  <2>. HIDE DEF lengths
  <2>2. T \subseteq Nat /\ T # {}
    <3>1. \A l \in lengths : Len(rest) - l \in Nat
      BY <2>1
    <3>2. T \subseteq Nat
      BY <3>1
    <3>. QED  BY <1>2, <3>2
  <2>3. PICK n \in T : \A m \in T : n <= m
    <3>. HIDE DEF T
    <3>. QED  BY <2>2, LeastNatural
  <2>4. PICK l \in lengths : n = Len(rest) - l
    OBVIOUS
  <2>5. ASSUME NEW y \in lengths PROVE l >= y
    <3>1. n <= Len(rest) - y
      BY <2>3
    <3>. QED  BY <3>1, <2>4, <2>1
  <2>6. Max(lengths) \in lengths
    BY <2>5 DEF Max
  <2>7. match_at(S, rest) = Max(lengths)
    BY <1>2 DEF match_at, lengths
  <2>. QED  BY <2>1, <2>6, <2>7
<1>. QED  BY <1>1, <1>2

\* A round of the scan consumes at least a byte, and no more than there are.
LEMMA TookWithin ==
    ASSUME NEW X, NEW S, S \subseteq Seq(X), NEW rest \in Seq(X), rest # <<>>
    PROVE  Took(S, rest) \in 1..Len(rest)
<1>1. \A s \in S : Len(s) \in Nat
  OBVIOUS
<1>2. match_at(S, rest) \in 0..Len(rest)
  BY <1>1, MatchWithin
<1>3. Len(rest) \in Nat /\ Len(rest) # 0
  OBVIOUS
<1>. QED  BY <1>2, <1>3 DEF Took

-----------------------------------------------------------------------------
(* scan is the recursion it is written as. *)

\* One round of the scan at position i, given what the later ones yield.
Round(S, buf, eof, f, i) ==
    IF Stops(S, Rest(buf, i), eof) THEN [out |-> <<>>, carry |-> Rest(buf, i)]
    ELSE [out |-> <<Emits(S, Rest(buf, i))>> \o f[i + Took(S, Rest(buf, i))].out,
          carry |-> f[i + Took(S, Rest(buf, i))].carry]

\* f is what the scan of buf yields from every position.
Scans(S, buf, eof, f) ==
    f = [i \in 1..Len(buf) + 1 |-> Round(S, buf, eof, f, i)]

\* A round looks at later positions only.
LEMMA RoundLooksAhead ==
    ASSUME NEW X, NEW S, S \subseteq Seq(X), NEW buf \in Seq(X), NEW eof,
           NEW i \in 1..Len(buf) + 1, NEW f, NEW g,
           \A j \in i + 1..Len(buf) + 1 : f[j] = g[j]
    PROVE  Round(S, buf, eof, f, i) = Round(S, buf, eof, g, i)
<1>. DEFINE r == Rest(buf, i)
<1>1. r \in Seq(X) /\ Len(r) = Len(buf) + 1 - i
  BY RestProperties
<1>. HIDE DEF r
<1>2. CASE Stops(S, r, eof)
  BY <1>2 DEF Round, r
<1>3. CASE ~Stops(S, r, eof)
  <2>1. r # <<>>
    BY <1>3 DEF Stops
  <2>2. Took(S, r) \in 1..Len(r)
    BY <1>1, <2>1, TookWithin
  <2>3. i + Took(S, r) \in i + 1..Len(buf) + 1
    BY <1>1, <2>2
  <2>4. f[i + Took(S, r)] = g[i + Took(S, r)]
    BY <2>3
  <2>. QED  BY <2>4 DEF Round, r
<1>. QED  BY <1>2, <1>3

\* A table of the scan's results exists: it is filled from the end of buf.
LEMMA ScansExists ==
    ASSUME NEW X, NEW S, S \subseteq Seq(X), NEW buf \in Seq(X), NEW eof
    PROVE  \E f : Scans(S, buf, eof, f)
<1>. DEFINE n == Len(buf)
            Above(k) == n + 1 - k..n + 1
            Upto(k, f) == f = [i \in Above(k) |-> Round(S, buf, eof, f, i)]
            T == {k \in 0..n : ~\E f : Upto(k, f)}
<1>1. n \in Nat
  OBVIOUS
<1>. HIDE DEF n
<1>2. T = {}
  <2>1. SUFFICES ASSUME T # {} PROVE FALSE
    OBVIOUS
  <2>2. PICK k \in T : \A m \in T : k <= m
    <3>1. T \subseteq Nat
      BY <1>1
    <3>. HIDE DEF T
    <3>. QED  BY <3>1, <2>1, LeastNatural
  <2>3. k \in 0..n
    OBVIOUS
  <2>4. CASE k = 0
    <3>. DEFINE g == [i \in Above(0) |-> [out |-> <<>>, carry |-> Rest(buf, i)]]
    <3>1. ASSUME NEW i \in Above(0) PROVE Round(S, buf, eof, g, i) = g[i]
      <4>1. i = n + 1
        BY <1>1
      <4>2. Rest(buf, i) \in Seq(X) /\ Len(Rest(buf, i)) = n + 1 - i
        BY <1>1, <4>1, RestProperties DEF n
      <4>3. Rest(buf, i) = <<>>
        BY <4>1, <4>2, <1>1
      <4>4. Stops(S, Rest(buf, i), eof)
        BY <4>3 DEF Stops
      <4>. QED  BY <4>4 DEF Round
    <3>2. g = [i \in Above(0) |-> g[i]]
      OBVIOUS
    <3>3. Upto(0, g)
      <4>. HIDE DEF g
      <4>. QED  BY <3>1, <3>2
    <3>. QED  BY <3>3, <2>4
  <2>5. CASE k > 0
    <3>1. k - 1 \in 0..n /\ ~(k <= k - 1)
      BY <1>1, <2>3, <2>5
    <3>2. k - 1 \notin T
      BY <3>1, <2>2
    <3>3. PICK f : Upto(k - 1, f)
      BY <3>1, <3>2
    <3>. DEFINE at == n + 1 - k
                g == [i \in Above(k) |-> IF i = at THEN Round(S, buf, eof, f, i) ELSE f[i]]
    <3>4. /\ at \in 1..n + 1
          /\ \A i \in Above(k) : i = at \/ (i \in Above(k - 1) /\ i # at)
          /\ \A i \in Above(k) : i \in 1..n + 1 /\ i + 1..n + 1 \subseteq Above(k - 1)
          /\ \A i \in Above(k - 1) : i # at /\ i \in Above(k)
      BY <1>1, <2>3, <2>5
    <3>5. \A i \in Above(k - 1) : g[i] = f[i]
      BY <3>4
    <3>6. ASSUME NEW i \in Above(k) PROVE g[i] = Round(S, buf, eof, g, i)
      <4>1. Round(S, buf, eof, f, i) = Round(S, buf, eof, g, i)
        <5>1. i \in 1..Len(buf) + 1
          BY <3>4 DEF n
        <5>2. \A j \in i + 1..Len(buf) + 1 : f[j] = g[j]
          BY <3>4, <3>5 DEF n
        <5>. HIDE DEF g
        <5>. QED  BY <5>1, <5>2, RoundLooksAhead
      <4>2. CASE i = at
        BY <4>1, <4>2
      <4>3. CASE i # at
        <5>1. i \in Above(k - 1)
          BY <4>3, <3>4
        <5>2. f[i] = Round(S, buf, eof, f, i)
          BY <5>1, <3>3
        <5>3. g[i] = f[i]
          BY <5>1, <3>5
        <5>. QED  BY <5>2, <5>3, <4>1
      <4>. QED  BY <4>2, <4>3
    <3>7. g = [i \in Above(k) |-> g[i]]
      OBVIOUS
    <3>8. Upto(k, g)
      <4>. HIDE DEF g
      <4>. QED  BY <3>6, <3>7
    <3>. QED  BY <3>8
  <2>. QED  BY <1>1, <2>3, <2>4, <2>5
<1>3. n \in 0..n /\ Above(n) = 1..n + 1
  BY <1>1
<1>4. PICK f : Upto(n, f)
  BY <1>2, <1>3
<1>. QED  BY <1>3, <1>4 DEF Scans, n

\* There is only one: the last position where two differ cannot be.
LEMMA ScansUnique ==
    ASSUME NEW X, NEW S, S \subseteq Seq(X), NEW buf \in Seq(X), NEW eof,
           NEW f, Scans(S, buf, eof, f), NEW g, Scans(S, buf, eof, g)
    PROVE  f = g
<1>. DEFINE n == Len(buf)
            T == {k \in 0..n : f[n + 1 - k] # g[n + 1 - k]}
<1>1. n \in Nat
  OBVIOUS
<1>2. \A i \in 1..n + 1 : /\ f[i] = Round(S, buf, eof, f, i)
                          /\ g[i] = Round(S, buf, eof, g, i)
  BY DEF Scans
<1>3. /\ f = [i \in 1..n + 1 |-> f[i]]
      /\ g = [i \in 1..n + 1 |-> g[i]]
  BY DEF Scans
<1>. HIDE DEF n
<1>4. T = {}
  <2>1. SUFFICES ASSUME T # {} PROVE FALSE
    OBVIOUS
  <2>2. PICK k \in T : \A m \in T : k <= m
    <3>1. T \subseteq Nat
      BY <1>1
    <3>. HIDE DEF T
    <3>. QED  BY <3>1, <2>1, LeastNatural
  <2>. DEFINE i == n + 1 - k
  <2>3. k \in 0..n /\ i \in 1..n + 1
    BY <1>1
  <2>4. ASSUME NEW j \in i + 1..n + 1 PROVE f[j] = g[j]
    <3>1. n + 1 - j \in 0..n /\ ~(k <= n + 1 - j) /\ n + 1 - (n + 1 - j) = j
      BY <1>1, <2>3
    <3>2. n + 1 - j \notin T
      BY <3>1, <2>2
    <3>. QED  BY <3>1, <3>2
  <2>5. Round(S, buf, eof, f, i) = Round(S, buf, eof, g, i)
    <3>. HIDE DEF i
    <3>. QED  BY <2>3, <2>4, RoundLooksAhead DEF n
  <2>6. f[i] = g[i]
    BY <1>2, <2>3, <2>5
  <2>. QED  BY <2>6
<1>5. ASSUME NEW i \in 1..n + 1 PROVE f[i] = g[i]
  <2>1. n + 1 - i \in 0..n /\ n + 1 - (n + 1 - i) = i
    BY <1>1
  <2>. QED  BY <1>4, <2>1
<1>. QED  BY <1>3, <1>5

\* `scan' reads the result off the first position of that table.
LEMMA ScanIsFirst ==
    ASSUME NEW X, NEW S, S \subseteq Seq(X), NEW buf \in Seq(X), NEW eof,
           NEW f, Scans(S, buf, eof, f)
    PROVE  scan(S, buf, eof) = f[1]
<1>. DEFINE from == CHOOSE g : Scans(S, buf, eof, g)
<1>1. Scans(S, buf, eof, from)
  OBVIOUS
<1>2. scan(S, buf, eof) = from[1]
  BY DEF scan, Scans, Round, Rest
<1>. HIDE DEF from
<1>3. from = f
  BY <1>1, ScansUnique
<1>. QED  BY <1>2, <1>3

\* The scan as the loop it is: nothing of a buffer that ends or is held back,
\* else one byte or one mask and the scan of what follows.
LEMMA ScanUnfolds ==
    ASSUME NEW X, NEW S, S \subseteq Seq(X), NEW buf \in Seq(X), NEW eof
    PROVE  scan(S, buf, eof) =
             IF Stops(S, buf, eof) THEN [out |-> <<>>, carry |-> buf]
             ELSE LET then == scan(S, Rest(buf, 1 + Took(S, buf)), eof)
                  IN  [out |-> <<Emits(S, buf)>> \o then.out, carry |-> then.carry]
<1>1. PICK f : Scans(S, buf, eof, f)
  BY ScansExists
<1>2. scan(S, buf, eof) = f[1]
  BY <1>1, ScanIsFirst
<1>3. Len(buf) \in Nat /\ 1 \in 1..Len(buf) + 1
  OBVIOUS
<1>4. \A i \in 1..Len(buf) + 1 : f[i] = Round(S, buf, eof, f, i)
  BY <1>1 DEF Scans
<1>5. Rest(buf, 1) = buf
  BY SubSeqFull DEF Rest
<1>6. CASE Stops(S, buf, eof)
  BY <1>2, <1>3, <1>4, <1>5, <1>6 DEF Round
<1>7. CASE ~Stops(S, buf, eof)
  <2>. DEFINE d == Took(S, buf)
              r == Rest(buf, 1 + d)
              g == [k \in 1..Len(r) + 1 |-> f[d + k]]
  <2>1. d \in 1..Len(buf)
    <3>1. buf # <<>>
      BY <1>7 DEF Stops
    <3>. QED  BY <3>1, TookWithin
  <2>. HIDE DEF d
  <2>2. 1 + d \in 1..Len(buf) + 1 /\ Len(buf) + 1 - (1 + d) = Len(buf) - d
    BY <1>3, <2>1
  <2>3. r \in Seq(X) /\ Len(r) = Len(buf) - d
    BY <2>2, RestProperties
  <2>4. ASSUME NEW k \in 1..Len(r) + 1
        PROVE  g[k] = Round(S, r, eof, g, k)
    <3>1. /\ d + k \in 1..Len(buf) + 1 /\ k \in 1..Len(buf) + 2 - (1 + d)
          /\ (1 + d) + k - 1 = d + k
      BY <1>3, <2>1, <2>3
    <3>2. Rest(r, k) = Rest(buf, d + k)
      BY <2>2, <3>1, RestOfRest
    <3>3. f[d + k] = Round(S, buf, eof, f, d + k)
      BY <1>4, <3>1
    <3>. DEFINE q == Rest(r, k)
    <3>4. q \in Seq(X) /\ Len(q) = Len(r) + 1 - k
      <4>. HIDE DEF r
      <4>. QED  BY <2>3, RestProperties
    <3>. HIDE DEF q
    <3>5. CASE Stops(S, q, eof)
      BY <3>2, <3>3, <3>5 DEF Round, q
    <3>6. CASE ~Stops(S, q, eof)
      <4>1. Took(S, q) \in 1..Len(q)
        <5>1. q # <<>>
          BY <3>6 DEF Stops
        <5>. QED  BY <3>4, <5>1, TookWithin
      <4>2. k + Took(S, q) \in 1..Len(r) + 1 /\ d + (k + Took(S, q)) = (d + k) + Took(S, q)
        <5>. HIDE DEF r
        <5>. QED  BY <2>1, <2>3, <3>4, <4>1
      <4>3. g[k + Took(S, q)] = f[(d + k) + Took(S, q)]
        BY <4>2
      <4>4. g[k] = f[d + k]
        OBVIOUS
      <4>. HIDE DEF g, r
      <4>. QED  BY <3>2, <3>3, <3>6, <4>3, <4>4 DEF Round, q
    <3>. QED  BY <3>5, <3>6
  <2>5. Scans(S, r, eof, g)
    <3>1. g = [k \in 1..Len(r) + 1 |-> g[k]]
      OBVIOUS
    <3>. HIDE DEF g
    <3>. QED  BY <2>4, <3>1 DEF Scans
  <2>6. scan(S, r, eof) = g[1]
    <3>. HIDE DEF g, r
    <3>. QED  BY <2>3, <2>5, ScanIsFirst
  <2>7. g[1] = f[1 + d]
    <3>1. 1 \in 1..Len(r) + 1 /\ d + 1 = 1 + d
      BY <2>1, <2>3
    <3>. QED  BY <3>1
  <2>8. f[1] = [out |-> <<Emits(S, buf)>> \o f[1 + d].out, carry |-> f[1 + d].carry]
    BY <1>3, <1>4, <1>5, <1>7 DEF Round, d
  <2>. HIDE DEF g
  <2>. QED  BY <1>2, <1>7, <2>6, <2>7, <2>8 DEF d
<1>. QED  BY <1>6, <1>7

-----------------------------------------------------------------------------
(* What the scan yields, and how it splits. *)

\* Every round leaves a shorter rest.
LEMMA RoundShortens ==
    ASSUME NEW X, NEW S, S \subseteq Seq(X), NEW buf \in Seq(X), buf # <<>>
    PROVE  /\ Took(S, buf) \in 1..Len(buf)
           /\ Rest(buf, 1 + Took(S, buf)) \in Seq(X)
           /\ Len(Rest(buf, 1 + Took(S, buf))) = Len(buf) - Took(S, buf)
<1>1. Took(S, buf) \in 1..Len(buf)
  BY TookWithin
<1>2. /\ 1 + Took(S, buf) \in 1..Len(buf) + 1
      /\ Len(buf) + 1 - (1 + Took(S, buf)) = Len(buf) - Took(S, buf)
  BY <1>1
<1>. QED  BY <1>1, <1>2, RestProperties

\* A round emits a byte of the stream or the mask.
LEMMA EmitsTyped ==
    ASSUME NEW X, NEW S, NEW buf \in Seq(X), buf # <<>>
    PROVE  <<Emits(S, buf)>> \in Seq(X \cup {DEFAULT_MASK})
<1>1. buf[1] \in X
  OBVIOUS
<1>2. Emits(S, buf) \in X \cup {DEFAULT_MASK}
  BY <1>1 DEF Emits
<1>. QED  BY <1>2

\* A set of sequences has a shortest one.
LEMMA ShortestSequence ==
    ASSUME NEW X, NEW A, A \subseteq Seq(X), A # {}
    PROVE  \E c \in A : \A d \in A : Len(c) <= Len(d)
<1>. DEFINE T == {Len(c) : c \in A}
<1>0. \A c \in A : Len(c) \in Nat
  OBVIOUS
<1>1. T \subseteq Nat /\ T # {}
  BY <1>0
<1>2. PICK n \in T : \A m \in T : n <= m
  <2>. HIDE DEF T
  <2>. QED  BY <1>1, LeastNatural
<1>. QED  BY <1>2

\* The two cases of ScanUnfolds.
LEMMA ScanStops ==
    ASSUME NEW X, NEW S, S \subseteq Seq(X), NEW buf \in Seq(X), NEW eof,
           Stops(S, buf, eof)
    PROVE  scan(S, buf, eof) = [out |-> <<>>, carry |-> buf]
  BY ScanUnfolds

\* Pieces grouped from the left or from the right.
Assoc(a, b, c) == (a \o b) \o c = a \o (b \o c)

\* They are the same either way.
LEMMA Grouping == \A X : \A a, b, c \in Seq(X) : Assoc(a, b, c)
  BY ConcatAssociative, Zenon DEF Assoc

\* A scan that emits e and goes on with r.
Goes(S, buf, eof, r, e) ==
    scan(S, buf, eof) = [out |-> e \o scan(S, r, eof).out, carry |-> scan(S, r, eof).carry]

\* A round that does not stop emits, and the scan goes on with the rest.
LEMMA ScanGoes ==
    ASSUME NEW X, NEW S, S \subseteq Seq(X), NEW buf \in Seq(X), NEW eof,
           ~Stops(S, buf, eof), NEW r, r = Rest(buf, 1 + Took(S, buf)),
           NEW e, e = <<Emits(S, buf)>>
    PROVE  Goes(S, buf, eof, r, e)
  BY ScanUnfolds, Zenon DEF Goes

\* What is emitted is made of bytes and masks, what is carried of bytes.
LEMMA ScanTyped ==
    ASSUME NEW X, NEW S, S \subseteq Seq(X), NEW buf \in Seq(X), NEW eof
    PROVE  scan(S, buf, eof) \in [out : Seq(X \cup {DEFAULT_MASK}), carry : Seq(X)]
<1>. DEFINE Y == X \cup {DEFAULT_MASK}
            Result == [out : Seq(Y), carry : Seq(X)]
            A == {b \in Seq(X) : scan(S, b, eof) \notin Result}
<1>1. A = {}
  <2>1. SUFFICES ASSUME A # {} PROVE FALSE
    OBVIOUS
  <2>2. PICK b \in A : \A c \in A : Len(b) <= Len(c)
    <3>1. A \subseteq Seq(X)
      OBVIOUS
    <3>. HIDE DEF A
    <3>. QED  BY <2>1, <3>1, ShortestSequence
  <2>3. b \in Seq(X) /\ scan(S, b, eof) \notin Result
    OBVIOUS
  <2>4. CASE Stops(S, b, eof)
    <3>1. scan(S, b, eof) = [out |-> <<>>, carry |-> b]
      BY <2>3, <2>4, ScanStops
    <3>. QED  BY <2>3, <3>1
  <2>5. CASE ~Stops(S, b, eof)
    <3>1. b # <<>>
      BY <2>5 DEF Stops
    <3>2. PICK r \in Seq(X), e \in Seq(Y) :
            /\ Len(r) < Len(b)
            /\ scan(S, b, eof) = [out |-> e \o scan(S, r, eof).out,
                                  carry |-> scan(S, r, eof).carry]
      <4>. DEFINE r == Rest(b, 1 + Took(S, b))
                  e == <<Emits(S, b)>>
      <4>1. /\ Took(S, b) \in 1..Len(b) /\ r \in Seq(X)
            /\ Len(r) = Len(b) - Took(S, b)
        BY <2>3, <3>1, RoundShortens
      <4>2. e \in Seq(Y)
        BY <2>3, <3>1, EmitsTyped
      <4>3. scan(S, b, eof) = [out |-> e \o scan(S, r, eof).out,
                               carry |-> scan(S, r, eof).carry]
        <5>1. r = Rest(b, 1 + Took(S, b)) /\ e = <<Emits(S, b)>>
          OBVIOUS
        <5>. HIDE DEF r, e
        <5>2. Goes(S, b, eof, r, e)
          BY <2>3, <2>5, <5>1, ScanGoes
        <5>. QED  BY <5>2, Zenon DEF Goes
      <4>4. Len(r) < Len(b)
        <5>. HIDE DEF r
        <5>. QED  BY <2>3, <4>1
      <4>. HIDE DEF r, e, Y
      <4>. QED  BY <4>1, <4>2, <4>3, <4>4
    <3>. HIDE DEF Y
    <3>3. scan(S, r, eof) \in Result
      BY <2>2, <2>3, <3>2
    <3>4. scan(S, r, eof).out \in Seq(Y) /\ scan(S, r, eof).carry \in Seq(X)
      BY <3>3
    <3>5. e \o scan(S, r, eof).out \in Seq(Y)
      BY <3>4
    <3>. QED  BY <2>3, <3>2, <3>4, <3>5
  <2>. QED  BY <2>4, <2>5
<1>. QED  BY <1>1

\* Where a is decided, it is decided alike whatever follows it.
LEMMA SameRound ==
    ASSUME NEW X, NEW S, S \subseteq Seq(X), NEW a \in Seq(X), NEW b \in Seq(X),
           NEW eof, ~Stops(S, a, FALSE)
    PROVE  /\ ~Stops(S, a \o b, eof)
           /\ Took(S, a \o b) = Took(S, a) /\ Emits(S, a \o b) = Emits(S, a)
<1>. DEFINE ab == a \o b
<1>1. /\ ab \in Seq(X) /\ Len(ab) = Len(a) + Len(b)
      /\ \A i \in 1..Len(a) : ab[i] = a[i]
  <2>1. /\ ab \in Seq(X) /\ Len(ab) = Len(a) + Len(b)
        /\ \A i \in 1..Len(a) + Len(b) :
             ab[i] = IF i <= Len(a) THEN a[i] ELSE b[i - Len(a)]
    BY ConcatProperties
  <2>. QED  BY <2>1
<1>. HIDE DEF ab
<1>2. a # <<>> /\ ~\E s \in S : IsStrictPrefix(a, s)
  BY DEF Stops, HoldsBack, is_secret_prefix
<1>3. Len(a) \in Nat \ {0} /\ Len(b) \in Nat
  BY <1>2
<1>4. ASSUME NEW s \in S, Len(s) > Len(a), \A k \in 1..Len(a) : a[k] = s[k]
      PROVE  FALSE
  <2>1. s \in Seq(X) /\ Len(a) <= Len(s) /\ a # s
    BY <1>4
  <2>2. IsPrefix(a, s)
    BY <1>4, <2>1, PrefixPointwise
  <2>. QED  BY <1>2, <2>1, <2>2 DEF IsStrictPrefix
<1>5. ASSUME NEW s \in S, IsStrictPrefix(ab, s) PROVE FALSE
  <2>0. s \in Seq(X) /\ IsPrefix(ab, s) /\ ab # s
    BY <1>5 DEF IsStrictPrefix
  <2>1. Len(ab) <= Len(s) /\ (\A k \in 1..Len(ab) : ab[k] = s[k])
    BY <1>1, <2>0, PrefixPointwise
  <2>2. Len(ab) # Len(s)
    BY <1>1, <2>0, <2>1, SeqEqual
  <2>3. Len(s) \in Nat
    BY <2>0
  <2>4. Len(s) > Len(a)
    BY <1>1, <1>3, <2>1, <2>2, <2>3
  <2>5. \A k \in 1..Len(a) : a[k] = s[k]
    BY <1>1, <1>3, <2>1
  <2>. QED  BY <1>4, <2>4, <2>5
<1>6. ASSUME NEW s \in S PROVE IsPrefix(s, ab) <=> IsPrefix(s, a)
  <2>0. s \in Seq(X) /\ Len(s) \in Nat
    OBVIOUS
  <2>1. IsPrefix(s, ab) <=> Len(s) <= Len(ab) /\ \A k \in 1..Len(s) : s[k] = ab[k]
    BY <1>1, <2>0, PrefixPointwise
  <2>2. IsPrefix(s, a) <=> Len(s) <= Len(a) /\ \A k \in 1..Len(s) : s[k] = a[k]
    BY <2>0, PrefixPointwise
  <2>3. CASE Len(s) <= Len(a)
    <3>1. Len(s) <= Len(ab) /\ \A k \in 1..Len(s) : ab[k] = a[k]
      BY <1>1, <1>3, <2>0, <2>3
    <3>. QED  BY <2>1, <2>2, <2>3, <3>1
  <2>4. CASE Len(s) > Len(a)
    <3>1. ~IsPrefix(s, a)
      BY <1>3, <2>0, <2>2, <2>4
    <3>2. ASSUME IsPrefix(s, ab) PROVE FALSE
      <4>1. \A k \in 1..Len(a) : a[k] = s[k]
        BY <1>1, <1>3, <2>0, <2>1, <2>4, <3>2
      <4>. QED  BY <1>4, <2>4, <4>1
    <3>. QED  BY <3>1, <3>2
  <2>. QED  BY <1>3, <2>0, <2>3, <2>4
<1>7. {t \in S : IsPrefix(t, ab)} = {t \in S : IsPrefix(t, a)}
  BY <1>6
<1>8. match_at(S, ab) = match_at(S, a)
  BY <1>7, Zenon DEF match_at
<1>9. ab[1] = a[1] /\ ab # <<>>
  BY <1>1, <1>3
<1>10. ~Stops(S, ab, eof)
  BY <1>5, <1>9 DEF Stops, HoldsBack, is_secret_prefix
<1>. QED  BY <1>8, <1>9, <1>10 DEF Took, Emits, ab

\* What follows a rest of a, follows it in a and b together.
LEMMA RestOfConcat ==
    ASSUME NEW X, NEW a \in Seq(X), NEW b \in Seq(X), NEW i \in 1..Len(a) + 1
    PROVE  Rest(a \o b, i) = Rest(a, i) \o b
<1>. DEFINE ab == a \o b
            r == Rest(a, i)
<1>1. /\ ab \in Seq(X) /\ Len(ab) = Len(a) + Len(b)
      /\ \A j \in 1..Len(a) + Len(b) :
           ab[j] = IF j <= Len(a) THEN a[j] ELSE b[j - Len(a)]
  BY ConcatProperties
<1>2. /\ r \in Seq(X) /\ Len(r) = Len(a) + 1 - i
      /\ \A j \in 1..Len(a) + 1 - i : r[j] = a[i + j - 1]
  BY RestProperties
<1>. HIDE DEF ab, r
<1>3. Len(a) \in Nat /\ Len(b) \in Nat /\ i \in 1..Len(ab) + 1
  BY <1>1
<1>4. /\ Rest(ab, i) \in Seq(X) /\ Len(Rest(ab, i)) = Len(ab) + 1 - i
      /\ \A j \in 1..Len(ab) + 1 - i : Rest(ab, i)[j] = ab[i + j - 1]
  <2>1. \A c \in Seq(X) : \A q \in 1..Len(c) + 1 :
           /\ Rest(c, q) \in Seq(X) /\ Len(Rest(c, q)) = Len(c) + 1 - q
           /\ \A j \in 1..Len(c) + 1 - q : Rest(c, q)[j] = c[q + j - 1]
    BY RestProperties
  <2>. QED  BY <1>1, <1>3, <2>1, Zenon
<1>5. /\ r \o b \in Seq(X) /\ Len(r \o b) = Len(r) + Len(b)
      /\ \A j \in 1..Len(r) + Len(b) :
           (r \o b)[j] = IF j <= Len(r) THEN r[j] ELSE b[j - Len(r)]
  BY <1>2, ConcatProperties
<1>6. Len(Rest(ab, i)) = Len(r \o b)
  BY <1>1, <1>2, <1>3, <1>4, <1>5
<1>7. ASSUME NEW j \in 1..Len(Rest(ab, i)) PROVE Rest(ab, i)[j] = (r \o b)[j]
  <2>1. j \in 1..Len(ab) + 1 - i /\ i + j - 1 \in 1..Len(a) + Len(b)
        /\ j \in 1..Len(r) + Len(b)
    BY <1>1, <1>2, <1>3, <1>4, <1>5, <1>6
  <2>2. Rest(ab, i)[j] = ab[i + j - 1]
    BY <1>4, <2>1
  <2>3. CASE j <= Len(r)
    <3>1. j \in 1..Len(a) + 1 - i /\ i + j - 1 <= Len(a)
      BY <1>2, <1>3, <2>1, <2>3
    <3>2. ab[i + j - 1] = a[i + j - 1] /\ (r \o b)[j] = r[j] /\ r[j] = a[i + j - 1]
      BY <1>1, <1>2, <1>5, <2>1, <2>3, <3>1
    <3>. QED  BY <2>2, <3>2
  <2>4. CASE ~(j <= Len(r))
    <3>1. ~(i + j - 1 <= Len(a)) /\ i + j - 1 - Len(a) = j - Len(r)
      BY <1>2, <1>3, <2>1, <2>4
    <3>2. ab[i + j - 1] = b[i + j - 1 - Len(a)]
      BY <1>1, <2>1, <3>1
    <3>3. (r \o b)[j] = b[j - Len(r)]
      BY <1>5, <2>1, <2>4
    <3>. QED  BY <2>2, <3>1, <3>2, <3>3
  <2>. QED  BY <2>3, <2>4
<1>. QED  BY <1>4, <1>5, <1>6, <1>7, SeqEqual DEF ab, r

\* A read may split the stream anywhere: scanning a, and then its carry with b,
\* is scanning the two together.
SplitsAt(S, a, b, eof) ==
    LET r == scan(S, a, FALSE)
        then == scan(S, r.carry \o b, eof)
    IN  /\ scan(S, a \o b, eof).out = r.out \o then.out
        /\ scan(S, a \o b, eof).carry = then.carry

\* The scan splits everywhere.
LEMMA ScanSplits ==
    ASSUME NEW X, NEW S, S \subseteq Seq(X), NEW a \in Seq(X), NEW b \in Seq(X), NEW eof
    PROVE  SplitsAt(S, a, b, eof)
<1>. DEFINE Y == X \cup {DEFAULT_MASK}
            Result == [out : Seq(Y), carry : Seq(X)]
            R(c) == scan(S, c, FALSE)
            W(c) == scan(S, c \o b, eof)
            N(c) == W(R(c).carry)
            Splits(c) == W(c).out = R(c).out \o N(c).out /\ W(c).carry = N(c).carry
            A == {c \in Seq(X) : ~Splits(c)}
<1>1. ASSUME NEW c \in Seq(X) PROVE R(c) \in Result
  BY ScanTyped
<1>2. ASSUME NEW c \in Seq(X) PROVE W(c) \in Result
  <2>1. c \o b \in Seq(X)
    OBVIOUS
  <2>. QED  BY <2>1, ScanTyped
<1>3. \A c \in Seq(X) : Stops(S, c, FALSE) => R(c) = [out |-> <<>>, carry |-> c]
  BY ScanStops
<1>4. ASSUME NEW c \in Seq(X), ~Stops(S, c, FALSE)
      PROVE  \E q \in Seq(X), e \in Seq(Y) :
               /\ Len(q) < Len(c)
               /\ R(c) = [out |-> e \o R(q).out, carry |-> R(q).carry]
               /\ W(c) = [out |-> e \o W(q).out, carry |-> W(q).carry]
  <2>. DEFINE d == Took(S, c)
              q == Rest(c, 1 + d)
              e == <<Emits(S, c)>>
  <2>1. c # <<>>
    BY <1>4 DEF Stops
  <2>2. d \in 1..Len(c) /\ q \in Seq(X) /\ Len(q) = Len(c) - d
    BY <2>1, RoundShortens
  <2>3. e \in Seq(Y)
    BY <2>1, EmitsTyped
  <2>4. R(c) = [out |-> e \o R(q).out, carry |-> R(q).carry]
    <3>1. Goes(S, c, FALSE, q, e)
      BY <1>4, ScanGoes
    <3>. HIDE DEF q, e
    <3>. QED  BY <3>1, Zenon DEF Goes
  <2>5. /\ ~Stops(S, c \o b, eof)
        /\ Took(S, c \o b) = d /\ Emits(S, c \o b) = Emits(S, c)
    BY <1>4, SameRound
  <2>6. c \o b \in Seq(X)
    OBVIOUS
  <2>7. Rest(c \o b, 1 + d) = q \o b
    <3>1. 1 + d \in 1..Len(c) + 1
      BY <2>2
    <3>. HIDE DEF d
    <3>. QED  BY <3>1, RestOfConcat
  <2>8. W(c) = [out |-> e \o W(q).out, carry |-> W(q).carry]
    <3>1. q \o b = Rest(c \o b, 1 + Took(S, c \o b)) /\ e = <<Emits(S, c \o b)>>
      BY <2>5, <2>7, Zenon
    <3>. HIDE DEF q, e
    <3>2. Goes(S, c \o b, eof, q \o b, e)
      BY <2>5, <2>6, <3>1, ScanGoes
    <3>. QED  BY <3>2, Zenon DEF Goes
  <2>9. Len(q) < Len(c)
    <3>. HIDE DEF q, d
    <3>. QED  BY <2>2
  <2>. HIDE DEF q, e, d, R, W, Y
  <2>. QED  BY <2>2, <2>3, <2>4, <2>8, <2>9
<1>. HIDE DEF R, W, Y
<1>5. A = {}
  <2>1. SUFFICES ASSUME A # {} PROVE FALSE
    OBVIOUS
  <2>2. PICK c \in A : \A d \in A : Len(c) <= Len(d)
    <3>1. A \subseteq Seq(X)
      OBVIOUS
    <3>. HIDE DEF A
    <3>. QED  BY <2>1, <3>1, ShortestSequence
  <2>3. c \in Seq(X) /\ ~Splits(c)
    OBVIOUS
  <2>4. CASE Stops(S, c, FALSE)
    <3>0. R(c) = [out |-> <<>>, carry |-> c]
      BY <1>3, <2>3, <2>4, Zenon
    <3>1. R(c).out = <<>> /\ R(c).carry = c
      BY <3>0
    <3>2. W(c).out \in Seq(Y)
      BY <1>2, <2>3
    <3>3. <<>> \o W(c).out = W(c).out
      BY <3>2
    <3>. QED  BY <2>3, <3>1, <3>3
  <2>5. CASE ~Stops(S, c, FALSE)
    <3>1. PICK q \in Seq(X), e \in Seq(Y) :
               /\ Len(q) < Len(c)
               /\ R(c) = [out |-> e \o R(q).out, carry |-> R(q).carry]
               /\ W(c) = [out |-> e \o W(q).out, carry |-> W(q).carry]
      BY <1>4, <2>3, <2>5
    <3>2. Splits(q)
      <4>1. ~(Len(c) <= Len(q))
        BY <2>3, <3>1
      <4>2. q \notin A
        <5>. HIDE DEF A
        <5>. QED  BY <2>2, <4>1
      <4>. HIDE DEF Splits
      <4>. QED  BY <4>2
    <3>3. R(q).out \in Seq(Y) /\ R(q).carry \in Seq(X)
      BY <1>1
    <3>4. N(q).out \in Seq(Y)
      BY <1>2, <3>3
    <3>5. N(c) = N(q) /\ R(c).out = e \o R(q).out
      <4>. DEFINE o == e \o R(q).out
                  k == R(q).carry
      <4>1. R(c) = [out |-> o, carry |-> k]
        BY <3>1
      <4>. HIDE DEF o, k, R
      <4>2. R(c).out = o /\ R(c).carry = k
        BY <4>1
      <4>. HIDE DEF W
      <4>. QED  BY <4>2 DEF o, k
    <3>6. (e \o R(q).out) \o N(q).out = e \o (R(q).out \o N(q).out)
      <4>. DEFINE x == R(q).out
                  y == N(q).out
      <4>1. x \in Seq(Y) /\ y \in Seq(Y)
        BY <3>3, <3>4
      <4>. HIDE DEF x, y
      <4>2. (e \o x) \o y = e \o (x \o y)
        <5>1. Assoc(e, x, y)
          BY <4>1, Grouping
        <5>. QED  BY <5>1 DEF Assoc
      <4>. QED  BY <4>2 DEF x, y
    <3>7. W(c).out = e \o W(q).out /\ W(c).carry = W(q).carry
      <4>. DEFINE o == e \o W(q).out
                  k == W(q).carry
      <4>1. W(c) = [out |-> o, carry |-> k]
        BY <3>1
      <4>. HIDE DEF o, k, W
      <4>2. W(c).out = o /\ W(c).carry = k
        BY <4>1
      <4>. QED  BY <4>2 DEF o, k
    <3>. HIDE DEF N
    <3>. QED  BY <2>3, <3>2, <3>5, <3>6, <3>7
  <2>. QED  BY <2>4, <2>5
<1>6. a \in Seq(X) /\ a \notin A
  BY <1>5
<1>7. Splits(a)
  <2>. HIDE DEF Splits
  <2>. QED  BY <1>6
<1>. QED  BY <1>7, Zenon DEF R, W, SplitsAt

\* What Masker shows in the end is made of bytes and masks.
LEMMA MaskedTyped ==
    ASSUME NEW X, NEW S, S \subseteq Seq(X), NEW a \in Seq(X)
    PROVE  Masked(S, a) \in Seq(X \cup {DEFAULT_MASK})
<1>1. a \in Seq(X \cup {DEFAULT_MASK})
  BY SeqMonotonic
<1>2. scan(S, a, TRUE) \in [out : Seq(X \cup {DEFAULT_MASK}), carry : Seq(X)]
  BY ScanTyped
<1>. QED  BY <1>1, <1>2 DEF Masked

\* What is shown of one read, and then of its carry with b, is what would be
\* shown of everything at once.
Continues(S, after, bytes, b) ==
    after.out \o Masked(S, after.carry \o b) = Masked(S, bytes \o b)

\* One read may end anywhere.
LEMMA PushSplits ==
    ASSUME NEW X, NEW S, S \subseteq Seq(X), NEW c \in Seq(X), S = {} => c = <<>>,
           NEW chunk \in Seq(X), NEW after, after = push(S, c, chunk)
    PROVE  /\ after.out \in Seq(X \cup {DEFAULT_MASK}) /\ after.carry \in Seq(X)
           /\ S = {} => after.carry = <<>>
           /\ \A b \in Seq(X) : Continues(S, after, c \o chunk, b)
<1>1. CASE S = {}
  <2>1. after.out = chunk /\ after.carry = <<>> /\ c = <<>>
    BY <1>1 DEF push
  <2>2. chunk \in Seq(X \cup {DEFAULT_MASK})
    BY SeqMonotonic
  <2>3. ASSUME NEW b \in Seq(X)
        PROVE  <<>> \o b = b /\ <<>> \o chunk = chunk
    OBVIOUS
  <2>. QED  BY <1>1, <2>1, <2>2, <2>3 DEF Masked, Continues
<1>2. CASE S # {}
  <2>1. after = scan(S, c \o chunk, FALSE)
    BY <1>2 DEF push
  <2>2. c \o chunk \in Seq(X)
    OBVIOUS
  <2>3. after \in [out : Seq(X \cup {DEFAULT_MASK}), carry : Seq(X)]
    BY <2>1, <2>2, ScanTyped
  <2>4. ASSUME NEW b \in Seq(X)
        PROVE  scan(S, (c \o chunk) \o b, TRUE).out
               = after.out \o scan(S, after.carry \o b, TRUE).out
    <3>. DEFINE all == c \o chunk
    <3>. HIDE DEF all
    <3>1. all \in Seq(X) /\ after = scan(S, all, FALSE)
      BY <2>1, <2>2 DEF all
    <3>2. SplitsAt(S, all, b, TRUE)
      BY <3>1, ScanSplits
    <3>3. scan(S, all \o b, TRUE).out = after.out \o scan(S, after.carry \o b, TRUE).out
      BY <3>1, <3>2, Zenon DEF SplitsAt
    <3>. QED  BY <3>3 DEF all
  <2>. QED  BY <1>2, <2>3, <2>4 DEF Masked, Continues
<1>. QED  BY <1>1, <1>2

\* The end of the stream shows what is carried.
LEMMA FinishIsMasked ==
    ASSUME NEW S, NEW c, S = {} => c = <<>>
    PROVE  finish(S, c) = Masked(S, c)
  BY DEF finish, Masked

-----------------------------------------------------------------------------
(* The output of the command. *)

\* What is shown of a stream: bytes and masks.
Shown == Byte \cup {DEFAULT_MASK}

\* While a stream is read, whatever may still be printed comes out as if the
\* whole were masked in one piece; a finished stream has come out so, and
\* nobody can add to it.
Whole(s) ==
    /\ pump[s] = "reading" =>
         \A x \in Seq(Byte) :
             shown[s] \o Masked(masks, (carry[s] \o pipe[s]) \o x)
             = Masked(masks, wrote[s] \o x)
    /\ pump[s] = "done" => shown[s] = Masked(masks, wrote[s]) /\ ~HasWriter(s)

\* The types of the streams.
StreamInv ==
    /\ masks \in SUBSET Seq(Byte)
    /\ wrote \in [Streams -> Seq(Byte)] /\ pipe \in [Streams -> Seq(Byte)]
    /\ carry \in [Streams -> Seq(Byte)] /\ shown \in [Streams -> Seq(Shown)]
    /\ pump \in [Streams -> {"none", "reading", "done", "cut"}]

\* Nothing is printed before there is a command, without masks nothing is
\* carried, and secreq returns with its threads joined, unless it left them to
\* a guardian.
OutInv ==
    /\ StreamInv
    /\ masks = {} => \A s \in Streams : carry[s] = <<>>
    /\ pc \in Preparing =>
         \A s \in Streams : /\ pump[s] = "none"
                            /\ wrote[s] = <<>> /\ pipe[s] = <<>>
                            /\ carry[s] = <<>> /\ shown[s] = <<>>
    /\ \A s \in Streams \ drained : Whole(s)
    /\ pc = "guarding" => guardian # "none"
    /\ pc = "returned" /\ guardian = "none" =>
         \A s \in Streams : pump[s] = "done"

\* The values a command is masked with are sequences of bytes.
LEMMA PrepareMasks ==
    ASSUME Prepare, EnvInv, masks \in SUBSET Seq(Byte)
    PROVE  masks' \in SUBSET Seq(Byte)
<1>1. CASE load_config_or_default \/ read
  BY <1>1 DEF load_config_or_default, read, Fail, AskFor, NoExec
<1>2. CASE wrap_run
  BY <1>2 DEF wrap_run, Fail, AskFor, NoExec, passthrough_unwrapped
<1>3. CASE run
  BY <1>3 DEF run, Fail, AskFor, NoExec, Exec, Redacted
<1>4. CASE Prompted \/ \E n \in Names : prompt_and_store_unresolved(n)
  BY <1>4 DEF Prompted, prompt_and_store_unresolved, NoExec
<1>5. CASE AssumeYes \/ request_consent \/ render_read_json
  BY <1>5 DEF AssumeYes, request_consent, render_read_json, NoExec
<1>6. CASE resolve_all
  BY <1>6 DEF resolve_all, NoExec
<1>7. CASE InjectRun \/ InjectWrap
  <2>1. pc = "inject"
    BY <1>7 DEF InjectRun, InjectWrap
  <2>2. ToMask \subseteq Seq(Byte)
    BY <2>1 DEF ToMask, EnvInv
  <2>. QED  BY <1>7, <2>2 DEF InjectRun, InjectWrap, Fail, NoExec, Exec, Redacted
<1>. QED  BY <1>1, <1>2, <1>3, <1>4, <1>5, <1>6, <1>7 DEF Prepare

\* Preparing prints nothing; the command starts with empty streams.
LEMMA OutPrepare ==
    ASSUME OutInv, EnvInv, ScopeInv, Prepare
    PROVE  OutInv'
<1>. USE DEF procVars, ioVars
<1>1. pc \in Preparing /\ sc' = sc /\ Streams' = Streams
  BY PrepareEffect DEF Streams
<1>2. masks' \in SUBSET Seq(Byte)
  BY PrepareMasks DEF OutInv, StreamInv
<1>3. UNCHANGED <<wrote, pipe, carry, shown, drained>>
  BY PrepareEffect DEF Spawns, NoExec
<1>4. \A s \in Streams : wrote[s] = <<>> /\ pipe[s] = <<>> /\ carry[s] = <<>>
                         /\ shown[s] = <<>> /\ pump[s] = "none"
  BY <1>1 DEF OutInv
<1>5. CASE Spawns
  <2>1. pump' = [s \in Streams |-> "reading"] /\ pc' = "wait"
    BY <1>5 DEF Spawns
  <2>2. StreamInv'
    BY <1>1, <1>2, <1>3, <2>1 DEF OutInv, StreamInv
  <2>3. ASSUME NEW s \in Streams, NEW x \in Seq(Byte)
        PROVE  <<>> \o Masked(masks', (<<>> \o <<>>) \o x) = Masked(masks', <<>> \o x)
    <3>1. <<>> \o <<>> = <<>> /\ <<>> \o x = x
      OBVIOUS
    <3>2. Masked(masks', x) \in Seq(Shown)
      BY <1>2, MaskedTyped DEF Shown
    <3>3. <<>> \o Masked(masks', x) = Masked(masks', x)
      BY <3>2
    <3>. QED  BY <3>1, <3>3
  <2>4. ASSUME NEW s \in Streams PROVE Whole(s)'
    BY <1>3, <1>4, <2>1, <2>3 DEF Whole
  <2>. QED  BY <1>1, <1>3, <1>4, <2>1, <2>2, <2>4 DEF OutInv, Preparing
<1>6. CASE ~Spawns
  <2>1. pump' = pump /\ pc' \notin {"guarding", "returned"}
    BY <1>1, <1>6, PrepareEffect DEF NoExec, Preparing, Stopped
  <2>2. StreamInv'
    BY <1>1, <1>2, <1>3, <2>1 DEF OutInv, StreamInv
  <2>3. ASSUME NEW s \in Streams PROVE Whole(s)'
    BY <1>4, <2>1 DEF Whole
  <2>. QED  BY <1>1, <1>3, <1>4, <2>1, <2>2, <2>3 DEF OutInv
<1>. QED  BY <1>5, <1>6

\* Somebody holds the write end of the streams.
Writing == child = "running" \/ supervisor = "running" \/ bg \in {"in", "out"}

\* Steps that leave the streams alone: threads may be cut, writers may go.
LEMMA OutKept ==
    ASSUME OutInv, UNCHANGED <<sc, masks, wrote, pipe, carry, shown, drained>>,
           \/ pump' = pump
           \/ pump' = [s \in Streams |-> IF pump[s] = "reading" THEN "cut" ELSE pump[s]],
           Writing' => Writing,
           pc' \in Preparing => pc \in Preparing /\ pump' = pump,
           pc' = "guarding" => guardian' # "none",
           pc' = "returned" /\ guardian' = "none" =>
               \A s \in Streams : pump[s] = "done"
    PROVE  OutInv'
<1>1. Streams' = Streams
  BY DEF Streams
<1>2. StreamInv'
  BY <1>1 DEF OutInv, StreamInv
<1>3. \A s \in Streams : \/ pump'[s] = pump[s]
                         \/ pump[s] = "reading" /\ pump'[s] = "cut"
  BY DEF OutInv, StreamInv
<1>4. ASSUME NEW s \in Streams \ drained PROVE Whole(s)'
  <2>1. Whole(s)
    BY DEF OutInv
  <2>2. HasWriter(s)' => HasWriter(s)
    BY DEF HasWriter, Writing
  <2>. QED  BY <1>3, <2>1, <2>2 DEF Whole
<1>. QED  BY <1>1, <1>2, <1>3, <1>4 DEF OutInv

\* Pieces grouped in two ways.
SameGrouping(a, b, c, d) ==
    /\ (a \o (b \o c)) \o d = (a \o b) \o (c \o d)
    /\ (a \o b) \o c = a \o (b \o c)

\* Concatenation does not mind the grouping.
LEMMA Regroup ==
    ASSUME NEW X, NEW a \in Seq(X), NEW b \in Seq(X), NEW c \in Seq(X), NEW d \in Seq(X)
    PROVE  SameGrouping(a, b, c, d)
<1>. DEFINE ab == a \o b
<1>1. Assoc(a, b, c)
  BY Grouping
<1>2. ab \in Seq(X)
  OBVIOUS
<1>. HIDE DEF ab
<1>3. Assoc(ab, c, d)
  BY <1>2, Grouping
<1>. QED  BY <1>1, <1>3, Zenon DEF ab, Assoc, SameGrouping

\* Somebody prints a byte; a terminal may turn it into two.
LEMMA OutEmit ==
    ASSUME OutInv, pc \notin Preparing, NEW s \in Streams, NEW b \in Bytes,
           Emit(s, b), HasWriter(s), UNCHANGED <<sc, masks, pc, procVars>>
    PROVE  OutInv'
<1>. USE DEF procVars
<1>. DEFINE e == Cooked(b)
<1>1. Streams' = Streams
  BY DEF Streams
<1>2. /\ wrote' = [wrote EXCEPT ![s] = @ \o e]
      /\ pipe' = [pipe EXCEPT ![s] = @ \o e]
      /\ UNCHANGED <<carry, shown, pump, drained>>
  BY Zenon DEF Emit, e
<1>3. /\ wrote[s] \in Seq(Byte) /\ pipe[s] \in Seq(Byte) /\ carry[s] \in Seq(Byte)
  BY DEF OutInv, StreamInv
<1>0. e \in Seq(Byte)
  BY CommandAssumption DEF Cooked, Byte
<1>. HIDE DEF e
<1>4. wrote[s] \o e \in Seq(Byte) /\ pipe[s] \o e \in Seq(Byte)
  BY <1>3, <1>0
<1>5. /\ wrote'[s] = wrote[s] \o e /\ pipe'[s] = pipe[s] \o e
      /\ \A q \in Streams \ {s} : wrote'[q] = wrote[q] /\ pipe'[q] = pipe[q]
      /\ wrote' \in [Streams -> Seq(Byte)] /\ pipe' \in [Streams -> Seq(Byte)]
  BY <1>2, <1>4 DEF OutInv, StreamInv
<1>6. StreamInv'
  BY <1>1, <1>2, <1>5 DEF OutInv, StreamInv
<1>7. ASSUME NEW q \in Streams \ drained PROVE Whole(q)'
  <2>1. Whole(q) /\ HasWriter(q)' = HasWriter(q)
    BY DEF OutInv, HasWriter
  <2>2. CASE q # s
    BY <1>2, <1>5, <2>1, <2>2 DEF Whole
  <2>3. CASE q = s
    <3>1. pump[s] # "done"
      BY <2>1, <2>3 DEF Whole
    <3>2. ASSUME pump[s] = "reading", NEW x \in Seq(Byte)
          PROVE  shown[s] \o Masked(masks, (carry[s] \o (pipe[s] \o e)) \o x)
                 = Masked(masks, (wrote[s] \o e) \o x)
      <4>. DEFINE w == wrote[s]
                  p == pipe[s]
                  c == carry[s]
                  y == e \o x
      <4>2. w \in Seq(Byte) /\ p \in Seq(Byte) /\ c \in Seq(Byte)
        BY <1>3
      <4>4. shown[s] \o Masked(masks, (c \o p) \o y) = Masked(masks, w \o y)
        <5>1. y \in Seq(Byte)
          BY <1>0
        <5>. HIDE DEF y
        <5>. QED  BY <2>1, <2>3, <3>2, <5>1 DEF Whole
      <4>. HIDE DEF w, p, c
      <4>5. (w \o e) \o x = w \o y
        <5>1. Assoc(w, e, x)
          BY <1>0, <4>2, Grouping
        <5>. QED  BY <5>1, Zenon DEF Assoc
      <4>6. (c \o (p \o e)) \o x = (c \o p) \o y
        <5>1. SameGrouping(c, p, e, x)
          BY <1>0, <4>2, Regroup
        <5>. QED  BY <5>1, Zenon DEF SameGrouping
      <4>. QED  BY <4>4, <4>5, <4>6 DEF w, p, c
    <3>. QED  BY <1>2, <1>5, <2>3, <3>1, <3>2 DEF Whole
  <2>. QED  BY <2>2, <2>3
<1>8. /\ masks = {} => \A q \in Streams : carry[q] = <<>>
      /\ pc = "guarding" => guardian # "none"
      /\ pc = "returned" /\ guardian = "none" =>
           \A q \in Streams : pump[q] = "done"
  BY DEF OutInv
<1>. QED  BY <1>1, <1>2, <1>6, <1>7, <1>8 DEF OutInv

\* A masking thread reads a piece of its stream.
LEMMA OutPump ==
    ASSUME OutInv, pc \notin Preparing, NEW s \in Streams, NEW n \in 1..PipeCap,
           spawn_mask_pump(s, n)
    PROVE  OutInv'
<1>. DEFINE chunk == SubSeq(pipe[s], 1, n)
            left == SubSeq(pipe[s], n + 1, Len(pipe[s]))
            after == push(masks, carry[s], chunk)
<1>1. UNCHANGED <<sc, masks, pc, child, bg, guardian, supervisor, wrote, pump, drained>>
  BY Zenon DEF spawn_mask_pump, Quiet, procVars
<1>2. Streams' = Streams
  BY <1>1 DEF Streams
<1>3. /\ pump[s] = "reading" /\ n <= Len(pipe[s])
      /\ pipe' = [pipe EXCEPT ![s] = left]
      /\ carry' = [carry EXCEPT ![s] = after.carry]
      /\ shown' = [shown EXCEPT ![s] = @ \o after.out]
  BY DEF spawn_mask_pump
<1>4. /\ pipe[s] \in Seq(Byte) /\ carry[s] \in Seq(Byte) /\ shown[s] \in Seq(Shown)
      /\ masks \in SUBSET Seq(Byte) /\ wrote[s] \in Seq(Byte)
      /\ masks = {} => carry[s] = <<>>
  BY DEF OutInv, StreamInv
<1>5. chunk \in Seq(Byte) /\ left \in Seq(Byte) /\ chunk \o left = pipe[s]
  <2>1. n \in 1..Len(pipe[s])
    BY <1>3, <1>4, CommandAssumption
  <2>2. chunk \in Seq(Byte) /\ left \in Seq(Byte)
    BY <1>4, <2>1
  <2>3. SubSeq(pipe[s], 1, n) \o SubSeq(pipe[s], n + 1, Len(pipe[s]))
        = SubSeq(pipe[s], 1, Len(pipe[s]))
    <3>1. /\ 1 \in 1..Len(pipe[s]) + 1 /\ n \in 1 - 1..Len(pipe[s])
          /\ Len(pipe[s]) \in n..Len(pipe[s])
      BY <1>4, <2>1
    <3>. QED  BY <1>4, <3>1, ConcatAdjacentSubSeq
  <2>4. SubSeq(pipe[s], 1, Len(pipe[s])) = pipe[s]
    BY <1>4, SubSeqFull
  <2>. QED  BY <2>2, <2>3, <2>4
<1>. HIDE DEF chunk, left
<1>. HIDE DEF after
<1>6. /\ after.out \in Seq(Shown) /\ after.carry \in Seq(Byte)
      /\ masks = {} => after.carry = <<>>
      /\ \A b \in Seq(Byte) : Continues(masks, after, carry[s] \o chunk, b)
  <2>1. after = push(masks, carry[s], chunk) /\ masks \subseteq Seq(Byte)
    BY <1>4 DEF after
  <2>. QED  BY <1>4, <1>5, <2>1, PushSplits DEF Shown
<1>7. shown[s] \o after.out \in Seq(Shown)
  BY <1>4, <1>6
<1>8. /\ pipe'[s] = left /\ carry'[s] = after.carry /\ shown'[s] = shown[s] \o after.out
      /\ \A q \in Streams \ {s} :
           pipe'[q] = pipe[q] /\ carry'[q] = carry[q] /\ shown'[q] = shown[q]
      /\ pipe' \in [Streams -> Seq(Byte)] /\ carry' \in [Streams -> Seq(Byte)]
      /\ shown' \in [Streams -> Seq(Shown)]
  BY <1>3, <1>5, <1>6, <1>7 DEF OutInv, StreamInv
<1>9. StreamInv'
  BY <1>1, <1>2, <1>8 DEF OutInv, StreamInv
<1>10. ASSUME NEW q \in Streams \ drained PROVE Whole(q)'
  <2>1. Whole(q) /\ HasWriter(q)' = HasWriter(q)
    BY <1>1 DEF OutInv, HasWriter
  <2>2. CASE q # s
    BY <1>1, <1>8, <2>1, <2>2 DEF Whole
  <2>3. CASE q = s
    <3>1. ASSUME NEW x \in Seq(Byte)
          PROVE  (shown[s] \o after.out) \o Masked(masks, (after.carry \o left) \o x)
                 = Masked(masks, wrote[s] \o x)
      <4>. DEFINE c == carry[s]
                  k == after.carry
                  o == after.out
                  y == left \o x
      <4>1. c \in Seq(Byte) /\ k \in Seq(Byte) /\ y \in Seq(Byte) /\ o \in Seq(Shown)
        BY <1>4, <1>5, <1>6
      <4>2. (k \o left) \o x = k \o y
        <5>. HIDE DEF k
        <5>1. Assoc(k, left, x)
          BY <1>5, <4>1, Grouping
        <5>. QED  BY <5>1, Zenon DEF Assoc
      <4>3. o \o Masked(masks, k \o y) = Masked(masks, (c \o chunk) \o y)
        <5>. HIDE DEF y
        <5>1. Continues(masks, after, c \o chunk, y)
          BY <1>6, <4>1
        <5>. QED  BY <5>1, Zenon DEF Continues
      <4>4. (c \o chunk) \o y = (c \o pipe[s]) \o x
        <5>. HIDE DEF c
        <5>1. SameGrouping(c, chunk, left, x)
          BY <1>5, <4>1, Regroup
        <5>2. (c \o (chunk \o left)) \o x = (c \o chunk) \o (left \o x)
          BY <5>1, Zenon DEF SameGrouping
        <5>. QED  BY <1>5, <5>2, Zenon
      <4>5. shown[s] \o Masked(masks, (c \o pipe[s]) \o x) = Masked(masks, wrote[s] \o x)
        BY <1>3, <2>1, <2>3 DEF Whole
      <4>. HIDE DEF c, k, o, y
      <4>6. k \o y \in Seq(Byte)
        BY <4>1
      <4>7. Masked(masks, k \o y) \in Seq(Shown)
        BY <1>4, <4>6, MaskedTyped DEF Shown
      <4>. DEFINE m == Masked(masks, k \o y)
      <4>8. (shown[s] \o o) \o m = shown[s] \o (o \o m)
        <5>1. m \in Seq(Shown)
          BY <4>7
        <5>. HIDE DEF m
        <5>2. SameGrouping(shown[s], o, m, m)
          BY <1>4, <4>1, <5>1, Regroup
        <5>. QED  BY <5>2, Zenon DEF SameGrouping
      <4>. QED  BY <4>2, <4>3, <4>4, <4>5, <4>8 DEF k, o
    <3>. QED  BY <1>1, <1>3, <1>8, <2>3, <3>1 DEF Whole
  <2>. QED  BY <2>2, <2>3
<1>11. masks = {} => \A q \in Streams : carry'[q] = <<>>
  BY <1>6, <1>8 DEF OutInv
<1>12. /\ pc = "guarding" => guardian # "none"
       /\ pc = "returned" /\ guardian = "none" =>
            \A q \in Streams : pump[q] = "done"
  BY DEF OutInv
<1>. QED  BY <1>1, <1>2, <1>9, <1>10, <1>11, <1>12 DEF OutInv

\* A masking thread sees the end of its stream.
LEMMA OutPumpEnds ==
    ASSUME OutInv, pc \notin Preparing, NEW s \in Streams, PumpEnds(s)
    PROVE  OutInv'
<1>. DEFINE last == finish(masks, carry[s])
<1>1. UNCHANGED <<sc, masks, pc, child, bg, guardian, supervisor, wrote, pipe, drained>>
  BY Zenon DEF PumpEnds, Quiet, procVars
<1>2. Streams' = Streams
  BY <1>1 DEF Streams
<1>3. /\ pump[s] = "reading" /\ pipe[s] = <<>> /\ ~HasWriter(s)
      /\ shown' = [shown EXCEPT ![s] = @ \o last]
      /\ carry' = [carry EXCEPT ![s] = <<>>]
      /\ pump' = [pump EXCEPT ![s] = "done"]
  BY DEF PumpEnds
<1>4. /\ carry[s] \in Seq(Byte) /\ shown[s] \in Seq(Shown) /\ wrote[s] \in Seq(Byte)
      /\ masks \in SUBSET Seq(Byte)
      /\ masks = {} => carry[s] = <<>>
  BY DEF OutInv, StreamInv
<1>5. last = Masked(masks, carry[s]) /\ last \in Seq(Shown)
  <2>1. last = Masked(masks, carry[s])
    BY <1>4, FinishIsMasked
  <2>2. masks \subseteq Seq(Byte)
    BY <1>4
  <2>. HIDE DEF last
  <2>. QED  BY <1>4, <2>1, <2>2, MaskedTyped DEF Shown
<1>. HIDE DEF last
<1>6. shown[s] \o last \in Seq(Shown)
  BY <1>4, <1>5
<1>7. /\ carry'[s] = <<>> /\ shown'[s] = shown[s] \o last /\ pump'[s] = "done"
      /\ \A q \in Streams \ {s} :
           carry'[q] = carry[q] /\ shown'[q] = shown[q] /\ pump'[q] = pump[q]
      /\ carry' \in [Streams -> Seq(Byte)] /\ shown' \in [Streams -> Seq(Shown)]
      /\ pump' \in [Streams -> {"none", "reading", "done", "cut"}]
  BY <1>3, <1>6 DEF OutInv, StreamInv
<1>8. StreamInv'
  BY <1>1, <1>2, <1>7 DEF OutInv, StreamInv
<1>9. ASSUME NEW q \in Streams \ drained PROVE Whole(q)'
  <2>1. Whole(q) /\ HasWriter(q)' = HasWriter(q)
    BY <1>1 DEF OutInv, HasWriter
  <2>2. CASE q # s
    BY <1>1, <1>7, <2>1, <2>2 DEF Whole
  <2>3. CASE q = s
    <3>1. \A x \in Seq(Byte) : shown[s] \o Masked(masks, (carry[s] \o <<>>) \o x)
                              = Masked(masks, wrote[s] \o x)
      BY <1>3, <2>1, <2>3 DEF Whole
    <3>2. <<>> \in Seq(Byte) /\ (carry[s] \o <<>>) \o <<>> = carry[s]
          /\ wrote[s] \o <<>> = wrote[s]
      BY <1>4, ConcatEmptySeq
    <3>3. shown[s] \o last = Masked(masks, wrote[s])
      BY <1>5, <3>1, <3>2
    <3>. QED  BY <1>1, <1>3, <1>7, <2>1, <2>3, <3>3 DEF Whole
  <2>. QED  BY <2>2, <2>3
<1>10. /\ masks = {} => \A q \in Streams : carry'[q] = <<>>
       /\ pc = "guarding" => guardian # "none"
       /\ pc = "returned" /\ guardian = "none" =>
            \A q \in Streams : pump'[q] = "done"
  BY <1>7 DEF OutInv
<1>. QED  BY <1>1, <1>2, <1>8, <1>9, <1>10 DEF OutInv

\* The guardian throws away what it reads: that stream is no longer ours.
LEMMA OutGuard ==
    ASSUME OutInv, pc \notin Preparing, NEW s \in Streams, guard_io(s)
    PROVE  OutInv'
<1>1. /\ UNCHANGED <<sc, masks, pc, child, bg, guardian, supervisor, wrote, carry, shown, pump>>
      /\ pipe' = [pipe EXCEPT ![s] = <<>>] /\ drained' = drained \cup {s}
  BY Zenon DEF guard_io, Quiet, procVars
<1>2. Streams' = Streams
  BY <1>1 DEF Streams
<1>3. /\ pipe' \in [Streams -> Seq(Byte)]
      /\ \A q \in Streams \ {s} : pipe'[q] = pipe[q]
  BY <1>1 DEF OutInv, StreamInv
<1>4. StreamInv'
  BY <1>1, <1>2, <1>3 DEF OutInv, StreamInv
<1>5. ASSUME NEW q \in Streams \ drained, q # s PROVE Whole(q)'
  <2>1. Whole(q) /\ HasWriter(q)' = HasWriter(q)
    BY <1>1 DEF OutInv, HasWriter
  <2>. QED  BY <1>1, <1>3, <1>5, <2>1 DEF Whole
<1>. QED  BY <1>1, <1>2, <1>4, <1>5 DEF OutInv

\* Nothing but the preparation goes on while secreq prepares, and the streams of
\* a command that is over stay as they are.
LEMMA OutRunning ==
    ASSUME OutInv, EnvInv, ScopeInv, Next, ~Prepare
    PROVE  OutInv'
<1>. USE DEF procVars, ioVars, Writing
<1>1. CASE run_piped \/ wait_for_supervised_child \/ find_survivors
  <2>1. /\ UNCHANGED <<sc, masks, wrote, pipe, carry, shown, drained, pump>>
        /\ UNCHANGED <<child, bg, supervisor>>
        /\ pc' \in {"census", "guard", "join", "poll"}
    BY <1>1 DEF run_piped, wait_for_supervised_child, find_survivors, Quiet
  <2>. QED  BY <2>1, OutKept DEF Preparing
<1>2. CASE SupervisorLost \/ Join
  <2>1. /\ UNCHANGED <<sc, masks, wrote, pipe, carry, shown, drained>>
        /\ UNCHANGED <<child, bg, guardian, supervisor>>
        /\ \/ pc' = "wait" /\ pump' = pump
           \/ Leave("lost")
           \/ Leave("returned") /\ \A s \in Streams : pump[s] = "done"
    BY <1>2 DEF SupervisorLost, Join, Quiet, Returned
  <2>2. pc \notin Preparing
    BY <1>2 DEF SupervisorLost, Join, Preparing
  <2>. QED  BY <2>1, <2>2, OutKept DEF Preparing, Leave
<1>3. CASE spawn_io_guardian
  <2>1. /\ UNCHANGED <<sc, masks, wrote, pipe, carry, shown, drained>>
        /\ UNCHANGED <<child, bg, supervisor>>
        /\ guardian' \in {"running", "self"}
        /\ Returned \/ (pc' = "guarding" /\ pump' = pump)
    BY <1>3 DEF spawn_io_guardian, Quiet
  <2>. QED  BY <2>1, OutKept DEF Preparing, Returned, Leave
<1>4. CASE guard_io_until_scope_empty
  <2>1. /\ UNCHANGED <<sc, masks, wrote, pipe, carry, shown, drained>>
        /\ UNCHANGED <<child, bg, supervisor>>
    BY <1>4 DEF guard_io_until_scope_empty, Quiet
  <2>2. CASE guardian = "running"
    <3>1. guardian' = "done" /\ pc' = pc /\ pump' = pump
      BY <1>4, <2>2 DEF guard_io_until_scope_empty
    <3>. QED  BY <2>1, <3>1, OutKept
  <2>3. CASE guardian # "running"
    <3>1. guardian' = guardian /\ pc = "guarding" /\ Returned
      BY <1>4, <2>3 DEF guard_io_until_scope_empty, Guards
    <3>2. guardian # "none"
      BY <3>1 DEF OutInv
    <3>. QED  BY <2>1, <3>1, <3>2, OutKept DEF Preparing, Returned, Leave
  <2>. QED  BY <2>2, <2>3
<1>5. CASE ChildForks \/ ChildExits \/ Supervise \/ SupervisorDies
           \/ SignalForwarder \/ BgLeaves \/ BgEnds
  <2>1. /\ UNCHANGED <<sc, masks, wrote, pipe, carry, shown, drained, pump, pc, guardian>>
        /\ Writing' => Writing
    BY <1>5 DEF ChildForks, ChildExits, Supervise, write_supervisor_status,
                run_pty_supervisor, SupervisorDies, SignalForwarder, BgLeaves,
                BgEnds, Quiet
  <2>2. /\ pc = "guarding" => guardian # "none"
        /\ pc = "returned" /\ guardian = "none" =>
             \A s \in Streams : pump[s] = "done"
    BY DEF OutInv
  <2>. QED  BY <2>1, <2>2, OutKept
<1>6. ASSUME NEW s \in Streams, BgLosesReader(s) PROVE OutInv'
  <2>1. /\ UNCHANGED <<sc, masks, wrote, pipe, carry, shown, drained, pump, pc, guardian,
                        supervisor, child>>
        /\ bg' = "dead"
    BY <1>6 DEF BgLosesReader, Quiet
  <2>2. /\ pc = "guarding" => guardian # "none"
        /\ pc = "returned" /\ guardian = "none" =>
             \A q \in Streams : pump[q] = "done"
    BY DEF OutInv
  <2>. QED  BY <2>1, <2>2, OutKept
<1>7. ASSUME NEW s \in Streams, NEW b \in sc.prints, ChildPrints(s, b) \/ BgPrints(s, b)
      PROVE  OutInv'
  <2>1. Emit(s, b) /\ HasWriter(s) /\ UNCHANGED <<sc, masks, pc, procVars>>
    BY <1>7, Zenon DEF ChildPrints, BgPrints, Quiet, HasWriter
  <2>3. b \in Bytes
    BY <1>7, CommandAssumption DEF EnvInv, ScenarioType
  <2>2. pc \notin Preparing
    BY <2>1 DEF ScopeInv, HasWriter
  <2>. QED  BY <2>1, <2>2, <2>3, OutEmit
<1>8. ASSUME NEW s \in Streams, Pump(s) PROVE OutInv'
  <2>1. pump[s] = "reading"
    BY <1>8, Zenon DEF Pump, PumpEnds, spawn_mask_pump
  <2>2. pc \notin Preparing
    BY <2>1 DEF OutInv
  <2>. QED  BY <1>8, <2>2, OutPump, OutPumpEnds DEF Pump
<1>9. ASSUME NEW s \in Streams, guard_io(s) PROVE OutInv'
  <2>1. pipe[s] # <<>>
    BY <1>9 DEF guard_io
  <2>2. pc \notin Preparing
    BY <2>1 DEF OutInv
  <2>. QED  BY <1>9, <2>2, OutGuard
<1>. QED  BY <1>1, <1>2, <1>3, <1>4, <1>5, <1>6, <1>7, <1>8, <1>9 DEF Next, Finish

\* Every step keeps the invariant of the output.
LEMMA OutStep == OutInv /\ EnvInv /\ ScopeInv /\ [Next]_vars => OutInv'
<1>. SUFFICES ASSUME OutInv, EnvInv, ScopeInv, [Next]_vars PROVE OutInv'
  OBVIOUS
<1>1. CASE Prepare
  BY <1>1, OutPrepare
<1>2. CASE Next /\ ~Prepare
  BY <1>2, OutRunning
<1>3. CASE UNCHANGED vars
  <2>1. UNCHANGED <<sc, masks, pc, child, bg, guardian, supervisor,
                    wrote, pipe, carry, shown, pump, drained>>
    BY <1>3 DEF vars, procVars, ioVars
  <2>2. /\ pc = "guarding" => guardian # "none"
        /\ pc = "returned" /\ guardian = "none" =>
             \A s \in Streams : pump[s] = "done"
    BY DEF OutInv
  <2>. QED  BY <2>1, <2>2, OutKept DEF Writing
<1>. QED  BY <1>1, <1>2, <1>3

\* The invariant of the output holds before anything is printed.
LEMMA OutInit == Init => OutInv
<1>. SUFFICES ASSUME Init PROVE OutInv
  OBVIOUS
<1>1. StreamInv
  BY DEF Init, StreamInv
<1>2. \A s \in Streams : Whole(s)
  BY DEF Init, Whole
<1>. QED  BY <1>1, <1>2 DEF Init, OutInv

\* The invariant of the output.
THEOREM OutInvariance == Spec => []OutInv
<1>1. Init => ScopeInv
  BY DEF Init, ScopeInv, Preparing
<1>. QED  BY <1>1, ScopeKept, EnvInit, EnvStep, OutInit, OutStep, PTL DEF Spec

\* mask.rs's promise that a secret cannot leak by straddling two reads: however
\* the pipe cuts the output, what has been shown, and will be shown of the carry
\* and the unread bytes, is all that the stream carried masked in one piece, and
\* secreq returns without survivors only when all of it is shown.  What a
\* terminal carries has CR and NL for a newline; an error return over a
\* supervisor found gone is not a return here.
THEOREM OutputIsMaskedWholeHolds == Spec => []OutputIsMaskedWhole
<1>1. OutInv => OutputIsMaskedWhole
  <2>. SUFFICES ASSUME OutInv, NEW s \in Streams \ drained
                PROVE  /\ pump[s] = "reading"
                          => shown[s] \o Masked(masks, carry[s] \o pipe[s])
                             = Masked(masks, wrote[s])
                       /\ pump[s] = "done" => shown[s] = Masked(masks, wrote[s])
                       /\ pc = "returned" /\ guardian = "none" => pump[s] = "done"
    BY DEF OutputIsMaskedWhole
  <2>1. Whole(s)
    BY DEF OutInv
  <2>2. ASSUME pump[s] = "reading"
        PROVE  shown[s] \o Masked(masks, carry[s] \o pipe[s]) = Masked(masks, wrote[s])
    <3>1. shown[s] \o Masked(masks, (carry[s] \o pipe[s]) \o <<>>)
          = Masked(masks, wrote[s] \o <<>>)
      <4>1. <<>> \in Seq(Byte)
        OBVIOUS
      <4>. QED  BY <2>1, <2>2, <4>1 DEF Whole
    <3>2. carry[s] \in Seq(Byte) /\ pipe[s] \in Seq(Byte) /\ wrote[s] \in Seq(Byte)
      BY DEF OutInv, StreamInv
    <3>3. carry[s] \o pipe[s] \in Seq(Byte)
      BY <3>2
    <3>4. (carry[s] \o pipe[s]) \o <<>> = carry[s] \o pipe[s] /\ wrote[s] \o <<>> = wrote[s]
      BY <3>2, <3>3, ConcatEmptySeq
    <3>. QED  BY <3>1, <3>4
  <2>. QED  BY <2>1, <2>2 DEF OutInv, Whole
<1>. QED  BY <1>1, OutInvariance, PTL
=============================================================================
